--------------------------- MODULE GatherPipeline ---------------------------
(***************************************************************************)
(* handlers/gather.go: a developer's batch jobs that collect patterns from *)
(* Ravelry.  A job is three goroutines joined by two channels: the source  *)
(* sends a list of pattern ids, the fetcher turns one list into patterns,  *)
(* and the sink takes one list of patterns.                                *)
(*                                                                         *)
(* SearchYnRavelPosts starts a job for every yarn weight, and all of them  *)
(* share one pair of channels with room for one list each                  *)
(* (TestGetSearchPosts); the sink downloads the photos to files named      *)
(* after their pattern.  GatherRavelPosts starts a job for every batch of  *)
(* ids, with channels of its own; the sink adds the photos to the hash     *)
(* index (HashIndex).                                                      *)
(*                                                                         *)
(* A goroutine that panics takes the process, and every job, with it.      *)
(***************************************************************************)
EXTENDS Naturals, Sequences, FiniteSets

CONSTANTS
    Weight,    \* jobs of SearchYnRavelPosts
    Batch,     \* jobs of GatherRavelPosts
    Shared,    \* the channels the weights share
    Room,      \* capacity of a batch's channels: amount - inc
    Photo,     \* photos of all patterns, each of one weight
    Of,        \* the weight whose search lists each photo's pattern
    File,      \* paths under assets/datasets/yarnweights
    Path,      \* the path of each photo: group, name and number
    Empty,     \* an empty list; no photo
    Before     \* the photo in a file that an earlier run left

Job == Weight \cup Batch

ASSUME ConstantsAssumption ==
    /\ IsFiniteSet(Weight) /\ Weight # {}
    /\ Weight \cap Batch = {}
    /\ Shared \notin Batch
    /\ Room \in Nat \ {0}
    /\ Of \in [Photo -> Weight] /\ Path \in [Photo -> File]
    /\ Empty # Before
    /\ {Empty, Before} \cap (Job \cup Photo) = {}

VARIABLES
    source,   \* the goroutines that look for ids
    fetcher,  \* GetRavelryPatternFull
    sink,     \* DownloadImages, AddRavelhash
    ids,      \* channels of lists of ids, a list named by the job that found it
    posts,    \* channels of lists of patterns, likewise
    file,     \* the directory: who created the file at each path
    content,  \* the halves of what each created file holds
    crashed   \* has the process ended in a panic?

vars == <<source, fetcher, sink, ids, posts, file, content, crashed>>
files == <<file, content>>

-----------------------------------------------------------------------------
Channel == {Shared} \cup Batch
ChannelOf(j) == IF j \in Weight THEN Shared ELSE j
\* Mutant: one fewer.
CapacityOneLess(c) == IF c = Shared THEN Cardinality(Weight) - 1 ELSE Room

Capacity(c) == IF c = Shared THEN Cardinality(Weight) ELSE Room
List == Job \cup {Empty}

\* A source still has to send the lists out, goes then to then, and has sent so
\* many lists.
Source == [at : {"ask", "send", "panic", "over"}, out : Seq(List),
           then : {"over", "panic"}, sent : 0 .. 2]
Fetcher == [at : {"take", "put", "over"}, list : List]

\* A sink takes a list, then for each photo left looks for its file, creates it,
\* writes it in two halves and looks at its size.
Sink == [at : {"take", "next", "create", "decode", "half", "stat", "remove",
               "over"},
         left : SUBSET Photo, photo : Photo \cup {Empty},
         out : Photo \cup {Before, Empty}]

\* A file is named by the photo for which it was created.
Created == Photo \cup {Before}
Nothing == [half \in 1 .. 2 |-> Empty]

\* Channels within their capacity, no search sends more than two lists, and
\* goroutines, directory and files have the shape their code gives them.
TypeOK ==
    /\ source \in [Job -> Source]
    /\ fetcher \in [Job -> Fetcher]
    /\ sink \in [Job -> Sink]
    /\ ids \in [Channel -> Seq(List)] /\ posts \in [Channel -> Seq(List)]
    /\ \A c \in Channel : Len(ids[c]) <= Capacity(c) /\ Len(posts[c]) <= Capacity(c)
    /\ file \in [File -> Created \cup {Empty}]
    /\ content \in [Created -> [1 .. 2 -> Created \cup {Empty}]]
    /\ crashed \in BOOLEAN

Init ==
    /\ source = [j \in Job |-> [at |-> "ask", out |-> <<>>, then |-> "over",
                               sent |-> 0]]
    /\ fetcher = [j \in Job |-> [at |-> "take", list |-> Empty]]
    /\ sink = [j \in Job |-> [at |-> "take", left |-> {}, photo |-> Empty,
                              out |-> Empty]]
    /\ ids = [c \in Channel |-> <<>>] /\ posts = [c \in Channel |-> <<>>]
    /\ file \in [File -> {Empty, Before}]
    /\ content = [c \in Created |-> [half \in 1 .. 2 |->
                                       IF c = Before THEN Before ELSE Empty]]
    /\ crashed = FALSE

-----------------------------------------------------------------------------
(* Sources: GetherSearchYnPosts and GetRavelIds *)

Asked(j, out, then) ==
    source' = [source EXCEPT ![j] =
                 [@ EXCEPT !.at = IF out = <<>> THEN then ELSE "send",
                           !.out = out, !.then = then]]

\* Mutant: a body that breaks off is answered with an empty list too, and falls
\* through.
SearchSendsThrice(w) ==
    /\ source[w].at = "ask"
    /\ \/ \E list \in {w, Empty} : Asked(w, <<list>>, "over")
       \/ Asked(w, <<Empty, Empty>>, "over")
       \/ Asked(w, <<Empty, Empty, Empty>>, "over")
       \/ Asked(w, <<>>, "over")
       \/ \E out \in {<<>>, <<Empty>>} : Asked(w, out, "panic")
    /\ UNCHANGED <<fetcher, sink, ids, posts, files, crashed>>

\* The answer lists patterns, or none.  A body that is not JSON sends an empty
\* list and falls through to the send below.  A status of 400 or more sends
\* nothing.  A request that fails sends an empty list and falls through to the
\* nil request or response.  A pattern that is no object is a panic at once.
Search(w) ==
    /\ source[w].at = "ask"
    /\ \/ \E list \in {w, Empty} : Asked(w, <<list>>, "over")
       \/ Asked(w, <<Empty, Empty>>, "over")
       \/ Asked(w, <<>>, "over")
       \/ \E out \in {<<>>, <<Empty>>} : Asked(w, out, "panic")
    /\ UNCHANGED <<fetcher, sink, ids, posts, files, crashed>>

\* One list is sent, be it empty, unless a pattern is no object.
GetRavelIds(b) ==
    /\ source[b].at = "ask"
    /\ \/ \E list \in {b, Empty} : Asked(b, <<list>>, "over")
       \/ Asked(b, <<>>, "panic")
    /\ UNCHANGED <<fetcher, sink, ids, posts, files, crashed>>

\* ch <- ids blocks while the channel is full.
SendIds(j) ==
    LET c == ChannelOf(j)
        rest == Tail(source[j].out)
    IN  /\ source[j].at = "send"
        /\ Len(ids[c]) < Capacity(c)
        /\ ids' = [ids EXCEPT ![c] = Append(@, Head(source[j].out))]
        /\ source' = [source EXCEPT ![j] =
                        [@ EXCEPT !.at = IF rest = <<>> THEN source[j].then ELSE "send",
                                  !.out = rest, !.sent = source[j].sent + 1]]
        /\ UNCHANGED <<fetcher, sink, posts, files, crashed>>

\* req.URL or res.StatusCode of nil, or items.(map[string]interface{}) of
\* something else, in a goroutine nobody recovers.
Panic(j) ==
    /\ source[j].at = "panic"
    /\ crashed' = TRUE
    /\ UNCHANGED <<source, fetcher, sink, ids, posts, files>>

-----------------------------------------------------------------------------
(* GetRavelryPatternFull *)

\* Mutant: whether a request can be made is looked at before the ids are taken.
TakeIdsOrGiveUp(j) ==
    LET c == ChannelOf(j)
    IN  /\ fetcher[j].at = "take"
        /\ \/ /\ ids[c] # <<>>
              /\ fetcher' = [fetcher EXCEPT ![j] = [at |-> "put", list |-> Head(ids[c])]]
              /\ ids' = [ids EXCEPT ![c] = Tail(@)]
           \/ /\ fetcher' = [fetcher EXCEPT ![j] = [at |-> "put", list |-> Empty]]
              /\ UNCHANGED ids
        /\ UNCHANGED <<source, sink, posts, files, crashed>>

TakeIds(j) ==
    LET c == ChannelOf(j)
    IN  /\ fetcher[j].at = "take"
        /\ ids[c] # <<>>
        /\ fetcher' = [fetcher EXCEPT ![j] = [at |-> "put", list |-> Head(ids[c])]]
        /\ ids' = [ids EXCEPT ![c] = Tail(@)]
        /\ UNCHANGED <<source, sink, posts, files, crashed>>

\* Mutant: an error is logged and nothing put.
PutPostsUnlessError(j) ==
    LET c == ChannelOf(j)
    IN  /\ fetcher[j].at = "put"
        /\ Len(posts[c]) < Capacity(c)
        /\ \/ posts' = [posts EXCEPT ![c] = Append(@, fetcher[j].list)]
           \/ UNCHANGED posts
        /\ fetcher' = [fetcher EXCEPT ![j] = [at |-> "over", list |-> Empty]]
        /\ UNCHANGED <<source, sink, ids, files, crashed>>

\* The patterns of the ids, or after any error none: one list on every path.
PutPosts(j) ==
    LET c == ChannelOf(j)
    IN  /\ fetcher[j].at = "put"
        /\ Len(posts[c]) < Capacity(c)
        /\ \E list \in {fetcher[j].list, Empty} :
             posts' = [posts EXCEPT ![c] = Append(@, list)]
        /\ fetcher' = [fetcher EXCEPT ![j] = [at |-> "over", list |-> Empty]]
        /\ UNCHANGED <<source, sink, ids, files, crashed>>

-----------------------------------------------------------------------------
(* Sinks *)

Sinks(j, at) == sink' = [sink EXCEPT ![j] = [@ EXCEPT !.at = at]]

\* AddRavelhash: the goroutines it starts are those of HashIndex.
AddRavelhash(b) ==
    /\ sink[b].at = "take"
    /\ posts[b] # <<>>
    /\ posts' = [posts EXCEPT ![b] = Tail(@)]
    /\ Sinks(b, "over")
    /\ UNCHANGED <<source, fetcher, ids, files, crashed>>

\* DownloadImages.  Photos without a link, or of a weight that is in no group,
\* are not in Photo.
TakePosts(w) ==
    /\ sink[w].at = "take"
    /\ posts[Shared] # <<>>
    /\ posts' = [posts EXCEPT ![Shared] = Tail(@)]
    /\ LET list == Head(posts[Shared])
       IN  sink' = [sink EXCEPT ![w] =
                      [@ EXCEPT !.at = "next",
                                !.left = {p \in Photo : Of[p] = list}]]
    /\ UNCHANGED <<source, fetcher, ids, files, crashed>>

Finish(w) ==
    /\ sink[w].at = "next" /\ sink[w].left = {}
    /\ Sinks(w, "over")
    /\ UNCHANGED <<source, fetcher, ids, posts, files, crashed>>

\* downloadImage up to fileExists; a photo that cannot be had is skipped.
Download(w) ==
    /\ sink[w].at = "next"
    /\ \E p \in sink[w].left, had \in BOOLEAN :
         sink' = [sink EXCEPT ![w] =
                    [@ EXCEPT !.at = IF ~had THEN "next"
                                     ELSE IF file[Path[p]] = Empty THEN "create"
                                     ELSE "stat",
                              !.left = sink[w].left \ {p},
                              !.photo = IF had THEN p ELSE Empty]]
    /\ UNCHANGED <<source, fetcher, ids, posts, files, crashed>>

Target(w) == Path[sink[w].photo]

\* os.Create empties a file another goroutine has created since; it may fail.
Create(w) ==
    LET out == IF file[Target(w)] = Empty THEN sink[w].photo ELSE file[Target(w)]
    IN  /\ sink[w].at = "create"
        /\ \/ /\ file' = [file EXCEPT ![Target(w)] = out]
              /\ content' = [content EXCEPT ![out] = Nothing]
              /\ sink' = [sink EXCEPT ![w] =
                            [@ EXCEPT !.at = "decode", !.out = out]]
           \/ Sinks(w, "next") /\ UNCHANGED files
        /\ UNCHANGED <<source, fetcher, ids, posts, crashed>>

Remove(f) == file' = [file EXCEPT ![f] = Empty]

Write(w, half) ==
    content' = [content EXCEPT ![sink[w].out][half] = sink[w].photo]

\* Mutant: a body that is no JPEG is reported and its file left.
DecodeLeavesFile(w) ==
    /\ sink[w].at = "decode"
    /\ \/ Write(w, 1) /\ Sinks(w, "half") /\ UNCHANGED file
       \/ Sinks(w, "next") /\ UNCHANGED files
    /\ UNCHANGED <<source, fetcher, ids, posts, crashed>>

\* Mutant: a body that is no JPEG is asked for again.
DecodeAgain(w) ==
    /\ sink[w].at = "decode"
    /\ \/ Write(w, 1) /\ Sinks(w, "half") /\ UNCHANGED file
       \/ Remove(Target(w)) /\ Sinks(w, "create") /\ UNCHANGED content
    /\ UNCHANGED <<source, fetcher, ids, posts, crashed>>

\* jpeg.Decode, and the first writes of jpeg.Encode.
Decode(w) ==
    /\ sink[w].at = "decode"
    /\ \/ Write(w, 1) /\ Sinks(w, "half") /\ UNCHANGED file
       \/ Remove(Target(w)) /\ Sinks(w, "next") /\ UNCHANGED content
    /\ UNCHANGED <<source, fetcher, ids, posts, crashed>>

\* Mutant: an image that cannot be written to the end is left.
EncodeLeavesFile(w) ==
    /\ sink[w].at = "half"
    /\ \/ Write(w, 2) /\ Sinks(w, "stat") /\ UNCHANGED file
       \/ Sinks(w, "next") /\ UNCHANGED files
    /\ UNCHANGED <<source, fetcher, ids, posts, crashed>>

\* The rest of jpeg.Encode.
Encode(w) ==
    /\ sink[w].at = "half"
    /\ \/ Write(w, 2) /\ Sinks(w, "stat") /\ UNCHANGED file
       \/ Remove(Target(w)) /\ Sinks(w, "next") /\ UNCHANGED content
    /\ UNCHANGED <<source, fetcher, ids, posts, crashed>>

\* DownloadImages looks at the size of whatever is at the path now, and if it is
\* empty or there is nothing...
Stat(w) ==
    LET found == file[Target(w)]
    IN  /\ sink[w].at = "stat"
        /\ Sinks(w, IF found = Empty \/ content[found] = Nothing
                    THEN "remove" ELSE "next")
        /\ UNCHANGED <<source, fetcher, ids, posts, files, crashed>>

\* ... looks again, and removes whatever is there by then.
RemoveEmpty(w) ==
    /\ sink[w].at = "remove"
    /\ Remove(Target(w)) /\ Sinks(w, "next")
    /\ UNCHANGED <<source, fetcher, ids, posts, content, crashed>>

-----------------------------------------------------------------------------
Collect(w) ==
    \/ TakePosts(w) \/ Finish(w) \/ Download(w) \/ Create(w)
    \/ Decode(w) \/ Encode(w) \/ Stat(w) \/ RemoveEmpty(w)
Gather(b) == GetRavelIds(b) \/ AddRavelhash(b)
Pass(j) == SendIds(j) \/ TakeIds(j) \/ PutPosts(j)

Next ==
    /\ ~crashed
    /\ \/ \E w \in Weight : Search(w) \/ Collect(w)
       \/ \E b \in Batch : Gather(b)
       \/ \E j \in Job : Pass(j) \/ Panic(j)

Spec == Init /\ [][Next]_vars

\* The scheduler runs every goroutine that can go on, and Ravelry answers or
\* refuses every request.
Fairness ==
    /\ \A j \in Job :
         /\ WF_vars(~crashed /\ (SendIds(j) \/ Panic(j)))
         /\ WF_vars(~crashed /\ (TakeIds(j) \/ PutPosts(j)))
    /\ \A b \in Batch :
         /\ WF_vars(~crashed /\ GetRavelIds(b))
         /\ WF_vars(~crashed /\ AddRavelhash(b))
    /\ \A w \in Weight :
         /\ WF_vars(~crashed /\ Search(w))
         /\ WF_vars(~crashed /\ Collect(w))

LiveSpec == Spec /\ Fairness

-----------------------------------------------------------------------------
(* Properties *)

\* A search that finds its channel full is never stuck there: although a search
\* may send two lists, as many as the weights fit in the channel and as many are
\* taken.
NoSenderStuck ==
    \A w \in Weight :
        source[w].at = "send" /\ Len(ids[Shared]) = Capacity(Shared)
          => \E v \in Weight : fetcher[v].at = "take"

\* Unless a search sends a second list, no list is left behind in the channel of
\* the weights: a fetcher is still to come for each.
NoIdsLost ==
    (\A w \in Weight : source[w].sent < 2)
      => Len(ids[Shared]) <= Cardinality({w \in Weight : fetcher[w].at = "take"})

AtWorkOn(w, f) ==
    /\ sink[w].at \in {"decode", "half", "stat", "remove"}
    /\ Target(w) = f
Settled(f) == file[f] # Empty /\ \A w \in Weight : ~AtWorkOn(w, f)
WeightsShare(f) ==
    \E p, q \in Photo : Path[p] = f /\ Path[q] = f /\ Of[p] # Of[q]

\* Whatever request, decoding or write fails, and however downloads to one path
\* overlap, no sink leaves an empty file in the data set and goes on.  (A panic
\* ends the process with sinks at work, and what these had begun stays.)
NoEmptyFileLeft == \A f \in File : Settled(f) => content[file[f]] # Nothing

\* A file left in the data set is one whole image, unless two weights of one
\* group have patterns of one name, whose downloads run at once.
WholeUnlessShared ==
    \A f \in File :
        Settled(f) /\ ~WeightsShare(f)
          => /\ content[file[f]][1] = content[file[f]][2]
             /\ content[file[f]][1] # Empty

Over(j) == {source[j].at, fetcher[j].at, sink[j].at} = {"over"}
Refused(w) == source[w].at = "over" /\ source[w].sent = 0
AllOver ==
    /\ \A b \in Batch : Over(b)
    /\ (\E w \in Weight : Refused(w)) \/ \A w \in Weight : Over(w)

\* No goroutine of a job can go on by itself: each is over, or waits for a channel.
Waits(j) ==
    LET c == ChannelOf(j)
        IsFull(channel) == Len(channel[c]) = Capacity(c)
    IN  /\ source[j].at = "over" \/ (source[j].at = "send" /\ IsFull(ids))
        /\ \/ fetcher[j].at = "over"
           \/ fetcher[j].at = "take" /\ ids[c] = <<>>
           \/ fetcher[j].at = "put" /\ IsFull(posts)
        /\ sink[j].at = "over" \/ (sink[j].at = "take" /\ posts[c] = <<>>)

\* However sources, fetchers and sinks overlap, they never all wait for each
\* other: when none can go on all are over, unless Ravelry refused a search.  The
\* sizes of the channels and the list that every error path still sends see to it.
NoneWaitsForAll == (\A j \in Job : Waits(j)) => AllOver

\* Every goroutine of every batch comes to its end, and those of the weights do
\* unless Ravelry refused one of the searches: what the weights lack is then a
\* list, for which one fetcher and one sink wait for ever.
EveryStageEnds == <>(crashed \/ AllOver)
=============================================================================
