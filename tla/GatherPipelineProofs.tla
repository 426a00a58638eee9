------------------------ MODULE GatherPipelineProofs ------------------------
(***************************************************************************)
(* What GatherPipeline guarantees for any number of weights, batches,      *)
(* photos and paths.  The channels and the files are proved about apart:   *)
(* no step's effect on the ones depends on the others.                     *)
(***************************************************************************)
EXTENDS GatherPipeline, FiniteSetTheorems, TLAPS

pipe == <<source, fetcher, ids, posts>>
store == <<sink, file, content>>

-----------------------------------------------------------------------------
(* The channels *)

PipeTyped ==
    /\ source \in [Job -> Source]
    /\ fetcher \in [Job -> Fetcher]
    /\ ids \in [Channel -> Seq(List)] /\ posts \in [Channel -> Seq(List)]
    /\ \A c \in Channel : Len(ids[c]) <= Capacity(c) /\ Len(posts[c]) <= Capacity(c)

\* A source asks before it sends, and sends two lists at most.
SourcesOK ==
    \A j \in Job :
        /\ source[j].at = "ask" => source[j].sent = 0
        /\ source[j].sent + Len(source[j].out) <= 2
        /\ source[j].at = "send" => source[j].out # <<>>

Once == {w \in Weight : source[w].sent >= 1}
Twice == {w \in Weight : source[w].sent = 2}
Taken == {w \in Weight : fetcher[w].at # "take"}

\* Every list a weight has sent was taken by a fetcher, or waits in the channel.
Counted ==
    Len(ids[Shared]) + Cardinality(Taken) = Cardinality(Once) + Cardinality(Twice)

PipeInv == PipeTyped /\ SourcesOK /\ Counted

LEMMA WeightSubsets ==
    \A S \in SUBSET Weight :
        /\ IsFiniteSet(S) /\ Cardinality(S) \in Nat
        /\ Cardinality(S) <= Cardinality(Weight)
  BY ConstantsAssumption, FS_Subset, FS_CardinalityType

LEMMA ChannelFacts ==
    /\ Weight \subseteq Job /\ Batch \subseteq Job
    /\ \A j \in Job : ChannelOf(j) \in Channel
    /\ \A w \in Weight : w \notin Batch /\ ChannelOf(w) = Shared
    /\ \A b \in Batch : b \notin Weight /\ ChannelOf(b) = b /\ b # Shared
    /\ Shared \in Channel /\ Capacity(Shared) = Cardinality(Weight)
    /\ \A c \in Channel : Capacity(c) \in Nat
  BY ConstantsAssumption, WeightSubsets DEF Job, ChannelOf, Channel, Capacity

LEMMA InitPipe == Init => PipeInv
<1>. SUFFICES ASSUME Init PROVE PipeInv
  OBVIOUS
<1>1. <<>> \in Seq(List) /\ Len(<<>>) = 0
  OBVIOUS
<1>2. PipeTyped
  BY <1>1, ChannelFacts DEF Init, PipeTyped, Source, Fetcher, List
<1>3. SourcesOK
  BY <1>1 DEF Init, SourcesOK
<1>4. Taken = {} /\ Once = {} /\ Twice = {}
  BY ChannelFacts DEF Init, Taken, Once, Twice
<1>5. Len(ids[Shared]) = 0
  BY <1>1, ChannelFacts DEF Init
<1>6. Counted
  BY <1>4, <1>5, FS_EmptySet DEF Counted
<1>. QED BY <1>2, <1>3, <1>6 DEF PipeInv

\* What a source that asks for ids does to the invariant, and what it does not.
LEMMA AskedPipe ==
    ASSUME PipeInv, NEW j \in Job, source[j].at = "ask",
           NEW out \in Seq(List), Len(out) <= 2, NEW then \in {"over", "panic"},
           Asked(j, out, then), UNCHANGED <<fetcher, ids, posts>>
    PROVE  PipeInv'
<1>1. PICK q : q = source[j] /\ q \in Source
  BY DEF PipeInv, PipeTyped
<1>2. PICK p : p = [q EXCEPT !.at = IF out = <<>> THEN then ELSE "send",
                             !.out = out, !.then = then]
  OBVIOUS
<1>3. source' = [source EXCEPT ![j] = p]
  BY <1>1, <1>2 DEF Asked
<1>4. /\ p \in Source /\ p.sent = q.sent /\ p.out = out
      /\ p.at = IF out = <<>> THEN then ELSE "send"
  BY <1>1, <1>2 DEF Source
<1>5. q.sent = 0
  BY <1>1 DEF PipeInv, SourcesOK
<1>6. source \in [Job -> Source]
  BY DEF PipeInv, PipeTyped
<1>7. PipeTyped'
  BY <1>3, <1>4, <1>6 DEF PipeInv, PipeTyped
<1>8. SourcesOK'
  <2>. SUFFICES ASSUME NEW i \in Job
                PROVE  /\ source'[i].at = "ask" => source'[i].sent = 0
                       /\ source'[i].sent + Len(source'[i].out) <= 2
                       /\ source'[i].at = "send" => source'[i].out # <<>>
    BY DEF SourcesOK
  <2>1. CASE i # j
    BY <1>3, <1>6, <2>1 DEF PipeInv, SourcesOK
  <2>2. CASE i = j
    <3>1. source'[i] = p
      BY <1>3, <1>6, <2>2
    <3>2. Len(out) \in Nat
      OBVIOUS
    <3>. QED BY <1>4, <1>5, <3>1, <3>2
  <2>. QED BY <2>1, <2>2
<1>9. \A w \in Weight : source'[w].sent = source[w].sent
  BY <1>1, <1>3, <1>4, <1>6, ChannelFacts
<1>10. Once' = Once /\ Twice' = Twice /\ Taken' = Taken
  BY <1>9 DEF Once, Twice, Taken
<1>11. Counted'
  BY <1>10 DEF PipeInv, Counted
<1>. QED BY <1>7, <1>8, <1>11 DEF PipeInv

LEMMA SearchPipe ==
    ASSUME PipeInv, NEW w \in Weight, Search(w)
    PROVE  PipeInv'
<1>1. /\ w \in Job /\ w \in List /\ Empty \in List /\ source[w].at = "ask"
      /\ UNCHANGED <<fetcher, ids, posts>>
  BY ChannelFacts DEF Search, List
<1>2. ASSUME NEW out \in Seq(List), Len(out) <= 2,
             NEW then \in {"over", "panic"}, Asked(w, out, then)
      PROVE  PipeInv'
  BY <1>1, <1>2, AskedPipe, Zenon
<1>3. ASSUME NEW list \in {w, Empty}, Asked(w, <<list>>, "over") PROVE PipeInv'
  <2>1. <<list>> \in Seq(List) /\ Len(<<list>>) <= 2
    BY <1>1
  <2>. QED BY <1>2, <1>3, <2>1, Zenon
<1>4. ASSUME Asked(w, <<Empty, Empty>>, "over") PROVE PipeInv'
  <2>1. <<Empty, Empty>> \in Seq(List) /\ Len(<<Empty, Empty>>) <= 2
    BY <1>1
  <2>. QED BY <1>2, <1>4, <2>1, Zenon
<1>5. ASSUME Asked(w, <<>>, "over") PROVE PipeInv'
  <2>1. <<>> \in Seq(List) /\ Len(<<>>) <= 2
    OBVIOUS
  <2>. QED BY <1>2, <1>5, <2>1, Zenon
<1>6. ASSUME NEW out \in {<<>>, <<Empty>>}, Asked(w, out, "panic") PROVE PipeInv'
  <2>1. /\ <<>> \in Seq(List) /\ Len(<<>>) <= 2
        /\ <<Empty>> \in Seq(List) /\ Len(<<Empty>>) <= 2
    BY <1>1
  <2>2. out = <<>> \/ out = <<Empty>>
    BY <1>6
  <2>3. out \in Seq(List) /\ Len(out) <= 2
    BY <2>1, <2>2, Zenon
  <2>. QED BY <1>2, <1>6, <2>3, Zenon
<1>. QED BY <1>3, <1>4, <1>5, <1>6 DEF Search

LEMMA GetRavelIdsPipe ==
    ASSUME PipeInv, NEW b \in Batch, GetRavelIds(b)
    PROVE  PipeInv'
<1>1. /\ b \in Job /\ b \in List /\ Empty \in List /\ source[b].at = "ask"
      /\ UNCHANGED <<fetcher, ids, posts>>
  BY ChannelFacts DEF GetRavelIds, List
<1>2. ASSUME NEW out \in Seq(List), Len(out) <= 2,
             NEW then \in {"over", "panic"}, Asked(b, out, then)
      PROVE  PipeInv'
  BY <1>1, <1>2, AskedPipe, Zenon
<1>3. ASSUME NEW list \in {b, Empty}, Asked(b, <<list>>, "over") PROVE PipeInv'
  <2>1. <<list>> \in Seq(List) /\ Len(<<list>>) <= 2
    BY <1>1
  <2>. QED BY <1>2, <1>3, <2>1, Zenon
<1>4. ASSUME Asked(b, <<>>, "panic") PROVE PipeInv'
  <2>1. <<>> \in Seq(List) /\ Len(<<>>) <= 2
    OBVIOUS
  <2>. QED BY <1>2, <1>4, <2>1, Zenon
<1>. QED BY <1>3, <1>4 DEF GetRavelIds

\* Sending moves one list from a source to its channel, and if the source is a
\* weight's, one weight from those who have not sent, or not twice.
LEMMA SendIdsPipe ==
    ASSUME PipeInv, NEW j \in Job, SendIds(j)
    PROVE  PipeInv'
<1>. DEFINE c == ChannelOf(j)
<1>1. PICK q : q = source[j] /\ q \in Source
  BY DEF PipeInv, PipeTyped
<1>2. PICK p : p = [q EXCEPT !.at = IF Tail(q.out) = <<>> THEN q.then ELSE "send",
                             !.out = Tail(q.out), !.sent = q.sent + 1]
  OBVIOUS
<1>3. /\ q.at = "send" /\ Len(ids[c]) < Capacity(c) /\ c \in Channel
      /\ ids' = [ids EXCEPT ![c] = Append(ids[c], Head(q.out))]
      /\ source' = [source EXCEPT ![j] = p]
      /\ UNCHANGED <<fetcher, posts>>
  BY <1>1, <1>2, ChannelFacts DEF SendIds
<1>4. q.sent \in Nat /\ q.out \in Seq(List) /\ q.out # <<>> /\ q.sent + Len(q.out) <= 2
  BY <1>1, <1>3 DEF PipeInv, SourcesOK, Source
<1>5. /\ Head(q.out) \in List /\ Tail(q.out) \in Seq(List)
      /\ Len(Tail(q.out)) = Len(q.out) - 1 /\ Len(q.out) \in Nat \ {0}
  BY <1>4
<1>6. /\ p \in Source /\ p.sent = q.sent + 1 /\ p.out = Tail(q.out)
      /\ p.at = IF Tail(q.out) = <<>> THEN q.then ELSE "send"
  <2>1. p.sent = q.sent + 1 /\ q.sent + 1 \in 0 .. 2
    BY <1>1, <1>2, <1>4, <1>5 DEF Source
  <2>2. p.out = Tail(q.out) /\ p.at = IF Tail(q.out) = <<>> THEN q.then ELSE "send"
    BY <1>1, <1>2 DEF Source
  <2>3. q.then \in {"over", "panic"}
    BY <1>1 DEF Source
  <2>4. p \in Source
    BY <1>1, <1>2, <1>3, <1>5, <2>1, <2>3 DEF Source
  <2>. QED BY <2>1, <2>2, <2>4
<1>7. /\ source \in [Job -> Source] /\ ids \in [Channel -> Seq(List)]
      /\ \A d \in Channel : Len(ids[d]) <= Capacity(d)
  BY DEF PipeInv, PipeTyped
<1>8. PICK s : s = Append(ids[c], Head(q.out))
  OBVIOUS
<1>9. s \in Seq(List) /\ Len(s) = Len(ids[c]) + 1 /\ Len(ids[c]) \in Nat
  BY <1>3, <1>5, <1>7, <1>8
<1>10. ids' = [ids EXCEPT ![c] = s]
  BY <1>3, <1>8
<1>. HIDE DEF c
<1>11. PipeTyped'
  <2>1. source' \in [Job -> Source] /\ ids' \in [Channel -> Seq(List)]
    BY <1>3, <1>6, <1>7, <1>9, <1>10
  <2>2. ASSUME NEW d \in Channel PROVE Len(ids'[d]) <= Capacity(d)
    <3>1. CASE d = c
      BY <1>3, <1>7, <1>9, <1>10, <3>1, ChannelFacts
    <3>2. CASE d # c
      BY <1>7, <1>10, <3>2
    <3>. QED BY <3>1, <3>2
  <2>. QED BY <1>3, <2>1, <2>2 DEF PipeInv, PipeTyped, Capacity
<1>12. SourcesOK'
  <2>. SUFFICES ASSUME NEW i \in Job
                PROVE  /\ source'[i].at = "ask" => source'[i].sent = 0
                       /\ source'[i].sent + Len(source'[i].out) <= 2
                       /\ source'[i].at = "send" => source'[i].out # <<>>
    BY DEF SourcesOK
  <2>1. CASE i # j
    BY <1>3, <1>7, <2>1 DEF PipeInv, SourcesOK
  <2>2. CASE i = j
    <3>1. source'[i] = p
      BY <1>3, <1>7, <2>2
    <3>2. p.at # "ask" /\ (p.at = "send" => p.out # <<>>)
      BY <1>1, <1>3, <1>6 DEF Source
    <3>3. p.sent + Len(p.out) <= 2
      BY <1>4, <1>5, <1>6
    <3>. QED BY <3>1, <3>2, <3>3
  <2>. QED BY <2>1, <2>2
<1>13. Counted'
  <2>0. Taken' = Taken
    BY <1>3 DEF Taken
  <2>1. CASE j \in Batch
    <3>1. c # Shared /\ j \notin Weight
      BY <2>1, ChannelFacts DEF c
    <3>2. Once' = Once /\ Twice' = Twice /\ ids'[Shared] = ids[Shared]
      BY <1>3, <1>7, <1>10, <3>1, ChannelFacts DEF Once, Twice
    <3>. QED BY <2>0, <3>2 DEF PipeInv, Counted
  <2>2. CASE j \in Weight
    <3>1. Len(ids'[Shared]) = Len(ids[Shared]) + 1 /\ Len(ids[Shared]) \in Nat
      BY <1>7, <1>9, <1>10, <2>2, ChannelFacts DEF c
    <3>2. source'[j].sent = q.sent + 1 /\ \A w \in Weight : w # j => source'[w] = source[w]
      BY <1>3, <1>6, <1>7, ChannelFacts
    <3>3. q.sent \in {0, 1}
      BY <1>4, <1>5
    <3>4. CASE q.sent = 0
      <4>1. j \notin Once /\ Once' = Once \cup {j} /\ Twice' = Twice
        BY <1>1, <2>2, <3>2, <3>4 DEF Once, Twice
      <4>2. Cardinality(Once') = Cardinality(Once) + 1 /\ Cardinality(Once) \in Nat
        BY <4>1, WeightSubsets, FS_AddElement DEF Once
      <4>3. Cardinality(Twice) \in Nat /\ Cardinality(Taken) \in Nat
        BY WeightSubsets DEF Twice, Taken
      <4>. QED BY <2>0, <3>1, <4>1, <4>2, <4>3 DEF PipeInv, Counted
    <3>5. CASE q.sent = 1
      <4>1. j \notin Twice /\ Twice' = Twice \cup {j} /\ Once' = Once
        BY <1>1, <2>2, <3>2, <3>5 DEF Once, Twice
      <4>2. Cardinality(Twice') = Cardinality(Twice) + 1 /\ Cardinality(Twice) \in Nat
        BY <4>1, WeightSubsets, FS_AddElement DEF Twice
      <4>3. Cardinality(Once) \in Nat /\ Cardinality(Taken) \in Nat
        BY WeightSubsets DEF Once, Taken
      <4>. QED BY <2>0, <3>1, <4>1, <4>2, <4>3 DEF PipeInv, Counted
    <3>. QED BY <3>3, <3>4, <3>5
  <2>. QED BY <2>1, <2>2 DEF Job
<1>. QED BY <1>11, <1>12, <1>13 DEF PipeInv

\* Taking moves one list from the channel to a fetcher.
LEMMA TakeIdsPipe ==
    ASSUME PipeInv, NEW j \in Job, TakeIds(j)
    PROVE  PipeInv'
<1>. DEFINE c == ChannelOf(j)
<1>1. /\ fetcher[j].at = "take" /\ ids[c] # <<>> /\ c \in Channel
      /\ fetcher' = [fetcher EXCEPT ![j] = [at |-> "put", list |-> Head(ids[c])]]
      /\ ids' = [ids EXCEPT ![c] = Tail(ids[c])]
      /\ UNCHANGED <<source, posts>>
  BY ChannelFacts DEF TakeIds
<1>2. /\ fetcher \in [Job -> Fetcher] /\ ids \in [Channel -> Seq(List)]
      /\ \A d \in Channel : Len(ids[d]) <= Capacity(d)
  BY DEF PipeInv, PipeTyped
<1>3. PICK s : s = Tail(ids[c])
  OBVIOUS
<1>4. /\ s \in Seq(List) /\ Len(s) = Len(ids[c]) - 1 /\ Len(ids[c]) \in Nat
      /\ Head(ids[c]) \in List
  BY <1>1, <1>2, <1>3
<1>5. ids' = [ids EXCEPT ![c] = s]
  BY <1>1, <1>3
<1>6. PICK p \in Fetcher : p = [at |-> "put", list |-> Head(ids[c])]
  <2>1. [at |-> "put", list |-> Head(ids[c])] \in Fetcher
    BY <1>4 DEF Fetcher
  <2>. QED BY <2>1
<1>7. fetcher' = [fetcher EXCEPT ![j] = p] /\ p.at = "put"
  BY <1>1, <1>6
<1>. HIDE DEF c
<1>8. PipeTyped'
  <2>1. fetcher' \in [Job -> Fetcher] /\ ids' \in [Channel -> Seq(List)]
    BY <1>2, <1>4, <1>5, <1>6, <1>7
  <2>2. ASSUME NEW d \in Channel PROVE Len(ids'[d]) <= Capacity(d)
    <3>1. CASE d = c
      BY <1>2, <1>4, <1>5, <3>1, ChannelFacts
    <3>2. CASE d # c
      BY <1>2, <1>5, <3>2
    <3>. QED BY <3>1, <3>2
  <2>. QED BY <1>1, <2>1, <2>2 DEF PipeInv, PipeTyped, Capacity
<1>9. SourcesOK'
  BY <1>1 DEF PipeInv, SourcesOK
<1>10. Counted'
  <2>0. Once' = Once /\ Twice' = Twice
    BY <1>1 DEF Once, Twice
  <2>1. CASE j \in Batch
    <3>1. c # Shared /\ j \notin Weight
      BY <2>1, ChannelFacts DEF c
    <3>2. Taken' = Taken /\ ids'[Shared] = ids[Shared]
      BY <1>2, <1>5, <1>7, <3>1, ChannelFacts DEF Taken
    <3>. QED BY <2>0, <3>2 DEF PipeInv, Counted
  <2>2. CASE j \in Weight
    <3>1. Len(ids'[Shared]) = Len(ids[Shared]) - 1 /\ Len(ids[Shared]) \in Nat
      BY <1>2, <1>4, <1>5, <2>2, ChannelFacts DEF c
    <3>2. j \notin Taken /\ Taken' = Taken \cup {j}
      BY <1>1, <1>2, <1>7, <2>2, ChannelFacts DEF Taken
    <3>3. Cardinality(Taken') = Cardinality(Taken) + 1 /\ Cardinality(Taken) \in Nat
      BY <3>2, WeightSubsets, FS_AddElement DEF Taken
    <3>4. Cardinality(Once) \in Nat /\ Cardinality(Twice) \in Nat
      BY WeightSubsets DEF Once, Twice
    <3>. QED BY <2>0, <3>1, <3>3, <3>4 DEF PipeInv, Counted
  <2>. QED BY <2>1, <2>2 DEF Job
<1>. QED BY <1>8, <1>9, <1>10 DEF PipeInv

\* Putting and taking a list of patterns leaves the ids alone.
LEMMA PostsPipe ==
    ASSUME PipeInv, posts' \in [Channel -> Seq(List)],
           \A c \in Channel : Len(posts'[c]) <= Capacity(c),
           fetcher' \in [Job -> Fetcher], UNCHANGED <<source, ids>>,
           \A j \in Job : fetcher'[j].at = "take" <=> fetcher[j].at = "take"
    PROVE  PipeInv'
<1>1. PipeTyped'
  BY DEF PipeInv, PipeTyped, Capacity
<1>2. SourcesOK'
  BY DEF PipeInv, SourcesOK
<1>3. Once' = Once /\ Twice' = Twice /\ Taken' = Taken
  BY ChannelFacts DEF Once, Twice, Taken
<1>4. Counted'
  BY <1>3 DEF PipeInv, Counted
<1>. QED BY <1>1, <1>2, <1>4 DEF PipeInv

LEMMA PutPostsPipe ==
    ASSUME PipeInv, NEW j \in Job, PutPosts(j)
    PROVE  PipeInv'
<1>. DEFINE c == ChannelOf(j)
<1>0. /\ fetcher \in [Job -> Fetcher] /\ posts \in [Channel -> Seq(List)]
      /\ \A d \in Channel : Len(posts[d]) <= Capacity(d)
  BY DEF PipeInv, PipeTyped
<1>1. PICK list \in List : posts' = [posts EXCEPT ![c] = Append(posts[c], list)]
  <2>1. fetcher[j].list \in List /\ Empty \in List
    BY <1>0 DEF Fetcher, List
  <2>. QED BY <2>1 DEF PutPosts
<1>2. /\ fetcher[j].at = "put" /\ Len(posts[c]) < Capacity(c) /\ c \in Channel
      /\ fetcher' = [fetcher EXCEPT ![j] = [at |-> "over", list |-> Empty]]
      /\ UNCHANGED <<source, ids>>
  BY ChannelFacts DEF PutPosts
<1>3. PICK s : s = Append(posts[c], list)
  OBVIOUS
<1>4. s \in Seq(List) /\ Len(s) = Len(posts[c]) + 1 /\ Len(posts[c]) \in Nat
  BY <1>0, <1>2, <1>3
<1>5. posts' = [posts EXCEPT ![c] = s]
  BY <1>1, <1>3
<1>6. [at |-> "over", list |-> Empty] \in Fetcher
  BY DEF Fetcher, List
<1>. HIDE DEF c
<1>7. posts' \in [Channel -> Seq(List)]
  BY <1>0, <1>4, <1>5
<1>8. ASSUME NEW d \in Channel PROVE Len(posts'[d]) <= Capacity(d)
  <2>1. CASE d = c
    BY <1>0, <1>2, <1>4, <1>5, <2>1, ChannelFacts
  <2>2. CASE d # c
    BY <1>0, <1>5, <2>2
  <2>. QED BY <2>1, <2>2
<1>9. /\ fetcher' \in [Job -> Fetcher]
      /\ \A i \in Job : fetcher'[i].at = "take" <=> fetcher[i].at = "take"
  BY <1>0, <1>2, <1>6
<1>. QED BY <1>2, <1>7, <1>8, <1>9, PostsPipe

LEMMA TakenPostsPipe ==
    ASSUME PipeInv, NEW c \in Channel, posts[c] # <<>>,
           posts' = [posts EXCEPT ![c] = Tail(posts[c])],
           UNCHANGED <<source, fetcher, ids>>
    PROVE  PipeInv'
<1>0. /\ fetcher \in [Job -> Fetcher] /\ posts \in [Channel -> Seq(List)]
      /\ \A d \in Channel : Len(posts[d]) <= Capacity(d)
  BY DEF PipeInv, PipeTyped
<1>1. PICK s : s = Tail(posts[c])
  OBVIOUS
<1>2. s \in Seq(List) /\ Len(s) = Len(posts[c]) - 1 /\ Len(posts[c]) \in Nat
  BY <1>0, <1>1
<1>3. posts' = [posts EXCEPT ![c] = s]
  BY <1>1
<1>4. posts' \in [Channel -> Seq(List)]
  BY <1>0, <1>2, <1>3
<1>5. ASSUME NEW d \in Channel PROVE Len(posts'[d]) <= Capacity(d)
  <2>1. CASE d = c
    BY <1>0, <1>2, <1>3, <2>1, ChannelFacts
  <2>2. CASE d # c
    BY <1>0, <1>3, <2>2
  <2>. QED BY <2>1, <2>2
<1>. QED BY <1>0, <1>4, <1>5, PostsPipe

LEMMA SamePipe == PipeInv /\ UNCHANGED pipe => PipeInv'
<1>. SUFFICES ASSUME PipeInv, UNCHANGED pipe PROVE PipeInv'
  OBVIOUS
<1>. QED BY PostsPipe DEF pipe, PipeInv, PipeTyped

LEMMA StepPipe == PipeInv /\ [Next]_vars => PipeInv'
<1>. SUFFICES ASSUME PipeInv, [Next]_vars PROVE PipeInv'
  OBVIOUS
<1>1. ASSUME NEW w \in Weight, Search(w) PROVE PipeInv'
  BY <1>1, SearchPipe
<1>2. ASSUME NEW j \in Job, Panic(j) PROVE PipeInv'
  BY <1>2, SamePipe DEF Panic, pipe
<1>3. ASSUME NEW w \in Weight, Collect(w) PROVE PipeInv'
  <2>1. CASE TakePosts(w)
    BY <2>1, ChannelFacts, TakenPostsPipe DEF TakePosts
  <2>2. CASE ~TakePosts(w)
    <3>1. UNCHANGED pipe
      BY <1>3, <2>2 DEF Collect, Finish, Download, Create, Decode, Encode, Stat,
                        RemoveEmpty, pipe
    <3>. QED BY <3>1, SamePipe
  <2>. QED BY <2>1, <2>2
<1>4. ASSUME NEW b \in Batch, Gather(b) PROVE PipeInv'
  <2>1. CASE GetRavelIds(b)
    BY <2>1, GetRavelIdsPipe
  <2>2. CASE AddRavelhash(b)
    <3>1. b \in Channel
      BY DEF Channel
    <3>. QED BY <2>2, <3>1, TakenPostsPipe DEF AddRavelhash
  <2>. QED BY <1>4, <2>1, <2>2 DEF Gather
<1>5. ASSUME NEW j \in Job, Pass(j) PROVE PipeInv'
  BY <1>5, SendIdsPipe, TakeIdsPipe, PutPostsPipe DEF Pass
<1>6. CASE UNCHANGED vars
  BY <1>6, SamePipe DEF vars, pipe
<1>. QED BY <1>1, <1>2, <1>3, <1>4, <1>5, <1>6 DEF Next

LEMMA PipeInvariant == Spec => []PipeInv
  BY InitPipe, StepPipe, PTL DEF Spec

\* No search is ever stuck on a full channel: GetherSearchYnPosts may send two
\* lists and the weights' channel has room for one each, but when every fetcher
\* has taken one, two for each weight fit.
THEOREM NeverStuck == Spec => []NoSenderStuck
<1>1. ASSUME PipeInv PROVE NoSenderStuck
  <2>. SUFFICES ASSUME NEW w \in Weight, source[w].at = "send",
                       Len(ids[Shared]) = Capacity(Shared),
                       \A v \in Weight : fetcher[v].at # "take"
                PROVE  FALSE
    BY DEF NoSenderStuck
  <2>1. Taken = Weight
    BY DEF Taken
  <2>2. w \notin Twice
    <3>1. source[w] \in Source /\ source[w].out # <<>>
          /\ source[w].sent + Len(source[w].out) <= 2
      BY <1>1, ChannelFacts DEF PipeInv, PipeTyped, SourcesOK
    <3>2. Len(source[w].out) \in Nat \ {0} /\ source[w].sent \in Nat
      BY <3>1 DEF Source
    <3>3. source[w].sent # 2
      BY <3>1, <3>2
    <3>. QED BY <3>3 DEF Twice
  <2>3. Cardinality(Twice) < Cardinality(Weight)
    <3>1. Twice \subseteq Weight \ {w} /\ IsFiniteSet(Weight \ {w})
      BY <2>2, WeightSubsets DEF Twice
    <3>2. Cardinality(Twice) <= Cardinality(Weight \ {w})
      BY <3>1, FS_Subset
    <3>3. Cardinality(Weight \ {w}) = Cardinality(Weight) - 1
      BY ConstantsAssumption, FS_RemoveElement
    <3>. QED BY <3>2, <3>3, WeightSubsets DEF Twice
  <2>4. Cardinality(Once) <= Cardinality(Weight)
    BY WeightSubsets DEF Once
  <2>5. Len(ids[Shared]) = Cardinality(Weight)
    BY ChannelFacts
  <2>6. /\ Cardinality(Weight) \in Nat /\ Cardinality(Once) \in Nat
        /\ Cardinality(Twice) \in Nat
    BY WeightSubsets DEF Once, Twice
  <2>. QED BY <1>1, <2>1, <2>3, <2>4, <2>5, <2>6 DEF PipeInv, Counted
<1>. QED BY <1>1, PipeInvariant, PTL

\* While no search has sent a second list, a fetcher is still to come for every
\* list in the weights' channel.
THEOREM NothingLost == Spec => []NoIdsLost
<1>1. ASSUME PipeInv PROVE NoIdsLost
  <2>. DEFINE coming == {w \in Weight : fetcher[w].at = "take"}
  <2>. SUFFICES ASSUME \A w \in Weight : source[w].sent < 2
                PROVE  Len(ids[Shared]) <= Cardinality(coming)
    BY DEF NoIdsLost
  <2>1. Twice = {}
    BY DEF Twice
  <2>2. coming = Weight \ Taken /\ Taken \subseteq Weight
    BY DEF Taken
  <2>3. Cardinality(coming) = Cardinality(Weight) - Cardinality(Taken)
    <3>1. Weight \cap Taken = Taken
      BY <2>2
    <3>. QED BY <2>2, <3>1, ConstantsAssumption, FS_Difference
  <2>4. Cardinality(Once) <= Cardinality(Weight) /\ Cardinality(Once) \in Nat
    BY WeightSubsets DEF Once
  <2>5. Cardinality(Twice) = 0
    BY <2>1, FS_EmptySet
  <2>6. Len(ids[Shared]) + Cardinality(Taken) = Cardinality(Once) + Cardinality(Twice)
    BY <1>1 DEF PipeInv, Counted
  <2>7. Len(ids[Shared]) \in Nat
    BY <1>1, ChannelFacts DEF PipeInv, PipeTyped
  <2>8. Cardinality(Taken) \in Nat /\ Cardinality(Weight) \in Nat
    BY WeightSubsets DEF Taken
  <2>. HIDE DEF coming
  <2>. QED BY <2>3, <2>4, <2>5, <2>6, <2>7, <2>8
<1>. QED BY <1>1, PipeInvariant, PTL

-----------------------------------------------------------------------------
(* The files *)

StoreTyped ==
    /\ sink \in [Job -> Sink]
    /\ file \in [File -> Created \cup {Empty}]
    /\ content \in [Created -> [1 .. 2 -> Created \cup {Empty}]]
    /\ crashed \in BOOLEAN

Busy == {"create", "decode", "half", "stat", "remove"}

\* What a sink remembers of the file it works on: until it has written the whole
\* image the file of an earlier run is not at its path, and what it writes was
\* created there.
SinksOK ==
    \A w \in Weight :
        /\ sink[w].at \in Busy => sink[w].photo \in Photo
        /\ sink[w].at \in {"create", "decode", "half"} => file[Target(w)] # Before
        /\ sink[w].at \in {"decode", "half"} =>
              sink[w].out \in Photo /\ Path[sink[w].out] = Target(w)

\* A file created in this run is at the path of its photo, and what an earlier
\* run left is not written.
FilesOK ==
    /\ \A f \in File : file[f] \in Photo => Path[file[f]] = f
    /\ content[Before] # Nothing

\* An empty file is about to be written, or removed, by the sink that emptied it.
EmptyHasWriter ==
    \A f \in File :
        file[f] # Empty /\ content[file[f]] = Nothing =>
            \E w \in Weight :
                sink[w].at = "decode" /\ sink[w].out = file[f] /\ Target(w) = f

StoreInv == StoreTyped /\ SinksOK /\ FilesOK /\ EmptyHasWriter

LEMMA PhotoFacts ==
    /\ Empty # Before /\ Before \in Created
    /\ \A p \in Photo : /\ p # Empty /\ p # Before /\ p \in Created
                        /\ Path[p] \in File
    /\ Nothing \in [1 .. 2 -> Created \cup {Empty}]
    /\ \A c \in Created : c \in Photo \/ c = Before
    /\ \A w \in Weight : w \in Job
  BY ConstantsAssumption DEF Created, Nothing, Job

LEMMA InitStore == Init => StoreInv
<1>. SUFFICES ASSUME Init PROVE StoreInv
  OBVIOUS
<1>1. StoreTyped
  <2>1. sink \in [Job -> Sink]
    BY DEF Init, Sink
  <2>2. content \in [Created -> [1 .. 2 -> Created \cup {Empty}]]
    BY PhotoFacts DEF Init
  <2>. QED BY <2>1, <2>2, PhotoFacts DEF Init, StoreTyped
<1>2. SinksOK
  BY PhotoFacts DEF Init, SinksOK, Busy
<1>3. content[Before][1] = Before /\ Nothing[1] = Empty
  BY PhotoFacts DEF Init, Nothing
<1>4. FilesOK
  <2>1. content[Before] # Nothing
    BY <1>3, PhotoFacts
  <2>. QED BY <2>1, PhotoFacts DEF Init, FilesOK
<1>5. EmptyHasWriter
  BY <1>4 DEF Init, EmptyHasWriter, FilesOK
<1>. QED BY <1>1, <1>2, <1>4, <1>5 DEF StoreInv

\* A sink goes where it will, as long as the files stay as they are, what it
\* goes to work on is no file of an earlier run, and it leaves no empty file.
LEMMA SinkMoves ==
    ASSUME StoreInv, NEW w \in Weight, NEW q \in Sink,
           sink' = [sink EXCEPT ![w] = q], UNCHANGED <<file, content, crashed>>,
           q.at \notin {"decode", "half"}, sink[w].at # "decode",
           q.at \in Busy => q.photo \in Photo,
           q.at = "create" => file[Path[q.photo]] # Before
    PROVE  StoreInv'
<1>1. sink \in [Job -> Sink] /\ w \in Job
  BY PhotoFacts DEF StoreInv, StoreTyped
<1>2. sink'[w] = q /\ \A v \in Weight : v # w => sink'[v] = sink[v]
  BY <1>1, PhotoFacts
<1>3. StoreTyped'
  BY <1>1 DEF StoreInv, StoreTyped
<1>4. SinksOK'
  <2>1. ASSUME NEW v \in Weight, v # w
        PROVE  /\ sink'[v].at \in Busy => sink'[v].photo \in Photo
               /\ sink'[v].at \in {"create", "decode", "half"} => file'[Target(v)'] # Before
               /\ sink'[v].at \in {"decode", "half"} =>
                     sink'[v].out \in Photo /\ Path[sink'[v].out] = Target(v)'
    BY <1>2, <2>1 DEF StoreInv, SinksOK, Target
  <2>2. /\ q.at \in Busy => q.photo \in Photo
        /\ q.at \in {"create", "decode", "half"} => file'[Path[q.photo]] # Before
        /\ q.at \notin {"decode", "half"}
    OBVIOUS
  <2>. QED BY <1>2, <2>1, <2>2 DEF SinksOK, Target
<1>5. FilesOK'
  BY DEF StoreInv, FilesOK
<1>6. EmptyHasWriter'
  <2>. SUFFICES ASSUME NEW f \in File, file[f] # Empty, content[file[f]] = Nothing
                PROVE  \E v \in Weight : /\ sink'[v].at = "decode"
                                         /\ sink'[v].out = file[f] /\ Target(v)' = f
    BY DEF EmptyHasWriter
  <2>1. PICK v \in Weight : sink[v].at = "decode" /\ sink[v].out = file[f] /\ Target(v) = f
    BY DEF StoreInv, EmptyHasWriter
  <2>2. v # w
    BY <2>1
  <2>. QED BY <1>2, <2>1, <2>2 DEF Target
<1>. QED BY <1>3, <1>4, <1>5, <1>6 DEF StoreInv

\* What the steps of a sink have in common.
LEMMA SinkFacts ==
    ASSUME StoreInv, NEW w \in Weight, sink[w].at \in Busy
    PROVE  /\ sink[w] \in Sink /\ sink[w].photo \in Photo /\ Target(w) \in File
           /\ \A q \in Sink : sink' = [sink EXCEPT ![w] = q] =>
                 /\ sink' \in [Job -> Sink] /\ sink'[w] = q
                 /\ \A v \in Weight : v # w => sink'[v] = sink[v]
           /\ \A at \in {"next", "half", "stat", "remove"} :
                 /\ [sink[w] EXCEPT !.at = at] \in Sink
                 /\ [sink[w] EXCEPT !.at = at].at = at
                 /\ [sink[w] EXCEPT !.at = at].photo = sink[w].photo
                 /\ [sink[w] EXCEPT !.at = at].out = sink[w].out
<1>1. sink \in [Job -> Sink] /\ w \in Job /\ sink[w] \in Sink
  BY PhotoFacts DEF StoreInv, StoreTyped
<1>2. sink[w].photo \in Photo
  BY DEF StoreInv, SinksOK
<1>3. Target(w) \in File
  BY <1>2, PhotoFacts DEF Target
<1>4. \A at \in {"next", "half", "stat", "remove"} :
         /\ [sink[w] EXCEPT !.at = at] \in Sink
         /\ [sink[w] EXCEPT !.at = at].at = at
         /\ [sink[w] EXCEPT !.at = at].photo = sink[w].photo
         /\ [sink[w] EXCEPT !.at = at].out = sink[w].out
  BY <1>1 DEF Sink
<1>5. \A q \in Sink : sink' = [sink EXCEPT ![w] = q] =>
         /\ sink' \in [Job -> Sink] /\ sink'[w] = q
         /\ \A v \in Weight : v # w => sink'[v] = sink[v]
  BY <1>1, PhotoFacts
<1>. QED BY <1>1, <1>2, <1>3, <1>4, <1>5

\* Removing what is at its path, a sink leaves no empty file there.
LEMMA RemoveStore ==
    ASSUME StoreInv, NEW w \in Weight, sink[w].at \in Busy,
           Remove(Target(w)), Sinks(w, "next"), UNCHANGED <<content, crashed>>
    PROVE  StoreInv'
<1>1. PICK q \in Sink : /\ sink' = [sink EXCEPT ![w] = q] /\ q.at = "next"
  BY SinkFacts DEF Sinks
<1>2. /\ sink' \in [Job -> Sink] /\ sink'[w] = q
      /\ \A v \in Weight : v # w => sink'[v] = sink[v]
  BY <1>1, SinkFacts
<1>3. PICK f0 \in File : f0 = Target(w)
  BY SinkFacts
<1>4. /\ file \in [File -> Created \cup {Empty}]
      /\ file' = [file EXCEPT ![f0] = Empty]
  BY <1>3 DEF Remove, StoreInv, StoreTyped
<1>5. StoreTyped'
  BY <1>2, <1>4 DEF StoreInv, StoreTyped
<1>6. SinksOK'
  <2>1. \A f : file[f] # Before => file'[f] # Before
    BY <1>4, PhotoFacts
  <2>. QED BY <1>1, <1>2, <2>1 DEF StoreInv, SinksOK, Target, Busy
<1>7. FilesOK'
  BY <1>4, PhotoFacts DEF StoreInv, FilesOK
<1>8. EmptyHasWriter'
  <2>. SUFFICES ASSUME NEW f \in File, file'[f] # Empty, content[file'[f]] = Nothing
                PROVE  \E v \in Weight : /\ sink'[v].at = "decode"
                                         /\ sink'[v].out = file'[f] /\ Target(v)' = f
    BY DEF EmptyHasWriter
  <2>1. f # f0 /\ file'[f] = file[f]
    BY <1>4
  <2>2. PICK v \in Weight : sink[v].at = "decode" /\ sink[v].out = file[f] /\ Target(v) = f
    BY <2>1 DEF StoreInv, EmptyHasWriter
  <2>3. v # w
    BY <1>3, <2>1, <2>2
  <2>. QED BY <1>2, <2>1, <2>2, <2>3 DEF Target
<1>. QED BY <1>5, <1>6, <1>7, <1>8 DEF StoreInv

\* Writing either half of an image, a sink leaves its file not empty.
LEMMA WriteStore ==
    ASSUME StoreInv, NEW w \in Weight, sink[w].at \in {"decode", "half"},
           NEW half \in 1 .. 2, Write(w, half),
           NEW at \in {"half", "stat"}, Sinks(w, at), UNCHANGED <<file, crashed>>
    PROVE  StoreInv'
<1>0. sink[w].at \in Busy
  BY DEF Busy
<1>1. PICK q \in Sink : /\ sink' = [sink EXCEPT ![w] = q] /\ q.at = at
                        /\ q.photo = sink[w].photo /\ q.out = sink[w].out
  <2>1. PICK q : q = [sink[w] EXCEPT !.at = at]
    OBVIOUS
  <2>2. q \in Sink /\ q.at = at /\ q.photo = sink[w].photo /\ q.out = sink[w].out
    <3>1. sink[w] \in Sink
      BY <1>0, SinkFacts
    <3>. QED BY <2>1, <3>1 DEF Sink
  <2>3. sink' = [sink EXCEPT ![w] = q]
    BY <2>1 DEF Sinks
  <2>. QED BY <2>2, <2>3
<1>2. /\ sink' \in [Job -> Sink] /\ sink'[w] = q
      /\ \A v \in Weight : v # w => sink'[v] = sink[v]
  BY <1>0, <1>1, SinkFacts
<1>3. /\ sink[w].out \in Photo /\ Path[sink[w].out] = Target(w)
      /\ file[Target(w)] # Before
  BY DEF StoreInv, SinksOK
<1>4. PICK o \in Photo, p \in Photo : o = sink[w].out /\ p = sink[w].photo
  BY <1>0, <1>3, SinkFacts
<1>5. /\ content \in [Created -> [1 .. 2 -> Created \cup {Empty}]]
      /\ content' = [content EXCEPT ![o][half] = p]
  BY <1>4 DEF StoreInv, StoreTyped, Write
<1>6. /\ content' \in [Created -> [1 .. 2 -> Created \cup {Empty}]]
      /\ content'[o][half] = p
      /\ \A c \in Created : c # o => content'[c] = content[c]
  BY <1>5, PhotoFacts
<1>7. content'[o] # Nothing
  BY <1>6, PhotoFacts DEF Nothing
<1>8. StoreTyped'
  BY <1>2, <1>6 DEF StoreInv, StoreTyped
<1>9. SinksOK'
  <2>1. ASSUME NEW v \in Weight, v # w
        PROVE  /\ sink'[v].at \in Busy => sink'[v].photo \in Photo
               /\ sink'[v].at \in {"create", "decode", "half"} => file'[Target(v)'] # Before
               /\ sink'[v].at \in {"decode", "half"} =>
                     sink'[v].out \in Photo /\ Path[sink'[v].out] = Target(v)'
    BY <1>2, <2>1 DEF StoreInv, SinksOK, Target
  <2>2. Target(w)' = Target(w)
    BY <1>1, <1>2 DEF Target
  <2>. QED BY <1>1, <1>2, <1>3, <1>4, <2>1, <2>2 DEF SinksOK
<1>10. FilesOK'
  BY <1>6, PhotoFacts DEF StoreInv, FilesOK
<1>11. EmptyHasWriter'
  <2>. SUFFICES ASSUME NEW f \in File, file[f] # Empty, content'[file[f]] = Nothing
                PROVE  \E v \in Weight : /\ sink'[v].at = "decode"
                                         /\ sink'[v].out = file[f] /\ Target(v)' = f
    BY DEF EmptyHasWriter
  <2>1. file[f] # o /\ file[f] \in Created
    BY <1>7 DEF StoreInv, StoreTyped
  <2>2. content[file[f]] = Nothing
    BY <1>6, <2>1
  <2>3. PICK v \in Weight : sink[v].at = "decode" /\ sink[v].out = file[f] /\ Target(v) = f
    BY <2>2 DEF StoreInv, EmptyHasWriter
  <2>4. v # w
    BY <1>4, <2>1, <2>3
  <2>. QED BY <1>2, <2>3, <2>4 DEF Target
<1>. QED BY <1>8, <1>9, <1>10, <1>11 DEF StoreInv

\* os.Create makes a file empty, and its sink the one that writes it.
LEMMA CreateStore ==
    ASSUME StoreInv, NEW w \in Weight, Create(w), UNCHANGED crashed
    PROVE  StoreInv'
<1>0. sink[w].at = "create" /\ sink[w].at \in Busy
  BY DEF Create, Busy
<1>1. CASE Sinks(w, "next") /\ UNCHANGED files
  <2>1. PICK q \in Sink : sink' = [sink EXCEPT ![w] = q] /\ q.at = "next"
    BY <1>0, <1>1, SinkFacts DEF Sinks
  <2>. QED BY <1>0, <1>1, <2>1, SinkMoves DEF files, Busy
<1>2. CASE ~(Sinks(w, "next") /\ UNCHANGED files)
  <2>1. PICK f0 \in File, p \in Photo : f0 = Target(w) /\ p = sink[w].photo /\ Path[p] = f0
    BY <1>0, SinkFacts DEF Target
  <2>2. PICK o : o = IF file[f0] = Empty THEN p ELSE file[f0]
    OBVIOUS
  <2>3. o \in Photo /\ Path[o] = f0
    BY <1>0, <2>1, <2>2, PhotoFacts DEF StoreInv, StoreTyped, SinksOK, FilesOK
  <2>4. /\ file' = [file EXCEPT ![f0] = o]
        /\ content' = [content EXCEPT ![o] = Nothing]
        /\ sink' = [sink EXCEPT ![w] = [sink[w] EXCEPT !.at = "decode", !.out = o]]
    BY <1>2, <2>1, <2>2 DEF Create
  <2>5. PICK q \in Sink : /\ sink' = [sink EXCEPT ![w] = q] /\ q.at = "decode"
                          /\ q.photo = p /\ q.out = o
    <3>1. sink[w] \in Sink
      BY <1>0, SinkFacts
    <3>2. PICK q : q = [sink[w] EXCEPT !.at = "decode", !.out = o]
      OBVIOUS
    <3>3. q \in Sink /\ q.at = "decode" /\ q.photo = p /\ q.out = o
      BY <2>1, <2>3, <3>1, <3>2 DEF Sink
    <3>. QED BY <2>4, <3>2, <3>3
  <2>6. /\ sink' \in [Job -> Sink] /\ sink'[w] = q
        /\ \A v \in Weight : v # w => sink'[v] = sink[v]
    BY <1>0, <2>5, SinkFacts
  <2>7. /\ file \in [File -> Created \cup {Empty}]
        /\ content \in [Created -> [1 .. 2 -> Created \cup {Empty}]]
    BY DEF StoreInv, StoreTyped
  <2>8. /\ file' \in [File -> Created \cup {Empty}] /\ file'[f0] = o
        /\ \A f : f # f0 => (f \in File => file'[f] = file[f])
    BY <2>3, <2>4, <2>7, PhotoFacts
  <2>9. /\ content' \in [Created -> [1 .. 2 -> Created \cup {Empty}]]
        /\ \A c \in Created : c # o => content'[c] = content[c]
    BY <2>3, <2>4, <2>7, PhotoFacts
  <2>10. StoreTyped'
    BY <2>6, <2>8, <2>9 DEF StoreInv, StoreTyped
  <2>11. SinksOK'
    <3>1. ASSUME NEW v \in Weight, v # w
          PROVE  /\ sink'[v].at \in Busy => sink'[v].photo \in Photo
                 /\ sink'[v].at \in {"create", "decode", "half"} => file'[Target(v)'] # Before
                 /\ sink'[v].at \in {"decode", "half"} =>
                       sink'[v].out \in Photo /\ Path[sink'[v].out] = Target(v)'
      <4>1. sink'[v] = sink[v] /\ Target(v)' = Target(v)
        BY <2>6, <3>1 DEF Target
      <4>2. ASSUME sink[v].at \in {"create", "decode", "half"} PROVE file'[Target(v)] # Before
        <5>1. Target(v) \in File /\ file[Target(v)] # Before
          BY <4>2, SinkFacts DEF StoreInv, SinksOK, Busy
        <5>. QED BY <2>3, <2>8, <5>1, PhotoFacts
      <4>. QED BY <4>1, <4>2 DEF StoreInv, SinksOK
    <3>2. Target(w)' = f0
      BY <2>1, <2>5, <2>6 DEF Target
    <3>3. /\ sink'[w].photo \in Photo /\ file'[Target(w)'] # Before
          /\ sink'[w].out \in Photo /\ Path[sink'[w].out] = Target(w)'
      BY <2>3, <2>5, <2>6, <2>8, <3>2, PhotoFacts
    <3>. QED BY <3>1, <3>3 DEF SinksOK
  <2>12. FilesOK'
    <3>1. content'[Before] = content[Before]
      BY <2>3, <2>9, PhotoFacts
    <3>2. ASSUME NEW f \in File, file'[f] \in Photo PROVE Path[file'[f]] = f
      BY <2>3, <2>8, <3>2 DEF StoreInv, FilesOK
    <3>. QED BY <3>1, <3>2 DEF StoreInv, FilesOK
  <2>13. EmptyHasWriter'
    <3>. SUFFICES ASSUME NEW f \in File, file'[f] # Empty, content'[file'[f]] = Nothing
                  PROVE  \E v \in Weight : /\ sink'[v].at = "decode"
                                           /\ sink'[v].out = file'[f] /\ Target(v)' = f
      BY DEF EmptyHasWriter
    <3>1. CASE f = f0
      <4>1. Target(w)' = f0
        BY <2>1, <2>5, <2>6 DEF Target
      <4>. QED BY <2>5, <2>6, <2>8, <3>1, <4>1
    <3>2. CASE f # f0
      <4>1. file'[f] = file[f] /\ file[f] \in Created /\ file[f] # o
        BY <2>3, <2>7, <2>8, <3>2, PhotoFacts DEF StoreInv, FilesOK
      <4>2. content[file[f]] = Nothing
        BY <2>9, <4>1
      <4>3. PICK v \in Weight :
               sink[v].at = "decode" /\ sink[v].out = file[f] /\ Target(v) = f
        BY <4>1, <4>2 DEF StoreInv, EmptyHasWriter
      <4>4. v # w
        BY <1>0, <4>3
      <4>. QED BY <2>6, <4>1, <4>3, <4>4 DEF Target
    <3>. QED BY <3>1, <3>2
  <2>. QED BY <2>10, <2>11, <2>12, <2>13 DEF StoreInv
<1>. QED BY <1>1, <1>2

LEMMA TakePostsStore ==
    ASSUME StoreInv, NEW w \in Weight, TakePosts(w), UNCHANGED crashed
    PROVE  StoreInv'
<1>1. sink[w] \in Sink
  BY PhotoFacts DEF StoreInv, StoreTyped
<1>2. PICK left \in SUBSET Photo :
         sink' = [sink EXCEPT ![w] = [sink[w] EXCEPT !.at = "next", !.left = left]]
  BY DEF TakePosts
<1>3. PICK q : q = [sink[w] EXCEPT !.at = "next", !.left = left]
  OBVIOUS
<1>4. q \in Sink /\ q.at = "next" /\ sink' = [sink EXCEPT ![w] = q]
  BY <1>1, <1>2, <1>3 DEF Sink
<1>5. sink[w].at = "take" /\ UNCHANGED <<file, content>>
  BY DEF TakePosts, files
<1>. QED BY <1>4, <1>5, SinkMoves DEF Busy

LEMMA DownloadStore ==
    ASSUME StoreInv, NEW w \in Weight, Download(w), UNCHANGED crashed
    PROVE  StoreInv'
<1>1. sink[w] \in Sink
  BY PhotoFacts DEF StoreInv, StoreTyped
<1>2. PICK p \in sink[w].left, had \in BOOLEAN :
         sink' = [sink EXCEPT ![w] =
                    [sink[w] EXCEPT !.at = IF ~had THEN "next"
                                           ELSE IF file[Path[p]] = Empty THEN "create"
                                           ELSE "stat",
                                    !.left = sink[w].left \ {p},
                                    !.photo = IF had THEN p ELSE Empty]]
  BY DEF Download
<1>3. PICK at \in {"next", "create", "stat"} :
         at = IF ~had THEN "next" ELSE IF file[Path[p]] = Empty THEN "create" ELSE "stat"
  OBVIOUS
<1>4. PICK photo \in Photo \cup {Empty} : photo = IF had THEN p ELSE Empty
  BY <1>1 DEF Sink
<1>5. PICK q : q = [sink[w] EXCEPT !.at = at, !.left = sink[w].left \ {p}, !.photo = photo]
  OBVIOUS
<1>6. q \in Sink /\ q.at = at /\ q.photo = photo
  BY <1>1, <1>5 DEF Sink
<1>7. sink' = [sink EXCEPT ![w] = q]
  BY <1>2, <1>3, <1>4, <1>5
<1>8. sink[w].at = "next" /\ UNCHANGED <<file, content>>
  BY DEF Download, files
<1>9. p \in Photo
  BY <1>1 DEF Sink
<1>10. /\ q.at \in Busy => q.photo \in Photo
       /\ q.at = "create" => file[Path[q.photo]] # Before
  BY <1>3, <1>4, <1>6, <1>9, ConstantsAssumption DEF Busy
<1>. QED BY <1>3, <1>6, <1>7, <1>8, <1>10, SinkMoves

LEMMA CollectStore ==
    ASSUME StoreInv, NEW w \in Weight, Collect(w), UNCHANGED crashed
    PROVE  StoreInv'
<1>1. CASE TakePosts(w)
  BY <1>1, TakePostsStore
<1>2. CASE Finish(w)
  <2>1. sink[w] \in Sink /\ sink[w].at = "next" /\ UNCHANGED <<file, content>>
    BY <1>2, PhotoFacts DEF StoreInv, StoreTyped, Finish, files
  <2>2. PICK q : q = [sink[w] EXCEPT !.at = "over"]
    OBVIOUS
  <2>3. q \in Sink /\ q.at = "over" /\ sink' = [sink EXCEPT ![w] = q]
    BY <1>2, <2>1, <2>2 DEF Sink, Finish, Sinks
  <2>. QED BY <2>1, <2>3, SinkMoves DEF Busy
<1>3. CASE Download(w)
  BY <1>3, DownloadStore
<1>4. CASE Create(w)
  BY <1>4, CreateStore
<1>5. CASE Decode(w)
  <2>1. sink[w].at = "decode" /\ sink[w].at \in Busy
    BY <1>5 DEF Decode, Busy
  <2>2. CASE Write(w, 1) /\ Sinks(w, "half") /\ UNCHANGED file
    BY <2>1, <2>2, WriteStore
  <2>3. CASE Remove(Target(w)) /\ Sinks(w, "next") /\ UNCHANGED content
    BY <2>1, <2>3, RemoveStore
  <2>. QED BY <1>5, <2>2, <2>3 DEF Decode
<1>6. CASE Encode(w)
  <2>1. sink[w].at = "half" /\ sink[w].at \in Busy
    BY <1>6 DEF Encode, Busy
  <2>2. CASE Write(w, 2) /\ Sinks(w, "stat") /\ UNCHANGED file
    BY <2>1, <2>2, WriteStore
  <2>3. CASE Remove(Target(w)) /\ Sinks(w, "next") /\ UNCHANGED content
    BY <2>1, <2>3, RemoveStore
  <2>. QED BY <1>6, <2>2, <2>3 DEF Encode
<1>7. CASE Stat(w)
  <2>1. sink[w].at = "stat" /\ sink[w].at \in Busy /\ UNCHANGED <<file, content>>
    BY <1>7 DEF Stat, Busy, files
  <2>2. PICK at \in {"next", "remove"} : Sinks(w, at)
    BY <1>7 DEF Stat
  <2>3. PICK q : q = [sink[w] EXCEPT !.at = at]
    OBVIOUS
  <2>4. q \in Sink /\ q.at = at /\ q.photo \in Photo
    <3>1. sink[w] \in Sink /\ sink[w].photo \in Photo
      BY <2>1, SinkFacts
    <3>. QED BY <2>3, <3>1 DEF Sink
  <2>5. sink' = [sink EXCEPT ![w] = q]
    BY <2>2, <2>3 DEF Sinks
  <2>. QED BY <2>1, <2>4, <2>5, SinkMoves
<1>8. CASE RemoveEmpty(w)
  BY <1>8, RemoveStore DEF RemoveEmpty, Busy
<1>. QED BY <1>1, <1>2, <1>3, <1>4, <1>5, <1>6, <1>7, <1>8 DEF Collect

LEMMA SameStore ==
    ASSUME StoreInv, UNCHANGED <<file, content>>, crashed' \in BOOLEAN,
           sink' \in [Job -> Sink], \A w \in Weight : sink'[w] = sink[w]
    PROVE  StoreInv'
<1>1. StoreTyped'
  BY DEF StoreInv, StoreTyped
<1>2. SinksOK'
  BY DEF StoreInv, SinksOK, Target
<1>3. FilesOK'
  BY DEF StoreInv, FilesOK
<1>4. EmptyHasWriter'
  BY DEF StoreInv, EmptyHasWriter, Target
<1>. QED BY <1>1, <1>2, <1>3, <1>4 DEF StoreInv

LEMMA StepStore == StoreInv /\ [Next]_vars => StoreInv'
<1>. SUFFICES ASSUME StoreInv, [Next]_vars PROVE StoreInv'
  OBVIOUS
<1>0. sink \in [Job -> Sink] /\ crashed \in BOOLEAN
  BY DEF StoreInv, StoreTyped
<1>1. ASSUME NEW w \in Weight, Search(w) PROVE StoreInv'
  <2>1. UNCHANGED store /\ UNCHANGED crashed
    BY <1>1 DEF Search, store, files
  <2>. QED BY <1>0, <2>1, SameStore DEF store
<1>2. ASSUME NEW w \in Weight, Collect(w) PROVE StoreInv'
  <2>1. UNCHANGED crashed
    BY <1>2 DEF Collect, TakePosts, Finish, Download, Create, Decode, Encode, Stat,
                RemoveEmpty
  <2>. QED BY <1>2, <2>1, CollectStore
<1>3. ASSUME NEW b \in Batch, GetRavelIds(b) PROVE StoreInv'
  <2>1. UNCHANGED store /\ UNCHANGED crashed
    BY <1>3 DEF GetRavelIds, store, files
  <2>. QED BY <1>0, <2>1, SameStore DEF store
<1>4. ASSUME NEW b \in Batch, AddRavelhash(b) PROVE StoreInv'
  <2>1. b \in Job /\ b \notin Weight /\ sink[b] \in Sink
    BY <1>0, ChannelFacts
  <2>2. PICK q : q = [sink[b] EXCEPT !.at = "over"]
    OBVIOUS
  <2>3. q \in Sink /\ sink' = [sink EXCEPT ![b] = q]
    BY <1>4, <2>1, <2>2 DEF Sink, AddRavelhash, Sinks
  <2>4. sink' \in [Job -> Sink] /\ \A w \in Weight : sink'[w] = sink[w]
    BY <1>0, <2>1, <2>3, PhotoFacts
  <2>5. UNCHANGED <<file, content, crashed>>
    BY <1>4 DEF AddRavelhash, files
  <2>. QED BY <1>0, <2>4, <2>5, SameStore
<1>5. ASSUME NEW j \in Job, Pass(j) PROVE StoreInv'
  <2>1. UNCHANGED store /\ UNCHANGED crashed
    BY <1>5 DEF Pass, SendIds, TakeIds, PutPosts, store, files
  <2>. QED BY <1>0, <2>1, SameStore DEF store
<1>6. ASSUME NEW j \in Job, Panic(j) PROVE StoreInv'
  <2>1. UNCHANGED store /\ crashed' \in BOOLEAN
    BY <1>6 DEF Panic, store, files
  <2>. QED BY <1>0, <2>1, SameStore DEF store
<1>7. CASE UNCHANGED vars
  <2>1. UNCHANGED store /\ UNCHANGED crashed
    BY <1>7 DEF vars, store
  <2>. QED BY <1>0, <2>1, SameStore DEF store
<1>. QED BY <1>1, <1>2, <1>3, <1>4, <1>5, <1>6, <1>7 DEF Next, Gather

LEMMA StoreInvariant == Spec => []StoreInv
  BY InitStore, StepStore, PTL DEF Spec

\* Channels, goroutines and files keep their types, for any number of jobs and
\* photos, and no search sends more than two lists.
THEOREM TypeCorrect == Spec => []TypeOK
<1>1. PipeInv /\ StoreInv => TypeOK
  BY DEF PipeInv, PipeTyped, StoreInv, StoreTyped, TypeOK
<1>. QED BY <1>1, PipeInvariant, StoreInvariant, PTL

\* Whatever request, decoding or write fails, and however many sinks download to one
\* path at once, none of them leaves an empty file and goes on: the one that emptied
\* it writes to it or removes it.
THEOREM NoneLeftEmpty == Spec => []NoEmptyFileLeft
<1>1. StoreInv => NoEmptyFileLeft
  BY DEF StoreInv, EmptyHasWriter, NoEmptyFileLeft, Settled, AtWorkOn
<1>. QED BY <1>1, StoreInvariant, PTL

-----------------------------------------------------------------------------
(* The ends *)

Users(c) == {j \in Job : ChannelOf(j) = c}
Put(c) == {j \in Users(c) : fetcher[j].at = "over"}
Served(c) == {j \in Users(c) : sink[j].at # "take"}

\* Every list a fetcher has put was taken by a sink, or waits in the channel.
PostsCounted ==
    \A c \in Channel : Len(posts[c]) + Cardinality(Served(c)) = Cardinality(Put(c))

\* A batch sends one list unless it panics, which its one fetcher takes.
BatchesOK ==
    \A b \in Batch :
        /\ source[b].at = "send" => source[b].sent = 0 /\ Len(source[b].out) = 1
                                    /\ source[b].then = "over"
        /\ source[b].at = "over" => source[b].sent = 1
        /\ Len(ids[b]) + (IF fetcher[b].at = "take" THEN 0 ELSE 1) = source[b].sent

EndsInv == PipeInv /\ StoreInv /\ PostsCounted /\ BatchesOK

LEMMA UsersFacts ==
    /\ Users(Shared) = Weight
    /\ \A b \in Batch : Users(b) = {b}
    /\ \A c \in Channel : \A S \in SUBSET Users(c) :
         IsFiniteSet(S) /\ Cardinality(S) \in Nat
<1>1. Users(Shared) = Weight
  BY ChannelFacts DEF Users, Job
<1>2. \A b \in Batch : Users(b) = {b}
  BY ChannelFacts DEF Users, Job
<1>3. ASSUME NEW c \in Channel, NEW S \in SUBSET Users(c)
      PROVE  IsFiniteSet(S) /\ Cardinality(S) \in Nat
  <2>1. CASE c = Shared
    BY <1>1, <2>1, ConstantsAssumption, FS_Subset, FS_CardinalityType
  <2>2. CASE c \in Batch
    <3>1. Users(c) = {c} /\ IsFiniteSet({c})
      BY <1>2, <2>2, FS_Singleton
    <3>. QED BY <3>1, FS_Subset, FS_CardinalityType
  <2>. QED BY <2>1, <2>2 DEF Channel
<1>. QED BY <1>1, <1>2, <1>3

LEMMA InitEnds == Init => EndsInv
<1>. SUFFICES ASSUME Init PROVE EndsInv
  OBVIOUS
<1>1. PostsCounted
  <2>. SUFFICES ASSUME NEW c \in Channel
                PROVE  Len(posts[c]) + Cardinality(Served(c)) = Cardinality(Put(c))
    BY DEF PostsCounted
  <2>1. Served(c) = {} /\ Put(c) = {}
    BY DEF Init, Served, Put, Users
  <2>2. Len(posts[c]) = 0
    BY DEF Init
  <2>. QED BY <2>1, <2>2, FS_EmptySet
<1>2. BatchesOK
  <2>1. ASSUME NEW b \in Batch
        PROVE  /\ source[b].at = "ask" /\ source[b].sent = 0
               /\ fetcher[b].at = "take" /\ Len(ids[b]) = 0
    <3>1. b \in Job /\ b \in Channel
      BY ChannelFacts DEF Channel
    <3>. QED BY <3>1 DEF Init
  <2>2. ASSUME NEW b \in Batch
        PROVE  Len(ids[b]) + (IF fetcher[b].at = "take" THEN 0 ELSE 1) = source[b].sent
    <3>1. Len(ids[b]) = 0 /\ source[b].sent = 0 /\ fetcher[b].at = "take"
      BY <2>1
    <3>. QED BY <3>1
  <2>. QED BY <2>1, <2>2 DEF BatchesOK
<1>. QED BY <1>1, <1>2, InitPipe, InitStore DEF EndsInv

\* The count of the lists of patterns depends on the channels, on who has put
\* and on who has taken.
LEMMA SamePosts ==
    ASSUME PostsCounted, UNCHANGED posts,
           \A j \in Job : /\ fetcher'[j].at = "over" <=> fetcher[j].at = "over"
                          /\ sink'[j].at = "take" <=> sink[j].at = "take"
    PROVE  PostsCounted'
<1>1. \A c \in Channel : Users(c)' = Users(c)
  BY DEF Users
<1>2. \A c \in Channel : Put(c)' = Put(c) /\ Served(c)' = Served(c)
  BY <1>1 DEF Put, Served, Users
<1>3. Channel' = Channel
  BY DEF Channel
<1>. QED BY <1>2, <1>3 DEF PostsCounted

LEMMA PutPostsCount ==
    ASSUME EndsInv, NEW j \in Job, PutPosts(j)
    PROVE  PostsCounted'
<1>. DEFINE c == ChannelOf(j)
<1>0. /\ fetcher \in [Job -> Fetcher] /\ posts \in [Channel -> Seq(List)]
  BY DEF EndsInv, PipeInv, PipeTyped
<1>1. PICK list \in List : posts' = [posts EXCEPT ![c] = Append(posts[c], list)]
  <2>1. fetcher[j].list \in List /\ Empty \in List
    BY <1>0 DEF Fetcher, List
  <2>. QED BY <2>1 DEF PutPosts
<1>2. /\ fetcher[j].at = "put" /\ c \in Channel /\ j \in Users(c)
      /\ fetcher' = [fetcher EXCEPT ![j] = [at |-> "over", list |-> Empty]]
      /\ UNCHANGED sink
  BY ChannelFacts DEF PutPosts, Users
<1>. HIDE DEF c
<1>3. PICK s : s = Append(posts[c], list)
  OBVIOUS
<1>4. Len(s) = Len(posts[c]) + 1 /\ Len(posts[c]) \in Nat
  BY <1>0, <1>2, <1>3
<1>5. posts'[c] = s /\ \A d \in Channel : d # c => posts'[d] = posts[d]
  BY <1>0, <1>1, <1>2, <1>3
<1>6. fetcher'[j].at = "over" /\ \A i \in Job : i # j => fetcher'[i] = fetcher[i]
  BY <1>0, <1>2
<1>7. \A d \in Channel : Served(d)' = Served(d)
  BY <1>2 DEF Served, Users
<1>. SUFFICES ASSUME NEW d \in Channel
              PROVE  Len(posts'[d]) + Cardinality(Served(d)') = Cardinality(Put(d)')
  BY DEF PostsCounted, Channel
<1>8. Len(posts[d]) + Cardinality(Served(d)) = Cardinality(Put(d))
  BY DEF EndsInv, PostsCounted
<1>9. CASE d # c
  <2>1. j \notin Users(d)
    BY <1>2, <1>9 DEF Users
  <2>2. Put(d)' = Put(d)
    BY <1>6, <2>1 DEF Put, Users
  <2>. QED BY <1>5, <1>7, <1>8, <1>9, <2>2
<1>10. CASE d = c
  <2>1. j \notin Put(c) /\ Put(c)' = Put(c) \cup {j}
    BY <1>2, <1>6 DEF Put, Users
  <2>2. Cardinality(Put(c)') = Cardinality(Put(c)) + 1 /\ Cardinality(Put(c)) \in Nat
    BY <1>2, <2>1, UsersFacts, FS_AddElement DEF Put
  <2>3. Cardinality(Served(c)) \in Nat
    BY <1>2, UsersFacts DEF Served
  <2>. QED BY <1>4, <1>5, <1>7, <1>8, <1>10, <2>2, <2>3
<1>. QED BY <1>9, <1>10

\* DownloadImages and AddRavelhash alike take one list of patterns.
LEMMA TakenPostsCount ==
    ASSUME EndsInv, NEW j \in Job, sink[j].at = "take", NEW c \in Channel,
           c = ChannelOf(j), posts[c] # <<>>,
           posts' = [posts EXCEPT ![c] = Tail(posts[c])], UNCHANGED fetcher,
           sink'[j].at # "take", \A i \in Job : i # j => sink'[i] = sink[i]
    PROVE  PostsCounted'
<1>0. posts \in [Channel -> Seq(List)] /\ j \in Users(c)
  BY DEF EndsInv, PipeInv, PipeTyped, Users
<1>1. PICK s : s = Tail(posts[c])
  OBVIOUS
<1>2. Len(s) = Len(posts[c]) - 1 /\ Len(posts[c]) \in Nat
  BY <1>0, <1>1
<1>3. posts'[c] = s /\ \A d \in Channel : d # c => posts'[d] = posts[d]
  BY <1>0, <1>1
<1>4. \A d \in Channel : Put(d)' = Put(d)
  BY DEF Put, Users
<1>. SUFFICES ASSUME NEW d \in Channel
              PROVE  Len(posts'[d]) + Cardinality(Served(d)') = Cardinality(Put(d)')
  BY DEF PostsCounted, Channel
<1>5. Len(posts[d]) + Cardinality(Served(d)) = Cardinality(Put(d))
  BY DEF EndsInv, PostsCounted
<1>6. CASE d # c
  <2>1. j \notin Users(d)
    BY <1>6 DEF Users
  <2>2. Served(d)' = Served(d)
    BY <2>1 DEF Served, Users
  <2>. QED BY <1>3, <1>4, <1>5, <1>6, <2>2
<1>7. CASE d = c
  <2>1. j \notin Served(c) /\ Served(c)' = Served(c) \cup {j}
    BY <1>0 DEF Served, Users
  <2>2. Served(c) \in SUBSET Users(c)
    BY DEF Served
  <2>3. IsFiniteSet(Served(c)) /\ Cardinality(Served(c)) \in Nat
    BY <2>2, UsersFacts
  <2>4. Cardinality(Served(c)') = Cardinality(Served(c)) + 1
    BY <2>1, <2>3, FS_AddElement
  <2>5. Cardinality(Put(c)) \in Nat
    BY UsersFacts DEF Put
  <2>. QED BY <1>2, <1>3, <1>4, <1>5, <1>7, <2>3, <2>4, <2>5
<1>. QED BY <1>6, <1>7

\* What a batch has sent depends on its source, its ids and its fetcher.
LEMMA SameBatches ==
    ASSUME BatchesOK,
           \A b \in Batch : /\ source'[b] = source[b] /\ ids'[b] = ids[b]
                            /\ fetcher'[b].at = "take" <=> fetcher[b].at = "take"
    PROVE  BatchesOK'
<1>. SUFFICES ASSUME NEW b \in Batch
              PROVE  /\ source'[b].at = "send" =>
                            source'[b].sent = 0 /\ Len(source'[b].out) = 1
                            /\ source'[b].then = "over"
                     /\ source'[b].at = "over" => source'[b].sent = 1
                     /\ Len(ids'[b]) + (IF fetcher'[b].at = "take" THEN 0 ELSE 1)
                          = source'[b].sent
  BY DEF BatchesOK
<1>1. source'[b] = source[b] /\ ids'[b] = ids[b]
  OBVIOUS
<1>2. (IF fetcher'[b].at = "take" THEN 0 ELSE 1) = IF fetcher[b].at = "take" THEN 0 ELSE 1
  OBVIOUS
<1>. QED BY <1>1, <1>2 DEF BatchesOK

LEMMA GetRavelIdsBatches ==
    ASSUME EndsInv, NEW a \in Batch, GetRavelIds(a)
    PROVE  BatchesOK'
<1>1. PICK q : q = source[a] /\ q \in Source
  BY ChannelFacts DEF EndsInv, PipeInv, PipeTyped
<1>2. /\ source \in [Job -> Source] /\ a \in Job /\ q.at = "ask" /\ q.sent = 0
      /\ Len(ids[a]) + (IF fetcher[a].at = "take" THEN 0 ELSE 1) = q.sent
      /\ UNCHANGED <<fetcher, ids>>
  BY <1>1, ChannelFacts DEF EndsInv, PipeInv, PipeTyped, SourcesOK, BatchesOK, GetRavelIds
<1>3. ASSUME NEW out, NEW then, Asked(a, out, then)
      PROVE  /\ source'[a].sent = 0 /\ source'[a].out = out /\ source'[a].then = then
             /\ source'[a].at = IF out = <<>> THEN then ELSE "send"
             /\ \A b \in Batch : b # a => source'[b] = source[b]
  <2>1. PICK p : p = [q EXCEPT !.at = IF out = <<>> THEN then ELSE "send",
                               !.out = out, !.then = then]
    OBVIOUS
  <2>2. source' = [source EXCEPT ![a] = p]
    BY <1>1, <1>3, <2>1 DEF Asked
  <2>3. source'[a] = p
    BY <1>2, <2>2
  <2>4. /\ p.sent = 0 /\ p.out = out /\ p.then = then
        /\ p.at = IF out = <<>> THEN then ELSE "send"
    BY <1>1, <1>2, <2>1 DEF Source
  <2>5. \A b \in Batch : b # a => source'[b] = source[b]
    BY <1>2, <2>2, ChannelFacts
  <2>. QED BY <2>3, <2>4, <2>5
<1>. DEFINE Sends ==
              /\ source'[a].sent = 0 /\ source'[a].at \in {"send", "panic"}
              /\ source'[a].at = "send" => Len(source'[a].out) = 1 /\ source'[a].then = "over"
              /\ \A b \in Batch : b # a => source'[b] = source[b]
<1>4. Sends
  <2>1. ASSUME NEW list \in {a, Empty}, Asked(a, <<list>>, "over") PROVE Sends
    <3>1. <<list>> # <<>> /\ Len(<<list>>) = 1
      OBVIOUS
    <3>. QED BY <1>3, <2>1, <3>1
  <2>2. ASSUME Asked(a, <<>>, "panic") PROVE Sends
    BY <1>3, <2>2
  <2>. QED BY <2>1, <2>2 DEF GetRavelIds
<1>5. ASSUME NEW b \in Batch
      PROVE  /\ source'[b].at = "send" =>
                    source'[b].sent = 0 /\ Len(source'[b].out) = 1
                    /\ source'[b].then = "over"
             /\ source'[b].at = "over" => source'[b].sent = 1
             /\ Len(ids'[b]) + (IF fetcher'[b].at = "take" THEN 0 ELSE 1)
                  = source'[b].sent
  <2>1. CASE b = a
    BY <1>2, <1>4, <2>1
  <2>2. CASE b # a
    BY <1>2, <1>4, <2>2 DEF EndsInv, BatchesOK
  <2>. QED BY <2>1, <2>2
<1>. QED BY <1>5 DEF BatchesOK

LEMMA SendIdsBatches ==
    ASSUME EndsInv, NEW j \in Job, SendIds(j)
    PROVE  BatchesOK'
<1>. DEFINE c == ChannelOf(j)
<1>1. PICK q : q = source[j] /\ q \in Source
  BY DEF EndsInv, PipeInv, PipeTyped
<1>2. PICK p : p = [q EXCEPT !.at = IF Tail(q.out) = <<>> THEN q.then ELSE "send",
                             !.out = Tail(q.out), !.sent = q.sent + 1]
  OBVIOUS
<1>3. /\ q.at = "send" /\ c \in Channel
      /\ ids' = [ids EXCEPT ![c] = Append(ids[c], Head(q.out))]
      /\ source' = [source EXCEPT ![j] = p]
      /\ UNCHANGED fetcher
  BY <1>1, <1>2, ChannelFacts DEF SendIds
<1>4. source \in [Job -> Source] /\ ids \in [Channel -> Seq(List)] /\ q.out # <<>>
  BY <1>1, <1>3 DEF EndsInv, PipeInv, PipeTyped, SourcesOK
<1>5. PICK s : s = Append(ids[c], Head(q.out))
  OBVIOUS
<1>6. Len(s) = Len(ids[c]) + 1 /\ Len(ids[c]) \in Nat
  <2>1. Head(q.out) \in List /\ ids[c] \in Seq(List)
    BY <1>1, <1>3, <1>4 DEF Source
  <2>. QED BY <1>5, <2>1
<1>7. /\ ids'[c] = s /\ \A d \in Channel : d # c => ids'[d] = ids[d]
      /\ source'[j] = p /\ \A i \in Job : i # j => source'[i] = source[i]
  BY <1>3, <1>4, <1>5
<1>8. p.sent = q.sent + 1 /\ p.at = IF Tail(q.out) = <<>> THEN q.then ELSE "send"
  BY <1>1, <1>2 DEF Source
<1>9. CASE j \in Weight
  <2>1. \A b \in Batch : b \in Channel /\ b \in Job /\ b # c /\ b # j
    BY <1>9, ChannelFacts DEF Channel
  <2>. HIDE DEF c
  <2>2. \A b \in Batch : source'[b] = source[b] /\ ids'[b] = ids[b]
    BY <1>7, <2>1
  <2>. QED BY <1>3, <2>2, SameBatches DEF EndsInv
<1>10. CASE j \in Batch
  <2>1. c = j
    BY <1>10, ChannelFacts
  <2>2. /\ q.sent = 0 /\ Len(q.out) = 1 /\ q.then = "over"
        /\ Len(ids[j]) + (IF fetcher[j].at = "take" THEN 0 ELSE 1) = q.sent
    BY <1>1, <1>3, <1>10 DEF EndsInv, BatchesOK
  <2>3. Tail(q.out) = <<>>
    <3>1. PICK t : t = Tail(q.out)
      OBVIOUS
    <3>2. t \in Seq(List) /\ Len(t) = 0
      BY <1>1, <1>4, <2>2, <3>1 DEF Source
    <3>3. t = <<>>
      BY <3>2
    <3>. QED BY <3>1, <3>3
  <2>4. p.sent = 1 /\ p.at = "over"
    BY <1>8, <2>2, <2>3
  <2>5. \A b \in Batch : b \in Channel /\ b \in Job
    BY ChannelFacts DEF Channel
  <2>. HIDE DEF c
  <2>6. ASSUME NEW b \in Batch
        PROVE  /\ source'[b].at = "send" =>
                      source'[b].sent = 0 /\ Len(source'[b].out) = 1
                      /\ source'[b].then = "over"
               /\ source'[b].at = "over" => source'[b].sent = 1
               /\ Len(ids'[b]) + (IF fetcher'[b].at = "take" THEN 0 ELSE 1)
                    = source'[b].sent
    <3>1. CASE b = j
      <4>1. source'[b] = p /\ Len(ids'[b]) = Len(ids[j]) + 1 /\ fetcher'[b] = fetcher[j]
        BY <1>3, <1>6, <1>7, <2>1, <3>1
      <4>2. PICK n \in {0, 1} : n = IF fetcher[j].at = "take" THEN 0 ELSE 1
        OBVIOUS
      <4>3. Len(ids[j]) + n = 0 /\ Len(ids[j]) \in Nat
        BY <1>6, <2>1, <2>2, <4>2
      <4>4. Len(ids'[b]) + n = 1
        BY <4>1, <4>3
      <4>. QED BY <2>4, <4>1, <4>2, <4>4
    <3>2. CASE b # j
      BY <1>3, <1>7, <2>1, <2>5, <3>2 DEF EndsInv, BatchesOK
    <3>. QED BY <3>1, <3>2
  <2>. QED BY <2>6 DEF BatchesOK
<1>. QED BY <1>9, <1>10 DEF Job

LEMMA TakeIdsBatches ==
    ASSUME EndsInv, NEW j \in Job, TakeIds(j)
    PROVE  BatchesOK'
<1>. DEFINE c == ChannelOf(j)
<1>1. /\ fetcher[j].at = "take" /\ ids[c] # <<>> /\ c \in Channel
      /\ fetcher' = [fetcher EXCEPT ![j] = [at |-> "put", list |-> Head(ids[c])]]
      /\ ids' = [ids EXCEPT ![c] = Tail(ids[c])]
      /\ UNCHANGED source
  BY ChannelFacts DEF TakeIds
<1>2. fetcher \in [Job -> Fetcher] /\ ids \in [Channel -> Seq(List)]
  BY DEF EndsInv, PipeInv, PipeTyped
<1>3. PICK s : s = Tail(ids[c])
  OBVIOUS
<1>4. Len(s) = Len(ids[c]) - 1 /\ Len(ids[c]) \in Nat
  BY <1>1, <1>2, <1>3
<1>5. /\ ids'[c] = s /\ \A d \in Channel : d # c => ids'[d] = ids[d]
      /\ fetcher'[j].at = "put" /\ \A i \in Job : i # j => fetcher'[i] = fetcher[i]
  BY <1>1, <1>2, <1>3
<1>6. CASE j \in Weight
  <2>1. \A b \in Batch : b \in Channel /\ b \in Job /\ b # c /\ b # j
    BY <1>6, ChannelFacts DEF Channel
  <2>. HIDE DEF c
  <2>2. \A b \in Batch : fetcher'[b] = fetcher[b] /\ ids'[b] = ids[b]
    BY <1>5, <2>1
  <2>. QED BY <1>1, <2>2, SameBatches DEF EndsInv
<1>7. CASE j \in Batch
  <2>1. c = j /\ \A b \in Batch : b \in Channel /\ b \in Job
    BY <1>7, ChannelFacts DEF Channel
  <2>2. Len(ids[j]) + 0 = source[j].sent
    BY <1>1, <1>7 DEF EndsInv, BatchesOK
  <2>. HIDE DEF c
  <2>3. ASSUME NEW b \in Batch
        PROVE  /\ source'[b].at = "send" =>
                      source'[b].sent = 0 /\ Len(source'[b].out) = 1
                      /\ source'[b].then = "over"
               /\ source'[b].at = "over" => source'[b].sent = 1
               /\ Len(ids'[b]) + (IF fetcher'[b].at = "take" THEN 0 ELSE 1)
                    = source'[b].sent
    <3>1. source'[b] = source[b]
      BY <1>1
    <3>2. Len(ids'[b]) + (IF fetcher'[b].at = "take" THEN 0 ELSE 1) = source[b].sent
      <4>1. CASE b = j
        <5>1. Len(ids'[b]) = Len(ids[j]) - 1 /\ fetcher'[b].at = "put"
          BY <1>4, <1>5, <2>1, <4>1
        <5>. QED BY <1>4, <2>1, <2>2, <4>1, <5>1
      <4>2. CASE b # j
        BY <1>5, <2>1, <4>2 DEF EndsInv, BatchesOK
      <4>. QED BY <4>1, <4>2
    <3>. QED BY <3>1, <3>2 DEF EndsInv, BatchesOK
  <2>. QED BY <2>3 DEF BatchesOK
<1>. QED BY <1>6, <1>7 DEF Job

\* A sink that has taken its list does not go back for another.
LEMMA CollectGoesOn ==
    ASSUME sink \in [Job -> Sink], NEW w \in Weight, Collect(w), ~TakePosts(w)
    PROVE  sink'[w].at # "take" /\ \A i \in Job : i # w => sink'[i] = sink[i]
<1>1. PICK q : q = sink[w] /\ q \in Sink /\ w \in Job
  BY ChannelFacts
<1>2. \E p : p.at # "take" /\ sink' = [sink EXCEPT ![w] = p]
  <2>1. CASE Download(w)
    <3>1. PICK p \in q.left, had \in BOOLEAN :
             sink' = [sink EXCEPT ![w] =
                        [q EXCEPT !.at = IF ~had THEN "next"
                                         ELSE IF file[Path[p]] = Empty THEN "create"
                                         ELSE "stat",
                                  !.left = q.left \ {p},
                                  !.photo = IF had THEN p ELSE Empty]]
      BY <1>1, <2>1 DEF Download
    <3>2. PICK at \in {"next", "create", "stat"} :
             at = IF ~had THEN "next" ELSE IF file[Path[p]] = Empty THEN "create" ELSE "stat"
      OBVIOUS
    <3>3. PICK r : r = [q EXCEPT !.at = at, !.left = q.left \ {p},
                                 !.photo = IF had THEN p ELSE Empty]
      OBVIOUS
    <3>4. r.at = at
      BY <1>1, <3>3 DEF Sink
    <3>5. sink' = [sink EXCEPT ![w] = r]
      BY <3>1, <3>2, <3>3
    <3>. QED BY <3>2, <3>4, <3>5
  <2>2. CASE Create(w)
    <3>1. CASE Sinks(w, "next")
      <4>1. [q EXCEPT !.at = "next"].at = "next"
        BY <1>1 DEF Sink
      <4>. QED BY <1>1, <3>1, <4>1 DEF Sinks
    <3>2. CASE ~Sinks(w, "next")
      <4>1. PICK out : sink' = [sink EXCEPT ![w] = [q EXCEPT !.at = "decode", !.out = out]]
        BY <1>1, <2>2, <3>2 DEF Create
      <4>2. [q EXCEPT !.at = "decode", !.out = out].at = "decode"
        BY <1>1 DEF Sink
      <4>. QED BY <4>1, <4>2
    <3>. QED BY <3>1, <3>2
  <2>3. CASE Finish(w) \/ Decode(w) \/ Encode(w) \/ Stat(w) \/ RemoveEmpty(w)
    <3>1. PICK at \in {"over", "next", "half", "stat", "remove"} :
            sink' = [sink EXCEPT ![w] = [q EXCEPT !.at = at]]
      BY <1>1, <2>3 DEF Finish, Decode, Encode, Stat, RemoveEmpty, Sinks
    <3>2. [q EXCEPT !.at = at].at = at
      BY <1>1 DEF Sink
    <3>. QED BY <3>1, <3>2
  <2>. QED BY <2>1, <2>2, <2>3 DEF Collect
<1>. QED BY <1>1, <1>2

LEMMA StepEnds == EndsInv /\ [Next]_vars => EndsInv'
<1>. SUFFICES ASSUME EndsInv, [Next]_vars PROVE EndsInv'
  OBVIOUS
<1>0. PipeInv' /\ StoreInv'
  BY StepPipe, StepStore DEF EndsInv
<1>1. sink \in [Job -> Sink] /\ PostsCounted /\ BatchesOK
  BY DEF EndsInv, StoreInv, StoreTyped
<1>2. ASSUME NEW w \in Weight, Search(w) PROVE PostsCounted' /\ BatchesOK'
  <2>1. /\ UNCHANGED <<fetcher, sink, ids, posts>>
        /\ \A b \in Batch : source'[b] = source[b]
    <3>1. w \in Job /\ source \in [Job -> Source] /\ \A b \in Batch : b \in Job /\ b # w
      BY ChannelFacts DEF EndsInv, PipeInv, PipeTyped
    <3>2. \E p : source' = [source EXCEPT ![w] = p]
      BY <1>2 DEF Search, Asked
    <3>. QED BY <1>2, <3>1, <3>2 DEF Search
  <2>2. PostsCounted'
    BY <1>1, <2>1, SamePosts
  <2>3. BatchesOK'
    BY <1>1, <2>1, SameBatches
  <2>. QED BY <2>2, <2>3
<1>3. ASSUME NEW b \in Batch, GetRavelIds(b) PROVE PostsCounted' /\ BatchesOK'
  <2>1. UNCHANGED <<fetcher, sink, posts>>
    BY <1>3 DEF GetRavelIds
  <2>2. PostsCounted'
    BY <1>1, <2>1, SamePosts
  <2>. QED BY <1>3, <2>2, GetRavelIdsBatches
<1>4. ASSUME NEW b \in Batch, AddRavelhash(b) PROVE PostsCounted' /\ BatchesOK'
  <2>1. /\ b \in Job /\ b \in Channel /\ b = ChannelOf(b) /\ sink[b].at = "take"
        /\ posts[b] # <<>> /\ posts' = [posts EXCEPT ![b] = Tail(posts[b])]
        /\ UNCHANGED <<source, fetcher, ids>>
    BY <1>4, ChannelFacts DEF AddRavelhash, Channel
  <2>2. sink'[b].at = "over" /\ \A i \in Job : i # b => sink'[i] = sink[i]
    <3>1. PICK p : p = [sink[b] EXCEPT !.at = "over"]
      OBVIOUS
    <3>2. p.at = "over" /\ sink' = [sink EXCEPT ![b] = p]
      BY <1>1, <1>4, <2>1, <3>1 DEF AddRavelhash, Sinks, Sink
    <3>. QED BY <1>1, <2>1, <3>2
  <2>3. PostsCounted'
    BY <2>1, <2>2, TakenPostsCount
  <2>4. BatchesOK'
    BY <1>1, <2>1, SameBatches
  <2>. QED BY <2>3, <2>4
<1>5. ASSUME NEW w \in Weight, TakePosts(w) PROVE PostsCounted' /\ BatchesOK'
  <2>1. /\ w \in Job /\ Shared \in Channel /\ Shared = ChannelOf(w) /\ sink[w].at = "take"
        /\ posts[Shared] # <<>> /\ posts' = [posts EXCEPT ![Shared] = Tail(posts[Shared])]
        /\ UNCHANGED <<source, fetcher, ids>>
    BY <1>5, ChannelFacts DEF TakePosts
  <2>2. sink'[w].at = "next" /\ \A i \in Job : i # w => sink'[i] = sink[i]
    <3>1. PICK left : sink' = [sink EXCEPT ![w] = [sink[w] EXCEPT !.at = "next", !.left = left]]
      BY <1>5 DEF TakePosts
    <3>2. PICK p : p = [sink[w] EXCEPT !.at = "next", !.left = left]
      OBVIOUS
    <3>3. p.at = "next" /\ sink' = [sink EXCEPT ![w] = p]
      BY <1>1, <2>1, <3>1, <3>2 DEF Sink
    <3>. QED BY <1>1, <2>1, <3>3
  <2>3. PostsCounted'
    BY <2>1, <2>2, TakenPostsCount
  <2>4. BatchesOK'
    BY <1>1, <2>1, SameBatches
  <2>. QED BY <2>3, <2>4
<1>6. ASSUME NEW w \in Weight, Collect(w), ~TakePosts(w) PROVE PostsCounted' /\ BatchesOK'
  <2>1. UNCHANGED <<source, fetcher, ids, posts>>
    BY <1>6 DEF Collect, Finish, Download, Create, Decode, Encode, Stat, RemoveEmpty
  <2>2. sink[w].at # "take" /\ w \in Job
    BY <1>6, ChannelFacts DEF Collect, Finish, Download, Create, Decode, Encode, Stat,
                              RemoveEmpty
  <2>3. sink'[w].at # "take" /\ \A i \in Job : i # w => sink'[i] = sink[i]
    BY <1>1, <1>6, CollectGoesOn
  <2>4. PostsCounted'
    BY <1>1, <2>1, <2>2, <2>3, SamePosts
  <2>5. BatchesOK'
    BY <1>1, <2>1, SameBatches
  <2>. QED BY <2>4, <2>5
<1>7. ASSUME NEW j \in Job, SendIds(j) PROVE PostsCounted' /\ BatchesOK'
  <2>1. UNCHANGED <<fetcher, sink, posts>>
    BY <1>7 DEF SendIds
  <2>2. PostsCounted'
    BY <1>1, <2>1, SamePosts
  <2>. QED BY <1>7, <2>2, SendIdsBatches
<1>8. ASSUME NEW j \in Job, TakeIds(j) PROVE PostsCounted' /\ BatchesOK'
  <2>1. /\ UNCHANGED <<sink, posts>>
        /\ \A i \in Job : fetcher'[i].at = "over" <=> fetcher[i].at = "over"
    <3>1. fetcher \in [Job -> Fetcher]
      BY DEF EndsInv, PipeInv, PipeTyped
    <3>2. /\ fetcher[j].at = "take" /\ UNCHANGED <<sink, posts>>
          /\ \E list : fetcher' = [fetcher EXCEPT ![j] = [at |-> "put", list |-> list]]
      BY <1>8 DEF TakeIds
    <3>. QED BY <3>1, <3>2
  <2>2. PostsCounted'
    BY <1>1, <2>1, SamePosts
  <2>. QED BY <1>8, <2>2, TakeIdsBatches
<1>9. ASSUME NEW j \in Job, PutPosts(j) PROVE PostsCounted' /\ BatchesOK'
  <2>1. /\ UNCHANGED <<source, ids>>
        /\ \A i \in Job : fetcher'[i].at = "take" <=> fetcher[i].at = "take"
    <3>1. fetcher \in [Job -> Fetcher]
      BY DEF EndsInv, PipeInv, PipeTyped
    <3>2. /\ fetcher[j].at = "put" /\ UNCHANGED <<source, ids>>
          /\ fetcher' = [fetcher EXCEPT ![j] = [at |-> "over", list |-> Empty]]
      BY <1>9 DEF PutPosts
    <3>. QED BY <3>1, <3>2
  <2>2. BatchesOK'
    BY <1>1, <2>1, ChannelFacts, SameBatches
  <2>. QED BY <1>9, <2>2, PutPostsCount
<1>10. ASSUME UNCHANGED <<source, fetcher, sink, ids, posts>>
       PROVE  PostsCounted' /\ BatchesOK'
  BY <1>1, <1>10, SamePosts, SameBatches
<1>11. ASSUME NEW j \in Job, Panic(j) PROVE PostsCounted' /\ BatchesOK'
  BY <1>10, <1>11 DEF Panic
<1>12. ASSUME UNCHANGED vars PROVE PostsCounted' /\ BatchesOK'
  BY <1>10, <1>12 DEF vars
<1>13. PostsCounted' /\ BatchesOK'
  BY <1>2, <1>3, <1>4, <1>5, <1>6, <1>7, <1>8, <1>9, <1>11, <1>12 DEF Next, Gather, Pass
<1>. QED BY <1>0, <1>13 DEF EndsInv

LEMMA EndsInvariant == Spec => []EndsInv
  BY InitEnds, StepEnds, PTL DEF Spec

\* Where all wait, the goroutines of a batch are over: its source found room, so
\* its fetcher found a list, and so did its sink.
LEMMA BatchOver ==
    ASSUME EndsInv, NEW b \in Batch, Waits(b)
    PROVE  Over(b)
<1>1. /\ b \in Job /\ b \in Channel /\ ChannelOf(b) = b /\ Capacity(b) \in Nat \ {0}
  BY ConstantsAssumption, ChannelFacts DEF Channel, Capacity
<1>2. /\ source[b].at = "over" \/ (source[b].at = "send" /\ Len(ids[b]) = Capacity(b))
      /\ \/ fetcher[b].at = "over"
         \/ fetcher[b].at = "take" /\ ids[b] = <<>>
         \/ fetcher[b].at = "put" /\ Len(posts[b]) = Capacity(b)
      /\ sink[b].at = "over" \/ (sink[b].at = "take" /\ posts[b] = <<>>)
  BY <1>1 DEF Waits
<1>3. Len(ids[b]) \in Nat /\ Len(posts[b]) \in Nat
  BY <1>1 DEF EndsInv, PipeInv, PipeTyped
<1>4. PICK n \in {0, 1} : n = IF fetcher[b].at = "take" THEN 0 ELSE 1
  OBVIOUS
<1>5. Len(ids[b]) + n = source[b].sent
  BY <1>4 DEF EndsInv, BatchesOK
<1>6. source[b].at = "over" /\ source[b].sent = 1
  <2>1. CASE source[b].at = "send"
    <3>1. source[b].sent = 0 /\ Len(ids[b]) = Capacity(b)
      BY <1>2, <2>1 DEF EndsInv, BatchesOK
    <3>. QED BY <1>1, <1>3, <1>5, <3>1
  <2>2. CASE source[b].at = "over"
    BY <2>2 DEF EndsInv, BatchesOK
  <2>. QED BY <1>2, <2>1, <2>2
<1>7. fetcher[b].at # "take"
  <2>. SUFFICES ASSUME fetcher[b].at = "take" PROVE FALSE
    OBVIOUS
  <2>1. ids[b] = <<>> /\ n = 0
    BY <1>2, <1>4
  <2>2. Len(ids[b]) = 0
    BY <2>1
  <2>. QED BY <1>5, <1>6, <2>1, <2>2
<1>8. Len(posts[b]) + Cardinality(Served(b)) = Cardinality(Put(b))
  BY <1>1 DEF EndsInv, PostsCounted
<1>9. Users(b) = {b} /\ Cardinality({b}) = 1 /\ Cardinality({}) = 0
  BY UsersFacts, FS_Singleton, FS_EmptySet
<1>10. Served(b) = (IF sink[b].at = "take" THEN {} ELSE {b})
  BY <1>9 DEF Served
<1>11. fetcher[b].at = "over"
  <2>. SUFFICES ASSUME fetcher[b].at # "over" PROVE FALSE
    OBVIOUS
  <2>1. Put(b) = {} /\ Len(posts[b]) = Capacity(b)
    BY <1>2, <1>7, <1>9 DEF Put
  <2>2. Cardinality(Served(b)) \in {0, 1}
    BY <1>9, <1>10
  <2>. QED BY <1>1, <1>3, <1>8, <1>9, <2>1, <2>2
<1>12. sink[b].at = "over"
  <2>. SUFFICES ASSUME sink[b].at = "take" PROVE FALSE
    BY <1>2
  <2>1. Put(b) = {b} /\ Served(b) = {} /\ Len(posts[b]) = 0
    BY <1>2, <1>9, <1>10, <1>11 DEF Put
  <2>. QED BY <1>8, <1>9, <2>1
<1>. QED BY <1>6, <1>11, <1>12 DEF Over

\* Where all wait, a weight has its lists counted: were one at its send, all
\* fetchers were past theirs and every search had sent twice; were one fetcher at
\* its put, all had put.  Unless a search was refused there are then as many lists
\* as fetchers, and as sinks.
LEMMA WeightsOver ==
    ASSUME EndsInv, \A w \in Weight : Waits(w), \A w \in Weight : ~Refused(w),
           NEW w \in Weight
    PROVE  Over(w)
<1>. DEFINE n == Cardinality(Weight)
<1>1. /\ n \in Nat \ {0} /\ Capacity(Shared) = n /\ Users(Shared) = Weight
      /\ Len(ids[Shared]) \in Nat /\ Len(posts[Shared]) \in Nat
      /\ \A S \in SUBSET Weight : /\ Cardinality(S) \in Nat /\ Cardinality(S) <= n
                                  /\ Cardinality(S) = n => S = Weight
  <2>1. n \in Nat \ {0}
    BY ConstantsAssumption, FS_CardinalityType, FS_EmptySet
  <2>2. ASSUME NEW S \in SUBSET Weight, Cardinality(S) = n PROVE S = Weight
    BY <2>2, ConstantsAssumption, FS_Subset
  <2>. QED BY <2>1, <2>2, WeightSubsets, ChannelFacts, UsersFacts
           DEF EndsInv, PipeInv, PipeTyped
<1>2. /\ Len(ids[Shared]) + Cardinality(Taken) = Cardinality(Once) + Cardinality(Twice)
      /\ Len(posts[Shared]) + Cardinality(Served(Shared)) = Cardinality(Put(Shared))
  BY ChannelFacts DEF EndsInv, PipeInv, Counted, PostsCounted
<1>3. /\ Taken \subseteq Weight /\ Once \subseteq Weight /\ Twice \subseteq Weight
      /\ Served(Shared) \subseteq Weight /\ Put(Shared) \subseteq Weight
  BY <1>1 DEF Taken, Once, Twice, Served, Put
<1>4. ASSUME NEW v \in Weight
      PROVE  /\ source[v].at = "over" \/ (source[v].at = "send" /\ Len(ids[Shared]) = n)
             /\ \/ fetcher[v].at = "over"
                \/ fetcher[v].at = "take" /\ Len(ids[Shared]) = 0
                \/ fetcher[v].at = "put" /\ Len(posts[Shared]) = n
             /\ sink[v].at = "over" \/ (sink[v].at = "take" /\ Len(posts[Shared]) = 0)
  <2>1. ChannelOf(v) = Shared /\ Len(<<>>) = 0
    BY ChannelFacts
  <2>. QED BY <1>1, <2>1 DEF Waits
<1>. HIDE DEF n
<1>5. ASSUME NEW v \in Weight PROVE fetcher[v].at # "put"
  <2>. SUFFICES ASSUME fetcher[v].at = "put" PROVE FALSE
    OBVIOUS
  <2>1. Len(posts[Shared]) = n
    BY <1>4
  <2>2. Cardinality(Put(Shared)) = n
    BY <1>1, <1>2, <1>3, <2>1
  <2>3. v \in Put(Shared)
    BY <1>1, <1>3, <2>2
  <2>. QED BY <2>3 DEF Put
<1>6. ASSUME NEW v \in Weight PROVE source[v].at = "over"
  <2>. SUFFICES ASSUME source[v].at = "send" PROVE FALSE
    BY <1>4
  <2>1. Len(ids[Shared]) = n
    BY <1>4
  <2>2. \A u \in Weight : fetcher[u].at = "over"
    BY <1>1, <1>4, <1>5, <2>1
  <2>3. Taken = Weight
    BY <2>2 DEF Taken
  <2>4. Cardinality(Taken) = n
    BY <2>3 DEF n
  <2>5. Cardinality(Twice) = n
    BY <1>1, <1>2, <1>3, <2>1, <2>4
  <2>6. v \in Twice
    BY <1>1, <1>3, <2>5
  <2>7. /\ source[v].sent = 2 /\ source[v].out \in Seq(List) /\ source[v].out # <<>>
        /\ source[v].sent + Len(source[v].out) <= 2
    BY <2>6, ChannelFacts DEF EndsInv, PipeInv, PipeTyped, SourcesOK, Source, Twice
  <2>. QED BY <2>7
<1>7. Once = Weight
  <2>1. ASSUME NEW v \in Weight PROVE source[v].sent >= 1
    <3>1. source[v].sent \in 0 .. 2
      BY ChannelFacts DEF EndsInv, PipeInv, PipeTyped, Source
    <3>. QED BY <1>6, <3>1 DEF Refused
  <2>. QED BY <2>1 DEF Once
<1>8. ASSUME NEW v \in Weight PROVE fetcher[v].at = "over"
  <2>. SUFFICES ASSUME fetcher[v].at = "take" PROVE FALSE
    BY <1>4, <1>5
  <2>1. Len(ids[Shared]) = 0
    BY <1>1, <1>4
  <2>2. Cardinality(Once) = n
    BY <1>7 DEF n
  <2>3. Cardinality(Taken) = n
    BY <1>1, <1>2, <1>3, <2>1, <2>2
  <2>4. v \in Taken
    BY <1>1, <1>3, <2>3
  <2>. QED BY <2>4 DEF Taken
<1>9. sink[w].at = "over"
  <2>. SUFFICES ASSUME sink[w].at = "take" PROVE FALSE
    BY <1>4
  <2>1. Put(Shared) = Weight
    BY <1>1, <1>8 DEF Put
  <2>2. Cardinality(Put(Shared)) = n /\ Len(posts[Shared]) = 0
    BY <1>4, <2>1 DEF n
  <2>3. w \in Served(Shared)
    BY <1>1, <1>2, <1>3, <2>2
  <2>. QED BY <2>3 DEF Served
<1>. QED BY <1>6, <1>8, <1>9 DEF Over

\* Sources, fetchers and sinks never all wait for each other, however many jobs
\* there are: where none can go on, all are over, or Ravelry refused a search.
THEOREM NoneWaits == Spec => []NoneWaitsForAll
<1>1. ASSUME EndsInv PROVE NoneWaitsForAll
  <2>. SUFFICES ASSUME \A j \in Job : Waits(j) PROVE AllOver
    BY DEF NoneWaitsForAll
  <2>1. \A b \in Batch : Over(b)
    BY <1>1, BatchOver DEF Job
  <2>2. ASSUME \A w \in Weight : ~Refused(w), NEW w \in Weight PROVE Over(w)
    BY <1>1, <2>2, WeightsOver DEF Job
  <2>. QED BY <2>1, <2>2 DEF AllOver
<1>. QED BY <1>1, EndsInvariant, PTL
=============================================================================
