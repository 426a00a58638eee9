-------------------------- MODULE GatherWholeProofs --------------------------
(***************************************************************************)
(* What GatherPipeline leaves in a file that one weight alone can name: a  *)
(* whole image.  Every list that a weight's search found is followed on    *)
(* its way through the channels to the one sink that works on its photos.  *)
(***************************************************************************)
EXTENDS GatherPipelineProofs

-----------------------------------------------------------------------------
(* Lists in channels *)

Has(s, l) == \E i \in 1 .. Len(s) : s[i] = l
OnceIn(s, l) == \A i, k \in 1 .. Len(s) : s[i] = l /\ s[k] = l => i = k

LEMMA AppendHas ==
    ASSUME NEW S, NEW s \in Seq(S), NEW x \in S, NEW l, OnceIn(s, l)
    PROVE  /\ Has(Append(s, x), l) => Has(s, l) \/ x = l
           /\ x # l \/ ~Has(s, l) => OnceIn(Append(s, x), l)
<1>1. /\ Len(s) \in Nat /\ Len(Append(s, x)) = Len(s) + 1
      /\ Append(s, x)[Len(s) + 1] = x
      /\ \A i \in 1 .. Len(s) : Append(s, x)[i] = s[i]
  OBVIOUS
<1>2. \A i \in 1 .. Len(s) + 1 : i \in 1 .. Len(s) \/ i = Len(s) + 1
  BY <1>1
<1>. QED BY <1>1, <1>2 DEF Has, OnceIn

LEMMA TailHas ==
    ASSUME NEW S, NEW s \in Seq(S), s # <<>>, NEW l, OnceIn(s, l)
    PROVE  /\ Head(s) = l => Has(s, l)
           /\ Has(Tail(s), l) => Has(s, l) /\ Head(s) # l
           /\ OnceIn(Tail(s), l)
<1>1. /\ Len(s) \in Nat /\ Len(s) >= 1 /\ Len(Tail(s)) = Len(s) - 1
      /\ Head(s) = s[1]
      /\ \A i \in 1 .. Len(s) - 1 : Tail(s)[i] = s[i + 1] /\ i + 1 \in 1 .. Len(s)
  OBVIOUS
<1>2. Head(s) = l => Has(s, l)
  BY <1>1 DEF Has
<1>3. Has(Tail(s), l) => Has(s, l)
  BY <1>1 DEF Has
<1>4. Has(Tail(s), l) => Head(s) # l
  <2>. SUFFICES ASSUME NEW i \in 1 .. Len(s) - 1, s[i + 1] = l, s[1] = l PROVE FALSE
    BY <1>1 DEF Has
  <2>1. 1 \in 1 .. Len(s) /\ i + 1 \in 1 .. Len(s) /\ i + 1 # 1
    BY <1>1
  <2>. QED BY <2>1 DEF OnceIn
<1>5. OnceIn(Tail(s), l)
  <2>. SUFFICES ASSUME NEW i \in 1 .. Len(s) - 1, NEW k \in 1 .. Len(s) - 1,
                       s[i + 1] = l, s[k + 1] = l
                PROVE  i = k
    BY <1>1 DEF OnceIn
  <2>1. i + 1 = k + 1
    BY <1>1 DEF OnceIn
  <2>. QED BY <1>1, <2>1
<1>. QED BY <1>2, <1>3, <1>4, <1>5

-----------------------------------------------------------------------------
(* The way of a list *)

InOut(l) == source[l].out = <<l>>
InIds(l) == Has(ids[Shared], l)
Fetches(v, l) == fetcher[v].list = l
InPosts(l) == Has(posts[Shared], l)
WorksFor(v, l) ==
    \E p \in Photo : /\ Of[p] = l
                     /\ \/ p \in sink[v].left
                        \/ sink[v].at \in Busy /\ sink[v].photo = p
InFetcher(l) == \E v \in Weight : Fetches(v, l)
InSink(l) == \E v \in Weight : WorksFor(v, l)

\* What a weight's search has found is one list, or is empty.
OutOK(l) == \/ source[l].out \in {<<>>, <<l>>}
            \/ \A i \in 1 .. Len(source[l].out) : source[l].out[i] = Empty

\* A list is at one place of its way at most.
OnePlace(l) ==
    /\ source[l].at = "ask" \/ InOut(l) =>
          ~InIds(l) /\ ~InFetcher(l) /\ ~InPosts(l) /\ ~InSink(l)
    /\ InIds(l) => ~InFetcher(l) /\ ~InPosts(l) /\ ~InSink(l)
    /\ InFetcher(l) => ~InPosts(l) /\ ~InSink(l)
    /\ InPosts(l) => ~InSink(l)

OneCopy(l) ==
    /\ OnceIn(ids[Shared], l) /\ OnceIn(posts[Shared], l)
    /\ \A u, v \in Weight : Fetches(u, l) /\ Fetches(v, l) => u = v
    /\ \A u, v \in Weight : WorksFor(u, l) /\ WorksFor(v, l) => u = v

Followed(l) == OutOK(l) /\ OnePlace(l) /\ OneCopy(l)

FlowInv == PipeInv /\ StoreInv /\ \A l \in Weight : Followed(l)

LEMMA InitFlow == Init => FlowInv
<1>. SUFFICES ASSUME Init PROVE FlowInv
  OBVIOUS
<1>1. PipeInv /\ StoreInv
  BY InitPipe, InitStore
<1>. SUFFICES ASSUME NEW l \in Weight PROVE Followed(l)
  BY <1>1 DEF FlowInv
<1>2. /\ source[l].out = <<>> /\ ids[Shared] = <<>> /\ posts[Shared] = <<>>
      /\ \A v \in Weight : /\ fetcher[v].list = Empty /\ sink[v].left = {}
                           /\ sink[v].at = "take"
      /\ l # Empty /\ <<l>> # <<>>
  BY ChannelFacts, ConstantsAssumption DEF Init
<1>3. ~InIds(l) /\ ~InPosts(l) /\ ~InFetcher(l) /\ ~InSink(l)
  BY <1>2 DEF InIds, InPosts, InFetcher, InSink, Fetches, WorksFor, Has, Busy
<1>4. OutOK(l)
  BY <1>2 DEF OutOK
<1>5. OneCopy(l)
  BY <1>2, <1>3 DEF OneCopy, OnceIn, InFetcher, InSink
<1>. QED BY <1>3, <1>4, <1>5 DEF Followed, OnePlace

LEMMA FlowFacts ==
    ASSUME FlowInv
    PROVE  /\ source \in [Job -> Source] /\ fetcher \in [Job -> Fetcher]
           /\ sink \in [Job -> Sink]
           /\ ids \in [Channel -> Seq(List)] /\ posts \in [Channel -> Seq(List)]
           /\ \A l \in Weight : l \in Job /\ l # Empty /\ l \in List
  BY ChannelFacts, ConstantsAssumption
     DEF FlowInv, PipeInv, PipeTyped, StoreInv, StoreTyped, List

LEMMA SamePlaces ==
    ASSUME UNCHANGED <<fetcher, ids, posts>>, \A v \in Weight : sink'[v] = sink[v],
           NEW l \in Weight
    PROVE  /\ InIds(l)' = InIds(l) /\ InPosts(l)' = InPosts(l)
           /\ InFetcher(l)' = InFetcher(l) /\ InSink(l)' = InSink(l)
           /\ OneCopy(l) => OneCopy(l)'
<1>1. InIds(l)' = InIds(l) /\ InPosts(l)' = InPosts(l)
  BY DEF InIds, InPosts
<1>2. InFetcher(l)' = InFetcher(l)
  BY DEF InFetcher, Fetches
<1>3. \A v \in Weight : WorksFor(v, l)' = WorksFor(v, l)
  BY DEF WorksFor
<1>4. InSink(l)' = InSink(l)
  BY <1>3 DEF InSink
<1>5. OneCopy(l) => OneCopy(l)'
  BY <1>3 DEF OneCopy, Fetches
<1>. QED BY <1>1, <1>2, <1>4, <1>5

\* A source that asks changes what it has to send, and had nothing on its way.
LEMMA AskedFlow ==
    ASSUME FlowInv, NEW j \in Job, NEW then, source[j].at = "ask",
           NEW out \in Seq(List), Asked(j, out, then),
           j \in Weight => \/ out \in {<<>>, <<j>>}
                           \/ \A i \in 1 .. Len(out) : out[i] = Empty,
           UNCHANGED <<fetcher, sink, ids, posts>>
    PROVE  \A l \in Weight : Followed(l)'
<1>. SUFFICES ASSUME NEW l \in Weight PROVE Followed(l)'
  OBVIOUS
<1>1. /\ Followed(l) /\ l \in Job /\ source \in [Job -> Source]
  BY FlowFacts DEF FlowInv
<1>2. /\ InIds(l)' = InIds(l) /\ InPosts(l)' = InPosts(l)
      /\ InFetcher(l)' = InFetcher(l) /\ InSink(l)' = InSink(l)
      /\ OneCopy(l)'
  BY <1>1, SamePlaces DEF Followed
<1>3. CASE l # j
  <2>1. source'[l] = source[l]
    BY <1>1, <1>3 DEF Asked
  <2>2. OutOK(l)' = OutOK(l) /\ InOut(l)' = InOut(l)
    BY <2>1 DEF OutOK, InOut
  <2>. QED BY <1>1, <1>2, <2>1, <2>2 DEF Followed, OnePlace
<1>4. CASE l = j
  <2>1. PICK q \in Source : q = source[j]
    BY <1>1
  <2>2. source' = [source EXCEPT ![j] = [q EXCEPT !.at = IF out = <<>> THEN then ELSE "send",
                                                  !.out = out, !.then = then]]
    BY <2>1 DEF Asked
  <2>3. [q EXCEPT !.at = IF out = <<>> THEN then ELSE "send",
                  !.out = out, !.then = then].out = out
    BY DEF Source
  <2>4. source'[l].out = out
    BY <1>1, <1>4, <2>2, <2>3
  <2>5. OutOK(l)'
    BY <1>4, <2>4 DEF OutOK
  <2>6. ~InIds(l) /\ ~InPosts(l) /\ ~InFetcher(l) /\ ~InSink(l)
    BY <1>1, <1>4 DEF Followed, OnePlace
  <2>. QED BY <1>2, <2>5, <2>6 DEF Followed, OnePlace
<1>. QED BY <1>3, <1>4

LEMMA SearchFlow ==
    ASSUME FlowInv, NEW w \in Weight, Search(w)
    PROVE  \A l \in Weight : Followed(l)'
<1>1. /\ w \in Job /\ w \in List /\ Empty \in List /\ source[w].at = "ask"
      /\ UNCHANGED <<fetcher, sink, ids, posts>>
  BY FlowFacts DEF Search, List
<1>2. ASSUME NEW out \in Seq(List), NEW then, Asked(w, out, then),
             out = <<>> \/ out = <<w>> \/ \A i \in 1 .. Len(out) : out[i] = Empty
      PROVE  \A l \in Weight : Followed(l)'
  <2>1. \/ out \in {<<>>, <<w>>}
        \/ \A i \in 1 .. Len(out) : out[i] = Empty
    BY <1>2, Zenon
  <2>. QED BY <1>1, <1>2, <2>1, AskedFlow, Zenon
<1>3. /\ <<>> \in Seq(List) /\ <<w>> \in Seq(List) /\ <<Empty>> \in Seq(List)
      /\ <<Empty, Empty>> \in Seq(List)
  BY <1>1
<1>4. /\ \A i \in 1 .. Len(<<Empty>>) : <<Empty>>[i] = Empty
      /\ \A i \in 1 .. Len(<<Empty, Empty>>) : <<Empty, Empty>>[i] = Empty
  OBVIOUS
<1>5. PICK out, then : /\ Asked(w, out, then)
                       /\ \/ out = <<>> \/ out = <<w>>
                          \/ out = <<Empty>> \/ out = <<Empty, Empty>>
  BY Zenon DEF Search
<1>6. CASE out = <<>> \/ out = <<w>>
  BY <1>2, <1>3, <1>5, <1>6, Zenon
<1>7. CASE out = <<Empty>> \/ out = <<Empty, Empty>>
  BY <1>2, <1>3, <1>4, <1>5, <1>7, Zenon
<1>. QED BY <1>5, <1>6, <1>7

LEMMA GetRavelIdsFlow ==
    ASSUME FlowInv, NEW b \in Batch, GetRavelIds(b)
    PROVE  \A l \in Weight : Followed(l)'
<1>1. /\ b \in Job /\ b \notin Weight /\ b \in List /\ Empty \in List
      /\ source[b].at = "ask" /\ UNCHANGED <<fetcher, sink, ids, posts>>
  BY ChannelFacts DEF GetRavelIds, List
<1>2. /\ <<>> \in Seq(List) /\ <<b>> \in Seq(List) /\ <<Empty>> \in Seq(List)
  BY <1>1
<1>3. PICK out, then : /\ Asked(b, out, then)
                       /\ out = <<>> \/ out = <<b>> \/ out = <<Empty>>
  BY Zenon DEF GetRavelIds
<1>4. out \in Seq(List)
  BY <1>2, <1>3, Zenon
<1>. QED BY <1>1, <1>3, <1>4, AskedFlow

\* Sending takes a list from its source to the channel.
LEMMA SendIdsFlow ==
    ASSUME FlowInv, NEW j \in Job, SendIds(j)
    PROVE  \A l \in Weight : Followed(l)'
<1>. SUFFICES ASSUME NEW l \in Weight PROVE Followed(l)'
  OBVIOUS
<1>. DEFINE c == ChannelOf(j)
            out == source[j].out
<1>1. /\ Followed(l) /\ l \in Job /\ l # Empty /\ source \in [Job -> Source]
      /\ ids \in [Channel -> Seq(List)] /\ c \in Channel
      /\ UNCHANGED <<fetcher, sink, posts>>
      /\ source[j].at = "send" /\ out # <<>>
  BY FlowFacts, ChannelFacts DEF FlowInv, PipeInv, SourcesOK, SendIds
<1>2. out \in Seq(List) /\ Head(out) \in List /\ Len(out) \in Nat /\ Len(out) >= 1
  BY <1>1 DEF Source
<1>3. /\ ids' = [ids EXCEPT ![c] = Append(ids[c], Head(out))]
      /\ \A i \in Job : i # j => source'[i] = source[i]
  BY <1>1 DEF SendIds
<1>4. source'[j].out = Tail(out) /\ source'[j].at \in {"send", "over", "panic"}
  <2>1. PICK q \in Source : q = source[j]
    BY <1>1
  <2>2. PICK p : p = [q EXCEPT !.at = IF Tail(out) = <<>> THEN source[j].then ELSE "send",
                             !.out = Tail(out), !.sent = source[j].sent + 1]
    OBVIOUS
  <2>3. source' = [source EXCEPT ![j] = p]
    BY <2>1, <2>2 DEF SendIds
  <2>4. p.out = Tail(out) /\ p.at \in {"send", "over", "panic"}
    BY <2>1, <2>2 DEF Source
  <2>. QED BY <1>1, <2>3, <2>4
<1>5. /\ InPosts(l)' = InPosts(l)
      /\ InFetcher(l)' = InFetcher(l) /\ InSink(l)' = InSink(l)
  BY <1>1 DEF InPosts, InFetcher, InSink, Fetches, WorksFor
<1>6. OnceIn(ids[Shared], l)' /\ (InIds(l)' => InIds(l) \/ (j = l /\ InOut(l)))
  <2>1. CASE j \in Weight
    <3>1. c = Shared /\ ids'[Shared] = Append(ids[Shared], Head(out))
      BY <1>1, <1>3, <2>1, ChannelFacts
    <3>2. ids[Shared] \in Seq(List) /\ OnceIn(ids[Shared], l)
      BY <1>1, <3>1 DEF Followed, OneCopy
    <3>3. OutOK(j)
      BY <2>1 DEF FlowInv, Followed
    <3>4. CASE Head(out) # l
      BY <1>2, <3>1, <3>2, <3>4, AppendHas DEF InIds
    <3>5. CASE Head(out) = l
      <4>1. j = l /\ InOut(l)
        <5>1. out = <<>> \/ out = <<j>> \/ \A i \in 1 .. Len(out) : out[i] = Empty
          BY <3>3, Zenon DEF OutOK
        <5>2. out[1] = l
          BY <1>2, <3>5
        <5>3. out # <<>> /\ ~(\A i \in 1 .. Len(out) : out[i] = Empty)
          BY <1>1, <1>2, <5>2
        <5>4. out = <<j>>
          BY <5>1, <5>3, Zenon
        <5>5. j = l
          BY <5>2, <5>4
        <5>. QED BY <5>4, <5>5 DEF InOut
      <4>2. ~Has(ids[Shared], l)
        BY <1>1, <4>1 DEF Followed, OnePlace, InIds
      <4>. QED BY <1>2, <3>1, <3>2, <4>1, <4>2, AppendHas
    <3>. QED BY <3>4, <3>5
  <2>2. CASE j \in Batch
    <3>1. ids'[Shared] = ids[Shared]
      BY <1>1, <1>3, <2>2, ChannelFacts
    <3>. QED BY <1>1, <3>1 DEF InIds, Followed, OneCopy
  <2>. QED BY <2>1, <2>2 DEF Job
<1>7. OutOK(l)' /\ (j = l => ~InOut(l)') /\ (source'[l].at = "ask" => source[l].at = "ask")
  <2>1. CASE j # l
    BY <1>1, <1>3, <2>1 DEF Followed, OutOK
  <2>2. CASE j = l
    <3>1. out = <<>> \/ out = <<l>> \/ \A i \in 1 .. Len(out) : out[i] = Empty
      BY <1>1, <2>2, Zenon DEF Followed, OutOK
    <3>2. \A i \in 1 .. Len(Tail(out)) : Tail(out)[i] = Empty
      <4>1. CASE out = <<l>>
        BY <4>1
      <4>2. CASE \A i \in 1 .. Len(out) : out[i] = Empty
        BY <1>2, <4>2
      <4>. QED BY <1>1, <3>1, <4>1, <4>2
    <3>3. Tail(out) # <<l>>
      <4>. SUFFICES ASSUME Tail(out) = <<l>> PROVE FALSE
        OBVIOUS
      <4>1. Len(<<l>>) = 1 /\ <<l>>[1] = l
        OBVIOUS
      <4>2. Len(Tail(out)) = 1 /\ Tail(out)[1] = l
        BY <4>1, Zenon
      <4>3. 1 \in 1 .. Len(Tail(out))
        BY <4>2
      <4>. QED BY <1>1, <3>2, <4>2, <4>3, Zenon
    <3>4. source'[l].out = Tail(out)
      BY <1>4, <2>2
    <3>5. OutOK(l)' /\ ~InOut(l)'
      BY <3>2, <3>3, <3>4, Zenon DEF OutOK, InOut
    <3>. QED BY <1>1, <1>4, <2>2, <3>5
  <2>. QED BY <2>1, <2>2
<1>8. OneCopy(l)'
  <2>1. \A v \in Weight : Fetches(v, l)' = Fetches(v, l) /\ WorksFor(v, l)' = WorksFor(v, l)
    BY <1>1 DEF Fetches, WorksFor
  <2>. QED BY <1>1, <1>6, <2>1 DEF Followed, OneCopy
<1>9. OnePlace(l)'
  <2>1. InOut(l)' => j # l /\ InOut(l)
    BY <1>1, <1>3, <1>7 DEF InOut
  <2>2. OnePlace(l)
    BY <1>1 DEF Followed
  <2>3. /\ (source[l].at = "ask" \/ InOut(l))' => source[l].at = "ask" \/ InOut(l)
        /\ InIds(l)' => InIds(l) \/ (InOut(l) /\ j = l)
    BY <1>6, <1>7, <2>1
  <2>4. /\ source'[l].at = "ask" => ~InIds(l)'
        /\ InOut(l)' => ~InIds(l)'
    BY <1>1, <1>6, <1>7, <2>1, <2>2 DEF OnePlace
  <2>. QED BY <1>5, <2>2, <2>3, <2>4, Zenon DEF OnePlace
<1>. QED BY <1>7, <1>8, <1>9 DEF Followed

\* What a step that leaves the sources alone has to show.
LEMMA DownstreamFlow ==
    ASSUME NEW l \in Weight, Followed(l), UNCHANGED source, OneCopy(l)',
           InIds(l)' => InIds(l),
           InFetcher(l)' => InFetcher(l) \/ (InIds(l) /\ ~InIds(l)'),
           InPosts(l)' => InPosts(l) \/ (InFetcher(l) /\ ~InFetcher(l)' /\ ~InIds(l)'),
           InSink(l)' => \/ InSink(l)
                         \/ InPosts(l) /\ ~InPosts(l)' /\ ~InFetcher(l)' /\ ~InIds(l)'
    PROVE  Followed(l)'
<1>1. OutOK(l)' = OutOK(l) /\ InOut(l)' = InOut(l) /\ source'[l].at = source[l].at
  BY DEF OutOK, InOut
<1>2. OnePlace(l)'
  BY <1>1, Zenon DEF Followed, OnePlace
<1>. QED BY <1>1, <1>2 DEF Followed

\* A fetcher of a weight takes a list from the channel of the weights.
LEMMA TakeIdsFlow ==
    ASSUME FlowInv, NEW j \in Job, TakeIds(j)
    PROVE  \A l \in Weight : Followed(l)'
<1>. SUFFICES ASSUME NEW l \in Weight PROVE Followed(l)'
  OBVIOUS
<1>. DEFINE c == ChannelOf(j)
<1>1. /\ Followed(l) /\ OneCopy(l) /\ fetcher \in [Job -> Fetcher]
      /\ ids \in [Channel -> Seq(List)] /\ c \in Channel /\ ids[c] # <<>>
      /\ UNCHANGED <<source, sink, posts>>
      /\ ids' = [ids EXCEPT ![c] = Tail(ids[c])]
      /\ fetcher' = [fetcher EXCEPT ![j] = [at |-> "put", list |-> Head(ids[c])]]
  BY FlowFacts, ChannelFacts DEF FlowInv, Followed, TakeIds
<1>2. InPosts(l)' = InPosts(l) /\ InSink(l)' = InSink(l)
  BY <1>1 DEF InPosts, InSink, WorksFor
<1>3. \A v \in Weight : WorksFor(v, l)' = WorksFor(v, l)
  BY <1>1 DEF WorksFor
<1>4. CASE j \in Batch
  <2>1. ids'[Shared] = ids[Shared] /\ \A v \in Weight : fetcher'[v] = fetcher[v]
    BY <1>1, <1>4, ChannelFacts
  <2>2. /\ InIds(l)' = InIds(l)
        /\ \A v \in Weight : Fetches(v, l)' = Fetches(v, l)
        /\ InFetcher(l)' = InFetcher(l)
    BY <2>1 DEF InIds, InFetcher, Fetches
  <2>3. OneCopy(l)'
    BY <1>1, <1>3, <2>1, <2>2 DEF OneCopy
  <2>. QED BY <1>1, <1>2, <2>2, <2>3, DownstreamFlow
<1>5. CASE j \in Weight
  <2>1. /\ c = Shared /\ ids'[Shared] = Tail(ids[Shared])
        /\ fetcher'[j].list = Head(ids[Shared])
        /\ \A v \in Weight : v # j => fetcher'[v] = fetcher[v]
        /\ ids[Shared] \in Seq(List) /\ ids[Shared] # <<>>
    BY <1>1, <1>5, ChannelFacts
  <2>2. /\ Head(ids[Shared]) = l => InIds(l)
        /\ InIds(l)' => InIds(l) /\ Head(ids[Shared]) # l
        /\ OnceIn(ids[Shared], l)'
    BY <1>1, <2>1, TailHas DEF OneCopy, InIds
  <2>3. /\ \A v \in Weight : Fetches(v, l)' =>
              Fetches(v, l) \/ (v = j /\ Head(ids[Shared]) = l)
        /\ Fetches(j, l)' => Head(ids[Shared]) = l
    BY <2>1 DEF Fetches
  <2>4. InFetcher(l)' => InFetcher(l) \/ (InIds(l) /\ ~InIds(l)')
    BY <2>2, <2>3 DEF InFetcher
  <2>5. Head(ids[Shared]) = l => \A v \in Weight : ~Fetches(v, l)
    BY <1>1, <2>2 DEF Followed, OnePlace, InFetcher
  <2>6. OneCopy(l)'
    BY <1>1, <1>3, <2>2, <2>3, <2>5 DEF OneCopy
  <2>. QED BY <1>1, <1>2, <2>2, <2>4, <2>6, DownstreamFlow
<1>. QED BY <1>4, <1>5 DEF Job

\* A fetcher puts the patterns of its list, or none.
LEMMA PutPostsFlow ==
    ASSUME FlowInv, NEW j \in Job, PutPosts(j)
    PROVE  \A l \in Weight : Followed(l)'
<1>. SUFFICES ASSUME NEW l \in Weight PROVE Followed(l)'
  OBVIOUS
<1>. DEFINE c == ChannelOf(j)
<1>1. /\ Followed(l) /\ OneCopy(l) /\ fetcher \in [Job -> Fetcher] /\ l # Empty
      /\ posts \in [Channel -> Seq(List)] /\ c \in Channel
      /\ UNCHANGED <<source, sink, ids>>
      /\ fetcher' = [fetcher EXCEPT ![j] = [at |-> "over", list |-> Empty]]
  BY FlowFacts, ChannelFacts DEF FlowInv, Followed, PutPosts
<1>2. PICK list \in {fetcher[j].list, Empty} :
         posts' = [posts EXCEPT ![c] = Append(posts[c], list)]
  BY DEF PutPosts
<1>3. /\ InIds(l)' = InIds(l) /\ InSink(l)' = InSink(l)
      /\ \A v \in Weight : WorksFor(v, l)' = WorksFor(v, l)
  BY <1>1 DEF InIds, InSink, WorksFor
<1>4. list \in List
  BY <1>1, <1>2 DEF Fetcher, List
<1>5. CASE j \in Batch
  <2>1. posts'[Shared] = posts[Shared] /\ \A v \in Weight : fetcher'[v] = fetcher[v]
    BY <1>1, <1>2, <1>5, ChannelFacts
  <2>2. /\ InPosts(l)' = InPosts(l) /\ InFetcher(l)' = InFetcher(l)
        /\ \A v \in Weight : Fetches(v, l)' = Fetches(v, l)
    BY <2>1 DEF InPosts, InFetcher, Fetches
  <2>3. OneCopy(l)'
    BY <1>1, <1>3, <2>1, <2>2 DEF OneCopy
  <2>. QED BY <1>1, <1>3, <2>2, <2>3, DownstreamFlow
<1>6. CASE j \in Weight
  <2>1. /\ posts'[Shared] = Append(posts[Shared], list)
        /\ posts[Shared] \in Seq(List)
        /\ fetcher'[j].list = Empty
        /\ \A v \in Weight : v # j => fetcher'[v] = fetcher[v]
    BY <1>1, <1>2, <1>6, ChannelFacts
  <2>2. /\ \A v \in Weight : Fetches(v, l)' => v # j /\ Fetches(v, l)
        /\ list = l => Fetches(j, l)
    BY <1>1, <1>2, <2>1 DEF Fetches
  <2>3. InFetcher(l)' => InFetcher(l)
    BY <2>2 DEF InFetcher
  <2>4. list = l => /\ InFetcher(l) /\ ~InFetcher(l)' /\ ~InIds(l)' /\ ~InPosts(l)
    <3>. SUFFICES ASSUME list = l
                  PROVE  InFetcher(l) /\ ~InFetcher(l)' /\ ~InIds(l)' /\ ~InPosts(l)
      OBVIOUS
    <3>1. Fetches(j, l) /\ InFetcher(l)
      BY <1>6, <2>2 DEF InFetcher
    <3>2. ~InFetcher(l)'
      BY <1>1, <1>6, <2>2, <3>1 DEF InFetcher, OneCopy
    <3>3. ~InIds(l) /\ ~InPosts(l)
      BY <1>1, <3>1 DEF Followed, OnePlace
    <3>. QED BY <1>3, <3>1, <3>2, <3>3
  <2>5. /\ InPosts(l)' => InPosts(l) \/ list = l
        /\ list # l \/ ~InPosts(l) => OnceIn(posts[Shared], l)'
    BY <1>1, <1>4, <2>1, AppendHas DEF InPosts, OneCopy
  <2>6. OneCopy(l)'
    <3>1. OnceIn(posts[Shared], l)' /\ OnceIn(ids[Shared], l)'
      BY <1>1, <2>4, <2>5 DEF OneCopy
    <3>. QED BY <1>1, <1>3, <2>2, <3>1 DEF OneCopy
  <2>. QED BY <1>1, <1>3, <2>3, <2>4, <2>5, <2>6, DownstreamFlow
<1>. QED BY <1>5, <1>6 DEF Job

\* A sink of a weight takes a list, and with it its photos.
LEMMA TakePostsFlow ==
    ASSUME FlowInv, NEW w \in Weight, TakePosts(w)
    PROVE  \A l \in Weight : Followed(l)'
<1>. SUFFICES ASSUME NEW l \in Weight PROVE Followed(l)'
  OBVIOUS
<1>. DEFINE list == Head(posts[Shared])
<1>1. /\ Followed(l) /\ OneCopy(l) /\ sink \in [Job -> Sink] /\ w \in Job
      /\ posts \in [Channel -> Seq(List)] /\ Shared \in Channel
      /\ UNCHANGED <<source, fetcher, ids>> /\ posts[Shared] # <<>>
      /\ posts' = [posts EXCEPT ![Shared] = Tail(posts[Shared])]
  BY FlowFacts, ChannelFacts DEF FlowInv, Followed, TakePosts
<1>2. /\ InIds(l)' = InIds(l) /\ InFetcher(l)' = InFetcher(l)
      /\ \A v \in Weight : Fetches(v, l)' = Fetches(v, l)
  BY <1>1 DEF InIds, InFetcher, Fetches
<1>3. posts[Shared] \in Seq(List) /\ posts'[Shared] = Tail(posts[Shared])
  BY <1>1
<1>4. /\ list = l => InPosts(l)
      /\ InPosts(l)' => InPosts(l) /\ list # l
      /\ OnceIn(posts[Shared], l)'
  BY <1>1, <1>3, TailHas DEF OneCopy, InPosts
<1>5. /\ sink'[w].left = {p \in Photo : Of[p] = list} /\ sink'[w].at = "next"
      /\ \A v \in Weight : v # w => sink'[v] = sink[v]
  <2>1. PICK s \in Sink : s = sink[w]
    BY <1>1
  <2>2. PICK left \in SUBSET Photo : left = {p \in Photo : Of[p] = list}
    OBVIOUS
  <2>3. PICK q : q = [s EXCEPT !.at = "next", !.left = left]
    OBVIOUS
  <2>4. sink' = [sink EXCEPT ![w] = q]
    BY <2>1, <2>2, <2>3 DEF TakePosts
  <2>5. q.left = left /\ q.at = "next"
    BY <2>3 DEF Sink
  <2>. QED BY <1>1, <2>2, <2>4, <2>5, ChannelFacts
<1>6. /\ \A v \in Weight : v # w => WorksFor(v, l)' = WorksFor(v, l)
      /\ WorksFor(w, l)' => list = l
  BY <1>5 DEF WorksFor, Busy
<1>7. list = l => /\ InPosts(l) /\ ~InPosts(l)' /\ ~InFetcher(l)' /\ ~InIds(l)'
                  /\ ~InSink(l)
  <2>. SUFFICES ASSUME list = l
                PROVE  InPosts(l) /\ ~InPosts(l)' /\ ~InFetcher(l) /\ ~InIds(l) /\ ~InSink(l)
    BY <1>2
  <2>1. InPosts(l) /\ ~InPosts(l)'
    BY <1>4
  <2>. QED BY <1>1, <2>1, Zenon DEF Followed, OnePlace
<1>8. InSink(l)' => InSink(l) \/ list = l
  BY <1>6 DEF InSink
<1>9. \A u, v \in Weight : WorksFor(u, l)' /\ WorksFor(v, l)' => u = v
  BY <1>1, <1>6, <1>7 DEF OneCopy, InSink
<1>10. OneCopy(l)'
  BY <1>1, <1>2, <1>4, <1>9 DEF OneCopy
<1>. QED BY <1>1, <1>2, <1>4, <1>7, <1>8, <1>10, DownstreamFlow

\* Until it is over, a sink works for the list it has taken, and no other.
LEMMA WorkFlow ==
    ASSUME FlowInv, UNCHANGED <<source, fetcher>>, NEW w \in Job, NEW q,
           sink' = [sink EXCEPT ![w] = q],
           \/ w \in Batch
           \/ /\ q.left \subseteq sink[w].left
              /\ q.at \in Busy => \/ q.photo \in sink[w].left
                                  \/ sink[w].at \in Busy /\ q.photo = sink[w].photo,
           ids'[Shared] = ids[Shared], posts'[Shared] = posts[Shared]
    PROVE  \A l \in Weight : Followed(l)'
<1>. SUFFICES ASSUME NEW l \in Weight PROVE Followed(l)'
  OBVIOUS
<1>1. Followed(l) /\ OneCopy(l) /\ sink \in [Job -> Sink] /\ l \in Job
  BY FlowFacts DEF FlowInv, Followed
<1>2. /\ InIds(l)' = InIds(l) /\ InPosts(l)' = InPosts(l)
      /\ InFetcher(l)' = InFetcher(l)
      /\ \A v \in Weight : Fetches(v, l)' = Fetches(v, l)
  BY DEF InIds, InPosts, InFetcher, Fetches
<1>3. ASSUME NEW v \in Weight, WorksFor(v, l)' PROVE WorksFor(v, l)
  <2>1. CASE v # w
    <3>1. sink'[v] = sink[v]
      BY <1>1, <2>1, ChannelFacts
    <3>. QED BY <1>3, <3>1 DEF WorksFor
  <2>2. CASE v = w
    <3>1. sink'[v] = q /\ v \notin Batch
      BY <1>1, <2>2, ChannelFacts
    <3>. QED BY <1>3, <2>2, <3>1 DEF WorksFor
  <2>. QED BY <2>1, <2>2
<1>4. InSink(l)' => InSink(l)
  BY <1>3 DEF InSink
<1>5. OneCopy(l)'
  BY <1>1, <1>2, <1>3 DEF OneCopy
<1>. QED BY <1>1, <1>2, <1>4, <1>5, DownstreamFlow

LEMMA SinksFlow ==
    ASSUME FlowInv, NEW w \in Weight, NEW at, Sinks(w, at),
           at \in Busy => sink[w].at \in Busy, UNCHANGED <<source, fetcher, ids, posts>>
    PROVE  \A l \in Weight : Followed(l)'
<1>1. w \in Job /\ sink[w] \in Sink
  BY FlowFacts
<1>2. PICK q : q = [sink[w] EXCEPT !.at = at]
  OBVIOUS
<1>3. q.left = sink[w].left /\ q.photo = sink[w].photo /\ q.at = at
  BY <1>1, <1>2 DEF Sink
<1>4. sink' = [sink EXCEPT ![w] = q]
  BY <1>2 DEF Sinks
<1>. QED BY <1>1, <1>3, <1>4, WorkFlow

LEMMA CollectFlow ==
    ASSUME FlowInv, NEW w \in Weight, Collect(w)
    PROVE  \A l \in Weight : Followed(l)'
<1>. USE DEF Busy
<1>0. w \in Job /\ sink[w] \in Sink
  BY FlowFacts
<1>1. CASE TakePosts(w)
  BY <1>1, TakePostsFlow
<1>2. CASE Finish(w)
  BY <1>2, SinksFlow DEF Finish
<1>3. CASE Download(w)
  <2>1. PICK p \in sink[w].left, had \in BOOLEAN :
           sink' = [sink EXCEPT ![w] =
                      [sink[w] EXCEPT !.at = IF ~had THEN "next"
                                             ELSE IF file[Path[p]] = Empty THEN "create"
                                             ELSE "stat",
                                      !.left = sink[w].left \ {p},
                                      !.photo = IF had THEN p ELSE Empty]]
    BY <1>3 DEF Download
  <2>2. PICK q : q = [sink[w] EXCEPT !.at = IF ~had THEN "next"
                                            ELSE IF file[Path[p]] = Empty THEN "create"
                                            ELSE "stat",
                                     !.left = sink[w].left \ {p},
                                     !.photo = IF had THEN p ELSE Empty]
    OBVIOUS
  <2>3. /\ q.left = sink[w].left \ {p}
        /\ q.photo = IF had THEN p ELSE Empty
        /\ q.at = IF ~had THEN "next" ELSE IF file[Path[p]] = Empty THEN "create" ELSE "stat"
    BY <1>0, <2>2 DEF Sink
  <2>4. sink' = [sink EXCEPT ![w] = q]
    BY <2>1, <2>2
  <2>5. q.left \subseteq sink[w].left /\ (q.at \in Busy => q.photo \in sink[w].left)
    BY <2>3
  <2>. HIDE DEF Busy
  <2>6. UNCHANGED <<source, fetcher, ids, posts>>
    BY <1>3 DEF Download
  <2>7. /\ q.left \subseteq sink[w].left
        /\ q.at \in Busy => \/ q.photo \in sink[w].left
                            \/ sink[w].at \in Busy /\ q.photo = sink[w].photo
    BY <2>5
  <2>8. /\ UNCHANGED <<source, fetcher>>
        /\ ids'[Shared] = ids[Shared] /\ posts'[Shared] = posts[Shared]
    BY <2>6
  <2>. QED BY <1>0, <2>4, <2>7, <2>8, WorkFlow
<1>4. CASE Create(w)
  <2>1. sink[w].at = "create" /\ UNCHANGED <<source, fetcher, ids, posts>>
    BY <1>4 DEF Create
  <2>2. CASE Sinks(w, "next")
    BY <2>1, <2>2, SinksFlow
  <2>3. CASE ~Sinks(w, "next")
    <3>1. PICK out : sink' = [sink EXCEPT ![w] = [sink[w] EXCEPT !.at = "decode", !.out = out]]
      BY <1>4, <2>3 DEF Create
    <3>2. PICK q : q = [sink[w] EXCEPT !.at = "decode", !.out = out]
      OBVIOUS
    <3>3. q.left = sink[w].left /\ q.photo = sink[w].photo
      BY <1>0, <3>2 DEF Sink
    <3>. QED BY <1>0, <2>1, <3>1, <3>2, <3>3, WorkFlow
  <2>. QED BY <2>2, <2>3
<1>5. CASE Decode(w)
  <2>1. \E at \in {"half", "next"} : Sinks(w, at)
    BY <1>5 DEF Decode
  <2>. QED BY <1>5, <2>1, SinksFlow DEF Decode
<1>6. CASE Encode(w)
  <2>1. \E at \in {"stat", "next"} : Sinks(w, at)
    BY <1>6 DEF Encode
  <2>. QED BY <1>6, <2>1, SinksFlow DEF Encode
<1>7. CASE Stat(w)
  <2>1. \E at \in {"remove", "next"} : Sinks(w, at)
    BY <1>7 DEF Stat
  <2>. QED BY <1>7, <2>1, SinksFlow DEF Stat
<1>8. CASE RemoveEmpty(w)
  BY <1>8, SinksFlow DEF RemoveEmpty
<1>. QED BY <1>1, <1>2, <1>3, <1>4, <1>5, <1>6, <1>7, <1>8 DEF Collect

LEMMA AddRavelhashFlow ==
    ASSUME FlowInv, NEW b \in Batch, AddRavelhash(b)
    PROVE  \A l \in Weight : Followed(l)'
<1>1. b \in Job /\ b # Shared /\ Shared \in Channel /\ posts \in [Channel -> Seq(List)]
  BY FlowFacts, ChannelFacts
<1>2. UNCHANGED <<source, fetcher, ids>> /\ posts'[Shared] = posts[Shared]
  BY <1>1 DEF AddRavelhash
<1>3. PICK q : sink' = [sink EXCEPT ![b] = q]
  BY DEF AddRavelhash, Sinks
<1>. QED BY <1>1, <1>2, <1>3, WorkFlow

LEMMA StepFlow == FlowInv /\ [Next]_vars => FlowInv'
<1>. SUFFICES ASSUME FlowInv, [Next]_vars PROVE FlowInv'
  OBVIOUS
<1>1. PipeInv' /\ StoreInv'
  BY StepPipe, StepStore DEF FlowInv
<1>2. ASSUME NEW w \in Weight, Search(w) \/ Collect(w)
      PROVE  \A l \in Weight : Followed(l)'
  BY <1>2, SearchFlow, CollectFlow
<1>3. ASSUME NEW b \in Batch, Gather(b) PROVE \A l \in Weight : Followed(l)'
  BY <1>3, GetRavelIdsFlow, AddRavelhashFlow DEF Gather
<1>4. ASSUME NEW j \in Job, Pass(j) PROVE \A l \in Weight : Followed(l)'
  BY <1>4, SendIdsFlow, TakeIdsFlow, PutPostsFlow DEF Pass
<1>5. ASSUME (\E j \in Job : Panic(j)) \/ UNCHANGED vars
      PROVE  \A l \in Weight : Followed(l)'
  <2>1. UNCHANGED <<source, fetcher, sink, ids, posts>>
    BY <1>5 DEF Panic, vars
  <2>. SUFFICES ASSUME NEW l \in Weight PROVE Followed(l)'
    OBVIOUS
  <2>2. Followed(l)
    BY DEF FlowInv
  <2>. QED BY <2>1, <2>2, SamePlaces, DownstreamFlow DEF Followed
<1>6. \A l \in Weight : Followed(l)'
  BY <1>2, <1>3, <1>4, <1>5 DEF Next
<1>. QED BY <1>1, <1>6 DEF FlowInv

-----------------------------------------------------------------------------
(* Files of one weight *)

\* The sinks whose photos go to a path are those of one list.
LEMMA Alone ==
    ASSUME FlowInv, NEW v \in Weight, NEW w \in Weight,
           sink[v].at \in Busy, sink[w].at \in Busy, Target(v) = Target(w),
           ~WeightsShare(Target(w))
    PROVE  v = w
<1>1. /\ sink[v].photo \in Photo /\ sink[w].photo \in Photo
      /\ Path[sink[v].photo] = Path[sink[w].photo]
  BY DEF FlowInv, StoreInv, SinksOK, Target
<1>2. Of[sink[v].photo] = Of[sink[w].photo] /\ Of[sink[w].photo] \in Weight
  BY <1>1, ConstantsAssumption DEF WeightsShare, Target
<1>3. PICK l \in Weight : l = Of[sink[w].photo]
  BY <1>2
<1>4. WorksFor(v, l) /\ WorksFor(w, l)
  BY <1>1, <1>2, <1>3 DEF WorksFor
<1>. QED BY <1>3, <1>4 DEF FlowInv, Followed, OneCopy

Writes(w, f) == sink[w].at \in {"decode", "half"} /\ Target(w) = f
Whole(c) == content[c][1] = content[c][2] /\ content[c][1] # Empty

\* A path of one weight holds a whole image, or the file its sink writes.
PathOK(f) ==
    /\ \A w \in Weight : Writes(w, f) =>
          /\ file[f] = sink[w].out
          /\ sink[w].at = "half" => content[sink[w].out][1] = sink[w].photo
    /\ file[f] # Empty => Whole(file[f]) \/ \E w \in Weight : Writes(w, f)

WholeInv ==
    /\ FlowInv
    /\ Whole(Before)
    /\ \A f \in File : ~WeightsShare(f) => PathOK(f)

LEMMA InitWhole == Init => WholeInv
<1>. SUFFICES ASSUME Init PROVE WholeInv
  OBVIOUS
<1>1. FlowInv
  BY InitFlow
<1>2. content[Before][1] = Before /\ content[Before][2] = Before /\ Before # Empty
  BY PhotoFacts DEF Init
<1>3. \A f \in File : file[f] \in {Empty, Before}
  BY DEF Init
<1>4. \A w \in Weight : \A f : ~Writes(w, f)
  BY PhotoFacts DEF Init, Writes
<1>. QED BY <1>1, <1>2, <1>3, <1>4 DEF WholeInv, PathOK, Whole

\* A sink that was not writing and does not begin to.
LEMMA QuietWhole ==
    ASSUME WholeInv, FlowInv', UNCHANGED <<file, content>>,
           \A w \in Weight :
               \/ sink'[w] = sink[w]
               \/ sink[w].at \notin {"decode", "half"} /\ sink'[w].at \notin {"decode", "half"}
    PROVE  WholeInv'
<1>1. \A w \in Weight : \A f : Writes(w, f)' => Writes(w, f) /\ sink'[w] = sink[w]
  BY DEF Writes, Target
<1>2. \A w \in Weight : \A f : Writes(w, f) => Writes(w, f)'
  BY DEF Writes, Target
<1>3. \A c : Whole(c)' <=> Whole(c)
  BY DEF Whole
<1>4. ASSUME NEW f \in File, ~WeightsShare(f) PROVE PathOK(f)'
  <2>1. PathOK(f)
    BY <1>4 DEF WholeInv
  <2>. QED BY <1>1, <1>2, <2>1 DEF PathOK, Whole
<1>5. Whole(Before)'
  BY DEF WholeInv, Whole
<1>. QED BY <1>4, <1>5 DEF WholeInv, WeightsShare

\* What a sink at work knows of its path, if no other weight has it.
LEMMA WriterFacts ==
    ASSUME WholeInv, NEW w \in Weight, sink[w].at \in Busy
    PROVE  /\ Target(w) \in File /\ sink[w].photo \in Photo
           /\ sink[w].at \in {"decode", "half"} =>
                 sink[w].out \in Photo /\ Path[sink[w].out] = Target(w)
           /\ \A f \in File : file[f] \in Photo => Path[file[f]] = f
           /\ \A f \in File : file[f] \in Created \cup {Empty}
           /\ ~WeightsShare(Target(w)) =>
                 \A v \in Weight : Writes(v, Target(w)) => v = w
<1>1. FlowInv /\ StoreInv
  BY DEF WholeInv, FlowInv
<1>2. Target(w) \in File /\ sink[w].photo \in Photo
  BY <1>1, SinkFacts
<1>3. sink[w].at \in {"decode", "half"} =>
         sink[w].out \in Photo /\ Path[sink[w].out] = Target(w)
  BY <1>1 DEF StoreInv, SinksOK
<1>4. ~WeightsShare(Target(w)) => \A v \in Weight : Writes(v, Target(w)) => v = w
  BY <1>1, Alone DEF Writes, Busy
<1>. QED BY <1>1, <1>2, <1>3, <1>4 DEF StoreInv, StoreTyped, FilesOK

\* A sink stops writing, and what is at its path goes.
LEMMA RemoveWhole ==
    ASSUME WholeInv, FlowInv', NEW w \in Weight, sink[w].at \in Busy,
           Remove(Target(w)), Sinks(w, "next"), UNCHANGED content
    PROVE  WholeInv'
<1>1. /\ sink'[w].at = "next" /\ \A v \in Weight : v # w => sink'[v] = sink[v]
      /\ file \in [File -> Created \cup {Empty}]
  <2>1. StoreInv
    BY DEF WholeInv, FlowInv
  <2>2. PICK q \in Sink : sink' = [sink EXCEPT ![w] = q] /\ q.at = "next"
    BY <2>1, SinkFacts DEF Sinks
  <2>. QED BY <2>1, <2>2, SinkFacts DEF StoreInv, StoreTyped
<1>2. PICK f0 \in File : f0 = Target(w)
  BY WriterFacts
<1>3. file'[f0] = Empty /\ \A f \in File : f # f0 => file'[f] = file[f]
  BY <1>1, <1>2 DEF Remove
<1>4. \A v \in Weight : \A f : Writes(v, f)' => v # w /\ Writes(v, f) /\ sink'[v] = sink[v]
  BY <1>1 DEF Writes, Target
<1>5. \A v \in Weight : \A f : v # w /\ Writes(v, f) => Writes(v, f)'
  BY <1>1 DEF Writes, Target
<1>6. ASSUME NEW f \in File, ~WeightsShare(f) PROVE PathOK(f)'
  <2>1. PathOK(f)
    BY <1>6 DEF WholeInv
  <2>2. CASE f = f0
    <3>1. \A v \in Weight : ~Writes(v, f)'
      BY <1>2, <1>4, <1>6, <2>2, WriterFacts
    <3>. QED BY <1>3, <2>2, <3>1 DEF PathOK
  <2>3. CASE f # f0
    <3>1. \A v \in Weight : Writes(v, f) => v # w
      BY <1>2, <2>3 DEF Writes
    <3>2. \A v \in Weight : Writes(v, f)' <=> Writes(v, f)
      BY <1>4, <1>5, <3>1
    <3>. QED BY <1>3, <1>4, <2>1, <2>3, <3>2 DEF PathOK, Whole
  <2>. QED BY <2>2, <2>3
<1>7. Whole(Before)'
  BY DEF WholeInv, Whole
<1>. QED BY <1>6, <1>7 DEF WholeInv, WeightsShare

\* A half is written; after the second one the image is whole.
LEMMA WriteWhole ==
    ASSUME WholeInv, FlowInv', NEW w \in Weight, UNCHANGED file,
           \/ sink[w].at = "decode" /\ Write(w, 1) /\ Sinks(w, "half")
           \/ sink[w].at = "half" /\ Write(w, 2) /\ Sinks(w, "stat")
    PROVE  WholeInv'
<1>0. sink[w].at \in Busy /\ sink[w].at \in {"decode", "half"} /\ StoreInv
  BY DEF Busy, WholeInv, FlowInv
<1>1. /\ sink'[w].at = IF sink[w].at = "decode" THEN "half" ELSE "stat"
      /\ sink'[w].photo = sink[w].photo /\ sink'[w].out = sink[w].out
      /\ \A v \in Weight : v # w => sink'[v] = sink[v]
  <2>1. PICK at \in {"half", "stat"} :
           Sinks(w, at) /\ at = IF sink[w].at = "decode" THEN "half" ELSE "stat"
    OBVIOUS
  <2>2. PICK q \in Sink : /\ sink' = [sink EXCEPT ![w] = q] /\ q.at = at
                         /\ q.photo = sink[w].photo /\ q.out = sink[w].out
    <3>1. PICK q : q = [sink[w] EXCEPT !.at = at]
      OBVIOUS
    <3>2. sink[w] \in Sink
      BY <1>0, SinkFacts
    <3>3. q \in Sink /\ q.at = at /\ q.photo = sink[w].photo /\ q.out = sink[w].out
      BY <3>1, <3>2 DEF Sink
    <3>. QED BY <2>1, <3>1, <3>3 DEF Sinks
  <2>. QED BY <1>0, <2>1, <2>2, SinkFacts
<1>2. PICK f0 \in File, o \in Photo, p \in Photo :
         f0 = Target(w) /\ o = sink[w].out /\ p = sink[w].photo /\ Path[o] = f0
  BY <1>0, WriterFacts
<1>3. /\ \A c \in Created : c # o => content'[c] = content[c]
      /\ sink[w].at = "decode" => content'[o][1] = p
      /\ sink[w].at = "half" => content'[o][1] = content[o][1] /\ content'[o][2] = p
  <2>1. content \in [Created -> [1 .. 2 -> Created \cup {Empty}]] /\ o \in Created
    BY <1>0, PhotoFacts DEF StoreInv, StoreTyped
  <2>2. CASE sink[w].at = "decode"
    <3>1. content' = [content EXCEPT ![o][1] = p]
      BY <1>2, <2>2 DEF Write
    <3>2. content'[o][1] = p /\ \A c \in Created : c # o => content'[c] = content[c]
      BY <2>1, <3>1
    <3>. QED BY <2>2, <3>2
  <2>3. CASE sink[w].at = "half"
    <3>1. content' = [content EXCEPT ![o][2] = p]
      BY <1>2, <2>3 DEF Write
    <3>2. content'[o][2] = p /\ \A c \in Created : c # o => content'[c] = content[c]
      BY <2>1, <3>1
    <3>3. content'[o][1] = content[o][1]
      BY <2>1, <3>1
    <3>. QED BY <2>3, <3>2, <3>3
  <2>. QED BY <1>0, <2>2, <2>3
<1>4. \A v \in Weight : \A f : v # w => (Writes(v, f)' <=> Writes(v, f))
  BY <1>1 DEF Writes, Target
<1>5. Target(w)' = f0
  BY <1>1, <1>2 DEF Target
<1>6. ASSUME NEW f \in File, ~WeightsShare(f) PROVE PathOK(f)'
  <2>1. PathOK(f)
    BY <1>6 DEF WholeInv
  <2>2. CASE f = f0
    <3>1. \A v \in Weight : v # w => ~Writes(v, f) /\ ~Writes(v, f)'
      BY <1>0, <1>2, <1>4, <1>6, <2>2, WriterFacts
    <3>2. Writes(w, f) /\ file[f] = o
      BY <1>0, <1>2, <2>1, <2>2 DEF Writes, PathOK
    <3>3. CASE sink[w].at = "decode"
      <4>1. Writes(w, f)'
        BY <1>1, <1>5, <2>2, <3>3 DEF Writes
      <4>2. content'[sink'[w].out][1] = sink'[w].photo /\ file'[f] = sink'[w].out
        BY <1>1, <1>2, <1>3, <3>2, <3>3
      <4>. QED BY <3>1, <4>1, <4>2 DEF PathOK
    <3>4. CASE sink[w].at = "half"
      <4>1. ~Writes(w, f)'
        BY <1>1, <3>4 DEF Writes
      <4>2. content[o][1] = p
        BY <1>2, <2>1, <3>2, <3>4 DEF PathOK
      <4>3. Whole(o)'
        BY <1>2, <1>3, <3>4, <4>2, PhotoFacts DEF Whole
      <4>. QED BY <3>1, <3>2, <4>1, <4>3 DEF PathOK, Whole
    <3>. QED BY <1>0, <3>3, <3>4
  <2>3. CASE f # f0
    <3>1. /\ file[f] # o /\ file[f] \in Created \cup {Empty}
          /\ \A v \in Weight : Writes(v, f) => sink[v].out # o /\ sink[v].out \in Created
      <4>1. file[f] # o /\ file[f] \in Created \cup {Empty}
        BY <1>0, <1>2, <2>3, WriterFacts
      <4>2. ASSUME NEW v \in Weight, Writes(v, f)
            PROVE  sink[v].out # o /\ sink[v].out \in Created
        BY <1>2, <2>3, <4>2, WriterFacts, PhotoFacts DEF Writes, Busy
      <4>. QED BY <4>1, <4>2
    <3>2. ~Writes(w, f) /\ ~Writes(w, f)'
      BY <1>2, <1>5, <2>3 DEF Writes
    <3>3. \A v \in Weight : /\ Writes(v, f)' <=> Writes(v, f)
                            /\ Writes(v, f) => sink'[v] = sink[v]
      BY <1>1, <1>4, <3>2
    <3>. QED BY <1>3, <2>1, <3>1, <3>3 DEF PathOK, Whole
  <2>. QED BY <2>2, <2>3
<1>7. Whole(Before)'
  <2>1. content'[Before] = content[Before]
    BY <1>3, PhotoFacts
  <2>. QED BY <2>1 DEF WholeInv, Whole
<1>. QED BY <1>6, <1>7 DEF WholeInv, WeightsShare

\* A sink empties the file at its path, or makes one, and begins to write.
LEMMA CreateWhole ==
    ASSUME WholeInv, FlowInv', NEW w \in Weight, Create(w)
    PROVE  WholeInv'
<1>0. sink[w].at = "create" /\ sink[w].at \in Busy /\ StoreInv
  BY DEF Create, Busy, WholeInv, FlowInv
<1>1. CASE Sinks(w, "next") /\ UNCHANGED files
  <2>1. PICK q \in Sink : sink' = [sink EXCEPT ![w] = q] /\ q.at = "next"
    BY <1>0, <1>1, SinkFacts DEF Sinks
  <2>2. sink'[w].at = "next" /\ \A v \in Weight : v # w => sink'[v] = sink[v]
    BY <1>0, <2>1, SinkFacts
  <2>. QED BY <1>0, <1>1, <2>2, QuietWhole DEF files
<1>2. CASE ~(Sinks(w, "next") /\ UNCHANGED files)
  <2>1. PICK f0 \in File, p \in Photo : f0 = Target(w) /\ p = sink[w].photo /\ Path[p] = f0
    BY <1>0, SinkFacts DEF Target
  <2>2. PICK o : o = IF file[f0] = Empty THEN p ELSE file[f0]
    OBVIOUS
  <2>3. o \in Photo /\ Path[o] = f0
    BY <1>0, <2>1, <2>2, PhotoFacts DEF StoreInv, StoreTyped, SinksOK, FilesOK
  <2>4. /\ file' = [file EXCEPT ![f0] = o]
        /\ content' = [content EXCEPT ![o] = Nothing]
        /\ sink' = [sink EXCEPT ![w] = [sink[w] EXCEPT !.at = "decode", !.out = o]]
    BY <1>2, <2>1, <2>2 DEF Create
  <2>5. /\ sink'[w].at = "decode" /\ sink'[w].photo = p /\ sink'[w].out = o
        /\ \A v \in Weight : v # w => sink'[v] = sink[v]
    <3>1. sink[w] \in Sink
      BY <1>0, SinkFacts
    <3>2. PICK q : q = [sink[w] EXCEPT !.at = "decode", !.out = o]
      OBVIOUS
    <3>3. q \in Sink /\ q.at = "decode" /\ q.photo = p /\ q.out = o
      BY <2>1, <2>3, <3>1, <3>2 DEF Sink
    <3>. QED BY <1>0, <2>4, <3>2, <3>3, SinkFacts
  <2>6. /\ file'[f0] = o /\ \A f \in File : f # f0 => file'[f] = file[f]
        /\ \A c \in Created : c # o => content'[c] = content[c]
    BY <1>0, <2>3, <2>4, PhotoFacts DEF StoreInv, StoreTyped
  <2>7. \A v \in Weight : \A f : v # w => (Writes(v, f)' <=> Writes(v, f))
    BY <2>5 DEF Writes, Target
  <2>8. Target(w)' = f0
    BY <2>1, <2>5 DEF Target
  <2>9. ASSUME NEW f \in File, ~WeightsShare(f) PROVE PathOK(f)'
    <3>1. PathOK(f)
      BY <2>9 DEF WholeInv
    <3>2. CASE f = f0
      <4>1. \A v \in Weight : v # w => ~Writes(v, f)'
        BY <1>0, <2>1, <2>7, <2>9, <3>2, WriterFacts
      <4>2. Writes(w, f)' /\ file'[f] = sink'[w].out /\ sink'[w].at # "half"
        BY <2>5, <2>6, <2>8, <3>2 DEF Writes
      <4>. QED BY <4>1, <4>2 DEF PathOK
    <3>3. CASE f # f0
      <4>1. /\ file[f] # o /\ file[f] \in Created \cup {Empty}
        BY <1>0, <2>3, <3>3, WriterFacts
      <4>2. ASSUME NEW v \in Weight, Writes(v, f)
            PROVE  sink[v].out # o /\ sink[v].out \in Created
        BY <2>3, <3>3, <4>2, WriterFacts, PhotoFacts DEF Writes, Busy
      <4>3. ~Writes(w, f) /\ ~Writes(w, f)'
        BY <2>1, <2>8, <3>3 DEF Writes
      <4>4. \A v \in Weight : /\ Writes(v, f)' <=> Writes(v, f)
                              /\ Writes(v, f) => sink'[v] = sink[v]
        BY <2>5, <2>7, <4>3
      <4>. QED BY <2>6, <3>1, <3>3, <4>1, <4>2, <4>4 DEF PathOK, Whole
    <3>. QED BY <3>2, <3>3
  <2>10. Whole(Before)'
    <3>1. content'[Before] = content[Before]
      BY <2>3, <2>6, PhotoFacts
    <3>. QED BY <3>1 DEF WholeInv, Whole
  <2>. QED BY <2>9, <2>10 DEF WholeInv, WeightsShare
<1>. QED BY <1>1, <1>2

\* A sink takes its patterns, ends, goes on to a photo or looks at a size.
LEMMA QuietSink ==
    ASSUME WholeInv, FlowInv', NEW w \in Weight,
           TakePosts(w) \/ Finish(w) \/ Download(w) \/ Stat(w)
    PROVE  WholeInv'
<1>1. sink \in [Job -> Sink] /\ w \in Job /\ sink[w] \in Sink
  BY PhotoFacts DEF WholeInv, FlowInv, StoreInv, StoreTyped
<1>2. UNCHANGED <<file, content>>
  BY DEF TakePosts, Finish, Download, Stat, files
<1>3. sink[w].at \notin {"decode", "half"}
  BY DEF TakePosts, Finish, Download, Stat
<1>4. PICK q : sink' = [sink EXCEPT ![w] = q] /\ q.at \notin {"decode", "half"}
  <2>1. CASE TakePosts(w)
    <3>1. PICK left : sink' = [sink EXCEPT ![w] =
                                 [sink[w] EXCEPT !.at = "next", !.left = left]]
      BY <2>1 DEF TakePosts
    <3>2. PICK q : q = [sink[w] EXCEPT !.at = "next", !.left = left]
      OBVIOUS
    <3>3. q.at = "next"
      BY <1>1, <3>2 DEF Sink
    <3>. QED BY <3>1, <3>2, <3>3
  <2>2. CASE Finish(w) \/ Stat(w)
    <3>1. PICK at \in {"over", "remove", "next"} : Sinks(w, at)
      BY <2>2 DEF Finish, Stat
    <3>2. PICK q : q = [sink[w] EXCEPT !.at = at]
      OBVIOUS
    <3>3. q.at = at
      BY <1>1, <3>2 DEF Sink
    <3>. QED BY <3>1, <3>2, <3>3 DEF Sinks
  <2>3. CASE Download(w)
    <3>1. PICK p \in sink[w].left, had \in BOOLEAN :
             sink' = [sink EXCEPT ![w] =
                        [sink[w] EXCEPT !.at = IF ~had THEN "next"
                                   ELSE IF file[Path[p]] = Empty THEN "create"
                                   ELSE "stat",
                            !.left = sink[w].left \ {p},
                            !.photo = IF had THEN p ELSE Empty]]
      BY <2>3 DEF Download
    <3>2. PICK at \in {"next", "create", "stat"} : at = IF ~had THEN "next"
                                   ELSE IF file[Path[p]] = Empty THEN "create" ELSE "stat"
      OBVIOUS
    <3>3. PICK q : q = [sink[w] EXCEPT !.at = at, !.left = sink[w].left \ {p},
                                       !.photo = IF had THEN p ELSE Empty]
      OBVIOUS
    <3>4. q.at = at
      BY <1>1, <3>3 DEF Sink
    <3>. QED BY <3>1, <3>2, <3>3, <3>4
  <2>. QED BY <2>1, <2>2, <2>3
<1>5. sink'[w].at \notin {"decode", "half"} /\ \A v \in Weight : v # w => sink'[v] = sink[v]
  BY <1>1, <1>4, PhotoFacts
<1>. QED BY <1>2, <1>3, <1>5, QuietWhole

LEMMA CollectWhole ==
    ASSUME WholeInv, FlowInv', NEW w \in Weight, Collect(w)
    PROVE  WholeInv'
<1>1. CASE TakePosts(w) \/ Finish(w) \/ Download(w) \/ Stat(w)
  BY <1>1, QuietSink
<1>2. CASE Create(w)
  BY <1>2, CreateWhole
<1>3. CASE Decode(w)
  <2>1. sink[w].at = "decode" /\ sink[w].at \in Busy
    BY <1>3 DEF Decode, Busy
  <2>2. CASE Write(w, 1) /\ Sinks(w, "half") /\ UNCHANGED file
    BY <2>1, <2>2, WriteWhole
  <2>3. CASE Remove(Target(w)) /\ Sinks(w, "next") /\ UNCHANGED content
    BY <2>1, <2>3, RemoveWhole
  <2>. QED BY <1>3, <2>2, <2>3 DEF Decode
<1>4. CASE Encode(w)
  <2>1. sink[w].at = "half" /\ sink[w].at \in Busy
    BY <1>4 DEF Encode, Busy
  <2>2. CASE Write(w, 2) /\ Sinks(w, "stat") /\ UNCHANGED file
    BY <2>1, <2>2, WriteWhole
  <2>3. CASE Remove(Target(w)) /\ Sinks(w, "next") /\ UNCHANGED content
    BY <2>1, <2>3, RemoveWhole
  <2>. QED BY <1>4, <2>2, <2>3 DEF Encode
<1>5. CASE RemoveEmpty(w)
  BY <1>5, RemoveWhole DEF RemoveEmpty, Busy
<1>. QED BY <1>1, <1>2, <1>3, <1>4, <1>5 DEF Collect

LEMMA StepWhole == WholeInv /\ [Next]_vars => WholeInv'
<1>. SUFFICES ASSUME WholeInv, [Next]_vars PROVE WholeInv'
  OBVIOUS
<1>1. FlowInv'
  BY StepFlow DEF WholeInv
<1>2. ASSUME NEW w \in Weight, Collect(w) PROVE WholeInv'
  BY <1>1, <1>2, CollectWhole
<1>3. ASSUME NEW b \in Batch, AddRavelhash(b) PROVE WholeInv'
  <2>1. sink' = [sink EXCEPT ![b] = [sink[b] EXCEPT !.at = "over"]]
    BY <1>3 DEF AddRavelhash, Sinks
  <2>2. sink \in [Job -> Sink] /\ \A w \in Weight : w \in Job /\ w # b
    BY PhotoFacts, ChannelFacts DEF WholeInv, FlowInv, StoreInv, StoreTyped
  <2>3. \A w \in Weight : sink'[w] = sink[w]
    BY <2>1, <2>2
  <2>4. UNCHANGED <<file, content>>
    BY <1>3 DEF AddRavelhash, files
  <2>. QED BY <1>1, <2>3, <2>4, QuietWhole
<1>4. ASSUME \/ \E w \in Weight : Search(w)
             \/ \E b \in Batch : GetRavelIds(b)
             \/ \E j \in Job : Pass(j) \/ Panic(j)
             \/ UNCHANGED vars
      PROVE  WholeInv'
  <2>1. UNCHANGED <<sink, file, content>>
    BY <1>4 DEF Search, GetRavelIds, Pass, SendIds, TakeIds, PutPosts, Panic, vars, files
  <2>. QED BY <1>1, <2>1, QuietWhole
<1>. QED BY <1>2, <1>3, <1>4 DEF Next, Gather

\* A file left in the data set is one whole image, unless two weights of one
\* group have patterns of one name.
THEOREM WholeLeft == Spec => []WholeUnlessShared
<1>1. WholeInv => WholeUnlessShared
  <2>. SUFFICES ASSUME WholeInv, NEW f \in File, Settled(f), ~WeightsShare(f)
                PROVE  content[file[f]][1] = content[file[f]][2] /\ content[file[f]][1] # Empty
    BY DEF WholeUnlessShared
  <2>1. PathOK(f) /\ \A w \in Weight : ~Writes(w, f)
    BY DEF WholeInv, Settled, AtWorkOn, Writes
  <2>. QED BY <2>1 DEF PathOK, Whole, Settled
<1>. QED BY <1>1, InitWhole, StepWhole, PTL DEF Spec
=============================================================================
