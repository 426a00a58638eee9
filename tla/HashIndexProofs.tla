--------------------------- MODULE HashIndexProofs ---------------------------
(***************************************************************************)
(* What HashIndex guarantees for hashes of any width cut anyhow into four  *)
(* segments, any photos, images and number of goroutines, and whichever    *)
(* lookups and inserts fail.                                               *)
(***************************************************************************)
EXTENDS HashIndex, FiniteSetTheorems, TLAPS

-----------------------------------------------------------------------------
(* Segments and distance *)

LEMMA ShareSymmetric == \A h, k : Share(h, k) => Share(k, h)
  BY DEF Share

LEMMA FourSegments == IsFiniteSet(Segment) /\ Cardinality(Segment) = 4
<1>1. IsFiniteSet(1 .. 4) /\ Cardinality(1 .. 4) = 4
  <2>1. 1 \in Int /\ 4 \in Int /\ ~(1 > 4) /\ 4 - 1 + 1 = 4
    OBVIOUS
  <2>. QED BY <2>1, FS_Interval
<1>. QED BY <1>1 DEF Segment

\* Segments that differ, differ in a bit of their own.
LEMMA SegmentBit ==
    ASSUME NEW h \in SUBSET Bit, NEW k \in SUBSET Bit, NEW i \in Segment,
           Split(h, i) # Split(k, i)
    PROVE  \E b \in Differ(h, k) : Cut[b] = i
  BY DEF Split, Differ

\* Hashes that differ in at most three bits share one of the four segments.
LEMMA NearShares ==
    ASSUME NEW h \in SUBSET Bit, NEW k \in SUBSET Bit, Distance(h, k) < 4
    PROVE  Share(h, k)
<1>. SUFFICES ASSUME ~Share(h, k) PROVE FALSE
  OBVIOUS
<1>. DEFINE D == Differ(h, k)
            f == [i \in Segment |-> CHOOSE b \in D : Cut[b] = i]
<1>1. IsFiniteSet(D)
  <2>1. D \subseteq Bit
    BY DEF Differ
  <2>. QED BY <2>1, FS_Subset, ConstantsAssumption
<1>2. \A i \in Segment : \E b \in D : Cut[b] = i
  BY SegmentBit DEF Share
<1>3. \A i \in Segment : f[i] \in D /\ Cut[f[i]] = i
  BY <1>2
<1>4. f \in [Segment -> D] /\ \A i, j \in Segment : f[i] = f[j] => i = j
  BY <1>3
<1>5. Cardinality(D) < Cardinality(Segment)
  BY FourSegments DEF Distance
<1>. QED
  <2>. HIDE DEF f, D
  <2>. QED BY <1>1, <1>4, <1>5, FourSegments, FS_PigeonHole

-----------------------------------------------------------------------------
(* The invariant *)

\* What a goroutine is about to insert shares no segment with the rows it has
\* inserted itself, if its lookup answered.
FreshForAdder ==
    \A a \in Adder : adding[a].at = "insert" /\ ~adding[a].blind =>
        \A n \in DOMAIN rows :
            rows[n].by = a => ~Share(rows[n].hash, adding[a].hash)

IInv ==
    /\ TypeOK
    /\ FreshForAdder /\ SharedOnlyAcrossAdders

LEMMA EntryFacts ==
    /\ Idle.at = "idle"
    /\ \A h, blind : /\ Insert(h, blind).at = "insert"
                     /\ Insert(h, blind).hash = h
                     /\ Insert(h, blind).blind = blind
                     /\ Insert(h, blind) # Idle
  BY DEF Idle, Insert

LEMMA InitIInv == Init => IInv
<1>. SUFFICES ASSUME Init PROVE IInv
  OBVIOUS
<1>1. rows = <<>> /\ rows \in Seq(Row) /\ DOMAIN rows = {}
  BY DEF Init
<1>2. \A a \in Adder : adding[a] = Idle
  BY DEF Init
<1>3. TypeOK
  BY <1>1 DEF Init, TypeOK
<1>4. FreshForAdder
  BY <1>2, EntryFacts DEF FreshForAdder
<1>5. SharedOnlyAcrossAdders
  BY <1>1 DEF SharedOnlyAcrossAdders
<1>. QED BY <1>3, <1>4, <1>5 DEF IInv

\* What a goroutine may be doing.
Entry == {Idle} \cup {Insert(h, blind) : h \in Photo, blind \in BOOLEAN}

\* The lookup that lets a photo through has seen every row, or has failed.
LEMMA LookupIInv ==
    ASSUME IInv, NEW a \in Adder, NEW h \in Photo, AddLookup(a, h)
    PROVE  IInv'
<1>. PICK blind \in BOOLEAN :
       /\ adding' = [adding EXCEPT ![a] = Insert(h, blind)]
       /\ ~blind => GetRavelHashes(h) = {}
  BY DEF AddLookup
<1>1. rows' = rows
  BY DEF AddLookup
<1>2. adding \in [Adder -> Entry]
  BY DEF IInv, TypeOK, Entry
<1>3. /\ adding'[a] = Insert(h, blind)
      /\ \A b \in Adder : b # a => adding'[b] = adding[b]
  BY <1>2
<1>4. ~blind => \A n \in DOMAIN rows : ~Share(rows[n].hash, h)
  BY DEF GetRavelHashes
<1>5. TypeOK'
  <2>1. Insert(h, blind) \in Entry
    BY DEF Entry
  <2>2. adding' \in [Adder -> Entry]
    BY <1>2, <2>1
  <2>. QED BY <1>1, <2>2 DEF IInv, TypeOK, Entry
<1>6. FreshForAdder'
  <2>. SUFFICES ASSUME NEW b \in Adder,
                       adding'[b].at = "insert", ~adding'[b].blind
                PROVE  \A n \in DOMAIN rows :
                         rows[n].by = b => ~Share(rows[n].hash, adding'[b].hash)
    BY <1>1 DEF FreshForAdder
  <2>1. CASE b = a
    BY <2>1, <1>3, <1>4, EntryFacts
  <2>2. CASE b # a
    BY <2>2, <1>3 DEF IInv, FreshForAdder
  <2>. QED BY <2>1, <2>2
<1>7. SharedOnlyAcrossAdders'
  BY <1>1 DEF IInv, SharedOnlyAcrossAdders
<1>. QED BY <1>5, <1>6, <1>7 DEF IInv

\* An insert adds one row, whose segments were looked up before.
LEMMA InsertIInv ==
    ASSUME IInv, NEW a \in Adder, AddInsert(a)
    PROVE  IInv'
<1>2. adding \in [Adder -> Entry] /\ rows \in Seq(Row)
  BY DEF IInv, TypeOK, Entry
<1>. PICK h \in Photo, blind \in BOOLEAN : adding[a] = Insert(h, blind)
  BY <1>2, EntryFacts DEF Entry, AddInsert
<1>1. /\ adding' = [adding EXCEPT ![a] = Idle] /\ adding[a].at = "insert"
      /\ adding[a].hash = h /\ adding[a].blind = blind
  BY EntryFacts DEF AddInsert
<1>3. adding'[a] = Idle /\ \A b \in Adder : b # a => adding'[b] = adding[b]
  BY <1>1, <1>2
<1>4. adding' \in [Adder -> Entry]
  BY <1>1, <1>2 DEF Entry
<1>5. CASE UNCHANGED rows
  <2>1. TypeOK'
    BY <1>5, <1>4, <1>2 DEF TypeOK, Entry
  <2>2. FreshForAdder'
    BY <1>5, <1>3, EntryFacts DEF IInv, FreshForAdder
  <2>3. SharedOnlyAcrossAdders'
    BY <1>5 DEF IInv, SharedOnlyAcrossAdders
  <2>. QED BY <2>1, <2>2, <2>3 DEF IInv
<1>6. CASE rows' = Append(rows, [hash |-> h, by |-> a, blind |-> blind])
  <2>. DEFINE row == [hash |-> h, by |-> a, blind |-> blind]
  <2>0. row \in Row /\ row.hash = h /\ row.by = a /\ row.blind = blind
    BY DEF Row
  <2>. HIDE DEF row
  <2>1. /\ rows' \in Seq(Row)
        /\ DOMAIN rows' = DOMAIN rows \cup {Len(rows) + 1}
        /\ \A n \in DOMAIN rows : n \in Nat /\ n < Len(rows) + 1
        /\ rows'[Len(rows) + 1] = row
        /\ \A n \in DOMAIN rows : rows'[n] = rows[n]
    BY <1>6, <1>2, <2>0 DEF row
  <2>2. TypeOK'
    BY <2>1, <1>4 DEF TypeOK, Entry
  <2>3. ~blind => \A n \in DOMAIN rows : rows[n].by = a => ~Share(rows[n].hash, h)
    BY <1>1 DEF IInv, FreshForAdder
  <2>4. FreshForAdder'
    <3>. SUFFICES ASSUME NEW b \in Adder,
                         adding'[b].at = "insert", ~adding'[b].blind,
                         NEW n \in DOMAIN rows', rows'[n].by = b
                  PROVE  ~Share(rows'[n].hash, adding'[b].hash)
      BY DEF FreshForAdder
    <3>1. b # a
      BY <1>3, EntryFacts
    <3>2. n \in DOMAIN rows
      BY <3>1, <2>0, <2>1
    <3>. QED BY <3>1, <3>2, <1>3, <2>1 DEF IInv, FreshForAdder
  <2>5. SharedOnlyAcrossAdders'
    <3>. SUFFICES ASSUME NEW m \in DOMAIN rows', NEW n \in DOMAIN rows',
                         m < n, rows'[m].by = rows'[n].by,
                         Share(rows'[m].hash, rows'[n].hash)
                  PROVE  rows'[n].blind
      BY DEF SharedOnlyAcrossAdders
    <3>0. Len(rows) \in Nat
      BY <1>2
    <3>1. m \in DOMAIN rows
      BY <3>0, <2>1
    <3>2. CASE n \in DOMAIN rows
      BY <3>1, <3>2, <2>1 DEF IInv, SharedOnlyAcrossAdders
    <3>3. CASE n = Len(rows) + 1
      BY <3>1, <3>3, <2>0, <2>1, <2>3
    <3>. QED BY <3>2, <3>3, <2>1
  <2>. QED BY <2>2, <2>4, <2>5 DEF IInv
<1>. QED BY <1>1, <1>5, <1>6 DEF AddInsert

LEMMA NextIInv == IInv /\ [Next]_vars => IInv'
<1>. SUFFICES ASSUME IInv, [Next]_vars PROVE IInv'
  OBVIOUS
<1>1. ASSUME NEW a \in Adder, NEW h \in Photo, AddLookup(a, h) PROVE IInv'
  BY <1>1, LookupIInv
<1>2. ASSUME NEW a \in Adder, AddInsert(a) PROVE IInv'
  BY <1>2, InsertIInv
<1>3. CASE Restart
  <2>1. Init'
    BY <1>3 DEF Restart, Init
  <2>. QED BY <2>1, InitIInv, PTL
<1>4. CASE UNCHANGED vars
  BY <1>4 DEF vars, IInv, TypeOK, FreshForAdder,
              SharedOnlyAcrossAdders, Share, Split
<1>. QED BY <1>1, <1>2, <1>3, <1>4 DEF Next

LEMMA Inductive == Spec => []IInv
  BY InitIInv, NextIInv, PTL DEF Spec

-----------------------------------------------------------------------------
(* Theorems *)

\* The table and what is about to enter it are made of gathered hashes, failing
\* lookups or not (AddRavelPostHash, AddRavelPostDB).
THEOREM TypeCorrect == Spec => []TypeOK
<1>1. IInv => TypeOK
  BY DEF IInv
<1>. QED BY <1>1, Inductive, PTL

\* However the goroutines interleave, one of them stores a photo that shares a
\* segment with one it has stored only after a lookup that failed
\* (AddRavelPostDB, which does not look at the error).
THEOREM OneRowPerAdder == Spec => []SharedOnlyAcrossAdders
<1>1. IInv => SharedOnlyAcrossAdders
  BY DEF IInv
<1>. QED BY <1>1, Inductive, PTL

\* Each row that shares a segment with the image and whose goroutine had looked
\* shares one that no other such row of that goroutine does: there are at most
\* four for each goroutine.
LEMMA FewCandidates ==
    ASSUME IInv, NEW h, NEW C, C = GetRavelHashes(h) \ Blind
    PROVE  /\ IsFiniteSet(GetRavelHashes(h))
           /\ Cardinality(C) <= 4 * Cardinality(Seeing(GetRavelHashes(h)))
<1>. DEFINE G == Seeing(GetRavelHashes(h))
            P == G \X Segment
            shared(n) == CHOOSE i \in Segment : Split(rows[n].hash, i) = Split(h, i)
            f == [n \in C |-> <<rows[n].by, shared(n)>>]
<1>0. /\ rows \in Seq(Row)
      /\ C \subseteq DOMAIN rows
      /\ \A n \in C : /\ ~rows[n].blind /\ Share(rows[n].hash, h)
                      /\ rows[n].by \in G
  BY DEF IInv, TypeOK, GetRavelHashes, Blind, Seeing
<1>1. IsFiniteSet(GetRavelHashes(h)) /\ IsFiniteSet(C)
  <2>. PICK D : D = GetRavelHashes(h)
    OBVIOUS
  <2>1. D \subseteq 1 .. Len(rows) /\ C \subseteq D /\ Len(rows) \in Nat
    BY <1>0 DEF GetRavelHashes
  <2>2. IsFiniteSet(1 .. Len(rows))
    BY <2>1, FS_Interval
  <2>. QED BY <2>1, <2>2, FS_Subset
<1>2. \A n \in C : /\ shared(n) \in Segment
                   /\ Split(rows[n].hash, shared(n)) = Split(h, shared(n))
  <2>. TAKE n \in C
  <2>1. \E i \in Segment : Split(rows[n].hash, i) = Split(h, i)
    BY <1>0 DEF Share
  <2>. QED BY <2>1
<1>3. ASSUME NEW m \in C, NEW n \in C, f[m] = f[n] PROVE m = n
  <2>. SUFFICES ASSUME m # n PROVE FALSE
    OBVIOUS
  <2>1. /\ m \in DOMAIN rows /\ n \in DOMAIN rows /\ m \in Nat /\ n \in Nat
        /\ ~rows[m].blind /\ ~rows[n].blind
    BY <1>0
  <2>2. rows[m].by = rows[n].by /\ shared(m) = shared(n)
    <3>. HIDE DEF shared
    <3>. QED BY <1>3
  <2>3. Split(rows[m].hash, shared(m)) = Split(rows[n].hash, shared(m))
    <3>. HIDE DEF shared
    <3>. QED BY <1>2, <2>2
  <2>4. Share(rows[m].hash, rows[n].hash) /\ Share(rows[n].hash, rows[m].hash)
    BY <1>2, <2>3 DEF Share
  <2>5. m < n \/ n < m
    BY <2>1
  <2>. QED BY <2>1, <2>2, <2>4, <2>5 DEF IInv, SharedOnlyAcrossAdders
<1>4. f \in [C -> P]
  <2>. HIDE DEF shared, G
  <2>. QED BY <1>0, <1>2
<1>5. /\ IsFiniteSet(P) /\ Cardinality(P) = 4 * Cardinality(G)
      /\ Cardinality(P) \in Nat
  <2>0. IsFiniteSet(G)
    <3>1. G \subseteq Adder
      <4>1. \A n \in DOMAIN rows : rows[n] \in Row
        BY <1>0
      <4>2. \A row \in Row : row.by \in Adder
        BY DEF Row
      <4>. QED BY <4>1, <4>2 DEF Seeing, GetRavelHashes
    <3>. HIDE DEF G
    <3>. QED BY <3>1, FS_Subset, ConstantsAssumption
  <2>1. IsFiniteSet(P) /\ Cardinality(P) = Cardinality(G) * Cardinality(Segment)
    <3>. HIDE DEF G
    <3>. QED BY <2>0, FourSegments, FS_Product
  <2>2. Cardinality(G) \in Nat
    BY <2>0, FS_CardinalityType
  <2>. HIDE DEF G
  <2>. QED BY <2>1, <2>2, FourSegments
<1>6. ~(Cardinality(P) < Cardinality(C))
  <2>. HIDE DEF f, P
  <2>. QED BY <1>1, <1>3, <1>4, <1>5, FS_PigeonHole
<1>7. Cardinality(C) \in Nat
  BY <1>1, FS_CardinalityType
<1>8. Cardinality(C) <= 4 * Cardinality(G)
  <2>. HIDE DEF G, P
  <2>. QED BY <1>5, <1>6, <1>7
<1>. QED BY <1>1, <1>8

\* A stored photo within three bits of the image is found, in whatever order the
\* table returns its rows, unless more than POSTAMOUNT rows share a segment with
\* it, at most four of them from each goroutine whose lookups answered
\* (GetRavelHashes, AddRavelPostDB).
THEOREM NearFound == Spec => []NearPhotoIsFound
<1>1. ASSUME IInv PROVE NearPhotoIsFound
  <2>. SUFFICES ASSUME NEW h \in Image
                PROVE  LET found == GetRavelHashes(h) IN
                       /\ Cardinality(found \ Blind) <= 4 * Cardinality(Seeing(found))
                       /\ Cardinality(found) <= PostAmount =>
                            \A n \in DOMAIN rows : Distance(h, rows[n].hash) < 4 =>
                                \A answer \in Answers(h) : n \in answer
    BY DEF NearPhotoIsFound
  <2>1. Cardinality(GetRavelHashes(h) \ Blind)
          <= 4 * Cardinality(Seeing(GetRavelHashes(h)))
    BY <1>1, FewCandidates
  <2>2. ASSUME Cardinality(GetRavelHashes(h)) <= PostAmount,
               NEW n \in DOMAIN rows, Distance(h, rows[n].hash) < 4,
               NEW answer \in Answers(h)
        PROVE  n \in answer
    <3>. PICK k \in SUBSET Bit : k = rows[n].hash
      <4>1. rows[n] \in Row
        BY <1>1 DEF IInv, TypeOK
      <4>. QED BY <4>1, ConstantsAssumption DEF Row
    <3>1. h \in SUBSET Bit
      BY ConstantsAssumption
    <3>2. n \in GetRavelHashes(h)
      BY <2>2, <3>1, NearShares, ShareSymmetric DEF GetRavelHashes
    <3>3. Looked(h) = {GetRavelHashes(h)}
      BY <2>2 DEF Looked
    <3>4. answer = Near(h, GetRavelHashes(h))
      BY <3>3 DEF Answers
    <3>5. Distance(h, k) < Threashold
      <4>1. Distance(h, k) \in Nat
        <5>1. Differ(h, k) \subseteq Bit
          BY <3>1 DEF Differ
        <5>. QED BY <5>1, FS_Subset, FS_CardinalityType, ConstantsAssumption
                 DEF Distance
      <4>. QED BY <2>2, <4>1, ConstantsAssumption
    <3>. QED BY <3>2, <3>4, <3>5 DEF Near
  <2>. QED BY <2>1, <2>2
<1>. QED BY <1>1, Inductive, PTL
=============================================================================
