----------------------------- MODULE HashIndex ------------------------------
(***************************************************************************)
(* The perceptual-hash index of handlers/collection.go over the table      *)
(* ravel_hashes.  A photo has a 64-bit hash, stored whole and cut into     *)
(* four segments, each with an index.  A lookup selects the rows that      *)
(* share a segment with the image, takes the first POSTAMOUNT of them and  *)
(* keeps those at a Hamming distance under THREASHOLD.                     *)
(*                                                                         *)
(* AddRavelhash starts a goroutine for every gathered pattern.  Each one   *)
(* adds the pattern's photos in turn: a lookup by segments, then, if it    *)
(* found nothing, an insert, in two statements and no transaction.         *)
(*                                                                         *)
(* A hash is the set of its one bits.  The SQL columns are signed, which   *)
(* the conversions int16, int64 and uint64 undo without loss, so equality  *)
(* of columns is equality of sets of bits.                                 *)
(***************************************************************************)
EXTENDS Naturals, FiniteSets, Sequences

CONSTANTS
    Bit,         \* positions in a hash
    Cut,         \* which segment each position falls in
    Photo,       \* hashes of the photos that are gathered
    Image,       \* hashes of the images that are looked up
    Adder,       \* goroutines of AddRavelhash that run at once; one that ends
                 \* leaves its place to another
    Threashold,  \* THREASHOLD
    PostAmount,  \* POSTAMOUNT
    MaxRows,     \* bound of the model: rows in the table
    MaxBlind     \* bound of the model: rows that follow a failed lookup

Segment == 1 .. 4

ASSUME ConstantsAssumption ==
    /\ IsFiniteSet(Bit)
    /\ Cut \in [Bit -> Segment]
    /\ Photo \subseteq SUBSET Bit /\ Image \subseteq SUBSET Bit
    /\ IsFiniteSet(Adder)
    /\ Threashold \in Nat /\ PostAmount \in Nat
    /\ Threashold >= 4
    /\ MaxRows \in Nat /\ MaxBlind \in Nat

VARIABLES
    rows,    \* table ravel_hashes, by id
    adding   \* what each goroutine is about to insert

vars == <<rows, adding>>

-----------------------------------------------------------------------------
\* Split16BitHash: one segment of a hash.
Split(hash, i) == {b \in hash : Cut[b] = i}

\* goimagehash: ImageHash.Distance.
Differ(h, k) == (h \ k) \cup (k \ h)
Distance(h, k) == Cardinality(Differ(h, k))

\* Mutant: the four columns must all match.
ShareAll(h, k) == \A i \in Segment : Split(h, i) = Split(k, i)

Share(h, k) == \E i \in Segment : Split(h, i) = Split(k, i)

\* by and blind are not columns: they name the goroutine that inserted the row,
\* and say whether its lookup had failed.
Row == [hash : Photo, by : Adder, blind : BOOLEAN]
Idle == [at |-> "idle", hash |-> {}, blind |-> FALSE]
Insert(h, blind) == [at |-> "insert", hash |-> h, blind |-> blind]

\* SELECT ... WHERE hash_part_1 = $1 OR ... OR hash_part_4 = $4
GetRavelHashes(h) == {n \in DOMAIN rows : Share(rows[n].hash, h)}

\* The rows of goroutines whose lookup had failed.
Blind == {n \in DOMAIN rows : rows[n].blind}

\* The table holds rows of gathered photos, and what is about to be inserted is
\* the hash of one.
TypeOK ==
    /\ rows \in Seq(Row)
    /\ adding \in [Adder -> {Idle} \cup {Insert(h, blind) : h \in Photo, blind \in BOOLEAN}]

Init ==
    /\ rows = <<>>
    /\ adding = [a \in Adder |-> Idle]

-----------------------------------------------------------------------------
(* AddRavelPostHash: one photo after another *)

\* Mutant: the photo is inserted without a look at the table.
AddWithoutLookup(a, h) ==
    /\ adding[a] = Idle
    /\ adding' = [adding EXCEPT ![a] = Insert(h, FALSE)]
    /\ UNCHANGED rows

\* CreatePHash and the lookup of AddRavelPostDB; a photo that cannot be hashed
\* and a post "already in database" are skipped, which changes nothing.  The
\* error of the lookup is not looked at: one that fails has found no rows.
AddLookup(a, h) ==
    /\ adding[a] = Idle
    /\ \/ /\ GetRavelHashes(h) = {}
          /\ adding' = [adding EXCEPT ![a] = Insert(h, FALSE)]
       \/ /\ Cardinality(Blind) < MaxBlind
          /\ adding' = [adding EXCEPT ![a] = Insert(h, TRUE)]
    /\ UNCHANGED rows

\* Mutant: FullHash is filled with the first segment.
AddInsertSegment(a) ==
    /\ adding[a].at = "insert"
    /\ Len(rows) < MaxRows
    /\ rows' = Append(rows, [hash |-> Split(adding[a].hash, 1), by |-> a,
                               blind |-> adding[a].blind])
    /\ adding' = [adding EXCEPT ![a] = Idle]

\* CreateRavelHash, which may fail: the error is logged, the next photo tried.
AddInsert(a) ==
    /\ adding[a].at = "insert"
    /\ \/ /\ Len(rows) < MaxRows
          /\ rows' = Append(rows, [hash |-> adding[a].hash, by |-> a,
                                   blind |-> adding[a].blind])
       \/ UNCHANGED rows
    /\ adding' = [adding EXCEPT ![a] = Idle]

\* main: ResetRavelHashes, and no goroutine survives.
Restart ==
    /\ rows' = <<>>
    /\ adding' = [a \in Adder |-> Idle]

-----------------------------------------------------------------------------
(* GetRavelHashes of handlers/collection.go *)

\* The statement has no ORDER BY: the first rows are any rows.
Looked(h) ==
    LET found == GetRavelHashes(h)
    IN  IF Cardinality(found) <= PostAmount THEN {found}
        ELSE {S \in SUBSET found : Cardinality(S) = PostAmount}

Near(h, S) == {n \in S : Distance(h, rows[n].hash) < Threashold}

\* What a search for the image may be answered with.
Answers(h) == {Near(h, S) : S \in Looked(h)}

-----------------------------------------------------------------------------
Next ==
    \/ \E a \in Adder, h \in Photo : AddLookup(a, h)
    \/ \E a \in Adder : AddInsert(a)
    \/ Restart

Spec == Init /\ [][Next]_vars

-----------------------------------------------------------------------------
(* Properties *)

\* Of two photos that share a segment and that one goroutine has stored, the
\* later one was stored because its lookup had failed: a lookup that answers sees
\* all its goroutine has inserted.  Otherwise only rows of different goroutines
\* share one, when both looked before either inserted.
SharedOnlyAcrossAdders ==
    \A m, n \in DOMAIN rows :
        m < n /\ rows[m].by = rows[n].by /\ Share(rows[m].hash, rows[n].hash) =>
            rows[n].blind

\* The goroutines whose lookups answered, among those with a row in the set.
Seeing(found) == {rows[n].by : n \in found \ Blind}

\* A stored photo that differs from the image in at most three bits shares a
\* segment with it, and is found unless more than POSTAMOUNT rows do; of those each
\* goroutine has put in at most four, but for failed lookups.  So it is found for
\* certain while the rows around the image are one goroutine's (4 <= POSTAMOUNT),
\* and may be left out when two of them raced.
NearPhotoIsFound ==
    \A h \in Image :
        LET found == GetRavelHashes(h) IN
        /\ Cardinality(found \ Blind) <= 4 * Cardinality(Seeing(found))
        /\ Cardinality(found) <= PostAmount =>
               \A n \in DOMAIN rows : Distance(h, rows[n].hash) < 4 =>
                   \A answer \in Answers(h) : n \in answer

\* Every stored photo close enough for the final distance calculation
\* (sql/schema/004_ravel_hashes.sql:6) is found through the segments.
EveryNearPhotoIsFound ==
    \A h \in Image : \A n \in DOMAIN rows :
        Distance(h, rows[n].hash) < Threashold =>
            \A answer \in Answers(h) : n \in answer
=============================================================================
