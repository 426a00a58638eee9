---------------------------- MODULE MCHashIndex -----------------------------
(* Instances of HashIndex for TLC. *)
EXTENDS HashIndex, TLC

\* Two bits to a segment.
MCBit == 0 .. 7
MCCut == [b \in MCBit |-> 1 + b \div 2]

\* Three photos that share no segment: the image {0, 3, 4} shares one with each
\* and is near the first.
MCPhoto == {{}, {0, 2, 5, 6}, {1, 3, 4, 5, 7}}

\* Two photos that differ in one bit of every segment.
MCFarPhoto == {{}, {0, 2, 4, 6}}

\* That image, the photos themselves, and images a bit away from each of them.
MCImage == {{0, 3, 4}, {7}, {0, 2, 5}, {0, 1, 3, 4, 5, 7}} \cup MCPhoto \cup MCFarPhoto

Symmetry == Permutations(Adder)
=============================================================================
