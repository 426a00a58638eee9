----------------------------- MODULE MCAccounts -----------------------------
(***************************************************************************)
(* Small instances of Accounts.  Slots, browsers, addresses and passwords  *)
(* are interchangeable, so the safety runs take every permutation of each. *)
(* In Plain are the addresses a link carries unchanged; of the others it   *)
(* carries what is no address with a row, or not all the parameters.       *)
(***************************************************************************)
EXTENDS Accounts, TLC

CONSTANT Plain

MCQueryEmail == [e \in Email |-> IF e \in Plain THEN e ELSE None]

Symmetry ==
    Permutations(Req) \cup Permutations(Browser)
        \cup Permutations(Email) \cup Permutations(Password)
=============================================================================
