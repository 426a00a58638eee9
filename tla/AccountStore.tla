---------------------------- MODULE AccountStore ----------------------------
(***************************************************************************)
(* What the account handlers of handlers/login.go promise together, with   *)
(* every operation atomic: an address owns at most one account, an account *)
(* identifier is never used twice, and a live session always belongs to an *)
(* account that is open.  Accounts.tla, whose handlers are sequences of    *)
(* database statements that interleave, is shown to implement this module. *)
(***************************************************************************)
EXTENDS Naturals

CONSTANTS
    Email,    \* addresses an account can be opened under
    Token     \* refresh tokens a session can be named by

VARIABLES
    owner,    \* owner[e]: identifier of the account open under e, 0 if none
    opened,   \* number of accounts ever opened; identifiers are 1..opened
    sessions  \* live sessions, each a token and the account it belongs to

vars == <<owner, opened, sessions>>

Session == [token : Token, user : Nat]

Init ==
    /\ owner = [e \in Email |-> 0]
    /\ opened = 0
    /\ sessions = {}

\* An account is opened under an address that has none.
Open(e) ==
    /\ owner[e] = 0
    /\ opened' = opened + 1
    /\ owner' = [owner EXCEPT ![e] = opened + 1]
    /\ UNCHANGED sessions

\* An account is closed, and its sessions end with it.
Close(e) ==
    /\ owner[e] # 0
    /\ owner' = [owner EXCEPT ![e] = 0]
    /\ sessions' = {s \in sessions : s.user # owner[e]}
    /\ UNCHANGED opened

\* A session begins for an open account, under a token no session has.
Grant(e, t) ==
    /\ owner[e] # 0
    /\ \A s \in sessions : s.token # t
    /\ sessions' = sessions \cup {[token |-> t, user |-> owner[e]]}
    /\ UNCHANGED <<owner, opened>>

\* A token is revoked: whatever session it names ends.
Revoke(t) ==
    /\ sessions' = {s \in sessions : s.token # t}
    /\ UNCHANGED <<owner, opened>>

\* The server starts afresh: every session ends, every account stays.
EndAll ==
    /\ sessions' = {}
    /\ UNCHANGED <<owner, opened>>

Next ==
    \/ \E e \in Email : Open(e) \/ Close(e)
    \/ \E e \in Email, t \in Token : Grant(e, t)
    \/ \E t \in Token : Revoke(t)
    \/ EndAll

Spec == Init /\ [][Next]_vars
=============================================================================
