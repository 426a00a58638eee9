---------------------------- MODULE SearchHistory ----------------------------
(***************************************************************************)
(* What somebody who pins images may expect of the search history, with no *)
(* word of how a search finds its posts: a search is recorded for whoever  *)
(* asked for it and nobody else, once, after its posts are known and       *)
(* before they are shown; before a page is shown each post of it has been  *)
(* recorded, unless there was no account to record it for; and nothing but *)
(* the end of the account takes away what was recorded.                    *)
(* LinkSearch.tla, whose searches share their state and fail at any        *)
(* statement, is shown to implement this module.                           *)
(***************************************************************************)
EXTENDS Naturals

CONSTANTS
    Search,  \* searches
    User,    \* accounts
    Nobody,  \* no account
    Most,    \* how many posts a page has at most
    Faults   \* may the database fail?

VARIABLES
    phase,    \* how far each search is
    owner,    \* who asked for it
    page,     \* how many posts its page has
    users,    \* the accounts that stand
    history,  \* for whom each search is recorded
    results,  \* how many of its posts are recorded
    written   \* how many of its posts it has recorded, until it is over

vars == <<phase, owner, page, users, history, results, written>>

Init ==
    /\ phase = [s \in Search |-> "new"]
    /\ owner = [s \in Search |-> Nobody]
    /\ page = [s \in Search |-> 0]
    /\ users = User
    /\ history = [s \in Search |-> Nobody]
    /\ results = [s \in Search |-> 0]
    /\ written = [s \in Search |-> 0]

\* From one phase to the next.
Moves(s, from, to) ==
    /\ phase[s] = from
    /\ phase' = [phase EXCEPT ![s] = to]

\* Somebody asks, signed in or not.
Ask(s) ==
    /\ Moves(s, "new", "asked")
    /\ \E u \in User \cup {Nobody} : owner' = [owner EXCEPT ![s] = u]
    /\ UNCHANGED <<page, users, history, results, written>>

\* The posts are known, possibly none.
Find(s) ==
    /\ Moves(s, "asked", "found")
    /\ \E n \in 0 .. Most : page' = [page EXCEPT ![s] = n]
    /\ UNCHANGED <<owner, users, history, results, written>>

\* The search is recorded, for an account that stands.
Record(s) ==
    /\ Moves(s, "found", "recorded")
    /\ owner[s] \in users
    /\ history' = [history EXCEPT ![s] = owner[s]]
    /\ UNCHANGED <<owner, page, users, results, written>>

\* There is nobody to record it for, or nobody could be found.
Skip(s) ==
    /\ Moves(s, "found", "unrecorded")
    /\ owner[s] \notin users \/ Faults
    /\ UNCHANGED <<owner, page, users, history, results, written>>

\* One more of its posts is recorded.
RecordPost(s) ==
    /\ phase[s] = "recorded"
    /\ history[s] # Nobody
    /\ written[s] < page[s]
    /\ written' = [written EXCEPT ![s] = @ + 1]
    /\ results' = [results EXCEPT ![s] = @ + 1]
    /\ UNCHANGED <<phase, owner, page, users, history>>

\* The page is shown: all of it was recorded, which the end of the account may
\* have undone since, or none of it will be.
Show(s) ==
    /\ \/ Moves(s, "unrecorded", "shown")
       \/ Moves(s, "recorded", "shown") /\ written[s] = page[s]
    /\ written' = [written EXCEPT ![s] = 0]
    /\ UNCHANGED <<owner, page, users, history, results>>

\* Some searches end without a page.
Lose(lost) ==
    /\ \A s \in lost : phase[s] \notin {"shown", "lost"}
    /\ phase' = [s \in Search |-> IF s \in lost THEN "lost" ELSE phase[s]]
    /\ written' = [s \in Search |-> IF s \in lost THEN 0 ELSE written[s]]
    /\ UNCHANGED <<owner, page, users, history, results>>

\* An account ends, and all that was recorded for it.
Close(u) ==
    /\ u \in users
    /\ users' = users \ {u}
    /\ history' = [s \in Search |->
                     IF history[s] = u THEN Nobody ELSE history[s]]
    /\ results' = [s \in Search |->
                     IF history[s] = u THEN 0 ELSE results[s]]
    /\ UNCHANGED <<phase, owner, page, written>>

Next ==
    \/ \E s \in Search :
         \/ Ask(s) \/ Find(s) \/ Record(s) \/ Skip(s)
         \/ RecordPost(s) \/ Show(s)
    \/ \E lost \in SUBSET Search : Lose(lost)
    \/ \E u \in User : Close(u)

Spec == Init /\ [][Next]_vars
=============================================================================
