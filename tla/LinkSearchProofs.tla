--------------------------- MODULE LinkSearchProofs --------------------------
(***************************************************************************)
(* What LinkSearch guarantees for any number of searches and accounts and  *)
(* any POSTAMOUNT.                                                         *)
(***************************************************************************)
EXTENDS LinkSearch, TLAPS

-----------------------------------------------------------------------------
(* Types *)

LEMMA NewSearchType == NewSearch \in SearchState /\ NewSearch.at = "new"
  BY ConstantsAssumption DEF NewSearch, SearchState, Stage, Guess

LEMMA ShowsType ==
    ASSUME NEW what \in {"nothing", "home", "looking", "guessing", "comparing"}
    PROVE  Shows(what) \in Board
  BY DEF Shows, Board, Guess

LEMMA InitType == Init => TypeOK
  BY NewSearchType, ShowsType, ConstantsAssumption
     DEF Init, TypeOK, ChatState, Guess

-----------------------------------------------------------------------------
(* What a handler's step does to its search *)

\* The next state of s, and of s alone, is q.
Becomes(s, q) ==
    /\ q \in SearchState
    /\ search' \in [Search -> SearchState]
    /\ search'[s] = q
    /\ \A other \in Search : other # s => search'[other] = search[other]

LEMMA AssignSearch ==
    ASSUME TypeOK, NEW s \in Search, NEW q \in SearchState,
           search' = [search EXCEPT ![s] = q]
    PROVE  Becomes(s, q)
  BY DEF Becomes, TypeOK

\* s goes on to one of the stages; no other search changes.
GoesTo(s, stages) ==
    /\ search' \in [Search -> SearchState]
    /\ search'[s].at \in stages
    /\ search'[s].kept \in {0, search[s].kept}
    /\ \A other \in Search : other # s => search'[other] = search[other]

\* Where a stage begins.
LEMMA MovedType ==
    ASSUME NEW q \in SearchState, NEW stage \in Stage
    PROVE  /\ Moved(q, stage) \in SearchState
           /\ Moved(q, stage).at = stage
           /\ Moved(q, stage).posts = q.posts
           /\ Moved(q, stage).user = q.user
           /\ Moved(q, stage).kept = 0
           /\ Moved(q, stage).cookie => q.cookie
           /\ Moved(q, stage).cloth = q.cloth /\ Moved(q, stage).yarn = q.yarn
<1>1. 0 \in 0 .. PostAmount + 1
  BY ConstantsAssumption
<1>. QED BY <1>1 DEF Moved, SearchState

LEMMA GotoEffect ==
    ASSUME TypeOK, NEW s \in Search, NEW stage \in Stage, Goto(s, stage)
    PROVE  /\ GoesTo(s, {stage})
           /\ search'[s].posts = search[s].posts
           /\ search'[s].user = search[s].user
           /\ search'[s].kept = 0
           /\ search'[s].cookie => search[s].cookie
<1>. PICK q \in SearchState : q = search[s]
  BY DEF TypeOK
<1>. PICK p : p = Moved(q, stage)
  OBVIOUS
<1>1. p \in SearchState
  BY MovedType
<1>2. Becomes(s, p)
  BY <1>1, AssignSearch DEF Goto
<1>. QED BY <1>2, MovedType DEF Becomes, GoesTo

\* The loop over the posts goes on to the next one.
LEMMA KeepOneEffect ==
    ASSUME TypeOK, NEW s \in Search, KeepOne(s),
           search[s].kept < search[s].posts
    PROVE  /\ search' \in [Search -> SearchState]
           /\ search'[s].at = search[s].at
           /\ search'[s].cookie = search[s].cookie
           /\ search'[s].user = search[s].user
           /\ search'[s].posts = search[s].posts
           /\ search'[s].kept = search[s].kept + 1
           /\ \A other \in Search : other # s => search'[other] = search[other]
<1>. PICK q \in SearchState : q = search[s]
  BY DEF TypeOK
<1>. PICK p : p = [q EXCEPT !.kept = q.kept + 1]
  OBVIOUS
<1>0. q.kept + 1 \in 0 .. PostAmount + 1
  BY ConstantsAssumption DEF SearchState
<1>1. p \in SearchState
  BY <1>0 DEF SearchState
<1>2. /\ p.at = q.at /\ p.cookie = q.cookie /\ p.user = q.user
      /\ p.posts = q.posts /\ p.kept = q.kept + 1
  BY DEF SearchState
<1>3. Becomes(s, p)
  BY <1>1, AssignSearch DEF KeepOne
<1>. QED BY <1>2, <1>3 DEF Becomes

LEMMA StartEffect ==
    ASSUME TypeOK, NEW s \in Search, Start(s)
    PROVE  GoesTo(s, {"resolve", "error"})
<1>1. ASSUME NEW cookie \in BOOLEAN, NEW user \in User \cup {Nobody},
             search' = [search EXCEPT ![s] =
                          [@ EXCEPT !.at = "resolve", !.cookie = cookie,
                                    !.user = user]]
      PROVE  GoesTo(s, {"resolve"})
  <2>. PICK q \in SearchState : q = search[s]
    BY DEF TypeOK
  <2>. PICK p : p = [q EXCEPT !.at = "resolve", !.cookie = cookie, !.user = user]
    OBVIOUS
  <2>1. p \in SearchState /\ p.at = "resolve" /\ p.kept = q.kept
    BY DEF SearchState, Stage
  <2>2. Becomes(s, p)
    BY <1>1, <2>1, AssignSearch
  <2>. QED BY <2>1, <2>2 DEF Becomes, GoesTo
<1>2. Goto(s, "error") => GoesTo(s, {"error"})
  BY GotoEffect DEF Stage
<1>. QED BY <1>1, <1>2 DEF Start, GoesTo

\* With the posts a lookup or a comparison has found.
LEMMA LookupEffect ==
    ASSUME TypeOK, NEW s \in Search, Lookup(s)
    PROVE  GoesTo(s, {"found", "fetch", "error"})
<1>1. ASSUME NEW n \in 1 .. PostAmount,
             search' = [search EXCEPT ![s] =
                          [@ EXCEPT !.at = "found", !.posts = n]]
      PROVE  GoesTo(s, {"found"})
  <2>. PICK q \in SearchState : q = search[s]
    BY DEF TypeOK
  <2>. PICK p : p = [q EXCEPT !.at = "found", !.posts = n]
    OBVIOUS
  <2>0. n \in 0 .. PostAmount + 1
    BY ConstantsAssumption
  <2>1. p \in SearchState /\ p.at = "found" /\ p.kept = q.kept
    BY <2>0 DEF SearchState, Stage
  <2>2. Becomes(s, p)
    BY <1>1, <2>1, AssignSearch
  <2>. QED BY <2>1, <2>2 DEF Becomes, GoesTo
<1>2. ASSUME NEW stage \in {"fetch", "error"}, Goto(s, stage)
      PROVE  GoesTo(s, {stage})
  BY <1>2, GotoEffect DEF Stage
<1>. QED BY <1>1, <1>2 DEF Lookup, GoesTo

\* With what it has read from the table.
LEMMA ReadClothEffect ==
    ASSUME TypeOK, NEW s \in Search, ReadCloth(s)
    PROVE  /\ GoesTo(s, {"readYarn"})
           /\ search'[s].cloth \in Guess /\ Reads(s, "cloth", search'[s].cloth)
<1>. PICK guess \in Guess :
       /\ Reads(s, "cloth", guess)
       /\ search' = [search EXCEPT ![s] =
                       [@ EXCEPT !.at = "readYarn", !.cloth = guess]]
  BY DEF ReadCloth
<1>. PICK q \in SearchState : q = search[s]
  BY DEF TypeOK
<1>. PICK p : p = [q EXCEPT !.at = "readYarn", !.cloth = guess]
  OBVIOUS
<1>1. /\ p \in SearchState /\ p.at = "readYarn" /\ p.cloth = guess
      /\ p.kept = q.kept
  BY DEF SearchState, Stage
<1>2. Becomes(s, p)
  BY <1>1, AssignSearch
<1>. QED BY <1>1, <1>2 DEF Becomes, GoesTo

LEMMA ReadYarnEffect ==
    ASSUME TypeOK, NEW s \in Search, ReadYarn(s)
    PROVE  /\ GoesTo(s, {"query"})
           /\ search'[s].cloth = search[s].cloth
           /\ search'[s].yarn \in Guess /\ Reads(s, "yarn", search'[s].yarn)
<1>. PICK guess \in Guess :
       /\ Reads(s, "yarn", guess)
       /\ search' = [search EXCEPT ![s] =
                       [@ EXCEPT !.at = "query", !.yarn = guess]]
  BY DEF ReadYarn
<1>. PICK q \in SearchState : q = search[s]
  BY DEF TypeOK
<1>. PICK p : p = [q EXCEPT !.at = "query", !.yarn = guess]
  OBVIOUS
<1>1. /\ p \in SearchState /\ p.at = "query" /\ p.yarn = guess
      /\ p.cloth = q.cloth /\ p.kept = q.kept
  BY DEF SearchState, Stage
<1>2. Becomes(s, p)
  BY <1>1, AssignSearch
<1>. QED BY <1>1, <1>2 DEF Becomes, GoesTo

LEMMA QueryEffect ==
    ASSUME TypeOK, NEW s \in Search, Query(s)
    PROVE  GoesTo(s, {"found", "error"})
<1>0. Empty \in Guess
  BY DEF Guess
<1>1. ASSUME NEW n \in 0 .. PostAmount + 1,
             search' = [search EXCEPT ![s] =
                          [@ EXCEPT !.at = "found", !.posts = n,
                                    !.cloth = Empty, !.yarn = Empty]]
      PROVE  GoesTo(s, {"found"})
  <2>. PICK q \in SearchState : q = search[s]
    BY DEF TypeOK
  <2>. PICK p : p = [q EXCEPT !.at = "found", !.posts = n,
                              !.cloth = Empty, !.yarn = Empty]
    OBVIOUS
  <2>1. p \in SearchState /\ p.at = "found" /\ p.kept = q.kept
    BY <1>0 DEF SearchState, Stage
  <2>2. Becomes(s, p)
    BY <1>1, <2>1, AssignSearch
  <2>. QED BY <2>1, <2>2 DEF Becomes, GoesTo
<1>2. ASSUME search' = [search EXCEPT ![s] =
                          [Moved(search[s], "error") EXCEPT
                             !.cloth = Empty, !.yarn = Empty]]
      PROVE  GoesTo(s, {"error"})
  <2>. PICK q \in SearchState : q = Moved(search[s], "error")
    BY MovedType DEF TypeOK, Stage
  <2>. PICK p : p = [q EXCEPT !.cloth = Empty, !.yarn = Empty]
    OBVIOUS
  <2>0. q.at = "error" /\ q.kept = 0
    BY MovedType DEF TypeOK, Stage
  <2>1. p \in SearchState /\ p.at = "error" /\ p.kept = 0
    BY <1>0, <2>0 DEF SearchState
  <2>2. Becomes(s, p)
    BY <1>2, <2>1, AssignSearch
  <2>. QED BY <2>1, <2>2 DEF Becomes, GoesTo
<1>. QED BY <1>1, <1>2 DEF Query, GoesTo

LEMMA RestartEffect ==
    ASSUME TypeOK, Restart
    PROVE  /\ search' \in [Search -> SearchState]
           /\ \A s \in Search :
                 /\ search'[s].user = search[s].user
                 /\ search'[s].posts = search[s].posts
                 /\ Running(s) => search'[s].at = "gone" /\ search'[s].kept = 0
                 /\ ~Running(s) => search'[s] = search[s]
<1>1. \A s \in Search : search[s] \in SearchState /\ "gone" \in Stage
  BY DEF TypeOK, Stage
<1>. QED BY <1>1, MovedType DEF Restart

\* The handler's steps keep the searches, the status and the history in shape.
LEMMA HandlerType ==
    ASSUME TypeOK, NEW s \in Search, Handler(s)
    PROVE  TypeOK'
<1>1. CASE Start(s)
  BY <1>1, StartEffect DEF Start, TypeOK, GoesTo, table, saved
<1>2. CASE Resolve(s)
  BY <1>2, GotoEffect, ShowsType
     DEF Resolve, UpdatStatus, TypeOK, GoesTo, table, saved, Stage
<1>3. CASE Lookup(s)
  BY <1>3, LookupEffect, ShowsType
     DEF Lookup, UpdatStatus, TypeOK, GoesTo, table, saved
<1>4. CASE Fetch(s)
  BY <1>4, GotoEffect DEF Fetch, TypeOK, GoesTo, table, saved, Stage, ChatState
<1>5. CASE Wait(s)
  <2>. DEFINE stage == IF CheckForErr THEN "error" ELSE "readCloth"
  <2>1. stage \in Stage /\ Goto(s, stage)
    BY <1>5 DEF Wait, Stage
  <2>2. GoesTo(s, {stage})
    BY <2>1, GotoEffect
  <2>. QED BY <1>5, <2>2 DEF Wait, TypeOK, GoesTo, table, saved
<1>6. CASE ReadCloth(s)
  BY <1>6, ReadClothEffect DEF ReadCloth, TypeOK, GoesTo, table, saved
<1>7. CASE ReadYarn(s)
  BY <1>7, ReadYarnEffect DEF ReadYarn, TypeOK, GoesTo, table, saved
<1>8. CASE Query(s)
  BY <1>8, QueryEffect DEF Query, TypeOK, GoesTo, table, saved
<1>9. CASE Compare(s)
  <2>1. \A cloth, yarn \in Guess :
          [shows |-> "comparing", of |-> s, cloth |-> cloth, yarn |-> yarn]
            \in Board
    BY DEF Board
  <2>2. status' \in Board
    BY <1>9, <2>1 DEF Compare, UpdatStatus, TypeOK
  <2>3. search' \in [Search -> SearchState]
    BY <1>9, GotoEffect DEF Compare, GoesTo, Stage
  <2>. QED BY <1>9, <2>2, <2>3 DEF Compare, TypeOK, table, saved
<1>10. CASE GetUser(s)
  BY <1>10, GotoEffect DEF GetUser, TypeOK, GoesTo, table, saved, Stage
<1>11. CASE CreateUserSearch(s)
  <2>1. search' \in [Search -> SearchState]
    BY <1>11, GotoEffect DEF CreateUserSearch, GoesTo, Stage
  <2>2. search[s].user \in User \cup {Nobody}
    BY DEF TypeOK, SearchState
  <2>. QED BY <1>11, <2>1, <2>2 DEF CreateUserSearch, TypeOK, table
<1>12. CASE CreateSearchResult(s)
  <2>1. search' \in [Search -> SearchState]
    BY <1>12, GotoEffect, KeepOneEffect DEF CreateSearchResult, GoesTo, Stage
  <2>3. results' \in [Search -> Nat]
    BY <1>12 DEF CreateSearchResult, TypeOK
  <2>. QED BY <1>12, <2>1, <2>3 DEF CreateSearchResult, TypeOK, table
<1>13. CASE Respond(s)
  BY <1>13, GotoEffect DEF Respond, TypeOK, GoesTo, table, saved, Stage
<1>. QED BY <1>1, <1>2, <1>3, <1>4, <1>5, <1>6, <1>7, <1>8, <1>9, <1>10,
            <1>11, <1>12, <1>13 DEF Handler

LEMMA ChatType ==
    ASSUME TypeOK, NEW s \in Search, NEW t \in Tool, Chat(s, t)
    PROVE  TypeOK'
<1>. USE ConstantsAssumption DEF TypeOK, table, saved
<1>1. \A state \in ChatState :
        [chat EXCEPT ![s][t] = state] \in [Search -> [Tool -> ChatState]]
  OBVIOUS
<1>2. CASE ToolCall(s, t)
  <2>1. CanCall(s, t) \subseteq Tool
    BY DEF CanCall
  <2>. QED BY <1>1, <1>2, <2>1 DEF ToolCall, ChatState, Guess
<1>3. CASE ChatReturns(s, t)
  BY <1>1, <1>3 DEF ChatReturns, ChatState
<1>4. CASE ChatFails(s, t)
  BY <1>1, <1>4 DEF ChatFails, ChatState
<1>. QED BY <1>2, <1>3, <1>4 DEF Chat

LEMMA ServerType ==
    ASSUME TypeOK, HomePage \/ (\E u \in User : DeleteUser(u)) \/ Restart
    PROVE  TypeOK'
<1>. USE ConstantsAssumption DEF TypeOK, table, saved
<1>1. CASE HomePage
  BY <1>1, ShowsType DEF HomePage
<1>2. ASSUME NEW u \in User, DeleteUser(u) PROVE TypeOK'
  BY <1>2 DEF DeleteUser
<1>3. CASE Restart
  <2>1. search' \in [Search -> SearchState]
    BY <1>3, RestartEffect
  <2>2. chat' \in [Search -> [Tool -> ChatState]]
    BY <1>3 DEF Restart, ChatState
  <2>. QED BY <1>3, <2>1, <2>2, ShowsType DEF Restart, NewTable, Guess
<1>. QED BY <1>1, <1>2, <1>3

LEMMA TypeInductive == TypeOK /\ [Next]_vars => TypeOK'
<1>1. TypeOK /\ UNCHANGED vars => TypeOK'
  BY DEF vars, TypeOK
<1>. QED BY <1>1, HandlerType, ChatType, ServerType DEF Next

\* Local variables, shared entries and rows keep their shapes
\* (MiddleWareGetRavelLink and what it calls).
THEOREM TypeCorrect == Spec => []TypeOK
  BY InitType, TypeInductive, PTL DEF Spec

-----------------------------------------------------------------------------
(* The invariants *)

BeforeChats == {"new", "resolve", "lookup", "fetch"}
Reading == {"readCloth", "readYarn", "query"}
WithPosts == {"found", "user", "save", "saveResults", "render", "page"}
Unsaved == BeforeChats \cup {"wait"} \cup Reading
             \cup {"found", "user", "save", "render"}

\* The chats of a search follow its handler; a failure of theirs is still in the
\* table while the handler waits.
ChatsAt(s, stage) ==
    /\ stage \in BeforeChats => \A t \in Tool : chat[s][t] = "none"
    /\ stage = "wait" => \A t \in Tool :
          /\ chat[s][t] # "none"
          /\ chat[s][t] = "failed" => failed[t]
    /\ stage # "wait" => \A t \in Tool : chat[s][t] \in {"none", "ok", "failed"}
    /\ stage \in Reading => \A t \in Tool : chat[s][t] = "ok"
    /\ stage \in WithPosts => \/ \A t \in Tool : chat[s][t] = "none"
                              \/ \A t \in Tool : chat[s][t] = "ok"

ChatsFollow == \A s \in Search : ChatsAt(s, search[s].at)

\* A chat that has called its tool has left a guess in the table, and the
\* handler reads no other.
Labelled ==
    \A s \in Search \ OffTool :
        /\ search[s].at \in {"wait"} \cup Reading => \A t \in Tool :
              chat[s][t] \in {"calling", "ok"} => output[t] # Empty
        /\ search[s].at \in {"readYarn", "query"} => search[s].cloth # Empty
        /\ At(s, "query") => search[s].yarn # Empty

\* The rows of a search follow its handler and its account.
HistoryFollows ==
    \A s \in Search :
        /\ search[s].at \in Unsaved => history[s] = Nobody
        /\ ~At(s, "saveResults") => search[s].kept = 0
        /\ At(s, "saveResults") /\ history[s] # Nobody => results[s] = search[s].kept
        /\ At(s, "page") /\ history[s] # Nobody => results[s] = search[s].posts
        /\ history[s] # Nobody => history[s] \in users
        /\ results[s] > 0 => history[s] # Nobody

\* Only a search on its own has the table to itself.
OneRunning ==
    \A s, other \in Search : Running(s) /\ Running(other) => s = other

OwnTable ==
    \A s \in Search \ OffTool :
        /\ search[s].at \in {"wait", "found"} \cup Reading => \A t \in Tool :
              chat[s][t] \in {"calling", "ok"} => output[t] = s
        /\ search[s].at \in {"readYarn", "query"} => search[s].cloth = s
        /\ At(s, "query") => search[s].yarn = s

OwnStatus ==
    \A s \in Search \ OffTool :
        status.shows = "comparing" /\ status.of = s =>
            /\ search[s].at \in {"user", "save", "saveResults", "render"} \cup Over
            /\ Guessed(s) => status.cloth = s /\ status.yarn = s

IInv == /\ TypeOK /\ ChatsFollow /\ HistoryFollows /\ Labelled
        /\ ~Overlap => OneRunning /\ OwnTable /\ OwnStatus

LEMMA InitIInv == Init => IInv
<1>. SUFFICES ASSUME Init PROVE IInv
  OBVIOUS
<1>1. \A s \in Search : search[s] = NewSearch
  BY DEF Init
<1>2. \A s \in Search : At(s, "new") /\ ~Running(s)
  BY <1>1, NewSearchType DEF At, Running
<1>3. ChatsFollow
  BY <1>2 DEF Init, ChatsFollow, ChatsAt, At, Reading, WithPosts
<1>4. HistoryFollows
  <2>1. NewSearch.kept = 0
    BY DEF NewSearch
  <2>. QED BY <1>1, <1>2, <2>1 DEF Init, HistoryFollows, At
<1>5. Labelled
  BY <1>2 DEF Labelled, At, Reading
<1>6. OneRunning /\ OwnTable /\ OwnStatus
  BY <1>2 DEF Init, OneRunning, OwnTable, OwnStatus, At, Reading, Shows
<1>. QED BY <1>3, <1>4, <1>5, <1>6, InitType DEF IInv

-----------------------------------------------------------------------------
(* The chats follow the handler *)

LEMMA ChatsMove ==
    ASSUME ChatsFollow, NEW s \in Search, NEW stages, GoesTo(s, stages),
           UNCHANGED <<chat, failed>>,
           \A stage \in stages : ChatsAt(s, stage)
    PROVE  ChatsFollow'
<1>1. \A q \in Search : ChatsAt(q, search'[q].at)
  BY DEF GoesTo, ChatsFollow
<1>. QED BY <1>1 DEF ChatsFollow, ChatsAt

LEMMA HandlerChats ==
    ASSUME TypeOK, ChatsFollow, NEW s \in Search, Handler(s)
    PROVE  ChatsFollow'
<1>0. ChatsAt(s, search[s].at)
  BY DEF ChatsFollow
<1>. USE DEF ChatsAt, At, BeforeChats, Reading, WithPosts, table
<1>1. CASE Start(s)
  <2>1. GoesTo(s, {"resolve", "error"})
    BY <1>1, StartEffect
  <2>. QED BY <1>0, <1>1, <2>1, ChatsMove DEF Start
<1>2. CASE Resolve(s)
  <2>1. GoesTo(s, {"lookup", "error"})
    BY <1>2, GotoEffect DEF Resolve, GoesTo, Stage
  <2>. QED BY <1>0, <1>2, <2>1, ChatsMove DEF Resolve
<1>3. CASE Lookup(s)
  <2>1. GoesTo(s, {"found", "fetch", "error"})
    BY <1>3, LookupEffect
  <2>2. At(s, "lookup") /\ UNCHANGED <<chat, failed>>
    BY <1>3 DEF Lookup
  <2>3. \A t \in Tool : chat[s][t] = "none"
    BY <1>0, <2>2
  <2>. QED BY <2>1, <2>2, <2>3, ChatsMove
<1>4. CASE Fetch(s)
  <2>1. CASE Goto(s, "error") /\ UNCHANGED chat
    <3>1. GoesTo(s, {"error"})
      BY <2>1, GotoEffect DEF Stage
    <3>. QED BY <1>0, <1>4, <2>1, <3>1, ChatsMove DEF Fetch
  <2>2. CASE /\ Goto(s, "wait")
             /\ chat' = [chat EXCEPT ![s] = [t \in Tool |-> "asking"]]
    <3>1. GoesTo(s, {"wait"})
      BY <2>2, GotoEffect DEF Stage
    <3>2. /\ \A t \in Tool : chat'[s][t] = "asking"
          /\ \A other \in Search : other # s => chat'[other] = chat[other]
          /\ failed' = failed
      BY <1>4, <2>2 DEF Fetch, TypeOK
    <3>. QED BY <3>1, <3>2 DEF GoesTo, ChatsFollow
  <2>. QED BY <1>4, <2>1, <2>2 DEF Fetch
<1>5. CASE Wait(s)
  <2>1. CASE CheckForErr
    <3>1. GoesTo(s, {"error"})
      BY <1>5, <2>1, GotoEffect DEF Wait, Stage
    <3>2. /\ \A t \in Tool : chat[s][t] \in {"ok", "failed"}
          /\ UNCHANGED <<chat, failed>>
      BY <1>5 DEF Wait, ChatsReturned
    <3>. QED BY <3>1, <3>2, ChatsMove
  <2>2. CASE ~CheckForErr
    <3>1. GoesTo(s, {"readCloth"})
      BY <1>5, <2>2, GotoEffect DEF Wait, Stage
    <3>2. \A t \in Tool : chat[s][t] = "ok"
      BY <1>0, <1>5, <2>2 DEF Wait, ChatsReturned, CheckForErr
    <3>. QED BY <1>0, <1>5, <3>1, <3>2, ChatsMove DEF Wait
  <2>. QED BY <2>1, <2>2
<1>6. CASE ReadCloth(s)
  <2>1. GoesTo(s, {"readYarn"})
    BY <1>6, ReadClothEffect
  <2>. QED BY <1>0, <1>6, <2>1, ChatsMove DEF ReadCloth
<1>7. CASE ReadYarn(s)
  <2>1. GoesTo(s, {"query"})
    BY <1>7, ReadYarnEffect
  <2>. QED BY <1>0, <1>7, <2>1, ChatsMove DEF ReadYarn
<1>8. CASE Query(s)
  <2>1. GoesTo(s, {"found", "error"})
    BY <1>8, QueryEffect
  <2>2. At(s, "query") /\ UNCHANGED <<chat, failed>>
    BY <1>8 DEF Query
  <2>3. \A t \in Tool : chat[s][t] = "ok"
    BY <1>0, <2>2
  <2>. QED BY <2>1, <2>2, <2>3, ChatsMove
<1>9. CASE Compare(s)
  <2>1. GoesTo(s, {"user", "render", "error"})
    BY <1>9, GotoEffect DEF Compare, GoesTo, Stage
  <2>. QED BY <1>0, <1>9, <2>1, ChatsMove DEF Compare
<1>10. CASE GetUser(s)
  <2>1. GoesTo(s, {"save", "render"})
    BY <1>10, GotoEffect DEF GetUser, GoesTo, Stage
  <2>. QED BY <1>0, <1>10, <2>1, ChatsMove DEF GetUser
<1>11. CASE CreateUserSearch(s)
  <2>1. GoesTo(s, {"saveResults", "error"})
    BY <1>11, GotoEffect DEF CreateUserSearch, GoesTo, Stage
  <2>. QED BY <1>0, <1>11, <2>1, ChatsMove DEF CreateUserSearch
<1>12. CASE CreateSearchResult(s)
  <2>1. CASE KeepOne(s)
    <3>1. /\ search[s].kept < search[s].posts /\ At(s, "saveResults")
          /\ UNCHANGED <<chat, failed>>
      BY <1>12 DEF CreateSearchResult
    <3>2. \A q \in Search : search'[q].at = search[q].at
      BY <2>1, <3>1, KeepOneEffect
    <3>. QED BY <3>1, <3>2 DEF ChatsFollow
  <2>2. CASE Goto(s, "error")
    <3>1. GoesTo(s, {"error"})
      BY <2>2, GotoEffect DEF Stage
    <3>. QED BY <1>0, <1>12, <3>1, ChatsMove DEF CreateSearchResult
  <2>. QED BY <1>12, <2>1, <2>2 DEF CreateSearchResult
<1>13. CASE Respond(s)
  <2>1. GoesTo(s, {"page", "error"})
    BY <1>13, GotoEffect DEF Respond, GoesTo, Stage
  <2>. QED BY <1>0, <1>13, <2>1, ChatsMove DEF Respond, SavedAll
<1>. QED BY <1>1, <1>2, <1>3, <1>4, <1>5, <1>6, <1>7, <1>8, <1>9, <1>10,
            <1>11, <1>12, <1>13 DEF Handler

\* A chat that has returned stays as it is.
LEMMA ChatEffect ==
    ASSUME TypeOK, NEW s \in Search, NEW t \in Tool, Chat(s, t)
    PROVE  /\ search' = search
           /\ chat[s][t] \in {"asking", "calling"}
           /\ chat'[s][t] \in {"calling", "ok", "failed"}
           /\ chat'[s][t] = "failed" => failed' = [failed EXCEPT ![t] = TRUE]
           /\ chat'[s][t] # "failed" => failed' = failed
           /\ \A other \in Search, by \in Tool :
                 other # s \/ by # t => chat'[other][by] = chat[other][by]
  BY DEF Chat, ToolCall, ChatReturns, ChatFails, TypeOK, table

LEMMA ChatsWaitedFor ==
    ASSUME TypeOK, ChatsFollow, NEW s \in Search, NEW t \in Tool, Chat(s, t)
    PROVE  At(s, "wait")
  BY ChatEffect DEF ChatsFollow, ChatsAt, At

LEMMA ChatChats ==
    ASSUME TypeOK, ChatsFollow, NEW s \in Search, NEW t \in Tool, Chat(s, t)
    PROVE  ChatsFollow'
<1>1. \A by \in Tool : failed[by] => failed'[by]
  <2>1. failed' = failed \/ failed' = [failed EXCEPT ![t] = TRUE]
    BY ChatEffect
  <2>. QED BY <2>1 DEF TypeOK
<1>2. ASSUME NEW q \in Search, q # s PROVE ChatsAt(q, search[q].at)'
  <2>1. ChatsAt(q, search[q].at)
    BY DEF ChatsFollow
  <2>2. search' = search /\ \A by \in Tool : chat'[q][by] = chat[q][by]
    BY <1>2, ChatEffect
  <2>. QED BY <1>1, <2>1, <2>2 DEF ChatsAt
<1>3. ChatsAt(s, search[s].at)'
  <2>1. ChatsAt(s, search[s].at) /\ search' = search
    BY ChatEffect DEF ChatsFollow
  <2>2. \A by \in Tool : /\ chat[s][by] # "none" => chat'[s][by] # "none"
                         /\ chat'[s][by] = "failed" =>
                              chat[s][by] = "failed" \/ failed'[by]
    <3>1. \A by \in Tool : by # t => chat'[s][by] = chat[s][by]
      BY ChatEffect
    <3>2. chat'[s][t] # "none"
      BY ChatEffect
    <3>3. chat'[s][t] = "failed" => failed'[t]
      BY ChatEffect DEF TypeOK
    <3>. QED BY <3>1, <3>2, <3>3
  <2>3. At(s, "wait")
    BY ChatsWaitedFor
  <2>. QED BY <1>1, <2>1, <2>2, <2>3
           DEF ChatsAt, At, BeforeChats, Reading, WithPosts
<1>. QED BY <1>2, <1>3 DEF ChatsFollow

LEMMA RestartChats ==
    ASSUME TypeOK, ChatsFollow, Restart
    PROVE  ChatsFollow'
<1>. SUFFICES ASSUME NEW s \in Search PROVE ChatsAt(s, search[s].at)'
  BY DEF ChatsFollow
<1>1. ChatsAt(s, search[s].at)
  BY DEF ChatsFollow
<1>2. \A t \in Tool : chat[s][t] \in {"none", "ok"} => chat'[s][t] = chat[s][t]
  BY DEF Restart, TypeOK
<1>3. CASE Running(s)
  <2>1. \A t \in Tool : chat'[s][t] \in {"none", "ok", "failed"}
    BY DEF Restart, TypeOK, ChatState
  <2>. QED BY <1>3, <2>1, RestartEffect
           DEF ChatsAt, BeforeChats, Reading, WithPosts
<1>4. CASE ~Running(s)
  <2>1. search'[s].at \in {"new", "page", "error", "gone"}
    BY <1>4, RestartEffect DEF Running, Over, Answered
  <2>2. \A t \in Tool : chat'[s][t] \in {"none", "ok", "failed"}
    BY DEF Restart, TypeOK, ChatState
  <2>. QED BY <1>1, <1>2, <1>4, <2>1, <2>2, RestartEffect
           DEF ChatsAt, BeforeChats, Reading, WithPosts
<1>. QED BY <1>3, <1>4

LEMMA ChatsInductive == TypeOK /\ ChatsFollow /\ [Next]_vars => ChatsFollow'
<1>. SUFFICES ASSUME TypeOK, ChatsFollow, [Next]_vars PROVE ChatsFollow'
  OBVIOUS
<1>1. CASE HomePage \/ (\E u \in User : DeleteUser(u)) \/ UNCHANGED vars
  <2>1. UNCHANGED <<search, chat, failed>>
    BY <1>1 DEF HomePage, DeleteUser, vars, table
  <2>. QED BY <2>1 DEF ChatsFollow, ChatsAt
<1>. QED BY <1>1, HandlerChats, ChatChats, RestartChats DEF Next

\* A page of guessed posts is only sent when both chats of its own search
\* succeeded: CheckForErr (imageClasify.go) never misses an error of its own,
\* whatever the other searches store over it.
THEOREM GuessedPages == Spec => []GuessedPageHadBothChats
<1>1. Init => ChatsFollow
  BY InitIInv DEF IInv
<1>2. ChatsFollow => GuessedPageHadBothChats
  <2>. SUFFICES ASSUME ChatsFollow, NEW s \in Search, Guessed(s), At(s, "page")
                PROVE  \A t \in Tool : chat[s][t] = "ok"
    BY DEF GuessedPageHadBothChats
  <2>1. ChatsAt(s, "page")
    BY DEF ChatsFollow, At
  <2>. QED BY <2>1 DEF ChatsAt, WithPosts, Guessed, Tool
<1>. QED BY <1>1, <1>2, ChatsInductive, TypeCorrect, PTL DEF Spec

-----------------------------------------------------------------------------
(* The history follows the handler *)

\* A search that goes on without a row of its own.
LEMMA UnsavedMove ==
    ASSUME TypeOK, HistoryFollows, NEW s \in Search, NEW stages,
           GoesTo(s, stages), UNCHANGED saved, history[s] = Nobody,
           ~At(s, "saveResults")
    PROVE  HistoryFollows'
<1>1. search'[s].kept = 0
  BY DEF HistoryFollows, GoesTo
<1>. QED BY <1>1 DEF HistoryFollows, GoesTo, At, saved

LEMMA HandlerHistory ==
    ASSUME TypeOK, HistoryFollows, NEW s \in Search, Handler(s)
    PROVE  HistoryFollows'
<1>0. search[s].at \in Unsaved => history[s] = Nobody
  BY DEF HistoryFollows
<1>1. CASE Start(s)
  <2>1. At(s, "new") /\ UNCHANGED saved
    BY <1>1 DEF Start
  <2>. QED BY <1>0, <1>1, <2>1, StartEffect, UnsavedMove
           DEF Unsaved, BeforeChats, At
<1>2. CASE Resolve(s)
  <2>1. At(s, "resolve") /\ UNCHANGED saved
    BY <1>2 DEF Resolve
  <2>2. GoesTo(s, {"lookup", "error"})
    BY <1>2, GotoEffect DEF Resolve, GoesTo, Stage
  <2>. QED BY <1>0, <2>1, <2>2, UnsavedMove DEF Unsaved, BeforeChats, At
<1>3. CASE Lookup(s)
  <2>1. At(s, "lookup") /\ UNCHANGED saved
    BY <1>3 DEF Lookup
  <2>. QED BY <1>0, <1>3, <2>1, LookupEffect, UnsavedMove
           DEF Unsaved, BeforeChats, At
<1>4. CASE Fetch(s)
  <2>1. At(s, "fetch") /\ UNCHANGED saved
    BY <1>4 DEF Fetch
  <2>2. GoesTo(s, {"wait", "error"})
    BY <1>4, GotoEffect DEF Fetch, GoesTo, Stage
  <2>. QED BY <1>0, <2>1, <2>2, UnsavedMove DEF Unsaved, BeforeChats, At
<1>5. CASE Wait(s)
  <2>1. At(s, "wait") /\ UNCHANGED saved
    BY <1>5 DEF Wait
  <2>2. GoesTo(s, {"readCloth", "error"})
    BY <1>5, GotoEffect DEF Wait, GoesTo, Stage
  <2>. QED BY <1>0, <2>1, <2>2, UnsavedMove DEF Unsaved, At
<1>6. CASE ReadCloth(s)
  <2>1. At(s, "readCloth") /\ UNCHANGED saved
    BY <1>6 DEF ReadCloth
  <2>. QED BY <1>0, <1>6, <2>1, ReadClothEffect, UnsavedMove
           DEF Unsaved, Reading, At
<1>7. CASE ReadYarn(s)
  <2>1. At(s, "readYarn") /\ UNCHANGED saved
    BY <1>7 DEF ReadYarn
  <2>. QED BY <1>0, <1>7, <2>1, ReadYarnEffect, UnsavedMove
           DEF Unsaved, Reading, At
<1>8. CASE Query(s)
  <2>1. At(s, "query") /\ UNCHANGED saved
    BY <1>8 DEF Query
  <2>. QED BY <1>0, <1>8, <2>1, QueryEffect, UnsavedMove
           DEF Unsaved, Reading, At
<1>9. CASE Compare(s)
  <2>1. At(s, "found") /\ UNCHANGED saved
    BY <1>9 DEF Compare
  <2>2. GoesTo(s, {"user", "render", "error"})
    BY <1>9, GotoEffect DEF Compare, GoesTo, Stage
  <2>. QED BY <1>0, <2>1, <2>2, UnsavedMove DEF Unsaved, At
<1>10. CASE GetUser(s)
  <2>1. At(s, "user") /\ UNCHANGED saved
    BY <1>10 DEF GetUser
  <2>2. GoesTo(s, {"save", "render"})
    BY <1>10, GotoEffect DEF GetUser, GoesTo, Stage
  <2>. QED BY <1>0, <2>1, <2>2, UnsavedMove DEF Unsaved, At
<1>11. CASE CreateUserSearch(s)
  <2>0. history[s] = Nobody
    BY <1>0, <1>11 DEF CreateUserSearch, Unsaved, At
  <2>1. CASE Goto(s, "error") /\ UNCHANGED history
    <3>1. GoesTo(s, {"error"})
      BY <2>1, GotoEffect DEF Stage
    <3>2. UNCHANGED saved
      BY <1>11, <2>1 DEF CreateUserSearch, saved
    <3>. QED BY <1>11, <2>0, <3>1, <3>2, UnsavedMove DEF CreateUserSearch, At
  <2>2. CASE /\ search[s].user \in users
             /\ history' = [history EXCEPT ![s] = search[s].user]
             /\ Goto(s, "saveResults")
    <3>0. results[s] = 0
      BY <2>0 DEF HistoryFollows, TypeOK
    <3>1. GoesTo(s, {"saveResults"}) /\ search'[s].kept = 0
      BY <2>2, GotoEffect DEF Stage
    <3>2. /\ history'[s] \in users /\ history'[s] # Nobody
          /\ \A other \in Search : other # s => history'[other] = history[other]
      BY <2>2, ConstantsAssumption DEF TypeOK
    <3>3. UNCHANGED <<users, results>>
      BY <1>11 DEF CreateUserSearch
    <3>. QED BY <3>0, <3>1, <3>2, <3>3
             DEF HistoryFollows, GoesTo, At, Unsaved, BeforeChats, Reading
  <2>. QED BY <1>11, <2>1, <2>2 DEF CreateUserSearch
<1>12. CASE CreateSearchResult(s)
  <2>0. At(s, "saveResults") /\ UNCHANGED <<users, history>>
    BY <1>12 DEF CreateSearchResult
  <2>1. CASE Goto(s, "error") /\ UNCHANGED results
    <3>1. GoesTo(s, {"error"}) /\ search'[s].kept = 0
      BY <2>1, GotoEffect DEF Stage
    <3>. QED BY <2>0, <2>1, <3>1
             DEF HistoryFollows, GoesTo, At, Unsaved, BeforeChats, Reading
  <2>2. CASE /\ history[s] # Nobody
             /\ results' = [results EXCEPT ![s] = @ + 1]
             /\ KeepOne(s)
    <3>1. /\ results'[s] = results[s] + 1
          /\ \A other \in Search : other # s => results'[other] = results[other]
      BY <2>2 DEF TypeOK
    <3>2. /\ search'[s].at = "saveResults"
          /\ search'[s].kept = search[s].kept + 1
          /\ \A other \in Search : other # s => search'[other] = search[other]
      BY <1>12, <2>0, <2>2, KeepOneEffect DEF CreateSearchResult, At
    <3>3. history[s] # Nobody /\ results[s] = search[s].kept
      BY <2>0, <2>2 DEF HistoryFollows
    <3>. QED BY <2>0, <3>1, <3>2, <3>3
             DEF HistoryFollows, At, Unsaved, BeforeChats, Reading
  <2>. QED BY <1>12, <2>1, <2>2 DEF CreateSearchResult
<1>13. CASE Respond(s)
  <2>0. UNCHANGED saved
    BY <1>13 DEF Respond
  <2>1. /\ GoesTo(s, {"page", "error"}) /\ search'[s].posts = search[s].posts
        /\ search'[s].kept = 0
    BY <1>13, GotoEffect DEF Respond, GoesTo, Stage
  <2>2. CASE At(s, "render")
    BY <1>0, <2>0, <2>1, <2>2, UnsavedMove DEF Unsaved, At
  <2>3. CASE At(s, "saveResults") /\ search[s].kept = search[s].posts
    <3>1. history[s] # Nobody => results[s] = search[s].posts
      BY <2>3 DEF HistoryFollows
    <3>. QED BY <2>0, <2>1, <2>3, <3>1
       DEF HistoryFollows, GoesTo, At, Unsaved, BeforeChats, Reading, saved
  <2>. QED BY <1>13, <2>2, <2>3 DEF Respond, SavedAll
<1>. QED BY <1>1, <1>2, <1>3, <1>4, <1>5, <1>6, <1>7, <1>8, <1>9, <1>10,
            <1>11, <1>12, <1>13 DEF Handler

LEMMA HistoryInductive == TypeOK /\ HistoryFollows /\ [Next]_vars => HistoryFollows'
<1>. SUFFICES ASSUME TypeOK, HistoryFollows, [Next]_vars PROVE HistoryFollows'
  OBVIOUS
<1>1. ASSUME NEW s \in Search, NEW t \in Tool, Chat(s, t) PROVE HistoryFollows'
  <2>1. UNCHANGED <<search, users, history, results>>
    BY <1>1, ChatEffect DEF Chat, ToolCall, ChatReturns, ChatFails, saved
  <2>. QED BY <2>1 DEF HistoryFollows, At
<1>2. ASSUME NEW u \in User, DeleteUser(u) PROVE HistoryFollows'
  <2>1. /\ search' = search /\ users' = users \ {u}
        /\ \A s \in Search :
              /\ history[s] = u => history'[s] = Nobody /\ results'[s] = 0
              /\ history[s] # u => /\ history'[s] = history[s]
                                   /\ results'[s] = results[s]
    BY <1>2 DEF DeleteUser
  <2>. QED BY <2>1 DEF HistoryFollows, At
<1>3. CASE Restart
  <2>1. UNCHANGED <<users, history, results>>
    BY <1>3 DEF Restart, saved
  <2>2. \A s \in Search :
          \/ search'[s].at = "gone" /\ search'[s].kept = 0
          \/ search'[s] = search[s]
    BY <1>3, RestartEffect
  <2>. QED BY <2>1, <2>2
           DEF HistoryFollows, At, Unsaved, BeforeChats, Reading
<1>4. CASE HomePage \/ UNCHANGED vars
  BY <1>4 DEF HomePage, vars, saved, HistoryFollows, At
<1>. QED BY <1>1, <1>2, <1>3, <1>4, HandlerHistory DEF Next

\* A page that was sent is kept whole, or not at all
\* (MiddleWareGetRavelLink, patterns.go 133-184).
THEOREM KeptWhole == Spec => []KeptSearchIsWhole
<1>1. Init => HistoryFollows
  BY InitIInv DEF IInv
<1>2. HistoryFollows => KeptSearchIsWhole
  BY DEF HistoryFollows, KeptSearchIsWhole
<1>. QED BY <1>1, <1>2, HistoryInductive, TypeCorrect, PTL DEF Spec

\* No row outlives its account or its search (the foreign keys of
\* schema/006_user_searches.sql and 007_user_search_update.sql).
THEOREM NoOrphans == Spec => []NoOrphanedHistory
<1>1. Init => HistoryFollows
  BY InitIInv DEF IInv
<1>2. HistoryFollows => NoOrphanedHistory
  BY DEF HistoryFollows, NoOrphanedHistory
<1>. QED BY <1>1, <1>2, HistoryInductive, TypeCorrect, PTL DEF Spec

-----------------------------------------------------------------------------
(* The guesses follow the table *)

Quiet(s) ==
    \/ Start(s) \/ Resolve(s) \/ Lookup(s) \/ Query(s) \/ Compare(s)
    \/ GetUser(s) \/ CreateUserSearch(s) \/ CreateSearchResult(s) \/ Respond(s)

\* The other steps of the handler neither touch the table nor read it.
LEMMA QuietEffect ==
    ASSUME TypeOK, NEW s \in Search, Quiet(s)
    PROVE  /\ UNCHANGED <<chat, output>>
           /\ \A other \in Search : other # s => search'[other] = search[other]
           /\ search'[s].at \notin {"wait"} \cup Reading
           /\ search'[s].at = "found" => search[s].at \in {"lookup", "query"}
<1>. USE DEF Reading, At, table
<1>1. CASE Start(s)
  BY <1>1, StartEffect DEF Start, GoesTo
<1>2. CASE Resolve(s)
  BY <1>2, GotoEffect DEF Resolve, GoesTo, Stage
<1>3. CASE Lookup(s)
  <2>1. At(s, "lookup") /\ UNCHANGED <<chat, output>>
    BY <1>3 DEF Lookup
  <2>. QED BY <1>3, <2>1, LookupEffect DEF GoesTo
<1>4. CASE Query(s)
  <2>1. At(s, "query") /\ UNCHANGED <<chat, output>>
    BY <1>4 DEF Query
  <2>. QED BY <1>4, <2>1, QueryEffect DEF GoesTo
<1>5. CASE Compare(s)
  BY <1>5, GotoEffect DEF Compare, GoesTo, Stage
<1>6. CASE GetUser(s)
  BY <1>6, GotoEffect DEF GetUser, GoesTo, Stage
<1>7. CASE CreateUserSearch(s)
  BY <1>7, GotoEffect DEF CreateUserSearch, GoesTo, Stage
<1>8. CASE CreateSearchResult(s)
  BY <1>8, GotoEffect, KeepOneEffect DEF CreateSearchResult, GoesTo, Stage
<1>9. CASE Respond(s)
  BY <1>9, GotoEffect DEF Respond, GoesTo, Stage
<1>. QED BY <1>1, <1>2, <1>3, <1>4, <1>5, <1>6, <1>7, <1>8, <1>9 DEF Quiet

LEMMA FetchEffect ==
    ASSUME TypeOK, NEW s \in Search, Fetch(s)
    PROVE  /\ GoesTo(s, {"wait", "error"}) /\ output' = output
           /\ \A other \in Search : other # s => chat'[other] = chat[other]
           /\ search'[s].at = "wait" => \A t \in Tool : chat'[s][t] = "asking"
<1>1. GoesTo(s, {"wait", "error"}) /\ output' = output
  BY GotoEffect DEF Fetch, GoesTo, Stage, table
<1>2. CASE Goto(s, "error") /\ UNCHANGED chat
  BY <1>1, <1>2, GotoEffect DEF GoesTo, Stage
<1>3. CASE chat' = [chat EXCEPT ![s] = [t \in Tool |-> "asking"]]
  BY <1>1, <1>3 DEF TypeOK
<1>. QED BY <1>2, <1>3 DEF Fetch

LEMMA WaitEffect ==
    ASSUME TypeOK, NEW s \in Search, Wait(s)
    PROVE  /\ GoesTo(s, {"readCloth", "error"}) /\ At(s, "wait")
           /\ UNCHANGED <<chat, output>>
  BY GotoEffect DEF Wait, GoesTo, Stage, table

LEMMA HandlerLabelled ==
    ASSUME TypeOK, ChatsFollow, Labelled, NEW s \in Search, Handler(s)
    PROVE  Labelled'
<1>0. ChatsAt(s, search[s].at)
  BY DEF ChatsFollow
<1>1. CASE Quiet(s)
  BY <1>1, QuietEffect DEF Labelled, At, Reading
<1>2. CASE Fetch(s)
  BY <1>2, FetchEffect DEF Labelled, At, Reading, GoesTo
<1>3. CASE Wait(s)
  BY <1>3, WaitEffect DEF Labelled, At, Reading, GoesTo
<1>4. CASE ReadCloth(s)
  <2>1. At(s, "readCloth") /\ UNCHANGED <<chat, output>>
    BY <1>4 DEF ReadCloth, table
  <2>2. s \notin OffTool => output["cloth"] # Empty
    BY <1>0, <2>1 DEF ChatsAt, Labelled, At, Reading, Tool
  <2>3. /\ GoesTo(s, {"readYarn"})
        /\ s \notin OffTool => search'[s].cloth # Empty
    BY <1>4, <2>2, ReadClothEffect, ConstantsAssumption DEF Reads
  <2>. QED BY <2>1, <2>3 DEF Labelled, At, Reading, GoesTo
<1>5. CASE ReadYarn(s)
  <2>1. At(s, "readYarn") /\ UNCHANGED <<chat, output>>
    BY <1>5 DEF ReadYarn, table
  <2>2. s \notin OffTool => output["yarn"] # Empty
    BY <1>0, <2>1 DEF ChatsAt, Labelled, At, Reading, Tool
  <2>3. /\ GoesTo(s, {"query"}) /\ search'[s].cloth = search[s].cloth
        /\ s \notin OffTool => search'[s].yarn # Empty
    BY <1>5, <2>2, ReadYarnEffect, ConstantsAssumption DEF Reads
  <2>. QED BY <2>1, <2>3 DEF Labelled, At, Reading, GoesTo
<1>. QED BY <1>1, <1>2, <1>3, <1>4, <1>5 DEF Handler, Quiet

\* A chat writes guesses of its own search, or a mixture with what another one
\* writes there; and if it calls only its own tool, only the entry of that.
LEMMA ChatWrites ==
    ASSUME TypeOK, NEW s \in Search, NEW t \in Tool, Chat(s, t)
    PROVE  /\ \A by \in Tool : output'[by] \in {output[by], s, Torn}
           /\ ~ToolCall(s, t) => output' = output
           /\ s \notin OffTool /\ ToolCall(s, t) =>
                 /\ \A by \in Tool : by # t => output'[by] = output[by]
                 /\ \/ output'[t] = s
                    \/ /\ output'[t] = Torn
                       /\ \E other \in Search \ {s}, by \in Tool :
                              chat[other][by] = "calling"
           /\ ToolCall(s, t) => chat'[s][t] = "calling"
           /\ chat'[s][t] = "ok" => chat[s][t] = "calling" /\ output' = output
           /\ UNCHANGED <<search, status>>
<1>1. CASE ToolCall(s, t)
  <2>1. CanCall(s, t) \subseteq Tool /\ (s \notin OffTool => CanCall(s, t) = {t})
    BY DEF CanCall
  <2>2. chat'[s][t] = "calling" /\ UNCHANGED <<search, status>>
    BY <1>1 DEF ToolCall, TypeOK
  <2>3. PICK called \in CanCall(s, t) :
          \/ output' = [output EXCEPT ![called] = s]
          \/ /\ \E other \in Search, by \in Tool :
                   <<other, by>> # <<s, t>> /\ Assigns(other, by, called)
             /\ output' = [output EXCEPT ![called] = Torn]
    BY <1>1 DEF ToolCall
  <2>4. CASE output' = [output EXCEPT ![called] = s]
    BY <1>1, <2>1, <2>2, <2>4 DEF TypeOK
  <2>5. ASSUME NEW other \in Search, NEW by \in Tool,
               <<other, by>> # <<s, t>>, Assigns(other, by, called),
               s \notin OffTool
        PROVE  other # s /\ chat[other][by] = "calling"
    BY <2>1, <2>5 DEF Assigns, CanCall
  <2>6. CASE /\ \E other \in Search, by \in Tool :
                   <<other, by>> # <<s, t>> /\ Assigns(other, by, called)
             /\ output' = [output EXCEPT ![called] = Torn]
    <3>1. s \notin OffTool => \E other \in Search \ {s}, by \in Tool :
                                 chat[other][by] = "calling"
      BY <2>5, <2>6
    <3>. QED BY <1>1, <2>1, <2>2, <2>6, <3>1 DEF TypeOK
  <2>. QED BY <2>3, <2>4, <2>6
<1>2. CASE ChatReturns(s, t) \/ ChatFails(s, t)
  <2>1. UNCHANGED <<output, search, status>>
    BY <1>2 DEF ChatReturns, ChatFails, table
  <2>2. chat'[s][t] = "ok" => chat[s][t] = "calling"
    BY <1>2 DEF ChatReturns, ChatFails, TypeOK
  <2>3. chat'[s][t] # "calling"
    BY <1>2 DEF ChatReturns, ChatFails, TypeOK
  <2>4. ~ToolCall(s, t)
    BY <2>3 DEF ToolCall, TypeOK
  <2>. QED BY <2>1, <2>2, <2>4
<1>. QED BY <1>1, <1>2 DEF Chat

LEMMA ChatLabelled ==
    ASSUME TypeOK, ChatsFollow, Labelled,
           NEW s \in Search, NEW t \in Tool, Chat(s, t)
    PROVE  Labelled'
<1>0. At(s, "wait") /\ s # Empty /\ Torn # Empty
  BY ChatsWaitedFor, ConstantsAssumption
<1>1. search' = search
  BY ChatEffect
<1>2. \A by \in Tool : output[by] # Empty => output'[by] # Empty
  BY <1>0, ChatWrites
<1>3. ASSUME s \notin OffTool, chat'[s][t] \in {"calling", "ok"}
      PROVE  output'[t] # Empty
  <2>1. CASE ToolCall(s, t)
    BY <1>0, <1>3, <2>1, ChatWrites
  <2>2. CASE ~ToolCall(s, t)
    <3>1. chat[s][t] = "calling"
      BY <1>3, <2>2, ChatEffect, ChatWrites DEF Chat, ChatFails, ChatReturns, TypeOK
    <3>. QED BY <1>0, <1>2, <1>3, <3>1 DEF Labelled, At
  <2>. QED BY <2>1, <2>2
<1>4. \A q \in Search, by \in Tool :
         q # s \/ by # t => chat'[q][by] = chat[q][by]
  BY ChatEffect
<1>. QED BY <1>1, <1>2, <1>3, <1>4 DEF Labelled, At

LEMMA LabelledInductive ==
    ASSUME TypeOK, ChatsFollow, Labelled, [Next]_vars
    PROVE  Labelled'
<1>1. CASE HomePage \/ (\E u \in User : DeleteUser(u)) \/ UNCHANGED vars
  <2>1. UNCHANGED <<search, chat, output>>
    BY <1>1 DEF HomePage, DeleteUser, vars, table
  <2>. QED BY <2>1 DEF Labelled, At
<1>2. CASE Restart
  <2>1. \A s \in Search :
          search'[s].at \in {"new", "page", "error", "gone"}
    BY <1>2, RestartEffect DEF Running, Over, Answered
  <2>. QED BY <2>1 DEF Labelled, At, Reading
<1>. QED BY <1>1, <1>2, HandlerLabelled, ChatLabelled DEF Next

\* A search whose chats call only the tool they were offered never searches
\* Ravelry for an empty string, whatever the others' chats do: a chat that calls
\* no tool is an error (imageClasify.go 302-381), and nothing clears the table.
THEOREM QueriesLabelled == Spec => []QueryIsLabelled
<1>. DEFINE Inv == TypeOK /\ ChatsFollow /\ Labelled
<1>1. Init => Inv
  BY InitIInv DEF IInv
<1>2. Inv /\ [Next]_vars => Inv'
  BY TypeInductive, ChatsInductive, LabelledInductive
<1>3. Inv => QueryIsLabelled
  BY DEF Labelled, QueryIsLabelled, At
<1>. QED BY <1>1, <1>2, <1>3, PTL DEF Spec

-----------------------------------------------------------------------------
(* A search on its own *)

LEMMA RunningMove ==
    ASSUME OneRunning, NEW s \in Search,
           \A other \in Search : other # s => search'[other] = search[other],
           Running(s) \/ \A other \in Search : ~Running(other)
    PROVE  OneRunning'
  BY DEF OneRunning, Running

LEMMA HandlerRunning ==
    ASSUME TypeOK, ~Overlap, OneRunning, NEW s \in Search, Handler(s)
    PROVE  OneRunning'
<1>1. \A other \in Search : other # s => search'[other] = search[other]
  BY QuietEffect, FetchEffect, WaitEffect, ReadClothEffect, ReadYarnEffect
     DEF Handler, Quiet, GoesTo
<1>2. CASE Start(s)
  BY <1>1, <1>2, RunningMove DEF Start
<1>3. CASE ~Start(s)
  <2>1. Running(s)
    BY <1>3 DEF Handler, Resolve, Lookup, Fetch, Wait, ReadCloth, ReadYarn,
                Query, Compare, GetUser, CreateUserSearch, CreateSearchResult,
                Respond, SavedAll, At, Running, Over, Answered
  <2>. QED BY <1>1, <2>1, RunningMove
<1>. QED BY <1>2, <1>3

\* It reads what its own chats have written.
LEMMA ReadsOwn ==
    ASSUME ChatsFollow, OneRunning, NEW s \in Search, NEW t \in Tool, NEW guess,
           Running(s), ~At(s, "wait"), output[t] = s, Reads(s, t, guess)
    PROVE  guess = s
<1>. SUFFICES ASSUME NEW other \in Search \ {s}, NEW by \in Tool,
                     chat[other][by] = "calling"
              PROVE  FALSE
  BY DEF Reads, Assigns
<1>1. At(other, "wait")
  BY DEF ChatsFollow, ChatsAt, At
<1>. QED BY <1>1 DEF OneRunning, Running, Over, Answered, At

LEMMA HandlerTable ==
    ASSUME TypeOK, ChatsFollow, OneRunning, OwnTable,
           NEW s \in Search, Handler(s)
    PROVE  OwnTable'
<1>0. ChatsAt(s, search[s].at)
  BY DEF ChatsFollow
<1>1. CASE Quiet(s)
  <2>1. /\ UNCHANGED <<chat, output>>
        /\ \A other \in Search : other # s => search'[other] = search[other]
        /\ search'[s].at \notin {"wait"} \cup Reading
        /\ search'[s].at = "found" => search[s].at \in {"lookup", "query"}
    BY <1>1, QuietEffect
  <2>2. s \notin OffTool /\ search'[s].at = "found" => \A t \in Tool :
          chat[s][t] \in {"calling", "ok"} => output[t] = s
    BY <1>0, <2>1 DEF ChatsAt, BeforeChats, Reading, OwnTable
  <2>. QED BY <2>1, <2>2 DEF OwnTable, At, Reading
<1>2. CASE Fetch(s)
  BY <1>2, FetchEffect DEF OwnTable, At, Reading, GoesTo
<1>3. CASE Wait(s)
  BY <1>3, WaitEffect DEF OwnTable, At, Reading, GoesTo
<1>4. CASE ReadCloth(s)
  <2>1. At(s, "readCloth") /\ UNCHANGED <<chat, output>>
    BY <1>4 DEF ReadCloth, table
  <2>2. s \notin OffTool => output["cloth"] = s
    BY <1>0, <2>1 DEF ChatsAt, OwnTable, At, Reading, Tool
  <2>3. GoesTo(s, {"readYarn"}) /\ Reads(s, "cloth", search'[s].cloth)
    BY <1>4, ReadClothEffect
  <2>4. s \notin OffTool => search'[s].cloth = s
    BY <2>1, <2>2, <2>3, ReadsOwn DEF Running, At, Over, Answered, Tool
  <2>. QED BY <2>1, <2>3, <2>4 DEF OwnTable, At, Reading, GoesTo
<1>5. CASE ReadYarn(s)
  <2>1. At(s, "readYarn") /\ UNCHANGED <<chat, output>>
    BY <1>5 DEF ReadYarn, table
  <2>2. s \notin OffTool => output["yarn"] = s
    BY <1>0, <2>1 DEF ChatsAt, OwnTable, At, Reading, Tool
  <2>3. /\ GoesTo(s, {"query"}) /\ Reads(s, "yarn", search'[s].yarn)
        /\ search'[s].cloth = search[s].cloth
    BY <1>5, ReadYarnEffect
  <2>4. s \notin OffTool => search'[s].yarn = s
    BY <2>1, <2>2, <2>3, ReadsOwn DEF Running, At, Over, Answered, Tool
  <2>. QED BY <2>1, <2>3, <2>4 DEF OwnTable, At, Reading, GoesTo
<1>. QED BY <1>1, <1>2, <1>3, <1>4, <1>5 DEF Handler, Quiet

LEMMA ChatTable ==
    ASSUME TypeOK, ChatsFollow, OneRunning, OwnTable,
           NEW s \in Search, NEW t \in Tool, Chat(s, t)
    PROVE  OwnTable'
<1>0. At(s, "wait") /\ search' = search
  BY ChatsWaitedFor, ChatEffect
<1>1. \A q \in Search : q # s => search[q].at \notin {"wait", "found"} \cup Reading
  BY <1>0 DEF OneRunning, Running, Over, Answered, At, Reading
<1>4. CASE s \in OffTool
  BY <1>0, <1>1, <1>4, ChatEffect DEF OwnTable, At
<1>5. SUFFICES ASSUME s \notin OffTool PROVE OwnTable'
  BY <1>4
<1>2. \A by \in Tool : by # t => chat'[s][by] = chat[s][by] /\ output'[by] = output[by]
  BY <1>5, ChatEffect, ChatWrites
<1>6. \A other \in Search \ {s}, by \in Tool : chat[other][by] # "calling"
  <2>. SUFFICES ASSUME NEW other \in Search \ {s}, NEW by \in Tool,
                       chat[other][by] = "calling"
                PROVE  FALSE
    OBVIOUS
  <2>1. At(other, "wait")
    BY DEF ChatsFollow, ChatsAt, At
  <2>. QED BY <1>1, <2>1 DEF At
<1>3. ASSUME chat'[s][t] \in {"calling", "ok"} PROVE output'[t] = s
  <2>1. CASE ToolCall(s, t)
    BY <1>5, <1>6, <2>1, ChatWrites
  <2>2. CASE ~ToolCall(s, t)
    <3>1. chat[s][t] = "calling"
      BY <1>3, <2>2, ChatEffect, ChatWrites DEF Chat, ChatFails, ChatReturns, TypeOK
    <3>2. output'[t] = output[t]
      BY <1>5, <2>2, ChatWrites
    <3>. QED BY <1>0, <1>5, <3>1, <3>2 DEF OwnTable, At
  <2>. QED BY <2>1, <2>2
<1>. QED BY <1>0, <1>1, <1>2, <1>3 DEF OwnTable, At, Reading

Settled == {"user", "save", "saveResults", "render"} \cup Over

\* The board is written while the posts are looked for and when they are found.
LEMMA HandlerStatus ==
    ASSUME TypeOK, ChatsFollow, OneRunning, OwnTable, OwnStatus,
           NEW s \in Search, Handler(s)
    PROVE  OwnStatus'
<1>. DEFINE Names(q) == status.shows = "comparing" /\ status.of = q
<1>0. \A q \in Search \ OffTool : Names(q) =>
          /\ search[q].at \in Settled
          /\ Guessed(q) => status.cloth = q /\ status.yarn = q
  BY DEF OwnStatus, Settled
<1>1. \A q \in Search : q # s => search'[q] = search[q] /\ chat'[q] = chat[q]
  BY QuietEffect, FetchEffect, WaitEffect, ReadClothEffect, ReadYarnEffect
     DEF Handler, Quiet, GoesTo, ReadCloth, ReadYarn
<1>2. CASE search[s].at \in Settled
  <2>1. \/ GetUser(s) \/ CreateUserSearch(s) \/ CreateSearchResult(s)
        \/ Respond(s)
    BY <1>2 DEF Handler, Start, Resolve, Lookup, Fetch, Wait, ReadCloth,
                ReadYarn, Query, Compare, At, Settled, Over, Answered
  <2>2. status' = status /\ chat' = chat
    BY <2>1 DEF GetUser, CreateUserSearch, CreateSearchResult, Respond
  <2>3. search'[s].at \in Settled
    <3>1. CASE GetUser(s)
      BY <3>1, GotoEffect DEF GetUser, GoesTo, Stage, Settled
    <3>2. CASE CreateUserSearch(s)
      BY <3>2, GotoEffect
         DEF CreateUserSearch, GoesTo, Stage, Settled, Over, Answered
    <3>3. CASE CreateSearchResult(s)
      BY <1>2, <3>3, GotoEffect, KeepOneEffect
         DEF CreateSearchResult, GoesTo, Stage, Settled, Over, Answered
    <3>4. CASE Respond(s)
      BY <3>4, GotoEffect DEF Respond, GoesTo, Stage, Settled, Over, Answered
    <3>. QED BY <2>1, <3>1, <3>2, <3>3, <3>4
  <2>. QED BY <1>0, <1>1, <2>2, <2>3 DEF OwnStatus, Guessed, Settled
<1>3. CASE search[s].at \notin Settled /\ ~Compare(s)
  <2>1. s \notin OffTool => ~Names(s)
    BY <1>0, <1>3
  <2>2. status' = status \/ status'.shows # "comparing"
    <3>1. CASE Resolve(s) \/ Lookup(s)
      <4>1. \/ UNCHANGED status
            \/ UpdatStatus(s, Shows("looking"))
            \/ UpdatStatus(s, Shows("guessing"))
        BY <3>1 DEF Resolve, Lookup
      <4>. QED BY <4>1 DEF UpdatStatus, Shows
    <3>2. CASE ~(Resolve(s) \/ Lookup(s))
      BY <1>3, <3>2 DEF Handler, Start, Fetch, Wait, ReadCloth, ReadYarn,
                        Query, GetUser, CreateUserSearch, CreateSearchResult,
                        Respond
    <3>. QED BY <3>1, <3>2
  <2>. QED BY <1>0, <1>1, <2>1, <2>2 DEF OwnStatus, Guessed, Settled
<1>4. CASE Compare(s)
  <2>1. /\ At(s, "found") /\ chat' = chat
        /\ search'[s].at \in {"user", "render", "error"}
    BY <1>4, GotoEffect DEF Compare, GoesTo, Stage
  <2>2. PICK cloth \in Guess, yarn \in Guess :
          /\ Reads(s, "cloth", cloth) /\ Reads(s, "yarn", yarn)
          /\ \/ UpdatStatus(s, [shows |-> "comparing", of |-> s,
                                cloth |-> cloth, yarn |-> yarn])
             \/ UNCHANGED status
    BY <1>4 DEF Compare
  <2>3. s \notin OffTool /\ Guessed(s) => cloth = s /\ yarn = s
    <3>. SUFFICES ASSUME s \notin OffTool, Guessed(s) PROVE cloth = s /\ yarn = s
      OBVIOUS
    <3>1. \A t \in Tool : chat[s][t] = "ok"
      BY <2>1 DEF ChatsFollow, ChatsAt, At, WithPosts, Guessed, Tool
    <3>2. \A t \in Tool : output[t] = s
      BY <2>1, <3>1 DEF OwnTable, At
    <3>3. Running(s) /\ ~At(s, "wait")
      BY <2>1 DEF Running, At, Over, Answered
    <3>. QED BY <2>2, <3>2, <3>3, ReadsOwn DEF Tool
  <2>4. s \notin OffTool => ~Names(s)
    BY <1>0, <2>1 DEF At, Settled, Over, Answered
  <2>5. CASE status' = status
    BY <1>0, <1>1, <2>4, <2>5 DEF OwnStatus, Guessed, Settled
  <2>6. CASE status' = [shows |-> "comparing", of |-> s,
                        cloth |-> cloth, yarn |-> yarn]
    BY <1>1, <2>1, <2>3, <2>6 DEF OwnStatus, Guessed, Over, Answered
  <2>. QED BY <2>2, <2>5, <2>6 DEF UpdatStatus
<1>. QED BY <1>2, <1>3, <1>4

LEMMA ChatStatus ==
    ASSUME TypeOK, ChatsFollow, OwnStatus,
           NEW s \in Search, NEW t \in Tool, Chat(s, t)
    PROVE  OwnStatus'
<1>1. At(s, "wait") /\ UNCHANGED <<search, status>>
  BY ChatsWaitedFor, ChatWrites
<1>2. \A q \in Search : q # s => chat'[q]["yarn"] = chat[q]["yarn"]
  BY ChatEffect DEF Tool
<1>. QED BY <1>1, <1>2 DEF OwnStatus, Guessed, At, Over, Answered

LEMMA OwnInductive ==
    ASSUME ~Overlap, TypeOK, ChatsFollow, [Next]_vars,
           OneRunning, OwnTable, OwnStatus
    PROVE  OneRunning' /\ OwnTable' /\ OwnStatus'
<1>1. ASSUME NEW s \in Search, NEW t \in Tool, Chat(s, t)
      PROVE  OneRunning' /\ OwnTable' /\ OwnStatus'
  <2>1. OneRunning'
    BY <1>1, ChatEffect DEF OneRunning, Running
  <2>. QED BY <1>1, <2>1, ChatTable, ChatStatus
<1>2. CASE HomePage \/ (\E u \in User : DeleteUser(u)) \/ UNCHANGED vars
  <2>1. /\ UNCHANGED <<search, chat, output>>
        /\ status' = status \/ status'.shows # "comparing"
    BY <1>2 DEF HomePage, DeleteUser, vars, table, Shows
  <2>. QED BY <2>1 DEF OneRunning, Running, OwnTable, OwnStatus, Guessed, At
<1>3. CASE Restart
  <2>1. \A s \in Search : search'[s].at \in {"new", "page", "error", "gone"}
    BY <1>3, RestartEffect DEF Running, Over, Answered
  <2>2. status'.shows # "comparing"
    BY <1>3 DEF Restart, Shows
  <2>. QED BY <2>1, <2>2 DEF OneRunning, Running, OwnTable, OwnStatus, At,
                             Over, Answered, Reading
<1>. QED BY <1>1, <1>2, <1>3, HandlerRunning, HandlerTable, HandlerStatus
         DEF Next

\* While searches come one at a time, one whose chats call the tools they were
\* offered uses the guesses about its own image, though the response table is
\* never cleared (imageClasify.go 212-240).
THEOREM GuessesAreOwn == ~Overlap => (Spec => []OwnGuesses)
<1>. SUFFICES ASSUME ~Overlap PROVE Spec => []OwnGuesses
  OBVIOUS
<1>. DEFINE Inv == TypeOK /\ ChatsFollow /\ OneRunning /\ OwnTable /\ OwnStatus
<1>1. Init => Inv
  BY InitIInv DEF IInv
<1>2. Inv /\ [Next]_vars => Inv'
  BY TypeInductive, ChatsInductive, OwnInductive
<1>3. Inv => OwnGuesses
  BY DEF OwnTable, OwnStatus, OwnGuesses, At
<1>. QED BY <1>1, <1>2, <1>3, PTL DEF Spec

-----------------------------------------------------------------------------
(* The history and the status board, as their pages show them *)

\* The browser's cookies were read when the search started.
LEMMA KeepsCookies ==
    ASSUME TypeOK, NEW s \in Search, Handler(s), ~At(s, "new")
    PROVE  /\ search'[s].cookie => search[s].cookie
           /\ search'[s].user = search[s].user
<1>. DEFINE Kept(q) == /\ q.cookie => search[s].cookie
                       /\ q.user = search[s].user
<1>1. ASSUME NEW stage \in Stage, Goto(s, stage) PROVE Kept(search'[s])
  BY <1>1, GotoEffect
<1>2. ASSUME NEW n,
             search' = [search EXCEPT ![s] = [@ EXCEPT !.at = "found", !.posts = n]]
      PROVE  Kept(search'[s])
  <2>. PICK q \in SearchState : q = search[s]
    BY DEF TypeOK
  <2>1. search'[s] = [q EXCEPT !.at = "found", !.posts = n]
    BY <1>2 DEF TypeOK
  <2>. QED BY <2>1 DEF SearchState
<1>3. ASSUME NEW guess,
             \/ search' = [search EXCEPT ![s] =
                             [@ EXCEPT !.at = "readYarn", !.cloth = guess]]
             \/ search' = [search EXCEPT ![s] =
                             [@ EXCEPT !.at = "query", !.yarn = guess]]
      PROVE  Kept(search'[s])
  <2>. PICK q \in SearchState : q = search[s]
    BY DEF TypeOK
  <2>1. \/ search'[s] = [q EXCEPT !.at = "readYarn", !.cloth = guess]
        \/ search'[s] = [q EXCEPT !.at = "query", !.yarn = guess]
    BY <1>3 DEF TypeOK
  <2>. QED BY <2>1 DEF SearchState
<1>4. ASSUME NEW n,
             \/ search' = [search EXCEPT ![s] =
                             [@ EXCEPT !.at = "found", !.posts = n,
                                       !.cloth = Empty, !.yarn = Empty]]
             \/ search' = [search EXCEPT ![s] =
                             [Moved(search[s], "error") EXCEPT
                                !.cloth = Empty, !.yarn = Empty]]
      PROVE  Kept(search'[s])
  <2>. PICK q \in SearchState : q = search[s]
    BY DEF TypeOK
  <2>. PICK p \in SearchState :
         p = Moved(q, "error") /\ (p.cookie => q.cookie) /\ p.user = q.user
    BY MovedType DEF Stage
  <2>1. \/ search'[s] = [q EXCEPT !.at = "found", !.posts = n,
                                  !.cloth = Empty, !.yarn = Empty]
        \/ search'[s] = [p EXCEPT !.cloth = Empty, !.yarn = Empty]
    BY <1>4 DEF TypeOK
  <2>. QED BY <2>1 DEF SearchState
<1>5. CASE Lookup(s)
  BY <1>1, <1>2, <1>5 DEF Lookup, Stage
<1>6. CASE ReadCloth(s) \/ ReadYarn(s)
  BY <1>3, <1>6 DEF ReadCloth, ReadYarn
<1>7. CASE Query(s)
  BY <1>4, <1>7 DEF Query
<1>8. CASE \/ Resolve(s) \/ Fetch(s) \/ Wait(s) \/ Compare(s) \/ GetUser(s)
           \/ CreateUserSearch(s) \/ Respond(s)
  <2>1. \E stage \in Stage : Goto(s, stage)
    BY <1>8 DEF Resolve, Fetch, Wait, Compare, GetUser, CreateUserSearch,
                Respond, Stage
  <2>. QED BY <1>1, <2>1
<1>9. CASE CreateSearchResult(s)
  <2>1. (KeepOne(s) /\ search[s].kept < search[s].posts) \/ Goto(s, "error")
    BY <1>9 DEF CreateSearchResult
  <2>. QED BY <1>1, <2>1, KeepOneEffect DEF Stage
<1>. QED BY <1>5, <1>6, <1>7, <1>8, <1>9 DEF Handler, Start

\* A handler's step changes no search but its own.
LEMMA OthersStay ==
    ASSUME TypeOK, NEW s \in Search, Handler(s)
    PROVE  \A other \in Search : other # s => search'[other] = search[other]
  BY QuietEffect, FetchEffect, WaitEffect, ReadClothEffect, ReadYarnEffect
     DEF Handler, Quiet, GoesTo, ReadCloth, ReadYarn

LEMMA PollInductive == TypeOK /\ ShownStatusStays /\ [Next]_vars => ShownStatusStays'
<1>. SUFFICES ASSUME TypeOK, ShownStatusStays, [Next]_vars PROVE ShownStatusStays'
  OBVIOUS
<1>. USE DEF ShownStatusStays, SSEHandler, Running, At
<1>1. ASSUME NEW s \in Search, Handler(s) PROVE ShownStatusStays'
  <2>1. status' = status \/ status'.shows # "nothing"
    <3>1. CASE Resolve(s) \/ Lookup(s)
      <4>1. \/ UNCHANGED status
            \/ UpdatStatus(s, Shows("looking"))
            \/ UpdatStatus(s, Shows("guessing"))
        BY <3>1 DEF Resolve, Lookup
      <4>. QED BY <4>1 DEF UpdatStatus, Shows
    <3>2. CASE Compare(s)
      <4>1. \/ UNCHANGED status
            \/ \E cloth, yarn \in Guess :
                 UpdatStatus(s, [shows |-> "comparing", of |-> s,
                                 cloth |-> cloth, yarn |-> yarn])
        BY <3>2 DEF Compare
      <4>. QED BY <4>1 DEF UpdatStatus
    <3>3. CASE ~(Resolve(s) \/ Lookup(s) \/ Compare(s))
      BY <1>1, <3>3 DEF Handler, Start, Fetch, Wait, ReadCloth, ReadYarn,
                        Query, GetUser, CreateUserSearch, CreateSearchResult,
                        Respond
    <3>. QED BY <3>1, <3>2, <3>3
  <2>2. CASE Start(s)
    BY <1>1, <2>1, <2>2, StartEffect, OthersStay DEF GoesTo, Over, Answered
  <2>3. CASE Resolve(s)
    <3>1. /\ At(s, "resolve") /\ (search'[s].cookie => search[s].cookie)
          /\ \/ Goto(s, "error")
             \/ UpdatStatus(s, Shows("looking"))
      BY <1>1, <2>3, KeepsCookies DEF Resolve
    <3>2. CASE Goto(s, "error")
      BY <1>1, <2>1, <3>2, GotoEffect, OthersStay DEF GoesTo, Stage, Over, Answered
    <3>3. CASE UpdatStatus(s, Shows("looking"))
      BY <1>1, <2>1, <3>1, <3>3, OthersStay DEF UpdatStatus, Shows
    <3>. QED BY <3>1, <3>2, <3>3
  <2>4. CASE ~(Start(s) \/ Resolve(s))
    <3>1. ~At(s, "new") /\ ~At(s, "resolve") /\ Running(s)
      BY <1>1, <2>4 DEF Handler, Lookup, Fetch, Wait, ReadCloth, ReadYarn, Query,
                        Compare, GetUser, CreateUserSearch, CreateSearchResult,
                        Respond, SavedAll, Over, Answered
    <3>2. search'[s].cookie => search[s].cookie
      BY <1>1, <3>1, KeepsCookies
    <3>. QED BY <1>1, <2>1, <3>1, <3>2, OthersStay
  <2>. QED BY <2>2, <2>3, <2>4
<1>2. CASE Restart
  <2>1. \A s \in Search : search'[s].at \in {"new", "page", "error", "gone"}
    BY <1>2, RestartEffect DEF Over, Answered
  <2>. QED BY <2>1 DEF Over, Answered
<1>3. CASE HomePage \/ (\E u \in User : DeleteUser(u)) \/ UNCHANGED vars
  <2>1. UNCHANGED search /\ (status' = status \/ status'.shows # "nothing")
    BY <1>3 DEF HomePage, DeleteUser, vars, Shows
  <2>. QED BY <2>1
<1>4. ASSUME NEW s \in Search, NEW t \in Tool, Chat(s, t) PROVE ShownStatusStays'
  <2>1. UNCHANGED <<search, status>>
    BY <1>4 DEF Chat, ToolCall, ChatReturns, ChatFails
  <2>. QED BY <2>1
<1>. QED BY <1>1, <1>2, <1>3, <1>4 DEF Next

\* Whoever polls after the first status of their search and before its answer
\* finds one, though every browser shares the one entry (handlers.go 223-255,
\* logging.go 27-48).
THEOREM StatusStays == Spec => []ShownStatusStays
<1>1. Init => ShownStatusStays
  <2>. SUFFICES ASSUME Init PROVE \A s \in Search : ~Running(s)
    BY DEF ShownStatusStays
  <2>. QED BY NewSearchType DEF Init, Running
<1>. QED BY <1>1, PollInductive, TypeCorrect, PTL DEF Spec

\* The rows of a search stay, and only become more, until its account goes.
LEMMA RowsStay ==
    ASSUME TypeOK, HistoryFollows, [Next]_vars,
           NEW u \in users \cap users', NEW s \in Search, history[s] = u
    PROVE  history'[s] = u /\ results[s] <= results'[s]
<1>0. u \in User /\ u # Nobody /\ results[s] \in Nat
  BY ConstantsAssumption DEF TypeOK
<1>1. ASSUME NEW q \in Search, Handler(q)
      PROVE  history'[s] = u /\ results[s] <= results'[s]
  <2>1. CASE CreateUserSearch(q)
    <3>1. history[q] = Nobody /\ results' = results
      BY <2>1 DEF CreateUserSearch, HistoryFollows, Unsaved, At
    <3>2. history' = history \/ history' = [history EXCEPT ![q] = search[q].user]
      BY <2>1 DEF CreateUserSearch
    <3>. QED BY <1>0, <3>1, <3>2 DEF TypeOK
  <2>2. CASE CreateSearchResult(q)
    <3>1. history' = history
      BY <2>2 DEF CreateSearchResult
    <3>2. results' = results \/ results' = [results EXCEPT ![q] = @ + 1]
      BY <2>2 DEF CreateSearchResult
    <3>. QED BY <1>0, <3>1, <3>2 DEF TypeOK
  <2>3. CASE ~(CreateUserSearch(q) \/ CreateSearchResult(q))
    <3>1. UNCHANGED <<history, results>>
      BY <1>1, <2>3 DEF Handler, Start, Resolve, Lookup, Fetch, Wait, ReadCloth,
                        ReadYarn, Query, Compare, GetUser, Respond, saved
    <3>. QED BY <1>0, <3>1
  <2>. QED BY <2>1, <2>2, <2>3
<1>2. ASSUME NEW gone \in User, DeleteUser(gone)
      PROVE  history'[s] = u /\ results[s] <= results'[s]
  BY <1>0, <1>2 DEF DeleteUser
<1>3. CASE HomePage \/ Restart \/ UNCHANGED vars
  BY <1>0, <1>3 DEF HomePage, Restart, vars, saved
<1>4. ASSUME NEW q \in Search, NEW t \in Tool, Chat(q, t)
      PROVE  history'[s] = u /\ results[s] <= results'[s]
  BY <1>0, <1>4 DEF Chat, ToolCall, ChatReturns, ChatFails, saved
<1>. QED BY <1>1, <1>2, <1>3, <1>4 DEF Next

\* The history page of an account that stands never loses a search, nor a result
\* of one (history.go 12-93).
THEOREM HistoryGrows == Spec => HistoryOnlyGrows
<1>. DEFINE Grows ==
       \A u \in users \cap users' :
          /\ HandlerUserSearches(u) \subseteq HandlerUserSearches(u)'
          /\ \A s \in HandlerUserSearches(u) :
                 HandlerUserSearchResult(s) <= HandlerUserSearchResult(s)'
<1>1. Init => HistoryFollows
  BY InitIInv DEF IInv
<1>2. TypeOK /\ HistoryFollows /\ [Next]_vars => [Grows]_vars
  <2>. SUFFICES ASSUME TypeOK, HistoryFollows, [Next]_vars PROVE Grows
    OBVIOUS
  <2>. SUFFICES ASSUME NEW u \in users \cap users', NEW s \in HandlerUserSearches(u)
                PROVE  /\ s \in HandlerUserSearches(u)'
                       /\ HandlerUserSearchResult(s) <= HandlerUserSearchResult(s)'
    OBVIOUS
  <2>1. u # Nobody
    BY ConstantsAssumption DEF TypeOK
  <2>2. s \in Search /\ history[s] = u
    BY <2>1 DEF HandlerUserSearches, GetUserSearches
  <2>3. history'[s] = u /\ results[s] <= results'[s]
    BY <2>2, RowsStay
  <2>. QED BY <2>1, <2>2, <2>3
           DEF HandlerUserSearches, GetUserSearches, HandlerUserSearchResult
<1>. QED BY <1>1, <1>2, HistoryInductive, TypeCorrect, PTL
         DEF Spec, HistoryOnlyGrows

-----------------------------------------------------------------------------
(* While no statement fails, every page is kept *)

\* An account that still exists was found, and its search was inserted.
PageFollows ==
    \A s \in Search : search[s].user \in users =>
        /\ ~At(s, "render")
        /\ At(s, "saveResults") \/ At(s, "page") => history[s] = search[s].user

LEMMA HandlerPage ==
    ASSUME ~Faults, TypeOK, HistoryFollows, PageFollows,
           NEW s \in Search, Handler(s)
    PROVE  PageFollows'
<1>. USE DEF PageFollows, At
<1>0. users' = users /\ users \subseteq User /\ Nobody \notin users
  BY ConstantsAssumption
     DEF Handler, Start, Resolve, Lookup, Fetch, Wait, ReadCloth, ReadYarn, Query,
         Compare, GetUser, CreateUserSearch, CreateSearchResult, Respond, saved,
         TypeOK
<1>1. \A q \in Search \ {s} : search'[q] = search[q]
  BY OthersStay
<1>2. \A q \in Search \ {s} : history'[q] = history[q]
  BY DEF Handler, Start, Resolve, Lookup, Fetch, Wait, ReadCloth, ReadYarn, Query,
         Compare, GetUser, CreateUserSearch, CreateSearchResult, Respond, saved,
         TypeOK
<1>3. CASE search'[s].at \notin {"render", "saveResults", "page"}
  BY <1>0, <1>1, <1>2, <1>3
<1>4. CASE search'[s].at \in {"render", "saveResults", "page"}
  <2>1. \/ Compare(s) \/ GetUser(s) \/ CreateUserSearch(s)
        \/ CreateSearchResult(s) \/ Respond(s)
    <3>1. ~Start(s)
      BY <1>4, StartEffect DEF GoesTo
    <3>2. ~(Resolve(s) \/ Fetch(s) \/ Wait(s))
      BY <1>4, GotoEffect DEF Resolve, Fetch, Wait, GoesTo, Stage
    <3>3. ~(Lookup(s) \/ ReadCloth(s) \/ ReadYarn(s) \/ Query(s))
      BY <1>4, LookupEffect, ReadClothEffect, ReadYarnEffect, QueryEffect DEF GoesTo
    <3>. QED BY <3>1, <3>2, <3>3 DEF Handler
  <2>2. search'[s].user = search[s].user
    BY <2>1, KeepsCookies
       DEF Compare, GetUser, CreateUserSearch, CreateSearchResult, Respond, SavedAll
  <2>3. CASE Compare(s)
    <3>1. \/ search[s].user = Nobody
          \/ Goto(s, "user") \/ Goto(s, "error")
      BY <2>3 DEF Compare
    <3>2. search[s].user = Nobody
      BY <1>4, <3>1, GotoEffect DEF GoesTo, Stage
    <3>. QED BY <1>0, <1>1, <1>2, <2>2, <3>2
  <2>4. CASE GetUser(s)
    <3>1. search[s].user \notin users \/ Goto(s, "save")
      BY <2>4 DEF GetUser
    <3>2. search[s].user \notin users
      BY <1>4, <3>1, GotoEffect DEF GoesTo, Stage
    <3>. QED BY <1>0, <1>1, <1>2, <2>2, <3>2
  <2>5. CASE CreateUserSearch(s)
    <3>1. \/ history' = [history EXCEPT ![s] = search[s].user] /\ Goto(s, "saveResults")
          \/ Goto(s, "error")
      BY <2>5 DEF CreateUserSearch
    <3>2. /\ history'[s] = search[s].user
          /\ search'[s].at = "saveResults"
      BY <1>4, <3>1, GotoEffect DEF GoesTo, Stage, TypeOK
    <3>. QED BY <1>0, <1>1, <1>2, <2>2, <3>2
  <2>6. CASE CreateSearchResult(s)
    <3>1. (KeepOne(s) /\ search[s].kept < search[s].posts) \/ Goto(s, "error")
      BY <2>6 DEF CreateSearchResult
    <3>2. ~Goto(s, "error")
      BY <1>4, GotoEffect DEF GoesTo, Stage
    <3>3. search'[s].at = search[s].at
      BY <3>1, <3>2, KeepOneEffect
    <3>. QED BY <1>0, <1>1, <1>2, <2>2, <2>6, <3>3 DEF CreateSearchResult
  <2>7. CASE Respond(s)
    <3>1. /\ search'[s].at \in {"page", "error"} /\ UNCHANGED history
          /\ At(s, "render") \/ At(s, "saveResults")
      BY <2>7, GotoEffect DEF Respond, SavedAll, saved, GoesTo, Stage
    <3>. QED BY <1>0, <1>1, <2>2, <3>1
  <2>. QED BY <2>1, <2>3, <2>4, <2>5, <2>6, <2>7
<1>. QED BY <1>3, <1>4

LEMMA PageInductive ==
    ASSUME ~Faults, TypeOK, HistoryFollows, PageFollows, [Next]_vars
    PROVE  PageFollows'
<1>. USE DEF PageFollows, At
<1>1. ASSUME NEW u \in User, DeleteUser(u) PROVE PageFollows'
  <2>1. /\ search' = search /\ users' = users \ {u}
        /\ \A s \in Search : history[s] # u => history'[s] = history[s]
    BY <1>1 DEF DeleteUser
  <2>. QED BY <2>1
<1>2. CASE Restart
  <2>1. UNCHANGED <<users, history>>
    BY <1>2 DEF Restart, saved
  <2>2. \A s \in Search : search'[s].at = "gone" \/ search'[s] = search[s]
    BY <1>2, RestartEffect
  <2>. QED BY <2>1, <2>2
<1>3. CASE HomePage \/ UNCHANGED vars
  BY <1>3 DEF HomePage, vars, saved
<1>4. ASSUME NEW s \in Search, NEW t \in Tool, Chat(s, t) PROVE PageFollows'
  <2>1. UNCHANGED <<search, users, history>>
    BY <1>4 DEF Chat, ToolCall, ChatReturns, ChatFails, saved
  <2>. QED BY <2>1
<1>. QED BY <1>1, <1>2, <1>3, <1>4, HandlerPage DEF Next

\* While statements do not fail, every page that was sent is in the history of
\* whoever asked for it and still has an account (patterns.go 131-184).
THEOREM PagesKept == ~Faults => (Spec => []PageIsInHistory)
<1>. SUFFICES ASSUME ~Faults PROVE Spec => []PageIsInHistory
  OBVIOUS
<1>. DEFINE Inv == TypeOK /\ HistoryFollows /\ PageFollows
<1>1. Init => Inv
  <2>1. Init => PageFollows
    BY NewSearchType DEF Init, PageFollows, At
  <2>. QED BY <2>1, InitIInv DEF IInv
<1>2. Inv /\ [Next]_vars => Inv'
  BY TypeInductive, HistoryInductive, PageInductive
<1>3. Inv => PageIsInHistory
  <2>1. TypeOK => Nobody \notin users
    BY ConstantsAssumption DEF TypeOK
  <2>. QED BY <2>1 DEF PageFollows, HistoryFollows, PageIsInHistory, At
<1>. QED BY <1>1, <1>2, <1>3, PTL DEF Spec


-----------------------------------------------------------------------------
(* LinkSearch implements SearchHistory *)

\* The searches, as SearchHistory sees them.
Phases == [s \in Search |-> Phase[search[s].at]]
Owners == [s \in Search |-> search[s].user]
Pages == [s \in Search |-> search[s].posts]
Wrote == [s \in Search |-> search[s].kept]

LEMMA PhaseValues ==
    /\ Phase["new"] = "new"
    /\ \A stage \in {"resolve", "lookup", "fetch", "wait", "readCloth",
                     "readYarn", "query"} : Phase[stage] = "asked"
    /\ \A stage \in {"found", "user", "save"} : Phase[stage] = "found"
    /\ Phase["saveResults"] = "recorded"
    /\ Phase["render"] = "unrecorded"
    /\ Phase["page"] = "shown"
    /\ Phase["error"] = "lost" /\ Phase["gone"] = "lost"
  BY DEF Phase, Stage

\* When one search goes on, it alone does.
LEMMA OneMoves ==
    ASSUME NEW s \in Search,
           \A other \in Search : other # s => search'[other] = search[other]
    PROVE  /\ Phases' = [Phases EXCEPT ![s] = Phase[search'[s].at]]
           /\ Owners' = [Owners EXCEPT ![s] = search'[s].user]
           /\ Pages' = [Pages EXCEPT ![s] = search'[s].posts]
           /\ Wrote' = [Wrote EXCEPT ![s] = search'[s].kept]
           /\ search'[s].user = search[s].user => Owners' = Owners
           /\ search'[s].posts = search[s].posts => Pages' = Pages
           /\ search'[s].kept = search[s].kept => Wrote' = Wrote
  BY DEF Phases, Owners, Pages, Wrote

\* The loop's index is 0 outside the loop.
LEMMA WroteNothing ==
    ASSUME TypeOK, HistoryFollows, NEW s \in Search, Handler(s)
    PROVE  /\ ~At(s, "saveResults") => search[s].kept = 0
           /\ search'[s].at # "saveResults" => search'[s].kept = 0
  BY HandlerHistory DEF HistoryFollows, At

\* A step within a phase, or one that ends the search without a page.
LEMMA MoveImplements ==
    ASSUME NEW s \in Search,
           \A other \in Search : other # s => search'[other] = search[other],
           search'[s].user = search[s].user, search'[s].posts = search[s].posts,
           UNCHANGED saved, search'[s].kept = 0,
           \/ /\ Phase[search'[s].at] = Phase[search[s].at]
              /\ search[s].kept = 0
           \/ /\ Phase[search'[s].at] = "lost"
              /\ Phase[search[s].at] \notin {"shown", "lost"}
    PROVE  [History!Next]_History!vars
<1>1. Owners' = Owners /\ Pages' = Pages
  BY OneMoves
<1>2. CASE Phase[search'[s].at] = Phase[search[s].at] /\ search[s].kept = 0
  <2>1. Phases' = Phases /\ Wrote' = Wrote
    BY <1>2, OneMoves DEF Phases
  <2>. QED BY <1>1, <2>1 DEF History!vars, Phases, Owners, Pages, Wrote, saved
<1>3. CASE /\ Phase[search'[s].at] = "lost"
           /\ Phase[search[s].at] \notin {"shown", "lost"}
  <2>1. Wrote' = [q \in Search |-> IF q \in {s} THEN 0 ELSE Wrote[q]]
    BY OneMoves DEF Wrote
  <2>2. Phases' = [q \in Search |-> IF q \in {s} THEN "lost" ELSE Phases[q]]
    BY <1>3, OneMoves DEF Phases
  <2>3. History!Lose({s})
    BY <1>1, <1>3, <2>1, <2>2
       DEF History!Lose, Phases, Owners, Pages, Wrote, saved
  <2>. QED BY <2>3 DEF History!Next
<1>. QED BY <1>2, <1>3

LEMMA StartImplements ==
    ASSUME TypeOK, HistoryFollows, NEW s \in Search, Start(s)
    PROVE  [History!Next]_History!vars
<1>1. At(s, "new") /\ UNCHANGED saved
  BY DEF Start
<1>2. ASSUME NEW cookie \in BOOLEAN, NEW user \in User \cup {Nobody},
             search' = [search EXCEPT ![s] =
                          [@ EXCEPT !.at = "resolve", !.cookie = cookie,
                                    !.user = user]]
      PROVE  [History!Next]_History!vars
  <2>. PICK q \in SearchState : q = search[s]
    BY DEF TypeOK
  <2>. PICK p : p = [q EXCEPT !.at = "resolve", !.cookie = cookie, !.user = user]
    OBVIOUS
  <2>1. /\ p \in SearchState /\ p.at = "resolve" /\ p.user = user
        /\ p.posts = q.posts /\ p.kept = q.kept
    BY DEF SearchState, Stage
  <2>2. Becomes(s, p)
    BY <1>2, <2>1, AssignSearch
  <2>3. /\ Phases' = [Phases EXCEPT ![s] = "asked"]
        /\ Owners' = [Owners EXCEPT ![s] = user] /\ Pages' = Pages
        /\ Wrote' = Wrote
    <3>1. /\ search'[s] = p /\ p.posts = search[s].posts
          /\ p.kept = search[s].kept
          /\ \A other \in Search : other # s => search'[other] = search[other]
      BY <2>1, <2>2 DEF Becomes
    <3>2. Phase[p.at] = "asked"
      BY <2>1, PhaseValues
    <3>3. /\ Phases' = [Phases EXCEPT ![s] = Phase[search'[s].at]]
          /\ Owners' = [Owners EXCEPT ![s] = search'[s].user]
          /\ search'[s].posts = search[s].posts => Pages' = Pages
          /\ search'[s].kept = search[s].kept => Wrote' = Wrote
      BY <3>1, OneMoves
    <3>. QED BY <2>1, <3>1, <3>2, <3>3
  <2>4. History!Ask(s)
    BY <1>1, <2>3, PhaseValues
       DEF History!Ask, History!Moves, Phases, Owners, Pages, Wrote, saved, At
  <2>. QED BY <2>4 DEF History!Next
<1>3. CASE Goto(s, "error")
  <2>1. /\ GoesTo(s, {"error"}) /\ search'[s].posts = search[s].posts
        /\ search'[s].user = search[s].user /\ search'[s].kept = 0
    BY <1>3, GotoEffect DEF Stage
  <2>. QED BY <1>1, <2>1, MoveImplements, PhaseValues DEF GoesTo, At
<1>. QED BY <1>2, <1>3 DEF Start

\* The posts of a search are known only when it has found them.
LEMMA KeepsPosts ==
    ASSUME TypeOK, NEW s \in Search, Handler(s), ~At(s, "new"),
           search'[s].at # "found"
    PROVE  search'[s].posts = search[s].posts
<1>. PICK q \in SearchState : q = search[s]
  BY DEF TypeOK
<1>1. ASSUME NEW stage \in Stage, Goto(s, stage)
      PROVE  search'[s].posts = search[s].posts
  BY <1>1, GotoEffect
<1>2. CASE Lookup(s) \/ Query(s)
  <2>1. ASSUME NEW n,
               search' = [search EXCEPT ![s] = [@ EXCEPT !.at = "found", !.posts = n]]
        PROVE  FALSE
    <3>1. search'[s] = [q EXCEPT !.at = "found", !.posts = n]
      BY <2>1 DEF TypeOK
    <3>. QED BY <3>1 DEF SearchState
  <2>2. ASSUME NEW n,
               search' = [search EXCEPT ![s] =
                            [@ EXCEPT !.at = "found", !.posts = n,
                                      !.cloth = Empty, !.yarn = Empty]]
        PROVE  FALSE
    <3>1. search'[s] = [q EXCEPT !.at = "found", !.posts = n,
                                 !.cloth = Empty, !.yarn = Empty]
      BY <2>2 DEF TypeOK
    <3>. QED BY <3>1 DEF SearchState
  <2>3. ASSUME search' = [search EXCEPT ![s] =
                            [Moved(search[s], "error") EXCEPT
                               !.cloth = Empty, !.yarn = Empty]]
        PROVE  search'[s].posts = search[s].posts
    <3>. PICK p \in SearchState : p = Moved(q, "error") /\ p.posts = q.posts
      BY MovedType DEF Stage
    <3>1. search'[s] = [p EXCEPT !.cloth = Empty, !.yarn = Empty]
      BY <2>3 DEF TypeOK
    <3>. QED BY <3>1 DEF SearchState
  <2>4. CASE Lookup(s)
    BY <1>1, <2>1, <2>4 DEF Lookup, Stage
  <2>. QED BY <1>2, <2>2, <2>3, <2>4 DEF Query
<1>3. CASE ReadCloth(s) \/ ReadYarn(s)
  <2>1. PICK guess :
          \/ search' = [search EXCEPT ![s] =
                          [@ EXCEPT !.at = "readYarn", !.cloth = guess]]
          \/ search' = [search EXCEPT ![s] =
                          [@ EXCEPT !.at = "query", !.yarn = guess]]
    BY <1>3 DEF ReadCloth, ReadYarn
  <2>2. \/ search'[s] = [q EXCEPT !.at = "readYarn", !.cloth = guess]
        \/ search'[s] = [q EXCEPT !.at = "query", !.yarn = guess]
    BY <2>1 DEF TypeOK
  <2>. QED BY <2>2 DEF SearchState
<1>4. CASE \/ Resolve(s) \/ Fetch(s) \/ Wait(s) \/ Compare(s) \/ GetUser(s)
           \/ CreateUserSearch(s) \/ Respond(s)
  <2>1. \E stage \in Stage : Goto(s, stage)
    BY <1>4 DEF Resolve, Fetch, Wait, Compare, GetUser, CreateUserSearch,
                Respond, Stage
  <2>. QED BY <1>1, <2>1
<1>5. CASE CreateSearchResult(s)
  <2>1. (KeepOne(s) /\ search[s].kept < search[s].posts) \/ Goto(s, "error")
    BY <1>5 DEF CreateSearchResult
  <2>. QED BY <1>1, <2>1, KeepOneEffect DEF Stage
<1>. QED BY <1>2, <1>3, <1>4, <1>5 DEF Handler, Start

\* The posts are found in the index, or by way of the model and Ravelry.
LEMMA FindImplements ==
    ASSUME TypeOK, HistoryFollows, NEW s \in Search, Lookup(s) \/ Query(s)
    PROVE  [History!Next]_History!vars
<1>1. /\ Handler(s) /\ ~At(s, "new") /\ UNCHANGED saved
      /\ Phase[search[s].at] = "asked"
  BY PhaseValues DEF Lookup, Query, Handler, At
<1>6. /\ search[s].kept = 0
      /\ search'[s].at # "saveResults" => search'[s].kept = 0
  BY <1>1, WroteNothing DEF Lookup, Query, At
<1>2. /\ \A other \in Search : other # s => search'[other] = search[other]
      /\ search'[s].user = search[s].user
  BY <1>1, OthersStay, KeepsCookies
<1>3. GoesTo(s, {"found", "fetch", "error"})
  BY LookupEffect, QueryEffect DEF GoesTo
<1>4. CASE search'[s].at = "found"
  <2>1. search'[s].posts \in 0 .. PostAmount + 1
    BY <1>3 DEF GoesTo, SearchState
  <2>2. Phase[search'[s].at] = "found"
    BY <1>4, PhaseValues
  <2>3. /\ Phases' = [Phases EXCEPT ![s] = "found"] /\ Owners' = Owners
        /\ Pages' = [Pages EXCEPT ![s] = search'[s].posts] /\ Wrote' = Wrote
    BY <1>2, <1>4, <1>6, <2>2, OneMoves
  <2>4. Phases[s] = "asked"
    BY <1>1 DEF Phases
  <2>5. History!Find(s)
    BY <1>1, <2>1, <2>3, <2>4
       DEF History!Find, History!Moves, Phases, Owners, Pages, Wrote, saved
  <2>. QED BY <2>5 DEF History!Next
<1>5. CASE search'[s].at # "found"
  <2>1. search'[s].posts = search[s].posts
    BY <1>1, <1>5, KeepsPosts
  <2>2. /\ Phase[search'[s].at] \in {"asked", "lost"}
        /\ search'[s].at # "saveResults"
    BY <1>3, <1>5, PhaseValues DEF GoesTo
  <2>. QED BY <1>1, <1>2, <1>6, <2>1, <2>2, MoveImplements
<1>. QED BY <1>4, <1>5

\* Nobody to keep the search for: the handler goes on to the page.
LEMMA SkipImplements ==
    ASSUME TypeOK, HistoryFollows, NEW s \in Search, Compare(s) \/ GetUser(s)
    PROVE  [History!Next]_History!vars
<1>1. /\ Handler(s) /\ ~At(s, "new") /\ UNCHANGED saved
      /\ Phase[search[s].at] = "found"
  BY PhaseValues DEF Compare, GetUser, Handler, At
<1>7. /\ search[s].kept = 0
      /\ search'[s].at # "saveResults" => search'[s].kept = 0
  BY <1>1, WroteNothing DEF Compare, GetUser, At
<1>2. /\ \A other \in Search : other # s => search'[other] = search[other]
      /\ search'[s].user = search[s].user
  BY <1>1, OthersStay, KeepsCookies
<1>3. GoesTo(s, {"render", "user", "save", "error"})
  BY GotoEffect DEF Compare, GetUser, GoesTo, Stage
<1>4. search'[s].posts = search[s].posts
  BY <1>1, <1>3, KeepsPosts DEF GoesTo
<1>5. CASE search'[s].at = "render"
  <2>1. search[s].user \notin users \/ Faults
    <3>1. Nobody \notin users
      BY ConstantsAssumption DEF TypeOK
    <3>2. CASE Compare(s)
      <4>1. ASSUME Goto(s, "user") \/ Goto(s, "error") PROVE FALSE
        BY <1>5, <4>1, GotoEffect DEF GoesTo, Stage
      <4>2. search[s].user = Nobody
        BY <3>2, <4>1 DEF Compare
      <4>. QED BY <3>1, <4>2
    <3>3. CASE GetUser(s)
      <4>1. ASSUME Goto(s, "save") PROVE FALSE
        BY <1>5, <4>1, GotoEffect DEF GoesTo, Stage
      <4>. QED BY <3>3, <4>1 DEF GetUser
    <3>. QED BY <3>2, <3>3
  <2>2. Phase[search'[s].at] = "unrecorded"
    BY <1>5, PhaseValues
  <2>3. /\ Phases' = [Phases EXCEPT ![s] = "unrecorded"] /\ Owners' = Owners
        /\ Pages' = Pages /\ Wrote' = Wrote
    BY <1>2, <1>4, <1>5, <1>7, <2>2, OneMoves
  <2>4. Phases[s] = "found"
    BY <1>1 DEF Phases
  <2>5. History!Skip(s)
    BY <1>1, <2>1, <2>3, <2>4
       DEF History!Skip, History!Moves, Phases, Owners, Pages, Wrote, saved
  <2>. QED BY <2>5 DEF History!Next
<1>6. CASE search'[s].at # "render"
  <2>1. /\ Phase[search'[s].at] \in {"found", "lost"}
        /\ search'[s].at # "saveResults"
    BY <1>3, <1>6, PhaseValues DEF GoesTo
  <2>. QED BY <1>1, <1>2, <1>4, <1>7, <2>1, MoveImplements
<1>. QED BY <1>5, <1>6

\* The row of the search is inserted, or the search fails.
LEMMA RecordImplements ==
    ASSUME TypeOK, HistoryFollows, NEW s \in Search, CreateUserSearch(s)
    PROVE  [History!Next]_History!vars
<1>1. /\ Handler(s) /\ ~At(s, "new") /\ UNCHANGED <<users, results>>
      /\ Phase[search[s].at] = "found"
  BY PhaseValues DEF CreateUserSearch, Handler, At
<1>5. search[s].kept = 0
  BY <1>1, WroteNothing DEF CreateUserSearch, At
<1>2. /\ \A other \in Search : other # s => search'[other] = search[other]
      /\ search'[s].user = search[s].user
  BY <1>1, OthersStay, KeepsCookies
<1>3. CASE /\ search[s].user \in users
           /\ history' = [history EXCEPT ![s] = search[s].user]
           /\ Goto(s, "saveResults")
  <2>1. /\ search'[s].at = "saveResults" /\ search'[s].posts = search[s].posts
        /\ search'[s].kept = 0
    BY <1>3, GotoEffect DEF GoesTo, Stage
  <2>2. Phase[search'[s].at] = "recorded"
    BY <2>1, PhaseValues
  <2>3. /\ Phases' = [Phases EXCEPT ![s] = "recorded"] /\ Owners' = Owners
        /\ Pages' = Pages /\ Wrote' = Wrote
    BY <1>2, <1>5, <2>1, <2>2, OneMoves
  <2>4. Phases[s] = "found" /\ Owners[s] = search[s].user
    BY <1>1 DEF Phases, Owners
  <2>5. History!Record(s)
    BY <1>1, <1>3, <2>3, <2>4
       DEF History!Record, History!Moves, Phases, Owners, Pages, Wrote
  <2>. QED BY <2>5 DEF History!Next
<1>4. CASE Goto(s, "error") /\ UNCHANGED history
  <2>1. /\ search'[s].at = "error" /\ search'[s].posts = search[s].posts
        /\ search'[s].kept = 0
    BY <1>4, GotoEffect DEF GoesTo, Stage
  <2>2. Phase[search'[s].at] = "lost"
    BY <2>1, PhaseValues
  <2>. QED BY <1>1, <1>2, <1>4, <2>1, <2>2, MoveImplements DEF saved
<1>. QED BY <1>3, <1>4 DEF CreateUserSearch

\* One of its results is.
LEMMA RecordPostImplements ==
    ASSUME TypeOK, HistoryFollows, NEW s \in Search, CreateSearchResult(s)
    PROVE  [History!Next]_History!vars
<1>1. /\ Handler(s) /\ ~At(s, "new") /\ UNCHANGED <<users, history>>
      /\ Phase[search[s].at] = "recorded" /\ search[s].kept < search[s].posts
  BY PhaseValues DEF CreateSearchResult, Handler, At
<1>2. CASE /\ history[s] # Nobody
           /\ results' = [results EXCEPT ![s] = @ + 1]
           /\ KeepOne(s)
  <2>1. Phases[s] = "recorded" /\ Wrote[s] < Pages[s]
    BY <1>1 DEF Phases, Pages, Wrote
  <2>2. /\ search'[s].at = search[s].at /\ search'[s].user = search[s].user
        /\ search'[s].posts = search[s].posts
        /\ search'[s].kept = search[s].kept + 1
        /\ \A other \in Search : other # s => search'[other] = search[other]
    BY <1>1, <1>2, KeepOneEffect
  <2>3. /\ UNCHANGED <<Phases, Owners, Pages>>
        /\ Wrote' = [Wrote EXCEPT ![s] = @ + 1]
    BY <2>2 DEF Phases, Owners, Pages, Wrote
  <2>4. History!RecordPost(s)
    BY <1>1, <1>2, <2>1, <2>3
       DEF History!RecordPost, Phases, Owners, Pages, Wrote
  <2>. QED BY <2>4 DEF History!Next
<1>3. CASE Goto(s, "error") /\ UNCHANGED results
  <2>1. /\ search'[s].at = "error" /\ search'[s].posts = search[s].posts
        /\ search'[s].user = search[s].user /\ search'[s].kept = 0
    BY <1>3, GotoEffect DEF GoesTo, Stage
  <2>2. Phase[search'[s].at] = "lost"
    BY <2>1, PhaseValues
  <2>3. \A other \in Search : other # s => search'[other] = search[other]
    BY <1>1, OthersStay
  <2>. QED BY <1>1, <1>3, <2>1, <2>2, <2>3, MoveImplements DEF saved
<1>. QED BY <1>2, <1>3 DEF CreateSearchResult

\* The page is sent, or is not.
LEMMA ShowImplements ==
    ASSUME TypeOK, HistoryFollows, NEW s \in Search, Respond(s)
    PROVE  [History!Next]_History!vars
<1>1. /\ Handler(s) /\ ~At(s, "new") /\ UNCHANGED saved /\ SavedAll(s)
      /\ Phase[search[s].at] \in {"unrecorded", "recorded"}
  BY PhaseValues DEF Respond, SavedAll, Handler, At
<1>2. /\ \A other \in Search : other # s => search'[other] = search[other]
      /\ search'[s].user = search[s].user
  BY <1>1, OthersStay, KeepsCookies
<1>3. /\ search'[s].at \in {"page", "error"} /\ search'[s].posts = search[s].posts
      /\ search'[s].kept = 0
  BY GotoEffect DEF Respond, GoesTo, Stage
<1>4. CASE search'[s].at = "page"
  <2>1. Phase[search'[s].at] = "shown"
    BY <1>4, PhaseValues
  <2>2. /\ Phases' = [Phases EXCEPT ![s] = "shown"] /\ Owners' = Owners
        /\ Pages' = Pages /\ Wrote' = [Wrote EXCEPT ![s] = 0]
    BY <1>2, <1>3, <2>1, OneMoves
  <2>3. \/ Phases[s] = "unrecorded"
        \/ Phases[s] = "recorded" /\ Wrote[s] = Pages[s]
    BY <1>1, PhaseValues DEF SavedAll, Phases, Pages, Wrote, At
  <2>4. History!Show(s)
    BY <1>1, <2>2, <2>3
       DEF History!Show, History!Moves, Phases, Owners, Pages, Wrote, saved
  <2>. QED BY <2>4 DEF History!Next
<1>5. CASE search'[s].at = "error"
  <2>1. Phase[search'[s].at] = "lost"
    BY <1>5, PhaseValues
  <2>. QED BY <1>1, <1>2, <1>3, <2>1, MoveImplements
<1>. QED BY <1>3, <1>4, <1>5

\* Up to the posts a search keeps nothing.
LEMMA AskedImplements ==
    ASSUME TypeOK, HistoryFollows, NEW s \in Search,
           Resolve(s) \/ Fetch(s) \/ Wait(s) \/ ReadCloth(s) \/ ReadYarn(s)
    PROVE  [History!Next]_History!vars
<1>1. /\ Handler(s) /\ ~At(s, "new") /\ UNCHANGED saved
      /\ Phase[search[s].at] = "asked"
  BY PhaseValues DEF Resolve, Fetch, Wait, ReadCloth, ReadYarn, Handler, At
<1>6. /\ search[s].kept = 0
      /\ search'[s].at # "saveResults" => search'[s].kept = 0
  BY <1>1, WroteNothing DEF Resolve, Fetch, Wait, ReadCloth, ReadYarn, At
<1>2. /\ \A other \in Search : other # s => search'[other] = search[other]
      /\ search'[s].user = search[s].user
  BY <1>1, OthersStay, KeepsCookies
<1>3. search'[s].at \in {"lookup", "wait", "readCloth", "readYarn", "query", "error"}
  <2>1. CASE Resolve(s)
    BY <2>1, GotoEffect DEF Resolve, GoesTo, Stage
  <2>2. CASE Fetch(s) \/ Wait(s) \/ ReadCloth(s) \/ ReadYarn(s)
    BY <2>2, FetchEffect, WaitEffect, ReadClothEffect, ReadYarnEffect DEF GoesTo
  <2>. QED BY <2>1, <2>2
<1>4. search'[s].posts = search[s].posts
  BY <1>1, <1>3, KeepsPosts
<1>5. Phase[search'[s].at] \in {"asked", "lost"}
  BY <1>3, PhaseValues
<1>. QED BY <1>1, <1>2, <1>3, <1>4, <1>5, <1>6, MoveImplements

\* The process dies, and with it every search that is running.
LEMMA RestartImplements ==
    ASSUME TypeOK, Restart
    PROVE  [History!Next]_History!vars
<1>. PICK lost \in SUBSET Search : lost = {s \in Search : Running(s)}
  OBVIOUS
<1>1. UNCHANGED saved
  BY DEF Restart
<1>2. ASSUME NEW s \in Search
      PROVE  /\ search'[s].user = search[s].user /\ search'[s].posts = search[s].posts
             /\ search'[s].at = IF s \in lost THEN "gone" ELSE search[s].at
             /\ search'[s].kept = IF s \in lost THEN 0 ELSE search[s].kept
  BY RestartEffect
<1>3. /\ Owners' = Owners /\ Pages' = Pages
      /\ Wrote' = [s \in Search |-> IF s \in lost THEN 0 ELSE Wrote[s]]
  BY <1>2 DEF Owners, Pages, Wrote
<1>4. Phases' = [s \in Search |-> IF s \in lost THEN "lost" ELSE Phases[s]]
  BY <1>2, PhaseValues DEF Phases
<1>5. ASSUME NEW s \in lost PROVE Phases[s] \notin {"shown", "lost"}
  <2>1. search[s].at \in Stage \ (Over \cup {"new"})
    BY DEF Running, TypeOK, SearchState
  <2>. QED BY <2>1, PhaseValues DEF Stage, Over, Answered, Phases
<1>6. History!Lose(lost)
  BY <1>1, <1>3, <1>4, <1>5
     DEF History!Lose, Phases, Owners, Pages, Wrote, saved
<1>. QED BY <1>6 DEF History!Next

\* What the searches of any number of people do to the history, interleaved with
\* deletions and restarts, is what SearchHistory allows (patterns.go 37-188).
THEOREM HistoryImplemented == Spec => ImplementsHistory
<1>1. Init => History!Init
  BY PhaseValues DEF Init, History!Init, NewSearch
<1>2. TypeOK /\ HistoryFollows /\ [Next]_vars => [History!Next]_History!vars
  <2>. SUFFICES ASSUME TypeOK, HistoryFollows, [Next]_vars PROVE [History!Next]_History!vars
    OBVIOUS
  <2>1. ASSUME NEW s \in Search, Handler(s) PROVE [History!Next]_History!vars
    BY <2>1, StartImplements, AskedImplements, FindImplements, SkipImplements,
       RecordImplements, RecordPostImplements, ShowImplements, Zenon DEF Handler
  <2>2. ASSUME NEW u \in User, DeleteUser(u) PROVE [History!Next]_History!vars
    <3>1. UNCHANGED <<Phases, Owners, Pages, Wrote>>
      BY <2>2 DEF DeleteUser, Phases, Owners, Pages, Wrote
    <3>2. History!Close(u)
      BY <2>2, <3>1 DEF DeleteUser, History!Close, Phases, Owners, Pages, Wrote
    <3>. QED BY <3>2 DEF History!Next
  <2>3. CASE Restart
    BY <2>3, RestartImplements
  <2>4. ASSUME UNCHANGED <<search, saved>> PROVE [History!Next]_History!vars
    BY <2>4 DEF History!vars, saved
  <2>5. CASE HomePage \/ UNCHANGED vars
    BY <2>4, <2>5 DEF HomePage, vars, saved
  <2>6. ASSUME NEW s \in Search, NEW t \in Tool, Chat(s, t)
        PROVE  [History!Next]_History!vars
    BY <2>4, <2>6 DEF Chat, ToolCall, ChatReturns, ChatFails, saved
  <2>. QED BY <2>1, <2>2, <2>3, <2>5, <2>6 DEF Next
<1>3. Init => HistoryFollows
  BY InitIInv DEF IInv
<1>. QED BY <1>1, <1>2, <1>3, HistoryInductive, TypeCorrect, PTL
         DEF Spec, History!Spec, ImplementsHistory
=============================================================================
