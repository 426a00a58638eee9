----------------------------- MODULE LinkSearch -----------------------------
(***************************************************************************)
(* POST /link (handlers/patterns.go): from a pinned image to Ravelry       *)
(* patterns.  A search looks the image up in the hash index (HashIndex);   *)
(* on a miss it asks the vision model for a yarn weight and for a garment, *)
(* in two goroutines, searches Ravelry for what they answered and keeps    *)
(* the posts whose photos look most alike.  For a signed-in user the posts *)
(* are saved to the search history before the page is sent.                *)
(*                                                                         *)
(* Every search shares with all the others the response table of           *)
(* recoginition.ClassifyModels (the last guess and the last error of each  *)
(* tool, neither ever reset nor locked), the status board of /sse (one     *)
(* entry: every home page hands out the same job cookie) and the database. *)
(* A step ends where the next one of these is read or written.             *)
(*                                                                         *)
(* Data.  A guess is named by the search whose chat made it; posts are     *)
(* counted; the status board keeps the stage it shows and, for the last    *)
(* one, whose it is and the guesses it names.                              *)
(***************************************************************************)
EXTENDS Naturals, FiniteSets

CONSTANTS
    Search,      \* requests to /link
    User,        \* accounts (users.id)
    Empty,       \* the output string "" of a tool that never answered
    Torn,        \* a string put together from two assignments, by a read or
                 \* a write that falls into another goroutine's assignment
    Nobody,      \* no account; no search
    PostAmount,  \* POSTAMOUNT
    Overlap,     \* may two searches run at once?
    OffTool,     \* searches whose chats may call the tool they were not offered
    Faults       \* may statements of the history fail?

ASSUME ConstantsAssumption ==
    /\ {Empty, Torn, Nobody} \cap (Search \cup User) = {}
    /\ Empty # Torn
    /\ PostAmount \in Nat \ {0}
    /\ OffTool \subseteq Search
    /\ {Overlap, Faults} \subseteq BOOLEAN

VARIABLES
    search,    \* the searches: local variables of the handler
    chat,      \* the two goroutines of ClassifyImageDetails
    output,    \* ToolNameTable[t].OutputString
    failed,    \* ToolNameTable[t].Err: has a chat ever failed?
    status,    \* StatusMap["homePage"]
    users,     \* table users: the accounts that exist
    history,   \* table user_search: the user_id of each row
    results    \* table search_result: how many rows each search has

vars == <<search, chat, output, failed, status, users, history, results>>
table == <<output, failed>>
saved == <<users, history, results>>

-----------------------------------------------------------------------------
Tool == {"yarn", "cloth"}
Guess == Search \cup {Empty, Torn}

Stage == {"new", "resolve", "lookup", "fetch", "wait", "readCloth",
          "readYarn", "query", "found", "user", "save", "saveResults",
          "render", "page", "error", "gone"}
Answered == {"page", "error"}
Over == Answered \cup {"gone"}

SearchState ==
    [at : Stage, cookie : BOOLEAN, user : User \cup {Nobody},
     cloth : Guess, yarn : Guess,
     posts : 0 .. PostAmount + 1,   \* ravelPatterns
     kept : 0 .. PostAmount + 1]    \* how many of them the loop has saved
NewSearch == [at |-> "new", cookie |-> FALSE, user |-> Nobody,
              cloth |-> Empty, yarn |-> Empty, posts |-> 0, kept |-> 0]

\* A chat is not started, waiting for the model, or calling tools; then its
\* goroutine has returned, with or without an error.
ChatState == {"none", "asking", "calling", "ok", "failed"}

Board == [shows : {"nothing", "home", "looking", "guessing", "comparing"},
          of : Search \cup {Nobody}, cloth : Guess, yarn : Guess]
Shows(what) ==
    [shows |-> what, of |-> Nobody, cloth |-> Empty, yarn |-> Empty]

\* Every local variable, shared entry and row has the shape its code gives it.
TypeOK ==
    /\ search \in [Search -> SearchState]
    /\ chat \in [Search -> [Tool -> ChatState]]
    /\ output \in [Tool -> Guess]
    /\ failed \in [Tool -> BOOLEAN]
    /\ status \in Board
    /\ users \subseteq User
    /\ history \in [Search -> User \cup {Nobody}]
    /\ results \in [Search -> Nat]

NewTable == /\ output' = [t \in Tool |-> Empty]
            /\ failed' = [t \in Tool |-> FALSE]

Init ==
    /\ search = [s \in Search |-> NewSearch]
    /\ chat = [s \in Search |-> [t \in Tool |-> "none"]]
    /\ output = [t \in Tool |-> Empty]
    /\ failed = [t \in Tool |-> FALSE]
    /\ status = Shows("nothing")
    /\ users = User
    /\ history = [s \in Search |-> Nobody]
    /\ results = [s \in Search |-> 0]

-----------------------------------------------------------------------------
(* The handler, up to the posts *)

At(s, stage) == search[s].at = stage
Running(s) == search[s].at \notin Over \cup {"new"}

\* The index of the loop over the posts lives in the loop, the request's job
\* cookie until the answer.
Moved(local, stage) ==
    [local EXCEPT !.at = stage, !.kept = 0,
                  !.cookie = local.cookie /\ stage \notin Over]
Goto(s, stage) == search' = [search EXCEPT ![s] = Moved(search[s], stage)]

\* UpdatStatus: without the job cookie the board is left alone.
UpdatStatus(s, entry) == status' = IF search[s].cookie THEN entry ELSE status

\* The browser holds the job cookie or not, and a JWT of some account or none.
\* The search is refused when its log file cannot be created.
Start(s) ==
    /\ At(s, "new")
    /\ Overlap \/ \A other \in Search : ~Running(other)
    /\ \E cookie \in BOOLEAN, user \in User \cup {Nobody} :
         \/ search' = [search EXCEPT ![s] =
                         [@ EXCEPT !.at = "resolve", !.cookie = cookie,
                                   !.user = user]]
         \/ Goto(s, "error")
    /\ UNCHANGED <<chat, table, status, saved>>

\* ParseForm, GetPinImageLink, CheckIfImage: an image link or an error.
Resolve(s) ==
    /\ At(s, "resolve")
    /\ \/ /\ Goto(s, "lookup")
          /\ UpdatStatus(s, Shows("looking"))
       \/ /\ Goto(s, "error")
          /\ UNCHANGED status
    /\ UNCHANGED <<chat, table, saved>>

\* GetRavelHashes returns at most POSTAMOUNT posts, or an error.
Lookup(s) ==
    /\ At(s, "lookup")
    /\ \/ /\ \E n \in 1 .. PostAmount :
               search' = [search EXCEPT ![s] =
                            [@ EXCEPT !.at = "found", !.posts = n]]
          /\ UNCHANGED status
       \/ /\ Goto(s, "fetch")
          /\ UpdatStatus(s, Shows("guessing"))
       \/ /\ Goto(s, "error")
          /\ UNCHANGED status
    /\ UNCHANGED <<chat, table, saved>>

\* GetImageBytes; ClassifyImageDetails starts both goroutines.
Fetch(s) ==
    /\ At(s, "fetch")
    /\ \/ /\ Goto(s, "wait")
          /\ chat' = [chat EXCEPT ![s] = [t \in Tool |-> "asking"]]
       \/ /\ Goto(s, "error")
          /\ UNCHANGED chat
    /\ UNCHANGED <<table, status, saved>>

\* Mutants: the WaitGroup counts one goroutine; a failed one is never Done.
FirstChatReturned(s) == \E t \in Tool : chat[s][t] \in {"ok", "failed"}
ChatsSucceeded(s) == \A t \in Tool : chat[s][t] = "ok"

\* wg.Wait, then CheckForErr over both tools.
ChatsReturned(s) == \A t \in Tool : chat[s][t] \in {"ok", "failed"}
CheckForErr == \E t \in Tool : failed[t]

Wait(s) ==
    /\ At(s, "wait")
    /\ ChatsReturned(s)
    /\ Goto(s, IF CheckForErr THEN "error" ELSE "readCloth")
    /\ UNCHANGED <<chat, table, status, saved>>

\* The tools a chat may call, and whether it may be assigning the output of t:
\* it has called a tool and has not returned.
CanCall(s, by) == IF s \in OffTool THEN Tool ELSE {by}
Assigns(s, by, t) == chat[s][by] = "calling" /\ t \in CanCall(s, by)

\* GetOutputString, racing with the assignments of the other searches' chats.
Reads(s, t, guess) ==
    \/ guess = output[t]
    \/ /\ guess = Torn
       /\ \E other \in Search \ {s}, by \in Tool : Assigns(other, by, t)

ReadCloth(s) ==
    /\ At(s, "readCloth")
    /\ \E guess \in Guess :
         /\ Reads(s, "cloth", guess)
         /\ search' = [search EXCEPT ![s] =
                         [@ EXCEPT !.at = "readYarn", !.cloth = guess]]
    /\ UNCHANGED <<chat, table, status, saved>>

ReadYarn(s) ==
    /\ At(s, "readYarn")
    /\ \E guess \in Guess :
         /\ Reads(s, "yarn", guess)
         /\ search' = [search EXCEPT ![s] =
                         [@ EXCEPT !.at = "query", !.yarn = guess]]
    /\ UNCHANGED <<chat, table, status, saved>>

\* Mutant: the bound of GetBestsImages is off by one more.
QueryTooMany(s) ==
    /\ At(s, "query")
    /\ search[s].yarn # Empty
    /\ \E n \in 0 .. PostAmount + 2 :
         search' = [search EXCEPT ![s] =
                      [@ EXCEPT !.at = "found", !.posts = n]]
    /\ UNCHANGED <<chat, table, status, saved>>

\* SearchRavelPatterns: an empty yarn weight is an error, an empty garment only
\* a warning; a torn string may panic.  GetBestsImages stops adding at
\* POSTAMOUNT + 1 posts.  With it ends the scope of the two guesses.
Query(s) ==
    /\ At(s, "query")
    /\ \/ /\ search[s].yarn # Empty
          /\ \E n \in 0 .. PostAmount + 1 :
               search' = [search EXCEPT ![s] =
                            [@ EXCEPT !.at = "found", !.posts = n,
                                      !.cloth = Empty, !.yarn = Empty]]
       \/ search' = [search EXCEPT ![s] =
                       [Moved(search[s], "error") EXCEPT
                          !.cloth = Empty, !.yarn = Empty]]
    /\ UNCHANGED <<chat, table, status, saved>>

-----------------------------------------------------------------------------
(* The goroutines ClassifyImageYn and ClassifyImageCloth *)

\* Chat calls the response function once (LlammaStream is FALSE), which applies
\* the tool calls in order up to the first bad one: another tool, no argument
\* "name", or a name that is not on the tool's list.  SetOutputString assigns
\* the output without a lock: with another chat at the same entry, the pointer
\* of one string may stay with the length of the other.  No listed name is
\* empty, so no such mixture is.
ToolCall(s, t) ==
    /\ chat[s][t] \in {"asking", "calling"}
    /\ \E called \in CanCall(s, t) :
         \/ output' = [output EXCEPT ![called] = s]
         \/ /\ \E other \in Search, by \in Tool :
                  <<other, by>> # <<s, t>> /\ Assigns(other, by, called)
            /\ output' = [output EXCEPT ![called] = Torn]
    /\ chat' = [chat EXCEPT ![s][t] = "calling"]
    /\ UNCHANGED <<search, failed, status, saved>>

\* Mutant: a reply without tool calls is accepted.
ChatReturnsAny(s, t) ==
    /\ chat[s][t] \in {"asking", "calling"}
    /\ chat' = [chat EXCEPT ![s][t] = "ok"]
    /\ UNCHANGED <<search, table, status, saved>>

\* A reply with no tool call is an error.
ChatReturns(s, t) ==
    /\ chat[s][t] = "calling"
    /\ chat' = [chat EXCEPT ![s][t] = "ok"]
    /\ UNCHANGED <<search, table, status, saved>>

\* Mutant: a bad call after a good one is not stored as an error.
ChatFailsQuietly(s, t) ==
    /\ chat[s][t] \in {"asking", "calling"}
    /\ chat' = [chat EXCEPT ![s][t] = "failed"]
    /\ failed' = [failed EXCEPT ![t] = @ \/ chat[s][t] = "asking"]
    /\ UNCHANGED <<search, output, status, saved>>

\* No reply, no tool call, or a bad one after any number of good ones.
ChatFails(s, t) ==
    /\ chat[s][t] \in {"asking", "calling"}
    /\ chat' = [chat EXCEPT ![s][t] = "failed"]
    /\ failed' = [failed EXCEPT ![t] = TRUE]
    /\ UNCHANGED <<search, output, status, saved>>

-----------------------------------------------------------------------------
(* The handler, from the posts to the page *)

\* The status names whatever the table now holds (two reads, one step: nothing
\* below depends on what falls between them).  Formatting a torn string may
\* panic, which net/http answers by dropping the connection.
Compare(s) ==
    /\ At(s, "found")
    /\ \E cloth, yarn \in Guess :
         /\ Reads(s, "cloth", cloth) /\ Reads(s, "yarn", yarn)
         /\ \/ /\ UpdatStatus(s, [shows |-> "comparing", of |-> s,
                                  cloth |-> cloth, yarn |-> yarn])
               /\ Goto(s, IF search[s].user = Nobody THEN "render" ELSE "user")
            \/ /\ Torn \in {cloth, yarn}
               /\ Goto(s, "error")
               /\ UNCHANGED status
    /\ UNCHANGED <<chat, table, saved>>

\* GetUserFromId: without the account, or if the query fails, nothing is saved.
GetUser(s) ==
    /\ At(s, "user")
    /\ \/ search[s].user \in users /\ Goto(s, "save")
       \/ (search[s].user \notin users \/ Faults) /\ Goto(s, "render")
    /\ UNCHANGED <<chat, table, status, saved>>

\* Mutant: the column user_id does not reference users.
CreateSearchOfAnyone(s) ==
    /\ At(s, "save")
    /\ history' = [history EXCEPT ![s] = search[s].user]
    /\ Goto(s, "saveResults")
    /\ UNCHANGED <<chat, table, status, users, results>>

\* Mutant: an insert whose answer is lost is tried again.
CreateUserSearchRetried(s) ==
    /\ At(s, "save")
    /\ \/ /\ search[s].user \in users
          /\ history' = [history EXCEPT ![s] = search[s].user]
          /\ Goto(s, "saveResults") \/ UNCHANGED search
       \/ /\ search[s].user \notin users \/ Faults
          /\ Goto(s, "error")
          /\ UNCHANGED history
    /\ UNCHANGED <<chat, table, status, users, results>>

\* CreateUserSearch: user_id REFERENCES users(id).
CreateUserSearch(s) ==
    /\ At(s, "save")
    /\ \/ /\ search[s].user \in users
          /\ history' = [history EXCEPT ![s] = search[s].user]
          /\ Goto(s, "saveResults")
       \/ /\ search[s].user \notin users \/ Faults
          /\ Goto(s, "error")
          /\ UNCHANGED history
    /\ UNCHANGED <<chat, table, status, users, results>>

\* The loop goes on to its next post.
KeepOne(s) ==
    search' = [search EXCEPT ![s] = [@ EXCEPT !.kept = search[s].kept + 1]]

\* CreateSearchResult, once per post: search_id REFERENCES user_search(id).
CreateSearchResult(s) ==
    /\ At(s, "saveResults")
    /\ search[s].kept < search[s].posts
    /\ \/ /\ history[s] # Nobody
          /\ results' = [results EXCEPT ![s] = @ + 1]
          /\ KeepOne(s)
       \/ /\ history[s] = Nobody \/ Faults
          /\ Goto(s, "error")
          /\ UNCHANGED results
    /\ UNCHANGED <<chat, table, status, users, history>>

\* Mutant: the loop over the posts stops one short.
SavedAllButOne(s) ==
    \/ At(s, "render")
    \/ At(s, "saveResults") /\ search[s].kept + 1 >= search[s].posts

\* The loop over the posts, which are local, is over: whatever has become of the
\* rows since, the page is sent.
SavedAll(s) ==
    \/ At(s, "render")
    \/ At(s, "saveResults") /\ search[s].kept = search[s].posts

\* Mutant: the status of a search is taken off the board with its answer.
RespondAndForget(s) ==
    /\ SavedAll(s)
    /\ Goto(s, "page") \/ Goto(s, "error")
    /\ UpdatStatus(s, Shows("nothing"))
    /\ UNCHANGED <<chat, table, saved>>

\* RavelPosts rendered and sent; a component that does not render is an error.
Respond(s) ==
    /\ SavedAll(s)
    /\ Goto(s, "page") \/ Goto(s, "error")
    /\ UNCHANGED <<chat, table, status, saved>>

-----------------------------------------------------------------------------
(* The rest of the server *)

\* GET /: the job cookie goes out with the page; the board is written only for
\* a browser that already had it.
HomePage ==
    /\ status' = Shows("home")
    /\ UNCHANGED <<search, chat, table, saved>>

\* The account goes, and its searches and their results with it (CASCADE).
DeleteUser(u) ==
    /\ u \in users
    /\ users' = users \ {u}
    /\ history' = [s \in Search |->
                     IF history[s] = u THEN Nobody ELSE history[s]]
    /\ results' = [s \in Search |->
                     IF history[s] = u THEN 0 ELSE results[s]]
    /\ UNCHANGED <<search, chat, table, status>>

\* Mutant: ResetUserSearch and ResetSearchResult are run at start, like the
\* other resets.
RestartAndReset ==
    /\ search' = [s \in Search |->
                    IF Running(s) THEN Moved(search[s], "gone") ELSE search[s]]
    /\ chat' = [s \in Search |-> [t \in Tool |-> "none"]]
    /\ NewTable
    /\ status' = Shows("nothing")
    /\ history' = [s \in Search |-> Nobody]
    /\ results' = [s \in Search |-> 0]
    /\ UNCHANGED users

\* The process dies and comes back: only the database is left.
Restart ==
    /\ search' = [s \in Search |->
                    IF Running(s) THEN Moved(search[s], "gone") ELSE search[s]]
    /\ chat' = [s \in Search |->
                  [t \in Tool |-> IF chat[s][t] \in {"asking", "calling"}
                                  THEN "none" ELSE chat[s][t]]]
    /\ NewTable
    /\ status' = Shows("nothing")
    /\ UNCHANGED saved

-----------------------------------------------------------------------------
(* The handlers that only read: what they answer now *)

\* SSEHandler, to a browser that holds the job cookie or does not: the entry of
\* the job, or nothing (404).
SSEHandler(cookie) == IF cookie THEN status ELSE Shows("nothing")

\* SELECT ... FROM user_search WHERE user_id = $1
GetUserSearches(u) == {s \in Search : history[s] = u}

\* HandlerUserSearches, to a browser that holds the JWT of an account or none:
\* without one it is sent to the login page.
HandlerUserSearches(jwt) == IF jwt = Nobody THEN {} ELSE GetUserSearches(jwt)

\* HandlerUserSearchResult, asked for a search the page above lists.
HandlerUserSearchResult(s) == results[s]

-----------------------------------------------------------------------------
Handler(s) ==
    \/ Start(s) \/ Resolve(s) \/ Lookup(s) \/ Fetch(s) \/ Wait(s)
    \/ ReadCloth(s) \/ ReadYarn(s) \/ Query(s)
    \/ Compare(s) \/ GetUser(s) \/ CreateUserSearch(s)
    \/ CreateSearchResult(s) \/ Respond(s)

Chat(s, t) == ToolCall(s, t) \/ ChatReturns(s, t) \/ ChatFails(s, t)

Next ==
    \/ \E s \in Search : Handler(s)
    \/ \E s \in Search, t \in Tool : Chat(s, t)
    \/ HomePage
    \/ \E u \in User : DeleteUser(u)
    \/ Restart

Spec == Init /\ [][Next]_vars

\* The goroutines of net/http and of the two chats are scheduled, and the model
\* server answers every chat in the end: the code gives Chat no deadline.
Fairness ==
    \A s \in Search :
        /\ WF_vars(Handler(s) /\ ~At(s, "new"))
        /\ \A t \in Tool : WF_vars(ChatReturns(s, t) \/ ChatFails(s, t))

LiveSpec == Spec /\ Fairness

-----------------------------------------------------------------------------
(* Properties *)

Guessed(s) == chat[s]["yarn"] # "none"

\* A page of guessed posts is only sent when both chats of its own search
\* succeeded, however many other searches write the shared error entries: what
\* a chat stores in Err is still there when its own search looks.
GuessedPageHadBothChats ==
    \A s \in Search :
        Guessed(s) /\ At(s, "page") => \A t \in Tool : chat[s][t] = "ok"

\* Ravelry is never searched for an unnamed yarn weight or garment: when both
\* chats of a search have called their own tools the table names both, whoever
\* wrote it last and whatever tools the chats of other searches called.
QueryIsLabelled ==
    \A s \in Search \ OffTool :
        At(s, "query") => Empty \notin {search[s].cloth, search[s].yarn}

\* What is searched for, and what the status says is being compared, was guessed
\* from this search's own image, not left in the table by an earlier one, be it
\* one whose chats called the wrong tool.
OwnGuesses ==
    \A s \in Search \ OffTool : Guessed(s) =>
        /\ At(s, "query") => search[s].cloth = s /\ search[s].yarn = s
        /\ status.shows = "comparing" /\ status.of = s =>
               status.cloth = s /\ status.yarn = s

\* The status of a search with the posts in hand names guesses about its image
\* (patterns.go:127, "Comparing best matches for a %s %s").
StatusNamesOwnGuesses ==
    status.shows = "comparing" =>
        status.cloth = status.of /\ status.yarn = status.of

\* A search whose page was sent is in the history with every post of that page,
\* or is not in the history at all.
KeptSearchIsWhole ==
    \A s \in Search :
        At(s, "page") /\ history[s] # Nobody => results[s] = search[s].posts

\* No search is kept for an account that is gone, and no result for a search
\* that is gone, wherever the deletion falls between the handler's statements.
NoOrphanedHistory ==
    \A s \in Search :
        /\ history[s] # Nobody => history[s] \in users
        /\ results[s] > 0 => history[s] # Nobody

\* While statements do not fail, whoever is signed in and still has an account
\* finds every page that was sent in the history.
PageIsInHistory ==
    \A s \in Search :
        At(s, "page") /\ search[s].user \in users =>
            history[s] = search[s].user /\ results[s] = search[s].posts

\* What an account's history page has listed it goes on listing, and with no
\* fewer results, as long as the account stands: through the searches and the
\* deletions of others, statements that fail, and restarts.
HistoryOnlyGrows ==
    [][\A u \in users \cap users' :
          /\ HandlerUserSearches(u) \subseteq HandlerUserSearches(u)'
          /\ \A s \in HandlerUserSearches(u) :
                 HandlerUserSearchResult(s) <= HandlerUserSearchResult(s)']_vars

\* How far a search is, for whoever waits for its page.
Phase == [stage \in Stage |->
            CASE stage = "new" -> "new"
              [] stage \in {"resolve", "lookup", "fetch", "wait", "readCloth",
                            "readYarn", "query"} -> "asked"
              [] stage \in {"found", "user", "save"} -> "found"
              [] stage = "saveResults" -> "recorded"
              [] stage = "render" -> "unrecorded"
              [] stage = "page" -> "shown"
              [] stage \in {"error", "gone"} -> "lost"]

History == INSTANCE SearchHistory WITH
    Most <- PostAmount + 1,
    phase <- [s \in Search |-> Phase[search[s].at]],
    owner <- [s \in Search |-> search[s].user],
    page <- [s \in Search |-> search[s].posts],
    written <- [s \in Search |-> search[s].kept]

\* The searches implement SearchHistory: each is recorded once, for the account
\* of its JWT, while that stands and after its posts are known; no page is sent
\* before every post of it was recorded, unless none is; only the end of the
\* account takes back what was recorded, and the page may then still be sent;
\* and a search that was answered or lost writes nothing more, however the
\* deletions, failures and restarts fall between its statements.
ImplementsHistory == History!Spec

\* From the first status it writes until it ends, a search that is polled on
\* /sse has a status, its own or another's, although all searches and home pages
\* share the one entry.  Before that, while GetPinImageLink is at work, a poll may
\* be told that the job is missing: the board may be new and the home page that
\* handed out the cookie wrote nothing.
ShownStatusStays ==
    \A s \in Search :
        Running(s) /\ ~At(s, "resolve") /\ search[s].cookie =>
            SSEHandler(search[s].cookie).shows # "nothing"

\* Every search that was started is answered, or ends with the process.
EverySearchAnswered ==
    \A s \in Search : Running(s) ~> search[s].at \in Over
=============================================================================
