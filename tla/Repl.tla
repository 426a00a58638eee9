-------------------------------- MODULE Repl --------------------------------
(***************************************************************************)
(* The developers' command line (repl/main.go and repl/replCommand/        *)
(* command.go).  `find <link>` gets the pin's image from its page (PinPage *)
(* walks it), gets the page once more for its title, asks Ravelry for the  *)
(* words of the title that were recognised (TitleEntities), and opens the  *)
(* pattern whose photo looks most like the image.                          *)
(*                                                                         *)
(* A step is a request that is sent, or one round of a loop.  An error     *)
(* goes back to the prompt, but for one: HandlerFindRavelFromPin assigns   *)
(* the error of the search for words and, before it looks, that of the     *)
(* search of Ravelry.                                                      *)
(***************************************************************************)
EXTENDS PinPage, TitleEntities

CONSTANT PageSize     \* the page_size asked of Ravelry

VARIABLES
    at,       \* where the program is
    ended,    \* has the input ended?
    queries,  \* searchQueries
    patterns  \* how many ravPatterns there are

vars == <<pageVars, titleVars, at, ended, queries, patterns>>

ASSUME ReplAssumption == PageSize \in Nat

Place == {"prompt", "image", "imageWalk", "title", "titleWalk", "argMax",
          "align", "search", "compare", "exited", "panicked"}

TypeOK ==
    /\ PageTypeOK
    /\ TitleTypeOK
    /\ at \in Place
    /\ ended \in BOOLEAN
    /\ queries \subseteq Words
    /\ patterns \in 0 .. PageSize

Init ==
    /\ PageInit /\ TitleInit
    /\ at = "prompt" /\ ended = FALSE /\ queries = {} /\ patterns = 0

-----------------------------------------------------------------------------
(* main, CreateCommand, Run *)

\* The command is over and its variables are gone.
ToPrompt ==
    /\ at' = "prompt"
    /\ Forget /\ TitleForget
    /\ queries' = {} /\ patterns' = 0
    /\ UNCHANGED ended

\* An empty line, an unknown command, help, or find without a link; and every
\* turn of the loop once the input has ended, for main goes on after an error.
OtherLine ==
    /\ at = "prompt"
    /\ ended' \in {ended, TRUE}
    /\ UNCHANGED <<pageVars, titleVars, at, queries, patterns>>

Find ==
    /\ at = "prompt" /\ ~ended
    /\ at' = "image"
    /\ UNCHANGED <<pageVars, titleVars, ended, queries, patterns>>

HandlerQuit ==
    /\ at = "prompt" /\ ~ended
    /\ at' = "exited"
    /\ UNCHANGED <<pageVars, titleVars, ended, queries, patterns>>

-----------------------------------------------------------------------------
(* GetPinImageLink *)

\* ParsePinPage: any document, or an error.
ImagePage ==
    /\ at = "image"
    /\ \/ /\ \E p \in Page : Walk(p, "link")
          /\ at' = "imageWalk"
          /\ UNCHANGED <<titleVars, ended, queries, patterns>>
       \/ ToPrompt

\* Mutant: a page without an image is not answered.
ImageFoundOnly ==
    /\ at = "imageWalk" /\ Walked
    /\ match # 0
    /\ Forget
    /\ at' = "title"
    /\ UNCHANGED <<titleVars, ended, queries, patterns>>

ImageFound ==
    /\ at = "imageWalk" /\ Walked
    /\ \/ /\ match # 0
          /\ Forget
          /\ at' = "title"
          /\ UNCHANGED <<titleVars, ended, queries, patterns>>
       \/ match = 0 /\ ToPrompt

-----------------------------------------------------------------------------
(* NerSearch *)

\* Any error of NerSearch: there are no words, and Ravelry is asked all the
\* same.
NoWords ==
    /\ at' = "search"
    /\ Forget /\ TitleForget
    /\ UNCHANGED <<ended, queries, patterns>>

\* GetPinTitle gets the page again.
TitlePage ==
    /\ at = "title"
    /\ \/ /\ \E p \in Page : Walk(p, "title")
          /\ at' = "titleWalk"
          /\ UNCHANGED <<titleVars, ended, queries, patterns>>
       \/ NoWords

\* Ner, up to the answer of the model: any text may be in a title, and the program
\* panics if the model cannot be loaded or run, or if its scores are not of the
\* type ArgMax expects, which RealignTokens then has no predictions for.
TitleFound ==
    /\ at = "titleWalk" /\ Walked
    /\ \/ /\ match # 0
          /\ \E t \in Title : Tokenize(t)
          /\ Forget
          /\ at' = "argMax"
          /\ UNCHANGED <<ended, queries, patterns>>
       \/ NoWords
       \/ /\ match # 0
          /\ at' = "panicked"
          /\ UNCHANGED <<pageVars, titleVars, ended, queries, patterns>>

WalkPage ==
    /\ at \in {"imageWalk", "titleWalk"}
    /\ Enter \/ Return
    /\ UNCHANGED <<titleVars, at, ended, queries, patterns>>

ArgMaxRow ==
    /\ at = "argMax"
    /\ NextRow \/ NextWeight
    /\ UNCHANGED <<pageVars, at, ended, queries, patterns>>

\* GetLabelMap may not find the names of the labels.
LabelMap ==
    /\ at = "argMax" /\ RowDone /\ Predicted
    /\ \/ /\ at' = "align"
          /\ ArgMaxReturns
          /\ UNCHANGED <<pageVars, ended, queries, patterns>>
       \/ NoWords

RealignTokens ==
    /\ at = "align"
    /\ AlignToken
    /\ UNCHANGED <<pageVars, at, ended, queries, patterns>>

\* The words that are keys of the map.
NerSearch ==
    /\ at = "align" /\ Aligned
    /\ queries' = SearchQueries
    /\ at' = "search"
    /\ UNCHANGED <<pageVars, titleVars, ended, patterns>>

-----------------------------------------------------------------------------
(* The rest of HandlerFindRavelFromPin *)

\* The words joined in one query: an error, or at most a page of patterns.
GetRavelPatterns ==
    /\ at = "search"
    /\ \/ /\ patterns' \in 1 .. PageSize
          /\ at' = "compare"
          /\ UNCHANGED <<pageVars, titleVars, ended, queries>>
       \/ ToPrompt

\* CompareRavelImages: an image that cannot be hashed is an error nobody looks
\* at, and a page without a pattern is opened; when no pattern's photo can be
\* hashed, matches[0] ends the program.
CompareRavelImages ==
    /\ at = "compare"
    /\ \/ ToPrompt
       \/ /\ at' = "panicked"
          /\ UNCHANGED <<pageVars, titleVars, ended, queries, patterns>>

Step ==
    \/ ImagePage \/ ImageFound \/ TitlePage \/ TitleFound \/ WalkPage
    \/ ArgMaxRow \/ LabelMap \/ RealignTokens \/ NerSearch
    \/ GetRavelPatterns \/ CompareRavelImages

Next == OtherLine \/ Find \/ HandlerQuit \/ Step

Spec == Init /\ [][Next]_vars

\* One thread runs the program, the requests for pages and to Ravelry have a
\* timeout, and those for photos are assumed to be answered.
LiveSpec == Spec /\ WF_vars(Step)

-----------------------------------------------------------------------------
(* Properties *)

Ended == {"prompt", "exited", "panicked"}

\* A command that was started comes back to the prompt, or ends the program:
\* the walk over the page and the loops over the tokens all end.
EveryCommandEnds == (at \notin Ended) ~> (at \in Ended)

\* The stages of a command, in their order.
Stage == [place \in Place |->
            CASE place = "image" -> 1 [] place = "imageWalk" -> 2
              [] place = "title" -> 3 [] place = "titleWalk" -> 4
              [] place = "argMax" -> 5 [] place = "align" -> 6
              [] place = "search" -> 7 [] place = "compare" -> 8
              [] place \in Ended -> 9]

\* A later stage, or the loop of the stage brought on: the walk comes to the next
\* node or leaves the one it is at, ArgMax looks at one more token or score,
\* RealignTokens at one more token.
Advances ==
    \/ Stage[at'] > Stage[at]
    \/ /\ at' = at
       /\ \/ at \in {"imageWalk", "titleWalk"} /\ node # 0 /\ WalkAdvances
          \/ at = "argMax" /\ Len(pred') = Len(pred) + 1
          \/ /\ at = "argMax" /\ Len(pred') = Len(pred)
             /\ Len(scores') = Len(scores) + 1
          \/ at = "align" /\ num' = num + 1

\* Every step of a command advances it, so nothing is ever done again: the sizes of
\* the page and of its title bound how long a command takes.
CommandAdvances == [][at \notin Ended => Advances]_vars
=============================================================================
