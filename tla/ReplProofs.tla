----------------------------- MODULE ReplProofs -----------------------------
(***************************************************************************)
(* What Repl guarantees for documents of any size and titles of any        *)
(* length: the search of a page finds the first element, and the map of a  *)
(* title holds the recognised words but the last.                          *)
(***************************************************************************)
EXTENDS Repl, FiniteSetTheorems, TLAPS

-----------------------------------------------------------------------------
(* Types *)

\* What the types rest on: the loop over the tokens starts once ArgMax is done, and
\* there are words only once they are asked.
Typed ==
    /\ TypeOK
    /\ at = "argMax" => num = 1
    /\ at \in {"search", "compare", "panicked"} \/ queries = {}

LEMMA TitleTokens ==
    ASSUME NEW t \in Title \cup {<<>>}
    PROVE  t \in Seq(Token) /\ Len(t) \in Nat
<1>1. <<>> \in Seq(Token) /\ Len(<<>>) = 0
  OBVIOUS
<1>2. t \in Seq(Token)
  BY <1>1, TitleAssumption DEF IsTitle
<1>. QED BY <1>2

LEMMA NoPageIsPage == IsPage(NoPage) /\ NoPage.size = 1
  BY DEF IsPage, NoPage, Nodes, Kind, Name, InDocumentOrder

\* The walk stays in its document.
LEMMA WalkTyped ==
    ASSUME PageTypeOK, Enter \/ Return
    PROVE  PageTypeOK'
<1>1. IsPage(page) /\ page' = page /\ want' = want
  BY PageAssumption, NoPageIsPage DEF PageTypeOK, Enter, Return
<1>2. /\ node \in 1 .. page.size /\ page.size \in Nat
  BY <1>1 DEF PageTypeOK, Enter, Return, IsPage, Nodes
<1>3. page.parent[node] \in {0} \cup Nodes(page)
  <2>1. node = 1 \/ node \in 2 .. page.size
    BY <1>2
  <2>. QED BY <1>1, <1>2, <2>1 DEF IsPage, InDocumentOrder, Nodes
<1>4. node' \in {0} \cup Nodes(page)
  <2>1. CASE Enter
    BY <1>2, <2>1 DEF Enter, HasChild, Nodes, PageTypeOK
  <2>2. CASE Return
    BY <1>3, <2>2 DEF Return
  <2>. QED BY <2>1, <2>2
<1>. QED BY <1>1, <1>2, <1>4 DEF PageTypeOK, Enter, Return, Nodes

LEMMA ForgetTyped == Forget => PageTypeOK'
  BY NoPageIsPage DEF Forget, PageTypeOK, Nodes

LEMMA StartTyped ==
    ASSUME NEW p \in Page, NEW what \in Name, Walk(p, what)
    PROVE  PageTypeOK'
<1>1. 1 \in Nodes(p)
  BY PageAssumption DEF IsPage, Nodes
<1>. QED BY <1>1 DEF Walk, PageTypeOK

\* A title that has just been cut up, and none at all.
LEMMA FreshTyped ==
    ASSUME title' \in Title \cup {<<>>}, ResetRow, pred' = <<>>,
           num' = 1, ent' = {}, keys' = {}
    PROVE  TitleTypeOK'
<1>1. End' \in Nat
  BY TitleTokens DEF End
<1>2. 0 \in Label
  BY TitleAssumption DEF Label
<1>3. <<>> \in Seq(Logit) /\ <<>> \in Seq(Label) /\ Len(<<>>) = 0
  OBVIOUS
<1>4. MaxLabel \in Nat /\ Label' = Label
  BY TitleAssumption DEF Label
<1>5. (/\ scores \in Seq(Logit) /\ Len(scores) <= MaxLabel + 1
        /\ weightMax \in Logit \cup {-1} /\ weightMaxInd \in Label)'
  BY <1>2, <1>3, <1>4 DEF ResetRow
<1>6. (pred \in Seq(Label) /\ Len(pred) <= End)'
  BY <1>1, <1>3, <1>4
<1>7. (num \in 1 .. End + 1)'
  <2>1. \A n \in Nat : 1 \in 1 .. n + 1
    OBVIOUS
  <2>. QED BY <1>1, <2>1
<1>. QED BY <1>5, <1>6, <1>7 DEF TitleTypeOK

LEMMA RowTyped ==
    ASSUME TitleTypeOK, NextRow \/ NextWeight
    PROVE  TitleTypeOK'
<1>1. End \in Nat /\ MaxLabel \in Nat /\ Logit \subseteq Int /\ 0 \in Label
  BY TitleAssumption, TitleTokens DEF End, TitleTypeOK, Label
<1>2. End' = End /\ Label' = Label /\ UNCHANGED <<title, num, ent, keys>>
  BY DEF NextRow, NextWeight, End, Label
<1>3. CASE NextRow
  BY <1>1, <1>2, <1>3 DEF NextRow, ResetRow, TitleTypeOK
<1>4. CASE NextWeight
  <2>1. pred # <<>> /\ Len(scores) \in 0 .. MaxLabel
    BY <1>1, <1>4 DEF NextWeight, RowDone, TitleTypeOK
  <2>2. weightMaxInd' \in Label /\ weightMax' \in Logit \cup {-1}
    BY <1>4, <2>1 DEF NextWeight, TitleTypeOK, Label
  <2>3. pred' \in Seq(Label) /\ Len(pred') = Len(pred)
    BY <1>4, <2>1, <2>2 DEF NextWeight, TitleTypeOK
  <2>4. scores' \in Seq(Logit) /\ Len(scores') = Len(scores) + 1
    BY <1>4 DEF NextWeight, TitleTypeOK
  <2>. QED BY <1>1, <1>2, <2>1, <2>2, <2>3, <2>4 DEF TitleTypeOK
<1>. QED BY <1>3, <1>4

LEMMA ReturnsTyped == TitleTypeOK /\ ArgMaxReturns => TitleTypeOK'
<1>1. 0 \in Label
  BY TitleAssumption DEF Label
<1>. QED BY <1>1, TitleAssumption DEF TitleTypeOK, ArgMaxReturns, ResetRow, End, Label

LEMMA AlignTyped == ASSUME TitleTypeOK, AlignToken PROVE TitleTypeOK'
<1>1. End \in Nat /\ num \in 1 .. End /\ num' = num + 1
  BY TitleTokens DEF AlignToken, TitleTypeOK, End
<1>2. UNCHANGED <<title, scores, weightMax, weightMaxInd, pred>> /\ End' = End
  BY DEF AlignToken, rowVars, End
<1>3. 1 .. num - 1 \subseteq 1 .. num' - 1 /\ num \in 1 .. num' - 1
  BY <1>1
<1>4. ent' \subseteq 1 .. num' - 1
  BY <1>3 DEF AlignToken, TitleTypeOK
<1>5. keys' \subseteq SUBSET (1 .. num' - 1)
  BY <1>3 DEF AlignToken, TitleTypeOK
<1>. QED BY <1>1, <1>2, <1>4, <1>5 DEF TitleTypeOK, Label

LEMMA PageStepTyped == PageTypeOK /\ [Next]_vars => PageTypeOK'
<1>. SUFFICES ASSUME PageTypeOK, [Next]_vars PROVE PageTypeOK'
  OBVIOUS
<1>1. CASE UNCHANGED pageVars
  BY <1>1 DEF PageTypeOK, pageVars
<1>2. CASE Forget
  BY <1>2, ForgetTyped
<1>3. CASE \E p \in Page : Walk(p, "link") \/ Walk(p, "title")
  BY <1>3, StartTyped DEF Name
<1>4. CASE Enter \/ Return
  BY <1>4, WalkTyped
<1>. QED BY <1>1, <1>2, <1>3, <1>4
         DEF Next, Step, vars, OtherLine, Find, HandlerQuit, ImagePage, ImageFound,
             TitlePage, TitleFound, WalkPage, ArgMaxRow, LabelMap, RealignTokens,
             NerSearch, GetRavelPatterns, CompareRavelImages, ToPrompt, NoWords

LEMMA TitleStepTyped == TitleTypeOK /\ [Next]_vars => TitleTypeOK'
<1>. SUFFICES ASSUME TitleTypeOK, [Next]_vars PROVE TitleTypeOK'
  OBVIOUS
<1>1. CASE UNCHANGED titleVars
  BY <1>1 DEF TitleTypeOK, titleVars, End, Label
<1>2. CASE TitleForget \/ \E t \in Title : Tokenize(t)
  BY <1>2, FreshTyped DEF TitleForget, Tokenize
<1>3. CASE NextRow \/ NextWeight
  BY <1>3, RowTyped
<1>4. CASE ArgMaxReturns
  BY <1>4, ReturnsTyped
<1>5. CASE AlignToken
  BY <1>5, AlignTyped
<1>. QED BY <1>1, <1>2, <1>3, <1>4, <1>5
         DEF Next, Step, vars, OtherLine, Find, HandlerQuit, ImagePage, ImageFound,
             TitlePage, TitleFound, WalkPage, ArgMaxRow, LabelMap, RealignTokens,
             NerSearch, GetRavelPatterns, CompareRavelImages, ToPrompt, NoWords

LEMMA TypedInductive == Typed /\ [Next]_vars => Typed'
<1>. SUFFICES ASSUME Typed, [Next]_vars PROVE Typed'
  OBVIOUS
<1>1. PageTypeOK' /\ TitleTypeOK'
  BY PageStepTyped, TitleStepTyped DEF Typed, TypeOK
<1>2. (at \in Place /\ ended \in BOOLEAN)'
  BY DEF Typed, TypeOK, Place, Next, Step, vars, OtherLine, Find, HandlerQuit, ImagePage,
         ImageFound, TitlePage, TitleFound, WalkPage, ArgMaxRow, LabelMap,
         RealignTokens, NerSearch, GetRavelPatterns, CompareRavelImages, ToPrompt,
         NoWords
<1>3. (patterns \in 0 .. PageSize)'
  <2>1. 0 \in 0 .. PageSize /\ 1 .. PageSize \subseteq 0 .. PageSize
    BY ReplAssumption
  <2>2. patterns' = patterns \/ patterns' = 0 \/ patterns' \in 1 .. PageSize
    BY DEF Next, Step, vars, OtherLine, Find, HandlerQuit, ImagePage,
         ImageFound, TitlePage, TitleFound, WalkPage, ArgMaxRow, LabelMap,
         RealignTokens, NerSearch, GetRavelPatterns, CompareRavelImages, ToPrompt,
         NoWords
  <2>. QED BY <2>1, <2>2 DEF Typed, TypeOK
<1>4. (at = "argMax" => num = 1)'
  BY DEF Typed, TypeOK, Next, Step, vars, titleVars, OtherLine, Find, HandlerQuit,
         ImagePage, ImageFound, TitlePage, TitleFound, WalkPage, ArgMaxRow, LabelMap,
         RealignTokens, NerSearch, GetRavelPatterns, CompareRavelImages, ToPrompt,
         NoWords, Tokenize, NextRow, NextWeight
<1>5. (at \in {"search", "compare", "panicked"} \/ queries = {})'
  BY DEF Typed, Next, Step, vars, OtherLine, Find, HandlerQuit, ImagePage,
         ImageFound, TitlePage, TitleFound, WalkPage, ArgMaxRow, LabelMap,
         RealignTokens, NerSearch, GetRavelPatterns, CompareRavelImages, ToPrompt,
         NoWords
<1>6. (queries \subseteq Words)'
  <2>1. CASE queries' = {}
    BY <2>1
  <2>2. CASE UNCHANGED <<title, queries>>
    <3>1. End' = End /\ EmptyWord' = EmptyWord /\ \A h : Word(h)' = Word(h)
      BY <2>2 DEF EmptyWord, Word, End
    <3>2. Words' = Words
      BY <2>2, <3>1 DEF Words
    <3>. QED BY <2>2, <3>2 DEF Typed, TypeOK
  <2>3. CASE NerSearch
    <3>1. title' = title
      BY <2>3 DEF NerSearch, titleVars
    <3>2. End' = End /\ EmptyWord' = EmptyWord /\ \A h : Word(h)' = Word(h)
      BY <3>1 DEF EmptyWord, Word, End
    <3>3. Words' = Words
      BY <3>1, <3>2 DEF Words
    <3>. QED BY <2>3, <3>3 DEF NerSearch, SearchQueries
  <2>. QED
    BY <2>1, <2>2, <2>3
       DEF Typed, Next, Step, vars, titleVars, OtherLine, Find, HandlerQuit, ImagePage,
           ImageFound, TitlePage, TitleFound, WalkPage, ArgMaxRow, LabelMap,
           RealignTokens, GetRavelPatterns, CompareRavelImages, ToPrompt,
           NoWords, NextRow, NextWeight, ArgMaxReturns, AlignToken
<1>. QED BY <1>1, <1>2, <1>4, <1>5, <1>6, <1>3 DEF Typed, TypeOK

LEMMA InitTyped == Init => Typed
<1>. SUFFICES ASSUME Init PROVE Typed
  OBVIOUS
<1>1. PageTypeOK
  BY NoPageIsPage DEF Init, PageInit, PageTypeOK, Nodes
<1>2. TitleTypeOK
  <2>1. 0 \in Label /\ MaxLabel \in Nat
    BY TitleAssumption DEF Label
  <2>2. Len(<<>>) = 0 /\ <<>> \in Seq(Logit) /\ <<>> \in Seq(Label)
    OBVIOUS
  <2>3. weightMax \in Logit \cup {-1} /\ weightMaxInd \in Label
    BY <2>1 DEF Init, TitleInit
  <2>4. scores \in Seq(Logit) /\ Len(scores) <= MaxLabel + 1
    BY <2>1, <2>2 DEF Init, TitleInit
  <2>5. pred \in Seq(Label) /\ Len(pred) <= End /\ num \in 1 .. End + 1
    BY <2>1, <2>2 DEF Init, TitleInit, End
  <2>. QED BY <2>3, <2>4, <2>5 DEF Init, TitleInit, TitleTypeOK
<1>3. patterns \in 0 .. PageSize
  BY ReplAssumption DEF Init
<1>4. at \in Place /\ ended \in BOOLEAN /\ queries = {} /\ at # "argMax"
  BY DEF Init, Place
<1>. QED BY <1>1, <1>2, <1>3, <1>4 DEF Typed, TypeOK

\* The program's variables keep their types.
THEOREM TypesStay == Spec => []TypeOK
<1>1. Typed => TypeOK
  BY DEF Typed
<1>. QED BY <1>1, InitTyped, TypedInductive, PTL DEF Spec

-----------------------------------------------------------------------------
(* The walk over a page *)

\* The part of the document that ends at c is behind the walk, which is about to
\* leave the node: nothing in it matches, and it ends where the nodes below do.
Behind(c) == (\A n \in 1 .. c : ~Matches(n)) /\ EndsAt(node, c)

\* What is known while the calls run.
OnPage ==
    /\ IsPage(page)
    /\ node \in {0} \cup Nodes(page)
    /\ node # 0 => match = 0
    /\ node # 0 /\ ~back => \A n \in 1 .. node - 1 : ~Matches(n)
    /\ node # 0 /\ back => \E c : Behind(c)
    /\ FindsFirst

\* In document order the subtrees of siblings follow one another.
LEMMA NextSibling ==
    ASSUME NEW p, IsPage(p), NEW n \in 1 .. p.size, NEW c \in n .. p.size,
           \A k \in n + 1 .. c : p.parent[k] >= n,
           c = p.size \/ p.parent[c + 1] < n
    PROVE  /\ n = 1 => p.parent[n] = 0 /\ c = p.size
           /\ n # 1 => p.parent[n] \in 1 .. n - 1
           /\ c # p.size => p.parent[c + 1] <= p.parent[n]
           /\ \A m \in n + 1 .. p.size :
                 /\ p.parent[m] = p.parent[n]
                 /\ \A k \in n + 1 .. m - 1 : p.parent[k] # p.parent[n]
                 => m = c + 1
<1>. USE DEF IsPage, Nodes, InDocumentOrder
<1>1. p.size \in Nat /\ n \in Nat /\ c \in Nat
  OBVIOUS
<1>2. \A k \in 2 .. p.size :
        /\ p.parent[k] \in 1 .. k - 1
        /\ \A l \in p.parent[k] + 1 .. k - 1 : p.parent[l] >= p.parent[k]
  OBVIOUS
<1>3. n = 1 => p.parent[n] = 0 /\ c = p.size
  <2>1. c # p.size => c + 1 \in 2 .. p.size
    BY <1>1
  <2>. QED BY <1>1, <1>2, <2>1
<1>4. n # 1 => p.parent[n] \in 1 .. n - 1
  BY <1>1, <1>2
<1>5. p.parent[n] \in Nat /\ p.parent[n] < n
  BY <1>1, <1>3, <1>4
<1>6. c # p.size => p.parent[c + 1] <= p.parent[n]
  <2>. SUFFICES ASSUME c # p.size PROVE p.parent[c + 1] <= p.parent[n]
    OBVIOUS
  <2>1. c + 1 \in 2 .. p.size
    BY <1>1
  <2>2. n \in p.parent[c + 1] + 1 .. c
    BY <1>1, <1>2, <2>1
  <2>. QED BY <1>1, <1>2, <2>1, <2>2
<1>7. ASSUME NEW m \in n + 1 .. p.size, p.parent[m] = p.parent[n],
             \A k \in n + 1 .. m - 1 : p.parent[k] # p.parent[n]
      PROVE  m = c + 1
  <2>1. m > c
    BY <1>1, <1>5, <1>7
  <2>2. CASE m > c + 1
    <3>1. c + 1 \in n + 1 .. m - 1 /\ c + 1 \in 2 .. p.size /\ m \in 2 .. p.size
      BY <1>1, <2>2
    <3>2. c + 1 \in p.parent[m] + 1 .. m - 1
      BY <1>1, <1>5, <1>7, <3>1
    <3>3. p.parent[c + 1] >= p.parent[n]
      BY <1>2, <1>7, <3>1, <3>2
    <3>4. p.parent[c + 1] <= p.parent[n] /\ p.parent[c + 1] \in Nat
      BY <1>1, <1>2, <1>6, <3>1
    <3>. QED BY <1>5, <1>7, <3>1, <3>3, <3>4
  <2>. QED BY <1>1, <2>1, <2>2
<1>. QED BY <1>3, <1>4, <1>6, <1>7

\* A node without a child ends at itself.
LEMMA LeafEnds ==
    ASSUME IsPage(page), NEW n \in Nodes(page), ~HasChild(n)
    PROVE  EndsAt(n, n)
<1>1. n \in 1 .. page.size /\ page.size \in Nat
  BY DEF IsPage, Nodes
<1>2. n # page.size => page.parent[n + 1] \in 1 .. n
  <2>1. n # page.size => n + 1 \in 2 .. page.size
    BY <1>1
  <2>. QED BY <1>1, <2>1 DEF IsPage, InDocumentOrder
<1>. QED BY <1>1, <1>2 DEF EndsAt, HasChild

LEMMA EnterStays == ASSUME OnPage, Enter PROVE OnPage'
<1>. USE DEF OnPage, Enter, Nodes, FindsFirst, Walked
<1>1. /\ page' = page /\ want' = want /\ node \in 1 .. page.size
      /\ page.size \in Nat /\ match = 0 /\ ~back
      /\ \A n : Matches(n)' <=> Matches(n)
  BY DEF Matches, CheckFoundImgLink, CheckFoundTitle, HasChild, IsPage
<1>2. CASE Matches(node) /\ match' = node /\ node' = 0
  BY <1>1, <1>2
<1>3. CASE ~Matches(node) /\ HasChild(node) /\ node' = node + 1 /\ UNCHANGED <<back, match>>
  BY <1>1, <1>3 DEF HasChild
<1>4. CASE ~Matches(node) /\ ~HasChild(node) /\ back' = TRUE /\ UNCHANGED <<node, match>>
  <2>1. EndsAt(node, node)'
    BY <1>1, <1>4, LeafEnds DEF EndsAt
  <2>2. Behind(node)'
    BY <1>1, <1>4, <2>1 DEF Behind
  <2>. QED BY <1>1, <1>4, <2>2
<1>. QED BY <1>2, <1>3, <1>4

LEMMA Between ==
    ASSUME NEW m \in Nat, NEW c \in Nat, NEW s \in Nat, c <= s,
           NEW k \in m + 1 .. c
    PROVE  k \in 1 .. s
  OBVIOUS

\* A node ends at one place only.
LEMMA OneEnd ==
    ASSUME IsPage(page), NEW n \in Nodes(page), NEW c, EndsAt(n, c), NEW d, EndsAt(n, d)
    PROVE  c = d
<1>1. page.size \in Nat /\ n \in Nat /\ c \in Nat /\ d \in Nat
  BY DEF IsPage, Nodes, EndsAt
<1>2. ASSUME NEW x \in Nat, EndsAt(n, x), NEW y \in Nat, EndsAt(n, y) PROVE ~(x < y)
  <2>. SUFFICES ASSUME x < y PROVE FALSE
    OBVIOUS
  <2>1. x # page.size /\ x + 1 \in n + 1 .. y /\ x + 1 \in 1 .. page.size
    BY <1>1, <1>2 DEF EndsAt
  <2>2. page.parent[x + 1] < n /\ page.parent[x + 1] >= n
    BY <1>2, <2>1 DEF EndsAt
  <2>3. page.parent[x + 1] \in Nat
    BY <2>1 DEF IsPage, Nodes
  <2>. QED BY <1>1, <2>2, <2>3
<1>. QED BY <1>1, <1>2

\* The next sibling of a node follows what is below that node.
LEMMA SiblingFollows ==
    ASSUME IsPage(page), NEW n \in Nodes(page), NEW c, EndsAt(n, c),
           NEW m \in Nodes(page), Sibling(n, m)
    PROVE  m = c + 1
<1>1. n \in 1 .. page.size /\ c \in n .. page.size /\ page.size \in Nat
  BY DEF EndsAt, Nodes, IsPage
<1>2. m \in n + 1 .. page.size
  BY <1>1 DEF Sibling, Nodes
<1>. QED BY <1>1, <1>2, NextSibling DEF EndsAt, Sibling

\* The last child of a node ends where the node does.
LEMMA LastChildEnds ==
    ASSUME IsPage(page), NEW n \in Nodes(page), n # 1, NEW c, EndsAt(n, c),
           \A m \in Nodes(page) : ~Sibling(n, m)
    PROVE  page.parent[n] \in 1 .. n - 1 /\ EndsAt(page.parent[n], c)
<1>. DEFINE up == page.parent[n]
<1>1. n \in 1 .. page.size /\ c \in n .. page.size /\ page.size \in Nat
  BY DEF EndsAt, Nodes, IsPage
<1>2. /\ up \in 1 .. n - 1
      /\ c # page.size => page.parent[c + 1] <= up
      /\ \A k \in up + 1 .. n - 1 : page.parent[k] >= up
  <2>1. n \in 2 .. page.size
    BY <1>1
  <2>. QED BY <1>1, <2>1, NextSibling DEF EndsAt, IsPage, InDocumentOrder
<1>3. \A k \in n + 1 .. c : page.parent[k] >= n
  BY DEF EndsAt
<1>4. page.parent \in [1 .. page.size -> Nat]
  BY DEF IsPage, Nodes
<1>. HIDE DEF up
<1>5. \A k \in up + 1 .. c : page.parent[k] >= up
  <2>. SUFFICES ASSUME NEW k \in up + 1 .. c PROVE page.parent[k] >= up
    OBVIOUS
  <2>1. page.parent[k] \in Nat
    <3>1. up \in Nat /\ c \in Nat /\ c <= page.size
      BY <1>1, <1>2
    <3>2. k \in 1 .. page.size
      BY <1>1, <3>1, Between
    <3>. QED BY <1>4, <3>2
  <2>2. k < n \/ k = n \/ k > n
    BY <1>1, <1>2
  <2>3. CASE k > n
    BY <1>1, <1>2, <1>3, <2>1, <2>3
  <2>4. CASE k = n
    BY <1>1, <1>2, <2>4 DEF up
  <2>5. CASE k < n
    BY <1>1, <1>2, <2>5
  <2>. QED BY <2>2, <2>3, <2>4, <2>5
<1>6. c = page.size \/ page.parent[c + 1] < up
  <2>. SUFFICES ASSUME c # page.size PROVE page.parent[c + 1] < up
    OBVIOUS
  <2>1. c + 1 \in Nodes(page) /\ n < c + 1
    BY <1>1 DEF Nodes
  <2>2. \A k \in n + 1 .. c : page.parent[k] # page.parent[n]
    BY <1>1, <1>2, <1>3 DEF up
  <2>3. page.parent[c + 1] # up
    BY <1>1, <2>1, <2>2 DEF Sibling, up
  <2>4. page.parent[c + 1] \in Nat
    BY <1>4, <2>1 DEF Nodes
  <2>. QED BY <1>2, <2>3, <2>4
<1>7. c \in up .. page.size
  BY <1>1, <1>2
<1>8. up \in 1 .. n - 1 /\ EndsAt(up, c)
  BY <1>2, <1>5, <1>6, <1>7 DEF EndsAt
<1>. QED BY <1>8 DEF up

LEMMA ReturnStays == ASSUME OnPage, Return PROVE OnPage'
<1>1. /\ page' = page /\ want' = want /\ match' = 0 /\ node \in Nodes(page)
      /\ page.size \in Nat /\ match = 0 /\ back /\ IsPage(page)
      /\ \A n : Matches(n)' <=> Matches(n)
      /\ \A n, c : EndsAt(n, c)' <=> EndsAt(n, c)
  BY DEF OnPage, Return, Matches, CheckFoundImgLink, CheckFoundTitle, HasChild, IsPage,
         EndsAt
<1>. PICK c : Behind(c)
  BY <1>1 DEF OnPage, Return
<1>2. c \in Nat /\ node \in Nat /\ EndsAt(node, c) /\ c \in node .. page.size
  BY <1>1 DEF Behind, EndsAt, Nodes
<1>3. ASSUME NEW m \in Nodes(page), Sibling(node, m), node' = m, back' = FALSE
      PROVE  OnPage'
  <2>1. m = c + 1
    BY <1>1, <1>2, <1>3, SiblingFollows
  <2>2. \A n \in 1 .. node' - 1 : ~Matches(n)'
    BY <1>1, <1>2, <1>3, <2>1 DEF Behind
  <2>. QED BY <1>1, <1>2, <1>3, <2>2 DEF OnPage, FindsFirst, Walked, Nodes
<1>4. ASSUME \A m \in Nodes(page) : ~Sibling(node, m),
             node' = page.parent[node], back' = back
      PROVE  OnPage'
  <2>1. CASE node = 1
    <3>1. node' = 0 /\ c = page.size
      BY <1>1, <1>2, <1>4, <2>1, NextSibling DEF EndsAt, Nodes
    <3>. QED BY <1>1, <1>4, <3>1 DEF OnPage, FindsFirst, Walked, Behind, Nodes
  <2>2. CASE node # 1
    <3>1. node' \in 1 .. node - 1 /\ EndsAt(node', c)
      BY <1>1, <1>2, <1>4, <2>2, LastChildEnds
    <3>2. Behind(c)'
      BY <1>1, <3>1 DEF Behind
    <3>3. node' \in Nodes(page) /\ node' # 0
      BY <1>1, <3>1 DEF Nodes
    <3>. QED BY <1>1, <1>4, <3>2, <3>3 DEF OnPage, FindsFirst, Walked
  <2>. QED BY <2>1, <2>2
<1>. QED BY <1>3, <1>4 DEF Return

LEMMA ForgetStays == Forget => OnPage'
  BY NoPageIsPage DEF Forget, OnPage, FindsFirst, Walked

LEMMA WalkStays ==
    ASSUME NEW p \in Page, NEW what \in Name, Walk(p, what)
    PROVE  OnPage'
<1>1. IsPage(p) /\ 1 \in Nodes(p)
  BY PageAssumption DEF IsPage, Nodes
<1>2. /\ page' = p /\ node' = 1 /\ back' = FALSE /\ match' = 0
      /\ \A n \in 1 .. node' - 1 : FALSE
  BY DEF Walk
<1>. QED BY <1>1, <1>2 DEF OnPage, FindsFirst, Walked

LEMMA PageInductive == OnPage /\ [Next]_vars => OnPage'
<1>. SUFFICES ASSUME OnPage, [Next]_vars PROVE OnPage'
  OBVIOUS
<1>1. CASE UNCHANGED pageVars
  BY <1>1 DEF OnPage, FindsFirst, Walked, Behind, EndsAt, Matches, CheckFoundImgLink,
              CheckFoundTitle, HasChild, pageVars
<1>2. CASE Forget
  BY <1>2, ForgetStays
<1>3. CASE \E p \in Page : Walk(p, "link") \/ Walk(p, "title")
  BY <1>3, WalkStays DEF Name
<1>4. CASE Enter \/ Return
  BY <1>4, EnterStays, ReturnStays
<1>. QED BY <1>1, <1>2, <1>3, <1>4
         DEF Next, Step, vars, OtherLine, Find, HandlerQuit, ImagePage, ImageFound,
             TitlePage, TitleFound, WalkPage, ArgMaxRow, LabelMap, RealignTokens,
             NerSearch, GetRavelPatterns, CompareRavelImages, ToPrompt, NoWords

LEMMA InitOnPage == Init => OnPage
  BY NoPageIsPage DEF Init, PageInit, OnPage, FindsFirst, Walked

\* The search of a page finds the first element that passes the check, in a
\* document of any size and shape (services/pintrest.go 58-77).
THEOREM FirstIsFound == Spec => []FindsFirst
<1>1. OnPage => FindsFirst
  BY DEF OnPage
<1>. QED BY <1>1, InitOnPage, PageInductive, PTL DEF Spec

\* Once the walk is to leave a node, it has come to where the node ends.
LEMMA ReachedEnd ==
    ASSUME IsPage(page), node \in Nodes(page), back, NEW c, EndsAt(node, c)
    PROVE  Reached = c
<1>1. c \in Nodes(page)
  BY DEF EndsAt, Nodes, IsPage
<1>2. EndsAt(node, Reached)
  BY <1>1 DEF Reached
<1>. QED BY <1>2, OneEnd

LEMMA ReachedNext ==
    ASSUME IsPage(page), page' = page, node' \in Nodes(page), back',
           NEW c, EndsAt(node', c)
    PROVE  Reached' = c
<1>1. Reached' = CHOOSE d \in Nodes(page) : EndsAt(node', d)
  BY DEF Reached, EndsAt, Nodes
<1>2. c \in Nodes(page)
  BY DEF EndsAt, Nodes, IsPage
<1>3. EndsAt(node', Reached')
  BY <1>1, <1>2
<1>. QED BY <1>3, OneEnd

LEMMA EnterAdvances == ASSUME OnPage, Enter PROVE WalkAdvances
<1>1. /\ IsPage(page) /\ page' = page /\ node \in Nodes(page) /\ ~back
      /\ \A n, c : EndsAt(n, c)' <=> EndsAt(n, c)
  BY DEF OnPage, Enter, EndsAt
<1>2. Reached = node
  BY <1>1 DEF Reached
<1>3. CASE node' = node + 1 /\ back' = back
  BY <1>1, <1>2, <1>3 DEF Reached, WalkAdvances
<1>4. CASE ~HasChild(node) /\ back' = TRUE /\ node' = node
  <2>1. EndsAt(node', node)
    BY <1>1, <1>4, LeafEnds
  <2>2. Reached' = node
    BY <1>1, <1>4, <2>1, ReachedNext
  <2>. QED BY <1>1, <1>2, <1>4, <2>2 DEF WalkAdvances
<1>. QED BY <1>3, <1>4 DEF Enter, WalkAdvances

LEMMA ReturnAdvances == ASSUME OnPage, Return PROVE WalkAdvances
<1>1. /\ IsPage(page) /\ page' = page /\ node \in Nodes(page) /\ back
      /\ \A n, c : EndsAt(n, c)' <=> EndsAt(n, c)
  BY DEF OnPage, Return, EndsAt
<1>. PICK c : EndsAt(node, c)
  BY <1>1 DEF OnPage, Behind, Nodes, IsPage
<1>2. Reached = c
  BY <1>1, ReachedEnd
<1>3. ASSUME NEW m \in Nodes(page), Sibling(node, m), node' = m, back' = FALSE
      PROVE  WalkAdvances
  <2>1. node' = c + 1
    BY <1>1, <1>3, SiblingFollows
  <2>. QED BY <1>2, <1>3, <2>1 DEF WalkAdvances, Reached
<1>4. ASSUME \A m \in Nodes(page) : ~Sibling(node, m),
             node' = page.parent[node], back' = back
      PROVE  WalkAdvances
  <2>1. CASE node = 1
    <3>1. page.parent[1] = 0
      BY <1>1 DEF IsPage
    <3>. QED BY <1>4, <2>1, <3>1 DEF WalkAdvances
  <2>2. CASE node # 1
    <3>1. node' \in 1 .. node - 1 /\ EndsAt(node', c)
      BY <1>1, <1>4, <2>2, LastChildEnds
    <3>2. node \in 1 .. page.size /\ page.size \in Nat
      BY <1>1 DEF Nodes, IsPage
    <3>3. node' \in Nodes(page) /\ node' < node
      BY <3>1, <3>2 DEF Nodes
    <3>4. Reached' = c
      BY <1>1, <1>4, <3>1, <3>3, ReachedNext
    <3>. QED BY <1>1, <1>2, <1>4, <3>3, <3>4 DEF WalkAdvances
  <2>. QED BY <2>1, <2>2
<1>. QED BY <1>3, <1>4 DEF Return

-----------------------------------------------------------------------------
(* The labels *)

\* The label picked so far is in its place, and the maximum is the score of that
\* label and of no label is there a better one, or the -1 it started from.
RowSoFar ==
    /\ scores # <<>> => pred # <<>> /\ pred[Len(pred)] = weightMaxInd
    /\ \A l \in DOMAIN scores : scores[l] <= weightMax
    /\ \/ weightMaxInd = 0 /\ weightMax = -1
       \/ /\ weightMaxInd + 1 \in DOMAIN scores
          /\ weightMax = scores[weightMaxInd + 1]

LEMMA FreshRow == ResetRow => RowSoFar'
  BY DEF ResetRow, RowSoFar

LEMMA WeightStays == ASSUME TitleTypeOK, RowSoFar, NextWeight PROVE RowSoFar'
<1>. PICK weight \in Logit :
       /\ scores' = Append(scores, weight)
       /\ \/ weight > weightMax /\ weightMax' = weight /\ weightMaxInd' = Len(scores)
          \/ weight <= weightMax /\ UNCHANGED <<weightMax, weightMaxInd>>
  BY DEF NextWeight
<1>1. /\ scores \in Seq(Logit) /\ Logit \subseteq Int /\ weight \in Int
      /\ weightMax \in Int /\ weightMaxInd \in Nat
  <2>1. Logit \subseteq Int /\ Label \subseteq Nat
    BY TitleAssumption DEF Label
  <2>2. weightMax \in Int
    BY <2>1 DEF TitleTypeOK
  <2>. QED BY <2>1, <2>2 DEF TitleTypeOK
<1>2. \A l \in DOMAIN scores : scores[l] \in Int
  <2>1. \A l \in DOMAIN scores : scores[l] \in Logit
    BY <1>1
  <2>. QED BY <1>1, <2>1
<1>3. /\ DOMAIN scores' = DOMAIN scores \cup {Len(scores) + 1}
      /\ \A l \in DOMAIN scores : scores'[l] = scores[l]
      /\ scores'[Len(scores) + 1] = weight /\ Len(scores) \in Nat
      /\ Len(scores) + 1 \in DOMAIN scores'
  BY <1>1
<1>4. pred' # <<>> /\ pred'[Len(pred')] = weightMaxInd'
  <2>1. pred \in Seq(Label) /\ pred # <<>>
    BY DEF NextWeight, RowDone, TitleTypeOK
  <2>2. pred' = [pred EXCEPT ![Len(pred)] = weightMaxInd']
    BY DEF NextWeight
  <2>3. Len(pred) \in DOMAIN pred /\ Len(pred') = Len(pred)
    BY <2>1, <2>2
  <2>. QED BY <2>1, <2>2, <2>3
<1>5. \A l \in DOMAIN scores' : scores'[l] <= weightMax'
  <2>1. weight <= weightMax' /\ weightMax <= weightMax' /\ weightMax' \in Int
    BY <1>1
  <2>. QED BY <1>1, <1>3, <1>2, <2>1 DEF RowSoFar
<1>6. CASE weight > weightMax /\ weightMax' = weight /\ weightMaxInd' = Len(scores)
  BY <1>3, <1>4, <1>5, <1>6 DEF RowSoFar
<1>7. CASE UNCHANGED <<weightMax, weightMaxInd>>
  BY <1>3, <1>4, <1>5, <1>7 DEF RowSoFar
<1>. QED BY <1>6, <1>7

LEMMA RowInductive == TypeOK /\ RowSoFar /\ [Next]_vars => RowSoFar'
<1>. SUFFICES ASSUME TypeOK, RowSoFar, [Next]_vars PROVE RowSoFar'
  OBVIOUS
<1>1. CASE UNCHANGED <<scores, weightMax, weightMaxInd, pred>>
  BY <1>1 DEF RowSoFar
<1>2. CASE ResetRow
  BY <1>2, FreshRow
<1>3. CASE NextWeight
  BY <1>3, WeightStays DEF TypeOK
<1>. QED BY <1>1, <1>2, <1>3
         DEF Next, Step, vars, titleVars, rowVars, OtherLine, Find, HandlerQuit,
             ImagePage, ImageFound, TitlePage, TitleFound, WalkPage, ArgMaxRow,
             LabelMap, RealignTokens, NerSearch, GetRavelPatterns, CompareRavelImages,
             ToPrompt, NoWords, TitleForget, Tokenize, NextRow, ArgMaxReturns, AlignToken

\* Of the labels ArgMax has looked at it has put the best in place, and label 0 only
\* when no score is above -1, for any number of labels and any scores (ner.go 44-68).
THEOREM BestIsPredicted == Spec => []PredictsBest
<1>1. Init => RowSoFar
  BY DEF Init, TitleInit, RowSoFar
<1>2. RowSoFar => PredictsBest
  <2>. SUFFICES ASSUME RowSoFar, pred # <<>>, scores # <<>>
                PROVE  LET p == pred[Len(pred)]
                       IN  \/ \A l \in DOMAIN scores : scores[l] <= scores[p + 1]
                           \/ p = 0 /\ \A l \in DOMAIN scores : scores[l] <= -1
    BY DEF PredictsBest, RowSoFar
  <2>. QED BY DEF RowSoFar
<1>. QED BY <1>1, <1>2, RowInductive, TypesStay, PTL DEF Spec

-----------------------------------------------------------------------------
(* The map of entities *)

\* The recognised words the loop has passed.
Passed == {h \in Recognised : h < num}

\* The last of them is being put together; those before it are in the map, where
\* the first has left the empty key.
SoFar ==
    \/ /\ Passed = {} /\ ent = {} /\ keys = {}
    \/ \E h \in Passed :
         /\ \A g \in Passed : g <= h
         /\ ent = Run(h) \cap 1 .. num - 1
         /\ keys \ {{}} = {Run(g) : g \in Passed \ {h}}
         /\ {} \in keys

OnTitle ==
    /\ title \in Title \cup {<<>>}
    /\ num \in Nat \ {0}
    /\ num = 1 \/ Predicted
    /\ num = 1 => ent = {} /\ keys = {}
    /\ PiecesRecognised => SoFar

\* A title is two tokens at least, and does not start with a piece.
LEMMA TitleShape ==
    ASSUME title \in Title
    PROVE  End \in Nat /\ End >= 2 /\ ~title[1].cont
  BY TitleAssumption DEF IsTitle, End

\* A run starts with its token, which does not continue a word, and goes on with
\* tokens that do.
LEMMA RunShape ==
    ASSUME NEW h \in Recognised, End \in Nat
    PROVE  /\ h \in 2 .. End /\ ~title[h].cont /\ pred[h] # 0
           /\ h \in Run(h) /\ Run(h) \subseteq h .. End
           /\ \A k \in Run(h) : \A j \in h + 1 .. k : title[j].cont
  BY DEF Recognised, Run

\* At the first token nothing has been passed.
LEMMA StartSoFar == num = 1 /\ ent = {} /\ keys = {} => SoFar
  BY DEF SoFar, Passed, Recognised

LEMMA SoFarNext ==
    ASSUME \A g : Run(g)' = Run(g),
           NEW h \in Passed', \A g \in Passed' : g <= h,
           ent' = Run(h) \cap 1 .. num' - 1,
           keys' \ {{}} = {Run(g) : g \in Passed' \ {h}},
           {} \in keys'
    PROVE  SoFar'
<1>1. {Run(g) : g \in Passed' \ {h}} = {Run(g)' : g \in Passed' \ {h}}
  OBVIOUS
<1>. QED BY <1>1 DEF SoFar

LEMMA PieceStays ==
    ASSUME OnTitle, AlignToken, title \in Title, PiecesRecognised, title[num].cont
    PROVE  SoFar'
<1>1. /\ num \in 1 .. End /\ End \in Nat /\ ent' = ent \cup {num} /\ keys' = keys
      /\ num' = num + 1 /\ title' = title /\ pred' = pred /\ SoFar
  BY TitleShape DEF AlignToken, OnTitle
<1>2. Recognised' = Recognised /\ \A h : Run(h)' = Run(h)
  BY <1>1 DEF Recognised, Run, End
<1>3. PICK g \in Recognised : num \in Run(g)
  BY <1>1 DEF PiecesRecognised
<1>4. g \in Passed /\ num \notin Recognised
  BY <1>1, <1>3, RunShape DEF Passed, Recognised
<1>5. PICK h \in Passed :
        /\ \A other \in Passed : other <= h
        /\ ent = Run(h) \cap 1 .. num - 1
        /\ keys \ {{}} = {Run(other) : other \in Passed \ {h}}
        /\ {} \in keys
  BY <1>1, <1>4 DEF SoFar
<1>6. h \in Recognised /\ h < num /\ h \in 2 .. End /\ g \in 2 .. End
  BY <1>1, <1>3, <1>5, RunShape DEF Passed
<1>7. g = h
  <2>1. ~(g < h)
    <3>. SUFFICES ASSUME g < h PROVE FALSE
      OBVIOUS
    <3>1. h \in g + 1 .. num
      BY <1>1, <1>6
    <3>2. title[h].cont
      BY <1>1, <1>3, <3>1, RunShape
    <3>. QED BY <1>1, <1>6, <3>2, RunShape
  <2>. QED BY <1>4, <1>5, <1>6, <2>1
<1>8. Passed' = Passed
  BY <1>1, <1>2, <1>4, RunShape DEF Passed
<1>9. ent' = Run(h) \cap 1 .. num' - 1
  BY <1>1, <1>3, <1>5, <1>7
<1>. QED BY <1>1, <1>2, <1>5, <1>8, <1>9, SoFarNext

LEMMA HeadStays ==
    ASSUME OnTitle, AlignToken, title \in Title, SoFar,
           ~title[num].cont, pred[num] # 0, num # 1
    PROVE  SoFar'
<1>1. /\ num \in 2 .. End /\ End \in Nat
      /\ ent' = {num} /\ keys' = keys \cup {ent}
      /\ num' = num + 1 /\ title' = title /\ pred' = pred
  BY TitleShape DEF AlignToken, OnTitle
<1>2. Recognised' = Recognised /\ \A h : Run(h)' = Run(h)
  BY <1>1 DEF Recognised, Run, End
<1>3. num \in Recognised /\ num \notin Passed
  BY <1>1 DEF Recognised, Passed
<1>4. Passed' = Passed \cup {num}
  <2>1. \A h \in Recognised : h < num' <=> h < num \/ h = num
    BY <1>1, RunShape
  <2>2. Passed' = {h \in Recognised : h < num'}
    BY <1>2 DEF Passed
  <2>. QED BY <1>3, <2>1, <2>2 DEF Passed
<1>5. \A g \in Passed : g \in Recognised /\ g < num
  BY DEF Passed
<1>6. \A g \in Passed' : g <= num
  BY <1>1, <1>4, <1>5, RunShape
<1>7. ent' = Run(num) \cap 1 .. num
  BY <1>1, <1>3, RunShape
<1>8. keys' \ {{}} = {Run(g) : g \in Passed' \ {num}}
  <2>1. Passed' \ {num} = Passed
    BY <1>3, <1>4
  <2>2. CASE Passed = {} /\ ent = {} /\ keys = {}
    BY <1>1, <2>1, <2>2
  <2>3. ASSUME NEW h \in Passed,
               ent = Run(h) \cap 1 .. num - 1,
               keys \ {{}} = {Run(g) : g \in Passed \ {h}}
        PROVE  keys' \ {{}} = {Run(g) : g \in Passed' \ {num}}
    <3>1. h \in Run(h) /\ h \in 2 .. num - 1
      BY <1>1, <1>5, <2>3, RunShape
    <3>2. \A k \in Run(h) : k \in h .. End /\ ~(num \in h + 1 .. k)
      BY <1>1, <1>5, <2>3, RunShape
    <3>3. \A k \in Run(h) : k \in 1 .. num - 1
      BY <1>1, <3>1, <3>2
    <3>4. ent = Run(h) /\ ent # {}
      BY <2>3, <3>1, <3>3
    <3>5. keys' \ {{}} = (keys \ {{}}) \cup {Run(h)}
      BY <1>1, <3>4
    <3>. QED BY <2>1, <2>3, <3>5
  <2>. QED BY <2>2, <2>3 DEF SoFar
<1>9. num \in Passed' /\ num' - 1 = num
  BY <1>1, <1>4
<1>10. {} \in keys'
  BY <1>1 DEF SoFar
<1>. QED BY <1>2, <1>6, <1>7, <1>8, <1>9, <1>10, SoFarNext

LEMMA OtherStays ==
    ASSUME OnTitle, AlignToken, title \in Title, SoFar,
           ~title[num].cont, pred[num] = 0 \/ num = 1
    PROVE  SoFar'
<1>1. /\ num \in 1 .. End /\ End \in Nat /\ ent' = ent /\ keys' = keys
      /\ num' = num + 1 /\ title' = title /\ pred' = pred
  BY TitleShape DEF AlignToken, OnTitle
<1>2. Recognised' = Recognised /\ \A h : Run(h)' = Run(h)
  BY <1>1 DEF Recognised, Run, End
<1>3. num \notin Recognised
  BY DEF Recognised
<1>4. Passed' = Passed
  BY <1>1, <1>2, <1>3, RunShape DEF Passed
<1>5. CASE Passed = {} /\ ent = {} /\ keys = {}
  BY <1>1, <1>4, <1>5 DEF SoFar
<1>6. ASSUME NEW h \in Passed,
             \A g \in Passed : g <= h,
             ent = Run(h) \cap 1 .. num - 1,
             keys \ {{}} = {Run(g) : g \in Passed \ {h}},
             {} \in keys
      PROVE  SoFar'
  <2>1. h \in Recognised /\ h < num /\ h \in 2 .. End
    BY <1>1, <1>6, RunShape DEF Passed
  <2>2. num \notin Run(h)
    <3>1. num \in h + 1 .. num
      BY <1>1, <2>1
    <3>. QED BY <1>1, <2>1, <3>1, RunShape
  <2>3. ent' = Run(h) \cap 1 .. num' - 1
    BY <1>1, <1>6, <2>2
  <2>. QED BY <1>1, <1>2, <1>4, <1>6, <2>3, SoFarNext
<1>. QED BY <1>5, <1>6 DEF SoFar

LEMMA AlignStays == ASSUME OnTitle, AlignToken, title \in Title PROVE OnTitle'
<1>1. /\ num \in 1 .. End /\ End \in Nat /\ num' = num + 1
      /\ title' = title /\ pred' = pred /\ Predicted
  BY TitleShape DEF AlignToken, OnTitle
<1>2. PiecesRecognised' <=> PiecesRecognised
  BY <1>1 DEF PiecesRecognised, Recognised, Run, End
<1>3. PiecesRecognised => SoFar'
  <2>. SUFFICES ASSUME PiecesRecognised PROVE SoFar'
    OBVIOUS
  <2>1. SoFar
    BY DEF OnTitle
  <2>. QED BY <2>1, PieceStays, HeadStays, OtherStays DEF AlignToken
<1>4. Predicted' /\ num' # 1
  BY <1>1 DEF Predicted, End
<1>. QED BY <1>1, <1>2, <1>3, <1>4 DEF OnTitle

LEMMA FreshTitle ==
    ASSUME title' \in Title \cup {<<>>}, num' = 1, ent' = {}, keys' = {}
    PROVE  OnTitle'
  BY DEF OnTitle, SoFar, Passed, Recognised

LEMMA TitleInductive == Typed /\ OnTitle /\ [Next]_vars => OnTitle'
<1>. SUFFICES ASSUME Typed, OnTitle, [Next]_vars PROVE OnTitle'
  OBVIOUS
<1>1. CASE UNCHANGED <<title, pred, num, ent, keys>>
  <2>1. /\ Recognised' = Recognised /\ \A h : Run(h)' = Run(h)
        /\ Predicted' = Predicted /\ End' = End
    BY <1>1 DEF Recognised, Run, Predicted, End
  <2>2. PiecesRecognised' = PiecesRecognised /\ Passed' = Passed
    BY <1>1, <2>1 DEF PiecesRecognised, Passed
  <2>3. SoFar => SoFar'
    <3>1. CASE Passed = {} /\ ent = {} /\ keys = {}
      BY <1>1, <2>2, <3>1 DEF SoFar
    <3>2. ASSUME NEW h \in Passed, \A g \in Passed : g <= h,
                 ent = Run(h) \cap 1 .. num - 1,
                 keys \ {{}} = {Run(g) : g \in Passed \ {h}},
                 {} \in keys
          PROVE  SoFar'
      BY <1>1, <2>1, <2>2, <3>2, SoFarNext
    <3>. QED BY <3>1, <3>2 DEF SoFar
  <2>. QED BY <1>1, <2>1, <2>2, <2>3 DEF OnTitle
<1>2. CASE TitleForget \/ \E t \in Title : Tokenize(t)
  BY <1>2, FreshTitle DEF TitleForget, Tokenize
<1>3. CASE ArgMaxRow
  <2>1. num = 1 /\ ent = {} /\ keys = {}
    BY <1>3 DEF ArgMaxRow, Typed, OnTitle
  <2>. QED BY <1>3, <2>1, FreshTitle DEF ArgMaxRow, NextRow, NextWeight, OnTitle
<1>4. CASE AlignToken
  <2>1. title \in Title
    BY <1>4 DEF AlignToken, OnTitle, End
  <2>. QED BY <1>4, <2>1, AlignStays
<1>. QED BY <1>1, <1>2, <1>3, <1>4
         DEF Next, Step, vars, titleVars, OtherLine, Find, HandlerQuit, ImagePage,
             ImageFound, TitlePage, TitleFound, WalkPage, LabelMap,
             ArgMaxReturns, RealignTokens, NerSearch, GetRavelPatterns,
             CompareRavelImages, ToPrompt, NoWords

LEMMA InitOnTitle == Init => OnTitle
  BY DEF Init, TitleInit, OnTitle, SoFar, Passed, Recognised

LEMMA MapIsRight == OnTitle => KeysAreEntities
<1>. SUFFICES ASSUME OnTitle, Aligned, PiecesRecognised
              PROVE  keys \ {{}} = {Run(h) : h \in {i \in Recognised :
                                      \E g \in Recognised : g > i}}
  BY DEF KeysAreEntities
<1>1. End \in Nat /\ num > End /\ num \in Nat /\ SoFar
  BY TitleShape DEF Aligned, OnTitle
<1>2. Passed = Recognised
  BY <1>1, RunShape DEF Passed
<1>3. \A g \in Passed : g \in Nat
  BY <1>1, <1>2, RunShape
<1>4. CASE Passed = {} /\ keys = {}
  BY <1>2, <1>4
<1>5. ASSUME NEW h \in Passed, \A g \in Passed : g <= h,
             keys \ {{}} = {Run(g) : g \in Passed \ {h}}
      PROVE  keys \ {{}} = {Run(i) : i \in {j \in Recognised :
                              \E g \in Recognised : g > j}}
  <2>1. Passed \ {h} = {i \in Recognised : \E g \in Recognised : g > i}
    BY <1>2, <1>3, <1>5
  <2>. QED BY <1>5, <2>1
<1>. QED BY <1>1, <1>4, <1>5 DEF SoFar

\* The map holds the recognised words of a title but the last, each whole, if no
\* unrecognised word is of several pieces (ner.go 70-102).
THEOREM MapHoldsEntities == Spec => []KeysAreEntities
  BY InitTyped, TypedInductive, InitOnTitle, TitleInductive, MapIsRight, PTL DEF Spec

-----------------------------------------------------------------------------
(* The words that are asked *)

\* No token reads like nothing.
LEMMA EmptyText ==
    ASSUME NEW S, IsFiniteSet(S), Text(S) = Text({})
    PROVE  S = {}
<1>1. DOMAIN Text(S) = 1 .. Cardinality(S) /\ DOMAIN Text({}) = 1 .. Cardinality({})
  BY DEF Text
<1>2. 1 .. Cardinality(S) = 1 .. 0
  BY <1>1, FS_EmptySet
<1>3. Cardinality(S) \in Nat
  BY FS_CardinalityType
<1>4. Cardinality(S) = 0
  <2>1. ASSUME NEW n \in Nat, 1 .. n = 1 .. 0 PROVE n = 0
    BY <2>1
  <2>. QED BY <1>2, <1>3, <2>1
<1>. QED BY <1>4, FS_EmptySet

\* A word holds its first token, and is a part of the title.
LEMMA WordShape ==
    ASSUME End \in Nat, NEW h \in 2 .. End - 1
    PROVE  Word(h) # {} /\ IsFiniteSet(Word(h))
<1>1. h \in Word(h)
  BY DEF Word
<1>2. Word(h) \subseteq h .. End - 1
  BY DEF Word
<1>3. IsFiniteSet(h .. End - 1)
  <2>1. h \in Int /\ End - 1 \in Int
    OBVIOUS
  <2>. QED BY <2>1, FS_Interval
<1>4. IsFiniteSet(Word(h))
  BY <1>2, <1>3, FS_Subset
<1>. QED BY <1>1, <1>4

LEMMA EmptyIsWord == End \in Nat => ({} \in Words <=> EmptyWord)
<1>1. ASSUME End \in Nat PROVE \A h \in 2 .. End - 1 : Word(h) # {}
  BY <1>1, WordShape
<1>. QED BY <1>1 DEF Words

LEMMA WordsFinite ==
    ASSUME End \in Nat, NEW w \in Words
    PROVE  IsFiniteSet(w)
<1>1. w = {} \/ \E h \in 2 .. End - 1 : w = Word(h)
  BY DEF Words
<1>. QED BY <1>1, WordShape, FS_EmptySet

LEMMA EmptyIsKey ==
    ASSUME OnTitle, Aligned, PiecesRecognised
    PROVE  {} \in keys <=> Recognised # {}
<1>1. End \in Nat /\ num > End /\ num \in Nat /\ SoFar
  BY TitleShape DEF Aligned, OnTitle
<1>2. Passed = Recognised
  BY <1>1, RunShape DEF Passed
<1>. QED BY <1>1, <1>2 DEF SoFar

LEMMA KeysFinite ==
    ASSUME TitleTypeOK, NEW k \in keys
    PROVE  IsFiniteSet(k)
<1>1. k \subseteq 1 .. num - 1
  BY DEF TitleTypeOK
<1>2. 1 \in Int /\ num - 1 \in Int
  BY TitleTokens DEF TitleTypeOK, End
<1>3. IsFiniteSet(1 .. num - 1)
  BY <1>2, FS_Interval
<1>. QED BY <1>1, <1>3, FS_Subset

LEMMA AskedIsRight == TitleTypeOK /\ OnTitle /\ KeysAreEntities => AsksRecognisedWords
<1>. SUFFICES ASSUME TitleTypeOK, OnTitle, KeysAreEntities, Aligned, PiecesRecognised
              PROVE  /\ \A w \in SearchQueries \ {{}} :
                          \E h \in Recognised : Text(Run(h)) = Text(w)
                     /\ {} \in SearchQueries <=> EmptyWord /\ Recognised # {}
                     /\ \A h \in Recognised :
                          /\ Run(h) \in Words
                          /\ \E g \in Recognised : g > h
                          => Run(h) \in SearchQueries
  BY DEF AsksRecognisedWords
<1>1. End \in Nat
  BY TitleShape DEF Aligned, OnTitle
<1>2. keys \ {{}} = {Run(h) : h \in {i \in Recognised : \E g \in Recognised : g > i}}
  BY DEF KeysAreEntities
<1>3. ASSUME NEW w \in SearchQueries \ {{}}
      PROVE  \E h \in Recognised : Text(Run(h)) = Text(w)
  <2>1. w \in Words
    BY DEF SearchQueries
  <2>2. PICK k \in keys : Text(k) = Text(w)
    BY DEF SearchQueries
  <2>3. k # {}
    <3>1. IsFiniteSet(w) /\ w # {}
      BY <1>1, <1>3, <2>1, WordsFinite
    <3>. QED BY <2>2, <3>1, EmptyText
  <2>4. PICK h \in Recognised : k = Run(h)
    BY <1>2, <2>3
  <2>. QED BY <2>2, <2>4
<1>4. ASSUME NEW h \in Recognised, Run(h) \in Words, \E g \in Recognised : g > h
      PROVE  Run(h) \in SearchQueries
  <2>1. Run(h) \in keys
    BY <1>2, <1>4
  <2>. QED BY <1>4, <2>1 DEF SearchQueries
<1>5. {} \in SearchQueries <=> EmptyWord /\ Recognised # {}
  <2>1. {} \in Words <=> EmptyWord
    BY EmptyIsWord, <1>1
  <2>2. {} \in keys <=> Recognised # {}
    BY EmptyIsKey
  <2>3. {} \in SearchQueries <=> {} \in Words /\ {} \in keys
    <3>1. ASSUME {} \in SearchQueries PROVE {} \in Words /\ {} \in keys
      <4>1. PICK k \in keys : Text(k) = Text({})
        BY <3>1 DEF SearchQueries
      <4>2. k = {}
        BY <1>1, <4>1, EmptyText, KeysFinite
      <4>. QED BY <3>1, <4>1, <4>2 DEF SearchQueries
    <3>. QED BY <3>1 DEF SearchQueries
  <2>. QED BY <2>1, <2>2, <2>3
<1>. QED BY <1>3, <1>4, <1>5

\* The words asked of Ravelry read like recognised ones, but for the empty word of
\* a stray blank, which is asked if anything was recognised; and no recognised word
\* but the last is left out, if no unrecognised word is of several pieces and nothing
\* sticks to the word (ner.go 70-102, command.go 188-218).
THEOREM RecognisedAreAsked == Spec => []AsksRecognisedWords
<1>1. Typed => TitleTypeOK
  BY DEF Typed, TypeOK
<1>. QED BY <1>1, InitTyped, TypedInductive, InitOnTitle, TitleInductive, MapIsRight,
            AskedIsRight, PTL DEF Spec

-----------------------------------------------------------------------------
(* A command comes to an end *)

LEMMA StageValues ==
    /\ Stage["image"] = 1 /\ Stage["imageWalk"] = 2 /\ Stage["title"] = 3
    /\ Stage["titleWalk"] = 4 /\ Stage["argMax"] = 5 /\ Stage["align"] = 6
    /\ Stage["search"] = 7 /\ Stage["compare"] = 8 /\ Stage["prompt"] = 9
    /\ Stage["exited"] = 9 /\ Stage["panicked"] = 9
  BY DEF Stage, Place, Ended

LEMMA RowAdvances ==
    ASSUME TitleTypeOK, ArgMaxRow
    PROVE  \/ Len(pred') = Len(pred) + 1
           \/ Len(pred') = Len(pred) /\ Len(scores') = Len(scores) + 1
<1>1. CASE NextRow
  BY <1>1 DEF NextRow, TitleTypeOK
<1>2. CASE NextWeight
  <2>1. PICK weight \in Logit : scores' = Append(scores, weight)
    BY <1>2 DEF NextWeight
  <2>2. Len(scores') = Len(scores) + 1
    BY <2>1 DEF TitleTypeOK
  <2>3. Len(pred') = Len(pred)
    BY <1>2 DEF NextWeight, TitleTypeOK
  <2>. QED BY <2>2, <2>3
<1>. QED BY <1>1, <1>2 DEF ArgMaxRow

LEMMA StepAdvances ==
    ASSUME Typed, OnPage, Next, at \notin Ended
    PROVE  Advances
<1>. USE DEF Advances
<1>1. CASE WalkPage
  BY <1>1, EnterAdvances, ReturnAdvances DEF WalkPage, Enter, Return
<1>2. CASE ArgMaxRow
  BY <1>2, RowAdvances DEF ArgMaxRow, Typed, TypeOK
<1>3. CASE RealignTokens
  BY <1>3 DEF RealignTokens, AlignToken
<1>4. CASE \/ ImagePage \/ ImageFound \/ TitlePage \/ TitleFound
           \/ LabelMap \/ NerSearch \/ GetRavelPatterns \/ CompareRavelImages
  BY <1>4, StageValues
     DEF ImagePage, ImageFound, TitlePage, TitleFound, LabelMap, NerSearch,
         GetRavelPatterns, CompareRavelImages, ToPrompt, NoWords
<1>. QED BY <1>1, <1>2, <1>3, <1>4 DEF Next, Step, OtherLine, Find, HandlerQuit, Ended

\* No step of a command is done twice: the walk comes to every node once and leaves
\* it once, and each loop of the recogniser goes on (pintrest.go 58-77, ner.go 44-102).
THEOREM CommandsAdvance == Spec => CommandAdvances
<1>1. Typed /\ OnPage /\ [Next]_vars => [at \notin Ended => Advances]_vars
  BY StepAdvances
<1>. QED BY <1>1, InitTyped, TypedInductive, InitOnPage, PageInductive, PTL
         DEF Spec, CommandAdvances
=============================================================================
