------------------------------ MODULE PinPage ------------------------------
(***************************************************************************)
(* The search of a pin's page (services/pintrest.go, of which the REPL has *)
(* a copy): traverseHTML walks the parsed document depth first, from the   *)
(* root, and returns what the check makes of the first element of a given  *)
(* name it accepts.                                                        *)
(*                                                                         *)
(* The nodes of a document are numbered in document order.  The recursion  *)
(* is a walk over it, a step per call and per return: the calls that have  *)
(* not returned are those for the node the walk is at and the nodes above. *)
(***************************************************************************)
EXTENDS Naturals

CONSTANT Page      \* documents html.Parse may return

VARIABLES
    page,    \* the document being walked
    want,    \* the name of the elements looked for
    node,    \* the argument of the innermost call, 0 when there is none
    back,    \* is the innermost call about to return an error?
    match    \* the node whose call returned no error, 0 if none has

pageVars == <<page, want, node, back, match>>

-----------------------------------------------------------------------------
\* What an html.Node of a document is: an element called "link" or "title", or
\* anything else (other elements, text, comments).  A link has the attributes
\* of `has`; as is there only if its value is "image".
Name == {"link", "title"}
Kind == [name : Name \cup {"other"}, has : SUBSET {"href", "id", "as"}]

Nodes(p) == 1 .. p.size

\* Numbering nodes in document order: those between a node and its child are
\* below that node.
InDocumentOrder(p) ==
    \A k \in 2 .. p.size :
        /\ p.parent[k] \in 1 .. k - 1
        /\ \A n \in p.parent[k] + 1 .. k - 1 : p.parent[n] >= p.parent[k]

IsPage(p) ==
    /\ p.size \in Nat \ {0}
    /\ p.parent \in [Nodes(p) -> Nat] /\ p.parent[1] = 0
    /\ p.kind \in [Nodes(p) -> Kind]
    /\ InDocumentOrder(p)

NoPage == [size |-> 1, parent |-> <<0>>,
           kind |-> <<[name |-> "other", has |-> {}]>>]

ASSUME PageAssumption == \A p \in Page : IsPage(p)

-----------------------------------------------------------------------------
HasChild(n) == n < page.size /\ page.parent[n + 1] = n

\* The element is <link href=... id=... as="image">.
CheckFoundImgLink(n) == page.kind[n].has = {"href", "id", "as"}

\* The element has a child, the text of the title.
CheckFoundTitle(n) == HasChild(n)

Matches(n) ==
    /\ page.kind[n].name = want
    /\ \/ want = "link" /\ CheckFoundImgLink(n)
       \/ want = "title" /\ CheckFoundTitle(n)

\* node.NextSibling
Sibling(n, m) ==
    /\ n < m /\ page.parent[m] = page.parent[n]
    /\ \A k \in n + 1 .. m - 1 : page.parent[k] # page.parent[n]

Walking == node # 0

\* traverseHTML(data, want, ...), called on the document.
Walk(p, what) ==
    /\ page' = p /\ want' = what
    /\ node' = 1 /\ back' = FALSE /\ match' = 0

\* Mutant: an element of that name that is not accepted is not looked into.
EnterShallow ==
    /\ node # 0 /\ ~back
    /\ \/ /\ Matches(node)
          /\ match' = node /\ node' = 0
          /\ UNCHANGED back
       \/ /\ ~Matches(node) /\ HasChild(node) /\ page.kind[node].name # want
          /\ node' = node + 1
          /\ UNCHANGED <<back, match>>
       \/ /\ ~Matches(node) /\ ~(HasChild(node) /\ page.kind[node].name # want)
          /\ back' = TRUE
          /\ UNCHANGED <<node, match>>
    /\ UNCHANGED <<page, want>>

\* The call on node: it returns what the check found, or goes on with the
\* first child, or has found nothing.
Enter ==
    /\ node # 0 /\ ~back
    /\ \/ /\ Matches(node)
          /\ match' = node /\ node' = 0
          /\ UNCHANGED back
       \/ /\ ~Matches(node) /\ HasChild(node)
          /\ node' = node + 1
          /\ UNCHANGED <<back, match>>
       \/ /\ ~Matches(node) /\ ~HasChild(node)
          /\ back' = TRUE
          /\ UNCHANGED <<node, match>>
    /\ UNCHANGED <<page, want>>

\* Mutant: the loop goes on with the first child again.
ReturnAgain ==
    /\ node # 0 /\ back
    /\ \/ /\ node # 1
          /\ node' = page.parent[node] + 1 /\ back' = FALSE
       \/ /\ node = 1
          /\ node' = 0
          /\ UNCHANGED back
    /\ UNCHANGED <<page, want, match>>

\* The call on node returned an error: its caller goes on with the next
\* sibling, or has tried all its children and returns an error in turn.
Return ==
    /\ node # 0 /\ back
    /\ \/ \E m \in Nodes(page) :
            /\ Sibling(node, m)
            /\ node' = m /\ back' = FALSE
       \/ /\ \A m \in Nodes(page) : ~Sibling(node, m)
          /\ node' = page.parent[node]
          /\ UNCHANGED back
    /\ UNCHANGED <<page, want, match>>

Walked == node = 0 /\ want # "none"

\* The caller is done with the document.
Forget ==
    /\ page' = NoPage /\ want' = "none"
    /\ node' = 0 /\ back' = FALSE /\ match' = 0

PageInit ==
    /\ page = NoPage /\ want = "none"
    /\ node = 0 /\ back = FALSE /\ match = 0

PageTypeOK ==
    /\ page \in Page \cup {NoPage}
    /\ want \in Name \cup {"none"}
    /\ node \in {0} \cup Nodes(page)
    /\ back \in BOOLEAN
    /\ match \in {0} \cup Nodes(page)

-----------------------------------------------------------------------------
(* Properties *)

\* A search of a page finds the first element, in the order of the document,
\* that has the name and passes the check, and fails only if there is none:
\* neither the early return nor the loop over siblings skips one.
FindsFirst ==
    Walked =>
        \/ /\ match # 0 /\ Matches(match)
           /\ \A n \in 1 .. match - 1 : ~Matches(n)
        \/ /\ match = 0
           /\ \A n \in Nodes(page) : ~Matches(n)

\* Node n and what is below it are the nodes from n to c.
EndsAt(n, c) ==
    /\ c \in n .. page.size
    /\ \A k \in n + 1 .. c : page.parent[k] >= n
    /\ c = page.size \/ page.parent[c + 1] < n

\* The last node the walk has come to.
Reached == IF back THEN CHOOSE c \in Nodes(page) : EndsAt(node, c) ELSE node

\* A step of the walk comes to the next node of the document, or else leaves the
\* node it is at, for the node above it or for good.
WalkAdvances ==
    \/ Reached' = Reached + 1 /\ ~back'
    \/ Reached' = Reached /\ back' /\ (back => node' < node)
    \/ node' = 0
=============================================================================
