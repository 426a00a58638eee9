------------------------------- MODULE MCRepl -------------------------------
(* Instances of Repl for TLC. *)
EXTENDS Repl

CONSTANTS MaxNodes, MaxTokens

\* All documents of at most MaxNodes nodes under the root, whose links have all
\* three attributes or lack the id.
MCKind ==
    {[name |-> "other", has |-> {}], [name |-> "title", has |-> {}],
     [name |-> "link", has |-> {"href", "id", "as"}],
     [name |-> "link", has |-> {"href", "as"}]}
MCPage ==
    UNION {{p \in [size : {n + 1},
                   parent : {[k \in 1 .. n + 1 |-> IF k = 1 THEN 0 ELSE f[k - 1]] :
                               f \in [1 .. n -> 1 .. n]},
                   kind : {[k \in 1 .. n + 1 |-> IF k = 1
                               THEN NoPage.kind[1] ELSE f[k - 1]] :
                               f \in [1 .. n -> MCKind]}] :
              IsPage(p)} : n \in 0 .. MaxNodes}

MCLogit == -2 .. 0

\* All titles of at most MaxTokens tokens between [CLS] and [SEP].  Where the title
\* has an empty word makes no difference, so it is at the end.
Special(n) == [text |-> "special", cont |-> FALSE, blanks |-> n]
MCToken == [text : {"a", "b"}, cont : BOOLEAN, blanks : {0, 1}]
MCTitle ==
    {<<Special(0)>> \o t \o <<Special(n)>> :
       t \in {s \in UNION {[1 .. n -> MCToken] : n \in 1 .. MaxTokens} :
               /\ s[1].blanks = 1
               /\ \A i \in DOMAIN s : s[i].cont => s[i].blanks = 0},
       n \in {1, 2}}
    \cup {<<Special(0), Special(2)>>}
=============================================================================
