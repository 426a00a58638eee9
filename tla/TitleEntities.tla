--------------------------- MODULE TitleEntities ---------------------------
(***************************************************************************)
(* Which words of a pin's title are asked of Ravelry: internal/            *)
(* recoginition/tokenizer.go and ner.go, and NerSearch of the REPL.  The   *)
(* title is cut into tokens, the model scores every label for every token, *)
(* ArgMax picks a label per token, RealignTokens puts tokens together      *)
(* again into a map of entities, and the words of the title that are keys  *)
(* of the map are asked.                                                   *)
(*                                                                         *)
(* A string put together from tokens is the set of their positions: it is  *)
(* always in their order.  Text(S) is what it says, a sequence of pieces.  *)
(* The labels stored under a key are left out: nobody reads them.  Tokens  *)
(* are taken to be spelt as in the title; a tokenizer that folds case would*)
(* lose the capitalised words.                                             *)
(***************************************************************************)
EXTENDS Integers, Sequences, FiniteSets

CONSTANTS
    Piece,     \* texts of tokens
    Title,     \* titles, as Tokenize returns them
    MaxLabel,  \* the last of the model's labels
    Logit      \* scores of the model

VARIABLES
    title,     \* tokenInput.Tokens
    scores,    \* the part of prdWeights that ArgMax has looked at
    weightMax, weightMaxInd,  \* the best of them, from -1 on, and its label
    pred,      \* MaxPreds: the labels picked so far
    num,       \* the token RealignTokens looks at
    ent,       \* the entity being put together
    keys       \* the keys of outMap

titleVars ==
    <<title, scores, weightMax, weightMaxInd, pred, num, ent, keys>>
rowVars == <<scores, weightMax, weightMaxInd>>

-----------------------------------------------------------------------------
\* 0 is the label of what is outside of any entity.
Label == 0 .. MaxLabel

\* A token: cont says it started with "##" and continues a word, blanks how many
\* blanks of the title come before it, 2 being more than one (a comma is a token
\* with neither).  The first and the last of a title are [CLS] and [SEP], and each
\* end of the title counts as a blank.
Token == [text : Piece, cont : BOOLEAN, blanks : 0 .. 2]

IsTitle(t) ==
    /\ t \in Seq(Token)
    /\ Len(t) >= 2
    /\ ~t[1].cont /\ ~t[Len(t)].cont
    /\ t[2].blanks > 0 /\ t[Len(t)].blanks > 0
    /\ Len(t) = 2 => t[2].blanks = 2
    /\ \A i \in 1 .. Len(t) : t[i].cont => t[i].blanks = 0

ASSUME TitleAssumption ==
    /\ \A t \in Title : IsTitle(t)
    /\ Logit \subseteq Int
    /\ MaxLabel \in Nat

End == Len(title)

\* No score has been looked at.
ResetRow == scores' = <<>> /\ weightMax' = -1 /\ weightMaxInd' = 0

\* tk.EncodeSingle and model.Exec.
Tokenize(t) ==
    /\ title' = t
    /\ ResetRow /\ pred' = <<>>
    /\ num' = 1 /\ ent' = {} /\ keys' = {}

RowDone == pred = <<>> \/ Len(scores) = MaxLabel + 1

\* Mutant: the maximum starts at 0.
NextRowFromZero ==
    /\ RowDone /\ Len(pred) < End
    /\ pred' = Append(pred, 0)
    /\ scores' = <<>> /\ weightMax' = 0 /\ weightMaxInd' = 0
    /\ UNCHANGED <<title, num, ent, keys>>

\* ArgMax goes on with the scores of the next token.
NextRow ==
    /\ RowDone /\ Len(pred) < End
    /\ pred' = Append(pred, 0)
    /\ ResetRow
    /\ UNCHANGED <<title, num, ent, keys>>

\* Mutant: the label is appended, not put in place of the 0 appended before.
NextWeightAppends ==
    /\ ~RowDone
    /\ \E weight \in Logit :
         /\ scores' = Append(scores, weight)
         /\ \/ /\ weight > weightMax
               /\ weightMax' = weight /\ weightMaxInd' = Len(scores)
            \/ /\ weight <= weightMax
               /\ UNCHANGED <<weightMax, weightMaxInd>>
    /\ pred' = Append(pred, weightMaxInd')
    /\ UNCHANGED <<title, num, ent, keys>>

\* A round of the loop over the scores of a token: labels count from 0.
NextWeight ==
    /\ ~RowDone
    /\ \E weight \in Logit :
         /\ scores' = Append(scores, weight)
         /\ \/ /\ weight > weightMax
               /\ weightMax' = weight /\ weightMaxInd' = Len(scores)
            \/ /\ weight <= weightMax
               /\ UNCHANGED <<weightMax, weightMaxInd>>
    /\ pred' = [pred EXCEPT ![Len(pred)] = weightMaxInd']
    /\ UNCHANGED <<title, num, ent, keys>>

Predicted == Len(pred) = End

\* The scores are looked at no more.
ArgMaxReturns ==
    /\ RowDone /\ Predicted
    /\ ResetRow
    /\ UNCHANGED <<title, pred, num, ent, keys>>

\* Mutant: the next entity is put together behind the last one.
AlignTokenKeep ==
    /\ Predicted /\ num <= End
    /\ \/ /\ title[num].cont
          /\ ent' = ent \cup {num}
          /\ UNCHANGED keys
       \/ /\ ~title[num].cont /\ pred[num] # 0 /\ num # 1
          /\ keys' = keys \cup {ent}
          /\ ent' = ent \cup {num}
       \/ /\ ~title[num].cont /\ (pred[num] = 0 \/ num = 1)
          /\ UNCHANGED <<ent, keys>>
    /\ num' = num + 1
    /\ UNCHANGED <<title, rowVars, pred>>

\* One round of RealignTokens: a piece of a word joins the entity, whatever its
\* label; the first token of an entity puts the entity before it in the map; any
\* other token is passed over.
AlignToken ==
    /\ Predicted /\ num <= End
    /\ \/ /\ title[num].cont
          /\ ent' = ent \cup {num}
          /\ UNCHANGED keys
       \/ /\ ~title[num].cont /\ pred[num] # 0 /\ num # 1
          /\ keys' = keys \cup {ent}
          /\ ent' = {num}
       \/ /\ ~title[num].cont /\ (pred[num] = 0 \/ num = 1)
          /\ UNCHANGED <<ent, keys>>
    /\ num' = num + 1
    /\ UNCHANGED <<title, rowVars, pred>>

Aligned == title # <<>> /\ num > End

\* strings.Split(title, " "): a word starts behind a blank, and the word between
\* two blanks, or between a blank and the end of the title, is the empty one.
Word(h) == {k \in h .. End - 1 : \A j \in h + 1 .. k : title[j].blanks = 0}
EmptyWord == \E i \in 2 .. End : title[i].blanks = 2
Words ==
    {Word(h) : h \in {i \in 2 .. End - 1 : title[i].blanks > 0}}
        \cup {w \in {{}} : EmptyWord}

Nth(S, i) == CHOOSE k \in S : Cardinality({j \in S : j <= k}) = i
Text(S) == [i \in 1 .. Cardinality(S) |-> title[Nth(S, i)].text]

\* Mutant: a word is asked if it starts like some entity.
SearchQueriesByStart ==
    {w \in Words :
        \E k \in keys : /\ Len(Text(k)) <= Len(Text(w))
                       /\ SubSeq(Text(w), 1, Len(Text(k))) = Text(k)}

\* NerSearch: the words of the title that are keys of the map.
SearchQueries == {w \in Words : \E k \in keys : Text(k) = Text(w)}

TitleForget ==
    /\ title' = <<>> /\ ResetRow /\ pred' = <<>>
    /\ num' = 1 /\ ent' = {} /\ keys' = {}

TitleInit ==
    /\ title = <<>> /\ scores = <<>> /\ weightMax = -1 /\ weightMaxInd = 0
    /\ pred = <<>> /\ num = 1 /\ ent = {} /\ keys = {}

TitleTypeOK ==
    /\ title \in Title \cup {<<>>}
    /\ scores \in Seq(Logit) /\ Len(scores) <= MaxLabel + 1
    /\ weightMax \in Logit \cup {-1} /\ weightMaxInd \in Label
    /\ pred \in Seq(Label) /\ Len(pred) <= End
    /\ num \in 1 .. End + 1
    /\ ent \subseteq 1 .. num - 1
    /\ keys \subseteq SUBSET (1 .. num - 1)

-----------------------------------------------------------------------------
(* Properties *)

\* At every moment the label picked for a token scores best of those looked at,
\* unless all their scores are -1 or less: then label 0 is picked, and an entity
\* is overlooked.
PredictsBest ==
    pred # <<>> =>
        LET p == pred[Len(pred)]
        IN  \/ \A l \in DOMAIN scores : scores[l] <= scores[p + 1]
            \/ p = 0 /\ \A l \in DOMAIN scores : scores[l] <= -1

Recognised == {h \in 2 .. End : ~title[h].cont /\ pred[h] # 0}

\* The word, or part of one, that token h starts.
Run(h) == {k \in h .. End : \A j \in h + 1 .. k : title[j].cont}

\* Every piece that continues a word continues a recognised one.
PiecesRecognised ==
    \A k \in 1 .. End :
        title[k].cont => \E h \in Recognised : k \in Run(h)

\* The map holds exactly the recognised words but the last, each whole and
\* none run together with another, provided that the words the model does not
\* recognise are single tokens.  (Their pieces would be glued to the entity
\* before them.)
KeysAreEntities ==
    Aligned /\ PiecesRecognised =>
        keys \ {{}} = {Run(h) : h \in {i \in Recognised :
                                         \E g \in Recognised : g > i}}

\* Every word asked of Ravelry reads like a recognised one, but for the empty word,
\* which is asked whenever the title has one and anything is recognised, be it
\* [SEP]: the first entity is stored behind the empty key.  And a recognised word
\* is asked if anything recognised comes behind it, unless a comma or the like
\* sticks to it.
AsksRecognisedWords ==
    Aligned /\ PiecesRecognised =>
        /\ \A w \in SearchQueries \ {{}} :
             \E h \in Recognised : Text(Run(h)) = Text(w)
        /\ {} \in SearchQueries <=> EmptyWord /\ Recognised # {}
        /\ \A h \in Recognised :
             /\ Run(h) \in Words
             /\ \E g \in Recognised : g > h
             => Run(h) \in SearchQueries
=============================================================================
