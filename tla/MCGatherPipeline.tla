-------------------------- MODULE MCGatherPipeline --------------------------
(***************************************************************************)
(* Two weights of one group and a batch.  Each weight has a pattern of the *)
(* same name; the first also has a pattern of a name of its own.           *)
(***************************************************************************)
EXTENDS GatherPipeline, TLC

CONSTANTS w1, w2, sweater1, sweater2, vest, sweaterJpg, vestJpg

MCOf == sweater1 :> w1 @@ vest :> w1 @@ sweater2 :> w2
MCPath == sweater1 :> sweaterJpg @@ sweater2 :> sweaterJpg @@ vest :> vestJpg
=============================================================================
