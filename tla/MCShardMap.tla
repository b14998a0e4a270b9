------------------------------ MODULE MCShardMap ------------------------------
(***************************************************************************)
(* Model checking of ShardMap: the handlers are interchangeable in the     *)
(* safety runs.                                                            *)
(***************************************************************************)
EXTENDS ShardMap, TLC

HandlerSymmetry == Permutations(Handlers)
=============================================================================
