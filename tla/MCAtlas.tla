-------------------------------- MODULE MCAtlas --------------------------------
(***************************************************************************)
(* Atlas for TLC: two sets of sprites that the detection of changes does   *)
(* not tell apart (what it does tell apart is that they are there), a      *)
(* version of two values and a page that misses at most one rebuild.       *)
(***************************************************************************)
EXTENDS Atlas, TLC

CONSTANTS a, b

Sizes == a :> 1 @@ b :> 1
================================================================================
