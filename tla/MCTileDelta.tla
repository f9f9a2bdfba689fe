------------------------------ MODULE MCTileDelta ------------------------------
(***************************************************************************)
(* TileDelta for TLC.  Tiles do not depend on one another and clients only *)
(* through sc, so one client with two tiles, or two clients with one tile, *)
(* and a handful of changes show every order of a copy, a comparison, a    *)
(* read and a mark.                                                        *)
(***************************************************************************)
EXTENDS TileDelta
================================================================================
