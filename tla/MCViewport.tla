------------------------------ MODULE MCViewport ------------------------------
(***************************************************************************)
(* Viewport for TLC.  A map of three tiles, a screen of two and a margin   *)
(* of one give four camera positions, of which two neighbours overlap and  *)
(* the outermost do not, so that a cursor can be inside or outside of      *)
(* another's view.                                                         *)
(***************************************************************************)
EXTENDS Viewport

OneStep == {-1, 1}
================================================================================
