------------------------------ MODULE MCLifecycle ------------------------------
(***************************************************************************)
(* Lifecycle for TLC: of three connections one may have the turn, one be   *)
(* turned away, and one leave while it is walked over.                     *)
(***************************************************************************)
EXTENDS Lifecycle
================================================================================
