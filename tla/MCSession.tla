------------------------------- MODULE MCSession -------------------------------
(***************************************************************************)
(* Session for TLC.  Four connections against a capacity of three make a  *)
(* driver, rivals and somebody turned away, and with CountValues = 3 the   *)
(* count of an update wraps at the last of them; TURNTIME = 2 gives a turn *)
(* a beginning, a middle and an end; IDLE_TIMEOUT = 1 lets the idle clock  *)
(* be short of, at and past its limit.                                     *)
(***************************************************************************)
EXTENDS Session
================================================================================
