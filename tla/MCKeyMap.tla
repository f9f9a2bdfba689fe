------------------------------- MODULE MCKeyMap -------------------------------
(***************************************************************************)
(* KeyMap for TLC: every pair of bytes a client can send, and every key    *)
(* the browser turns into one.                                             *)
(***************************************************************************)
EXTENDS KeyMap

AllBytes == 0 .. 255
================================================================================
