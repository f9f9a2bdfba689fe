------------------------------- MODULE MCWebfort -------------------------------
(***************************************************************************)
(* Webfort for TLC: two connections are a driver and a rival; one key or   *)
(* click of theirs and the pause keys of the handoffs are in flight.  Each *)
(* configuration lets in the keys and clicks its question needs.           *)
(***************************************************************************)
EXTENDS Webfort
================================================================================
