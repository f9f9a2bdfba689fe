------------------------------- MODULE MCBrowser -------------------------------
(***************************************************************************)
(* Browser for TLC: three sockets are two reconnections, so that a timer   *)
(* may outlive a socket whose loops were already two; two requests for a   *)
(* turn are a double click.                                                *)
(***************************************************************************)
EXTENDS Browser
================================================================================
