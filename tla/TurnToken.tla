------------------------------- MODULE TurnToken -------------------------------
(***************************************************************************)
(* What the turn protocol promises, with no handler, packet or timer in    *)
(* sight: among the players that are connected, at most one holds the      *)
(* turn.  It is taken only when nobody holds it, by somebody connected,    *)
(* and it is lost in three ways: its holder gives it up, its holder        *)
(* leaves, or the holder has used up TURNTIME and somebody else is         *)
(* connected.  Session implements this specification.                      *)
(***************************************************************************)
EXTENDS Naturals, FiniteSets

CONSTANTS Player, None, Capacity, TURNTIME

VARIABLES
    members,  \* the connected players
    holder,   \* the player whose turn it is, or None
    spent,    \* time units of the current turn, counted up to TURNTIME
    ended     \* how the last turn ended and by whose doing, NotEnded during one

tokenVars == <<members, holder, spent, ended>>

NotEnded == [how |-> "not", by |-> None]
EndedBy(h, p) == [how |-> h, by |-> p]

Init ==
    /\ members = {}
    /\ holder = None
    /\ spent = 0
    /\ ended = NotEnded

Join(p) ==
    /\ p \notin members
    /\ Cardinality(members) < Capacity
    /\ members' = members \cup {p}
    /\ UNCHANGED <<holder, spent, ended>>

GiveUp(e) ==
    /\ holder' = None
    /\ spent' = 0
    /\ ended' = e

\* A player who leaves gives up the turn with the same step.
Leave(p) ==
    /\ p \in members
    /\ members' = members \ {p}
    /\ IF holder = p
         THEN GiveUp(EndedBy("left", p))
         ELSE UNCHANGED <<holder, spent, ended>>

Take(p) ==
    /\ holder = None
    /\ p \in members
    /\ holder' = p
    /\ spent' = 0
    /\ ended' = NotEnded
    /\ UNCHANGED members

Yield(p) ==
    /\ p \in members
    /\ holder = p
    /\ GiveUp(EndedBy("yielded", p))
    /\ UNCHANGED members

\* The only way a player is forced out of a turn.
Expire ==
    /\ holder # None
    /\ TURNTIME # 0
    /\ spent = TURNTIME
    /\ Cardinality(members) > 1
    /\ GiveUp(EndedBy("expired", None))
    /\ UNCHANGED members

Elapse ==
    /\ holder # None
    /\ spent < TURNTIME
    /\ spent' = spent + 1
    /\ UNCHANGED <<members, holder, ended>>

Next ==
    \/ \E p \in Player : Join(p) \/ Leave(p) \/ Take(p) \/ Yield(p)
    \/ Expire
    \/ Elapse

Spec == Init /\ [][Next]_tokenVars
================================================================================
