-------------------------------- MODULE Webfort --------------------------------
(***************************************************************************)
(* The websocket thread of Session and the main thread of InputBridge,     *)
(* interleaved.  They meet in three places: set_active presses SPACE when  *)
(* the game runs, the focus player's keys and mouse events are queued      *)
(* after checks made on the websocket thread, and the in-game clock of a   *)
(* turn stands still while DF is paused.                                   *)
(***************************************************************************)
EXTENDS Session, Sequences

CONSTANTS
    Admins,      \* the connections that gave the secret
    ClientKeys,  \* the keys players press
    MaxKeys, MaxMouse

ASSUME AdminAssumption == Admins \subseteq Conn
ASSUME BoundAssumption == MaxKeys \in Nat /\ MaxMouse \in Nat

VARIABLES
    keyQ, mouseQ, sdlQ, flush, paused, screen,
    disturbed,  \* since the last handoff a player has paused or resumed, a panel
                \* or the menu has taken the pause key, or one was under way at
                \* that handoff (history)
    closed,     \* a screen was closed while an ESC was under way (history)
    late        \* who has lost the turn since the mouse queue was drained (history)

B == INSTANCE InputBridge WITH Sender <- Conn \cup {NoConn}

ASSUME KeyAssumption == ClientKeys \subseteq B!Key

bridge == <<keyQ, mouseQ, sdlQ, flush, paused, screen>>
history == <<disturbed, closed, late>>
allVars == <<vars, bridge, history>>

WInit ==
    /\ Init
    /\ B!BridgeInit
    /\ disturbed = FALSE /\ closed = FALSE /\ late = {}

--------------------------------------------------------------------------------
(* The websocket thread *)

\* Both queues as DF will see them.
Pipeline == sdlQ \o keyQ

PausePending ==
    \E i \in DOMAIN Pipeline :
        Pipeline[i] = [from |-> NoConn, key |-> "SPACE"]

\* A slip: SPACE is pressed whether or not the game runs.
PauseGame_Toggles ==
    IF active' # active
      THEN B!simkey(NoConn, "SPACE") /\ disturbed' = PausePending
      ELSE UNCHANGED <<bridge, disturbed>>

\* The last thing set_active does when the turn has changed hands.
PauseGame ==
    IF active' # active
      THEN /\ IF paused THEN UNCHANGED bridge ELSE B!simkey(NoConn, "SPACE")
           /\ disturbed' = PausePending
      ELSE UNCHANGED <<bridge, disturbed>>

\* The bound on the queue holds up nobody but the player who takes a turn.
SessionStep(A) ==
    /\ A
    /\ active' \notin {active, NoConn} => B!KeyRoom
    /\ PauseGame
    /\ late' = IF active' # active THEN late \cup ({active} \cap Conn) ELSE late
    /\ UNCHANGED closed

\* Opcode 111
KeyEvent(c, k) ==
    /\ Dispatched(c)
    /\ c = active
    /\ k = "ESC" => c \in Admins \/ B!is_safe_to_escape
    /\ B!KeyRoom
    /\ B!simkey(c, k)
    /\ UNCHANGED <<vars, history>>

\* A slip: anybody's clicks are queued.
MouseEvent_Anybody(c) ==
    /\ Dispatched(c)
    /\ B!MouseRoom
    /\ B!simmouse(c)
    /\ UNCHANGED <<vars, history>>

\* Opcode 113
MouseEvent(c) ==
    /\ Dispatched(c)
    /\ c = active
    /\ B!MouseRoom
    /\ B!simmouse(c)
    /\ UNCHANGED <<vars, history>>

on_message_input(c) == MouseEvent(c) \/ \E k \in ClientKeys : KeyEvent(c, k)

\* ReadCurrentTick stands still while DF is paused.
RoundTime == (INGAME_TIME => ~paused) /\ SessionStep(TurnTick)

--------------------------------------------------------------------------------
(* The main thread *)

ServersKey == sdlQ # <<>> /\ sdlQ' = Tail(sdlQ) /\ Head(sdlQ).from = NoConn
EscPending(q) == \E i \in DOMAIN q : q[i].key = "ESC"

MainStep(A) ==
    /\ A
    /\ disturbed' = (disturbed \/ (ServersKey <=> paused' = paused))
    /\ closed' = /\ EscPending(sdlQ') \/ EscPending(keyQ')
                 /\ closed \/ (screen # "idle" /\ screen' = "idle")
    /\ late' = IF flush = "mouse" /\ flush' = "keys" THEN {} ELSE late
    /\ UNCHANGED vars

WNext ==
    \/ \E c \in Conn : SessionStep(Handler(c) \/ PeerGone(c)) \/ on_message_input(c)
    \/ SessionStep(on_http)
    \/ SessionStep(Second)
    \/ RoundTime
    \/ MainStep(B!MainThread)

WSpec == WInit /\ [][WNext]_allVars

\* The browsers' requests and DF's clock, which ticks while it is not paused.  No
\* property of the composition needs the main thread to get anywhere.
WFairSpec ==
    /\ WSpec
    /\ \A c \in Conn : WF_allVars(SessionStep(tock(c)))
    /\ WF_allVars(RoundTime)

--------------------------------------------------------------------------------
(* Properties *)

\* Every variable of the composition has its type.
WTypeOK ==
    /\ TypeOK
    /\ B!BridgeTypeOK
    /\ disturbed \in BOOLEAN
    /\ closed \in BOOLEAN
    /\ late \subseteq Conn

\* In dwarf mode an ESC opens the main menu only for those who gave the secret
\* (webfort.cpp:206-226, server.cpp:691), unless a click or another key closed the
\* screen that made it safe after it was asked about.  In adventurer mode
\* is_safe_to_escape lets everybody's ESC through.
SafeEscape ==
    [][screen = "idle" /\ screen' = "menu" /\ sdlQ' # sdlQ =>
          Head(sdlQ).from \in Admins \/ closed]_allVars

\* "Only the focus player's mouse input reaches the game" (server.cpp:725): what
\* the main thread feeds to DF comes from the player whose turn it is, or from
\* one who has lost the turn since the queue was last drained; a click outlives
\* its turn by no more than that.
FocusMouse ==
    [][mouseQ # <<>> /\ Len(mouseQ') < Len(mouseQ) =>
          \A i \in DOMAIN mouseQ : mouseQ[i] \in {active} \cup late]_allVars

\* From the first handoff on the game is paused once the pause key has been
\* handled (server.cpp:212-215), unless since the last handoff a player has paused
\* or resumed it, a panel or the menu had the keyboard and took the key, or that
\* handoff came before DF had handled the pause key of the one before.
PauseHolds ==
    (active # NoConn \/ ended # TT!NotEnded) /\ ~PausePending /\ ~disturbed
        => paused

\* A turn measured in game ticks ends as well, with another player there and
\* some browser asking for updates, provided that the game is left running in
\* the end: every handoff pauses it, and whoever has the turn may leave it so.
IngameTurnEnds ==
    INGAME_TIME /\ TURNTIME # 0 /\ <>[]~paused =>
        \A c, d \in Conn :
            ~<>[](active = c /\ Cardinality(clients) > 1 /\ link[d] = "open")
================================================================================
