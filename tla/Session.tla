-------------------------------- MODULE Session --------------------------------
(***************************************************************************)
(* The websocket thread of the plugin: who is connected, whose turn it is, *)
(* how long the turn has lasted, and when the idle autosave fires.  Every  *)
(* handler runs to its end before the next one starts (one thread runs the *)
(* asio loop), so each action is one handler.  The key press with which    *)
(* set_active pauses the game is queued in module Webfort, which composes  *)
(* this module with the input queues; screen tiles are in TileDelta.       *)
(***************************************************************************)
EXTENDS Integers, FiniteSets

CONSTANTS
    Conn,                 \* connection handles
    NoConn,               \* null_conn, and null_client where a client is named
    MAX_CLIENTS,
    CountValues,          \* of client_count, a uint8_t: 2^8
    TURNTIME,             \* length of a turn; 0 means no limit
    IDLE_TIMEOUT,         \* seconds without a player before the autosave
    INGAME_TIME,          \* turns are measured in game ticks, not seconds
    AUTOSAVE_WHILE_IDLE

ASSUME ConnAssumption == NoConn \notin Conn /\ IsFiniteSet(Conn)
ASSUME ConfigAssumption ==
    /\ MAX_CLIENTS \in Nat
    /\ CountValues \in Nat \ {0}
    /\ TURNTIME \in Nat
    /\ IDLE_TIMEOUT \in Nat
    /\ INGAME_TIME \in BOOLEAN
    /\ AUTOSAVE_WHILE_IDLE \in BOOLEAN

VARIABLES
    link,           \* what websocketpp knows of each connection
    clients,        \* keys of the map of clients
    active,         \* active_conn
    played,         \* round_timer() - atime of the active client, up to TURNTIME
    cursor_active,  \* the clients whose cursor_active is set
    idle,           \* time(NULL) - itime, up to IDLE_TIMEOUT + 1
    timed_out,
    saves,          \* quicksaves since reset_idle_timer (history, up to 2)
    ended,          \* how the last turn ended and by whose doing (history)
    quiet,          \* seconds nobody has played, up to IDLE_TIMEOUT + 1 (history)
    sent            \* the status the last handler sent out, or Nothing

turnVars == <<active, played, ended, quiet>>
idleVars == <<idle, timed_out, saves>>
vars == <<link, clients, turnVars, cursor_active, idleVars, sent>>

TT == INSTANCE TurnToken WITH
    Player <- Conn, None <- NoConn, Capacity <- MAX_CLIENTS,
    members <- clients, holder <- active, spent <- played

\* "open": messages are dispatched; "closing": they no longer are, and the
\* close handler is still to come; "down": there is no connection.
LinkState == {"down", "open", "closing"}

Endings ==
    {TT!NotEnded, TT!EndedBy("expired", NoConn)}
        \cup {TT!EndedBy(h, c) : h \in {"yielded", "left"}, c \in Conn}

Nothing == [kind |-> "nothing"]

\* The number of clients: a byte in an update, an int in the status document.
Counted(k) == IF k = "update" THEN Cardinality(clients) % CountValues
                              ELSE Cardinality(clients)

\* Bytes 1, 2, 4-7 and 17 on of an update packet, and the status document.
Status(k, c, holder, named, left) ==
    [kind |-> k, to |-> c, count |-> Counted(k),
     mine |-> c # NoConn /\ holder = c, nobody |-> holder = NoConn, nick |-> named,
     left |-> left]

StatusRecord ==
    [kind : {"update", "status"}, to : Conn \cup {NoConn}, count : Nat,
     mine : BOOLEAN, nobody : BOOLEAN, nick : Conn \cup {NoConn}, left : Int]

Init ==
    /\ link = [c \in Conn |-> "down"]
    /\ clients = {}
    /\ active = NoConn
    /\ played = 0
    /\ cursor_active = {}
    /\ idle = IDLE_TIMEOUT + 1      \* itime = 0, long ago
    /\ timed_out = TRUE
    /\ saves = 0
    /\ ended = TT!NotEnded
    /\ quiet = 0
    /\ sent = Nothing

--------------------------------------------------------------------------------
(* The turn timer and the idle timer *)

\* Slips, here and below: a bug the code might have had in the definition that
\* follows.  Nothing uses them; putting one in the place of that definition
\* must break the property it is meant for.
TimerRuns_Alone == TURNTIME # 0 /\ active # NoConn

\* The condition under which get_time_left looks at the clock.
TimerRuns ==
    TURNTIME # 0 /\ active # NoConn /\ Cardinality(clients) > 1

TimeUp_Late == TimerRuns /\ played > TURNTIME

TimeUp == TimerRuns /\ played >= TURNTIME

get_time_left == IF TimerRuns /\ ~TimeUp THEN TURNTIME - played ELSE -1

reset_idle_timer_Early == idle' = -1 /\ timed_out' = FALSE /\ saves' = 0
reset_idle_timer_KeepsTime == timed_out' = FALSE /\ saves' = 0 /\ UNCHANGED idle
reset_idle_timer_KeepsFlag == idle' = 0 /\ saves' = 0 /\ UNCHANGED timed_out

reset_idle_timer ==
    /\ idle' = 0
    /\ timed_out' = FALSE
    /\ saves' = 0

idle_timer ==
    IF ~timed_out /\ active = NoConn /\ idle > IDLE_TIMEOUT
      THEN /\ timed_out' = TRUE
           /\ saves' = IF saves < 2 THEN saves + 1 ELSE saves
           /\ UNCHANGED idle
      ELSE UNCHANGED idleVars

set_active_KeepsCursor(newc, e) ==
    IF newc = active
      THEN UNCHANGED <<turnVars, cursor_active, idleVars>>
      ELSE /\ active' = newc /\ played' = 0 /\ ended' = e /\ quiet' = 0
           /\ cursor_active' = cursor_active \ {active}
           /\ IF newc = NoConn /\ AUTOSAVE_WHILE_IDLE
                THEN reset_idle_timer ELSE UNCHANGED idleVars

\* e says how the previous turn ended, for the history.
set_active(newc, e) ==
    IF newc = active
      THEN UNCHANGED <<turnVars, cursor_active, idleVars>>
      ELSE /\ active' = newc
           /\ played' = 0
           /\ cursor_active' = cursor_active \ {active, newc}
           /\ ended' = e
           /\ quiet' = 0
           /\ IF newc = NoConn /\ AUTOSAVE_WHILE_IDLE
                THEN reset_idle_timer
                ELSE UNCHANGED idleVars

--------------------------------------------------------------------------------
(* Connections *)

on_open_OneMore(c, admissible) ==
    /\ link[c] = "down"
    /\ IF admissible /\ Cardinality(clients) <= MAX_CLIENTS
         THEN /\ link' = [link EXCEPT ![c] = "open"]
              /\ clients' = clients \cup {c}
         ELSE link' = [link EXCEPT ![c] = "closing"] /\ UNCHANGED clients
    /\ sent' = Nothing
    /\ UNCHANGED <<turnVars, cursor_active, idleVars>>

\* admissible: the subprotocol is not WF_INVALID and the nick is not __NOBODY.
on_open(c, admissible) ==
    /\ link[c] = "down"
    /\ IF admissible /\ Cardinality(clients) < MAX_CLIENTS
         THEN /\ link' = [link EXCEPT ![c] = "open"]
              /\ clients' = clients \cup {c}
         ELSE /\ link' = [link EXCEPT ![c] = "closing"]    \* s->close
              /\ UNCHANGED clients
    /\ sent' = Nothing
    /\ UNCHANGED <<turnVars, cursor_active, idleVars>>

\* The browser goes away, with or without a close frame.
PeerGone(c) ==
    /\ link[c] = "open"
    /\ link' = [link EXCEPT ![c] = "closing"]
    /\ sent' = Nothing
    /\ UNCHANGED <<clients, turnVars, cursor_active, idleVars>>

on_close_KeepsTurn(c) ==
    /\ link[c] = "closing"
    /\ link' = [link EXCEPT ![c] = "down"]
    /\ clients' = clients \ {c}
    /\ cursor_active' = cursor_active \ {c}
    /\ sent' = Nothing
    /\ UNCHANGED <<turnVars, idleVars>>

\* Also called for the connections on_open has turned away.
on_close(c) ==
    /\ link[c] = "closing"
    /\ link' = [link EXCEPT ![c] = "down"]
    /\ clients' = clients \ {c}
    /\ IF c = active
         THEN set_active(NoConn, TT!EndedBy("left", c))
         ELSE /\ cursor_active' = cursor_active \ {c}
              /\ UNCHANGED <<turnVars, idleVars>>
    /\ sent' = Nothing

--------------------------------------------------------------------------------
(* Messages: websocketpp dispatches them only while the link is open *)

Dispatched(c) == link[c] = "open"

\* Opcode 116
requestTurn(c) ==
    /\ Dispatched(c)
    /\ \/ /\ c = active
          /\ set_active(NoConn, TT!EndedBy("yielded", c))
       \/ /\ active = NoConn
          /\ set_active(c, TT!NotEnded)
    /\ sent' = Nothing
    /\ UNCHANGED <<link, clients>>

\* Opcode 114
cursorMove(c) ==
    /\ Dispatched(c)
    /\ c # active
    /\ cursor_active' = cursor_active \cup {c}
    /\ sent' = Nothing
    /\ UNCHANGED <<link, clients, turnVars, idleVars>>

tock_NeverExpires(c) ==
    /\ Dispatched(c)
    /\ idle_timer
    /\ sent' = Status("update", c, active, active, get_time_left)
    /\ UNCHANGED <<link, clients, turnVars, cursor_active>>

\* Opcode 110 and everything on_message does not recognise.  The packet is
\* written after set_active, except for the nick and the time left: active_cl
\* and time_left were read before it.
tock(c) ==
    /\ Dispatched(c)
    /\ IF TimeUp
         THEN set_active(NoConn, TT!EndedBy("expired", NoConn))
         ELSE idle_timer /\ UNCHANGED <<turnVars, cursor_active>>
    /\ sent' = Status("update", c, active', active, get_time_left)
    /\ UNCHANGED <<link, clients>>

\* GET /api/status.json, from anybody: it reads and changes nothing.
on_http ==
    /\ sent' = Status("status", NoConn, active, active, get_time_left)
    /\ UNCHANGED <<link, clients, turnVars, cursor_active, idleVars>>

--------------------------------------------------------------------------------
(* Time *)

\* A second of time(NULL), as the idle timer reads it: it does so only until
\* the autosave, and reset_idle_timer starts it anew, so it stands still then.
Second ==
    /\ idle' = IF timed_out \/ idle > IDLE_TIMEOUT THEN idle ELSE idle + 1
    /\ quiet' = IF active # NoConn \/ quiet > IDLE_TIMEOUT THEN quiet ELSE quiet + 1
    /\ sent' = Nothing
    /\ UNCHANGED <<link, clients, active, played, ended, cursor_active, timed_out,
                   saves>>

\* A unit of round_timer: a second, or with INGAME_TIME a game tick.  It is
\* read only while somebody plays and the idle clock only while nobody does,
\* so the two need no common clock.
TurnTick ==
    /\ active # NoConn /\ played < TURNTIME
    /\ played' = played + 1
    /\ sent' = Nothing
    /\ UNCHANGED <<link, clients, active, ended, quiet, cursor_active, idleVars>>

Handler(c) ==
    \/ \E admissible \in BOOLEAN : on_open(c, admissible)
    \/ on_close(c)
    \/ requestTurn(c)
    \/ cursorMove(c)
    \/ tock(c)

Next ==
    \/ \E c \in Conn : Handler(c) \/ PeerGone(c)
    \/ on_http
    \/ Second
    \/ TurnTick

Spec == Init /\ [][Next]_vars

\* The browser answers every update with the next request (a dead one is not
\* "open"), and seconds pass; game ticks need not, a game may stay paused.
\* Nothing is assumed of close handlers: the server never pings, so a peer that
\* vanishes silently may never be noticed.
Fairness ==
    /\ \A c \in Conn : WF_vars(tock(c))
    /\ WF_vars(Second)
    /\ WF_vars(~INGAME_TIME /\ TurnTick)

FairSpec == Spec /\ Fairness

--------------------------------------------------------------------------------
(* Properties *)

\* Every variable has its type.
TypeOK ==
    /\ link \in [Conn -> LinkState]
    /\ clients \subseteq Conn
    /\ active \in Conn \cup {NoConn}
    /\ played \in 0 .. TURNTIME
    /\ cursor_active \subseteq Conn
    /\ idle \in 0 .. IDLE_TIMEOUT + 1
    /\ timed_out \in BOOLEAN
    /\ saves \in 0 .. 2
    /\ ended \in Endings
    /\ quiet \in 0 .. IDLE_TIMEOUT + 1
    /\ sent \in StatusRecord \cup {Nothing}

\* The turn is held by a client in the map, so get_client(active_conn) never
\* hands null_client to set_active or get_time_left while somebody plays; and
\* the map follows the links: whoever can send a message is in it, and nobody
\* stays in it once the close handler has run.
DriverConnected ==
    /\ active # NoConn => active \in clients
    /\ \A c \in Conn : link[c] = "open" => c \in clients
    /\ \A c \in clients : link[c] # "down"

\* No ghost cursor: the player whose turn it is never has a spectator cursor,
\* whatever they sent before, and no cursor outlives its client.  The
\* comments in set_active and at opcode 114 ask for it.
NoGhostDriver ==
    /\ active \notin cursor_active
    /\ cursor_active \subseteq clients

\* WF_MAX_CLIENTS bounds the connections that can be open at any one time.
WithinCapacity == Cardinality(clients) <= MAX_CLIENTS

\* What is sent out is consistent: it never says both "it is your turn" and
\* "nobody is playing"; an update names a time left exactly when somebody plays
\* against the clock with a rival there, and then at least one unit is left, so
\* that no player is ever shown as playing on borrowed time; and a countdown
\* is shown next to a count of at least two, unless there are more clients than
\* the byte of an update can count.
HeaderTruth ==
    sent # Nothing =>
        /\ ~(sent.mine /\ sent.nobody)
        /\ sent.left = -1 \/ sent.left \in 1 .. TURNTIME
        /\ sent.nobody => sent.left = -1
        /\ sent.kind = "update" /\ ~sent.nobody =>
             (sent.left = -1 <=> TURNTIME = 0 \/ Cardinality(clients) <= 1)
        /\ sent.left # -1 =>
             sent.count > 1 \/ (sent.kind = "update" /\ Cardinality(clients) >= CountValues)

\* The autosave fires once per idle period, only when nobody has played for
\* more than IDLE_TIMEOUT seconds, and never before the first turn.
AutosaveTiming ==
    [][saves' > saves =>
          /\ saves = 0
          /\ active = NoConn /\ active' = NoConn
          /\ quiet > IDLE_TIMEOUT
          /\ ended # TT!NotEnded]_vars

\* The handlers implement the turn contract: no player is ousted while the
\* clock runs or while alone, nobody's message ends somebody else's turn,
\* nobody takes a turn that is held, a player who leaves does not keep it.
TurnContract == TT!Spec

\* With a limit in seconds, a turn cannot last while another player is there
\* and some browser keeps asking for updates, even if the close handler of a
\* driver who has vanished never runs.
TurnEnds ==
    TURNTIME # 0 /\ ~INGAME_TIME =>
        \A c, d \in Conn :
            ~<>[](active = c /\ Cardinality(clients) > 1 /\ link[d] = "open")

\* Once a turn has ended and nobody takes the next one, the game is saved, as
\* long as one browser stays connected to drive the idle timer.
IdleSaves ==
    AUTOSAVE_WHILE_IDLE =>
        \A c \in Conn :
            (active = NoConn /\ ended # TT!NotEnded)
                ~> (saves > 0 \/ active # NoConn \/ link[c] # "open")
================================================================================
