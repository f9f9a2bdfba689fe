----------------------------- MODULE WebfortProofs -----------------------------
(***************************************************************************)
(* Theorems about Session, for every set of connections and every          *)
(* configuration, and about Webfort, which implements it: the main thread  *)
(* and the input queues are stuttering to Session, and every step of the   *)
(* websocket thread is one of its steps.  So whatever holds of the         *)
(* websocket thread alone holds with the main thread running next to it,   *)
(* for every bound on the queues.  The pause key, ESC and the clicks are   *)
(* then followed through those queues.                                     *)
(***************************************************************************)
EXTENDS Webfort, FiniteSetTheorems, SequenceTheorems, TLAPS

USE ConnAssumption, ConfigAssumption

--------------------------------------------------------------------------------
(* The client map as a finite set *)

\* The number of connected clients is a number.
LEMMA ClientsFinite ==
    ASSUME NEW S, S \subseteq Conn
    PROVE  IsFiniteSet(S) /\ Cardinality(S) \in Nat
BY FS_Subset, FS_CardinalityType

\* Letting one client into a map that is not full does not overfill it.
LEMMA OneMore ==
    ASSUME NEW S, S \subseteq Conn, NEW c \in Conn, Cardinality(S) < MAX_CLIENTS
    PROVE  Cardinality(S \cup {c}) <= MAX_CLIENTS
<1>1. IsFiniteSet(S) /\ Cardinality(S) \in Nat
  BY ClientsFinite
<1>2. Cardinality(S \cup {c}) = Cardinality(S)
        \/ Cardinality(S \cup {c}) = Cardinality(S) + 1
  BY <1>1, FS_AddElement
<1> QED
  BY <1>1, <1>2

\* Erasing a client never makes the map larger.
LEMMA OneLess ==
    ASSUME NEW S, S \subseteq Conn, NEW c
    PROVE  Cardinality(S \ {c}) <= Cardinality(S)
<1>1. IsFiniteSet(S) /\ S \ {c} \subseteq S
  BY ClientsFinite
<1> QED
  BY <1>1, FS_Subset

--------------------------------------------------------------------------------
(* Types *)

\* A byte counts to its limit and is a number beyond it.
LEMMA CountedRange ==
    ASSUME TypeOK, NEW k
    PROVE  /\ Counted(k) \in Nat
           /\ Counted(k) = Cardinality(clients)
                \/ (k = "update" /\ Cardinality(clients) >= CountValues)
<1>1. Cardinality(clients) \in Nat /\ CountValues \in Nat \ {0}
  BY ClientsFinite DEF TypeOK
<1>2. \A n \in Nat, m \in Nat \ {0} : n % m \in Nat
  OBVIOUS
<1>3. \A n \in Nat, m \in Nat \ {0} : n < m => n % m = n
  OBVIOUS
<1> QED
  BY <1>1, <1>2, <1>3 DEF Counted

\* What is sent out is a status record whatever the arguments.
LEMMA StatusType ==
    ASSUME TypeOK, NEW k \in {"update", "status"}, NEW c \in Conn \cup {NoConn},
           NEW h \in Conn \cup {NoConn}, NEW n \in Conn \cup {NoConn}, NEW l \in Int
    PROVE  Status(k, c, h, n, l) \in StatusRecord
<1>1. Counted(k) \in Nat
  BY CountedRange
<1> QED
  BY <1>1 DEF Status, StatusRecord

\* What get_time_left returns is an integer, -1 when no clock runs.
LEMMA TimeLeftType == TypeOK => get_time_left \in Int
BY DEF TypeOK, get_time_left

\* set_active keeps the types of all it assigns, whoever gets the turn.
LEMMA SetActiveType ==
    ASSUME TypeOK, NEW n \in Conn \cup {NoConn}, NEW e \in Endings, set_active(n, e)
    PROVE  /\ active' \in Conn \cup {NoConn}
           /\ played' \in 0 .. TURNTIME
           /\ cursor_active' \subseteq Conn
           /\ idle' \in 0 .. IDLE_TIMEOUT + 1
           /\ timed_out' \in BOOLEAN
           /\ saves' \in 0 .. 2
           /\ ended' \in Endings
           /\ quiet' \in 0 .. IDLE_TIMEOUT + 1
<1>1. CASE n = active
  BY <1>1 DEF TypeOK, set_active, turnVars, idleVars
<1>2. CASE n # active
  <2>1. /\ idle' \in 0 .. IDLE_TIMEOUT + 1
        /\ timed_out' \in BOOLEAN
        /\ saves' \in 0 .. 2
    <3>1. CASE n = NoConn /\ AUTOSAVE_WHILE_IDLE
      <4>1. idle' = 0 /\ timed_out' = FALSE /\ saves' = 0
        BY <1>2, <3>1 DEF set_active, reset_idle_timer
      <4>2. timed_out' \in BOOLEAN
        BY <4>1, Zenon
      <4> QED BY <4>1, <4>2
    <3>2. CASE ~(n = NoConn /\ AUTOSAVE_WHILE_IDLE)
      <4>1. UNCHANGED idle /\ UNCHANGED timed_out /\ UNCHANGED saves
        BY <1>2, <3>2 DEF set_active, idleVars
      <4> QED BY <4>1 DEF TypeOK
    <3> QED BY <3>1, <3>2
  <2> QED
    BY <1>2, <2>1 DEF TypeOK, set_active
<1> QED
  BY <1>1, <1>2

\* The state wsloop starts from has the types.
LEMMA TypeInit == Init => TypeOK
BY DEF Init, TypeOK, LinkState, Endings, Nothing

\* Every handler keeps the types, and so do time and vanishing peers.
LEMMA TypeStep == TypeOK /\ [Next]_vars => TypeOK'
<1> SUFFICES ASSUME TypeOK, [Next]_vars
             PROVE  TypeOK'
  OBVIOUS
<1> USE DEF LinkState
<1>1. ASSUME NEW c \in Conn, NEW ok \in BOOLEAN, on_open(c, ok)
      PROVE  TypeOK'
  BY <1>1 DEF on_open, TypeOK, turnVars, idleVars, Nothing
<1>2. ASSUME NEW c \in Conn, PeerGone(c)
      PROVE  TypeOK'
  BY <1>2 DEF PeerGone, TypeOK, turnVars, idleVars, Nothing
<1>3. ASSUME NEW c \in Conn, on_close(c)
      PROVE  TypeOK'
  <2>1. TT!EndedBy("left", c) \in Endings
    BY DEF Endings
  <2>2. CASE c = active
    BY <1>3, <2>1, <2>2, SetActiveType DEF on_close, TypeOK, Nothing
  <2>3. CASE c # active
    BY <1>3, <2>3 DEF on_close, TypeOK, turnVars, idleVars, Nothing
  <2> QED BY <2>2, <2>3
<1>4. ASSUME NEW c \in Conn, requestTurn(c)
      PROVE  TypeOK'
  <2>1. TT!EndedBy("yielded", c) \in Endings /\ TT!NotEnded \in Endings
    BY DEF Endings
  <2>2. PICK n \in Conn \cup {NoConn}, e \in Endings : set_active(n, e)
    BY <1>4, <2>1 DEF requestTurn
  <2> QED BY <1>4, <2>2, SetActiveType DEF requestTurn, TypeOK, Nothing
<1>5. ASSUME NEW c \in Conn, cursorMove(c)
      PROVE  TypeOK'
  BY <1>5 DEF cursorMove, TypeOK, turnVars, idleVars, Nothing
<1>6. ASSUME NEW c \in Conn, tock(c)
      PROVE  TypeOK'
  <2>1. active' \in Conn \cup {NoConn} => sent' \in StatusRecord
    BY <1>6, StatusType, TimeLeftType DEF tock, TypeOK
  <2>2. CASE TimeUp
    <3>1. TT!EndedBy("expired", NoConn) \in Endings
      BY DEF Endings
    <3> QED BY <1>6, <2>1, <2>2, <3>1, SetActiveType DEF tock, TypeOK
  <2>3. CASE ~TimeUp
    <3>1. /\ idle' \in 0 .. IDLE_TIMEOUT + 1
          /\ timed_out' \in BOOLEAN
          /\ saves' \in 0 .. 2
      <4>1. \/ timed_out' = TRUE /\ UNCHANGED idle
               /\ saves' = IF saves < 2 THEN saves + 1 ELSE saves
            \/ UNCHANGED timed_out /\ UNCHANGED idle /\ UNCHANGED saves
        BY <1>6, <2>3 DEF tock, idle_timer, idleVars
      <4>2. timed_out' \in BOOLEAN
        BY <4>1, Zenon DEF TypeOK
      <4> QED BY <4>1, <4>2 DEF TypeOK
    <3> QED
      BY <1>6, <2>1, <2>3, <3>1 DEF tock, TypeOK, turnVars
  <2> QED BY <2>2, <2>3
<1>7. CASE on_http
  <2>1. sent' \in StatusRecord
    BY <1>7, StatusType, TimeLeftType DEF on_http, TypeOK
  <2> QED BY <1>7, <2>1 DEF on_http, TypeOK, turnVars, idleVars
<1>8. CASE Second
  BY <1>8 DEF Second, TypeOK, Nothing
<1>9. CASE TurnTick
  BY <1>9 DEF TurnTick, TypeOK, idleVars, Nothing
<1>10. CASE UNCHANGED vars
  BY <1>10 DEF vars, turnVars, idleVars, TypeOK
<1> QED
  BY <1>1, <1>2, <1>3, <1>4, <1>5, <1>6, <1>7, <1>8, <1>9, <1>10 DEF Next, Handler

\* Every variable keeps its type, in particular the clocks their bounds.
THEOREM TypeCorrect == Spec => []TypeOK
BY TypeInit, TypeStep, PTL DEF Spec

--------------------------------------------------------------------------------
(* Who holds the turn, and what is known of them *)

\* The four safety invariants need each other: a turn passes to whoever sends
\* a message, whom the links place in the map; and a cursor is erased with its
\* client only because cursors belong to clients.
Safety == TypeOK /\ DriverConnected /\ NoGhostDriver /\ WithinCapacity

\* Before anybody connects, the map, the turn and the cursors are empty.
LEMMA SafetyInit == Init => Safety
<1> SUFFICES ASSUME Init
             PROVE  Safety
  OBVIOUS
<1>1. TypeOK
  BY TypeInit
<1>2. DriverConnected /\ NoGhostDriver
  BY DEF Init, DriverConnected, NoGhostDriver
<1>3. WithinCapacity
  BY FS_EmptySet DEF Init, WithinCapacity
<1> QED
  BY <1>1, <1>2, <1>3 DEF Safety

\* A handler that leaves the map and the links alone and gives the turn to
\* nobody or to a connected client keeps the safety invariants.
LEMMA SetActiveSafe ==
    ASSUME Safety, TypeOK', NEW n \in clients \cup {NoConn}, NEW e,
           set_active(n, e), UNCHANGED <<link, clients>>
    PROVE  Safety'
<1>1. n \in Conn \cup {NoConn}
  BY DEF Safety, TypeOK
<1>2. active' = n /\ cursor_active' \subseteq cursor_active
  BY DEF set_active, turnVars
<1>3. active' \notin cursor_active'
  BY DEF set_active, turnVars, Safety, NoGhostDriver
<1>4. DriverConnected'
  BY <1>2 DEF Safety, DriverConnected
<1> QED
  BY <1>2, <1>3, <1>4 DEF Safety, NoGhostDriver, WithinCapacity

\* Every handler keeps the safety invariant.
LEMMA SafetyStep == Safety /\ [Next]_vars => Safety'
<1> SUFFICES ASSUME Safety, [Next]_vars
             PROVE  Safety'
  OBVIOUS
<1>0. TypeOK /\ TypeOK'
  BY TypeStep DEF Safety
<1> USE DEF Safety
<1>1. ASSUME NEW c \in Conn, NEW ok \in BOOLEAN, on_open(c, ok)
      PROVE  Safety'
  <2>1. DriverConnected' /\ NoGhostDriver'
    BY <1>0, <1>1
    DEF on_open, DriverConnected, NoGhostDriver, turnVars, TypeOK, LinkState
  <2>2. WithinCapacity'
    BY <1>0, <1>1, OneMore DEF on_open, WithinCapacity, TypeOK
  <2> QED BY <1>0, <2>1, <2>2
<1>2. ASSUME NEW c \in Conn, PeerGone(c)
      PROVE  Safety'
  BY <1>0, <1>2
  DEF PeerGone, DriverConnected, NoGhostDriver, WithinCapacity, turnVars, TypeOK
<1>3. ASSUME NEW c \in Conn, on_close(c)
      PROVE  Safety'
  <2>1. c = active => active' = NoConn /\ cursor_active' = cursor_active \ {c, NoConn}
    BY <1>0, <1>3, ConnAssumption DEF on_close, set_active
  <2>2. c # active => active' = active /\ cursor_active' = cursor_active \ {c}
    BY <1>3 DEF on_close, turnVars
  <2>3. DriverConnected'
    BY <1>0, <1>3, <2>1, <2>2 DEF on_close, DriverConnected, TypeOK
  <2>4. NoGhostDriver'
    BY <1>0, <1>3, <2>1, <2>2, ConnAssumption
    DEF on_close, NoGhostDriver, TypeOK
  <2>5. WithinCapacity'
    <3>1. Cardinality(clients \ {c}) <= Cardinality(clients)
      BY <1>0, OneLess DEF TypeOK
    <3>2. Cardinality(clients \ {c}) \in Nat /\ Cardinality(clients) \in Nat
      BY <1>0, ClientsFinite DEF TypeOK
    <3> QED BY <1>3, <3>1, <3>2 DEF on_close, WithinCapacity
  <2> QED BY <1>0, <2>3, <2>4, <2>5
<1>4. ASSUME NEW c \in Conn, requestTurn(c)
      PROVE  Safety'
  <2>1. c \in clients
    BY <1>4 DEF requestTurn, Dispatched, DriverConnected
  <2>2. PICK n \in clients \cup {NoConn}, e \in Endings : set_active(n, e)
    BY <1>4, <2>1 DEF requestTurn, Endings
  <2> QED BY <1>0, <1>4, <2>2, SetActiveSafe DEF requestTurn
<1>5. ASSUME NEW c \in Conn, cursorMove(c)
      PROVE  Safety'
  BY <1>0, <1>5
  DEF cursorMove, Dispatched, DriverConnected, NoGhostDriver, WithinCapacity, turnVars
<1>6. ASSUME NEW c \in Conn, tock(c)
      PROVE  Safety'
  <2>1. CASE TimeUp
    BY <1>0, <1>6, <2>1, SetActiveSafe DEF tock
  <2>2. CASE ~TimeUp
    BY <1>0, <1>6, <2>2
    DEF tock, DriverConnected, NoGhostDriver, WithinCapacity, turnVars
  <2> QED BY <2>1, <2>2
<1>7. CASE on_http
  BY <1>0, <1>7
  DEF on_http, DriverConnected, NoGhostDriver, WithinCapacity, turnVars
<1>8. CASE Second
  BY <1>0, <1>8 DEF Second, DriverConnected, NoGhostDriver, WithinCapacity
<1>9. CASE TurnTick
  BY <1>0, <1>9 DEF TurnTick, DriverConnected, NoGhostDriver, WithinCapacity
<1>10. CASE UNCHANGED vars
  BY <1>0, <1>10 DEF vars, turnVars, DriverConnected, NoGhostDriver, WithinCapacity
<1> QED
  BY <1>1, <1>2, <1>3, <1>4, <1>5, <1>6, <1>7, <1>8, <1>9, <1>10 DEF Next, Handler

\* The safety invariant holds of every reachable state.
LEMMA SafetyAlways == Spec => []Safety
BY SafetyInit, SafetyStep, PTL DEF Spec

\* The turn is never held by a connection that is not in the map of clients.
THEOREM DriverIsConnected == Spec => []DriverConnected
<1>1. Safety => DriverConnected
  BY DEF Safety
<1> QED
  BY <1>1, SafetyAlways, PTL

\* The driver never has a spectator cursor as well.
THEOREM DriverHasNoGhost == Spec => []NoGhostDriver
<1>1. Safety => NoGhostDriver
  BY DEF Safety
<1> QED
  BY <1>1, SafetyAlways, PTL

\* No more than MAX_CLIENTS clients are ever connected.
THEOREM CapacityRespected == Spec => []WithinCapacity
<1>1. Safety => WithinCapacity
  BY DEF Safety
<1> QED
  BY <1>1, SafetyAlways, PTL

--------------------------------------------------------------------------------
(* What is sent out *)

\* get_time_left is -1, or the clock runs and at least one unit is left.
LEMMA TimeLeftRange ==
    ASSUME TypeOK
    PROVE  /\ TimeUp => TURNTIME # 0 /\ active # NoConn
           /\ get_time_left = -1 \/ get_time_left \in 1 .. TURNTIME
           /\ active = NoConn => get_time_left = -1
           /\ ~TimeUp /\ active # NoConn =>
                (get_time_left = -1 <=> TURNTIME = 0 \/ Cardinality(clients) <= 1)
           /\ get_time_left # -1 => Cardinality(clients) > 1
<1>1. Cardinality(clients) \in Nat
  BY ClientsFinite DEF TypeOK
<1>2. played \in Nat /\ TURNTIME \in Nat
  BY DEF TypeOK
<1> QED
  BY <1>1, <1>2 DEF get_time_left, TimeUp, TimerRuns

\* No update and no status document shows somebody playing on borrowed time,
\* and none tells a client both that it plays and that nobody does.
THEOREM HeadersAreTrue == Spec => []HeaderTruth
<1>1. Init => HeaderTruth
  BY DEF Init, HeaderTruth
<1>2. TypeOK /\ HeaderTruth /\ [Next]_vars => HeaderTruth'
  <2> SUFFICES ASSUME TypeOK, HeaderTruth, [Next]_vars
               PROVE  HeaderTruth'
    OBVIOUS
  <2>1. CASE sent' = Nothing
    BY <2>1 DEF HeaderTruth
  <2>2. ASSUME NEW c \in Conn, tock(c)
        PROVE  HeaderTruth'
    <3>1. /\ sent'.kind = "update" /\ sent'.left = get_time_left
          /\ sent'.count = Counted("update") /\ UNCHANGED clients
          /\ sent'.mine = (c # NoConn /\ active' = c)
          /\ sent'.nobody = (active' = NoConn)
      BY <2>2 DEF tock, Status
    <3>2. CASE TimeUp
      <4>1. active' = NoConn /\ get_time_left = -1
        BY <2>2, <3>2, TimeLeftRange DEF tock, set_active, get_time_left
      <4> QED BY <3>1, <4>1 DEF HeaderTruth
    <3>3. CASE ~TimeUp
      <4>1. active' = active
        BY <2>2, <3>3 DEF tock, turnVars
      <4> QED BY <3>1, <3>3, <4>1, TimeLeftRange, CountedRange DEF HeaderTruth
    <3> QED BY <3>2, <3>3
  <2>3. CASE on_http
    <3>1. /\ sent'.kind = "status" /\ sent'.left = get_time_left
          /\ sent'.count = Counted("status") /\ UNCHANGED clients
          /\ sent'.mine = FALSE /\ sent'.nobody = (active = NoConn)
      BY <2>3 DEF on_http, Status
    <3> QED BY <3>1, TimeLeftRange, CountedRange DEF HeaderTruth
  <2>4. CASE UNCHANGED vars
    BY <2>4 DEF vars, HeaderTruth
  <2> QED
    BY <2>1, <2>2, <2>3, <2>4
    DEF Next, Handler, on_open, PeerGone, on_close, requestTurn, cursorMove,
        Second, TurnTick
<1> QED
  BY <1>1, <1>2, TypeCorrect, PTL DEF Spec

--------------------------------------------------------------------------------
(* The idle autosave *)

\* While the autosave is pending, nothing has been saved since the last turn
\* ended, and itime is the moment it ended; without AUTOSAVE_WHILE_IDLE it is
\* never pending.
AutosavePending ==
    ~timed_out =>
        /\ AUTOSAVE_WHILE_IDLE
        /\ saves = 0
        /\ active = NoConn => idle = quiet /\ ended # TT!NotEnded

\* set_active keeps the link between the idle clock and the quiet seconds: giving
\* up a turn starts both together.
LEMMA AutosaveSetActive ==
    ASSUME TypeOK, AutosavePending, NEW n, NEW e, set_active(n, e),
           n = NoConn => e # TT!NotEnded
    PROVE  AutosavePending' /\ saves' <= saves
<1>1. CASE n = active
  BY <1>1 DEF set_active, turnVars, idleVars, AutosavePending, TypeOK
<1>2. CASE n # active /\ n = NoConn /\ AUTOSAVE_WHILE_IDLE
  BY <1>2 DEF set_active, reset_idle_timer, AutosavePending, TypeOK
<1>3. CASE n # active /\ ~(n = NoConn /\ AUTOSAVE_WHILE_IDLE)
  BY <1>3 DEF set_active, idleVars, AutosavePending, TypeOK
<1> QED
  BY <1>1, <1>2, <1>3

\* Every handler keeps that link, and one that saves does so in time.
LEMMA AutosaveStep ==
    ASSUME TypeOK, AutosavePending, [Next]_vars
    PROVE  /\ AutosavePending'
           /\ saves' > saves =>
                /\ saves = 0
                /\ active = NoConn /\ active' = NoConn
                /\ quiet > IDLE_TIMEOUT
                /\ ended # TT!NotEnded
<1> DEFINE Goal == /\ AutosavePending'
                   /\ saves' > saves =>
                        /\ saves = 0
                        /\ active = NoConn /\ active' = NoConn
                        /\ quiet > IDLE_TIMEOUT
                        /\ ended # TT!NotEnded
<1>0. /\ TT!EndedBy("expired", NoConn) # TT!NotEnded
      /\ \A c : /\ TT!EndedBy("left", c) # TT!NotEnded
                /\ TT!EndedBy("yielded", c) # TT!NotEnded
  BY DEF TT!EndedBy, TT!NotEnded
<1>a. saves \in Nat /\ ~(saves > saves)
  BY DEF TypeOK
<1>b. saves' <= saves => ~(saves' > saves) \/ saves' \notin Int
  BY <1>a
<1>c. saves' \in Nat
  BY TypeStep DEF TypeOK
<1>1. CASE UNCHANGED <<active, ended, quiet, idleVars>>
  <2>1. UNCHANGED saves /\ AutosavePending'
    BY <1>1 DEF idleVars, AutosavePending
  <2> QED BY <1>a, <2>1
<1>2. ASSUME NEW c \in Conn, on_close(c)
      PROVE  Goal
  <2>1. CASE c = active
    BY <1>0, <1>a, <1>b, <1>c, <1>2, <2>1, AutosaveSetActive DEF on_close
  <2>2. CASE c # active
    BY <1>1, <1>2, <2>2 DEF on_close, turnVars
  <2> QED BY <2>1, <2>2
<1>3. ASSUME NEW c \in Conn, requestTurn(c)
      PROVE  Goal
  <2>1. PICK n, e : set_active(n, e) /\ (n = NoConn => e # TT!NotEnded)
    BY <1>0, <1>3, ConnAssumption DEF requestTurn
  <2> QED BY <1>a, <1>b, <1>c, <2>1, AutosaveSetActive
<1>4. ASSUME NEW c \in Conn, tock(c)
      PROVE  Goal
  <2>1. CASE TimeUp
    BY <1>0, <1>a, <1>b, <1>c, <1>4, <2>1, AutosaveSetActive DEF tock
  <2>2. CASE ~TimeUp
    <3>1. UNCHANGED <<active, ended, quiet>>
      BY <1>4, <2>2 DEF tock, turnVars
    <3>2. CASE ~timed_out /\ active = NoConn /\ idle > IDLE_TIMEOUT
      <4>1. timed_out'
        BY <1>4, <2>2, <3>2 DEF tock, idle_timer
      <4> QED BY <3>1, <3>2, <4>1 DEF AutosavePending
    <3>3. CASE ~(~timed_out /\ active = NoConn /\ idle > IDLE_TIMEOUT)
      BY <1>1, <1>4, <2>2, <3>1, <3>3 DEF tock, idle_timer
    <3> QED BY <3>2, <3>3
  <2> QED BY <2>1, <2>2
<1>5. CASE Second
  <2>1. UNCHANGED <<active, ended, timed_out, saves>>
    BY <1>5 DEF Second
  <2>2. ~timed_out /\ active = NoConn => idle' = quiet'
    BY <1>5 DEF Second, AutosavePending, TypeOK
  <2> QED BY <1>a, <2>1, <2>2 DEF AutosavePending
<1> QED
  BY <1>1, <1>2, <1>3, <1>4, <1>5
  DEF Next, Handler, on_open, PeerGone, cursorMove, on_http, TurnTick, vars, turnVars

\* Whatever the configuration, the autosave fires at most once per idle period,
\* and only after IDLE_TIMEOUT seconds in which nobody played.
THEOREM AutosaveIsTimely == Spec => AutosaveTiming
<1>1. Init => AutosavePending
  BY DEF Init, AutosavePending
<1>2. TypeOK /\ AutosavePending /\ [Next]_vars => AutosavePending'
  BY AutosaveStep
<1>3. TypeOK /\ AutosavePending /\ [Next]_vars
        => [saves' > saves =>
              /\ saves = 0
              /\ active = NoConn /\ active' = NoConn
              /\ quiet > IDLE_TIMEOUT
              /\ ended # TT!NotEnded]_vars
  BY AutosaveStep
<1> QED
  BY <1>1, <1>2, <1>3, TypeCorrect, PTL DEF Spec, AutosaveTiming

--------------------------------------------------------------------------------
(* The turn contract *)

\* The contract counts players as the handlers do.
LEMMA SameCount == \A S : TT!Cardinality(S) = Cardinality(S)
BY DEF TT!Cardinality, Cardinality

\* Losing the turn is losing it as the contract says.
LEMMA SetActiveGivesUp ==
    ASSUME active # NoConn, NEW e, set_active(NoConn, e)
    PROVE  TT!GiveUp(e)
BY DEF set_active, TT!GiveUp

\* Every handler is a step of the turn contract or changes nothing it speaks of.
LEMMA TurnStep == Safety /\ [Next]_vars => [TT!Next]_(TT!tokenVars)
<1> SUFFICES ASSUME Safety, [Next]_vars
             PROVE  [TT!Next]_(TT!tokenVars)
  OBVIOUS
<1>0. TypeOK
  BY DEF Safety
<1> USE DEF TT!tokenVars
<1>1. CASE UNCHANGED <<clients, active, played, ended>>
  BY <1>1
<1>2. ASSUME NEW c \in Conn, NEW ok \in BOOLEAN, on_open(c, ok)
      PROVE  [TT!Next]_(TT!tokenVars)
  <2>1. CASE ok /\ Cardinality(clients) < MAX_CLIENTS
    <3>1. CASE c \in clients
      <4>1. clients' = clients
        BY <1>2, <2>1, <3>1 DEF on_open
      <4> QED BY <1>1, <1>2, <4>1 DEF on_open, turnVars
    <3>2. CASE c \notin clients
      <4>1. TT!Join(c)
        BY <1>2, <2>1, <3>2, SameCount DEF on_open, turnVars, TT!Join
      <4> QED BY <4>1 DEF TT!Next
    <3> QED BY <3>1, <3>2
  <2>2. CASE ~(ok /\ Cardinality(clients) < MAX_CLIENTS)
    BY <1>1, <1>2, <2>2 DEF on_open, turnVars
  <2> QED BY <2>1, <2>2
<1>3. ASSUME NEW c \in Conn, on_close(c)
      PROVE  [TT!Next]_(TT!tokenVars)
  <2>1. CASE c = active
    <3>1. c \in clients /\ c # NoConn
      BY <2>1, ConnAssumption DEF Safety, DriverConnected
    <3>2. TT!GiveUp(TT!EndedBy("left", c))
      BY <1>3, <2>1, <3>1, SetActiveGivesUp DEF on_close
    <3>3. TT!Leave(c)
      BY <1>3, <2>1, <3>1, <3>2 DEF on_close, TT!Leave
    <3> QED BY <3>3 DEF TT!Next
  <2>2. CASE c # active /\ c \in clients
    <3>1. TT!Leave(c)
      BY <1>3, <2>2 DEF on_close, turnVars, TT!Leave
    <3> QED BY <3>1 DEF TT!Next
  <2>3. CASE c # active /\ c \notin clients
    <3>1. clients' = clients
      BY <1>3, <2>3 DEF on_close
    <3> QED BY <1>1, <1>3, <2>3, <3>1 DEF on_close, turnVars
  <2> QED BY <2>1, <2>2, <2>3
<1>4. ASSUME NEW c \in Conn, requestTurn(c)
      PROVE  [TT!Next]_(TT!tokenVars)
  <2>1. c \in clients /\ c # NoConn /\ UNCHANGED clients
    BY <1>4, ConnAssumption DEF requestTurn, Dispatched, Safety, DriverConnected
  <2>2. CASE c = active
    <3>1. TT!GiveUp(TT!EndedBy("yielded", c))
      BY <1>4, <2>1, <2>2, SetActiveGivesUp DEF requestTurn
    <3>2. TT!Yield(c)
      BY <2>1, <2>2, <3>1 DEF TT!Yield
    <3> QED BY <3>2 DEF TT!Next
  <2>3. CASE c # active
    <3>1. TT!Take(c)
      BY <1>4, <2>1, <2>3 DEF requestTurn, set_active, TT!Take
    <3> QED BY <3>1 DEF TT!Next
  <2> QED BY <2>2, <2>3
<1>5. ASSUME NEW c \in Conn, tock(c)
      PROVE  [TT!Next]_(TT!tokenVars)
  <2>1. CASE TimeUp
    <3>1. TT!GiveUp(TT!EndedBy("expired", NoConn))
      BY <1>5, <2>1, SetActiveGivesUp DEF tock, TimeUp, TimerRuns
    <3>2. played = TURNTIME
      BY <1>0, <2>1 DEF TimeUp, TypeOK
    <3>3. TT!Expire
      BY <1>5, <2>1, <3>1, <3>2, SameCount DEF tock, TimeUp, TimerRuns, TT!Expire
    <3> QED BY <3>3 DEF TT!Next
  <2>2. CASE ~TimeUp
    BY <1>1, <1>5, <2>2 DEF tock, turnVars
  <2> QED BY <2>1, <2>2
<1>6. CASE TurnTick
  <2>1. TT!Elapse
    BY <1>6 DEF TurnTick, TT!Elapse
  <2> QED BY <2>1 DEF TT!Next
<1> QED
  BY <1>1, <1>2, <1>3, <1>4, <1>5, <1>6
  DEF Next, Handler, PeerGone, cursorMove, on_http, Second, vars, turnVars

\* The handlers implement the turn contract of TurnToken.
THEOREM TurnContractHolds == Spec => TurnContract
<1>1. Init => TT!Init
  BY DEF Init, TT!Init
<1> QED
  BY <1>1, TurnStep, SafetyAlways, PTL DEF Spec, TurnContract, TT!Spec

\* How the last turn ended is forgotten only by a change of the driver, and
\* noted by nothing else.
LEMMA EndedFollowsActive ==
    ASSUME [Next]_vars, active' = active
    PROVE  ended' = ended
<1>1. ASSUME NEW n, NEW e, set_active(n, e) PROVE ended' = ended
  BY <1>1 DEF set_active, turnVars
<1>2. ASSUME NEW c \in Conn, Handler(c) \/ PeerGone(c) PROVE ended' = ended
  BY <1>1, <1>2 DEF Handler, on_open, on_close, requestTurn, cursorMove, tock, PeerGone,
                    turnVars
<1> QED
  BY <1>2 DEF Next, on_http, Second, TurnTick, vars, turnVars

--------------------------------------------------------------------------------
(* What the page of one connection sees of the turn *)

TurnSeen(c) ==
    IF active = NoConn THEN "nobody" ELSE IF active = c THEN "page" ELSE "other"

\* The turn passes from nobody to somebody and back, and whoever gets it asked.
LEMMA TurnPasses ==
    ASSUME [Next]_vars, active' # active
    PROVE  /\ active = NoConn <=> active' # NoConn
           /\ active' # NoConn => requestTurn(active') /\ active' \in Conn
<1>1. ASSUME NEW n, NEW e, set_active(n, e) PROVE active' = n
  BY <1>1 DEF set_active, turnVars
<1>2. ASSUME NEW c \in Conn, requestTurn(c)
      PROVE  /\ active = NoConn <=> active' # NoConn
             /\ active' # NoConn => requestTurn(active') /\ active' \in Conn
  BY <1>1, <1>2, ConnAssumption DEF requestTurn
<1>3. ASSUME NEW c \in Conn, on_close(c)
      PROVE  active' = NoConn
  BY <1>1, <1>3 DEF on_close, turnVars
<1>4. ASSUME NEW c \in Conn, tock(c)
      PROVE  active' = NoConn
  BY <1>1, <1>4 DEF tock, turnVars
<1> QED
  BY <1>2, <1>3, <1>4
  DEF Next, Handler, on_open, cursorMove, PeerGone, on_http, Second, TurnTick, vars, turnVars

\* The page's own request toggles the turn, which it then sees to be free or its
\* own; all others can do is take one that is free, or end one.
SeenStep(c) ==
    \/ /\ requestTurn(c)
       /\ TurnSeen(c)' = IF TurnSeen(c) = "nobody" THEN "page" ELSE "nobody"
    \/ /\ TurnSeen(c)' # "page"
       /\ TurnSeen(c) = "nobody" <=> TurnSeen(c)' # "nobody"

\* A page sees the turn begin and end, never pass from player to player, and it
\* gets the turn by its own request only: what Browser leaves open of the other
\* players is all they can do (server.cpp:175-223, 799-805).
THEOREM PagesSeeTurns ==
    Spec => \A c \in Conn : [][TurnSeen(c)' # TurnSeen(c) => SeenStep(c)]_vars
<1> SUFFICES ASSUME NEW c \in Conn
             PROVE  Spec => [][TurnSeen(c)' # TurnSeen(c) => SeenStep(c)]_vars
  OBVIOUS
<1>1. [Next]_vars => [TurnSeen(c)' # TurnSeen(c) => SeenStep(c)]_vars
  <2> SUFFICES ASSUME [Next]_vars, TurnSeen(c)' # TurnSeen(c)
               PROVE  SeenStep(c)
    OBVIOUS
  <2>1. active' # active
    BY DEF TurnSeen
  <2>2. /\ active = NoConn <=> active' # NoConn
        /\ active' # NoConn => requestTurn(active') /\ active' \in Conn
    BY <2>1, TurnPasses
  <2>3. CASE active' = c
    BY <2>2, <2>3, ConnAssumption DEF TurnSeen, SeenStep
  <2>4. CASE active' # c
    BY <2>2, <2>4 DEF TurnSeen, SeenStep
  <2> QED
    BY <2>3, <2>4
<1> QED
  BY <1>1, PTL DEF Spec

--------------------------------------------------------------------------------
(* Both threads together *)

\* Queueing the pause key is part of a step of Session and takes none away.
LEMMA SessionStepKeeps ==
    ASSUME WNext
    PROVE  [Next]_vars
<1>1. CASE \E c \in Conn : SessionStep(Handler(c) \/ PeerGone(c))
  BY <1>1 DEF SessionStep, Next
<1>2. CASE \E c \in Conn : on_message_input(c)
  BY <1>2 DEF on_message_input, MouseEvent, KeyEvent
<1>3. CASE SessionStep(on_http) \/ SessionStep(Second)
  BY <1>3 DEF SessionStep, Next
<1>4. CASE RoundTime
  BY <1>4 DEF RoundTime, SessionStep, Next
<1>5. CASE MainStep(B!MainThread)
  BY <1>5 DEF MainStep
<1> QED
  BY <1>1, <1>2, <1>3, <1>4, <1>5 DEF WNext

\* With the main thread interleaved the websocket thread does what Session
\* says: pausing the game at a handoff, and the clock that stands still while
\* it is paused, add no behaviour to the turns.
THEOREM WebfortImplementsSession == WSpec => Spec
<1>1. WInit => Init
  BY DEF WInit
<1>2. [WNext]_allVars => [Next]_vars
  BY SessionStepKeeps DEF allVars
<1> QED
  BY <1>1, <1>2, PTL DEF WSpec, Spec

\* The turn contract holds of the composition as well.
THEOREM WebfortTurnContract == WSpec => TurnContract
BY WebfortImplementsSession, TurnContractHolds

\* So do the driver's connection and the consistency of what is sent.
THEOREM WebfortSessionsSafe == WSpec => [](DriverConnected /\ NoGhostDriver /\ HeaderTruth)
<1> QED
  BY WebfortImplementsSession, DriverIsConnected, DriverHasNoGhost, HeadersAreTrue, PTL

--------------------------------------------------------------------------------
(* The queues *)

\* Keys as they may be under way with the screen scr: no ESC that would open the
\* menu, unless it is an admin's or a screen was closed under it.
Guarded(scr, cl) ==
    {e \in B!WFKeyEvent : e.key = "ESC" /\ e.from \notin Admins => scr # "idle" \/ cl}

\* Whose clicks may be queued.
Current(a, l) == {c \in Conn : c = a \/ c \in l}

WInv ==
    /\ keyQ \in Seq(Guarded(screen, closed))
    /\ sdlQ \in Seq(Guarded(screen, closed))
    /\ mouseQ \in Seq(Current(active, late))
    /\ flush \in {"keys", "mouse"}
    /\ paused \in BOOLEAN
    /\ screen \in B!Screen
    /\ disturbed \in BOOLEAN /\ closed \in BOOLEAN
    /\ late \subseteq Conn

LEMMA WInvInit == WInit => WInv
<1> SUFFICES ASSUME WInit PROVE WInv
  OBVIOUS
<1>1. paused \in BOOLEAN /\ disturbed \in BOOLEAN /\ closed \in BOOLEAN
  BY Zenon DEF WInit, B!BridgeInit
<1> QED
  BY <1>1 DEF WInit, B!BridgeInit, WInv, B!Screen

\* A handler of Session queues at most the pause key, and whoever loses the turn
\* in it is late.
LEMMA SessionStepInv ==
    ASSUME WInv, TypeOK, NEW ACTION A, SessionStep(A)
    PROVE  WInv'
<1>1. UNCHANGED <<sdlQ, mouseQ, flush, paused, screen, closed>>
  BY DEF SessionStep, PauseGame, bridge, B!simkey
<1>2. disturbed' \in BOOLEAN
  BY DEF SessionStep, PauseGame, WInv, PausePending
<1>3. keyQ' \in Seq(Guarded(screen, closed))
  <2>1. [from |-> NoConn, key |-> "SPACE"] \in Guarded(screen, closed)
    BY DEF Guarded, B!WFKeyEvent, B!Key
  <2>2. UNCHANGED keyQ \/ keyQ' = Append(keyQ, [from |-> NoConn, key |-> "SPACE"])
    BY DEF SessionStep, PauseGame, bridge, B!simkey
  <2>3. keyQ \in Seq(Guarded(screen, closed))
    BY DEF WInv
  <2>4. Append(keyQ, [from |-> NoConn, key |-> "SPACE"]) \in Seq(Guarded(screen, closed))
    BY <2>1, <2>3, AppendProperties
  <2> QED
    BY <2>2, <2>3, <2>4
<1>4. late' \subseteq Conn /\ Current(active, late) \subseteq Current(active', late')
  BY DEF SessionStep, WInv, Current
<1>5. mouseQ' \in Seq(Current(active', late'))
  BY <1>1, <1>4, SeqMonotonic DEF WInv
<1> QED
  BY <1>1, <1>2, <1>3, <1>4, <1>5 DEF WInv

\* What the player of the moment types and clicks has been checked.
LEMMA InputInv ==
    ASSUME WInv, NEW c \in Conn, on_message_input(c)
    PROVE  WInv'
<1>1. CASE MouseEvent(c)
  <2>1. mouseQ' = Append(mouseQ, c) /\ c \in Current(active, late)
    BY <1>1 DEF MouseEvent, B!simmouse, Current
  <2>2. mouseQ' \in Seq(Current(active, late))
    BY <2>1, AppendProperties DEF WInv
  <2> QED
    BY <1>1, <2>2 DEF MouseEvent, B!simmouse, WInv, vars, turnVars, history
<1>2. ASSUME NEW k \in ClientKeys, KeyEvent(c, k) PROVE WInv'
  <2>1. keyQ' = Append(keyQ, [from |-> c, key |-> k])
    BY <1>2 DEF KeyEvent, B!simkey
  <2>2. [from |-> c, key |-> k] \in Guarded(screen, closed)
    BY <1>2, KeyAssumption DEF KeyEvent, Guarded, B!WFKeyEvent, B!is_safe_to_escape
  <2>3. keyQ' \in Seq(Guarded(screen, closed))
    BY <2>1, <2>2, AppendProperties DEF WInv
  <2> QED
    BY <1>2, <2>3 DEF KeyEvent, B!simkey, WInv, vars, turnVars, history
<1> QED
  BY <1>1, <1>2 DEF on_message_input

\* Keys without an ESC are guarded whatever the screen is.
LEMMA NoEscIsGuarded ==
    ASSUME NEW q \in Seq(B!WFKeyEvent), ~EscPending(q), NEW scr, NEW cl
    PROVE  q \in Seq(Guarded(scr, cl))
<1>1. Len(q) \in Nat /\ DOMAIN q = 1..Len(q) /\ q \in [1..Len(q) -> B!WFKeyEvent]
  BY LenProperties
<1>2. \A i \in 1..Len(q) : q[i] \in Guarded(scr, cl)
  BY <1>1, ElementOfSeq DEF EscPending, Guarded
<1>3. q \in [1..Len(q) -> Guarded(scr, cl)]
  BY <1>1, <1>2
<1> QED
  BY <1>1, <1>3, SeqDef

\* When the main thread closes a screen with an ESC under way, closed says so.
LEMMA MainInv ==
    ASSUME WInv, MainStep(B!MainThread)
    PROVE  WInv'
<1> DEFINE G == Guarded(screen, closed)
<1>1. B!MainThread /\ UNCHANGED active
  BY DEF MainStep, vars, turnVars
<1>2. G \subseteq B!WFKeyEvent
  BY DEF Guarded
<1>3. /\ flush' \in {"keys", "mouse"}
      /\ keyQ' \in Seq(G) /\ sdlQ' \in Seq(G)
      /\ flush = "mouse" /\ flush' = "keys" => mouseQ' = <<>>
      /\ mouseQ' \in {<<>>, mouseQ}
  <2>1. CASE B!wf_flush_input_queue
    <3>1. sdlQ' = sdlQ \o keyQ
      BY <2>1 DEF B!wf_flush_input_queue
    <3>2. sdlQ' \in Seq(G)
      BY <3>1, ConcatProperties DEF WInv
    <3> QED
      BY <2>1, <3>2 DEF B!wf_flush_input_queue, WInv
  <2>2. CASE B!wf_flush_mouse_queue
    BY <2>2 DEF B!wf_flush_mouse_queue, WInv
  <2>3. CASE B!DFEvent
    <3>1. sdlQ # <<>> /\ sdlQ' = Tail(sdlQ)
      BY <2>3 DEF B!DFEvent
    <3>2. sdlQ' \in Seq(G)
      BY <3>1, HeadTailProperties DEF WInv
    <3> QED
      BY <2>3, <3>2 DEF B!DFEvent, WInv
  <2> QED
    BY <1>1, <2>1, <2>2, <2>3 DEF B!MainThread
<1>4. screen' \in B!Screen /\ paused' \in BOOLEAN
  <2>1. CASE B!wf_flush_input_queue
    BY <2>1 DEF B!wf_flush_input_queue, WInv
  <2>2. CASE B!wf_flush_mouse_queue
    <3>1. \A s \in B!Screen : B!Clicked(s) \subseteq B!Screen
      BY DEF B!Clicked, B!Screen
    <3> QED
      BY <2>2, <3>1 DEF B!wf_flush_mouse_queue, WInv
  <2>3. CASE B!DFEvent
    <3>1. PICK r \in B!React(Head(sdlQ).key, paused, screen) : paused' = r[1] /\ screen' = r[2]
      BY <2>3 DEF B!DFEvent
    <3>2. r \in BOOLEAN \X B!Screen
      BY DEF B!React
    <3> QED
      BY <3>1, <3>2
  <2> QED
    BY <1>1, <2>1, <2>2, <2>3 DEF B!MainThread
<1>5. disturbed' \in BOOLEAN /\ closed' \in BOOLEAN
  BY DEF MainStep
<1>6. late' \subseteq Conn
  BY DEF MainStep, WInv
<1>7. mouseQ' \in Seq(Current(active', late'))
  <2>1. mouseQ' = <<>> \/ (mouseQ' = mouseQ /\ late' = late)
    BY <1>3 DEF MainStep
  <2>2. CASE mouseQ' = <<>>
    BY <2>2, EmptySeq
  <2>3. CASE mouseQ' = mouseQ /\ late' = late
    BY <1>1, <2>3 DEF WInv
  <2> QED
    BY <2>1, <2>2, <2>3
<1>8. keyQ' \in Seq(Guarded(screen', closed')) /\ sdlQ' \in Seq(Guarded(screen', closed'))
  <2>1. CASE EscPending(sdlQ') \/ EscPending(keyQ')
    <3>1. closed' <=> (closed \/ (screen # "idle" /\ screen' = "idle"))
      BY <2>1 DEF MainStep
    <3>2. G \subseteq Guarded(screen', closed')
      BY <3>1 DEF Guarded
    <3> QED
      BY <1>3, <3>2, SeqMonotonic
  <2>2. CASE ~EscPending(sdlQ') /\ ~EscPending(keyQ')
    <3>1. keyQ' \in Seq(B!WFKeyEvent) /\ sdlQ' \in Seq(B!WFKeyEvent)
      BY <1>2, <1>3, SeqMonotonic
    <3> QED
      BY <2>2, <3>1, NoEscIsGuarded
  <2> QED
    BY <2>1, <2>2
<1> QED
  BY <1>3, <1>4, <1>5, <1>6, <1>7, <1>8 DEF WInv

LEMMA WInvStep == WInv /\ TypeOK /\ [WNext]_allVars => WInv'
<1> SUFFICES ASSUME WInv, TypeOK, [WNext]_allVars PROVE WInv'
  OBVIOUS
<1>1. CASE \E c \in Conn : SessionStep(Handler(c) \/ PeerGone(c))
  BY <1>1, SessionStepInv
<1>2. CASE \E c \in Conn : on_message_input(c)
  BY <1>2, InputInv
<1>3. CASE SessionStep(on_http) \/ SessionStep(Second)
  BY <1>3, SessionStepInv
<1>4. CASE RoundTime
  BY <1>4, SessionStepInv DEF RoundTime
<1>5. CASE MainStep(B!MainThread)
  BY <1>5, MainInv
<1>6. CASE UNCHANGED allVars
  BY <1>6 DEF allVars, vars, turnVars, bridge, history, WInv
<1> QED
  BY <1>1, <1>2, <1>3, <1>4, <1>5, <1>6 DEF WNext

LEMMA WInvariance == WSpec => []WInv
<1>1. WSpec => []TypeOK
  BY WebfortImplementsSession, TypeCorrect, PTL
<1> QED
  BY <1>1, WInvInit, WInvStep, PTL DEF WSpec

\* Both threads keep the types of what they share and of what they do not.
THEOREM WebfortTypeCorrect == WSpec => []WTypeOK
<1>1. WInv => B!BridgeTypeOK /\ disturbed \in BOOLEAN /\ closed \in BOOLEAN /\ late \subseteq Conn
  <2> SUFFICES ASSUME WInv
               PROVE  /\ B!BridgeTypeOK /\ disturbed \in BOOLEAN /\ closed \in BOOLEAN
                      /\ late \subseteq Conn
    OBVIOUS
  <2>1. /\ Guarded(screen, closed) \subseteq B!WFKeyEvent
        /\ Current(active, late) \subseteq Conn \cup {NoConn}
    BY DEF Guarded, Current
  <2>2. /\ keyQ \in Seq(B!WFKeyEvent) /\ sdlQ \in Seq(B!WFKeyEvent)
        /\ mouseQ \in Seq(Conn \cup {NoConn})
    BY <2>1, SeqMonotonic DEF WInv
  <2> QED
    BY <2>2 DEF WInv, B!BridgeTypeOK, B!Screen
<1>2. WSpec => []TypeOK
  BY WebfortImplementsSession, TypeCorrect, PTL
<1>3. TypeOK /\ WInv => WTypeOK
  BY <1>1 DEF WTypeOK
<1> QED
  BY <1>2, <1>3, WInvariance, PTL

\* Only an admin's ESC opens the main menu, but for a screen closed under one
\* that was checked before (server.cpp:691, webfort.cpp:206-226).
THEOREM EscapeIsSafe == WSpec => SafeEscape
<1>1. WInv /\ [WNext]_allVars =>
        [screen = "idle" /\ screen' = "menu" /\ sdlQ' # sdlQ =>
            Head(sdlQ).from \in Admins \/ closed]_allVars
  <2> SUFFICES ASSUME WInv, WNext, screen = "idle", screen' = "menu", sdlQ' # sdlQ
               PROVE  Head(sdlQ).from \in Admins \/ closed
    OBVIOUS
  <2>1. MainStep(B!MainThread)
    <3>1. ASSUME NEW ACTION A, SessionStep(A) PROVE FALSE
      BY <3>1 DEF SessionStep, PauseGame, bridge, B!simkey
    <3>2. ASSUME NEW c \in Conn, on_message_input(c) PROVE FALSE
      BY <3>2 DEF on_message_input, MouseEvent, KeyEvent, B!simkey, B!simmouse
    <3> QED
      BY <3>1, <3>2 DEF WNext, RoundTime
  <2>2. B!DFEvent
    BY <2>1 DEF MainStep, B!MainThread, B!wf_flush_input_queue, B!wf_flush_mouse_queue
  <2>3. sdlQ # <<>> /\ Head(sdlQ) \in Guarded(screen, closed)
    BY <2>2, HeadTailProperties DEF B!DFEvent, WInv
  <2>4. Head(sdlQ).key \in {"SPACE", "ESC", "OTHER"}
    BY <2>3 DEF Guarded, B!WFKeyEvent, B!Key
  <2>5. PICK r \in B!React(Head(sdlQ).key, paused, screen) : screen' = r[2]
    BY <2>2 DEF B!DFEvent
  <2>6. Head(sdlQ).key = "ESC"
    BY <2>4, <2>5 DEF B!React
  <2> QED
    BY <2>3, <2>6 DEF Guarded
<1> QED
  BY <1>1, WInvariance, PTL DEF WSpec, SafeEscape

\* Clicks outlive the turn of their player by no more than one drain of the queue
\* (server.cpp:725, webfort.cpp:967-978).
THEOREM MouseIsFocused == WSpec => FocusMouse
<1>1. WInv => \A i \in DOMAIN mouseQ : mouseQ[i] \in {active} \cup late
  <2> SUFFICES ASSUME WInv, NEW i \in DOMAIN mouseQ
               PROVE  mouseQ[i] \in {active} \cup late
    OBVIOUS
  <2>1. mouseQ \in Seq(Current(active, late))
    BY DEF WInv
  <2>2. mouseQ[i] \in Current(active, late)
    BY <2>1, LenProperties, ElementOfSeq
  <2> QED
    BY <2>2 DEF Current
<1>2. WInv /\ [WNext]_allVars =>
        [mouseQ # <<>> /\ Len(mouseQ') < Len(mouseQ) =>
            \A i \in DOMAIN mouseQ : mouseQ[i] \in {active} \cup late]_allVars
  BY <1>1
<1> QED
  BY <1>2, WInvariance, PTL DEF WSpec, FocusMouse

--------------------------------------------------------------------------------
(* The pause key *)

\* Keys as they may be queued: the server presses nothing but SPACE.
Pressed == {e \in B!WFKeyEvent : e.from = NoConn => e.key = "SPACE"}
PauseKey == [from |-> NoConn, key |-> "SPACE"]

Pending(q) == \E i \in DOMAIN q : q[i] = PauseKey
AtMostOnce(q) == \A i, j \in DOMAIN q : q[i] = PauseKey /\ q[j] = PauseKey => i = j

\* The turn has changed hands at least once.
HandedOver == active # NoConn \/ ended # TT!NotEnded

\* A game that nobody disturbs is paused, or running with exactly one pause key
\* under way to it, somewhere in the two queues.
PInv ==
    /\ keyQ \in Seq(Pressed) /\ sdlQ \in Seq(Pressed) /\ paused \in BOOLEAN
    /\ HandedOver /\ ~disturbed =>
         /\ AtMostOnce(Pipeline)
         /\ paused = ~Pending(Pipeline)

\* A key that is queued goes to the end of the pipeline.
LEMMA PipelineAppend ==
    ASSUME NEW s \in Seq(Pressed), NEW k \in Seq(Pressed), NEW e \in Pressed
    PROVE  s \o Append(k, e) = Append(s \o k, e)
<1>1. <<e>> \in Seq(Pressed)
  OBVIOUS
<1>2. s \o k \in Seq(Pressed)
  BY ConcatProperties
<1>3. s \o Append(k, e) = s \o (k \o <<e>>)
  BY AppendIsConcat
<1>4. Append(s \o k, e) = (s \o k) \o <<e>>
  BY <1>2, AppendIsConcat
<1> QED
  BY <1>1, <1>3, <1>4, ConcatAssociative

\* DF takes its event from the front of the pipeline.
LEMMA PipelineTail ==
    ASSUME NEW s \in Seq(Pressed), s # <<>>, NEW k \in Seq(Pressed)
    PROVE  /\ s \o k # <<>> /\ s \o k \in Seq(Pressed)
           /\ Head(s \o k) = Head(s)
           /\ Tail(s) \o k = Tail(s \o k)
<1> DEFINE p == s \o k
           t == Tail(s) \o k
<1>1. Len(s) \in Nat /\ Len(s) > 0 /\ Len(k) \in Nat
  BY EmptySeq, LenProperties
<1>2. /\ p \in Seq(Pressed) /\ Len(p) = Len(s) + Len(k)
      /\ \A i \in 1 .. Len(s) + Len(k) : p[i] = IF i <= Len(s) THEN s[i] ELSE k[i - Len(s)]
  BY ConcatProperties
<1>3. p # <<>>
  BY <1>1, <1>2, EmptySeq
<1>4. Head(p) = Head(s)
  <2>1. 1 \in 1 .. Len(s) + Len(k) /\ 1 <= Len(s)
    BY <1>1
  <2>2. p[1] = s[1]
    BY <1>2, <2>1
  <2>3. Head(p) = p[1] /\ Head(s) = s[1]
    BY <1>2
  <2> QED
    BY <2>2, <2>3
<1>5. /\ Tail(s) \in Seq(Pressed) /\ Len(Tail(s)) = Len(s) - 1
      /\ \A i \in 1 .. Len(Tail(s)) : Tail(s)[i] = s[i + 1]
  BY HeadTailProperties
<1>6. /\ Tail(p) \in Seq(Pressed) /\ Len(Tail(p)) = Len(p) - 1
      /\ \A i \in 1 .. Len(Tail(p)) : Tail(p)[i] = p[i + 1]
  BY <1>2, <1>3, HeadTailProperties
<1>7. /\ t \in Seq(Pressed) /\ Len(t) = Len(Tail(s)) + Len(k)
      /\ \A i \in 1 .. Len(Tail(s)) + Len(k) :
            t[i] = IF i <= Len(Tail(s)) THEN Tail(s)[i] ELSE k[i - Len(Tail(s))]
  BY <1>5, ConcatProperties
<1>8. Len(t) = Len(Tail(p))
  BY <1>1, <1>2, <1>5, <1>6, <1>7
<1>9. ASSUME NEW i \in 1 .. Len(t) PROVE t[i] = Tail(p)[i]
  <2>1. i \in Int /\ i >= 1 /\ i <= Len(s) - 1 + Len(k) /\ i + 1 \in 1 .. Len(s) + Len(k)
    BY <1>1, <1>5, <1>7
  <2>2. Tail(p)[i] = p[i + 1]
    BY <1>6, <1>8
  <2>3. CASE i <= Len(s) - 1
    <3>1. t[i] = s[i + 1]
      BY <1>1, <1>5, <1>7, <2>1, <2>3
    <3>2. p[i + 1] = s[i + 1]
      BY <1>1, <1>2, <2>1, <2>3
    <3> QED
      BY <2>2, <3>1, <3>2
  <2>4. CASE ~(i <= Len(s) - 1)
    <3>1. t[i] = k[i - (Len(s) - 1)]
      BY <1>1, <1>5, <1>7, <2>1, <2>4
    <3>2. p[i + 1] = k[i + 1 - Len(s)]
      BY <1>1, <1>2, <2>1, <2>4
    <3>3. i - (Len(s) - 1) = i + 1 - Len(s)
      BY <1>1, <2>1
    <3> QED
      BY <2>2, <3>1, <3>2, <3>3
  <2> QED
    BY <2>3, <2>4
<1> HIDE DEF p, t
<1>10. t = Tail(p)
  BY <1>6, <1>7, <1>8, <1>9, SeqEqual
<1> QED
  BY <1>2, <1>3, <1>4, <1>10 DEF p, t

\* What a key at the end of the pipeline does to the pause keys in it.
LEMMA PendingAppend ==
    ASSUME NEW q \in Seq(Pressed), NEW e \in Pressed
    PROVE  /\ e = PauseKey /\ ~Pending(q) =>
                Pending(Append(q, e)) /\ AtMostOnce(Append(q, e))
           /\ e # PauseKey =>
                /\ Pending(Append(q, e)) <=> Pending(q)
                /\ AtMostOnce(q) => AtMostOnce(Append(q, e))
<1> DEFINE a == Append(q, e)
<1>1. Len(q) \in Nat /\ DOMAIN q = 1 .. Len(q)
  BY LenProperties
<1>2. /\ a \in Seq(Pressed) /\ Len(a) = Len(q) + 1
      /\ \A i \in 1 .. Len(q) : a[i] = q[i]
      /\ a[Len(q) + 1] = e
  BY AppendProperties
<1>3. DOMAIN a = 1 .. Len(q) + 1
  BY <1>2, LenProperties
<1> HIDE DEF a
<1>4. \A i \in DOMAIN a : i \in DOMAIN q \/ i = Len(q) + 1
  BY <1>1, <1>3
<1>5. DOMAIN q \subseteq DOMAIN a /\ Len(q) + 1 \in DOMAIN a
  BY <1>1, <1>3
<1>6. \A i \in DOMAIN q : a[i] = q[i]
  BY <1>1, <1>2
<1>7. ASSUME e = PauseKey, ~Pending(q) PROVE Pending(a) /\ AtMostOnce(a)
  <2>1. Pending(a)
    BY <1>2, <1>5, <1>7 DEF Pending
  <2>2. \A i \in DOMAIN a : a[i] = PauseKey => i = Len(q) + 1
    BY <1>4, <1>6, <1>7 DEF Pending
  <2> QED
    BY <2>1, <2>2 DEF AtMostOnce
<1>8. ASSUME e # PauseKey
      PROVE  (Pending(a) <=> Pending(q)) /\ (AtMostOnce(q) => AtMostOnce(a))
  <2>1. \A i \in DOMAIN a : a[i] = PauseKey => i \in DOMAIN q /\ q[i] = PauseKey
    BY <1>2, <1>4, <1>6, <1>8
  <2>2. Pending(a) <=> Pending(q)
    BY <1>5, <1>6, <2>1 DEF Pending
  <2>3. AtMostOnce(q) => AtMostOnce(a)
    BY <2>1 DEF AtMostOnce
  <2> QED
    BY <2>2, <2>3
<1> QED
  BY <1>7, <1>8 DEF a

\* What becomes of them when DF handles the first.
LEMMA PendingTail ==
    ASSUME NEW q \in Seq(Pressed), q # <<>>, AtMostOnce(q)
    PROVE  /\ AtMostOnce(Tail(q))
           /\ Head(q) = PauseKey => Pending(q) /\ ~Pending(Tail(q))
           /\ Head(q) # PauseKey => (Pending(Tail(q)) <=> Pending(q))
<1> DEFINE t == Tail(q)
<1>1. Len(q) \in Nat /\ Len(q) > 0 /\ DOMAIN q = 1 .. Len(q) /\ Head(q) = q[1]
  BY EmptySeq, LenProperties
<1>2. /\ t \in Seq(Pressed) /\ Len(t) = Len(q) - 1
      /\ \A i \in 1 .. Len(t) : t[i] = q[i + 1]
  BY HeadTailProperties
<1>3. DOMAIN t = 1 .. Len(t)
  BY <1>2, LenProperties
<1> HIDE DEF t
<1>4. \A i \in DOMAIN t : i \in Int /\ i + 1 \in DOMAIN q /\ i + 1 # 1 /\ t[i] = q[i + 1]
  BY <1>1, <1>2, <1>3
<1>5. \A i \in DOMAIN q : i = 1 \/ (i - 1 \in DOMAIN t /\ t[i - 1] = q[i])
  <2> SUFFICES ASSUME NEW i \in DOMAIN q, i # 1
               PROVE  i - 1 \in DOMAIN t /\ t[i - 1] = q[i]
    OBVIOUS
  <2>1. i - 1 \in 1 .. Len(t) /\ (i - 1) + 1 = i
    BY <1>1, <1>2
  <2> QED
    BY <1>2, <1>3, <2>1
<1>6. 1 \in DOMAIN q
  BY <1>1
<1>7. AtMostOnce(t)
  <2> SUFFICES ASSUME NEW i \in DOMAIN t, NEW j \in DOMAIN t, t[i] = PauseKey, t[j] = PauseKey
               PROVE  i = j
    BY DEF AtMostOnce
  <2>1. i + 1 = j + 1
    BY <1>4 DEF AtMostOnce
  <2> QED
    BY <1>4, <2>1
<1>8. Head(q) = PauseKey => Pending(q) /\ ~Pending(t)
  BY <1>1, <1>4, <1>6 DEF Pending, AtMostOnce
<1>9. Head(q) # PauseKey => (Pending(t) <=> Pending(q))
  BY <1>1, <1>4, <1>5 DEF Pending
<1> QED
  BY <1>7, <1>8, <1>9 DEF t

\* The key with which the server pauses is a key that may be queued.
LEMMA PauseKeyPressed == PauseKey \in Pressed
BY DEF PauseKey, Pressed, B!WFKeyEvent, B!Key

\* PausePending counts as Pending does.
LEMMA PendingPipeline == PausePending <=> Pending(Pipeline)
BY DEF PausePending, Pending, PauseKey

LEMMA PInvInit == WInit => PInv
<1> SUFFICES ASSUME WInit PROVE PInv
  OBVIOUS
<1>1. ~HandedOver
  BY DEF WInit, Init, HandedOver
<1>2. keyQ \in Seq(Pressed) /\ sdlQ \in Seq(Pressed)
  BY EmptySeq DEF WInit, B!BridgeInit
<1>3. paused \in BOOLEAN
  BY Zenon DEF WInit, B!BridgeInit
<1> QED
  BY <1>1, <1>2, <1>3 DEF PInv

\* A handoff leaves the game paused, or presses the pause key for it; if one is
\* under way already, the two cancel out and disturbed says so.
LEMMA HandoffPauses ==
    ASSUME PInv, NEW ACTION A, SessionStep(A), [Next]_vars
    PROVE  PInv'
<1>1. UNCHANGED <<sdlQ, paused>> /\ paused \in BOOLEAN
  BY DEF SessionStep, PauseGame, bridge, B!simkey, PInv
<1>2. /\ keyQ \in Seq(Pressed) /\ sdlQ \in Seq(Pressed)
      /\ Append(keyQ, PauseKey) \in Seq(Pressed) /\ sdlQ \o keyQ \in Seq(Pressed)
  BY PauseKeyPressed, AppendProperties, ConcatProperties DEF PInv
<1>3. CASE active' = active
  <2>1. UNCHANGED <<keyQ, disturbed>>
    BY <1>3 DEF SessionStep, PauseGame, bridge
  <2>2. ended' = ended
    BY <1>3, EndedFollowsActive
  <2> QED
    BY <1>1, <1>3, <2>1, <2>2 DEF PInv, HandedOver, Pipeline
<1>4. CASE active' # active
  <2>1. disturbed' = Pending(Pipeline)
    BY <1>4 DEF SessionStep, PauseGame, PausePending, Pending, PauseKey
  <2>2. CASE paused
    <3>1. keyQ' = keyQ
      BY <1>4, <2>2 DEF SessionStep, PauseGame, bridge
    <3>2. Pipeline' = Pipeline
      BY <1>1, <3>1 DEF Pipeline
    <3>3. ~Pending(Pipeline) => AtMostOnce(Pipeline)
      BY DEF Pending, AtMostOnce
    <3> QED
      BY <1>1, <1>2, <2>1, <2>2, <3>1, <3>2, <3>3 DEF PInv
  <2>3. CASE ~paused
    <3>1. keyQ' = Append(keyQ, PauseKey)
      BY <1>4, <2>3 DEF SessionStep, PauseGame, B!simkey, PauseKey
    <3>2. Pipeline' = Append(Pipeline, PauseKey)
      BY <1>1, <1>2, <3>1, PauseKeyPressed, PipelineAppend DEF Pipeline
    <3>3. ~Pending(Pipeline) => Pending(Pipeline') /\ AtMostOnce(Pipeline')
      <4>1. Pipeline \in Seq(Pressed)
        BY <1>2 DEF Pipeline
      <4>2. ~Pending(Pipeline) => /\ Pending(Append(Pipeline, PauseKey))
                                 /\ AtMostOnce(Append(Pipeline, PauseKey))
        BY <4>1, PauseKeyPressed, PendingAppend
      <4> QED
        BY <3>2, <4>2 DEF Pending, AtMostOnce
    <3>4. keyQ' \in Seq(Pressed) /\ sdlQ' \in Seq(Pressed)
      BY <1>1, <1>2, <3>1
    <3>5. ~disturbed' => Pending(Pipeline') /\ AtMostOnce(Pipeline') /\ ~paused'
      BY <1>1, <2>1, <2>3, <3>3
    <3>6. paused' = FALSE
      BY <1>1, <2>3
    <3> QED
      BY <3>4, <3>5, <3>6 DEF PInv
  <2> QED
    BY <2>2, <2>3
<1> QED
  BY <1>3, <1>4

\* No player presses the server's key.
LEMMA InputKeepsPause ==
    ASSUME PInv, NEW c \in Conn, on_message_input(c)
    PROVE  PInv'
<1>1. UNCHANGED <<sdlQ, paused, disturbed, active, ended>>
  BY DEF on_message_input, MouseEvent, KeyEvent, B!simkey, B!simmouse, vars, turnVars,
         history
<1>2. CASE keyQ' = keyQ
  BY <1>1, <1>2 DEF PInv, HandedOver, Pipeline
<1>3. ASSUME NEW k \in ClientKeys, KeyEvent(c, k) PROVE PInv'
  <2> DEFINE e == [from |-> c, key |-> k]
  <2>1. e \in Pressed /\ e # PauseKey
    BY KeyAssumption, ConnAssumption DEF Pressed, PauseKey, B!WFKeyEvent
  <2>2. keyQ' = Append(keyQ, e)
    BY <1>3 DEF KeyEvent, B!simkey
  <2> HIDE DEF e
  <2>3. keyQ \in Seq(Pressed) /\ sdlQ \in Seq(Pressed) /\ keyQ' \in Seq(Pressed)
    BY <2>1, <2>2, AppendProperties DEF PInv
  <2>4. Pipeline \in Seq(Pressed)
    BY <2>3, ConcatProperties DEF Pipeline
  <2>5. Pipeline' = Append(Pipeline, e)
    BY <1>1, <2>1, <2>2, <2>3, PipelineAppend DEF Pipeline
  <2>6. /\ Pending(Pipeline') <=> Pending(Pipeline)
        /\ AtMostOnce(Pipeline) => AtMostOnce(Pipeline')
    BY <2>1, <2>4, <2>5, PendingAppend
  <2>7. Pending(Pipeline') = Pending(Pipeline)
    BY <2>6 DEF Pending
  <2> QED
    BY <1>1, <2>3, <2>6, <2>7 DEF PInv, HandedOver
<1>4. CASE MouseEvent(c)
  BY <1>2, <1>4 DEF MouseEvent, B!simmouse
<1> QED
  BY <1>3, <1>4 DEF on_message_input

\* The main thread moves the keys on and hands them to DF one by one.
LEMMA MainKeepsPause ==
    ASSUME PInv, MainStep(B!MainThread)
    PROVE  PInv'
<1>1. /\ B!MainThread /\ UNCHANGED <<active, ended>>
      /\ disturbed' = (disturbed \/ (ServersKey <=> paused' = paused))
  BY DEF MainStep, vars, turnVars
<1>2. /\ keyQ \in Seq(Pressed) /\ sdlQ \in Seq(Pressed) /\ paused \in BOOLEAN
      /\ sdlQ \o keyQ \in Seq(Pressed)
  BY ConcatProperties DEF PInv
<1>3. sdlQ # <<>> => /\ Tail(sdlQ) \in Seq(Pressed) /\ Len(Tail(sdlQ)) = Len(sdlQ) - 1
                     /\ Len(sdlQ) \in Nat
                     /\ Head(sdlQ) \in Pressed
  BY <1>2, HeadTailProperties, LenProperties
<1>4. CASE Pipeline' = Pipeline /\ sdlQ' \in Seq(Pressed) /\ keyQ' \in Seq(Pressed)
             /\ ~ServersKey /\ paused' \in BOOLEAN
  <2>1. ~disturbed' => ~disturbed /\ paused' = paused
    BY <1>1, <1>4
  <2> QED
    BY <1>1, <1>4, <2>1 DEF PInv, HandedOver
<1>5. CASE B!wf_flush_input_queue
  <2>1. sdlQ' = sdlQ \o keyQ /\ keyQ' = <<>> /\ paused' = paused
    BY <1>5 DEF B!wf_flush_input_queue
  <2>2. Pipeline' = Pipeline
    BY <1>2, <2>1, ConcatEmptySeq DEF Pipeline
  <2>3. ~ServersKey
    <3>1. Len(sdlQ \o keyQ) = Len(sdlQ) + Len(keyQ) /\ Len(sdlQ) \in Nat /\ Len(keyQ) \in Nat
      BY <1>2, ConcatProperties, LenProperties
    <3>2. sdlQ # <<>> => Len(sdlQ \o keyQ) # Len(Tail(sdlQ))
      BY <1>3, <3>1
    <3> QED
      BY <2>1, <3>2 DEF ServersKey
  <2>4. sdlQ' \in Seq(Pressed) /\ keyQ' \in Seq(Pressed)
    BY <1>2, <2>1, EmptySeq
  <2> QED
    BY <1>2, <1>4, <2>1, <2>2, <2>3, <2>4
<1>6. CASE B!wf_flush_mouse_queue
  <2>1. UNCHANGED <<keyQ, sdlQ>>
    BY <1>6 DEF B!wf_flush_mouse_queue
  <2>2. ~ServersKey
    <3>1. sdlQ # <<>> => sdlQ # Tail(sdlQ)
      BY <1>3
    <3> QED
      BY <2>1, <3>1 DEF ServersKey
  <2>3. paused' \in BOOLEAN
    BY <1>2, <1>6 DEF B!wf_flush_mouse_queue
  <2> QED
    BY <1>2, <1>4, <2>1, <2>2, <2>3 DEF Pipeline
<1>7. CASE B!DFEvent
  <2>1. sdlQ # <<>> /\ sdlQ' = Tail(sdlQ) /\ keyQ' = keyQ
    BY <1>7 DEF B!DFEvent
  <2>2. paused' \in BOOLEAN
    BY <1>7 DEF B!DFEvent, B!React
  <2>3. /\ Pipeline \in Seq(Pressed) /\ Pipeline # <<>>
        /\ Pipeline' = Tail(Pipeline) /\ Head(Pipeline) = Head(sdlQ)
    BY <1>2, <2>1, PipelineTail DEF Pipeline
  <2>4. ServersKey <=> Head(sdlQ) = PauseKey
    BY <1>3, <2>1 DEF ServersKey, Pressed, PauseKey, B!WFKeyEvent
  <2>5. sdlQ' \in Seq(Pressed) /\ keyQ' \in Seq(Pressed)
    BY <1>2, <1>3, <2>1
  <2>6. ASSUME HandedOver, ~disturbed'
        PROVE  AtMostOnce(Pipeline') /\ (paused' <=> ~Pending(Pipeline'))
    <3>1. AtMostOnce(Pipeline) /\ (paused <=> ~Pending(Pipeline)) /\ ~disturbed
      BY <1>1, <2>6 DEF PInv
    <3>2. /\ AtMostOnce(Pipeline')
          /\ Head(sdlQ) = PauseKey => Pending(Pipeline) /\ ~Pending(Pipeline')
          /\ Head(sdlQ) # PauseKey => (Pending(Pipeline') <=> Pending(Pipeline))
      BY <2>3, <3>1, PendingTail
    <3>3. CASE Head(sdlQ) = PauseKey
      <4>1. paused' # paused
        BY <1>1, <2>4, <2>6, <3>3
      <4> QED
        BY <1>2, <2>2, <3>1, <3>2, <3>3, <4>1
    <3>4. CASE Head(sdlQ) # PauseKey
      <4>1. paused' = paused
        BY <1>1, <2>4, <2>6, <3>4
      <4> QED
        BY <3>1, <3>2, <3>4, <4>1
    <3> QED
      BY <3>3, <3>4
  <2>7. HandedOver' <=> HandedOver
    BY <1>1 DEF HandedOver
  <2>8. HandedOver' /\ ~disturbed' => AtMostOnce(Pipeline') /\ paused' = ~Pending(Pipeline')
    <3>1. Pending(Pipeline') \in BOOLEAN
      BY DEF Pending
    <3> QED
      BY <2>2, <2>6, <2>7, <3>1
  <2> QED
    BY <2>2, <2>5, <2>8 DEF PInv
<1> QED
  BY <1>1, <1>5, <1>6, <1>7 DEF B!MainThread

LEMMA PInvStep == PInv /\ [WNext]_allVars => PInv'
<1> SUFFICES ASSUME PInv, [WNext]_allVars PROVE PInv'
  OBVIOUS
<1>0. [Next]_vars
  BY SessionStepKeeps DEF allVars
<1>1. CASE \E c \in Conn : SessionStep(Handler(c) \/ PeerGone(c))
  BY <1>0, <1>1, HandoffPauses
<1>2. CASE \E c \in Conn : on_message_input(c)
  BY <1>2, InputKeepsPause
<1>3. CASE SessionStep(on_http) \/ SessionStep(Second)
  BY <1>0, <1>3, HandoffPauses
<1>4. CASE RoundTime
  BY <1>0, <1>4, HandoffPauses DEF RoundTime
<1>5. CASE MainStep(B!MainThread)
  BY <1>5, MainKeepsPause
<1>6. CASE UNCHANGED allVars
  BY <1>6 DEF allVars, vars, turnVars, bridge, history, PInv, HandedOver, Pipeline
<1> QED
  BY <1>1, <1>2, <1>3, <1>4, <1>5, <1>6 DEF WNext

\* However many keys are under way, a handoff leaves the game paused once its pause
\* key has been handled, unless players, a panel or an earlier pause key interfere
\* (server.cpp:212-215).
THEOREM PauseIsKept == WSpec => []PauseHolds
<1>1. PInv => PauseHolds
  BY PendingPipeline DEF PInv, PauseHolds, HandedOver
<1> QED
  BY <1>1, PInvInit, PInvStep, PTL DEF WSpec
================================================================================
