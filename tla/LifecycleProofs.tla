---------------------------- MODULE LifecycleProofs ----------------------------
(***************************************************************************)
(* Theorems about Lifecycle, for every set of connections: whatever the    *)
(* order of commands, ticks and handlers, no handler outlives what it uses *)
(* and both threads touch only clients that exist, but for the one race    *)
(* that the history variable raced names.                                  *)
(***************************************************************************)
EXTENDS Lifecycle, TLAPS

\* What the invariant needs to know of the types.
Types ==
    /\ enabled \in BOOLEAN
    /\ pc \in {"idle", "load_config", "listen", "start_accept", "stop", "join",
               "delete", "gone", "crashed", "tick"}
    /\ null_client \in BOOLEAN
    /\ thread \in {"none", "waiting", "handling", "ended"}
    /\ thread = "handling" <=> handler # NoHandler
    /\ handler \in [step : Steps, conn : Conn] \cup {NoHandler}

\* The steps that start the server and the last of plugin_shutdown run without a
\* thread, a start and a tick only while enabled; null_client goes last of all.
Threads ==
    /\ pc \in {"load_config", "listen", "start_accept", "delete", "gone"} => thread = "none"
    /\ pc \in {"load_config", "listen", "start_accept", "tick"} => enabled
    /\ pc = "idle" /\ ~enabled => thread = "none"
    /\ ~null_client => pc = "gone"

\* How the map and the heap differ in the middle of a handler.
Table ==
    /\ handler.step = "insert" => heap = clients \cup {handler.conn}
    /\ handler.step = "erase" =>
         clients = heap \cup {handler.conn} /\ handler.conn \notin heap
    /\ handler.step \notin {"insert", "erase"} => clients = heap
    /\ handler.step \in {"turn", "set_active", "delete"} => handler.conn \in clients
    /\ handler.step = "delete" => active # handler.conn
    /\ DriverExists

IInv == Types /\ Threads /\ Table /\ NoUseAfterFree

\* The types of the rest.
Flags == leaving \in BOOLEAN /\ stopped \in BOOLEAN /\ raced \in BOOLEAN

Sets ==
    /\ walk \subseteq Conn /\ links \subseteq Conn
    /\ clients \subseteq Conn /\ heap \subseteq Conn
    /\ active \in Conn \cup {NoConn}
    /\ trouble \subseteq {"config", "port", "handler"}

\* The endpoint is initialised by the first start() that gets past its
\* configuration, and nobody stops it before.
Endpoint ==
    /\ endpoint \in {"uninitialized", "ready", "listening"}
    /\ starts \in 0..2
    /\ endpoint = "uninitialized" <=> starts = 0
    /\ starts = 0 => thread = "none" /\ ~stopped /\ pc \notin {"listen", "start_accept"}

\* Whoever is enabled before that has had trouble with the configuration ...
Unparsed ==
    /\ starts = 0 /\ ((enabled /\ pc # "load_config") \/ pc = "stop") => trouble = {"config"}
    /\ pc = "crashed" => starts = 0 /\ trouble = {"config"}

\* ... and one such start() that meets no trouble leaves the server running.
Serving ==
    enabled /\ starts = 1 /\ trouble = {} =>
        /\ pc \in {"load_config", "listen", "start_accept", "idle", "tick"}
        /\ pc = "listen" => ~stopped
        /\ pc = "start_accept" => endpoint = "listening" /\ ~stopped
        /\ pc \in {"idle", "tick"} =>
              endpoint = "listening" /\ thread \in {"waiting", "handling"} /\ ~stopped

Started == Endpoint /\ Unparsed /\ Serving

--------------------------------------------------------------------------------

\* plugin_init leaves nothing behind that could be used.
LEMMA InitInv == Init => IInv
<1> SUFFICES ASSUME Init PROVE IInv
  OBVIOUS
<1>1. enabled \in BOOLEAN /\ null_client \in BOOLEAN /\ null_client
  BY Zenon DEF Init
<1>2. Types
  BY <1>1 DEF Init, Types
<1>3. Threads /\ Table /\ NoUseAfterFree
  BY <1>1 DEF Init, Threads, Table, DriverExists, NoUseAfterFree, NoHandler
<1> QED
  BY <1>2, <1>3 DEF IInv

\* The commands and their steps.
LEMMA CommandStep ==
    ASSUME IInv, plugin_enable \/ ConfigThrows \/ plugin_disable \/ plugin_shutdown \/ Command
    PROVE  IInv'
<1> USE DEF IInv, Types, Threads, Table, DriverExists, NoUseAfterFree,
            main, server, table, history
<1>1. CASE plugin_enable
  BY <1>1 DEF plugin_enable
<1>2. CASE ConfigThrows
  BY <1>2 DEF ConfigThrows
<1>3. CASE plugin_disable
  BY <1>3 DEF plugin_disable
<1>4. CASE plugin_shutdown
  BY <1>4 DEF plugin_shutdown
<1>5. CASE init_asio
  BY <1>5 DEF init_asio
<1>6. CASE Listen
  BY <1>6 DEF Listen
<1>7. CASE start_accept
  BY <1>7 DEF start_accept, NoHandler
<1>8. CASE stop
  BY <1>8 DEF stop
<1>9. CASE join
  BY <1>9 DEF join
<1>10. CASE Delete
  BY <1>10 DEF Delete
<1> QED
  BY <1>1, <1>2, <1>3, <1>4, <1>5, <1>6, <1>7, <1>8, <1>9, <1>10 DEF Command

\* A tick begins with the clients that are in the map, which exist unless
\* on_close is between deleting and erasing one of them.
LEMMA TickStep ==
    ASSUME IInv, plugin_onupdate \/ Touch \/ EndTick
    PROVE  IInv'
<1> USE DEF IInv, Types, Threads, Table, DriverExists, main, server, table, history
<1>1. CASE plugin_onupdate
  <2>1. ~Erasing => clients \subseteq heap
    BY DEF Erasing
  <2> QED
    BY <1>1, <2>1 DEF plugin_onupdate, NoUseAfterFree
<1>2. CASE Touch
  BY <1>2 DEF Touch, NoUseAfterFree
<1>3. CASE EndTick
  BY <1>3 DEF EndTick, NoUseAfterFree
<1> QED
  BY <1>1, <1>2, <1>3

\* A handler that begins finds the map and the heap equal.
LEMMA BeginStep ==
    ASSUME IInv, NEW c \in Conn, on_open(c) \/ on_message(c) \/ on_close(c)
    PROVE  IInv'
<1> USE DEF IInv, Types, Threads, Table, DriverExists, NoUseAfterFree,
            main, server, table, history, Begin, Go, Steps, NoHandler
<1>1. CASE on_open(c)
  BY <1>1 DEF on_open
<1>2. CASE on_message(c)
  BY <1>2 DEF on_message
<1>3. CASE on_close(c)
  BY <1>3 DEF on_close
<1> QED
  BY <1>1, <1>2, <1>3

\* The steps of a handler; only the thread that runs one changes the table.
LEMMA HandlerInv ==
    ASSUME IInv, NEW c \in Conn, HandlerStep(c)
    PROVE  IInv'
<1> USE ConnAssumption
    DEF IInv, Types, Threads, Table, DriverExists, NoUseAfterFree,
        main, server, table, history, Handling, Return, Go, Steps, NoHandler
<1>1. CASE NewClient(c)
  BY <1>1 DEF NewClient
<1>2. CASE InsertClient(c)
  BY <1>2 DEF InsertClient
<1>3. CASE requestTurn(c)
  BY <1>3 DEF requestTurn
<1>4. CASE Send(c)
  BY <1>4 DEF Send
<1>9. CASE quicksave(c)
  BY <1>9 DEF quicksave
<1>5. CASE GiveUpTurn(c)
  BY <1>5 DEF GiveUpTurn
<1>6. CASE DeleteClient(c)
  BY <1>6 DEF DeleteClient
<1>7. CASE EraseClient(c)
  BY <1>7 DEF EraseClient
<1>8. CASE ReturnOnly(c)
  BY <1>8 DEF ReturnOnly
<1> QED
  BY <1>1, <1>2, <1>3, <1>4, <1>5, <1>6, <1>7, <1>8, <1>9 DEF HandlerStep

LEMMA StepInv == IInv /\ [Next]_vars => IInv'
<1> SUFFICES ASSUME IInv, [Next]_vars PROVE IInv'
  OBVIOUS
<1>1. CASE wsloop
  BY <1>1 DEF wsloop, IInv, Types, Threads, Table, DriverExists, NoUseAfterFree,
              main, server, table, history
<1>2. CASE UNCHANGED vars
  BY <1>2 DEF vars, IInv, Types, Threads, Table, DriverExists, NoUseAfterFree,
              main, server, table, history
<1> QED
  BY <1>1, <1>2, CommandStep, TickStep, BeginStep, HandlerInv DEF Next

LEMMA Invariance == Spec => []IInv
<1> QED
  BY InitInv, StepInv, PTL DEF Spec

--------------------------------------------------------------------------------
(* The rest of the types *)

LEMMA RestInit == Init => Flags /\ Sets
<1> SUFFICES ASSUME Init PROVE Flags /\ Sets
  OBVIOUS
<1>1. Flags
  BY Zenon DEF Init, Flags
<1>2. Sets
  BY DEF Init, Sets
<1> QED
  BY <1>1, <1>2

LEMMA FlagsStep == Flags /\ [Next]_vars => Flags'
<1> SUFFICES ASSUME Flags, [Next]_vars PROVE Flags'
  OBVIOUS
<1> USE DEF Flags, main, server, history
<1>1. CASE plugin_enable \/ ConfigThrows \/ plugin_disable \/ plugin_shutdown
  BY <1>1, Zenon DEF plugin_enable, ConfigThrows, plugin_disable, plugin_shutdown
<1>2. CASE Command
  <2>1. CASE stop
    BY <2>1, Zenon DEF stop
  <2>2. CASE ~stop
    BY <1>2, <2>2, Zenon DEF Command, init_asio, Listen, start_accept, join, Delete
  <2> QED
    BY <2>1, <2>2
<1>3. CASE plugin_onupdate \/ Touch \/ EndTick \/ wsloop
  <2>1. CASE plugin_onupdate
    BY <2>1, Zenon DEF plugin_onupdate, Erasing
  <2>2. CASE Touch \/ EndTick \/ wsloop
    BY <2>2, Zenon DEF Touch, EndTick, wsloop
  <2> QED
    BY <1>3, <2>1, <2>2
<1>4. ASSUME NEW c \in Conn, on_open(c) \/ on_message(c) \/ on_close(c) PROVE Flags'
  BY <1>4, Zenon DEF on_open, on_message, on_close, Begin
<1>5. ASSUME NEW c \in Conn, HandlerStep(c) PROVE Flags'
  <2>1. UNCHANGED <<leaving, stopped>>
    BY <1>5, Zenon DEF HandlerStep, NewClient, InsertClient, requestTurn, quicksave, Send, GiveUpTurn,
                       DeleteClient, EraseClient, ReturnOnly
  <2>2. UNCHANGED raced \/ raced' = (raced \/ c \in walk)
    BY <1>5, Zenon DEF HandlerStep, NewClient, InsertClient, requestTurn, quicksave, Send, GiveUpTurn,
                       DeleteClient, EraseClient, ReturnOnly
  <2> QED
    BY <2>1, <2>2, Zenon
<1>6. CASE UNCHANGED vars
  BY <1>6, Zenon DEF vars
<1> QED
  BY <1>1, <1>2, <1>3, <1>4, <1>5, <1>6 DEF Next

LEMMA SetsStep == Sets /\ [Next]_vars => Sets'
<1> SUFFICES ASSUME Sets, [Next]_vars PROVE Sets'
  OBVIOUS
<1> USE DEF Sets, main, server, table, history
<1>1. CASE plugin_enable \/ ConfigThrows \/ plugin_disable \/ plugin_shutdown
  BY <1>1 DEF plugin_enable, ConfigThrows, plugin_disable, plugin_shutdown
<1>2. CASE Command
  BY <1>2 DEF Command, init_asio, Listen, start_accept, stop, join, Delete
<1>3. CASE plugin_onupdate \/ Touch \/ EndTick \/ wsloop
  BY <1>3 DEF plugin_onupdate, Touch, EndTick, wsloop
<1>4. ASSUME NEW c \in Conn, on_open(c) \/ on_message(c) \/ on_close(c) PROVE Sets'
  BY <1>4 DEF on_open, on_message, on_close, Begin
<1>5. ASSUME NEW c \in Conn, HandlerStep(c) PROVE Sets'
  BY <1>5 DEF HandlerStep, NewClient, InsertClient, requestTurn, quicksave, Send, GiveUpTurn,
              DeleteClient, EraseClient, ReturnOnly
<1>6. CASE UNCHANGED vars
  BY <1>6 DEF vars
<1> QED
  BY <1>1, <1>2, <1>3, <1>4, <1>5, <1>6 DEF Next

--------------------------------------------------------------------------------
(* What start() leaves behind *)

LEMMA StartedInit == Init => Started
<1> QED
  BY DEF Init, Started, Endpoint, Unparsed, Serving

\* Only the commands change what the endpoint is and whether it may run.
LEMMA StartedCommand ==
    ASSUME IInv, Started,
           plugin_enable \/ ConfigThrows \/ plugin_disable \/ plugin_shutdown \/ Command
    PROVE  Started'
<1> USE DEF IInv, Types, Threads, Started, Endpoint, Unparsed, Serving, main, server, history
<1>1. CASE plugin_enable
  BY <1>1 DEF plugin_enable
<1>2. CASE ConfigThrows
  BY <1>2 DEF ConfigThrows
<1>3. CASE plugin_disable
  BY <1>3 DEF plugin_disable
<1>4. CASE plugin_shutdown
  BY <1>4 DEF plugin_shutdown
<1>5. CASE init_asio
  BY <1>5 DEF init_asio
<1>6. CASE Listen
  BY <1>6 DEF Listen
<1>7. CASE start_accept
  BY <1>7 DEF start_accept
<1>8. CASE stop
  BY <1>8 DEF stop
<1>9. CASE join
  BY <1>9 DEF join
<1>10. CASE Delete
  BY <1>10 DEF Delete
<1> QED
  BY <1>1, <1>2, <1>3, <1>4, <1>5, <1>6, <1>7, <1>8, <1>9, <1>10 DEF Command

\* A thread that ends unasked has thrown, which is trouble.
LEMMA StartedHandler ==
    ASSUME IInv, Started, NEW c \in Conn,
           on_open(c) \/ on_message(c) \/ on_close(c) \/ HandlerStep(c)
    PROVE  Started'
<1>1. UNCHANGED <<enabled, pc, endpoint, stopped, starts>>
  BY DEF on_open, on_message, on_close, Begin, HandlerStep, NewClient, InsertClient, requestTurn,
         quicksave, Send, GiveUpTurn, DeleteClient, EraseClient, ReturnOnly, main, server, history
<1>2. /\ thread \in {"waiting", "handling"}
      /\ \/ thread' \in {"waiting", "handling"} /\ UNCHANGED trouble
         \/ thread' = "ended" /\ trouble' = trouble \cup {"handler"}
  <2>1. CASE on_open(c) \/ on_message(c) \/ on_close(c)
    BY <2>1 DEF on_open, on_message, on_close, Begin, history
  <2>2. CASE HandlerStep(c)
    <3>1. thread = "handling"
      BY <2>2, ConnAssumption DEF IInv, Types, HandlerStep, NewClient, InsertClient, requestTurn,
         quicksave, Send, GiveUpTurn, DeleteClient, EraseClient, ReturnOnly, Handling, NoHandler
    <3> QED
      BY <2>2, <3>1 DEF HandlerStep, NewClient, InsertClient, requestTurn,
         quicksave, Send, GiveUpTurn, DeleteClient, EraseClient, ReturnOnly, Return, history
  <2> QED
    BY <2>1, <2>2
<1> QED
  BY <1>1, <1>2 DEF Started, Endpoint, Unparsed, Serving

LEMMA StartedStep == IInv /\ Started /\ [Next]_vars => Started'
<1> SUFFICES ASSUME IInv, Started, [Next]_vars PROVE Started'
  OBVIOUS
<1>1. CASE plugin_onupdate \/ Touch \/ EndTick \/ wsloop
  BY <1>1 DEF plugin_onupdate, Touch, EndTick, wsloop, IInv, Threads, Started, Endpoint,
              Unparsed, Serving, main, server, history
<1>2. CASE UNCHANGED vars
  BY <1>2 DEF vars, Started, Endpoint, Unparsed, Serving, main, server, history
<1> QED
  BY <1>1, <1>2, StartedCommand, StartedHandler DEF Next

LEMMA StartedInvariance == Spec => []Started
<1> QED
  BY StartedInit, StartedStep, Invariance, PTL DEF Spec

--------------------------------------------------------------------------------

\* While the websocket thread may run a handler null_client exists, and after
\* disable or shutdown there is no such thread (webfort.cpp:1027-1033, 1261-1269).
THEOREM NoHandlerOutlives == Spec => []NoHandlerLeft
<1>1. IInv => NoHandlerLeft
  BY DEF IInv, Types, Threads, NoHandlerLeft
<1> QED
  BY <1>1, Invariance, PTL

\* The driver is a client that exists, and between handlers the map holds the
\* clients that exist and no others (server.cpp:430-464).
THEOREM ClientsAlwaysExist == Spec => []ClientsExist
<1>1. IInv => ClientsExist
  BY DEF IInv, Types, Table, ClientsExist, MapHoldsHeap, NoHandler
<1> QED
  BY <1>1, Invariance, PTL

\* A tick walks over clients that exist, unless on_close deleted one under it
\* (webfort.cpp:476-495, server.cpp:461).
THEOREM TicksTouchTheLiving == Spec => []NoUseAfterFree
<1>1. IInv => NoUseAfterFree
  BY DEF IInv
<1> QED
  BY <1>1, Invariance, PTL

\* Both threads keep the types of everything they share, and a handler is under
\* way just when the thread says so.
THEOREM TypeCorrect == Spec => []TypeOK
<1>1. Types /\ Flags /\ Sets /\ Endpoint => TypeOK
  BY DEF Types, Flags, Sets, Endpoint, TypeOK
<1>2. Spec => [](Flags /\ Sets)
  BY RestInit, FlagsStep, SetsStep, PTL DEF Spec
<1>3. IInv => Types
  BY DEF IInv
<1>4. Started => Endpoint
  BY DEF Started
<1> QED
  BY <1>1, <1>2, <1>3, <1>4, Invariance, StartedInvariance, PTL

\* An enable that gets past its configuration for the first time, finds its port
\* and meets no exception serves, whatever failed before (server.cpp:855-920).
THEOREM FirstEnableIsServed == Spec => []FirstEnableServes
<1>1. Started => FirstEnableServes
  BY DEF Started, Serving, FirstEnableServes
<1> QED
  BY <1>1, StartedInvariance, PTL

\* stop() meets a null io_service only after a configuration that does not
\* parse (server.cpp:922-931, webfort.cpp:1009-1033).
THEOREM CrashesAreExplained == Spec => []CrashesOnlyUnparsed
<1>1. Started => CrashesOnlyUnparsed
  BY DEF Started, Unparsed, CrashesOnlyUnparsed
<1> QED
  BY <1>1, StartedInvariance, PTL
================================================================================
