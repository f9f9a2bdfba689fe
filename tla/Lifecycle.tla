------------------------------- MODULE Lifecycle -------------------------------
(***************************************************************************)
(* The plugin from enable to shutdown: the commands of the DFHack console  *)
(* and the ticks on the main thread, the websocket thread that start() and *)
(* stop() begin and end, and the Client objects both threads use.          *)
(*                                                                         *)
(* Commands and ticks exclude each other, as DFHack has it: both run with  *)
(* its core lock held.  Nothing keeps a handler of the websocket thread    *)
(* out of a tick or of a command, but for the autosave of idle_timer, a    *)
(* command itself, which waits for that lock.                              *)
(***************************************************************************)
EXTENDS Naturals

CONSTANTS Conn, NoConn

ASSUME ConnAssumption == NoConn \notin Conn

VARIABLES
    enabled,
    pc,        \* where the main thread is
    leaving,   \* the command is plugin_shutdown
    walk,      \* clients the tick has still to touch
    null_client, \* TRUE while the object exists
    endpoint,  \* the state of the websocketpp endpoint
    stopped,   \* the io_service has been told to stop
    thread,    \* the websocket thread; "none" when loop is nullptr
    handler,   \* the handler it is in
    links,     \* connections of which websocketpp has told on_open
    clients, active,
    heap,      \* the Client objects that exist
    starts,    \* calls of start() that got past load_config, up to 2 (history)
    trouble,   \* what went wrong outside of the plugin since enable (history)
    raced      \* a Client was deleted under the tick (history)

main == <<enabled, pc, leaving, walk>>
server == <<null_client, endpoint, stopped>>
table == <<links, clients, active, heap>>
history == <<starts, trouble, raced>>
vars == <<main, server, thread, handler, table, history>>

NoHandler == [step |-> "none", conn |-> NoConn]
Handling(s, c) == handler = [step |-> s, conn |-> c]
Go(s, c) == handler' = [step |-> s, conn |-> c]

\* After plugin_init.
Init ==
    /\ enabled = FALSE
    /\ pc = "idle"
    /\ leaving = FALSE
    /\ walk = {}
    /\ null_client = TRUE
    /\ endpoint = "uninitialized"
    /\ stopped = FALSE
    /\ thread = "none"
    /\ handler = NoHandler
    /\ links = {}
    /\ clients = {}
    /\ active = NoConn
    /\ heap = {}
    /\ starts = 0
    /\ trouble = {}
    /\ raced = FALSE

--------------------------------------------------------------------------------
(* Commands.  Of what plugin_enable does after start() see Atlas. *)

plugin_enable ==
    /\ pc = "idle"
    /\ ~enabled
    /\ enabled' = TRUE
    /\ pc' = "load_config"
    /\ trouble' = {}
    /\ UNCHANGED <<leaving, walk, server, thread, handler, table, starts, raced>>

\* A value that is no number: std::stol throws through plugin_enable, which has
\* set enabled.  DFHack may catch it or not.
ConfigThrows ==
    /\ pc = "load_config"
    /\ pc' \in {"idle", "gone"}
    /\ trouble' = {"config"}
    /\ UNCHANGED <<enabled, leaving, walk, server, thread, handler, table, starts, raced>>

\* init_asio throws when it is called a second time; start() logs and returns.
init_asio ==
    /\ pc = "load_config"
    /\ starts' = IF starts < 2 THEN starts + 1 ELSE 2
    /\ IF endpoint = "uninitialized"
         THEN endpoint' = "ready" /\ pc' = "listen"
         ELSE pc' = "idle" /\ UNCHANGED endpoint
    /\ UNCHANGED <<enabled, leaving, walk, null_client, stopped, thread, handler,
                   table, trouble, raced>>

\* A slip: the error of the first attempt is not cleared.
Listen_V6Only ==
    /\ pc = "listen"
    /\ \/ endpoint' = "listening" /\ pc' = "start_accept" /\ UNCHANGED trouble
       \/ pc' = "idle" /\ UNCHANGED <<endpoint, trouble>>
       \/ pc' = "idle" /\ trouble' = {"port"} /\ UNCHANGED endpoint
    /\ UNCHANGED <<enabled, leaving, walk, null_client, stopped, thread, handler,
                   table, starts, raced>>

\* On v6 or else on v4, or the port is taken and start() returns.
Listen ==
    /\ pc = "listen"
    /\ \/ endpoint' = "listening" /\ pc' = "start_accept" /\ UNCHANGED trouble
       \/ pc' = "idle" /\ trouble' = {"port"} /\ UNCHANGED endpoint
    /\ UNCHANGED <<enabled, leaving, walk, null_client, stopped, thread, handler,
                   table, starts, raced>>

start_accept ==
    /\ pc = "start_accept"
    /\ thread' = "waiting"
    /\ pc' = "idle"
    /\ UNCHANGED <<enabled, leaving, walk, server, handler, table, history>>

plugin_disable ==
    /\ pc = "idle"
    /\ enabled
    /\ enabled' = FALSE
    /\ pc' = "stop"
    /\ UNCHANGED <<leaving, walk, server, thread, handler, table, history>>

\* A slip: the server is stopped whether or not it was ever started.
plugin_shutdown_Always ==
    /\ pc = "idle"
    /\ leaving' = TRUE
    /\ enabled' = FALSE
    /\ pc' = "stop"
    /\ UNCHANGED <<walk, server, thread, handler, table, history>>

\* A slip: the server is deleted without being stopped.
plugin_shutdown_Abrupt ==
    /\ pc = "idle"
    /\ leaving' = TRUE
    /\ enabled' = FALSE
    /\ pc' = "delete"
    /\ UNCHANGED <<walk, server, thread, handler, table, history>>

plugin_shutdown ==
    /\ pc = "idle"
    /\ leaving' = TRUE
    /\ enabled' = FALSE
    /\ pc' = IF enabled THEN "stop" ELSE "delete"
    /\ UNCHANGED <<walk, server, thread, handler, table, history>>

\* A slip: the thread is told nothing.
stop_Silent ==
    /\ pc = "stop"
    /\ pc' = IF endpoint = "uninitialized" THEN "crashed" ELSE "join"
    /\ UNCHANGED <<enabled, leaving, walk, server, thread, handler, table, history>>

\* srv.stop() goes through the pointer to the io_service, null before init_asio.
stop ==
    /\ pc = "stop"
    /\ IF endpoint = "uninitialized"
         THEN pc' = "crashed" /\ UNCHANGED stopped
         ELSE pc' = "join" /\ stopped' = TRUE
    /\ UNCHANGED <<enabled, leaving, walk, null_client, endpoint, thread, handler,
                   table, history>>

\* A slip: the thread is given up wherever it is.
join_Kills ==
    /\ pc = "join"
    /\ thread' = "none"
    /\ pc' = IF leaving THEN "delete" ELSE "idle"
    /\ UNCHANGED <<enabled, leaving, walk, server, handler, table, history>>

join ==
    /\ pc = "join"
    /\ thread \in {"none", "ended"}
    /\ thread' = "none"
    /\ pc' = IF leaving THEN "delete" ELSE "idle"
    /\ UNCHANGED <<enabled, leaving, walk, server, handler, table, history>>

\* ~WFServerImpl
Delete ==
    /\ pc = "delete"
    /\ null_client' = FALSE
    /\ pc' = "gone"
    /\ UNCHANGED <<enabled, leaving, walk, endpoint, stopped, thread, handler,
                   table, history>>

Command ==
    \/ init_asio \/ Listen \/ start_accept
    \/ stop \/ join \/ Delete

--------------------------------------------------------------------------------
(* A tick *)

\* on_close has deleted its client and not yet erased the entry.
Erasing == handler.step = "erase" /\ handler.conn \in clients

plugin_onupdate ==
    /\ pc = "idle"
    /\ enabled
    /\ walk' = clients
    /\ raced' = Erasing
    /\ pc' = "tick"
    /\ UNCHANGED <<enabled, leaving, server, thread, handler, table, starts, trouble>>

\* Captures, extra passes, and the camera of the driver.
Touch ==
    /\ pc = "tick"
    /\ \E c \in walk : walk' = walk \ {c}
    /\ UNCHANGED <<enabled, pc, leaving, server, thread, handler, table, history>>

EndTick ==
    /\ pc = "tick"
    /\ walk = {}
    /\ pc' = "idle"
    /\ raced' = FALSE
    /\ UNCHANGED <<enabled, leaving, walk, server, thread, handler, table, starts, trouble>>

--------------------------------------------------------------------------------
(* The websocket thread *)

\* The loop takes another handler as long as it is not told to stop.
Begin(s, c) ==
    /\ thread = "waiting"
    /\ ~stopped
    /\ thread' = "handling"
    /\ Go(s, c)
    /\ UNCHANGED <<main, server, clients, active, heap, history>>

Return ==
    /\ thread' = "waiting"
    /\ handler' = NoHandler

\* A connection that is turned away is told of nothing but its close.
on_open(c) ==
    /\ c \notin links
    /\ links' = links \cup {c}
    /\ \E s \in {"new", "return"} : Begin(s, c)

NewClient(c) ==
    /\ Handling("new", c)
    /\ heap' = heap \cup {c}
    /\ Go("insert", c)
    /\ UNCHANGED <<main, server, thread, links, clients, active, history>>

InsertClient(c) ==
    /\ Handling("insert", c)
    /\ clients' = clients \cup {c}
    /\ Go("send", c)
    /\ UNCHANGED <<main, server, thread, links, active, heap, history>>

\* A request for a turn, or tock, which begins with idle_timer: it may call
\* quicksave, though never during a turn.
on_message(c) ==
    /\ c \in clients
    /\ \E s \in {"turn", "send", "quicksave"} :
          (s = "quicksave" => active = NoConn) /\ Begin(s, c)
    /\ UNCHANGED links

requestTurn(c) ==
    /\ Handling("turn", c)
    /\ active' = CASE active = c      -> NoConn
                   [] active = NoConn -> c
                   [] OTHER           -> active
    /\ Return
    /\ UNCHANGED <<main, server, links, clients, heap, history>>

\* runCommand gets the core lock when neither a tick nor a command holds it.
quicksave(c) ==
    /\ Handling("quicksave", c)
    /\ pc = "idle"
    /\ Go("send", c)
    /\ UNCHANGED <<main, server, thread, table, history>>

\* Either the end of tock and of send_map_info, or they throw, which wsloop
\* logs before the thread ends.
Send(c) ==
    /\ Handling("send", c)
    /\ \/ Return /\ UNCHANGED trouble
       \/ thread' = "ended" /\ handler' = NoHandler /\ trouble' = trouble \cup {"handler"}
    /\ UNCHANGED <<main, server, table, starts, raced>>

on_close(c) ==
    /\ c \in links
    /\ links' = links \ {c}
    /\ IF c \in clients THEN Begin("set_active", c) ELSE Begin("return", c)

\* A slip: the turn is given up only after the client is gone.
GiveUpTurn_Late(c) ==
    /\ Handling("set_active", c)
    /\ Go("delete", c)
    /\ UNCHANGED <<main, server, thread, table, history>>

GiveUpTurn(c) ==
    /\ Handling("set_active", c)
    /\ active' = IF active = c THEN NoConn ELSE active
    /\ Go("delete", c)
    /\ UNCHANGED <<main, server, thread, links, clients, heap, history>>

DeleteClient(c) ==
    /\ Handling("delete", c)
    /\ heap' = heap \ {c}
    /\ raced' = (raced \/ c \in walk)
    /\ Go("erase", c)
    /\ UNCHANGED <<main, server, thread, links, clients, active, starts, trouble>>

\* A slip: the entry stays in the map.
EraseClient_Forgets(c) ==
    /\ Handling("erase", c)
    /\ active' = IF active = c THEN NoConn ELSE active
    /\ Return
    /\ UNCHANGED <<main, server, links, clients, heap, history>>

EraseClient(c) ==
    /\ Handling("erase", c)
    /\ clients' = clients \ {c}
    /\ Return
    /\ UNCHANGED <<main, server, links, active, heap, history>>

ReturnOnly(c) ==
    /\ Handling("return", c)
    /\ Return
    /\ UNCHANGED <<main, server, table, history>>

\* run() returns once it is told to stop.
wsloop ==
    /\ thread = "waiting"
    /\ stopped
    /\ thread' = "ended"
    /\ UNCHANGED <<main, server, handler, table, history>>

HandlerStep(c) ==
    \/ NewClient(c) \/ InsertClient(c) \/ requestTurn(c) \/ quicksave(c) \/ Send(c)
    \/ GiveUpTurn(c) \/ DeleteClient(c) \/ EraseClient(c) \/ ReturnOnly(c)

Next ==
    \/ plugin_enable \/ ConfigThrows \/ plugin_disable \/ plugin_shutdown \/ Command
    \/ plugin_onupdate \/ Touch \/ EndTick
    \/ wsloop
    \/ \E c \in Conn : on_open(c) \/ on_message(c) \/ on_close(c) \/ HandlerStep(c)

Spec == Init /\ [][Next]_vars

\* A command and a tick go on once they have begun, and so does a handler unless
\* it waits for the core lock, which nothing says it ever gets while ticks take
\* it again and again; the loop sees that it is told to stop.
FairSpec ==
    /\ Spec
    /\ WF_vars(Command \/ ConfigThrows)
    /\ WF_vars(Touch \/ EndTick)
    /\ WF_vars(wsloop)
    /\ \A c \in Conn : WF_vars(HandlerStep(c))

--------------------------------------------------------------------------------
(* Properties *)

Steps == {"new", "insert", "turn", "quicksave", "send", "set_active", "delete",
          "erase", "return"}

\* Every variable has its type, and the thread is in a handler just when it
\* says so.
TypeOK ==
    /\ enabled \in BOOLEAN
    /\ pc \in {"idle", "load_config", "listen", "start_accept", "stop", "join",
               "delete", "gone", "crashed", "tick"}
    /\ leaving \in BOOLEAN
    /\ walk \subseteq Conn
    /\ null_client \in BOOLEAN
    /\ endpoint \in {"uninitialized", "ready", "listening"}
    /\ stopped \in BOOLEAN
    /\ thread \in {"none", "waiting", "handling", "ended"}
    /\ handler \in [step : Steps, conn : Conn] \cup {NoHandler}
    /\ thread = "handling" <=> handler # NoHandler
    /\ links \subseteq Conn
    /\ clients \subseteq Conn
    /\ active \in Conn \cup {NoConn}
    /\ heap \subseteq Conn
    /\ starts \in 0..2
    /\ trouble \subseteq {"config", "port", "handler"}
    /\ raced \in BOOLEAN

\* No handler outlives what it uses: while the websocket thread may run one,
\* null_client exists; and once disable or shutdown has returned, there is no
\* websocket thread.
NoHandlerLeft ==
    /\ thread \in {"waiting", "handling"} => null_client
    /\ pc \in {"idle", "gone"} /\ ~enabled => thread = "none"

\* The driver is a client that exists, in the middle of on_close as well
\* (server.cpp:458-463).
DriverExists == active # NoConn => active \in heap

\* The map holds the clients that exist and nothing else whenever no handler
\* runs.
MapHoldsHeap == thread # "handling" => clients = heap

\* Both, over any number of enables and disables and after a handler has thrown.
ClientsExist == DriverExists /\ MapHoldsHeap

\* A tick touches a deleted client only if on_close deleted it under this very
\* tick or had not yet erased it when the tick began.
NoUseAfterFree == pc = "tick" /\ ~raced => walk \subseteq heap

\* The first enable that gets past its configuration serves, with the port to
\* be had and no exception in a handler.
FirstEnableServes ==
    enabled /\ pc = "idle" /\ starts = 1 /\ trouble = {}
        => endpoint = "listening" /\ thread \in {"waiting", "handling"} /\ ~stopped

\* "Run the following command in the DFHack console: enable webfort ... You
\* should see a line that says: Web Fortress started" (INSTALLING.txt:28-36),
\* whenever the command is given.  (Not the second time: see Reenable.)
EnableServes ==
    enabled /\ pc = "idle" /\ trouble = {} => thread \in {"waiting", "handling"}

\* A null io_service is stopped only after a configuration that does not parse.
CrashesOnlyUnparsed == pc = "crashed" => trouble = {"config"}

\* disable and shutdown wait for the websocket thread with the core lock held,
\* and the thread waits for that lock to save the game.
Deadlocked == pc = "join" /\ handler.step = "quicksave"

\* Every command returns, unless the process has crashed or the idle timer has
\* just gone off: no other handler in progress keeps stop() from joining the
\* thread.
CommandsReturn ==
    pc \notin {"idle", "tick"} ~> pc \in {"idle", "gone", "crashed"} \/ Deadlocked
================================================================================
