------------------------------- MODULE TileDelta -------------------------------
(***************************************************************************)
(* How the screen reaches the browsers.  The main thread copies each frame *)
(* into a buffer per client and clears the client's mod byte of every tile *)
(* that changed since the frame before; on the websocket thread, tock      *)
(* sends the tiles whose mod byte is clear and sets it.  No lock protects  *)
(* the buffers and the mod bytes, so the two threads interleave: a pass    *)
(* copies and then compares, tock reads a tile and then marks it.          *)
(*                                                                         *)
(* Resizes lets the screen change its dimensions.                          *)
(***************************************************************************)
EXTENDS Naturals, FiniteSets

CONSTANTS
    Conn, NoConn,
    Tile,
    Value,        \* what a tile can show; Blank is a tile of eight zero bytes
    Blank,
    Cleared,      \* a place of the browser's canvas nothing was drawn on
    Resizes,
    MaxChanges    \* bound on what players and DF do to the screen

ASSUME TileAssumption ==
    /\ NoConn \notin Conn
    /\ Cleared \notin Value \cup {Blank}
    /\ Resizes \in BOOLEAN
    /\ MaxChanges \in Nat

VARIABLES
    scene,       \* what DF would draw: for NoConn the main viewport, for a
                 \* client the viewport of its own camera
    dims,        \* which of two dimensions the screen has
    clients,
    own_cam,     \* the clients with has_own_cam
    active,
    sc, sc_prev, sc_prev_dims,
    own_sc, own_sc_prev,
    mod,         \* the tiles whose mod byte is 1, for each client
    canvas,      \* what each browser shows once it has drawn all it was sent
    canvas_dims,
    tick,        \* where plugin_onupdate is
    packet,      \* where tock is
    captured,    \* the clients whose own_sc has been filled (history)
    torn,        \* for whom a frame was compared between the read of a tile and
                 \* its mark, since their mod bytes were last reset (history)
    unfilled,    \* whose mod bytes rest on a buffer no frame was in (history)
    relaid,      \* whether the dimensions have ever changed (history)
    changes      \* how often the world changed (bound)

sceneVars == <<scene, dims, relaid, changes>>
clientVars == <<clients, own_cam, active>>
historyVars == <<torn, unfilled>>
captureVars == <<sc, sc_prev, sc_prev_dims, own_sc, own_sc_prev, captured>>
browserVars == <<canvas, canvas_dims>>
vars == <<sceneVars, clientVars, captureVars, mod, historyVars, browserVars, tick, packet>>

View == Conn \cup {NoConn}
Frame == [Tile -> Value \cup {Blank}]
Dims == {0, 1}
BlankFrame == [t \in Tile |-> Blank]
ClearedCanvas == [t \in Tile |-> Cleared]

\* A tick goes over all clients twice: "shared" for those that follow the main
\* viewport, "extra" for those with a camera; c is the client whose buffer has
\* been written and not yet been compared, todo the clients still to come.
Idle == [at |-> "idle", c |-> NoConn, todo |-> {}, resized |-> FALSE]
Tick == [at : {"idle", "shared", "extra"}, c : Conn \cup {NoConn},
         todo : SUBSET Conn, resized : BOOLEAN]

\* tock goes over the tiles; tile is the one that was read and not yet marked.
NoTock == [c |-> NoConn, tile |-> {}, todo |-> {}]
Tock == [c : Conn \cup {NoConn}, tile : SUBSET Tile, todo : SUBSET Tile]

Init ==
    /\ scene \in {[v \in View |-> [t \in Tile |-> x]] : x \in Value}
    /\ dims = 0 /\ relaid = FALSE /\ changes = 0
    /\ clients = {} /\ own_cam = {} /\ active = NoConn
    /\ sc = BlankFrame /\ sc_prev = BlankFrame /\ sc_prev_dims = 0
    /\ own_sc = [c \in Conn |-> BlankFrame]
    /\ own_sc_prev = [c \in Conn |-> BlankFrame]
    /\ captured = {} /\ torn = {} /\ unfilled = {}
    /\ mod = [c \in Conn |-> {}]
    /\ canvas = [c \in Conn |-> ClearedCanvas]
    /\ canvas_dims = [c \in Conn |-> 0]
    /\ tick = Idle
    /\ packet = NoTock

ServerMayRun == packet = NoTock

\* The mod bytes of these clients are reset, and with them what was wrong.
Resend(cs) ==
    /\ mod' = [c \in Conn |-> IF c \in cs THEN {} ELSE mod[c]]
    /\ torn' = torn \ cs /\ unfilled' = unfilled \ cs
Change == changes < MaxChanges /\ changes' = changes + 1

--------------------------------------------------------------------------------
(* DF between two ticks *)

\* One tile of the main viewport or of a client's own is drawn differently.
Render ==
    /\ tick = Idle
    /\ Change
    /\ \E v \in own_cam \cup {NoConn}, t \in Tile, x \in Value :
          x # scene[v][t] /\ scene' = [scene EXCEPT ![v][t] = x]
    /\ UNCHANGED <<dims, relaid, clientVars, captureVars, mod, historyVars, browserVars, tick, packet>>

\* The screen is laid out anew, at most once between two ticks and not in the
\* middle of a packet.
Resize ==
    /\ Resizes
    /\ tick = Idle /\ packet = NoTock
    /\ dims = sc_prev_dims
    /\ Change
    /\ dims' = 1 - dims
    /\ relaid' = TRUE
    /\ UNCHANGED <<scene, clientVars, captureVars, mod, historyVars, browserVars, tick, packet>>

--------------------------------------------------------------------------------
(* plugin_onupdate, on the main thread *)

\* The camera of the active client follows the main viewport, and a pending
\* camera delta clears its mod bytes; then the frame is captured into sc.
BeginTick(delta) ==
    /\ tick = Idle
    /\ own_cam' = own_cam \cup ({active} \cap clients)
    /\ scene' = [v \in View |-> IF v = active THEN scene[NoConn] ELSE scene[v]]
    /\ mod' = [c \in Conn |-> IF delta /\ c = active THEN {} ELSE mod[c]]
    /\ sc' = scene[NoConn]
    /\ tick' = [at |-> "shared", c |-> NoConn, todo |-> clients,
                resized |-> dims # sc_prev_dims]
    /\ UNCHANGED <<dims, relaid, changes, clients, active, sc_prev, sc_prev_dims, own_sc,
                   own_sc_prev, captured, historyVars, browserVars, packet>>

\* memcpy(cl->own_sc, sc), for a client that follows the main viewport.
CopyShared(c) ==
    /\ tick.at = "shared" /\ tick.c = NoConn /\ c \in tick.todo
    /\ IF c \in own_cam
         THEN /\ tick' = [tick EXCEPT !.todo = @ \ {c}]
              /\ UNCHANGED <<own_sc, captured>>
         ELSE /\ tick' = [tick EXCEPT !.c = c, !.todo = @ \ {c}]
              /\ own_sc' = [own_sc EXCEPT ![c] = sc]
              /\ captured' = captured \cup {c}
    /\ UNCHANGED <<sceneVars, clientVars, sc, sc_prev, sc_prev_dims, own_sc_prev,
                   mod, historyVars, browserVars, packet>>

\* A tile of tick.c has been read and not yet marked.
MidTile == packet.c = tick.c /\ packet.tile # {}
Tear == torn' = IF MidTile THEN torn \cup {tick.c} ELSE torn

\* A slip in the definition that follows: new dimensions are not noticed.
CompareShared_IgnoresSize ==
    /\ tick.at = "shared" /\ tick.c # NoConn
    /\ mod' = [mod EXCEPT ![tick.c] = {t \in @ : sc[t] = sc_prev[t]}]
    /\ Tear
    /\ tick' = [tick EXCEPT !.c = NoConn]
    /\ UNCHANGED <<sceneVars, clientVars, captureVars, unfilled, browserVars, packet>>

CompareShared ==
    /\ tick.at = "shared" /\ tick.c # NoConn
    /\ mod' = [mod EXCEPT ![tick.c] =
                  IF tick.resized THEN {} ELSE {t \in @ : sc[t] = sc_prev[t]}]
    /\ Tear
    /\ tick' = [tick EXCEPT !.c = NoConn]
    /\ UNCHANGED <<sceneVars, clientVars, captureVars, unfilled, browserVars, packet>>

\* The frame becomes the previous frame, and the extra passes begin.
EndShared ==
    /\ tick.at = "shared" /\ tick.c = NoConn /\ tick.todo = {}
    /\ sc_prev' = sc
    /\ sc_prev_dims' = dims
    /\ tick' = [tick EXCEPT !.at = "extra", !.todo = clients]
    /\ UNCHANGED <<sceneVars, clientVars, sc, own_sc, own_sc_prev, captured, mod,
                   historyVars, browserVars, packet>>

\* The extra render pass of a client with a camera of its own.
CopyExtra(c) ==
    /\ tick.at = "extra" /\ tick.c = NoConn /\ c \in tick.todo
    /\ IF c \notin own_cam
         THEN /\ tick' = [tick EXCEPT !.todo = @ \ {c}]
              /\ UNCHANGED <<own_sc, captured>>
         ELSE /\ tick' = [tick EXCEPT !.c = c, !.todo = @ \ {c}]
              /\ own_sc' = [own_sc EXCEPT ![c] = scene[c]]
              /\ captured' = captured \cup {c}
    /\ UNCHANGED <<sceneVars, clientVars, sc, sc_prev, sc_prev_dims, own_sc_prev,
                   mod, historyVars, browserVars, packet>>

\* The first frame of a client's own pass is compared with zeroes, and a tile of
\* zero bytes passes for unchanged.
TakeZeroes ==
    unfilled' = IF /\ own_sc_prev[tick.c] = BlankFrame
                   /\ \E t \in mod[tick.c] : own_sc[tick.c][t] = Blank
                  THEN unfilled \cup {tick.c} ELSE unfilled

\* A slip in the definition that follows: compared with the shared frame.
CompareExtra_WithShared ==
    /\ tick.at = "extra" /\ tick.c # NoConn
    /\ mod' = [mod EXCEPT ![tick.c] = {t \in @ : own_sc[tick.c][t] = sc_prev[t]}]
    /\ own_sc_prev' = [own_sc_prev EXCEPT ![tick.c] = own_sc[tick.c]]
    /\ Tear /\ TakeZeroes
    /\ tick' = [tick EXCEPT !.c = NoConn]
    /\ UNCHANGED <<sceneVars, clientVars, sc, sc_prev, sc_prev_dims, own_sc,
                   captured, browserVars, packet>>

CompareExtra ==
    /\ tick.at = "extra" /\ tick.c # NoConn
    /\ mod' = [mod EXCEPT ![tick.c] =
                  {t \in @ : own_sc[tick.c][t] = own_sc_prev[tick.c][t]}]
    /\ own_sc_prev' = [own_sc_prev EXCEPT ![tick.c] = own_sc[tick.c]]
    /\ Tear /\ TakeZeroes
    /\ tick' = [tick EXCEPT !.c = NoConn]
    /\ UNCHANGED <<sceneVars, clientVars, sc, sc_prev, sc_prev_dims, own_sc,
                   captured, browserVars, packet>>

EndTick ==
    /\ tick.at = "extra" /\ tick.c = NoConn /\ tick.todo = {}
    /\ tick' = Idle
    /\ UNCHANGED <<sceneVars, clientVars, captureVars, mod, historyVars, browserVars, packet>>

--------------------------------------------------------------------------------
(* The websocket thread *)

\* A new Client has zeroed buffers and mod bytes, and follows the main viewport.
\* Joining and leaving change the map the main thread walks over; here they
\* only happen between ticks.
Join(c) ==
    /\ tick = Idle /\ ServerMayRun
    /\ c \notin clients
    /\ Change
    /\ clients' = clients \cup {c}
    /\ own_sc' = [own_sc EXCEPT ![c] = BlankFrame]
    /\ own_sc_prev' = [own_sc_prev EXCEPT ![c] = BlankFrame]
    /\ Resend({c})
    /\ canvas' = [canvas EXCEPT ![c] = ClearedCanvas]
    /\ UNCHANGED <<scene, dims, relaid, own_cam, active, sc, sc_prev, sc_prev_dims,
                   captured, canvas_dims, tick, packet>>

\* A slip in the definition that follows: the driver leaves and keeps the turn.
Leave_KeepsTurn(c) ==
    /\ tick = Idle /\ ServerMayRun
    /\ c \in clients
    /\ Change
    /\ clients' = clients \ {c}
    /\ own_cam' = own_cam \ {c}
    /\ captured' = captured \ {c}
    /\ UNCHANGED <<scene, dims, relaid, active, sc, sc_prev, sc_prev_dims, own_sc,
                   own_sc_prev, mod, historyVars, browserVars, tick, packet>>

Leave(c) ==
    /\ tick = Idle /\ ServerMayRun
    /\ c \in clients
    /\ Change
    /\ clients' = clients \ {c}
    /\ own_cam' = own_cam \ {c}
    /\ active' = IF active = c THEN NoConn ELSE active
    /\ captured' = captured \ {c}
    /\ UNCHANGED <<scene, dims, relaid, sc, sc_prev, sc_prev_dims, own_sc, own_sc_prev, mod,
                   historyVars, browserVars, tick, packet>>

\* set_active sends the new driver the whole screen.  Turns are in Session.
set_active(newc) ==
    /\ ServerMayRun
    /\ newc # active
    /\ Change
    /\ active' = newc
    /\ Resend({newc})
    /\ UNCHANGED <<scene, dims, relaid, clients, own_cam, captureVars, browserVars, tick, packet>>

\* Opcode 117 from a spectator: the viewport moves, and shows something else.
CamMove(c) ==
    /\ ServerMayRun
    /\ c \in clients /\ c # active
    /\ Change
    /\ own_cam' = own_cam \cup {c}
    /\ \E frame \in [Tile -> Value] : scene' = [scene EXCEPT ![c] = frame]
    /\ Resend({c})
    /\ UNCHANGED <<dims, relaid, clients, active, captureVars, browserVars, tick, packet>>

\* Opcode 115
refreshScreen(c) ==
    /\ ServerMayRun
    /\ c \in clients
    /\ Change
    /\ Resend({c})
    /\ UNCHANGED <<scene, dims, relaid, clientVars, captureVars, browserVars, tick, packet>>

\* The packet starts with the dimensions of the screen; the browser resizes,
\* and so clears, its canvas when they are new to it.
tock(c) ==
    /\ ServerMayRun
    /\ c \in clients
    /\ unfilled' = IF c \in captured THEN unfilled ELSE unfilled \cup {c}
    /\ packet' = [c |-> c, tile |-> {}, todo |-> Tile]
    /\ canvas_dims' = [canvas_dims EXCEPT ![c] = dims]
    /\ canvas' = IF dims = canvas_dims[c] THEN canvas
                                          ELSE [canvas EXCEPT ![c] = ClearedCanvas]
    /\ UNCHANGED <<sceneVars, clientVars, captureVars, mod, torn, tick>>

\* A tile whose mod byte is clear is read into the packet ...
SendTile(t) ==
    /\ packet.tile = {} /\ t \in packet.todo
    /\ LET c == packet.c
       IN  IF t \in mod[c]
             THEN /\ packet' = [packet EXCEPT !.todo = @ \ {t}]
                  /\ UNCHANGED canvas
             ELSE /\ packet' = [packet EXCEPT !.tile = {t}, !.todo = @ \ {t}]
                  /\ canvas' = [canvas EXCEPT ![c][t] = own_sc[c][t]]
    /\ UNCHANGED <<sceneVars, clientVars, captureVars, mod, historyVars, canvas_dims, tick>>

\* ... and marked as sent.
MarkTile ==
    /\ packet.tile # {}
    /\ mod' = [mod EXCEPT ![packet.c] = @ \cup packet.tile]
    /\ packet' = [packet EXCEPT !.tile = {}]
    /\ UNCHANGED <<sceneVars, clientVars, captureVars, historyVars, browserVars, tick>>

EndTock ==
    /\ packet # NoTock /\ packet.tile = {} /\ packet.todo = {}
    /\ packet' = NoTock
    /\ UNCHANGED <<sceneVars, clientVars, captureVars, mod, historyVars, browserVars, tick>>

--------------------------------------------------------------------------------
MainStep ==
    \/ \E delta \in BOOLEAN : BeginTick(delta)
    \/ \E c \in Conn : CopyShared(c) \/ CopyExtra(c)
    \/ CompareShared \/ EndShared \/ CompareExtra \/ EndTick

TockStep == (\E t \in Tile : SendTile(t)) \/ MarkTile \/ EndTock

Next ==
    \/ Render \/ Resize
    \/ MainStep
    \/ \E c \in Conn : Join(c) \/ Leave(c) \/ CamMove(c) \/ refreshScreen(c) \/ tock(c)
    \/ \E n \in clients \cup {NoConn} : set_active(n)
    \/ TockStep

Spec == Init /\ [][Next]_vars

\* plugin_onupdate runs every tick and finishes, and every browser that is
\* connected asks for the next update when it has drawn one.  A tock has to wait
\* for the one before it, which comes to its end again and again.
FairSpec ==
    /\ Spec
    /\ WF_vars(MainStep)
    /\ WF_vars(TockStep)
    /\ \A c \in Conn : SF_vars(tock(c))

--------------------------------------------------------------------------------
(* Properties *)

\* Every variable has its type; cameras and the turn belong to connected clients.
TypeOK ==
    /\ scene \in [View -> Frame]
    /\ relaid \in BOOLEAN
    /\ dims \in Dims /\ sc_prev_dims \in Dims
    /\ clients \subseteq Conn
    /\ own_cam \subseteq clients /\ captured \subseteq clients
    /\ torn \cup unfilled \subseteq Conn
    /\ active \in clients \cup {NoConn}
    /\ sc \in Frame /\ sc_prev \in Frame
    /\ own_sc \in [Conn -> Frame] /\ own_sc_prev \in [Conn -> Frame]
    /\ mod \in [Conn -> SUBSET Tile]
    /\ canvas \in [Conn -> [Tile -> Value \cup {Blank, Cleared}]]
    /\ canvas_dims \in [Conn -> Dims]
    /\ tick \in Tick
    /\ packet \in Tock
    /\ changes \in 0 .. MaxChanges

\* Between ticks and packets, the latest frame captured.
Settled == tick = Idle /\ packet = NoTock /\ dims = sc_prev_dims

\* The mod bytes of a client tell the truth: a tile that is marked as sent looks
\* in the browser as it does in the client's buffer.
Exact(c) == \A t \in mod[c] : canvas[c][t] = own_sc[c][t]

\* capture_screen_buffer clears the mod bytes for new dimensions only where it
\* serves the client itself: a client with a camera is not safe from then on.
Served(c) == c \in clients /\ ~(relaid /\ c \in own_cam)

\* The mod bytes tell the truth once things have settled, whatever the threads
\* do to each other: a tile for which they do not stays wrong in the browser
\* until it happens to change again.  Two races undo that, until a turn, a camera
\* or a refresh has all tiles sent again: a comparison between the read of a tile
\* and its mark, and a packet or a comparison before a buffer is first filled.
DeltaExact ==
    Settled => \A c \in Conn \ (torn \cup unfilled) : Served(c) => Exact(c)

\* The same for every client whose buffers have been filled: the delta mask as
\* docs/GRAPHICS_MODE_ANALYSIS.md:26 has it.
MaskSolid == Settled => \A c \in Conn \ unfilled : Served(c) => Exact(c)

\* When the screen stops changing, every browser ends up showing what DF draws
\* for its viewport, and keeps showing it, unless one of those races has been.
Converges ==
    \A c \in Conn :
        <>[](Served(c) /\ c \notin torn \cup unfilled =>
               canvas[c] = scene[IF c \in own_cam THEN c ELSE NoConn])
================================================================================
