-------------------------------- MODULE Viewport --------------------------------
(***************************************************************************)
(* Cameras and cursors.  DF has one camera, window_x/y/z; the driver's     *)
(* client follows it, a spectator may have a camera of their own.  To draw *)
(* a spectator's view the main thread borrows the window and the mouse of  *)
(* DF for an extra render pass and puts them back.  On the websocket       *)
(* thread, headers, cursors and new cameras are computed from the same two *)
(* globals, with no lock.  One axis stands for the three; cursors use x    *)
(* and y, which do not depend on one another.                              *)
(***************************************************************************)
EXTENDS Integers

CONSTANTS
    Conn, NoConn,
    MAP, SCREEN,    \* tiles of the map, tiles of the screen
    MARGIN,       \* how far a camera may leave the map: 30 on x and y, 0 on z
    Delta,        \* the camera moves clients send
    MaxChanges    \* bound on what players and DF do

ASSUME ViewportAssumption ==
    /\ NoConn \notin Conn
    /\ MAP \in Nat /\ SCREEN \in Nat \ {0} /\ MARGIN \in Nat
    /\ SCREEN <= MAP
    /\ Delta \subseteq Int
    /\ MaxChanges \in Nat

VARIABLES
    clients, active,
    own_cam,        \* the clients with has_own_cam
    cam,            \* cam_x
    window, mouse,  \* *window_x and gps->mouse_x
    vmouse,         \* g_wf_mouse_tile_x
    queued,         \* the position of the last queued mouse event, or Hidden
    pending,        \* g_active_cam_dx
    cursor, cursor_active,
    tick,           \* where the main thread is
    drawn,          \* the camera with which gps->screen was drawn
    shown,          \* the camera with which own_sc was drawn
    game,           \* the camera of the game itself (history)
    pointed,        \* the tile each spectator points at (history)
    strayed,        \* whose cursor was taken from a borrowed window (history)
    changes         \* how often the world changed (bound)

clientVars == <<clients, active, own_cam, cam>>
gameVars == <<window, mouse, vmouse, game, drawn>>
cursorVars == <<cursor, cursor_active, pointed, strayed>>
vars == <<clientVars, gameVars, queued, pending, cursorVars, tick, shown, changes>>

Lowest == -MARGIN
Highest == MAP - SCREEN + MARGIN
Camera == Lowest .. Highest
Pane == 0 .. SCREEN - 1
Hidden == -1
World == Lowest .. Highest + SCREEN
Nowhere == Lowest - 1

\* The clamping of both handlers of camera moves, in their order.
Clamp(x) == LET y == IF x < Lowest THEN Lowest ELSE x
            IN  IF y > Highest THEN Highest ELSE y

\* "drawn": DF has rendered and its main loop runs; "pass": plugin_onupdate
\* goes over the clients with a camera, c is the one being rendered.
Between(at) == [at |-> at, c |-> NoConn, todo |-> {}, window |-> 0, mouse |-> Hidden]
Tick == [at : {"idle", "drawn", "pass"}, c : Conn \cup {NoConn}, todo : SUBSET Conn,
         window : Camera, mouse : Pane \cup {Hidden}]

Init ==
    /\ clients = {} /\ active = NoConn /\ own_cam = {}
    /\ cam = [c \in Conn |-> 0]
    /\ window = 0 /\ game = 0 /\ drawn = 0
    /\ mouse = Hidden /\ vmouse = Hidden /\ queued = Hidden
    /\ pending = 0
    /\ cursor = [c \in Conn |-> Nowhere] /\ cursor_active = {}
    /\ pointed = [c \in Conn |-> Nowhere] /\ strayed = {}
    /\ tick = Between("idle")
    /\ shown = [c \in Conn |-> Nowhere]
    /\ changes = 0

Change == changes < MaxChanges /\ changes' = changes + 1

\* A handler that takes the window for c's view while a pass has borrowed it.
Misled(c) == tick.at = "pass" /\ c \notin own_cam

--------------------------------------------------------------------------------
(* The main thread *)

\* DF renders each frame before its main loop calls plugin_onupdate.
Render ==
    /\ tick.at = "idle"
    /\ tick' = Between("drawn")
    /\ drawn' = window
    /\ UNCHANGED <<clientVars, window, mouse, vmouse, game, queued, pending, cursorVars,
                   shown, changes>>

\* DF moves its camera: arrow keys, a jump to an announcement.
DFMove ==
    /\ tick.at # "pass"
    /\ Change
    /\ \E w \in Camera \ {window} : window' = w /\ game' = w
    /\ UNCHANGED <<clientVars, mouse, vmouse, drawn, queued, pending, cursorVars, tick, shown>>

\* A slip in the definition that follows: the driver's camera stays behind.
BeginTick_NoSync ==
    /\ tick.at = "drawn"
    /\ LET moved == IF pending = 0 THEN window ELSE Clamp(window + pending)
       IN  /\ own_cam' = own_cam \cup ({active} \cap clients)
           /\ \E w \in IF queued = Hidden THEN {moved} ELSE Camera :
                 window' = w /\ game' = w
    /\ vmouse' = IF queued = Hidden THEN vmouse ELSE queued
    /\ mouse' = vmouse'
    /\ pending' = 0 /\ queued' = Hidden
    /\ shown' = [c \in Conn |-> IF c \in clients \ own_cam' THEN drawn ELSE shown[c]]
    /\ tick' = [at |-> "pass", c |-> NoConn, todo |-> clients \cap own_cam',
                window |-> window', mouse |-> mouse']
    /\ UNCHANGED <<clients, active, cam, drawn, cursorVars, changes>>

\* plugin_onupdate up to the extra passes: camera deltas, the driver's camera,
\* the mouse queue (a click may move DF's camera), the virtual mouse, and the
\* capture for those without a camera of their own.
BeginTick ==
    /\ tick.at = "drawn"
    /\ LET moved == IF pending = 0 THEN window ELSE Clamp(window + pending)
       IN  /\ own_cam' = own_cam \cup ({active} \cap clients)
           /\ cam' = [c \in Conn |-> IF c = active THEN moved ELSE cam[c]]
           /\ \E w \in IF queued = Hidden THEN {moved} ELSE Camera :
                 window' = w /\ game' = w
    /\ vmouse' = IF queued = Hidden THEN vmouse ELSE queued
    /\ mouse' = vmouse'
    /\ pending' = 0 /\ queued' = Hidden
    /\ shown' = [c \in Conn |-> IF c \in clients \ own_cam' THEN drawn ELSE shown[c]]
    /\ tick' = [at |-> "pass", c |-> NoConn, todo |-> clients \cap own_cam',
                window |-> window', mouse |-> mouse']
    /\ UNCHANGED <<clients, active, drawn, cursorVars, changes>>

\* A camera where the game's is needs no pass of its own.
ReuseScreen(c) ==
    /\ tick.at = "pass" /\ tick.c = NoConn /\ c \in tick.todo
    /\ cam[c] = tick.window
    /\ shown' = [shown EXCEPT ![c] = drawn]
    /\ tick' = [tick EXCEPT !.todo = @ \ {c}]
    /\ UNCHANGED <<clientVars, gameVars, queued, pending, cursorVars, changes>>

\* The window is the client's, and the mouse is where the driver's cursor is in
\* that window, or nowhere.
BeginPass(c) ==
    /\ tick.at = "pass" /\ tick.c = NoConn /\ c \in tick.todo
    /\ cam[c] # tick.window
    /\ LET x == tick.window + vmouse - cam[c]
       IN  mouse' = IF vmouse # Hidden /\ x \in Pane THEN x ELSE Hidden
    /\ window' = cam[c]
    /\ tick' = [tick EXCEPT !.c = c, !.todo = @ \ {c}]
    /\ UNCHANGED <<clientVars, vmouse, game, drawn, queued, pending, cursorVars, shown, changes>>

\* The mouse is put back after each pass, the window after the last one.
EndPass ==
    /\ tick.at = "pass" /\ tick.c # NoConn
    /\ shown' = [shown EXCEPT ![tick.c] = window]
    /\ mouse' = tick.mouse
    /\ tick' = [tick EXCEPT !.c = NoConn]
    /\ UNCHANGED <<clientVars, window, vmouse, game, drawn, queued, pending, cursorVars, changes>>

\* A slip in the definition that follows: the window is not put back.
EndTick_KeepsWindow ==
    /\ tick.at = "pass" /\ tick.c = NoConn /\ tick.todo = {}
    /\ tick' = Between("idle")
    /\ UNCHANGED <<clientVars, gameVars, queued, pending, cursorVars, shown, changes>>

EndTick ==
    /\ tick.at = "pass" /\ tick.c = NoConn /\ tick.todo = {}
    /\ window' = tick.window
    /\ tick' = Between("idle")
    /\ UNCHANGED <<clientVars, mouse, vmouse, game, drawn, queued, pending, cursorVars,
                   shown, changes>>

--------------------------------------------------------------------------------
(* The websocket thread *)

\* The camera is seeded from the window, whether or not it is ever used.
\* Joining and leaving change the map the passes walk over, so not inside them.
Join(c) ==
    /\ tick.at # "pass"
    /\ c \notin clients
    /\ Change
    /\ clients' = clients \cup {c}
    /\ cam' = [cam EXCEPT ![c] = window]
    /\ shown' = [shown EXCEPT ![c] = Nowhere]
    /\ UNCHANGED <<active, own_cam, gameVars, queued, pending, cursorVars, tick>>

Leave(c) ==
    /\ tick.at # "pass"
    /\ c \in clients
    /\ Change
    /\ clients' = clients \ {c}
    /\ own_cam' = own_cam \ {c}
    /\ active' = IF active = c THEN NoConn ELSE active
    /\ cursor_active' = cursor_active \ {c}
    /\ pointed' = [pointed EXCEPT ![c] = Nowhere]
    /\ strayed' = strayed \ {c}
    /\ UNCHANGED <<cam, gameVars, queued, pending, cursor, tick, shown>>

\* Turns themselves are in Session.
set_active(newc) ==
    /\ newc # active
    /\ Change
    /\ active' = newc
    /\ cursor_active' = cursor_active \ {active, newc}
    /\ pointed' = [c \in Conn |-> IF c \in {active, newc} THEN Nowhere ELSE pointed[c]]
    /\ strayed' = strayed \ {active, newc}
    /\ UNCHANGED <<clients, own_cam, cam, gameVars, queued, pending, cursor, tick, shown>>

\* Opcode 113, as far as it moves the mouse
MouseEvent(c, x) ==
    /\ c = active
    /\ Change
    /\ queued' = x
    /\ UNCHANGED <<clientVars, gameVars, pending, cursorVars, tick, shown>>

\* The origin of a client's view as the header and the cursors have it.
Origin(c) == IF c \in own_cam THEN cam[c] ELSE window

\* A slip in the definition that follows: the tile of the screen is kept.
cursorMove_InScreen(c, x) ==
    /\ c \in clients /\ c # active
    /\ Change
    /\ cursor' = [cursor EXCEPT ![c] = x]
    /\ cursor_active' = cursor_active \cup {c}
    /\ pointed' = [pointed EXCEPT ![c] = x + IF c \in own_cam THEN cam[c] ELSE game]
    /\ strayed' = IF Misled(c) THEN strayed \cup {c} ELSE strayed \ {c}
    /\ UNCHANGED <<clientVars, gameVars, queued, pending, tick, shown>>

\* Opcode 114: a spectator points at a tile of their screen.
cursorMove(c, x) ==
    /\ c \in clients /\ c # active
    /\ Change
    /\ cursor' = [cursor EXCEPT ![c] = Origin(c) + x]
    /\ cursor_active' = cursor_active \cup {c}
    /\ pointed' = [pointed EXCEPT ![c] = x + IF c \in own_cam THEN cam[c] ELSE game]
    /\ strayed' = IF Misled(c) THEN strayed \cup {c} ELSE strayed \ {c}
    /\ UNCHANGED <<clientVars, gameVars, queued, pending, tick, shown>>

\* Opcode 117 from the driver: the move is left to the main thread.
CamMoveDriver(c, d) ==
    /\ c \in clients /\ c = active
    /\ Change
    /\ pending' = pending + d
    /\ UNCHANGED <<clientVars, gameVars, queued, cursorVars, tick, shown>>

\* Two slips in the definition that follows.
CamMove_NoSnap(c, d) ==
    /\ c \in clients /\ c # active
    /\ Change
    /\ own_cam' = own_cam \cup {c}
    /\ cam' = [cam EXCEPT ![c] = Clamp(@ + d)]
    /\ UNCHANGED <<clients, active, gameVars, queued, pending, cursorVars, tick, shown>>

CamMove_Free(c, d) ==
    /\ c \in clients /\ c # active
    /\ Change
    /\ own_cam' = own_cam \cup {c}
    /\ cam' = [cam EXCEPT ![c] = Origin(c) + d]
    /\ UNCHANGED <<clients, active, gameVars, queued, pending, cursorVars, tick, shown>>

\* Opcode 117 from a spectator: the first move starts from the window.
CamMove(c, d) ==
    /\ c \in clients /\ c # active
    /\ Change
    /\ own_cam' = own_cam \cup {c}
    /\ cam' = [cam EXCEPT ![c] = Clamp(Origin(c) + d)]
    /\ UNCHANGED <<clients, active, gameVars, queued, pending, cursorVars, tick, shown>>

\* What tock sends c in a cursor packet: whose cursor, and where on c's screen.
CursorActive(d) == IF d = active THEN mouse >= 0 ELSE d \in cursor_active
CursorWorld(d) == IF d = active THEN window + mouse ELSE cursor[d]

Cursors(c) ==
    {e \in {<<d, CursorWorld(d) - Origin(c)>> : d \in {d \in clients \ {c} : CursorActive(d)}} :
        e[2] \in Pane}

--------------------------------------------------------------------------------
MainStep ==
    \/ Render \/ BeginTick
    \/ \E c \in Conn : ReuseScreen(c) \/ BeginPass(c)
    \/ EndPass \/ EndTick

Handler(c) ==
    \/ Join(c) \/ Leave(c)
    \/ \E x \in Pane : MouseEvent(c, x) \/ cursorMove(c, x)
    \/ \E d \in Delta : CamMoveDriver(c, d) \/ CamMove(c, d)

Next ==
    \/ MainStep
    \/ DFMove
    \/ \E c \in Conn : Handler(c)
    \/ \E n \in clients \cup {NoConn} : set_active(n)

Spec == Init /\ [][Next]_vars

\* Every frame is rendered and every tick finishes.
FairSpec == Spec /\ WF_vars(MainStep)

--------------------------------------------------------------------------------
(* Properties *)

\* Every variable has its type; every camera is one the clamping allows.
TypeOK ==
    /\ clients \subseteq Conn
    /\ active \in clients \cup {NoConn}
    /\ own_cam \subseteq clients
    /\ cam \in [Conn -> Camera]
    /\ {window, game, drawn} \subseteq Camera
    /\ {mouse, vmouse, queued} \subseteq Pane \cup {Hidden}
    /\ pending \in Int
    /\ cursor \in [Conn -> World \cup {Nowhere}]
    /\ cursor_active \subseteq clients
    /\ tick \in Tick
    /\ shown \in [Conn -> Camera \cup {Nowhere}]
    /\ pointed \in [Conn -> World \cup {Nowhere}]
    /\ strayed \subseteq cursor_active
    /\ changes \in 0 .. MaxChanges

\* Drawing for spectators leaves no trace in the game: between two ticks DF's
\* camera and mouse are where the game and the driver have put them, however
\* many passes there were and whoever joined, moved or took the turn.
GameUndisturbed == tick.at # "pass" => window = game /\ mouse = vmouse

\* The tile somebody points at, and where c looks.
Target(d) == IF d = active THEN game + vmouse ELSE pointed[d]
Pointing(d) == IF d = active THEN vmouse # Hidden ELSE pointed[d] # Nowhere
LooksAt(c) == IF c \in own_cam THEN cam[c] ELSE game

TrueCursors(c) ==
    {e \in {<<d, Target(d) - LooksAt(c)>> : d \in {d \in clients \ {c} : Pointing(d)}} :
        e[2] \in Pane}

\* Whether c can be told where d points: a packet made inside the passes has a
\* borrowed window for c, unless c has a camera, and a borrowed mouse for the
\* driver; a cursor that strayed stays off until it moves again.
Reliable(c, d) ==
    /\ tick.at # "pass" \/ (c \in own_cam /\ d # active)
    /\ d \notin strayed

\* Every cursor that is sent is on the tile its owner points at, in the view of
\* the client it is sent to, and no cursor is missing or left over: across
\* handoffs, camera moves of either side and handlers that run while a pass
\* borrows the mouse and the window.
CursorsTrue ==
    \A c \in clients :
        {e \in Cursors(c) : Reliable(c, e[1])} = {e \in TrueCursors(c) : Reliable(c, e[1])}

\* A spectator's camera moves only by that spectator's moves, each of which
\* starts from what they were looking at: their own view, at any time, or, the
\* first time, the game's, never the view of another or one they had when they
\* joined; only a first move made inside the passes may start elsewhere.
SpectatorMoves ==
    [][\A c \in (clients \cap clients') \ {active} :
          cam'[c] # cam[c] =>
            \E d \in Delta, w \in Camera :
                /\ cam'[c] = Clamp(w + d)
                /\ Misled(c) \/ w = LooksAt(c)]_vars

\* When the world stands still every client comes to see the view it should:
\* the driver and those who follow see the game's, the others their own; and
\* between two ticks the header names the view the tiles were drawn with.
ViewSettles ==
    \A c \in Conn :
        <>[](c \in clients =>
                /\ shown[c] = IF c = active THEN game ELSE LooksAt(c)
                /\ tick.at = "idle" => Origin(c) = shown[c])
================================================================================
