----------------------------- MODULE ViewportProofs -----------------------------
(***************************************************************************)
(* Theorems about Viewport, for every map, screen, margin, set of clients  *)
(* and set of camera moves, with handlers running inside the passes.       *)
(***************************************************************************)
EXTENDS Viewport, TLAPS

\* Where the game's camera and mouse are while a tick has borrowed them.
Borrowed ==
    /\ tick.at # "pass" => window = game /\ mouse = vmouse
    /\ tick.at = "pass" => tick.window = game /\ tick.mouse = vmouse
    /\ tick.at = "pass" /\ tick.c = NoConn => mouse = vmouse

\* A cursor that is out is where its owner points, unless it strayed; the others
\* point nowhere.
Pointers ==
    \A d \in Conn : IF d \in cursor_active
                   THEN pointed[d] # Nowhere /\ (d \in strayed \/ pointed[d] = cursor[d])
                   ELSE pointed[d] = Nowhere

IInv == TypeOK /\ Borrowed

--------------------------------------------------------------------------------
(* Lemmas *)

LEMMA NoPlace ==
    /\ Lowest \in Int /\ Highest \in Int /\ Nowhere \in Int
    /\ 0 \in Camera
    /\ Camera \subseteq Int /\ Pane \subseteq Nat
    /\ Nowhere \notin World /\ Nowhere \notin Camera /\ Hidden \notin Pane
<1> QED
  BY ViewportAssumption DEF Lowest, Highest, Nowhere, Camera, Pane, Hidden, World

\* A clamped position is one a camera may have.
LEMMA ClampInside == \A x \in Int : Clamp(x) \in Camera
<1> QED
  BY ViewportAssumption DEF Clamp, Camera, Lowest, Highest

\* A tile of a screen is one of the world.
LEMMA OnScreen == \A w \in Camera, x \in Pane : w + x \in World /\ x + w \in World
<1> QED
  BY ViewportAssumption DEF Camera, Pane, World, Lowest, Highest

LEMMA BetweenTick ==
    \A at \in {"idle", "drawn"} : Between(at) \in Tick /\ Between(at).at = at
<1> QED
  BY NoPlace DEF Between, Tick, Hidden

LEMMA InitInv == Init => IInv
<1> SUFFICES ASSUME Init PROVE IInv
  OBVIOUS
<1> USE NoPlace, ViewportAssumption
<1>1. tick \in Tick /\ tick.at = "idle"
  BY BetweenTick DEF Init
<1>2. TypeOK
  BY <1>1 DEF Init, TypeOK
<1>3. Borrowed
  BY <1>1 DEF Init, Borrowed
<1> QED
  BY <1>2, <1>3 DEF IInv

\* The main thread: what is borrowed is what EndPass and EndTick put back.
LEMMA MainInv == IInv /\ MainStep => IInv'
<1> SUFFICES ASSUME IInv, MainStep PROVE IInv'
  OBVIOUS
<1> USE NoPlace DEF IInv, TypeOK, clientVars, gameVars, cursorVars
<1>1. CASE Render
  <2>1. tick' = Between("drawn") /\ tick.at # "pass"
    BY <1>1 DEF Render
  <2>2. tick' \in Tick /\ tick'.at = "drawn"
    BY <2>1, BetweenTick
  <2> QED
    BY <1>1, <2>1, <2>2 DEF Render, Borrowed
<1>2. CASE BeginTick
  <2> DEFINE moved == IF pending = 0 THEN window ELSE Clamp(window + pending)
  <2>1. moved \in Camera
    <3>1. window \in Camera /\ window \in Int /\ pending \in Int
      OBVIOUS
    <3>2. window + pending \in Int
      BY <3>1
    <3>3. Clamp(window + pending) \in Camera
      BY <3>2, ClampInside
    <3> QED
      BY <3>1, <3>3
  <2>2. /\ own_cam' = own_cam \cup ({active} \cap clients)
        /\ cam' = [c \in Conn |-> IF c = active THEN moved ELSE cam[c]]
        /\ \E w \in IF queued = Hidden THEN {moved} ELSE Camera : window' = w /\ game' = w
        /\ vmouse' = IF queued = Hidden THEN vmouse ELSE queued
        /\ mouse' = vmouse'
        /\ pending' = 0 /\ queued' = Hidden
        /\ shown' = [c \in Conn |-> IF c \in clients \ own_cam' THEN drawn ELSE shown[c]]
        /\ tick' = [at |-> "pass", c |-> NoConn, todo |-> clients \cap own_cam',
                    window |-> window', mouse |-> mouse']
        /\ UNCHANGED <<clients, active, drawn, cursorVars, changes>>
    BY <1>2 DEF BeginTick
  <2>3. own_cam' \subseteq clients /\ cam' \in [Conn -> Camera]
    BY <2>1, <2>2
  <2>4. window' \in Camera /\ game' = window'
    BY <2>1, <2>2
  <2>5. {mouse', vmouse', queued'} \subseteq Pane \cup {Hidden} /\ pending' \in Int
    BY <2>2
  <2>6. shown' \in [Conn -> Camera \cup {Nowhere}]
    BY <2>2
  <2>7. tick' \in Tick
    BY <2>2, <2>3, <2>4, <2>5 DEF Tick
  <2>8. TypeOK'
    BY <2>2, <2>3, <2>4, <2>5, <2>6, <2>7
  <2>9. Borrowed'
    BY <2>2, <2>4 DEF Borrowed
  <2> QED
    BY <2>8, <2>9
<1>3. ASSUME NEW c \in Conn, ReuseScreen(c) PROVE IInv'
  <2>1. /\ tick' = [tick EXCEPT !.todo = tick.todo \ {c}]
        /\ shown' = [shown EXCEPT ![c] = drawn]
        /\ UNCHANGED <<clientVars, gameVars, queued, pending, cursorVars, changes>>
    BY <1>3 DEF ReuseScreen
  <2>2. tick' \in Tick /\ tick'.at = tick.at /\ tick'.c = tick.c
        /\ tick'.window = tick.window /\ tick'.mouse = tick.mouse
    BY <2>1 DEF Tick
  <2>3. shown' \in [Conn -> Camera \cup {Nowhere}]
    BY <2>1
  <2> QED
    BY <2>1, <2>2, <2>3 DEF Borrowed
<1>4. ASSUME NEW c \in Conn, BeginPass(c) PROVE IInv'
  <2>1. /\ tick.at = "pass"
        /\ mouse' \in Pane \cup {Hidden}
        /\ window' = cam[c]
        /\ tick' = [tick EXCEPT !.c = c, !.todo = tick.todo \ {c}]
        /\ UNCHANGED <<clientVars, vmouse, game, drawn, queued, pending, cursorVars,
                       shown, changes>>
    BY <1>4 DEF BeginPass
  <2>2. tick' \in Tick /\ tick'.at = "pass" /\ tick'.c = c
        /\ tick'.window = tick.window /\ tick'.mouse = tick.mouse
    BY <2>1 DEF Tick
  <2>3. c # NoConn
    BY ViewportAssumption
  <2> QED
    BY <2>1, <2>2, <2>3 DEF Borrowed
<1>5. CASE EndPass
  <2>1. /\ tick.at = "pass"
        /\ shown' = [shown EXCEPT ![tick.c] = window]
        /\ mouse' = tick.mouse
        /\ tick' = [tick EXCEPT !.c = NoConn]
        /\ UNCHANGED <<clientVars, window, vmouse, game, drawn, queued, pending,
                       cursorVars, changes>>
    BY <1>5 DEF EndPass
  <2>2. tick' \in Tick /\ tick'.at = "pass"
        /\ tick'.window = tick.window /\ tick'.mouse = tick.mouse
    BY <2>1 DEF Tick
  <2>3. shown' \in [Conn -> Camera \cup {Nowhere}] /\ mouse' \in Pane \cup {Hidden}
    BY <2>1 DEF Tick
  <2> QED
    BY <2>1, <2>2, <2>3 DEF Borrowed
<1>6. CASE EndTick
  <2>1. /\ tick.at = "pass" /\ tick.c = NoConn
        /\ window' = tick.window
        /\ tick' = Between("idle")
        /\ UNCHANGED <<clientVars, mouse, vmouse, game, drawn, queued, pending,
                       cursorVars, shown, changes>>
    BY <1>6 DEF EndTick
  <2>2. tick' \in Tick /\ tick'.at = "idle"
    BY <2>1, BetweenTick
  <2>3. window' \in Camera /\ window' = game /\ mouse' = vmouse
    BY <2>1 DEF Tick, Borrowed
  <2> QED
    BY <2>1, <2>2, <2>3 DEF Borrowed
<1> QED
  BY <1>1, <1>2, <1>3, <1>4, <1>5, <1>6 DEF MainStep

\* A handler leaves what the main thread has borrowed alone.
LEMMA HandlerInv == IInv /\ (DFMove \/ \E c \in Conn : Handler(c)) => IInv'
<1> SUFFICES ASSUME IInv, DFMove \/ \E c \in Conn : Handler(c) PROVE IInv'
  OBVIOUS
<1> USE NoPlace, ViewportAssumption
    DEF IInv, TypeOK, Borrowed, clientVars, gameVars, cursorVars, Change
<1>1. CASE DFMove
  BY <1>1 DEF DFMove
<1>2. ASSUME NEW c \in Conn, Join(c) PROVE IInv'
  BY <1>2 DEF Join
<1>3. ASSUME NEW c \in Conn, Leave(c) PROVE IInv'
  BY <1>3 DEF Leave
<1>4. ASSUME NEW c \in Conn, NEW x \in Pane, MouseEvent(c, x) PROVE IInv'
  BY <1>4 DEF MouseEvent
<1>5. ASSUME NEW c \in Conn, NEW x \in Pane, cursorMove(c, x) PROVE IInv'
  <2> DEFINE looks == IF c \in own_cam THEN cam[c] ELSE game
  <2>1. Origin(c) \in Camera /\ looks \in Camera
    BY DEF Origin
  <2> HIDE DEF looks
  <2>2. Origin(c) + x \in World /\ x + looks \in World
    BY <2>1, OnScreen
  <2>3. /\ cursor' = [cursor EXCEPT ![c] = Origin(c) + x]
        /\ cursor_active' = cursor_active \cup {c} /\ c \in clients
        /\ pointed' = [pointed EXCEPT ![c] = x + looks]
        /\ strayed' \subseteq strayed \cup {c}
        /\ changes < MaxChanges /\ changes' = changes + 1
        /\ UNCHANGED <<clientVars, gameVars, queued, pending, tick, shown>>
    BY <1>5 DEF cursorMove, looks
  <2>4. /\ cursor' \in [Conn -> World \cup {Nowhere}]
        /\ pointed' \in [Conn -> World \cup {Nowhere}]
    BY <2>2, <2>3
  <2> QED
    BY <2>3, <2>4
<1>6. ASSUME NEW c \in Conn, NEW d \in Delta, CamMoveDriver(c, d) PROVE IInv'
  BY <1>6 DEF CamMoveDriver
<1>7. ASSUME NEW c \in Conn, NEW d \in Delta, CamMove(c, d) PROVE IInv'
  <2>1. Origin(c) \in Camera /\ Origin(c) \in Int /\ d \in Int
    BY DEF Origin
  <2>2. Origin(c) + d \in Int
    BY <2>1
  <2>3. Clamp(Origin(c) + d) \in Camera
    BY <2>2, ClampInside
  <2> QED
    BY <1>7, <2>3 DEF CamMove
<1> QED
  BY <1>1, <1>2, <1>3, <1>4, <1>5, <1>6, <1>7 DEF Handler

LEMMA TurnInv ==
    ASSUME IInv, NEW n \in clients \cup {NoConn}, set_active(n)
    PROVE  IInv'
<1> QED
  BY NoPlace, ViewportAssumption
  DEF IInv, TypeOK, Borrowed, clientVars, gameVars, cursorVars, Change, set_active

LEMMA StepInv == IInv /\ [Next]_vars => IInv'
<1>1. IInv /\ UNCHANGED vars => IInv'
  BY DEF IInv, TypeOK, Borrowed, vars, clientVars, gameVars, cursorVars
<1> QED
  BY <1>1, MainInv, HandlerInv, TurnInv DEF Next

LEMMA Invariance == Spec => []IInv
<1> QED
  BY InitInv, StepInv, PTL DEF Spec

--------------------------------------------------------------------------------
(* Cursors *)

LEMMA PointersInit == Init => Pointers
<1> QED
  BY DEF Init, Pointers

\* The window a cursor is computed from is the game's, or the cursor strays.
LEMMA PointersStep ==
    ASSUME IInv, Pointers, [Next]_vars
    PROVE  Pointers'
<1> USE DEF Pointers, clientVars, gameVars, cursorVars
<1>1. CASE UNCHANGED <<cursorVars>>
  BY <1>1
<1>2. ASSUME NEW c \in Conn, Leave(c) PROVE Pointers'
  <2>1. /\ cursor_active' = cursor_active \ {c} /\ UNCHANGED cursor
        /\ pointed' = [pointed EXCEPT ![c] = Nowhere] /\ strayed' = strayed \ {c}
    BY <1>2 DEF Leave
  <2> QED
    BY <2>1 DEF IInv, TypeOK
<1>3. ASSUME NEW n \in clients \cup {NoConn}, set_active(n) PROVE Pointers'
  BY <1>3 DEF set_active
<1>4. ASSUME NEW c \in Conn, NEW x \in Pane, cursorMove(c, x) PROVE Pointers'
  <2> DEFINE looks == IF c \in own_cam THEN cam[c] ELSE game
  <2>1. looks \in Camera /\ (~Misled(c) => Origin(c) = looks)
    BY DEF Misled, Origin, IInv, TypeOK, Borrowed
  <2> HIDE DEF looks
  <2>2. looks + x \in World /\ looks + x = x + looks
    <3>1. looks \in Int /\ x \in Int
      BY <2>1, NoPlace
    <3> QED
      BY <2>1, <3>1, OnScreen
  <2>3. x + looks # Nowhere
    BY <2>2, NoPlace
  <2>4. /\ cursor' = [cursor EXCEPT ![c] = Origin(c) + x]
        /\ pointed' = [pointed EXCEPT ![c] = x + looks]
        /\ cursor_active' = cursor_active \cup {c}
        /\ strayed' = IF Misled(c) THEN strayed \cup {c} ELSE strayed \ {c}
    BY <1>4 DEF cursorMove, looks
  <2>5. cursor'[c] = Origin(c) + x /\ pointed'[c] = x + looks
    BY <2>4 DEF IInv, TypeOK
  <2>6. pointed'[c] # Nowhere /\ (c \in strayed' \/ pointed'[c] = cursor'[c])
    <3>1. CASE Misled(c)
      BY <2>3, <2>4, <2>5, <3>1
    <3>2. CASE ~Misled(c)
      BY <2>1, <2>2, <2>3, <2>5, <3>2
    <3> QED
      BY <3>1, <3>2
  <2>7. \A d \in Conn \ {c} : /\ cursor'[d] = cursor[d] /\ pointed'[d] = pointed[d]
                             /\ d \in strayed' <=> d \in strayed
    BY <2>4 DEF IInv, TypeOK
  <2> QED
    BY <2>4, <2>6, <2>7
<1>5. MainStep \/ DFMove => UNCHANGED <<cursorVars>>
  BY DEF MainStep, Render, BeginTick, ReuseScreen, BeginPass, EndPass, EndTick, DFMove
<1>6. ASSUME NEW c \in Conn, Handler(c) PROVE Pointers'
  <2>1. ASSUME Join(c) \/ (\E x \in Pane : MouseEvent(c, x))
                 \/ (\E d \in Delta : CamMoveDriver(c, d) \/ CamMove(c, d))
        PROVE  UNCHANGED <<cursorVars>>
    BY <2>1 DEF Join, MouseEvent, CamMoveDriver, CamMove
  <2> QED
    BY <1>1, <1>2, <1>4, <1>6, <2>1 DEF Handler
<1>7. UNCHANGED vars => UNCHANGED <<cursorVars>>
  BY DEF vars
<1> QED
  BY <1>1, <1>3, <1>5, <1>6, <1>7 DEF Next

LEMMA PointersInvariant == Spec => []Pointers
<1>1. IInv /\ Pointers /\ [Next]_vars => Pointers'
  BY PointersStep
<1> QED
  BY <1>1, PointersInit, Invariance, PTL DEF Spec

--------------------------------------------------------------------------------

\* Every camera is one the clamping allows and every cursor a tile of the world
\* or nowhere, handlers inside the passes included.
THEOREM TypeCorrect == Spec => []TypeOK
<1>1. IInv => TypeOK
  BY DEF IInv
<1> QED
  BY <1>1, Invariance, PTL

\* Between two ticks DF's camera and mouse are the game's own, handlers inside
\* the passes included (webfort.cpp:1190-1238).
THEOREM PassesLeaveNoTrace == Spec => []GameUndisturbed
<1>1. IInv => GameUndisturbed
  BY DEF IInv, Borrowed, GameUndisturbed
<1> QED
  BY <1>1, Invariance, PTL

\* The cursors tock sends are those that players point with, except, inside the
\* passes, the driver's and those sent to a client with no camera, and except a
\* cursor that itself came from inside the passes (server.cpp:616-676).
THEOREM CursorsAreTrue == Spec => []CursorsTrue
<1>1. IInv /\ Pointers => CursorsTrue
  <2> SUFFICES ASSUME IInv, Pointers, NEW c \in clients
               PROVE  {e \in Cursors(c) : Reliable(c, e[1])}
                      = {e \in TrueCursors(c) : Reliable(c, e[1])}
    BY DEF CursorsTrue
  <2>1. ASSUME NEW d \in clients, Reliable(c, d)
        PROVE  /\ Origin(c) = LooksAt(c)
               /\ CursorActive(d) <=> Pointing(d)
               /\ CursorActive(d) => CursorWorld(d) = Target(d)
    <3>1. d \in Conn
      BY DEF IInv, TypeOK
    <3>2. Origin(c) = LooksAt(c)
      BY <2>1 DEF Reliable, IInv, Borrowed, Origin, LooksAt
    <3>3. CASE d = active
      <4>1. window = game /\ mouse = vmouse
        BY <2>1, <3>3 DEF Reliable, IInv, Borrowed
      <4>2. mouse \in Nat \/ mouse = -1
        <5>1. mouse \in Pane \/ mouse = -1
          BY DEF IInv, TypeOK, Hidden
        <5> QED
          BY <5>1, NoPlace
      <4>3. mouse >= 0 <=> vmouse # Hidden
        BY <4>1, <4>2 DEF Hidden
      <4> QED
        BY <3>2, <3>3, <4>1, <4>3 DEF CursorActive, CursorWorld, Pointing, Target
    <3>4. CASE d # active
      BY <2>1, <3>1, <3>2, <3>4
      DEF Reliable, CursorActive, CursorWorld, Pointing, Target, Pointers
    <3> QED
      BY <3>3, <3>4
  <2>2. ASSUME NEW d \in clients \ {c}, Reliable(c, d), CursorActive(d) \/ Pointing(d)
        PROVE  /\ CursorActive(d) /\ Pointing(d)
               /\ <<d, CursorWorld(d) - Origin(c)>> = <<d, Target(d) - LooksAt(c)>>
    BY <2>1, <2>2
  <2>3. ASSUME NEW e, Reliable(c, e[1])
        PROVE  e \in Cursors(c) <=> e \in TrueCursors(c)
    <3>1. ASSUME e \in Cursors(c) PROVE e \in TrueCursors(c)
      <4>1. PICK d \in clients \ {c} :
                CursorActive(d) /\ e = <<d, CursorWorld(d) - Origin(c)>>
        BY <3>1 DEF Cursors
      <4>2. e[1] = d /\ e[2] \in Pane
        BY <3>1, <4>1 DEF Cursors
      <4>3. Pointing(d) /\ e = <<d, Target(d) - LooksAt(c)>>
        BY <2>2, <2>3, <4>1, <4>2
      <4> QED
        BY <4>2, <4>3 DEF TrueCursors
    <3>2. ASSUME e \in TrueCursors(c) PROVE e \in Cursors(c)
      <4>1. PICK d \in clients \ {c} :
                Pointing(d) /\ e = <<d, Target(d) - LooksAt(c)>>
        BY <3>2 DEF TrueCursors
      <4>2. e[1] = d /\ e[2] \in Pane
        BY <3>2, <4>1 DEF TrueCursors
      <4>3. CursorActive(d) /\ e = <<d, CursorWorld(d) - Origin(c)>>
        BY <2>2, <2>3, <4>1, <4>2
      <4> QED
        BY <4>2, <4>3 DEF Cursors
    <3> QED
      BY <3>1, <3>2
  <2> QED
    BY <2>3
<1> QED
  BY <1>1, Invariance, PointersInvariant, PTL

\* A spectator's camera starts from what they look at, except for a first move
\* inside the passes, and is moved by nobody else (server.cpp:755-798).
THEOREM SpectatorsMoveThemselves == Spec => SpectatorMoves
<1>1. IInv /\ [Next]_vars =>
        [\A c \in (clients \cap clients') \ {active} :
            cam'[c] # cam[c] =>
              \E d \in Delta, w \in Camera :
                  /\ cam'[c] = Clamp(w + d)
                  /\ Misled(c) \/ w = LooksAt(c)]_vars
  <2> SUFFICES ASSUME IInv, Next, NEW c \in clients, c \in clients', c # active,
                      cam'[c] # cam[c]
               PROVE  \E d \in Delta, w \in Camera :
                          cam'[c] = Clamp(w + d) /\ (Misled(c) \/ w = LooksAt(c))
    OBVIOUS
  <2> USE DEF clientVars, gameVars, cursorVars
  <2>1. c \in Conn /\ cam \in [Conn -> Camera]
    BY DEF IInv, TypeOK
  <2>2. ~MainStep
    BY <2>1 DEF MainStep, Render, BeginTick, ReuseScreen, BeginPass, EndPass, EndTick
  <2>3. ~DFMove /\ \A n : ~set_active(n)
    BY DEF DFMove, set_active
  <2>4. PICK b \in Conn : Handler(b)
    BY <2>2, <2>3 DEF Next
  <2>5. ~Join(b) /\ ~Leave(b) /\ \A x \in Pane : ~MouseEvent(b, x) /\ ~cursorMove(b, x)
    BY <2>1 DEF Join, Leave, MouseEvent, cursorMove
  <2>6. \A d \in Delta : ~CamMoveDriver(b, d)
    BY DEF CamMoveDriver
  <2>7. PICK d \in Delta : CamMove(b, d)
    BY <2>4, <2>5, <2>6 DEF Handler
  <2>8. b = c /\ cam'[c] = Clamp(Origin(c) + d)
    BY <2>1, <2>7 DEF CamMove
  <2>9. Origin(c) \in Camera /\ (Misled(c) \/ Origin(c) = LooksAt(c))
    BY <2>1 DEF Misled, IInv, TypeOK, Borrowed, Origin, LooksAt
  <2> QED
    BY <2>8, <2>9
<1> QED
  BY <1>1, Invariance, PTL DEF Spec, SpectatorMoves
================================================================================
