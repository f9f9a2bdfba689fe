---------------------------- MODULE TileDeltaProofs ----------------------------
(***************************************************************************)
(* Theorems about TileDelta, for every set of clients, tiles and values.   *)
(* The two threads interleave in every way the model lets them.            *)
(***************************************************************************)
EXTENDS TileDelta, TLAPS

\* What a tick and a packet refer to is there.
Known ==
    /\ tick.c \in clients \cup {NoConn} /\ tick.todo \subseteq clients
    /\ tick.at = "idle" => tick = Idle
    /\ packet = NoTock \/ packet.c \in clients

TInv == TypeOK /\ Known

\* A client whose buffer this tick has compared with the frame before.
Compared(c) == tick.at = "shared" /\ c \notin tick.todo \cup {tick.c}

\* Where a tick is with the shared frame.
Frames ==
    /\ tick.at # "shared" => sc = sc_prev
    /\ tick.at = "shared" => (tick.resized <=> dims # sc_prev_dims)
    /\ tick.at = "extra" => dims = sc_prev_dims
    /\ ~relaid => dims = 0 /\ sc_prev_dims = 0 /\ \A c \in Conn : canvas_dims[c] = 0

\* What the buffers of a client hold: the shared frame, new or old, until it has
\* a camera, and then its own.
Buffers(c) ==
    /\ c \notin captured \cup unfilled => mod[c] = {}
    /\ c \in captured \ own_cam =>
          own_sc[c] = IF tick.at = "shared" /\ c \notin tick.todo THEN sc ELSE sc_prev
    /\ c \notin own_cam => own_sc_prev[c] = BlankFrame
    /\ tick.c = c => c \in captured /\ c \notin tick.todo
    /\ tick.c = c /\ tick.at = "extra" => c \in own_cam
    /\ c \in own_cam => \/ own_sc_prev[c] \in {BlankFrame, own_sc[c]}
                        \/ tick.at = "extra" /\ tick.c = c

\* The frame that a client's mod bytes speak of: the one before, from the copy
\* of a new frame to the comparison.
Spoken(c) ==
    CASE tick.c = c /\ tick.at = "shared" /\ c \notin own_cam -> sc_prev
      [] tick.c = c /\ tick.at = "extra" -> own_sc_prev[c]
      [] OTHER -> own_sc[c]

\* A client whose mod bytes count: new dimensions have been dealt with.
Counts(c) == Served(c) /\ (dims = sc_prev_dims \/ Compared(c))

\* The tiles of a client that count as sent, the one being sent included.
Marked(c) == mod[c] \cup {t \in packet.tile : packet.c = c}

\* A tile as in the buffer, or as in the frame before if the comparison is still
\* to come; the first comparison, with zeroes, clears every tile.
Fine(c, t) ==
    \/ canvas[c][t] \in {own_sc[c][t], Spoken(c)[t]}
    \/ tick.c = c /\ tick.at = "extra" /\ own_sc_prev[c] = BlankFrame

Truth(c) ==
    Counts(c) /\ c \notin torn \cup unfilled =>
        /\ \A t \in Marked(c) : Fine(c, t)
        /\ mod[c] = {} \/ canvas_dims[c] = dims

\* A packet under way has the dimensions of the screen, and is for a client that
\* has a frame.
Sending ==
    packet # NoTock =>
        /\ packet.c \in captured \cup unfilled
        /\ canvas_dims[packet.c] = dims

Clients == \A c \in clients : Buffers(c) /\ Truth(c)

DInv == TInv /\ Frames /\ Sending /\ Clients

--------------------------------------------------------------------------------
(* Types *)

LEMMA Shapes ==
    /\ Idle \in Tick /\ NoTock \in Tock
    /\ BlankFrame \in Frame
    /\ ClearedCanvas \in [Tile -> Value \cup {Blank, Cleared}]
<1> QED
  BY DEF Idle, Tick, NoTock, Tock, BlankFrame, Frame, ClearedCanvas

LEMMA TypeInit == Init => TInv
<1> SUFFICES ASSUME Init PROVE TInv
  OBVIOUS
<1> USE TileAssumption, Shapes
<1>1. scene \in [View -> Frame]
  BY DEF Init, Frame
<1>2. /\ own_sc \in [Conn -> Frame] /\ own_sc_prev \in [Conn -> Frame]
      /\ sc \in Frame /\ sc_prev \in Frame
  BY DEF Init
<1>3. /\ mod \in [Conn -> SUBSET Tile] /\ canvas_dims \in [Conn -> Dims]
      /\ canvas \in [Conn -> [Tile -> Value \cup {Blank, Cleared}]]
  BY DEF Init, Dims
<1>4. tick \in Tick /\ packet \in Tock
  BY DEF Init
<1>5. TypeOK
  <2>1. /\ relaid \in BOOLEAN /\ dims \in Dims /\ sc_prev_dims \in Dims
    BY DEF Init, Dims
  <2>3. changes \in 0 .. MaxChanges
    BY DEF Init
  <2>2. /\ clients \subseteq Conn /\ own_cam \subseteq clients /\ captured \subseteq clients
        /\ active \in clients \cup {NoConn} /\ torn \cup unfilled \subseteq Conn
    BY DEF Init
  <2> QED
    BY <1>1, <1>2, <1>3, <1>4, <2>1, <2>2, <2>3 DEF TypeOK
<1>6. Known
  BY DEF Init, Known, Idle
<1> QED
  BY <1>5, <1>6 DEF TInv

LEMMA TypeStep == TInv /\ [Next]_vars => TInv'
<1> SUFFICES ASSUME TInv, [Next]_vars PROVE TInv'
  OBVIOUS
<1> USE TileAssumption, Shapes
<1> USE DEF TInv, sceneVars, clientVars, captureVars, browserVars, historyVars, Change
<1>1. CASE Render
  <2>1. PICK v \in own_cam \cup {NoConn}, t \in Tile, x \in Value :
           scene' = [scene EXCEPT ![v][t] = x]
    BY <1>1 DEF Render
  <2>2. v \in View
    BY DEF TypeOK, View
  <2>3. scene' \in [View -> Frame]
    BY <2>1, <2>2 DEF TypeOK, Frame
  <2> QED
    BY <1>1, <2>3 DEF Render, TypeOK, Known
<1>2. CASE Resize
  BY <1>2 DEF Resize, TypeOK, Known, Dims
<1>3. ASSUME NEW delta \in BOOLEAN, BeginTick(delta) PROVE TInv'
  <2>1. own_cam' \subseteq clients /\ NoConn \in View
    BY <1>3 DEF BeginTick, TypeOK, View
  <2>2. scene' \in [View -> Frame] /\ sc' \in Frame
    BY <1>3, <2>1 DEF BeginTick, TypeOK
  <2>3. tick' \in Tick
    BY <1>3 DEF BeginTick, TypeOK, Tick
  <2>4. mod' \in [Conn -> SUBSET Tile]
    BY <1>3 DEF BeginTick, TypeOK
  <2>5. TypeOK'
    BY <1>3, <2>1, <2>2, <2>3, <2>4 DEF BeginTick, TypeOK
  <2> QED
    BY <1>3, <2>5 DEF BeginTick, Known
<1>4. ASSUME NEW c \in Conn, CopyShared(c) \/ CopyExtra(c) PROVE TInv'
  <2>1. /\ tick.at # "idle"
        /\ \E d \in {tick.c, c} : tick' = [tick EXCEPT !.c = d, !.todo = @ \ {c}]
    <3>1. [tick EXCEPT !.todo = @ \ {c}] = [tick EXCEPT !.c = tick.c, !.todo = @ \ {c}]
      BY DEF TypeOK, Tick
    <3> QED
      BY <1>4, <3>1 DEF CopyShared, CopyExtra
  <2>5. /\ tick' \in Tick /\ tick'.at = tick.at
        /\ tick'.c \in {tick.c, c} /\ tick'.todo = tick.todo \ {c}
    <3>1. tick \in Tick /\ tick.c \in Conn \cup {NoConn}
      BY DEF TypeOK, Tick
    <3>2. PICK d \in {tick.c, c} : tick' = [tick EXCEPT !.c = d, !.todo = tick.todo \ {c}]
      BY <2>1
    <3>3. d \in Conn \cup {NoConn}
      BY <3>1
    <3> QED
      BY <3>1, <3>2, <3>3 DEF Tick
  <2>2. c \in clients /\ captured' \subseteq clients
    BY <1>4 DEF CopyShared, CopyExtra, TypeOK, Known
  <2>3. own_sc' \in [Conn -> Frame]
    BY <1>4 DEF CopyShared, CopyExtra, TypeOK, View
  <2>4. TypeOK'
    BY <1>4, <2>5, <2>2, <2>3 DEF CopyShared, CopyExtra, TypeOK
  <2> QED
    BY <1>4, <2>1, <2>5, <2>2, <2>4 DEF CopyShared, CopyExtra, Known
<1>5. CASE CompareShared
  <2>1. tick' \in Tick /\ tick'.at = "shared" /\ tick'.c = NoConn /\ tick'.todo = tick.todo
    BY <1>5 DEF CompareShared, TypeOK, Tick
  <2>2. mod' \in [Conn -> SUBSET Tile]
    BY <1>5 DEF CompareShared, TypeOK
  <2>3. tick.c \in Conn /\ torn' \cup unfilled' \subseteq Conn
    BY <1>5 DEF CompareShared, Tear, TypeOK, Tick
  <2> QED
    BY <1>5, <2>1, <2>2, <2>3 DEF CompareShared, TypeOK, Known
<1>6. CASE EndShared
  <2>1. tick' \in Tick /\ tick'.at = "extra" /\ tick'.c = tick.c /\ tick'.todo = clients
    BY <1>6 DEF EndShared, TypeOK, Tick
  <2> QED
    BY <1>6, <2>1 DEF EndShared, TypeOK, Known
<1>7. CASE CompareExtra
  <2>1. tick' \in Tick /\ tick'.at = "extra" /\ tick'.c = NoConn /\ tick'.todo = tick.todo
    BY <1>7 DEF CompareExtra, TypeOK, Tick
  <2>2. mod' \in [Conn -> SUBSET Tile] /\ own_sc_prev' \in [Conn -> Frame] /\ tick.c \in Conn
    BY <1>7 DEF CompareExtra, TypeOK, Known
  <2>3. torn' \cup unfilled' \subseteq Conn
    BY <1>7, <2>2 DEF CompareExtra, Tear, TakeZeroes, TypeOK
  <2> QED
    BY <1>7, <2>1, <2>2, <2>3 DEF CompareExtra, TypeOK, Known
<1>8. CASE EndTick
  BY <1>8 DEF EndTick, TypeOK, Known, Idle
<1>9. ASSUME NEW c \in Conn, Join(c) \/ Leave(c) PROVE TInv'
  <2>1. /\ own_sc' \in [Conn -> Frame] /\ own_sc_prev' \in [Conn -> Frame]
        /\ mod' \in [Conn -> SUBSET Tile]
        /\ canvas' \in [Conn -> [Tile -> Value \cup {Blank, Cleared}]]
    <3>1. CASE Join(c)
      BY <3>1 DEF Join, Resend, TypeOK
    <3>2. CASE Leave(c)
      BY <3>2 DEF Leave, TypeOK
    <3> QED
      BY <1>9, <3>1, <3>2
  <2>2. /\ clients' \subseteq Conn /\ own_cam' \subseteq clients' /\ captured' \subseteq clients'
        /\ active' \in clients' \cup {NoConn} /\ torn' \cup unfilled' \subseteq Conn
    BY <1>9 DEF Join, Leave, Resend, TypeOK
  <2>3. /\ changes' \in 0 .. MaxChanges
        /\ UNCHANGED <<scene, relaid, dims, sc_prev_dims, sc, sc_prev, canvas_dims, tick, packet>>
        /\ tick = Idle /\ packet = NoTock
    BY <1>9 DEF Join, Leave, TypeOK, ServerMayRun
  <2>4. TypeOK'
    BY <2>1, <2>2, <2>3 DEF TypeOK
  <2>5. Known'
    BY <2>3 DEF Known, Idle
  <2> QED
    BY <2>4, <2>5
<1>10. ASSUME NEW c \in Conn, CamMove(c) \/ refreshScreen(c) PROVE TInv'
  <2>1. scene' \in [View -> Frame]
    <3>1. CASE CamMove(c)
      <4>1. PICK frame \in [Tile -> Value] : scene' = [scene EXCEPT ![c] = frame]
        BY <3>1 DEF CamMove
      <4>2. frame \in Frame
        BY DEF Frame
      <4> QED
        BY <4>1, <4>2 DEF TypeOK, View
    <3>2. CASE refreshScreen(c)
      BY <3>2 DEF refreshScreen, TypeOK
    <3> QED
      BY <1>10, <3>1, <3>2
  <2>2. mod' \in [Conn -> SUBSET Tile]
    BY <1>10 DEF CamMove, refreshScreen, Resend, TypeOK
  <2> QED
    BY <1>10, <2>1, <2>2 DEF CamMove, refreshScreen, Resend, TypeOK, Known
<1>11. ASSUME NEW c \in Conn, tock(c) PROVE TInv'
  <2>1. canvas' \in [Conn -> [Tile -> Value \cup {Blank, Cleared}]]
    BY <1>11 DEF tock, TypeOK
  <2>2. packet' \in Tock /\ packet'.c \in clients'
    BY <1>11 DEF tock, Tock
  <2> QED
    BY <1>11, <2>1, <2>2 DEF tock, TypeOK, Known
<1>12. ASSUME NEW n \in clients \cup {NoConn}, set_active(n) PROVE TInv'
  BY <1>12 DEF set_active, Resend, TypeOK, Known
<1>13. ASSUME NEW t \in Tile, SendTile(t) PROVE TInv'
  <2>1. packet # NoTock
    BY <1>13 DEF SendTile, NoTock
  <2>2. packet.c \in clients /\ packet.c \in Conn
    BY <2>1 DEF TypeOK, Known
  <2>3. packet' \in Tock /\ packet'.c = packet.c
    <3>1. packet \in Tock
      BY DEF TypeOK
    <3>2. packet' \in {[packet EXCEPT !.todo = packet.todo \ {t}],
                       [packet EXCEPT !.tile = {t}, !.todo = packet.todo \ {t}]}
      BY <1>13 DEF SendTile
    <3>3. CASE packet' = [packet EXCEPT !.todo = packet.todo \ {t}]
      BY <3>1, <3>3 DEF Tock
    <3>4. CASE packet' = [packet EXCEPT !.tile = {t}, !.todo = packet.todo \ {t}]
      BY <3>1, <3>4 DEF Tock
    <3> QED
      BY <3>2, <3>3, <3>4
  <2>4. own_sc[packet.c][t] \in Value \cup {Blank, Cleared}
    BY <2>2 DEF TypeOK, Frame
  <2>5. canvas' \in [Conn -> [Tile -> Value \cup {Blank, Cleared}]]
    <3>1. canvas' \in {canvas, [canvas EXCEPT ![packet.c][t] = own_sc[packet.c][t]]}
      BY <1>13 DEF SendTile
    <3>2. canvas \in [Conn -> [Tile -> Value \cup {Blank, Cleared}]]
      BY DEF TypeOK
    <3>3. [canvas EXCEPT ![packet.c][t] = own_sc[packet.c][t]]
             \in [Conn -> [Tile -> Value \cup {Blank, Cleared}]]
      BY <2>4, <3>2
    <3> QED
      BY <3>1, <3>2, <3>3
  <2> QED
    BY <1>13, <2>2, <2>3, <2>5 DEF SendTile, TypeOK, Known
<1>14. CASE MarkTile
  <2>1. packet # NoTock
    BY <1>14 DEF MarkTile, NoTock
  <2>2. packet.c \in clients
    BY <2>1 DEF Known
  <2>3. packet' \in Tock /\ packet'.c = packet.c
    BY <1>14 DEF MarkTile, TypeOK, Tock
  <2>4. mod' \in [Conn -> SUBSET Tile]
    BY <1>14 DEF MarkTile, TypeOK, Tock
  <2> QED
    BY <1>14, <2>2, <2>3, <2>4 DEF MarkTile, TypeOK, Known
<1>15. CASE EndTock
  BY <1>15 DEF EndTock, TypeOK, Known
<1>16. CASE UNCHANGED vars
  BY <1>16 DEF vars, TypeOK, Known
<1> QED
  BY <1>1, <1>2, <1>3, <1>4, <1>5, <1>6, <1>7, <1>8, <1>9, <1>10, <1>11, <1>12, <1>13, <1>14,
     <1>15, <1>16 DEF Next, MainStep, TockStep

LEMMA Typed == Spec => []TInv
<1> QED
  BY TypeInit, TypeStep, PTL DEF Spec

\* Whatever the threads do to each other, cameras, captured frames and the turn
\* belong to clients that are connected, and every buffer keeps its type.
THEOREM TypeCorrect == Spec => []TypeOK
<1>1. TInv => TypeOK
  BY DEF TInv
<1> QED
  BY <1>1, Typed, PTL
--------------------------------------------------------------------------------
(* The mod bytes *)

LEMMA DeltaInit == Init => DInv
<1> SUFFICES ASSUME Init PROVE DInv
  OBVIOUS
<1>1. tick = Idle /\ tick.at = "idle" /\ packet = NoTock
  BY DEF Init, Idle
<1>3. Frames
  BY <1>1 DEF Init, Frames
<1>4. Sending /\ Clients
  BY <1>1 DEF Init, Sending, Clients
<1> QED
  BY <1>3, <1>4, TypeInit DEF DInv

\* DF draws a tile, or lays the screen out anew.
LEMMA GameStep == ASSUME DInv, TInv', Render \/ Resize PROVE DInv'
<1> USE DEF captureVars, clientVars, browserVars, historyVars
<1>1. TypeOK /\ Known /\ Frames /\ Sending /\ Clients
  BY DEF DInv, TInv
<1>2. CASE Render
  <2>2. Frames' /\ Sending'
    BY <1>1, <1>2 DEF Render, Frames, Sending
  <2>3. Clients'
    BY <1>1, <1>2 DEF Render, Clients, Buffers, Truth, Counts, Served, Compared, Spoken, Marked, Fine
  <2> QED
    BY <2>2, <2>3 DEF DInv
<1>3. CASE Resize
  <2>1. packet = NoTock /\ tick = Idle /\ tick.at = "idle"
    BY <1>3 DEF Resize, Idle
  <2>2. Frames' /\ Sending'
    BY <1>1, <1>3, <2>1 DEF Resize, Frames, Sending
  <2>3. dims' # sc_prev_dims'
    BY <1>1, <1>3 DEF Resize, TypeOK, Dims
  <2>4. Clients'
    BY <1>1, <1>3, <2>1, <2>3 DEF Resize, Clients, Buffers, Truth, Counts, Compared
  <2> QED
    BY <2>2, <2>4 DEF DInv
<1> QED
  BY <1>2, <1>3

LEMMA BeginStep ==
    ASSUME DInv, TInv', NEW delta \in BOOLEAN, BeginTick(delta) PROVE DInv'
<1> USE DEF captureVars, clientVars, browserVars, historyVars
<1>1. TypeOK /\ Known /\ Frames /\ Sending /\ Clients
  BY DEF DInv, TInv
<1>2. tick.at = "idle" /\ tick.c = NoConn
  BY DEF BeginTick, Idle
<1>3. /\ tick'.at = "shared" /\ tick'.c = NoConn /\ tick'.todo = clients
      /\ tick'.resized <=> dims # sc_prev_dims
  BY DEF BeginTick
<1>5. Frames' /\ Sending'
  BY <1>1, <1>2, <1>3 DEF BeginTick, Frames, Sending
<1>6. ASSUME NEW d \in clients PROVE Buffers(d)' /\ Truth(d)'
  <2>1. d \in Conn /\ d # NoConn /\ Buffers(d) /\ Truth(d)
    BY <1>1, <1>6, TileAssumption DEF TypeOK, Clients
  <2>2. mod'[d] \in {{}, mod[d]}
    BY <2>1 DEF BeginTick
  <2>3. Buffers(d)'
    BY <1>1, <1>2, <1>3, <2>1, <2>2 DEF BeginTick, Buffers, Frames
  <2>4. Truth(d)'
    BY <1>2, <1>3, <2>1, <2>2 DEF BeginTick, Truth, Counts, Served, Compared, Spoken, Marked, Fine
  <2> QED
    BY <2>3, <2>4
<1> QED
  BY <1>5, <1>6 DEF BeginTick, DInv, Clients

LEMMA CopySharedStep ==
    ASSUME DInv, TInv', NEW c \in Conn, CopyShared(c) PROVE DInv'
<1> USE DEF sceneVars, captureVars, clientVars, browserVars, historyVars
<1>1. TypeOK /\ Known /\ Frames /\ Sending /\ Clients
  BY DEF DInv, TInv
<1>2. /\ tick.at = "shared" /\ tick.c = NoConn /\ c \in tick.todo
      /\ c \in clients
  BY <1>1 DEF CopyShared, Known
<1>3. /\ tick'.at = "shared" /\ tick'.todo = tick.todo \ {c} /\ tick'.resized = tick.resized
      /\ tick'.c = IF c \in own_cam THEN NoConn ELSE c
  BY <1>1, <1>2 DEF CopyShared, TypeOK, Tick
<1>4. Frames' /\ Sending'
  BY <1>1, <1>2, <1>3 DEF CopyShared, Frames, Sending
<1>5. ASSUME NEW d \in clients PROVE Buffers(d)' /\ Truth(d)'
  <2>1. d \in Conn /\ d # NoConn /\ Buffers(d) /\ Truth(d)
    BY <1>1, <1>5, TileAssumption DEF TypeOK, Clients
  <2>2. /\ own_sc'[d] = IF d = c /\ c \notin own_cam THEN sc ELSE own_sc[d]
        /\ captured' = captured \cup IF c \notin own_cam THEN {c} ELSE {}
    <3>1. CASE c \in own_cam
      BY <1>1, <2>1, <3>1 DEF CopyShared, TypeOK
    <3>2. CASE c \notin own_cam
      BY <1>1, <2>1, <3>2 DEF CopyShared, TypeOK
    <3> QED
      BY <3>1, <3>2
  <2>3. Buffers(d)'
    BY <1>2, <1>3, <2>1, <2>2 DEF CopyShared, Buffers
  <2>4. Truth(d)'
    <3>1. CASE d # c \/ c \in own_cam
      <4>1. own_sc'[d] = own_sc[d] /\ Marked(d)' = Marked(d) /\ Spoken(d)' = own_sc[d]
            /\ Spoken(d) = own_sc[d]
        BY <1>2, <1>3, <2>1, <2>2, <3>1 DEF CopyShared, Marked, Spoken
      <4>2. Counts(d)' => Counts(d)
        <5>1. CASE d # c
          BY <1>2, <1>3, <2>1, <5>1 DEF CopyShared, Counts, Served, Compared
        <5>2. CASE d = c
          BY <1>1, <3>1, <5>2 DEF CopyShared, Counts, Served, Frames
        <5> QED
          BY <5>1, <5>2
      <4> QED
        BY <1>2, <2>1, <4>1, <4>2 DEF CopyShared, Truth, Fine
    <3> SUFFICES ASSUME d = c, c \notin own_cam, d \notin torn \cup unfilled, Counts(d)'
                 PROVE  /\ \A t \in Marked(d)' : Fine(d, t)'
                        /\ mod'[d] = {} \/ canvas_dims'[d] = dims'
      BY <3>1 DEF Truth, CopyShared
    <3>2. Counts(d)
      BY <1>3 DEF CopyShared, Counts, Served, Compared
    <3>3. /\ \A t \in Marked(d) : canvas[d][t] = own_sc[d][t]
          /\ mod[d] = {} \/ canvas_dims[d] = dims
      BY <1>2, <2>1, <3>2 DEF Truth, Fine, Spoken
    <3>4. Marked(d) = {} \/ own_sc[d] = sc_prev
      <4>1. packet # NoTock /\ packet.c = d => d \in captured
        BY <1>1 DEF Sending
      <4>2. d \notin captured => Marked(d) = {}
        BY <2>1, <4>1 DEF Buffers, Marked, NoTock
      <4> QED
        BY <1>2, <2>1, <4>2 DEF Buffers
    <3>5. \A t \in Marked(d) : canvas[d][t] = sc_prev[t]
      BY <3>3, <3>4
    <3> QED
      BY <1>3, <3>3, <3>5 DEF CopyShared, Marked, Fine, Spoken
  <2> QED
    BY <2>3, <2>4
<1> QED
  BY <1>4, <1>5 DEF CopyShared, DInv, Clients

LEMMA CompareSharedStep == ASSUME DInv, TInv', CompareShared PROVE DInv'
<1> USE DEF sceneVars, captureVars, clientVars, browserVars, historyVars
<1>1. TypeOK /\ Known /\ Frames /\ Sending /\ Clients
  BY DEF DInv, TInv
<1>2. tick.at = "shared" /\ tick.c # NoConn
  BY DEF CompareShared
<1>3. /\ tick'.at = "shared" /\ tick'.todo = tick.todo /\ tick'.resized = tick.resized
      /\ tick'.c = NoConn
  BY <1>1, <1>2 DEF CompareShared, TypeOK, Tick
<1>4. Frames' /\ Sending'
  BY <1>1, <1>2, <1>3 DEF CompareShared, Frames, Sending
<1>5. ASSUME NEW d \in clients PROVE Buffers(d)' /\ Truth(d)'
  <2>1. d \in Conn /\ d # NoConn /\ Buffers(d) /\ Truth(d)
    BY <1>1, <1>5, TileAssumption DEF TypeOK, Clients
  <2>2. mod'[d] = IF d # tick.c THEN mod[d]
                  ELSE IF tick.resized THEN {} ELSE {t \in mod[d] : sc[t] = sc_prev[t]}
    BY <1>1, <2>1 DEF CompareShared, TypeOK
  <2>3. Buffers(d)'
    BY <1>2, <1>3, <2>1, <2>2 DEF CompareShared, Buffers
  <2>4. Truth(d)'
    <3>1. CASE d # tick.c
      BY <1>2, <1>3, <2>1, <2>2, <3>1
         DEF CompareShared, Tear, Truth, Counts, Served, Compared, Spoken, Marked, Fine
    <3> SUFFICES ASSUME d = tick.c, d \notin torn' \cup unfilled', Counts(d)'
                 PROVE  /\ \A t \in Marked(d)' : Fine(d, t)'
                        /\ mod'[d] = {} \/ canvas_dims'[d] = dims'
      BY <3>1 DEF Truth
    <3>2. Marked(d)' = mod'[d] /\ Marked(d) = mod[d] /\ d \notin torn \cup unfilled
      BY <1>1 DEF CompareShared, Tear, MidTile, Marked
    <3>3. CASE tick.resized
      BY <2>2, <3>2, <3>3
    <3>4. CASE ~tick.resized
      <4>1. Counts(d)
        BY <1>1, <1>2, <3>4 DEF CompareShared, Frames, Counts, Served
      <4>2. \A t \in mod[d] : Fine(d, t)
        BY <2>1, <3>2, <4>1 DEF Truth
      <4>3. \A t \in mod'[d] : canvas[d][t] = own_sc[d][t]
        <5>1. CASE d \in own_cam
          BY <1>2, <2>2, <3>4, <4>2, <5>1 DEF Fine, Spoken
        <5>2. CASE d \notin own_cam
          <6>1. own_sc[d] = sc
            BY <1>2, <2>1, <5>2 DEF Buffers
          <6> QED
            BY <1>2, <2>2, <3>4, <4>2, <5>2, <6>1 DEF Fine, Spoken
        <5> QED
          BY <5>1, <5>2
      <4>4. \A t \in mod'[d] : Fine(d, t)'
        BY <4>3 DEF CompareShared, Fine
      <4> QED
        BY <2>1, <2>2, <3>2, <3>4, <4>1, <4>4 DEF CompareShared, Truth
    <3> QED
      BY <3>3, <3>4
  <2> QED
    BY <2>3, <2>4
<1> QED
  BY <1>4, <1>5 DEF CompareShared, DInv, Clients

LEMMA EndSharedStep == ASSUME DInv, TInv', EndShared PROVE DInv'
<1> USE DEF sceneVars, captureVars, clientVars, browserVars, historyVars
<1>1. TypeOK /\ Known /\ Frames /\ Sending /\ Clients
  BY DEF DInv, TInv
<1>2. tick.at = "shared" /\ tick.c = NoConn /\ tick.todo = {}
  BY DEF EndShared
<1>3. tick'.at = "extra" /\ tick'.todo = clients /\ tick'.c = NoConn
  BY <1>1, <1>2 DEF EndShared, TypeOK, Tick
<1>4. Frames' /\ Sending'
  BY <1>1, <1>2, <1>3 DEF EndShared, Frames, Sending
<1>5. ASSUME NEW d \in clients PROVE Buffers(d)' /\ Truth(d)'
  <2>1. d \in Conn /\ d # NoConn /\ Buffers(d) /\ Truth(d)
    BY <1>1, <1>5, TileAssumption DEF TypeOK, Clients
  <2>2. Buffers(d)'
    BY <1>2, <1>3, <2>1 DEF EndShared, Buffers
  <2>3. Truth(d)'
    BY <1>2, <1>3, <2>1 DEF EndShared, Truth, Counts, Served, Compared, Spoken, Marked, Fine
  <2> QED
    BY <2>2, <2>3
<1> QED
  BY <1>4, <1>5 DEF EndShared, DInv, Clients

LEMMA CopyExtraStep ==
    ASSUME DInv, TInv', NEW c \in Conn, CopyExtra(c) PROVE DInv'
<1> USE DEF sceneVars, captureVars, clientVars, browserVars, historyVars
<1>1. TypeOK /\ Known /\ Frames /\ Sending /\ Clients
  BY DEF DInv, TInv
<1>2. tick.at = "extra" /\ tick.c = NoConn /\ c \in tick.todo
  BY DEF CopyExtra
<1>3. /\ tick'.at = "extra" /\ tick'.todo = tick.todo \ {c}
      /\ tick'.c = IF c \in own_cam THEN c ELSE NoConn
  BY <1>1, <1>2 DEF CopyExtra, TypeOK, Tick
<1>4. Frames' /\ Sending'
  BY <1>1, <1>2, <1>3 DEF CopyExtra, Frames, Sending
<1>5. ASSUME NEW d \in clients PROVE Buffers(d)' /\ Truth(d)'
  <2>1. d \in Conn /\ d # NoConn /\ Buffers(d) /\ Truth(d)
    BY <1>1, <1>5, TileAssumption DEF TypeOK, Clients
  <2>2. /\ own_sc'[d] = IF d = c /\ c \in own_cam THEN scene[c] ELSE own_sc[d]
        /\ captured' = captured \cup IF c \in own_cam THEN {c} ELSE {}
    <3>1. CASE c \in own_cam
      BY <1>1, <2>1, <3>1 DEF CopyExtra, TypeOK
    <3>2. CASE c \notin own_cam
      BY <1>1, <2>1, <3>2 DEF CopyExtra, TypeOK
    <3> QED
      BY <3>1, <3>2
  <2>4. Buffers(d)'
    BY <1>2, <1>3, <2>1, <2>2 DEF CopyExtra, Buffers
  <2>5. Truth(d)'
    BY <1>1, <1>2, <1>3, <2>1, <2>2
       DEF CopyExtra, Truth, Counts, Served, Compared, Spoken, Marked, Fine, Buffers, Frames
  <2> QED
    BY <2>4, <2>5
<1> QED
  BY <1>4, <1>5 DEF CopyExtra, DInv, Clients

LEMMA CompareExtraStep == ASSUME DInv, TInv', CompareExtra PROVE DInv'
<1> USE DEF sceneVars, captureVars, clientVars, browserVars, historyVars
<1>1. TypeOK /\ Known /\ Frames /\ Sending /\ Clients
  BY DEF DInv, TInv
<1>2. tick.at = "extra" /\ tick.c # NoConn
  BY DEF CompareExtra
<1>3. tick'.at = "extra" /\ tick'.todo = tick.todo /\ tick'.c = NoConn
  BY <1>1, <1>2 DEF CompareExtra, TypeOK, Tick
<1>4. Frames' /\ Sending'
  BY <1>1, <1>2, <1>3 DEF CompareExtra, TakeZeroes, Frames, Sending
<1>5. ASSUME NEW d \in clients PROVE Buffers(d)' /\ Truth(d)'
  <2>1. d \in Conn /\ d # NoConn /\ Buffers(d) /\ Truth(d)
    BY <1>1, <1>5, TileAssumption DEF TypeOK, Clients
  <2>2. /\ mod'[d] = IF d # tick.c THEN mod[d]
                                   ELSE {t \in mod[d] : own_sc[d][t] = own_sc_prev[d][t]}
        /\ own_sc_prev'[d] = IF d # tick.c THEN own_sc_prev[d] ELSE own_sc[d]
    BY <1>1, <2>1 DEF CompareExtra, TypeOK
  <2>3. Buffers(d)'
    BY <1>2, <1>3, <2>1, <2>2 DEF CompareExtra, TakeZeroes, Buffers
  <2>4. Truth(d)'
    <3>1. CASE d # tick.c
      BY <1>2, <1>3, <2>1, <2>2, <3>1
         DEF CompareExtra, Tear, TakeZeroes, Truth, Counts, Served, Compared, Spoken, Marked,
             Fine
    <3> SUFFICES ASSUME d = tick.c, d \notin torn' \cup unfilled', Counts(d)'
                 PROVE  /\ \A t \in Marked(d)' : Fine(d, t)'
                        /\ mod'[d] = {} \/ canvas_dims'[d] = dims'
      BY <3>1 DEF Truth
    <3>2. /\ Marked(d)' = mod'[d] /\ Marked(d) = mod[d]
          /\ d \notin torn \cup unfilled /\ mod[d] \subseteq Tile
      BY <1>1, <2>1 DEF CompareExtra, Tear, TakeZeroes, MidTile, Marked, TypeOK
    <3>3. CASE own_sc_prev[d] = BlankFrame
      <4>1. \A t \in mod[d] : own_sc[d][t] # Blank
        BY <3>3 DEF CompareExtra, TakeZeroes
      <4>2. mod'[d] = {}
        BY <2>2, <3>2, <3>3, <4>1 DEF BlankFrame
      <4> QED
        BY <3>2, <4>2
    <3>4. CASE own_sc_prev[d] # BlankFrame
      <4>1. Counts(d)
        BY <1>1, <1>2 DEF CompareExtra, Frames, Counts, Served
      <4>2. \A t \in mod[d] : canvas[d][t] \in {own_sc[d][t], own_sc_prev[d][t]}
        BY <1>2, <2>1, <3>2, <3>4, <4>1 DEF Truth, Fine, Spoken
      <4>3. \A t \in mod'[d] : canvas[d][t] = own_sc[d][t]
        BY <2>2, <4>2
      <4>4. \A t \in mod'[d] : Fine(d, t)'
        BY <4>3 DEF CompareExtra, Fine
      <4> QED
        BY <2>1, <2>2, <3>2, <4>1, <4>4 DEF CompareExtra, Truth
    <3> QED
      BY <3>3, <3>4
  <2> QED
    BY <2>3, <2>4
<1> QED
  BY <1>4, <1>5 DEF CompareExtra, DInv, Clients

LEMMA EndTickStep == ASSUME DInv, TInv', EndTick PROVE DInv'
<1> USE DEF sceneVars, captureVars, clientVars, browserVars, historyVars
<1>1. TypeOK /\ Known /\ Frames /\ Sending /\ Clients
  BY DEF DInv, TInv
<1>2. tick.at = "extra" /\ tick.c = NoConn
  BY DEF EndTick
<1>3. tick'.at = "idle" /\ tick'.todo = {} /\ tick'.c = NoConn
  BY DEF EndTick, Idle
<1>4. Frames' /\ Sending'
  BY <1>1, <1>2, <1>3 DEF EndTick, Frames, Sending
<1>5. ASSUME NEW d \in clients PROVE Buffers(d)' /\ Truth(d)'
  <2>1. d \in Conn /\ d # NoConn /\ Buffers(d) /\ Truth(d)
    BY <1>1, <1>5, TileAssumption DEF TypeOK, Clients
  <2>2. Buffers(d)'
    BY <1>2, <1>3, <2>1 DEF EndTick, Buffers
  <2>3. Truth(d)'
    BY <1>2, <1>3, <2>1 DEF EndTick, Truth, Counts, Served, Compared, Spoken, Marked, Fine
  <2> QED
    BY <2>2, <2>3
<1> QED
  BY <1>4, <1>5 DEF EndTick, DInv, Clients

LEMMA JoinStep == ASSUME DInv, TInv', NEW c \in Conn, Join(c) PROVE DInv'
<1> USE DEF sceneVars, captureVars, clientVars, browserVars, historyVars
<1>1. TypeOK /\ Known /\ Frames /\ Sending /\ Clients
  BY DEF DInv, TInv
<1>2. packet = NoTock /\ tick.at = "idle" /\ tick.c = NoConn
  BY DEF Join, ServerMayRun, Idle
<1>3. Frames' /\ Sending'
  BY <1>1, <1>2 DEF Join, Frames, Sending
<1>4. ASSUME NEW d \in clients' PROVE Buffers(d)' /\ Truth(d)'
  <2>1. CASE d = c
    <3>1. c \notin captured /\ c \notin own_cam /\ c # NoConn
      BY <1>1, TileAssumption DEF Join, TypeOK
    <3>2. mod'[c] = {} /\ own_sc_prev'[c] = BlankFrame
      BY <1>1 DEF Join, Resend, TypeOK
    <3>3. Marked(c)' = {}
      BY <1>2, <3>2 DEF Join, Marked, NoTock
    <3> QED
      BY <1>2, <2>1, <3>1, <3>2, <3>3 DEF Join, Buffers, Truth
  <2>2. CASE d # c
    <3>1. d \in Conn /\ d # NoConn /\ Buffers(d) /\ Truth(d)
      BY <1>1, <1>4, <2>2, TileAssumption DEF Join, TypeOK, Clients
    <3>2. /\ mod'[d] = mod[d] /\ canvas'[d] = canvas[d]
          /\ own_sc'[d] = own_sc[d] /\ own_sc_prev'[d] = own_sc_prev[d]
          /\ d \in torn' <=> d \in torn
          /\ d \in unfilled' <=> d \in unfilled
      BY <1>1, <2>2, <3>1 DEF Join, Resend, TypeOK
    <3>3. d \in clients /\ d \in clients'
      BY <1>4, <2>2 DEF Join
    <3> QED
      BY <1>2, <3>1, <3>2, <3>3
      DEF Join, Buffers, Truth, Counts, Served, Compared, Spoken, Marked, Fine
  <2> QED
    BY <2>1, <2>2
<1> QED
  BY <1>3, <1>4 DEF DInv, Clients

LEMMA LeaveStep == ASSUME DInv, TInv', NEW c \in Conn, Leave(c) PROVE DInv'
<1> USE DEF sceneVars, captureVars, clientVars, browserVars, historyVars
<1>1. TypeOK /\ Known /\ Frames /\ Sending /\ Clients
  BY DEF DInv, TInv
<1>2. packet = NoTock /\ tick.at = "idle" /\ tick.c = NoConn
  BY DEF Leave, ServerMayRun, Idle
<1>3. Frames' /\ Sending'
  BY <1>1, <1>2 DEF Leave, Frames, Sending
<1>4. ASSUME NEW d \in clients' PROVE Buffers(d)' /\ Truth(d)'
  <2>1. d \in clients /\ d # c
    BY DEF Leave
  <2>2. Buffers(d) /\ Truth(d)
    BY <1>1, <2>1 DEF Clients
  <2> QED
    BY <1>2, <2>1, <2>2 DEF Leave, Buffers, Truth, Counts, Served, Compared, Spoken, Marked, Fine
<1> QED
  BY <1>3, <1>4 DEF DInv, Clients

\* Handlers that only have more tiles sent again.
LEMMA ResendStep ==
    ASSUME DInv, TInv',
           \/ \E n \in clients \cup {NoConn} : set_active(n)
           \/ \E c \in Conn : refreshScreen(c)
    PROVE  DInv'
<1> USE DEF sceneVars, captureVars, clientVars, browserVars, historyVars
<1>1. TypeOK /\ Known /\ Frames /\ Sending /\ Clients
  BY DEF DInv, TInv
<1>2. /\ packet = NoTock
      /\ UNCHANGED <<scene, dims, relaid, clients, own_cam, captureVars, browserVars, tick, packet>>
  BY DEF set_active, refreshScreen, ServerMayRun
<1>3. \A d \in clients : \/ mod'[d] = {}
                          \/ /\ mod'[d] = mod[d]
                             /\ d \in torn' <=> d \in torn
                             /\ d \in unfilled' <=> d \in unfilled
  BY <1>1 DEF set_active, refreshScreen, Resend, TypeOK
<1>4. Frames' /\ Sending'
  BY <1>1, <1>2 DEF Frames, Sending
<1>5. ASSUME NEW d \in clients PROVE Buffers(d)' /\ Truth(d)'
  <2>1. d \in Conn /\ Buffers(d) /\ Truth(d) /\ Marked(d) = mod[d] /\ Marked(d)' = mod'[d]
    BY <1>1, <1>2, <1>5 DEF TypeOK, Clients, Marked, NoTock
  <2>2. Buffers(d)'
    BY <1>2, <1>3, <1>5, <2>1 DEF Buffers
  <2>3. Truth(d)'
    BY <1>2, <1>3, <1>5, <2>1 DEF Truth, Counts, Served, Compared, Spoken, Fine
  <2> QED
    BY <2>2, <2>3
<1> QED
  BY <1>2, <1>4, <1>5 DEF DInv, Clients

LEMMA CamMoveStep == ASSUME DInv, TInv', NEW c \in Conn, CamMove(c) PROVE DInv'
<1> USE DEF captureVars, clientVars, browserVars, historyVars
<1>1. TypeOK /\ Known /\ Frames /\ Sending /\ Clients
  BY DEF DInv, TInv
<1>2. packet = NoTock /\ packet.tile = {}
  BY DEF CamMove, ServerMayRun, NoTock
<1>3. Frames' /\ Sending'
  BY <1>1, <1>2 DEF CamMove, Frames, Sending
<1>4. ASSUME NEW d \in clients PROVE Buffers(d)' /\ Truth(d)'
  <2>1. d \in Conn /\ Buffers(d) /\ Truth(d)
    BY <1>1, <1>4 DEF TypeOK, Clients
  <2>2. /\ mod'[d] = IF d = c THEN {} ELSE mod[d]
        /\ d # c => (d \in torn' <=> d \in torn) /\ (d \in unfilled' <=> d \in unfilled)
        /\ Marked(d) = mod[d] /\ Marked(d)' = mod'[d]
    BY <1>1, <1>2, <2>1 DEF CamMove, Resend, TypeOK, Marked
  <2>3. Buffers(d)'
    BY <2>1, <2>2 DEF CamMove, Buffers
  <2>4. Truth(d)'
    BY <2>1, <2>2 DEF CamMove, Truth, Counts, Served, Compared, Spoken, Fine
  <2> QED
    BY <2>3, <2>4
<1> QED
  BY <1>3, <1>4 DEF CamMove, DInv, Clients

LEMMA TockStarts == ASSUME DInv, TInv', NEW c \in Conn, tock(c) PROVE DInv'
<1> USE DEF sceneVars, captureVars, clientVars, historyVars
<1>1. TypeOK /\ Known /\ Frames /\ Sending /\ Clients
  BY DEF DInv, TInv
<1>2. packet.tile = {} /\ c \in captured \cup unfilled'
  BY DEF tock, ServerMayRun, NoTock
<1>3. /\ packet'.c = c /\ packet'.tile = {}
      /\ canvas_dims'[c] = dims
      /\ \A d \in Conn \ {c} : canvas_dims'[d] = canvas_dims[d] /\ canvas'[d] = canvas[d]
      /\ dims = canvas_dims[c] => canvas' = canvas
  BY <1>1 DEF tock, TypeOK
<1>4. Frames'
  BY <1>1, <1>2, <1>3 DEF tock, Frames
<1>5. Sending'
  BY <1>2, <1>3 DEF tock, Sending
<1>6. ASSUME NEW d \in clients PROVE Buffers(d)' /\ Truth(d)'
  <2>1. d \in Conn /\ Buffers(d) /\ Truth(d)
    BY <1>1, <1>6 DEF TypeOK, Clients
  <2>2. Buffers(d)'
    BY <2>1 DEF tock, Buffers
  <2>3. Marked(d) = mod[d] /\ Marked(d)' = mod[d] /\ unfilled \subseteq unfilled'
    BY <1>2, <1>3 DEF tock, Marked
  <2>4. Truth(d)'
    BY <1>3, <2>1, <2>3 DEF tock, Truth, Counts, Served, Compared, Spoken, Fine
  <2> QED
    BY <2>2, <2>4
<1> QED
  BY <1>4, <1>5, <1>6 DEF tock, DInv, Clients

LEMMA SendStep == ASSUME DInv, TInv', NEW t \in Tile, SendTile(t) PROVE DInv'
<1> USE DEF sceneVars, captureVars, clientVars, browserVars, historyVars
<1>1. TypeOK /\ Known /\ Frames /\ Sending /\ Clients
  BY DEF DInv, TInv
<1>2. packet # NoTock /\ packet.tile = {}
  BY DEF SendTile, NoTock
<1>3. /\ packet.c \in captured \cup unfilled /\ packet.c \in Conn /\ canvas_dims[packet.c] = dims
      /\ canvas \in [Conn -> [Tile -> Value \cup {Blank, Cleared}]]
  BY <1>1, <1>2 DEF Sending, TypeOK, Known
<1>4. /\ packet'.c = packet.c
      /\ \/ canvas' = canvas /\ packet'.tile = {}
         \/ /\ t \notin mod[packet.c] /\ packet'.tile = {t}
            /\ canvas' = [canvas EXCEPT ![packet.c][t] = own_sc[packet.c][t]]
  <2>1. packet \in Tock /\ packet.tile = {}
    BY <1>1 DEF TypeOK, SendTile
  <2>2. CASE t \in mod[packet.c]
    BY <2>1, <2>2 DEF SendTile, Tock
  <2>3. CASE t \notin mod[packet.c]
    BY <2>1, <2>3 DEF SendTile, Tock
  <2> QED
    BY <2>2, <2>3
<1>5. Frames'
  BY <1>1, <1>2 DEF SendTile, Frames
<1>6. Sending'
  BY <1>3, <1>4 DEF SendTile, Sending
<1>7. ASSUME NEW d \in clients PROVE Buffers(d)' /\ Truth(d)'
  <2>1. d \in Conn /\ Buffers(d) /\ Truth(d) /\ mod[d] \subseteq Tile
    BY <1>1, <1>7 DEF TypeOK, Clients
  <2>2. \A u \in mod[d] : canvas'[d][u] = canvas[d][u]
    BY <1>3, <1>4, <2>1
  <2>3. Buffers(d)'
    BY <2>1 DEF SendTile, Buffers
  <2>4. Marked(d) = mod[d] /\ Marked(d)' \subseteq mod[d] \cup {t}
    BY <1>2, <1>4 DEF SendTile, Marked
  <2>5. t \in Marked(d)' => t \in mod[d] \/ canvas'[d][t] = own_sc[d][t]
    BY <1>3, <1>4 DEF SendTile, Marked
  <2>6. Truth(d)'
    BY <2>1, <2>2, <2>4, <2>5 DEF SendTile, Truth, Counts, Served, Compared, Spoken, Fine
  <2> QED
    BY <2>3, <2>6
<1> QED
  BY <1>5, <1>6, <1>7 DEF SendTile, DInv, Clients

LEMMA MarkStep == ASSUME DInv, TInv', MarkTile \/ EndTock PROVE DInv'
<1> USE DEF sceneVars, captureVars, clientVars, browserVars, historyVars
<1>1. TypeOK /\ Known /\ Frames /\ Sending /\ Clients
  BY DEF DInv, TInv
<1>2. packet # NoTock
  BY DEF MarkTile, EndTock, NoTock
<1>3. CASE MarkTile
  <2>1. packet'.c = packet.c /\ packet'.tile = {}
    <3>1. packet \in Tock
      BY <1>1 DEF TypeOK
    <3> QED
      BY <1>3, <3>1 DEF MarkTile, Tock
  <2>2. Frames' /\ Sending'
    BY <1>1, <1>2, <1>3, <2>1 DEF MarkTile, Frames, Sending
  <2>3. ASSUME NEW d \in clients PROVE Buffers(d)' /\ Truth(d)'
    <3>1. d \in Conn /\ Buffers(d) /\ Truth(d)
      BY <1>1, <2>3 DEF TypeOK, Clients
    <3>2. mod'[d] = IF d = packet.c THEN mod[d] \cup packet.tile ELSE mod[d]
      BY <1>1, <1>3, <3>1 DEF MarkTile, TypeOK
    <3>3. Buffers(d)'
      BY <1>1, <1>2, <1>3, <3>1, <3>2 DEF MarkTile, Buffers, Sending
    <3>4. Marked(d)' = Marked(d) /\ (d = packet.c => canvas_dims[d] = dims)
      BY <1>1, <1>2, <2>1, <3>2 DEF Marked, Sending
    <3>5. Truth(d)'
      BY <1>3, <3>1, <3>2, <3>4 DEF MarkTile, Truth, Counts, Served, Compared, Spoken, Fine
    <3> QED
      BY <3>3, <3>5
  <2> QED
    BY <1>3, <2>2, <2>3 DEF MarkTile, DInv, Clients
<1>4. CASE EndTock
  <2>1. Frames' /\ Sending'
    BY <1>1, <1>2, <1>4 DEF EndTock, Frames, Sending
  <2>2. \A d \in Conn : Marked(d)' = Marked(d)
    BY <1>4, TileAssumption DEF EndTock, NoTock, Marked
  <2>3. ASSUME NEW d \in clients PROVE Buffers(d)' /\ Truth(d)'
    <3>1. d \in Conn /\ Buffers(d) /\ Truth(d)
      BY <1>1, <2>3 DEF TypeOK, Clients
    <3> QED
      BY <1>4, <2>2, <3>1
      DEF EndTock, Buffers, Truth, Counts, Served, Compared, Spoken, Fine
  <2> QED
    BY <1>4, <2>1, <2>3 DEF EndTock, DInv, Clients
<1> QED
  BY <1>3, <1>4

LEMMA DeltaStep == DInv /\ [Next]_vars => DInv'
<1> SUFFICES ASSUME DInv, [Next]_vars PROVE DInv'
  OBVIOUS
<1>1. TInv'
  BY TypeStep DEF DInv
<1>2. CASE Render \/ Resize
  BY <1>1, <1>2, GameStep
<1>3. CASE MainStep
  BY <1>1, <1>3, BeginStep, CopySharedStep, CompareSharedStep, EndSharedStep, CopyExtraStep,
     CompareExtraStep, EndTickStep DEF MainStep
<1>4. CASE \E c \in Conn : Join(c) \/ Leave(c) \/ CamMove(c) \/ refreshScreen(c) \/ tock(c)
  BY <1>1, <1>4, JoinStep, LeaveStep, CamMoveStep, ResendStep, TockStarts
<1>5. CASE \E n \in clients \cup {NoConn} : set_active(n)
  BY <1>1, <1>5, ResendStep
<1>6. CASE TockStep
  BY <1>1, <1>6, SendStep, MarkStep DEF TockStep
<1>7. CASE UNCHANGED vars
  <2> USE DEF vars, sceneVars, clientVars, captureVars, browserVars, historyVars
  <2>1. Frames' /\ Sending'
    BY <1>7 DEF DInv, Frames, Sending
  <2>2. Clients'
    BY <1>7 DEF DInv, Clients, Buffers, Truth, Counts, Served, Compared, Spoken, Marked, Fine
  <2> QED
    BY <1>1, <2>1, <2>2 DEF DInv
<1> QED
  BY <1>2, <1>3, <1>4, <1>5, <1>6, <1>7 DEF Next

--------------------------------------------------------------------------------

\* A tile that is marked as sent looks in the browser as it does in the client's
\* buffer, except for a client whose frame was compared inside a tile of a packet
\* or whose buffer was used before a frame was in it, until all is sent again
\* (webfort.cpp:458-499, 1223-1230, server.cpp:580-614).
THEOREM ModBytesAreTrue == Spec => []DeltaExact
<1>1. DInv => DeltaExact
  <2> SUFFICES ASSUME DInv, Settled, NEW c \in Conn \ (torn \cup unfilled), Served(c)
               PROVE  Exact(c)
    BY DEF DeltaExact
  <2>1. tick.at = "idle" /\ tick.c = NoConn /\ c # NoConn
    BY TileAssumption DEF Settled, Idle
  <2>2. Truth(c) /\ Counts(c)
    BY DEF DInv, Clients, Served, Counts, Settled
  <2> QED
    BY <2>1, <2>2 DEF Truth, Marked, Fine, Spoken, Exact
<1>2. DInv /\ [Next]_vars => DInv'
  BY DeltaStep
<1> QED
  BY <1>1, <1>2, DeltaInit, PTL DEF Spec
================================================================================
