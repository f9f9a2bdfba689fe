----------------------------- MODULE KeyMapProofs -----------------------------
(***************************************************************************)
(* Theorems about KeyMap, for every set of bytes a message may hold.       *)
(***************************************************************************)
EXTENDS KeyMap, SequenceTheorems, TLAPS

\* The flush makes an ESCAPE of nothing but K_ESCAPE.
LEMMA OnlyEscapeIsEscape ==
    \A sym, unicode : wf_to_sdl_keycode(sym, unicode) = SDLK_ESCAPE => sym = K_ESCAPE
<1> SUFFICES ASSUME NEW sym, NEW unicode, wf_to_sdl_keycode(sym, unicode) = 27
             PROVE  sym = 27
  BY DEF SDLK_ESCAPE, K_ESCAPE
<1>1. \A c \in Printable : Lower(c) # 27
  BY DEF Printable, Lower
<1>2. \A c \in DomKeys : SDLK(c) # 27
  BY DEF DomKeys, SDLK
<1> QED
  BY <1>1, <1>2 DEF wf_to_sdl_keycode

\* So whatever is sent, no message becomes an ESCAPE that on_message did not ask
\* is_safe_to_escape about: the keys that Webfort guards are all there are
\* (server.cpp:684-723, webfort.cpp:752-804).
THEOREM EscapesAreAskedAbout == Spec => []EscapeIsGated
<1>1. EscapeIsGated
  BY OnlyEscapeIsEscape DEF EscapeIsGated, NeedsSafeEscape
<1> QED
  BY <1>1, PTL

\* A letter on its way.
Letter == 65 .. 90 \cup 97 .. 122
Typed(c) == <<[type |-> "KEYDOWN", of |-> Lower(c)],
              [type |-> "TEXTINPUT", of |-> c],
              [type |-> "KEYUP", of |-> Lower(c)]>>

\* The letter goes to the camera; the letter goes to the game.
Moves == stroke.charCode \in DOMAIN CameraKey /\ ~(page.active /\ page.isInMenu)
Heard == page.active /\ ~Moves

\* Where a letter can be on its way.
KInv ==
    stroke # None /\ stroke.keyCode >= 65 =>
        LET c == stroke.charCode IN
        /\ c \in Letter /\ page \in [active : BOOLEAN, isInMenu : BOOLEAN]
        /\ \/ /\ Heard /\ wire = [op |-> "sendKey", code |-> 0, char |-> c]
              /\ queued = None /\ pushed = <<>> /\ moved = None
           \/ /\ Heard /\ wire = None /\ queued = [sym |-> c, unicode |-> c]
              /\ pushed = <<>> /\ moved = None
           \/ Heard /\ wire = None /\ queued = None /\ pushed = Typed(c) /\ moved = None
           \/ /\ Moves /\ wire = [op |-> "camMove", by |-> CameraKey[c]]
              /\ queued = None /\ pushed = <<>> /\ moved = None
           \/ /\ Moves /\ wire = None /\ queued = None /\ pushed = <<>>
              /\ moved = CameraKey[c]
           \/ /\ ~Heard /\ ~Moves /\ wire = None /\ queued = None
              /\ pushed = <<>> /\ moved = None

LEMMA KInvInit == Init => KInv
<1> SUFFICES ASSUME Init, stroke # None, stroke.keyCode >= 65
             PROVE  KInv
  BY DEF KInv
<1>1. /\ stroke \in Stroke /\ wire = KeyMessage(stroke, page)
      /\ page \in [active : BOOLEAN, isInMenu : BOOLEAN]
      /\ queued = None /\ pushed = <<>> /\ moved = None
  BY DEF Init
<1>2. stroke.keyCode \in Nat /\ ~(stroke.keyCode < 65) /\ stroke.charCode \in Letter
  <2>1. stroke \in Stroke
    BY <1>1
  <2> QED
    BY <2>1 DEF Stroke, Letter
<1>3. routeToCamera(stroke, page) <=> Moves
  BY <1>1 DEF routeToCamera, Moves
<1>4. Moves \/ Heard \/ (~Heard /\ ~Moves)
  OBVIOUS
<1>5. Moves => wire = [op |-> "camMove", by |-> CameraKey[stroke.charCode]]
  BY <1>1, <1>3 DEF KeyMessage
<1>6. Heard => wire = [op |-> "sendKey", code |-> 0, char |-> stroke.charCode]
  BY <1>1, <1>2, <1>3 DEF KeyMessage, Heard
<1>7. ~Heard /\ ~Moves => wire = None
  BY <1>1, <1>3 DEF KeyMessage, Heard
<1> HIDE DEF Heard, Moves
<1> QED
  BY <1>1, <1>2, <1>4, <1>5, <1>6, <1>7 DEF KInv

\* What is none is nothing else.
LEMMA NoneIsNone ==
    /\ \A o, c, d : [op |-> o, code |-> c, char |-> d] # None
    /\ \A o, c : [op |-> o, by |-> c] # None
    /\ \A c, d : [sym |-> c, unicode |-> d] # None
    /\ \A k \in DOMAIN CameraKey : CameraKey[k] # None
  BY DEF None, CameraKey

\* Three events one after another.
LEMMA ThreeEvents ==
    ASSUME NEW d, NEW t, NEW u
    PROVE  (<<d>> \o <<t>>) \o <<u>> = <<d, t, u>>
<1> DEFINE E == {d, t, u}
           p == <<d>> \o <<t>>
           q == p \o <<u>>
           r == <<d, t, u>>
<1>1. /\ <<d>> \in Seq(E) /\ Len(<<d>>) = 1 /\ <<d>>[1] = d
      /\ <<t>> \in Seq(E) /\ Len(<<t>>) = 1 /\ <<t>>[1] = t
      /\ <<u>> \in Seq(E) /\ Len(<<u>>) = 1 /\ <<u>>[1] = u
  OBVIOUS
<1>2. p \in Seq(E) /\ Len(p) = 2 /\ p[1] = d /\ p[2] = t
  <2>1. /\ p \in Seq(E) /\ Len(p) = 1 + 1
        /\ \A i \in 1 .. 1 + 1 : p[i] = IF i <= 1 THEN <<d>>[i] ELSE <<t>>[i - 1]
    BY <1>1, ConcatProperties
  <2> QED
    BY <1>1, <2>1
<1>3. q \in Seq(E) /\ Len(q) = 3 /\ q[1] = d /\ q[2] = t /\ q[3] = u
  <2> HIDE DEF p
  <2>1. /\ q \in Seq(E) /\ Len(q) = 2 + 1
        /\ \A i \in 1 .. 2 + 1 : q[i] = IF i <= 2 THEN p[i] ELSE <<u>>[i - 2]
    BY <1>1, <1>2, ConcatProperties
  <2> QED
    BY <1>1, <1>2, <2>1
<1>4. r \in Seq(E) /\ Len(r) = 3 /\ r[1] = d /\ r[2] = t /\ r[3] = u
  OBVIOUS
<1>5. q = r
  <2> HIDE DEF q, r, E
  <2>1. \A i \in 1 .. Len(q) : q[i] = r[i]
    BY <1>3, <1>4
  <2> QED
    BY <1>3, <1>4, <2>1, SeqEqual
<1> QED
  BY <1>5

\* A letter keeps its code, and is told apart from its case only by the text.
LEMMA LetterIsPushed ==
    ASSUME NEW c \in Letter
    PROVE  /\ wf_to_sdl_keycode(c, c) = Lower(c) /\ Lower(c) # 0
           /\ wf_push_sdl_key(Lower(c), c) = Typed(c)
<1>1. c \in Printable /\ Lower(c) # 0
  BY DEF Letter, Printable, Lower
<1> DEFINE d == [type |-> "KEYDOWN", of |-> Lower(c)]
           t == [type |-> "TEXTINPUT", of |-> c]
           u == [type |-> "KEYUP", of |-> Lower(c)]
<1>2. wf_push_sdl_key(Lower(c), c) = (<<d>> \o <<t>>) \o <<u>>
  BY <1>1 DEF wf_push_sdl_key
<1> HIDE DEF d, t, u
<1>3. (<<d>> \o <<t>>) \o <<u>> = <<d, t, u>>
  BY ThreeEvents
<1> QED
  BY <1>1, <1>2, <1>3 DEF wf_to_sdl_keycode, Typed, d, t, u

LEMMA KInvStep == KInv /\ [Next]_vars => KInv'
<1> SUFFICES ASSUME KInv, [Next]_vars, stroke' # None, stroke'.keyCode >= 65
             PROVE  KInv'
  BY DEF KInv
<1> USE NoneIsNone
<1> DEFINE c == stroke.charCode
<1>1. UNCHANGED <<stroke, page>>
  BY DEF Next, on_message_key, on_message_camMove, wf_flush_key, vars
<1>2. (Heard <=> Heard') /\ (Moves <=> Moves')
  BY <1>1 DEF Heard, Moves
<1>3. ASSUME NEW safe \in BOOLEAN, on_message_key(safe) PROVE KInv'
  <2>1. Heard /\ wire = [op |-> "sendKey", code |-> 0, char |-> c] /\ c \in Letter
        /\ queued = None /\ pushed = <<>> /\ moved = None
        /\ page \in [active : BOOLEAN, isInMenu : BOOLEAN]
    BY <1>1, <1>3 DEF KInv, on_message_key
  <2>2. KeyOf(wire) = c /\ wire.char = c /\ c # K_UNKNOWN /\ c # K_ESCAPE
    <3>1. c \in Letter /\ wire.char = c
      BY <2>1
    <3> HIDE DEF c
    <3>2. c # 0 /\ c # 27
      BY ONLY <3>1 DEF Letter
    <3> QED
      BY <3>1, <3>2 DEF KeyOf, K_UNKNOWN, K_ESCAPE
  <2>3. wire' = None /\ queued' = [sym |-> c, unicode |-> c]
        /\ UNCHANGED <<pushed, moved>>
    BY <1>3, <2>2 DEF on_message_key, NeedsSafeEscape
  <2> QED
    BY <1>1, <1>2, <2>1, <2>3 DEF KInv
<1>4. ASSUME on_message_camMove PROVE KInv'
  <2>1. Moves /\ wire = [op |-> "camMove", by |-> CameraKey[c]] /\ c \in Letter
        /\ queued = None /\ pushed = <<>>
        /\ page \in [active : BOOLEAN, isInMenu : BOOLEAN]
    BY <1>1, <1>4 DEF KInv, on_message_camMove
  <2>2. wire' = None /\ moved' = CameraKey[c] /\ UNCHANGED <<queued, pushed>>
    BY <1>4, <2>1 DEF on_message_camMove
  <2> QED
    BY <1>1, <1>2, <2>1, <2>2 DEF KInv
<1>5. ASSUME wf_flush_key PROVE KInv'
  <2>1. Heard /\ queued = [sym |-> c, unicode |-> c] /\ c \in Letter
        /\ wire = None /\ moved = None
        /\ page \in [active : BOOLEAN, isInMenu : BOOLEAN]
    BY <1>1, <1>5 DEF KInv, wf_flush_key
  <2>2. pushed' = Typed(c) /\ queued' = None /\ UNCHANGED <<wire, moved>>
    BY <1>5, <2>1, LetterIsPushed DEF wf_flush_key
  <2> QED
    BY <1>1, <1>2, <2>1, <2>2 DEF KInv
<1>6. CASE UNCHANGED vars
  BY <1>1, <1>2, <1>6 DEF KInv, vars
<1> QED
  BY <1>3, <1>4, <1>5, <1>6 DEF Next

\* A letter the player types is pressed as that letter and, in text fields, arrives
\* as that very character; w, a, s and d move the camera instead while no menu is
\* open or another plays (webfort.js:596-648, webfort.cpp:752-840).
THEOREM LettersDoArrive == Spec => []LettersArrive
<1>1. KInv => LettersArrive
  <2> SUFFICES ASSUME KInv, stroke # None, stroke.keyCode >= 65, wire = None,
                      queued = None
               PROVE  /\ pushed = IF Heard THEN Typed(stroke.charCode) ELSE <<>>
                      /\ (moved # None) = Moves
    BY DEF LettersArrive, Heard, Moves, Typed
  <2>1. Moves => stroke.charCode \in DOMAIN CameraKey /\ ~Heard
    BY DEF Moves, Heard
  <2>2. Moves \in BOOLEAN /\ Heard \in BOOLEAN
    BY DEF Moves, Heard
  <2> HIDE DEF Moves, Heard
  <2>3. Heard => ~Moves
    BY DEF Heard
  <2> QED
    BY <2>1, <2>2, <2>3, NoneIsNone DEF KInv
<1> QED
  BY <1>1, KInvInit, KInvStep, PTL DEF Spec
================================================================================
