-------------------------------- MODULE KeyMap --------------------------------
(***************************************************************************)
(* One key press on its way from a browser to DF: the browser turns it     *)
(* into a message (keyCode, charCode), on_message into an entry of the     *)
(* input queue, and the flush into SDL events.  Each of the three uses its *)
(* own vocabulary of key codes; the properties relate them.                *)
(***************************************************************************)
EXTENDS Integers, Sequences

CONSTANT Byte    \* the values a byte of the message takes

ASSUME ByteAssumption == Byte \subseteq 0 .. 255

VARIABLES
    stroke,   \* the key the player pressed, or none if the message is raw
    page,     \* what the page knows from the last update: active, isInMenu
    wire,     \* the message on its way, or none
    queued,   \* the entry of g_wf_input_queue, or none
    pushed,   \* the SDL events DF gets
    moved     \* the camera move the server takes, or none

vars == <<stroke, page, wire, queued, pushed, moved>>

None == [none |-> TRUE]

Printable == 32 .. 126
Lower(c) == IF c \in 65 .. 90 THEN c + 32 ELSE c

\* SDL::Key as in input.hpp.
K_UNKNOWN == 0
K_ESCAPE == 27

--------------------------------------------------------------------------------
(* The browser *)

\* w, a, s and d of either case, and where they move the camera.
CameraKey == [k \in {119, 87, 115, 83, 97, 65, 100, 68} |->
    [dx |-> IF k \in {97, 65} THEN -10 ELSE IF k \in {100, 68} THEN 10 ELSE 0,
     dy |-> IF k \in {119, 87} THEN -10 ELSE IF k \in {115, 83} THEN 10 ELSE 0]]

\* A slip in the definition that follows: who plays always means the game.
routeToCamera_SpectatorsOnly(k, p) ==
    k.keyCode >= 65 /\ k.charCode \in DOMAIN CameraKey /\ ~p.active

routeToCamera(k, p) ==
    k.keyCode >= 65 /\ k.charCode \in DOMAIN CameraKey /\ (~p.active \/ ~p.isInMenu)

\* onkeydown takes the keys below 65, digits and punctuation among them, and
\* prevents the keypress; the others arrive as characters by onkeypress.  Both
\* keep to themselves what a page that is not playing has no use for.
KeyMessage(k, p) ==
    IF routeToCamera(k, p) THEN [op |-> "camMove", by |-> CameraKey[k.charCode]]
    ELSE IF ~p.active THEN None
    ELSE IF k.keyCode < 65 THEN [op |-> "sendKey", code |-> k.keyCode, char |-> 0]
    ELSE [op |-> "sendKey", code |-> 0, char |-> k.charCode]

\* The DOM key codes of a US keyboard (external): digits, SPACE and letters
\* type a character; the rest below 65 are editing and cursor keys.
Stroke ==
    [keyCode : {8, 9, 13, 27} \cup 33 .. 40 \cup {45, 46}, charCode : {0}]
      \cup {[keyCode |-> c, charCode |-> c] : c \in {32} \cup 48 .. 57}
      \cup {[keyCode |-> c, charCode |-> c + s] : c \in 65 .. 90, s \in {0, 32}}

--------------------------------------------------------------------------------
(* The websocket thread *)

mapInputCodeToSDL(code) ==
    CASE code \in 96 .. 105 -> 256 + (code - 96)       \* K_KP0 ..
      [] code \in 112 .. 123 -> 282 + (code - 112)     \* K_F1 ..
      [] code = 111 -> 267
      [] code = 106 -> 268
      [] code = 109 -> 269
      [] code = 107 -> 270
      [] code = 144 -> 294
      [] code = 38 -> 273                              \* K_UP
      [] code = 40 -> 274
      [] code = 39 -> 275
      [] code = 37 -> 276
      [] code = 36 -> 278                              \* K_HOME
      [] code = 35 -> 279
      [] code = 33 -> 280
      [] code = 34 -> 281
      [] code = 46 -> 127                              \* K_DELETE
      [] code = 188 -> 60
      [] code = 190 -> 62
      [] OTHER -> IF code <= 177 THEN code ELSE K_UNKNOWN

KeyOf(m) == IF m.char # 0 THEN m.char ELSE mapInputCodeToSDL(m.code)

\* A slip in the definition that follows: the check looks at the code byte only.
NeedsSafeEscape_CodeOnly(m) == mapInputCodeToSDL(m.code) = K_ESCAPE /\ m.char = 0

\* Whether on_message asks is_safe_to_escape about this message.
NeedsSafeEscape(m) == KeyOf(m) = K_ESCAPE

\* safe: what is_safe_to_escape answers.  simkey drops unknown keys; no key
\* of this table is one of the modifiers it drops as well.  The sender is the
\* driver; what others send is dropped (Webfort).
on_message_key(safe) ==
    /\ wire # None /\ wire.op = "sendKey"
    /\ queued' = IF KeyOf(wire) # K_UNKNOWN /\ (NeedsSafeEscape(wire) => safe)
                   THEN [sym |-> KeyOf(wire), unicode |-> wire.char]
                   ELSE None
    /\ wire' = None
    /\ UNCHANGED <<stroke, page, pushed, moved>>

\* Taken from any client; what it does to the camera is in Viewport.
on_message_camMove ==
    /\ wire # None /\ wire.op = "camMove"
    /\ moved' = wire.by
    /\ wire' = None
    /\ UNCHANGED <<stroke, page, queued, pushed>>

--------------------------------------------------------------------------------
(* The main thread *)

\* SDL_Keycodes: a character key is its ASCII code, as are BACKSPACE, TAB,
\* RETURN and ESCAPE; the cursor, editing and function keys lie far above, here
\* at 1000 plus their DOM key code.
SDLK(dom) == 1000 + dom
DomKeys == 33 .. 40 \cup {45, 46} \cup 112 .. 123
SDLK_ESCAPE == 27

wf_to_sdl_keycode(sym, unicode) ==
    IF unicode \in Printable THEN Lower(unicode)
    ELSE IF sym \in {8, 9, 13, 27} THEN sym
    ELSE IF sym \in DomKeys THEN SDLK(sym)
    ELSE IF sym \in Printable THEN Lower(sym)
    ELSE 0

\* The key events of one key, and the text a text field gets.
wf_push_sdl_key(k, unicode) ==
    <<[type |-> "KEYDOWN", of |-> k]>>
      \o (IF unicode \in Printable THEN <<[type |-> "TEXTINPUT", of |-> unicode]>>
                                   ELSE <<>>)
      \o <<[type |-> "KEYUP", of |-> k]>>

wf_flush_key ==
    /\ queued # None
    /\ LET k == wf_to_sdl_keycode(queued.sym, queued.unicode)
       IN  pushed' = IF k = 0 THEN <<>> ELSE wf_push_sdl_key(k, queued.unicode)
    /\ queued' = None
    /\ UNCHANGED <<stroke, page, wire, moved>>

--------------------------------------------------------------------------------
Init ==
    /\ page \in [active : BOOLEAN, isInMenu : BOOLEAN]
    /\ \/ \E k \in Stroke : stroke = k /\ wire = KeyMessage(k, page)
       \/ stroke = None /\ wire \in [op : {"sendKey"}, code : Byte, char : Byte]
    /\ queued = None
    /\ pushed = <<>>
    /\ moved = None

Next ==
    \/ \E safe \in BOOLEAN : on_message_key(safe)
    \/ on_message_camMove
    \/ wf_flush_key

\* The whole way of the message of the initial state, as one question.
Spec == Init /\ [][Next]_vars

--------------------------------------------------------------------------------
(* Properties *)

\* Whatever bytes a client sends, ESC reaches DF only if is_safe_to_escape was
\* asked: no message is an ESC to the flush that was not one to the check.
EscapeIsGated ==
    wire # None /\ wire.op = "sendKey" =>
        (wf_to_sdl_keycode(KeyOf(wire), wire.char) = SDLK_ESCAPE
            => NeedsSafeEscape(wire))

\* A letter typed while playing arrives as that key and, in text fields, as
\* that very character, upper or lower case.  Two kinds do not arrive, and the
\* page is to know which: w, a, s and d move the camera while no menu is open,
\* or while another plays; any other letter of who does not play goes nowhere.
LettersArrive ==
    stroke # None /\ stroke.keyCode >= 65 /\ wire = None /\ queued = None =>
        LET moves == stroke.charCode \in DOMAIN CameraKey
                       /\ ~(page.active /\ page.isInMenu)
        IN  /\ pushed = IF page.active /\ ~moves
                          THEN <<[type |-> "KEYDOWN", of |-> Lower(stroke.charCode)],
                                 [type |-> "TEXTINPUT", of |-> stroke.charCode],
                                 [type |-> "KEYUP", of |-> Lower(stroke.charCode)]>>
                          ELSE <<>>
            /\ (moved # None) = moves
================================================================================
