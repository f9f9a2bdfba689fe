------------------------------ MODULE InputBridge ------------------------------
(***************************************************************************)
(* The two mutex-protected queues between the websocket thread and the DF  *)
(* main thread, DF's own SDL event queue behind them, and as much of DF as *)
(* the server looks at: whether it is paused, and which screen it shows.   *)
(* The websocket thread appends (simkey, simmouse); plugin_onupdate takes  *)
(* everything that is queued, keys first, then mouse; DF handles the SDL   *)
(* events between two updates.  The queues are unbounded in the code;      *)
(* MaxKeys and MaxMouse bound what players queue here.                     *)
(***************************************************************************)
EXTENDS Naturals, Sequences

CONSTANTS
    Sender,      \* who can press a key: connections, and the server itself
    MaxKeys,
    MaxMouse

VARIABLES
    keyQ,     \* g_wf_input_queue
    mouseQ,   \* g_wf_mouse_queue, by sender
    sdlQ,     \* the SDL events pushed and not yet handled by DF
    flush,    \* which queue the main thread drains next
    paused,   \* *df::global::pause_state
    screen    \* what is_safe_to_escape can tell apart

bridgeVars == <<keyQ, mouseQ, sdlQ, flush, paused, screen>>

\* Every other key that is translated behaves like "OTHER".  Modifiers travel
\* in the same queue entry and are left out.
Key == {"SPACE", "ESC", "OTHER"}
WFKeyEvent == [from : Sender, key : Key]

\* "idle": dwarf mode with no sidebar; "panel": a sidebar, list or dialog;
\* "menu": the main menu that ESC opens, with options and abandon.  The same
\* menu is "options" in adventurer mode, whose other screens are "dungeon".
Screen == {"idle", "panel", "menu", "dungeon", "options"}

BridgeTypeOK ==
    /\ keyQ \in Seq(WFKeyEvent)
    /\ mouseQ \in Seq(Sender)
    /\ sdlQ \in Seq(WFKeyEvent)
    /\ flush \in {"keys", "mouse"}
    /\ paused \in BOOLEAN
    /\ screen \in Screen

BridgeInit ==
    /\ keyQ = <<>> /\ mouseQ = <<>> /\ sdlQ = <<>>
    /\ flush = "keys"
    /\ paused = FALSE
    /\ screen \in {"idle", "dungeon"}

KeyRoom == Len(keyQ) + Len(sdlQ) < MaxKeys
MouseRoom == Len(mouseQ) < MaxMouse

--------------------------------------------------------------------------------
(* The websocket thread *)

\* Slips, here and below: a bug the code might have had in the definition that
\* follows, used only to test the properties.
is_safe_to_escape_Always == TRUE

\* Of adventurer mode it knows nothing: whatever is not dwarf mode is safe.
is_safe_to_escape == screen # "idle"

simkey(s, k) ==
    /\ keyQ' = Append(keyQ, [from |-> s, key |-> k])
    /\ UNCHANGED <<mouseQ, sdlQ, flush, paused, screen>>

simmouse(s) ==
    /\ mouseQ' = Append(mouseQ, s)
    /\ UNCHANGED <<keyQ, sdlQ, flush, paused, screen>>

--------------------------------------------------------------------------------
(* The main thread *)

wf_flush_input_queue ==
    /\ flush = "keys"
    /\ flush' = "mouse"
    /\ keyQ' = <<>>
    /\ sdlQ' = sdlQ \o keyQ
    /\ UNCHANGED <<mouseQ, paused, screen>>

\* Where clicks lead (external): the menus also leave the game for another one.
Clicked(s) ==
    CASE s \in {"idle", "panel"}   -> {"idle", "panel"}
      [] s = "dungeon"             -> {"dungeon"}
      [] s \in {"menu", "options"} -> Screen

\* Mouse events are fed to the viewscreen at once, with no event queue
\* between: clicks can press any button of the screen DF is showing.
wf_flush_mouse_queue ==
    /\ flush = "mouse"
    /\ flush' = "keys"
    /\ mouseQ' = <<>>
    /\ \/ UNCHANGED <<paused, screen>>
       \/ /\ mouseQ # <<>>
          /\ paused' \in BOOLEAN
          /\ screen' \in Clicked(screen)
    /\ UNCHANGED <<keyQ, sdlQ>>

\* What DF does with a key (external): SPACE pauses and resumes, except while
\* a text field or the menu has the keyboard; ESC closes what is open, and
\* opens the menu when nothing is; other keys open and close panels.
Escaped(s) ==
    CASE s = "idle"               -> {"menu"}
      [] s \in {"panel", "menu"}  -> {"idle"}
      [] s = "dungeon"            -> {"dungeon", "options"}
      [] s = "options"            -> {"dungeon"}

React(k, p, s) ==
    {r \in BOOLEAN \X Screen :
        /\ k = "SPACE" => /\ r[2] = s
                          /\ s = "idle" => r[1] = ~p
                          /\ s \in {"menu", "options"} => r[1] = p
        /\ k = "ESC"   => r[1] = p /\ r[2] \in Escaped(s)
        /\ k = "OTHER" => /\ r[1] = p
                          /\ r[2] \in IF s \in {"idle", "panel"} THEN {"idle", "panel"} ELSE {s}}

DFEvent ==
    /\ sdlQ # <<>>
    /\ sdlQ' = Tail(sdlQ)
    /\ \E r \in React(Head(sdlQ).key, paused, screen) :
          paused' = r[1] /\ screen' = r[2]
    /\ UNCHANGED <<keyQ, mouseQ, flush>>

MainThread ==
    \/ wf_flush_input_queue
    \/ wf_flush_mouse_queue
    \/ DFEvent
================================================================================
