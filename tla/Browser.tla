-------------------------------- MODULE Browser --------------------------------
(***************************************************************************)
(* A page and the server: the request loop, the status line with what a    *)
(* click on it does, and reconnection.  webfort.js keeps one global        *)
(* websocket; every update that arrives asks for the next one, at once or  *)
(* by a timer that sends on whatever the global socket is by then; a       *)
(* request for a turn says only "toggle".  The other players, and when     *)
(* turns expire, are left open: Session says what they may do.  Tiles,     *)
(* cameras and the atlas are in modules of their own, cursors (opcodes 112 *)
(* and 114) and the map's size (118) are read and answered by nobody.      *)
(***************************************************************************)
EXTENDS Naturals, FiniteSets, Sequences

CONSTANTS
    MaxConnects,   \* bound on the sockets the page makes
    MaxClicks      \* bound on requests for a turn under way

ASSUME BrowserAssumption == MaxConnects \in Nat \ {0} /\ MaxClicks \in Nat

VARIABLES
    made,      \* the sockets made so far; the last is the global websocket
    ready,     \* its state; "lost": gone, but its close event not yet handled
    link,      \* the server's side of it
    requests,  \* messages to the server on it
    updates,   \* answers to the page on it
    timers,    \* frame timers to come that an update of this socket has set
    orphans,   \* those that updates of earlier sockets have set
    status,    \* what the status line says
    onclick,   \* what a click on it does
    turn,      \* active_conn: nobody, this socket, any other connection, or one
               \* whose nick does not survive the header's 8-bit length
    fresh,     \* the turn has not changed since the shown status was sent (history)
    choked,    \* a message of this socket threw (history)
    strays     \* loops of this socket that a timer of an earlier one began (history)

page == <<made, ready, timers, orphans, status, onclick>>
channels == <<requests, updates>>
history == <<fresh, choked, strays>>
vars == <<page, channels, link, turn, history>>

\* What an update says of the turn, and what the page then shows.
Shown == [nobody |-> "nobody", page |-> "driving", other |-> "watching"]

\* What a request for a turn was meant to do, and whether it still can, the
\* server is not told; the other messages have nothing of the kind.
Request == [kind : {"connect", "update", "turn"},
            meant : {"nothing", "take", "end"}, fresh : BOOLEAN]
Turn == DOMAIN Shown \cup {"garbled"}
Update == [turn : Turn, fresh : BOOLEAN]

Say(k) == [kind |-> k, meant |-> "nothing", fresh |-> FALSE]
OfKind(seq, k) == {i \in DOMAIN seq : seq[i].kind = k}
Sent(k) == Cardinality(OfKind(requests, k))

\* Every message to or from the page that is based on the present turn is out
\* of date once the turn changes.
Outdated(seq) == [i \in DOMAIN seq |-> [seq[i] EXCEPT !.fresh = FALSE]]

Init ==
    /\ made = 1 /\ ready = "connecting" /\ link = "none"
    /\ requests = <<>> /\ updates = <<>>
    /\ timers = 0 /\ orphans = 0
    /\ status = "connecting" /\ onclick = "nothing"
    /\ turn \in Turn \ {"page"}
    /\ fresh = FALSE /\ choked = FALSE /\ strays = 0

--------------------------------------------------------------------------------
(* The page *)

\* Slips, here and below: a bug the code might have had in the definition that
\* follows, used only to test the properties.
setStatus_KeepsHandler(s, handler) ==
    /\ status' = s
    /\ onclick' = IF handler = "nothing" THEN onclick ELSE handler

setStatus(s, handler) ==
    /\ status' = s
    /\ onclick' = handler

\* Messages sent on a socket that is gone are dropped.
Send(m) == requests' = IF ready = "open" THEN Append(requests, m) ELSE requests

\* A new global websocket, on which the timers of the last one will send as well.
\* To the server the turn of an earlier one belongs to another connection.
connect ==
    /\ onclick = "connect"
    /\ made < MaxConnects
    /\ made' = made + 1
    /\ ready' = "connecting"
    /\ link' = "none"
    /\ requests' = <<>> /\ updates' = <<>>
    /\ setStatus("connecting", "nothing")
    /\ turn' = IF turn = "page" THEN "other" ELSE turn
    /\ fresh' = FALSE /\ choked' = FALSE /\ strays' = 0
    /\ timers' = 0 /\ orphans' = orphans + timers

onOpen ==
    /\ ready = "connecting"
    /\ ready' = "open"
    /\ setStatus("initializing", "nothing")
    /\ requests' = <<Say("connect"), Say("update")>>
    /\ UNCHANGED <<made, timers, orphans, updates, link, turn, history>>

\* What had arrived is handled first.
onClose ==
    /\ ready = "lost" /\ updates = <<>>
    /\ ready' = "closed"
    /\ setStatus("broken", "connect")
    /\ UNCHANGED <<made, timers, orphans, channels, link, turn, history>>

\* The status line says "end your turn" to the driver and "ask for a turn" when
\* nobody plays; the message is the same.
requestTurn ==
    /\ onclick = "requestTurn"
    /\ Sent("turn") < MaxClicks
    /\ Send([kind |-> "turn",
             meant |-> IF status = "driving" THEN "end" ELSE "take",
             fresh |-> fresh])
    /\ UNCHANGED <<page, updates, link, turn, history>>

renderQueueStatus(t) ==
    setStatus(Shown[t], IF t = "other" THEN "nothing" ELSE "requestTurn")

\* nextFrame < 4: this update came late enough for the next to be asked for.
AskNow == Send(Say("update")) /\ UNCHANGED timers

AskLater == timers' = timers + 1 /\ UNCHANGED requests

AskNext_NoTimer == AskNow \/ UNCHANGED <<requests, timers>>

AskNext == AskNow \/ AskLater

onMessage ==
    /\ updates # <<>>
    /\ Head(updates).turn # "garbled"
    /\ updates' = Tail(updates)
    /\ renderQueueStatus(Head(updates).turn)
    /\ fresh' = Head(updates).fresh
    /\ AskNext
    /\ UNCHANGED <<made, ready, orphans, link, turn, choked, strays>>

\* A nick that is cut in the middle of an escape sequence: decodeURIComponent
\* throws before the status is shown and the next update asked for.
onMessageThrows ==
    /\ updates # <<>>
    /\ Head(updates).turn = "garbled"
    /\ updates' = Tail(updates)
    /\ choked' = TRUE
    /\ UNCHANGED <<page, requests, link, turn, fresh, strays>>

\* When the time of a frame is over.
frameTimer ==
    /\ timers > 0
    /\ timers' = timers - 1
    /\ Send(Say("update"))
    /\ UNCHANGED <<made, ready, orphans, status, onclick, updates, link, turn, history>>

\* The same, after its socket was replaced: on one that is still connecting, send
\* throws and the timer is gone; on one that is open a second loop begins.
orphanTimer ==
    /\ orphans > 0
    /\ orphans' = orphans - 1
    /\ Send(Say("update"))
    /\ strays' = IF ready = "open" THEN strays + 1 ELSE strays
    /\ UNCHANGED <<made, ready, timers, status, onclick, updates, link, turn, fresh, choked>>

Page == onOpen \/ onClose \/ onMessage \/ onMessageThrows \/ frameTimer \/ orphanTimer

--------------------------------------------------------------------------------
(* The network and the server *)

\* The connection ends: what is under way to the page is lost from some message
\* on.
Lose ==
    /\ ready \in {"connecting", "open"}
    /\ ready' = "lost"
    /\ \E n \in 0..Len(updates) : updates' = SubSeq(updates, 1, n)
    /\ UNCHANGED <<made, timers, orphans, status, onclick, requests, link, turn, history>>

\* The server takes the page in or, full or not liking the nick, closes.
on_open ==
    /\ link = "none" /\ ready \in {"connecting", "open"}
    /\ link' \in {"open", "closing"}
    /\ UNCHANGED <<page, channels, turn, history>>

\* Sets the turn: everything said before about another turn is out of date.
set_active(t) ==
    /\ turn' = t
    /\ fresh' = (fresh /\ t = turn)

\* What is under way, in view of the next turn.
Rest(seq) == IF turn' = turn THEN seq ELSE Outdated(seq)

on_close ==
    /\ link \in {"open", "closing"}
    /\ ready \in {"lost", "closed"}
    /\ link' = "closed"
    /\ requests' = <<>>
    /\ set_active(IF turn = "page" THEN "nobody" ELSE turn)
    /\ updates' = Rest(updates)
    /\ UNCHANGED <<page, choked, strays>>

\* Messages are dispatched in order, and only to an open connection.
Serving(k) == link = "open" /\ requests # <<>> /\ Head(requests).kind = k

\* An answer is lost when the page has gone.
Answer(seq) ==
    IF ready = "open" THEN Append(seq, [turn |-> turn', fresh |-> TRUE]) ELSE seq

refreshScreen_Answers ==
    /\ Serving("connect")
    /\ UNCHANGED turn
    /\ requests' = Tail(requests)
    /\ updates' = Answer(updates)
    /\ UNCHANGED <<page, link, history>>

\* Opcode 115 clears the mod bytes and answers nothing.
refreshScreen ==
    /\ Serving("connect")
    /\ requests' = Tail(requests)
    /\ UNCHANGED <<page, updates, link, turn, history>>

\* A slip: the bits are set before the expired turn is ended.
tock_EarlyBits ==
    /\ Serving("update")
    /\ \/ UNCHANGED <<turn, fresh>>
       \/ turn # "nobody" /\ set_active("nobody")
    /\ requests' = Rest(Tail(requests))
    /\ updates' = IF ready = "open"
                    THEN Append(Rest(updates), [turn |-> turn, fresh |-> TRUE])
                    ELSE Rest(updates)
    /\ UNCHANGED <<page, link, choked, strays>>

\* Opcode 110, which ends a turn that has run out before it answers.
tock ==
    /\ Serving("update")
    /\ \/ UNCHANGED <<turn, fresh>>
       \/ turn # "nobody" /\ set_active("nobody")
    /\ requests' = Rest(Tail(requests))
    /\ updates' = Answer(Rest(updates))
    /\ UNCHANGED <<page, link, choked, strays>>

\* Opcode 116
Toggled == IF turn = "page" THEN "nobody" ELSE IF turn = "nobody" THEN "page" ELSE turn

handleTurn ==
    /\ Serving("turn")
    /\ set_active(Toggled)
    /\ requests' = Rest(Tail(requests))
    /\ updates' = Rest(updates)
    /\ UNCHANGED <<page, link, choked, strays>>

\* Another player takes, keeps or ends a turn, or runs into the end of the
\* page's: any other step of Session that changes active_conn.
Others ==
    /\ \E t \in {"nobody", "other", "garbled"} :
          /\ (turn = "nobody") # (t = "nobody")
          /\ set_active(t)
    /\ requests' = Outdated(requests)
    /\ updates' = Outdated(updates)
    /\ UNCHANGED <<page, link, choked, strays>>

on_message == refreshScreen \/ tock \/ handleTurn

Next ==
    \/ connect \/ requestTurn \/ Page
    \/ Lose
    \/ on_open \/ on_close \/ on_message
    \/ Others

Spec == Init /\ [][Next]_vars

\* The browser runs its events and timers, the server its handlers, and a close
\* frame arrives.  Nobody has to click, and no connection has to break.
FairSpec ==
    /\ Spec
    /\ WF_vars(onOpen) /\ WF_vars(onClose) /\ WF_vars(onMessage \/ onMessageThrows)
    /\ WF_vars(frameTimer) /\ WF_vars(orphanTimer)
    /\ WF_vars(on_open) /\ WF_vars(on_message)
    /\ WF_vars(link = "closing" /\ Lose)

--------------------------------------------------------------------------------
(* Properties *)

\* Every variable has its type.
TypeOK ==
    /\ made \in 1..MaxConnects
    /\ ready \in {"connecting", "open", "lost", "closed"}
    /\ link \in {"none", "open", "closing", "closed"}
    /\ requests \in Seq(Request)
    /\ updates \in Seq(Update)
    /\ timers \in Nat /\ orphans \in Nat
    /\ status \in {"connecting", "initializing", "broken", "driving", "nobody", "watching"}
    /\ onclick \in {"nothing", "connect", "requestTurn"}
    /\ turn \in Turn
    /\ fresh \in BOOLEAN /\ choked \in BOOLEAN
    /\ strays \in Nat

Loops == Sent("update") + Len(updates) + timers

\* An open page has exactly one request for an update on its round trip, be it
\* at the server, coming back or waiting for its frame (webfort.js:427-441), and
\* one more for every timer that outlived its own socket, unless an update has
\* thrown; and however often a page reconnects, it never has more of them than
\* it has made sockets.
OneLoop ==
    ready = "open" =>
        /\ ~choked => Loops = 1 + strays
        /\ Loops <= 1 + strays /\ 1 + strays <= made

\* A page whose connection is closed offers to connect again, and no other page
\* does: there is always a way back and never a second socket (webfort.js:188,
\* 207-216).
WayBack == onclick = "connect" <=> ready = "closed"

\* A click does what the status line said it would (webfort.js:241, 244), unless
\* the turn has changed hands since that line was sent: the second click of a
\* double click, or one that meets the end of the turn, may do the opposite.
ClickMeansIt ==
    [][handleTurn /\ Head(requests).fresh =>
          turn' = IF Head(requests).meant = "take" THEN "page" ELSE "nobody"]_vars

Waiting == status \in {"connecting", "initializing"}

\* No page waits forever: it is served, or told why not and offered to try
\* again.  And a page that stays connected comes to say who drives if that does
\* not change; both unless an update has thrown.
StatusSettles ==
    /\ Waiting ~> ~Waiting \/ choked
    /\ \A t \in DOMAIN Shown :
          <>[](ready = "open" /\ link = "open" /\ turn = t /\ ~choked)
              => <>[](status = Shown[t])
================================================================================
