----------------------------- MODULE BrowserProofs -----------------------------
(***************************************************************************)
(* Theorems about Browser, for every number of reconnections and of clicks *)
(* under way: the page always has a way back, a click that the turn has    *)
(* not overtaken does what the status line said, and the page has as many  *)
(* request loops as OneLoop allows.                                        *)
(***************************************************************************)
EXTENDS Browser, SequenceTheorems, FiniteSetTheorems, TLAPS

\* An answer that is up to date names the turn t; a request that is up to date
\* asks for the change of t that the status line offered.
Drives(meant) == IF meant = "take" THEN "nobody" ELSE "page"
TrueUpdate(t) == {u \in Update : u.fresh => u.turn = t}
TrueRequest(t) ==
    {m \in Request : m.fresh => m.meant \in {"take", "end"} /\ t = Drives(m.meant)}

\* Everything but what is under way.
PageTypes ==
    /\ made \in 1..MaxConnects
    /\ ready \in {"connecting", "open", "lost", "closed"}
    /\ link \in {"none", "open", "closing", "closed"}
    /\ timers \in Nat /\ orphans \in Nat
    /\ status \in {"connecting", "initializing", "broken", "driving", "nobody", "watching"}
    /\ onclick \in {"nothing", "connect", "requestTurn"}
    /\ turn \in Turn
    /\ fresh \in BOOLEAN /\ choked \in BOOLEAN
    /\ strays \in Nat

Channels ==
    /\ requests \in Seq(TrueRequest(turn))
    /\ updates \in Seq(TrueUpdate(turn))

\* Nothing arrives before a socket opens or after its close event.
Quiet == ready \in {"connecting", "closed"} => updates = <<>>

\* A status line that offers a request for a turn.
Offer ==
    onclick = "requestTurn" =>
        /\ status \in {"driving", "nobody"}
        /\ fresh => turn = IF status = "driving" THEN "page" ELSE "nobody"

IInv == PageTypes /\ Channels /\ Quiet /\ Offer /\ WayBack

--------------------------------------------------------------------------------
(* What is under way *)

\* What is out of date is true of every turn.
LEMMA OutdatedUpdates ==
    ASSUME NEW t, NEW seq \in Seq(Update)
    PROVE  Outdated(seq) \in Seq(TrueUpdate(t))
<1>1. DOMAIN seq = 1..Len(seq) /\ Len(seq) \in Nat
  BY LenProperties
<1>2. \A i \in 1..Len(seq) : [seq[i] EXCEPT !.fresh = FALSE] \in TrueUpdate(t)
  <2> SUFFICES ASSUME NEW i \in 1..Len(seq)
               PROVE  [seq[i] EXCEPT !.fresh = FALSE] \in TrueUpdate(t)
    OBVIOUS
  <2>1. seq[i] \in Update
    BY ElementOfSeq
  <2> QED
    BY <2>1 DEF TrueUpdate, Update
<1>3. Outdated(seq) = [i \in 1..Len(seq) |-> [seq[i] EXCEPT !.fresh = FALSE]]
  BY <1>1 DEF Outdated
<1> QED
  BY <1>1, <1>2, <1>3, SeqDef

LEMMA OutdatedRequests ==
    ASSUME NEW t, NEW seq \in Seq(Request)
    PROVE  Outdated(seq) \in Seq(TrueRequest(t))
<1>1. DOMAIN seq = 1..Len(seq) /\ Len(seq) \in Nat
  BY LenProperties
<1>2. \A i \in 1..Len(seq) : [seq[i] EXCEPT !.fresh = FALSE] \in TrueRequest(t)
  <2> SUFFICES ASSUME NEW i \in 1..Len(seq)
               PROVE  [seq[i] EXCEPT !.fresh = FALSE] \in TrueRequest(t)
    OBVIOUS
  <2>1. seq[i] \in Request
    BY ElementOfSeq
  <2> QED
    BY <2>1 DEF TrueRequest, Request
<1>3. Outdated(seq) = [i \in 1..Len(seq) |-> [seq[i] EXCEPT !.fresh = FALSE]]
  BY <1>1 DEF Outdated
<1> QED
  BY <1>1, <1>2, <1>3, SeqDef

\* Whatever the next turn is, what remains under way is true of it.
LEMMA RestIsTrue ==
    /\ \A seq \in Seq(TrueUpdate(turn)) : Rest(seq) \in Seq(TrueUpdate(turn'))
    /\ \A seq \in Seq(TrueRequest(turn)) : Rest(seq) \in Seq(TrueRequest(turn'))
<1>1. ASSUME NEW seq \in Seq(TrueUpdate(turn)) PROVE Rest(seq) \in Seq(TrueUpdate(turn'))
  <2>1. TrueUpdate(turn) \subseteq Update
    BY DEF TrueUpdate
  <2>2. seq \in Seq(Update)
    BY <2>1, SeqMonotonic
  <2>3. Outdated(seq) \in Seq(TrueUpdate(turn'))
    BY <2>2, OutdatedUpdates
  <2> QED
    BY <2>3 DEF Rest
<1>2. ASSUME NEW seq \in Seq(TrueRequest(turn)) PROVE Rest(seq) \in Seq(TrueRequest(turn'))
  <2>1. TrueRequest(turn) \subseteq Request
    BY DEF TrueRequest
  <2>2. seq \in Seq(Request)
    BY <2>1, SeqMonotonic
  <2>3. Outdated(seq) \in Seq(TrueRequest(turn'))
    BY <2>2, OutdatedRequests
  <2> QED
    BY <2>3 DEF Rest
<1> QED
  BY <1>1, <1>2

\* The answer that goes out names the turn of that moment.
LEMMA AnswerIsTrue ==
    ASSUME turn' \in Turn, NEW seq \in Seq(TrueUpdate(turn'))
    PROVE  Answer(seq) \in Seq(TrueUpdate(turn'))
<1>1. [turn |-> turn', fresh |-> TRUE] \in TrueUpdate(turn')
  BY DEF TrueUpdate, Update
<1> QED
  BY <1>1, AppendProperties DEF Answer

\* So does a message of a page that offers what is the case.
LEMMA SendIsTrue ==
    ASSUME requests \in Seq(TrueRequest(turn)), NEW m \in TrueRequest(turn), Send(m)
    PROVE  requests' \in Seq(TrueRequest(turn))
<1> QED
  BY AppendProperties DEF Send

LEMMA SaysNothing ==
    \A k \in {"connect", "update", "turn"} : \A t : Say(k) \in TrueRequest(t)
<1> QED
  BY DEF Say, TrueRequest, Request

--------------------------------------------------------------------------------
(* The invariant *)

LEMMA InitInv == Init => IInv
<1> SUFFICES ASSUME Init PROVE IInv
  OBVIOUS
<1>1. fresh \in BOOLEAN /\ choked \in BOOLEAN /\ ~fresh
  BY Zenon DEF Init
<1>2. PageTypes
  BY <1>1, BrowserAssumption DEF Init, PageTypes, Turn, Shown
<1>3. Channels /\ Quiet /\ Offer /\ WayBack
  BY <1>1 DEF Init, Channels, Quiet, Offer, WayBack
<1> QED
  BY <1>2, <1>3 DEF IInv

\* The page's own steps but for what arrives.
LEMMA PageStep ==
    ASSUME IInv, connect \/ onOpen \/ onClose \/ requestTurn \/ frameTimer \/ orphanTimer
    PROVE  IInv'
<1> USE DEF IInv, PageTypes, Quiet, Offer, WayBack, page, channels, history, setStatus
<1>1. CASE connect
  <2>1. ~fresh'
    BY <1>1, Zenon DEF connect
  <2>2. fresh' \in BOOLEAN /\ choked' \in BOOLEAN
    BY <1>1, Zenon DEF connect
  <2>3. PageTypes'
    BY <1>1, <2>2, BrowserAssumption DEF connect, Turn, Shown
  <2> QED
    BY <1>1, <2>1, <2>3 DEF connect, Channels
<1>2. CASE onOpen
  <2>1. Channels'
    BY <1>2, SaysNothing DEF onOpen, Channels
  <2> QED
    BY <1>2, <2>1 DEF onOpen
<1>3. CASE onClose
  BY <1>3 DEF onClose, Channels
<1>4. CASE requestTurn
  <2> DEFINE m == [kind |-> "turn",
                   meant |-> IF status = "driving" THEN "end" ELSE "take",
                   fresh |-> fresh]
  <2>1. m \in TrueRequest(turn)
    BY <1>4 DEF requestTurn, TrueRequest, Request, Drives
  <2>2. Send(m) /\ UNCHANGED <<page, updates, link, turn, history>>
    BY <1>4 DEF requestTurn
  <2>3. Channels'
    BY <2>1, <2>2, SendIsTrue DEF Channels
  <2> QED
    BY <2>2, <2>3
<1>5. CASE frameTimer
  <2>1. Channels'
    BY <1>5, SendIsTrue, SaysNothing DEF frameTimer, Channels
  <2> QED
    BY <1>5, <2>1 DEF frameTimer
<1>6. CASE orphanTimer
  <2>1. Channels'
    BY <1>6, SendIsTrue, SaysNothing DEF orphanTimer, Channels
  <2>2. orphans' \in Nat /\ strays' \in Nat
    BY <1>6 DEF orphanTimer
  <2> QED
    BY <1>6, <2>1, <2>2 DEF orphanTimer
<1> QED
  BY <1>1, <1>2, <1>3, <1>4, <1>5, <1>6

\* An update that arrives.  A status line that offers a request is as true as
\* the update it is shown for.
LEMMA ArriveStep ==
    ASSUME IInv, onMessage \/ onMessageThrows
    PROVE  IInv'
<1> USE DEF IInv, PageTypes, Quiet, Offer, WayBack, page, channels, history
<1>1. updates # <<>> /\ updates' = Tail(updates) /\ UNCHANGED turn
  BY DEF onMessage, onMessageThrows
<1>2. /\ Head(updates) \in TrueUpdate(turn)
      /\ updates' \in Seq(TrueUpdate(turn'))
  BY <1>1, HeadTailProperties DEF Channels
<1>3. CASE onMessage
  <2>1. requests' \in Seq(TrueRequest(turn'))
    BY <1>1, <1>3, SendIsTrue, SaysNothing
    DEF onMessage, AskNext, AskNow, AskLater, Channels
  <2>2. timers' \in Nat /\ UNCHANGED orphans
    BY <1>3 DEF onMessage, AskNext, AskNow, AskLater
  <2>3. Head(updates).turn \in {"nobody", "page", "other"}
    BY <1>2, <1>3 DEF onMessage, TrueUpdate, Update, Turn, Shown
  <2>4. /\ status' = Shown[Head(updates).turn]
        /\ onclick' = IF Head(updates).turn = "other" THEN "nothing" ELSE "requestTurn"
    BY <1>3 DEF onMessage, renderQueueStatus, setStatus
  <2>5. /\ status' \in {"driving", "nobody", "watching"}
        /\ onclick' = "requestTurn" =>
             status' = IF Head(updates).turn = "page" THEN "driving" ELSE "nobody"
    BY <2>3, <2>4 DEF Shown
  <2>6. fresh' = Head(updates).fresh
    BY <1>3 DEF onMessage
  <2>7. fresh' \in BOOLEAN
    BY <1>2, <2>6 DEF TrueUpdate, Update
  <2>8. fresh' => turn = Head(updates).turn
    BY <1>2, <2>6 DEF TrueUpdate
  <2>9. PageTypes'
    BY <1>3, <2>2, <2>4, <2>5, <2>7 DEF onMessage
  <2>10. Offer'
    BY <1>1, <2>3, <2>4, <2>5, <2>8
  <2>11. ready \notin {"connecting", "closed"} /\ UNCHANGED ready
    BY <1>1, <1>3 DEF onMessage
  <2> QED
    BY <1>2, <2>1, <2>4, <2>9, <2>10, <2>11 DEF Channels
<1>4. CASE onMessageThrows
  <2>1. choked' \in BOOLEAN
    BY <1>4, Zenon DEF onMessageThrows
  <2>2. Channels'
    BY <1>1, <1>2, <1>4 DEF onMessageThrows, Channels
  <2> QED
    BY <1>1, <1>4, <2>1, <2>2 DEF onMessageThrows
<1> QED
  BY <1>3, <1>4

\* The turn changes hands or does not: a status line that is out of date says so.
LEMMA TurnStep ==
    ASSUME Offer, fresh \in BOOLEAN,
           UNCHANGED <<status, onclick>>,
           \/ UNCHANGED <<turn, fresh>>
           \/ fresh' = (fresh /\ turn' = turn)
    PROVE  Offer' /\ fresh' \in BOOLEAN
<1>1. fresh' \in BOOLEAN
  BY Zenon
<1>2. fresh' => fresh /\ turn' = turn
  BY Zenon
<1> QED
  BY <1>1, <1>2 DEF Offer

\* The connection breaks, is taken in, or is found closed.
LEMMA LinkStep ==
    ASSUME IInv, Lose \/ on_open \/ on_close
    PROVE  IInv'
<1> USE DEF IInv, PageTypes, Quiet, WayBack, page, channels, history
<1>1. CASE Lose
  <2>1. PICK n \in 0..Len(updates) : updates' = SubSeq(updates, 1, n)
    BY <1>1 DEF Lose
  <2>2. \A i \in 1..n : updates[i] \in TrueUpdate(turn)
    BY LenProperties, ElementOfSeq DEF Channels
  <2>3. updates' \in Seq(TrueUpdate(turn))
    BY <2>1, <2>2, SubSeqProperties
  <2>4. Channels'
    BY <1>1, <2>3 DEF Lose, Channels
  <2>5. ready = "connecting" => updates' = <<>>
    <3> HAVE ready = "connecting"
    <3>1. updates = <<>>
      OBVIOUS
    <3>2. n = 0
      BY <2>1, <3>1
    <3> QED
      BY <2>1, <3>2, SubSeqEmpty
  <2> QED
    BY <1>1, <2>4 DEF Lose, Offer
<1>2. CASE on_open
  BY <1>2 DEF on_open, Offer, Channels
<1>3. CASE on_close
  <2>1. turn' \in Turn
    BY <1>3 DEF on_close, set_active, Turn, Shown
  <2>2. Offer' /\ fresh' \in BOOLEAN
    BY <1>3, TurnStep DEF on_close, set_active
  <2>3. requests' \in Seq(TrueRequest(turn')) /\ updates' \in Seq(TrueUpdate(turn'))
    BY <1>3, RestIsTrue DEF on_close, Channels
  <2>4. updates = <<>> => updates' = <<>>
    BY <1>3 DEF on_close, Rest, Outdated
  <2> QED
    BY <1>3, <2>1, <2>2, <2>3, <2>4 DEF on_close, Channels
<1> QED
  BY <1>1, <1>2, <1>3

\* The server answers and passes on the turn.
LEMMA ServeStep ==
    ASSUME IInv, on_message \/ Others
    PROVE  IInv'
<1> USE DEF IInv, PageTypes, Quiet, WayBack, page, history
<1>1. /\ requests # <<>> => Tail(requests) \in Seq(TrueRequest(turn))
      /\ requests \in Seq(TrueRequest(turn)) /\ updates \in Seq(TrueUpdate(turn))
  BY HeadTailProperties DEF Channels
<1>2. CASE refreshScreen
  BY <1>1, <1>2 DEF refreshScreen, Serving, Offer, Channels
<1>3. CASE tock
  <2>1. turn' \in Turn
    BY <1>3 DEF tock, set_active, Turn, Shown
  <2>2. Offer' /\ fresh' \in BOOLEAN
    BY <1>3, TurnStep DEF tock, set_active
  <2>3. requests' \in Seq(TrueRequest(turn'))
    BY <1>1, <1>3, RestIsTrue DEF tock, Serving
  <2>4. updates' \in Seq(TrueUpdate(turn'))
    BY <1>1, <1>3, <2>1, RestIsTrue, AnswerIsTrue DEF tock
  <2>5. ready # "open" => updates' = Rest(updates)
    BY <1>3 DEF tock, Answer
  <2>6. ready # "open" /\ updates = <<>> => updates' = <<>>
    BY <2>5 DEF Rest, Outdated
  <2> QED
    BY <1>3, <2>1, <2>2, <2>3, <2>4, <2>6 DEF tock, Channels
<1>4. CASE handleTurn
  <2>1. turn' \in Turn
    BY <1>4 DEF handleTurn, set_active, Toggled, Turn, Shown
  <2>2. Offer' /\ fresh' \in BOOLEAN
    BY <1>4, TurnStep DEF handleTurn, set_active
  <2>3. requests' \in Seq(TrueRequest(turn')) /\ updates' \in Seq(TrueUpdate(turn'))
    BY <1>1, <1>4, RestIsTrue DEF handleTurn, Serving
  <2>4. updates = <<>> => updates' = <<>>
    BY <1>4 DEF handleTurn, Rest, Outdated
  <2> QED
    BY <1>4, <2>1, <2>2, <2>3, <2>4 DEF handleTurn, Channels
<1>5. CASE Others
  <2>1. turn' \in Turn
    BY <1>5 DEF Others, set_active, Turn, Shown
  <2>2. Offer' /\ fresh' \in BOOLEAN
    BY <1>5, TurnStep DEF Others, set_active
  <2>3. TrueRequest(turn) \subseteq Request /\ TrueUpdate(turn) \subseteq Update
    BY DEF TrueRequest, TrueUpdate
  <2>4. requests \in Seq(Request) /\ updates \in Seq(Update)
    BY <1>1, <2>3, SeqMonotonic
  <2>5. requests' \in Seq(TrueRequest(turn')) /\ updates' \in Seq(TrueUpdate(turn'))
    BY <1>5, <2>4, OutdatedUpdates, OutdatedRequests DEF Others
  <2>6. updates = <<>> => updates' = <<>>
    BY <1>5 DEF Others, Outdated
  <2> QED
    BY <1>5, <2>1, <2>2, <2>5, <2>6 DEF Others, Channels
<1> QED
  BY <1>2, <1>3, <1>4, <1>5 DEF on_message

LEMMA StepInv == IInv /\ [Next]_vars => IInv'
<1> SUFFICES ASSUME IInv, [Next]_vars PROVE IInv'
  OBVIOUS
<1>1. CASE UNCHANGED vars
  BY <1>1 DEF vars, page, channels, history, IInv, PageTypes, Channels, Quiet, Offer, WayBack
<1> QED
  BY <1>1, PageStep, ArriveStep, LinkStep, ServeStep DEF Next, Page

LEMMA Invariance == Spec => []IInv
<1> QED
  BY InitInv, StepInv, PTL DEF Spec

--------------------------------------------------------------------------------

\* Every variable of a page, of its socket and of the server's side of it has
\* its type, however often the page reconnects (webfort.js:103-146, 188-250).
THEOREM TypeCorrect == Spec => []TypeOK
<1>1. IInv => TypeOK
  <2> SUFFICES ASSUME IInv PROVE TypeOK
    OBVIOUS
  <2>1. TrueRequest(turn) \subseteq Request /\ TrueUpdate(turn) \subseteq Update
    BY DEF TrueRequest, TrueUpdate
  <2>2. requests \in Seq(Request) /\ updates \in Seq(Update)
    BY <2>1, SeqMonotonic DEF IInv, Channels
  <2> QED
    BY <2>2 DEF IInv, PageTypes, TypeOK
<1> QED
  BY <1>1, Invariance, PTL

\* A closed page, and only a closed page, offers to connect (webfort.js:207-216).
THEOREM AlwaysAWayBack == Spec => []WayBack
<1>1. IInv => WayBack
  BY DEF IInv
<1> QED
  BY <1>1, Invariance, PTL

\* The server's toggle is the change the status line offered, unless the turn
\* has changed since (webfort.js:241-244, server.cpp:799-805).
THEOREM ClicksMeanIt == Spec => ClickMeansIt
<1>1. IInv /\ [Next]_vars =>
        [handleTurn /\ Head(requests).fresh =>
            turn' = IF Head(requests).meant = "take" THEN "page" ELSE "nobody"]_vars
  <2> SUFFICES ASSUME IInv, handleTurn, Head(requests).fresh
               PROVE  turn' = IF Head(requests).meant = "take" THEN "page" ELSE "nobody"
    OBVIOUS
  <2>1. Head(requests) \in TrueRequest(turn)
    BY HeadTailProperties DEF IInv, Channels, handleTurn, Serving
  <2>2. Head(requests).meant \in {"take", "end"} /\ turn = Drives(Head(requests).meant)
    BY <2>1 DEF TrueRequest
  <2> QED
    BY <2>2 DEF handleTurn, set_active, Toggled, Drives
<1> QED
  BY <1>1, Invariance, PTL DEF Spec, ClickMeansIt

--------------------------------------------------------------------------------
(* Counting messages *)

Count(seq, k) == Cardinality(OfKind(seq, k))

\* The messages of a kind are finitely many.
LEMMA CountType ==
    ASSUME NEW seq \in Seq(Request), NEW k
    PROVE  IsFiniteSet(OfKind(seq, k)) /\ Count(seq, k) \in Nat
<1>1. Len(seq) \in Nat /\ DOMAIN seq = 1..Len(seq)
  BY LenProperties
<1>2. IsFiniteSet(1..Len(seq)) /\ OfKind(seq, k) \subseteq 1..Len(seq)
  BY <1>1, FS_Interval DEF OfKind
<1>3. IsFiniteSet(OfKind(seq, k))
  BY <1>2, FS_Subset
<1> QED
  BY <1>3, FS_CardinalityType DEF Count

LEMMA CountEmpty == \A k : Count(<<>>, k) = 0
<1> SUFFICES ASSUME NEW k PROVE Count(<<>>, k) = 0
  OBVIOUS
<1>1. OfKind(<<>>, k) = {}
  BY DEF OfKind
<1> QED
  BY <1>1, FS_EmptySet DEF Count

\* One more, if it is of that kind.
LEMMA CountAppend ==
    ASSUME NEW seq \in Seq(Request), NEW m \in Request, NEW k
    PROVE  Count(Append(seq, m), k) = IF m.kind = k THEN Count(seq, k) + 1 ELSE Count(seq, k)
<1> DEFINE a == Append(seq, m)
<1>1. Len(seq) \in Nat /\ DOMAIN seq = 1..Len(seq)
  BY LenProperties
<1>2. /\ a \in Seq(Request) /\ Len(a) = Len(seq) + 1
      /\ \A i \in 1..Len(seq) : a[i] = seq[i]
      /\ a[Len(seq) + 1] = m
  BY AppendProperties
<1>3. DOMAIN a = 1..Len(seq) + 1
  BY <1>2, LenProperties
<1> HIDE DEF a
<1>4. DOMAIN a = DOMAIN seq \cup {Len(seq) + 1} /\ Len(seq) + 1 \notin DOMAIN seq
  BY <1>1, <1>3
<1>5. \A i \in DOMAIN seq : a[i] = seq[i]
  BY <1>1, <1>2
<1>6. OfKind(a, k) = IF m.kind = k THEN OfKind(seq, k) \cup {Len(seq) + 1} ELSE OfKind(seq, k)
  BY <1>2, <1>4, <1>5 DEF OfKind
<1>7. Len(seq) + 1 \notin OfKind(seq, k)
  BY <1>4 DEF OfKind
<1>8. m.kind = k => Cardinality(OfKind(seq, k) \cup {Len(seq) + 1}) = Count(seq, k) + 1
  BY <1>7, CountType, FS_AddElement DEF Count
<1>9. Count(a, k) = IF m.kind = k THEN Count(seq, k) + 1 ELSE Count(seq, k)
  BY <1>6, <1>8 DEF Count
<1> QED
  BY <1>9 DEF a

\* One less, if the first was of that kind.
LEMMA CountTail ==
    ASSUME NEW seq \in Seq(Request), seq # <<>>, NEW k
    PROVE  Count(Tail(seq), k) =
             IF Head(seq).kind = k THEN Count(seq, k) - 1 ELSE Count(seq, k)
<1> DEFINE t == Tail(seq)
           f == [i \in OfKind(t, k) |-> i + 1]
           R == OfKind(seq, k) \ {1}
<1>1. Len(seq) \in Nat /\ Len(seq) > 0 /\ DOMAIN seq = 1..Len(seq) /\ Head(seq) = seq[1]
  BY EmptySeq, LenProperties
<1>2. /\ t \in Seq(Request) /\ Len(t) = Len(seq) - 1
      /\ \A i \in 1..Len(t) : t[i] = seq[i + 1]
  BY HeadTailProperties
<1>3. DOMAIN t = 1..Len(t)
  BY <1>2, LenProperties
<1>4. IsFiniteSet(OfKind(t, k)) /\ IsFiniteSet(OfKind(seq, k)) /\ Count(seq, k) \in Nat
  BY <1>2, CountType
<1> HIDE DEF t
<1>5. \A i \in OfKind(t, k) : i \in Int /\ i + 1 \in R
  <2> SUFFICES ASSUME NEW i \in OfKind(t, k) PROVE i \in Int /\ i + 1 \in R
    OBVIOUS
  <2>1. i \in 1..Len(t) /\ t[i].kind = k
    BY <1>3 DEF OfKind
  <2>2. i \in Int /\ i + 1 \in 1..Len(seq) /\ i + 1 # 1 /\ seq[i + 1] = t[i]
    BY <1>1, <1>2, <2>1
  <2> QED
    BY <1>1, <2>1, <2>2 DEF OfKind
<1>6. \A j \in R : j - 1 \in OfKind(t, k) /\ (j - 1) + 1 = j
  <2> SUFFICES ASSUME NEW j \in R PROVE j - 1 \in OfKind(t, k) /\ (j - 1) + 1 = j
    OBVIOUS
  <2>1. j \in 1..Len(seq) /\ j # 1 /\ seq[j].kind = k
    BY <1>1 DEF OfKind
  <2>2. j - 1 \in 1..Len(t) /\ (j - 1) + 1 = j
    BY <1>1, <1>2, <2>1
  <2>3. t[j - 1] = seq[j]
    BY <1>2, <2>2
  <2> QED
    BY <1>3, <2>1, <2>2, <2>3 DEF OfKind
<1> HIDE DEF R
<1>7. f \in Bijection(OfKind(t, k), R)
  <2>1. f \in [OfKind(t, k) -> R]
    BY <1>5
  <2>2. \A i, j \in OfKind(t, k) : f[i] = f[j] => i = j
    BY <1>5
  <2>3. \A j \in R : \E i \in OfKind(t, k) : f[i] = j
    BY <1>6
  <2> QED
    BY <2>1, <2>2, <2>3 DEF Bijection, Injection, Surjection, IsInjective
<1>8. Cardinality(R) = Count(t, k)
  BY <1>4, <1>7, FS_Bijection DEF ExistsBijection, Count
<1>9. Cardinality(R) = IF 1 \in OfKind(seq, k) THEN Count(seq, k) - 1 ELSE Count(seq, k)
  BY <1>4, FS_RemoveElement DEF R, Count
<1>10. 1 \in OfKind(seq, k) <=> Head(seq).kind = k
  BY <1>1 DEF OfKind
<1> QED
  BY <1>8, <1>9, <1>10 DEF t

\* What is out of date is still under way.
LEMMA RestCounts ==
    /\ \A seq \in Seq(Request) : /\ \A k : Count(Rest(seq), k) = Count(seq, k)
                                 /\ \A k : Count(Outdated(seq), k) = Count(seq, k)
    /\ \A seq \in Seq(Update) : Len(Rest(seq)) = Len(seq) /\ Len(Outdated(seq)) = Len(seq)
<1>1. ASSUME NEW seq \in Seq(Request), NEW k PROVE Count(Outdated(seq), k) = Count(seq, k)
  <2>1. DOMAIN seq = 1..Len(seq) /\ DOMAIN Outdated(seq) = DOMAIN seq
    BY LenProperties DEF Outdated
  <2>2. \A i \in DOMAIN seq : Outdated(seq)[i].kind = seq[i].kind
    <3> SUFFICES ASSUME NEW i \in DOMAIN seq PROVE Outdated(seq)[i].kind = seq[i].kind
      OBVIOUS
    <3>1. seq[i] \in Request
      BY <2>1, ElementOfSeq
    <3>2. Outdated(seq)[i] = [seq[i] EXCEPT !.fresh = FALSE]
      BY DEF Outdated
    <3> QED
      BY <3>1, <3>2 DEF Request
  <2>3. OfKind(Outdated(seq), k) = OfKind(seq, k)
    BY <2>1, <2>2 DEF OfKind
  <2> QED
    BY <2>3 DEF Count
<1>2. ASSUME NEW seq \in Seq(Update) PROVE Len(Outdated(seq)) = Len(seq)
  <2>1. DOMAIN seq = 1..Len(seq) /\ Len(seq) \in Nat
    BY LenProperties
  <2>2. Outdated(seq) = [i \in 1..Len(seq) |-> [seq[i] EXCEPT !.fresh = FALSE]]
    BY <2>1 DEF Outdated
  <2> QED
    BY <2>1, <2>2
<1> QED
  BY <1>1, <1>2 DEF Rest

\* A message that is sent counts while the socket is open, and one that is served
\* no more.
LEMMA SendCounts ==
    ASSUME requests \in Seq(Request), NEW m \in Request, Send(m)
    PROVE  Sent("update")' =
             IF ready = "open" /\ m.kind = "update" THEN Sent("update") + 1 ELSE Sent("update")
<1> QED
  BY CountAppend DEF Send, Sent, Count

LEMMA ServeCounts ==
    ASSUME requests \in Seq(Request), requests # <<>>,
           requests' = Tail(requests) \/ requests' = Rest(Tail(requests))
    PROVE  Sent("update")' =
             IF Head(requests).kind = "update" THEN Sent("update") - 1 ELSE Sent("update")
<1>1. Tail(requests) \in Seq(Request)
  BY HeadTailProperties
<1>2. Count(requests', "update") = Count(Tail(requests), "update")
  BY <1>1, RestCounts
<1> QED
  BY <1>2, CountTail DEF Sent, Count

--------------------------------------------------------------------------------
(* The request loops *)

\* A timer that outlives its socket may begin one more loop on the next; before
\* that, and after it, the page owes the server at most one loop per socket.
LInv ==
    /\ ready = "connecting" =>
         /\ requests = <<>> /\ timers = 0 /\ strays = 0 /\ ~choked
         /\ orphans + 1 <= made
    /\ ready = "open" =>
         /\ Loops <= 1 + strays
         /\ ~choked => 1 + strays <= Loops
         /\ orphans + 1 + strays <= made
    /\ ready \in {"lost", "closed"} => orphans + timers + Len(updates) <= made

\* What the invariant of the last section says of the numbers it counts.
Counted ==
    /\ requests \in Seq(Request) /\ updates \in Seq(Update)
    /\ Sent("update") \in Nat /\ Len(updates) \in Nat
    /\ made \in Nat /\ timers \in Nat /\ orphans \in Nat /\ strays \in Nat
    /\ choked \in BOOLEAN
    /\ ready \in {"connecting", "open", "lost", "closed"}

LEMMA Numbers == IInv => Counted
<1> SUFFICES ASSUME IInv PROVE Counted
  OBVIOUS
<1>1. TrueRequest(turn) \subseteq Request /\ TrueUpdate(turn) \subseteq Update
  BY DEF TrueRequest, TrueUpdate
<1>2. requests \in Seq(Request) /\ updates \in Seq(Update)
  BY <1>1, SeqMonotonic DEF IInv, Channels
<1>3. Sent("update") \in Nat /\ Len(updates) \in Nat
  BY <1>2, CountType, LenProperties DEF Sent, Count
<1> QED
  BY <1>2, <1>3 DEF IInv, PageTypes, Counted

LEMMA LoopInit == Init => LInv
<1> SUFFICES ASSUME Init PROVE LInv
  OBVIOUS
<1>1. choked = FALSE /\ strays = 0
  BY Zenon DEF Init
<1> QED
  BY <1>1 DEF Init, LInv

\* The arithmetic of such steps, on numbers: the provers do not do it on primed
\* variables.
LEMMA SameBound ==
    ASSUME NEW l \in Nat, NEW m \in Nat, NEW s \in Nat, NEW t \in Nat, m + s = l + t,
           l <= 1 + s
    PROVE  m <= 1 + t
OBVIOUS

LEMMA SameFloor ==
    ASSUME NEW l \in Nat, NEW m \in Nat, NEW s \in Nat, NEW t \in Nat, m + s = l + t,
           1 + s <= l
    PROVE  1 + t <= m
OBVIOUS

LEMMA SameSum ==
    ASSUME NEW o \in Nat, NEW p \in Nat, NEW s \in Nat, NEW t \in Nat, NEW n \in Nat,
           p + t = o + s, o + 1 + s <= n
    PROVE  p + 1 + t <= n
OBVIOUS

\* A step of an open page that takes a message or a timer for another.
LEMMA OpenBalanced ==
    ASSUME Counted, Counted', LInv, ready = "open", ready' = "open", made' = made,
           choked' <=> choked, Loops' + strays = Loops + strays',
           orphans' + strays' = orphans + strays
    PROVE  LInv'
<1>1. strays \in Nat /\ orphans \in Nat /\ made \in Nat /\ Loops \in Nat
  BY DEF Counted, Loops
<1>2. strays' \in Nat /\ orphans' \in Nat /\ Loops' \in Nat
  BY DEF Counted, Loops
<1>3. /\ Loops <= 1 + strays
      /\ ~choked => 1 + strays <= Loops
      /\ orphans + 1 + strays <= made
  BY DEF LInv
<1>4. Loops' <= 1 + strays'
  BY <1>1, <1>2, <1>3, SameBound
<1>5. ~choked' => 1 + strays' <= Loops'
  BY <1>1, <1>2, <1>3, SameFloor
<1>6. orphans' + 1 + strays' <= made'
  BY <1>1, <1>2, <1>3, SameSum
<1> QED
  BY <1>4, <1>5, <1>6 DEF LInv

\* A step of a page whose connection is gone, which can only lose loops.
LEMMA GoneBalanced ==
    ASSUME Counted, Counted', LInv, ready \in {"lost", "closed"},
           ready' \in {"lost", "closed"}, made' = made,
           orphans' + timers' + Len(updates') <= orphans + timers + Len(updates)
    PROVE  LInv'
<1>1. orphans + timers + Len(updates) <= made
  BY DEF LInv
<1>2. /\ orphans \in Nat /\ timers \in Nat /\ Len(updates) \in Nat /\ made \in Nat
      /\ orphans' \in Nat /\ timers' \in Nat /\ Len(updates') \in Nat
  BY DEF Counted
<1>3. orphans' + timers' + Len(updates') <= made'
  BY <1>1, <1>2
<1> QED
  BY <1>3 DEF LInv

\* The page: a socket begins without loops, its opening begins one, and a timer
\* that comes asks for an update.
LEMMA PageLoops ==
    ASSUME IInv, Counted, Counted', LInv,
           connect \/ onOpen \/ onClose \/ requestTurn \/ frameTimer \/ orphanTimer
    PROVE  LInv'
<1> USE DEF page, channels, history
<1>1. CASE connect
  <2>1. ready = "closed"
    BY <1>1 DEF connect, IInv, WayBack
  <2>2. orphans + timers <= made
    BY <2>1 DEF LInv, Counted
  <2>3. /\ requests' = <<>> /\ timers' = 0 /\ strays' = 0 /\ ready' = "connecting"
        /\ orphans' = orphans + timers /\ made' = made + 1
    BY <1>1 DEF connect
  <2>4. ~choked'
    BY <1>1, Zenon DEF connect
  <2>5. orphans' + 1 <= made'
    BY <2>2, <2>3 DEF Counted
  <2> QED
    BY <2>3, <2>4, <2>5 DEF LInv
<1>2. CASE onOpen
  <2>1. /\ ready = "connecting" /\ ready' = "open"
        /\ requests' = <<Say("connect"), Say("update")>>
        /\ UNCHANGED <<updates, timers, strays, choked, made, orphans>>
    BY <1>2 DEF onOpen
  <2>2. updates = <<>> /\ timers = 0 /\ strays = 0 /\ orphans + 1 <= made
    BY <2>1 DEF IInv, Quiet, LInv
  <2>3. Sent("update")' = 1
    <3>1. OfKind(<<Say("connect"), Say("update")>>, "update") = {2}
      BY DEF OfKind, Say
    <3> QED
      BY <2>1, <3>1, FS_Singleton DEF Sent
  <2>4. Loops' = 1 /\ strays' = 0
    BY <2>1, <2>2, <2>3 DEF Loops
  <2>5. orphans' + 1 + strays' <= made'
    BY <2>1, <2>2 DEF Counted
  <2> QED
    BY <2>1, <2>4, <2>5 DEF LInv
<1>3. CASE onClose
  <2>1. /\ ready = "lost" /\ ready' = "closed"
        /\ UNCHANGED <<made, orphans, timers, updates>>
    BY <1>3 DEF onClose
  <2> QED
    BY <2>1 DEF LInv
<1>4. CASE requestTurn
  <2> DEFINE m == [kind |-> "turn",
                   meant |-> IF status = "driving" THEN "end" ELSE "take",
                   fresh |-> fresh]
  <2>1. m \in Request /\ m.kind = "turn"
    BY <1>4 DEF requestTurn, Request, IInv, PageTypes
  <2>2. Send(m) /\ UNCHANGED <<page, updates, link, turn, history>>
    BY <1>4 DEF requestTurn
  <2> HIDE DEF m
  <2>3. Sent("update")' = Sent("update") /\ (ready # "open" => requests' = requests)
    BY <2>1, <2>2, SendCounts DEF Counted, Send
  <2> QED
    BY <2>2, <2>3 DEF LInv, Loops
<1>5. CASE frameTimer
  <2>1. /\ timers > 0 /\ timers' = timers - 1 /\ Send(Say("update"))
        /\ UNCHANGED <<made, ready, orphans, updates, choked, strays>>
    BY <1>5 DEF frameTimer
  <2>2. Say("update") \in Request /\ Say("update").kind = "update"
    BY DEF Say, Request
  <2>3. ready = "open" => Sent("update")' = Sent("update") + 1
    BY <2>1, <2>2, SendCounts DEF Counted
  <2>4. CASE ready = "connecting"
    BY <2>1, <2>4 DEF LInv
  <2>5. CASE ready = "open"
    <3>1. Loops' = Loops
      BY <2>1, <2>3, <2>5 DEF Loops, Counted
    <3> QED
      BY <2>1, <2>5, <3>1 DEF LInv
  <2>6. CASE ready \in {"lost", "closed"}
    <3>1. orphans' + timers' + Len(updates') <= orphans + timers + Len(updates)
      BY <2>1 DEF Counted
    <3> QED
      BY <2>1, <2>6, <3>1, GoneBalanced
  <2> QED
    BY <2>4, <2>5, <2>6 DEF Counted
<1>6. CASE orphanTimer
  <2>1. /\ orphans > 0 /\ orphans' = orphans - 1 /\ Send(Say("update"))
        /\ UNCHANGED <<made, ready, timers, updates, choked>>
        /\ strays' = IF ready = "open" THEN strays + 1 ELSE strays
    BY <1>6 DEF orphanTimer
  <2>2. Say("update") \in Request /\ Say("update").kind = "update"
    BY DEF Say, Request
  <2>3. ready = "open" => Sent("update")' = Sent("update") + 1
    BY <2>1, <2>2, SendCounts DEF Counted
  <2>4. CASE ready = "connecting"
    <3>1. requests' = requests /\ strays' = strays
      BY <2>1, <2>4 DEF Send
    <3>2. orphans' + 1 <= made'
      BY <2>1, <2>4 DEF LInv, Counted
    <3> QED
      BY <2>1, <2>4, <3>1, <3>2 DEF LInv
  <2>5. CASE ready = "open"
    <3>1. Loops' + strays = Loops + strays'
      <4>1. Loops' = Loops + 1
        BY <2>1, <2>3, <2>5 DEF Loops, Counted
      <4>2. strays' = strays + 1
        BY <2>1, <2>5
      <4>3. Loops \in Nat /\ strays \in Nat
        BY DEF Loops, Counted
      <4> QED
        BY <4>1, <4>2, <4>3
    <3>2. orphans' + strays' = orphans + strays
      BY <2>1, <2>5 DEF Counted
    <3> QED
      BY <2>1, <2>5, <3>1, <3>2, OpenBalanced
  <2>6. CASE ready \in {"lost", "closed"}
    <3>1. orphans' + timers' + Len(updates') <= orphans + timers + Len(updates)
      BY <2>1 DEF Counted
    <3> QED
      BY <2>1, <2>6, <3>1, GoneBalanced
  <2> QED
    BY <2>4, <2>5, <2>6 DEF Counted
<1> QED
  BY <1>1, <1>2, <1>3, <1>4, <1>5, <1>6

\* An update that arrives is asked for again, unless it throws.
LEMMA ArriveLoops ==
    ASSUME IInv, Counted, Counted', LInv, onMessage \/ onMessageThrows
    PROVE  LInv'
<1> USE DEF page, channels, history
<1>1. /\ updates # <<>> /\ updates' = Tail(updates)
      /\ UNCHANGED <<made, ready, orphans, strays>>
  BY DEF onMessage, onMessageThrows
<1>2. Len(updates') = Len(updates) - 1
  BY <1>1, HeadTailProperties DEF Counted
<1>3. ready \in {"open", "lost", "closed"}
  BY <1>1 DEF Counted, IInv, Quiet
<1>4. CASE onMessage
  <2>1. UNCHANGED choked
    BY <1>4 DEF onMessage
  <2>2. CASE AskNow
    <3>1. Send(Say("update")) /\ timers' = timers
      BY <2>2 DEF AskNow
    <3>2. Say("update") \in Request /\ Say("update").kind = "update"
      BY DEF Say, Request
    <3>3. ready = "open" => Sent("update")' = Sent("update") + 1
      BY <3>1, <3>2, SendCounts DEF Counted
    <3>4. CASE ready = "open"
      <4>1. Loops' = Loops
        BY <1>2, <3>1, <3>3, <3>4 DEF Loops, Counted
      <4> QED
        BY <1>1, <2>1, <3>4, <4>1 DEF LInv
    <3>5. CASE ready \in {"lost", "closed"}
      <4>1. orphans' + timers' + Len(updates') <= orphans + timers + Len(updates)
        BY <1>1, <1>2, <3>1 DEF Counted
      <4> QED
        BY <1>1, <3>5, <4>1, GoneBalanced
    <3> QED
      BY <1>3, <3>4, <3>5
  <2>3. CASE AskLater
    <3>1. timers' = timers + 1 /\ requests' = requests
      BY <2>3 DEF AskLater
    <3>2. CASE ready = "open"
      <4>1. Sent("update")' = Sent("update")
        BY <3>1 DEF Sent
      <4>2. Loops' = Loops
        BY <1>2, <3>1, <4>1 DEF Loops, Counted
      <4> QED
        BY <1>1, <2>1, <3>2, <4>2 DEF LInv
    <3>3. CASE ready \in {"lost", "closed"}
      <4>1. orphans' + timers' + Len(updates') <= orphans + timers + Len(updates)
        BY <1>1, <1>2, <3>1 DEF Counted
      <4> QED
        BY <1>1, <3>3, <4>1, GoneBalanced
    <3> QED
      BY <1>3, <3>2, <3>3
  <2> QED
    BY <1>4, <2>2, <2>3 DEF onMessage, AskNext
<1>5. CASE onMessageThrows
  <2>1. UNCHANGED <<timers, requests>>
    BY <1>5 DEF onMessageThrows
  <2>2. choked'
    BY <1>5, Zenon DEF onMessageThrows
  <2>3. CASE ready = "open"
    <3>1. Loops' = Loops - 1
      BY <1>2, <2>1 DEF Loops, Sent, Counted
    <3>2. Loops' <= 1 + strays'
      BY <1>1, <2>3, <3>1 DEF LInv, Loops, Counted
    <3> QED
      BY <1>1, <2>2, <2>3, <3>2 DEF LInv
  <2>4. CASE ready \in {"lost", "closed"}
    <3>1. orphans' + timers' + Len(updates') <= orphans + timers + Len(updates)
      BY <1>1, <1>2, <2>1 DEF Counted
    <3> QED
      BY <1>1, <2>4, <3>1, GoneBalanced
  <2> QED
    BY <1>3, <2>3, <2>4
<1> QED
  BY <1>4, <1>5

\* A connection that breaks leaves its timers and what had arrived.
LEMMA LinkLoops ==
    ASSUME IInv, Counted, Counted', LInv, Lose \/ on_open \/ on_close
    PROVE  LInv'
<1> USE DEF page, channels, history
<1>1. CASE Lose
  <2>1. /\ ready \in {"connecting", "open"} /\ ready' = "lost"
        /\ UNCHANGED <<made, orphans, timers>>
    BY <1>1 DEF Lose
  <2>2. PICK n \in 0..Len(updates) : updates' = SubSeq(updates, 1, n)
    BY <1>1 DEF Lose
  <2>3. Len(updates') <= Len(updates)
    <3>1. \A i \in 1..n : updates[i] \in Update
      BY <2>2, LenProperties, ElementOfSeq DEF Counted
    <3>2. Len(updates') = IF 1 <= n THEN n - 1 + 1 ELSE 0
      BY <2>2, <3>1, SubSeqProperties
    <3> QED
      BY <2>2, <3>2 DEF Counted
  <2>4. orphans + timers + Len(updates) <= made
    <3>1. CASE ready = "connecting"
      <4>1. Len(updates) = 0
        BY <3>1, EmptySeq DEF IInv, Quiet
      <4> QED
        BY <3>1, <4>1 DEF LInv, Counted
    <3>2. CASE ready = "open"
      <4>1. timers + Len(updates) <= Loops /\ Loops \in Nat
        BY DEF Loops, Counted
      <4>2. Loops <= 1 + strays /\ orphans + 1 + strays <= made
        BY <3>2 DEF LInv
      <4>3. /\ orphans \in Nat /\ strays \in Nat /\ made \in Nat /\ timers \in Nat
            /\ Len(updates) \in Nat
        BY DEF Counted
      <4> QED
        BY <4>1, <4>2, <4>3
    <3> QED
      BY <2>1, <3>1, <3>2
  <2>5. orphans' + timers' + Len(updates') <= made'
    BY <2>1, <2>3, <2>4 DEF Counted
  <2> QED
    BY <2>1, <2>5 DEF LInv
<1>2. CASE on_open
  BY <1>2 DEF on_open, LInv, Loops, Sent
<1>3. CASE on_close
  <2>1. /\ ready \in {"lost", "closed"} /\ updates' = Rest(updates)
        /\ UNCHANGED <<made, ready, timers, orphans>>
    BY <1>3 DEF on_close
  <2>2. Len(updates') = Len(updates)
    BY <2>1, RestCounts DEF Counted
  <2> QED
    BY <2>1, <2>2 DEF LInv
<1> QED
  BY <1>1, <1>2, <1>3

\* An answer of an open page.
LEMMA AnswerCounts ==
    ASSUME turn' \in Turn, NEW seq \in Seq(Update)
    PROVE  Len(Answer(seq)) = IF ready = "open" THEN Len(seq) + 1 ELSE Len(seq)
<1>1. [turn |-> turn', fresh |-> TRUE] \in Update
  BY DEF Update
<1> QED
  BY <1>1, AppendProperties DEF Answer

\* A request for an update is answered once, and nothing else is.
LEMMA ServeLoops ==
    ASSUME IInv, IInv', Counted, Counted', LInv, on_message \/ Others
    PROVE  LInv'
<1> USE DEF page, channels, history
<1>1. UNCHANGED <<made, ready, timers, orphans, choked, strays>>
  BY DEF on_message, refreshScreen, tock, handleTurn, Others
<1>2. CASE on_message
  <2>1. requests # <<>>
    BY <1>2 DEF on_message, refreshScreen, tock, handleTurn, Serving
  <2>2. ready # "connecting"
    BY <2>1 DEF LInv
  <2>3. requests' = Tail(requests) \/ requests' = Rest(Tail(requests))
    BY <1>2 DEF on_message, refreshScreen, tock, handleTurn
  <2>4. Sent("update")' =
          IF Head(requests).kind = "update" THEN Sent("update") - 1 ELSE Sent("update")
    BY <2>1, <2>3, ServeCounts DEF Counted
  <2>5. Len(updates') = IF Head(requests).kind = "update" /\ ready = "open"
                          THEN Len(updates) + 1 ELSE Len(updates)
    <3>1. CASE tock
      <4>1. /\ Head(requests).kind = "update" /\ updates' = Answer(Rest(updates))
        BY <3>1 DEF tock, Serving
      <4>2. Rest(updates) \in Seq(Update)
        <5>1. Rest(updates) \in Seq(TrueUpdate(turn')) /\ TrueUpdate(turn') \subseteq Update
          BY RestIsTrue DEF IInv, Channels, TrueUpdate
        <5> QED
          BY <5>1, SeqMonotonic
      <4>3. turn' \in Turn
        BY DEF IInv, PageTypes
      <4> QED
        BY <4>1, <4>2, <4>3, AnswerCounts, RestCounts DEF Counted
    <3>2. CASE refreshScreen
      BY <3>2 DEF refreshScreen, Serving
    <3>3. CASE handleTurn
      <4>1. Head(requests).kind = "turn" /\ updates' = Rest(updates)
        BY <3>3 DEF handleTurn, Serving
      <4> QED
        BY <4>1, RestCounts DEF Counted
    <3> QED
      BY <1>2, <3>1, <3>2, <3>3 DEF on_message
  <2>6. CASE ready = "open"
    <3>1. Loops' = Loops
      BY <1>1, <2>4, <2>5, <2>6 DEF Loops, Counted
    <3> QED
      BY <1>1, <2>6, <3>1 DEF LInv
  <2>7. CASE ready \in {"lost", "closed"}
    <3>1. Len(updates') = Len(updates)
      BY <2>5, <2>7
    <3> QED
      BY <1>1, <2>7, <3>1 DEF LInv
  <2> QED
    BY <2>2, <2>6, <2>7 DEF Counted
<1>3. CASE Others
  <2>1. requests' = Outdated(requests) /\ updates' = Outdated(updates)
    BY <1>3 DEF Others
  <2>2. Sent("update")' = Sent("update") /\ Len(updates') = Len(updates)
    BY <2>1, RestCounts DEF Counted, Sent, Count
  <2>3. requests = <<>> => requests' = <<>>
    BY <2>1 DEF Outdated
  <2> QED
    BY <1>1, <2>2, <2>3 DEF LInv, Loops
<1> QED
  BY <1>2, <1>3

LEMMA LoopStep == IInv /\ IInv' /\ Counted /\ Counted' /\ LInv /\ [Next]_vars => LInv'
<1> SUFFICES ASSUME IInv, IInv', Counted, Counted', LInv, [Next]_vars PROVE LInv'
  OBVIOUS
<1>1. CASE UNCHANGED vars
  BY <1>1 DEF vars, page, channels, history, LInv, Loops, Sent
<1> QED
  BY <1>1, PageLoops, ArriveLoops, LinkLoops, ServeLoops DEF Next, Page

\* However often the page reconnects, an open page has one request for an update
\* on its round trip and one more per timer that outlived its socket, and never
\* more of them than it has made sockets (webfort.js:427-441).
THEOREM LoopsAreBounded == Spec => []OneLoop
<1>1. IInv /\ LInv => OneLoop
  <2> SUFFICES ASSUME IInv, LInv, ready = "open"
               PROVE  /\ ~choked => Loops = 1 + strays
                      /\ Loops <= 1 + strays /\ 1 + strays <= made
    BY DEF OneLoop
  <2>1. orphans \in Nat /\ strays \in Nat /\ made \in Nat
    BY DEF IInv, PageTypes
  <2>2. orphans + 1 + strays <= made => 1 + strays <= made
    BY <2>1
  <2>3. Loops <= 1 + strays /\ 1 + strays <= Loops => Loops = 1 + strays
    BY <2>1, Numbers DEF Loops, Counted
  <2> QED
    BY <2>2, <2>3 DEF LInv
<1> QED
  BY <1>1, Numbers, Invariance, LoopInit, LoopStep, PTL DEF Spec
================================================================================
