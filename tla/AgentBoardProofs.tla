-------------------------- MODULE AgentBoardProofs --------------------------
(***************************************************************************)
(* Theorems about AgentBoard for every number of calls, members and        *)
(* events: the type invariant, that the board misses no waiting call, and  *)
(* that it shows the pauses of the agents as they are.                     *)
(***************************************************************************)
EXTENDS AgentBoard, TLAPS

-----------------------------------------------------------------------------
(* Types.                                                                  *)

LEMMA BlankType == Blank \in Snapshot
  BY DEF Blank, Snapshot

LEMMA TypeInitial == Init => TypeOK
  <1> SUFFICES ASSUME Init PROVE TypeOK
    OBVIOUS
  <1>1. pbx \in Exchange
    BY BoardAssumption DEF Init, Exchange
  <1>2. page \in Page
    BY BlankType DEF Init, Page
  <1>3. QED
    BY <1>1, <1>2 DEF Init, TypeOK

(* Whatever happens on the way has a name.                                 *)
LEMMA SufferType ==
  ASSUME TypeOK, NEW happened \in SUBSET Mishaps, Suffer(happened)
  PROVE  mishaps' \subseteq Mishaps
  BY DEF Suffer, TypeOK

(* The events of the exchange.                                             *)
LEMMA AnnounceType ==
  ASSUME TypeOK, NEW event, Announce(event),
         Number \in 1..MaxEvents => event \in Event
  PROVE  events' \subseteq Event /\ Number \in 1..MaxEvents
  <1>1. pbx.announced \in 0..MaxEvents
    BY DEF TypeOK, Exchange
  <1>2. Number \in 1..MaxEvents
    BY <1>1, BoardAssumption DEF Announce, Number
  <1>3. QED
    BY <1>2 DEF Announce, TypeOK

LEMMA TypeExchange ==
  ASSUME TypeOK,
         \/ \E call \in Calls : Join(call) \/ Leave(call)
         \/ \E row \in Row : Pause(row) \/ ChangeStatus(row) \/ RemoveMember(row) \/ AddMember(row)
  PROVE  TypeOK'
  <1>1. ASSUME NEW call \in Calls, Join(call) PROVE TypeOK'
    <2>1. Announce([kind |-> "Join", call |-> call, n |-> Number])
      BY <1>1 DEF Join
    <2>2. Number \in 1..MaxEvents => [kind |-> "Join", call |-> call, n |-> Number] \in Event
      BY DEF Event
    <2>3. events' \subseteq Event /\ Number \in 1..MaxEvents
      BY <2>1, <2>2, AnnounceType
    <2>4. pbx' \in Exchange
      <3> DEFINE w == pbx.waiting \cup {call}
                 k == Number
      <3>1. w \in SUBSET Calls /\ k \in 0..MaxEvents
        BY <1>1, <2>3 DEF TypeOK, Exchange
      <3>2. pbx' = [pbx EXCEPT !.waiting = w, !.announced = k]
        BY <1>1 DEF Join
      <3>3. pbx \in Exchange
        BY DEF TypeOK
      <3> HIDE DEF w, k
      <3>4. QED
        BY <3>1, <3>2, <3>3 DEF Exchange
    <2>5. QED
      BY <1>1, <2>3, <2>4 DEF Join, TypeOK
  <1>2. ASSUME NEW call \in Calls, Leave(call) PROVE TypeOK'
    <2>1. Announce([kind |-> "Leave", call |-> call, n |-> Number])
      BY <1>2 DEF Leave
    <2>2. Number \in 1..MaxEvents => [kind |-> "Leave", call |-> call, n |-> Number] \in Event
      BY DEF Event
    <2>3. events' \subseteq Event /\ Number \in 1..MaxEvents
      BY <2>1, <2>2, AnnounceType
    <2>4. pbx' \in Exchange
      <3> DEFINE w == pbx.waiting \ {call}
                 l == pbx.left \cup {call}
                 k == Number
      <3>1. w \in SUBSET Calls /\ l \in SUBSET Calls /\ k \in 0..MaxEvents
        BY <1>2, <2>3 DEF TypeOK, Exchange
      <3>2. pbx' = [pbx EXCEPT !.waiting = w, !.left = l, !.announced = k]
        BY <1>2 DEF Leave
      <3>3. pbx \in Exchange
        BY DEF TypeOK
      <3> HIDE DEF w, l, k
      <3>4. QED
        BY <3>1, <3>2, <3>3 DEF Exchange
    <2>5. QED
      BY <1>2, <2>3, <2>4 DEF Leave, TypeOK
  <1>3. ASSUME NEW row \in Row, Pause(row) PROVE TypeOK'
    <2>1. Announce([kind |-> "Paused", row |-> row, paused |-> row \notin pbx.paused, n |-> Number])
      BY <1>3 DEF Pause
    <2>2. Number \in 1..MaxEvents => [kind |-> "Paused", row |-> row, paused |-> row \notin pbx.paused, n |-> Number] \in Event
      BY DEF Event
    <2>3. events' \subseteq Event /\ Number \in 1..MaxEvents
      BY <2>1, <2>2, AnnounceType
    <2>4. pbx' \in Exchange
      <3> DEFINE p == IF row \in pbx.paused THEN pbx.paused \ {row} ELSE pbx.paused \cup {row}
                 k == Number
      <3>1. p \in SUBSET Row /\ k \in 0..MaxEvents
        BY <1>3, <2>3 DEF TypeOK, Exchange
      <3>2. pbx' = [pbx EXCEPT !.paused = p, !.announced = k]
        BY <1>3 DEF Pause
      <3>3. pbx \in Exchange
        BY DEF TypeOK
      <3> HIDE DEF p, k
      <3>4. QED
        BY <3>1, <3>2, <3>3 DEF Exchange
    <2>5. QED
      BY <1>3, <2>3, <2>4 DEF Pause, TypeOK
  <1>4. ASSUME NEW row \in Row, ChangeStatus(row) PROVE TypeOK'
    <2>1. Announce([kind |-> "Status", row |-> row, paused |-> row \in pbx.paused, n |-> Number])
      BY <1>4 DEF ChangeStatus
    <2>2. Number \in 1..MaxEvents => [kind |-> "Status", row |-> row, paused |-> row \in pbx.paused, n |-> Number] \in Event
      BY DEF Event
    <2>3. events' \subseteq Event /\ Number \in 1..MaxEvents
      BY <2>1, <2>2, AnnounceType
    <2>4. pbx' \in Exchange
      <3> DEFINE k == Number
      <3>1. k \in 0..MaxEvents
        BY <1>4, <2>3 DEF TypeOK, Exchange
      <3>2. pbx' = [pbx EXCEPT !.announced = k]
        BY <1>4 DEF ChangeStatus
      <3>3. pbx \in Exchange
        BY DEF TypeOK
      <3> HIDE DEF k
      <3>4. QED
        BY <3>1, <3>2, <3>3 DEF Exchange
    <2>5. QED
      BY <1>4, <2>3, <2>4 DEF ChangeStatus, TypeOK
  <1>5. ASSUME NEW row \in Row, RemoveMember(row) PROVE TypeOK'
    <2>1. Announce([kind |-> "Removed", row |-> row, n |-> Number])
      BY <1>5 DEF RemoveMember
    <2>2. Number \in 1..MaxEvents => [kind |-> "Removed", row |-> row, n |-> Number] \in Event
      BY DEF Event
    <2>3. events' \subseteq Event /\ Number \in 1..MaxEvents
      BY <2>1, <2>2, AnnounceType
    <2>4. pbx' \in Exchange
      <3> DEFINE m == pbx.members \ {row}
                 p == pbx.paused \ {row}
                 k == Number
      <3>1. m \in SUBSET Row /\ p \in SUBSET Row /\ k \in 0..MaxEvents
        BY <1>5, <2>3 DEF TypeOK, Exchange
      <3>2. pbx' = [pbx EXCEPT !.members = m, !.paused = p, !.announced = k]
        BY <1>5 DEF RemoveMember
      <3>3. pbx \in Exchange
        BY DEF TypeOK
      <3> HIDE DEF m, p, k
      <3>4. QED
        BY <3>1, <3>2, <3>3 DEF Exchange
    <2>5. QED
      BY <1>5, <2>3, <2>4 DEF RemoveMember, TypeOK
  <1>6. ASSUME NEW row \in Row, AddMember(row) PROVE TypeOK'
    <2>1. Announce([kind |-> "Added", row |-> row, n |-> Number])
      BY <1>6 DEF AddMember
    <2>2. Number \in 1..MaxEvents => [kind |-> "Added", row |-> row, n |-> Number] \in Event
      BY DEF Event
    <2>3. events' \subseteq Event /\ Number \in 1..MaxEvents
      BY <2>1, <2>2, AnnounceType
    <2>4. pbx' \in Exchange
      <3> DEFINE m == pbx.members \cup {row}
                 k == Number
      <3>1. m \in SUBSET Row /\ k \in 0..MaxEvents
        BY <1>6, <2>3 DEF TypeOK, Exchange
      <3>2. pbx' = [pbx EXCEPT !.members = m, !.announced = k]
        BY <1>6 DEF AddMember
      <3>3. pbx \in Exchange
        BY DEF TypeOK
      <3> HIDE DEF m, k
      <3>4. QED
        BY <3>1, <3>2, <3>3 DEF Exchange
    <2>5. mishaps' \subseteq Mishaps
      BY <1>6, SufferType DEF AddMember, Mishaps
    <2>6. QED
      BY <1>6, <2>3, <2>4, <2>5 DEF AddMember, TypeOK
  <1>7. QED
    BY <1>1, <1>2, <1>3, <1>4, <1>5, <1>6

(* A handler of the page leaves lists of the page; none takes a call off.  *)
LEMMA ProcessShown ==
  ASSUME page.shown \in Snapshot, NEW event \in Event
  PROVE  /\ Process(event) \in Snapshot
         /\ page.shown.calls \subseteq Process(event).calls
         /\ event.kind = "Join" => event.call \in Process(event).calls
  <1>1. SetPaused(event) \in Snapshot /\ SetPaused(event).calls = page.shown.calls
    <2> DEFINE r == FindIndexedAgent(event.row)
               f == Flag(event.paused)
    <2>1. f \in {"absent", "free", "paused"}
      BY DEF Flag
    <2>2. SetPaused(event) = page.shown \/ SetPaused(event) = [page.shown EXCEPT !.rows[r] = f]
      BY DEF SetPaused
    <2> HIDE DEF r, f
    <2>3. QED
      BY <2>1, <2>2 DEF Snapshot
  <1>2. CASE event.kind = "Join"
    <2> DEFINE c == page.shown.calls \cup {event.call}
    <2>1. c \in SUBSET Calls /\ page.shown.calls \subseteq c /\ event.call \in c
      BY <1>2 DEF Event, Snapshot
    <2>2. Process(event) = [page.shown EXCEPT !.calls = c]
      BY <1>2 DEF Process
    <2> HIDE DEF c
    <2>3. QED
      BY <2>1, <2>2 DEF Snapshot
  <1>3. CASE event.kind \in {"Paused", "Status"}
    <2>1. Process(event) = SetPaused(event)
      BY <1>3 DEF Process
    <2>2. QED
      BY <1>1, <1>3, <2>1
  <1>4. CASE event.kind \notin {"Join", "Paused", "Status"}
    <2>1. Process(event) = page.shown
      BY <1>4 DEF Process, MembersAsTheyWere
    <2>2. QED
      BY <1>4, <2>1
  <1>5. QED
    BY <1>2, <1>3, <1>4

(* The way of the events.                                                  *)
LEMMA TypeDelivery ==
  ASSUME TypeOK, NEW event \in events, Drop(event) \/ Deliver(event)
  PROVE  TypeOK'
  <1>1. event \in Event /\ page.shown \in Snapshot /\ page \in Page
    BY DEF TypeOK, Page
  <1>2. CASE Drop(event)
    <2>1. mishaps' \subseteq Mishaps
      BY <1>2, SufferType DEF Drop, Mishaps
    <2>2. QED
      BY <1>2, <2>1 DEF Drop, TypeOK
  <1>3. CASE Deliver(event)
    <2>1. mishaps' \subseteq Mishaps
      BY <1>3, SufferType DEF Deliver
    <2>2. page' \in Page
      <3> DEFINE p == Process(event)
      <3>1. p \in Snapshot
        BY <1>1, ProcessShown
      <3>2. page' = page \/ page' = [page EXCEPT !.shown = p]
        BY <1>3 DEF Deliver
      <3> HIDE DEF p
      <3>3. QED
        BY <1>1, <3>1, <3>2 DEF Page
    <2>3. QED
      BY <1>3, <2>1, <2>2 DEF Deliver, TypeOK
  <1>4. QED
    BY <1>2, <1>3

(* The queries of the page.                                                *)
LEMMA TypeQueries ==
  ASSUME TypeOK, Query \/ QueryFails \/ LoadInitialData \/ RefreshData
  PROVE  TypeOK'
  <1>1. page \in Page
    BY DEF TypeOK
  <1>2. CASE Query
    <2> DEFINE a == [calls |-> pbx.waiting,
                     rows |-> [r \in Row |-> IF r \in pbx.members THEN Flag(r \in pbx.paused)
                                             ELSE "absent"]]
    <2>1. a \in Snapshot
      BY DEF TypeOK, Exchange, Snapshot, Flag
    <2>2. page' = [page EXCEPT !.answered = TRUE, !.answer = a]
      BY <1>2 DEF Query
    <2> HIDE DEF a
    <2>3. page' \in Page
      BY <1>1, <2>1, <2>2 DEF Page
    <2>4. QED
      BY <1>2, <2>3 DEF Query, TypeOK
  <1>3. CASE QueryFails
    <2>1. mishaps' \subseteq Mishaps
      BY <1>3, SufferType DEF QueryFails, Mishaps
    <2>2. page' \in Page
      BY <1>1, <1>3, BlankType DEF QueryFails, Page
    <2>3. QED
      BY <1>3, <2>1, <2>2 DEF QueryFails, TypeOK
  <1>4. CASE LoadInitialData
    <2>1. page' \in Page
      BY <1>1, <1>4, BlankType DEF LoadInitialData, Page
    <2>2. QED
      BY <1>4, <2>1 DEF LoadInitialData, TypeOK
  <1>5. CASE RefreshData
    <2>1. page' \in Page
      BY <1>1, <1>5 DEF RefreshData, Page
    <2>2. QED
      BY <1>5, <2>1 DEF RefreshData, TypeOK
  <1>6. QED
    BY <1>2, <1>3, <1>4, <1>5

(* Every step keeps the types.                                             *)
LEMMA TypeStep == TypeOK /\ [Next]_vars => TypeOK'
  <1> SUFFICES ASSUME TypeOK, [Next]_vars PROVE TypeOK'
    OBVIOUS
  <1>1. CASE UNCHANGED vars
    BY <1>1 DEF vars, TypeOK
  <1>2. CASE Next
    BY <1>2, TypeExchange, TypeDelivery, TypeQueries DEF Next
  <1>3. QED
    BY <1>1, <1>2

(* The exchange, the events on their way and the page have the values that *)
(* their definitions say, for any calls, members and number of events.     *)
THEOREM TypeCorrect == Spec => []TypeOK
  BY TypeInitial, TypeStep, PTL DEF Spec

-----------------------------------------------------------------------------
(* No waiting call is missed.                                              *)

(* A waiting call is accounted for: it is announced by an event on its     *)
(* way, or is in the answer that the page will show, or, when the page     *)
(* awaits no answer, the page shows it or has yet to ask for the first.    *)
Accounted(call) ==
  \/ \E event \in events : event.kind = "Join" /\ event.call = call
  \/ page.answered /\ call \in page.answer.calls
  \/ ~page.answered /\ (page.view = "loading" \/ call \in page.shown.calls)

Excused == ~page.audience \/ mishaps \cap {"stale", "dropped", "blank"} # {}

(* The inductive invariant behind WaitingShown.                            *)
BoardInv ==
  /\ TypeOK
  /\ page.view = "ready" => ~page.answered
  /\ Excused \/ \A call \in pbx.waiting : Accounted(call)

LEMMA BoardInitial == Init => BoardInv
  <1> SUFFICES ASSUME Init PROVE BoardInv
    OBVIOUS
  <1>1. page.view = "loading" /\ page.answered = FALSE
    BY DEF Init
  <1>2. QED
    BY <1>1, TypeInitial DEF BoardInv, Accounted

(* What the exchange does: a call that joins is announced.                 *)
LEMMA BoardExchange ==
  ASSUME BoardInv,
         \/ \E call \in Calls : Join(call) \/ Leave(call)
         \/ \E row \in Row : Pause(row) \/ ChangeStatus(row) \/ RemoveMember(row) \/ AddMember(row)
  PROVE  BoardInv'
  <1>1. TypeOK'
    BY TypeExchange DEF BoardInv
  <1>2. page' = page /\ events \subseteq events' /\ mishaps \subseteq mishaps'
    BY DEF Join, Leave, Pause, ChangeStatus, RemoveMember, AddMember, Announce, Suffer
  <1>3. ASSUME ~Excused', NEW call \in pbx'.waiting PROVE Accounted(call)'
    <2>1. ~Excused
      BY <1>2, <1>3 DEF Excused
    <2>2. CASE call \in pbx.waiting
      <3>1. Accounted(call)
        BY <2>1, <2>2 DEF BoardInv
      <3>2. QED
        BY <1>2, <3>1 DEF Accounted
    <2>3. CASE call \notin pbx.waiting
      <3>1. ~\E row \in Row : Pause(row) \/ ChangeStatus(row) \/ RemoveMember(row) \/ AddMember(row)
        BY <1>3, <2>3 DEF BoardInv, TypeOK, Exchange, Pause, ChangeStatus, RemoveMember, AddMember
      <3>2. ~\E c \in Calls : Leave(c)
        BY <1>3, <2>3 DEF BoardInv, TypeOK, Exchange, Leave
      <3>3. PICK c \in Calls : Join(c)
        BY <3>1, <3>2
      <3>4. c = call
        BY <1>3, <2>3, <3>3 DEF BoardInv, TypeOK, Exchange, Join
      <3>5. [kind |-> "Join", call |-> c, n |-> Number] \in events'
        BY <3>3 DEF Join, Announce
      <3>6. QED
        BY <3>4, <3>5 DEF Accounted
    <2>4. QED
      BY <2>2, <2>3
  <1>4. QED
    BY <1>1, <1>2, <1>3 DEF BoardInv

(* An event that arrives while the page awaits no answer is shown, whatever *)
(* came before it; otherwise it is one that came too early for the answer. *)
LEMMA BoardDelivery ==
  ASSUME BoardInv, NEW event \in events, Drop(event) \/ Deliver(event)
  PROVE  BoardInv'
  <1>1. TypeOK'
    BY TypeDelivery DEF BoardInv
  <1>2. event \in Event /\ page \in Page /\ page.shown \in Snapshot
    BY DEF BoardInv, TypeOK, Page
  <1>3. mishaps \subseteq mishaps' /\ pbx' = pbx /\ events' = events \ {event}
    BY DEF Drop, Deliver, Suffer
  <1>4. CASE Drop(event)
    <2>1. "dropped" \in mishaps'
      BY <1>4 DEF Drop, Suffer
    <2>2. page' = page
      BY <1>4 DEF Drop
    <2>3. QED
      BY <1>1, <2>1, <2>2 DEF BoardInv, Excused
  <1>5. CASE Deliver(event)
    <2> DEFINE p == Process(event)
    <2>1. /\ p \in Snapshot
          /\ page.shown.calls \subseteq p.calls
          /\ event.kind = "Join" => event.call \in p.calls
      BY <1>2, ProcessShown
    <2>2. page' = IF page.audience /\ page.view # "loading" THEN [page EXCEPT !.shown = p]
                  ELSE page
      BY <1>5 DEF Deliver
    <2>3. page.answered => "stale" \in mishaps'
      BY <1>5 DEF Deliver, Suffer, Mishaps
    <2> HIDE DEF p
    <2>4. /\ page'.view = page.view /\ page'.answered = page.answered
          /\ page'.answer = page.answer /\ page'.audience = page.audience
          /\ page'.shown.calls = IF page.audience /\ page.view # "loading" THEN p.calls
                                 ELSE page.shown.calls
      BY <1>2, <2>2 DEF Page
    <2>5. ASSUME ~Excused', NEW call \in pbx'.waiting PROVE Accounted(call)'
      <3>1. ~Excused /\ page.audience /\ ~page.answered
        BY <1>3, <2>3, <2>4, <2>5 DEF Excused
      <3>2. Accounted(call)
        BY <1>3, <2>5, <3>1 DEF BoardInv
      <3>3. CASE event.kind = "Join" /\ event.call = call
        BY <2>1, <2>4, <3>1, <3>3 DEF Accounted
      <3>4. CASE ~(event.kind = "Join" /\ event.call = call)
        BY <1>3, <2>1, <2>4, <3>1, <3>2, <3>4 DEF Accounted
      <3>5. QED
        BY <3>3, <3>4
    <2>6. QED
      BY <1>1, <2>4, <2>5 DEF BoardInv
  <1>6. QED
    BY <1>4, <1>5

(* A query answers with all the waiting calls, or fails.                   *)
LEMMA BoardQueries ==
  ASSUME BoardInv, Query \/ QueryFails \/ LoadInitialData \/ RefreshData
  PROVE  BoardInv'
  <1>1. TypeOK'
    BY TypeQueries DEF BoardInv
  <1>2. page \in Page
    BY DEF BoardInv, TypeOK
  <1>3. CASE Query
    <2> DEFINE rows == [r \in Row |-> IF r \in pbx.members THEN Flag(r \in pbx.paused)
                                      ELSE "absent"]
               a == [calls |-> pbx.waiting, rows |-> rows]
    <2>1. a.calls = pbx.waiting
      OBVIOUS
    <2>2. /\ page' = [page EXCEPT !.answered = TRUE, !.answer = a]
          /\ pbx' = pbx /\ page.view # "ready"
      BY <1>3 DEF Query
    <2> HIDE DEF a
    <2>3. page'.answered = TRUE /\ page'.answer = a /\ page'.view = page.view
      BY <1>2, <2>2 DEF Page
    <2>4. \A call \in pbx'.waiting : Accounted(call)'
      BY <2>1, <2>2, <2>3 DEF Accounted
    <2>5. QED
      BY <1>1, <2>2, <2>3, <2>4 DEF BoardInv
  <1>4. CASE QueryFails
    <2>1. "blank" \in mishaps'
      BY <1>4 DEF QueryFails, Suffer
    <2>2. page'.view # "ready"
      BY <1>2, <1>4 DEF QueryFails, Page
    <2>3. QED
      BY <1>1, <2>1, <2>2 DEF BoardInv, Excused
  <1>5. CASE LoadInitialData
    <2>1. /\ page.answered /\ page'.answered = FALSE
          /\ page'.shown = page.answer /\ page'.audience = page.audience
      BY <1>2, <1>5 DEF LoadInitialData, Page
    <2>2. pbx' = pbx /\ events' = events /\ mishaps' = mishaps
      BY <1>5 DEF LoadInitialData
    <2>3. ASSUME ~Excused', NEW call \in pbx'.waiting PROVE Accounted(call)'
      <3>1. ~Excused
        BY <2>1, <2>2, <2>3 DEF Excused
      <3>2. Accounted(call)
        BY <2>2, <2>3, <3>1 DEF BoardInv
      <3>3. QED
        BY <2>1, <2>2, <3>2 DEF Accounted
    <2>4. QED
      BY <1>1, <2>1, <2>3 DEF BoardInv
  <1>6. CASE RefreshData
    <2>1. /\ page.view = "ready" /\ page'.view = "refreshing"
          /\ page'.answered = page.answered /\ page'.answer = page.answer
          /\ page'.shown = page.shown /\ page'.audience = page.audience
      BY <1>2, <1>6 DEF RefreshData, Page
    <2>2. pbx' = pbx /\ events' = events /\ mishaps' = mishaps
      BY <1>6 DEF RefreshData
    <2>3. QED
      BY <1>1, <2>1, <2>2 DEF BoardInv, Excused, Accounted
  <1>7. QED
    BY <1>3, <1>4, <1>5, <1>6

LEMMA BoardStep == BoardInv /\ [Next]_vars => BoardInv'
  <1> SUFFICES ASSUME BoardInv, [Next]_vars PROVE BoardInv'
    OBVIOUS
  <1>1. CASE UNCHANGED vars
    BY <1>1 DEF vars, BoardInv, TypeOK, Excused, Accounted
  <1>2. CASE Next
    BY <1>2, BoardExchange, BoardDelivery, BoardQueries DEF Next
  <1>3. QED
    BY <1>1, <1>2

(* Every waiting call stays accounted for, however the events overtake     *)
(* each other on their way through the threads and the jobs.               *)
THEOREM BoardInvCorrect == Spec => []BoardInv
  BY BoardInitial, BoardStep, PTL DEF Spec

LEMMA AccountedShown == BoardInv => WaitingShown
  <1> SUFFICES ASSUME BoardInv, Settled, ~Excused
               PROVE  pbx.waiting \subseteq page.shown.calls
    BY DEF WaitingShown, Excused
  <1>1. page.view = "ready" /\ events = {} /\ ~page.answered
    BY DEF BoardInv, Settled
  <1>2. \A call \in pbx.waiting : Accounted(call)
    BY DEF BoardInv
  <1>3. QED
    BY <1>1, <1>2 DEF Accounted

(* Once every event has arrived, the board of the user who connected the   *)
(* exchange shows every waiting call, unless an event was lost or came     *)
(* between a query and its answer, or a query failed.                      *)
THEOREM WaitingCallsShown == Spec => []WaitingShown
  BY BoardInvCorrect, AccountedShown, PTL

-----------------------------------------------------------------------------
(* The pause of an agent is right.                                         *)

(* An event about the row is on its way.                                   *)
Told(row) ==
  \E event \in events : event.kind \in {"Paused", "Status"} /\ event.row = row

(* What a list says of a member is what the exchange says, unless an event *)
(* that tells otherwise is still to come.                                  *)
RightIn(list, row) ==
  /\ list.rows[row] # "absent"
  /\ Told(row) \/ list.rows[row] = Flag(row \in pbx.paused)

(* The inductive invariant behind PauseShown: the answer on its way and    *)
(* what the page shows are right about every member.                       *)
PauseInv ==
  page.audience /\ mishaps = {} =>
    \A row \in pbx.members :
      /\ page.answered => RightIn(page.answer, row)
      /\ page.view # "loading" => RightIn(page.shown, row)

LEMMA PauseInitial == Init => PauseInv
  BY DEF Init, PauseInv

(* The exchange announces what it changes.                                 *)
LEMMA PauseExchange ==
  ASSUME TypeOK, PauseInv,
         \/ \E call \in Calls : Join(call) \/ Leave(call)
         \/ \E row \in Row : Pause(row) \/ ChangeStatus(row) \/ RemoveMember(row) \/ AddMember(row)
  PROVE  PauseInv'
  <1>1. page' = page /\ events \subseteq events' /\ mishaps \subseteq mishaps'
    BY DEF Join, Leave, Pause, ChangeStatus, RemoveMember, AddMember, Announce, Suffer
  <1>2. pbx \in Exchange
    BY DEF TypeOK
  <1>3. SUFFICES ASSUME page.audience, mishaps' = {}, NEW row \in pbx'.members
                 PROVE  /\ page.answered => RightIn(page.answer, row)'
                        /\ page.view # "loading" => RightIn(page.shown, row)'
    BY <1>1 DEF PauseInv
  <1>4. ~\E r \in Row : AddMember(r)
    BY <1>3 DEF AddMember, Suffer
  <1>5. /\ row \in pbx.members
        /\ Told(row)' \/ (row \in pbx'.paused <=> row \in pbx.paused)
    <2>1. CASE \E call \in Calls : Join(call) \/ Leave(call)
      BY <1>2, <1>3, <2>1 DEF Join, Leave, Exchange
    <2>2. ASSUME NEW r \in Row, Pause(r)
          PROVE  /\ row \in pbx.members
                 /\ Told(row)' \/ (row \in pbx'.paused <=> row \in pbx.paused)
      <3> DEFINE ps == IF r \in pbx.paused THEN pbx.paused \ {r} ELSE pbx.paused \cup {r}
                 said == [kind |-> "Paused", row |-> r, paused |-> r \notin pbx.paused,
                          n |-> Number]
      <3>1. pbx' = [pbx EXCEPT !.paused = ps, !.announced = Number]
        BY <2>2 DEF Pause
      <3>2. \A x : x # r => (x \in ps <=> x \in pbx.paused)
        OBVIOUS
      <3>3. said \in events' /\ said.kind = "Paused" /\ said.row = r
        BY <2>2 DEF Pause, Announce
      <3>4. Told(r)'
        BY <3>3 DEF Told
      <3> HIDE DEF ps
      <3>5. pbx'.paused = ps /\ pbx'.members = pbx.members
        BY <1>2, <3>1 DEF Exchange
      <3>6. QED
        BY <1>3, <3>2, <3>4, <3>5
    <2>3. ASSUME NEW r \in Row, ChangeStatus(r) \/ RemoveMember(r)
          PROVE  /\ row \in pbx.members
                 /\ row \in pbx'.paused <=> row \in pbx.paused
      BY <1>2, <1>3, <2>3 DEF ChangeStatus, RemoveMember, Exchange
    <2>4. QED
      BY <1>4, <2>1, <2>2, <2>3
  <1>6. Told(row) => Told(row)'
    BY <1>1 DEF Told
  <1>7. mishaps = {}
    BY <1>1, <1>3
  <1>8. CASE Told(row)'
    BY <1>1, <1>3, <1>5, <1>7, <1>8 DEF PauseInv, RightIn
  <1>9. CASE ~Told(row)'
    <2>1. Flag(row \in pbx'.paused) = Flag(row \in pbx.paused)
      BY <1>5, <1>9 DEF Flag
    <2>2. QED
      BY <1>1, <1>3, <1>5, <1>6, <1>7, <1>9, <2>1 DEF PauseInv, RightIn
  <1>10. QED
    BY <1>8, <1>9

(* An event of a row is the last of it to arrive, and says what is so, or  *)
(* another one is to come.                                                 *)
LEMMA PauseDelivery ==
  ASSUME TypeOK, PauseInv, NEW event \in events, Drop(event) \/ Deliver(event)
  PROVE  PauseInv'
  <1>1. event \in Event /\ page \in Page /\ page.shown \in Snapshot
    BY DEF TypeOK, Page
  <1>2. mishaps \subseteq mishaps' /\ pbx' = pbx /\ events' = events \ {event}
    BY DEF Drop, Deliver, Suffer
  <1>3. CASE Drop(event)
    <2>1. "dropped" \in mishaps'
      BY <1>3 DEF Drop, Suffer
    <2>2. QED
      BY <2>1 DEF PauseInv
  <1>4. CASE Deliver(event)
    <2> DEFINE p == Process(event)
    <2>1. page' = IF page.audience /\ page.view # "loading" THEN [page EXCEPT !.shown = p]
                  ELSE page
      BY <1>4 DEF Deliver
    <2>2. /\ page.answered => "stale" \in mishaps'
          /\ Late(event) => "overtaken" \in mishaps'
          /\ Elsewhere(event) => "misplaced" \in mishaps'
      BY <1>4 DEF Deliver, Suffer, Mishaps
    <2> HIDE DEF p
    <2>3. /\ page'.view = page.view /\ page'.answered = page.answered
          /\ page'.answer = page.answer /\ page'.audience = page.audience
          /\ page.audience /\ page.view # "loading" => page'.shown = p
      BY <1>1, <2>1 DEF Page
    <2>4. SUFFICES ASSUME page.audience, mishaps' = {}, NEW row \in pbx.members,
                          page.view # "loading"
                   PROVE  RightIn(page.shown, row)'
      BY <1>2, <2>2, <2>3 DEF PauseInv
    <2>5. /\ mishaps = {} /\ ~Late(event) /\ ~Elsewhere(event)
          /\ page'.shown = p /\ RightIn(page.shown, row)
      BY <1>2, <2>2, <2>3, <2>4 DEF PauseInv
    <2>6. row \in Row
      BY DEF TypeOK, Exchange
    <2>7. CASE event.kind \in {"Paused", "Status"} /\ event.row = row
      <3>1. row \in Candidates(row) /\ FindIndexedAgent(row) = row
        BY <2>5, <2>6, <2>7 DEF RightIn, Candidates, Elsewhere
      <3>2. p = [page.shown EXCEPT !.rows[row] = Flag(event.paused)]
        BY <2>7, <3>1 DEF p, Process, SetPaused
      <3>3. p.rows[row] = Flag(event.paused) /\ Flag(event.paused) # "absent"
        BY <1>1, <2>6, <3>2 DEF Snapshot, Flag
      <3>4. CASE Told(row)'
        BY <2>5, <3>3, <3>4 DEF RightIn
      <3>5. CASE ~Told(row)'
        <4>1. \A e \in events :
                e.kind \in {"Paused", "Status"} /\ e.row = event.row => e.n =< event.n
          <5> SUFFICES ASSUME NEW e \in events, e.kind \in {"Paused", "Status"},
                              e.row = event.row
                       PROVE  e.n =< event.n
            OBVIOUS
          <5>1. e = event
            BY <1>2, <2>7, <3>5 DEF Told
          <5>2. event.n \in Nat
            BY <1>1, BoardAssumption DEF Event
          <5>3. QED
            BY <5>1, <5>2
        <4>2. event.paused = (row \in pbx.paused)
          BY <2>5, <2>7, <4>1 DEF Late
        <4>3. QED
          BY <1>2, <2>5, <3>3, <4>2 DEF RightIn
      <3>6. QED
        BY <3>4, <3>5
    <2>8. CASE ~(event.kind \in {"Paused", "Status"} /\ event.row = row)
      <3>1. p.rows[row] = page.shown.rows[row]
        <4>1. CASE event.kind = "Join"
          BY <1>1, <4>1 DEF p, Process, MembersAsTheyWere, Snapshot
        <4>2. CASE event.kind \in {"Paused", "Status"}
          <5> DEFINE f == FindIndexedAgent(event.row)
                     flag == Flag(event.paused)
          <5>1. p = page.shown \/ (f # row /\ p = [page.shown EXCEPT !.rows[f] = flag])
            BY <2>5, <2>8, <4>2 DEF p, Process, SetPaused, Elsewhere
          <5> HIDE DEF f, flag
          <5>2. QED
            BY <1>1, <2>6, <5>1 DEF Snapshot
        <4>3. CASE event.kind \notin {"Join", "Paused", "Status"}
          BY <4>3 DEF p, Process, MembersAsTheyWere
        <4>4. QED
          BY <4>1, <4>2, <4>3
      <3>2. Told(row) => Told(row)'
        BY <1>2, <2>8 DEF Told
      <3>3. QED
        BY <1>2, <2>5, <3>1, <3>2 DEF RightIn
    <2>9. QED
      BY <2>7, <2>8
  <1>5. QED
    BY <1>3, <1>4

(* A query answers with the flag of every member, or fails.                *)
LEMMA PauseQueries ==
  ASSUME TypeOK, PauseInv, Query \/ QueryFails \/ LoadInitialData \/ RefreshData
  PROVE  PauseInv'
  <1>1. page \in Page /\ pbx.members \subseteq Row
    BY DEF TypeOK, Exchange
  <1>2. CASE Query
    <2> DEFINE rows == [r \in Row |-> IF r \in pbx.members THEN Flag(r \in pbx.paused)
                                      ELSE "absent"]
               a == [calls |-> pbx.waiting, rows |-> rows]
    <2>1. \A r \in pbx.members : a.rows[r] = Flag(r \in pbx.paused)
      BY <1>1
    <2>2. /\ page' = [page EXCEPT !.answered = TRUE, !.answer = a]
          /\ pbx' = pbx /\ events' = events /\ mishaps' = mishaps
      BY <1>2 DEF Query
    <2> HIDE DEF a
    <2>3. /\ page'.answer = a /\ page'.view = page.view /\ page'.shown = page.shown
          /\ page'.audience = page.audience
      BY <1>1, <2>2 DEF Page
    <2>4. \A r : Told(r)' <=> Told(r)
      BY <2>2 DEF Told
    <2>5. QED
      BY <2>1, <2>2, <2>3, <2>4 DEF PauseInv, RightIn, Flag
  <1>3. CASE QueryFails
    <2>1. "blank" \in mishaps'
      BY <1>3 DEF QueryFails, Suffer
    <2>2. QED
      BY <2>1 DEF PauseInv
  <1>4. CASE LoadInitialData
    <2>1. /\ page.answered /\ page'.answered = FALSE
          /\ page'.shown = page.answer /\ page'.audience = page.audience
      BY <1>1, <1>4 DEF LoadInitialData, Page
    <2>2. pbx' = pbx /\ events' = events /\ mishaps' = mishaps
      BY <1>4 DEF LoadInitialData
    <2>3. QED
      BY <2>1, <2>2 DEF PauseInv, RightIn, Told
  <1>5. CASE RefreshData
    <2>1. /\ page.view = "ready"
          /\ page'.answered = page.answered /\ page'.answer = page.answer
          /\ page'.shown = page.shown /\ page'.audience = page.audience
      BY <1>1, <1>5 DEF RefreshData, Page
    <2>2. pbx' = pbx /\ events' = events /\ mishaps' = mishaps
      BY <1>5 DEF RefreshData
    <2>3. QED
      BY <2>1, <2>2 DEF PauseInv, RightIn, Told
  <1>6. QED
    BY <1>2, <1>3, <1>4, <1>5

LEMMA PauseStep == TypeOK /\ PauseInv /\ [Next]_vars => PauseInv'
  <1> SUFFICES ASSUME TypeOK, PauseInv, [Next]_vars PROVE PauseInv'
    OBVIOUS
  <1>1. CASE UNCHANGED vars
    BY <1>1 DEF vars, PauseInv, RightIn, Told
  <1>2. CASE Next
    BY <1>2, PauseExchange, PauseDelivery, PauseQueries DEF Next
  <1>3. QED
    BY <1>1, <1>2

LEMMA PauseSettled == BoardInv /\ PauseInv => PauseShown
  <1> SUFFICES ASSUME BoardInv, PauseInv, Settled, page.audience, mishaps = {},
                      NEW r \in pbx.members
               PROVE  page.shown.rows[r] = Flag(r \in pbx.paused)
    BY DEF PauseShown
  <1>1. page.view = "ready" /\ events = {}
    BY DEF Settled
  <1>2. RightIn(page.shown, r) /\ ~Told(r)
    BY <1>1 DEF PauseInv, Told
  <1>3. QED
    BY <1>2 DEF RightIn

(* Nor does the board show the wrong pause of an agent, unless besides two *)
(* events of his row changed places, one went to another row, or he joined *)
(* the queue again.                                                        *)
THEOREM PausesShown == Spec => []PauseShown
  <1>1. Init => PauseInv
    BY PauseInitial
  <1>2. BoardInv /\ PauseInv /\ [Next]_vars => PauseInv'
    BY PauseStep DEF BoardInv
  <1>3. Spec => []BoardInv
    BY BoardInvCorrect
  <1>4. QED
    BY <1>1, <1>2, <1>3, PauseSettled, PTL DEF Spec
=============================================================================
