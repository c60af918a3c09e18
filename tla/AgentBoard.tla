----------------------------- MODULE AgentBoard -----------------------------
(***************************************************************************)
(* The call-centre board of issabel_connector: a page with the waiting     *)
(* calls and the agents, which loads them with one query of the exchange   *)
(* and then follows the exchange's events.  The page is                    *)
(* issabel_dashboard.js with its event handlers; an event reaches it       *)
(* through a thread (event_dispatcher.py), a queue job                     *)
(* (issabel_event_processor.py, handlers.py) and the bus (base.py).        *)
(*                                                                         *)
(* The exchange is code outside the repository: calls join and leave it,   *)
(* agents are paused, removed and added, and it announces each change.  An *)
(* agent's row stands for its "paused" flag, whose companions (status,     *)
(* in_call) travel with it.                                                *)
(***************************************************************************)
EXTENDS Naturals, Sequences, FiniteSets

CONSTANTS
  Calls,         \* the calls that may join a queue
  Agents, Queues,
  Rows,          \* the members <<agent, queue>>, in the order a query lists them
  Includes,      \* the pairs <<a, b>> where the name of a contains that of b
  MaxEvents,     \* bound: events the exchange announces
  MaxMishaps     \* bound: kinds of mishaps in a behaviour

ASSUME BoardAssumption ==
  /\ Rows \in Seq(Agents \X Queues) /\ Includes \subseteq Agents \X Agents
  /\ MaxEvents \in Nat /\ MaxMishaps \in Nat

VARIABLES
  pbx,        \* the exchange: who waits, who left, the members, who is paused
  events,     \* the events announced and not yet delivered
  page,       \* the board of one user
  mishaps     \* what went wrong: see Mishaps

vars == <<pbx, events, page, mishaps>>

Row == {Rows[k] : k \in 1..Len(Rows)}

Exchange ==
  [waiting : SUBSET Calls, left : SUBSET Calls, members : SUBSET Row,
   paused : SUBSET Row, announced : 0..MaxEvents]

(* The kinds of event.  An event has its number, for the order of the      *)
(* announcements, and what the notification on the bus says.               *)
Event ==
  [kind : {"Join", "Leave"}, call : Calls, n : 1..MaxEvents]
    \cup [kind : {"Paused", "Status"}, row : Row, paused : BOOLEAN, n : 1..MaxEvents]
    \cup [kind : {"Added", "Removed"}, row : Row, n : 1..MaxEvents]

(* What a query answers: the calls, and for every member its flag.         *)
Snapshot == [calls : SUBSET Calls, rows : [Row -> {"absent", "free", "paused"}]]
Blank == [calls |-> {}, rows |-> [r \in Row |-> "absent"]]

(* view: isLoading, before and after the page has subscribed.  answered:   *)
(* the query of the page has run, and answer is on its way.  audience:     *)
(* whether the user of the page is the one who connected the exchange.     *)
Page ==
  [view : {"loading", "refreshing", "ready"}, shown : Snapshot,
   answered : BOOLEAN, answer : Snapshot, audience : BOOLEAN]

(* stale: an event arrived between a query and its answer.  dropped: an    *)
(* event was lost on the way.  blank: a query failed.  overtaken: an event *)
(* arrived after a later one of its row.  misplaced: it was applied to     *)
(* another row.  rejoined: a member was removed and added again.           *)
Mishaps == {"stale", "dropped", "blank", "overtaken", "misplaced", "rejoined"}

TypeOK ==
  /\ pbx \in Exchange /\ events \subseteq Event /\ page \in Page
  /\ mishaps \subseteq Mishaps

Init ==
  /\ \E calls \in SUBSET Calls :
       pbx = [waiting |-> calls, left |-> {}, members |-> Row, paused |-> {},
              announced |-> 0]
  /\ events = {} /\ mishaps = {}
  /\ page \in [view : {"loading"}, shown : {Blank}, answered : {FALSE}, answer : {Blank},
               audience : BOOLEAN]

-----------------------------------------------------------------------------
(* The exchange.                                                           *)

Flag(paused) == IF paused THEN "paused" ELSE "free"

Suffer(happened) ==
  /\ mishaps' = mishaps \cup happened
  /\ Cardinality(mishaps') =< MaxMishaps

Announce(event) ==
  /\ pbx.announced < MaxEvents
  /\ events' = events \cup {event}

Number == pbx.announced + 1

Join(call) ==
  /\ call \notin pbx.waiting \cup pbx.left
  /\ Announce([kind |-> "Join", call |-> call, n |-> Number])
  /\ pbx' = [pbx EXCEPT !.waiting = @ \cup {call}, !.announced = Number]
  /\ UNCHANGED <<page, mishaps>>

(* The call is taken by an agent, is abandoned or hangs up.                *)
Leave(call) ==
  /\ call \in pbx.waiting
  /\ Announce([kind |-> "Leave", call |-> call, n |-> Number])
  /\ pbx' = [pbx EXCEPT !.waiting = @ \ {call}, !.left = @ \cup {call},
                        !.announced = Number]
  /\ UNCHANGED <<page, mishaps>>

Pause(row) ==
  /\ row \in pbx.members
  /\ Announce([kind |-> "Paused", row |-> row, paused |-> row \notin pbx.paused,
               n |-> Number])
  /\ pbx' = [pbx EXCEPT !.paused = IF row \in @ THEN @ \ {row} ELSE @ \cup {row},
                        !.announced = Number]
  /\ UNCHANGED <<page, mishaps>>

ChangeStatus(row) ==
  /\ row \in pbx.members
  /\ Announce([kind |-> "Status", row |-> row, paused |-> row \in pbx.paused,
               n |-> Number])
  /\ pbx' = [pbx EXCEPT !.announced = Number]
  /\ UNCHANGED <<page, mishaps>>

RemoveMember(row) ==
  /\ row \in pbx.members
  /\ Announce([kind |-> "Removed", row |-> row, n |-> Number])
  /\ pbx' = [pbx EXCEPT !.members = @ \ {row}, !.paused = @ \ {row},
                        !.announced = Number]
  /\ UNCHANGED <<page, mishaps>>

AddMember(row) ==
  /\ row \in Row \ pbx.members
  /\ Announce([kind |-> "Added", row |-> row, n |-> Number])
  /\ pbx' = [pbx EXCEPT !.members = @ \cup {row}, !.announced = Number]
  /\ Suffer({"rejoined"})
  /\ UNCHANGED page

-----------------------------------------------------------------------------
(* The way of an event: handle_event starts a thread for each, which       *)
(* creates a job; the jobs run side by side.  So they arrive in any order. *)

(* The limit per second, the enqueuing and every handler on the server     *)
(* drop an event without a trace.                                          *)
Drop(event) ==
  /\ event \in events
  /\ events' = events \ {event}
  /\ Suffer({"dropped"})
  /\ UNCHANGED <<pbx, page>>

(* The handlers of the page.  findIndexedAgent looks for the first row     *)
(* whose agent is, or contains, the agent of the event: not for the queue. *)
Candidates(row) ==
  {r \in Row : /\ page.shown.rows[r] # "absent"
               /\ r[1] = row[1] \/ <<r[1], row[1]>> \in Includes}

Place(row) == CHOOSE k \in 1..Len(Rows) : Rows[k] = row

FindIndexedAgent(row) ==
  CHOOSE r \in Candidates(row) : \A s \in Candidates(row) : Place(r) =< Place(s)

SetPaused(event) ==
  IF Candidates(event.row) = {} THEN page.shown
  ELSE [page.shown EXCEPT !.rows[FindIndexedAgent(event.row)] = Flag(event.paused)]

(* MUTANT: the handler of QueueCallerJoin, too, reads keys that the        *)
(* notification does not have.                                             *)
ProcessByKeys(event) ==
  IF event.kind \in {"Paused", "Status"} THEN SetPaused(event) ELSE page.shown

(* MUTANT: a status notification without the flag clears it.               *)
ProcessStatusFree(event) ==
  CASE event.kind = "Join" -> [page.shown EXCEPT !.calls = @ \cup {event.call}]
    [] event.kind = "Paused" -> SetPaused(event)
    [] event.kind = "Status" -> SetPaused([event EXCEPT !.paused = FALSE])
    [] OTHER -> page.shown

(* QueueMemberAdded and QueueMemberRemoved look for keys (Location,        *)
(* Interface, Queue) the notification does not have: no row comes or goes. *)
MembersAsTheyWere == page.shown

(* What the page shows after an event.  The handlers of QueueCallerLeave   *)
(* and QueueCallerAbandon, too, look for a key (Uniqueid) that is not      *)
(* there, and the server notifies no Hangup: nothing changes.              *)
Process(event) ==
  CASE event.kind = "Join" -> [page.shown EXCEPT !.calls = @ \cup {event.call}]
    [] event.kind \in {"Paused", "Status"} -> SetPaused(event)
    [] event.kind \in {"Added", "Removed"} -> MembersAsTheyWere
    [] OTHER -> page.shown

(* The event is the last of its row, but says what is no longer so.        *)
Late(event) ==
  /\ event.kind \in {"Paused", "Status"}
  /\ event.paused # (event.row \in pbx.paused)
  /\ \A e \in events : e.kind \in {"Paused", "Status"} /\ e.row = event.row => e.n =< event.n

Elsewhere(event) ==
  /\ event.kind \in {"Paused", "Status"}
  /\ Candidates(event.row) # {} /\ FindIndexedAgent(event.row) # event.row

(* _notify_dashboard sends to the user of the job: the one who connected.  *)
(* A page that still loads has not subscribed.                             *)
Deliver(event) ==
  /\ event \in events
  /\ events' = events \ {event}
  /\ page' = IF page.audience /\ page.view # "loading"
             THEN [page EXCEPT !.shown = Process(event)] ELSE page
  /\ Suffer({m \in Mishaps : \/ m = "stale" /\ page.answered
                             \/ m = "overtaken" /\ Late(event)
                             \/ m = "misplaced" /\ Elsewhere(event)})
  /\ UNCHANGED pbx

-----------------------------------------------------------------------------
(* The query of the page: get_dashboard_data.                              *)

Query ==
  /\ page.view # "ready" /\ ~page.answered
  /\ page' = [page EXCEPT !.answered = TRUE, !.answer =
       [calls |-> pbx.waiting,
        rows |-> [r \in Row |-> IF r \in pbx.members THEN Flag(r \in pbx.paused)
                                ELSE "absent"]]]
  /\ UNCHANGED <<pbx, events, mishaps>>

(* The exchange is not connected, or does not answer in time: an empty     *)
(* answer.                                                                 *)
QueryFails ==
  /\ page.view # "ready" /\ ~page.answered
  /\ page' = [page EXCEPT !.answered = TRUE, !.answer = Blank]
  /\ Suffer({"blank"})
  /\ UNCHANGED <<pbx, events>>

(* MUTANT: the lists of a failed query are left undefined.                 *)
LoadInitialDataUndefined ==
  /\ page.view # "ready" /\ page.answered
  /\ page' = [page EXCEPT !.view = "ready", !.answered = FALSE, !.answer = Blank,
                !.shown = IF page.answer = Blank THEN << >> ELSE page.answer]
  /\ UNCHANGED <<pbx, events, mishaps>>

LoadInitialData ==
  /\ page.view # "ready" /\ page.answered
  /\ page' = [page EXCEPT !.view = "ready", !.shown = page.answer, !.answered = FALSE,
                          !.answer = Blank]
  /\ UNCHANGED <<pbx, events, mishaps>>

RefreshData ==
  /\ page.view = "ready"
  /\ page' = [page EXCEPT !.view = "refreshing"]
  /\ UNCHANGED <<pbx, events, mishaps>>

Next ==
  \/ \E call \in Calls : Join(call) \/ Leave(call)
  \/ \E row \in Row : Pause(row) \/ ChangeStatus(row) \/ RemoveMember(row) \/ AddMember(row)
  \/ \E event \in events : Drop(event) \/ Deliver(event)
  \/ Query \/ QueryFails \/ LoadInitialData \/ RefreshData

Spec == Init /\ [][Next]_vars

-----------------------------------------------------------------------------
(* Properties.                                                             *)

Settled == page.view = "ready" /\ events = {}

(* The board of the user who connected the exchange does not miss a        *)
(* waiting call once every event has arrived, in whatever order they did,  *)
(* unless one was lost, came between a query and its answer, or a query    *)
(* failed (issabel_dashboard.js, QueueCallerJoinHandler).                  *)
WaitingShown ==
  (Settled /\ page.audience /\ mishaps \cap {"stale", "dropped", "blank"} = {})
    => pbx.waiting \subseteq page.shown.calls

(* Nor does it show the wrong pause of an agent, unless besides two events *)
(* of the row changed places, one went to another row, or the member       *)
(* joined the queue again (findIndexedAgent, QueueMemberPauseHandler,      *)
(* QueueMemberStatusHandler).                                              *)
PauseShown ==
  (Settled /\ page.audience /\ mishaps = {}) =>
    \A r \in pbx.members : page.shown.rows[r] = Flag(r \in pbx.paused)

(* A call that has left the queue is taken off the board of the user who   *)
(* connected the exchange: "Remover llamada cuando es atendida"            *)
(* (QueueCallerLeaveHandler in call_handlers.js).                          *)
LeftRemoved ==
  (Settled /\ page.audience /\ mishaps = {}) => page.shown.calls \subseteq pbx.waiting

(* The events reach every user: "Enviar a todos los usuarios conectados"   *)
(* (_notify_dashboard in base.py).                                         *)
EveryoneTold ==
  (Settled /\ mishaps = {}) => pbx.waiting \subseteq page.shown.calls
=============================================================================
