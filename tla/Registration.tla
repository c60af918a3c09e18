---------------------------- MODULE Registration ----------------------------
(***************************************************************************)
(* How the softphone stays reachable: the WebSocket of Transport, opened   *)
(* again by attemptReconnection when it is lost, and the REGISTER that     *)
(* Registerer sends over it, and renews, to tell the registrar which       *)
(* connection leads to the user (src/addons/voip/static/lib/sip.js,        *)
(* registerer.js and user_agent_service.js).                               *)
(*                                                                         *)
(* A message is lost only with the connection it is on.                    *)
(***************************************************************************)
EXTENDS Naturals, FiniteSets

CONSTANTS
  MaxAttempts,      \* attempts after the first to open a lost connection
  MaxConnections,   \* bound: WebSockets opened
  MaxRequests,      \* bound: REGISTER transactions
  MaxMishaps        \* bound: kinds of mishaps in a behaviour

ASSUME BoundsAssumption ==
  /\ MaxAttempts \in Nat /\ MaxConnections \in Nat \ {0}
  /\ MaxRequests \in Nat /\ MaxMishaps \in Nat

VARIABLES
  transport,   \* the Transport, with the number of its WebSocket
  agent,       \* the UserAgent of the softphone, with the error it shows
  registerer,  \* the Registerer
  request,     \* the transaction of the last REGISTER
  net,         \* the REGISTER and the responses on their way
  registrar,   \* the WebSocket that the registrar has for the user; 0 is none
  mishaps      \* what went wrong: see Mishaps

vars == <<transport, agent, registerer, request, net, registrar, mishaps>>

Connections == 1..MaxConnections

(* state is that of the page: init waits for the first connection, or gave *)
(* up; the user agent runs; attemptReconnection gave up.  attempt is the   *)
(* attemptCount its timer will pass on.                                    *)
Agent ==
  [state : {"starting", "failed", "running", "lost"}, attemptingToReconnect : BOOLEAN,
   timer : BOOLEAN, attempt : 0..(MaxAttempts + 1), error : BOOLEAN]

(* The timers are true while they are armed.                               *)
Registerer ==
  [state : {"Initial", "Registered", "Unregistered"}, waiting : BOOLEAN,
   registrationTimer : BOOLEAN, registrationExpiredTimer : BOOLEAN]

(* delegate: a rejection is shown to the user.  challenged: the REGISTER   *)
(* has been sent again with credentials.                                   *)
Request ==
  [id : 0..MaxRequests, pending : BOOLEAN, delegate : BOOLEAN, challenged : BOOLEAN]

Message ==
  [kind : {"REGISTER", "Accept", "NoContact", "Other", "Challenge", "Brief", "Reject"},
   id : 1..MaxRequests]

(* ignored: attemptReconnection called register while the Registerer was   *)
(* waiting.  refused: the registrar refused the user.  contactless: it     *)
(* accepted without a contact.  slow: it let a REGISTER time out.          *)
Mishaps == {"ignored", "refused", "contactless", "slow"}

Init ==
  /\ transport = [state |-> "Connecting", ws |-> 1]
  /\ agent = [state |-> "starting", attemptingToReconnect |-> FALSE, timer |-> FALSE,
              attempt |-> 0, error |-> TRUE]
  /\ registerer = [state |-> "Initial", waiting |-> FALSE, registrationTimer |-> FALSE,
                   registrationExpiredTimer |-> FALSE]
  /\ request = [id |-> 0, pending |-> FALSE, delegate |-> FALSE, challenged |-> FALSE]
  /\ net = {} /\ registrar = 0 /\ mishaps = {}

-----------------------------------------------------------------------------
(* The Registerer.                                                         *)

Went(wrong) ==
  /\ mishaps' = mishaps \cup wrong
  /\ Cardinality(mishaps \cup wrong) <= MaxMishaps

(* unregistered: the timers are cleared.                                   *)
Unregistered ==
  [registerer EXCEPT !.state = "Unregistered", !.registrationTimer = FALSE,
                     !.registrationExpiredTimer = FALSE]

(* A new transaction for the REGISTER, over the connection there is.       *)
SendRegister(delegate, challenged) ==
  /\ request.id < MaxRequests
  /\ request' = [id |-> request.id + 1, pending |-> TRUE, delegate |-> delegate,
                 challenged |-> challenged]
  /\ net' = net \cup {[kind |-> "REGISTER", id |-> request.id + 1]}

(* register: refused while a REGISTER waits for its final response.        *)
Register(delegate) ==
  IF registerer.waiting
  THEN Went({"ignored"}) /\ UNCHANGED <<registerer, request, net>>
  ELSE /\ SendRegister(delegate, FALSE)
       /\ registerer' = [registerer EXCEPT !.waiting = TRUE]
       /\ UNCHANGED mishaps

(* The timer of the Registerer: a REGISTER without a delegate.  With no    *)
(* connection the transaction fails at once, as if the answer were 503.    *)
RefreshTimer ==
  /\ registerer.registrationTimer /\ ~registerer.waiting
  /\ IF transport.state = "Connected"
     THEN /\ SendRegister(FALSE, FALSE)
          /\ registerer' = [registerer EXCEPT !.registrationTimer = FALSE,
                                              !.waiting = TRUE]
     ELSE registerer' = Unregistered /\ UNCHANGED <<request, net>>
  /\ UNCHANGED <<transport, agent, registrar, mishaps>>

(* The same while another REGISTER waits, which will set the timer again.  *)
RefreshIgnored ==
  /\ registerer.registrationTimer /\ registerer.waiting
  /\ registerer' = [registerer EXCEPT !.registrationTimer = FALSE]
  /\ UNCHANGED <<transport, agent, request, net, registrar, mishaps>>

(* It fires after the refresh timer, set for 99% of the same time.         *)
ExpiredTimer ==
  /\ registerer.registrationExpiredTimer /\ ~registerer.registrationTimer
  /\ registerer' = Unregistered
  /\ UNCHANGED <<transport, agent, request, net, registrar, mishaps>>

Takes(kind) ==
  /\ request.pending /\ [kind |-> kind, id |-> request.id] \in net
  /\ net' = net \ {[kind |-> kind, id |-> request.id]}

(* As if the timer of the last registration were the only one.             *)
ReceiveAcceptOnce ==
  /\ Takes("Accept")
  /\ registerer' = [state |-> "Registered", waiting |-> FALSE,
                    registrationTimer |-> registerer.state # "Registered",
                    registrationExpiredTimer |-> TRUE]
  /\ request' = [request EXCEPT !.pending = FALSE]
  /\ agent' = [agent EXCEPT !.error = @ /\ registerer.state = "Registered"]
  /\ UNCHANGED <<transport, registrar, mishaps>>

(* onAccept, with the contact of this user agent: registered.              *)
ReceiveAccept ==
  /\ Takes("Accept")
  /\ registerer' = [state |-> "Registered", waiting |-> FALSE,
                    registrationTimer |-> TRUE, registrationExpiredTimer |-> TRUE]
  /\ request' = [request EXCEPT !.pending = FALSE]
  /\ agent' = [agent EXCEPT !.error = @ /\ registerer.state = "Registered"]
  /\ UNCHANGED <<transport, registrar, mishaps>>

(* onAccept with no contact at all: it returns before waitingToggle.       *)
ReceiveNoContact ==
  /\ Takes("NoContact")
  /\ registerer' = Unregistered
  /\ request' = [request EXCEPT !.pending = FALSE]
  /\ UNCHANGED <<transport, agent, registrar, mishaps>>

(* onAccept with the contacts of others only.                              *)
ReceiveOther ==
  /\ Takes("Other")
  /\ registerer' = [Unregistered EXCEPT !.waiting = FALSE]
  /\ request' = [request EXCEPT !.pending = FALSE]
  /\ UNCHANGED <<transport, agent, registrar, mishaps>>

(* As if the Registerer went on waiting.                                   *)
RejectedWaiting ==
  /\ registerer' = Unregistered
  /\ request' = [request EXCEPT !.pending = FALSE]
  /\ agent' = [agent EXCEPT !.error = @ \/ request.delegate]

(* A final response but 2xx: shown if the REGISTER had a delegate.         *)
Rejected ==
  /\ registerer' = [Unregistered EXCEPT !.waiting = FALSE]
  /\ request' = [request EXCEPT !.pending = FALSE]
  /\ agent' = [agent EXCEPT !.error = @ \/ request.delegate]

ReceiveReject ==
  /\ Takes("Reject")
  /\ Rejected
  /\ UNCHANGED <<transport, registrar, mishaps>>

(* authenticationGuard: the REGISTER is sent again, once.                  *)
ReceiveChallenge ==
  /\ request.pending /\ ~request.challenged /\ request.id < MaxRequests
  /\ [kind |-> "Challenge", id |-> request.id] \in net
  /\ request' = [request EXCEPT !.id = @ + 1, !.challenged = TRUE]
  /\ net' = (net \ {[kind |-> "Challenge", id |-> request.id]})
              \cup {[kind |-> "REGISTER", id |-> request.id + 1]}
  /\ UNCHANGED <<transport, agent, registerer, registrar, mishaps>>

(* A second 401 is a rejection.                                            *)
ReceiveChallengeAgain ==
  /\ request.challenged /\ Takes("Challenge")
  /\ Rejected
  /\ UNCHANGED <<transport, registrar, mishaps>>

(* 423 Interval Too Brief: register again, with no delegate.               *)
ReceiveBrief ==
  /\ request.pending /\ request.id < MaxRequests
  /\ [kind |-> "Brief", id |-> request.id] \in net
  /\ request' = [id |-> request.id + 1, pending |-> TRUE, delegate |-> FALSE,
                 challenged |-> FALSE]
  /\ net' = (net \ {[kind |-> "Brief", id |-> request.id]})
              \cup {[kind |-> "REGISTER", id |-> request.id + 1]}
  /\ UNCHANGED <<transport, agent, registerer, registrar, mishaps>>

(* A response to a transaction that is over.                               *)
ReceiveLate ==
  \E m \in net :
    /\ m.kind # "REGISTER" /\ (m.id # request.id \/ ~request.pending)
    /\ net' = net \ {m}
    /\ UNCHANGED <<transport, agent, registerer, request, registrar, mishaps>>

(* timerF of the transaction: 408, after 32 seconds without an answer.     *)
TimerF ==
  /\ request.pending
  /\ Rejected
  /\ Went(IF \E m \in net : m.id = request.id THEN {"slow"} ELSE {})
  /\ UNCHANGED <<transport, net, registrar>>

-----------------------------------------------------------------------------
(* The connection.                                                         *)

(* As if a connection opened again kept its registration.                  *)
OpenUnregistered ==
  /\ transport.state = "Connecting"
  /\ transport' = [transport EXCEPT !.state = "Connected"]
  /\ IF agent.state = "starting" THEN Register(TRUE)
     ELSE UNCHANGED <<registerer, request, net, mishaps>>
  /\ agent' = [agent EXCEPT !.state = "running", !.attemptingToReconnect = FALSE,
                            !.error = agent.state = "starting"]
  /\ UNCHANGED registrar

(* The WebSocket opens: init goes on, or attemptReconnection does.         *)
Open ==
  /\ transport.state = "Connecting"
  /\ transport' = [transport EXCEPT !.state = "Connected"]
  /\ Register(TRUE)
  /\ agent' = [agent EXCEPT !.state = "running", !.attemptingToReconnect = FALSE,
                            !.error = agent.state = "starting"]
  /\ UNCHANGED registrar

(* As if attemptingToReconnect were not reset.                             *)
ConnectFailsAttempting ==
  /\ transport.state = "Connecting"
  /\ transport' = [transport EXCEPT !.state = "Disconnected"]
  /\ agent' = IF agent.state = "starting"
              THEN [agent EXCEPT !.state = "failed"]
              ELSE [agent EXCEPT !.timer = TRUE, !.attempt = @ + 1]
  /\ UNCHANGED <<registerer, request, net, registrar, mishaps>>

(* It does not open: init gives up; attemptReconnection sets its timer.    *)
ConnectFails ==
  /\ transport.state = "Connecting"
  /\ transport' = [transport EXCEPT !.state = "Disconnected"]
  /\ agent' = IF agent.state = "starting"
              THEN [agent EXCEPT !.state = "failed"]
              ELSE [agent EXCEPT !.attemptingToReconnect = FALSE, !.timer = TRUE,
                                 !.attempt = @ + 1]
  /\ UNCHANGED <<registerer, request, net, registrar, mishaps>>

(* As if one attempt more were made.                                       *)
AttemptReconnectionAgain(n) ==
  IF n > MaxAttempts + 1
  THEN /\ agent' = [agent EXCEPT !.state = "lost", !.timer = FALSE, !.error = TRUE]
       /\ transport' = [transport EXCEPT !.state = "Disconnected"]
  ELSE /\ transport.ws < MaxConnections
       /\ agent' = [agent EXCEPT !.attemptingToReconnect = TRUE, !.timer = FALSE,
                                 !.attempt = n, !.error = TRUE]
       /\ transport' = [state |-> "Connecting", ws |-> transport.ws + 1]

(* attemptReconnection(n), and the connect that follows at once.           *)
AttemptReconnection(n) ==
  IF n > MaxAttempts
  THEN /\ agent' = [agent EXCEPT !.state = "lost", !.timer = FALSE, !.error = TRUE]
       /\ transport' = [transport EXCEPT !.state = "Disconnected"]
  ELSE IF agent.attemptingToReconnect
  THEN /\ agent' = [agent EXCEPT !.timer = FALSE]
       /\ transport' = [transport EXCEPT !.state = "Disconnected"]
  ELSE /\ transport.ws < MaxConnections
       /\ agent' = [agent EXCEPT !.attemptingToReconnect = TRUE, !.timer = FALSE,
                                 !.attempt = n, !.error = TRUE]
       /\ transport' = [state |-> "Connecting", ws |-> transport.ws + 1]

ReconnectionTimer ==
  /\ agent.timer
  /\ AttemptReconnection(agent.attempt)
  /\ UNCHANGED <<registerer, request, net, registrar, mishaps>>

(* The WebSocket closes with what is on it: _onTransportDisconnected.      *)
Drop ==
  /\ transport.state = "Connected"
  /\ AttemptReconnection(0)
  /\ net' = {}
  /\ UNCHANGED <<registerer, request, registrar, mishaps>>

-----------------------------------------------------------------------------
(* The registrar, as the client knows it.                                  *)

Answer(kind) ==
  \E m \in net :
    /\ m.kind = "REGISTER"
    /\ net' = (net \ {m}) \cup {[kind |-> kind, id |-> m.id]}
    /\ UNCHANGED <<transport, agent, registerer, request>>

RegistrarAccepts == Answer("Accept") /\ registrar' = transport.ws /\ UNCHANGED mishaps

RegistrarAsks ==
  /\ request.pending
  /\ \/ ~request.challenged /\ Answer("Challenge") /\ UNCHANGED mishaps
     \/ request.challenged /\ Answer("Challenge") /\ Went({"refused"})
     \/ Answer("Brief") /\ UNCHANGED mishaps
  /\ UNCHANGED registrar

RegistrarRefuses ==
  /\ \/ Answer("Reject") /\ Went({"refused"})
     \/ Answer("Other") /\ Went({"refused"})
     \/ Answer("NoContact") /\ Went({"contactless"})
  /\ UNCHANGED registrar

(* The registration, not renewed, is forgotten: it lasts longer than an    *)
(* answer is on its way.                                                   *)
RegistrationExpires ==
  /\ registrar # 0 /\ ~registerer.registrationTimer
  /\ \A m \in net : m.kind # "Accept"
  /\ registrar' = 0
  /\ UNCHANGED <<transport, agent, registerer, request, net, mishaps>>

-----------------------------------------------------------------------------
Received ==
  \/ ReceiveAccept \/ ReceiveNoContact \/ ReceiveOther \/ ReceiveReject
  \/ ReceiveChallenge \/ ReceiveChallengeAgain \/ ReceiveBrief \/ ReceiveLate

Next ==
  \/ Received \/ TimerF \/ RefreshTimer \/ RefreshIgnored \/ ExpiredTimer
  \/ Open \/ ConnectFails \/ ReconnectionTimer \/ Drop
  \/ RegistrarAccepts \/ RegistrarAsks \/ RegistrarRefuses \/ RegistrationExpires

Spec == Init /\ [][Next]_vars

(* Messages are delivered and answered; a connection opens or is refused;  *)
(* the timers of the browser fire.                                         *)
FairSpec ==
  /\ Spec
  /\ WF_vars(Received) /\ WF_vars(RegistrarAccepts)
  /\ WF_vars(TimerF /\ mishaps' = mishaps) /\ WF_vars(Open \/ ConnectFails)
  /\ WF_vars(ReconnectionTimer)

-----------------------------------------------------------------------------
TypeOK ==
  /\ transport \in [state : {"Disconnected", "Connecting", "Connected"}, ws : Connections]
  /\ agent \in Agent
  /\ registerer \in Registerer
  /\ request \in Request
  /\ net \subseteq Message
  /\ registrar \in 0..MaxConnections
  /\ mishaps \subseteq Mishaps

(* The Registerer waits exactly while a transaction will answer it, save   *)
(* for a 2xx without a contact: nothing else can silence it for good.      *)
WaitingAnswered ==
  /\ request.pending => registerer.waiting
  /\ registerer.waiting => request.pending \/ "contactless" \in mishaps

Settled == transport.state = "Connected" /\ ~request.pending /\ net = {}

(* With nothing under way, a softphone that shows no error is registered   *)
(* on the connection it has, unless the registrar said otherwise or a call *)
(* of register was lost.                                                   *)
ReachableOrTold ==
  Settled /\ ~agent.error /\ mishaps = {} =>
    registerer.state = "Registered" /\ registrar = transport.ws

(* A connection that stays leads to the user in the end.                   *)
RegistersAgain ==
  \A c \in Connections :
    transport = [state |-> "Connected", ws |-> c] ~>
      \/ transport # [state |-> "Connected", ws |-> c]
      \/ registerer.state = "Registered" /\ registrar = c
      \/ mishaps # {} \/ request.id = MaxRequests

(* A lost connection is opened again, or given up.                         *)
ConnectionSettles ==
  transport.state # "Connected" ~>
    \/ transport.state = "Connected" \/ agent.state \in {"lost", "failed"}
    \/ transport.ws = MaxConnections

(* "if the transport disconnects, you still must wait for the prior        *)
(* request to time out": attemptReconnection does not register before.     *)
RegisterWaits == "ignored" \notin mishaps
=============================================================================
