------------------------- MODULE RegistrationProofs -------------------------
(***************************************************************************)
(* Theorems about Registration for every number of attempts, WebSockets,   *)
(* REGISTERs and mishaps: the type invariant, that the Registerer is never *)
(* silenced, and that a softphone that shows no error can be called.       *)
(***************************************************************************)
EXTENDS Registration, TLAPS

-----------------------------------------------------------------------------
(* The inductive invariant.                                                *)

(* A message is on a connection that is open.                              *)
NothingOnClosed == transport.state # "Connected" => net = {}

(* The timer of attemptReconnection runs while nothing is being opened.    *)
TimerOnClosed == agent.timer => transport.state = "Disconnected"

AttemptsBounded == transport.state = "Connecting" => agent.attempt <= MaxAttempts

(* No message belongs to a REGISTER that is still to come.                 *)
IdsSent == \A m \in net : m.id <= request.id

(* What is not a registration was counted as a mishap when it was sent.    *)
Blamed ==
  \A m \in net :
    /\ m.kind \in {"Reject", "Other"} => "refused" \in mishaps
    /\ m.kind = "NoContact" => "contactless" \in mishaps
    /\ m.kind = "Challenge" /\ m.id = request.id /\ request.challenged => "refused" \in mishaps

(* A registration that is on its way is one of the connection it is on.    *)
AcceptedHere == \A m \in net : m.kind = "Accept" => registrar = transport.ws

(* A REGISTER that waits has its request or its answer under way.          *)
UnderWay ==
  transport.state = "Connected" /\ mishaps = {} /\ request.pending =>
    \E m \in net : m.id = request.id

(* A connection that is settled and shows no error is registered, and the  *)
(* registration will be renewed.                                           *)
Reachable ==
  transport.state = "Connected" /\ mishaps = {} /\ ~request.pending /\ ~agent.error =>
    /\ registerer.state = "Registered" /\ registerer.registrationTimer
    /\ registrar = transport.ws

Inv ==
  /\ TypeOK /\ NothingOnClosed /\ TimerOnClosed /\ AttemptsBounded
  /\ IdsSent /\ WaitingAnswered /\ Blamed /\ AcceptedHere /\ UnderWay /\ Reachable

-----------------------------------------------------------------------------
(* Types.                                                                  *)

LEMMA TypeInitial == Init => TypeOK
  BY BoundsAssumption DEF Init, TypeOK, Agent, Registerer, Request, Message, Mishaps,
     Connections

(* A REGISTER of a new transaction.                                        *)
LEMMA SendRegisterType ==
  ASSUME TypeOK, NEW d \in BOOLEAN, NEW c \in BOOLEAN, SendRegister(d, c)
  PROVE  /\ request' \in Request /\ net' \subseteq Message
         /\ request'.id = request.id + 1 /\ request'.pending
         /\ net' = net \cup {[kind |-> "REGISTER", id |-> request'.id]}
  <1>1. request.id + 1 \in 1..MaxRequests
    BY BoundsAssumption DEF SendRegister, TypeOK, Request
  <1>2. request'.id = request.id + 1 /\ request'.pending /\ request' \in Request
    BY <1>1, BoundsAssumption DEF SendRegister, Request
  <1>3. [kind |-> "REGISTER", id |-> request.id + 1] \in Message
    BY <1>1 DEF Message
  <1>4. QED
    BY <1>2, <1>3 DEF SendRegister, TypeOK

LEMMA WentType ==
  ASSUME TypeOK, NEW wrong \in SUBSET Mishaps, Went(wrong)
  PROVE  mishaps' \subseteq Mishaps /\ mishaps' = mishaps \cup wrong
  BY DEF Went, TypeOK

(* An attempt to reconnect leaves no connection, and no timer.             *)
LEMMA AttemptType ==
  ASSUME TypeOK, NEW n \in 0..(MaxAttempts + 1), AttemptReconnection(n)
  PROVE  /\ agent' \in Agent /\ ~agent'.timer
         /\ transport' \in [state : {"Disconnected", "Connecting", "Connected"},
                            ws : Connections]
         /\ transport'.state # "Connected"
         /\ transport'.state = "Connecting" => agent'.attempt <= MaxAttempts
  <1> USE BoundsAssumption DEF TypeOK, Agent, Connections, AttemptReconnection
  <1>1. CASE n > MaxAttempts
    BY <1>1
  <1>2. CASE n <= MaxAttempts /\ agent.attemptingToReconnect
    BY <1>2
  <1>3. CASE n <= MaxAttempts /\ ~agent.attemptingToReconnect
    <2>1. transport.ws + 1 \in 1..MaxConnections
      BY <1>3
    <2>2. /\ agent' = [agent EXCEPT !.attemptingToReconnect = TRUE, !.timer = FALSE,
                                    !.attempt = n, !.error = TRUE]
          /\ transport' = [state |-> "Connecting", ws |-> transport.ws + 1]
      BY <1>3
    <2>3. QED
      BY <1>3, <2>1, <2>2
  <1>4. QED
    BY <1>1, <1>2, <1>3

LEMMA AnswerType ==
  ASSUME TypeOK, NEW kind \in {"Accept", "NoContact", "Other", "Challenge", "Brief", "Reject"},
         Answer(kind)
  PROVE  /\ net' \subseteq Message
         /\ UNCHANGED <<transport, agent, registerer, request>>
  BY DEF Answer, TypeOK, Message

LEMMA TypeNext == TypeOK /\ AttemptsBounded /\ Next => TypeOK'
  <1> SUFFICES ASSUME TypeOK, AttemptsBounded, Next PROVE TypeOK'
    OBVIOUS
  <1> USE BoundsAssumption DEF TypeOK, AttemptsBounded, Agent, Registerer, Request, Message,
          Mishaps, Connections, Takes
  <1>1. CASE ReceiveAccept
    BY <1>1 DEF ReceiveAccept
  <1>2. CASE ReceiveNoContact
    BY <1>2 DEF ReceiveNoContact, Unregistered
  <1>3. CASE ReceiveOther
    BY <1>3 DEF ReceiveOther, Unregistered
  <1>4. CASE ReceiveReject
    BY <1>4 DEF ReceiveReject, Rejected, Unregistered
  <1>5. CASE ReceiveChallenge
    <2>1. request.id + 1 \in 1..MaxRequests
      BY <1>5 DEF ReceiveChallenge
    <2>2. request' \in Request
      <3>1. request' = [request EXCEPT !.id = request.id + 1, !.challenged = TRUE]
        BY <1>5 DEF ReceiveChallenge
      <3>2. request.id + 1 \in 0..MaxRequests /\ request \in Request
        BY <2>1
      <3>3. QED
        BY ONLY <3>1, <3>2 DEF Request
    <2>3. [kind |-> "REGISTER", id |-> request.id + 1] \in Message
      BY <2>1
    <2>4. net' \subseteq Message
      BY <1>5, <2>3 DEF ReceiveChallenge
    <2>5. QED
      BY <1>5, <2>2, <2>4 DEF ReceiveChallenge
  <1>6. CASE ReceiveChallengeAgain
    BY <1>6 DEF ReceiveChallengeAgain, Rejected, Unregistered
  <1>7. CASE ReceiveBrief
    BY <1>7 DEF ReceiveBrief
  <1>8. CASE ReceiveLate
    BY <1>8 DEF ReceiveLate
  <1>9. CASE TimerF
    BY <1>9 DEF TimerF, Rejected, Unregistered, Went
  <1>10. CASE RefreshTimer
    <2>1. CASE transport.state = "Connected"
      <3>1. SendRegister(FALSE, FALSE) /\ UNCHANGED <<transport, agent, registrar, mishaps>>
        BY <1>10, <2>1 DEF RefreshTimer
      <3>2. registerer' \in Registerer
        BY <1>10, <2>1 DEF RefreshTimer
      <3>3. request' \in Request /\ net' \subseteq Message
        BY <3>1, SendRegisterType
      <3>4. QED
        BY <3>1, <3>2, <3>3
    <2>2. CASE transport.state # "Connected"
      BY <1>10, <2>2 DEF RefreshTimer, Unregistered
    <2>3. QED
      BY <2>1, <2>2
  <1>11. CASE RefreshIgnored
    BY <1>11 DEF RefreshIgnored
  <1>12. CASE ExpiredTimer
    BY <1>12 DEF ExpiredTimer, Unregistered
  <1>13. CASE Open
    <2>1. /\ registerer' \in Registerer /\ request' \in Request /\ net' \subseteq Message
          /\ mishaps' \subseteq Mishaps
      <3>1. CASE registerer.waiting
        BY <1>13, <3>1, WentType DEF Open, Register
      <3>2. CASE ~registerer.waiting
        BY <1>13, <3>2, SendRegisterType DEF Open, Register
      <3>3. QED
        BY <3>1, <3>2
    <2>2. /\ agent' \in Agent
          /\ transport' \in [state : {"Disconnected", "Connecting", "Connected"},
                             ws : Connections]
          /\ registrar' = registrar
      BY <1>13 DEF Open
    <2>3. QED
      BY <2>1, <2>2
  <1>14. CASE ConnectFails
    <2>1. agent.attempt + 1 \in 0..(MaxAttempts + 1)
      BY <1>14 DEF ConnectFails
    <2>2. agent' \in Agent
      <3>1. CASE agent.state = "starting"
        BY <1>14, <3>1 DEF ConnectFails
      <3>2. CASE agent.state # "starting"
        BY <1>14, <2>1, <3>2 DEF ConnectFails
      <3>3. QED
        BY <3>1, <3>2
    <2>3. QED
      BY <1>14, <2>2 DEF ConnectFails
  <1>15. CASE ReconnectionTimer
    BY <1>15, AttemptType DEF ReconnectionTimer
  <1>16. CASE Drop
    <2>1. 0 \in 0..(MaxAttempts + 1)
      OBVIOUS
    <2>2. QED
      BY <1>16, <2>1, AttemptType DEF Drop
  <1>17. CASE RegistrarAccepts
    BY <1>17 DEF RegistrarAccepts, Answer
  <1>18. CASE RegistrarAsks
    <2>1. /\ net' \subseteq Message /\ registrar' = registrar
          /\ UNCHANGED <<transport, agent, registerer, request>>
      BY <1>18, AnswerType DEF RegistrarAsks
    <2>2. mishaps' \subseteq Mishaps
      BY <1>18, WentType DEF RegistrarAsks
    <2>3. QED
      BY <2>1, <2>2
  <1>19. CASE RegistrarRefuses
    <2>1. /\ net' \subseteq Message /\ registrar' = registrar
          /\ UNCHANGED <<transport, agent, registerer, request>>
      BY <1>19, AnswerType DEF RegistrarRefuses
    <2>2. mishaps' \subseteq Mishaps
      BY <1>19, WentType DEF RegistrarRefuses
    <2>3. QED
      BY <2>1, <2>2
  <1>20. CASE RegistrationExpires
    BY <1>20 DEF RegistrationExpires
  <1>21. QED
    BY <1>1, <1>2, <1>3, <1>4, <1>5, <1>6, <1>7, <1>8, <1>9, <1>10, <1>11, <1>12, <1>13,
       <1>14, <1>15, <1>16, <1>17, <1>18, <1>19, <1>20 DEF Next, Received

-----------------------------------------------------------------------------
LEMMA InvInitial == Init => Inv
  BY TypeInitial, BoundsAssumption DEF Init, Inv, NothingOnClosed, TimerOnClosed,
     AttemptsBounded, IdsSent, WaitingAnswered, Blamed, AcceptedHere, UnderWay, Reachable

(* A REGISTER is sent, again or for the first time.                        *)
LEMMA SentKeeps ==
  ASSUME Inv, TypeOK', transport'.state = "Connected", UNCHANGED <<registrar, mishaps>>,
         transport'.ws = transport.ws, ~agent'.timer,
         request'.id = request.id + 1, request'.pending, registerer'.waiting,
         NEW m \in net', m.kind = "REGISTER", m.id = request'.id, net' \subseteq net \cup {m}
  PROVE  Inv'
  <1> USE DEF Inv, TypeOK, Request, Message
  <1>1. NothingOnClosed' /\ TimerOnClosed' /\ AttemptsBounded' /\ UnderWay' /\ Reachable'
    BY DEF NothingOnClosed, TimerOnClosed, AttemptsBounded, UnderWay, Reachable
  <1>2. IdsSent' /\ Blamed' /\ AcceptedHere'
    BY DEF IdsSent, Blamed, AcceptedHere
  <1>3. WaitingAnswered'
    BY DEF WaitingAnswered
  <1>4. QED
    BY <1>1, <1>2, <1>3

(* The registrar answers a REGISTER: what is not a registration counts as  *)
(* a mishap.                                                               *)
LEMMA AnswerKeeps ==
  ASSUME Inv, TypeOK', mishaps \subseteq mishaps',
         NEW kind \in {"Accept", "NoContact", "Other", "Challenge", "Brief", "Reject"},
         Answer(kind),
         kind \in {"Reject", "Other"} => "refused" \in mishaps',
         kind = "NoContact" => "contactless" \in mishaps',
         kind = "Challenge" /\ request.challenged => "refused" \in mishaps',
         registrar' = IF kind = "Accept" THEN transport.ws ELSE registrar
  PROVE  Inv'
  <1>1. /\ UNCHANGED <<transport, agent, registerer, request>>
        /\ \E m \in net : net' = (net \ {m}) \cup {[kind |-> kind, id |-> m.id]}
    BY DEF Answer
  <1>2. PICK m \in net : net' = (net \ {m}) \cup {[kind |-> kind, id |-> m.id]}
    BY <1>1
  <1> USE <1>1, <1>2 DEF Inv
  <1>3. NothingOnClosed' /\ TimerOnClosed' /\ AttemptsBounded'
    BY DEF NothingOnClosed, TimerOnClosed, AttemptsBounded
  <1>4. IdsSent' /\ AcceptedHere'
    BY DEF IdsSent, AcceptedHere
  <1>5. Blamed'
    BY DEF Blamed
  <1>6. WaitingAnswered'
    BY DEF WaitingAnswered
  <1>7. mishaps' = {} => mishaps = {}
    OBVIOUS
  <1>8. Reachable'
    BY <1>7 DEF Reachable
  <1>9. UnderWay'
    <2>1. \A l \in net : \E k \in net' : k.id = l.id
      OBVIOUS
    <2>2. QED
      BY <1>7, <2>1 DEF UnderWay
  <1>10. QED
    BY <1>3, <1>4, <1>5, <1>6, <1>8, <1>9

LEMMA InvNext == Inv /\ Next => Inv'
  <1> SUFFICES ASSUME Inv, Next PROVE Inv'
    OBVIOUS
  <1>0. TypeOK /\ TypeOK'
    BY TypeNext DEF Inv
  <1> USE <1>0 DEF Inv, NothingOnClosed, TimerOnClosed, AttemptsBounded, IdsSent,
      WaitingAnswered, Blamed, AcceptedHere, UnderWay, Reachable,
      TypeOK, Agent, Registerer, Request, Message, Takes
  <1>1. CASE ReceiveAccept
    BY <1>1 DEF ReceiveAccept
  <1>2. CASE ReceiveNoContact
    BY <1>2 DEF ReceiveNoContact, Unregistered
  <1>3. CASE ReceiveOther
    BY <1>3 DEF ReceiveOther, Unregistered
  <1>4. CASE ReceiveReject
    BY <1>4 DEF ReceiveReject, Rejected, Unregistered
  <1>5. CASE ReceiveChallenge
    <2>1. transport.state = "Connected" /\ ~agent.timer
      BY <1>5 DEF ReceiveChallenge
    <2>2. request'.id = request.id + 1 /\ request'.pending
      BY <1>5 DEF ReceiveChallenge
    <2>3. QED
      BY <1>5, <2>1, <2>2, SentKeeps DEF ReceiveChallenge
  <1>6. CASE ReceiveChallengeAgain
    BY <1>6 DEF ReceiveChallengeAgain, Rejected, Unregistered
  <1>7. CASE ReceiveBrief
    <2>1. transport.state = "Connected" /\ ~agent.timer
      BY <1>7 DEF ReceiveBrief
    <2>2. request'.id = request.id + 1 /\ request'.pending
      BY <1>7 DEF ReceiveBrief
    <2>3. QED
      BY <1>7, <2>1, <2>2, SentKeeps DEF ReceiveBrief
  <1>8. CASE ReceiveLate
    BY <1>8 DEF ReceiveLate
  <1>9. CASE TimerF
    BY <1>9 DEF TimerF, Rejected, Unregistered, Went
  <1>10. CASE RefreshTimer
    <2>1. CASE transport.state = "Connected"
      <3>1. SendRegister(FALSE, FALSE) /\ UNCHANGED <<transport, agent, registrar, mishaps>>
        BY <1>10, <2>1 DEF RefreshTimer
      <3>2. registerer'.waiting /\ ~agent'.timer
        BY <1>10, <2>1, <3>1 DEF RefreshTimer
      <3>3. /\ request'.id = request.id + 1 /\ request'.pending
            /\ net' = net \cup {[kind |-> "REGISTER", id |-> request'.id]}
        BY <3>1, SendRegisterType
      <3>4. QED
        BY <2>1, <3>1, <3>2, <3>3, SentKeeps
    <2>2. CASE transport.state # "Connected"
      BY <1>10, <2>2 DEF RefreshTimer, Unregistered
    <2>3. QED
      BY <2>1, <2>2
  <1>11. CASE RefreshIgnored
    BY <1>11 DEF RefreshIgnored
  <1>12. CASE ExpiredTimer
    BY <1>12 DEF ExpiredTimer, Unregistered
  <1>13. CASE Open
    <2>1. /\ transport'.state = "Connected" /\ transport'.ws = transport.ws
          /\ ~agent'.timer /\ net = {} /\ UNCHANGED registrar
      BY <1>13 DEF Open
    <2>2. CASE registerer.waiting
      <3>1. UNCHANGED <<registerer, request, net>> /\ mishaps' = mishaps \cup {"ignored"}
        BY <1>13, <2>2 DEF Open, Register, Went
      <3>2. QED
        BY <2>1, <3>1
    <2>3. CASE ~registerer.waiting
      <3>1. SendRegister(TRUE, FALSE) /\ registerer'.waiting /\ UNCHANGED mishaps
        BY <1>13, <2>3 DEF Open, Register
      <3>2. /\ request'.id = request.id + 1 /\ request'.pending
            /\ net' = net \cup {[kind |-> "REGISTER", id |-> request'.id]}
        BY <3>1, SendRegisterType
      <3>3. QED
        BY <2>1, <3>1, <3>2, SentKeeps
    <2>4. QED
      BY <2>2, <2>3
  <1>14. CASE ConnectFails
    BY <1>14 DEF ConnectFails
  <1>15. CASE ReconnectionTimer
    <2>1. /\ ~agent'.timer /\ transport'.state # "Connected"
          /\ transport'.state = "Connecting" => agent'.attempt <= MaxAttempts
      BY <1>15, AttemptType DEF ReconnectionTimer
    <2>2. net = {} /\ UNCHANGED <<registerer, request, net, registrar, mishaps>>
      BY <1>15 DEF ReconnectionTimer
    <2>3. QED
      BY <2>1, <2>2
  <1>16. CASE Drop
    <2>1. 0 \in 0..(MaxAttempts + 1)
      BY BoundsAssumption
    <2>2. /\ ~agent'.timer /\ transport'.state # "Connected"
          /\ transport'.state = "Connecting" => agent'.attempt <= MaxAttempts
      BY <1>16, <2>1, AttemptType DEF Drop
    <2>3. net' = {} /\ UNCHANGED <<registerer, request, registrar, mishaps>>
      BY <1>16 DEF Drop
    <2>4. QED
      BY <2>2, <2>3
  <1>17. CASE RegistrarAccepts
    BY <1>17, AnswerKeeps DEF RegistrarAccepts
  <1>18. CASE RegistrarAsks
    BY <1>18, AnswerKeeps DEF RegistrarAsks, Went
  <1>19. CASE RegistrarRefuses
    BY <1>19, AnswerKeeps DEF RegistrarRefuses, Went
  <1>20. CASE RegistrationExpires
    BY <1>20 DEF RegistrationExpires
  <1>21. QED
    BY <1>1, <1>2, <1>3, <1>4, <1>5, <1>6, <1>7, <1>8, <1>9, <1>10, <1>11, <1>12, <1>13,
       <1>14, <1>15, <1>16, <1>17, <1>18, <1>19, <1>20 DEF Next, Received

LEMMA InvStep == Inv /\ [Next]_vars => Inv'
  <1>1. Inv /\ UNCHANGED vars => Inv'
    BY DEF vars, Inv, TypeOK, NothingOnClosed, TimerOnClosed, AttemptsBounded, IdsSent,
       WaitingAnswered, Blamed, AcceptedHere, UnderWay, Reachable
  <1>2. QED
    BY <1>1, InvNext

(* Every reachable state of the softphone's connection and registration    *)
(* (Transport, Registerer and attemptReconnection) is well typed.          *)
THEOREM TypeCorrect == Spec => []TypeOK
  <1>1. Spec => []Inv
    BY InvInitial, InvStep, PTL DEF Spec
  <1>2. Inv => TypeOK
    BY DEF Inv
  <1>3. QED
    BY <1>1, <1>2, PTL

(* The Registerer waits exactly while a transaction will answer it, save   *)
(* for a 2xx without a contact (waitingToggle in Registerer).              *)
THEOREM AlwaysAnswered == Spec => []WaitingAnswered
  <1>1. Spec => []Inv
    BY InvInitial, InvStep, PTL DEF Spec
  <1>2. Inv => WaitingAnswered
    BY DEF Inv
  <1>3. QED
    BY <1>1, <1>2, PTL

(* A settled connection that shows no error leads to the user: the         *)
(* REGISTER of each connection, its renewal and attemptReconnection.       *)
THEOREM AlwaysReachableOrTold == Spec => []ReachableOrTold
  <1>1. Spec => []Inv
    BY InvInitial, InvStep, PTL DEF Spec
  <1>2. Inv => ReachableOrTold
    BY DEF Inv, Reachable, ReachableOrTold, Settled
  <1>3. QED
    BY <1>1, <1>2, PTL


=============================================================================
