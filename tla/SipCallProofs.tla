--------------------------- MODULE SipCallProofs ----------------------------
(***************************************************************************)
(* Theorems about SipCall for every number of lost connections, every      *)
(* number of messages on their way, and early or late timers: the type     *)
(* invariant, and that the two ends of a call implement PhoneCall.         *)
(***************************************************************************)
EXTENDS SipCall, TLAPS

-----------------------------------------------------------------------------
(* The network.                                                            *)

(* What an end sends is carried whole or not at all.                       *)
LEMMA CarriedType ==
  ASSUME NEW ms \in Seq(Messages)
  PROVE  Carried(ms) \in Seq(Messages) /\ Carried(ms) \in {ms, << >>}
  BY DEF Carried

(* Sending adds to the way to the other end, and to that one only.         *)
LEMMA SendsType ==
  ASSUME TypeOK, NEW e \in Ends, NEW ms \in Seq(Messages), Sends(e, ms)
  PROVE  /\ net' \in [Ends -> Seq(Messages)]
         /\ net'[e] = net[e] /\ net'[Peer(e)] = net[Peer(e)] \o Carried(ms)
         /\ online' \subseteq Ends /\ drops' \in Nat
  <1>1. net[Peer(e)] \o Carried(ms) \in Seq(Messages)
    BY CarriedType DEF TypeOK, Ends, Peer
  <1>2. QED
    BY <1>1 DEF Sends, TypeOK, Ends, Peer

(* Answering besides takes the message that is answered.                   *)
LEMMA AnswersType ==
  ASSUME TypeOK, NEW e \in Ends, NEW ms \in Seq(Messages), net[e] # << >>, Answers(e, ms)
  PROVE  /\ net' \in [Ends -> Seq(Messages)]
         /\ net'[e] = Tail(net[e]) /\ net'[Peer(e)] = net[Peer(e)] \o Carried(ms)
         /\ online' \subseteq Ends /\ drops' \in Nat /\ late' \in BOOLEAN
  <1>1. net[Peer(e)] \o Carried(ms) \in Seq(Messages)
    BY CarriedType DEF TypeOK, Ends, Peer
  <1>2. Tail(net[e]) \in Seq(Messages)
    BY DEF TypeOK
  <1>3. QED
    BY <1>1, <1>2 DEF Answers, TypeOK, Ends, Peer

(* Every list of messages that an action sends is one.                     *)
LEMMA MessageLists ==
  /\ << >> \in Seq(Messages)
  /\ \A m \in Messages : <<m>> \in Seq(Messages)
  /\ <<"ACK", "BYE">> \in Seq(Messages)
  /\ <<"ACK", "ACK", "BYE">> \in Seq(Messages)
  BY DEF Messages

-----------------------------------------------------------------------------
(* Types.                                                                  *)

(* A transaction that cannot send is over, a session that is over too.     *)
LEMMA SentEnded ==
  /\ \A t : Sent(t) \in {t, "Terminated"}
  /\ \A t : Ended(t) \in {t, "Terminated"}
  BY DEF Sent, Ended

LEMMA TypeInitial == Init => TypeOK
  <1> SUFFICES ASSUME Init PROVE TypeOK
    OBVIOUS
  <1>1. caller \in Caller
    BY DEF Init, Caller, SessionState
  <1>2. callee \in Callee
    BY DEF Init, Callee, SessionState
  <1>3. << >> \in Seq(Messages)
    BY MessageLists
  <1>4. net \in [Ends -> Seq(Messages)]
    BY <1>3 DEF Init
  <1>5. QED
    BY <1>1, <1>2, <1>4 DEF Init, TypeOK

LEMMA TypeCallerNext == TypeOK /\ CallerNext => TypeOK'
  <1> SUFFICES ASSUME TypeOK, CallerNext PROVE TypeOK'
    OBVIOUS
  <1> USE MessageLists, SendsType, AnswersType, SentEnded
      DEF TypeOK, Caller, SessionState, Messages, Takes, Ends
  <1>1. CASE Invite
    BY <1>1 DEF Invite
  <1>2. CASE OfferReady
    <2>1. /\ Sent("Calling") \in {"Calling", "Terminated"}
          /\ Sent("Establishing") \in {"Establishing", "Terminated"}
      OBVIOUS
    <2>2. CASE caller.state = "Initial"
      BY <1>2, <2>1, <2>2 DEF OfferReady
    <2>3. CASE caller.state # "Initial"
      BY <1>2, <2>3 DEF OfferReady
    <2>4. QED
      BY <2>2, <2>3
  <1>3. CASE OfferFailed
    BY <1>3 DEF OfferFailed
  <1>4. CASE CancelInitial
    BY <1>4 DEF CancelInitial
  <1>5. CASE Cancel
    BY <1>5 DEF Cancel
  <1>6. CASE ReceiveProgress
    BY <1>6 DEF ReceiveProgress
  <1>7. CASE ReceiveAccept
    BY <1>7 DEF ReceiveAccept
  <1>8. CASE ReceiveAcceptCanceled
    BY <1>8 DEF ReceiveAcceptCanceled
  <1>9. CASE ReceiveAcceptAgain
    <2>1. Sent(caller.txn) \in {caller.txn, "Terminated"}
      OBVIOUS
    <2>2. QED
      BY <1>9, <2>1 DEF ReceiveAcceptAgain
  <1>10. CASE ReceiveReject
    <2>1. /\ Sent(caller.txn) \in {caller.txn, "Terminated"}
          /\ Sent("Completed") \in {"Completed", "Terminated"}
          /\ Ended(caller.state) \in {caller.state, "Terminated"}
      OBVIOUS
    <2>2. QED
      BY <1>10, <2>1 DEF ReceiveReject
  <1>11. CASE AnswerSet
    BY <1>11 DEF AnswerSet
  <1>12. CASE AnswerSetCanceled
    BY <1>12 DEF AnswerSetCanceled
  <1>13. CASE AnswerFailed
    BY <1>13 DEF AnswerFailed
  <1>14. CASE TimerB
    BY <1>14 DEF TimerB, Expires, Quiet
  <1>15. CASE TimerD
    BY <1>15 DEF TimerD
  <1>16. CASE TimerM
    BY <1>16 DEF TimerM, Expires, Quiet
  <1>17. CASE CallerBye
    BY <1>17 DEF CallerBye
  <1>18. CASE CallerReceivesBye
    BY <1>18 DEF CallerReceivesBye
  <1>19. CASE ReceiveChallenge
    BY <1>19 DEF ReceiveChallenge
  <1>20. QED
    BY <1>1, <1>2, <1>3, <1>4, <1>5, <1>6, <1>7, <1>8, <1>9, <1>10, <1>11, <1>12, <1>13,
       <1>14, <1>15, <1>16, <1>17, <1>18, <1>19 DEF CallerNext

LEMMA TypeCalleeNext == TypeOK /\ CalleeNext => TypeOK'
  <1> SUFFICES ASSUME TypeOK, CalleeNext PROVE TypeOK'
    OBVIOUS
  <1> USE MessageLists, SendsType, AnswersType
      DEF TypeOK, Callee, SessionState, Messages, Refused, Takes, Ends
  <1>1. CASE ReceiveInvite
    BY <1>1 DEF ReceiveInvite
  <1>2. CASE Accept
    BY <1>2 DEF Accept
  <1>3. CASE MediaReady
    BY <1>3 DEF MediaReady
  <1>4. CASE MediaFailed
    BY <1>4 DEF MediaFailed
  <1>5. CASE Reject
    BY <1>5 DEF Reject
  <1>6. CASE NoAnswer
    BY <1>6 DEF NoAnswer
  <1>7. CASE ReceiveCancel
    BY <1>7 DEF ReceiveCancel
  <1>8. CASE ReceiveAckReject
    BY <1>8 DEF ReceiveAckReject
  <1>9. CASE ReceiveAck
    BY <1>9 DEF ReceiveAck
  <1>10. CASE CalleeBye
    BY <1>10 DEF CalleeBye
  <1>11. CASE CalleeByeLater
    BY <1>11 DEF CalleeByeLater
  <1>12. CASE CalleeReceivesBye
    BY <1>12 DEF CalleeReceivesBye
  <1>13. CASE RetransmitAccept
    BY <1>13 DEF RetransmitAccept
  <1>14. CASE TimerL
    BY <1>14 DEF TimerL, Expires, Quiet
  <1>15. CASE TimerH
    BY <1>15 DEF TimerH, Expires, Quiet
  <1>16. CASE TimerI
    BY <1>16 DEF TimerI
  <1>17. QED
    BY <1>1, <1>2, <1>3, <1>4, <1>5, <1>6, <1>7, <1>8, <1>9, <1>10, <1>11, <1>12, <1>13,
       <1>14, <1>15, <1>16 DEF CalleeNext

LEMMA TypeStep == TypeOK /\ [Next]_vars => TypeOK'
  <1> SUFFICES ASSUME TypeOK, [Next]_vars PROVE TypeOK'
    OBVIOUS
  <1>1. ASSUME NEW e \in Ends, Disconnect(e) PROVE TypeOK'
    BY <1>1, MessageLists DEF TypeOK, Disconnect
  <1>2. ASSUME NEW e \in Ends, Reconnect(e) PROVE TypeOK'
    BY <1>2 DEF TypeOK, Reconnect
  <1>3. CASE UNCHANGED vars
    BY <1>3 DEF TypeOK, vars
  <1>4. CASE Challenge
    BY <1>4, MessageLists, AnswersType DEF TypeOK, Challenge, Takes, Messages, Ends
  <1>5. QED
    BY <1>1, <1>2, <1>3, <1>4, TypeCallerNext, TypeCalleeNext DEF Next

(* Both ends, and what is on its way between them, stay of their types:    *)
(* the states of sessions, transactions and dialogs are those of SIP.js.   *)
THEOREM TypeCorrect == Spec => []TypeOK
  <1>1. TypeOK /\ [Next]_vars => TypeOK'
    BY TypeStep
  <1>2. QED
    BY TypeInitial, <1>1, PTL DEF Spec

-----------------------------------------------------------------------------
(* The inductive invariant behind the refinement.                          *)

NoneIn(s, m) == \A i \in 1..Len(s) : s[i] # m

(* Before the first INVITE nothing happens, and nothing is on its way.     *)
CallerInitial ==
  caller.state = "Initial" =>
    /\ callee.state = "None" /\ net["caller"] = << >> /\ net["callee"] = << >>
    /\ caller.txn = "None" /\ caller.dialog = "None" /\ caller.work # "Answer"

(* Before the callee is invited nobody has answered the caller.            *)
CalleeNone ==
  callee.state = "None" =>
    /\ callee.txn = "None" /\ callee.dialog = "None" /\ callee.work = "None"
    /\ ~callee.ackWait
    /\ caller.txn \in {"None", "Calling", "Terminated"} /\ caller.dialog = "None"
    /\ caller.work # "Answer" /\ caller.state # "Established"

(* The INVITE or the challenge to it is the one message on its way until   *)
(* the callee is invited, and none is after that: it is invited once.      *)
InvitedOnce ==
  /\ callee.state = "None" =>
       \/ net["callee"] \in {<< >>, <<"INVITE">>} /\ net["caller"] = << >>
       \/ net["callee"] = << >> /\ net["caller"] = <<"Challenge">>
  /\ callee.state # "None" =>
       NoneIn(net["callee"], "INVITE") /\ NoneIn(net["caller"], "Challenge")

(* The caller learns of an answer only when there is one.                  *)
AcceptAnswered == Answered \/ (caller.work # "Answer" /\ NoneIn(net["caller"], "2xx"))

(* Only an invitation that the callee is accepting gets a 2xx.             *)
CalleeAccepts ==
  /\ callee.work = "Answer" /\ callee.txn = "Proceeding" => callee.state = "Establishing"
  /\ callee.txn = "Accepted" => Answered

Inv ==
  TypeOK /\ CallerInitial /\ CalleeNone /\ InvitedOnce /\ AcceptAnswered /\ CalleeAccepts

LEMMA NoneInAppend ==
  ASSUME NEW s \in Seq(Messages), NEW t \in Seq(Messages), NEW m,
         NoneIn(s, m), NoneIn(t, m)
  PROVE  NoneIn(s \o t, m)
  BY DEF NoneIn

LEMMA NoneInTail ==
  ASSUME NEW s \in Seq(Messages), s # << >>, NEW m, NoneIn(s, m)
  PROVE  NoneIn(Tail(s), m)
  BY DEF NoneIn

LEMMA CarriedNone ==
  ASSUME NEW ms \in Seq(Messages), NEW m, NoneIn(ms, m)
  PROVE  NoneIn(Carried(ms), m)
  BY DEF Carried, NoneIn

(* What an end sends, and takes, adds no message to either way but those   *)
(* it sends.                                                               *)
LEMMA NoneSent ==
  ASSUME TypeOK, NEW e \in Ends, NEW ms \in Seq(Messages),
         Sends(e, ms) \/ (net[e] # << >> /\ Answers(e, ms))
  PROVE  /\ \A m : NoneIn(net[e], m) => NoneIn(net'[e], m)
         /\ \A m : NoneIn(net[Peer(e)], m) /\ NoneIn(ms, m) => NoneIn(net'[Peer(e)], m)
  <1>1. /\ net[e] \in Seq(Messages) /\ net[Peer(e)] \in Seq(Messages)
        /\ Carried(ms) \in Seq(Messages)
        /\ \A m : NoneIn(ms, m) => NoneIn(Carried(ms), m)
    BY CarriedType, CarriedNone DEF TypeOK, Ends, Peer
  <1>2. net'[Peer(e)] = net[Peer(e)] \o Carried(ms)
    BY SendsType, AnswersType
  <1>3. net'[e] = net[e] \/ (net[e] # << >> /\ net'[e] = Tail(net[e]))
    BY SendsType, AnswersType
  <1>4. QED
    BY <1>1, <1>2, <1>3, NoneInAppend, NoneInTail

(* An INVITE that is taken, by the callee or by the PBX, is alone on its   *)
(* way.                                                                    *)
LEMMA TakenInvite ==
  ASSUME TypeOK, CallerInitial, InvitedOnce, Takes("callee", "INVITE"),
         NEW m \in Messages, Answers("callee", <<m>>)
  PROVE  /\ callee.state = "None" /\ caller.state # "Initial"
         /\ net'["callee"] = << >> /\ net'["caller"] \in {<< >>, <<m>>}
  <1>1. net["callee"] \in Seq(Messages) /\ net["callee"] # << >> /\ net["callee"][1] = "INVITE"
    BY DEF TypeOK, Ends, Takes
  <1>2. ~NoneIn(net["callee"], "INVITE")
    BY <1>1 DEF NoneIn
  <1>3. net["callee"] = <<"INVITE">> /\ net["caller"] = << >> /\ callee.state = "None"
    BY <1>1, <1>2 DEF InvitedOnce
  <1>4. net'["callee"] = Tail(net["callee"]) /\ net'["caller"] = net["caller"] \o Carried(<<m>>)
    BY <1>1, MessageLists, AnswersType DEF Ends, Peer
  <1>5. Carried(<<m>>) \in {<< >>, <<m>>}
    BY DEF Carried
  <1>6. QED
    BY <1>1, <1>3, <1>4, <1>5 DEF CallerInitial

(* None of the lists that are sent has an INVITE, but the first one.       *)
LEMMA ListsWithout ==
  /\ \A m \in {"INVITE", "Challenge", "2xx"} :
       /\ NoneIn(<< >>, m) /\ NoneIn(<<"CANCEL">>, m) /\ NoneIn(<<"ACK">>, m)
       /\ NoneIn(<<"AckReject">>, m) /\ NoneIn(<<"BYE">>, m) /\ NoneIn(<<"Reject">>, m)
       /\ NoneIn(<<"1xx">>, m)
  /\ NoneIn(<<"ACK", "BYE">>, "INVITE") /\ NoneIn(<<"ACK", "ACK", "BYE">>, "INVITE")
  /\ NoneIn(<<"Challenge">>, "2xx") /\ NoneIn(<<"2xx">>, "Challenge")
  BY DEF NoneIn

(* A step of the caller when the callee has been invited.                  *)
LEMMA CallerKeeps ==
  ASSUME Inv, TypeOK', UNCHANGED callee, callee.state # "None", caller'.state # "Initial",
         caller'.work = "Answer" => caller.work = "Answer" \/ ~NoneIn(net["caller"], "2xx"),
         UNCHANGED net \/ \E ms \in Seq(Messages) :
           /\ NoneIn(ms, "INVITE")
           /\ Sends("caller", ms) \/ (net["caller"] # << >> /\ Answers("caller", ms))
  PROVE  Inv'
  <1>1. /\ NoneIn(net["callee"], "INVITE") => NoneIn(net'["callee"], "INVITE")
        /\ NoneIn(net["caller"], "Challenge") => NoneIn(net'["caller"], "Challenge")
        /\ NoneIn(net["caller"], "2xx") => NoneIn(net'["caller"], "2xx")
    BY NoneSent DEF Inv, Ends, Peer
  <1>2. CallerInitial' /\ CalleeNone' /\ CalleeAccepts'
    BY DEF Inv, CallerInitial, CalleeNone, CalleeAccepts, Answered
  <1>3. InvitedOnce'
    BY <1>1 DEF Inv, InvitedOnce
  <1>4. AcceptAnswered'
    BY <1>1 DEF Inv, AcceptAnswered, Answered
  <1>5. QED
    BY <1>2, <1>3, <1>4 DEF Inv

(* A step of the caller, after its first ones, before the callee is        *)
(* invited.                                                                *)
LEMMA CallerKeepsWaiting ==
  ASSUME Inv, TypeOK', UNCHANGED callee, callee.state = "None",
         caller'.state \notin {"Initial", "Established"},
         caller'.txn \in {"None", "Calling", "Terminated"}, caller'.dialog = "None",
         caller'.work # "Answer",
         \/ UNCHANGED net
         \/ net'["callee"] \in {<< >>, <<"INVITE">>} /\ net'["caller"] = << >>
  PROVE  Inv'
  <1>1. InvitedOnce'
    BY DEF Inv, InvitedOnce
  <1>2. NoneIn(net'["caller"], "2xx")
    BY <1>1, ListsWithout DEF InvitedOnce
  <1>3. QED
    BY <1>1, <1>2 DEF Inv, CallerInitial, CalleeNone, AcceptAnswered, CalleeAccepts, Answered

LEMMA InvInitial == Init => Inv
  <1> SUFFICES ASSUME Init PROVE Inv
    OBVIOUS
  <1>1. net["caller"] = << >> /\ net["callee"] = << >>
    BY DEF Init, Ends
  <1>2. NoneIn(net["caller"], "2xx")
    BY <1>1, ListsWithout
  <1>3. QED
    BY <1>1, <1>2, TypeInitial DEF Init, Inv, CallerInitial, CalleeNone, InvitedOnce,
       AcceptAnswered, CalleeAccepts

(* The steps of a caller that has not sent its INVITE.                     *)
LEMMA InvFirstSteps ==
  ASSUME Inv, caller.state = "Initial", CallerNext
  PROVE  Inv'
  <1>1. TypeOK'
    BY TypeStep DEF Inv, Next
  <1>2. /\ net["caller"] = << >> /\ net["callee"] = << >> /\ callee.state = "None"
        /\ caller.txn = "None" /\ caller.dialog = "None" /\ caller.work # "Answer"
    BY DEF Inv, CallerInitial
  <1>3. Invite \/ OfferReady \/ OfferFailed \/ CancelInitial
    BY <1>2 DEF CallerNext, Invite, OfferReady, OfferFailed, CancelInitial, Cancel,
       ReceiveChallenge, ReceiveProgress, ReceiveAccept, ReceiveAcceptCanceled,
       ReceiveAcceptAgain, ReceiveReject, AnswerSet, AnswerSetCanceled, AnswerFailed, TimerB,
       TimerD, TimerM, CallerBye, CallerReceivesBye, Takes
  <1>4. UNCHANGED callee
    BY <1>3 DEF Invite, OfferReady, OfferFailed, CancelInitial
  <1>5. CASE Invite
    <2>1. /\ caller'.state = "Initial" /\ caller'.txn = "None" /\ caller'.dialog = "None"
          /\ caller'.work = "Offer" /\ UNCHANGED net
      BY <1>2, <1>5 DEF Invite, Inv, TypeOK, Caller
    <2>2. QED
      BY <1>1, <1>2, <1>4, <2>1 DEF Inv, CallerInitial, CalleeNone, InvitedOnce,
         AcceptAnswered, CalleeAccepts, Answered
  <1>6. CASE OfferReady
    <2>1. /\ caller'.state \in {"Establishing", "Terminated"} /\ caller'.work # "Answer"
          /\ caller'.txn \in {"Calling", "Terminated"} /\ caller'.dialog = "None"
      BY <1>2, <1>6 DEF OfferReady, Sent, Inv, TypeOK, Caller
    <2>2. Sends("caller", <<"INVITE">>) /\ <<"INVITE">> \in Seq(Messages)
      BY <1>6, MessageLists DEF OfferReady, Messages
    <2>3. net'["caller"] = << >> /\ net'["callee"] = << >> \o Carried(<<"INVITE">>)
      BY <1>2, <2>2, SendsType DEF Inv, Ends, Peer
    <2>4. net'["callee"] \in {<< >>, <<"INVITE">>}
      BY <2>3 DEF Carried
    <2>5. QED
      BY <1>1, <1>2, <1>4, <2>1, <2>3, <2>4, CallerKeepsWaiting
  <1>7. CASE OfferFailed \/ CancelInitial
    <2>1. /\ caller'.state = "Terminated" /\ caller'.txn = "None" /\ caller'.dialog = "None"
          /\ caller'.work # "Answer" /\ UNCHANGED net
      BY <1>2, <1>7 DEF OfferFailed, CancelInitial, Inv, TypeOK, Caller
    <2>2. QED
      BY <1>1, <1>2, <1>4, <2>1, CallerKeepsWaiting
  <1>8. QED
    BY <1>3, <1>5, <1>6, <1>7

(* The caller that waits for the callee to be invited.                     *)
LEMMA InvWaitingSteps ==
  ASSUME Inv, caller.state # "Initial", callee.state = "None", CallerNext
  PROVE  Inv'
  <1>1. TypeOK'
    BY TypeStep DEF Inv, Next
  <1>2. /\ caller.txn \in {"None", "Calling", "Terminated"} /\ caller.dialog = "None"
        /\ caller.work # "Answer" /\ caller.state # "Established"
        /\ net["caller"] \in {<< >>, <<"Challenge">>}
    BY DEF Inv, CalleeNone, InvitedOnce
  <1>3. \/ OfferReady \/ OfferFailed \/ Cancel \/ ReceiveChallenge \/ TimerB
    BY <1>2 DEF CallerNext, Invite, CancelInitial, ReceiveProgress, ReceiveAccept,
       ReceiveAcceptCanceled, ReceiveAcceptAgain, ReceiveReject, AnswerSet, AnswerSetCanceled,
       AnswerFailed, TimerD, TimerM, CallerBye, CallerReceivesBye, Takes
  <1>4. /\ UNCHANGED callee
        /\ caller'.state \notin {"Initial", "Established"} /\ caller'.dialog = "None"
        /\ caller'.txn \in {"None", "Calling", "Terminated"} /\ caller'.work # "Answer"
    BY <1>2, <1>3 DEF OfferReady, OfferFailed, Cancel, ReceiveChallenge, TimerB, Ended, Inv,
       TypeOK, Caller
  <1>5. CASE OfferReady \/ OfferFailed \/ TimerB
    <2>1. UNCHANGED net
      BY <1>5 DEF OfferReady, OfferFailed, TimerB
    <2>2. QED
      BY <1>1, <1>4, <2>1, CallerKeepsWaiting
  <1>6. CASE Cancel
    <2>1. Sends("caller", << >>)
      BY <1>2, <1>6 DEF Cancel
    <2>2. net'["caller"] = net["caller"] /\ net'["callee"] = net["callee"] \o Carried(<< >>)
      BY <2>1, MessageLists, SendsType DEF Inv, Ends, Peer
    <2>3. net'["callee"] = net["callee"]
      BY <2>2 DEF Carried, Inv, TypeOK, Ends
    <2>4. UNCHANGED net
      BY <1>1, <2>2, <2>3 DEF Inv, TypeOK, Ends
    <2>5. QED
      BY <1>1, <1>4, <2>4, CallerKeepsWaiting
  <1>7. CASE ReceiveChallenge
    <2>1. net["caller"] = <<"Challenge">> /\ net["callee"] = << >>
      BY <1>2, <1>7 DEF ReceiveChallenge, Takes, Inv, InvitedOnce
    <2>2. PICK ms \in {<< >>, <<"INVITE">>} : Answers("caller", ms)
      BY <1>7 DEF ReceiveChallenge
    <2>3. ms \in Seq(Messages)
      BY MessageLists DEF Messages
    <2>4. /\ net'["caller"] = Tail(net["caller"])
          /\ net'["callee"] = net["callee"] \o Carried(ms)
      <3>1. net["caller"] # << >> /\ Peer("caller") = "callee" /\ TypeOK
        BY <2>1 DEF Inv, Peer
      <3>2. QED
        BY <2>2, <2>3, <3>1, AnswersType DEF Ends
    <2>5. net'["caller"] = << >> /\ net'["callee"] = << >> \o Carried(ms)
      BY <2>1, <2>4
    <2>6. net'["callee"] \in {<< >>, <<"INVITE">>}
      BY <2>2, <2>5 DEF Carried
    <2>7. QED
      BY <1>1, <1>4, <2>5, <2>6, CallerKeepsWaiting
  <1>8. QED
    BY <1>3, <1>5, <1>6, <1>7

LEMMA InvCallerNext ==
  ASSUME Inv, CallerNext
  PROVE  Inv'
  <1>1. CASE caller.state = "Initial"
    BY <1>1, InvFirstSteps
  <1>2. CASE caller.state # "Initial" /\ callee.state = "None"
    BY <1>2, InvWaitingSteps
  <1>3. CASE caller.state # "Initial" /\ callee.state # "None"
    <2> USE <1>3, MessageLists, ListsWithout, SentEnded DEF TypeOK, Caller, Messages, Takes, Inv
    <2>1. TypeOK'
      BY TypeStep DEF Next
    <2>2. CASE Invite \/ CancelInitial
      BY <2>2 DEF Invite, CancelInitial
    <2>3. CASE OfferReady \/ OfferFailed
      <3>1. caller'.state # "Initial" /\ caller'.work = "None" /\ UNCHANGED <<callee, net>>
        BY <2>3 DEF OfferReady, OfferFailed
      <3>2. QED
        BY <2>1, <3>1, CallerKeeps
    <2>4. CASE Cancel
      BY <2>1, <2>4, CallerKeeps DEF Cancel
    <2>5. CASE ReceiveChallenge
      <3>1. net["caller"] \in Seq(Messages)
        BY DEF Ends
      <3>2. ~NoneIn(net["caller"], "Challenge")
        BY <2>5, <3>1 DEF ReceiveChallenge, NoneIn
      <3>3. QED
        BY <3>2 DEF InvitedOnce
    <2>6. CASE ReceiveProgress
      BY <2>1, <2>6, CallerKeeps DEF ReceiveProgress
    <2>7. CASE ReceiveAccept
      <3>1. net["caller"] \in Seq(Messages)
        BY DEF Ends
      <3>2. ~NoneIn(net["caller"], "2xx")
        BY <2>7, <3>1 DEF ReceiveAccept, NoneIn
      <3>3. QED
        BY <2>1, <2>7, <3>2, CallerKeeps DEF ReceiveAccept
    <2>8. CASE ReceiveAcceptCanceled
      BY <2>1, <2>8, CallerKeeps DEF ReceiveAcceptCanceled
    <2>9. CASE ReceiveAcceptAgain
      BY <2>1, <2>9, CallerKeeps DEF ReceiveAcceptAgain
    <2>10. CASE ReceiveReject
      BY <2>1, <2>10, CallerKeeps DEF ReceiveReject, Ended
    <2>11. CASE AnswerSet
      BY <2>1, <2>11, CallerKeeps DEF AnswerSet
    <2>12. CASE AnswerSetCanceled
      BY <2>1, <2>12, CallerKeeps DEF AnswerSetCanceled
    <2>13. CASE AnswerFailed
      BY <2>1, <2>13, CallerKeeps DEF AnswerFailed
    <2>14. CASE TimerB
      BY <2>1, <2>14, CallerKeeps DEF TimerB, Ended
    <2>15. CASE TimerD \/ TimerM
      BY <2>1, <2>15, CallerKeeps DEF TimerD, TimerM
    <2>16. CASE CallerBye
      BY <2>1, <2>16, CallerKeeps DEF CallerBye
    <2>17. CASE CallerReceivesBye
      BY <2>1, <2>17, CallerKeeps DEF CallerReceivesBye
    <2>18. QED
      BY <2>2, <2>3, <2>4, <2>5, <2>6, <2>7, <2>8, <2>9, <2>10, <2>11, <2>12, <2>13, <2>14,
         <2>15, <2>16, <2>17 DEF CallerNext
  <1>4. QED
    BY <1>1, <1>2, <1>3

(* A step of a callee that has been invited.                               *)
LEMMA CalleeKeeps ==
  ASSUME Inv, TypeOK', UNCHANGED caller, callee.state # "None", callee'.state # "None",
         Answered => Answered', CalleeAccepts',
         UNCHANGED net \/ \E ms \in Seq(Messages) :
           /\ NoneIn(ms, "2xx") \/ Answered'
           /\ NoneIn(ms, "Challenge")
           /\ Sends("callee", ms) \/ (net["callee"] # << >> /\ Answers("callee", ms))
  PROVE  Inv'
  <1>1. caller.state # "Initial"
    BY DEF Inv, CallerInitial
  <1>2. /\ NoneIn(net["callee"], "INVITE") => NoneIn(net'["callee"], "INVITE")
        /\ NoneIn(net["caller"], "Challenge") => NoneIn(net'["caller"], "Challenge")
        /\ NoneIn(net["caller"], "2xx") => NoneIn(net'["caller"], "2xx") \/ Answered'
    BY NoneSent DEF Inv, Ends, Peer
  <1>3. CallerInitial' /\ CalleeNone'
    BY <1>1 DEF Inv, CallerInitial, CalleeNone
  <1>4. InvitedOnce'
    BY <1>2 DEF Inv, InvitedOnce
  <1>5. AcceptAnswered'
    BY <1>2 DEF Inv, AcceptAnswered
  <1>6. QED
    BY <1>3, <1>4, <1>5 DEF Inv

LEMMA InvReceiveInvite ==
  ASSUME Inv, ReceiveInvite
  PROVE  Inv'
  <1>1. TypeOK'
    BY TypeStep DEF Inv, Next, CalleeNext
  <1>2. Answers("callee", <<"1xx">>) /\ UNCHANGED caller /\ "1xx" \in Messages
    BY DEF ReceiveInvite, Messages
  <1>3. /\ callee.state = "None" /\ caller.state # "Initial"
        /\ net'["callee"] = << >> /\ net'["caller"] \in {<< >>, <<"1xx">>}
    BY <1>2, TakenInvite DEF Inv, ReceiveInvite
  <1>4. callee.work = "None" /\ caller.work # "Answer"
    BY <1>3 DEF Inv, CalleeNone
  <1>5. /\ callee'.state = "Initial" /\ callee'.txn = "Proceeding"
        /\ callee'.dialog = "Early" /\ callee'.work = "None"
    BY <1>4 DEF ReceiveInvite, Inv, TypeOK, Callee
  <1>6. /\ NoneIn(net'["callee"], "INVITE") /\ NoneIn(net'["caller"], "Challenge")
        /\ NoneIn(net'["caller"], "2xx")
    BY <1>3, ListsWithout
  <1>7. QED
    BY <1>1, <1>2, <1>3, <1>4, <1>5, <1>6 DEF Inv, CallerInitial, CalleeNone, InvitedOnce,
       AcceptAnswered, CalleeAccepts, Answered

(* The PBX asks the caller for credentials.                                *)
LEMMA InvChallenge ==
  ASSUME Inv, Challenge
  PROVE  Inv'
  <1>1. TypeOK'
    BY TypeStep DEF Inv, Next
  <1>2. Answers("callee", <<"Challenge">>) /\ "Challenge" \in Messages
    BY DEF Challenge, Messages
  <1>3. /\ callee.state = "None" /\ caller.state # "Initial"
        /\ net'["callee"] = << >> /\ net'["caller"] \in {<< >>, <<"Challenge">>}
    BY <1>2, TakenInvite DEF Inv, Challenge
  <1>4. NoneIn(net'["caller"], "2xx")
    BY <1>3, ListsWithout
  <1>5. QED
    BY <1>1, <1>3, <1>4 DEF Challenge, Inv, CallerInitial, CalleeNone, InvitedOnce,
       AcceptAnswered, CalleeAccepts, Answered

LEMMA InvCalleeNext ==
  ASSUME Inv, CalleeNext
  PROVE  Inv'
  <1> USE MessageLists, ListsWithout
      DEF TypeOK, Callee, Messages, Takes, Refused, Inv, CalleeAccepts, CalleeNone, Answered
  <1>1. TypeOK'
    BY TypeStep DEF Next
  <1>2. CASE ReceiveInvite
    BY <1>2, InvReceiveInvite
  <1>3. ReceiveCancel \/ ReceiveAckReject \/ ReceiveAck \/ CalleeReceivesBye
          => callee.state # "None"
    BY DEF ReceiveCancel, ReceiveAckReject, ReceiveAck, CalleeReceivesBye, InvitedOnce
  <1>4. CASE Accept
    BY <1>1, <1>4, CalleeKeeps DEF Accept
  <1>5. CASE MediaReady
    BY <1>1, <1>5, CalleeKeeps DEF MediaReady
  <1>6. CASE MediaFailed
    BY <1>1, <1>6, CalleeKeeps DEF MediaFailed
  <1>7. CASE Reject
    BY <1>1, <1>7, CalleeKeeps DEF Reject
  <1>8. CASE NoAnswer
    BY <1>1, <1>8, CalleeKeeps DEF NoAnswer
  <1>9. CASE ReceiveCancel
    BY <1>1, <1>3, <1>9, CalleeKeeps DEF ReceiveCancel
  <1>10. CASE ReceiveAckReject
    <2>1. CASE callee.txn = "Completed"
      BY <1>1, <1>3, <1>10, <2>1, CalleeKeeps DEF ReceiveAckReject
    <2>2. CASE callee.txn # "Completed"
      <3>1. callee' = callee
        BY <1>10, <2>2 DEF ReceiveAckReject
      <3>2. QED
        BY <1>1, <1>3, <1>10, <3>1, CalleeKeeps DEF ReceiveAckReject
    <2>3. QED
      BY <2>1, <2>2
  <1>11. CASE ReceiveAck
    BY <1>1, <1>3, <1>11, CalleeKeeps DEF ReceiveAck
  <1>12. CASE CalleeBye
    BY <1>1, <1>12, CalleeKeeps DEF CalleeBye
  <1>13. CASE CalleeByeLater
    BY <1>1, <1>13, CalleeKeeps DEF CalleeByeLater
  <1>14. CASE CalleeReceivesBye
    <2>1. CASE callee.dialog = "Confirmed"
      <3>1. /\ callee'.dialog = "Closed" /\ callee'.work = callee.work
            /\ callee'.txn = callee.txn
            /\ callee'.state = IF callee.state = "Established" THEN "Terminated"
                              ELSE callee.state
        BY <1>14, <2>1 DEF CalleeReceivesBye
      <3>2. callee.state # "None" /\ callee'.state # "None"
        BY <2>1, <3>1
      <3>3. Answers("callee", << >>) /\ net["callee"] # << >> /\ UNCHANGED caller
        BY <1>14 DEF CalleeReceivesBye
      <3>4. CalleeAccepts'
        BY <2>1, <3>1
      <3>5. QED
        BY <1>1, <2>1, <3>1, <3>2, <3>3, <3>4, CalleeKeeps
    <2>2. CASE callee.dialog # "Confirmed"
      <3>1. callee' = callee
        BY <1>14, <2>2 DEF CalleeReceivesBye
      <3>2. QED
        BY <1>1, <1>3, <1>14, <3>1, CalleeKeeps DEF CalleeReceivesBye
    <2>3. QED
      BY <2>1, <2>2
  <1>15. CASE RetransmitAccept
    BY <1>1, <1>15, CalleeKeeps DEF RetransmitAccept
  <1>16. CASE TimerL
    BY <1>1, <1>16, CalleeKeeps DEF TimerL
  <1>17. CASE TimerH \/ TimerI
    BY <1>1, <1>17, CalleeKeeps DEF TimerH, TimerI
  <1>18. QED
    BY <1>2, <1>4, <1>5, <1>6, <1>7, <1>8, <1>9, <1>10, <1>11, <1>12, <1>13, <1>14, <1>15,
       <1>16, <1>17 DEF CalleeNext

LEMMA InvStep == Inv /\ [Next]_vars => Inv'
  <1> SUFFICES ASSUME Inv, [Next]_vars PROVE Inv'
    OBVIOUS
  <1>1. TypeOK'
    BY TypeStep DEF Inv
  <1>2. ASSUME NEW e \in Ends, Disconnect(e) PROVE Inv'
    <2>1. \A f \in Ends : net'[f] \in {net[f], << >>}
      BY <1>2 DEF Disconnect, Inv, TypeOK
    <2>2. UNCHANGED <<caller, callee>>
      BY <1>2 DEF Disconnect
    <2>3. /\ NoneIn(<< >>, "INVITE") /\ NoneIn(<< >>, "Challenge")
          /\ NoneIn(<< >>, "2xx")
      BY ListsWithout
    <2>4. QED
      BY <1>1, <2>1, <2>2, <2>3 DEF Inv, CallerInitial, CalleeNone, InvitedOnce,
         AcceptAnswered, CalleeAccepts, Answered, Ends
  <1>3. CASE UNCHANGED <<caller, callee, net>>
    BY <1>1, <1>3 DEF Inv, CallerInitial, CalleeNone, InvitedOnce, AcceptAnswered,
       CalleeAccepts, Answered
  <1>4. QED
    BY <1>2, <1>3, InvCallerNext, InvCalleeNext, InvChallenge DEF Next, vars, Reconnect

(* Nothing happens at an end before its INVITE, which with the challenge to*)
(* it is alone on its way; the callee is invited once; a 2xx is sent by a  *)
(* callee that is answering and taken by a caller only then: how Inviter,  *)
(* Invitation and their transactions in sip.js constrain each other and    *)
(* what is on its way between them.                                        *)
THEOREM InvCorrect == Spec => []Inv
  BY InvInitial, InvStep, PTL DEF Spec

-----------------------------------------------------------------------------
(* The refinement.                                                         *)

LEMMA RefinesInitial == Init => Call!Init
  BY DEF Init, Call!Init, Call!Ends, Ends, Phase, CallerPhase, CalleePhase, Answered

(* A step of PhoneCall at one end, from the phases before and after.       *)
LEMMA CallerPhaseStep ==
  ASSUME UNCHANGED callee,
         \/ CallerPhase' = CallerPhase
         \/ CallerPhase = "idle" /\ CallerPhase' = "ringing"
         \/ CallerPhase = "ringing" /\ CallerPhase' = "talking" /\ Answered
         \/ CallerPhase # "over" /\ CallerPhase' = "over"
  PROVE  Call!Next \/ UNCHANGED <<Phase, Answered>>
  <1>1. CalleePhase' = CalleePhase /\ Answered' = Answered
    BY DEF CalleePhase, Answered
  <1>2. Phase["caller"] = CallerPhase
    BY DEF Phase, Ends
  <1>3. CASE CallerPhase' = CallerPhase
    BY <1>1, <1>3 DEF Phase
  <1>4. Phase' = [Phase EXCEPT !["caller"] = CallerPhase']
    BY <1>1 DEF Phase, Ends
  <1>5. CASE CallerPhase' # CallerPhase
    BY <1>1, <1>2, <1>4, <1>5 DEF Call!Next, Call!Dial, Call!Connect, Call!End, Call!Enters,
       Call!Ends
  <1>6. QED
    BY <1>3, <1>5

LEMMA CalleePhaseStep ==
  ASSUME UNCHANGED caller,
         \/ CalleePhase' = CalleePhase /\ Answered' = Answered
         \/ /\ CallerPhase # "idle" /\ Answered' = Answered
            /\ CalleePhase = "idle" /\ CalleePhase' = "ringing"
         \/ CalleePhase = "ringing" /\ CalleePhase' = "talking" /\ Answered'
         \/ CalleePhase # "over" /\ CalleePhase' = "over" /\ Answered' = Answered
  PROVE  Call!Next \/ UNCHANGED <<Phase, Answered>>
  <1>1. CallerPhase' = CallerPhase
    BY DEF CallerPhase
  <1>2. Phase["caller"] = CallerPhase /\ Phase["callee"] = CalleePhase
    BY DEF Phase, Ends
  <1>3. CASE CalleePhase' = CalleePhase /\ Answered' = Answered
    BY <1>1, <1>3 DEF Phase
  <1>4. Phase' = [Phase EXCEPT !["callee"] = CalleePhase']
    BY <1>1 DEF Phase, Ends
  <1>5. Answered \in BOOLEAN /\ Answered' \in BOOLEAN
    BY DEF Answered
  <1>6. CASE ~(CalleePhase' = CalleePhase /\ Answered' = Answered)
    BY <1>2, <1>4, <1>5, <1>6 DEF Call!Next, Call!Ring, Call!Answer, Call!End, Call!Enters,
       Call!Ends
  <1>7. QED
    BY <1>3, <1>6

LEMMA RefinesCaller ==
  ASSUME Inv, CallerNext
  PROVE  Call!Next \/ UNCHANGED <<Phase, Answered>>
  <1> USE SentEnded DEF Inv, TypeOK, Caller, SessionState, CallerPhase
  <1>1. UNCHANGED callee
    BY DEF CallerNext, Invite, OfferReady, OfferFailed, CancelInitial, Cancel,
       ReceiveChallenge, ReceiveProgress, ReceiveAccept, ReceiveAcceptCanceled,
       ReceiveAcceptAgain, ReceiveReject, AnswerSet, AnswerSetCanceled, AnswerFailed, TimerB,
       TimerD, TimerM, CallerBye, CallerReceivesBye
  <1>2. CASE OfferReady
    <2>1. \/ caller'.state = caller.state
          \/ caller.state = "Initial" /\ caller'.state \in {"Establishing", "Terminated"}
      <3>1. Sent("Establishing") \in {"Establishing", "Terminated"}
        OBVIOUS
      <3>2. CASE caller.state = "Initial"
        BY <1>2, <3>1, <3>2 DEF OfferReady
      <3>3. CASE caller.state # "Initial"
        BY <1>2, <3>3 DEF OfferReady
      <3>4. QED
        BY <3>2, <3>3
    <2>2. QED
      BY <1>1, <2>1, CallerPhaseStep
  <1>3. CASE AnswerSet
    <2>1. Answered
      BY <1>3 DEF AnswerSet, AcceptAnswered
    <2>2. QED
      BY <1>1, <1>3, <2>1, CallerPhaseStep DEF AnswerSet
  <1>4. CASE OfferFailed \/ CancelInitial \/ AnswerSetCanceled \/ AnswerFailed \/ CallerBye
    <2>1. caller'.state = "Terminated"
      BY <1>4 DEF OfferFailed, CancelInitial, AnswerSetCanceled, AnswerFailed, CallerBye
    <2>2. QED
      BY <1>1, <2>1, CallerPhaseStep
  <1>5. CASE Cancel
    BY <1>1, <1>5, CallerPhaseStep DEF Cancel
  <1>6. CASE ReceiveAcceptCanceled \/ ReceiveReject \/ TimerB \/ CallerReceivesBye
    <2>1. caller'.state \in {caller.state, "Terminated"}
      <3>1. Ended(caller.state) \in {caller.state, "Terminated"}
        OBVIOUS
      <3>2. CASE ReceiveAcceptCanceled \/ ReceiveReject \/ TimerB
        BY <3>1, <3>2 DEF ReceiveAcceptCanceled, ReceiveReject, TimerB
      <3>3. CASE CallerReceivesBye
        BY <3>3 DEF CallerReceivesBye
      <3>4. QED
        BY <1>6, <3>2, <3>3
    <2>2. QED
      BY <1>1, <2>1, CallerPhaseStep
  <1>7. CASE \/ Invite \/ ReceiveChallenge \/ ReceiveProgress \/ ReceiveAccept
             \/ ReceiveAcceptAgain \/ TimerD \/ TimerM
    <2>1. caller'.state = caller.state
      BY <1>7 DEF Invite, ReceiveChallenge, ReceiveProgress, ReceiveAccept,
         ReceiveAcceptAgain, TimerD, TimerM
    <2>2. QED
      BY <1>1, <2>1, CallerPhaseStep
  <1>8. QED
    BY <1>2, <1>3, <1>4, <1>5, <1>6, <1>7 DEF CallerNext

LEMMA RefinesCallee ==
  ASSUME Inv, CalleeNext
  PROVE  Call!Next \/ UNCHANGED <<Phase, Answered>>
  <1> USE DEF Inv, TypeOK, Callee, SessionState, CalleePhase, Answered, Refused
  <1>1. UNCHANGED caller
    BY DEF CalleeNext, ReceiveInvite, Accept, MediaReady, MediaFailed, Reject, NoAnswer,
       ReceiveCancel, ReceiveAckReject, ReceiveAck, CalleeBye, CalleeByeLater,
       CalleeReceivesBye, RetransmitAccept, TimerL, TimerH, TimerI
  <1>2. CASE ReceiveInvite
    <2>1. Answers("callee", <<"1xx">>) /\ "1xx" \in Messages
      BY <1>2 DEF ReceiveInvite, Messages
    <2>2. callee.state = "None" /\ caller.state # "Initial"
      BY <1>2, <2>1, TakenInvite DEF ReceiveInvite
    <2>3. CallerPhase # "idle"
      BY <2>2 DEF CallerPhase
    <2>4. callee.dialog = "None" /\ callee'.dialog = "Early" /\ callee'.state = "Initial"
      BY <1>2, <2>2 DEF ReceiveInvite, CalleeNone
    <2>5. QED
      BY <1>1, <2>2, <2>3, <2>4, CalleePhaseStep
  <1>3. CASE MediaReady
    <2>1. CASE callee.txn = "Proceeding"
      <3>1. callee.state = "Establishing"
        BY <1>3, <2>1 DEF MediaReady, CalleeAccepts
      <3>2. callee'.state = "Established" /\ callee'.dialog = "Confirmed"
        BY <1>3, <2>1 DEF MediaReady
      <3>3. QED
        BY <1>1, <3>1, <3>2, CalleePhaseStep
    <2>2. CASE callee.txn # "Proceeding"
      BY <1>1, <1>3, <2>2, CalleePhaseStep DEF MediaReady
    <2>3. QED
      BY <2>1, <2>2
  <1>4. CASE MediaFailed \/ Reject \/ NoAnswer \/ ReceiveCancel
    <2>1. callee'.state \in {callee.state, "Terminated"} /\ callee'.dialog = callee.dialog
      BY <1>4 DEF MediaFailed, Reject, NoAnswer, ReceiveCancel
    <2>2. QED
      BY <1>1, <2>1, CalleePhaseStep
  <1>5. CASE CalleeBye \/ CalleeReceivesBye \/ ReceiveAck
    <2>1. /\ callee'.state \in {callee.state, "Terminated"}
          /\ callee'.dialog = callee.dialog
               \/ (callee.dialog = "Confirmed" /\ callee'.dialog = "Closed")
      BY <1>5 DEF CalleeBye, CalleeReceivesBye, ReceiveAck
    <2>2. QED
      BY <1>1, <2>1, CalleePhaseStep
  <1>6. CASE TimerL
    <2>1. Answered
      BY <1>6 DEF TimerL, CalleeAccepts
    <2>2. /\ callee'.state \in {callee.state, "Terminated"}
          /\ callee'.dialog \in {callee.dialog, "Closed"}
      BY <1>6 DEF TimerL
    <2>3. QED
      BY <1>1, <2>1, <2>2, CalleePhaseStep
  <1>7. CASE CalleeByeLater
    BY <1>1, <1>7, CalleePhaseStep DEF CalleeByeLater
  <1>8. CASE Accept
    BY <1>1, <1>8, CalleePhaseStep DEF Accept
  <1>9. CASE ReceiveAckReject \/ RetransmitAccept \/ TimerH \/ TimerI
    <2>1. callee'.state = callee.state /\ callee'.dialog = callee.dialog
      BY <1>9 DEF ReceiveAckReject, RetransmitAccept, TimerH, TimerI
    <2>2. QED
      BY <1>1, <2>1, CalleePhaseStep
  <1>10. QED
    BY <1>2, <1>3, <1>4, <1>5, <1>6, <1>7, <1>8, <1>9 DEF CalleeNext

LEMMA RefinesStep == Inv /\ [Next]_vars => [Call!Next]_<<Phase, Answered>>
  <1> SUFFICES ASSUME Inv, [Next]_vars PROVE Call!Next \/ UNCHANGED <<Phase, Answered>>
    OBVIOUS
  <1>1. CASE UNCHANGED <<caller, callee>>
    BY <1>1 DEF Phase, CallerPhase, CalleePhase, Answered
  <1>2. QED
    BY <1>1, RefinesCaller, RefinesCallee DEF Next, vars, Challenge, Disconnect,
       Reconnect

(* The two ends of a call implement PhoneCall, whatever is lost and        *)
(* however late the timers are: a caller is never shown a call that nobody *)
(* answered, and a call that is over stays over (Inviter, Invitation and   *)
(* Session.stateTransition in sip.js).                                     *)
THEOREM CallRefinesPhoneCall == Spec => PhoneCallKept
  <1>1. Inv /\ [Next]_vars => [Call!Next]_<<Phase, Answered>>
    BY RefinesStep
  <1>2. Spec => []Inv
    BY InvCorrect
  <1>3. Init => Call!Init
    BY RefinesInitial
  <1>4. QED
    BY <1>1, <1>2, <1>3, PTL DEF Spec, PhoneCallKept, Call!Spec, Call!vars
=============================================================================
