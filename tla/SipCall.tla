------------------------------ MODULE SipCall -------------------------------
(***************************************************************************)
(* One call between two users of SIP.js (src/addons/voip/static/lib/sip.js)*)
(* from the INVITE to the last BYE: the Inviter of the caller and the      *)
(* Invitation of the callee, with the INVITE transaction and the dialog    *)
(* under each.  Both ends speak to a PBX over a WebSocket each; it passes  *)
(* on every message of the call, in order, to an end that is connected.    *)
(*                                                                         *)
(* The answers to CANCEL and BYE change no state of the call and are left  *)
(* out.  No forking, no early media, no reliable provisional responses: the*)
(* softphone asks for none of them.                                        *)
(***************************************************************************)
EXTENDS Naturals, Sequences

CONSTANTS
  MaxDrops,   \* bound: WebSockets that are lost
  MaxTransit, \* bound: messages on their way to an end when a 2xx is sent again
  AllowLate   \* timers of 32 s may expire while their answer is on its way

ASSUME BoundsAssumption ==
  MaxDrops \in Nat /\ MaxTransit \in Nat \ {0} /\ AllowLate \in BOOLEAN

Ends == {"caller", "callee"}

Peer(e) == IF e = "caller" THEN "callee" ELSE "caller"

VARIABLES
  caller,  \* Inviter, InviteClientTransaction and SessionDialog of the caller
  callee,  \* Invitation, InviteServerTransaction and SessionDialog of the callee
  net,     \* the messages on their way to each end
  online,  \* the ends whose WebSocket is open
  drops,   \* the WebSockets lost so far
  late     \* some timer has expired while its answer was on its way

vars == <<caller, callee, net, online, drops, late>>

Messages == {"INVITE", "Challenge", "1xx", "2xx", "Reject", "CANCEL", "ACK", "AckReject", "BYE"}

SessionState == {"Initial", "Establishing", "Established", "Terminating", "Terminated"}

(* work is the promise the session waits for: a local offer, or what comes *)
(* of the answer.  pendingCancel: cancel() waits for the next state of the *)
(* transaction, which matters in Calling.  acked: there is an ACK to send  *)
(* again.  challenged: the INVITE has been sent again with credentials;    *)
(* unheard: a cancel() was waiting then.                                   *)
Caller ==
  [state : SessionState, isCanceled : BOOLEAN, pendingCancel : BOOLEAN,
   txn : {"None", "Calling", "Proceeding", "Accepted", "Completed", "Terminated"},
   dialog : {"None", "Confirmed", "Closed"}, acked : BOOLEAN,
   challenged : BOOLEAN, unheard : BOOLEAN,
   work : {"None", "Offer", "Answer"}]

Callee ==
  [state : SessionState \cup {"None"}, isCanceled : BOOLEAN,
   txn : {"None", "Proceeding", "Accepted", "Completed", "Confirmed", "Terminated"},
   dialog : {"None", "Early", "Confirmed", "Closed"}, ackWait : BOOLEAN,
   work : {"None", "Answer"}]

Init ==
  /\ caller = [state |-> "Initial", isCanceled |-> FALSE, pendingCancel |-> FALSE,
               txn |-> "None", dialog |-> "None", acked |-> FALSE, challenged |-> FALSE,
               unheard |-> FALSE, work |-> "None"]
  /\ callee = [state |-> "None", isCanceled |-> FALSE, txn |-> "None",
               dialog |-> "None", ackWait |-> FALSE, work |-> "None"]
  /\ net = [e \in Ends |-> << >>]
  /\ online = Ends
  /\ drops = 0 /\ late = FALSE

-----------------------------------------------------------------------------
(* Transport.  What an end sends while it, or the other one, is off line   *)
(* reaches nobody.                                                         *)

Carried(ms) == IF online = Ends THEN ms ELSE << >>

Sends(e, ms) ==
  /\ net' = [net EXCEPT ![Peer(e)] = @ \o Carried(ms)]
  /\ UNCHANGED <<online, drops>>

(* End e takes its next message, m, and sends ms.                          *)
Takes(e, m) == e \in online /\ net[e] # << >> /\ Head(net[e]) = m

Answers(e, ms) ==
  /\ net' = [net EXCEPT ![e] = Tail(@), ![Peer(e)] = @ \o Carried(ms)]
  /\ UNCHANGED <<online, drops, late>>

Disconnect(e) ==
  /\ e \in online /\ drops < MaxDrops
  /\ online' = online \ {e}
  /\ net' = [net EXCEPT ![e] = << >>]
  /\ drops' = drops + 1
  /\ UNCHANGED <<caller, callee, late>>

(* The PBX asks for the credentials of the caller.                         *)
Challenge ==
  /\ Takes("callee", "INVITE") /\ ~caller.challenged
  /\ Answers("callee", <<"Challenge">>)
  /\ UNCHANGED <<caller, callee>>

Reconnect(e) ==
  /\ e \notin online
  /\ online' = online \cup {e}
  /\ UNCHANGED <<caller, callee, net, drops, late>>

(* Nothing is on its way that a timer of 32 s could be waiting for.        *)
Quiet == net = [e \in Ends |-> << >>] /\ caller.work # "Answer"

Expires ==
  /\ AllowLate \/ Quiet
  /\ late' = (late \/ ~Quiet)

-----------------------------------------------------------------------------
(* The caller.                                                             *)

(* A request of the INVITE transaction that cannot be sent ends it, and the*)
(* session that starts with it: 503.                                       *)
Sent(state) == IF "caller" \in online THEN state ELSE "Terminated"

(* MUTANT: a state of its own for a session that was refused.              *)
EndedRefused(state) ==
  IF state \in {"Establishing", "Terminating"} THEN "Refused" ELSE state

Ended(state) ==
  IF state \in {"Establishing", "Terminating"} THEN "Terminated" ELSE state

Invite ==
  /\ caller.state = "Initial" /\ caller.work = "None"
  /\ caller' = [caller EXCEPT !.work = "Offer"]
  /\ UNCHANGED <<callee, net, online, drops, late>>

(* A session canceled before its offer was made throws: it sends nothing.  *)
OfferReady ==
  /\ caller.work = "Offer"
  /\ \/ /\ caller.state = "Initial"
        /\ caller' = [caller EXCEPT
             !.work = "None", !.txn = Sent("Calling"), !.state = Sent("Establishing")]
        /\ Sends("caller", <<"INVITE">>)
     \/ /\ caller.state # "Initial"
        /\ caller' = [caller EXCEPT !.work = "None"]
        /\ UNCHANGED <<net, online, drops>>
  /\ UNCHANGED <<callee, late>>

OfferFailed ==
  /\ caller.work = "Offer"
  /\ caller' = [caller EXCEPT !.work = "None", !.state = "Terminated"]
  /\ UNCHANGED <<callee, net, online, drops, late>>

CancelInitial ==
  /\ caller.state = "Initial"
  /\ caller' = [caller EXCEPT !.isCanceled = TRUE, !.state = "Terminated"]
  /\ UNCHANGED <<callee, net, online, drops, late>>

(* MUTANT: cancel() does not wait for a provisional response.              *)
CancelUnlistened ==
  /\ caller.state = "Establishing"
  /\ caller' = [caller EXCEPT !.isCanceled = TRUE, !.state = "Terminating"]
  /\ Sends("caller", IF caller.txn = "Proceeding" THEN <<"CANCEL">> ELSE << >>)
  /\ UNCHANGED <<callee, late>>

(* CANCEL goes out in Proceeding only; else at the next state of the       *)
(* transaction, if it is that one.                                         *)
Cancel ==
  /\ caller.state = "Establishing"
  /\ caller' = [caller EXCEPT !.isCanceled = TRUE, !.state = "Terminating",
                              !.pendingCancel = caller.txn = "Calling"]
  /\ Sends("caller", IF caller.txn = "Proceeding" THEN <<"CANCEL">> ELSE << >>)
  /\ UNCHANGED <<callee, late>>

(* authenticationGuard puts a new transaction, with credentials, in the    *)
(* place of the old one.  The listener of cancel() goes with the old one,  *)
(* and nobody looks whether the session has been canceled.                 *)
ReceiveChallenge ==
  /\ Takes("caller", "Challenge")
  /\ \/ /\ caller.txn = "Calling"
        /\ caller' = [caller EXCEPT !.challenged = TRUE, !.pendingCancel = FALSE,
                                    !.unheard = caller.pendingCancel]
        /\ Answers("caller", <<"INVITE">>)
     \/ caller.txn # "Calling" /\ UNCHANGED caller /\ Answers("caller", << >>)
  /\ UNCHANGED callee

ReceiveProgress ==
  /\ Takes("caller", "1xx")
  /\ \/ /\ caller.txn = "Calling"
        /\ caller' = [caller EXCEPT !.txn = "Proceeding", !.pendingCancel = FALSE]
        /\ Answers("caller", IF caller.pendingCancel THEN <<"CANCEL">> ELSE << >>)
     \/ caller.txn # "Calling" /\ UNCHANGED caller /\ Answers("caller", << >>)
  /\ UNCHANGED callee

Waiting == caller.txn \in {"Calling", "Proceeding"}

(* The callee has answered: the session applies the answer.                *)
ReceiveAccept ==
  /\ Takes("caller", "2xx") /\ Waiting /\ ~caller.isCanceled
  /\ caller' = [caller EXCEPT !.txn = "Accepted", !.dialog = "Confirmed", !.work = "Answer"]
  /\ Answers("caller", << >>)
  /\ UNCHANGED callee

(* MUTANT: the answer to a canceled call is acknowledged, no more.         *)
ReceiveAcceptCanceledNoBye ==
  /\ Takes("caller", "2xx") /\ Waiting /\ caller.isCanceled
  /\ caller' = [caller EXCEPT !.txn = Sent("Accepted"), !.dialog = "Closed", !.acked = TRUE,
                              !.pendingCancel = FALSE, !.state = "Terminated"]
  /\ Answers("caller", <<"ACK">>)
  /\ UNCHANGED callee

(* ... but the caller has given up: ackAndBye.                             *)
ReceiveAcceptCanceled ==
  /\ Takes("caller", "2xx") /\ Waiting /\ caller.isCanceled
  /\ caller' = [caller EXCEPT !.txn = Sent("Accepted"), !.dialog = "Closed", !.acked = TRUE,
                              !.pendingCancel = FALSE, !.state = "Terminated"]
  /\ Answers("caller", <<"ACK", "BYE">>)
  /\ UNCHANGED callee

(* A 2xx sent again gets the same ACK again, if there is one yet.          *)
ReceiveAcceptAgain ==
  /\ Takes("caller", "2xx") /\ ~Waiting
  /\ \/ /\ caller.txn = "Accepted" /\ caller.acked
        /\ caller' = [caller EXCEPT !.txn = Sent(@)]
        /\ Answers("caller", <<"ACK">>)
     \/ /\ ~(caller.txn = "Accepted" /\ caller.acked)
        /\ UNCHANGED caller /\ Answers("caller", << >>)
  /\ UNCHANGED callee

ReceiveReject ==
  /\ Takes("caller", "Reject")
  /\ \/ /\ Waiting
        /\ caller' = [caller EXCEPT !.txn = Sent("Completed"), !.pendingCancel = FALSE,
                                    !.state = Ended(@)]
        /\ Answers("caller", <<"AckReject">>)
     \/ /\ caller.txn = "Completed"
        /\ caller' = [caller EXCEPT !.txn = Sent(@)]
        /\ Answers("caller", <<"AckReject">>)
     \/ /\ ~Waiting /\ caller.txn # "Completed"
        /\ UNCHANGED caller /\ Answers("caller", << >>)
  /\ UNCHANGED callee

(* MUTANT: the session is not looked at again when the answer is set.      *)
AnswerSetAlways ==
  /\ caller.work = "Answer"
  /\ caller' = [caller EXCEPT !.work = "None", !.state = "Established", !.acked = TRUE,
                              !.txn = Sent(@)]
  /\ Sends("caller", <<"ACK">>)
  /\ UNCHANGED <<callee, late>>

AnswerSet ==
  /\ caller.work = "Answer" /\ caller.state = "Establishing"
  /\ caller' = [caller EXCEPT !.work = "None", !.state = "Established", !.acked = TRUE,
                              !.txn = Sent(@)]
  /\ Sends("caller", <<"ACK">>)
  /\ UNCHANGED <<callee, late>>

(* MUTANT: the call is acknowledged but not ended.                         *)
AnswerSetCanceledQuietly ==
  /\ caller.work = "Answer" /\ caller.state = "Terminating"
  /\ caller' = [caller EXCEPT !.work = "None", !.state = "Terminated", !.acked = TRUE,
                              !.dialog = "Closed", !.txn = Sent(@)]
  /\ Sends("caller", <<"ACK">>)
  /\ UNCHANGED <<callee, late>>

(* Canceled meanwhile: the ACK is sent, the transition to Established      *)
(* throws, and ackAndBye sends the ACK once more and the BYE.              *)
AnswerSetCanceled ==
  /\ caller.work = "Answer" /\ caller.state = "Terminating"
  /\ caller' = [caller EXCEPT !.work = "None", !.state = "Terminated", !.acked = TRUE,
                              !.dialog = "Closed", !.txn = Sent(@)]
  /\ Sends("caller", <<"ACK", "ACK", "BYE">>)
  /\ UNCHANGED <<callee, late>>

AnswerFailed ==
  /\ caller.work = "Answer"
  /\ caller' = [caller EXCEPT !.work = "None", !.state = "Terminated", !.acked = TRUE,
                              !.dialog = "Closed", !.txn = Sent(@)]
  /\ Sends("caller", <<"ACK", "BYE">>)
  /\ UNCHANGED <<callee, late>>

TimerB ==
  /\ caller.txn = "Calling" /\ Expires
  /\ caller' = [caller EXCEPT !.txn = "Terminated", !.pendingCancel = FALSE, !.state = Ended(@)]
  /\ UNCHANGED <<callee, net, online, drops>>

(* Timer D is of 0 s, timer M of 32 s.                                     *)
TimerD ==
  /\ caller.txn = "Completed"
  /\ caller' = [caller EXCEPT !.txn = "Terminated"]
  /\ UNCHANGED <<callee, net, online, drops, late>>

TimerM ==
  /\ caller.txn = "Accepted" /\ Expires
  /\ caller' = [caller EXCEPT !.txn = "Terminated"]
  /\ UNCHANGED <<callee, net, online, drops>>

CallerBye ==
  /\ caller.state = "Established" /\ caller.dialog = "Confirmed"
  /\ caller' = [caller EXCEPT !.state = "Terminated", !.dialog = "Closed"]
  /\ Sends("caller", <<"BYE">>)
  /\ UNCHANGED <<callee, late>>

(* MUTANT: the session is left as it is.                                   *)
CallerReceivesByeDialogOnly ==
  /\ Takes("caller", "BYE")
  /\ caller' = IF caller.dialog # "Confirmed" THEN caller
               ELSE [caller EXCEPT !.dialog = "Closed"]
  /\ Answers("caller", << >>)
  /\ UNCHANGED callee

(* The dialog is closed whatever the state of the session; without one the *)
(* request is refused.                                                     *)
CallerReceivesBye ==
  /\ Takes("caller", "BYE")
  /\ caller' = IF caller.dialog # "Confirmed" THEN caller
               ELSE [caller EXCEPT !.dialog = "Closed",
                                   !.state = IF @ = "Established" THEN "Terminated" ELSE @]
  /\ Answers("caller", << >>)
  /\ UNCHANGED callee

-----------------------------------------------------------------------------
(* The callee.                                                             *)

ReceiveInvite ==
  /\ Takes("callee", "INVITE")
  /\ callee' = [callee EXCEPT !.state = "Initial", !.txn = "Proceeding", !.dialog = "Early"]
  /\ Answers("callee", <<"1xx">>)
  /\ UNCHANGED caller

Accept ==
  /\ callee.state = "Initial"
  /\ callee' = [callee EXCEPT !.state = "Establishing", !.work = "Answer"]
  /\ UNCHANGED <<caller, net, online, drops, late>>

(* The user has given its microphone; a call that is over cannot be        *)
(* accepted any more, and the error is dropped.                            *)
MediaReady ==
  /\ callee.work = "Answer"
  /\ \/ /\ callee.txn = "Proceeding"
        /\ callee' = [callee EXCEPT !.work = "None", !.state = "Established",
             !.txn = "Accepted", !.dialog = "Confirmed", !.ackWait = TRUE]
        /\ Sends("callee", <<"2xx">>)
     \/ /\ callee.txn # "Proceeding"
        /\ callee' = [callee EXCEPT !.work = "None"]
        /\ UNCHANGED <<net, online, drops>>
  /\ UNCHANGED <<caller, late>>

(* A final response other than 2xx, and the end of the session.            *)
Refused == [callee EXCEPT !.state = "Terminated", !.txn = "Completed"]

MediaFailed ==
  /\ callee.work = "Answer"
  /\ \/ /\ callee.state = "Establishing"
        /\ callee' = [Refused EXCEPT !.work = "None"] /\ Sends("callee", <<"Reject">>)
     \/ /\ callee.state # "Establishing"
        /\ callee' = [callee EXCEPT !.work = "None"]
        /\ UNCHANGED <<net, online, drops>>
  /\ UNCHANGED <<caller, late>>

Reject ==
  /\ callee.state \in {"Initial", "Establishing"}
  /\ callee' = Refused
  /\ Sends("callee", <<"Reject">>)
  /\ UNCHANGED <<caller, late>>

(* userNoAnswerTimer, of 60 s, stopped by accept.                          *)
NoAnswer ==
  /\ callee.state = "Initial"
  /\ callee' = Refused
  /\ Sends("callee", <<"Reject">>)
  /\ UNCHANGED <<caller, late>>

ReceiveCancel ==
  /\ Takes("callee", "CANCEL")
  /\ \/ /\ callee.txn = "Proceeding"
        /\ callee' = [Refused EXCEPT !.isCanceled = TRUE]
        /\ Answers("callee", <<"Reject">>)
     \/ callee.txn # "Proceeding" /\ UNCHANGED callee /\ Answers("callee", << >>)
  /\ UNCHANGED caller

ReceiveAckReject ==
  /\ Takes("callee", "AckReject")
  /\ callee' = [callee EXCEPT !.txn = IF @ = "Completed" THEN "Confirmed" ELSE @]
  /\ Answers("callee", << >>)
  /\ UNCHANGED caller

(* MUTANT: the BYE that waited is forgotten.                               *)
ReceiveAckNoBye ==
  /\ Takes("callee", "ACK")
  /\ callee' = IF callee.dialog # "Confirmed" THEN callee
               ELSE [callee EXCEPT !.ackWait = FALSE]
  /\ Answers("callee", << >>)
  /\ UNCHANGED caller

(* A BYE that waited for the ACK goes out with it.                         *)
ReceiveAck ==
  /\ Takes("callee", "ACK")
  /\ \/ callee.dialog # "Confirmed" /\ UNCHANGED callee /\ Answers("callee", << >>)
     \/ /\ callee.dialog = "Confirmed" /\ callee.state = "Terminating" /\ callee.ackWait
        /\ callee' = [callee EXCEPT !.ackWait = FALSE, !.dialog = "Closed",
                                    !.state = "Terminated"]
        /\ Answers("callee", <<"BYE">>)
     \/ /\ callee.dialog = "Confirmed" /\ ~(callee.state = "Terminating" /\ callee.ackWait)
        /\ callee' = [callee EXCEPT !.ackWait = FALSE]
        /\ Answers("callee", << >>)
  /\ UNCHANGED caller

CalleeBye ==
  /\ callee.state = "Established" /\ ~callee.ackWait /\ callee.dialog = "Confirmed"
  /\ callee' = [callee EXCEPT !.state = "Terminated", !.dialog = "Closed"]
  /\ Sends("callee", <<"BYE">>)
  /\ UNCHANGED <<caller, late>>

(* No BYE before the ACK.                                                  *)
CalleeByeLater ==
  /\ callee.state = "Established" /\ callee.ackWait
  /\ callee' = [callee EXCEPT !.state = "Terminating"]
  /\ UNCHANGED <<caller, net, online, drops, late>>

CalleeReceivesBye ==
  /\ Takes("callee", "BYE")
  /\ callee' = IF callee.dialog # "Confirmed" THEN callee
               ELSE [callee EXCEPT !.dialog = "Closed",
                                   !.state = IF @ = "Established" THEN "Terminated" ELSE @]
  /\ Answers("callee", << >>)
  /\ UNCHANGED caller

(* start2xxRetransmissionTimer: until the ACK, or the end of the dialog.   *)
RetransmitAccept ==
  /\ callee.ackWait /\ callee.dialog = "Confirmed" /\ callee.txn = "Accepted"
  /\ \A e \in Ends : Len(net[e]) < MaxTransit
  /\ Sends("callee", <<"2xx">>)
  /\ UNCHANGED <<caller, callee, late>>

(* Timer L: the ACK has not come, onAckTimeout sends the BYE.              *)
TimerL ==
  /\ callee.txn = "Accepted" /\ Expires
  /\ \/ /\ callee.ackWait
        /\ callee' = [callee EXCEPT !.txn = "Terminated", !.dialog = "Closed",
                                    !.state = "Terminated"]
        /\ Sends("callee", <<"BYE">>)
     \/ /\ ~callee.ackWait
        /\ callee' = [callee EXCEPT !.txn = "Terminated"]
        /\ UNCHANGED <<net, online, drops>>
  /\ UNCHANGED caller

(* Timer H is of 32 s, timer I of 0 s.                                     *)
TimerH ==
  /\ callee.txn = "Completed" /\ Expires
  /\ callee' = [callee EXCEPT !.txn = "Terminated"]
  /\ UNCHANGED <<caller, net, online, drops>>

TimerI ==
  /\ callee.txn = "Confirmed"
  /\ callee' = [callee EXCEPT !.txn = "Terminated"]
  /\ UNCHANGED <<caller, net, online, drops, late>>

-----------------------------------------------------------------------------
CallerNext ==
  \/ Invite \/ OfferReady \/ OfferFailed \/ CancelInitial \/ Cancel
  \/ ReceiveChallenge \/ ReceiveProgress
  \/ ReceiveAccept \/ ReceiveAcceptCanceled \/ ReceiveAcceptAgain
  \/ ReceiveReject \/ AnswerSet \/ AnswerSetCanceled \/ AnswerFailed
  \/ TimerB \/ TimerD \/ TimerM \/ CallerBye \/ CallerReceivesBye

CalleeNext ==
  \/ ReceiveInvite \/ Accept \/ MediaReady \/ MediaFailed \/ Reject \/ NoAnswer
  \/ ReceiveCancel \/ ReceiveAckReject \/ ReceiveAck \/ CalleeBye \/ CalleeByeLater
  \/ CalleeReceivesBye \/ RetransmitAccept \/ TimerL \/ TimerH \/ TimerI

Next ==
  \/ CallerNext \/ CalleeNext \/ Challenge
  \/ \E e \in Ends : Disconnect(e) \/ Reconnect(e)

Spec == Init /\ [][Next]_vars

(* The browser resolves its promises, the messages arrive, the timers      *)
(* expire.  What the users do, and the network, is left to them.           *)
CallerReceives ==
  \/ ReceiveChallenge \/ ReceiveProgress
  \/ ReceiveAccept \/ ReceiveAcceptCanceled \/ ReceiveAcceptAgain
  \/ ReceiveReject \/ CallerReceivesBye

CalleeReceives ==
  \/ ReceiveInvite \/ ReceiveCancel \/ ReceiveAckReject \/ ReceiveAck \/ CalleeReceivesBye

Fairness ==
  /\ WF_vars(CallerReceives) /\ WF_vars(CalleeReceives \/ Challenge)
  /\ WF_vars(OfferReady \/ OfferFailed)
  /\ WF_vars(AnswerSet \/ AnswerSetCanceled \/ AnswerFailed)
  /\ WF_vars(MediaReady \/ MediaFailed)
  /\ WF_vars(TimerB) /\ WF_vars(TimerL) /\ WF_vars(NoAnswer)

FairSpec == Spec /\ Fairness

-----------------------------------------------------------------------------
TypeOK ==
  /\ caller \in Caller /\ callee \in Callee
  /\ net \in [Ends -> Seq(Messages)]
  /\ online \subseteq Ends
  /\ drops \in Nat /\ late \in BOOLEAN

(* What each user sees.                                                    *)
CallerPhase ==
  IF caller.state = "Initial" THEN "idle"
  ELSE IF caller.state = "Establishing" THEN "ringing"
  ELSE IF caller.state = "Established" THEN "talking"
  ELSE "over"

CalleePhase ==
  IF callee.state = "None" THEN "idle"
  ELSE IF callee.state \in {"Initial", "Establishing"} THEN "ringing"
  ELSE IF callee.state = "Established" THEN "talking"
  ELSE "over"

Phase == [e \in Ends |-> IF e = "caller" THEN CallerPhase ELSE CalleePhase]

Answered == callee.dialog \in {"Confirmed", "Closed"}

Call == INSTANCE PhoneCall WITH phase <- Phase, answered <- Answered

(* Whatever is lost and however late the timers are, the session states    *)
(* of the two ends keep what PhoneCall promises.                           *)
PhoneCallKept == Call!Spec

(* A session shown as established can be hung up: bye() throws when the    *)
(* dialog is gone (Session._bye).                                          *)
HangUpPossible ==
  ~late => /\ caller.state = "Established" => caller.dialog = "Confirmed"
           /\ callee.state = "Established" => callee.dialog = "Confirmed"

(* With nothing lost and nothing under way, both users are in the call or  *)
(* none is.                                                                *)
SettledTogether ==
  (drops = 0 /\ ~late /\ Quiet /\ ~callee.ackWait /\ callee.work = "None") =>
    (caller.state = "Established" <=> callee.state = "Established")

(* A call that its caller has given up does not go on ringing, when nothing*)
(* is lost, unless he gave it up just before the PBX asked for credentials.*)
GivenUpHeard ==
  (drops = 0 /\ ~late /\ Quiet /\ caller.isCanceled /\ ~caller.unheard) =>
    callee.state # "Initial"

(* "The net effect is that this method will terminate the session          *)
(* regardless of the race" (Inviter.cancel): nor in that case.             *)
NobodyRungInVain ==
  (drops = 0 /\ ~late /\ Quiet /\ caller.isCanceled) => callee.state # "Initial"

(* The end of a call at one end reaches the other one, when nothing is     *)
(* lost: nobody keeps ringing or talking alone.                            *)
EndsTogether ==
  [](drops = 0 /\ ~late) =>
    /\ caller.state = "Terminated" /\ callee.state # "None" ~> callee.state = "Terminated"
    /\ callee.state = "Terminated" ~> caller.state = "Terminated"

(* The callee leaves its intermediate states whatever is lost: the timers  *)
(* of 60 s and 32 s see to it.                                             *)
CalleeSettles ==
  callee.state \in {"Initial", "Establishing", "Terminating"} ~>
    callee.state \in {"Established", "Terminated"}
=============================================================================
