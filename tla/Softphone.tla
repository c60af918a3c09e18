----------------------------- MODULE Softphone ------------------------------
(***************************************************************************)
(* The softphone of the voip module: UserAgent of user_agent_service.js,   *)
(* which holds one session at a time, and CallService, which keeps the     *)
(* record of each call on the server and in the store of the page.         *)
(*                                                                         *)
(* The handlers of UserAgent run to their first await and act on           *)
(* this.session, whichever call they were installed for.  What SIP.js does *)
(* with a call is abstracted to its leg: SipCall has the detail.           *)
(***************************************************************************)
EXTENDS Naturals, FiniteSets

CONSTANTS
  Calls,        \* the calls dialled or received in the life of the page
  NoCall,       \* the session of a softphone in no call
  MaxRequests,  \* bound: requests to the server in flight at a time
  MaxMishaps    \* bound: kinds of mishaps in a behaviour

ASSUME CallsAssumption ==
  NoCall \notin Calls /\ MaxRequests \in Nat /\ MaxMishaps \in Nat

VARIABLES
  session,   \* this.session of UserAgent: its call, which names its leg too
  leg,       \* the SIP session of each call
  record,    \* its voip.call on the server, and in the store of the page
  requests,  \* the requests of CallService on their way or answered
  mishaps    \* what went wrong: see Mishaps

vars == <<session, leg, record, requests, mishaps>>

Final == {"aborted", "terminated", "rejected", "missed"}

RecordState == {"absent", "calling", "ongoing"} \cup Final

(* mic is the request of getUserMedia; answered, that the 2xx has come and *)
(* its answer is being applied; referred, that the call was offered to     *)
(* another number; end, what became of it, once it is let go.              *)
Leg ==
  [dir : {"none", "outgoing", "incoming"},
   state : {"None", "Initial", "Establishing", "Established", "Terminating", "Terminated"},
   mic : {"none", "asked", "given"},
   answered : BOOLEAN,
   referred : BOOLEAN,
   end : {"none", "lost"} \cup Final]

(* ticking is the interval of call.timer.                                  *)
Record == [db : RecordState, shown : RecordState, ticking : BOOLEAN]

Kinds == {"create", "start", "abort", "end", "reject", "miss"}

(* clears tells that the handler which sent it goes on to clear session.   *)
Request ==
  [id : 1..MaxRequests, call : Calls, kind : Kinds, clears : BOOLEAN, served : BOOLEAN]

(* overlap: a call began while another was beginning, or being let go, or  *)
(* was dialled during another.  crossed: a request was sent while another  *)
(* about the same call was in flight.  silent: the user hung up a call the *)
(* line was not told of.  early: the caller gave up while the record was   *)
(* being created.  late: he did after the clock of the call had started.   *)
(* declined: the user declined a call he had accepted.  mistaken: he       *)
(* clicked on the panel of a call other than the session's.  stale: the    *)
(* prompt for the microphone was answered in another call.  unnoticed:     *)
(* SIP.js ended the call by itself.  belated: the line answered or refused *)
(* a call hung up when another had become the session.  uncreated, failed: *)
(* the request for a record, or a later one, failed.  reloaded: the page   *)
(* went away in a call.                                                    *)
Mishaps == {"overlap", "crossed", "silent", "early", "late", "unnoticed",
            "belated", "declined", "mistaken", "stale",
            "uncreated", "failed", "reloaded"}

Init ==
  /\ session = NoCall
  /\ leg = [c \in Calls |-> [dir |-> "none", state |-> "None", mic |-> "none",
                             answered |-> FALSE, referred |-> FALSE, end |-> "none"]]
  /\ record = [c \in Calls |-> [db |-> "absent", shown |-> "absent", ticking |-> FALSE]]
  /\ requests = {} /\ mishaps = {}

-----------------------------------------------------------------------------
(* Requests to the server, each with a connection of its own.              *)

(* As if a call hung up had a state of its own.                            *)
ResultUnknown(kind) ==
  CASE kind = "create" -> "calling"
    [] kind = "start" -> "ongoing"
    [] kind = "abort" -> "hungup"
    [] kind = "end" -> "terminated"
    [] kind = "reject" -> "rejected"
    [] kind = "miss" -> "missed"

(* The state a request gives the record on the server.                     *)
Result(kind) ==
  CASE kind = "create" -> "calling"
    [] kind = "start" -> "ongoing"
    [] kind = "abort" -> "aborted"
    [] kind = "end" -> "terminated"
    [] kind = "reject" -> "rejected"
    [] kind = "miss" -> "missed"

About(c) == {r \in requests : r.call = c}

Creating == {r \in requests : r.kind = "create"}

(* A call is beginning, or its handler waits to clear the session.         *)
Busy == \E r \in requests : r.kind = "create" \/ r.clears

Went(wrong) ==
  /\ mishaps' = mishaps \cup wrong
  /\ Cardinality(mishaps \cup wrong) <= MaxMishaps

(* orm.call: the request leaves; what else went wrong is in also.          *)
Ask(c, kind, clears, also) ==
  \E id \in 1..MaxRequests :
    /\ \A r \in requests : r.id # id
    /\ \A i \in 1..(id - 1) : \E r \in requests : r.id = i
    /\ requests' = requests \cup {[id |-> id, call |-> c, kind |-> kind,
                                   clears |-> clears, served |-> FALSE]}
    /\ Went(also \cup IF About(c) = {} THEN {} ELSE {"crossed"})

AskNothing(also) == UNCHANGED requests /\ Went(also)

Serve(r) ==
  /\ r \in requests /\ ~r.served
  /\ record' = [record EXCEPT ![r.call].db = Result(r.kind)]
  /\ requests' = (requests \ {r}) \cup {[r EXCEPT !.served = TRUE]}
  /\ UNCHANGED <<session, leg, mishaps>>

(* The answer is put in the store; start sets the interval of the timer    *)
(* and end clears it; the handler that waited goes on.                     *)
Answered(r) ==
  /\ r \in requests \ Creating /\ r.served
  /\ record' = [record EXCEPT
       ![r.call].shown = Result(r.kind),
       ![r.call].ticking = (@ \/ r.kind = "start") /\ r.kind # "end"]
  /\ requests' = requests \ {r}
  /\ session' = IF r.clears THEN NoCall ELSE session
  /\ UNCHANGED <<leg, mishaps>>

(* orm.call throws, whether or not the server has done the work: the       *)
(* handler stops at its await.                                             *)
Failed(r) ==
  /\ r \in requests
  /\ requests' = requests \ {r}
  /\ Went(IF r.kind = "create" THEN {"uncreated"} ELSE {"failed"})
  /\ UNCHANGED <<session, leg, record>>

-----------------------------------------------------------------------------
(* A call begins.                                                          *)

(* makeCall, called from the softphone and from every phone field and      *)
(* activity: it does not look at this.session.                             *)
Dial(c) ==
  /\ leg[c].dir = "none"
  /\ Ask(c, "create", FALSE, IF session # NoCall \/ Busy THEN {"overlap"} ELSE {})
  /\ leg' = [leg EXCEPT ![c].dir = "outgoing"]
  /\ UNCHANGED <<session, record>>

(* As if this.session were not looked at.                                  *)
ReceiveInvitationAlways(c) ==
  /\ leg[c].dir = "none"
  /\ leg' = [leg EXCEPT ![c].dir = "incoming", ![c].state = "Initial"]
  /\ Ask(c, "create", FALSE, IF Busy THEN {"overlap"} ELSE {})
  /\ UNCHANGED <<session, record>>

(* _onIncomingInvitation                                                   *)
ReceiveInvitation(c) ==
  /\ leg[c].dir = "none"
  /\ IF session # NoCall
     THEN /\ leg' = [leg EXCEPT ![c].dir = "incoming", ![c].state = "Terminated",
                                ![c].end = "rejected"]
          /\ AskNothing({})
     ELSE /\ leg' = [leg EXCEPT ![c].dir = "incoming", ![c].state = "Initial"]
          /\ Ask(c, "create", FALSE, IF Busy THEN {"overlap"} ELSE {})
  /\ UNCHANGED <<session, record>>

(* should_auto_reject_incoming_calls                                       *)
RejectInvitation(c) ==
  /\ leg[c].dir = "none" /\ session = NoCall
  /\ leg' = [leg EXCEPT ![c].dir = "incoming", ![c].state = "Terminated",
                        ![c].end = "rejected"]
  /\ UNCHANGED <<session, record, requests, mishaps>>

(* What follows the await of callService.create: the session of the call   *)
(* replaces this.session, and an outgoing call is invited, which asks for  *)
(* the microphone first.                                                   *)
Created(r) ==
  /\ r \in Creating /\ r.served
  /\ session' = r.call
  /\ record' = [record EXCEPT ![r.call].shown = "calling"]
  /\ leg' = IF leg[r.call].dir = "outgoing"
            THEN [leg EXCEPT ![r.call].state = "Initial", ![r.call].mic = "asked"]
            ELSE leg
  /\ requests' = requests \ {r}
  /\ UNCHANGED mishaps

-----------------------------------------------------------------------------
(* What the user does in the softphone, always on this.session.            *)

(* isInProgress of the Call shown.                                         *)
InProgress(c) == record[c].shown \in {"calling", "ongoing"} /\ session # NoCall

(* shouldDisplayCallInvitation                                             *)
Ringing(c) ==
  record[c].shown = "calling" /\ leg[c].dir = "incoming" /\ session # NoCall

(* The user clicks on the panel of c, one of the calls shown so.           *)
Mistaken(c) == IF c = session THEN {} ELSE {"mistaken"}

Ended(l, how) == [l EXCEPT !.state = "Terminated", !.answered = FALSE, !.end = how]

(* The legs when c ends, if it was not answered: reject of Invitation.     *)
Unanswered(legs, c, how) ==
  [legs EXCEPT ![c] =
     IF @.state \in {"Initial", "Establishing"} THEN Ended(@, how) ELSE @]

(* The same when it has no microphone.                                     *)
GivenUp(legs, c, how) == [Unanswered(legs, c, how) EXCEPT ![c].mic = "none"]

(* hangup.  An invitation being accepted has no cancel: the handler throws *)
(* and nothing is done.  ended is the call SIP.js is giving up, if any.    *)
HangUp(ended, also) ==
  LET s == session
      wrong == also \cup IF leg[s].state = "Initial" /\ s \notin ended
                         THEN {"silent"} ELSE {}
  IN
  IF leg[s].state = "Establishing" /\ leg[s].dir = "incoming"
  THEN leg' = leg /\ UNCHANGED <<session, requests, mishaps>>
  ELSE
  /\ leg' = [c \in Calls |->
       IF c = s /\ leg[s].state = "Establishing"
       THEN [leg[s] EXCEPT !.state = "Terminating", !.end = "aborted"]
       ELSE IF c = s /\ leg[s].state = "Established" THEN Ended(leg[s], "terminated")
       ELSE IF c \in ended THEN GivenUp(leg, c, "aborted")[c] ELSE leg[c]]
  /\ IF record[s].shown \in {"calling", "ongoing"}
     THEN /\ Ask(s, IF record[s].shown = "calling" THEN "abort" ELSE "end", TRUE, wrong)
          /\ UNCHANGED session
     ELSE session' = NoCall /\ AskNothing(wrong)

ClickHangUp ==
  /\ \E c \in Calls : InProgress(c) /\ ~Ringing(c) /\ HangUp({}, Mistaken(c))
  /\ UNCHANGED record

ClickAccept ==
  /\ \E c \in Calls : Ringing(c) /\ AskNothing(Mistaken(c))
  /\ leg[session].dir = "incoming" /\ leg[session].state = "Initial"
  /\ leg' = [leg EXCEPT ![session].state = "Establishing", ![session].mic = "asked"]
  /\ UNCHANGED <<session, record>>

(* As if the session were kept.                                            *)
RejectKeepingSession(c) ==
  /\ leg[session].dir = "incoming"
  /\ leg' = Unanswered(leg, session, "rejected")
  /\ Ask(session, "reject", FALSE, Mistaken(c))
  /\ UNCHANGED session

(* rejectIncomingCall.  An Inviter has no reject: the handler throws.      *)
Reject(c) ==
  /\ leg[session].dir = "incoming"
  /\ leg' = Unanswered(leg, session, "rejected")
  /\ Ask(session, "reject", TRUE,
         Mistaken(c) \cup IF leg[session].state = "Established" THEN {"declined"} ELSE {})
  /\ UNCHANGED session

ClickReject ==
  /\ \E c \in Calls : Ringing(c) /\ Reject(c)
  /\ UNCHANGED record

(* transfer: the button is enabled once the call shown is ongoing.         *)
ClickTransfer ==
  /\ \E c \in Calls : /\ InProgress(c) /\ record[c].shown = "ongoing"
                     /\ AskNothing(Mistaken(c))
  /\ leg[session].state = "Established"
  /\ leg' = [leg EXCEPT ![session].referred = TRUE]
  /\ UNCHANGED <<session, record>>

-----------------------------------------------------------------------------
(* What SIP.js reports of a call c: the handlers act on this.session, and  *)
(* throw when there is none.                                               *)

(* The microphone was asked for a call that is not the session's.          *)
Stale(c) == IF session \in {c, NoCall} THEN {} ELSE {"stale"}

(* _onGetUserMediaSuccess                                                  *)
MicGranted(c) ==
  /\ leg[c].mic = "asked"
  /\ leg' = [leg EXCEPT ![c].mic = "given"]
  /\ IF session # NoCall /\ leg[session].dir = "incoming"
     THEN Ask(session, "start", FALSE, Stale(c))
     ELSE AskNothing({})
  /\ UNCHANGED <<session, record>>

(* _onGetUserMediaFailure, then SIP.js gives the call c up.                *)
MicDenied(c) ==
  /\ leg[c].mic = "asked"
  /\ LET how == IF leg[c].dir = "incoming" THEN "rejected" ELSE "aborted" IN
     \/ /\ session = NoCall
        /\ leg' = GivenUp(leg, c, how) /\ AskNothing({})
        /\ UNCHANGED session
     \/ /\ session # NoCall /\ leg[session].dir = "outgoing"
        /\ HangUp({c}, Stale(c))
     \/ /\ session # NoCall /\ leg[session].dir = "incoming"
        /\ leg' = GivenUp(Unanswered(leg, session, "rejected"), c, how)
        /\ Ask(session, "reject", TRUE, Stale(c))
        /\ UNCHANGED session
  /\ UNCHANGED record

(* The offer is ready and the INVITE leaves.                               *)
OfferReady(c) ==
  /\ leg[c].dir = "outgoing" /\ leg[c].state = "Initial" /\ leg[c].mic = "given"
  /\ leg' = [leg EXCEPT ![c].state = "Establishing"]
  /\ UNCHANGED <<session, record, requests, mishaps>>

(* The answer is ready and the 2xx leaves.                                 *)
AcceptSent(c) ==
  /\ leg[c].dir = "incoming" /\ leg[c].state = "Establishing" /\ leg[c].mic = "given"
  /\ leg' = [leg EXCEPT ![c].state = "Established"]
  /\ UNCHANGED <<session, record, requests, mishaps>>

(* The 2xx: SIP.js applies its answer and waits for that.                  *)
AnswerReceived(c) ==
  /\ leg[c].dir = "outgoing" /\ leg[c].state = "Establishing" /\ ~leg[c].answered
  /\ leg' = [leg EXCEPT ![c].answered = TRUE]
  /\ UNCHANGED <<session, record, requests, mishaps>>

(* The INVITE of c has no final response yet that SIP.js is done with.     *)
Inviting(c) ==
  leg[c].dir = "outgoing" /\ leg[c].state \in {"Establishing", "Terminating"}

(* _setUpRemoteAudio finds the peer connection of the session.             *)
HasAudio ==
  /\ session # NoCall
  /\ leg[session].state # "Terminated"
  /\ ~(leg[session].dir = "incoming" /\ leg[session].state = "Initial")

(* The leg of c once its answer was tried: it is over when the user hung   *)
(* up meanwhile, the answer did not apply or the listener had no audio.    *)
Applied(c) ==
  {Ended(leg[c], "aborted")} \cup
  IF leg[c].state = "Establishing" /\ HasAudio
  THEN {[leg[c] EXCEPT !.state = "Established", !.answered = FALSE]} ELSE {}

(* A handler runs for a call hung up, in another call.                     *)
Belated(c) ==
  IF leg[c].state = "Terminating" /\ session \notin {c, NoCall} THEN {"belated"} ELSE {}

(* The same, or an answer that did not apply, once the leg is l.           *)
Amiss(c, l) ==
  Belated(c) \cup IF leg[c].state = "Establishing" /\ HasAudio /\ l.state = "Terminated"
                  THEN {"unnoticed"} ELSE {}

(* _onOutgoingInvitationAccepted: SIP.js calls it however that went.       *)
Accepted(c) ==
  /\ Inviting(c) /\ leg[c].answered
  /\ \E l \in Applied(c) :
       /\ leg' = [leg EXCEPT ![c] = l]
       /\ IF session = NoCall THEN AskNothing(Amiss(c, l))
          ELSE Ask(session, "start", FALSE, Amiss(c, l))
  /\ UNCHANGED <<session, record>>

(* The same when willCallFromAnotherDevice: the call is transferred.       *)
AcceptedElsewhere(c) ==
  /\ Inviting(c) /\ leg[c].answered /\ session # NoCall
  /\ \E l \in Applied(c) :
       /\ LET legs == [leg EXCEPT ![c] = l] IN
          leg' = [legs EXCEPT ![session].referred = @ \/ legs[session].state = "Established"]
       /\ AskNothing(Amiss(c, l))
  /\ UNCHANGED <<session, record>>

(* _onOutgoingInvitationRejected, 487 apart, also of a call hung up whose  *)
(* refusal crosses the CANCEL or which nobody answers.                     *)
Refused(c) ==
  /\ Inviting(c) /\ ~leg[c].answered
  /\ leg' = [leg EXCEPT ![c] =
       Ended(@, IF @.state = "Establishing" THEN "rejected" ELSE "aborted")]
  /\ IF session = NoCall THEN AskNothing({}) ELSE Ask(session, "reject", FALSE, Belated(c))
  /\ session' = NoCall
  /\ UNCHANGED record

(* The call cancelled is over: 487, a redirection, or a 2xx that SIP.js    *)
(* hangs up.                                                               *)
Canceled(c) ==
  /\ leg[c].state = "Terminating" /\ ~leg[c].answered
  /\ leg' = [leg EXCEPT ![c].state = "Terminated"]
  /\ UNCHANGED <<session, record, requests, mishaps>>

(* _onBye                                                                  *)
ReceiveBye(c) ==
  /\ leg[c].state = "Established"
  /\ leg' = [leg EXCEPT ![c] = Ended(@, "terminated")]
  /\ IF session = NoCall THEN AskNothing({}) ELSE Ask(session, "end", TRUE, {})
  /\ UNCHANGED <<session, record>>

(* _onReferAccepted                                                        *)
ReferAccepted(c) ==
  /\ leg[c].referred /\ leg[c].state = "Established" /\ session # NoCall
  /\ leg' = [leg EXCEPT ![session] =
       IF @.state = "Established" THEN Ended(@, "terminated") ELSE @,
                        ![c].referred = FALSE]
  /\ Ask(session, "end", FALSE, {})
  /\ session' = NoCall
  /\ UNCHANGED record

(* CANCEL while the record is being created: the delegate is still that of *)
(* SIP.js, which ends the invitation.                                      *)
CancelEarly(c) ==
  /\ leg[c].dir = "incoming" /\ leg[c].state = "Initial" /\ record[c].shown = "absent"
  /\ leg' = [leg EXCEPT ![c] = Ended(@, "missed")]
  /\ AskNothing({"early"})
  /\ UNCHANGED <<session, record>>

(* As if the call were declined.                                           *)
CancelRejecting(c) ==
  /\ leg[c].dir = "incoming" /\ leg[c].state \in {"Initial", "Establishing"}
  /\ record[c].shown # "absent"
  /\ session # NoCall /\ leg[session].dir = "incoming"
  /\ leg' = Unanswered(leg, session, "missed")
  /\ Ask(session, "reject", FALSE, IF record[session].ticking THEN {"late"} ELSE {})
  /\ session' = NoCall
  /\ UNCHANGED record

(* _onIncomingInvitationCanceled                                           *)
Cancel(c) ==
  /\ leg[c].dir = "incoming" /\ leg[c].state \in {"Initial", "Establishing"}
  /\ record[c].shown # "absent"
  /\ session # NoCall /\ leg[session].dir = "incoming"
  /\ leg' = Unanswered(leg, session, "missed")
  /\ Ask(session, "miss", FALSE, IF record[session].ticking THEN {"late"} ELSE {})
  /\ session' = NoCall
  /\ UNCHANGED record

(* The call ends in SIP.js alone: nobody answered for a minute, a 3xx, the *)
(* media failed, no ACK came.  _onSessionStateChange does nothing of it.   *)
Unnoticed(c) ==
  /\ \/ leg[c].state \in {"Initial", "Establishing"} /\ ~leg[c].answered
        /\ (leg[c].dir = "incoming" \/ leg[c].mic = "given")
        /\ leg' = [leg EXCEPT ![c] = Ended(@, "aborted")]
     \/ leg[c].state = "Established" /\ leg[c].dir = "incoming"
        /\ leg' = [leg EXCEPT ![c] = Ended(@, "terminated")]
  /\ AskNothing({"unnoticed"})
  /\ UNCHANGED <<session, record>>

(* The page is reloaded, or the power goes out: its sessions end, what the *)
(* server knows is shown again.                                            *)
Reload ==
  /\ session # NoCall
  /\ leg' = [c \in Calls |->
       IF leg[c].state \in {"Initial", "Establishing", "Established", "Terminating"}
       THEN Ended(leg[c], "lost")
       ELSE IF About(c) \cap Creating # {} THEN Ended(leg[c], "lost") ELSE leg[c]]
  /\ record' = [c \in Calls |->
       [db |-> record[c].db, shown |-> record[c].db, ticking |-> FALSE]]
  /\ session' = NoCall
  /\ requests' = {}
  /\ Went({"reloaded"})

-----------------------------------------------------------------------------
ServerNext == \E r \in requests : Serve(r) \/ Answered(r) \/ Failed(r) \/ Created(r)

UserNext ==
  \/ \E c \in Calls : Dial(c)
  \/ ClickHangUp \/ ClickAccept \/ ClickReject \/ ClickTransfer \/ Reload

LineNext ==
  \E c \in Calls :
    \/ ReceiveInvitation(c) \/ RejectInvitation(c) \/ MicGranted(c) \/ MicDenied(c)
    \/ OfferReady(c) \/ AcceptSent(c)
    \/ AnswerReceived(c) \/ Accepted(c) \/ AcceptedElsewhere(c) \/ Refused(c)
    \/ Canceled(c) \/ ReceiveBye(c) \/ ReferAccepted(c)
    \/ CancelEarly(c) \/ Cancel(c) \/ Unnoticed(c)

Next == ServerNext \/ UserNext \/ LineNext

Spec == Init /\ [][Next]_vars

(* The server answers the page, or the request fails.                      *)
FairSpec ==
  /\ Spec
  /\ WF_vars(\E r \in requests : Serve(r))
  /\ WF_vars(\E r \in requests : Answered(r) \/ Created(r))

-----------------------------------------------------------------------------
TypeOK ==
  /\ session \in Calls \cup {NoCall}
  /\ leg \in [Calls -> Leg]
  /\ record \in [Calls -> Record]
  /\ requests \subseteq Request
  /\ \A r, q \in requests : r.id = q.id => r = q
  /\ mishaps \subseteq Mishaps

(* A call that is alive, once its record exists, is the one the user can   *)
(* act on, as long as calls do not overlap, none is hung up before the     *)
(* microphone was granted or declined once accepted, the prompt for the    *)
(* microphone is answered in its call, the line has not answered or        *)
(* refused a call hung up when another had begun, and the record could be  *)
(* created.                                                                *)
HandleKept ==
  mishaps \cap {"overlap", "silent", "declined", "stale", "belated", "uncreated"} = {} =>
    \A c \in Calls :
      leg[c].state \in {"Initial", "Establishing", "Established"} /\ About(c) \cap Creating = {}
        => session = c

(* Once a call is over and its requests are answered, the server and the   *)
(* page say what became of it, and its clock has stopped.  An invitation   *)
(* turned down at once has no record; a call picked up on another device   *)
(* and hung up before it was transferred is recorded as aborted.           *)
RecordTellsEnd ==
  mishaps = {} =>
    \A c \in Calls :
      leg[c].state = "Terminated" /\ session # c /\ About(c) = {} =>
        \/ record[c] = [db |-> leg[c].end, shown |-> leg[c].end, ticking |-> FALSE]
        \/ leg[c].dir = "incoming" /\ leg[c].end = "rejected" /\ record[c].db = "absent"
        \/ leg[c].referred /\ record[c] = [db |-> "aborted", shown |-> "aborted",
                                           ticking |-> FALSE]

(* The softphone is free again after a call that is over, unless a request *)
(* failed or SIP.js ended the call without a word to it.                   *)
LineFreed ==
  \A c \in Calls :
    leg[c].state = "Terminated" ~>
      session # c \/ mishaps \cap {"unnoticed", "early", "failed"} # {}

(* "the call may be stuck in the "calling" or "ongoing" state, meaning we  *)
(* can't rely on the state alone": a call the page went away from is not   *)
(* in progress.                                                            *)
StuckNotInProgress == \A c \in Calls : leg[c].end = "lost" => ~InProgress(c)

(* "invitation has been cancelled by the user, the session has already     *)
(* been terminated": the line's last answer to a call hung up takes the    *)
(* user out of no other call.                                              *)
HangUpIsFinal ==
  [][\A c \in Calls :
       leg[c].state = "Terminating" /\ leg'[c].state = "Terminated" /\ leg'[c].end # "lost"
         => session' = session \/ session = c]_vars
=============================================================================
