------------------------------ MODULE SipHold -------------------------------
(***************************************************************************)
(* Hold and resume in an established call: the re-INVITE of SIP.js         *)
(* (src/addons/voip/static/lib/sip.js), which either end may send at any   *)
(* time, with the offer and the answer it carries, and setHold of the      *)
(* softphone above it.  Each end has a dialog, whose signaling state       *)
(* follows the messages, and an RTCPeerConnection, whose state follows the *)
(* descriptions it is given: neither knows of the other.                   *)
(*                                                                         *)
(* Nothing is lost between the two ends; the first INVITE is acknowledged. *)
(***************************************************************************)
EXTENDS Naturals, Sequences

CONSTANTS
  MaxHolds  \* bound: clicks on hold or resume

ASSUME HoldsAssumption == MaxHolds \in Nat

Ends == {"caller", "callee"}

Peer(e) == IF e = "caller" THEN "callee" ELSE "caller"

(* What an end does with the audio of the call.                            *)
Directions == {"sendrecv", "sendonly", "recvonly", "inactive"}

Reverse(d) ==
  CASE d = "sendonly" -> "recvonly"
    [] d = "recvonly" -> "sendonly"
    [] OTHER -> d

VARIABLES
  session,  \* the Session of each end, with its SessionDialog
  media,    \* its RTCPeerConnection and SessionDescriptionHandler
  phone,    \* the session of the softphone: isOnHold
  net,      \* the messages on their way to each end
  holds,    \* clicks so far
  mishaps   \* what went wrong: see Mishaps

vars == <<session, media, phone, net, holds, mishaps>>

(* pendingReinvite; reinviteUserAgentClient and Server of the dialog; the  *)
(* options of the last re-INVITE asked for (hold), and the re-INVITE whose *)
(* delegate waits for an answer (asked); out and in are the promises about *)
(* an own re-INVITE and about one of the peer.                             *)
Session ==
  [state : {"Established", "Terminated"}, pendingReinvite : BOOLEAN,
   client : {"None", "Calling", "Accepted"}, server : {"None", "Proceeding", "Accepted"},
   signaling : {"Stable", "HaveLocalOffer", "HaveRemoteOffer", "Closed"},
   hold : BOOLEAN,
   out : {"None", "Offer", "Stale", "Answer", "Apply"},
   in : {"None", "SetOffer", "SetAsAnswer", "Answer", "Superseded"}]

(* direction is what the transceiver is set to, current what the last      *)
(* negotiation made of it; remote is the description of the peer being     *)
(* applied, answer the one being made for it.                              *)
Media ==
  [state : {"stable", "have-local-offer", "have-remote-offer", "closed"},
   direction : Directions, current : Directions, remote : Directions,
   answer : Directions]

(* A re-INVITE was not carried through; the softphone, asked to hold while *)
(* it answers a re-INVITE, has made an answer of its own.                  *)
Mishaps == {"refused", "superseded"}

Message ==
  [method : {"INVITE", "2xx", "Reject", "ACK", "BYE"}, direction : Directions]

Init ==
  /\ session = [e \in Ends |->
       [state |-> "Established", pendingReinvite |-> FALSE, client |-> "None",
        server |-> "None", signaling |-> "Stable", hold |-> FALSE,
        out |-> "None", in |-> "None"]]
  /\ media = [e \in Ends |-> [state |-> "stable", direction |-> "sendrecv",
                              current |-> "sendrecv", remote |-> "sendrecv",
                              answer |-> "sendrecv"]]
  /\ phone = [e \in Ends |-> FALSE]
  /\ net = [e \in Ends |-> << >>]
  /\ holds = 0 /\ mishaps = {}

-----------------------------------------------------------------------------
Msg(m, d) == [method |-> m, direction |-> d]

Plain(m) == Msg(m, "inactive")

Sends(e, ms) == net' = [net EXCEPT ![Peer(e)] = @ \o ms]

Takes(e, m) == net[e] # << >> /\ Head(net[e]).method = m

Answers(e, ms) == net' = [net EXCEPT ![e] = Tail(@), ![Peer(e)] = @ \o ms]

(* MUTANT: a user the other holds cannot hold.                             *)
DirectionToOfferHeld(d, hold) ==
  CASE d \in {"inactive", "recvonly"} -> "recvonly"
    [] d \in {"sendonly", "sendrecv"} -> IF hold THEN "sendonly" ELSE "sendrecv"

(* updateDirection before an offer, and before an answer to an offer of d. *)
DirectionToOffer(d, hold) ==
  CASE d \in {"inactive", "recvonly"} -> IF hold THEN "inactive" ELSE "recvonly"
    [] d \in {"sendonly", "sendrecv"} -> IF hold THEN "sendonly" ELSE "sendrecv"

AnswerDirection(d, hold) ==
  CASE d = "inactive" -> "inactive"
    [] d = "recvonly" -> "sendonly"
    [] d = "sendonly" -> IF hold THEN "inactive" ELSE "recvonly"
    [] d = "sendrecv" -> IF hold THEN "sendonly" ELSE "sendrecv"

(* rollbackOffer does nothing: the SessionDescriptionHandler has no        *)
(* rollbackDescription.                                                    *)
RolledBack(e) == media[e]

(* MUTANT: back to no description at all.                                  *)
RestoredToInitial(s) == IF s = "Closed" THEN "Closed" ELSE "Initial"

(* signalingStateRollback.                                                 *)
Restored(s) == IF s = "Closed" THEN "Closed" ELSE "Stable"

Reaches(s, from, to) == IF s = from THEN to ELSE s

-----------------------------------------------------------------------------
(* setHold of the softphone and Session.invite: isOnHold is set at once.   *)
Holds(e, hold, s, m) ==
  /\ holds < MaxHolds /\ session[e].state = "Established" /\ hold # phone[e]
  /\ holds' = holds + 1
  /\ phone' = [phone EXCEPT ![e] = hold]
  /\ session' = [session EXCEPT ![e] = s]
  /\ media' = [media EXCEPT ![e] = m]
  /\ UNCHANGED net

SetHold(e, hold) ==
  /\ ~session[e].pendingReinvite /\ media[e].state = "stable"
  /\ Holds(e, hold,
        [session[e] EXCEPT !.hold = hold, !.pendingReinvite = TRUE, !.out = "Offer"],
        [media[e] EXCEPT !.direction = DirectionToOffer(@, hold)])
  /\ UNCHANGED mishaps

(* A connection with an offer of the peer makes an answer in place of an   *)
(* offer.                                                                  *)
SetHoldAnswering(e, hold) ==
  /\ ~session[e].pendingReinvite /\ media[e].state = "have-remote-offer"
  /\ Holds(e, hold,
        [session[e] EXCEPT !.hold = hold, !.pendingReinvite = TRUE, !.out = "Answer"],
        [media[e] EXCEPT !.direction = AnswerDirection(media[e].remote, hold)])
  /\ mishaps' = mishaps \cup {"refused"}

(* A re-INVITE is pending, or an own offer is still open.                  *)
SetHoldRefused(e, hold) ==
  LET pending == session[e].pendingReinvite IN
  /\ pending \/ media[e].state = "have-local-offer"
  /\ Holds(e, hold, [session[e] EXCEPT !.hold = IF pending THEN @ ELSE hold], media[e])
  /\ mishaps' = mishaps \cup {"refused"}

(* MUTANT: an offer that is not sent leaves the re-INVITE pending.         *)
OfferMadeStillPending(e) ==
  LET open == session[e].out = "Offer" /\ media[e].state = "stable"
      free == session[e].client = "None" /\ session[e].server = "None"
      goes == open /\ free
  IN
  /\ \/ session[e].out \in {"Offer", "Stale"}
     \/ session[e].out = "Answer" /\ media[e].state = "closed"
  /\ media' = IF open THEN [media EXCEPT ![e].state = "have-local-offer"] ELSE media
  /\ session' = [session EXCEPT
       ![e].out = "None",
       ![e].client = IF goes THEN "Calling" ELSE @,
       ![e].signaling = IF goes THEN Reaches(@, "Stable", "HaveLocalOffer") ELSE @]
  /\ Sends(e, IF goes THEN <<Msg("INVITE", media[e].direction)>> ELSE << >>)
  /\ mishaps' = IF goes THEN mishaps ELSE mishaps \cup {"refused"}
  /\ UNCHANGED <<phone, holds>>

(* The offer is made the local description, and the dialog sends it unless *)
(* a re-INVITE is under way.  An offer made before the last negotiation    *)
(* ended is stale: setLocalDescription does not take it.                   *)
OfferMade(e) ==
  LET open == session[e].out = "Offer" /\ media[e].state = "stable"
      free == session[e].client = "None" /\ session[e].server = "None"
      goes == open /\ free
  IN
  /\ \/ session[e].out \in {"Offer", "Stale"}
     \/ session[e].out = "Answer" /\ media[e].state = "closed"
  /\ media' = IF open THEN [media EXCEPT ![e].state = "have-local-offer"] ELSE media
  /\ session' = [session EXCEPT
       ![e].out = "None",
       ![e].pendingReinvite = goes,
       ![e].client = IF goes THEN "Calling" ELSE @,
       ![e].signaling = IF goes THEN Reaches(@, "Stable", "HaveLocalOffer") ELSE @]
  /\ Sends(e, IF goes THEN <<Msg("INVITE", media[e].direction)>> ELSE << >>)
  /\ mishaps' = IF goes THEN mishaps ELSE mishaps \cup {"refused"}
  /\ UNCHANGED <<phone, holds>>

(* A re-INVITE is refused (481) by a dialog that is closed, and (500, 491) *)
(* by one with a re-INVITE under way.  setDescription takes the offer for  *)
(* an answer when an offer of its own is open.  The options of the answer, *)
(* hold among them, are those of this moment.                              *)
ReceiveInvite(e) ==
  LET d == Head(net[e]).direction
      refuses == \/ session[e].signaling = "Closed"
                 \/ session[e].server # "None" \/ session[e].client # "None"
  IN
  /\ Takes(e, "INVITE")
  /\ IF refuses
     THEN Answers(e, <<Plain("Reject")>>) /\ UNCHANGED <<session, media>>
     ELSE /\ session' = [session EXCEPT
               ![e].server = "Proceeding",
               ![e].signaling = Reaches(@, "Stable", "HaveRemoteOffer"),
               ![e].in = IF media[e].state = "have-local-offer" THEN "SetAsAnswer"
                                                                ELSE "SetOffer"]
          /\ media' = [media EXCEPT ![e].remote = d,
                                    ![e].answer = AnswerDirection(d, session[e].hold)]
          /\ Answers(e, << >>)
  /\ UNCHANGED <<phone, holds, mishaps>>

(* setRemoteDescription: an offer set when another is open rolls that one  *)
(* back.  Then the answer is made.                                         *)
OfferSet(e) ==
  /\ session[e].in = "SetOffer" /\ media[e].state # "closed"
  /\ session' = [session EXCEPT ![e].in = "Answer"]
  /\ media' = [media EXCEPT ![e].state = "have-remote-offer",
                            ![e].direction = media[e].answer]
  /\ UNCHANGED <<phone, net, holds, mishaps>>

AnswerMade(e) ==
  /\ session[e].in = "Answer" /\ media[e].state # "closed"
  /\ session' = [session EXCEPT ![e].in = "None", ![e].server = "Accepted",
                                ![e].out = IF @ = "None" THEN @ ELSE "Stale",
                                ![e].signaling = Reaches(@, "HaveRemoteOffer", "Stable")]
  /\ media' = [media EXCEPT ![e].state = "stable", ![e].current = media[e].answer]
  /\ Sends(e, <<Msg("2xx", media[e].answer)>>)
  /\ UNCHANGED <<phone, holds, mishaps>>

(* The answer made by a hold: the one under way is outdated, and the       *)
(* re-INVITE is not sent.                                                  *)
OwnAnswerMade(e) ==
  /\ session[e].out = "Answer" /\ media[e].state # "closed"
  /\ session' = [session EXCEPT ![e].out = "None", ![e].in = "Superseded",
                                ![e].pendingReinvite = FALSE]
  /\ media' = [media EXCEPT ![e].state = "stable", ![e].current = media[e].direction]
  /\ mishaps' = mishaps \cup {"superseded"}
  /\ UNCHANGED <<phone, net, holds>>

(* An offer is not accepted as an answer, nor an answer after another one, *)
(* and a connection that is closed takes none: 488.                        *)
OfferNotSet(e) ==
  /\ \/ session[e].in \in {"SetAsAnswer", "Superseded"}
     \/ session[e].in \in {"SetOffer", "Answer"} /\ media[e].state = "closed"
  /\ session' = [session EXCEPT ![e].in = "None", ![e].server = "None",
                                ![e].signaling = Restored(@)]
  /\ media' = [media EXCEPT ![e] = RolledBack(e)]
  /\ Sends(e, <<Plain("Reject")>>)
  /\ UNCHANGED <<phone, holds, mishaps>>

ReceiveAccept(e) ==
  /\ Takes(e, "2xx")
  /\ session' = [session EXCEPT ![e].client = "Accepted", ![e].out = "Apply",
                                ![e].signaling = Reaches(@, "HaveLocalOffer", "Stable")]
  /\ media' = [media EXCEPT ![e].remote = Head(net[e]).direction]
  /\ Answers(e, << >>)
  /\ UNCHANGED <<phone, holds, mishaps>>

(* MUTANT: what was offered is taken for what was agreed.                  *)
AnswerAppliedAsOffered(e) ==
  /\ session[e].out = "Apply"
  /\ session' = [session EXCEPT ![e].out = "None", ![e].client = "None",
                                ![e].pendingReinvite = FALSE]
  /\ media' = IF media[e].state = "closed" THEN media
              ELSE [media EXCEPT ![e].state = "stable", ![e].current = media[e].direction]
  /\ phone' = [phone EXCEPT ![e] = session[e].hold]
  /\ Sends(e, <<Plain("ACK")>>)
  /\ UNCHANGED <<holds, mishaps>>

(* The ACK is sent even when the call is over; the delegate is told.       *)
AnswerApplied(e) ==
  /\ session[e].out = "Apply"
  /\ session' = [session EXCEPT ![e].out = "None", ![e].client = "None",
                                ![e].pendingReinvite = FALSE]
  /\ media' = IF media[e].state = "closed" THEN media
              ELSE [media EXCEPT ![e].state = "stable", ![e].current = Reverse(media[e].remote)]
  /\ phone' = [phone EXCEPT ![e] = session[e].hold]
  /\ Sends(e, <<Plain("ACK")>>)
  /\ UNCHANGED <<holds, mishaps>>

(* ... or the browser does not take the answer: ackAndBye.                 *)
AnswerNotApplied(e) ==
  /\ session[e].out = "Apply" /\ session[e].state = "Established"
  /\ session' = [session EXCEPT ![e].out = "None", ![e].client = "None",
                                ![e].pendingReinvite = FALSE, ![e].state = "Terminated",
                                ![e].signaling = "Closed"]
  /\ media' = [media EXCEPT ![e].state = "closed"]
  /\ phone' = [phone EXCEPT ![e] = session[e].hold]
  /\ Sends(e, <<Plain("ACK"), Plain("BYE")>>)
  /\ mishaps' = mishaps \cup {"refused"}
  /\ UNCHANGED holds

(* MUTANT: the dialog still waits for the re-INVITE that was refused.      *)
ReceiveRejectClientKept(e) ==
  /\ Takes(e, "Reject")
  /\ session' = [session EXCEPT ![e].pendingReinvite = FALSE, ![e].signaling = Restored(@)]
  /\ media' = [media EXCEPT ![e] = RolledBack(e)]
  /\ phone' = [phone EXCEPT ![e] = ~session[e].hold]
  /\ mishaps' = mishaps \cup {"refused"}
  /\ Answers(e, << >>)
  /\ UNCHANGED holds

(* onReject: the offer is rolled back, and the delegate is told.           *)
ReceiveReject(e) ==
  /\ Takes(e, "Reject")
  /\ session' = [session EXCEPT ![e].client = "None", ![e].pendingReinvite = FALSE,
                                ![e].signaling = Restored(@)]
  /\ media' = [media EXCEPT ![e] = RolledBack(e)]
  /\ phone' = [phone EXCEPT ![e] = ~session[e].hold]
  /\ mishaps' = mishaps \cup {"refused"}
  /\ Answers(e, << >>)
  /\ UNCHANGED holds

(* A dialog that is closed is not found any more.                          *)
ReceiveAck(e) ==
  /\ Takes(e, "ACK")
  /\ session' = [session EXCEPT
       ![e].server = IF session[e].signaling = "Closed" THEN @ ELSE "None"]
  /\ Answers(e, << >>)
  /\ UNCHANGED <<media, phone, holds, mishaps>>

Over(e) == [session EXCEPT ![e].state = "Terminated", ![e].signaling = "Closed"]

Bye(e) ==
  /\ session[e].state = "Established"
  /\ session' = Over(e)
  /\ media' = [media EXCEPT ![e].state = "closed"]
  /\ Sends(e, <<Plain("BYE")>>)
  /\ UNCHANGED <<phone, holds, mishaps>>

ReceiveBye(e) ==
  /\ Takes(e, "BYE")
  /\ session' = Over(e)
  /\ media' = [media EXCEPT ![e].state = "closed"]
  /\ Answers(e, << >>)
  /\ UNCHANGED <<phone, holds, mishaps>>

Browser(e) ==
  \/ OfferMade(e) \/ OfferSet(e) \/ AnswerMade(e) \/ OwnAnswerMade(e)
  \/ OfferNotSet(e)
  \/ AnswerApplied(e) \/ AnswerNotApplied(e)

Receives(e) ==
  \/ ReceiveInvite(e) \/ ReceiveAccept(e) \/ ReceiveReject(e) \/ ReceiveAck(e)
  \/ ReceiveBye(e)

Next ==
  \E e \in Ends :
    \/ \E hold \in BOOLEAN : \/ SetHold(e, hold) \/ SetHoldAnswering(e, hold)
                            \/ SetHoldRefused(e, hold)
    \/ Bye(e)
    \/ Browser(e) \/ Receives(e)

Spec == Init /\ [][Next]_vars

(* Messages arrive and promises settle; the users click when they like.    *)
FairSpec == Spec /\ \A e \in Ends : WF_vars(Browser(e)) /\ WF_vars(Receives(e))

-----------------------------------------------------------------------------
TypeOK ==
  /\ session \in [Ends -> Session] /\ media \in [Ends -> Media]
  /\ phone \in [Ends -> BOOLEAN]
  /\ net \in [Ends -> Seq(Message)]
  /\ holds \in 0 .. MaxHolds /\ mishaps \subseteq Mishaps

(* Both users are in the call, nothing is on its way or being worked on.   *)
Settled ==
  /\ net = [e \in Ends |-> << >>]
  /\ \A e \in Ends : /\ session[e].state = "Established"
                     /\ session[e].out = "None" /\ session[e].in = "None"

(* Whoever held, resumed or collided, no re-INVITE is left half open.      *)
NothingHalfOpen ==
  Settled => \A e \in Ends :
    /\ session[e].client = "None" /\ session[e].server = "None"
    /\ session[e].signaling = "Stable" /\ ~session[e].pendingReinvite

(* The two ends agree on who sends audio and who hears it, whatever was    *)
(* refused.                                                                *)
MediaAgree ==
  Settled /\ "superseded" \notin mishaps => media["caller"].current = Reverse(media["callee"].current)

(* As long as every re-INVITE was carried through, a user on hold does not *)
(* hear the other, and when nobody is on hold both speak and hear.         *)
HoldKept ==
  Settled /\ mishaps = {} =>
    /\ \A e \in Ends : phone[e] => media[e].current \in {"sendonly", "inactive"}
    /\ (\A e \in Ends : ~phone[e]) => \A e \in Ends : media[e].current = "sendrecv"

(* "If a UA receives a non-2xx final response to a re-INVITE, the session  *)
(* parameters MUST remain unchanged": with nothing under way no connection *)
(* has an offer open.                                                      *)
RejectedUnchanged == Settled => \A e \in Ends : media[e].state = "stable"

(* A hold that was asked for comes to an end: the next one may be tried.   *)
HoldEnds == \A e \in Ends : session[e].pendingReinvite ~> ~session[e].pendingReinvite
=============================================================================
