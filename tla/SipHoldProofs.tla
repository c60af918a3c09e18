---------------------------- MODULE SipHoldProofs ----------------------------
(***************************************************************************)
(* Theorems about SipHold, for any number of clicks on hold and resume:    *)
(* types, no re-INVITE is left half open, the two ends agree about the     *)
(* audio, and a hold that was carried through is kept.                     *)
(***************************************************************************)
EXTENDS SipHold, TLAPS

LEMMA BothEnds ==
  ASSUME NEW e \in Ends
  PROVE  /\ Peer(e) \in Ends /\ Peer(e) # e /\ Peer(Peer(e)) = e
         /\ \A x \in Ends : x = e \/ x = Peer(e)
  BY DEF Ends, Peer

-----------------------------------------------------------------------------
(* The helpers.                                                            *)

LEMMA DirectionTypes ==
  ASSUME NEW d \in Directions, NEW hold \in BOOLEAN
  PROVE  /\ Reverse(d) \in Directions /\ Reverse(Reverse(d)) = d
         /\ DirectionToOffer(d, hold) \in Directions
         /\ AnswerDirection(d, hold) \in Directions
  BY DEF Directions, Reverse, DirectionToOffer, AnswerDirection

LEMMA MessageTypes ==
  ASSUME NEW m \in {"INVITE", "2xx", "Reject", "ACK", "BYE"}, NEW d \in Directions
  PROVE  /\ Msg(m, d) \in Message /\ Msg(m, d).method = m /\ Msg(m, d).direction = d
         /\ Plain(m) \in Message /\ Plain(m).method = m
  BY DEF Msg, Plain, Message, Directions

LEMMA SignalingTypes ==
  ASSUME NEW s \in {"Stable", "HaveLocalOffer", "HaveRemoteOffer", "Closed"},
         NEW a, NEW b \in {"Stable", "HaveLocalOffer", "HaveRemoteOffer", "Closed"}
  PROVE  /\ Reaches(s, a, b) \in {"Stable", "HaveLocalOffer", "HaveRemoteOffer", "Closed"}
         /\ Restored(s) \in {"Stable", "HaveLocalOffer", "HaveRemoteOffer", "Closed"}
  BY DEF Reaches, Restored

(* Sending and taking messages.                                            *)
LEMMA NetTypes ==
  ASSUME net \in [Ends -> Seq(Message)], NEW e \in Ends, NEW ms \in Seq(Message)
  PROVE  /\ Sends(e, ms) => net' \in [Ends -> Seq(Message)]
         /\ Answers(e, ms) /\ net[e] # << >> => net' \in [Ends -> Seq(Message)]
<1> DEFINE p == Peer(e)
<1>1. p \in Ends /\ p # e
  BY BothEnds
<1>2. \A q \in Seq(Message) : q \o ms \in Seq(Message)
  OBVIOUS
<1>3. \A q \in Seq(Message) : q # << >> => Tail(q) \in Seq(Message)
  OBVIOUS
<1> HIDE DEF p
<1>4. Sends(e, ms) => net' \in [Ends -> Seq(Message)]
  BY <1>1, <1>2 DEF Sends, p
<1>5. Answers(e, ms) /\ net[e] # << >> => net' \in [Ends -> Seq(Message)]
  BY <1>1, <1>2, <1>3 DEF Answers, p
<1>6. QED
  BY <1>4, <1>5

LEMMA TypeInit == Init => TypeOK
<1>1. << >> \in Seq(Message)
  OBVIOUS
<1>2. QED
  BY <1>1, HoldsAssumption DEF Init, TypeOK, Session, Media, Directions

LEMMA ClickTypes ==
  ASSUME TypeOK, NEW e \in Ends, NEW hold \in BOOLEAN,
         SetHold(e, hold) \/ SetHoldAnswering(e, hold) \/ SetHoldRefused(e, hold)
  PROVE  TypeOK'
<1>1. session[e] \in Session /\ media[e] \in Media
  BY DEF TypeOK
<1>2. media[e].direction \in Directions /\ media[e].remote \in Directions
  BY <1>1 DEF Media
<1>3. ASSUME NEW s \in Session, NEW m \in Media, Holds(e, hold, s, m),
             mishaps' \in {mishaps, mishaps \cup {"refused"}}
      PROVE  TypeOK'
  <2>1. holds' \in 0 .. MaxHolds
    BY <1>3, HoldsAssumption DEF Holds, TypeOK
  <2>2. mishaps' \subseteq Mishaps
    BY <1>3 DEF Mishaps, TypeOK
  <2>3. QED
    BY <1>3, <2>1, <2>2 DEF Holds, TypeOK
<1>4. CASE SetHold(e, hold)
  <2>1. [session[e] EXCEPT !.hold = hold, !.pendingReinvite = TRUE, !.out = "Offer"]
          \in Session
    BY <1>1, Zenon DEF Session
  <2>2. [media[e] EXCEPT !.direction = DirectionToOffer(@, hold)] \in Media
    BY <1>1, <1>2, DirectionTypes, Zenon DEF Media
  <2>3. QED
    BY <1>3, <1>4, <2>1, <2>2 DEF SetHold
<1>5. CASE SetHoldAnswering(e, hold)
  <2>1. [session[e] EXCEPT !.hold = hold, !.pendingReinvite = TRUE, !.out = "Answer"]
          \in Session
    BY <1>1, Zenon DEF Session
  <2>2. [media[e] EXCEPT !.direction = AnswerDirection(media[e].remote, hold)] \in Media
    BY <1>1, <1>2, DirectionTypes, Zenon DEF Media
  <2>3. QED
    BY <1>3, <1>5, <2>1, <2>2 DEF SetHoldAnswering
<1>6. CASE SetHoldRefused(e, hold)
  <2> DEFINE h == IF session[e].pendingReinvite THEN session[e].hold ELSE hold
  <2>1. h \in BOOLEAN
    BY <1>1, Zenon DEF Session
  <2>2. [session[e] EXCEPT !.hold = h] \in Session
    BY <1>1, <2>1, Zenon DEF Session
  <2>3. [session[e] EXCEPT !.hold = IF session[e].pendingReinvite THEN @ ELSE hold]
          = [session[e] EXCEPT !.hold = h]
    BY <1>1 DEF Session
  <2>4. QED
    BY <1>1, <1>3, <1>6, <2>2, <2>3 DEF SetHoldRefused
<1>7. QED
  BY <1>4, <1>5, <1>6

LEMMA SessionFields ==
  ASSUME NEW s \in Session
  PROVE  /\ \A v \in BOOLEAN : [s EXCEPT !.pendingReinvite = v] \in Session
         /\ \A v \in {"None", "Calling", "Accepted"} : [s EXCEPT !.client = v] \in Session
         /\ \A v \in {"None", "Proceeding", "Accepted"} : [s EXCEPT !.server = v] \in Session
         /\ \A v \in {"None", "Offer", "Stale", "Answer", "Apply"} :
              [s EXCEPT !.out = v] \in Session
         /\ \A v \in {"None", "SetOffer", "SetAsAnswer", "Answer", "Superseded"} :
              [s EXCEPT !.in = v] \in Session
         /\ \A v \in {"Stable", "HaveLocalOffer", "HaveRemoteOffer", "Closed"} :
              [s EXCEPT !.signaling = v] \in Session
         /\ [s EXCEPT !.state = "Terminated"] \in Session
<1>1. \A v \in BOOLEAN : [s EXCEPT !.pendingReinvite = v] \in Session
  BY Zenon DEF Session
<1>2. \A v \in {"None", "Calling", "Accepted"} : [s EXCEPT !.client = v] \in Session
  BY Zenon DEF Session
<1>3. \A v \in {"None", "Proceeding", "Accepted"} : [s EXCEPT !.server = v] \in Session
  BY Zenon DEF Session
<1>4. \A v \in {"None", "Offer", "Stale", "Answer", "Apply"} :
        [s EXCEPT !.out = v] \in Session
  BY Zenon DEF Session
<1>5. \A v \in {"None", "SetOffer", "SetAsAnswer", "Answer", "Superseded"} :
        [s EXCEPT !.in = v] \in Session
  BY Zenon DEF Session
<1>6. \A v \in {"Stable", "HaveLocalOffer", "HaveRemoteOffer", "Closed"} :
        [s EXCEPT !.signaling = v] \in Session
  BY Zenon DEF Session
<1>7. [s EXCEPT !.state = "Terminated"] \in Session
  BY Zenon DEF Session
<1>8. QED
  BY <1>1, <1>2, <1>3, <1>4, <1>5, <1>6, <1>7

LEMMA MediaFields ==
  ASSUME NEW m \in Media
  PROVE  /\ \A v \in {"stable", "have-local-offer", "have-remote-offer", "closed"} :
              [m EXCEPT !.state = v] \in Media
         /\ \A d \in Directions : /\ [m EXCEPT !.direction = d] \in Media
                                  /\ [m EXCEPT !.current = d] \in Media
                                  /\ [m EXCEPT !.remote = d] \in Media
                                  /\ [m EXCEPT !.answer = d] \in Media
  BY Zenon DEF Media

LEMMA StepTypes ==
  ASSUME TypeOK, NEW e \in Ends, Bye(e) \/ Browser(e) \/ Receives(e)
  PROVE  TypeOK'
<1>1. session[e] \in Session /\ media[e] \in Media /\ phone[e] \in BOOLEAN
  BY DEF TypeOK
<1>2. /\ session[e].hold \in BOOLEAN /\ session[e].pendingReinvite \in BOOLEAN
      /\ session[e].client \in {"None", "Calling", "Accepted"}
      /\ session[e].server \in {"None", "Proceeding", "Accepted"}
      /\ session[e].out \in {"None", "Offer", "Stale", "Answer", "Apply"}
      /\ session[e].signaling \in {"Stable", "HaveLocalOffer", "HaveRemoteOffer", "Closed"}
  BY <1>1 DEF Session
<1>3. /\ media[e].direction \in Directions /\ media[e].current \in Directions
      /\ media[e].remote \in Directions /\ media[e].answer \in Directions
  BY <1>1 DEF Media
<1>4. /\ << >> \in Seq(Message)
      /\ \A m \in {"INVITE", "2xx"}, d \in Directions : <<Msg(m, d)>> \in Seq(Message)
      /\ \A m \in {"Reject", "ACK", "BYE"} : <<Plain(m)>> \in Seq(Message)
      /\ <<Plain("ACK"), Plain("BYE")>> \in Seq(Message)
  BY MessageTypes DEF Directions
<1>5. net[e] # << >> => Head(net[e]) \in Message /\ Head(net[e]).direction \in Directions
  <2>1. net[e] \in Seq(Message)
    BY DEF TypeOK
  <2>2. \A q \in Seq(Message) : q # << >> => Head(q) \in Message
    OBVIOUS
  <2>3. QED
    BY <2>1, <2>2 DEF Message
<1>6. ASSUME session' \in [Ends -> Session], media' \in [Ends -> Media],
             phone' \in [Ends -> BOOLEAN], net' \in [Ends -> Seq(Message)],
             holds' = holds, mishaps' \subseteq mishaps \cup Mishaps
      PROVE  TypeOK'
  BY <1>6 DEF TypeOK
<1>7. CASE OfferMade(e)
  <2> DEFINE goes == (session[e].out = "Offer" /\ media[e].state = "stable")
                     /\ (session[e].client = "None" /\ session[e].server = "None")
             c == IF goes THEN "Calling" ELSE session[e].client
             g == IF goes THEN Reaches(session[e].signaling, "Stable", "HaveLocalOffer")
                  ELSE session[e].signaling
             st == IF session[e].out = "Offer" /\ media[e].state = "stable"
                  THEN "have-local-offer" ELSE media[e].state
  <2>1. /\ goes \in BOOLEAN /\ c \in {"None", "Calling", "Accepted"}
        /\ g \in {"Stable", "HaveLocalOffer", "HaveRemoteOffer", "Closed"}
        /\ st \in {"stable", "have-local-offer", "have-remote-offer", "closed"}
    BY <1>1, <1>2, SignalingTypes DEF Media
  <2>2. session' = [session EXCEPT ![e].out = "None", ![e].pendingReinvite = goes,
                                   ![e].client = c, ![e].signaling = g]
    BY <1>7 DEF OfferMade, Over, TypeOK, Session
  <2>3. media' = [media EXCEPT ![e].state = st]
    BY <1>7 DEF OfferMade, TypeOK, Media
  <2> HIDE DEF goes, c, g, st
  <2>4. \A s \in Session : [s EXCEPT !.out = "None", !.pendingReinvite = goes,
                                     !.client = c, !.signaling = g] \in Session
    BY <1>2, <2>1, SessionFields, Zenon
  <2>5. session' \in [Ends -> Session]
    BY <2>2, <2>4 DEF TypeOK
  <2>6. \A m \in Media : [m EXCEPT !.state = st] \in Media
    BY <1>3, <1>5, <2>1, MediaFields, Zenon
  <2>7. media' \in [Ends -> Media]
    BY <2>3, <2>6 DEF TypeOK
  <2>8. net' \in [Ends -> Seq(Message)]
    BY <1>3, <1>4, <1>7, NetTypes DEF OfferMade, TypeOK, Takes
  <2>9. QED
    BY <1>1, <1>2, <1>6, <1>7, <2>5, <2>7, <2>8 DEF OfferMade, Mishaps, TypeOK
<1>8. CASE OfferSet(e)
  <2> DEFINE d == media[e].answer
  <2>1. d \in Directions
    BY <1>3
  <2>2. session' = [session EXCEPT ![e].in = "Answer"]
    BY <1>8 DEF OfferSet, Over, TypeOK, Session
  <2>3. media' = [media EXCEPT ![e].state = "have-remote-offer", ![e].direction = d]
    BY <1>8 DEF OfferSet, TypeOK, Media
  <2> HIDE DEF d
  <2>4. \A s \in Session : [s EXCEPT !.in = "Answer"] \in Session
    BY <1>2, <2>1, SessionFields, Zenon
  <2>5. session' \in [Ends -> Session]
    BY <2>2, <2>4 DEF TypeOK
  <2>6. \A m \in Media :
          [m EXCEPT !.state = "have-remote-offer", !.direction = d] \in Media
    BY <1>3, <1>5, <2>1, MediaFields, Zenon
  <2>7. media' \in [Ends -> Media]
    BY <2>3, <2>6 DEF TypeOK
  <2>8. net' \in [Ends -> Seq(Message)]
    BY <1>3, <1>4, <1>8, NetTypes DEF OfferSet, TypeOK, Takes
  <2>9. QED
    BY <1>1, <1>2, <1>6, <1>8, <2>5, <2>7, <2>8 DEF OfferSet, Mishaps, TypeOK
<1>9. CASE AnswerMade(e)
  <2> DEFINE o == IF session[e].out = "None" THEN "None" ELSE "Stale"
             g == Reaches(session[e].signaling, "HaveRemoteOffer", "Stable")
  <2>1. g \in {"Stable", "HaveLocalOffer", "HaveRemoteOffer", "Closed"}
        /\ o \in {"None", "Stale"}
    BY <1>2, SignalingTypes
  <2>2. session' = [session EXCEPT ![e].in = "None", ![e].server = "Accepted",
                                   ![e].out = o, ![e].signaling = g]
    BY <1>9 DEF AnswerMade, Over, TypeOK, Session
  <2>3. media' = [media EXCEPT ![e].state = "stable", ![e].current = media[e].answer]
    BY <1>9 DEF AnswerMade, TypeOK, Media
  <2> HIDE DEF o, g
  <2>4. \A s \in Session : [s EXCEPT !.in = "None", !.server = "Accepted", !.out = o,
                                     !.signaling = g] \in Session
    BY <1>2, <2>1, SessionFields, Zenon
  <2>5. session' \in [Ends -> Session]
    BY <2>2, <2>4 DEF TypeOK
  <2>6. \A m \in Media : [m EXCEPT !.state = "stable",
                                   !.current = media[e].answer] \in Media
    BY <1>3, <1>5, <2>1, MediaFields, Zenon
  <2>7. media' \in [Ends -> Media]
    BY <2>3, <2>6 DEF TypeOK
  <2>8. net' \in [Ends -> Seq(Message)]
    BY <1>3, <1>4, <1>9, NetTypes DEF AnswerMade, TypeOK, Takes
  <2>9. QED
    BY <1>1, <1>2, <1>6, <1>9, <2>5, <2>7, <2>8 DEF AnswerMade, Mishaps, TypeOK
<1>10. CASE OwnAnswerMade(e)
  <2>1. session' = [session EXCEPT ![e].out = "None", ![e].in = "Superseded",
                                   ![e].pendingReinvite = FALSE]
    BY <1>10 DEF OwnAnswerMade, Over, TypeOK, Session
  <2>2. media' = [media EXCEPT ![e].state = "stable", ![e].current = media[e].direction]
    BY <1>10 DEF OwnAnswerMade, TypeOK, Media
  <2>3. \A s \in Session : [s EXCEPT !.out = "None", !.in = "Superseded",
                                     !.pendingReinvite = FALSE] \in Session
    BY <1>2, SessionFields, Zenon
  <2>4. session' \in [Ends -> Session]
    BY <2>1, <2>3 DEF TypeOK
  <2>5. \A m \in Media : [m EXCEPT !.state = "stable",
                                   !.current = media[e].direction] \in Media
    BY <1>3, <1>5, MediaFields, Zenon
  <2>6. media' \in [Ends -> Media]
    BY <2>2, <2>5 DEF TypeOK
  <2>7. net' \in [Ends -> Seq(Message)]
    BY <1>3, <1>4, <1>10, NetTypes DEF OwnAnswerMade, TypeOK, Takes
  <2>8. QED
    BY <1>1, <1>2, <1>6, <1>10, <2>4, <2>6, <2>7 DEF OwnAnswerMade, Mishaps, TypeOK
<1>11. CASE OfferNotSet(e)
  <2> DEFINE g == Restored(session[e].signaling)
  <2>1. g \in {"Stable", "HaveLocalOffer", "HaveRemoteOffer", "Closed"}
    BY <1>2, SignalingTypes
  <2>2. session' = [session EXCEPT ![e].in = "None", ![e].server = "None",
                                   ![e].signaling = g]
    BY <1>11 DEF OfferNotSet, Over, TypeOK, Session
  <2> HIDE DEF g
  <2>3. \A s \in Session : [s EXCEPT !.in = "None", !.server = "None",
                                     !.signaling = g] \in Session
    BY <1>2, <2>1, SessionFields, Zenon
  <2>4. session' \in [Ends -> Session]
    BY <2>2, <2>3 DEF TypeOK
  <2>5. net' \in [Ends -> Seq(Message)]
    BY <1>3, <1>4, <1>11, NetTypes DEF OfferNotSet, TypeOK, Takes
  <2>6. QED
    BY <1>1, <1>2, <1>6, <1>11, <2>4, <2>5 DEF OfferNotSet, Mishaps, TypeOK, RolledBack
<1>12. CASE AnswerApplied(e)
  <2> DEFINE c == IF media[e].state = "closed" THEN media[e].current
                  ELSE Reverse(media[e].remote)
             st == IF media[e].state = "closed" THEN "closed" ELSE "stable"
  <2>1. c \in Directions /\ st \in {"stable", "closed"}
    BY <1>3, DirectionTypes
  <2>2. session' = [session EXCEPT ![e].out = "None", ![e].client = "None",
                                   ![e].pendingReinvite = FALSE]
    BY <1>12 DEF AnswerApplied, Over, TypeOK, Session
  <2>3. media' = [media EXCEPT ![e].state = st, ![e].current = c]
    BY <1>12 DEF AnswerApplied, TypeOK, Media
  <2> HIDE DEF c, st
  <2>4. \A s \in Session : [s EXCEPT !.out = "None", !.client = "None",
                                     !.pendingReinvite = FALSE] \in Session
    BY <1>2, <2>1, SessionFields, Zenon
  <2>5. session' \in [Ends -> Session]
    BY <2>2, <2>4 DEF TypeOK
  <2>6. \A m \in Media : [m EXCEPT !.state = st, !.current = c] \in Media
    BY <1>3, <1>5, <2>1, MediaFields, Zenon
  <2>7. media' \in [Ends -> Media]
    BY <2>3, <2>6 DEF TypeOK
  <2>8. net' \in [Ends -> Seq(Message)]
    BY <1>3, <1>4, <1>12, NetTypes DEF AnswerApplied, TypeOK, Takes
  <2>9. QED
    BY <1>1, <1>2, <1>6, <1>12, <2>5, <2>7, <2>8 DEF AnswerApplied, Mishaps, TypeOK
<1>13. CASE AnswerNotApplied(e)
  <2>1. session' = [session EXCEPT ![e].out = "None", ![e].client = "None",
                                   ![e].pendingReinvite = FALSE,
                                   ![e].state = "Terminated", ![e].signaling = "Closed"]
    BY <1>13 DEF AnswerNotApplied, Over, TypeOK, Session
  <2>2. media' = [media EXCEPT ![e].state = "closed"]
    BY <1>13 DEF AnswerNotApplied, TypeOK, Media
  <2>3. \A s \in Session : [s EXCEPT !.out = "None", !.client = "None",
                                     !.pendingReinvite = FALSE, !.state = "Terminated",
                                     !.signaling = "Closed"] \in Session
    BY <1>2, SessionFields, Zenon
  <2>4. session' \in [Ends -> Session]
    BY <2>1, <2>3 DEF TypeOK
  <2>5. \A m \in Media : [m EXCEPT !.state = "closed"] \in Media
    BY <1>3, <1>5, MediaFields, Zenon
  <2>6. media' \in [Ends -> Media]
    BY <2>2, <2>5 DEF TypeOK
  <2>7. net' \in [Ends -> Seq(Message)]
    BY <1>3, <1>4, <1>13, NetTypes DEF AnswerNotApplied, TypeOK, Takes
  <2>8. QED
    BY <1>1, <1>2, <1>6, <1>13, <2>4, <2>6, <2>7 DEF AnswerNotApplied, Mishaps, TypeOK
<1>14. CASE ReceiveInvite(e)
  <2>1. net' \in [Ends -> Seq(Message)]
    BY <1>4, <1>14, NetTypes DEF ReceiveInvite, TypeOK, Takes
  <2>2. CASE UNCHANGED <<session, media>>
    BY <1>6, <1>14, <2>1, <2>2 DEF ReceiveInvite, TypeOK
  <2>3. CASE ~UNCHANGED <<session, media>>
    <3> DEFINE g == Reaches(session[e].signaling, "Stable", "HaveRemoteOffer")
               i == IF media[e].state = "have-local-offer" THEN "SetAsAnswer"
                    ELSE "SetOffer"
               d == Head(net[e]).direction
               a == AnswerDirection(d, session[e].hold)
    <3>1. /\ g \in {"Stable", "HaveLocalOffer", "HaveRemoteOffer", "Closed"}
          /\ i \in {"SetAsAnswer", "SetOffer"} /\ d \in Directions
          /\ a \in Directions
      BY <1>2, <1>5, <1>14, SignalingTypes, DirectionTypes DEF ReceiveInvite, Takes
    <3>2. /\ session' = [session EXCEPT ![e].server = "Proceeding", ![e].signaling = g,
                                      ![e].in = i]
          /\ media' = [media EXCEPT ![e].remote = d, ![e].answer = a]
      BY <1>14, <2>3 DEF ReceiveInvite, TypeOK, Session, Media
    <3> HIDE DEF g, i, d, a
    <3>3. \A s \in Session : [s EXCEPT !.server = "Proceeding", !.signaling = g,
                                     !.in = i] \in Session
      BY <3>1, SessionFields, Zenon
    <3>4. \A m \in Media : [m EXCEPT !.remote = d, !.answer = a] \in Media
      BY <3>1, MediaFields, Zenon
    <3>5. session' \in [Ends -> Session] /\ media' \in [Ends -> Media]
      BY <3>2, <3>3, <3>4 DEF TypeOK
    <3>6. QED
      BY <1>6, <1>14, <2>1, <3>5 DEF ReceiveInvite, TypeOK
  <2>4. QED
    BY <2>2, <2>3
<1>15. CASE ReceiveAccept(e)
  <2> DEFINE g == Reaches(session[e].signaling, "HaveLocalOffer", "Stable")
             d == Head(net[e]).direction
  <2>1. g \in {"Stable", "HaveLocalOffer", "HaveRemoteOffer", "Closed"}
        /\ d \in Directions
    BY <1>2, <1>5, <1>15, SignalingTypes DEF ReceiveAccept, Takes
  <2>2. session' = [session EXCEPT ![e].client = "Accepted", ![e].out = "Apply",
                                   ![e].signaling = g]
    BY <1>15 DEF ReceiveAccept, Over, TypeOK, Session
  <2>3. media' = [media EXCEPT ![e].remote = d]
    BY <1>15 DEF ReceiveAccept, TypeOK, Media
  <2> HIDE DEF g, d
  <2>4. \A s \in Session : [s EXCEPT !.client = "Accepted", !.out = "Apply",
                                     !.signaling = g] \in Session
    BY <1>2, <2>1, SessionFields, Zenon
  <2>5. session' \in [Ends -> Session]
    BY <2>2, <2>4 DEF TypeOK
  <2>6. \A m \in Media : [m EXCEPT !.remote = d] \in Media
    BY <1>3, <1>5, <2>1, MediaFields, Zenon
  <2>7. media' \in [Ends -> Media]
    BY <2>3, <2>6 DEF TypeOK
  <2>8. net' \in [Ends -> Seq(Message)]
    BY <1>3, <1>4, <1>15, NetTypes DEF ReceiveAccept, TypeOK, Takes
  <2>9. QED
    BY <1>1, <1>2, <1>6, <1>15, <2>5, <2>7, <2>8 DEF ReceiveAccept, Mishaps, TypeOK
<1>16. CASE ReceiveReject(e)
  <2> DEFINE g == Restored(session[e].signaling)
  <2>1. g \in {"Stable", "HaveLocalOffer", "HaveRemoteOffer", "Closed"}
    BY <1>2, SignalingTypes
  <2>2. session' = [session EXCEPT ![e].client = "None", ![e].pendingReinvite = FALSE,
                                   ![e].signaling = g]
    BY <1>16 DEF ReceiveReject, Over, TypeOK, Session
  <2> HIDE DEF g
  <2>3. \A s \in Session : [s EXCEPT !.client = "None", !.pendingReinvite = FALSE,
                                     !.signaling = g] \in Session
    BY <1>2, <2>1, SessionFields, Zenon
  <2>4. session' \in [Ends -> Session]
    BY <2>2, <2>3 DEF TypeOK
  <2>5. net' \in [Ends -> Seq(Message)]
    BY <1>3, <1>4, <1>16, NetTypes DEF ReceiveReject, TypeOK, Takes
  <2>6. QED
    BY <1>1, <1>2, <1>6, <1>16, <2>4, <2>5 DEF ReceiveReject, Mishaps, TypeOK, RolledBack
<1>17. CASE ReceiveAck(e)
  <2> DEFINE v == IF session[e].signaling = "Closed" THEN session[e].server ELSE "None"
  <2>1. v \in {"None", "Proceeding", "Accepted"}
    BY <1>2
  <2>2. session' = [session EXCEPT ![e].server = v]
    BY <1>17 DEF ReceiveAck, Over, TypeOK, Session
  <2> HIDE DEF v
  <2>3. \A s \in Session : [s EXCEPT !.server = v] \in Session
    BY <1>2, <2>1, SessionFields, Zenon
  <2>4. session' \in [Ends -> Session]
    BY <2>2, <2>3 DEF TypeOK
  <2>5. net' \in [Ends -> Seq(Message)]
    BY <1>3, <1>4, <1>17, NetTypes DEF ReceiveAck, TypeOK, Takes
  <2>6. QED
    BY <1>1, <1>2, <1>6, <1>17, <2>4, <2>5 DEF ReceiveAck, Mishaps, TypeOK, RolledBack
<1>18. CASE Bye(e)
  <2>1. session' = [session EXCEPT ![e].state = "Terminated", ![e].signaling = "Closed"]
    BY <1>18 DEF Bye, Over, TypeOK, Session
  <2>2. media' = [media EXCEPT ![e].state = "closed"]
    BY <1>18 DEF Bye, TypeOK, Media
  <2>3. \A s \in Session : [s EXCEPT !.state = "Terminated",
                                     !.signaling = "Closed"] \in Session
    BY <1>2, SessionFields, Zenon
  <2>4. session' \in [Ends -> Session]
    BY <2>1, <2>3 DEF TypeOK
  <2>5. \A m \in Media : [m EXCEPT !.state = "closed"] \in Media
    BY <1>3, <1>5, MediaFields, Zenon
  <2>6. media' \in [Ends -> Media]
    BY <2>2, <2>5 DEF TypeOK
  <2>7. net' \in [Ends -> Seq(Message)]
    BY <1>3, <1>4, <1>18, NetTypes DEF Bye, TypeOK, Takes
  <2>8. QED
    BY <1>1, <1>2, <1>6, <1>18, <2>4, <2>6, <2>7 DEF Bye, Mishaps, TypeOK
<1>19. CASE ReceiveBye(e)
  <2>1. session' = [session EXCEPT ![e].state = "Terminated", ![e].signaling = "Closed"]
    BY <1>19 DEF ReceiveBye, Over, TypeOK, Session
  <2>2. media' = [media EXCEPT ![e].state = "closed"]
    BY <1>19 DEF ReceiveBye, TypeOK, Media
  <2>3. \A s \in Session : [s EXCEPT !.state = "Terminated",
                                     !.signaling = "Closed"] \in Session
    BY <1>2, SessionFields, Zenon
  <2>4. session' \in [Ends -> Session]
    BY <2>1, <2>3 DEF TypeOK
  <2>5. \A m \in Media : [m EXCEPT !.state = "closed"] \in Media
    BY <1>3, <1>5, MediaFields, Zenon
  <2>6. media' \in [Ends -> Media]
    BY <2>2, <2>5 DEF TypeOK
  <2>7. net' \in [Ends -> Seq(Message)]
    BY <1>3, <1>4, <1>19, NetTypes DEF ReceiveBye, TypeOK, Takes
  <2>8. QED
    BY <1>1, <1>2, <1>6, <1>19, <2>4, <2>6, <2>7 DEF ReceiveBye, Mishaps, TypeOK
<1>20. QED
  BY <1>7, <1>8, <1>9, <1>10, <1>11, <1>12, <1>13,
     <1>14, <1>15, <1>16, <1>17, <1>18, <1>19 DEF Browser, Receives

LEMMA TypeStep == TypeOK /\ [Next]_vars => TypeOK'
<1> SUFFICES ASSUME TypeOK, [Next]_vars PROVE TypeOK'
  OBVIOUS
<1>1. CASE UNCHANGED vars
  BY <1>1 DEF vars, TypeOK
<1>2. QED
  BY <1>1, ClickTypes, StepTypes DEF Next

(* The types.                                                              *)
THEOREM TypeCorrect == Spec => []TypeOK
  BY TypeInit, TypeStep, PTL DEF Spec

-----------------------------------------------------------------------------
(* The messages of a queue, and a queue with at most one message of some   *)
(* methods: the proofs need no more of the order of the messages.          *)
Mail(q) == {q[i] : i \in 1 .. Len(q)}

Once(q, ms) ==
  \A i, j \in 1 .. Len(q) : q[i].method \in ms /\ q[j].method \in ms => i = j

OnceEach(q) == \A ms \in {{"INVITE"}, {"ACK"}, {"2xx", "Reject"}} : Once(q, ms)

Flies(q, m) == \E msg \in Mail(q) : msg.method = m

(* Both ends are in the call: what the invariants are about.  An end that  *)
(* has left does not come back.                                            *)
Alive == \A e \in Ends : session[e].state = "Established"

Open == \A e \in Ends : session[e].signaling # "Closed" /\ media[e].state # "closed"

(* The re-INVITE of e, p being the peer: on its way, being answered, or    *)
(* answered; then confirmed, or on the way to be so.                       *)
Handshake(e, p) ==
  /\ OnceEach(net[e])
  /\ session[e].client = "Calling" <=>
       \/ Flies(net[p], "INVITE") \/ session[p].server = "Proceeding"
       \/ Flies(net[e], "2xx") \/ Flies(net[e], "Reject")
  /\ ~(Flies(net[p], "INVITE") /\ session[p].server = "Proceeding")
  /\ Flies(net[e], "2xx") \/ Flies(net[e], "Reject") =>
       ~Flies(net[p], "INVITE") /\ session[p].server # "Proceeding"
  /\ session[p].server = "Accepted" <=>
       \/ Flies(net[e], "2xx") \/ session[e].client = "Accepted" \/ Flies(net[p], "ACK")
  /\ Flies(net[p], "ACK") => ~Flies(net[e], "2xx") /\ session[e].client # "Accepted"

(* What an end is doing.                                                   *)
Doing(e) ==
  /\ session[e].client = "None" \/ session[e].server = "None"
  /\ session[e].in # "None" <=> session[e].server = "Proceeding"
  /\ session[e].pendingReinvite <=>
       session[e].out # "None" \/ session[e].client # "None"
  /\ session[e].out = "Apply" <=> session[e].client = "Accepted"
  /\ session[e].out \in {"Offer", "Stale", "Answer"} => session[e].client = "None"
  /\ session[e].out = "Answer" => session[e].in = "Answer"
  /\ media[e].state = "have-remote-offer" <=> session[e].in = "Answer"
  /\ session[e].signaling = IF session[e].client = "Calling" THEN "HaveLocalOffer"
                            ELSE IF session[e].server = "Proceeding" THEN "HaveRemoteOffer"
                            ELSE "Stable"

HandshakeInv ==
  Alive => /\ Open
           /\ \A e \in Ends : Handshake(e, Peer(e)) /\ Doing(e)

(* The answer to e has been made by its peer, and not been applied yet.    *)
Answered(e) == Flies(net[e], "2xx") \/ session[e].client = "Accepted"

(* What the answer of p to e makes of the media is what p has already made *)
(* of them.                                                                *)
Agreeing(e, p) ==
  /\ \A msg \in Mail(net[e]) : msg.method = "2xx" => msg.direction = media[p].current
  /\ session[e].client = "Accepted" => media[e].remote = media[p].current
  /\ ~Answered(e) /\ ~Answered(p) => media[e].current = Reverse(media[p].current)

AgreeInv ==
  Alive /\ "superseded" \notin mishaps => \A e \in Ends : Agreeing(e, Peer(e))

(* What an end does with the audio when it holds or not, and its peer.     *)
Audio(own, peer) ==
  CASE own /\ peer -> "inactive"
    [] own /\ ~peer -> "sendonly"
    [] ~own /\ peer -> "recvonly"
    [] ~own /\ ~peer -> "sendrecv"

(* e has asked to hold or to resume, and its peer has not answered: what   *)
(* is agreed upon is still the contrary.                                   *)
Asking(e) ==
  \/ session[e].out = "Offer"
  \/ session[e].client = "Calling" /\ ~Flies(net[e], "2xx")

Agreed(e) == IF Asking(e) THEN ~session[e].hold ELSE session[e].hold

(* No re-INVITE has failed or is bound to fail.                            *)
Unharmed(e) ==
  /\ ~Flies(net[e], "Reject")
  /\ session[e].in \in {"None", "SetOffer", "Answer"}
  /\ session[e].out \in {"None", "Offer", "Apply"}

Good ==
  /\ Alive /\ mishaps = {}
  /\ \A e \in Ends : Unharmed(e) /\ ~(Asking(e) /\ Asking(Peer(e)))

Holding(e, p) ==
  /\ phone[e] = session[e].hold
  /\ session[e].in # "Answer" =>
       media[e].direction = Audio(session[e].hold, Agreed(p))
  /\ session[e].in = "Answer" =>
       /\ media[e].direction = Audio(session[e].hold, session[p].hold)
       /\ media[e].answer = media[e].direction
  /\ ~Answered(e) => media[e].current = Audio(Agreed(e), Agreed(p))
  /\ \A msg \in Mail(net[p]) : msg.method = "INVITE" =>
       msg.direction = Audio(session[e].hold, session[p].hold)
  /\ session[p].in = "SetOffer" =>
       media[p].remote = Audio(session[e].hold, session[p].hold)
  /\ session[e].in = "SetOffer" =>
       media[e].answer = AnswerDirection(media[e].remote, session[e].hold)

HoldInv == Good => \A e \in Ends : Holding(e, Peer(e))

HInv == TypeOK /\ HandshakeInv /\ AgreeInv /\ HoldInv

-----------------------------------------------------------------------------
(* Sending and taking messages.                                            *)

LEMMA QueueAppend ==
  ASSUME NEW q \in Seq(Message), NEW m \in Message
  PROVE  /\ Mail(q \o <<m>>) = Mail(q) \cup {m}
         /\ \A k : Flies(q \o <<m>>, k) <=> Flies(q, k) \/ k = m.method
         /\ \A ms : Once(q, ms) /\ (m.method \in ms => \A k \in ms : ~Flies(q, k))
                      => Once(q \o <<m>>, ms)
<1> DEFINE r == q \o <<m>>
<1>1. /\ Len(r) = Len(q) + 1 /\ Len(q) \in Nat /\ r[Len(q) + 1] = m
      /\ \A i \in 1 .. Len(q) : r[i] = q[i]
  OBVIOUS
<1> HIDE DEF r
<1>2. Mail(r) = Mail(q) \cup {m}
  <2>1. ASSUME NEW x \in Mail(r) PROVE x \in Mail(q) \cup {m}
    <3>1. PICK i \in 1 .. Len(r) : x = r[i]
      BY <2>1 DEF Mail
    <3>2. i \in 1 .. Len(q) \/ i = Len(q) + 1
      BY <1>1, <3>1
    <3>3. QED
      BY <1>1, <3>1, <3>2 DEF Mail
  <2>2. ASSUME NEW x \in Mail(q) PROVE x \in Mail(r)
    <3>1. PICK i \in 1 .. Len(q) : x = q[i]
      BY <2>2 DEF Mail
    <3>2. i \in 1 .. Len(r) /\ x = r[i]
      BY <1>1, <3>1
    <3>3. QED
      BY <3>2 DEF Mail
  <2>3. m \in Mail(r)
    <3>1. Len(q) + 1 \in 1 .. Len(r)
      BY <1>1
    <3>2. QED
      BY <1>1, <3>1 DEF Mail
  <2>4. QED
    BY <2>1, <2>2, <2>3
<1>3. \A k : Flies(r, k) <=> Flies(q, k) \/ k = m.method
  BY <1>2 DEF Flies
<1>4. ASSUME NEW ms, Once(q, ms), m.method \in ms => \A k \in ms : ~Flies(q, k)
      PROVE  Once(r, ms)
  <2>1. m.method \in ms => \A i \in 1 .. Len(q) : q[i].method \notin ms
    BY <1>4 DEF Flies, Mail
  <2>2. \A i \in 1 .. Len(r) : i \in 1 .. Len(q) \/ i = Len(q) + 1
    BY <1>1
  <2>3. QED
    BY <1>1, <1>4, <2>1, <2>2 DEF Once
<1>5. QED
  BY <1>2, <1>3, <1>4 DEF r

LEMMA QueueTail ==
  ASSUME NEW q \in Seq(Message), q # << >>
  PROVE  /\ Head(q) \in Mail(q) /\ Mail(Tail(q)) \subseteq Mail(q)
         /\ \A k : k # Head(q).method => (Flies(Tail(q), k) <=> Flies(q, k))
         /\ \A ms : Once(q, ms) =>
              /\ Once(Tail(q), ms)
              /\ Head(q).method \in ms => \A k \in ms : ~Flies(Tail(q), k)
<1> DEFINE r == Tail(q)
<1>1. /\ Len(r) = Len(q) - 1 /\ Len(q) \in Nat \ {0} /\ Head(q) = q[1]
      /\ \A i \in 1 .. Len(r) : r[i] = q[i + 1]
  OBVIOUS
<1> HIDE DEF r
<1>2. \A i \in 1 .. Len(r) : i + 1 \in 1 .. Len(q) /\ i + 1 # 1
  BY <1>1
<1>3. ASSUME NEW i \in 1 .. Len(q), i # 1
      PROVE  i - 1 \in 1 .. Len(r) /\ q[i] = r[i - 1]
  <2>1. i - 1 \in 1 .. Len(r) /\ (i - 1) + 1 = i
    BY <1>1, <1>3
  <2>2. QED
    BY <1>1, <2>1
<1>4. Head(q) \in Mail(q) /\ Mail(r) \subseteq Mail(q)
  <2>1. 1 \in 1 .. Len(q)
    BY <1>1
  <2>2. QED
    BY <1>1, <1>2, <2>1 DEF Mail
<1>5. \A k : k # Head(q).method => (Flies(r, k) <=> Flies(q, k))
  <2>1. \A x \in Mail(q) : x = Head(q) \/ x \in Mail(r)
    BY <1>1, <1>3 DEF Mail
  <2>2. QED
    BY <1>4, <2>1 DEF Flies
<1>6. ASSUME NEW ms, Once(q, ms)
      PROVE  /\ Once(r, ms)
             /\ Head(q).method \in ms => \A k \in ms : ~Flies(r, k)
  <2>1. 1 \in 1 .. Len(q)
    BY <1>1
  <2>2. ASSUME NEW i \in 1 .. Len(r), NEW j \in 1 .. Len(r),
               r[i].method \in ms, r[j].method \in ms
        PROVE  i = j
    <3>1. i + 1 = j + 1
      BY <1>1, <1>2, <1>6, <2>2 DEF Once
    <3>2. QED
      BY <3>1
  <2>3. Head(q).method \in ms => \A i \in 1 .. Len(r) : r[i].method \notin ms
    BY <1>1, <1>2, <1>6, <2>1 DEF Once
  <2>4. QED
    BY <2>2, <2>3 DEF Once, Flies, Mail
<1>7. QED
  BY <1>4, <1>5, <1>6 DEF r

LEMMA Sent ==
  ASSUME TypeOK, NEW e \in Ends, NEW m \in Message, Sends(e, <<m>>)
  PROVE  /\ net'[e] = net[e]
         /\ Mail(net'[Peer(e)]) = Mail(net[Peer(e)]) \cup {m}
         /\ \A k : Flies(net'[Peer(e)], k) <=> Flies(net[Peer(e)], k) \/ k = m.method
         /\ \A ms : Once(net[Peer(e)], ms)
                    /\ (m.method \in ms => \A k \in ms : ~Flies(net[Peer(e)], k))
                      => Once(net'[Peer(e)], ms)
<1> DEFINE p == Peer(e)
<1>1. p \in Ends /\ p # e
  BY BothEnds
<1>2. net[p] \in Seq(Message) /\ net \in [Ends -> Seq(Message)]
  BY <1>1 DEF TypeOK
<1>3. net' = [net EXCEPT ![p] = @ \o <<m>>]
  BY DEF Sends
<1> HIDE DEF p
<1>4. net'[e] = net[e] /\ net'[p] = net[p] \o <<m>>
  BY <1>1, <1>2, <1>3
<1>5. QED
  BY <1>2, <1>4, QueueAppend DEF p

LEMMA SentNothing ==
  ASSUME TypeOK, NEW e \in Ends, Sends(e, << >>)
  PROVE  net' = net
<1>1. Peer(e) \in Ends /\ net \in [Ends -> Seq(Message)]
  BY BothEnds DEF TypeOK
<1>2. net[Peer(e)] \o << >> = net[Peer(e)]
  <2>1. \A q \in Seq(Message) : q \o << >> = q
    OBVIOUS
  <2>2. QED
    BY <1>1, <2>1
<1>3. QED
  BY <1>1, <1>2 DEF Sends

LEMMA Taken ==
  ASSUME TypeOK, NEW e \in Ends, NEW k, Takes(e, k), NEW ms \in Seq(Message),
         Answers(e, ms)
  PROVE  /\ net'[e] = Tail(net[e]) /\ net'[Peer(e)] = net[Peer(e)] \o ms
         /\ Head(net[e]) \in Mail(net[e]) /\ Head(net[e]).method = k
         /\ Flies(net[e], k) /\ Mail(net'[e]) \subseteq Mail(net[e])
         /\ \A m : m # k => (Flies(net'[e], m) <=> Flies(net[e], m))
         /\ \A s : Once(net[e], s) =>
              Once(net'[e], s) /\ (k \in s => \A m \in s : ~Flies(net'[e], m))
<1> DEFINE p == Peer(e)
<1>1. p \in Ends /\ p # e
  BY BothEnds
<1>2. net[e] \in Seq(Message) /\ net \in [Ends -> Seq(Message)] /\ net[e] # << >>
      /\ Head(net[e]).method = k
  BY <1>1 DEF TypeOK, Takes
<1>3. net' = [net EXCEPT ![e] = Tail(@), ![p] = @ \o ms]
  BY DEF Answers
<1> HIDE DEF p
<1>4. net'[e] = Tail(net[e]) /\ net'[p] = net[p] \o ms
  BY <1>1, <1>2, <1>3
<1>5. Head(net[e]) \in Mail(net[e]) /\ Flies(net[e], k)
  BY <1>2, QueueTail DEF Flies
<1>6. QED
  BY <1>2, <1>4, <1>5, QueueTail DEF p

-----------------------------------------------------------------------------
(* What every step does, as long as both ends stay in the call.            *)

LEMMA SetHoldEffect ==
  ASSUME TypeOK, Alive, Open, NEW e \in Ends, NEW hold \in BOOLEAN, SetHold(e, hold)
  PROVE  /\ ~session[e].pendingReinvite
         /\ media[e].state = "stable"
         /\ session'[e].pendingReinvite = TRUE
         /\ session'[e].client = session[e].client
         /\ session'[e].server = session[e].server
         /\ session'[e].signaling = session[e].signaling
         /\ session'[e].hold = hold
         /\ session'[e].out = "Offer"
         /\ session'[e].in = session[e].in
         /\ media'[e].state = media[e].state
         /\ media'[e].direction = DirectionToOffer(media[e].direction, hold)
         /\ media'[e].current = media[e].current
         /\ media'[e].remote = media[e].remote
         /\ media'[e].answer = media[e].answer
         /\ session'[Peer(e)] = session[Peer(e)]
         /\ media'[Peer(e)] = media[Peer(e)]
         /\ phone'[Peer(e)] = phone[Peer(e)]
         /\ phone'[e] = hold
         /\ net' = net
         /\ mishaps' = mishaps
  BY BothEnds, SentNothing DEF SetHold, Alive, Open, TypeOK, Session, Media, Holds

LEMMA SetHoldAnsweringEffect ==
  ASSUME TypeOK, Alive, Open, NEW e \in Ends, NEW hold \in BOOLEAN, SetHoldAnswering(e, hold)
  PROVE  /\ ~session[e].pendingReinvite
         /\ media[e].state = "have-remote-offer"
         /\ session'[e].pendingReinvite = TRUE
         /\ session'[e].client = session[e].client
         /\ session'[e].server = session[e].server
         /\ session'[e].signaling = session[e].signaling
         /\ session'[e].hold = hold
         /\ session'[e].out = "Answer"
         /\ session'[e].in = session[e].in
         /\ media'[e].state = media[e].state
         /\ media'[e].direction = AnswerDirection(media[e].remote, hold)
         /\ media'[e].current = media[e].current
         /\ media'[e].remote = media[e].remote
         /\ media'[e].answer = media[e].answer
         /\ session'[Peer(e)] = session[Peer(e)]
         /\ media'[Peer(e)] = media[Peer(e)]
         /\ phone'[Peer(e)] = phone[Peer(e)]
         /\ phone'[e] = hold
         /\ net' = net
         /\ mishaps' = mishaps \cup {"refused"}
  BY BothEnds, SentNothing DEF SetHoldAnswering, Alive, Open, TypeOK, Session, Media, Holds

LEMMA SetHoldRefusedEffect ==
  ASSUME TypeOK, Alive, Open, NEW e \in Ends, NEW hold \in BOOLEAN, SetHoldRefused(e, hold)
  PROVE  /\ session'[e].pendingReinvite = session[e].pendingReinvite
         /\ session'[e].client = session[e].client
         /\ session'[e].server = session[e].server
         /\ session'[e].signaling = session[e].signaling
         /\ session'[e].hold = IF session[e].pendingReinvite THEN session[e].hold ELSE hold
         /\ session'[e].out = session[e].out
         /\ session'[e].in = session[e].in
         /\ media'[e].state = media[e].state
         /\ media'[e].direction = media[e].direction
         /\ media'[e].current = media[e].current
         /\ media'[e].remote = media[e].remote
         /\ media'[e].answer = media[e].answer
         /\ session'[Peer(e)] = session[Peer(e)]
         /\ media'[Peer(e)] = media[Peer(e)]
         /\ phone'[Peer(e)] = phone[Peer(e)]
         /\ phone'[e] = hold
         /\ net' = net
         /\ mishaps' = mishaps \cup {"refused"}
  BY BothEnds, SentNothing DEF SetHoldRefused, Alive, Open, TypeOK, Session, Media, Holds

LEMMA OfferSentEffect ==
  ASSUME TypeOK, Alive, Open, NEW e \in Ends, OfferMade(e),
         session[e].out = "Offer" /\ media[e].state = "stable",
         session[e].client = "None" /\ session[e].server = "None"
  PROVE  /\ session'[e].pendingReinvite = TRUE
         /\ session'[e].client = "Calling"
         /\ session'[e].server = session[e].server
         /\ session'[e].signaling = Reaches(session[e].signaling, "Stable", "HaveLocalOffer")
         /\ session'[e].hold = session[e].hold
         /\ session'[e].out = "None"
         /\ session'[e].in = session[e].in
         /\ media'[e].state = "have-local-offer"
         /\ media'[e].direction = media[e].direction
         /\ media'[e].current = media[e].current
         /\ media'[e].remote = media[e].remote
         /\ media'[e].answer = media[e].answer
         /\ session'[Peer(e)] = session[Peer(e)]
         /\ media'[Peer(e)] = media[Peer(e)]
         /\ phone'[Peer(e)] = phone[Peer(e)]
         /\ phone'[e] = phone[e]
         /\ Sends(e, <<Msg("INVITE", media[e].direction)>>)
         /\ mishaps' = mishaps
<1> DEFINE g == Reaches(session[e].signaling, "Stable", "HaveLocalOffer")
<1>1. session' = [session EXCEPT ![e].out = "None", ![e].pendingReinvite = TRUE,
                                 ![e].client = "Calling", ![e].signaling = g]
  BY DEF OfferMade
<1>2. /\ media' = [media EXCEPT ![e].state = "have-local-offer"]
      /\ Sends(e, <<Msg("INVITE", media[e].direction)>>)
      /\ mishaps' = mishaps /\ phone' = phone
  BY DEF OfferMade
<1> HIDE DEF g
<1>3. session[e] \in Session /\ media[e] \in Media
  BY DEF TypeOK
<1>4. QED
  BY <1>1, <1>2, <1>3, BothEnds DEF TypeOK, Session, Media, g

LEMMA OfferLostEffect ==
  ASSUME TypeOK, Alive, Open, NEW e \in Ends, OfferMade(e),
         ~(session[e].out = "Offer" /\ media[e].state = "stable")
         \/ ~(session[e].client = "None" /\ session[e].server = "None")
  PROVE  /\ media'[e].state = media[e].state
            \/ (media[e].state = "stable" /\ media'[e].state = "have-local-offer")
         /\ session[e].out \in {"Offer", "Stale", "Answer"}
         /\ session'[e].pendingReinvite = FALSE
         /\ session'[e].client = session[e].client
         /\ session'[e].server = session[e].server
         /\ session'[e].signaling = session[e].signaling
         /\ session'[e].hold = session[e].hold
         /\ session'[e].out = "None"
         /\ session'[e].in = session[e].in
         /\ media'[e].direction = media[e].direction
         /\ media'[e].current = media[e].current
         /\ media'[e].remote = media[e].remote
         /\ media'[e].answer = media[e].answer
         /\ session'[Peer(e)] = session[Peer(e)]
         /\ media'[Peer(e)] = media[Peer(e)]
         /\ phone'[Peer(e)] = phone[Peer(e)]
         /\ phone'[e] = phone[e]
         /\ net' = net
         /\ mishaps' = mishaps \cup {"refused"}
<1>1. session' = [session EXCEPT ![e].out = "None", ![e].pendingReinvite = FALSE]
  <2>1. session' = [session EXCEPT ![e].out = "None", ![e].pendingReinvite = FALSE,
                      ![e].client = session[e].client, ![e].signaling = session[e].signaling]
    BY DEF OfferMade
  <2>2. session \in [Ends -> Session] /\ session[e] \in Session
    BY DEF TypeOK
  <2>3. QED
    BY <2>1, <2>2 DEF Session
<1>2. /\ Sends(e, << >>) /\ mishaps' = mishaps \cup {"refused"} /\ phone' = phone
      /\ session[e].out \in {"Offer", "Stale", "Answer"}
  BY DEF OfferMade
<1>3. media' = media
      \/ (media[e].state = "stable"
          /\ media' = [media EXCEPT ![e].state = "have-local-offer"])
  <2>1. CASE session[e].out = "Offer" /\ media[e].state = "stable"
    BY <2>1 DEF OfferMade
  <2>2. CASE ~(session[e].out = "Offer" /\ media[e].state = "stable")
    BY <2>2 DEF OfferMade
  <2>3. QED
    BY <2>1, <2>2
<1>4. session[e] \in Session /\ media[e] \in Media
  BY DEF TypeOK
<1>5. QED
  BY <1>1, <1>2, <1>3, <1>4, BothEnds, SentNothing DEF TypeOK, Session, Media

LEMMA OfferSetEffect ==
  ASSUME TypeOK, Alive, Open, NEW e \in Ends, OfferSet(e)
  PROVE  /\ session[e].in = "SetOffer"
         /\ session'[e].pendingReinvite = session[e].pendingReinvite
         /\ session'[e].client = session[e].client
         /\ session'[e].server = session[e].server
         /\ session'[e].signaling = session[e].signaling
         /\ session'[e].hold = session[e].hold
         /\ session'[e].out = session[e].out
         /\ session'[e].in = "Answer"
         /\ media'[e].state = "have-remote-offer"
         /\ media'[e].direction = media[e].answer
         /\ media'[e].current = media[e].current
         /\ media'[e].remote = media[e].remote
         /\ media'[e].answer = media[e].answer
         /\ session'[Peer(e)] = session[Peer(e)]
         /\ media'[Peer(e)] = media[Peer(e)]
         /\ phone'[Peer(e)] = phone[Peer(e)]
         /\ phone'[e] = phone[e]
         /\ net' = net
         /\ mishaps' = mishaps
  BY BothEnds, SentNothing DEF OfferSet, Alive, Open, TypeOK, Session, Media

LEMMA AnswerMadeEffect ==
  ASSUME TypeOK, Alive, Open, NEW e \in Ends, AnswerMade(e)
  PROVE  /\ session[e].in = "Answer"
         /\ session'[e].pendingReinvite = session[e].pendingReinvite
         /\ session'[e].client = session[e].client
         /\ session'[e].server = "Accepted"
         /\ session'[e].signaling = Reaches(session[e].signaling, "HaveRemoteOffer", "Stable")
         /\ session'[e].hold = session[e].hold
         /\ session'[e].out = IF session[e].out = "None" THEN "None" ELSE "Stale"
         /\ session'[e].in = "None"
         /\ media'[e].state = "stable"
         /\ media'[e].direction = media[e].direction
         /\ media'[e].current = media[e].answer
         /\ media'[e].remote = media[e].remote
         /\ media'[e].answer = media[e].answer
         /\ session'[Peer(e)] = session[Peer(e)]
         /\ media'[Peer(e)] = media[Peer(e)]
         /\ phone'[Peer(e)] = phone[Peer(e)]
         /\ phone'[e] = phone[e]
         /\ Sends(e, <<Msg("2xx", media[e].answer)>>)
         /\ mishaps' = mishaps
  BY BothEnds, SentNothing DEF AnswerMade, Alive, Open, TypeOK, Session, Media

LEMMA OwnAnswerMadeEffect ==
  ASSUME TypeOK, Alive, Open, NEW e \in Ends, OwnAnswerMade(e)
  PROVE  /\ session[e].out = "Answer"
         /\ session'[e].pendingReinvite = FALSE
         /\ session'[e].client = session[e].client
         /\ session'[e].server = session[e].server
         /\ session'[e].signaling = session[e].signaling
         /\ session'[e].hold = session[e].hold
         /\ session'[e].out = "None"
         /\ session'[e].in = "Superseded"
         /\ media'[e].state = "stable"
         /\ media'[e].direction = media[e].direction
         /\ media'[e].current = media[e].direction
         /\ media'[e].remote = media[e].remote
         /\ media'[e].answer = media[e].answer
         /\ session'[Peer(e)] = session[Peer(e)]
         /\ media'[Peer(e)] = media[Peer(e)]
         /\ phone'[Peer(e)] = phone[Peer(e)]
         /\ phone'[e] = phone[e]
         /\ net' = net
         /\ mishaps' = mishaps \cup {"superseded"}
  BY BothEnds, SentNothing DEF OwnAnswerMade, Alive, Open, TypeOK, Session, Media

LEMMA OfferNotSetEffect ==
  ASSUME TypeOK, Alive, Open, NEW e \in Ends, OfferNotSet(e)
  PROVE  /\ session[e].in \in {"SetAsAnswer", "Superseded"}
         /\ session'[e].pendingReinvite = session[e].pendingReinvite
         /\ session'[e].client = session[e].client
         /\ session'[e].server = "None"
         /\ session'[e].signaling = Restored(session[e].signaling)
         /\ session'[e].hold = session[e].hold
         /\ session'[e].out = session[e].out
         /\ session'[e].in = "None"
         /\ media'[e].state = media[e].state
         /\ media'[e].direction = media[e].direction
         /\ media'[e].current = media[e].current
         /\ media'[e].remote = media[e].remote
         /\ media'[e].answer = media[e].answer
         /\ session'[Peer(e)] = session[Peer(e)]
         /\ media'[Peer(e)] = media[Peer(e)]
         /\ phone'[Peer(e)] = phone[Peer(e)]
         /\ phone'[e] = phone[e]
         /\ Sends(e, <<Plain("Reject")>>)
         /\ mishaps' = mishaps
  BY BothEnds, SentNothing DEF OfferNotSet, Alive, Open, TypeOK, Session, Media, RolledBack

LEMMA AnswerAppliedEffect ==
  ASSUME TypeOK, Alive, Open, NEW e \in Ends, AnswerApplied(e)
  PROVE  /\ session[e].out = "Apply"
         /\ session'[e].pendingReinvite = FALSE
         /\ session'[e].client = "None"
         /\ session'[e].server = session[e].server
         /\ session'[e].signaling = session[e].signaling
         /\ session'[e].hold = session[e].hold
         /\ session'[e].out = "None"
         /\ session'[e].in = session[e].in
         /\ media'[e].state = "stable"
         /\ media'[e].direction = media[e].direction
         /\ media'[e].current = Reverse(media[e].remote)
         /\ media'[e].remote = media[e].remote
         /\ media'[e].answer = media[e].answer
         /\ session'[Peer(e)] = session[Peer(e)]
         /\ media'[Peer(e)] = media[Peer(e)]
         /\ phone'[Peer(e)] = phone[Peer(e)]
         /\ phone'[e] = session[e].hold
         /\ Sends(e, <<Plain("ACK")>>)
         /\ mishaps' = mishaps
  BY BothEnds, SentNothing DEF AnswerApplied, Alive, Open, TypeOK, Session, Media

LEMMA InviteRefusedEffect ==
  ASSUME TypeOK, Alive, Open, NEW e \in Ends, ReceiveInvite(e),
         session[e].server # "None" \/ session[e].client # "None"
  PROVE  /\ Takes(e, "INVITE")
         /\ session'[e].pendingReinvite = session[e].pendingReinvite
         /\ session'[e].client = session[e].client
         /\ session'[e].server = session[e].server
         /\ session'[e].signaling = session[e].signaling
         /\ session'[e].hold = session[e].hold
         /\ session'[e].out = session[e].out
         /\ session'[e].in = session[e].in
         /\ media'[e].state = media[e].state
         /\ media'[e].direction = media[e].direction
         /\ media'[e].current = media[e].current
         /\ media'[e].remote = media[e].remote
         /\ media'[e].answer = media[e].answer
         /\ session'[Peer(e)] = session[Peer(e)]
         /\ media'[Peer(e)] = media[Peer(e)]
         /\ phone'[Peer(e)] = phone[Peer(e)]
         /\ phone'[e] = phone[e]
         /\ Answers(e, <<Plain("Reject")>>)
         /\ mishaps' = mishaps
  BY BothEnds, SentNothing DEF ReceiveInvite, Alive, Open, TypeOK, Session, Media

LEMMA InviteTakenEffect ==
  ASSUME TypeOK, Alive, Open, NEW e \in Ends, ReceiveInvite(e),
         session[e].server = "None" /\ session[e].client = "None"
  PROVE  /\ Takes(e, "INVITE")
         /\ session'[e].pendingReinvite = session[e].pendingReinvite
         /\ session'[e].client = session[e].client
         /\ session'[e].server = "Proceeding"
         /\ session'[e].signaling = Reaches(session[e].signaling, "Stable", "HaveRemoteOffer")
         /\ session'[e].hold = session[e].hold
         /\ session'[e].out = session[e].out
         /\ session'[e].in = IF media[e].state = "have-local-offer"
                             THEN "SetAsAnswer" ELSE "SetOffer"
         /\ media'[e].state = media[e].state
         /\ media'[e].direction = media[e].direction
         /\ media'[e].current = media[e].current
         /\ media'[e].remote = Head(net[e]).direction
         /\ media'[e].answer = AnswerDirection(Head(net[e]).direction, session[e].hold)
         /\ session'[Peer(e)] = session[Peer(e)]
         /\ media'[Peer(e)] = media[Peer(e)]
         /\ phone'[Peer(e)] = phone[Peer(e)]
         /\ phone'[e] = phone[e]
         /\ Answers(e, << >>)
         /\ mishaps' = mishaps
  BY BothEnds, SentNothing DEF ReceiveInvite, Alive, Open, TypeOK, Session, Media

LEMMA ReceiveAcceptEffect ==
  ASSUME TypeOK, Alive, Open, NEW e \in Ends, ReceiveAccept(e)
  PROVE  /\ Takes(e, "2xx")
         /\ session'[e].pendingReinvite = session[e].pendingReinvite
         /\ session'[e].client = "Accepted"
         /\ session'[e].server = session[e].server
         /\ session'[e].signaling = Reaches(session[e].signaling, "HaveLocalOffer", "Stable")
         /\ session'[e].hold = session[e].hold
         /\ session'[e].out = "Apply"
         /\ session'[e].in = session[e].in
         /\ media'[e].state = media[e].state
         /\ media'[e].direction = media[e].direction
         /\ media'[e].current = media[e].current
         /\ media'[e].remote = Head(net[e]).direction
         /\ media'[e].answer = media[e].answer
         /\ session'[Peer(e)] = session[Peer(e)]
         /\ media'[Peer(e)] = media[Peer(e)]
         /\ phone'[Peer(e)] = phone[Peer(e)]
         /\ phone'[e] = phone[e]
         /\ Answers(e, << >>)
         /\ mishaps' = mishaps
  BY BothEnds, SentNothing DEF ReceiveAccept, Alive, Open, TypeOK, Session, Media

LEMMA ReceiveRejectEffect ==
  ASSUME TypeOK, Alive, Open, NEW e \in Ends, ReceiveReject(e)
  PROVE  /\ Takes(e, "Reject")
         /\ session'[e].pendingReinvite = FALSE
         /\ session'[e].client = "None"
         /\ session'[e].server = session[e].server
         /\ session'[e].signaling = Restored(session[e].signaling)
         /\ session'[e].hold = session[e].hold
         /\ session'[e].out = session[e].out
         /\ session'[e].in = session[e].in
         /\ media'[e].state = media[e].state
         /\ media'[e].direction = media[e].direction
         /\ media'[e].current = media[e].current
         /\ media'[e].remote = media[e].remote
         /\ media'[e].answer = media[e].answer
         /\ session'[Peer(e)] = session[Peer(e)]
         /\ media'[Peer(e)] = media[Peer(e)]
         /\ phone'[Peer(e)] = phone[Peer(e)]
         /\ phone'[e] = ~session[e].hold
         /\ Answers(e, << >>)
         /\ mishaps' = mishaps \cup {"refused"}
  BY BothEnds, SentNothing DEF ReceiveReject, Alive, Open, TypeOK, Session, Media, RolledBack

LEMMA ReceiveAckEffect ==
  ASSUME TypeOK, Alive, Open, NEW e \in Ends, ReceiveAck(e)
  PROVE  /\ Takes(e, "ACK")
         /\ session'[e].pendingReinvite = session[e].pendingReinvite
         /\ session'[e].client = session[e].client
         /\ session'[e].server = "None"
         /\ session'[e].signaling = session[e].signaling
         /\ session'[e].hold = session[e].hold
         /\ session'[e].out = session[e].out
         /\ session'[e].in = session[e].in
         /\ media'[e].state = media[e].state
         /\ media'[e].direction = media[e].direction
         /\ media'[e].current = media[e].current
         /\ media'[e].remote = media[e].remote
         /\ media'[e].answer = media[e].answer
         /\ session'[Peer(e)] = session[Peer(e)]
         /\ media'[Peer(e)] = media[Peer(e)]
         /\ phone'[Peer(e)] = phone[Peer(e)]
         /\ phone'[e] = phone[e]
         /\ Answers(e, << >>)
         /\ mishaps' = mishaps
  BY BothEnds, SentNothing DEF ReceiveAck, Alive, Open, TypeOK, Session, Media

-----------------------------------------------------------------------------
(* Every re-INVITE is under way at both ends, or at neither.               *)

(* The steps that leave both ends in the call.                             *)
Click(e, hold) == SetHold(e, hold) \/ SetHoldAnswering(e, hold) \/ SetHoldRefused(e, hold)

Moves(e) ==
  \/ \E hold \in BOOLEAN : Click(e, hold)
  \/ OfferMade(e) \/ OfferSet(e) \/ AnswerMade(e) \/ OwnAnswerMade(e) \/ OfferNotSet(e)
  \/ AnswerApplied(e)
  \/ ReceiveInvite(e) \/ ReceiveAccept(e) \/ ReceiveReject(e) \/ ReceiveAck(e)

LEMMA StillAlive ==
  ASSUME TypeOK, Next, Alive'
  PROVE  Alive /\ \E e \in Ends : Moves(e)
<1>1. PICK e \in Ends : \/ \E hold \in BOOLEAN : Click(e, hold)
                       \/ Bye(e) \/ Browser(e) \/ Receives(e)
  BY Zenon DEF Next, Click
<1>2. ASSUME session' = Over(e) PROVE FALSE
  <2>1. session'[e].state = "Terminated"
    BY <1>2 DEF Over, TypeOK, Session
  <2>2. QED
    BY <2>1 DEF Alive
<1>3. ASSUME AnswerNotApplied(e) PROVE FALSE
  <2>1. session'[e].state = "Terminated"
    BY <1>3 DEF AnswerNotApplied, TypeOK, Session
  <2>2. QED
    BY <2>1 DEF Alive
<1>4. Moves(e)
  BY <1>1, <1>2, <1>3 DEF Bye, ReceiveBye, Browser, Receives, Moves
<1>5. Alive
  <2> DEFINE Same == \A x \in Ends : session'[x].state = session[x].state
  <2>1. ASSUME NEW hold \in BOOLEAN, Click(e, hold) PROVE Same
    <3>1. CASE SetHold(e, hold)
      BY <3>1 DEF SetHold, Holds, TypeOK, Session
    <3>2. CASE SetHoldAnswering(e, hold)
      BY <3>2 DEF SetHoldAnswering, Holds, TypeOK, Session
    <3>3. CASE SetHoldRefused(e, hold)
      <4> DEFINE h == IF session[e].pendingReinvite THEN session[e].hold ELSE hold
      <4>1. session' = [session EXCEPT ![e].hold = h]
        BY <3>3 DEF SetHoldRefused, Holds, TypeOK, Session
      <4> HIDE DEF h
      <4>2. QED
        BY <4>1 DEF TypeOK, Session
    <3>4. QED
      BY <2>1, <3>1, <3>2, <3>3 DEF Click
  <2>2. ASSUME OfferMade(e) PROVE Same
    <3> DEFINE c == IF (session[e].out = "Offer" /\ media[e].state = "stable")
                       /\ (session[e].client = "None" /\ session[e].server = "None")
                    THEN "Calling" ELSE session[e].client
               g == session'[e].signaling
               b == session'[e].pendingReinvite
    <3>1. session' = [session EXCEPT ![e].out = "None", ![e].pendingReinvite = b,
                                     ![e].client = c, ![e].signaling = g]
      BY <2>2 DEF OfferMade, TypeOK, Session
    <3> HIDE DEF b, c, g
    <3>2. QED
      BY <3>1 DEF TypeOK, Session
  <2>3. ASSUME OfferSet(e) PROVE Same
    BY <2>3 DEF OfferSet, TypeOK, Session
  <2>4. ASSUME AnswerMade(e) PROVE Same
    BY <2>4 DEF AnswerMade, TypeOK, Session
  <2>5. ASSUME OwnAnswerMade(e) PROVE Same
    BY <2>5 DEF OwnAnswerMade, TypeOK, Session
  <2>6. ASSUME OfferNotSet(e) PROVE Same
    BY <2>6 DEF OfferNotSet, TypeOK, Session
  <2>7. ASSUME AnswerApplied(e) PROVE Same
    BY <2>7 DEF AnswerApplied, TypeOK, Session
  <2>8. ASSUME ReceiveInvite(e) PROVE Same
    <3> DEFINE i == IF media[e].state = "have-local-offer" THEN "SetAsAnswer"
                                                           ELSE "SetOffer"
               g == Reaches(session[e].signaling, "Stable", "HaveRemoteOffer")
    <3>1. CASE session' = session
      BY <3>1
    <3>2. CASE session' # session
      <4>1. session' = [session EXCEPT ![e].server = "Proceeding", ![e].signaling = g,
                                       ![e].in = i]
        BY <2>8, <3>2 DEF ReceiveInvite
      <4> HIDE DEF i, g
      <4>2. QED
        BY <4>1 DEF TypeOK, Session
    <3>3. QED
      BY <3>1, <3>2
  <2>9. ASSUME ReceiveAccept(e) PROVE Same
    BY <2>9 DEF ReceiveAccept, TypeOK, Session
  <2>10. ASSUME ReceiveReject(e) PROVE Same
    BY <2>10 DEF ReceiveReject, TypeOK, Session
  <2>11. ASSUME ReceiveAck(e) PROVE Same
    BY <2>11 DEF ReceiveAck, TypeOK, Session
  <2>12. Same
    BY <1>4, <2>1, <2>2, <2>3, <2>4, <2>5, <2>6, <2>7, <2>8, <2>9, <2>10, <2>11 DEF Moves
  <2>13. QED
    BY <2>12 DEF Alive
<1>6. QED
  BY <1>4, <1>5

(* What a message sent, and one taken, makes of the two queues.            *)
LEMMA MessageSent ==
  ASSUME TypeOK, NEW e \in Ends, NEW m \in Message, Sends(e, <<m>>),
         OnceEach(net[Peer(e)]),
         ~Flies(net[Peer(e)], m.method),
         m.method \in {"2xx", "Reject"} =>
           ~Flies(net[Peer(e)], "2xx") /\ ~Flies(net[Peer(e)], "Reject")
  PROVE  /\ net'[e] = net[e] /\ OnceEach(net'[Peer(e)])
         /\ Mail(net'[Peer(e)]) = Mail(net[Peer(e)]) \cup {m}
         /\ \A k : Flies(net'[Peer(e)], k) <=> Flies(net[Peer(e)], k) \/ k = m.method
<1>1. ASSUME NEW ms \in {{"INVITE"}, {"ACK"}, {"2xx", "Reject"}}
      PROVE  Once(net'[Peer(e)], ms)
  <2>1. m.method \in ms => \A k \in ms : ~Flies(net[Peer(e)], k)
    BY <1>1
  <2>2. QED
    BY <1>1, <2>1, Sent DEF OnceEach
<1>2. QED
  BY <1>1, Sent DEF OnceEach

LEMMA MessageTaken ==
  ASSUME TypeOK, NEW e \in Ends, NEW k \in {"INVITE", "ACK", "2xx", "Reject"}, Takes(e, k),
         Answers(e, << >>), OnceEach(net[e])
  PROVE  /\ net'[Peer(e)] = net[Peer(e)] /\ OnceEach(net'[e]) /\ Flies(net[e], k)
         /\ Head(net[e]) \in Mail(net[e]) /\ Head(net[e]).method = k
         /\ Mail(net'[e]) \subseteq Mail(net[e])
         /\ ~Flies(net'[e], k)
         /\ k \in {"2xx", "Reject"} => ~Flies(net'[e], "2xx") /\ ~Flies(net'[e], "Reject")
         /\ \A m : m # k => (Flies(net'[e], m) <=> Flies(net[e], m))
<1>1. << >> \in Seq(Message)
  OBVIOUS
<1>2. net[Peer(e)] \o << >> = net[Peer(e)]
  <2>1. \A q \in Seq(Message) : q \o << >> = q
    OBVIOUS
  <2>2. QED
    BY <2>1, BothEnds DEF TypeOK
<1>3. /\ \A ms \in {{"INVITE"}, {"ACK"}, {"2xx", "Reject"}} :
           Once(net'[e], ms) /\ (k \in ms => \A m \in ms : ~Flies(net'[e], m))
      /\ net'[Peer(e)] = net[Peer(e)] \o << >> /\ Flies(net[e], k)
      /\ Head(net[e]) \in Mail(net[e]) /\ Head(net[e]).method = k
      /\ Mail(net'[e]) \subseteq Mail(net[e])
      /\ \A m : m # k => (Flies(net'[e], m) <=> Flies(net[e], m))
  BY <1>1, Taken DEF OnceEach
<1>4. QED
  BY <1>2, <1>3 DEF OnceEach

LEMMA TakesFlies ==
  ASSUME TypeOK, NEW e \in Ends, NEW k, Takes(e, k)
  PROVE  Flies(net[e], k)
<1>1. net[e] \in Seq(Message) /\ net[e] # << >> /\ Head(net[e]).method = k
  BY DEF TypeOK, Takes
<1>2. QED
  BY <1>1, QueueTail DEF Flies

LEMMA InviteRejected ==
  ASSUME TypeOK, NEW e \in Ends, Takes(e, "INVITE"), Answers(e, <<Plain("Reject")>>),
         OnceEach(net[e]), OnceEach(net[Peer(e)]),
         ~Flies(net[Peer(e)], "2xx"), ~Flies(net[Peer(e)], "Reject")
  PROVE  /\ OnceEach(net'[e]) /\ OnceEach(net'[Peer(e)])
         /\ Flies(net[e], "INVITE") /\ ~Flies(net'[e], "INVITE")
         /\ Mail(net'[e]) \subseteq Mail(net[e])
         /\ Mail(net'[Peer(e)]) = Mail(net[Peer(e)]) \cup {Plain("Reject")}
         /\ \A m : m # "INVITE" => (Flies(net'[e], m) <=> Flies(net[e], m))
         /\ \A k : Flies(net'[Peer(e)], k) <=> Flies(net[Peer(e)], k) \/ k = "Reject"
<1> DEFINE r == Plain("Reject")
<1>1. r \in Message /\ r.method = "Reject"
  BY MessageTypes DEF Directions
<1>2. Answers(e, <<r>>) /\ net[Peer(e)] \in Seq(Message)
  BY BothEnds DEF TypeOK
<1> HIDE DEF r
<1>3. <<r>> \in Seq(Message)
  BY <1>1
<1>4. net'[Peer(e)] = net[Peer(e)] \o <<r>>
  BY <1>2, <1>3, Taken
<1>5. ASSUME NEW ms \in {{"INVITE"}, {"ACK"}, {"2xx", "Reject"}}
      PROVE  Once(net'[Peer(e)], ms)
  <2>1. r.method \in ms => \A k \in ms : ~Flies(net[Peer(e)], k)
    BY <1>1, <1>5
  <2>2. Once(net[Peer(e)], ms)
    BY <1>5 DEF OnceEach
  <2>3. QED
    BY <1>1, <1>2, <1>4, <2>1, <2>2, QueueAppend
<1>6. /\ \A k : Flies(net'[Peer(e)], k) <=> Flies(net[Peer(e)], k) \/ k = "Reject"
      /\ Mail(net'[Peer(e)]) = Mail(net[Peer(e)]) \cup {r}
  BY <1>1, <1>2, <1>4, QueueAppend
<1>7. /\ \A ms \in {{"INVITE"}, {"ACK"}, {"2xx", "Reject"}} :
           Once(net'[e], ms) /\ ("INVITE" \in ms => \A m \in ms : ~Flies(net'[e], m))
      /\ Flies(net[e], "INVITE") /\ Mail(net'[e]) \subseteq Mail(net[e])
      /\ \A m : m # "INVITE" => (Flies(net'[e], m) <=> Flies(net[e], m))
  BY <1>2, <1>3, Taken DEF OnceEach
<1>8. QED
  BY <1>5, <1>6, <1>7 DEF OnceEach, r

LEMMA OfferSentMail ==
  ASSUME TypeOK, Alive, HandshakeInv, NEW e \in Ends, OfferMade(e),
         session[e].out = "Offer" /\ media[e].state = "stable",
         session[e].client = "None" /\ session[e].server = "None"
  PROVE  /\ net'[e] = net[e] /\ OnceEach(net'[Peer(e)])
         /\ Mail(net'[Peer(e)]) = Mail(net[Peer(e)]) \cup {Msg("INVITE", media[e].direction)}
         /\ Msg("INVITE", media[e].direction).method = "INVITE"
         /\ Msg("INVITE", media[e].direction).direction = media[e].direction
         /\ ~Flies(net[Peer(e)], "INVITE")
         /\ \A k : Flies(net'[Peer(e)], k) <=> Flies(net[Peer(e)], k) \/ k = "INVITE"
<1>1. /\ Open /\ Handshake(e, Peer(e)) /\ Handshake(Peer(e), e)
      /\ Doing(e) /\ OnceEach(net[e]) /\ OnceEach(net[Peer(e)])
  BY BothEnds DEF HandshakeInv, Handshake
<1>2. session[e].client = "None" /\ session[e].server = "None"
  BY <1>1, OfferSentEffect
<1>3. ~Flies(net[Peer(e)], "INVITE")
  BY ONLY <1>1, <1>2 DEF Handshake, Doing
<1>4. /\ Msg("INVITE", media[e].direction) \in Message
      /\ Msg("INVITE", media[e].direction).method = "INVITE"
      /\ Msg("INVITE", media[e].direction).direction = media[e].direction
  <2>1. media[e].direction \in Directions
    BY DEF TypeOK, Media
  <2>2. QED
    BY <2>1, MessageTypes
<1>5. Sends(e, <<Msg("INVITE", media[e].direction)>>)
  BY <1>1, OfferSentEffect
<1>6. QED
  BY <1>1, <1>3, <1>4, <1>5, MessageSent

LEMMA AnswerMadeMail ==
  ASSUME TypeOK, Alive, HandshakeInv, NEW e \in Ends, AnswerMade(e)
  PROVE  /\ net'[e] = net[e] /\ OnceEach(net'[Peer(e)])
         /\ Mail(net'[Peer(e)]) = Mail(net[Peer(e)]) \cup {Msg("2xx", media[e].answer)}
         /\ Msg("2xx", media[e].answer).method = "2xx"
         /\ Msg("2xx", media[e].answer).direction = media[e].answer
         /\ ~Flies(net[Peer(e)], "2xx") /\ ~Flies(net[Peer(e)], "Reject")
         /\ \A k : Flies(net'[Peer(e)], k) <=> Flies(net[Peer(e)], k) \/ k = "2xx"
<1>1. /\ Open /\ Handshake(e, Peer(e)) /\ Handshake(Peer(e), e)
      /\ Doing(e) /\ OnceEach(net[e]) /\ OnceEach(net[Peer(e)])
  BY BothEnds DEF HandshakeInv, Handshake
<1>2. session[e].in = "Answer"
  BY <1>1, AnswerMadeEffect
<1>3. ~Flies(net[Peer(e)], "2xx") /\ ~Flies(net[Peer(e)], "Reject")
  BY ONLY <1>1, <1>2 DEF Handshake, Doing
<1>4. Msg("2xx", media[e].answer) \in Message /\ Msg("2xx", media[e].answer).method = "2xx"
      /\ Msg("2xx", media[e].answer).direction = media[e].answer
  <2>1. media[e].answer \in Directions
    BY DEF TypeOK, Media
  <2>2. QED
    BY <2>1, MessageTypes
<1>5. Sends(e, <<Msg("2xx", media[e].answer)>>)
  BY <1>1, AnswerMadeEffect
<1>6. QED
  BY <1>1, <1>3, <1>4, <1>5, MessageSent

LEMMA OfferNotSetMail ==
  ASSUME TypeOK, Alive, HandshakeInv, NEW e \in Ends, OfferNotSet(e)
  PROVE  /\ net'[e] = net[e] /\ OnceEach(net'[Peer(e)])
         /\ Mail(net'[Peer(e)]) = Mail(net[Peer(e)]) \cup {Plain("Reject")}
         /\ Plain("Reject").method = "Reject"
         /\ ~Flies(net[Peer(e)], "2xx") /\ ~Flies(net[Peer(e)], "Reject")
         /\ \A k : Flies(net'[Peer(e)], k) <=> Flies(net[Peer(e)], k) \/ k = "Reject"
<1>1. /\ Open /\ Handshake(e, Peer(e)) /\ Handshake(Peer(e), e)
      /\ Doing(e) /\ OnceEach(net[e]) /\ OnceEach(net[Peer(e)])
  BY BothEnds DEF HandshakeInv, Handshake
<1>2. session[e].in \in {"SetAsAnswer", "Superseded"}
  BY <1>1, OfferNotSetEffect
<1>3. ~Flies(net[Peer(e)], "2xx") /\ ~Flies(net[Peer(e)], "Reject")
  BY ONLY <1>1, <1>2 DEF Handshake, Doing
<1>4. Plain("Reject") \in Message /\ Plain("Reject").method = "Reject"
  BY MessageTypes DEF Directions
<1>5. Sends(e, <<Plain("Reject")>>)
  BY <1>1, OfferNotSetEffect
<1>6. QED
  BY <1>1, <1>3, <1>4, <1>5, MessageSent

LEMMA AnswerAppliedMail ==
  ASSUME TypeOK, Alive, HandshakeInv, NEW e \in Ends, AnswerApplied(e)
  PROVE  /\ net'[e] = net[e] /\ OnceEach(net'[Peer(e)])
         /\ Mail(net'[Peer(e)]) = Mail(net[Peer(e)]) \cup {Plain("ACK")}
         /\ Plain("ACK").method = "ACK"
         /\ ~Flies(net[Peer(e)], "ACK")
         /\ \A k : Flies(net'[Peer(e)], k) <=> Flies(net[Peer(e)], k) \/ k = "ACK"
<1>1. /\ Open /\ Handshake(e, Peer(e)) /\ Handshake(Peer(e), e)
      /\ Doing(e) /\ OnceEach(net[e]) /\ OnceEach(net[Peer(e)])
  BY BothEnds DEF HandshakeInv, Handshake
<1>2. session[e].out = "Apply"
  BY <1>1, AnswerAppliedEffect
<1>3. ~Flies(net[Peer(e)], "ACK")
  BY ONLY <1>1, <1>2 DEF Handshake, Doing
<1>4. Plain("ACK") \in Message /\ Plain("ACK").method = "ACK"
  BY MessageTypes DEF Directions
<1>5. Sends(e, <<Plain("ACK")>>)
  BY <1>1, AnswerAppliedEffect
<1>6. QED
  BY <1>1, <1>3, <1>4, <1>5, MessageSent

LEMMA InviteRefusedMail ==
  ASSUME TypeOK, Alive, HandshakeInv, NEW e \in Ends, ReceiveInvite(e),
         session[e].server # "None" \/ session[e].client # "None"
  PROVE  /\ OnceEach(net'[e]) /\ OnceEach(net'[Peer(e)])
         /\ Mail(net'[e]) \subseteq Mail(net[e])
         /\ Mail(net'[Peer(e)]) = Mail(net[Peer(e)]) \cup {Plain("Reject")}
         /\ Plain("Reject").method = "Reject"
         /\ Flies(net[e], "INVITE") /\ ~Flies(net'[e], "INVITE")
         /\ \A m : m # "INVITE" => (Flies(net'[e], m) <=> Flies(net[e], m))
         /\ \A k : Flies(net'[Peer(e)], k) <=> Flies(net[Peer(e)], k) \/ k = "Reject"
<1>1. /\ Open /\ Handshake(e, Peer(e)) /\ Handshake(Peer(e), e)
      /\ Doing(e) /\ OnceEach(net[e]) /\ OnceEach(net[Peer(e)])
  BY BothEnds DEF HandshakeInv, Handshake
<1>2. Takes(e, "INVITE") /\ Answers(e, <<Plain("Reject")>>)
  BY <1>1, InviteRefusedEffect
<1>3. ~Flies(net[Peer(e)], "2xx") /\ ~Flies(net[Peer(e)], "Reject")
  BY <1>1, <1>2, TakesFlies DEF Handshake
<1>4. Plain("Reject").method = "Reject"
  BY MessageTypes DEF Directions
<1>5. QED
  BY <1>1, <1>2, <1>3, <1>4, InviteRejected

LEMMA InviteTakenMail ==
  ASSUME TypeOK, Alive, HandshakeInv, NEW e \in Ends, ReceiveInvite(e),
         session[e].server = "None" /\ session[e].client = "None"
  PROVE  /\ net'[Peer(e)] = net[Peer(e)] /\ OnceEach(net'[e])
         /\ Flies(net[e], "INVITE")
         /\ ~Flies(net'[e], "INVITE")
         /\ Head(net[e]) \in Mail(net[e]) /\ Head(net[e]).method = "INVITE"
         /\ Mail(net'[e]) \subseteq Mail(net[e])
         /\ \A m : m # "INVITE" => (Flies(net'[e], m) <=> Flies(net[e], m))
<1>1. /\ Open /\ Handshake(e, Peer(e)) /\ Handshake(Peer(e), e)
      /\ Doing(e) /\ OnceEach(net[e]) /\ OnceEach(net[Peer(e)])
  BY BothEnds DEF HandshakeInv, Handshake
<1>2. Takes(e, "INVITE") /\ Answers(e, << >>)
  BY <1>1, InviteTakenEffect
<1>3. QED
  BY <1>1, <1>2, MessageTaken

LEMMA ReceiveAcceptMail ==
  ASSUME TypeOK, Alive, HandshakeInv, NEW e \in Ends, ReceiveAccept(e)
  PROVE  /\ net'[Peer(e)] = net[Peer(e)] /\ OnceEach(net'[e])
         /\ Flies(net[e], "2xx")
         /\ ~Flies(net'[e], "2xx") /\ ~Flies(net'[e], "Reject")
         /\ Head(net[e]) \in Mail(net[e]) /\ Head(net[e]).method = "2xx"
         /\ Mail(net'[e]) \subseteq Mail(net[e])
         /\ \A m : m # "2xx" => (Flies(net'[e], m) <=> Flies(net[e], m))
<1>1. /\ Open /\ Handshake(e, Peer(e)) /\ Handshake(Peer(e), e)
      /\ Doing(e) /\ OnceEach(net[e]) /\ OnceEach(net[Peer(e)])
  BY BothEnds DEF HandshakeInv, Handshake
<1>2. Takes(e, "2xx") /\ Answers(e, << >>)
  BY <1>1, ReceiveAcceptEffect
<1>3. QED
  BY <1>1, <1>2, MessageTaken

LEMMA ReceiveRejectMail ==
  ASSUME TypeOK, Alive, HandshakeInv, NEW e \in Ends, ReceiveReject(e)
  PROVE  /\ net'[Peer(e)] = net[Peer(e)] /\ OnceEach(net'[e])
         /\ Flies(net[e], "Reject")
         /\ ~Flies(net'[e], "2xx") /\ ~Flies(net'[e], "Reject")
         /\ Head(net[e]) \in Mail(net[e]) /\ Head(net[e]).method = "Reject"
         /\ Mail(net'[e]) \subseteq Mail(net[e])
         /\ \A m : m # "Reject" => (Flies(net'[e], m) <=> Flies(net[e], m))
<1>1. /\ Open /\ Handshake(e, Peer(e)) /\ Handshake(Peer(e), e)
      /\ Doing(e) /\ OnceEach(net[e]) /\ OnceEach(net[Peer(e)])
  BY BothEnds DEF HandshakeInv, Handshake
<1>2. Takes(e, "Reject") /\ Answers(e, << >>)
  BY <1>1, ReceiveRejectEffect
<1>3. QED
  BY <1>1, <1>2, MessageTaken

LEMMA ReceiveAckMail ==
  ASSUME TypeOK, Alive, HandshakeInv, NEW e \in Ends, ReceiveAck(e)
  PROVE  /\ net'[Peer(e)] = net[Peer(e)] /\ OnceEach(net'[e])
         /\ Flies(net[e], "ACK")
         /\ ~Flies(net'[e], "ACK")
         /\ Head(net[e]) \in Mail(net[e]) /\ Head(net[e]).method = "ACK"
         /\ Mail(net'[e]) \subseteq Mail(net[e])
         /\ \A m : m # "ACK" => (Flies(net'[e], m) <=> Flies(net[e], m))
<1>1. /\ Open /\ Handshake(e, Peer(e)) /\ Handshake(Peer(e), e)
      /\ Doing(e) /\ OnceEach(net[e]) /\ OnceEach(net[Peer(e)])
  BY BothEnds DEF HandshakeInv, Handshake
<1>2. Takes(e, "ACK") /\ Answers(e, << >>)
  BY <1>1, ReceiveAckEffect
<1>3. QED
  BY <1>1, <1>2, MessageTaken

LEMMA HandshakeMove ==
  ASSUME TypeOK, Alive, HandshakeInv, NEW e \in Ends, NEW p \in Ends, p = Peer(e), Moves(e)
  PROVE  Open' /\ Handshake(e, p)' /\ Handshake(p, e)' /\ Doing(e)' /\ Doing(p)'
<1>1. /\ Open /\ Handshake(e, p) /\ Handshake(p, e) /\ Doing(e) /\ Doing(p)
      /\ OnceEach(net[e]) /\ OnceEach(net[p])
  BY BothEnds DEF HandshakeInv, Handshake
<1>2. /\ session[e].signaling # "Closed" /\ media[e].state # "closed"
      /\ session[p].signaling # "Closed" /\ media[p].state # "closed"
  BY <1>1 DEF Open
<1>3. ASSUME session'[e].signaling # "Closed", media'[e].state # "closed",
             session'[p] = session[p], media'[p] = media[p]
      PROVE  Open'
  BY <1>2, <1>3, BothEnds DEF Open
<1>4. /\ session[e].out \in {"None", "Offer", "Stale", "Answer", "Apply"}
      /\ session[e].in \in {"None", "SetOffer", "SetAsAnswer", "Answer", "Superseded"}
  BY DEF TypeOK, Session
<1>5. ASSUME NEW hold \in BOOLEAN, SetHold(e, hold)
      PROVE  Open' /\ Handshake(e, p)' /\ Handshake(p, e)' /\ Doing(e)' /\ Doing(p)'
  <2>1. /\ ~session[e].pendingReinvite
        /\ media[e].state = "stable"
        /\ session'[e].client = session[e].client
        /\ session'[e].server = session[e].server
        /\ session'[e].signaling = session[e].signaling
        /\ session'[e].out = "Offer"
        /\ session'[e].in = session[e].in
        /\ session'[e].pendingReinvite = TRUE
        /\ media'[e].state = media[e].state
        /\ session'[p] = session[p] /\ media'[p] = media[p]
        /\ net' = net
    BY <1>1, <1>5, SetHoldEffect
  <2>2. Open'
    BY <1>2, <1>3, <2>1 DEF Reaches, Restored
  <2>3. Handshake(e, p)' /\ Handshake(p, e)' /\ Doing(e)' /\ Doing(p)'
    BY ONLY <1>1, <1>2, <1>4, <2>1 DEF Handshake, Doing, Reaches, Restored
  <2>4. QED
    BY <2>2, <2>3
<1>6. ASSUME NEW hold \in BOOLEAN, SetHoldAnswering(e, hold)
      PROVE  Open' /\ Handshake(e, p)' /\ Handshake(p, e)' /\ Doing(e)' /\ Doing(p)'
  <2>1. /\ ~session[e].pendingReinvite
        /\ media[e].state = "have-remote-offer"
        /\ session'[e].client = session[e].client
        /\ session'[e].server = session[e].server
        /\ session'[e].signaling = session[e].signaling
        /\ session'[e].out = "Answer"
        /\ session'[e].in = session[e].in
        /\ session'[e].pendingReinvite = TRUE
        /\ media'[e].state = media[e].state
        /\ session'[p] = session[p] /\ media'[p] = media[p]
        /\ net' = net
    BY <1>1, <1>6, SetHoldAnsweringEffect
  <2>2. Open'
    BY <1>2, <1>3, <2>1 DEF Reaches, Restored
  <2>3. Handshake(e, p)' /\ Handshake(p, e)' /\ Doing(e)' /\ Doing(p)'
    BY ONLY <1>1, <1>2, <1>4, <2>1 DEF Handshake, Doing, Reaches, Restored
  <2>4. QED
    BY <2>2, <2>3
<1>7. ASSUME NEW hold \in BOOLEAN, SetHoldRefused(e, hold)
      PROVE  Open' /\ Handshake(e, p)' /\ Handshake(p, e)' /\ Doing(e)' /\ Doing(p)'
  <2>1. /\ session'[e].client = session[e].client
        /\ session'[e].server = session[e].server
        /\ session'[e].signaling = session[e].signaling
        /\ session'[e].out = session[e].out
        /\ session'[e].in = session[e].in
        /\ session'[e].pendingReinvite = session[e].pendingReinvite
        /\ media'[e].state = media[e].state
        /\ session'[p] = session[p] /\ media'[p] = media[p]
        /\ net' = net
    BY <1>1, <1>7, SetHoldRefusedEffect
  <2>2. Open'
    BY <1>2, <1>3, <2>1 DEF Reaches, Restored
  <2>3. Handshake(e, p)' /\ Handshake(p, e)' /\ Doing(e)' /\ Doing(p)'
    BY ONLY <1>1, <1>2, <1>4, <2>1 DEF Handshake, Doing, Reaches, Restored
  <2>4. QED
    BY <2>2, <2>3
<1>8. ASSUME OfferMade(e),
             session[e].out = "Offer" /\ media[e].state = "stable",
             session[e].client = "None" /\ session[e].server = "None"
      PROVE  Open' /\ Handshake(e, p)' /\ Handshake(p, e)' /\ Doing(e)' /\ Doing(p)'
  <2>1. /\ session[e].out = "Offer" /\ media[e].state = "stable"
        /\ session[e].client = "None" /\ session[e].server = "None"
        /\ session'[e].client = "Calling"
        /\ session'[e].server = session[e].server
        /\ session'[e].signaling = Reaches(session[e].signaling, "Stable", "HaveLocalOffer")
        /\ session'[e].out = "None"
        /\ session'[e].in = session[e].in
        /\ session'[e].pendingReinvite = TRUE
        /\ media'[e].state = "have-local-offer"
        /\ session'[p] = session[p] /\ media'[p] = media[p]
    BY <1>1, <1>8, OfferSentEffect
  <2>2. /\ net'[e] = net[e] /\ OnceEach(net'[p])
        /\ ~Flies(net[p], "INVITE")
        /\ \A k : Flies(net'[p], k) <=> Flies(net[p], k) \/ k = "INVITE"
    BY <1>8, OfferSentMail
  <2>3. Open'
    BY <1>2, <1>3, <2>1 DEF Reaches, Restored
  <2>4. Handshake(e, p)' /\ Handshake(p, e)' /\ Doing(e)' /\ Doing(p)'
    BY ONLY <1>1, <1>2, <1>4, <2>1, <2>2 DEF Handshake, Doing, Reaches, Restored
  <2>5. QED
    BY <2>3, <2>4
<1>9. ASSUME OfferMade(e),
             ~(session[e].out = "Offer" /\ media[e].state = "stable")
               \/ ~(session[e].client = "None" /\ session[e].server = "None")
      PROVE  Open' /\ Handshake(e, p)' /\ Handshake(p, e)' /\ Doing(e)' /\ Doing(p)'
  <2>1. /\ \/ media'[e].state = media[e].state
           \/ media[e].state = "stable" /\ media'[e].state = "have-local-offer"
        /\ session[e].out \in {"Offer", "Stale", "Answer"}
        /\ \/ ~(session[e].out = "Offer" /\ media[e].state = "stable")
           \/ ~(session[e].client = "None" /\ session[e].server = "None")
        /\ session'[e].client = session[e].client
        /\ session'[e].server = session[e].server
        /\ session'[e].signaling = session[e].signaling
        /\ session'[e].out = "None"
        /\ session'[e].in = session[e].in
        /\ session'[e].pendingReinvite = FALSE
        /\ session'[p] = session[p] /\ media'[p] = media[p]
        /\ net' = net
    BY <1>1, <1>9, OfferLostEffect
  <2>2. Open'
    BY <1>2, <1>3, <2>1 DEF Reaches, Restored
  <2>3. Handshake(e, p)' /\ Handshake(p, e)' /\ Doing(e)' /\ Doing(p)'
    BY ONLY <1>1, <1>2, <1>4, <2>1 DEF Handshake, Doing, Reaches, Restored
  <2>4. QED
    BY <2>2, <2>3
<1>10. ASSUME OfferSet(e)
      PROVE  Open' /\ Handshake(e, p)' /\ Handshake(p, e)' /\ Doing(e)' /\ Doing(p)'
  <2>1. /\ session[e].in = "SetOffer"
        /\ session'[e].client = session[e].client
        /\ session'[e].server = session[e].server
        /\ session'[e].signaling = session[e].signaling
        /\ session'[e].out = session[e].out
        /\ session'[e].in = "Answer"
        /\ session'[e].pendingReinvite = session[e].pendingReinvite
        /\ media'[e].state = "have-remote-offer"
        /\ session'[p] = session[p] /\ media'[p] = media[p]
        /\ net' = net
    BY <1>1, <1>10, OfferSetEffect
  <2>2. Open'
    BY <1>2, <1>3, <2>1 DEF Reaches, Restored
  <2>3. Handshake(e, p)' /\ Handshake(p, e)' /\ Doing(e)' /\ Doing(p)'
    BY ONLY <1>1, <1>2, <1>4, <2>1 DEF Handshake, Doing, Reaches, Restored
  <2>4. QED
    BY <2>2, <2>3
<1>11. ASSUME AnswerMade(e)
      PROVE  Open' /\ Handshake(e, p)' /\ Handshake(p, e)' /\ Doing(e)' /\ Doing(p)'
  <2>1. /\ session[e].in = "Answer"
        /\ session'[e].client = session[e].client
        /\ session'[e].server = "Accepted"
        /\ session'[e].signaling = Reaches(session[e].signaling, "HaveRemoteOffer", "Stable")
        /\ session'[e].out = IF session[e].out = "None" THEN "None" ELSE "Stale"
        /\ session'[e].in = "None"
        /\ session'[e].pendingReinvite = session[e].pendingReinvite
        /\ media'[e].state = "stable"
        /\ session'[p] = session[p] /\ media'[p] = media[p]
    BY <1>1, <1>11, AnswerMadeEffect
  <2>2. /\ net'[e] = net[e] /\ OnceEach(net'[p])
        /\ ~Flies(net[p], "2xx") /\ ~Flies(net[p], "Reject")
        /\ \A k : Flies(net'[p], k) <=> Flies(net[p], k) \/ k = "2xx"
    BY <1>11, AnswerMadeMail
  <2>3. Open'
    BY <1>2, <1>3, <2>1 DEF Reaches, Restored
  <2>4. Handshake(e, p)' /\ Handshake(p, e)' /\ Doing(e)' /\ Doing(p)'
    BY ONLY <1>1, <1>2, <1>4, <2>1, <2>2 DEF Handshake, Doing, Reaches, Restored
  <2>5. QED
    BY <2>3, <2>4
<1>12. ASSUME OwnAnswerMade(e)
      PROVE  Open' /\ Handshake(e, p)' /\ Handshake(p, e)' /\ Doing(e)' /\ Doing(p)'
  <2>1. /\ session[e].out = "Answer"
        /\ session'[e].client = session[e].client
        /\ session'[e].server = session[e].server
        /\ session'[e].signaling = session[e].signaling
        /\ session'[e].out = "None"
        /\ session'[e].in = "Superseded"
        /\ session'[e].pendingReinvite = FALSE
        /\ media'[e].state = "stable"
        /\ session'[p] = session[p] /\ media'[p] = media[p]
        /\ net' = net
    BY <1>1, <1>12, OwnAnswerMadeEffect
  <2>2. Open'
    BY <1>2, <1>3, <2>1 DEF Reaches, Restored
  <2>3. Handshake(e, p)' /\ Handshake(p, e)' /\ Doing(e)' /\ Doing(p)'
    BY ONLY <1>1, <1>2, <1>4, <2>1 DEF Handshake, Doing, Reaches, Restored
  <2>4. QED
    BY <2>2, <2>3
<1>13. ASSUME OfferNotSet(e)
      PROVE  Open' /\ Handshake(e, p)' /\ Handshake(p, e)' /\ Doing(e)' /\ Doing(p)'
  <2>1. /\ session[e].in \in {"SetAsAnswer", "Superseded"}
        /\ session'[e].client = session[e].client
        /\ session'[e].server = "None"
        /\ session'[e].signaling = Restored(session[e].signaling)
        /\ session'[e].out = session[e].out
        /\ session'[e].in = "None"
        /\ session'[e].pendingReinvite = session[e].pendingReinvite
        /\ media'[e].state = media[e].state
        /\ session'[p] = session[p] /\ media'[p] = media[p]
    BY <1>1, <1>13, OfferNotSetEffect
  <2>2. /\ net'[e] = net[e] /\ OnceEach(net'[p])
        /\ ~Flies(net[p], "2xx") /\ ~Flies(net[p], "Reject")
        /\ \A k : Flies(net'[p], k) <=> Flies(net[p], k) \/ k = "Reject"
    BY <1>13, OfferNotSetMail
  <2>3. Open'
    BY <1>2, <1>3, <2>1 DEF Reaches, Restored
  <2>4. Handshake(e, p)' /\ Handshake(p, e)' /\ Doing(e)' /\ Doing(p)'
    BY ONLY <1>1, <1>2, <1>4, <2>1, <2>2 DEF Handshake, Doing, Reaches, Restored
  <2>5. QED
    BY <2>3, <2>4
<1>14. ASSUME AnswerApplied(e)
      PROVE  Open' /\ Handshake(e, p)' /\ Handshake(p, e)' /\ Doing(e)' /\ Doing(p)'
  <2>1. /\ session[e].out = "Apply"
        /\ session'[e].client = "None"
        /\ session'[e].server = session[e].server
        /\ session'[e].signaling = session[e].signaling
        /\ session'[e].out = "None"
        /\ session'[e].in = session[e].in
        /\ session'[e].pendingReinvite = FALSE
        /\ media'[e].state = "stable"
        /\ session'[p] = session[p] /\ media'[p] = media[p]
    BY <1>1, <1>14, AnswerAppliedEffect
  <2>2. /\ net'[e] = net[e] /\ OnceEach(net'[p])
        /\ ~Flies(net[p], "ACK")
        /\ \A k : Flies(net'[p], k) <=> Flies(net[p], k) \/ k = "ACK"
    BY <1>14, AnswerAppliedMail
  <2>3. Open'
    BY <1>2, <1>3, <2>1 DEF Reaches, Restored
  <2>4. Handshake(e, p)' /\ Handshake(p, e)' /\ Doing(e)' /\ Doing(p)'
    BY ONLY <1>1, <1>2, <1>4, <2>1, <2>2 DEF Handshake, Doing, Reaches, Restored
  <2>5. QED
    BY <2>3, <2>4
<1>15. ASSUME ReceiveInvite(e), session[e].server # "None" \/ session[e].client # "None"
      PROVE  Open' /\ Handshake(e, p)' /\ Handshake(p, e)' /\ Doing(e)' /\ Doing(p)'
  <2>1. /\ (session[e].server # "None" \/ session[e].client # "None")
        /\ session'[e].client = session[e].client
        /\ session'[e].server = session[e].server
        /\ session'[e].signaling = session[e].signaling
        /\ session'[e].out = session[e].out
        /\ session'[e].in = session[e].in
        /\ session'[e].pendingReinvite = session[e].pendingReinvite
        /\ media'[e].state = media[e].state
        /\ session'[p] = session[p] /\ media'[p] = media[p]
    BY <1>1, <1>15, InviteRefusedEffect
  <2>2. /\ OnceEach(net'[e]) /\ OnceEach(net'[p])
        /\ Flies(net[e], "INVITE") /\ ~Flies(net'[e], "INVITE")
        /\ \A m : m # "INVITE" => (Flies(net'[e], m) <=> Flies(net[e], m))
        /\ \A k : Flies(net'[p], k) <=> Flies(net[p], k) \/ k = "Reject"
    BY <1>15, InviteRefusedMail
  <2>3. Open'
    BY <1>2, <1>3, <2>1 DEF Reaches, Restored
  <2>4. Handshake(e, p)' /\ Handshake(p, e)' /\ Doing(e)' /\ Doing(p)'
    BY ONLY <1>1, <1>2, <1>4, <2>1, <2>2 DEF Handshake, Doing, Reaches, Restored
  <2>5. QED
    BY <2>3, <2>4
<1>16. ASSUME ReceiveInvite(e), session[e].server = "None" /\ session[e].client = "None"
      PROVE  Open' /\ Handshake(e, p)' /\ Handshake(p, e)' /\ Doing(e)' /\ Doing(p)'
  <2>1. /\ session[e].server = "None" /\ session[e].client = "None"
        /\ session'[e].client = session[e].client
        /\ session'[e].server = "Proceeding"
        /\ session'[e].signaling = Reaches(session[e].signaling, "Stable", "HaveRemoteOffer")
        /\ session'[e].out = session[e].out
        /\ session'[e].in = IF media[e].state = "have-local-offer"
                            THEN "SetAsAnswer" ELSE "SetOffer"
        /\ session'[e].pendingReinvite = session[e].pendingReinvite
        /\ media'[e].state = media[e].state
        /\ session'[p] = session[p] /\ media'[p] = media[p]
    BY <1>1, <1>16, InviteTakenEffect
  <2>2. /\ net'[p] = net[p] /\ OnceEach(net'[e])
        /\ Flies(net[e], "INVITE")
        /\ ~Flies(net'[e], "INVITE")
        /\ \A m : m # "INVITE" => (Flies(net'[e], m) <=> Flies(net[e], m))
    BY <1>16, InviteTakenMail
  <2>3. Open'
    BY <1>2, <1>3, <2>1 DEF Reaches, Restored
  <2>4. Handshake(e, p)' /\ Handshake(p, e)' /\ Doing(e)' /\ Doing(p)'
    BY ONLY <1>1, <1>2, <1>4, <2>1, <2>2 DEF Handshake, Doing, Reaches, Restored
  <2>5. QED
    BY <2>3, <2>4
<1>17. ASSUME ReceiveAccept(e)
      PROVE  Open' /\ Handshake(e, p)' /\ Handshake(p, e)' /\ Doing(e)' /\ Doing(p)'
  <2>1. /\ session'[e].client = "Accepted"
        /\ session'[e].server = session[e].server
        /\ session'[e].signaling = Reaches(session[e].signaling, "HaveLocalOffer", "Stable")
        /\ session'[e].out = "Apply"
        /\ session'[e].in = session[e].in
        /\ session'[e].pendingReinvite = session[e].pendingReinvite
        /\ media'[e].state = media[e].state
        /\ session'[p] = session[p] /\ media'[p] = media[p]
    BY <1>1, <1>17, ReceiveAcceptEffect
  <2>2. /\ net'[p] = net[p] /\ OnceEach(net'[e])
        /\ Flies(net[e], "2xx")
        /\ ~Flies(net'[e], "2xx") /\ ~Flies(net'[e], "Reject")
        /\ \A m : m # "2xx" => (Flies(net'[e], m) <=> Flies(net[e], m))
    BY <1>17, ReceiveAcceptMail
  <2>3. Open'
    BY <1>2, <1>3, <2>1 DEF Reaches, Restored
  <2>4. Handshake(e, p)' /\ Handshake(p, e)' /\ Doing(e)' /\ Doing(p)'
    BY ONLY <1>1, <1>2, <1>4, <2>1, <2>2 DEF Handshake, Doing, Reaches, Restored
  <2>5. QED
    BY <2>3, <2>4
<1>18. ASSUME ReceiveReject(e)
      PROVE  Open' /\ Handshake(e, p)' /\ Handshake(p, e)' /\ Doing(e)' /\ Doing(p)'
  <2>1. /\ session'[e].client = "None"
        /\ session'[e].server = session[e].server
        /\ session'[e].signaling = Restored(session[e].signaling)
        /\ session'[e].out = session[e].out
        /\ session'[e].in = session[e].in
        /\ session'[e].pendingReinvite = FALSE
        /\ media'[e].state = media[e].state
        /\ session'[p] = session[p] /\ media'[p] = media[p]
    BY <1>1, <1>18, ReceiveRejectEffect
  <2>2. /\ net'[p] = net[p] /\ OnceEach(net'[e])
        /\ Flies(net[e], "Reject")
        /\ ~Flies(net'[e], "2xx") /\ ~Flies(net'[e], "Reject")
        /\ \A m : m # "Reject" => (Flies(net'[e], m) <=> Flies(net[e], m))
    BY <1>18, ReceiveRejectMail
  <2>3. Open'
    BY <1>2, <1>3, <2>1 DEF Reaches, Restored
  <2>4. Handshake(e, p)' /\ Handshake(p, e)' /\ Doing(e)' /\ Doing(p)'
    BY ONLY <1>1, <1>2, <1>4, <2>1, <2>2 DEF Handshake, Doing, Reaches, Restored
  <2>5. QED
    BY <2>3, <2>4
<1>19. ASSUME ReceiveAck(e)
      PROVE  Open' /\ Handshake(e, p)' /\ Handshake(p, e)' /\ Doing(e)' /\ Doing(p)'
  <2>1. /\ session'[e].client = session[e].client
        /\ session'[e].server = "None"
        /\ session'[e].signaling = session[e].signaling
        /\ session'[e].out = session[e].out
        /\ session'[e].in = session[e].in
        /\ session'[e].pendingReinvite = session[e].pendingReinvite
        /\ media'[e].state = media[e].state
        /\ session'[p] = session[p] /\ media'[p] = media[p]
    BY <1>1, <1>19, ReceiveAckEffect
  <2>2. /\ net'[p] = net[p] /\ OnceEach(net'[e])
        /\ Flies(net[e], "ACK")
        /\ ~Flies(net'[e], "ACK")
        /\ \A m : m # "ACK" => (Flies(net'[e], m) <=> Flies(net[e], m))
    BY <1>19, ReceiveAckMail
  <2>3. Open'
    BY <1>2, <1>3, <2>1 DEF Reaches, Restored
  <2>4. Handshake(e, p)' /\ Handshake(p, e)' /\ Doing(e)' /\ Doing(p)'
    BY ONLY <1>1, <1>2, <1>4, <2>1, <2>2 DEF Handshake, Doing, Reaches, Restored
  <2>5. QED
    BY <2>3, <2>4
<1>20. QED
  BY Zenon, <1>5, <1>6, <1>7, <1>8, <1>9, <1>10, <1>11, <1>12, <1>13, <1>14, <1>15,
     <1>16, <1>17, <1>18, <1>19 DEF Moves, Click

LEMMA EmptyQueue ==
  ASSUME NEW q, q = << >>
  PROVE  Mail(q) = {} /\ (\A k : ~Flies(q, k)) /\ (\A ms : Once(q, ms))
<1>1. Len(q) = 0 /\ 1 .. 0 = {}
  OBVIOUS
<1>2. QED
  BY <1>1 DEF Mail, Flies, Once

LEMMA HandshakeInit == Init => HandshakeInv
<1> SUFFICES ASSUME Init PROVE HandshakeInv
  OBVIOUS
<1>1. \A e \in Ends :
        /\ session[e].state = "Established" /\ ~session[e].pendingReinvite
        /\ session[e].client = "None" /\ session[e].server = "None"
        /\ session[e].signaling = "Stable"
        /\ session[e].out = "None" /\ session[e].in = "None"
        /\ media[e].state = "stable" /\ net[e] = << >>
  BY DEF Init
<1>2. \A e \in Ends : (\A k : ~Flies(net[e], k)) /\ OnceEach(net[e])
  BY <1>1, EmptyQueue DEF OnceEach
<1>3. QED
  BY <1>1, <1>2, BothEnds DEF HandshakeInv, Open, Handshake, Doing

LEMMA HandshakeStep == TypeOK /\ HandshakeInv /\ [Next]_vars => HandshakeInv'
<1> SUFFICES ASSUME TypeOK, HandshakeInv, [Next]_vars PROVE HandshakeInv'
  OBVIOUS
<1>1. CASE UNCHANGED vars
  BY <1>1 DEF vars, HandshakeInv, Alive, Open, Handshake, Doing
<1>2. CASE Next /\ Alive'
  <2>1. PICK e \in Ends : Alive /\ Moves(e)
    BY <1>2, StillAlive
  <2> DEFINE p == Peer(e)
  <2>2. p \in Ends /\ Peer(p) = e /\ \A x \in Ends : x = e \/ x = p
    BY BothEnds
  <2>3. Open' /\ Handshake(e, p)' /\ Handshake(p, e)' /\ Doing(e)' /\ Doing(p)'
    BY <2>1, <2>2, HandshakeMove
  <2> HIDE DEF p
  <2>4. \A x \in Ends : Handshake(x, Peer(x))' /\ Doing(x)'
    BY <2>2, <2>3 DEF p
  <2>5. QED
    BY <2>3, <2>4 DEF HandshakeInv
<1>3. CASE ~Alive'
  BY <1>3 DEF HandshakeInv
<1>4. QED
  BY <1>1, <1>2, <1>3

LEMMA HandshakeCorrect == Spec => [](TypeOK /\ HandshakeInv)
<1>1. Init => TypeOK /\ HandshakeInv
  BY TypeInit, HandshakeInit
<1>2. TypeOK /\ HandshakeInv /\ [Next]_vars => (TypeOK /\ HandshakeInv)'
  BY TypeStep, HandshakeStep
<1>3. QED
  BY <1>1, <1>2, PTL DEF Spec

LEMMA SettledFacts ==
  ASSUME Settled
  PROVE  /\ Alive
         /\ \A e \in Ends : /\ net[e] = << >> /\ Mail(net[e]) = {}
                            /\ \A k : ~Flies(net[e], k)
<1>1. \A e \in Ends : net[e] = << >>
  BY DEF Settled
<1>2. QED
  BY <1>1, EmptyQueue DEF Settled, Alive

(* Whoever held, resumed or collided, and however the promises about the   *)
(* offers and the answers were interleaved with the messages, once nothing *)
(* is on its way no end waits for a re-INVITE or believes to answer one.   *)
THEOREM NoReinviteHalfOpen == Spec => []NothingHalfOpen
<1>1. TypeOK /\ HandshakeInv => NothingHalfOpen
  <2> SUFFICES ASSUME TypeOK, HandshakeInv, Settled, NEW e \in Ends
               PROVE  /\ session[e].client = "None" /\ session[e].server = "None"
                      /\ session[e].signaling = "Stable" /\ ~session[e].pendingReinvite
    BY DEF NothingHalfOpen
  <2> DEFINE p == Peer(e)
  <2>1. p \in Ends /\ Peer(p) = e
    BY BothEnds
  <2> HIDE DEF p
  <2>2. /\ session[e].client \in {"None", "Calling", "Accepted"}
        /\ session[e].server \in {"None", "Proceeding", "Accepted"}
        /\ session[p].client \in {"None", "Calling", "Accepted"}
    BY <2>1 DEF TypeOK, Session
  <2>3. Handshake(e, p) /\ Handshake(p, e) /\ Doing(e) /\ Doing(p)
    BY <2>1, SettledFacts DEF HandshakeInv, p
  <2>4. \A k : ~Flies(net[e], k) /\ ~Flies(net[p], k)
    BY <2>1, SettledFacts
  <2>5. /\ session[e].out = "None" /\ session[e].in = "None"
        /\ session[p].out = "None" /\ session[p].in = "None"
    BY <2>1 DEF Settled
  <2>6. QED
    BY ONLY <2>2, <2>3, <2>4, <2>5 DEF Handshake, Doing
<1>2. QED
  BY <1>1, HandshakeCorrect, PTL

-----------------------------------------------------------------------------
(* The two ends agree about the audio.                                     *)

LEMMA AgreeMove ==
  ASSUME TypeOK, Alive, HandshakeInv, NEW e \in Ends, NEW p \in Ends, p = Peer(e),
         Moves(e), "superseded" \notin mishaps', Agreeing(e, p), Agreeing(p, e)
  PROVE  Agreeing(e, p)' /\ Agreeing(p, e)'
<1>1. Open /\ Handshake(e, p) /\ Handshake(p, e) /\ Doing(e) /\ Doing(p)
  BY BothEnds DEF HandshakeInv
<1>2. /\ media[e].current \in Directions /\ media[p].current \in Directions
      /\ media[e].answer \in Directions /\ media[e].remote \in Directions
  BY DEF TypeOK, Media
<1>3. \A d \in Directions : Reverse(Reverse(d)) = d
  BY DirectionTypes
<1>4. session[e].out \in {"None", "Offer", "Stale", "Answer", "Apply"}
  BY DEF TypeOK, Session
<1>5. ASSUME NEW hold \in BOOLEAN, SetHold(e, hold)
      PROVE  Agreeing(e, p)' /\ Agreeing(p, e)'
  <2>1. /\ session'[e].client = session[e].client
        /\ media'[e].current = media[e].current
        /\ media'[e].remote = media[e].remote
        /\ session'[p] = session[p] /\ media'[p] = media[p]
        /\ net' = net
    BY <1>1, <1>5, SetHoldEffect
  <2>2. QED
    BY ONLY <1>1, <1>2, <1>3, <1>4, <2>1, Agreeing(e, p), Agreeing(p, e)
       DEF Agreeing, Answered, Handshake, Doing
<1>6. ASSUME NEW hold \in BOOLEAN, SetHoldAnswering(e, hold)
      PROVE  Agreeing(e, p)' /\ Agreeing(p, e)'
  <2>1. /\ session'[e].client = session[e].client
        /\ media'[e].current = media[e].current
        /\ media'[e].remote = media[e].remote
        /\ session'[p] = session[p] /\ media'[p] = media[p]
        /\ net' = net
    BY <1>1, <1>6, SetHoldAnsweringEffect
  <2>2. QED
    BY ONLY <1>1, <1>2, <1>3, <1>4, <2>1, Agreeing(e, p), Agreeing(p, e)
       DEF Agreeing, Answered, Handshake, Doing
<1>7. ASSUME NEW hold \in BOOLEAN, SetHoldRefused(e, hold)
      PROVE  Agreeing(e, p)' /\ Agreeing(p, e)'
  <2>1. /\ session'[e].client = session[e].client
        /\ media'[e].current = media[e].current
        /\ media'[e].remote = media[e].remote
        /\ session'[p] = session[p] /\ media'[p] = media[p]
        /\ net' = net
    BY <1>1, <1>7, SetHoldRefusedEffect
  <2>2. QED
    BY ONLY <1>1, <1>2, <1>3, <1>4, <2>1, Agreeing(e, p), Agreeing(p, e)
       DEF Agreeing, Answered, Handshake, Doing
<1>8. ASSUME OfferMade(e),
             session[e].out = "Offer" /\ media[e].state = "stable",
             session[e].client = "None" /\ session[e].server = "None"
      PROVE  Agreeing(e, p)' /\ Agreeing(p, e)'
  <2>1. /\ session[e].client = "None" /\ session[e].server = "None"
        /\ session'[e].client = "Calling"
        /\ media'[e].current = media[e].current
        /\ media'[e].remote = media[e].remote
        /\ session'[p] = session[p] /\ media'[p] = media[p]
    BY <1>1, <1>8, OfferSentEffect
  <2>2. /\ net'[e] = net[e]
        /\ Mail(net'[p]) = Mail(net[p]) \cup {Msg("INVITE", media[e].direction)}
        /\ Msg("INVITE", media[e].direction).method = "INVITE"
        /\ Msg("INVITE", media[e].direction).direction = media[e].direction
        /\ ~Flies(net[p], "INVITE")
        /\ \A k : Flies(net'[p], k) <=> Flies(net[p], k) \/ k = "INVITE"
    BY <1>8, OfferSentMail
  <2>3. QED
    BY ONLY <1>1, <1>2, <1>3, <1>4, <2>1, <2>2, Agreeing(e, p), Agreeing(p, e)
       DEF Agreeing, Answered, Handshake, Doing
<1>9. ASSUME OfferMade(e),
             ~(session[e].out = "Offer" /\ media[e].state = "stable")
               \/ ~(session[e].client = "None" /\ session[e].server = "None")
      PROVE  Agreeing(e, p)' /\ Agreeing(p, e)'
  <2>1. /\ session[e].out \in {"Offer", "Stale", "Answer"}
        /\ \/ ~(session[e].out = "Offer" /\ media[e].state = "stable")
           \/ ~(session[e].client = "None" /\ session[e].server = "None")
        /\ session'[e].client = session[e].client
        /\ media'[e].current = media[e].current
        /\ media'[e].remote = media[e].remote
        /\ session'[p] = session[p] /\ media'[p] = media[p]
        /\ net' = net
    BY <1>1, <1>9, OfferLostEffect
  <2>2. QED
    BY ONLY <1>1, <1>2, <1>3, <1>4, <2>1, Agreeing(e, p), Agreeing(p, e)
       DEF Agreeing, Answered, Handshake, Doing
<1>10. ASSUME OfferSet(e)
      PROVE  Agreeing(e, p)' /\ Agreeing(p, e)'
  <2>1. /\ session[e].in = "SetOffer"
        /\ session'[e].client = session[e].client
        /\ media'[e].current = media[e].current
        /\ media'[e].remote = media[e].remote
        /\ session'[p] = session[p] /\ media'[p] = media[p]
        /\ net' = net
    BY <1>1, <1>10, OfferSetEffect
  <2>2. QED
    BY ONLY <1>1, <1>2, <1>3, <1>4, <2>1, Agreeing(e, p), Agreeing(p, e)
       DEF Agreeing, Answered, Handshake, Doing
<1>11. ASSUME AnswerMade(e)
      PROVE  Agreeing(e, p)' /\ Agreeing(p, e)'
  <2>1. /\ session[e].in = "Answer"
        /\ session'[e].client = session[e].client
        /\ media'[e].current = media[e].answer
        /\ media'[e].remote = media[e].remote
        /\ session'[p] = session[p] /\ media'[p] = media[p]
    BY <1>1, <1>11, AnswerMadeEffect
  <2>2. /\ net'[e] = net[e]
        /\ Mail(net'[p]) = Mail(net[p]) \cup {Msg("2xx", media[e].answer)}
        /\ Msg("2xx", media[e].answer).method = "2xx"
        /\ Msg("2xx", media[e].answer).direction = media[e].answer
        /\ ~Flies(net[p], "2xx") /\ ~Flies(net[p], "Reject")
        /\ \A k : Flies(net'[p], k) <=> Flies(net[p], k) \/ k = "2xx"
    BY <1>11, AnswerMadeMail
  <2>3. \A msg \in Mail(net[p]) : msg.method # "2xx"
    BY <2>2 DEF Flies
  <2>4. QED
    BY ONLY <1>1, <1>2, <1>3, <1>4, <2>1, <2>2, <2>3, Agreeing(e, p), Agreeing(p, e)
       DEF Agreeing, Answered, Handshake, Doing
<1>12. ASSUME OwnAnswerMade(e)
      PROVE  Agreeing(e, p)' /\ Agreeing(p, e)'
  BY <1>1, <1>12, OwnAnswerMadeEffect
<1>13. ASSUME OfferNotSet(e)
      PROVE  Agreeing(e, p)' /\ Agreeing(p, e)'
  <2>1. /\ session[e].in \in {"SetAsAnswer", "Superseded"}
        /\ session'[e].client = session[e].client
        /\ media'[e].current = media[e].current
        /\ media'[e].remote = media[e].remote
        /\ session'[p] = session[p] /\ media'[p] = media[p]
    BY <1>1, <1>13, OfferNotSetEffect
  <2>2. /\ net'[e] = net[e]
        /\ Mail(net'[p]) = Mail(net[p]) \cup {Plain("Reject")}
        /\ Plain("Reject").method = "Reject"
        /\ ~Flies(net[p], "2xx") /\ ~Flies(net[p], "Reject")
        /\ \A k : Flies(net'[p], k) <=> Flies(net[p], k) \/ k = "Reject"
    BY <1>13, OfferNotSetMail
  <2>3. QED
    BY ONLY <1>1, <1>2, <1>3, <1>4, <2>1, <2>2, Agreeing(e, p), Agreeing(p, e)
       DEF Agreeing, Answered, Handshake, Doing
<1>14. ASSUME AnswerApplied(e)
      PROVE  Agreeing(e, p)' /\ Agreeing(p, e)'
  <2>1. /\ session[e].out = "Apply"
        /\ session'[e].client = "None"
        /\ media'[e].current = Reverse(media[e].remote)
        /\ media'[e].remote = media[e].remote
        /\ session'[p] = session[p] /\ media'[p] = media[p]
    BY <1>1, <1>14, AnswerAppliedEffect
  <2>2. /\ net'[e] = net[e]
        /\ Mail(net'[p]) = Mail(net[p]) \cup {Plain("ACK")}
        /\ Plain("ACK").method = "ACK"
        /\ ~Flies(net[p], "ACK")
        /\ \A k : Flies(net'[p], k) <=> Flies(net[p], k) \/ k = "ACK"
    BY <1>14, AnswerAppliedMail
  <2>3. ~Flies(net[p], "2xx") /\ session[p].client # "Accepted"
    BY ONLY <1>1, <2>1 DEF Handshake, Doing
  <2>4. \A msg \in Mail(net[p]) : msg.method # "2xx"
    BY <2>3 DEF Flies
  <2>5. QED
    BY ONLY <1>1, <1>2, <1>3, <1>4, <2>1, <2>2, <2>3, <2>4, Agreeing(e, p), Agreeing(p, e)
       DEF Agreeing, Answered, Handshake, Doing
<1>15. ASSUME ReceiveInvite(e), session[e].server # "None" \/ session[e].client # "None"
      PROVE  Agreeing(e, p)' /\ Agreeing(p, e)'
  <2>1. /\ (session[e].server # "None" \/ session[e].client # "None")
        /\ session'[e].client = session[e].client
        /\ media'[e].current = media[e].current
        /\ media'[e].remote = media[e].remote
        /\ session'[p] = session[p] /\ media'[p] = media[p]
    BY <1>1, <1>15, InviteRefusedEffect
  <2>2. /\ Mail(net'[e]) \subseteq Mail(net[e])
        /\ Mail(net'[p]) = Mail(net[p]) \cup {Plain("Reject")}
        /\ Plain("Reject").method = "Reject"
        /\ Flies(net[e], "INVITE") /\ ~Flies(net'[e], "INVITE")
        /\ \A m : m # "INVITE" => (Flies(net'[e], m) <=> Flies(net[e], m))
        /\ \A k : Flies(net'[p], k) <=> Flies(net[p], k) \/ k = "Reject"
    BY <1>15, InviteRefusedMail
  <2>3. QED
    BY ONLY <1>1, <1>2, <1>3, <1>4, <2>1, <2>2, Agreeing(e, p), Agreeing(p, e)
       DEF Agreeing, Answered, Handshake, Doing
<1>16. ASSUME ReceiveInvite(e), session[e].server = "None" /\ session[e].client = "None"
      PROVE  Agreeing(e, p)' /\ Agreeing(p, e)'
  <2>1. /\ session[e].server = "None" /\ session[e].client = "None"
        /\ session'[e].client = session[e].client
        /\ media'[e].current = media[e].current
        /\ media'[e].remote = Head(net[e]).direction
        /\ session'[p] = session[p] /\ media'[p] = media[p]
    BY <1>1, <1>16, InviteTakenEffect
  <2>2. /\ net'[p] = net[p]
        /\ Flies(net[e], "INVITE")
        /\ ~Flies(net'[e], "INVITE")
        /\ Head(net[e]) \in Mail(net[e]) /\ Head(net[e]).method = "INVITE"
        /\ Mail(net'[e]) \subseteq Mail(net[e])
        /\ \A m : m # "INVITE" => (Flies(net'[e], m) <=> Flies(net[e], m))
    BY <1>16, InviteTakenMail
  <2>3. QED
    BY ONLY <1>1, <1>2, <1>3, <1>4, <2>1, <2>2, Agreeing(e, p), Agreeing(p, e)
       DEF Agreeing, Answered, Handshake, Doing
<1>17. ASSUME ReceiveAccept(e)
      PROVE  Agreeing(e, p)' /\ Agreeing(p, e)'
  <2>1. /\ session'[e].client = "Accepted"
        /\ media'[e].current = media[e].current
        /\ media'[e].remote = Head(net[e]).direction
        /\ session'[p] = session[p] /\ media'[p] = media[p]
    BY <1>1, <1>17, ReceiveAcceptEffect
  <2>2. /\ net'[p] = net[p]
        /\ Flies(net[e], "2xx")
        /\ ~Flies(net'[e], "2xx") /\ ~Flies(net'[e], "Reject")
        /\ Head(net[e]) \in Mail(net[e]) /\ Head(net[e]).method = "2xx"
        /\ Mail(net'[e]) \subseteq Mail(net[e])
        /\ \A m : m # "2xx" => (Flies(net'[e], m) <=> Flies(net[e], m))
    BY <1>17, ReceiveAcceptMail
  <2>3. QED
    BY ONLY <1>1, <1>2, <1>3, <1>4, <2>1, <2>2, Agreeing(e, p), Agreeing(p, e)
       DEF Agreeing, Answered, Handshake, Doing
<1>18. ASSUME ReceiveReject(e)
      PROVE  Agreeing(e, p)' /\ Agreeing(p, e)'
  <2>1. /\ session'[e].client = "None"
        /\ media'[e].current = media[e].current
        /\ media'[e].remote = media[e].remote
        /\ session'[p] = session[p] /\ media'[p] = media[p]
    BY <1>1, <1>18, ReceiveRejectEffect
  <2>2. /\ net'[p] = net[p]
        /\ Flies(net[e], "Reject")
        /\ ~Flies(net'[e], "2xx") /\ ~Flies(net'[e], "Reject")
        /\ Head(net[e]) \in Mail(net[e]) /\ Head(net[e]).method = "Reject"
        /\ Mail(net'[e]) \subseteq Mail(net[e])
        /\ \A m : m # "Reject" => (Flies(net'[e], m) <=> Flies(net[e], m))
    BY <1>18, ReceiveRejectMail
  <2>3. QED
    BY ONLY <1>1, <1>2, <1>3, <1>4, <2>1, <2>2, Agreeing(e, p), Agreeing(p, e)
       DEF Agreeing, Answered, Handshake, Doing
<1>19. ASSUME ReceiveAck(e)
      PROVE  Agreeing(e, p)' /\ Agreeing(p, e)'
  <2>1. /\ session'[e].client = session[e].client
        /\ media'[e].current = media[e].current
        /\ media'[e].remote = media[e].remote
        /\ session'[p] = session[p] /\ media'[p] = media[p]
    BY <1>1, <1>19, ReceiveAckEffect
  <2>2. /\ net'[p] = net[p]
        /\ Flies(net[e], "ACK")
        /\ ~Flies(net'[e], "ACK")
        /\ Head(net[e]) \in Mail(net[e]) /\ Head(net[e]).method = "ACK"
        /\ Mail(net'[e]) \subseteq Mail(net[e])
        /\ \A m : m # "ACK" => (Flies(net'[e], m) <=> Flies(net[e], m))
    BY <1>19, ReceiveAckMail
  <2>3. QED
    BY ONLY <1>1, <1>2, <1>3, <1>4, <2>1, <2>2, Agreeing(e, p), Agreeing(p, e)
       DEF Agreeing, Answered, Handshake, Doing
<1>20. QED
  BY Zenon, <1>5, <1>6, <1>7, <1>8, <1>9, <1>10, <1>11, <1>12, <1>13, <1>14, <1>15,
     <1>16, <1>17, <1>18, <1>19 DEF Moves, Click

LEMMA AgreeInit == Init => AgreeInv
<1> SUFFICES ASSUME Init PROVE AgreeInv
  OBVIOUS
<1>1. \A e \in Ends : /\ session[e].client = "None" /\ media[e].current = "sendrecv"
                      /\ net[e] = << >>
  BY DEF Init
<1>2. \A e \in Ends : (\A k : ~Flies(net[e], k)) /\ Mail(net[e]) = {}
  BY <1>1, EmptyQueue
<1>3. QED
  BY <1>1, <1>2, BothEnds DEF AgreeInv, Agreeing, Answered, Reverse

LEMMA AgreeStep == TypeOK /\ HandshakeInv /\ AgreeInv /\ [Next]_vars => AgreeInv'
<1> SUFFICES ASSUME TypeOK, HandshakeInv, AgreeInv, [Next]_vars,
                    Alive', "superseded" \notin mishaps'
             PROVE  \A e \in Ends : Agreeing(e, Peer(e))'
  BY DEF AgreeInv
<1>1. CASE UNCHANGED vars
  BY <1>1 DEF vars, AgreeInv, Alive, Agreeing, Answered
<1>2. CASE Next
  <2>1. PICK e \in Ends : Alive /\ Moves(e)
    BY <1>2, StillAlive
  <2>2. "superseded" \notin mishaps
    BY <2>1 DEF Moves, Click, SetHold, SetHoldAnswering, SetHoldRefused, OfferMade, OfferSet,
                AnswerMade, OwnAnswerMade, OfferNotSet, AnswerApplied, ReceiveInvite,
                ReceiveAccept, ReceiveReject, ReceiveAck
  <2> DEFINE p == Peer(e)
  <2>3. p \in Ends /\ Peer(p) = e /\ \A x \in Ends : x = e \/ x = p
    BY BothEnds
  <2>4. Agreeing(e, p) /\ Agreeing(p, e)
    BY <2>1, <2>2, <2>3 DEF AgreeInv
  <2>5. Agreeing(e, p)' /\ Agreeing(p, e)'
    BY <2>1, <2>3, <2>4, AgreeMove
  <2> HIDE DEF p
  <2>6. QED
    BY <2>3, <2>5 DEF p
<1>3. QED
  BY <1>1, <1>2

LEMMA AgreeCorrect == Spec => [](TypeOK /\ HandshakeInv /\ AgreeInv)
<1>1. Init => TypeOK /\ HandshakeInv /\ AgreeInv
  BY TypeInit, HandshakeInit, AgreeInit
<1>2. TypeOK /\ HandshakeInv /\ AgreeInv /\ [Next]_vars
        => (TypeOK /\ HandshakeInv /\ AgreeInv)'
  BY TypeStep, HandshakeStep, AgreeStep
<1>3. QED
  BY <1>1, <1>2, PTL DEF Spec

(* What one end sends the other hears, whatever was refused and in         *)
(* whatever order, unless the softphone has answered with a hold of its    *)
(* own in the place of the answer under way.                               *)
THEOREM BothEndsAgree == Spec => []MediaAgree
<1>1. TypeOK /\ HandshakeInv /\ AgreeInv => MediaAgree
  <2> SUFFICES ASSUME TypeOK, HandshakeInv, AgreeInv, Settled, "superseded" \notin mishaps
               PROVE  media["caller"].current = Reverse(media["callee"].current)
    BY DEF MediaAgree
  <2>1. /\ "caller" \in Ends /\ "callee" \in Ends
        /\ Peer("caller") = "callee" /\ Peer("callee") = "caller"
    BY DEF Ends, Peer
  <2>2. Agreeing("caller", "callee")
    BY <2>1, SettledFacts DEF AgreeInv
  <2>3. \A x \in Ends : ~Answered(x)
    <3> SUFFICES ASSUME NEW x \in Ends PROVE ~Answered(x)
      OBVIOUS
    <3>1. Doing(x) /\ session[x].out = "None" /\ ~Flies(net[x], "2xx")
      BY SettledFacts DEF HandshakeInv, Settled
    <3>2. QED
      BY <3>1 DEF Doing, Answered
  <2>4. QED
    BY <2>1, <2>2, <2>3 DEF Agreeing
<1>2. QED
  BY <1>1, AgreeCorrect, PTL

-----------------------------------------------------------------------------
(* A hold that is carried through is kept.                                 *)

LEMMA AudioFacts ==
  ASSUME NEW a \in BOOLEAN, NEW b \in BOOLEAN, NEW c \in BOOLEAN
  PROVE  /\ Reverse(Audio(a, b)) = Audio(b, a)
         /\ AnswerDirection(Audio(a, b), b) = Audio(b, a)
         /\ DirectionToOffer(Audio(a, b), c) = Audio(c, b)
         /\ a => Audio(a, b) \in {"sendonly", "inactive"}
         /\ ~a /\ ~b => Audio(a, b) = "sendrecv"
<1>1. CASE a /\ b
  BY <1>1 DEF Audio, Reverse, AnswerDirection, DirectionToOffer
<1>2. CASE a /\ ~b
  BY <1>2 DEF Audio, Reverse, AnswerDirection, DirectionToOffer
<1>3. CASE ~a /\ b
  BY <1>3 DEF Audio, Reverse, AnswerDirection, DirectionToOffer
<1>4. CASE ~a /\ ~b
  BY <1>4 DEF Audio, Reverse, AnswerDirection, DirectionToOffer
<1>5. QED
  BY <1>1, <1>2, <1>3, <1>4

LEMMA AgreedTypes ==
  ASSUME TypeOK, NEW e \in Ends
  PROVE  /\ session[e].hold \in BOOLEAN /\ Agreed(e) \in BOOLEAN
         /\ Asking(e) => Agreed(e) = ~session[e].hold
         /\ ~Asking(e) => Agreed(e) = session[e].hold
<1>1. session[e].hold \in BOOLEAN
  BY DEF TypeOK, Session
<1>2. CASE Asking(e)
  BY <1>1, <1>2 DEF Agreed
<1>3. CASE ~Asking(e)
  BY <1>1, <1>3 DEF Agreed
<1>4. QED
  BY <1>1, <1>2, <1>3

LEMMA GoodMove ==
  ASSUME TypeOK, Alive, HandshakeInv, NEW e \in Ends, NEW p \in Ends, p = Peer(e),
         Moves(e), Good'
  PROVE  Good
<1>1. Open /\ Handshake(e, p) /\ Handshake(p, e) /\ Doing(e) /\ Doing(p)
  BY BothEnds DEF HandshakeInv
<1>2. /\ session[e].out \in {"None", "Offer", "Stale", "Answer", "Apply"}
      /\ session[e].in \in {"None", "SetOffer", "SetAsAnswer", "Answer", "Superseded"}
  BY DEF TypeOK, Session
<1>3. /\ Unharmed(e)' /\ Unharmed(p)' /\ ~(Asking(e)' /\ Asking(p)')
      /\ mishaps' = {}
  BY DEF Good
<1>4. ASSUME mishaps' = mishaps, Unharmed(e), Unharmed(p), ~(Asking(e) /\ Asking(p))
      PROVE  Good
  <2>1. \A x \in Ends : Unharmed(x) /\ ~(Asking(x) /\ Asking(Peer(x)))
    BY <1>4, BothEnds
  <2>2. QED
    BY <1>3, <1>4, <2>1 DEF Good
<1>5. ASSUME NEW hold \in BOOLEAN, SetHold(e, hold) PROVE Good
  <2>1. /\ ~session[e].pendingReinvite
        /\ media[e].state = "stable"
        /\ session'[e].client = session[e].client
        /\ session'[e].in = session[e].in
        /\ session'[e].out = "Offer"
        /\ session'[p] = session[p] /\ media'[p] = media[p] /\ mishaps' = mishaps
        /\ net' = net
    BY <1>1, <1>5, SetHoldEffect
  <2>2. Unharmed(e) /\ Unharmed(p) /\ ~(Asking(e) /\ Asking(p))
    BY ONLY <1>1, <1>2, <1>3, <2>1
       DEF Unharmed, Asking, Handshake, Doing
  <2>3. QED
    BY <1>4, <2>1, <2>2
<1>6. ASSUME NEW hold \in BOOLEAN, SetHoldAnswering(e, hold) PROVE Good
  BY <1>1, <1>3, <1>6, SetHoldAnsweringEffect
<1>7. ASSUME NEW hold \in BOOLEAN, SetHoldRefused(e, hold) PROVE Good
  BY <1>1, <1>3, <1>7, SetHoldRefusedEffect
<1>8. ASSUME OfferMade(e),
             session[e].out = "Offer" /\ media[e].state = "stable",
             session[e].client = "None" /\ session[e].server = "None"
      PROVE  Good
  <2>1. /\ session[e].out = "Offer" /\ media[e].state = "stable"
        /\ session[e].client = "None" /\ session[e].server = "None"
        /\ session'[e].client = "Calling"
        /\ session'[e].in = session[e].in
        /\ session'[e].out = "None"
        /\ session'[p] = session[p] /\ media'[p] = media[p] /\ mishaps' = mishaps
    BY <1>1, <1>8, OfferSentEffect
  <2>2. /\ net'[e] = net[e]
        /\ ~Flies(net[p], "INVITE")
        /\ \A k : Flies(net'[p], k) <=> Flies(net[p], k) \/ k = "INVITE"
    BY <1>8, OfferSentMail
  <2>3. Unharmed(e) /\ Unharmed(p) /\ ~(Asking(e) /\ Asking(p))
    BY ONLY <1>1, <1>2, <1>3, <2>1, <2>2
       DEF Unharmed, Asking, Handshake, Doing
  <2>4. QED
    BY <1>4, <2>1, <2>3
<1>9. ASSUME OfferMade(e),
             ~(session[e].out = "Offer" /\ media[e].state = "stable")
               \/ ~(session[e].client = "None" /\ session[e].server = "None")
      PROVE  Good
  BY <1>1, <1>3, <1>9, OfferLostEffect
<1>10. ASSUME OfferSet(e) PROVE Good
  <2>1. /\ session[e].in = "SetOffer"
        /\ session'[e].client = session[e].client
        /\ session'[e].in = "Answer"
        /\ session'[e].out = session[e].out
        /\ session'[p] = session[p] /\ media'[p] = media[p] /\ mishaps' = mishaps
        /\ net' = net
    BY <1>1, <1>10, OfferSetEffect
  <2>2. Unharmed(e) /\ Unharmed(p) /\ ~(Asking(e) /\ Asking(p))
    BY ONLY <1>1, <1>2, <1>3, <2>1
       DEF Unharmed, Asking, Handshake, Doing
  <2>3. QED
    BY <1>4, <2>1, <2>2
<1>11. ASSUME AnswerMade(e) PROVE Good
  <2>1. /\ session[e].in = "Answer"
        /\ session'[e].client = session[e].client
        /\ session'[e].in = "None"
        /\ session'[e].out = IF session[e].out = "None" THEN "None" ELSE "Stale"
        /\ session'[p] = session[p] /\ media'[p] = media[p] /\ mishaps' = mishaps
    BY <1>1, <1>11, AnswerMadeEffect
  <2>2. /\ net'[e] = net[e]
        /\ ~Flies(net[p], "2xx") /\ ~Flies(net[p], "Reject")
        /\ \A k : Flies(net'[p], k) <=> Flies(net[p], k) \/ k = "2xx"
    BY <1>11, AnswerMadeMail
  <2>3. Unharmed(e) /\ Unharmed(p) /\ ~(Asking(e) /\ Asking(p))
    BY ONLY <1>1, <1>2, <1>3, <2>1, <2>2
       DEF Unharmed, Asking, Handshake, Doing
  <2>4. QED
    BY <1>4, <2>1, <2>3
<1>12. ASSUME OwnAnswerMade(e) PROVE Good
  BY <1>1, <1>3, <1>12, OwnAnswerMadeEffect
<1>13. ASSUME OfferNotSet(e) PROVE Good
  <2>1. Flies(net'[p], "Reject")
    BY <1>13, OfferNotSetMail
  <2>2. QED
    BY <1>3, <2>1 DEF Unharmed
<1>14. ASSUME AnswerApplied(e) PROVE Good
  <2>1. /\ session[e].out = "Apply"
        /\ session'[e].client = "None"
        /\ session'[e].in = session[e].in
        /\ session'[e].out = "None"
        /\ session'[p] = session[p] /\ media'[p] = media[p] /\ mishaps' = mishaps
    BY <1>1, <1>14, AnswerAppliedEffect
  <2>2. /\ net'[e] = net[e]
        /\ ~Flies(net[p], "ACK")
        /\ \A k : Flies(net'[p], k) <=> Flies(net[p], k) \/ k = "ACK"
    BY <1>14, AnswerAppliedMail
  <2>3. Unharmed(e) /\ Unharmed(p) /\ ~(Asking(e) /\ Asking(p))
    BY ONLY <1>1, <1>2, <1>3, <2>1, <2>2
       DEF Unharmed, Asking, Handshake, Doing
  <2>4. QED
    BY <1>4, <2>1, <2>3
<1>15. ASSUME ReceiveInvite(e),
              session[e].server # "None" \/ session[e].client # "None"
      PROVE  Good
  <2>1. Flies(net'[p], "Reject")
    BY <1>15, InviteRefusedMail
  <2>2. QED
    BY <1>3, <2>1 DEF Unharmed
<1>16. ASSUME ReceiveInvite(e),
              session[e].server = "None" /\ session[e].client = "None"
      PROVE  Good
  <2>1. /\ session[e].server = "None" /\ session[e].client = "None"
        /\ session'[e].client = session[e].client
        /\ session'[e].in = IF media[e].state = "have-local-offer"
                            THEN "SetAsAnswer" ELSE "SetOffer"
        /\ session'[e].out = session[e].out
        /\ session'[p] = session[p] /\ media'[p] = media[p] /\ mishaps' = mishaps
    BY <1>1, <1>16, InviteTakenEffect
  <2>2. /\ net'[p] = net[p]
        /\ Flies(net[e], "INVITE")
        /\ ~Flies(net'[e], "INVITE")
        /\ \A m : m # "INVITE" => (Flies(net'[e], m) <=> Flies(net[e], m))
    BY <1>16, InviteTakenMail
  <2>3. Unharmed(e) /\ Unharmed(p) /\ ~(Asking(e) /\ Asking(p))
    BY ONLY <1>1, <1>2, <1>3, <2>1, <2>2
       DEF Unharmed, Asking, Handshake, Doing
  <2>4. QED
    BY <1>4, <2>1, <2>3
<1>17. ASSUME ReceiveAccept(e) PROVE Good
  <2>1. /\ session'[e].client = "Accepted"
        /\ session'[e].in = session[e].in
        /\ session'[e].out = "Apply"
        /\ session'[p] = session[p] /\ media'[p] = media[p] /\ mishaps' = mishaps
    BY <1>1, <1>17, ReceiveAcceptEffect
  <2>2. /\ net'[p] = net[p]
        /\ Flies(net[e], "2xx")
        /\ ~Flies(net'[e], "2xx") /\ ~Flies(net'[e], "Reject")
        /\ \A m : m # "2xx" => (Flies(net'[e], m) <=> Flies(net[e], m))
    BY <1>17, ReceiveAcceptMail
  <2>3. Unharmed(e) /\ Unharmed(p) /\ ~(Asking(e) /\ Asking(p))
    BY ONLY <1>1, <1>2, <1>3, <2>1, <2>2
       DEF Unharmed, Asking, Handshake, Doing
  <2>4. QED
    BY <1>4, <2>1, <2>3
<1>18. ASSUME ReceiveReject(e) PROVE Good
  BY <1>1, <1>3, <1>18, ReceiveRejectEffect
<1>19. ASSUME ReceiveAck(e) PROVE Good
  <2>1. /\ session'[e].client = session[e].client
        /\ session'[e].in = session[e].in
        /\ session'[e].out = session[e].out
        /\ session'[p] = session[p] /\ media'[p] = media[p] /\ mishaps' = mishaps
    BY <1>1, <1>19, ReceiveAckEffect
  <2>2. /\ net'[p] = net[p]
        /\ Flies(net[e], "ACK")
        /\ ~Flies(net'[e], "ACK")
        /\ \A m : m # "ACK" => (Flies(net'[e], m) <=> Flies(net[e], m))
    BY <1>19, ReceiveAckMail
  <2>3. Unharmed(e) /\ Unharmed(p) /\ ~(Asking(e) /\ Asking(p))
    BY ONLY <1>1, <1>2, <1>3, <2>1, <2>2
       DEF Unharmed, Asking, Handshake, Doing
  <2>4. QED
    BY <1>4, <2>1, <2>3
<1>20. QED
  BY Zenon, <1>5, <1>6, <1>7, <1>8, <1>9, <1>10, <1>11, <1>12, <1>13, <1>14, <1>15,
     <1>16, <1>17, <1>18, <1>19 DEF Moves, Click

LEMMA AgreedTypesAfter ==
  ASSUME TypeOK', NEW e \in Ends
  PROVE  /\ Asking(e)' => Agreed(e)' = ~session'[e].hold
         /\ ~Asking(e)' => Agreed(e)' = session'[e].hold
<1>1. session'[e].hold \in BOOLEAN
  BY DEF TypeOK, Session
<1>2. CASE Asking(e)'
  BY <1>1, <1>2 DEF Agreed
<1>3. CASE ~Asking(e)'
  BY <1>1, <1>3 DEF Agreed
<1>4. QED
  BY <1>2, <1>3

LEMMA HoldMove ==
  ASSUME TypeOK, Alive, HandshakeInv, AgreeInv, HoldInv, TypeOK',
         NEW e \in Ends, NEW p \in Ends, p = Peer(e), Moves(e), Good'
  PROVE  Holding(e, p)' /\ Holding(p, e)'
<1>1. Open /\ Handshake(e, p) /\ Handshake(p, e) /\ Doing(e) /\ Doing(p)
  BY BothEnds DEF HandshakeInv
<1>2. /\ session[e].out \in {"None", "Offer", "Stale", "Answer", "Apply"}
      /\ session[e].in \in {"None", "SetOffer", "SetAsAnswer", "Answer", "Superseded"}
  BY DEF TypeOK, Session
<1>3. /\ Unharmed(e)' /\ Unharmed(p)' /\ ~(Asking(e)' /\ Asking(p)')
      /\ mishaps' = {}
  BY DEF Good
<1>4. Good
  BY GoodMove
<1>5. /\ Unharmed(e) /\ Unharmed(p) /\ ~(Asking(e) /\ Asking(p))
      /\ Agreeing(e, p) /\ Agreeing(p, e) /\ Holding(e, p) /\ Holding(p, e)
  BY <1>4, BothEnds DEF Good, AgreeInv, HoldInv
<1>6. /\ session[e].hold \in BOOLEAN /\ session[p].hold \in BOOLEAN
      /\ Agreed(e) \in BOOLEAN /\ Agreed(p) \in BOOLEAN
      /\ Asking(e) => Agreed(e) = ~session[e].hold
      /\ Asking(p) => Agreed(p) = ~session[p].hold
      /\ ~Asking(e) => Agreed(e) = session[e].hold
      /\ ~Asking(p) => Agreed(p) = session[p].hold
  BY AgreedTypes
<1>7. /\ Asking(e)' => Agreed(e)' = ~session'[e].hold
      /\ Asking(p)' => Agreed(p)' = ~session'[p].hold
      /\ ~Asking(e)' => Agreed(e)' = session'[e].hold
      /\ ~Asking(p)' => Agreed(p)' = session'[p].hold
  BY AgreedTypesAfter
<1>8. ASSUME NEW hold \in BOOLEAN, SetHold(e, hold)
      PROVE  Holding(e, p)' /\ Holding(p, e)'
  <2>1. /\ ~session[e].pendingReinvite
        /\ media[e].state = "stable"
        /\ session'[e].client = session[e].client
        /\ session'[e].in = session[e].in
        /\ session'[e].out = "Offer"
        /\ session'[e].hold = hold
        /\ media'[e].current = media[e].current
        /\ media'[e].remote = media[e].remote
        /\ media'[e].answer = media[e].answer
        /\ phone'[e] = hold /\ phone'[p] = phone[p]
        /\ session'[p] = session[p] /\ media'[p] = media[p]
        /\ net' = net
    BY <1>1, <1>8, SetHoldEffect
  <2>2. /\ ~session[e].pendingReinvite /\ net'[e] = net[e] /\ net'[p] = net[p]
        /\ media[e].state = "stable"
    BY <1>1, <1>8, SetHoldEffect
  <2>3. hold = ~session[e].hold /\ hold # session[e].hold
    <3>1. hold # phone[e] /\ phone[e] = session[e].hold
      BY <1>5, <1>8 DEF SetHold, Holds, Holding
    <3>2. QED
      BY <1>6, <3>1
  <2>4. ~Asking(e) /\ Asking(e)' /\ ~Asking(p)' /\ ~Asking(p)
    BY ONLY <1>1, <1>2, <1>3, <2>1, <2>2, <2>3 DEF Asking, Handshake, Doing
  <2>5. /\ session[p].in = "None" /\ session[e].in = "None"
        /\ \A msg \in Mail(net[p]) \cup Mail(net[e]) : msg.method # "INVITE"
        /\ ~Answered(e)
    <3>1. /\ ~Flies(net[p], "INVITE") /\ session[p].in = "None" /\ ~Answered(e)
      BY ONLY <1>1, <1>5, <2>1, <2>2 DEF Handshake, Doing, Unharmed, Answered
    <3>2. ~Flies(net[e], "INVITE") /\ session[e].in = "None"
      BY ONLY <1>1, <1>2, <1>5, <2>1, <2>2, <2>4 DEF Handshake, Doing, Unharmed, Asking
    <3>3. QED
      BY <3>1, <3>2 DEF Flies
  <2>6. Agreed(e)' = Agreed(e) /\ Agreed(p)' = Agreed(p)
    <3>1. session'[e].hold = hold /\ session'[p].hold = session[p].hold
      BY <2>1
    <3>2. QED
      BY <1>6, <1>7, <2>3, <2>4, <3>1
  <2>7. media'[e].direction = Audio(hold, Agreed(p))
    <3>1. media'[e].direction = DirectionToOffer(media[e].direction, hold)
      BY <1>1, <1>8, SetHoldEffect
    <3>2. media[e].direction = Audio(session[e].hold, Agreed(p))
      BY <1>5, <2>5 DEF Holding
    <3>3. QED
      BY <1>6, <3>1, <3>2, AudioFacts
  <2>8. Holding(e, p)'
    BY ONLY <1>1, <1>5, <2>1, <2>2, <2>3, <2>4, <2>5, <2>6, <2>7 DEF Holding, Answered
  <2>9. Holding(p, e)'
    BY ONLY <1>1, <1>5, <2>1, <2>2, <2>3, <2>4, <2>5, <2>6, <2>7 DEF Holding, Answered
  <2>10. QED
    BY <2>8, <2>9
<1>9. ASSUME NEW hold \in BOOLEAN, SetHoldAnswering(e, hold)
      PROVE  Holding(e, p)' /\ Holding(p, e)'
  BY <1>1, <1>3, <1>9, SetHoldAnsweringEffect
<1>10. ASSUME NEW hold \in BOOLEAN, SetHoldRefused(e, hold)
      PROVE  Holding(e, p)' /\ Holding(p, e)'
  BY <1>1, <1>3, <1>10, SetHoldRefusedEffect
<1>11. ASSUME OfferMade(e),
              session[e].out = "Offer" /\ media[e].state = "stable",
              session[e].client = "None" /\ session[e].server = "None"
      PROVE  Holding(e, p)' /\ Holding(p, e)'
  <2>1. /\ session[e].out = "Offer" /\ media[e].state = "stable"
        /\ session[e].client = "None" /\ session[e].server = "None"
        /\ session'[e].client = "Calling"
        /\ session'[e].in = session[e].in
        /\ session'[e].out = "None"
        /\ session'[e].hold = session[e].hold
        /\ media'[e].direction = media[e].direction
        /\ media'[e].current = media[e].current
        /\ media'[e].remote = media[e].remote
        /\ media'[e].answer = media[e].answer
        /\ phone'[e] = phone[e] /\ phone'[p] = phone[p]
        /\ session'[p] = session[p] /\ media'[p] = media[p]
    BY <1>1, <1>11, OfferSentEffect
  <2>2. /\ net'[e] = net[e]
        /\ Mail(net'[p]) = Mail(net[p]) \cup {Msg("INVITE", media[e].direction)}
        /\ Msg("INVITE", media[e].direction).method = "INVITE"
        /\ Msg("INVITE", media[e].direction).direction = media[e].direction
        /\ ~Flies(net[p], "INVITE")
        /\ \A k : Flies(net'[p], k) <=> Flies(net[p], k) \/ k = "INVITE"
    BY <1>11, OfferSentMail
  <2>3. Asking(e) /\ Asking(e)' /\ ~Asking(p)' /\ ~Asking(p)
    BY ONLY <1>1, <1>2, <1>3, <2>1, <2>2 DEF Asking, Handshake, Doing
  <2>4. Agreed(e)' = Agreed(e) /\ Agreed(p)' = Agreed(p) /\ Agreed(p) = session[p].hold
    <3>1. session'[e].hold = session[e].hold /\ session'[p].hold = session[p].hold
      BY <2>1
    <3>2. QED
      BY <1>6, <1>7, <2>3, <3>1
  <2>5. /\ session[e].in = "None"
        /\ media[e].direction = Audio(session[e].hold, session[p].hold)
    <3>1. session[e].in = "None"
      BY ONLY <1>1, <1>2, <2>1 DEF Doing
    <3>2. media[e].direction = Audio(session[e].hold, Agreed(p))
      BY <1>5, <3>1 DEF Holding
    <3>3. QED
      BY <2>4, <3>1, <3>2
  <2>6. Holding(e, p)'
    BY ONLY <1>1, <1>5, <2>1, <2>2, <2>3, <2>4, <2>5 DEF Holding, Answered
  <2>7. Holding(p, e)'
    BY ONLY <1>1, <1>5, <2>1, <2>2, <2>3, <2>4, <2>5 DEF Holding, Answered
  <2>8. QED
    BY <2>6, <2>7
<1>12. ASSUME OfferMade(e),
              ~(session[e].out = "Offer" /\ media[e].state = "stable")
                \/ ~(session[e].client = "None" /\ session[e].server = "None")
      PROVE  Holding(e, p)' /\ Holding(p, e)'
  BY <1>1, <1>3, <1>12, OfferLostEffect
<1>13. ASSUME OfferSet(e)
      PROVE  Holding(e, p)' /\ Holding(p, e)'
  <2>1. /\ session[e].in = "SetOffer"
        /\ session'[e].client = session[e].client
        /\ session'[e].in = "Answer"
        /\ session'[e].out = session[e].out
        /\ session'[e].hold = session[e].hold
        /\ media'[e].direction = media[e].answer
        /\ media'[e].current = media[e].current
        /\ media'[e].remote = media[e].remote
        /\ media'[e].answer = media[e].answer
        /\ phone'[e] = phone[e] /\ phone'[p] = phone[p]
        /\ session'[p] = session[p] /\ media'[p] = media[p]
        /\ net' = net
    BY <1>1, <1>13, OfferSetEffect
  <2>2. (Asking(e)' <=> Asking(e)) /\ (Asking(p)' <=> Asking(p))
    BY ONLY <1>1, <1>2, <1>3, <2>1 DEF Asking
  <2>3. Agreed(e)' = Agreed(e) /\ Agreed(p)' = Agreed(p)
    <3>1. session'[e].hold = session[e].hold /\ session'[p].hold = session[p].hold
      BY <2>1
    <3>2. QED
      BY <1>6, <1>7, <2>2, <3>1
  <2>4. media'[e].direction = Audio(session[e].hold, session[p].hold)
    <3>1. /\ media'[e].direction = media[e].answer
          /\ media[e].answer = AnswerDirection(media[e].remote, session[e].hold)
      BY <1>5, <2>1 DEF Holding
    <3>2. media[e].remote = Audio(session[p].hold, session[e].hold)
      BY <1>5, <2>1 DEF Holding
    <3>3. QED
      BY <1>6, <3>1, <3>2, AudioFacts
  <2>5. Holding(e, p)'
    BY ONLY <1>1, <1>5, <2>1, <2>2, <2>3, <2>4 DEF Holding, Answered
  <2>6. Holding(p, e)'
    BY ONLY <1>1, <1>5, <2>1, <2>2, <2>3, <2>4 DEF Holding, Answered
  <2>7. QED
    BY <2>5, <2>6
<1>14. ASSUME AnswerMade(e)
      PROVE  Holding(e, p)' /\ Holding(p, e)'
  <2>1. /\ session[e].in = "Answer"
        /\ session'[e].client = session[e].client
        /\ session'[e].in = "None"
        /\ session'[e].out = IF session[e].out = "None" THEN "None" ELSE "Stale"
        /\ session'[e].hold = session[e].hold
        /\ media'[e].direction = media[e].direction
        /\ media'[e].current = media[e].answer
        /\ media'[e].remote = media[e].remote
        /\ media'[e].answer = media[e].answer
        /\ phone'[e] = phone[e] /\ phone'[p] = phone[p]
        /\ session'[p] = session[p] /\ media'[p] = media[p]
    BY <1>1, <1>14, AnswerMadeEffect
  <2>2. /\ net'[e] = net[e]
        /\ Mail(net'[p]) = Mail(net[p]) \cup {Msg("2xx", media[e].answer)}
        /\ Msg("2xx", media[e].answer).method = "2xx"
        /\ Msg("2xx", media[e].answer).direction = media[e].answer
        /\ ~Flies(net[p], "2xx") /\ ~Flies(net[p], "Reject")
        /\ \A k : Flies(net'[p], k) <=> Flies(net[p], k) \/ k = "2xx"
    BY <1>14, AnswerMadeMail
  <2>3. /\ session[e].out = "None" /\ session'[e].out = "None" /\ session[e].client = "None"
        /\ session[p].client = "Calling"
    BY ONLY <1>1, <1>2, <1>3, <2>1 DEF Unharmed, Doing, Handshake
  <2>4. ~Asking(e)' /\ ~Asking(e) /\ ~Asking(p)'
    BY ONLY <1>1, <2>1, <2>2, <2>3 DEF Asking, Handshake, Doing
  <2>5. Agreed(e)' = Agreed(e) /\ Agreed(e) = session[e].hold /\ Agreed(p)' = session[p].hold
    <3>1. session'[e].hold = session[e].hold /\ session'[p].hold = session[p].hold
      BY <2>1
    <3>2. QED
      BY <1>6, <1>7, <2>4, <3>1
  <2>6. /\ media[e].direction = Audio(session[e].hold, session[p].hold)
        /\ media[e].answer = media[e].direction
    BY <1>5, <2>1 DEF Holding
  <2>7. Holding(e, p)'
    BY ONLY <1>1, <1>5, <2>1, <2>2, <2>3, <2>4, <2>5, <2>6 DEF Holding, Answered
  <2>8. Holding(p, e)'
    BY ONLY <1>1, <1>5, <2>1, <2>2, <2>3, <2>4, <2>5, <2>6 DEF Holding, Answered
  <2>9. QED
    BY <2>7, <2>8
<1>15. ASSUME OwnAnswerMade(e)
      PROVE  Holding(e, p)' /\ Holding(p, e)'
  BY <1>1, <1>3, <1>15, OwnAnswerMadeEffect
<1>16. ASSUME OfferNotSet(e)
      PROVE  Holding(e, p)' /\ Holding(p, e)'
  <2>1. Flies(net'[p], "Reject")
    BY <1>16, OfferNotSetMail
  <2>2. QED
    BY <1>3, <2>1 DEF Unharmed
<1>17. ASSUME AnswerApplied(e)
      PROVE  Holding(e, p)' /\ Holding(p, e)'
  <2>1. /\ session[e].out = "Apply"
        /\ session'[e].client = "None"
        /\ session'[e].in = session[e].in
        /\ session'[e].out = "None"
        /\ session'[e].hold = session[e].hold
        /\ media'[e].direction = media[e].direction
        /\ media'[e].current = Reverse(media[e].remote)
        /\ media'[e].remote = media[e].remote
        /\ media'[e].answer = media[e].answer
        /\ phone'[e] = session[e].hold /\ phone'[p] = phone[p]
        /\ session'[p] = session[p] /\ media'[p] = media[p]
    BY <1>1, <1>17, AnswerAppliedEffect
  <2>2. /\ net'[e] = net[e]
        /\ Mail(net'[p]) = Mail(net[p]) \cup {Plain("ACK")}
        /\ Plain("ACK").method = "ACK"
        /\ ~Flies(net[p], "ACK")
        /\ \A k : Flies(net'[p], k) <=> Flies(net[p], k) \/ k = "ACK"
    BY <1>17, AnswerAppliedMail
  <2>3. (Asking(e)' <=> Asking(e)) /\ (Asking(p)' <=> Asking(p))
    BY ONLY <1>1, <1>2, <1>3, <2>1, <2>2 DEF Asking, Handshake, Doing
  <2>4. Agreed(e)' = Agreed(e) /\ Agreed(p)' = Agreed(p)
    <3>1. session'[e].hold = session[e].hold /\ session'[p].hold = session[p].hold
      BY <2>1
    <3>2. QED
      BY <1>6, <1>7, <2>3, <3>1
  <2>5. media'[e].current = Audio(Agreed(e), Agreed(p))
    <3>1. ~Answered(p) /\ session[e].client = "Accepted"
      BY ONLY <1>1, <2>1 DEF Handshake, Doing, Answered
    <3>2. /\ media[p].current = Audio(Agreed(p), Agreed(e))
          /\ media[e].remote = media[p].current
      BY <1>5, <3>1 DEF Holding, Agreeing
    <3>3. QED
      BY <1>6, <2>1, <3>2, AudioFacts
  <2>6. Holding(e, p)'
    BY ONLY <1>1, <1>5, <2>1, <2>2, <2>3, <2>4, <2>5 DEF Holding, Answered
  <2>7. Holding(p, e)'
    BY ONLY <1>1, <1>5, <2>1, <2>2, <2>3, <2>4, <2>5 DEF Holding, Answered
  <2>8. QED
    BY <2>6, <2>7
<1>18. ASSUME ReceiveInvite(e), session[e].server # "None" \/ session[e].client # "None"
      PROVE  Holding(e, p)' /\ Holding(p, e)'
  <2>1. Flies(net'[p], "Reject")
    BY <1>18, InviteRefusedMail
  <2>2. QED
    BY <1>3, <2>1 DEF Unharmed
<1>19. ASSUME ReceiveInvite(e), session[e].server = "None" /\ session[e].client = "None"
      PROVE  Holding(e, p)' /\ Holding(p, e)'
  <2>1. /\ session[e].server = "None" /\ session[e].client = "None"
        /\ session'[e].client = session[e].client
        /\ session'[e].in = IF media[e].state = "have-local-offer"
                            THEN "SetAsAnswer" ELSE "SetOffer"
        /\ session'[e].out = session[e].out
        /\ session'[e].hold = session[e].hold
        /\ media'[e].direction = media[e].direction
        /\ media'[e].current = media[e].current
        /\ media'[e].remote = Head(net[e]).direction
        /\ media'[e].answer = AnswerDirection(Head(net[e]).direction, session[e].hold)
        /\ phone'[e] = phone[e] /\ phone'[p] = phone[p]
        /\ session'[p] = session[p] /\ media'[p] = media[p]
    BY <1>1, <1>19, InviteTakenEffect
  <2>2. /\ net'[p] = net[p]
        /\ Flies(net[e], "INVITE")
        /\ ~Flies(net'[e], "INVITE")
        /\ Head(net[e]) \in Mail(net[e]) /\ Head(net[e]).method = "INVITE"
        /\ Mail(net'[e]) \subseteq Mail(net[e])
        /\ \A m : m # "INVITE" => (Flies(net'[e], m) <=> Flies(net[e], m))
    BY <1>19, InviteTakenMail
  <2>3. (Asking(e)' <=> Asking(e)) /\ (Asking(p)' <=> Asking(p))
    BY ONLY <1>1, <1>2, <1>3, <2>1, <2>2 DEF Asking
  <2>4. Agreed(e)' = Agreed(e) /\ Agreed(p)' = Agreed(p)
    <3>1. session'[e].hold = session[e].hold /\ session'[p].hold = session[p].hold
      BY <2>1
    <3>2. QED
      BY <1>6, <1>7, <2>3, <3>1
  <2>5. session[e].in = "None" /\ session'[e].in = "SetOffer"
    BY ONLY <1>1, <1>3, <2>1 DEF Doing, Unharmed
  <2>6. Holding(e, p)'
    BY ONLY <1>1, <1>5, <2>1, <2>2, <2>3, <2>4, <2>5 DEF Holding, Answered
  <2>7. Holding(p, e)'
    BY ONLY <1>1, <1>5, <2>1, <2>2, <2>3, <2>4, <2>5 DEF Holding, Answered
  <2>8. QED
    BY <2>6, <2>7
<1>20. ASSUME ReceiveAccept(e)
      PROVE  Holding(e, p)' /\ Holding(p, e)'
  <2>1. /\ session'[e].client = "Accepted"
        /\ session'[e].in = session[e].in
        /\ session'[e].out = "Apply"
        /\ session'[e].hold = session[e].hold
        /\ media'[e].direction = media[e].direction
        /\ media'[e].current = media[e].current
        /\ media'[e].remote = Head(net[e]).direction
        /\ media'[e].answer = media[e].answer
        /\ phone'[e] = phone[e] /\ phone'[p] = phone[p]
        /\ session'[p] = session[p] /\ media'[p] = media[p]
    BY <1>1, <1>20, ReceiveAcceptEffect
  <2>2. /\ net'[p] = net[p]
        /\ Flies(net[e], "2xx")
        /\ ~Flies(net'[e], "2xx") /\ ~Flies(net'[e], "Reject")
        /\ Head(net[e]) \in Mail(net[e]) /\ Head(net[e]).method = "2xx"
        /\ Mail(net'[e]) \subseteq Mail(net[e])
        /\ \A m : m # "2xx" => (Flies(net'[e], m) <=> Flies(net[e], m))
    BY <1>20, ReceiveAcceptMail
  <2>3. (Asking(e)' <=> Asking(e)) /\ (Asking(p)' <=> Asking(p))
    BY ONLY <1>1, <1>2, <2>1, <2>2 DEF Asking, Handshake, Doing
  <2>4. Agreed(e)' = Agreed(e) /\ Agreed(p)' = Agreed(p)
    <3>1. session'[e].hold = session[e].hold /\ session'[p].hold = session[p].hold
      BY <2>1
    <3>2. QED
      BY <1>6, <1>7, <2>3, <3>1
  <2>5. session[e].in = "None"
    BY ONLY <1>1, <1>2, <2>1, <2>2 DEF Handshake, Doing
  <2>6. Holding(e, p)'
    BY ONLY <1>1, <1>5, <2>1, <2>2, <2>3, <2>4, <2>5 DEF Holding, Answered
  <2>7. Holding(p, e)'
    BY ONLY <1>1, <1>5, <2>1, <2>2, <2>3, <2>4, <2>5 DEF Holding, Answered
  <2>8. QED
    BY <2>6, <2>7
<1>21. ASSUME ReceiveReject(e)
      PROVE  Holding(e, p)' /\ Holding(p, e)'
  BY <1>1, <1>3, <1>21, ReceiveRejectEffect
<1>22. ASSUME ReceiveAck(e)
      PROVE  Holding(e, p)' /\ Holding(p, e)'
  <2>1. /\ session'[e].client = session[e].client
        /\ session'[e].in = session[e].in
        /\ session'[e].out = session[e].out
        /\ session'[e].hold = session[e].hold
        /\ media'[e].direction = media[e].direction
        /\ media'[e].current = media[e].current
        /\ media'[e].remote = media[e].remote
        /\ media'[e].answer = media[e].answer
        /\ phone'[e] = phone[e] /\ phone'[p] = phone[p]
        /\ session'[p] = session[p] /\ media'[p] = media[p]
    BY <1>1, <1>22, ReceiveAckEffect
  <2>2. /\ net'[p] = net[p]
        /\ Flies(net[e], "ACK")
        /\ ~Flies(net'[e], "ACK")
        /\ Head(net[e]) \in Mail(net[e]) /\ Head(net[e]).method = "ACK"
        /\ Mail(net'[e]) \subseteq Mail(net[e])
        /\ \A m : m # "ACK" => (Flies(net'[e], m) <=> Flies(net[e], m))
    BY <1>22, ReceiveAckMail
  <2>3. (Asking(e)' <=> Asking(e)) /\ (Asking(p)' <=> Asking(p))
    BY ONLY <1>1, <1>2, <1>3, <2>1, <2>2 DEF Asking
  <2>4. Agreed(e)' = Agreed(e) /\ Agreed(p)' = Agreed(p)
    <3>1. session'[e].hold = session[e].hold /\ session'[p].hold = session[p].hold
      BY <2>1
    <3>2. QED
      BY <1>6, <1>7, <2>3, <3>1
  <2>5. Holding(e, p)'
    BY ONLY <1>1, <1>5, <2>1, <2>2, <2>3, <2>4 DEF Holding, Answered
  <2>6. Holding(p, e)'
    BY ONLY <1>1, <1>5, <2>1, <2>2, <2>3, <2>4 DEF Holding, Answered
  <2>7. QED
    BY <2>5, <2>6
<1>23. QED
  BY Zenon, <1>8, <1>9, <1>10, <1>11, <1>12, <1>13, <1>14, <1>15, <1>16, <1>17, <1>18,
     <1>19, <1>20, <1>21, <1>22 DEF Moves, Click

LEMMA HoldInit == Init => HoldInv
<1> SUFFICES ASSUME Init, NEW e \in Ends, NEW p \in Ends PROVE Holding(e, p)
  BY BothEnds DEF HoldInv
<1>1. \A x \in Ends : /\ session[x].out = "None" /\ session[x].in = "None"
                      /\ session[x].client = "None" /\ ~session[x].hold
                      /\ media[x].direction = "sendrecv" /\ media[x].current = "sendrecv"
                      /\ phone[x] = FALSE /\ net[x] = << >>
                      /\ session[x].hold = FALSE
  BY DEF Init
<1>2. \A x \in Ends : ~Asking(x) /\ Mail(net[x]) = {}
  BY <1>1, EmptyQueue DEF Asking
<1>3. Agreed(e) = FALSE /\ Agreed(p) = FALSE
  BY <1>1, <1>2 DEF Agreed
<1>4. Audio(FALSE, FALSE) = "sendrecv"
  BY DEF Audio
<1>5. QED
  BY <1>1, <1>2, <1>3, <1>4 DEF Holding

LEMMA HoldStep ==
  TypeOK /\ HandshakeInv /\ AgreeInv /\ HoldInv /\ [Next]_vars => HoldInv'
<1> SUFFICES ASSUME TypeOK, HandshakeInv, AgreeInv, HoldInv, [Next]_vars, Good'
             PROVE  \A e \in Ends : Holding(e, Peer(e))'
  BY DEF HoldInv
<1>1. CASE UNCHANGED vars
  BY <1>1 DEF vars, HoldInv, Good, Alive, Unharmed, Asking, Agreed, Holding, Answered
<1>2. CASE Next
  <2>1. PICK e \in Ends : Alive /\ Moves(e)
    BY <1>2, StillAlive DEF Good
  <2> DEFINE p == Peer(e)
  <2>2. p \in Ends /\ Peer(p) = e /\ \A x \in Ends : x = e \/ x = p
    BY BothEnds
  <2>3. Holding(e, p)' /\ Holding(p, e)'
    BY <1>2, <2>1, <2>2, TypeStep, HoldMove
  <2> HIDE DEF p
  <2>4. QED
    BY <2>2, <2>3 DEF p
<1>3. QED
  BY <1>1, <1>2

LEMMA HoldCorrect == Spec => []HInv
<1>1. Init => HInv
  BY TypeInit, HandshakeInit, AgreeInit, HoldInit DEF HInv
<1>2. HInv /\ [Next]_vars => HInv'
  BY TypeStep, HandshakeStep, AgreeStep, HoldStep DEF HInv
<1>3. QED
  BY <1>1, <1>2, PTL DEF Spec

(* As long as no re-INVITE was refused, a user on hold does not hear the   *)
(* other, and when nobody is on hold both speak and hear: the display of   *)
(* the softphone, the direction offered or answered and the one negotiated *)
(* stay together through every interleaving of the clicks of both users.   *)
THEOREM HoldIsKept == Spec => []HoldKept
<1>1. HInv => HoldKept
  <2> SUFFICES ASSUME HInv, Settled, mishaps = {}
               PROVE  /\ \A e \in Ends :
                           phone[e] => media[e].current \in {"sendonly", "inactive"}
                      /\ (\A e \in Ends : ~phone[e])
                           => \A e \in Ends : media[e].current = "sendrecv"
    BY DEF HoldKept
  <2>1. TypeOK /\ HandshakeInv /\ HoldInv /\ Alive
    BY SettledFacts DEF HInv
  <2>2. \A e \in Ends : /\ session[e].out = "None" /\ session[e].in = "None"
                        /\ \A k : ~Flies(net[e], k)
    BY SettledFacts DEF Settled
  <2>3. \A e \in Ends : ~Asking(e) /\ ~Answered(e)
    <3> SUFFICES ASSUME NEW e \in Ends PROVE ~Asking(e) /\ ~Answered(e)
      OBVIOUS
    <3> DEFINE p == Peer(e)
    <3>1. p \in Ends
      BY BothEnds
    <3> HIDE DEF p
    <3>2. Handshake(e, p) /\ Doing(e) /\ Doing(p)
      BY <2>1, <3>1 DEF HandshakeInv, p
    <3>3. QED
      BY ONLY <2>2, <3>1, <3>2 DEF Handshake, Doing, Asking, Answered
  <2>4. Good
    BY <2>1, <2>2, <2>3 DEF Good, Unharmed
  <2>5. ASSUME NEW e \in Ends
        PROVE  /\ phone[e] = session[e].hold /\ session[e].hold \in BOOLEAN
               /\ media[e].current = Audio(session[e].hold, session[Peer(e)].hold)
    <3>1. Peer(e) \in Ends
      BY BothEnds
    <3>2. Agreed(e) = session[e].hold /\ Agreed(Peer(e)) = session[Peer(e)].hold
      BY <2>1, <2>3, <3>1, AgreedTypes
    <3>3. QED
      BY <2>1, <2>3, <2>4, <3>2, AgreedTypes DEF HoldInv, Holding
  <2>6. QED
    BY <2>5, AudioFacts, BothEnds
<1>2. QED
  BY <1>1, HoldCorrect, PTL

==============================================================================
