--------------------------- MODULE SoftphoneProofs ---------------------------
(***************************************************************************)
(* Theorems about Softphone, for any number of calls, of requests in       *)
(* flight and of mishaps: types, a call in progress is the one the user    *)
(* can act on, and the record of a call that is over says what became of   *)
(* it.  HandleInv and RecordInv are the invariants that carry the last     *)
(* two; what every step does to the calls, the records and the requests is *)
(* said once, by the lemmas named ...Effect.                               *)
(***************************************************************************)
EXTENDS Softphone, TLAPS

(* The legs.                                                               *)

LegState == {"None", "Initial", "Establishing", "Established", "Terminating", "Terminated"}

LegEnd == {"none", "lost"} \cup Final

LEMMA LegFields ==
  ASSUME NEW l \in Leg
  PROVE  /\ l.dir \in {"none", "outgoing", "incoming"} /\ l.state \in LegState
         /\ l.mic \in {"none", "asked", "given"} /\ l.referred \in BOOLEAN
         /\ l.answered \in BOOLEAN /\ l.end \in LegEnd
         /\ \A v \in {"none", "outgoing", "incoming"} : [l EXCEPT !.dir = v] \in Leg
         /\ \A v \in LegState : [l EXCEPT !.state = v] \in Leg
         /\ \A v \in {"none", "asked", "given"} : [l EXCEPT !.mic = v] \in Leg
         /\ \A v \in BOOLEAN : [l EXCEPT !.referred = v] \in Leg
         /\ \A v \in BOOLEAN : [l EXCEPT !.answered = v] \in Leg
         /\ \A v \in LegEnd : [l EXCEPT !.end = v] \in Leg
  BY Zenon DEF Leg, LegState, LegEnd

LEMMA EndedLeg ==
  ASSUME NEW l \in Leg, NEW how \in LegEnd
  PROVE  /\ Ended(l, how) \in Leg
         /\ Ended(l, how).dir = l.dir /\ Ended(l, how).mic = l.mic
         /\ Ended(l, how).referred = l.referred
         /\ Ended(l, how).state = "Terminated" /\ Ended(l, how).end = how
<1>1. \A v \in LegState : [l EXCEPT !.state = v] \in Leg
  BY LegFields
<1>2. \A k \in Leg : [k EXCEPT !.end = how] \in Leg
  BY LegFields
<1>3. \A k \in Leg : [k EXCEPT !.answered = FALSE] \in Leg
  BY LegFields
<1>4. [l EXCEPT !.state = "Terminated", !.answered = FALSE, !.end = how] \in Leg
  BY <1>1, <1>2, <1>3, Zenon DEF LegState
<1>5. QED
  BY <1>4 DEF Ended, Leg

LEMMA UnansweredLegs ==
  ASSUME NEW legs \in [Calls -> Leg], NEW c \in Calls, NEW how \in LegEnd
  PROVE  /\ Unanswered(legs, c, how) \in [Calls -> Leg]
         /\ \A d \in Calls : d # c => Unanswered(legs, c, how)[d] = legs[d]
         /\ legs[c].state \in {"Initial", "Establishing"} =>
              Unanswered(legs, c, how)[c] = Ended(legs[c], how)
         /\ legs[c].state \notin {"Initial", "Establishing"} =>
              Unanswered(legs, c, how)[c] = legs[c]
<1> DEFINE l == IF legs[c].state \in {"Initial", "Establishing"} THEN Ended(legs[c], how)
                ELSE legs[c]
<1>1. l \in Leg
  BY EndedLeg
<1>2. Unanswered(legs, c, how) = [legs EXCEPT ![c] = l]
  BY DEF Unanswered
<1>3. l = Ended(legs[c], how) \/ legs[c].state \notin {"Initial", "Establishing"}
  OBVIOUS
<1>4. l = legs[c] \/ legs[c].state \in {"Initial", "Establishing"}
  OBVIOUS
<1> HIDE DEF l
<1>5. QED
  BY <1>1, <1>2, <1>3, <1>4

LEMMA GivenUpLegs ==
  ASSUME NEW legs \in [Calls -> Leg], NEW c \in Calls, NEW how \in LegEnd
  PROVE  /\ GivenUp(legs, c, how) \in [Calls -> Leg]
         /\ \A d \in Calls : d # c => GivenUp(legs, c, how)[d] = legs[d]
         /\ GivenUp(legs, c, how)[c].dir = legs[c].dir
         /\ GivenUp(legs, c, how)[c].mic = "none"
         /\ GivenUp(legs, c, how)[c].referred = legs[c].referred
         /\ legs[c].state \in {"Initial", "Establishing"} =>
              /\ GivenUp(legs, c, how)[c].state = "Terminated"
              /\ GivenUp(legs, c, how)[c].end = how
         /\ legs[c].state \notin {"Initial", "Establishing"} =>
              /\ GivenUp(legs, c, how)[c].state = legs[c].state
              /\ GivenUp(legs, c, how)[c].end = legs[c].end
<1> DEFINE u == Unanswered(legs, c, how)
<1>1. /\ u \in [Calls -> Leg] /\ u[c] \in Leg
      /\ \A d \in Calls : d # c => u[d] = legs[d]
      /\ legs[c].state \in {"Initial", "Establishing"} => u[c] = Ended(legs[c], how)
      /\ legs[c].state \notin {"Initial", "Establishing"} => u[c] = legs[c]
  BY UnansweredLegs
<1>2. GivenUp(legs, c, how) = [u EXCEPT ![c].mic = "none"]
  BY DEF GivenUp
<1> HIDE DEF u
<1>3. [u[c] EXCEPT !.mic = "none"] \in Leg
  BY <1>1, LegFields
<1>4. GivenUp(legs, c, how) \in [Calls -> Leg]
  BY <1>1, <1>2, <1>3
<1>5. /\ \A d \in Calls : d # c => GivenUp(legs, c, how)[d] = legs[d]
      /\ GivenUp(legs, c, how)[c] = [u[c] EXCEPT !.mic = "none"]
  BY <1>1, <1>2
<1>6. /\ GivenUp(legs, c, how)[c].dir = u[c].dir
      /\ GivenUp(legs, c, how)[c].mic = "none"
      /\ GivenUp(legs, c, how)[c].referred = u[c].referred
      /\ GivenUp(legs, c, how)[c].state = u[c].state
      /\ GivenUp(legs, c, how)[c].end = u[c].end
  BY <1>1, <1>5 DEF Leg
<1>7. legs[c] \in Leg
  OBVIOUS
<1>8. QED
  BY <1>1, <1>4, <1>5, <1>6, <1>7, EndedLeg

(* A request leaves.                                                       *)
LEMMA AskFacts ==
  ASSUME TypeOK, NEW c \in Calls, NEW kind \in Kinds, NEW clears \in BOOLEAN,
         NEW also \in SUBSET Mishaps, Ask(c, kind, clears, also)
  PROVE  /\ \E n \in Request :
              /\ n \notin requests /\ requests' = requests \cup {n}
              /\ n.call = c /\ n.kind = kind /\ ~n.served /\ n.clears = clears
              /\ \A r \in requests : r.id # n.id
         /\ mishaps' \subseteq Mishaps /\ mishaps \subseteq mishaps' /\ also \subseteq mishaps'
         /\ About(c) = {} \/ "crossed" \in mishaps'
<1>1. PICK id \in 1 .. MaxRequests :
        /\ \A r \in requests : r.id # id
        /\ requests' = requests \cup {[id |-> id, call |-> c, kind |-> kind,
                                       clears |-> clears, served |-> FALSE]}
        /\ Went(also \cup IF About(c) = {} THEN {} ELSE {"crossed"})
  BY DEF Ask
<1> DEFINE n == [id |-> id, call |-> c, kind |-> kind, clears |-> clears, served |-> FALSE]
           x == IF About(c) = {} THEN {} ELSE {"crossed"}
<1>2. n \in Request
  BY DEF Request
<1>3. /\ n.call = c /\ n.kind = kind /\ ~n.served /\ n.id = id /\ n.clears = clears
  OBVIOUS
<1>4. x \subseteq Mishaps /\ (About(c) = {} \/ "crossed" \in x)
  BY DEF Mishaps
<1>5. requests' = requests \cup {n} /\ Went(also \cup x)
  BY <1>1
<1> HIDE DEF n, x
<1>6. mishaps' = mishaps \cup (also \cup x) /\ mishaps \subseteq Mishaps
  BY <1>5 DEF Went, TypeOK
<1>7. n \notin requests
  BY <1>1, <1>3
<1>8. /\ mishaps' \subseteq Mishaps /\ mishaps \subseteq mishaps' /\ also \subseteq mishaps'
      /\ About(c) = {} \/ "crossed" \in mishaps'
  BY <1>4, <1>6
<1>9. \A r \in requests : r.id # n.id
  BY <1>1, <1>3
<1>10. QED
  BY <1>2, <1>3, <1>5, <1>7, <1>8, <1>9

LEMMA AskTypes ==
  ASSUME TypeOK, NEW c \in Calls, NEW kind \in Kinds, NEW clears \in BOOLEAN,
         NEW also \in SUBSET Mishaps, Ask(c, kind, clears, also)
  PROVE  /\ requests' \subseteq Request /\ mishaps' \subseteq Mishaps
         /\ mishaps \subseteq mishaps'
         /\ \A r, q \in requests' : r.id = q.id => r = q
<1>1. PICK n \in Request : /\ requests' = requests \cup {n}
                           /\ \A r \in requests : r.id # n.id
  BY AskFacts
<1>2. requests \subseteq Request /\ \A r, q \in requests : r.id = q.id => r = q
  BY DEF TypeOK
<1>3. requests' \subseteq Request
  BY <1>1, <1>2
<1>4. ASSUME NEW r \in requests', NEW q \in requests', r.id = q.id PROVE r = q
  <2>1. (r \in requests \/ r = n) /\ (q \in requests \/ q = n)
    BY <1>1
  <2>2. QED
    BY <1>1, <1>2, <1>4, <2>1
<1>5. mishaps' \subseteq Mishaps /\ mishaps \subseteq mishaps'
  BY AskFacts
<1>6. QED
  BY <1>3, <1>4, <1>5

LEMMA AskNothingTypes ==
  ASSUME TypeOK, NEW also \in SUBSET Mishaps, AskNothing(also)
  PROVE  /\ requests' = requests /\ mishaps' = mishaps \cup also
         /\ requests' \subseteq Request /\ mishaps' \subseteq Mishaps
         /\ \A r, q \in requests' : r.id = q.id => r = q
  BY DEF AskNothing, Went, TypeOK

-----------------------------------------------------------------------------
(* What every step does to the calls.                                      *)

LEMMA DialEffect ==
  ASSUME TypeOK, NEW c \in Calls, Dial(c)
  PROVE  /\ leg[c].dir = "none"
         /\ leg' \in [Calls -> Leg]
         /\ \A d \in Calls : d # c => leg'[d] = leg[d]
         /\ leg'[c].dir = "outgoing"
         /\ leg'[c].state = leg[c].state
         /\ leg'[c].mic = leg[c].mic
         /\ leg'[c].referred = leg[c].referred
         /\ leg'[c].end = leg[c].end
         /\ session' = session
         /\ record' = record
         /\ \E also \in SUBSET Mishaps : /\ Ask(c, "create", FALSE, also)
                                         /\ session # NoCall \/ Busy => "overlap" \in also
<1> DEFINE l == [leg[c] EXCEPT !.dir = "outgoing"]
<1>1. leg' = [leg EXCEPT ![c] = l]
  BY DEF Dial, TypeOK, Leg
<1>2. leg \in [Calls -> Leg] /\ leg[c] \in Leg
  BY DEF TypeOK
<1>3. l \in Leg
  BY <1>2, LegFields, Zenon DEF LegState, LegEnd, Final
<1>4. /\ l.dir = "outgoing" /\ l.state = leg[c].state /\ l.mic = leg[c].mic
      /\ l.referred = leg[c].referred /\ l.end = leg[c].end
  BY <1>2 DEF Leg
<1> HIDE DEF l
<1>5. leg' \in [Calls -> Leg] /\ leg'[c] = l /\ \A d \in Calls : d # c => leg'[d] = leg[d]
  BY <1>1, <1>2, <1>3
<1>6. /\ leg[c].dir = "none"
      /\ session' = session
      /\ record' = record
      /\ \E also \in SUBSET Mishaps : /\ Ask(c, "create", FALSE, also)
                                      /\ session # NoCall \/ Busy => "overlap" \in also
  BY DEF Dial, Mishaps
<1>7. QED
  BY <1>3, <1>4, <1>5, <1>6

LEMMA InvitationTakenEffect ==
  ASSUME TypeOK, NEW c \in Calls, ReceiveInvitation(c), session = NoCall
  PROVE  /\ leg[c].dir = "none"
         /\ leg' \in [Calls -> Leg]
         /\ \A d \in Calls : d # c => leg'[d] = leg[d]
         /\ leg'[c].dir = "incoming"
         /\ leg'[c].state = "Initial"
         /\ leg'[c].mic = leg[c].mic
         /\ leg'[c].referred = leg[c].referred
         /\ leg'[c].end = leg[c].end
         /\ session' = session
         /\ record' = record
         /\ \E also \in SUBSET Mishaps : /\ Ask(c, "create", FALSE, also)
                                         /\ Busy => "overlap" \in also
<1> DEFINE l == [leg[c] EXCEPT !.dir = "incoming", !.state = "Initial"]
<1>1. leg' = [leg EXCEPT ![c] = l]
  BY DEF ReceiveInvitation, TypeOK, Leg
<1>2. leg \in [Calls -> Leg] /\ leg[c] \in Leg
  BY DEF TypeOK
<1>3. l \in Leg
  BY <1>2, LegFields, Zenon DEF LegState, LegEnd, Final
<1>4. /\ l.dir = "incoming" /\ l.state = "Initial" /\ l.mic = leg[c].mic
      /\ l.referred = leg[c].referred /\ l.end = leg[c].end
  BY <1>2 DEF Leg
<1> HIDE DEF l
<1>5. leg' \in [Calls -> Leg] /\ leg'[c] = l /\ \A d \in Calls : d # c => leg'[d] = leg[d]
  BY <1>1, <1>2, <1>3
<1>6. /\ leg[c].dir = "none"
      /\ session' = session
      /\ record' = record
      /\ \E also \in SUBSET Mishaps : /\ Ask(c, "create", FALSE, also)
                                      /\ Busy => "overlap" \in also
  BY DEF ReceiveInvitation, Mishaps
<1>7. QED
  BY <1>3, <1>4, <1>5, <1>6

LEMMA InvitationTurnedDownEffect ==
  ASSUME TypeOK, NEW c \in Calls, ReceiveInvitation(c), session # NoCall
  PROVE  /\ leg[c].dir = "none"
         /\ leg' \in [Calls -> Leg]
         /\ \A d \in Calls : d # c => leg'[d] = leg[d]
         /\ leg'[c].dir = "incoming"
         /\ leg'[c].state = "Terminated"
         /\ leg'[c].mic = leg[c].mic
         /\ leg'[c].referred = leg[c].referred
         /\ leg'[c].end = "rejected"
         /\ session' = session
         /\ record' = record
         /\ AskNothing({})
<1> DEFINE l == [leg[c] EXCEPT !.dir = "incoming", !.state = "Terminated", !.end = "rejected"]
<1>1. leg' = [leg EXCEPT ![c] = l]
  BY DEF ReceiveInvitation, TypeOK, Leg
<1>2. leg \in [Calls -> Leg] /\ leg[c] \in Leg
  BY DEF TypeOK
<1>3. l \in Leg
  BY <1>2, LegFields, Zenon DEF LegState, LegEnd, Final
<1>4. /\ l.dir = "incoming" /\ l.state = "Terminated" /\ l.mic = leg[c].mic
      /\ l.referred = leg[c].referred /\ l.end = "rejected"
  BY <1>2 DEF Leg
<1> HIDE DEF l
<1>5. leg' \in [Calls -> Leg] /\ leg'[c] = l /\ \A d \in Calls : d # c => leg'[d] = leg[d]
  BY <1>1, <1>2, <1>3
<1>6. /\ leg[c].dir = "none"
      /\ session' = session
      /\ record' = record
      /\ AskNothing({})
  BY DEF ReceiveInvitation, Mishaps
<1>7. QED
  BY <1>3, <1>4, <1>5, <1>6

LEMMA RejectInvitationEffect ==
  ASSUME TypeOK, NEW c \in Calls, RejectInvitation(c)
  PROVE  /\ leg[c].dir = "none"
         /\ leg' \in [Calls -> Leg]
         /\ \A d \in Calls : d # c => leg'[d] = leg[d]
         /\ leg'[c].dir = "incoming"
         /\ leg'[c].state = "Terminated"
         /\ leg'[c].mic = leg[c].mic
         /\ leg'[c].referred = leg[c].referred
         /\ leg'[c].end = "rejected"
         /\ session' = session
         /\ record' = record
         /\ requests' = requests /\ mishaps' = mishaps
<1> DEFINE l == [leg[c] EXCEPT !.dir = "incoming", !.state = "Terminated", !.end = "rejected"]
<1>1. leg' = [leg EXCEPT ![c] = l]
  BY DEF RejectInvitation, TypeOK, Leg
<1>2. leg \in [Calls -> Leg] /\ leg[c] \in Leg
  BY DEF TypeOK
<1>3. l \in Leg
  BY <1>2, LegFields, Zenon DEF LegState, LegEnd, Final
<1>4. /\ l.dir = "incoming" /\ l.state = "Terminated" /\ l.mic = leg[c].mic
      /\ l.referred = leg[c].referred /\ l.end = "rejected"
  BY <1>2 DEF Leg
<1> HIDE DEF l
<1>5. leg' \in [Calls -> Leg] /\ leg'[c] = l /\ \A d \in Calls : d # c => leg'[d] = leg[d]
  BY <1>1, <1>2, <1>3
<1>6. /\ leg[c].dir = "none"
      /\ session' = session
      /\ record' = record
      /\ requests' = requests /\ mishaps' = mishaps
  BY DEF RejectInvitation, Mishaps
<1>7. QED
  BY <1>3, <1>4, <1>5, <1>6

LEMMA ClickAcceptEffect ==
  ASSUME TypeOK, ClickAccept, session \in Calls
  PROVE  /\ leg[session].dir = "incoming" /\ leg[session].state = "Initial"
         /\ leg' \in [Calls -> Leg]
         /\ \A d \in Calls : d # session => leg'[d] = leg[d]
         /\ leg'[session].dir = leg[session].dir
         /\ leg'[session].state = "Establishing"
         /\ leg'[session].mic = "asked"
         /\ leg'[session].referred = leg[session].referred
         /\ leg'[session].end = leg[session].end
         /\ session' = session
         /\ record' = record
         /\ \E also \in SUBSET Mishaps : AskNothing(also)
<1> DEFINE l == [leg[session] EXCEPT !.state = "Establishing", !.mic = "asked"]
<1>1. leg' = [leg EXCEPT ![session] = l]
  BY DEF ClickAccept, TypeOK, Leg
<1>2. leg \in [Calls -> Leg] /\ leg[session] \in Leg
  BY DEF TypeOK
<1>3. l \in Leg
  BY <1>2, LegFields, Zenon DEF LegState, LegEnd, Final
<1>4. /\ l.dir = leg[session].dir /\ l.state = "Establishing" /\ l.mic = "asked"
      /\ l.referred = leg[session].referred /\ l.end = leg[session].end
  BY <1>2 DEF Leg
<1> HIDE DEF l
<1>5. /\ leg' \in [Calls -> Leg] /\ leg'[session] = l
      /\ \A d \in Calls : d # session => leg'[d] = leg[d]
  BY <1>1, <1>2, <1>3
<1>6. /\ leg[session].dir = "incoming" /\ leg[session].state = "Initial"
      /\ session' = session
      /\ record' = record
      /\ \E also \in SUBSET Mishaps : AskNothing(also)
  BY DEF ClickAccept, Mishaps, Mistaken
<1>7. QED
  BY <1>3, <1>4, <1>5, <1>6

LEMMA ClickTransferEffect ==
  ASSUME TypeOK, ClickTransfer, session \in Calls
  PROVE  /\ leg[session].state = "Established"
         /\ leg' \in [Calls -> Leg]
         /\ \A d \in Calls : d # session => leg'[d] = leg[d]
         /\ leg'[session].dir = leg[session].dir
         /\ leg'[session].state = leg[session].state
         /\ leg'[session].mic = leg[session].mic
         /\ leg'[session].referred = TRUE
         /\ leg'[session].end = leg[session].end
         /\ session' = session
         /\ record' = record
         /\ \E also \in SUBSET Mishaps : AskNothing(also)
<1> DEFINE l == [leg[session] EXCEPT !.referred = TRUE]
<1>1. leg' = [leg EXCEPT ![session] = l]
  BY DEF ClickTransfer, TypeOK, Leg
<1>2. leg \in [Calls -> Leg] /\ leg[session] \in Leg
  BY DEF TypeOK
<1>3. l \in Leg
  BY <1>2, LegFields, Zenon DEF LegState, LegEnd, Final
<1>4. /\ l.dir = leg[session].dir /\ l.state = leg[session].state /\ l.mic = leg[session].mic
      /\ l.referred = TRUE /\ l.end = leg[session].end
  BY <1>2 DEF Leg
<1> HIDE DEF l
<1>5. /\ leg' \in [Calls -> Leg] /\ leg'[session] = l
      /\ \A d \in Calls : d # session => leg'[d] = leg[d]
  BY <1>1, <1>2, <1>3
<1>6. /\ leg[session].state = "Established"
      /\ session' = session
      /\ record' = record
      /\ \E also \in SUBSET Mishaps : AskNothing(also)
  BY DEF ClickTransfer, Mishaps, Mistaken
<1>7. QED
  BY <1>3, <1>4, <1>5, <1>6

LEMMA MicGrantedEffect ==
  ASSUME TypeOK, NEW c \in Calls, MicGranted(c)
  PROVE  /\ leg[c].mic = "asked"
         /\ leg' \in [Calls -> Leg]
         /\ \A d \in Calls : d # c => leg'[d] = leg[d]
         /\ leg'[c].dir = leg[c].dir
         /\ leg'[c].state = leg[c].state
         /\ leg'[c].mic = "given"
         /\ leg'[c].referred = leg[c].referred
         /\ leg'[c].end = leg[c].end
         /\ session' = session
         /\ record' = record
         /\ \/ /\ session # NoCall /\ leg[session].dir = "incoming"
               /\ Ask(session, "start", FALSE, Stale(c))
            \/ /\ session = NoCall \/ leg[session].dir # "incoming"
               /\ AskNothing({})
<1> DEFINE l == [leg[c] EXCEPT !.mic = "given"]
<1>1. leg' = [leg EXCEPT ![c] = l]
  BY DEF MicGranted, TypeOK, Leg
<1>2. leg \in [Calls -> Leg] /\ leg[c] \in Leg
  BY DEF TypeOK
<1>3. l \in Leg
  BY <1>2, LegFields, Zenon DEF LegState, LegEnd, Final
<1>4. /\ l.dir = leg[c].dir /\ l.state = leg[c].state /\ l.mic = "given"
      /\ l.referred = leg[c].referred /\ l.end = leg[c].end
  BY <1>2 DEF Leg
<1> HIDE DEF l
<1>5. leg' \in [Calls -> Leg] /\ leg'[c] = l /\ \A d \in Calls : d # c => leg'[d] = leg[d]
  BY <1>1, <1>2, <1>3
<1>6. /\ leg[c].mic = "asked"
      /\ session' = session
      /\ record' = record
      /\ \/ /\ session # NoCall /\ leg[session].dir = "incoming"
            /\ Ask(session, "start", FALSE, Stale(c))
         \/ /\ session = NoCall \/ leg[session].dir # "incoming"
            /\ AskNothing({})
  BY DEF MicGranted, Mishaps
<1>7. QED
  BY <1>3, <1>4, <1>5, <1>6

LEMMA OfferReadyEffect ==
  ASSUME TypeOK, NEW c \in Calls, OfferReady(c)
  PROVE  /\ leg[c].dir = "outgoing" /\ leg[c].state = "Initial" /\ leg[c].mic = "given"
         /\ leg' \in [Calls -> Leg]
         /\ \A d \in Calls : d # c => leg'[d] = leg[d]
         /\ leg'[c].dir = leg[c].dir
         /\ leg'[c].state = "Establishing"
         /\ leg'[c].mic = leg[c].mic
         /\ leg'[c].referred = leg[c].referred
         /\ leg'[c].end = leg[c].end
         /\ session' = session
         /\ record' = record
         /\ requests' = requests /\ mishaps' = mishaps
<1> DEFINE l == [leg[c] EXCEPT !.state = "Establishing"]
<1>1. leg' = [leg EXCEPT ![c] = l]
  BY DEF OfferReady, TypeOK, Leg
<1>2. leg \in [Calls -> Leg] /\ leg[c] \in Leg
  BY DEF TypeOK
<1>3. l \in Leg
  BY <1>2, LegFields, Zenon DEF LegState, LegEnd, Final
<1>4. /\ l.dir = leg[c].dir /\ l.state = "Establishing" /\ l.mic = leg[c].mic
      /\ l.referred = leg[c].referred /\ l.end = leg[c].end
  BY <1>2 DEF Leg
<1> HIDE DEF l
<1>5. leg' \in [Calls -> Leg] /\ leg'[c] = l /\ \A d \in Calls : d # c => leg'[d] = leg[d]
  BY <1>1, <1>2, <1>3
<1>6. /\ leg[c].dir = "outgoing" /\ leg[c].state = "Initial" /\ leg[c].mic = "given"
      /\ session' = session
      /\ record' = record
      /\ requests' = requests /\ mishaps' = mishaps
  BY DEF OfferReady, Mishaps
<1>7. QED
  BY <1>3, <1>4, <1>5, <1>6

LEMMA AcceptSentEffect ==
  ASSUME TypeOK, NEW c \in Calls, AcceptSent(c)
  PROVE  /\ leg[c].dir = "incoming" /\ leg[c].state = "Establishing" /\ leg[c].mic = "given"
         /\ leg' \in [Calls -> Leg]
         /\ \A d \in Calls : d # c => leg'[d] = leg[d]
         /\ leg'[c].dir = leg[c].dir
         /\ leg'[c].state = "Established"
         /\ leg'[c].mic = leg[c].mic
         /\ leg'[c].referred = leg[c].referred
         /\ leg'[c].end = leg[c].end
         /\ session' = session
         /\ record' = record
         /\ requests' = requests /\ mishaps' = mishaps
<1> DEFINE l == [leg[c] EXCEPT !.state = "Established"]
<1>1. leg' = [leg EXCEPT ![c] = l]
  BY DEF AcceptSent, TypeOK, Leg
<1>2. leg \in [Calls -> Leg] /\ leg[c] \in Leg
  BY DEF TypeOK
<1>3. l \in Leg
  BY <1>2, LegFields, Zenon DEF LegState, LegEnd, Final
<1>4. /\ l.dir = leg[c].dir /\ l.state = "Established" /\ l.mic = leg[c].mic
      /\ l.referred = leg[c].referred /\ l.end = leg[c].end
  BY <1>2 DEF Leg
<1> HIDE DEF l
<1>5. leg' \in [Calls -> Leg] /\ leg'[c] = l /\ \A d \in Calls : d # c => leg'[d] = leg[d]
  BY <1>1, <1>2, <1>3
<1>6. /\ leg[c].dir = "incoming" /\ leg[c].state = "Establishing" /\ leg[c].mic = "given"
      /\ session' = session
      /\ record' = record
      /\ requests' = requests /\ mishaps' = mishaps
  BY DEF AcceptSent, Mishaps
<1>7. QED
  BY <1>3, <1>4, <1>5, <1>6

LEMMA AnswerReceivedEffect ==
  ASSUME TypeOK, NEW c \in Calls, AnswerReceived(c)
  PROVE  /\ leg[c].dir = "outgoing" /\ leg[c].state = "Establishing"
         /\ leg' \in [Calls -> Leg]
         /\ \A d \in Calls : /\ leg'[d].dir = leg[d].dir /\ leg'[d].state = leg[d].state
                             /\ leg'[d].mic = leg[d].mic
                             /\ leg'[d].referred = leg[d].referred
                             /\ leg'[d].end = leg[d].end
         /\ session' = session
         /\ record' = record
         /\ requests' = requests /\ mishaps' = mishaps
<1> DEFINE l == [leg[c] EXCEPT !.answered = TRUE]
<1>1. leg' = [leg EXCEPT ![c] = l]
  BY DEF AnswerReceived, TypeOK, Leg
<1>2. leg \in [Calls -> Leg] /\ leg[c] \in Leg
  BY DEF TypeOK
<1>3. l \in Leg
  BY <1>2, LegFields, Zenon
<1>4. /\ l.dir = leg[c].dir /\ l.state = leg[c].state /\ l.mic = leg[c].mic
      /\ l.referred = leg[c].referred /\ l.end = leg[c].end
  BY <1>2 DEF Leg
<1> HIDE DEF l
<1>5. leg' \in [Calls -> Leg] /\ leg'[c] = l /\ \A d \in Calls : d # c => leg'[d] = leg[d]
  BY <1>1, <1>2, <1>3
<1>6. /\ leg[c].dir = "outgoing" /\ leg[c].state = "Establishing"
      /\ session' = session
      /\ record' = record
      /\ requests' = requests /\ mishaps' = mishaps
  BY DEF AnswerReceived
<1>7. QED
  BY <1>4, <1>5, <1>6

(* What becomes of a leg whose answer was applied, or could not be.        *)
Settles(c, l) ==
  \/ leg[c].state = "Establishing" /\ l.state = "Established" /\ l.end = leg[c].end
  \/ l.state = "Terminated" /\ l.end = "aborted"

(* The mishaps in also are those of the step that settles the leg of c.    *)
Tallies(c, l, also) ==
  /\ leg[c].state = "Terminating" /\ session \notin {c, NoCall} => "belated" \in also
  /\ leg[c].state = "Establishing" /\ session = c /\ l.state = "Terminated"
       => "unnoticed" \in also

LEMMA AppliedLegs ==
  ASSUME TypeOK, NEW c \in Calls, Inviting(c), NEW l \in Applied(c)
  PROVE  /\ l \in Leg /\ l.dir = leg[c].dir /\ l.mic = leg[c].mic
         /\ l.referred = leg[c].referred /\ Settles(c, l)
         /\ Amiss(c, l) \in SUBSET Mishaps /\ Tallies(c, l, Amiss(c, l))
<1>1. leg[c] \in Leg
  BY DEF TypeOK
<1> DEFINE e == Ended(leg[c], "aborted")
           m == [leg[c] EXCEPT !.state = "Established", !.answered = FALSE]
<1>2. l = e \/ (leg[c].state = "Establishing" /\ l = m)
  BY DEF Applied
<1>3. /\ e \in Leg /\ e.dir = leg[c].dir /\ e.mic = leg[c].mic
      /\ e.referred = leg[c].referred /\ e.state = "Terminated" /\ e.end = "aborted"
  BY <1>1, EndedLeg DEF LegEnd, Final
<1>4. m \in Leg
  <2>1. [leg[c] EXCEPT !.state = "Established"] \in Leg
    BY <1>1, LegFields DEF LegState
  <2>2. [[leg[c] EXCEPT !.state = "Established"] EXCEPT !.answered = FALSE] \in Leg
    BY <2>1, LegFields
  <2>3. QED
    BY <2>2, Zenon
<1>5. /\ m.dir = leg[c].dir /\ m.mic = leg[c].mic /\ m.referred = leg[c].referred
      /\ m.state = "Established" /\ m.end = leg[c].end
  BY <1>1 DEF Leg
<1> HIDE DEF e, m
<1>6. /\ l \in Leg /\ l.dir = leg[c].dir /\ l.mic = leg[c].mic
      /\ l.referred = leg[c].referred /\ Settles(c, l)
  BY <1>2, <1>3, <1>4, <1>5 DEF Settles
<1>7. Amiss(c, l) \in SUBSET Mishaps
  BY DEF Amiss, Belated, Mishaps
<1>8. leg[c].state = "Establishing" /\ session = c => HasAudio
  BY CallsAssumption DEF HasAudio
<1>9. Tallies(c, l, Amiss(c, l))
  BY <1>8 DEF Tallies, Amiss, Belated
<1>10. QED
  BY <1>6, <1>7, <1>9

LEMMA AcceptedEffect ==
  ASSUME TypeOK, NEW c \in Calls, Accepted(c)
  PROVE  /\ leg[c].dir = "outgoing" /\ leg[c].state \in {"Establishing", "Terminating"}
         /\ leg' \in [Calls -> Leg]
         /\ \A d \in Calls : d # c => leg'[d] = leg[d]
         /\ leg'[c].dir = leg[c].dir
         /\ leg'[c].mic = leg[c].mic
         /\ leg'[c].referred = leg[c].referred
         /\ Settles(c, leg'[c])
         /\ session' = session
         /\ record' = record
         /\ \E also \in SUBSET Mishaps :
              /\ Tallies(c, leg'[c], also)
              /\ \/ session = NoCall /\ AskNothing(also)
                 \/ session # NoCall /\ Ask(session, "start", FALSE, also)
<1>1. PICK l \in Applied(c) :
        /\ leg' = [leg EXCEPT ![c] = l]
        /\ IF session = NoCall THEN AskNothing(Amiss(c, l))
           ELSE Ask(session, "start", FALSE, Amiss(c, l))
  BY Zenon DEF Accepted
<1>2. leg \in [Calls -> Leg] /\ Inviting(c)
  BY DEF TypeOK, Accepted
<1>3. /\ l \in Leg /\ l.dir = leg[c].dir /\ l.mic = leg[c].mic
      /\ l.referred = leg[c].referred /\ Settles(c, l)
      /\ Amiss(c, l) \in SUBSET Mishaps /\ Tallies(c, l, Amiss(c, l))
  BY <1>2, AppliedLegs
<1>4. leg' \in [Calls -> Leg] /\ leg'[c] = l /\ \A d \in Calls : d # c => leg'[d] = leg[d]
  BY <1>1, <1>2, <1>3
<1>5. /\ leg[c].dir = "outgoing" /\ leg[c].state \in {"Establishing", "Terminating"}
      /\ session' = session /\ record' = record
  BY <1>2 DEF Accepted, Inviting
<1>6. \/ session = NoCall /\ AskNothing(Amiss(c, l))
      \/ session # NoCall /\ Ask(session, "start", FALSE, Amiss(c, l))
  BY <1>1, Zenon
<1>7. \E also \in SUBSET Mishaps :
        /\ Tallies(c, leg'[c], also)
        /\ \/ session = NoCall /\ AskNothing(also)
           \/ session # NoCall /\ Ask(session, "start", FALSE, also)
  BY <1>3, <1>4, <1>6, Zenon
<1>8. QED
  BY <1>3, <1>4, <1>5, <1>7, Zenon

LEMMA RefusedEffect ==
  ASSUME TypeOK, NEW c \in Calls, Refused(c)
  PROVE  /\ leg[c].dir = "outgoing" /\ leg[c].state \in {"Establishing", "Terminating"}
         /\ leg' \in [Calls -> Leg]
         /\ \A d \in Calls : d # c => leg'[d] = leg[d]
         /\ leg'[c].dir = leg[c].dir
         /\ leg'[c].state = "Terminated"
         /\ leg'[c].mic = leg[c].mic
         /\ leg'[c].referred = leg[c].referred
         /\ leg[c].state = "Establishing" => leg'[c].end = "rejected"
         /\ leg[c].state = "Terminating" => leg'[c].end = "aborted"
         /\ session' = NoCall
         /\ record' = record
         /\ \/ session = NoCall /\ AskNothing({})
            \/ session # NoCall /\ Ask(session, "reject", FALSE, Belated(c))
         /\ Belated(c) \in SUBSET Mishaps
<1> DEFINE how == IF leg[c].state = "Establishing" THEN "rejected" ELSE "aborted"
           l == Ended(leg[c], how)
<1>1. leg \in [Calls -> Leg] /\ leg[c] \in Leg
  BY DEF TypeOK
<1>2. leg' = [leg EXCEPT ![c] = l]
  BY <1>1 DEF Refused
<1>3. /\ l \in Leg /\ l.dir = leg[c].dir /\ l.mic = leg[c].mic
      /\ l.referred = leg[c].referred /\ l.state = "Terminated" /\ l.end = how
  <2>1. how \in LegEnd
    BY DEF LegEnd, Final
  <2> HIDE DEF how
  <2>2. QED
    BY <1>1, <2>1, EndedLeg
<1> HIDE DEF l
<1>4. leg' \in [Calls -> Leg] /\ leg'[c] = l /\ \A d \in Calls : d # c => leg'[d] = leg[d]
  BY <1>1, <1>2, <1>3
<1>5. /\ leg[c].dir = "outgoing" /\ leg[c].state \in {"Establishing", "Terminating"}
      /\ session' = NoCall
      /\ record' = record
      /\ Belated(c) \in SUBSET Mishaps
  BY DEF Refused, Inviting, Belated, Mishaps
<1>6. /\ leg[c].state = "Establishing" => how = "rejected"
      /\ leg[c].state = "Terminating" => how = "aborted"
  OBVIOUS
<1> HIDE DEF how
<1>7. \/ session = NoCall /\ AskNothing({})
      \/ session # NoCall /\ Ask(session, "reject", FALSE, Belated(c))
  <2>1. CASE session = NoCall
    BY <2>1, Zenon DEF Refused
  <2>2. CASE session # NoCall
    BY <2>2, Zenon DEF Refused
  <2>3. QED
    BY <2>1, <2>2
<1>8. QED
  BY <1>3, <1>4, <1>5, <1>6, <1>7

LEMMA CanceledEffect ==
  ASSUME TypeOK, NEW c \in Calls, Canceled(c)
  PROVE  /\ leg[c].state = "Terminating"
         /\ leg' \in [Calls -> Leg]
         /\ \A d \in Calls : d # c => leg'[d] = leg[d]
         /\ leg'[c].dir = leg[c].dir
         /\ leg'[c].state = "Terminated"
         /\ leg'[c].mic = leg[c].mic
         /\ leg'[c].referred = leg[c].referred
         /\ leg'[c].end = leg[c].end
         /\ session' = session
         /\ record' = record
         /\ requests' = requests /\ mishaps' = mishaps
<1> DEFINE l == [leg[c] EXCEPT !.state = "Terminated"]
<1>1. leg' = [leg EXCEPT ![c] = l]
  BY DEF Canceled, TypeOK, Leg
<1>2. leg \in [Calls -> Leg] /\ leg[c] \in Leg
  BY DEF TypeOK
<1>3. l \in Leg
  BY <1>2, LegFields, Zenon DEF LegState, LegEnd, Final
<1>4. /\ l.dir = leg[c].dir /\ l.state = "Terminated" /\ l.mic = leg[c].mic
      /\ l.referred = leg[c].referred /\ l.end = leg[c].end
  BY <1>2 DEF Leg
<1> HIDE DEF l
<1>5. leg' \in [Calls -> Leg] /\ leg'[c] = l /\ \A d \in Calls : d # c => leg'[d] = leg[d]
  BY <1>1, <1>2, <1>3
<1>6. /\ leg[c].state = "Terminating"
      /\ session' = session
      /\ record' = record
      /\ requests' = requests /\ mishaps' = mishaps
  BY DEF Canceled, Mishaps
<1>7. QED
  BY <1>3, <1>4, <1>5, <1>6

LEMMA ReceiveByeEffect ==
  ASSUME TypeOK, NEW c \in Calls, ReceiveBye(c)
  PROVE  /\ leg[c].state = "Established"
         /\ leg' \in [Calls -> Leg]
         /\ \A d \in Calls : d # c => leg'[d] = leg[d]
         /\ leg'[c].dir = leg[c].dir
         /\ leg'[c].state = "Terminated"
         /\ leg'[c].mic = leg[c].mic
         /\ leg'[c].referred = leg[c].referred
         /\ leg'[c].end = "terminated"
         /\ session' = session
         /\ record' = record
         /\ \/ session = NoCall /\ AskNothing({})
            \/ session # NoCall /\ Ask(session, "end", TRUE, {})
<1> DEFINE l == Ended(leg[c], "terminated")
<1>1. leg' = [leg EXCEPT ![c] = l]
  BY DEF ReceiveBye
<1>2. leg \in [Calls -> Leg] /\ leg[c] \in Leg
  BY DEF TypeOK
<1>3. /\ l \in Leg /\ l.dir = leg[c].dir /\ l.mic = leg[c].mic
      /\ l.referred = leg[c].referred /\ l.state = "Terminated" /\ l.end = "terminated"
  BY <1>2, EndedLeg DEF LegEnd, Final
<1> HIDE DEF l
<1>4. leg' \in [Calls -> Leg] /\ leg'[c] = l /\ \A d \in Calls : d # c => leg'[d] = leg[d]
  BY <1>1, <1>2, <1>3
<1>5. /\ leg[c].state = "Established"
      /\ session' = session
      /\ record' = record
      /\ \/ session = NoCall /\ AskNothing({})
         \/ session # NoCall /\ Ask(session, "end", TRUE, {})
  <2>1. CASE session = NoCall
    BY <2>1, Zenon DEF ReceiveBye
  <2>2. CASE session # NoCall
    BY <2>2, Zenon DEF ReceiveBye
  <2>3. QED
    BY <2>1, <2>2
<1>6. QED
  BY <1>3, <1>4, <1>5

LEMMA CancelEarlyEffect ==
  ASSUME TypeOK, NEW c \in Calls, CancelEarly(c)
  PROVE  /\ leg[c].dir = "incoming" /\ leg[c].state = "Initial"
         /\ leg' \in [Calls -> Leg]
         /\ \A d \in Calls : d # c => leg'[d] = leg[d]
         /\ leg'[c].dir = leg[c].dir
         /\ leg'[c].state = "Terminated"
         /\ leg'[c].mic = leg[c].mic
         /\ leg'[c].referred = leg[c].referred
         /\ leg'[c].end = "missed"
         /\ session' = session
         /\ record' = record
         /\ AskNothing({"early"})
<1> DEFINE l == Ended(leg[c], "missed")
<1>1. leg' = [leg EXCEPT ![c] = l]
  BY DEF CancelEarly
<1>2. leg \in [Calls -> Leg] /\ leg[c] \in Leg
  BY DEF TypeOK
<1>3. /\ l \in Leg /\ l.dir = leg[c].dir /\ l.mic = leg[c].mic
      /\ l.referred = leg[c].referred /\ l.state = "Terminated" /\ l.end = "missed"
  BY <1>2, EndedLeg DEF LegEnd, Final
<1> HIDE DEF l
<1>4. leg' \in [Calls -> Leg] /\ leg'[c] = l /\ \A d \in Calls : d # c => leg'[d] = leg[d]
  BY <1>1, <1>2, <1>3
<1>5. /\ leg[c].dir = "incoming" /\ leg[c].state = "Initial"
      /\ session' = session
      /\ record' = record
      /\ AskNothing({"early"})
  BY DEF CancelEarly, Mishaps
<1>6. QED
  BY <1>3, <1>4, <1>5

LEMMA UnnoticedRingingEffect ==
  ASSUME TypeOK, NEW c \in Calls, Unnoticed(c), leg[c].state \in {"Initial", "Establishing"}
  PROVE  /\ leg[c].dir = "incoming" \/ leg[c].mic = "given"
         /\ leg' \in [Calls -> Leg]
         /\ \A d \in Calls : d # c => leg'[d] = leg[d]
         /\ leg'[c].dir = leg[c].dir
         /\ leg'[c].state = "Terminated"
         /\ leg'[c].mic = leg[c].mic
         /\ leg'[c].referred = leg[c].referred
         /\ leg'[c].end = "aborted"
         /\ session' = session
         /\ record' = record
         /\ AskNothing({"unnoticed"})
<1> DEFINE l == Ended(leg[c], "aborted")
<1>1. leg' = [leg EXCEPT ![c] = l]
  BY DEF Unnoticed
<1>2. leg \in [Calls -> Leg] /\ leg[c] \in Leg
  BY DEF TypeOK
<1>3. /\ l \in Leg /\ l.dir = leg[c].dir /\ l.mic = leg[c].mic
      /\ l.referred = leg[c].referred /\ l.state = "Terminated" /\ l.end = "aborted"
  BY <1>2, EndedLeg DEF LegEnd, Final
<1> HIDE DEF l
<1>4. leg' \in [Calls -> Leg] /\ leg'[c] = l /\ \A d \in Calls : d # c => leg'[d] = leg[d]
  BY <1>1, <1>2, <1>3
<1>5. /\ leg[c].dir = "incoming" \/ leg[c].mic = "given"
      /\ session' = session
      /\ record' = record
      /\ AskNothing({"unnoticed"})
  BY DEF Unnoticed, Mishaps
<1>6. QED
  BY <1>3, <1>4, <1>5

LEMMA UnnoticedTalkingEffect ==
  ASSUME TypeOK, NEW c \in Calls, Unnoticed(c), leg[c].state \notin {"Initial", "Establishing"}
  PROVE  /\ leg[c].state = "Established"
         /\ leg' \in [Calls -> Leg]
         /\ \A d \in Calls : d # c => leg'[d] = leg[d]
         /\ leg'[c].dir = leg[c].dir
         /\ leg'[c].state = "Terminated"
         /\ leg'[c].mic = leg[c].mic
         /\ leg'[c].referred = leg[c].referred
         /\ leg'[c].end = "terminated"
         /\ session' = session
         /\ record' = record
         /\ AskNothing({"unnoticed"})
<1> DEFINE l == Ended(leg[c], "terminated")
<1>1. leg' = [leg EXCEPT ![c] = l]
  BY DEF Unnoticed
<1>2. leg \in [Calls -> Leg] /\ leg[c] \in Leg
  BY DEF TypeOK
<1>3. /\ l \in Leg /\ l.dir = leg[c].dir /\ l.mic = leg[c].mic
      /\ l.referred = leg[c].referred /\ l.state = "Terminated" /\ l.end = "terminated"
  BY <1>2, EndedLeg DEF LegEnd, Final
<1> HIDE DEF l
<1>4. leg' \in [Calls -> Leg] /\ leg'[c] = l /\ \A d \in Calls : d # c => leg'[d] = leg[d]
  BY <1>1, <1>2, <1>3
<1>5. /\ leg[c].state = "Established"
      /\ session' = session
      /\ record' = record
      /\ AskNothing({"unnoticed"})
  BY DEF Unnoticed, Mishaps
<1>6. QED
  BY <1>3, <1>4, <1>5

-----------------------------------------------------------------------------
(* What the server does to the records.                                    *)

LEMMA ResultType ==
  ASSUME NEW kind \in Kinds
  PROVE  Result(kind) \in RecordState
  BY DEF Kinds, Result, RecordState, Final

LEMMA RecordFields ==
  ASSUME NEW k \in Record
  PROVE  /\ k.db \in RecordState /\ k.shown \in RecordState /\ k.ticking \in BOOLEAN
         /\ \A v \in RecordState : [k EXCEPT !.db = v] \in Record
         /\ \A v \in RecordState : [k EXCEPT !.shown = v] \in Record
         /\ \A v \in BOOLEAN : [k EXCEPT !.ticking = v] \in Record
  BY Zenon DEF Record

LEMMA RequestFields ==
  ASSUME TypeOK, NEW r \in requests
  PROVE  /\ r \in Request /\ r.id \in 1 .. MaxRequests /\ r.call \in Calls
         /\ r.kind \in Kinds /\ r.clears \in BOOLEAN /\ r.served \in BOOLEAN
<1>1. r \in Request
  BY DEF TypeOK
<1>2. QED
  BY <1>1, Zenon DEF Request

LEMMA ServeEffect ==
  ASSUME TypeOK, NEW r \in requests, Serve(r)
  PROVE  /\ r.call \in Calls /\ r.kind \in Kinds /\ ~r.served
         /\ session' = session /\ leg' = leg /\ mishaps' = mishaps
         /\ record' \in [Calls -> Record]
         /\ \A d \in Calls : d # r.call => record'[d] = record[d]
         /\ record'[r.call].db = Result(r.kind)
         /\ record'[r.call].shown = record[r.call].shown
         /\ record'[r.call].ticking = record[r.call].ticking
         /\ \E n \in Request : /\ requests' = (requests \ {r}) \cup {n}
                               /\ n.id = r.id /\ n.call = r.call /\ n.kind = r.kind
                               /\ n.clears = r.clears /\ n.served = TRUE
<1> DEFINE n == [r EXCEPT !.served = TRUE]
           k == [record[r.call] EXCEPT !.db = Result(r.kind)]
<1>1. /\ r \in Request /\ r.call \in Calls /\ r.kind \in Kinds
      /\ record \in [Calls -> Record] /\ record[r.call] \in Record
  BY RequestFields DEF TypeOK
<1>2. n \in Request
  BY <1>1 DEF Request
<1>3. /\ n.id = r.id /\ n.call = r.call /\ n.kind = r.kind
      /\ n.clears = r.clears /\ n.served = TRUE
  BY <1>1 DEF Request
<1>4. k \in Record
  BY <1>1, RecordFields, ResultType
<1>5. /\ k.db = Result(r.kind) /\ k.shown = record[r.call].shown
      /\ k.ticking = record[r.call].ticking
  BY <1>1 DEF Record
<1>6. /\ ~r.served /\ session' = session /\ leg' = leg /\ mishaps' = mishaps
      /\ requests' = (requests \ {r}) \cup {n} /\ record' = [record EXCEPT ![r.call] = k]
  BY <1>1 DEF Serve, Record
<1> HIDE DEF n, k
<1>7. /\ record' \in [Calls -> Record] /\ record'[r.call] = k
      /\ \A d \in Calls : d # r.call => record'[d] = record[d]
  BY <1>1, <1>4, <1>6
<1>8. QED
  BY <1>1, <1>2, <1>3, <1>5, <1>6, <1>7

LEMMA AnsweredEffect ==
  ASSUME TypeOK, NEW r \in requests, Answered(r)
  PROVE  /\ r.call \in Calls /\ r.kind \in Kinds /\ r.kind # "create" /\ r.served
         /\ leg' = leg /\ mishaps' = mishaps /\ requests' = requests \ {r}
         /\ record' \in [Calls -> Record]
         /\ \A d \in Calls : d # r.call => record'[d] = record[d]
         /\ record'[r.call].db = record[r.call].db
         /\ record'[r.call].shown = Result(r.kind)
         /\ record'[r.call].ticking <=>
              (record[r.call].ticking \/ r.kind = "start") /\ r.kind # "end"
         /\ r.clears => session' = NoCall
         /\ ~r.clears => session' = session
<1> DEFINE t == (record[r.call].ticking \/ r.kind = "start") /\ r.kind # "end"
           k == [record[r.call] EXCEPT !.shown = Result(r.kind), !.ticking = t]
<1>1. /\ r \in Request /\ r.call \in Calls /\ r.kind \in Kinds
      /\ record \in [Calls -> Record] /\ record[r.call] \in Record
  BY RequestFields DEF TypeOK
<1>2. /\ r.kind # "create" /\ r.served /\ leg' = leg /\ mishaps' = mishaps
      /\ requests' = requests \ {r}
      /\ session' = IF r.clears THEN NoCall ELSE session
  BY DEF Answered, Creating
<1>3. record' = [record EXCEPT ![r.call] = k]
  BY <1>1, Zenon DEF Answered
<1>4. t \in BOOLEAN
  OBVIOUS
<1>5. k \in Record
  BY <1>1, <1>4, ResultType, Zenon DEF Record
<1>6. /\ k.db = record[r.call].db /\ k.shown = Result(r.kind) /\ k.ticking = t
  BY <1>1, Zenon DEF Record
<1>7. k.ticking <=> (record[r.call].ticking \/ r.kind = "start") /\ r.kind # "end"
  BY <1>6
<1> HIDE DEF k, t
<1>8. /\ record' \in [Calls -> Record] /\ record'[r.call] = k
      /\ \A d \in Calls : d # r.call => record'[d] = record[d]
  BY <1>1, <1>3, <1>5
<1>9. (r.clears => session' = NoCall) /\ (~r.clears => session' = session)
  BY <1>2
<1>10. QED
  BY <1>1, <1>2, <1>6, <1>7, <1>8, <1>9

LEMMA FailedEffect ==
  ASSUME TypeOK, NEW r \in requests, Failed(r)
  PROVE  /\ session' = session /\ leg' = leg /\ record' = record
         /\ requests' = requests \ {r} /\ mishaps \subseteq mishaps'
         /\ mishaps' \subseteq Mishaps
         /\ "uncreated" \in mishaps' \/ (r.kind # "create" /\ "failed" \in mishaps')
<1>1. /\ session' = session /\ leg' = leg /\ record' = record /\ requests' = requests \ {r}
      /\ Went(IF r.kind = "create" THEN {"uncreated"} ELSE {"failed"})
  BY DEF Failed
<1>2. r.kind = "create" => Went({"uncreated"})
  BY <1>1
<1>3. r.kind # "create" => Went({"failed"})
  BY <1>1
<1>4. mishaps \subseteq Mishaps
  BY DEF TypeOK
<1>5. QED
  BY <1>1, <1>2, <1>3, <1>4 DEF Went, Mishaps

LEMMA CreatedEffect ==
  ASSUME TypeOK, NEW r \in requests, Created(r)
  PROVE  /\ r.call \in Calls /\ r.kind = "create" /\ r.served
         /\ session' = r.call /\ mishaps' = mishaps /\ requests' = requests \ {r}
         /\ record' \in [Calls -> Record]
         /\ \A d \in Calls : d # r.call => record'[d] = record[d]
         /\ record'[r.call].db = record[r.call].db
         /\ record'[r.call].shown = "calling"
         /\ record'[r.call].ticking = record[r.call].ticking
         /\ leg' \in [Calls -> Leg]
         /\ \A d \in Calls : d # r.call => leg'[d] = leg[d]
         /\ leg'[r.call].dir = leg[r.call].dir
         /\ leg'[r.call].referred = leg[r.call].referred
         /\ leg'[r.call].end = leg[r.call].end
         /\ leg[r.call].dir = "outgoing" =>
              leg'[r.call].state = "Initial" /\ leg'[r.call].mic = "asked"
         /\ leg[r.call].dir # "outgoing" => leg' = leg
<1> DEFINE k == [record[r.call] EXCEPT !.shown = "calling"]
           l == [leg[r.call] EXCEPT !.state = "Initial", !.mic = "asked"]
<1>1. /\ r \in Request /\ r.call \in Calls
      /\ record \in [Calls -> Record] /\ record[r.call] \in Record
      /\ leg \in [Calls -> Leg] /\ leg[r.call] \in Leg
  BY RequestFields DEF TypeOK
<1>2. /\ r.kind = "create" /\ r.served /\ session' = r.call /\ mishaps' = mishaps
      /\ requests' = requests \ {r}
  BY DEF Created, Creating
<1>3. record' = [record EXCEPT ![r.call] = k]
  BY <1>1, Zenon DEF Created
<1>4. /\ k \in Record /\ k.db = record[r.call].db /\ k.shown = "calling"
      /\ k.ticking = record[r.call].ticking
  BY <1>1 DEF Record, RecordState
<1>5. l \in Leg
  BY <1>1, LegFields, Zenon DEF LegState
<1>6. /\ l.dir = leg[r.call].dir /\ l.referred = leg[r.call].referred
      /\ l.end = leg[r.call].end /\ l.state = "Initial" /\ l.mic = "asked"
  BY <1>1 DEF Leg
<1>7. leg[r.call].dir = "outgoing" => leg' = [leg EXCEPT ![r.call] = l]
  BY <1>1 DEF Created, Leg
<1>8. leg[r.call].dir # "outgoing" => leg' = leg
  BY DEF Created
<1> HIDE DEF k, l
<1>9. /\ record' \in [Calls -> Record] /\ record'[r.call] = k
      /\ \A d \in Calls : d # r.call => record'[d] = record[d]
  BY <1>1, <1>3, <1>4
<1>10. leg[r.call].dir = "outgoing" =>
         /\ leg' \in [Calls -> Leg] /\ leg'[r.call] = l
         /\ \A d \in Calls : d # r.call => leg'[d] = leg[d]
  BY <1>1, <1>5, <1>7
<1>11. QED
  BY <1>1, <1>2, <1>4, <1>6, <1>8, <1>9, <1>10

-----------------------------------------------------------------------------
(* What the user and the line do to several calls.                         *)

(* The step ends c as how if it was not answered, and touches no other.    *)
Declines(c, how) ==
  /\ leg' \in [Calls -> Leg]
  /\ \A d \in Calls : d # c => leg'[d] = leg[d]
  /\ leg'[c].dir = leg[c].dir /\ leg'[c].mic = leg[c].mic
  /\ leg'[c].referred = leg[c].referred
  /\ leg[c].state \in {"Initial", "Establishing"} =>
       leg'[c].state = "Terminated" /\ leg'[c].end = how
  /\ leg[c].state \notin {"Initial", "Establishing"} => leg'[c] = leg[c]

LEMMA UnansweredDeclines ==
  ASSUME TypeOK, NEW c \in Calls, NEW how \in LegEnd, leg' = Unanswered(leg, c, how)
  PROVE  Declines(c, how)
<1>1. leg \in [Calls -> Leg] /\ leg[c] \in Leg
  BY DEF TypeOK
<1>2. /\ leg' \in [Calls -> Leg]
      /\ \A d \in Calls : d # c => leg'[d] = leg[d]
      /\ leg[c].state \in {"Initial", "Establishing"} => leg'[c] = Ended(leg[c], how)
      /\ leg[c].state \notin {"Initial", "Establishing"} => leg'[c] = leg[c]
  BY <1>1, UnansweredLegs
<1>3. CASE leg[c].state \in {"Initial", "Establishing"}
  BY <1>1, <1>2, <1>3, EndedLeg DEF Declines
<1>4. CASE leg[c].state \notin {"Initial", "Establishing"}
  BY <1>1, <1>2, <1>4 DEF Declines
<1>5. QED
  BY <1>3, <1>4

(* The step ends c as how if it was not answered, without its microphone.  *)
GivesUp(c, how) ==
  /\ leg' \in [Calls -> Leg]
  /\ \A d \in Calls : d # c => leg'[d] = leg[d]
  /\ leg'[c].dir = leg[c].dir /\ leg'[c].mic = "none"
  /\ leg'[c].referred = leg[c].referred
  /\ leg[c].state \in {"Initial", "Establishing"} =>
       leg'[c].state = "Terminated" /\ leg'[c].end = how
  /\ leg[c].state \notin {"Initial", "Establishing"} =>
       leg'[c].state = leg[c].state /\ leg'[c].end = leg[c].end

LEMMA GivenUpGivesUp ==
  ASSUME TypeOK, NEW c \in Calls, NEW how \in LegEnd, leg' = GivenUp(leg, c, how)
  PROVE  GivesUp(c, how)
<1>1. leg \in [Calls -> Leg]
  BY DEF TypeOK
<1>2. QED
  BY <1>1, GivenUpLegs DEF GivesUp

LEMMA ClickRejectEffect ==
  ASSUME TypeOK, ClickReject
  PROVE  /\ session \in Calls /\ leg[session].dir = "incoming"
         /\ session' = session /\ record' = record
         /\ Declines(session, "rejected")
         /\ \E also \in SUBSET Mishaps :
              /\ Ask(session, "reject", TRUE, also)
              /\ leg[session].state = "Established" => "declined" \in also
              /\ record[session].shown = "calling" \/ "mistaken" \in also
<1>1. PICK c \in Calls : Ringing(c) /\ Reject(c)
  BY DEF ClickReject
<1>2. session \in Calls
  BY <1>1 DEF Ringing, TypeOK
<1> DEFINE x == IF leg[session].state = "Established" THEN {"declined"} ELSE {}
           m == Mistaken(c)
<1>3. /\ x \in SUBSET Mishaps /\ m \in SUBSET Mishaps
      /\ leg[session].state = "Established" => "declined" \in x
      /\ record[session].shown = "calling" \/ "mistaken" \in m
  BY <1>1 DEF Mishaps, Mistaken, Ringing
<1>4. /\ leg[session].dir = "incoming" /\ session' = session
      /\ leg' = Unanswered(leg, session, "rejected")
      /\ Ask(session, "reject", TRUE, m \cup x)
  BY <1>1, Zenon DEF Reject
<1>5. record' = record
  BY DEF ClickReject
<1>6. Declines(session, "rejected")
  BY <1>2, <1>4, UnansweredDeclines DEF LegEnd, Final
<1> HIDE DEF x, m
<1>7. /\ m \cup x \in SUBSET Mishaps
      /\ leg[session].state = "Established" => "declined" \in m \cup x
      /\ record[session].shown = "calling" \/ "mistaken" \in m \cup x
  BY <1>3
<1>8. QED
  BY <1>2, <1>4, <1>5, <1>6, <1>7

LEMMA CancelEffect ==
  ASSUME TypeOK, NEW c \in Calls, Cancel(c)
  PROVE  /\ leg[c].dir = "incoming" /\ leg[c].state \in {"Initial", "Establishing"}
         /\ session \in Calls /\ leg[session].dir = "incoming"
         /\ record[c].shown # "absent"
         /\ session' = NoCall /\ record' = record
         /\ Declines(session, "missed")
         /\ \E also \in SUBSET Mishaps :
              /\ Ask(session, "miss", FALSE, also)
              /\ record[session].ticking => "late" \in also
<1> DEFINE x == IF record[session].ticking THEN {"late"} ELSE {}
<1>1. /\ leg[c].dir = "incoming" /\ leg[c].state \in {"Initial", "Establishing"}
      /\ session # NoCall /\ leg[session].dir = "incoming" /\ record[c].shown # "absent"
      /\ session' = NoCall /\ record' = record
      /\ leg' = Unanswered(leg, session, "missed")
      /\ Ask(session, "miss", FALSE, x)
  BY DEF Cancel
<1>2. session \in Calls
  BY <1>1 DEF TypeOK
<1>3. Declines(session, "missed")
  BY <1>1, <1>2, UnansweredDeclines DEF LegEnd, Final
<1>4. x \in SUBSET Mishaps /\ (record[session].ticking => "late" \in x)
  BY DEF Mishaps
<1> HIDE DEF x
<1>5. QED
  BY <1>1, <1>2, <1>3, <1>4

(* hangup, with ended the call SIP.js is giving up, if any.                *)
LEMMA HangUpEffect ==
  ASSUME TypeOK, session \in Calls, NEW ended \in SUBSET Calls,
         NEW also \in SUBSET Mishaps, HangUp(ended, also)
  PROVE  \/ /\ leg[session].state = "Establishing" /\ leg[session].dir = "incoming"
            /\ leg' = leg /\ session' = session
            /\ requests' = requests /\ mishaps' = mishaps
         \/ /\ ~(leg[session].state = "Establishing" /\ leg[session].dir = "incoming")
            /\ leg' \in [Calls -> Leg]
            /\ \A d \in Calls : d \notin ended /\ d # session => leg'[d] = leg[d]
            /\ \A d \in Calls : leg'[d].dir = leg[d].dir /\ leg'[d].referred = leg[d].referred
            /\ leg[session].state = "Establishing" =>
                 /\ leg'[session].state = "Terminating" /\ leg'[session].end = "aborted"
                 /\ leg'[session].mic = leg[session].mic
            /\ leg[session].state = "Established" =>
                 /\ leg'[session].state = "Terminated" /\ leg'[session].end = "terminated"
                 /\ leg'[session].mic = leg[session].mic
            /\ \A d \in ended :
                 \/ d = session /\ leg[d].state \in {"Establishing", "Established"}
                 \/ /\ leg'[d].mic = "none"
                    /\ leg[d].state \in {"Initial", "Establishing"} =>
                         leg'[d].state = "Terminated" /\ leg'[d].end = "aborted"
                    /\ leg[d].state \notin {"Initial", "Establishing"} =>
                         leg'[d].state = leg[d].state /\ leg'[d].end = leg[d].end
            /\ session \notin ended /\ leg[session].state \notin {"Establishing", "Established"}
                 => leg'[session] = leg[session]
            /\ \E wrong \in SUBSET Mishaps :
                 /\ also \subseteq wrong
                 /\ leg[session].state = "Initial" /\ session \notin ended => "silent" \in wrong
                 /\ \/ /\ record[session].shown = "calling"
                       /\ Ask(session, "abort", TRUE, wrong) /\ session' = session
                    \/ /\ record[session].shown = "ongoing"
                       /\ Ask(session, "end", TRUE, wrong) /\ session' = session
                    \/ /\ record[session].shown \notin {"calling", "ongoing"}
                       /\ AskNothing(wrong) /\ session' = NoCall
<1>1. CASE leg[session].state = "Establishing" /\ leg[session].dir = "incoming"
  BY <1>1 DEF HangUp
<1>2. CASE ~(leg[session].state = "Establishing" /\ leg[session].dir = "incoming")
  <2> DEFINE x == IF leg[session].state = "Initial" /\ session \notin ended
                  THEN {"silent"} ELSE {}
             G(d) == GivenUp(leg, d, "aborted")[d]
             L(d) == IF d = session /\ leg[session].state = "Establishing"
                     THEN [leg[session] EXCEPT !.state = "Terminating", !.end = "aborted"]
                     ELSE IF d = session /\ leg[session].state = "Established"
                          THEN Ended(leg[session], "terminated")
                     ELSE IF d \in ended THEN G(d) ELSE leg[d]
  <2>1. /\ leg' = [d \in Calls |-> L(d)]
        /\ IF record[session].shown \in {"calling", "ongoing"}
           THEN /\ Ask(session, IF record[session].shown = "calling" THEN "abort" ELSE "end",
                       TRUE, also \cup x)
                /\ UNCHANGED session
           ELSE session' = NoCall /\ AskNothing(also \cup x)
    BY <1>2, Zenon DEF HangUp
  <2>2. /\ x \in SUBSET Mishaps
        /\ leg[session].state = "Initial" /\ session \notin ended => "silent" \in x
    BY DEF Mishaps
  <2>3. leg \in [Calls -> Leg] /\ \A d \in Calls : leg[d] \in Leg
    BY DEF TypeOK
  <2>4. ASSUME NEW d \in Calls
        PROVE  /\ G(d) \in Leg
               /\ G(d).dir = leg[d].dir /\ G(d).mic = "none" /\ G(d).referred = leg[d].referred
               /\ leg[d].state \in {"Initial", "Establishing"} =>
                    G(d).state = "Terminated" /\ G(d).end = "aborted"
               /\ leg[d].state \notin {"Initial", "Establishing"} =>
                    G(d).state = leg[d].state /\ G(d).end = leg[d].end
    <3>1. "aborted" \in LegEnd
      BY DEF LegEnd, Final
    <3>2. GivenUp(leg, d, "aborted") \in [Calls -> Leg]
      BY <2>3, <3>1, GivenUpLegs
    <3>3. QED
      BY <2>3, <3>1, <3>2, GivenUpLegs
  <2> DEFINE T == [leg[session] EXCEPT !.state = "Terminating", !.end = "aborted"]
             E == Ended(leg[session], "terminated")
  <2>5. /\ T \in Leg /\ T.dir = leg[session].dir /\ T.mic = leg[session].mic
        /\ T.referred = leg[session].referred /\ T.state = "Terminating" /\ T.end = "aborted"
    BY <2>3 DEF Leg, Final
  <2>6. /\ E \in Leg /\ E.dir = leg[session].dir /\ E.mic = leg[session].mic
        /\ E.referred = leg[session].referred /\ E.state = "Terminated" /\ E.end = "terminated"
    BY <2>3, EndedLeg DEF LegEnd, Final
  <2>7. \A d \in Calls :
          /\ d = session /\ leg[session].state = "Establishing" => L(d) = T
          /\ d = session /\ leg[session].state = "Established" => L(d) = E
          /\ d \in ended
             /\ ~(d = session /\ leg[session].state \in {"Establishing", "Established"})
               => L(d) = G(d)
          /\ d \notin ended
             /\ ~(d = session /\ leg[session].state \in {"Establishing", "Established"})
               => L(d) = leg[d]
    BY Zenon
  <2> HIDE DEF L, G, T, E, x
  <2>8. \A d \in Calls :
          L(d) \in Leg /\ L(d).dir = leg[d].dir /\ L(d).referred = leg[d].referred
    BY <2>3, <2>4, <2>5, <2>6, <2>7
  <2>9. leg' \in [Calls -> Leg] /\ \A d \in Calls : leg'[d] = L(d)
    BY <2>1, <2>8
  <2>10. /\ \A d \in Calls : d \notin ended /\ d # session => leg'[d] = leg[d]
         /\ \A d \in Calls : leg'[d].dir = leg[d].dir /\ leg'[d].referred = leg[d].referred
         /\ leg[session].state = "Establishing" => leg'[session] = T
         /\ leg[session].state = "Established" => leg'[session] = E
         /\ session \notin ended /\ leg[session].state \notin {"Establishing", "Established"}
              => leg'[session] = leg[session]
    BY <2>7, <2>8, <2>9
  <2>11. ASSUME NEW d \in ended
         PROVE  \/ d = session /\ leg[d].state \in {"Establishing", "Established"}
                \/ leg'[d] = G(d)
    BY <2>7, <2>9
  <2>12. also \cup x \in SUBSET Mishaps /\ also \subseteq also \cup x
    BY <2>2
  <2>13. \/ /\ record[session].shown = "calling"
            /\ Ask(session, "abort", TRUE, also \cup x) /\ session' = session
         \/ /\ record[session].shown = "ongoing"
            /\ Ask(session, "end", TRUE, also \cup x) /\ session' = session
         \/ /\ record[session].shown \notin {"calling", "ongoing"}
            /\ AskNothing(also \cup x) /\ session' = NoCall
    <3>1. CASE record[session].shown = "calling"
      BY <2>1, <3>1
    <3>2. CASE record[session].shown = "ongoing"
      BY <2>1, <3>2
    <3>3. CASE record[session].shown \notin {"calling", "ongoing"}
      BY <2>1, <3>3
    <3>4. QED
      BY <3>1, <3>2, <3>3
  <2>14. \E wrong \in SUBSET Mishaps :
           /\ also \subseteq wrong
           /\ leg[session].state = "Initial" /\ session \notin ended => "silent" \in wrong
           /\ \/ /\ record[session].shown = "calling"
                 /\ Ask(session, "abort", TRUE, wrong) /\ session' = session
              \/ /\ record[session].shown = "ongoing"
                 /\ Ask(session, "end", TRUE, wrong) /\ session' = session
              \/ /\ record[session].shown \notin {"calling", "ongoing"}
                 /\ AskNothing(wrong) /\ session' = NoCall
    BY <2>2, <2>12, <2>13, Zenon
  <2>15. \A d \in ended :
           \/ d = session /\ leg[d].state \in {"Establishing", "Established"}
           \/ /\ leg'[d].mic = "none"
              /\ leg[d].state \in {"Initial", "Establishing"} =>
                   leg'[d].state = "Terminated" /\ leg'[d].end = "aborted"
              /\ leg[d].state \notin {"Initial", "Establishing"} =>
                   leg'[d].state = leg[d].state /\ leg'[d].end = leg[d].end
    BY <2>4, <2>11
  <2>16. QED
    BY <1>2, <2>5, <2>6, <2>9, <2>10, <2>14, <2>15
<1>3. QED
  BY <1>1, <1>2

LEMMA ClickHangUpEffect ==
  ASSUME TypeOK, ClickHangUp
  PROVE  /\ session \in Calls /\ record' = record
         /\ \E also \in SUBSET Mishaps : HangUp({}, also)
  BY DEF ClickHangUp, InProgress, Mistaken, Mishaps, TypeOK

LEMMA MicDeniedEffect ==
  ASSUME TypeOK, NEW c \in Calls, MicDenied(c)
  PROVE  /\ leg[c].mic = "asked" /\ record' = record
         /\ \E how \in {"rejected", "aborted"} :
              /\ how = "rejected" <=> leg[c].dir = "incoming"
              /\ \/ /\ session = NoCall /\ session' = session
                    /\ GivesUp(c, how) /\ AskNothing({})
                 \/ /\ session \in Calls /\ leg[session].dir = "outgoing"
                    /\ HangUp({c}, Stale(c))
                 \/ /\ session \in Calls /\ leg[session].dir = "incoming"
                    /\ leg' = GivenUp(Unanswered(leg, session, "rejected"), c, how)
                    /\ Ask(session, "reject", TRUE, Stale(c)) /\ session' = session
<1> DEFINE how == IF leg[c].dir = "incoming" THEN "rejected" ELSE "aborted"
<1>1. /\ how \in {"rejected", "aborted"} /\ how \in LegEnd
      /\ how = "rejected" <=> leg[c].dir = "incoming"
  BY DEF LegEnd, Final
<1>2. /\ leg[c].mic = "asked" /\ record' = record
      /\ \/ /\ session = NoCall /\ session' = session
            /\ leg' = GivenUp(leg, c, how) /\ AskNothing({})
         \/ /\ session # NoCall /\ leg[session].dir = "outgoing"
            /\ HangUp({c}, Stale(c))
         \/ /\ session # NoCall /\ leg[session].dir = "incoming"
            /\ leg' = GivenUp(Unanswered(leg, session, "rejected"), c, how)
            /\ Ask(session, "reject", TRUE, Stale(c)) /\ session' = session
  BY Zenon DEF MicDenied
<1>3. session # NoCall => session \in Calls
  BY DEF TypeOK
<1> HIDE DEF how
<1>4. leg' = GivenUp(leg, c, how) => GivesUp(c, how)
  BY <1>1, GivenUpGivesUp
<1>5. QED
  BY <1>1, <1>2, <1>3, <1>4

(* The case of the session's own call.                                     *)
LEMMA MicDeniedOwn ==
  ASSUME TypeOK, session \in Calls, NEW how \in {"rejected", "aborted"},
         leg[session].dir = "incoming" <=> how = "rejected",
         leg' = GivenUp(Unanswered(leg, session, "rejected"), session, how),
         leg[session].dir = "incoming"
  PROVE  GivesUp(session, "rejected")
<1> DEFINE u == Unanswered(leg, session, "rejected")
<1>1. "rejected" \in LegEnd
  BY DEF LegEnd, Final
<1>2. leg \in [Calls -> Leg] /\ leg[session] \in Leg
  BY DEF TypeOK
<1>3. /\ u \in [Calls -> Leg]
      /\ \A d \in Calls : d # session => u[d] = leg[d]
      /\ leg[session].state \in {"Initial", "Establishing"} =>
           u[session] = Ended(leg[session], "rejected")
      /\ leg[session].state \notin {"Initial", "Establishing"} => u[session] = leg[session]
  BY <1>1, <1>2, UnansweredLegs
<1>4. leg' = GivenUp(u, session, "rejected")
  OBVIOUS
<1> HIDE DEF u
<1>5. /\ leg' \in [Calls -> Leg]
      /\ \A d \in Calls : d # session => leg'[d] = u[d]
      /\ leg'[session].dir = u[session].dir
      /\ leg'[session].mic = "none"
      /\ leg'[session].referred = u[session].referred
      /\ u[session].state \in {"Initial", "Establishing"} =>
           /\ leg'[session].state = "Terminated"
           /\ leg'[session].end = "rejected"
      /\ u[session].state \notin {"Initial", "Establishing"} =>
           /\ leg'[session].state = u[session].state
           /\ leg'[session].end = u[session].end
  BY <1>1, <1>3, <1>4, GivenUpLegs
<1>6. CASE leg[session].state \in {"Initial", "Establishing"}
  BY <1>1, <1>2, <1>3, <1>5, <1>6, EndedLeg DEF GivesUp
<1>7. CASE leg[session].state \notin {"Initial", "Establishing"}
  BY <1>3, <1>5, <1>7 DEF GivesUp
<1>8. QED
  BY <1>6, <1>7

LEMMA AcceptedElsewhereEffect ==
  ASSUME TypeOK, NEW c \in Calls, AcceptedElsewhere(c)
  PROVE  /\ leg[c].dir = "outgoing" /\ leg[c].state \in {"Establishing", "Terminating"}
         /\ session \in Calls /\ session' = session /\ record' = record
         /\ leg' \in [Calls -> Leg]
         /\ \A d \in Calls : leg'[d].dir = leg[d].dir /\ leg'[d].mic = leg[d].mic
         /\ \A d \in Calls : d # c => leg'[d].state = leg[d].state /\ leg'[d].end = leg[d].end
         /\ Settles(c, leg'[c])
         /\ \A d \in Calls : d \notin {c, session} => leg'[d] = leg[d]
         /\ \A d \in Calls : leg[d].referred => leg'[d].referred
         /\ c = session /\ leg'[c].state = "Established" => leg'[c].referred
         /\ \E also \in SUBSET Mishaps : Tallies(c, leg'[c], also) /\ AskNothing(also)
<1>1. PICK l \in Applied(c) :
        /\ leg' = [[leg EXCEPT ![c] = l] EXCEPT
                     ![session].referred = @ \/ [leg EXCEPT ![c] = l][session].state
                                                  = "Established"]
        /\ AskNothing(Amiss(c, l))
  BY Zenon DEF AcceptedElsewhere
<1>2. /\ leg \in [Calls -> Leg] /\ Inviting(c) /\ session \in Calls
      /\ session' = session /\ record' = record
  BY DEF TypeOK, AcceptedElsewhere
<1>3. /\ l \in Leg /\ l.dir = leg[c].dir /\ l.mic = leg[c].mic
      /\ l.referred = leg[c].referred /\ Settles(c, l)
      /\ Amiss(c, l) \in SUBSET Mishaps /\ Tallies(c, l, Amiss(c, l))
  BY <1>2, AppliedLegs
<1> DEFINE legs == [leg EXCEPT ![c] = l]
           rf == legs[session].referred \/ legs[session].state = "Established"
           s == [legs[session] EXCEPT !.referred = rf]
<1>4. /\ legs \in [Calls -> Leg] /\ legs[c] = l
      /\ \A d \in Calls : d # c => legs[d] = leg[d]
  BY <1>2, <1>3
<1>5. leg' = [legs EXCEPT ![session] = s]
  BY <1>1, <1>2, <1>4, Zenon
<1> HIDE DEF legs
<1>6. /\ legs[session] \in Leg /\ rf \in BOOLEAN
      /\ legs[session].referred => rf
      /\ legs[session].state = "Established" => rf
  BY <1>2, <1>4, LegFields
<1> HIDE DEF rf
<1>7. /\ s \in Leg /\ s.dir = legs[session].dir /\ s.mic = legs[session].mic
      /\ s.state = legs[session].state /\ s.end = legs[session].end /\ s.referred = rf
  BY <1>6 DEF Leg
<1> HIDE DEF s
<1>8. /\ leg' \in [Calls -> Leg] /\ leg'[session] = s
      /\ \A d \in Calls : d # session => leg'[d] = legs[d]
  BY <1>2, <1>4, <1>5, <1>7
<1>9. \A d \in Calls : /\ leg'[d].dir = legs[d].dir /\ leg'[d].mic = legs[d].mic
                       /\ leg'[d].state = legs[d].state /\ leg'[d].end = legs[d].end
                       /\ legs[d].referred => leg'[d].referred
  BY <1>6, <1>7, <1>8
<1>10. c = session /\ leg'[c].state = "Established" => leg'[c].referred
  BY <1>6, <1>7, <1>8
<1>11. /\ Settles(c, leg'[c])
       /\ Tallies(c, leg'[c], Amiss(c, l))
  BY <1>3, <1>4, <1>9 DEF Settles, Tallies
<1>12. \E also \in SUBSET Mishaps : Tallies(c, leg'[c], also) /\ AskNothing(also)
  BY <1>1, <1>3, <1>11, Zenon
<1>13. /\ leg[c].dir = "outgoing" /\ leg[c].state \in {"Establishing", "Terminating"}
  BY <1>2 DEF Inviting
<1>14. /\ \A d \in Calls : leg'[d].dir = leg[d].dir /\ leg'[d].mic = leg[d].mic
       /\ \A d \in Calls : d # c => leg'[d].state = leg[d].state /\ leg'[d].end = leg[d].end
       /\ \A d \in Calls : leg[d].referred => leg'[d].referred
       /\ \A d \in Calls : d \notin {c, session} => leg'[d] = leg[d]
  BY <1>3, <1>4, <1>8, <1>9
<1>15. QED
  BY <1>2, <1>8, <1>10, <1>11, <1>12, <1>13, <1>14, Zenon

LEMMA ReferAcceptedEffect ==
  ASSUME TypeOK, NEW c \in Calls, ReferAccepted(c)
  PROVE  /\ leg[c].referred /\ leg[c].state = "Established"
         /\ session \in Calls /\ session' = NoCall /\ record' = record
         /\ Ask(session, "end", FALSE, {})
         /\ leg' \in [Calls -> Leg]
         /\ \A d \in Calls : leg'[d].dir = leg[d].dir /\ leg'[d].mic = leg[d].mic
         /\ \A d \in Calls : d # c /\ d # session => leg'[d] = leg[d]
         /\ \A d \in Calls : d # session =>
              leg'[d].state = leg[d].state /\ leg'[d].end = leg[d].end
         /\ leg[session].state = "Established" =>
              leg'[session].state = "Terminated" /\ leg'[session].end = "terminated"
         /\ leg[session].state # "Established" =>
              leg'[session].state = leg[session].state /\ leg'[session].end = leg[session].end
<1> DEFINE l == IF leg[session].state = "Established" THEN Ended(leg[session], "terminated")
                ELSE leg[session]
           L == [leg EXCEPT ![session] = l]
           k == [L[c] EXCEPT !.referred = FALSE]
<1>1. /\ leg[c].referred /\ leg[c].state = "Established"
      /\ session \in Calls /\ session' = NoCall /\ record' = record
      /\ Ask(session, "end", FALSE, {})
  BY DEF ReferAccepted, TypeOK
<1>2. leg \in [Calls -> Leg] /\ leg[session] \in Leg
  BY <1>1 DEF TypeOK
<1>3. leg' = [L EXCEPT ![c].referred = FALSE]
  BY <1>2, Zenon DEF ReferAccepted
<1>4. /\ leg[session].state = "Established" => l = Ended(leg[session], "terminated")
      /\ leg[session].state # "Established" => l = leg[session]
  OBVIOUS
<1> HIDE DEF l
<1>5. /\ l \in Leg /\ l.dir = leg[session].dir /\ l.mic = leg[session].mic
      /\ leg[session].state = "Established" => l.state = "Terminated" /\ l.end = "terminated"
      /\ leg[session].state # "Established" => l = leg[session]
  <2>1. CASE leg[session].state = "Established"
    BY <1>2, <1>4, <2>1, EndedLeg DEF LegEnd, Final
  <2>2. CASE leg[session].state # "Established"
    BY <1>2, <1>4, <2>2
  <2>3. QED
    BY <2>1, <2>2
<1>6. /\ L \in [Calls -> Leg] /\ L[session] = l
      /\ \A d \in Calls : d # session => L[d] = leg[d]
  BY <1>1, <1>2, <1>5
<1> HIDE DEF L
<1>7. /\ k \in Leg /\ k.dir = L[c].dir /\ k.mic = L[c].mic /\ k.state = L[c].state
      /\ k.end = L[c].end
  BY <1>6 DEF Leg
<1>8. leg' = [L EXCEPT ![c] = k]
  BY <1>3
<1> HIDE DEF k
<1>9. /\ leg' \in [Calls -> Leg] /\ leg'[c] = k
      /\ \A d \in Calls : d # c => leg'[d] = L[d]
  BY <1>6, <1>7, <1>8
<1>10. \A d \in Calls : leg'[d].dir = leg[d].dir /\ leg'[d].mic = leg[d].mic
  BY <1>5, <1>6, <1>7, <1>9
<1>11. \A d \in Calls : d # c /\ d # session => leg'[d] = leg[d]
  BY <1>6, <1>9
<1>12. \A d \in Calls : leg'[d].state = L[d].state /\ leg'[d].end = L[d].end
  BY <1>7, <1>9
<1>13. \A d \in Calls : d # session => leg'[d].state = leg[d].state /\ leg'[d].end = leg[d].end
  BY <1>6, <1>12
<1>14. /\ leg[session].state = "Established" =>
            leg'[session].state = "Terminated" /\ leg'[session].end = "terminated"
       /\ leg[session].state # "Established" =>
            leg'[session].state = leg[session].state /\ leg'[session].end = leg[session].end
  BY <1>1, <1>5, <1>6, <1>12
<1>15. QED
  BY <1>1, <1>9, <1>10, <1>11, <1>13, <1>14

LEMMA ReloadEffect ==
  ASSUME TypeOK, Reload
  PROVE  /\ session \in Calls /\ session' = NoCall /\ requests' = {}
         /\ "reloaded" \in mishaps' /\ mishaps \subseteq mishaps' /\ mishaps' \subseteq Mishaps
         /\ leg' \in [Calls -> Leg] /\ record' \in [Calls -> Record]
         /\ \A d \in Calls : leg'[d].state \in {"None", "Terminated"}
         /\ \A d \in Calls : leg'[d].dir = leg[d].dir
         /\ \A d \in Calls :
              leg[d].state = "None" /\ (\A r \in requests : r.kind = "create" => r.call # d)
                => leg'[d] = leg[d]
<1> DEFINE L(d) == IF leg[d].state \in {"Initial", "Establishing", "Established", "Terminating"}
                   THEN Ended(leg[d], "lost")
                   ELSE IF About(d) \cap Creating # {} THEN Ended(leg[d], "lost") ELSE leg[d]
           R(d) == [db |-> record[d].db, shown |-> record[d].db, ticking |-> FALSE]
<1>1. /\ session \in Calls /\ session' = NoCall /\ requests' = {}
      /\ leg' = [d \in Calls |-> L(d)] /\ record' = [d \in Calls |-> R(d)]
      /\ "reloaded" \in mishaps' /\ mishaps \subseteq mishaps' /\ mishaps' \subseteq Mishaps
  BY DEF Reload, Went, TypeOK, Mishaps
<1>2. \A d \in Calls : leg[d] \in Leg /\ record[d] \in Record
  BY DEF TypeOK
<1>3. ASSUME NEW d \in Calls
      PROVE  L(d) \in Leg /\ L(d).state \in {"None", "Terminated"} /\ L(d).dir = leg[d].dir
  <2>1. /\ Ended(leg[d], "lost") \in Leg /\ Ended(leg[d], "lost").state = "Terminated"
        /\ Ended(leg[d], "lost").dir = leg[d].dir
    BY <1>2, EndedLeg DEF LegEnd
  <2>2. leg[d].state \in LegState
    BY <1>2, LegFields
  <2>3. L(d) = Ended(leg[d], "lost")
        \/ (L(d) = leg[d] /\ leg[d].state \notin {"Initial", "Establishing", "Established",
                                                 "Terminating"})
    BY Zenon
  <2>4. leg[d] \in Leg
    BY <1>2
  <2> HIDE DEF L
  <2>5. CASE L(d) = Ended(leg[d], "lost")
    BY <2>1, <2>5
  <2>6. CASE L(d) = leg[d] /\ leg[d].state \notin {"Initial", "Establishing", "Established",
                                                  "Terminating"}
    BY <2>2, <2>4, <2>6 DEF LegState
  <2>7. QED
    BY <2>3, <2>5, <2>6
<1>4. \A d \in Calls : R(d) \in Record
  BY <1>2 DEF Record
<1>5. ASSUME NEW d \in Calls, leg[d].state = "None",
             \A r \in requests : r.kind = "create" => r.call # d
      PROVE  L(d) = leg[d]
  <2>1. About(d) \cap Creating = {}
    BY <1>5 DEF About, Creating
  <2>2. QED
    BY <1>5, <2>1
<1> HIDE DEF L, R
<1>6. \A d \in Calls : leg'[d] = L(d)
  BY <1>1
<1>7. QED
  BY <1>1, <1>3, <1>4, <1>5, <1>6

-----------------------------------------------------------------------------
(* Types, and that mishaps are not forgotten.                              *)

LEMMA NoRequestTypes ==
  ASSUME TypeOK, requests' = requests, mishaps' = mishaps
  PROVE  /\ requests' \subseteq Request /\ mishaps' \subseteq Mishaps
         /\ \A r, q \in requests' : r.id = q.id => r = q
         /\ mishaps \subseteq mishaps'
  BY DEF TypeOK

LEMMA AnsweredTypes ==
  ASSUME TypeOK, NEW r \in requests, requests' = requests \ {r}
  PROVE  /\ requests' \subseteq Request
         /\ \A p, q \in requests' : p.id = q.id => p = q
  BY DEF TypeOK

LEMMA ServedTypes ==
  ASSUME TypeOK, NEW r \in requests, NEW n \in Request, n.id = r.id,
         requests' = (requests \ {r}) \cup {n}
  PROVE  /\ requests' \subseteq Request
         /\ \A p, q \in requests' : p.id = q.id => p = q
<1>1. requests \subseteq Request /\ \A p, q \in requests : p.id = q.id => p = q
  BY DEF TypeOK
<1>2. ASSUME NEW p \in requests', NEW q \in requests', p.id = q.id PROVE p = q
  <2>1. /\ p = n \/ (p \in requests /\ p # r)
        /\ q = n \/ (q \in requests /\ q # r)
    OBVIOUS
  <2>2. QED
    BY <1>1, <1>2, <2>1
<1>3. requests' \subseteq Request
  BY <1>1
<1>4. QED
  BY <1>2, <1>3

LEMMA HangUpTypes ==
  ASSUME TypeOK, session \in Calls, NEW ended \in SUBSET Calls,
         NEW also \in SUBSET Mishaps, HangUp(ended, also)
  PROVE  /\ session' \in Calls \cup {NoCall} /\ leg' \in [Calls -> Leg]
         /\ requests' \subseteq Request /\ mishaps' \subseteq Mishaps
         /\ mishaps \subseteq mishaps'
         /\ \A r, q \in requests' : r.id = q.id => r = q
<1>1. CASE /\ leg' = leg /\ session' = session
           /\ requests' = requests /\ mishaps' = mishaps
  BY <1>1 DEF TypeOK
<1>2. CASE /\ leg' \in [Calls -> Leg]
           /\ \E wrong \in SUBSET Mishaps :
                \/ \E kind \in {"abort", "end"} :
                     Ask(session, kind, TRUE, wrong) /\ session' = session
                \/ AskNothing(wrong) /\ session' = NoCall
  <2>1. PICK wrong \in SUBSET Mishaps :
                \/ \E kind \in {"abort", "end"} :
                     Ask(session, kind, TRUE, wrong) /\ session' = session
                \/ AskNothing(wrong) /\ session' = NoCall
    BY <1>2
  <2>2. ASSUME NEW kind \in {"abort", "end"}, Ask(session, kind, TRUE, wrong)
        PROVE  /\ requests' \subseteq Request /\ mishaps' \subseteq Mishaps
               /\ mishaps \subseteq mishaps'
               /\ \A r, q \in requests' : r.id = q.id => r = q
    BY <2>2, AskTypes DEF Kinds
  <2>3. ASSUME AskNothing(wrong)
        PROVE  /\ requests' \subseteq Request /\ mishaps' \subseteq Mishaps
               /\ mishaps \subseteq mishaps'
               /\ \A r, q \in requests' : r.id = q.id => r = q
    BY <2>3, AskNothingTypes
  <2>4. QED
    BY <1>2, <2>1, <2>2, <2>3
<1>3. QED
  BY <1>1, <1>2, HangUpEffect, Zenon

LEMMA TypeStep ==
  ASSUME TypeOK, [Next]_vars
  PROVE  TypeOK' /\ mishaps \subseteq mishaps'
<1> USE DEF TypeOK
<1>1. ASSUME UNCHANGED vars PROVE TypeOK' /\ mishaps \subseteq mishaps'
  BY <1>1 DEF vars
<1>2. ASSUME NEW r \in requests, Serve(r) PROVE TypeOK' /\ mishaps \subseteq mishaps'
  <2>1. PICK n \in Request : requests' = (requests \ {r}) \cup {n} /\ n.id = r.id
    BY <1>2, ServeEffect
  <2>2. QED
    BY <1>2, <2>1, ServeEffect, ServedTypes
<1>3. ASSUME NEW r \in requests, Answered(r) PROVE TypeOK' /\ mishaps \subseteq mishaps'
  BY <1>3, AnsweredEffect, AnsweredTypes
<1>4. ASSUME NEW r \in requests, Failed(r) PROVE TypeOK' /\ mishaps \subseteq mishaps'
  BY <1>4, FailedEffect, AnsweredTypes
<1>5. ASSUME NEW r \in requests, Created(r) PROVE TypeOK' /\ mishaps \subseteq mishaps'
  BY <1>5, CreatedEffect, AnsweredTypes
<1>6. ASSUME NEW c \in Calls, Dial(c) PROVE TypeOK' /\ mishaps \subseteq mishaps'
  <2>1. PICK also \in SUBSET Mishaps : Ask(c, "create", FALSE, also)
    BY <1>6, DialEffect
  <2>2. /\ requests' \subseteq Request /\ mishaps' \subseteq Mishaps
        /\ mishaps \subseteq mishaps'
        /\ \A r, q \in requests' : r.id = q.id => r = q
    BY <1>6, <2>1, DialEffect, AskTypes DEF Kinds
  <2>3. QED
    BY <1>6, <2>2, DialEffect
<1>7. ASSUME NEW c \in Calls, ReceiveInvitation(c) PROVE TypeOK' /\ mishaps \subseteq mishaps'
  <2>1. CASE session # NoCall
    <3>1. PICK also \in SUBSET Mishaps : AskNothing(also)
      BY <1>7, <2>1, InvitationTurnedDownEffect DEF Mishaps
    <3>2. /\ requests' \subseteq Request /\ mishaps' \subseteq Mishaps
          /\ mishaps \subseteq mishaps'
          /\ \A r, q \in requests' : r.id = q.id => r = q
      BY <3>1, AskNothingTypes
    <3>3. QED
      BY <1>7, <2>1, <3>2, InvitationTurnedDownEffect
  <2>2. CASE session = NoCall
    <3>1. PICK also \in SUBSET Mishaps : Ask(c, "create", FALSE, also)
      BY <1>7, <2>2, InvitationTakenEffect
    <3>2. /\ requests' \subseteq Request /\ mishaps' \subseteq Mishaps
          /\ mishaps \subseteq mishaps'
          /\ \A r, q \in requests' : r.id = q.id => r = q
      BY <1>7, <2>2, <3>1, InvitationTakenEffect, AskTypes DEF Kinds
    <3>3. QED
      BY <1>7, <2>2, <3>2, InvitationTakenEffect
  <2>3. QED
    BY <2>1, <2>2
<1>8. ASSUME NEW c \in Calls, RejectInvitation(c) PROVE TypeOK' /\ mishaps \subseteq mishaps'
  BY <1>8, RejectInvitationEffect, NoRequestTypes
<1>9. ASSUME NEW c \in Calls, OfferReady(c) PROVE TypeOK' /\ mishaps \subseteq mishaps'
  BY <1>9, OfferReadyEffect, NoRequestTypes
<1>10. ASSUME NEW c \in Calls, AcceptSent(c) PROVE TypeOK' /\ mishaps \subseteq mishaps'
  BY <1>10, AcceptSentEffect, NoRequestTypes
<1>11. ASSUME NEW c \in Calls, Canceled(c) PROVE TypeOK' /\ mishaps \subseteq mishaps'
  BY <1>11, CanceledEffect, NoRequestTypes
<1>12. ASSUME NEW c \in Calls, AcceptedElsewhere(c) PROVE TypeOK' /\ mishaps \subseteq mishaps'
  <2>1. PICK also \in SUBSET Mishaps : AskNothing(also)
    BY <1>12, AcceptedElsewhereEffect
  <2>2. QED
    BY <1>12, <2>1, AcceptedElsewhereEffect, AskNothingTypes
<1>13. ASSUME ClickAccept PROVE TypeOK' /\ mishaps \subseteq mishaps'
  <2>1. session \in Calls
    BY <1>13 DEF ClickAccept, Ringing, InProgress
  <2>2. PICK also \in SUBSET Mishaps : AskNothing(also)
    BY <1>13, <2>1, ClickAcceptEffect DEF Mishaps
  <2>3. /\ requests' \subseteq Request /\ mishaps' \subseteq Mishaps
        /\ mishaps \subseteq mishaps'
        /\ \A r, q \in requests' : r.id = q.id => r = q
    BY <2>2, AskNothingTypes
  <2>4. QED
    BY <1>13, <2>1, <2>3, ClickAcceptEffect
<1>14. ASSUME ClickTransfer PROVE TypeOK' /\ mishaps \subseteq mishaps'
  <2>1. session \in Calls
    BY <1>14 DEF ClickTransfer, Ringing, InProgress
  <2>2. PICK also \in SUBSET Mishaps : AskNothing(also)
    BY <1>14, <2>1, ClickTransferEffect DEF Mishaps
  <2>3. /\ requests' \subseteq Request /\ mishaps' \subseteq Mishaps
        /\ mishaps \subseteq mishaps'
        /\ \A r, q \in requests' : r.id = q.id => r = q
    BY <2>2, AskNothingTypes
  <2>4. QED
    BY <1>14, <2>1, <2>3, ClickTransferEffect
<1>15. ASSUME ClickReject PROVE TypeOK' /\ mishaps \subseteq mishaps'
  <2>1. PICK also \in SUBSET Mishaps : Ask(session, "reject", TRUE, also)
    BY <1>15, ClickRejectEffect DEF Declines
  <2>2. /\ requests' \subseteq Request /\ mishaps' \subseteq Mishaps
        /\ mishaps \subseteq mishaps'
        /\ \A r, q \in requests' : r.id = q.id => r = q
    BY <1>15, <2>1, ClickRejectEffect, AskTypes DEF Kinds
  <2>3. QED
    BY <1>15, <2>2, ClickRejectEffect DEF Declines
<1>16. ASSUME NEW c \in Calls, Cancel(c) PROVE TypeOK' /\ mishaps \subseteq mishaps'
  <2>1. PICK also \in SUBSET Mishaps : Ask(session, "miss", FALSE, also)
    BY <1>16, CancelEffect DEF Declines
  <2>2. /\ requests' \subseteq Request /\ mishaps' \subseteq Mishaps
        /\ mishaps \subseteq mishaps'
        /\ \A r, q \in requests' : r.id = q.id => r = q
    BY <1>16, <2>1, CancelEffect, AskTypes DEF Kinds
  <2>3. QED
    BY <1>16, <2>2, CancelEffect DEF Declines
<1>17. ASSUME ClickHangUp PROVE TypeOK' /\ mishaps \subseteq mishaps'
  <2>1. PICK also \in SUBSET Mishaps : HangUp({}, also)
    BY <1>17, ClickHangUpEffect
  <2>2. session \in Calls /\ record' = record
    BY <1>17, ClickHangUpEffect
  <2>3. QED
    BY <2>1, <2>2, HangUpTypes
<1>18. ASSUME NEW c \in Calls, MicGranted(c) PROVE TypeOK' /\ mishaps \subseteq mishaps'
  <2>1. CASE /\ session # NoCall /\ leg[session].dir = "incoming"
             /\ Ask(session, "start", FALSE, Stale(c))
    <3>1. session \in Calls /\ Stale(c) \in SUBSET Mishaps
      BY <2>1 DEF Stale, Mishaps
    <3>2. QED
      BY <1>18, <2>1, <3>1, MicGrantedEffect, AskTypes DEF Kinds
  <2>2. CASE AskNothing({})
    BY <1>18, <2>2, MicGrantedEffect, AskNothingTypes
  <2>3. QED
    BY <1>18, <2>1, <2>2, MicGrantedEffect
<1>19. ASSUME NEW c \in Calls, MicDenied(c) PROVE TypeOK' /\ mishaps \subseteq mishaps'
  <2>1. /\ Stale(c) \in SUBSET Mishaps
        /\ \A how \in {"rejected", "aborted"} : how \in LegEnd
    BY DEF Stale, Mishaps, LegEnd, Final
  <2>2. CASE \E how \in {"rejected", "aborted"} :
               session' = session /\ GivesUp(c, how) /\ AskNothing({})
    BY <1>19, <2>2, MicDeniedEffect, AskNothingTypes DEF GivesUp
  <2>3. CASE session \in Calls /\ HangUp({c}, Stale(c))
    BY <1>19, <2>1, <2>3, MicDeniedEffect, HangUpTypes
  <2>4. CASE \E how \in {"rejected", "aborted"} :
               /\ session \in Calls
               /\ leg' = GivenUp(Unanswered(leg, session, "rejected"), c, how)
               /\ Ask(session, "reject", TRUE, Stale(c)) /\ session' = session
    <3>1. PICK how \in {"rejected", "aborted"} :
            leg' = GivenUp(Unanswered(leg, session, "rejected"), c, how)
      BY <2>4
    <3>2. Unanswered(leg, session, "rejected") \in [Calls -> Leg]
      BY <2>1, <2>4, UnansweredLegs
    <3>3. leg' \in [Calls -> Leg]
      BY <2>1, <3>1, <3>2, GivenUpLegs
    <3>4. /\ requests' \subseteq Request /\ mishaps' \subseteq Mishaps
          /\ mishaps \subseteq mishaps'
          /\ \A r, q \in requests' : r.id = q.id => r = q
      BY <2>1, <2>4, AskTypes DEF Kinds
    <3>5. QED
      BY <1>19, <2>4, <3>3, <3>4, MicDeniedEffect
  <2>5. QED
    BY <1>19, <2>2, <2>3, <2>4, MicDeniedEffect, Zenon
<1>20. ASSUME NEW c \in Calls, Accepted(c) PROVE TypeOK' /\ mishaps \subseteq mishaps'
  <2>1. PICK also \in SUBSET Mishaps :
          /\ Tallies(c, leg'[c], also)
          /\ \/ session = NoCall /\ AskNothing(also)
             \/ session # NoCall /\ Ask(session, "start", FALSE, also)
    BY <1>20, AcceptedEffect
  <2>2. CASE session = NoCall /\ AskNothing(also)
    BY <1>20, <2>2, AcceptedEffect, AskNothingTypes
  <2>3. CASE session # NoCall /\ Ask(session, "start", FALSE, also)
    <3>1. session \in Calls /\ "start" \in Kinds
      BY <2>3 DEF Kinds
    <3>2. /\ requests' \subseteq Request /\ mishaps' \subseteq Mishaps
          /\ mishaps \subseteq mishaps'
          /\ \A r, q \in requests' : r.id = q.id => r = q
      BY <2>3, <3>1, AskTypes
    <3>3. QED
      BY <1>20, <3>2, AcceptedEffect
  <2>4. QED
    BY <2>1, <2>2, <2>3
<1>21. ASSUME NEW c \in Calls, Refused(c) PROVE TypeOK' /\ mishaps \subseteq mishaps'
  <2>1. CASE session = NoCall /\ AskNothing({})
    BY <1>21, <2>1, RefusedEffect, AskNothingTypes
  <2>2. CASE session # NoCall /\ Ask(session, "reject", FALSE, Belated(c))
    <3>1. session \in Calls /\ Belated(c) \in SUBSET Mishaps /\ "reject" \in Kinds
      BY <1>21, <2>2, RefusedEffect DEF Kinds
    <3>2. /\ requests' \subseteq Request /\ mishaps' \subseteq Mishaps
          /\ mishaps \subseteq mishaps'
          /\ \A r, q \in requests' : r.id = q.id => r = q
      BY <2>2, <3>1, AskTypes
    <3>3. QED
      BY <1>21, <3>2, RefusedEffect
  <2>3. QED
    BY <1>21, <2>1, <2>2, RefusedEffect
<1>22. ASSUME NEW c \in Calls, ReceiveBye(c) PROVE TypeOK' /\ mishaps \subseteq mishaps'
  <2>1. CASE session = NoCall /\ AskNothing({})
    BY <1>22, <2>1, ReceiveByeEffect, AskNothingTypes
  <2>2. CASE session # NoCall /\ Ask(session, "end", TRUE, {})
    <3>1. session \in Calls /\ {} \in SUBSET Mishaps /\ "end" \in Kinds
      BY <2>2 DEF Kinds
    <3>2. /\ requests' \subseteq Request /\ mishaps' \subseteq Mishaps
          /\ mishaps \subseteq mishaps'
          /\ \A r, q \in requests' : r.id = q.id => r = q
      BY <2>2, <3>1, AskTypes
    <3>3. QED
      BY <1>22, <3>2, ReceiveByeEffect
  <2>3. QED
    BY <1>22, <2>1, <2>2, ReceiveByeEffect
<1>23. ASSUME NEW c \in Calls, ReferAccepted(c) PROVE TypeOK' /\ mishaps \subseteq mishaps'
  <2>1. session \in Calls /\ {} \in SUBSET Mishaps /\ "end" \in Kinds
    BY <1>23, ReferAcceptedEffect DEF Kinds
  <2>2. /\ requests' \subseteq Request /\ mishaps' \subseteq Mishaps
        /\ mishaps \subseteq mishaps'
        /\ \A r, q \in requests' : r.id = q.id => r = q
    BY <1>23, <2>1, ReferAcceptedEffect, AskTypes
  <2>3. QED
    BY <1>23, <2>2, ReferAcceptedEffect
<1>24. ASSUME NEW c \in Calls, CancelEarly(c) PROVE TypeOK' /\ mishaps \subseteq mishaps'
  BY <1>24, CancelEarlyEffect, AskNothingTypes DEF Mishaps
<1>25. ASSUME NEW c \in Calls, Unnoticed(c) PROVE TypeOK' /\ mishaps \subseteq mishaps'
  BY <1>25, UnnoticedRingingEffect, UnnoticedTalkingEffect, AskNothingTypes DEF Mishaps
<1>26. ASSUME Reload PROVE TypeOK' /\ mishaps \subseteq mishaps'
  BY <1>26, ReloadEffect
<1>27. ASSUME NEW c \in Calls, AnswerReceived(c) PROVE TypeOK' /\ mishaps \subseteq mishaps'
  BY <1>27, AnswerReceivedEffect, NoRequestTypes
<1>28. QED
  BY <1>1, <1>2, <1>3, <1>4, <1>5, <1>6, <1>7, <1>8, <1>9, <1>10, <1>11,
     <1>12, <1>13, <1>14, <1>15, <1>16, <1>17, <1>18, <1>19, <1>20, <1>21,
     <1>22, <1>23, <1>24, <1>25, <1>26, <1>27, Zenon
     DEF Next, ServerNext, UserNext, LineNext

(* TypeOK holds in every reachable state: the session is that of a call or *)
(* of none, each call has a leg and a record, and the requests of          *)
(* CallService in flight are told apart by their connections.              *)
THEOREM TypeCorrect == Spec => []TypeOK
<1>1. Init => TypeOK
  <2> SUFFICES ASSUME Init PROVE TypeOK
    OBVIOUS
  <2>1. leg \in [Calls -> Leg] /\ record \in [Calls -> Record]
    BY DEF Init, Leg, Record, RecordState, Final
  <2>2. QED
    BY <2>1 DEF Init, TypeOK
<1>2. TypeOK /\ [Next]_vars => TypeOK'
  BY TypeStep
<1>3. QED
  BY <1>1, <1>2, PTL DEF Spec

-----------------------------------------------------------------------------
(* One call at a time.                                                     *)

(* A call in progress for SIP.js.                                          *)
Alive(c) == leg[c].state \in {"Initial", "Establishing", "Established"}

(* Its record is being created.                                            *)
Begins(c) == \E r \in requests : r.call = c /\ r.kind = "create"

(* What may go wrong with the session of the softphone has not.            *)
Kept == mishaps \cap {"overlap", "silent", "declined", "stale", "belated", "uncreated"} = {}

(* While a record is being created there is no session and nothing else    *)
(* goes on; a handler that will clear the session is that of a call that   *)
(* is over; a call in progress is the session's or its record is being     *)
(* created; a microphone not yet granted is that of a call not begun.      *)
OneCall ==
  /\ \A r \in requests : r.kind = "create" =>
       /\ session = NoCall
       /\ \A q \in requests : q.kind = "create" \/ q.clears => q = r
       /\ leg[r.call].dir # "none"
       /\ leg[r.call].state \notin {"Establishing", "Established"}
       /\ leg[r.call].dir = "outgoing" => leg[r.call].state = "None"
  /\ \A r \in requests : r.clears => session \in {r.call, NoCall} /\ ~Alive(r.call)
  /\ \A c \in Calls :
       /\ Alive(c) => session = c \/ Begins(c)
       /\ leg[c].dir = "none" => leg[c].state = "None"
       /\ leg[c].mic = "asked" => leg[c].state # "Established"
       /\ leg[c].mic = "asked" /\ leg[c].dir = "outgoing" => leg[c].state # "Establishing"

HandleInv == Kept => OneCall

(* A request whose handler goes on to clear the session, or not.           *)
LEMMA AskClearing ==
  ASSUME TypeOK, NEW c \in Calls, NEW kind \in Kinds,
         NEW also \in SUBSET Mishaps, Ask(c, kind, TRUE, also)
  PROVE  /\ \E n \in Request :
              /\ n \notin requests /\ requests' = requests \cup {n}
              /\ n.call = c /\ n.kind = kind /\ ~n.served /\ n.clears
         /\ also \subseteq mishaps' /\ (About(c) = {} \/ "crossed" \in mishaps')
<1>1. PICK id \in 1 .. MaxRequests :
        /\ \A r \in requests : r.id # id
        /\ requests' = requests \cup {[id |-> id, call |-> c, kind |-> kind,
                                       clears |-> TRUE, served |-> FALSE]}
  BY DEF Ask
<1> DEFINE n == [id |-> id, call |-> c, kind |-> kind, clears |-> TRUE, served |-> FALSE]
<1>2. /\ n \in Request /\ n.id = id /\ n.call = c /\ n.kind = kind
      /\ ~n.served /\ n.clears
  BY DEF Request
<1>3. requests' = requests \cup {n}
  BY <1>1
<1> HIDE DEF n
<1>4. n \notin requests
  BY <1>1, <1>2
<1>5. TRUE \in BOOLEAN
  OBVIOUS
<1>6. also \subseteq mishaps' /\ (About(c) = {} \/ "crossed" \in mishaps')
  BY <1>5, AskFacts, Zenon
<1>7. QED
  BY <1>2, <1>3, <1>4, <1>6

LEMMA AskKeeping ==
  ASSUME TypeOK, NEW c \in Calls, NEW kind \in Kinds,
         NEW also \in SUBSET Mishaps, Ask(c, kind, FALSE, also)
  PROVE  /\ \E n \in Request :
              /\ n \notin requests /\ requests' = requests \cup {n}
              /\ n.call = c /\ n.kind = kind /\ ~n.served /\ ~n.clears
         /\ also \subseteq mishaps' /\ (About(c) = {} \/ "crossed" \in mishaps')
<1>1. PICK id \in 1 .. MaxRequests :
        /\ \A r \in requests : r.id # id
        /\ requests' = requests \cup {[id |-> id, call |-> c, kind |-> kind,
                                       clears |-> FALSE, served |-> FALSE]}
  BY DEF Ask
<1> DEFINE n == [id |-> id, call |-> c, kind |-> kind, clears |-> FALSE, served |-> FALSE]
<1>2. /\ n \in Request /\ n.id = id /\ n.call = c /\ n.kind = kind
      /\ ~n.served /\ ~n.clears
  BY DEF Request
<1>3. requests' = requests \cup {n}
  BY <1>1
<1> HIDE DEF n
<1>4. n \notin requests
  BY <1>1, <1>2
<1>5. FALSE \in BOOLEAN
  OBVIOUS
<1>6. also \subseteq mishaps' /\ (About(c) = {} \/ "crossed" \in mishaps')
  BY <1>5, AskFacts, Zenon
<1>7. QED
  BY <1>2, <1>3, <1>4, <1>6

(* With a session no record is being created, and only its call goes on.   *)
LEMMA OnlyTheSession ==
  ASSUME TypeOK, OneCall, session \in Calls
  PROVE  /\ \A r \in requests : r.kind # "create"
         /\ \A r \in requests : r.clears => r.call = session /\ ~Alive(session)
         /\ \A c \in Calls : Alive(c) => c = session
<1>1. \A r \in requests : r.kind # "create"
  BY CallsAssumption DEF OneCall
<1>2. \A r \in requests : r.clears => r.call = session /\ ~Alive(session)
  BY CallsAssumption DEF OneCall
<1>3. \A c \in Calls : Alive(c) => c = session
  BY <1>1 DEF OneCall, Begins
<1>4. QED
  BY <1>1, <1>2, <1>3

(* A call beyond its beginning is the session's.                           *)
LEMMA TheSession ==
  ASSUME TypeOK, OneCall, NEW c \in Calls,
         \/ leg[c].state \in {"Establishing", "Established"}
         \/ leg[c].state = "Initial" /\ leg[c].dir = "outgoing"
  PROVE  session = c
<1>1. Alive(c)
  BY DEF Alive
<1>2. ASSUME Begins(c) PROVE FALSE
  <2>1. PICK r \in requests : r.call = c /\ r.kind = "create"
    BY <1>2 DEF Begins
  <2>2. /\ leg[c].state \notin {"Establishing", "Established"}
        /\ leg[c].dir = "outgoing" => leg[c].state = "None"
    BY <2>1 DEF OneCall
  <2>3. QED
    BY <2>2
<1>3. QED
  BY <1>1, <1>2 DEF OneCall

(* The steps of the session's call, with the request n or none.            *)
LEMMA SessionSteps ==
  ASSUME TypeOK, OneCall, session \in Calls, NEW n,
         n.kind # "create", n.clears => n.call = session,
         requests' = requests \/ requests' = requests \cup {n},
         \A d \in Calls : d # session => leg'[d].dir = leg[d].dir
                     /\ leg'[d].state = leg[d].state /\ leg'[d].mic = leg[d].mic,
         leg'[session].dir = leg[session].dir,
         leg[session].state = "None" => leg'[session].state = "None",
         leg'[session].state \in {"Initial", "Establishing", "Established"} =>
           /\ Alive(session) /\ session' = session
           /\ n.clears => requests' = requests
           /\ leg'[session].mic = "asked" =>
                 /\ leg'[session].state # "Established"
                 /\ leg[session].dir = "outgoing" => leg'[session].state # "Establishing",
         session' \in {session, NoCall}
  PROVE  OneCall'
<1>1. /\ \A r \in requests : r.kind # "create"
      /\ \A r \in requests : r.clears => r.call = session /\ ~Alive(session)
      /\ \A c \in Calls : Alive(c) => c = session
  BY OnlyTheSession
<1>2. \A r \in requests' : r.kind # "create"
  BY <1>1
<1>3. ASSUME NEW r \in requests', r.clears
      PROVE  session' \in {r.call, NoCall} /\ ~Alive(r.call)'
  <2>1. r.call = session
    BY <1>1, <1>3
  <2>2. leg'[session].state \notin {"Initial", "Establishing", "Established"}
    BY <1>1, <1>3
  <2>3. QED
    BY <2>1, <2>2 DEF Alive
<1>4. ASSUME NEW c \in Calls
      PROVE  /\ Alive(c)' => session' = c
             /\ leg'[c].dir = "none" => leg'[c].state = "None"
             /\ leg'[c].mic = "asked" => leg'[c].state # "Established"
             /\ leg'[c].mic = "asked" /\ leg'[c].dir = "outgoing" =>
                  leg'[c].state # "Establishing"
  <2>1. CASE c = session
    BY <2>1 DEF OneCall, Alive
  <2>2. CASE c # session
    BY <1>1, <2>2 DEF OneCall, Alive
  <2>3. QED
    BY <2>1, <2>2
<1>5. QED
  BY <1>2, <1>3, <1>4 DEF OneCall

(* The user hangs up, or the microphone of the session's call is denied.   *)
LEMMA HangUpKeeps ==
  ASSUME TypeOK, OneCall, Kept', session \in Calls, NEW ended \in SUBSET {session},
         NEW also \in SUBSET Mishaps, HangUp(ended, also)
  PROVE  OneCall'
<1>1. leg[session].state \in LegState
  BY LegFields DEF TypeOK
<1>2. CASE leg' = leg /\ session' = session /\ requests' = requests
  BY <1>2 DEF OneCall, Alive, Begins
<1>3. CASE ~(leg' = leg /\ session' = session /\ requests' = requests)
  <2>1. /\ ~(leg[session].state = "Establishing" /\ leg[session].dir = "incoming")
        /\ leg' \in [Calls -> Leg]
        /\ \A d \in Calls : d \notin ended /\ d # session => leg'[d] = leg[d]
        /\ \A d \in Calls : leg'[d].dir = leg[d].dir /\ leg'[d].referred = leg[d].referred
        /\ leg[session].state = "Establishing" =>
             /\ leg'[session].state = "Terminating" /\ leg'[session].end = "aborted"
             /\ leg'[session].mic = leg[session].mic
        /\ leg[session].state = "Established" =>
             /\ leg'[session].state = "Terminated" /\ leg'[session].end = "terminated"
             /\ leg'[session].mic = leg[session].mic
        /\ \A d \in ended :
             \/ d = session /\ leg[d].state \in {"Establishing", "Established"}
             \/ /\ leg'[d].mic = "none"
                /\ leg[d].state \in {"Initial", "Establishing"} =>
                     leg'[d].state = "Terminated" /\ leg'[d].end = "aborted"
                /\ leg[d].state \notin {"Initial", "Establishing"} =>
                     leg'[d].state = leg[d].state /\ leg'[d].end = leg[d].end
        /\ session \notin ended /\ leg[session].state \notin {"Establishing", "Established"}
             => leg'[session] = leg[session]
    BY <1>3, HangUpEffect, Zenon
  <2>2. PICK wrong \in SUBSET Mishaps :
          /\ leg[session].state = "Initial" /\ session \notin ended => "silent" \in wrong
          /\ \/ Ask(session, "abort", TRUE, wrong) /\ session' = session
             \/ Ask(session, "end", TRUE, wrong) /\ session' = session
             \/ AskNothing(wrong) /\ session' = NoCall
    BY <1>3, HangUpEffect, Zenon
  <2>3. leg[session].state = "Initial" => session \in ended
    <3>1. wrong \subseteq mishaps'
      <4>1. \A kind \in {"abort", "end"} : kind \in Kinds
        BY DEF Kinds
      <4>2. \A kind \in {"abort", "end"} :
              Ask(session, kind, TRUE, wrong) => wrong \subseteq mishaps'
        BY <4>1, AskClearing
      <4>3. QED
        BY <2>2, <4>2, AskNothingTypes
    <3>2. QED
      BY <2>2, <3>1 DEF Kept
  <2>4. /\ leg'[session].state \notin {"Initial", "Establishing", "Established"}
        /\ leg[session].state = "None" => leg'[session].state = "None"
        /\ leg'[session].dir = leg[session].dir
        /\ \A d \in Calls : d # session => leg'[d] = leg[d]
    <3>1. leg[session].state \in LegState
      BY <1>1
    <3>2. CASE leg[session].state \in {"Establishing", "Established"}
      BY <2>1, <3>2
    <3>3. CASE leg[session].state \notin {"Establishing", "Established"} /\ session \in ended
      BY <2>1, <3>1, <3>3 DEF LegState
    <3>4. CASE leg[session].state \notin {"Establishing", "Established"} /\ session \notin ended
      BY <2>1, <2>3, <3>1, <3>4 DEF LegState
    <3>5. QED
      BY <3>2, <3>3, <3>4
  <2>5. \E n : /\ n.kind # "create" /\ (n.clears => n.call = session)
               /\ requests' = requests \/ requests' = requests \cup {n}
               /\ session' \in {session, NoCall}
    <3>1. CASE AskNothing(wrong) /\ session' = NoCall
      <4>1. /\ [kind |-> "end", clears |-> FALSE].kind # "create"
            /\ ~[kind |-> "end", clears |-> FALSE].clears
        OBVIOUS
      <4>2. QED
        BY <3>1, <4>1, Zenon DEF AskNothing
    <3>2. ASSUME NEW kind \in {"abort", "end"}, Ask(session, kind, TRUE, wrong),
                 session' = session
          PROVE  \E n \in Request : n.call = session /\ n.kind = kind
                                   /\ requests' = requests \cup {n}
      <4>1. kind \in Kinds
        BY DEF Kinds
      <4>2. QED
        BY <3>2, <4>1, AskClearing
    <3>3. CASE /\ session' = session
               /\ Ask(session, "abort", TRUE, wrong) \/ Ask(session, "end", TRUE, wrong)
      BY <3>2, <3>3
    <3>4. QED
      BY <2>2, <3>1, <3>3
  <2>6. PICK n : /\ n.kind # "create" /\ (n.clears => n.call = session)
                 /\ requests' = requests \/ requests' = requests \cup {n}
                 /\ session' \in {session, NoCall}
    BY <2>5
  <2>7. \A d \in Calls : d # session => leg'[d].dir = leg[d].dir
                       /\ leg'[d].state = leg[d].state /\ leg'[d].mic = leg[d].mic
    BY <2>4
  <2>8. QED
    BY <2>4, <2>6, <2>7, SessionSteps
<1>4. QED
  BY <1>2, <1>3

LEMMA HandleStep ==
  ASSUME TypeOK, HandleInv, [Next]_vars
  PROVE  HandleInv'
<1> SUFFICES ASSUME Kept' PROVE OneCall'
  BY DEF HandleInv
<1>a. mishaps \subseteq mishaps'
  BY TypeStep
<1>b. OneCall
  BY <1>a DEF Kept, HandleInv
<1>c. /\ "overlap" \notin mishaps' /\ "silent" \notin mishaps' /\ "declined" \notin mishaps'
      /\ "stale" \notin mishaps' /\ "belated" \notin mishaps'
      /\ "uncreated" \notin mishaps'
  BY DEF Kept
<1>d. /\ \A r \in requests : r.call \in Calls /\ r.clears \in BOOLEAN
      /\ session \in Calls \cup {NoCall} /\ NoCall \notin Calls
  BY RequestFields, CallsAssumption DEF TypeOK
<1>1. ASSUME UNCHANGED vars PROVE OneCall'
  BY <1>1, <1>b DEF vars, OneCall, Alive, Begins
<1>2. ASSUME NEW r \in requests, Serve(r) PROVE OneCall'
  <2>1. PICK n \in Request : /\ requests' = (requests \ {r}) \cup {n}
                 /\ n.call = r.call /\ n.kind = r.kind /\ n.clears = r.clears
    BY <1>2, ServeEffect
  <2>2. session' = session /\ leg' = leg
    BY <1>2, ServeEffect
  <2>3. QED
    BY <1>b, <1>d, <2>1, <2>2 DEF OneCall, Alive, Begins
<1>3. ASSUME NEW r \in requests, Answered(r) PROVE OneCall'
  BY <1>3, <1>b, <1>c, <1>d, AnsweredEffect DEF OneCall, Alive, Begins
<1>4. ASSUME NEW r \in requests, Failed(r) PROVE OneCall'
  BY <1>4, <1>b, <1>c, <1>d, FailedEffect DEF OneCall, Alive, Begins
<1>5. ASSUME NEW r \in requests, Created(r) PROVE OneCall'
  BY <1>5, <1>b, <1>c, <1>d, CreatedEffect DEF OneCall, Alive, Begins
<1>6. ASSUME NEW c \in Calls, Dial(c) PROVE OneCall'
  <2>1. PICK also \in SUBSET Mishaps :
          /\ Ask(c, "create", FALSE, also)
          /\ session # NoCall \/ Busy => "overlap" \in also
    BY <1>6, DialEffect
  <2>2. "create" \in Kinds /\ c \in Calls
    BY <1>6, DialEffect DEF Kinds
  <2>3. also \subseteq mishaps'
    BY <2>1, <2>2, AskKeeping
  <2>4. PICK n \in Request : /\ n \notin requests /\ requests' = requests \cup {n}
                             /\ n.call = c /\ n.kind = "create" /\ ~n.clears
    BY <2>1, <2>2, AskKeeping
  <2>5. session = NoCall /\ ~Busy
    BY <1>c, <2>1, <2>3
  <2>6. \A r \in requests' : (r.kind = "create" \/ r.clears) => r = n
    BY <2>4, <2>5 DEF Busy
  <2>7. \A d \in Calls : ~Alive(d)
    BY <1>b, <1>d, <2>5 DEF OneCall, Begins, Busy
  <2>8. /\ leg[c].dir = "none" /\ session' = session
        /\ \A d \in Calls : d # c => leg'[d] = leg[d]
        /\ leg'[c].dir = "outgoing" /\ leg'[c].state = leg[c].state
    BY <1>6, DialEffect
  <2>9. leg[c].state = "None"
    BY <1>b, <2>8 DEF OneCall
  <2>10. n \in requests'
    BY <2>4
  <2>11. ASSUME NEW d \in Calls
         PROVE  /\ Alive(d)' => Begins(d)'
                /\ leg'[d].dir = "none" => leg'[d].state = "None"
                /\ leg'[d].mic = "asked" => leg'[d].state # "Established"
                /\ leg'[d].mic = "asked" /\ leg'[d].dir = "outgoing" =>
                     leg'[d].state # "Establishing"
    <3>1. CASE d = c
      BY <2>4, <2>8, <2>9, <2>10, <3>1 DEF Alive, Begins
    <3>2. CASE d # c
      BY <1>b, <2>7, <2>8, <3>2 DEF OneCall, Alive
    <3>3. QED
      BY <3>1, <3>2
  <2>12. QED
    BY <2>4, <2>5, <2>6, <2>8, <2>9, <2>11 DEF OneCall
<1>7. ASSUME NEW c \in Calls, ReceiveInvitation(c) PROVE OneCall'
  <2>1. CASE session # NoCall
    BY <1>7, <2>1, <1>b, <1>d, InvitationTurnedDownEffect DEF OneCall, Alive, Begins, AskNothing
  <2>2. CASE session = NoCall
    <3>1. PICK also \in SUBSET Mishaps :
            /\ Ask(c, "create", FALSE, also)
            /\ Busy => "overlap" \in also
      BY <1>7, <2>2, InvitationTakenEffect
    <3>2. "create" \in Kinds /\ c \in Calls
      BY <1>7, <2>2, InvitationTakenEffect DEF Kinds
    <3>3. also \subseteq mishaps'
      BY <3>1, <3>2, AskKeeping
    <3>4. PICK n \in Request : /\ n \notin requests /\ requests' = requests \cup {n}
                               /\ n.call = c /\ n.kind = "create" /\ ~n.clears
      BY <3>1, <3>2, AskKeeping
    <3>5. session = NoCall /\ ~Busy
      BY <1>c, <2>2, <3>1, <3>3
    <3>6. \A r \in requests' : (r.kind = "create" \/ r.clears) => r = n
      BY <3>4, <3>5 DEF Busy
    <3>7. \A d \in Calls : ~Alive(d)
      BY <1>b, <1>d, <3>5 DEF OneCall, Begins, Busy
    <3>8. /\ leg[c].dir = "none" /\ session' = session
          /\ \A d \in Calls : d # c => leg'[d] = leg[d]
          /\ leg'[c].dir = "incoming" /\ leg'[c].state = "Initial"
      BY <1>7, <2>2, InvitationTakenEffect
    <3>9. leg[c].state = "None"
      BY <1>b, <3>8 DEF OneCall
    <3>10. n \in requests'
      BY <3>4
    <3>11. ASSUME NEW d \in Calls
           PROVE  /\ Alive(d)' => Begins(d)'
                  /\ leg'[d].dir = "none" => leg'[d].state = "None"
                  /\ leg'[d].mic = "asked" => leg'[d].state # "Established"
                  /\ leg'[d].mic = "asked" /\ leg'[d].dir = "outgoing" =>
                       leg'[d].state # "Establishing"
      <4>1. CASE d = c
        BY <3>4, <3>8, <3>9, <3>10, <4>1 DEF Alive, Begins
      <4>2. CASE d # c
        BY <1>b, <3>7, <3>8, <4>2 DEF OneCall, Alive
      <4>3. QED
        BY <4>1, <4>2
    <3>12. QED
      BY <3>4, <3>5, <3>6, <3>8, <3>9, <3>11 DEF OneCall
  <2>3. QED
    BY <2>1, <2>2
<1>8. ASSUME NEW c \in Calls, RejectInvitation(c) PROVE OneCall'
  BY <1>8, <1>b, <1>c, <1>d, RejectInvitationEffect DEF OneCall, Alive, Begins
<1>9. ASSUME NEW c \in Calls, Canceled(c) PROVE OneCall'
  BY <1>9, <1>b, <1>c, <1>d, CanceledEffect DEF OneCall, Alive, Begins
<1>10. ASSUME NEW c \in Calls, OfferReady(c) PROVE OneCall'
  <2>1. session \in Calls /\ session = c
    BY <1>10, <1>b, OfferReadyEffect, TheSession
  <2>2. \E n : n.kind # "create" /\ ~n.clears
    <3>1. /\ [kind |-> "end", clears |-> FALSE].kind # "create"
          /\ ~[kind |-> "end", clears |-> FALSE].clears
      OBVIOUS
    <3>2. QED
      BY <3>1, Zenon
  <2>3. leg[session].mic = "asked" =>
          /\ leg[session].state # "Established"
          /\ leg[session].dir = "outgoing" => leg[session].state # "Establishing"
    BY <2>1, <1>b DEF OneCall
  <2>4. QED
    BY <1>10, <1>b, <2>1, <2>2, <2>3, OfferReadyEffect, SessionSteps
       DEF Alive, AskNothing
<1>11. ASSUME NEW c \in Calls, AcceptSent(c) PROVE OneCall'
  <2>1. session \in Calls /\ session = c
    BY <1>11, <1>b, AcceptSentEffect, TheSession
  <2>2. \E n : n.kind # "create" /\ ~n.clears
    <3>1. /\ [kind |-> "end", clears |-> FALSE].kind # "create"
          /\ ~[kind |-> "end", clears |-> FALSE].clears
      OBVIOUS
    <3>2. QED
      BY <3>1, Zenon
  <2>3. leg[session].mic = "asked" =>
          /\ leg[session].state # "Established"
          /\ leg[session].dir = "outgoing" => leg[session].state # "Establishing"
    BY <2>1, <1>b DEF OneCall
  <2>4. QED
    BY <1>11, <1>b, <2>1, <2>2, <2>3, AcceptSentEffect, SessionSteps
       DEF Alive, AskNothing
<1>12. ASSUME NEW c \in Calls, AcceptedElsewhere(c) PROVE OneCall'
  <2>1. PICK also \in SUBSET Mishaps : Tallies(c, leg'[c], also) /\ AskNothing(also)
    BY <1>12, AcceptedElsewhereEffect
  <2>2. also \subseteq mishaps' /\ requests' = requests
    BY <2>1, AskNothingTypes
  <2>3. leg[c].state \in {"Establishing", "Terminating"} /\ session \in Calls
    BY <1>12, AcceptedElsewhereEffect
  <2>4. session = c
    <3>1. CASE leg[c].state = "Establishing"
      BY <1>b, <3>1, TheSession
    <3>2. CASE leg[c].state = "Terminating"
      BY <1>c, <1>d, <2>1, <2>2, <2>3, <3>2 DEF Tallies
    <3>3. QED
      BY <2>3, <3>1, <3>2
  <2>5. \E n : n.kind # "create" /\ ~n.clears
    <3>1. /\ [kind |-> "end", clears |-> FALSE].kind # "create"
          /\ ~[kind |-> "end", clears |-> FALSE].clears
      OBVIOUS
    <3>2. QED
      BY <3>1, Zenon
  <2>6. leg[session].mic = "asked" /\ leg[session].dir = "outgoing" =>
          leg[session].state # "Establishing"
    BY <2>4, <1>b DEF OneCall
  <2>7. /\ session' = session
        /\ \A d \in Calls : d # session => leg'[d].dir = leg[d].dir
                      /\ leg'[d].state = leg[d].state /\ leg'[d].mic = leg[d].mic
        /\ leg'[session].dir = leg[session].dir /\ leg'[session].mic = leg[session].mic
        /\ leg[session].dir = "outgoing"
        /\ \/ leg[session].state = "Establishing" /\ leg'[session].state = "Established"
           \/ leg'[session].state = "Terminated"
    BY <1>12, <2>4, AcceptedElsewhereEffect DEF Settles
  <2>8. QED
    BY <1>b, <2>2, <2>3, <2>4, <2>5, <2>6, <2>7, SessionSteps DEF Alive
<1>13. ASSUME ClickAccept PROVE OneCall'
  <2>1. session \in Calls
    BY <1>13, <1>d DEF ClickAccept, Ringing, InProgress
  <2>2. \E n : n.kind # "create" /\ ~n.clears
    <3>1. /\ [kind |-> "end", clears |-> FALSE].kind # "create"
          /\ ~[kind |-> "end", clears |-> FALSE].clears
      OBVIOUS
    <3>2. QED
      BY <3>1, Zenon
  <2>3. leg[session].mic = "asked" =>
          /\ leg[session].state # "Established"
          /\ leg[session].dir = "outgoing" => leg[session].state # "Establishing"
    BY <2>1, <1>b DEF OneCall
  <2>4. QED
    BY <1>13, <1>b, <2>1, <2>2, <2>3, ClickAcceptEffect, SessionSteps
       DEF Alive, AskNothing
<1>14. ASSUME ClickTransfer PROVE OneCall'
  <2>1. session \in Calls
    BY <1>14, <1>d DEF ClickTransfer, Ringing, InProgress
  <2>2. \E n : n.kind # "create" /\ ~n.clears
    <3>1. /\ [kind |-> "end", clears |-> FALSE].kind # "create"
          /\ ~[kind |-> "end", clears |-> FALSE].clears
      OBVIOUS
    <3>2. QED
      BY <3>1, Zenon
  <2>3. leg[session].mic = "asked" =>
          /\ leg[session].state # "Established"
          /\ leg[session].dir = "outgoing" => leg[session].state # "Establishing"
    BY <2>1, <1>b DEF OneCall
  <2>4. QED
    BY <1>14, <1>b, <2>1, <2>2, <2>3, ClickTransferEffect, SessionSteps
       DEF Alive, AskNothing
<1>15. ASSUME ClickReject PROVE OneCall'
  <2>1. PICK also \in SUBSET Mishaps :
          /\ Ask(session, "reject", TRUE, also)
          /\ leg[session].state = "Established" => "declined" \in also
    BY <1>15, ClickRejectEffect
  <2>2. "reject" \in Kinds /\ session \in Calls
    BY <1>15, ClickRejectEffect DEF Kinds
  <2>3. also \subseteq mishaps'
    BY <2>1, <2>2, AskClearing
  <2>4. PICK n \in Request : /\ n \notin requests /\ requests' = requests \cup {n}
                             /\ n.call = session /\ n.kind = "reject" /\ n.clears
    BY <2>1, <2>2, AskClearing
  <2>5. QED
    BY <1>15, <1>b, <1>c, <1>d, <2>1, <2>3, <2>4, ClickRejectEffect
       DEF OneCall, Alive, Begins, Declines
<1>16. ASSUME NEW c \in Calls, Cancel(c) PROVE OneCall'
  <2>1. PICK also \in SUBSET Mishaps : Ask(session, "miss", FALSE, also)
    BY <1>16, CancelEffect
  <2>2. "miss" \in Kinds /\ session \in Calls
    BY <1>16, CancelEffect DEF Kinds
  <2>3. also \subseteq mishaps'
    BY <2>1, <2>2, AskKeeping
  <2>4. PICK n \in Request : /\ n \notin requests /\ requests' = requests \cup {n}
                             /\ n.call = session /\ n.kind = "miss" /\ ~n.clears
    BY <2>1, <2>2, AskKeeping
  <2>5. session = c
    BY <1>16, <1>b, <2>2, CancelEffect, OnlyTheSession DEF Alive
  <2>6. QED
    BY <1>16, <1>b, <2>2, <2>4, <2>5, CancelEffect, SessionSteps DEF Declines
<1>17. ASSUME ClickHangUp PROVE OneCall'
  <2>1. PICK also \in SUBSET Mishaps : HangUp({}, also)
    BY <1>17, ClickHangUpEffect
  <2>2. session \in Calls
    BY <1>17, ClickHangUpEffect
  <2>3. QED
    BY <1>b, <2>1, <2>2, HangUpKeeps
<1>18. ASSUME NEW c \in Calls, MicGranted(c) PROVE OneCall'
  <2>1. CASE session \in Calls /\ Ask(session, "start", FALSE, Stale(c))
    <3>1. Stale(c) \in SUBSET Mishaps /\ "start" \in Kinds
      BY DEF Stale, Mishaps, Kinds
    <3>2. PICK n \in Request : /\ requests' = requests \cup {n}
                               /\ n.kind = "start" /\ ~n.clears
      BY <2>1, <3>1, AskKeeping
    <3>3. Stale(c) \subseteq mishaps'
      BY <2>1, <3>1, AskKeeping
    <3>4. session = c
      BY <1>c, <1>d, <2>1, <3>3 DEF Stale
    <3>5. /\ leg[c].mic = "asked" /\ session' = session
          /\ leg'[c].dir = leg[c].dir /\ leg'[c].state = leg[c].state /\ leg'[c].mic = "given"
          /\ \A d \in Calls : d # c => leg'[d] = leg[d]
      BY <1>18, MicGrantedEffect
    <3>6. QED
      BY <1>b, <2>1, <3>2, <3>4, <3>5, SessionSteps DEF Alive
  <2>2. CASE AskNothing({})
    <3>1. /\ session' = session /\ leg'[c].dir = leg[c].dir /\ leg'[c].state = leg[c].state
          /\ leg'[c].mic = "given" /\ requests' = requests
          /\ \A d \in Calls : d # c => leg'[d] = leg[d]
      BY <1>18, <2>2, MicGrantedEffect DEF AskNothing
    <3>2. /\ \A d \in Calls : leg'[d].dir = leg[d].dir /\ leg'[d].state = leg[d].state
          /\ \A d \in Calls : leg'[d].mic = "asked" => leg[d].mic = "asked"
      BY <3>1
    <3>3. QED
      BY <1>b, <1>d, <3>1, <3>2 DEF OneCall, Alive, Begins
  <2>3. QED
    BY <1>18, <1>d, <2>1, <2>2, MicGrantedEffect
<1>19. ASSUME NEW c \in Calls, MicDenied(c) PROVE OneCall'
  <2>1. Stale(c) \in SUBSET Mishaps /\ "reject" \in Kinds
    BY DEF Stale, Mishaps, Kinds
  <2>2. PICK how \in {"rejected", "aborted"} :
          /\ how = "rejected" <=> leg[c].dir = "incoming"
          /\ \/ /\ session = NoCall /\ session' = session
                /\ GivesUp(c, how) /\ AskNothing({})
             \/ /\ session \in Calls /\ leg[session].dir = "outgoing"
                /\ HangUp({c}, Stale(c))
             \/ /\ session \in Calls /\ leg[session].dir = "incoming"
                /\ leg' = GivenUp(Unanswered(leg, session, "rejected"), c, how)
                /\ Ask(session, "reject", TRUE, Stale(c)) /\ session' = session
    BY <1>19, MicDeniedEffect
  <2>3. leg[c].mic = "asked"
    BY <1>19, MicDeniedEffect
  <2>4. CASE session = NoCall /\ session' = session /\ GivesUp(c, how) /\ AskNothing({})
    BY <1>b, <1>d, <2>3, <2>4 DEF OneCall, Alive, Begins, GivesUp, AskNothing
  <2>5. CASE session \in Calls /\ leg[session].dir = "outgoing" /\ HangUp({c}, Stale(c))
    <3>1. Stale(c) \subseteq mishaps'
      <4>1. ASSUME NEW wrong \in SUBSET Mishaps, Stale(c) \subseteq wrong,
                   Ask(session, "abort", TRUE, wrong) \/ Ask(session, "end", TRUE, wrong)
                   \/ AskNothing(wrong)
            PROVE  Stale(c) \subseteq mishaps'
        <5>1. \A kind \in {"abort", "end"} : kind \in Kinds
          BY DEF Kinds
        <5>2. \A kind \in {"abort", "end"} :
                Ask(session, kind, TRUE, wrong) => wrong \subseteq mishaps'
          BY <2>5, <5>1, AskClearing
        <5>3. QED
          BY <4>1, <5>2, AskNothingTypes
      <4>2. /\ {c} \in SUBSET Calls
            /\ ~(leg[session].state = "Establishing" /\ leg[session].dir = "incoming")
        BY <2>5
      <4>3. \E wrong \in SUBSET Mishaps :
              /\ Stale(c) \subseteq wrong
              /\ Ask(session, "abort", TRUE, wrong) \/ Ask(session, "end", TRUE, wrong)
                 \/ AskNothing(wrong)
        BY <2>1, <2>5, <4>2, HangUpEffect, Zenon
      <4>4. QED
        BY <4>1, <4>3
    <3>2. session = c
      BY <1>c, <1>d, <2>5, <3>1 DEF Stale
    <3>3. QED
      BY <1>b, <2>1, <2>5, <3>2, HangUpKeeps
  <2>6. CASE /\ session \in Calls /\ leg[session].dir = "incoming"
             /\ leg' = GivenUp(Unanswered(leg, session, "rejected"), c, how)
             /\ Ask(session, "reject", TRUE, Stale(c)) /\ session' = session
    <3>1. Stale(c) \subseteq mishaps'
      BY <2>1, <2>6, AskClearing
    <3>2. session = c
      BY <1>c, <2>6, <3>1, <1>d DEF Stale
    <3>3. GivesUp(session, "rejected")
      BY <2>2, <2>6, <3>2, MicDeniedOwn
    <3>4. PICK n \in Request : /\ requests' = requests \cup {n}
                   /\ n.call = session /\ n.kind = "reject" /\ n.clears
      <4>1. session \in Calls /\ Ask(session, "reject", TRUE, Stale(c))
        BY <2>6
      <4>2. QED
        BY <2>1, <4>1, AskClearing
    <3>5. leg[c].state # "Established"
      BY <1>b, <2>3 DEF OneCall
    <3>6. leg[c].state \in LegState
      BY LegFields DEF TypeOK
    <3>7. leg'[session].state \notin {"Initial", "Establishing", "Established"}
      BY <3>2, <3>3, <3>5, <3>6 DEF GivesUp, LegState
    <3>8. QED
      BY <1>b, <2>6, <3>2, <3>3, <3>4, <3>7, SessionSteps DEF GivesUp
  <2>7. QED
    BY <2>2, <2>4, <2>5, <2>6
<1>20. ASSUME NEW c \in Calls, Accepted(c) PROVE OneCall'
  <2>1. PICK also \in SUBSET Mishaps :
          /\ Tallies(c, leg'[c], also)
          /\ \/ session = NoCall /\ AskNothing(also)
             \/ session # NoCall /\ Ask(session, "start", FALSE, also)
    BY <1>20, AcceptedEffect
  <2>2. /\ leg[c].dir = "outgoing" /\ leg[c].state \in {"Establishing", "Terminating"}
        /\ \A d \in Calls : d # c => leg'[d] = leg[d]
        /\ leg'[c].dir = leg[c].dir /\ leg'[c].mic = leg[c].mic /\ session' = session
        /\ \/ leg[c].state = "Establishing" /\ leg'[c].state = "Established"
           \/ leg'[c].state = "Terminated"
    BY <1>20, AcceptedEffect DEF Settles
  <2>3. leg[c].state = "Establishing" => session = c
    BY <1>b, TheSession
  <2>4. CASE session = NoCall
    <3>1. requests' = requests
      BY <2>1, <2>4 DEF AskNothing
    <3>2. leg'[c].state = "Terminated"
      BY <1>d, <2>2, <2>3, <2>4
    <3>3. QED
      BY <1>b, <1>d, <2>2, <3>1, <3>2 DEF OneCall, Alive, Begins
  <2>5. CASE session # NoCall
    <3>1. "start" \in Kinds /\ session \in Calls /\ Ask(session, "start", FALSE, also)
      BY <1>d, <2>1, <2>5 DEF Kinds
    <3>2. also \subseteq mishaps'
      BY <3>1, AskKeeping
    <3>3. session = c
      BY <1>c, <2>1, <2>2, <2>3, <2>5, <3>2 DEF Tallies
    <3>4. PICK n \in Request : /\ requests' = requests \cup {n}
                               /\ n.kind = "start" /\ ~n.clears
      BY <3>1, AskKeeping
    <3>5. leg[c].mic = "asked" => leg[c].state # "Establishing"
      BY <1>b, <2>2 DEF OneCall
    <3>6. QED
      BY <1>b, <2>2, <3>1, <3>3, <3>4, <3>5, SessionSteps DEF Alive
  <2>6. QED
    BY <2>4, <2>5
<1>21. ASSUME NEW c \in Calls, Refused(c) PROVE OneCall'
  <2>1. /\ leg[c].state \in {"Establishing", "Terminating"}
        /\ \A d \in Calls : d # c => leg'[d] = leg[d]
        /\ leg'[c].dir = leg[c].dir /\ leg'[c].mic = leg[c].mic /\ session' = NoCall
        /\ leg'[c].state = "Terminated"
    BY <1>21, RefusedEffect
  <2>2. leg[c].state = "Establishing" => session = c
    BY <1>b, TheSession
  <2>3. CASE session = NoCall
    <3>1. requests' = requests
      BY <1>21, <2>3, RefusedEffect DEF AskNothing
    <3>2. QED
      BY <1>b, <1>d, <2>1, <2>3, <3>1 DEF OneCall, Alive, Begins
  <2>4. CASE session # NoCall
    <3>1. /\ "reject" \in Kinds /\ session \in Calls /\ Belated(c) \in SUBSET Mishaps
          /\ Ask(session, "reject", FALSE, Belated(c))
      BY <1>21, <1>d, <2>4, RefusedEffect DEF Kinds
    <3>2. Belated(c) \subseteq mishaps'
      BY <3>1, AskKeeping
    <3>3. session = c
      BY <1>c, <2>1, <2>2, <2>4, <3>2 DEF Belated
    <3>4. PICK n \in Request : /\ requests' = requests \cup {n}
                               /\ n.kind = "reject" /\ ~n.clears
      BY <3>1, AskKeeping
    <3>5. QED
      BY <1>b, <2>1, <3>1, <3>3, <3>4, SessionSteps
  <2>5. QED
    BY <2>3, <2>4
<1>22. ASSUME NEW c \in Calls, ReceiveBye(c) PROVE OneCall'
  <2>1. session = c
    BY <1>22, <1>b, ReceiveByeEffect, TheSession
  <2>2. Ask(session, "end", TRUE, {}) /\ {} \in SUBSET Mishaps /\ "end" \in Kinds
    BY <1>22, <1>d, <2>1, ReceiveByeEffect DEF Kinds
  <2>3. PICK n \in Request : /\ n \notin requests /\ requests' = requests \cup {n}
                             /\ n.call = session /\ n.kind = "end" /\ n.clears
    BY <2>1, <2>2, AskClearing
  <2>4. leg[c].mic = "asked" /\ leg[c].dir = "outgoing" => leg[c].state # "Establishing"
    BY <1>b DEF OneCall
  <2>5. /\ session \in Calls /\ session' \in {session, NoCall} /\ leg[session] = leg[c]
        /\ \A d \in Calls : d # session => leg'[d] = leg[d]
        /\ leg'[session].dir = leg[session].dir /\ leg'[session].mic = leg[session].mic
        /\ leg[session].state # "None"
        /\ leg'[session].state = "Terminated"
    BY <1>22, <2>1, ReceiveByeEffect
  <2>6. \A d \in Calls : d # session => leg'[d].dir = leg[d].dir
                       /\ leg'[d].state = leg[d].state /\ leg'[d].mic = leg[d].mic
    BY <2>5
  <2>7. QED
    BY <1>b, <2>3, <2>4, <2>5, <2>6, SessionSteps DEF Alive
<1>23. ASSUME NEW c \in Calls, ReferAccepted(c) PROVE OneCall'
  <2>1. session = c
    BY <1>23, <1>b, ReferAcceptedEffect, TheSession
  <2>2. Ask(session, "end", FALSE, {}) /\ {} \in SUBSET Mishaps /\ "end" \in Kinds
    BY <1>23, <1>d, <2>1, ReferAcceptedEffect DEF Kinds
  <2>3. PICK n \in Request : /\ n \notin requests /\ requests' = requests \cup {n}
                             /\ n.call = session /\ n.kind = "end" /\ ~n.clears
    BY <2>1, <2>2, AskKeeping
  <2>4. leg[c].mic = "asked" /\ leg[c].dir = "outgoing" => leg[c].state # "Establishing"
    BY <1>b DEF OneCall
  <2>5. /\ session \in Calls /\ session' \in {session, NoCall} /\ leg[session] = leg[c]
        /\ \A d \in Calls : d # session => leg'[d] = leg[d]
        /\ leg'[session].dir = leg[session].dir /\ leg'[session].mic = leg[session].mic
        /\ leg[session].state # "None"
        /\ leg'[session].state = "Terminated"
    BY <1>23, <2>1, ReferAcceptedEffect
  <2>6. \A d \in Calls : d # session => leg'[d].dir = leg[d].dir
                       /\ leg'[d].state = leg[d].state /\ leg'[d].mic = leg[d].mic
    BY <2>5
  <2>7. QED
    BY <1>b, <2>3, <2>4, <2>5, <2>6, SessionSteps DEF Alive
<1>24. ASSUME NEW c \in Calls, CancelEarly(c) PROVE OneCall'
  BY <1>24, <1>b, <1>d, CancelEarlyEffect DEF OneCall, Alive, Begins, AskNothing
<1>25. ASSUME NEW c \in Calls, Unnoticed(c) PROVE OneCall'
  <2>1. CASE leg[c].state \in {"Initial", "Establishing"}
    BY <1>25, <2>1, <1>b, <1>d, UnnoticedRingingEffect DEF OneCall, Alive, Begins, AskNothing
  <2>2. CASE leg[c].state \notin {"Initial", "Establishing"}
    BY <1>25, <2>2, <1>b, <1>d, UnnoticedTalkingEffect DEF OneCall, Alive, Begins, AskNothing
  <2>3. QED
    BY <2>1, <2>2
<1>26. ASSUME Reload PROVE OneCall'
  <2>1. \A d \in Calls : leg[d].dir = "none" => leg'[d] = leg[d]
    BY <1>26, <1>b, ReloadEffect DEF OneCall
  <2>2. QED
    BY <1>26, <1>b, <2>1, ReloadEffect DEF OneCall, Alive, Begins
<1>27. ASSUME NEW c \in Calls, AnswerReceived(c) PROVE OneCall'
  <2>1. /\ \A d \in Calls : /\ leg'[d].dir = leg[d].dir /\ leg'[d].state = leg[d].state
                            /\ leg'[d].mic = leg[d].mic
        /\ requests' = requests /\ session' = session
    BY <1>27, AnswerReceivedEffect
  <2>2. QED
    BY <1>b, <1>d, <2>1 DEF OneCall, Alive, Begins
<1>28. QED
  BY <1>1, <1>2, <1>3, <1>4, <1>5, <1>6, <1>7, <1>8, <1>9, <1>10, <1>11,
     <1>12, <1>13, <1>14, <1>15, <1>16, <1>17, <1>18, <1>19, <1>20, <1>21,
     <1>22, <1>23, <1>24, <1>25, <1>26, <1>27, Zenon
     DEF Next, ServerNext, UserNext, LineNext

(* A call that is alive, once its record exists, is the one the user can   *)
(* act on: HandleKept, for any number of calls and of requests, as long as *)
(* calls do not overlap, none is hung up before the microphone was granted *)
(* or declined once accepted, the prompt for the microphone is answered in *)
(* its call, the line has not refused or answered a call hung up when      *)
(* another had begun, and the record could be created.                     *)
THEOREM HandleIsKept == Spec => []HandleKept
<1>1. Init => HandleInv
  BY DEF Init, HandleInv, OneCall, Alive, Begins
<1>2. TypeOK /\ HandleInv /\ [Next]_vars => HandleInv'
  BY HandleStep
<1>3. TypeOK /\ HandleInv => HandleKept
  BY DEF HandleInv, HandleKept, Kept, OneCall, Alive, Begins, About, Creating
<1>4. QED
  BY <1>1, <1>2, <1>3, TypeCorrect, PTL DEF Spec

-----------------------------------------------------------------------------
(* The record and the call.                                                *)

Quiet(c) == \A r \in requests : r.call # c

(* What the record of c says once its request is answered.                 *)
Will(c, state) ==
  /\ Quiet(c) => record[c].shown = state
  /\ \A r \in requests : r.call = c => Result(r.kind) = state

(* The record follows its requests, one at a time.                         *)
Follows(c) ==
  /\ \A r, q \in requests : r.call = c /\ q.call = c => r = q
  /\ Quiet(c) => record[c].db = record[c].shown
  /\ \A r \in requests : r.call = c =>
       /\ r.served => record[c].db = Result(r.kind)
       /\ ~r.served => record[c].db = record[c].shown
       /\ r.kind = "create" => record[c].shown = "absent"
       /\ r.kind \in {"start", "abort", "reject", "miss"} => record[c].shown = "calling"
       /\ r.kind = "end" => record[c].shown \in {"calling", "ongoing"}
  /\ record[c].ticking <=> record[c].shown = "ongoing"

(* The record follows the call: what each state of the leg says of it.     *)
Tells(c) ==
  /\ leg[c].dir = "none" =>
       /\ leg[c].state = "None" /\ leg[c].mic = "none"
       /\ Quiet(c) /\ record[c].shown = "absent" /\ session # c
  /\ leg[c].dir = "outgoing" /\ leg[c].state = "None" => Begins(c)
  /\ leg[c].dir = "incoming" => leg[c].state # "None"
  /\ leg[c].dir = "incoming" /\ leg[c].state = "Initial" => leg[c].mic = "none"
  /\ leg[c].state = "Initial" => Will(c, "calling")
  /\ leg[c].state = "Establishing" =>
       \/ leg[c].dir = "incoming" /\ leg[c].mic = "given" /\ Will(c, "ongoing")
       \/ ~(leg[c].dir = "incoming" /\ leg[c].mic = "given") /\ Will(c, "calling")
  /\ leg[c].state = "Established" =>
       Will(c, "ongoing") \/ (leg[c].dir = "outgoing" /\ leg[c].referred /\ Will(c, "calling"))
  /\ leg[c].state \in {"Terminating", "Terminated"} =>
       leg[c].end \in Final
       /\ (session = c => \E r \in requests : r.call = c /\ r.clears)
  /\ leg[c].state = "Terminating" => leg[c].end = "aborted" /\ Will(c, "aborted")
  /\ leg[c].state = "Terminated" =>
       \/ Will(c, leg[c].end)
       \/ leg[c].dir = "incoming" /\ leg[c].end = "rejected" /\ Will(c, "absent")
       \/ leg[c].referred /\ Will(c, "aborted")

Recorded == \A c \in Calls : Follows(c) /\ Tells(c)

RecordInv == mishaps = {} => Recorded

LEMMA Results ==
  /\ Result("create") = "calling" /\ Result("start") = "ongoing"
  /\ Result("abort") = "aborted" /\ Result("end") = "terminated"
  /\ Result("reject") = "rejected" /\ Result("miss") = "missed"
  BY DEF Result

LEMMA QuietOrCrossed ==
  ASSUME TypeOK, NEW c \in Calls, mishaps' = {}, About(c) = {} \/ "crossed" \in mishaps'
  PROVE  Quiet(c)
  BY DEF About, Quiet

(* The calls a step does not touch.                                        *)
LEMMA OneTouched ==
  ASSUME TypeOK, Recorded, NEW s \in Calls,
         \A d \in Calls : d # s => leg'[d] = leg[d] /\ record'[d] = record[d],
         \A r \in requests' : r \in requests \/ r.call = s,
         \A r \in requests : r \in requests' \/ r.call = s,
         session' \in {session, NoCall, s},
         Follows(s)', Tells(s)'
  PROVE  Recorded'
<1> SUFFICES ASSUME NEW d \in Calls, d # s PROVE Follows(d)' /\ Tells(d)'
  BY DEF Recorded
<1>1. /\ leg'[d] = leg[d] /\ record'[d] = record[d]
      /\ \A r \in requests' : r.call = d => r \in requests
      /\ \A r \in requests : r.call = d => r \in requests'
      /\ session' = d => session = d
  BY CallsAssumption
<1>2. Follows(d) /\ Tells(d)
  BY DEF Recorded
<1>3. /\ Quiet(d)' <=> Quiet(d)
      /\ Begins(d)' <=> Begins(d)
      /\ (\E r \in requests' : r.call = d /\ r.clears) <=>
         (\E r \in requests : r.call = d /\ r.clears)
  BY <1>1 DEF Quiet, Begins
<1>4. Follows(d)'
  BY <1>1, <1>2, <1>3 DEF Follows
<1>5. ASSUME NEW state PROVE Will(d, state)' <=> Will(d, state)
  BY <1>1, <1>3 DEF Will
<1>6. Tells(d)'
  BY <1>1, <1>2, <1>3, <1>5 DEF Tells
<1>7. QED
  BY <1>4, <1>6

(* A request leaves about a call with none.                                *)
LEMMA SentAlone ==
  ASSUME TypeOK, NEW c \in Calls, NEW n \in Request, Follows(c), Quiet(c),
         requests' = requests \cup {n}, n.call = c, ~n.served, record' = record,
         n.kind = "create" => record[c].shown = "absent",
         n.kind \in {"start", "abort", "reject", "miss"} => record[c].shown = "calling",
         n.kind = "end" => record[c].shown \in {"calling", "ongoing"}
  PROVE  /\ Follows(c)' /\ ~Quiet(c)'
         /\ \A r \in requests' : r.call = c => r = n
         /\ n \in requests'
<1>1. /\ \A r \in requests' : r.call = c => r = n
      /\ n \in requests' /\ ~Quiet(c)'
  BY DEF Quiet
<1>2. Follows(c)'
  BY <1>1 DEF Follows
<1>3. QED
  BY <1>1, <1>2

LEMMA SameWill ==
  ASSUME NEW c \in Calls, requests' = requests, record' = record, NEW state
  PROVE  /\ Will(c, state)' <=> Will(c, state)
         /\ Quiet(c)' <=> Quiet(c)
         /\ Begins(c)' <=> Begins(c)
         /\ Follows(c)' <=> Follows(c)
<1>1. Will(c, state)' <=> Will(c, state)
  BY DEF Will, Quiet
<1>2. Quiet(c)' <=> Quiet(c)
  BY DEF Quiet
<1>3. Begins(c)' <=> Begins(c)
  BY DEF Begins
<1>4. Follows(c)' <=> Follows(c)
  BY DEF Follows, Quiet
<1>5. QED
  BY <1>1, <1>2, <1>3, <1>4

(* The session's call, when no request about it is in flight.              *)
LEMMA SessionShown ==
  ASSUME TypeOK, OneCall, Recorded, session \in Calls
  PROVE  /\ record[session].shown \in {"calling", "ongoing"}
         /\ leg[session].dir # "none" /\ leg[session].state # "None"
         /\ Quiet(session) =>
              /\ leg[session].state \in {"Initial", "Establishing", "Established"}
              /\ leg[session].state = "Initial" => record[session].shown = "calling"
              /\ leg[session].state = "Establishing" =>
                   \/ leg[session].dir = "incoming" /\ leg[session].mic = "given"
                      /\ record[session].shown = "ongoing"
                   \/ ~(leg[session].dir = "incoming" /\ leg[session].mic = "given")
                      /\ record[session].shown = "calling"
              /\ leg[session].state = "Established" =>
                   \/ record[session].shown = "ongoing"
                   \/ leg[session].referred /\ record[session].shown = "calling"
<1>1. \A r \in requests : r.kind # "create"
  BY OnlyTheSession
<1>2. Follows(session) /\ Tells(session)
  BY DEF Recorded
<1>3. leg[session].state \in LegState /\ leg[session].dir \in {"none", "outgoing", "incoming"}
  BY LegFields DEF TypeOK
<1>4. ~Begins(session)
  BY <1>1 DEF Begins
<1>5. leg[session].dir # "none" /\ leg[session].state # "None"
  BY <1>2, <1>3, <1>4 DEF Tells
<1>6. ASSUME Quiet(session)
      PROVE  leg[session].state \in {"Initial", "Establishing", "Established"}
  <2>1. leg[session].state \notin {"Terminating", "Terminated"}
    BY <1>2, <1>6 DEF Tells, Quiet
  <2>2. QED
    BY <1>3, <1>5, <2>1 DEF LegState
<1>7. CASE Quiet(session)
  BY <1>2, <1>5, <1>6, <1>7 DEF Tells, Will
<1>8. CASE ~Quiet(session)
  <2>1. PICK r \in requests : r.call = session
    BY <1>8 DEF Quiet
  <2>2. r.kind \in {"start", "abort", "reject", "miss", "end"}
    BY <1>1, RequestFields DEF Kinds
  <2>3. record[session].shown \in {"calling", "ongoing"}
    BY <1>2, <2>1, <2>2 DEF Follows
  <2>4. QED
    BY <1>5, <1>8, <2>3
<1>9. QED
  BY <1>7, <1>8

(* The user hangs up, or the microphone of the session's call is denied.   *)
LEMMA HangUpTells ==
  ASSUME TypeOK, OneCall, Recorded, mishaps' = {}, session \in Calls,
         NEW ended \in SUBSET {session}, NEW also \in SUBSET Mishaps, HangUp(ended, also),
         record' = record
  PROVE  Recorded'
<1>1. CASE leg' = leg /\ session' = session /\ requests' = requests
  <2>1. Follows(session) /\ Tells(session)
    BY DEF Recorded
  <2>2. Follows(session)'
    BY <1>1, <2>1, SameWill
  <2>3. Tells(session)'
    BY <1>1, <2>1 DEF Tells, Will, Quiet, Begins
  <2>4. QED
    BY <1>1, <2>2, <2>3, OneTouched
<1>2. CASE ~(leg' = leg /\ session' = session /\ requests' = requests)
  <2>1. /\ ~(leg[session].state = "Establishing" /\ leg[session].dir = "incoming")
        /\ leg' \in [Calls -> Leg]
        /\ \A d \in Calls : d \notin ended /\ d # session => leg'[d] = leg[d]
        /\ \A d \in Calls : leg'[d].dir = leg[d].dir /\ leg'[d].referred = leg[d].referred
        /\ leg[session].state = "Establishing" =>
             /\ leg'[session].state = "Terminating" /\ leg'[session].end = "aborted"
             /\ leg'[session].mic = leg[session].mic
        /\ leg[session].state = "Established" =>
             /\ leg'[session].state = "Terminated" /\ leg'[session].end = "terminated"
             /\ leg'[session].mic = leg[session].mic
        /\ \A d \in ended :
             \/ d = session /\ leg[d].state \in {"Establishing", "Established"}
             \/ /\ leg'[d].mic = "none"
                /\ leg[d].state \in {"Initial", "Establishing"} =>
                     leg'[d].state = "Terminated" /\ leg'[d].end = "aborted"
                /\ leg[d].state \notin {"Initial", "Establishing"} =>
                     leg'[d].state = leg[d].state /\ leg'[d].end = leg[d].end
        /\ session \notin ended /\ leg[session].state \notin {"Establishing", "Established"}
             => leg'[session] = leg[session]
    BY <1>2, HangUpEffect, Zenon
  <2>2. PICK wrong \in SUBSET Mishaps :
          /\ leg[session].state = "Initial" /\ session \notin ended => "silent" \in wrong
          /\ \/ /\ record[session].shown = "calling"
                /\ Ask(session, "abort", TRUE, wrong) /\ session' = session
             \/ /\ record[session].shown = "ongoing"
                /\ Ask(session, "end", TRUE, wrong) /\ session' = session
             \/ record[session].shown \notin {"calling", "ongoing"}
    BY <1>2, HangUpEffect, Zenon
  <2>3. record[session].shown \in {"calling", "ongoing"}
    BY SessionShown
  <2>4. PICK kind \in {"abort", "end"} :
          /\ Ask(session, kind, TRUE, wrong) /\ session' = session
          /\ kind = "abort" <=> record[session].shown = "calling"
    BY <2>2, <2>3
  <2>5. kind \in Kinds
    BY DEF Kinds
  <2>6. wrong \subseteq mishaps' /\ (About(session) = {} \/ "crossed" \in mishaps')
    BY <2>4, <2>5, AskClearing
  <2>7. PICK n \in Request : /\ n \notin requests /\ requests' = requests \cup {n}
                             /\ n.call = session /\ n.kind = kind /\ ~n.served /\ n.clears
    BY <2>4, <2>5, AskClearing
  <2>8. Quiet(session)
    BY <2>6, QuietOrCrossed
  <2>9. leg[session].state = "Initial" => session \in ended
    BY <2>2, <2>6
  <2>10. /\ Follows(session)' /\ ~Quiet(session)'
         /\ \A r \in requests' : r.call = session => r = n
         /\ n \in requests'
    <3>1. Follows(session)
      BY DEF Recorded
    <3>2. QED
      BY <2>3, <2>4, <2>7, <2>8, <3>1, SentAlone
  <2>11. /\ leg[session].state \in {"Initial", "Establishing", "Established"}
         /\ leg[session].state = "Initial" => record[session].shown = "calling"
         /\ leg[session].state = "Establishing" => record[session].shown = "calling"
         /\ leg[session].state = "Established" =>
              \/ record[session].shown = "ongoing"
              \/ leg[session].referred /\ record[session].shown = "calling"
         /\ leg[session].dir # "none"
    BY <2>1, <2>8, SessionShown
  <2>12. /\ leg'[session].dir # "none"
         /\ \/ /\ leg'[session].state = "Terminating" /\ leg'[session].end = "aborted"
               /\ kind = "abort"
            \/ /\ leg'[session].state = "Terminated" /\ leg'[session].end = "aborted"
               /\ kind = "abort"
            \/ /\ leg'[session].state = "Terminated" /\ leg'[session].end = "terminated"
               /\ kind = "end"
            \/ /\ leg'[session].state = "Terminated" /\ leg'[session].end = "terminated"
               /\ leg'[session].referred /\ kind = "abort"
    <3>1. leg'[session].dir = leg[session].dir /\ leg'[session].referred = leg[session].referred
      BY <2>1
    <3>2. CASE leg[session].state = "Initial"
      BY <2>1, <2>4, <2>9, <2>11, <3>1, <3>2
    <3>3. CASE leg[session].state = "Establishing"
      BY <2>1, <2>4, <2>11, <3>1, <3>3
    <3>4. CASE leg[session].state = "Established"
      BY <2>1, <2>4, <2>11, <3>1, <3>4
    <3>5. QED
      BY <2>11, <3>2, <3>3, <3>4
  <2>13. \A state \in {"aborted", "terminated"} : Result(kind) = state => Will(session, state)'
    BY <2>4, <2>7, <2>10 DEF Will, Quiet
  <2>14. /\ kind = "abort" => Will(session, "aborted")'
         /\ kind = "end" => Will(session, "terminated")'
    BY <2>13, Results
  <2>15. Tells(session)'
    BY <2>4, <2>7, <2>10, <2>12, <2>14 DEF Tells, Will, Quiet, Final
  <2>16. QED
    BY <2>1, <2>4, <2>7, <2>10, <2>15, OneTouched
<1>3. QED
  BY <1>1, <1>2

(* A call hung up is over for SIP.js, whichever way.                       *)
LEMMA LetGo ==
  ASSUME TypeOK, Recorded, NEW c \in Calls,
         \A d \in Calls : d # c => leg'[d] = leg[d],
         leg'[c].dir = leg[c].dir, leg[c].state = "Terminating",
         leg'[c].state = "Terminated", leg'[c].end = "aborted",
         requests' = requests, record' = record, session' \in {session, NoCall}
  PROVE  Recorded'
<1>1. Follows(c) /\ Tells(c)
  BY DEF Recorded
<1>2. /\ Follows(c)' /\ (Quiet(c)' <=> Quiet(c)) /\ (Begins(c)' <=> Begins(c))
      /\ Will(c, "aborted")' <=> Will(c, "aborted")
  BY <1>1, SameWill
<1>3. Will(c, "aborted")'
  BY <1>1, <1>2 DEF Tells
<1>4. session' = c => session = c
  BY CallsAssumption
<1>5. /\ leg'[c].dir # "none"
      /\ session' = c => \E r \in requests' : r.call = c /\ r.clears
  BY <1>1, <1>4 DEF Tells
<1>6. Tells(c)'
  BY <1>3, <1>5 DEF Tells, Final
<1>7. QED
  BY <1>2, <1>6, OneTouched

LEMMA RecordStep ==
  ASSUME TypeOK, HandleInv, RecordInv, [Next]_vars
  PROVE  RecordInv'
<1> SUFFICES ASSUME mishaps' = {} PROVE Recorded'
  BY DEF RecordInv
<1>a. mishaps = {} /\ Recorded
  <2>1. mishaps \subseteq mishaps'
    BY TypeStep
  <2>2. QED
    BY <2>1 DEF RecordInv
<1>b. OneCall
  BY <1>a DEF HandleInv, Kept
<1>c. \A c \in Calls : Follows(c) /\ Tells(c)
  BY <1>a DEF Recorded
<1>d. /\ NoCall \notin Calls /\ session \in Calls \cup {NoCall}
      /\ \A c \in Calls : leg[c].dir \in {"none", "outgoing", "incoming"}
                          /\ leg[c].state \in LegState /\ leg[c].end \in LegEnd
      /\ \A r \in requests : r.kind \in Kinds /\ r.call \in Calls
  BY CallsAssumption, LegFields, RequestFields DEF TypeOK
<1>1. ASSUME UNCHANGED vars PROVE Recorded'
  BY <1>1, <1>a DEF vars, Recorded, Follows, Tells, Will, Quiet, Begins
<1>2. ASSUME NEW r \in requests, Serve(r) PROVE Recorded'
  <2> DEFINE c == r.call
  <2>1. /\ c \in Calls /\ ~r.served /\ session' = session /\ leg' = leg
        /\ \A d \in Calls : d # c => record'[d] = record[d]
        /\ record'[c].db = Result(r.kind)
        /\ record'[c].shown = record[c].shown /\ record'[c].ticking = record[c].ticking
    BY <1>2, ServeEffect
  <2>2. PICK n \in Request : /\ requests' = (requests \ {r}) \cup {n}
                             /\ n.call = c /\ n.kind = r.kind /\ n.clears = r.clears
                             /\ n.served = TRUE
    BY <1>2, ServeEffect
  <2> HIDE DEF c
  <2>3. r.call = c
    BY DEF c
  <2>4. \A q \in requests : q.call = c => q = r
    BY <1>c, <2>1, <2>3 DEF Follows
  <2>5. /\ \A q \in requests' : q.call = c => q = n
        /\ n \in requests'
    BY <2>2, <2>4
  <2>6. Follows(c)'
    BY <1>c, <2>1, <2>2, <2>3, <2>5 DEF Follows, Quiet
  <2>7. ~Quiet(c) /\ ~Quiet(c)' /\ (Begins(c)' <=> Begins(c))
    BY <2>2, <2>3, <2>4, <2>5 DEF Quiet, Begins
  <2>8. /\ \A state : Will(c, state) <=> Result(r.kind) = state
        /\ \A state : Will(c, state)' <=> Result(r.kind) = state
    BY <2>2, <2>3, <2>4, <2>5, <2>7 DEF Will
  <2>9. (\E q \in requests : q.call = c /\ q.clears) =>
          \E q \in requests' : q.call = c /\ q.clears
    BY <2>2, <2>4, <2>5
  <2>10. Tells(c)'
    BY <1>c, <2>1, <2>7, <2>8, <2>9 DEF Tells
  <2>11. QED
    BY <1>a, <2>1, <2>2, <2>3, <2>6, <2>10, OneTouched
<1>3. ASSUME NEW r \in requests, Answered(r) PROVE Recorded'
  <2> DEFINE c == r.call
  <2>1. /\ c \in Calls /\ r.kind # "create" /\ r.served /\ leg' = leg
        /\ requests' = requests \ {r}
        /\ \A d \in Calls : d # c => record'[d] = record[d]
        /\ record'[c].db = record[c].db /\ record'[c].shown = Result(r.kind)
        /\ record'[c].ticking <=> (record[c].ticking \/ r.kind = "start") /\ r.kind # "end"
        /\ r.clears => session' = NoCall
        /\ ~r.clears => session' = session
    BY <1>3, AnsweredEffect
  <2> HIDE DEF c
  <2>2. r.call = c /\ r.kind \in Kinds
    BY <1>d DEF c
  <2>3. \A q \in requests : q.call = c => q = r
    BY <1>c, <2>1, <2>2 DEF Follows
  <2>4. Quiet(c)' /\ ~Quiet(c) /\ ~Begins(c) /\ ~Begins(c)'
    BY <2>1, <2>2, <2>3 DEF Quiet, Begins
  <2>5. /\ record[c].db = Result(r.kind)
        /\ r.kind \in {"start", "abort", "reject", "miss"} => record[c].shown = "calling"
        /\ record[c].ticking <=> record[c].shown = "ongoing"
    BY <1>c, <2>1, <2>2 DEF Follows
  <2>6. record'[c].ticking <=> record'[c].shown = "ongoing"
    BY <2>1, <2>2, <2>5, Results DEF Kinds
  <2>7. Follows(c)'
    BY <2>1, <2>4, <2>5, <2>6 DEF Follows, Quiet
  <2>8. /\ \A state : Will(c, state) <=> Result(r.kind) = state
        /\ \A state : Will(c, state)' <=> Result(r.kind) = state
    BY <2>1, <2>2, <2>3, <2>4 DEF Will, Quiet
  <2>9. session = c /\ (\E q \in requests : q.call = c /\ q.clears) => session' # c
    BY <1>d, <2>1, <2>3
  <2>10. Tells(c)'
    BY <1>c, <1>d, <2>1, <2>4, <2>8, <2>9 DEF Tells
  <2>11. QED
    BY <1>a, <2>1, <2>2, <2>7, <2>10, OneTouched
<1>4. ASSUME NEW r \in requests, Failed(r) PROVE Recorded'
  BY <1>4, FailedEffect
<1>5. ASSUME NEW r \in requests, Created(r) PROVE Recorded'
  <2> DEFINE c == r.call
  <2>1. /\ c \in Calls /\ r.kind = "create" /\ r.served /\ session' = c
        /\ requests' = requests \ {r}
        /\ \A d \in Calls : d # c => record'[d] = record[d]
        /\ record'[c].db = record[c].db /\ record'[c].shown = "calling"
        /\ record'[c].ticking = record[c].ticking
        /\ \A d \in Calls : d # c => leg'[d] = leg[d]
        /\ leg'[c].dir = leg[c].dir /\ leg'[c].referred = leg[c].referred
        /\ leg'[c].end = leg[c].end
        /\ leg[c].dir = "outgoing" => leg'[c].state = "Initial" /\ leg'[c].mic = "asked"
        /\ leg[c].dir # "outgoing" => leg'[c] = leg[c]
    BY <1>5, CreatedEffect
  <2> HIDE DEF c
  <2>2. r.call = c
    BY DEF c
  <2>3. \A q \in requests : q.call = c => q = r
    BY <1>c, <2>1, <2>2 DEF Follows
  <2>4. Quiet(c)' /\ ~Quiet(c)
    BY <2>1, <2>2, <2>3 DEF Quiet
  <2>5. /\ record[c].db = "calling" /\ record[c].shown = "absent"
        /\ record[c].ticking <=> record[c].shown = "ongoing"
    BY <1>c, <2>1, <2>2, Results DEF Follows
  <2>6. Follows(c)'
    BY <2>1, <2>4, <2>5 DEF Follows, Quiet
  <2>7. Will(c, "calling")'
    BY <2>1, <2>4 DEF Will, Quiet
  <2>8. \A state : Will(c, state) => state = "calling"
    BY <2>1, <2>2, Results DEF Will
  <2>9. /\ leg[c].dir # "none" /\ leg[c].state \notin {"Establishing", "Established"}
    BY <1>b, <2>1, <2>2 DEF OneCall
  <2>10. CASE leg[c].dir = "outgoing"
    <3>1. Tells(c)'
      BY <2>1, <2>7, <2>10 DEF Tells
    <3>2. QED
      BY <1>a, <2>1, <2>2, <2>6, <3>1, OneTouched
  <2>11. CASE leg[c].dir = "incoming"
    <3>1. leg[c].state = "Initial"
      <4>1. ASSUME leg[c].state \in {"Terminating", "Terminated"} PROVE FALSE
        BY <1>c, <2>1, <2>8, <4>1 DEF Tells, Final
      <4>2. QED
        BY <1>c, <1>d, <2>1, <2>9, <2>11, <4>1 DEF Tells, LegState
    <3>2. Tells(c)'
      BY <1>c, <2>1, <2>7, <2>11, <3>1 DEF Tells
    <3>3. QED
      BY <1>a, <2>1, <2>2, <2>6, <3>2, OneTouched
  <2>12. QED
    BY <1>d, <2>1, <2>9, <2>10, <2>11
<1>6. ASSUME NEW c \in Calls, Dial(c) PROVE Recorded'
  <2>1. PICK also \in SUBSET Mishaps : Ask(c, "create", FALSE, also)
    BY <1>6, DialEffect
  <2>2. "create" \in Kinds
    BY DEF Kinds
  <2>3. PICK n \in Request : /\ n \notin requests /\ requests' = requests \cup {n}
                             /\ n.call = c /\ n.kind = "create" /\ ~n.served /\ ~n.clears
    BY <2>1, <2>2, AskKeeping
  <2>4. /\ leg[c].dir = "none" /\ session' = session /\ record' = record
        /\ \A d \in Calls : d # c => leg'[d] = leg[d]
        /\ leg'[c].mic = leg[c].mic
        /\ leg'[c].dir = "outgoing" /\ leg'[c].state = leg[c].state
    BY <1>6, DialEffect
  <2>5. /\ leg[c].state = "None" /\ leg[c].mic = "none" /\ Quiet(c)
        /\ record[c].shown = "absent" /\ session # c
    BY <1>c, <2>4 DEF Tells
  <2>6. /\ Follows(c)' /\ ~Quiet(c)' /\ n \in requests'
        /\ \A r \in requests' : r.call = c => r = n
    BY <1>c, <2>3, <2>4, <2>5, SentAlone
  <2>7. Begins(c)' /\ Will(c, "calling")'
    BY <2>3, <2>6, Results DEF Begins, Will
  <2>8. Tells(c)'
    BY <2>4, <2>5, <2>7 DEF Tells
  <2>9. QED
    BY <1>a, <2>3, <2>4, <2>6, <2>8, OneTouched
<1>7. ASSUME NEW c \in Calls, ReceiveInvitation(c) PROVE Recorded'
  <2>1. CASE session # NoCall
    <3>1. /\ leg[c].dir = "none" /\ session' = session /\ record' = record
          /\ requests' = requests
          /\ \A d \in Calls : d # c => leg'[d] = leg[d]
          /\ leg'[c].dir = "incoming" /\ leg'[c].state = "Terminated"
          /\ leg'[c].end = "rejected"
      BY <1>7, <2>1, InvitationTurnedDownEffect DEF AskNothing
    <3>2. Quiet(c) /\ record[c].shown = "absent" /\ session # c
      BY <1>c, <3>1 DEF Tells
    <3>3. Follows(c)' /\ Will(c, "absent")'
      BY <1>c, <3>1, <3>2, SameWill DEF Will, Quiet
    <3>4. Tells(c)'
      BY <3>1, <3>2, <3>3 DEF Tells, Final
    <3>5. QED
      BY <1>a, <3>1, <3>3, <3>4, OneTouched
  <2>2. CASE session = NoCall
    <3>1. PICK also \in SUBSET Mishaps : Ask(c, "create", FALSE, also)
      BY <1>7, <2>2, InvitationTakenEffect
    <3>2. "create" \in Kinds
      BY DEF Kinds
    <3>3. PICK n \in Request : /\ n \notin requests /\ requests' = requests \cup {n}
                               /\ n.call = c /\ n.kind = "create" /\ ~n.served /\ ~n.clears
      BY <3>1, <3>2, AskKeeping
    <3>4. /\ leg[c].dir = "none" /\ session' = session /\ record' = record
          /\ \A d \in Calls : d # c => leg'[d] = leg[d]
          /\ leg'[c].mic = leg[c].mic
          /\ leg'[c].dir = "incoming" /\ leg'[c].state = "Initial"
      BY <1>7, <2>2, InvitationTakenEffect
    <3>5. /\ leg[c].state = "None" /\ leg[c].mic = "none" /\ Quiet(c)
          /\ record[c].shown = "absent" /\ session # c
      BY <1>c, <3>4 DEF Tells
    <3>6. /\ Follows(c)' /\ ~Quiet(c)' /\ n \in requests'
          /\ \A r \in requests' : r.call = c => r = n
      BY <1>c, <3>3, <3>4, <3>5, SentAlone
    <3>7. Begins(c)' /\ Will(c, "calling")'
      BY <3>3, <3>6, Results DEF Begins, Will
    <3>8. Tells(c)'
      BY <3>4, <3>5, <3>7 DEF Tells
    <3>9. QED
      BY <1>a, <3>3, <3>4, <3>6, <3>8, OneTouched
  <2>3. QED
    BY <2>1, <2>2
<1>8. ASSUME NEW c \in Calls, RejectInvitation(c) PROVE Recorded'
  <2>1. /\ leg[c].dir = "none" /\ session' = session /\ record' = record
        /\ requests' = requests
        /\ \A d \in Calls : d # c => leg'[d] = leg[d]
        /\ leg'[c].dir = "incoming" /\ leg'[c].state = "Terminated"
        /\ leg'[c].end = "rejected"
    BY <1>8, RejectInvitationEffect DEF AskNothing
  <2>2. Quiet(c) /\ record[c].shown = "absent" /\ session # c
    BY <1>c, <2>1 DEF Tells
  <2>3. Follows(c)' /\ Will(c, "absent")'
    BY <1>c, <2>1, <2>2, SameWill DEF Will, Quiet
  <2>4. Tells(c)'
    BY <2>1, <2>2, <2>3 DEF Tells, Final
  <2>5. QED
    BY <1>a, <2>1, <2>3, <2>4, OneTouched
<1>9. ASSUME ClickAccept PROVE Recorded'
  <2>1. session \in Calls
    BY <1>9, <1>d DEF ClickAccept, Ringing
  <2>2. /\ \A d \in Calls : d # session => leg'[d] = leg[d]
        /\ leg'[session].dir = leg[session].dir
        /\ leg[session].dir = "incoming" /\ leg[session].state = "Initial"
        /\ leg'[session].state = "Establishing" /\ leg'[session].mic = "asked"
    BY <1>9, <2>1, ClickAcceptEffect DEF AskNothing
  <2>3. requests' = requests /\ record' = record /\ session' = session
    BY <1>9, <2>1, ClickAcceptEffect DEF AskNothing
  <2>4. /\ Follows(session)'
        /\ \A state \in RecordState : Will(session, state)' <=> Will(session, state)
    BY <1>c, <2>1, <2>3, SameWill
  <2>5. Tells(session)'
    BY <1>c, <1>d, <2>1, <2>2, <2>3, <2>4 DEF Tells, RecordState, Final
  <2>6. QED
    BY <1>a, <1>c, <2>1, <2>2, <2>3, <2>4, <2>5, OneTouched
<1>10. ASSUME ClickTransfer PROVE Recorded'
  <2>1. session \in Calls
    BY <1>10, <1>d DEF ClickTransfer, InProgress
  <2>2. /\ \A d \in Calls : d # session => leg'[d] = leg[d]
        /\ leg'[session].dir = leg[session].dir
        /\ leg[session].state = "Established" /\ leg'[session].state = "Established"
        /\ leg'[session].referred
    BY <1>10, <2>1, ClickTransferEffect DEF AskNothing
  <2>3. requests' = requests /\ record' = record /\ session' = session
    BY <1>10, <2>1, ClickTransferEffect DEF AskNothing
  <2>4. /\ Follows(session)'
        /\ \A state \in RecordState : Will(session, state)' <=> Will(session, state)
    BY <1>c, <2>1, <2>3, SameWill
  <2>5. Tells(session)'
    BY <1>c, <1>d, <2>1, <2>2, <2>3, <2>4 DEF Tells, RecordState, Final
  <2>6. QED
    BY <1>a, <1>c, <2>1, <2>2, <2>3, <2>4, <2>5, OneTouched
<1>11. ASSUME NEW c \in Calls, OfferReady(c) PROVE Recorded'
  <2>1. /\ \A d \in Calls : d # c => leg'[d] = leg[d]
        /\ leg'[c].dir = leg[c].dir
        /\ leg[c].dir = "outgoing" /\ leg[c].state = "Initial"
        /\ leg'[c].state = "Establishing"
    BY <1>11, OfferReadyEffect DEF AskNothing
  <2>2. requests' = requests /\ record' = record /\ session' = session
    BY <1>11, OfferReadyEffect DEF AskNothing
  <2>3. /\ Follows(c)'
        /\ \A state \in RecordState : Will(c, state)' <=> Will(c, state)
    BY <1>c, <2>2, SameWill
  <2>4. Tells(c)'
    BY <1>c, <1>d, <2>1, <2>2, <2>3 DEF Tells, RecordState, Final
  <2>5. QED
    BY <1>a, <1>c, <2>1, <2>2, <2>3, <2>4, OneTouched
<1>12. ASSUME NEW c \in Calls, AcceptSent(c) PROVE Recorded'
  <2>1. /\ \A d \in Calls : d # c => leg'[d] = leg[d]
        /\ leg'[c].dir = leg[c].dir
        /\ leg[c].dir = "incoming" /\ leg[c].state = "Establishing"
        /\ leg[c].mic = "given" /\ leg'[c].state = "Established"
    BY <1>12, AcceptSentEffect DEF AskNothing
  <2>2. requests' = requests /\ record' = record /\ session' = session
    BY <1>12, AcceptSentEffect DEF AskNothing
  <2>3. /\ Follows(c)'
        /\ \A state \in RecordState : Will(c, state)' <=> Will(c, state)
    BY <1>c, <2>2, SameWill
  <2>4. Tells(c)'
    BY <1>c, <1>d, <2>1, <2>2, <2>3 DEF Tells, RecordState, Final
  <2>5. QED
    BY <1>a, <1>c, <2>1, <2>2, <2>3, <2>4, OneTouched
<1>13. ASSUME NEW c \in Calls, Canceled(c) PROVE Recorded'
  <2>1. /\ \A d \in Calls : d # c => leg'[d] = leg[d]
        /\ leg'[c].dir = leg[c].dir
        /\ leg[c].state = "Terminating" /\ leg'[c].state = "Terminated"
        /\ leg'[c].end = leg[c].end
        /\ requests' = requests /\ record' = record /\ session' = session
    BY <1>13, CanceledEffect
  <2>2. leg[c].end = "aborted"
    BY <1>c, <2>1 DEF Tells
  <2>3. QED
    BY <1>a, <2>1, <2>2, LetGo
<1>14. ASSUME NEW c \in Calls, CancelEarly(c) PROVE Recorded'
  BY <1>14, CancelEarlyEffect, AskNothingTypes DEF Mishaps
<1>15. ASSUME NEW c \in Calls, Unnoticed(c) PROVE Recorded'
  BY <1>15, UnnoticedRingingEffect, UnnoticedTalkingEffect, AskNothingTypes DEF Mishaps
<1>16. ASSUME Reload PROVE Recorded'
  BY <1>16, ReloadEffect
<1>17. ASSUME ClickHangUp PROVE Recorded'
  <2>1. PICK also \in SUBSET Mishaps : HangUp({}, also)
    BY <1>17, ClickHangUpEffect
  <2>2. session \in Calls /\ record' = record
    BY <1>17, ClickHangUpEffect
  <2>3. QED
    BY <1>a, <1>b, <2>1, <2>2, HangUpTells
<1>18. ASSUME ClickReject PROVE Recorded'
  <2>1. session \in Calls /\ "reject" \in Kinds
    BY <1>18, ClickRejectEffect DEF Kinds
  <2>2. PICK also \in SUBSET Mishaps :
          /\ Ask(session, "reject", TRUE, also)
          /\ leg[session].state = "Established" => "declined" \in also
          /\ record[session].shown = "calling" \/ "mistaken" \in also
    BY <1>18, ClickRejectEffect
  <2>3. also \subseteq mishaps' /\ Quiet(session)
    BY <2>1, <2>2, AskClearing, QuietOrCrossed
  <2>4. record[session].shown = "calling" /\ leg[session].state # "Established"
    BY <2>2, <2>3
  <2>5. PICK n \in Request : /\ n \notin requests /\ requests' = requests \cup {n}
                             /\ n.call = session /\ n.kind = "reject" /\ ~n.served /\ n.clears
    BY <2>1, <2>2, AskClearing
  <2>6. leg[session].state \in {"Initial", "Establishing"}
    BY <1>a, <1>b, <2>1, <2>3, <2>4, SessionShown
  <2>7. /\ \A d \in Calls : d # session => leg'[d] = leg[d]
        /\ leg'[session].dir = "incoming" /\ leg'[session].state = "Terminated"
        /\ leg'[session].end = "rejected" /\ record' = record /\ session' = session
    BY <1>18, <2>6, ClickRejectEffect DEF Declines
  <2>8. /\ Follows(session)' /\ n \in requests'
        /\ \A r \in requests' : r.call = session => r = n
    BY <1>c, <2>1, <2>3, <2>4, <2>5, <2>7, SentAlone
  <2>9. Will(session, "rejected")'
    BY <2>5, <2>7, <2>8, Results DEF Will, Quiet
  <2>10. Tells(session)'
    BY <2>5, <2>7, <2>8, <2>9 DEF Tells, Final
  <2>11. QED
    BY <1>a, <2>1, <2>5, <2>7, <2>8, <2>10, OneTouched
<1>19. ASSUME NEW c \in Calls, Cancel(c) PROVE Recorded'
  <2>1. session \in Calls /\ "miss" \in Kinds
    BY <1>19, CancelEffect DEF Kinds
  <2>2. PICK also \in SUBSET Mishaps :
          /\ Ask(session, "miss", FALSE, also)
          /\ record[session].ticking => "late" \in also
    BY <1>19, CancelEffect
  <2>3. also \subseteq mishaps' /\ Quiet(session)
    BY <2>1, <2>2, AskKeeping, QuietOrCrossed
  <2>4. session = c
    BY <1>19, <1>b, <2>1, CancelEffect, OnlyTheSession DEF Alive
  <2>5. ~record[session].ticking
    BY <2>2, <2>3
  <2>6. record[session].shown = "calling"
    BY <1>a, <1>b, <1>c, <2>1, <2>5, SessionShown DEF Follows
  <2>7. PICK n \in Request : /\ n \notin requests /\ requests' = requests \cup {n}
                             /\ n.call = session /\ n.kind = "miss" /\ ~n.served
    BY <2>1, <2>2, AskKeeping
  <2>8. /\ \A d \in Calls : d # c => leg'[d] = leg[d]
        /\ leg'[c].dir = "incoming" /\ leg'[c].state = "Terminated"
        /\ leg'[c].end = "missed" /\ record' = record /\ session' = NoCall
    BY <1>19, <2>4, CancelEffect DEF Declines
  <2>9. /\ Follows(c)' /\ n \in requests'
        /\ \A r \in requests' : r.call = c => r = n
    BY <1>c, <2>3, <2>4, <2>6, <2>7, <2>8, SentAlone
  <2>10. Will(c, "missed")'
    BY <2>4, <2>7, <2>9, Results DEF Will, Quiet
  <2>11. Tells(c)'
    BY <1>d, <2>8, <2>10 DEF Tells, Final
  <2>12. QED
    BY <1>a, <2>4, <2>7, <2>8, <2>9, <2>11, OneTouched
<1>20. ASSUME NEW c \in Calls, MicGranted(c) PROVE Recorded'
  <2>1. /\ leg[c].mic = "asked" /\ session' = session /\ record' = record
        /\ \A d \in Calls : d # c => leg'[d] = leg[d]
        /\ leg'[c].dir = leg[c].dir /\ leg'[c].state = leg[c].state /\ leg'[c].mic = "given"
        /\ leg'[c].referred = leg[c].referred /\ leg'[c].end = leg[c].end
    BY <1>20, MicGrantedEffect
  <2>2. CASE session \in Calls /\ leg[session].dir = "incoming"
             /\ Ask(session, "start", FALSE, Stale(c))
    <3>1. Stale(c) \in SUBSET Mishaps /\ "start" \in Kinds
      BY DEF Stale, Mishaps, Kinds
    <3>2. Stale(c) \subseteq mishaps' /\ Quiet(session)
      BY <2>2, <3>1, AskKeeping, QuietOrCrossed
    <3>3. session = c
      BY <1>d, <2>2, <3>2 DEF Stale
    <3>4. PICK n \in Request : /\ n \notin requests /\ requests' = requests \cup {n}
                               /\ n.call = session /\ n.kind = "start" /\ ~n.served
                               /\ ~n.clears
      BY <2>2, <3>1, AskKeeping
    <3>5. leg[c].state # "Initial" /\ leg[c].state # "Established"
      BY <1>b, <1>c, <2>1, <2>2, <3>3 DEF Tells, OneCall
    <3>6. leg[c].state = "Establishing" /\ record[c].shown = "calling"
      BY <1>a, <1>b, <2>1, <2>2, <3>2, <3>3, <3>5, SessionShown
    <3>7. /\ Follows(c)' /\ n \in requests'
          /\ \A r \in requests' : r.call = c => r = n
      BY <1>c, <2>1, <3>2, <3>3, <3>4, <3>6, SentAlone
    <3>8. Will(c, "ongoing")'
      BY <3>3, <3>4, <3>7, Results DEF Will, Quiet
    <3>9. Tells(c)'
      BY <2>1, <2>2, <3>3, <3>6, <3>8 DEF Tells
    <3>10. QED
      BY <1>a, <2>1, <3>3, <3>4, <3>7, <3>9, OneTouched
  <2>3. CASE (session = NoCall \/ leg[session].dir # "incoming") /\ AskNothing({})
    <3>1. requests' = requests
      BY <2>3 DEF AskNothing
    <3>2. leg[c].dir = "incoming" => leg[c].state \notin {"Initial", "Establishing"}
      <4>1. leg[c].dir = "incoming" => leg[c].state # "Initial"
        BY <1>c, <2>1 DEF Tells
      <4>2. ASSUME leg[c].dir = "incoming", leg[c].state = "Establishing" PROVE FALSE
        BY <1>b, <1>d, <2>3, <4>2, TheSession
      <4>3. QED
        BY <4>1, <4>2
    <3>3. /\ Follows(c)' /\ (Begins(c)' <=> Begins(c)) /\ (Quiet(c)' <=> Quiet(c))
          /\ \A state \in RecordState : Will(c, state)' <=> Will(c, state)
      BY <1>c, <2>1, <3>1, SameWill
    <3>4. leg[c].dir # "none"
      BY <1>c, <2>1 DEF Tells
    <3>5. Tells(c)'
      BY <1>c, <1>d, <2>1, <3>1, <3>2, <3>3, <3>4 DEF Tells, RecordState, Final
    <3>6. QED
      BY <1>a, <2>1, <3>1, <3>3, <3>5, OneTouched
  <2>4. QED
    BY <1>20, <1>d, <2>2, <2>3, MicGrantedEffect
<1>21. ASSUME NEW c \in Calls, MicDenied(c) PROVE Recorded'
  <2>1. Stale(c) \in SUBSET Mishaps /\ "reject" \in Kinds
    BY DEF Stale, Mishaps, Kinds
  <2>2. PICK how \in {"rejected", "aborted"} :
          /\ how = "rejected" <=> leg[c].dir = "incoming"
          /\ \/ /\ session = NoCall /\ session' = session
                /\ GivesUp(c, how) /\ AskNothing({})
             \/ /\ session \in Calls /\ leg[session].dir = "outgoing"
                /\ HangUp({c}, Stale(c))
             \/ /\ session \in Calls /\ leg[session].dir = "incoming"
                /\ leg' = GivenUp(Unanswered(leg, session, "rejected"), c, how)
                /\ Ask(session, "reject", TRUE, Stale(c)) /\ session' = session
    BY <1>21, MicDeniedEffect
  <2>3. leg[c].mic = "asked" /\ record' = record
    BY <1>21, MicDeniedEffect
  <2>4. leg[c].dir = "incoming" => leg[c].state # "Initial"
    BY <1>c, <2>3 DEF Tells
  <2>5. leg[c].state # "Established" /\ leg[c].dir # "none"
    BY <1>b, <1>c, <2>3 DEF OneCall, Tells
  <2>6. CASE session = NoCall /\ session' = session /\ GivesUp(c, how) /\ AskNothing({})
    <3>1. leg[c].state \notin {"Initial", "Establishing"}
      BY <1>b, <1>d, <2>4, <2>5, <2>6, TheSession
    <3>2. /\ \A d \in Calls : d # c => leg'[d] = leg[d]
          /\ leg'[c].dir = leg[c].dir /\ leg'[c].referred = leg[c].referred
          /\ leg'[c].state = leg[c].state /\ leg'[c].end = leg[c].end
          /\ requests' = requests
      BY <2>6, <3>1 DEF GivesUp, AskNothing
    <3>3. /\ Follows(c)' /\ (Begins(c)' <=> Begins(c)) /\ (Quiet(c)' <=> Quiet(c))
          /\ \A state \in RecordState : Will(c, state)' <=> Will(c, state)
      BY <1>c, <2>3, <3>2, SameWill
    <3>4. Tells(c)'
      BY <1>c, <1>d, <2>3, <2>5, <2>6, <3>1, <3>2, <3>3 DEF Tells, RecordState, Final
    <3>5. QED
      BY <1>a, <2>3, <2>6, <3>2, <3>3, <3>4, OneTouched
  <2>7. CASE session \in Calls /\ leg[session].dir = "outgoing" /\ HangUp({c}, Stale(c))
    <3>1. Stale(c) \subseteq mishaps'
      <4>1. ASSUME NEW wrong \in SUBSET Mishaps, Stale(c) \subseteq wrong,
                   Ask(session, "abort", TRUE, wrong) \/ Ask(session, "end", TRUE, wrong)
                   \/ AskNothing(wrong)
            PROVE  Stale(c) \subseteq mishaps'
        <5>1. \A kind \in {"abort", "end"} : kind \in Kinds
          BY DEF Kinds
        <5>2. \A kind \in {"abort", "end"} :
                Ask(session, kind, TRUE, wrong) => wrong \subseteq mishaps'
          BY <2>7, <5>1, AskClearing
        <5>3. QED
          BY <4>1, <5>2, AskNothingTypes
      <4>2. /\ {c} \in SUBSET Calls
            /\ ~(leg[session].state = "Establishing" /\ leg[session].dir = "incoming")
        BY <2>7
      <4>3. \E wrong \in SUBSET Mishaps :
              /\ Stale(c) \subseteq wrong
              /\ Ask(session, "abort", TRUE, wrong) \/ Ask(session, "end", TRUE, wrong)
                 \/ AskNothing(wrong)
        BY <2>1, <2>7, <4>2, HangUpEffect, Zenon
      <4>4. QED
        BY <4>1, <4>3
    <3>2. session = c
      BY <1>d, <2>7, <3>1 DEF Stale
    <3>3. QED
      BY <1>a, <1>b, <2>1, <2>3, <2>7, <3>2, HangUpTells
  <2>8. CASE /\ session \in Calls /\ leg[session].dir = "incoming"
             /\ leg' = GivenUp(Unanswered(leg, session, "rejected"), c, how)
             /\ Ask(session, "reject", TRUE, Stale(c)) /\ session' = session
    <3>1. session \in Calls /\ Ask(session, "reject", TRUE, Stale(c))
      BY <2>8
    <3>2. Stale(c) \subseteq mishaps' /\ Quiet(session)
      BY <2>1, <3>1, AskClearing, QuietOrCrossed
    <3>3. session = c
      BY <1>d, <3>1, <3>2 DEF Stale
    <3>4. GivesUp(session, "rejected")
      BY <2>2, <2>8, <3>3, MicDeniedOwn
    <3>5. PICK n \in Request : /\ n \notin requests /\ requests' = requests \cup {n}
                               /\ n.call = session /\ n.kind = "reject" /\ ~n.served /\ n.clears
      BY <2>1, <3>1, AskClearing
    <3>6. leg[c].state = "Establishing" /\ record[c].shown = "calling"
      BY <1>a, <1>b, <2>3, <2>4, <2>5, <2>8, <3>2, <3>3, SessionShown
    <3>7. /\ \A d \in Calls : d # c => leg'[d] = leg[d]
          /\ leg'[c].dir = "incoming" /\ leg'[c].state = "Terminated"
          /\ leg'[c].end = "rejected" /\ session' = c
      BY <2>8, <3>3, <3>4, <3>6 DEF GivesUp
    <3>8. /\ Follows(c)' /\ n \in requests'
          /\ \A r \in requests' : r.call = c => r = n
      BY <1>c, <2>3, <3>2, <3>3, <3>5, <3>6, SentAlone
    <3>9. Will(c, "rejected")'
      BY <3>3, <3>5, <3>8, Results DEF Will, Quiet
    <3>10. Tells(c)'
      BY <3>3, <3>5, <3>7, <3>8, <3>9 DEF Tells, Final
    <3>11. QED
      BY <1>a, <2>3, <3>3, <3>5, <3>7, <3>8, <3>10, OneTouched
  <2>9. QED
    BY <2>2, <2>6, <2>7, <2>8
<1>22. ASSUME NEW c \in Calls, Accepted(c) PROVE Recorded'
  <2>1. PICK also \in SUBSET Mishaps :
          /\ Tallies(c, leg'[c], also)
          /\ \/ session = NoCall /\ AskNothing(also)
             \/ session # NoCall /\ Ask(session, "start", FALSE, also)
    BY <1>22, AcceptedEffect
  <2>2. /\ \A d \in Calls : d # c => leg'[d] = leg[d]
        /\ leg[c].dir = "outgoing" /\ leg[c].state \in {"Establishing", "Terminating"}
        /\ leg'[c].dir = "outgoing" /\ Settles(c, leg'[c])
        /\ record' = record /\ session' = session
    BY <1>22, AcceptedEffect
  <2>3. leg[c].state = "Establishing" => session = c
    BY <1>b, TheSession
  <2>4. CASE session = NoCall
    <3>1. leg[c].state = "Terminating" /\ requests' = requests
      BY <1>d, <2>1, <2>2, <2>3, <2>4 DEF AskNothing
    <3>2. leg'[c].state = "Terminated" /\ leg'[c].end = "aborted"
      BY <2>2, <3>1 DEF Settles
    <3>3. QED
      BY <1>a, <2>2, <2>4, <3>1, <3>2, LetGo
  <2>5. CASE session # NoCall
    <3>1. session \in Calls /\ Ask(session, "start", FALSE, also) /\ "start" \in Kinds
      BY <1>d, <2>1, <2>5 DEF Kinds
    <3>2. also \subseteq mishaps' /\ Quiet(session)
      BY <3>1, AskKeeping, QuietOrCrossed
    <3>3. session = c
      BY <2>1, <2>2, <2>3, <2>5, <3>2 DEF Tallies
    <3>4. leg[c].state = "Establishing"
      BY <1>a, <1>b, <2>2, <3>1, <3>2, <3>3, SessionShown
    <3>5. leg'[c].state = "Established"
      BY <2>1, <2>2, <3>2, <3>3, <3>4 DEF Tallies, Settles
    <3>6. PICK n \in Request : /\ n \notin requests /\ requests' = requests \cup {n}
                               /\ n.call = c /\ n.kind = "start" /\ ~n.served /\ ~n.clears
      BY <3>1, <3>3, AskKeeping
    <3>7. record[c].shown = "calling"
      BY <1>a, <1>b, <2>2, <3>2, <3>3, <3>4, SessionShown
    <3>8. /\ Follows(c)' /\ n \in requests'
          /\ \A r \in requests' : r.call = c => r = n
      BY <1>c, <2>2, <3>2, <3>3, <3>6, <3>7, SentAlone
    <3>9. Will(c, "ongoing")'
      BY <3>6, <3>8, Results DEF Will, Quiet
    <3>10. Tells(c)'
      BY <1>d, <2>2, <3>5, <3>6, <3>8, <3>9 DEF Tells, Final
    <3>11. QED
      BY <1>a, <2>2, <3>3, <3>6, <3>8, <3>10, OneTouched
  <2>6. QED
    BY <2>4, <2>5
<1>23. ASSUME NEW c \in Calls, Refused(c) PROVE Recorded'
  <2>1. /\ \A d \in Calls : d # c => leg'[d] = leg[d]
        /\ leg[c].dir = "outgoing" /\ leg[c].state \in {"Establishing", "Terminating"}
        /\ leg'[c].dir = "outgoing" /\ leg'[c].state = "Terminated"
        /\ leg[c].state = "Establishing" => leg'[c].end = "rejected"
        /\ leg[c].state = "Terminating" => leg'[c].end = "aborted"
        /\ record' = record /\ session' = NoCall
    BY <1>23, RefusedEffect
  <2>2. leg[c].state = "Establishing" => session = c
    BY <1>b, TheSession
  <2>3. CASE session = NoCall
    <3>1. leg[c].state = "Terminating" /\ requests' = requests
      BY <1>23, <1>d, <2>1, <2>2, <2>3, RefusedEffect DEF AskNothing
    <3>2. QED
      BY <1>a, <2>1, <2>3, <3>1, LetGo
  <2>4. CASE session # NoCall
    <3>1. /\ session \in Calls /\ Ask(session, "reject", FALSE, Belated(c))
          /\ Belated(c) \in SUBSET Mishaps /\ "reject" \in Kinds
      BY <1>23, <1>d, <2>4, RefusedEffect DEF Kinds
    <3>2. Belated(c) \subseteq mishaps' /\ Quiet(session)
      BY <3>1, AskKeeping, QuietOrCrossed
    <3>3. session = c
      BY <2>1, <2>2, <2>4, <3>2 DEF Belated
    <3>4. leg[c].state = "Establishing"
      BY <1>a, <1>b, <2>1, <3>1, <3>2, <3>3, SessionShown
    <3>5. PICK n \in Request : /\ n \notin requests /\ requests' = requests \cup {n}
                               /\ n.call = c /\ n.kind = "reject" /\ ~n.served /\ ~n.clears
      BY <3>1, <3>3, AskKeeping
    <3>6. record[c].shown = "calling"
      BY <1>a, <1>b, <2>1, <3>2, <3>3, <3>4, SessionShown
    <3>7. /\ Follows(c)' /\ n \in requests'
          /\ \A r \in requests' : r.call = c => r = n
      BY <1>c, <2>1, <3>2, <3>3, <3>5, <3>6, SentAlone
    <3>8. Will(c, "rejected")'
      BY <3>5, <3>7, Results DEF Will, Quiet
    <3>9. Tells(c)'
      BY <1>d, <2>1, <3>3, <3>4, <3>5, <3>7, <3>8 DEF Tells, Final
    <3>10. QED
      BY <1>a, <2>1, <3>3, <3>5, <3>7, <3>9, OneTouched
  <2>5. QED
    BY <2>3, <2>4
<1>24. ASSUME NEW c \in Calls, ReceiveBye(c) PROVE Recorded'
  <2>1. session = c
    BY <1>24, <1>b, ReceiveByeEffect, TheSession
  <2>2. Ask(c, "end", TRUE, {}) /\ {} \in SUBSET Mishaps /\ "end" \in Kinds
    BY <1>24, <1>d, <2>1, ReceiveByeEffect DEF Kinds
  <2>3. Quiet(c)
    BY <2>2, AskClearing, QuietOrCrossed
  <2>4. PICK n \in Request : /\ n \notin requests /\ requests' = requests \cup {n}
                             /\ n.call = c /\ n.kind = "end" /\ ~n.served /\ n.clears
    BY <2>2, AskClearing
  <2>5. /\ \A d \in Calls : d # c => leg'[d] = leg[d]
        /\ leg[c].state = "Established"
        /\ leg'[c].dir = leg[c].dir /\ leg'[c].state = "Terminated"
        /\ leg'[c].end = "terminated"
        /\ record' = record /\ session' = session
    BY <1>24, <2>1, ReceiveByeEffect
  <2>6. leg[c].dir # "none" /\ record[c].shown \in {"calling", "ongoing"}
    BY <1>a, <1>b, <2>1, <2>3, <2>5, SessionShown
  <2>7. /\ Follows(c)' /\ n \in requests'
        /\ \A r \in requests' : r.call = c => r = n
    BY <1>c, <2>3, <2>4, <2>5, <2>6, SentAlone
  <2>8. Will(c, "terminated")'
    BY <2>4, <2>7, Results DEF Will, Quiet
  <2>9. Tells(c)'
    BY <1>d, <2>4, <2>5, <2>6, <2>7, <2>8 DEF Tells, Final
  <2>10. QED
    BY <1>a, <2>1, <2>4, <2>5, <2>7, <2>9, OneTouched
<1>25. ASSUME NEW c \in Calls, ReferAccepted(c) PROVE Recorded'
  <2>1. session = c
    BY <1>25, <1>b, ReferAcceptedEffect, TheSession
  <2>2. Ask(c, "end", FALSE, {}) /\ {} \in SUBSET Mishaps /\ "end" \in Kinds
    BY <1>25, <1>d, <2>1, ReferAcceptedEffect DEF Kinds
  <2>3. Quiet(c)
    BY <2>2, AskKeeping, QuietOrCrossed
  <2>4. PICK n \in Request : /\ n \notin requests /\ requests' = requests \cup {n}
                             /\ n.call = c /\ n.kind = "end" /\ ~n.served /\ ~n.clears
    BY <2>2, AskKeeping
  <2>5. /\ \A d \in Calls : d # c => leg'[d] = leg[d]
        /\ leg[c].state = "Established"
        /\ leg'[c].dir = leg[c].dir /\ leg'[c].state = "Terminated"
        /\ leg'[c].end = "terminated"
        /\ record' = record /\ session' = NoCall
    BY <1>25, <2>1, ReferAcceptedEffect
  <2>6. leg[c].dir # "none" /\ record[c].shown \in {"calling", "ongoing"}
    BY <1>a, <1>b, <2>1, <2>3, <2>5, SessionShown
  <2>7. /\ Follows(c)' /\ n \in requests'
        /\ \A r \in requests' : r.call = c => r = n
    BY <1>c, <2>3, <2>4, <2>5, <2>6, SentAlone
  <2>8. Will(c, "terminated")'
    BY <2>4, <2>7, Results DEF Will, Quiet
  <2>9. Tells(c)'
    BY <1>d, <2>4, <2>5, <2>6, <2>7, <2>8 DEF Tells, Final
  <2>10. QED
    BY <1>a, <2>1, <2>4, <2>5, <2>7, <2>9, OneTouched
<1>26. ASSUME NEW c \in Calls, AcceptedElsewhere(c) PROVE Recorded'
  <2>1. PICK also \in SUBSET Mishaps : Tallies(c, leg'[c], also) /\ AskNothing(also)
    BY <1>26, AcceptedElsewhereEffect
  <2>2. also = {} /\ requests' = requests
    BY <2>1, AskNothingTypes
  <2>3. /\ leg[c].dir = "outgoing" /\ leg'[c].dir = "outgoing"
        /\ leg[c].state \in {"Establishing", "Terminating"} /\ Settles(c, leg'[c])
        /\ session \in Calls /\ record' = record /\ session' = session
    BY <1>26, AcceptedElsewhereEffect
  <2>4. session = c
    <3>1. CASE leg[c].state = "Establishing"
      BY <1>b, <3>1, TheSession
    <3>2. CASE leg[c].state = "Terminating"
      BY <1>d, <2>1, <2>2, <2>3, <3>2 DEF Tallies
    <3>3. QED
      BY <2>3, <3>1, <3>2
  <2>5. \A d \in Calls : d # c => leg'[d] = leg[d]
    BY <1>26, <2>4, AcceptedElsewhereEffect
  <2>6. CASE leg[c].state = "Terminating"
    <3>1. leg'[c].state = "Terminated" /\ leg'[c].end = "aborted"
      BY <2>3, <2>6 DEF Settles
    <3>2. QED
      BY <1>a, <2>2, <2>3, <2>5, <2>6, <3>1, LetGo
  <2>7. CASE leg[c].state = "Establishing"
    <3>1. leg'[c].state = "Established" /\ leg'[c].referred
      BY <1>26, <2>1, <2>2, <2>3, <2>4, <2>7, AcceptedElsewhereEffect DEF Tallies, Settles
    <3>2. /\ Follows(c)'
          /\ \A state \in RecordState : Will(c, state)' <=> Will(c, state)
      BY <1>c, <2>2, <2>3, SameWill
    <3>3. Tells(c)'
      BY <1>c, <2>2, <2>3, <2>7, <3>1, <3>2 DEF Tells, RecordState, Final
    <3>4. QED
      BY <1>a, <2>2, <2>3, <2>5, <3>2, <3>3, OneTouched
  <2>8. QED
    BY <2>3, <2>6, <2>7
<1>27. ASSUME NEW c \in Calls, AnswerReceived(c) PROVE Recorded'
  <2>1. /\ \A d \in Calls : /\ leg'[d].dir = leg[d].dir /\ leg'[d].state = leg[d].state
                            /\ leg'[d].mic = leg[d].mic
                            /\ leg'[d].referred = leg[d].referred
                            /\ leg'[d].end = leg[d].end
        /\ requests' = requests /\ record' = record /\ session' = session
    BY <1>27, AnswerReceivedEffect
  <2>2. QED
    BY <1>a, <2>1 DEF Recorded, Follows, Tells, Will, Quiet, Begins
<1>28. QED
  BY <1>1, <1>2, <1>3, <1>4, <1>5, <1>6, <1>7, <1>8, <1>9, <1>10, <1>11,
     <1>12, <1>13, <1>14, <1>15, <1>16, <1>17, <1>18, <1>19, <1>20, <1>21,
     <1>22, <1>23, <1>24, <1>25, <1>26, <1>27, Zenon
     DEF Next, ServerNext, UserNext, LineNext

(* Once a call is over and its requests are answered, the server and the   *)
(* page say what became of it, and its clock has stopped: RecordTellsEnd,  *)
(* for any number of calls and of requests, when nothing went wrong.       *)
THEOREM RecordTellsTheEnd == Spec => []RecordTellsEnd
<1>1. Init => HandleInv /\ RecordInv
  <2>1. Init => HandleInv
    BY DEF Init, HandleInv, OneCall, Alive, Begins
  <2>2. Init => RecordInv
    BY CallsAssumption DEF Init, RecordInv, Recorded, Follows, Tells, Will, Quiet, Begins
  <2>3. QED
    BY <2>1, <2>2
<1>2. TypeOK /\ HandleInv /\ RecordInv /\ [Next]_vars => HandleInv' /\ RecordInv'
  BY HandleStep, RecordStep
<1>3. TypeOK /\ RecordInv => RecordTellsEnd
  <2> SUFFICES ASSUME TypeOK, Recorded, NEW c \in Calls,
                      leg[c].state = "Terminated", About(c) = {}
               PROVE  \/ record[c] = [db |-> leg[c].end, shown |-> leg[c].end,
                                    ticking |-> FALSE]
                      \/ leg[c].dir = "incoming" /\ leg[c].end = "rejected"
                         /\ record[c].db = "absent"
                      \/ leg[c].referred /\ record[c] = [db |-> "aborted", shown |-> "aborted",
                                                         ticking |-> FALSE]
    BY DEF RecordInv, RecordTellsEnd
  <2>1. Quiet(c)
    BY DEF About, Quiet
  <2>2. Follows(c) /\ Tells(c)
    BY DEF Recorded
  <2>3. /\ record[c].db = record[c].shown
        /\ record[c].ticking <=> record[c].shown = "ongoing"
    BY <2>1, <2>2 DEF Follows
  <2>4. record[c] = [db |-> record[c].db, shown |-> record[c].shown,
                     ticking |-> record[c].ticking] /\ record[c].ticking \in BOOLEAN
    BY DEF TypeOK, Record
  <2>5. /\ leg[c].end \in Final
        /\ \/ record[c].shown = leg[c].end
           \/ leg[c].dir = "incoming" /\ leg[c].end = "rejected" /\ record[c].shown = "absent"
           \/ leg[c].referred /\ record[c].shown = "aborted"
    BY <2>1, <2>2 DEF Tells, Will
  <2>6. ASSUME NEW state \in Final, record[c].shown = state
        PROVE  record[c] = [db |-> state, shown |-> state, ticking |-> FALSE]
    <3>1. ~record[c].ticking
      BY <2>3, <2>6 DEF Final
    <3>2. record[c].ticking = FALSE
      BY <2>4, <3>1
    <3>3. QED
      BY <2>3, <2>4, <2>6, <3>2
  <2>7. QED
    BY <2>3, <2>5, <2>6 DEF Final
<1>4. QED
  BY <1>1, <1>2, <1>3, TypeCorrect, PTL DEF Spec

==============================================================================
