-------------------------- MODULE SipCallEndProofs --------------------------
(***************************************************************************)
(* Theorems about how a call of SipCall ends, for every number of lost     *)
(* connections and of messages on their way: an established session can be *)
(* hung up, the two ends agree once nothing is under way, and a call given *)
(* up by its caller stops ringing.  All rest on one invariant, EInv: what  *)
(* the transactions, the dialogs and the messages on their way to the two  *)
(* ends say of each other.                                                 *)
(***************************************************************************)
EXTENDS SipCallProofs

-----------------------------------------------------------------------------
(* What is on its way, whatever its order.                                 *)
SetOf(s) == {s[i] : i \in 1 .. Len(s)}

ToCaller == SetOf(net["caller"])
ToCallee == SetOf(net["callee"])

-----------------------------------------------------------------------------
(* The invariant.                                                          *)

(* The INVITE transaction, the dialog and the session of the callee go     *)
(* together.                                                               *)
CalleeShape ==
  /\ callee.txn = "Proceeding" <=> callee.state \in {"Initial", "Establishing"}
  /\ callee.txn = "Proceeding" => callee.dialog = "Early"
  /\ callee.dialog = "Confirmed" => callee.state \in {"Established", "Terminating"}
  /\ callee.state = "Established" => callee.dialog = "Confirmed"
  /\ callee.state = "Terminating" => callee.ackWait

(* Before the caller acknowledges, nothing that follows the ACK is on its  *)
(* way, and the callee goes on waiting for it.                             *)
Unacked ==
  ~caller.acked =>
    /\ "ACK" \notin ToCallee /\ "BYE" \notin ToCallee
    /\ callee.dialog = "Confirmed" => callee.ackWait

(* The caller acknowledges an answer, and only once it has applied it.     *)
Acked ==
  /\ caller.acked => Answered
  /\ caller.txn \in {"None", "Calling", "Proceeding"} =>
       ~caller.acked /\ caller.work # "Answer"
  /\ caller.work = "Answer" => ~caller.acked
  /\ caller.state = "Established" => caller.acked
  /\ caller.work = "Offer" =>
       caller.txn = "None" /\ caller.state \in {"Initial", "Terminated"}

(* Until the ACK a callee that has hung up has not answered, as far as the *)
(* caller can know: unless a timer was late.                               *)
InTime ==
  ~late /\ ~caller.acked =>
    /\ callee.dialog = "Closed" =>
         "2xx" \notin ToCaller /\ caller.work # "Answer" /\ callee.txn # "Accepted"
    /\ callee.dialog # "Closed" => "BYE" \notin ToCaller
    /\ caller.work = "Answer" => caller.dialog = "Confirmed"

(* A session that the caller sees established has a dialog.                *)
CallerHasDialog == ~late /\ caller.state = "Established" => caller.dialog = "Confirmed"

(* Who says the call is over is out of it.                                 *)
ByeSent ==
  /\ "BYE" \in ToCallee => caller.state = "Terminated"
  /\ "BYE" \in ToCaller => callee.state = "Terminated"
  /\ "Reject" \in ToCaller => callee.state = "Terminated"

(* Nothing lost, nobody off line.                                          *)
Connected == drops = 0 => online = Ends

(* A caller left alone has a BYE coming.                                   *)
CallerAlone ==
  drops = 0 /\ ~late /\ caller.state = "Established" =>
    callee.state \in {"Established", "Terminating"} \/ "BYE" \in ToCaller

(* So has the callee, once there was an ACK.                               *)
CalleeAlone ==
  drops = 0 /\ caller.acked /\ callee.state = "Established" =>
    caller.state = "Established" \/ "BYE" \in ToCallee

(* The PBX asks for credentials once.                                      *)
ChallengedOnce ==
  /\ "Challenge" \in ToCaller => ~caller.challenged
  /\ caller.unheard => caller.challenged

(* The CANCEL of a call nobody has heard of waits for the first answer,    *)
(* unless the challenge made the session forget it.                        *)
CancelWaits ==
  /\ caller.state = "Initial" => ~caller.isCanceled
  /\ caller.txn = "Calling" /\ caller.isCanceled /\ ~caller.unheard => caller.pendingCancel

(* While the callee rings, the caller is about to hear it, and a caller    *)
(* that has given up has a CANCEL coming.                                  *)
CancelUnderWay ==
  drops = 0 /\ ~late =>
    /\ "INVITE" \in ToCallee => caller.txn = "Calling"
    /\ callee.state = "Initial" =>
         /\ caller.txn = "Proceeding" \/ (caller.txn = "Calling" /\ "1xx" \in ToCaller)
         /\ caller.isCanceled /\ ~caller.unheard /\ caller.txn = "Proceeding" =>
              "CANCEL" \in ToCallee

Ending ==
  /\ CalleeShape /\ Unacked /\ Acked /\ InTime /\ CallerHasDialog /\ ByeSent /\ Connected
  /\ CallerAlone /\ CalleeAlone /\ ChallengedOnce /\ CancelWaits /\ CancelUnderWay

EInv == Inv /\ Ending

-----------------------------------------------------------------------------
(* Lists of messages as sets.                                              *)
LEMMA SetOfAppend ==
  ASSUME NEW s \in Seq(Messages), NEW t \in Seq(Messages)
  PROVE  SetOf(s \o t) = SetOf(s) \cup SetOf(t)
  <1>1. ASSUME NEW i \in 1 .. Len(t) PROVE \E k \in 1 .. Len(s \o t) : (s \o t)[k] = t[i]
    <2>1. Len(s) + i \in 1 .. Len(s \o t) /\ (s \o t)[Len(s) + i] = t[i]
      OBVIOUS
    <2>2. QED
      BY <2>1
  <1>2. ASSUME NEW i \in 1 .. Len(s) PROVE i \in 1 .. Len(s \o t) /\ (s \o t)[i] = s[i]
    OBVIOUS
  <1>3. ASSUME NEW k \in 1 .. Len(s \o t)
        PROVE  \/ \E i \in 1 .. Len(s) : (s \o t)[k] = s[i]
               \/ \E i \in 1 .. Len(t) : (s \o t)[k] = t[i]
    <2>1. CASE k <= Len(s)
      BY <2>1
    <2>2. CASE k > Len(s)
      <3>1. k - Len(s) \in 1 .. Len(t) /\ (s \o t)[k] = t[k - Len(s)]
        BY <2>2
      <3>2. QED
        BY <3>1
    <2>3. QED
      BY <2>1, <2>2
  <1> DEFINE st == s \o t
  <1>4. /\ \A i \in 1 .. Len(t) : \E k \in 1 .. Len(st) : st[k] = t[i]
        /\ \A i \in 1 .. Len(s) : i \in 1 .. Len(st) /\ st[i] = s[i]
        /\ \A k \in 1 .. Len(st) : \/ \E i \in 1 .. Len(s) : st[k] = s[i]
                                  \/ \E i \in 1 .. Len(t) : st[k] = t[i]
    BY <1>1, <1>2, <1>3
  <1> HIDE DEF st
  <1>6. SetOf(st) \subseteq SetOf(s) \cup SetOf(t)
    BY <1>4 DEF SetOf
  <1>7. SetOf(s) \subseteq SetOf(st) /\ SetOf(t) \subseteq SetOf(st)
    BY <1>4 DEF SetOf
  <1>8. QED
    BY <1>6, <1>7 DEF st

(* The first message is one, the others are the rest.                      *)
LEMMA SetOfTail ==
  ASSUME NEW s \in Seq(Messages), s # << >>
  PROVE  /\ Head(s) \in SetOf(s) /\ SetOf(Tail(s)) \subseteq SetOf(s)
         /\ SetOf(s) \subseteq SetOf(Tail(s)) \cup {Head(s)}
  <1>1. Len(s) \in Nat \ {0} /\ Head(s) = s[1] /\ 1 \in 1 .. Len(s)
    OBVIOUS
  <1>2. ASSUME NEW i \in 1 .. Len(Tail(s))
        PROVE  i + 1 \in 1 .. Len(s) /\ Tail(s)[i] = s[i + 1]
    OBVIOUS
  <1>3. ASSUME NEW i \in 1 .. Len(s), i # 1
        PROVE  i - 1 \in 1 .. Len(Tail(s)) /\ Tail(s)[i - 1] = s[i]
    BY <1>3
  <1> DEFINE t == Tail(s)
  <1> HIDE DEF t
  <1>4. QED
    BY <1>1, <1>2, <1>3 DEF SetOf, t

(* The lists that are sent.                                                *)
LEMMA SetOfLists ==
  /\ SetOf(<< >>) = {}
  /\ \A m \in Messages : SetOf(<<m>>) = {m}
  /\ SetOf(<<"ACK", "BYE">>) = {"ACK", "BYE"}
  /\ SetOf(<<"ACK", "ACK", "BYE">>) = {"ACK", "BYE"}
  BY DEF SetOf

LEMMA NoneInSet == \A s, m : NoneIn(s, m) <=> m \notin SetOf(s)
  BY DEF NoneIn, SetOf

(* What the caller sends is added to what comes to the callee, if it       *)
(* arrives: for certain when both ends are on line.                        *)
LEMMA CallerSends ==
  ASSUME TypeOK, NEW ms \in Seq(Messages), Sends("caller", ms)
  PROVE  /\ ToCaller' = ToCaller /\ online' = online /\ drops' = drops
         /\ ToCallee \subseteq ToCallee' /\ ToCallee' \subseteq ToCallee \cup SetOf(ms)
         /\ online = Ends => SetOf(ms) \subseteq ToCallee'
  <1>1. net'["caller"] = net["caller"] /\ net'["callee"] = net["callee"] \o Carried(ms)
    BY SendsType DEF Ends, Peer
  <1>2. net["callee"] \in Seq(Messages) /\ Carried(ms) \in Seq(Messages)
    BY CarriedType DEF TypeOK, Ends
  <1>3. SetOf(net'["callee"]) = SetOf(net["callee"]) \cup SetOf(Carried(ms))
    BY <1>1, <1>2, SetOfAppend
  <1>4. /\ SetOf(Carried(ms)) \subseteq SetOf(ms)
        /\ online = Ends => SetOf(Carried(ms)) = SetOf(ms)
    BY SetOfLists DEF Carried
  <1>5. QED
    BY <1>1, <1>3, <1>4 DEF ToCaller, ToCallee, Sends

(* The same of the callee.                                                 *)
LEMMA CalleeSends ==
  ASSUME TypeOK, NEW ms \in Seq(Messages), Sends("callee", ms)
  PROVE  /\ ToCallee' = ToCallee /\ online' = online /\ drops' = drops
         /\ ToCaller \subseteq ToCaller' /\ ToCaller' \subseteq ToCaller \cup SetOf(ms)
         /\ online = Ends => SetOf(ms) \subseteq ToCaller'
  <1>1. net'["callee"] = net["callee"] /\ net'["caller"] = net["caller"] \o Carried(ms)
    BY SendsType DEF Ends, Peer
  <1>2. net["caller"] \in Seq(Messages) /\ Carried(ms) \in Seq(Messages)
    BY CarriedType DEF TypeOK, Ends
  <1>3. SetOf(net'["caller"]) = SetOf(net["caller"]) \cup SetOf(Carried(ms))
    BY <1>1, <1>2, SetOfAppend
  <1>4. /\ SetOf(Carried(ms)) \subseteq SetOf(ms)
        /\ online = Ends => SetOf(Carried(ms)) = SetOf(ms)
    BY SetOfLists DEF Carried
  <1>5. QED
    BY <1>1, <1>3, <1>4 DEF ToCaller, ToCallee, Sends

(* A message that the caller takes was there, and may be there again.      *)
LEMMA CallerAnswers ==
  ASSUME TypeOK, NEW m, Takes("caller", m), NEW ms \in Seq(Messages), Answers("caller", ms)
  PROVE  /\ online' = online /\ drops' = drops /\ late' = late
         /\ m \in ToCaller /\ ToCaller' \subseteq ToCaller
         /\ ToCaller \subseteq ToCaller' \cup {m}
         /\ ToCallee \subseteq ToCallee' /\ ToCallee' \subseteq ToCallee \cup SetOf(ms)
         /\ online = Ends => SetOf(ms) \subseteq ToCallee'
  <1>1. /\ net["caller"] # << >> /\ Head(net["caller"]) = m
        /\ net'["caller"] = Tail(net["caller"])
        /\ net'["callee"] = net["callee"] \o Carried(ms)
    BY AnswersType DEF Ends, Peer, Takes
  <1>2. /\ net["callee"] \in Seq(Messages) /\ Carried(ms) \in Seq(Messages)
        /\ net["caller"] \in Seq(Messages)
    BY CarriedType DEF TypeOK, Ends
  <1>3. SetOf(net'["callee"]) = SetOf(net["callee"]) \cup SetOf(Carried(ms))
    BY <1>1, <1>2, SetOfAppend
  <1>4. /\ SetOf(Carried(ms)) \subseteq SetOf(ms)
        /\ online = Ends => SetOf(Carried(ms)) = SetOf(ms)
    BY SetOfLists DEF Carried
  <1>5. /\ m \in SetOf(net["caller"])
        /\ SetOf(net'["caller"]) \subseteq SetOf(net["caller"])
        /\ SetOf(net["caller"]) \subseteq SetOf(net'["caller"]) \cup {m}
    BY <1>1, <1>2, SetOfTail
  <1>6. QED
    BY <1>3, <1>4, <1>5 DEF ToCaller, ToCallee, Answers

(* The same of the callee.                                                 *)
LEMMA CalleeAnswers ==
  ASSUME TypeOK, NEW m, Takes("callee", m), NEW ms \in Seq(Messages), Answers("callee", ms)
  PROVE  /\ online' = online /\ drops' = drops /\ late' = late
         /\ m \in ToCallee /\ ToCallee' \subseteq ToCallee
         /\ ToCallee \subseteq ToCallee' \cup {m}
         /\ ToCaller \subseteq ToCaller' /\ ToCaller' \subseteq ToCaller \cup SetOf(ms)
         /\ online = Ends => SetOf(ms) \subseteq ToCaller'
  <1>1. /\ net["callee"] # << >> /\ Head(net["callee"]) = m
        /\ net'["callee"] = Tail(net["callee"])
        /\ net'["caller"] = net["caller"] \o Carried(ms)
    BY AnswersType DEF Ends, Peer, Takes
  <1>2. /\ net["callee"] \in Seq(Messages) /\ Carried(ms) \in Seq(Messages)
        /\ net["caller"] \in Seq(Messages)
    BY CarriedType DEF TypeOK, Ends
  <1>3. SetOf(net'["caller"]) = SetOf(net["caller"]) \cup SetOf(Carried(ms))
    BY <1>1, <1>2, SetOfAppend
  <1>4. /\ SetOf(Carried(ms)) \subseteq SetOf(ms)
        /\ online = Ends => SetOf(Carried(ms)) = SetOf(ms)
    BY SetOfLists DEF Carried
  <1>5. /\ m \in SetOf(net["callee"])
        /\ SetOf(net'["callee"]) \subseteq SetOf(net["callee"])
        /\ SetOf(net["callee"]) \subseteq SetOf(net'["callee"]) \cup {m}
    BY <1>1, <1>2, SetOfTail
  <1>6. QED
    BY <1>3, <1>4, <1>5 DEF ToCaller, ToCallee, Answers

(* What the invariant of the refinement says of the messages under way.    *)
Known ==
  /\ caller \in Caller /\ callee \in Callee /\ online \subseteq Ends /\ drops \in Nat
  /\ late \in BOOLEAN
  /\ Answered \/ (caller.work # "Answer" /\ "2xx" \notin ToCaller)
  /\ callee.state = "None" =>
       /\ callee.txn = "None" /\ callee.dialog = "None" /\ callee.work = "None"
       /\ ~callee.ackWait /\ caller.txn \in {"None", "Calling", "Terminated"}
       /\ caller.dialog = "None" /\ caller.work # "Answer" /\ caller.state # "Established"
       /\ ToCaller = {} \/ (ToCaller = {"Challenge"} /\ ToCallee = {})
  /\ callee.state # "None" => "INVITE" \notin ToCallee /\ "Challenge" \notin ToCaller
  /\ caller.state = "Initial" =>
       /\ callee.state = "None" /\ ToCaller = {} /\ ToCallee = {} /\ caller.txn = "None"
       /\ caller.dialog = "None" /\ caller.work # "Answer"
  /\ callee.work = "Answer" /\ callee.txn = "Proceeding" => callee.state = "Establishing"
  /\ callee.txn = "Accepted" => Answered

(* Quiet: nothing comes to either end.                                     *)
LEMMA QuietEmpty == Quiet => ToCaller = {} /\ ToCallee = {} /\ caller.work # "Answer"
  BY SetOfLists DEF Quiet, Ends, ToCaller, ToCallee

LEMMA InvKnown == Inv => Known
  <1> SUFFICES ASSUME Inv PROVE Known
    OBVIOUS
  <1>1. \A s, m : NoneIn(s, m) <=> m \notin SetOf(s)
    BY NoneInSet
  <1>2. SetOf(<< >>) = {} /\ SetOf(<<"Challenge">>) = {"Challenge"}
    BY SetOfLists DEF Messages
  <1>3. AcceptAnswered /\ CalleeNone /\ InvitedOnce /\ CallerInitial /\ CalleeAccepts /\ TypeOK
    BY DEF Inv
  <1>4. QED
    BY <1>1, <1>2, <1>3
    DEF Known, AcceptAnswered, CalleeNone, InvitedOnce, CallerInitial, CalleeAccepts,
        TypeOK, ToCaller, ToCallee

-----------------------------------------------------------------------------
(* Every step keeps the invariant. Those of the caller: what each does to  *)
(* the messages, then to the fields of the session.                        *)
LEMMA EndingCaller ==
  ASSUME EInv, CallerNext
  PROVE  Ending'
  <1>0. TypeOK /\ Known /\ Ending
    BY InvKnown DEF EInv, Inv
  <1>t. caller \in Caller /\ callee \in Callee
    BY <1>0 DEF TypeOK
  <1>1. Quiet => ToCaller = {} /\ ToCallee = {} /\ caller.work # "Answer"
    BY QuietEmpty
  <1>2. UNCHANGED net => ToCaller' = ToCaller /\ ToCallee' = ToCallee
    BY DEF ToCaller, ToCallee
  <1> USE DEF Known, Ending, Caller, Callee, SessionState, Answered, Ends, Sent, Ended, Refused,
              Expires, Waiting, CalleeShape, Unacked, Acked, InTime, CallerHasDialog, ByeSent,
              Connected, CallerAlone, CalleeAlone, ChallengedOnce, CancelWaits, CancelUnderWay
  <1>3. CASE Invite
    BY <1>0, <1>1, <1>2, <1>3 DEF Invite
  <1>4. CASE OfferReady
    <2>1. CASE caller.work = "Offer" /\ caller.state = "Initial"
      <3>. Sends("caller", <<"INVITE">>)
        BY ONLY <1>4, <2>1 DEF OfferReady
      <3>1. /\ ToCaller' = ToCaller /\ online' = online /\ drops' = drops
            /\ ToCallee \subseteq ToCallee'
            /\ ToCallee' \subseteq ToCallee \cup {"INVITE"}
            /\ online = Ends => {"INVITE"} \subseteq ToCallee'
        BY <1>0, CallerSends, MessageLists, SetOfLists DEF Messages
      <3>2. /\ caller'.state = Sent("Establishing")
            /\ caller'.isCanceled = caller.isCanceled
            /\ caller'.pendingCancel = caller.pendingCancel
            /\ caller'.txn = Sent("Calling")
            /\ caller'.dialog = caller.dialog /\ caller'.acked = caller.acked
            /\ caller'.challenged = caller.challenged /\ caller'.unheard = caller.unheard
            /\ caller'.work = "None"
            /\ callee' = callee /\ late' = late
        BY ONLY <1>4, <1>t, <2>1 DEF OfferReady, Answers
      <3>3. QED
        BY ONLY <1>0, <1>1, <2>1, <3>1, <3>2
    <2>2. CASE caller.work = "Offer" /\ caller.state # "Initial"
      <3>1. /\ ToCaller' = ToCaller /\ ToCallee' = ToCallee
            /\ online' = online /\ drops' = drops
        BY ONLY <1>4, <2>2 DEF OfferReady, ToCaller, ToCallee
      <3>2. /\ caller'.state = caller.state /\ caller'.isCanceled = caller.isCanceled
            /\ caller'.pendingCancel = caller.pendingCancel /\ caller'.txn = caller.txn
            /\ caller'.dialog = caller.dialog /\ caller'.acked = caller.acked
            /\ caller'.challenged = caller.challenged /\ caller'.unheard = caller.unheard
            /\ caller'.work = "None"
            /\ callee' = callee /\ late' = late
        BY ONLY <1>4, <1>t, <2>2 DEF OfferReady, Answers
      <3>3. QED
        BY ONLY <1>0, <1>1, <2>2, <3>1, <3>2
    <2>3. QED
      BY <1>4, <2>1, <2>2 DEF OfferReady
  <1>5. CASE OfferFailed
    BY <1>0, <1>1, <1>2, <1>5 DEF OfferFailed
  <1>6. CASE CancelInitial
    BY <1>0, <1>1, <1>2, <1>6 DEF CancelInitial
  <1>7. CASE Cancel
    <2>1. CASE caller.state = "Establishing" /\ caller.txn = "Proceeding"
      <3>. Sends("caller", <<"CANCEL">>)
        BY ONLY <1>7, <2>1 DEF Cancel
      <3>1. /\ ToCaller' = ToCaller /\ online' = online /\ drops' = drops
            /\ ToCallee \subseteq ToCallee'
            /\ ToCallee' \subseteq ToCallee \cup {"CANCEL"}
            /\ online = Ends => {"CANCEL"} \subseteq ToCallee'
        BY <1>0, CallerSends, MessageLists, SetOfLists DEF Messages
      <3>2. /\ caller'.state = "Terminating" /\ caller'.isCanceled = TRUE
            /\ caller'.pendingCancel = FALSE /\ caller'.txn = caller.txn
            /\ caller'.dialog = caller.dialog /\ caller'.acked = caller.acked
            /\ caller'.challenged = caller.challenged /\ caller'.unheard = caller.unheard
            /\ caller'.work = caller.work
            /\ callee' = callee /\ late' = late
        BY ONLY <1>7, <1>t, <2>1 DEF Cancel, Answers
      <3>3. QED
        BY ONLY <1>0, <1>1, <2>1, <3>1, <3>2
    <2>2. CASE caller.state = "Establishing" /\ caller.txn = "Calling"
      <3>. Sends("caller", << >>)
        BY ONLY <1>7, <2>2 DEF Cancel
      <3>1. /\ ToCaller' = ToCaller /\ online' = online /\ drops' = drops
            /\ ToCallee \subseteq ToCallee' /\ ToCallee' \subseteq ToCallee \cup {}
            /\ online = Ends => {} \subseteq ToCallee'
        BY <1>0, CallerSends, MessageLists, SetOfLists DEF Messages
      <3>2. /\ caller'.state = "Terminating" /\ caller'.isCanceled = TRUE
            /\ caller'.pendingCancel = TRUE /\ caller'.txn = caller.txn
            /\ caller'.dialog = caller.dialog /\ caller'.acked = caller.acked
            /\ caller'.challenged = caller.challenged /\ caller'.unheard = caller.unheard
            /\ caller'.work = caller.work
            /\ callee' = callee /\ late' = late
        BY ONLY <1>7, <1>t, <2>2 DEF Cancel, Answers
      <3>3. QED
        BY ONLY <1>0, <1>1, <2>2, <3>1, <3>2
    <2>3. CASE caller.state = "Establishing" /\ caller.txn \notin {"Proceeding", "Calling"}
      <3>. Sends("caller", << >>)
        BY ONLY <1>7, <2>3 DEF Cancel
      <3>1. /\ ToCaller' = ToCaller /\ online' = online /\ drops' = drops
            /\ ToCallee \subseteq ToCallee' /\ ToCallee' \subseteq ToCallee \cup {}
            /\ online = Ends => {} \subseteq ToCallee'
        BY <1>0, CallerSends, MessageLists, SetOfLists DEF Messages
      <3>2. /\ caller'.state = "Terminating" /\ caller'.isCanceled = TRUE
            /\ caller'.pendingCancel = FALSE /\ caller'.txn = caller.txn
            /\ caller'.dialog = caller.dialog /\ caller'.acked = caller.acked
            /\ caller'.challenged = caller.challenged /\ caller'.unheard = caller.unheard
            /\ caller'.work = caller.work
            /\ callee' = callee /\ late' = late
        BY ONLY <1>7, <1>t, <2>3 DEF Cancel, Answers
      <3>3. QED
        BY ONLY <1>0, <1>1, <2>3, <3>1, <3>2
    <2>4. QED
      BY <1>7, <2>1, <2>2, <2>3 DEF Cancel
  <1>8. CASE ReceiveChallenge
    <2>1. Takes("caller", "Challenge")
      BY <1>8 DEF ReceiveChallenge
    <2>2. CASE caller.txn = "Calling"
      <3>. Answers("caller", <<"INVITE">>)
        BY ONLY <1>8, <2>2 DEF ReceiveChallenge
      <3>1. /\ online' = online /\ drops' = drops
            /\ "Challenge" \in ToCaller /\ ToCaller' \subseteq ToCaller
            /\ ToCaller \subseteq ToCaller' \cup {"Challenge"}
            /\ ToCallee \subseteq ToCallee'
            /\ ToCallee' \subseteq ToCallee \cup {"INVITE"}
            /\ online = Ends => {"INVITE"} \subseteq ToCallee'
        BY <1>0, <2>1, CallerAnswers, MessageLists, SetOfLists DEF Messages
      <3>2. /\ caller'.state = caller.state /\ caller'.isCanceled = caller.isCanceled
            /\ caller'.pendingCancel = FALSE /\ caller'.txn = caller.txn
            /\ caller'.dialog = caller.dialog /\ caller'.acked = caller.acked
            /\ caller'.challenged = TRUE /\ caller'.unheard = caller.pendingCancel
            /\ caller'.work = caller.work
            /\ callee' = callee /\ late' = late
        BY ONLY <1>8, <1>t, <2>2 DEF ReceiveChallenge, Answers
      <3>3. CalleeShape' /\ Unacked' /\ Acked' /\ Connected'
        BY ONLY <1>0, <1>1, <2>2, <3>1, <3>2 DEF CalleeShape, Unacked, Acked, Connected
      <3>4. InTime' /\ CallerHasDialog' /\ ByeSent'
        BY ONLY <1>0, <1>1, <2>2, <3>1, <3>2
        DEF CalleeShape, Unacked, Acked, Connected, InTime, CallerHasDialog,
            ByeSent
      <3>5. CallerAlone' /\ CalleeAlone'
        BY ONLY <1>0, <1>1, <2>2, <3>1, <3>2
        DEF CalleeShape, Unacked, Acked, Connected, InTime, CallerHasDialog,
            ByeSent, CallerAlone, CalleeAlone
      <3>6. ChallengedOnce' /\ CancelWaits' /\ CancelUnderWay'
        <4>1. net["caller"] = <<"Challenge">>
          <5>1. "Challenge" \notin ToCaller \/ callee.state = "None"
            BY ONLY <1>0 DEF Known
          <5>2. net["caller"] # << >>
            BY ONLY <2>1 DEF Takes
          <5>3. QED
            BY <3>1, <5>1, <5>2 DEF EInv, Inv, InvitedOnce
        <4>2. net'["caller"] = << >>
          <5>1. net'["caller"] = Tail(net["caller"])
            BY <1>0, <2>1, AnswersType, MessageLists DEF Takes, Ends, Messages
          <5>2. QED
            BY <4>1, <5>1
        <4>3. ToCaller' = {}
          BY <4>2, SetOfLists DEF ToCaller
        <4>4. QED
          BY ONLY <1>0, <1>1, <2>2, <3>1, <3>2, <4>3
          DEF CalleeShape, Acked, Connected, ByeSent, ChallengedOnce,
              CancelWaits, CancelUnderWay
      <3>7. QED
        BY <3>3, <3>4, <3>5, <3>6 DEF Ending
    <2>3. CASE caller.txn # "Calling"
      <3>. Answers("caller", << >>)
        BY ONLY <1>8, <2>3 DEF ReceiveChallenge
      <3>1. /\ online' = online /\ drops' = drops
            /\ "Challenge" \in ToCaller /\ ToCaller' \subseteq ToCaller
            /\ ToCaller \subseteq ToCaller' \cup {"Challenge"}
            /\ ToCallee \subseteq ToCallee' /\ ToCallee' \subseteq ToCallee \cup {}
            /\ online = Ends => {} \subseteq ToCallee'
        BY <1>0, <2>1, CallerAnswers, MessageLists, SetOfLists DEF Messages
      <3>2. /\ caller'.state = caller.state /\ caller'.isCanceled = caller.isCanceled
            /\ caller'.pendingCancel = caller.pendingCancel /\ caller'.txn = caller.txn
            /\ caller'.dialog = caller.dialog /\ caller'.acked = caller.acked
            /\ caller'.challenged = caller.challenged /\ caller'.unheard = caller.unheard
            /\ caller'.work = caller.work
            /\ callee' = callee /\ late' = late
        BY ONLY <1>8, <1>t, <2>3 DEF ReceiveChallenge, Answers
      <3>3. QED
        BY ONLY <1>0, <1>1, <2>3, <3>1, <3>2
    <2>4. QED
      BY <1>8, <2>2, <2>3 DEF ReceiveChallenge
  <1>9. CASE ReceiveProgress
    <2>1. Takes("caller", "1xx")
      BY <1>9 DEF ReceiveProgress
    <2>2. CASE caller.txn = "Calling" /\ caller.pendingCancel
      <3>. Answers("caller", <<"CANCEL">>)
        BY ONLY <1>9, <2>2 DEF ReceiveProgress
      <3>1. /\ online' = online /\ drops' = drops
            /\ "1xx" \in ToCaller /\ ToCaller' \subseteq ToCaller
            /\ ToCaller \subseteq ToCaller' \cup {"1xx"}
            /\ ToCallee \subseteq ToCallee'
            /\ ToCallee' \subseteq ToCallee \cup {"CANCEL"}
            /\ online = Ends => {"CANCEL"} \subseteq ToCallee'
        BY <1>0, <2>1, CallerAnswers, MessageLists, SetOfLists DEF Messages
      <3>2. /\ caller'.state = caller.state /\ caller'.isCanceled = caller.isCanceled
            /\ caller'.pendingCancel = FALSE /\ caller'.txn = "Proceeding"
            /\ caller'.dialog = caller.dialog /\ caller'.acked = caller.acked
            /\ caller'.challenged = caller.challenged /\ caller'.unheard = caller.unheard
            /\ caller'.work = caller.work
            /\ callee' = callee /\ late' = late
        BY ONLY <1>9, <1>t, <2>2 DEF ReceiveProgress, Answers
      <3>3. QED
        BY ONLY <1>0, <1>1, <2>2, <3>1, <3>2
    <2>3. CASE caller.txn = "Calling" /\ ~caller.pendingCancel
      <3>. Answers("caller", << >>)
        BY ONLY <1>9, <2>3 DEF ReceiveProgress
      <3>1. /\ online' = online /\ drops' = drops
            /\ "1xx" \in ToCaller /\ ToCaller' \subseteq ToCaller
            /\ ToCaller \subseteq ToCaller' \cup {"1xx"}
            /\ ToCallee \subseteq ToCallee' /\ ToCallee' \subseteq ToCallee \cup {}
            /\ online = Ends => {} \subseteq ToCallee'
        BY <1>0, <2>1, CallerAnswers, MessageLists, SetOfLists DEF Messages
      <3>2. /\ caller'.state = caller.state /\ caller'.isCanceled = caller.isCanceled
            /\ caller'.pendingCancel = FALSE /\ caller'.txn = "Proceeding"
            /\ caller'.dialog = caller.dialog /\ caller'.acked = caller.acked
            /\ caller'.challenged = caller.challenged /\ caller'.unheard = caller.unheard
            /\ caller'.work = caller.work
            /\ callee' = callee /\ late' = late
        BY ONLY <1>9, <1>t, <2>3 DEF ReceiveProgress, Answers
      <3>3. QED
        BY ONLY <1>0, <1>1, <2>3, <3>1, <3>2
    <2>4. CASE caller.txn # "Calling"
      <3>. Answers("caller", << >>)
        BY ONLY <1>9, <2>4 DEF ReceiveProgress
      <3>1. /\ online' = online /\ drops' = drops
            /\ "1xx" \in ToCaller /\ ToCaller' \subseteq ToCaller
            /\ ToCaller \subseteq ToCaller' \cup {"1xx"}
            /\ ToCallee \subseteq ToCallee' /\ ToCallee' \subseteq ToCallee \cup {}
            /\ online = Ends => {} \subseteq ToCallee'
        BY <1>0, <2>1, CallerAnswers, MessageLists, SetOfLists DEF Messages
      <3>2. /\ caller'.state = caller.state /\ caller'.isCanceled = caller.isCanceled
            /\ caller'.pendingCancel = caller.pendingCancel /\ caller'.txn = caller.txn
            /\ caller'.dialog = caller.dialog /\ caller'.acked = caller.acked
            /\ caller'.challenged = caller.challenged /\ caller'.unheard = caller.unheard
            /\ caller'.work = caller.work
            /\ callee' = callee /\ late' = late
        BY ONLY <1>9, <1>t, <2>4 DEF ReceiveProgress, Answers
      <3>3. QED
        BY ONLY <1>0, <1>1, <2>4, <3>1, <3>2
    <2>5. QED
      BY <1>9, <2>2, <2>3, <2>4 DEF ReceiveProgress
  <1>10. CASE ReceiveAccept
    <2>1. Takes("caller", "2xx")
      BY <1>10 DEF ReceiveAccept
    <2>2. CASE Waiting /\ ~caller.isCanceled
      <3>. Answers("caller", << >>)
        BY ONLY <1>10, <2>2 DEF ReceiveAccept
      <3>1. /\ online' = online /\ drops' = drops
            /\ "2xx" \in ToCaller /\ ToCaller' \subseteq ToCaller
            /\ ToCaller \subseteq ToCaller' \cup {"2xx"}
            /\ ToCallee \subseteq ToCallee' /\ ToCallee' \subseteq ToCallee \cup {}
            /\ online = Ends => {} \subseteq ToCallee'
        BY <1>0, <2>1, CallerAnswers, MessageLists, SetOfLists DEF Messages
      <3>2. /\ caller'.state = caller.state /\ caller'.isCanceled = caller.isCanceled
            /\ caller'.pendingCancel = caller.pendingCancel /\ caller'.txn = "Accepted"
            /\ caller'.dialog = "Confirmed" /\ caller'.acked = caller.acked
            /\ caller'.challenged = caller.challenged /\ caller'.unheard = caller.unheard
            /\ caller'.work = "Answer"
            /\ callee' = callee /\ late' = late
        BY ONLY <1>10, <1>t, <2>2 DEF ReceiveAccept, Answers
      <3>3. QED
        BY ONLY <1>0, <1>1, <2>2, <3>1, <3>2
    <2>3. QED
      BY <1>10, <2>2 DEF ReceiveAccept
  <1>11. CASE ReceiveAcceptCanceled
    <2>1. Takes("caller", "2xx")
      BY <1>11 DEF ReceiveAcceptCanceled
    <2>2. CASE Waiting /\ caller.isCanceled
      <3>. Answers("caller", <<"ACK", "BYE">>)
        BY ONLY <1>11, <2>2 DEF ReceiveAcceptCanceled
      <3>1. /\ online' = online /\ drops' = drops
            /\ "2xx" \in ToCaller /\ ToCaller' \subseteq ToCaller
            /\ ToCaller \subseteq ToCaller' \cup {"2xx"}
            /\ ToCallee \subseteq ToCallee'
            /\ ToCallee' \subseteq ToCallee \cup {"ACK", "BYE"}
            /\ online = Ends => {"ACK", "BYE"} \subseteq ToCallee'
        BY <1>0, <2>1, CallerAnswers, MessageLists, SetOfLists DEF Messages
      <3>2. /\ caller'.state = "Terminated" /\ caller'.isCanceled = caller.isCanceled
            /\ caller'.pendingCancel = FALSE /\ caller'.txn = Sent("Accepted")
            /\ caller'.dialog = "Closed" /\ caller'.acked = TRUE
            /\ caller'.challenged = caller.challenged /\ caller'.unheard = caller.unheard
            /\ caller'.work = caller.work
            /\ callee' = callee /\ late' = late
        BY ONLY <1>11, <1>t, <2>2 DEF ReceiveAcceptCanceled, Answers
      <3>3. QED
        BY ONLY <1>0, <1>1, <2>2, <3>1, <3>2
    <2>3. QED
      BY <1>11, <2>2 DEF ReceiveAcceptCanceled
  <1>12. CASE ReceiveAcceptAgain
    <2>1. Takes("caller", "2xx")
      BY <1>12 DEF ReceiveAcceptAgain
    <2>2. Answers("caller", << >>) =>
          /\ online' = online /\ drops' = drops /\ late' = late
          /\ "2xx" \in ToCaller /\ ToCaller' \subseteq ToCaller
          /\ ToCaller \subseteq ToCaller' \cup {"2xx"}
          /\ ToCallee \subseteq ToCallee' /\ ToCallee' \subseteq ToCallee \cup {}
          /\ online = Ends => {} \subseteq ToCallee'
      BY <1>0, <2>1, CallerAnswers, MessageLists, SetOfLists DEF Messages
    <2>3. Answers("caller", <<"ACK">>) =>
          /\ online' = online /\ drops' = drops /\ late' = late
          /\ "2xx" \in ToCaller /\ ToCaller' \subseteq ToCaller
          /\ ToCaller \subseteq ToCaller' \cup {"2xx"}
          /\ ToCallee \subseteq ToCallee' /\ ToCallee' \subseteq ToCallee \cup {"ACK"}
          /\ online = Ends => {"ACK"} \subseteq ToCallee'
      BY <1>0, <2>1, CallerAnswers, MessageLists, SetOfLists DEF Messages
    <2>4. QED
      BY <1>0, <1>1, <1>12, <1>2, <2>2, <2>3 DEF ReceiveAcceptAgain
  <1>13. CASE ReceiveReject
    <2>1. Takes("caller", "Reject")
      BY <1>13 DEF ReceiveReject
    <2>2. CASE Waiting
      <3>. Answers("caller", <<"AckReject">>)
        BY ONLY <1>13, <2>2 DEF ReceiveReject
      <3>1. /\ online' = online /\ drops' = drops
            /\ "Reject" \in ToCaller /\ ToCaller' \subseteq ToCaller
            /\ ToCaller \subseteq ToCaller' \cup {"Reject"}
            /\ ToCallee \subseteq ToCallee'
            /\ ToCallee' \subseteq ToCallee \cup {"AckReject"}
            /\ online = Ends => {"AckReject"} \subseteq ToCallee'
        BY <1>0, <2>1, CallerAnswers, MessageLists, SetOfLists DEF Messages
      <3>2. /\ caller'.state = Ended(caller.state)
            /\ caller'.isCanceled = caller.isCanceled
            /\ caller'.pendingCancel = FALSE /\ caller'.txn = Sent("Completed")
            /\ caller'.dialog = caller.dialog /\ caller'.acked = caller.acked
            /\ caller'.challenged = caller.challenged /\ caller'.unheard = caller.unheard
            /\ caller'.work = caller.work
            /\ callee' = callee /\ late' = late
        BY ONLY <1>13, <1>t, <2>2 DEF ReceiveReject, Answers
      <3>3. QED
        BY ONLY <1>0, <1>1, <2>2, <3>1, <3>2
    <2>3. CASE caller.txn = "Completed"
      <3>. Answers("caller", <<"AckReject">>)
        BY ONLY <1>13, <2>3 DEF ReceiveReject
      <3>1. /\ online' = online /\ drops' = drops
            /\ "Reject" \in ToCaller /\ ToCaller' \subseteq ToCaller
            /\ ToCaller \subseteq ToCaller' \cup {"Reject"}
            /\ ToCallee \subseteq ToCallee'
            /\ ToCallee' \subseteq ToCallee \cup {"AckReject"}
            /\ online = Ends => {"AckReject"} \subseteq ToCallee'
        BY <1>0, <2>1, CallerAnswers, MessageLists, SetOfLists DEF Messages
      <3>2. /\ caller'.state = caller.state /\ caller'.isCanceled = caller.isCanceled
            /\ caller'.pendingCancel = caller.pendingCancel
            /\ caller'.txn = Sent(caller.txn)
            /\ caller'.dialog = caller.dialog /\ caller'.acked = caller.acked
            /\ caller'.challenged = caller.challenged /\ caller'.unheard = caller.unheard
            /\ caller'.work = caller.work
            /\ callee' = callee /\ late' = late
        BY ONLY <1>13, <1>t, <2>3 DEF ReceiveReject, Answers
      <3>3. QED
        BY ONLY <1>0, <1>1, <2>3, <3>1, <3>2
    <2>4. CASE ~Waiting /\ caller.txn # "Completed"
      <3>. Answers("caller", << >>)
        BY ONLY <1>13, <2>4 DEF ReceiveReject
      <3>1. /\ online' = online /\ drops' = drops
            /\ "Reject" \in ToCaller /\ ToCaller' \subseteq ToCaller
            /\ ToCaller \subseteq ToCaller' \cup {"Reject"}
            /\ ToCallee \subseteq ToCallee' /\ ToCallee' \subseteq ToCallee \cup {}
            /\ online = Ends => {} \subseteq ToCallee'
        BY <1>0, <2>1, CallerAnswers, MessageLists, SetOfLists DEF Messages
      <3>2. /\ caller'.state = caller.state /\ caller'.isCanceled = caller.isCanceled
            /\ caller'.pendingCancel = caller.pendingCancel /\ caller'.txn = caller.txn
            /\ caller'.dialog = caller.dialog /\ caller'.acked = caller.acked
            /\ caller'.challenged = caller.challenged /\ caller'.unheard = caller.unheard
            /\ caller'.work = caller.work
            /\ callee' = callee /\ late' = late
        BY ONLY <1>13, <1>t, <2>4 DEF ReceiveReject, Answers
      <3>3. QED
        BY ONLY <1>0, <1>1, <2>4, <3>1, <3>2
    <2>5. QED
      BY <1>13, <2>2, <2>3, <2>4 DEF ReceiveReject
  <1>14. CASE AnswerSet
    <2>1. Sends("caller", <<"ACK">>) =>
          /\ ToCaller' = ToCaller /\ online' = online /\ drops' = drops
          /\ ToCallee \subseteq ToCallee' /\ ToCallee' \subseteq ToCallee \cup {"ACK"}
          /\ online = Ends => {"ACK"} \subseteq ToCallee'
      BY <1>0, CallerSends, MessageLists, SetOfLists DEF Messages
    <2>2. QED
      BY <1>0, <1>1, <1>14, <1>2, <2>1 DEF AnswerSet
  <1>15. CASE AnswerSetCanceled
    <2>1. Sends("caller", <<"ACK", "ACK", "BYE">>) =>
          /\ ToCaller' = ToCaller /\ online' = online /\ drops' = drops
          /\ ToCallee \subseteq ToCallee'
          /\ ToCallee' \subseteq ToCallee \cup {"ACK", "BYE"}
          /\ online = Ends => {"ACK", "BYE"} \subseteq ToCallee'
      BY <1>0, CallerSends, MessageLists, SetOfLists DEF Messages
    <2>2. QED
      BY <1>0, <1>1, <1>15, <1>2, <2>1 DEF AnswerSetCanceled
  <1>16. CASE AnswerFailed
    <2>1. Sends("caller", <<"ACK", "BYE">>) =>
          /\ ToCaller' = ToCaller /\ online' = online /\ drops' = drops
          /\ ToCallee \subseteq ToCallee'
          /\ ToCallee' \subseteq ToCallee \cup {"ACK", "BYE"}
          /\ online = Ends => {"ACK", "BYE"} \subseteq ToCallee'
      BY <1>0, CallerSends, MessageLists, SetOfLists DEF Messages
    <2>2. QED
      BY <1>0, <1>1, <1>16, <1>2, <2>1 DEF AnswerFailed
  <1>17. CASE TimerB
    <2>1. CalleeShape' /\ Unacked' /\ Acked' /\ Connected'
      BY <1>0, <1>1, <1>17, <1>2 DEF TimerB, CalleeShape, Unacked, Acked, Connected
    <2>2. InTime' /\ CallerHasDialog' /\ ByeSent'
      BY <1>0, <1>1, <1>17, <1>2
      DEF TimerB, CalleeShape, Unacked, Acked, Connected, InTime, CallerHasDialog,
          ByeSent
    <2>3. CallerAlone' /\ CalleeAlone'
      BY <1>0, <1>1, <1>17, <1>2
      DEF TimerB, CalleeShape, Unacked, Acked, Connected, InTime, CallerHasDialog,
          ByeSent, CallerAlone, CalleeAlone
    <2>4. ChallengedOnce' /\ CancelWaits' /\ CancelUnderWay'
      BY <1>0, <1>1, <1>17, <1>2
      DEF TimerB, CalleeShape, Acked, Connected, ByeSent, ChallengedOnce,
          CancelWaits, CancelUnderWay
    <2>5. QED
      BY <2>1, <2>2, <2>3, <2>4 DEF Ending
  <1>18. CASE TimerD
    BY <1>0, <1>1, <1>2, <1>18 DEF TimerD
  <1>19. CASE TimerM
    BY <1>0, <1>1, <1>2, <1>19 DEF TimerM
  <1>20. CASE CallerBye
    <2>1. Sends("caller", <<"BYE">>) =>
          /\ ToCaller' = ToCaller /\ online' = online /\ drops' = drops
          /\ ToCallee \subseteq ToCallee' /\ ToCallee' \subseteq ToCallee \cup {"BYE"}
          /\ online = Ends => {"BYE"} \subseteq ToCallee'
      BY <1>0, CallerSends, MessageLists, SetOfLists DEF Messages
    <2>2. QED
      BY <1>0, <1>1, <1>20, <1>2, <2>1 DEF CallerBye
  <1>21. CASE CallerReceivesBye
    <2>1. Takes("caller", "BYE")
      BY <1>21 DEF CallerReceivesBye
    <2>2. Answers("caller", << >>) =>
          /\ online' = online /\ drops' = drops /\ late' = late
          /\ "BYE" \in ToCaller /\ ToCaller' \subseteq ToCaller
          /\ ToCaller \subseteq ToCaller' \cup {"BYE"}
          /\ ToCallee \subseteq ToCallee' /\ ToCallee' \subseteq ToCallee \cup {}
          /\ online = Ends => {} \subseteq ToCallee'
      BY <1>0, <2>1, CallerAnswers, MessageLists, SetOfLists DEF Messages
    <2>3. QED
      BY <1>0, <1>1, <1>21, <1>2, <2>2 DEF CallerReceivesBye
  <1>22. QED
    BY <1>3, <1>4, <1>5, <1>6, <1>7, <1>8, <1>9, <1>10, <1>11, <1>12, <1>13, <1>14,
       <1>15, <1>16, <1>17, <1>18, <1>19, <1>20, <1>21
    DEF CallerNext

(* Those of the callee.                                                    *)
LEMMA EndingCallee ==
  ASSUME EInv, CalleeNext
  PROVE  Ending'
  <1>0. TypeOK /\ Known /\ Ending
    BY InvKnown DEF EInv, Inv
  <1>t. caller \in Caller /\ callee \in Callee
    BY <1>0 DEF TypeOK
  <1>1. Quiet => ToCaller = {} /\ ToCallee = {} /\ caller.work # "Answer"
    BY QuietEmpty
  <1>2. UNCHANGED net => ToCaller' = ToCaller /\ ToCallee' = ToCallee
    BY DEF ToCaller, ToCallee
  <1> USE DEF Known, Ending, Caller, Callee, SessionState, Answered, Ends, Sent, Ended, Refused,
              Expires, Waiting, CalleeShape, Unacked, Acked, InTime, CallerHasDialog, ByeSent,
              Connected, CallerAlone, CalleeAlone, ChallengedOnce, CancelWaits, CancelUnderWay
  <1>3. CASE ReceiveInvite
    <2>1. Takes("callee", "INVITE")
      BY <1>3 DEF ReceiveInvite
    <2>2. Answers("callee", <<"1xx">>) =>
          /\ online' = online /\ drops' = drops /\ late' = late
          /\ "INVITE" \in ToCallee /\ ToCallee' \subseteq ToCallee
          /\ ToCallee \subseteq ToCallee' \cup {"INVITE"}
          /\ ToCaller \subseteq ToCaller' /\ ToCaller' \subseteq ToCaller \cup {"1xx"}
          /\ online = Ends => {"1xx"} \subseteq ToCaller'
      BY <1>0, <2>1, CalleeAnswers, MessageLists, SetOfLists DEF Messages
    <2>3. QED
      BY <1>0, <1>1, <1>3, <1>2, <2>2 DEF ReceiveInvite
  <1>4. CASE Accept
    BY <1>0, <1>1, <1>2, <1>4 DEF Accept
  <1>5. CASE MediaReady
    <2>1. CASE callee.work = "Answer" /\ callee.txn = "Proceeding"
      <3>. Sends("callee", <<"2xx">>)
        BY ONLY <1>5, <2>1 DEF MediaReady
      <3>1. /\ ToCallee' = ToCallee /\ online' = online /\ drops' = drops
            /\ ToCaller \subseteq ToCaller' /\ ToCaller' \subseteq ToCaller \cup {"2xx"}
            /\ online = Ends => {"2xx"} \subseteq ToCaller'
        BY <1>0, CalleeSends, MessageLists, SetOfLists DEF Messages
      <3>2. /\ callee'.state = "Established" /\ callee'.isCanceled = callee.isCanceled
            /\ callee'.txn = "Accepted" /\ callee'.dialog = "Confirmed"
            /\ callee'.ackWait = TRUE /\ callee'.work = "None"
            /\ caller' = caller /\ late' = late
        BY ONLY <1>5, <1>t, <2>1 DEF MediaReady, Answers
      <3>3. QED
        BY ONLY <1>0, <1>1, <2>1, <3>1, <3>2
    <2>2. CASE callee.work = "Answer" /\ callee.txn # "Proceeding"
      <3>1. /\ ToCaller' = ToCaller /\ ToCallee' = ToCallee
            /\ online' = online /\ drops' = drops
        BY ONLY <1>5, <2>2 DEF MediaReady, ToCaller, ToCallee
      <3>2. /\ callee'.state = callee.state /\ callee'.isCanceled = callee.isCanceled
            /\ callee'.txn = callee.txn /\ callee'.dialog = callee.dialog
            /\ callee'.ackWait = callee.ackWait /\ callee'.work = "None"
            /\ caller' = caller /\ late' = late
        BY ONLY <1>5, <1>t, <2>2 DEF MediaReady, Answers
      <3>3. QED
        BY ONLY <1>0, <1>1, <2>2, <3>1, <3>2
    <2>3. QED
      BY <1>5, <2>1, <2>2 DEF MediaReady
  <1>6. CASE MediaFailed
    <2>1. CASE callee.work = "Answer" /\ callee.state = "Establishing"
      <3>. Sends("callee", <<"Reject">>)
        BY ONLY <1>6, <2>1 DEF MediaFailed
      <3>1. /\ ToCallee' = ToCallee /\ online' = online /\ drops' = drops
            /\ ToCaller \subseteq ToCaller'
            /\ ToCaller' \subseteq ToCaller \cup {"Reject"}
            /\ online = Ends => {"Reject"} \subseteq ToCaller'
        BY <1>0, CalleeSends, MessageLists, SetOfLists DEF Messages
      <3>2. /\ callee'.state = "Terminated" /\ callee'.isCanceled = callee.isCanceled
            /\ callee'.txn = "Completed" /\ callee'.dialog = callee.dialog
            /\ callee'.ackWait = callee.ackWait /\ callee'.work = "None"
            /\ caller' = caller /\ late' = late
        BY ONLY <1>6, <1>t, <2>1 DEF MediaFailed, Answers
      <3>3. QED
        BY ONLY <1>0, <1>1, <2>1, <3>1, <3>2
    <2>2. CASE callee.work = "Answer" /\ callee.state # "Establishing"
      <3>1. /\ ToCaller' = ToCaller /\ ToCallee' = ToCallee
            /\ online' = online /\ drops' = drops
        BY ONLY <1>6, <2>2 DEF MediaFailed, ToCaller, ToCallee
      <3>2. /\ callee'.state = callee.state /\ callee'.isCanceled = callee.isCanceled
            /\ callee'.txn = callee.txn /\ callee'.dialog = callee.dialog
            /\ callee'.ackWait = callee.ackWait /\ callee'.work = "None"
            /\ caller' = caller /\ late' = late
        BY ONLY <1>6, <1>t, <2>2 DEF MediaFailed, Answers
      <3>3. QED
        BY ONLY <1>0, <1>1, <2>2, <3>1, <3>2
    <2>3. QED
      BY <1>6, <2>1, <2>2 DEF MediaFailed
  <1>7. CASE Reject
    <2>1. Sends("callee", <<"Reject">>) =>
          /\ ToCallee' = ToCallee /\ online' = online /\ drops' = drops
          /\ ToCaller \subseteq ToCaller' /\ ToCaller' \subseteq ToCaller \cup {"Reject"}
          /\ online = Ends => {"Reject"} \subseteq ToCaller'
      BY <1>0, CalleeSends, MessageLists, SetOfLists DEF Messages
    <2>2. QED
      BY <1>0, <1>1, <1>7, <1>2, <2>1 DEF Reject
  <1>8. CASE NoAnswer
    <2>1. Sends("callee", <<"Reject">>) =>
          /\ ToCallee' = ToCallee /\ online' = online /\ drops' = drops
          /\ ToCaller \subseteq ToCaller' /\ ToCaller' \subseteq ToCaller \cup {"Reject"}
          /\ online = Ends => {"Reject"} \subseteq ToCaller'
      BY <1>0, CalleeSends, MessageLists, SetOfLists DEF Messages
    <2>2. QED
      BY <1>0, <1>1, <1>8, <1>2, <2>1 DEF NoAnswer
  <1>9. CASE ReceiveCancel
    <2>1. Takes("callee", "CANCEL")
      BY <1>9 DEF ReceiveCancel
    <2>2. CASE callee.txn = "Proceeding"
      <3>. Answers("callee", <<"Reject">>)
        BY ONLY <1>9, <2>2 DEF ReceiveCancel
      <3>1. /\ online' = online /\ drops' = drops
            /\ "CANCEL" \in ToCallee /\ ToCallee' \subseteq ToCallee
            /\ ToCallee \subseteq ToCallee' \cup {"CANCEL"}
            /\ ToCaller \subseteq ToCaller'
            /\ ToCaller' \subseteq ToCaller \cup {"Reject"}
            /\ online = Ends => {"Reject"} \subseteq ToCaller'
        BY <1>0, <2>1, CalleeAnswers, MessageLists, SetOfLists DEF Messages
      <3>2. /\ callee'.state = "Terminated" /\ callee'.isCanceled = TRUE
            /\ callee'.txn = "Completed" /\ callee'.dialog = callee.dialog
            /\ callee'.ackWait = callee.ackWait /\ callee'.work = callee.work
            /\ caller' = caller /\ late' = late
        BY ONLY <1>9, <1>t, <2>2 DEF ReceiveCancel, Answers
      <3>3. QED
        BY ONLY <1>0, <1>1, <2>2, <3>1, <3>2
    <2>3. CASE callee.txn # "Proceeding"
      <3>. Answers("callee", << >>)
        BY ONLY <1>9, <2>3 DEF ReceiveCancel
      <3>1. /\ online' = online /\ drops' = drops
            /\ "CANCEL" \in ToCallee /\ ToCallee' \subseteq ToCallee
            /\ ToCallee \subseteq ToCallee' \cup {"CANCEL"}
            /\ ToCaller \subseteq ToCaller' /\ ToCaller' \subseteq ToCaller \cup {}
            /\ online = Ends => {} \subseteq ToCaller'
        BY <1>0, <2>1, CalleeAnswers, MessageLists, SetOfLists DEF Messages
      <3>2. /\ callee'.state = callee.state /\ callee'.isCanceled = callee.isCanceled
            /\ callee'.txn = callee.txn /\ callee'.dialog = callee.dialog
            /\ callee'.ackWait = callee.ackWait /\ callee'.work = callee.work
            /\ caller' = caller /\ late' = late
        BY ONLY <1>9, <1>t, <2>3 DEF ReceiveCancel, Answers
      <3>3. QED
        BY ONLY <1>0, <1>1, <2>3, <3>1, <3>2
    <2>4. QED
      BY <1>9, <2>2, <2>3 DEF ReceiveCancel
  <1>10. CASE ReceiveAckReject
    <2>1. Takes("callee", "AckReject")
      BY <1>10 DEF ReceiveAckReject
    <2>2. Answers("callee", << >>) =>
          /\ online' = online /\ drops' = drops /\ late' = late
          /\ "AckReject" \in ToCallee /\ ToCallee' \subseteq ToCallee
          /\ ToCallee \subseteq ToCallee' \cup {"AckReject"}
          /\ ToCaller \subseteq ToCaller' /\ ToCaller' \subseteq ToCaller \cup {}
          /\ online = Ends => {} \subseteq ToCaller'
      BY <1>0, <2>1, CalleeAnswers, MessageLists, SetOfLists DEF Messages
    <2>3. QED
      BY <1>0, <1>1, <1>10, <1>2, <2>2 DEF ReceiveAckReject
  <1>11. CASE ReceiveAck
    <2>1. Takes("callee", "ACK")
      BY <1>11 DEF ReceiveAck
    <2>2. CASE callee.dialog # "Confirmed"
      <3>. Answers("callee", << >>)
        BY ONLY <1>11, <2>2 DEF ReceiveAck
      <3>1. /\ online' = online /\ drops' = drops
            /\ "ACK" \in ToCallee /\ ToCallee' \subseteq ToCallee
            /\ ToCallee \subseteq ToCallee' \cup {"ACK"}
            /\ ToCaller \subseteq ToCaller' /\ ToCaller' \subseteq ToCaller \cup {}
            /\ online = Ends => {} \subseteq ToCaller'
        BY <1>0, <2>1, CalleeAnswers, MessageLists, SetOfLists DEF Messages
      <3>2. /\ callee'.state = callee.state /\ callee'.isCanceled = callee.isCanceled
            /\ callee'.txn = callee.txn /\ callee'.dialog = callee.dialog
            /\ callee'.ackWait = callee.ackWait /\ callee'.work = callee.work
            /\ caller' = caller /\ late' = late
        BY ONLY <1>11, <1>t, <2>2 DEF ReceiveAck, Answers
      <3>3. QED
        BY ONLY <1>0, <1>1, <2>2, <3>1, <3>2
    <2>3. CASE callee.dialog = "Confirmed" /\ callee.state = "Terminating" /\ callee.ackWait
      <3>. Answers("callee", <<"BYE">>)
        BY ONLY <1>11, <2>3 DEF ReceiveAck
      <3>1. /\ online' = online /\ drops' = drops
            /\ "ACK" \in ToCallee /\ ToCallee' \subseteq ToCallee
            /\ ToCallee \subseteq ToCallee' \cup {"ACK"}
            /\ ToCaller \subseteq ToCaller' /\ ToCaller' \subseteq ToCaller \cup {"BYE"}
            /\ online = Ends => {"BYE"} \subseteq ToCaller'
        BY <1>0, <2>1, CalleeAnswers, MessageLists, SetOfLists DEF Messages
      <3>2. /\ callee'.state = "Terminated" /\ callee'.isCanceled = callee.isCanceled
            /\ callee'.txn = callee.txn /\ callee'.dialog = "Closed"
            /\ callee'.ackWait = FALSE /\ callee'.work = callee.work
            /\ caller' = caller /\ late' = late
        BY ONLY <1>11, <1>t, <2>3 DEF ReceiveAck, Answers
      <3>3. QED
        BY ONLY <1>0, <1>1, <2>3, <3>1, <3>2
    <2>4. CASE callee.dialog = "Confirmed" /\ ~(callee.state = "Terminating" /\ callee.ackWait)
      <3>. Answers("callee", << >>)
        BY ONLY <1>11, <2>4 DEF ReceiveAck
      <3>1. /\ online' = online /\ drops' = drops
            /\ "ACK" \in ToCallee /\ ToCallee' \subseteq ToCallee
            /\ ToCallee \subseteq ToCallee' \cup {"ACK"}
            /\ ToCaller \subseteq ToCaller' /\ ToCaller' \subseteq ToCaller \cup {}
            /\ online = Ends => {} \subseteq ToCaller'
        BY <1>0, <2>1, CalleeAnswers, MessageLists, SetOfLists DEF Messages
      <3>2. /\ callee'.state = callee.state /\ callee'.isCanceled = callee.isCanceled
            /\ callee'.txn = callee.txn /\ callee'.dialog = callee.dialog
            /\ callee'.ackWait = FALSE /\ callee'.work = callee.work
            /\ caller' = caller /\ late' = late
        BY ONLY <1>11, <1>t, <2>4 DEF ReceiveAck, Answers
      <3>3. QED
        BY ONLY <1>0, <1>1, <2>4, <3>1, <3>2
    <2>5. QED
      BY <1>11, <2>2, <2>3, <2>4 DEF ReceiveAck
  <1>12. CASE CalleeBye
    <2>1. Sends("callee", <<"BYE">>) =>
          /\ ToCallee' = ToCallee /\ online' = online /\ drops' = drops
          /\ ToCaller \subseteq ToCaller' /\ ToCaller' \subseteq ToCaller \cup {"BYE"}
          /\ online = Ends => {"BYE"} \subseteq ToCaller'
      BY <1>0, CalleeSends, MessageLists, SetOfLists DEF Messages
    <2>2. QED
      BY <1>0, <1>1, <1>12, <1>2, <2>1 DEF CalleeBye
  <1>13. CASE CalleeByeLater
    BY <1>0, <1>1, <1>2, <1>13 DEF CalleeByeLater
  <1>14. CASE CalleeReceivesBye
    <2>1. Takes("callee", "BYE")
      BY <1>14 DEF CalleeReceivesBye
    <2>2. Answers("callee", << >>) =>
          /\ online' = online /\ drops' = drops /\ late' = late
          /\ "BYE" \in ToCallee /\ ToCallee' \subseteq ToCallee
          /\ ToCallee \subseteq ToCallee' \cup {"BYE"}
          /\ ToCaller \subseteq ToCaller' /\ ToCaller' \subseteq ToCaller \cup {}
          /\ online = Ends => {} \subseteq ToCaller'
      BY <1>0, <2>1, CalleeAnswers, MessageLists, SetOfLists DEF Messages
    <2>3. QED
      BY <1>0, <1>1, <1>14, <1>2, <2>2 DEF CalleeReceivesBye
  <1>15. CASE RetransmitAccept
    <2>1. Sends("callee", <<"2xx">>) =>
          /\ ToCallee' = ToCallee /\ online' = online /\ drops' = drops
          /\ ToCaller \subseteq ToCaller' /\ ToCaller' \subseteq ToCaller \cup {"2xx"}
          /\ online = Ends => {"2xx"} \subseteq ToCaller'
      BY <1>0, CalleeSends, MessageLists, SetOfLists DEF Messages
    <2>2. QED
      BY <1>0, <1>1, <1>15, <1>2, <2>1 DEF RetransmitAccept
  <1>16. CASE TimerL
    <2>1. Sends("callee", <<"BYE">>) =>
          /\ ToCallee' = ToCallee /\ online' = online /\ drops' = drops
          /\ ToCaller \subseteq ToCaller' /\ ToCaller' \subseteq ToCaller \cup {"BYE"}
          /\ online = Ends => {"BYE"} \subseteq ToCaller'
      BY <1>0, CalleeSends, MessageLists, SetOfLists DEF Messages
    <2>2. CalleeShape' /\ Unacked' /\ Acked' /\ Connected'
      BY <1>0, <1>1, <1>16, <1>2, <2>1 DEF TimerL, CalleeShape, Unacked, Acked, Connected
    <2>3. InTime' /\ CallerHasDialog' /\ ByeSent'
      BY <1>0, <1>1, <1>16, <1>2, <2>1
      DEF TimerL, CalleeShape, Unacked, Acked, Connected, InTime, CallerHasDialog,
          ByeSent
    <2>4. CallerAlone' /\ CalleeAlone'
      BY <1>0, <1>1, <1>16, <1>2, <2>1
      DEF TimerL, CalleeShape, Unacked, Acked, Connected, InTime, CallerHasDialog,
          ByeSent, CallerAlone, CalleeAlone
    <2>5. ChallengedOnce' /\ CancelWaits' /\ CancelUnderWay'
      BY <1>0, <1>1, <1>16, <1>2, <2>1
      DEF TimerL, CalleeShape, Acked, Connected, ByeSent, ChallengedOnce,
          CancelWaits, CancelUnderWay
    <2>6. QED
      BY <2>2, <2>3, <2>4, <2>5 DEF Ending
  <1>17. CASE TimerH
    BY <1>0, <1>1, <1>2, <1>17 DEF TimerH
  <1>18. CASE TimerI
    BY <1>0, <1>1, <1>2, <1>18 DEF TimerI
  <1>19. QED
    BY <1>3, <1>4, <1>5, <1>6, <1>7, <1>8, <1>9, <1>10, <1>11, <1>12, <1>13, <1>14,
       <1>15, <1>16, <1>17, <1>18
    DEF CalleeNext

(* The PBX, that challenges an INVITE before the callee knows of it.       *)
LEMMA EndingChallenge ==
  ASSUME EInv, Challenge
  PROVE  Ending'
  <1>1. TypeOK /\ Known /\ Ending /\ Takes("callee", "INVITE")
    BY InvKnown DEF EInv, Inv, Challenge
  <1>2. /\ online' = online /\ drops' = drops /\ late' = late
        /\ "INVITE" \in ToCallee /\ ToCallee' \subseteq ToCallee
        /\ ToCaller \subseteq ToCaller' /\ ToCaller' \subseteq ToCaller \cup {"Challenge"}
    BY <1>1, CalleeAnswers, MessageLists, SetOfLists DEF Challenge, Messages
  <1>3. caller' = caller /\ callee' = callee /\ ~caller.challenged
    BY DEF Challenge
  <1>4. callee.state = "None"
    BY <1>1, <1>2 DEF Known
  <1>5. CalleeShape' /\ Unacked' /\ Acked' /\ InTime' /\ CallerHasDialog' /\ ByeSent'
    BY ONLY <1>1, <1>2, <1>3, <1>4
    DEF Known, Ending, Answered, CalleeShape, Unacked, Acked, InTime, CallerHasDialog,
        ByeSent
  <1>6. /\ Connected' /\ CallerAlone' /\ CalleeAlone' /\ ChallengedOnce' /\ CancelWaits'
        /\ CancelUnderWay'
    BY ONLY <1>1, <1>2, <1>3, <1>4
    DEF Known, Ending, Answered, Connected, CallerAlone, CalleeAlone, ChallengedOnce,
        CancelWaits, CancelUnderWay
  <1>7. QED
    BY <1>5, <1>6 DEF Ending

(* A connection is lost.                                                   *)
LEMMA EndingDisconnect ==
  ASSUME EInv, NEW e \in Ends, Disconnect(e)
  PROVE  Ending'
  <1>1. Known /\ Ending /\ net \in [Ends -> Seq(Messages)]
    BY InvKnown DEF EInv, Inv, TypeOK
  <1>2. /\ net'["caller"] \in {net["caller"], << >>}
        /\ net'["callee"] \in {net["callee"], << >>}
    BY <1>1 DEF Disconnect, Ends
  <1>3. ToCaller' \subseteq ToCaller /\ ToCallee' \subseteq ToCallee
    BY <1>2, SetOfLists DEF ToCaller, ToCallee
  <1>4. caller' = caller /\ callee' = callee /\ late' = late /\ drops' # 0
    BY <1>1 DEF Disconnect, Known
  <1>5. CalleeShape' /\ Unacked' /\ Acked' /\ InTime' /\ CallerHasDialog' /\ ByeSent'
    BY ONLY <1>1, <1>3, <1>4
    DEF Ending, Answered, CalleeShape, Unacked, Acked, InTime, CallerHasDialog,
        ByeSent
  <1>6. /\ Connected' /\ CallerAlone' /\ CalleeAlone' /\ ChallengedOnce' /\ CancelWaits'
        /\ CancelUnderWay'
    BY ONLY <1>1, <1>3, <1>4
    DEF Ending, Connected, CallerAlone, CalleeAlone, ChallengedOnce, CancelWaits,
        CancelUnderWay
  <1>7. QED
    BY <1>5, <1>6 DEF Ending

(* It comes back: it had been lost.                                        *)
LEMMA EndingReconnect ==
  ASSUME EInv, NEW e \in Ends, Reconnect(e)
  PROVE  Ending'
  <1>1. drops # 0
    BY DEF Reconnect, EInv, Ending, Connected
  <1>2. caller' = caller /\ callee' = callee /\ net' = net /\ late' = late /\ drops' = drops
    BY DEF Reconnect
  <1>3. Ending /\ drops' # 0 /\ ToCaller' = ToCaller /\ ToCallee' = ToCallee
    BY <1>1, <1>2 DEF EInv, Ending, ToCaller, ToCallee
  <1>4. CalleeShape' /\ Unacked' /\ Acked' /\ InTime' /\ CallerHasDialog' /\ ByeSent'
    BY ONLY <1>2, <1>3
    DEF Ending, Answered, CalleeShape, Unacked, Acked, InTime, CallerHasDialog,
        ByeSent
  <1>5. /\ Connected' /\ CallerAlone' /\ CalleeAlone' /\ ChallengedOnce' /\ CancelWaits'
        /\ CancelUnderWay'
    BY ONLY <1>2, <1>3
    DEF Ending, Connected, CallerAlone, CalleeAlone, ChallengedOnce, CancelWaits,
        CancelUnderWay
  <1>6. QED
    BY <1>4, <1>5 DEF Ending

LEMMA EndingInitial == Init => Ending
  <1> SUFFICES ASSUME Init PROVE Ending
    OBVIOUS
  <1>1. ToCaller = {} /\ ToCallee = {}
    BY SetOfLists DEF Init, Ends, ToCaller, ToCallee
  <1>2. QED
    BY <1>1
    DEF Init, Ending, Answered, CalleeShape, Unacked, Acked, InTime, CallerHasDialog,
        ByeSent, Connected, CallerAlone, CalleeAlone, ChallengedOnce, CancelWaits,
        CancelUnderWay

LEMMA EndingStep == EInv /\ [Next]_vars => Ending'
  <1> SUFFICES ASSUME EInv, [Next]_vars PROVE Ending'
    OBVIOUS
  <1>1. CASE UNCHANGED vars
    BY <1>1
    DEF EInv, Ending, vars, Answered, CalleeShape, Unacked, Acked, InTime,
        CallerHasDialog, ByeSent, Connected, CallerAlone, CalleeAlone, ChallengedOnce,
        CancelWaits, CancelUnderWay, ToCaller, ToCallee
  <1>2. QED
    BY <1>1, EndingCaller, EndingCallee, EndingChallenge, EndingDisconnect,
       EndingReconnect
    DEF Next

(* The invariant that the theorems rest on holds in every state.           *)
LEMMA EndingCorrect == Spec => []EInv
  <1>1. Spec => []Inv
    BY InvCorrect
  <1>2. Inv /\ Ending /\ [Next]_vars => Ending'
    BY EndingStep DEF EInv
  <1>3. QED
    BY <1>1, <1>2, EndingInitial, PTL DEF Spec, EInv

-----------------------------------------------------------------------------
(* However many connections are lost, a session that is established at an  *)
(* end has its dialog there, so bye() does not throw (Session._bye in      *)
(* sip.js): unless a timer of 32 s expired too early.                      *)
THEOREM HangUpAlwaysPossible == Spec => []HangUpPossible
  <1>1. EInv => HangUpPossible
    BY DEF EInv, Ending, CallerHasDialog, CalleeShape, HangUpPossible
  <1>2. QED
    BY <1>1, EndingCorrect, PTL

(* With nothing lost and nothing on its way, both users are in the call or *)
(* none is, whatever the order of accept, cancel, bye and timers at the    *)
(* two ends (Inviter, Invitation and SessionDialog in sip.js).             *)
THEOREM SettledInTheCallOrOut == Spec => []SettledTogether
  <1>1. EInv => SettledTogether
    <2> SUFFICES ASSUME EInv, drops = 0, ~late, Quiet, ~callee.ackWait
                 PROVE  caller.state = "Established" <=> callee.state = "Established"
      BY DEF SettledTogether
    <2>1. ToCaller = {} /\ ToCallee = {}
      BY QuietEmpty
    <2>2. CASE caller.state = "Established"
      BY <2>1, <2>2 DEF EInv, Ending, CallerAlone, CalleeShape
    <2>3. CASE callee.state = "Established"
      <3>1. caller.acked
        BY <2>3 DEF EInv, Ending, CalleeShape, Unacked
      <3>2. QED
        BY <2>1, <2>3, <3>1 DEF EInv, Ending, CalleeAlone
    <2>4. QED
      BY <2>2, <2>3
  <1>2. QED
    BY <1>1, EndingCorrect, PTL

(* With nothing lost, the callee of a call that was given up does not ring *)
(* on: the CANCEL arrives (Inviter.cancel in sip.js), but for the call     *)
(* given up just before the challenge of the PBX.                          *)
THEOREM GivenUpIsHeard == Spec => []GivenUpHeard
  <1>1. EInv => GivenUpHeard
    BY QuietEmpty DEF EInv, Ending, CancelUnderWay, GivenUpHeard
  <1>2. QED
    BY <1>1, EndingCorrect, PTL

=============================================================================
