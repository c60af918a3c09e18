----------------------------- MODULE PhoneCall ------------------------------
(***************************************************************************)
(* What the users of the two ends of a call are promised, whatever the     *)
(* signalling does: an end that dials does not talk before the other has   *)
(* answered, an end answers only a call it has rung for, and a call that   *)
(* is over at one end stays over there.                                    *)
(***************************************************************************)
Ends == {"caller", "callee"}

Phases == {"idle", "ringing", "talking", "over"}

VARIABLES
  phase,    \* what the user of each end sees of the call
  answered  \* the callee has answered

vars == <<phase, answered>>

Init ==
  /\ phase = [e \in Ends |-> "idle"]
  /\ answered = FALSE

Enters(e, p) == phase' = [phase EXCEPT ![e] = p]

Dial ==
  /\ phase["caller"] = "idle"
  /\ Enters("caller", "ringing")
  /\ UNCHANGED answered

(* The invitation may reach the callee when its caller has given up.       *)
Ring ==
  /\ phase["caller"] # "idle" /\ phase["callee"] = "idle"
  /\ Enters("callee", "ringing")
  /\ UNCHANGED answered

Answer ==
  /\ phase["callee"] = "ringing"
  /\ Enters("callee", "talking")
  /\ answered' = TRUE

Connect ==
  /\ phase["caller"] = "ringing" /\ answered
  /\ Enters("caller", "talking")
  /\ UNCHANGED answered

End(e) ==
  /\ phase[e] # "over"
  /\ Enters(e, "over")
  /\ UNCHANGED answered

Next == Dial \/ Ring \/ Answer \/ Connect \/ \E e \in Ends : End(e)

Spec == Init /\ [][Next]_vars
=============================================================================
