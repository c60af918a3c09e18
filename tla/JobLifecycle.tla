---------------------------- MODULE JobLifecycle -----------------------------
(***************************************************************************)
(* What the author of jobs is promised, whatever the queue does to run     *)
(* them: a job is ready when the jobs it depends on are done, it runs with *)
(* no more jobs next to it than the capacity allows, a run ends in done,   *)
(* failed or another try, and a job that is done or cancelled is never     *)
(* taken up again.  Several jobs may move in one transaction.              *)
(***************************************************************************)
EXTENDS Integers, FiniteSets

CONSTANTS
  Jobs,      \* the jobs
  Parents,   \* [Jobs -> SUBSET Jobs], the jobs each depends on
  Capacity   \* jobs that may run at one time, 0 is unlimited

VARIABLE stage

Stages == {"none", "waiting", "ready", "running", "done", "cancelled", "failed", "deleted"}

Init == stage = [j \in Jobs |-> "none"]

Goes(j, from, to) == stage[j] \in from /\ stage'[j] \in to

(* A parent that was deleted holds nothing back.                           *)
Settled(s, j) == \A p \in Parents[j] : s[p] \in {"done", "deleted"}

Create(j)   == Goes(j, {"none"}, {"waiting"})
Release(j)  == Goes(j, {"none", "waiting"}, {"ready"}) /\ Settled(stage', j)
Start(j)    == Goes(j, {"ready"}, {"running"}) /\ Settled(stage, j)
TryAgain(j) == Goes(j, {"running", "failed"}, {"ready"})
End(j)      == Goes(j, {"running"}, {"done", "failed"})

(* By hand: a job that does not run.                                       *)
Resolve(j)  == Goes(j, {"waiting", "ready", "failed"}, {"done", "cancelled"})
Delete(j)   == Goes(j, {"waiting", "ready", "failed", "done", "cancelled"}, {"deleted"})

Moves(j) ==
  \/ Create(j) \/ Release(j) \/ Start(j) \/ TryAgain(j) \/ End(j)
  \/ Resolve(j) \/ Delete(j)

Fits(s) == Capacity # 0 => Cardinality({j \in Jobs : s[j] = "running"}) <= Capacity

Next ==
  /\ stage' \in [Jobs -> Stages]
  /\ \A j \in Jobs : stage'[j] = stage[j] \/ Moves(j)
  /\ Fits(stage')

Spec == Init /\ [][Next]_stage
=============================================================================
