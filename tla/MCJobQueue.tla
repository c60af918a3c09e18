----------------------------- MODULE MCJobQueue -----------------------------
(* Small instances of JobQueue: the dependency graphs, the operations the  *)
(* users are given and the symmetries.                                     *)
EXTENDS JobQueue, TLC

CONSTANTS j1, j2, j3

NoParents == [j \in Jobs |-> {}]
Singles   == {{j} : j \in Jobs}

(* j1 is the parent of j2.                                                 *)
ChainParents == [j \in Jobs |-> IF j = j2 THEN {j1} ELSE {}]

(* j3 waits for j1 and for j2.                                             *)
JoinParents  == [j \in Jobs |-> IF j = j3 THEN {j1, j2} ELSE {}]
OneGraph     == {Jobs}

(* The buttons of the form of a job, by the states in which the form shows *)
(* them (views/queue_job_views.xml), and the deletion of resolved rows.    *)
FormOps ==
  {"requeue"} \X {"failed"}
  \cup {"done"} \X {"wait_dependencies", "pending", "enqueued", "failed"}
  \cup {"cancelled"} \X {"pending", "enqueued", "failed"}
  \cup {"delete"} \X {"done", "cancelled", "failed"}

(* The same, but never on a job the runner may be about to dispatch.       *)
CarefulOps == {o \in FormOps : o[2] # "pending"}

(* The wizards take any selection of jobs (wizards/), and the list view    *)
(* deletes any.                                                            *)
AllOps == Operations \X (States \ Absent)

SlotSymmetry == Permutations(Slots)
Symmetry     == Permutations(Slots) \cup Permutations(Jobs)
=============================================================================
