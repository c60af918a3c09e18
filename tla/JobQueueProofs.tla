--------------------------- MODULE JobQueueProofs ---------------------------
(***************************************************************************)
(* Theorems about JobQueue, for every set of jobs, graphs, requests,       *)
(* users, operations and faults.  TypeInv and SlotInv hold for all of      *)
(* them; ExecInv and OneExecution for users who do not act on started      *)
(* jobs; LifeInv, and what follows of it about the moves of the rows, the  *)
(* slots, the tries and the release of the dependents, for users who are   *)
(* careful (UsersCareful), with the faults that each theorem names.        *)
(***************************************************************************)
EXTENDS JobQueue, FiniteSetTheorems, TLAPS

(* A request that is not idle and a transaction that is open are about a   *)
(* job, so their row can be read.                                          *)
CallHasJob == \A s \in Slots : call[s].pc # "idle" => call[s].job \in Jobs

TxnHasJob == \A u \in Users : txn[u].op # "none" => txn[u].job \in Jobs

TypeInv == TypeOK /\ CallHasJob /\ TxnHasJob

-----------------------------------------------------------------------------
(* What the helpers return and preserve.                                   *)

(* Marking calls as stale changes nothing else of them.                    *)
LEMMA StaleCalls ==
  ASSUME NEW calls \in [Slots -> Call], NEW js
  PROVE  /\ Stale(calls, js) \in [Slots -> Call]
         /\ \A s \in Slots : /\ Stale(calls, js)[s].pc = calls[s].pc
                             /\ Stale(calls, js)[s].job = calls[s].job
                             /\ Stale(calls, js)[s].thread = calls[s].thread
<1>1. ASSUME NEW c \in Call
      PROVE  [c EXCEPT !.stale = TRUE] \in Call
  BY Zenon DEF Call
<1>2. QED
  BY <1>1 DEF Stale, Call

LEMMA DirtyTxns ==
  ASSUME NEW txns \in [Users -> Txn], NEW js \in SUBSET Jobs
  PROVE  /\ Dirty(txns, js) \in [Users -> Txn]
         /\ \A u \in Users : /\ Dirty(txns, js)[u].op = txns[u].op
                             /\ Dirty(txns, js)[u].job = txns[u].job
                             /\ Dirty(txns, js)[u].snap = txns[u].snap
  BY SMT DEF Dirty, Txn

(* Calls about jobs: what every step has to keep of them.                  *)
AboutJobs(calls) == /\ calls \in [Slots -> Call]
                    /\ \A s \in Slots : calls[s].pc # "idle"
                                          => calls[s].job \in Jobs

(* A transaction that writes rows of the table, told to all who look.      *)
LEMMA StoreTypes ==
  ASSUME TypeInv, NEW j \in Jobs, NEW r \in Row, NEW calls,
         AboutJobs(calls), Store(j, r, calls)
  PROVE  /\ row' \in [Jobs -> Row]
         /\ AboutJobs(call')
         /\ txn' \in [Users -> Txn] /\ TxnHasJob'
         /\ notes' \subseteq Jobs
<1>1. row' \in [Jobs -> Row]
  BY SMT DEF Store, TypeInv, TypeOK
<1>2. AboutJobs(call')
  BY StaleCalls, SMT DEF Store, AboutJobs
<1>3. txn' \in [Users -> Txn] /\ TxnHasJob'
  BY DirtyTxns, SMT DEF Store, TypeInv, TypeOK, TxnHasJob
<1>4. notes' \subseteq Jobs
  BY DEF Store, Notify, TypeInv, TypeOK
<1>5. QED
  BY <1>1, <1>2, <1>3, <1>4

(* The changes that the steps make to one call.                            *)
LEMMA CallChanges ==
  ASSUME TypeInv, NEW s \in Slots
  PROVE  /\ AboutJobs(call)
         /\ AboutJobs([call EXCEPT ![s] = IdleCall])
         /\ AboutJobs([call EXCEPT ![s].thread = FALSE])
         /\ \A p \in Pcs \ {"idle"} : call[s].pc # "idle"
              => AboutJobs([call EXCEPT ![s].pc = p])
<1>1. IdleCall \in Call /\ IdleCall.pc = "idle"
  BY DEF IdleCall, Call, Pcs
<1>2. \A c \in Call : /\ [c EXCEPT !.thread = FALSE] \in Call
                      /\ \A p \in Pcs : [c EXCEPT !.pc = p] \in Call
  BY Zenon DEF Call
<1>3. AboutJobs(call)
  BY DEF AboutJobs, TypeInv, TypeOK, CallHasJob
<1>4. AboutJobs([call EXCEPT ![s] = IdleCall])
  BY <1>1, <1>3 DEF AboutJobs
<1>5. AboutJobs([call EXCEPT ![s].thread = FALSE])
  <2>1. [call EXCEPT ![s].thread = FALSE] \in [Slots -> Call]
    BY <1>2, <1>3, Zenon DEF AboutJobs
  <2>2. QED
    BY <1>3, <2>1, SMT DEF AboutJobs, Call
<1>6. ASSUME NEW p \in Pcs \ {"idle"}, call[s].pc # "idle"
      PROVE  AboutJobs([call EXCEPT ![s].pc = p])
  BY <1>3, <1>6, SMT DEF AboutJobs, Call
<1>7. QED
  BY <1>3, <1>4, <1>5, <1>6

LEMMA PendingStates ==
  ASSUME NEW j, NEW r
  PROVE  PendingState(j, r) \in {"pending", "wait_dependencies"}
  BY DEF PendingState

(* An operation of a user writes no row that a worker or the runner could  *)
(* take for a dispatched one.                                              *)
LEMMA OperationWrites ==
  ASSUME NEW t \in Txn, t.op # "none", t.job \in Jobs
  PROVE  /\ AfterOp(t) \in [Jobs -> Row]
         /\ OpWrites(t) \subseteq Jobs
         /\ \A j \in OpWrites(t) :
              AfterOp(t)[j].state \notin {"enqueued", "started"}
<1> DEFINE set(state) == [t.snap EXCEPT ![t.job].state = state]
           follow == IF t.op = "done" THEN "pending" ELSE "cancelled"
           children == WaitingChildren(t.job, set(t.op), t.op)
<1>1. t.snap \in [Jobs -> Row] /\ t.op \in Operations
  BY DEF Txn
<1>2. CASE t.op = "requeue"
  <2> DEFINE p == PendingState(t.job, t.snap)
  <2>1. p \in {"pending", "wait_dependencies"}
    BY PendingStates
  <2>2. AfterOp(t) = [t.snap EXCEPT ![t.job].state = p, ![t.job].retry = 0]
    BY <1>2 DEF AfterOp
  <2> HIDE DEF p
  <2>3. AfterOp(t) \in [Jobs -> Row] /\ AfterOp(t)[t.job].state = p
    BY <1>1, <2>1, <2>2, SMT DEF Row, States
  <2>4. \A j \in Jobs \ {t.job} : AfterOp(t)[j] = t.snap[j]
    BY <1>1, <2>2, SMT
  <2>5. QED
    BY <2>1, <2>3, <2>4 DEF OpWrites
<1>3. CASE t.op = "delete"
  <2>1. AfterOp(t) = set("deleted")
    BY <1>3 DEF AfterOp
  <2>2. AfterOp(t) \in [Jobs -> Row] /\ AfterOp(t)[t.job].state = "deleted"
    BY <1>1, <2>1, SMT DEF Row, States, Absent
  <2>3. \A j \in Jobs \ {t.job} : AfterOp(t)[j] = t.snap[j]
    BY <1>1, <2>1, SMT
  <2>4. QED
    BY <2>2, <2>3 DEF OpWrites
<1>4. CASE t.op \in {"done", "cancelled"}
  <2>1. AfterOp(t) = [j \in Jobs |-> IF j \in children
                                     THEN [t.snap[j] EXCEPT !.state = follow]
                                     ELSE set(t.op)[j]]
    BY <1>4 DEF AfterOp
  <2> HIDE DEF children
  <2>2. set(t.op) \in [Jobs -> Row] /\ set(t.op)[t.job].state = t.op
    BY <1>1, <1>4, SMT DEF Row, States, Operations
  <2>3. \A j \in Jobs \ {t.job} : set(t.op)[j] = t.snap[j]
    BY <1>1, SMT
  <2> HIDE DEF set
  <2>4. ASSUME NEW j \in Jobs
        PROVE  /\ [t.snap[j] EXCEPT !.state = follow] \in Row
               /\ [t.snap[j] EXCEPT !.state = follow].state = follow
    BY <1>1, SMT DEF Row, States
  <2>5. follow \in {"pending", "cancelled"}
    OBVIOUS
  <2> HIDE DEF follow
  <2>6. AfterOp(t) \in [Jobs -> Row]
    BY <2>1, <2>2, <2>4
  <2>7. QED
    BY <1>4, <2>1, <2>2, <2>3, <2>4, <2>5, <2>6 DEF OpWrites
<1>5. QED
  BY <1>1, <1>2, <1>3, <1>4 DEF Operations

-----------------------------------------------------------------------------
(* Types.                                                                  *)

LEMMA TypeInit == Init => TypeInv
<1>1. NoRow \in Row /\ IdleCall \in Call /\ IdleCall.pc = "idle"
  BY DEF NoRow, Row, States, Absent, IdleCall, Call, Pcs
<1>2. IdleTxn \in Txn /\ IdleTxn.op = "none"
  BY <1>1 DEF IdleTxn, Txn
<1>3. QED
  BY <1>1, <1>2 DEF Init, TypeInv, TypeOK, CallHasJob, TxnHasJob

(* A write of one row that the manager of channels has not seen yet.       *)
LEMMA StoreKeepsTypes ==
  ASSUME TypeInv, NEW j \in Jobs, NEW r \in Row, NEW calls,
         AboutJobs(calls), Store(j, r, calls),
         UNCHANGED <<runnerUp, manager>>, moved' \subseteq Jobs
  PROVE  TypeInv'
<1>1. /\ row' \in [Jobs -> Row] /\ AboutJobs(call')
      /\ txn' \in [Users -> Txn] /\ TxnHasJob' /\ notes' \subseteq Jobs
  BY StoreTypes
<1>2. QED
  BY <1>1 DEF TypeInv, TypeOK, CallHasJob, AboutJobs, manager

(* The thread of a call resets its row, or finds it has moved on.          *)
LEMMA SetJobPendingKeepsTypes ==
  ASSUME TypeInv, NEW j, NEW calls, AboutJobs(calls), SetJobPending(j, calls),
         UNCHANGED <<runnerUp, manager, moved>>
  PROVE  TypeInv'
<1>1. CASE j \in Jobs /\ row[j].state = "enqueued"
  <2>1. [row[j] EXCEPT !.state = "pending"] \in Row
    BY <1>1 DEF TypeInv, TypeOK, Row, States
  <2>2. QED
    BY <1>1, <2>1, StoreKeepsTypes DEF SetJobPending, TypeInv, TypeOK
<1>2. CASE ~(j \in Jobs /\ row[j].state = "enqueued")
  BY <1>2 DEF SetJobPending, TypeInv, TypeOK, CallHasJob, TxnHasJob,
              AboutJobs, manager
<1>3. QED
  BY <1>1, <1>2

LEMMA PostponeKeepsTypes ==
  ASSUME TypeInv, NEW s \in Slots, call[s].pc # "idle", NEW n \in Nat,
         Postpone(s, n)
  PROVE  TypeInv'
<1> DEFINE j == call[s].job
<1>1. j \in Jobs
  BY DEF TypeInv, CallHasJob
<1>2. [state |-> PendingState(j, row), retry |-> n, eta |-> TRUE] \in Row
  BY PendingStates DEF Row, States
<1>3. moved' \subseteq Jobs
  BY <1>1 DEF Postpone, TypeInv, TypeOK
<1>4. QED
  BY <1>1, <1>2, <1>3, CallChanges, StoreKeepsTypes DEF Postpone

LEMMA RunnerKeepsTypes == TypeInv /\ Runner => TypeInv'
<1> SUFFICES ASSUME TypeInv, Runner PROVE TypeInv'
  OBVIOUS
<1> USE DEF TypeInv, TypeOK, CallHasJob, TxnHasJob
<1>1. CASE RunnerStart
  BY <1>1 DEF RunnerStart, Busy
<1>2. CASE RunnerError
  BY <1>2 DEF RunnerError, StopRunner
<1>3. ASSUME NEW j \in Jobs, Notified(j) PROVE TypeInv'
  BY <1>3 DEF Notified
<1>4. ASSUME NEW j \in Jobs, EtaDue(j) PROVE TypeInv'
  BY <1>4 DEF EtaDue
<1>5. ASSUME NEW s \in Slots, NEW j \in Jobs, RunJob(s, j) PROVE TypeInv'
  <2> DEFINE calls == [call EXCEPT ![s].pc = "backlog", ![s].job = j,
                                   ![s].thread = TRUE]
  <2>1. AboutJobs(calls)
    <3>1. \A c \in Call : [c EXCEPT !.pc = "backlog", !.job = j,
                                    !.thread = TRUE] \in Call
      BY Zenon DEF Call, Pcs
    <3>2. calls \in [Slots -> Call]
      BY <3>1
    <3>3. QED
      BY <3>2 DEF AboutJobs, Call
  <2>2. [row[j] EXCEPT !.state = "enqueued"] \in Row
    BY DEF Row, States
  <2>3. queue' \subseteq Jobs /\ running' \subseteq Jobs
        /\ UNCHANGED <<runnerUp, etaQueue, moved>>
    BY <1>5 DEF RunJob
  <2>4. CASE Exists(j)
    <3>1. Store(j, [row[j] EXCEPT !.state = "enqueued"], calls)
      BY <1>5, <2>4 DEF RunJob
    <3>2. /\ row' \in [Jobs -> Row] /\ AboutJobs(call')
          /\ txn' \in [Users -> Txn] /\ TxnHasJob' /\ notes' \subseteq Jobs
      BY <2>1, <2>2, <3>1, StoreTypes
    <3>3. QED
      BY <2>3, <3>2 DEF AboutJobs
  <2>5. CASE ~Exists(j)
    <3>1. call' = calls /\ UNCHANGED <<row, txn, notes>>
      BY <1>5, <2>5 DEF RunJob
    <3>2. QED
      BY <2>1, <2>3, <3>1 DEF AboutJobs
  <2>6. QED
    BY <2>4, <2>5
<1>6. QED
  BY <1>1, <1>2, <1>3, <1>4, <1>5 DEF Runner

LEMMA ThreadKeepsTypes ==
  ASSUME TypeInv, NEW s \in Slots, Thread(s) PROVE TypeInv'
<1>1. CASE CallTimeout(s)
  BY <1>1, CallChanges, SetJobPendingKeepsTypes DEF CallTimeout
<1>2. CASE CallRefused(s)
  BY <1>2, CallChanges, SetJobPendingKeepsTypes DEF CallRefused
<1>3. CASE CallFailed(s)
  BY <1>3, CallChanges, SetJobPendingKeepsTypes DEF CallFailed
<1>4. QED
  BY <1>1, <1>2, <1>3 DEF Thread

LEMMA WorkerKeepsTypes ==
  ASSUME TypeInv, NEW s \in Slots, Worker(s) PROVE TypeInv'
<1> DEFINE j == call[s].job
           idle == [call EXCEPT ![s] = IdleCall]
           next(p) == [call EXCEPT ![s].pc = p]
<1>1. call[s].pc # "idle" => j \in Jobs /\ row[j] \in Row
  BY DEF TypeInv, TypeOK, CallHasJob
<1>2. call[s].retry \in Nat /\ call[s].eta \in BOOLEAN
  BY DEF TypeInv, TypeOK, Call
<1>3. /\ AboutJobs(call) /\ AboutJobs(idle)
      /\ \A p \in Pcs \ {"idle"} : call[s].pc # "idle" => AboutJobs(next(p))
  BY CallChanges
<1>4. CASE StartJob(s)
  <2> DEFINE calls == [call EXCEPT ![s].pc = "started", ![s].retry = row[j].retry,
                                   ![s].eta = row[j].eta]
  <2>1. call[s].pc = "backlog" /\ j \in Jobs /\ row[j] \in Row
    BY <1>1, <1>4 DEF StartJob
  <2>2. AboutJobs(calls)
    <3>1. row[j].retry \in Nat /\ row[j].eta \in BOOLEAN
      BY <2>1 DEF Row
    <3>2. \A c \in Call : [c EXCEPT !.pc = "started", !.retry = row[j].retry,
                                    !.eta = row[j].eta] \in Call
      BY <3>1, Zenon DEF Call, Pcs
    <3>3. calls \in [Slots -> Call]
      BY <1>3, <3>2 DEF AboutJobs
    <3>4. QED
      BY <1>3, <2>1, <3>3 DEF AboutJobs, Call
  <2>3. [row[j] EXCEPT !.state = "started"] \in Row
    BY <2>1 DEF Row, States
  <2>4. Store(j, [row[j] EXCEPT !.state = "started"], calls)
        /\ UNCHANGED <<runnerUp, manager, moved>>
    BY <1>4 DEF StartJob
  <2>5. QED
    BY <2>1, <2>2, <2>3, <2>4, StoreKeepsTypes DEF TypeInv, TypeOK
<1>5. CASE SkipJob(s) \/ BeginPerform(s)
  <2>1. AboutJobs(call')
    BY <1>3, <1>5 DEF SkipJob, BeginPerform, Pcs
  <2>2. QED
    BY <1>5, <2>1 DEF SkipJob, BeginPerform, AboutJobs, TypeInv, TypeOK,
                      CallHasJob, TxnHasJob, manager
<1>6. CASE Outcome(s)
  <2>1. call[s].pc = "performing" /\ j \in Jobs
    BY <1>1, <1>6 DEF Outcome, JobDone, JobRetry, JobRetryIgnored, JobConflict,
                      JobFailed
  <2>2. \A st \in {"done", "failed"} :
          [state |-> st, retry |-> call[s].retry + 1, eta |-> call[s].eta] \in Row
    BY <1>2 DEF Row, States
  <2>3. CASE JobDone(s)
    <3>1. moved' \subseteq Jobs
      BY <2>1, <2>3 DEF JobDone, TypeInv, TypeOK
    <3>2. QED
      BY <1>3, <2>1, <2>2, <2>3, <3>1, StoreKeepsTypes DEF JobDone, Pcs
  <2>4. CASE JobRetry(s) \/ JobConflict(s)
    BY <1>2, <2>1, <2>4, PostponeKeepsTypes DEF JobRetry, JobConflict
  <2>5. CASE JobRetryIgnored(s)
    BY <1>2, <2>1, <2>5, PostponeKeepsTypes DEF JobRetryIgnored
  <2>6. CASE JobFailed(s)
    <3> DEFINE calls == [call EXCEPT ![s] = IF call[s].thread
                                            THEN [@ EXCEPT !.pc = "error"]
                                            ELSE IdleCall]
    <3>1. AboutJobs(calls)
      <4>1. calls = IF call[s].thread THEN next("error") ELSE idle
        BY <1>3 DEF AboutJobs
      <4>2. QED
        BY <1>3, <2>1, <4>1 DEF Pcs
    <3>2. moved' \subseteq Jobs
      BY <2>1, <2>6 DEF JobFailed, TypeInv, TypeOK
    <3>3. QED
      BY <2>1, <2>2, <2>6, <3>1, <3>2, StoreKeepsTypes DEF JobFailed
  <2>7. QED
    BY <1>6, <2>3, <2>4, <2>5, <2>6 DEF Outcome
<1>7. CASE ReleaseDependents(s)
  <2> DEFINE cs == WaitingChildren(j, row, "done")
  <2>1. cs \subseteq Jobs
    BY DEF WaitingChildren
  <2> HIDE DEF cs
  <2>2. /\ row' = [c \in Jobs |-> IF c \in cs
                                  THEN [row[c] EXCEPT !.state = "pending"]
                                  ELSE row[c]]
        /\ call' = Stale(idle, cs) /\ txn' = Dirty(txn, cs) /\ Notify(cs)
        /\ UNCHANGED <<runnerUp, manager, moved>>
    BY <1>7 DEF ReleaseDependents, cs
  <2>3. row' \in [Jobs -> Row]
    BY <2>2 DEF TypeInv, TypeOK, Row, States
  <2>4. AboutJobs(call')
    BY <1>3, <2>2, StaleCalls DEF AboutJobs
  <2>5. txn' \in [Users -> Txn] /\ TxnHasJob'
    BY <2>1, <2>2, DirtyTxns, SMT DEF TypeInv, TypeOK, TxnHasJob
  <2>6. notes' \subseteq Jobs
    BY <2>1, <2>2 DEF Notify, TypeInv, TypeOK
  <2>7. QED
    BY <2>2, <2>3, <2>4, <2>5, <2>6 DEF TypeInv, TypeOK, CallHasJob, AboutJobs,
                                        manager
<1>8. CASE WorkerKilled(s)
  <2>1. UNCHANGED <<runnerUp, manager, moved>>
    BY <1>8 DEF WorkerKilled
  <2>2. CASE call[s].thread
    BY <1>3, <1>8, <2>1, <2>2, SetJobPendingKeepsTypes DEF WorkerKilled
  <2>3. CASE ~call[s].thread
    <3>1. call' = idle /\ UNCHANGED <<row, txn, notes>>
      BY <1>8, <2>3 DEF WorkerKilled
    <3>2. QED
      BY <1>3, <2>1, <3>1 DEF TypeInv, TypeOK, CallHasJob, TxnHasJob, AboutJobs,
                              manager
  <2>4. QED
    BY <2>2, <2>3
<1>9. QED
  BY <1>4, <1>5, <1>6, <1>7, <1>8 DEF Worker

LEMMA CronKeepsTypes == TypeInv /\ Cron => TypeInv'
<1> SUFFICES ASSUME TypeInv, NEW j \in Jobs, RequeueStuck(j) \/ AutoVacuum(j)
             PROVE  TypeInv'
  BY DEF Cron
<1>1. AboutJobs(call)
  BY DEF AboutJobs, TypeInv, TypeOK, CallHasJob
<1>2. CASE RequeueStuck(j)
  <2> DEFINE p == PendingState(j, row)
  <2>1. p \in {"pending", "wait_dependencies"}
    BY PendingStates
  <2>2. /\ Store(j, [row[j] EXCEPT !.state = p, !.retry = 0], call)
        /\ UNCHANGED <<runnerUp, manager, moved>>
    BY <1>2 DEF RequeueStuck
  <2> HIDE DEF p
  <2>3. [row[j] EXCEPT !.state = p, !.retry = 0] \in Row
    BY <2>1 DEF TypeInv, TypeOK, Row, States
  <2>4. QED
    BY <1>1, <2>2, <2>3, StoreKeepsTypes DEF TypeInv, TypeOK
<1>3. CASE AutoVacuum(j)
  <2>1. row' \in [Jobs -> Row]
    BY <1>3 DEF AutoVacuum, TypeInv, TypeOK, Row, States, Absent
  <2>2. AboutJobs(call')
    BY <1>1, <1>3, StaleCalls, SMT DEF AutoVacuum, AboutJobs
  <2>3. txn' \in [Users -> Txn] /\ TxnHasJob'
    BY <1>3, DirtyTxns, SMT DEF AutoVacuum, TypeInv, TypeOK, TxnHasJob
  <2>4. notes' \subseteq Jobs
    BY <1>3 DEF AutoVacuum, Notify, TypeInv, TypeOK
  <2>5. QED
    BY <1>3, <2>1, <2>2, <2>3, <2>4 DEF AutoVacuum, TypeInv, TypeOK, CallHasJob,
                                        AboutJobs, manager
<1>4. QED
  BY <1>2, <1>3

LEMMA UserKeepsTypes ==
  ASSUME TypeInv, NEW u \in Users, User(u) PROVE TypeInv'
<1>1. ASSUME NEW op \in Operations, NEW j \in Jobs, UserBegin(u, op, j)
      PROVE  TypeInv'
  <2>1. [op |-> op, job |-> j, snap |-> row, dirty |-> {}] \in Txn
    BY DEF TypeInv, TypeOK, Txn
  <2>2. txn' \in [Users -> Txn] /\ TxnHasJob'
    BY <1>1, <2>1 DEF UserBegin, TypeInv, TypeOK, TxnHasJob
  <2>3. QED
    BY <1>1, <2>2 DEF UserBegin, TypeInv, TypeOK, CallHasJob, manager
<1>2. NoRow \in Row
  BY DEF NoRow, Row, States, Absent
<1>3. IdleTxn \in Txn /\ IdleTxn.op = "none"
  BY <1>2 DEF IdleTxn, Txn
<1> DEFINE txns == [txn EXCEPT ![u] = IdleTxn]
<1>4. txns \in [Users -> Txn]
      /\ \A v \in Users : txns[v].op # "none" => txns[v].job \in Jobs
  BY <1>3 DEF TypeInv, TypeOK, TxnHasJob
<1>5. CASE UserCommit(u)
  <2> DEFINE t == txn[u]
             js == OpWrites(t)
  <2>1. /\ row' = [j \in Jobs |-> IF j \in js THEN AfterOp(t)[j] ELSE row[j]]
        /\ call' = Stale(call, js) /\ txn' = Dirty(txns, js)
        /\ notes' \subseteq notes \cup js
        /\ UNCHANGED <<runnerUp, manager, moved>>
    BY <1>5 DEF UserCommit, Notify
  <2>2. js \subseteq Jobs /\ AfterOp(t) \in [Jobs -> Row]
    BY <1>5, OperationWrites DEF UserCommit, TypeInv, TypeOK, TxnHasJob
  <2> HIDE DEF js, t, txns
  <2>3. row' \in [Jobs -> Row]
    BY <2>1, <2>2 DEF TypeInv, TypeOK
  <2>4. AboutJobs(call')
    BY <2>1, StaleCalls, SMT DEF AboutJobs, TypeInv, TypeOK, CallHasJob
  <2>5. txn' \in [Users -> Txn] /\ TxnHasJob'
    BY <1>4, <2>1, <2>2, DirtyTxns, SMT DEF TxnHasJob
  <2>6. QED
    BY <2>1, <2>2, <2>3, <2>4, <2>5 DEF TypeInv, TypeOK, CallHasJob, AboutJobs,
                                        manager
<1>6. CASE UserAbort(u)
  BY <1>4, <1>6 DEF UserAbort, TypeInv, TypeOK, CallHasJob, TxnHasJob, manager
<1>7. QED
  BY <1>1, <1>5, <1>6 DEF User

LEMMA TypeStep == TypeInv /\ [Next]_vars => TypeInv'
<1> SUFFICES ASSUME TypeInv, [Next]_vars PROVE TypeInv'
  OBVIOUS
<1>1. ASSUME NEW g \in Graphs, Submit(g) PROVE TypeInv'
  <2>1. g \subseteq Jobs
    BY JobsAssumption
  <2>2. row' \in [Jobs -> Row]
    BY <1>1 DEF Submit, NoRow, Row, States, TypeInv, TypeOK
  <2>3. txn' \in [Users -> Txn] /\ TxnHasJob'
    BY <1>1, <2>1, DirtyTxns, SMT DEF Submit, TypeInv, TypeOK, TxnHasJob
  <2>4. notes' \subseteq Jobs
    BY <1>1, <2>1 DEF Submit, Notify, TypeInv, TypeOK
  <2>5. QED
    BY <1>1, <2>2, <2>3, <2>4 DEF Submit, TypeInv, TypeOK, CallHasJob, manager
<1>2. CASE Runner
  BY <1>2, RunnerKeepsTypes
<1>3. ASSUME NEW s \in Slots, Thread(s) \/ Worker(s) PROVE TypeInv'
  BY <1>3, ThreadKeepsTypes, WorkerKeepsTypes
<1>4. CASE ServerCrash
  <2>1. NoRow \in Row
    BY DEF NoRow, Row, States, Absent
  <2>2. /\ IdleCall \in Call /\ IdleCall.pc = "idle"
        /\ IdleTxn \in Txn /\ IdleTxn.op = "none"
    BY <2>1 DEF IdleCall, Call, Pcs, IdleTxn, Txn
  <2>3. QED
    BY <1>4, <2>2 DEF ServerCrash, StopRunner, TypeInv, TypeOK, CallHasJob,
                      TxnHasJob
<1>5. CASE Cron
  BY <1>5, CronKeepsTypes
<1>6. ASSUME NEW u \in Users, User(u) PROVE TypeInv'
  BY <1>6, UserKeepsTypes
<1>7. CASE UNCHANGED vars
  BY <1>7 DEF vars, manager, TypeInv, TypeOK, CallHasJob, TxnHasJob
<1>8. QED
  BY <1>1, <1>2, <1>3, <1>4, <1>5, <1>6, <1>7 DEF Next

(* Every reachable state is well typed and every request or transaction in *)
(* course is about a job: the code never reads the row of no job, and the  *)
(* count of tries never goes below zero.                                   *)
THEOREM TypeCorrect == Spec => [](TypeOK /\ CallHasJob /\ TxnHasJob)
<1>1. Spec => []TypeInv
  BY TypeInit, TypeStep, PTL DEF Spec
<1>2. QED
  BY <1>1, PTL DEF TypeInv

-----------------------------------------------------------------------------
(* Who changes the rows that hold a slot, and who counts them.             *)

(* A write of rows, none of which is dispatched by it.                     *)
LEMMA PlainWrite ==
  ASSUME NEW js,
         \A j \in Jobs \ js : row'[j] = row[j],
         \A j \in js : row'[j].state \in {"enqueued", "started"}
                         => row[j].state \in {"enqueued", "started"}
  PROVE  Busy' \subseteq Busy
  BY DEF Busy

LEMMA PlainStore ==
  ASSUME TypeInv, NEW j \in Jobs, NEW r, NEW calls, Store(j, r, calls),
         \/ r.state \notin {"enqueued", "started"}
         \/ row[j].state \in {"enqueued", "started"}
  PROVE  Busy' \subseteq Busy
<1>1. row' = [row EXCEPT ![j] = r] /\ row \in [Jobs -> Row]
  BY DEF Store, TypeInv, TypeOK
<1>2. /\ \A i \in Jobs \ {j} : row'[i] = row[i]
      /\ row'[j] = r
  BY <1>1
<1>3. QED
  BY <1>2, PlainWrite

LEMMA PlainReset ==
  ASSUME TypeInv, NEW j, NEW calls, SetJobPending(j, calls)
  PROVE  Busy' \subseteq Busy
<1>1. CASE j \in Jobs /\ row[j].state = "enqueued"
  BY <1>1, PlainStore DEF SetJobPending
<1>2. CASE ~(j \in Jobs /\ row[j].state = "enqueued")
  BY <1>2 DEF SetJobPending, Busy
<1>3. QED
  BY <1>1, <1>2

LEMMA WorkerFreesSlots ==
  ASSUME TypeInv, NEW s \in Slots, Worker(s) PROVE Busy' \subseteq Busy
<1> DEFINE j == call[s].job
<1>1. call[s].pc # "idle" => j \in Jobs
  BY DEF TypeInv, CallHasJob
<1>2. CASE StartJob(s)
  BY <1>1, <1>2, PlainStore DEF StartJob
<1>3. CASE SkipJob(s) \/ BeginPerform(s)
  BY <1>3 DEF SkipJob, BeginPerform, Busy
<1>4. CASE JobDone(s) \/ JobFailed(s)
  BY <1>1, <1>4, PlainStore DEF JobDone, JobFailed
<1>5. CASE JobRetry(s) \/ JobRetryIgnored(s) \/ JobConflict(s)
  <2>1. call[s].pc = "performing" /\ \E n : Postpone(s, n)
    BY <1>5 DEF JobRetry, JobRetryIgnored, JobConflict
  <2>2. QED
    BY <1>1, <2>1, PlainStore, PendingStates DEF Postpone
<1>6. CASE ReleaseDependents(s)
  <2> DEFINE cs == WaitingChildren(j, row, "done")
  <2>1. row' = [c \in Jobs |-> IF c \in cs
                               THEN [row[c] EXCEPT !.state = "pending"]
                               ELSE row[c]]
    BY <1>6 DEF ReleaseDependents
  <2> HIDE DEF cs
  <2>2. \A c \in Jobs : row'[c] = row[c] \/ row'[c].state = "pending"
    BY <2>1 DEF TypeInv, TypeOK, Row
  <2>3. QED
    BY <2>1, <2>2, PlainWrite
<1>7. CASE WorkerKilled(s)
  <2>1. CASE call[s].thread
    BY <1>7, <2>1, PlainReset DEF WorkerKilled
  <2>2. CASE ~call[s].thread
    BY <1>7, <2>2 DEF WorkerKilled, Busy
  <2>3. QED
    BY <2>1, <2>2
<1>8. QED
  BY <1>2, <1>3, <1>4, <1>5, <1>6, <1>7 DEF Worker, Outcome

(* The runner is the only one who fills a slot.                            *)
LEMMA OnlyDispatchFills ==
  ASSUME TypeInv, [Next]_vars, \A s \in Slots, j \in Jobs : ~RunJob(s, j)
  PROVE  Busy' \subseteq Busy
<1>1. ASSUME NEW g \in Graphs, Submit(g) PROVE Busy' \subseteq Busy
  <2>1. /\ \A j \in Jobs \ g : row'[j] = row[j]
        /\ \A j \in g : row'[j].state \notin {"enqueued", "started"}
    BY <1>1, JobsAssumption DEF Submit, NoRow
  <2>2. QED
    BY <2>1, PlainWrite
<1>2. CASE Runner
  BY <1>2 DEF Runner, RunnerStart, RunnerError, Notified, EtaDue, Busy
<1>3. ASSUME NEW s \in Slots, Thread(s) PROVE Busy' \subseteq Busy
  BY <1>3, PlainReset DEF Thread, CallTimeout, CallRefused, CallFailed
<1>4. ASSUME NEW j \in Jobs, RequeueStuck(j) \/ AutoVacuum(j)
      PROVE  Busy' \subseteq Busy
  <2>1. CASE RequeueStuck(j)
    BY <2>1, PlainStore DEF RequeueStuck
  <2>2. CASE AutoVacuum(j)
    <3>1. row' = [row EXCEPT ![j].state = "deleted"] /\ row \in [Jobs -> Row]
      BY <2>2 DEF AutoVacuum, TypeInv, TypeOK
    <3>2. /\ \A i \in Jobs \ {j} : row'[i] = row[i]
          /\ row'[j].state = "deleted"
      BY <3>1 DEF Row
    <3>3. QED
      BY <3>2, PlainWrite
  <2>3. QED
    BY <1>4, <2>1, <2>2
<1>5. ASSUME NEW u \in Users, User(u) PROVE Busy' \subseteq Busy
  <2>1. CASE UserCommit(u)
    <3> DEFINE js == OpWrites(txn[u])
    <3>1. row' = [j \in Jobs |-> IF j \in js THEN AfterOp(txn[u])[j] ELSE row[j]]
      BY <2>1 DEF UserCommit
    <3>2. \A j \in js : j \in Jobs
            /\ AfterOp(txn[u])[j].state \notin {"enqueued", "started"}
      BY <2>1, OperationWrites DEF UserCommit, TypeInv, TypeOK, TxnHasJob
    <3> HIDE DEF js
    <3>3. QED
      BY <3>1, <3>2, PlainWrite
  <2>2. CASE UNCHANGED row
    BY <2>2 DEF Busy
  <2>3. QED
    BY <1>5, <2>1, <2>2 DEF User, UserBegin, UserAbort
<1>6. CASE ServerCrash \/ UNCHANGED vars
  BY <1>6 DEF ServerCrash, vars, Busy
<1>7. QED
  BY <1>1, <1>2, <1>3, <1>4, <1>5, <1>6, WorkerFreesSlots DEF Next, Cron

(* Only the runner changes what the runner knows, but for the stop of the  *)
(* whole server.                                                           *)
LEMMA OnlyRunnerCounts ==
  ASSUME [Next]_vars, ~Runner, ~ServerCrash
  PROVE  UNCHANGED <<runnerUp, queue, etaQueue, running>>
  BY DEF Next, vars, manager, Submit, Thread, CallTimeout, CallRefused, CallFailed,
         Worker, StartJob, SkipJob, BeginPerform, Outcome, JobDone, JobRetry,
         JobRetryIgnored, JobConflict, JobFailed, Postpone, ReleaseDependents,
         WorkerKilled, Cron, RequeueStuck, AutoVacuum, User, UserBegin,
         UserCommit, UserAbort

-----------------------------------------------------------------------------
(* The capacity of the channel.  What the runner counts, running, is not   *)
(* what the property counts, the rows: the invariant says that a runner    *)
(* that is up counts at least the rows, and that whatever it counts, alive *)
(* or restarted, fits the capacity.                                        *)

BusyCounted == runnerUp => Busy \subseteq running

RunningFits == Capacity # 0 => Cardinality(running) <= Capacity

SlotInv == /\ IsFiniteSet(Busy) /\ IsFiniteSet(running)
           /\ CapacityRespected /\ RunningFits /\ BusyCounted

(* A step that dispatches nothing can only free slots.                     *)
LEMMA FewerSlots ==
  ASSUME SlotInv, Busy' \subseteq Busy,
         running' \subseteq running \/ running' \subseteq Busy, BusyCounted'
  PROVE  SlotInv'
<1>1. \A S : \A T \in SUBSET S : IsFiniteSet(S) =>
        /\ IsFiniteSet(T) /\ Cardinality(T) <= Cardinality(S)
        /\ Cardinality(S) \in Nat /\ Cardinality(T) \in Nat
  BY FS_Subset, FS_CardinalityType
<1>2. /\ IsFiniteSet(Busy') /\ Cardinality(Busy') <= Cardinality(Busy)
      /\ Cardinality(Busy') \in Nat /\ Cardinality(Busy) \in Nat
  BY <1>1 DEF SlotInv
<1>3. CASE running' \subseteq running
  <2>1. /\ IsFiniteSet(running') /\ Cardinality(running') <= Cardinality(running)
        /\ Cardinality(running') \in Nat /\ Cardinality(running) \in Nat
    BY <1>1, <1>3 DEF SlotInv
  <2>2. QED
    BY <1>2, <2>1, BoundsAssumption DEF SlotInv, CapacityRespected, RunningFits
<1>4. CASE running' \subseteq Busy
  <2>1. /\ IsFiniteSet(running') /\ Cardinality(running') <= Cardinality(Busy)
        /\ Cardinality(running') \in Nat
    BY <1>1, <1>4 DEF SlotInv
  <2>2. QED
    BY <1>2, <2>1, BoundsAssumption DEF SlotInv, CapacityRespected, RunningFits
<1>5. QED
  BY <1>3, <1>4

(* When the runner fills a slot, the row is counted as well as the job it  *)
(* popped.                                                                 *)
LEMMA DispatchFits ==
  ASSUME TypeInv, SlotInv, NEW s \in Slots, NEW j \in Jobs, RunJob(s, j)
  PROVE  SlotInv'
<1>1. Busy' \subseteq running'
  <2>1. row \in [Jobs -> Row]
    BY DEF TypeInv, TypeOK
  <2>2. \A i \in Jobs \ {j} : row'[i] = row[i]
    BY <2>1 DEF RunJob, Store
  <2>3. QED
    BY <2>2 DEF RunJob, SlotInv, BusyCounted, Busy
<1>2. /\ IsFiniteSet(running')
      /\ Cardinality(running') \in Nat /\ Cardinality(running) \in Nat
      /\ Cardinality(running') <= Cardinality(running) + 1
  <2>1. running' = running \cup {j} /\ IsFiniteSet(running)
    BY DEF RunJob, SlotInv
  <2>2. /\ IsFiniteSet(running \cup {j})
        /\ Cardinality(running \cup {j}) =
             IF j \in running THEN Cardinality(running)
                              ELSE Cardinality(running) + 1
    BY <2>1, FS_AddElement
  <2>3. Cardinality(running) \in Nat
    BY <2>1, FS_CardinalityType
  <2>4. QED
    BY <2>1, <2>2, <2>3
<1>3. RunningFits'
  BY <1>2, BoundsAssumption DEF RunningFits, RunJob, HasCapacity
<1>4. IsFiniteSet(Busy') /\ Cardinality(Busy') <= Cardinality(running')
      /\ Cardinality(Busy') \in Nat
  BY <1>1, <1>2, FS_Subset, FS_CardinalityType
<1>5. QED
  BY <1>1, <1>2, <1>3, <1>4, BoundsAssumption
  DEF SlotInv, BusyCounted, CapacityRespected, RunningFits

LEMMA SlotInit == Init => SlotInv
<1>1. Init => Busy = {} /\ running = {}
  BY DEF Init, Busy, NoRow
<1>2. QED
  BY <1>1, FS_EmptySet, BoundsAssumption
  DEF SlotInv, CapacityRespected, RunningFits, BusyCounted

LEMMA SlotStep == TypeInv /\ SlotInv /\ [Next]_vars => SlotInv'
<1> SUFFICES ASSUME TypeInv, SlotInv, [Next]_vars PROVE SlotInv'
  OBVIOUS
<1>1. ASSUME NEW s \in Slots, NEW j \in Jobs, RunJob(s, j) PROVE SlotInv'
  BY <1>1, DispatchFits
<1>2. CASE RunnerStart
  <2>1. Busy' = Busy /\ running' = Busy
    BY <1>2 DEF RunnerStart, Busy
  <2>2. QED
    BY <2>1, FewerSlots DEF BusyCounted
<1>3. CASE RunnerError \/ ServerCrash
  <2>1. Busy' = Busy /\ running' = {} /\ ~runnerUp'
    BY <1>3 DEF RunnerError, ServerCrash, StopRunner, Busy
  <2>2. QED
    BY <2>1, FewerSlots DEF BusyCounted
<1>4. ASSUME NEW j \in Jobs, Notified(j) \/ EtaDue(j) PROVE SlotInv'
  <2>1. Busy' = Busy /\ UNCHANGED <<row, runnerUp>>
    BY <1>4 DEF Notified, EtaDue, Busy
  <2>2. running' \subseteq running /\ BusyCounted'
    BY <1>4, <2>1 DEF Notified, EtaDue, SlotInv, BusyCounted, Busy
  <2>3. QED
    BY <2>1, <2>2, FewerSlots
<1>5. CASE ~Runner /\ ~ServerCrash
  <2>1. Busy' \subseteq Busy
    BY <1>5, OnlyDispatchFills DEF Runner
  <2>2. UNCHANGED <<runnerUp, running>>
    BY <1>5, OnlyRunnerCounts
  <2>3. QED
    BY <2>1, <2>2, FewerSlots DEF SlotInv, BusyCounted
<1>6. QED
  BY <1>1, <1>2, <1>3, <1>4, <1>5 DEF Runner

(* The rows enqueued or started never outnumber the capacity of the        *)
(* channel: for every number of jobs, requests and users, whatever the     *)
(* users do, whichever requests time out, workers die or runners restart,  *)
(* although the runner only counts its own, late copy of the rows.         *)
THEOREM CapacityTheorem == Spec => []CapacityRespected
<1>1. Init => TypeInv /\ SlotInv
  BY TypeInit, SlotInit
<1>2. TypeInv /\ SlotInv /\ [Next]_vars => (TypeInv /\ SlotInv)'
  BY TypeStep, SlotStep
<1>3. TypeInv /\ SlotInv => CapacityRespected
  BY DEF SlotInv
<1>4. QED
  BY <1>1, <1>2, <1>3, PTL DEF Spec

-----------------------------------------------------------------------------
(* The execution of a job by one worker at a time.  The row of a job being *)
(* executed is started, and only the worker that started it writes it: the *)
(* runner, because the jobs it queues hold no slot; the threads and the    *)
(* cron, because they reset enqueued rows only; the users, because their   *)
(* transactions write what they have seen and do not act on started jobs.  *)

UsersLeaveStartedJobs == \A op \in Operations : <<op, "started">> \notin UserOps

QueuedIdle == /\ queue \cap etaQueue = {}
              /\ (queue \cup etaQueue) \cap Busy = {}

(* What a transaction has seen and nobody has changed since.               *)
Snapshots ==
  \A u \in Users : txn[u].op # "none" =>
    /\ <<txn[u].op, txn[u].snap[txn[u].job].state>> \in UserOps
    /\ \A j \in Jobs \ txn[u].dirty : txn[u].snap[j] = row[j]

ExecStarted ==
  \A s \in Slots : Executing(s) => row[call[s].job].state = "started"

ExecInv == QueuedIdle /\ Snapshots /\ ExecStarted /\ OneExecution

LEMMA QueuedStep == TypeInv /\ QueuedIdle /\ [Next]_vars => QueuedIdle'
<1> SUFFICES ASSUME TypeInv, QueuedIdle, [Next]_vars PROVE QueuedIdle'
  OBVIOUS
<1>1. ASSUME NEW s \in Slots, NEW j \in Jobs, RunJob(s, j) PROVE QueuedIdle'
  <2>1. Busy' \subseteq Busy \cup {j}
    <3>1. \A i \in Jobs \ {j} : row'[i] = row[i]
      BY <1>1 DEF RunJob, Store, TypeInv, TypeOK
    <3>2. QED
      BY <3>1 DEF Busy
  <2>2. queue' = queue \ {j} /\ etaQueue' = etaQueue /\ j \in queue
    BY <1>1 DEF RunJob
  <2>3. QED
    BY <2>1, <2>2 DEF QueuedIdle
<1>2. CASE RunnerStart
  BY <1>2 DEF RunnerStart, QueuedIdle, Busy
<1>3. CASE RunnerError \/ ServerCrash
  BY <1>3 DEF RunnerError, ServerCrash, StopRunner, QueuedIdle
<1>4. ASSUME NEW j \in Jobs, Notified(j) PROVE QueuedIdle'
  BY <1>4 DEF Notified, QueuedIdle, Busy
<1>5. ASSUME NEW j \in Jobs, EtaDue(j) PROVE QueuedIdle'
  BY <1>5 DEF EtaDue, QueuedIdle, Busy
<1>6. CASE ~Runner /\ ~ServerCrash
  <2>1. Busy' \subseteq Busy
    BY <1>6, OnlyDispatchFills DEF Runner
  <2>2. UNCHANGED <<queue, etaQueue>>
    BY <1>6, OnlyRunnerCounts
  <2>3. QED
    BY <2>1, <2>2 DEF QueuedIdle
<1>7. QED
  BY <1>1, <1>2, <1>3, <1>4, <1>5, <1>6 DEF Runner

(* Writes of rows that are told to every open transaction.                 *)
LEMMA SnapshotsKept ==
  ASSUME TypeInv, Snapshots, NEW js \in SUBSET Jobs,
         \A j \in Jobs \ js : row'[j] = row[j],
         NEW txns \in [Users -> Txn],
         \A u \in Users : txns[u] = txn[u] \/ txns[u].op = "none",
         txn' = Dirty(txns, js)
  PROVE  Snapshots'
<1> SUFFICES ASSUME NEW u \in Users, txn'[u].op # "none"
             PROVE  /\ <<txn'[u].op, txn'[u].snap[txn'[u].job].state>> \in UserOps
                    /\ \A j \in Jobs \ txn'[u].dirty : txn'[u].snap[j] = row'[j]
  BY DEF Snapshots
<1>1. /\ txn'[u].op = txns[u].op /\ txn'[u].job = txns[u].job
      /\ txn'[u].snap = txns[u].snap
  BY DirtyTxns
<1>2. txns[u] = txn[u]
  BY <1>1
<1>3. txn'[u].dirty = txn[u].dirty \cup js
  BY <1>1, <1>2 DEF Dirty, Txn
<1>4. QED
  BY <1>1, <1>2, <1>3 DEF Snapshots

LEMMA SnapshotsStored ==
  ASSUME TypeInv, Snapshots, NEW j \in Jobs, NEW r, NEW calls, Store(j, r, calls)
  PROVE  Snapshots'
<1>1. \A i \in Jobs \ {j} : row'[i] = row[i]
  BY DEF Store, TypeInv, TypeOK
<1>2. txn' = Dirty(txn, {j}) /\ txn \in [Users -> Txn]
  BY DEF Store, TypeInv, TypeOK
<1>3. QED
  BY <1>1, <1>2, SnapshotsKept

LEMMA SnapshotsReset ==
  ASSUME TypeInv, Snapshots, NEW j, NEW calls, SetJobPending(j, calls)
  PROVE  Snapshots'
<1>1. CASE j \in Jobs /\ row[j].state = "enqueued"
  BY <1>1, SnapshotsStored DEF SetJobPending
<1>2. CASE ~(j \in Jobs /\ row[j].state = "enqueued")
  BY <1>2 DEF SetJobPending, Snapshots
<1>3. QED
  BY <1>1, <1>2

LEMMA SnapshotsStep == TypeInv /\ Snapshots /\ [Next]_vars => Snapshots'
<1> SUFFICES ASSUME TypeInv, Snapshots, [Next]_vars PROVE Snapshots'
  OBVIOUS
<1>1. ASSUME NEW g \in Graphs, Submit(g) PROVE Snapshots'
  <2>1. /\ g \subseteq Jobs /\ \A j \in Jobs \ g : row'[j] = row[j]
        /\ txn' = Dirty(txn, g) /\ txn \in [Users -> Txn]
    BY <1>1, JobsAssumption DEF Submit, TypeInv, TypeOK
  <2>2. QED
    BY <2>1, SnapshotsKept
<1>2. CASE RunnerStart \/ RunnerError
  BY <1>2 DEF RunnerStart, RunnerError, Snapshots
<1>3. ASSUME NEW j \in Jobs, Notified(j) \/ EtaDue(j) PROVE Snapshots'
  BY <1>3 DEF Notified, EtaDue, Snapshots
<1>4. ASSUME NEW s \in Slots, NEW j \in Jobs, RunJob(s, j) PROVE Snapshots'
  <2>1. CASE Exists(j)
    BY <1>4, <2>1, SnapshotsStored DEF RunJob
  <2>2. CASE ~Exists(j)
    BY <1>4, <2>2 DEF RunJob, Snapshots
  <2>3. QED
    BY <2>1, <2>2
<1>5. ASSUME NEW s \in Slots, Thread(s) PROVE Snapshots'
  BY <1>5, SnapshotsReset DEF Thread, CallTimeout, CallRefused, CallFailed
<1>6. ASSUME NEW s \in Slots, Worker(s) PROVE Snapshots'
  <2> DEFINE j == call[s].job
  <2>1. call[s].pc # "idle" => j \in Jobs
    BY DEF TypeInv, CallHasJob
  <2>2. CASE StartJob(s)
    BY <2>1, <2>2, SnapshotsStored DEF StartJob
  <2>3. CASE SkipJob(s) \/ BeginPerform(s)
    BY <2>3 DEF SkipJob, BeginPerform, Snapshots
  <2>4. CASE JobDone(s) \/ JobFailed(s)
    BY <2>1, <2>4, SnapshotsStored DEF JobDone, JobFailed
  <2>5. CASE JobRetry(s) \/ JobRetryIgnored(s) \/ JobConflict(s)
    BY <2>1, <2>5, SnapshotsStored
    DEF JobRetry, JobRetryIgnored, JobConflict, Postpone
  <2>6. CASE ReleaseDependents(s)
    <3> DEFINE cs == WaitingChildren(j, row, "done")
    <3>1. /\ \A c \in Jobs \ cs : row'[c] = row[c]
          /\ txn' = Dirty(txn, cs) /\ txn \in [Users -> Txn]
          /\ cs \in SUBSET Jobs
      BY <2>6 DEF ReleaseDependents, TypeInv, TypeOK, WaitingChildren
    <3> HIDE DEF cs
    <3>2. QED
      BY <3>1, SnapshotsKept
  <2>7. CASE WorkerKilled(s)
    <3>1. CASE call[s].thread
      BY <2>7, <3>1, SnapshotsReset DEF WorkerKilled
    <3>2. CASE ~call[s].thread
      BY <2>7, <3>2 DEF WorkerKilled, Snapshots
    <3>3. QED
      BY <3>1, <3>2
  <2>8. QED
    BY <1>6, <2>2, <2>3, <2>4, <2>5, <2>6, <2>7 DEF Worker, Outcome
<1>7. ASSUME NEW j \in Jobs, RequeueStuck(j) \/ AutoVacuum(j) PROVE Snapshots'
  <2>1. CASE RequeueStuck(j)
    BY <2>1, SnapshotsStored DEF RequeueStuck
  <2>2. CASE AutoVacuum(j)
    <3>1. /\ \A i \in Jobs \ {j} : row'[i] = row[i]
          /\ txn' = Dirty(txn, {j}) /\ txn \in [Users -> Txn]
      BY <2>2 DEF AutoVacuum, TypeInv, TypeOK
    <3>2. QED
      BY <3>1, SnapshotsKept
  <2>3. QED
    BY <1>7, <2>1, <2>2
<1>8. IdleTxn \in Txn /\ IdleTxn.op = "none"
  <2>1. NoRow \in Row
    BY DEF NoRow, Row, States, Absent
  <2>2. QED
    BY <2>1 DEF IdleTxn, Txn
<1>9. ASSUME NEW u \in Users, User(u) PROVE Snapshots'
  <2>1. ASSUME NEW op \in Operations, NEW j \in Jobs, UserBegin(u, op, j)
        PROVE  Snapshots'
    <3>1. /\ txn' = [txn EXCEPT ![u] = [op |-> op, job |-> j, snap |-> row,
                                        dirty |-> {}]]
          /\ <<op, row[j].state>> \in UserOps /\ row' = row
      BY <2>1 DEF UserBegin
    <3>2. QED
      BY <3>1 DEF Snapshots, TypeInv, TypeOK
  <2> DEFINE txns == [txn EXCEPT ![u] = IdleTxn]
  <2>2. txns \in [Users -> Txn]
        /\ \A v \in Users : txns[v] = txn[v] \/ txns[v].op = "none"
    BY <1>8 DEF TypeInv, TypeOK
  <2>3. CASE UserCommit(u)
    <3> DEFINE js == OpWrites(txn[u])
    <3>1. /\ \A j \in Jobs \ js : row'[j] = row[j]
          /\ txn' = Dirty(txns, js)
      BY <2>3 DEF UserCommit
    <3>2. js \in SUBSET Jobs
      BY <2>3, OperationWrites DEF UserCommit, TypeInv, TypeOK, TxnHasJob
    <3> HIDE DEF js, txns
    <3>3. QED
      BY <2>2, <3>1, <3>2, SnapshotsKept
  <2>4. CASE UserAbort(u)
    BY <2>2, <2>4 DEF UserAbort, Snapshots
  <2>5. QED
    BY <1>9, <2>1, <2>3, <2>4 DEF User
<1>10. CASE ServerCrash
  BY <1>8, <1>10 DEF ServerCrash, Snapshots
<1>11. CASE UNCHANGED vars
  BY <1>11 DEF vars, Snapshots
<1>12. QED
  BY <1>1, <1>2, <1>3, <1>4, <1>5, <1>6, <1>7, <1>9, <1>10, <1>11
  DEF Next, Runner, Cron

(* A worker that executes after the step did so before it, on the same     *)
(* job, whose row is still started.                                        *)
Continues(t) == Executing(t)' => /\ Executing(t) /\ call'[t].job = call[t].job
                                 /\ row'[call[t].job].state = "started"

LEMMA ContinuesKeepsExec ==
  ASSUME ExecStarted, OneExecution, \A t \in Slots : Continues(t)
  PROVE  ExecStarted' /\ OneExecution'
  BY DEF ExecStarted, OneExecution, Continues

(* No more execution in the calls than before.                             *)
NoneStarts(calls) ==
  \A t \in Slots : calls[t].pc \in {"started", "performing"}
                     => Executing(t) /\ calls[t].job = call[t].job

LEMMA ContinuesAfterStore ==
  ASSUME TypeInv, ExecStarted, NEW j \in Jobs, row[j].state # "started",
         NEW r, NEW calls, AboutJobs(calls), NoneStarts(calls),
         Store(j, r, calls), NEW t \in Slots
  PROVE  Continues(t)
<1>1. call'[t].pc = calls[t].pc /\ call'[t].job = calls[t].job
  BY StaleCalls DEF Store, AboutJobs
<1>2. \A i \in Jobs \ {j} : row'[i] = row[i]
  BY DEF Store, TypeInv, TypeOK
<1>3. Executing(t) => call[t].job \in Jobs \ {j}
  BY DEF ExecStarted, Executing, TypeInv, CallHasJob
<1>4. QED
  BY <1>1, <1>2, <1>3 DEF Continues, NoneStarts, Executing, ExecStarted

LEMMA ContinuesAfterReset ==
  ASSUME TypeInv, ExecStarted, NEW j, NEW calls, AboutJobs(calls),
         NoneStarts(calls), SetJobPending(j, calls), NEW t \in Slots
  PROVE  Continues(t)
<1>1. CASE j \in Jobs /\ row[j].state = "enqueued"
  BY <1>1, ContinuesAfterStore DEF SetJobPending
<1>2. CASE ~(j \in Jobs /\ row[j].state = "enqueued")
  BY <1>2 DEF SetJobPending, Continues, NoneStarts, Executing, ExecStarted
<1>3. QED
  BY <1>1, <1>2

(* The calls that the threads and the ends of the workers leave behind.    *)
LEMMA CallsEnd ==
  ASSUME TypeInv, NEW s \in Slots
  PROVE  /\ NoneStarts(call)
         /\ NoneStarts([call EXCEPT ![s] = IdleCall])
         /\ NoneStarts([call EXCEPT ![s].thread = FALSE])
         /\ \A p \in Pcs \ {"started", "performing"} :
              NoneStarts([call EXCEPT ![s].pc = p])
<1>1. call \in [Slots -> Call]
  BY DEF TypeInv, TypeOK
<1>2. NoneStarts(call)
  BY DEF NoneStarts, Executing
<1>3. NoneStarts([call EXCEPT ![s] = IdleCall])
  BY <1>1 DEF NoneStarts, Executing, IdleCall
<1>4. NoneStarts([call EXCEPT ![s].thread = FALSE])
  <2>1. \A c \in Call : /\ [c EXCEPT !.thread = FALSE].pc = c.pc
                        /\ [c EXCEPT !.thread = FALSE].job = c.job
    BY DEF Call
  <2>2. QED
    BY <1>1, <2>1 DEF NoneStarts, Executing
<1>5. \A p \in Pcs \ {"started", "performing"} :
        NoneStarts([call EXCEPT ![s].pc = p])
  BY <1>1, SMT DEF NoneStarts, Executing, Call
<1>6. QED
  BY <1>2, <1>3, <1>4, <1>5

(* A worker writes the row of the job it executes, and ends: by the        *)
(* uniqueness of its execution, no other worker is concerned.              *)
LEMMA ContinuesAfterEnd ==
  ASSUME TypeInv, ExecStarted, OneExecution, NEW s \in Slots, Executing(s),
         NEW r, NEW calls, AboutJobs(calls), NoneStarts(calls),
         calls[s].pc \notin {"started", "performing"},
         Store(call[s].job, r, calls), NEW t \in Slots
  PROVE  Continues(t)
<1>1. call'[t].pc = calls[t].pc /\ call'[t].job = calls[t].job
  BY StaleCalls DEF Store, AboutJobs
<1>2. \A i \in Jobs \ {call[s].job} : row'[i] = row[i]
  BY DEF Store, TypeInv, TypeOK
<1>3. Executing(t) /\ t # s => call[t].job \in Jobs \ {call[s].job}
  BY DEF OneExecution, Executing, TypeInv, CallHasJob
<1>4. QED
  BY <1>1, <1>2, <1>3 DEF Continues, NoneStarts, Executing, ExecStarted

(* The rows that an operation writes are not started.                      *)
LEMMA OperationTargets ==
  ASSUME UsersLeaveStartedJobs, TypeInv, Snapshots, NEW u \in Users,
         UserCommit(u), NEW j \in OpWrites(txn[u])
  PROVE  row[j].state # "started"
<1> DEFINE t == txn[u]
           set(state) == [t.snap EXCEPT ![t.job].state = state]
           children == WaitingChildren(t.job, set(t.op), t.op)
<1>1. /\ t \in Txn /\ t.op # "none" /\ t.job \in Jobs /\ t.op \in Operations
      /\ t.snap \in [Jobs -> Row] /\ j \in Jobs
  BY OperationWrites DEF UserCommit, TypeInv, TypeOK, TxnHasJob, Txn
<1>2. row[j] = t.snap[j]
  BY <1>1 DEF UserCommit, Snapshots
<1>3. CASE j = t.job
  BY <1>1, <1>2, <1>3 DEF Snapshots, UsersLeaveStartedJobs
<1>4. CASE j # t.job
  <2>1. AfterOp(t)[j] # t.snap[j]
    BY <1>4 DEF OpWrites
  <2>2. CASE t.op \in {"requeue", "delete"}
    BY <1>1, <1>4, <2>1, <2>2 DEF AfterOp
  <2>3. CASE t.op \in {"done", "cancelled"}
    <3> DEFINE follow == IF t.op = "done" THEN "pending" ELSE "cancelled"
    <3>1. AfterOp(t) = [i \in Jobs |-> IF i \in children
                                       THEN [t.snap[i] EXCEPT !.state = follow]
                                       ELSE set(t.op)[i]]
      BY <2>3 DEF AfterOp
    <3>2. set(t.op)[j] = t.snap[j]
      BY <1>1, <1>4
    <3>3. j \in children => t.snap[j].state = "wait_dependencies"
      BY <3>2 DEF WaitingChildren
    <3> HIDE DEF children, set, follow
    <3>4. QED
      BY <1>1, <1>2, <2>1, <3>1, <3>2, <3>3
  <2>4. QED
    BY <1>1, <2>2, <2>3 DEF Operations
<1>5. QED
  BY <1>3, <1>4

LEMMA WorkerKeepsExec ==
  ASSUME TypeInv, ExecStarted, OneExecution, NEW s \in Slots, Worker(s)
  PROVE  ExecStarted' /\ OneExecution'
<1> DEFINE j == call[s].job
           idle == [call EXCEPT ![s] = IdleCall]
<1>1. call[s].pc # "idle" => j \in Jobs
  BY DEF TypeInv, CallHasJob
<1>2. AboutJobs(idle) /\ NoneStarts(idle) /\ idle[s].pc = "idle"
  BY CallChanges, CallsEnd DEF IdleCall, TypeInv, TypeOK
<1>3. CASE StartJob(s)
  <2> DEFINE calls == [call EXCEPT ![s].pc = "started", ![s].retry = row[j].retry,
                                   ![s].eta = row[j].eta]
  <2>1. /\ call[s].pc = "backlog" /\ row[j].state = "enqueued" /\ j \in Jobs
        /\ Store(j, [row[j] EXCEPT !.state = "started"], calls)
        /\ row \in [Jobs -> Row] /\ call \in [Slots -> Call]
    BY <1>1, <1>3 DEF StartJob, TypeInv, TypeOK
  <2>2. \A c \in Call : [c EXCEPT !.pc = "started", !.retry = row[j].retry,
                                  !.eta = row[j].eta] \in Call
    <3>1. row[j].retry \in Nat /\ row[j].eta \in BOOLEAN
      BY <2>1 DEF Row
    <3>2. QED
      BY <3>1, Zenon DEF Call, Pcs
  <2>3. calls \in [Slots -> Call]
    BY <2>1, <2>2
  <2> HIDE DEF calls
  <2>4. \A t \in Slots : call'[t].pc = calls[t].pc /\ call'[t].job = calls[t].job
    BY <2>1, <2>3, StaleCalls DEF Store
  <2>5. /\ call'[s].pc = "started" /\ call'[s].job = j
        /\ \A t \in Slots \ {s} : call'[t].pc = call[t].pc
                                  /\ call'[t].job = call[t].job
    <3>1. calls[s].pc = "started" /\ calls[s].job = j
      BY <2>1 DEF calls, Call
    <3>2. \A t \in Slots \ {s} : calls[t] = call[t]
      BY <2>1 DEF calls
    <3>3. QED
      BY <2>4, <3>1, <3>2
  <2>6. /\ row'[j].state = "started"
        /\ \A i \in Jobs \ {j} : row'[i] = row[i]
    BY <2>1 DEF Store, Row
  <2>7. \A t \in Slots \ {s} : Executing(t) => call[t].job \in Jobs \ {j}
    BY <2>1 DEF ExecStarted, Executing, TypeInv, CallHasJob
  <2>8. ExecStarted'
    BY <2>5, <2>6, <2>7 DEF ExecStarted, Executing
  <2>9. OneExecution'
    BY <2>5, <2>7 DEF OneExecution, Executing
  <2>10. QED
    BY <2>8, <2>9
<1>4. CASE SkipJob(s) \/ BeginPerform(s)
  <2>1. \A t \in Slots : Continues(t)
    BY <1>4 DEF SkipJob, BeginPerform, Continues, Executing, ExecStarted, IdleCall,
                TypeInv, TypeOK, Call
  <2>2. QED
    BY <2>1, ContinuesKeepsExec
<1>5. CASE Outcome(s)
  <2>1. call[s].pc = "performing" /\ Executing(s)
    BY <1>5 DEF Outcome, JobDone, JobRetry, JobRetryIgnored, JobConflict, JobFailed,
                Executing
  <2>2. \E r, calls : /\ Store(j, r, calls) /\ AboutJobs(calls)
                      /\ NoneStarts(calls)
                      /\ calls[s].pc \notin {"started", "performing"}
    <3> DEFINE next(p) == [call EXCEPT ![s].pc = p]
    <3>1. \A p \in {"dependents", "error"} :
            AboutJobs(next(p)) /\ NoneStarts(next(p)) /\ next(p)[s].pc = p
      BY <2>1, CallChanges, CallsEnd DEF Pcs, TypeInv, TypeOK, Call
    <3>2. CASE JobDone(s)
      BY <3>1, <3>2 DEF JobDone
    <3>3. CASE JobRetry(s) \/ JobRetryIgnored(s) \/ JobConflict(s)
      BY <1>2, <3>3 DEF JobRetry, JobRetryIgnored, JobConflict, Postpone
    <3>4. CASE JobFailed(s)
      <4>1. [call EXCEPT ![s] = IF call[s].thread THEN [@ EXCEPT !.pc = "error"]
                                ELSE IdleCall]
              = IF call[s].thread THEN next("error") ELSE idle
        BY DEF TypeInv, TypeOK
      <4>2. QED
        BY <1>2, <3>1, <3>4, <4>1 DEF JobFailed
    <3>5. QED
      BY <1>5, <3>2, <3>3, <3>4 DEF Outcome
  <2>3. \A t \in Slots : Continues(t)
    BY <2>1, <2>2, ContinuesAfterEnd
  <2>4. QED
    BY <2>3, ContinuesKeepsExec
<1>6. CASE ReleaseDependents(s)
  <2> DEFINE cs == WaitingChildren(j, row, "done")
  <2>1. /\ row' = [c \in Jobs |-> IF c \in cs
                                  THEN [row[c] EXCEPT !.state = "pending"]
                                  ELSE row[c]]
        /\ call' = Stale(idle, cs)
        /\ \A c \in cs : row[c].state # "started"
    BY <1>6 DEF ReleaseDependents, WaitingChildren
  <2> HIDE DEF cs
  <2>2. \A t \in Slots : call'[t].pc = idle[t].pc /\ call'[t].job = idle[t].job
    BY <1>2, <2>1, StaleCalls DEF AboutJobs
  <2>3. \A t \in Slots : Continues(t)
    BY <1>2, <2>1, <2>2 DEF Continues, NoneStarts, Executing, ExecStarted, TypeInv,
                            CallHasJob
  <2>4. QED
    BY <2>3, ContinuesKeepsExec
<1>7. CASE WorkerKilled(s)
  <2>1. CASE call[s].thread
    BY <1>2, <1>7, <2>1, ContinuesAfterReset, ContinuesKeepsExec DEF WorkerKilled
  <2>2. CASE ~call[s].thread
    <3>1. call' = idle /\ row' = row
      BY <1>7, <2>2 DEF WorkerKilled
    <3>2. \A t \in Slots : Continues(t)
      BY <1>2, <3>1 DEF Continues, NoneStarts, Executing, ExecStarted
    <3>3. QED
      BY <3>2, ContinuesKeepsExec
  <2>3. QED
    BY <2>1, <2>2
<1>8. QED
  BY <1>3, <1>4, <1>5, <1>6, <1>7 DEF Worker

LEMMA ExecStep ==
  ASSUME UsersLeaveStartedJobs, TypeInv, ExecInv, [Next]_vars
  PROVE  ExecStarted' /\ OneExecution'
<1> USE DEF ExecInv
<1>1. ASSUME UNCHANGED call, \A j \in Jobs : row[j].state = "started"
                                             => row'[j].state = "started"
      PROVE  ExecStarted' /\ OneExecution'
  <2>1. \A t \in Slots : Continues(t)
    BY <1>1 DEF Continues, Executing, ExecStarted, TypeInv, CallHasJob
  <2>2. QED
    BY <2>1, ContinuesKeepsExec
<1>2. ASSUME NEW g \in Graphs, Submit(g) PROVE ExecStarted' /\ OneExecution'
  BY <1>1, <1>2 DEF Submit
<1>3. CASE RunnerStart \/ RunnerError \/ \E j \in Jobs : Notified(j) \/ EtaDue(j)
  BY <1>1, <1>3 DEF RunnerStart, RunnerError, Notified, EtaDue
<1>4. ASSUME NEW s \in Slots, NEW j \in Jobs, RunJob(s, j)
      PROVE  ExecStarted' /\ OneExecution'
  <2> DEFINE calls == [call EXCEPT ![s].pc = "backlog", ![s].job = j,
                                   ![s].thread = TRUE]
  <2>1. row[j].state # "started" /\ call[s] = IdleCall
    BY <1>4 DEF RunJob, QueuedIdle, Busy
  <2>2. AboutJobs(calls)
    <3>1. \A c \in Call : [c EXCEPT !.pc = "backlog", !.job = j,
                                    !.thread = TRUE] \in Call
      BY Zenon DEF Call, Pcs
    <3>2. calls \in [Slots -> Call]
      BY <3>1 DEF TypeInv, TypeOK
    <3>3. QED
      BY <3>2 DEF AboutJobs, TypeInv, TypeOK, CallHasJob, Call
  <2>3. NoneStarts(calls)
    <3>1. calls[s].pc = "backlog"
      BY DEF TypeInv, TypeOK, Call
    <3>2. QED
      BY <3>1 DEF NoneStarts, Executing, TypeInv, TypeOK
  <2>4. CASE Exists(j)
    <3>1. Store(j, [row[j] EXCEPT !.state = "enqueued"], calls)
      BY <1>4, <2>4 DEF RunJob
    <3> HIDE DEF calls
    <3>2. \A t \in Slots : Continues(t)
      BY <2>1, <2>2, <2>3, <3>1, ContinuesAfterStore
    <3>3. QED
      BY <3>2, ContinuesKeepsExec
  <2>5. CASE ~Exists(j)
    <3>1. call' = calls /\ row' = row
      BY <1>4, <2>5 DEF RunJob
    <3>2. \A t \in Slots : Continues(t)
      BY <2>3, <3>1 DEF Continues, NoneStarts, Executing, ExecStarted
    <3>3. QED
      BY <3>2, ContinuesKeepsExec
  <2>6. QED
    BY <2>4, <2>5
<1>5. ASSUME NEW s \in Slots, Thread(s) PROVE ExecStarted' /\ OneExecution'
  <2>1. \E j, calls : /\ SetJobPending(j, calls)
                      /\ AboutJobs(calls) /\ NoneStarts(calls)
    BY <1>5, CallChanges, CallsEnd
    DEF Thread, CallTimeout, CallRefused, CallFailed
  <2>2. \A t \in Slots : Continues(t)
    BY <2>1, ContinuesAfterReset
  <2>3. QED
    BY <2>2, ContinuesKeepsExec
<1>6. ASSUME NEW s \in Slots, Worker(s) PROVE ExecStarted' /\ OneExecution'
  BY <1>6, WorkerKeepsExec
<1>7. CASE ServerCrash
  BY <1>7 DEF ServerCrash, IdleCall, ExecStarted, OneExecution, Executing
<1>8. \A js : AboutJobs(call) /\ call \in [Slots -> Call]
              /\ \A t \in Slots : Stale(call, js)[t].pc = call[t].pc
                                  /\ Stale(call, js)[t].job = call[t].job
  BY StaleCalls DEF AboutJobs, TypeInv, TypeOK, CallHasJob
<1>9. ASSUME NEW j \in Jobs, RequeueStuck(j) \/ AutoVacuum(j)
      PROVE  ExecStarted' /\ OneExecution'
  <2>1. CASE RequeueStuck(j)
    <3>1. row[j].state # "started" /\ \E r : Store(j, r, call)
      BY <2>1 DEF RequeueStuck
    <3>2. NoneStarts(call)
      BY DEF NoneStarts, Executing
    <3>3. \A t \in Slots : Continues(t)
      BY <1>8, <3>1, <3>2, ContinuesAfterStore
    <3>4. QED
      BY <3>3, ContinuesKeepsExec
  <2>2. CASE AutoVacuum(j)
    <3>1. /\ \A i \in Jobs : row[i].state = "started"
                               => row'[i].state = "started"
          /\ call' = Stale(call, {j})
      BY <2>2 DEF AutoVacuum, TypeInv, TypeOK
    <3>2. \A t \in Slots : Continues(t)
      BY <1>8, <3>1 DEF Continues, Executing, ExecStarted, TypeInv, CallHasJob
    <3>3. QED
      BY <3>2, ContinuesKeepsExec
  <2>3. QED
    BY <1>9, <2>1, <2>2
<1>10. ASSUME NEW u \in Users, User(u) PROVE ExecStarted' /\ OneExecution'
  <2>1. CASE UserCommit(u)
    <3>1. \A j \in OpWrites(txn[u]) : row[j].state # "started"
      BY <2>1, OperationTargets
    <3>2. /\ \A i \in Jobs : row[i].state = "started"
                               => row'[i].state = "started"
          /\ call' = Stale(call, OpWrites(txn[u]))
      BY <2>1, <3>1 DEF UserCommit
    <3>3. \A t \in Slots : Continues(t)
      BY <1>8, <3>2 DEF Continues, Executing, ExecStarted, TypeInv, CallHasJob
    <3>4. QED
      BY <3>3, ContinuesKeepsExec
  <2>2. CASE UNCHANGED <<row, call>>
    BY <1>1, <2>2
  <2>3. QED
    BY <1>10, <2>1, <2>2 DEF User, UserBegin, UserAbort
<1>11. CASE UNCHANGED vars
  BY <1>1, <1>11 DEF vars
<1>12. QED
  BY <1>2, <1>3, <1>4, <1>5, <1>6, <1>7, <1>9, <1>10, <1>11
  DEF Next, Runner, Cron

(* A job is never executed by two workers at once, whatever requests time  *)
(* out or are refused, workers die, runners restart or jobs are requeued,  *)
(* provided users do not act on jobs that are started, as the form of a    *)
(* job does not let them.                                                  *)
THEOREM OneExecutionTheorem ==
  ASSUME UsersLeaveStartedJobs
  PROVE  Spec => []OneExecution
<1>1. Init => TypeInv /\ ExecInv
  <2>1. Init => ExecInv
    BY DEF Init, IdleCall, IdleTxn, ExecInv, QueuedIdle, Snapshots, ExecStarted,
           OneExecution, Executing
  <2>2. QED
    BY <2>1, TypeInit
<1>2. TypeInv /\ ExecInv /\ [Next]_vars => (TypeInv /\ ExecInv)'
  <2> SUFFICES ASSUME TypeInv, ExecInv, [Next]_vars PROVE (TypeInv /\ ExecInv)'
    OBVIOUS
  <2>1. TypeInv'
    BY TypeStep
  <2>2. QueuedIdle' /\ Snapshots'
    BY QueuedStep, SnapshotsStep DEF ExecInv
  <2>3. ExecStarted' /\ OneExecution'
    BY ExecStep
  <2>4. QED
    BY <2>1, <2>2, <2>3 DEF ExecInv
<1>3. TypeInv /\ ExecInv => OneExecution
  BY DEF ExecInv
<1>4. QED
  BY <1>1, <1>2, <1>3, PTL DEF Spec

-----------------------------------------------------------------------------
(* The life of a row.  When the users neither act on jobs that the runner  *)
(* may be about to dispatch or a worker to store, nor bring back those     *)
(* that are done or cancelled, a row only makes the moves below, whatever  *)
(* times out, dies or restarts.  The runner works on a late copy of the    *)
(* rows: what holds is that the jobs it queues are pending all the same.   *)

UsersCareful ==
  \A op \in Operations, state \in States : <<op, state>> \in UserOps =>
    /\ state \notin {"pending", "started"}
    /\ state \in {"done", "cancelled"} => op = "delete"

Moves ==
  {<<"new", "pending">>, <<"new", "wait_dependencies">>,
   <<"wait_dependencies", "pending">>, <<"wait_dependencies", "done">>,
   <<"wait_dependencies", "cancelled">>, <<"wait_dependencies", "deleted">>,
   <<"pending", "enqueued">>,
   <<"enqueued", "started">>, <<"enqueued", "pending">>, <<"enqueued", "done">>,
   <<"enqueued", "cancelled">>, <<"enqueued", "deleted">>,
   <<"started", "pending">>, <<"started", "done">>, <<"started", "failed">>,
   <<"failed", "pending">>, <<"failed", "done">>, <<"failed", "cancelled">>,
   <<"failed", "deleted">>, <<"done", "deleted">>, <<"cancelled", "deleted">>}

(* A job becomes ready for the first time when its parents are done.       *)
Lives(j) ==
  /\ row'[j].state # row[j].state => <<row[j].state, row'[j].state>> \in Moves
  /\ row[j].state \in {"new", "wait_dependencies"} /\ row'[j].state = "pending" =>
       ParentsIn(j, row', {"done"})

Ready == {"pending", "enqueued", "started", "failed"}

ParentsDoneIn(r) ==
  \A c \in Jobs : r[c].state \in Ready => ParentsIn(c, r, {"done"})

(* What a transaction has seen done is still done, or deleted.             *)
SnapsBehind ==
  \A u \in Users : txn[u].op # "none" =>
    /\ ParentsDoneIn(txn[u].snap)
    /\ txn[u].snap[txn[u].job].state \notin Absent
    /\ txn[u].op = "requeue" => txn[u].snap[txn[u].job].state # "wait_dependencies"
    /\ \A j \in Jobs : txn[u].snap[j].state \in {"done", "deleted"} =>
         row[j].state \in {"done", "deleted"}

ManagerSplit ==
  queue \cap etaQueue = {} /\ (queue \cup etaQueue) \cap running = {}

QueuedPending == \A j \in queue \cup etaQueue : row[j].state = "pending"

RunningSeen == \A j \in running : row[j].state \notin {"new", "wait_dependencies"}

LifeInv ==
  /\ ExecInv /\ ManagerSplit /\ QueuedPending /\ RunningSeen
  /\ ParentsDoneIn(row) /\ SnapsBehind

LEMMA CarefulLeaveStarted == UsersCareful => UsersLeaveStartedJobs
  BY DEF UsersCareful, UsersLeaveStartedJobs, States

(* One row is written, with a state it may go to.                          *)
LEMMA StoreLives ==
  ASSUME TypeInv, NEW i \in Jobs, NEW r, NEW calls, Store(i, r, calls),
         \/ row[i].state = r.state
         \/ /\ <<row[i].state, r.state>> \in Moves
            /\ row[i].state \notin {"new", "wait_dependencies"},
         NEW j \in Jobs
  PROVE  Lives(j)
<1>1. row'[i] = r /\ (j # i => row'[j] = row[j])
  BY DEF Store, TypeInv, TypeOK
<1>2. CASE j = i
  BY <1>1, <1>2 DEF Lives
<1>3. CASE j # i
  BY <1>1, <1>3 DEF Lives
<1>4. QED
  BY <1>2, <1>3

LEMMA ResetLives ==
  ASSUME TypeInv, NEW i, NEW calls, SetJobPending(i, calls), NEW j \in Jobs
  PROVE  Lives(j)
<1>1. CASE i \in Jobs /\ row[i].state = "enqueued"
  <2>1. [row[i] EXCEPT !.state = "pending"].state = "pending"
    BY <1>1 DEF TypeInv, TypeOK, Row
  <2>2. Store(i, [row[i] EXCEPT !.state = "pending"], calls)
    BY <1>1 DEF SetJobPending
  <2>3. QED
    BY <1>1, <2>1, <2>2, StoreLives DEF Moves
<1>2. CASE ~(i \in Jobs /\ row[i].state = "enqueued")
  BY <1>2 DEF SetJobPending, Lives
<1>3. QED
  BY <1>1, <1>2

LEMMA SameRowLives ==
  ASSUME UNCHANGED row, NEW j PROVE Lives(j)
  BY DEF Lives

(* The worker.                                                             *)
LEMMA WorkerLives ==
  ASSUME TypeInv, LifeInv, NEW s \in Slots, Worker(s), NEW j \in Jobs
  PROVE  Lives(j)
<1> DEFINE i == call[s].job
<1>1. call[s].pc # "idle" => i \in Jobs /\ row[i] \in Row
  BY DEF TypeInv, TypeOK, CallHasJob
<1>2. call[s].pc = "performing" => row[i].state = "started"
  BY DEF LifeInv, ExecInv, ExecStarted, Executing
<1>3. CASE StartJob(s)
  <2>1. [row[i] EXCEPT !.state = "started"].state = "started"
    BY <1>1, <1>3 DEF StartJob, Row
  <2>2. QED
    BY <1>1, <1>3, <2>1, StoreLives DEF StartJob, Moves
<1>4. CASE SkipJob(s) \/ BeginPerform(s)
  BY <1>4, SameRowLives DEF SkipJob, BeginPerform
<1>5. CASE JobDone(s) \/ JobFailed(s)
  BY <1>1, <1>2, <1>5, StoreLives DEF JobDone, JobFailed, Moves
<1>6. CASE JobRetry(s) \/ JobRetryIgnored(s) \/ JobConflict(s)
  <2>1. call[s].pc = "performing" /\ \E n : Postpone(s, n)
    BY <1>6 DEF JobRetry, JobRetryIgnored, JobConflict
  <2>2. PendingState(i, row) = "pending"
    BY <1>1, <1>2, <2>1 DEF LifeInv, ParentsDoneIn, PendingState, Ready
  <2>3. QED
    BY <1>1, <1>2, <2>1, <2>2, StoreLives DEF Postpone, Moves
<1>7. CASE ReleaseDependents(s)
  <2> DEFINE cs == WaitingChildren(i, row, "done")
  <2>1. row' = [c \in Jobs |-> IF c \in cs
                               THEN [row[c] EXCEPT !.state = "pending"]
                               ELSE row[c]]
    BY <1>7 DEF ReleaseDependents
  <2>2. /\ \A c \in cs : row[c].state = "wait_dependencies"
                         /\ ParentsIn(c, row, {"done"})
    BY DEF WaitingChildren
  <2> HIDE DEF cs
  <2>3. /\ \A c \in Jobs \cap cs : row'[c].state = "pending"
        /\ \A c \in Jobs \ cs : row'[c] = row[c]
    BY <2>1 DEF TypeInv, TypeOK, Row
  <2>4. \A c \in Jobs \cap cs : ParentsIn(c, row', {"done"})
    BY <2>2, <2>3, JobsAssumption DEF ParentsIn
  <2>5. QED
    BY <2>2, <2>3, <2>4 DEF Lives, Moves
<1>8. CASE WorkerKilled(s)
  <2>1. CASE call[s].thread
    BY <1>8, <2>1, ResetLives DEF WorkerKilled
  <2>2. CASE ~call[s].thread
    BY <1>8, <2>2, SameRowLives DEF WorkerKilled
  <2>3. QED
    BY <2>1, <2>2
<1>9. QED
  BY <1>3, <1>4, <1>5, <1>6, <1>7, <1>8 DEF Worker, Outcome

(* What an operation leaves of the table it has seen: the row of its job,  *)
(* and the children that were waiting for nothing else.                    *)
LEMMA OperationEffect ==
  ASSUME NEW t \in Txn, t.op # "none", t.job \in Jobs
  PROVE  /\ AfterOp(t)[t.job].state = IF t.op = "requeue" THEN PendingState(t.job, t.snap)
                                     ELSE IF t.op = "delete" THEN "deleted" ELSE t.op
         /\ AfterOp(t)[t.job].retry = IF t.op = "requeue" THEN 0 ELSE t.snap[t.job].retry
         /\ \A j \in Jobs \ {t.job} :
              \/ AfterOp(t)[j] = t.snap[j]
              \/ /\ t.op \in {"done", "cancelled"}
                 /\ t.snap[j].state = "wait_dependencies"
                 /\ AfterOp(t)[j].retry = t.snap[j].retry
                 /\ AfterOp(t)[j].state = IF t.op = "done" THEN "pending" ELSE "cancelled"
                 /\ \A p \in Parents[j] \ {t.job} : t.snap[p].state \in {t.op, "deleted"}
<1> DEFINE set(state) == [t.snap EXCEPT ![t.job].state = state]
           follow == IF t.op = "done" THEN "pending" ELSE "cancelled"
           children == WaitingChildren(t.job, set(t.op), t.op)
<1>1. t.snap \in [Jobs -> Row] /\ t.op \in Operations
  BY DEF Txn
<1>2. CASE t.op = "requeue"
  <2> DEFINE p == PendingState(t.job, t.snap)
  <2>1. AfterOp(t) = [t.snap EXCEPT ![t.job].state = p, ![t.job].retry = 0]
    BY <1>2 DEF AfterOp
  <2> HIDE DEF p
  <2>2. AfterOp(t)[t.job].state = p /\ AfterOp(t)[t.job].retry = 0
    BY <1>1, <2>1, SMT DEF Row
  <2>3. \A j \in Jobs \ {t.job} : AfterOp(t)[j] = t.snap[j]
    BY <1>1, <2>1, SMT
  <2>4. QED
    BY <1>2, <2>2, <2>3 DEF p
<1>3. CASE t.op = "delete"
  <2>1. AfterOp(t) = set("deleted")
    BY <1>3 DEF AfterOp
  <2>2. /\ AfterOp(t)[t.job].state = "deleted"
        /\ AfterOp(t)[t.job].retry = t.snap[t.job].retry
    BY <1>1, <2>1, SMT DEF Row
  <2>3. \A j \in Jobs \ {t.job} : AfterOp(t)[j] = t.snap[j]
    BY <1>1, <2>1, SMT
  <2>4. QED
    BY <1>3, <2>2, <2>3
<1>4. CASE t.op \in {"done", "cancelled"}
  <2>1. AfterOp(t) = [j \in Jobs |-> IF j \in children
                                     THEN [t.snap[j] EXCEPT !.state = follow]
                                     ELSE set(t.op)[j]]
    BY <1>4 DEF AfterOp
  <2>2. /\ set(t.op)[t.job].state = t.op /\ set(t.op)[t.job].retry = t.snap[t.job].retry
    BY <1>1, <1>4, SMT DEF Row
  <2>3. \A j \in Jobs \ {t.job} : set(t.op)[j] = t.snap[j]
    BY <1>1, SMT
  <2>4. \A j \in children : /\ set(t.op)[j].state = "wait_dependencies"
                            /\ \A p \in Parents[j] : set(t.op)[p].state \in {t.op, "deleted"}
    BY DEF WaitingChildren, ParentsIn
  <2>5. t.job \notin children
    BY <1>4, <2>2, <2>4
  <2>6. \A j \in Jobs : Parents[j] \subseteq Jobs
    BY JobsAssumption
  <2> HIDE DEF children, set, follow
  <2>7. ASSUME NEW j \in Jobs
        PROVE  /\ [t.snap[j] EXCEPT !.state = follow].state = follow
               /\ [t.snap[j] EXCEPT !.state = follow].retry = t.snap[j].retry
    BY <1>1, SMT DEF Row
  <2>8. AfterOp(t)[t.job] = set(t.op)[t.job]
    BY <2>1, <2>5
  <2>9. ASSUME NEW j \in Jobs \ {t.job}, AfterOp(t)[j] # t.snap[j]
        PROVE  /\ t.snap[j].state = "wait_dependencies"
               /\ AfterOp(t)[j].retry = t.snap[j].retry /\ AfterOp(t)[j].state = follow
               /\ \A p \in Parents[j] \ {t.job} : t.snap[p].state \in {t.op, "deleted"}
    <3>1. j \in children /\ AfterOp(t)[j] = [t.snap[j] EXCEPT !.state = follow]
      BY <2>1, <2>3, <2>9
    <3>2. QED
      BY <2>3, <2>4, <2>6, <2>7, <3>1
  <2>10. QED
    BY <1>4, <2>2, <2>8, <2>9 DEF follow
<1>5. QED
  BY <1>1, <1>2, <1>3, <1>4 DEF Operations

(* The users: what they write has not changed since they saw it.           *)
LEMMA CommitLives ==
  ASSUME UsersCareful, TypeInv, LifeInv, NEW u \in Users, UserCommit(u), NEW j \in Jobs
  PROVE  Lives(j)
<1> DEFINE t == txn[u]
<1>1. /\ t \in Txn /\ t.op # "none" /\ t.job \in Jobs /\ t.op \in Operations
      /\ t.snap \in [Jobs -> Row] /\ t.snap[t.job].state \in States
      /\ OpWrites(t) \subseteq Jobs /\ t.job \in OpWrites(t)
  BY OperationWrites DEF UserCommit, TypeInv, TypeOK, TxnHasJob, Txn, Row, OpWrites
<1>2. \A i \in OpWrites(t) : row[i] = t.snap[i] /\ row'[i] = AfterOp(t)[i]
  BY <1>1 DEF UserCommit, LifeInv, ExecInv, Snapshots
<1>3. \A i \in Jobs \ OpWrites(t) : row'[i] = row[i] /\ AfterOp(t)[i] = t.snap[i]
  BY DEF UserCommit, OpWrites
<1>4. /\ t.snap[t.job].state \notin {"pending", "started"}
      /\ t.snap[t.job].state \in {"done", "cancelled"} => t.op = "delete"
      /\ t.op = "requeue" => t.snap[t.job].state # "wait_dependencies"
      /\ t.snap[t.job].state \notin Absent
  BY <1>1 DEF LifeInv, ExecInv, Snapshots, SnapsBehind, UsersCareful
<1>5. t.op = "requeue" => PendingState(t.job, t.snap) = "pending"
  <2>1. t.op = "requeue" => t.snap[t.job].state \in Ready
    BY <1>1, <1>4 DEF States, Absent, Ready
  <2>2. ParentsDoneIn(t.snap)
    BY <1>1 DEF LifeInv, SnapsBehind
  <2>3. QED
    BY <1>1, <2>1, <2>2 DEF ParentsDoneIn, PendingState
<1>6. AfterOp(t)[t.job].state =
        IF t.op = "requeue" THEN "pending" ELSE IF t.op = "delete" THEN "deleted" ELSE t.op
  BY <1>1, <1>5, OperationEffect
<1>7. \A i \in Jobs \ {t.job} :
        \/ AfterOp(t)[i] = t.snap[i]
        \/ /\ t.op \in {"done", "cancelled"}
           /\ t.snap[i].state = "wait_dependencies"
           /\ AfterOp(t)[i].state = IF t.op = "done" THEN "pending" ELSE "cancelled"
           /\ \A p \in Parents[i] \ {t.job} : t.snap[p].state \in {t.op, "deleted"}
  BY <1>1, OperationEffect
<1>8. \A p \in Jobs : t.snap[p].state \in {"done", "deleted"} =>
                        row[p].state \in {"done", "deleted"}
  BY <1>1 DEF LifeInv, SnapsBehind
<1> HIDE DEF t
<1>9. CASE j \notin OpWrites(t)
  BY <1>3, <1>9 DEF Lives
<1>10. CASE j = t.job
  BY <1>1, <1>2, <1>4, <1>6, <1>10 DEF Lives, Moves, States, Absent, Operations
<1>11. CASE j \in OpWrites(t) /\ j # t.job
  <2>1. \/ row'[j] = row[j]
        \/ /\ row[j].state = "wait_dependencies"
           /\ row'[j].state = IF t.op = "done" THEN "pending" ELSE "cancelled"
           /\ t.op \in {"done", "cancelled"}
           /\ \A p \in Parents[j] \ {t.job} : t.snap[p].state \in {t.op, "deleted"}
    BY <1>2, <1>7, <1>11
  <2>2. CASE row'[j] = row[j]
    BY <2>2 DEF Lives
  <2>3. CASE row'[j] # row[j] /\ t.op = "done"
    <3>1. ASSUME NEW p \in Parents[j] PROVE row'[p].state \in {"done", "deleted"}
      <4>1. p \in Jobs
        BY JobsAssumption
      <4>2. CASE p = t.job
        BY <1>1, <1>2, <1>6, <2>3, <4>2
      <4>3. CASE p # t.job
        <5>1. row[p].state \in {"done", "deleted"} /\ t.snap[p].state \in {"done", "deleted"}
          BY <1>8, <2>1, <2>3, <4>1, <4>3
        <5>2. AfterOp(t)[p] = t.snap[p]
          BY <1>7, <4>1, <4>3, <5>1
        <5>3. QED
          BY <1>2, <1>3, <4>1, <5>1, <5>2
      <4>4. QED
        BY <4>2, <4>3
    <3>2. QED
      BY <2>1, <2>3, <3>1 DEF Lives, Moves, ParentsIn
  <2>4. CASE row'[j] # row[j] /\ t.op = "cancelled"
    BY <2>1, <2>4 DEF Lives, Moves
  <2>5. QED
    BY <2>1, <2>2, <2>3, <2>4
<1>12. QED
  BY <1>9, <1>10, <1>11

LEMMA LivesStep ==
  ASSUME UsersCareful, TypeInv, LifeInv, [Next]_vars, NEW j \in Jobs
  PROVE  Lives(j)
<1>1. ASSUME NEW g \in Graphs, Submit(g) PROVE Lives(j)
  <2>1. CASE j \in g
    <3>1. /\ row[j].state = "new"
          /\ row'[j].state = IF Parents[j] = {} THEN "pending" ELSE "wait_dependencies"
      BY <1>1, <2>1 DEF Submit, NoRow
    <3>2. QED
      BY <3>1 DEF Lives, Moves, ParentsIn
  <2>2. CASE j \notin g
    BY <1>1, <2>2 DEF Submit, Lives
  <2>3. QED
    BY <2>1, <2>2
<1>2. ASSUME NEW s \in Slots, NEW i \in Jobs, RunJob(s, i) PROVE Lives(j)
  <2>1. row[i].state = "pending" /\ [row[i] EXCEPT !.state = "enqueued"].state = "enqueued"
    BY <1>2 DEF RunJob, LifeInv, QueuedPending, TypeInv, TypeOK, Row
  <2>2. Exists(i)
    BY <2>1 DEF Exists, Absent
  <2>3. QED
    BY <1>2, <2>1, <2>2, StoreLives DEF RunJob, Moves
<1>3. CASE RunnerStart \/ RunnerError \/ ServerCrash \/ UNCHANGED vars
           \/ \E i \in Jobs : Notified(i) \/ EtaDue(i)
  BY <1>3, SameRowLives
  DEF RunnerStart, RunnerError, ServerCrash, vars, Notified, EtaDue
<1>4. ASSUME NEW s \in Slots, Thread(s) PROVE Lives(j)
  BY <1>4, ResetLives DEF Thread, CallTimeout, CallRefused, CallFailed
<1>5. ASSUME NEW i \in Jobs, RequeueStuck(i) PROVE Lives(j)
  <2>1. PendingState(i, row) = "pending"
    BY <1>5 DEF RequeueStuck, LifeInv, ParentsDoneIn, PendingState, Ready
  <2>2. [row[i] EXCEPT !.state = "pending", !.retry = 0].state = "pending"
    BY DEF TypeInv, TypeOK, Row
  <2>3. QED
    BY <1>5, <2>1, <2>2, StoreLives DEF RequeueStuck, Moves
<1>6. ASSUME NEW i \in Jobs, AutoVacuum(i) PROVE Lives(j)
  BY <1>6 DEF AutoVacuum, Lives, Moves, TypeInv, TypeOK, Row
<1>7. ASSUME NEW u \in Users, User(u) PROVE Lives(j)
  BY <1>7, CommitLives, SameRowLives DEF User, UserBegin, UserAbort
<1>8. QED
  BY <1>1, <1>2, <1>3, <1>4, <1>5, <1>6, <1>7, WorkerLives DEF Next, Runner, Cron

(* What follows of the moves of the rows.                                  *)
LEMMA LivesKeepsParents ==
  ASSUME TypeInv', ParentsDoneIn(row), \A j \in Jobs : Lives(j)
  PROVE  /\ ParentsDoneIn(row')
         /\ \A j \in Jobs : row[j].state \in {"done", "deleted"} =>
                              row'[j].state \in {"done", "deleted"}
<1>1. \A j \in Jobs : row[j].state \in {"done", "deleted"} =>
                        row'[j].state \in {"done", "deleted"}
  BY DEF Lives, Moves
<1>2. ASSUME NEW c \in Jobs, row'[c].state \in Ready
      PROVE  ParentsIn(c, row', {"done"})
  <2>1. CASE row[c].state \in Ready
    <3>1. ParentsIn(c, row, {"done"})
      BY <2>1 DEF ParentsDoneIn
    <3>2. QED
      BY <1>1, <3>1, JobsAssumption DEF ParentsIn
  <2>2. CASE row[c].state \notin Ready
    <3>1. row[c].state \in {"new", "wait_dependencies"} /\ row'[c].state = "pending"
      BY <1>2, <2>2 DEF Lives, Moves, Ready
    <3>2. QED
      BY <3>1 DEF Lives
  <2>3. QED
    BY <2>1, <2>2
<1>3. QED
  BY <1>1, <1>2 DEF ParentsDoneIn

(* A transaction that is open was so, with the same snapshot, or begins.   *)
LEMMA OpenBefore ==
  ASSUME TypeInv, [Next]_vars, NEW u \in Users, txn'[u].op # "none"
  PROVE  \/ /\ txn[u].op # "none" /\ txn'[u].op = txn[u].op
            /\ txn'[u].job = txn[u].job /\ txn'[u].snap = txn[u].snap
         \/ /\ row' = row /\ txn'[u].snap = row /\ Exists(txn'[u].job)
            /\ txn'[u].op = "requeue" => row[txn'[u].job].state # "wait_dependencies"
<1> DEFINE Same == /\ txn[u].op # "none" /\ txn'[u].op = txn[u].op
                   /\ txn'[u].job = txn[u].job /\ txn'[u].snap = txn[u].snap
           Marked == \E js \in SUBSET Jobs : txn' = Dirty(txn, js)
<1>1. Marked => Same
  BY DirtyTxns DEF TypeInv, TypeOK
<1>2. UNCHANGED txn => Same
  OBVIOUS
<1>3. ASSUME NEW j, NEW calls, SetJobPending(j, calls) PROVE Same
  BY <1>1, <1>2, <1>3 DEF SetJobPending, Store
<1>4. ASSUME NEW g \in Graphs, Submit(g) PROVE Same
  BY <1>1, <1>4, JobsAssumption DEF Submit
<1>5. CASE Runner
  BY <1>1, <1>2, <1>5 DEF Runner, RunnerStart, RunnerError, Notified, EtaDue, RunJob, Store
<1>6. ASSUME NEW s \in Slots, Thread(s) PROVE Same
  BY <1>3, <1>6 DEF Thread, CallTimeout, CallRefused, CallFailed
<1>7. ASSUME NEW s \in Slots, Worker(s) PROVE Same
  <2>1. call[s].pc # "idle" => call[s].job \in Jobs
    BY DEF TypeInv, CallHasJob
  <2>2. CASE StartJob(s)
    BY <1>1, <2>1, <2>2 DEF StartJob, Store
  <2>3. CASE SkipJob(s) \/ BeginPerform(s)
    BY <1>2, <2>3 DEF SkipJob, BeginPerform
  <2>4. CASE Outcome(s)
    <3>1. call[s].pc = "performing" /\ \E r, calls : Store(call[s].job, r, calls)
      BY <2>4 DEF Outcome, JobDone, JobRetry, JobRetryIgnored, JobConflict, JobFailed,
                  Postpone
    <3>2. QED
      BY <1>1, <2>1, <3>1 DEF Store
  <2>5. CASE ReleaseDependents(s)
    BY <1>1, <2>5 DEF ReleaseDependents, WaitingChildren
  <2>6. CASE WorkerKilled(s)
    BY <1>2, <1>3, <2>6 DEF WorkerKilled
  <2>7. QED
    BY <1>7, <2>2, <2>3, <2>4, <2>5, <2>6 DEF Worker
<1>8. CASE Cron
  BY <1>1, <1>8 DEF Cron, RequeueStuck, AutoVacuum, Store
<1>9. ASSUME NEW v \in Users, User(v)
      PROVE  \/ Same
             \/ /\ row' = row /\ txn'[u].snap = row /\ Exists(txn'[u].job)
                /\ txn'[u].op = "requeue" => row[txn'[u].job].state # "wait_dependencies"
  <2>1. ASSUME NEW op \in Operations, NEW j \in Jobs, UserBegin(v, op, j)
        PROVE  \/ Same
               \/ /\ row' = row /\ txn'[u].snap = row /\ Exists(txn'[u].job)
                  /\ txn'[u].op = "requeue" => row[txn'[u].job].state # "wait_dependencies"
    <3>1. CASE v = u
      BY <2>1, <3>1 DEF UserBegin, TypeInv, TypeOK
    <3>2. CASE v # u
      BY <2>1, <3>2 DEF UserBegin, TypeInv, TypeOK
    <3>3. QED
      BY <3>1, <3>2
  <2>2. NoRow \in Row
    BY DEF NoRow, Row, States, Absent
  <2>3. IdleTxn \in Txn /\ IdleTxn.op = "none"
    BY <2>2 DEF IdleTxn, Txn
  <2> DEFINE txns == [txn EXCEPT ![v] = IdleTxn]
  <2>4. txns \in [Users -> Txn] /\ (u # v => txns[u] = txn[u])
        /\ (u = v => txns[u].op = "none")
    BY <2>3 DEF TypeInv, TypeOK
  <2>5. CASE UserCommit(v)
    <3> DEFINE js == OpWrites(txn[v])
    <3>1. txn' = Dirty(txns, js)
      BY <2>5 DEF UserCommit
    <3>2. js \in SUBSET Jobs
      BY <2>5, OperationWrites DEF UserCommit, TypeInv, TypeOK, TxnHasJob
    <3> HIDE DEF js, txns
    <3>3. /\ txn'[u].op = txns[u].op /\ txn'[u].job = txns[u].job
          /\ txn'[u].snap = txns[u].snap
      BY <2>4, <3>1, <3>2, DirtyTxns
    <3>4. QED
      BY <2>4, <3>3
  <2>6. CASE UserAbort(v)
    BY <2>4, <2>6 DEF UserAbort
  <2>7. QED
    BY <1>9, <2>1, <2>5, <2>6 DEF User
<1>10. CASE ServerCrash
  BY <1>10 DEF ServerCrash, IdleTxn
<1>11. CASE UNCHANGED vars
  BY <1>2, <1>11 DEF vars
<1>12. QED
  BY <1>4, <1>5, <1>6, <1>7, <1>8, <1>9, <1>10, <1>11 DEF Next

LEMMA SnapsStep ==
  ASSUME TypeInv, TypeInv', LifeInv, [Next]_vars, \A j \in Jobs : Lives(j)
  PROVE  SnapsBehind'
<1> SUFFICES ASSUME NEW u \in Users, txn'[u].op # "none"
             PROVE  /\ ParentsDoneIn(txn'[u].snap)
                    /\ txn'[u].snap[txn'[u].job].state \notin Absent
                    /\ txn'[u].op = "requeue" =>
                         txn'[u].snap[txn'[u].job].state # "wait_dependencies"
                    /\ \A j \in Jobs : txn'[u].snap[j].state \in {"done", "deleted"} =>
                         row'[j].state \in {"done", "deleted"}
  BY DEF SnapsBehind
<1>1. \A j \in Jobs : row[j].state \in {"done", "deleted"} =>
                        row'[j].state \in {"done", "deleted"}
  BY LivesKeepsParents DEF LifeInv
<1>2. CASE /\ txn[u].op # "none" /\ txn'[u].op = txn[u].op
           /\ txn'[u].job = txn[u].job /\ txn'[u].snap = txn[u].snap
  BY <1>1, <1>2 DEF LifeInv, SnapsBehind
<1>3. CASE /\ row' = row /\ txn'[u].snap = row /\ Exists(txn'[u].job)
           /\ txn'[u].op = "requeue" => row[txn'[u].job].state # "wait_dependencies"
  BY <1>3 DEF LifeInv, Exists
<1>4. QED
  BY <1>2, <1>3, OpenBefore

(* What the runner knows.                                                  *)
LEMMA ManagerStep ==
  ASSUME TypeInv, LifeInv, [Next]_vars, \A j \in Jobs : Lives(j)
  PROVE  ManagerSplit' /\ QueuedPending' /\ RunningSeen'
<1> USE DEF LifeInv
<1>1. \A j \in Jobs : row'[j].state \in {"new", "wait_dependencies"} =>
                        row[j].state \in {"new", "wait_dependencies"}
  BY DEF Lives, Moves
<1>2. queue \subseteq Jobs /\ etaQueue \subseteq Jobs /\ running \subseteq Jobs
  BY DEF TypeInv, TypeOK
<1>3. ASSUME NEW s \in Slots, NEW j \in Jobs, RunJob(s, j)
      PROVE  ManagerSplit' /\ QueuedPending' /\ RunningSeen'
  <2>1. row[j].state = "pending" /\ \A i \in Jobs \ {j} : row'[i] = row[i]
    BY <1>3 DEF RunJob, Store, QueuedPending, TypeInv, TypeOK
  <2>2. /\ queue' = queue \ {j} /\ running' = running \cup {j} /\ etaQueue' = etaQueue
        /\ j \in queue
    BY <1>3 DEF RunJob
  <2>3. ManagerSplit' /\ QueuedPending'
    BY <1>2, <2>1, <2>2 DEF ManagerSplit, QueuedPending
  <2>4. RunningSeen'
    BY <1>1, <1>2, <2>1, <2>2 DEF RunningSeen
  <2>5. QED
    BY <2>3, <2>4
<1>4. CASE RunnerStart
  BY <1>4 DEF RunnerStart, Busy, ManagerSplit, QueuedPending, RunningSeen
<1>5. CASE RunnerError \/ ServerCrash
  BY <1>5 DEF RunnerError, ServerCrash, StopRunner, ManagerSplit, QueuedPending, RunningSeen
<1>6. ASSUME NEW j \in Jobs, Notified(j)
      PROVE  ManagerSplit' /\ QueuedPending' /\ RunningSeen'
  BY <1>6 DEF Notified, ManagerSplit, QueuedPending, RunningSeen
<1>7. ASSUME NEW j \in Jobs, EtaDue(j)
      PROVE  ManagerSplit' /\ QueuedPending' /\ RunningSeen'
  BY <1>7 DEF EtaDue, ManagerSplit, QueuedPending, RunningSeen
<1>8. CASE ~Runner /\ ~ServerCrash
  <2>1. UNCHANGED <<queue, etaQueue, running>>
    BY <1>8, OnlyRunnerCounts
  <2>2. Busy' \subseteq Busy
    BY <1>8, OnlyDispatchFills DEF Runner
  <2>3. \A j \in Jobs : row[j].state = "pending" => row'[j].state = "pending"
    BY <2>2 DEF Lives, Moves, Busy
  <2>4. QED
    BY <1>1, <1>2, <2>1, <2>3 DEF ManagerSplit, QueuedPending, RunningSeen
<1>9. QED
  BY <1>3, <1>4, <1>5, <1>6, <1>7, <1>8 DEF Runner

LEMMA LifeInit == Init => LifeInv
<1> SUFFICES ASSUME Init PROVE LifeInv
  OBVIOUS
<1>1. ExecInv
  BY DEF Init, IdleCall, IdleTxn, ExecInv, QueuedIdle, Snapshots, ExecStarted,
         OneExecution, Executing
<1>2. QED
  BY <1>1 DEF Init, LifeInv, ManagerSplit, QueuedPending, RunningSeen, ParentsDoneIn,
              Ready, SnapsBehind, IdleTxn, NoRow

LEMMA LifeStep ==
  ASSUME UsersCareful, TypeInv, LifeInv, [Next]_vars
  PROVE  TypeInv' /\ LifeInv' /\ \A j \in Jobs : Lives(j)
<1>1. TypeInv' /\ \A j \in Jobs : Lives(j)
  BY TypeStep, LivesStep
<1>2. ExecInv'
  BY QueuedStep, SnapshotsStep, ExecStep, CarefulLeaveStarted DEF LifeInv, ExecInv
<1>3. ManagerSplit' /\ QueuedPending' /\ RunningSeen'
  BY <1>1, ManagerStep
<1>4. ParentsDoneIn(row')
  BY <1>1, LivesKeepsParents DEF LifeInv
<1>5. SnapsBehind'
  BY <1>1, SnapsStep
<1>6. ParentsDoneIn(row)'
  BY <1>4 DEF ParentsDoneIn, ParentsIn
<1>7. QED
  BY <1>1, <1>2, <1>3, <1>5, <1>6 DEF LifeInv

LEMMA LifeCorrect ==
  ASSUME UsersCareful
  PROVE  Spec => [](TypeInv /\ LifeInv)
<1>1. TypeInv /\ LifeInv /\ [Next]_vars => (TypeInv /\ LifeInv)'
  BY LifeStep
<1>2. QED
  BY <1>1, TypeInit, LifeInit, PTL DEF Spec

(* A job that is done or cancelled stays so until its row is deleted:      *)
(* whatever the runner dispatches from its late copy, however late the     *)
(* answers of the workers are, if the users are careful (Job.set_done,     *)
(* runner.py, runjob of controllers/main.py).                              *)
THEOREM ResolvedIsFinalTheorem ==
  ASSUME UsersCareful
  PROVE  Spec => ResolvedIsFinal
<1>1. TypeInv /\ LifeInv /\ [Next]_vars =>
        [\A j \in Jobs : row[j].state \in {"done", "cancelled"} =>
           row'[j].state \in {row[j].state, "deleted"}]_vars
  <2> SUFFICES ASSUME TypeInv, LifeInv, [Next]_vars, NEW j \in Jobs,
                      row[j].state \in {"done", "cancelled"}
               PROVE  row'[j].state \in {row[j].state, "deleted"}
    OBVIOUS
  <2>1. Lives(j)
    BY LifeStep
  <2>2. QED
    BY <2>1 DEF Lives, Moves
<1>2. QED
  BY <1>1, LifeCorrect, PTL DEF Spec, ResolvedIsFinal

(* A job starts only when the parents it still has are done, through any   *)
(* retries, restarts and requeues (Job.enqueue_waiting, PendingState).     *)
THEOREM ParentsFirstTheorem ==
  ASSUME UsersCareful
  PROVE  Spec => ParentsFirst
<1>1. TypeInv /\ LifeInv /\ [Next]_vars =>
        [\A c \in Jobs : row[c].state # "started" /\ row'[c].state = "started" =>
           ParentsIn(c, row, {"done"})]_vars
  <2> SUFFICES ASSUME TypeInv, LifeInv, [Next]_vars, NEW c \in Jobs,
                      row[c].state # "started", row'[c].state = "started"
               PROVE  ParentsIn(c, row, {"done"})
    OBVIOUS
  <2>1. Lives(c)
    BY LifeStep
  <2>2. row[c].state \in Ready
    BY <2>1 DEF Lives, Moves, Ready
  <2>3. QED
    BY <2>2 DEF LifeInv, ParentsDoneIn
<1>2. QED
  BY <1>1, LifeCorrect, PTL DEF Spec, ParentsFirst

(* Row by row, what a step does is a step of JobLifecycle or nothing.      *)
LEMMA Stagings ==
  /\ StageOf("new") = "none" /\ StageOf("wait_dependencies") = "waiting"
  /\ StageOf("pending") = "ready" /\ StageOf("enqueued") = "ready"
  /\ StageOf("started") = "running" /\ StageOf("done") = "done"
  /\ StageOf("cancelled") = "cancelled" /\ StageOf("failed") = "failed"
  /\ StageOf("deleted") = "deleted"
BY DEF StageOf

(* The instance counts as FiniteSets does.                                 *)
LEMMA SameCount == \A S : Life!Cardinality(S) = Cardinality(S)
BY Zenon DEF Life!Cardinality, Cardinality

LEMMA StageIs ==
  /\ DOMAIN Stage = Jobs /\ \A j \in Jobs : Stage[j] = StageOf(row[j].state)
  /\ DOMAIN Stage' = Jobs /\ \A j \in Jobs : Stage'[j] = StageOf(row'[j].state)
BY DEF Stage

LEMMA ParentsSettled ==
  ASSUME NEW j \in Jobs, NEW r, ParentsIn(j, r, {"done"})
  PROVE  \A p \in Parents[j] : p \in Jobs /\ StageOf(r[p].state) \in {"done", "deleted"}
<1>1. \A p \in Parents[j] : p \in Jobs /\ r[p].state \in {"done", "deleted"}
  BY JobsAssumption DEF ParentsIn
<1>2. QED
  BY <1>1, Stagings

LEMMA LivesMoves ==
  ASSUME TypeInv, LifeInv, NEW j \in Jobs, Lives(j)
  PROVE  Stage'[j] = Stage[j] \/ Life!Moves(j)
<1> DEFINE a == row[j].state
           b == row'[j].state
<1>1. Stage[j] = StageOf(a) /\ Stage'[j] = StageOf(b)
  BY StageIs
<1>2. CASE b = a
  BY <1>1, <1>2
<1>3. CASE b = "pending" /\ a \in {"new", "wait_dependencies"}
  <2>1. ParentsIn(j, row', {"done"})
    BY <1>3 DEF Lives
  <2>2. \A p \in Parents[j] : Stage'[p] \in {"done", "deleted"}
    BY <2>1, ParentsSettled, StageIs
  <2>3. Stage[j] \in {"none", "waiting"} /\ Stage'[j] \in {"ready"}
    BY <1>1, <1>3, Stagings
  <2>4. Life!Release(j)
    BY <2>2, <2>3 DEF Life!Release, Life!Goes, Life!Settled
  <2>5. QED
    BY <2>4 DEF Life!Moves
<1>4. CASE a = "enqueued" /\ b = "started"
  <2>1. ParentsIn(j, row, {"done"})
    BY <1>4 DEF LifeInv, ParentsDoneIn, Ready
  <2>2. \A p \in Parents[j] : Stage[p] \in {"done", "deleted"}
    BY <2>1, ParentsSettled, StageIs
  <2>3. Stage[j] \in {"ready"} /\ Stage'[j] \in {"running"}
    BY <1>1, <1>4, Stagings
  <2>4. Life!Start(j)
    BY <2>2, <2>3 DEF Life!Start, Life!Goes, Life!Settled
  <2>5. QED
    BY <2>4 DEF Life!Moves
<1>5. CASE /\ b # a
           /\ ~(b = "pending" /\ a \in {"new", "wait_dependencies"})
           /\ ~(a = "enqueued" /\ b = "started")
  <2>1. <<a, b>> \in Moves
    BY <1>5 DEF Lives
  <2>2. \/ a \in {"pending", "enqueued"} /\ b \in {"pending", "enqueued"}
        \/ a = "new" /\ b = "wait_dependencies"
        \/ a \in {"started", "failed"} /\ b = "pending"
        \/ a = "started" /\ b \in {"done", "failed"}
        \/ a \in {"wait_dependencies", "enqueued", "failed"} /\ b \in {"done", "cancelled"}
        \/ /\ a \in {"wait_dependencies", "enqueued", "failed", "done", "cancelled"}
           /\ b = "deleted"
    BY <1>5, <2>1 DEF Moves
  <2> HIDE DEF a, b
  <2>3. \/ Stage'[j] = Stage[j]
        \/ Stage[j] = "none" /\ Stage'[j] = "waiting"
        \/ Stage[j] \in {"running", "failed"} /\ Stage'[j] = "ready"
        \/ Stage[j] = "running" /\ Stage'[j] \in {"done", "failed"}
        \/ Stage[j] \in {"waiting", "ready", "failed"} /\ Stage'[j] \in {"done", "cancelled"}
        \/ /\ Stage[j] \in {"waiting", "ready", "failed", "done", "cancelled"}
           /\ Stage'[j] = "deleted"
    BY <1>1, <2>2, Stagings
  <2>4. QED
    BY <2>3 DEF Life!Moves, Life!Create, Life!TryAgain, Life!End, Life!Resolve,
                Life!Delete, Life!Goes
<1>6. QED
  BY <1>2, <1>3, <1>4, <1>5

LEMMA StageStep ==
  ASSUME UsersCareful, TypeInv, LifeInv, SlotInv, [Next]_vars
  PROVE  [Life!Next]_Stage
<1>1. TypeInv' /\ SlotInv' /\ \A j \in Jobs : Lives(j)
  BY LifeStep, SlotStep
<1>2. Stage' \in [Jobs -> Life!Stages]
  <2>1. ASSUME NEW j \in Jobs PROVE StageOf(row'[j].state) \in Life!Stages
    <3>1. row'[j].state \in States
      BY <1>1 DEF TypeInv, TypeOK, Row
    <3>2. QED
      BY <3>1, Stagings DEF States, Absent, Life!Stages
  <2>2. QED
    BY <2>1 DEF Stage
<1>3. \A j \in Jobs : Stage'[j] = Stage[j] \/ Life!Moves(j)
  BY <1>1, LivesMoves
<1>4. Life!Fits(Stage')
  <2> DEFINE R == {j \in Jobs : Stage'[j] = "running"}
  <2>1. ASSUME NEW j \in R PROVE j \in Busy'
    <3>1. row'[j].state \in States /\ StageOf(row'[j].state) = "running"
      BY <1>1, StageIs DEF TypeInv, TypeOK, Row
    <3>2. row'[j].state = "started"
      BY <3>1, Stagings DEF States, Absent
    <3>3. QED
      BY <3>2 DEF Busy
  <2>2. IsFiniteSet(Busy') /\ (Capacity # 0 => Cardinality(Busy') <= Capacity)
    BY <1>1 DEF SlotInv, CapacityRespected
  <2>3. R \subseteq Busy'
    BY <2>1
  <2> HIDE DEF R
  <2>4. /\ IsFiniteSet(R) /\ Cardinality(R) <= Cardinality(Busy')
        /\ Cardinality(R) \in Nat /\ Cardinality(Busy') \in Nat
    BY <2>2, <2>3, FS_Subset, FS_CardinalityType
  <2>5. Capacity # 0 => Cardinality(R) <= Capacity
    BY <2>2, <2>4, BoundsAssumption
  <2>6. QED
    BY <2>5, SameCount DEF Life!Fits, R
<1>5. QED
  BY <1>2, <1>3, <1>4 DEF Life!Next

(* JobQueue implements JobLifecycle: through the late copy of the runner,  *)
(* the requests that time out, the workers and servers that die, the tries *)
(* and the transactions of careful users, the author of a job sees the     *)
(* life that job.py describes.                                             *)
THEOREM QueueRefinesLifecycle ==
  ASSUME UsersCareful
  PROVE  Spec => LifecycleKept
<1>1. Init => Life!Init
  <2> SUFFICES ASSUME Init PROVE Life!Init
    OBVIOUS
  <2>1. \A j \in Jobs : row[j].state = "new"
    BY DEF Init, NoRow
  <2>2. QED
    BY <2>1, Stagings DEF Life!Init, Stage
<1>2. TypeInv /\ LifeInv /\ SlotInv /\ [Next]_vars => [Life!Next]_Stage
  BY StageStep
<1>3. Spec => [](TypeInv /\ SlotInv)
  <2>1. Init => TypeInv /\ SlotInv
    BY TypeInit, SlotInit
  <2>2. TypeInv /\ SlotInv /\ [Next]_vars => (TypeInv /\ SlotInv)'
    BY TypeStep, SlotStep
  <2>3. QED
    BY <2>1, <2>2, PTL DEF Spec
<1>4. QED
  BY <1>1, <1>2, <1>3, LifeCorrect, PTL DEF Spec, LifecycleKept, Life!Spec

-----------------------------------------------------------------------------
(* The slots of the channel.  A change to a row that holds a slot, by      *)
(* anyone but the runner, is told to the runner that is up.                *)

Told == runnerUp => /\ notes \subseteq notes'
                    /\ \A j \in Busy : row'[j] = row[j] \/ j \in notes'

LEMMA StoreTold ==
  ASSUME TypeInv, NEW i \in Jobs, NEW r, NEW calls, Store(i, r, calls)
  PROVE  Told
  BY DEF Store, Notify, Told, Busy, TypeInv, TypeOK

LEMMA ResetTold ==
  ASSUME TypeInv, NEW i, NEW calls, SetJobPending(i, calls)
  PROVE  Told
  BY StoreTold DEF SetJobPending, Told

LEMMA WorkerTold ==
  ASSUME TypeInv, NEW s \in Slots, Worker(s)
  PROVE  Told
<1> DEFINE i == call[s].job
<1>1. call[s].pc # "idle" => i \in Jobs
  BY DEF TypeInv, CallHasJob
<1>2. CASE StartJob(s)
  BY <1>1, <1>2, StoreTold DEF StartJob
<1>3. CASE SkipJob(s) \/ BeginPerform(s)
  BY <1>3 DEF SkipJob, BeginPerform, Told
<1>4. CASE JobDone(s) \/ JobFailed(s)
  BY <1>1, <1>4, StoreTold DEF JobDone, JobFailed
<1>5. CASE JobRetry(s) \/ JobRetryIgnored(s) \/ JobConflict(s)
  <2>1. call[s].pc = "performing" /\ \E n : Postpone(s, n)
    BY <1>5 DEF JobRetry, JobRetryIgnored, JobConflict
  <2>2. QED
    BY <1>1, <2>1, StoreTold DEF Postpone
<1>6. CASE ReleaseDependents(s)
  <2> DEFINE cs == WaitingChildren(i, row, "done")
  <2>1. /\ row' = [c \in Jobs |-> IF c \in cs
                                  THEN [row[c] EXCEPT !.state = "pending"]
                                  ELSE row[c]]
        /\ Notify(cs)
    BY <1>6 DEF ReleaseDependents
  <2> HIDE DEF cs
  <2>2. QED
    BY <2>1 DEF Notify, Told, Busy
<1>7. CASE WorkerKilled(s)
  <2>1. CASE call[s].thread
    BY <1>7, <2>1, ResetTold DEF WorkerKilled
  <2>2. CASE ~call[s].thread
    BY <1>7, <2>2 DEF WorkerKilled, Told
  <2>3. QED
    BY <2>1, <2>2
<1>8. QED
  BY <1>2, <1>3, <1>4, <1>5, <1>6, <1>7 DEF Worker, Outcome

(* The deletion of a done row is not told, and needs not be.               *)
LEMMA CommitTold ==
  ASSUME TypeInv, Snapshots, NEW u \in Users, UserCommit(u)
  PROVE  Told
<1> DEFINE t == txn[u]
           js == OpWrites(t)
<1>1. t \in Txn /\ t.op # "none" /\ t.job \in Jobs /\ t.snap \in [Jobs -> Row]
  BY DEF UserCommit, TypeInv, TypeOK, TxnHasJob, Txn
<1>2. \A i \in Jobs \ js : row'[i] = row[i]
  BY DEF UserCommit
<1>3. CASE t.op = "delete" /\ t.snap[t.job].state = "done"
  <2>1. \A i \in Jobs \ {t.job} : AfterOp(t)[i] = t.snap[i]
    BY <1>1, <1>3, OperationEffect
  <2>2. row[t.job].state = "done"
    BY <1>1, <1>3 DEF Snapshots, UserCommit, OpWrites
  <2>3. notes \subseteq notes'
    BY <1>3 DEF UserCommit, Notify
  <2>4. QED
    BY <1>2, <2>1, <2>2, <2>3 DEF Told, Busy, OpWrites
<1>4. CASE ~(t.op = "delete" /\ t.snap[t.job].state = "done")
  <2>1. Notify(js)
    BY <1>4 DEF UserCommit
  <2> HIDE DEF js
  <2>2. QED
    BY <1>2, <2>1 DEF Told, Busy, Notify
<1>5. QED
  BY <1>3, <1>4

LEMMA OthersTell ==
  ASSUME TypeInv, Snapshots, [Next]_vars, ~Runner, ~ServerCrash
  PROVE  Told
<1>1. ASSUME NEW g \in Graphs, Submit(g) PROVE Told
  BY <1>1, JobsAssumption DEF Submit, Notify, Told, Busy
<1>2. ASSUME NEW s \in Slots, Thread(s) PROVE Told
  BY <1>2, ResetTold DEF Thread, CallTimeout, CallRefused, CallFailed
<1>3. ASSUME NEW i \in Jobs, RequeueStuck(i) PROVE Told
  BY <1>3, StoreTold DEF RequeueStuck
<1>4. ASSUME NEW i \in Jobs, AutoVacuum(i) PROVE Told
  BY <1>4 DEF AutoVacuum, Notify, Told, Busy, TypeInv, TypeOK
<1>5. ASSUME NEW u \in Users, User(u) PROVE Told
  BY <1>5, CommitTold DEF User, UserBegin, UserAbort, Told
<1>6. CASE UNCHANGED vars
  BY <1>6 DEF vars, Told
<1>7. QED
  BY <1>1, <1>2, <1>3, <1>4, <1>5, <1>6, WorkerTold DEF Next, Cron

LEMMA PhantomStep ==
  ASSUME TypeInv, LifeInv, NoPhantomSlot, [Next]_vars
  PROVE  NoPhantomSlot'
<1> USE DEF LifeInv
<1>1. running \subseteq Jobs
  BY DEF TypeInv, TypeOK
<1>2. CASE RunnerStart
  BY <1>2 DEF RunnerStart, NoPhantomSlot, Busy
<1>3. CASE RunnerError \/ ServerCrash
  BY <1>3 DEF RunnerError, ServerCrash, StopRunner, NoPhantomSlot
<1>4. ASSUME NEW j \in Jobs, Notified(j) PROVE NoPhantomSlot'
  <2>1. /\ runnerUp /\ row' = row /\ notes' = notes \ {j} /\ Busy' = Busy
    BY <1>4 DEF Notified, Busy
  <2>2. running' \subseteq running \cup {j}
    BY <1>4 DEF Notified
  <2>3. j \in running' => j \in Busy
    BY <1>4 DEF Notified, ManagerSplit, RunningSeen, Busy
  <2>4. QED
    BY <2>1, <2>2, <2>3 DEF NoPhantomSlot
<1>5. ASSUME NEW j \in Jobs, EtaDue(j) PROVE NoPhantomSlot'
  BY <1>5 DEF EtaDue, NoPhantomSlot, Busy
<1>6. ASSUME NEW s \in Slots, NEW j \in Jobs, RunJob(s, j) PROVE NoPhantomSlot'
  <2>1. /\ runnerUp /\ row[j].state = "pending" /\ running' = running \cup {j}
        /\ Exists(j)
    BY <1>6 DEF RunJob, QueuedPending, Exists, Absent
  <2>2. /\ row' = [row EXCEPT ![j] = [row[j] EXCEPT !.state = "enqueued"]]
        /\ notes' = notes \cup {j}
    BY <1>6, <2>1 DEF RunJob, Store, Notify
  <2>3. row'[j].state = "enqueued" /\ \A i \in Jobs \ {j} : row'[i] = row[i]
    BY <2>2 DEF TypeInv, TypeOK, Row
  <2>4. QED
    BY <1>1, <2>1, <2>2, <2>3 DEF NoPhantomSlot, Busy
<1>7. CASE ~Runner /\ ~ServerCrash
  <2>1. UNCHANGED <<runnerUp, running>> /\ Told
    BY <1>7, OnlyRunnerCounts, OthersTell DEF ExecInv
  <2>2. QED
    BY <1>1, <2>1 DEF NoPhantomSlot, Told, Busy
<1>8. QED
  BY <1>2, <1>3, <1>4, <1>5, <1>6, <1>7 DEF Runner

(* The channel holds no slot for a job that is not being run, but for the  *)
(* time the notification of its end takes: no timeout, death, restart or   *)
(* button makes the capacity leak away (Channel.set_running and the        *)
(* trigger queue_job_notify).                                              *)
THEOREM NoPhantomTheorem ==
  ASSUME UsersCareful
  PROVE  Spec => []NoPhantomSlot
<1>1. Init => NoPhantomSlot
  BY DEF Init, NoPhantomSlot
<1>2. TypeInv /\ LifeInv /\ NoPhantomSlot /\ [Next]_vars => NoPhantomSlot'
  BY PhantomStep
<1>3. QED
  BY <1>1, <1>2, LifeCorrect, PTL DEF Spec

-----------------------------------------------------------------------------
(* The tries of a job.  A worker executes with the number of tries it has  *)
(* loaded, which is that of the row as long as nobody else writes it: the  *)
(* row of a job being executed is never stale for its worker.              *)

NeverStale == \A s \in Slots : ~call[s].stale

CallTries == \A s \in Slots : Executing(s) => call[s].retry < MaxRetries

RowTries ==
  \A j \in Jobs :
    row[j].state \in {"wait_dependencies", "pending", "enqueued", "started"} =>
      row[j].retry < MaxRetries

TriesInv == NeverStale /\ (MaxRetries # 0 => CallTries /\ RowTries)

(* No execution and no try in the calls that is not one of now.            *)
Fresh(calls) ==
  \A t \in Slots :
    /\ ~calls[t].stale
    /\ calls[t].pc \in {"started", "performing"} =>
         /\ Executing(t) /\ calls[t].job = call[t].job
         /\ calls[t].retry = call[t].retry

LEMMA FreshKeepsTries ==
  ASSUME Fresh(call')
  PROVE  NeverStale' /\ (CallTries => CallTries')
  BY DEF Fresh, NeverStale, CallTries, Executing

LEMMA FreshCalls ==
  ASSUME TypeInv, NeverStale, NEW s \in Slots
  PROVE  /\ Fresh(call)
         /\ Fresh([call EXCEPT ![s] = IdleCall])
         /\ Fresh([call EXCEPT ![s].thread = FALSE])
         /\ \A p \in Pcs \ {"started", "performing"} :
              Fresh([call EXCEPT ![s].pc = p])
         /\ Executing(s) => Fresh([call EXCEPT ![s].pc = "performing"])
<1>1. call \in [Slots -> Call]
  BY DEF TypeInv, TypeOK
<1>2. Fresh(call)
  BY DEF Fresh, NeverStale, Executing
<1>3. Fresh([call EXCEPT ![s] = IdleCall])
  BY <1>1 DEF Fresh, NeverStale, Executing, IdleCall
<1>4. Fresh([call EXCEPT ![s].thread = FALSE])
  <2>1. \A c \in Call : /\ [c EXCEPT !.thread = FALSE].pc = c.pc
                        /\ [c EXCEPT !.thread = FALSE].job = c.job
                        /\ [c EXCEPT !.thread = FALSE].retry = c.retry
                        /\ [c EXCEPT !.thread = FALSE].stale = c.stale
    BY DEF Call
  <2>2. QED
    BY <1>1, <2>1 DEF Fresh, NeverStale, Executing
<1>5. \A p : \A c \in Call : /\ [c EXCEPT !.pc = p].pc = p
                             /\ [c EXCEPT !.pc = p].job = c.job
                             /\ [c EXCEPT !.pc = p].retry = c.retry
                             /\ [c EXCEPT !.pc = p].stale = c.stale
  BY DEF Call
<1>6. \A p \in Pcs \ {"started", "performing"} :
        Fresh([call EXCEPT ![s].pc = p])
  BY <1>1, <1>5 DEF Fresh, NeverStale, Executing
<1>7. Executing(s) => Fresh([call EXCEPT ![s].pc = "performing"])
  BY <1>1, <1>5 DEF Fresh, NeverStale, Executing
<1>8. QED
  BY <1>2, <1>3, <1>4, <1>6, <1>7

(* A write that no execution is concerned by leaves no call stale.         *)
LEMMA NoneConcerned ==
  ASSUME TypeInv, ExecStarted, NEW calls, AboutJobs(calls), Fresh(calls),
         NEW js, \A j \in js : row[j].state # "started"
  PROVE  Stale(calls, js) = calls
<1>1. \A t \in Slots : calls[t].pc = "performing" => calls[t].job \notin js
  BY DEF Fresh, ExecStarted
<1>2. QED
  BY <1>1 DEF Stale, AboutJobs

LEMMA OnlyItself ==
  ASSUME TypeInv, OneExecution, NEW calls, AboutJobs(calls), Fresh(calls),
         NEW s \in Slots, Executing(s), calls[s].pc \notin {"started", "performing"}
  PROVE  Stale(calls, {call[s].job}) = calls
<1>1. \A t \in Slots : calls[t].pc = "performing" => calls[t].job # call[s].job
  BY DEF Fresh, OneExecution
<1>2. QED
  BY <1>1 DEF Stale, AboutJobs

LEMMA ResetTries ==
  ASSUME TypeInv, LifeInv, TriesInv, NEW j, NEW calls,
         AboutJobs(calls), Fresh(calls), SetJobPending(j, calls)
  PROVE  TriesInv'
<1>1. CASE j \in Jobs /\ row[j].state = "enqueued"
  <2>1. /\ row' = [row EXCEPT ![j] = [row[j] EXCEPT !.state = "pending"]]
        /\ call' = Stale(calls, {j})
    BY <1>1 DEF SetJobPending, Store
  <2>2. call' = calls
    BY <1>1, <2>1, NoneConcerned DEF LifeInv, ExecInv
  <2>3. RowTries => RowTries'
    BY <1>1, <2>1 DEF RowTries, TypeInv, TypeOK, Row
  <2>4. QED
    BY <2>2, <2>3, FreshKeepsTries DEF TriesInv
<1>2. CASE ~(j \in Jobs /\ row[j].state = "enqueued")
  <2>1. call' = calls /\ row' = row
    BY <1>2 DEF SetJobPending
  <2>2. QED
    BY <2>1, FreshKeepsTries DEF TriesInv, RowTries
<1>3. QED
  BY <1>1, <1>2

LEMMA WorkerTries ==
  ASSUME "conflict" \notin Faults, TypeInv, LifeInv, TriesInv,
         NEW s \in Slots, Worker(s)
  PROVE  TriesInv'
<1> DEFINE j == call[s].job
           idle == [call EXCEPT ![s] = IdleCall]
<1>1. call[s].pc # "idle" => j \in Jobs /\ row[j] \in Row
  BY DEF TypeInv, TypeOK, CallHasJob
<1>2. AboutJobs(idle) /\ Fresh(idle) /\ idle[s].pc = "idle"
  BY CallChanges, FreshCalls DEF TriesInv, IdleCall, TypeInv, TypeOK
<1>3. CASE StartJob(s)
  <2> DEFINE calls == [call EXCEPT ![s].pc = "started", ![s].retry = row[j].retry,
                                   ![s].eta = row[j].eta]
  <2>1. /\ call[s].pc = "backlog" /\ row[j].state = "enqueued" /\ j \in Jobs
        /\ row' = [row EXCEPT ![j] = [row[j] EXCEPT !.state = "started"]]
        /\ call' = Stale(calls, {j})
        /\ row \in [Jobs -> Row] /\ call \in [Slots -> Call]
    BY <1>1, <1>3 DEF StartJob, Store, TypeInv, TypeOK
  <2>2. /\ calls[s].pc = "started" /\ calls[s].retry = row[j].retry
        /\ calls[s].stale = call[s].stale
        /\ \A t \in Slots \ {s} : calls[t] = call[t]
        /\ calls = [t \in Slots |-> calls[t]]
    BY <2>1 DEF Call
  <2> HIDE DEF calls
  <2>3. \A t \in Slots : calls[t].pc = "performing" => calls[t].job # j
    BY <2>1, <2>2 DEF LifeInv, ExecInv, ExecStarted, Executing
  <2>4. call' = calls
    BY <2>1, <2>2, <2>3 DEF Stale
  <2>5. NeverStale'
    BY <2>2, <2>4 DEF TriesInv, NeverStale
  <2>6. RowTries => RowTries' /\ row[j].retry < MaxRetries
    BY <2>1 DEF RowTries, Row
  <2>7. CallTries /\ RowTries => CallTries'
    BY <2>2, <2>4, <2>6 DEF CallTries, Executing
  <2>8. QED
    BY <2>5, <2>6, <2>7 DEF TriesInv
<1>4. CASE SkipJob(s) \/ BeginPerform(s)
  <2>1. row' = row /\ (call' = idle \/ call' = [call EXCEPT ![s].pc = "performing"])
        /\ (call' # idle => Executing(s))
    BY <1>4 DEF SkipJob, BeginPerform, Executing
  <2>2. Fresh(call')
    BY <1>2, <2>1, FreshCalls DEF TriesInv
  <2>3. QED
    BY <2>1, <2>2, FreshKeepsTries DEF TriesInv, RowTries
<1>5. CASE Outcome(s)
  <2>1. call[s].pc = "performing" /\ Executing(s) /\ ~call[s].stale /\ j \in Jobs
    BY <1>1, <1>5 DEF Outcome, JobDone, JobRetry, JobRetryIgnored, JobConflict, JobFailed,
                      Executing, TriesInv, NeverStale
  <2>2. \E r, calls : /\ Store(j, r, calls) /\ AboutJobs(calls) /\ Fresh(calls)
                      /\ calls[s].pc \notin {"started", "performing"}
                      /\ \/ r.state \in {"done", "failed"}
                         \/ MaxRetries # 0 /\ CallTries => r.retry < MaxRetries
    <3> DEFINE next(p) == [call EXCEPT ![s].pc = p]
    <3>1. \A p \in {"dependents", "error"} :
            AboutJobs(next(p)) /\ Fresh(next(p)) /\ next(p)[s].pc = p
      BY <2>1, CallChanges, FreshCalls DEF Pcs, TypeInv, TypeOK, Call, TriesInv
    <3>2. CASE JobDone(s)
      <4> DEFINE r == [state |-> "done", retry |-> call[s].retry + 1, eta |-> call[s].eta]
      <4>1. Store(j, r, next("dependents")) /\ r.state = "done"
        BY <3>2 DEF JobDone
      <4> HIDE DEF r, next
      <4>2. QED
        BY <3>1, <4>1
    <3>3. CASE JobRetry(s)
      BY <1>2, <3>3 DEF JobRetry, Postpone
    <3>4. CASE JobRetryIgnored(s)
      BY <1>2, <2>1, <3>4 DEF JobRetryIgnored, Postpone, CallTries
    <3>5. CASE JobConflict(s)
      BY <2>1, <3>5 DEF JobConflict
    <3>6. CASE JobFailed(s)
      <4>1. [call EXCEPT ![s] = IF call[s].thread THEN [@ EXCEPT !.pc = "error"]
                                ELSE IdleCall]
              = IF call[s].thread THEN next("error") ELSE idle
        BY DEF TypeInv, TypeOK
      <4> DEFINE r == [state |-> "failed", retry |-> call[s].retry + 1, eta |-> call[s].eta]
      <4>2. /\ Store(j, r, IF call[s].thread THEN next("error") ELSE idle)
            /\ r.state = "failed"
        BY <3>6, <4>1 DEF JobFailed
      <4> HIDE DEF r, next, idle
      <4>3. QED
        BY <1>2, <3>1, <4>2
    <3>7. QED
      BY <1>5, <3>2, <3>3, <3>4, <3>5, <3>6 DEF Outcome
  <2>3. PICK r, calls : /\ Store(j, r, calls) /\ AboutJobs(calls) /\ Fresh(calls)
                        /\ calls[s].pc \notin {"started", "performing"}
                        /\ \/ r.state \in {"done", "failed"}
                           \/ MaxRetries # 0 /\ CallTries => r.retry < MaxRetries
    BY <2>2
  <2>4. call' = calls
    BY <2>1, <2>3, OnlyItself DEF Store, LifeInv, ExecInv
  <2>5. row'[j] = r /\ \A i \in Jobs \ {j} : row'[i] = row[i]
    BY <2>1, <2>3 DEF Store, TypeInv, TypeOK
  <2>6. MaxRetries # 0 /\ CallTries /\ RowTries => RowTries'
    BY <2>3, <2>5 DEF RowTries
  <2>7. QED
    BY <2>3, <2>4, <2>6, FreshKeepsTries DEF TriesInv
<1>6. CASE ReleaseDependents(s)
  <2> DEFINE cs == WaitingChildren(j, row, "done")
  <2>1. /\ row' = [c \in Jobs |-> IF c \in cs
                                  THEN [row[c] EXCEPT !.state = "pending"]
                                  ELSE row[c]]
        /\ call' = Stale(idle, cs)
        /\ \A c \in cs : row[c].state = "wait_dependencies"
    BY <1>6 DEF ReleaseDependents, WaitingChildren
  <2> HIDE DEF cs
  <2>2. call' = idle
    BY <1>2, <2>1, NoneConcerned DEF LifeInv, ExecInv
  <2>3. RowTries => RowTries'
    BY <2>1 DEF RowTries, TypeInv, TypeOK, Row
  <2>4. QED
    BY <1>2, <2>2, <2>3, FreshKeepsTries DEF TriesInv
<1>7. CASE WorkerKilled(s)
  <2>1. CASE call[s].thread
    BY <1>2, <1>7, <2>1, ResetTries DEF WorkerKilled
  <2>2. CASE ~call[s].thread
    <3>1. call' = idle /\ row' = row
      BY <1>7, <2>2 DEF WorkerKilled
    <3>2. QED
      BY <1>2, <3>1, FreshKeepsTries DEF TriesInv, RowTries
  <2>3. QED
    BY <2>1, <2>2
<1>8. QED
  BY <1>3, <1>4, <1>5, <1>6, <1>7 DEF Worker

LEMMA CommitTries ==
  ASSUME UsersCareful, TypeInv, LifeInv, TriesInv, NEW u \in Users, UserCommit(u)
  PROVE  TriesInv'
<1> DEFINE t == txn[u]
           js == OpWrites(t)
<1>1. /\ t \in Txn /\ t.op \in Operations /\ t.op # "none" /\ t.job \in Jobs
      /\ t.snap \in [Jobs -> Row] /\ js \subseteq Jobs
  BY OperationWrites DEF UserCommit, TypeInv, TypeOK, TxnHasJob, Txn
<1>2. AboutJobs(call) /\ Fresh(call)
  BY DEF AboutJobs, TypeInv, TypeOK, CallHasJob, Fresh, TriesInv, NeverStale, Executing
<1>3. call' = Stale(call, js) /\ \A j \in js : row[j].state # "started"
  BY OperationTargets, CarefulLeaveStarted DEF UserCommit, LifeInv, ExecInv
<1>4. /\ \A j \in js : row'[j] = AfterOp(t)[j] /\ row[j] = t.snap[j]
      /\ \A j \in Jobs \ js : row'[j] = row[j]
  BY <1>1 DEF UserCommit, LifeInv, ExecInv, Snapshots
<1>5. /\ AfterOp(t)[t.job].state =
           IF t.op = "requeue" THEN PendingState(t.job, t.snap)
           ELSE IF t.op = "delete" THEN "deleted" ELSE t.op
      /\ t.op = "requeue" => AfterOp(t)[t.job].retry = 0
  BY <1>1, OperationEffect
<1>6. ASSUME MaxRetries # 0, RowTries, NEW j \in js,
             row'[j].state \in {"wait_dependencies", "pending", "enqueued", "started"}
      PROVE  row'[j].retry < MaxRetries
  <2>1. CASE j = t.job
    <3> HIDE DEF t, js
    <3>1. t.op = "requeue"
      BY <1>1, <1>4, <1>5, <1>6, <2>1 DEF Operations
    <3>2. row'[j].retry = 0
      BY <1>4, <1>5, <2>1, <3>1
    <3>3. QED
      BY <1>6, <3>2, BoundsAssumption
  <2>2. CASE j # t.job
    <3>1. t.snap[j].state = "wait_dependencies" /\ AfterOp(t)[j].retry = t.snap[j].retry
      BY <1>1, <1>6, <2>2, OperationEffect DEF OpWrites
    <3>2. QED
      BY <1>1, <1>4, <1>6, <3>1 DEF RowTries
  <2>3. QED
    BY <2>1, <2>2
<1> HIDE DEF t, js
<1>7. call' = call
  BY <1>2, <1>3, NoneConcerned DEF LifeInv, ExecInv
<1>8. MaxRetries # 0 /\ RowTries => RowTries'
  BY <1>4, <1>6 DEF RowTries
<1>9. QED
  BY <1>2, <1>7, <1>8, FreshKeepsTries DEF TriesInv

LEMMA TriesStep ==
  ASSUME UsersCareful, "conflict" \notin Faults,
         TypeInv, LifeInv, TriesInv, [Next]_vars
  PROVE  TriesInv'
<1>1. AboutJobs(call) /\ Fresh(call)
  BY DEF AboutJobs, TypeInv, TypeOK, CallHasJob, Fresh, TriesInv, NeverStale, Executing
<1>2. ASSUME NEW g \in Graphs, Submit(g) PROVE TriesInv'
  <2>1. /\ call' = call /\ \A j \in Jobs \ g : row'[j] = row[j]
        /\ \A j \in Jobs \cap g : row'[j].retry = 0
    BY <1>2 DEF Submit, NoRow
  <2>2. MaxRetries # 0 /\ RowTries => RowTries'
    BY <2>1, BoundsAssumption DEF RowTries
  <2>3. QED
    BY <1>1, <2>1, <2>2, FreshKeepsTries DEF TriesInv
<1>3. CASE UNCHANGED <<row, call>>
  BY <1>1, <1>3, FreshKeepsTries DEF TriesInv, RowTries
<1>4. ASSUME NEW s \in Slots, NEW j \in Jobs, RunJob(s, j) PROVE TriesInv'
  <2> DEFINE calls == [call EXCEPT ![s].pc = "backlog", ![s].job = j,
                                   ![s].thread = TRUE]
  <2>1. row[j].state = "pending" /\ Exists(j)
    BY <1>4 DEF RunJob, LifeInv, QueuedPending, Exists, Absent
  <2>2. /\ row' = [row EXCEPT ![j] = [row[j] EXCEPT !.state = "enqueued"]]
        /\ call' = Stale(calls, {j})
    BY <1>4, <2>1 DEF RunJob, Store
  <2>3. AboutJobs(calls)
    <3>1. \A c \in Call : [c EXCEPT !.pc = "backlog", !.job = j,
                                    !.thread = TRUE] \in Call
      BY Zenon DEF Call, Pcs
    <3>2. calls \in [Slots -> Call]
      BY <3>1 DEF TypeInv, TypeOK
    <3>3. QED
      BY <3>2 DEF AboutJobs, TypeInv, TypeOK, CallHasJob, Call
  <2>4. Fresh(calls)
    <3>1. /\ calls[s].pc = "backlog" /\ calls[s].stale = call[s].stale
          /\ \A t \in Slots \ {s} : calls[t] = call[t]
      BY DEF TypeInv, TypeOK, Call
    <3> HIDE DEF calls
    <3>2. QED
      BY <1>1, <3>1 DEF Fresh
  <2> HIDE DEF calls
  <2>5. call' = calls
    BY <2>1, <2>2, <2>3, <2>4, NoneConcerned DEF LifeInv, ExecInv
  <2>6. RowTries => RowTries'
    BY <2>1, <2>2 DEF RowTries, TypeInv, TypeOK, Row
  <2>7. QED
    BY <2>4, <2>5, <2>6, FreshKeepsTries DEF TriesInv
<1>5. ASSUME NEW s \in Slots, Thread(s) PROVE TriesInv'
  <2>1. \E j, calls : /\ SetJobPending(j, calls)
                      /\ AboutJobs(calls) /\ Fresh(calls)
    BY <1>5, CallChanges, FreshCalls
    DEF Thread, CallTimeout, CallRefused, CallFailed, TriesInv
  <2>2. QED
    BY <2>1, ResetTries
<1>6. ASSUME NEW j \in Jobs, RequeueStuck(j) PROVE TriesInv'
  <2> DEFINE r == [row[j] EXCEPT !.state = PendingState(j, row), !.retry = 0]
  <2>1. /\ row' = [row EXCEPT ![j] = r] /\ call' = Stale(call, {j})
        /\ row[j].state = "enqueued" /\ r.retry = 0
    BY <1>6 DEF RequeueStuck, Store, TypeInv, TypeOK, Row
  <2> HIDE DEF r
  <2>2. call' = call
    BY <1>1, <2>1, NoneConcerned DEF LifeInv, ExecInv
  <2>3. MaxRetries # 0 /\ RowTries => RowTries'
    BY <2>1, BoundsAssumption DEF RowTries, TypeInv, TypeOK
  <2>4. QED
    BY <1>1, <2>2, <2>3, FreshKeepsTries DEF TriesInv
<1>7. ASSUME NEW j \in Jobs, AutoVacuum(j) PROVE TriesInv'
  <2>1. /\ row' = [row EXCEPT ![j].state = "deleted"] /\ call' = Stale(call, {j})
        /\ row[j].state \in {"done", "cancelled"}
    BY <1>7 DEF AutoVacuum
  <2>2. call' = call
    BY <1>1, <2>1, NoneConcerned DEF LifeInv, ExecInv
  <2>3. RowTries => RowTries'
    BY <2>1 DEF RowTries, TypeInv, TypeOK, Row
  <2>4. QED
    BY <1>1, <2>2, <2>3, FreshKeepsTries DEF TriesInv
<1>8. CASE ServerCrash
  BY <1>8 DEF ServerCrash, IdleCall, TriesInv, NeverStale, CallTries, RowTries, Executing
<1>9. QED
  BY <1>2, <1>3, <1>4, <1>5, <1>6, <1>7, <1>8, WorkerTries, CommitTries
  DEF Next, Runner, RunnerStart, RunnerError, Notified, EtaDue, Cron, User, UserBegin,
      UserAbort, vars

(* A job that has used all its tries is not queued for another one, nor    *)
(* executed, through any timeouts, deaths, restarts and requeues, when the *)
(* users are careful and no write conflict is met: the path of conflicts   *)
(* in runjob postpones without looking at the tries (Job.perform).         *)
THEOREM TriesTheorem ==
  ASSUME UsersCareful, "conflict" \notin Faults
  PROVE  Spec => []TriesBounded
<1>1. Init => TriesInv
  BY DEF Init, IdleCall, NoRow, TriesInv, NeverStale, CallTries, RowTries, Executing
<1>2. TypeInv /\ LifeInv /\ TriesInv /\ [Next]_vars => TriesInv'
  BY TriesStep
<1>3. TriesInv => TriesBounded
  BY DEF TriesInv, RowTries, TriesBounded
<1>4. QED
  BY <1>1, <1>2, <1>3, LifeCorrect, PTL DEF Spec

-----------------------------------------------------------------------------
(* The release of the dependents.  A graph is created whole, so a job that *)
(* waits at its birth waits for rows that are not done; afterwards the     *)
(* last of its parents to be done leaves a worker to release it.           *)

GraphsClosed == \A g \in Graphs : \A j \in g : Parents[j] \subseteq g

UsersFinishNothing == \A state \in States : <<"done", state>> \notin UserOps

Releasing(p) == \E s \in Slots : call[s].pc = "dependents" /\ call[s].job = p

(* One row is written, and done by nobody.                                 *)
LEMMA StoreNotDone ==
  ASSUME TypeInv, NEW i \in Jobs, NEW r, r.state # "done", NEW calls,
         Store(i, r, calls), NEW p \in Jobs, row[p].state # "done"
  PROVE  row'[p].state # "done"
<1>1. row'[i] = r /\ (p # i => row'[p] = row[p])
  BY DEF Store, TypeInv, TypeOK
<1>2. QED
  BY <1>1

LEMMA ResetNotDone ==
  ASSUME TypeInv, NEW i, NEW calls, SetJobPending(i, calls),
         NEW p \in Jobs, row[p].state # "done"
  PROVE  row'[p].state # "done"
<1>1. CASE i \in Jobs /\ row[i].state = "enqueued"
  <2>1. [row[i] EXCEPT !.state = "pending"].state = "pending"
    BY <1>1 DEF TypeInv, TypeOK, Row
  <2>2. QED
    BY <1>1, <2>1, StoreNotDone DEF SetJobPending
<1>2. CASE ~(i \in Jobs /\ row[i].state = "enqueued")
  BY <1>2 DEF SetJobPending
<1>3. QED
  BY <1>1, <1>2

(* Only a worker makes a job done, and it goes on with its dependents.     *)
LEMMA DoneIsReleasing ==
  ASSUME UsersFinishNothing, TypeInv, LifeInv, [Next]_vars,
         NEW p \in Jobs, row[p].state # "done", row'[p].state = "done"
  PROVE  Releasing(p)'
<1>1. ASSUME NEW s \in Slots, Worker(s) PROVE Releasing(p)'
  <2> DEFINE j == call[s].job
  <2>1. call[s].pc # "idle" => j \in Jobs /\ row[j] \in Row
    BY DEF TypeInv, TypeOK, CallHasJob
  <2>2. CASE JobDone(s)
    <3> DEFINE calls == [call EXCEPT ![s].pc = "dependents"]
               r == [state |-> "done", retry |-> call[s].retry + 1, eta |-> call[s].eta]
    <3>1. Store(j, r, calls) /\ j \in Jobs
      BY <2>1, <2>2 DEF JobDone
    <3>2. calls[s].pc = "dependents" /\ calls[s].job = j
      BY DEF TypeInv, TypeOK, Call
    <3>3. AboutJobs(calls)
      BY <2>2, CallChanges DEF JobDone, Pcs
    <3> HIDE DEF calls, r
    <3>4. call'[s].pc = "dependents" /\ call'[s].job = j
      BY <3>1, <3>2, <3>3, StaleCalls DEF Store, AboutJobs
    <3>5. p = j
      BY <3>1 DEF Store, TypeInv, TypeOK
    <3>6. QED
      BY <3>4, <3>5 DEF Releasing
  <2>3. CASE StartJob(s)
    <3>1. [row[j] EXCEPT !.state = "started"].state = "started"
      BY <2>1, <2>3 DEF StartJob, Row
    <3>2. QED
      BY <2>1, <2>3, <3>1, StoreNotDone DEF StartJob
  <2>4. CASE JobFailed(s)
    BY <2>1, <2>4, StoreNotDone DEF JobFailed
  <2>5. CASE JobRetry(s) \/ JobRetryIgnored(s) \/ JobConflict(s)
    <3>1. call[s].pc = "performing" /\ \E n : Postpone(s, n)
      BY <2>5 DEF JobRetry, JobRetryIgnored, JobConflict
    <3>2. QED
      BY <2>1, <3>1, StoreNotDone, PendingStates DEF Postpone
  <2>6. CASE SkipJob(s) \/ BeginPerform(s)
    BY <2>6 DEF SkipJob, BeginPerform
  <2>7. CASE ReleaseDependents(s)
    <3> DEFINE cs == WaitingChildren(j, row, "done")
    <3>1. row' = [c \in Jobs |-> IF c \in cs
                                 THEN [row[c] EXCEPT !.state = "pending"]
                                 ELSE row[c]]
      BY <2>7 DEF ReleaseDependents
    <3> HIDE DEF cs
    <3>2. QED
      BY <3>1 DEF TypeInv, TypeOK, Row
  <2>8. CASE WorkerKilled(s)
    <3>1. CASE call[s].thread
      BY <2>8, <3>1, ResetNotDone DEF WorkerKilled
    <3>2. CASE ~call[s].thread
      BY <2>8, <3>2 DEF WorkerKilled
    <3>3. QED
      BY <3>1, <3>2
  <2>9. QED
    BY <1>1, <2>2, <2>3, <2>4, <2>5, <2>6, <2>7, <2>8 DEF Worker, Outcome
<1>2. ASSUME NEW u \in Users, UserCommit(u) PROVE FALSE
  <2> DEFINE t == txn[u]
  <2>1. /\ t \in Txn /\ t.op # "none" /\ t.job \in Jobs /\ t.op \in Operations
        /\ t.snap \in [Jobs -> Row] /\ t.snap[t.job].state \in States
    BY <1>2 DEF UserCommit, TypeInv, TypeOK, TxnHasJob, Txn, Row
  <2>2. t.op # "done"
    BY <2>1 DEF LifeInv, ExecInv, Snapshots, UsersFinishNothing
  <2>3. AfterOp(t)[t.job].state = IF t.op = "requeue" THEN PendingState(t.job, t.snap)
                                  ELSE IF t.op = "delete" THEN "deleted" ELSE t.op
    BY <2>1, OperationEffect
  <2>4. \A i \in Jobs \ {t.job} : \/ AfterOp(t)[i] = t.snap[i]
                                  \/ AfterOp(t)[i].state = "cancelled"
    BY <2>1, <2>2, OperationEffect
  <2>5. AfterOp(t)[t.job].state # "done"
    BY <2>2, <2>3, PendingStates
  <2>6. p \in OpWrites(t) /\ row'[p] = AfterOp(t)[p] /\ row[p] = t.snap[p]
    BY <1>2, <2>1 DEF UserCommit, LifeInv, ExecInv, Snapshots
  <2> HIDE DEF t
  <2>7. QED
    BY <2>4, <2>5, <2>6
<1>3. ASSUME NEW g \in Graphs, Submit(g) PROVE FALSE
  BY <1>3 DEF Submit, NoRow
<1>4. ASSUME NEW s \in Slots, NEW j \in Jobs, RunJob(s, j) PROVE FALSE
  <2>1. [row[j] EXCEPT !.state = "enqueued"].state = "enqueued"
    BY DEF TypeInv, TypeOK, Row
  <2>2. CASE Exists(j)
    BY <1>4, <2>1, <2>2, StoreNotDone DEF RunJob
  <2>3. CASE ~Exists(j)
    BY <1>4, <2>3 DEF RunJob
  <2>4. QED
    BY <2>2, <2>3
<1>5. ASSUME NEW s \in Slots, Thread(s) PROVE FALSE
  BY <1>5, ResetNotDone DEF Thread, CallTimeout, CallRefused, CallFailed
<1>6. ASSUME NEW j \in Jobs, RequeueStuck(j) PROVE FALSE
  <2> DEFINE q == PendingState(j, row)
             r == [row[j] EXCEPT !.state = q, !.retry = 0]
  <2>1. r.state = q
    BY DEF TypeInv, TypeOK, Row
  <2>2. r.state # "done" /\ Store(j, r, call)
    BY <1>6, <2>1, PendingStates DEF RequeueStuck
  <2> HIDE DEF r
  <2>3. QED
    BY <2>2, StoreNotDone
<1>7. ASSUME NEW j \in Jobs, AutoVacuum(j) PROVE FALSE
  BY <1>7 DEF AutoVacuum, TypeInv, TypeOK, Row
<1>8. QED
  BY <1>1, <1>2, <1>3, <1>4, <1>5, <1>6, <1>7
  DEF Next, Runner, RunnerStart, RunnerError, Notified, EtaDue, ServerCrash, Cron, User,
      UserBegin, UserAbort, vars

(* A worker that releases dependents does so, whatever the others do.      *)
StillReleases(s, calls) ==
  calls[s].pc = "dependents" /\ calls[s].job = call[s].job

LEMMA ReleasingLasts ==
  ASSUME "worker" \notin Faults, "server" \notin Faults, TypeInv, [Next]_vars,
         NEW s \in Slots, call[s].pc = "dependents", ~ReleaseDependents(s)
  PROVE  StillReleases(s, call')
<1>1. ASSUME NEW calls, StillReleases(s, calls), NEW js, call' = Stale(calls, js)
      PROVE  StillReleases(s, call')
  BY <1>1 DEF StillReleases, Stale
<1>2. StillReleases(s, call)
  BY DEF StillReleases
<1>3. ASSUME NEW t \in Slots \ {s}, NEW c
      PROVE  StillReleases(s, [call EXCEPT ![t] = c])
  BY DEF StillReleases, TypeInv, TypeOK
<1>4. ASSUME NEW j, NEW calls, StillReleases(s, calls), SetJobPending(j, calls)
      PROVE  StillReleases(s, call')
  BY <1>1, <1>4 DEF SetJobPending, Store
<1>5. ASSUME NEW g \in Graphs, Submit(g) PROVE StillReleases(s, call')
  BY <1>2, <1>5 DEF Submit
<1>6. ASSUME NEW t \in Slots, NEW j \in Jobs, RunJob(t, j) PROVE StillReleases(s, call')
  <2> DEFINE calls == [call EXCEPT ![t].pc = "backlog", ![t].job = j, ![t].thread = TRUE]
  <2>1. t # s
    BY <1>6 DEF RunJob, IdleCall
  <2>2. calls[s] = call[s]
    BY <2>1 DEF TypeInv, TypeOK
  <2>3. call' = calls \/ call' = Stale(calls, {j})
    BY <1>6 DEF RunJob, Store
  <2> HIDE DEF calls
  <2>4. QED
    BY <1>1, <2>2, <2>3 DEF StillReleases
<1>7. ASSUME NEW t \in Slots, Thread(t) PROVE StillReleases(s, call')
  <2>1. CASE CallTimeout(t)
    <3>1. StillReleases(s, [call EXCEPT ![t].thread = FALSE])
      BY DEF StillReleases, TypeInv, TypeOK, Call
    <3>2. QED
      BY <1>4, <2>1, <3>1 DEF CallTimeout
  <2>2. CASE CallRefused(t) \/ CallFailed(t)
    <3>1. t # s
      BY <2>2 DEF CallRefused, CallFailed
    <3>2. QED
      BY <1>3, <1>4, <2>2, <3>1 DEF CallRefused, CallFailed
  <2>3. QED
    BY <1>7, <2>1, <2>2 DEF Thread
<1>8. ASSUME NEW t \in Slots, Worker(t) PROVE StillReleases(s, call')
  <2>1. t # s
    BY <1>8 DEF Worker, Outcome, StartJob, SkipJob, BeginPerform, JobDone, JobRetry,
                JobRetryIgnored, JobConflict, JobFailed, WorkerKilled
  <2>2. CASE StartJob(t)
    <3> DEFINE calls == [call EXCEPT ![t].pc = "started",
                                     ![t].retry = row[call[t].job].retry,
                                     ![t].eta = row[call[t].job].eta]
    <3>1. calls[s] = call[s] /\ call' = Stale(calls, {call[t].job})
      BY <2>1, <2>2 DEF StartJob, Store, TypeInv, TypeOK
    <3> HIDE DEF calls
    <3>2. QED
      BY <1>1, <3>1 DEF StillReleases
  <2>3. CASE SkipJob(t)
    BY <1>3, <2>1, <2>3 DEF SkipJob
  <2>4. CASE BeginPerform(t)
    BY <2>1, <2>4 DEF BeginPerform, StillReleases, TypeInv, TypeOK
  <2>5. CASE Outcome(t)
    <3> DEFINE next(p) == [call EXCEPT ![t].pc = p]
               idle == [call EXCEPT ![t] = IdleCall]
    <3>1. StillReleases(s, idle) /\ \A p : StillReleases(s, next(p))
      BY <1>3, <2>1 DEF StillReleases, TypeInv, TypeOK
    <3>2. CASE JobFailed(t)
      <4>1. [call EXCEPT ![t] = IF call[t].thread THEN [@ EXCEPT !.pc = "error"]
                                ELSE IdleCall]
              = IF call[t].thread THEN next("error") ELSE idle
        BY DEF TypeInv, TypeOK
      <4>2. call' = Stale(IF call[t].thread THEN next("error") ELSE idle, {call[t].job})
        BY <3>2, <4>1 DEF JobFailed, Store
      <4>3. StillReleases(s, IF call[t].thread THEN next("error") ELSE idle)
        BY <3>1
      <4> HIDE DEF next, idle
      <4>4. QED
        BY <1>1, <4>2, <4>3
    <3>3. CASE JobDone(t)
      <4>1. call' = Stale(next("dependents"), {call[t].job})
        BY <3>3 DEF JobDone, Store
      <4> HIDE DEF next
      <4>2. QED
        BY <1>1, <3>1, <4>1
    <3>4. CASE JobRetry(t) \/ JobRetryIgnored(t) \/ JobConflict(t)
      <4>1. call' = Stale(idle, {call[t].job})
        BY <3>4 DEF JobRetry, JobRetryIgnored, JobConflict, Postpone, Store
      <4> HIDE DEF idle
      <4>2. QED
        BY <1>1, <3>1, <4>1
    <3>5. QED
      BY <2>5, <3>2, <3>3, <3>4 DEF Outcome
  <2>6. CASE ReleaseDependents(t)
    <3> DEFINE cs == WaitingChildren(call[t].job, row, "done")
    <3>1. call' = Stale([call EXCEPT ![t] = IdleCall], cs)
      BY <2>6 DEF ReleaseDependents
    <3> HIDE DEF cs
    <3>2. QED
      BY <1>1, <1>3, <2>1, <3>1
  <2>7. CASE WorkerKilled(t)
    BY <2>7 DEF WorkerKilled
  <2>8. QED
    BY <1>8, <2>2, <2>3, <2>4, <2>5, <2>6, <2>7 DEF Worker
<1>9. CASE Cron
  BY <1>1, <1>2, <1>9 DEF Cron, RequeueStuck, Store, AutoVacuum
<1>10. ASSUME NEW u \in Users, User(u) PROVE StillReleases(s, call')
  BY <1>1, <1>2, <1>10 DEF User, UserBegin, UserCommit, UserAbort
<1>11. CASE UNCHANGED call
  BY <1>2, <1>11
<1>12. QED
  BY <1>5, <1>6, <1>7, <1>8, <1>9, <1>10, <1>11
  DEF Next, Runner, RunnerStart, RunnerError, Notified, EtaDue, ServerCrash, vars

(* A row is born with its graph only.                                      *)
LEMMA BornInGraph ==
  ASSUME TypeInv, LifeInv, [Next]_vars, NEW c \in Jobs, row[c].state = "new",
         row'[c] # row[c]
  PROVE  \E g \in Graphs : Submit(g) /\ c \in g
<1>1. ASSUME NEW j \in Jobs, NEW r, NEW calls, Store(j, r, calls),
             row[j].state # "new"
      PROVE  FALSE
  BY <1>1 DEF Store, TypeInv, TypeOK
<1>2. ASSUME NEW j, NEW calls, SetJobPending(j, calls) PROVE FALSE
  BY <1>1, <1>2 DEF SetJobPending
<1>3. ASSUME NEW s \in Slots, Thread(s) PROVE FALSE
  BY <1>2, <1>3 DEF Thread, CallTimeout, CallRefused, CallFailed
<1>4. ASSUME NEW s \in Slots, Worker(s) PROVE FALSE
  <2>1. /\ call[s].pc # "idle" => call[s].job \in Jobs
        /\ call[s].pc = "performing" => row[call[s].job].state = "started"
    BY DEF TypeInv, CallHasJob, LifeInv, ExecInv, ExecStarted, Executing
  <2>2. CASE StartJob(s)
    BY <1>1, <2>1, <2>2 DEF StartJob
  <2>3. CASE Outcome(s)
    BY <1>1, <2>1, <2>3
    DEF Outcome, JobDone, JobRetry, JobRetryIgnored, JobConflict, JobFailed, Postpone
  <2>4. CASE SkipJob(s) \/ BeginPerform(s)
    BY <2>4 DEF SkipJob, BeginPerform
  <2>5. CASE ReleaseDependents(s)
    BY <2>5 DEF ReleaseDependents, WaitingChildren
  <2>6. CASE WorkerKilled(s)
    BY <1>2, <2>6 DEF WorkerKilled
  <2>7. QED
    BY <1>4, <2>2, <2>3, <2>4, <2>5, <2>6 DEF Worker
<1>5. ASSUME NEW s \in Slots, NEW j \in Jobs, RunJob(s, j) PROVE FALSE
  BY <1>1, <1>5 DEF RunJob, Exists, Absent
<1>6. ASSUME NEW j \in Jobs, RequeueStuck(j) \/ AutoVacuum(j) PROVE FALSE
  BY <1>1, <1>6 DEF RequeueStuck, AutoVacuum, TypeInv, TypeOK
<1>7. ASSUME NEW u \in Users, UserCommit(u) PROVE FALSE
  <2> DEFINE t == txn[u]
  <2>1. t \in Txn /\ t.op # "none" /\ t.job \in Jobs
    BY <1>7 DEF UserCommit, TypeInv, TypeOK, TxnHasJob
  <2>2. c \in OpWrites(t) /\ row[c] = t.snap[c]
    BY <1>7 DEF UserCommit, LifeInv, ExecInv, Snapshots
  <2>3. c # t.job
    BY <2>1, <2>2 DEF LifeInv, SnapsBehind, Absent
  <2>4. t.snap[c].state = "wait_dependencies"
    BY <2>1, <2>2, <2>3, OperationEffect DEF OpWrites
  <2>5. QED
    BY <2>2, <2>4
<1>8. ASSUME NEW g \in Graphs, Submit(g) PROVE c \in g
  BY <1>8 DEF Submit
<1>9. QED
  BY <1>3, <1>4, <1>5, <1>6, <1>7, <1>8
  DEF Next, Runner, RunnerStart, RunnerError, Notified, EtaDue, ServerCrash, Cron, User,
      UserBegin, UserAbort, vars

LEMMA WakeupStep ==
  ASSUME UsersCareful, UsersFinishNothing, GraphsClosed,
         "worker" \notin Faults, "server" \notin Faults,
         TypeInv, LifeInv, NoLostWakeup, [Next]_vars
  PROVE  NoLostWakeup'
<1> SUFFICES ASSUME NEW c \in Jobs, row'[c].state = "wait_dependencies",
                    \A p \in Parents[c] : row'[p].state = "done",
                    \A p \in Parents[c] : ~Releasing(p)'
             PROVE  FALSE
  BY DEF NoLostWakeup, Forgotten, Releasing
<1>1. row[c].state \in {"new", "wait_dependencies"} /\ Parents[c] \subseteq Jobs
  BY LivesStep, JobsAssumption DEF Lives, Moves
<1>2. CASE row[c].state = "new"
  <2>1. PICK g \in Graphs : Submit(g) /\ c \in g
    BY <1>2, BornInGraph
  <2>2. QED
    BY <1>1, <2>1 DEF Submit, NoRow, GraphsClosed
<1>3. CASE row[c].state = "wait_dependencies"
  <2>1. \A p \in Parents[c] : row[p].state = "done"
    BY <1>1, DoneIsReleasing
  <2>2. PICK s \in Slots : call[s].pc = "dependents" /\ call[s].job \in Parents[c]
    BY <1>3, <2>1 DEF NoLostWakeup, Forgotten
  <2>3. ReleaseDependents(s)
    <3>1. ~ReleaseDependents(s) => StillReleases(s, call')
      BY <2>2, ReleasingLasts
    <3>2. QED
      BY <2>2, <3>1 DEF StillReleases, Releasing
  <2>4. c \in WaitingChildren(call[s].job, row, "done")
    BY <1>3, <2>1, <2>2 DEF WaitingChildren, ParentsIn, Absent
  <2>5. row'[c] = [row[c] EXCEPT !.state = "pending"]
    BY <2>3, <2>4 DEF ReleaseDependents
  <2>6. QED
    BY <2>5 DEF TypeInv, TypeOK, Row
<1>4. QED
  BY <1>1, <1>2, <1>3

(* A waiting job whose parents are all done is about to be released: the   *)
(* workers of two parents that end at the same time do not leave it to     *)
(* each other (_enqueue_dependent_jobs, Job.enqueue_waiting).  A worker    *)
(* that dies before it releases, and a user who sets a parent to done      *)
(* while another one ends, are excluded because they do lose the release.  *)
THEOREM NoLostWakeupTheorem ==
  ASSUME UsersCareful, UsersFinishNothing, GraphsClosed,
         "worker" \notin Faults, "server" \notin Faults
  PROVE  Spec => []NoLostWakeup
<1>1. Init => NoLostWakeup
  BY DEF Init, NoRow, NoLostWakeup, Forgotten
<1>2. TypeInv /\ LifeInv /\ NoLostWakeup /\ [Next]_vars => NoLostWakeup'
  BY WakeupStep
<1>3. QED
  BY <1>1, <1>2, LifeCorrect, PTL DEF Spec
=============================================================================
