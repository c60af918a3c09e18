------------------------------ MODULE JobQueue ------------------------------
(***************************************************************************)
(* The life of the rows of queue_job (src/addons/queue_job): the           *)
(* transactions that write them, the runner that dispatches them under a   *)
(* capacity, the HTTP calls by which it asks a worker to run one, the      *)
(* worker's transactions, the cron jobs and the buttons of the users.      *)
(*                                                                         *)
(* One channel, root, is modelled here: the deployed configuration files   *)
(* leave the runner with its default "root:1".  Priorities, throttling and *)
(* sub-channels choose which pending job goes first; here any of them may. *)
(***************************************************************************)
EXTENDS Integers, FiniteSets

CONSTANTS
  Jobs,        \* the uuids of the rows
  NoJob,       \* the absence of a job
  Graphs,      \* sets of jobs, each created by one delay()
  Parents,     \* [Jobs -> SUBSET Jobs], the dependencies.depends_on of a row
  Capacity,    \* capacity of the root channel, 0 is unlimited
  MaxRetries,  \* max_retries of every job, 0 is infinite
  RetryBound,  \* bound: largest value of the retry column that is explored
  Slots,       \* bound: HTTP calls that may be outstanding at one time
  Users,       \* concurrent requests of users
  UserOps,     \* pairs <<operation, state>> a user may ask for
  Faults       \* which of FaultKinds may happen

FaultKinds == {"timeout", "refused", "conflict", "worker", "runner", "server"}

Operations == {"requeue", "done", "cancelled", "delete"}

(* "new" and "deleted" stand for the absence of a row, before and after.   *)
Absent == {"new", "deleted"}

States == Absent \cup {"wait_dependencies", "pending", "enqueued", "started",
                       "done", "cancelled", "failed"}

ASSUME JobsAssumption ==
  /\ NoJob \notin Jobs
  /\ Graphs \subseteq SUBSET Jobs
  /\ Parents \in [Jobs -> SUBSET Jobs]

ASSUME BoundsAssumption ==
  /\ Capacity \in Nat
  /\ MaxRetries \in Nat
  /\ RetryBound \in Nat

ASSUME EnvironmentAssumption ==
  /\ UserOps \subseteq Operations \X States
  /\ Faults \subseteq FaultKinds

VARIABLES
  row,         \* the committed table queue_job
  runnerUp,    \* the runner is connected, holds the lock and listens
  queue,       \* root._queue: pending jobs without an eta, or whose eta is past
  etaQueue,    \* root._eta_queue: pending jobs set aside until their eta
  running,     \* root._running
  moved,       \* jobs whose ChannelJob has not the eta of the row any more
  notes,       \* uuids of the notifications the runner has not processed
  call,        \* GET /queue_job/runjob: its client thread and its worker
  txn          \* transactions of users, begun and not committed

manager == <<queue, etaQueue, running>>
vars    == <<row, runnerUp, queue, etaQueue, running, moved, notes, call, txn>>

Row == [state : States, retry : Nat, eta : BOOLEAN]

NoRow == [state |-> "new", retry |-> 0, eta |-> FALSE]

(* What a call is doing on the worker's side: waiting in the server's      *)
(* backlog, started (its first transaction is committed, the second has    *)
(* not read anything), performing, releasing the dependents, or answering  *)
(* with an error 500.                                                      *)
Pcs == {"idle", "backlog", "started", "performing", "dependents", "error"}

Call == [pc : Pcs, job : Jobs \cup {NoJob}, thread : BOOLEAN,
         stale : BOOLEAN, retry : Nat, eta : BOOLEAN]

IdleCall == [pc |-> "idle", job |-> NoJob, thread |-> FALSE,
             stale |-> FALSE, retry |-> 0, eta |-> FALSE]

Txn == [op : Operations \cup {"none"}, job : Jobs \cup {NoJob},
        snap : [Jobs -> Row], dirty : SUBSET Jobs]

IdleTxn == [op |-> "none", job |-> NoJob,
            snap |-> [j \in Jobs |-> NoRow], dirty |-> {}]

Exists(j) == row[j].state \notin Absent

Busy == {j \in Jobs : row[j].state \in {"enqueued", "started"}}

Executing(s) == call[s].pc \in {"started", "performing"}

Init ==
  /\ row = [j \in Jobs |-> NoRow]
  /\ runnerUp = FALSE
  /\ queue = {} /\ etaQueue = {} /\ running = {}
  /\ moved = {} /\ notes = {}
  /\ call = [s \in Slots |-> IdleCall]
  /\ txn = [u \in Users |-> IdleTxn]

-----------------------------------------------------------------------------
(* What a committed write of rows means for those who read the table.      *)

(* MUTANT: the trigger is missing.                                         *)
NotifyNobody(js) == notes' = notes

(* The trigger queue_job_notify reaches the runner if it is listening.     *)
Notify(js) == notes' = IF runnerUp THEN notes \cup js ELSE notes

(* Under REPEATABLE READ a transaction cannot update a row that another    *)
(* one has changed since its snapshot: the row is stale for the open       *)
(* transactions of the workers and of the users.                           *)
Stale(calls, js) ==
  [s \in Slots |->
     IF calls[s].pc = "performing" /\ calls[s].job \in js
     THEN [calls[s] EXCEPT !.stale = TRUE] ELSE calls[s]]

Dirty(txns, js) ==
  [u \in Users |-> IF txns[u].op = "none" THEN txns[u]
                   ELSE [txns[u] EXCEPT !.dirty = @ \cup js]]

(* The row of j becomes r while the calls become calls.                    *)
Store(j, r, calls) ==
  /\ row' = [row EXCEPT ![j] = r]
  /\ call' = Stale(calls, {j})
  /\ txn' = Dirty(txn, {j})
  /\ Notify({j})

(* The rows a join on queue_job finds: a parent that was deleted is not    *)
(* among them and holds nothing back.                                      *)
ParentsIn(j, r, states) ==
  \A p \in Parents[j] : r[p].state \in states \cup {"deleted"}

PendingState(j, r) ==
  IF ParentsIn(j, r, {"done"}) THEN "pending" ELSE "wait_dependencies"

(* MUTANT: one parent in the state is enough.                              *)
WaitingChildrenOfAny(j, r, state) ==
  {c \in Jobs : /\ j \in Parents[c] /\ r[j].state \notin Absent
                /\ r[c].state = "wait_dependencies"
                /\ \E p \in Parents[c] : r[p].state = state}

(* The waiting children of j all of whose parents are in the state given.  *)
WaitingChildren(j, r, state) ==
  {c \in Jobs : /\ j \in Parents[c] /\ r[j].state \notin Absent
                /\ r[c].state = "wait_dependencies"
                /\ ParentsIn(c, r, {state})}

-----------------------------------------------------------------------------
(* delay() creates the jobs of a graph in one transaction.                 *)
Submit(g) ==
  /\ \A j \in g : row[j].state = "new"
  /\ row' = [j \in Jobs |->
               IF j \in g
               THEN [NoRow EXCEPT !.state = IF Parents[j] = {} THEN "pending"
                                            ELSE "wait_dependencies"]
               ELSE row[j]]
  /\ txn' = Dirty(txn, g)
  /\ Notify(g)
  /\ UNCHANGED <<runnerUp, manager, moved, call>>

-----------------------------------------------------------------------------
(* The runner.                                                             *)

(* MUTANT: the start loads only the jobs that hold a slot.                 *)
RunnerStartWithoutPending ==
  /\ ~runnerUp
  /\ runnerUp' = TRUE
  /\ running' = Busy
  /\ UNCHANGED <<row, queue, etaQueue, moved, notes, call, txn>>

(* initialize_databases: take the lock, listen, load the jobs not done.    *)
RunnerStart ==
  /\ ~runnerUp
  /\ runnerUp' = TRUE
  /\ queue' = {j \in Jobs : row[j].state = "pending" /\ ~row[j].eta}
  /\ etaQueue' = {j \in Jobs : row[j].state = "pending" /\ row[j].eta}
  /\ running' = Busy
  /\ moved' = {} /\ notes' = {}
  /\ UNCHANGED <<row, call, txn>>

StopRunner ==
  /\ runnerUp' = FALSE
  /\ queue' = {} /\ etaQueue' = {} /\ running' = {}
  /\ moved' = {} /\ notes' = {}

(* An exception in the loop: close_databases drops what the runner knows   *)
(* and the connection; the threads of the calls go on.                     *)
RunnerError ==
  /\ "runner" \in Faults /\ runnerUp
  /\ StopRunner
  /\ UNCHANGED <<row, call, txn>>

(* process_notifications reads the row as it is now and hands it to the    *)
(* ChannelManager.  A row in wait_dependencies leaves the job where it is, *)
(* unless its properties changed.                                          *)
Notified(j) ==
  LET changed == j \in moved
      queued  == j \in queue \cup etaQueue
      state   == row[j].state
      keep    == \/ state = "pending" /\ queued /\ ~changed
                 \/ state = "wait_dependencies" /\ ~changed
      toQueue == state = "pending" /\ ~keep
  IN
  /\ runnerUp /\ j \in notes
  /\ notes' = notes \ {j}
  /\ moved' = moved \ {j}
  /\ queue' = IF keep THEN queue
              ELSE IF toQueue /\ ~row[j].eta THEN queue \cup {j}
              ELSE queue \ {j}
  /\ etaQueue' = IF keep THEN etaQueue
                 ELSE IF toQueue /\ row[j].eta THEN etaQueue \cup {j}
                 ELSE etaQueue \ {j}
  /\ running' = IF keep THEN running
                ELSE IF state \in {"enqueued", "started"} THEN running \cup {j}
                ELSE running \ {j}
  /\ UNCHANGED <<row, runnerUp, call, txn>>

(* The eta of a job set aside is past: it competes with the others, its    *)
(* ChannelJob forgets the eta.                                             *)
EtaDue(j) ==
  /\ runnerUp /\ j \in etaQueue
  /\ etaQueue' = etaQueue \ {j}
  /\ queue' = queue \cup {j}
  /\ moved' = moved \cup {j}
  /\ UNCHANGED <<row, runnerUp, running, notes, call, txn>>

(* MUTANT: an off-by-one.                                                  *)
HasCapacityPlusOne == Capacity = 0 \/ Cardinality(running) <= Capacity

HasCapacity == Capacity = 0 \/ Cardinality(running) < Capacity

(* run_jobs: the job popped from the queue is running for the channel, its *)
(* row is set to enqueued whatever it holds by now, and a thread asks the  *)
(* server to run it.                                                       *)
RunJob(s, j) ==
  /\ runnerUp /\ j \in queue /\ HasCapacity
  /\ call[s] = IdleCall
  /\ queue' = queue \ {j}
  /\ running' = running \cup {j}
  /\ LET calls == [call EXCEPT ![s].pc = "backlog", ![s].job = j,
                               ![s].thread = TRUE]
     IN IF Exists(j)
        THEN Store(j, [row[j] EXCEPT !.state = "enqueued"], calls)
        ELSE call' = calls /\ UNCHANGED <<row, txn, notes>>
  /\ UNCHANGED <<runnerUp, etaQueue, moved>>

-----------------------------------------------------------------------------
(* The thread that waits one second for the answer to a call.              *)

(* MUTANT: the UPDATE without its condition on the state.                  *)
SetJobPendingUnchecked(j, calls) ==
  IF j \in Jobs /\ Exists(j)
  THEN Store(j, [row[j] EXCEPT !.state = "pending"], calls)
  ELSE call' = calls /\ UNCHANGED <<row, txn, notes>>

(* set_job_pending: only a row still enqueued is reset.                    *)
SetJobPending(j, calls) ==
  IF j \in Jobs /\ row[j].state = "enqueued"
  THEN Store(j, [row[j] EXCEPT !.state = "pending"], calls)
  ELSE call' = calls /\ UNCHANGED <<row, txn, notes>>

(* requests.Timeout: the thread ends, the request stays with the server.   *)
CallTimeout(s) ==
  /\ "timeout" \in Faults
  /\ call[s].thread /\ call[s].pc # "error"
  /\ SetJobPending(call[s].job, [call EXCEPT ![s].thread = FALSE])
  /\ UNCHANGED <<runnerUp, manager, moved>>

(* The request never reaches a worker: connection error or HTTP error.     *)
CallRefused(s) ==
  /\ "refused" \in Faults
  /\ call[s].thread /\ call[s].pc = "backlog"
  /\ SetJobPending(call[s].job, [call EXCEPT ![s] = IdleCall])
  /\ UNCHANGED <<runnerUp, manager, moved>>

(* The error 500 of a failed job, through raise_for_status.                *)
CallFailed(s) ==
  /\ call[s].pc = "error"
  /\ SetJobPending(call[s].job, [call EXCEPT ![s] = IdleCall])
  /\ UNCHANGED <<runnerUp, manager, moved>>

-----------------------------------------------------------------------------
(* The worker: RunJobController.runjob.                                    *)

(* MUTANT: the SELECT without its condition on the state.                  *)
StartJobUnchecked(s) ==
  LET j == call[s].job IN
  /\ call[s].pc = "backlog" /\ Exists(j)
  /\ Store(j, [row[j] EXCEPT !.state = "started"],
           [call EXCEPT ![s].pc = "started", ![s].retry = row[j].retry,
                        ![s].eta = row[j].eta])
  /\ UNCHANGED <<runnerUp, manager, moved>>

(* The row is enqueued and locked FOR UPDATE: it is started and committed. *)
StartJob(s) ==
  LET j == call[s].job IN
  /\ call[s].pc = "backlog" /\ row[j].state = "enqueued"
  /\ Store(j, [row[j] EXCEPT !.state = "started"],
           [call EXCEPT ![s].pc = "started", ![s].retry = row[j].retry,
                        ![s].eta = row[j].eta])
  /\ UNCHANGED <<runnerUp, manager, moved>>

(* "was requested to run job, but it does not exist, or is not enqueued".  *)
SkipJob(s) ==
  /\ call[s].pc = "backlog" /\ row[call[s].job].state # "enqueued"
  /\ call' = [call EXCEPT ![s] = IdleCall]
  /\ UNCHANGED <<row, runnerUp, manager, moved, notes, txn>>

(* The first statement of the second transaction takes its snapshot.       *)
BeginPerform(s) ==
  /\ call[s].pc = "started"
  /\ call' = [call EXCEPT ![s].pc = "performing"]
  /\ UNCHANGED <<row, runnerUp, manager, moved, notes, txn>>

(* MUTANT: the dependents are forgotten.                                   *)
JobDoneAlone(s) ==
  LET j == call[s].job IN
  /\ call[s].pc = "performing" /\ ~call[s].stale
  /\ Store(j, [state |-> "done", retry |-> call[s].retry + 1,
               eta |-> call[s].eta], [call EXCEPT ![s] = IdleCall])
  /\ UNCHANGED <<runnerUp, manager, moved>>

(* The function returned: done is stored with the columns as loaded and    *)
(* committed with the effects of the function.                             *)
JobDone(s) ==
  LET j == call[s].job IN
  /\ call[s].pc = "performing" /\ ~call[s].stale
  /\ Store(j, [state |-> "done", retry |-> call[s].retry + 1,
               eta |-> call[s].eta],
           [call EXCEPT ![s].pc = "dependents"])
  /\ moved' = IF row[j].eta # call[s].eta THEN moved \cup {j} ELSE moved
  /\ UNCHANGED <<runnerUp, manager>>

(* retry_postpone, in a cursor of its own.                                 *)
Postpone(s, retry) ==
  LET j == call[s].job IN
  /\ retry <= RetryBound
  /\ Store(j, [state |-> PendingState(j, row), retry |-> retry, eta |-> TRUE],
           [call EXCEPT ![s] = IdleCall])
  /\ moved' = moved \cup {j}
  /\ UNCHANGED <<runnerUp, manager>>

(* MUTANT: one try too many.                                               *)
JobRetryOnceMore(s) ==
  /\ call[s].pc = "performing"
  /\ MaxRetries = 0 \/ call[s].retry + 1 <= MaxRetries
  /\ Postpone(s, call[s].retry + 1)

(* The function raised RetryableJobError and tries are left.               *)
JobRetry(s) ==
  /\ call[s].pc = "performing"
  /\ MaxRetries = 0 \/ call[s].retry + 1 < MaxRetries
  /\ Postpone(s, call[s].retry + 1)

(* MUTANT: a try that was not counted is taken back.                       *)
JobRetryTakenBack(s) ==
  /\ call[s].pc = "performing"
  /\ Postpone(s, call[s].retry - 1)

(* RetryableJobError(ignore_retry=True): the try is not counted.           *)
JobRetryIgnored(s) ==
  /\ call[s].pc = "performing"
  /\ Postpone(s, call[s].retry)

(* An OperationalError of concurrency, in the function or on the store of  *)
(* a stale row, is turned into a RetryableJobError outside of perform().   *)
JobConflict(s) ==
  /\ call[s].pc = "performing"
  /\ "conflict" \in Faults \/ call[s].stale
  /\ Postpone(s, call[s].retry + 1)

(* Any other exception, or the last try: failed is stored in a cursor of   *)
(* its own and the exception goes up to the answer of the call.            *)
JobFailed(s) ==
  LET j == call[s].job IN
  /\ call[s].pc = "performing"
  /\ Store(j, [state |-> "failed", retry |-> call[s].retry + 1,
               eta |-> call[s].eta],
           [call EXCEPT ![s] = IF call[s].thread
                               THEN [@ EXCEPT !.pc = "error"] ELSE IdleCall])
  /\ moved' = IF row[j].eta # call[s].eta THEN moved \cup {j} ELSE moved
  /\ UNCHANGED <<runnerUp, manager>>

(* _enqueue_dependent_jobs, in the transaction after the one that stored   *)
(* done.                                                                   *)
ReleaseDependents(s) ==
  LET cs == WaitingChildren(call[s].job, row, "done") IN
  /\ call[s].pc = "dependents"
  /\ row' = [c \in Jobs |-> IF c \in cs
                            THEN [row[c] EXCEPT !.state = "pending"]
                            ELSE row[c]]
  /\ call' = Stale([call EXCEPT ![s] = IdleCall], cs)
  /\ txn' = Dirty(txn, cs)
  /\ Notify(cs)
  /\ UNCHANGED <<runnerUp, manager, moved>>

(* The worker process dies, on a limit of time or memory or killed: the    *)
(* open transaction is rolled back.  A thread still waiting sees an error. *)
WorkerKilled(s) ==
  /\ "worker" \in Faults
  /\ call[s].pc \in {"started", "performing", "dependents"}
  /\ LET calls == [call EXCEPT ![s] = IdleCall]
     IN IF call[s].thread
        THEN SetJobPending(call[s].job, calls)
        ELSE call' = calls /\ UNCHANGED <<row, txn, notes>>
  /\ UNCHANGED <<runnerUp, manager, moved>>

(* The whole server stops: runner, threads, workers and requests of users. *)
ServerCrash ==
  /\ "server" \in Faults
  /\ StopRunner
  /\ call' = [s \in Slots |-> IdleCall]
  /\ txn' = [u \in Users |-> IdleTxn]
  /\ UNCHANGED row

-----------------------------------------------------------------------------
(* The cron jobs.                                                          *)

(* MUTANT: enqueued_delta is 0, enqueued jobs are left alone.              *)
RequeueStuckNever(j) == row[j].state = "enqueued" /\ UNCHANGED vars

(* requeue_stuck_jobs: enqueued for five minutes; the thread of its call   *)
(* waits one second.  started_delta is 0: started jobs are left alone.     *)
RequeueStuck(j) ==
  /\ row[j].state = "enqueued"
  /\ \A s \in Slots : call[s].job = j => ~call[s].thread
  /\ Store(j, [row[j] EXCEPT !.state = PendingState(j, row), !.retry = 0], call)
  /\ UNCHANGED <<runnerUp, manager, moved>>

(* autovacuum deletes rows that were resolved days ago; the deletion of a  *)
(* done row is not notified.                                               *)
AutoVacuum(j) ==
  /\ row[j].state \in {"done", "cancelled"}
  /\ \A s \in Slots : call[s].job # j
  /\ row' = [row EXCEPT ![j].state = "deleted"]
  /\ call' = Stale(call, {j})
  /\ txn' = Dirty(txn, {j})
  /\ Notify(IF row[j].state = "done" THEN {} ELSE {j})
  /\ UNCHANGED <<runnerUp, manager, moved>>

-----------------------------------------------------------------------------
(* The buttons and wizards: one transaction each, on a snapshot.           *)

UserBegin(u, op, j) ==
  /\ txn[u].op = "none"
  /\ Exists(j) /\ <<op, row[j].state>> \in UserOps
  /\ op = "requeue" => row[j].state # "wait_dependencies"
  /\ txn' = [txn EXCEPT ![u] = [op |-> op, job |-> j, snap |-> row,
                                dirty |-> {}]]
  /\ UNCHANGED <<row, runnerUp, manager, moved, notes, call>>

(* The table as the transaction leaves it, from its snapshot.              *)
AfterOp(t) ==
  LET set(state) == [t.snap EXCEPT ![t.job].state = state]
      children   == WaitingChildren(t.job, set(t.op), t.op)
      follow     == IF t.op = "done" THEN "pending" ELSE "cancelled"
  IN CASE t.op = "requeue" ->
            [t.snap EXCEPT ![t.job].state = PendingState(t.job, t.snap),
                           ![t.job].retry = 0]
       [] t.op = "delete" -> set("deleted")
       [] OTHER ->
            [j \in Jobs |-> IF j \in children
                            THEN [t.snap[j] EXCEPT !.state = follow]
                            ELSE set(t.op)[j]]

OpWrites(t) == {t.job} \cup {j \in Jobs : AfterOp(t)[j] # t.snap[j]}

UserCommit(u) ==
  LET t  == txn[u]
      js == OpWrites(t)
  IN
  /\ t.op # "none" /\ js \cap t.dirty = {}
  /\ row' = [j \in Jobs |-> IF j \in js THEN AfterOp(t)[j] ELSE row[j]]
  /\ call' = Stale(call, js)
  /\ txn' = Dirty([txn EXCEPT ![u] = IdleTxn], js)
  /\ Notify(IF t.op = "delete" /\ t.snap[t.job].state = "done" THEN {} ELSE js)
  /\ UNCHANGED <<runnerUp, manager, moved>>

(* A serialization failure: the request starts again with a new snapshot.  *)
UserAbort(u) ==
  /\ txn[u].op # "none" /\ OpWrites(txn[u]) \cap txn[u].dirty # {}
  /\ txn' = [txn EXCEPT ![u] = IdleTxn]
  /\ UNCHANGED <<row, runnerUp, manager, moved, notes, call>>

-----------------------------------------------------------------------------
Runner ==
  \/ RunnerStart
  \/ RunnerError
  \/ \E j \in Jobs : Notified(j) \/ EtaDue(j)
  \/ \E s \in Slots, j \in Jobs : RunJob(s, j)

Thread(s) == CallTimeout(s) \/ CallRefused(s) \/ CallFailed(s)

Outcome(s) == \/ JobDone(s) \/ JobRetry(s) \/ JobRetryIgnored(s)
              \/ JobConflict(s) \/ JobFailed(s)

Worker(s) == \/ StartJob(s) \/ SkipJob(s) \/ BeginPerform(s) \/ Outcome(s)
             \/ ReleaseDependents(s) \/ WorkerKilled(s)

Cron == \E j \in Jobs : RequeueStuck(j) \/ AutoVacuum(j)

User(u) == \/ \E op \in Operations, j \in Jobs : UserBegin(u, op, j)
           \/ UserCommit(u)
           \/ UserAbort(u)

Next ==
  \/ \E g \in Graphs : Submit(g)
  \/ Runner
  \/ \E s \in Slots : Thread(s) \/ Worker(s)
  \/ ServerCrash
  \/ Cron
  \/ \E u \in Users : User(u)

Spec == Init /\ [][Next]_vars

(* The runner's loop, the threads, the workers and the cron keep running.  *)
(* Strong fairness where another actor can disable the step and enable it  *)
(* again: among finitely many jobs the queue's order (eta, priority, date) *)
(* does not pass over one for ever, and the backlog of the server does not *)
(* outlast each time the second that the thread of a job waits.  Nothing   *)
(* makes a fault, a user or the outcome of a job happen.                   *)
Fairness ==
  /\ WF_vars(RunnerStart)
  /\ \A j \in Jobs : /\ WF_vars(Notified(j)) /\ SF_vars(EtaDue(j))
                     /\ WF_vars(RequeueStuck(j))
                     /\ SF_vars(\E s \in Slots : RunJob(s, j))
                     /\ SF_vars(\E s \in Slots : call[s].job = j /\ StartJob(s))
  /\ \A s \in Slots : /\ WF_vars(CallTimeout(s)) /\ WF_vars(CallFailed(s))
                      /\ WF_vars(SkipJob(s)) /\ WF_vars(BeginPerform(s))
                      /\ WF_vars(Outcome(s)) /\ WF_vars(ReleaseDependents(s))

FairSpec == Spec /\ Fairness

-----------------------------------------------------------------------------
TypeOK ==
  /\ row \in [Jobs -> Row]
  /\ runnerUp \in BOOLEAN
  /\ queue \subseteq Jobs /\ etaQueue \subseteq Jobs /\ running \subseteq Jobs
  /\ moved \subseteq Jobs /\ notes \subseteq Jobs
  /\ call \in [Slots -> Call]
  /\ txn \in [Users -> Txn]

(* The rows sent to the workers never outnumber the capacity of root,      *)
(* whatever requests time out, workers die, runners restart or users do.   *)
CapacityRespected == Capacity # 0 => Cardinality(Busy) <= Capacity

(* A job is never run by two workers at once, although the same job may    *)
(* have several requests in the backlog of the server (README: runjob      *)
(* "only accepts to run jobs that are enqueued").                          *)
OneExecution ==
  \A s, t \in Slots :
    Executing(s) /\ Executing(t) /\ call[s].job = call[t].job => s = t

(* No slot of the channel is held for a row that is not being run, once    *)
(* the notifications about it are processed.                               *)
NoPhantomSlot ==
  runnerUp => \A j \in running \ notes : j \in Busy

(* What a dead worker may leave: a started job that nobody runs, a waiting  *)
(* job whose parents are all done and that nobody is about to release.     *)
Orphaned(j)  == row[j].state = "started" /\ \A s \in Slots : call[s].job # j
Forgotten(c) ==
  /\ row[c].state = "wait_dependencies"
  /\ \A p \in Parents[c] : row[p].state = "done"
  /\ ~\E s \in Slots : call[s].pc = "dependents" /\ call[s].job \in Parents[c]

(* A waiting job whose parents are all done is about to be released by the *)
(* worker of one of them.                                                  *)
NoLostWakeup == \A c \in Jobs : ~Forgotten(c)

(* A job that has used all its tries is not queued for another one.        *)
TriesBounded ==
  MaxRetries # 0 => \A j \in Jobs :
    row[j].state \in {"pending", "enqueued", "started"}
      => row[j].retry < MaxRetries

(* A job that is done or cancelled stays so until its row is deleted: no   *)
(* dispatch, late answer or second execution brings it back.               *)
ResolvedIsFinal ==
  [][\A j \in Jobs : row[j].state \in {"done", "cancelled"} =>
       row'[j].state \in {row[j].state, "deleted"}]_vars

(* A job starts only when the parents it still has are done.               *)
ParentsFirst ==
  [][\A c \in Jobs :
       row[c].state # "started" /\ row'[c].state = "started"
         => ParentsIn(c, row, {"done"})]_vars

(* What the author of a job sees of its row: the way from pending to a     *)
(* worker is the queue's own affair.                                       *)
StageOf(state) ==
  CASE state = "new"                      -> "none"
    [] state = "wait_dependencies"        -> "waiting"
    [] state \in {"pending", "enqueued"}  -> "ready"
    [] state = "started"                  -> "running"
    [] OTHER                              -> state

Stage == [j \in Jobs |-> StageOf(row[j].state)]

Life == INSTANCE JobLifecycle WITH stage <- Stage

(* Whatever times out, dies, is retried or pressed, and however late the   *)
(* copy of the runner is, the rows keep what JobLifecycle promises.        *)
LifecycleKept == Life!Spec

(* A job that is pending, or waits for parents that are all done, is run   *)
(* in the end, unless a death has left a job that holds a slot, or a child, *)
(* for ever.                                                               *)
ReadyRuns ==
  \A c \in Jobs :
    (\/ row[c].state = "pending"
     \/ /\ row[c].state = "wait_dependencies"
        /\ \A p \in Parents[c] : row[p].state = "done")
    ~> (row[c].state = "started" \/ \E j \in Jobs : Orphaned(j) \/ Forgotten(j))

(* A job sent to a worker does not stay enqueued, even if the server stops *)
(* and the request with it.                                                *)
EnqueuedLeaves ==
  \A j \in Jobs : row[j].state = "enqueued" ~> row[j].state # "enqueued"
=============================================================================
