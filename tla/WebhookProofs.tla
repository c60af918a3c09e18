---------------------------- MODULE WebhookProofs ---------------------------
(***************************************************************************)
(* Theorems about WebhookProcessor for every set of contacts, events and   *)
(* workers, every number of deliveries and tries: the type invariant, that *)
(* a job that is done has posted its message, that no event is posted      *)
(* twice if no user archives a channel, and that a contact has one active  *)
(* channel if jobs run one at a time.                                      *)
(***************************************************************************)
EXTENDS WebhookProcessor, FiniteSetTheorems, TLAPS

(* The discipline of the users under which no event is posted twice.       *)
NoArchive == "archive" \notin Faults

-----------------------------------------------------------------------------
(* The inductive invariant.                                                *)

(* The state s of the database comes before b: rows are added, and a       *)
(* channel keeps its contact.                                              *)
Before(s, b) ==
  /\ Len(s.messages) <= Len(b.messages)
  /\ \A i \in 1 .. Len(s.messages) : s.messages[i] = b.messages[i]
  /\ Len(s.channels) <= Len(b.channels)
  /\ \A i \in 1 .. Len(s.channels) : s.channels[i].contact = b.channels[i].contact

JobsBefore(j, k) ==
  Len(j) <= Len(k) /\ \A d \in 1 .. Len(j) : j[d].event = k[d].event

SoundChannels(b) ==
  /\ Len(b.channels) <= MaxChannels
  /\ NoArchive => \A i \in 1 .. Len(b.channels) : b.channels[i].active

(* A channel of the contact, and the oldest if none is archived: the one   *)
(* that every search finds.                                                *)
Chosen(i, c, b) ==
  /\ i \in 1 .. Len(b.channels) /\ b.channels[i].contact = c
  /\ NoArchive => \A j \in 1 .. Len(b.channels) : b.channels[j].contact = c => i <= j

(* What a worker knows: its job; what it saw; that there was no message of *)
(* the event, when it posts one; the channel, once it has one; that the    *)
(* message is there, when it is about to end the job.                      *)
GoodWorker(r, j, b) ==
  /\ r.pc # "idle" => r.job \in 1 .. Len(j)
  /\ r.snap # NoSnap => Before(r.snap, b) /\ SoundChannels(r.snap)
  /\ r.pc = "post" =>
       r.snap # NoSnap /\ (Identified(j[r.job].event) => Posts(r.snap, j[r.job].event) = {})
  /\ r.pc \in {"flush", "final", "post"} => Chosen(r.channel, ContactOf[j[r.job].event], b)
  /\ r.pc \in {"duplicate", "answer"} => Posts(b, j[r.job].event) # {}

WorkersGood == \A w \in Workers : GoodWorker(worker[w], jobs, db)

MessagesChosen(b) ==
  \A m \in 1 .. Len(b.messages) :
    Chosen(b.messages[m].channel, ContactOf[b.messages[m].event], b)

DoneFound(j, b) ==
  \A d \in 1 .. Len(j) : j[d].state = "done" => Posts(b, j[d].event) # {}

NoTwice(b) ==
  NoArchive =>
    \A m, n \in 1 .. Len(b.messages) :
      b.messages[m].event = b.messages[n].event /\ Identified(b.messages[m].event) => m = n

Inv ==
  /\ TypeOK /\ WorkersGood /\ SoundChannels(db)
  /\ MessagesChosen(db) /\ DoneFound(jobs, db) /\ NoTwice(db)

-----------------------------------------------------------------------------
(* Lemmas on the state.                                                    *)

LEMMA NoSnapIsNone == NoSnap \notin Database
  BY DEF NoSnap, Database

(* search(..., limit=1) returns the oldest record there is.                *)
LEMMA FirstOldest ==
  ASSUME NEW n \in Nat, NEW ids \in SUBSET (1 .. n), ids # {}
  PROVE  First(ids) \in ids /\ \A j \in ids : First(ids) <= j
  <1> DEFINE Below(i) == {k \in ids : k <= i}
             T == {Below(i) : i \in ids}
  <1>1. IsWellFoundedOn(StrictSubsetOrdering(1 .. n), SUBSET (1 .. n))
    <2>1. FiniteSubsetsOf(1 .. n) = SUBSET (1 .. n)
      <3>1. IsFiniteSet(1 .. n)
        BY FS_Interval
      <3>2. QED
        BY <3>1, FS_FiniteSubsetsOfFinite
    <2>2. IsWellFoundedOn(StrictSubsetOrdering(1 .. n), FiniteSubsetsOf(1 .. n))
      BY FS_StrictSubsetOrderingWellFounded
    <2>3. QED
      BY <2>1, <2>2
  <1>2. T \subseteq SUBSET (1 .. n) /\ T # {}
    OBVIOUS
  <1>3. PICK t \in T : \A y \in T : ~(<<y, t>> \in StrictSubsetOrdering(1 .. n))
    <2> HIDE DEF T
    <2>1. QED
      BY <1>1, <1>2, WFMin
  <1>4. PICK i \in ids : t = Below(i)
    OBVIOUS
  <1>5. ASSUME NEW j \in ids PROVE i <= j
    <2>1. SUFFICES ASSUME j < i PROVE FALSE
      OBVIOUS
    <2>2. Below(j) \subseteq Below(i) /\ i \notin Below(j) /\ i \in Below(i)
      <3>1. ids \subseteq Int
        OBVIOUS
      <3>2. \A k \in ids : k <= j => k <= i
        BY <2>1, <3>1
      <3>3. ~(i <= j) /\ i <= i
        BY <2>1, <3>1
      <3>4. QED
        BY <3>2, <3>3
    <2>3. Below(j) \in T
      OBVIOUS
    <2>4. Below(j) \in SUBSET (1 .. n) /\ Below(i) \in SUBSET (1 .. n)
      OBVIOUS
    <2>5. <<Below(j), Below(i)>> \in StrictSubsetOrdering(1 .. n)
      <3> HIDE DEF Below
      <3>1. QED
        BY <2>2, <2>4 DEF StrictSubsetOrdering
    <2>6. QED
      BY <1>3, <1>4, <2>3, <2>5
  <1>6. QED
    BY <1>5 DEF First

LEMMA BeforeItself == \A b \in Database : Before(b, b)
  BY DEF Before, Database

LEMMA BeforeBefore ==
  ASSUME NEW a \in Database, NEW b \in Database, NEW c \in Database,
         Before(a, b), Before(b, c)
  PROVE  Before(a, c)
  BY DEF Before, Database

(* Messages stay.                                                          *)
LEMMA PostsKept ==
  ASSUME NEW a \in Database, NEW b \in Database, Before(a, b), NEW e
  PROVE  Posts(a, e) \subseteq Posts(b, e)
  BY DEF Posts, Before, Database

(* A new channel is younger than those there are.                          *)
LEMMA ChosenKept ==
  ASSUME NEW a \in Database, NEW b \in Database, Before(a, b), NEW i, NEW c, Chosen(i, c, a)
  PROVE  Chosen(i, c, b)
  <1>1. Len(a.channels) \in Nat /\ Len(b.channels) \in Nat
    BY DEF Database
  <1>2. ASSUME NoArchive, NEW j \in 1 .. Len(b.channels), b.channels[j].contact = c
        PROVE  i <= j
    <2>1. CASE j <= Len(a.channels)
      BY <1>1, <1>2, <2>1 DEF Before, Chosen
    <2>2. CASE j > Len(a.channels)
      BY <1>1, <1>2, <2>2 DEF Chosen
    <2>3. QED
      BY <1>1, <2>1, <2>2
  <1>3. QED
    BY <1>1, <1>2 DEF Chosen, Before

(* What a worker knows stays true while others work.                       *)
LEMMA GoodKept ==
  ASSUME NEW j \in Seq(Job), NEW k \in Seq(Job), JobsBefore(j, k),
         NEW a \in Database, NEW b \in Database, Before(a, b),
         NEW r \in WorkerState, GoodWorker(r, j, a)
  PROVE  GoodWorker(r, k, b)
  <1>1. r.pc # "idle" => r.job \in 1 .. Len(j) /\ r.job \in 1 .. Len(k)
    BY DEF GoodWorker, JobsBefore
  <1>2. r.pc # "idle" => k[r.job].event = j[r.job].event
    BY <1>1 DEF JobsBefore
  <1>3. r.snap # NoSnap => Before(r.snap, b) /\ SoundChannels(r.snap)
    <2>1. r.snap # NoSnap => r.snap \in Database
      BY DEF WorkerState
    <2>2. QED
      BY <2>1, BeforeBefore DEF GoodWorker
  <1>4. r.pc \in {"flush", "final", "post"} => Chosen(r.channel, ContactOf[k[r.job].event], b)
    BY <1>2, ChosenKept DEF GoodWorker
  <1>5. r.pc \in {"duplicate", "answer"} => Posts(b, k[r.job].event) # {}
    BY <1>2, PostsKept DEF GoodWorker
  <1>6. QED
    BY <1>1, <1>2, <1>3, <1>4, <1>5 DEF GoodWorker

LEMMA JobAt ==
  ASSUME NEW j \in Seq(Job), NEW d \in 1 .. Len(j)
  PROVE  j[d] \in Job /\ j[d].event \in Events /\ j[d].retry \in Nat
  <1>1. j[d] \in Job
    OBVIOUS
  <1>2. QED
    BY <1>1 DEF Job

LEMMA IdleGood ==
  /\ IdleWorker \in WorkerState /\ IdleWorker.job = None
  /\ \A j, b : GoodWorker(IdleWorker, j, b)
  <1>1. 0 \in 0 .. LocalTries - 1
    BY BoundsAssumption
  <1>2. QED
    BY <1>1 DEF IdleWorker, WorkerState, Pcs, None, NoSnap, GoodWorker

(* What an open transaction, or a new one, sees is not newer than the      *)
(* database.                                                               *)
LEMMA SeesBefore ==
  ASSUME Inv, NEW w \in Workers
  PROVE  Sees(w) \in Database /\ Before(Sees(w), db) /\ SoundChannels(Sees(w))
  <1>1. db \in Database /\ worker[w].snap \in {NoSnap} \cup Database
    BY DEF Inv, TypeOK, WorkerState
  <1>2. QED
    BY <1>1, BeforeItself DEF Sees, Inv, WorkersGood, GoodWorker

-----------------------------------------------------------------------------
(* Steps, by what they change.                                             *)

(* No worker moves.                                                        *)
LEMMA QuietStep ==
  ASSUME Inv, UNCHANGED worker, db' \in Database, jobs' \in Seq(Job),
         Before(db, db'), JobsBefore(jobs, jobs'),
         SoundChannels(db'), MessagesChosen(db'), DoneFound(jobs', db'), NoTwice(db')
  PROVE  Inv'
  <1>1. WorkersGood'
    <2>1. ASSUME NEW w \in Workers PROVE GoodWorker(worker[w], jobs', db')
      BY GoodKept DEF Inv, TypeOK, WorkersGood
    <2>2. QED
      BY <2>1 DEF WorkersGood
  <1>2. TypeOK'
    BY DEF Inv, TypeOK, JobsBefore
  <1>3. QED
    BY <1>1, <1>2 DEF Inv

(* One worker moves.                                                       *)
LEMMA WorkerStep ==
  ASSUME Inv, db' \in Database, jobs' \in Seq(Job),
         Before(db, db'), JobsBefore(jobs, jobs'),
         SoundChannels(db'), MessagesChosen(db'), DoneFound(jobs', db'), NoTwice(db'),
         NEW w \in Workers, NEW r \in WorkerState, Goes(w, r),
         r.job = None \/ r.job = worker[w].job \/ r.job \in 1 .. Len(jobs'),
         GoodWorker(r, jobs', db')
  PROVE  Inv'
  <1>1. ASSUME NEW v \in Workers
        PROVE  /\ worker'[v] \in WorkerState /\ GoodWorker(worker'[v], jobs', db')
               /\ worker'[v].job \in {None} \cup DOMAIN jobs'
    <2>1. worker[v].job \in {None} \cup DOMAIN jobs' /\ worker[w].job \in {None} \cup DOMAIN jobs'
      BY DEF Inv, TypeOK, JobsBefore
    <2>2. CASE v = w
      BY <2>1, <2>2 DEF Goes, Inv, TypeOK
    <2>3. CASE v # w
      <3>1. worker'[v] = worker[v] /\ worker[v] \in WorkerState
        BY <2>3 DEF Goes, Inv, TypeOK
      <3>2. GoodWorker(worker[v], jobs', db')
        BY <3>1, GoodKept DEF Inv, TypeOK, WorkersGood
      <3>3. QED
        BY <2>1, <3>1, <3>2
    <2>4. QED
      BY <2>2, <2>3
  <1>2. worker' \in [Workers -> WorkerState]
    BY DEF Goes, Inv, TypeOK
  <1>3. TypeOK' /\ WorkersGood'
    BY <1>1, <1>2 DEF TypeOK, WorkersGood
  <1>4. QED
    BY <1>3 DEF Inv

(* One worker moves within its job, in a database that it does not change. *)
LEMMA ReadStep ==
  ASSUME Inv, UNCHANGED <<db, jobs>>,
         NEW w \in Workers, NEW r \in WorkerState, Goes(w, r), r.job = worker[w].job,
         GoodWorker(r, jobs, db)
  PROVE  Inv'
  <1>1. db \in Database /\ jobs \in Seq(Job) /\ Before(db, db) /\ JobsBefore(jobs, jobs)
    BY BeforeItself DEF Inv, TypeOK, JobsBefore
  <1>2. QED
    BY <1>1, WorkerStep DEF Inv

(* The transaction of a job is over: the job k takes the place of the one  *)
(* of the worker.                                                          *)
LEMMA JobEnds ==
  ASSUME Inv, UNCHANGED db, NEW w \in Workers, worker[w].pc # "idle", Goes(w, IdleWorker),
         NEW k \in Job, k.event = Event(w), k.state = "done" => Posts(db, Event(w)) # {},
         jobs' = [jobs EXCEPT ![worker[w].job] = k]
  PROVE  Inv'
  <1>1. db \in Database /\ jobs \in Seq(Job) /\ Before(db, db)
    BY BeforeItself DEF Inv, TypeOK
  <1>2. worker[w].job \in 1 .. Len(jobs)
    BY DEF Inv, WorkersGood, GoodWorker
  <1>3. /\ jobs' \in Seq(Job) /\ Len(jobs') = Len(jobs) /\ JobsBefore(jobs, jobs')
        /\ \A i \in 1 .. Len(jobs) : jobs'[i] = IF i = worker[w].job THEN k ELSE jobs[i]
    <2> DEFINE d == worker[w].job
               K == [jobs EXCEPT ![d] = k]
    <2>1. k.event = jobs[d].event /\ d \in 1 .. Len(jobs)
      BY <1>2 DEF Event
    <2> HIDE DEF d
    <2>2. /\ K \in Seq(Job) /\ Len(K) = Len(jobs) /\ JobsBefore(jobs, K)
          /\ \A i \in 1 .. Len(jobs) : K[i] = IF i = d THEN k ELSE jobs[i]
      BY <1>1, <2>1 DEF JobsBefore
    <2>3. jobs' = K
      BY DEF d
    <2> HIDE DEF K
    <2>4. QED
      BY <2>2, <2>3 DEF d
  <1>4. DoneFound(jobs', db)
    BY <1>3 DEF DoneFound, Inv
  <1>5. QED
    BY <1>1, <1>3, <1>4, IdleGood, WorkerStep DEF Inv

LEMMA EndsKeeps ==
  ASSUME Inv, UNCHANGED db, NEW w \in Workers, worker[w].pc # "idle",
         NEW s \in {"done", "failed"}, s = "done" => Posts(db, Event(w)) # {}, Ends(w, s)
  PROVE  Inv'
  <1>1. worker[w].job \in 1 .. Len(jobs) /\ jobs \in Seq(Job)
    BY DEF Inv, WorkersGood, GoodWorker, TypeOK
  <1>2. jobs[worker[w].job] \in Job
    BY <1>1
  <1> DEFINE k == [jobs[worker[w].job] EXCEPT !.state = s]
  <1>3. k \in Job /\ k.event = Event(w) /\ k.state = s
    BY <1>2 DEF Job, Event
  <1>4. jobs' = [jobs EXCEPT ![worker[w].job] = k] /\ Goes(w, IdleWorker)
    BY DEF Ends
  <1> HIDE DEF k
  <1>5. QED
    BY <1>3, <1>4, JobEnds

LEMMA RetriesKeeps ==
  ASSUME Inv, UNCHANGED db, NEW w \in Workers, worker[w].pc # "idle",
         Retries(w) \/ Conflicts(w)
  PROVE  Inv'
  <1>1. worker[w].job \in 1 .. Len(jobs) /\ jobs \in Seq(Job)
    BY DEF Inv, WorkersGood, GoodWorker, TypeOK
  <1>2. jobs[worker[w].job] \in Job
    BY <1>1
  <1>3. ASSUME NEW n \in Nat, NEW s \in {"postponed", "failed"},
               jobs' = [jobs EXCEPT ![worker[w].job] =
                          [jobs[worker[w].job] EXCEPT !.retry = n, !.state = s]],
               Goes(w, IdleWorker)
        PROVE  Inv'
    <2> DEFINE k == [jobs[worker[w].job] EXCEPT !.retry = n, !.state = s]
    <2>1. k \in Job /\ k.event = Event(w) /\ k.state = s
      BY <1>2 DEF Job, Event
    <2>2. jobs' = [jobs EXCEPT ![worker[w].job] = k]
      BY <1>3
    <2> HIDE DEF k
    <2>3. QED
      BY <1>3, <2>1, <2>2, JobEnds
  <1>4. jobs[worker[w].job].retry \in Nat /\ MaxRetries \in Nat
    BY <1>2, BoundsAssumption DEF Job
  <1>5. CASE Retries(w)
    <2>1. jobs[worker[w].job].retry + 1 \in Nat
      BY <1>4
    <2>2. CASE jobs[worker[w].job].retry + 1 < MaxRetries
      BY <1>3, <1>5, <2>1, <2>2 DEF Retries
    <2>3. CASE ~(jobs[worker[w].job].retry + 1 < MaxRetries)
      BY <1>3, <1>5, <2>1, <2>3 DEF Retries
    <2>4. QED
      BY <2>2, <2>3
  <1>6. CASE Conflicts(w)
    <2> DEFINE n == IF jobs[worker[w].job].retry < MaxRetries
                    THEN jobs[worker[w].job].retry + 1 ELSE jobs[worker[w].job].retry
    <2>1. n \in Nat
      BY <1>4
    <2>2. /\ Goes(w, IdleWorker)
          /\ jobs' = [jobs EXCEPT ![worker[w].job] =
                        [jobs[worker[w].job] EXCEPT !.retry = n, !.state = "postponed"]]
      BY <1>1, <1>6 DEF Conflicts
    <2> HIDE DEF n
    <2>3. QED
      BY <1>3, <2>1, <2>2
  <1>7. QED
    BY <1>5, <1>6

(* The function starts again with a new transaction.                       *)
LEMMA TriesAgainKeeps ==
  ASSUME Inv, UNCHANGED db, NEW w \in Workers, worker[w].pc # "idle",
         NEW pc \in {"channel", "flush"}, TriesAgain(w, pc),
         pc = "flush" => worker[w].pc \in {"flush", "final", "post"}
  PROVE  Inv'
  <1>1. worker[w] \in WorkerState /\ GoodWorker(worker[w], jobs, db)
    BY DEF Inv, TypeOK, WorkersGood
  <1>2. CASE Conflicts(w)
    BY <1>2, RetriesKeeps
  <1>3. CASE ~Conflicts(w)
    <2> DEFINE r == [worker[w] EXCEPT !.pc = pc, !.snap = NoSnap, !.join = {},
                                      !.tries = worker[w].tries + 1]
    <2>1. worker[w].tries + 1 < LocalTries /\ Goes(w, r) /\ UNCHANGED jobs
      BY <1>3 DEF TriesAgain
    <2>2. worker[w].tries + 1 \in 0 .. LocalTries - 1
      BY <1>1, <2>1, BoundsAssumption DEF WorkerState
    <2>3. /\ r.pc = pc /\ r.snap = NoSnap /\ r.job = worker[w].job
          /\ r.channel = worker[w].channel
      BY <1>1 DEF WorkerState
    <2>4. r \in WorkerState
      BY <1>1, <2>2 DEF WorkerState, Pcs
    <2> HIDE DEF r
    <2>5. GoodWorker(r, jobs, db)
      BY <1>1, <2>3 DEF GoodWorker
    <2>6. QED
      BY <2>1, <2>3, <2>4, <2>5, ReadStep
  <1>4. QED
    BY <1>2, <1>3

-----------------------------------------------------------------------------
(* The queue.                                                              *)

LEMMA ReceiveKeeps ==
  ASSUME Inv, NEW e \in Events, Receive(e)
  PROVE  Inv'
  <1> DEFINE k == [event |-> e, retry |-> 0, state |-> "pending"]
  <1>1. k \in Job /\ k.state = "pending"
    BY DEF Job
  <1>2. jobs' = Append(jobs, k) /\ UNCHANGED <<db, worker>>
    BY DEF Receive
  <1> HIDE DEF k
  <1>3. jobs \in Seq(Job) /\ db \in Database /\ Before(db, db)
    BY BeforeItself DEF Inv, TypeOK
  <1>4. /\ jobs' \in Seq(Job) /\ Len(jobs') = Len(jobs) + 1
        /\ \A i \in 1 .. Len(jobs) : jobs'[i] = jobs[i]
        /\ jobs'[Len(jobs) + 1] = k
    BY <1>1, <1>2, <1>3
  <1>5. JobsBefore(jobs, jobs') /\ DoneFound(jobs', db)
    BY <1>1, <1>3, <1>4 DEF JobsBefore, DoneFound, Inv
  <1>6. QED
    BY <1>2, <1>3, <1>4, <1>5, QuietStep DEF Inv

(* A job changes its state and its tries, and is not done by that.         *)
LEMMA StateSet ==
  ASSUME Inv, NEW d \in 1 .. Len(jobs), NEW n \in Nat,
         NEW s \in {"pending", "postponed", "started", "failed"},
         jobs' = [jobs EXCEPT ![d] = [jobs[d] EXCEPT !.retry = n, !.state = s]]
  PROVE  /\ jobs' \in Seq(Job) /\ Len(jobs') = Len(jobs) /\ JobsBefore(jobs, jobs')
         /\ DoneFound(jobs', db)
  <1> DEFINE k == [jobs[d] EXCEPT !.retry = n, !.state = s]
  <1>1. jobs \in Seq(Job) /\ jobs[d] \in Job
    BY DEF Inv, TypeOK
  <1>2. k \in Job /\ k.event = jobs[d].event /\ k.state = s
    BY <1>1 DEF Job
  <1> HIDE DEF k
  <1>3. jobs' = [jobs EXCEPT ![d] = k]
    BY DEF k
  <1>4. /\ jobs' \in Seq(Job) /\ Len(jobs') = Len(jobs) /\ JobsBefore(jobs, jobs')
        /\ \A i \in 1 .. Len(jobs) : jobs'[i] = IF i = d THEN k ELSE jobs[i]
    <2> DEFINE K == [jobs EXCEPT ![d] = k]
    <2>1. /\ K \in Seq(Job) /\ Len(K) = Len(jobs) /\ JobsBefore(jobs, K)
          /\ \A i \in 1 .. Len(jobs) : K[i] = IF i = d THEN k ELSE jobs[i]
      BY <1>1, <1>2 DEF JobsBefore
    <2>2. jobs' = K
      BY <1>3
    <2> HIDE DEF K
    <2>3. QED
      BY <2>1, <2>2
  <1>5. DoneFound(jobs', db)
    BY <1>2, <1>4 DEF DoneFound, Inv
  <1>6. QED
    BY <1>4, <1>5

LEMMA QueueKeeps ==
  ASSUME Inv, NEW d \in DOMAIN jobs, EtaDue(d) \/ Requeue(d)
  PROVE  Inv'
  <1>1. jobs \in Seq(Job) /\ db \in Database /\ Before(db, db) /\ d \in 1 .. Len(jobs)
    BY BeforeItself DEF Inv, TypeOK
  <1>2. jobs[d] \in Job /\ jobs[d].retry \in Nat
    BY <1>1, JobAt
  <1>3. UNCHANGED <<db, worker>>
    BY DEF EtaDue, Requeue
  <1>4. CASE EtaDue(d)
    <2>1. jobs' = [jobs EXCEPT ![d] = [jobs[d] EXCEPT !.retry = jobs[d].retry,
                                                      !.state = "pending"]]
      <3>1. [jobs[d] EXCEPT !.retry = jobs[d].retry, !.state = "pending"]
              = [jobs[d] EXCEPT !.state = "pending"]
        BY <1>2 DEF Job
      <3>2. QED
        BY <1>4, <3>1 DEF EtaDue
    <2>2. QED
      BY <1>1, <1>2, <1>3, <2>1, StateSet, QuietStep DEF Inv
  <1>5. CASE Requeue(d)
    <2>1. jobs' = [jobs EXCEPT ![d] = [jobs[d] EXCEPT !.retry = 0, !.state = "pending"]]
      BY <1>1, <1>2, <1>5 DEF Requeue, Job
    <2>2. QED
      BY <1>1, <1>3, <2>1, StateSet, QuietStep DEF Inv
  <1>6. QED
    BY <1>4, <1>5

LEMMA DispatchKeeps ==
  ASSUME Inv, NEW w \in Workers, NEW d \in DOMAIN jobs, Dispatch(w, d)
  PROVE  Inv'
  <1>1. jobs \in Seq(Job) /\ db \in Database /\ Before(db, db) /\ d \in 1 .. Len(jobs)
    BY BeforeItself DEF Inv, TypeOK
  <1>2. jobs[d] \in Job /\ jobs[d].retry \in Nat
    BY <1>1, JobAt
  <1>3. jobs' = [jobs EXCEPT ![d] = [jobs[d] EXCEPT !.retry = jobs[d].retry,
                                                    !.state = "started"]]
    <2>1. [jobs[d] EXCEPT !.retry = jobs[d].retry, !.state = "started"]
            = [jobs[d] EXCEPT !.state = "started"]
      BY <1>2 DEF Job
    <2>2. QED
      BY <2>1 DEF Dispatch
  <1>4. /\ jobs' \in Seq(Job) /\ Len(jobs') = Len(jobs) /\ JobsBefore(jobs, jobs')
        /\ DoneFound(jobs', db)
    BY <1>1, <1>2, <1>3, StateSet
  <1> DEFINE r == [IdleWorker EXCEPT !.pc = "check", !.job = d]
  <1>5. Goes(w, r) /\ UNCHANGED db
    BY DEF Dispatch
  <1>6. r \in WorkerState /\ r.pc = "check" /\ r.job = d /\ r.snap = NoSnap
    <2>1. d \in Nat
      BY <1>1
    <2>2. IdleWorker \in WorkerState
      BY IdleGood
    <2>3. IdleWorker.snap = NoSnap
      BY DEF IdleWorker
    <2>4. QED
      BY <2>1, <2>2, <2>3 DEF WorkerState, Pcs
  <1> HIDE DEF r
  <1>7. GoodWorker(r, jobs', db)
    BY <1>1, <1>4, <1>6 DEF GoodWorker
  <1>8. QED
    BY <1>1, <1>4, <1>5, <1>6, <1>7, WorkerStep DEF Inv

-----------------------------------------------------------------------------
(* The steps of process_webhook_event.                                     *)

LEMMA CheckKeeps ==
  ASSUME Inv, NEW w \in Workers, CheckDuplicate(w)
  PROVE  Inv'
  <1> DEFINE found == Identified(Event(w)) /\ Posts(db, Event(w)) # {}
  <1>1. /\ worker[w] \in WorkerState /\ GoodWorker(worker[w], jobs, db)
        /\ db \in Database /\ Before(db, db) /\ SoundChannels(db)
    BY BeforeItself DEF Inv, TypeOK, WorkersGood
  <1>2. /\ worker[w].pc = "check" /\ UNCHANGED <<db, jobs>>
        /\ \E s \in {NoSnap, db}, pc \in {"partner", "error", "duplicate"} :
             /\ pc = "duplicate" => found
             /\ Goes(w, [worker[w] EXCEPT !.snap = s, !.pc = pc])
    <2>1. CASE ~found
      BY <2>1 DEF CheckDuplicate
    <2>2. CASE found /\ Locked(w)
      BY <2>2 DEF CheckDuplicate
    <2>3. CASE found /\ ~Locked(w)
      BY <2>3 DEF CheckDuplicate
    <2>4. QED
      BY <2>1, <2>2, <2>3 DEF CheckDuplicate
  <1>3. PICK s \in {NoSnap, db}, pc \in {"partner", "error", "duplicate"} :
          /\ pc = "duplicate" => found
          /\ Goes(w, [worker[w] EXCEPT !.snap = s, !.pc = pc])
    BY <1>2
  <1> DEFINE r == [worker[w] EXCEPT !.snap = s, !.pc = pc]
  <1>4. /\ r \in WorkerState /\ r.pc = pc /\ r.snap = s /\ r.job = worker[w].job
    BY <1>1 DEF WorkerState, Pcs
  <1>5. Goes(w, r)
    BY <1>3
  <1> HIDE DEF r
  <1>6. GoodWorker(r, jobs, db)
    BY <1>1, <1>2, <1>3, <1>4 DEF GoodWorker, Event
  <1>7. QED
    BY <1>2, <1>4, <1>5, <1>6, ReadStep

LEMMA EndKeeps ==
  ASSUME Inv, NEW w \in Workers, SkipDuplicate(w) \/ Fail(w) \/ Answer(w) \/ AddMembers(w)
  PROVE  Inv'
  <1>1. GoodWorker(worker[w], jobs, db)
    BY DEF Inv, WorkersGood
  <1>2. CASE SkipDuplicate(w) \/ Answer(w)
    <2>1. /\ worker[w].pc \in {"duplicate", "answer"} /\ UNCHANGED db /\ Ends(w, "done")
      BY <1>2 DEF SkipDuplicate, Answer
    <2>2. Posts(db, Event(w)) # {}
      BY <1>1, <2>1 DEF GoodWorker, Event
    <2>3. QED
      BY <2>1, <2>2, EndsKeeps
  <1>3. CASE Fail(w)
    BY <1>3, EndsKeeps DEF Fail
  <1>4. CASE AddMembers(w)
    BY <1>4, RetriesKeeps DEF AddMembers
  <1>5. QED
    BY <1>2, <1>3, <1>4

LEMMA ConflictKeeps ==
  ASSUME Inv, NEW w \in Workers, ChannelConflict(w) \/ FlushConflict(w) \/ PostConflict(w)
  PROVE  Inv'
  <1>1. CASE ChannelConflict(w)
    BY <1>1, TriesAgainKeeps DEF ChannelConflict
  <1>2. CASE FlushConflict(w)
    BY <1>2, TriesAgainKeeps DEF FlushConflict
  <1>3. CASE PostConflict(w)
    BY <1>3, TriesAgainKeeps, RetriesKeeps DEF PostConflict
  <1>4. QED
    BY <1>1, <1>2, <1>3

(* The database gets a partner, or a channel gets a job or its members.    *)
LEMMA SameRows ==
  ASSUME Inv, db' \in Database,
         db'.messages = db.messages, db'.channels = db.channels
  PROVE  /\ Before(db, db') /\ SoundChannels(db') /\ MessagesChosen(db') /\ NoTwice(db')
         /\ \A e : Posts(db', e) = Posts(db, e)
         /\ DoneFound(jobs, db')
  <1>1. db \in Database
    BY DEF Inv, TypeOK
  <1>2. Before(db, db') /\ \A e : Posts(db', e) = Posts(db, e)
    BY <1>1 DEF Before, Posts, Database
  <1>3. SoundChannels(db') /\ MessagesChosen(db') /\ NoTwice(db')
    BY DEF Inv, SoundChannels, MessagesChosen, Chosen, NoTwice
  <1>4. DoneFound(jobs, db')
    BY <1>2 DEF DoneFound, Inv
  <1>5. QED
    BY <1>2, <1>3, <1>4

LEMMA PartnerKeeps ==
  ASSUME Inv, NEW w \in Workers, FindPartner(w) \/ CreatePartner(w)
  PROVE  Inv'
  <1>1. /\ worker[w] \in WorkerState /\ GoodWorker(worker[w], jobs, db) /\ jobs \in Seq(Job)
        /\ db \in Database /\ Before(db, db) /\ SoundChannels(db) /\ worker[w].pc = "partner"
        /\ JobsBefore(jobs, jobs) /\ UNCHANGED jobs
    BY BeforeItself
       DEF Inv, TypeOK, WorkersGood, FindPartner, CreatePartner, JobsBefore
  <1>2. ASSUME NEW s \in {worker[w].snap, db}
        PROVE  LET r == [worker[w] EXCEPT !.pc = "channel", !.snap = s]
               IN  /\ r \in WorkerState /\ r.job = worker[w].job
                   /\ GoodWorker(r, jobs, db)
    <2> DEFINE r == [worker[w] EXCEPT !.pc = "channel", !.snap = s]
    <2>1. /\ r \in WorkerState /\ r.job = worker[w].job /\ r.pc = "channel" /\ r.snap = s
      BY <1>1 DEF WorkerState, Pcs
    <2> HIDE DEF r
    <2>2. GoodWorker(r, jobs, db)
      BY <1>1, <2>1 DEF GoodWorker
    <2>3. QED
      BY <2>1, <2>2 DEF r
  <1>3. [worker[w] EXCEPT !.pc = "channel"]
          = [worker[w] EXCEPT !.pc = "channel", !.snap = worker[w].snap]
    BY <1>1 DEF WorkerState
  <1>4. CASE UNCHANGED db
    <2>1. \E s \in {worker[w].snap, db} :
            Goes(w, [worker[w] EXCEPT !.pc = "channel", !.snap = s])
      <3>1. CASE FindPartner(w)
        BY <1>3, <3>1 DEF FindPartner
      <3>2. CASE CreatePartner(w) /\ Contact(w) \in db.partners
        BY <3>2 DEF CreatePartner
      <3>3. CASE CreatePartner(w) /\ Contact(w) \notin db.partners
        BY <1>3, <3>3 DEF CreatePartner
      <3>4. QED
        BY <3>1, <3>2, <3>3
    <2>2. PICK s \in {worker[w].snap, db} :
            Goes(w, [worker[w] EXCEPT !.pc = "channel", !.snap = s])
      BY <2>1
    <2> DEFINE r == [worker[w] EXCEPT !.pc = "channel", !.snap = s]
    <2>3. Goes(w, r) /\ r \in WorkerState /\ r.job = worker[w].job /\ GoodWorker(r, jobs, db)
      BY <1>2, <2>2
    <2> HIDE DEF r
    <2>4. QED
      BY <1>1, <1>4, <2>3, ReadStep
  <1>5. CASE ~UNCHANGED db
    <2> DEFINE P == db.partners \cup {Contact(w)}
               r == [worker[w] EXCEPT !.pc = "channel", !.snap = worker[w].snap]
    <2>1. db' = [db EXCEPT !.partners = P] /\ Goes(w, r)
      BY <1>3, <1>5 DEF CreatePartner, FindPartner
    <2>2. Contact(w) \in Contacts
      <3>1. worker[w].job \in 1 .. Len(jobs)
        BY <1>1 DEF GoodWorker
      <3>2. Event(w) \in Events
        BY <1>1, <3>1, JobAt DEF Event
      <3>3. QED
        BY <3>2, EventsAssumption DEF Contact
    <2>3. P \in SUBSET Contacts
      BY <1>1, <2>2 DEF Database
    <2>4. r \in WorkerState /\ r.job = worker[w].job /\ GoodWorker(r, jobs, db)
      BY <1>2
    <2> HIDE DEF P, r
    <2>5. db' \in Database /\ db'.messages = db.messages /\ db'.channels = db.channels
      BY <1>1, <2>1, <2>3 DEF Database
    <2>6. GoodWorker(r, jobs, db')
      BY <1>1, <2>4, <2>5, GoodKept, SameRows
    <2>7. QED
      BY <1>1, <2>1, <2>4, <2>5, <2>6, SameRows, WorkerStep
  <1>6. QED
    BY <1>4, <1>5

LEMMA ContactOfJob ==
  ASSUME Inv, NEW w \in Workers, worker[w].pc # "idle"
  PROVE  /\ worker[w].job \in 1 .. Len(jobs) /\ Event(w) \in Events /\ Contact(w) \in Contacts
         /\ Event(w) = jobs[worker[w].job].event /\ Contact(w) = ContactOf[Event(w)]
  <1>1. worker[w].job \in 1 .. Len(jobs) /\ jobs \in Seq(Job)
    BY DEF Inv, TypeOK, WorkersGood, GoodWorker
  <1>2. Event(w) \in Events
    BY <1>1, JobAt DEF Event
  <1>3. QED
    BY <1>1, <1>2, EventsAssumption DEF Event, Contact

(* The channel that a search finds is the one every search finds.          *)
LEMMA FindChannelKeeps ==
  ASSUME Inv, NEW w \in Workers, FindChannel(w)
  PROVE  Inv'
  <1> DEFINE S   == Sees(w)
             c   == Contact(w)
             ids == ActiveChannels(S, c)
             i   == First(ids)
             J   == {i} \ S.joined
             r   == [worker[w] EXCEPT !.pc = "flush", !.channel = i, !.snap = S, !.tries = 0,
                                      !.join = J]
  <1>1. /\ worker[w] \in WorkerState /\ db \in Database /\ worker[w].pc = "channel"
        /\ ids # {} /\ Goes(w, r) /\ UNCHANGED <<db, jobs>>
    BY DEF Inv, TypeOK, FindChannel
  <1>2. S \in Database /\ Before(S, db) /\ SoundChannels(S)
    BY SeesBefore
  <1>3. Len(S.channels) \in Nat /\ DOMAIN S.channels = 1 .. Len(S.channels)
    BY <1>2 DEF Database
  <1>4. /\ ids \in SUBSET (1 .. Len(S.channels))
        /\ \A k \in ids : S.channels[k].contact = c
        /\ NoArchive => \A k \in 1 .. Len(S.channels) : S.channels[k].contact = c => k \in ids
    BY <1>2, <1>3 DEF ActiveChannels, SoundChannels
  <1>5. i \in ids /\ \A k \in ids : i <= k
    <2> HIDE DEF ids, S
    <2>1. QED
      BY <1>1, <1>3, <1>4, FirstOldest
  <1>6. Chosen(i, c, S)
    <2> HIDE DEF i, ids, S, c
    <2>1. QED
      BY <1>4, <1>5 DEF Chosen
  <1>7. Chosen(i, c, db)
    <2> HIDE DEF i, S, c
    <2>1. QED
      BY <1>1, <1>2, <1>6, ChosenKept
  <1>8. i \in ChannelIds /\ MaxChannels \in Nat
    <2> HIDE DEF i, S, c
    <2>1. QED
      BY <1>2, <1>3, <1>6, BoundsAssumption DEF Chosen, SoundChannels, ChannelIds
  <1>9. J \in SUBSET ChannelIds /\ 0 \in 0 .. LocalTries - 1
    BY <1>8, BoundsAssumption
  <1> HIDE DEF i, S, J, ids
  <1>10. /\ r \in WorkerState /\ r.pc = "flush" /\ r.snap = S /\ r.job = worker[w].job
         /\ r.channel = i
    BY <1>1, <1>2, <1>8, <1>9 DEF WorkerState, Pcs
  <1> HIDE DEF r
  <1>11. worker[w].job \in 1 .. Len(jobs) /\ c = ContactOf[jobs[worker[w].job].event]
    BY <1>1, ContactOfJob
  <1>12. GoodWorker(r, jobs, db)
    BY <1>2, <1>7, <1>10, <1>11 DEF GoodWorker
  <1>13. QED
    BY <1>1, <1>10, <1>12, ReadStep

(* A channel is created only where none was seen: with none archived, none *)
(* older exists that a transaction could still find first.                 *)
LEMMA CreateChannelKeeps ==
  ASSUME Inv, NEW w \in Workers, CreateChannel(w)
  PROVE  Inv'
  <1> DEFINE n == Len(db.channels) + 1
             k == [contact |-> Contact(w), active |-> TRUE]
             C == Append(db.channels, k)
             S == Sees(w)
             r == [worker[w] EXCEPT !.pc = "members", !.channel = n, !.snap = S, !.tries = 0]
  <1>1. /\ worker[w] \in WorkerState /\ db \in Database /\ worker[w].pc = "channel"
        /\ jobs \in Seq(Job) /\ JobsBefore(jobs, jobs) /\ UNCHANGED jobs
        /\ n \in ChannelIds /\ Goes(w, r) /\ db' = [db EXCEPT !.channels = C]
    BY DEF Inv, TypeOK, CreateChannel, JobsBefore
  <1>2. S \in Database /\ Before(S, db) /\ SoundChannels(S)
    BY SeesBefore
  <1>3. worker[w].job \in 1 .. Len(jobs) /\ Contact(w) \in Contacts
    BY <1>1, ContactOfJob
  <1>4. /\ db.channels \in Seq([contact : Contacts, active : BOOLEAN])
        /\ k \in [contact : Contacts, active : BOOLEAN]
    BY <1>1, <1>3 DEF Database
  <1>5. /\ C \in Seq([contact : Contacts, active : BOOLEAN]) /\ Len(C) = n
        /\ \A i \in 1 .. Len(db.channels) : C[i] = db.channels[i]
        /\ C[n] = k /\ n - 1 = Len(db.channels) /\ n \in Nat
    <2> HIDE DEF k
    <2>1. QED
      BY <1>4
  <1>6. k.active
    OBVIOUS
  <1>7. 0 \in 0 .. LocalTries - 1
    BY BoundsAssumption
  <1> HIDE DEF n, k, C, S
  <1>8. r \in WorkerState /\ r.pc = "members" /\ r.snap = S /\ r.job = worker[w].job
    BY <1>1, <1>2, <1>7 DEF WorkerState, Pcs
  <1>9. db' \in Database /\ db'.channels = C /\ db'.messages = db.messages
    BY <1>1, <1>5 DEF Database
  <1>10. /\ Before(db, db') /\ \A e : Posts(db', e) = Posts(db, e)
    BY <1>1, <1>5, <1>9 DEF Before, Posts, Database
  <1>11. SoundChannels(db')
    <2>1. Len(C) <= MaxChannels
      BY <1>1, <1>5, BoundsAssumption DEF ChannelIds
    <2>2. ASSUME NoArchive, NEW i \in 1 .. Len(C) PROVE C[i].active
      <3>1. CASE i = n
        BY <1>5, <1>6, <3>1
      <3>2. CASE i # n
        BY <1>5, <2>2, <3>2 DEF Inv, SoundChannels
      <3>3. QED
        BY <3>1, <3>2
    <2>3. QED
      BY <1>9, <2>1, <2>2 DEF SoundChannels
  <1>12. MessagesChosen(db')
    BY <1>1, <1>9, <1>10, ChosenKept DEF Inv, MessagesChosen
  <1>13. NoTwice(db') /\ DoneFound(jobs, db')
    BY <1>9, <1>10 DEF Inv, NoTwice, DoneFound
  <1> HIDE DEF r
  <1>14. GoodWorker(r, jobs, db')
    BY <1>1, <1>2, <1>3, <1>8, <1>9, <1>10, BeforeBefore DEF GoodWorker
  <1>15. QED
    BY <1>1, <1>8, <1>9, <1>10, <1>11, <1>12, <1>13, <1>14, WorkerStep

LEMMA FlushKeeps ==
  ASSUME Inv, NEW w \in Workers, Flush(w)
  PROVE  Inv'
  <1> DEFINE J == db.joins \cup worker[w].join
             E == {}
             r == [worker[w] EXCEPT !.pc = "final", !.join = E, !.snap = NoSnap]
  <1>1. /\ worker[w] \in WorkerState /\ db \in Database /\ worker[w].pc = "flush"
        /\ jobs \in Seq(Job) /\ JobsBefore(jobs, jobs) /\ UNCHANGED jobs
        /\ Goes(w, r) /\ db' = [db EXCEPT !.joins = J] /\ GoodWorker(worker[w], jobs, db)
    BY DEF Inv, TypeOK, WorkersGood, Flush, JobsBefore
  <1>2. J \in SUBSET ChannelIds /\ E \in SUBSET ChannelIds
    BY <1>1 DEF Database, WorkerState
  <1> HIDE DEF J, E
  <1>3. /\ r \in WorkerState /\ r.pc = "final" /\ r.snap = NoSnap /\ r.job = worker[w].job
        /\ r.channel = worker[w].channel
    BY <1>1, <1>2 DEF WorkerState, Pcs
  <1> HIDE DEF r
  <1>4. db' \in Database /\ db'.channels = db.channels /\ db'.messages = db.messages
    BY <1>1, <1>2 DEF Database
  <1>5. GoodWorker(r, jobs, db)
    BY <1>1, <1>3 DEF GoodWorker
  <1>6. GoodWorker(r, jobs, db')
    BY <1>1, <1>3, <1>4, <1>5, GoodKept, SameRows
  <1>7. QED
    BY <1>1, <1>3, <1>4, <1>6, SameRows, WorkerStep

LEMMA FinalKeeps ==
  ASSUME Inv, NEW w \in Workers, FinalCheck(w)
  PROVE  Inv'
  <1> DEFINE found == Identified(Event(w)) /\ Posts(Sees(w), Event(w)) # {}
  <1>1. /\ worker[w] \in WorkerState /\ GoodWorker(worker[w], jobs, db)
        /\ worker[w].pc = "final" /\ UNCHANGED db
    BY DEF Inv, TypeOK, WorkersGood, FinalCheck
  <1>2. Sees(w) \in Database /\ Before(Sees(w), db) /\ SoundChannels(Sees(w))
    BY SeesBefore
  <1>3. ASSUME NEW pc \in {"post", "error"}, NEW s \in {Sees(w), NoSnap},
               pc = "post" => s = Sees(w) /\ ~found,
               Goes(w, [worker[w] EXCEPT !.pc = pc, !.snap = s]), UNCHANGED jobs
        PROVE  Inv'
    <2> DEFINE r == [worker[w] EXCEPT !.pc = pc, !.snap = s]
    <2>1. /\ r \in WorkerState /\ r.pc = pc /\ r.snap = s /\ r.job = worker[w].job
          /\ r.channel = worker[w].channel
      BY <1>1, <1>2 DEF WorkerState, Pcs
    <2>2. Goes(w, r)
      BY <1>3
    <2> HIDE DEF r
    <2>3. Sees(w) # NoSnap
      BY <1>2, NoSnapIsNone
    <2>4. GoodWorker(r, jobs, db)
      BY <1>1, <1>2, <1>3, <2>1, <2>3 DEF GoodWorker, Event
    <2>5. QED
      BY <1>1, <1>3, <2>1, <2>2, <2>4, ReadStep
  <1>4. CASE ~found
    BY <1>3, <1>4 DEF FinalCheck
  <1>5. CASE found /\ ~Locked(w)
    BY <1>3, <1>5 DEF FinalCheck
  <1>6. CASE found /\ Locked(w)
    <2>1. CASE worker[w].tries + 1 < LocalTries
      <3>1. TriesAgain(w, "flush")
        BY <1>6, <2>1 DEF FinalCheck
      <3>2. QED
        BY <1>1, <3>1, TriesAgainKeeps
    <2>2. CASE ~(worker[w].tries + 1 < LocalTries)
      BY <1>3, <1>6, <2>2 DEF FinalCheck
    <2>3. QED
      BY <2>1, <2>2
  <1>7. QED
    BY <1>4, <1>5, <1>6

(* The heart of the matter: a message of the event that another job posted *)
(* is in the channel of this one, since every search finds the same, and   *)
(* this transaction either saw it, or cannot commit a message there.       *)
LEMMA NothingPosted ==
  ASSUME Inv, NEW w \in Workers, worker[w].pc = "post", ~WriteConflict(w),
         NoArchive, Identified(Event(w))
  PROVE  Posts(db, Event(w)) = {}
  <1> DEFINE e == Event(w)
             i == worker[w].channel
             s == worker[w].snap
  <1>1. /\ s # NoSnap /\ s \in Database /\ Before(s, db) /\ Posts(s, e) = {}
        /\ Chosen(i, ContactOf[e], db) /\ db \in Database
    BY DEF Inv, TypeOK, WorkerState, WorkersGood, GoodWorker, Event
  <1>2. PostsIn(s, i) = PostsIn(db, i)
    BY DEF WriteConflict
  <1> HIDE DEF e, i, s
  <1>3. SUFFICES ASSUME NEW m \in Posts(db, e) PROVE FALSE
    BY DEF e
  <1>4. m \in 1 .. Len(db.messages) /\ db.messages[m].event = e
    BY <1>1 DEF Posts, Database
  <1>5. Chosen(db.messages[m].channel, ContactOf[e], db)
    BY <1>4 DEF Inv, MessagesChosen
  <1>6. db.messages[m].channel = i
    <2> DEFINE ch == db.messages[m].channel
    <2>1. ch \in 1 .. Len(db.channels) /\ db.channels[ch].contact = ContactOf[e] /\ i <= ch
      BY <1>1, <1>5 DEF Chosen
    <2>2. i \in 1 .. Len(db.channels) /\ db.channels[i].contact = ContactOf[e] /\ ch <= i
      BY <1>1, <1>5 DEF Chosen
    <2>3. Len(db.channels) \in Nat
      BY <1>1 DEF Database
    <2> HIDE DEF ch
    <2>4. ch = i
      BY <2>1, <2>2, <2>3
    <2>5. QED
      BY <2>4 DEF ch
  <1>7. m \in PostsIn(s, i)
    BY <1>1, <1>2, <1>4, <1>6 DEF PostsIn, Database
  <1>8. m \in 1 .. Len(s.messages)
    BY <1>1, <1>7 DEF PostsIn, Database
  <1>9. m \in Posts(s, e)
    BY <1>1, <1>4, <1>8 DEF Posts, Before, Database
  <1>10. QED
    BY <1>1, <1>9

LEMMA PostKeeps ==
  ASSUME Inv, NEW w \in Workers, Post(w)
  PROVE  Inv'
  <1> DEFINE e == Event(w)
             i == worker[w].channel
             k == [event |-> e, channel |-> i]
             M == Append(db.messages, k)
             n == Len(db.messages)
             r == [worker[w] EXCEPT !.pc = "answer", !.snap = NoSnap]
  <1>1. /\ worker[w] \in WorkerState /\ db \in Database /\ worker[w].pc = "post"
        /\ GoodWorker(worker[w], jobs, db)
        /\ jobs \in Seq(Job) /\ JobsBefore(jobs, jobs) /\ UNCHANGED jobs
        /\ Goes(w, r) /\ db' = [db EXCEPT !.messages = M] /\ ~WriteConflict(w)
    BY DEF Inv, TypeOK, WorkersGood, Post, JobsBefore
  <1>2. e \in Events /\ worker[w].job \in 1 .. Len(jobs) /\ e = jobs[worker[w].job].event
    BY <1>1, ContactOfJob
  <1>3. Chosen(i, ContactOf[e], db)
    BY <1>1, <1>2 DEF GoodWorker
  <1>4. i \in ChannelIds
    BY <1>1, <1>3, BoundsAssumption DEF Inv, Chosen, SoundChannels, ChannelIds, Database
  <1>5. NoArchive /\ Identified(e) => Posts(db, e) = {}
    BY <1>1, NothingPosted
  <1> HIDE DEF e, i
  <1>6. /\ db.messages \in Seq([event : Events, channel : ChannelIds])
        /\ k \in [event : Events, channel : ChannelIds] /\ k.event = e /\ k.channel = i
    BY <1>1, <1>2, <1>4 DEF Database
  <1> HIDE DEF k
  <1>7. /\ M \in Seq([event : Events, channel : ChannelIds]) /\ Len(M) = n + 1 /\ n \in Nat
        /\ M[n + 1] = k /\ \A m \in 1 .. n : M[m] = db.messages[m]
    BY <1>6
  <1> HIDE DEF M, n
  <1>8. /\ r \in WorkerState /\ r.pc = "answer" /\ r.snap = NoSnap /\ r.job = worker[w].job
    BY <1>1 DEF WorkerState, Pcs
  <1> HIDE DEF r
  <1>9. db' \in Database /\ db'.messages = M /\ db'.channels = db.channels
    BY <1>1, <1>7 DEF Database
  <1>10. Before(db, db')
    BY <1>1, <1>7, <1>9 DEF Before, n, Database
  <1>11. SoundChannels(db')
    BY <1>9 DEF Inv, SoundChannels
  <1>12. MessagesChosen(db')
    <2>1. ASSUME NEW m \in 1 .. n + 1
          PROVE  Chosen(M[m].channel, ContactOf[M[m].event], db')
      <3>1. CASE m = n + 1
        BY <1>1, <1>3, <1>6, <1>7, <1>9, <1>10, <3>1, ChosenKept
      <3>2. CASE m # n + 1
        <4>1. m \in 1 .. Len(db.messages) /\ M[m] = db.messages[m]
          BY <1>7, <3>2 DEF n
        <4>2. Chosen(M[m].channel, ContactOf[M[m].event], db)
          BY <4>1 DEF Inv, MessagesChosen
        <4>3. QED
          BY <1>1, <1>9, <1>10, <4>2, ChosenKept
      <3>3. QED
        BY <3>1, <3>2
    <2>2. QED
      BY <1>7, <1>9, <2>1 DEF MessagesChosen
  <1>13. NoTwice(db')
    <2>1. SUFFICES ASSUME NoArchive, NEW m \in 1 .. n + 1, NEW p \in 1 .. n + 1,
                          M[m].event = M[p].event, Identified(M[m].event)
                   PROVE  m = p
      BY <1>7, <1>9 DEF NoTwice
    <2>2. ASSUME NEW q \in 1 .. n, M[q].event = e, Identified(e) PROVE FALSE
      <3>1. q \in Posts(db, e)
        BY <1>6, <1>7, <2>2 DEF Posts, n
      <3>2. QED
        BY <1>5, <2>1, <2>2, <3>1
    <2>3. CASE m = n + 1 \/ p = n + 1
      BY <1>6, <1>7, <2>1, <2>2, <2>3
    <2>4. CASE m \in 1 .. n /\ p \in 1 .. n
      BY <1>7, <2>1, <2>4 DEF Inv, NoTwice, n
    <2>5. QED
      BY <1>7, <2>3, <2>4
  <1>14. DoneFound(jobs, db')
    BY <1>1, <1>9, <1>10, PostsKept DEF Inv, DoneFound
  <1>15. Posts(db', e) # {}
    <2>1. n + 1 \in DOMAIN M /\ M[n + 1].event = e
      BY <1>6, <1>7
    <2>2. QED
      BY <1>9, <2>1 DEF Posts
  <1>16. GoodWorker(r, jobs, db')
    BY <1>2, <1>8, <1>15 DEF GoodWorker
  <1>17. QED
    BY <1>1, <1>8, <1>9, <1>10, <1>11, <1>12, <1>13, <1>14, <1>16, WorkerStep

-----------------------------------------------------------------------------
(* The other steps.                                                        *)

LEMMA JoinKeeps ==
  ASSUME Inv, NEW w \in Workers, NEW i \in ChannelIds, JoinMembers(w, i)
  PROVE  Inv'
  <1> DEFINE J == db.joins \ {i}
             K == db.joined \cup {i}
  <1>1. /\ db \in Database /\ jobs \in Seq(Job) /\ JobsBefore(jobs, jobs)
        /\ UNCHANGED <<jobs, worker>> /\ db' = [db EXCEPT !.joins = J, !.joined = K]
    BY DEF Inv, TypeOK, JoinMembers, JobsBefore
  <1>2. J \in SUBSET ChannelIds /\ K \in SUBSET ChannelIds
    BY <1>1 DEF Database
  <1> HIDE DEF J, K
  <1>3. db' \in Database /\ db'.channels = db.channels /\ db'.messages = db.messages
    BY <1>1, <1>2 DEF Database
  <1>4. QED
    BY <1>1, <1>3, SameRows, QuietStep

LEMMA KilledKeeps ==
  ASSUME Inv, NEW w \in Workers, WorkerKilled(w)
  PROVE  Inv'
  <1>1. db \in Database /\ jobs \in Seq(Job) /\ Before(db, db) /\ JobsBefore(jobs, jobs)
    BY BeforeItself DEF Inv, TypeOK, JobsBefore
  <1>2. Goes(w, IdleWorker) /\ UNCHANGED <<db, jobs>>
    BY DEF WorkerKilled
  <1>3. QED
    BY <1>1, <1>2, IdleGood, WorkerStep DEF Inv

LEMMA ArchiveKeeps ==
  ASSUME Inv, NEW i \in ChannelIds, Archive(i)
  PROVE  Inv'
  <1> DEFINE k == [db.channels[i] EXCEPT !.active = FALSE]
             C == [db.channels EXCEPT ![i] = k]
  <1>1. /\ db \in Database /\ jobs \in Seq(Job) /\ JobsBefore(jobs, jobs) /\ ~NoArchive
        /\ UNCHANGED <<jobs, worker>> /\ i \in DOMAIN db.channels
        /\ db' = [db EXCEPT !.channels = C]
    BY DEF Inv, TypeOK, Archive, JobsBefore, NoArchive
  <1>2. db.channels \in Seq([contact : Contacts, active : BOOLEAN])
    BY <1>1 DEF Database
  <1>3. i \in 1 .. Len(db.channels) /\ db.channels[i] \in [contact : Contacts, active : BOOLEAN]
    <2>1. i \in 1 .. Len(db.channels)
      BY <1>1, <1>2
    <2> DEFINE T == [contact : Contacts, active : BOOLEAN]
               q == db.channels
    <2>2. q \in Seq(T) /\ i \in 1 .. Len(q)
      BY <1>2, <2>1
    <2> HIDE DEF T, q
    <2>3. q[i] \in T
      BY <2>2
    <2>4. QED
      BY <2>1, <2>3 DEF T, q
  <1>4. k \in [contact : Contacts, active : BOOLEAN] /\ k.contact = db.channels[i].contact
    BY <1>3
  <1> HIDE DEF k
  <1>5. /\ C \in Seq([contact : Contacts, active : BOOLEAN]) /\ Len(C) = Len(db.channels)
        /\ \A j \in 1 .. Len(db.channels) : C[j].contact = db.channels[j].contact
    BY <1>2, <1>3, <1>4
  <1> HIDE DEF C
  <1>6. db' \in Database /\ db'.channels = C /\ db'.messages = db.messages
    BY <1>1, <1>5 DEF Database
  <1>7. Before(db, db') /\ \A e : Posts(db', e) = Posts(db, e)
    BY <1>1, <1>5, <1>6 DEF Before, Posts, Database
  <1>8. SoundChannels(db') /\ NoTwice(db')
    BY <1>1, <1>5, <1>6 DEF Inv, SoundChannels, NoTwice
  <1>9. MessagesChosen(db')
    BY <1>1, <1>6, <1>7, ChosenKept DEF Inv, MessagesChosen
  <1>10. DoneFound(jobs, db')
    BY <1>7 DEF Inv, DoneFound
  <1>11. QED
    BY <1>1, <1>6, <1>7, <1>8, <1>9, <1>10, QuietStep

-----------------------------------------------------------------------------
(* The theorems.                                                           *)

LEMMA KnownSeq ==
  /\ SetToSeq(Known) \in Seq(Known)
  /\ Len(SetToSeq(Known)) = Cardinality(Known)
  /\ \A i, j \in 1 .. Len(SetToSeq(Known)) :
       SetToSeq(Known)[i] = SetToSeq(Known)[j] => i = j
  <1> DEFINE n == Cardinality(Known)
  <1>1. n \in Nat /\ IsFiniteSet(Known)
    BY EventsAssumption, FS_CardinalityType
  <1>2. ExistsBijection(1 .. n, Known)
    BY <1>1, FS_CardinalityType
  <1>3. PICK f \in Bijection(1 .. n, Known) : TRUE
    BY <1>2 DEF ExistsBijection
  <1>4. /\ f \in [1 .. n -> Known] /\ \A i, j \in 1 .. n : f[i] = f[j] => i = j
    BY <1>3 DEF Bijection, Injection, Surjection, IsInjective
  <1>5. f \in [1 .. Cardinality(Known) -> Known] /\ IsInjective(f)
    BY <1>4 DEF IsInjective
  <1>6. /\ SetToSeq(Known) \in [1 .. Cardinality(Known) -> Known]
        /\ IsInjective(SetToSeq(Known))
    BY <1>5 DEF SetToSeq
  <1>7. QED
    BY <1>1, <1>6 DEF IsInjective

LEMMA InvInitial == Init => Inv
  <1> SUFFICES ASSUME Init PROVE Inv
    OBVIOUS
  <1> DEFINE S == SetToSeq(Known)
             C == [i \in DOMAIN S |-> [contact |-> S[i], active |-> TRUE]]
             D == DOMAIN S
             E == {}
  <1>1. /\ S \in Seq(Known) /\ Len(S) = Cardinality(Known)
        /\ \A i, j \in 1 .. Len(S) : S[i] = S[j] => i = j
    BY KnownSeq
  <1>2. /\ db = [partners |-> Known, channels |-> C, messages |-> << >>, joins |-> E,
                 joined |-> D]
        /\ jobs = << >> /\ worker = [w \in Workers |-> IdleWorker]
    BY DEF Init
  <1> HIDE DEF S
  <1>3. /\ C \in Seq([contact : Contacts, active : BOOLEAN]) /\ Len(C) = Cardinality(Known)
        /\ \A i \in 1 .. Len(C) : C[i].active
    <2> DEFINE T == [contact : Contacts, active : BOOLEAN]
               n == Len(S)
    <2>1. n \in Nat /\ DOMAIN S = 1 .. n /\ \A i \in 1 .. n : S[i] \in Contacts
      BY <1>1, EventsAssumption
    <2>2. C = [i \in 1 .. n |-> [contact |-> S[i], active |-> TRUE]]
      BY <2>1
    <2> HIDE DEF n, C
    <2>3. C \in [1 .. n -> T]
      BY <2>1, <2>2
    <2>4. \A i \in 1 .. n : C[i].active
      BY <2>2
    <2> HIDE DEF T
    <2>5. C \in Seq(T) /\ Len(C) = n
      BY <2>1, <2>3
    <2>6. QED
      BY <1>1, <2>4, <2>5 DEF n, T
  <1>4. D \in SUBSET ChannelIds /\ E \in SUBSET ChannelIds
    BY <1>1, BoundsAssumption DEF ChannelIds
  <1> HIDE DEF C, D, E
  <1>5. db \in Database /\ db.channels = C /\ db.messages = << >>
    BY <1>2, <1>3, <1>4, EventsAssumption DEF Database
  <1>6. jobs \in Seq(Job) /\ Len(jobs) = 0
    BY <1>2
  <1>7. TypeOK /\ WorkersGood
    BY <1>2, <1>5, <1>6, IdleGood DEF TypeOK, WorkersGood
  <1>8. SoundChannels(db)
    BY <1>3, <1>5, BoundsAssumption DEF SoundChannels
  <1>9. MessagesChosen(db) /\ DoneFound(jobs, db) /\ NoTwice(db)
    BY <1>5, <1>6 DEF MessagesChosen, DoneFound, NoTwice
  <1>10. QED
    BY <1>7, <1>8, <1>9 DEF Inv

LEMMA InvNext == Inv /\ Next => Inv'
  <1> SUFFICES ASSUME Inv, Next PROVE Inv'
    OBVIOUS
  <1>1. ASSUME NEW e \in Events, Receive(e) PROVE Inv'
    BY <1>1, ReceiveKeeps
  <1>2. ASSUME NEW d \in DOMAIN jobs, EtaDue(d) \/ Requeue(d) PROVE Inv'
    BY <1>2, QueueKeeps
  <1>3. ASSUME NEW w \in Workers, Process(w) PROVE Inv'
    BY <1>3, CheckKeeps, EndKeeps, PartnerKeeps, FindChannelKeeps, CreateChannelKeeps,
       ConflictKeeps, FlushKeeps, FinalKeeps, PostKeeps DEF Process
  <1>4. ASSUME NEW w \in Workers, NEW d \in DOMAIN jobs, Dispatch(w, d) PROVE Inv'
    BY <1>4, DispatchKeeps
  <1>5. ASSUME NEW w \in Workers, NEW i \in ChannelIds, JoinMembers(w, i) PROVE Inv'
    BY <1>5, JoinKeeps
  <1>6. ASSUME NEW w \in Workers, WorkerKilled(w) PROVE Inv'
    BY <1>6, KilledKeeps
  <1>7. ASSUME NEW i \in ChannelIds, Archive(i) PROVE Inv'
    BY <1>7, ArchiveKeeps
  <1>8. QED
    BY <1>1, <1>2, <1>3, <1>4, <1>5, <1>6, <1>7 DEF Next

LEMMA InvKept == Inv /\ [Next]_vars => Inv'
  <1> SUFFICES ASSUME Inv, [Next]_vars PROVE Inv'
    OBVIOUS
  <1>1. CASE Next
    BY <1>1, InvNext
  <1>2. CASE UNCHANGED vars
    <2>1. UNCHANGED <<db, jobs, worker>>
      BY <1>2 DEF vars
    <2>2. db \in Database /\ jobs \in Seq(Job) /\ Before(db, db) /\ JobsBefore(jobs, jobs)
      BY BeforeItself DEF Inv, TypeOK, JobsBefore
    <2>3. QED
      BY <2>1, <2>2, QuietStep DEF Inv
  <1>3. QED
    BY <1>1, <1>2

LEMMA AlwaysInv == Spec => []Inv
  BY InvInitial, InvKept, PTL DEF Spec

(* The database, the jobs and the workers have the shape TypeOK says,      *)
(* whatever the events, the races and the faults.                          *)
THEOREM TypeCorrect == Spec => []TypeOK
  <1>1. Inv => TypeOK
    BY DEF Inv
  <1>2. QED
    BY <1>1, AlwaysInv, PTL

(* A job of process_webhook_event that is done has left the message of its *)
(* event in a channel of the contact.                                      *)
THEOREM DoneIsPosted == Spec => []DonePosted
  <1>1. Inv => DonePosted
    <2> SUFFICES ASSUME Inv, NEW d \in DOMAIN jobs, jobs[d].state = "done"
                 PROVE  \E i \in Posts(db, jobs[d].event) :
                          db.channels[db.messages[i].channel].contact
                            = ContactOf[jobs[d].event]
      BY DEF DonePosted
    <2>1. db \in Database /\ d \in 1 .. Len(jobs)
      BY DEF Inv, TypeOK
    <2>2. PICK i \in Posts(db, jobs[d].event) : TRUE
      BY <2>1 DEF Inv, DoneFound
    <2>3. i \in 1 .. Len(db.messages) /\ db.messages[i].event = jobs[d].event
      BY <2>1, <2>2 DEF Posts, Database
    <2>4. QED
      BY <2>2, <2>3 DEF Inv, MessagesChosen, Chosen
  <1>2. QED
    BY <1>1, AlwaysInv, PTL

(* As long as no user archives a channel, an event with an id becomes one  *)
(* message at most: the final check of the duplicates and the conflict of  *)
(* the two writes to the channel are enough, the lock is not needed.       *)
THEOREM NoEventTwice == ASSUME NoArchive PROVE Spec => []NoDuplicateMessages
  <1>1. Inv => NoDuplicateMessages
    <2> SUFFICES ASSUME Inv, NEW e \in Events, Identified(e)
                 PROVE  Cardinality(Posts(db, e)) <= 1
      BY DEF NoDuplicateMessages
    <2>1. db \in Database
      BY DEF Inv, TypeOK
    <2>2. \A m \in Posts(db, e) : m \in 1 .. Len(db.messages) /\ db.messages[m].event = e
      BY <2>1 DEF Posts, Database
    <2>3. \A m, n \in Posts(db, e) : m = n
      BY <2>2 DEF Inv, NoTwice
    <2>4. CASE Posts(db, e) = {}
      BY <2>4, FS_EmptySet
    <2>5. CASE Posts(db, e) # {}
      <3>1. PICK m \in Posts(db, e) : TRUE
        BY <2>5
      <3>2. Posts(db, e) = {m}
        BY <2>3, <3>1
      <3>3. Cardinality({m}) = 1
        BY FS_Singleton
      <3>4. QED
        BY <3>2, <3>3
    <2>6. QED
      BY <2>4, <2>5
  <1>2. QED
    BY <1>1, AlwaysInv, PTL

-----------------------------------------------------------------------------
(* One channel of a contact, when the queue runs one job at a time.        *)

(* The capacity of the queue that the two cursors of find_or_create_channel*)
(* need: with two jobs at a time each may miss the channel of the other.   *)
OneAtATime == \A v, w \in Workers : v = w

OneActive(b) ==
  \A i, k \in 1 .. Len(b.channels) :
    b.channels[i].active /\ b.channels[k].active
      /\ b.channels[i].contact = b.channels[k].contact => i = k

(* s has every channel of b, and none of them is archived in s only.       *)
Current(s, b) ==
  /\ Len(s.channels) = Len(b.channels)
  /\ \A i \in 1 .. Len(b.channels) : b.channels[i].active => s.channels[i].active

(* A worker that has yet to look for the channel sees all there are: the   *)
(* commit of a partner in a cursor of its own leaves the channels alone.   *)
Looking(r, b) == r.pc \in {"partner", "channel"} /\ r.snap # NoSnap => Current(r.snap, b)

ChannelInv == Inv /\ OneActive(db) /\ \A w \in Workers : Looking(worker[w], db)

(* What a step may make of a worker that does not look again.              *)
StillLooks(q, r, b) ==
  \/ r.pc \notin {"partner", "channel"}
  \/ r.snap = NoSnap \/ r.snap = b
  \/ q.pc \in {"partner", "channel"} /\ r.snap = q.snap

LEMMA LookingStill ==
  ASSUME NEW q, NEW r, NEW b, Looking(q, b), StillLooks(q, r, b)
  PROVE  Looking(r, b)
  BY DEF Looking, StillLooks, Current

LEMMA MovedStill ==
  ASSUME Inv, NEW w \in Workers, NEW r, Goes(w, r), StillLooks(worker[w], r, db)
  PROVE  \A v \in Workers : StillLooks(worker[v], worker'[v], db)
  <1>1. worker' = [worker EXCEPT ![w] = r] /\ worker \in [Workers -> WorkerState]
    BY DEF Goes, Inv, TypeOK
  <1>2. ASSUME NEW v \in Workers PROVE StillLooks(worker[v], worker'[v], db)
    <2>1. CASE v = w
      BY <1>1, <2>1
    <2>2. CASE v # w
      <3>1. worker'[v] = worker[v]
        BY <1>1, <2>2
      <3>2. QED
        BY <3>1 DEF StillLooks
    <2>3. QED
      BY <2>1, <2>2
  <1>3. QED
    BY <1>2

LEMMA IdleStill ==
  ASSUME Inv, NEW w \in Workers, Goes(w, IdleWorker)
  PROVE  \A v \in Workers : StillLooks(worker[v], worker'[v], db)
  <1>1. StillLooks(worker[w], IdleWorker, db)
    BY DEF StillLooks, IdleWorker
  <1>2. QED
    BY <1>1, MovedStill

LEMMA AgainStill ==
  ASSUME Inv, NEW w \in Workers, NEW pc, TriesAgain(w, pc)
  PROVE  \A v \in Workers : StillLooks(worker[v], worker'[v], db)
  <1>1. CASE Conflicts(w)
    BY <1>1, IdleStill DEF Conflicts
  <1>2. CASE ~Conflicts(w)
    <2> DEFINE r == [worker[w] EXCEPT !.pc = pc, !.snap = NoSnap, !.join = {},
                                      !.tries = worker[w].tries + 1]
    <2>1. Goes(w, r)
      BY <1>2 DEF TriesAgain
    <2>2. r.snap = NoSnap
      BY DEF Inv, TypeOK, WorkerState
    <2> HIDE DEF r
    <2>3. QED
      BY <2>1, <2>2, MovedStill DEF StillLooks
  <1>3. QED
    BY <1>1, <1>2

(* The steps of a job but the creation of a channel: the channels stay, and*)
(* what the worker saw of them is as good as it was.                       *)
LEMMA ProcessStill ==
  ASSUME Inv, NEW w \in Workers, Process(w), ~CreateChannel(w)
  PROVE  /\ db'.channels = db.channels
         /\ \A v \in Workers : StillLooks(worker[v], worker'[v], db)
  <1>1. worker[w] \in WorkerState /\ db \in Database
    BY DEF Inv, TypeOK
  <1>2. CASE CheckDuplicate(w)
    <2> DEFINE found == Identified(Event(w)) /\ Posts(db, Event(w)) # {}
               s == IF found /\ Locked(w) THEN NoSnap ELSE db
               pc == IF ~found THEN "partner" ELSE IF Locked(w) THEN "error" ELSE "duplicate"
               r == [worker[w] EXCEPT !.snap = s, !.pc = pc]
    <2>1. Goes(w, r) /\ UNCHANGED db /\ (s = NoSnap \/ s = db)
      BY <1>2 DEF CheckDuplicate
    <2> HIDE DEF s, pc
    <2>2. r.snap = s
      BY <1>1 DEF WorkerState
    <2> HIDE DEF r
    <2>3. StillLooks(worker[w], r, db)
      BY <2>1, <2>2 DEF StillLooks
    <2>4. QED
      BY <2>1, <2>3, MovedStill
  <1>3. CASE SkipDuplicate(w) \/ Fail(w) \/ Answer(w) \/ AddMembers(w)
    BY <1>3, IdleStill DEF SkipDuplicate, Fail, Answer, AddMembers, Ends, Retries
  <1>4. CASE FindPartner(w) \/ CreatePartner(w)
    <2>1. /\ worker[w].pc = "partner" /\ db'.channels = db.channels
          /\ \/ Goes(w, [worker[w] EXCEPT !.pc = "channel", !.snap = db])
             \/ Goes(w, [worker[w] EXCEPT !.pc = "channel"])
      BY <1>1, <1>4 DEF FindPartner, CreatePartner, Database
    <2>2. CASE Goes(w, [worker[w] EXCEPT !.pc = "channel", !.snap = db])
      <3> DEFINE r == [worker[w] EXCEPT !.pc = "channel", !.snap = db]
      <3>1. r.snap = db
        BY <1>1 DEF WorkerState
      <3> HIDE DEF r
      <3>2. StillLooks(worker[w], r, db)
        BY <3>1 DEF StillLooks
      <3>3. Goes(w, r)
        BY <2>2 DEF r
      <3>4. QED
        BY <2>1, <3>2, <3>3, MovedStill
    <2>3. CASE Goes(w, [worker[w] EXCEPT !.pc = "channel"])
      <3> DEFINE r == [worker[w] EXCEPT !.pc = "channel"]
      <3>1. r.snap = worker[w].snap
        BY <1>1 DEF WorkerState
      <3> HIDE DEF r
      <3>2. StillLooks(worker[w], r, db)
        BY <2>1, <3>1 DEF StillLooks
      <3>3. Goes(w, r)
        BY <2>3 DEF r
      <3>4. QED
        BY <2>1, <3>2, <3>3, MovedStill
    <2>4. QED
      BY <2>1, <2>2, <2>3
  <1>5. CASE FindChannel(w)
    <2> DEFINE ids == ActiveChannels(Sees(w), Contact(w))
               f == First(ids)
               J == {f} \ Sees(w).joined
               S == Sees(w)
               r == [worker[w] EXCEPT !.pc = "flush", !.channel = f, !.snap = S, !.tries = 0,
                                      !.join = J]
    <2>1. Goes(w, r) /\ UNCHANGED db
      BY <1>5 DEF FindChannel
    <2> HIDE DEF f, J, S
    <2>2. r.pc = "flush"
      BY <1>1 DEF WorkerState
    <2> HIDE DEF r
    <2>3. StillLooks(worker[w], r, db)
      BY <2>2 DEF StillLooks
    <2>4. QED
      BY <2>1, <2>3, MovedStill
  <1>6. CASE ChannelConflict(w) \/ FlushConflict(w) \/ PostConflict(w)
    <2>1. UNCHANGED db /\ (TriesAgain(w, "channel") \/ TriesAgain(w, "flush") \/ Conflicts(w))
      BY <1>6 DEF ChannelConflict, FlushConflict, PostConflict
    <2>2. CASE Conflicts(w)
      BY <2>1, <2>2, IdleStill DEF Conflicts
    <2>3. CASE ~Conflicts(w)
      BY <2>1, <2>3, AgainStill
    <2>4. QED
      BY <2>2, <2>3
  <1>7. CASE Flush(w) \/ Post(w)
    <2>1. CASE Flush(w)
      <3> DEFINE r == [worker[w] EXCEPT !.pc = "final", !.join = {}, !.snap = NoSnap]
      <3>1. Goes(w, r) /\ db'.channels = db.channels
        BY <1>1, <2>1 DEF Flush, Database
      <3>2. r.snap = NoSnap
        BY <1>1 DEF WorkerState
      <3> HIDE DEF r
      <3>3. StillLooks(worker[w], r, db)
        BY <3>2 DEF StillLooks
      <3>4. QED
        BY <3>1, <3>3, MovedStill
    <2>2. CASE Post(w)
      <3> DEFINE r == [worker[w] EXCEPT !.pc = "answer", !.snap = NoSnap]
      <3>1. Goes(w, r) /\ db'.channels = db.channels
        BY <1>1, <2>2 DEF Post, Database
      <3>2. r.snap = NoSnap
        BY <1>1 DEF WorkerState
      <3> HIDE DEF r
      <3>3. StillLooks(worker[w], r, db)
        BY <3>2 DEF StillLooks
      <3>4. QED
        BY <3>1, <3>3, MovedStill
    <2>3. QED
      BY <1>7, <2>1, <2>2
  <1>8. CASE FinalCheck(w)
    <2>1. UNCHANGED db
      BY <1>8 DEF FinalCheck
    <2>2. ASSUME NEW pc \in {"post", "error"}, NEW s,
                 Goes(w, [worker[w] EXCEPT !.pc = pc, !.snap = s])
          PROVE  \A v \in Workers : StillLooks(worker[v], worker'[v], db)
      <3> DEFINE r == [worker[w] EXCEPT !.pc = pc, !.snap = s]
      <3>1. r.pc = pc
        BY <1>1 DEF WorkerState
      <3> HIDE DEF r
      <3>2. StillLooks(worker[w], r, db)
        BY <3>1 DEF StillLooks
      <3>3. Goes(w, r)
        BY <2>2 DEF r
      <3>4. QED
        BY <3>2, <3>3, MovedStill
    <2>3. \/ TriesAgain(w, "flush")
          \/ Goes(w, [worker[w] EXCEPT !.pc = "post", !.snap = Sees(w)])
          \/ Goes(w, [worker[w] EXCEPT !.pc = "error", !.snap = Sees(w)])
          \/ Goes(w, [worker[w] EXCEPT !.pc = "error", !.snap = NoSnap])
      BY <1>8 DEF FinalCheck
    <2>4. QED
      BY <2>1, <2>2, <2>3, AgainStill
  <1>9. QED
    BY <1>2, <1>3, <1>4, <1>5, <1>6, <1>7, <1>8 DEF Process

(* The channels are as they were: so is what each worker knows of them.    *)
LEMMA ChannelsStay ==
  ASSUME ChannelInv, Inv', db'.channels = db.channels,
         \A v \in Workers : StillLooks(worker[v], worker'[v], db)
  PROVE  ChannelInv'
  <1>1. OneActive(db')
    BY DEF ChannelInv, OneActive
  <1>2. ASSUME NEW v \in Workers PROVE Looking(worker'[v], db')
    <2>1. Looking(worker'[v], db)
      BY LookingStill DEF ChannelInv
    <2>2. QED
      BY <2>1 DEF Looking, Current
  <1>3. QED
    BY <1>1, <1>2 DEF ChannelInv

(* The only worker creates a channel where it saw none, and it saw all.    *)
LEMMA CreateKeepsOne ==
  ASSUME OneAtATime, ChannelInv, Inv', NEW w \in Workers, CreateChannel(w)
  PROVE  ChannelInv'
  <1> DEFINE n == Len(db.channels) + 1
             c == Contact(w)
             k == [contact |-> c, active |-> TRUE]
             C == Append(db.channels, k)
             S == Sees(w)
             r == [worker[w] EXCEPT !.pc = "members", !.channel = n, !.snap = S, !.tries = 0]
  <1>1. /\ worker[w] \in WorkerState /\ db \in Database /\ worker[w].pc = "channel"
        /\ Goes(w, r) /\ db' = [db EXCEPT !.channels = C] /\ ActiveChannels(S, c) = {}
        /\ worker \in [Workers -> WorkerState]
    BY DEF ChannelInv, Inv, TypeOK, CreateChannel
  <1>2. S \in Database /\ Before(S, db)
    BY SeesBefore DEF ChannelInv
  <1>3. Current(S, db)
    BY <1>1 DEF ChannelInv, Looking, Sees, Current
  <1>4. c \in Contacts
    BY <1>1, ContactOfJob DEF ChannelInv
  <1>5. k \in [contact : Contacts, active : BOOLEAN] /\ k.contact = c
    BY <1>4
  <1>6. db.channels \in Seq([contact : Contacts, active : BOOLEAN])
    BY <1>1 DEF Database
  <1> HIDE DEF c, k, S
  <1>7. /\ Len(C) = n /\ C[n] = k /\ n - 1 = Len(db.channels) /\ n \in Nat
        /\ \A i \in 1 .. Len(db.channels) : C[i] = db.channels[i]
    BY <1>5, <1>6
  <1> HIDE DEF n, C
  <1>8. db'.channels = C
    BY <1>1 DEF Database
  <1>9. r.pc = "members"
    BY <1>1 DEF WorkerState
  <1> HIDE DEF r
  <1>10. ASSUME NEW i \in 1 .. Len(db.channels), db.channels[i].active,
                db.channels[i].contact = c
         PROVE  FALSE
    <2>1. i \in 1 .. Len(S.channels) /\ S.channels[i].active /\ S.channels[i].contact = c
      BY <1>2, <1>3, <1>10 DEF Current, Before
    <2>2. i \in ActiveChannels(S, c)
      BY <1>2, <2>1 DEF ActiveChannels, Database
    <2>3. QED
      BY <1>1, <2>2
  <1>11. OneActive(db')
    <2>1. SUFFICES ASSUME NEW i \in 1 .. n, NEW m \in 1 .. n, C[i].active, C[m].active,
                          C[i].contact = C[m].contact
                   PROVE  i = m
      BY <1>7, <1>8 DEF OneActive
    <2>2. ASSUME NEW q \in 1 .. n, q # n PROVE q \in 1 .. Len(db.channels) /\ C[q] = db.channels[q]
      BY <1>7, <2>2
    <2>3. CASE i = n /\ m # n
      BY <1>5, <1>7, <1>10, <2>1, <2>2, <2>3
    <2>4. CASE m = n /\ i # n
      BY <1>5, <1>7, <1>10, <2>1, <2>2, <2>4
    <2>5. CASE i # n /\ m # n
      BY <2>1, <2>2, <2>5 DEF ChannelInv, OneActive
    <2>6. QED
      BY <2>3, <2>4, <2>5
  <1>12. \A v \in Workers : Looking(worker'[v], db')
    <2>1. \A v \in Workers : v = w
      BY DEF OneAtATime
    <2>2. worker'[w] = r
      BY <1>1 DEF Goes
    <2>3. QED
      BY <1>9, <2>1, <2>2 DEF Looking
  <1>13. QED
    BY <1>11, <1>12 DEF ChannelInv

(* A channel that is archived in the database only is no obstacle.         *)
LEMMA ArchiveKeepsOne ==
  ASSUME ChannelInv, Inv', NEW i \in ChannelIds, Archive(i)
  PROVE  ChannelInv'
  <1> DEFINE k == [db.channels[i] EXCEPT !.active = FALSE]
             C == [db.channels EXCEPT ![i] = k]
             T == [contact : Contacts, active : BOOLEAN]
             q == db.channels
  <1>1. /\ db \in Database /\ UNCHANGED worker /\ i \in DOMAIN q
        /\ db' = [db EXCEPT !.channels = C]
    BY DEF ChannelInv, Inv, TypeOK, Archive
  <1>2. q \in Seq(T)
    BY <1>1 DEF Database
  <1>3. k = [q[i] EXCEPT !.active = FALSE] /\ C = [q EXCEPT ![i] = k]
    OBVIOUS
  <1> HIDE DEF T, q
  <1>4. i \in 1 .. Len(q) /\ q[i] \in T
    BY <1>1, <1>2
  <1>5. k.active = FALSE /\ k.contact = q[i].contact
    BY <1>3, <1>4 DEF T
  <1> HIDE DEF k
  <1>6. Len(C) = Len(q) /\ \A j \in 1 .. Len(q) : C[j] = IF j = i THEN k ELSE q[j]
    BY <1>2, <1>3, <1>4
  <1> HIDE DEF C
  <1>7. db'.channels = C
    BY <1>1 DEF Database
  <1>8. \A j \in 1 .. Len(q) : (C[j].active => q[j].active) /\ C[j].contact = q[j].contact
    BY <1>5, <1>6
  <1>9. OneActive(db')
    BY <1>6, <1>7, <1>8 DEF ChannelInv, OneActive, q
  <1>10. \A v \in Workers : Looking(worker'[v], db')
    BY <1>1, <1>6, <1>7, <1>8 DEF ChannelInv, Looking, Current, q
  <1>11. QED
    BY <1>9, <1>10 DEF ChannelInv

LEMMA ChannelInvInitial == Init => ChannelInv
  <1> SUFFICES ASSUME Init PROVE ChannelInv
    OBVIOUS
  <1> DEFINE S == SetToSeq(Known)
             C == [i \in DOMAIN S |-> [contact |-> S[i], active |-> TRUE]]
  <1>1. /\ S \in Seq(Known) /\ \A i, j \in 1 .. Len(S) : S[i] = S[j] => i = j
    BY KnownSeq
  <1>2. db.channels = C /\ worker = [w \in Workers |-> IdleWorker]
    BY DEF Init
  <1> HIDE DEF S
  <1>3. /\ Len(C) = Len(S) /\ \A i \in 1 .. Len(S) : C[i].contact = S[i]
    BY <1>1
  <1> HIDE DEF C
  <1>4. OneActive(db)
    BY <1>1, <1>2, <1>3 DEF OneActive
  <1>5. \A w \in Workers : Looking(worker[w], db)
    BY <1>2 DEF Looking, IdleWorker
  <1>6. QED
    BY <1>4, <1>5, InvInitial DEF ChannelInv

LEMMA ChannelInvKept == OneAtATime /\ ChannelInv /\ [Next]_vars => ChannelInv'
  <1> SUFFICES ASSUME OneAtATime, ChannelInv, [Next]_vars PROVE ChannelInv'
    OBVIOUS
  <1>1. Inv /\ Inv'
    BY InvKept DEF ChannelInv
  <1>2. \A v \in Workers : StillLooks(worker[v], worker[v], db)
    BY DEF StillLooks
  <1>3. CASE UNCHANGED <<db.channels, worker>>
    <2>1. \A v \in Workers : StillLooks(worker[v], worker'[v], db)
      BY <1>2, <1>3
    <2>2. QED
      BY <1>1, <1>3, <2>1, ChannelsStay
  <1>4. ASSUME NEW e \in Events, Receive(e) PROVE ChannelInv'
    BY <1>3, <1>4 DEF Receive
  <1>5. ASSUME NEW d \in DOMAIN jobs, EtaDue(d) \/ Requeue(d) PROVE ChannelInv'
    BY <1>3, <1>5 DEF EtaDue, Requeue
  <1>6. ASSUME NEW w \in Workers, Process(w) PROVE ChannelInv'
    <2>1. CASE CreateChannel(w)
      BY <1>1, <2>1, CreateKeepsOne
    <2>2. CASE ~CreateChannel(w)
      BY <1>1, <1>6, <2>2, ProcessStill, ChannelsStay
    <2>3. QED
      BY <2>1, <2>2
  <1>7. ASSUME NEW w \in Workers, NEW d \in DOMAIN jobs, Dispatch(w, d) PROVE ChannelInv'
    <2> DEFINE r == [IdleWorker EXCEPT !.pc = "check", !.job = d]
    <2>1. Goes(w, r) /\ UNCHANGED db
      BY <1>7 DEF Dispatch
    <2>2. r.pc = "check"
      BY DEF IdleWorker
    <2> HIDE DEF r
    <2>3. StillLooks(worker[w], r, db)
      BY <2>2 DEF StillLooks
    <2>4. QED
      BY <1>1, <2>1, <2>3, MovedStill, ChannelsStay
  <1>8. ASSUME NEW w \in Workers, NEW i \in ChannelIds, JoinMembers(w, i) PROVE ChannelInv'
    <2>1. db'.channels = db.channels /\ UNCHANGED worker
      BY <1>1, <1>8 DEF JoinMembers, Inv, TypeOK, Database
    <2>2. QED
      BY <1>3, <2>1
  <1>9. ASSUME NEW w \in Workers, WorkerKilled(w) PROVE ChannelInv'
    BY <1>1, <1>9, IdleStill, ChannelsStay DEF WorkerKilled
  <1>10. ASSUME NEW i \in ChannelIds, Archive(i) PROVE ChannelInv'
    BY <1>1, <1>10, ArchiveKeepsOne
  <1>11. CASE UNCHANGED vars
    BY <1>3, <1>11 DEF vars
  <1>12. QED
    BY <1>4, <1>5, <1>6, <1>7, <1>8, <1>9, <1>10, <1>11 DEF Next

(* With one job at a time a contact has one active channel at most,        *)
(* whatever the retries, the workers that die and the channels that users  *)
(* archive: find_or_create_channel then needs no lock.                     *)
THEOREM OneChannelAtATime == ASSUME OneAtATime PROVE Spec => []OneActiveChannel
  <1>1. ChannelInv => OneActiveChannel
    <2> SUFFICES ASSUME ChannelInv, NEW c \in Contacts
                 PROVE  Cardinality(ActiveChannels(db, c)) <= 1
      BY DEF OneActiveChannel
    <2>1. db \in Database
      BY DEF ChannelInv, Inv, TypeOK
    <2>2. \A i \in ActiveChannels(db, c) :
            i \in 1 .. Len(db.channels) /\ db.channels[i].active /\ db.channels[i].contact = c
      BY <2>1 DEF ActiveChannels, Database
    <2>3. \A i, k \in ActiveChannels(db, c) : i = k
      BY <2>2 DEF ChannelInv, OneActive
    <2>4. CASE ActiveChannels(db, c) = {}
      BY <2>4, FS_EmptySet
    <2>5. CASE ActiveChannels(db, c) # {}
      <3>1. PICK i \in ActiveChannels(db, c) : TRUE
        BY <2>5
      <3>2. ActiveChannels(db, c) = {i}
        BY <2>3, <3>1
      <3>3. Cardinality({i}) = 1
        BY FS_Singleton
      <3>4. QED
        BY <3>2, <3>3
    <2>6. QED
      BY <2>4, <2>5
  <1>2. ChannelInv /\ [Next]_vars => ChannelInv'
    BY ChannelInvKept
  <1>3. QED
    BY <1>1, <1>2, ChannelInvInitial, PTL DEF Spec

=============================================================================
