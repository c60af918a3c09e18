-------------------------- MODULE WebhookProcessor --------------------------
(***************************************************************************)
(* From the reception of an event of a chat provider to the message in a   *)
(* discuss channel (src/addons/asertis_canales_digitales): the controller  *)
(* accepts an event, once or more times, as a job; the job looks for the   *)
(* contact and for its channel, creates them in cursors of their own, and  *)
(* posts the message.  Every transaction reads the database as it was at   *)
(* its first statement (REPEATABLE READ).                                  *)
(*                                                                         *)
(* Events are incoming and not empty, and come without data of the contact *)
(* other than its id.  The job queue is reduced to what JobQueue promises: *)
(* a job is run by one worker, and the oldest pending one goes first.      *)
(***************************************************************************)
EXTENDS Integers, Sequences, FiniteSets, SequencesExt

CONSTANTS
  Contacts,    \* ids of users of the provider
  Events,      \* the messages they write
  ContactOf,   \* [Events -> Contacts]
  Anonymous,   \* events without idMessageHey
  Known,       \* contacts that already have a partner and a channel
  Workers,     \* the jobs that run at one time, the capacity of the queue
  Deliveries,  \* bound: calls of the webhook
  MaxChannels, \* bound: channels created
  MaxRetries,  \* max_retries of the jobs
  LocalTries,  \* max_retries of retry_on_transient_error
  Faults       \* which of FaultKinds may happen

FaultKinds == {"conflict", "worker", "requeue", "archive"}

ASSUME EventsAssumption ==
  /\ ContactOf \in [Events -> Contacts]
  /\ Anonymous \subseteq Events
  /\ Known \subseteq Contacts /\ IsFiniteSet(Known)

ASSUME BoundsAssumption ==
  /\ Deliveries \in Nat /\ MaxChannels \in Nat /\ Cardinality(Known) <= MaxChannels
  /\ MaxRetries \in Nat \ {0} /\ LocalTries \in Nat \ {0}
  /\ Faults \subseteq FaultKinds

VARIABLES
  db,      \* the committed database, see Database
  jobs,    \* the job of each delivery, in the order of their creation
  worker   \* the job in the hands of each worker

vars == <<db, jobs, worker>>

(* Channels are numbered as they are created.                              *)
ChannelIds == 1 .. MaxChannels

Job == [event : Events, retry : Nat,
        state : {"pending", "postponed", "started", "done", "failed"}]

(* partners: contacts with a res.partner; channels: the records of         *)
(* discuss.channel; messages: mail.message, in the order of their commit;  *)
(* joins: channels with a job _add_manual_members; joined: channels that   *)
(* have their members.                                                     *)
Database ==
  [partners : SUBSET Contacts,
   channels : Seq([contact : Contacts, active : BOOLEAN]),
   messages : Seq([event : Events, channel : ChannelIds]),
   joins    : SUBSET ChannelIds,
   joined   : SUBSET ChannelIds]

(* snap is what the open transaction sees, NoSnap before its first read;   *)
(* join is the channel whose members it adds by a job, not committed yet.  *)
NoSnap == [none |-> TRUE]
None   == 0

Pcs == {"idle", "check", "duplicate", "partner", "channel", "members", "flush",
        "final", "post", "answer", "error"}

WorkerState ==
  [pc : Pcs, job : Nat, snap : {NoSnap} \cup Database, channel : {None} \cup ChannelIds,
   join : SUBSET ChannelIds, tries : 0 .. LocalTries - 1]

IdleWorker == [pc |-> "idle", job |-> None, snap |-> NoSnap, channel |-> None,
               join |-> {}, tries |-> 0]

Init ==
  /\ LET known == SetToSeq(Known)
     IN db = [partners |-> Known,
              channels |-> [i \in DOMAIN known |-> [contact |-> known[i], active |-> TRUE]],
              messages |-> << >>, joins |-> {}, joined |-> DOMAIN known]
  /\ jobs = << >>
  /\ worker = [w \in Workers |-> IdleWorker]

-----------------------------------------------------------------------------
(* What a transaction finds in the state s of the database.                *)

Posts(s, e) == {i \in DOMAIN s.messages : s.messages[i].event = e}

PostsIn(s, i) == {m \in DOMAIN s.messages : s.messages[m].channel = i}

ActiveChannels(s, c) ==
  {i \in DOMAIN s.channels : s.channels[i].contact = c /\ s.channels[i].active}

(* search(..., limit=1) on records ordered by id.                          *)
First(ids) == CHOOSE i \in ids : \A j \in ids : i <= j

Event(w)   == jobs[worker[w].job].event
Contact(w) == ContactOf[Event(w)]

(* An event without an id gets a new one each time it is extracted.        *)
Identified(e) == e \notin Anonymous

(* SELECT ... FOR UPDATE NOWAIT fails on a row another transaction holds.  *)
Locked(w) ==
  \E v \in Workers \ {w} :
    /\ \/ worker[v].pc = "duplicate"
       \/ worker[v].pc = "error" /\ worker[v].snap # NoSnap
    /\ Event(v) = Event(w)

Goes(w, r) == worker' = [worker EXCEPT ![w] = r]

-----------------------------------------------------------------------------
(* The queue.                                                              *)

(* The controller has accepted the event: 202.  Nothing tells a delivery   *)
(* from another one of the same event.                                     *)
Receive(e) ==
  /\ Len(jobs) < Deliveries
  /\ jobs' = Append(jobs, [event |-> e, retry |-> 0, state |-> "pending"])
  /\ UNCHANGED <<db, worker>>

Dispatch(w, d) ==
  /\ worker[w].pc = "idle" /\ jobs[d].state = "pending"
  /\ \A i \in 1 .. d - 1 : jobs[i].state # "pending"
  /\ jobs' = [jobs EXCEPT ![d].state = "started"]
  /\ Goes(w, [IdleWorker EXCEPT !.pc = "check", !.job = d])
  /\ UNCHANGED db

EtaDue(d) ==
  /\ jobs[d].state = "postponed"
  /\ jobs' = [jobs EXCEPT ![d].state = "pending"]
  /\ UNCHANGED <<db, worker>>

(* The transaction of the job is over, its worker is free.                 *)
Ends(w, state) ==
  /\ jobs' = [jobs EXCEPT ![worker[w].job].state = state]
  /\ Goes(w, IdleWorker)

(* RetryableJobError: until the last try.                                  *)
Retries(w) ==
  LET j == jobs[worker[w].job]
  IN /\ jobs' = [jobs EXCEPT ![worker[w].job] =
                   [j EXCEPT !.retry = @ + 1,
                             !.state = IF j.retry + 1 < MaxRetries
                                       THEN "postponed" ELSE "failed"]]
     /\ Goes(w, IdleWorker)

(* An error of concurrency that reaches the controller of the queue, which *)
(* postpones the job without looking at its tries; to count them beyond    *)
(* MaxRetries changes nothing.                                             *)
Conflicts(w) ==
  /\ jobs' = [jobs EXCEPT ![worker[w].job].retry = IF @ < MaxRetries THEN @ + 1 ELSE @,
                          ![worker[w].job].state = "postponed"]
  /\ Goes(w, IdleWorker)

(* MUTANT: one try more than max_retries.                                  *)
TriesOnceMore(w, pc) ==
  \/ /\ worker[w].tries + 1 <= LocalTries
     /\ Goes(w, [worker[w] EXCEPT !.pc = pc, !.snap = NoSnap, !.join = {},
                                  !.tries = @ + 1])
     /\ UNCHANGED jobs
  \/ worker[w].tries = LocalTries /\ Conflicts(w)

(* retry_on_transient_error: roll back, which also ends the snapshot and   *)
(* forgets the jobs created since the last commit, and start the function  *)
(* again; the last error goes up.                                          *)
TriesAgain(w, pc) ==
  \/ /\ worker[w].tries + 1 < LocalTries
     /\ Goes(w, [worker[w] EXCEPT !.pc = pc, !.snap = NoSnap, !.join = {},
                                  !.tries = @ + 1])
     /\ UNCHANGED jobs
  \/ worker[w].tries + 1 = LocalTries /\ Conflicts(w)

-----------------------------------------------------------------------------
(* process_webhook_event and _check_and_lock_duplicate.                    *)

(* A lock that is not granted counts as a duplicate, but it has aborted    *)
(* the transaction in which the job is to be stored as done.               *)
CheckDuplicate(w) ==
  LET found == Identified(Event(w)) /\ Posts(db, Event(w)) # {} IN
  /\ worker[w].pc = "check"
  /\ UNCHANGED <<db, jobs>>
  /\ Goes(w, [worker[w] EXCEPT !.snap = IF found /\ Locked(w) THEN NoSnap ELSE db,
                               !.pc = IF ~found THEN "partner"
                                      ELSE IF Locked(w) THEN "error"
                                      ELSE "duplicate"])

(* "Duplicate message detected and skipped".                               *)
SkipDuplicate(w) ==
  /\ worker[w].pc = "duplicate"
  /\ Ends(w, "done")
  /\ UNCHANGED db

Fail(w) ==
  /\ worker[w].pc = "error"
  /\ Ends(w, "failed")
  /\ UNCHANGED db

-----------------------------------------------------------------------------
(* find_or_create_partner, by the id of the contact.                       *)

FindPartner(w) ==
  /\ worker[w].pc = "partner" /\ Contact(w) \in worker[w].snap.partners
  /\ Goes(w, [worker[w] EXCEPT !.pc = "channel"])
  /\ UNCHANGED <<db, jobs>>

(* _create_new_partner, committed at once in a cursor of its own: the      *)
(* transaction of the job does not see it.  If another job was faster, the *)
(* unique provider_user_id fails, and the function finds it after the      *)
(* rollback.                                                               *)
CreatePartner(w) ==
  /\ worker[w].pc = "partner" /\ Contact(w) \notin worker[w].snap.partners
  /\ IF Contact(w) \in db.partners
     THEN /\ UNCHANGED db
          /\ Goes(w, [worker[w] EXCEPT !.pc = "channel", !.snap = db])
     ELSE /\ db' = [db EXCEPT !.partners = @ \cup {Contact(w)}]
          /\ Goes(w, [worker[w] EXCEPT !.pc = "channel"])
  /\ UNCHANGED jobs

-----------------------------------------------------------------------------
(* find_or_create_channel.                                                 *)

(* What the transaction sees: its snapshot, or the database if it has just *)
(* been rolled back.                                                       *)
Sees(w) == IF worker[w].snap = NoSnap THEN db ELSE worker[w].snap

(* MUTANT: missing members are left alone.                                 *)
FindChannelAlone(w) ==
  LET ids == ActiveChannels(Sees(w), Contact(w)) IN
  /\ worker[w].pc = "channel" /\ ids # {}
  /\ Goes(w, [worker[w] EXCEPT !.pc = "flush", !.channel = First(ids),
                               !.snap = Sees(w), !.tries = 0])
  /\ UNCHANGED <<db, jobs>>

(* _update_existing_channel: missing members are left to a job.            *)
FindChannel(w) ==
  LET ids == ActiveChannels(Sees(w), Contact(w)) IN
  /\ worker[w].pc = "channel" /\ ids # {}
  /\ Goes(w, [worker[w] EXCEPT !.pc = "flush", !.channel = First(ids),
                               !.snap = Sees(w), !.tries = 0,
                               !.join = {First(ids)} \ Sees(w).joined])
  /\ UNCHANGED <<db, jobs>>

(* The update of the channel or of its members meets another one.          *)
ChannelConflict(w) ==
  /\ "conflict" \in Faults
  /\ worker[w].pc = "channel" /\ ActiveChannels(Sees(w), Contact(w)) # {}
  /\ TriesAgain(w, "channel")
  /\ UNCHANGED db

(* MUTANT: a channel for each event.                                       *)
CreateChannelAlways(w) ==
  LET n == Len(db.channels) + 1 IN
  /\ worker[w].pc = "channel"
  /\ n \in ChannelIds
  /\ db' = [db EXCEPT !.channels = Append(@, [contact |-> Contact(w), active |-> TRUE])]
  /\ Goes(w, [worker[w] EXCEPT !.pc = "members", !.channel = n, !.snap = Sees(w),
                               !.tries = 0])
  /\ UNCHANGED jobs

(* No active channel is seen: one is created and committed at once in a    *)
(* cursor of its own.                                                      *)
CreateChannel(w) ==
  LET n == Len(db.channels) + 1 IN
  /\ worker[w].pc = "channel" /\ ActiveChannels(Sees(w), Contact(w)) = {}
  /\ n \in ChannelIds
  /\ db' = [db EXCEPT !.channels = Append(@, [contact |-> Contact(w), active |-> TRUE])]
  /\ Goes(w, [worker[w] EXCEPT !.pc = "members", !.channel = n, !.snap = Sees(w),
                               !.tries = 0])
  /\ UNCHANGED jobs

(* MUTANT: a violation of a foreign key is an error like any other.        *)
AddMembersFails(w) ==
  /\ worker[w].pc = "members"
  /\ Ends(w, "failed")
  /\ UNCHANGED db

(* MUTANT: the error is swallowed.                                         *)
AddMembersQuietly(w) ==
  /\ worker[w].pc = "members"
  /\ Ends(w, "done")
  /\ UNCHANGED db

(* _safe_add_members in the transaction of the job, whose snapshot is      *)
(* older than the channel: the foreign key is violated and the whole job   *)
(* is to be tried again.                                                   *)
AddMembers(w) ==
  /\ worker[w].pc = "members"
  /\ Retries(w)
  /\ UNCHANGED db

-----------------------------------------------------------------------------
(* _create_message_with_final_check.                                       *)

(* flush and commit: the jobs created so far exist, the next read is new.  *)
Flush(w) ==
  /\ worker[w].pc = "flush"
  /\ db' = [db EXCEPT !.joins = @ \cup worker[w].join]
  /\ Goes(w, [worker[w] EXCEPT !.pc = "final", !.join = {}, !.snap = NoSnap])
  /\ UNCHANGED jobs

(* The flush writes what _update_existing_channel left, and may conflict.  *)
FlushConflict(w) ==
  /\ "conflict" \in Faults
  /\ worker[w].pc = "flush"
  /\ TriesAgain(w, "flush")
  /\ UNCHANGED db

(* MUTANT: no final check.                                                 *)
FinalCheckNothing(w) ==
  /\ worker[w].pc = "final"
  /\ Goes(w, [worker[w] EXCEPT !.pc = "post", !.snap = Sees(w)])
  /\ UNCHANGED <<db, jobs>>

(* check_duplicate_by_provider_id.  A message that is found is returned as *)
(* a tuple, of which _process_webhook_core asks the id: an error.  A lock  *)
(* that is not granted counts as a new message, in an aborted transaction. *)
FinalCheck(w) ==
  LET found == Identified(Event(w)) /\ Posts(Sees(w), Event(w)) # {}
      Go(pc, s) == Goes(w, [worker[w] EXCEPT !.pc = pc, !.snap = s]) /\ UNCHANGED jobs
  IN
  /\ worker[w].pc = "final"
  /\ \/ ~found /\ Go("post", Sees(w))
     \/ found /\ ~Locked(w) /\ Go("error", Sees(w))
     \/ found /\ Locked(w) /\ IF worker[w].tries + 1 < LocalTries
                              THEN TriesAgain(w, "flush")
                              ELSE Go("error", NoSnap)
  /\ UNCHANGED db

(* message_post writes last_interest_dt of the channel: it cannot commit   *)
(* if another transaction wrote that row since the snapshot.               *)
WriteConflict(w) ==
  LET i == worker[w].channel IN
  \/ PostsIn(worker[w].snap, i) # PostsIn(db, i)
  \/ worker[w].snap.channels[i] # db.channels[i]

(* message_post with the id of the provider, and the commit.               *)
Post(w) ==
  /\ worker[w].pc = "post" /\ ~WriteConflict(w)
  /\ db' = [db EXCEPT !.messages =
              Append(@, [event |-> Event(w), channel |-> worker[w].channel])]
  /\ Goes(w, [worker[w] EXCEPT !.pc = "answer", !.snap = NoSnap])
  /\ UNCHANGED jobs

(* The conflict shows inside message_post, or at the commit after it.      *)
PostConflict(w) ==
  /\ worker[w].pc = "post"
  /\ "conflict" \in Faults \/ WriteConflict(w)
  /\ TriesAgain(w, "flush") \/ Conflicts(w)
  /\ UNCHANGED db

(* The job is stored as done in the next transaction.                      *)
Answer(w) ==
  /\ worker[w].pc = "answer"
  /\ Ends(w, "done")
  /\ UNCHANGED db

-----------------------------------------------------------------------------
(* The job _add_manual_members of a channel.                               *)
JoinMembers(w, i) ==
  /\ worker[w].pc = "idle" /\ i \in db.joins
  /\ db' = [db EXCEPT !.joins = @ \ {i}, !.joined = @ \cup {i}]
  /\ UNCHANGED <<jobs, worker>>

(* A worker dies; its job stays started until a user requeues it.          *)
WorkerKilled(w) ==
  /\ "worker" \in Faults /\ worker[w].pc # "idle"
  /\ Goes(w, IdleWorker)
  /\ UNCHANGED <<db, jobs>>

Requeue(d) ==
  /\ "requeue" \in Faults
  /\ \/ jobs[d].state = "failed"
     \/ jobs[d].state = "started" /\ \A w \in Workers : worker[w].job # d
  /\ jobs' = [jobs EXCEPT ![d].state = "pending", ![d].retry = 0]
  /\ UNCHANGED <<db, worker>>

(* A user archives a channel.                                              *)
Archive(i) ==
  /\ "archive" \in Faults
  /\ i \in DOMAIN db.channels /\ db.channels[i].active
  /\ db' = [db EXCEPT !.channels[i].active = FALSE]
  /\ UNCHANGED <<jobs, worker>>

-----------------------------------------------------------------------------
Process(w) ==
  \/ CheckDuplicate(w) \/ SkipDuplicate(w) \/ Fail(w)
  \/ FindPartner(w) \/ CreatePartner(w)
  \/ FindChannel(w) \/ ChannelConflict(w) \/ CreateChannel(w) \/ AddMembers(w)
  \/ Flush(w) \/ FlushConflict(w) \/ FinalCheck(w)
  \/ Post(w) \/ PostConflict(w) \/ Answer(w)

Next ==
  \/ \E e \in Events : Receive(e)
  \/ \E d \in DOMAIN jobs : EtaDue(d) \/ Requeue(d)
  \/ \E w \in Workers : \/ Process(w)
                        \/ \E d \in DOMAIN jobs : Dispatch(w, d)
                        \/ \E i \in ChannelIds : JoinMembers(w, i)
                        \/ WorkerKilled(w)
  \/ \E i \in ChannelIds : Archive(i)

Spec == Init /\ [][Next]_vars

(* The runner and the workers go on; nothing makes an event arrive, a      *)
(* worker die or a user act.                                               *)
Fairness ==
  /\ \A d \in 1 .. Deliveries : WF_vars(d \in DOMAIN jobs /\ EtaDue(d))
  /\ \A w \in Workers :
       /\ WF_vars(Process(w))
       /\ WF_vars(\E d \in DOMAIN jobs : Dispatch(w, d))
       /\ \A i \in ChannelIds : WF_vars(JoinMembers(w, i))

FairSpec == Spec /\ Fairness

-----------------------------------------------------------------------------
TypeOK ==
  /\ db \in Database
  /\ jobs \in Seq(Job)
  /\ worker \in [Workers -> WorkerState]
  /\ \A w \in Workers : worker[w].job \in {None} \cup DOMAIN jobs

(* A contact has one active channel at most: find_or_create_channel takes  *)
(* the first one and creates one only if there is none.                    *)
OneActiveChannel == \A c \in Contacts : Cardinality(ActiveChannels(db, c)) <= 1

(* An event that has an id becomes one message at most, however many times *)
(* it is delivered, tried again, requeued or interrupted: the purpose of   *)
(* the two duplicate checks.                                               *)
NoDuplicateMessages ==
  \A e \in Events : Identified(e) => Cardinality(Posts(db, e)) <= 1

(* A job that is done has left the message of its event in a channel of    *)
(* the contact: no path returns quietly before it is committed.            *)
DonePosted ==
  \A d \in DOMAIN jobs :
    jobs[d].state = "done" =>
      \E i \in Posts(db, jobs[d].event) :
        db.channels[db.messages[i].channel].contact = ContactOf[jobs[d].event]

(* The duplicate of an event that has its message is skipped, it is not a  *)
(* job that fails.                                                         *)
DuplicateNotFailed ==
  \A d \in DOMAIN jobs :
    jobs[d].state = "failed" => Posts(db, jobs[d].event) = {}

(* Every event the controller accepted becomes a message: a job that meets *)
(* a race is tried again, and a failed attempt leaves nothing that makes   *)
(* the next one fail.                                                      *)
AcceptedPosted ==
  \A e \in Events :
    (\E d \in DOMAIN jobs : jobs[d].event = e) ~> (Posts(db, e) # {})

(* A channel in which a message is posted gets its members, without whom   *)
(* nobody reads it: the attempt that created it could not add them.        *)
PostedJoined ==
  \A i \in ChannelIds : (PostsIn(db, i) # {}) ~> (i \in db.joined)
=============================================================================
