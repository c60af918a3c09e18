# TLA+ models of guatic-odoo

The repository is an Odoo 18 deployment of omnichannel messaging. Providers of
chat (WhatsApp and others through HeyNow) deliver messages to a webhook; each
becomes a *job* of the OCA `queue_job` module; the job finds or creates the
contact (`res.partner`) and its conversation (`discuss.channel`) and posts the
message there; agents answer from Discuss, and the answer is sent back to the
provider. Beside it there are WhatsApp templates sent to contacts and
opportunities, reports, a CRM data model, and a connector to an Issabel
telephone exchange that turns its events into jobs as well.

Everything asynchronous on the server goes through `queue_job`, and every message
of a customer through `webhook_processor.py`: these two are modelled first. Most
of the code by volume runs in browsers: the softphone of the `voip` module with
the SIP.js library it is built on, and the call-centre board of the Issabel
connector. They come next.

## 1. Inventory

Paths are relative to `src/addons/`; `acd` stands for `asertis_canales_digitales`.

| Component | State | Operations | What is hard | What makes it correct |
|---|---|---|---|---|
| Rows of jobs (`queue_job/job.py`, `models/queue_job.py`) | table `queue_job`: state, retry, eta, dependencies | delay, store, retry, done, cancel, requeue, delete, two crons | transactions on snapshots, several writers of one row | states follow the documented life cycle; a resolved job stays so; tries are bounded |
| Runner (`queue_job/jobrunner/`) | its copy of the jobs: queues, running set, ChannelJobs | initialise, process notifications, dispatch, restart | its copy lags behind the table; HTTP calls that time out after a second | capacity; no slot held for nothing; every ready job runs |
| Worker (`queue_job/controllers/main.py`) | the open transactions of a request | start, perform, store the result, release dependents | dies between transactions; several requests for one job | one execution of a job at a time; dependents released |
| Channels (`jobrunner/channels.py`) | tree of channels, priority queues, running and failed sets | notify, get_jobs_to_run, remove | capacities along the tree, sequential channels, throttling | capacity in every sub-channel, order in sequential ones |
| Webhook (`acd/controllers/webhook.py`, `acd/models/webhook_processor.py`) | none of its own: jobs, messages | accept, check duplicates, process, post | events delivered twice or at once; commits in the middle of a job; two levels of retries | one message per event; accepted events are posted; done means posted |
| Contacts (`acd/models/res_partner.py`) | `res_partner` | find or create, update jobs | creation in a cursor of its own; identity by phone or e-mail | a provider id belongs to one partner, the right one |
| Conversations (`acd/models/discuss_channel.py`) | `discuss_channel`, members | find or create, add and remove members | check-then-create; members added later by a job | one active channel per contact; its members are the agents with the skill |
| Outbound (`acd/models/provider/`, `heynow/`) | delivery status of a message | send by one of five strategies | sent before the commit; errors swallowed | status tells what was sent; nothing is sent twice |
| Payloads, renderer (`acd/models/payloads/`, `heynow/payload.py`) | none | extraction, rendering | parsing only | |
| Chat history (`acd/controllers/chat_history.py`, `models/chat_history/`) | token and page caches | log in, fetch, invalidate | expiry of tokens and entries | no page of another conversation, no expired token |
| Skills (`acd/models/provider_skill*.py`) | links of users and skills | import | validation of a file | |
| Templates (`asertis_whatsapp_templates/`) | templates, parameters, message log | send, retry, automatic retry, clean up | retries by hand and by cron of a message that may have been sent | a message is not sent twice; attempts are bounded |
| Issabel connection (`issabel_connector/services/`, `models/ami/`) | AMI connection | connect, reconnect, dispatch an event | a thread with reconnections | one connection per exchange |
| Issabel board (`issabel_connector/static/src/`, `models/base.py`, `handlers.py`) | the lists of waiting calls and agents of a page | query, refresh, apply an event | an event takes a thread, a job and the bus: events overtake each other and queries | the board shows who waits and who is paused |
| SIP.js (`voip/static/lib/sip.js`) | sessions, transactions, dialogs, connections of one end | INVITE, CANCEL, ACK, BYE, re-INVITE, REGISTER | messages that cross, promises that settle late, timers, lost WebSockets | both ends agree on whether there is a call and who hears whom |
| Softphone (`voip/static/src/`) | the current session, the records of calls in the page and on the server | dial, accept, reject, hang up, transfer, hold, reconnect | handlers that await the server and then act on whatever session there is | the live call can be hung up; its record tells how it ended; the user is reachable or told |
| Reports, CRM, demo (`asertis_canales_digitales_reports`, `asertis_crm`, `fv_asertis_channels_demo`) | records, token | fetch, show | little | |
| Other vendored modules (views, helpdesk, renting, time sheets, WhatsApp) | | | | left aside |

Interaction: the webhook, contacts, conversations and the Issabel connector
create jobs (`with_delay`); the runner is told of every committed change of a
row by a PostgreSQL trigger (`queue_job/post_init_hook.py`) and asks a worker by
HTTP to run a job; two transactions that meet on a row are separated by
REPEATABLE READ, whose failures travel as `OperationalError` and are turned into
new attempts at three levels: the decorator `retry_on_transient_error`,
`queue_job`, and Odoo's own retrying of requests.

The hazards of the code, each at its line, with the properties that cover them,
are in `PROJECT.json`. A property that excepts a hazard, by a named mishap or by a
fault left out of its run, is not listed as covering it: the note says so, and names
the configuration that shows what happens where there is one (section 11).

In the browser, `Session` objects call back the softphone through delegates; the
softphone asks the server through one request per operation; the board hears the
server on Odoo's bus.

## 2. Plan

1. `JobLifecycle` (abstract), `JobQueue`, `MCJobQueue`, `JobQueueProofs`, with the proof
   that the queue implements what the author of a job is promised -- done.
2. `WebhookProcessor`, `MCWebhookProcessor`, `WebhookProofs` -- done for events
   without data of the contact, members as one group.
3. `PhoneCall` (abstract), `SipCall`, `MCSipCall`, `SipCallProofs`,
   `SipCallEndProofs`: a call at both its ends, the proof that it implements what
   users are promised, and how it ends -- done.
4. `SipHold`, `SipHoldProofs`: hold and resume during a call -- done. `Softphone`,
   `SoftphoneProofs`: the user agent and its records -- done. `Registration`,
   `RegistrationProofs`: the connection and the registration -- done.
5. `AgentBoard`, `AgentBoardProofs`: the board of the call centre -- done.
6. To come: `Channels` (the tree of channels of the ChannelManager), `Outbound`
   and `TemplateLog` (what is sent to the provider), `PartnerIdentity` and
   `ChatChannel` (agents that gain and lose skills), `AmiConnection`, the caches
   of the chat history.
7. Abstract specification to come: `Inbox`, each event becomes a message once,
   implemented by `WebhookProcessor`.
8. Theorems: every invariant and action property that a passing run checks is
   proved (section 10); that of item 7 is to come with its specification.

How the modules fit: `Softphone` abstracts a call to its *leg* (where its session
is and how it ended), whose steps are those of one end of `SipCall`; `SipHold`
begins where `SipCall` is established at both ends; `Registration` owns the
WebSocket whose loss `SipCall` models as `Disconnect`. `WebhookProcessor` and
`AgentBoard` take of `JobQueue` that a job is run, possibly again, possibly next
to others.

## 3. JobQueue and JobLifecycle

**State and code.** `row` is the committed table (state, retry, whether an eta
lies ahead). `queue`, `etaQueue` and `running` are those of the root channel;
`moved` holds the jobs whose ChannelJob and row differ in eta, the property
`ChannelManager.notify` compares. `notes` are the notifications not processed; a
set is enough because the runner reads the row when it processes one, not when
it arrives. `call[s]` is an HTTP request together with the worker that serves
it: `thread` says that the runner's client thread still waits, `stale` that a
row was changed under the worker's snapshot. `txn[u]` is a user's request, with
the snapshot it decides on and the rows changed since.

**Actions.** One per step the code takes between two points where others may
act; `PROJECT.json` gives the lines. A worker's life is three transactions:
`StartJob` (row locked, set to started, committed), `BeginPerform` (first
statement of the next one) and an outcome, then `ReleaseDependents`. Merged: the
pop of a job and `set_job_enqueued`, since no action of the same thread lies
between and others see either the row before or after; `retry_postpone`, one
cursor. A request of a user is two steps, snapshot and commit.

**Simplifications.** One channel: the deployed files put
`queue_job_channels = root:4,webhook:2` under `[options]`
(`src/odoo.prod.conf:34`), where `queue_job` does not look, so the runner has its
default `root:1`; `Capacity` is a constant all the same. Any pending job may be
popped: priorities, creation dates and throttling choose one of them. An eta is
ahead or past, without clock. `Slots` bounds the outstanding requests and
`RetryBound` the retry column: these are the only bounds that cut behaviours.

**Abstract specification.** `JobLifecycle` is what the author of a job sees: it waits
for its parents, is ready, runs with no more jobs next to it than the capacity, ends
or is tried again, and stays done or cancelled. `Stage` maps the rows to it;
pending and enqueued are both *ready*, and a user's transaction may move several jobs.

**Discipline of the users.** `UserOps` says which operation a user may ask for on
a job in which state. `FormOps` is what the form's buttons offer; `CarefulOps`
leaves out jobs that are pending. The runs that pass name the discipline they need; the violation runs show why.

| Run | Instance | Shows |
|---|---|---|
| `jobqueue_careful` | 2 jobs, capacity 1, 2 slots, 1 user (`CarefulOps`), timeouts, refused calls, killed workers, runner and server restarts | `CapacityRespected`, `OneExecution`, `NoPhantomSlot`, `TriesBounded`, `ResolvedIsFinal` |
| `jobqueue_graph` | a child of two parents, capacity 2, timeouts, conflicts, restarts | `NoLostWakeup`; `LifecycleKept`: `JobQueue` implements `JobLifecycle`, which says `ParentsFirst` too |
| `jobqueue_progress` | parent and child under fairness, timeouts, refused calls, killed workers, runner and server stopped | `ReadyRuns`, `EnqueuedLeaves` |
| `jobqueue_lost_wakeup` (violation) | join of two parents, 1 user | a child whose parents are all done waits for ever |

Two jobs and two slots are enough for every pair of requests (two for one job,
one for each) to meet; capacity 1 is the deployed one and makes every slot that
is freed too early visible; three jobs are the least with a join. Symmetry is
used only in runs without temporal properties over single jobs or slots.
`jobqueue_lifecycle.cfg`, to run by hand on `MCJobQueue` (a minute or two), checks
`LifecycleKept` with a careful user and every fault at once.

**Fairness.** `Fairness` in the module: the runner's loop, the client threads, a
worker that has begun and the cron go on (weak); strong fairness only where
another actor may disable a step and enable it again, which the order of the
queue and the server's backlog justify: no job is passed over for ever, and the
backlog does not outlast each time the second that a job's thread waits. Faults, users and the outcome of a job
are never fair.

**Not covered.** A worker killed between `JobDone` and `ReleaseDependents` leaves
a child waiting for ever and nothing in the code brings it back: `NoLostWakeup`
excepts such orphans and `ReadyRuns` is about rows that became pending.
`TriesBounded` is checked without conflicts: an `OperationalError` of concurrency
is turned into a retry outside of `Job.perform`, the only place that counts the
tries. A row left started by a crash keeps the slot of `root:1` until someone
requeues it (`started_delta` is 0): a job behind a crashed one is not promised
to run.

## 4. WebhookProcessor

**State and code.** `db` is the committed database reduced to partners, channels,
messages, pending member jobs and channels that have their members; `jobs` the
job of each delivery; `worker[w]` the job a worker runs, the step it is at, the
snapshot of its transaction, and what it will create at the next commit. The
job queue is what `JobQueue` promises: a job is run by one worker, the oldest
pending job first, a retry postpones it.

**Actions** follow `process_webhook_event` from its duplicate check to its commit.
`AddMembers` always ends in a retry: the members are inserted by a transaction
whose snapshot is older than the channel, which was committed in another cursor,
and under REPEATABLE READ the check of the foreign key looks at that snapshot.
So the first message of a contact takes two attempts, five seconds apart, and is
overtaken by messages that arrive meanwhile. `Flush` commits in the middle of the
job and ends the snapshot. `WriteConflict` stands for the write of
`last_interest_dt` by Odoo's `message_post`: it is what keeps two posts of one
event apart, since `message_id_provider_chat` has no unique constraint; if the
channel is archived between the two jobs' searches, they post in two channels and
nothing does, which is why `webhook_concurrent` leaves archiving out.

**Simplifications.** Events are incoming, not empty, and carry no phone, e-mail or
file; members are one group; several member jobs of a channel count as one. A
conflict with transactions outside of the model is the fault "conflict".
`Deliveries` and `MaxChannels` are bounds; beyond `MaxRetries` a retry counter is
not told apart.

| Run | Instance | Shows |
|---|---|---|
| `webhook_sequential` | 1 worker, 2 events of a new contact, 3 deliveries, killed workers, requeues, archiving | `OneActiveChannel`, `DonePosted` |
| `webhook_concurrent` | 2 workers, 2 events, 2 deliveries, conflicts, killed workers, requeues | `TypeOK`, `NoDuplicateMessages` |
| `webhook_progress` | 2 workers, a new contact, an event without id, under fairness | `AcceptedPosted`, `PostedJoined` |

With `root:1` one job runs at a time; the runs with two workers are about the
capacity the configuration asks for (`webhook:2`) and the docstring of the
processor promises ("multi-threaded or concurrent webhook delivery"). Two
workers are enough for every race of two jobs; two events of one contact give
both a duplicate and a follower; two channels are what a race can create.

**Fairness.** Workers and the dispatch go on, a postponed job becomes pending
again; no event, death, conflict or user is fair. `Process` includes the steps
taken after a conflict, and in the fair runs that pass the only conflicts are
those of two posts in one channel, each of which means that one succeeded.

## 5. SipCall and PhoneCall

**State and code.** `caller` is the `Inviter`, its INVITE client transaction and
its `SessionDialog`; `callee` the `Invitation`, its server transaction and its
dialog. They are separate objects in `sip.js`, each with its own state machine
(`Session.stateTransition`, `InviteClientTransaction.stateTransition`,
`InviteServerTransaction.stateTransition`), and the hazards lie between them: a
session may believe in a dialog that is closed. `work` is the promise a session
waits for (a local offer, the application of an answer); what arrives meanwhile
acts first. `net[e]` holds the messages on their way to an end, `online` the ends
whose WebSocket is open.

**Actions.** One per click, message, promise or timer, with every call it makes
through the layers: `ReceiveAccept` is the transaction's move to *accepted*, the
dialog, and `Inviter.onAccept` up to its `setAnswer`. The PBX between the ends is
outside the code: it carries a message, in order, to an end that is connected; a
lost WebSocket takes with it what was under way and a message sent to or by an end
off line is lost. It may also ask once for credentials (`Challenge`), before it
passes the INVITE on: `authenticationGuard` answers with a new transaction. A
`cancel()` that waits on the old one for a provisional response is not heard any
more (`unheard`); `GivenUpHeard` is about the other ones. `MaxDrops` bounds the
WebSockets lost (2: one at each end, or one end twice), `MaxTransit` the 2xx sent
again while others are under way. The timers of 32 s (B, H, L) may expire while the
message they wait for is under way (`AllowLate`); `late` remembers it, and the
properties that a late timer breaks say so.

**What is promised.** `PhoneCall` is a call as its users see it: dial, ring,
answer, talk, over. `PhoneCallKept` says that `SipCall` implements it, whatever is
lost or late: the phase of an end is a function of its session's state and
`Answered` is that the callee has a confirmed dialog.

| Run | Instance | Shows |
|---|---|---|
| `sip_call` | one call, both users free at any moment, 2 WebSockets lost, late timers | `HangUpPossible`, `SettledTogether`, `GivenUpHeard`, `PhoneCallKept`, `EndsTogether`, `CalleeSettles` |

One call is enough: sessions of different calls share only the transport.

**Fairness.** Messages that arrived are handled, promises of the browser settle,
timers fire. Users and the network are never fair. There is no liveness for the
caller alone: an INVITE that got a provisional answer has no timer of its own, the
code leaves it to the user to give up.

## 6. SipHold

**State and code.** `session[e]` holds the flags of `Session.invite` and of the
`SessionDialog` (re-INVITE clients and servers, signaling state); `media[e]` the
`RTCPeerConnection`, whose states follow the descriptions that the
`SessionDescriptionHandler` sets; `phone[e]` the `isOnHold` of the softphone. A
dialog's signaling state follows messages, a connection's follows descriptions:
the two are set apart on purpose, since a rollback moves one only.

**Actions.** `SetHold` is the click to the request for an offer; `OfferMade`,
`OfferSet`, `AnswerMade`, `AnswerApplied` are the promises; the others take
messages; `ReceiveInvite` chooses the direction of the answer, the options of
`onInviteRequest` being read when the re-INVITE comes, not when its offer is set.
`DirectionToOffer` and `AnswerDirection` are `updateDirection`, with the
directions of the audio. `SetHoldAnswering` is a click while a re-INVITE of the
peer is being answered: asked for an offer the handler makes an answer instead.
`rollbackOffer` looks for a function `rollbackDescription` that the handler does
not have, so it does nothing; the peer's next offer is taken for an answer and
fails, then all is well again.

**Mishaps.** `refused` (a re-INVITE was refused: collision, failure) and
`superseded` (the click while answering) are remembered, since `HoldKept` cannot
hold after them: the softphone shows *on hold* although the re-INVITE failed, and
nothing tells it. `NothingHalfOpen`, `MediaAgree` (but for `superseded`) and
`HoldEnds` hold all the same.

| Run | Instance | Shows |
|---|---|---|
| `sip_hold` | 5 clicks at any end and moment, BYE at any moment | `NothingHalfOpen`, `MediaAgree`, `HoldKept`, `HoldEnds` |

Three clicks make a collision and a new attempt after it; with five each end can
do so. Fairness as in `SipCall`.

## 7. Softphone

**State and code.** `session` is `this.session` of `UserAgent`; `leg[c]` the SIP.js
session of a call; `record[c]` its `voip.call` in the database and in the page,
with the interval of its timer; `requests` the calls of `CallService` to the
server that are on their way or answered. Handlers run up to their first `await`
and again after it, as two actions joined by a request (`clears` says that the
handler goes on to clear the session).

**How an outgoing call is answered.** The 2xx (`AnswerReceived`) and the handler
`_onOutgoingInvitationAccepted` (`Accepted`, or `AcceptedElsewhere` when the call is
to be picked up on another device) are two actions, as SIP.js applies the answer
between them; the user may hang up meanwhile, and SIP.js runs the handler however
that went (`sip.js:6280`): `start` is asked for the call of `this.session`, which may
be another. A call hung up before any answer waits, `Terminating`, for the last word
of the line: 487, a redirection or a 2xx end it without a word (`Canceled`); any other
refusal runs `_onOutgoingInvitationRejected` (`Refused`), which lets only 487 pass and
otherwise rejects the record of `this.session` and forgets it.

**Mishaps.** The code does not look at what changed during an `await`, so many
interleavings break it, and each is a state the program reaches. They are named
(`Mishaps`) and remembered when they happen; a property says which of them it
excepts, and holds in all other behaviours. `MaxMishaps = 1` lets each of them
happen, one kind in a behaviour, so the properties are checked next to all the
mishaps they do not except.

| Run | Instance | Shows |
|---|---|---|
| `softphone` | 2 calls, dialled or received, 3 requests in flight, 1 kind of mishap | `HandleKept`, `RecordTellsEnd`, `LineFreed` |

`belated` is the last case above: the line answers or refuses a call hung up when
another has become the session. The live call then loses its handle
(`softphone_belated`, section 11); `HandleKept` excepts it, and so does
`RecordTellsEnd`, whereas `LineFreed` holds after it too. When the refusal or the
answer comes while the session is still that call, or there is none, nothing is
excepted but what the requests do that cross.

Two calls are what a single `session` can confuse; the third request is the one a
late handler sends beside those of the call before and the call after. Fairness: the server answers,
or the request fails.

## 8. Registration

**State and code.** `transport` is the WebSocket, numbered so that a registration
can be compared with the connection it was made on; `agent` the flags of
`attemptReconnection` and whether the page shows an error; `registerer` the
`Registerer` with its timers; `request` the transaction of the last REGISTER;
`registrar` is what the PBX knows. `MaxAttempts` is the limit in `attemptReconnection`,
5 in the code, 1 here: the attempts do not differ but by their number.

**Mishaps.** `ignored`: after a reconnection, `register()` is rejected because the
REGISTER lost with the old connection has not timed out yet, and nobody looks at
the promise; the softphone then looks ready and is not reachable until the next
renewal. `refused`, `contactless`, `slow` are answers of the registrar.

| Run | Instance | Shows |
|---|---|---|
| `registration` | 4 connections, 6 REGISTER transactions, 1 kind of mishap | `WaitingAnswered`, `ReachableOrTold`, `RegistersAgain`, `ConnectionSettles` |

Three connections are a loss during the recovery from a loss; the fourth lets that
recovery end. Fairness: messages are delivered and answered, a connection opens or
fails, the timers of the browser fire.

## 9. AgentBoard

**State and code.** `pbx` is the exchange (who waits, who is paused), outside of
the repository; `events` the events that are somewhere between `handle_event`, the
job of each and the bus: a set, since each has a thread and a job of its own;
`page` the board of one user, with the answer of the query it awaits. `Process` is
what each handler does to the lists, with the keys that the notification really
has: four of the handlers look for others and change nothing (those of the members
are `MembersAsTheyWere`). `audience` says that
the page is of the user who connected the exchange, the only one who is told.

**Mishaps**: `stale` (an event between a query and its answer), `dropped`, `blank`,
`overtaken`, `misplaced` (`findIndexedAgent` takes the first agent whose name
contains the other's), `rejoined`.

| Run | Instance | Shows |
|---|---|---|
| `agent_board` | 2 calls, 3 rows (an agent in two queues, one whose name contains the other's), 3 events, 1 kind of mishap | `WaitingShown`, `PauseShown` |

Three events are the least in which two events of one row enclose another. It is a
safety model; `Deadlock` is checked, the page can always be refreshed.

## 10. Proofs

**`JobQueueProofs`**, for every set of jobs, graph, capacity, set of users and
faults:

- `TypeCorrect`: `Spec => [](TypeOK /\ CallHasJob /\ TxnHasJob)`, an open request or
  transaction is about a job.
- `CapacityTheorem`: `Spec => []CapacityRespected`, with no discipline of the users.
  `CapacityRespected` is not inductive: the runner counts its own `running`. The
  invariant `SlotInv` adds `BusyCounted` (while the runner is up it counts every
  busy row: a row becomes busy only by `RunJob`, which puts the job in `running`,
  and leaves `running` only by a notification that finds the row not busy) and
  `RunningFits` (`running` is within the capacity). While the runner is down
  nothing becomes busy, and `RunnerStart` counts anew rows that fitted already.
- `OneExecutionTheorem`: `Spec => []OneExecution`, assuming
  `UsersLeaveStartedJobs`, that users do not operate on started jobs (without it
  two workers may run one job: a user requeues it while it runs). `ExecInv` adds
  `ExecStarted` (the row of a job that is executed is started), `QueuedIdle` (a
  job in the runner's queue is not busy, so a dispatch does not take a started
  row back to enqueued) and `Snapshots` (a user's transaction that can commit saw
  the row of its job as it still is).

The theorems that follow assume `UsersCareful`: users leave jobs alone that are
pending or started, and do nothing to a resolved one but delete it. `CarefulOps`
satisfies it. A user who finishes a pending job races its dispatch, and the job is
resolved no longer (`jobqueue_dispatch_race`). They rest on `LifeInv`: what the runner's late
copy queues is pending all the same (`QueuedPending`), what it counts as running is
past its creation (`RunningSeen`), a job past waiting has the parents it still has
done (`ParentsDoneIn`), and the snapshots of the users are not ahead of the rows.

- `ResolvedIsFinalTheorem`, `ParentsFirstTheorem`: under `LifeInv` every step moves
  each row along `Moves` or leaves its state (`Lives`, one lemma per actor); both
  properties are read off these moves.
- `QueueRefinesLifecycle`: `Spec => LifecycleKept`. The rows start where the stages do; a
  move of a row maps to a move of its stage or to none (`LivesMoves`), the parents of a
  job that gets ready or starts being done by `Lives` and `ParentsDoneIn`; the jobs that
  run fit by `SlotInv`.
- `NoPhantomTheorem`: `Spec => []NoPhantomSlot`. Every step but the runner's own
  notifies what it does to a busy row (`Told`), so a row that ceases to be busy
  while the runner holds its slot is in `notes` until the runner has processed it.
- `TriesTheorem`: `Spec => []TriesBounded`, without the fault "conflict", whose path
  in `runjob` postpones without looking at the tries. `TriesInv` adds what each
  worker has loaded (`CallTries`), that it is what the row still says (`NeverStale`),
  and the rows that wait or are busy (`RowTries`).
- `NoLostWakeupTheorem`: `Spec => []NoLostWakeup`, assuming besides
  `UsersFinishNothing` (no user sets a job to done: `jobqueue_lost_wakeup` is the
  counterexample), `GraphsClosed` (a graph is created with all its parents, as
  `DelayableGraph.delay` does) and neither "worker" nor "server" among the faults: a
  worker that dies between `JobDone` and `ReleaseDependents` does lose the release.
  Then only a worker makes a parent done, it holds the release from that step on
  (`DoneIsReleasing`), and it gives it up only after having looked at the children.

The step lemmas have one case per action; lemmas on `Store`, `SetJobPending` and
`Postpone` are shared by the actions that call them.

**`SipCallProofs`**, for any number of lost WebSockets and messages under way, late
timers or not:

- `TypeCorrect` and `InvCorrect`: the inductive invariant `Inv` says that nothing
  happens before the first INVITE, that the INVITE or the challenge to it is alone
  on its way until the callee is invited and that none is sent after
  (`InvitedOnce`), and that a 2xx exists only if the callee has answered
  (`AcceptAnswered`). `PhoneCall` needs that: it lets the caller talk only after an
  answer, while the code lets it talk when a 2xx has been applied.
- `CallRefinesPhoneCall`: `Spec => PhoneCallKept`. The initial states map to initial
  states and each action to a step of `PhoneCall` or a stutter, one case per action
  (`RefinesCaller`, `RefinesCallee`), by the phases before and after.

**`SipCallEndProofs`**, for any number of lost WebSockets and messages under way:

- `HangUpAlwaysPossible`, `SettledInTheCallOrOut`, `GivenUpIsHeard`: the three safety
  properties of `sip_call`. They are about states in which little is under way, and
  hold because of what happens before; `EInv` says it. Messages are taken as sets
  (`SetOf`), since none of it depends on their order. The main conjuncts: until the
  caller acknowledges, nothing that follows the ACK is under way and the callee
  waits for it (`Unacked`, `Acked`, `InTime`); an end left alone in the call has a BYE
  coming (`ByeSent`, `CallerAlone`, `CalleeAlone`); a CANCEL that has not been
  sent waits for the provisional response it needs, and while the callee of a
  call given up rings, the CANCEL is under way (`CancelWaits`, `CancelUnderWay`).
  Where a conjunct
  needs that nothing was lost it says so (`drops = 0`), as the properties do;
  `HangUpPossible` does not.

**`SipHoldProofs`**, for any number of clicks at both ends:

- `TypeCorrect`; `NoReinviteHalfOpen` (`Spec => []NothingHalfOpen`), by `HandshakeInv`:
  at each end the client, the server, the signaling state, the state of the
  connection, the work of the session and what flies in either direction stand for
  one and the same exchange (`Handshake`, `Doing`).
- `BothEndsAgree` (`Spec => []MediaAgree`), by `AgreeInv`: a 2xx on its way, or taken
  and not applied, carries what its sender has made of the media (`Agreeing`).
- `HoldIsKept` (`Spec => []HoldKept`), by `HoldInv`: the direction of each end is the
  one (`Audio`) of the two holds agreed upon, of which the hold being asked for is
  still the contrary (`Asking`, `Agreed`), and the answer chosen when a re-INVITE came
  is still the right one when its offer has been set.

The lemmas treat the messages on their way as a set: the order of the channel is
not needed.

**`SoftphoneProofs`**, for any number of calls, requests and mishaps:

- `TypeCorrect`.
- `HandleIsKept` (`Spec => []HandleKept`), by `HandleInv`: unless one of the mishaps that
  `HandleKept` excepts has happened, `OneCall` holds. While a record is being
  created there is no session and no other handler is about to clear it; a handler
  that will clear the session is of a call that is over; a live call is the
  session's or its record is being created. `HandleKept` alone says nothing of the
  handlers that still await the server, nor of the calls hung up whose last answer is
  still to come: without `belated` that answer finds its own call, or none, in
  `this.session`.
- `RecordTellsTheEnd` (`Spec => []RecordTellsEnd`), by `RecordInv`: without mishaps each
  record has one request in flight at most, and is in the database what the page
  shows or what that request will make of it (`Follows`); and each state of the
  call says what the record is or will be (`Tells`).

What a step does to the calls, the records and the requests is stated once, in the
lemmas named `...Effect`, and used for both invariants.

**`AgentBoardProofs`**, for any calls, agents, rows, names and number of events:

- `TypeCorrect`, and `BoardInvCorrect` for `BoardInv`: a waiting call is `Accounted`
  for, being on the board, in the answer that the page is about to show, announced
  by an event still under way, or to be asked for. `WaitingShown` alone says nothing
  of the states in which events are under way.
- `WaitingCallsShown`: `Spec => []WaitingShown`.
- `PausesShown`: `Spec => []PauseShown`. `PauseInv` says of the page, and of the answer
  of its query, that the pause of every member is right or an event about his row is
  still on its way (`RightIn`, `Told`).

**`RegistrationProofs`**, for any number of attempts, connections, transactions and
mishaps:

- `TypeCorrect`, `AlwaysAnswered` (`Spec => []WaitingAnswered`) and
  `AlwaysReachableOrTold` (`Spec => []ReachableOrTold`). The invariant follows a
  registration on its way: a REGISTER that waits has its request or its answer on the
  open connection (`UnderWay`), an acceptance belongs to that connection
  (`AcceptedHere`), an answer that is no registration was a mishap when it was sent
  (`Blamed`); so without mishaps a settled connection without an error is registered
  and will renew (`Reachable`).

**`WebhookProofs`**, for any contacts, events, workers, deliveries, tries and faults;
it assumes that `Known` is finite:

- `TypeCorrect` and `DoneIsPosted` (`Spec => []DonePosted`): the worker that is about
  to end a job as done knows that the message is there, and rows are only added
  (`Before`, a snapshot comes before the database).
- `NoEventTwice`: `Spec => []NoDuplicateMessages`, assuming `NoArchive`, that no user
  archives a channel. Then every search for the channel of a contact finds the oldest
  one (`Chosen`), even if a race has created two; so a message of the event posted by
  another job is in the channel of this one, and this transaction either saw it in its
  final check or conflicts in the write of `last_interest_dt` (`NothingPosted`). The
  lock of the duplicate checks is not used by the argument.
- `OneChannelAtATime`: `Spec => []OneActiveChannel`, assuming `OneAtATime`, one worker at
  most, which is what the deployed `root:1` gives; with two
  (`webhook_two_channels`) each may miss the channel of the other. `ChannelInv` adds that
  the worker that has yet to look sees every channel there is, even if its
  snapshot is older than the partner committed in another cursor (`Looking`), and
  that what it sees as active includes what still is.

Every invariant was checked by TLC, in the instance of the component's run or a
smaller one, before it was proved. The instances of the runs satisfy the hypotheses:
`jobqueue_careful` has careful users and leaves out the fault "conflict",
`jobqueue_graph` has no users and no killed workers, `webhook_sequential` one worker,
`webhook_concurrent` no archiving.

Only model-checked: what liveness under fairness says (`ReadyRuns`, `EnqueuedLeaves`,
`AcceptedPosted`, `PostedJoined`, `EndsTogether`, `CalleeSettles`, `HoldEnds`,
`LineFreed`, `RegistersAgain`, `ConnectionSettles`), which needs `ENABLED` and is out of the
prover's reach. The counterexamples of the next section are of TLC too. Assumptions on
constants are those of the modules, evaluated by TLC in every run; the hypotheses
above are those of the theorems that name them.

## 11. Counterexamples beside the runs

Places where the code does not do what a comment, a document or the standard it
quotes says, found while modelling. `jobqueue_lost_wakeup` is a run; the others are
configurations to run by hand. Each checks one property, and TLC shows a behaviour
of the code that violates it.

| cfg, module | Property | What the repository says |
|---|---|---|
| `jobqueue_lost_wakeup`, `MCJobQueue` | `NoLostWakeup` | `queue_job/README.rst:240`: a parent set to done by a user lets the graph continue. Two parents finished at once, one by a user, each see the other as not done. |
| `jobqueue_dispatch_race`, `MCJobQueue` | `ResolvedIsFinal` | `queue_job/job.py:110` "the final state is done": a job resolved while the runner dispatches it is enqueued again (`runner.py:352` updates by uuid alone). |
| `webhook_two_channels`, `MCWebhookProcessor` | `OneActiveChannel` | `acd/models/discuss_channel.py:203` "maneja concurrencia": two jobs of a new contact create a channel each. |
| `webhook_duplicate_fails`, `MCWebhookProcessor` | `DuplicateNotFailed` | `acd/models/webhook_processor.py:22` "idempotent processing": the final check returns a tuple whose `id` is asked for; the duplicate's job fails. |
| `webhook_lost_members`, `MCWebhookProcessor` | `PostedJoined` | `acd/models/discuss_channel.py:288` "Agregar partners faltantes": a rollback in `retry_on_transient_error` loses the job that adds the members. |
| `sip_call_challenged`, `MCSipCall` | `NobodyRungInVain` | `sip.js:5893`: cancel "will terminate the session regardless of the race". Canceled just before a 401, the INVITE is sent again with credentials (`sip.js:13312`) and the callee rings until it answers or refuses. |
| `sip_hold_rollback`, `MCSipHold` | `RejectedUnchanged` | `sip.js:16457` quotes RFC 3261: after a refused re-INVITE the session parameters must remain unchanged; `rollbackOffer` (`sip.js:2305`) does nothing and the offer stays open. |
| `softphone_stuck`, `MCSoftphone` | `StuckNotInProgress` | `voip/static/src/core/call_model.js:104`: the state alone is not relied on, and yet a call left by a reloaded page counts as in progress as soon as another call is. |
| `softphone_belated`, `MCSoftphone` | `HangUpIsFinal` | `user_agent_service.js:563` "invitation has been cancelled by the user, the session has already been terminated": of a 487 only. A call hung up and then declined by the callee (603 crossing the CANCEL) rejects the record of the next call and drops its handle. |
| `registration_waits`, `MCRegistration` | `RegisterWaits` | `sip.js:7847`: one must wait for the prior request to time out; `user_agent_service.js:149` does not. |
| `agent_board_left`, `MCAgentBoard` | `LeftRemoved` | `call_handlers.js:45` "Remover llamada cuando es atendida": the handler reads a key the notification does not have. |
| `agent_board_everyone`, `MCAgentBoard` | `EveryoneTold` | `issabel_connector/models/base.py:309` "Enviar a todos los usuarios conectados": one user is told. |

## 12. Not modelled

Arguments and results of jobs, identity keys, chatter and access rights of
`queue_job`; several databases; the components that the plan lists as to come;
payload parsing, rendering, views, reports, configuration and the other vendored
modules. Of SIP.js: parsing and serialisation of messages, early dialogs and
reliable provisional responses (the softphone asks for neither), REFER beyond its
acceptance, MESSAGE, PUBLISH and SUBSCRIBE, which the softphone does not use. The
models are of a small part of the repository's lines: most of its JavaScript is a
vendored map library (`leaflet.js`), views that draw charts and grids, and the
grammar of SIP, which keep no protocol between two actors. Each part is in
`PROJECT.json` with the reason.

## 13. Running

    tlc -workers 2 -config sip_call.cfg MCSipCall.tla
    tlapm SipCallProofs.tla

The cfg of each run is named after it. Definitions marked MUTANT are wrong on
purpose: each replaces the definition after it to show that a property can fail.
