# A TLA+ model of the ccbd message core

claude_code_bridge runs several agents (provider command line programs in panes) under one
daemon, `ccbd`. Agents and users send each other asynchronous `ask` messages. The daemon turns
a message into jobs, starts one job per agent at a time, watches for its completion and sends
the reply back through the sender's mailbox. All of it is kept in append-only files, so that a
restarted daemon can go on.

This directory models that core: the mailbox of an agent, the dispatcher that drives it, the
delivery of replies, result chains between agents, the heartbeat that gives silent jobs up and the
control socket with the threads all of it runs in. `PROJECT.json` maps every definition to its source lines,
lists the runs, the mutants that show that each property can fail, the hazards and the theorems.

## 1. Inventory

| Component | State | Operations | Interacts with |
|---|---|---|---|
| mailbox kernel (`lib/mailbox_kernel`) | per agent: `inbox.jsonl`, lease file, `mailbox.json` summary | claim, claim_next, ack_reply, consume, abandon, supersede, rewrite_head, expire_lease, summary updates | called by message bureau, dispatcher, reply delivery, lease sweep |
| message bureau (`lib/message_bureau`) | messages, attempts, replies | record_submission, record_retry_attempt, mark_attempt_started, record_attempt_terminal, record_reply, ack | writes mailboxes; called by the dispatcher |
| job dispatcher (`lib/ccbd/services/dispatcher*`) | job records; in memory: queue and active slot of each agent | submit, retry, resubmit, tick (start), poll, complete, cancel, restore | socket handlers, heartbeat loop, execution service |
| provider execution, completion tracking | running submissions, completion snapshots | start, poll, cancel, finish, restore | provider programs |
| job heartbeat (`lib/heartbeat`, `job_heartbeat*`) | one notice count file per running job | tick | snapshots, `dispatcher.complete` |
| reply delivery (`reply_delivery_runtime`) | delivery jobs, reference in the head event, count of requeues | prepare, claim, complete, dispose, requeue, repair | mailbox head, dispatcher, recovery, lease sweep |
| callback edges (`callbacks.py`) | edges between parent and child jobs | delegate, continue, fail, close, repair | submission, completion, cancel, retry |
| daemon loop (`ccbd/app_runtime/lifecycle.py`) | stages of one heartbeat | supervision, tick, poll, job heartbeat, lease sweep | all of the above, in the maintenance thread |
| control socket (`socket_server_runtime`) | connection queue, dirty signal, after-response actions, bootstrap gate, stop event | accept, serve, queue maintenance, publish, shut down | handlers run in the request worker, ticks and actions in the maintenance worker |
| keeper, supervision, namespace, reload | daemon lease, panes | start, adopt, restart | processes |
| maintenance heartbeat, webhook, project view, mobile gateway, provider backends, command line, role packs | configuration, views | I/O | not part of the message protocol |

What is hard about it:

* two threads, `ccbd-socket-worker` and `ccbd-maintenance-worker`, use the same stores; only
  some operations take `_chain_transition_lock`, and none of the mailbox kernel's do;
* every operation is several file writes, and the process may end between any two of them;
* the same fact is kept twice: queue and job store, lease and event, summary and history,
  attempt state and message state, snapshot and job record;
* time-outs (job heartbeat, lease expiry) race late completions and cancellations;
* automatic retries make new attempts of a message that already looked finished;
* a reply is delivered by a job of its own, and the event, the job and the count of requeues can
  each be a write ahead of the others when the process ends;
* a result chain is carried on by whoever ends the child: a completion, a cancel or a repair;
* at shutdown three threads stop, join and finish each other's work, with time-outs.

What makes each component correct: the mailbox serves one event at a time in order of arrival
and its summary is exact; a job ends once and an attempt is answered once; queue, store and
mailbox agree; retries form one line within their budget; a running job keeps its lane; every
message is answered; a job is given up only after the whole patience of silence; a reply is
delivered by one job at a time and within its budget, and leaves the mailbox; an edge is continued
once, with the child's result; a request has an effect only if it was served, a serving daemon handles
only ping before it is published, and a stop ends the process with its finalizer run.

## 2. Modules

* **MailboxOps** - the kernel's operations as functions on one mailbox
  `[inbox, lease, summary]`. The log is represented by what `latest_events` returns: the last
  record of each event in order of arrival. Timestamps, ids of messages and attempts, and the
  version of the compare-and-save of the summary are left out.
* **MailboxLane** - what a mailbox promises: arrival, service of the oldest waiting event,
  departure, putting back. Abstract specification.
* **MailboxKernel** - one action per operation of `MailboxKernelService` and per way the message
  bureau records an event, each run to its end. `Lane` is the refinement mapping: the waiting
  events are the pending ones, the served one is that of the acquired lease.
* **MailboxSteps** - the same operations as loads, appends, saves and removals of two threads,
  with crashes. A thread keeps the record it loaded (`current`) and writes it back later, as the
  code's `replace(current, ...)` does. The summary, which no decision reads, is left out.
* **Dispatcher** - the life of the requests to one agent over MailboxOps. A step ends at every
  write of a job, an attempt, a reply or the mailbox. `lock` is `_chain_transition_lock`;
  `thread[t].seen` is the job record loaded before an inspection, `starting` the start a cancel
  may revoke. `remove_queued` takes the first place of a job off the queue, `admission_ordered` is the
  order `rebuild` gives it: by pending event, then by job. `Crash` is the end of the process together with `DispatcherState.rebuild`;
  `RestoreResumed` and `RestoreEnds` are `restore_running_jobs`, during which the socket accepts
  `ping` only. A provider start may be accepted, raise or be skipped; a poll may bring any
  decision in `Decisions`, of which `retryable` stands for `is_retryable_failure`. A cancel is
  asked for by a user or, for the active job of a degraded agent, by supervision in the maintenance
  thread (`CancelDegraded`).
* **ReplyDelivery** - the delivery jobs for the replies in one mailbox, over MailboxOps. A thread's
  `todo` is the list of the steps its operation still has to take, so that the shared parts
  (complete, resolve, repair, prepare) are written once and used by the tick, the poll, the cancel
  and the recovery. `rewrite_reply_head` and the sweep are two steps each, since a crash between
  their writes matters here. `anchored` is the snapshot's evidence that the prompt reached a turn.
* **Callbacks** - result chains over jobs, edges and replies. Every handler runs under
  `_chain_transition_lock`; `work` is the one that holds it, with a step for each write, and a crash
  may end it anywhere. Starting a job takes no lock and mixes with all of them. `lost` records that
  a crash hit a window that no repair covers (`unrepaired` lists them).
* **SocketServer** - main thread, request worker and maintenance worker. A thread is its agenda, the
  list of the steps it has yet to take: a call puts the callee's steps in front, an exception drops
  the rest of a batch of actions, an empty agenda is a thread that has ended. The end of main is the
  end of the process, since both workers are daemon threads. `join_returns` is always true: a join
  may time out whenever the other thread is still alive. `handle_connection` is three steps under the
  gate, since `shutdown_server` does not take it: `Dispatch` reads the stop event, `Admit` reads the
  bootstrap flags and starts the handler, `HandlerReturns` gives the gate back. A runtime bootstrap that
  fails (before its publication, in it, or at the report behind it) releases the backend in the thread
  it runs in and raises after that (`BootstrapFails`, `RaiseAfterRelease`); `history.failed` marks a
  failed publication. Putting a connection or a sentinel, making room for it and putting it again are
  steps of their own, between which the other threads use the queue.
* **JobHeartbeat** - `evaluate_heartbeat` and the tick for one job, with the two writes of a
  completion (snapshot, job record) as two steps.
* **OperatorLemmas** - lemmas on finite sets of naturals and on the mailbox operations, used by
  **MailboxKernelProofs**, **MailboxStepsProofs**, **DispatcherProofs**, **ReplyDeliveryProofs**,
  **CallbacksProofs** and **SocketServerProofs**, which with **JobHeartbeatProofs** hold the theorems
  about the component they are named after. **MC...** - instances for TLC.

MailboxKernel and Dispatcher both extend MailboxOps: what is proved and checked of the
operations in the one is what the other calls. MailboxSteps justifies the grain: its crash run
shows that a kernel operation cut short does not break the lane, its race run that two
interleaved operations do. Dispatcher's `HeartbeatTimeout` is JobHeartbeat's `TickTimeout`.
ReplyDelivery leaves out the requests Dispatcher has, and Callbacks takes from Dispatcher that queue
and store agree. SocketServer is the frame of the others: its request worker and maintenance worker
are their threads `socket` and `maintenance`, its gate is their `Bootstrapping`.

Most specifications have a variable `limits` that is chosen in `Init` from the constant `Limits` and
never changes: one run then covers several combinations of bounds (two messages with one crash, one
message with a crash, a cancel and a retry, ...) whose product would be too large.

## 3. Runs

| Run | Bounds | Shows |
|---|---|---|
| `kernel` | 3 events, 3 lease versions, 2 references | type, exact summary, lease on exactly the delivered head, growing versions, refinement of the lane |
| `steps` | 4 claims; 3 events, 2 crashes, no overlap; or 2 events, 1 crash, 2 threads | without overlap at most one event in delivery and a lease never overtakes (`SerialLane`); a stale lease is always taken away |
| `steps_race` | 2 events, 2 threads, no crash | **violation**: two events in delivery |
| `dispatcher` | 2 attempts; 2 messages with each two of a manual retry, a cancel and a crash; 1 message with all three; 2 messages and a crash with a submission that overlaps the heartbeat | the safety properties of the dispatcher with a crash between any two writes; every message is answered |
| `dispatcher_race` | 1 message, 1 cancel, 2 threads | **violation**: an ended job is reopened |
| `dispatcher_restart` | 1 message, 1 crash | **violation**: a started attempt never ends |
| `heartbeat` | start 3, repeat 2, limit 3, 14 seconds, 1 crash | notices stand for silence; patience before giving up (the types are left to the proof) |
| `reply_delivery` | budget 1; 2 replies, 1 cancel, 1 crash; or 1 reply, 1 cancel, 1 recovery, 2 crashes | one delivery at a time and within the budget, no job left behind but by a crash, consumed for a reason, every reply leaves |
| `callbacks` | 3 agents, depth 2, 2 attempts; 2 edges with a crash or a cancel; 1 edge with each two of crash, cancel, retry, or a cancel and 2 crashes; 2 requests with an edge and a crash | one continuation, one answer, the child's reply stays inside, failed edges stay failed, edges are closed |
| `callbacks_nested` | 2 edges, nothing else | **violation**: an edge pending for ever |
| `socket_server` | queue of 1; a mutation or a restart, and a stop-all; stop-all and shutdown; 1 exception with a ping, a restart, a stop-all or a shutdown | no lost wakeup, only ping before the publication unless serving has stopped, a failed publication closes the server, dropped connections without effect, finalizers run once, a stop ends |
| `socket_join` | 1 stop-all | **violation**: the finalizer is lost |

Why the bounds are enough. Three events give a head, a second that may be claimed too early and
a third to be skipped; with three versions a lease is granted, removed and granted twice more.
In the dispatcher two messages compete for one slot, two attempts give a first, a retry and the
exhausted budget, the manual retry goes one beyond it, and one cancel and one crash meet every
step of an operation; `overlap` 1 or 2 says whether the two threads may be inside operations
at once. In the heartbeat 14 seconds are twice the patience of 3 + 2 * 2, so that a count is
started, reset by progress, and completed. A requeue budget of 1 (3 in the code) gives a first
delivery, a counted requeue and the spent budget, and two replies a head and one behind it. Two
edges are nested (a to b to c) or successive on one message, the two ways edges can relate. A queue
of one connection (128 in the code) is full as soon as a second one comes or a sentinel is put, and
two requests are what the two orders of a stop and another request need; a bootstrap can fail once,
so one exception is enough. `CHECK_DEADLOCK FALSE` is
set where a bounded system comes to rest (all messages answered, the process ended, the clock at its
end); `kernel` has no such state and is checked for deadlock. The bounds appear only in guards.

Properties that hold only without overlap are checked without it: the violation runs show that they
fail otherwise, and how. Three properties name the case in which the code makes no promise:
`AnsweredOnce` a message with a cancelled job (a parent cancelled after its continuation was
submitted answers beside it), `RunningDeliversHead` a cancel together with a crash (see below), and
`EdgeSettles` the windows of `unrepaired` and a continuation that could not be submitted.

**Fairness.** `StaleLeaseGoes`: a thread goes on with what it began, a running job ends, and the
sweep, a stage of every heartbeat whose exceptions are caught, is not passed over for ever (strong
fairness: another operation may hold the thread in between, and the agent may be busy now and
then). `EveryMessageAnswered`: in addition a handler runs to its end, the restore is carried out,
a provider that accepted a job reaches a decision or the job heartbeat gives it up, and a pane is
not occupied for ever (strong fairness of `StartAllowed`: `StartBlocked` is always possible). It
speaks of `ask` jobs with a notice limit, the default; other jobs are not tracked by the heartbeat
and may stay in the slot when their start was skipped. It is stated without crashes, because of
`dispatcher_restart` (it allows a behaviour to go on after a crash without an answer).
`EveryReplyLeaves`: the tick and the poll are stages of the same heartbeat and take turns, so strong
fairness of each; an operation runs to its end, a provider that took the prompt ends its turn, a pane
is not occupied for ever. `EdgeSettles`: the handler that holds the lock goes on, a startable job is
started and a running one ends, a repair comes with every tick. `StopEnds`: each of the three threads
is scheduled, handlers and actions return, joins time out; nobody has to connect and nothing has to
go wrong. Crashes, cancels, acks and recoveries are never fair.

## 4. Findings

1. **`steps_race`** - `docs/agent-mailbox-kernel-design.md:111`: "it may consume at most one
   inbound event at a time". `claim` checks lease and head and then appends without a lock. A
   cancel that ends the head in between, followed by an ack that claims the next event, leaves two
   events in delivery once the append is made, and the ended one is open again.
2. **`dispatcher_race`** - `test_dispatcher_completion_wins_cancel_race_without_terminal_overwrite`
   covers a completion after the cancel's mark. `cancel_job` writes the mark from the record it
   loaded, outside the lock: a completion before the mark is overwritten and the job ends twice.
3. **`dispatcher_restart`** - `docs/agent-mailbox-kernel-design.md:908` wants attempts recovered by
   a restart. A crash between `mark_attempt_started` and the RUNNING record leaves a queued job
   whose event is in delivery; the sweep abandons the event and nothing ends the attempt.
4. **`callbacks_nested`** - the developer guide (`chapters/04-communication.tex:261`) says repair and
   a time-out sweep recover or fail pending edges. `sweep_callback_timeouts` does nothing. When, in
   a chain a to b to c, the continuation for b cannot be submitted, that edge fails with a notice to
   a; b's message never gets a reply, the edge of a and b stays pending, and a's caller waits.
5. **`socket_join`** - the comment in `loop.py:108-111` says every finalizer has been queued when the
   teardown drains the list. The join of the request worker gives up after 2 seconds; a handler of
   stop-all that takes longer returns its finalizer after main has drained, and the process exits
   without the destruction of the namespace.
Observations that no run refutes a document with:

* the comment in `protocol.py:22-27` says that the gate is kept through the start of the handler "so
  shutdown cannot clear bootstrap flags between the decision and an authority-mutating handler". But
  `shutdown_server` takes no gate. When the runtime bootstrap fails after the worker has read the stop
  event (`protocol.py:29`) and before it reads the flags (32-35), the maintenance thread releases the
  backend (`app_runtime/lifecycle.py:177`) and clears them, and the mutation is handled in a daemon that was never
  published; the request guard lets a lifecycle in phase `failed` pass (`request_guard.py:34`). The
  model has this behaviour (a `submit` and one exception reach it in 12 steps); `UnpublishedIsStopped`
  says what is left of the promise: serving has stopped by then;
* a crash between the terminal job record and `record_reply` loses the reply (hence
  `SettledIsAnswered` speaks of runs without a crash); in a chain the edge then stays pending;
* a manual retry that overlaps the automatic one may take the same retry index;
* the default of three notices ends a silent running job by itself
  (`config_runtime/maintenance.py:15`), which `docs/ccbd-diagnostics-contract.md:558` wants opt-in or
  health-gated: `GivesUpOnSilence` shows that it takes the whole patience;
* a cancel that overlaps a completion writes its stale record over it (finding 2); for a delivery
  this can requeue a reply whose cancellation `_terminal_disposition` calls final;
* the disposition of a delivery does not ask whether the event still names the job: cancelling a job
  that a crash left in the queue consumes the event another job is delivering;
* when a later continuation of a message cannot be submitted, its earlier edges stay
  CONTINUATION_SUBMITTED;
* `run_after_response_actions` stops at the first exception: the actions it has popped behind it, a
  stop-all's finalizer among them, are dropped;
* the finalizer of stop-all and the handler of shutdown may join each other; only the time-outs free
  them (the mutant of `StopEnds` is a join without one).

## 5. Proofs

**MailboxKernelProofs** proves `Spec => []Inv` (`ConsistentAlways`) and from it `TypeOK`,
`SummaryExact`, `LeaseGuardsDelivery`, `LeaseVersionsGrow` and `ImplementsLane`, for every number
of events, versions and references; the only assumption is `MailboxKernelAssumption`. The
invariant (`Consistent`) is the type, `LeaseOK` (the lease is on the head, and exactly the leased
event is in delivery) and `SummaryOK` (the summary is exact, or absent from a mailbox nothing has
entered). `SummaryExact` is not inductive alone: an increment is right only if lease, head and
counts agree before it. The argument follows the code: lemmas on pending events and the head
(`HeadIsLeast`, `PendingIds`), on what a newer record changes (`AppendRecord`, `AppendEvent`,
`CountsDrop`), on each summary write (`SaveExact`, `TerminalSummary`), then one lemma per operation
(`MarkTerminalConsistent`, `ClaimConsistent`, ...), and one step per action. The refinement has one
lemma per operation as well (`TerminalStep`, `ClaimStep`, ...): an operation is a step of the lane
or a stutter. An acknowledged reply that was not yet claimed is claimed and consumed in one
operation, and appears to the lane as one departure.

**JobHeartbeatProofs** proves `TypeOK`, `NoticesAreSilence` and `GivesUpOnSilence` for all
intervals, limits, clock bounds and numbers of restarts, from `JobHeartbeatAssumption`. The
invariant is their conjunction. `NoticesAreSilence` is inductive with the type invariant: a
further notice needs a repeat interval since the last one and no progress since the count was
taken, and progress resets the count (`NextStateOK`). `GivesUpOnSilence` is not inductive alone:
the tick that gives up has just stored a notice, so its patience comes from `NoticesAreSilence`,
and it survives until `complete` is called because polls run in the same thread as the tick and
the clock only moves on. `Patience*` are the arithmetic lemmas.

**MailboxStepsProofs** proves `TypeOK` and `SerialLane` for any number of events, claims and crashes,
from `MailboxStepsAssumption`. `SerialLane` is not inductive: a claim that has checked the head and not
yet appended, or appended and not yet saved the lease, is right only because of what it read. The
invariant therefore says what the files hold between any two file operations (`Lane`: an event in
delivery is the head, a lease skips nobody), that one thread at most is inside an operation
(`Alone`), and what that thread relies on (`Expects`). A crash keeps `Lane`, which is about files
only; that is why the code needs no recovery pass for the lane itself.

**CallbacksProofs** proves `OneContinuation`, `ChildReplyStaysInside`, `ContinuationHasResult`,
`FailedIsNotContinued` and `AnsweredOnce` for any agents, depth, number of requests, edges, attempts, cancellations and
crashes, from `CallbacksAssumption`. The invariant is `Durable`, what the stores say between two writes and
thus what a repair after a crash finds, and `WorkOK`, what the handler that holds the lock has made
sure of at its next step. `OneContinuation` needs both: the handler may write a continuation because
it has found none in the store (`WorkOK` at `cont_job`), and a repair finds one that a crash left
unlinked because it searches the store and not the edge.

`AnsweredOnce` needs a second layer, `AnswerInv`. The right to answer a message is a claim that is
handed on: from the request to its job (the attempt), to the edge when the job delegates, to the
continuation when that gets its attempt, from a failed job to its retry, and at last to the reply.
`OneClaim` says that a message has at most one; each step is shown to drop claims or to replace the
one claim it takes by one other (`NoneGained`, `HandedOn`). Closing an edge is the delicate
step: the claim goes back to the parent if that has not ended, and `mark_callback_done` closes the earlier
edges of the message too, which is safe because their parents have ended (`PriorEnded`). What this needs of the
stores is `Lines` (a job delegates once; a continuation waits in the parent's mailbox until the
parent has ended; only a recorded continuation is retried), and of the handler, `HandlerOK`. A message
with a cancelled job is excepted, as in the property. The invariant was checked with TLC on small
limits before it was proved.

**DispatcherProofs** has three layers, all from `DispatcherAssumption`. `TypeInv` holds in every
behaviour, races included: types, that a thread works on a job there is, that every event names one,
and that the mailbox is `Consistent` - each of its writes is an operation of MailboxOps, so this is
OperatorLemmas again. `Inv` needs `NoCancelRace`: operations do not overlap, or nothing is
cancelled; `dispatcher_race` shows that `TerminalIsFinal` fails otherwise. Without cancellations the two threads
may overlap in any way, which is the case of a submission or a user's retry beside the heartbeat. It gives
`TerminalIsFinal`, `OneReplyPerAttempt`, `RunningOwnsLane` and `QueueMatchesStore`, for any number of
messages, attempts, retries and crashes. None of these is inductive alone: between two
writes the job, the attempt, the event, the reply and the queue disagree in a known way, and `Inv`
says which (`RecordsAgree`, `SettlingOK`, `StartOK`, `LaneOK`, `QueueOK`). The proof goes by
part, not by action: `Turn` says how a thread may move, a frame lemma per variable says which steps write
it, and each part is then looked at only where something it reads is written.

The third layer, `Inv2`, gives `QueueInMailboxOrder`, `LineageIsALine`, `RetryBudget` and
`SettledIsAnswered` under `NoUserRace`: operations do not overlap, or nothing is cancelled or retried by a
user, so that a submission may still overlap the heartbeat. A retry by a user takes no lock; beside the
automatic one it could read the same latest attempt and add a second one of the same number.
`LineOK` is the line as a fact about pairs of attempts, and becomes `LineageIsALine` by counting at the
end; `RetryOK` says that a thread on its way to a new attempt has the latest one in hand and that it has
failed, which holds from the check to the write because nobody else adds an attempt in between
(`Alone`, `LockOK`); `BudgetOK` counts the attempt that is being added before it is written. `AnswerOK` says
of every latest attempt that message and reply agree with it or that a thread is about to write them,
and is given up after a crash, which may end the thread; `PlanOK` says which endings are never
retried, so that an answer is not still to be decided. `OrderOK` needs only that the job being added is
the last of the queue until its event is written.

**ReplyDeliveryProofs** proves all of the component's invariants - `TypeOK`, `RunningDeliversHead`,
`DeliveryBudget`, `OrphansOnlyByCrash`, `ConsumedForAReason` and `EndsOnce` - for any number of replies,
cancellations, recoveries and crashes and any budget, from `ReplyDeliveryAssumption` and `MaxOverlap = 1`,
the case the run checks. Operations that overlap are left out because these handlers and the heartbeat
share no lock: an acknowledgement that has checked the head consumes it although the heartbeat has
meanwhile named a job for it. Three parts carry the argument. An agenda has one of a few shapes
(`Shape`), so what is behind the first step is known. A crash may leave a summary or a lease behind, so
the mailbox is not `Consistent` as in the kernel: each operation is described instead by what it does to
inbox and lease whatever the summary says (`Kept`, `Wrote`, `Freed`). And the many actions make few kinds
of steps (the lemmas ...Whole), each looked at once.

In the invariant (`Inv`), `WorkOK` is what a thread relies on at each step, among it what it read before
(`thread[t].seen`). No property is inductive alone. `RunningDeliversHead` needs that only the head names a
job (`BoxOK`) and that a thread between preclaim and start still has the slot free. `DeliveryBudget` needs a bound
that is one lower while the event is free for another job and no thread owes it a count (`Vacant`,
`Owed`). `OrphansOnlyByCrash` needs that a job which a stale lease or a sweep is about to cut off is
counted already (`Risky`), which is so because without a crash a lease has an owner (`LeaseOwned`).
`EndsOnce` needs that all jobs of a pending event but the one it names are spent (`EndsOK`).

**SocketServerProofs** proves `TypeOK`, `NoLostWakeup`, `UnpublishedIsStopped`,
`ClosedHasNoEffect` and `FinalizerRunsOnce` for any requests, any queue size and any exceptions, from
`SocketServerAssumption`. A thread is a list of steps, so every action drops the first steps of one
list and puts others in front (`Splice`, `Turn`), and the invariant is stated place by place. Its first
part, `Structure`, is what a step is about and what must come behind it (`FollowedAt`: a `dispatch` is
followed by the `respond` of the same connection, a `close_pending` by the sentinel and the join);
`Flags` has the two facts about the shutdown and the gates (`StopFirst`: the gates are cleared only
behind a set stop; `OpenOK`) without which `UnpublishedIsStopped` is not inductive - a handler may start
because the flags are cleared, and they are cleared by a publication or behind a stop, whichever thread
fails or shuts down meanwhile. That nothing but ping is ever handled in a daemon that is not published
would be stronger, and is false (section 4).
`Connections`
says how far the one connection in the worker's hands is, which is what keeps a closed connection from
having been handled. `Finalizers` follows the finalizer of each stop-all: it is in one place only
(`Unique`), the action list, one agenda or the history, and a connection that has one is not answered
again (`HomeOK`). Before it is queued the response that will queue it is ahead of the worker, and
later it stays where it is unless an exception drops its batch (`OwedOK`). At the end of the process
this gives `FinalizerRunsOnce` because a joined thread has ended (`JoinedEnded`) and what the worker
queued before it was joined has a drain behind the join (`Drained`); that is where the property needs
both joins to have succeeded, and `socket_join` is what happens when one timed out.

Two facts about data are proved by the least counterexample instead of by induction: that a set of
naturals has a least element (OperatorLemmas, from the well-founded order of the library) and that the
recursive function of `pop_after_response_actions` picks elements of the list in order
(`PoppedSelects`).

What the proofs changed in the models. `ContinuationHasResult` said of a linked continuation that its
event is recorded; the proof failed at a continuation that a crash kept out of the mailbox, that was
cancelled there and that a second crash and a repair then link. The property names that case now, and
`callbacks` has a limit that reaches it. `QueueInMailboxOrder` compared all events; after a restart
only those that are pending are in order, as `_admission_ordered` says. `remove_queued` took every
place of a job off the queue instead of the first. `SocketServer.TypeOK` had left out the contents of
the agendas. An earlier version read the stop event and the gate flags in one step, and could prove that
nothing is handled before the publication; read apart, as in the code, it is false, and TLC finds the
trace that section 4 describes.

Only model-checked:

* liveness (`StaleLeaseGoes`, `EveryMessageAnswered`, `EveryReplyLeaves`, `EdgeSettles`, `StopEnds`),
  which is out of this prover's reach;
* of SocketServer `FailedPublicationCloses`;
* of Callbacks `TypeOK`, whose bound on the retry index counts the attempts and continuations of a
  message (the types themselves are part of `ChainInvariant`);
* the cases outside the hypotheses above: overlapping operations in ReplyDelivery, a user's request
  that overlaps another operation in Dispatcher. For the first no run makes a claim; of the second
  `dispatcher_race` shows what goes wrong.

## 6. Not modelled

Provider backends, panes, the command line, the mobile gateway and configuration are I/O and
formatting. How provider output becomes a decision is text analysis; any decision is allowed.
File appends are taken as atomic and durable. Broadcast messages, resubmission, reply texts and the
priority among terminal message states are left out of Dispatcher; active follow-ups only observe.
In a retry the availability of the agent is not part of the state: `RetryCheck` may fail at any time,
as `_validate_targets_available` may. ReplyDelivery prepares after every completion, since the daemon
sets `auto_reply_delivery_on_complete` (`service_graph.py:144`) and clears it only when the project is
stopped (`lifecycle.py:454`); the reply and the project id that `prepare_agent_reply_delivery` looks up
are there, since a reply is recorded before its event.
Callbacks leaves out the workspace binding and restricted targets of workflow jobs, independent asks
and retries a user asks for. It differs from the code in four more places. Start and cancel are one step
each: that their checks and writes are apart is the subject of Dispatcher. A submission of a continuation fails
before its job is stored (an unknown or unavailable target); a store that cannot be written behind that,
which the same `except` catches, is left out with all failing writes. And the requests of one agent
are served in the order of their jobs, not of their events: the two differ when a repair records the
event of a continuation late, and none of the properties is about the order.
SocketServer leaves out the transport, malformed requests, the request
guard, which only refuses more, and handlers that raise: the connection is answered with a failure and
nothing is queued. When `serve_forever` raises before the bootstrap has run, the application releases
the backend twice in a row (`lifecycle.py:321` and `331`); the model has one release there.
Keeper, supervision, reload and project namespace are processes and terminal multiplexing; they act
on the modelled state through cancel, restore and shutdown only.

## 7. Plan

Done: mailbox, dispatcher, job heartbeat, reply delivery, result chains, control socket. Left, in
order of importance:

1. Proofs: the bound on the retry index in Callbacks, on top of `AnswerInv`.
2. `MessageState`: the priority among replies and attempts of a broadcast, against a reference
   definition.
3. `Execution`: the execution service's start, poll, cancel, finish and replay; refined by what
   Dispatcher and ReplyDelivery assume of it.
4. Keeper and daemon ownership: the fencing of two daemons by lease generation.
