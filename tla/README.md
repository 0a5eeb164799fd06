# Verification of review-orchestrator

TLA+ models of the parts of `review-orchestrator` that coordinate: the webhooks
and requests from which reviews come, the durable comment outbox, the execution
of review runs, the message commands of a pull request, the task scheduler, the
checked-out workspaces, and the reconciliation of findings. The modules are
translated from the Python source (paths below are relative to
`src/src/review_orchestrator/`); `PROJECT.json` maps every definition to its
lines.

## The system

A provider (GitHub, GitLab) sends webhooks; a pull request gets *review runs*
and *agent tasks*; an agent in the pi-agent runtime reviews a checked-out
workspace; the result is written back into one comment per run. Four kinds of
process share one database (PostgreSQL or SQLite): the API, execution workers,
delivery workers, and, behind HTTP, the pi-agent runtime. There are no messages
between them except rows.

| Component | State | Operations | Interacts through | Hard part | Correct when |
|---|---|---|---|---|---|
| Delivery outbox and worker (`application/delivery.py`) | `DeliveryOutbox` rows with lease, attempt, backoff | append, claim, reclaim, execute, settle, fail | rows of the run and its slot; provider calls | leases that expire during a call, stale objects, out-of-order retries | one comment, never older than it was, every core event arrives |
| Comment publishing (`integrations/comments.py`) | `ReviewCommentRef`, comment id in slot and run | find by marker, create, update, bind | provider; commits inside the delivery worker's session | lost answers, death between write and commit | no duplicate, id bound before anything relies on it |
| Review execution (`application/worker.py`, session services of `application/services.py`) | `ReviewRun`, in-memory run and slot objects | claim, gate, prepare, start, poll, collect, retry, publish | scheduler, outbox, pi-agent | cancellation, timeout and delivery in between; crash between commits | no agent before the placeholder, one session, the outcome is published |
| Timeout sweeps (`application/worker.py`) | timeout marks on the run | soft notice, hard failure | outbox, pi-agent | selected once, used late | no notice covers a result |
| Scheduler (`application/scheduler.py`) | task lock columns, `ResourceLease`, `ResourcePool` | claim with aging and scan, release | workers, API | expiry, release by others, capacity changes | capacity respected, one worker per task, nothing blocked for good |
| Agent tasks (`application/worker.py`) | `AgentTask` | placeholder, start, poll, cancel, time out, retry | scheduler, outbox, pi-agent | cancellation against polling | placeholder first, one terminal outcome |
| Review requests and webhooks (`application/services.py`) | `ProviderEventInbox`, contexts, runs per head | accept, coalesce, supersede, retry, rerun | API processes and mention tasks | duplicates, reordering, concurrent requests on stale objects | one review per head at a time, one run per event, no revision forgotten |
| Workspaces (`infrastructure/workspaces.py`) | `Workspace` rows and leases, directories | prepare, reuse, lease, release, clean up | execution workers, API, file system | nothing locks the row; git is killed, processes die | the row tells the truth about the directory; no leased workspace is removed |
| Findings (`domain/reconciliation.py`, `domain/review_results.py`) | `Finding` rows | parse, validate, reconcile with earlier runs | collect | results out of order, collected twice | a finding is recorded once, and closed only by a result without it |
| Session archive (`application/session_archive.py`) | `SessionArchive`, attempts | append-only archive | collect, poll | attempts after retries | archive only grows |
| pi-agent runtime (`pi-agent-runtime/src`) | sessions in memory, snapshots on disk | start, poll, cancel, recover | HTTP | start that is repeated, cancel against completion | one session per request, terminal state sticks |
| Provider clients, plugins, API, dashboards, configuration | none that control reads | I/O and formats | | | |

`PROJECT.json` lists these under "components", and under "hazards" what in them
is hard to test, at the line where it bites.

## Modules

### CommentDelivery

One run, its slot, its outbox, its comments at the provider, and the delivery
workers. A database transaction is one step; a delivery worker is cut where the
code awaits the provider or commits:

    ClaimNextDelivery -> ExecuteDelivery -> PublishUnchanged
                                         -> FindComment -> WriteComment -> BindComment
                                         -> PublishLineComments
      ... -> FinishDelivery | RecordDeliveryFailure, CrashDelivery anywhere

* `outbox[i]` is a row; `earlier` keeps the order of `available_at` among rows
  that are due, which with `Priority` decides the next claim. Backoff and lease
  expiry are time, so `BackoffElapses` may happen whenever a row waits and a
  claim may find any lease expired (`Reclaimed`).
* Sessions are created with `expire_on_commit=False`, and SQLAlchemy writes only
  columns whose value differs from the loaded one. `Flush(stored, loaded, value)`
  is that rule, and the worker's record holds the loaded values that a later
  write may come from. On success the slot is queried afresh; on failure the
  exception keeps the frame with the old slot object alive, so the status it was
  loaded with is the one compared.
* `ProviderFails` covers a refused call and a call that took effect without an
  answer. `PublishUnchanged` is a possibility, never forced: bodies with equal
  text may differ in details the model does not have.
* `attempt` counts only for events with a limit (line comments); a core event
  has `max_attempts = 0`, no limit.
* API calls are single transactions: `CancelReviewRun`, `SupersedeReviewRun`,
  `RescheduleFailedDelivery`.

### ReviewExecution (extends CommentDelivery)

The execution workers and the timeout sweep beside the delivery workers, with
the pi-agent session as an external process that ends by itself, fails, or is
cancelled. A worker holds one run object, refreshed where the code refreshes it,
and one slot object, loaded at the gate and never again: every later query in
that database session returns the same object. Each action is one stretch of
`process_next_review_run` or `process_review_run_timeouts` between two commits or
awaits. The lock of the task excludes nobody here, because it may have expired;
Scheduler is about the lock. `delivery_status` is left out since no guard reads it.

### Scheduler

Tasks, leases, pools and workers. Times are what is left of them; `Tick` lets
one unit pass and drops leases that are over (the code deletes them at the next
claim, before anything looks at them). `deadline_at` is one of the times: it is
set when a command's agent first starts (`SetDeadline`, counted from the first
claim, hence any time left), is checked by `Claimable`, and is what
`TimeOutAgentTask` sweeps. `ClaimTask` is the whole of
`claim_next_task`: aging, the ordered and limited scan, the candidates that are
locked, found blocked and unlocked again, the leases. It is one step because
PostgreSQL keeps candidate and pool rows locked until the commit and SQLite has
one writer. `Settle` abstracts what a worker does with the task to the status it
leaves. `ReleaseTaskClaim` deletes the leases of the task whoever owns them, as
both callers pass no owner. A step of a worker may last any number of ticks, since
nothing bounds it by `worker_lock_seconds` and nothing calls `renew_task_claim`:
one claim of 300 s may see several git commands of up to 120 s each. The history variable
`outlived` has the tasks of which a claim ran out in somebody's hands, until nobody
has the task in hand any more. `DeliverySettles` is a delivery that writes the status
it was enqueued with, whatever has become of a command meanwhile.

### AgentTask

The message commands of one pull request with one execution worker, one delivery
worker and the API. Several tasks matter here, because a command waits for the
older ones, so the module has its own, smaller outbox: the events of a command
have no slot and no version, and their key is task, text and attempt (`Keys`).
The execution worker is cut where it waits:

    ClaimTask -> RequestPlaceholder | CancelCommand | AskForText | WaitForTurn | RefuseCommand
              -> BeginPrepare -> PrepareWorkspace -> BeginStart -> StartSession | StartFails
              -> PollSession
    BeginTimeout -> HardTimeout, SoftTimeout, CrashExecution anywhere

`Conclude` is `_complete_`, `_fail_` and `_cancel_command_agent_task`. The delivery
worker goes `ClaimDelivery -> LookUpComment -> WriteComment -> BindComment ->
FinishDelivery`, with `RecordDeliveryFailure` after an error. A manual cancellation
(`CancelRequest` to `CancelEnds`) publishes its comment itself, beside the delivery
worker, as `cancel_agent_task` does. All three actors keep the task they loaded and
flush only what they changed in it. `RescheduleDelivery` is an operator who puts a
waiting or failed delivery back, of whatever attempt; `Requests` says which of
"cancel", "close", "retry" and "reschedule" are made. Of the clock, which runs from
the first claim (`Claimed`), only its place against the two timeouts is kept;
`deadline_at` is set at the first start, and `Overdue` is a command that has one and
is past it. Columns that no
guard reads (`execution_status`, `delivery_status`, texts, errors) are left out.
Two commits with no wait for anyone in between are one step. All commands exist
from the start: one that is created later is one that is not claimed before.

### ReviewRequest, which implements ReviewLedger

One pull request, its context row, the inbox, its runs, and the transactions
that are under way. A request is cut where another one can come in between:

    ReceiveWebhook -> ApplyWebhook \
    RetryRequest, RerunRequest, AgentRequest -> ApplyRequest  -> Commit | Rollback
    BeginMention -> ApplyMention   /

The first step loads the context (and the source run) and inserts the event, the
second waits for the row lock and decides, the third writes everything. On
PostgreSQL READ COMMITTED the second step's queries see what is committed by
then, but objects that the session already holds are not refreshed by a SELECT,
not even one FOR UPDATE: `tx[c].context` and `tx[c].status` are from the first step.
`Insertable` is the unique delivery id: a second insert waits for the first and
fails when that commits, and takes its place when that is rolled back. The provider
(`sent`) tells a history; its webhooks arrive in any order, any number of times, or
never, and whatever is sent again after a failure is received as new. Runs go
through their life in `RunStep`, abstracted from ReviewExecution: working, or waiting
for a comment that says cancelled or superseded, or ended; `back` marks a run whose
end, or cancellation, was committed before the worker that had loaded it earlier
wrote "running" over it (`WorkerGoesOn`: a retry of the start, and
`sync_review_session`, which checks no status). A command is
recorded in one step with the head the context has then, which `AgentRequest` uses.

`ReviewLedger` is what this promises: events are answered once, reviews are only
added, with the next number of their revision. `ImplementsLedger` maps the rows
that are not "none" to `answered` and the runs without their status to `reviews`.

### Workspace

The row, the leases and the directory of one workspace (one head of one pull
request) with clients that each perform one operation at a time, cut at every
commit and every git command. `Put` is the rule that a flush writes only changed
columns. The directory is absent, partial or complete, with the base commits its
clone has and whether the head is checked out. `Rmtree` may remove all, a part or
nothing, since errors are ignored, and the row does not tell; a killed clone leaves
remains too, and `Fetch` may repair them or fail. `overlap` and `alone` are history variables: no operation holds a lock, so
a ready row can only be trusted after one has had the workspace for itself, and
`RowMatchesDisk` says that it can be then. For a deleted row that does not hold
("Not modelled"). `late` marks a lease that was granted
when a cleanup had already looked.

### Findings

The runs of a pull request in the order of creation, the order of `completed_at`
as a set of pairs (`done`: the first came to a result before the second), and the
`Finding` rows. `Previous(r, p)` is the run that `_previous_active_findings` takes:
of the other completed runs the one that completed last. An issue is a normalized path, severity and
message; with base and head it is the fingerprint. `Collect` is parse, persist and
reconcile in the one transaction of `collect_review_result`; `CollectAgain` is a worker
whose claim has expired and who brings the same answer.

### MC modules and proofs

The MC modules give the constants and the symmetry of interchangeable workers,
clients, commits or issues. `MCReviewRequest` has the histories: a push and the end,
a close and reopening, a command and a new base, a mention.
`ReviewExecution_proofs`, `Scheduler_proofs`, `ReviewRequest_proofs`,
`Workspace_proofs`, `Findings_proofs`, `AgentTask_proofs` and
`SummaryComment_proofs` (which builds on `ReviewExecution_proofs`) hold the theorems.

## Runs

| Run | Question | Answer |
|---|---|---|
| `review_run` | a run with line comments, both timeouts, every failure of provider, agent and process, one worker of each kind: placeholder first, one comment, never backwards, ends on the outcome, one session, and (with fairness) placeholder and result arrive | holds |
| `cancelled_run` | the same with cancel and supersede at any moment: `BindingInv`, one comment, one session | holds |
| `scheduler` | two workers, a command and a review, a shared pool of which one task takes two units, steps of any length, cancel, retry, deadline, delivery, crash, ends without a release, expiry, capacity changes: two workers on a task only while one of its claims has been outlived, capacity respected, no deadlock, and with fairness an open task that is not past its deadline can be claimed again in the end | holds |
| `commands` | two commands, one without text, both timeouts, sessions that never answer, a crash or outage anywhere: placeholder first, one comment each, sessions in the order of the commands, no second run for an outcome under delivery, and with fairness every command ends | holds |
| `command_requests` | one command cancelled, closed and retried at any moment, its waiting deliveries rescheduled: placeholder first, no second run within an attempt | holds |
| `review_requests` | two requests at a time out of webhooks in any order, retry, rerun, the agent's request and a mention: one review per revision, one run per event, no revision forgotten, a close stops the reviews, `ReviewLedger` is implemented | holds |
| `workspaces` | two operations at a time, each failing, killed or crashing anywhere: a ready row tells the truth about the directory, a lease protects it | holds |
| `findings` | three reviews whose results come in any order or twice: recorded once, closed only by a result without it, first sighting traced | holds |
| `lost_result` | does a result arrive when the run is cancelled? | no: a timeout sweep that selected the run earlier raises the version after the result |
| `crash_before_publish` | has a terminal run its outcome in the comment? | no: failure and event are committed apart |
| `stuck_cancellation` | does a command end that is closed with its pull request? | no: past its deadline `cancellation_pending` is neither claimed nor swept |
| `stale_rerun` | is a rerun refused for an outdated revision or a closed pull request? | not if the push or the close commits between its first look and the lock |

Every property of a passing run has a mutant in `PROJECT.json`, a plausible bug
in the mapped code that makes TLC report that property.

### Bounds

* `MaxDeliveries` 5 in `review_run` is every event one run can have there
  (placeholder, delayed notice, outcome, line comments, timeout); 3 in the runs
  with cancellation, which leaves room for the placeholder and any two later
  events. A step that needs another row is not taken.
* `MaxAttempts` 2 and `MaxStartRetries` 1: the limit is met and passed by one.
* One worker of each kind is the documented deployment
  (`docs/deployment.md`). The theorems hold for any number.
* Scheduler: the unit of time is the claim (`LockSeconds` 1): between two ticks any
  number of claims, releases and deaths fits, and a worker may have any task through
  any number of ticks. `PollInterval`, `TaskTimeout` and `MaxPriority` are 0: a delay
  is over at once, a deadline, where one is set, is past, and the two tasks differ in
  kind and not in priority. They decide when a task is claimed and which first, and
  no property speaks of that; the theorems hold for all their values.
* AgentTask: two commands make one wait for the other; `MaxRuns` 2 is one retry;
  `MaxFaults` is the number of crashes, provider failures and failed starts:
  1, so that each can strike at every step, and 0 in `command_requests` (where a
  failing manual cancellation is not counted): there only waiting deliveries are
  rescheduled, and the failed ones are left to `PlaceholderFirst` and
  `OneCommentEach`. `MaxAttempts` and
  `MaxStarts` are 1, and 2 in `commands`, where a fault is repeated.
* ReviewRequest: two heads are a push, two bases a change of the target, three
  webhooks a life with an end; two clients are every pair of requests; three runs
  are a review, its repetition and one for another revision. One request of each
  kind can be made (`Requests`): a retry, a rerun of any run, one by the agent.
* Workspace: two clients are every pair of operations, two leases the most with
  which a release works, two bases a workspace prepared for the wrong one.
* Findings: three runs of two revisions have a finding carried over twice, and a
  run of another revision in between; two issues are kept and dropped apart.
* Deadlock checking is off for ReviewExecution, AgentTask, ReviewRequest and
  Findings: what is settled stops.

### Fairness

`FairSpec` of ReviewExecution: delivery workers never stop polling
(`worker_cli.run_worker` loops for ever and a dead process is restarted by its
container), backoff and abandoned leases end with time (strong fairness on
`ReclaimAbandoned`: each claim looks for expired leases), and outages of provider
and process end at some point (`<>[][~Outage]`). Nothing is assumed of the
execution worker, the API or the agent. `FairSpec` of AgentTask: both workers
loop for ever, each pass of the execution worker begins with the timeout sweep, a
released command waits `worker_poll_interval_seconds` while the others have their
turn (strong fairness of claim and sweep per command), and time passes; sessions
need not end. `FairSpec` of Scheduler: time passes, and a
worker some day gets done with the task in hand, since each of its calls has a timeout.

## Proofs

All obligations are checked by TLAPS; nothing is assumed but the named ASSUMEs
on the constants (`OwnerAssumption`, `BoundAssumption`, `ExecutionAssumption`,
`SchedulerAssumption`, `AgentAssumption`, `RequestAssumption`,
`WorkspaceAssumption`, `FindingsAssumption`), which TLC evaluates in every run.

* `ReviewExecution_proofs!TypeCorrect`: `Spec => []TypeOK`. Inductive as it
  stands, one lemma per group of actions.
* `ReviewExecution_proofs!GateHolds`: `Spec => []BindingInv`. That no session
  exists before the placeholder is bound is not inductive: a worker past the gate
  acts on an old slot object, and a delivery worker may finish with a lease that
  was reclaimed and granted again. `BindingInv` adds that whatever a worker past
  the gate loaded was bound, that a bound slot stays bound, that a claimable run
  has a comment, and that a delivery worker that ends a summary delivery has a
  comment in hand.
* `ReviewExecution_proofs!PlaceholderFirst`: `AgentWaitsForPlaceholder` and
  `ClaimableRunHasComment` follow, for any number of workers and any schedule of
  failures.
* `SummaryComment_proofs!OneSummaryComment` (`OneComment`) for one delivery worker,
  with every failure, crash and API request. `OneWriter` is the strengthening: a
  worker about to create a comment has found none and is alone, so there is none.
* `SummaryComment_proofs!OneSession` (`SessionNotRestarted`) for one execution
  worker, with every failure and API request. `SessionView` adds that the worker
  knows the stage the run has reached, so it is about to start a session only while
  the run has none.
* `SummaryComment_proofs!OutcomeIsShown` (`FinalizedShowsOutcome`) and
  `CommentOnlyAdvances` (`CommentNeverGoesBack`) for one worker of each kind and no
  cancel or supersede request. `OutboxInv` says that the worker keeps its lease, that
  nothing happens before the placeholder is delivered, that notices and results have
  versions of their own up to the slot's, that the slot object of a worker is
  current, and that a result is the last event; `ShownInv` that the comment is never
  ahead of the event about to be written, and that once the result is on show only
  the result can be written again.

  The hypotheses are needed, and TLC has short counterexamples without them: a
  lease that runs out under a slow worker makes a second one, which creates a second
  comment or session; a cancellation while the worker holds an older slot object
  makes the worker set the version back and reuse it.
* `Scheduler_proofs!TypeCorrect`, and `Scheduler_proofs!CapacityRespected`:
  the units of a resource under lease grow only within its pool's capacity. The
  argument: leases stay a finite set, only a claim adds to it, at most one lease
  per key, and the units it adds are the ones `Fits` compared; a tick and
  a release never make the counted units more.
* `Scheduler_proofs!TaskExclusion` (`OneWorkerPerTask`), from one hypothesis on the
  constants that TLC evaluates on the instance of the runs: `ExclusiveKeys`, that
  every task asks for some resource of which there is never enough for it twice,
  which is what `concurrency_key` with its default capacity of 1 is for. Nothing is
  assumed of how long a worker takes. The property is not inductive, and the lock
  columns prove nothing: a cancellation or a timeout clears the lock of a task
  somebody works on. `Exclusive` therefore speaks of leases: unless a claim of its
  task has been outlived, a busy worker holds one of its own on every resource of the
  task for as long as its claim lasts, and the pools have a configured size; then a
  second claim of the task does not fit beside the first.
* `ReviewRequest_proofs!TypeCorrect`, `EventsRunOnce` (`OneRunPerEvent`),
  `RevisionsAreReviewed` (`NoRevisionForgotten`), `ReviewsAreSequential`
  (`OneReviewPerHead`) and `ClosingStops` (`CloseStopsReviews`), for any number of
  overlapping transactions, histories and requests. All rest on one inductive
  invariant, `RequestInv`, without which not even the type of a run is preserved:
  the latest run of a revision has the count of its runs as its number (`Counted`),
  every run is what its event was answered with (`Caused`), transactions under way
  are about different events (`Distinct`), and what a transaction that is about to
  commit has found out is still so, since it has the lock of the context row
  (`CommitInv`) and whatever happens without that lock adds no run and starts none
  but one its own worker brings back (`SameRuns`).
* `ReviewRequest_proofs!Refinement`: `Spec => ImplementsLedger`. A step of
  ReviewRequest answers one event and adds nothing, or adds one run with the next
  number, or is a stutter of `ReviewLedger`.
* `Workspace_proofs!TypeCorrect`, and `Workspace_proofs!LeasesProtect`: a lease
  granted before a cleanup began keeps it from removing the files. Inductive as it
  stands: a cleanup goes on only if no lease is held, and `EndLease` records a
  lease that is granted while a cleanup is under way as one that does not protect.
* `Workspace_proofs!RowIsTrue`: `RowMatchesDisk`, for any number of clients,
  failures and crashes, and whatever a removal leaves behind. It is not inductive: it says nothing of the middle of an
  operation. `DiskInv` adds that an operation that is alone is the only one at
  work on the directory (`AloneInv`), what it knows at each step of the row and of
  the directory (`StepInv`: the row is neither "ready" nor "deleted" once it is
  marked, and the checkout is complete before it is marked ready), and that no
  operation starts before the row is there (`RowInv`).
* `Findings_proofs!FindingsTypeCorrect`, `RecordIsComplete` (`ReportedIsRecorded`)
  and `FirstSeenIsKept` (`FirstSeenIsFirst`), for any set of runs and issues. The
  strengthening (`RecordInv`) says that a row belongs to a run that has reported
  its issue and a run that is stored has a row for each, that whoever resolved a
  finding has come to a result without it, and that a new finding is its own
  first sighting.
* `AgentTask_proofs!AgentTypeCorrect`: every row, loaded copy, delivery and comment.
  What the thirteen actions of `CommandStep` do is first brought to one form
  (`HandStep`: the worker concludes, asks for the placeholder, pauses or goes on,
  and touches neither the comment id nor the attempt), which all later proofs use.
* `AgentTask_proofs!OutcomeNotRerun` (`OutcomeIsNotRerun`), where no delivery is
  rescheduled by hand ("Not modelled" has what happens otherwise), under every other request, crash and lost delivery. `Outcomes` is its invariant: the
  attempt in hand is the stored one, no delivery has the key of a later attempt, at
  most one mandatory delivery of a command is on its way and meanwhile nobody works
  on the command and nobody can claim or retry it, and once the outcome of the
  current attempt is enqueued no placeholder on its way can open the command again.
* `AgentTask_proofs!PlaceholderFirst` (`AgentAfterPlaceholder`), under all requests,
  rescheduled deliveries too. `Gates` adds that an open command past its placeholder
  has its comment (`PlaceholderGate`), that what the worker loaded was open and the
  worker past its first two questions has a comment (`WorkerGate`), that a command
  without a comment is failed exactly when its delivery was given up
  (`FailureGate`), and that a publisher binds a comment that exists
  (`PublisherGate`).
* `AgentTask_proofs!OneCommentEach` (`OneCommentPerCommand`) where nobody cancels
  by hand, and `OrderKept` (`CommandsInOrder`) where commands are neither
  cancelled nor retried by hand and no delivery is rescheduled; closing the pull
  request is allowed in both, rescheduling in the first. The
  hypotheses are on `Requests` and are needed: a manual cancellation writes the
  comment beside the delivery worker and may end a command that the worker has in
  hand, and a retried older command runs beside a younger one ("Not modelled"
  lists both). `InOrder` adds that a command in hand is open, that one with a
  mandatory delivery on its way waits for it, and that the older ones have ended
  before the worker prepares the workspace.

Only model-checked: liveness, since fairness is out of TLAPS's reach
(`PlaceholderDelivered`, `ResultDelivered`, `OpenTaskIsOfferedAgain`,
`EveryCommandEnds`). Every invariant and action property of a passing run is a
theorem.

## Not modelled

In the modelled components: the endpoints that drive a session by hand
(`start`, `sync`, `cancel` of `presentation/api.py`) or hand in its result
(`POST /review-runs/{id}/result`, which collects any payload for any run: Findings
has only results of the agent, and a second collection only of the same answer), a
provider without the
summary capability, a comment deleted at the provider, a completed session
without a result, slots of runs older than the slot table, `update_task_scheduling`, the first of
the two commits of `cancel_agent_task`, and rows of other runs in the same outbox
(they only delay).

Of AgentTask: mention tasks (they request a review), a worker without pi-agent or
without the comment capability, the stage `publishing_failure` (nothing sets it),
a pull request that is opened again, and a sweep that is still at work on one
command while it holds another. Four things are known not to hold and have no run: a
failed placeholder of the attempt before that an operator reschedules
(`services.py:2270`) reopens the command even after the outcome of its attempt was
enqueued, as `_apply_delivery_success` compares no attempt (`delivery.py:377-384`), and
the agent runs again, which `docs/agent-task-architecture-redesign_zh.md:859` rules out; a
notice that is in delivery when the outcome is enqueued may be retried after it
and cover the answer; a retried older command runs beside a younger one; and two
comments or a command back in the queue can come of a manual cancellation that
meets the worker's request for the placeholder. With two delivery workers, one
that lost its lease and then fails takes the row from its successor.

Of Scheduler: a capacity that an operator sets for the pool of a single pull request
(`ExclusiveKeys`); with it a task that has been unlocked early may be in two hands.
Known not to hold, without a run: that a worker keeps its leases while it works. Its
step may outlast the claim, which nothing renews, although
`docs/agent-task-architecture-redesign_zh.md:449` speaks of a heartbeat; the pools then
count units as free that are in use, and its release deletes its successor's leases.
Of ReviewExecution: a run whose result is delivered while
a delayed notice waits in its backoff stays in `awaiting_delivery`.

Of ReviewRequest: other pull requests (nothing is shared but the unique delivery
ids), the four events that only change labels, assignees or drafts (they act as
`edited` or, for `ready_for_review`, as `reopened`), unsupported events, GitLab's own
names for the same events, and the early commit of `cancel_active_agent_tasks_for_pr`
when commands are active. Known not to hold, without a run: a late webhook
of an older head supersedes the review of the current one; a pull request that is
closed and reopened at the same head gets no new review; a push handled beside the
close leaves a review of a closed pull request; a failed run can be retried by an
operator and by the agent, one after the other.

Of Workspace: the bare mirror (an incomplete one fails every later preparation), a
git process that outlives its killed parent, and `expires_at` (any workspace may be
expired). Known not to hold, without a run: that the files of a deleted workspace are
gone, since `rmtree` ignores errors and the handler that records `cleanup_failed`
(`workspaces.py:266-271`) is never reached, although `tests/test_workspaces.py:575-599`
asks for that status. Workers do not lease what they prepare, so a cleanup of expired
workspaces can remove the files under a session; a ready workspace is returned for
another base; two active leases make a cleanup, three a release fail with
`MultipleResultsFound`.

Of Findings: severity counts, `archive_findings_for_merged_pr` (nothing calls it) and
which findings get a line comment. The fingerprint contains the head, so that after
a push every finding is new and every earlier one resolved.

Other components: see `PROJECT.json`. The pi-agent runtime is a separate TypeScript
program, external here; the session archive only stores what it is given; the read
side of API and dashboards changes nothing; provider clients format HTTP calls.

## Plan

In this order, each with its MC module, properties and mutants:

1. `CommentDelivery`, `ReviewExecution`, `Scheduler` with the theorems above (done).
2. `AgentTask`: the life cycle of a command, with cancellation, timeouts and retry
   (done, with its theorems).
3. `ReviewRequest` with `ReviewLedger`, `Workspace`, `Findings` (done).
4. Theorems: the safety of Scheduler, AgentTask, Findings, ReviewRequest and Workspace
   and, for one worker of each kind, of ReviewExecution (done).
5. `PiRuntime`: session start by request key, runner, cancel, restart from
   snapshots; the external session of `ReviewExecution` as its abstract specification.
6. The line comments of a result one by one, with their refs.
