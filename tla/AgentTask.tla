------------------------------ MODULE AgentTask ------------------------------
(***************************************************************************)
(* The message commands of one pull request (application/worker.py), from  *)
(* the placeholder comment through the agent session to the final comment, *)
(* with the API calls that cancel and retry them and the delivery of their *)
(* comments (application/delivery.py).                                     *)
(*                                                                         *)
(* The deployment of the repository: one execution worker, one delivery    *)
(* worker, one manual cancellation at a time.  A step is a stretch between *)
(* two waits for the database, a provider, git or pi-agent, over which an  *)
(* actor keeps the Task object it loaded.  A flush writes the columns that *)
(* differ from the loaded object and no others.                            *)
(***************************************************************************)
EXTENDS Naturals, Sequences

CONSTANTS
    NumTasks,      \* commands of the pull request, in the order of created_at
    Empty,         \* the commands without text
    MaxStarts,     \* settings.retry_max_attempts
    MaxAttempts,   \* max_attempts of a delivery
    MaxRuns,       \* bound: 1 + number of retries an operator requests
    MaxFaults,     \* bound: crashes and outages of a provider or of pi-agent
    Requests       \* what the API receives: "close", "cancel", "retry",
                   \* "reschedule"

Tasks == 1..NumTasks

ASSUME AgentAssumption ==
    /\ NumTasks \in Nat \ {0} /\ Empty \subseteq Tasks
    /\ MaxStarts \in Nat /\ MaxAttempts \in Nat \ {0} /\ MaxRuns \in Nat \ {0}
    /\ MaxFaults \in Nat
    /\ Requests \subseteq {"close", "cancel", "retry", "reschedule"}

VARIABLES
    task,      \* the AgentTask rows
    closed,    \* the context of the pull request says closed
    clock,     \* external: time since started_at, against the two timeouts
    runtime,   \* external: the pi-agent session of the current attempt
    outbox,    \* the DeliveryOutbox rows
    comments,  \* external: the texts of the comments that carry the marker
    ew,        \* the execution worker
    dw,        \* the delivery worker
    api,       \* a manual cancellation in progress
    faults     \* how many faults are still to come

vars == <<task, closed, clock, runtime, outbox, comments, ew, dw, api, faults>>

-----------------------------------------------------------------------------
(* Values *)

Ends == {"completed", "failed", "cancelled"}
Texts == {"working", "queued", "soft_timeout"} \cup Ends
Active == {"queued", "running"}
Pending == Active \cup {"awaiting_delivery"}
InAgent == {"starting_agent", "waiting_for_agent", "retrying_agent_start"}
Stages == {"placeholder_pending", "placeholder_delivery_pending",
           "placeholder_delivered", "waiting_for_turn", "preparing_workspace",
           "cancellation_pending", "result_delivery_pending",
           "failure_delivery_pending", "cancellation_delivery_pending",
           "delivery_failed"} \cup InAgent \cup Ends

\* comment and hash: response_comment_id (0: none) and response_body_hash.
\* session, started, deadline: agent_session_id, started_at and deadline_at are
\* set.  soft, hard: the timeout marks.
Row == [status : Pending \cup Ends, stage : Stages,
        comment : Nat, hash : Texts \cup {"none"},
        workspace : BOOLEAN, session : BOOLEAN,
        started : BOOLEAN, deadline : BOOLEAN,
        starts : 0..MaxStarts, attempt : 1..MaxRuns,
        soft : BOOLEAN, hard : BOOLEAN]

NewTask == [status |-> "queued", stage |-> "placeholder_pending",
            comment |-> 0, hash |-> "none",
            workspace |-> FALSE, session |-> FALSE,
            started |-> FALSE, deadline |-> FALSE,
            starts |-> 0, attempt |-> 1, soft |-> FALSE, hard |-> FALSE]

\* The idempotency key of a delivery: task, text and attempt.
Keys == Tasks \X Texts \X (1..MaxRuns)
Delivery == [status : {"absent", "queued", "running", "delivered", "failed",
                       "superseded"},
             tries : 0..MaxAttempts, due : BOOLEAN]

\* The timeout sweep works on a task at "timeout".
Worker == [pc : {"idle", "loaded", "prepare", "ready", "start", "timeout"},
           task : Tasks, row : Row]
Publisher == [pc : {"idle", "lookup", "write", "bind", "finish", "raise"},
              key : Keys, row : Row, comment : Nat]

Mandatory(text) == text \notin {"queued", "soft_timeout"}

\* The row after a flush of the columns that were changed in the loaded one.
Flush(stored, loaded, value) ==
    [c \in DOMAIN value |-> IF value[c] = loaded[c] THEN stored[c] ELSE value[c]]

-----------------------------------------------------------------------------
(* Transactions *)

Fault == faults > 0 /\ faults' = faults - 1

Commit(t, loaded, value) ==
    task' = [task EXCEPT ![t] = Flush(task[t], loaded, value)]

\* A delivery that is over; its counters say no more.
Closed(status) == [status |-> status, tries |-> 0, due |-> FALSE]

\* _enqueue_agent_task_comment: a key that is known adds nothing; a final
\* comment supersedes what is still queued for the same comment.
Enqueue(k, supersede) ==
    IF outbox[k].status # "absent" THEN UNCHANGED outbox
    ELSE outbox' = [j \in Keys |->
           IF j = k THEN [status |-> "queued", tries |-> 0, due |-> TRUE]
           ELSE IF supersede /\ j[1] = k[1] /\ outbox[j].status = "queued"
           THEN Closed("superseded")
           ELSE outbox[j]]

FinalStage(end) ==
    CASE end = "completed" -> "result_delivery_pending"
      [] end = "failed" -> "failure_delivery_pending"
      [] OTHER -> "cancellation_delivery_pending"

\* mutant: the task stays open to the workers while its outcome is delivered.
ConcludedOpen(row, end) == [row EXCEPT !.stage = FinalStage(end)]

Concluded(row, end) ==
    [row EXCEPT !.status = "awaiting_delivery", !.stage = FinalStage(end)]

\* The worker drops the task and releases its claim.
IdleExec == [pc |-> "idle", task |-> 1, row |-> NewTask]

GoOn(pc, row) == ew' = [ew EXCEPT !.pc = pc, !.row = row]

\* _complete_, _fail_ and _cancel_command_agent_task
Conclude(row, end) ==
    /\ Commit(ew.task, ew.row, Concluded(row, end))
    /\ Enqueue(<<ew.task, end, ew.row.attempt>>, TRUE)
    /\ ew' = IdleExec

-----------------------------------------------------------------------------
(* process_next_agent_task, for a message command *)

\* deadline_at has passed.
Overdue(t) == task[t].deadline /\ clock[t] = "hard"

\* The first claim of an attempt sets started_at.
Claimed(row) ==
    [row EXCEPT !.status = "running", !.started = @ \/ row.status = "queued"]

\* claim_next_task; the lock of a dead worker may have run out, and one
\* worker needs no other protection (see Scheduler).
ClaimTask(t) ==
    /\ ew.pc = "idle"
    /\ task[t].status \in Active /\ ~Overdue(t)
    /\ task' = [task EXCEPT ![t] = Claimed(@)]
    /\ ew' = [pc |-> "loaded", task |-> t, row |-> task'[t]]
    /\ UNCHANGED <<closed, clock, runtime, outbox, comments, dw, api, faults>>

\* mutant: the test for the comment id is turned round.
PlaceholderKnown(row) == row.comment # 0 /\ row.stage = "placeholder_pending"

NeedsPlaceholder(row) == row.comment = 0 /\ row.stage = "placeholder_pending"

RequestPlaceholder ==
    /\ ew.pc = "loaded" /\ NeedsPlaceholder(ew.row)
    /\ Commit(ew.task, ew.row,
              [ew.row EXCEPT !.status = "awaiting_delivery",
                             !.stage = "placeholder_delivery_pending"])
    /\ Enqueue(<<ew.task, "working", ew.row.attempt>>, FALSE)
    /\ ew' = IdleExec
    /\ UNCHANGED <<closed, clock, runtime, comments, dw, api, faults>>

\* A running session may be cancelled; the answer does not matter.
MayCancel(t, known) ==
    runtime' \in {runtime} \cup
        (IF known /\ runtime[t] = "running"
         THEN {[runtime EXCEPT ![t] = "cancelled"]} ELSE {})

CancelCommand ==
    /\ ew.pc = "loaded" /\ ~NeedsPlaceholder(ew.row)
    /\ ew.row.stage = "cancellation_pending"
    /\ MayCancel(ew.task, ew.row.session)
    /\ Conclude(ew.row, "cancelled")
    /\ UNCHANGED <<closed, clock, comments, dw, api, faults>>

InTurnToRun ==
    /\ ew.pc = "loaded" /\ ~NeedsPlaceholder(ew.row)
    /\ ew.row.stage # "cancellation_pending"

AskForText ==
    /\ InTurnToRun /\ ew.task \in Empty
    /\ Conclude(ew.row, "completed")
    /\ UNCHANGED <<closed, clock, runtime, comments, dw, api, faults>>

\* mutant: a command whose result is being delivered is not waited for.
OlderRunning(t) == \E o \in Tasks : o < t /\ task[o].status \in Active

OlderPending(t) == \E o \in Tasks : o < t /\ task[o].status \in Pending

WaitForTurn ==
    /\ InTurnToRun /\ ew.task \notin Empty /\ OlderPending(ew.task)
    /\ Commit(ew.task, ew.row, [ew.row EXCEPT !.status = "queued",
                                              !.stage = "waiting_for_turn"])
    /\ Enqueue(<<ew.task, "queued", ew.row.attempt>>, FALSE)
    /\ ew' = IdleExec
    /\ UNCHANGED <<closed, clock, runtime, comments, dw, api, faults>>

HasTurn == InTurnToRun /\ ew.task \notin Empty /\ ~OlderPending(ew.task)

\* No context, a closed pull request, commands disabled.
RefuseCommand ==
    /\ HasTurn
    /\ Conclude(ew.row, "failed")
    /\ UNCHANGED <<closed, clock, runtime, comments, dw, api, faults>>

BeginPrepare ==
    /\ HasTurn /\ ~closed /\ ~ew.row.workspace
    /\ LET row == [ew.row EXCEPT !.status = "running",
                                 !.stage = "preparing_workspace"]
       IN  Commit(ew.task, ew.row, row) /\ GoOn("prepare", row)
    /\ UNCHANGED <<closed, clock, runtime, outbox, comments, dw, api, faults>>

PrepareWorkspace ==
    /\ ew.pc = "prepare"
    /\ Commit(ew.task, ew.row, [ew.row EXCEPT !.workspace = TRUE])
    /\ GoOn("ready", task'[ew.task])
    /\ UNCHANGED <<closed, clock, runtime, outbox, comments, dw, api, faults>>

PrepareFails ==
    /\ ew.pc = "prepare"
    /\ Conclude(ew.row, "failed")
    /\ UNCHANGED <<closed, clock, runtime, comments, dw, api, faults>>

MayRun == ew.pc = "ready" \/ (HasTurn /\ ~closed /\ ew.row.workspace)

\* A count past its limit says no more.
Counted(n, limit) == IF n < limit THEN n + 1 ELSE limit

\* The deadline counts from started_at, the wait for a turn included.
BeginStart ==
    /\ MayRun /\ ~ew.row.session
    /\ LET row == [ew.row EXCEPT !.status = "running", !.stage = "starting_agent",
                                 !.started = TRUE, !.deadline = TRUE,
                                 !.starts = Counted(@, MaxStarts)]
       IN  Commit(ew.task, ew.row, row) /\ GoOn("start", row)
    /\ UNCHANGED <<closed, clock, runtime, outbox, comments, dw, api, faults>>

\* What the session says decides; a completed one may hold no valid result.
ApplySession(row, status) ==
    CASE status = "completed" -> \E end \in {"completed", "failed"} : Conclude(row, end)
      [] status \in {"failed", "cancelled"} -> Conclude(row, "failed")
      [] OTHER -> /\ Commit(ew.task, ew.row, [row EXCEPT !.status = "running",
                                                         !.stage = "waiting_for_agent"])
                  /\ ew' = IdleExec
                  /\ UNCHANGED outbox

\* The idempotency key of the attempt returns the session it has started.
StartedRuntime(t) ==
    IF runtime[t] = "none" THEN [runtime EXCEPT ![t] = "running"] ELSE runtime

StartSession ==
    /\ ew.pc = "start"
    /\ runtime' = StartedRuntime(ew.task)
    /\ ApplySession([ew.row EXCEPT !.session = TRUE], runtime'[ew.task])
    /\ UNCHANGED <<closed, clock, comments, dw, api, faults>>

RetryStart(row) == row.starts < MaxStarts

StartFails ==
    /\ Fault
    /\ ew.pc = "start"
    /\ runtime' \in {runtime, StartedRuntime(ew.task)}
    /\ \/ Conclude(ew.row, "failed")
       \/ /\ RetryStart(ew.row)
          /\ Commit(ew.task, ew.row, [ew.row EXCEPT !.status = "queued",
                                                    !.stage = "retrying_agent_start"])
          /\ ew' = IdleExec
          /\ UNCHANGED outbox
    /\ UNCHANGED <<closed, clock, comments, dw, api>>

PollSession ==
    /\ MayRun /\ ew.row.session
    /\ ApplySession(ew.row, runtime[ew.task]) \/ Conclude(ew.row, "failed")
    /\ UNCHANGED <<closed, clock, runtime, comments, dw, api, faults>>

CrashExecution ==
    /\ Fault
    /\ ew.pc # "idle"
    /\ runtime' \in {runtime} \cup
         (IF ew.pc = "start" THEN {StartedRuntime(ew.task)} ELSE {})
    /\ ew' = IdleExec
    /\ UNCHANGED <<task, closed, clock, outbox, comments, dw, api>>

-----------------------------------------------------------------------------
(* process_agent_task_timeouts *)

\* mutant: a task that has not reached its session is not watched.
WatchedSession(t) ==
    /\ ew.pc = "idle" /\ task[t].status \in Active
    /\ task[t].stage = "waiting_for_agent" /\ task[t].started

Watched(t) ==
    /\ ew.pc = "idle" /\ task[t].status \in Active
    /\ task[t].stage \in InAgent /\ task[t].started

SoftTimeout(t) ==
    /\ Watched(t) /\ clock[t] = "soft" /\ ~task[t].soft
    /\ task' = [task EXCEPT ![t] = [@ EXCEPT !.soft = TRUE]]
    /\ Enqueue(<<t, "soft_timeout", task[t].attempt>>, FALSE)
    /\ UNCHANGED <<closed, clock, runtime, comments, ew, dw, api, faults>>

BeginTimeout(t) ==
    /\ Watched(t) /\ clock[t] = "hard" /\ ~task[t].hard
    /\ ew' = [pc |-> "timeout", task |-> t, row |-> task[t]]
    /\ UNCHANGED <<task, closed, clock, runtime, outbox, comments, dw, api, faults>>

HardTimeout ==
    /\ ew.pc = "timeout"
    /\ MayCancel(ew.task, ew.row.session)
    /\ Conclude([ew.row EXCEPT !.hard = TRUE], "failed")
    /\ UNCHANGED <<closed, clock, comments, dw, api, faults>>

-----------------------------------------------------------------------------
(* publish_github_agent_task_comment, by the delivery worker and the API *)

NoKey == <<1, "working", 1>>
IdlePublisher == [pc |-> "idle", key |-> NoKey, row |-> NewTask, comment |-> 0]

\* Of the loaded task, the columns a publisher reads or writes.
Kept(row) == [NewTask EXCEPT !.status = row.status, !.stage = row.stage,
                             !.comment = row.comment, !.hash = row.hash]

\* mutant: the comment is not looked up by its marker.
FoundById(p) == p.row.comment

Found(p) ==
    IF p.row.comment # 0 THEN p.row.comment
    ELSE IF comments[p.key[1]] # <<>> THEN 1 ELSE 0

Written(p) ==
    [comments EXCEPT ![p.key[1]] =
       IF p.comment = 0 THEN Append(@, p.key[2])
       ELSE [@ EXCEPT ![p.comment] = p.key[2]]]

WrittenId(p) ==
    IF p.comment = 0 THEN Len(comments[p.key[1]]) + 1 ELSE p.comment

\* The body is the one published last: the provider is not called.
Unchanged(p) == p.row.comment # 0 /\ p.row.hash = p.key[2]

\* The task is refreshed before it is settled.
Finishing(p) == [p EXCEPT !.pc = "finish", !.row = NewTask, !.comment = 0]

AfterLookup(p) ==
    IF Unchanged(p) THEN Finishing(p)
    ELSE [p EXCEPT !.pc = "write", !.comment = Found(p)]

Published(p) ==
    [p.row EXCEPT !.comment = p.comment, !.hash = p.key[2]]

-----------------------------------------------------------------------------
(* The delivery worker *)

\* Rows that a dead worker has left; expired leases are reclaimed first, and
\* any row that is due may be next (an over-approximation of available_at).
Reclaimed(expired) ==
    [k \in Keys |-> IF k \in expired
                    THEN [outbox[k] EXCEPT !.status = "queued", !.due = TRUE]
                    ELSE outbox[k]]

ClaimDelivery(k) ==
    /\ dw.pc = "idle"
    /\ \E expired \in {{}, {j \in Keys : outbox[j].status = "running"}} :
         LET rows == Reclaimed(expired) IN
         /\ rows[k].status = "queued" /\ rows[k].due
         /\ outbox' = [rows EXCEPT ![k] =
                         [status |-> "running", due |-> FALSE,
                          tries |-> Counted(rows[k].tries, MaxAttempts)]]
    /\ dw' = [pc |-> "lookup", key |-> k, row |-> Kept(task[k[1]]), comment |-> 0]
    /\ UNCHANGED <<task, closed, clock, runtime, comments, ew, api, faults>>

LookUpComment ==
    /\ dw.pc = "lookup"
    /\ dw' = AfterLookup(dw)
    /\ UNCHANGED <<task, closed, clock, runtime, outbox, comments, ew, api, faults>>

WriteComment ==
    /\ dw.pc = "write"
    /\ comments' = Written(dw)
    /\ dw' = [dw EXCEPT !.pc = "bind", !.comment = WrittenId(dw)]
    /\ UNCHANGED <<task, closed, clock, runtime, outbox, ew, api, faults>>

BindComment ==
    /\ dw.pc = "bind"
    /\ Commit(dw.key[1], dw.row, Published(dw))
    /\ dw' = Finishing(dw)
    /\ UNCHANGED <<closed, clock, runtime, outbox, comments, ew, api, faults>>

\* The provider refuses, or a write takes effect without an answer.
ProviderFails ==
    /\ Fault
    /\ dw.pc = "write" \/ (dw.pc = "lookup" /\ dw.row.comment = 0)
    /\ comments' \in {comments} \cup (IF dw.pc = "write" THEN {Written(dw)} ELSE {})
    /\ dw' = [dw EXCEPT !.pc = "raise"]
    /\ UNCHANGED <<task, closed, clock, runtime, outbox, ew, api>>

OthersPending(k) ==
    \E j \in Keys \ {k} : /\ j[1] = k[1] /\ Mandatory(j[2])
                          /\ outbox[j].status \in {"queued", "running"}

\* mutant: the state of the delivery is written into the task.
SettledAsDelivered(k, row) ==
    IF k[2] = "working"
    THEN [row EXCEPT !.status = "queued", !.stage = "placeholder_delivered"]
    ELSE IF k[2] \in Ends /\ ~OthersPending(k)
    THEN [row EXCEPT !.status = "delivered", !.stage = k[2]]
    ELSE row

\* mutant: the outcome of a command is settled like its placeholder.
SettledReopened(k, row) ==
    IF k[2] = "working"
    THEN [row EXCEPT !.status = "queued", !.stage = "placeholder_delivered"]
    ELSE IF k[2] \in Ends /\ ~OthersPending(k)
    THEN [row EXCEPT !.status = "queued", !.stage = k[2]]
    ELSE row

\* _apply_delivery_success on the refreshed task
Settled(k, row) ==
    IF k[2] = "working"
    THEN [row EXCEPT !.status = "queued", !.stage = "placeholder_delivered"]
    ELSE IF k[2] \in Ends /\ ~OthersPending(k)
    THEN [row EXCEPT !.status = k[2], !.stage = k[2]]
    ELSE row

FinishDelivery ==
    /\ dw.pc = "finish"
    /\ outbox' = [outbox EXCEPT ![dw.key] = Closed("delivered")]
    /\ task' = [task EXCEPT ![dw.key[1]] = Settled(dw.key, @)]
    /\ dw' = IdlePublisher
    /\ UNCHANGED <<closed, clock, runtime, comments, ew, api, faults>>

\* _record_delivery_failure
RecordDeliveryFailure ==
    LET exhausted == outbox[dw.key].tries >= MaxAttempts IN
    /\ dw.pc = "raise"
    /\ outbox' = [outbox EXCEPT ![dw.key] =
                    IF exhausted THEN Closed("failed")
                    ELSE [@ EXCEPT !.status = "queued", !.due = FALSE]]
    /\ Commit(dw.key[1], dw.row,
              IF exhausted /\ Mandatory(dw.key[2])
              THEN [dw.row EXCEPT !.status = "failed", !.stage = "delivery_failed"]
              ELSE dw.row)
    /\ dw' = IdlePublisher
    /\ UNCHANGED <<closed, clock, runtime, comments, ew, api, faults>>

CrashDelivery ==
    /\ Fault
    /\ dw.pc # "idle"
    /\ dw' = IdlePublisher
    /\ UNCHANGED <<task, closed, clock, runtime, outbox, comments, ew, api>>

BackoffElapses(k) ==
    /\ outbox[k].status = "queued" /\ ~outbox[k].due
    /\ outbox' = [outbox EXCEPT ![k] = [@ EXCEPT !.due = TRUE]]
    /\ UNCHANGED <<task, closed, clock, runtime, comments, ew, dw, api, faults>>

-----------------------------------------------------------------------------
(* The API *)

\* A webhook closes the pull request: cancel_active_agent_tasks_for_pr.
ClosePullRequest ==
    /\ "close" \in Requests /\ ~closed
    /\ closed' = TRUE
    /\ task' = [t \in Tasks |->
                  IF task[t].status \in Active
                  THEN [task[t] EXCEPT !.status = "running",
                                       !.stage = "cancellation_pending"]
                  ELSE task[t]]
    /\ UNCHANGED <<clock, runtime, outbox, comments, ew, dw, api, faults>>

\* cancel_agent_task: it commits the stage, then calls pi-agent and the
\* provider itself, then commits the end.
CancelRequest(t) ==
    /\ "cancel" \in Requests /\ api.pc = "idle"
    /\ task[t].status \in Active
    /\ task' = [task EXCEPT ![t] = [@ EXCEPT !.status = "running",
                                             !.stage = "cancellation_pending"]]
    /\ api' = [pc |-> "lookup", key |-> <<t, "cancelled", task[t].attempt>>,
               row |-> task'[t], comment |-> 0]
    /\ UNCHANGED <<closed, clock, runtime, outbox, comments, ew, dw, faults>>

CancelLookUp ==
    /\ api.pc = "lookup"
    /\ MayCancel(api.key[1], api.row.session)
    /\ api' = AfterLookup([api EXCEPT !.row = Kept(@)])
    /\ UNCHANGED <<task, closed, clock, outbox, comments, ew, dw, faults>>

CancelWrite ==
    /\ api.pc = "write"
    /\ comments' = Written(api)
    /\ api' = [api EXCEPT !.pc = "bind", !.comment = WrittenId(api)]
    /\ UNCHANGED <<task, closed, clock, runtime, outbox, ew, dw, faults>>

\* The comment id is committed, the task refreshed and ended.
CancelEnds ==
    /\ api.pc \in {"bind", "finish"}
    /\ LET t == api.key[1]
           bound == IF api.pc = "bind" THEN Flush(task[t], api.row, Published(api))
                    ELSE task[t]
       IN  task' = [task EXCEPT ![t] = [bound EXCEPT !.status = "cancelled",
                                                     !.stage = "cancelled"]]
    /\ api' = IdlePublisher
    /\ UNCHANGED <<closed, clock, runtime, outbox, comments, ew, dw, faults>>

\* The provider fails (503), or the API process dies.
CancelFails ==
    /\ api.pc # "idle"
    /\ comments' \in {comments} \cup (IF api.pc = "write" THEN {Written(api)} ELSE {})
    /\ api' = IdlePublisher
    /\ UNCHANGED <<task, closed, clock, runtime, outbox, ew, dw, faults>>

\* retry_agent_task: the comment and the workspace stay.
RetryRequest(t) ==
    /\ "retry" \in Requests /\ task[t].status = "failed" /\ task[t].attempt < MaxRuns
    /\ task' = [task EXCEPT ![t] =
                  [NewTask EXCEPT !.comment = task[t].comment,
                                  !.workspace = task[t].workspace,
                                  !.attempt = task[t].attempt + 1]]
    /\ clock' = [clock EXCEPT ![t] = "fresh"]
    /\ runtime' = [runtime EXCEPT ![t] = "none"]
    /\ UNCHANGED <<closed, outbox, comments, ew, dw, api, faults>>

\* update_delivery_scheduling: attempt is not reset, but the request may set
\* another max_attempts; it may also put the delivery off.
RescheduleDelivery(k) ==
    /\ "reschedule" \in Requests /\ outbox[k].status \in {"queued", "failed"}
    /\ \E tries \in 0..MaxAttempts, due \in BOOLEAN :
         outbox' = [outbox EXCEPT ![k] =
                      [status |-> "queued", tries |-> tries, due |-> due]]
    /\ UNCHANGED <<task, closed, clock, runtime, comments, ew, dw, api, faults>>

-----------------------------------------------------------------------------
(* Environment *)

SessionEnds(t) ==
    /\ runtime[t] = "running"
    /\ \E end \in {"completed", "failed"} : runtime' = [runtime EXCEPT ![t] = end]
    /\ UNCHANGED <<task, closed, clock, outbox, comments, ew, dw, api, faults>>

TimePasses(t) ==
    /\ task[t].started /\ task[t].status \in Pending /\ clock[t] # "hard"
    /\ clock' = [clock EXCEPT ![t] = IF @ = "fresh" THEN "soft" ELSE "hard"]
    /\ UNCHANGED <<task, closed, runtime, outbox, comments, ew, dw, api, faults>>

-----------------------------------------------------------------------------

Init ==
    /\ task = [t \in Tasks |-> NewTask]
    /\ closed = FALSE
    /\ clock = [t \in Tasks |-> "fresh"]
    /\ runtime = [t \in Tasks |-> "none"]
    /\ outbox = [k \in Keys |-> [status |-> "absent", tries |-> 0, due |-> FALSE]]
    /\ comments = [t \in Tasks |-> <<>>]
    /\ ew = IdleExec
    /\ dw = IdlePublisher
    /\ api = IdlePublisher
    /\ faults = MaxFaults

CommandStep ==
    \/ RequestPlaceholder \/ CancelCommand \/ AskForText \/ WaitForTurn
    \/ RefuseCommand \/ BeginPrepare \/ PrepareWorkspace \/ PrepareFails
    \/ BeginStart \/ StartSession \/ StartFails \/ PollSession \/ HardTimeout

DeliveryStep ==
    \/ LookUpComment \/ WriteComment \/ BindComment \/ ProviderFails
    \/ FinishDelivery \/ RecordDeliveryFailure

ApiStep ==
    \/ ClosePullRequest \/ CancelLookUp \/ CancelWrite \/ CancelEnds \/ CancelFails
    \/ \E t \in Tasks : CancelRequest(t) \/ RetryRequest(t)
    \/ \E k \in Keys : RescheduleDelivery(k)

Next ==
    \/ \E t \in Tasks : ClaimTask(t) \/ SoftTimeout(t) \/ BeginTimeout(t)
    \/ CommandStep \/ CrashExecution
    \/ \E k \in Keys : ClaimDelivery(k) \/ BackoffElapses(k)
    \/ DeliveryStep \/ CrashDelivery
    \/ ApiStep
    \/ \E t \in Tasks : SessionEnds(t) \/ TimePasses(t)

Spec == Init /\ [][Next]_vars

-----------------------------------------------------------------------------
(* Fairness.  The worker loops for ever: a sweep of the timeouts, then a     *)
(* claim, and a released task waits a poll interval while the others have    *)
(* their turn.  Sessions need not end; time passes.                          *)

FairSpec ==
    /\ Spec
    /\ WF_vars(CommandStep) /\ WF_vars(DeliveryStep)
    /\ WF_vars(\E k \in Keys : ClaimDelivery(k))
    /\ \A k \in Keys : WF_vars(BackoffElapses(k))
    /\ \A t \in Tasks : /\ SF_vars(ClaimTask(t)) /\ SF_vars(BeginTimeout(t))
                        /\ WF_vars(TimePasses(t))

-----------------------------------------------------------------------------
(* Properties *)

\* Every row and every loaded copy of it keeps its shape.
TypeOK ==
    /\ task \in [Tasks -> Row] /\ closed \in BOOLEAN
    /\ clock \in [Tasks -> {"fresh", "soft", "hard"}]
    /\ runtime \in [Tasks -> {"none", "running"} \cup Ends]
    /\ outbox \in [Keys -> Delivery]
    /\ comments \in [Tasks -> Seq(Texts)]
    /\ ew \in Worker /\ dw \in Publisher /\ api \in Publisher
    /\ faults \in 0..MaxFaults

\* No agent session is requested for a command whose placeholder comment is
\* not bound, whatever is cancelled, retried, lost or restarted in between.
AgentAfterPlaceholder ==
    \A t \in Tasks : runtime[t] # "none" => task[t].comment # 0

\* A command has one comment, although a create call may take effect without
\* an answer and the worker may die before it commits the id.
OneCommentPerCommand == \A t \in Tasks : Len(comments[t]) <= 1

\* Commands run in their order: the session of a command is requested only
\* after the comment of every older one shows its end.
CommandsInOrder ==
    \A t, o \in Tasks :
        o < t /\ runtime[t] # "none" => task[o].status \in Ends

\* A command whose outcome is on its way to the comment does not run the
\* agent again in the same attempt, however often the delivery fails.
OutcomeIsNotRerun ==
    [][\A t \in Tasks :
         /\ \E end \in Ends : outbox[<<t, end, task[t].attempt>>].status # "absent"
         /\ task'[t].attempt = task[t].attempt /\ runtime[t] # "running"
         => runtime'[t] # "running"]_vars

\* Every command ends, also when its session never answers.
EveryCommandEnds == \A t \in Tasks : <>(task[t].status \in Ends)
=============================================================================
