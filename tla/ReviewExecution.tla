--------------------------- MODULE ReviewExecution ---------------------------
(***************************************************************************)
(* The execution worker of one ReviewRun (application/worker.py and the    *)
(* session services of application/services.py), running beside the        *)
(* delivery workers and the API of CommentDelivery, with the pi-agent      *)
(* session it starts, polls and cancels.                                   *)
(*                                                                         *)
(* process_next_review_run keeps one database session, one ReviewRun       *)
(* object and one ReviewCommentSlot object from claim to release.  The run *)
(* object is refreshed after its commits; the slot object never is, and    *)
(* every later query of that session returns it as it was first loaded.    *)
(* The timeout sweep loads its run once and never refreshes it.            *)
(***************************************************************************)
EXTENDS CommentDelivery

CONSTANTS
    ExecutionWorkers, \* processes running process_next_review_run
    MaxStartRetries,  \* settings.retry_max_attempts
    LineComments,     \* config.line_comments_enabled and provider capability
    ApiRequests       \* subset of {"cancelled", "superseded"} the API receives

ASSUME ExecutionAssumption ==
    /\ NoOwner \notin ExecutionWorkers
    /\ MaxStartRetries \in Nat
    /\ LineComments \in BOOLEAN
    /\ ApiRequests \subseteq {"cancelled", "superseded"}

VARIABLES
    job,      \* the scheduling columns of the ReviewRun row
    session,  \* external: the pi-agent session of the run
    ew        \* what each execution worker holds in memory

vars == <<run, slot, outbox, earlier, ref, comments, dw, job, session, ew>>
outboxVars == <<outbox, earlier, ref, comments, dw>>

-----------------------------------------------------------------------------

SessionStatus == {"none", "running", "completed", "failed", "cancelled"}
\* agent: no workspace yet, workspace prepared, or agent_session_id set.
AgentStage == {"unprepared", "prepared", "started"}
Job == [agent : AgentStage, softTimeout : BOOLEAN, hardTimeout : BOOLEAN,
        startRetries : 0..MaxStartRetries]
ExecStep == {"idle", "gate", "prepare", "start", "sync", "failed", "publish",
             "collect", "lines",
             "sweep", "softTimeout", "hardTimeout", "hardPublish"}
\* run, agent and slot: the loaded objects.
\* infra: failure_code = "pi_agent_infrastructure_error".
ExecWorker == [pc : ExecStep, run : Run, agent : AgentStage, slot : Slot,
               infra : BOOLEAN]

IdleExec == [pc |-> "idle",
             run |-> [status |-> "awaiting_delivery", exec |-> "pending"],
             agent |-> "unprepared",
             slot |-> [status |-> "pending", comment |-> 0, version |-> 0],
             infra |-> FALSE]

\* The worker goes on at pc with the objects it has; when it is done with the
\* run it drops them and releases its claim.
GoOn(e, pc) ==
    ew' = [ew EXCEPT ![e] = IF pc = "idle" THEN IdleExec
                            ELSE [@ EXCEPT !.pc = pc]]

\* The same, with the run object refreshed.
Proceed(e, pc) ==
    ew' = [ew EXCEPT ![e] = IF pc = "idle" THEN IdleExec
                            ELSE [@ EXCEPT !.pc = pc, !.run = run',
                                           !.agent = job'.agent]]

SetStatus(e, status) ==
    run' = [run EXCEPT !.status = Flush(@, ew[e].run.status, status)]

-----------------------------------------------------------------------------
(* process_next_review_run *)

\* claim_next_task: the run is queued or running.  A lock that another worker
\* holds may have run out by now, so it excludes nobody here (see Scheduler).
ClaimReview(e) ==
    /\ ew[e].pc = "idle"
    /\ run.status \in {"queued", "running"}
    /\ run' = IF run.status = "queued"
              THEN [status |-> "running", exec |-> "running"] ELSE run
    /\ UNCHANGED job
    /\ Proceed(e, "gate")
    /\ UNCHANGED <<slot, session, outboxVars>>

SlotOpen(s) == s.status = "ready" /\ s.comment # 0

\* The placeholder gate.  The placeholder event always exists, so a closed
\* gate requests nothing new and the worker gives the run back.
CheckSlot(e) ==
    /\ ew[e].pc = "gate"
    /\ ew' = [ew EXCEPT ![e] = IF SlotOpen(slot)
                               THEN [@ EXCEPT !.pc = "prepare", !.slot = slot]
                               ELSE IdleExec]
    /\ slot' = IF slot.status = "ready" /\ slot.comment = 0
               THEN [slot EXCEPT !.status = "pending"] ELSE slot
    /\ UNCHANGED <<run, job, session, outboxVars>>

PrepareWorkspace(e) ==
    /\ ew[e].pc = "prepare" /\ ew[e].agent = "unprepared"
    /\ job' = [job EXCEPT !.agent = IF @ = "unprepared" THEN "prepared" ELSE @]
    /\ UNCHANGED run
    /\ Proceed(e, IF job'.agent = "started" THEN "sync" ELSE "start")
    /\ UNCHANGED <<slot, session, outboxVars>>

\* mutant: a known session is forgotten and another one is started.
ResumeRunAfresh(e) ==
    /\ ew[e].pc = "prepare" /\ ew[e].agent # "unprepared"
    /\ GoOn(e, "start")
    /\ UNCHANGED <<run, slot, job, session, outboxVars>>

\* The workspace is there already, and perhaps the session.
ResumeRun(e) ==
    /\ ew[e].pc = "prepare" /\ ew[e].agent # "unprepared"
    /\ GoOn(e, IF ew[e].agent = "started" THEN "sync" ELSE "start")
    /\ UNCHANGED <<run, slot, job, session, outboxVars>>

\* No pull request context, or the checkout failed.
PrepareFails(e) ==
    /\ ew[e].pc = "prepare" /\ ew[e].agent = "unprepared"
    /\ SetStatus(e, "failed")
    /\ UNCHANGED job
    /\ Proceed(e, "publish")
    /\ UNCHANGED <<slot, session, outboxVars>>

NotStartable == {"cancelled", "superseded", "completed"}

\* The refreshed status decides, whoever set it.
AfterStart(status) == IF status = "failed" THEN "failed" ELSE "sync"

MayStart(e) == ew[e].run.status \notin NotStartable /\ SlotOpen(ew[e].slot)

\* start_review_session: the session request is answered.
StartSession(e) ==
    /\ ew[e].pc = "start"
    /\ MayStart(e)
    /\ session' = "running"
    /\ job' = [job EXCEPT !.agent = "started"]
    /\ SetStatus(e, "running")
    /\ Proceed(e, AfterStart(run'.status))
    /\ UNCHANGED <<slot, outboxVars>>

\* The request fails; the runtime may have started the session all the same.
StartFails(e, infra) ==
    /\ ew[e].pc = "start"
    /\ MayStart(e)
    /\ session' \in {session, "running"}
    /\ SetStatus(e, "failed")
    /\ ew' = [ew EXCEPT ![e] = [@ EXCEPT !.pc = AfterStart(run'.status),
                                         !.run = run', !.infra = infra]]
    /\ UNCHANGED <<slot, job, outboxVars>>

\* ReviewRunTransitionError reaches the handler of process_next_review_run.
StartRejected(e) ==
    /\ ew[e].pc = "start"
    /\ ~MayStart(e)
    /\ SetStatus(e, "failed")
    /\ UNCHANGED job
    /\ Proceed(e, "publish")
    /\ UNCHANGED <<slot, session, outboxVars>>

AfterSync(status, answer) ==
    CASE status = "failed" -> "failed"
      [] status = "cancelled" -> "idle"
      [] answer = "completed" -> "collect"
      [] OTHER -> "idle"

SyncedStatus(answer) ==
    CASE answer \in {"failed", "infra", "error"} -> "failed"
      [] answer = "cancelled" -> "cancelled"
      [] OTHER -> "running"

\* sync_review_session: get_session answers, or the client raises; without a
\* session id the run is marked failed.
SyncSession(e) ==
    /\ ew[e].pc = "sync" /\ ew[e].run.status \notin TerminalTexts
    /\ \E answer \in IF ew[e].agent = "started" THEN {session, "infra", "error"}
                     ELSE {"error"} :
         /\ SetStatus(e, SyncedStatus(answer))
         /\ LET pc == AfterSync(run'.status, answer) IN
            ew' = [ew EXCEPT ![e] =
                     IF pc = "idle" THEN IdleExec
                     ELSE [@ EXCEPT !.pc = pc, !.run = run',
                                    !.infra = (answer = "infra")]]
    /\ UNCHANGED <<slot, job, session, outboxVars>>

SyncSkipped(e) ==
    /\ ew[e].pc = "sync" /\ ew[e].run.status \in TerminalTexts
    /\ GoOn(e, AfterSync(ew[e].run.status, "none"))
    /\ UNCHANGED <<run, slot, job, session, outboxVars>>

\* mutant: off by one in the retry limit.
RetryAgentOnceMore(e) ==
    /\ ew[e].pc = "failed" /\ ew[e].infra
    /\ \/ ew[e].agent = "started" /\ UNCHANGED job
       \/ /\ ew[e].agent # "started" /\ job.startRetries <= MaxStartRetries
          /\ job' = [job EXCEPT !.startRetries = @ + 1]
    /\ SetStatus(e, "running")
    /\ GoOn(e, "idle")
    /\ UNCHANGED <<slot, session, outboxVars>>

\* _schedule_pi_agent_retry: a known session is polled again without limit, a
\* start is repeated MaxStartRetries times.
RetryAgent(e) ==
    /\ ew[e].pc = "failed" /\ ew[e].infra
    /\ \/ ew[e].agent = "started" /\ UNCHANGED job
       \/ /\ ew[e].agent # "started" /\ job.startRetries < MaxStartRetries
          /\ job' = [job EXCEPT !.startRetries = @ + 1]
    /\ SetStatus(e, "running")
    /\ GoOn(e, "idle")
    /\ UNCHANGED <<slot, session, outboxVars>>

GiveUp(e) ==
    /\ ew[e].pc = "failed"
    /\ ~ew[e].infra \/ (ew[e].agent # "started" /\ job.startRetries = MaxStartRetries)
    /\ GoOn(e, "publish")
    /\ UNCHANGED <<run, slot, job, session, outboxVars>>

\* publish_review_run_status_comment from inside process_next_review_run.
PublishFailure(e) ==
    /\ ew[e].pc = "publish"
    /\ EnqueueStatus("failed", ew[e].run, ew[e].slot)
    /\ GoOn(e, "idle")
    /\ UNCHANGED <<job, session, ref, comments, dw>>

\* collect_review_result: the result is valid, or it is not.
CollectResult(e) ==
    /\ ew[e].pc = "collect"
    /\ UNCHANGED job
    /\ \E text \in {"completed", "failed"} :
         /\ EnqueueStatus(text, ew[e].run, ew[e].slot)
         /\ Proceed(e, IF text = "completed" /\ LineComments THEN "lines"
                       ELSE "idle")
    /\ UNCHANGED <<session, ref, comments, dw>>

\* Any other exception of collect_review_result, after which the run object is
\* refreshed: a result that was not stored is published as a failure.
CollectRaises(e) ==
    /\ ew[e].pc = "collect"
    /\ run' = IF run.exec # "failed" THEN [run EXCEPT !.status = "failed"] ELSE run
    /\ UNCHANGED job
    /\ Proceed(e, IF run.exec # "failed" THEN "publish" ELSE "idle")
    /\ UNCHANGED <<slot, session, outboxVars>>

\* _enqueue_review_line_comments, after the result has been committed.
EnqueueLineComments(e) ==
    /\ ew[e].pc = "lines"
    /\ EnqueueDelivery(NewDelivery("review_line_comments", "completed", 0))
    /\ GoOn(e, "idle")
    /\ UNCHANGED <<run, slot, job, session, ref, comments, dw>>

-----------------------------------------------------------------------------
(* process_review_run_timeouts, by a worker between two runs *)

\* The runs are selected once; the run's turn may come much later, after the
\* sweep has called pi-agent for other runs.
SelectActive(e) ==
    /\ ew[e].pc = "idle"
    /\ run.status \in {"queued", "running"}
    /\ ~job.softTimeout \/ ~job.hardTimeout
    /\ UNCHANGED <<run, job>>
    /\ Proceed(e, "sweep")
    /\ UNCHANGED <<slot, session, outboxVars>>

EmitSoftTimeout(e) ==
    /\ ew[e].pc = "sweep" /\ ~job.softTimeout
    /\ job' = [job EXCEPT !.softTimeout = TRUE]
    /\ GoOn(e, "softTimeout")
    /\ UNCHANGED <<run, slot, session, outboxVars>>

PublishDelayed(e) ==
    /\ ew[e].pc = "softTimeout"
    /\ EnqueueStatus("delayed", ew[e].run, slot)
    /\ GoOn(e, "idle")
    /\ UNCHANGED <<job, session, ref, comments, dw>>

EmitHardTimeout(e) ==
    /\ ew[e].pc = "sweep" /\ ~job.hardTimeout
    /\ job' = [job EXCEPT !.hardTimeout = TRUE]
    /\ SetStatus(e, "failed")
    /\ ew' = [ew EXCEPT ![e] = [@ EXCEPT !.pc = "hardTimeout",
                                         !.run.status = "failed"]]
    /\ UNCHANGED <<slot, session, outboxVars>>

\* _cancel_pi_agent_after_hard_timeout: best effort; the run is refreshed only
\* when the runtime refuses.
CancelAgent(e) ==
    /\ ew[e].pc = "hardTimeout"
    /\ session' \in {session} \cup
         (IF ew[e].agent = "started" /\ session = "running" THEN {"cancelled"} ELSE {})
    /\ GoOn(e, "hardPublish")
    /\ UNCHANGED <<run, slot, job, outboxVars>>

CancelAgentFails(e) ==
    /\ ew[e].pc = "hardTimeout" /\ ew[e].agent = "started"
    /\ UNCHANGED <<run, job>>
    /\ Proceed(e, "hardPublish")
    /\ UNCHANGED <<slot, session, outboxVars>>

PublishTimeout(e) ==
    /\ ew[e].pc = "hardPublish"
    /\ EnqueueStatus("failed", ew[e].run, slot)
    /\ GoOn(e, "idle")
    /\ UNCHANGED <<job, session, ref, comments, dw>>

\* Neither timeout has elapsed, or another sweep has recorded the event.
EndSweep(e) ==
    /\ ew[e].pc = "sweep"
    /\ GoOn(e, "idle")
    /\ UNCHANGED <<run, slot, job, session, outboxVars>>

-----------------------------------------------------------------------------
(* Environment *)

\* The process dies; a start request on its way may still have been served.
CrashExecution(e) ==
    /\ ew[e].pc # "idle"
    /\ session' \in {session} \cup
         (IF ew[e].pc = "start" /\ MayStart(e) THEN {"running"} ELSE {})
    /\ GoOn(e, "idle")
    /\ UNCHANGED <<run, slot, job, outboxVars>>

\* external: the pi-agent session ends by itself.
SessionEnds ==
    /\ session = "running"
    /\ session' \in {"completed", "failed"}
    /\ UNCHANGED <<run, slot, job, ew, outboxVars>>

-----------------------------------------------------------------------------

Init ==
    /\ DeliveryInit
    /\ job = [agent |-> "unprepared", softTimeout |-> FALSE,
              hardTimeout |-> FALSE, startRetries |-> 0]
    /\ session = "none"
    /\ ew = [e \in ExecutionWorkers |-> IdleExec]

executionVars == <<job, session, ew>>

ReviewStep(e) ==
    \/ ClaimReview(e) \/ CheckSlot(e)
    \/ PrepareWorkspace(e) \/ ResumeRun(e) \/ PrepareFails(e)
    \/ StartSession(e) \/ StartRejected(e)
    \/ \E infra \in BOOLEAN : StartFails(e, infra)
    \/ SyncSession(e) \/ SyncSkipped(e) \/ RetryAgent(e) \/ GiveUp(e)
    \/ PublishFailure(e)
    \/ CollectResult(e) \/ CollectRaises(e) \/ EnqueueLineComments(e)

SweepStep(e) ==
    \/ SelectActive(e) \/ EmitSoftTimeout(e) \/ PublishDelayed(e)
    \/ EmitHardTimeout(e) \/ CancelAgent(e) \/ CancelAgentFails(e)
    \/ PublishTimeout(e) \/ EndSweep(e)

ApiStep ==
    \/ "cancelled" \in ApiRequests /\ CancelReviewRun
    \/ "superseded" \in ApiRequests /\ SupersedeReviewRun
    \/ \E i \in Ids : RescheduleFailedDelivery(i)

Next ==
    \/ /\ \/ \E w \in DeliveryWorkers : DeliveryStep(w)
          \/ ApiStep
          \/ \E i \in Ids : BackoffElapses(i)
       /\ UNCHANGED executionVars
    \/ \E e \in ExecutionWorkers : ReviewStep(e) \/ SweepStep(e) \/ CrashExecution(e)
    \/ SessionEnds

Spec == Init /\ [][Next]_vars

-----------------------------------------------------------------------------
(* Fairness.  The delivery loop of worker_cli never stops polling, a backoff *)
(* and an abandoned lease end with the passing of time, and the outages of   *)
(* the provider and of the worker process end at some point.                 *)

Outage == \E w \in DeliveryWorkers : ProviderFails(w) \/ CrashDelivery(w)

Abandoned(i) ==
    /\ outbox[i].status = "running"
    /\ \A w \in DeliveryWorkers : dw[w].pc # "idle" => dw[w].id # i

ReclaimAbandoned(w, i) ==
    /\ Abandoned(i)
    /\ ClaimNextDelivery(w)
    /\ outbox'[i].status = "queued" \/ dw'[w].id = i
    /\ UNCHANGED executionVars

Fairness ==
    /\ <>[][~Outage]_vars
    /\ \A w \in DeliveryWorkers :
         /\ WF_vars(DeliveryStep(w) /\ UNCHANGED executionVars)
         /\ \A i \in Ids : SF_vars(ReclaimAbandoned(w, i))
    /\ \A i \in Ids : WF_vars(BackoffElapses(i) /\ UNCHANGED executionVars)

FairSpec == Spec /\ Fairness

-----------------------------------------------------------------------------
(* Properties *)

\* Every variable keeps the shape of the row or object it models; start
\* retries and counted delivery attempts stay within their limits.
TypeOK ==
    /\ run \in Run /\ slot \in Slot
    /\ outbox \in [Ids -> Delivery] /\ earlier \subseteq Ids \X Ids
    /\ ref \in [comment : Nat, text : Texts]
    /\ comments \in Seq(Comment)
    /\ dw \in [DeliveryWorkers -> Worker]
    /\ job \in Job /\ session \in SessionStatus
    /\ ew \in [ExecutionWorkers -> ExecWorker]

\* No agent session is ever requested for a run whose placeholder comment is
\* not durably bound (the gate of process_next_review_run and
\* start_review_session), whatever fails, expires or restarts.
AgentWaitsForPlaceholder == session # "none" => slot.comment # 0

\* claim_next_task can hand out the run only once its comment id is bound.
ClaimableRunHasComment ==
    run.status \in {"queued", "running"} => slot.comment # 0

PastGate == {"prepare", "start", "sync", "failed", "publish", "collect", "lines"}

\* A worker past the gate loaded a bound slot, and a bound slot stays bound.
PastGateSawComment ==
    \A e \in ExecutionWorkers :
        /\ ew[e].slot.comment # 0 => slot.comment # 0
        /\ ew[e].pc \in PastGate => ew[e].slot.comment # 0

\* A delivery worker works on a row that exists, and ends a summary delivery
\* with a comment in hand.
DelivererHoldsComment ==
    \A w \in DeliveryWorkers :
        /\ dw[w].pc # "idle" => outbox[dw[w].id].status # "absent"
        /\ dw[w].pc = "lines" => outbox[dw[w].id].op = "review_line_comments"
        /\ dw[w].pc = "bind" => dw[w].comment # 0
        /\ dw[w].pc = "finish" /\ outbox[dw[w].id].op # "review_line_comments"
             => dw[w].comment # 0

\* Why the placeholder gate holds: everything that can make the run claimable
\* or start its session has seen the bound comment (inductive).
BindingInv ==
    /\ AgentWaitsForPlaceholder
    /\ ClaimableRunHasComment
    /\ PastGateSawComment
    /\ DelivererHoldsComment

\* The run has one summary comment at the provider, although a create call may
\* take effect without an answer, and the worker may die before it commits the
\* id (the marker lookup of _upsert_github_issue_comment).
OneComment == Len(comments) <= 1

\* A provider comment is never overwritten with an older event than the one it
\* shows, in whatever order retries deliver them (result_version).
CommentNeverGoesBack ==
    [][\A c \in DOMAIN comments : comments'[c].version >= comments[c].version]_comments

\* When the slot is finalized, the comment shows how the execution ended: no
\* delayed notice or retried event covers the result.
FinalizedShowsOutcome ==
    slot.status = "finalized" => comments[slot.comment].text = run.exec

\* Once the run knows its session, no later failure, retry, crash or delivery
\* makes a worker start another one.
SessionNotRestarted ==
    [][job.agent = "started" /\ session # "running" => session' # "running"]_session

\* The placeholder is delivered in the end, however long the provider is away
\* and however often the delivery worker dies (process_next_delivery).
PlaceholderDelivered == <>(slot.comment # 0)

\* Once execution is over, the result event reaches the comment and finalizes
\* the slot.
ResultDelivered == run.exec \in ExecutionEnded ~> slot.status = "finalized"

\* Nothing is pending: no delivery waits or runs, and every worker is idle.
Quiet ==
    /\ \A i \in Ids : outbox[i].status \notin {"queued", "running"}
    /\ \A w \in DeliveryWorkers : dw[w].pc = "idle"
    /\ \A e \in ExecutionWorkers : ew[e].pc = "idle"

\* A terminal run has had its outcome written to its comment.
TerminalRunIsFinalized ==
    Quiet /\ run.status \in TerminalTexts => slot.status = "finalized"
=============================================================================
