----------------------- MODULE ReviewExecution_proofs -----------------------
(***************************************************************************)
(* Proofs about ReviewExecution, for any number of delivery workers,       *)
(* execution workers, deliveries and retries.                              *)
(***************************************************************************)
EXTENDS ReviewExecution, SequenceTheorems, TLAPS

-----------------------------------------------------------------------------
(* Types of the operators *)

\* The column a flush leaves behind is the stored one or the assigned one.
LEMMA FlushType ==
    ASSUME NEW S, NEW stored \in S, NEW loaded, NEW value \in S
    PROVE  Flush(stored, loaded, value) \in S
BY DEF Flush

LEMMA QueueType ==
    ASSUME NEW order, order \subseteq Ids \X Ids, NEW S \in SUBSET Ids,
           NEW i \in Ids
    PROVE  /\ JoinQueue(order, S) \subseteq Ids \X Ids
           /\ LeaveQueue(order, i) \subseteq Ids \X Ids
BY DEF JoinQueue, LeaveQueue, DueRows

LEMMA NewDeliveryType ==
    ASSUME NEW op \in Operations, NEW text \in Texts, NEW version \in Nat
    PROVE  NewDelivery(op, text, version) \in Delivery
BY BoundAssumption DEF NewDelivery, Delivery, DeliveryStatus

\* enqueue_delivery leaves a well-typed outbox.
LEMMA EnqueueDeliveryType ==
    ASSUME TypeOK, NEW d \in Delivery, EnqueueDelivery(d)
    PROVE  outbox' \in [Ids -> Delivery] /\ earlier' \subseteq Ids \X Ids
<1>1. CASE UNCHANGED <<outbox, earlier>>
  BY <1>1 DEF TypeOK
<1>2. CASE \E i \in Ids : /\ outbox' = [outbox EXCEPT ![i] = d]
                          /\ earlier' = JoinQueue(earlier, {i})
  <2>1. PICK i \in Ids : /\ outbox' = [outbox EXCEPT ![i] = d]
                         /\ earlier' = JoinQueue(earlier, {i})
    BY <1>2
  <2>2. earlier' \subseteq Ids \X Ids
    BY <2>1, QueueType, {i} \in SUBSET Ids DEF TypeOK
  <2> QED
    BY <2>1, <2>2 DEF TypeOK
<1> QED
  BY <1>1, <1>2 DEF EnqueueDelivery

\* enqueue_review_comment_status leaves well-typed rows, whatever run and slot
\* objects its caller has loaded.
LEMMA EnqueueStatusType ==
    ASSUME TypeOK, NEW text \in Texts, NEW loaded \in Run, NEW view \in Slot,
           EnqueueStatus(text, loaded, view)
    PROVE  /\ run' \in Run /\ slot' \in Slot
           /\ outbox' \in [Ids -> Delivery] /\ earlier' \subseteq Ids \X Ids
<1> DEFINE op == IF text \in TerminalTexts THEN "review_result"
                 ELSE "review_progress"
<1>1. run' \in Run
  <2>1. CASE text \in TerminalTexts
    <3>1. EndOfExecution(text) \in ExecutionStatus
      BY <2>1 DEF EndOfExecution, TerminalTexts, ExecutionStatus
    <3>2. Flush(run.exec, loaded.exec, EndOfExecution(text)) \in ExecutionStatus
      BY <3>1, FlushType DEF TypeOK, Run
    <3> QED
      BY <2>1, <3>2 DEF EnqueueStatus, Run, RunStatus
  <2>2. CASE text \notin TerminalTexts
    BY <2>2 DEF EnqueueStatus, TypeOK
  <2> QED
    BY <2>1, <2>2
<1>2. slot' \in Slot
  <2>1. slot \in Slot /\ view.version + 1 \in Nat
    BY DEF TypeOK, Slot
  <2>2. "finalizing" \in SlotStatus
    BY DEF SlotStatus
  <2> QED
    BY <2>1, <2>2 DEF EnqueueStatus, Slot
<1>3. NewDelivery(op, text, view.version + 1) \in Delivery
  <2>1. op \in Operations /\ view.version + 1 \in Nat
    BY DEF Operations, Slot
  <2> QED
    BY <2>1, NewDeliveryType
<1>4. EnqueueDelivery(NewDelivery(op, text, view.version + 1))
  BY DEF EnqueueStatus
<1> QED
  BY <1>1, <1>2, <1>3, <1>4, EnqueueDeliveryType

-----------------------------------------------------------------------------
(* Type correctness *)

LEMMA InitialTypes == Init => TypeOK
<1> SUFFICES ASSUME Init PROVE TypeOK
  OBVIOUS
<1>1. run \in Run /\ slot \in Slot
  BY DEF Init, DeliveryInit, Run, Slot, RunStatus, ExecutionStatus, SlotStatus
<1>2. outbox \in [Ids -> Delivery]
  <2>1. NewDelivery("review_placeholder", "reviewing", 0) \in Delivery
    BY NewDeliveryType DEF Operations, Texts
  <2>2. NoDelivery \in Delivery
    BY <2>1 DEF NoDelivery, Delivery, DeliveryStatus
  <2> QED
    BY <2>1, <2>2 DEF Init, DeliveryInit
<1>3. earlier \subseteq Ids \X Ids /\ comments \in Seq(Comment)
  BY DEF Init, DeliveryInit
<1>4. ref \in [comment : Nat, text : Texts]
  BY DEF Init, DeliveryInit, Texts
<1>5. dw \in [DeliveryWorkers -> Worker]
  <2>1. IdleWorker \in Worker
    BY BoundAssumption DEF IdleWorker, Worker, WorkerStep, Ids, RunStatus, SlotStatus
  <2> QED
    BY <2>1 DEF Init, DeliveryInit
<1>6. job \in Job /\ session \in SessionStatus
  BY ExecutionAssumption DEF Init, Job, AgentStage, SessionStatus
<1>7. ew \in [ExecutionWorkers -> ExecWorker]
  <2>1. IdleExec \in ExecWorker
    BY DEF IdleExec, ExecWorker, ExecStep, Run, RunStatus, ExecutionStatus,
           AgentStage, Slot, SlotStatus
  <2> QED
    BY <2>1 DEF Init
<1> QED
  BY <1>1, <1>2, <1>3, <1>4, <1>5, <1>6, <1>7 DEF TypeOK

LEMMA IdleTypes == IdleWorker \in Worker /\ IdleExec \in ExecWorker
<1>1. IdleWorker \in Worker
  BY BoundAssumption DEF IdleWorker, Worker, WorkerStep, Ids, RunStatus, SlotStatus
<1>2. IdleExec \in ExecWorker
  BY DEF IdleExec, ExecWorker, ExecStep, Run, RunStatus, ExecutionStatus,
         AgentStage, Slot, SlotStatus
<1> QED
  BY <1>1, <1>2

\* A result event carries a terminal text, which becomes the run's status.
ResultText ==
    \A i \in Ids : outbox[i].op = "review_result" => outbox[i].text \in TerminalTexts

\* What TypeOK says of the variables of CommentDelivery.
DeliveryTypes ==
    /\ run \in Run /\ slot \in Slot
    /\ outbox \in [Ids -> Delivery] /\ earlier \subseteq Ids \X Ids
    /\ ref \in [comment : Nat, text : Texts]
    /\ comments \in Seq(Comment)
    /\ dw \in [DeliveryWorkers -> Worker]

LEMMA ClaimTypes ==
    ASSUME TypeOK, NEW w \in DeliveryWorkers, ClaimNextDelivery(w)
    PROVE  DeliveryTypes'
<1>1. PICK expired \in SUBSET Leased, i \in Ids :
        /\ outbox' = [Reclaimed(expired) EXCEPT ![i] =
                        [@ EXCEPT !.status = "running", !.owner = w,
                                  !.attempt = NextAttempt(Reclaimed(expired)[i]),
                                  !.due = FALSE]]
        /\ earlier' = LeaveQueue(JoinQueue(earlier, expired), i)
        /\ dw' = [dw EXCEPT ![w] =
                    [IdleWorker EXCEPT
                       !.pc = "claimed", !.id = i,
                       !.attempt = NextAttempt(Reclaimed(expired)[i])]]
  BY DEF ClaimNextDelivery
<1>2. Reclaimed(expired) \in [Ids -> Delivery]
  BY DEF TypeOK, Reclaimed, Delivery, DeliveryStatus
<1>3. NextAttempt(Reclaimed(expired)[i]) \in 0..MaxAttempts
  BY <1>2, BoundAssumption DEF NextAttempt, Delivery
<1>4. outbox' \in [Ids -> Delivery]
  BY <1>1, <1>2, <1>3 DEF Delivery, DeliveryStatus
<1>5. earlier' \subseteq Ids \X Ids
  BY <1>1, QueueType DEF TypeOK, Leased
<1>6. dw' \in [DeliveryWorkers -> Worker]
  BY <1>1, <1>3, IdleTypes DEF TypeOK, Worker, WorkerStep
<1> QED
  BY <1>4, <1>5, <1>6 DEF ClaimNextDelivery, TypeOK, DeliveryTypes

LEMMA WrittenCommentsType ==
    ASSUME TypeOK, NEW w \in DeliveryWorkers
    PROVE  WrittenComments(w) \in Seq(Comment)
<1> DEFINE d == outbox[dw[w].id]
           c == [text |-> d.text, version |-> d.version]
           k == dw[w].comment
<1>1. d \in Delivery /\ k \in Nat
  BY DEF TypeOK, Worker
<1>2. c \in Comment /\ comments \in Seq(Comment)
  BY <1>1 DEF TypeOK, Comment, Delivery
<1>3. CASE k = 0
  BY <1>2, <1>3 DEF WrittenComments
<1>4. CASE k # 0 /\ k \in 1..Len(comments)
  BY <1>2, <1>4, ExceptSeq DEF WrittenComments
<1>5. CASE k # 0 /\ k \notin 1..Len(comments)
  <2>1. DOMAIN comments = 1..Len(comments)
    BY <1>2
  <2>2. [comments EXCEPT ![k] = c] = comments
    BY <1>2, <1>5, <2>1
  <2> QED
    BY <1>2, <1>5, <2>2 DEF WrittenComments
<1> QED
  BY <1>1, <1>3, <1>4, <1>5

\* Every step of a delivery worker keeps the types of the rows it writes and
\* of what it holds in memory.
LEMMA DeliveryStepTypes ==
    ASSUME TypeOK, ResultText, NEW w \in DeliveryWorkers, DeliveryStep(w)
    PROVE  DeliveryTypes'
<1> DEFINE i == dw[w].id
<1>0. /\ dw[w] \in Worker /\ i \in Ids /\ outbox[i] \in Delivery
      /\ IdleWorker \in Worker
  BY IdleTypes DEF TypeOK, Worker
<1>1. CASE ClaimNextDelivery(w)
  BY <1>1, ClaimTypes
<1>2. CASE ExecuteDelivery(w)
  <2>1. ExecuteStep(outbox[i], slot) \in WorkerStep
    BY DEF ExecuteStep, WorkerStep
  <2> DEFINE r == [dw[w] EXCEPT
                     !.pc = ExecuteStep(outbox[i], slot),
                     !.run = IF outbox[i].op = "review_line_comments"
                             THEN run.status ELSE dw[w].run,
                     !.slotStatus = slot.status, !.slotComment = slot.comment,
                     !.known = ref.comment,
                     !.comment = IF ExecuteStep(outbox[i], slot) = "finish"
                                 THEN slot.comment ELSE 0]
  <2>a. /\ run.status \in RunStatus /\ slot.status \in SlotStatus
        /\ slot.comment \in Nat /\ ref.comment \in Nat
    BY DEF TypeOK, Run, Slot
  <2>b. r \in Worker
    BY <1>0, <2>1, <2>a DEF Worker
  <2>2. dw' \in [DeliveryWorkers -> Worker]
    BY <1>2, <2>b DEF ExecuteDelivery, TypeOK
  <2> QED
    BY <1>2, <2>2 DEF ExecuteDelivery, TypeOK, DeliveryTypes
<1>3. CASE PublishUnchanged(w)
  <2>1. dw' \in [DeliveryWorkers -> Worker]
    BY <1>0, <1>3 DEF PublishUnchanged, TypeOK, Worker, WorkerStep
  <2> QED
    BY <1>3, <2>1 DEF PublishUnchanged, TypeOK, DeliveryTypes
<1>4. CASE FindComment(w)
  <2>1. dw' \in [DeliveryWorkers -> Worker]
    BY <1>0, <1>4 DEF FindComment, TypeOK, Worker, WorkerStep
  <2> QED
    BY <1>4, <2>1 DEF FindComment, TypeOK, DeliveryTypes
<1>5. CASE WriteComment(w)
  <2>1. Len(comments) + 1 \in Nat
    BY DEF TypeOK
  <2> DEFINE r == [dw[w] EXCEPT
                     !.pc = "bind",
                     !.comment = IF dw[w].comment = 0
                                 THEN Len(comments) + 1 ELSE dw[w].comment]
  <2>a. r \in Worker
    BY <1>0, <2>1 DEF Worker, WorkerStep
  <2>2. dw' \in [DeliveryWorkers -> Worker]
    BY <1>5, <2>a DEF WriteComment, TypeOK
  <2>3. comments' \in Seq(Comment)
    BY <1>5, WrittenCommentsType DEF WriteComment
  <2> QED
    BY <1>5, <2>2, <2>3 DEF WriteComment, TypeOK, DeliveryTypes
<1>6. CASE BindComment(w)
  <2>1. ref' \in [comment : Nat, text : Texts]
    BY <1>0, <1>6 DEF BindComment, Worker, Delivery
  <2>2. slot' \in Slot
    BY <1>0, <1>6, FlushType DEF BindComment, TypeOK, Slot, Worker
  <2>3. dw' \in [DeliveryWorkers -> Worker]
    BY <1>0, <1>6 DEF BindComment, TypeOK, Worker, WorkerStep
  <2> QED
    BY <1>6, <2>1, <2>2, <2>3 DEF BindComment, TypeOK, DeliveryTypes
<1>7. CASE PublishLineComments(w)
  <2>1. dw' \in [DeliveryWorkers -> Worker]
    BY <1>0, <1>7 DEF PublishLineComments, TypeOK, Worker, WorkerStep
  <2> QED
    BY <1>7, <2>1 DEF PublishLineComments, TypeOK, DeliveryTypes
<1>8. CASE ProviderFails(w)
  <2>1. comments' \in Seq(Comment)
    BY <1>8, WrittenCommentsType DEF ProviderFails, TypeOK
  <2>2. dw' \in [DeliveryWorkers -> Worker]
    BY <1>0, <1>8 DEF ProviderFails, TypeOK, Worker, WorkerStep
  <2> QED
    BY <1>8, <2>1, <2>2 DEF ProviderFails, TypeOK, DeliveryTypes
<1>9. CASE FinishDelivery(w)
  <2>1. dw' \in [DeliveryWorkers -> Worker]
    BY <1>0, <1>9 DEF FinishDelivery, TypeOK
  <2>2. outbox' \in [Ids -> Delivery]
    <3>1. [outbox[i] EXCEPT !.status = "delivered", !.owner = NoOwner] \in Delivery
      BY <1>0 DEF Delivery, DeliveryStatus
    <3> QED
      BY <1>0, <1>9, <3>1 DEF FinishDelivery, TypeOK
  <2>3. slot' \in Slot
    <3>1. SlotAfterSuccess(outbox[i], dw[w].comment) \in Slot
      <4>1. slot \in Slot /\ dw[w].comment \in Nat
        BY <1>0 DEF TypeOK, Worker
      <4>2. {"ready", "finalized"} \subseteq SlotStatus
        BY DEF SlotStatus
      <4> QED
        BY <4>1, <4>2 DEF SlotAfterSuccess, Slot
    <3> QED
      BY <1>9, <3>1 DEF FinishDelivery, TypeOK
  <2>4. run' \in Run
    <3>1. StatusAfterSuccess(i) \in RunStatus
      <4>1. run.status \in RunStatus /\ "queued" \in RunStatus
        BY DEF TypeOK, Run, RunStatus
      <4>2. FinalStatus(outbox[i]) # "none" => FinalStatus(outbox[i]) \in RunStatus
        BY <1>0 DEF FinalStatus, RunStatus, TerminalTexts, ResultText
      <4> QED
        BY <4>1, <4>2 DEF StatusAfterSuccess
    <3> QED
      BY <1>9, <3>1 DEF FinishDelivery, TypeOK, Run
  <2> QED
    BY <1>9, <2>1, <2>2, <2>3, <2>4 DEF FinishDelivery, TypeOK, DeliveryTypes
<1>10. CASE RecordDeliveryFailure(w)
  <2>1. dw' \in [DeliveryWorkers -> Worker]
    BY <1>0, <1>10 DEF RecordDeliveryFailure, TypeOK
  <2>2. outbox' \in [Ids -> Delivery] /\ earlier' \subseteq Ids \X Ids
    <3>1. outbox' \in [Ids -> Delivery]
      BY <1>0, <1>10 DEF RecordDeliveryFailure, TypeOK, Delivery, DeliveryStatus
    <3>2. LeaveQueue(earlier, i) \subseteq Ids \X Ids
      BY DEF LeaveQueue, TypeOK
    <3> QED
      BY <1>10, <3>1, <3>2 DEF RecordDeliveryFailure
  <2>3. slot' \in Slot
    <3>1. SlotStatusAfterFailure(w) \in SlotStatus
      <4>1. slot.status \in SlotStatus /\ {"retry_wait", "finalizing"} \subseteq SlotStatus
        BY DEF TypeOK, Slot, SlotStatus
      <4> QED
        BY <4>1 DEF SlotStatusAfterFailure, Flush
    <3> QED
      BY <1>10, <3>1 DEF RecordDeliveryFailure, TypeOK, Slot
  <2>4. run' \in Run
    <3>1. Flush(run.status, dw[w].run, "failed") \in RunStatus
      <4>1. run.status \in RunStatus /\ "failed" \in RunStatus
        BY DEF TypeOK, Run, RunStatus, TerminalTexts
      <4> QED
        BY <4>1 DEF Flush
    <3> QED
      BY <1>10, <3>1 DEF RecordDeliveryFailure, TypeOK, Run
  <2> QED
    BY <1>10, <2>1, <2>2, <2>3, <2>4 DEF RecordDeliveryFailure, TypeOK, DeliveryTypes
<1>11. CASE CrashDelivery(w)
  BY <1>0, <1>11 DEF CrashDelivery, TypeOK, DeliveryTypes
<1> QED
  BY <1>1, <1>2, <1>3, <1>4, <1>5, <1>6, <1>7, <1>8, <1>9, <1>10, <1>11
  DEF DeliveryStep

\* The service calls of the API and the passing of a backoff.
LEMMA ApiTypes ==
    ASSUME TypeOK, ApiStep \/ \E i \in Ids : BackoffElapses(i)
    PROVE  DeliveryTypes'
<1>1. CASE CancelReviewRun \/ SupersedeReviewRun
  <2>1. PICK text \in {"cancelled", "superseded"} : EnqueueStatus(text, run, slot)
    BY <1>1 DEF CancelReviewRun, SupersedeReviewRun
  <2>2. text \in Texts /\ run \in Run /\ slot \in Slot
    BY DEF Texts, TerminalTexts, TypeOK
  <2>3. /\ run' \in Run /\ slot' \in Slot
        /\ outbox' \in [Ids -> Delivery] /\ earlier' \subseteq Ids \X Ids
    BY <2>1, <2>2, EnqueueStatusType
  <2> QED
    BY <1>1, <2>3 DEF CancelReviewRun, SupersedeReviewRun, TypeOK, DeliveryTypes
<1>2. CASE \E i \in Ids : RescheduleFailedDelivery(i) \/ BackoffElapses(i)
  <2>1. PICK i \in Ids : RescheduleFailedDelivery(i) \/ BackoffElapses(i)
    BY <1>2
  <2>2. outbox' \in [Ids -> Delivery]
    <3>1. /\ outbox[i] \in Delivery
          /\ [outbox[i] EXCEPT !.status = "queued", !.due = TRUE] \in Delivery
          /\ [outbox[i] EXCEPT !.due = TRUE] \in Delivery
      BY DEF TypeOK, Delivery, DeliveryStatus
    <3> QED
      BY <2>1, <3>1 DEF RescheduleFailedDelivery, BackoffElapses, TypeOK
  <2>3. JoinQueue(earlier, {i}) \subseteq Ids \X Ids
    BY QueueType, {i} \in SUBSET Ids DEF TypeOK
  <2> QED
    BY <2>1, <2>2, <2>3 DEF RescheduleFailedDelivery, BackoffElapses, TypeOK,
                            DeliveryTypes
<1> QED
  BY <1>1, <1>2 DEF ApiStep

-----------------------------------------------------------------------------

\* The parts of the type invariant an execution worker can disturb.
ExecutionTypes ==
    /\ run \in Run /\ slot \in Slot
    /\ outbox \in [Ids -> Delivery] /\ earlier \subseteq Ids \X Ids
    /\ job \in Job /\ session \in SessionStatus
    /\ ew \in [ExecutionWorkers -> ExecWorker]

LEMMA SetStatusType ==
    ASSUME TypeOK, NEW e \in ExecutionWorkers, NEW status \in RunStatus,
           SetStatus(e, status)
    PROVE  run' \in Run
<1>1. Flush(run.status, ew[e].run.status, status) \in RunStatus
  BY DEF Flush, TypeOK, Run
<1> QED
  BY <1>1 DEF SetStatus, TypeOK, Run

LEMMA GoOnType ==
    ASSUME TypeOK, NEW e \in ExecutionWorkers, NEW pc \in ExecStep, GoOn(e, pc)
    PROVE  ew' \in [ExecutionWorkers -> ExecWorker]
<1>1. ew[e] \in ExecWorker /\ IdleExec \in ExecWorker
  BY IdleTypes DEF TypeOK
<1>2. [ew[e] EXCEPT !.pc = pc] \in ExecWorker
  BY <1>1 DEF ExecWorker
<1> QED
  BY <1>1, <1>2 DEF GoOn, TypeOK

LEMMA ProceedType ==
    ASSUME TypeOK, NEW e \in ExecutionWorkers, NEW pc \in ExecStep,
           run' \in Run, job' \in Job, Proceed(e, pc)
    PROVE  ew' \in [ExecutionWorkers -> ExecWorker]
<1>1. ew[e] \in ExecWorker /\ IdleExec \in ExecWorker
  BY IdleTypes DEF TypeOK
<1>2. [ew[e] EXCEPT !.pc = pc, !.run = run', !.agent = job'.agent] \in ExecWorker
  BY <1>1 DEF ExecWorker, Job
<1> QED
  BY <1>1, <1>2 DEF Proceed, TypeOK

LEMMA ReviewStepTypes ==
    ASSUME TypeOK, NEW e \in ExecutionWorkers, ReviewStep(e)
    PROVE  ExecutionTypes'
<1>0. /\ ew[e] \in ExecWorker /\ ew[e].run \in Run /\ ew[e].slot \in Slot
      /\ IdleExec \in ExecWorker
  BY IdleTypes DEF TypeOK, ExecWorker
<1>a. {"running", "failed", "cancelled"} \subseteq RunStatus
  BY DEF RunStatus, TerminalTexts
<1>b. /\ {"idle", "gate", "prepare", "start", "sync", "failed", "publish",
          "collect", "lines"} \subseteq ExecStep
  BY DEF ExecStep
<1> USE DEF outboxVars
<1>1. CASE ClaimReview(e)
  <2>1. run' \in Run
    BY <1>1 DEF ClaimReview, TypeOK, Run, RunStatus, ExecutionStatus
  <2>2. ew' \in [ExecutionWorkers -> ExecWorker]
    BY <1>1, <1>b, <2>1, ProceedType DEF ClaimReview, TypeOK
  <2> QED
    BY <1>1, <2>1, <2>2 DEF ClaimReview, TypeOK, ExecutionTypes
<1>2. CASE CheckSlot(e)
  <2>1. [ew[e] EXCEPT !.pc = "prepare", !.slot = slot] \in ExecWorker
    BY <1>0, <1>b DEF ExecWorker, TypeOK
  <2>2. slot' \in Slot
    BY <1>2 DEF CheckSlot, TypeOK, Slot, SlotStatus
  <2>3. ew' \in [ExecutionWorkers -> ExecWorker]
    BY <1>0, <1>2, <2>1 DEF CheckSlot, TypeOK
  <2> QED
    BY <1>2, <2>2, <2>3 DEF CheckSlot, TypeOK, ExecutionTypes
<1>3. CASE PrepareWorkspace(e)
  <2>1. job' \in Job
    BY <1>3 DEF PrepareWorkspace, TypeOK, Job, AgentStage
  <2>2. ew' \in [ExecutionWorkers -> ExecWorker]
    BY <1>3, <1>b, <2>1, ProceedType DEF PrepareWorkspace, TypeOK
  <2> QED
    BY <1>3, <2>1, <2>2 DEF PrepareWorkspace, TypeOK, ExecutionTypes
<1>4. CASE ResumeRun(e)
  <2>1. ew' \in [ExecutionWorkers -> ExecWorker]
    BY <1>4, <1>b, GoOnType DEF ResumeRun
  <2> QED
    BY <1>4, <2>1 DEF ResumeRun, TypeOK, ExecutionTypes
<1>5. CASE PrepareFails(e) \/ StartRejected(e)
  <2>1. run' \in Run
    BY <1>5, <1>a, SetStatusType DEF PrepareFails, StartRejected
  <2>2. ew' \in [ExecutionWorkers -> ExecWorker]
    BY <1>5, <1>b, <2>1, ProceedType DEF PrepareFails, StartRejected, TypeOK
  <2> QED
    BY <1>5, <2>1, <2>2 DEF PrepareFails, StartRejected, TypeOK, ExecutionTypes
<1>6. CASE StartSession(e)
  <2>1. run' \in Run /\ job' \in Job /\ session' \in SessionStatus
    BY <1>6, <1>a, SetStatusType
    DEF StartSession, TypeOK, Job, AgentStage, SessionStatus
  <2>2. AfterStart(run'.status) \in ExecStep
    BY <1>b DEF AfterStart
  <2>3. ew' \in [ExecutionWorkers -> ExecWorker]
    BY <1>6, <2>1, <2>2, ProceedType DEF StartSession
  <2> QED
    BY <1>6, <2>1, <2>3 DEF StartSession, TypeOK, ExecutionTypes
<1>7. CASE \E infra \in BOOLEAN : StartFails(e, infra)
  <2>1. PICK infra \in BOOLEAN : StartFails(e, infra)
    BY <1>7
  <2>2. run' \in Run /\ session' \in SessionStatus
    BY <2>1, <1>a, SetStatusType DEF StartFails, TypeOK, SessionStatus
  <2>3. [ew[e] EXCEPT !.pc = AfterStart(run'.status), !.run = run', !.infra = infra]
          \in ExecWorker
    BY <1>0, <1>b, <2>2 DEF AfterStart, ExecWorker
  <2>4. ew' \in [ExecutionWorkers -> ExecWorker]
    BY <2>1, <2>3 DEF StartFails, TypeOK
  <2> QED
    BY <2>1, <2>2, <2>4 DEF StartFails, TypeOK, ExecutionTypes
<1>8. CASE SyncSession(e)
  <2>1. PICK answer : SetStatus(e, SyncedStatus(answer)) /\
          LET pc == AfterSync(run'.status, answer) IN
          ew' = [ew EXCEPT ![e] =
                   IF pc = "idle" THEN IdleExec
                   ELSE [@ EXCEPT !.pc = pc, !.run = run',
                                  !.infra = (answer = "infra")]]
    BY <1>8 DEF SyncSession
  <2> DEFINE pc == AfterSync(run'.status, answer)
  <2>2. SyncedStatus(answer) \in RunStatus /\ pc \in ExecStep
    BY <1>a, <1>b DEF SyncedStatus, AfterSync
  <2>3. run' \in Run
    BY <2>1, <2>2, SetStatusType
  <2>4. [ew[e] EXCEPT !.pc = pc, !.run = run', !.infra = (answer = "infra")]
          \in ExecWorker
    BY <1>0, <2>2, <2>3 DEF ExecWorker
  <2>5. ew' \in [ExecutionWorkers -> ExecWorker]
    BY <1>0, <2>1, <2>4 DEF TypeOK
  <2> QED
    BY <1>8, <2>3, <2>5 DEF SyncSession, TypeOK, ExecutionTypes
<1>9. CASE SyncSkipped(e) \/ GiveUp(e)
  <2>1. AfterSync(ew[e].run.status, "none") \in ExecStep
    BY <1>b DEF AfterSync
  <2>2. ew' \in [ExecutionWorkers -> ExecWorker]
    BY <1>9, <1>b, <2>1, GoOnType DEF SyncSkipped, GiveUp
  <2> QED
    BY <1>9, <2>2 DEF SyncSkipped, GiveUp, TypeOK, ExecutionTypes
<1>10. CASE RetryAgent(e)
  <2>1. job' \in Job
    BY <1>10, ExecutionAssumption DEF RetryAgent, TypeOK, Job
  <2>2. run' \in Run
    BY <1>10, <1>a, SetStatusType DEF RetryAgent
  <2>3. ew' \in [ExecutionWorkers -> ExecWorker]
    BY <1>10, <1>b, GoOnType DEF RetryAgent
  <2> QED
    BY <1>10, <2>1, <2>2, <2>3 DEF RetryAgent, TypeOK, ExecutionTypes
<1>11. CASE PublishFailure(e)
  <2>1. /\ run' \in Run /\ slot' \in Slot
        /\ outbox' \in [Ids -> Delivery] /\ earlier' \subseteq Ids \X Ids
    BY <1>0, <1>11, EnqueueStatusType DEF PublishFailure, Texts, TerminalTexts
  <2>2. ew' \in [ExecutionWorkers -> ExecWorker]
    BY <1>11, <1>b, GoOnType DEF PublishFailure
  <2> QED
    BY <1>11, <2>1, <2>2 DEF PublishFailure, TypeOK, ExecutionTypes
<1>12. CASE CollectResult(e)
  <2>1. PICK text \in {"completed", "failed"} :
          /\ EnqueueStatus(text, ew[e].run, ew[e].slot)
          /\ Proceed(e, IF text = "completed" /\ LineComments THEN "lines"
                        ELSE "idle")
    BY <1>12 DEF CollectResult
  <2>2. /\ run' \in Run /\ slot' \in Slot
        /\ outbox' \in [Ids -> Delivery] /\ earlier' \subseteq Ids \X Ids
    BY <1>0, <2>1, EnqueueStatusType DEF Texts, TerminalTexts
  <2>3. ew' \in [ExecutionWorkers -> ExecWorker]
    BY <1>12, <1>b, <2>1, <2>2, ProceedType DEF CollectResult, TypeOK
  <2> QED
    BY <1>12, <2>2, <2>3 DEF CollectResult, TypeOK, ExecutionTypes
<1>13. CASE CollectRaises(e)
  <2>1. run' \in Run
    BY <1>13, <1>a DEF CollectRaises, TypeOK, Run
  <2>2. ew' \in [ExecutionWorkers -> ExecWorker]
    BY <1>13, <1>b, <2>1, ProceedType DEF CollectRaises, TypeOK
  <2> QED
    BY <1>13, <2>1, <2>2 DEF CollectRaises, TypeOK, ExecutionTypes
<1>14. CASE EnqueueLineComments(e)
  <2>1. NewDelivery("review_line_comments", "completed", 0) \in Delivery
    BY NewDeliveryType DEF Operations, Texts, TerminalTexts
  <2>2. outbox' \in [Ids -> Delivery] /\ earlier' \subseteq Ids \X Ids
    BY <1>14, <2>1, EnqueueDeliveryType DEF EnqueueLineComments
  <2>3. ew' \in [ExecutionWorkers -> ExecWorker]
    BY <1>14, <1>b, GoOnType DEF EnqueueLineComments
  <2> QED
    BY <1>14, <2>2, <2>3 DEF EnqueueLineComments, TypeOK, ExecutionTypes
<1> QED
  BY <1>1, <1>2, <1>3, <1>4, <1>5, <1>6, <1>7, <1>8, <1>9, <1>10, <1>11, <1>12,
     <1>13, <1>14 DEF ReviewStep

LEMMA SweepStepTypes ==
    ASSUME TypeOK, NEW e \in ExecutionWorkers, SweepStep(e) \/ CrashExecution(e)
    PROVE  ExecutionTypes'
<1>0. /\ ew[e] \in ExecWorker /\ ew[e].run \in Run /\ slot \in Slot
      /\ IdleExec \in ExecWorker
  BY IdleTypes DEF TypeOK, ExecWorker
<1>a. "failed" \in RunStatus
  BY DEF RunStatus, TerminalTexts
<1>b. {"idle", "sweep", "softTimeout", "hardTimeout", "hardPublish"} \subseteq ExecStep
  BY DEF ExecStep
<1> USE DEF outboxVars
<1>1. CASE SelectActive(e) \/ CancelAgentFails(e)
  <2>1. ew' \in [ExecutionWorkers -> ExecWorker]
    BY <1>1, <1>b, ProceedType DEF SelectActive, CancelAgentFails, TypeOK
  <2> QED
    BY <1>1, <2>1 DEF SelectActive, CancelAgentFails, TypeOK, ExecutionTypes
<1>2. CASE EmitSoftTimeout(e)
  <2>1. ew' \in [ExecutionWorkers -> ExecWorker]
    BY <1>2, <1>b, GoOnType DEF EmitSoftTimeout
  <2>2. job' \in Job
    BY <1>2 DEF EmitSoftTimeout, TypeOK, Job
  <2> QED
    BY <1>2, <2>1, <2>2 DEF EmitSoftTimeout, TypeOK, ExecutionTypes
<1>3. CASE PublishDelayed(e) \/ PublishTimeout(e)
  <2>1. PICK text \in {"delayed", "failed"} : EnqueueStatus(text, ew[e].run, slot)
    BY <1>3 DEF PublishDelayed, PublishTimeout
  <2>2. /\ run' \in Run /\ slot' \in Slot
        /\ outbox' \in [Ids -> Delivery] /\ earlier' \subseteq Ids \X Ids
    BY <1>0, <2>1, EnqueueStatusType DEF Texts, TerminalTexts
  <2>3. ew' \in [ExecutionWorkers -> ExecWorker]
    BY <1>3, <1>b, GoOnType DEF PublishDelayed, PublishTimeout
  <2> QED
    BY <1>3, <2>2, <2>3 DEF PublishDelayed, PublishTimeout, TypeOK, ExecutionTypes
<1>4. CASE EmitHardTimeout(e)
  <2>1. run' \in Run
    BY <1>4, <1>a, SetStatusType DEF EmitHardTimeout
  <2>2. job' \in Job
    BY <1>4 DEF EmitHardTimeout, TypeOK, Job
  <2>3. [ew[e].run EXCEPT !.status = "failed"] \in Run
    BY <1>0, <1>a DEF Run
  <2>4. [ew[e] EXCEPT !.pc = "hardTimeout", !.run = [@ EXCEPT !.status = "failed"]]
          \in ExecWorker
    BY <1>0, <1>b, <2>3 DEF ExecWorker
  <2>5. ew' \in [ExecutionWorkers -> ExecWorker]
    BY <1>4, <2>4 DEF EmitHardTimeout, TypeOK
  <2> QED
    BY <1>4, <2>1, <2>2, <2>5 DEF EmitHardTimeout, TypeOK, ExecutionTypes
<1>5. CASE CancelAgent(e)
  <2>1. session' \in SessionStatus
    BY <1>5 DEF CancelAgent, TypeOK, SessionStatus
  <2>2. ew' \in [ExecutionWorkers -> ExecWorker]
    BY <1>5, <1>b, GoOnType DEF CancelAgent
  <2> QED
    BY <1>5, <2>1, <2>2 DEF CancelAgent, TypeOK, ExecutionTypes
<1>6. CASE EndSweep(e)
  <2>1. ew' \in [ExecutionWorkers -> ExecWorker]
    BY <1>6, <1>b, GoOnType DEF EndSweep
  <2> QED
    BY <1>6, <2>1 DEF EndSweep, TypeOK, ExecutionTypes
<1>7. CASE CrashExecution(e)
  <2>1. session' \in SessionStatus
    BY <1>7 DEF CrashExecution, TypeOK, SessionStatus
  <2>2. ew' \in [ExecutionWorkers -> ExecWorker]
    BY <1>7, <1>b, GoOnType DEF CrashExecution
  <2> QED
    BY <1>7, <2>1, <2>2 DEF CrashExecution, TypeOK, ExecutionTypes
<1> QED
  BY <1>1, <1>2, <1>3, <1>4, <1>5, <1>6, <1>7 DEF SweepStep

-----------------------------------------------------------------------------
(* Rows of the outbox *)

\* A row that exists keeps its event, and is never removed.
RowsKept ==
    \A i \in Ids : outbox[i].status # "absent" =>
        /\ outbox'[i].status # "absent"
        /\ outbox'[i].op = outbox[i].op
        /\ outbox'[i].text = outbox[i].text

LEMMA EnqueueKeepsRows ==
    ASSUME TypeOK, ResultText, NEW op, NEW text, NEW version,
           op = "review_result" => text \in TerminalTexts,
           EnqueueDelivery(NewDelivery(op, text, version))
    PROVE  RowsKept /\ ResultText'
<1> DEFINE d == NewDelivery(op, text, version)
<1>0. d.op = op /\ d.text = text /\ d.status # "absent"
  BY DEF NewDelivery
<1>1. CASE UNCHANGED outbox
  BY <1>1 DEF RowsKept, ResultText
<1>2. CASE \E i \in Ids : FreeId(i) /\ outbox' = [outbox EXCEPT ![i] = d]
  <2>1. PICK i \in Ids : outbox[i].status = "absent" /\ outbox' = [outbox EXCEPT ![i] = d]
    BY <1>2 DEF FreeId
  <2> HIDE DEF d
  <2> QED
    BY <1>0, <2>1 DEF RowsKept, ResultText, TypeOK
<1> QED
  BY <1>1, <1>2 DEF EnqueueDelivery

LEMMA EnqueueStatusKeepsRows ==
    ASSUME TypeOK, ResultText, NEW text, NEW loaded, NEW view,
           EnqueueStatus(text, loaded, view)
    PROVE  RowsKept /\ ResultText'
<1> DEFINE op == IF text \in TerminalTexts THEN "review_result"
                 ELSE "review_progress"
<1>1. EnqueueDelivery(NewDelivery(op, text, view.version + 1))
  BY DEF EnqueueStatus
<1>2. op = "review_result" => text \in TerminalTexts
  OBVIOUS
<1> HIDE DEF op
<1> QED
  BY <1>1, <1>2, EnqueueKeepsRows

LEMMA DeliveryKeepsRows ==
    ASSUME TypeOK, ResultText, NEW w \in DeliveryWorkers, DeliveryStep(w)
    PROVE  RowsKept /\ ResultText'
<1>1. CASE UNCHANGED outbox
  BY <1>1 DEF RowsKept, ResultText
<1>2. CASE ClaimNextDelivery(w)
  <2>1. PICK expired \in SUBSET Leased, i \in Ids :
          /\ IsNextDelivery(Reclaimed(expired), JoinQueue(earlier, expired), i)
          /\ outbox' = [Reclaimed(expired) EXCEPT ![i] =
                          [@ EXCEPT !.status = "running", !.owner = w,
                                    !.attempt = NextAttempt(Reclaimed(expired)[i]),
                                    !.due = FALSE]]
    BY <1>2 DEF ClaimNextDelivery
  <2>2. \A j \in Ids : /\ outbox[j].status # "absent" =>
                              Reclaimed(expired)[j].status # "absent"
                       /\ Reclaimed(expired)[j].op = outbox[j].op
                       /\ Reclaimed(expired)[j].text = outbox[j].text
                       /\ Reclaimed(expired)[j] \in Delivery
    BY DEF Reclaimed, TypeOK, Delivery, DeliveryStatus
  <2>3. \A j \in Ids : /\ Reclaimed(expired)[j].status # "absent" =>
                              outbox'[j].status # "absent"
                       /\ outbox'[j].op = Reclaimed(expired)[j].op
                       /\ outbox'[j].text = Reclaimed(expired)[j].text
    <3>1. Reclaimed(expired) = [j \in Ids |-> Reclaimed(expired)[j]]
      BY DEF Reclaimed
    <3> QED
      BY <2>1, <2>2, <3>1 DEF Delivery
  <2> QED
    BY <2>2, <2>3 DEF RowsKept, ResultText
<1>3. CASE FinishDelivery(w) \/ RecordDeliveryFailure(w)
  <2> DEFINE i == dw[w].id
  <2>1. i \in Ids /\ outbox[i] \in Delivery
    BY DEF TypeOK, Worker
  <2>2. \/ UNCHANGED outbox
        \/ \E d \in Delivery : /\ outbox' = [outbox EXCEPT ![i] = d]
                               /\ d.status # "absent"
                               /\ d.op = outbox[i].op /\ d.text = outbox[i].text
    <3>1. CASE FinishDelivery(w)
      <4>1. [outbox[i] EXCEPT !.status = "delivered", !.owner = NoOwner] \in Delivery
        BY <2>1 DEF Delivery, DeliveryStatus
      <4> QED
        BY <2>1, <3>1, <4>1 DEF FinishDelivery, Delivery
    <3>2. CASE RecordDeliveryFailure(w)
      <4> DEFINE st == IF Exhausted(w) THEN "failed" ELSE "queued"
      <4>1. [outbox[i] EXCEPT !.status = st, !.owner = NoOwner, !.due = FALSE] \in Delivery
        BY <2>1 DEF Delivery, DeliveryStatus
      <4> QED
        BY <2>1, <3>2, <4>1 DEF RecordDeliveryFailure, Delivery
    <3> QED
      BY <1>3, <3>1, <3>2
  <2> QED
    BY <2>1, <2>2 DEF RowsKept, ResultText, TypeOK
<1> QED
  BY <1>1, <1>2, <1>3 DEF DeliveryStep, ExecuteDelivery, PublishUnchanged,
     FindComment, WriteComment, BindComment, PublishLineComments, ProviderFails,
     CrashDelivery

\* An event once written to the outbox stays there as it was written.
LEMMA StepKeepsRows ==
    ASSUME TypeOK, ResultText, [Next]_vars
    PROVE  RowsKept /\ ResultText'
<1>1. CASE UNCHANGED outbox
  BY <1>1 DEF RowsKept, ResultText
<1>2. CASE \E w \in DeliveryWorkers : DeliveryStep(w)
  BY <1>2, DeliveryKeepsRows
<1>3. CASE ApiStep \/ \E i \in Ids : BackoffElapses(i)
  <2>1. CASE CancelReviewRun \/ SupersedeReviewRun
    BY <2>1, EnqueueStatusKeepsRows DEF CancelReviewRun, SupersedeReviewRun
  <2>2. CASE \E i \in Ids : RescheduleFailedDelivery(i) \/ BackoffElapses(i)
    <3>1. PICK i \in Ids : RescheduleFailedDelivery(i) \/ BackoffElapses(i)
      BY <2>2
    <3>2. outbox[i] \in Delivery
      BY DEF TypeOK
    <3>3. /\ \A j \in Ids \ {i} : outbox'[j] = outbox[j]
          /\ outbox'[i].op = outbox[i].op /\ outbox'[i].text = outbox[i].text
          /\ outbox'[i].status # "absent"
      <4>1. CASE RescheduleFailedDelivery(i)
        BY <3>2, <4>1 DEF RescheduleFailedDelivery, TypeOK, Delivery
      <4>2. CASE BackoffElapses(i)
        BY <3>2, <4>2 DEF BackoffElapses, TypeOK, Delivery
      <4> QED
        BY <3>1, <4>1, <4>2
    <3> QED
      BY <3>3 DEF RowsKept, ResultText
  <2> QED
    BY <1>3, <2>1, <2>2 DEF ApiStep
<1>4. CASE \E e \in ExecutionWorkers :
             \/ PublishFailure(e) \/ CollectResult(e)
             \/ PublishDelayed(e) \/ PublishTimeout(e)
  BY <1>4, EnqueueStatusKeepsRows
  DEF PublishFailure, CollectResult, PublishDelayed, PublishTimeout
<1>5. CASE \E e \in ExecutionWorkers : EnqueueLineComments(e)
  BY <1>5, EnqueueKeepsRows DEF EnqueueLineComments
<1> QED
  BY <1>1, <1>2, <1>3, <1>4, <1>5
  DEF Next, vars, ReviewStep, SweepStep, ClaimReview, CheckSlot,
      PrepareWorkspace, ResumeRun, PrepareFails, StartSession, StartFails,
      StartRejected, SyncSession, SyncSkipped, RetryAgent, GiveUp, CollectRaises,
      SelectActive, EmitSoftTimeout, EmitHardTimeout, CancelAgent,
      CancelAgentFails, EndSweep, CrashExecution, SessionEnds, outboxVars

-----------------------------------------------------------------------------

\* Every step of the system keeps the types.
LEMMA NextTypes ==
    ASSUME TypeOK, ResultText, [Next]_vars
    PROVE  TypeOK'
<1>1. CASE (\E w \in DeliveryWorkers : DeliveryStep(w)) /\ UNCHANGED executionVars
  BY <1>1, DeliveryStepTypes DEF TypeOK, DeliveryTypes, executionVars
<1>2. CASE (ApiStep \/ \E i \in Ids : BackoffElapses(i)) /\ UNCHANGED executionVars
  BY <1>2, ApiTypes DEF TypeOK, DeliveryTypes, executionVars
<1>3. CASE \E e \in ExecutionWorkers : ReviewStep(e) \/ SweepStep(e) \/ CrashExecution(e)
  <2>1. PICK e \in ExecutionWorkers : ReviewStep(e) \/ SweepStep(e) \/ CrashExecution(e)
    BY <1>3
  <2>2. ExecutionTypes'
    BY <2>1, ReviewStepTypes, SweepStepTypes
  <2>3. UNCHANGED <<ref, comments, dw>>
    BY <2>1 DEF ReviewStep, SweepStep, ClaimReview, CheckSlot,
      PrepareWorkspace, ResumeRun, PrepareFails, StartSession, StartFails,
      StartRejected, SyncSession, SyncSkipped, RetryAgent, GiveUp, CollectRaises,
      PublishFailure, CollectResult, EnqueueLineComments, PublishDelayed,
      PublishTimeout, SelectActive, EmitSoftTimeout, EmitHardTimeout, CancelAgent,
      CancelAgentFails, EndSweep, CrashExecution, outboxVars
  <2> QED
    BY <2>2, <2>3 DEF TypeOK, ExecutionTypes
<1>4. CASE SessionEnds
  BY <1>4 DEF SessionEnds, TypeOK, SessionStatus, outboxVars
<1>5. CASE UNCHANGED vars
  BY <1>5 DEF vars, TypeOK
<1> QED
  BY <1>1, <1>2, <1>3, <1>4, <1>5 DEF Next

\* Type correctness of the whole system: every row, every object a worker has
\* loaded and the provider's comments keep their types, and the retry and
\* attempt counters stay within their limits.
THEOREM TypeCorrect == Spec => []TypeOK
<1>1. Init => TypeOK /\ ResultText
  <2> SUFFICES ASSUME Init PROVE ResultText
    BY InitialTypes
  <2> QED
    BY DEF Init, DeliveryInit, ResultText, NewDelivery, NoDelivery
<1>2. TypeOK /\ ResultText /\ [Next]_vars => (TypeOK /\ ResultText)'
  BY NextTypes, StepKeepsRows
<1> QED
  BY <1>1, <1>2, PTL DEF Spec

-----------------------------------------------------------------------------
(* The placeholder gate *)

LEMMA InitialBinding == Init => BindingInv
BY DEF Init, DeliveryInit, BindingInv, AgentWaitsForPlaceholder,
       ClaimableRunHasComment, PastGateSawComment, DelivererHoldsComment,
       PastGate, IdleExec, IdleWorker

\* Once bound, the slot has a comment for ever, and a delivery makes the run
\* claimable only together with a bound slot.
LEMMA DeliveryKeepsSlotBound ==
    ASSUME TypeOK, BindingInv, NEW w \in DeliveryWorkers, DeliveryStep(w)
    PROVE  /\ slot.comment # 0 => slot'.comment # 0
           /\ ClaimableRunHasComment'
<1> USE DEF BindingInv
<1>0. slot \in Slot /\ run \in Run /\ dw[w] \in Worker
  BY DEF TypeOK
<1>1. CASE UNCHANGED <<run, slot>>
  BY <1>1 DEF ClaimableRunHasComment
<1>2. CASE BindComment(w)
  <2>1. dw[w].comment # 0
    BY <1>2 DEF BindComment, DelivererHoldsComment
  <2>2. slot'.comment = Flush(slot.comment, dw[w].slotComment, dw[w].comment)
    BY <1>0, <1>2 DEF BindComment, Slot
  <2> QED
    BY <1>2, <2>1, <2>2 DEF BindComment, Flush, ClaimableRunHasComment
<1>3. CASE FinishDelivery(w)
  <2> DEFINE i == dw[w].id
             d == outbox[i]
  <2>1. CASE ~HoldsLease(w, d)
    BY <1>3, <2>1 DEF FinishDelivery, ClaimableRunHasComment
  <2>2. CASE HoldsLease(w, d)
    <3>1. /\ slot' = SlotAfterSuccess(d, dw[w].comment)
          /\ run' = [run EXCEPT !.status = StatusAfterSuccess(i)]
      BY <1>3, <2>2 DEF FinishDelivery
    <3>2. slot'.comment = IF dw[w].comment # 0 /\ d.op # "review_line_comments"
                          THEN dw[w].comment ELSE slot.comment
      BY <1>0, <3>1 DEF SlotAfterSuccess, Slot
    <3>3. slot.comment # 0 => slot'.comment # 0
      BY <3>2
    <3>4. run'.status = StatusAfterSuccess(i)
      BY <1>0, <3>1 DEF Run
    <3>5. d.op = "review_placeholder" => slot'.comment # 0
      BY <1>3, <3>2 DEF FinishDelivery, DelivererHoldsComment
    <3>6. /\ FinalStatus(d) # "none" => FinalStatus(d) \notin {"queued", "running"}
          /\ d \in Delivery
      BY DEF FinalStatus, TypeOK, Worker, Delivery, Texts, TerminalTexts
    <3>7. run'.status \in {"queued", "running"} =>
            d.op = "review_placeholder" \/ run'.status = run.status
      BY <3>4, <3>6 DEF StatusAfterSuccess
    <3> QED
      BY <3>3, <3>5, <3>7 DEF ClaimableRunHasComment
  <2> QED
    BY <2>1, <2>2
<1>4. CASE RecordDeliveryFailure(w)
  <2>1. slot'.comment = slot.comment
    BY <1>0, <1>4 DEF RecordDeliveryFailure, Slot
  <2>2. run'.status \in {"queued", "running"} => run'.status = run.status
    BY <1>0, <1>4 DEF RecordDeliveryFailure, Flush, Run
  <2> QED
    BY <2>1, <2>2 DEF ClaimableRunHasComment
<1> QED
  BY <1>1, <1>2, <1>3, <1>4 DEF DeliveryStep, ClaimNextDelivery, ExecuteDelivery,
     PublishUnchanged, FindComment, WriteComment, PublishLineComments,
     ProviderFails, CrashDelivery

\* What the acting delivery worker holds after its step.
LEMMA DelivererStep ==
    ASSUME TypeOK, BindingInv, RowsKept, NEW w \in DeliveryWorkers, DeliveryStep(w)
    PROVE  DelivererHoldsComment'
<1> DEFINE i == dw[w].id
<1> USE DEF BindingInv
<1>0. dw[w] \in Worker /\ i \in Ids /\ dw \in [DeliveryWorkers -> Worker]
  BY DEF TypeOK, Worker
<1>1. ASSUME NEW v \in DeliveryWorkers, v # w
      PROVE  dw'[v] = dw[v]
  BY <1>0, <1>1 DEF DeliveryStep, ClaimNextDelivery, ExecuteDelivery,
     PublishUnchanged, FindComment, WriteComment, BindComment,
     PublishLineComments, ProviderFails, FinishDelivery, RecordDeliveryFailure,
     CrashDelivery
<1> DEFINE Holds(r) ==
      /\ r.pc # "idle" => outbox'[r.id].status # "absent"
      /\ r.pc = "lines" => outbox'[r.id].op = "review_line_comments"
      /\ r.pc = "bind" => r.comment # 0
      /\ r.pc = "finish" /\ outbox'[r.id].op # "review_line_comments"
           => r.comment # 0
<1>2. ASSUME NEW v \in DeliveryWorkers, v # w
      PROVE  Holds(dw'[v])
  <2>1. dw[v].id \in Ids
    BY DEF TypeOK, Worker
  <2> QED
    BY <1>1, <1>2, <2>1 DEF DelivererHoldsComment, RowsKept
<1>3. Holds(dw'[w])
  <2>1. CASE ClaimNextDelivery(w)
    <3>1. PICK expired \in SUBSET Leased, k \in Ids :
            /\ outbox' = [Reclaimed(expired) EXCEPT ![k] =
                            [@ EXCEPT !.status = "running", !.owner = w,
                                      !.attempt = NextAttempt(Reclaimed(expired)[k]),
                                      !.due = FALSE]]
            /\ dw' = [dw EXCEPT ![w] =
                        [IdleWorker EXCEPT
                           !.pc = "claimed", !.id = k,
                           !.attempt = NextAttempt(Reclaimed(expired)[k])]]
      BY <2>1 DEF ClaimNextDelivery
    <3>2. dw'[w].pc = "claimed" /\ dw'[w].id = k
      BY <1>0, <3>1 DEF IdleWorker
    <3>3. outbox'[k].status = "running"
      <4>1. Reclaimed(expired) \in [Ids -> Delivery]
        BY DEF TypeOK, Reclaimed, Delivery, DeliveryStatus
      <4> QED
        BY <3>1, <4>1 DEF Delivery
    <3> QED
      BY <3>2, <3>3
  <2>2. CASE ExecuteDelivery(w)
    <3>1. /\ dw'[w].id = i /\ outbox' = outbox
          /\ dw'[w].pc = ExecuteStep(outbox[i], slot)
          /\ dw'[w].comment = IF dw'[w].pc = "finish" THEN slot.comment ELSE 0
      BY <1>0, <2>2 DEF ExecuteDelivery, Worker
    <3>2. /\ dw'[w].pc \notin {"idle", "bind"}
          /\ dw'[w].pc = "lines" => outbox[i].op = "review_line_comments"
          /\ dw'[w].pc = "finish" => slot.comment # 0
      BY <3>1 DEF ExecuteStep
    <3>3. outbox[i].status # "absent"
      BY <2>2 DEF ExecuteDelivery, DelivererHoldsComment
    <3> QED
      BY <3>1, <3>2, <3>3
  <2>3. CASE PublishUnchanged(w)
    <3>1. /\ dw'[w].id = i /\ outbox' = outbox
          /\ dw'[w].pc = "finish" /\ dw'[w].comment = ref.comment
      BY <1>0, <2>3 DEF PublishUnchanged, Worker
    <3>2. ref.comment # 0 /\ outbox[i].status # "absent"
      BY <2>3 DEF PublishUnchanged, DelivererHoldsComment
    <3> QED
      BY <3>1, <3>2
  <2>9. CASE FindComment(w)
    <3>1. dw'[w].id = i /\ outbox' = outbox /\ dw'[w].pc = "write"
      BY <1>0, <2>9 DEF FindComment, Worker
    <3>2. outbox[i].status # "absent"
      BY <2>9 DEF FindComment, DelivererHoldsComment
    <3> QED
      BY <3>1, <3>2
  <2>4. CASE WriteComment(w)
    <3>1. Len(comments) + 1 # 0
      BY DEF TypeOK
    <3>2. /\ dw'[w].id = i /\ outbox' = outbox /\ outbox[i].status # "absent"
          /\ dw'[w].pc = "bind" /\ dw'[w].comment # 0
      BY <1>0, <2>4, <3>1 DEF WriteComment, Worker, DelivererHoldsComment
    <3> QED
      BY <3>2
  <2>5. CASE BindComment(w)
    <3>1. /\ dw'[w].id = i /\ outbox' = outbox /\ outbox[i].status # "absent"
          /\ dw'[w].pc = "finish" /\ dw'[w].comment # 0
      BY <1>0, <2>5 DEF BindComment, Worker, DelivererHoldsComment
    <3> QED
      BY <3>1
  <2>6. CASE PublishLineComments(w)
    <3>1. /\ dw'[w].id = i /\ outbox' = outbox /\ outbox[i].status # "absent"
          /\ dw'[w].pc = "finish" /\ outbox[i].op = "review_line_comments"
      BY <1>0, <2>6 DEF PublishLineComments, Worker, DelivererHoldsComment
    <3> QED
      BY <3>1
  <2>7. CASE ProviderFails(w)
    <3>1. /\ dw'[w].id = i /\ outbox' = outbox /\ outbox[i].status # "absent"
          /\ dw'[w].pc = "raise"
      BY <1>0, <2>7 DEF ProviderFails, Worker, DelivererHoldsComment
    <3> QED
      BY <3>1
  <2>8. CASE FinishDelivery(w) \/ RecordDeliveryFailure(w) \/ CrashDelivery(w)
    <3>1. dw'[w].pc = "idle"
      BY <1>0, <2>8 DEF FinishDelivery, RecordDeliveryFailure, CrashDelivery, IdleWorker
    <3> QED
      BY <3>1
  <2> QED
    BY <2>1, <2>2, <2>3, <2>4, <2>5, <2>6, <2>7, <2>8, <2>9 DEF DeliveryStep
<1> QED
  BY <1>2, <1>3 DEF DelivererHoldsComment

\* Where a step leaves the acting execution worker: at pc, with the slot it
\* had loaded or with none.
View(e, pc) ==
    /\ \A f \in ExecutionWorkers \ {e} : ew'[f] = ew[f]
    /\ ew'[e].pc = pc
    /\ ew'[e].slot.comment # 0 => ew'[e].slot = ew[e].slot
    /\ pc # "idle" => ew'[e].slot = ew[e].slot

LEMMA GoOnView ==
    ASSUME TypeOK, NEW e \in ExecutionWorkers, NEW pc \in ExecStep, GoOn(e, pc)
    PROVE  View(e, pc)
<1>1. ew \in [ExecutionWorkers -> ExecWorker] /\ ew[e] \in ExecWorker
  BY DEF TypeOK
<1>2. CASE pc = "idle"
  <2>1. ew' = [ew EXCEPT ![e] = IdleExec]
    BY <1>2 DEF GoOn
  <2> QED
    BY <1>1, <1>2, <2>1 DEF View, IdleExec
<1>3. CASE pc # "idle"
  <2>1. ew' = [ew EXCEPT ![e] = [ew[e] EXCEPT !.pc = pc]]
    BY <1>1, <1>3 DEF GoOn
  <2>2. /\ [ew[e] EXCEPT !.pc = pc].pc = pc
        /\ [ew[e] EXCEPT !.pc = pc].slot = ew[e].slot
    BY <1>1 DEF ExecWorker
  <2> QED
    BY <1>1, <1>3, <2>1, <2>2 DEF View
<1> QED
  BY <1>2, <1>3

LEMMA ProceedView ==
    ASSUME TypeOK, NEW e \in ExecutionWorkers, NEW pc \in ExecStep, Proceed(e, pc)
    PROVE  View(e, pc)
<1>1. ew \in [ExecutionWorkers -> ExecWorker] /\ ew[e] \in ExecWorker
  BY DEF TypeOK
<1>2. CASE pc = "idle"
  <2>1. ew' = [ew EXCEPT ![e] = IdleExec]
    BY <1>2 DEF Proceed
  <2> QED
    BY <1>1, <1>2, <2>1 DEF View, IdleExec
<1>3. CASE pc # "idle"
  <2> DEFINE r == [ew[e] EXCEPT !.pc = pc, !.run = run', !.agent = job'.agent]
  <2>1. ew' = [ew EXCEPT ![e] = r]
    BY <1>1, <1>3 DEF Proceed
  <2>2. r.pc = pc /\ r.slot = ew[e].slot
    BY <1>1 DEF ExecWorker
  <2> HIDE DEF r
  <2> QED
    BY <1>1, <1>3, <2>1, <2>2 DEF View
<1> QED
  BY <1>2, <1>3

\* A worker that passes the gate, or acts behind it, knows the bound comment.
LEMMA ViewKeepsGate ==
    ASSUME TypeOK, PastGateSawComment, NEW e \in ExecutionWorkers,
           NEW pc \in ExecStep, View(e, pc), slot'.comment = slot.comment,
           pc \in PastGate => ew[e].pc \in PastGate
    PROVE  PastGateSawComment'
<1>1. ASSUME NEW f \in ExecutionWorkers
      PROVE  /\ ew'[f].slot.comment # 0 => slot'.comment # 0
             /\ ew'[f].pc \in PastGate => ew'[f].slot.comment # 0
  <2>1. CASE f = e
    BY <2>1 DEF View, PastGateSawComment, PastGate
  <2>2. CASE f # e
    BY <2>2 DEF View, PastGateSawComment
  <2> QED
    BY <2>1, <2>2
<1> QED
  BY <1>1 DEF PastGateSawComment

\* SetStatus makes the run claimable only for a worker behind the gate.
LEMMA SetStatusKeepsBound ==
    ASSUME TypeOK, ClaimableRunHasComment, PastGateSawComment,
           NEW e \in ExecutionWorkers, NEW status, SetStatus(e, status),
           slot'.comment = slot.comment,
           status \in {"queued", "running"} => ew[e].pc \in PastGate
    PROVE  ClaimableRunHasComment'
<1>1. run'.status = Flush(run.status, ew[e].run.status, status)
  BY DEF SetStatus, TypeOK, Run
<1> QED
  BY <1>1 DEF Flush, ClaimableRunHasComment, PastGateSawComment

LEMMA EnqueueStatusKeepsBound ==
    ASSUME TypeOK, ClaimableRunHasComment, NEW text, NEW loaded, NEW view,
           EnqueueStatus(text, loaded, view)
    PROVE  slot'.comment = slot.comment /\ ClaimableRunHasComment'
<1>1. slot'.comment = slot.comment
  BY DEF EnqueueStatus, TypeOK, Slot
<1>2. run'.status = "awaiting_delivery" \/ run' = run
  BY DEF EnqueueStatus
<1> QED
  BY <1>1, <1>2 DEF ClaimableRunHasComment

\* Every step of an execution worker keeps the gate.
LEMMA ExecutionKeepsGate ==
    ASSUME TypeOK, BindingInv, NEW e \in ExecutionWorkers,
           ReviewStep(e) \/ SweepStep(e) \/ CrashExecution(e)
    PROVE  /\ slot'.comment = slot.comment
           /\ AgentWaitsForPlaceholder'
           /\ ClaimableRunHasComment'
           /\ PastGateSawComment'
<1> USE DEF BindingInv
<1>0. ew[e] \in ExecWorker /\ ew \in [ExecutionWorkers -> ExecWorker]
  BY DEF TypeOK
<1>1. CASE ClaimReview(e)
  <2>1. Proceed(e, "gate") /\ slot' = slot /\ slot.comment # 0
    BY <1>1 DEF ClaimReview, ClaimableRunHasComment
  <2>2. View(e, "gate")
    BY <2>1, ProceedView DEF ExecStep
  <2>3. PastGateSawComment'
    BY <2>1, <2>2, ViewKeepsGate DEF ExecStep, PastGate
  <2> QED
    BY <1>1, <2>1, <2>3 DEF ClaimReview, ClaimableRunHasComment, AgentWaitsForPlaceholder
<1>2. CASE CheckSlot(e)
  <2>1. slot'.comment = slot.comment
    BY <1>2 DEF CheckSlot, TypeOK, Slot
  <2>2. CASE SlotOpen(slot)
    <3>1. ew' = [ew EXCEPT ![e] = [ew[e] EXCEPT !.pc = "prepare", !.slot = slot]]
      BY <1>0, <1>2, <2>2 DEF CheckSlot
    <3>2. [ew[e] EXCEPT !.pc = "prepare", !.slot = slot].slot = slot
      BY <1>0 DEF ExecWorker
    <3>3. slot.comment # 0
      BY <2>2 DEF SlotOpen
    <3> QED
      BY <1>0, <1>2, <2>1, <3>1, <3>2, <3>3
      DEF CheckSlot, PastGateSawComment, ClaimableRunHasComment,
          AgentWaitsForPlaceholder
  <2>3. CASE ~SlotOpen(slot)
    <3>1. ew' = [ew EXCEPT ![e] = IdleExec]
      BY <1>2, <2>3 DEF CheckSlot
    <3>2. View(e, "idle")
      BY <1>0, <3>1 DEF View, IdleExec
    <3>3. PastGateSawComment'
      BY <2>1, <3>2, ViewKeepsGate DEF ExecStep, PastGate
    <3> QED
      BY <1>2, <2>1, <3>3
      DEF CheckSlot, ClaimableRunHasComment, AgentWaitsForPlaceholder
  <2> QED
    BY <2>2, <2>3
<1>3. ASSUME NEW pc \in ExecStep, GoOn(e, pc) \/ Proceed(e, pc),
             pc \in PastGate => ew[e].pc \in PastGate,
             slot'.comment = slot.comment
      PROVE  PastGateSawComment'
  BY <1>3, GoOnView, ProceedView, ViewKeepsGate
<1>4. CASE \/ PrepareWorkspace(e) \/ ResumeRun(e) \/ SyncSkipped(e) \/ GiveUp(e)
           \/ SelectActive(e) \/ EmitSoftTimeout(e) \/ CancelAgentFails(e)
           \/ EndSweep(e) \/ EnqueueLineComments(e)
  <2>1. UNCHANGED <<run, slot, session>>
    BY <1>4 DEF PrepareWorkspace, ResumeRun, SyncSkipped, GiveUp, SelectActive,
       EmitSoftTimeout, CancelAgentFails, EndSweep, EnqueueLineComments
  <2>2. \E pc \in ExecStep : /\ GoOn(e, pc) \/ Proceed(e, pc)
                             /\ pc \in PastGate => ew[e].pc \in PastGate
    <3>1. CASE PrepareWorkspace(e)
      BY <3>1 DEF PrepareWorkspace, ExecStep, PastGate
    <3>2. CASE ResumeRun(e)
      BY <3>2 DEF ResumeRun, ExecStep, PastGate
    <3>3. CASE SyncSkipped(e)
      BY <3>3 DEF SyncSkipped, AfterSync, ExecStep, PastGate
    <3>4. CASE GiveUp(e) \/ EnqueueLineComments(e)
      BY <3>4 DEF GiveUp, EnqueueLineComments, ExecStep, PastGate
    <3>5. CASE SelectActive(e) \/ EmitSoftTimeout(e) \/ CancelAgentFails(e) \/ EndSweep(e)
      BY <3>5 DEF SelectActive, EmitSoftTimeout, CancelAgentFails, EndSweep,
         ExecStep, PastGate
    <3> QED
      BY <1>4, <3>1, <3>2, <3>3, <3>4, <3>5
  <2>3. PastGateSawComment'
    BY <1>3, <2>1, <2>2
  <2> QED
    BY <2>1, <2>3 DEF AgentWaitsForPlaceholder, ClaimableRunHasComment
<1>5. CASE PrepareFails(e) \/ StartRejected(e) \/ RetryAgent(e)
  <2>1. slot' = slot /\ session' = session
    BY <1>5 DEF PrepareFails, StartRejected, RetryAgent
  <2>2. \E pc \in ExecStep : /\ GoOn(e, pc) \/ Proceed(e, pc)
                             /\ pc \in PastGate => ew[e].pc \in PastGate
    BY <1>5 DEF PrepareFails, StartRejected, RetryAgent, ExecStep, PastGate
  <2>3. \E st : /\ SetStatus(e, st)
                /\ st \in {"queued", "running"} => ew[e].pc \in PastGate
    BY <1>5 DEF PrepareFails, StartRejected, RetryAgent, PastGate
  <2>4. PastGateSawComment'
    BY <1>3, <2>1, <2>2
  <2>5. ClaimableRunHasComment'
    BY <2>1, <2>3, SetStatusKeepsBound
  <2> QED
    BY <2>1, <2>4, <2>5 DEF AgentWaitsForPlaceholder
<1>6. CASE StartSession(e)
  <2>1. /\ slot' = slot /\ SetStatus(e, "running") /\ ew[e].pc = "start"
        /\ Proceed(e, AfterStart(run'.status))
    BY <1>6 DEF StartSession
  <2>2. AfterStart(run'.status) \in ExecStep
    BY DEF AfterStart, ExecStep
  <2>3. PastGateSawComment' /\ slot.comment # 0
    BY <1>3, <2>1, <2>2 DEF PastGate, PastGateSawComment
  <2>4. ClaimableRunHasComment'
    BY <2>1, SetStatusKeepsBound DEF PastGate
  <2> QED
    BY <2>1, <2>3, <2>4 DEF AgentWaitsForPlaceholder
<1>7. CASE \/ \E infra \in BOOLEAN : StartFails(e, infra)
           \/ SyncSession(e) \/ EmitHardTimeout(e)
  <2>1. slot' = slot
    BY <1>7 DEF StartFails, SyncSession, EmitHardTimeout
  <2>2. \E st : /\ SetStatus(e, st)
                /\ st \in {"queued", "running"} => ew[e].pc \in PastGate
    <3>1. CASE SyncSession(e)
      BY <3>1 DEF SyncSession, PastGate
    <3>2. CASE EmitHardTimeout(e) \/ \E infra \in BOOLEAN : StartFails(e, infra)
      <4>1. SetStatus(e, "failed")
        BY <3>2 DEF EmitHardTimeout, StartFails
      <4> QED
        BY <4>1
    <3> QED
      BY <1>7, <3>1, <3>2
  <2>3. session' # session => slot.comment # 0
    BY <1>7 DEF StartFails, SyncSession, EmitHardTimeout, PastGate, PastGateSawComment
  <2>4. \E pc \in ExecStep : View(e, pc) /\ (pc \in PastGate => ew[e].pc \in PastGate)
    <3>1. CASE \E infra \in BOOLEAN : StartFails(e, infra)
      <4>1. PICK infra \in BOOLEAN : StartFails(e, infra)
        BY <3>1
      <4> DEFINE pc == AfterStart(run'.status)
                 r == [ew[e] EXCEPT !.pc = pc, !.run = run', !.infra = infra]
      <4>2. ew' = [ew EXCEPT ![e] = r] /\ ew[e].pc = "start"
        BY <1>0, <4>1 DEF StartFails
      <4>3. r.pc = pc /\ r.slot = ew[e].slot
        BY <1>0 DEF ExecWorker
      <4>4. pc \in ExecStep
        BY DEF AfterStart, ExecStep
      <4> HIDE DEF r, pc
      <4>5. View(e, pc)
        BY <1>0, <4>2, <4>3 DEF View
      <4> QED
        BY <4>2, <4>4, <4>5 DEF PastGate
    <3>2. CASE SyncSession(e)
      <4>1. PICK answer : ew' = [ew EXCEPT ![e] =
              IF AfterSync(run'.status, answer) = "idle" THEN IdleExec
              ELSE [@ EXCEPT !.pc = AfterSync(run'.status, answer), !.run = run',
                             !.infra = (answer = "infra")]]
        BY <3>2 DEF SyncSession
      <4> DEFINE pc == AfterSync(run'.status, answer)
                 r == [ew[e] EXCEPT !.pc = pc, !.run = run',
                                    !.infra = (answer = "infra")]
      <4>2. r.pc = pc /\ r.slot = ew[e].slot
        BY <1>0 DEF ExecWorker
      <4>3. pc \in ExecStep
        BY DEF AfterSync, ExecStep
      <4>4. CASE pc = "idle"
        <5>1. ew' = [ew EXCEPT ![e] = IdleExec]
          BY <4>1, <4>4
        <5> QED
          BY <1>0, <4>4, <5>1 DEF View, IdleExec, ExecStep, PastGate
      <4>5. CASE pc # "idle"
        <5>1. ew' = [ew EXCEPT ![e] = r]
          BY <1>0, <4>1, <4>5
        <5> HIDE DEF r, pc
        <5>2. View(e, pc)
          BY <1>0, <4>2, <4>5, <5>1 DEF View
        <5> QED
          BY <3>2, <4>3, <5>2 DEF SyncSession, PastGate
      <4> QED
        BY <4>4, <4>5
    <3>3. CASE EmitHardTimeout(e)
      <4> DEFINE r == [ew[e] EXCEPT !.pc = "hardTimeout", !.run.status = "failed"]
      <4>1. ew' = [ew EXCEPT ![e] = r]
        BY <1>0, <3>3 DEF EmitHardTimeout
      <4>2. r.pc = "hardTimeout" /\ r.slot = ew[e].slot
        BY <1>0 DEF ExecWorker
      <4> HIDE DEF r
      <4>3. View(e, "hardTimeout")
        BY <1>0, <4>1, <4>2 DEF View
      <4> QED
        BY <4>3 DEF ExecStep, PastGate
    <3> QED
      BY <1>7, <3>1, <3>2, <3>3
  <2>5. PastGateSawComment'
    BY <2>1, <2>4, ViewKeepsGate
  <2>6. ClaimableRunHasComment'
    BY <2>1, <2>2, SetStatusKeepsBound
  <2> QED
    BY <2>1, <2>3, <2>5, <2>6 DEF AgentWaitsForPlaceholder
<1>8. CASE \/ PublishFailure(e) \/ CollectResult(e)
           \/ PublishDelayed(e) \/ PublishTimeout(e)
  <2>1. session' = session
    BY <1>8 DEF PublishFailure, CollectResult, PublishDelayed, PublishTimeout
  <2>2. \E text, loaded, view : EnqueueStatus(text, loaded, view)
    BY <1>8 DEF PublishFailure, CollectResult, PublishDelayed, PublishTimeout
  <2>3. slot'.comment = slot.comment /\ ClaimableRunHasComment'
    BY <2>2, EnqueueStatusKeepsBound
  <2>4. \E pc \in ExecStep : /\ GoOn(e, pc) \/ Proceed(e, pc)
                             /\ pc \in PastGate => ew[e].pc \in PastGate
    BY <1>8 DEF PublishFailure, CollectResult, PublishDelayed, PublishTimeout,
       ExecStep, PastGate
  <2> QED
    BY <1>3, <2>1, <2>3, <2>4 DEF AgentWaitsForPlaceholder
<1>9. CASE CollectRaises(e)
  <2>1. slot' = slot /\ session' = session /\ ew[e].pc = "collect"
    BY <1>9 DEF CollectRaises
  <2>2. run'.status = "failed" \/ run' = run
    BY <1>9 DEF CollectRaises, TypeOK, Run
  <2>3. \E pc \in ExecStep : Proceed(e, pc)
    BY <1>9 DEF CollectRaises, ExecStep
  <2> QED
    BY <1>3, <2>1, <2>2, <2>3
    DEF PastGate, AgentWaitsForPlaceholder, ClaimableRunHasComment
<1>10. CASE CancelAgent(e) \/ CrashExecution(e)
  <2>1. UNCHANGED <<run, slot>>
    BY <1>10 DEF CancelAgent, CrashExecution
  <2>2. \E pc \in ExecStep : GoOn(e, pc) /\ pc \notin PastGate
    BY <1>10 DEF CancelAgent, CrashExecution, ExecStep, PastGate
  <2>3. session' # session => session # "none" \/ slot.comment # 0
    BY <1>10 DEF CancelAgent, CrashExecution, PastGate, PastGateSawComment
  <2> QED
    BY <1>3, <2>1, <2>2, <2>3 DEF AgentWaitsForPlaceholder, ClaimableRunHasComment
<1> QED
  BY <1>1, <1>2, <1>4, <1>5, <1>6, <1>7, <1>8, <1>9, <1>10
  DEF ReviewStep, SweepStep

\* BindingInv is inductive, given the types and the outbox facts.
LEMMA BindingStep ==
    ASSUME TypeOK, ResultText, BindingInv, [Next]_vars
    PROVE  BindingInv'
<1>0. RowsKept
  BY StepKeepsRows
<1>1. ASSUME UNCHANGED dw PROVE DelivererHoldsComment'
  <2>1. \A w \in DeliveryWorkers : dw[w].id \in Ids
    BY DEF TypeOK, Worker
  <2> QED
    BY <1>0, <1>1, <2>1 DEF BindingInv, DelivererHoldsComment, RowsKept
<1>2. CASE (\E w \in DeliveryWorkers : DeliveryStep(w)) /\ UNCHANGED executionVars
  <2>1. PICK w \in DeliveryWorkers : DeliveryStep(w)
    BY <1>2
  <2>2. (slot.comment # 0 => slot'.comment # 0) /\ ClaimableRunHasComment'
    BY <2>1, DeliveryKeepsSlotBound
  <2>3. DelivererHoldsComment'
    BY <1>0, <2>1, DelivererStep
  <2> QED
    BY <1>2, <2>2, <2>3 DEF BindingInv, AgentWaitsForPlaceholder,
       PastGateSawComment, executionVars
<1>3. CASE (ApiStep \/ \E i \in Ids : BackoffElapses(i)) /\ UNCHANGED executionVars
  <2>1. slot'.comment = slot.comment /\ ClaimableRunHasComment'
    <3>1. CASE CancelReviewRun \/ SupersedeReviewRun
      BY <3>1, EnqueueStatusKeepsBound DEF CancelReviewRun, SupersedeReviewRun, BindingInv
    <3>2. CASE UNCHANGED <<run, slot>>
      BY <3>2 DEF BindingInv, ClaimableRunHasComment
    <3> QED
      BY <1>3, <3>1, <3>2 DEF ApiStep, RescheduleFailedDelivery, BackoffElapses
  <2>2. UNCHANGED dw
    BY <1>3 DEF ApiStep, CancelReviewRun, SupersedeReviewRun,
       RescheduleFailedDelivery, BackoffElapses
  <2> QED
    BY <1>1, <1>3, <2>1, <2>2 DEF BindingInv, AgentWaitsForPlaceholder,
       PastGateSawComment, executionVars
<1>4. CASE \E e \in ExecutionWorkers : ReviewStep(e) \/ SweepStep(e) \/ CrashExecution(e)
  <2>1. UNCHANGED dw
    BY <1>4 DEF ReviewStep, SweepStep, ClaimReview, CheckSlot,
      PrepareWorkspace, ResumeRun, PrepareFails, StartSession, StartFails,
      StartRejected, SyncSession, SyncSkipped, RetryAgent, GiveUp, CollectRaises,
      PublishFailure, CollectResult, EnqueueLineComments, PublishDelayed,
      PublishTimeout, SelectActive, EmitSoftTimeout, EmitHardTimeout, CancelAgent,
      CancelAgentFails, EndSweep, CrashExecution, outboxVars
  <2> QED
    BY <1>1, <1>4, <2>1, ExecutionKeepsGate DEF BindingInv
<1>5. CASE SessionEnds
  BY <1>1, <1>5 DEF SessionEnds, outboxVars, BindingInv, AgentWaitsForPlaceholder,
     ClaimableRunHasComment, PastGateSawComment
<1>6. CASE UNCHANGED vars
  BY <1>1, <1>6 DEF vars, BindingInv, AgentWaitsForPlaceholder,
     ClaimableRunHasComment, PastGateSawComment
<1> QED
  BY <1>2, <1>3, <1>4, <1>5, <1>6 DEF Next

\* The binding invariant holds for any number of delivery and execution
\* workers, any bound on events and retries, and with or without API requests.
THEOREM GateHolds == Spec => []BindingInv
<1>1. Init => TypeOK /\ ResultText /\ BindingInv
  <2>1. Init => ResultText
    BY DEF Init, DeliveryInit, ResultText, NewDelivery, NoDelivery
  <2> QED
    BY <2>1, InitialTypes, InitialBinding
<1>2. TypeOK /\ ResultText /\ BindingInv /\ [Next]_vars
        => (TypeOK /\ ResultText /\ BindingInv)'
  BY NextTypes, StepKeepsRows, BindingStep
<1> QED
  BY <1>1, <1>2, PTL DEF Spec

\* No run has an agent session, or can be claimed for execution, before its
\* placeholder comment is bound.
THEOREM PlaceholderFirst ==
    Spec => [](AgentWaitsForPlaceholder /\ ClaimableRunHasComment)
<1>1. BindingInv => AgentWaitsForPlaceholder /\ ClaimableRunHasComment
  BY DEF BindingInv
<1> QED
  BY <1>1, GateHolds, PTL
=============================================================================
