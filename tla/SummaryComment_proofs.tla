------------------------ MODULE SummaryComment_proofs ------------------------
(***************************************************************************)
(* Proofs about the summary comment and the session of a ReviewRun with    *)
(* one delivery worker or one execution worker.  A lease that runs out     *)
(* while its holder is still at work lets a second worker in, and each     *)
(* result fails; the last two also fail when the API cancels the run while *)
(* a worker holds an older copy of its slot.                               *)
(***************************************************************************)
EXTENDS ReviewExecution_proofs

\* One delivery worker; one execution worker.
SingleDeliverer == \A v, w \in DeliveryWorkers : v = w
SingleExecutor == \A e, f \in ExecutionWorkers : e = f

-----------------------------------------------------------------------------
(* One summary comment *)

\* The marker lookup of the delivery worker and its create call have no other
\* creator between them.
OneWriter ==
    /\ OneComment
    /\ \A w \in DeliveryWorkers :
         dw[w].pc = "write" /\ dw[w].comment = 0 => comments = <<>>

CommentIds == {0} \cup DOMAIN comments

\* The comment ids that the slot, the reference and the workers hold exist at
\* the provider.
KnownComments ==
    /\ slot.comment \in CommentIds /\ ref.comment \in CommentIds
    /\ \A w \in DeliveryWorkers :
         dw[w].known \in CommentIds /\ dw[w].comment \in CommentIds

\* The text and version of a row, as its comment shows them.
Body(d) == [text |-> d.text, version |-> d.version]

LEMMA OverwriteOnly ==
    ASSUME NEW S, NEW s \in Seq(S), Len(s) = 1, NEW c \in S
    PROVE  [s EXCEPT ![1] = c] = <<c>>
<1> DEFINE t == [s EXCEPT ![1] = c]
<1>1. 1 \in 1..Len(s)
  OBVIOUS
<1>2. t \in Seq(S) /\ Len(t) = 1 /\ t[1] = c
  BY <1>1, ExceptSeq
<1>3. <<c>> \in Seq(S) /\ Len(<<c>>) = 1 /\ <<c>>[1] = c
  OBVIOUS
<1> HIDE DEF t
<1> QED
  BY <1>2, <1>3, SeqEqual DEF t

\* A write leaves one comment, the one with the event of the writer's row.
LEMMA Written ==
    ASSUME TypeOK, OneWriter, KnownComments, NEW w \in DeliveryWorkers,
           dw[w].pc = "write"
    PROVE  WrittenComments(w) = <<Body(outbox[dw[w].id])>>
<1> DEFINE c == Body(outbox[dw[w].id])
           k == dw[w].comment
<1>1. comments \in Seq(Comment) /\ Len(comments) <= 1
  BY DEF TypeOK, OneWriter, OneComment
<1>2. CASE k = 0
  <2>1. comments = <<>>
    BY <1>2 DEF OneWriter
  <2>2. WrittenComments(w) = Append(<<>>, c)
    BY <1>2, <2>1 DEF WrittenComments, Body
  <2> QED
    BY <2>2
<1>3. CASE k # 0
  <2>1. k \in DOMAIN comments
    BY <1>3 DEF KnownComments, CommentIds
  <2>a. Len(comments) \in Nat /\ DOMAIN comments = 1..Len(comments)
    BY <1>1, LenProperties
  <2>b. k \in 1..Len(comments)
    BY <2>1, <2>a
  <2> HIDE DEF k
  <2>2. Len(comments) = 1 /\ k = 1
    BY <1>1, <2>a, <2>b
  <2>3. WrittenComments(w) = [comments EXCEPT ![1] = c]
    BY <1>3, <2>2 DEF WrittenComments, Body, k
  <2>4. c \in Comment
    BY DEF TypeOK, Worker, Delivery, Comment, Body
  <2> HIDE DEF c
  <2>5. [comments EXCEPT ![1] = c] = <<c>>
    BY <1>1, <2>2, <2>4, OverwriteOnly
  <2> QED
    BY <2>3, <2>5 DEF c
<1> QED
  BY <1>2, <1>3

LEMMA SingletonFacts ==
    ASSUME NEW c
    PROVE  /\ Len(<<c>>) = 1 /\ DOMAIN <<c>> = {1} /\ <<c>>[1] = c
           /\ <<c>> # <<>>
OBVIOUS

\* The comments a delivery step leaves: the ones there were, or one that shows
\* the writer's row.
LEMMA CommentsAfter ==
    ASSUME TypeOK, OneWriter, KnownComments, NEW w \in DeliveryWorkers,
           DeliveryStep(w)
    PROVE  \/ comments' = comments /\ ~WriteComment(w)
           \/ /\ comments' = <<Body(outbox[dw[w].id])>>
              /\ dw[w].pc = "write"
              /\ WriteComment(w) \/ ProviderFails(w)
<1>1. CASE WriteComment(w)
  BY <1>1, Written DEF WriteComment
<1>2. CASE ProviderFails(w)
  <2>1. ~WriteComment(w) \/ comments' = <<Body(outbox[dw[w].id])>>
    BY Written DEF WriteComment
  <2>2. comments' = comments \/ (dw[w].pc = "write" /\ comments' = WrittenComments(w))
    BY <1>2 DEF ProviderFails
  <2> QED
    BY <1>2, <2>1, <2>2, Written DEF WriteComment
<1>3. CASE ~WriteComment(w) /\ ~ProviderFails(w)
  BY <1>3 DEF DeliveryStep, ClaimNextDelivery, ExecuteDelivery, PublishUnchanged,
     FindComment, BindComment, PublishLineComments, FinishDelivery,
     RecordDeliveryFailure, CrashDelivery
<1> QED
  BY <1>1, <1>2, <1>3

\* Where a step leaves the acting delivery worker, and with which comment.
Moves(w, pc, comment) ==
    /\ dw'[w].pc = pc /\ dw'[w].id = dw[w].id
    /\ dw'[w].known = IF dw[w].pc = "claimed" THEN ref.comment ELSE dw[w].known
    /\ dw'[w].comment = comment

LEMMA DelivererMoves ==
    ASSUME TypeOK, NEW w \in DeliveryWorkers
    PROVE  /\ ExecuteDelivery(w) =>
                Moves(w, ExecuteStep(outbox[dw[w].id], slot),
                      IF ExecuteStep(outbox[dw[w].id], slot) = "finish"
                      THEN slot.comment ELSE 0)
           /\ PublishUnchanged(w) => Moves(w, "finish", ref.comment)
           /\ FindComment(w) =>
                Moves(w, "write", IF dw[w].known # 0 THEN dw[w].known
                                  ELSE IF comments # <<>> THEN 1 ELSE 0)
           /\ WriteComment(w) =>
                Moves(w, "bind", IF dw[w].comment = 0 THEN Len(comments) + 1
                                 ELSE dw[w].comment)
           /\ BindComment(w) => Moves(w, "finish", dw[w].comment)
           /\ PublishLineComments(w) => Moves(w, "finish", dw[w].comment)
           /\ ProviderFails(w) => Moves(w, "raise", dw[w].comment)
           /\ ClaimNextDelivery(w) =>
                dw'[w].pc = "claimed" /\ dw'[w].known = 0 /\ dw'[w].comment = 0
           /\ FinishDelivery(w) \/ RecordDeliveryFailure(w) \/ CrashDelivery(w)
                => dw'[w].pc = "idle" /\ dw'[w].known = 0 /\ dw'[w].comment = 0
<1>0. dw[w] \in Worker /\ dw \in [DeliveryWorkers -> Worker]
  BY DEF TypeOK
<1> USE <1>0 DEF Moves
<1>1. ExecuteDelivery(w) =>
        Moves(w, ExecuteStep(outbox[dw[w].id], slot),
              IF ExecuteStep(outbox[dw[w].id], slot) = "finish"
              THEN slot.comment ELSE 0)
  <2> SUFFICES ASSUME ExecuteDelivery(w)
               PROVE  Moves(w, ExecuteStep(outbox[dw[w].id], slot),
                            IF ExecuteStep(outbox[dw[w].id], slot) = "finish"
                            THEN slot.comment ELSE 0)
    OBVIOUS
  <2>0. dw[w].pc = "claimed"
    BY DEF ExecuteDelivery
  <2> DEFINE r == [dw[w] EXCEPT
                     !.pc = ExecuteStep(outbox[dw[w].id], slot),
                     !.run = IF outbox[dw[w].id].op = "review_line_comments"
                             THEN run.status ELSE dw[w].run,
                     !.slotStatus = slot.status, !.slotComment = slot.comment,
                     !.known = ref.comment,
                     !.comment = IF ExecuteStep(outbox[dw[w].id], slot) = "finish"
                                 THEN slot.comment ELSE 0]
  <2>1. dw' = [dw EXCEPT ![w] = r]
    BY DEF ExecuteDelivery
  <2>2. /\ r.pc = ExecuteStep(outbox[dw[w].id], slot) /\ r.id = dw[w].id
        /\ r.known = ref.comment
        /\ r.comment = IF ExecuteStep(outbox[dw[w].id], slot) = "finish"
                       THEN slot.comment ELSE 0
    BY DEF Worker
  <2>3. dw'[w] = r
    BY <2>1
  <2> HIDE DEF r
  <2> QED
    BY <2>0, <2>2, <2>3
<1>2. PublishUnchanged(w) => Moves(w, "finish", ref.comment)
  BY DEF PublishUnchanged, Worker
<1>7. FindComment(w) =>
        Moves(w, "write", IF dw[w].known # 0 THEN dw[w].known
                          ELSE IF comments # <<>> THEN 1 ELSE 0)
  BY DEF FindComment, Worker
<1>3. WriteComment(w) =>
        Moves(w, "bind", IF dw[w].comment = 0 THEN Len(comments) + 1
                         ELSE dw[w].comment)
  BY DEF WriteComment, Worker
<1>4. /\ BindComment(w) => Moves(w, "finish", dw[w].comment)
      /\ PublishLineComments(w) => Moves(w, "finish", dw[w].comment)
      /\ ProviderFails(w) => Moves(w, "raise", dw[w].comment)
  BY DEF BindComment, PublishLineComments, ProviderFails, Worker
<1>5. ClaimNextDelivery(w) =>
        dw'[w].pc = "claimed" /\ dw'[w].known = 0 /\ dw'[w].comment = 0
  BY DEF ClaimNextDelivery, IdleWorker
<1>6. FinishDelivery(w) \/ RecordDeliveryFailure(w) \/ CrashDelivery(w)
        => dw'[w].pc = "idle" /\ dw'[w].known = 0 /\ dw'[w].comment = 0
  BY DEF FinishDelivery, RecordDeliveryFailure, CrashDelivery, IdleWorker
<1> QED
  BY <1>1, <1>2, <1>3, <1>4, <1>5, <1>6, <1>7

\* Every step but a delivery step leaves the comments, the reference, the
\* bound id and the delivery workers alone.
LEMMA OthersKeepComments ==
    ASSUME TypeOK, [Next]_vars,
           ~\E w \in DeliveryWorkers : DeliveryStep(w) /\ UNCHANGED executionVars
    PROVE  UNCHANGED <<ref, comments, dw>> /\ slot'.comment = slot.comment
<1>0. slot \in Slot
  BY DEF TypeOK
<1>1. CASE UNCHANGED <<slot, ref, comments, dw>>
  BY <1>1
<1>2. ASSUME NEW text, NEW loaded, NEW view, EnqueueStatus(text, loaded, view)
      PROVE  slot'.comment = slot.comment
  BY <1>0, <1>2 DEF EnqueueStatus, Slot
<1>3. CASE ApiStep
  BY <1>1, <1>2, <1>3 DEF ApiStep, CancelReviewRun, SupersedeReviewRun,
     RescheduleFailedDelivery
<1>4. CASE \E e \in ExecutionWorkers :
             \/ PublishFailure(e) \/ CollectResult(e)
             \/ PublishDelayed(e) \/ PublishTimeout(e)
  BY <1>2, <1>4 DEF PublishFailure, CollectResult, PublishDelayed, PublishTimeout
<1>5. CASE \E e \in ExecutionWorkers : CheckSlot(e)
  BY <1>0, <1>5 DEF CheckSlot, Slot, outboxVars
<1> QED
  BY <1>1, <1>3, <1>4, <1>5
  DEF Next, vars, ReviewStep, SweepStep, ClaimReview, EnqueueLineComments,
      PrepareWorkspace, ResumeRun, PrepareFails, StartSession, StartFails,
      StartRejected, SyncSession, SyncSkipped, RetryAgent, GiveUp, CollectRaises,
      SelectActive, EmitSoftTimeout, EmitHardTimeout, CancelAgent, BackoffElapses,
      CancelAgentFails, EndSweep, CrashExecution, SessionEnds, outboxVars

LEMMA NoMoreThanOne ==
    ASSUME TypeOK, OneComment
    PROVE  /\ DOMAIN comments \subseteq {1}
           /\ comments # <<>> => 1 \in DOMAIN comments
<1>1. comments \in Seq(Comment) /\ Len(comments) <= 1
  BY DEF TypeOK, OneComment
<1>2. Len(comments) \in Nat /\ DOMAIN comments = 1..Len(comments)
  BY <1>1, LenProperties
<1>3. CASE Len(comments) = 0
  BY <1>1, <1>2, <1>3, EmptySeq
<1>4. CASE Len(comments) = 1
  BY <1>1, <1>2, <1>4
<1> QED
  BY <1>1, <1>2, <1>3, <1>4

\* What a delivery step does to the ids of the slot and of the reference.
LEMMA IdsAfter ==
    ASSUME TypeOK, NEW w \in DeliveryWorkers, DeliveryStep(w)
    PROVE  /\ slot'.comment \in {slot.comment, dw[w].comment}
           /\ ref'.comment \in {ref.comment, dw[w].comment}
<1>0. slot \in Slot
  BY DEF TypeOK
<1>1. CASE BindComment(w)
  BY <1>0, <1>1 DEF BindComment, Flush, Slot
<1>2. CASE FinishDelivery(w)
  BY <1>0, <1>2 DEF FinishDelivery, SlotAfterSuccess, Slot
<1>3. CASE RecordDeliveryFailure(w)
  BY <1>0, <1>3 DEF RecordDeliveryFailure, Slot
<1>4. CASE UNCHANGED <<slot, ref>>
  BY <1>4
<1> QED
  BY <1>1, <1>2, <1>3, <1>4 DEF DeliveryStep, ClaimNextDelivery, ExecuteDelivery,
     PublishUnchanged, FindComment, WriteComment, PublishLineComments,
     ProviderFails, CrashDelivery

LEMMA CommentStep ==
    ASSUME TypeOK, OneWriter, KnownComments, SingleDeliverer,
           NEW w \in DeliveryWorkers, DeliveryStep(w)
    PROVE  OneWriter' /\ KnownComments'
<1> DEFINE c == Body(outbox[dw[w].id])
<1>0. \A v \in DeliveryWorkers : v = w
  BY DEF SingleDeliverer
<1>1. /\ DOMAIN comments \subseteq {1}
      /\ comments # <<>> => 1 \in DOMAIN comments
  BY NoMoreThanOne DEF OneWriter
<1>2. \/ comments' = comments
      \/ comments' = <<c>> /\ dw[w].pc = "write" /\ (WriteComment(w) \/ ProviderFails(w))
  BY CommentsAfter
<1>3. CommentIds \subseteq CommentIds'
  BY <1>1, <1>2, SingletonFacts DEF CommentIds
<1>4. OneComment'
  <2>1. CASE comments' = comments
    BY <2>1 DEF OneWriter, OneComment
  <2>2. CASE comments' = <<c>>
    <3>1. Len(comments') = 1
      BY <2>2, SingletonFacts
    <3> QED
      BY <3>1 DEF OneComment
  <2> QED
    BY <1>2, <2>1, <2>2
<1>5. slot'.comment \in CommentIds' /\ ref'.comment \in CommentIds'
  BY <1>3, IdsAfter DEF KnownComments
<1>6. WriteComment(w) => comments' = <<c>> /\ 1 \in CommentIds'
  BY <1>2, Written, SingletonFacts DEF WriteComment, CommentIds
<1>7. /\ dw'[w].known \in CommentIds' /\ dw'[w].comment \in CommentIds'
      /\ dw'[w].pc = "write" /\ dw'[w].comment = 0 => comments' = <<>>
  <2>0. /\ dw[w].known \in CommentIds' /\ dw[w].comment \in CommentIds'
        /\ ref.comment \in CommentIds' /\ slot.comment \in CommentIds'
        /\ 0 \in CommentIds'
    BY <1>3 DEF KnownComments, CommentIds
  <2>1. CASE ExecuteDelivery(w)
    BY <2>0, <2>1, DelivererMoves DEF Moves, ExecuteStep
  <2>2. CASE PublishUnchanged(w)
    BY <2>0, <2>2, DelivererMoves DEF Moves
  <2>3. CASE FindComment(w)
    <3>1. comments' = comments
      BY <2>3 DEF FindComment
    <3>2. comments # <<>> => 1 \in CommentIds'
      BY <1>1, <1>3 DEF CommentIds
    <3> QED
      BY <2>0, <2>3, <3>1, <3>2, DelivererMoves DEF Moves
  <2>4. CASE WriteComment(w)
    <3>1. dw[w].comment = 0 => Len(comments) + 1 = 1
      BY <2>4, EmptySeq DEF OneWriter, WriteComment
    <3> QED
      BY <1>6, <2>0, <2>4, <3>1, DelivererMoves DEF Moves
  <2>5. CASE BindComment(w) \/ PublishLineComments(w) \/ ProviderFails(w)
    BY <2>0, <2>5, DelivererMoves DEF Moves
  <2>6. CASE ClaimNextDelivery(w) \/ FinishDelivery(w) \/ RecordDeliveryFailure(w)
             \/ CrashDelivery(w)
    BY <2>0, <2>6, DelivererMoves
  <2> QED
    BY <2>1, <2>2, <2>3, <2>4, <2>5, <2>6 DEF DeliveryStep
<1> QED
  BY <1>0, <1>4, <1>5, <1>7 DEF OneWriter, KnownComments

LEMMA OneWriterStep ==
    ASSUME TypeOK, OneWriter, KnownComments, SingleDeliverer, [Next]_vars
    PROVE  OneWriter' /\ KnownComments'
<1>1. CASE \E w \in DeliveryWorkers : DeliveryStep(w) /\ UNCHANGED executionVars
  BY <1>1, CommentStep
<1>2. CASE ~\E w \in DeliveryWorkers : DeliveryStep(w) /\ UNCHANGED executionVars
  <2>1. UNCHANGED <<ref, comments, dw>> /\ slot'.comment = slot.comment
    BY <1>2, OthersKeepComments
  <2> QED
    BY <2>1 DEF OneWriter, OneComment, KnownComments, CommentIds
<1> QED
  BY <1>1, <1>2

LEMMA InitialComments == Init => OneWriter /\ KnownComments
BY EmptySeq DEF Init, DeliveryInit, OneWriter, OneComment, KnownComments, CommentIds,
   IdleWorker

\* With one delivery worker the run has at most one summary comment, whatever
\* calls of the provider fail or take effect unnoticed, whenever the worker
\* dies, and whatever the API cancels or supersedes.
THEOREM OneSummaryComment ==
    ASSUME SingleDeliverer
    PROVE  Spec => []OneComment
<1>1. Init => TypeOK /\ ResultText /\ OneWriter /\ KnownComments
  <2>1. Init => ResultText
    BY DEF Init, DeliveryInit, ResultText, NewDelivery, NoDelivery
  <2> QED
    BY <2>1, InitialTypes, InitialComments
<1>2. TypeOK /\ ResultText /\ OneWriter /\ KnownComments /\ [Next]_vars
        => (TypeOK /\ ResultText /\ OneWriter /\ KnownComments)'
  BY NextTypes, StepKeepsRows, OneWriterStep
<1>3. OneWriter => OneComment
  BY DEF OneWriter
<1> QED
  BY <1>1, <1>2, <1>3, PTL DEF Spec

-----------------------------------------------------------------------------
(* One session *)

\* A worker at work knows the stage the run has reached, and is about to start
\* a session only while the run knows of none.
SessionView ==
    \A e \in ExecutionWorkers :
        /\ ew[e].pc # "idle" => ew[e].agent = job.agent
        /\ ew[e].pc = "start" => job.agent # "started"

\* Where a step leaves the acting worker, and with which stage of the run.
Stage(e, pc, agent) ==
    ew'[e].pc = pc /\ (pc # "idle" => ew'[e].agent = agent)

LEMMA GoOnStage ==
    ASSUME TypeOK, NEW e \in ExecutionWorkers, NEW pc, GoOn(e, pc)
    PROVE  Stage(e, pc, ew[e].agent)
BY DEF GoOn, Stage, TypeOK, ExecWorker, IdleExec

LEMMA ProceedStage ==
    ASSUME TypeOK, NEW e \in ExecutionWorkers, NEW pc, Proceed(e, pc)
    PROVE  Stage(e, pc, job'.agent)
BY DEF Proceed, Stage, TypeOK, ExecWorker, IdleExec

LEMMA SessionViewStep ==
    ASSUME TypeOK, SessionView, SingleExecutor, [Next]_vars
    PROVE  SessionView'
<1>1. CASE UNCHANGED <<job, ew>>
  BY <1>1 DEF SessionView
<1>2. ASSUME NEW e \in ExecutionWorkers, NEW pc, Stage(e, pc, job'.agent),
             pc = "start" => job'.agent # "started"
      PROVE  SessionView'
  BY <1>2 DEF SingleExecutor, SessionView, Stage
<1>3. ASSUME NEW e \in ExecutionWorkers, NEW pc, GoOn(e, pc),
             job'.agent = job.agent, ew[e].pc # "idle",
             pc = "start" => job.agent # "started"
      PROVE  SessionView'
  <2>1. Stage(e, pc, job'.agent)
    BY <1>3, GoOnStage DEF SessionView
  <2> QED
    BY <1>2, <1>3, <2>1
<1>4. ASSUME NEW e \in ExecutionWorkers, NEW pc, Proceed(e, pc),
             pc = "start" => job'.agent # "started"
      PROVE  SessionView'
  BY <1>2, <1>4, ProceedStage
<1>5. CASE \E e \in ExecutionWorkers : ReviewStep(e)
  <2>0. PICK e \in ExecutionWorkers : ReviewStep(e)
    BY <1>5
  <2>1. job \in Job /\ ew[e] \in ExecWorker /\ ew \in [ExecutionWorkers -> ExecWorker]
    BY DEF TypeOK
  <2>2. CASE ClaimReview(e) \/ PrepareFails(e) \/ StartRejected(e) \/ CollectRaises(e)
    <3>1. PICK pc \in {"gate", "publish", "idle"} : Proceed(e, pc)
      BY <2>2 DEF ClaimReview, PrepareFails, StartRejected, CollectRaises
    <3> QED
      BY <1>4, <3>1
  <2>3. CASE CheckSlot(e)
    <3>1. \/ ew'[e].pc = "idle"
          \/ ew'[e].pc = "prepare" /\ ew'[e].agent = ew[e].agent
      BY <2>1, <2>3 DEF CheckSlot, ExecWorker, IdleExec
    <3>2. job' = job /\ ew[e].pc = "gate"
      BY <2>3 DEF CheckSlot
    <3>3. PICK pc \in {"idle", "prepare"} : Stage(e, pc, job'.agent)
      BY <3>1, <3>2 DEF SessionView, Stage
    <3> QED
      BY <1>2, <3>3
  <2>4. CASE PrepareWorkspace(e)
    <3>1. PICK pc \in {"sync", "start"} :
            Proceed(e, pc) /\ (pc = "start" => job'.agent # "started")
      BY <2>4 DEF PrepareWorkspace
    <3> QED
      BY <1>4, <3>1
  <2>5. CASE ResumeRun(e)
    <3>1. PICK pc \in {"sync", "start"} :
            GoOn(e, pc) /\ (pc = "start" => ew[e].agent # "started")
      BY <2>5 DEF ResumeRun
    <3>2. ew[e].pc = "prepare" /\ job' = job
      BY <2>5 DEF ResumeRun
    <3> QED
      BY <1>3, <3>1, <3>2 DEF SessionView
  <2>6. CASE StartSession(e)
    <3>1. PICK pc \in {"failed", "sync"} : Proceed(e, pc)
      BY <2>6 DEF StartSession, AfterStart
    <3> QED
      BY <1>4, <3>1
  <2>7. CASE \E infra \in BOOLEAN : StartFails(e, infra)
    <3>1. /\ ew'[e].pc \in {"failed", "sync"} /\ ew'[e].agent = ew[e].agent
          /\ job' = job /\ ew[e].pc = "start"
      BY <2>1, <2>7 DEF StartFails, AfterStart, ExecWorker
    <3>2. PICK pc \in {"failed", "sync"} : Stage(e, pc, job'.agent)
      BY <3>1 DEF SessionView, Stage
    <3> QED
      BY <1>2, <3>2
  <2>8. CASE SyncSession(e)
    <3>1. /\ job' = job /\ ew[e].pc = "sync"
          /\ \/ ew'[e].pc = "idle"
             \/ ew'[e].pc \in {"failed", "collect"} /\ ew'[e].agent = ew[e].agent
      <4>1. job' = job /\ ew[e].pc = "sync"
        BY <2>8 DEF SyncSession
      <4>2. PICK answer : LET pc == AfterSync(run'.status, answer) IN
              ew' = [ew EXCEPT ![e] =
                       IF pc = "idle" THEN IdleExec
                       ELSE [@ EXCEPT !.pc = pc, !.run = run',
                                      !.infra = (answer = "infra")]]
        BY <2>8 DEF SyncSession
      <4>3. AfterSync(run'.status, answer) \in {"idle", "failed", "collect"}
        BY DEF AfterSync
      <4> QED
        BY <2>1, <4>1, <4>2, <4>3 DEF ExecWorker, IdleExec
    <3>2. PICK pc \in {"idle", "failed", "collect"} : Stage(e, pc, job'.agent)
      BY <3>1 DEF SessionView, Stage
    <3> QED
      BY <1>2, <3>2
  <2>9. CASE SyncSkipped(e) \/ RetryAgent(e) \/ GiveUp(e) \/ PublishFailure(e)
             \/ EnqueueLineComments(e)
    <3>1. PICK pc \in {"idle", "failed", "collect", "publish"} : GoOn(e, pc)
      BY <2>9 DEF SyncSkipped, RetryAgent, GiveUp, PublishFailure,
         EnqueueLineComments, AfterSync
    <3>2. job'.agent = job.agent /\ ew[e].pc # "idle"
      BY <2>1, <2>9 DEF SyncSkipped, RetryAgent, GiveUp, PublishFailure,
         EnqueueLineComments, Job
    <3> QED
      BY <1>3, <3>1, <3>2
  <2>10. CASE CollectResult(e)
    <3>1. PICK pc \in {"idle", "lines"} : Proceed(e, pc)
      BY <2>10 DEF CollectResult
    <3> QED
      BY <1>4, <3>1
  <2> QED
    BY <2>0, <2>2, <2>3, <2>4, <2>5, <2>6, <2>7, <2>8, <2>9, <2>10 DEF ReviewStep
<1>6. CASE \E e \in ExecutionWorkers : SweepStep(e) \/ CrashExecution(e)
  <2>0. PICK e \in ExecutionWorkers : SweepStep(e) \/ CrashExecution(e)
    BY <1>6
  <2>1. job \in Job /\ ew[e] \in ExecWorker /\ ew \in [ExecutionWorkers -> ExecWorker]
    BY DEF TypeOK
  <2>2. CASE SelectActive(e) \/ CancelAgentFails(e)
    <3>1. PICK pc \in {"sweep", "hardPublish"} : Proceed(e, pc)
      BY <2>2 DEF SelectActive, CancelAgentFails
    <3> QED
      BY <1>4, <3>1
  <2>3. CASE EmitHardTimeout(e)
    <3>1. job'.agent = job.agent /\ ew[e].pc = "sweep"
      BY <2>1, <2>3 DEF EmitHardTimeout, Job
    <3>2. ew'[e].pc = "hardTimeout" /\ ew'[e].agent = ew[e].agent
      BY <2>1, <2>3 DEF EmitHardTimeout, ExecWorker
    <3>3. Stage(e, "hardTimeout", job'.agent)
      BY <3>1, <3>2 DEF SessionView, Stage
    <3> QED
      BY <1>2, <3>3
  <2>4. CASE EmitSoftTimeout(e) \/ PublishDelayed(e) \/ CancelAgent(e)
             \/ PublishTimeout(e) \/ EndSweep(e) \/ CrashExecution(e)
    <3>1. PICK pc \in {"softTimeout", "idle", "hardPublish"} : GoOn(e, pc)
      BY <2>4 DEF EmitSoftTimeout, PublishDelayed, CancelAgent, PublishTimeout,
         EndSweep, CrashExecution
    <3>2. job'.agent = job.agent /\ ew[e].pc # "idle"
      BY <2>1, <2>4 DEF EmitSoftTimeout, PublishDelayed, CancelAgent,
         PublishTimeout, EndSweep, CrashExecution, Job
    <3> QED
      BY <1>3, <3>1, <3>2
  <2> QED
    BY <2>0, <2>2, <2>3, <2>4 DEF SweepStep
<1> QED
  BY <1>1, <1>5, <1>6 DEF Next, SessionEnds, executionVars, vars

\* Only a worker about to start a session can make one run.
LEMMA StartsSession ==
    ASSUME TypeOK, SessionView, [Next]_vars, session' = "running",
           session # "running"
    PROVE  job.agent # "started"
<1>1. CASE \E e \in ExecutionWorkers :
             StartSession(e) \/ (\E infra \in BOOLEAN : StartFails(e, infra))
  BY <1>1 DEF StartSession, StartFails, SessionView
<1>2. CASE \E e \in ExecutionWorkers : CrashExecution(e)
  BY <1>2 DEF CrashExecution, SessionView
<1>3. CASE \E e \in ExecutionWorkers : CancelAgent(e)
  BY <1>3 DEF CancelAgent
<1>4. CASE SessionEnds
  BY <1>4 DEF SessionEnds
<1>5. CASE UNCHANGED session
  BY <1>5
<1> QED
  BY <1>1, <1>2, <1>3, <1>4, <1>5
  DEF Next, vars, executionVars, ReviewStep, SweepStep, ClaimReview, CheckSlot,
      PrepareWorkspace, ResumeRun, PrepareFails, StartRejected, SyncSession,
      SyncSkipped, RetryAgent, GiveUp, CollectRaises, PublishFailure,
      CollectResult, EnqueueLineComments, PublishDelayed, PublishTimeout,
      SelectActive, EmitSoftTimeout, EmitHardTimeout, CancelAgentFails, EndSweep

\* With one execution worker, no failure, retry, crash, timeout, delivery or
\* API request makes it start a second session once the run knows its first.
THEOREM OneSession ==
    ASSUME SingleExecutor
    PROVE  Spec => SessionNotRestarted
<1>1. Init => TypeOK /\ ResultText /\ SessionView
  <2>1. Init => ResultText
    BY DEF Init, DeliveryInit, ResultText, NewDelivery, NoDelivery
  <2>2. Init => SessionView
    BY DEF Init, SessionView, IdleExec
  <2> QED
    BY <2>1, <2>2, InitialTypes
<1>2. TypeOK /\ ResultText /\ SessionView /\ [Next]_vars
        => (TypeOK /\ ResultText /\ SessionView)'
  BY NextTypes, StepKeepsRows, SessionViewStep
<1>3. TypeOK /\ SessionView /\ [Next]_vars =>
        [job.agent = "started" /\ session # "running" => session' # "running"]_session
  BY StartsSession
<1> QED
  BY <1>1, <1>2, <1>3, PTL DEF Spec, SessionNotRestarted

-----------------------------------------------------------------------------
(* Leases and events *)

\* The delivery worker at work holds the lease of its row.
LeaseKept ==
    \A w \in DeliveryWorkers :
        dw[w].pc # "idle" => HoldsLease(w, outbox[dw[w].id])

\* No row appears, changes its event, or leaves the state "delivered".
EventsKept ==
    \A i \in Ids :
        /\ outbox'[i].op = outbox[i].op /\ outbox'[i].text = outbox[i].text
        /\ outbox'[i].version = outbox[i].version
        /\ outbox'[i].status = "absent" <=> outbox[i].status = "absent"
        /\ outbox[i].status = "delivered" => outbox'[i].status = "delivered"

\* What a claim does to the rows: k, which was queued or reclaimed, is leased.
LEMMA ClaimedRows ==
    ASSUME TypeOK, NEW w \in DeliveryWorkers, ClaimNextDelivery(w)
    PROVE  EventsKept /\ HoldsLease(w, outbox'[dw'[w].id])
<1>1. PICK expired \in SUBSET Leased, k \in Ids :
        /\ IsNextDelivery(Reclaimed(expired), JoinQueue(earlier, expired), k)
        /\ outbox' = [Reclaimed(expired) EXCEPT ![k] =
                        [@ EXCEPT !.status = "running", !.owner = w,
                                  !.attempt = NextAttempt(Reclaimed(expired)[k]),
                                  !.due = FALSE]]
        /\ dw' = [dw EXCEPT ![w] =
                    [IdleWorker EXCEPT
                       !.pc = "claimed", !.id = k,
                       !.attempt = NextAttempt(Reclaimed(expired)[k])]]
  BY DEF ClaimNextDelivery
<1>2. Reclaimed(expired) \in [Ids -> Delivery]
  BY DEF TypeOK, Reclaimed, Delivery, DeliveryStatus
<1>3. \A j \in Ids :
        /\ Reclaimed(expired)[j].op = outbox[j].op
        /\ Reclaimed(expired)[j].text = outbox[j].text
        /\ Reclaimed(expired)[j].version = outbox[j].version
        /\ \/ Reclaimed(expired)[j].status = outbox[j].status
           \/ Reclaimed(expired)[j].status = "queued" /\ outbox[j].status = "running"
  BY DEF Reclaimed, TypeOK, Delivery, Leased
<1>4. Reclaimed(expired)[k].status = "queued"
  BY <1>1 DEF IsNextDelivery
<1>5. /\ \A j \in Ids \ {k} : outbox'[j] = Reclaimed(expired)[j]
      /\ outbox'[k].op = Reclaimed(expired)[k].op
      /\ outbox'[k].text = Reclaimed(expired)[k].text
      /\ outbox'[k].version = Reclaimed(expired)[k].version
      /\ outbox'[k].status = "running" /\ outbox'[k].owner = w
  BY <1>1, <1>2 DEF Delivery
<1>6. dw'[w].id = k
  BY <1>1 DEF TypeOK, IdleWorker
<1>7. ASSUME NEW j \in Ids
      PROVE  /\ outbox'[j].op = outbox[j].op /\ outbox'[j].text = outbox[j].text
             /\ outbox'[j].version = outbox[j].version
             /\ outbox'[j].status = "absent" <=> outbox[j].status = "absent"
             /\ outbox[j].status = "delivered" => outbox'[j].status = "delivered"
  <2>1. CASE j = k
    BY <1>3, <1>4, <1>5, <2>1
  <2>2. CASE j # k
    BY <1>3, <1>5, <2>2
  <2> QED
    BY <2>1, <2>2
<1> QED
  BY <1>5, <1>6, <1>7 DEF EventsKept, HoldsLease

\* Row i alone changes, and not its event.
LEMMA OneRowKept ==
    ASSUME TypeOK, NEW i \in Ids, NEW d \in Delivery,
           outbox' = [outbox EXCEPT ![i] = d],
           outbox[i].status \notin {"absent", "delivered"}, d.status # "absent",
           d.op = outbox[i].op, d.text = outbox[i].text,
           d.version = outbox[i].version
    PROVE  EventsKept
BY DEF EventsKept, TypeOK

\* Whatever a delivery worker does with its lease, the events stay.
LEMMA DeliveryKeepsEvents ==
    ASSUME TypeOK, LeaseKept, NEW w \in DeliveryWorkers, DeliveryStep(w)
    PROVE  EventsKept
<1> DEFINE i == dw[w].id
<1>0. i \in Ids /\ outbox[i] \in Delivery
  BY DEF TypeOK, Worker
<1>1. CASE UNCHANGED outbox
  BY <1>1 DEF EventsKept
<1>2. CASE ClaimNextDelivery(w)
  BY <1>2, ClaimedRows
<1>3. ASSUME dw[w].pc # "idle"
      PROVE  outbox[i].status = "running"
  BY <1>3 DEF LeaseKept, HoldsLease
<1>4. CASE FinishDelivery(w) /\ ~UNCHANGED outbox
  <2> DEFINE d == [outbox[i] EXCEPT !.status = "delivered", !.owner = NoOwner]
  <2>1. outbox' = [outbox EXCEPT ![i] = d] /\ outbox[i].status = "running"
    BY <1>3, <1>4 DEF FinishDelivery
  <2>2. /\ d \in Delivery /\ d.status # "absent"
        /\ d.op = outbox[i].op /\ d.text = outbox[i].text
        /\ d.version = outbox[i].version
    BY <1>0 DEF Delivery, DeliveryStatus
  <2> HIDE DEF d
  <2> QED
    BY <1>0, <2>1, <2>2, OneRowKept
<1>5. CASE RecordDeliveryFailure(w)
  <2> DEFINE st == IF Exhausted(w) THEN "failed" ELSE "queued"
             d == [outbox[i] EXCEPT !.status = st, !.owner = NoOwner, !.due = FALSE]
  <2>1. outbox' = [outbox EXCEPT ![i] = d] /\ outbox[i].status = "running"
    BY <1>3, <1>5 DEF RecordDeliveryFailure
  <2>2. /\ d \in Delivery /\ d.status # "absent"
        /\ d.op = outbox[i].op /\ d.text = outbox[i].text
        /\ d.version = outbox[i].version
    BY <1>0 DEF Delivery, DeliveryStatus
  <2> HIDE DEF d
  <2> QED
    BY <1>0, <2>1, <2>2, OneRowKept
<1> QED
  BY <1>1, <1>2, <1>4, <1>5 DEF DeliveryStep, ExecuteDelivery, PublishUnchanged,
     FindComment, WriteComment, BindComment, PublishLineComments, ProviderFails,
     CrashDelivery

\* A backoff that ends, or a delivery that is tried again.
Requeues(i) == BackoffElapses(i) \/ RescheduleFailedDelivery(i)

LEMMA RequeueKeepsEvents ==
    ASSUME TypeOK, NEW i \in Ids, Requeues(i)
    PROVE  EventsKept /\ \A j \in Ids : outbox[j].status = "running"
                                          => outbox'[j] = outbox[j]
<1>0. outbox[i] \in Delivery /\ outbox \in [Ids -> Delivery]
  BY DEF TypeOK
<1>1. \A j \in Ids \ {i} : outbox'[j] = outbox[j]
  BY <1>0 DEF Requeues, BackoffElapses, RescheduleFailedDelivery
<1>2. /\ outbox[i].status \in {"queued", "failed"} /\ outbox'[i].status = "queued"
      /\ outbox'[i].op = outbox[i].op /\ outbox'[i].text = outbox[i].text
      /\ outbox'[i].version = outbox[i].version
  <2>1. CASE BackoffElapses(i)
    BY <1>0, <2>1 DEF BackoffElapses, Delivery
  <2>2. CASE RescheduleFailedDelivery(i)
    BY <1>0, <2>2 DEF RescheduleFailedDelivery, Delivery
  <2> QED
    BY <2>1, <2>2 DEF Requeues
<1> QED
  BY <1>1, <1>2 DEF EventsKept

\* Event d is added in a free row.
Adds(d) ==
    \E i \in Ids : /\ outbox[i].status = "absent"
                   /\ outbox' = [outbox EXCEPT ![i] = d]

LEMMA EnqueueAdds ==
    ASSUME NEW d, EnqueueDelivery(d)
    PROVE  Adds(d) \/ (UNCHANGED outbox /\ \E i \in Ids : SameKey(outbox[i], d))
BY DEF EnqueueDelivery, Adds, FreeId

LEMMA AddsKeepsRows ==
    ASSUME TypeOK, NEW d, Adds(d)
    PROVE  \A i \in Ids : outbox[i].status # "absent" => outbox'[i] = outbox[i]
BY DEF Adds, TypeOK

-----------------------------------------------------------------------------
(* The execution worker, when the API requests nothing *)

ExecutionStep(e) == ReviewStep(e) \/ SweepStep(e) \/ CrashExecution(e)

MayEnd == PastGate \ {"lines"}

\* A worker that can still end the execution finds it open, and the slot it
\* has loaded is at the stored version; an execution that has ended cannot be
\* claimed.
ExecutorView ==
    /\ \A e \in ExecutionWorkers :
         /\ ew[e].pc \notin {"idle", "lines"} =>
              run.exec \notin ExecutionEnded /\ ew[e].run.exec \notin ExecutionEnded
         /\ ew[e].pc \in MayEnd => ew[e].slot.version = slot.version
    /\ run.exec \in ExecutionEnded => run.status \notin {"queued", "running"}

\* An execution step that announces nothing.
Silent ==
    /\ UNCHANGED outbox
    /\ slot'.version = slot.version
    /\ slot'.status \in {slot.status, "pending"}
    /\ run.exec \in ExecutionEnded => run'.exec = run.exec
    /\ run'.exec \in ExecutionEnded => run'.exec = run.exec

\* One that announces text: a notice, or how the execution ended.
EventOf(text, version) ==
    NewDelivery(IF text \in TerminalTexts THEN "review_result"
                ELSE "review_progress", text, version)

Announces(text) ==
    /\ run.exec \notin ExecutionEnded
    /\ run'.exec = IF text \in TerminalTexts THEN text ELSE run.exec
    /\ slot'.version = slot.version + 1
    /\ slot'.status \in {slot.status, "finalizing"}
    /\ EnqueueDelivery(EventOf(text, slot.version + 1))

AnnouncesLines ==
    /\ UNCHANGED <<run, slot>>
    /\ EnqueueDelivery(NewDelivery("review_line_comments", "completed", 0))

Loaded(e, pc) ==
    /\ ew'[e].pc = pc
    /\ pc # "idle" => ew'[e].slot = ew[e].slot /\ ew'[e].run \in {ew[e].run, run'}

LEMMA GoOnLoaded ==
    ASSUME TypeOK, NEW e \in ExecutionWorkers, NEW pc, GoOn(e, pc)
    PROVE  Loaded(e, pc)
BY DEF GoOn, Loaded, TypeOK, ExecWorker, IdleExec

LEMMA ProceedLoaded ==
    ASSUME TypeOK, NEW e \in ExecutionWorkers, NEW pc, Proceed(e, pc)
    PROVE  Loaded(e, pc) /\ (pc # "idle" => ew'[e].run = run')
BY DEF Proceed, Loaded, TypeOK, ExecWorker, IdleExec

\* A step that leaves the execution open keeps the worker's view of it.
LEMMA StaysOpen ==
    ASSUME SingleExecutor, ExecutorView, NEW e \in ExecutionWorkers, NEW pc,
           Loaded(e, pc), run'.exec \notin ExecutionEnded,
           \/ ew[e].pc \notin {"idle", "lines"}
           \/ pc # "idle" => ew'[e].run = run',
           slot'.version = slot.version, pc \in MayEnd => ew[e].pc \in MayEnd
    PROVE  ExecutorView'
BY DEF SingleExecutor, ExecutorView, Loaded, MayEnd, PastGate

\* So does a step that sends the worker away.
LEMMA LeavesView ==
    ASSUME SingleExecutor, NEW e \in ExecutionWorkers,
           ew'[e].pc \in {"idle", "lines"},
           run'.exec \in ExecutionEnded => run'.status \notin {"queued", "running"}
    PROVE  ExecutorView'
BY DEF SingleExecutor, ExecutorView, MayEnd, PastGate

LEMMA SetStatusExec ==
    ASSUME TypeOK, NEW e, NEW status, SetStatus(e, status)
    PROVE  run'.exec = run.exec
BY DEF SetStatus, TypeOK, Run

\* Every step of the execution worker but the announcements is silent.
LEMMA SilentReviewStep ==
    ASSUME TypeOK, SingleExecutor, ExecutorView, NEW e \in ExecutionWorkers,
           \/ ClaimReview(e) \/ CheckSlot(e)
           \/ PrepareWorkspace(e) \/ ResumeRun(e) \/ PrepareFails(e)
           \/ StartSession(e) \/ StartRejected(e)
           \/ \E infra \in BOOLEAN : StartFails(e, infra)
           \/ SyncSession(e) \/ SyncSkipped(e) \/ RetryAgent(e) \/ GiveUp(e)
           \/ CollectRaises(e)
    PROVE  ExecutorView' /\ Silent
<1>0. /\ run \in Run /\ slot \in Slot /\ ew[e] \in ExecWorker
      /\ ew \in [ExecutionWorkers -> ExecWorker]
  BY DEF TypeOK
<1>1. ASSUME UNCHANGED <<slot, outbox>>, run'.exec = run.exec
      PROVE  Silent
  BY <1>1 DEF Silent
<1>2. ASSUME ew[e].pc \notin {"idle", "lines"}
      PROVE  run.exec \notin ExecutionEnded /\ ew[e].run.exec \notin ExecutionEnded
  BY <1>2 DEF ExecutorView
<1>3. ASSUME ew[e].pc \in MayEnd, run'.exec = run.exec, UNCHANGED <<slot, outbox>>,
             NEW pc \in ExecStep, GoOn(e, pc) \/ Proceed(e, pc)
      PROVE  ExecutorView' /\ Silent
  <2>1. ew[e].pc \notin {"idle", "lines"}
    BY <1>3 DEF MayEnd, PastGate
  <2>2. Loaded(e, pc)
    BY <1>3, GoOnLoaded, ProceedLoaded
  <2>3. run'.exec \notin ExecutionEnded
    BY <1>2, <1>3, <2>1
  <2> QED
    BY <1>1, <1>3, <2>1, <2>2, <2>3, StaysOpen
<1> USE DEF outboxVars
<1>4. CASE ClaimReview(e)
  <2>1. run.exec \notin ExecutionEnded /\ run'.exec \in {run.exec, "running"}
    BY <1>4 DEF ClaimReview, ExecutorView
  <2>2. run'.exec \notin ExecutionEnded
    BY <2>1 DEF ExecutionEnded
  <2>3. Loaded(e, "gate") /\ ew'[e].run = run'
    BY <1>4, ProceedLoaded DEF ClaimReview
  <2>4. UNCHANGED <<slot, outbox>> /\ "gate" \notin MayEnd
    BY <1>4 DEF ClaimReview, MayEnd, PastGate
  <2>5. Silent
    BY <2>1, <2>2, <2>4 DEF Silent
  <2> QED
    BY <2>2, <2>3, <2>4, <2>5, StaysOpen
<1>5. CASE CheckSlot(e)
  <2>1. ew[e].pc = "gate" /\ UNCHANGED <<run, outbox>>
    BY <1>5 DEF CheckSlot
  <2>2. slot'.version = slot.version /\ slot'.status \in {slot.status, "pending"}
    BY <1>0, <1>5 DEF CheckSlot, Slot
  <2>3. Silent
    BY <2>1, <2>2 DEF Silent
  <2>4. CASE ~SlotOpen(slot)
    <3>1. ew'[e].pc = "idle"
      BY <1>0, <1>5, <2>4 DEF CheckSlot, IdleExec
    <3> QED
      BY <1>2, <2>1, <2>3, <3>1, LeavesView
  <2>5. CASE SlotOpen(slot)
    <3>1. /\ ew'[e].pc = "prepare" /\ ew'[e].run = ew[e].run
          /\ ew'[e].slot.version = slot'.version
      BY <1>0, <1>5, <2>2, <2>5 DEF CheckSlot, ExecWorker
    <3>2. /\ run'.exec \notin ExecutionEnded /\ ew'[e].run.exec \notin ExecutionEnded
      BY <1>2, <2>1, <3>1
    <3> QED
      BY <2>3, <3>1, <3>2 DEF SingleExecutor, ExecutorView
  <2> QED
    BY <2>4, <2>5
<1>6. CASE PrepareWorkspace(e) \/ ResumeRun(e) \/ SyncSkipped(e) \/ GiveUp(e)
  <2>1. ew[e].pc \in MayEnd /\ UNCHANGED <<run, slot, outbox>>
    BY <1>6 DEF PrepareWorkspace, ResumeRun, SyncSkipped, GiveUp, MayEnd, PastGate
  <2>2. PICK pc \in ExecStep : GoOn(e, pc) \/ Proceed(e, pc)
    BY <1>6 DEF PrepareWorkspace, ResumeRun, SyncSkipped, GiveUp, AfterSync, ExecStep
  <2> QED
    BY <1>3, <2>1, <2>2
<1>7. CASE PrepareFails(e) \/ StartSession(e) \/ StartRejected(e) \/ RetryAgent(e)
  <2>1. ew[e].pc \in MayEnd /\ UNCHANGED <<slot, outbox>>
    BY <1>7 DEF PrepareFails, StartSession, StartRejected, RetryAgent, MayEnd, PastGate
  <2>2. run'.exec = run.exec
    BY <1>7, SetStatusExec DEF PrepareFails, StartSession, StartRejected, RetryAgent
  <2>3. PICK pc \in ExecStep : GoOn(e, pc) \/ Proceed(e, pc)
    BY <1>7 DEF PrepareFails, StartSession, StartRejected, RetryAgent, AfterStart,
       ExecStep
  <2> QED
    BY <1>3, <2>1, <2>2, <2>3
<1>8. CASE \E infra \in BOOLEAN : StartFails(e, infra)
  <2>1. ew[e].pc = "start" /\ UNCHANGED <<slot, outbox>>
    BY <1>8 DEF StartFails
  <2>2. run'.exec = run.exec
    BY <1>8, SetStatusExec DEF StartFails
  <2>3. PICK pc \in ExecStep : Loaded(e, pc)
    <3>1. AfterStart(run'.status) \in ExecStep
      BY DEF AfterStart, ExecStep
    <3>2. Loaded(e, AfterStart(run'.status))
      <4>1. PICK infra \in BOOLEAN :
              ew' = [ew EXCEPT ![e] =
                       [ew[e] EXCEPT !.pc = AfterStart(run'.status), !.run = run',
                                     !.infra = infra]]
        BY <1>8 DEF StartFails
      <4>2. /\ ew'[e].pc = AfterStart(run'.status) /\ ew'[e].run = run'
            /\ ew'[e].slot = ew[e].slot
        BY <1>0, <4>1 DEF ExecWorker
      <4> QED
        BY <4>2 DEF Loaded
    <3> QED
      BY <3>1, <3>2
  <2>4. run'.exec \notin ExecutionEnded /\ ew[e].pc \in MayEnd
    BY <1>2, <2>1, <2>2 DEF MayEnd, PastGate
  <2> QED
    BY <1>1, <2>1, <2>2, <2>3, <2>4, StaysOpen
<1>9. CASE SyncSession(e)
  <2>1. ew[e].pc = "sync" /\ UNCHANGED <<slot, outbox>>
    BY <1>9 DEF SyncSession
  <2>2. PICK answer :
          /\ SetStatus(e, SyncedStatus(answer))
          /\ LET pc == AfterSync(run'.status, answer) IN
              ew' = [ew EXCEPT ![e] =
                       IF pc = "idle" THEN IdleExec
                       ELSE [@ EXCEPT !.pc = pc, !.run = run',
                                      !.infra = (answer = "infra")]]
    BY <1>9 DEF SyncSession
  <2>3. run'.exec = run.exec
    BY <2>2, SetStatusExec
  <2>4. PICK pc \in ExecStep : Loaded(e, pc)
    <3>1. AfterSync(run'.status, answer) \in ExecStep
      BY DEF AfterSync, ExecStep
    <3>2. Loaded(e, AfterSync(run'.status, answer))
      BY <1>0, <2>2 DEF Loaded, ExecWorker, IdleExec
    <3> QED
      BY <3>1, <3>2
  <2>5. run'.exec \notin ExecutionEnded /\ ew[e].pc \in MayEnd
    BY <1>2, <2>1, <2>3 DEF MayEnd, PastGate
  <2> QED
    BY <1>1, <2>1, <2>3, <2>4, <2>5, StaysOpen
<1>10. CASE CollectRaises(e)
  <2>1. ew[e].pc \in MayEnd /\ UNCHANGED <<slot, outbox>>
    BY <1>10 DEF CollectRaises, MayEnd, PastGate
  <2>2. run'.exec = run.exec
    BY <1>0, <1>10 DEF CollectRaises, Run
  <2>3. PICK pc \in ExecStep : Proceed(e, pc)
    BY <1>10 DEF CollectRaises, ExecStep
  <2> QED
    BY <1>3, <2>1, <2>2, <2>3
<1> QED
  BY <1>4, <1>5, <1>6, <1>7, <1>8, <1>9, <1>10

LEMMA SilentSweepStep ==
    ASSUME TypeOK, SingleExecutor, ExecutorView, NEW e \in ExecutionWorkers,
           \/ SelectActive(e) \/ EmitSoftTimeout(e) \/ EmitHardTimeout(e)
           \/ CancelAgent(e) \/ CancelAgentFails(e) \/ EndSweep(e)
           \/ CrashExecution(e)
    PROVE  ExecutorView' /\ Silent
<1>0. /\ run \in Run /\ ew[e] \in ExecWorker /\ ew \in [ExecutionWorkers -> ExecWorker]
  BY DEF TypeOK
<1> USE DEF outboxVars
<1>1. UNCHANGED <<slot, outbox>>
  BY DEF SelectActive, EmitSoftTimeout, EmitHardTimeout, CancelAgent,
     CancelAgentFails, EndSweep, CrashExecution
<1>2. run'.exec = run.exec
  BY SetStatusExec DEF SelectActive, EmitSoftTimeout, EmitHardTimeout, CancelAgent,
     CancelAgentFails, EndSweep, CrashExecution
<1>3. Silent
  BY <1>1, <1>2 DEF Silent
<1>4. CASE SelectActive(e)
  <2>1. run'.exec \notin ExecutionEnded
    BY <1>4 DEF SelectActive, ExecutorView
  <2>2. Loaded(e, "sweep") /\ ew'[e].run = run' /\ "sweep" \notin MayEnd
    BY <1>4, ProceedLoaded DEF SelectActive, MayEnd, PastGate
  <2> QED
    BY <1>1, <1>3, <2>1, <2>2, StaysOpen
<1>5. CASE EmitSoftTimeout(e) \/ CancelAgent(e) \/ CancelAgentFails(e)
  <2>1. ew[e].pc \in {"sweep", "hardTimeout"}
    BY <1>5 DEF EmitSoftTimeout, CancelAgent, CancelAgentFails
  <2>2. PICK pc \in {"softTimeout", "hardPublish"} : Loaded(e, pc)
    BY <1>5, GoOnLoaded, ProceedLoaded
    DEF EmitSoftTimeout, CancelAgent, CancelAgentFails
  <2>3. run'.exec \notin ExecutionEnded /\ pc \notin MayEnd
    BY <1>2, <2>1, <2>2 DEF ExecutorView, MayEnd, PastGate
  <2> QED
    BY <1>1, <1>3, <2>1, <2>2, <2>3, StaysOpen
<1>6. CASE EmitHardTimeout(e)
  <2>1. ew[e].pc = "sweep"
    BY <1>6 DEF EmitHardTimeout
  <2>2. ew'[e].pc = "hardTimeout" /\ ew'[e].run.exec = ew[e].run.exec
    BY <1>0, <1>6 DEF EmitHardTimeout, ExecWorker, Run
  <2>3. run.exec \notin ExecutionEnded /\ ew[e].run.exec \notin ExecutionEnded
    BY <2>1 DEF ExecutorView
  <2> QED
    BY <1>2, <1>3, <2>2, <2>3 DEF SingleExecutor, ExecutorView, MayEnd, PastGate
<1>7. CASE EndSweep(e) \/ CrashExecution(e)
  <2>1. Loaded(e, "idle") /\ UNCHANGED run
    BY <1>7, GoOnLoaded DEF EndSweep, CrashExecution
  <2>2. ew'[e].pc = "idle"
    BY <2>1 DEF Loaded
  <2> QED
    BY <1>3, <2>1, <2>2, LeavesView DEF ExecutorView
<1> QED
  BY <1>4, <1>5, <1>6, <1>7

\* A status event that a worker publishes over the slot it has loaded, or the
\* stored one.
LEMMA PublishAnnounces ==
    ASSUME TypeOK, NEW e \in ExecutionWorkers,
           NEW text \in {"delayed", "failed", "completed"},
           NEW view \in Slot, view.version = slot.version,
           run.exec \notin ExecutionEnded, ew[e].run.exec \notin ExecutionEnded,
           EnqueueStatus(text, ew[e].run, view)
    PROVE  /\ Announces(text)
           /\ run'.exec \in ExecutionEnded => run'.status \notin {"queued", "running"}
<1>0. run \in Run /\ slot \in Slot
  BY DEF TypeOK
<1>1. /\ slot'.version = slot.version + 1
      /\ slot'.status \in {slot.status, "finalizing"}
  BY <1>0 DEF EnqueueStatus, Slot
<1>2. EnqueueDelivery(EventOf(text, slot.version + 1))
  BY DEF EnqueueStatus, EventOf
<1>3. CASE text \in TerminalTexts
  <2>1. EndOfExecution(text) = text /\ text \in ExecutionEnded
    BY <1>3 DEF EndOfExecution, TerminalTexts, ExecutionEnded
  <2>2. Flush(run.exec, ew[e].run.exec, text) = text
    BY <2>1 DEF Flush
  <2>3. run'.status = "awaiting_delivery" /\ run'.exec = text
    BY <1>3, <2>1, <2>2 DEF EnqueueStatus
  <2> QED
    BY <1>1, <1>2, <1>3, <2>3 DEF Announces
<1>4. CASE text \notin TerminalTexts
  <2>1. run' = run
    BY <1>4 DEF EnqueueStatus
  <2> QED
    BY <1>1, <1>2, <1>4, <2>1 DEF Announces
<1> QED
  BY <1>3, <1>4

LEMMA AnnouncingStep ==
    ASSUME TypeOK, SingleExecutor, ExecutorView, NEW e \in ExecutionWorkers,
           \/ PublishFailure(e) \/ CollectResult(e)
           \/ PublishDelayed(e) \/ PublishTimeout(e)
    PROVE  /\ ExecutorView'
           /\ \E text \in {"delayed", "failed", "completed"} : Announces(text)
<1>0. slot \in Slot /\ ew[e] \in ExecWorker
  BY DEF TypeOK
<1>1. ew[e].pc \in {"publish", "collect", "softTimeout", "hardPublish"}
  BY DEF PublishFailure, CollectResult, PublishDelayed, PublishTimeout
<1>2. run.exec \notin ExecutionEnded /\ ew[e].run.exec \notin ExecutionEnded
  BY <1>1 DEF ExecutorView
<1>3. PICK text \in {"delayed", "failed", "completed"}, view \in {slot, ew[e].slot} :
        EnqueueStatus(text, ew[e].run, view) /\ view.version = slot.version
  <2>1. ew[e].pc \in {"publish", "collect"} => ew[e].slot.version = slot.version
    BY DEF ExecutorView, MayEnd, PastGate
  <2>2. CASE PublishFailure(e)
    BY <2>1, <2>2 DEF PublishFailure
  <2>3. CASE CollectResult(e)
    BY <2>1, <2>3 DEF CollectResult
  <2>4. CASE PublishDelayed(e)
    BY <2>4 DEF PublishDelayed
  <2>5. CASE PublishTimeout(e)
    BY <2>5 DEF PublishTimeout
  <2> QED
    BY <2>2, <2>3, <2>4, <2>5
<1>4. view \in Slot
  BY <1>0 DEF ExecWorker
<1>5. /\ Announces(text)
      /\ run'.exec \in ExecutionEnded => run'.status \notin {"queued", "running"}
  BY <1>2, <1>3, <1>4, PublishAnnounces
<1>6. PICK pc \in {"idle", "lines"} : GoOn(e, pc) \/ Proceed(e, pc)
  BY DEF PublishFailure, CollectResult, PublishDelayed, PublishTimeout
<1>7. ew'[e].pc \in {"idle", "lines"}
  BY <1>6, GoOnLoaded, ProceedLoaded DEF Loaded
<1> QED
  BY <1>5, <1>7, LeavesView

\* The three things a step of the execution worker can do to the outbox.
LEMMA ExecutionEffect ==
    ASSUME TypeOK, SingleExecutor, ExecutorView, NEW e \in ExecutionWorkers,
           ExecutionStep(e)
    PROVE  /\ ExecutorView'
           /\ \/ Silent
              \/ \E text \in {"delayed", "failed", "completed"} : Announces(text)
              \/ AnnouncesLines
<1>1. CASE EnqueueLineComments(e)
  <2>1. AnnouncesLines /\ Loaded(e, "idle")
    BY <1>1, GoOnLoaded DEF EnqueueLineComments, AnnouncesLines
  <2>2. ew'[e].pc = "idle" /\ UNCHANGED run
    BY <2>1 DEF Loaded, AnnouncesLines
  <2>3. ExecutorView'
    BY <2>2, LeavesView DEF ExecutorView
  <2> QED
    BY <2>1, <2>3
<1>2. CASE \/ PublishFailure(e) \/ CollectResult(e)
           \/ PublishDelayed(e) \/ PublishTimeout(e)
  BY <1>2, AnnouncingStep
<1>3. CASE \/ SelectActive(e) \/ EmitSoftTimeout(e) \/ EmitHardTimeout(e)
           \/ CancelAgent(e) \/ CancelAgentFails(e) \/ EndSweep(e)
           \/ CrashExecution(e)
  BY <1>3, SilentSweepStep
<1>4. CASE \/ ClaimReview(e) \/ CheckSlot(e)
           \/ PrepareWorkspace(e) \/ ResumeRun(e) \/ PrepareFails(e)
           \/ StartSession(e) \/ StartRejected(e)
           \/ \E infra \in BOOLEAN : StartFails(e, infra)
           \/ SyncSession(e) \/ SyncSkipped(e) \/ RetryAgent(e) \/ GiveUp(e)
           \/ CollectRaises(e)
  BY <1>4, SilentReviewStep
<1> QED
  BY <1>1, <1>2, <1>3, <1>4 DEF ExecutionStep, ReviewStep, SweepStep

-----------------------------------------------------------------------------
(* What the outbox says *)

\* Notices and results, which change the slot's version.
Versioned(d) == d.op \in {"review_progress", "review_result"}

\* The events of the run: the placeholder in row 1, notices and results with
\* versions of their own up to the slot's, and the line comments.
Rows ==
    /\ outbox[1].status # "absent" /\ outbox[1].op = "review_placeholder"
    /\ outbox[1].version = 0
    /\ \A i \in Ids :
         /\ outbox[i].status = "absent" => outbox[i].op = "review_placeholder"
         /\ outbox[i].op = "review_placeholder" => outbox[i].status = "absent" \/ i = 1
         /\ Versioned(outbox[i]) => outbox[i].version \in 1..slot.version
         /\ outbox[i].op \in {"review_placeholder", "review_progress"}
              => outbox[i].text \notin TerminalTexts
    /\ \A i, j \in Ids :
         /\ Versioned(outbox[i]) /\ Versioned(outbox[j])
         /\ outbox[i].version = outbox[j].version
         => i = j

\* Nothing happens to the run before its placeholder is delivered.
PlaceholderLeads ==
    outbox[1].status # "delivered" =>
        /\ slot.version = 0
        /\ run = [status |-> "awaiting_delivery", exec |-> "pending"]
        /\ \A i \in Ids \ {1} : outbox[i].status = "absent"
        /\ \A e \in ExecutionWorkers : ew[e].pc = "idle"

\* A result is the last word: it says how the execution ended, at the version
\* of the slot.
ResultIsLast ==
    \A i \in Ids : outbox[i].op = "review_result" =>
        /\ run.exec \in ExecutionEnded
        /\ outbox[i].text = run.exec /\ outbox[i].version = slot.version

OutboxInv == LeaseKept /\ Rows /\ PlaceholderLeads /\ ResultIsLast /\ ExecutorView

\* The steps, when the API requests nothing.
LEMMA StepForms ==
    ASSUME ApiRequests = {}, [Next]_vars
    PROVE  \/ \E w \in DeliveryWorkers : DeliveryStep(w) /\ UNCHANGED executionVars
           \/ \E i \in Ids : /\ Requeues(i)
                             /\ UNCHANGED <<run, slot, ref, comments, dw, job, ew>>
           \/ \E e \in ExecutionWorkers :
                ExecutionStep(e) /\ UNCHANGED <<ref, comments, dw>>
           \/ UNCHANGED <<run, slot, outbox, ref, comments, dw, job, ew>>
<1>1. CASE ApiStep /\ UNCHANGED executionVars
  BY <1>1 DEF ApiStep, RescheduleFailedDelivery, Requeues, executionVars
<1>2. CASE \E i \in Ids : BackoffElapses(i) /\ UNCHANGED executionVars
  BY <1>2 DEF BackoffElapses, Requeues, executionVars
<1>3. CASE \E e \in ExecutionWorkers : ExecutionStep(e)
  <2>1. PICK e \in ExecutionWorkers : ExecutionStep(e)
    BY <1>3
  <2>2. UNCHANGED <<ref, comments, dw>>
    BY <2>1 DEF ExecutionStep, ReviewStep, SweepStep, ClaimReview, CheckSlot,
      PrepareWorkspace, ResumeRun, PrepareFails, StartSession, StartFails,
      StartRejected, SyncSession, SyncSkipped, RetryAgent, GiveUp, CollectRaises,
      PublishFailure, CollectResult, EnqueueLineComments, PublishDelayed,
      PublishTimeout, SelectActive, EmitSoftTimeout, EmitHardTimeout, CancelAgent,
      CancelAgentFails, EndSweep, CrashExecution, outboxVars
  <2> QED
    BY <2>1, <2>2
<1>4. CASE SessionEnds \/ UNCHANGED vars
  BY <1>4 DEF SessionEnds, vars, outboxVars
<1> QED
  BY <1>1, <1>2, <1>3, <1>4 DEF Next, ExecutionStep

\* A status event has a version that no row has yet, so it is added.
LEMMA AnnouncementAdds ==
    ASSUME TypeOK, Rows, NEW text \in {"delayed", "failed", "completed"},
           Announces(text)
    PROVE  Adds(EventOf(text, slot.version + 1))
<1> DEFINE d == EventOf(text, slot.version + 1)
<1>1. slot.version \in Nat
  BY DEF TypeOK, Slot
<1>2. Versioned(d) /\ d.version = slot.version + 1
  BY DEF EventOf, NewDelivery, Versioned
<1>3. ASSUME NEW i \in Ids
      PROVE  ~SameKey(outbox[i], d)
  BY <1>1, <1>2, <1>3 DEF Rows, SameKey, Versioned
<1>4. EnqueueDelivery(d)
  BY DEF Announces
<1> HIDE DEF d
<1> QED
  BY <1>3, <1>4, EnqueueAdds DEF d

\* An execution step leaves every row that exists as it is.
LEMMA ExecutionKeepsRows ==
    ASSUME TypeOK, Rows,
           \/ Silent
           \/ \E text \in {"delayed", "failed", "completed"} : Announces(text)
           \/ AnnouncesLines
    PROVE  \A i \in Ids : outbox[i].status # "absent" => outbox'[i] = outbox[i]
<1>1. CASE Silent
  BY <1>1 DEF Silent
<1>2. CASE \E text \in {"delayed", "failed", "completed"} : Announces(text)
  BY <1>2, AnnouncementAdds, AddsKeepsRows
<1>3. CASE AnnouncesLines
  BY <1>3, EnqueueAdds, AddsKeepsRows DEF AnnouncesLines
<1> QED
  BY <1>1, <1>2, <1>3

LEMMA LeaseDelivery ==
    ASSUME TypeOK, LeaseKept, SingleDeliverer, NEW w \in DeliveryWorkers,
           DeliveryStep(w)
    PROVE  LeaseKept'
<1>0. \A v \in DeliveryWorkers : v = w
  BY DEF SingleDeliverer
<1>1. dw'[w].pc # "idle" => HoldsLease(w, outbox'[dw'[w].id])
  <2>1. CASE ClaimNextDelivery(w)
    BY <2>1, ClaimedRows
  <2>2. CASE \/ ExecuteDelivery(w) \/ PublishUnchanged(w) \/ FindComment(w)
             \/ WriteComment(w) \/ BindComment(w) \/ PublishLineComments(w)
             \/ ProviderFails(w)
    <3>1. dw'[w].id = dw[w].id
      BY <2>2, DelivererMoves DEF Moves
    <3>2. dw[w].pc # "idle" /\ outbox' = outbox
      BY <2>2 DEF ExecuteDelivery, PublishUnchanged, FindComment, WriteComment,
         BindComment, PublishLineComments, ProviderFails
    <3> QED
      BY <3>1, <3>2 DEF LeaseKept
  <2>3. CASE FinishDelivery(w) \/ RecordDeliveryFailure(w) \/ CrashDelivery(w)
    BY <2>3, DelivererMoves
  <2> QED
    BY <2>1, <2>2, <2>3 DEF DeliveryStep
<1> QED
  BY <1>0, <1>1 DEF LeaseKept, HoldsLease

\* A delivery leaves the slot's version and the end of the execution alone,
\* and never makes an ended run claimable.
LEMMA DeliveryKeepsVersion ==
    ASSUME TypeOK, ResultText, NEW w \in DeliveryWorkers, DeliveryStep(w)
    PROVE  /\ slot'.version = slot.version /\ run'.exec = run.exec
           /\ run.exec \in ExecutionEnded /\ run.status \notin {"queued", "running"}
                => run'.status \notin {"queued", "running"}
<1>0. run \in Run /\ slot \in Slot /\ dw[w].id \in Ids
  BY DEF TypeOK, Worker
<1>1. CASE UNCHANGED <<run, slot>>
  BY <1>1
<1>2. CASE BindComment(w)
  BY <1>0, <1>2 DEF BindComment, Slot
<1>3. CASE FinishDelivery(w) /\ ~UNCHANGED <<run, slot>>
  <2>1. /\ slot' = SlotAfterSuccess(outbox[dw[w].id], dw[w].comment)
        /\ run' = [run EXCEPT !.status = StatusAfterSuccess(dw[w].id)]
    BY <1>3 DEF FinishDelivery
  <2>2. slot'.version = slot.version
    BY <1>0, <2>1 DEF SlotAfterSuccess, Slot
  <2>3. run'.exec = run.exec /\ run'.status = StatusAfterSuccess(dw[w].id)
    BY <1>0, <2>1 DEF Run
  <2>4. FinalStatus(outbox[dw[w].id]) # "none"
          => FinalStatus(outbox[dw[w].id]) \notin {"queued", "running"}
    BY <1>0 DEF FinalStatus, ResultText, TerminalTexts
  <2> QED
    BY <2>2, <2>3, <2>4 DEF StatusAfterSuccess
<1>4. CASE RecordDeliveryFailure(w)
  <2>1. slot'.version = slot.version
    BY <1>0, <1>4 DEF RecordDeliveryFailure, Slot
  <2>2. run'.exec = run.exec /\ run'.status \in {run.status, "failed"}
    BY <1>0, <1>4 DEF RecordDeliveryFailure, Run, Flush
  <2> QED
    BY <2>1, <2>2
<1> QED
  BY <1>1, <1>2, <1>3, <1>4 DEF DeliveryStep, ClaimNextDelivery, ExecuteDelivery,
     PublishUnchanged, FindComment, WriteComment, PublishLineComments,
     ProviderFails, CrashDelivery

\* Rows and the last word depend on the events and on the run's state only.
LEMMA EventsKeepRows ==
    ASSUME TypeOK, Rows, ResultIsLast, EventsKept, slot'.version = slot.version,
           run.exec \in ExecutionEnded => run'.exec = run.exec
    PROVE  Rows' /\ ResultIsLast'
<1>0. 1 \in Ids
  BY BoundAssumption DEF Ids
<1>1. \A i \in Ids : Versioned(outbox[i])' <=> Versioned(outbox[i])
  BY DEF EventsKept, Versioned
<1>2. Rows'
  BY <1>0, <1>1 DEF Rows, EventsKept
<1>3. ResultIsLast'
  BY DEF ResultIsLast, EventsKept
<1> QED
  BY <1>2, <1>3

\* A delivery before the placeholder is delivered is the placeholder's.
LEMMA PlaceholderDelivery ==
    ASSUME TypeOK, LeaseKept, Rows, PlaceholderLeads, EventsKept,
           NEW w \in DeliveryWorkers, DeliveryStep(w), UNCHANGED executionVars,
           slot'.version = slot.version
    PROVE  PlaceholderLeads'
<1>0. 1 \in Ids /\ dw[w].id \in Ids /\ outbox \in [Ids -> Delivery]
  BY BoundAssumption DEF Ids, TypeOK, Worker
<1> SUFFICES ASSUME outbox'[1].status # "delivered"
             PROVE  /\ slot'.version = 0
                    /\ run' = [status |-> "awaiting_delivery", exec |-> "pending"]
                    /\ \A i \in Ids \ {1} : outbox'[i].status = "absent"
                    /\ \A e \in ExecutionWorkers : ew'[e].pc = "idle"
  BY DEF PlaceholderLeads
<1>1. outbox[1].status # "delivered"
  BY <1>0 DEF EventsKept
<1>2. dw[w].pc # "idle" => dw[w].id = 1
  BY <1>0, <1>1 DEF LeaseKept, HoldsLease, PlaceholderLeads
<1>3. run' = run
  <2>1. CASE FinishDelivery(w)
    <3>1. dw[w].id = 1 /\ HoldsLease(w, outbox[1])
      BY <1>2, <2>1 DEF FinishDelivery, LeaseKept
    <3>2. outbox'[1].status = "delivered"
      BY <1>0, <2>1, <3>1 DEF FinishDelivery, Delivery
    <3> QED
      BY <3>2
  <2>2. CASE RecordDeliveryFailure(w)
    <3>1. outbox[dw[w].id].op = "review_placeholder"
      BY <1>2, <2>2 DEF RecordDeliveryFailure, Rows
    <3> QED
      BY <2>2, <3>1 DEF RecordDeliveryFailure, Exhausted
  <2> QED
    BY <2>1, <2>2 DEF DeliveryStep, ClaimNextDelivery, ExecuteDelivery,
       PublishUnchanged, FindComment, WriteComment, BindComment,
       PublishLineComments, ProviderFails, CrashDelivery
<1> QED
  BY <1>1, <1>3 DEF PlaceholderLeads, EventsKept, executionVars

\* No execution step is taken before the placeholder is delivered.
LEMMA ExecutionAfterPlaceholder ==
    ASSUME PlaceholderLeads, NEW e \in ExecutionWorkers, ExecutionStep(e)
    PROVE  outbox[1].status = "delivered"
<1> SUFFICES ASSUME ew[e].pc = "idle", run.status = "awaiting_delivery"
             PROVE  FALSE
  BY DEF PlaceholderLeads
<1> QED
  BY DEF ExecutionStep, ReviewStep, SweepStep, ClaimReview, CheckSlot,
      PrepareWorkspace, ResumeRun, PrepareFails, StartSession, StartFails,
      StartRejected, SyncSession, SyncSkipped, RetryAgent, GiveUp, CollectRaises,
      PublishFailure, CollectResult, EnqueueLineComments, PublishDelayed,
      PublishTimeout, SelectActive, EmitSoftTimeout, EmitHardTimeout, CancelAgent,
      CancelAgentFails, EndSweep, CrashExecution

\* An announcement adds the one event of the slot's next version.
LEMMA AnnouncementRows ==
    ASSUME TypeOK, Rows, ResultIsLast, NEW text \in {"delayed", "failed", "completed"},
           Announces(text)
    PROVE  Rows' /\ ResultIsLast'
<1>0. 1 \in Ids /\ slot.version \in Nat /\ outbox \in [Ids -> Delivery]
  BY BoundAssumption DEF Ids, TypeOK, Slot
<1>1. PICK k \in Ids : /\ outbox[k].status = "absent"
                       /\ outbox' = [outbox EXCEPT ![k] = EventOf(text, slot.version + 1)]
  BY AnnouncementAdds DEF Adds
<1>2. PICK d : d = EventOf(text, slot.version + 1)
  OBVIOUS
<1>3. /\ d.status = "queued" /\ d.text = text /\ d.version = slot.version + 1
      /\ d.op = IF text \in TerminalTexts THEN "review_result" ELSE "review_progress"
  BY <1>2 DEF EventOf, NewDelivery
<1>4. outbox'[k] = d /\ \A i \in Ids \ {k} : outbox'[i] = outbox[i]
  BY <1>0, <1>1, <1>2
<1>5. k # 1 /\ ~Versioned(outbox[k])
  BY <1>1 DEF Rows, Versioned
<1>6. slot'.version = slot.version + 1
  BY DEF Announces
<1>7. Rows'
  <2>1. /\ outbox'[1].status # "absent" /\ outbox'[1].op = "review_placeholder"
        /\ outbox'[1].version = 0
    BY <1>0, <1>4, <1>5 DEF Rows
  <2>2. ASSUME NEW i \in Ids
        PROVE  /\ outbox'[i].status = "absent" => outbox'[i].op = "review_placeholder"
               /\ outbox'[i].op = "review_placeholder" => outbox'[i].status = "absent" \/ i = 1
               /\ Versioned(outbox'[i]) => outbox'[i].version \in 1..slot'.version
               /\ outbox'[i].op \in {"review_placeholder", "review_progress"}
                    => outbox'[i].text \notin TerminalTexts
    <3>1. CASE i = k
      BY <1>0, <1>3, <1>4, <1>6, <3>1 DEF Versioned
    <3>2. CASE i # k
      BY <1>0, <1>4, <1>6, <3>2 DEF Rows
    <3> QED
      BY <3>1, <3>2
  <2>3. ASSUME NEW i \in Ids, NEW j \in Ids, Versioned(outbox'[i]),
               Versioned(outbox'[j]), outbox'[i].version = outbox'[j].version
        PROVE  i = j
    <3>1. \A m \in Ids \ {k} : Versioned(outbox'[m]) => outbox'[m].version # slot.version + 1
      BY <1>0, <1>4 DEF Rows
    <3> QED
      BY <1>3, <1>4, <2>3, <3>1 DEF Rows
  <2> QED
    BY <2>1, <2>2, <2>3 DEF Rows, Versioned
<1>8. ResultIsLast'
  <2>1. \A i \in Ids : outbox[i].op # "review_result"
    BY DEF Announces, ResultIsLast
  <2>2. text \in TerminalTexts => run'.exec = text /\ text \in ExecutionEnded
    BY DEF Announces, TerminalTexts, ExecutionEnded
  <2>3. ASSUME NEW i \in Ids, outbox'[i].op = "review_result"
        PROVE  /\ run'.exec \in ExecutionEnded
               /\ outbox'[i].text = run'.exec /\ outbox'[i].version = slot'.version
    BY <1>3, <1>4, <1>6, <2>1, <2>2, <2>3
  <2> QED
    BY <2>3 DEF ResultIsLast
<1> QED
  BY <1>7, <1>8

LEMMA LineCommentRows ==
    ASSUME TypeOK, Rows, ResultIsLast, AnnouncesLines
    PROVE  Rows' /\ ResultIsLast'
<1>0. 1 \in Ids /\ outbox \in [Ids -> Delivery]
  BY BoundAssumption DEF Ids, TypeOK
<1>1. PICK d : d = NewDelivery("review_line_comments", "completed", 0)
  OBVIOUS
<1>2. d.op = "review_line_comments" /\ d.status = "queued"
  BY <1>1 DEF NewDelivery
<1>3. UNCHANGED <<run, slot>>
  BY DEF AnnouncesLines
<1>4. CASE UNCHANGED outbox
  BY <1>3, <1>4 DEF Rows, ResultIsLast, Versioned
<1>5. CASE Adds(d)
  <2>1. PICK k \in Ids : outbox[k].status = "absent" /\ outbox' = [outbox EXCEPT ![k] = d]
    BY <1>5 DEF Adds
  <2>2. outbox'[k] = d /\ \A i \in Ids \ {k} : outbox'[i] = outbox[i]
    BY <1>0, <2>1
  <2>3. k # 1
    BY <2>1 DEF Rows
  <2>4. ~Versioned(outbox'[k]) /\ outbox'[k].op # "review_result"
    BY <1>2, <2>2 DEF Versioned
  <2>5. Rows'
    <3>1. /\ outbox'[1].status # "absent" /\ outbox'[1].op = "review_placeholder"
          /\ outbox'[1].version = 0
      BY <1>0, <2>2, <2>3 DEF Rows
    <3>2. \A i \in Ids :
            /\ outbox'[i].status = "absent" => outbox'[i].op = "review_placeholder"
            /\ outbox'[i].op = "review_placeholder" => outbox'[i].status = "absent" \/ i = 1
            /\ Versioned(outbox'[i]) => outbox'[i].version \in 1..slot'.version
            /\ outbox'[i].op \in {"review_placeholder", "review_progress"}
                 => outbox'[i].text \notin TerminalTexts
      BY <1>2, <1>3, <2>2, <2>4 DEF Rows
    <3>3. ASSUME NEW i \in Ids, NEW j \in Ids, Versioned(outbox'[i]),
                 Versioned(outbox'[j]), outbox'[i].version = outbox'[j].version
          PROVE  i = j
      BY <2>2, <2>4, <3>3 DEF Rows
    <3> QED
      BY <3>1, <3>2, <3>3 DEF Rows, Versioned
  <2>6. ResultIsLast'
    BY <1>3, <2>2, <2>4 DEF ResultIsLast
  <2> QED
    BY <2>5, <2>6
<1> QED
  BY <1>1, <1>4, <1>5, EnqueueAdds DEF AnnouncesLines

LEMMA OutboxStep ==
    ASSUME TypeOK, ResultText, OutboxInv, SingleDeliverer, SingleExecutor,
           ApiRequests = {}, [Next]_vars
    PROVE  OutboxInv'
<1> USE DEF OutboxInv
<1>1. CASE \E w \in DeliveryWorkers : DeliveryStep(w) /\ UNCHANGED executionVars
  <2>0. PICK w \in DeliveryWorkers : DeliveryStep(w) /\ UNCHANGED executionVars
    BY <1>1
  <2>1. EventsKept
    BY <2>0, DeliveryKeepsEvents
  <2>2. /\ slot'.version = slot.version /\ run'.exec = run.exec
        /\ run.exec \in ExecutionEnded /\ run.status \notin {"queued", "running"}
             => run'.status \notin {"queued", "running"}
    BY <2>0, DeliveryKeepsVersion
  <2>3. LeaseKept' /\ PlaceholderLeads'
    BY <2>0, <2>1, <2>2, LeaseDelivery, PlaceholderDelivery
  <2>4. Rows' /\ ResultIsLast'
    BY <2>1, <2>2, EventsKeepRows
  <2>5. ExecutorView'
    BY <2>0, <2>2 DEF ExecutorView, executionVars
  <2> QED
    BY <2>3, <2>4, <2>5
<1>2. CASE \E i \in Ids : /\ Requeues(i)
                          /\ UNCHANGED <<run, slot, ref, comments, dw, job, ew>>
  <2>0. PICK i \in Ids : /\ Requeues(i)
                         /\ UNCHANGED <<run, slot, ref, comments, dw, job, ew>>
    BY <1>2
  <2>1. EventsKept /\ \A j \in Ids : outbox[j].status = "running"
                                       => outbox'[j] = outbox[j]
    BY <2>0, RequeueKeepsEvents
  <2>2. LeaseKept'
    BY <2>0, <2>1 DEF LeaseKept, HoldsLease, TypeOK, Worker
  <2>3. Rows' /\ ResultIsLast'
    BY <2>0, <2>1, EventsKeepRows
  <2>4. PlaceholderLeads'
    <3>1. 1 \in Ids
      BY BoundAssumption DEF Ids
    <3> QED
      BY <2>0, <2>1, <3>1 DEF PlaceholderLeads, EventsKept
  <2>5. ExecutorView'
    BY <2>0 DEF ExecutorView
  <2> QED
    BY <2>2, <2>3, <2>4, <2>5
<1>3. CASE \E e \in ExecutionWorkers : ExecutionStep(e) /\ UNCHANGED <<ref, comments, dw>>
  <2>0. PICK e \in ExecutionWorkers : ExecutionStep(e) /\ UNCHANGED <<ref, comments, dw>>
    BY <1>3
  <2>1. /\ ExecutorView'
        /\ \/ Silent
           \/ \E text \in {"delayed", "failed", "completed"} : Announces(text)
           \/ AnnouncesLines
    BY <2>0, ExecutionEffect
  <2>2. \A i \in Ids : outbox[i].status # "absent" => outbox'[i] = outbox[i]
    BY <2>1, ExecutionKeepsRows
  <2>3. LeaseKept'
    BY <2>0, <2>2 DEF LeaseKept, HoldsLease, TypeOK, Worker
  <2>4. PlaceholderLeads'
    <3>1. 1 \in Ids /\ outbox[1].status = "delivered"
      BY <2>0, BoundAssumption, ExecutionAfterPlaceholder DEF Ids
    <3> QED
      BY <2>2, <3>1 DEF PlaceholderLeads
  <2>5. Rows' /\ ResultIsLast'
    <3>1. CASE Silent
      <4>1. EventsKept
        BY <3>1 DEF Silent, EventsKept
      <4> QED
        BY <3>1, <4>1, EventsKeepRows DEF Silent
    <3> QED
      BY <2>1, <3>1, AnnouncementRows, LineCommentRows
  <2> QED
    BY <2>1, <2>3, <2>4, <2>5
<1>4. CASE UNCHANGED <<run, slot, outbox, ref, comments, dw, job, ew>>
  BY <1>4 DEF LeaseKept, HoldsLease, Rows, Versioned, PlaceholderLeads, ResultIsLast,
     ExecutorView
<1> QED
  BY <1>1, <1>2, <1>3, <1>4, StepForms

LEMMA InitialOutbox == Init => OutboxInv
<1> SUFFICES ASSUME Init PROVE OutboxInv
  OBVIOUS
<1>0. 1 \in Ids
  BY BoundAssumption DEF Ids
<1>1. /\ outbox[1].status = "queued" /\ outbox[1].op = "review_placeholder"
      /\ outbox[1].version = 0
      /\ \A i \in Ids : /\ outbox[i].op = "review_placeholder"
                        /\ outbox[i].text \notin TerminalTexts
                        /\ i # 1 => outbox[i].status = "absent"
  BY <1>0 DEF Init, DeliveryInit, NewDelivery, NoDelivery, TerminalTexts
<1>2. /\ run = [status |-> "awaiting_delivery", exec |-> "pending"]
      /\ slot.version = 0
      /\ \A w \in DeliveryWorkers : dw[w].pc = "idle"
      /\ \A e \in ExecutionWorkers : ew[e].pc = "idle"
  BY DEF Init, DeliveryInit, IdleWorker, IdleExec
<1>3. Rows /\ ResultIsLast
  BY <1>1 DEF Rows, Versioned, ResultIsLast
<1>4. LeaseKept /\ PlaceholderLeads /\ ExecutorView
  BY <1>1, <1>2 DEF LeaseKept, PlaceholderLeads, ExecutorView, MayEnd, PastGate,
     ExecutionEnded
<1> QED
  BY <1>3, <1>4 DEF OutboxInv

-----------------------------------------------------------------------------
(* What the comment shows *)

\* The comment shows event i.
Shown(i) ==
    \A c \in DOMAIN comments : /\ comments[c].text = outbox[i].text
                               /\ comments[c].version = outbox[i].version

ResultShown ==
    comments # <<>> /\ \E i \in Ids : outbox[i].op = "review_result" /\ Shown(i)

\* The comment is never ahead of the slot, nor of the event that a worker is
\* about to write; a worker that has written, or that found nothing to write
\* for a result, leaves its event on show.
CommentOrder ==
    /\ \A c \in DOMAIN comments : comments[c].version <= slot.version
    /\ \A w \in DeliveryWorkers :
        /\ dw[w].pc \in {"lookup", "write", "bind"} =>
             outbox[dw[w].id].op # "review_line_comments"
        /\ dw[w].pc \in {"lookup", "write"} =>
             \A c \in DOMAIN comments :
                 comments[c].version <= outbox[dw[w].id].version
        /\ dw[w].pc = "bind" => Shown(dw[w].id)
        /\ dw[w].pc = "finish" /\ outbox[dw[w].id].op = "review_result"
             => Shown(dw[w].id)

\* A bound outcome, and the comment of a finalized slot, show the result.
OutcomeShown ==
    /\ ref.comment # 0 /\ ref.text \in TerminalTexts
         => ResultShown /\ \A c \in DOMAIN comments : comments[c].text = ref.text
    /\ slot.status = "finalized" => slot.comment # 0 /\ ResultShown

ShownInv == CommentOrder /\ OutcomeShown

\* Steps that write no comment keep what is shown, as long as events stay.
LEMMA ShownKept ==
    ASSUME TypeOK, Rows, UNCHANGED comments,
           \A i \in Ids : outbox[i].status # "absent" =>
               /\ outbox'[i].op = outbox[i].op /\ outbox'[i].text = outbox[i].text
               /\ outbox'[i].version = outbox[i].version
    PROVE  /\ \A i \in Ids : outbox[i].status # "absent" /\ Shown(i) => Shown(i)'
           /\ ResultShown => ResultShown'
<1>1. ASSUME NEW i \in Ids, outbox[i].status # "absent", Shown(i)
      PROVE  Shown(i)'
  BY <1>1 DEF Shown
<1>2. ASSUME ResultShown PROVE ResultShown'
  <2>1. PICK i \in Ids : outbox[i].op = "review_result" /\ Shown(i)
    BY <1>2 DEF ResultShown
  <2>2. outbox[i].status # "absent"
    BY <2>1 DEF Rows
  <2> QED
    BY <1>1, <1>2, <2>1, <2>2 DEF ResultShown
<1> QED
  BY <1>1, <1>2

\* Once the result is on show, only the result is ever written again.
LEMMA WriterHasResult ==
    ASSUME TypeOK, OneWriter, OutboxInv, CommentOrder, ResultShown,
           NEW w \in DeliveryWorkers, dw[w].pc \in {"lookup", "write"}
    PROVE  outbox[dw[w].id].op = "review_result" /\ Shown(dw[w].id)
<1> USE DEF OutboxInv
<1>0. PICK j \in Ids : j = dw[w].id
  BY DEF TypeOK, Worker
<1>1. PICK i \in Ids : outbox[i].op = "review_result" /\ Shown(i)
  BY DEF ResultShown
<1>2. 1 \in DOMAIN comments
  BY NoMoreThanOne DEF OneWriter, ResultShown
<1>3. comments[1].version = outbox[i].version /\ outbox[i].version = slot.version
  BY <1>1, <1>2 DEF Shown, ResultIsLast
<1>4. outbox[i].version \in 1..slot.version /\ Versioned(outbox[i])
  BY <1>1 DEF Rows, Versioned
<1>5. /\ outbox[j].op # "review_line_comments" /\ outbox[j].status = "running"
      /\ comments[1].version <= outbox[j].version
  BY <1>0, <1>2 DEF CommentOrder, LeaseKept, HoldsLease
<1>6. outbox[j] \in Delivery /\ slot.version \in Nat
  BY DEF TypeOK, Slot
<1>7. Versioned(outbox[j])
  <2>1. CASE outbox[j].op = "review_placeholder"
    <3>1. outbox[j].version = 0
      BY <1>5, <2>1 DEF Rows
    <3> QED
      BY <1>3, <1>4, <1>5, <1>6, <3>1
  <2> QED
    BY <1>5, <1>6, <2>1 DEF Delivery, Operations, Versioned
<1>8. outbox[j].version = slot.version
  <2>1. outbox[j].version \in 1..slot.version
    BY <1>7 DEF Rows
  <2> QED
    BY <1>3, <1>5, <1>6, <2>1
<1>9. i = j
  BY <1>3, <1>4, <1>7, <1>8 DEF Rows
<1> QED
  BY <1>0, <1>1, <1>9

\* A step that writes the comment.
LEMMA WriteShows ==
    ASSUME TypeOK, OneWriter, OutboxInv, SingleDeliverer, ShownInv,
           NEW w \in DeliveryWorkers, dw[w].pc = "write",
           WriteComment(w) \/ ProviderFails(w),
           comments' = <<Body(outbox[dw[w].id])>>
    PROVE  /\ ShownInv'
           /\ \A c \in DOMAIN comments : comments'[c].version >= comments[c].version
<1> USE DEF OutboxInv, ShownInv
<1>0. PICK j \in Ids : j = dw[w].id
  BY DEF TypeOK, Worker
<1>1. UNCHANGED <<run, slot, outbox, ref>>
  BY DEF WriteComment, ProviderFails
<1>2. DOMAIN comments' = {1} /\ comments'[1] = Body(outbox[j]) /\ comments' # <<>>
  BY <1>0, SingletonFacts
<1>3. comments'[1].text = outbox[j].text /\ comments'[1].version = outbox[j].version
  BY <1>2 DEF Body
<1>4. Shown(j)'
  BY <1>1, <1>2, <1>3 DEF Shown
<1>5. outbox[j].op # "review_line_comments" /\ outbox[j].status = "running"
  BY <1>0 DEF CommentOrder, LeaseKept, HoldsLease
<1>6. outbox[j] \in Delivery /\ slot.version \in Nat
  BY DEF TypeOK, Slot
<1>7. outbox[j].version <= slot.version
  <2>1. CASE outbox[j].op = "review_placeholder"
    BY <1>5, <1>6, <2>1 DEF Rows
  <2>2. CASE Versioned(outbox[j])
    BY <1>6, <2>2 DEF Rows
  <2> QED
    BY <1>5, <1>6, <2>1, <2>2 DEF Delivery, Operations, Versioned
<1>8. CommentOrder'
  <2>1. \A c \in DOMAIN comments' : comments'[c].version <= slot'.version
    BY <1>1, <1>2, <1>3, <1>7
  <2>2. dw'[w].pc \in {"bind", "raise"} /\ dw'[w].id = j
    BY <1>0, DelivererMoves DEF Moves
  <2> QED
    BY <1>1, <1>4, <1>5, <2>1, <2>2 DEF CommentOrder, SingleDeliverer
<1>9. ASSUME ResultShown
      PROVE  /\ ResultShown'
             /\ \A c \in DOMAIN comments : comments[c].text = outbox[j].text
  <2>1. outbox[j].op = "review_result" /\ Shown(j)
    BY <1>0, <1>9, WriterHasResult
  <2> QED
    BY <1>1, <1>2, <1>4, <2>1 DEF ResultShown, Shown
<1>10. OutcomeShown'
  <2>1. ASSUME ref'.comment # 0, ref'.text \in TerminalTexts
        PROVE  ResultShown' /\ \A c \in DOMAIN comments' : comments'[c].text = ref'.text
    <3>1. ResultShown /\ \A c \in DOMAIN comments : comments[c].text = ref.text
      BY <1>1, <2>1 DEF OutcomeShown
    <3>2. 1 \in DOMAIN comments
      BY <3>1, NoMoreThanOne DEF OneWriter, ResultShown
    <3>3. outbox[j].text = ref.text
      BY <1>9, <3>1, <3>2
    <3> QED
      BY <1>1, <1>2, <1>3, <1>9, <3>1, <3>3
  <2>2. ASSUME slot'.status = "finalized"
        PROVE  slot'.comment # 0 /\ ResultShown'
    BY <1>1, <1>9, <2>2 DEF OutcomeShown
  <2> QED
    BY <2>1, <2>2 DEF OutcomeShown
<1>11. \A c \in DOMAIN comments : comments'[c].version >= comments[c].version
  <2>1. ASSUME NEW c \in DOMAIN comments
        PROVE  comments'[c].version >= comments[c].version
    <3>1. c = 1
      BY NoMoreThanOne DEF OneWriter
    <3>2. comments[c].version <= outbox[j].version
      BY <1>0 DEF CommentOrder
    <3>3. comments[c].version \in Nat /\ outbox[j].version \in Nat
      <4>1. comments[c] \in Comment
        BY DEF TypeOK
      <4> QED
        BY <1>6, <4>1 DEF Comment, Delivery
    <3> QED
      BY <1>3, <3>1, <3>2, <3>3
  <2> QED
    BY <2>1
<1> QED
  BY <1>8, <1>10, <1>11

\* A delivery step that writes nothing keeps the order of the comment.
LEMMA DeliveryKeepsOrder ==
    ASSUME TypeOK, ResultText, OneWriter, OutboxInv, BindingInv, SingleDeliverer,
           ShownInv, EventsKept, slot'.version = slot.version,
           NEW w \in DeliveryWorkers, DeliveryStep(w), comments' = comments,
           ~WriteComment(w)
    PROVE  CommentOrder'
<1> USE DEF OutboxInv, ShownInv, BindingInv
<1>0. PICK j \in Ids : j = dw[w].id
  BY DEF TypeOK, Worker
<1>a. outbox[j] \in Delivery /\ slot.version \in Nat
  BY DEF TypeOK, Slot
<1>1. ASSUME dw[w].pc # "idle"
      PROVE  outbox[j].status = "running" /\ (Shown(j) => Shown(j)')
  <2>1. outbox[j].status = "running"
    BY <1>0, <1>1 DEF LeaseKept, HoldsLease
  <2> QED
    BY <2>1, ShownKept DEF EventsKept
<1>2. /\ outbox'[j].op = outbox[j].op /\ outbox'[j].version = outbox[j].version
  BY DEF EventsKept
<1> DEFINE Good(pc) ==
      /\ pc \in {"lookup", "write", "bind"} => outbox[j].op # "review_line_comments"
      /\ pc \in {"lookup", "write"} =>
           \A c \in DOMAIN comments : comments[c].version <= outbox[j].version
      /\ pc = "bind" => Shown(j)
      /\ pc = "finish" /\ outbox[j].op = "review_result" => Shown(j)
<1>3. ASSUME NEW pc, dw'[w].pc = pc, dw'[w].id = j, dw[w].pc # "idle", Good(pc)
      PROVE  CommentOrder'
  BY <1>1, <1>2, <1>3 DEF CommentOrder, SingleDeliverer
<1>4. ASSUME dw'[w].pc \in {"idle", "claimed"}
      PROVE  CommentOrder'
  BY <1>4 DEF CommentOrder, SingleDeliverer
<1>5. CASE ExecuteDelivery(w)
  <2>1. /\ dw[w].pc = "claimed" /\ dw'[w].id = j
        /\ dw'[w].pc = ExecuteStep(outbox[j], slot)
    BY <1>0, <1>5, DelivererMoves DEF Moves, ExecuteDelivery
  <2>2. PICK pc : pc = ExecuteStep(outbox[j], slot)
    OBVIOUS
  <2>3. pc \in {"lines", "lookup", "raise", "finish"}
    BY <2>2 DEF ExecuteStep
  <2>4. pc = "lookup" => /\ outbox[j].op # "review_line_comments"
                         /\ \/ outbox[j].op = "review_placeholder"
                            \/ outbox[j].version = slot.version
    BY <1>a, <2>2 DEF ExecuteStep, Delivery
  <2>5. outbox[j].op = "review_placeholder" => slot.version = outbox[j].version
    BY <1>1, <2>1 DEF Rows, PlaceholderLeads
  <2>6. pc = "finish" => outbox[j].op # "review_result"
    <3>1. outbox[j].op = "review_result" => outbox[j].version = slot.version
      BY DEF ResultIsLast
    <3> QED
      BY <1>a, <2>2, <3>1 DEF ExecuteStep, Delivery
  <2>7. Good(pc)
    BY <2>3, <2>4, <2>5, <2>6 DEF CommentOrder
  <2> QED
    BY <1>3, <2>1, <2>2, <2>7
<1>6. CASE PublishUnchanged(w)
  <2>1. /\ dw[w].pc = "lookup" /\ dw'[w].id = j /\ dw'[w].pc = "finish"
        /\ ref.comment # 0 /\ ref.text = outbox[j].text
    BY <1>0, <1>6, DelivererMoves DEF Moves, PublishUnchanged
  <2>2. outbox[j].op = "review_result" => Shown(j)
    <3>1. ASSUME outbox[j].op = "review_result" PROVE Shown(j)
      <4>1. outbox[j].text \in TerminalTexts
        BY <3>1 DEF ResultText
      <4>2. ResultShown
        BY <2>1, <4>1 DEF OutcomeShown
      <4> QED
        BY <1>0, <2>1, <4>2, WriterHasResult
    <3> QED
      BY <3>1
  <2> QED
    BY <1>3, <2>1, <2>2
<1>7. CASE FindComment(w)
  <2>1. dw[w].pc = "lookup" /\ dw'[w].id = j /\ dw'[w].pc = "write"
    BY <1>0, <1>7, DelivererMoves DEF Moves, FindComment
  <2>2. Good("write")
    BY <1>0, <2>1 DEF CommentOrder
  <2> QED
    BY <1>3, <2>1, <2>2
<1>8. CASE BindComment(w)
  <2>1. dw[w].pc = "bind" /\ dw'[w].id = j /\ dw'[w].pc = "finish"
    BY <1>0, <1>8, DelivererMoves DEF Moves, BindComment
  <2>2. Good("finish")
    BY <1>0, <2>1 DEF CommentOrder
  <2> QED
    BY <1>3, <2>1, <2>2
<1>9. CASE PublishLineComments(w)
  <2>1. dw[w].pc = "lines" /\ dw'[w].id = j /\ dw'[w].pc = "finish"
    BY <1>0, <1>9, DelivererMoves DEF Moves, PublishLineComments
  <2>2. outbox[j].op = "review_line_comments"
    BY <1>0, <2>1 DEF DelivererHoldsComment
  <2> QED
    BY <1>3, <2>1, <2>2
<1>10. CASE ProviderFails(w)
  <2>1. dw[w].pc # "idle" /\ dw'[w].id = j /\ dw'[w].pc = "raise"
    BY <1>0, <1>10, DelivererMoves DEF Moves, ProviderFails
  <2> QED
    BY <1>3, <2>1
<1>11. CASE ClaimNextDelivery(w) \/ FinishDelivery(w) \/ RecordDeliveryFailure(w)
            \/ CrashDelivery(w)
  BY <1>4, <1>11, DelivererMoves
<1> QED
  BY <1>5, <1>6, <1>7, <1>8, <1>9, <1>10, <1>11 DEF DeliveryStep

\* A delivery step that writes nothing binds and finalizes only what is shown.
LEMMA DeliveryKeepsOutcome ==
    ASSUME TypeOK, OneWriter, KnownComments, OutboxInv, BindingInv, ShownInv,
           EventsKept, NEW w \in DeliveryWorkers, DeliveryStep(w),
           comments' = comments, ~WriteComment(w)
    PROVE  OutcomeShown'
<1> USE DEF OutboxInv, ShownInv, BindingInv
<1>0. PICK j \in Ids : j = dw[w].id
  BY DEF TypeOK, Worker
<1>1. slot \in Slot /\ outbox[j] \in Delivery
  BY DEF TypeOK
<1>2. ResultShown => ResultShown'
  BY ShownKept DEF EventsKept
<1>3. dw[w].comment # 0 => comments # <<>>
  BY DEF KnownComments, CommentIds
<1>4. slot.comment # 0 => slot'.comment # 0
  BY DeliveryKeepsSlotBound
<1>5. ASSUME UNCHANGED ref, slot'.status = "finalized" => slot.status = "finalized"
      PROVE  OutcomeShown'
  BY <1>2, <1>4, <1>5 DEF OutcomeShown
<1>6. CASE BindComment(w)
  <2>1. /\ dw[w].pc = "bind" /\ dw[w].comment # 0 /\ Shown(j)
        /\ outbox[j].op # "review_line_comments"
    BY <1>0, <1>6 DEF BindComment, DelivererHoldsComment, CommentOrder
  <2>2. ref'.text = outbox[j].text /\ slot'.status = slot.status
    BY <1>0, <1>1, <1>6 DEF BindComment, Slot
  <2>3. ASSUME ref'.text \in TerminalTexts
        PROVE  ResultShown' /\ \A c \in DOMAIN comments' : comments'[c].text = ref'.text
    <3>1. outbox[j].op = "review_result"
      BY <1>1, <2>1, <2>2, <2>3 DEF Rows, Delivery, Operations
    <3>2. ResultShown
      BY <1>3, <2>1, <3>1 DEF ResultShown
    <3> QED
      BY <1>2, <2>1, <2>2, <3>2 DEF Shown
  <2>4. slot'.status = "finalized" => slot'.comment # 0 /\ ResultShown'
    BY <1>2, <1>4, <2>2 DEF OutcomeShown
  <2> QED
    BY <2>3, <2>4 DEF OutcomeShown
<1>7. CASE FinishDelivery(w) /\ slot'.status = "finalized" /\ slot.status # "finalized"
  <2>1. /\ dw[w].pc = "finish" /\ ref' = ref
        /\ slot' = SlotAfterSuccess(outbox[j], dw[w].comment)
    BY <1>0, <1>7 DEF FinishDelivery
  <2>2. outbox[j].op = "review_result"
    BY <1>1, <1>7, <2>1 DEF SlotAfterSuccess, Slot
  <2>3. Shown(j) /\ dw[w].comment # 0
    BY <1>0, <2>1, <2>2 DEF CommentOrder, DelivererHoldsComment
  <2>4. slot'.comment # 0
    BY <1>1, <2>1, <2>2, <2>3 DEF SlotAfterSuccess, Slot
  <2>5. ResultShown
    BY <1>3, <2>2, <2>3 DEF ResultShown
  <2> QED
    BY <1>2, <2>1, <2>4, <2>5 DEF OutcomeShown
<1>8. CASE FinishDelivery(w) /\ (slot'.status = "finalized" => slot.status = "finalized")
  BY <1>5, <1>8 DEF FinishDelivery
<1>9. CASE RecordDeliveryFailure(w)
  <2>1. slot'.status = SlotStatusAfterFailure(w) /\ UNCHANGED ref
    BY <1>1, <1>9 DEF RecordDeliveryFailure, Slot
  <2>2. slot'.status \in {slot.status, "retry_wait", "finalizing"}
    BY <2>1 DEF SlotStatusAfterFailure, Flush
  <2> QED
    BY <1>5, <2>1, <2>2
<1>10. CASE UNCHANGED <<slot, ref>>
  BY <1>5, <1>10
<1> QED
  BY <1>6, <1>7, <1>8, <1>9, <1>10 DEF DeliveryStep, ClaimNextDelivery,
     ExecuteDelivery, PublishUnchanged, FindComment, PublishLineComments,
     ProviderFails, CrashDelivery

\* A step of anyone else leaves the comment and the deliverer alone, and the
\* slot is not finalized by it.
LEMMA OthersKeepShown ==
    ASSUME TypeOK, OutboxInv, ShownInv, UNCHANGED <<ref, comments, dw>>,
           \A i \in Ids : outbox[i].status # "absent" =>
               /\ outbox'[i].op = outbox[i].op /\ outbox'[i].text = outbox[i].text
               /\ outbox'[i].version = outbox[i].version,
           slot'.version \in {slot.version, slot.version + 1},
           slot'.comment = slot.comment,
           slot'.status = "finalized" => slot.status = "finalized"
    PROVE  ShownInv'
<1> USE DEF OutboxInv, ShownInv
<1>1. /\ \A i \in Ids : outbox[i].status # "absent" /\ Shown(i) => Shown(i)'
      /\ ResultShown => ResultShown'
  BY ShownKept
<1>2. OutcomeShown'
  BY <1>1 DEF OutcomeShown
<1>3. \A c \in DOMAIN comments' : comments'[c].version <= slot'.version
  <2>1. ASSUME NEW c \in DOMAIN comments
        PROVE  comments[c].version <= slot'.version
    <3>1. comments[c].version \in Nat /\ slot.version \in Nat
      <4>1. comments[c] \in Comment /\ slot \in Slot
        BY DEF TypeOK
      <4> QED
        BY <4>1 DEF Comment, Slot
    <3>2. comments[c].version <= slot.version
      BY DEF CommentOrder
    <3> QED
      BY <3>1, <3>2
  <2> QED
    BY <2>1
<1>4. ASSUME NEW w \in DeliveryWorkers, dw[w].pc # "idle"
      PROVE  /\ dw[w].id \in Ids /\ outbox[dw[w].id].status # "absent"
             /\ outbox'[dw[w].id].op = outbox[dw[w].id].op
             /\ outbox'[dw[w].id].version = outbox[dw[w].id].version
             /\ Shown(dw[w].id) => Shown(dw[w].id)'
  <2>1. PICK j \in Ids : j = dw[w].id
    BY DEF TypeOK, Worker
  <2>2. outbox[j].status # "absent"
    BY <1>4, <2>1 DEF LeaseKept, HoldsLease
  <2>3. Shown(j) => Shown(j)'
    BY <1>1, <2>2
  <2> QED
    BY <2>1, <2>2, <2>3 DEF Shown
<1>5. CommentOrder'
  BY <1>3, <1>4 DEF CommentOrder, Shown
<1> QED
  BY <1>2, <1>5

LEMMA ShownStep ==
    ASSUME TypeOK, ResultText, BindingInv, OneWriter, KnownComments, OutboxInv,
           ShownInv, SingleDeliverer, SingleExecutor, ApiRequests = {}, [Next]_vars
    PROVE  /\ ShownInv'
           /\ comments' # comments =>
                \A c \in DOMAIN comments : comments'[c].version >= comments[c].version
<1> USE DEF OutboxInv
<1>1. CASE \E w \in DeliveryWorkers : DeliveryStep(w) /\ UNCHANGED executionVars
  <2>0. PICK w \in DeliveryWorkers : DeliveryStep(w)
    BY <1>1
  <2>1. EventsKept /\ slot'.version = slot.version
    BY <2>0, DeliveryKeepsEvents, DeliveryKeepsVersion
  <2>2. CASE comments' = comments /\ ~WriteComment(w)
    BY <2>0, <2>1, <2>2, DeliveryKeepsOrder, DeliveryKeepsOutcome DEF ShownInv
  <2>3. CASE /\ comments' = <<Body(outbox[dw[w].id])>> /\ dw[w].pc = "write"
             /\ WriteComment(w) \/ ProviderFails(w)
    BY <2>3, WriteShows
  <2> QED
    BY <2>0, <2>2, <2>3, CommentsAfter
<1>2. CASE \E i \in Ids : /\ Requeues(i)
                          /\ UNCHANGED <<run, slot, ref, comments, dw, job, ew>>
  <2>1. EventsKept /\ UNCHANGED <<slot, ref, comments, dw>>
    BY <1>2, RequeueKeepsEvents
  <2> QED
    BY <2>1, OthersKeepShown DEF EventsKept
<1>3. CASE \E e \in ExecutionWorkers : ExecutionStep(e) /\ UNCHANGED <<ref, comments, dw>>
  <2>1. /\ \/ Silent
           \/ \E text \in {"delayed", "failed", "completed"} : Announces(text)
           \/ AnnouncesLines
        /\ UNCHANGED <<ref, comments, dw>>
    BY <1>3, ExecutionEffect
  <2>2. \A i \in Ids : outbox[i].status # "absent" => outbox'[i] = outbox[i]
    BY <2>1, ExecutionKeepsRows
  <2>3. /\ slot'.version \in {slot.version, slot.version + 1}
        /\ slot'.status = "finalized" => slot.status = "finalized"
    BY <2>1 DEF Silent, Announces, AnnouncesLines
  <2>4. CASE \E w \in DeliveryWorkers : DeliveryStep(w) /\ UNCHANGED executionVars
    BY <1>1, <2>4
  <2>5. CASE ~\E w \in DeliveryWorkers : DeliveryStep(w) /\ UNCHANGED executionVars
    <3>1. slot'.comment = slot.comment
      BY <2>5, OthersKeepComments
    <3> QED
      BY <2>1, <2>2, <2>3, <3>1, OthersKeepShown
  <2> QED
    BY <2>4, <2>5
<1>4. CASE UNCHANGED <<run, slot, outbox, ref, comments, dw, job, ew>>
  BY <1>4, OthersKeepShown
<1> QED
  BY <1>1, <1>2, <1>3, <1>4, StepForms

LEMMA InitialShown == Init => ShownInv
<1> SUFFICES ASSUME Init PROVE ShownInv
  OBVIOUS
<1>1. DOMAIN comments = {}
  BY EmptySeq DEF Init, DeliveryInit
<1>2. ref.comment = 0 /\ slot.status # "finalized"
  BY DEF Init, DeliveryInit
<1>3. \A w \in DeliveryWorkers : dw[w].pc = "idle"
  BY DEF Init, DeliveryInit, IdleWorker
<1> QED
  BY <1>1, <1>2, <1>3 DEF ShownInv, CommentOrder, OutcomeShown

\* All of it together, inductive for one worker of each kind without API
\* requests.
SummaryInv ==
    /\ TypeOK /\ ResultText /\ BindingInv
    /\ OneWriter /\ KnownComments /\ OutboxInv /\ ShownInv

LEMMA InitialSummary == Init => SummaryInv
<1>1. Init => ResultText
  BY DEF Init, DeliveryInit, ResultText, NewDelivery, NoDelivery
<1> QED
  BY <1>1, InitialTypes, InitialBinding, InitialComments, InitialOutbox,
     InitialShown DEF SummaryInv

LEMMA SummaryStep ==
    ASSUME SingleDeliverer, SingleExecutor, ApiRequests = {}, SummaryInv, [Next]_vars
    PROVE  SummaryInv'
BY NextTypes, StepKeepsRows, BindingStep, OneWriterStep, OutboxStep, ShownStep
   DEF SummaryInv

\* With one worker of each kind and no request to cancel or supersede the run,
\* a finalized slot's comment shows how the execution ended: no delayed notice,
\* retried delivery, unanswered write or crash leaves another text on it.
THEOREM OutcomeIsShown ==
    ASSUME SingleDeliverer, SingleExecutor, ApiRequests = {}
    PROVE  Spec => []FinalizedShowsOutcome
<1>1. SummaryInv => FinalizedShowsOutcome
  <2> SUFFICES ASSUME SummaryInv, slot.status = "finalized"
               PROVE  comments[slot.comment].text = run.exec
    BY DEF FinalizedShowsOutcome
  <2>1. slot.comment \in DOMAIN comments /\ ResultShown
    BY DEF SummaryInv, ShownInv, OutcomeShown, KnownComments, CommentIds
  <2>2. PICK i \in Ids : outbox[i].op = "review_result" /\ Shown(i)
    BY <2>1 DEF ResultShown
  <2>3. outbox[i].text = run.exec
    BY <2>2 DEF SummaryInv, OutboxInv, ResultIsLast
  <2> QED
    BY <2>1, <2>2, <2>3 DEF Shown
<1>2. SummaryInv /\ [Next]_vars => SummaryInv'
  BY SummaryStep
<1> QED
  BY <1>1, <1>2, InitialSummary, PTL DEF Spec

\* In the same setting no delivery overwrites the comment with an older event
\* than the one it shows, in whatever order retries deliver them.
THEOREM CommentOnlyAdvances ==
    ASSUME SingleDeliverer, SingleExecutor, ApiRequests = {}
    PROVE  Spec => CommentNeverGoesBack
<1>1. SummaryInv /\ [Next]_vars =>
        [\A c \in DOMAIN comments : comments'[c].version >= comments[c].version]_comments
  BY ShownStep DEF SummaryInv
<1>2. SummaryInv /\ [Next]_vars => SummaryInv'
  BY SummaryStep
<1> QED
  BY <1>1, <1>2, InitialSummary, PTL DEF Spec, CommentNeverGoesBack
=============================================================================
