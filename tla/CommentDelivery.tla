--------------------------- MODULE CommentDelivery ---------------------------
(***************************************************************************)
(* The durable delivery outbox of one ReviewRun and the delivery workers   *)
(* that drain it (application/delivery.py), with the summary comment they  *)
(* create and update at the provider (integrations/comments.py) and the    *)
(* service calls that append to the outbox (application/services.py).      *)
(*                                                                         *)
(* One database transaction is one step.  A delivery worker is split where *)
(* the code awaits the provider or commits: claim, read the slot, list the *)
(* comments, write the comment, commit the comment id, settle the row.     *)
(* Rows an SQLAlchemy session has loaded are kept in the worker's state:   *)
(* sessions use expire_on_commit=False, and a flush writes only columns    *)
(* whose value differs from the loaded one (operator Flush).               *)
(***************************************************************************)
EXTENDS Naturals, Sequences

CONSTANTS
    DeliveryWorkers,  \* processes running process_next_delivery
    NoOwner,          \* lock_owner IS NULL
    MaxDeliveries,    \* bound: rows the outbox of the run may hold
    MaxAttempts       \* max_attempts of an event that has a limit

ASSUME OwnerAssumption == NoOwner \notin DeliveryWorkers
ASSUME BoundAssumption == MaxDeliveries \in Nat \ {0} /\ MaxAttempts \in Nat \ {0}

VARIABLES
    run,       \* the ReviewRun row: status and execution_status
    slot,      \* the ReviewCommentSlot row
    outbox,    \* the DeliveryOutbox rows of the run
    earlier,   \* available_at order of the rows that are due
    ref,       \* the summary ReviewCommentRef row and run.summary_comment_id
    comments,  \* the summary comments that exist at the provider
    dw         \* what each delivery worker holds in memory

deliveryVars == <<run, slot, outbox, earlier, ref, comments, dw>>

-----------------------------------------------------------------------------
(* Values *)

TerminalTexts == {"completed", "failed", "cancelled", "superseded"}
Texts == TerminalTexts \cup {"reviewing", "delayed"}
Operations == {"review_placeholder", "review_progress", "review_result",
               "review_line_comments"}
RunStatus == {"queued", "running", "awaiting_delivery"} \cup TerminalTexts
ExecutionStatus == {"pending", "running", "completed", "failed", "cancelled"}
SlotStatus == {"pending", "ready", "retry_wait", "finalizing", "finalized"}
DeliveryStatus == {"absent", "queued", "running", "delivered", "failed"}

Cancellable == {"queued", "running", "awaiting_delivery"}
ExecutionEnded == {"completed", "failed", "cancelled"}
Writable == {"ready", "finalizing", "finalized"}

Ids == 1..MaxDeliveries
Run == [status : RunStatus, exec : ExecutionStatus]
Slot == [status : SlotStatus, comment : Nat, version : Nat]
\* due: available_at has passed.
Delivery == [op : Operations, text : Texts, version : Nat,
             status : DeliveryStatus, attempt : 0..MaxAttempts,
             owner : DeliveryWorkers \cup {NoOwner},
             due : BOOLEAN]
Comment == [text : Texts, version : Nat]
WorkerStep == {"idle", "claimed", "lookup", "write", "bind", "lines",
               "finish", "raise"}
Worker == [pc : WorkerStep, id : Ids, attempt : 0..MaxAttempts,
           run : RunStatus, slotStatus : SlotStatus, slotComment : Nat,
           known : Nat, comment : Nat]

NewDelivery(op, text, version) ==
    [op |-> op, text |-> text, version |-> version, status |-> "queued",
     attempt |-> 0, owner |-> NoOwner, due |-> TRUE]

NoDelivery == [NewDelivery("review_placeholder", "reviewing", 0)
                 EXCEPT !.status = "absent", !.due = FALSE]

\* Core events outrank the line comments, which keep the run's own priority.
Priority(d) == IF d.op = "review_line_comments" THEN 0 ELSE 1

\* Only events with a limit are counted; a count past the limit says no more.
NextAttempt(d) ==
    IF d.op = "review_line_comments" /\ d.attempt < MaxAttempts
    THEN d.attempt + 1 ELSE d.attempt

\* The column after a flush that assigned value over the loaded one.
Flush(stored, loaded, value) == IF value = loaded THEN stored ELSE value

-----------------------------------------------------------------------------
(* available_at order: <<i, j>> says row i became due before row j. *)

DueRows == {i \in Ids : outbox[i].due}

JoinQueue(order, S) ==
    order \cup (DueRows \X S) \cup {p \in S \X S : p[1] < p[2]}

LeaveQueue(order, i) == {p \in order : p[1] # i /\ p[2] # i}

-----------------------------------------------------------------------------
(* Appending to the outbox, inside the caller's transaction *)

FreeId(i) ==
    /\ outbox[i].status = "absent"
    /\ \A j \in Ids : j < i => outbox[j].status # "absent"

SameKey(d, e) == d.op = e.op /\ d.text = e.text /\ d.version = e.version

\* enqueue_delivery: an event with a known idempotency key adds no row.
EnqueueDelivery(d) ==
    IF \E i \in Ids : outbox[i].status # "absent" /\ SameKey(outbox[i], d)
    THEN UNCHANGED <<outbox, earlier>>
    ELSE \E i \in Ids : /\ FreeId(i)
                        /\ outbox' = [outbox EXCEPT ![i] = d]
                        /\ earlier' = JoinQueue(earlier, {i})

EndOfExecution(text) == IF text = "superseded" THEN "cancelled" ELSE text

\* enqueue_review_comment_status: loaded and view are the run and the slot as
\* the caller's session holds them, the stored rows or older copies of them.
EnqueueStatus(text, loaded, view) ==
    LET terminal == text \in TerminalTexts
        op == IF terminal THEN "review_result" ELSE "review_progress"
    IN  /\ run' = IF terminal
                  THEN [status |-> "awaiting_delivery",
                        exec |-> Flush(run.exec, loaded.exec,
                                       EndOfExecution(text))]
                  ELSE run
        /\ slot' = [slot EXCEPT
                      !.version = view.version + 1,
                      !.status = IF terminal /\ view.status = "ready"
                                 THEN "finalizing" ELSE @]
        /\ EnqueueDelivery(NewDelivery(op, text, view.version + 1))

-----------------------------------------------------------------------------
(* The delivery worker *)

IdleWorker == [pc |-> "idle", id |-> 1, attempt |-> 0,
               run |-> "awaiting_delivery",
               slotStatus |-> "pending", slotComment |-> 0,
               known |-> 0, comment |-> 0]

\* reclaim_expired_deliveries, the first statement of every claim.  Any lease
\* may have run out by then, so expired ranges over the leases held.
Leased == {i \in Ids : outbox[i].status = "running"}

Reclaimed(expired) ==
    [i \in Ids |-> IF i \in expired
                   THEN [outbox[i] EXCEPT !.status = "queued",
                                          !.owner = NoOwner, !.due = TRUE]
                   ELSE outbox[i]]

\* ORDER BY priority DESC, available_at, created_at LIMIT 1
IsNextDelivery(rows, order, i) ==
    /\ rows[i].status = "queued" /\ rows[i].due
    /\ \A j \in Ids \ {i} :
         rows[j].status = "queued" /\ rows[j].due =>
             \/ Priority(rows[j]) < Priority(rows[i])
             \/ Priority(rows[j]) = Priority(rows[i]) /\ <<i, j>> \in order

ClaimNextDelivery(w) ==
    /\ dw[w].pc = "idle"
    /\ \E expired \in SUBSET Leased, i \in Ids :
         LET rows == Reclaimed(expired)
             order == JoinQueue(earlier, expired)
         IN  /\ IsNextDelivery(rows, order, i)
             /\ outbox' = [rows EXCEPT ![i] =
                             [@ EXCEPT !.status = "running", !.owner = w,
                                       !.attempt = NextAttempt(rows[i]),
                                       !.due = FALSE]]
             /\ earlier' = LeaveQueue(order, i)
             /\ dw' = [dw EXCEPT ![w] =
                         [IdleWorker EXCEPT !.pc = "claimed", !.id = i,
                                            !.attempt = NextAttempt(rows[i])]]
    /\ UNCHANGED <<run, slot, ref, comments>>

\* mutant: the version of the event is not compared.
ExecuteStepAnyVersion(d, s) ==
    CASE d.op = "review_line_comments" -> "lines"
      [] d.op = "review_placeholder" -> "lookup"
      [] OTHER -> IF s.comment = 0 \/ s.status \notin Writable THEN "raise"
                  ELSE "lookup"

\* What _execute_delivery decides from the slot it has just read.
ExecuteStep(d, s) ==
    CASE d.op = "review_line_comments" -> "lines"
      [] d.op = "review_placeholder" -> "lookup"
      [] OTHER ->
           IF s.comment = 0 \/ s.status \notin Writable THEN "raise"
           ELSE IF d.version < s.version THEN "finish"
           ELSE IF d.version > s.version THEN "raise"
           ELSE "lookup"

\* The task and the slot are loaded here; a stale event is acknowledged with
\* the comment that the slot already has.
ExecuteDelivery(w) ==
    LET d == outbox[dw[w].id] IN
    /\ dw[w].pc = "claimed"
    /\ dw' = [dw EXCEPT ![w] =
                [@ EXCEPT !.pc = ExecuteStep(d, slot),
                          !.run = IF d.op = "review_line_comments"
                                  THEN run.status ELSE dw[w].run,
                          !.slotStatus = slot.status,
                          !.slotComment = slot.comment,
                          !.known = ref.comment,
                          !.comment = IF ExecuteStep(d, slot) = "finish"
                                      THEN slot.comment ELSE 0]]
    /\ UNCHANGED <<run, slot, outbox, earlier, ref, comments>>

\* publish_github_summary_comment: the body is the one published last, so the
\* provider is not called.  Bodies with equal text can still differ in their
\* failure category, so this is a possibility, never a necessity.
PublishUnchanged(w) ==
    /\ dw[w].pc = "lookup"
    /\ ref.comment # 0 /\ ref.text = outbox[dw[w].id].text
    /\ dw' = [dw EXCEPT ![w] =
                [@ EXCEPT !.pc = "finish", !.comment = ref.comment]]
    /\ UNCHANGED <<run, slot, outbox, earlier, ref, comments>>

\* mutant: comments that carry the slot's marker are not looked for.
FindCommentWithoutMarker(w) ==
    /\ dw[w].pc = "lookup"
    /\ dw' = [dw EXCEPT ![w] = [@ EXCEPT !.pc = "write", !.comment = dw[w].known]]
    /\ UNCHANGED <<run, slot, outbox, earlier, ref, comments>>

\* _upsert_github_issue_comment, first half: the known comment, else the first
\* listed comment that carries the slot's marker, else none (0).
FindComment(w) ==
    /\ dw[w].pc = "lookup"
    /\ dw' = [dw EXCEPT ![w] =
                [@ EXCEPT !.pc = "write",
                          !.comment = IF dw[w].known # 0 THEN dw[w].known
                                      ELSE IF comments # <<>> THEN 1 ELSE 0]]
    /\ UNCHANGED <<run, slot, outbox, earlier, ref, comments>>

WrittenComments(w) ==
    LET d == outbox[dw[w].id]
        c == [text |-> d.text, version |-> d.version]
    IN  IF dw[w].comment = 0 THEN Append(comments, c)
        ELSE [comments EXCEPT ![dw[w].comment] = c]

\* Second half: update that comment, or create one.
WriteComment(w) ==
    /\ dw[w].pc = "write"
    /\ comments' = WrittenComments(w)
    /\ dw' = [dw EXCEPT ![w] =
                [@ EXCEPT !.pc = "bind",
                          !.comment = IF dw[w].comment = 0
                                      THEN Len(comments) + 1 ELSE dw[w].comment]]
    /\ UNCHANGED <<run, slot, outbox, earlier, ref>>

\* upsert_summary_comment_ref commits the comment id on its own.
BindComment(w) ==
    /\ dw[w].pc = "bind"
    /\ ref' = [comment |-> dw[w].comment, text |-> outbox[dw[w].id].text]
    /\ slot' = [slot EXCEPT !.comment =
                  Flush(@, dw[w].slotComment, dw[w].comment)]
    /\ dw' = [dw EXCEPT ![w].pc = "finish"]
    /\ UNCHANGED <<run, outbox, earlier, comments>>

PublishLineComments(w) ==
    /\ dw[w].pc = "lines"
    /\ dw' = [dw EXCEPT ![w].pc = "finish"]
    /\ UNCHANGED <<run, slot, outbox, earlier, ref, comments>>

\* mutant: the error of the provider client is swallowed.
ProviderFailureIgnored(w) ==
    /\ dw[w].pc \in {"lookup", "write", "lines"}
    /\ comments' \in {comments} \cup
         (IF dw[w].pc = "write" THEN {WrittenComments(w)} ELSE {})
    /\ dw' = [dw EXCEPT ![w].pc = "finish"]
    /\ UNCHANGED <<run, slot, outbox, earlier, ref>>

\* The provider refuses a call, or answers too late for the client although a
\* write took effect.
ProviderFails(w) ==
    /\ dw[w].pc \in {"lookup", "write", "lines"}
    /\ comments' \in {comments} \cup
         (IF dw[w].pc = "write" THEN {WrittenComments(w)} ELSE {})
    /\ dw' = [dw EXCEPT ![w].pc = "raise"]
    /\ UNCHANGED <<run, slot, outbox, earlier, ref>>

\* final_status of the event's payload ("none" when it carries none).
FinalStatus(d) ==
    CASE d.op = "review_result" -> d.text
      [] d.op = "review_line_comments" -> "completed"
      [] OTHER -> "none"

\* apply_transition: a progress or result event acts only at its version.
AppliesTo(d, s) ==
    d.op \in {"review_progress", "review_result"} => d.version = s.version

OthersPending(i) ==
    \E j \in Ids \ {i} : outbox[j].status \in {"queued", "running"}

\* mutant: every delivery stores its comment id, line comments (0) too.
SlotTakesAnyComment(d, comment) ==
    [slot EXCEPT
       !.comment = comment,
       !.status = CASE d.op = "review_placeholder" -> "ready"
                    [] d.op = "review_result" /\ AppliesTo(d, slot) -> "finalized"
                    [] OTHER -> @]

\* mutant: the slot is finalized without comparing the versions.
SlotFinalizedEarly(d, comment) ==
    [slot EXCEPT
       !.comment = IF comment # 0 /\ d.op # "review_line_comments"
                   THEN comment ELSE @,
       !.status = CASE d.op = "review_placeholder" -> "ready"
                    [] d.op \in {"review_progress", "review_result"} -> "finalized"
                    [] OTHER -> @]

SlotAfterSuccess(d, comment) ==
    [slot EXCEPT
       !.comment = IF comment # 0 /\ d.op # "review_line_comments"
                   THEN comment ELSE @,
       !.status = CASE d.op = "review_placeholder" -> "ready"
                    [] d.op = "review_result" /\ AppliesTo(d, slot) -> "finalized"
                    [] OTHER -> @]

\* A placeholder opens the run for execution unless execution is over; the
\* last pending event applies its final status.
StatusAfterSuccess(i) ==
    LET d == outbox[i] IN
    IF ~OthersPending(i) /\ AppliesTo(d, slot) /\ FinalStatus(d) # "none"
    THEN FinalStatus(d)
    ELSE IF d.op = "review_placeholder" /\ run.exec \notin ExecutionEnded
    THEN "queued"
    ELSE run.status

HoldsLease(w, d) == d.status = "running" /\ d.owner = w

\* End of process_next_delivery: the row and the task are refreshed, and a
\* worker whose lease was reclaimed changes nothing.
FinishDelivery(w) ==
    LET i == dw[w].id IN
    /\ dw[w].pc = "finish"
    /\ IF HoldsLease(w, outbox[i])
       THEN /\ outbox' = [outbox EXCEPT ![i] =
                            [@ EXCEPT !.status = "delivered", !.owner = NoOwner]]
            /\ slot' = SlotAfterSuccess(outbox[i], dw[w].comment)
            /\ run' = [run EXCEPT !.status = StatusAfterSuccess(i)]
       ELSE UNCHANGED <<outbox, slot, run>>
    /\ dw' = [dw EXCEPT ![w] = IdleWorker]
    /\ UNCHANGED <<earlier, ref, comments>>

\* mutant: max_attempts = 0 is compared as a limit (no "max_attempts > 0").
ExhaustedWithoutLimit(w) ==
    outbox[dw[w].id].op = "review_line_comments" => dw[w].attempt >= MaxAttempts

Exhausted(w) ==
    /\ outbox[dw[w].id].op = "review_line_comments"
    /\ dw[w].attempt >= MaxAttempts

SlotStatusAfterFailure(w) ==
    LET op == outbox[dw[w].id].op IN
    CASE op = "review_placeholder" ->
           Flush(slot.status, dw[w].slotStatus, "retry_wait")
      [] op = "review_result" ->
           Flush(slot.status, dw[w].slotStatus, "finalizing")
      [] OTHER -> slot.status

\* _record_delivery_failure: the loaded row is written back whatever became
\* of the lease; it waits for its backoff, or fails for good with its task.
RecordDeliveryFailure(w) ==
    LET i == dw[w].id IN
    /\ dw[w].pc = "raise"
    /\ outbox' = [outbox EXCEPT ![i] =
                    [@ EXCEPT !.status = IF Exhausted(w) THEN "failed"
                                         ELSE "queued",
                              !.owner = NoOwner, !.due = FALSE]]
    /\ earlier' = LeaveQueue(earlier, i)
    /\ slot' = [slot EXCEPT !.status = SlotStatusAfterFailure(w)]
    /\ run' = IF Exhausted(w)
              THEN [run EXCEPT !.status = Flush(@, dw[w].run, "failed")]
              ELSE run
    /\ dw' = [dw EXCEPT ![w] = IdleWorker]
    /\ UNCHANGED <<ref, comments>>

\* The worker process dies and is restarted; its lease stays behind.
CrashDelivery(w) ==
    /\ dw[w].pc # "idle"
    /\ dw' = [dw EXCEPT ![w] = IdleWorker]
    /\ UNCHANGED <<run, slot, outbox, earlier, ref, comments>>

-----------------------------------------------------------------------------
\* Time passes until the backoff of a failed delivery is over.
BackoffElapses(i) ==
    /\ outbox[i].status = "queued" /\ ~outbox[i].due
    /\ outbox' = [outbox EXCEPT ![i].due = TRUE]
    /\ earlier' = JoinQueue(earlier, {i})
    /\ UNCHANGED <<run, slot, ref, comments, dw>>

-----------------------------------------------------------------------------
(* Service calls of the API process, each in one transaction *)

\* cancel_review_run, and cancel_active_review_runs_for_pr for this run.
CancelReviewRun ==
    /\ run.status \in Cancellable
    /\ EnqueueStatus("cancelled", run, slot)
    /\ UNCHANGED <<ref, comments, dw>>

\* supersede_older_review_runs, for this run: a newer head was requested.
SupersedeReviewRun ==
    /\ run.status \in Cancellable
    /\ EnqueueStatus("superseded", run, slot)
    /\ UNCHANGED <<ref, comments, dw>>

\* update_delivery_scheduling on a delivery that failed for good.
RescheduleFailedDelivery(i) ==
    /\ outbox[i].status = "failed"
    /\ outbox' = [outbox EXCEPT ![i] =
                    [@ EXCEPT !.status = "queued", !.due = TRUE]]
    /\ earlier' = JoinQueue(earlier, {i})
    /\ UNCHANGED <<run, slot, ref, comments, dw>>

-----------------------------------------------------------------------------
(* The run as _create_review_run_record and                                *)
(* ensure_review_placeholder_requested commit it.                          *)

DeliveryInit ==
    /\ run = [status |-> "awaiting_delivery", exec |-> "pending"]
    /\ slot = [status |-> "pending", comment |-> 0, version |-> 0]
    /\ outbox = [i \in Ids |->
                   IF i = 1 THEN NewDelivery("review_placeholder", "reviewing", 0)
                   ELSE NoDelivery]
    /\ earlier = {}
    /\ ref = [comment |-> 0, text |-> "reviewing"]
    /\ comments = <<>>
    /\ dw = [w \in DeliveryWorkers |-> IdleWorker]

DeliveryStep(w) ==
    \/ ClaimNextDelivery(w) \/ ExecuteDelivery(w) \/ PublishUnchanged(w)
    \/ FindComment(w) \/ WriteComment(w) \/ BindComment(w)
    \/ PublishLineComments(w) \/ ProviderFails(w)
    \/ FinishDelivery(w) \/ RecordDeliveryFailure(w) \/ CrashDelivery(w)

=============================================================================
