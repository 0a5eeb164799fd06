--------------------------- MODULE AgentTask_proofs ---------------------------
(***************************************************************************)
(* Proofs about AgentTask for any number of commands, retries, attempts    *)
(* and faults.                                                             *)
(***************************************************************************)
EXTENDS AgentTask, SequenceTheorems, TLAPS

-----------------------------------------------------------------------------
(* Rows and what a flush makes of them *)

LEMMA RowFields ==
    \A row \in Row :
        /\ row.status \in Pending \cup Ends /\ row.stage \in Stages
        /\ row.comment \in Nat /\ row.hash \in Texts \cup {"none"}
        /\ row.workspace \in BOOLEAN /\ row.session \in BOOLEAN
        /\ row.started \in BOOLEAN /\ row.deadline \in BOOLEAN
        /\ row.starts \in 0..MaxStarts
        /\ row.attempt \in 1..MaxRuns /\ row.soft \in BOOLEAN /\ row.hard \in BOOLEAN
        /\ DOMAIN row = {"status", "stage", "comment", "hash", "workspace", "session",
                         "started", "deadline", "starts", "attempt", "soft", "hard"}
BY DEF Row

LEMMA NewTaskType ==
    /\ NewTask \in Row /\ NewTask.comment = 0 /\ NewTask.status = "queued"
    /\ NewTask.stage = "placeholder_pending" /\ NewTask.attempt = 1
BY AgentAssumption DEF NewTask, Row, Pending, Active, Stages, Texts

\* A flush keeps the stored value of every column that was not changed.
LEMMA FlushRow ==
    ASSUME NEW stored \in Row, NEW loaded \in Row, NEW value \in Row
    PROVE  LET f == Flush(stored, loaded, value)
           IN  /\ f \in Row
               /\ f.status = IF value.status = loaded.status THEN stored.status
                             ELSE value.status
               /\ f.stage = IF value.stage = loaded.stage THEN stored.stage
                            ELSE value.stage
               /\ f.comment = IF value.comment = loaded.comment THEN stored.comment
                              ELSE value.comment
               /\ f.attempt = IF value.attempt = loaded.attempt THEN stored.attempt
                              ELSE value.attempt
<1> DEFINE f == Flush(stored, loaded, value)
           Column(c) == IF value[c] = loaded[c] THEN stored[c] ELSE value[c]
<1>1. f = [c \in {"status", "stage", "comment", "hash", "workspace", "session",
                  "started", "deadline", "starts", "attempt", "soft", "hard"} |-> Column(c)]
  BY RowFields DEF Flush
<1>2. /\ f.status = Column("status") /\ f.stage = Column("stage")
      /\ f.comment = Column("comment") /\ f.attempt = Column("attempt")
  BY <1>1
<1>3. f \in Row
  <2>1. f = [status |-> Column("status"), stage |-> Column("stage"),
             comment |-> Column("comment"), hash |-> Column("hash"),
             workspace |-> Column("workspace"), session |-> Column("session"),
             started |-> Column("started"), deadline |-> Column("deadline"),
             starts |-> Column("starts"),
             attempt |-> Column("attempt"), soft |-> Column("soft"),
             hard |-> Column("hard")]
    BY <1>1
  <2>2. /\ Column("status") \in Pending \cup Ends /\ Column("stage") \in Stages
        /\ Column("comment") \in Nat /\ Column("hash") \in Texts \cup {"none"}
        /\ Column("starts") \in 0..MaxStarts /\ Column("attempt") \in 1..MaxRuns
    BY RowFields
  <2>3. /\ Column("workspace") \in BOOLEAN /\ Column("session") \in BOOLEAN
        /\ Column("started") \in BOOLEAN /\ Column("deadline") \in BOOLEAN
        /\ Column("soft") \in BOOLEAN /\ Column("hard") \in BOOLEAN
    BY RowFields
  <2> HIDE DEF Column, f
  <2> QED
    BY <2>1, <2>2, <2>3 DEF Row
<1> HIDE DEF f
<1> QED
  BY <1>2, <1>3 DEF f

\* A row that moves to another status and stage.
LEMMA MovedRow ==
    ASSUME NEW row \in Row, NEW s \in Pending \cup Ends, NEW g \in Stages
    PROVE  LET moved == [row EXCEPT !.status = s, !.stage = g]
           IN  /\ moved \in Row /\ moved.status = s /\ moved.stage = g
               /\ moved.comment = row.comment /\ moved.attempt = row.attempt
BY DEF Row

\* A row that is claimed.
LEMMA ClaimedRow ==
    ASSUME NEW row \in Row
    PROVE  /\ Claimed(row) \in Row /\ Claimed(row).status = "running"
           /\ Claimed(row).stage = row.stage /\ Claimed(row).comment = row.comment
           /\ Claimed(row).attempt = row.attempt
<1>1. PICK b \in BOOLEAN : b = (row.started \/ row.status = "queued")
  OBVIOUS
<1>2. Claimed(row) = [row EXCEPT !.status = "running", !.started = b]
  BY <1>1 DEF Claimed
<1>3. "running" \in Pending \cup Ends
  BY DEF Pending, Active
<1> QED
  BY <1>2, <1>3 DEF Row

\* The claim of a command changes its row alone, and leaves it running.
LEMMA ClaimEffect ==
    ASSUME TypeOK, NEW t \in Tasks, ClaimTask(t)
    PROVE  /\ task' \in [Tasks -> Row] /\ \A o \in Tasks \ {t} : task'[o] = task[o]
           /\ task[t].status \in Active /\ task'[t].status = "running"
           /\ task'[t].stage = task[t].stage /\ task'[t].comment = task[t].comment
           /\ task'[t].attempt = task[t].attempt
           /\ ew' = [pc |-> "loaded", task |-> t, row |-> task'[t]]
           /\ UNCHANGED <<closed, clock, runtime, outbox, comments, dw, api, faults>>
<1> DEFINE row == Claimed(task[t])
<1>1. task \in [Tasks -> Row] /\ task[t] \in Row
  BY DEF TypeOK
<1>2. /\ row \in Row /\ row.status = "running" /\ row.stage = task[t].stage
      /\ row.comment = task[t].comment /\ row.attempt = task[t].attempt
  BY <1>1, ClaimedRow
<1>3. /\ task' = [task EXCEPT ![t] = row] /\ task[t].status \in Active
      /\ ew' = [pc |-> "loaded", task |-> t, row |-> task'[t]]
      /\ UNCHANGED <<closed, clock, runtime, outbox, comments, dw, api, faults>>
  BY DEF ClaimTask
<1> HIDE DEF row
<1> QED
  BY <1>1, <1>2, <1>3

\* A row that is flagged in one of its columns.
LEMMA FlaggedRow ==
    \A row \in Row :
        /\ [row EXCEPT !.workspace = TRUE] \in Row
        /\ [row EXCEPT !.session = TRUE] \in Row
        /\ [row EXCEPT !.soft = TRUE] \in Row /\ [row EXCEPT !.hard = TRUE] \in Row
<1> DEFINE yes == TRUE
<1>1. yes \in BOOLEAN
  OBVIOUS
<1> HIDE DEF yes
<1>2. \A row \in Row :
        /\ [row EXCEPT !.workspace = yes] \in Row
        /\ [row EXCEPT !.session = yes] \in Row
        /\ [row EXCEPT !.soft = yes] \in Row /\ [row EXCEPT !.hard = yes] \in Row
  BY <1>1 DEF Row
<1> QED
  BY <1>2 DEF yes

LEMMA FlaggedFields ==
    \A row \in Row :
        LET flagged == {[row EXCEPT !.workspace = TRUE], [row EXCEPT !.session = TRUE],
                        [row EXCEPT !.soft = TRUE], [row EXCEPT !.hard = TRUE]}
        IN  \A r \in flagged : /\ r.status = row.status /\ r.stage = row.stage
                               /\ r.comment = row.comment /\ r.attempt = row.attempt
BY DEF Row

\* The commit of a changed row.
LEMMA CommitRow ==
    ASSUME TypeOK, NEW t \in Tasks, NEW loaded \in Row, NEW value \in Row,
           Commit(t, loaded, value)
    PROVE  /\ task' \in [Tasks -> Row]
           /\ \A o \in Tasks \ {t} : task'[o] = task[o]
           /\ task'[t].status = IF value.status = loaded.status THEN task[t].status
                                ELSE value.status
           /\ task'[t].stage = IF value.stage = loaded.stage THEN task[t].stage
                               ELSE value.stage
           /\ task'[t].comment = IF value.comment = loaded.comment THEN task[t].comment
                                 ELSE value.comment
           /\ task'[t].attempt = IF value.attempt = loaded.attempt THEN task[t].attempt
                                 ELSE value.attempt
<1>1. task \in [Tasks -> Row] /\ task[t] \in Row
  BY DEF TypeOK
<1> DEFINE new == Flush(task[t], loaded, value)
<1>2. /\ new \in Row
      /\ new.status = IF value.status = loaded.status THEN task[t].status
                      ELSE value.status
      /\ new.stage = IF value.stage = loaded.stage THEN task[t].stage ELSE value.stage
      /\ new.comment = IF value.comment = loaded.comment THEN task[t].comment
                       ELSE value.comment
      /\ new.attempt = IF value.attempt = loaded.attempt THEN task[t].attempt
                       ELSE value.attempt
  BY <1>1, FlushRow
<1>3. task' = [task EXCEPT ![t] = new]
  BY DEF Commit
<1> HIDE DEF new
<1>4. task' \in [Tasks -> Row] /\ task'[t] = new /\ \A o \in Tasks \ {t} : task'[o] = task[o]
  BY <1>1, <1>2, <1>3
<1> QED
  BY <1>2, <1>4

LEMMA ClosedType ==
    \A s \in {"delivered", "failed", "superseded"} :
        Closed(s) \in Delivery /\ Closed(s).status = s
<1> DEFINE no == FALSE
<1>1. no \in BOOLEAN /\ 0 \in 0..MaxAttempts
  BY AgentAssumption
<1> HIDE DEF no
<1>2. \A s \in {"delivered", "failed", "superseded"} :
        /\ [status |-> s, tries |-> 0, due |-> no] \in Delivery
        /\ [status |-> s, tries |-> 0, due |-> no].status = s
  BY <1>1 DEF Delivery
<1> QED
  BY <1>2 DEF Closed, no

LEMMA QueuedType ==
    /\ [status |-> "queued", tries |-> 0, due |-> TRUE] \in Delivery
    /\ [status |-> "queued", tries |-> 0, due |-> TRUE].status = "queued"
<1> DEFINE yes == TRUE
<1>1. yes \in BOOLEAN /\ 0 \in 0..MaxAttempts
  BY AgentAssumption
<1> HIDE DEF yes
<1>2. /\ [status |-> "queued", tries |-> 0, due |-> yes] \in Delivery
      /\ [status |-> "queued", tries |-> 0, due |-> yes].status = "queued"
  BY <1>1 DEF Delivery
<1> QED
  BY <1>2 DEF yes

\* What _enqueue_agent_task_comment does to the outbox.
LEMMA EnqueueRows ==
    ASSUME TypeOK, NEW k \in Keys, NEW supersede \in BOOLEAN, Enqueue(k, supersede)
    PROVE  /\ outbox' \in [Keys -> Delivery]
           /\ outbox'[k].status # "absent"
           /\ \A j \in Keys : \/ outbox'[j] = outbox[j]
                              \/ /\ j = k /\ outbox[k].status = "absent"
                                 /\ outbox'[k].status = "queued"
                              \/ /\ outbox[j].status = "queued"
                                 /\ outbox'[j].status = "superseded"
<1>1. outbox \in [Keys -> Delivery]
  BY DEF TypeOK
<1>2. CASE outbox[k].status # "absent"
  BY <1>1, <1>2 DEF Enqueue
<1>3. CASE outbox[k].status = "absent"
  <2> DEFINE queued == [status |-> "queued", tries |-> 0, due |-> TRUE]
             over == Closed("superseded")
             New(j) == IF j = k THEN queued
                       ELSE IF supersede /\ j[1] = k[1] /\ outbox[j].status = "queued"
                       THEN over ELSE outbox[j]
  <2>1. queued \in Delivery /\ queued.status = "queued"
    BY QueuedType
  <2>2. over \in Delivery /\ over.status = "superseded"
    BY ClosedType
  <2>3. outbox' = [j \in Keys |-> New(j)]
    BY <1>3 DEF Enqueue
  <2> HIDE DEF queued, over
  <2>4. \A j \in Keys : /\ New(j) \in Delivery
                        /\ \/ New(j) = outbox[j]
                           \/ j = k /\ New(j).status = "queued"
                           \/ outbox[j].status = "queued" /\ New(j).status = "superseded"
    BY <1>1, <2>1, <2>2
  <2>5. New(k).status = "queued"
    BY <2>1
  <2> HIDE DEF New
  <2> QED
    BY <1>3, <2>3, <2>4, <2>5
<1> QED
  BY <1>2, <1>3

-----------------------------------------------------------------------------
(* What a step of the execution worker does to the command it has in hand *)

Concludes ==
    \E end \in Ends :
        /\ Enqueue(<<ew.task, end, ew.row.attempt>>, TRUE)
        /\ ew.row.status # "awaiting_delivery" =>
             task'[ew.task].status = "awaiting_delivery"
        /\ ew' = IdleExec

AsksPlaceholder ==
    /\ ew.pc = "loaded" /\ NeedsPlaceholder(ew.row)
    /\ Enqueue(<<ew.task, "working", ew.row.attempt>>, FALSE)
    /\ ew.row.status # "awaiting_delivery" =>
         task'[ew.task].status = "awaiting_delivery"
    /\ ew' = IdleExec

Pauses ==
    /\ ew.pc \in {"ready", "start"} \/ InTurnToRun
    /\ \/ outbox' = outbox
       \/ Enqueue(<<ew.task, "queued", ew.row.attempt>>, FALSE)
    /\ task'[ew.task].status \in {"queued", "running", task[ew.task].status}
    /\ ew' = IdleExec

GoesOn ==
    /\ ew.pc \in {"prepare", "ready"} \/ HasTurn
    /\ outbox' = outbox
    /\ task'[ew.task].status \in {"running", task[ew.task].status}
    /\ ew'.pc \in {"prepare", "ready", "start"} /\ ew'.task = ew.task
    /\ ew'.row.status \in {"running", task'[ew.task].status}
    /\ ew'.row.attempt \in {ew.row.attempt, task'[ew.task].attempt}

\* Only the session of the command in hand changes, and only a start opens it.
SessionStep ==
    /\ runtime' \in [Tasks -> {"none", "running"} \cup Ends]
    /\ \A t \in Tasks : runtime'[t] # runtime[t] =>
         /\ t = ew.task
         /\ ew.pc = "start" \/ (runtime[t] # "none" /\ runtime'[t] # "running")

RowStep ==
    /\ task' \in [Tasks -> Row]
    /\ \A o \in Tasks \ {ew.task} : task'[o] = task[o]
    /\ task'[ew.task].comment = task[ew.task].comment
    /\ task'[ew.task].attempt = task[ew.task].attempt

HandStep ==
    /\ ew.pc # "idle"
    /\ RowStep /\ SessionStep
    /\ outbox' \in [Keys -> Delivery] /\ ew' \in Worker /\ faults' \in 0..MaxFaults
    /\ UNCHANGED <<closed, clock, comments, dw, api>>
    /\ Concludes \/ AsksPlaceholder \/ Pauses \/ GoesOn

LEMMA IdleTypes ==
    /\ IdleExec \in Worker /\ IdleExec.pc = "idle"
    /\ IdlePublisher \in Publisher /\ IdlePublisher.pc = "idle"
<1>1. 1 \in Tasks /\ 1 \in 1..MaxRuns /\ "working" \in Texts
  BY AgentAssumption DEF Tasks, Texts
<1>2. NoKey \in Keys
  BY <1>1 DEF NoKey, Keys
<1> QED
  BY <1>1, <1>2, NewTaskType DEF IdleExec, Worker, IdlePublisher, Publisher

LEMMA InHandTypes ==
    TypeOK => /\ ew \in Worker /\ ew.task \in Tasks /\ ew.row \in Row
              /\ ew.row.attempt \in 1..MaxRuns
              /\ \A text \in Texts : <<ew.task, text, ew.row.attempt>> \in Keys
<1> SUFFICES ASSUME TypeOK
             PROVE  /\ ew \in Worker /\ ew.task \in Tasks /\ ew.row \in Row
                    /\ ew.row.attempt \in 1..MaxRuns
                    /\ \A text \in Texts : <<ew.task, text, ew.row.attempt>> \in Keys
  OBVIOUS
<1>1. ew \in Worker /\ ew.task \in Tasks /\ ew.row \in Row
  BY DEF TypeOK, Worker
<1>2. ew.row.attempt \in 1..MaxRuns
  BY <1>1, RowFields
<1> QED
  BY <1>1, <1>2 DEF Keys

\* A commit of the row in hand that leaves the comment and the attempt alone.
LEMMA HandCommit ==
    ASSUME TypeOK, NEW value \in Row, Commit(ew.task, ew.row, value),
           value.comment = ew.row.comment, value.attempt = ew.row.attempt
    PROVE  /\ RowStep
           /\ task'[ew.task].status =
                IF value.status = ew.row.status THEN task[ew.task].status
                ELSE value.status
<1>1. ew.task \in Tasks /\ ew.row \in Row
  BY InHandTypes
<1> QED
  BY <1>1, CommitRow DEF RowStep

LEMMA ConcludeEffect ==
    ASSUME TypeOK, NEW row \in Row, NEW end \in Ends, Conclude(row, end),
           row.comment = ew.row.comment, row.attempt = ew.row.attempt
    PROVE  RowStep /\ Concludes /\ outbox' \in [Keys -> Delivery] /\ ew' \in Worker
<1> DEFINE value == Concluded(row, end)
<1>1. /\ value \in Row /\ value.status = "awaiting_delivery"
      /\ value.comment = ew.row.comment /\ value.attempt = ew.row.attempt
  <2>1. "awaiting_delivery" \in Pending \cup Ends /\ FinalStage(end) \in Stages
    BY DEF Pending, FinalStage, Ends, Stages
  <2>2. PICK g \in Stages : g = FinalStage(end)
    BY <2>1
  <2>3. value = [row EXCEPT !.status = "awaiting_delivery", !.stage = g]
    BY <2>2 DEF Concluded
  <2> HIDE DEF value
  <2> QED
    BY <2>1, <2>3 DEF Row
<1>2. /\ Commit(ew.task, ew.row, value)
      /\ Enqueue(<<ew.task, end, ew.row.attempt>>, TRUE) /\ ew' = IdleExec
  BY DEF Conclude
<1> HIDE DEF value
<1>3. RowStep /\ (ew.row.status # "awaiting_delivery" =>
                    task'[ew.task].status = "awaiting_delivery")
  BY <1>1, <1>2, HandCommit
<1>4. PICK k \in Keys : k = <<ew.task, end, ew.row.attempt>>
  BY InHandTypes DEF Texts
<1>5. outbox' \in [Keys -> Delivery]
  BY <1>2, <1>4, EnqueueRows
<1> QED
  BY <1>2, <1>3, <1>5, IdleTypes DEF Concludes

LEMMA StartedType ==
    ASSUME TypeOK
    PROVE  LET new == StartedRuntime(ew.task)
           IN  /\ new \in [Tasks -> {"none", "running"} \cup Ends]
               /\ \A t \in Tasks : new[t] # runtime[t] => t = ew.task
BY DEF StartedRuntime, TypeOK

LEMMA MayCancelType ==
    ASSUME TypeOK, NEW t \in Tasks, NEW known, MayCancel(t, known)
    PROVE  /\ runtime' \in [Tasks -> {"none", "running"} \cup Ends]
           /\ \A o \in Tasks : runtime'[o] # runtime[o] =>
                o = t /\ runtime[o] # "none" /\ runtime'[o] # "running"
<1>1. runtime \in [Tasks -> {"none", "running"} \cup Ends]
  BY DEF TypeOK
<1>2. runtime' = runtime \/ /\ runtime[t] = "running"
                            /\ runtime' = [runtime EXCEPT ![t] = "cancelled"]
  BY DEF MayCancel
<1> QED
  BY <1>1, <1>2 DEF Ends

LEMMA FaultType == TypeOK /\ Fault => faults' \in 0..MaxFaults
BY AgentAssumption DEF TypeOK, Fault

LEMMA SameRuntime == TypeOK /\ runtime' = runtime => SessionStep
BY DEF TypeOK, SessionStep

\* The answer of a session ends the command or leaves it waiting.
LEMMA ApplyEffect ==
    ASSUME TypeOK, NEW row \in Row, NEW status \in {"none", "running"} \cup Ends,
           ApplySession(row, status),
           row.comment = ew.row.comment, row.attempt = ew.row.attempt,
           ew.pc \in {"ready", "start"} \/ InTurnToRun
    PROVE  /\ RowStep /\ (Concludes \/ Pauses)
           /\ outbox' \in [Keys -> Delivery] /\ ew' \in Worker
<1>1. CASE \E end \in Ends : Conclude(row, end)
  BY <1>1, ConcludeEffect
<1> DEFINE value == [row EXCEPT !.status = "running", !.stage = "waiting_for_agent"]
<1>2. CASE /\ Commit(ew.task, ew.row, value) /\ ew' = IdleExec /\ outbox' = outbox
  <2>1. "running" \in Pending \cup Ends /\ "waiting_for_agent" \in Stages
    BY DEF Pending, Active, Stages, InAgent
  <2>2. /\ value \in Row /\ value.status = "running"
        /\ value.comment = ew.row.comment /\ value.attempt = ew.row.attempt
    BY <2>1 DEF Row
  <2> HIDE DEF value
  <2>3. RowStep /\ task'[ew.task].status \in {"running", task[ew.task].status}
    BY <1>2, <2>2, HandCommit
  <2> QED
    BY <1>2, <2>3, IdleTypes DEF Pauses, TypeOK
<1>3. \/ \E end \in Ends : Conclude(row, end)
      \/ Commit(ew.task, ew.row, value) /\ ew' = IdleExec /\ outbox' = outbox
  BY DEF ApplySession, Ends
<1> QED
  BY <1>1, <1>2, <1>3

\* Every action of CommandStep is such a step.
LEMMA CommandEffect == TypeOK /\ CommandStep => HandStep
<1> SUFFICES ASSUME TypeOK, CommandStep PROVE HandStep
  OBVIOUS
<1>0. /\ ew \in Worker /\ ew.task \in Tasks /\ ew.row \in Row
      /\ faults \in 0..MaxFaults /\ outbox \in [Keys -> Delivery]
      /\ runtime \in [Tasks -> {"none", "running"} \cup Ends]
  BY InHandTypes DEF TypeOK
<1>1. /\ {"queued", "running", "awaiting_delivery"} \subseteq Pending \cup Ends
      /\ {"placeholder_delivery_pending", "waiting_for_turn", "preparing_workspace",
          "starting_agent", "retrying_agent_start"} \subseteq Stages
  BY DEF Pending, Active, Stages, InAgent
<1>2. \A text \in {"working", "queued"} :
        \A supersede \in BOOLEAN :
          Enqueue(<<ew.task, text, ew.row.attempt>>, supersede) =>
            outbox' \in [Keys -> Delivery]
  <2> SUFFICES ASSUME NEW text \in {"working", "queued"}, NEW supersede \in BOOLEAN,
                      Enqueue(<<ew.task, text, ew.row.attempt>>, supersede)
               PROVE  outbox' \in [Keys -> Delivery]
    OBVIOUS
  <2>1. PICK k \in Keys : k = <<ew.task, text, ew.row.attempt>>
    BY InHandTypes DEF Texts
  <2> QED
    BY <2>1, EnqueueRows
<1>3. ASSUME RequestPlaceholder PROVE HandStep
  <2> DEFINE value == [ew.row EXCEPT !.status = "awaiting_delivery",
                                     !.stage = "placeholder_delivery_pending"]
  <2>1. /\ value \in Row /\ value.status = "awaiting_delivery"
        /\ value.comment = ew.row.comment /\ value.attempt = ew.row.attempt
    BY <1>0, <1>1 DEF Row
  <2>2. /\ ew.pc = "loaded" /\ NeedsPlaceholder(ew.row)
        /\ Commit(ew.task, ew.row, value)
        /\ Enqueue(<<ew.task, "working", ew.row.attempt>>, FALSE)
        /\ ew' = IdleExec
        /\ UNCHANGED <<closed, clock, runtime, comments, dw, api, faults>>
    BY <1>3 DEF RequestPlaceholder
  <2> HIDE DEF value
  <2>3. RowStep /\ (ew.row.status # "awaiting_delivery" =>
                      task'[ew.task].status = "awaiting_delivery")
    BY <2>1, <2>2, HandCommit
  <2>4. outbox' \in [Keys -> Delivery]
    BY <1>2, <2>2
  <2> QED
    BY <1>0, <2>2, <2>3, <2>4, SameRuntime, IdleTypes DEF HandStep, AsksPlaceholder
<1>4. ASSUME WaitForTurn PROVE HandStep
  <2> DEFINE value == [ew.row EXCEPT !.status = "queued", !.stage = "waiting_for_turn"]
  <2>1. /\ value \in Row /\ value.status = "queued"
        /\ value.comment = ew.row.comment /\ value.attempt = ew.row.attempt
    BY <1>0, <1>1 DEF Row
  <2>2. /\ InTurnToRun /\ Commit(ew.task, ew.row, value)
        /\ Enqueue(<<ew.task, "queued", ew.row.attempt>>, FALSE)
        /\ ew' = IdleExec
        /\ UNCHANGED <<closed, clock, runtime, comments, dw, api, faults>>
    BY <1>4 DEF WaitForTurn
  <2> HIDE DEF value
  <2>3. RowStep /\ task'[ew.task].status \in {"queued", task[ew.task].status}
    BY <2>1, <2>2, HandCommit
  <2>4. outbox' \in [Keys -> Delivery] /\ ew.pc = "loaded"
    BY <1>2, <2>2 DEF InTurnToRun
  <2> QED
    BY <1>0, <2>2, <2>3, <2>4, SameRuntime, IdleTypes DEF HandStep, Pauses
<1>5. ASSUME \/ CancelCommand \/ AskForText \/ RefuseCommand
             \/ PrepareFails \/ HardTimeout
      PROVE  HandStep
  <2>1. /\ ew.pc # "idle" /\ faults' = faults
        /\ UNCHANGED <<closed, clock, comments, dw, api>>
        /\ \E end \in Ends : \/ Conclude(ew.row, end)
                             \/ Conclude([ew.row EXCEPT !.hard = TRUE], end)
    BY <1>5 DEF CancelCommand, AskForText, RefuseCommand, PrepareFails, HardTimeout,
       InTurnToRun, HasTurn, Ends
  <2>2. PICK row \in {ew.row, [ew.row EXCEPT !.hard = TRUE]}, end \in Ends :
          Conclude(row, end)
    BY <2>1
  <2>3. row \in Row /\ row.comment = ew.row.comment /\ row.attempt = ew.row.attempt
    BY <1>0, FlaggedRow, FlaggedFields
  <2>4. RowStep /\ Concludes /\ outbox' \in [Keys -> Delivery] /\ ew' \in Worker
    BY <2>2, <2>3, ConcludeEffect
  <2>5. runtime' = runtime \/ \E known : MayCancel(ew.task, known)
    BY <1>5 DEF CancelCommand, AskForText, RefuseCommand, PrepareFails, HardTimeout
  <2>6. SessionStep
    BY <1>0, <2>5, SameRuntime, MayCancelType DEF SessionStep
  <2> QED
    BY <1>0, <2>1, <2>4, <2>6 DEF HandStep
<1>6. ASSUME BeginPrepare PROVE HandStep
  <2> DEFINE value == [ew.row EXCEPT !.status = "running", !.stage = "preparing_workspace"]
  <2>1. /\ value \in Row /\ value.status = "running"
        /\ value.comment = ew.row.comment /\ value.attempt = ew.row.attempt
    BY <1>0, <1>1 DEF Row
  <2>2. /\ HasTurn /\ Commit(ew.task, ew.row, value) /\ GoOn("prepare", value)
        /\ UNCHANGED <<closed, clock, runtime, outbox, comments, dw, api, faults>>
    BY <1>6 DEF BeginPrepare
  <2> HIDE DEF value
  <2>3. RowStep /\ task'[ew.task].status \in {"running", task[ew.task].status}
    BY <2>1, <2>2, HandCommit
  <2>4. /\ ew' \in Worker /\ ew'.pc = "prepare" /\ ew'.task = ew.task /\ ew'.row = value
        /\ ew.pc = "loaded"
    BY <1>0, <2>1, <2>2 DEF GoOn, Worker, HasTurn, InTurnToRun
  <2> QED
    BY <1>0, <2>1, <2>2, <2>3, <2>4, SameRuntime DEF HandStep, GoesOn
<1>7. ASSUME PrepareWorkspace PROVE HandStep
  <2> DEFINE value == [ew.row EXCEPT !.workspace = TRUE]
  <2>1. /\ value \in Row /\ value.status = ew.row.status
        /\ value.comment = ew.row.comment /\ value.attempt = ew.row.attempt
    BY <1>0, FlaggedRow, FlaggedFields
  <2>2. /\ ew.pc = "prepare" /\ Commit(ew.task, ew.row, value)
        /\ GoOn("ready", task'[ew.task])
        /\ UNCHANGED <<closed, clock, runtime, outbox, comments, dw, api, faults>>
    BY <1>7 DEF PrepareWorkspace
  <2> HIDE DEF value
  <2>3. RowStep /\ task'[ew.task].status = task[ew.task].status
    BY <2>1, <2>2, HandCommit
  <2>4. task'[ew.task] \in Row
    BY <1>0, <2>3 DEF RowStep
  <2>5. /\ ew' \in Worker /\ ew'.pc = "ready" /\ ew'.task = ew.task
        /\ ew'.row = task'[ew.task]
    BY <1>0, <2>2, <2>4 DEF GoOn, Worker
  <2> QED
    BY <1>0, <2>2, <2>3, <2>5, SameRuntime DEF HandStep, GoesOn
<1>8. ASSUME BeginStart PROVE HandStep
  <2> DEFINE yes == TRUE
             value == [ew.row EXCEPT !.status = "running", !.stage = "starting_agent",
                                     !.started = yes, !.deadline = yes,
                                     !.starts = Counted(@, MaxStarts)]
  <2>1. /\ value \in Row /\ value.status = "running"
        /\ value.comment = ew.row.comment /\ value.attempt = ew.row.attempt
    <3>1. PICK n \in 0..MaxStarts : n = Counted(ew.row.starts, MaxStarts)
      BY <1>0, RowFields, AgentAssumption DEF Counted
    <3>2. value = [ew.row EXCEPT !.status = "running", !.stage = "starting_agent",
                                 !.started = yes, !.deadline = yes, !.starts = n]
      BY <3>1
    <3>3. yes \in BOOLEAN
      OBVIOUS
    <3> HIDE DEF yes, value
    <3> QED
      BY <1>0, <1>1, <3>2, <3>3 DEF Row
  <2>2. /\ MayRun /\ Commit(ew.task, ew.row, value) /\ GoOn("start", value)
        /\ UNCHANGED <<closed, clock, runtime, outbox, comments, dw, api, faults>>
    BY <1>8 DEF BeginStart
  <2> HIDE DEF value
  <2>3. RowStep /\ task'[ew.task].status \in {"running", task[ew.task].status}
    BY <2>1, <2>2, HandCommit
  <2>4. /\ ew' \in Worker /\ ew'.pc = "start" /\ ew'.task = ew.task /\ ew'.row = value
        /\ ew.pc = "ready" \/ HasTurn
        /\ ew.pc \in {"ready", "loaded"}
    BY <1>0, <2>1, <2>2 DEF GoOn, Worker, MayRun, HasTurn, InTurnToRun
  <2> QED
    BY <1>0, <2>1, <2>2, <2>3, <2>4, SameRuntime DEF HandStep, GoesOn
<1>9. ASSUME StartSession PROVE HandStep
  <2>1. /\ ew.pc = "start" /\ runtime' = StartedRuntime(ew.task)
        /\ ApplySession([ew.row EXCEPT !.session = TRUE], runtime'[ew.task])
        /\ UNCHANGED <<closed, clock, comments, dw, api, faults>>
    BY <1>9 DEF StartSession
  <2>2. SessionStep
    BY <2>1, StartedType DEF SessionStep
  <2>3. PICK row \in Row : row = [ew.row EXCEPT !.session = TRUE]
    BY <1>0, FlaggedRow
  <2>4. row.comment = ew.row.comment /\ row.attempt = ew.row.attempt
    BY <1>0, <2>3, FlaggedFields
  <2>5. PICK status \in {"none", "running"} \cup Ends : status = runtime'[ew.task]
    BY <1>0, <2>2 DEF SessionStep
  <2>6. /\ RowStep /\ (Concludes \/ Pauses)
        /\ outbox' \in [Keys -> Delivery] /\ ew' \in Worker
    BY <2>1, <2>3, <2>4, <2>5, ApplyEffect
  <2> QED
    BY <1>0, <2>1, <2>2, <2>6 DEF HandStep
<1>10. ASSUME PollSession PROVE HandStep
  <2>1. /\ ew.pc = "ready" \/ HasTurn
        /\ ApplySession(ew.row, runtime[ew.task]) \/ Conclude(ew.row, "failed")
        /\ UNCHANGED <<closed, clock, runtime, comments, dw, api, faults>>
    BY <1>10 DEF PollSession, MayRun
  <2>2. ew.pc \in {"ready", "loaded"} /\ (ew.pc = "ready" \/ InTurnToRun)
    BY <2>1 DEF HasTurn, InTurnToRun
  <2>3. PICK status \in {"none", "running"} \cup Ends : status = runtime[ew.task]
    BY <1>0
  <2>4. /\ RowStep /\ (Concludes \/ Pauses)
        /\ outbox' \in [Keys -> Delivery] /\ ew' \in Worker
    <3>1. CASE ApplySession(ew.row, runtime[ew.task])
      BY <1>0, <2>2, <2>3, <3>1, ApplyEffect
    <3>2. CASE Conclude(ew.row, "failed")
      BY <1>0, <3>2, ConcludeEffect DEF Ends
    <3> QED
      BY <2>1, <3>1, <3>2
  <2> QED
    BY <1>0, <2>1, <2>2, <2>4, SameRuntime DEF HandStep
<1>11. ASSUME StartFails PROVE HandStep
  <2> DEFINE value == [ew.row EXCEPT !.status = "queued", !.stage = "retrying_agent_start"]
  <2>1. /\ ew.pc = "start" /\ Fault
        /\ runtime' = runtime \/ runtime' = StartedRuntime(ew.task)
        /\ \/ Conclude(ew.row, "failed")
           \/ Commit(ew.task, ew.row, value) /\ ew' = IdleExec /\ outbox' = outbox
        /\ UNCHANGED <<closed, clock, comments, dw, api>>
    BY <1>11 DEF StartFails
  <2>2. SessionStep
    BY <2>1, StartedType, SameRuntime DEF SessionStep
  <2>3. /\ RowStep /\ (Concludes \/ Pauses)
        /\ outbox' \in [Keys -> Delivery] /\ ew' \in Worker
    <3>1. CASE Conclude(ew.row, "failed")
      BY <1>0, <3>1, ConcludeEffect DEF Ends
    <3>2. CASE Commit(ew.task, ew.row, value) /\ ew' = IdleExec /\ outbox' = outbox
      <4>1. /\ value \in Row /\ value.status = "queued"
            /\ value.comment = ew.row.comment /\ value.attempt = ew.row.attempt
        BY <1>0, <1>1 DEF Row
      <4> HIDE DEF value
      <4>2. RowStep /\ task'[ew.task].status \in {"queued", task[ew.task].status}
        BY <3>2, <4>1, HandCommit
      <4> QED
        BY <1>0, <2>1, <3>2, <4>2, IdleTypes DEF Pauses
    <3> QED
      BY <2>1, <3>1, <3>2
  <2> QED
    BY <2>1, <2>2, <2>3, FaultType DEF HandStep
<1> QED
  BY <1>3, <1>4, <1>5, <1>6, <1>7, <1>8, <1>9, <1>10, <1>11 DEF CommandStep

-----------------------------------------------------------------------------
(* The publishers of comments *)

LEMMA KeptRow ==
    \A row \in Row : /\ Kept(row) \in Row /\ Kept(row).comment = row.comment
                     /\ Kept(row).status = row.status /\ Kept(row).stage = row.stage
<1> SUFFICES ASSUME NEW row \in Row
             PROVE  /\ Kept(row) \in Row /\ Kept(row).comment = row.comment
                    /\ Kept(row).status = row.status /\ Kept(row).stage = row.stage
  OBVIOUS
<1>1. /\ row.status \in Pending \cup Ends /\ row.stage \in Stages
      /\ row.comment \in Nat /\ row.hash \in Texts \cup {"none"}
  BY RowFields
<1> QED
  BY <1>1, NewTaskType DEF Kept, Row

LEMMA PublisherFields ==
    \A p \in Publisher :
        /\ p.key \in Keys /\ p.key[1] \in Tasks /\ p.key[2] \in Texts
        /\ p.key[3] \in 1..MaxRuns /\ p.row \in Row /\ p.comment \in Nat
        /\ p.key = <<p.key[1], p.key[2], p.key[3]>>
BY DEF Publisher, Keys

LEMMA PublishedRow ==
    \A p \in Publisher : /\ Published(p) \in Row /\ Published(p).comment = p.comment
                         /\ Published(p).status = p.row.status
                         /\ Published(p).stage = p.row.stage
                         /\ Published(p).attempt = p.row.attempt
<1> SUFFICES ASSUME NEW p \in Publisher
             PROVE  /\ Published(p) \in Row /\ Published(p).comment = p.comment
                    /\ Published(p).status = p.row.status
                    /\ Published(p).stage = p.row.stage
                    /\ Published(p).attempt = p.row.attempt
  OBVIOUS
<1>1. p.row \in Row /\ p.comment \in Nat /\ p.key[2] \in Texts
  BY PublisherFields
<1> QED
  BY <1>1 DEF Published, Row

\* The provider call creates a comment or updates the one that was found.
LEMMA WrittenComments ==
    ASSUME TypeOK, NEW p \in Publisher
    PROVE  /\ Written(p) \in [Tasks -> Seq(Texts)]
           /\ \A t \in Tasks \ {p.key[1]} : Written(p)[t] = comments[t]
           /\ p.comment = 0 => Len(Written(p)[p.key[1]]) = Len(comments[p.key[1]]) + 1
           /\ p.comment # 0 => Len(Written(p)[p.key[1]]) = Len(comments[p.key[1]])
           /\ WrittenId(p) \in Nat /\ WrittenId(p) # 0
<1> DEFINE t == p.key[1]
           s == comments[t]
           x == p.key[2]
           new == IF p.comment = 0 THEN Append(s, x) ELSE [s EXCEPT ![p.comment] = x]
<1>0. /\ t \in Tasks /\ x \in Texts /\ p.comment \in Nat
      /\ comments \in [Tasks -> Seq(Texts)]
  BY PublisherFields DEF TypeOK
<1>1. s \in Seq(Texts) /\ Len(s) \in Nat
  BY <1>0, LenProperties
<1>2. Written(p) = [comments EXCEPT ![t] = new]
  BY <1>0 DEF Written
<1> HIDE DEF s, x
<1>3. Append(s, x) \in Seq(Texts) /\ Len(Append(s, x)) = Len(s) + 1
  BY <1>0, <1>1, AppendProperties
<1>4. [s EXCEPT ![p.comment] = x] \in Seq(Texts) /\ Len([s EXCEPT ![p.comment] = x]) = Len(s)
  <2>1. CASE p.comment \in 1..Len(s)
    BY <1>0, <1>1, <2>1, ExceptSeq
  <2>2. CASE p.comment \notin 1..Len(s)
    <3>1. DOMAIN s = 1..Len(s) /\ s = [i \in 1..Len(s) |-> s[i]]
      BY <1>1, LenProperties
    <3>2. [s EXCEPT ![p.comment] = x] = s
      BY <2>2, <3>1
    <3> QED
      BY <1>1, <3>2
  <2> QED
    BY <2>1, <2>2
<1>5. /\ new \in Seq(Texts)
      /\ p.comment = 0 => Len(new) = Len(s) + 1
      /\ p.comment # 0 => Len(new) = Len(s)
  BY <1>3, <1>4
<1> HIDE DEF new
<1>6. /\ Written(p) \in [Tasks -> Seq(Texts)] /\ Written(p)[t] = new
      /\ \A o \in Tasks \ {t} : Written(p)[o] = comments[o]
  BY <1>0, <1>2, <1>5
<1>7. WrittenId(p) \in Nat /\ WrittenId(p) # 0
  BY <1>0, <1>1 DEF WrittenId, s
<1> QED
  BY <1>5, <1>6, <1>7 DEF s

\* The look-up finds the comment up to date, or goes on to write one.
LEMMA LookedUp ==
    ASSUME TypeOK, NEW p \in Publisher
    PROVE  LET q == AfterLookup(p)
           IN  /\ q \in Publisher /\ q.key = p.key
               /\ \/ q.pc = "finish" /\ p.row.comment # 0
                  \/ q.pc = "write" /\ q.row = p.row /\ q.comment = Found(p)
<1> DEFINE done == [p EXCEPT !.pc = "finish", !.row = NewTask, !.comment = 0]
           go == [p EXCEPT !.pc = "write", !.comment = Found(p)]
<1>1. done \in Publisher /\ done.key = p.key /\ done.pc = "finish"
  BY NewTaskType DEF Publisher
<1>2. go \in Publisher /\ go.key = p.key /\ go.pc = "write" /\ go.row = p.row
      /\ go.comment = Found(p)
  <2>1. PICK n \in Nat : n = Found(p)
    BY PublisherFields, RowFields DEF Found
  <2>2. go = [p EXCEPT !.pc = "write", !.comment = n]
    BY <2>1
  <2> HIDE DEF go
  <2> QED
    BY <2>1, <2>2 DEF Publisher
<1>3. AfterLookup(p) = IF Unchanged(p) THEN done ELSE go
  BY DEF AfterLookup, Finishing
<1>4. Unchanged(p) => p.row.comment # 0
  BY DEF Unchanged
<1> HIDE DEF done, go
<1> QED
  BY <1>1, <1>2, <1>3, <1>4

LEMMA FinishingType ==
    \A p \in Publisher : /\ Finishing(p) \in Publisher /\ Finishing(p).pc = "finish"
                         /\ Finishing(p).key = p.key
BY NewTaskType DEF Finishing, Publisher

\* The comment id is committed.
LEMMA BoundRow ==
    ASSUME TypeOK, NEW p \in Publisher
    PROVE  LET f == Flush(task[p.key[1]], p.row, Published(p))
           IN  /\ f \in Row
               /\ f.status = task[p.key[1]].status /\ f.stage = task[p.key[1]].stage
               /\ f.attempt = task[p.key[1]].attempt
               /\ f.comment = IF p.comment = p.row.comment THEN task[p.key[1]].comment
                              ELSE p.comment
<1>1. task[p.key[1]] \in Row /\ p.row \in Row
  BY PublisherFields DEF TypeOK
<1> QED
  BY <1>1, PublishedRow, FlushRow

-----------------------------------------------------------------------------
(* Types *)

LEMMA InitialTypes == Init => TypeOK
<1> SUFFICES ASSUME Init PROVE TypeOK
  OBVIOUS
<1> DEFINE no == FALSE
<1>1. no \in BOOLEAN /\ 0 \in 0..MaxAttempts
  BY AgentAssumption
<1>2. outbox = [k \in Keys |-> [status |-> "absent", tries |-> 0, due |-> no]]
  BY DEF Init
<1> HIDE DEF no
<1>3. outbox \in [Keys -> Delivery]
  BY <1>1, <1>2 DEF Delivery
<1>4. comments \in [Tasks -> Seq(Texts)]
  <2>1. <<>> \in Seq(Texts)
    OBVIOUS
  <2> QED
    BY <2>1 DEF Init
<1>5. MaxFaults \in 0..MaxFaults
  BY AgentAssumption
<1> QED
  BY <1>3, <1>4, <1>5, NewTaskType, IdleTypes DEF Init, TypeOK

LEMMA CommandTypes == TypeOK /\ CommandStep => TypeOK'
<1> SUFFICES ASSUME TypeOK, CommandStep PROVE TypeOK'
  OBVIOUS
<1>1. HandStep
  BY CommandEffect
<1> QED
  BY <1>1 DEF HandStep, RowStep, SessionStep, TypeOK

\* Claims, sweeps and deaths of the execution worker.
LEMMA HandTypes ==
    ASSUME TypeOK,
           \/ \E t \in Tasks : ClaimTask(t) \/ SoftTimeout(t) \/ BeginTimeout(t)
           \/ CrashExecution
    PROVE  TypeOK'
<1>1. ASSUME NEW t \in Tasks, ClaimTask(t) PROVE TypeOK'
  <2>1. task' \in [Tasks -> Row] /\ task'[t] \in Row
    BY <1>1, ClaimEffect
  <2>2. ew' \in Worker
    BY <1>1, <2>1, ClaimEffect DEF Worker
  <2> QED
    BY <1>1, <2>1, <2>2, ClaimEffect DEF TypeOK
<1>2. ASSUME NEW t \in Tasks, SoftTimeout(t) PROVE TypeOK'
  <2> DEFINE row == [task[t] EXCEPT !.soft = TRUE]
  <2>1. row \in Row /\ task \in [Tasks -> Row] /\ task[t].attempt \in 1..MaxRuns
    BY FlaggedRow, RowFields DEF TypeOK
  <2>2. task' = [task EXCEPT ![t] = row]
        /\ Enqueue(<<t, "soft_timeout", task[t].attempt>>, FALSE)
        /\ UNCHANGED <<closed, clock, runtime, comments, ew, dw, api, faults>>
    BY <1>2 DEF SoftTimeout
  <2> HIDE DEF row
  <2>3. PICK k \in Keys : k = <<t, "soft_timeout", task[t].attempt>>
    BY <2>1 DEF Keys, Texts
  <2>4. outbox' \in [Keys -> Delivery]
    BY <2>2, <2>3, EnqueueRows
  <2> QED
    BY <2>1, <2>2, <2>4 DEF TypeOK
<1>3. ASSUME NEW t \in Tasks, BeginTimeout(t) PROVE TypeOK'
  <2>1. task[t] \in Row
    BY DEF TypeOK
  <2>2. ew' \in Worker
    BY <1>3, <2>1 DEF BeginTimeout, Worker
  <2> QED
    BY <1>3, <2>2 DEF BeginTimeout, TypeOK
<1>4. ASSUME CrashExecution PROVE TypeOK'
  <2>1. runtime' = runtime \/ runtime' = StartedRuntime(ew.task)
    BY <1>4 DEF CrashExecution
  <2>2. runtime' \in [Tasks -> {"none", "running"} \cup Ends]
    BY <2>1, StartedType DEF TypeOK
  <2>3. faults' \in 0..MaxFaults
    BY <1>4, FaultType DEF CrashExecution
  <2> QED
    BY <1>4, <2>2, <2>3, IdleTypes DEF CrashExecution, TypeOK
<1> QED
  BY <1>1, <1>2, <1>3, <1>4

\* Claiming a delivery keeps what is on its way on its way.
LEMMA ClaimedRows ==
    ASSUME TypeOK, NEW k \in Keys, ClaimDelivery(k)
    PROVE  /\ outbox' \in [Keys -> Delivery] /\ outbox'[k].status = "running"
           /\ \A j \in Keys : \/ outbox'[j].status = outbox[j].status
                              \/ /\ outbox[j].status \in {"queued", "running"}
                                 /\ outbox'[j].status \in {"queued", "running"}
<1>0. outbox \in [Keys -> Delivery]
  BY DEF TypeOK
<1>1. PICK expired \in {{}, {j \in Keys : outbox[j].status = "running"}} :
        /\ Reclaimed(expired)[k].status = "queued"
        /\ outbox' = [Reclaimed(expired) EXCEPT ![k] =
                        [status |-> "running", due |-> FALSE,
                         tries |-> Counted(Reclaimed(expired)[k].tries, MaxAttempts)]]
  BY DEF ClaimDelivery
<1> DEFINE rows == Reclaimed(expired)
<1>2. /\ rows \in [Keys -> Delivery]
      /\ \A j \in Keys : \/ rows[j] = outbox[j]
                         \/ outbox[j].status = "running" /\ rows[j].status = "queued"
  <2> DEFINE yes == TRUE
  <2>1. yes \in BOOLEAN
    OBVIOUS
  <2>2. rows = [j \in Keys |-> IF j \in expired
                               THEN [outbox[j] EXCEPT !.status = "queued", !.due = yes]
                               ELSE outbox[j]]
    BY DEF Reclaimed
  <2> HIDE DEF yes, rows
  <2>3. \A j \in Keys : /\ [outbox[j] EXCEPT !.status = "queued", !.due = yes] \in Delivery
                        /\ [outbox[j] EXCEPT !.status = "queued", !.due = yes].status = "queued"
    BY <1>0, <2>1 DEF Delivery
  <2>4. \A j \in expired : j \in Keys /\ outbox[j].status = "running"
    OBVIOUS
  <2> QED
    BY <1>0, <2>2, <2>3, <2>4
<1> HIDE DEF rows
<1>3. PICK d \in Delivery : /\ d.status = "running"
                            /\ outbox' = [rows EXCEPT ![k] = d]
  <2> DEFINE no == FALSE
  <2>1. no \in BOOLEAN
    OBVIOUS
  <2>2. PICK n \in 0..MaxAttempts : n = Counted(rows[k].tries, MaxAttempts)
    <3>1. rows[k].tries \in 0..MaxAttempts
      BY <1>2 DEF Delivery
    <3> QED
      BY <3>1, AgentAssumption DEF Counted
  <2> DEFINE d == [status |-> "running", due |-> no, tries |-> n]
  <2>3. outbox' = [rows EXCEPT ![k] = d]
    BY <1>1, <2>2 DEF rows
  <2> HIDE DEF no
  <2>4. d \in Delivery /\ d.status = "running"
    BY <2>1, <2>2 DEF Delivery
  <2> QED
    BY <2>3, <2>4
<1>4. rows[k].status = "queued"
  BY <1>1 DEF rows
<1>5. outbox' \in [Keys -> Delivery] /\ outbox'[k].status = "running"
      /\ \A j \in Keys \ {k} : outbox'[j] = rows[j]
  BY <1>2, <1>3
<1> QED
  BY <1>2, <1>4, <1>5

\* _apply_delivery_success opens a command, ends it or leaves it alone.
LEMMA SettledRow ==
    ASSUME NEW k \in Keys, NEW row \in Row
    PROVE  LET s == Settled(k, row)
           IN  /\ s \in Row /\ s.comment = row.comment /\ s.attempt = row.attempt
               /\ \/ k[2] = "working" /\ s.status = "queued"
                  \/ k[2] \in Ends /\ ~OthersPending(k) /\ s.status = k[2]
                  \/ k[2] # "working" /\ s = row
<1>1. {"queued"} \cup Ends \subseteq Pending \cup Ends
      /\ {"placeholder_delivered"} \cup Ends \subseteq Stages
  BY DEF Pending, Active, Stages
<1>2. CASE k[2] = "working"
  <2>1. Settled(k, row) = [row EXCEPT !.status = "queued", !.stage = "placeholder_delivered"]
    BY <1>2 DEF Settled
  <2> QED
    BY <1>1, <1>2, <2>1 DEF Row
<1>3. CASE k[2] # "working" /\ k[2] \in Ends /\ ~OthersPending(k)
  <2>1. PICK x \in Ends : x = k[2]
    BY <1>3
  <2>2. Settled(k, row) = [row EXCEPT !.status = x, !.stage = x]
    BY <1>3, <2>1 DEF Settled
  <2>3. /\ Settled(k, row) \in Row /\ Settled(k, row).status = x
        /\ Settled(k, row).comment = row.comment /\ Settled(k, row).attempt = row.attempt
    BY <1>1, <2>2 DEF Row
  <2> QED
    BY <1>3, <2>1, <2>3
<1>4. CASE k[2] # "working" /\ ~(k[2] \in Ends /\ ~OthersPending(k))
  <2>1. Settled(k, row) = row
    BY <1>4 DEF Settled
  <2> QED
    BY <1>4, <2>1
<1> QED
  BY <1>2, <1>3, <1>4

\* What _record_delivery_failure leaves of the delivery and of its command.
LEMMA FailureRows ==
    ASSUME TypeOK, RecordDeliveryFailure
    PROVE  LET k == dw.key
               t == dw.key[1]
           IN  /\ outbox' \in [Keys -> Delivery] /\ task' \in [Tasks -> Row]
               /\ \A j \in Keys \ {k} : outbox'[j] = outbox[j]
               /\ \A o \in Tasks \ {t} : task'[o] = task[o]
               /\ task'[t].comment = task[t].comment
               /\ task'[t].attempt = task[t].attempt
               /\ \/ /\ outbox'[k].status = "failed"
                     /\ Mandatory(k[2])
                     /\ task'[t].status \in {"failed", task[t].status}
                  \/ /\ outbox'[k].status \in {"failed", "queued"}
                     /\ task'[t].status = task[t].status
                     /\ task'[t].stage = task[t].stage
<1> DEFINE k == dw.key
           t == dw.key[1]
           exhausted == outbox[k].tries >= MaxAttempts
           worse == [dw.row EXCEPT !.status = "failed", !.stage = "delivery_failed"]
<1>0. /\ dw \in Publisher /\ k \in Keys /\ t \in Tasks /\ dw.row \in Row
      /\ outbox \in [Keys -> Delivery] /\ outbox[k] \in Delivery
  BY PublisherFields DEF TypeOK
<1>1. outbox' = [outbox EXCEPT ![k] = IF exhausted THEN Closed("failed")
                                      ELSE [outbox[k] EXCEPT !.status = "queued", !.due = FALSE]]
  BY <1>0 DEF RecordDeliveryFailure
<1>2. Commit(t, dw.row, IF exhausted /\ Mandatory(k[2]) THEN worse ELSE dw.row)
  BY DEF RecordDeliveryFailure
<1>3. /\ outbox' \in [Keys -> Delivery] /\ \A j \in Keys \ {k} : outbox'[j] = outbox[j]
      /\ exhausted => outbox'[k].status = "failed"
      /\ ~exhausted => outbox'[k].status = "queued"
  <2> DEFINE no == FALSE
             again == [outbox[k] EXCEPT !.status = "queued", !.due = no]
  <2>1. no \in BOOLEAN
    OBVIOUS
  <2>2. outbox' = [outbox EXCEPT ![k] = IF exhausted THEN Closed("failed") ELSE again]
    BY <1>1
  <2> HIDE DEF no
  <2>3. again \in Delivery /\ again.status = "queued"
    BY <1>0, <2>1 DEF Delivery
  <2>4. Closed("failed") \in Delivery /\ Closed("failed").status = "failed"
    BY ClosedType
  <2> HIDE DEF again, exhausted
  <2> QED
    BY <1>0, <2>2, <2>3, <2>4
<1>4. /\ worse \in Row /\ worse.status = "failed"
      /\ worse.comment = dw.row.comment /\ worse.attempt = dw.row.attempt
  <2>1. "failed" \in Pending \cup Ends /\ "delivery_failed" \in Stages
    BY DEF Ends, Stages
  <2> QED
    BY <1>0, <2>1 DEF Row
<1> HIDE DEF worse
<1>5. CASE exhausted /\ Mandatory(k[2])
  <2>1. Commit(t, dw.row, worse)
    BY <1>2, <1>5
  <2>2. /\ task' \in [Tasks -> Row] /\ \A o \in Tasks \ {t} : task'[o] = task[o]
        /\ task'[t].comment = task[t].comment /\ task'[t].attempt = task[t].attempt
        /\ task'[t].status \in {"failed", task[t].status}
    BY <1>0, <1>4, <2>1, CommitRow
  <2> QED
    BY <1>3, <1>5, <2>2
<1>6. CASE ~(exhausted /\ Mandatory(k[2]))
  <2>1. Commit(t, dw.row, dw.row)
    BY <1>2, <1>6
  <2>2. /\ task' \in [Tasks -> Row] /\ \A o \in Tasks \ {t} : task'[o] = task[o]
        /\ task'[t].comment = task[t].comment /\ task'[t].attempt = task[t].attempt
        /\ task'[t].status = task[t].status /\ task'[t].stage = task[t].stage
    BY <1>0, <2>1, CommitRow
  <2> HIDE DEF exhausted
  <2> QED
    BY <1>3, <2>2
<1> QED
  BY <1>5, <1>6

LEMMA DeliveryTypes ==
    ASSUME TypeOK,
           \/ \E k \in Keys : ClaimDelivery(k) \/ BackoffElapses(k)
           \/ DeliveryStep \/ CrashDelivery
    PROVE  TypeOK'
<1>0. dw \in Publisher /\ dw.key \in Keys /\ dw.key[1] \in Tasks /\ dw.row \in Row
  BY PublisherFields DEF TypeOK
<1>1. ASSUME NEW k \in Keys, ClaimDelivery(k) PROVE TypeOK'
  <2>1. outbox' \in [Keys -> Delivery]
    BY <1>1, ClaimedRows
  <2>2. Kept(task[k[1]]) \in Row
    BY KeptRow DEF TypeOK, Keys
  <2>3. dw' \in Publisher
    BY <1>1, <2>2 DEF ClaimDelivery, Publisher
  <2> QED
    BY <1>1, <2>1, <2>3 DEF ClaimDelivery, TypeOK
<1>2. ASSUME NEW k \in Keys, BackoffElapses(k) PROVE TypeOK'
  <2> DEFINE yes == TRUE
             d == [outbox[k] EXCEPT !.due = yes]
  <2>1. yes \in BOOLEAN
    OBVIOUS
  <2>2. outbox' = [outbox EXCEPT ![k] = d]
    BY <1>2 DEF BackoffElapses
  <2> HIDE DEF yes
  <2>3. d \in Delivery
    BY <2>1 DEF TypeOK, Delivery
  <2> HIDE DEF d
  <2> QED
    BY <1>2, <2>2, <2>3 DEF BackoffElapses, TypeOK
<1>3. ASSUME LookUpComment PROVE TypeOK'
  BY <1>0, <1>3, LookedUp DEF LookUpComment, TypeOK
<1>4. ASSUME WriteComment PROVE TypeOK'
  <2>1. PICK n \in Nat : n = WrittenId(dw)
    BY <1>0, WrittenComments
  <2>2. dw' = [dw EXCEPT !.pc = "bind", !.comment = n]
    BY <1>4, <2>1 DEF WriteComment
  <2>3. dw' \in Publisher
    BY <1>0, <2>2 DEF Publisher
  <2>4. comments' \in [Tasks -> Seq(Texts)]
    BY <1>0, <1>4, WrittenComments DEF WriteComment
  <2> QED
    BY <1>4, <2>3, <2>4 DEF WriteComment, TypeOK
<1>5. ASSUME BindComment PROVE TypeOK'
  <2>1. task' \in [Tasks -> Row]
    BY <1>0, <1>5, PublishedRow, CommitRow DEF BindComment
  <2> QED
    BY <1>0, <1>5, <2>1, FinishingType DEF BindComment, TypeOK
<1>6. ASSUME ProviderFails PROVE TypeOK'
  <2>1. comments' = comments \/ comments' = Written(dw)
    BY <1>6 DEF ProviderFails
  <2>2. comments' \in [Tasks -> Seq(Texts)]
    BY <1>0, <2>1, WrittenComments DEF TypeOK
  <2>3. dw' \in Publisher
    BY <1>0, <1>6 DEF ProviderFails, Publisher
  <2>4. faults' \in 0..MaxFaults
    BY <1>6, FaultType DEF ProviderFails
  <2> QED
    BY <1>6, <2>2, <2>3, <2>4 DEF ProviderFails, TypeOK
<1>7. ASSUME FinishDelivery PROVE TypeOK'
  <2>1. Closed("delivered") \in Delivery
    BY ClosedType
  <2>2. Settled(dw.key, task[dw.key[1]]) \in Row
    BY <1>0, SettledRow DEF TypeOK
  <2> QED
    BY <1>0, <1>7, <2>1, <2>2, IdleTypes DEF FinishDelivery, TypeOK
<1>8. ASSUME RecordDeliveryFailure PROVE TypeOK'
  BY <1>8, FailureRows, IdleTypes DEF RecordDeliveryFailure, TypeOK
<1>9. ASSUME CrashDelivery PROVE TypeOK'
  BY <1>9, FaultType, IdleTypes DEF CrashDelivery, TypeOK
<1> QED
  BY <1>1, <1>2, <1>3, <1>4, <1>5, <1>6, <1>7, <1>8, <1>9 DEF DeliveryStep

LEMMA ApiTypes == TypeOK /\ ApiStep => TypeOK'
<1> SUFFICES ASSUME TypeOK, ApiStep PROVE TypeOK'
  OBVIOUS
<1>0. /\ api \in Publisher /\ api.key \in Keys /\ api.key[1] \in Tasks /\ api.row \in Row
      /\ task \in [Tasks -> Row]
  BY PublisherFields DEF TypeOK
<1>1. /\ {"running", "cancelled"} \subseteq Pending \cup Ends
      /\ {"cancellation_pending", "cancelled"} \subseteq Stages /\ "cancelled" \in Texts
  BY DEF Pending, Active, Ends, Stages, Texts
<1>2. \A row \in Row :
        [row EXCEPT !.status = "running", !.stage = "cancellation_pending"] \in Row
  BY <1>1 DEF Row
<1>3. ASSUME ClosePullRequest PROVE TypeOK'
  <2>1. task' \in [Tasks -> Row]
    <3> DEFINE New(t) == IF task[t].status \in Active
                         THEN [task[t] EXCEPT !.status = "running",
                                              !.stage = "cancellation_pending"]
                         ELSE task[t]
    <3>1. task' = [t \in Tasks |-> New(t)]
      BY <1>3 DEF ClosePullRequest
    <3>2. \A t \in Tasks : New(t) \in Row
      BY <1>0, <1>2
    <3> HIDE DEF New
    <3> QED
      BY <3>1, <3>2
  <2> QED
    BY <1>3, <2>1 DEF ClosePullRequest, TypeOK
<1>4. ASSUME CancelLookUp PROVE TypeOK'
  <2> DEFINE p == [api EXCEPT !.row = Kept(@)]
  <2>1. p \in Publisher
    BY <1>0, KeptRow DEF Publisher
  <2>2. api' = AfterLookup(p) /\ MayCancel(api.key[1], api.row.session)
    BY <1>4 DEF CancelLookUp
  <2> HIDE DEF p
  <2>3. api' \in Publisher
    BY <2>1, <2>2, LookedUp
  <2>4. runtime' \in [Tasks -> {"none", "running"} \cup Ends]
    BY <1>0, <2>2, MayCancelType
  <2> QED
    BY <1>4, <2>3, <2>4 DEF CancelLookUp, TypeOK
<1>5. ASSUME CancelWrite PROVE TypeOK'
  <2>1. PICK n \in Nat : n = WrittenId(api)
    BY <1>0, WrittenComments
  <2>2. api' = [api EXCEPT !.pc = "bind", !.comment = n]
    BY <1>5, <2>1 DEF CancelWrite
  <2>3. api' \in Publisher
    BY <1>0, <2>2 DEF Publisher
  <2>4. comments' \in [Tasks -> Seq(Texts)]
    BY <1>0, <1>5, WrittenComments DEF CancelWrite
  <2> QED
    BY <1>5, <2>3, <2>4 DEF CancelWrite, TypeOK
<1>6. ASSUME CancelEnds PROVE TypeOK'
  <2> DEFINE t == api.key[1]
             bound == IF api.pc = "bind" THEN Flush(task[t], api.row, Published(api))
                      ELSE task[t]
             new == [bound EXCEPT !.status = "cancelled", !.stage = "cancelled"]
  <2>1. task' = [task EXCEPT ![t] = new]
    BY <1>6 DEF CancelEnds
  <2>2. bound \in Row
    BY <1>0, BoundRow
  <2> HIDE DEF bound
  <2>3. new \in Row
    BY <1>1, <2>2 DEF Row
  <2> HIDE DEF new
  <2>4. task' \in [Tasks -> Row]
    BY <1>0, <2>1, <2>3
  <2> QED
    BY <1>6, <2>4, IdleTypes DEF CancelEnds, TypeOK
<1>7. ASSUME CancelFails PROVE TypeOK'
  <2>1. comments' = comments \/ comments' = Written(api)
    BY <1>7 DEF CancelFails
  <2>2. comments' \in [Tasks -> Seq(Texts)]
    BY <1>0, <2>1, WrittenComments DEF TypeOK
  <2> QED
    BY <1>7, <2>2, IdleTypes DEF CancelFails, TypeOK
<1>8. ASSUME NEW t \in Tasks, CancelRequest(t) PROVE TypeOK'
  <2> DEFINE new == [task[t] EXCEPT !.status = "running", !.stage = "cancellation_pending"]
  <2>1. task' = [task EXCEPT ![t] = new]
        /\ api' = [pc |-> "lookup", key |-> <<t, "cancelled", task[t].attempt>>,
                   row |-> task'[t], comment |-> 0]
        /\ UNCHANGED <<closed, clock, runtime, outbox, comments, ew, dw, faults>>
    BY <1>8 DEF CancelRequest
  <2>2. new \in Row /\ task[t].attempt \in 1..MaxRuns
    BY <1>0, <1>2, RowFields
  <2> HIDE DEF new
  <2>3. task' \in [Tasks -> Row] /\ task'[t] \in Row
    BY <1>0, <2>1, <2>2
  <2>4. <<t, "cancelled", task[t].attempt>> \in Keys
    BY <1>1, <2>2 DEF Keys
  <2>5. api' \in Publisher
    BY <2>1, <2>3, <2>4 DEF Publisher
  <2> QED
    BY <2>1, <2>3, <2>5 DEF TypeOK
<1>9. ASSUME NEW t \in Tasks, RetryRequest(t) PROVE TypeOK'
  <2>1. PICK n \in 1..MaxRuns, c \in Nat, w \in BOOLEAN :
          n = task[t].attempt + 1 /\ c = task[t].comment /\ w = task[t].workspace
    BY <1>0, <1>9, RowFields, AgentAssumption DEF RetryRequest
  <2> DEFINE new == [NewTask EXCEPT !.comment = c, !.workspace = w, !.attempt = n]
  <2>2. new \in Row
    BY NewTaskType DEF Row
  <2>3. task' = [task EXCEPT ![t] = new]
    BY <1>9, <2>1 DEF RetryRequest
  <2> HIDE DEF new
  <2>4. task' \in [Tasks -> Row]
    BY <1>0, <2>2, <2>3
  <2> QED
    BY <1>9, <2>4 DEF RetryRequest, TypeOK
<1>10. ASSUME NEW k \in Keys, RescheduleDelivery(k) PROVE TypeOK'
  <2>1. PICK n \in 0..MaxAttempts, b \in BOOLEAN :
          outbox' = [outbox EXCEPT ![k] = [status |-> "queued", tries |-> n, due |-> b]]
    BY <1>10 DEF RescheduleDelivery
  <2>2. [status |-> "queued", tries |-> n, due |-> b] \in Delivery
    BY DEF Delivery
  <2>3. outbox' \in [Keys -> Delivery]
    BY <2>1, <2>2 DEF TypeOK
  <2> QED
    BY <1>10, <2>3 DEF RescheduleDelivery, TypeOK
<1> QED
  BY <1>3, <1>4, <1>5, <1>6, <1>7, <1>8, <1>9, <1>10 DEF ApiStep

LEMMA EnvironmentTypes ==
    TypeOK /\ (\E t \in Tasks : SessionEnds(t) \/ TimePasses(t)) => TypeOK'
BY DEF SessionEnds, TimePasses, TypeOK, Ends

LEMMA StepTypes == TypeOK /\ [Next]_vars => TypeOK'
<1>1. TypeOK /\ UNCHANGED vars => TypeOK'
  BY DEF vars, TypeOK
<1> QED
  BY <1>1, CommandTypes, HandTypes, DeliveryTypes, ApiTypes, EnvironmentTypes DEF Next

\* Every row of a command, every copy of it that an actor has loaded, every
\* delivery and every comment keeps its shape, for any number of commands,
\* retries, attempts and faults.
THEOREM AgentTypeCorrect == Spec => []TypeOK
BY InitialTypes, StepTypes, PTL DEF Spec

-----------------------------------------------------------------------------
(* The outcome of an attempt is its last word *)

\* The execution worker has command t in hand.
On(t) == ew.pc # "idle" /\ ew.task = t

\* A delivery that must succeed is on its way.
Waiting(k) == Mandatory(k[2]) /\ outbox[k].status \in {"queued", "running"}

\* A command in hand can only be cancelled under the worker, never settled,
\* failed or retried: its attempt is the one that was loaded.
HandAttempt ==
    ew.pc # "idle" =>
        /\ task[ew.task].status \in {"queued", "running", "cancelled"}
        /\ ew.row.status \in {"queued", "running", "cancelled"}
        /\ ew.row.attempt = task[ew.task].attempt

\* No delivery carries the key of an attempt that has not begun.
NoFutureKeys ==
    \A k \in Keys : outbox[k].status # "absent" => k[3] <= task[k[1]].attempt

\* While a mandatory delivery is on its way nobody works on its command, and
\* it can be neither claimed nor retried.
WaitingIsSettledFirst ==
    \A k \in Keys :
        Waiting(k) => /\ task[k[1]].status \notin Active \cup {"failed"}
                      /\ ~On(k[1])

OneWaiting ==
    \A j, k \in Keys : Waiting(j) /\ Waiting(k) /\ j[1] = k[1] => j = k

\* Once the outcome of the current attempt has been enqueued, the command is
\* closed to the workers, and no placeholder on its way can open it again.
OutcomeIsLast ==
    \A k \in Keys :
        /\ k[2] \in Ends /\ k[3] = task[k[1]].attempt /\ outbox[k].status # "absent"
        => /\ task[k[1]].status \notin Active /\ ~On(k[1])
           /\ \A j \in Keys : j[1] = k[1] /\ j[2] = "working" => ~Waiting(j)

\* A delivery that the delivery worker has in hand is marked as running.
DeliveryHeld == dw.pc # "idle" => outbox[dw.key].status = "running"

Outcomes == /\ HandAttempt /\ NoFutureKeys /\ WaitingIsSettledFirst
            /\ OneWaiting /\ OutcomeIsLast /\ DeliveryHeld

LEMMA KeyFields ==
    \A k \in Keys : /\ k = <<k[1], k[2], k[3]>> /\ k[1] \in Tasks /\ k[2] \in Texts
                    /\ k[3] \in 1..MaxRuns
BY DEF Keys

LEMMA TextKinds ==
    /\ Mandatory("working") /\ \A end \in Ends : Mandatory(end) /\ end # "working"
    /\ ~Mandatory("queued") /\ ~Mandatory("soft_timeout")
    /\ "queued" \notin Ends /\ "soft_timeout" \notin Ends
    /\ \A text \in Texts : Mandatory(text) => text = "working" \/ text \in Ends
BY DEF Mandatory, Ends, Texts

\* A step that leaves the rows of the commands alone, or marks an open one as
\* running or any of them as cancelled, and that enqueues no mandatory text.
Mild ==
    /\ \A t \in Tasks :
         /\ task'[t].attempt = task[t].attempt
         /\ \/ task'[t].status = task[t].status
            \/ task[t].status \in Active /\ task'[t].status = "running"
            \/ task'[t].status = "cancelled"
    /\ \A k \in Keys :
         /\ Waiting(k)' => Waiting(k)
         /\ outbox'[k].status # "absent" =>
              \/ outbox[k].status # "absent"
              \/ k[2] \notin Ends /\ k[3] <= task[k[1]].attempt
    /\ ew' = ew \/ ew'.pc = "idle"

LEMMA MildOutcomes ==
    ASSUME TypeOK, Outcomes, Mild, DeliveryHeld' PROVE Outcomes'
<1>0. ew.task \in Tasks
  BY InHandTypes
<1>1. \A t \in Tasks : On(t)' => On(t)
  BY DEF Mild, On
<1>2. HandAttempt'
  BY <1>0 DEF Outcomes, HandAttempt, Mild, Active
<1>3. NoFutureKeys'
  <2> SUFFICES ASSUME NEW k \in Keys, outbox'[k].status # "absent"
               PROVE  k[3] <= task'[k[1]].attempt
    BY DEF NoFutureKeys
  <2> QED
    BY KeyFields DEF Outcomes, NoFutureKeys, Mild
<1>4. WaitingIsSettledFirst'
  <2> SUFFICES ASSUME NEW k \in Keys, Waiting(k)'
               PROVE  task'[k[1]].status \notin Active \cup {"failed"} /\ ~On(k[1])'
    BY DEF WaitingIsSettledFirst
  <2>1. k[1] \in Tasks /\ Waiting(k)
    BY KeyFields DEF Mild
  <2> QED
    BY <1>1, <2>1 DEF Outcomes, WaitingIsSettledFirst, Mild, Active
<1>5. OneWaiting'
  BY DEF Outcomes, OneWaiting, Mild
<1>6. OutcomeIsLast'
  <2> SUFFICES ASSUME NEW k \in Keys, k[2] \in Ends, k[3] = task'[k[1]].attempt,
                      outbox'[k].status # "absent"
               PROVE  /\ task'[k[1]].status \notin Active /\ ~On(k[1])'
                      /\ \A j \in Keys : j[1] = k[1] /\ j[2] = "working" => ~Waiting(j)'
    BY DEF OutcomeIsLast
  <2>1. k[1] \in Tasks /\ outbox[k].status # "absent" /\ k[3] = task[k[1]].attempt
    BY KeyFields DEF Mild
  <2>2. /\ task[k[1]].status \notin Active /\ ~On(k[1])
        /\ \A j \in Keys : j[1] = k[1] /\ j[2] = "working" => ~Waiting(j)
    BY <2>1 DEF Outcomes, OutcomeIsLast
  <2> QED
    BY <1>1, <2>1, <2>2 DEF Mild, Active
<1> QED
  BY <1>2, <1>3, <1>4, <1>5, <1>6 DEF Outcomes

\* What the steps of the execution worker enqueue, and for whom.
LEMMA HandQueue ==
    ASSUME TypeOK, NEW text \in Texts, NEW supersede \in BOOLEAN,
           Enqueue(<<ew.task, text, ew.row.attempt>>, supersede)
    PROVE  \A j \in Keys :
             /\ Waiting(j)' => Waiting(j) \/ (j = <<ew.task, text, ew.row.attempt>>
                                              /\ Mandatory(text))
             /\ outbox'[j].status # "absent" =>
                  outbox[j].status # "absent" \/ j = <<ew.task, text, ew.row.attempt>>
             /\ outbox[j].status = "running" => outbox'[j].status = "running"
<1>1. PICK k \in Keys : k = <<ew.task, text, ew.row.attempt>>
  BY InHandTypes
<1>2. Enqueue(k, supersede) /\ k[2] = text
  BY <1>1
<1>3. \A j \in Keys : \/ outbox'[j] = outbox[j]
                      \/ /\ j = k /\ outbox[k].status = "absent"
                         /\ outbox'[k].status = "queued"
                      \/ /\ outbox[j].status = "queued"
                         /\ outbox'[j].status = "superseded"
  BY <1>2, EnqueueRows
<1> QED
  BY <1>1, <1>2, <1>3 DEF Waiting

LEMMA CommandOutcomes ==
    ASSUME TypeOK, Outcomes, HandStep PROVE Outcomes'
<1>a. PICK t \in Tasks, a \in 1..MaxRuns : t = ew.task /\ a = ew.row.attempt
  BY InHandTypes
<1>0. /\ On(t)
      /\ task[t].status \in {"queued", "running", "cancelled"}
      /\ ew.row.status \in {"queued", "running", "cancelled"}
      /\ a = task[t].attempt /\ task'[t].attempt = a
      /\ \A o \in Tasks \ {t} : task'[o] = task[o]
  BY <1>a DEF HandStep, RowStep, Outcomes, HandAttempt, On
<1>1. \A k \in Keys : k[1] = t => /\ ~Waiting(k)
                                  /\ k[2] \in Ends /\ k[3] = a => outbox[k].status = "absent"
  BY <1>0 DEF Outcomes, WaitingIsSettledFirst, OutcomeIsLast
<1>2. \A o \in Tasks \ {t} : ~On(o)' /\ ~On(o)
  BY <1>a, IdleTypes DEF HandStep, Concludes, AsksPlaceholder, Pauses, GoesOn, On
\* At most one key is new, and it is the one of the attempt in hand.
<1>3. PICK text \in Texts :
        /\ \A k \in Keys :
             /\ Waiting(k)' => Waiting(k) \/ (k = <<t, text, a>> /\ Mandatory(text))
             /\ outbox'[k].status # "absent" =>
                  outbox[k].status # "absent" \/ k = <<t, text, a>>
             /\ outbox[k].status = "running" => outbox'[k].status = "running"
        /\ \/ ~Mandatory(text)
           \/ ~On(t)' /\ task'[t].status = "awaiting_delivery"
  <2>1. CASE Concludes
    <3>1. PICK end \in Ends : Enqueue(<<t, end, a>>, TRUE)
      BY <1>a, <2>1 DEF Concludes
    <3>2. end \in Texts
      BY DEF Texts
    <3>3. ~On(t)' /\ task'[t].status = "awaiting_delivery"
      BY <1>a, <1>0, <2>1, IdleTypes DEF Concludes, On
    <3> QED
      BY <1>a, <3>1, <3>2, <3>3, HandQueue
  <2>2. CASE AsksPlaceholder
    <3>1. Enqueue(<<t, "working", a>>, FALSE) /\ "working" \in Texts
      BY <1>a, <2>2 DEF AsksPlaceholder, Texts
    <3>2. ~On(t)' /\ task'[t].status = "awaiting_delivery"
      BY <1>a, <1>0, <2>2, IdleTypes DEF AsksPlaceholder, On
    <3> QED
      BY <1>a, <3>1, <3>2, HandQueue
  <2>3. CASE Pauses \/ GoesOn
    <3>1. "queued" \in Texts /\ ~Mandatory("queued")
      BY TextKinds DEF Texts
    <3>2. outbox' = outbox \/ Enqueue(<<t, "queued", a>>, FALSE)
      BY <1>a, <2>3 DEF Pauses, GoesOn
    <3>3. CASE outbox' = outbox
      BY <3>1, <3>3 DEF Waiting
    <3>4. CASE Enqueue(<<t, "queued", a>>, FALSE)
      BY <1>a, <3>1, <3>4, HandQueue
    <3> QED
      BY <3>2, <3>3, <3>4
  <2> QED
    BY <2>1, <2>2, <2>3 DEF HandStep
<1>4. HandAttempt'
  <2>1. CASE ew'.pc = "idle"
    BY <2>1 DEF HandAttempt
  <2>2. CASE ew'.pc # "idle"
    <3>1. GoesOn
      BY <2>2, IdleTypes DEF HandStep, Concludes, AsksPlaceholder, Pauses
    <3> QED
      BY <1>a, <1>0, <3>1 DEF GoesOn, HandAttempt
  <2> QED
    BY <2>1, <2>2
<1>5. NoFutureKeys'
  <2> SUFFICES ASSUME NEW k \in Keys, outbox'[k].status # "absent"
               PROVE  k[3] <= task'[k[1]].attempt
    BY DEF NoFutureKeys
  <2>1. k[1] \in Tasks /\ k[3] \in Nat
    BY KeyFields
  <2>2. CASE outbox[k].status # "absent"
    BY <1>0, <2>1, <2>2 DEF Outcomes, NoFutureKeys
  <2>3. CASE k = <<t, text, a>>
    BY <1>0, <2>1, <2>3
  <2> QED
    BY <1>3, <2>2, <2>3
\* Of the command in hand only the new key can be on its way.
<1>6. \A k \in Keys : Waiting(k)' => \/ Waiting(k) /\ k[1] \in Tasks \ {t}
                                     \/ /\ k = <<t, text, a>> /\ k[1] = t /\ Mandatory(text)
                                        /\ ~On(t)' /\ task'[t].status = "awaiting_delivery"
  BY <1>1, <1>3, KeyFields
<1>7. WaitingIsSettledFirst'
  <2> SUFFICES ASSUME NEW k \in Keys, Waiting(k)'
               PROVE  task'[k[1]].status \notin Active \cup {"failed"} /\ ~On(k[1])'
    BY DEF WaitingIsSettledFirst
  <2>1. CASE Waiting(k) /\ k[1] \in Tasks \ {t}
    BY <1>0, <1>2, <2>1 DEF Outcomes, WaitingIsSettledFirst
  <2>2. CASE k[1] = t /\ ~On(t)' /\ task'[t].status = "awaiting_delivery"
    <3>1. "awaiting_delivery" \notin Active \cup {"failed"}
      BY DEF Active
    <3> QED
      BY <2>2, <3>1
  <2> QED
    BY <1>6, <2>1, <2>2
<1>8. OneWaiting'
  <2> SUFFICES ASSUME NEW j \in Keys, NEW k \in Keys, Waiting(j)', Waiting(k)', j[1] = k[1]
               PROVE  j = k
    BY DEF OneWaiting
  <2> QED
    BY <1>6 DEF Outcomes, OneWaiting
<1>9. OutcomeIsLast'
  <2> SUFFICES ASSUME NEW k \in Keys, k[2] \in Ends, k[3] = task'[k[1]].attempt,
                      outbox'[k].status # "absent"
               PROVE  /\ task'[k[1]].status \notin Active /\ ~On(k[1])'
                      /\ \A j \in Keys : j[1] = k[1] /\ j[2] = "working" => ~Waiting(j)'
    BY DEF OutcomeIsLast
  <2>0. k[1] \in Tasks
    BY KeyFields
  <2>1. CASE k[1] # t
    <3>1. outbox[k].status # "absent" /\ task'[k[1]] = task[k[1]] /\ ~On(k[1])'
      BY <1>0, <1>2, <1>3, <2>0, <2>1
    <3>2. /\ task[k[1]].status \notin Active
          /\ \A j \in Keys : j[1] = k[1] /\ j[2] = "working" => ~Waiting(j)
      BY <3>1 DEF Outcomes, OutcomeIsLast
    <3> QED
      BY <1>6, <2>1, <3>1, <3>2
  <2>2. CASE k[1] = t
    <3>1. k = <<t, text, a>> /\ text \in Ends /\ Mandatory(text) /\ text # "working"
      BY <1>0, <1>1, <1>3, <2>2, TextKinds
    <3>2. ~On(t)' /\ task'[t].status = "awaiting_delivery"
      BY <1>3, <3>1
    <3>3. \A j \in Keys : j[1] = t /\ j[2] = "working" => ~Waiting(j)'
      BY <1>6, <3>1
    <3> QED
      BY <2>2, <3>2, <3>3 DEF Active
  <2> QED
    BY <2>1, <2>2
<1>10. DeliveryHeld'
  BY <1>3, PublisherFields DEF HandStep, Outcomes, DeliveryHeld, TypeOK
<1> QED
  BY <1>4, <1>5, <1>7, <1>8, <1>9, <1>10 DEF Outcomes

\* A command that is taken in hand is open: nothing is on its way for it.
LEMMA TakenOutcomes ==
    ASSUME TypeOK, Outcomes, NEW t \in Tasks, task[t].status \in Active,
           ew'.pc # "idle", ew'.task = t, ew'.row = task'[t],
           task'[t].status \in Active, task'[t].attempt = task[t].attempt,
           \A o \in Tasks \ {t} : task'[o] = task[o],
           outbox' = outbox, dw' = dw
    PROVE  Outcomes'
<1>1. \A k \in Keys : Waiting(k)' <=> Waiting(k)
  BY DEF Waiting
<1>2. \A k \in Keys : k[1] = t => /\ ~Waiting(k)
                                  /\ k[2] \in Ends /\ k[3] = task[t].attempt =>
                                       outbox[k].status = "absent"
  BY DEF Outcomes, WaitingIsSettledFirst, OutcomeIsLast
<1>3. \A o \in Tasks : On(o)' => o = t
  BY DEF On
<1>4. HandAttempt'
  BY DEF HandAttempt, Active
<1>5. NoFutureKeys'
  BY KeyFields DEF Outcomes, NoFutureKeys
<1>6. WaitingIsSettledFirst'
  BY <1>1, <1>2, <1>3, KeyFields DEF Outcomes, WaitingIsSettledFirst
<1>7. OneWaiting'
  BY <1>1 DEF Outcomes, OneWaiting
<1>8. OutcomeIsLast'
  <2> SUFFICES ASSUME NEW k \in Keys, k[2] \in Ends, k[3] = task'[k[1]].attempt,
                      outbox'[k].status # "absent"
               PROVE  /\ task'[k[1]].status \notin Active /\ ~On(k[1])'
                      /\ \A j \in Keys : j[1] = k[1] /\ j[2] = "working" => ~Waiting(j)'
    BY DEF OutcomeIsLast
  <2>1. k[1] \in Tasks \ {t}
    BY <1>2, KeyFields
  <2>2. /\ task[k[1]].status \notin Active
        /\ \A j \in Keys : j[1] = k[1] /\ j[2] = "working" => ~Waiting(j)
    BY <2>1 DEF Outcomes, OutcomeIsLast
  <2> QED
    BY <1>1, <1>3, <2>1, <2>2
<1>9. DeliveryHeld'
  BY DEF Outcomes, DeliveryHeld
<1> QED
  BY <1>4, <1>5, <1>6, <1>7, <1>8, <1>9 DEF Outcomes

\* Claims, sweeps and deaths of the execution worker.
LEMMA HandOutcomes ==
    ASSUME TypeOK, Outcomes,
           \/ \E t \in Tasks : ClaimTask(t) \/ SoftTimeout(t) \/ BeginTimeout(t)
           \/ CrashExecution
    PROVE  Outcomes'
<1>0. task \in [Tasks -> Row]
  BY DEF TypeOK
<1>1. ASSUME NEW t \in Tasks, ClaimTask(t) PROVE Outcomes'
  <2>1. /\ ew' = [pc |-> "loaded", task |-> t, row |-> task'[t]]
        /\ task[t].status \in Active /\ outbox' = outbox /\ dw' = dw
    BY <1>1, ClaimEffect
  <2>2. /\ task'[t].status = "running" /\ task'[t].attempt = task[t].attempt
        /\ \A o \in Tasks \ {t} : task'[o] = task[o]
    BY <1>1, ClaimEffect
  <2>3. ew'.pc # "idle" /\ ew'.task = t /\ ew'.row = task'[t]
    BY <2>1
  <2>4. task'[t].status \in Active
    BY <2>2 DEF Active
  <2> QED
    BY <2>1, <2>2, <2>3, <2>4, TakenOutcomes
<1>2. ASSUME NEW t \in Tasks, BeginTimeout(t) PROVE Outcomes'
  <2>1. /\ ew' = [pc |-> "timeout", task |-> t, row |-> task[t]]
        /\ task[t].status \in Active /\ task' = task /\ outbox' = outbox /\ dw' = dw
    BY <1>2 DEF BeginTimeout, Watched
  <2>2. ew'.pc # "idle" /\ ew'.task = t /\ ew'.row = task'[t]
    BY <2>1
  <2> QED
    BY <2>1, <2>2, TakenOutcomes
<1>3. ASSUME NEW t \in Tasks, SoftTimeout(t) PROVE Outcomes'
  <2>1. /\ task' = [task EXCEPT ![t] = [task[t] EXCEPT !.soft = TRUE]]
        /\ Enqueue(<<t, "soft_timeout", task[t].attempt>>, FALSE)
        /\ ew' = ew /\ dw' = dw
    BY <1>0, <1>3 DEF SoftTimeout
  <2>2. \A o \in Tasks : task'[o].status = task[o].status /\ task'[o].attempt = task[o].attempt
    BY <1>0, <2>1, FlaggedFields
  <2>3. PICK k \in Keys : k = <<t, "soft_timeout", task[t].attempt>>
    BY <1>0, RowFields DEF Keys, Texts
  <2>4. \A j \in Keys : \/ outbox'[j] = outbox[j]
                        \/ /\ j = k /\ outbox[k].status = "absent"
                           /\ outbox'[k].status = "queued"
                        \/ /\ outbox[j].status = "queued"
                           /\ outbox'[j].status = "superseded"
    BY <2>1, <2>3, EnqueueRows
  <2>5. k[1] = t /\ k[2] = "soft_timeout" /\ k[3] = task[t].attempt /\ k[3] \in 1..MaxRuns
    BY <2>3, KeyFields
  <2>6. Mild
    BY <2>1, <2>2, <2>4, <2>5, TextKinds DEF Mild, Waiting
  <2>7. DeliveryHeld'
    BY <2>1, <2>4, PublisherFields DEF Outcomes, DeliveryHeld, TypeOK
  <2> QED
    BY <2>6, <2>7, MildOutcomes
<1>4. ASSUME CrashExecution PROVE Outcomes'
  <2>1. Mild
    BY <1>4, IdleTypes DEF CrashExecution, Mild, Waiting
  <2>2. DeliveryHeld'
    BY <1>4 DEF CrashExecution, Outcomes, DeliveryHeld
  <2> QED
    BY <2>1, <2>2, MildOutcomes
<1> QED
  BY <1>1, <1>2, <1>3, <1>4

\* A delivery that is settled or given up was the only mandatory one.
LEMMA DeliveryOutcomes ==
    ASSUME TypeOK, Outcomes,
           \/ \E k \in Keys : ClaimDelivery(k) \/ BackoffElapses(k)
           \/ DeliveryStep \/ CrashDelivery
    PROVE  Outcomes'
<1>0. /\ task \in [Tasks -> Row] /\ outbox \in [Keys -> Delivery] /\ dw \in Publisher
      /\ dw.key \in Keys /\ dw.key[1] \in Tasks /\ dw.key[2] \in Texts
  BY PublisherFields DEF TypeOK
<1>1. ASSUME NEW k \in Keys, ClaimDelivery(k) PROVE Outcomes'
  <2>1. /\ outbox'[k].status = "running"
        /\ \A j \in Keys : \/ outbox'[j].status = outbox[j].status
                           \/ /\ outbox[j].status \in {"queued", "running"}
                              /\ outbox'[j].status \in {"queued", "running"}
    BY <1>1, ClaimedRows
  <2>2. task' = task /\ ew' = ew /\ dw'.key = k
    BY <1>1 DEF ClaimDelivery
  <2>3. Mild
    BY <2>1, <2>2 DEF Mild, Waiting
  <2> QED
    BY <2>1, <2>2, <2>3, MildOutcomes DEF DeliveryHeld
<1>2. ASSUME NEW k \in Keys, BackoffElapses(k) PROVE Outcomes'
  <2>1. /\ outbox' = [outbox EXCEPT ![k] = [outbox[k] EXCEPT !.due = TRUE]]
        /\ task' = task /\ ew' = ew /\ dw' = dw
    BY <1>0, <1>2 DEF BackoffElapses
  <2>2. \A j \in Keys : outbox'[j].status = outbox[j].status
    BY <1>0, <2>1 DEF Delivery
  <2>3. Mild
    BY <2>1, <2>2 DEF Mild, Waiting
  <2> QED
    BY <1>0, <2>1, <2>2, <2>3, MildOutcomes DEF Outcomes, DeliveryHeld
<1>3. ASSUME LookUpComment \/ WriteComment \/ ProviderFails \/ CrashDelivery PROVE Outcomes'
  <2>1. task' = task /\ outbox' = outbox /\ ew' = ew
    BY <1>3 DEF LookUpComment, WriteComment, ProviderFails, CrashDelivery
  <2>2. dw.pc # "idle" /\ (dw'.pc = "idle" \/ dw'.key = dw.key)
    BY <1>0, <1>3, IdleTypes, LookedUp
       DEF LookUpComment, WriteComment, ProviderFails, CrashDelivery, Publisher
  <2>3. Mild
    BY <2>1 DEF Mild, Waiting
  <2> QED
    BY <2>1, <2>2, <2>3, MildOutcomes DEF Outcomes, DeliveryHeld
<1>4. ASSUME BindComment PROVE Outcomes'
  <2> DEFINE f == Flush(task[dw.key[1]], dw.row, Published(dw))
  <2>1. task' = [task EXCEPT ![dw.key[1]] = f]
        /\ outbox' = outbox /\ ew' = ew /\ dw' = Finishing(dw) /\ dw.pc = "bind"
    BY <1>4 DEF BindComment, Commit
  <2>2. f.status = task[dw.key[1]].status /\ f.attempt = task[dw.key[1]].attempt
    BY <1>0, BoundRow
  <2> HIDE DEF f
  <2>3. Mild
    BY <1>0, <2>1, <2>2 DEF Mild, Waiting
  <2> QED
    BY <1>0, <2>1, <2>3, FinishingType, MildOutcomes DEF Outcomes, DeliveryHeld
<1> DEFINE t == dw.key[1]
\* The delivery in hand is the only one that its command can be waiting for.
<1>5. ASSUME dw.pc # "idle", Mandatory(dw.key[2])
      PROVE  /\ Waiting(dw.key) /\ ~On(t) /\ task[t].status \notin Active
             /\ \A j \in Keys \ {dw.key} : j[1] = t => ~Waiting(j)
  BY <1>0, <1>5 DEF Outcomes, DeliveryHeld, Waiting, WaitingIsSettledFirst, OneWaiting
<1>6. ASSUME FinishDelivery PROVE Outcomes'
  <2> DEFINE s == Settled(dw.key, task[t])
  <2>1. /\ outbox' = [outbox EXCEPT ![dw.key] = Closed("delivered")]
        /\ task' = [task EXCEPT ![t] = s] /\ dw.pc = "finish"
        /\ ew' = ew /\ dw' = IdlePublisher
    BY <1>0, <1>6 DEF FinishDelivery
  <2>2. /\ s.attempt = task[t].attempt
        /\ \/ dw.key[2] = "working" /\ s.status = "queued"
           \/ dw.key[2] \in Ends /\ s.status = dw.key[2]
           \/ s = task[t]
    BY <1>0, SettledRow
  <2> HIDE DEF s
  <2>3. /\ outbox'[dw.key].status = "delivered"
        /\ \A j \in Keys \ {dw.key} : outbox'[j] = outbox[j]
        /\ task'[t] = s /\ \A o \in Tasks \ {t} : task'[o] = task[o]
    BY <1>0, <2>1, ClosedType
  <2>4. DeliveryHeld' /\ outbox[dw.key].status = "running"
    BY <2>1, IdleTypes DEF Outcomes, DeliveryHeld
  <2>5. CASE s = task[t]
    <3>1. Mild
      BY <2>1, <2>3, <2>4, <2>5 DEF Mild, Waiting
    <3> QED
      BY <2>4, <3>1, MildOutcomes
  <2>6. CASE s # task[t]
    <3>0. Mandatory(dw.key[2])
      BY <2>2, <2>6, TextKinds
    <3>1. /\ Waiting(dw.key) /\ ~On(t) /\ task[t].status \notin Active
          /\ \A j \in Keys \ {dw.key} : j[1] = t => ~Waiting(j)
      BY <1>5, <2>1, <3>0
    <3>2. \A j \in Keys : Waiting(j)' => Waiting(j) /\ j[1] # t
      BY <2>3, <3>1 DEF Waiting
    <3>3. \A o \in Tasks : On(o)' <=> On(o)
      BY <2>1 DEF On
    <3>4. \A j \in Keys : outbox'[j].status # "absent" => outbox[j].status # "absent"
      BY <2>3, <2>4
    <3>5. \A o \in Tasks : task'[o].attempt = task[o].attempt
      BY <2>2, <2>3
    <3>6. HandAttempt'
      BY <2>1, <2>3, <3>1, InHandTypes DEF Outcomes, HandAttempt, On
    <3>7. NoFutureKeys'
      BY <3>4, <3>5, KeyFields DEF Outcomes, NoFutureKeys
    <3>8. WaitingIsSettledFirst'
      BY <2>3, <3>2, <3>3, KeyFields DEF Outcomes, WaitingIsSettledFirst
    <3>9. OneWaiting'
      BY <3>2 DEF Outcomes, OneWaiting
    <3>10. OutcomeIsLast'
      <4> SUFFICES ASSUME NEW k \in Keys, k[2] \in Ends, k[3] = task'[k[1]].attempt,
                          outbox'[k].status # "absent"
                   PROVE  /\ task'[k[1]].status \notin Active /\ ~On(k[1])'
                          /\ \A j \in Keys : j[1] = k[1] /\ j[2] = "working" => ~Waiting(j)'
        BY DEF OutcomeIsLast
      <4>1. /\ k[1] \in Tasks /\ task[k[1]].status \notin Active /\ ~On(k[1])
            /\ \A j \in Keys : j[1] = k[1] /\ j[2] = "working" => ~Waiting(j)
        BY <3>4, <3>5, KeyFields DEF Outcomes, OutcomeIsLast
      <4>2. ~On(k[1])' /\ \A j \in Keys : j[1] = k[1] /\ j[2] = "working" => ~Waiting(j)'
        BY <3>2, <3>3, <4>1
      <4>3. CASE k[1] # t
        BY <2>3, <4>1, <4>2, <4>3
      <4>4. CASE k[1] = t
        <5>1. dw.key[2] # "working"
          BY <1>0, <3>1, <4>1, <4>4
        <5>2. s.status \in Ends
          BY <2>2, <2>6, <5>1
        <5> QED
          BY <2>3, <4>2, <4>4, <5>2 DEF Ends, Active
      <4> QED
        BY <4>3, <4>4
    <3> QED
      BY <2>4, <3>6, <3>7, <3>8, <3>9, <3>10 DEF Outcomes
  <2> QED
    BY <2>5, <2>6
<1>7. ASSUME RecordDeliveryFailure PROVE Outcomes'
  <2>1. /\ ew' = ew /\ dw' = IdlePublisher /\ dw.pc # "idle"
    BY <1>7 DEF RecordDeliveryFailure
  <2>2. /\ \A j \in Keys \ {dw.key} : outbox'[j] = outbox[j]
        /\ \A o \in Tasks \ {t} : task'[o] = task[o]
        /\ task'[t].attempt = task[t].attempt
        /\ \/ /\ outbox'[dw.key].status = "failed" /\ Mandatory(dw.key[2])
              /\ task'[t].status \in {"failed", task[t].status}
           \/ /\ outbox'[dw.key].status \in {"failed", "queued"}
              /\ task'[t].status = task[t].status
    BY <1>7, FailureRows
  <2>3. DeliveryHeld' /\ outbox[dw.key].status = "running"
    BY <2>1, IdleTypes DEF Outcomes, DeliveryHeld
  <2>4. /\ \A j \in Keys : /\ Waiting(j)' => Waiting(j)
                           /\ outbox'[j].status # "absent" => outbox[j].status # "absent"
        /\ \A o \in Tasks : task'[o].attempt = task[o].attempt
    BY <1>0, <2>2, <2>3 DEF Waiting
  <2>5. CASE task'[t].status = task[t].status
    <3>1. Mild
      BY <2>1, <2>2, <2>4, <2>5 DEF Mild
    <3> QED
      BY <2>3, <3>1, MildOutcomes
  <2>6. CASE task'[t].status # task[t].status
    <3>1. /\ outbox'[dw.key].status = "failed" /\ Mandatory(dw.key[2])
          /\ task'[t].status = "failed"
      BY <2>2, <2>6
    <3>2. /\ ~On(t) /\ task[t].status \notin Active
          /\ \A j \in Keys \ {dw.key} : j[1] = t => ~Waiting(j)
      BY <1>5, <2>1, <3>1
    <3>3. \A j \in Keys : Waiting(j)' => Waiting(j) /\ j[1] # t
      BY <2>4, <3>1, <3>2 DEF Waiting
    <3>4. \A o \in Tasks : On(o)' <=> On(o)
      BY <2>1 DEF On
    <3>5. HandAttempt'
      BY <2>1, <2>2, <3>2, InHandTypes DEF Outcomes, HandAttempt, On
    <3>6. NoFutureKeys'
      BY <2>4, KeyFields DEF Outcomes, NoFutureKeys
    <3>7. WaitingIsSettledFirst'
      BY <2>2, <3>3, <3>4, KeyFields DEF Outcomes, WaitingIsSettledFirst
    <3>8. OneWaiting'
      BY <3>3 DEF Outcomes, OneWaiting
    <3>9. OutcomeIsLast'
      <4> SUFFICES ASSUME NEW k \in Keys, k[2] \in Ends, k[3] = task'[k[1]].attempt,
                          outbox'[k].status # "absent"
                   PROVE  /\ task'[k[1]].status \notin Active /\ ~On(k[1])'
                          /\ \A j \in Keys : j[1] = k[1] /\ j[2] = "working" => ~Waiting(j)'
        BY DEF OutcomeIsLast
      <4>1. /\ k[1] \in Tasks /\ task[k[1]].status \notin Active /\ ~On(k[1])
            /\ \A j \in Keys : j[1] = k[1] /\ j[2] = "working" => ~Waiting(j)
        BY <2>4, KeyFields DEF Outcomes, OutcomeIsLast
      <4> QED
        BY <2>2, <3>1, <3>3, <3>4, <4>1 DEF Active
    <3> QED
      BY <2>3, <3>5, <3>6, <3>7, <3>8, <3>9 DEF Outcomes
  <2> QED
    BY <2>5, <2>6
<1> QED
  BY <1>1, <1>2, <1>3, <1>4, <1>6, <1>7 DEF DeliveryStep

\* A manual retry finds nothing on its way and opens an attempt without keys.
LEMMA ApiOutcomes ==
    ASSUME "reschedule" \notin Requests, TypeOK, Outcomes, ApiStep PROVE Outcomes'
<1>0. /\ task \in [Tasks -> Row] /\ api \in Publisher /\ api.key[1] \in Tasks
      /\ ew' = ew /\ dw' = dw /\ outbox' = outbox
  BY PublisherFields DEF TypeOK, ApiStep, ClosePullRequest, CancelLookUp, CancelWrite,
     CancelEnds, CancelFails, CancelRequest, RetryRequest, RescheduleDelivery
<1>1. DeliveryHeld' /\ \A k \in Keys : Waiting(k)' <=> Waiting(k)
  BY <1>0 DEF Outcomes, DeliveryHeld, Waiting
<1>2. ASSUME \A t \in Tasks :
               /\ task'[t].attempt = task[t].attempt
               /\ \/ task'[t].status = task[t].status
                  \/ task[t].status \in Active /\ task'[t].status = "running"
                  \/ task'[t].status = "cancelled"
      PROVE  Outcomes'
  <2>1. Mild
    BY <1>0, <1>1, <1>2 DEF Mild
  <2> QED
    BY <1>1, <2>1, MildOutcomes
<1>3. ASSUME ClosePullRequest PROVE Outcomes'
  <2>1. \A t \in Tasks :
          task'[t] = IF task[t].status \in Active
                     THEN [task[t] EXCEPT !.status = "running",
                                          !.stage = "cancellation_pending"]
                     ELSE task[t]
    BY <1>3 DEF ClosePullRequest
  <2>2. \A row \in Row :
          LET new == [row EXCEPT !.status = "running", !.stage = "cancellation_pending"]
          IN  new.status = "running" /\ new.attempt = row.attempt
    BY DEF Row
  <2>3. \A t \in Tasks :
          /\ task'[t].attempt = task[t].attempt
          /\ \/ task'[t].status = task[t].status
             \/ task[t].status \in Active /\ task'[t].status = "running"
    <3> SUFFICES ASSUME NEW t \in Tasks
                 PROVE  /\ task'[t].attempt = task[t].attempt
                        /\ \/ task'[t].status = task[t].status
                           \/ task[t].status \in Active /\ task'[t].status = "running"
      OBVIOUS
    <3>1. task[t] \in Row
      BY <1>0
    <3>2. CASE task[t].status \in Active
      BY <2>1, <2>2, <3>1, <3>2
    <3>3. CASE task[t].status \notin Active
      BY <2>1, <3>3
    <3> QED
      BY <3>2, <3>3
  <2> QED
    BY <1>2, <2>3
<1>4. ASSUME NEW t \in Tasks, CancelRequest(t) PROVE Outcomes'
  <2>1. /\ task[t].status \in Active
        /\ task' = [task EXCEPT ![t] = [task[t] EXCEPT !.status = "running",
                                                       !.stage = "cancellation_pending"]]
    BY <1>0, <1>4 DEF CancelRequest
  <2>2. task'[t].status = "running" /\ task'[t].attempt = task[t].attempt
        /\ \A o \in Tasks \ {t} : task'[o] = task[o]
    BY <1>0, <2>1 DEF Row
  <2> QED
    BY <1>2, <2>1, <2>2
<1>5. ASSUME CancelLookUp \/ CancelWrite \/ CancelFails PROVE Outcomes'
  <2>1. task' = task
    BY <1>5 DEF CancelLookUp, CancelWrite, CancelFails
  <2> QED
    BY <1>2, <2>1
<1>6. ASSUME CancelEnds PROVE Outcomes'
  <2> DEFINE t == api.key[1]
             bound == IF api.pc = "bind" THEN Flush(task[t], api.row, Published(api))
                      ELSE task[t]
             new == [bound EXCEPT !.status = "cancelled", !.stage = "cancelled"]
  <2>1. task' = [task EXCEPT ![t] = new]
    BY <1>6 DEF CancelEnds
  <2>2. bound \in Row /\ bound.attempt = task[t].attempt
    BY <1>0, BoundRow
  <2> HIDE DEF bound
  <2>3. new.status = "cancelled" /\ new.attempt = task[t].attempt
    BY <2>2 DEF Row
  <2> HIDE DEF new
  <2>4. task'[t] = new /\ \A o \in Tasks \ {t} : task'[o] = task[o]
    BY <1>0, <2>1
  <2> QED
    BY <1>2, <2>3, <2>4
<1>7. ASSUME NEW t \in Tasks, RetryRequest(t) PROVE Outcomes'
  <2>1. /\ task[t].status = "failed" /\ task'[t].attempt = task[t].attempt + 1
        /\ \A o \in Tasks \ {t} : task'[o] = task[o]
    BY <1>0, <1>7, NewTaskType DEF RetryRequest, Row
  <2>2. /\ ~On(t) /\ \A k \in Keys : k[1] = t => ~Waiting(k)
        /\ task[t].attempt \in Nat
    BY <1>0, <2>1, RowFields
       DEF Outcomes, HandAttempt, WaitingIsSettledFirst, On
  <2>3. \A o \in Tasks : On(o)' <=> On(o)
    BY <1>0 DEF On
  <2>4. HandAttempt'
    BY <1>0, <2>1, <2>2, InHandTypes DEF Outcomes, HandAttempt, On
  <2>5. NoFutureKeys'
    <3> SUFFICES ASSUME NEW k \in Keys, outbox'[k].status # "absent"
                 PROVE  k[3] <= task'[k[1]].attempt
      BY DEF NoFutureKeys
    <3>1. k[1] \in Tasks /\ k[3] \in Nat /\ k[3] <= task[k[1]].attempt
      BY <1>0, KeyFields DEF Outcomes, NoFutureKeys
    <3> QED
      BY <2>1, <2>2, <3>1
  <2>6. WaitingIsSettledFirst'
    BY <1>1, <2>1, <2>2, <2>3, KeyFields DEF Outcomes, WaitingIsSettledFirst
  <2>7. OneWaiting'
    BY <1>1 DEF Outcomes, OneWaiting
  <2>8. OutcomeIsLast'
    <3> SUFFICES ASSUME NEW k \in Keys, k[2] \in Ends, k[3] = task'[k[1]].attempt,
                        outbox'[k].status # "absent"
                 PROVE  /\ task'[k[1]].status \notin Active /\ ~On(k[1])'
                        /\ \A j \in Keys : j[1] = k[1] /\ j[2] = "working" => ~Waiting(j)'
      BY DEF OutcomeIsLast
    <3>1. k[1] \in Tasks /\ k[3] \in Nat /\ k[3] <= task[k[1]].attempt
      BY <1>0, KeyFields DEF Outcomes, NoFutureKeys
    <3>2. k[1] # t
      BY <2>1, <2>2, <3>1
    <3>3. /\ task[k[1]].status \notin Active /\ ~On(k[1])
          /\ \A j \in Keys : j[1] = k[1] /\ j[2] = "working" => ~Waiting(j)
      BY <1>0, <2>1, <3>1, <3>2 DEF Outcomes, OutcomeIsLast
    <3> QED
      BY <1>1, <2>1, <2>3, <3>1, <3>2, <3>3
  <2> QED
    BY <1>1, <2>4, <2>5, <2>6, <2>7, <2>8 DEF Outcomes
<1>8. ASSUME NEW k \in Keys, RescheduleDelivery(k) PROVE Outcomes'
  BY <1>8 DEF RescheduleDelivery
<1> QED
  BY <1>3, <1>4, <1>5, <1>6, <1>7, <1>8 DEF ApiStep

LEMMA OutcomesInductive ==
    ASSUME "reschedule" \notin Requests
    PROVE  /\ Init => Outcomes
           /\ TypeOK /\ Outcomes /\ [Next]_vars => Outcomes'
<1>1. ASSUME Init PROVE Outcomes
  <2>1. ew.pc = "idle" /\ dw.pc = "idle"
    BY <1>1, IdleTypes DEF Init
  <2>2. \A k \in Keys : outbox[k].status = "absent" /\ ~Waiting(k)
    BY <1>1 DEF Init, Waiting
  <2> QED
    BY <2>1, <2>2 DEF Outcomes, HandAttempt, NoFutureKeys, WaitingIsSettledFirst,
       OneWaiting, OutcomeIsLast, DeliveryHeld
<1>2. ASSUME TypeOK, Outcomes, [Next]_vars PROVE Outcomes'
  <2>1. CASE \/ UNCHANGED vars
             \/ \E t \in Tasks : SessionEnds(t) \/ TimePasses(t)
    <3>1. task' = task /\ outbox' = outbox /\ ew' = ew /\ dw' = dw
      BY <2>1 DEF vars, SessionEnds, TimePasses
    <3>2. Mild
      BY <3>1 DEF Mild, Waiting
    <3>3. DeliveryHeld'
      BY <1>2, <3>1 DEF Outcomes, DeliveryHeld
    <3> QED
      BY <1>2, <3>2, <3>3, MildOutcomes
  <2>2. CASE CommandStep
    BY <1>2, <2>2, CommandEffect, CommandOutcomes
  <2>3. CASE \/ \E t \in Tasks : ClaimTask(t) \/ SoftTimeout(t) \/ BeginTimeout(t)
             \/ CrashExecution
    BY <1>2, <2>3, HandOutcomes
  <2>4. CASE \/ \E k \in Keys : ClaimDelivery(k) \/ BackoffElapses(k)
             \/ DeliveryStep \/ CrashDelivery
    BY <1>2, <2>4, DeliveryOutcomes
  <2>5. CASE ApiStep
    BY <1>2, <2>5, ApiOutcomes
  <2> QED
    BY <1>2, <2>1, <2>2, <2>3, <2>4, <2>5 DEF Next
<1> QED
  BY <1>1, <1>2

\* Who opens a session: only the worker that has come to "start".
LEMMA SessionOpens ==
    ASSUME TypeOK, [Next]_vars, NEW t \in Tasks, runtime'[t] # runtime[t]
    PROVE  \/ ew.pc = "start" /\ ew.task = t
           \/ runtime'[t] # "running" /\ (runtime'[t] # "none" => runtime[t] # "none")
<1>0. /\ runtime \in [Tasks -> {"none", "running"} \cup Ends] /\ ew.task \in Tasks
      /\ api.key[1] \in Tasks
  BY InHandTypes, PublisherFields DEF TypeOK
<1>1. CASE CommandStep
  BY <1>1, CommandEffect DEF HandStep, SessionStep
<1>2. CASE CrashExecution
  BY <1>0, <1>2, StartedType DEF CrashExecution
<1>3. CASE CancelLookUp
  BY <1>0, <1>3, MayCancelType DEF CancelLookUp
<1>4. CASE \E o \in Tasks : RetryRequest(o) \/ SessionEnds(o)
  BY <1>0, <1>4 DEF RetryRequest, SessionEnds
<1>5. \/ CommandStep \/ CrashExecution \/ CancelLookUp
      \/ \E o \in Tasks : RetryRequest(o) \/ SessionEnds(o)
      \/ UNCHANGED runtime
  BY DEF Next, vars, ClaimTask, SoftTimeout, BeginTimeout, ClaimDelivery, BackoffElapses,
     DeliveryStep, LookUpComment, WriteComment, BindComment, ProviderFails, FinishDelivery,
     RecordDeliveryFailure, CrashDelivery, ApiStep, ClosePullRequest, CancelWrite,
     CancelEnds, CancelFails, CancelRequest, RescheduleDelivery, TimePasses
<1> QED
  BY <1>1, <1>2, <1>3, <1>4, <1>5

\* Where no delivery is put back into the queue by hand, a command whose
\* outcome has been enqueued does not run the agent again in the same attempt,
\* for any number of commands, cancellations, retries and lost deliveries.
\* With update_delivery_scheduling it may: the failed placeholder of an earlier
\* attempt, put back, reopens the command whatever its attempt has come to.
THEOREM OutcomeNotRerun ==
    ASSUME "reschedule" \notin Requests PROVE Spec => OutcomeIsNotRerun
<1> DEFINE NoRerun ==
      \A t \in Tasks :
         /\ \E end \in Ends : outbox[<<t, end, task[t].attempt>>].status # "absent"
         /\ task'[t].attempt = task[t].attempt /\ runtime[t] # "running"
         => runtime'[t] # "running"
<1>1. TypeOK /\ Outcomes /\ [Next]_vars => NoRerun
  <2> SUFFICES ASSUME TypeOK, Outcomes, [Next]_vars, NEW t \in Tasks, NEW end \in Ends,
                      outbox[<<t, end, task[t].attempt>>].status # "absent",
                      runtime[t] # "running", runtime'[t] = "running"
               PROVE  FALSE
    OBVIOUS
  <2>1. ew.pc = "start" /\ ew.task = t
    BY SessionOpens
  <2>2. PICK k \in Keys : k = <<t, end, task[t].attempt>>
    BY RowFields DEF TypeOK, Keys, Texts
  <2>3. ~On(t)
    BY <2>2 DEF Outcomes, OutcomeIsLast
  <2> QED
    BY <2>1, <2>3 DEF On
<1>2. TypeOK /\ Outcomes /\ [Next]_vars => [NoRerun]_vars
  BY <1>1
<1> HIDE DEF NoRerun
<1>3. Spec => [][NoRerun]_vars
  BY <1>2, InitialTypes, StepTypes, OutcomesInductive, PTL DEF Spec
<1> QED
  BY <1>3 DEF NoRerun, OutcomeIsNotRerun

-----------------------------------------------------------------------------
(* No session before the placeholder comment is bound *)

Commented(t) == task[t].comment # 0

\* A command that is open and past its placeholder has its comment.
PlaceholderGate ==
    \A t \in Tasks :
        /\ task[t].status \in Active
        /\ task[t].stage \notin {"placeholder_pending", "cancellation_pending"}
        => Commented(t)

\* So has the one in hand, once the worker is past the first two questions.
WorkerGate ==
    /\ ew.pc = "loaded" => /\ ew.row.status = "running"
                           /\ \/ NeedsPlaceholder(ew.row)
                              \/ ew.row.stage = "cancellation_pending"
                              \/ Commented(ew.task)
    /\ ew.pc \in {"prepare", "ready", "start", "timeout"} => Commented(ew.task)

\* A publisher that binds a comment has one, and one that is finished has
\* bound it.
PublisherGate(p) ==
    /\ p.pc \in {"lookup", "write", "bind", "raise"} /\ p.row.comment # 0 =>
         Commented(p.key[1])
    /\ p.pc = "bind" => p.comment # 0
    /\ p.pc = "finish" => Commented(p.key[1])

\* Before it has its comment a command fails only by the loss of its
\* placeholder, and the stage says so: a later loss, flushed from an older
\* copy, never writes the stage alone.
Matched(row) ==
    row.comment = 0 => (row.status = "failed" <=> row.stage = "delivery_failed")

FailureGate == Matched(dw.row) /\ \A t \in Tasks : Matched(task[t])

Gates == /\ PlaceholderGate /\ WorkerGate /\ FailureGate
         /\ PublisherGate(dw) /\ PublisherGate(api)

\* What the steps that bind a comment do to its id; nobody else touches it.
LEMMA CommentColumn ==
    ASSUME TypeOK, [Next]_vars, NEW t \in Tasks
    PROVE  \/ task'[t].comment = task[t].comment
           \/ /\ BindComment /\ t = dw.key[1] /\ dw.comment # dw.row.comment
              /\ task'[t].comment = dw.comment
           \/ /\ CancelEnds /\ api.pc = "bind" /\ t = api.key[1]
              /\ api.comment # api.row.comment
              /\ task'[t].comment = api.comment
<1>0. /\ task \in [Tasks -> Row] /\ dw \in Publisher /\ api \in Publisher
      /\ dw.key \in Keys /\ dw.key[1] \in Tasks /\ api.key[1] \in Tasks
  BY PublisherFields DEF TypeOK
<1>1. CASE CommandStep
  BY <1>1, CommandEffect DEF HandStep, RowStep
<1>2. ASSUME NEW o \in Tasks, ClaimTask(o)
      PROVE  task'[t].comment = task[t].comment
  BY <1>2, ClaimEffect
<1>3. ASSUME NEW o \in Tasks, SoftTimeout(o)
      PROVE  task'[t].comment = task[t].comment
  <2>1. task' = [task EXCEPT ![o] = [task[o] EXCEPT !.soft = TRUE]]
    BY <1>0, <1>3 DEF SoftTimeout
  <2> QED
    BY <1>0, <2>1, FlaggedFields
<1>4. ASSUME BindComment
      PROVE  \/ task'[t].comment = task[t].comment
             \/ /\ t = dw.key[1] /\ dw.comment # dw.row.comment
                /\ task'[t].comment = dw.comment
  <2> DEFINE f == Flush(task[dw.key[1]], dw.row, Published(dw))
  <2>1. task' = [task EXCEPT ![dw.key[1]] = f]
    BY <1>4 DEF BindComment, Commit
  <2>2. f.comment = IF dw.comment = dw.row.comment THEN task[dw.key[1]].comment
                    ELSE dw.comment
    BY <1>0, BoundRow
  <2> HIDE DEF f
  <2> QED
    BY <1>0, <2>1, <2>2
<1>5. ASSUME FinishDelivery PROVE task'[t].comment = task[t].comment
  <2>1. task' = [task EXCEPT ![dw.key[1]] = Settled(dw.key, task[dw.key[1]])]
    BY <1>0, <1>5 DEF FinishDelivery
  <2>2. Settled(dw.key, task[dw.key[1]]).comment = task[dw.key[1]].comment
    BY <1>0, SettledRow
  <2> QED
    BY <1>0, <2>1, <2>2
<1>6. CASE RecordDeliveryFailure
  BY <1>0, <1>6, FailureRows
<1>7. \A row \in Row :
        [row EXCEPT !.status = "running", !.stage = "cancellation_pending"].comment
          = row.comment
  BY DEF Row
<1>8. ASSUME ClosePullRequest PROVE task'[t].comment = task[t].comment
  <2>1. task'[t] = IF task[t].status \in Active
                   THEN [task[t] EXCEPT !.status = "running",
                                        !.stage = "cancellation_pending"]
                   ELSE task[t]
    BY <1>8 DEF ClosePullRequest
  <2>2. task[t] \in Row
    BY <1>0
  <2>3. CASE task[t].status \in Active
    BY <1>7, <2>1, <2>2, <2>3
  <2>4. CASE task[t].status \notin Active
    BY <2>1, <2>4
  <2> QED
    BY <2>3, <2>4
<1>9. ASSUME NEW o \in Tasks, CancelRequest(o)
      PROVE  task'[t].comment = task[t].comment
  <2>1. task' = [task EXCEPT ![o] = [task[o] EXCEPT !.status = "running",
                                                    !.stage = "cancellation_pending"]]
    BY <1>0, <1>9 DEF CancelRequest
  <2>2. [task[o] EXCEPT !.status = "running", !.stage = "cancellation_pending"].comment
          = task[o].comment
    BY <1>0, <1>7
  <2> QED
    BY <1>0, <2>1, <2>2
<1>10. ASSUME CancelEnds
       PROVE  \/ task'[t].comment = task[t].comment
              \/ /\ api.pc = "bind" /\ t = api.key[1] /\ api.comment # api.row.comment
                 /\ task'[t].comment = api.comment
  <2> DEFINE f == Flush(task[api.key[1]], api.row, Published(api))
             bound == IF api.pc = "bind" THEN f ELSE task[api.key[1]]
             new == [bound EXCEPT !.status = "cancelled", !.stage = "cancelled"]
  <2>1. task' = [task EXCEPT ![api.key[1]] = new]
    BY <1>10 DEF CancelEnds
  <2>2. f \in Row /\ f.comment = IF api.comment = api.row.comment
                                 THEN task[api.key[1]].comment ELSE api.comment
    BY <1>0, BoundRow
  <2> HIDE DEF f
  <2>3. bound \in Row /\ \/ bound.comment = task[api.key[1]].comment
                         \/ /\ api.pc = "bind" /\ api.comment # api.row.comment
                            /\ bound.comment = api.comment
    BY <1>0, <2>2
  <2> HIDE DEF bound
  <2>4. new.comment = bound.comment
    BY <2>3 DEF Row
  <2> HIDE DEF new
  <2> QED
    BY <1>0, <2>1, <2>3, <2>4
<1>11. ASSUME NEW o \in Tasks, RetryRequest(o)
       PROVE  task'[t].comment = task[t].comment
  BY <1>0, <1>11, NewTaskType DEF RetryRequest, Row
<1>12. \/ CommandStep \/ BindComment \/ FinishDelivery \/ RecordDeliveryFailure
       \/ ClosePullRequest \/ CancelEnds
       \/ \E o \in Tasks : ClaimTask(o) \/ SoftTimeout(o) \/ CancelRequest(o) \/ RetryRequest(o)
       \/ UNCHANGED task
  BY DEF Next, vars, BeginTimeout, CrashExecution, ClaimDelivery, BackoffElapses,
     DeliveryStep, LookUpComment, WriteComment, ProviderFails, CrashDelivery, ApiStep,
     CancelLookUp, CancelWrite, CancelFails, RescheduleDelivery, SessionEnds, TimePasses
<1> QED
  BY <1>1, <1>2, <1>3, <1>4, <1>5, <1>6, <1>8, <1>9, <1>10, <1>11, <1>12

\* A comment that is bound stays bound, and a publisher that commits binds one.
LEMMA CommentKept ==
    ASSUME TypeOK, PublisherGate(dw), PublisherGate(api), [Next]_vars, NEW t \in Tasks
    PROVE  /\ Commented(t) => Commented(t)'
           /\ BindComment /\ t = dw.key[1] => Commented(t)'
<1>1. BindComment => dw.pc = "bind"
  BY DEF BindComment
<1>2. CASE ~(BindComment /\ t = dw.key[1])
  BY <1>2, CommentColumn DEF PublisherGate, Commented
<1>3. CASE BindComment /\ t = dw.key[1]
  <2>1. CASE dw.row.comment # 0
    BY <1>1, <1>3, <2>1, CommentColumn DEF PublisherGate, Commented
  <2>2. CASE dw.row.comment = 0
    <3>1. dw.comment # 0 /\ dw.comment # dw.row.comment
      BY <1>1, <1>3, <2>2 DEF PublisherGate
    <3>2. task'[t].comment = dw.comment
      <4> DEFINE f == Flush(task[dw.key[1]], dw.row, Published(dw))
      <4>1. task' = [task EXCEPT ![dw.key[1]] = f] /\ dw \in Publisher /\ task \in [Tasks -> Row]
        BY <1>3 DEF BindComment, Commit, TypeOK
      <4>2. f.comment = dw.comment
        BY <3>1, <4>1, BoundRow
      <4> HIDE DEF f
      <4> QED
        BY <1>3, <4>1, <4>2
    <3> QED
      BY <3>1, <3>2 DEF Commented
  <2> QED
    BY <2>1, <2>2
<1> QED
  BY <1>2, <1>3

\* The gate of a publisher, over a step that does or does not move it.
LEMMA PublishersGated ==
    ASSUME TypeOK, PublisherGate(dw), PublisherGate(api), [Next]_vars
    PROVE  PublisherGate(dw)' /\ PublisherGate(api)'
<1>0. /\ task \in [Tasks -> Row] /\ dw \in Publisher /\ api \in Publisher
      /\ dw.key \in Keys /\ dw.key[1] \in Tasks /\ api.key[1] \in Tasks
      /\ dw.row \in Row /\ api.row \in Row
  BY PublisherFields DEF TypeOK
<1>1. \A t \in Tasks : Commented(t) => Commented(t)'
  BY CommentKept
\* A publisher begins with the row that is stored, and goes on with its copy.
<1>2. ASSUME NEW p \in Publisher, NEW q \in Publisher, PublisherGate(p),
             \/ q = p \/ q.pc = "idle"
             \/ q.pc = "raise" /\ q.key = p.key /\ q.row = p.row /\ p.pc \in {"lookup", "write"}
             \/ q = AfterLookup(p) /\ p.pc = "lookup"
             \/ /\ q.key = p.key /\ q.row = p.row /\ p.pc = "write"
                /\ q.pc = "bind" /\ q.comment # 0
      PROVE  /\ q.pc \in {"lookup", "write", "bind", "raise"} /\ q.row.comment # 0 =>
                  task'[q.key[1]].comment # 0
             /\ q.pc = "bind" => q.comment # 0
             /\ q.pc = "finish" => task'[q.key[1]].comment # 0
  <2>1. p.key[1] \in Tasks /\ q.key[1] \in Tasks
    BY PublisherFields
  <2>2. Commented(p.key[1]) => task'[p.key[1]].comment # 0
    BY <1>1, <2>1 DEF Commented
  <2>3. CASE q = p
    BY <1>2, <2>2, <2>3 DEF PublisherGate
  <2>4. CASE \/ q.pc = "idle"
             \/ q.pc = "raise" /\ q.key = p.key /\ q.row = p.row /\ p.pc \in {"lookup", "write"}
    BY <1>2, <2>2, <2>4 DEF PublisherGate
  <2>5. CASE q = AfterLookup(p) /\ p.pc = "lookup"
    <3>1. /\ q.key = p.key
          /\ \/ q.pc = "finish" /\ p.row.comment # 0
             \/ q.pc = "write" /\ q.row = p.row
      BY <2>5, LookedUp
    <3> QED
      BY <1>2, <2>2, <2>5, <3>1 DEF PublisherGate
  <2>6. CASE /\ q.key = p.key /\ q.row = p.row /\ p.pc = "write"
             /\ q.pc = "bind" /\ q.comment # 0
    BY <1>2, <2>2, <2>6 DEF PublisherGate
  <2> QED
    BY <1>2, <2>3, <2>4, <2>5, <2>6
<1>3. dw' \in Publisher /\ api' \in Publisher
  BY StepTypes DEF TypeOK
<1>4. PublisherGate(dw)'
  <2>1. CASE \/ dw' = dw \/ dw'.pc = "idle"
             \/ /\ dw'.pc = "raise" /\ dw'.key = dw.key /\ dw'.row = dw.row
                /\ dw.pc \in {"lookup", "write"}
             \/ dw' = AfterLookup(dw) /\ dw.pc = "lookup"
             \/ /\ dw'.key = dw.key /\ dw'.row = dw.row /\ dw.pc = "write"
                /\ dw'.pc = "bind" /\ dw'.comment # 0
    <3>1. PICK p \in Publisher, q \in Publisher : p = dw /\ q = dw'
      BY <1>0, <1>3
    <3>2. PublisherGate(p)
      BY <3>1
    <3>3. \/ q = p \/ q.pc = "idle"
          \/ q.pc = "raise" /\ q.key = p.key /\ q.row = p.row /\ p.pc \in {"lookup", "write"}
          \/ q = AfterLookup(p) /\ p.pc = "lookup"
          \/ /\ q.key = p.key /\ q.row = p.row /\ p.pc = "write"
             /\ q.pc = "bind" /\ q.comment # 0
      BY <2>1, <3>1
    <3>4. /\ q.pc \in {"lookup", "write", "bind", "raise"} /\ q.row.comment # 0 =>
               task'[q.key[1]].comment # 0
          /\ q.pc = "bind" => q.comment # 0
          /\ q.pc = "finish" => task'[q.key[1]].comment # 0
      BY <1>2, <3>2, <3>3
    <3> QED
      BY <3>1, <3>4 DEF PublisherGate, Commented
  <2>2. ASSUME NEW k \in Keys, ClaimDelivery(k) PROVE PublisherGate(dw)'
    <3>1. /\ dw'.pc = "lookup" /\ dw'.key = k /\ dw'.row = Kept(task[k[1]])
          /\ task' = task
      BY <2>2 DEF ClaimDelivery
    <3>2. k[1] \in Tasks /\ Kept(task[k[1]]).comment = task[k[1]].comment
      BY <1>0, KeyFields, KeptRow
    <3> QED
      BY <3>1, <3>2 DEF PublisherGate, Commented
  <2>3. ASSUME BindComment PROVE PublisherGate(dw)'
    <3>1. Commented(dw.key[1])' /\ task'[dw.key[1]].comment # 0
      <4>1. PICK t \in Tasks : t = dw.key[1]
        BY <1>0
      <4>2. Commented(t)'
        BY <2>3, <4>1, CommentKept
      <4>3. task'[dw.key[1]].comment # 0
        BY <4>1, <4>2 DEF Commented
      <4>4. dw'.key = dw.key
        BY <1>0, <2>3, FinishingType DEF BindComment
      <4> QED
        BY <4>3, <4>4 DEF Commented
    <3>2. dw'.pc = "finish" /\ dw'.key = dw.key
      BY <1>0, <2>3, FinishingType DEF BindComment
    <3> QED
      BY <3>1, <3>2 DEF PublisherGate, Commented
  <2>4. \/ dw' = dw \/ dw'.pc = "idle"
        \/ /\ dw'.pc = "raise" /\ dw'.key = dw.key /\ dw'.row = dw.row
           /\ dw.pc \in {"lookup", "write"}
        \/ dw' = AfterLookup(dw) /\ dw.pc = "lookup"
        \/ WriteComment \/ BindComment \/ \E k \in Keys : ClaimDelivery(k)
    <3>1. CASE CommandStep
      BY <3>1, CommandEffect DEF HandStep
    <3>2. CASE DeliveryStep \/ CrashDelivery
      BY <1>0, <3>2, IdleTypes DEF DeliveryStep, LookUpComment, ProviderFails,
         FinishDelivery, RecordDeliveryFailure, CrashDelivery, Publisher
    <3>3. CASE ApiStep
      BY <3>3 DEF ApiStep, ClosePullRequest, CancelLookUp, CancelWrite,
         CancelEnds, CancelFails, CancelRequest, RetryRequest, RescheduleDelivery
    <3> QED
      BY <3>1, <3>2, <3>3 DEF Next, vars, ClaimTask, SoftTimeout, BeginTimeout,
         CrashExecution, BackoffElapses, SessionEnds, TimePasses
  <2>5. WriteComment => /\ dw'.key = dw.key /\ dw'.row = dw.row /\ dw.pc = "write"
                        /\ dw'.pc = "bind" /\ dw'.comment # 0
    BY <1>0, WrittenComments DEF WriteComment, Publisher
  <2> QED
    BY <2>1, <2>2, <2>3, <2>4, <2>5
<1>5. PublisherGate(api)'
  <2>1. ASSUME NEW p \in Publisher, p.key = api.key, PublisherGate(p), p.pc = api.pc,
               \/ api' = p \/ api'.pc = "idle"
               \/ api' = AfterLookup(p) /\ p.pc = "lookup"
               \/ /\ api'.key = p.key /\ api'.row = p.row /\ p.pc = "write"
                  /\ api'.pc = "bind" /\ api'.comment # 0
        PROVE  PublisherGate(api)'
    <3>1. PICK q \in Publisher : q = api'
      BY <1>3
    <3>2. \/ q = p \/ q.pc = "idle"
          \/ q = AfterLookup(p) /\ p.pc = "lookup"
          \/ /\ q.key = p.key /\ q.row = p.row /\ p.pc = "write"
             /\ q.pc = "bind" /\ q.comment # 0
      BY <2>1, <3>1
    <3>3. /\ q.pc \in {"lookup", "write", "bind", "raise"} /\ q.row.comment # 0 =>
               task'[q.key[1]].comment # 0
          /\ q.pc = "bind" => q.comment # 0
          /\ q.pc = "finish" => task'[q.key[1]].comment # 0
      BY <1>2, <2>1, <3>2
    <3> QED
      BY <3>1, <3>3 DEF PublisherGate, Commented
  <2>2. ASSUME CancelLookUp PROVE PublisherGate(api)'
    <3>1. PICK p \in Publisher : p = [api EXCEPT !.row = Kept(@)]
      BY <1>0, KeptRow DEF Publisher
    <3>2. p.key = api.key /\ p.pc = api.pc /\ p.row = Kept(api.row) /\ p.comment = api.comment
      BY <1>0, <3>1 DEF Publisher
    <3>3. p.row.comment = api.row.comment
      BY <1>0, <3>2, KeptRow
    <3>4. PublisherGate(p)
      BY <3>2, <3>3 DEF PublisherGate
    <3>5. api' = AfterLookup(p) /\ p.pc = "lookup"
      BY <2>2, <3>1, <3>2 DEF CancelLookUp
    <3> QED
      BY <2>1, <3>2, <3>4, <3>5
  <2>3. ASSUME NEW t \in Tasks, CancelRequest(t) PROVE PublisherGate(api)'
    <3>1. /\ api'.pc = "lookup" /\ api'.key[1] = t /\ api'.row = task'[t]
      BY <2>3 DEF CancelRequest
    <3> QED
      BY <3>1 DEF PublisherGate, Commented
  <2>4. \/ api' = api \/ api'.pc = "idle"
        \/ CancelLookUp \/ CancelWrite \/ \E t \in Tasks : CancelRequest(t)
    <3>1. CASE CommandStep
      BY <3>1, CommandEffect DEF HandStep
    <3>2. CASE DeliveryStep \/ CrashDelivery
      BY <3>2 DEF DeliveryStep, LookUpComment, WriteComment, BindComment, ProviderFails,
         FinishDelivery, RecordDeliveryFailure, CrashDelivery
    <3>3. CASE ApiStep
      BY <3>3, IdleTypes DEF ApiStep, ClosePullRequest, CancelEnds, CancelFails,
         RetryRequest, RescheduleDelivery
    <3> QED
      BY <3>1, <3>2, <3>3 DEF Next, vars, ClaimTask, SoftTimeout, BeginTimeout,
         CrashExecution, ClaimDelivery, BackoffElapses, SessionEnds, TimePasses
  <2>5. CancelWrite => /\ api'.key = api.key /\ api'.row = api.row /\ api.pc = "write"
                       /\ api'.pc = "bind" /\ api'.comment # 0
    BY <1>0, WrittenComments DEF CancelWrite, Publisher
  <2>6. PICK p \in Publisher : p = api
    BY <1>0
  <2>7. PublisherGate(p)
    BY <2>6
  <2> QED
    BY <2>1, <2>2, <2>3, <2>4, <2>5, <2>6, <2>7
<1> QED
  BY <1>4, <1>5

LEMMA WorkerGated ==
    ASSUME TypeOK, Gates, [Next]_vars PROVE WorkerGate'
<1>0. task \in [Tasks -> Row] /\ ew.task \in Tasks
  BY InHandTypes DEF TypeOK
<1>1. \A t \in Tasks : Commented(t) => task'[t].comment # 0
  BY CommentKept DEF Gates, Commented
<1>2. CASE ew' = ew \/ ew'.pc = "idle"
  BY <1>0, <1>1, <1>2 DEF Gates, WorkerGate, Commented
<1>3. ASSUME NEW t \in Tasks, ClaimTask(t) PROVE WorkerGate'
  <2>1. /\ task[t].status \in Active
        /\ ew' = [pc |-> "loaded", task |-> t, row |-> task'[t]]
    BY <1>3, ClaimEffect
  <2>2. /\ task'[t].comment = task[t].comment /\ task'[t].stage = task[t].stage
        /\ task'[t].status = "running"
    BY <1>3, ClaimEffect
  <2>3. ew'.pc = "loaded" /\ ew'.task = t /\ ew'.row = task'[t]
    BY <2>1
  <2>4. \/ task[t].stage \in {"placeholder_pending", "cancellation_pending"}
        \/ task[t].comment # 0
    BY <2>1 DEF Gates, PlaceholderGate, Commented
  <2> QED
    BY <2>2, <2>3, <2>4 DEF WorkerGate, NeedsPlaceholder, Commented
<1>a. ASSUME NEW t \in Tasks, BeginTimeout(t) PROVE WorkerGate'
  <2>1. /\ task[t].status \in Active /\ task[t].stage \in InAgent /\ task' = task
        /\ ew' = [pc |-> "timeout", task |-> t, row |-> task[t]]
    BY <1>a DEF BeginTimeout, Watched
  <2>2. Commented(t)
    BY <2>1 DEF Gates, PlaceholderGate, InAgent
  <2>3. ew'.pc = "timeout" /\ ew'.task = t
    BY <2>1
  <2> QED
    BY <2>1, <2>2, <2>3 DEF WorkerGate, Commented
<1>4. ASSUME CommandStep PROVE WorkerGate'
  <2>1. HandStep
    BY <1>4, CommandEffect
  <2>2. CASE GoesOn
    <3>1. Commented(ew.task)
      BY <2>2 DEF GoesOn, HasTurn, InTurnToRun, Gates, WorkerGate
    <3> QED
      BY <1>0, <1>1, <2>2, <3>1 DEF GoesOn, WorkerGate, Commented
  <2>3. CASE ~GoesOn
    BY <1>2, <2>1, <2>3, IdleTypes DEF HandStep, Concludes, AsksPlaceholder, Pauses
  <2> QED
    BY <2>2, <2>3
<1>5. \/ ew' = ew \/ ew'.pc = "idle"
      \/ CommandStep \/ \E t \in Tasks : ClaimTask(t) \/ BeginTimeout(t)
  <2>1. CASE DeliveryStep \/ CrashDelivery
    BY <2>1 DEF DeliveryStep, LookUpComment, WriteComment, BindComment, ProviderFails,
       FinishDelivery, RecordDeliveryFailure, CrashDelivery
  <2>2. CASE ApiStep
    BY <2>2 DEF ApiStep, ClosePullRequest, CancelLookUp, CancelWrite,
       CancelEnds, CancelFails, CancelRequest, RetryRequest, RescheduleDelivery
  <2>3. ASSUME NEW t \in Tasks, SoftTimeout(t) PROVE ew' = ew
    BY <2>3 DEF SoftTimeout
  <2>4. CrashExecution => ew'.pc = "idle"
    BY IdleTypes DEF CrashExecution
  <2>5. ASSUME \/ UNCHANGED vars \/ \E k \in Keys : ClaimDelivery(k) \/ BackoffElapses(k)
               \/ \E t \in Tasks : SessionEnds(t) \/ TimePasses(t)
        PROVE  ew' = ew
    BY <2>5 DEF vars, ClaimDelivery, BackoffElapses, SessionEnds, TimePasses
  <2> QED
    BY <2>1, <2>2, <2>3, <2>4, <2>5 DEF Next
<1> QED
  BY <1>2, <1>3, <1>a, <1>4, <1>5

\* A delivery that is given up fails its command, stage and all, unless the
\* command has its comment or had failed before.
LEMMA LossMatched ==
    ASSUME TypeOK, Gates, RecordDeliveryFailure, NEW t \in Tasks, ~Commented(t)
    PROVE  \/ task'[t].status = task[t].status /\ task'[t].stage = task[t].stage
           \/ task'[t].status = "failed" /\ task'[t].stage = "delivery_failed"
<1> DEFINE worse == [dw.row EXCEPT !.status = "failed", !.stage = "delivery_failed"]
<1>0. dw.key[1] \in Tasks /\ dw.row \in Row
  BY PublisherFields DEF TypeOK
<1>1. CASE t # dw.key[1]
  BY <1>1, FailureRows
<1>2. CASE t = dw.key[1]
  <2>1. dw.row.comment = 0 /\ (dw.row.status = "failed" <=> dw.row.stage = "delivery_failed")
    BY <1>2 DEF RecordDeliveryFailure, Gates, FailureGate, Matched, PublisherGate
  <2>2. /\ worse \in Row /\ worse.status = "failed" /\ worse.stage = "delivery_failed"
    <3>1. "failed" \in Pending \cup Ends /\ "delivery_failed" \in Stages
      BY DEF Ends, Stages
    <3> QED
      BY <1>0, <3>1 DEF Row
  <2>3. Commit(t, dw.row, worse) \/ Commit(t, dw.row, dw.row)
    BY <1>2 DEF RecordDeliveryFailure
  <2> HIDE DEF worse
  <2>4. CASE Commit(t, dw.row, dw.row)
    BY <1>0, <2>4, CommitRow
  <2>5. CASE Commit(t, dw.row, worse)
    <3>1. /\ task'[t].status = IF "failed" = dw.row.status THEN task[t].status ELSE "failed"
          /\ task'[t].stage = IF "delivery_failed" = dw.row.stage THEN task[t].stage
                              ELSE "delivery_failed"
      BY <1>0, <2>2, <2>5, CommitRow
    <3> QED
      BY <2>1, <3>1
  <2> QED
    BY <2>3, <2>4, <2>5
<1> QED
  BY <1>1, <1>2

\* The worker asks for the placeholder of a command without comment, or gives
\* the command up: both leave it waiting for a delivery.
LEMMA HandMatched ==
    ASSUME TypeOK, Gates, CommandStep, ~Commented(ew.task)
    PROVE  /\ task'[ew.task].status = "awaiting_delivery"
           /\ task'[ew.task].stage # "delivery_failed"
<1>0. /\ ew.task \in Tasks /\ ew.row \in Row /\ task \in [Tasks -> Row]
      /\ ew.pc # "idle"
  BY InHandTypes, CommandEffect DEF TypeOK, HandStep
<1>1. /\ ew.pc = "loaded" /\ ew.row.status = "running"
      /\ NeedsPlaceholder(ew.row) \/ ew.row.stage = "cancellation_pending"
  BY <1>0, InHandTypes DEF Gates, WorkerGate, Worker
<1>2. RequestPlaceholder \/ CancelCommand
  BY <1>1 DEF CommandStep, AskForText, WaitForTurn, RefuseCommand, BeginPrepare,
     PrepareWorkspace, PrepareFails, BeginStart, StartSession, StartFails, PollSession,
     HardTimeout, MayRun, HasTurn, InTurnToRun
<1>3. ASSUME NEW g \in {"placeholder_delivery_pending", "cancellation_delivery_pending"},
             Commit(ew.task, ew.row, [ew.row EXCEPT !.status = "awaiting_delivery", !.stage = g]),
             ew.row.stage # g
      PROVE  task'[ew.task].status = "awaiting_delivery" /\ task'[ew.task].stage = g
  <2> DEFINE value == [ew.row EXCEPT !.status = "awaiting_delivery", !.stage = g]
  <2>1. g \in Stages /\ "awaiting_delivery" \in Pending \cup Ends
    BY DEF Stages, Pending
  <2>2. value \in Row /\ value.status = "awaiting_delivery" /\ value.stage = g
    BY <1>0, <2>1 DEF Row
  <2>3. Commit(ew.task, ew.row, value)
    BY <1>3
  <2> HIDE DEF value
  <2> QED
    BY <1>0, <1>1, <1>3, <2>2, <2>3, CommitRow
<1>4. CASE RequestPlaceholder
  BY <1>3, <1>4 DEF RequestPlaceholder, NeedsPlaceholder
<1>5. CASE CancelCommand
  <2>1. Concluded(ew.row, "cancelled") =
          [ew.row EXCEPT !.status = "awaiting_delivery",
                         !.stage = "cancellation_delivery_pending"]
    BY DEF Concluded, FinalStage
  <2> QED
    BY <1>3, <1>5, <2>1 DEF CancelCommand, Conclude
<1> QED
  BY <1>2, <1>4, <1>5

LEMMA FailureGated ==
    ASSUME TypeOK, Gates, [Next]_vars PROVE FailureGate'
<1>0. /\ task \in [Tasks -> Row] /\ ew.task \in Tasks /\ dw \in Publisher
      /\ dw.key[1] \in Tasks /\ api \in Publisher /\ api.key[1] \in Tasks
      /\ Matched(dw.row) /\ \A t \in Tasks : Matched(task[t])
  BY InHandTypes, PublisherFields DEF TypeOK, Gates, FailureGate
<1>1. Matched(NewTask)
  BY NewTaskType DEF Matched
\* The delivery worker keeps its copy, drops it or loads the stored row.
<1>2. Matched(dw.row)'
  <2>1. CASE dw'.row = dw.row \/ dw'.row = NewTask
    BY <1>0, <1>1, <2>1 DEF Matched
  <2>2. ASSUME NEW k \in Keys, ClaimDelivery(k) PROVE Matched(dw.row)'
    <3>1. dw'.row = Kept(task[k[1]]) /\ k[1] \in Tasks
      BY <2>2, KeyFields DEF ClaimDelivery
    <3>2. task[k[1]] \in Row /\ Matched(task[k[1]])
      BY <1>0, <3>1
    <3> QED
      BY <3>1, <3>2, KeptRow DEF Matched
  <2>3. \/ dw' = dw \/ dw'.row = dw.row \/ dw'.row = NewTask
        \/ \E k \in Keys : ClaimDelivery(k)
    <3>1. CASE CommandStep
      BY <3>1, CommandEffect DEF HandStep
    <3>2. CASE DeliveryStep \/ CrashDelivery
      <4>1. \A p \in Publisher : Finishing(p).row = NewTask
        BY DEF Finishing, Publisher
      <4>2. LookUpComment => dw'.row = dw.row \/ dw'.row = NewTask
        BY <1>0, <4>1 DEF LookUpComment, AfterLookup, Publisher
      <4>3. WriteComment \/ ProviderFails => dw'.row = dw.row
        BY <1>0 DEF WriteComment, ProviderFails, Publisher
      <4>4. BindComment => dw'.row = NewTask
        BY <1>0, <4>1 DEF BindComment
      <4>5. IdlePublisher.row = NewTask
        BY DEF IdlePublisher
      <4>6. FinishDelivery \/ RecordDeliveryFailure \/ CrashDelivery => dw'.row = NewTask
        BY <4>5 DEF FinishDelivery, RecordDeliveryFailure, CrashDelivery
      <4> QED
        BY <3>2, <4>2, <4>3, <4>4, <4>6 DEF DeliveryStep
    <3>3. CASE ApiStep
      BY <3>3 DEF ApiStep, ClosePullRequest, CancelLookUp, CancelWrite,
         CancelEnds, CancelFails, CancelRequest, RetryRequest, RescheduleDelivery
    <3> QED
      BY <3>1, <3>2, <3>3 DEF Next, vars, ClaimTask, SoftTimeout, BeginTimeout,
         CrashExecution, BackoffElapses, SessionEnds, TimePasses
  <2> QED
    BY <2>1, <2>2, <2>3
<1>3. SUFFICES ASSUME NEW t \in Tasks, task'[t].comment = 0
               PROVE  task'[t].status = "failed" <=> task'[t].stage = "delivery_failed"
  BY <1>2 DEF FailureGate, Matched
<1>4. ~Commented(t) /\ (task[t].status = "failed" <=> task[t].stage = "delivery_failed")
  BY <1>0, <1>3, CommentKept DEF Gates, Commented, Matched
<1> DEFINE Goal == task'[t].status = "failed" <=> task'[t].stage = "delivery_failed"
<1>5. ASSUME task'[t].status = task[t].status /\ task'[t].stage = task[t].stage PROVE Goal
  BY <1>4, <1>5
<1>6. ASSUME CommandStep PROVE Goal
  <2>1. CASE t # ew.task
    BY <1>5, <1>6, <2>1, CommandEffect DEF HandStep, RowStep
  <2>2. CASE t = ew.task
    BY <1>4, <1>6, <2>2, HandMatched
  <2> QED
    BY <2>1, <2>2
<1>7. ASSUME NEW o \in Tasks, ClaimTask(o) PROVE Goal
  <2>1. CASE t = o
    BY <1>4, <1>7, <2>1, ClaimEffect DEF Active
  <2>2. CASE t # o
    BY <1>5, <1>7, <2>2, ClaimEffect
  <2> QED
    BY <2>1, <2>2
<1>8. ASSUME NEW o \in Tasks, SoftTimeout(o) PROVE Goal
  <2>1. task' = [task EXCEPT ![o] = [task[o] EXCEPT !.soft = TRUE]]
    BY <1>0, <1>8 DEF SoftTimeout
  <2>2. task'[t].status = task[t].status /\ task'[t].stage = task[t].stage
    BY <1>0, <2>1, FlaggedFields
  <2> QED
    BY <1>5, <2>2
<1>9. ASSUME BindComment PROVE Goal
  <2> DEFINE f == Flush(task[dw.key[1]], dw.row, Published(dw))
  <2>1. task' = [task EXCEPT ![dw.key[1]] = f]
    BY <1>9 DEF BindComment, Commit
  <2>2. f.status = task[dw.key[1]].status /\ f.stage = task[dw.key[1]].stage
    BY <1>0, BoundRow
  <2> HIDE DEF f
  <2> QED
    BY <1>0, <1>5, <2>1, <2>2
\* A delivery that has succeeded has bound the comment.
<1>10. ASSUME FinishDelivery PROVE Goal
  <2>1. /\ task' = [task EXCEPT ![dw.key[1]] = Settled(dw.key, task[dw.key[1]])]
        /\ Commented(dw.key[1])
    BY <1>0, <1>10 DEF FinishDelivery, Gates, PublisherGate
  <2> QED
    BY <1>0, <1>4, <1>5, <2>1
<1>11. ASSUME RecordDeliveryFailure PROVE Goal
  BY <1>4, <1>11, LossMatched
<1>12. \A row \in Row :
         LET new == [row EXCEPT !.status = "running", !.stage = "cancellation_pending"]
         IN  new.status = "running" /\ new.stage = "cancellation_pending"
  BY DEF Row
<1>13. ASSUME ClosePullRequest PROVE Goal
  <2>1. task'[t] = IF task[t].status \in Active
                   THEN [task[t] EXCEPT !.status = "running",
                                        !.stage = "cancellation_pending"]
                   ELSE task[t]
    BY <1>13 DEF ClosePullRequest
  <2>2. task[t] \in Row
    BY <1>0
  <2>3. CASE task[t].status \in Active
    BY <1>12, <2>1, <2>2, <2>3
  <2>4. CASE task[t].status \notin Active
    BY <1>5, <2>1, <2>4
  <2> QED
    BY <2>3, <2>4
<1>14. ASSUME NEW o \in Tasks, CancelRequest(o) PROVE Goal
  <2>1. task' = [task EXCEPT ![o] = [task[o] EXCEPT !.status = "running",
                                                    !.stage = "cancellation_pending"]]
    BY <1>0, <1>14 DEF CancelRequest
  <2>2. task[o] \in Row
    BY <1>0
  <2>3. CASE t = o
    BY <1>0, <1>12, <2>1, <2>2, <2>3
  <2>4. CASE t # o
    BY <1>0, <1>5, <2>1, <2>4
  <2> QED
    BY <2>3, <2>4
<1>15. ASSUME CancelEnds PROVE Goal
  <2> DEFINE bound == IF api.pc = "bind" THEN Flush(task[api.key[1]], api.row, Published(api))
                      ELSE task[api.key[1]]
             new == [bound EXCEPT !.status = "cancelled", !.stage = "cancelled"]
  <2>1. task' = [task EXCEPT ![api.key[1]] = new]
    BY <1>15 DEF CancelEnds
  <2>2. bound \in Row
    BY <1>0, BoundRow
  <2> HIDE DEF bound
  <2>3. new.status = "cancelled" /\ new.stage = "cancelled"
    BY <2>2 DEF Row
  <2> HIDE DEF new
  <2>4. CASE t = api.key[1]
    BY <1>0, <2>1, <2>3, <2>4
  <2>5. CASE t # api.key[1]
    BY <1>0, <1>5, <2>1, <2>5
  <2> QED
    BY <2>4, <2>5
<1>16. ASSUME NEW o \in Tasks, RetryRequest(o) PROVE Goal
  <2>1. /\ task'[o].stage = "placeholder_pending" /\ task'[o].status = "queued"
        /\ \A u \in Tasks \ {o} : task'[u] = task[u]
    BY <1>0, <1>16, NewTaskType DEF RetryRequest, Row
  <2>2. CASE t = o
    BY <2>1, <2>2
  <2>3. CASE t # o
    BY <1>5, <2>1, <2>3
  <2> QED
    BY <2>2, <2>3
<1>17. \/ CommandStep \/ BindComment \/ FinishDelivery \/ RecordDeliveryFailure
       \/ ClosePullRequest \/ CancelEnds
       \/ \E o \in Tasks : ClaimTask(o) \/ SoftTimeout(o) \/ CancelRequest(o) \/ RetryRequest(o)
       \/ UNCHANGED task
  BY DEF Next, vars, BeginTimeout, CrashExecution, ClaimDelivery, BackoffElapses,
     DeliveryStep, LookUpComment, WriteComment, ProviderFails, CrashDelivery, ApiStep,
     CancelLookUp, CancelWrite, CancelFails, RescheduleDelivery, SessionEnds, TimePasses
<1>18. (UNCHANGED task) => Goal
  BY <1>5
<1> HIDE DEF Goal
<1>19. Goal
  BY <1>6, <1>7, <1>8, <1>9, <1>10, <1>11, <1>13, <1>14, <1>15, <1>16, <1>17, <1>18
<1> QED
  BY <1>19 DEF Goal

LEMMA PlaceholderGated ==
    ASSUME TypeOK, Gates, [Next]_vars PROVE PlaceholderGate'
<1>0. /\ task \in [Tasks -> Row] /\ ew.task \in Tasks /\ dw \in Publisher
      /\ dw.key \in Keys /\ dw.key[1] \in Tasks /\ api \in Publisher /\ api.key[1] \in Tasks
  BY InHandTypes, PublisherFields DEF TypeOK
<1>1. \A t \in Tasks : Commented(t) => task'[t].comment # 0
  BY CommentKept DEF Gates, Commented
<1>2. SUFFICES ASSUME NEW t \in Tasks, task'[t].status \in Active,
                      task'[t].stage \notin {"placeholder_pending", "cancellation_pending"}
               PROVE  Commented(t)
  BY <1>1 DEF PlaceholderGate, Commented
<1>3. CASE \/ task'[t] = task[t]
           \/ task'[t].stage = task[t].stage /\ task[t].status \in Active
  BY <1>2, <1>3 DEF Gates, PlaceholderGate
<1>4. CASE CommandStep
  <2>1. HandStep
    BY <1>4, CommandEffect
  <2>2. CASE t # ew.task
    BY <1>3, <2>1, <2>2 DEF HandStep, RowStep
  <2>3. CASE t = ew.task
    BY <1>2, <1>4, <2>3, HandMatched DEF Active
  <2> QED
    BY <2>2, <2>3
<1>5. ASSUME NEW o \in Tasks, ClaimTask(o) PROVE Commented(t)
  BY <1>3, <1>5, ClaimEffect
<1>6. ASSUME NEW o \in Tasks, SoftTimeout(o) PROVE Commented(t)
  <2>1. task' = [task EXCEPT ![o] = [task[o] EXCEPT !.soft = TRUE]]
        /\ task[o].status \in Active
    BY <1>0, <1>6 DEF SoftTimeout, Watched
  <2>2. task'[o].stage = task[o].stage /\ \A u \in Tasks \ {o} : task'[u] = task[u]
    BY <1>0, <2>1, FlaggedFields
  <2> QED
    BY <1>3, <2>1, <2>2
<1>7. ASSUME BindComment PROVE Commented(t)
  <2> DEFINE f == Flush(task[dw.key[1]], dw.row, Published(dw))
  <2>1. task' = [task EXCEPT ![dw.key[1]] = f]
    BY <1>7 DEF BindComment, Commit
  <2>2. f.status = task[dw.key[1]].status /\ f.stage = task[dw.key[1]].stage
    BY <1>0, BoundRow
  <2> HIDE DEF f
  <2>3. task'[t].status = task[t].status /\ task'[t].stage = task[t].stage
    BY <1>0, <2>1, <2>2
  <2> QED
    BY <1>2, <1>3, <2>3
<1>8. ASSUME FinishDelivery PROVE Commented(t)
  <2> DEFINE s == Settled(dw.key, task[dw.key[1]])
  <2>1. task' = [task EXCEPT ![dw.key[1]] = s] /\ dw.pc = "finish"
    BY <1>0, <1>8 DEF FinishDelivery
  <2>2. \/ dw.key[2] \in Ends /\ s.status = dw.key[2]
        \/ dw.key[2] = "working" \/ s = task[dw.key[1]]
    BY <1>0, SettledRow
  <2> HIDE DEF s
  <2>3. Commented(dw.key[1])
    BY <2>1 DEF Gates, PublisherGate
  <2>4. CASE t = dw.key[1]
    BY <2>3, <2>4
  <2>5. CASE t # dw.key[1]
    BY <1>0, <1>3, <2>1, <2>5
  <2> QED
    BY <2>4, <2>5
<1>9. ASSUME RecordDeliveryFailure PROVE Commented(t)
  <2>1. CASE ~Commented(t)
    <3>1. task'[t].status = task[t].status /\ task'[t].stage = task[t].stage
      BY <1>2, <1>9, <2>1, LossMatched DEF Active
    <3> QED
      BY <1>2, <1>3, <3>1
  <2> QED
    BY <2>1
<1>10. \A row \in Row :
         [row EXCEPT !.status = "running", !.stage = "cancellation_pending"].stage
           = "cancellation_pending"
  BY DEF Row
<1>11. ASSUME ClosePullRequest PROVE Commented(t)
  <2>1. task'[t] = IF task[t].status \in Active
                   THEN [task[t] EXCEPT !.status = "running",
                                        !.stage = "cancellation_pending"]
                   ELSE task[t]
    BY <1>11 DEF ClosePullRequest
  <2>2. task[t] \in Row
    BY <1>0
  <2>3. task[t].status \notin Active
    BY <1>2, <1>10, <2>1, <2>2
  <2> QED
    BY <1>3, <2>1, <2>3
<1>12. ASSUME NEW o \in Tasks, CancelRequest(o) PROVE Commented(t)
  <2>1. task' = [task EXCEPT ![o] = [task[o] EXCEPT !.status = "running",
                                                    !.stage = "cancellation_pending"]]
    BY <1>0, <1>12 DEF CancelRequest
  <2>2. task'[o].stage = "cancellation_pending"
        /\ \A u \in Tasks \ {o} : task'[u] = task[u]
    BY <1>0, <2>1 DEF Row
  <2> QED
    BY <1>2, <1>3, <2>2
<1>13. ASSUME CancelEnds PROVE Commented(t)
  <2> DEFINE bound == IF api.pc = "bind" THEN Flush(task[api.key[1]], api.row, Published(api))
                      ELSE task[api.key[1]]
             new == [bound EXCEPT !.status = "cancelled", !.stage = "cancelled"]
  <2>1. task' = [task EXCEPT ![api.key[1]] = new]
    BY <1>13 DEF CancelEnds
  <2>2. bound \in Row
    BY <1>0, BoundRow
  <2> HIDE DEF bound
  <2>3. new.status = "cancelled"
    BY <2>2 DEF Row
  <2> HIDE DEF new
  <2>4. "cancelled" \notin Active
    BY DEF Active
  <2> QED
    BY <1>0, <1>2, <1>3, <2>1, <2>3, <2>4
<1>14. ASSUME NEW o \in Tasks, RetryRequest(o) PROVE Commented(t)
  <2>1. task'[o].stage = "placeholder_pending" /\ \A u \in Tasks \ {o} : task'[u] = task[u]
    BY <1>0, <1>14, NewTaskType DEF RetryRequest, Row
  <2> QED
    BY <1>2, <1>3, <2>1
<1>15. \/ CommandStep \/ BindComment \/ FinishDelivery \/ RecordDeliveryFailure
       \/ ClosePullRequest \/ CancelEnds
       \/ \E o \in Tasks : ClaimTask(o) \/ SoftTimeout(o) \/ CancelRequest(o) \/ RetryRequest(o)
       \/ UNCHANGED task
  BY DEF Next, vars, BeginTimeout, CrashExecution, ClaimDelivery, BackoffElapses,
     DeliveryStep, LookUpComment, WriteComment, ProviderFails, CrashDelivery, ApiStep,
     CancelLookUp, CancelWrite, CancelFails, RescheduleDelivery, SessionEnds, TimePasses
<1> QED
  BY <1>3, <1>4, <1>5, <1>6, <1>7, <1>8, <1>9, <1>11, <1>12, <1>13, <1>14, <1>15

GatesInv == TypeOK /\ Gates /\ AgentAfterPlaceholder

LEMMA GatesInductive ==
    /\ Init => GatesInv
    /\ GatesInv /\ [Next]_vars => GatesInv'
<1>1. ASSUME Init PROVE GatesInv
  <2>1. ew.pc = "idle" /\ dw.pc = "idle" /\ api.pc = "idle"
    BY <1>1, IdleTypes DEF Init
  <2>2. PlaceholderGate
    BY <1>1, NewTaskType DEF Init, PlaceholderGate
  <2>3. AgentAfterPlaceholder
    BY <1>1 DEF Init, AgentAfterPlaceholder
  <2>4. FailureGate
    BY <1>1, NewTaskType DEF Init, FailureGate, Matched, IdlePublisher
  <2> QED
    BY <1>1, <2>1, <2>2, <2>3, <2>4, InitialTypes
       DEF GatesInv, Gates, WorkerGate, PublisherGate
<1>2. ASSUME GatesInv, [Next]_vars PROVE GatesInv'
  <2>0. TypeOK /\ Gates
    BY <1>2 DEF GatesInv
  <2>1. TypeOK'
    BY <1>2, <2>0, StepTypes
  <2>2. Gates'
    BY <1>2, <2>0, PublishersGated, WorkerGated, FailureGated, PlaceholderGated DEF Gates
  <2>3. AgentAfterPlaceholder'
    <3> SUFFICES ASSUME NEW t \in Tasks, runtime'[t] # "none" PROVE task'[t].comment # 0
      BY DEF AgentAfterPlaceholder
    <3>1. Commented(t)
      <4>1. CASE runtime[t] # "none"
        BY <1>2, <4>1 DEF GatesInv, AgentAfterPlaceholder, Commented
      <4>2. CASE runtime[t] = "none"
        <5>1. ew.pc = "start" /\ ew.task = t
          BY <1>2, <2>0, <4>2, SessionOpens
        <5> QED
          BY <2>0, <5>1 DEF Gates, WorkerGate
      <4> QED
        BY <4>1, <4>2
    <3> QED
      BY <1>2, <2>0, <3>1, CommentKept DEF Gates, Commented
  <2> QED
    BY <2>1, <2>2, <2>3 DEF GatesInv
<1> QED
  BY <1>1, <1>2

\* No session is requested before the placeholder comment is bound, whatever
\* is cancelled, retried, rescheduled, lost or restarted in between, for every
\* number of commands, attempts and faults.
THEOREM PlaceholderFirst == Spec => []AgentAfterPlaceholder
<1>1. GatesInv => AgentAfterPlaceholder
  BY DEF GatesInv
<1> QED
  BY <1>1, GatesInductive, PTL DEF Spec

-----------------------------------------------------------------------------
(* One comment per command *)

\* Nobody but the delivery worker writes, and between its look-up and its
\* write the comment it did not find is not created.
OneWriter ==
    /\ api.pc = "idle"
    /\ dw.pc = "write" /\ dw.comment = 0 => comments[dw.key[1]] = <<>>

OneInv == TypeOK /\ OneWriter /\ OneCommentPerCommand

LEMMA OneCommentInductive ==
    ASSUME "cancel" \notin Requests
    PROVE  /\ Init => OneInv
           /\ OneInv /\ [Next]_vars => OneInv'
<1>1. ASSUME Init PROVE OneInv
  <2>1. \A t \in Tasks : Len(comments[t]) <= 1
    BY <1>1 DEF Init
  <2> QED
    BY <1>1, <2>1, InitialTypes, IdleTypes DEF Init, OneInv, OneWriter, OneCommentPerCommand
<1>2. ASSUME OneInv, [Next]_vars PROVE OneInv'
  <2>0. /\ TypeOK /\ TypeOK' /\ dw \in Publisher /\ dw.key[1] \in Tasks /\ api.pc = "idle"
        /\ comments \in [Tasks -> Seq(Texts)]
        /\ \A t \in Tasks : Len(comments[t]) \in Nat /\ Len(comments[t]) <= 1
    <3>1. TypeOK /\ TypeOK' /\ OneWriter /\ OneCommentPerCommand
      BY <1>2, StepTypes DEF OneInv
    <3>2. \A t \in Tasks : Len(comments[t]) \in Nat
      BY <3>1, LenProperties DEF TypeOK
    <3> QED
      BY <3>1, <3>2, PublisherFields DEF TypeOK, OneWriter, OneCommentPerCommand
  <2>1. /\ ~CancelLookUp /\ ~CancelWrite /\ ~CancelEnds /\ ~CancelFails
        /\ \A t \in Tasks : ~CancelRequest(t)
    BY <2>0 DEF CancelLookUp, CancelWrite, CancelEnds, CancelFails, CancelRequest
  \* What each step does to the delivery worker and to the comments.
  <2>2. /\ api' = api
        /\ \/ dw' = dw /\ comments' = comments
           \/ dw'.pc \in {"lookup", "idle", "finish", "raise", "bind"} /\ comments' = comments
           \/ LookUpComment \/ WriteComment \/ ProviderFails
    <3>1. CASE CommandStep
      BY <3>1, <2>0, CommandEffect DEF HandStep
    <3>2. CASE DeliveryStep \/ CrashDelivery
      BY <2>0, <3>2, IdleTypes, FinishingType DEF DeliveryStep, LookUpComment, WriteComment,
         BindComment, ProviderFails, FinishDelivery, RecordDeliveryFailure, CrashDelivery
    <3>3. CASE ApiStep
      BY <2>1, <3>3 DEF ApiStep, ClosePullRequest, RetryRequest, RescheduleDelivery
    <3>4. ASSUME NEW k \in Keys, ClaimDelivery(k)
          PROVE  api' = api /\ dw'.pc = "lookup" /\ comments' = comments
      BY <3>4 DEF ClaimDelivery
    <3>5. ASSUME NEW k \in Keys, BackoffElapses(k)
          PROVE  api' = api /\ dw' = dw /\ comments' = comments
      BY <3>5 DEF BackoffElapses
    <3>6. ASSUME NEW t \in Tasks, ClaimTask(t) \/ SoftTimeout(t) \/ BeginTimeout(t)
          PROVE  api' = api /\ dw' = dw /\ comments' = comments
      BY <3>6 DEF ClaimTask, SoftTimeout, BeginTimeout
    <3>7. ASSUME \/ UNCHANGED vars \/ CrashExecution
                 \/ \E t \in Tasks : SessionEnds(t) \/ TimePasses(t)
          PROVE  api' = api /\ dw' = dw /\ comments' = comments
      BY <3>7 DEF vars, CrashExecution, SessionEnds, TimePasses
    <3> QED
      BY <1>2, <3>1, <3>2, <3>3, <3>4, <3>5, <3>6, <3>7 DEF Next
  <2>3. OneWriter
    BY <1>2 DEF OneInv
  <2>4. CASE \/ dw' = dw /\ comments' = comments
             \/ dw'.pc \in {"lookup", "idle", "finish", "raise", "bind"} /\ comments' = comments
    BY <2>0, <2>2, <2>3, <2>4 DEF OneInv, OneWriter, OneCommentPerCommand
  <2>5. CASE LookUpComment
    <3>1. /\ dw' = AfterLookup(dw) /\ comments' = comments
      BY <2>5 DEF LookUpComment
    <3>2. /\ dw'.key = dw.key
          /\ \/ dw'.pc = "finish"
             \/ dw'.pc = "write" /\ dw'.comment = Found(dw)
      BY <2>0, <3>1, LookedUp
    <3>3. Found(dw) = 0 => comments[dw.key[1]] = <<>>
      BY DEF Found
    <3> QED
      BY <2>0, <2>2, <3>1, <3>2, <3>3 DEF OneInv, OneWriter, OneCommentPerCommand
  <2>6. CASE WriteComment \/ ProviderFails
    <3>1. /\ dw'.pc # "write" /\ (comments' = comments \/ (dw.pc = "write" /\ comments' = Written(dw)))
      BY <2>0, <2>6 DEF WriteComment, ProviderFails, Publisher
    <3>2. CASE comments' = comments
      BY <2>0, <2>2, <3>1, <3>2 DEF OneInv, OneWriter, OneCommentPerCommand
    <3>3. CASE dw.pc = "write" /\ comments' = Written(dw)
      <4>1. /\ \A t \in Tasks \ {dw.key[1]} : comments'[t] = comments[t]
            /\ dw.comment = 0 => Len(comments'[dw.key[1]]) = Len(comments[dw.key[1]]) + 1
            /\ dw.comment # 0 => Len(comments'[dw.key[1]]) = Len(comments[dw.key[1]])
        BY <2>0, <3>3, WrittenComments
      <4>2. dw.comment = 0 => Len(comments[dw.key[1]]) = 0
        BY <2>3, <3>3 DEF OneWriter
      <4>3. \A t \in Tasks : Len(comments'[t]) <= 1
        BY <2>0, <4>1, <4>2
      <4> QED
        BY <2>0, <2>2, <3>1, <4>3 DEF OneInv, OneWriter, OneCommentPerCommand
    <3> QED
      BY <3>1, <3>2, <3>3
  <2> QED
    BY <2>2, <2>4, <2>5, <2>6
<1> QED
  BY <1>1, <1>2

\* Where no command is cancelled by hand (a manual cancellation writes the
\* comment beside the delivery worker), a command has one comment: the look-up
\* by the marker finds what a lost answer or a dead worker has left behind.
THEOREM OneCommentEach ==
    ASSUME "cancel" \notin Requests PROVE Spec => []OneCommentPerCommand
<1>1. OneInv => OneCommentPerCommand
  BY DEF OneInv
<1> QED
  BY <1>1, OneCommentInductive, PTL DEF Spec

-----------------------------------------------------------------------------
(* Commands run in their order *)

\* What holds where the API neither cancels nor retries commands: a command
\* in hand is open, one that a mandatory delivery is on its way for waits for
\* it, and the worker is past the older ones before it prepares a workspace.
InOrder ==
    /\ api.pc = "idle"
    /\ \A t \in Tasks : On(t) => task[t].status \in Active
    /\ \A k \in Keys : Waiting(k) => task[k[1]].status = "awaiting_delivery"
    /\ ew.pc \in {"prepare", "ready", "start"} =>
         \A o \in Tasks : o < ew.task => task[o].status \in Ends

OrderInv == TypeOK /\ Outcomes /\ InOrder /\ CommandsInOrder

LEMMA HandWaiting ==
    ASSUME TypeOK, Outcomes, HandStep, NEW k \in Keys, Waiting(k)'
    PROVE  \/ Waiting(k)
           \/ k[1] = ew.task /\ task'[ew.task].status = "awaiting_delivery"
<1>0. ew.row.status # "awaiting_delivery"
  BY DEF Outcomes, HandAttempt, HandStep
<1>1. CASE Concludes
  <2>1. PICK end \in Texts : Enqueue(<<ew.task, end, ew.row.attempt>>, TRUE)
    BY <1>1 DEF Concludes, Texts
  <2>2. Waiting(k) \/ k = <<ew.task, end, ew.row.attempt>>
    BY <2>1, HandQueue
  <2> QED
    BY <1>0, <1>1, <2>2 DEF Concludes
<1>2. CASE AsksPlaceholder
  <2>1. PICK text \in Texts : Enqueue(<<ew.task, text, ew.row.attempt>>, FALSE)
    BY <1>2 DEF AsksPlaceholder, Texts
  <2>2. Waiting(k) \/ k = <<ew.task, text, ew.row.attempt>>
    BY <2>1, HandQueue
  <2> QED
    BY <1>0, <1>2, <2>2 DEF AsksPlaceholder
<1>3. CASE Pauses \/ GoesOn
  <2>1. outbox' = outbox \/ Enqueue(<<ew.task, "queued", ew.row.attempt>>, FALSE)
    BY <1>3 DEF Pauses, GoesOn
  <2>2. CASE outbox' = outbox
    BY <2>2 DEF Waiting
  <2>3. CASE Enqueue(<<ew.task, "queued", ew.row.attempt>>, FALSE)
    <3>1. "queued" \in Texts /\ ~Mandatory("queued")
      BY TextKinds DEF Texts
    <3> QED
      BY <2>3, <3>1, HandQueue
  <2> QED
    BY <2>1, <2>2, <2>3
<1> QED
  BY <1>1, <1>2, <1>3 DEF HandStep

\* A step of the execution worker on the command in hand.
LEMMA CommandInOrder ==
    ASSUME OrderInv, HandStep
    PROVE  InOrder' /\ \A o \in Tasks : task[o].status \in Ends => task'[o].status \in Ends
<1>0. /\ TypeOK /\ Outcomes /\ InOrder /\ ew.task \in Tasks /\ On(ew.task)
      /\ task[ew.task].status \in Active /\ task \in [Tasks -> Row]
      /\ \A o \in Tasks \ {ew.task} : task'[o] = task[o]
  BY InHandTypes DEF OrderInv, HandStep, RowStep, InOrder, On, TypeOK
<1>1. \A o \in Tasks : task[o].status \in Ends => task'[o].status \in Ends
  BY <1>0 DEF Active, Ends
<1>2. ASSUME NEW t \in Tasks, On(t)' PROVE task'[t].status \in Active
  <2>1. GoesOn /\ t = ew.task
    BY <1>2, IdleTypes DEF HandStep, Concludes, AsksPlaceholder, Pauses, GoesOn, On
  <2> QED
    BY <1>0, <2>1 DEF GoesOn, Active
<1>3. ASSUME NEW k \in Keys, Waiting(k)' PROVE task'[k[1]].status = "awaiting_delivery"
  <2>1. CASE Waiting(k)
    <3>1. k[1] \in Tasks \ {ew.task} /\ task[k[1]].status = "awaiting_delivery"
      BY <1>0, <2>1, KeyFields DEF InOrder, Outcomes, WaitingIsSettledFirst
    <3> QED
      BY <1>0, <3>1
  <2>2. CASE k[1] = ew.task /\ task'[ew.task].status = "awaiting_delivery"
    BY <2>2
  <2> QED
    BY <1>0, <1>3, <2>1, <2>2, HandWaiting
<1>4. ASSUME ew'.pc \in {"prepare", "ready", "start"}
      PROVE  \A o \in Tasks : o < ew'.task => task'[o].status \in Ends
  <2>1. GoesOn
    BY <1>4, IdleTypes DEF HandStep, Concludes, AsksPlaceholder, Pauses
  <2>2. \A o \in Tasks : o < ew.task => task[o].status \in Ends
    <3>1. CASE ew.pc \in {"prepare", "ready"}
      BY <1>0, <3>1 DEF InOrder
    <3>2. CASE HasTurn
      <4>1. \A o \in Tasks : task[o].status \in Pending \cup Ends
        BY <1>0, RowFields
      <4> QED
        BY <3>2, <4>1 DEF HasTurn, OlderPending
    <3> QED
      BY <2>1, <3>1, <3>2 DEF GoesOn
  <2> QED
    BY <1>1, <2>1, <2>2 DEF GoesOn
<1>5. api'.pc = "idle"
  BY <1>0 DEF HandStep, InOrder
<1> QED
  BY <1>1, <1>2, <1>3, <1>4, <1>5 DEF InOrder

\* A step that leaves the worker alone or at rest, opens no delivery and does
\* not reopen what has ended.
LEMMA QuietInOrder ==
    ASSUME OrderInv, ew' = ew \/ ew'.pc = "idle", api' = api,
           \A t \in Tasks :
             \/ task'[t].status = task[t].status
             \/ task[t].status \in Active /\ task'[t].status = "running"
             \/ /\ task[t].status = "awaiting_delivery" /\ ~On(t)
                /\ \A k \in Keys : k[1] = t => ~Waiting(k)',
           \A k \in Keys : Waiting(k)' => Waiting(k)
    PROVE  InOrder' /\ \A o \in Tasks : task[o].status \in Ends => task'[o].status \in Ends
<1>0. InOrder /\ TypeOK
  BY DEF OrderInv
<1>1. \A o \in Tasks : task[o].status \in Ends => task'[o].status \in Ends
  BY DEF Ends, Active
<1>2. ASSUME NEW t \in Tasks, On(t)' PROVE task'[t].status \in Active
  <2>1. On(t) /\ task[t].status \in Active
    BY <1>0, <1>2 DEF On, InOrder
  <2> QED
    BY <2>1 DEF Active
<1>3. ASSUME NEW k \in Keys, Waiting(k)' PROVE task'[k[1]].status = "awaiting_delivery"
  <2>1. k[1] \in Tasks /\ task[k[1]].status = "awaiting_delivery"
    BY <1>0, <1>3, KeyFields DEF InOrder
  <2> QED
    BY <1>3, <2>1 DEF Active
<1>4. ASSUME ew'.pc \in {"prepare", "ready", "start"}
      PROVE  \A o \in Tasks : o < ew'.task => task'[o].status \in Ends
  BY <1>0, <1>1, <1>4 DEF InOrder
<1> QED
  BY <1>0, <1>1, <1>2, <1>3, <1>4 DEF InOrder

LEMMA StepInOrder ==
    ASSUME Requests \subseteq {"close"}, OrderInv, [Next]_vars
    PROVE  InOrder' /\ \A o \in Tasks : task[o].status \in Ends => task'[o].status \in Ends
<1> DEFINE Goal == /\ InOrder'
                   /\ \A o \in Tasks : task[o].status \in Ends => task'[o].status \in Ends
<1>0. /\ TypeOK /\ Outcomes /\ InOrder /\ task \in [Tasks -> Row] /\ dw \in Publisher
      /\ dw.key \in Keys /\ dw.key[1] \in Tasks
      /\ outbox \in [Keys -> Delivery]
  BY PublisherFields DEF OrderInv, TypeOK
<1>1. ASSUME CommandStep PROVE Goal
  BY <1>0, <1>1, CommandEffect, CommandInOrder
\* A step that leaves the rows of the commands and what is on its way alone.
<1>2. ASSUME \A t \in Tasks : task'[t].status = task[t].status,
             ew' = ew \/ ew'.pc = "idle", api' = api,
             \A k \in Keys : Waiting(k)' => Waiting(k)
      PROVE  Goal
  BY <1>2, QuietInOrder
<1>3. ASSUME NEW t \in Tasks, task[t].status \in Active, task'[t].status \in Active,
             \A o \in Tasks \ {t} : task'[o] = task[o],
             ew'.pc \in {"loaded", "timeout"}, ew'.task = t, outbox' = outbox, api' = api
      PROVE  Goal
  <2>1. \A o \in Tasks : task[o].status \in Ends => task'[o].status \in Ends
    BY <1>3 DEF Active, Ends
  <2>2. \A o \in Tasks : On(o)' => task'[o].status \in Active
    BY <1>3 DEF On
  <2>3. ASSUME NEW k \in Keys, Waiting(k)' PROVE task'[k[1]].status = "awaiting_delivery"
    <3>1. k[1] \in Tasks /\ task[k[1]].status = "awaiting_delivery"
      BY <1>0, <1>3, <2>3, KeyFields DEF Waiting, InOrder
    <3>2. k[1] # t
      BY <1>3, <3>1 DEF Active
    <3> QED
      BY <1>3, <3>1, <3>2
  <2> QED
    BY <1>0, <1>3, <2>1, <2>2, <2>3 DEF InOrder
<1>4. ASSUME NEW t \in Tasks, ClaimTask(t) PROVE Goal
  <2>1. /\ ew' = [pc |-> "loaded", task |-> t, row |-> task'[t]]
        /\ task[t].status \in Active /\ outbox' = outbox /\ api' = api
    BY <1>0, <1>4, ClaimEffect
  <2>2. task'[t].status = "running" /\ \A o \in Tasks \ {t} : task'[o] = task[o]
    BY <1>0, <1>4, ClaimEffect
  <2>3. ew'.pc = "loaded" /\ ew'.task = t /\ "running" \in Active
    BY <2>1 DEF Active
  <2> HIDE DEF Goal
  <2> QED
    BY <1>3, <2>1, <2>2, <2>3
<1>5. ASSUME NEW t \in Tasks, BeginTimeout(t) PROVE Goal
  <2>1. /\ ew' = [pc |-> "timeout", task |-> t, row |-> task[t]]
        /\ task[t].status \in Active /\ task' = task /\ outbox' = outbox /\ api' = api
    BY <1>5 DEF BeginTimeout, Watched
  <2>2. ew'.pc = "timeout" /\ ew'.task = t
    BY <2>1
  <2> HIDE DEF Goal
  <2> QED
    BY <1>3, <2>1, <2>2
<1>6. ASSUME NEW t \in Tasks, SoftTimeout(t) PROVE Goal
  <2>1. /\ task' = [task EXCEPT ![t] = [task[t] EXCEPT !.soft = TRUE]]
        /\ Enqueue(<<t, "soft_timeout", task[t].attempt>>, FALSE)
        /\ ew' = ew /\ api' = api
    BY <1>0, <1>6 DEF SoftTimeout
  <2>2. \A o \in Tasks : task'[o].status = task[o].status
    BY <1>0, <2>1, FlaggedFields
  <2>3. PICK k \in Keys : k = <<t, "soft_timeout", task[t].attempt>>
    BY <1>0, RowFields DEF Keys, Texts
  <2>4. \A j \in Keys : \/ outbox'[j] = outbox[j] \/ j = k
                        \/ outbox'[j].status = "superseded"
    BY <1>0, <2>1, <2>3, EnqueueRows
  <2>5. k[2] = "soft_timeout"
    BY <2>3
  <2>6. \A j \in Keys : Waiting(j)' => Waiting(j)
    BY <2>4, <2>5, TextKinds DEF Waiting
  <2> HIDE DEF Goal
  <2> QED
    BY <1>2, <2>1, <2>2, <2>6
<1>7. ASSUME \/ UNCHANGED vars \/ CrashExecution
             \/ LookUpComment \/ WriteComment \/ ProviderFails \/ CrashDelivery
             \/ \E t \in Tasks : SessionEnds(t) \/ TimePasses(t)
      PROVE  Goal
  <2>1. task' = task /\ outbox' = outbox /\ api' = api
    BY <1>7 DEF vars, CrashExecution, LookUpComment, WriteComment, ProviderFails,
       CrashDelivery, SessionEnds, TimePasses
  <2>2. ew' = ew \/ ew'.pc = "idle"
    BY <1>7, IdleTypes DEF vars, CrashExecution, LookUpComment, WriteComment, ProviderFails,
       CrashDelivery, SessionEnds, TimePasses
  <2>3. \A k \in Keys : Waiting(k)' => Waiting(k)
    BY <2>1 DEF Waiting
  <2> HIDE DEF Goal
  <2> QED
    BY <1>2, <2>1, <2>2, <2>3
<1>8. ASSUME NEW k \in Keys, ClaimDelivery(k) PROVE Goal
  <2>1. \A j \in Keys : \/ outbox'[j].status = outbox[j].status
                        \/ outbox[j].status \in {"queued", "running"}
    BY <1>0, <1>8, ClaimedRows
  <2>2. task' = task /\ ew' = ew /\ api' = api
    BY <1>8 DEF ClaimDelivery
  <2>3. \A j \in Keys : Waiting(j)' => Waiting(j)
    BY <2>1 DEF Waiting
  <2> HIDE DEF Goal
  <2> QED
    BY <1>2, <2>2, <2>3
<1>9. ASSUME NEW k \in Keys, BackoffElapses(k) PROVE Goal
  <2>1. /\ outbox' = [outbox EXCEPT ![k] = [outbox[k] EXCEPT !.due = TRUE]]
        /\ task' = task /\ ew' = ew /\ api' = api
    BY <1>0, <1>9 DEF BackoffElapses
  <2>2. \A j \in Keys : outbox'[j].status = outbox[j].status
    BY <1>0, <2>1 DEF Delivery
  <2>3. \A j \in Keys : Waiting(j)' => Waiting(j)
    BY <2>2 DEF Waiting
  <2> HIDE DEF Goal
  <2> QED
    BY <1>2, <2>1, <2>3
<1>10. ASSUME BindComment PROVE Goal
  <2> DEFINE f == Flush(task[dw.key[1]], dw.row, Published(dw))
  <2>1. task' = [task EXCEPT ![dw.key[1]] = f] /\ outbox' = outbox /\ ew' = ew /\ api' = api
    BY <1>10 DEF BindComment, Commit
  <2>2. f.status = task[dw.key[1]].status
    BY <1>0, BoundRow
  <2> HIDE DEF f
  <2>3. \A t \in Tasks : task'[t].status = task[t].status
    BY <1>0, <2>1, <2>2
  <2>4. \A k \in Keys : Waiting(k)' => Waiting(k)
    BY <2>1 DEF Waiting
  <2> HIDE DEF Goal
  <2> QED
    BY <1>2, <2>1, <2>3, <2>4
\* The delivery in hand is settled or given up: it was the one waited for.
<1>11. ASSUME FinishDelivery \/ RecordDeliveryFailure PROVE Goal
  <2>1. dw.pc # "idle" /\ ew' = ew /\ api' = api
    BY <1>11 DEF FinishDelivery, RecordDeliveryFailure
  <2>2. outbox[dw.key].status = "running"
    BY <1>0, <2>1 DEF Outcomes, DeliveryHeld
  <2>3. /\ \A j \in Keys \ {dw.key} : outbox'[j] = outbox[j]
        /\ \A o \in Tasks \ {dw.key[1]} : task'[o] = task[o]
        /\ \/ task'[dw.key[1]].status = task[dw.key[1]].status
           \/ /\ Mandatory(dw.key[2])
              /\ outbox'[dw.key].status \in {"delivered", "failed"}
    <3>1. CASE FinishDelivery
      <4> DEFINE s == Settled(dw.key, task[dw.key[1]])
      <4>1. /\ outbox' = [outbox EXCEPT ![dw.key] = Closed("delivered")]
            /\ task' = [task EXCEPT ![dw.key[1]] = s]
        BY <1>0, <3>1 DEF FinishDelivery
      <4>2. dw.key[2] = "working" \/ dw.key[2] \in Ends \/ s = task[dw.key[1]]
        BY <1>0, SettledRow
      <4> HIDE DEF s
      <4>3. outbox'[dw.key].status = "delivered"
            /\ \A j \in Keys \ {dw.key} : outbox'[j] = outbox[j]
        BY <1>0, <4>1, ClosedType
      <4> QED
        BY <1>0, <4>1, <4>2, <4>3, TextKinds
    <3>2. CASE RecordDeliveryFailure
      BY <1>0, <3>2, FailureRows
    <3> QED
      BY <1>11, <3>1, <3>2
  <2>4. \A j \in Keys : Waiting(j)' => Waiting(j)
    BY <1>0, <2>2, <2>3 DEF Waiting
  <2>5. CASE task'[dw.key[1]].status = task[dw.key[1]].status
    <3>1. \A t \in Tasks : task'[t].status = task[t].status
      BY <2>3, <2>5
    <3> HIDE DEF Goal
    <3> QED
      BY <1>2, <2>1, <2>4, <3>1
  <2>6. CASE Mandatory(dw.key[2]) /\ outbox'[dw.key].status \in {"delivered", "failed"}
    <3>1. Waiting(dw.key)
      BY <2>2, <2>6 DEF Waiting
    <3>2. /\ task[dw.key[1]].status = "awaiting_delivery" /\ ~On(dw.key[1])
          /\ \A k \in Keys \ {dw.key} : k[1] = dw.key[1] => ~Waiting(k)
      BY <1>0, <3>1 DEF InOrder, Outcomes, WaitingIsSettledFirst, OneWaiting
    <3>3. \A k \in Keys : k[1] = dw.key[1] => ~Waiting(k)'
      BY <2>4, <2>6, <3>2 DEF Waiting
    <3>4. \A t \in Tasks :
             \/ task'[t].status = task[t].status
             \/ /\ task[t].status = "awaiting_delivery" /\ ~On(t)
                /\ \A k \in Keys : k[1] = t => ~Waiting(k)'
      BY <2>3, <3>2, <3>3
    <3> QED
      BY <2>1, <2>4, <3>4, QuietInOrder
  <2> QED
    BY <2>3, <2>5, <2>6
<1>12. ASSUME ClosePullRequest PROVE Goal
  <2>1. /\ \A t \in Tasks :
             task'[t] = IF task[t].status \in Active
                        THEN [task[t] EXCEPT !.status = "running",
                                             !.stage = "cancellation_pending"]
                        ELSE task[t]
        /\ outbox' = outbox /\ ew' = ew /\ api' = api
    BY <1>12 DEF ClosePullRequest
  <2>2. ASSUME NEW t \in Tasks
        PROVE  \/ task'[t].status = task[t].status
               \/ task[t].status \in Active /\ task'[t].status = "running"
    <3>1. task[t] \in Row
      BY <1>0
    <3>2. [task[t] EXCEPT !.status = "running", !.stage = "cancellation_pending"].status
            = "running"
      BY <3>1 DEF Row
    <3> QED
      BY <2>1, <3>2
  <2>3. \A k \in Keys : Waiting(k)' => Waiting(k)
    BY <2>1 DEF Waiting
  <2> QED
    BY <2>1, <2>2, <2>3, QuietInOrder
<1>13. ApiStep => ClosePullRequest
  <2>1. "cancel" \notin Requests /\ "retry" \notin Requests /\ "reschedule" \notin Requests
    OBVIOUS
  <2> QED
    BY <1>0, <2>1 DEF ApiStep, InOrder, CancelLookUp, CancelWrite, CancelEnds, CancelFails,
       CancelRequest, RetryRequest, RescheduleDelivery
<1> HIDE DEF Goal
<1>14. Goal
  BY <1>1, <1>4, <1>5, <1>6, <1>7, <1>8, <1>9, <1>10, <1>11, <1>12, <1>13
     DEF Next, DeliveryStep
<1> QED
  BY <1>14 DEF Goal

LEMMA OrderInductive ==
    ASSUME Requests \subseteq {"close"}
    PROVE  /\ Init => OrderInv
           /\ OrderInv /\ [Next]_vars => OrderInv'
<1>0. "reschedule" \notin Requests
  OBVIOUS
<1>1. ASSUME Init PROVE OrderInv
  <2>1. ew.pc = "idle" /\ api.pc = "idle"
    BY <1>1, IdleTypes DEF Init
  <2>2. \A k \in Keys : ~Waiting(k)
    BY <1>1 DEF Init, Waiting
  <2>3. CommandsInOrder
    BY <1>1 DEF Init, CommandsInOrder
  <2> QED
    BY <1>0, <1>1, <2>1, <2>2, <2>3, InitialTypes, OutcomesInductive
       DEF OrderInv, InOrder, On
<1>2. ASSUME OrderInv, [Next]_vars PROVE OrderInv'
  <2>0. TypeOK /\ Outcomes /\ InOrder /\ CommandsInOrder
    BY <1>2 DEF OrderInv
  <2>1. TypeOK' /\ Outcomes'
    BY <1>0, <1>2, <2>0, StepTypes, OutcomesInductive
  <2>2. InOrder' /\ \A o \in Tasks : task[o].status \in Ends => task'[o].status \in Ends
    BY <1>2, StepInOrder
  <2>3. CommandsInOrder'
    <3> SUFFICES ASSUME NEW t \in Tasks, NEW o \in Tasks, o < t, runtime'[t] # "none"
                 PROVE  task[o].status \in Ends
      BY <2>2 DEF CommandsInOrder
    <3>1. CASE runtime[t] # "none"
      BY <2>0, <3>1 DEF CommandsInOrder
    <3>2. CASE runtime[t] = "none"
      <4>1. ew.pc = "start" /\ ew.task = t
        BY <1>2, <2>0, <3>2, SessionOpens
      <4> QED
        BY <2>0, <4>1 DEF InOrder
    <3> QED
      BY <3>1, <3>2
  <2> QED
    BY <2>1, <2>2, <2>3 DEF OrderInv
<1> QED
  BY <1>1, <1>2

\* Where commands are neither cancelled nor retried by hand, the session of a
\* command is requested only after every older one has ended, whatever crashes,
\* times out or is lost, and also when the pull request is closed.
THEOREM OrderKept ==
    ASSUME Requests \subseteq {"close"} PROVE Spec => []CommandsInOrder
<1>1. OrderInv => CommandsInOrder
  BY DEF OrderInv
<1> QED
  BY <1>1, OrderInductive, PTL DEF Spec
=============================================================================
