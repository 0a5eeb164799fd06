---------------------------- MODULE ReviewRequest ----------------------------
(***************************************************************************)
(* How the reviews of one pull request come about: the webhooks of the     *)
(* provider, the retry and rerun requests of operators and of the agent,   *)
(* and the mention tasks (application/services.py, application/worker.py). *)
(*                                                                         *)
(* Every request is one transaction on PostgreSQL (READ COMMITTED) that    *)
(* loads the context of the pull request, later takes the lock of its row, *)
(* and writes everything in one commit.  The objects of a database session *)
(* are not refreshed by a second SELECT, with or without FOR UPDATE: what  *)
(* a request knows of the context is what it first loaded.  Queries that   *)
(* filter in the database see what is committed.                           *)
(***************************************************************************)
EXTENDS Naturals, Sequences, FiniteSets

CONSTANTS
    Clients,       \* requests that are handled at the same time
    NoClient,
    MaxHead,       \* bound: commits pushed to the pull request
    MaxBase,       \* bound: base commits it is compared with
    MaxWebhooks,   \* bound: webhooks the provider sends
    Histories,     \* what the provider may have to tell of the pull request
    MaxRuns,       \* bound: review runs
    Requests       \* the delivery ids of the requests that are made

Webhooks == 1..MaxWebhooks
Ids == 1..MaxRuns

\* The delivery ids of the inbox: the provider's, review-retry:<run>,
\* dashboard-rerun:<key>, agent-review-action:<task>:<action>, agent-task:<task>.
Events == ({"webhook", "agent_retry", "agent_rerun", "mention"} \X Webhooks)
          \cup ({"retry", "rerun"} \X Ids)

ReviewActions == {"opened", "synchronize", "reopened"}
\* mention: a comment that an earlier release has turned into a mention task.
Actions == ReviewActions \cup {"closed", "edited", "command", "mention"}
Snapshot == [head : 1..MaxHead, base : 1..MaxBase, open : BOOLEAN]
Webhook == [action : Actions, pr : Snapshot]

ASSUME RequestAssumption ==
    /\ NoClient \notin Clients
    /\ MaxHead \in Nat \ {0} /\ MaxBase \in Nat \ {0}
    /\ MaxWebhooks \in Nat \ {0} /\ MaxRuns \in Nat
    /\ Requests \subseteq Events
    /\ Histories \subseteq {h \in Seq(Webhook) : h # <<>> /\ Len(h) <= MaxWebhooks}

VARIABLES
    sent,      \* external: the webhooks of the provider, in order; they
               \* arrive in any order and any number of times, or never
    context,   \* the PullRequestContext row
    inbox,     \* the ProviderEventInbox rows
    commands,  \* head_sha of the AgentTask a webhook has created (0: none)
    runs,      \* the ReviewRun rows in the order of their creation
    lock,      \* the transaction that has written or locked the context row
    tx         \* the transactions

vars == <<sent, context, inbox, commands, runs, lock, tx>>

-----------------------------------------------------------------------------
(* Values *)

NoContext == [head |-> 0, base |-> 0, open |-> FALSE]
Exists(row) == row.head # 0

\* working: waiting for its placeholder, queued, running, or waiting for the
\* delivery of its result; cancelling and superseding: awaiting_delivery of a
\* comment that says so.
Active == {"working", "cancelling", "superseding"}
Ends == {"completed", "failed", "cancelled", "superseded"}

NoEvent == <<"none", 0>>
IsRetry(e) == e[1] \in {"retry", "agent_retry"}
IsRerun(e) == e[1] \in {"rerun", "agent_rerun"}

\* back: the run had ended or was stopped, but its worker went on (history).
Run == [head : 1..MaxHead, base : 1..MaxBase, attempt : Ids, event : Events,
        source : 0..MaxRuns, status : Active \cup Ends, back : BOOLEAN]

Entry == [status : {"none", "queued", "processed", "rejected"},
          source : 0..MaxRuns, run : 0..MaxRuns]

\* context, source and status: what the transaction has loaded.  older: the
\* retry events of the source that were there before its own.  row, hits,
\* mark, new and end: what it will commit.
Tx == [pc : {"idle", "loaded", "commit"}, event : Events \cup {NoEvent},
       context : Snapshot \cup {NoContext}, source : 0..MaxRuns,
       status : Active \cup Ends, older : SUBSET Events,
       row : Snapshot \cup {NoContext}, hits : SUBSET Ids,
       mark : {"cancelling", "superseding"},
       run : 0..MaxRuns, new : BOOLEAN, end : Active \cup Ends]

IdleTx == [pc |-> "idle", event |-> NoEvent, context |-> NoContext,
           source |-> 0, status |-> "working", older |-> {},
           row |-> NoContext, hits |-> {}, mark |-> "cancelling",
           run |-> 0, new |-> FALSE, end |-> "working"]

-----------------------------------------------------------------------------
(* Rows *)

RunsOf(head) == {r \in DOMAIN runs : runs[r].head = head}
ActiveRuns == {r \in DOMAIN runs : runs[r].status \in Active}

\* get_latest_review_run_by_head (0: none)
LatestRun(head) ==
    IF RunsOf(head) = {} THEN 0
    ELSE CHOOSE r \in RunsOf(head) :
           \A q \in RunsOf(head) : runs[q].attempt <= runs[r].attempt

\* mutant: attempts are counted over all revisions.
NextAttemptOfAll(head) == Len(runs) + 1

\* mutant: attempts are counted from zero.
NextAttemptFromZero(head) ==
    IF LatestRun(head) = 0 THEN 0 ELSE runs[LatestRun(head)].attempt + 1

NextAttempt(head) ==
    IF LatestRun(head) = 0 THEN 1 ELSE runs[LatestRun(head)].attempt + 1

\* A flush writes the columns that differ from the loaded object.
Flush(stored, loaded, value) ==
    [c \in DOMAIN value |-> IF value[c] = loaded[c] THEN stored[c] ELSE value[c]]

\* mutant: two deliveries of an event are accepted at the same time.
Unrecorded(e) == inbox[e].status = "none"

\* The event is not in the inbox; an insert waits for a concurrent one of
\* the same delivery id and fails when that commits.
Insertable(e) == inbox[e].status = "none" /\ \A d \in Clients : tx[d].event # e

LockFree == lock = NoClient

-----------------------------------------------------------------------------
(* accept_provider_webhook *)

\* The event is new; it is inserted and the context is loaded.
ReceiveWebhook(c, d) ==
    /\ tx[c].pc = "idle" /\ d \in DOMAIN sent
    /\ sent[d].action \notin {"command", "mention"}
    /\ Insertable(<<"webhook", d>>)
    /\ tx' = [tx EXCEPT ![c] = [IdleTx EXCEPT !.pc = "loaded",
                                              !.event = <<"webhook", d>>,
                                              !.context = context]]
    /\ UNCHANGED <<sent, context, inbox, commands, runs, lock>>

\* mutant: only the reviews of the current revision are cancelled.
CancelledOfContext == {r \in ActiveRuns : runs[r].head = context.head}

\* cancel_active_review_runs_for_pr
CancelledByClose == ActiveRuns

\* supersede_older_review_runs
SupersededBy(head) == {r \in ActiveRuns : runs[r].head # head}

Flushed(c, d) ==
    [tx[c] EXCEPT !.pc = "commit",
                  !.row = Flush(context, tx[c].context, sent[d].pr)]

\* mutant: a webhook is coalesced with the latest run of any revision.
CoalescedWithLatest(t, head) ==
    [t EXCEPT !.run = Len(runs), !.new = (runs = <<>>), !.source = 0,
              !.hits = IF runs = <<>> THEN SupersededBy(head) ELSE {},
              !.mark = "superseding"]

\* handle_review_requested("automatic"): a revision that was reviewed before,
\* with whatever end, is not reviewed again.
Automatic(t, head) ==
    [t EXCEPT !.run = LatestRun(head), !.new = (LatestRun(head) = 0), !.source = 0,
              !.hits = IF LatestRun(head) = 0 THEN SupersededBy(head) ELSE {},
              !.mark = "superseding"]

\* upsert_pull_request_context, then the effects of the event.
ApplyWebhook(c, d) ==
    /\ tx[c].pc = "loaded" /\ tx[c].event = <<"webhook", d>> /\ LockFree
    /\ Exists(tx[c].context) \/ ~Exists(context)
    /\ sent[d].action \in ReviewActions =>
         sent[d].pr.open /\ (LatestRun(sent[d].pr.head) # 0 \/ Len(runs) < MaxRuns)
    /\ lock' = c
    /\ tx' = [tx EXCEPT ![c] =
         CASE sent[d].action \in ReviewActions ->
                Automatic(Flushed(c, d), sent[d].pr.head)
           [] sent[d].action = "closed" ->
                [Flushed(c, d) EXCEPT !.hits = CancelledByClose]
           [] OTHER -> Flushed(c, d)]
    /\ UNCHANGED <<sent, context, inbox, commands, runs>>

\* create_agent_task_from_event, with the revision of the context.
ReceiveCommand(d) ==
    /\ d \in DOMAIN sent /\ sent[d].action = "command"
    /\ Insertable(<<"webhook", d>>)
    /\ inbox' = [inbox EXCEPT ![<<"webhook", d>>].status = "queued"]
    /\ commands' = [commands EXCEPT ![d] = context.head]
    /\ UNCHANGED <<sent, context, runs, lock, tx>>
-----------------------------------------------------------------------------
(* _request_source_review_action *)

\* _get_source_review_action_availability, for a source with the loaded status
\* and the loaded context; the query for active runs sees what is committed.
Available(e, s, status, row) ==
    /\ status \in (IF IsRetry(e) THEN {"failed"} ELSE {"completed", "cancelled"})
    /\ row.open /\ row.head = runs[s].head /\ row.base = runs[s].base
    /\ \A r \in RunsOf(runs[s].head) \ {s} : runs[r].status \notin Active

RetryEvents(s) == {e \in Events : IsRetry(e) /\ inbox[e].source = s}

\* get_review_run_retry_availability: the newest retry event of the source
\* decides, which is the request's own unless a later one has been committed.
NewestRetry(t) == RetryEvents(t.source) \subseteq t.older

RejectedEvent(e, s) ==
    inbox' = [inbox EXCEPT ![e] = [status |-> "rejected", source |-> s, run |-> 0]]

\* The event is new; it is inserted, source and context are loaded and the
\* availability is checked.  A rejection is committed with its event.
BeginRequest(c, e, s) ==
    /\ tx[c].pc = "idle" /\ e \in Requests /\ s \in DOMAIN runs /\ Insertable(e)
    /\ IF Available(e, s, runs[s].status, context)
       THEN /\ tx' = [tx EXCEPT ![c] =
                 [IdleTx EXCEPT !.pc = "loaded", !.event = e, !.context = context,
                    !.source = s, !.status = runs[s].status,
                    !.older = RetryEvents(s) \cup
                              {tx[d].event : d \in {o \in Clients : tx[o].source = s}}]]
            /\ UNCHANGED inbox
       ELSE RejectedEvent(e, s) /\ UNCHANGED tx
    /\ UNCHANGED <<sent, context, commands, runs, lock>>

\* request_review_retry and request_review_rerun
RetryRequest(c, s) == BeginRequest(c, <<"retry", s>>, s)
RerunRequest(c, k, s) == BeginRequest(c, <<"rerun", k>>, s)

\* request_review_action_from_agent: the source is the latest run of the
\* revision the command was written for.
AgentRequest(c, kind, d) ==
    /\ commands[d] # 0
    /\ LET s == LatestRun(commands[d]) IN
       /\ s # 0
       /\ runs[s].status \in (IF kind = "agent_retry" THEN {"failed"}
                              ELSE {"completed", "cancelled"})
       /\ BeginRequest(c, <<kind, d>>, s)

\* mutant: the availability is not checked again under the lock.
CheckedBefore(t) == TRUE

\* handle_review_requested checks again under the lock.
StillAvailable(t) ==
    /\ Available(t.event, t.source, t.status, t.context)
    /\ IsRetry(t.event) => NewestRetry(t)

ApplyRequest(c) ==
    /\ tx[c].pc = "loaded" /\ tx[c].source # 0 /\ LockFree
    /\ IF StillAvailable(tx[c])
       THEN /\ Len(runs) < MaxRuns
            /\ tx' = [tx EXCEPT ![c] = [@ EXCEPT !.pc = "commit", !.row = context,
                                                 !.new = TRUE]]
            /\ lock' = c
            /\ UNCHANGED inbox
       ELSE /\ RejectedEvent(tx[c].event, tx[c].source)
            /\ tx' = [tx EXCEPT ![c] = IdleTx]
            /\ UNCHANGED lock
    /\ UNCHANGED <<sent, context, commands, runs>>

-----------------------------------------------------------------------------
(* process_next_agent_task, for a mention task *)

\* _task_context or _hydrate_task_context, which stores what the provider says.
\* The lock of the task keeps a second worker away from it (see Scheduler).
BeginMention(c, d) ==
    /\ tx[c].pc = "idle" /\ d \in DOMAIN sent /\ sent[d].action = "mention"
    /\ Insertable(<<"mention", d>>)
    /\ IF Exists(context) THEN UNCHANGED context
       ELSE LockFree /\ context' = sent[Len(sent)].pr
    /\ tx' = [tx EXCEPT ![c] = [IdleTx EXCEPT !.pc = "loaded",
                                              !.event = <<"mention", d>>,
                                              !.context = context']]
    /\ UNCHANGED <<sent, inbox, commands, runs, lock>>

\* handle_review_requested("mention") always makes a run.  After an error
\* _fail_agent_task makes one that has failed, for its comment.
ApplyMention(c) ==
    /\ tx[c].pc = "loaded" /\ tx[c].event[1] = "mention" /\ LockFree
    /\ tx[c].context.open /\ Len(runs) < MaxRuns
    /\ \E end \in {"working", "failed"} :
         tx' = [tx EXCEPT ![c] = [@ EXCEPT !.pc = "commit", !.row = context,
                                           !.new = TRUE, !.end = end]]
    /\ lock' = c
    /\ UNCHANGED <<sent, context, inbox, commands, runs>>

-----------------------------------------------------------------------------
(* The end of a transaction *)

Revision(t) ==
    CASE t.event[1] = "webhook" -> sent[t.event[2]].pr
      [] t.source # 0 -> runs[t.source]
      [] OTHER -> t.context

\* _create_review_run_record
NewRun(t) ==
    [head |-> Revision(t).head, base |-> Revision(t).base,
     attempt |-> NextAttempt(Revision(t).head), event |-> t.event,
     source |-> t.source, status |-> t.end, back |-> FALSE]

Written(t) ==
    LET marked == [r \in DOMAIN runs |->
                     IF r \in t.hits THEN [runs[r] EXCEPT !.status = t.mark]
                     ELSE runs[r]]
    IN  IF t.new THEN Append(marked, NewRun(t)) ELSE marked

Commit(c) ==
    /\ tx[c].pc = "commit"
    /\ context' = tx[c].row
    /\ runs' = Written(tx[c])
    /\ inbox' = [inbox EXCEPT ![tx[c].event] =
                   [status |-> IF tx[c].new \/ tx[c].run # 0 THEN "queued"
                               ELSE "processed",
                    source |-> tx[c].source,
                    run |-> IF tx[c].new THEN Len(runs) + 1 ELSE tx[c].run]]
    /\ lock' = NoClient
    /\ tx' = [tx EXCEPT ![c] = IdleTx]
    /\ UNCHANGED <<sent, commands>>

\* An error, a refused request or a crash: nothing is kept.
Rollback(c) ==
    /\ tx[c].pc # "idle"
    /\ lock' = IF lock = c THEN NoClient ELSE lock
    /\ tx' = [tx EXCEPT ![c] = IdleTx]
    /\ UNCHANGED <<sent, context, inbox, commands, runs>>

-----------------------------------------------------------------------------
(* cancel_review_run, and the workers of the runs (see ReviewExecution) *)

CancelRun(r) ==
    /\ r \in ActiveRuns
    /\ runs' = [runs EXCEPT ![r].status = "cancelling"]
    /\ UNCHANGED <<sent, context, inbox, commands, lock, tx>>

\* A worker may come late, after the API has cancelled the run.
RunEnds(r) ==
    /\ r \in ActiveRuns
    /\ \E end \in {"completed", "failed"} : runs' = [runs EXCEPT ![r].status = end]
    /\ UNCHANGED <<sent, context, inbox, commands, lock, tx>>

\* The end of a run is committed before its last comment is enqueued, and
\* before the worker decides to try again after an infrastructure error; and a
\* worker that loaded the run earlier writes running over any later status.
WorkerGoesOn(r) ==
    /\ r \in DOMAIN runs /\ ~runs[r].back
    /\ runs[r].status # "working"
    /\ runs' = [runs EXCEPT ![r] = [@ EXCEPT !.status = "working", !.back = TRUE]]
    /\ UNCHANGED <<sent, context, inbox, commands, lock, tx>>

CancellationDelivered(r) ==
    /\ r \in DOMAIN runs /\ runs[r].status \in {"cancelling", "superseding"}
    /\ runs' = [runs EXCEPT ![r].status =
                  IF @ = "cancelling" THEN "cancelled" ELSE "superseded"]
    /\ UNCHANGED <<sent, context, inbox, commands, lock, tx>>

-----------------------------------------------------------------------------

Init ==
    /\ sent \in Histories
    /\ context = NoContext
    /\ inbox = [e \in Events |-> [status |-> "none", source |-> 0, run |-> 0]]
    /\ commands = [d \in Webhooks |-> 0]
    /\ runs = <<>>
    /\ lock = NoClient
    /\ tx = [c \in Clients |-> IdleTx]

WebhookStep ==
    \/ \E d \in Webhooks : ReceiveCommand(d)
    \/ \E c \in Clients, d \in Webhooks : ReceiveWebhook(c, d) \/ ApplyWebhook(c, d)

RequestStep ==
    \E c \in Clients :
      \/ \E s \in Ids : RetryRequest(c, s)
      \/ \E s \in Ids, k \in Ids : RerunRequest(c, k, s)
      \/ \E d \in Webhooks, kind \in {"agent_retry", "agent_rerun"} :
           AgentRequest(c, kind, d)
      \/ \E d \in Webhooks : BeginMention(c, d)
      \/ ApplyRequest(c) \/ ApplyMention(c)

RunStep ==
    \E r \in Ids : CancelRun(r) \/ RunEnds(r) \/ WorkerGoesOn(r)
                 \/ CancellationDelivered(r)

Next ==
    \/ WebhookStep \/ RequestStep \/ RunStep
    \/ \E c \in Clients : Commit(c) \/ Rollback(c)

Spec == Init /\ [][Next]_vars

-----------------------------------------------------------------------------
(* Properties *)

\* Every row and every transaction keeps its shape.
TypeOK ==
    /\ sent \in Seq(Webhook) /\ Len(sent) <= MaxWebhooks
    /\ context \in Snapshot \cup {NoContext}
    /\ inbox \in [Events -> Entry]
    /\ commands \in [Webhooks -> 0..MaxHead]
    /\ runs \in Seq(Run) /\ Len(runs) <= MaxRuns
    /\ lock \in Clients \cup {NoClient}
    /\ tx \in [Clients -> Tx]

\* A revision is reviewed by one run at a time, whatever is retried and rerun
\* by whomever at the same moment.  A mention asks for a second review, and a
\* worker may bring back a run whose failure it has already committed.
OneReviewPerHead ==
    \A a, b \in DOMAIN runs :
        /\ a < b /\ runs[a].head = runs[b].head
        /\ runs[a].status = "working" /\ runs[b].status = "working"
        => runs[a].back \/ runs[b].event[1] = "mention"

\* A request makes at most one run, however often and however concurrently it
\* is delivered, and an event in the inbox has had its effect.
OneRunPerEvent ==
    \A r \in DOMAIN runs : inbox[runs[r].event].run = r

\* A revision that a recorded webhook asks to review has a run.
NoRevisionForgotten ==
    \A d \in DOMAIN sent :
        sent[d].action \in ReviewActions /\ inbox[<<"webhook", d>>].status # "none"
        => inbox[<<"webhook", d>>].run \in RunsOf(sent[d].pr.head)

\* When the webhook that closes the pull request is recorded, no review of it
\* goes on except one whose worker is just past the end of it.
CloseStopsReviews ==
    [][\A d \in DOMAIN sent :
         /\ sent[d].action = "closed"
         /\ inbox[<<"webhook", d>>].status = "none"
         /\ inbox'[<<"webhook", d>>].status # "none"
         => \A r \in DOMAIN runs' :
              runs'[r].status = "working" => runs'[r].back]_vars

Ledger == INSTANCE ReviewLedger
    WITH Event <- Events, Revisions <- 1..MaxHead,
         answered <- {e \in Events : inbox[e].status # "none"},
         reviews <- [r \in DOMAIN runs |->
                       [event |-> runs[r].event, head |-> runs[r].head,
                        attempt |-> runs[r].attempt]]

\* Whatever transactions overlap, fail or are repeated, the committed rows go
\* through the steps of ReviewLedger: an event is answered once and for all, and
\* a run is only ever added, with the next number of its revision.
ImplementsLedger == Ledger!Spec

\* A rerun is refused for a revision that is no longer the current one and for
\* a closed pull request: what the lock of the context row protects when a
\* rerun is about to be committed is open and at the revision of its source.
RerunIsCurrent ==
    \A c \in Clients :
        tx[c].pc = "commit" /\ IsRerun(tx[c].event)
        => context.open /\ context.head = runs[tx[c].source].head
=============================================================================
