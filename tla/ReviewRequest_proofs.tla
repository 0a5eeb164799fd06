------------------------- MODULE ReviewRequest_proofs -------------------------
(***************************************************************************)
(* Theorems about ReviewRequest, for any number of clients, histories and  *)
(* requests, and the refinement of ReviewLedger.                           *)
(***************************************************************************)
EXTENDS ReviewRequest, FiniteSetTheorems, SequenceTheorems, TLAPS

-----------------------------------------------------------------------------
(* The inductive invariant *)

\* The numbers of the reviews of a revision are at most their count, and the
\* latest of them has it.
Counted ==
    \A h \in 1..MaxHead :
        /\ \A q \in RunsOf(h) : runs[q].attempt <= Cardinality(RunsOf(h))
        /\ RunsOf(h) # {} =>
             \E m \in RunsOf(h) : runs[m].attempt = Cardinality(RunsOf(h))

\* Every run comes from an event that has been answered with it.
Caused ==
    \A r \in DOMAIN runs :
        inbox[runs[r].event].run = r /\ inbox[runs[r].event].status # "none"

\* Requests that are under way are about different events.
Distinct ==
    \A c, d \in Clients :
        c # d /\ tx[c].pc # "idle" => tx[c].event # tx[d].event

\* A run that works, and was not brought back by its worker, is the last one of
\* its revision but for mentions.
Sequential ==
    \A a, b \in DOMAIN runs :
        a < b /\ runs[a].head = runs[b].head /\ runs[a].status = "working"
        => runs[a].back \/ runs[b].event[1] = "mention"

\* What holds of a transaction that is about to commit.
CommitInv(c) ==
    LET t == tx[c] IN
    /\ lock = c /\ t.row \in Snapshot
    /\ t.new =>
         /\ Len(runs) < MaxRuns
         /\ t.event[1] # "webhook" /\ t.source = 0 => t.context \in Snapshot
         /\ \A r \in RunsOf(Revision(t).head) :
              runs[r].status = "working" => runs[r].back \/ t.event[1] = "mention"
    /\ \A d \in DOMAIN sent : t.event = <<"webhook", d>> =>
         /\ sent[d].action \in ReviewActions =>
              t.new \/ t.run \in RunsOf(sent[d].pr.head)
         /\ sent[d].action = "closed" =>
              /\ ~t.new
              /\ \A r \in DOMAIN runs :
                   runs[r].status = "working" => runs[r].back \/ r \in t.hits

\* What holds of a transaction.
TxInv(c) ==
    LET t == tx[c] IN
    /\ t.pc = "idle" => t = IdleTx
    /\ t.pc # "idle" => t.event \in Events /\ inbox[t.event].status = "none"
    /\ t.pc # "idle" /\ t.event[1] = "webhook" =>
         t.event[2] \in DOMAIN sent /\ t.source = 0
    /\ t.source # 0 =>
         /\ t.source \in DOMAIN runs
         /\ runs[t.source].status = "working" => runs[t.source].back
    /\ Exists(t.context) => Exists(context)
    /\ t.pc = "loaded" => ~t.new
    /\ t.pc = "commit" => CommitInv(c)

RequestInv ==
    /\ Counted /\ Caused /\ Distinct /\ Sequential /\ NoRevisionForgotten
    /\ \A c \in Clients : TxInv(c)

-----------------------------------------------------------------------------
(* Rows *)

\* A function from 1..n is a sequence.
LEMMA FunctionIsSeq ==
    ASSUME NEW S, NEW n \in Nat, NEW f \in [1..n -> S]
    PROVE  f \in Seq(S) /\ Len(f) = n
  OBVIOUS

\* The runs are numbered by their creation.
LEMMA RunTypes ==
    ASSUME TypeOK
    PROVE  /\ Len(runs) \in Nat /\ Len(runs) <= MaxRuns
           /\ DOMAIN runs = 1..Len(runs) /\ DOMAIN runs \subseteq Ids
           /\ runs \in [1..Len(runs) -> Run]
           /\ \A r \in DOMAIN runs : r \in Nat /\ runs[r] \in Run
  BY RequestAssumption, LenProperties DEF TypeOK, Ids

\* The runs of a revision can be counted.
LEMMA RunsOfFinite ==
    ASSUME TypeOK, NEW h
    PROVE  /\ IsFiniteSet(RunsOf(h)) /\ Cardinality(RunsOf(h)) \in Nat
           /\ Cardinality(RunsOf(h)) <= Len(runs)
           /\ RunsOf(h) \subseteq DOMAIN runs
           /\ Cardinality(RunsOf(h)) = 0 <=> RunsOf(h) = {}
  <1>1. RunsOf(h) \in SUBSET (1..Len(runs)) /\ Len(runs) \in Nat
    BY RunTypes DEF RunsOf
  <1>2. IsFiniteSet(1..Len(runs)) /\ Cardinality(1..Len(runs)) = Len(runs)
    <2>1. 1 \in Int /\ Len(runs) \in Int /\ Len(runs) >= 0
      BY <1>1
    <2>2. /\ IsFiniteSet(1..Len(runs))
          /\ Cardinality(1..Len(runs)) = IF 1 > Len(runs) THEN 0 ELSE Len(runs) - 1 + 1
      BY <2>1, FS_Interval
    <2> QED BY <2>1, <2>2
  <1>3. IsFiniteSet(RunsOf(h)) /\ Cardinality(RunsOf(h)) <= Len(runs)
    BY <1>1, <1>2, FS_Subset
  <1> QED BY <1>1, <1>3, FS_CardinalityType, FS_EmptySet, RunTypes

\* get_latest_review_run_by_head finds a run with the highest number, which
\* is the number of the runs of the revision.
LEMMA Latest ==
    ASSUME TypeOK, Counted, NEW h \in 1..MaxHead
    PROVE  /\ LatestRun(h) = 0 <=> RunsOf(h) = {}
           /\ LatestRun(h) # 0 => LatestRun(h) \in RunsOf(h)
           /\ LatestRun(h) \in 0..Len(runs)
           /\ NextAttempt(h) = Cardinality(RunsOf(h)) + 1
  <1>1. CASE RunsOf(h) = {}
    <2>1. LatestRun(h) = 0 /\ NextAttempt(h) = 1
      BY <1>1 DEF LatestRun, NextAttempt
    <2>2. Cardinality(RunsOf(h)) = 0
      BY <1>1, RunsOfFinite
    <2> QED BY <1>1, <2>1, <2>2, RunTypes
  <1>2. CASE RunsOf(h) # {}
    <2> DEFINE P(r) == \A q \in RunsOf(h) : runs[q].attempt <= runs[r].attempt
    <2>1. PICK m \in RunsOf(h) : runs[m].attempt = Cardinality(RunsOf(h))
      BY <1>2 DEF Counted
    <2>2. P(m)
      BY <2>1 DEF Counted
    <2>3. LatestRun(h) = CHOOSE r \in RunsOf(h) : P(r)
      BY <1>2 DEF LatestRun
    <2>4. LatestRun(h) \in RunsOf(h) /\ P(LatestRun(h))
      BY <2>1, <2>2, <2>3
    <2>5. runs[LatestRun(h)].attempt = Cardinality(RunsOf(h))
      <3>1. /\ runs[LatestRun(h)].attempt \in Nat
            /\ runs[LatestRun(h)].attempt <= Cardinality(RunsOf(h))
        BY <2>4, RunTypes, RunsOfFinite DEF Counted, Run, Ids
      <3>2. Cardinality(RunsOf(h)) <= runs[LatestRun(h)].attempt
        BY <2>1, <2>4
      <3> QED BY <3>1, <3>2, RunsOfFinite
    <2>6. LatestRun(h) \in 1..Len(runs)
      BY <2>4, RunTypes, RunsOfFinite
    <2> QED BY <1>2, <2>4, <2>5, <2>6, RunTypes DEF NextAttempt
  <1> QED BY <1>1, <1>2

-----------------------------------------------------------------------------
(* Steps that add no run *)

\* A run keeps what it is about, and works only if it did or is brought back.
SameRun(r) ==
    /\ runs'[r].head = runs[r].head /\ runs'[r].attempt = runs[r].attempt
    /\ runs'[r].event = runs[r].event /\ (runs[r].back => runs'[r].back)
    /\ runs'[r].status = "working" => runs'[r].back \/ runs[r].status = "working"

SameRuns == DOMAIN runs' = DOMAIN runs /\ \A r \in DOMAIN runs : SameRun(r)

\* What is answered stays as it is.
Answers(e) ==
    /\ inbox[e].status = "none"
    /\ \A f \in Events \ {e} : inbox'[f] = inbox[f]

\* What holds of the webhooks that have arrived.
LEMMA WebhookTypes ==
    ASSUME TypeOK, NEW d \in DOMAIN sent
    PROVE  /\ d \in Webhooks /\ d \in Nat /\ sent[d] \in Webhook /\ sent[d].pr \in Snapshot
           /\ sent[d].pr.head \in 1..MaxHead /\ sent[d].pr.base \in 1..MaxBase
           /\ sent[d].pr.open \in BOOLEAN /\ Exists(sent[d].pr)
           /\ <<"webhook", d>> \in Events
  <1>1. d \in 1..Len(sent) /\ Len(sent) \in Nat /\ sent[d] \in Webhook
    BY LenProperties DEF TypeOK
  <1>2. d \in Webhooks /\ d \in Nat
    BY <1>1, RequestAssumption DEF TypeOK, Webhooks
  <1>3. sent[d].pr \in Snapshot
    BY <1>1 DEF Webhook
  <1>4. /\ sent[d].pr.head \in 1..MaxHead /\ sent[d].pr.base \in 1..MaxBase
        /\ sent[d].pr.open \in BOOLEAN
    BY <1>3 DEF Snapshot
  <1> QED BY <1>1, <1>2, <1>3, <1>4 DEF Exists, Events

\* Runs stay with their revision.
LEMMA SameRunsOf ==
    ASSUME SameRuns PROVE \A h : RunsOf(h)' = RunsOf(h)
  BY DEF SameRuns, SameRun, RunsOf

\* A step that adds no run and answers at most one event.
LEMMA QuietStep ==
    ASSUME TypeOK, Counted, Caused, Sequential, NoRevisionForgotten,
           SameRuns, UNCHANGED sent,
           UNCHANGED inbox \/
             \E e \in Events :
               /\ Answers(e)
               /\ \A d \in DOMAIN sent :
                    e = <<"webhook", d>> /\ sent[d].action \in ReviewActions
                    => inbox'[e].run \in RunsOf(sent[d].pr.head)
    PROVE  Counted' /\ Caused' /\ Sequential' /\ NoRevisionForgotten'
  <1>1. Counted'
    <2> SUFFICES ASSUME NEW h \in 1..MaxHead
                 PROVE  /\ \A q \in RunsOf(h)' : runs'[q].attempt <= Cardinality(RunsOf(h)')
                        /\ RunsOf(h)' # {} =>
                             \E m \in RunsOf(h)' : runs'[m].attempt = Cardinality(RunsOf(h)')
      BY DEF Counted
    <2>1. RunsOf(h)' = RunsOf(h) /\ \A q \in RunsOf(h) : runs'[q].attempt = runs[q].attempt
      BY SameRunsOf DEF SameRuns, SameRun, RunsOf
    <2> QED BY <2>1 DEF Counted
  <1>2. \A r \in DOMAIN runs : runs[r].event \in Events
    BY RunTypes DEF Run
  <1>3. \A e \in Events : inbox[e].status # "none" => inbox'[e] = inbox[e]
    BY DEF Answers
  <1>4. Caused'
    <2> SUFFICES ASSUME NEW r \in DOMAIN runs'
                 PROVE  inbox'[runs'[r].event].run = r /\ inbox'[runs'[r].event].status # "none"
      BY DEF Caused
    <2>1. r \in DOMAIN runs /\ runs'[r].event = runs[r].event
      BY DEF SameRuns, SameRun
    <2> QED BY <2>1, <1>2, <1>3 DEF Caused
  <1>5. Sequential'
    BY DEF Sequential, SameRuns, SameRun
  <1>6. NoRevisionForgotten'
    <2> SUFFICES ASSUME NEW d \in DOMAIN sent, sent[d].action \in ReviewActions,
                        inbox'[<<"webhook", d>>].status # "none"
                 PROVE  inbox'[<<"webhook", d>>].run \in RunsOf(sent[d].pr.head)
      BY SameRunsOf DEF NoRevisionForgotten
    <2>1. <<"webhook", d>> \in Events
      BY WebhookTypes
    <2>2. CASE inbox[<<"webhook", d>>].status # "none"
      BY <2>1, <2>2, <1>3 DEF NoRevisionForgotten
    <2>3. CASE inbox[<<"webhook", d>>].status = "none"
      BY <2>1, <2>3 DEF Answers
    <2> QED BY <2>2, <2>3
  <1> QED BY <1>1, <1>4, <1>5, <1>6

\* A transaction that a step of another one leaves alone.
LEMMA KeepTx ==
    ASSUME TypeOK, NEW c \in Clients, TxInv(c), tx'[c] = tx[c], UNCHANGED sent,
           tx[c].pc # "idle" => inbox'[tx[c].event].status = "none",
           Exists(context) => Exists(context'),
           DOMAIN runs \subseteq DOMAIN runs', \A r \in DOMAIN runs : SameRun(r),
           tx[c].pc = "commit" => lock' = lock /\ SameRuns /\ Len(runs') = Len(runs)
    PROVE  TxInv(c)'
  <1>1. tx[c].source # 0 =>
          /\ tx[c].source \in DOMAIN runs'
          /\ runs'[tx[c].source].status = "working" => runs'[tx[c].source].back
    BY DEF TxInv, SameRun
  <1>2. ASSUME tx[c].pc = "commit" PROVE CommitInv(c)'
    <2>1. CommitInv(c)
      BY <1>2 DEF TxInv
    <2>2. lock' = c /\ tx'[c].row \in Snapshot
      BY <1>2, <2>1 DEF CommitInv
    <2>3. \A h : RunsOf(h)' = RunsOf(h)
      BY <1>2, SameRunsOf
    <2>4. ASSUME tx[c].new
          PROVE  /\ Len(runs') < MaxRuns
                 /\ tx[c].event[1] # "webhook" /\ tx[c].source = 0 =>
                      tx[c].context \in Snapshot
                 /\ \A r \in RunsOf(Revision(tx[c]).head)' :
                      runs'[r].status = "working" =>
                        runs'[r].back \/ tx[c].event[1] = "mention"
      <3>1. Revision(tx[c]).head' = Revision(tx[c]).head
        <4>1. CASE tx[c].event[1] = "webhook"
          BY <4>1 DEF Revision
        <4>2. CASE tx[c].event[1] # "webhook" /\ tx[c].source # 0
          <5>1. Revision(tx[c]) = runs[tx[c].source] /\ Revision(tx[c])' = runs'[tx[c].source]
            BY <4>2 DEF Revision
          <5> QED BY <4>2, <5>1 DEF TxInv, SameRun
        <4>3. CASE tx[c].event[1] # "webhook" /\ tx[c].source = 0
          BY <4>3 DEF Revision
        <4> QED BY <4>1, <4>2, <4>3
      <3>2. \A r \in RunsOf(Revision(tx[c]).head) :
              runs[r].status = "working" => runs[r].back \/ tx[c].event[1] = "mention"
        BY <2>1, <2>4 DEF CommitInv
      <3>3. RunsOf(Revision(tx[c]).head)' = RunsOf(Revision(tx[c]).head)
        BY <3>1, <2>3 DEF RunsOf
      <3>4. \A r \in RunsOf(Revision(tx[c]).head)' : r \in DOMAIN runs /\ SameRun(r)
        BY <3>3 DEF RunsOf
      <3>5. \A r \in RunsOf(Revision(tx[c]).head)' :
              runs'[r].status = "working" => runs'[r].back \/ tx[c].event[1] = "mention"
        BY <3>2, <3>3, <3>4 DEF SameRun
      <3> QED BY <1>2, <2>1, <2>4, <3>5 DEF CommitInv
    <2>5. ASSUME NEW d \in DOMAIN sent, tx[c].event = <<"webhook", d>>
          PROVE  /\ sent[d].action \in ReviewActions =>
                      tx[c].new \/ tx[c].run \in RunsOf(sent[d].pr.head)'
                 /\ sent[d].action = "closed" =>
                      /\ ~tx[c].new
                      /\ \A r \in DOMAIN runs' :
                           runs'[r].status = "working" => runs'[r].back \/ r \in tx[c].hits
      BY <1>2, <2>1, <2>3, <2>5 DEF CommitInv, SameRuns, SameRun
    <2> QED BY <2>2, <2>4, <2>5 DEF CommitInv
  <1> QED BY <1>1, <1>2 DEF TxInv

-----------------------------------------------------------------------------
(* Transactions *)

LEMMA Idle == IdleTx \in Tx /\ IdleTx.pc = "idle" /\ IdleTx.event = NoEvent
  BY RequestAssumption DEF IdleTx, Tx, Active, Ends

LEMMA NoEventIsNone == NoEvent \notin Events
  BY DEF NoEvent, Events

\* A step of transaction c, or of none, that adds no run.
LEMMA KeepsInv ==
    ASSUME TypeOK, RequestInv, NEW c, \A d \in Clients \ {c} : tx'[d] = tx[d],
           UNCHANGED sent, SameRuns, Len(runs') = Len(runs),
           UNCHANGED inbox \/
             \E e \in Events :
               /\ Answers(e)
               /\ \A d \in Clients \ {c} : tx[d].pc # "idle" => tx[d].event # e
               /\ \A d \in DOMAIN sent :
                    e = <<"webhook", d>> /\ sent[d].action \in ReviewActions
                    => inbox'[e].run \in RunsOf(sent[d].pr.head),
           Exists(context) => Exists(context'),
           \A d \in Clients \ {c} : tx[d].pc = "commit" => lock' = lock,
           c \in Clients => TxInv(c)',
           c \in Clients /\ tx'[c].pc # "idle" =>
             \A d \in Clients \ {c} : tx[d].pc # "idle" => tx'[c].event # tx[d].event
    PROVE  RequestInv'
  <1>1. Counted' /\ Caused' /\ Sequential' /\ NoRevisionForgotten'
    BY QuietStep DEF RequestInv
  <1>2. ASSUME NEW d \in Clients \ {c} PROVE TxInv(d)'
    <2>1. TxInv(d) /\ tx'[d] = tx[d]
      BY DEF RequestInv
    <2>2. tx[d].pc # "idle" => tx[d].event \in Events /\ inbox[tx[d].event].status = "none"
      BY <2>1 DEF TxInv
    <2>3. tx[d].pc # "idle" => inbox'[tx[d].event].status = "none"
      BY <2>2 DEF Answers
    <2>4. DOMAIN runs \subseteq DOMAIN runs' /\ \A r \in DOMAIN runs : SameRun(r)
      BY DEF SameRuns
    <2> QED BY <2>1, <2>3, <2>4, KeepTx
  <1>3. \A d \in Clients : TxInv(d)'
    BY <1>2
  <1>4. \A d \in Clients : IF tx'[d].pc = "idle" THEN tx'[d].event = NoEvent
                           ELSE tx'[d].event \in Events
    BY <1>3, Idle DEF TxInv
  <1>5. Distinct'
    BY <1>4, NoEventIsNone DEF RequestInv, Distinct
  <1> QED BY <1>1, <1>3, <1>5 DEF RequestInv

\* One transaction changes.
LEMMA OneTx ==
    ASSUME TypeOK, NEW c \in Clients, NEW t \in Tx, tx' = [tx EXCEPT ![c] = t]
    PROVE  /\ tx' \in [Clients -> Tx] /\ tx'[c] = t
           /\ \A d \in Clients \ {c} : tx'[d] = tx[d]
  BY DEF TypeOK

\* A transaction that ends, or has not begun.
LEMMA IdleInv ==
    ASSUME NEW c \in Clients, tx'[c] = IdleTx PROVE TxInv(c)'
  BY DEF TxInv, IdleTx, Exists, NoContext

LEMMA RunsUnchanged ==
    ASSUME UNCHANGED runs PROVE SameRuns /\ Len(runs') = Len(runs)
  BY DEF SameRuns, SameRun

\* A transaction begins.
LEMMA Begins ==
    ASSUME TypeOK, RequestInv, NEW c \in Clients, NEW t \in Tx,
           tx' = [tx EXCEPT ![c] = t], t.pc = "loaded", t.event \in Events,
           Insertable(t.event), ~t.new, t.context = context',
           t.event[1] = "webhook" => t.event[2] \in DOMAIN sent /\ t.source = 0,
           t.source # 0 => /\ t.source \in DOMAIN runs
                           /\ runs[t.source].status # "working",
           context' \in Snapshot \cup {NoContext}, Exists(context) => Exists(context'),
           UNCHANGED <<sent, inbox, commands, runs, lock>>
    PROVE  TypeOK' /\ RequestInv'
  <1>1. TypeOK'
    BY OneTx DEF TypeOK
  <1>2. TxInv(c)'
    BY OneTx DEF TxInv, Insertable
  <1> QED BY <1>1, <1>2, OneTx, KeepsInv, RunsUnchanged DEF Insertable

-----------------------------------------------------------------------------
(* The actions *)

\* accept_provider_webhook begins.
LEMMA ReceiveWebhookStep ==
    ASSUME TypeOK, RequestInv, NEW c \in Clients, NEW d \in Webhooks, ReceiveWebhook(c, d)
    PROVE  TypeOK' /\ RequestInv'
  <1> DEFINE t == [IdleTx EXCEPT !.pc = "loaded", !.event = <<"webhook", d>>,
                                 !.context = context]
  <1>1. d \in DOMAIN sent /\ <<"webhook", d>> \in Events
    BY WebhookTypes DEF ReceiveWebhook
  <1>2. t \in Tx
    BY <1>1, Idle DEF Tx, TypeOK
  <1>3. /\ t.pc = "loaded" /\ t.event = <<"webhook", d>> /\ t.context = context
        /\ ~t.new /\ t.source = 0
    BY DEF IdleTx
  <1>4. /\ tx' = [tx EXCEPT ![c] = t] /\ Insertable(<<"webhook", d>>)
        /\ UNCHANGED <<sent, context, inbox, commands, runs, lock>>
    BY DEF ReceiveWebhook
  <1> HIDE DEF t
  <1>5. context' \in Snapshot \cup {NoContext}
    BY <1>4 DEF TypeOK
  <1>6. /\ t.event \in Events /\ Insertable(t.event)
        /\ t.event[1] = "webhook" => t.event[2] \in DOMAIN sent /\ t.source = 0
        /\ t.source # 0 => t.source \in DOMAIN runs /\ runs[t.source].status # "working"
    BY <1>1, <1>3, <1>4
  <1>7. t.context = context' /\ (Exists(context) => Exists(context'))
    BY <1>3, <1>4
  <1> QED BY <1>2, <1>3, <1>4, <1>5, <1>6, <1>7, Begins

\* An event that asks for no run of its own is answered, outside of the
\* transactions that are under way, or by transaction c.
LEMMA AnswerStep ==
    ASSUME TypeOK, RequestInv, NEW c, NEW e \in Events, NEW entry \in Entry,
           inbox[e].status = "none", inbox' = [inbox EXCEPT ![e] = entry],
           \A d \in Clients \ {c} : tx[d].pc # "idle" => tx[d].event # e,
           \A d \in DOMAIN sent : e = <<"webhook", d>> => sent[d].action \notin ReviewActions,
           commands' \in [Webhooks -> 0..MaxHead],
           \/ UNCHANGED tx /\ c \notin Clients
           \/ c \in Clients /\ tx' = [tx EXCEPT ![c] = IdleTx],
           UNCHANGED <<sent, context, runs, lock>>
    PROVE  TypeOK' /\ RequestInv'
  <1>1. \A d \in Clients \ {c} : tx'[d] = tx[d]
    BY Idle, OneTx
  <1>2. tx' \in [Clients -> Tx]
    BY Idle, OneTx DEF TypeOK
  <1>3. inbox' \in [Events -> Entry] /\ Answers(e)
    BY DEF TypeOK, Answers
  <1>4. TypeOK'
    BY <1>2, <1>3 DEF TypeOK
  <1>5. c \in Clients => tx'[c] = IdleTx
    BY Idle, OneTx
  <1>6. c \in Clients => TxInv(c)' /\ tx'[c].pc = "idle"
    BY <1>5, IdleInv, Idle
  <1> QED BY <1>1, <1>3, <1>4, <1>6, KeepsInv, RunsUnchanged

\* create_agent_task_from_event
LEMMA ReceiveCommandStep ==
    ASSUME TypeOK, RequestInv, NEW d \in Webhooks, ReceiveCommand(d)
    PROVE  TypeOK' /\ RequestInv'
  <1> DEFINE e == <<"webhook", d>>
  <1>1. /\ d \in DOMAIN sent /\ sent[d].action = "command" /\ Insertable(e)
        /\ inbox' = [inbox EXCEPT ![e].status = "queued"]
        /\ commands' = [commands EXCEPT ![d] = context.head]
        /\ UNCHANGED <<sent, context, runs, lock, tx>>
    BY DEF ReceiveCommand
  <1>2. e \in Events
    BY <1>1, WebhookTypes
  <1>3. [inbox[e] EXCEPT !.status = "queued"] \in Entry
    BY <1>2 DEF TypeOK, Entry
  <1>4. inbox' = [inbox EXCEPT ![e] = [inbox[e] EXCEPT !.status = "queued"]]
    BY <1>1
  <1>5. context.head \in 0..MaxHead
    BY RequestAssumption DEF TypeOK, Snapshot, NoContext
  <1>6. commands' \in [Webhooks -> 0..MaxHead]
    BY <1>1, <1>5 DEF TypeOK
  <1>7. \A f \in DOMAIN sent : e = <<"webhook", f>> => sent[f].action \notin ReviewActions
    BY <1>1 DEF ReviewActions
  <1>8. NoClient \notin Clients
    BY RequestAssumption
  <1>9. inbox[e].status = "none" /\ \A f \in Clients : tx[f].event # e
    BY <1>1 DEF Insertable
  <1> HIDE DEF e
  <1> QED BY <1>1, <1>2, <1>3, <1>4, <1>6, <1>7, <1>8, <1>9, AnswerStep

\* The requests for a retry or rerun.
LEMMA BeginRequestStep ==
    ASSUME TypeOK, RequestInv, NEW c \in Clients, NEW e, NEW s, BeginRequest(c, e, s),
           IsRetry(e) \/ IsRerun(e)
    PROVE  TypeOK' /\ RequestInv'
  <1>1. /\ tx[c].pc = "idle" /\ e \in Requests /\ s \in DOMAIN runs /\ Insertable(e)
        /\ UNCHANGED <<sent, context, commands, runs, lock>>
    BY DEF BeginRequest
  <1>2. e \in Events /\ e[1] # "webhook"
    BY <1>1, RequestAssumption DEF IsRetry, IsRerun
  <1>3. s \in Ids /\ s \in 0..MaxRuns /\ s # 0 /\ runs[s] \in Run
    BY <1>1, RunTypes DEF Ids
  <1>4. CASE Available(e, s, runs[s].status, context)
    <2> DEFINE older == RetryEvents(s) \cup
                        {tx[d].event : d \in {o \in Clients : tx[o].source = s}}
               t == [IdleTx EXCEPT !.pc = "loaded", !.event = e, !.context = context,
                       !.source = s, !.status = runs[s].status, !.older = older]
    <2>1. tx' = [tx EXCEPT ![c] = t] /\ UNCHANGED inbox
      BY <1>4 DEF BeginRequest
    <2>2. older \subseteq Events
      <3>1. \A o \in Clients : tx[o].source = s => tx[o].pc # "idle"
        BY <1>3 DEF RequestInv, TxInv, IdleTx
      <3>2. \A o \in Clients : tx[o].source = s => tx[o].event \in Events
        BY <3>1 DEF RequestInv, TxInv
      <3> QED BY <3>2 DEF RetryEvents
    <2> HIDE DEF older
    <2>3. runs[s].status \in Active \cup Ends
      BY <1>3 DEF Run
    <2>4. t \in Tx
      BY <1>2, <1>3, <2>2, <2>3, Idle DEF Tx, TypeOK
    <2>5. /\ t.pc = "loaded" /\ t.event = e /\ t.context = context /\ ~t.new
          /\ t.source = s
      BY DEF IdleTx
    <2>6. runs[s].status # "working"
      BY <1>4 DEF Available
    <2>7. context' \in Snapshot \cup {NoContext}
      BY <1>1 DEF TypeOK
    <2> HIDE DEF t
    <2> QED BY <1>1, <1>2, <2>1, <2>4, <2>5, <2>6, <2>7, Begins
  <1>5. CASE ~Available(e, s, runs[s].status, context)
    <2>1. RejectedEvent(e, s) /\ UNCHANGED tx
      BY <1>5 DEF BeginRequest
    <2>2. [status |-> "rejected", source |-> s, run |-> 0] \in Entry
      BY <1>3, RequestAssumption DEF Entry
    <2>3. NoClient \notin Clients /\ commands' \in [Webhooks -> 0..MaxHead]
      BY <1>1, RequestAssumption DEF TypeOK
    <2>4. \A d \in DOMAIN sent : e # <<"webhook", d>>
      BY <1>2
    <2>5. inbox' = [inbox EXCEPT ![e] = [status |-> "rejected", source |-> s, run |-> 0]]
      BY <2>1 DEF RejectedEvent
    <2>6. inbox[e].status = "none" /\ \A d \in Clients : tx[d].event # e
      BY <1>1 DEF Insertable
    <2> QED BY <1>1, <1>2, <2>1, <2>2, <2>3, <2>4, <2>5, <2>6, AnswerStep
  <1> QED BY <1>4, <1>5

\* process_next_agent_task begins with a mention task.
LEMMA BeginMentionStep ==
    ASSUME TypeOK, RequestInv, NEW c \in Clients, NEW d \in Webhooks, BeginMention(c, d)
    PROVE  TypeOK' /\ RequestInv'
  <1> DEFINE e == <<"mention", d>>
             t == [IdleTx EXCEPT !.pc = "loaded", !.event = e, !.context = context']
  <1>1. /\ d \in DOMAIN sent /\ Insertable(e) /\ tx' = [tx EXCEPT ![c] = t]
        /\ IF Exists(context) THEN UNCHANGED context ELSE context' = sent[Len(sent)].pr
        /\ UNCHANGED <<sent, inbox, commands, runs, lock>>
    BY DEF BeginMention
  <1>2. Len(sent) \in DOMAIN sent
    BY <1>1, LenProperties DEF TypeOK
  <1>3. sent[Len(sent)].pr \in Snapshot
    BY <1>2, WebhookTypes
  <1>4. context' \in Snapshot \cup {NoContext} /\ (Exists(context) => Exists(context'))
    BY <1>1, <1>3 DEF TypeOK
  <1>5. e \in Events /\ e[1] # "webhook"
    BY DEF Events
  <1> HIDE DEF e
  <1>6. t \in Tx
    BY <1>4, <1>5, Idle DEF Tx
  <1>7. /\ t.pc = "loaded" /\ t.event = e /\ t.context = context' /\ ~t.new
        /\ t.source = 0
    BY DEF IdleTx
  <1> HIDE DEF t
  <1> QED BY <1>1, <1>4, <1>5, <1>6, <1>7, Begins

\* The transaction has nothing left but to be committed.
LEMMA ReadyStep ==
    ASSUME TypeOK, RequestInv, NEW c \in Clients, NEW t \in Tx, LockFree,
           tx' = [tx EXCEPT ![c] = t], tx[c].pc = "loaded", t.pc = "commit",
           t.event = tx[c].event, t.context = tx[c].context, t.source = tx[c].source,
           lock' = c, UNCHANGED <<sent, context, inbox, commands, runs>>,
           CommitInv(c)'
    PROVE  TypeOK' /\ RequestInv'
  <1>1. TypeOK'
    BY OneTx DEF TypeOK
  <1>2. TxInv(c)'
    BY OneTx DEF TxInv, RequestInv
  <1>3. \A d \in Clients : tx[d].pc # "commit"
    BY RequestAssumption DEF RequestInv, TxInv, CommitInv, LockFree
  <1>4. \A d \in Clients \ {c} : t.event # tx[d].event
    BY DEF RequestInv, Distinct
  <1> QED BY <1>1, <1>2, <1>3, <1>4, OneTx, KeepsInv, RunsUnchanged

\* The context row is there when a transaction has loaded one, and what it has
\* loaded is typed.
LEMMA Loaded ==
    ASSUME TypeOK, RequestInv, NEW c \in Clients
    PROVE  /\ tx[c] \in Tx
           /\ tx[c].pc # "idle" => tx[c].event \in Events
           /\ Exists(tx[c].context) => tx[c].context \in Snapshot /\ context \in Snapshot
           /\ tx[c].context.open => Exists(tx[c].context)
           /\ tx[c].source # 0 => tx[c].source \in DOMAIN runs
  <1>1. tx[c] \in Tx /\ tx[c].context \in Snapshot \cup {NoContext}
    BY DEF TypeOK, Tx
  <1>2. ASSUME NEW row \in Snapshot \cup {NoContext}
        PROVE  (Exists(row) => row \in Snapshot) /\ (row.open => Exists(row))
    <2>1. CASE row \in Snapshot
      BY <2>1, RequestAssumption DEF Exists, Snapshot
    <2>2. CASE row = NoContext
      BY <2>2 DEF Exists, NoContext
    <2> QED BY <2>1, <2>2
  <1>3. context \in Snapshot \cup {NoContext}
    BY DEF TypeOK
  <1> QED BY <1>1, <1>2, <1>3 DEF RequestInv, TxInv

\* handle_review_requested for a retry or rerun.
LEMMA ApplyRequestStep ==
    ASSUME TypeOK, RequestInv, NEW c \in Clients, ApplyRequest(c)
    PROVE  TypeOK' /\ RequestInv'
  <1>1. /\ tx[c].pc = "loaded" /\ tx[c].source # 0 /\ LockFree
        /\ UNCHANGED <<sent, context, commands, runs>>
    BY DEF ApplyRequest
  <1>2. /\ tx[c].event \in Events /\ inbox[tx[c].event].status = "none"
        /\ tx[c].event[1] # "webhook" /\ tx[c].source \in DOMAIN runs
        /\ (runs[tx[c].source].status = "working" => runs[tx[c].source].back)
    BY <1>1 DEF RequestInv, TxInv
  <1>3. CASE StillAvailable(tx[c])
    <2> DEFINE t == [tx[c] EXCEPT !.pc = "commit", !.row = context, !.new = TRUE]
    <2>1. /\ Len(runs) < MaxRuns /\ tx' = [tx EXCEPT ![c] = t] /\ lock' = c
          /\ UNCHANGED inbox
      BY <1>3 DEF ApplyRequest
    <2>2. t \in Tx
      BY Loaded DEF Tx, TypeOK
    <2>3. /\ t.pc = "commit" /\ t.row = context /\ t.new /\ t.event = tx[c].event
          /\ t.source = tx[c].source /\ t.context = tx[c].context
      BY Loaded DEF Tx
    <2> HIDE DEF t
    <2>4. /\ tx[c].context.open
          /\ \A r \in RunsOf(runs[tx[c].source].head) \ {tx[c].source} :
               runs[r].status \notin Active
      BY <1>3 DEF StillAvailable, Available
    <2>5. t.row \in Snapshot
      BY <2>3, <2>4, Loaded
    <2>6. tx'[c] = t
      BY <2>1, <2>2, OneTx
    <2>7. Revision(t) = runs[t.source]
      BY <1>1, <1>2, <2>3 DEF Revision
    <2>8. \A r \in RunsOf(Revision(t).head) : runs[r].status = "working" => runs[r].back
      BY <1>2, <2>3, <2>4, <2>7 DEF Active
    <2>9. RunsOf(Revision(tx[c]).head)' = RunsOf(Revision(t).head)
      <3>1. Revision(tx[c])' = runs[t.source]
        BY <1>1, <1>2, <2>3, <2>6 DEF Revision
      <3> QED BY <1>1, <2>7, <3>1 DEF RunsOf
    <2>10. CommitInv(c)'
      <3>1. \A d \in DOMAIN sent : t.event # <<"webhook", d>>
        BY <1>2, <2>3
      <3> QED BY <1>1, <2>1, <2>3, <2>5, <2>6, <2>8, <2>9, <3>1 DEF CommitInv
    <2> QED BY <1>1, <2>1, <2>2, <2>3, <2>10, ReadyStep
  <1>4. CASE ~StillAvailable(tx[c])
    <2>1. /\ inbox' = [inbox EXCEPT ![tx[c].event] =
                        [status |-> "rejected", source |-> tx[c].source, run |-> 0]]
          /\ tx' = [tx EXCEPT ![c] = IdleTx] /\ UNCHANGED lock
      BY <1>4 DEF ApplyRequest, RejectedEvent
    <2>2. [status |-> "rejected", source |-> tx[c].source, run |-> 0] \in Entry
      BY Loaded, RequestAssumption DEF Entry, Tx
    <2>3. PICK e \in Events, entry \in Entry :
            /\ inbox' = [inbox EXCEPT ![e] = entry] /\ e = tx[c].event
      BY <1>2, <2>1, <2>2
    <2>4. \A d \in Clients \ {c} : tx[d].pc # "idle" => tx[d].event # e
      BY <2>3 DEF RequestInv, Distinct
    <2>5. commands' \in [Webhooks -> 0..MaxHead]
      BY <1>1 DEF TypeOK
    <2>6. inbox[e].status = "none" /\ \A d \in DOMAIN sent : e # <<"webhook", d>>
      BY <1>2, <2>3
    <2>7. /\ \/ UNCHANGED tx /\ c \notin Clients
             \/ c \in Clients /\ tx' = [tx EXCEPT ![c] = IdleTx]
          /\ UNCHANGED <<sent, context, runs, lock>>
      BY <1>1, <2>1
    <2>8. inbox' = [inbox EXCEPT ![e] = entry]
      BY <2>3
    <2>9. \A d \in DOMAIN sent : e = <<"webhook", d>> => sent[d].action \notin ReviewActions
      BY <2>6
    <2> QED BY <2>4, <2>5, <2>6, <2>7, <2>8, <2>9, AnswerStep
  <1> QED BY <1>3, <1>4

\* handle_review_requested for a mention.
LEMMA ApplyMentionStep ==
    ASSUME TypeOK, RequestInv, NEW c \in Clients, ApplyMention(c)
    PROVE  TypeOK' /\ RequestInv'
  <1>1. /\ tx[c].pc = "loaded" /\ tx[c].event[1] = "mention" /\ LockFree
        /\ tx[c].context.open /\ Len(runs) < MaxRuns /\ lock' = c
        /\ UNCHANGED <<sent, context, inbox, commands, runs>>
    BY DEF ApplyMention
  <1>2. PICK end \in {"working", "failed"} :
          tx' = [tx EXCEPT ![c] = [tx[c] EXCEPT !.pc = "commit", !.row = context,
                                                !.new = TRUE, !.end = end]]
    BY DEF ApplyMention
  <1> DEFINE t == [tx[c] EXCEPT !.pc = "commit", !.row = context, !.new = TRUE, !.end = end]
  <1>3. t \in Tx
    <2>1. end \in Active \cup Ends /\ context \in Snapshot \cup {NoContext}
      BY DEF Active, Ends, TypeOK
    <2> QED BY <2>1, Loaded DEF Tx
  <1>4. /\ t.pc = "commit" /\ t.row = context /\ t.new /\ t.event = tx[c].event
        /\ t.source = tx[c].source /\ t.context = tx[c].context
    BY Loaded DEF Tx
  <1>5. tx' = [tx EXCEPT ![c] = t]
    BY <1>2
  <1> HIDE DEF t
  <1>6. t.row \in Snapshot /\ t.context \in Snapshot
    BY <1>1, <1>4, Loaded
  <1>7. tx'[c] = t
    BY <1>3, <1>5, OneTx
  <1>8. \A d \in DOMAIN sent : t.event # <<"webhook", d>>
    BY <1>1, <1>4
  <1>9. CommitInv(c)'
    BY <1>1, <1>4, <1>6, <1>7, <1>8 DEF CommitInv
  <1> QED BY <1>1, <1>3, <1>4, <1>5, <1>9, ReadyStep

\* upsert_pull_request_context writes a complete row.
LEMMA FlushTyped ==
    ASSUME TypeOK, RequestInv, NEW c \in Clients, NEW v \in Snapshot,
           Exists(tx[c].context) \/ ~Exists(context)
    PROVE  Flush(context, tx[c].context, v) \in Snapshot
  <1> DEFINE l == tx[c].context
             f == Flush(context, l, v)
  <1>1. l \in Snapshot \cup {NoContext} /\ context \in Snapshot \cup {NoContext}
    BY Loaded DEF Tx, TypeOK
  <1>2. Exists(l) => l \in Snapshot /\ context \in Snapshot
    BY Loaded
  <1>3. ~Exists(l) => l = NoContext /\ context = NoContext
    BY <1>1, RequestAssumption DEF Exists, Snapshot
  <1>4. /\ v = [head |-> v.head, base |-> v.base, open |-> v.open]
        /\ v.head \in 1..MaxHead /\ v.base \in 1..MaxBase /\ v.open \in BOOLEAN
    BY DEF Snapshot
  <1>5. f = [head |-> IF v.head = l.head THEN context.head ELSE v.head,
             base |-> IF v.base = l.base THEN context.base ELSE v.base,
             open |-> IF v.open = l.open THEN context.open ELSE v.open]
    BY <1>4 DEF Flush
  <1> DEFINE h == IF v.head = l.head THEN context.head ELSE v.head
             b == IF v.base = l.base THEN context.base ELSE v.base
             o == IF v.open = l.open THEN context.open ELSE v.open
  <1>6. h \in 1..MaxHead /\ b \in 1..MaxBase
    <2>1. CASE Exists(l)
      BY <1>2, <1>4, <2>1 DEF Snapshot
    <2>2. CASE ~Exists(l)
      BY <1>3, <1>4, <2>2, RequestAssumption DEF NoContext
    <2> QED BY <2>1, <2>2
  <1>7. o \in BOOLEAN
    <2>1. context.open \in BOOLEAN
      <3>1. CASE context \in Snapshot
        BY <3>1 DEF Snapshot
      <3>2. CASE context = NoContext
        <4>1. context.open = FALSE
          BY <3>2 DEF NoContext
        <4> QED BY <4>1
      <3> QED BY <1>1, <3>1, <3>2
    <2> QED BY <1>4, <2>1
  <1>8. f = [head |-> h, base |-> b, open |-> o]
    BY <1>5
  <1> HIDE DEF h, b, o
  <1>9. f \in Snapshot
    BY <1>6, <1>7, <1>8 DEF Snapshot
  <1> QED BY <1>9

\* Superseded and cancelled runs are among the active ones.
LEMMA HitsTyped ==
    ASSUME TypeOK, NEW h
    PROVE  SupersededBy(h) \subseteq Ids /\ CancelledByClose \subseteq Ids
  BY RunTypes DEF SupersededBy, CancelledByClose, ActiveRuns

\* accept_provider_webhook applies the event.
LEMMA ApplyWebhookStep ==
    ASSUME TypeOK, RequestInv, NEW c \in Clients, NEW d \in Webhooks, ApplyWebhook(c, d)
    PROVE  TypeOK' /\ RequestInv'
  <1> DEFINE h == sent[d].pr.head
             f == Flushed(c, d)
  <1>1. /\ tx[c].pc = "loaded" /\ tx[c].event = <<"webhook", d>> /\ LockFree
        /\ Exists(tx[c].context) \/ ~Exists(context)
        /\ sent[d].action \in ReviewActions =>
             sent[d].pr.open /\ (LatestRun(h) # 0 \/ Len(runs) < MaxRuns)
        /\ lock' = c /\ UNCHANGED <<sent, context, inbox, commands, runs>>
    BY DEF ApplyWebhook
  <1>2. /\ d \in DOMAIN sent /\ tx[c].source = 0 /\ ~tx[c].new /\ tx[c] \in Tx
    <2>1. tx[c].event[1] = "webhook" /\ tx[c].event[2] = d
      BY <1>1
    <2> QED BY <1>1, <2>1, Loaded DEF RequestInv, TxInv
  <1>3. h \in 1..MaxHead /\ sent[d].pr \in Snapshot
    BY <1>2, WebhookTypes
  <1>4. f = [tx[c] EXCEPT !.pc = "commit", !.row = Flush(context, tx[c].context, sent[d].pr)]
    BY DEF Flushed
  <1>5. Flush(context, tx[c].context, sent[d].pr) \in Snapshot
    BY <1>1, <1>3, FlushTyped
  <1>6. /\ f \in Tx /\ f.pc = "commit" /\ f.row \in Snapshot /\ f.event = <<"webhook", d>>
        /\ f.context = tx[c].context /\ f.source = 0 /\ ~f.new
    BY <1>1, <1>2, <1>4, <1>5 DEF Tx
  <1> HIDE DEF f
  <1>7. Counted
    BY DEF RequestInv
  <1>8. \A e \in DOMAIN sent : <<"webhook", d>> = <<"webhook", e>> => e = d
    OBVIOUS
  <1>9. \A k : RunsOf(k)' = RunsOf(k)
    BY <1>1 DEF RunsOf
  <1>10. CASE sent[d].action \in ReviewActions
    <2> DEFINE n == LatestRun(h) = 0
               hits == IF LatestRun(h) = 0 THEN SupersededBy(h) ELSE {}
               t == [f EXCEPT !.run = LatestRun(h), !.new = n, !.source = 0,
                              !.hits = hits, !.mark = "superseding"]
    <2>1. tx' = [tx EXCEPT ![c] = t]
      <3>1. tx' = [tx EXCEPT ![c] = Automatic(f, h)]
        BY <1>10 DEF ApplyWebhook, ReviewActions, f
      <3>2. Automatic(f, h) = t
        BY Zenon DEF Automatic
      <3> QED BY <3>1, <3>2
    <2>2. hits \subseteq Ids /\ n \in BOOLEAN
      BY HitsTyped
    <2>3. LatestRun(h) \in 0..MaxRuns
      BY <1>3, <1>7, Latest, RunTypes, RequestAssumption
    <2>4. n => RunsOf(h) = {} /\ Len(runs) < MaxRuns
      BY <1>1, <1>3, <1>7, <1>10, Latest
    <2>5. ~n => LatestRun(h) \in RunsOf(h)
      BY <1>3, <1>7, Latest
    <2> HIDE DEF n, hits
    <2>6. t \in Tx
      BY <1>6, <2>2, <2>3, RequestAssumption DEF Tx
    <2>7. /\ t.pc = "commit" /\ t.event = <<"webhook", d>> /\ t.context = tx[c].context
          /\ t.source = 0 /\ t.row \in Snapshot /\ t.run = LatestRun(h) /\ t.new = n
      BY <1>6 DEF Tx
    <2> HIDE DEF t
    <2>8. tx'[c] = t
      BY <2>1, <2>6, OneTx
    <2>9. t.event[1] = "webhook" /\ t.event[2] = d
      BY <2>7
    <2>10. Revision(tx[c])' = sent[d].pr
      <3>1. /\ tx'[c].event[1] = "webhook" /\ tx'[c].event[2] = d /\ sent' = sent
            /\ tx'[c].source = 0
        BY <1>1, <2>7, <2>8, <2>9
      <3> QED BY <3>1 DEF Revision
    <2>11. RunsOf(Revision(tx[c]).head)' = RunsOf(h)
      BY <1>1, <2>10 DEF RunsOf
    <2>12. \A e \in DOMAIN sent : t.event = <<"webhook", e>> =>
             /\ t.new \/ t.run \in RunsOf(sent[e].pr.head)
             /\ sent[e].action # "closed"
      BY <1>8, <1>10, <2>5, <2>7 DEF ReviewActions
    <2>13. CommitInv(c)'
      BY <1>1, <1>9, <2>4, <2>7, <2>8, <2>9, <2>11, <2>12 DEF CommitInv
    <2> QED BY <1>1, <1>2, <2>1, <2>6, <2>7, <2>13, ReadyStep
  <1>11. CASE sent[d].action = "closed"
    <2> DEFINE t == [f EXCEPT !.hits = CancelledByClose]
    <2>1. tx' = [tx EXCEPT ![c] = t]
      BY <1>11 DEF ApplyWebhook, ReviewActions, f
    <2>2. t \in Tx
      BY <1>6, HitsTyped DEF Tx
    <2>3. /\ t.pc = "commit" /\ t.event = <<"webhook", d>> /\ t.context = tx[c].context
          /\ t.source = 0 /\ t.row \in Snapshot /\ ~t.new /\ t.hits = CancelledByClose
      BY <1>6 DEF Tx
    <2> HIDE DEF t
    <2>4. tx'[c] = t
      BY <2>1, <2>2, OneTx
    <2>5. \A r \in DOMAIN runs : runs[r].status = "working" => r \in t.hits
      BY <2>3 DEF CancelledByClose, ActiveRuns, Active
    <2>6. \A e \in DOMAIN sent : t.event = <<"webhook", e>> =>
            sent[e].action \notin ReviewActions
      BY <1>8, <1>11, <2>3 DEF ReviewActions
    <2>7. CommitInv(c)'
      BY <1>1, <2>3, <2>4, <2>5, <2>6 DEF CommitInv
    <2> QED BY <1>1, <1>2, <2>1, <2>2, <2>3, <2>7, ReadyStep
  <1>12. CASE sent[d].action \notin ReviewActions \cup {"closed"}
    <2>1. tx' = [tx EXCEPT ![c] = f]
      BY <1>12 DEF ApplyWebhook, f
    <2>2. tx'[c] = f
      BY <1>6, <2>1, OneTx
    <2>3. \A e \in DOMAIN sent : f.event = <<"webhook", e>> =>
            sent[e].action \notin ReviewActions \cup {"closed"}
      BY <1>6, <1>8, <1>12
    <2>4. CommitInv(c)'
      BY <1>1, <1>6, <2>2, <2>3 DEF CommitInv
    <2> QED BY <1>1, <1>2, <1>6, <2>1, <2>4, ReadyStep
  <1> QED BY <1>10, <1>11, <1>12

\* One run changes, and nothing else.
LEMMA OneRun ==
    ASSUME TypeOK, RequestInv, NEW r \in DOMAIN runs, NEW run \in Run,
           runs' = [runs EXCEPT ![r] = run],
           run.head = runs[r].head, run.attempt = runs[r].attempt,
           run.event = runs[r].event, runs[r].back => run.back,
           run.status = "working" => run.back \/ runs[r].status = "working",
           UNCHANGED <<sent, context, inbox, commands, lock, tx>>
    PROVE  TypeOK' /\ RequestInv' /\ SameRuns
  <1>1. runs \in Seq(Run) /\ r \in 1..Len(runs)
    BY RunTypes DEF TypeOK
  <1>2. /\ runs' \in Seq(Run) /\ Len(runs') = Len(runs)
        /\ \A q \in 1..Len(runs) : runs'[q] = IF q = r THEN run ELSE runs[q]
    BY <1>1, ExceptSeq
  <1>3. DOMAIN runs' = DOMAIN runs /\ DOMAIN runs = 1..Len(runs)
    BY <1>1, <1>2, LenProperties
  <1>4. SameRuns
    BY <1>2, <1>3 DEF SameRuns, SameRun
  <1>5. TypeOK'
    BY <1>2 DEF TypeOK
  <1>6. NoClient \notin Clients
    BY RequestAssumption
  <1> QED BY <1>2, <1>4, <1>5, <1>6, KeepsInv

\* cancel_review_run and the workers of the runs.
LEMMA RunStepKeeps ==
    ASSUME TypeOK, RequestInv, RunStep
    PROVE  TypeOK' /\ RequestInv' /\ SameRuns
  <1>1. PICK r \in Ids : CancelRun(r) \/ RunEnds(r) \/ WorkerGoesOn(r)
                         \/ CancellationDelivered(r)
    BY DEF RunStep
  <1>2. /\ r \in DOMAIN runs
        /\ UNCHANGED <<sent, context, inbox, commands, lock, tx>>
    BY <1>1 DEF CancelRun, RunEnds, WorkerGoesOn, CancellationDelivered, ActiveRuns
  <1>3. runs[r] \in Run /\ runs \in [1..Len(runs) -> Run] /\ r \in 1..Len(runs)
    BY <1>2, RunTypes
  <1>4. ASSUME NEW s \in (Active \cup Ends) \ {"working"},
               runs' = [runs EXCEPT ![r].status = s]
        PROVE  TypeOK' /\ RequestInv' /\ SameRuns
    <2> DEFINE run == [runs[r] EXCEPT !.status = s]
    <2>1. /\ run \in Run /\ run.head = runs[r].head /\ run.attempt = runs[r].attempt
          /\ run.event = runs[r].event /\ run.back = runs[r].back /\ run.status # "working"
      BY <1>3 DEF Run
    <2>2. runs' = [runs EXCEPT ![r] = run]
      BY <1>4
    <2> HIDE DEF run
    <2> QED BY <1>2, <2>1, <2>2, OneRun
  <1>5. CASE CancelRun(r)
    BY <1>4, <1>5 DEF CancelRun, Active
  <1>6. CASE RunEnds(r)
    BY <1>4, <1>6 DEF RunEnds, Ends
  <1>7. CASE WorkerGoesOn(r)
    <2> DEFINE run == [runs[r] EXCEPT !.status = "working", !.back = TRUE]
    <2>1. /\ run \in Run /\ run.head = runs[r].head /\ run.attempt = runs[r].attempt
          /\ run.event = runs[r].event /\ run.back
      BY <1>3 DEF Run, Active
    <2>2. runs' = [runs EXCEPT ![r] = run]
      BY <1>7 DEF WorkerGoesOn
    <2> HIDE DEF run
    <2> QED BY <1>2, <2>1, <2>2, OneRun
  <1>8. CASE CancellationDelivered(r)
    <2> DEFINE s == IF runs[r].status = "cancelling" THEN "cancelled" ELSE "superseded"
    <2>1. s \in (Active \cup Ends) \ {"working"}
      BY DEF Ends
    <2>2. runs' = [runs EXCEPT ![r].status = s]
      BY <1>3, <1>8 DEF CancellationDelivered
    <2> HIDE DEF s
    <2> QED BY <2>1, <2>2, <1>4
  <1> QED BY <1>1, <1>5, <1>6, <1>7, <1>8

\* A transaction ends without effect.
LEMMA RollbackStep ==
    ASSUME TypeOK, RequestInv, NEW c \in Clients, Rollback(c)
    PROVE  TypeOK' /\ RequestInv'
  <1>1. /\ lock' = IF lock = c THEN NoClient ELSE lock
        /\ tx' = [tx EXCEPT ![c] = IdleTx]
        /\ UNCHANGED <<sent, context, inbox, commands, runs>>
    BY DEF Rollback
  <1>2. /\ tx' \in [Clients -> Tx] /\ tx'[c] = IdleTx
        /\ \A d \in Clients \ {c} : tx'[d] = tx[d]
    BY <1>1, Idle, OneTx
  <1>3. TypeOK'
    BY <1>1, <1>2 DEF TypeOK
  <1>4. TxInv(c)' /\ tx'[c].pc = "idle"
    BY <1>2, Idle, IdleInv
  <1>5. \A d \in Clients \ {c} : tx[d].pc = "commit" => lock' = lock
    BY <1>1 DEF RequestInv, TxInv, CommitInv
  <1> QED BY <1>1, <1>2, <1>3, <1>4, <1>5, KeepsInv, RunsUnchanged

-----------------------------------------------------------------------------
(* Commit *)

Marked(t) ==
    [r \in DOMAIN runs |->
       IF r \in t.hits THEN [runs[r] EXCEPT !.status = t.mark] ELSE runs[r]]

\* Superseding and cancelling change nothing but the status, and start nothing.
LEMMA MarkedRuns ==
    ASSUME TypeOK, NEW t \in Tx
    PROVE  /\ Marked(t) \in Seq(Run) /\ Len(Marked(t)) = Len(runs)
           /\ DOMAIN Marked(t) = DOMAIN runs
           /\ \A r \in DOMAIN runs :
                /\ Marked(t)[r].head = runs[r].head
                /\ Marked(t)[r].attempt = runs[r].attempt
                /\ Marked(t)[r].event = runs[r].event
                /\ Marked(t)[r].back = runs[r].back
                /\ Marked(t)[r].status = "working" =>
                     r \notin t.hits /\ runs[r].status = "working"
  <1>1. t.mark \in {"cancelling", "superseding"}
    BY DEF Tx
  <1>2. ASSUME NEW r \in DOMAIN runs
        PROVE  /\ Marked(t)[r] \in Run /\ Marked(t)[r].head = runs[r].head
               /\ Marked(t)[r].attempt = runs[r].attempt
               /\ Marked(t)[r].event = runs[r].event
               /\ Marked(t)[r].back = runs[r].back
               /\ Marked(t)[r].status = "working" =>
                    r \notin t.hits /\ runs[r].status = "working"
    <2>1. Marked(t)[r] = IF r \in t.hits THEN [runs[r] EXCEPT !.status = t.mark] ELSE runs[r]
      BY DEF Marked
    <2>2. runs[r] \in Run
      BY RunTypes
    <2>3. CASE r \in t.hits
      <3>1. Marked(t)[r] = [runs[r] EXCEPT !.status = t.mark]
        BY <2>1, <2>3
      <3> QED BY <3>1, <1>1, <2>2 DEF Run, Active
    <2>4. CASE r \notin t.hits
      BY <2>1, <2>2, <2>4
    <2> QED BY <2>3, <2>4
  <1>3. DOMAIN Marked(t) = DOMAIN runs
    BY DEF Marked
  <1>4. Marked(t) \in [1..Len(runs) -> Run] /\ Len(runs) \in Nat
    BY <1>2, RunTypes DEF Marked
  <1> QED BY <1>2, <1>3, <1>4, FunctionIsSeq

\* The new run has the next number of a revision.
LEMMA NewRunTyped ==
    ASSUME TypeOK, RequestInv, NEW c \in Clients, tx[c].pc = "commit", tx[c].new
    PROVE  /\ NewRun(tx[c]) \in Run
           /\ Revision(tx[c]).head \in 1..MaxHead
           /\ NewRun(tx[c]).head = Revision(tx[c]).head
           /\ NewRun(tx[c]).event = tx[c].event
           /\ NewRun(tx[c]).attempt = Cardinality(RunsOf(Revision(tx[c]).head)) + 1
  <1> DEFINE t == tx[c]
  <1>1. t \in Tx /\ t.event \in Events /\ CommitInv(c) /\ TxInv(c)
    BY Loaded DEF RequestInv, TxInv
  <1>2. Revision(t).head \in 1..MaxHead /\ Revision(t).base \in 1..MaxBase
    <2>1. CASE t.event[1] = "webhook"
      <3>1. t.event[2] \in DOMAIN sent /\ t.source = 0
        BY <1>1, <2>1 DEF TxInv
      <3>2. Revision(t) = sent[t.event[2]].pr
        BY <2>1, <3>1 DEF Revision
      <3> QED BY <3>1, <3>2, WebhookTypes
    <2>2. CASE t.event[1] # "webhook" /\ t.source # 0
      <3>1. Revision(t) = runs[t.source]
        BY <2>2 DEF Revision
      <3> QED BY <2>2, <3>1, Loaded, RunTypes DEF Run
    <2>3. CASE t.event[1] # "webhook" /\ t.source = 0
      <3>1. Revision(t) = t.context /\ t.context \in Snapshot
        BY <1>1, <2>3 DEF Revision, CommitInv
      <3> QED BY <3>1 DEF Snapshot
    <2> QED BY <2>1, <2>2, <2>3
  <1> DEFINE h == Revision(t).head
             b == Revision(t).base
             n == NextAttempt(h)
  <1>3. n = Cardinality(RunsOf(h)) + 1 /\ n \in Ids
    <2>1. n = Cardinality(RunsOf(h)) + 1
      BY <1>2, Latest DEF RequestInv
    <2>2. Cardinality(RunsOf(h)) \in Nat /\ Cardinality(RunsOf(h)) <= Len(runs)
      BY RunsOfFinite
    <2>3. Len(runs) < MaxRuns
      BY <1>1 DEF CommitInv
    <2> QED BY <2>1, <2>2, <2>3, RunTypes, RequestAssumption DEF Ids
  <1>4. NewRun(t) = [head |-> h, base |-> b, attempt |-> n, event |-> t.event,
                     source |-> t.source, status |-> t.end, back |-> FALSE]
    BY DEF NewRun
  <1>5. t.source \in 0..MaxRuns /\ t.end \in Active \cup Ends
    BY <1>1 DEF Tx
  <1> HIDE DEF h, b, n, t
  <1>6. h \in 1..MaxHead /\ b \in 1..MaxBase
    BY <1>2 DEF h, b
  <1>7. /\ NewRun(t) \in Run /\ NewRun(t).head = h /\ NewRun(t).event = t.event
        /\ NewRun(t).attempt = n
    BY <1>1, <1>3, <1>4, <1>5, <1>6 DEF Run
  <1> QED BY <1>3, <1>6, <1>7 DEF h, t

\* What every commit does to inbox, lock and transactions.
LEMMA CommitEffect ==
    ASSUME TypeOK, RequestInv, NEW c \in Clients, Commit(c)
    PROVE  /\ tx[c] \in Tx /\ tx[c].event \in Events /\ TxInv(c) /\ CommitInv(c)
           /\ Answers(tx[c].event) /\ inbox' \in [Events -> Entry]
           /\ inbox'[tx[c].event].status # "none"
           /\ inbox'[tx[c].event].run = IF tx[c].new THEN Len(runs) + 1 ELSE tx[c].run
           /\ context' \in Snapshot /\ Exists(context') /\ lock' = NoClient
           /\ tx' \in [Clients -> Tx] /\ TxInv(c)' /\ tx'[c] = IdleTx
           /\ \A d \in Clients \ {c} :
                /\ tx'[d] = tx[d] /\ tx[d].pc # "commit"
                /\ tx[d].pc # "idle" => tx[d].event # tx[c].event
           /\ UNCHANGED <<sent, commands>>
  <1>1. tx[c].pc = "commit"
    BY DEF Commit
  <1>2. /\ tx[c] \in Tx /\ tx[c].event \in Events /\ TxInv(c) /\ CommitInv(c)
        /\ inbox[tx[c].event].status = "none"
    BY <1>1, Loaded DEF RequestInv, TxInv
  <1> DEFINE status == IF tx[c].new \/ tx[c].run # 0 THEN "queued" ELSE "processed"
             run == IF tx[c].new THEN Len(runs) + 1 ELSE tx[c].run
             entry == [status |-> status, source |-> tx[c].source, run |-> run]
  <1>3. /\ context' = tx[c].row /\ lock' = NoClient /\ tx' = [tx EXCEPT ![c] = IdleTx]
        /\ inbox' = [inbox EXCEPT ![tx[c].event] = entry] /\ UNCHANGED <<sent, commands>>
    BY DEF Commit
  <1>4. status \in {"queued", "processed"} /\ tx[c].source \in 0..MaxRuns
    BY <1>2 DEF Tx
  <1>5. run \in 0..MaxRuns
    BY <1>2, RunTypes, RequestAssumption DEF Tx, CommitInv
  <1> HIDE DEF status, run
  <1>6. entry \in Entry /\ entry.status # "none" /\ entry.run = run
    BY <1>4, <1>5 DEF Entry
  <1> HIDE DEF entry
  <1>7. /\ inbox' \in [Events -> Entry] /\ inbox'[tx[c].event] = entry
        /\ Answers(tx[c].event)
    BY <1>2, <1>3, <1>6 DEF TypeOK, Answers
  <1>8. context' \in Snapshot /\ Exists(context')
    BY <1>2, <1>3, RequestAssumption DEF CommitInv, Snapshot, Exists
  <1>9. /\ tx' \in [Clients -> Tx] /\ tx'[c] = IdleTx
        /\ \A d \in Clients \ {c} : tx'[d] = tx[d]
    BY <1>3, Idle, OneTx
  <1>10. TxInv(c)'
    BY <1>9, IdleInv
  <1>11. \A d \in Clients \ {c} : tx[d].pc # "commit"
    BY <1>2 DEF RequestInv, TxInv, CommitInv
  <1>12. \A d \in Clients \ {c} : tx[d].pc # "idle" => tx[d].event # tx[c].event
    BY DEF RequestInv, Distinct
  <1> QED BY <1>2, <1>3, <1>6, <1>7, <1>8, <1>9, <1>10, <1>11, <1>12 DEF run

\* The runs after a commit.
LEMMA WrittenRuns ==
    ASSUME TypeOK, RequestInv, NEW c \in Clients, Commit(c)
    PROVE  /\ runs' \in Seq(Run) /\ Len(runs') <= MaxRuns
           /\ DOMAIN runs \subseteq DOMAIN runs' /\ \A r \in DOMAIN runs : SameRun(r)
           /\ \A r \in DOMAIN runs : runs'[r].status = "working" =>
                runs[r].status = "working" /\ runs'[r].back = runs[r].back
                /\ r \notin tx[c].hits
           /\ ~tx[c].new => SameRuns /\ Len(runs') = Len(runs)
           /\ tx[c].new =>
                /\ DOMAIN runs' = DOMAIN runs \cup {Len(runs) + 1}
                /\ runs'[Len(runs) + 1] = NewRun(tx[c])
  <1> DEFINE m == Marked(tx[c])
  <1>1. runs' = IF tx[c].new THEN Append(m, NewRun(tx[c])) ELSE m
    BY DEF Commit, Written, Marked
  <1>2. /\ m \in Seq(Run) /\ Len(m) = Len(runs) /\ DOMAIN m = DOMAIN runs
        /\ \A r \in DOMAIN runs :
             /\ m[r].head = runs[r].head /\ m[r].attempt = runs[r].attempt
             /\ m[r].event = runs[r].event /\ m[r].back = runs[r].back
             /\ m[r].status = "working" => r \notin tx[c].hits /\ runs[r].status = "working"
    BY MarkedRuns, Loaded
  <1>3. tx[c].pc = "commit" /\ (tx[c].new => Len(runs) < MaxRuns)
    BY CommitEffect DEF Commit, CommitInv
  <1> HIDE DEF m
  <1>4. CASE ~tx[c].new
    BY <1>1, <1>2, <1>4, RunTypes DEF SameRuns, SameRun
  <1>5. CASE tx[c].new
    <2>1. runs' = Append(m, NewRun(tx[c])) /\ NewRun(tx[c]) \in Run
      BY <1>1, <1>3, <1>5, NewRunTyped
    <2>2. /\ runs' \in Seq(Run) /\ Len(runs') = Len(runs) + 1
          /\ \A r \in 1..Len(runs) : runs'[r] = m[r]
          /\ runs'[Len(runs) + 1] = NewRun(tx[c])
      BY <1>2, <2>1, AppendProperties
    <2>3. DOMAIN runs' = 1..(Len(runs) + 1) /\ DOMAIN runs = 1..Len(runs) /\ Len(runs) \in Nat
      BY <2>2, LenProperties, RunTypes
    <2>4. DOMAIN runs' = DOMAIN runs \cup {Len(runs) + 1}
      BY <2>3
    <2>5. Len(runs') <= MaxRuns
      BY <1>3, <1>5, <2>2, <2>3, RequestAssumption
    <2>6. \A r \in DOMAIN runs : runs'[r] = m[r]
      BY <2>2, <2>3
    <2> QED BY <1>2, <1>5, <2>2, <2>4, <2>5, <2>6 DEF SameRun
  <1> QED BY <1>4, <1>5

\* The commit of a request.
LEMMA CommitStep ==
    ASSUME TypeOK, RequestInv, NEW c \in Clients, Commit(c)
    PROVE  TypeOK' /\ RequestInv'
  <1> DEFINE e == tx[c].event
             N == Len(runs) + 1
             h == Revision(tx[c]).head
  <1>1. TypeOK'
    BY CommitEffect, WrittenRuns DEF TypeOK
  <1>2. CASE ~tx[c].new
    <2>1. \A d \in DOMAIN sent : e = <<"webhook", d>> /\ sent[d].action \in ReviewActions
            => inbox'[e].run \in RunsOf(sent[d].pr.head)
      BY <1>2, CommitEffect DEF CommitInv
    <2>2. SameRuns /\ Len(runs') = Len(runs)
      BY <1>2, WrittenRuns
    <2>3. tx'[c].pc = "idle"
      BY CommitEffect, Idle
    <2>4. \E f \in Events :
               /\ Answers(f)
               /\ \A d \in Clients \ {c} : tx[d].pc # "idle" => tx[d].event # f
               /\ \A d \in DOMAIN sent :
                    f = <<"webhook", d>> /\ sent[d].action \in ReviewActions
                    => inbox'[f].run \in RunsOf(sent[d].pr.head)
      BY <2>1, CommitEffect
    <2> QED BY <1>1, <2>2, <2>3, <2>4, CommitEffect, KeepsInv
  <1>3. CASE tx[c].new
    <2>1. /\ DOMAIN runs' = DOMAIN runs \cup {N} /\ runs'[N] = NewRun(tx[c])
          /\ \A r \in DOMAIN runs : SameRun(r)
      BY <1>3, WrittenRuns
    <2>2. /\ h \in 1..MaxHead /\ runs'[N].head = h /\ runs'[N].event = e
          /\ runs'[N].attempt = Cardinality(RunsOf(h)) + 1
      BY <1>3, <2>1, NewRunTyped DEF Commit
    <2>3. N \notin DOMAIN runs /\ \A r \in DOMAIN runs : r < N /\ r \in Nat
      BY RunTypes
    <2> HIDE DEF N, h, e
    <2>4. \A k : RunsOf(k)' = IF k = h THEN RunsOf(h) \cup {N} ELSE RunsOf(k)
      BY <2>1, <2>2 DEF RunsOf, SameRun
    <2>5. Counted'
      <3> SUFFICES ASSUME NEW k \in 1..MaxHead
                   PROVE  /\ \A q \in RunsOf(k)' : runs'[q].attempt <= Cardinality(RunsOf(k)')
                          /\ RunsOf(k)' # {} =>
                               \E q \in RunsOf(k)' : runs'[q].attempt = Cardinality(RunsOf(k)')
        BY DEF Counted
      <3>1. \A q \in RunsOf(k) : q \in DOMAIN runs /\ runs'[q].attempt = runs[q].attempt
        BY <2>1 DEF RunsOf, SameRun
      <3>2. /\ \A q \in RunsOf(k) : runs[q].attempt <= Cardinality(RunsOf(k))
            /\ RunsOf(k) # {} => \E q \in RunsOf(k) : runs[q].attempt = Cardinality(RunsOf(k))
        BY DEF RequestInv, Counted
      <3>3. CASE k # h
        BY <3>1, <3>2, <3>3, <2>4
      <3>4. CASE k = h
        <4>1. IsFiniteSet(RunsOf(k)) /\ N \notin RunsOf(k) /\ Cardinality(RunsOf(k)) \in Nat
          BY <2>3, RunsOfFinite DEF RunsOf
        <4>2. Cardinality(RunsOf(k) \cup {N}) = Cardinality(RunsOf(k)) + 1
          BY <4>1, FS_AddElement
        <4>3. \A q \in RunsOf(k) : runs[q].attempt \in Nat
          BY <3>1, RunTypes DEF Run, Ids
        <4>4. RunsOf(k)' = RunsOf(k) \cup {N} /\ runs'[N].attempt = Cardinality(RunsOf(k)) + 1
          BY <2>2, <2>4, <3>4
        <4>5. Cardinality(RunsOf(k)') = Cardinality(RunsOf(k)) + 1
          BY <4>2, <4>4
        <4>6. ASSUME NEW q \in RunsOf(k)'
              PROVE  runs'[q].attempt <= Cardinality(RunsOf(k)')
          <5>1. CASE q = N
            BY <4>1, <4>4, <4>5, <5>1
          <5>2. CASE q \in RunsOf(k)
            BY <3>1, <3>2, <4>1, <4>3, <4>5, <5>2
          <5> QED BY <4>4, <5>1, <5>2
        <4>7. \E q \in RunsOf(k)' : runs'[q].attempt = Cardinality(RunsOf(k)')
          BY <4>4, <4>5
        <4> QED BY <4>6, <4>7
      <3> QED BY <3>3, <3>4
    <2>6. e \in Events /\ Answers(e) /\ inbox'[e].run = N /\ inbox'[e].status # "none"
      BY <1>3, CommitEffect DEF e, N
    <2>7. \A r \in DOMAIN runs : runs[r].event \in Events
      BY RunTypes DEF Run
    <2>8. Caused'
      <3>1. ASSUME NEW r \in DOMAIN runs
            PROVE  inbox'[runs'[r].event].run = r /\ inbox'[runs'[r].event].status # "none"
        <4>1. runs'[r].event = runs[r].event
          BY <2>1 DEF SameRun
        <4> QED BY <2>6, <2>7, <4>1 DEF RequestInv, Caused, Answers
      <3> QED BY <2>1, <2>2, <2>6, <3>1 DEF Caused
    <2>9. Sequential'
      <3> SUFFICES ASSUME NEW a \in DOMAIN runs', NEW b \in DOMAIN runs', a < b,
                          runs'[a].head = runs'[b].head, runs'[a].status = "working"
                   PROVE  runs'[a].back \/ runs'[b].event[1] = "mention"
        BY DEF Sequential
      <3>1. a \in DOMAIN runs
        <4>1. a \in Nat /\ b \in Nat /\ b <= N
          BY <1>1, <2>1, <2>3, RunTypes DEF N
        <4> QED BY <2>1, <4>1 DEF N
      <3>2. SameRun(a)
        BY <2>1, <3>1
      <3>3. CASE b \in DOMAIN runs
        BY <2>1, <3>1, <3>2, <3>3 DEF RequestInv, Sequential, SameRun
      <3>4. CASE b = N
        <4>1. a \in RunsOf(h) /\ runs'[b].event = e
          BY <2>2, <3>1, <3>2, <3>4 DEF RunsOf, SameRun
        <4>2. runs[a].status = "working" => runs[a].back \/ e[1] = "mention"
          BY <1>3, <4>1, CommitEffect DEF CommitInv, h, e
        <4> QED BY <3>2, <4>1, <4>2 DEF SameRun
      <3> QED BY <2>1, <3>3, <3>4
    <2>10. UNCHANGED sent
      BY CommitEffect
    <2>11. NoRevisionForgotten'
      <3> SUFFICES ASSUME NEW d \in DOMAIN sent, sent[d].action \in ReviewActions,
                          inbox'[<<"webhook", d>>].status # "none"
                   PROVE  inbox'[<<"webhook", d>>].run \in RunsOf(sent[d].pr.head)'
        BY <2>10 DEF NoRevisionForgotten, RunsOf
      <3>1. <<"webhook", d>> \in Events
        BY WebhookTypes
      <3>2. CASE <<"webhook", d>> # e
        <4>1. inbox'[<<"webhook", d>>] = inbox[<<"webhook", d>>]
          BY <2>6, <3>1, <3>2 DEF Answers
        <4>2. inbox[<<"webhook", d>>].run \in RunsOf(sent[d].pr.head)
          BY <4>1 DEF RequestInv, NoRevisionForgotten
        <4> QED BY <2>1, <2>10, <4>1, <4>2 DEF RunsOf, SameRun
      <3>3. CASE <<"webhook", d>> = e
        <4>1. tx[c].event[1] = "webhook" /\ tx[c].event[2] = d
          BY <3>3 DEF e
        <4>2. tx[c].source = 0
          BY <4>1, CommitEffect DEF TxInv, Commit
        <4>3. h = sent[d].pr.head
          BY <4>1, <4>2 DEF h, Revision
        <4>4. N \in RunsOf(sent[d].pr.head)'
          BY <2>1, <2>2, <2>10, <4>3 DEF RunsOf
        <4> QED BY <2>6, <3>3, <4>4
      <3> QED BY <3>2, <3>3
    <2>12. ASSUME NEW d \in Clients \ {c} PROVE TxInv(d)'
      <3>1. /\ TxInv(d) /\ tx'[d] = tx[d] /\ tx[d].pc # "commit"
            /\ tx[d].pc # "idle" => tx[d].event # e
        BY CommitEffect DEF RequestInv, e
      <3>2. tx[d].pc # "idle" => inbox'[tx[d].event].status = "none"
        BY <2>6, <3>1 DEF TxInv, Answers
      <3>3. Exists(context') /\ DOMAIN runs \subseteq DOMAIN runs'
        BY CommitEffect, WrittenRuns
      <3> QED BY <2>1, <2>10, <3>1, <3>2, <3>3, KeepTx
    <2>13. \A d \in Clients : TxInv(d)'
      BY <2>12, CommitEffect
    <2>14. Distinct'
      <3>1. \A d \in Clients \ {c} : tx'[d] = tx[d] /\ (tx[d].pc # "idle" => tx[d].event \in Events)
        BY CommitEffect, Loaded
      <3>2. tx'[c].pc = "idle" /\ tx'[c].event = NoEvent
        BY CommitEffect, Idle
      <3> QED BY <3>1, <3>2, NoEventIsNone DEF RequestInv, Distinct
    <2> QED BY <1>1, <2>5, <2>8, <2>9, <2>11, <2>13, <2>14 DEF RequestInv
  <1> QED BY <1>2, <1>3

-----------------------------------------------------------------------------
(* The invariants *)

LEMMA InitKeeps == Init => TypeOK /\ RequestInv
  <1> SUFFICES ASSUME Init PROVE TypeOK /\ RequestInv
    OBVIOUS
  <1>1. sent \in Seq(Webhook) /\ Len(sent) <= MaxWebhooks
    BY RequestAssumption DEF Init
  <1>2. runs = <<>> /\ DOMAIN runs = {} /\ runs \in Seq(Run) /\ Len(runs) = 0
    BY DEF Init
  <1>3. inbox \in [Events -> Entry]
    BY RequestAssumption DEF Init, Entry
  <1>4. TypeOK
    BY <1>1, <1>2, <1>3, Idle, RequestAssumption DEF Init, TypeOK
  <1>5. \A h : RunsOf(h) = {}
    BY <1>2 DEF RunsOf
  <1>6. Counted /\ Caused /\ Sequential
    BY <1>2, <1>5 DEF Counted, Caused, Sequential
  <1>7. NoRevisionForgotten
    BY <1>4, WebhookTypes DEF Init, NoRevisionForgotten
  <1>8. ASSUME NEW c \in Clients PROVE TxInv(c) /\ tx[c].pc = "idle"
    <2>1. tx[c] = IdleTx
      BY DEF Init
    <2> QED BY <2>1 DEF TxInv, IdleTx, Exists, NoContext
  <1> QED BY <1>4, <1>6, <1>7, <1>8 DEF RequestInv, Distinct

\* Every step preserves the types and RequestInv together.
LEMMA NextKeeps ==
    ASSUME TypeOK, RequestInv, [Next]_vars
    PROVE  TypeOK' /\ RequestInv'
  <1>1. CASE WebhookStep
    BY <1>1, ReceiveCommandStep, ReceiveWebhookStep, ApplyWebhookStep DEF WebhookStep
  <1>2. CASE RequestStep
    <2>1. PICK c \in Clients :
            \/ \E s \in Ids : RetryRequest(c, s)
            \/ \E s \in Ids, k \in Ids : RerunRequest(c, k, s)
            \/ \E d \in Webhooks, kind \in {"agent_retry", "agent_rerun"} :
                 AgentRequest(c, kind, d)
            \/ \E d \in Webhooks : BeginMention(c, d)
            \/ ApplyRequest(c) \/ ApplyMention(c)
      BY <1>2 DEF RequestStep
    <2>2. ASSUME NEW s \in Ids, RetryRequest(c, s) PROVE TypeOK' /\ RequestInv'
      BY <2>2, BeginRequestStep DEF RetryRequest, IsRetry
    <2>3. ASSUME NEW s \in Ids, NEW k \in Ids, RerunRequest(c, k, s)
          PROVE  TypeOK' /\ RequestInv'
      BY <2>3, BeginRequestStep DEF RerunRequest, IsRerun
    <2>4. ASSUME NEW d \in Webhooks, NEW kind \in {"agent_retry", "agent_rerun"},
                 AgentRequest(c, kind, d)
          PROVE  TypeOK' /\ RequestInv'
      <3>1. BeginRequest(c, <<kind, d>>, LatestRun(commands[d]))
        BY <2>4 DEF AgentRequest
      <3>2. IsRetry(<<kind, d>>) \/ IsRerun(<<kind, d>>)
        BY DEF IsRetry, IsRerun
      <3> QED BY <3>1, <3>2, BeginRequestStep
    <2> QED BY <2>1, <2>2, <2>3, <2>4, BeginMentionStep, ApplyRequestStep, ApplyMentionStep
  <1>3. CASE RunStep
    BY <1>3, RunStepKeeps
  <1>4. ASSUME NEW c \in Clients, Commit(c) \/ Rollback(c) PROVE TypeOK' /\ RequestInv'
    BY <1>4, CommitStep, RollbackStep
  <1>5. CASE UNCHANGED vars
    <2>1. /\ UNCHANGED <<sent, context, inbox, commands, runs, lock, tx>>
          /\ NoClient \notin Clients
      BY <1>5, RequestAssumption DEF vars
    <2>2. TypeOK'
      BY <2>1 DEF TypeOK
    <2> QED BY <2>1, <2>2, KeepsInv, RunsUnchanged
  <1> QED BY <1>1, <1>2, <1>3, <1>4, <1>5 DEF Next

\* RequestInv is an invariant.
LEMMA Inductive == Spec => [](TypeOK /\ RequestInv)
  <1>1. Init => TypeOK /\ RequestInv
    BY InitKeeps
  <1>2. TypeOK /\ RequestInv /\ [Next]_vars => (TypeOK /\ RequestInv)'
    BY NextKeeps
  <1> QED BY <1>1, <1>2, PTL DEF Spec

\* Context, inbox, runs and transactions keep their shape for any number of
\* clients, histories and requests, and no revision gets more runs than there are.
THEOREM TypeCorrect == Spec => []TypeOK
  BY Inductive, PTL

\* An event makes at most one run, however often and however concurrently it is
\* delivered (accept_provider_webhook, handle_review_requested).
THEOREM EventsRunOnce == Spec => []OneRunPerEvent
  <1>1. RequestInv => OneRunPerEvent
    BY DEF RequestInv, Caused, OneRunPerEvent
  <1> QED BY <1>1, Inductive, PTL

\* A revision that an accepted webhook asks to review has a run
\* (accept_provider_webhook, handle_review_requested).
THEOREM RevisionsAreReviewed == Spec => []NoRevisionForgotten
  <1>1. RequestInv => NoRevisionForgotten
    BY DEF RequestInv
  <1> QED BY <1>1, Inductive, PTL

\* A revision is reviewed by one run at a time, but for mentions and for runs
\* that their worker has brought back (handle_review_requested).
THEOREM ReviewsAreSequential == Spec => []OneReviewPerHead
  <1>1. RequestInv => OneReviewPerHead
    BY DEF RequestInv, Sequential, OneReviewPerHead
  <1> QED BY <1>1, Inductive, PTL

-----------------------------------------------------------------------------
(* What a step does to the committed rows *)

\* An event is answered outside of a commit: a command, or a refused request.
AnswersAside ==
    \E e \in Events :
        /\ Answers(e) /\ inbox'[e].status # "none"
        /\ \A d \in DOMAIN sent : e = <<"webhook", d>> => sent[d].action = "command"

\* A retry or rerun request that begins is loaded or refused.
LEMMA RequestAside ==
    ASSUME TypeOK, RequestInv, NEW c \in Clients, NEW e, NEW s, BeginRequest(c, e, s),
           IsRetry(e) \/ IsRerun(e)
    PROVE  SameRuns /\ (UNCHANGED inbox \/ AnswersAside)
  <1>1. /\ e \in Requests /\ Insertable(e) /\ UNCHANGED runs
        /\ UNCHANGED inbox \/ RejectedEvent(e, s)
    BY DEF BeginRequest
  <1>2. e \in Events /\ \A d \in DOMAIN sent : e # <<"webhook", d>>
    BY <1>1, RequestAssumption DEF IsRetry, IsRerun
  <1>3. RejectedEvent(e, s) => Answers(e) /\ inbox'[e].status # "none"
    BY <1>1, <1>2 DEF RejectedEvent, Answers, Insertable, TypeOK
  <1> QED BY <1>1, <1>2, <1>3, RunsUnchanged DEF AnswersAside

\* Only a commit adds runs; other steps answer a command, refuse a request, or
\* answer nothing.
LEMMA StepKinds ==
    ASSUME TypeOK, RequestInv, [Next]_vars
    PROVE  \/ SameRuns /\ (UNCHANGED inbox \/ AnswersAside)
           \/ \E c \in Clients : Commit(c)
  <1>1. CASE WebhookStep
    <2>1. ASSUME NEW d \in Webhooks, ReceiveCommand(d) PROVE SameRuns /\ AnswersAside
      <3>1. /\ d \in DOMAIN sent /\ sent[d].action = "command" /\ UNCHANGED runs
            /\ Insertable(<<"webhook", d>>)
            /\ inbox' = [inbox EXCEPT ![<<"webhook", d>>].status = "queued"]
        BY <2>1 DEF ReceiveCommand
      <3>2. <<"webhook", d>> \in Events
        BY <3>1, WebhookTypes
      <3>3. Answers(<<"webhook", d>>) /\ inbox'[<<"webhook", d>>].status # "none"
        BY <3>1, <3>2 DEF Answers, Insertable, TypeOK, Entry
      <3> QED BY <3>1, <3>2, <3>3, RunsUnchanged DEF AnswersAside
    <2>2. ASSUME NEW c \in Clients, NEW d \in Webhooks,
                 ReceiveWebhook(c, d) \/ ApplyWebhook(c, d)
          PROVE  SameRuns /\ UNCHANGED inbox
      BY <2>2, RunsUnchanged DEF ReceiveWebhook, ApplyWebhook
    <2> QED BY <1>1, <2>1, <2>2 DEF WebhookStep
  <1>2. CASE RequestStep
    <2>1. PICK c \in Clients :
            \/ \E s \in Ids : RetryRequest(c, s)
            \/ \E s \in Ids, k \in Ids : RerunRequest(c, k, s)
            \/ \E d \in Webhooks, kind \in {"agent_retry", "agent_rerun"} :
                 AgentRequest(c, kind, d)
            \/ \E d \in Webhooks : BeginMention(c, d)
            \/ ApplyRequest(c) \/ ApplyMention(c)
      BY <1>2 DEF RequestStep
    <2> DEFINE Goal == SameRuns /\ (UNCHANGED inbox \/ AnswersAside)
    <2>2. ASSUME NEW s \in Ids, RetryRequest(c, s) PROVE Goal
      BY <2>2, RequestAside DEF RetryRequest, IsRetry
    <2>3. ASSUME NEW s \in Ids, NEW k \in Ids, RerunRequest(c, k, s) PROVE Goal
      BY <2>3, RequestAside DEF RerunRequest, IsRerun
    <2>4. ASSUME NEW d \in Webhooks, NEW kind \in {"agent_retry", "agent_rerun"},
                 AgentRequest(c, kind, d)
          PROVE  Goal
      <3>1. BeginRequest(c, <<kind, d>>, LatestRun(commands[d]))
        BY <2>4 DEF AgentRequest
      <3>2. IsRetry(<<kind, d>>) \/ IsRerun(<<kind, d>>)
        BY DEF IsRetry, IsRerun
      <3> QED BY <3>1, <3>2, RequestAside
    <2>5. ASSUME NEW d \in Webhooks, BeginMention(c, d) PROVE Goal
      BY <2>5, RunsUnchanged DEF BeginMention
    <2>6. CASE ApplyMention(c)
      BY <2>6, RunsUnchanged DEF ApplyMention
    <2>7. CASE ApplyRequest(c)
      <3>1. /\ tx[c].pc = "loaded" /\ tx[c].source # 0 /\ UNCHANGED runs
            /\ UNCHANGED inbox \/ RejectedEvent(tx[c].event, tx[c].source)
        BY <2>7 DEF ApplyRequest
      <3>2. /\ tx[c].event \in Events /\ inbox[tx[c].event].status = "none"
            /\ tx[c].event[1] # "webhook"
        BY <3>1 DEF RequestInv, TxInv
      <3>3. RejectedEvent(tx[c].event, tx[c].source) =>
              Answers(tx[c].event) /\ inbox'[tx[c].event].status # "none"
        BY <3>2 DEF RejectedEvent, Answers, TypeOK
      <3>4. \A d \in DOMAIN sent : tx[c].event # <<"webhook", d>>
        BY <3>2
      <3> QED BY <3>1, <3>2, <3>3, <3>4, RunsUnchanged DEF AnswersAside
    <2> QED BY <2>1, <2>2, <2>3, <2>4, <2>5, <2>6, <2>7
  <1>3. CASE RunStep
    BY <1>3, RunStepKeeps DEF RunStep, CancelRun, RunEnds, WorkerGoesOn, CancellationDelivered
  <1>4. ASSUME NEW c \in Clients, Rollback(c) PROVE SameRuns /\ UNCHANGED inbox
    BY <1>4, RunsUnchanged DEF Rollback
  <1>5. CASE UNCHANGED vars
    BY <1>5, RunsUnchanged DEF vars
  <1> QED BY <1>1, <1>2, <1>3, <1>4, <1>5 DEF Next

\* When the webhook that closes the pull request is committed, no review of it
\* goes on but one that its worker has brought back (accept_provider_webhook,
\* cancel_active_review_runs_for_pr).
THEOREM ClosingStops == Spec => CloseStopsReviews
  <1>1. ASSUME TypeOK, RequestInv, [Next]_vars
        PROVE  [\A d \in DOMAIN sent :
                  /\ sent[d].action = "closed"
                  /\ inbox[<<"webhook", d>>].status = "none"
                  /\ inbox'[<<"webhook", d>>].status # "none"
                  => \A r \in DOMAIN runs' :
                       runs'[r].status = "working" => runs'[r].back]_vars
    <2> SUFFICES ASSUME NEW d \in DOMAIN sent, sent[d].action = "closed",
                        inbox[<<"webhook", d>>].status = "none",
                        inbox'[<<"webhook", d>>].status # "none"
                 PROVE  \A r \in DOMAIN runs' :
                          runs'[r].status = "working" => runs'[r].back
      OBVIOUS
    <2>1. <<"webhook", d>> \in Events
      BY <1>1, WebhookTypes
    <2>2. ~(UNCHANGED inbox \/ AnswersAside)
      BY <2>1 DEF AnswersAside, Answers
    <2>3. PICK c \in Clients : Commit(c)
      BY <1>1, <2>2, StepKinds
    <2>4. tx[c].event = <<"webhook", d>> /\ CommitInv(c)
      BY <1>1, <2>1, <2>3, CommitEffect DEF Answers
    <2>5. ~tx[c].new /\ \A r \in DOMAIN runs :
            runs[r].status = "working" => runs[r].back \/ r \in tx[c].hits
      BY <2>4 DEF CommitInv
    <2> QED BY <1>1, <2>3, <2>5, WrittenRuns DEF SameRuns
  <1> QED BY <1>1, Inductive, PTL DEF Spec, CloseStopsReviews

-----------------------------------------------------------------------------
(* The refinement of ReviewLedger *)

\* Progress of runs and transactions is invisible to the ledger.
LEMMA LedgerStutters ==
    ASSUME SameRuns, UNCHANGED inbox PROVE UNCHANGED Ledger!vars
  BY DEF SameRuns, SameRun, Ledger!vars

\* An answer without a new run is an Answer of the ledger.
LEMMA LedgerAnswers ==
    ASSUME SameRuns, NEW e \in Events, Answers(e), inbox'[e].status # "none"
    PROVE  Ledger!Next
  <1> DEFINE A == {f \in Events : inbox[f].status # "none"}
  <1>1. A' = A \cup {e} /\ e \notin A
    BY DEF Answers
  <1>2. UNCHANGED [r \in DOMAIN runs |->
                     [event |-> runs[r].event, head |-> runs[r].head,
                      attempt |-> runs[r].attempt]]
    BY DEF SameRuns, SameRun
  <1>3. Ledger!Answer(e)
    BY <1>1, <1>2 DEF Ledger!Answer
  <1>4. e \in Events \cap (A' \ A)
    BY <1>1
  <1> QED BY <1>3, <1>4 DEF Ledger!Next

Entries ==
    [r \in DOMAIN runs |-> [event |-> runs[r].event, head |-> runs[r].head,
                            attempt |-> runs[r].attempt]]

\* An answer with a new run is a Review of the ledger ...
LEMMA LedgerAppends ==
    ASSUME NEW e \in Events, NEW h \in 1..MaxHead, Answers(e), inbox'[e].status # "none",
           Entries' = Append(Entries, [event |-> e, head |-> h,
                                       attempt |-> Cardinality(RunsOf(h)) + 1])
    PROVE  Ledger!Next
  <1> DEFINE A == {f \in Events : inbox[f].status # "none"}
             v == [event |-> e, head |-> h, attempt |-> Cardinality(RunsOf(h)) + 1]
  <1>1. A' = A \cup {e} /\ e \notin A
    BY DEF Answers
  <1>2. e \in Events \cap (A' \ A)
    BY <1>1
  <1>3. v = [event |-> e, head |-> h,
             attempt |-> Ledger!Cardinality(Ledger!ReviewsOf(h)) + 1]
    <2>1. Ledger!ReviewsOf(h) = RunsOf(h)
      BY DEF Ledger!ReviewsOf, RunsOf
    <2>2. \A S : Ledger!Cardinality(S) = Cardinality(S)
      BY DEF Ledger!Cardinality, Cardinality
    <2> QED BY <2>1, <2>2
  <1> HIDE DEF v
  <1>4. Entries' = Append(Entries, v)
    BY DEF v
  <1>5. Ledger!Review(e, h)
    BY <1>1, <1>3, <1>4 DEF Ledger!Review, Entries
  <1> QED BY <1>2, <1>5 DEF Ledger!Next

\* ... and the commit of a new run is such an answer.
LEMMA LedgerReviews ==
    ASSUME TypeOK, TypeOK', RequestInv, NEW c \in Clients, Commit(c), tx[c].new
    PROVE  Ledger!Next
  <1> DEFINE V == Entries
             e == tx[c].event
             h == Revision(tx[c]).head
             v == [event |-> e, head |-> h, attempt |-> Cardinality(RunsOf(h)) + 1]
             R == [event : Events, head : 1..MaxHead, attempt : Ids]
  <1>1. e \in Events /\ Answers(e) /\ inbox'[e].status # "none"
    BY CommitEffect
  <1>3. /\ DOMAIN runs' = DOMAIN runs \cup {Len(runs) + 1}
        /\ runs'[Len(runs) + 1] = NewRun(tx[c])
        /\ \A r \in DOMAIN runs : SameRun(r)
    BY WrittenRuns
  <1>4. /\ h \in 1..MaxHead /\ NewRun(tx[c]).head = h /\ NewRun(tx[c]).event = e
        /\ NewRun(tx[c]).attempt = Cardinality(RunsOf(h)) + 1 /\ NewRun(tx[c]) \in Run
    BY NewRunTyped DEF Commit
  <1>5. /\ Len(runs) \in Nat /\ DOMAIN runs = 1..Len(runs)
        /\ \A r \in DOMAIN runs : runs[r] \in Run
    BY RunTypes
  <1>6. V \in Seq(R) /\ Len(V) = Len(runs)
    <2>1. V \in [1..Len(runs) -> R]
      BY <1>5 DEF Run, Entries
    <2> QED BY <1>5, <2>1, FunctionIsSeq
  <1>7. v \in R
    BY <1>1, <1>4 DEF Run
  <1>8. V' = Append(V, v)
    <2>1. /\ Append(V, v) \in Seq(R) /\ Len(Append(V, v)) = Len(runs) + 1
          /\ \A i \in 1..Len(runs) : Append(V, v)[i] = V[i]
          /\ Append(V, v)[Len(runs) + 1] = v
      BY <1>6, <1>7, AppendProperties
    <2>2. \A r \in DOMAIN runs' : runs'[r] \in Run
      BY WrittenRuns, LenProperties
    <2>3. DOMAIN runs' = 1..(Len(runs) + 1)
      BY <1>3, <1>5
    <2>4. V' \in [1..(Len(runs) + 1) -> R]
      BY <2>2, <2>3 DEF Run, Entries
    <2>5. V' \in Seq(R) /\ Len(V') = Len(runs) + 1
      <3>1. Len(runs) + 1 \in Nat
        BY <1>5
      <3> QED BY <2>4, <3>1, FunctionIsSeq
    <2>6. ASSUME NEW i \in 1..(Len(runs) + 1) PROVE V'[i] = Append(V, v)[i]
      <3>1. V'[i] = [event |-> runs'[i].event, head |-> runs'[i].head,
                     attempt |-> runs'[i].attempt]
        BY <2>3 DEF Entries
      <3>2. CASE i \in DOMAIN runs
        BY <1>3, <1>5, <2>1, <3>1, <3>2 DEF SameRun, Entries
      <3>3. CASE i = Len(runs) + 1
        BY <1>3, <1>4, <2>1, <3>1, <3>3
      <3>4. i \in DOMAIN runs \/ i = Len(runs) + 1
        BY <1>5
      <3> QED BY <3>2, <3>3, <3>4
    <2> HIDE DEF V, v, R
    <2> QED BY <2>1, <2>5, <2>6, SeqEqual
  <1> QED BY <1>1, <1>4, <1>8, LedgerAppends DEF Entries

\* Whatever transactions overlap, fail or are repeated, the committed rows go
\* through the steps of ReviewLedger (accept_provider_webhook,
\* handle_review_requested, _create_review_run_record).
THEOREM Refinement == Spec => ImplementsLedger
  <1>1. Init => Ledger!Init
    BY DEF Init, Ledger!Init
  <1>2. ASSUME TypeOK, RequestInv, [Next]_vars
        PROVE  [Ledger!Next]_(Ledger!vars)
    <2>1. CASE SameRuns /\ UNCHANGED inbox
      BY <2>1, LedgerStutters
    <2>2. CASE SameRuns /\ AnswersAside
      BY <2>2, LedgerAnswers DEF AnswersAside
    <2>3. ASSUME NEW c \in Clients, Commit(c) PROVE Ledger!Next
      <3>1. CASE tx[c].new
        BY <1>2, <2>3, <3>1, LedgerReviews, NextKeeps
      <3>2. CASE ~tx[c].new
        BY <1>2, <2>3, <3>2, CommitEffect, WrittenRuns, LedgerAnswers
      <3> QED BY <3>1, <3>2
    <2> QED BY <1>2, <2>1, <2>2, <2>3, StepKinds
  <1> QED BY <1>1, <1>2, Inductive, PTL DEF Spec, ImplementsLedger, Ledger!Spec
=============================================================================
