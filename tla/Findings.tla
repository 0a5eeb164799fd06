------------------------------ MODULE Findings ------------------------------
(***************************************************************************)
(* The findings of the reviews of one pull request: how the result of a    *)
(* session is parsed and stored, and reconciled with the findings of the   *)
(* run that was completed last (domain/review_results.py,                  *)
(* domain/reconciliation.py).  ReviewExecution has the rest of a run.      *)
(***************************************************************************)
EXTENDS Naturals, Sequences

CONSTANTS
    Revisions,  \* pairs of base and head commit
    Issues,     \* what is reported: path, severity and message, normalized
    MaxRuns     \* bound: reviews

Ids == 1..MaxRuns

ASSUME FindingsAssumption == MaxRuns \in Nat

VARIABLES
    runs,       \* the review runs in the order of their creation
    done,       \* the order of completed_at: pairs of an earlier and a later run
    finding     \* the Finding rows, by run and issue: (run, fingerprint) is unique

vars == <<runs, done, finding>>

-----------------------------------------------------------------------------
(* Values *)

\* agent: its session works or has an answer; delivering: the answer is stored.
Run == [revision : Revisions, status : {"agent", "delivering", "completed", "ended"},
        reported : SUBSET Issues]
Keys == Ids \X Issues
NoRow == [status |-> "none", first |-> 0, by |-> 0]
\* first: first_seen_run_id; by: resolved_run_id.
Row == [status : {"new", "existing", "resolved"}, first : Ids, by : 0..MaxRuns]

Stored(r) == runs[r].status \in {"delivering", "completed"}
Active(k) == finding[k].status \in {"new", "existing"}

\* build_fingerprint
Fingerprint(r, i) == <<runs[r].revision, i>>

-----------------------------------------------------------------------------
(* Reviews *)

NewRun(revision) ==
    /\ Len(runs) < MaxRuns
    /\ runs' = Append(runs, [revision |-> revision, status |-> "agent",
                             reported |-> {}])
    /\ UNCHANGED <<done, finding>>

Candidates(r) == {q \in DOMAIN runs : q # r /\ runs[q].status = "completed"}

\* p is the run of _previous_active_findings (0: there is none).
Previous(r, p) ==
    \/ p = 0 /\ Candidates(r) = {}
    \/ p \in Candidates(r) /\ \A q \in Candidates(r) \ {p} : <<q, p>> \in done

PreviousActive(p) == {k \in Keys : k[1] = p /\ Active(k)}

\* mutant: the run before is taken for the first.
FirstSeenBefore(k) == k[1]

\* mutant: the column is not set.
FirstSeenUnset(k) == 0

\* The run that saw a finding first, given its row in the previous run.
FirstSeen(k) == finding[k].first

\* The row for an issue the run reports and has no row for yet.
Recorded(r, p, i) ==
    LET same == {k \in PreviousActive(p) : Fingerprint(k[1], k[2]) = Fingerprint(r, i)}
    IN  IF same = {} THEN [status |-> "new", first |-> r, by |-> 0]
        ELSE [status |-> "existing", first |-> FirstSeen(CHOOSE k \in same : TRUE),
              by |-> 0]

Seen(r, issues) == {Fingerprint(r, i) : i \in issues}

\* mutant: what was found before is resolved by the next run.
ResolvedByNext(r, p, issues) == PreviousActive(p)

ResolvedBy(r, p, issues) ==
    {k \in PreviousActive(p) : Fingerprint(k[1], k[2]) \notin Seen(r, issues)}

\* persist_and_reconcile_findings
Reconciled(r, p, issues) ==
    [k \in Keys |->
       CASE k[1] = r /\ k[2] \in issues /\ finding[k].status = "none" ->
              Recorded(r, p, k[2])
         [] k \in ResolvedBy(r, p, issues) ->
              [finding[k] EXCEPT !.status = "resolved", !.by = r]
         [] OTHER -> finding[k]]

Collect(r, issues) ==
    /\ \E p \in Ids \cup {0} : Previous(r, p) /\ finding' = Reconciled(r, p, issues)
    /\ runs' = [runs EXCEPT ![r] =
                  [@ EXCEPT !.status = "delivering", !.reported = issues]]

\* collect_review_result, in one transaction
CollectReviewResult(r) ==
    /\ r \in DOMAIN runs /\ runs[r].status = "agent"
    /\ \E issues \in SUBSET Issues : Collect(r, issues)
    /\ UNCHANGED done

\* A worker whose claim has expired comes with the same answer after another
\* one has stored it: what is there is not stored again.
CollectAgain(r) ==
    /\ r \in DOMAIN runs /\ Stored(r)
    /\ Collect(r, runs[r].reported)
    /\ UNCHANGED done

\* The answer is not a valid result, or reports an issue on two lines, so that
\* the rows violate uq_finding_run; or the run is cancelled or superseded.
EndsWithout(r) ==
    /\ r \in DOMAIN runs /\ runs[r].status \in {"agent", "delivering"}
    /\ runs' = [runs EXCEPT ![r] = [@ EXCEPT !.status = "ended"]]
    /\ UNCHANGED <<done, finding>>

\* The last mandatory delivery of the run has succeeded.
Delivered(r) ==
    /\ r \in DOMAIN runs /\ runs[r].status = "delivering"
    /\ runs' = [runs EXCEPT ![r] = [@ EXCEPT !.status = "completed"]]
    /\ done' = {d \in done : r \notin {d[1], d[2]}} \cup (Candidates(r) \X {r})
    /\ UNCHANGED finding

-----------------------------------------------------------------------------

Init ==
    /\ runs = <<>> /\ done = {}
    /\ finding = [k \in Keys |-> NoRow]

Next ==
    \/ \E revision \in Revisions : NewRun(revision)
    \/ \E r \in Ids : \/ CollectReviewResult(r) \/ CollectAgain(r)
                      \/ EndsWithout(r) \/ Delivered(r)

Spec == Init /\ [][Next]_vars

-----------------------------------------------------------------------------
(* Properties *)

\* Every row and counter keeps its shape.
TypeOK ==
    /\ runs \in Seq(Run) /\ Len(runs) <= MaxRuns
    /\ done \subseteq Ids \X Ids
    /\ finding \in [Keys -> Row \cup {NoRow}]

\* What a stored review reports is recorded once, and stays open until another
\* run of the same revision has come to a result without it, or one of another
\* revision, which knows nothing of it: no late worker and no result that
\* arrives out of order closes what its own run reports.
ReportedIsRecorded ==
    \A r \in DOMAIN runs : Stored(r) =>
        \A i \in Issues :
            /\ (finding[<<r, i>>].status # "none") = (i \in runs[r].reported)
            /\ finding[<<r, i>>].status = "resolved" =>
                 LET by == finding[<<r, i>>].by
                 IN  /\ by # r
                     /\ runs[by].revision = runs[r].revision => i \notin runs[by].reported

\* A finding that is carried over goes back to a run of the same revision that
\* has reported it as new, over any number of runs between.
FirstSeenIsFirst ==
    \A k \in Keys : finding[k].status = "existing" =>
        LET first == finding[k].first
        IN  /\ first # k[1]
            /\ finding[<<first, k[2]>>].first = first
            /\ runs[first].revision = runs[k[1]].revision
=============================================================================
