---------------------------- MODULE Findings_proofs ----------------------------
(***************************************************************************)
(* Proofs about Findings for any revisions, issues and number of runs: the *)
(* rows keep their types, what is reported is recorded, and what is        *)
(* carried over goes back to the run that saw it first.                    *)
(***************************************************************************)
EXTENDS Findings, SequenceTheorems, TLAPS

\* Only a run that has stored a result has rows, for what it reported.
RowsAreReported ==
    \A k \in Keys : finding[k].status # "none" =>
        /\ k[1] \in DOMAIN runs /\ runs[k[1]].status # "agent"
        /\ k[2] \in runs[k[1]].reported

\* A stored run has a row for all that it reported.
ReportedHasRow ==
    \A r \in DOMAIN runs : Stored(r) =>
        \A i \in runs[r].reported : finding[<<r, i>>].status # "none"

\* What is resolved was resolved by another run, whose result is settled.
ResolvedElsewhere ==
    \A k \in Keys : finding[k].status = "resolved" =>
        LET by == finding[k].by
        IN  /\ by \in DOMAIN runs /\ by # k[1] /\ runs[by].status # "agent"
            /\ runs[by].revision = runs[k[1]].revision => k[2] \notin runs[by].reported

\* A new finding was seen first by its own run.
NewIsFirst ==
    \A k \in Keys : finding[k].status = "new" => finding[k].first = k[1]

RecordInv ==
    /\ TypeOK
    /\ RowsAreReported /\ ReportedHasRow /\ ResolvedElsewhere
    /\ NewIsFirst /\ FirstSeenIsFirst

-----------------------------------------------------------------------------
(* Types *)

LEMMA RunIds == TypeOK => DOMAIN runs = 1..Len(runs) /\ DOMAIN runs \subseteq Ids
<1> SUFFICES ASSUME TypeOK PROVE DOMAIN runs = 1..Len(runs) /\ DOMAIN runs \subseteq Ids
  OBVIOUS
<1>1. DOMAIN runs = 1..Len(runs) /\ Len(runs) \in Nat /\ Len(runs) <= MaxRuns
  BY LenProperties DEF TypeOK
<1> QED
  BY <1>1, FindingsAssumption DEF Ids

LEMMA RunType == TypeOK => \A r \in DOMAIN runs : runs[r] \in Run
BY ElementOfSeq, RunIds, LenProperties DEF TypeOK

LEMMA KeyForm == \A k \in Keys : k[1] \in Ids /\ k[2] \in Issues /\ k = <<k[1], k[2]>>
BY DEF Keys

LEMMA KeyMake == \A r \in Ids, i \in Issues : /\ <<r, i>> \in Keys
                                              /\ <<r, i>>[1] = r /\ <<r, i>>[2] = i
BY DEF Keys

LEMMA RowForm ==
    TypeOK => \A k \in Keys :
        /\ finding[k].status # "none" => finding[k] \in Row
        /\ finding[k] = NoRow \/ finding[k] \in Row
        /\ finding[k].status = "none" <=> finding[k] = NoRow
BY DEF TypeOK, Row, NoRow

\* A run row that changes in status and report only.
LEMMA ChangedRun ==
    ASSUME TypeOK, NEW r \in DOMAIN runs, NEW row \in Run,
           runs' = [runs EXCEPT ![r] = row], row.revision = runs[r].revision
    PROVE  /\ runs' \in Seq(Run) /\ Len(runs') = Len(runs)
           /\ DOMAIN runs' = DOMAIN runs /\ runs'[r] = row
           /\ \A q \in DOMAIN runs \ {r} : runs'[q] = runs[q]
           /\ \A q \in DOMAIN runs : runs'[q].revision = runs[q].revision
<1>1. runs \in Seq(Run) /\ DOMAIN runs = 1..Len(runs)
  BY RunIds DEF TypeOK
<1>2. runs' \in Seq(Run) /\ Len(runs') = Len(runs)
  BY <1>1, ExceptSeq
<1> QED
  BY <1>1, <1>2

LEMMA InitialRecord == Init => RecordInv
<1> SUFFICES ASSUME Init PROVE RecordInv
  OBVIOUS
<1>1. runs = <<>> /\ Len(runs) = 0 /\ DOMAIN runs = {}
  BY DEF Init
<1>2. \A k \in Keys : finding[k] = NoRow /\ finding[k].status = "none"
  BY DEF Init, NoRow
<1>3. TypeOK
  BY <1>1, <1>2, FindingsAssumption DEF Init, TypeOK
<1> QED
  BY <1>1, <1>2, <1>3 DEF RecordInv, RowsAreReported, ReportedHasRow,
     ResolvedElsewhere, NewIsFirst, FirstSeenIsFirst

-----------------------------------------------------------------------------
(* Steps that leave the findings alone *)

LEMMA KeepsRecord ==
    ASSUME RecordInv, TypeOK', finding' = finding, DOMAIN runs \subseteq DOMAIN runs',
           \A q \in DOMAIN runs : /\ runs'[q].revision = runs[q].revision
                                  /\ runs'[q].reported = runs[q].reported
                                  /\ runs'[q].status = "agent" => runs[q].status = "agent"
                                  /\ Stored(q)' => Stored(q),
           \A q \in DOMAIN runs' \ DOMAIN runs : ~Stored(q)'
    PROVE  RecordInv'
<1>1. RowsAreReported'
  BY DEF RecordInv, RowsAreReported
<1>2. ReportedHasRow'
  BY DEF RecordInv, ReportedHasRow
<1>3. ResolvedElsewhere'
  <2> SUFFICES ASSUME NEW k \in Keys, finding[k].status = "resolved"
               PROVE  LET by == finding[k].by
                      IN  /\ by \in DOMAIN runs' /\ by # k[1] /\ runs'[by].status # "agent"
                          /\ runs'[by].revision = runs'[k[1]].revision
                               => k[2] \notin runs'[by].reported
    BY DEF ResolvedElsewhere
  <2>1. k[1] \in DOMAIN runs
    BY DEF RecordInv, RowsAreReported
  <2> QED
    BY <2>1 DEF RecordInv, ResolvedElsewhere
<1>4. NewIsFirst'
  BY DEF RecordInv, NewIsFirst
<1>5. FirstSeenIsFirst'
  <2> SUFFICES ASSUME NEW k \in Keys, finding[k].status = "existing"
               PROVE  LET first == finding[k].first
                      IN  /\ first # k[1]
                          /\ finding[<<first, k[2]>>].first = first
                          /\ runs'[first].revision = runs'[k[1]].revision
    BY DEF FirstSeenIsFirst
  <2> DEFINE f == finding[k].first
  <2>1. TypeOK /\ finding[k] \in Row
    BY RowForm DEF RecordInv
  <2>2. f \in Ids /\ k[2] \in Issues
    BY <2>1, KeyForm DEF Row
  <2>3. k[1] \in DOMAIN runs
    BY DEF RecordInv, RowsAreReported
  <2>4. f # k[1] /\ finding[<<f, k[2]>>].first = f /\ runs[f].revision = runs[k[1]].revision
    BY DEF RecordInv, FirstSeenIsFirst
  <2>5. f \in DOMAIN runs
    <3>1. <<f, k[2]>> \in Keys /\ <<f, k[2]>>[1] = f
      BY <2>2, KeyMake
    <3>2. f # 0
      BY <2>2, FindingsAssumption DEF Ids
    <3>3. finding[<<f, k[2]>>].status # "none"
      BY <2>1, <2>4, <3>1, <3>2, RowForm DEF NoRow
    <3> QED
      BY <3>1, <3>3 DEF RecordInv, RowsAreReported
  <2> QED
    BY <2>3, <2>4, <2>5
<1> QED
  BY <1>1, <1>2, <1>3, <1>4, <1>5 DEF RecordInv

LEMMA NewRunRecord ==
    ASSUME RecordInv, NEW revision \in Revisions, NewRun(revision)
    PROVE  RecordInv'
<1> DEFINE row == [revision |-> revision, status |-> "agent", reported |-> {}]
<1>0. TypeOK /\ runs \in Seq(Run) /\ Len(runs) \in Nat
  BY LenProperties DEF RecordInv, TypeOK
<1>1. row \in Run
  BY DEF Run
<1>2. runs' = Append(runs, row) /\ Len(runs) < MaxRuns /\ done' = done /\ finding' = finding
  BY DEF NewRun
<1> HIDE DEF row
<1>3. /\ runs' \in Seq(Run) /\ Len(runs') = Len(runs) + 1
      /\ DOMAIN runs' = 1..(Len(runs) + 1) /\ DOMAIN runs = 1..Len(runs)
      /\ \A q \in 1..Len(runs) : runs'[q] = runs[q]
      /\ runs'[Len(runs) + 1] = row
  BY <1>0, <1>1, <1>2, AppendProperties, LenProperties
<1>4. TypeOK'
  BY <1>0, <1>2, <1>3, FindingsAssumption DEF TypeOK
<1>5. \A q \in DOMAIN runs' \ DOMAIN runs : ~Stored(q)'
  <2>1. \A q \in DOMAIN runs' \ DOMAIN runs : q = Len(runs) + 1
    BY <1>0, <1>3
  <2> QED
    BY <1>3, <2>1 DEF Stored, row
<1>6. \A q \in DOMAIN runs : runs'[q] = runs[q]
  BY <1>3
<1>7. DOMAIN runs \subseteq DOMAIN runs'
  BY <1>0, <1>3
<1> QED
  BY <1>2, <1>4, <1>5, <1>6, <1>7, KeepsRecord DEF Stored

\* A run that ends, or is completed once its result is delivered.
LEMMA StatusRecord ==
    ASSUME RecordInv, NEW r \in DOMAIN runs, NEW status \in {"completed", "ended"},
           runs' = [runs EXCEPT ![r] = [@ EXCEPT !.status = status]],
           status = "completed" => runs[r].status = "delivering",
           finding' = finding, done' \subseteq Ids \X Ids
    PROVE  RecordInv'
<1> DEFINE row == [runs[r] EXCEPT !.status = status]
<1>0. TypeOK /\ runs[r] \in Run
  BY RunType DEF RecordInv
<1>1. /\ row \in Run /\ row.revision = runs[r].revision /\ row.status = status
      /\ row.reported = runs[r].reported
  BY <1>0 DEF Run
<1>2. runs' = [runs EXCEPT ![r] = row]
  OBVIOUS
<1> HIDE DEF row
<1>3. /\ runs' \in Seq(Run) /\ Len(runs') = Len(runs)
      /\ DOMAIN runs' = DOMAIN runs /\ runs'[r] = row
      /\ \A q \in DOMAIN runs \ {r} : runs'[q] = runs[q]
  BY <1>0, <1>1, <1>2, ChangedRun
<1>4. TypeOK'
  BY <1>0, <1>3 DEF TypeOK
<1>5. \A q \in DOMAIN runs : /\ runs'[q].revision = runs[q].revision
                             /\ runs'[q].reported = runs[q].reported
                             /\ runs'[q].status = "agent" => runs[q].status = "agent"
                             /\ Stored(q)' => Stored(q)
  BY <1>1, <1>3 DEF Stored
<1> QED
  BY <1>3, <1>4, <1>5, KeepsRecord

-----------------------------------------------------------------------------
(* A result is collected *)

\* What persist_and_reconcile_findings does to one row.
LEMMA ReconciledRow ==
    ASSUME RecordInv, NEW r \in DOMAIN runs, NEW issues \in SUBSET Issues,
           NEW p \in Ids \cup {0}, Previous(r, p), NEW k \in Keys
    PROVE  LET row == Reconciled(r, p, issues)[k]
               fresh == k[1] = r /\ k[2] \in issues /\ finding[k].status = "none"
           IN  \/ fresh /\ row = [status |-> "new", first |-> r, by |-> 0]
               \/ /\ fresh /\ p \in Candidates(r) /\ Active(<<p, k[2]>>)
                  /\ runs[p].revision = runs[r].revision
                  /\ row = [status |-> "existing", first |-> finding[<<p, k[2]>>].first,
                            by |-> 0]
               \/ /\ k[1] = p /\ p \in Candidates(r) /\ Active(k)
                  /\ runs[p].revision = runs[r].revision => k[2] \notin issues
                  /\ row = [finding[k] EXCEPT !.status = "resolved", !.by = r]
               \/ ~fresh /\ row = finding[k]
<1> DEFINE fresh == k[1] = r /\ k[2] \in issues /\ finding[k].status = "none"
           gone == k \in ResolvedBy(r, p, issues)
<1>0. \A m \in Keys : m[1] = p => p \in Candidates(r)
  BY KeyForm, FindingsAssumption DEF Previous, Ids
<1>1. Reconciled(r, p, issues)[k] =
        CASE fresh -> Recorded(r, p, k[2])
          [] gone -> [finding[k] EXCEPT !.status = "resolved", !.by = r]
          [] OTHER -> finding[k]
  BY DEF Reconciled
<1>2. gone => /\ k[1] = p /\ p \in Candidates(r) /\ Active(k)
              /\ runs[p].revision = runs[r].revision => k[2] \notin issues
  BY <1>0 DEF ResolvedBy, PreviousActive, Seen, Fingerprint
<1>3. ~(fresh /\ gone)
  BY <1>2 DEF Active
<1>4. Recorded(r, p, k[2]) = [status |-> "new", first |-> r, by |-> 0]
      \/ /\ p \in Candidates(r) /\ Active(<<p, k[2]>>)
         /\ runs[p].revision = runs[r].revision
         /\ Recorded(r, p, k[2]) =
              [status |-> "existing", first |-> finding[<<p, k[2]>>].first, by |-> 0]
  <2> DEFINE same == {m \in PreviousActive(p) : Fingerprint(m[1], m[2]) = Fingerprint(r, k[2])}
             m == CHOOSE x \in same : TRUE
  <2>1. CASE same = {}
    BY <2>1 DEF Recorded
  <2>2. CASE same # {}
    <3>1. m \in same
      BY <2>2
    <3>2. Recorded(r, p, k[2]) = [status |-> "existing", first |-> finding[m].first, by |-> 0]
      BY <2>2 DEF Recorded, FirstSeen
    <3>3. PICK x : x = m
      OBVIOUS
    <3>4. x \in Keys /\ x[1] = p /\ Active(x) /\ runs[x[1]].revision = runs[r].revision
          /\ x[2] = k[2]
      BY <3>1, <3>3 DEF PreviousActive, Fingerprint
    <3>5. x = <<p, k[2]>>
      BY <3>4, KeyForm
    <3> HIDE DEF m
    <3> QED
      BY <1>0, <3>2, <3>3, <3>4, <3>5
  <2> QED
    BY <2>1, <2>2
<1> HIDE DEF fresh, gone
<1>5. CASE fresh
  <2>1. Reconciled(r, p, issues)[k] = Recorded(r, p, k[2])
    BY <1>1, <1>3, <1>5
  <2> QED
    BY <1>4, <1>5, <2>1 DEF fresh
<1>6. CASE ~fresh /\ gone
  <2>1. Reconciled(r, p, issues)[k] = [finding[k] EXCEPT !.status = "resolved", !.by = r]
    BY <1>1, <1>6
  <2> QED
    BY <1>2, <1>6, <2>1
<1>7. CASE ~fresh /\ ~gone
  <2>1. Reconciled(r, p, issues)[k] = finding[k]
    BY <1>1, <1>7
  <2> QED
    BY <1>7, <2>1 DEF fresh
<1> QED
  BY <1>5, <1>6, <1>7

\* The row of an active finding says what the invariant needs of it: it was first
\* seen by a run that has a row for the issue and the same revision.
LEMMA ActiveRow ==
    ASSUME RecordInv, NEW k \in Keys, Active(k)
    PROVE  LET f == finding[k].first
           IN  /\ k[1] \in DOMAIN runs /\ f \in DOMAIN runs /\ <<f, k[2]>> \in Keys
               /\ finding[<<f, k[2]>>].first = f /\ finding[<<f, k[2]>>].status # "none"
               /\ runs[f].revision = runs[k[1]].revision
<1> DEFINE f == finding[k].first
<1>0. TypeOK /\ finding[k].status # "none" /\ finding[k] \in Row
  BY RowForm DEF RecordInv, Active
<1>1. f \in Ids /\ k[1] \in Ids /\ k[2] \in Issues /\ k = <<k[1], k[2]>> /\ f # 0
  BY <1>0, KeyForm, FindingsAssumption DEF Row, Ids
<1>2. k[1] \in DOMAIN runs
  BY <1>0 DEF RecordInv, RowsAreReported
<1>3. <<f, k[2]>> \in Keys /\ <<f, k[2]>>[1] = f
  BY <1>1, KeyMake
<1>4. finding[<<f, k[2]>>].first = f /\ runs[f].revision = runs[k[1]].revision
  <2>1. CASE finding[k].status = "new"
    BY <1>1, <2>1 DEF RecordInv, NewIsFirst
  <2>2. CASE finding[k].status = "existing"
    BY <2>2 DEF RecordInv, FirstSeenIsFirst
  <2> QED
    BY <2>1, <2>2 DEF Active
<1>5. finding[<<f, k[2]>>].status # "none"
  BY <1>0, <1>1, <1>3, <1>4, RowForm DEF NoRow
<1>6. f \in DOMAIN runs
  BY <1>3, <1>5 DEF RecordInv, RowsAreReported
<1> QED
  BY <1>2, <1>3, <1>4, <1>5, <1>6

\* Storing a result, for the first time or again, keeps the record straight.
LEMMA CollectRecord ==
    ASSUME RecordInv, NEW r \in DOMAIN runs, NEW issues \in SUBSET Issues,
           \/ runs[r].status = "agent"
           \/ Stored(r) /\ issues = runs[r].reported,
           Collect(r, issues), done' = done
    PROVE  RecordInv'
<1> DEFINE new == [runs[r] EXCEPT !.status = "delivering", !.reported = issues]
<1>0. TypeOK /\ runs[r] \in Run /\ r \in Ids
  BY RunType, RunIds DEF RecordInv
<1>1. PICK p \in Ids \cup {0} : Previous(r, p) /\ finding' = Reconciled(r, p, issues)
  BY DEF Collect
<1>2. /\ new \in Run /\ new.revision = runs[r].revision
      /\ new.status = "delivering" /\ new.reported = issues
  BY <1>0 DEF Run
<1>3. runs' = [runs EXCEPT ![r] = new]
  BY DEF Collect
<1> HIDE DEF new
<1>4. /\ runs' \in Seq(Run) /\ Len(runs') = Len(runs)
      /\ DOMAIN runs' = DOMAIN runs /\ runs'[r] = new
      /\ \A q \in DOMAIN runs \ {r} : runs'[q] = runs[q]
      /\ \A q \in DOMAIN runs : runs'[q].revision = runs[q].revision
  BY <1>0, <1>2, <1>3, ChangedRun
<1> DEFINE Fresh(k) == k[1] = r /\ k[2] \in issues /\ finding[k].status = "none"
           IsNew(k) == Fresh(k) /\ finding'[k] = [status |-> "new", first |-> r, by |-> 0]
           IsOld(k) ==
             /\ Fresh(k) /\ p \in Candidates(r) /\ Active(<<p, k[2]>>)
             /\ runs[p].revision = runs[r].revision
             /\ finding'[k] = [status |-> "existing", first |-> finding[<<p, k[2]>>].first,
                               by |-> 0]
           Closed(k) ==
             /\ k[1] = p /\ p \in Candidates(r) /\ Active(k)
             /\ runs[p].revision = runs[r].revision => k[2] \notin issues
             /\ finding'[k] = [finding[k] EXCEPT !.status = "resolved", !.by = r]
           Same(k) == ~Fresh(k) /\ finding'[k] = finding[k]
<1>5. \A k \in Keys : IsNew(k) \/ IsOld(k) \/ Closed(k) \/ Same(k)
  <2> SUFFICES ASSUME NEW k \in Keys PROVE IsNew(k) \/ IsOld(k) \/ Closed(k) \/ Same(k)
    OBVIOUS
  <2> DEFINE row == Reconciled(r, p, issues)[k]
  <2>1. finding'[k] = row
    BY <1>1
  <2>2. \/ Fresh(k) /\ row = [status |-> "new", first |-> r, by |-> 0]
        \/ /\ Fresh(k) /\ p \in Candidates(r) /\ Active(<<p, k[2]>>)
           /\ runs[p].revision = runs[r].revision
           /\ row = [status |-> "existing", first |-> finding[<<p, k[2]>>].first,
                     by |-> 0]
        \/ /\ k[1] = p /\ p \in Candidates(r) /\ Active(k)
           /\ runs[p].revision = runs[r].revision => k[2] \notin issues
           /\ row = [finding[k] EXCEPT !.status = "resolved", !.by = r]
        \/ ~Fresh(k) /\ row = finding[k]
    BY <1>1, ReconciledRow
  <2> HIDE DEF row, Fresh
  <2> QED
    BY <2>1, <2>2
<1>6. \A k \in Keys :
         /\ IsNew(k) => finding'[k].status = "new" /\ finding'[k].first = r
         /\ IsOld(k) => /\ finding'[k].status = "existing"
                        /\ finding'[k].first = finding[<<p, k[2]>>].first
         /\ Closed(k) => /\ finding'[k].status = "resolved" /\ finding'[k].by = r
                         /\ finding'[k].first = finding[k].first
                         /\ finding[k] \in Row
  <2> SUFFICES ASSUME NEW k \in Keys
               PROVE  /\ IsNew(k) => finding'[k].status = "new" /\ finding'[k].first = r
                      /\ IsOld(k) => /\ finding'[k].status = "existing"
                                     /\ finding'[k].first = finding[<<p, k[2]>>].first
                      /\ Closed(k) => /\ finding'[k].status = "resolved"
                                      /\ finding'[k].by = r
                                      /\ finding'[k].first = finding[k].first
                                      /\ finding[k] \in Row
    OBVIOUS
  <2>1. ASSUME IsNew(k) PROVE finding'[k].status = "new" /\ finding'[k].first = r
    BY <2>1
  <2>2. ASSUME IsOld(k)
        PROVE  /\ finding'[k].status = "existing"
               /\ finding'[k].first = finding[<<p, k[2]>>].first
    BY <2>2
  <2>3. ASSUME Closed(k)
        PROVE  /\ finding'[k].status = "resolved" /\ finding'[k].by = r
               /\ finding'[k].first = finding[k].first /\ finding[k] \in Row
    <3>1. finding[k] \in Row
      BY <1>0, <2>3, RowForm DEF Active
    <3> QED
      BY <2>3, <3>1 DEF Row
  <2> HIDE DEF IsNew, IsOld, Closed
  <2> QED
    BY <2>1, <2>2, <2>3
<1>7. \A k \in Keys : IsOld(k) =>
        LET f == finding[<<p, k[2]>>].first
        IN  /\ f \in Ids /\ f # r /\ f \in DOMAIN runs
            /\ <<f, k[2]>> \in Keys
            /\ finding[<<f, k[2]>>].first = f /\ finding[<<f, k[2]>>].status # "none"
            /\ runs[f].revision = runs[r].revision
  <2> SUFFICES ASSUME NEW k \in Keys, IsOld(k)
               PROVE  LET f == finding[<<p, k[2]>>].first
                      IN  /\ f \in Ids /\ f # r /\ f \in DOMAIN runs
                          /\ <<f, k[2]>> \in Keys
                          /\ finding[<<f, k[2]>>].first = f
                          /\ finding[<<f, k[2]>>].status # "none"
                          /\ runs[f].revision = runs[r].revision
    OBVIOUS
  <2>1. p \in DOMAIN runs /\ p \in Ids /\ k[2] \in Issues
    BY <1>0, RunIds, KeyForm DEF Candidates
  <2>2. PICK m \in Keys : m = <<p, k[2]>> /\ m[1] = p /\ m[2] = k[2]
    BY <2>1, KeyMake
  <2> DEFINE f == finding[m].first
  <2>3. /\ f \in DOMAIN runs /\ <<f, k[2]>> \in Keys
        /\ finding[<<f, k[2]>>].first = f /\ finding[<<f, k[2]>>].status # "none"
        /\ runs[f].revision = runs[p].revision
    BY <2>2, ActiveRow
  <2>4. f # r
    BY <2>3, KeyForm
  <2> QED
    BY <1>0, <2>2, <2>3, <2>4, RunIds
<1>8. \A k \in Keys : finding[k].status # "none" =>
                        finding'[k].status # "none" /\ finding'[k].first = finding[k].first
  BY <1>0, <1>5, RowForm DEF Row
<1>9. TypeOK'
  <2>1. \A k \in Keys : finding'[k] \in Row \cup {NoRow}
    <3> SUFFICES ASSUME NEW k \in Keys PROVE finding'[k] \in Row \cup {NoRow}
      OBVIOUS
    <3>0. 0 \in 0..MaxRuns /\ r \in 0..MaxRuns
      BY <1>0, FindingsAssumption DEF Ids
    <3>1. CASE IsNew(k)
      BY <1>0, <3>0, <3>1 DEF Row
    <3>2. CASE IsOld(k)
      <4>1. PICK f \in Ids : f = finding[<<p, k[2]>>].first
        BY <1>7, <3>2
      <4>2. finding'[k] = [status |-> "existing", first |-> f, by |-> 0]
        BY <3>2, <4>1
      <4> QED
        BY <3>0, <4>1, <4>2 DEF Row
    <3>3. CASE Closed(k)
      <4>1. finding[k] \in Row
        BY <1>0, <3>3, RowForm DEF Active
      <4> QED
        BY <3>0, <3>3, <4>1 DEF Row
    <3>4. CASE Same(k)
      BY <1>0, <3>4 DEF TypeOK
    <3> QED
      BY <1>5, <3>1, <3>2, <3>3, <3>4
  <2>2. finding' \in [Keys -> Row \cup {NoRow}]
    BY <1>1, <2>1 DEF Reconciled
  <2> QED
    BY <1>0, <1>4, <2>2 DEF TypeOK
<1>10. RowsAreReported'
  <2> SUFFICES ASSUME NEW k \in Keys, finding'[k].status # "none"
               PROVE  /\ k[1] \in DOMAIN runs' /\ runs'[k[1]].status # "agent"
                      /\ k[2] \in runs'[k[1]].reported
    BY DEF RowsAreReported
  <2>1. CASE Fresh(k)
    BY <1>2, <1>4, <2>1
  <2>2. CASE finding[k].status # "none"
    <3>1. /\ k[1] \in DOMAIN runs /\ runs[k[1]].status # "agent"
          /\ k[2] \in runs[k[1]].reported
      BY <2>2 DEF RecordInv, RowsAreReported
    <3> QED
      BY <1>2, <1>4, <3>1
  <2> QED
    BY <1>5, <2>1, <2>2 DEF Active
<1>11. ReportedHasRow'
  <2> SUFFICES ASSUME NEW q \in DOMAIN runs, Stored(q)', NEW i \in runs'[q].reported
               PROVE  finding'[<<q, i>>].status # "none"
    BY <1>4 DEF ReportedHasRow
  <2>0. q \in Ids /\ i \in Issues
    <3>1. runs'[q] \in Run
      BY <1>0, <1>2, <1>4, RunType
    <3> QED
      BY <1>0, <3>1, RunIds DEF Run
  <2>1. PICK k \in Keys : k = <<q, i>> /\ k[1] = q /\ k[2] = i
    BY <2>0, KeyMake
  <2>2. CASE finding[k].status # "none"
    BY <1>8, <2>1, <2>2
  <2>3. CASE finding[k].status = "none" /\ q = r
    <3>1. Fresh(k)
      BY <1>2, <1>4, <2>1, <2>3
    <3>2. ~Same(k) /\ ~Closed(k)
      BY <2>3, <3>1 DEF Active
    <3> HIDE DEF IsNew, IsOld, Closed, Same
    <3> QED
      BY <1>5, <1>6, <2>1, <3>2
  <2>4. CASE q # r
    <3>1. runs'[q] = runs[q]
      BY <1>4, <2>4
    <3>2. finding[k].status # "none"
      BY <2>1, <3>1 DEF RecordInv, ReportedHasRow, Stored
    <3> QED
      BY <1>8, <2>1, <3>2
  <2> QED
    BY <2>2, <2>3, <2>4
<1>12. ResolvedElsewhere'
  <2> SUFFICES ASSUME NEW k \in Keys, finding'[k].status = "resolved"
               PROVE  LET by == finding'[k].by
                      IN  /\ by \in DOMAIN runs' /\ by # k[1] /\ runs'[by].status # "agent"
                          /\ runs'[by].revision = runs'[k[1]].revision
                               => k[2] \notin runs'[by].reported
    BY DEF ResolvedElsewhere
  <2>1. CASE Closed(k)
    <3>1. finding[k] \in Row
      BY <1>0, <2>1, RowForm DEF Active
    <3>2. finding'[k].by = r
      BY <2>1, <3>1 DEF Row
    <3>3. p \in DOMAIN runs /\ p # r
      BY <2>1 DEF Candidates
    <3> QED
      BY <1>2, <1>4, <2>1, <3>2, <3>3
  <2>2. CASE Same(k)
    <3> DEFINE by == finding[k].by
    <3>1. /\ by \in DOMAIN runs /\ by # k[1] /\ runs[by].status # "agent"
          /\ runs[by].revision = runs[k[1]].revision => k[2] \notin runs[by].reported
      BY <2>2 DEF RecordInv, ResolvedElsewhere
    <3>2. k[1] \in DOMAIN runs
      BY <2>2 DEF RecordInv, RowsAreReported
    <3>3. runs'[by].reported = runs[by].reported /\ runs'[by].status # "agent"
      BY <1>2, <1>4, <3>1
    <3> QED
      BY <1>4, <2>2, <3>1, <3>2, <3>3
  <2> HIDE DEF IsNew, IsOld, Closed, Same
  <2> QED
    BY <1>5, <1>6, <2>1, <2>2
<1>13. NewIsFirst'
  <2> SUFFICES ASSUME NEW k \in Keys, finding'[k].status = "new"
               PROVE  finding'[k].first = k[1]
    BY DEF NewIsFirst
  <2>1. IsNew(k) => k[1] = r
    OBVIOUS
  <2>2. Same(k) => finding'[k].first = k[1]
    BY DEF RecordInv, NewIsFirst
  <2> HIDE DEF IsNew, IsOld, Closed, Same
  <2> QED
    BY <1>5, <1>6, <2>1, <2>2
<1>14. FirstSeenIsFirst'
  <2> SUFFICES ASSUME NEW k \in Keys, finding'[k].status = "existing"
               PROVE  LET first == finding'[k].first
                      IN  /\ first # k[1]
                          /\ finding'[<<first, k[2]>>].first = first
                          /\ runs'[first].revision = runs'[k[1]].revision
    BY DEF FirstSeenIsFirst
  <2>1. CASE IsOld(k)
    <3> DEFINE f == finding[<<p, k[2]>>].first
    <3>1. finding'[k].first = f
      BY <1>6, <2>1
    <3>2. /\ f # r /\ f \in DOMAIN runs /\ <<f, k[2]>> \in Keys
          /\ finding[<<f, k[2]>>].first = f /\ finding[<<f, k[2]>>].status # "none"
          /\ runs[f].revision = runs[r].revision /\ k[1] = r
      BY <1>7, <2>1
    <3> HIDE DEF f, IsOld
    <3> QED
      BY <1>4, <1>8, <3>1, <3>2
  <2>2. CASE Same(k)
    <3> DEFINE f == finding[k].first
    <3>1. f # k[1]
      BY <2>2 DEF RecordInv, FirstSeenIsFirst
    <3>2. /\ k[1] \in DOMAIN runs /\ f \in DOMAIN runs /\ <<f, k[2]>> \in Keys
          /\ finding[<<f, k[2]>>].first = f /\ finding[<<f, k[2]>>].status # "none"
          /\ runs[f].revision = runs[k[1]].revision
      BY <2>2, ActiveRow DEF Active
    <3> QED
      BY <1>4, <1>8, <2>2, <3>1, <3>2
  <2> HIDE DEF IsNew, IsOld, Closed, Same
  <2> QED
    BY <1>5, <1>6, <2>1, <2>2
<1> QED
  BY <1>9, <1>10, <1>11, <1>12, <1>13, <1>14 DEF RecordInv

-----------------------------------------------------------------------------
(* Theorems *)

LEMMA RecordStep == RecordInv /\ [Next]_vars => RecordInv'
<1> SUFFICES ASSUME RecordInv, [Next]_vars PROVE RecordInv'
  OBVIOUS
<1>0. TypeOK
  BY DEF RecordInv
<1>1. ASSUME NEW revision \in Revisions, NewRun(revision) PROVE RecordInv'
  BY <1>1, NewRunRecord
<1>2. ASSUME NEW r \in Ids, CollectReviewResult(r) PROVE RecordInv'
  BY <1>2, CollectRecord DEF CollectReviewResult
<1>3. ASSUME NEW r \in Ids, CollectAgain(r) PROVE RecordInv'
  <2>1. r \in DOMAIN runs /\ runs[r] \in Run
    BY <1>0, <1>3, RunType DEF CollectAgain
  <2>2. runs[r].reported \in SUBSET Issues
    BY <2>1 DEF Run
  <2>3. PICK issues \in SUBSET Issues : issues = runs[r].reported
    BY <2>2
  <2> QED
    BY <1>3, <2>1, <2>3, CollectRecord DEF CollectAgain
<1>4. ASSUME NEW r \in Ids, EndsWithout(r) PROVE RecordInv'
  BY <1>0, <1>4, StatusRecord DEF EndsWithout, TypeOK
<1>5. ASSUME NEW r \in Ids, Delivered(r) PROVE RecordInv'
  <2>1. Candidates(r) \subseteq Ids
    BY <1>0, RunIds DEF Candidates
  <2>2. done' \subseteq Ids \X Ids
    BY <1>0, <1>5, <2>1 DEF Delivered, TypeOK
  <2> QED
    BY <1>5, <2>2, StatusRecord DEF Delivered
<1>6. CASE UNCHANGED vars
  <2>1. TypeOK'
    BY <1>0, <1>6 DEF vars, TypeOK
  <2> QED
    BY <1>6, <2>1, KeepsRecord DEF vars, Stored
<1> QED
  BY <1>1, <1>2, <1>3, <1>4, <1>5, <1>6 DEF Next

\* Every run, completion order and finding row keeps its type.
THEOREM FindingsTypeCorrect == Spec => []TypeOK
<1>1. RecordInv => TypeOK
  BY DEF RecordInv
<1> QED
  BY <1>1, InitialRecord, RecordStep, PTL DEF Spec

\* For any number of runs and any order in which their results and their
\* completions arrive, a stored review has exactly the rows of what it reported,
\* and a row is only ever closed by another run that does not report it for the
\* same revision: a worker that stores an answer again closes nothing of its own.
THEOREM RecordIsComplete == Spec => []ReportedIsRecorded
<1>1. RecordInv => ReportedIsRecorded
  <2> SUFFICES ASSUME RecordInv, NEW r \in DOMAIN runs, Stored(r), NEW i \in Issues
               PROVE  /\ (finding[<<r, i>>].status # "none") = (i \in runs[r].reported)
                      /\ finding[<<r, i>>].status = "resolved" =>
                           LET by == finding[<<r, i>>].by
                           IN  /\ by # r
                               /\ runs[by].revision = runs[r].revision
                                    => i \notin runs[by].reported
    BY DEF ReportedIsRecorded
  <2>1. r \in Ids
    BY RunIds DEF RecordInv
  <2>2. PICK k \in Keys : k = <<r, i>> /\ k[1] = r /\ k[2] = i
    BY <2>1, KeyMake
  <2>3. finding[k].status # "none" <=> i \in runs[r].reported
    BY <2>2 DEF RecordInv, RowsAreReported, ReportedHasRow
  <2>4. finding[k].status = "resolved" =>
          LET by == finding[k].by
          IN  /\ by # r
              /\ runs[by].revision = runs[r].revision => i \notin runs[by].reported
    BY <2>2 DEF RecordInv, ResolvedElsewhere
  <2> QED
    BY <2>2, <2>3, <2>4
<1> QED
  BY <1>1, InitialRecord, RecordStep, PTL DEF Spec

\* A finding that is carried over names, however many runs lie between, a run of
\* its own revision that reported it first.
THEOREM FirstSeenIsKept == Spec => []FirstSeenIsFirst
<1>1. RecordInv => FirstSeenIsFirst
  BY DEF RecordInv
<1> QED
  BY <1>1, InitialRecord, RecordStep, PTL DEF Spec
=============================================================================
