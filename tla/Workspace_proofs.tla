--------------------------- MODULE Workspace_proofs ---------------------------
(***************************************************************************)
(* Theorems about Workspace, for any number of clients, bases and leases.  *)
(***************************************************************************)
EXTENDS Workspace, TLAPS

-----------------------------------------------------------------------------
(* Types *)

LEMMA ConstantTypes ==
    /\ AnyBase \in Bases /\ NoRow \in Row /\ Idle \in Client
    /\ Removed \in Disk /\ Remains \in Disk
  <1>1. AnyBase \in Bases
    BY WorkspaceAssumption DEF AnyBase
  <1>2. NoRow \in Row
    BY <1>1 DEF NoRow, Row, Status
  <1>3. Idle \in Client
    BY <1>1, <1>2 DEF Idle, Client
  <1>4. Removed \in Disk /\ Remains \in Disk
    BY DEF Removed, Remains, Disk, Dir
  <1> QED BY <1>1, <1>2, <1>3, <1>4

LEMMA PutTyped ==
    ASSUME TypeOK, NEW seen \in Row, NEW status \in Status, NEW base \in Bases
    PROVE  Put(seen, status, base) \in Row
  BY DEF TypeOK, Put, Row

LEMMA GotoTyped ==
    ASSUME TypeOK, NEW c \in Clients, NEW pc \in Steps, Goto(c, pc)
    PROVE  client' \in [Clients -> Client]
  BY DEF TypeOK, Goto, Client

LEMMA DoneTyped ==
    ASSUME TypeOK, NEW c \in Clients, Done(c)
    PROVE  client' \in [Clients -> Client]
  BY ConstantTypes DEF TypeOK, Done

LEMMA LeaveTyped ==
    ASSUME TypeOK, NEW c \in Clients, Leave(c)
    PROVE  client' \in [Clients -> Client] /\ overlap' \in BOOLEAN
  BY DoneTyped DEF TypeOK, Leave, Client

LEMMA EnterTyped ==
    ASSUME TypeOK, NEW c \in Clients, NEW record \in Client, Enter(c, record)
    PROVE  client' \in [Clients -> Client] /\ overlap' \in BOOLEAN
  <1>1. [record EXCEPT !.alone = ~OthersAtWork(c)] \in Client
    BY DEF Client, OthersAtWork
  <1>2. \A d \in Clients : [client[d] EXCEPT !.alone = FALSE] \in Client
    BY DEF Client, TypeOK
  <1> QED BY <1>1, <1>2 DEF Enter, TypeOK, OthersAtWork

LEMMA RmtreeTyped ==
    ASSUME TypeOK PROVE \A d \in Rmtree : d \in Disk
  BY ConstantTypes DEF TypeOK, Rmtree

LEMMA PutStatusTyped ==
    ASSUME TypeOK, NEW c \in Clients, NEW status \in Status, PutStatus(c, status)
    PROVE  row' \in Row
  <1>1. client[c].seen \in Row /\ client[c].seen.base \in Bases
    BY DEF TypeOK, Client, Row
  <1> QED BY <1>1, PutTyped DEF PutStatus

LEMMA PrepareTyped ==
    ASSUME TypeOK, NEW c \in Clients, PrepareStep(c)
    PROVE  TypeOK'
  <1> USE DEF Steps, Preparing, GitSteps, Cleaning
  <1>1. ASSUME NEW b \in Bases, NEW force \in BOOLEAN, BeginPrepare(c, b, force)
        PROVE  TypeOK'
    <2> DEFINE record == [Idle EXCEPT !.pc = "resolved", !.seen = row, !.base = b,
                                      !.force = force]
    <2>1. record \in Client
      BY ConstantTypes DEF Client, TypeOK
    <2>2. Enter(c, record) /\ UNCHANGED <<row, lease, disk>>
      BY <1>1 DEF BeginPrepare
    <2> HIDE DEF record
    <2> QED BY <2>1, <2>2, EnterTyped DEF TypeOK
  <1>2. CASE MarkPreparing(c)
    <2>1. client[c].seen \in Row /\ client[c].base \in Bases
      BY DEF TypeOK, Client
    <2>2. Put(client[c].seen, "preparing", client[c].base) \in Row
      BY <2>1, PutTyped DEF Status
    <2>3. row' \in Row
      BY <1>2, <2>1, <2>2 DEF MarkPreparing, Row, Status
    <2>4. client' \in [Clients -> Client]
      <3> DEFINE next == IF client[c].force THEN "refresh" ELSE "mirror"
      <3>1. next \in Steps
        OBVIOUS
      <3> HIDE DEF next
      <3>2. [client[c] EXCEPT !.pc = next, !.force = FALSE, !.seen = row'] \in Client
        BY <2>3, <3>1 DEF TypeOK, Client
      <3> QED BY <1>2, <3>2 DEF MarkPreparing, TypeOK, next
    <2> QED BY <1>2, <2>3, <2>4 DEF MarkPreparing, TypeOK
  <1>3. CASE InsertFails(c)
    BY <1>3, LeaveTyped DEF InsertFails, TypeOK
  <1>4. CASE RemoveStale(c)
    BY <1>4, RmtreeTyped, GotoTyped DEF RemoveStale, TypeOK
  <1>5. CASE EnsureCache(c)
    BY <1>5, GotoTyped DEF EnsureCache, TypeOK
  <1>6. CASE BeginClone(c)
    BY <1>6, ConstantTypes, GotoTyped DEF BeginClone, TypeOK
  <1>7. CASE EndClone(c)
    <2>1. disk' \in Disk
      <3>1. PICK b \in SUBSET Bases :
                disk' = [dir |-> "complete", bases |-> b, head |-> FALSE]
        BY <1>7 DEF EndClone
      <3> QED BY <3>1 DEF Disk, Dir
    <2> QED BY <1>7, <2>1, GotoTyped DEF EndClone, TypeOK
  <1>8. CASE Fetch(c)
    <2>1. disk' \in Disk
      BY <1>8 DEF Fetch, Disk, Dir, TypeOK
    <2> QED BY <1>8, <2>1, GotoTyped DEF Fetch, TypeOK
  <1>9. CASE EnsureCommits(c)
    <2>1. disk' \in Disk
      BY <1>9 DEF EnsureCommits, Disk, Dir, TypeOK, Client
    <2> QED BY <1>9, <2>1, GotoTyped DEF EnsureCommits, TypeOK
  <1>10. CASE Checkout(c)
    <2>1. disk' \in Disk
      BY <1>10 DEF Checkout, Disk, Dir, TypeOK
    <2> QED BY <1>10, <2>1, GotoTyped DEF Checkout, TypeOK
  <1>11. CASE GitFails(c)
    BY <1>11, ConstantTypes, GotoTyped DEF GitFails, TypeOK
  <1>12. CASE EndPrepare(c)
    BY <1>12, PutStatusTyped, LeaveTyped DEF EndPrepare, TypeOK, Status
  <1>13. CASE FailPrepare(c)
    BY <1>13, PutStatusTyped, LeaveTyped DEF FailPrepare, TypeOK, Status
  <1> QED BY <1>1, <1>2, <1>3, <1>4, <1>5, <1>6, <1>7, <1>8, <1>9, <1>10, <1>11,
             <1>12, <1>13 DEF PrepareStep

LEMMA LeaseTyped ==
    ASSUME TypeOK, NEW c \in Clients, LeaseStep(c)
    PROVE  TypeOK'
  <1> USE DEF Steps
  <1>1. client[c].lease \in Leases \cup {NoLease}
    BY DEF TypeOK, Client
  <1>2. ASSUME NEW l \in Leases, BeginLease(c, l)
        PROVE  TypeOK'
    BY <1>2, ConstantTypes DEF BeginLease, TypeOK, Client
  <1>3. ASSUME NEW l \in Leases, BeginRelease(c, l)
        PROVE  TypeOK'
    <2> DEFINE last == ActiveLeases \subseteq {l}
    <2>1. [Idle EXCEPT !.pc = "release", !.seen = row, !.lease = l, !.last = last] \in Client
      BY ConstantTypes DEF TypeOK, Client
    <2> QED BY <1>3, <2>1 DEF BeginRelease, TypeOK
  <1>4. CASE EndLease(c)
    <2>1. lease' \in [Leases -> LeaseState]
      BY <1>4 DEF EndLease, TypeOK, LeaseState
    <2> QED BY <1>4, <2>1, PutStatusTyped, DoneTyped DEF EndLease, TypeOK, Status
  <1>5. CASE EndRelease(c)
    <2>1. lease' \in [Leases -> LeaseState]
      BY <1>5 DEF EndRelease, TypeOK, LeaseState
    <2> QED BY <1>5, <2>1, PutStatusTyped, DoneTyped DEF EndRelease, TypeOK, Status
  <1> QED BY <1>2, <1>3, <1>4, <1>5 DEF LeaseStep

LEMMA CleanupTyped ==
    ASSUME TypeOK, NEW c \in Clients, CleanupStep(c)
    PROVE  TypeOK'
  <1> USE DEF Steps, Cleaning
  <1>1. ASSUME NEW force \in BOOLEAN, BeginCleanup(c, force)
        PROVE  TypeOK'
    <2> DEFINE record == [Idle EXCEPT !.pc = "checked", !.seen = row, !.force = force]
    <2>1. record \in Client
      BY ConstantTypes DEF Client, TypeOK
    <2>2. Enter(c, record) /\ UNCHANGED <<row, lease, disk>>
      BY <1>1 DEF BeginCleanup
    <2> HIDE DEF record
    <2> QED BY <2>1, <2>2, EnterTyped DEF TypeOK
  <1>2. CASE MarkCleaning(c)
    <2>1. row' \in Row
      BY <1>2, PutStatusTyped DEF MarkCleaning, Status
    <2>2. client' \in [Clients -> Client]
      BY <1>2, <2>1 DEF MarkCleaning, TypeOK, Client
    <2> QED BY <1>2, <2>1, <2>2 DEF MarkCleaning, TypeOK
  <1>3. CASE RemoveFiles(c)
    BY <1>3, RmtreeTyped, GotoTyped DEF RemoveFiles, TypeOK
  <1>4. CASE EndCleanup(c)
    BY <1>4, PutStatusTyped, LeaveTyped DEF EndCleanup, TypeOK, Status
  <1> QED BY <1>1, <1>2, <1>3, <1>4 DEF CleanupStep

LEMMA InitTyped == Init => TypeOK
  BY ConstantTypes DEF Init, TypeOK, LeaseState

\* Every step preserves the types.
LEMMA StepTyped ==
    ASSUME TypeOK, [Next]_vars
    PROVE  TypeOK'
  <1>1. CASE UNCHANGED vars
    BY <1>1 DEF vars, TypeOK
  <1>2. ASSUME NEW c \in Clients, Crash(c)
        PROVE  TypeOK'
    BY <1>2, DoneTyped DEF Crash, TypeOK
  <1> QED BY <1>1, <1>2, PrepareTyped, LeaseTyped, CleanupTyped DEF Next

\* The row, the leases, the directory and the operations keep their shape, for
\* any number of clients (every operation of workspaces.py).
THEOREM TypeCorrect == Spec => []TypeOK
  BY InitTyped, StepTyped, PTL DEF Spec

-----------------------------------------------------------------------------
(* What the helpers do to the clients *)

\* An operation goes on to its next step.
LEMMA GotoEffect ==
    ASSUME TypeOK, NEW c \in Clients, NEW pc, Goto(c, pc)
    PROVE  /\ \A d \in Clients \ {c} : client'[d] = client[d]
           /\ client'[c].pc = pc /\ client'[c].seen = client[c].seen
           /\ client'[c].base = client[c].base /\ client'[c].force = client[c].force
           /\ client'[c].alone = client[c].alone
  BY DEF TypeOK, Goto, Client

\* An operation ends.
LEMMA DoneEffect ==
    ASSUME TypeOK, NEW c \in Clients, Done(c)
    PROVE  /\ \A d \in Clients \ {c} : client'[d] = client[d]
           /\ client'[c].pc = "idle" /\ client'[c].alone = FALSE
  BY DEF TypeOK, Done, Idle

\* An operation begins; whoever was alone no longer is.
LEMMA EnterEffect ==
    ASSUME TypeOK, NEW c \in Clients, NEW record \in Client, Enter(c, record)
    PROVE  /\ \A d \in Clients \ {c} :
                 /\ client'[d].pc = client[d].pc /\ client'[d].force = client[d].force
                 /\ client'[d].alone = FALSE
           /\ client'[c].pc = record.pc /\ client'[c].seen = record.seen
           /\ client'[c].base = record.base /\ client'[c].force = record.force
           /\ client'[c].alone = ~OthersAtWork(c)
  <1>1. \A d \in Clients \ {c} : client'[d] = [client[d] EXCEPT !.alone = FALSE]
    BY DEF Enter
  <1>2. client'[c] = [record EXCEPT !.alone = ~OthersAtWork(c)]
    BY DEF Enter
  <1>3. \A d \in Clients \ {c} : client[d] \in Client
    BY DEF TypeOK
  <1>4. \A d \in Clients \ {c} :
            /\ client'[d].pc = client[d].pc /\ client'[d].force = client[d].force
            /\ client'[d].alone = FALSE
    BY <1>1, <1>3 DEF Client
  <1> DEFINE others == ~OthersAtWork(c)
  <1>5. client'[c] = [record EXCEPT !.alone = others]
    BY <1>2
  <1> HIDE DEF others
  <1>6. /\ client'[c].pc = record.pc /\ client'[c].seen = record.seen
        /\ client'[c].base = record.base /\ client'[c].force = record.force
        /\ client'[c].alone = others
    BY <1>5 DEF Client
  <1> QED BY <1>4, <1>6 DEF others

LEMMA BeginLeaseEffect ==
    ASSUME TypeOK, NEW c \in Clients, NEW l \in Leases, BeginLease(c, l)
    PROVE  /\ \A d \in Clients \ {c} : client'[d] = client[d]
           /\ client'[c].pc = "lease" /\ client'[c].alone = FALSE
           /\ UNCHANGED <<row, lease, disk, overlap>>
  BY DEF BeginLease, TypeOK, Idle

LEMMA BeginReleaseEffect ==
    ASSUME TypeOK, NEW c \in Clients, NEW l \in Leases, BeginRelease(c, l)
    PROVE  /\ \A d \in Clients \ {c} : client'[d] = client[d]
           /\ client'[c].pc = "release" /\ client'[c].alone = FALSE
           /\ UNCHANGED <<row, lease, disk, overlap>>
  <1> DEFINE last == ActiveLeases \subseteq {l}
  <1>1. client' = [client EXCEPT ![c] = [Idle EXCEPT !.pc = "release", !.seen = row,
                                           !.lease = l, !.last = last]]
    BY DEF BeginRelease
  <1> HIDE DEF last
  <1>2. /\ \A d \in Clients \ {c} : client'[d] = client[d]
        /\ client'[c].pc = "release" /\ client'[c].alone = FALSE
    BY <1>1 DEF TypeOK, Idle
  <1> QED BY <1>2 DEF BeginRelease

-----------------------------------------------------------------------------
(* Leases *)

\* Every step preserves LeaseProtects.
LEMMA LeaseProtectsStep ==
    ASSUME TypeOK, LeaseProtects, [Next]_vars
    PROVE  LeaseProtects'
  <1> USE DEF LeaseProtects
  <1>1. CASE UNCHANGED vars
    BY <1>1 DEF vars
  <1>2. ASSUME NEW c \in Clients, NEW pc \in Steps, Goto(c, pc), UNCHANGED lease,
               pc \notin {"checked", "remove"}
        PROVE  LeaseProtects'
    BY <1>2, GotoEffect
  <1>3. ASSUME NEW c \in Clients, Done(c),
               \/ UNCHANGED lease
               \/ lease' = [lease EXCEPT ![client[c].lease] = "released"]
        PROVE  LeaseProtects'
    BY <1>3, DoneEffect DEF TypeOK
  <1>4. ASSUME NEW c \in Clients, NEW record \in Client, Enter(c, record), UNCHANGED lease,
               \/ record.pc \notin {"checked", "remove"}
               \/ record.force
               \/ Unleased
        PROVE  LeaseProtects'
    BY <1>4, EnterEffect DEF Unleased, ActiveLeases
  <1>5. ASSUME NEW c \in Clients, PrepareStep(c)
        PROVE  LeaseProtects'
    <2> USE DEF Steps, Preparing, GitSteps, Cleaning
    <2>1. ASSUME NEW b \in Bases, NEW force \in BOOLEAN, BeginPrepare(c, b, force)
          PROVE  LeaseProtects'
      <3> DEFINE record == [Idle EXCEPT !.pc = "resolved", !.seen = row, !.base = b,
                                        !.force = force]
      <3>1. record \in Client /\ record.pc = "resolved"
        BY ConstantTypes DEF Client, TypeOK
      <3>2. Enter(c, record) /\ UNCHANGED lease
        BY <2>1 DEF BeginPrepare
      <3> HIDE DEF record
      <3> QED BY <3>1, <3>2, <1>4
    <2>2. CASE MarkPreparing(c)
      <3> DEFINE next == IF client[c].force THEN "refresh" ELSE "mirror"
      <3>1. client' = [client EXCEPT ![c] =
                         [@ EXCEPT !.pc = next, !.force = FALSE, !.seen = row']]
        BY <2>2 DEF MarkPreparing
      <3>2. next \notin {"checked", "remove"}
        OBVIOUS
      <3> HIDE DEF next
      <3>3. client'[c].pc \notin {"checked", "remove"}
        BY <3>1, <3>2 DEF TypeOK, Client
      <3>4. \A d \in Clients \ {c} : client'[d] = client[d]
        BY <3>1 DEF TypeOK
      <3>5. UNCHANGED lease
        BY <2>2 DEF MarkPreparing
      <3> QED BY <3>3, <3>4, <3>5
    <2>3. CASE InsertFails(c) \/ EndPrepare(c) \/ FailPrepare(c)
      BY <2>3, <1>3 DEF InsertFails, EndPrepare, FailPrepare, Leave
    <2>4. CASE RemoveStale(c) \/ EnsureCache(c) \/ BeginClone(c) \/ EndClone(c) \/ Fetch(c)
      BY <2>4, <1>2 DEF RemoveStale, EnsureCache, BeginClone, EndClone, Fetch
    <2>5. CASE EnsureCommits(c) \/ Checkout(c) \/ GitFails(c)
      BY <2>5, <1>2 DEF EnsureCommits, Checkout, GitFails
    <2> QED BY <1>5, <2>1, <2>2, <2>3, <2>4, <2>5 DEF PrepareStep
  <1>6. ASSUME NEW c \in Clients, LeaseStep(c)
        PROVE  LeaseProtects'
    <2>1. ASSUME NEW l \in Leases, BeginLease(c, l) \/ BeginRelease(c, l)
          PROVE  LeaseProtects'
      <3>1. /\ client'[c].pc \notin {"checked", "remove"}
            /\ \A d \in Clients \ {c} : client'[d] = client[d]
            /\ UNCHANGED lease
        BY <2>1, BeginLeaseEffect, BeginReleaseEffect
      <3> QED BY <3>1
    <2>2. CASE EndLease(c)
      <3>1. CASE CleanupUnderWay
        BY <2>2, <3>1, DoneEffect DEF EndLease, TypeOK
      <3>2. CASE ~CleanupUnderWay
        <4>1. \A d \in Clients : client[d].pc \notin {"checked", "remove"}
          BY <3>2 DEF CleanupUnderWay
        <4> QED BY <2>2, <4>1, DoneEffect DEF EndLease
      <3> QED BY <3>1, <3>2
    <2>3. CASE EndRelease(c)
      BY <2>3, <1>3 DEF EndRelease
    <2> QED BY <1>6, <2>1, <2>2, <2>3 DEF LeaseStep
  <1>7. ASSUME NEW c \in Clients, CleanupStep(c)
        PROVE  LeaseProtects'
    <2> USE DEF Steps, Cleaning
    <2>1. ASSUME NEW force \in BOOLEAN, BeginCleanup(c, force)
          PROVE  LeaseProtects'
      <3> DEFINE record == [Idle EXCEPT !.pc = "checked", !.seen = row, !.force = force]
      <3>1. record \in Client /\ record.force = force
        BY ConstantTypes DEF Client, TypeOK
      <3>2. Enter(c, record) /\ UNCHANGED lease /\ (force \/ Unleased)
        BY <2>1 DEF BeginCleanup
      <3> HIDE DEF record
      <3> QED BY <3>1, <3>2, <1>4
    <2>2. CASE MarkCleaning(c)
      <3>1. /\ client[c].pc = "checked" /\ UNCHANGED lease
            /\ client'[c].force = client[c].force
            /\ \A d \in Clients \ {c} : client'[d] = client[d]
        BY <2>2 DEF MarkCleaning, At, TypeOK, Client
      <3> QED BY <3>1
    <2>3. CASE RemoveFiles(c)
      BY <2>3, <1>2 DEF RemoveFiles
    <2>4. CASE EndCleanup(c)
      BY <2>4, <1>3 DEF EndCleanup, Leave
    <2> QED BY <1>7, <2>1, <2>2, <2>3, <2>4 DEF CleanupStep
  <1>8. ASSUME NEW c \in Clients, Crash(c)
        PROVE  LeaseProtects'
    BY <1>8, <1>3 DEF Crash
  <1> QED BY <1>1, <1>5, <1>6, <1>7, <1>8 DEF Next

\* A lease that was granted before a cleanup began keeps it from removing the
\* files (cleanup_workspace, _has_active_lease), for any number of clients.
THEOREM LeasesProtect == Spec => []LeaseProtects
  <1>1. Init => LeaseProtects
    BY DEF Init, LeaseProtects, Idle
  <1> QED BY <1>1, TypeCorrect, LeaseProtectsStep, PTL DEF Spec

-----------------------------------------------------------------------------
(* Row and directory *)

AtWork(c) == client[c].pc \in Preparing \cup Cleaning

\* The row is inserted before anything else than a preparation can begin.
RowInv ==
    row.status = "none" =>
        /\ \A l \in Leases : lease[l] = "free"
        /\ \A c \in Clients : client[c].pc \in {"idle", "resolved"}

\* Who is alone has the directory for itself, and nobody overlaps unrecorded.
AloneInv ==
    /\ \A c \in Clients : client[c].alone =>
         AtWork(c) /\ \A d \in Clients \ {c} : ~AtWork(d)
    /\ \A c \in Clients : AtWork(c) => client[c].alone \/ overlap

\* What an operation that is alone knows of row and directory at each step.
StepInv(c) ==
    /\ client[c].pc \in {"resolved", "checked"} =>
         /\ client[c].seen.base = row.base
         /\ row.status = "ready" => client[c].seen.status = "ready"
         /\ client[c].seen.status = "none" => row.status = "none"
    /\ client[c].pc \notin {"resolved", "checked"} =>
         row.status # "ready" /\ client[c].seen.status # "ready"
    /\ client[c].pc \in Preparing \ {"resolved"} => row.base = client[c].base
    /\ client[c].pc \in {"checkout", "finish"} =>
         disk.dir = "complete" /\ client[c].base \in disk.bases
    /\ client[c].pc = "finish" => disk.head

DiskInv ==
    /\ RowInv /\ AloneInv /\ RowMatchesDisk
    /\ \A c \in Clients : client[c].alone => StepInv(c)

LEMMA Stages ==
    /\ {"resolved", "checked"} \subseteq Preparing \cup Cleaning
    /\ {"idle", "lease", "release"} \cap (Preparing \cup Cleaning) = {}
  BY DEF Preparing, Cleaning, GitSteps

LEMMA PutStatusEffect ==
    ASSUME TypeOK, NEW c \in Clients, NEW status, PutStatus(c, status)
    PROVE  /\ row'.base = row.base
           /\ row'.status = IF client[c].seen.status = status THEN row.status ELSE status
  BY DEF PutStatus, Put

\* A step on the directory by an operation that goes on.
LEMMA WorkStep ==
    ASSUME TypeOK, DiskInv, NEW c \in Clients, NEW pc, Goto(c, pc),
           UNCHANGED <<row, lease, overlap>>,
           client[c].pc \in Preparing \cup Cleaning, client[c].pc \notin {"resolved", "checked"},
           pc \in Preparing \cup Cleaning, pc \notin {"resolved", "checked"},
           pc \in Preparing => client[c].pc \in Preparing,
           client[c].alone =>
             /\ pc \in {"checkout", "finish"} =>
                  disk'.dir = "complete" /\ client[c].base \in disk'.bases
             /\ pc = "finish" => disk'.head
    PROVE  DiskInv'
  <1> USE DEF DiskInv
  <1>1. AtWork(c) /\ AtWork(c)'
    BY GotoEffect DEF AtWork
  <1>2. \A d \in Clients \ {c} : ~client[d].alone /\ client'[d] = client[d]
    BY <1>1, GotoEffect DEF AloneInv
  <1>3. RowInv'
    BY Stages DEF RowInv, AtWork
  <1>4. AloneInv'
    BY <1>1, <1>2, GotoEffect DEF AloneInv, AtWork
  <1>5. RowMatchesDisk'
    BY <1>1 DEF AloneInv, RowMatchesDisk, StepInv
  <1>6. ASSUME client'[c].alone PROVE StepInv(c)'
    BY <1>6, GotoEffect DEF StepInv
  <1> QED BY <1>2, <1>3, <1>4, <1>5, <1>6

\* The end of an operation on the directory.
LEMMA LeaveStep ==
    ASSUME TypeOK, DiskInv, NEW c \in Clients, Leave(c), AtWork(c),
           UNCHANGED <<lease, disk>>, row'.status # "none",
           client[c].alone /\ row'.status = "ready" =>
             disk.dir = "complete" /\ disk.head /\ row'.base \in disk.bases
    PROVE  DiskInv'
  <1> USE DEF DiskInv
  <1>1. Done(c) /\ overlap' = (overlap /\ ~client[c].alone)
    BY DEF Leave
  <1>2. \A d \in Clients \ {c} : ~client[d].alone /\ client'[d] = client[d]
    BY <1>1, DoneEffect DEF AloneInv
  <1>3. client'[c].pc = "idle" /\ ~client'[c].alone
    BY <1>1, DoneEffect
  <1>4. RowInv'
    BY DEF RowInv
  <1>5. \A d \in Clients \ {c} : AtWork(d) => overlap /\ ~client[c].alone
    BY <1>2 DEF AloneInv
  <1>6. AloneInv'
    BY <1>1, <1>2, <1>3, <1>5, Stages DEF AloneInv, AtWork
  <1>7. RowMatchesDisk'
    BY <1>1 DEF AloneInv, RowMatchesDisk
  <1> QED BY <1>2, <1>3, <1>4, <1>6, <1>7

\* The begin of an operation on the directory.
LEMMA EnterStep ==
    ASSUME TypeOK, DiskInv, NEW c \in Clients, NEW record \in Client, Enter(c, record),
           client[c].pc = "idle", UNCHANGED <<row, lease, disk>>,
           record.seen = row,
           record.pc = "resolved" \/ (record.pc = "checked" /\ row.status # "none")
    PROVE  DiskInv'
  <1> USE DEF DiskInv
  <1>1. /\ \A d \in Clients \ {c} : client'[d].pc = client[d].pc /\ ~client'[d].alone
        /\ client'[c].pc = record.pc /\ client'[c].seen = row
        /\ client'[c].alone = ~OthersAtWork(c)
    BY EnterEffect
  <1>2. overlap' = (overlap \/ OthersAtWork(c))
    BY DEF Enter
  <1>3. RowInv'
    BY <1>1 DEF RowInv
  <1>4. AtWork(c)'
    BY <1>1, Stages DEF AtWork
  <1>5. OthersAtWork(c) = \E d \in Clients \ {c} : AtWork(d)
    BY DEF OthersAtWork, AtWork
  <1>6. \A d \in Clients \ {c} : AtWork(d)' = AtWork(d)
    BY <1>1 DEF AtWork
  <1>7. AloneInv'
    BY <1>1, <1>2, <1>4, <1>5, <1>6 DEF AloneInv
  <1>8. RowMatchesDisk'
    BY <1>2 DEF RowMatchesDisk
  <1>9. StepInv(c)'
    BY <1>1 DEF StepInv, Preparing, GitSteps
  <1> QED BY <1>1, <1>3, <1>7, <1>8, <1>9

\* A step that leaves the directory alone and the row at most says that the
\* workspace is leased or idle.
LEMMA AsideStep ==
    ASSUME TypeOK, DiskInv, NEW c \in Clients,
           \A d \in Clients \ {c} : client'[d] = client[d],
           ~client'[c].alone, ~AtWork(c)', UNCHANGED <<disk, overlap>>,
           row'.base = row.base,
           row'.status = row.status \/ row'.status \in {"leased", "idle"},
           \/ row.status # "none"
           \/ row'.status = "none" /\ client'[c].pc = "idle" /\ UNCHANGED lease
    PROVE  DiskInv'
  <1> USE DEF DiskInv
  <1>1. RowInv'
    BY DEF RowInv
  <1>2. AloneInv'
    BY DEF AloneInv, AtWork
  <1>3. RowMatchesDisk'
    BY DEF RowMatchesDisk
  <1>4. ASSUME NEW d \in Clients, client'[d].alone
        PROVE  StepInv(d)'
    <2>1. d # c /\ client'[d] = client[d] /\ StepInv(d)
      BY <1>4
    <2>2. row'.status = "none" => row.status = "none"
      OBVIOUS
    <2>3. client[d].seen.status = "none" /\ client[d].pc \in {"resolved", "checked"}
          => row'.status = "none"
      BY <2>1 DEF StepInv
    <2> QED BY <2>1, <2>2, <2>3 DEF StepInv
  <1> QED BY <1>1, <1>2, <1>3, <1>4

\* The preparation marks the row before it touches the directory.
LEMMA MarkPreparingStep ==
    ASSUME TypeOK, DiskInv, NEW c \in Clients, MarkPreparing(c)
    PROVE  DiskInv'
  <1> USE DEF DiskInv
  <1> DEFINE next == IF client[c].force THEN "refresh" ELSE "mirror"
  <1>1. next \in {"refresh", "mirror"}
    OBVIOUS
  <1>2. client' = [client EXCEPT ![c] =
                     [@ EXCEPT !.pc = next, !.force = FALSE, !.seen = row']]
    BY DEF MarkPreparing
  <1> HIDE DEF next
  <1>3. /\ \A d \in Clients \ {c} : client'[d] = client[d]
        /\ client'[c].pc = next /\ client'[c].seen = row'
        /\ client'[c].base = client[c].base /\ client'[c].alone = client[c].alone
    BY <1>2 DEF TypeOK, Client
  <1>4. client[c].pc = "resolved" /\ UNCHANGED <<lease, disk, overlap>>
    BY DEF MarkPreparing, At
  <1>5. /\ row'.status = IF row.status = "none" \/ client[c].seen.status # "preparing"
                         THEN "preparing" ELSE row.status
        /\ row'.base = IF row.status = "none" \/ client[c].seen.base # client[c].base
                       THEN client[c].base ELSE row.base
    BY DEF MarkPreparing, Put
  <1>6. AtWork(c) /\ AtWork(c)'
    BY <1>1, <1>3, <1>4 DEF AtWork, Preparing, GitSteps
  <1>7. \A d \in Clients \ {c} : ~client[d].alone
    BY <1>6 DEF AloneInv
  <1>8. RowInv'
    BY <1>5 DEF RowInv
  <1>9. AloneInv'
    BY <1>3, <1>4, <1>6 DEF AloneInv, AtWork
  <1>10. ASSUME client[c].alone
         PROVE  row'.status # "ready" /\ row'.base = client[c].base
    BY <1>4, <1>5, <1>10 DEF StepInv
  <1>11. RowMatchesDisk'
    BY <1>4, <1>6, <1>10 DEF RowMatchesDisk, AloneInv
  <1>12. ASSUME client'[c].alone PROVE StepInv(c)'
    BY <1>1, <1>3, <1>10, <1>12 DEF StepInv
  <1> QED BY <1>3, <1>7, <1>8, <1>9, <1>11, <1>12

\* prepare_workspace preserves DiskInv.
LEMMA PrepareKeeps ==
    ASSUME TypeOK, DiskInv, NEW c \in Clients, PrepareStep(c)
    PROVE  DiskInv'
  <1> USE DEF Preparing, GitSteps, At
  <1>1. ASSUME NEW b \in Bases, NEW force \in BOOLEAN, BeginPrepare(c, b, force)
        PROVE  DiskInv'
    <2> DEFINE record == [Idle EXCEPT !.pc = "resolved", !.seen = row, !.base = b,
                                      !.force = force]
    <2>1. record \in Client /\ record.pc = "resolved" /\ record.seen = row
      BY ConstantTypes DEF Client, TypeOK, Steps
    <2>2. Enter(c, record) /\ client[c].pc = "idle" /\ UNCHANGED <<row, lease, disk>>
      BY <1>1 DEF BeginPrepare
    <2> HIDE DEF record
    <2> QED BY <2>1, <2>2, EnterStep
  <1>2. CASE MarkPreparing(c)
    BY <1>2, MarkPreparingStep
  <1>3. CASE InsertFails(c)
    <2>1. AtWork(c) /\ ~client[c].alone
      BY <1>3 DEF InsertFails, AtWork, DiskInv, StepInv
    <2> QED BY <1>3, <2>1, LeaveStep DEF InsertFails
  <1>4. CASE RemoveStale(c)
    BY <1>4, WorkStep DEF RemoveStale
  <1>5. CASE EnsureCache(c)
    BY <1>5, WorkStep DEF EnsureCache
  <1>6. CASE BeginClone(c)
    BY <1>6, WorkStep DEF BeginClone
  <1>7. CASE EndClone(c)
    BY <1>7, WorkStep DEF EndClone
  <1>8. CASE Fetch(c)
    BY <1>8, WorkStep DEF Fetch
  <1>9. CASE EnsureCommits(c)
    <2>1. disk'.dir = "complete" /\ client[c].base \in disk'.bases
      BY <1>9 DEF EnsureCommits, TypeOK, Disk
    <2> QED BY <1>9, <2>1, WorkStep DEF EnsureCommits
  <1>10. CASE Checkout(c)
    <2>1. disk'.dir = disk.dir /\ disk'.bases = disk.bases /\ disk'.head
      BY <1>10 DEF Checkout, TypeOK, Disk
    <2>2. client[c].alone => disk.dir = "complete" /\ client[c].base \in disk.bases
      BY <1>10 DEF Checkout, DiskInv, StepInv
    <2> QED BY <1>10, <2>1, <2>2, WorkStep DEF Checkout
  <1>11. CASE GitFails(c)
    BY <1>11, WorkStep DEF GitFails
  <1>12. CASE EndPrepare(c)
    <2>1. AtWork(c) /\ client[c].pc = "finish"
      BY <1>12 DEF EndPrepare, AtWork
    <2>2. row.status # "none"
      BY <2>1 DEF DiskInv, RowInv
    <2>3. /\ row'.base = row.base
          /\ row'.status = IF client[c].seen.status = "ready" THEN row.status ELSE "ready"
      BY <1>12, PutStatusEffect DEF EndPrepare
    <2>4. client[c].alone => disk.dir = "complete" /\ disk.head /\ row.base \in disk.bases
      BY <2>1 DEF DiskInv, StepInv
    <2>5. client[c].alone => row'.status = "ready"
      BY <2>1, <2>3 DEF DiskInv, StepInv
    <2> QED BY <1>12, <2>1, <2>2, <2>3, <2>4, <2>5, LeaveStep DEF EndPrepare
  <1>13. CASE FailPrepare(c)
    <2>1. AtWork(c) /\ client[c].pc = "failing"
      BY <1>13 DEF FailPrepare, AtWork
    <2>2. row.status # "none"
      BY <2>1 DEF DiskInv, RowInv
    <2>3. row'.status = IF client[c].seen.status = "failed" THEN row.status ELSE "failed"
      BY <1>13, PutStatusEffect DEF FailPrepare
    <2>4. client[c].alone => row.status # "ready"
      BY <2>1 DEF DiskInv, StepInv
    <2> QED BY <1>13, <2>1, <2>2, <2>3, <2>4, LeaveStep DEF FailPrepare
  <1> QED BY <1>1, <1>2, <1>3, <1>4, <1>5, <1>6, <1>7, <1>8, <1>9, <1>10, <1>11,
             <1>12, <1>13 DEF PrepareStep

\* lease_workspace and release_workspace preserve DiskInv.
LEMMA LeaseKeeps ==
    ASSUME TypeOK, DiskInv, NEW c \in Clients, LeaseStep(c)
    PROVE  DiskInv'
  <1>1. ASSUME NEW l \in Leases, BeginLease(c, l)
        PROVE  DiskInv'
    <2>1. row.status # "none"
      BY <1>1 DEF BeginLease
    <2> QED BY <1>1, <2>1, BeginLeaseEffect, Stages, AsideStep DEF AtWork
  <1>2. ASSUME NEW l \in Leases, BeginRelease(c, l)
        PROVE  DiskInv'
    <2>1. row.status # "none"
      BY <1>2 DEF BeginRelease, DiskInv, RowInv
    <2> QED BY <1>2, <2>1, BeginReleaseEffect, Stages, AsideStep DEF AtWork
  <1>3. CASE EndLease(c)
    <2>1. row.status # "none"
      BY <1>3 DEF EndLease, At, DiskInv, RowInv
    <2>2. /\ row'.base = row.base
          /\ row'.status = row.status \/ row'.status = "leased"
      BY <1>3, PutStatusEffect DEF EndLease
    <2>3. Done(c) /\ UNCHANGED <<disk, overlap>>
      BY <1>3 DEF EndLease
    <2> QED BY <2>1, <2>2, <2>3, DoneEffect, Stages, AsideStep DEF AtWork
  <1>4. CASE EndRelease(c)
    <2>1. row.status # "none"
      BY <1>4 DEF EndRelease, At, DiskInv, RowInv
    <2>2. /\ row'.base = row.base
          /\ row'.status = row.status \/ row'.status = "idle"
      BY <1>4, PutStatusEffect DEF EndRelease
    <2>3. Done(c) /\ UNCHANGED <<disk, overlap>>
      BY <1>4 DEF EndRelease
    <2> QED BY <2>1, <2>2, <2>3, DoneEffect, Stages, AsideStep DEF AtWork
  <1> QED BY <1>1, <1>2, <1>3, <1>4 DEF LeaseStep

\* The cleanup marks the row before it removes the directory.
LEMMA MarkCleaningStep ==
    ASSUME TypeOK, DiskInv, NEW c \in Clients, MarkCleaning(c)
    PROVE  DiskInv'
  <1> USE DEF DiskInv
  <1>1. /\ \A d \in Clients \ {c} : client'[d] = client[d]
        /\ client'[c].pc = "remove" /\ client'[c].seen = row'
        /\ client'[c].alone = client[c].alone
    BY DEF MarkCleaning, TypeOK, Client
  <1>2. client[c].pc = "checked" /\ UNCHANGED <<lease, disk, overlap>>
    BY DEF MarkCleaning, At
  <1>3. row'.status = IF client[c].seen.status = "cleaning" THEN row.status ELSE "cleaning"
    BY PutStatusEffect DEF MarkCleaning
  <1>4. row'.status # "none"
    BY <1>2, <1>3 DEF RowInv
  <1>5. AtWork(c) /\ AtWork(c)'
    BY <1>1, <1>2 DEF AtWork, Cleaning
  <1>6. \A d \in Clients \ {c} : ~client[d].alone
    BY <1>5 DEF AloneInv
  <1>7. RowInv'
    BY <1>4 DEF RowInv
  <1>8. AloneInv'
    BY <1>1, <1>2, <1>5 DEF AloneInv, AtWork
  <1>9. client[c].alone => row'.status # "ready"
    BY <1>2, <1>3 DEF StepInv
  <1>10. RowMatchesDisk'
    BY <1>2, <1>5, <1>9 DEF RowMatchesDisk, AloneInv
  <1>11. ASSUME client'[c].alone PROVE StepInv(c)'
    BY <1>1, <1>9, <1>11 DEF StepInv, Preparing, GitSteps
  <1> QED BY <1>1, <1>6, <1>7, <1>8, <1>10, <1>11

\* cleanup_workspace preserves DiskInv.
LEMMA CleanupKeeps ==
    ASSUME TypeOK, DiskInv, NEW c \in Clients, CleanupStep(c)
    PROVE  DiskInv'
  <1> USE DEF Cleaning, At
  <1>1. ASSUME NEW force \in BOOLEAN, BeginCleanup(c, force)
        PROVE  DiskInv'
    <2> DEFINE record == [Idle EXCEPT !.pc = "checked", !.seen = row, !.force = force]
    <2>1. record \in Client /\ record.pc = "checked" /\ record.seen = row
      BY ConstantTypes DEF Client, TypeOK, Steps
    <2>2. /\ Enter(c, record) /\ client[c].pc = "idle" /\ row.status # "none"
          /\ UNCHANGED <<row, lease, disk>>
      BY <1>1 DEF BeginCleanup
    <2> HIDE DEF record
    <2> QED BY <2>1, <2>2, EnterStep
  <1>2. CASE MarkCleaning(c)
    BY <1>2, MarkCleaningStep
  <1>3. CASE RemoveFiles(c)
    BY <1>3, WorkStep DEF RemoveFiles, Preparing, GitSteps
  <1>4. CASE EndCleanup(c)
    <2>1. AtWork(c) /\ client[c].pc = "removed"
      BY <1>4 DEF EndCleanup, AtWork
    <2>2. row.status # "none"
      BY <2>1 DEF DiskInv, RowInv
    <2>3. row'.status = IF client[c].seen.status = "deleted" THEN row.status ELSE "deleted"
      BY <1>4, PutStatusEffect DEF EndCleanup
    <2>4. client[c].alone => row.status # "ready"
      BY <2>1 DEF DiskInv, StepInv
    <2> QED BY <1>4, <2>1, <2>2, <2>3, <2>4, LeaveStep DEF EndCleanup
  <1> QED BY <1>1, <1>2, <1>3, <1>4 DEF CleanupStep

\* So does the end of a process in the middle of an operation.
LEMMA CrashKeeps ==
    ASSUME TypeOK, DiskInv, NEW c \in Clients, Crash(c)
    PROVE  DiskInv'
  <1>1. Done(c) /\ UNCHANGED <<row, lease, disk, overlap>>
    BY DEF Crash
  <1> QED BY <1>1, DoneEffect, Stages, AsideStep DEF AtWork

\* Whatever was interrupted before: once an operation has had the workspace for
\* itself, a row that says "ready" stands for a checkout of the revision with its
\* base (prepare_workspace, cleanup_workspace).
THEOREM RowIsTrue == Spec => []RowMatchesDisk
  <1>1. Init => DiskInv
    BY Stages DEF Init, DiskInv, RowInv, AloneInv, RowMatchesDisk, Idle, NoRow, AtWork
  <1>2. ASSUME TypeOK, DiskInv, [Next]_vars
        PROVE  DiskInv'
    <2>1. CASE UNCHANGED vars
      BY <1>2, <2>1 DEF vars, DiskInv, RowInv, AloneInv, RowMatchesDisk, AtWork, StepInv
    <2> QED BY <1>2, <2>1, PrepareKeeps, LeaseKeeps, CleanupKeeps, CrashKeeps DEF Next
  <1>3. DiskInv => RowMatchesDisk
    BY DEF DiskInv
  <1> QED BY <1>1, <1>2, <1>3, TypeCorrect, PTL DEF Spec
=============================================================================
