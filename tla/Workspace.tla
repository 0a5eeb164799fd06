------------------------------ MODULE Workspace ------------------------------
(***************************************************************************)
(* The checkout of one revision of a pull request                          *)
(* (infrastructure/workspaces.py): a row, a directory, and the leases that *)
(* keep the directory from being cleaned up.  The workers prepare it for   *)
(* reviews and commands; the endpoints of the API prepare, lease, release  *)
(* and clean it up.  Nothing locks the row: an operation loads it, works   *)
(* on the directory for a long time, and writes the columns it changed.    *)
(***************************************************************************)
EXTENDS Naturals, FiniteSets

CONSTANTS
    Clients,   \* workers and API requests at work on the workspace
    Bases,     \* base commits it is prepared for
    Leases,    \* the leases that are taken
    NoLease

ASSUME WorkspaceAssumption == Bases # {} /\ NoLease \notin Leases

VARIABLES
    row,       \* the Workspace row
    lease,     \* the WorkspaceLease rows
    disk,      \* external: the directory of the workspace
    client,    \* the operations in progress
    overlap    \* history: operations that ran side by side have touched the
               \* workspace since one last had it for itself

vars == <<row, lease, disk, client, overlap>>

-----------------------------------------------------------------------------
(* Values *)

Status == {"none", "preparing", "ready", "failed", "leased", "idle",
           "cleaning", "deleted"}
Row == [status : Status, base : Bases]

Dir == {"absent", "partial", "complete"}
\* bases: the base commits in the clone; head: the revision is checked out.
Disk == [dir : Dir, bases : SUBSET Bases, head : BOOLEAN]
Removed == [dir |-> "absent", bases |-> {}, head |-> FALSE]
Remains == [Removed EXCEPT !.dir = "partial"]

\* late: granted while a cleanup was under way (history).
LeaseState == {"free", "held", "late", "released"}
ActiveLeases == {l \in Leases : lease[l] \in {"held", "late"}}

GitSteps == {"refresh", "mirror", "clone", "cloning", "commits", "checkout"}
Preparing == {"resolved", "finish", "failing"} \cup GitSteps
Cleaning == {"checked", "remove", "removed"}
Steps == Preparing \cup Cleaning \cup {"lease", "release"}

\* seen: the row as the session has loaded it.  alone: no other operation
\* has worked on the directory since this one began (history).
Client == [pc : Steps \cup {"idle"}, seen : Row, base : Bases, force : BOOLEAN,
           lease : Leases \cup {NoLease}, last : BOOLEAN, alone : BOOLEAN]

AnyBase == CHOOSE b \in Bases : TRUE
NoRow == [status |-> "none", base |-> AnyBase]
Idle == [pc |-> "idle", seen |-> NoRow, base |-> AnyBase, force |-> FALSE,
         lease |-> NoLease, last |-> FALSE, alone |-> FALSE]

-----------------------------------------------------------------------------
(* Helpers *)

At(c, pc) == client[c].pc = pc
Goto(c, pc) == client' = [client EXCEPT ![c].pc = pc]
Done(c) == client' = [client EXCEPT ![c] = Idle]

\* A flush writes a column only if it differs from the loaded value.
Put(seen, status, base) ==
    [status |-> IF seen.status = status THEN row.status ELSE status,
     base |-> IF seen.base = base THEN row.base ELSE base]
PutStatus(c, status) == row' = Put(client[c].seen, status, client[c].seen.base)

\* shutil.rmtree(ignore_errors=True) leaves behind what it cannot remove, which
\* may be everything: the agent runtime gives the files to the user of the task.
Rmtree == IF disk.dir = "absent" THEN {disk} ELSE {Removed, Remains, disk}

OthersAtWork(c) == \E d \in Clients \ {c} : client[d].pc \in Preparing \cup Cleaning

\* An operation on the directory begins: nobody in progress is alone any more.
Enter(c, record) ==
    /\ client' = [d \in Clients |->
                    IF d = c THEN [record EXCEPT !.alone = ~OthersAtWork(c)]
                    ELSE [client[d] EXCEPT !.alone = FALSE]]
    /\ overlap' = (overlap \/ OthersAtWork(c))

Leave(c) == Done(c) /\ overlap' = (overlap /\ ~client[c].alone)

-----------------------------------------------------------------------------
(* prepare_workspace *)

\* A ready workspace is returned as it is, whatever its base; nothing changes
\* either if the provider refuses to say where to clone from.
BeginPrepare(c, b, force) ==
    /\ At(c, "idle") /\ (row.status = "ready" => force)
    /\ Enter(c, [Idle EXCEPT !.pc = "resolved", !.seen = row, !.base = b,
                             !.force = force])
    /\ UNCHANGED <<row, lease, disk>>

MarkPreparing(c) ==
    /\ At(c, "resolved")
    /\ client[c].seen.status = "none" => row.status = "none"
    /\ row' = IF row.status = "none"
              THEN [status |-> "preparing", base |-> client[c].base]
              ELSE Put(client[c].seen, "preparing", client[c].base)
    /\ client' = [client EXCEPT ![c] =
                    [@ EXCEPT !.pc = IF client[c].force THEN "refresh" ELSE "mirror",
                              !.force = FALSE, !.seen = row']]
    /\ UNCHANGED <<lease, disk, overlap>>

\* Somebody else has inserted the row in the meantime: IntegrityError.
InsertFails(c) ==
    /\ At(c, "resolved") /\ client[c].seen.status = "none" /\ row.status # "none"
    /\ Leave(c)
    /\ UNCHANGED <<row, lease, disk>>

\* _prepare_git_workspace with force_refresh
RemoveStale(c) ==
    /\ At(c, "refresh")
    /\ disk' \in Rmtree /\ Goto(c, "mirror")
    /\ UNCHANGED <<row, lease, overlap>>

\* _ensure_cache clones or updates the bare mirror of the repository, of which
\* the model keeps nothing: an incomplete one makes this step fail.
EnsureCache(c) ==
    /\ At(c, "mirror") /\ Goto(c, "clone")
    /\ UNCHANGED <<row, lease, disk, overlap>>

BeginClone(c) ==
    /\ At(c, "clone") /\ disk.dir = "absent"
    /\ disk' = Remains /\ Goto(c, "cloning")
    /\ UNCHANGED <<row, lease, overlap>>

EndClone(c) ==
    /\ At(c, "cloning") /\ disk.dir = "partial"
    /\ disk' \in {[dir |-> "complete", bases |-> b, head |-> FALSE] : b \in SUBSET Bases}
    /\ Goto(c, "commits")
    /\ UNCHANGED <<row, lease, overlap>>

\* git fetch in what is there; it may even repair an interrupted clone.
Fetch(c) ==
    /\ At(c, "clone") /\ disk.dir # "absent"
    /\ \E b \in SUBSET Bases : disk' = [disk EXCEPT !.dir = "complete", !.bases = @ \cup b]
    /\ Goto(c, "commits")
    /\ UNCHANGED <<row, lease, overlap>>

\* mutant: only the head is looked for.
EnsureHead(c) ==
    /\ At(c, "commits") /\ disk.dir = "complete"
    /\ Goto(c, "checkout")
    /\ UNCHANGED <<row, lease, disk, overlap>>

\* _ensure_commit for the base and for the head
EnsureCommits(c) ==
    /\ At(c, "commits") /\ disk.dir = "complete"
    /\ disk' = [disk EXCEPT !.bases = @ \cup {client[c].base}]
    /\ Goto(c, "checkout")
    /\ UNCHANGED <<row, lease, overlap>>

Checkout(c) ==
    /\ At(c, "checkout") /\ disk.dir = "complete"
    /\ disk' = [disk EXCEPT !.head = TRUE]
    /\ Goto(c, "finish")
    /\ UNCHANGED <<row, lease, overlap>>

\* GitCommandError of any step.  A clone that fails removes its directory, one
\* that is killed by the timeout does not.
GitFails(c) ==
    /\ client[c].pc \in GitSteps \ {"refresh"}
    /\ disk' \in (IF At(c, "cloning") /\ disk.dir = "partial" THEN {Removed, disk}
                  ELSE {disk})
    /\ Goto(c, "failing")
    /\ UNCHANGED <<row, lease, overlap>>

EndPrepare(c) ==
    /\ At(c, "finish")
    /\ PutStatus(c, "ready") /\ Leave(c)
    /\ UNCHANGED <<lease, disk>>

FailPrepare(c) ==
    /\ At(c, "failing")
    /\ PutStatus(c, "failed") /\ Leave(c)
    /\ UNCHANGED <<lease, disk>>

-----------------------------------------------------------------------------
(* lease_workspace and release_workspace *)

BeginLease(c, l) ==
    /\ At(c, "idle") /\ row.status # "none" /\ lease[l] = "free"
    /\ \A d \in Clients : client[d].lease # l
    /\ client' = [client EXCEPT ![c] = [Idle EXCEPT !.pc = "lease", !.seen = row,
                                                    !.lease = l]]
    /\ UNCHANGED <<row, lease, disk, overlap>>

CleanupUnderWay == \E c \in Clients : client[c].pc \in {"checked", "remove"}

EndLease(c) ==
    /\ At(c, "lease")
    /\ lease' = [lease EXCEPT ![client[c].lease] =
                   IF CleanupUnderWay THEN "late" ELSE "held"]
    /\ PutStatus(c, "leased") /\ Done(c)
    /\ UNCHANGED <<disk, overlap>>

\* With two other leases _has_other_active_lease raises MultipleResultsFound
\* and nothing is released.
BeginRelease(c, l) ==
    /\ At(c, "idle") /\ lease[l] # "free"
    /\ Cardinality(ActiveLeases \ {l}) <= 1
    /\ client' = [client EXCEPT ![c] = [Idle EXCEPT !.pc = "release", !.seen = row,
                                          !.lease = l, !.last = (ActiveLeases \subseteq {l})]]
    /\ UNCHANGED <<row, lease, disk, overlap>>

\* mutant: a released lease is deleted.
ReleaseDeletes(c) ==
    /\ At(c, "release")
    /\ lease' = [lease EXCEPT ![client[c].lease] = "deleted"]
    /\ IF client[c].last THEN PutStatus(c, "idle") ELSE UNCHANGED row
    /\ Done(c)
    /\ UNCHANGED <<disk, overlap>>

EndRelease(c) ==
    /\ At(c, "release")
    /\ lease' = [lease EXCEPT ![client[c].lease] = "released"]
    /\ IF client[c].last THEN PutStatus(c, "idle") ELSE UNCHANGED row
    /\ Done(c)
    /\ UNCHANGED <<disk, overlap>>

-----------------------------------------------------------------------------
(* cleanup_workspace; cleanup_pull_request_workspaces calls it for the         *)
(* workspaces of a pull request, cleanup_expired_workspaces for expired ones.  *)

\* mutant: the status of the row is taken for its leases.
NotLeased == row.status # "leased"

\* _has_active_lease; two leases raise MultipleResultsFound.
Unleased == ActiveLeases = {}

BeginCleanup(c, force) ==
    /\ At(c, "idle") /\ row.status # "none" /\ (force \/ Unleased)
    /\ Enter(c, [Idle EXCEPT !.pc = "checked", !.seen = row, !.force = force])
    /\ UNCHANGED <<row, lease, disk>>

MarkCleaning(c) ==
    /\ At(c, "checked")
    /\ PutStatus(c, "cleaning")
    /\ client' = [client EXCEPT ![c] = [@ EXCEPT !.pc = "remove", !.seen = row']]
    /\ UNCHANGED <<lease, disk, overlap>>

\* rmtree ignores errors, so that it never raises and the path to
\* cleanup_failed is never taken.
RemoveFiles(c) ==
    /\ At(c, "remove")
    /\ disk' \in Rmtree /\ Goto(c, "removed")
    /\ UNCHANGED <<row, lease, overlap>>

EndCleanup(c) ==
    /\ At(c, "removed")
    /\ PutStatus(c, "deleted") /\ Leave(c)
    /\ UNCHANGED <<lease, disk>>

-----------------------------------------------------------------------------

\* The process dies, or the database fails: the directory stays as it is.
Crash(c) ==
    /\ ~At(c, "idle") /\ Done(c)
    /\ UNCHANGED <<row, lease, disk, overlap>>

Init ==
    /\ row = NoRow
    /\ lease = [l \in Leases |-> "free"]
    /\ disk = Removed
    /\ client = [c \in Clients |-> Idle]
    /\ overlap = FALSE

PrepareStep(c) ==
    \/ \E b \in Bases, force \in BOOLEAN : BeginPrepare(c, b, force)
    \/ MarkPreparing(c) \/ InsertFails(c) \/ RemoveStale(c) \/ EnsureCache(c)
    \/ BeginClone(c) \/ EndClone(c) \/ Fetch(c) \/ EnsureCommits(c) \/ Checkout(c)
    \/ GitFails(c) \/ EndPrepare(c) \/ FailPrepare(c)

LeaseStep(c) ==
    \/ \E l \in Leases : BeginLease(c, l) \/ BeginRelease(c, l)
    \/ EndLease(c) \/ EndRelease(c)

CleanupStep(c) ==
    \/ \E force \in BOOLEAN : BeginCleanup(c, force)
    \/ MarkCleaning(c) \/ RemoveFiles(c) \/ EndCleanup(c)

Next == \E c \in Clients : PrepareStep(c) \/ LeaseStep(c) \/ CleanupStep(c) \/ Crash(c)

Spec == Init /\ [][Next]_vars

-----------------------------------------------------------------------------
(* Properties *)

\* The row, the leases, the directory and the operations keep their shape.
TypeOK ==
    /\ row \in Row
    /\ lease \in [Leases -> LeaseState]
    /\ disk \in Disk
    /\ client \in [Clients -> Client]
    /\ overlap \in BOOLEAN

\* Whatever was interrupted, killed or torn by a race before: once an operation
\* has had the workspace for itself, a row that says "ready", on whose word later
\* reviews skip the preparation, stands for a checkout of the revision with
\* the base of the row.
RowMatchesDisk ==
    ~overlap /\ row.status = "ready" =>
        disk.dir = "complete" /\ disk.head /\ row.base \in disk.bases

\* A lease that was granted before a cleanup began keeps it from removing the
\* files, also when a preparation has changed the row in between.
LeaseProtects ==
    \A c \in Clients :
        client[c].pc \in {"checked", "remove"} /\ ~client[c].force
        => \A l \in Leases : lease[l] # "held"
=============================================================================
