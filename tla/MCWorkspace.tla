----------------------------- MODULE MCWorkspace -----------------------------
(* Workspace for TLC: clients and leases are interchangeable. *)
EXTENDS Workspace, TLC

WorkspaceSymmetry == Permutations(Clients) \cup Permutations(Leases)
=============================================================================
