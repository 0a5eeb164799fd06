----------------------------- MODULE MCFindings -----------------------------
(* Findings for TLC: revisions and issues are interchangeable. *)
EXTENDS Findings, TLC

FindingsSymmetry == Permutations(Revisions) \cup Permutations(Issues)
=============================================================================
