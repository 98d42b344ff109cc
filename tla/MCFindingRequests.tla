-------------------------- MODULE MCFindingRequests -------------------------
(* Symmetry for the run of FindingRequests: callers and findings differ by *)
(* nothing but their names.                                                 *)
EXTENDS FindingRequests, TLC

Symmetry == Permutations(Requests) \cup Permutations(Findings)

=============================================================================
