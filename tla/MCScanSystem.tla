---------------------------- MODULE MCScanSystem ----------------------------
(* Symmetry for the safety runs of ScanHistory: processes and requests are  *)
(* told apart by nothing but their names.  Scans are not: they are ordered. *)
EXTENDS ScanHistory, TLC

Symmetry == Permutations(Procs) \cup Permutations(Requests)

=============================================================================
