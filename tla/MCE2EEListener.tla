--------------------------- MODULE MCE2EEListener ---------------------------
(* E2EEListener on small sets of threads; threads of one kind are alike. *)
EXTENDS E2EEListener, TLC

ThreadSymmetry == Permutations(Runs) \cup Permutations(Stoppers) \cup Permutations(Waiters)

==============================================================================
