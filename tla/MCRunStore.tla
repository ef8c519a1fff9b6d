----------------------------- MODULE MCRunStore -----------------------------
(* Small instances of RunStore for TLC. *)
EXTENDS RunStore, TLC

CONSTANTS r1, r2, c1, c2, w1

OneRun == {r1}
TwoRuns == {r1, r2}
TwoClients == {c1, c2}
OneWorktree == {w1}
OneTime == {0}
TwoTimes == {0, 1}
Symmetry == Permutations(TwoClients)
SymmetryRuns == Permutations(TwoClients) \cup Permutations(TwoRuns)
=============================================================================
