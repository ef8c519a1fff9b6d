--------------------------- MODULE MCGitWorktrees ---------------------------
(* Small instance of GitWorktrees for TLC: two requests for the same path and  *)
(* branch under different identifiers.                                         *)
EXTENDS GitWorktrees, TLC

CONSTANTS p1, p2, w1, w2, dir, ref, here, there

TwoProcesses == {p1, p2}
TwoIds == {w1, w2}
OnePath == {dir}
OneBranch == {ref}
SamePath == [i \in TwoIds |-> dir]
SameBranch == [i \in TwoIds |-> ref]
TwoRepositories == {here, there}
Linear == {<<0, 0>>, <<1, 0>>, <<1, 1>>}
Symmetry == Permutations(TwoProcesses) \cup Permutations(TwoIds) \cup Permutations(TwoRepositories)
=============================================================================
