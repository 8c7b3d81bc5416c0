-------------------------- MODULE MCWorkflowRunner --------------------------
(* Instances of WorkflowRunner for TLC.                                      *)
EXTENDS WorkflowRunner, TLC

CONSTANTS r1, r2, w1, w2, p1, p2, k1, k2

OneWorker == {w1}
OneRun == {r1}
TwoRuns == {r1, r2}
TwoWorkers == {w1, w2}
TwoPasses == {p1, p2}
OnePass == {p1}
TwoTicks == {k1, k2}
OneTick == {k1}

WorkerSymmetry == Permutations(TwoWorkers)
PassSymmetry == Permutations(TwoPasses)
RunSymmetry == Permutations(TwoRuns)
=============================================================================
