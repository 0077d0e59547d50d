------------------------------ MODULE MCAiJobs ------------------------------
(* Instances of AiJobs for TLC: named jobs, references and budgets.        *)
EXTENDS AiJobs, TLC

CONSTANTS j1, j2, p1, p2, ref

OneJob == {j1}
TwoJobs == {j1, j2}
OneRef == [j \in Jobs |-> ref]
OneSlot == {[concurrency |-> 1, units |-> 4]}
Scarce == {[concurrency |-> 1, units |-> 3]}
Alike == Permutations(Procs)
=============================================================================
