---------------------------- MODULE MCScheduler ----------------------------
(* Small instances of Scheduler for TLC.                                    *)
EXTENDS Scheduler, TLC

\* Jobs of the same kind are interchangeable: identities are random.
Symmetry == Permutations(Cooperative \cap Resumable)
=============================================================================
