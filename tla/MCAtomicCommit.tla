-------------------------- MODULE MCAtomicCommit --------------------------
(* Small instances of AtomicCommit for TLC.  Contents and transactions are *)
(* interchangeable: the code compares contents and never orders them, and  *)
(* transaction names are random.                                           *)
EXTENDS AtomicCommit, TLC

Symmetry == Permutations(Values) \cup Permutations(Txns)
=============================================================================
