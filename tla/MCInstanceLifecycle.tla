------------------------ MODULE MCInstanceLifecycle -------------------------
(* Small instances of InstanceLifecycle for TLC.                            *)
EXTENDS InstanceLifecycle

CONSTANTS p, q

\* One process performs the lifecycle commands, another only uses the Instance.
MCOps == [x \in {p, q} |-> IF x = p THEN AllOps ELSE {"open", "write"}]
\* One process that restores a backup.
MCRestoring == [x \in {p} |-> {"open", "backup", "restore"}]
=============================================================================
