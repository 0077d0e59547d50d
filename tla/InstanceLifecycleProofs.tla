---------------------- MODULE InstanceLifecycleProofs -----------------------
(***************************************************************************)
(* Proofs about InstanceLifecycle, for any number of processes, contents,  *)
(* crashes and failing steps.  SettledImage and RollbackAvailable are      *)
(* proved for one process m that performs the lifecycle commands: with two *)
(* of them the code does not keep SettledImage (see the README).           *)
(***************************************************************************)
EXTENDS InstanceLifecycle, TLAPS

-----------------------------------------------------------------------------
(* The inductive invariant.                                                 *)

Operations == {"restored", "imported", "migrated"}
Replacing == {"extract", "bind", "moveaway", "install", "check", "undo", "rollback",
              "rolledback"} \cup Operations
Inside == {"recovered", "settle", "held", "backup"} \cup Replacing
Swapped == {"install", "check", "undo"}

\* The pending operation a replacement is made for.
Behind(ret) ==
  CASE ret = "restored" -> {"restore"}
    [] ret = "imported" -> {"import"}
    [] ret \in {"migrated", "settle"} -> {"object-migration"}
    [] ret \in {"recovered", "rolledback"} -> {"restore", "import"}
    [] OTHER -> {}

\* Who is inside an operation has the lock, and only who replaces the Instance
\* has its predecessor.
Holder ==
  /\ \A p \in Procs : proc[p].pc \in Inside <=> lock = p
  /\ prev # Absent => lock # Nobody /\ proc[lock].pc \in Swapped

\* How far the holder of the lock has come.
Progress ==
  \A p \in Procs :
    /\ At(p, "recovered") => root = committed /\ pending # NoPending
    /\ At(p, "settle") => pending.op = "object-migration"
    /\ At(p, "held") => pending = NoPending
    /\ At(p, "backup") => pending.op = "backup"
    /\ proc[p].pc \in Replacing =>
         /\ job.image \in Images /\ pending.op \in Behind(job.ret)
         /\ job.ret \notin Operations => job.image = pending.rollback
    /\ At(p, "rollback") => job.ret \in {"restored", "imported"}
    /\ At(p, "bind") => job.ret = "migrated"
    /\ proc[p].pc \in Operations => job.ret = proc[p].pc
    /\ proc[p].pc \in {"bind", "moveaway", "install"} => stage = job.image
    /\ proc[p].pc \in {"check"} \cup Operations => root = job.image
    /\ At(p, "rolledback") => root = committed \/ root \notin Images
    /\ proc[p].pc \in {"extract", "bind", "moveaway"} /\ job.ret \in Operations =>
         root = committed
    /\ proc[p].pc \in Swapped /\ job.ret \in Operations =>
         prev \in {Absent, Partial, Headless, committed}

\* What the pending record says about the Instance and the archives.
Anchor ==
  /\ pending.op \in {"none", "backup"} => root = committed
  /\ pending.op \notin {"none", "backup"} =>
       committed = pending.rollback /\ committed \in archives
  /\ committed \in acknowledged /\ archives \subseteq acknowledged

OneOperator(m) == \A q \in Procs \ {m} : Ops[q] \subseteq {"open", "write"}

\* Only m has something pending, and it comes to its lock with nothing pending.
Alone(m) ==
  /\ \A q \in Procs \ {m} :
       /\ proc[q].op \in {"none", "open", "write"}
       /\ proc[q].pc \in Replacing => job.ret \in {"recovered", "settle"}
  /\ At(m, "prepared") => pending = NoPending

IInv(m) == TypeOK /\ Holder /\ Progress /\ Anchor /\ Alone(m)

-----------------------------------------------------------------------------
(* Facts about the data.                                                    *)

\* What is left of a directory is no image; what an operation installs or a
\* writer commits is one.
LEMMA ImageFacts ==
  /\ {Absent, Partial, Headless} \cap Images = {}
  /\ Absent \notin {Partial, Headless}
  /\ \A i \in Images : Upgraded(i) \in Images
  /\ [schema |-> Current, content |-> Bundle] \in Images
  /\ \A i \in Images : i.content < MaxContent => [i EXCEPT !.content = @ + 1] \in Images
BY ConstantsAssumption DEF Images, Absent, Partial, Headless, Remains, Upgraded, Current

\* Operations are among the six, and the lock has a value for nobody.
LEMMA OpsFacts == Nobody \notin Procs /\ \A p \in Procs : Ops[p] \subseteq AllOps
BY ConstantsAssumption

-----------------------------------------------------------------------------
(* Every part of the invariant is inductive relative to the whole.          *)

\* A replacement has a job and a typed image; the record is that of an operation.
LEMMA Typing ==
  ASSUME NEW m \in Procs, OneOperator(m), IInv(m), [Next]_vars
  PROVE  TypeOK'
<1> USE ImageFacts, OpsFacts DEF IInv, TypeOK, Dirs, Points, AllOps, Progress,
      Holder, Inside, Replacing, Operations, Behind, At, NoPending, dirs,
      history, env
<1>1. ASSUME NEW p \in Procs, PrepareRaises(p) PROVE TypeOK'
  BY <1>1 DEF PrepareRaises, Leave, Idle, NoJob
<1>2. ASSUME NEW p \in Procs, Prepared(p) PROVE TypeOK'
  BY <1>2 DEF Prepared, Leave, Goto, Idle, NoJob
<1>3. ASSUME NEW p \in Procs, Recover(p) PROVE TypeOK'
  BY <1>3 DEF Recover, Goto, MigrationPending, Unprepared
<1>4. ASSUME NEW p \in Procs, Recovered(p) PROVE TypeOK'
  BY <1>4 DEF Recovered, Goto, NoJob
<1>5. ASSUME NEW p \in Procs, SettleAbsent(p) PROVE TypeOK'
  BY <1>5 DEF SettleAbsent, Goto
<1>6. ASSUME NEW p \in Procs, Settle(p) PROVE TypeOK'
  BY <1>6 DEF Settle, Acknowledge, Leave, Goto, Idle, NoJob
<1>7. ASSUME NEW p \in Procs, Hold(p) PROVE TypeOK'
  BY <1>7 DEF Hold, Goto, Leave, Idle, NoJob, Exempt
<1>8. ASSUME NEW p \in Procs, Write(p) PROVE TypeOK'
  BY <1>8 DEF Write, Holding, Whole, Acknowledge, Leave, Idle, NoJob
<1>9. ASSUME NEW p \in Procs, BackupMark(p) PROVE TypeOK'
  BY <1>9 DEF BackupMark, Holding, Goto
<1>10. ASSUME NEW p \in Procs, BackupCreate(p) PROVE TypeOK'
  BY <1>10 DEF BackupCreate, Whole, Leave, Idle, NoJob
<1>11. ASSUME NEW p \in Procs, Restore(p) PROVE TypeOK'
  BY <1>11 DEF Restore, Holding, Whole, Begin, Record, Goto
<1>12. ASSUME NEW p \in Procs, Import(p) PROVE TypeOK'
  BY <1>12 DEF Import, Holding, Whole, Begin, Record, Goto
<1>13. ASSUME NEW p \in Procs, Migrate(p) PROVE TypeOK'
  BY <1>13 DEF Migrate, Holding, Whole, Begin, Record, Goto
<1>14. ASSUME NEW p \in Procs, NothingToDo(p) PROVE TypeOK'
  BY <1>14 DEF NothingToDo, Leave, Idle, NoJob
<1>15. ASSUME NEW p \in Procs, Extract(p) PROVE TypeOK'
  BY <1>15 DEF Extract, Goto
<1>16. ASSUME NEW p \in Procs, Bind(p) PROVE TypeOK'
  BY <1>16 DEF Bind, Goto
<1>17. ASSUME NEW p \in Procs, MoveAway(p) PROVE TypeOK'
  BY <1>17 DEF MoveAway, Goto
<1>18. ASSUME NEW p \in Procs, Install(p) PROVE TypeOK'
  BY <1>18 DEF Install, Goto
<1>19. ASSUME NEW p \in Procs, Accept(p) PROVE TypeOK'
  BY <1>19 DEF Accept, Goto
<1>20. ASSUME NEW p \in Procs, Finish(p) PROVE TypeOK'
  BY <1>20 DEF Finish, Acknowledge, Leave, Idle, NoJob
<1>21. ASSUME NEW p \in Procs, RolledBack(p) PROVE TypeOK'
  BY <1>21 DEF RolledBack, Whole, Leave, Idle, NoJob
<1>22. ASSUME NEW p \in Procs, Undo(p) PROVE TypeOK'
  BY <1>22 DEF Undo, Goto, Leave, Idle, NoJob
<1>23. ASSUME NEW p \in Procs, Rollback(p) PROVE TypeOK'
  BY <1>23 DEF Rollback, Goto
<1>24. ASSUME NEW p \in Procs, Fail(p) PROVE TypeOK'
  BY <1>24, ConstantsAssumption DEF Fail, Goto
<1>25. ASSUME NEW p \in Procs, Crash(p) PROVE TypeOK'
  BY <1>25, ConstantsAssumption DEF Crash, Leave, Idle, NoJob, Installed
<1>26. ASSUME NEW p \in Procs, NEW op \in Ops[p], Start(p, op) PROVE TypeOK'
  BY <1>26 DEF Start
<1>27. CASE UNCHANGED vars
  BY <1>27 DEF vars
<1>28. QED
    BY <1>1, <1>2, <1>3, <1>4, <1>5, <1>6, <1>7, <1>8, <1>9, <1>10, <1>11,
     <1>12, <1>13, <1>14, <1>15, <1>16, <1>17, <1>18, <1>19, <1>20, <1>21,
     <1>22, <1>23, <1>24, <1>25, <1>26, <1>27 DEF Next, Step, Prepare, Operate,
     Replace

\* Every way out of an operation releases the lock and forgets the predecessor.
LEMMA Locking ==
  ASSUME NEW m \in Procs, OneOperator(m), IInv(m), [Next]_vars
  PROVE  Holder'
<1> USE ImageFacts, OpsFacts DEF IInv, TypeOK, Progress, Holder, Inside,
      Replacing, Operations, Swapped, Behind, At, NoPending, dirs, history,
      env
<1>1. ASSUME NEW p \in Procs, PrepareRaises(p) PROVE Holder'
  BY <1>1 DEF PrepareRaises, Leave, Idle, NoJob
<1>2. ASSUME NEW p \in Procs, Prepared(p) PROVE Holder'
  BY <1>2 DEF Prepared, Leave, Goto, Idle, NoJob
<1>3. ASSUME NEW p \in Procs, Recover(p) PROVE Holder'
  BY <1>3 DEF Recover, Goto, MigrationPending, Unprepared
<1>4. ASSUME NEW p \in Procs, Recovered(p) PROVE Holder'
  BY <1>4 DEF Recovered, Goto, NoJob
<1>5. ASSUME NEW p \in Procs, SettleAbsent(p) PROVE Holder'
  BY <1>5 DEF SettleAbsent, Goto
<1>6. ASSUME NEW p \in Procs, Settle(p) PROVE Holder'
  BY <1>6 DEF Settle, Acknowledge, Leave, Goto, Idle, NoJob
<1>7. ASSUME NEW p \in Procs, Hold(p) PROVE Holder'
  BY <1>7 DEF Hold, Goto, Leave, Idle, NoJob, Exempt
<1>8. ASSUME NEW p \in Procs, Write(p) PROVE Holder'
  BY <1>8 DEF Write, Holding, Whole, Acknowledge, Leave, Idle, NoJob
<1>9. ASSUME NEW p \in Procs, BackupMark(p) PROVE Holder'
  BY <1>9 DEF BackupMark, Holding, Goto
<1>10. ASSUME NEW p \in Procs, BackupCreate(p) PROVE Holder'
  BY <1>10 DEF BackupCreate, Whole, Leave, Idle, NoJob
<1>11. ASSUME NEW p \in Procs, Restore(p) PROVE Holder'
  BY <1>11 DEF Restore, Holding, Whole, Begin, Record, Goto
<1>12. ASSUME NEW p \in Procs, Import(p) PROVE Holder'
  BY <1>12 DEF Import, Holding, Whole, Begin, Record, Goto
<1>13. ASSUME NEW p \in Procs, Migrate(p) PROVE Holder'
  BY <1>13 DEF Migrate, Holding, Whole, Begin, Record, Goto
<1>14. ASSUME NEW p \in Procs, NothingToDo(p) PROVE Holder'
  BY <1>14 DEF NothingToDo, Leave, Idle, NoJob
<1>15. ASSUME NEW p \in Procs, Extract(p) PROVE Holder'
  BY <1>15 DEF Extract, Goto
<1>16. ASSUME NEW p \in Procs, Bind(p) PROVE Holder'
  BY <1>16 DEF Bind, Goto
<1>17. ASSUME NEW p \in Procs, MoveAway(p) PROVE Holder'
  BY <1>17 DEF MoveAway, Goto
<1>18. ASSUME NEW p \in Procs, Install(p) PROVE Holder'
  BY <1>18 DEF Install, Goto
<1>19. ASSUME NEW p \in Procs, Accept(p) PROVE Holder'
  BY <1>19 DEF Accept, Goto
<1>20. ASSUME NEW p \in Procs, Finish(p) PROVE Holder'
  BY <1>20 DEF Finish, Acknowledge, Leave, Idle, NoJob
<1>21. ASSUME NEW p \in Procs, RolledBack(p) PROVE Holder'
  BY <1>21 DEF RolledBack, Whole, Leave, Idle, NoJob
<1>22. ASSUME NEW p \in Procs, Undo(p) PROVE Holder'
  BY <1>22 DEF Undo, Goto, Leave, Idle, NoJob
<1>23. ASSUME NEW p \in Procs, Rollback(p) PROVE Holder'
  BY <1>23 DEF Rollback, Goto
<1>24. ASSUME NEW p \in Procs, Fail(p) PROVE Holder'
  BY <1>24 DEF Fail, Goto
<1>25. ASSUME NEW p \in Procs, Crash(p) PROVE Holder'
  BY <1>25 DEF Crash, Leave, Idle, NoJob, Installed
<1>26. ASSUME NEW p \in Procs, NEW op \in Ops[p], Start(p, op) PROVE Holder'
  BY <1>26 DEF Start
<1>27. CASE UNCHANGED vars
  BY <1>27 DEF vars
<1>28. QED
    BY <1>1, <1>2, <1>3, <1>4, <1>5, <1>6, <1>7, <1>8, <1>9, <1>10, <1>11,
     <1>12, <1>13, <1>14, <1>15, <1>16, <1>17, <1>18, <1>19, <1>20, <1>21,
     <1>22, <1>23, <1>24, <1>25, <1>26, <1>27 DEF Next, Step, Prepare, Operate,
     Replace

\* Each step of a replacement leaves what the next one relies on.
LEMMA Progressing ==
  ASSUME NEW m \in Procs, OneOperator(m), IInv(m), [Next]_vars
  PROVE  Progress'
<1> USE ImageFacts, OpsFacts DEF IInv, TypeOK, Dirs, Points, Progress, Holder,
      Anchor, Alone, Inside, Replacing, Operations, Swapped, Behind, At,
      NoPending, dirs, history, env
<1>1. ASSUME NEW p \in Procs, PrepareRaises(p) PROVE Progress'
  BY <1>1 DEF PrepareRaises, Leave, Idle, NoJob
<1>2. ASSUME NEW p \in Procs, Prepared(p) PROVE Progress'
  BY <1>2 DEF Prepared, Leave, Goto, Idle, NoJob
<1>3. ASSUME NEW p \in Procs, Recover(p) PROVE Progress'
  BY <1>3 DEF Recover, Goto, MigrationPending, Unprepared
<1>4. ASSUME NEW p \in Procs, Recovered(p) PROVE Progress'
  BY <1>4 DEF Recovered, Goto, NoJob
<1>5. ASSUME NEW p \in Procs, SettleAbsent(p) PROVE Progress'
  BY <1>5 DEF SettleAbsent, Goto
<1>6. ASSUME NEW p \in Procs, Settle(p) PROVE Progress'
  BY <1>6 DEF Settle, Acknowledge, Leave, Goto, Idle, NoJob
<1>7. ASSUME NEW p \in Procs, Hold(p) PROVE Progress'
  BY <1>7 DEF Hold, Goto, Leave, Idle, NoJob, Exempt
<1>8. ASSUME NEW p \in Procs, Write(p) PROVE Progress'
  BY <1>8 DEF Write, Holding, Whole, Acknowledge, Leave, Idle, NoJob
<1>9. ASSUME NEW p \in Procs, BackupMark(p) PROVE Progress'
  BY <1>9 DEF BackupMark, Holding, Goto
<1>10. ASSUME NEW p \in Procs, BackupCreate(p) PROVE Progress'
  BY <1>10 DEF BackupCreate, Whole, Leave, Idle, NoJob
<1>11. ASSUME NEW p \in Procs, Restore(p) PROVE Progress'
  BY <1>11 DEF Restore, Holding, Whole, Begin, Record, Goto
<1>12. ASSUME NEW p \in Procs, Import(p) PROVE Progress'
  BY <1>12 DEF Import, Holding, Whole, Begin, Record, Goto
<1>13. ASSUME NEW p \in Procs, Migrate(p) PROVE Progress'
  BY <1>13 DEF Migrate, Holding, Whole, Begin, Record, Goto
<1>14. ASSUME NEW p \in Procs, NothingToDo(p) PROVE Progress'
  BY <1>14 DEF NothingToDo, Leave, Idle, NoJob
<1>15. ASSUME NEW p \in Procs, Extract(p) PROVE Progress'
  BY <1>15 DEF Extract, Goto
<1>16. ASSUME NEW p \in Procs, Bind(p) PROVE Progress'
  BY <1>16 DEF Bind, Goto
<1>17. ASSUME NEW p \in Procs, MoveAway(p) PROVE Progress'
  BY <1>17 DEF MoveAway, Goto
<1>18. ASSUME NEW p \in Procs, Install(p) PROVE Progress'
  BY <1>18 DEF Install, Goto
<1>19. ASSUME NEW p \in Procs, Accept(p) PROVE Progress'
  BY <1>19 DEF Accept, Goto
<1>20. ASSUME NEW p \in Procs, Finish(p) PROVE Progress'
  BY <1>20 DEF Finish, Acknowledge, Leave, Idle, NoJob
<1>21. ASSUME NEW p \in Procs, RolledBack(p) PROVE Progress'
  BY <1>21 DEF RolledBack, Whole, Leave, Idle, NoJob
<1>22. ASSUME NEW p \in Procs, Undo(p) PROVE Progress'
  BY <1>22 DEF Undo, Goto, Leave, Idle, NoJob
<1>23. ASSUME NEW p \in Procs, Rollback(p) PROVE Progress'
  BY <1>23 DEF Rollback, Goto
<1>24. ASSUME NEW p \in Procs, Fail(p) PROVE Progress'
  BY <1>24 DEF Fail, Goto
<1>25. ASSUME NEW p \in Procs, Crash(p) PROVE Progress'
  BY <1>25 DEF Crash, Leave, Idle, NoJob, Installed
<1>26. ASSUME NEW p \in Procs, NEW op \in Ops[p], Start(p, op) PROVE Progress'
  BY <1>26 DEF Start
<1>27. CASE UNCHANGED vars
  BY <1>27 DEF vars
<1>28. QED
    BY <1>1, <1>2, <1>3, <1>4, <1>5, <1>6, <1>7, <1>8, <1>9, <1>10, <1>11,
     <1>12, <1>13, <1>14, <1>15, <1>16, <1>17, <1>18, <1>19, <1>20, <1>21,
     <1>22, <1>23, <1>24, <1>25, <1>26, <1>27 DEF Next, Step, Prepare, Operate,
     Replace

\* The record and the archive are there before a replacement and stay until
\* its outcome is acknowledged.
LEMMA Anchoring ==
  ASSUME NEW m \in Procs, OneOperator(m), IInv(m), [Next]_vars
  PROVE  Anchor'
<1> USE ImageFacts, OpsFacts DEF IInv, TypeOK, Dirs, Progress, Holder, Anchor,
      Inside, Replacing, Operations, Behind, At, NoPending, dirs, history, env
<1>1. ASSUME NEW p \in Procs, PrepareRaises(p) PROVE Anchor'
  BY <1>1 DEF PrepareRaises, Leave, Idle, NoJob
<1>2. ASSUME NEW p \in Procs, Prepared(p) PROVE Anchor'
  BY <1>2 DEF Prepared, Leave, Goto, Idle, NoJob
<1>3. ASSUME NEW p \in Procs, Recover(p) PROVE Anchor'
  BY <1>3 DEF Recover, Goto, MigrationPending, Unprepared
<1>4. ASSUME NEW p \in Procs, Recovered(p) PROVE Anchor'
  BY <1>4 DEF Recovered, Goto, NoJob
<1>5. ASSUME NEW p \in Procs, SettleAbsent(p) PROVE Anchor'
  BY <1>5 DEF SettleAbsent, Goto
<1>6. ASSUME NEW p \in Procs, Settle(p) PROVE Anchor'
  BY <1>6 DEF Settle, Acknowledge, Leave, Goto, Idle, NoJob
<1>7. ASSUME NEW p \in Procs, Hold(p) PROVE Anchor'
  BY <1>7 DEF Hold, Goto, Leave, Idle, NoJob, Exempt
<1>8. ASSUME NEW p \in Procs, Write(p) PROVE Anchor'
  BY <1>8 DEF Write, Holding, Whole, Acknowledge, Leave, Idle, NoJob
<1>9. ASSUME NEW p \in Procs, BackupMark(p) PROVE Anchor'
  BY <1>9 DEF BackupMark, Holding, Goto
<1>10. ASSUME NEW p \in Procs, BackupCreate(p) PROVE Anchor'
  BY <1>10 DEF BackupCreate, Whole, Leave, Idle, NoJob
<1>11. ASSUME NEW p \in Procs, Restore(p) PROVE Anchor'
  BY <1>11 DEF Restore, Holding, Whole, Begin, Record, Goto
<1>12. ASSUME NEW p \in Procs, Import(p) PROVE Anchor'
  BY <1>12 DEF Import, Holding, Whole, Begin, Record, Goto
<1>13. ASSUME NEW p \in Procs, Migrate(p) PROVE Anchor'
  BY <1>13 DEF Migrate, Holding, Whole, Begin, Record, Goto
<1>14. ASSUME NEW p \in Procs, NothingToDo(p) PROVE Anchor'
  BY <1>14 DEF NothingToDo, Leave, Idle, NoJob
<1>15. ASSUME NEW p \in Procs, Extract(p) PROVE Anchor'
  BY <1>15 DEF Extract, Goto
<1>16. ASSUME NEW p \in Procs, Bind(p) PROVE Anchor'
  BY <1>16 DEF Bind, Goto
<1>17. ASSUME NEW p \in Procs, MoveAway(p) PROVE Anchor'
  BY <1>17 DEF MoveAway, Goto
<1>18. ASSUME NEW p \in Procs, Install(p) PROVE Anchor'
  BY <1>18 DEF Install, Goto
<1>19. ASSUME NEW p \in Procs, Accept(p) PROVE Anchor'
  BY <1>19 DEF Accept, Goto
<1>20. ASSUME NEW p \in Procs, Finish(p) PROVE Anchor'
  BY <1>20 DEF Finish, Acknowledge, Leave, Idle, NoJob
<1>21. ASSUME NEW p \in Procs, RolledBack(p) PROVE Anchor'
  BY <1>21 DEF RolledBack, Whole, Leave, Idle, NoJob
<1>22. ASSUME NEW p \in Procs, Undo(p) PROVE Anchor'
  BY <1>22 DEF Undo, Goto, Leave, Idle, NoJob
<1>23. ASSUME NEW p \in Procs, Rollback(p) PROVE Anchor'
  BY <1>23 DEF Rollback, Goto
<1>24. ASSUME NEW p \in Procs, Fail(p) PROVE Anchor'
  BY <1>24 DEF Fail, Goto
<1>25. ASSUME NEW p \in Procs, Crash(p) PROVE Anchor'
  BY <1>25 DEF Crash, Leave, Idle, NoJob, Installed
<1>26. ASSUME NEW p \in Procs, NEW op \in Ops[p], Start(p, op) PROVE Anchor'
  BY <1>26 DEF Start
<1>27. CASE UNCHANGED vars
  BY <1>27 DEF vars
<1>28. QED
    BY <1>1, <1>2, <1>3, <1>4, <1>5, <1>6, <1>7, <1>8, <1>9, <1>10, <1>11,
     <1>12, <1>13, <1>14, <1>15, <1>16, <1>17, <1>18, <1>19, <1>20, <1>21,
     <1>22, <1>23, <1>24, <1>25, <1>26, <1>27 DEF Next, Step, Prepare, Operate,
     Replace

\* Other processes only recover what m left pending.
LEMMA Separation ==
  ASSUME NEW m \in Procs, OneOperator(m), IInv(m), [Next]_vars
  PROVE  Alone(m)'
<1> USE ImageFacts, OpsFacts DEF IInv, TypeOK, Dirs, OneOperator, Progress,
      Holder, Alone, Inside, Replacing, Operations, Behind, At, NoPending,
      dirs, history, env
<1>1. ASSUME NEW p \in Procs, PrepareRaises(p) PROVE Alone(m)'
  BY <1>1 DEF PrepareRaises, Leave, Idle, NoJob
<1>2. ASSUME NEW p \in Procs, Prepared(p) PROVE Alone(m)'
  BY <1>2 DEF Prepared, Leave, Goto, Idle, NoJob
<1>3. ASSUME NEW p \in Procs, Recover(p) PROVE Alone(m)'
  BY <1>3 DEF Recover, Goto, MigrationPending, Unprepared
<1>4. ASSUME NEW p \in Procs, Recovered(p) PROVE Alone(m)'
  BY <1>4 DEF Recovered, Goto, NoJob
<1>5. ASSUME NEW p \in Procs, SettleAbsent(p) PROVE Alone(m)'
  BY <1>5 DEF SettleAbsent, Goto
<1>6. ASSUME NEW p \in Procs, Settle(p) PROVE Alone(m)'
  BY <1>6 DEF Settle, Acknowledge, Leave, Goto, Idle, NoJob
<1>7. ASSUME NEW p \in Procs, Hold(p) PROVE Alone(m)'
  BY <1>7 DEF Hold, Goto, Leave, Idle, NoJob, Exempt
<1>8. ASSUME NEW p \in Procs, Write(p) PROVE Alone(m)'
  BY <1>8 DEF Write, Holding, Whole, Acknowledge, Leave, Idle, NoJob
<1>9. ASSUME NEW p \in Procs, BackupMark(p) PROVE Alone(m)'
  BY <1>9 DEF BackupMark, Holding, Goto
<1>10. ASSUME NEW p \in Procs, BackupCreate(p) PROVE Alone(m)'
  BY <1>10 DEF BackupCreate, Whole, Leave, Idle, NoJob
<1>11. ASSUME NEW p \in Procs, Restore(p) PROVE Alone(m)'
  BY <1>11 DEF Restore, Holding, Whole, Begin, Record, Goto
<1>12. ASSUME NEW p \in Procs, Import(p) PROVE Alone(m)'
  BY <1>12 DEF Import, Holding, Whole, Begin, Record, Goto
<1>13. ASSUME NEW p \in Procs, Migrate(p) PROVE Alone(m)'
  BY <1>13 DEF Migrate, Holding, Whole, Begin, Record, Goto
<1>14. ASSUME NEW p \in Procs, NothingToDo(p) PROVE Alone(m)'
  BY <1>14 DEF NothingToDo, Leave, Idle, NoJob
<1>15. ASSUME NEW p \in Procs, Extract(p) PROVE Alone(m)'
  BY <1>15 DEF Extract, Goto
<1>16. ASSUME NEW p \in Procs, Bind(p) PROVE Alone(m)'
  BY <1>16 DEF Bind, Goto
<1>17. ASSUME NEW p \in Procs, MoveAway(p) PROVE Alone(m)'
  BY <1>17 DEF MoveAway, Goto
<1>18. ASSUME NEW p \in Procs, Install(p) PROVE Alone(m)'
  BY <1>18 DEF Install, Goto
<1>19. ASSUME NEW p \in Procs, Accept(p) PROVE Alone(m)'
  BY <1>19 DEF Accept, Goto
<1>20. ASSUME NEW p \in Procs, Finish(p) PROVE Alone(m)'
  BY <1>20 DEF Finish, Acknowledge, Leave, Idle, NoJob
<1>21. ASSUME NEW p \in Procs, RolledBack(p) PROVE Alone(m)'
  BY <1>21 DEF RolledBack, Whole, Leave, Idle, NoJob
<1>22. ASSUME NEW p \in Procs, Undo(p) PROVE Alone(m)'
  BY <1>22 DEF Undo, Goto, Leave, Idle, NoJob
<1>23. ASSUME NEW p \in Procs, Rollback(p) PROVE Alone(m)'
  BY <1>23 DEF Rollback, Goto
<1>24. ASSUME NEW p \in Procs, Fail(p) PROVE Alone(m)'
  BY <1>24 DEF Fail, Goto
<1>25. ASSUME NEW p \in Procs, Crash(p) PROVE Alone(m)'
  BY <1>25 DEF Crash, Leave, Idle, NoJob, Installed
<1>26. ASSUME NEW p \in Procs, NEW op \in Ops[p], Start(p, op) PROVE Alone(m)'
  BY <1>26 DEF Start
<1>27. CASE UNCHANGED vars
  BY <1>27 DEF vars
<1>28. QED
    BY <1>1, <1>2, <1>3, <1>4, <1>5, <1>6, <1>7, <1>8, <1>9, <1>10, <1>11,
     <1>12, <1>13, <1>14, <1>15, <1>16, <1>17, <1>18, <1>19, <1>20, <1>21,
     <1>22, <1>23, <1>24, <1>25, <1>26, <1>27 DEF Next, Step, Prepare, Operate,
     Replace

LEMMA Initially == ASSUME NEW m \in Procs, Init PROVE IInv(m)
<1> USE OpsFacts, ConstantsAssumption DEF Init, Idle, At
<1>1. root \in Images
  BY DEF Images, Current
<1>2. TypeOK
  BY <1>1 DEF TypeOK, Dirs, Points, NoJob
<1>3. Holder /\ Progress
  BY DEF Holder, Progress, Inside, Replacing, Operations, Swapped
<1>4. Anchor /\ Alone(m)
  BY DEF Anchor, Alone, NoPending, Replacing, Operations
<1>5. QED
  BY <1>2, <1>3, <1>4 DEF IInv

LEMMA Inductive == ASSUME NEW m \in Procs, OneOperator(m), IInv(m), [Next]_vars PROVE IInv(m)'
BY Typing, Locking, Progressing, Anchoring, Separation DEF IInv

-----------------------------------------------------------------------------
(* The theorems.                                                            *)

\* Directories, records and control points keep their shapes, for any number of
\* processes beside the one that performs the lifecycle commands.
THEOREM TypeCorrect == ASSUME NEW m \in Procs, OneOperator(m) PROVE Spec => []TypeOK
<1>1. Init => IInv(m)
  BY Initially
<1>2. IInv(m) /\ [Next]_vars => IInv(m)'
  BY Inductive
<1>3. IInv(m) => TypeOK
  BY DEF IInv
<1>4. QED
  BY <1>1, <1>2, <1>3, PTL DEF Spec

\* With nothing pending and nobody at work the Instance is the image of the last
\* acknowledged operation, whatever died or failed between two renames.
THEOREM Settled == ASSUME NEW m \in Procs, OneOperator(m) PROVE Spec => []SettledImage
<1>1. Init => IInv(m)
  BY Initially
<1>2. IInv(m) /\ [Next]_vars => IInv(m)'
  BY Inductive
<1>3. IInv(m) => SettledImage
  BY DEF IInv, Anchor, SettledImage, NoPending
<1>4. QED
  BY <1>1, <1>2, <1>3, PTL DEF Spec

\* While the live image is not the acknowledged one, the pending record names a
\* completed archive of it.
THEOREM Available == ASSUME NEW m \in Procs, OneOperator(m) PROVE Spec => []RollbackAvailable
<1>1. Init => IInv(m)
  BY Initially
<1>2. IInv(m) /\ [Next]_vars => IInv(m)'
  BY Inductive
<1>3. IInv(m) => RollbackAvailable
  BY DEF IInv, TypeOK, Anchor, RollbackAvailable, NoPending
<1>4. QED
  BY <1>1, <1>2, <1>3, PTL DEF Spec
=============================================================================
