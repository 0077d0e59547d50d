------------------------- MODULE InstanceLifecycle --------------------------
(***************************************************************************)
(* Whole-Instance operations of core/provelume: backup and restore         *)
(* (instance_lifecycle.py, instance_backup.py), portable import            *)
(* (portable_transfer.py) and object migration (object_migration.py).      *)
(*                                                                         *)
(* Each replaces the Instance directory by renaming it away and renaming   *)
(* a staged directory into its place, under the kernel lifecycle lock and  *)
(* behind a pending record kept outside the directory.  Processes prepare  *)
(* (recover what is pending, validate) before they take the lock for their *)
(* own purpose, and may die between any two renames.                       *)
(*                                                                         *)
(* A directory is abstracted to the image it holds: a schema version and a *)
(* content.  The directories a dead process leaves behind are never read   *)
(* again, so they are forgotten with it; archives verify by their digests. *)
(***************************************************************************)
EXTENDS Naturals, FiniteSets

CONSTANTS
  Procs, Nobody,               \* processes that use the Instance
  Ops,                         \* the operations each of them performs
  Schemas,                     \* schema versions the Instance may start with
  Bundle,                      \* content of the portable bundle to import
  MaxContent, MaxCrashes, MaxFailures    \* bounds of the instance

Current == 3                   \* CURRENT_INSTANCE_SCHEMA_VERSION
Images == [schema : {2, Current}, content : 0..MaxContent \cup {Bundle}]
Remains(n) == [schema |-> 0, content |-> n]
Absent == Remains(0)           \* no directory
Partial == Remains(1)          \* partly removed, provelume.yml still there
Headless == Remains(2)         \* partly removed, provelume.yml gone
NoPending == [op |-> "none", rollback |-> Absent, post |-> Absent]
AllOps == {"open", "write", "backup", "restore", "import", "migrate"}

ASSUME ConstantsAssumption ==
  /\ Nobody \notin Procs /\ Ops \in [Procs -> SUBSET AllOps] /\ Schemas \subseteq {2, Current}
  /\ Bundle \in Nat \ (0..MaxContent)
  /\ MaxContent \in Nat /\ MaxCrashes \in Nat /\ MaxFailures \in Nat

VARIABLES
  root, prev, stage,           \* the Instance, its renamed predecessor, the stage
  pending,                     \* pending-operation.json
  archives,                    \* images of the completed backups
  lock,                        \* holder of the lifecycle lock
  proc,                        \* each process: control point, operation
  job,                         \* the holder's replacement: image, what follows it
  committed, acknowledged,     \* history: the acknowledged image, and all of them
  crashes, failures

dirs == <<root, prev, stage>>
history == <<committed, acknowledged>>
env == <<crashes, failures>>
vars == <<dirs, pending, archives, lock, proc, job, history, env>>

Upgraded(i) == [i EXCEPT !.schema = Current]
Whole == root \in Images
ConfigReadable == root \notin {Absent, Headless}
NoJob == [image |-> Absent, ret |-> "none"]

At(p, pc) == proc[p].pc = pc
Goto(p, pc) == proc' = [proc EXCEPT ![p].pc = pc]
Idle == [pc |-> "idle", op |-> "none"]

Leave_KeepJob(p) ==
  /\ proc' = [proc EXCEPT ![p] = Idle]
  /\ lock' = IF lock = p THEN Nobody ELSE lock
  /\ UNCHANGED job

\* The operation returns or raises: the lock is released with it.
Leave(p) ==
  /\ proc' = [proc EXCEPT ![p] = Idle]
  /\ lock' = IF lock = p THEN Nobody ELSE lock
  /\ job' = IF lock = p THEN NoJob ELSE job

Acknowledge(i) == committed' = i /\ acknowledged' = acknowledged \cup {i}

(***************************************************************************)
(* prepare.                                                                *)
(***************************************************************************)

Start(p, op) ==
  /\ At(p, "idle")
  /\ proc' = [proc EXCEPT ![p] = [pc |-> "prepare", op |-> op]]
  /\ UNCHANGED <<dirs, pending, archives, lock, job, history, env>>

MigrationPending == pending.op = "object-migration"

\* Only writers open the current schema; the lifecycle commands allow legacy.
LegacyRefused(p) ==
  proc[p].op \in {"open", "write", "import"} /\ Whole /\ root.schema # Current

Unprepared_ConfigFirst(p) ==
  \/ ~ConfigReadable \/ LegacyRefused(p)
  \/ pending = NoPending /\ ~Whole
  \/ pending # NoPending /\ lock # Nobody

\* prepare raises before it reaches the recovery of what is pending.
Unprepared(p) ==
  \/ ~MigrationPending /\ (~ConfigReadable \/ LegacyRefused(p))
  \/ pending = NoPending /\ ~Whole
  \/ pending # NoPending /\ lock # Nobody

PrepareRaises(p) ==
  /\ At(p, "prepare") /\ Unprepared(p)
  /\ Leave(p)
  /\ UNCHANGED <<dirs, pending, archives, history, env>>

Prepared(p) ==
  /\ At(p, "prepare") /\ ~Unprepared(p) /\ pending = NoPending
  /\ IF proc[p].op = "open" \/ (proc[p].op = "migrate" /\ root.schema = Current)
     THEN Leave(p) ELSE Goto(p, "prepared") /\ UNCHANGED <<lock, job>>
  /\ UNCHANGED <<dirs, pending, archives, history, env>>

Recover_SkipRollback(p) ==
  /\ At(p, "prepare") /\ ~Unprepared(p) /\ pending # NoPending
  /\ lock' = p
  /\ Goto(p, IF MigrationPending THEN "settle" ELSE "recovered")
  /\ UNCHANGED <<dirs, pending, archives, job, history, env>>

\* _recover_pending under the lock: a backup is discarded, an object migration
\* settled, anything else rolled back to the recorded archive.
Recover(p) ==
  /\ At(p, "prepare") /\ ~Unprepared(p) /\ pending # NoPending
  /\ lock' = p
  /\ \/ /\ pending.op = "backup"
        /\ Goto(p, "recovered") /\ UNCHANGED job
     \/ /\ MigrationPending
        /\ Goto(p, "settle") /\ UNCHANGED job
     \/ /\ pending.op \in {"restore", "import"}
        /\ job' = [image |-> pending.rollback, ret |-> "recovered"]
        /\ Goto(p, "extract")
  /\ UNCHANGED <<dirs, pending, archives, history, env>>

\* The recovery receipt is written and the record cleared; prepare goes on.
Recovered(p) ==
  /\ At(p, "recovered")
  /\ pending' = NoPending /\ lock' = Nobody /\ job' = NoJob
  /\ Goto(p, "prepare")
  /\ UNCHANGED <<dirs, archives, history, env>>

\* recover_object_migration: an absent root is rebuilt from the backup, the
\* exact pre- or postimage is settled.  Anything else is left for inspection:
\* no operation here leads to it, and MigrationSettles fails if one does.
SettleAbsent(p) ==
  /\ At(p, "settle") /\ root = Absent
  /\ job' = [image |-> pending.rollback, ret |-> "settle"]
  /\ Goto(p, "extract")
  /\ UNCHANGED <<dirs, pending, archives, lock, history, env>>

Settle(p) ==
  /\ At(p, "settle") /\ root \in {pending.rollback, pending.post} \ {Absent}
  /\ pending' = NoPending
  /\ Acknowledge(root)
  /\ IF proc[p].op = "failed" THEN Leave(p)
     ELSE Goto(p, "prepare") /\ lock' = Nobody /\ job' = NoJob
  /\ UNCHANGED <<dirs, archives, env>>

(***************************************************************************)
(* The operations, once the lock is held for their purpose.                *)
(***************************************************************************)

\* Purposes _hold lets through although an operation is pending.
Exempt == {"backup", "restore", "migrate"}

Hold(p) ==
  /\ At(p, "prepared")
  /\ IF lock = Nobody /\ (proc[p].op \in Exempt \/ pending = NoPending)
     THEN lock' = p /\ Goto(p, "held") /\ UNCHANGED job
     ELSE Leave(p)
  /\ UNCHANGED <<dirs, pending, archives, history, env>>

Holding(p, op) == At(p, "held") /\ proc[p].op = op

\* An ordinary writer commits one change of the content.
Write(p) ==
  /\ Holding(p, "write")
  /\ IF Whole /\ root.content < MaxContent
     THEN root' = [root EXCEPT !.content = @ + 1] /\ Acknowledge(root')
     ELSE UNCHANGED <<root, history>>
  /\ Leave(p)
  /\ UNCHANGED <<prev, stage, pending, archives, env>>

BackupMark(p) ==
  /\ Holding(p, "backup")
  /\ pending' = [op |-> "backup", rollback |-> Absent, post |-> Absent]
  /\ Goto(p, "backup")
  /\ UNCHANGED <<dirs, archives, lock, job, history, env>>

\* create_backup validates before and after it copies; both ways out clear.
BackupCreate(p) ==
  /\ At(p, "backup")
  /\ archives' = IF Whole THEN archives \cup {root} ELSE archives
  /\ pending' = NoPending
  /\ Leave(p)
  /\ UNCHANGED <<dirs, history, env>>

Begin_NoArchive(p, record, image, ret) ==
  /\ pending' = record
  /\ job' = [image |-> image, ret |-> ret]
  /\ Goto(p, "extract")
  /\ UNCHANGED <<dirs, archives, lock, history, env>>

\* restore, import and migration back up the Instance and record the rollback.
Begin(p, record, image, ret) ==
  /\ archives' = archives \cup {root}
  /\ pending' = record
  /\ job' = [image |-> image, ret |-> ret]
  /\ Goto(p, "extract")
  /\ UNCHANGED <<dirs, lock, history, env>>

Record(op) == [op |-> op, rollback |-> root, post |-> Absent]

Restore(p) ==
  /\ Holding(p, "restore") /\ Whole
  /\ \E archive \in archives, preserve \in BOOLEAN :
       Begin(p, Record("restore"), IF preserve THEN archive ELSE Upgraded(archive), "restored")

Import(p) ==
  /\ Holding(p, "import") /\ Whole
  /\ Begin(p, Record("import"), [schema |-> Current, content |-> Bundle], "imported")

Migrate(p) ==
  /\ Holding(p, "migrate") /\ Whole /\ root.schema # Current
  /\ Begin(p, Record("object-migration"), Upgraded(root), "migrated")

\* Nothing to restore or to migrate, or the Instance fails its validation.
NothingToDo(p) ==
  /\ At(p, "held")
  /\ \/ proc[p].op \in {"restore", "import", "migrate"} /\ ~Whole
     \/ proc[p].op = "restore" /\ archives = {}
     \/ proc[p].op = "migrate" /\ Whole /\ root.schema = Current
  /\ Leave(p)
  /\ UNCHANGED <<dirs, pending, archives, history, env>>

(***************************************************************************)
(* _replace_from_archive, and import's copy of it.                         *)
(***************************************************************************)

Extract(p) ==
  /\ At(p, "extract")
  /\ stage' = job.image
  /\ Goto(p, IF job.ret = "migrated" THEN "bind" ELSE "moveaway")
  /\ UNCHANGED <<root, prev, pending, archives, lock, job, history, env>>

\* before_publish of a migration: the record names the postimage.
Bind(p) ==
  /\ At(p, "bind")
  /\ pending' = [pending EXCEPT !.post = stage]
  /\ Goto(p, "moveaway")
  /\ UNCHANGED <<dirs, archives, lock, job, history, env>>

MoveAway(p) ==
  /\ At(p, "moveaway")
  /\ prev' = root /\ root' = Absent
  /\ Goto(p, "install")
  /\ UNCHANGED <<stage, pending, archives, lock, job, history, env>>

Install(p) ==
  /\ At(p, "install")
  /\ root' = stage /\ stage' = Absent
  /\ Goto(p, "check")
  /\ UNCHANGED <<prev, pending, archives, lock, job, history, env>>

\* The installed image validates: the predecessor goes.
Accept(p) ==
  /\ At(p, "check")
  /\ prev' = Absent
  /\ Goto(p, job.ret)
  /\ UNCHANGED <<root, stage, pending, archives, lock, job, history, env>>

\* restore, import and migration: the final validation, and the record goes.
Finish(p) ==
  /\ proc[p].pc \in {"restored", "imported", "migrated"}
  /\ pending' = NoPending
  /\ Acknowledge(root)
  /\ Leave(p)
  /\ UNCHANGED <<dirs, archives, env>>

\* A rollback inside the failed operation ends; it is complete if it validates.
RolledBack(p) ==
  /\ At(p, "rolledback")
  /\ pending' = IF Whole THEN NoPending ELSE pending
  /\ Leave(p)
  /\ UNCHANGED <<dirs, archives, history, env>>

\* Some step raises: full disk, failed validation, refused rename.  Removing
\* the predecessor may stop half-way, except in a migration.
Fail(p) ==
  /\ proc[p].pc \in {"extract", "bind", "moveaway", "install", "check", "restored"}
  /\ failures < MaxFailures
  /\ failures' = failures + 1
  /\ Goto(p, IF At(p, "restored") THEN "rollback" ELSE "undo")
  /\ prev' \in IF At(p, "check") /\ prev # Absent /\ job.ret \notin {"migrated", "settle"}
               THEN {prev, Partial, Headless} ELSE {prev}
  /\ UNCHANGED <<root, stage, pending, archives, lock, job, history, crashes>>

Installed == stage = Absent /\ prev # Absent /\ root # Absent

\* The exception handler puts the predecessor back; a migration keeps an
\* installed image, which its own recovery settles.
Undo(p) ==
  /\ At(p, "undo")
  /\ IF job.ret \in {"migrated", "settle"} /\ root # Absent
     THEN UNCHANGED root
     ELSE root' = IF prev # Absent THEN prev ELSE root
  /\ prev' = Absent /\ stage' = Absent
  /\ CASE job.ret = "restored" -> Goto(p, "rollback") /\ UNCHANGED <<lock, job>>
       [] job.ret = "imported" ->
            Goto(p, IF prev # Absent THEN "rolledback" ELSE "rollback") /\ UNCHANGED <<lock, job>>
       [] job.ret = "migrated" ->
            proc' = [proc EXCEPT ![p] = [pc |-> "settle", op |-> "failed"]] /\ UNCHANGED <<lock, job>>
       [] OTHER -> Leave(p)        \* a failed rollback or recovery raises
  /\ UNCHANGED <<pending, archives, history, env>>

Rollback(p) ==
  /\ At(p, "rollback")
  /\ job' = [image |-> pending.rollback, ret |-> "rolledback"]
  /\ Goto(p, "extract")
  /\ UNCHANGED <<dirs, pending, archives, lock, history, env>>

\* The process dies.  Where it was removing an installed image, any part of
\* the directory may be left.
Crash(p) ==
  /\ ~At(p, "idle") /\ crashes < MaxCrashes
  /\ crashes' = crashes + 1
  /\ IF lock # p THEN UNCHANGED dirs
     ELSE /\ prev' = Absent /\ stage' = Absent
          /\ root' \in IF At(p, "undo") /\ Installed /\ job.ret \notin {"migrated", "settle"}
                       THEN {root, Partial, Headless, Absent} ELSE {root}
  /\ Leave(p)
  /\ UNCHANGED <<pending, archives, history, failures>>

Init ==
  /\ root \in {[schema |-> s, content |-> 0] : s \in Schemas}
  /\ prev = Absent /\ stage = Absent
  /\ pending = NoPending /\ archives = {}
  /\ lock = Nobody
  /\ proc = [p \in Procs |-> Idle]
  /\ job = NoJob
  /\ committed = root /\ acknowledged = {root}
  /\ crashes = 0 /\ failures = 0

Prepare(p) ==
  \/ PrepareRaises(p) \/ Prepared(p) \/ Recover(p) \/ Recovered(p)
  \/ SettleAbsent(p) \/ Settle(p)

Operate(p) ==
  \/ Hold(p) \/ Write(p) \/ BackupMark(p) \/ BackupCreate(p)
  \/ Restore(p) \/ Import(p) \/ Migrate(p) \/ NothingToDo(p)

Replace(p) ==
  \/ Extract(p) \/ Bind(p) \/ MoveAway(p) \/ Install(p) \/ Accept(p)
  \/ Finish(p) \/ RolledBack(p) \/ Undo(p) \/ Rollback(p)

Step(p) == Prepare(p) \/ Operate(p) \/ Replace(p)

Next ==
  \E p \in Procs : (\E op \in Ops[p] : Start(p, op)) \/ Step(p) \/ Fail(p) \/ Crash(p)

Spec == Init /\ [][Next]_vars

\* Processes run on, and someone opens the Instance again.
FairSpec ==
  Spec /\ \A p \in Procs : WF_vars(Step(p)) /\ WF_vars(\E op \in Ops[p] : Start(p, op))

(***************************************************************************)
(* Properties.                                                             *)
(***************************************************************************)

Dirs == Images \cup {Absent, Partial, Headless}
Points == {"idle", "prepare", "prepared", "recovered", "settle", "held", "backup", "extract",
           "bind", "moveaway", "install", "check", "restored", "imported", "migrated",
           "rolledback", "undo", "rollback"}

\* The variables keep their shapes, and only the holder of the lock has a job.
TypeOK ==
  /\ root \in Dirs /\ prev \in Dirs /\ stage \in Images \cup {Absent}
  /\ pending \in [op : {"backup", "restore", "import", "object-migration"},
                  rollback : Images \cup {Absent}, post : Images \cup {Absent}] \cup {NoPending}
  /\ archives \subseteq Images /\ lock \in Procs \cup {Nobody}
  /\ proc \in [Procs -> [pc : Points, op : AllOps \cup {"none", "failed"}]]
  /\ job \in [image : Images \cup {Absent},
              ret : {"none", "recovered", "settle", "restored", "imported", "migrated", "rolledback"}]
  /\ lock = Nobody => job = NoJob
  /\ committed \in Images /\ acknowledged \subseteq Images
  /\ crashes \in 0..MaxCrashes /\ failures \in 0..MaxFailures

\* With nothing pending and nobody at work, the Instance is the whole image of
\* the last acknowledged operation: no crash, failed step or rollback between
\* two renames loses an acknowledged change or leaves a mixture behind.
SettledImage == pending = NoPending /\ lock = Nobody => root = committed

\* The image to go back to is on disk whenever the live one is not the
\* acknowledged one: the pending record names a completed archive of it, and no
\* archive holds what an unfinished restore, import or migration had in place.
RollbackAvailable ==
  /\ archives \subseteq acknowledged
  /\ root # committed /\ pending # NoPending /\ pending.op # "backup"
       => pending.rollback \in archives /\ committed \in {pending.rollback, root}

\* A migration that was interrupted is settled: whatever dies or fails on the
\* way, and whoever opens the Instance next, its pending record goes.
MigrationSettles ==
  pending.op = "object-migration" ~> pending.op # "object-migration"

\* The promise the code does not keep for restore and import (see the README).
\* After an interrupted operation the Instance becomes usable again: some later
\* open recovers what is pending.
InterruptedSettles == (pending # NoPending) ~> (pending = NoPending)
=============================================================================
