---------------------------- MODULE AtomicCommit ----------------------------
(***************************************************************************)
(* The journaled multi-file commit of core/provelume/atomic_commit.py:     *)
(* AtomicInstanceCommit.commit() in a process that may fail, be            *)
(* interrupted or lose power at any step, and recover_atomic_transactions  *)
(* run by the next lifecycle writer or the next open of the Instance.      *)
(*                                                                         *)
(* Files are named by the naturals 1..NPaths, in the order of the sorted   *)
(* relative names.  A file's content is a value or Absent; digests are     *)
(* identified with the contents they identify.  live is what processes     *)
(* read, dur what survives a power loss: they differ on the files renamed  *)
(* into place whose directory has not been flushed.                        *)
(***************************************************************************)
EXTENDS Naturals, FiniteSets

CONSTANTS
  NPaths,          \* number of instance files
  Values,          \* contents the transactions write
  Foreign,         \* contents an unrelated editor of the Instance writes
  Absent,          \* "no such file"
  Txns,            \* identities of the commits
  Immutable,       \* files added with immutable=True
  Removable,       \* reviewed classifications, which may be removed
  RecoverFirst,    \* TRUE: profiles that every lifecycle writer recovers first
  ManifestFirst,   \* TRUE: directory orders that list manifest.json first
  MaxCrashes, MaxFaults, MaxForeign   \* bounds of the environment

Paths == 1..NPaths
Contents == Values \cup Foreign \cup {Absent}
Pcs == {"idle", "stage", "publish", "flush", "mark", "undo", "settle",
        "clean", "discard", "down", "scan", "blocked"}

ASSUME ConstantsAssumption ==
  /\ NPaths \in Nat /\ MaxCrashes \in Nat /\ MaxFaults \in Nat /\ MaxForeign \in Nat
  /\ Absent \notin Values \cup Foreign
  /\ Immutable \subseteq Paths /\ Removable \subseteq Paths \ Immutable
  /\ RecoverFirst \in BOOLEAN /\ ManifestFirst \in BOOLEAN

VARIABLES
  live, dur,       \* the Instance: visible and durable contents
  man,             \* manifest.json of each stage: none, prepared, committed
  dir,             \* does the stage directory exist
  ents, old, new,  \* the manifest's entries: files, preimages, candidates
  cand, pre,       \* payload files present under candidates/ and preimages/
  pc, rec,         \* control point of the process; is it in recovery
  cur, todo,       \* the transaction it works on, the entries left
  pend,            \* stages the running recovery has yet to visit
  out,             \* what commit() told its caller
  crashes, faults, edits,    \* events of the environment so far
  taken            \* history: files of t rewritten by someone else, and not
                   \* published by t since

disk == <<live, dur>>
journal == <<man, dir, ents, old, new, cand, pre>>
control == <<pc, rec, cur, todo, pend>>
env == <<crashes, faults, edits>>
vars == <<live, dur, journal, control, out, env, taken>>

\* Entries are published in order and rolled back in reverse order.
First(p) == p \in todo /\ \A q \in todo : p <= q
Last(p) == p \in todo /\ \A q \in todo : q <= p

\* An entry either writes new[t][p] or, for a removal, has new[t][p] = Absent.
Removes(t, p) == new[t][p] = Absent
HadPreimage(t, p) == old[t][p] # Absent
Dirty == {p \in Paths : live[p] # dur[p]}

Init ==
  /\ live \in [Paths -> Values \cup {Absent}] /\ dur = live
  /\ man = [t \in Txns |-> "none"] /\ dir = [t \in Txns |-> FALSE]
  /\ ents = [t \in Txns |-> {}]
  /\ old = [t \in Txns |-> [p \in Paths |-> Absent]]
  /\ new = [t \in Txns |-> [p \in Paths |-> Absent]]
  /\ cand = [t \in Txns |-> {}] /\ pre = [t \in Txns |-> {}]
  /\ pc = "idle" /\ rec = FALSE /\ cur \in Txns /\ todo = {} /\ pend = {}
  /\ out = [t \in Txns |-> "new"]
  /\ crashes = 0 /\ faults = 0 /\ edits = 0
  /\ taken = [t \in Txns |-> {}]

-----------------------------------------------------------------------------
(* Preparing: _prepare.                                                     *)

\* What a caller may have collected with add and remove_classification:
\* the content each named file shall have.
Requests == {r \in [Paths -> Values \cup {Absent, "skip"}] :
                \A p \in Paths : r[p] = Absent => p \in Removable}
Named_All(r) == Paths
Named(r) == {p \in Paths : r[p] # "skip"}

\* The checks of _prepare against the preimages it reads: a removal must find
\* its file, an immutable file may not change, and something must change.
Admissible(r) ==
  /\ \A p \in Named(r) : r[p] = Absent => live[p] # Absent
  /\ \A p \in Named(r) \cap Immutable : live[p] \in {Absent, r[p]}
  /\ \E p \in Named(r) : live[p] # r[p]

MayBegin(t) ==
  /\ pc = "idle" /\ out[t] = "new"
  /\ RecoverFirst => \A u \in Txns : ~dir[u]

\* Whatever an earlier failed commit left unflushed has reached the disk by now.
Stage(t, r) ==
  LET E == {p \in Named(r) : live[p] # r[p]} IN
  /\ MayBegin(t) /\ Admissible(r)
  /\ dir' = [dir EXCEPT ![t] = TRUE]
  /\ ents' = [ents EXCEPT ![t] = E]
  /\ old' = [old EXCEPT ![t] = [p \in Paths |-> IF p \in E THEN live[p] ELSE Absent]]
  /\ new' = [new EXCEPT ![t] = [p \in Paths |-> IF p \in E THEN r[p] ELSE Absent]]
  /\ cand' = [cand EXCEPT ![t] = {p \in E : r[p] # Absent}]
  /\ pre' = [pre EXCEPT ![t] = {p \in E : live[p] # Absent}]
  /\ pc' = "stage" /\ cur' = t /\ out' = [out EXCEPT ![t] = "open"]
  /\ dur' = live
  /\ UNCHANGED <<live, man, rec, todo, pend, env, taken>>

\* _prepare raises and leaves nothing behind.
Refuse(t, r) ==
  /\ MayBegin(t) /\ ~Admissible(r)
  /\ out' = [out EXCEPT ![t] = "refused"]
  /\ UNCHANGED <<disk, journal, control, env, taken>>

\* An error before or right after the marker is in place: nothing has been
\* published and the stage is removed again.
StageFails ==
  /\ pc = "stage" /\ faults < MaxFaults
  /\ \E m \in {"none", "prepared"} : man' = [man EXCEPT ![cur] = m]
  /\ pc' = "discard" /\ faults' = faults + 1
  /\ UNCHANGED <<disk, dir, ents, old, new, cand, pre, rec, cur, todo, pend, out,
                 crashes, edits, taken>>

MarkPrepared ==
  /\ pc = "stage"
  /\ man' = [man EXCEPT ![cur] = "prepared"]
  /\ pc' = "publish" /\ todo' = ents[cur]
  /\ UNCHANGED <<disk, dir, ents, old, new, cand, pre, rec, cur, pend, out, env, taken>>

-----------------------------------------------------------------------------
(* Publishing: _publish_entries and the committed marker.                   *)

\* A write renames the candidate over the file, a removal renames the file
\* to the candidate's place.
Rename(t, p) ==
  /\ live' = [live EXCEPT ![p] = new[t][p]]
  /\ cand' = [cand EXCEPT ![t] = IF Removes(t, p) THEN @ \cup {p} ELSE @ \ {p}]

\* File p is rewritten under the transactions U that have it among their
\* entries.  A rollback takes nothing from a commit already acknowledged.
TakenFrom(U, p) == [u \in Txns |-> IF u \in U /\ p \in ents[u]
                                   THEN taken[u] \cup {p} ELSE taken[u]]

Publishable(t, p) ==
  /\ live[p] = old[t][p]
  /\ HadPreimage(t, p) => p \in pre[t]
  /\ Removes(t, p) <=> p \notin cand[t]

Publish(p) ==
  /\ pc = "publish" /\ First(p) /\ Publishable(cur, p)
  /\ Rename(cur, p)
  /\ todo' = todo \ {p}
  /\ taken' = [TakenFrom(Txns \ {cur}, p) EXCEPT ![cur] = @ \ {p}]
  /\ UNCHANGED <<dur, man, dir, ents, old, new, pre, pc, rec, cur, pend, out, env>>

PublishDone ==
  /\ pc = "publish" /\ todo = {}
  /\ pc' = "flush"
  /\ UNCHANGED <<disk, journal, rec, cur, todo, pend, out, env, taken>>

\* The pool flushes the affected directories in any order.
Flush(p) ==
  /\ pc = "flush" /\ p \in Dirty
  /\ dur' = [dur EXCEPT ![p] = live[p]]
  /\ UNCHANGED <<live, journal, control, out, env, taken>>

FlushDone_Early ==
  /\ pc = "flush"
  /\ pc' = "mark"
  /\ UNCHANGED <<disk, journal, rec, cur, todo, pend, out, env, taken>>

FlushDone ==
  /\ pc = "flush" /\ Dirty = {}
  /\ pc' = "mark"
  /\ UNCHANGED <<disk, journal, rec, cur, todo, pend, out, env, taken>>

MarkCommitted ==
  /\ pc = "mark"
  /\ man' = [man EXCEPT ![cur] = "committed"]
  /\ pc' = "clean"
  /\ UNCHANGED <<disk, dir, ents, old, new, cand, pre, rec, cur, todo, pend, out, env, taken>>

BeginUndo_Unpublished == pc' = "undo" /\ todo' = todo
BeginUndo == pc' = "undo" /\ todo' = ents[cur]

\* A live file that is not the preimage, or any other Exception of the body.
PublishConflict(p) ==
  /\ pc = "publish" /\ First(p) /\ ~Publishable(cur, p)
  /\ BeginUndo
  /\ UNCHANGED <<disk, journal, rec, cur, pend, out, env, taken>>

PublishFails ==
  /\ pc \in {"publish", "flush", "mark"} /\ faults < MaxFaults
  /\ faults' = faults + 1
  /\ BeginUndo
  /\ UNCHANGED <<disk, journal, rec, cur, pend, out, crashes, edits, taken>>

\* The marker is replaced but the flush of the stage directory raises.
MarkFlushFails ==
  /\ pc = "mark" /\ faults < MaxFaults
  /\ man' = [man EXCEPT ![cur] = "committed"]
  /\ faults' = faults + 1
  /\ BeginUndo
  /\ UNCHANGED <<disk, dir, ents, old, new, cand, pre, rec, cur, pend, out, crashes, edits, taken>>

\* A pool that does not drain, or an interrupt that is no Exception: the
\* error leaves with the journal as it is.
Interrupted ==
  /\ pc \in {"stage", "publish", "flush", "mark", "undo", "clean", "discard"}
  /\ ~rec /\ faults < MaxFaults
  /\ pc' = "idle" /\ faults' = faults + 1
  /\ out' = [out EXCEPT ![cur] = "failed"]
  /\ UNCHANGED <<disk, journal, rec, cur, todo, pend, crashes, edits, taken>>

-----------------------------------------------------------------------------
(* Rolling back: _rollback_prepared_transaction, entries in reverse order.  *)

Untouched(t, p) ==
  IF Removes(t, p) THEN p \notin cand[t] \/ (p \in pre[t] /\ live[p] = old[t][p])
  ELSE IF HadPreimage(t, p)
       THEN /\ p \in pre[t] /\ live[p] # Absent
            /\ \/ live[p] = old[t][p]
               \/ live[p] # new[t][p] /\ p \in cand[t]
       ELSE \/ live[p] = Absent
            \/ live[p] # new[t][p] /\ p \in cand[t]

Restorable_Blind(t, p) == ~Untouched(t, p) /\ (HadPreimage(t, p) => p \in pre[t])
Restorable(t, p) ==
  /\ ~Untouched(t, p)
  /\ HadPreimage(t, p) => p \in pre[t]
  /\ live[p] = new[t][p]

Undo(p) ==
  /\ pc = "undo" /\ Last(p)
  /\ todo' = todo \ {p}
  /\ \/ Untouched(cur, p) /\ UNCHANGED <<disk, taken>>
     \/ /\ Restorable(cur, p)
        /\ live' = [live EXCEPT ![p] = old[cur][p]]
        /\ dur' = [dur EXCEPT ![p] = old[cur][p]]
        /\ taken' = TakenFrom({u \in Txns \ {cur} : out[u] # "ok"}, p)
  /\ UNCHANGED <<journal, pc, rec, cur, pend, out, env>>

\* The rollback raises; a commit reports the error and keeps its journal, a
\* recovery stops there.
UndoStuck(p) ==
  /\ pc = "undo" /\ Last(p) /\ ~Untouched(cur, p) /\ ~Restorable(cur, p)
  /\ pc' = IF rec THEN "blocked" ELSE "idle"
  /\ out' = IF rec THEN out ELSE [out EXCEPT ![cur] = "failed"]
  /\ UNCHANGED <<disk, journal, rec, cur, todo, pend, env, taken>>

\* A recovery calls on_prepared_rollback before it removes the journal.
UndoDone ==
  /\ pc = "undo" /\ todo = {}
  /\ pc' = IF rec THEN "settle" ELSE "discard"
  /\ UNCHANGED <<disk, journal, rec, cur, todo, pend, out, env, taken>>

Settle ==
  /\ pc = "settle"
  /\ pc' = "discard"
  /\ UNCHANGED <<disk, journal, rec, cur, todo, pend, out, env, taken>>

-----------------------------------------------------------------------------
(* shutil.rmtree(stage): one file at a time, in the directory's own order.  *)

Cleaning == pc \in {"clean", "discard"} /\ dir[cur]

RemoveManifest ==
  /\ Cleaning /\ man[cur] # "none"
  /\ man' = [man EXCEPT ![cur] = "none"]
  /\ UNCHANGED <<disk, dir, ents, old, new, cand, pre, control, out, env, taken>>

RemovePayload(p) ==
  /\ Cleaning /\ (ManifestFirst => man[cur] = "none")
  /\ \/ /\ p \in cand[cur]
        /\ cand' = [cand EXCEPT ![cur] = @ \ {p}] /\ UNCHANGED pre
     \/ /\ p \in pre[cur]
        /\ pre' = [pre EXCEPT ![cur] = @ \ {p}] /\ UNCHANGED cand
  /\ UNCHANGED <<disk, man, dir, ents, old, new, control, out, env, taken>>

RemoveStage ==
  /\ Cleaning /\ man[cur] = "none" /\ cand[cur] = {} /\ pre[cur] = {}
  /\ dir' = [dir EXCEPT ![cur] = FALSE]
  /\ UNCHANGED <<disk, man, ents, old, new, cand, pre, control, out, env, taken>>

\* What follows the removal: commit() returns, commit() raises, or recovery
\* turns to its next stage.
Leave ==
  /\ pc' = IF rec THEN "scan" ELSE "idle"
  /\ out' = IF rec THEN out
            ELSE [out EXCEPT ![cur] = IF pc = "clean" THEN "ok" ELSE "failed"]

CleanDone ==
  /\ pc \in {"clean", "discard"} /\ ~dir[cur]
  /\ Leave
  /\ UNCHANGED <<disk, journal, rec, cur, todo, pend, env, taken>>

\* A file cannot be removed: ignored after a commit, raised by a rollback and
\* by a recovery, which is tried again at the next open.
CleanFails ==
  /\ Cleaning /\ faults < MaxFaults
  /\ faults' = faults + 1
  /\ IF rec THEN pc' = "down" /\ UNCHANGED out ELSE Leave
  /\ UNCHANGED <<disk, journal, rec, cur, todo, pend, crashes, edits, taken>>

-----------------------------------------------------------------------------
(* Recovery: recover_atomic_transactions.                                   *)

\* A lifecycle writer of the running process, or the next open of the
\* Instance, looks for the stages left behind.
Open_PreparedOnly ==
  /\ pc \in {"idle", "down", "blocked"}
  /\ pc' = "scan" /\ rec' = TRUE
  /\ pend' = {t \in Txns : man[t] = "prepared"}
  /\ dur' = live
  /\ UNCHANGED <<live, journal, cur, todo, out, env, taken>>

Open ==
  /\ pc \in {"idle", "down", "blocked"}
  /\ pc' = "scan" /\ rec' = TRUE
  /\ pend' = {t \in Txns : dir[t]}
  /\ dur' = live
  /\ UNCHANGED <<live, journal, cur, todo, out, env, taken>>

\* _validate_transaction_manifest
ValidEntry_NoRetry(t, p) ==
  /\ HadPreimage(t, p) => p \in pre[t]
  /\ IF Removes(t, p) THEN p \in cand[t] => live[p] = Absent
     ELSE p \in cand[t] \/ live[p] = new[t][p]

ValidEntry(t, p) ==
  /\ HadPreimage(t, p) => p \in pre[t]
  /\ IF Removes(t, p)
     THEN IF p \in cand[t] THEN \/ live[p] = Absent
                                \/ man[t] = "prepared" /\ live[p] = old[t][p]
                           ELSE man[t] = "prepared"
     ELSE \/ p \in cand[t]
          \/ live[p] = new[t][p]
          \/ man[t] = "prepared" /\ live[p] = old[t][p]

Accepted_Unverified(t) == \A p \in ents[t] : HadPreimage(t, p) => p \in pre[t]
Accepted(t) ==
  /\ \A p \in ents[t] : ValidEntry(t, p)
  /\ man[t] = "committed" => \A p \in ents[t] : live[p] = new[t][p]

Visit(t) ==
  /\ pc = "scan" /\ t \in pend
  /\ pend' = pend \ {t} /\ cur' = t
  /\ \/ man[t] = "prepared" /\ Accepted(t) /\ pc' = "undo" /\ todo' = ents[t]
     \/ man[t] = "committed" /\ Accepted(t) /\ pc' = "discard" /\ UNCHANGED todo
     \/ man[t] = "none" /\ pc' = "discard" /\ UNCHANGED todo
     \/ man[t] # "none" /\ ~Accepted(t) /\ pc' = "blocked" /\ UNCHANGED todo
  /\ UNCHANGED <<disk, journal, rec, out, env, taken>>

ScanDone ==
  /\ pc = "scan" /\ pend = {}
  /\ pc' = "idle" /\ rec' = FALSE
  /\ UNCHANGED <<disk, journal, cur, todo, pend, out, env, taken>>

\* An I/O error or the on_prepared_rollback handler stops the recovery.
RecoveryFails ==
  /\ rec /\ pc \in {"scan", "undo", "settle"} /\ faults < MaxFaults
  /\ pc' = "down" /\ faults' = faults + 1
  /\ UNCHANGED <<disk, journal, rec, cur, todo, pend, out, crashes, edits, taken>>

-----------------------------------------------------------------------------
(* The environment.                                                         *)

\* The process dies (R = {}) or the power fails: the unflushed renames in R
\* are undone, together with the move of their candidates.
Crash(R) ==
  /\ pc # "down" /\ crashes < MaxCrashes
  /\ crashes' = crashes + 1
  /\ live' = [p \in Paths |-> IF p \in R THEN dur[p] ELSE live[p]]
  /\ dur' = live'
  /\ cand' = [cand EXCEPT ![cur] =
                (@ \cup {p \in R : ~Removes(cur, p)}) \ {p \in R : Removes(cur, p)}]
  /\ pc' = "down" /\ rec' = FALSE
  /\ UNCHANGED <<man, dir, ents, old, new, pre, cur, todo, pend, out, faults, edits, taken>>

\* A file of the Instance is edited by someone else.
Edit(p, v) ==
  /\ edits < MaxForeign
  /\ edits' = edits + 1
  /\ live' = [live EXCEPT ![p] = v] /\ dur' = [dur EXCEPT ![p] = v]
  /\ taken' = TakenFrom(Txns, p)
  /\ UNCHANGED <<journal, control, out, crashes, faults>>

Begin == \E t \in Txns, r \in Requests : Stage(t, r) \/ Refuse(t, r)

\* The steps a running process takes when nothing fails.  The next open after
\* a crash does come: a user or a service manager starts the program again.
CommitStep ==
  \/ MarkPrepared \/ PublishDone \/ FlushDone \/ MarkCommitted
  \/ \E p \in Paths : Publish(p) \/ PublishConflict(p) \/ Flush(p)

CleanStep ==
  \/ RemoveManifest \/ RemoveStage \/ CleanDone
  \/ \E p \in Paths : RemovePayload(p)

UndoStep ==
  \/ UndoDone \/ Settle
  \/ \E p \in Paths : Undo(p) \/ UndoStuck(p)

RecoverStep == ScanDone \/ \E t \in Txns : Visit(t)

Fault ==
  \/ StageFails \/ PublishFails \/ MarkFlushFails \/ Interrupted
  \/ CleanFails \/ RecoveryFails

Environment ==
  \/ \E R \in SUBSET Dirty : Crash(R)
  \/ \E p \in Paths, v \in Foreign : Edit(p, v)

Next ==
  \/ Begin \/ CommitStep \/ CleanStep \/ UndoStep \/ Open \/ RecoverStep
  \/ Fault \/ Environment

Spec == Init /\ [][Next]_vars

Progress ==
  CommitStep \/ CleanStep \/ UndoStep \/ RecoverStep \/ (pc # "idle" /\ Open)

FairSpec == Spec /\ WF_vars(Progress)
-----------------------------------------------------------------------------
(* What a careful reader of the code expects of it.                         *)

TypeOK ==
  /\ live \in [Paths -> Contents] /\ dur \in [Paths -> Contents]
  /\ man \in [Txns -> {"none", "prepared", "committed"}] /\ dir \in [Txns -> BOOLEAN]
  /\ ents \in [Txns -> SUBSET Paths]
  /\ old \in [Txns -> [Paths -> Contents]] /\ new \in [Txns -> [Paths -> Contents]]
  /\ cand \in [Txns -> SUBSET Paths] /\ pre \in [Txns -> SUBSET Paths]
  /\ pc \in Pcs /\ rec \in BOOLEAN /\ cur \in Txns
  /\ todo \subseteq Paths /\ pend \subseteq Txns
  /\ out \in [Txns -> {"new", "open", "refused", "failed", "ok"}]
  /\ crashes \in Nat /\ faults \in Nat /\ edits \in Nat
  /\ taken \in [Txns -> SUBSET Paths]

\* The entries of t whose file nobody else has rewritten since t was staged.
Mine(t) == ents[t] \ taken[t]
Committed(t) == \A p \in Mine(t) : live[p] = new[t][p]
RolledBack(t) == \A p \in Mine(t) : live[p] = old[t][p]

\* All or nothing: once the manifest of a transaction is gone, however the
\* commit, the rollback, the crashes and the recoveries were interleaved, its
\* files hold either all of its candidates or all of its preimages.
AllOrNothing ==
  \A t \in Txns : man[t] = "none" => Committed(t) \/ RolledBack(t)

\* commit() returns only when every candidate is in place for good: no later
\* power loss, rollback or recovery takes back an acknowledged commit.
AcknowledgedIsDurable ==
  \A t \in Txns : out[t] = "ok" =>
    \A p \in Mine(t) : live[p] = new[t][p] /\ dur[p] = new[t][p]

\* Recovery never rolls back, and a rollback never overwrites, a file that
\* someone else has rewritten in the meantime.
OthersPreserved ==
  [][ pc = "undo" /\ edits' = edits /\ crashes' = crashes =>
        \A p \in taken[cur] : live'[p] = live[p] ]_vars

\* "A durable committed marker makes later journal cleanup recoverable on
\* open" and "recovery is idempotent": recovery accepts every journal that
\* commits, rollbacks, crashes and earlier recoveries leave behind.
RecoveryAccepts == pc # "blocked"

\* The same of a commit that returned: its marker lets any later open finish
\* the cleanup, whatever has legitimately been written since.
CommittedRecoverable == pc = "blocked" => out[cur] # "ok"

\* Whatever was interrupted, the Instance becomes usable again: every stage
\* left behind is settled and removed.
RecoveryCompletes ==
  pc = "down" ~> pc = "idle" /\ \A t \in Txns : ~dir[t]

-----------------------------------------------------------------------------
(* The promise: AtomicStore, until somebody else edits the Instance.        *)

\* A journal that the next open rolls back, or refuses to complete.
Doubtful(t) ==
  \/ man[t] = "prepared"
  \/ man[t] = "committed" /\ \E p \in ents[t] : live[p] # new[t][p]

RecoveredView ==
  [p \in Paths |-> IF \E t \in Txns : Doubtful(t) /\ p \in ents[t]
                   THEN old[CHOOSE t \in Txns : Doubtful(t) /\ p \in ents[t]][p]
                   ELSE live[p]]

InPlace ==
  {t \in Txns : \/ out[t] = "ok"
                \/ man[t] = "committed" /\ ~Doubtful(t)
                \/ cur = t /\ pc = "clean" /\ ~rec}

Abstract == INSTANCE AtomicStore WITH
  store <- RecoveredView,
  before <- [t \in Txns |-> [p \in ents[t] |-> old[t][p]]],
  after <- [t \in Txns |-> [p \in ents[t] |-> new[t][p]]],
  applied <- InPlace,
  answer <- out,
  disturbed <- edits > 0

\* The journaled commit implements the atomic store: through every fault,
\* crash, rollback and recovery the Instance changes by whole transactions,
\* and commit() returns only for one that is in place and stays there.
Implements == Abstract!Spec
=============================================================================
