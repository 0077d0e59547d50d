------------------------- MODULE AtomicCommitProofs -------------------------
(***************************************************************************)
(* Proofs about AtomicCommit, for any number of files, contents,           *)
(* transactions, crashes, faults and foreign edits.                        *)
(***************************************************************************)
EXTENDS AtomicCommit, TLAPS

-----------------------------------------------------------------------------
(* The inductive invariant behind AllOrNothing and AcknowledgedIsDurable    *)
(* for profiles that are recovered before every lifecycle writer.           *)

Working == {"stage", "publish", "flush", "mark", "undo", "settle"}

\* At most one stage exists, it is the one being worked on, and its manifest
\* follows the control point.
OneStage ==
  /\ \A t, u \in Txns : dir[t] /\ dir[u] => t = u
  /\ \A t \in Txns : man[t] # "none" => dir[t]
  /\ \A t \in Txns : out[t] = "new" => ents[t] = {} /\ taken[t] = {} /\ ~dir[t]
  /\ \A t \in Txns : man[t] = "prepared" => out[t] # "ok"
  /\ pc \in Working => dir[cur] /\ out[cur] # "ok"
  /\ pc = "stage" => man[cur] = "none"
  /\ pc \in {"publish", "flush", "mark"} => man[cur] = "prepared"
  /\ pc = "clean" => man[cur] # "prepared"
  /\ pc \in {"idle", "stage", "publish", "flush", "mark", "clean"} => ~rec
  /\ rec /\ pc \in {"undo", "settle", "discard"} => pend = {}
  /\ pc \in {"undo", "settle"} => man[cur] # "none"
  /\ pc \in {"clean", "discard"} => \A t \in Txns : dir[t] => t = cur
  /\ pc = "scan" => \A t \in pend : dir[t]
  /\ todo \subseteq ents[cur] \/ pc \notin {"publish", "undo"}

\* An entry changes its file, and a file nobody else rewrote holds the
\* preimage or the candidate.
TwoValued ==
  \A t \in Txns : \A p \in ents[t] :
    /\ old[t][p] # new[t][p]
    /\ p \notin taken[t] => live[p] \in {old[t][p], new[t][p]}

\* How far the commit or the rollback has come.
Phase ==
  /\ pc = "stage" => RolledBack(cur)
  /\ pc = "publish" => \A p \in Mine(cur) \ todo : live[p] = new[cur][p]
  /\ pc \in {"flush", "mark", "clean"} => Committed(cur)
  /\ pc = "undo" => \A p \in Mine(cur) \ todo : live[p] = old[cur][p]
  /\ pc = "settle" => RolledBack(cur)
  /\ pc = "discard" => Committed(cur) \/ RolledBack(cur)
  /\ pc = "discard" /\ man[cur] = "prepared" => RolledBack(cur)

\* Unflushed files are renames of the current, still prepared transaction.
Unflushed ==
  /\ \A p \in Dirty : /\ p \in ents[cur] /\ dir[cur] /\ man[cur] = "prepared"
                      /\ live[p] = new[cur][p] /\ dur[p] = old[cur][p]
                      /\ pc = "publish" => p \notin todo
                      /\ pc = "undo" => p \in todo
                      /\ Removes(cur, p) => p \in cand[cur]
                      /\ \A u \in Txns \ {cur} : p \in ents[u] => p \in taken[u]
  /\ pc \in {"stage", "mark", "clean", "discard", "settle", "down", "scan", "blocked"} => Dirty = {}
  /\ rec => Dirty = {}

\* A removal whose candidate is not in the stage has not been published.
RemovalProof ==
  \A t \in Txns : man[t] = "prepared" \/ (cur = t /\ pc = "undo") =>
    \A p \in Mine(t) : Removes(t, p) /\ p \notin cand[t] => live[p] = old[t][p]

\* A file a settled transaction can still call its own is untouched by the
\* transaction whose stage exists.
Disjoint ==
  \A t, u \in Txns : t # u /\ dir[t] /\ out[u] = "ok" =>
    \A p \in ents[t] \cap Mine(u) : live[p] = old[t][p]

IInv ==
  /\ TypeOK /\ OneStage /\ TwoValued /\ Phase /\ Unflushed /\ RemovalProof /\ Disjoint
  /\ AllOrNothing /\ AcknowledgedIsDurable

-----------------------------------------------------------------------------
(* Type correctness.                                                        *)

\* Every step keeps the types.
LEMMA TypeInductive ==
  ASSUME TypeOK, [Next]_vars PROVE TypeOK'
<1> USE DEF TypeOK, Contents, Pcs
<1>1. ASSUME NEW t \in Txns, NEW r \in Requests, Stage(t, r) PROVE TypeOK'
  BY <1>1 DEF Stage, MayBegin, Admissible, Requests, Named, journal, control, env, disk
<1>2. ASSUME NEW t \in Txns, NEW r \in Requests, Refuse(t, r) PROVE TypeOK'
  BY <1>2 DEF Refuse, journal, control, env, disk
<1>3. CASE MarkPrepared
  BY <1>3 DEF MarkPrepared, journal, control, env, disk
<1>4. ASSUME NEW p \in Paths, Publish(p) PROVE TypeOK'
  BY <1>4, ZenonT(40) DEF Publish, First, Rename, TakenFrom, journal, control, env, disk
<1>5. ASSUME NEW p \in Paths, PublishConflict(p) PROVE TypeOK'
  BY <1>5 DEF PublishConflict, BeginUndo, journal, control, env, disk
<1>6. ASSUME NEW p \in Paths, Flush(p) PROVE TypeOK'
  BY <1>6 DEF Flush, journal, control, env, disk
<1>7. CASE PublishDone
  BY <1>7 DEF PublishDone, journal, control, env, disk
<1>8. CASE FlushDone
  BY <1>8 DEF FlushDone, journal, control, env, disk
<1>9. CASE MarkCommitted
  BY <1>9 DEF MarkCommitted, journal, control, env, disk
<1>10. CASE RemoveManifest
  BY <1>10 DEF RemoveManifest, Cleaning, journal, control, env, disk
<1>11. ASSUME NEW p \in Paths, RemovePayload(p) PROVE TypeOK'
  <2>1. CASE cand' = [cand EXCEPT ![cur] = @ \ {p}] /\ UNCHANGED pre
    BY <1>11, <2>1 DEF RemovePayload, control, env, disk
  <2>2. CASE pre' = [pre EXCEPT ![cur] = @ \ {p}] /\ UNCHANGED cand
    BY <1>11, <2>2 DEF RemovePayload, control, env, disk
  <2>3. QED
    BY <1>11, <2>1, <2>2 DEF RemovePayload
<1>12. CASE RemoveStage
  BY <1>12 DEF RemoveStage, Cleaning, journal, control, env, disk
<1>13. CASE CleanDone
  BY <1>13 DEF CleanDone, Leave, journal, control, env, disk
<1>14. ASSUME NEW p \in Paths, Undo(p) PROVE TypeOK'
  <2>1. CASE UNCHANGED <<disk, taken>>
    BY <1>14, <2>1 DEF Undo, journal, env, disk
  <2>2. CASE /\ live' = [live EXCEPT ![p] = old[cur][p]]
             /\ dur' = [dur EXCEPT ![p] = old[cur][p]]
             /\ taken' = TakenFrom({u \in Txns \ {cur} : out[u] # "ok"}, p)
    BY <1>14, <2>2 DEF Undo, TakenFrom, journal, env
  <2>3. QED
    BY <1>14, <2>1, <2>2 DEF Undo
<1>15. ASSUME NEW p \in Paths, UndoStuck(p) PROVE TypeOK'
  BY <1>15 DEF UndoStuck, journal, control, env, disk
<1>16. CASE UndoDone
  BY <1>16 DEF UndoDone, journal, control, env, disk
<1>17. CASE Settle
  BY <1>17 DEF Settle, journal, control, env, disk
<1>18. CASE Open
  BY <1>18 DEF Open, journal, control, env, disk
<1>19. ASSUME NEW t \in Txns, Visit(t) PROVE TypeOK'
  BY <1>19 DEF Visit, journal, control, env, disk
<1>20. CASE ScanDone
  BY <1>20 DEF ScanDone, journal, control, env, disk
<1>21. CASE StageFails
  BY <1>21 DEF StageFails, journal, control, env, disk
<1>22. CASE PublishFails
  BY <1>22 DEF PublishFails, BeginUndo, journal, control, env, disk
<1>23. CASE MarkFlushFails
  BY <1>23 DEF MarkFlushFails, BeginUndo, journal, control, env, disk
<1>24. CASE Interrupted
  BY <1>24 DEF Interrupted, journal, control, env, disk
<1>25. CASE CleanFails
  <2>1. pc' \in Pcs /\ out' \in [Txns -> {"new", "open", "refused", "failed", "ok"}]
    BY <1>25 DEF CleanFails, Leave
  <2>2. QED
    BY <1>25, <2>1 DEF CleanFails, journal, env, disk
<1>26. CASE RecoveryFails
  BY <1>26 DEF RecoveryFails, journal, control, env, disk
<1>27. ASSUME NEW R \in SUBSET Dirty, Crash(R) PROVE TypeOK'
  <2>1. live' \in [Paths -> Contents] /\ dur' \in [Paths -> Contents]
    BY <1>27 DEF Crash
  <2>2. cand' \in [Txns -> SUBSET Paths]
    BY <1>27 DEF Crash, Dirty
  <2>3. rec' \in BOOLEAN
    BY <1>27 DEF Crash
  <2>4. /\ UNCHANGED <<man, dir, ents, old, new, pre, cur, todo, pend, out, faults, edits, taken>>
        /\ pc' = "down" /\ crashes' = crashes + 1
    BY <1>27 DEF Crash
  <2>5. QED
    BY <2>1, <2>2, <2>3, <2>4
<1>28. ASSUME NEW p \in Paths, NEW v \in Foreign, Edit(p, v) PROVE TypeOK'
  BY <1>28 DEF Edit, TakenFrom, journal, control, env, disk
<1>29. CASE UNCHANGED vars
  BY <1>29 DEF vars, journal, control, env
<1> HIDE DEF TypeOK, Contents, Pcs
<1>30. QED
  <2>1. CASE Begin BY <1>1, <1>2, <2>1 DEF Begin
  <2>2. CASE CommitStep
    BY <1>3, <1>4, <1>5, <1>6, <1>7, <1>8, <1>9, <2>2 DEF CommitStep
  <2>3. CASE CleanStep BY <1>10, <1>11, <1>12, <1>13, <2>3 DEF CleanStep
  <2>4. CASE UndoStep BY <1>14, <1>15, <1>16, <1>17, <2>4 DEF UndoStep
  <2>5. CASE Open \/ RecoverStep BY <1>18, <1>19, <1>20, <2>5 DEF RecoverStep
  <2>6. CASE Fault BY <1>21, <1>22, <1>23, <1>24, <1>25, <1>26, <2>6 DEF Fault
  <2>7. CASE Environment BY <1>27, <1>28, <2>7 DEF Environment
  <2>8. QED BY <1>29, <2>1, <2>2, <2>3, <2>4, <2>5, <2>6, <2>7 DEF Next

\* The initial state has the types.
LEMMA InitType == Init => TypeOK
<1> SUFFICES ASSUME Init PROVE TypeOK
  OBVIOUS
<1>1. live \in [Paths -> Contents] /\ dur \in [Paths -> Contents]
  BY DEF Init, Contents
<1>2. /\ man \in [Txns -> {"none", "prepared", "committed"}] /\ dir \in [Txns -> BOOLEAN]
      /\ out \in [Txns -> {"new", "open", "refused", "failed", "ok"}]
  BY DEF Init
<1>3. /\ old \in [Txns -> [Paths -> Contents]] /\ new \in [Txns -> [Paths -> Contents]]
  <2>1. [p \in Paths |-> Absent] \in [Paths -> Contents]
    BY DEF Contents
  <2>2. QED
    BY <2>1 DEF Init
<1>4. /\ ents \in [Txns -> SUBSET Paths] /\ cand \in [Txns -> SUBSET Paths]
      /\ pre \in [Txns -> SUBSET Paths] /\ taken \in [Txns -> SUBSET Paths]
  BY DEF Init
<1>5. QED
  BY <1>1, <1>2, <1>3, <1>4 DEF Init, TypeOK, Pcs

\* Every state the commit, its rollback and the recovery reach is well formed:
\* stages hold only files of the Instance, contents are contents.
THEOREM TypeCorrect == Spec => []TypeOK
<1>1. Init => TypeOK
  BY InitType
<1>2. TypeOK /\ [Next]_vars => TypeOK'
  BY TypeInductive
<1>3. QED
  BY <1>1, <1>2, PTL DEF Spec

-----------------------------------------------------------------------------
(* Atomicity and durability.                                                *)

\* Transactions already settled stay settled when nobody touches the files
\* they can still call their own.
LEMMA SettledKept ==
  ASSUME AllOrNothing, UNCHANGED <<ents, old, new>>,
         \A t \in Txns : man'[t] = "none" =>
            /\ man[t] = "none"
            /\ \A p \in ents[t] \ taken'[t] : p \notin taken[t] /\ live'[p] = live[p]
  PROVE AllOrNothing'
<1> SUFFICES ASSUME NEW t \in Txns, man'[t] = "none" PROVE Committed(t)' \/ RolledBack(t)'
  BY DEF AllOrNothing
<1>1. CASE Committed(t)
  BY <1>1 DEF Committed, Mine
<1>2. CASE RolledBack(t)
  BY <1>2 DEF RolledBack, Mine
<1>3. QED
  BY <1>1, <1>2 DEF AllOrNothing

\* IInv holds initially.
LEMMA InitIInv == Init => IInv
<1> SUFFICES ASSUME Init PROVE IInv
  OBVIOUS
<1>1. TypeOK
  BY InitType
<1>2. OneStage /\ Phase /\ TwoValued /\ RemovalProof /\ Disjoint
  BY DEF Init, OneStage, Phase, TwoValued, RemovalProof, Disjoint, Mine, Working
<1>3. Unflushed /\ AllOrNothing /\ AcknowledgedIsDurable
  BY DEF Init, Unflushed, Dirty, AllOrNothing, AcknowledgedIsDurable, Committed, Mine
<1>4. QED
  BY <1>1, <1>2, <1>3 DEF IInv

\* A commit never starts over a stage left behind.
FreshStart == RecoverFirst \/ (pc = "idle" => \A u \in Txns : ~dir[u])

\* IInv is inductive.
LEMMA Induction ==
  ASSUME FreshStart, IInv, [Next]_vars PROVE IInv'
<1> USE DEF Mine, Committed, RolledBack, Removes, Dirty, Working, journal, control, env, disk
<1>t. TypeOK /\ TypeOK'
  BY TypeInductive DEF IInv
<1>i. /\ OneStage /\ TwoValued /\ Phase /\ Unflushed /\ RemovalProof /\ Disjoint
      /\ AllOrNothing /\ AcknowledgedIsDurable
  BY DEF IInv
<1>1. ASSUME NEW t \in Txns, NEW r \in Requests, Stage(t, r) PROVE IInv'
  <2>0. \A u \in Txns : ~dir[u]
    BY <1>1 DEF Stage, MayBegin, FreshStart
  <2>1. OneStage'
    BY <2>0, <1>t, <1>i, <1>1 DEF TypeOK, Stage, MayBegin, Admissible, Requests, Named, OneStage
  <2>2. TwoValued'
    BY <2>0, <1>t, <1>i, <1>1 DEF TypeOK, Stage, MayBegin, Admissible, Requests, Named, TwoValued
  <2>3. Phase'
    BY <2>0, <1>t, <1>i, <1>1 DEF TypeOK, Stage, MayBegin, Admissible, Requests, Named, Phase
  <2>4. Unflushed'
    BY <2>0, <1>t, <1>i, <1>1 DEF TypeOK, Stage, MayBegin, Admissible, Requests, Named, Unflushed
  <2>5. RemovalProof'
    BY <2>0, <1>t, <1>i, <1>1
    DEF TypeOK, Stage, MayBegin, Admissible, Requests, Named, RemovalProof
  <2>6. Disjoint'
    BY <2>0, <1>t, <1>i, <1>1 DEF TypeOK, Stage, MayBegin, Admissible, Requests, Named, Disjoint
  <2>7. AllOrNothing'
    <3> SUFFICES ASSUME NEW u \in Txns, man'[u] = "none" PROVE Committed(u)' \/ RolledBack(u)'
      BY DEF AllOrNothing
    <3>1. CASE u = t
      BY <1>t, <1>1, <3>1 DEF TypeOK, Stage
    <3>2. CASE u # t
      <4>1. UNCHANGED live /\ ents'[u] = ents[u] /\ taken'[u] = taken[u] /\ man[u] = "none"
        BY <1>t, <1>1, <3>2 DEF TypeOK, Stage
      <4>2. old'[u] = old[u] /\ new'[u] = new[u]
        BY <1>t, <1>1, <3>2 DEF TypeOK, Stage
      <4>3. Committed(u) \/ RolledBack(u)
        BY <1>i, <4>1 DEF AllOrNothing
      <4>4. QED
        BY <4>1, <4>2, <4>3
    <3>3. QED
      BY <3>1, <3>2
  <2>8. AcknowledgedIsDurable'
    BY <2>0, <1>t, <1>i, <1>1
    DEF TypeOK, Stage, MayBegin, Admissible, Requests, Named, AcknowledgedIsDurable
  <2>9. QED
    BY <1>t, <2>1, <2>2, <2>3, <2>4, <2>5, <2>6, <2>7, <2>8 DEF IInv
<1>2. ASSUME NEW t \in Txns, NEW r \in Requests, Refuse(t, r) PROVE IInv'
  <2>1. OneStage'
    BY <1>t, <1>i, <1>2 DEF TypeOK, Refuse, MayBegin, OneStage
  <2>2. TwoValued'
    BY <1>t, <1>i, <1>2 DEF TypeOK, Refuse, MayBegin, TwoValued
  <2>3. Phase'
    BY <1>t, <1>i, <1>2 DEF TypeOK, Refuse, MayBegin, Phase
  <2>4. Unflushed'
    BY <1>t, <1>i, <1>2 DEF TypeOK, Refuse, MayBegin, Unflushed
  <2>5. RemovalProof'
    BY <1>t, <1>i, <1>2 DEF TypeOK, Refuse, MayBegin, RemovalProof
  <2>6. Disjoint'
    BY <1>t, <1>i, <1>2 DEF TypeOK, Refuse, MayBegin, Disjoint
  <2>7. AllOrNothing'
    BY <1>t, <1>i, <1>2, SettledKept DEF TypeOK, OneStage, Refuse, MayBegin
  <2>8. AcknowledgedIsDurable'
    BY <1>t, <1>i, <1>2 DEF TypeOK, Refuse, MayBegin, AcknowledgedIsDurable
  <2>9. QED
    BY <1>t, <2>1, <2>2, <2>3, <2>4, <2>5, <2>6, <2>7, <2>8 DEF IInv
<1>3. ASSUME MarkPrepared PROVE IInv'
  <2>1. OneStage'
    BY <1>t, <1>i, <1>3
    DEF TypeOK, MarkPrepared, OneStage, Phase, TwoValued, Unflushed, RemovalProof, Disjoint, AcknowledgedIsDurable
  <2>2. TwoValued'
    BY <1>t, <1>i, <1>3 DEF TypeOK, MarkPrepared, TwoValued
  <2>3. Phase'
    BY <1>t, <1>i, <1>3 DEF TypeOK, MarkPrepared, Phase
  <2>4. Unflushed'
    BY <1>t, <1>i, <1>3 DEF TypeOK, MarkPrepared, Unflushed
  <2>5. RemovalProof'
    BY <1>t, <1>i, <1>3 DEF TypeOK, MarkPrepared, RemovalProof, OneStage, Phase
  <2>6. Disjoint'
    BY <1>t, <1>i, <1>3 DEF TypeOK, MarkPrepared, Disjoint
  <2>7. AllOrNothing'
    BY <1>t, <1>i, <1>3, SettledKept DEF TypeOK, OneStage, MarkPrepared
  <2>8. AcknowledgedIsDurable'
    BY <1>t, <1>i, <1>3 DEF TypeOK, MarkPrepared, AcknowledgedIsDurable
  <2>9. QED
    BY <1>t, <2>1, <2>2, <2>3, <2>4, <2>5, <2>6, <2>7, <2>8 DEF IInv
<1>4. ASSUME NEW p \in Paths, Publish(p) PROVE IInv'
  <2>a. /\ p \in ents[cur] /\ p \in todo /\ live[p] = old[cur][p] /\ cur \in Txns
        /\ dir[cur] /\ man[cur] = "prepared" /\ out[cur] # "ok" /\ ~rec
        /\ Removes(cur, p) <=> p \notin cand[cur]
    BY <1>t, <1>i, <1>4 DEF TypeOK, Publish, First, Publishable, OneStage
  <2>b. /\ pc = "publish" /\ todo' = todo \ {p}
        /\ live' = [live EXCEPT ![p] = new[cur][p]]
        /\ cand' = [cand EXCEPT ![cur] = IF Removes(cur, p) THEN @ \cup {p} ELSE @ \ {p}]
        /\ UNCHANGED <<dur, man, dir, ents, old, new, pre, pc, rec, cur, pend, out>>
    BY <1>4 DEF Publish, Rename
  <2>c. /\ taken'[cur] = taken[cur] \ {p}
        /\ \A u \in Txns \ {cur} : taken'[u] = IF p \in ents[u] THEN taken[u] \cup {p} ELSE taken[u]
    BY <1>t, <1>4 DEF TypeOK, Publish, TakenFrom
  <2>d. p \notin Dirty /\ dur[p] = old[cur][p]
    BY <1>i, <2>a, <2>b DEF Unflushed
  <2>e. /\ live'[p] = new[cur][p] /\ \A q \in Paths \ {p} : live'[q] = live[q]
        /\ \A u \in Txns \ {cur} : cand'[u] = cand[u]
        /\ \A q \in Paths \ {p} : q \in cand'[cur] <=> q \in cand[cur]
        /\ Removes(cur, p) => p \in cand'[cur]
    BY <1>t, <2>a, <2>b DEF TypeOK
  <2>f. ASSUME NEW u \in Txns, NEW q \in ents[u] \ taken'[u]
        PROVE  /\ q \in Paths
               /\ \/ q # p /\ q \notin taken[u] /\ live'[q] = live[q]
                  \/ q = p /\ u = cur /\ live'[q] = new[u][q]
    BY <1>t, <2>a, <2>c, <2>e DEF TypeOK
  <2>g. /\ pc = "publish" /\ pc' = "publish" /\ todo' = todo \ {p}
        /\ UNCHANGED <<dur, man, dir, ents, old, new, pre, rec, cur, pend, out>>
    BY <2>b
  <2>1. OneStage'
    BY <1>t, <1>i, <2>a, <2>b, <2>c, ZenonT(40) DEF TypeOK, OneStage
  <2>2. TwoValued'
    <3>1. ASSUME NEW u \in Txns, NEW q \in ents[u], q \notin taken'[u]
          PROVE  live'[q] \in {old[u][q], new[u][q]}
      BY <1>i, <2>f, <3>1 DEF TwoValued
    <3>2. QED
      BY <1>i, <2>g, <3>1 DEF TwoValued
  <2>3. Phase'
    BY <1>t, <1>i, <2>a, <2>f, <2>g DEF TypeOK, Phase
  <2>4. Unflushed'
    <3>1. ASSUME NEW q \in Paths, live'[q] # dur[q]
          PROVE  /\ q \in ents[cur] /\ live'[q] = new[cur][q] /\ dur[q] = old[cur][q]
                 /\ q \notin todo'
                 /\ Removes(cur, q) => q \in cand'[cur]
                 /\ \A u \in Txns \ {cur} : q \in ents[u] => q \in taken'[u]
      <4>1. CASE q = p
        BY <1>t, <2>a, <2>c, <2>d, <2>e, <2>g, <4>1 DEF TypeOK
      <4>2. CASE q # p
        <5>1. q \in Dirty /\ live'[q] = live[q]
          BY <2>e, <3>1, <4>2
        <5>2. \A u \in Txns \ {cur} : q \in ents[u] => q \in taken'[u]
          BY <1>t, <1>i, <2>c, <5>1, <4>2 DEF TypeOK, Unflushed
        <5>3. Removes(cur, q) => q \in cand'[cur]
          BY <1>i, <2>e, <5>1, <4>2 DEF Unflushed
        <5>4. QED
          BY <1>i, <2>g, <5>1, <5>2, <5>3 DEF Unflushed
      <4>3. QED
        BY <4>1, <4>2
    <3>2. QED
      BY <1>i, <2>a, <2>g, <3>1 DEF Unflushed
  <2>5. RemovalProof'
    <3>1. ASSUME NEW u \in Txns, man[u] = "prepared", NEW q \in ents[u] \ taken'[u],
                 Removes(u, q), q \notin cand'[u]
          PROVE  live'[q] = old[u][q]
      <4>1. q # p /\ q \notin taken[u] /\ live'[q] = live[q] /\ q \in Paths
        BY <2>e, <2>f, <3>1
      <4>2. q \notin cand[u]
        BY <2>e, <3>1, <4>1
      <4>3. QED
        BY <1>i, <3>1, <4>1, <4>2 DEF RemovalProof
    <3>2. QED
      BY <2>g, <3>1 DEF RemovalProof
  <2>6. Disjoint'
    BY <1>t, <1>i, <2>a, <2>f, <2>g DEF TypeOK, Disjoint, OneStage
  <2>7. AllOrNothing'
    <3>1. ASSUME NEW u \in Txns, man[u] = "none", NEW q \in ents[u] \ taken'[u]
          PROVE  q \notin taken[u] /\ live'[q] = live[q]
      BY <2>a, <2>f, <3>1
    <3>2. QED
      BY <1>i, <2>g, <3>1, SettledKept
  <2>8. AcknowledgedIsDurable'
    <3>1. ASSUME NEW u \in Txns, out[u] = "ok", NEW q \in ents[u] \ taken'[u]
          PROVE  live'[q] = new[u][q] /\ dur[q] = new[u][q]
      BY <1>i, <2>a, <2>f, <3>1 DEF AcknowledgedIsDurable
    <3>2. QED
      BY <2>g, <3>1 DEF AcknowledgedIsDurable
  <2>9. QED
    BY <1>t, <2>1, <2>2, <2>3, <2>4, <2>5, <2>6, <2>7, <2>8 DEF IInv
<1>5. ASSUME NEW p \in Paths, PublishConflict(p) PROVE IInv'
  <2>1. OneStage'
    BY <1>t, <1>i, <1>5 DEF TypeOK, PublishConflict, BeginUndo, OneStage
  <2>2. TwoValued'
    BY <1>t, <1>i, <1>5 DEF TypeOK, PublishConflict, BeginUndo, TwoValued
  <2>3. Phase'
    BY <1>t, <1>i, <1>5 DEF TypeOK, PublishConflict, BeginUndo, Phase
  <2>4. Unflushed'
    BY <1>t, <1>i, <1>5 DEF TypeOK, PublishConflict, BeginUndo, Unflushed
  <2>5. RemovalProof'
    BY <1>t, <1>i, <1>5 DEF TypeOK, PublishConflict, BeginUndo, RemovalProof, OneStage
  <2>6. Disjoint'
    BY <1>t, <1>i, <1>5 DEF TypeOK, PublishConflict, BeginUndo, Disjoint
  <2>7. AllOrNothing'
    BY <1>t, <1>i, <1>5, SettledKept DEF TypeOK, OneStage, PublishConflict, BeginUndo
  <2>8. AcknowledgedIsDurable'
    BY <1>t, <1>i, <1>5 DEF TypeOK, PublishConflict, BeginUndo, AcknowledgedIsDurable
  <2>9. QED
    BY <1>t, <2>1, <2>2, <2>3, <2>4, <2>5, <2>6, <2>7, <2>8 DEF IInv
<1>6. ASSUME NEW p \in Paths, Flush(p) PROVE IInv'
  <2>1. OneStage'
    BY <1>t, <1>i, <1>6 DEF TypeOK, Flush, OneStage
  <2>2. TwoValued'
    BY <1>t, <1>i, <1>6 DEF TypeOK, Flush, TwoValued
  <2>3. Phase'
    BY <1>t, <1>i, <1>6 DEF TypeOK, Flush, Phase
  <2>4. Unflushed'
    BY <1>t, <1>i, <1>6 DEF TypeOK, Flush, Unflushed
  <2>5. RemovalProof'
    BY <1>t, <1>i, <1>6 DEF TypeOK, Flush, RemovalProof
  <2>6. Disjoint'
    BY <1>t, <1>i, <1>6 DEF TypeOK, Flush, Disjoint
  <2>7. AllOrNothing'
    BY <1>t, <1>i, <1>6, SettledKept DEF TypeOK, OneStage, Flush
  <2>8. AcknowledgedIsDurable'
    BY <1>t, <1>i, <1>6 DEF TypeOK, Flush, AcknowledgedIsDurable
  <2>9. QED
    BY <1>t, <2>1, <2>2, <2>3, <2>4, <2>5, <2>6, <2>7, <2>8 DEF IInv
<1>7. ASSUME PublishDone PROVE IInv'
  <2>1. OneStage'
    BY <1>t, <1>i, <1>7 DEF TypeOK, PublishDone, OneStage
  <2>2. TwoValued'
    BY <1>t, <1>i, <1>7 DEF TypeOK, PublishDone, TwoValued
  <2>3. Phase'
    BY <1>t, <1>i, <1>7 DEF TypeOK, PublishDone, Phase
  <2>4. Unflushed'
    BY <1>t, <1>i, <1>7 DEF TypeOK, PublishDone, Unflushed
  <2>5. RemovalProof'
    BY <1>t, <1>i, <1>7 DEF TypeOK, PublishDone, RemovalProof
  <2>6. Disjoint'
    BY <1>t, <1>i, <1>7 DEF TypeOK, PublishDone, Disjoint
  <2>7. AllOrNothing'
    BY <1>t, <1>i, <1>7, SettledKept DEF TypeOK, OneStage, PublishDone
  <2>8. AcknowledgedIsDurable'
    BY <1>t, <1>i, <1>7 DEF TypeOK, PublishDone, AcknowledgedIsDurable
  <2>9. QED
    BY <1>t, <2>1, <2>2, <2>3, <2>4, <2>5, <2>6, <2>7, <2>8 DEF IInv
<1>8. ASSUME FlushDone PROVE IInv'
  <2>1. OneStage'
    BY <1>t, <1>i, <1>8 DEF TypeOK, FlushDone, OneStage
  <2>2. TwoValued'
    BY <1>t, <1>i, <1>8 DEF TypeOK, FlushDone, TwoValued
  <2>3. Phase'
    BY <1>t, <1>i, <1>8 DEF TypeOK, FlushDone, Phase
  <2>4. Unflushed'
    BY <1>t, <1>i, <1>8 DEF TypeOK, FlushDone, Unflushed
  <2>5. RemovalProof'
    BY <1>t, <1>i, <1>8 DEF TypeOK, FlushDone, RemovalProof
  <2>6. Disjoint'
    BY <1>t, <1>i, <1>8 DEF TypeOK, FlushDone, Disjoint
  <2>7. AllOrNothing'
    BY <1>t, <1>i, <1>8, SettledKept DEF TypeOK, OneStage, FlushDone
  <2>8. AcknowledgedIsDurable'
    BY <1>t, <1>i, <1>8 DEF TypeOK, FlushDone, AcknowledgedIsDurable
  <2>9. QED
    BY <1>t, <2>1, <2>2, <2>3, <2>4, <2>5, <2>6, <2>7, <2>8 DEF IInv
<1>9. ASSUME MarkCommitted PROVE IInv'
  <2>1. OneStage'
    BY <1>t, <1>i, <1>9 DEF TypeOK, MarkCommitted, OneStage
  <2>2. TwoValued'
    BY <1>t, <1>i, <1>9 DEF TypeOK, MarkCommitted, TwoValued
  <2>3. Phase'
    BY <1>t, <1>i, <1>9 DEF TypeOK, MarkCommitted, Phase
  <2>4. Unflushed'
    BY <1>t, <1>i, <1>9 DEF TypeOK, MarkCommitted, Unflushed
  <2>5. RemovalProof'
    BY <1>t, <1>i, <1>9 DEF TypeOK, MarkCommitted, RemovalProof
  <2>6. Disjoint'
    BY <1>t, <1>i, <1>9 DEF TypeOK, MarkCommitted, Disjoint
  <2>7. AllOrNothing'
    BY <1>t, <1>i, <1>9, SettledKept DEF TypeOK, OneStage, MarkCommitted
  <2>8. AcknowledgedIsDurable'
    BY <1>t, <1>i, <1>9 DEF TypeOK, MarkCommitted, AcknowledgedIsDurable
  <2>9. QED
    BY <1>t, <2>1, <2>2, <2>3, <2>4, <2>5, <2>6, <2>7, <2>8 DEF IInv
<1>10. ASSUME RemoveManifest PROVE IInv'
  <2>1. OneStage'
    BY <1>t, <1>i, <1>10 DEF TypeOK, RemoveManifest, Cleaning, OneStage
  <2>2. TwoValued'
    BY <1>t, <1>i, <1>10 DEF TypeOK, RemoveManifest, Cleaning, TwoValued
  <2>3. Phase'
    BY <1>t, <1>i, <1>10 DEF TypeOK, RemoveManifest, Cleaning, Phase
  <2>4. Unflushed'
    BY <1>t, <1>i, <1>10 DEF TypeOK, RemoveManifest, Cleaning, Unflushed
  <2>5. RemovalProof'
    BY <1>t, <1>i, <1>10 DEF TypeOK, RemoveManifest, Cleaning, RemovalProof
  <2>6. Disjoint'
    BY <1>t, <1>i, <1>10 DEF TypeOK, RemoveManifest, Cleaning, Disjoint
  <2>7. AllOrNothing'
    <3> SUFFICES ASSUME NEW u \in Txns, man'[u] = "none" PROVE Committed(u)' \/ RolledBack(u)'
      BY DEF AllOrNothing
    <3>1. Committed(u) \/ RolledBack(u)
      <4>1. CASE u = cur
        BY <1>i, <1>10, <4>1 DEF RemoveManifest, Cleaning, Phase
      <4>2. CASE u # cur
        BY <1>t, <1>i, <1>10, <4>2 DEF TypeOK, RemoveManifest, AllOrNothing
      <4>3. QED
        BY <4>1, <4>2
    <3>2. UNCHANGED <<live, ents, old, new, taken>>
      BY <1>10 DEF RemoveManifest
    <3>3. QED
      BY <3>1, <3>2
  <2>8. AcknowledgedIsDurable'
    BY <1>t, <1>i, <1>10 DEF TypeOK, RemoveManifest, Cleaning, AcknowledgedIsDurable
  <2>9. QED
    BY <1>t, <2>1, <2>2, <2>3, <2>4, <2>5, <2>6, <2>7, <2>8 DEF IInv
<1>11. ASSUME NEW p \in Paths, RemovePayload(p) PROVE IInv'
  <2>1. OneStage'
    BY <1>t, <1>i, <1>11 DEF TypeOK, RemovePayload, Cleaning, OneStage
  <2>2. TwoValued'
    BY <1>t, <1>i, <1>11 DEF TypeOK, RemovePayload, Cleaning, TwoValued
  <2>3. Phase'
    BY <1>t, <1>i, <1>11 DEF TypeOK, RemovePayload, Cleaning, Phase
  <2>4. Unflushed'
    BY <1>t, <1>i, <1>11 DEF TypeOK, RemovePayload, Cleaning, Unflushed
  <2>5. RemovalProof'
    BY <1>t, <1>i, <1>11
    DEF TypeOK, RemovePayload, Cleaning, RemovalProof, OneStage, Phase, TwoValued, Unflushed, Disjoint, AcknowledgedIsDurable
  <2>6. Disjoint'
    BY <1>t, <1>i, <1>11 DEF TypeOK, RemovePayload, Cleaning, Disjoint
  <2>7. AllOrNothing'
    BY <1>t, <1>i, <1>11, SettledKept DEF TypeOK, OneStage, RemovePayload, Cleaning
  <2>8. AcknowledgedIsDurable'
    BY <1>t, <1>i, <1>11 DEF TypeOK, RemovePayload, Cleaning, AcknowledgedIsDurable
  <2>9. QED
    BY <1>t, <2>1, <2>2, <2>3, <2>4, <2>5, <2>6, <2>7, <2>8 DEF IInv
<1>12. ASSUME RemoveStage PROVE IInv'
  <2>1. OneStage'
    BY <1>t, <1>i, <1>12 DEF TypeOK, RemoveStage, Cleaning, OneStage
  <2>2. TwoValued'
    BY <1>t, <1>i, <1>12 DEF TypeOK, RemoveStage, Cleaning, TwoValued
  <2>3. Phase'
    BY <1>t, <1>i, <1>12 DEF TypeOK, RemoveStage, Cleaning, Phase
  <2>4. Unflushed'
    BY <1>t, <1>i, <1>12 DEF TypeOK, RemoveStage, Cleaning, Unflushed
  <2>5. RemovalProof'
    BY <1>t, <1>i, <1>12 DEF TypeOK, RemoveStage, Cleaning, RemovalProof
  <2>6. Disjoint'
    BY <1>t, <1>i, <1>12 DEF TypeOK, RemoveStage, Cleaning, Disjoint
  <2>7. AllOrNothing'
    BY <1>t, <1>i, <1>12, SettledKept DEF TypeOK, OneStage, RemoveStage, Cleaning
  <2>8. AcknowledgedIsDurable'
    BY <1>t, <1>i, <1>12 DEF TypeOK, RemoveStage, Cleaning, AcknowledgedIsDurable
  <2>9. QED
    BY <1>t, <2>1, <2>2, <2>3, <2>4, <2>5, <2>6, <2>7, <2>8 DEF IInv
<1>13. ASSUME CleanDone PROVE IInv'
  <2>1. OneStage'
    BY <1>t, <1>i, <1>13
    DEF TypeOK, CleanDone, Leave, OneStage, Phase, TwoValued, Unflushed, RemovalProof, Disjoint, AcknowledgedIsDurable
  <2>2. TwoValued'
    BY <1>t, <1>i, <1>13 DEF TypeOK, CleanDone, Leave, TwoValued
  <2>3. Phase'
    BY <1>t, <1>i, <1>13 DEF TypeOK, CleanDone, Leave, Phase
  <2>4. Unflushed'
    BY <1>t, <1>i, <1>13 DEF TypeOK, CleanDone, Leave, Unflushed
  <2>5. RemovalProof'
    BY <1>t, <1>i, <1>13 DEF TypeOK, CleanDone, Leave, RemovalProof
  <2>6. Disjoint'
    BY <1>t, <1>i, <1>13 DEF TypeOK, CleanDone, Leave, Disjoint, OneStage
  <2>7. AllOrNothing'
    BY <1>t, <1>i, <1>13, SettledKept DEF TypeOK, OneStage, CleanDone, Leave
  <2>8. AcknowledgedIsDurable'
    BY <1>t, <1>i, <1>13
    DEF TypeOK, CleanDone, Leave, AcknowledgedIsDurable, OneStage, Phase, TwoValued, Unflushed
  <2>9. QED
    BY <1>t, <2>1, <2>2, <2>3, <2>4, <2>5, <2>6, <2>7, <2>8 DEF IInv
<1>14. ASSUME NEW p \in Paths, Undo(p) PROVE IInv'
  <2>1. OneStage'
    <3>1. CASE UNCHANGED <<disk, taken>> /\ Untouched(cur, p)
      BY <1>t, <1>i, <1>14, <3>1 DEF TypeOK, Undo, Last, OneStage
    <3>2. CASE /\ Restorable(cur, p)
               /\ live' = [live EXCEPT ![p] = old[cur][p]]
               /\ dur' = [dur EXCEPT ![p] = old[cur][p]]
               /\ taken' = TakenFrom({u \in Txns \ {cur} : out[u] # "ok"}, p)
      BY <1>t, <1>i, <1>14, <3>2 DEF TypeOK, Undo, Last, TakenFrom, Restorable, OneStage
    <3>3. QED
      BY <1>14, <3>1, <3>2 DEF Undo
  <2>2. TwoValued'
    <3>1. CASE UNCHANGED <<disk, taken>> /\ Untouched(cur, p)
      BY <1>t, <1>i, <1>14, <3>1 DEF TypeOK, Undo, Last, TwoValued
    <3>2. CASE /\ Restorable(cur, p)
               /\ live' = [live EXCEPT ![p] = old[cur][p]]
               /\ dur' = [dur EXCEPT ![p] = old[cur][p]]
               /\ taken' = TakenFrom({u \in Txns \ {cur} : out[u] # "ok"}, p)
      BY <1>t, <1>i, <1>14, <3>2 DEF TypeOK, Undo, Last, TakenFrom, Restorable, TwoValued, OneStage, Disjoint
    <3>3. QED
      BY <1>14, <3>1, <3>2 DEF Undo
  <2>3. Phase'
    BY <1>t, <1>i, <1>14
    DEF TypeOK, Undo, Last, TakenFrom, Untouched, Restorable, HadPreimage, Phase, OneStage, TwoValued, Unflushed, RemovalProof, Disjoint, AcknowledgedIsDurable
  <2>4. Unflushed'
    <3>1. CASE UNCHANGED <<disk, taken>> /\ Untouched(cur, p)
      BY <1>t, <1>i, <1>14, <3>1 DEF TypeOK, Undo, Last, Untouched, HadPreimage, Unflushed, OneStage, TwoValued
    <3>2. CASE /\ Restorable(cur, p)
               /\ live' = [live EXCEPT ![p] = old[cur][p]]
               /\ dur' = [dur EXCEPT ![p] = old[cur][p]]
               /\ taken' = TakenFrom({u \in Txns \ {cur} : out[u] # "ok"}, p)
      BY <1>t, <1>i, <1>14, <3>2 DEF TypeOK, Undo, Last, TakenFrom, Restorable, Unflushed, OneStage
    <3>3. QED
      BY <1>14, <3>1, <3>2 DEF Undo
  <2>5. RemovalProof'
    <3>0. UNCHANGED <<ents, old, new, man, cand, cur, pc>>
      BY <1>14 DEF Undo, journal
    <3>1. CASE UNCHANGED <<disk, taken>> /\ Untouched(cur, p)
      BY <1>i, <3>0, <3>1 DEF RemovalProof, disk, Mine, Removes
    <3>2. CASE /\ Restorable(cur, p)
               /\ live' = [live EXCEPT ![p] = old[cur][p]]
               /\ taken' = TakenFrom({u \in Txns \ {cur} : out[u] # "ok"}, p)
      <4>1. ASSUME NEW u \in Txns, man[u] = "prepared" \/ (cur = u /\ pc = "undo"),
                   NEW q \in Mine(u)', Removes(u, q), q \notin cand[u]
            PROVE  live'[q] = old[u][q]
        <5>1. q \in Mine(u) /\ q \in Paths
          BY <1>t, <3>0, <3>2, <4>1 DEF Mine, TakenFrom, TypeOK
        <5>2. live[q] = old[u][q]
          BY <1>i, <4>1, <5>1 DEF RemovalProof
        <5>3. CASE q = p /\ u # cur /\ out[u] # "ok"
          BY <3>0, <3>2, <4>1, <5>1, <5>3 DEF Mine, TakenFrom
        <5>4. CASE q = p /\ u # cur /\ out[u] = "ok"
          BY <1>t, <1>i, <1>14, <3>2, <4>1, <5>1, <5>2, <5>4 DEF TypeOK, Undo, OneStage, Phase
        <5>5. QED
          BY <1>t, <3>2, <5>1, <5>2, <5>3, <5>4 DEF TypeOK
      <4>2. QED
        BY <3>0, <4>1 DEF RemovalProof, Mine, Removes
    <3>3. QED
      BY <1>14, <3>1, <3>2 DEF Undo
  <2>6. Disjoint'
    BY <1>t, <1>i, <1>14
    DEF TypeOK, Undo, Last, TakenFrom, Untouched, Restorable, HadPreimage, Disjoint, OneStage
  <2>7. AllOrNothing'
    <3>1. UNCHANGED <<ents, old, new, man>>
      BY <1>14 DEF Undo
    <3>2. ASSUME NEW u \in Txns, man[u] = "none", NEW q \in ents[u] \ taken'[u]
          PROVE q \notin taken[u] /\ live'[q] = live[q]
      <4>1. u # cur
        BY <1>i, <1>14, <3>2 DEF Undo, OneStage
      <4>2. CASE UNCHANGED <<disk, taken>>
        BY <3>2, <4>2
      <4>3. CASE /\ Restorable(cur, p)
                 /\ live' = [live EXCEPT ![p] = old[cur][p]]
                 /\ taken' = TakenFrom({w \in Txns \ {cur} : out[w] # "ok"}, p)
        <5>1. q \notin taken[u]
          BY <1>t, <3>2, <4>3 DEF TypeOK, TakenFrom
        <5>2. CASE q = p
          <6>1. out[u] = "ok"
            BY <1>t, <3>2, <4>1, <4>3, <5>2 DEF TypeOK, TakenFrom
          <6>2. live[p] = old[cur][p]
            BY <1>t, <1>i, <1>14, <3>2, <4>1, <5>1, <5>2, <6>1 DEF TypeOK, Undo, Last, OneStage, Disjoint
          <6>3. QED
            BY <1>t, <4>3, <5>1, <5>2, <6>2 DEF TypeOK
        <5>3. CASE q # p
          BY <1>t, <3>2, <4>3, <5>1, <5>3 DEF TypeOK
        <5>4. QED
          BY <5>2, <5>3
      <4>4. QED
        BY <1>14, <4>2, <4>3 DEF Undo
    <3>3. QED
      BY <1>i, <3>1, <3>2, SettledKept
  <2>8. AcknowledgedIsDurable'
    <3>1. CASE UNCHANGED <<disk, taken>> /\ Untouched(cur, p)
      BY <1>t, <1>i, <1>14, <3>1 DEF TypeOK, Undo, AcknowledgedIsDurable
    <3>2. CASE /\ Restorable(cur, p)
               /\ live' = [live EXCEPT ![p] = old[cur][p]]
               /\ dur' = [dur EXCEPT ![p] = old[cur][p]]
               /\ taken' = TakenFrom({u \in Txns \ {cur} : out[u] # "ok"}, p)
      <4>1. UNCHANGED <<ents, new, out>> /\ p \in ents[cur] /\ dir[cur] /\ out[cur] # "ok"
        BY <1>i, <1>14 DEF Undo, Last, OneStage, Working
      <4>2. ASSUME NEW u \in Txns, out[u] = "ok", NEW q \in ents[u] \ taken'[u]
            PROVE live'[q] = new[u][q] /\ dur'[q] = new[u][q]
        <5>1. u # cur /\ q \in ents[u] \ taken[u]
          BY <1>t, <3>2, <4>1, <4>2 DEF TypeOK, TakenFrom
        <5>2. q # p
          BY <1>t, <1>i, <3>2, <4>1, <4>2, <5>1 DEF TypeOK, Disjoint, Restorable, TwoValued
        <5>3. live[q] = new[u][q] /\ dur[q] = new[u][q]
          BY <1>i, <4>2, <5>1 DEF AcknowledgedIsDurable
        <5>4. QED
          BY <1>t, <3>2, <4>2, <5>2, <5>3 DEF TypeOK
      <4>3. QED
        BY <4>1, <4>2 DEF AcknowledgedIsDurable
    <3>3. QED
      BY <1>14, <3>1, <3>2 DEF Undo
  <2>9. QED
    BY <1>t, <2>1, <2>2, <2>3, <2>4, <2>5, <2>6, <2>7, <2>8 DEF IInv
<1>15. ASSUME NEW p \in Paths, UndoStuck(p) PROVE IInv'
  <2>1. OneStage'
    BY <1>t, <1>i, <1>15 DEF TypeOK, UndoStuck, OneStage
  <2>2. TwoValued'
    BY <1>t, <1>i, <1>15 DEF TypeOK, UndoStuck, TwoValued
  <2>3. Phase'
    BY <1>t, <1>i, <1>15 DEF TypeOK, UndoStuck, Phase
  <2>4. Unflushed'
    BY <1>t, <1>i, <1>15 DEF TypeOK, UndoStuck, Unflushed
  <2>5. RemovalProof'
    BY <1>t, <1>i, <1>15 DEF TypeOK, UndoStuck, RemovalProof
  <2>6. Disjoint'
    BY <1>t, <1>i, <1>15 DEF TypeOK, UndoStuck, Disjoint
  <2>7. AllOrNothing'
    BY <1>t, <1>i, <1>15, SettledKept DEF TypeOK, OneStage, UndoStuck
  <2>8. AcknowledgedIsDurable'
    BY <1>t, <1>i, <1>15 DEF TypeOK, UndoStuck, AcknowledgedIsDurable
  <2>9. QED
    BY <1>t, <2>1, <2>2, <2>3, <2>4, <2>5, <2>6, <2>7, <2>8 DEF IInv
<1>16. ASSUME UndoDone PROVE IInv'
  <2>1. OneStage'
    BY <1>t, <1>i, <1>16 DEF TypeOK, UndoDone, OneStage
  <2>2. TwoValued'
    BY <1>t, <1>i, <1>16 DEF TypeOK, UndoDone, TwoValued
  <2>3. Phase'
    BY <1>t, <1>i, <1>16 DEF TypeOK, UndoDone, Phase
  <2>4. Unflushed'
    BY <1>t, <1>i, <1>16
    DEF TypeOK, UndoDone, Unflushed, OneStage, Phase, TwoValued, RemovalProof, Disjoint, AcknowledgedIsDurable
  <2>5. RemovalProof'
    BY <1>t, <1>i, <1>16 DEF TypeOK, UndoDone, RemovalProof
  <2>6. Disjoint'
    BY <1>t, <1>i, <1>16 DEF TypeOK, UndoDone, Disjoint
  <2>7. AllOrNothing'
    BY <1>t, <1>i, <1>16, SettledKept DEF TypeOK, OneStage, UndoDone
  <2>8. AcknowledgedIsDurable'
    BY <1>t, <1>i, <1>16 DEF TypeOK, UndoDone, AcknowledgedIsDurable
  <2>9. QED
    BY <1>t, <2>1, <2>2, <2>3, <2>4, <2>5, <2>6, <2>7, <2>8 DEF IInv
<1>17. ASSUME Settle PROVE IInv'
  <2>1. OneStage'
    BY <1>t, <1>i, <1>17 DEF TypeOK, Settle, OneStage
  <2>2. TwoValued'
    BY <1>t, <1>i, <1>17 DEF TypeOK, Settle, TwoValued
  <2>3. Phase'
    BY <1>t, <1>i, <1>17 DEF TypeOK, Settle, Phase
  <2>4. Unflushed'
    BY <1>t, <1>i, <1>17 DEF TypeOK, Settle, Unflushed
  <2>5. RemovalProof'
    BY <1>t, <1>i, <1>17 DEF TypeOK, Settle, RemovalProof
  <2>6. Disjoint'
    BY <1>t, <1>i, <1>17 DEF TypeOK, Settle, Disjoint
  <2>7. AllOrNothing'
    BY <1>t, <1>i, <1>17, SettledKept DEF TypeOK, OneStage, Settle
  <2>8. AcknowledgedIsDurable'
    BY <1>t, <1>i, <1>17 DEF TypeOK, Settle, AcknowledgedIsDurable
  <2>9. QED
    BY <1>t, <2>1, <2>2, <2>3, <2>4, <2>5, <2>6, <2>7, <2>8 DEF IInv
<1>18. ASSUME Open PROVE IInv'
  <2>1. OneStage'
    BY <1>t, <1>i, <1>18 DEF TypeOK, Open, OneStage
  <2>2. TwoValued'
    BY <1>t, <1>i, <1>18 DEF TypeOK, Open, TwoValued
  <2>3. Phase'
    BY <1>t, <1>i, <1>18 DEF TypeOK, Open, Phase
  <2>4. Unflushed'
    BY <1>t, <1>i, <1>18 DEF TypeOK, Open, Unflushed
  <2>5. RemovalProof'
    BY <1>t, <1>i, <1>18 DEF TypeOK, Open, RemovalProof
  <2>6. Disjoint'
    BY <1>t, <1>i, <1>18 DEF TypeOK, Open, Disjoint
  <2>7. AllOrNothing'
    BY <1>t, <1>i, <1>18, SettledKept DEF TypeOK, OneStage, Open
  <2>8. AcknowledgedIsDurable'
    BY <1>t, <1>i, <1>18 DEF TypeOK, Open, AcknowledgedIsDurable
  <2>9. QED
    BY <1>t, <2>1, <2>2, <2>3, <2>4, <2>5, <2>6, <2>7, <2>8 DEF IInv
<1>19. ASSUME NEW t \in Txns, Visit(t) PROVE IInv'
  <2>1. OneStage'
    BY <1>t, <1>i, <1>19 DEF TypeOK, Visit, Accepted, OneStage
  <2>2. TwoValued'
    BY <1>t, <1>i, <1>19 DEF TypeOK, Visit, Accepted, TwoValued
  <2>3. Phase'
    <3>1. CASE man[t] = "none"
      <4>1. /\ pc' = "discard" /\ cur' = t
            /\ UNCHANGED <<live, man, ents, old, new, taken>>
        BY <1>19, <3>1 DEF Visit, disk, journal
      <4>2. (Committed(t) \/ RolledBack(t))'
        BY <1>i, <3>1, <4>1 DEF AllOrNothing, Committed, RolledBack, Mine
      <4>3. QED
        BY <3>1, <4>1, <4>2 DEF Phase, Committed, RolledBack, Mine
    <3>2. CASE man[t] = "prepared"
      BY <1>t, <1>i, <1>19, <3>2 DEF TypeOK, Visit, Phase
    <3>3. CASE man[t] = "committed"
      BY <1>t, <1>i, <1>19, <3>3 DEF TypeOK, Visit, Accepted, Phase
    <3>4. QED
      BY <1>t, <3>1, <3>2, <3>3 DEF TypeOK
  <2>4. Unflushed'
    BY <1>t, <1>i, <1>19 DEF TypeOK, Visit, Accepted, Unflushed
  <2>5. RemovalProof'
    BY <1>t, <1>i, <1>19 DEF TypeOK, Visit, Accepted, RemovalProof
  <2>6. Disjoint'
    BY <1>t, <1>i, <1>19 DEF TypeOK, Visit, Accepted, Disjoint
  <2>7. AllOrNothing'
    BY <1>t, <1>i, <1>19, SettledKept DEF TypeOK, OneStage, Visit, Accepted
  <2>8. AcknowledgedIsDurable'
    BY <1>t, <1>i, <1>19 DEF TypeOK, Visit, Accepted, AcknowledgedIsDurable
  <2>9. QED
    BY <1>t, <2>1, <2>2, <2>3, <2>4, <2>5, <2>6, <2>7, <2>8 DEF IInv
<1>20. ASSUME ScanDone PROVE IInv'
  <2>1. OneStage'
    BY <1>t, <1>i, <1>20 DEF TypeOK, ScanDone, OneStage
  <2>2. TwoValued'
    BY <1>t, <1>i, <1>20 DEF TypeOK, ScanDone, TwoValued
  <2>3. Phase'
    BY <1>t, <1>i, <1>20 DEF TypeOK, ScanDone, Phase
  <2>4. Unflushed'
    BY <1>t, <1>i, <1>20 DEF TypeOK, ScanDone, Unflushed
  <2>5. RemovalProof'
    BY <1>t, <1>i, <1>20 DEF TypeOK, ScanDone, RemovalProof
  <2>6. Disjoint'
    BY <1>t, <1>i, <1>20 DEF TypeOK, ScanDone, Disjoint
  <2>7. AllOrNothing'
    BY <1>t, <1>i, <1>20, SettledKept DEF TypeOK, OneStage, ScanDone
  <2>8. AcknowledgedIsDurable'
    BY <1>t, <1>i, <1>20 DEF TypeOK, ScanDone, AcknowledgedIsDurable
  <2>9. QED
    BY <1>t, <2>1, <2>2, <2>3, <2>4, <2>5, <2>6, <2>7, <2>8 DEF IInv
<1>21. ASSUME StageFails PROVE IInv'
  <2>1. OneStage'
    BY <1>t, <1>i, <1>21 DEF TypeOK, StageFails, OneStage
  <2>2. TwoValued'
    BY <1>t, <1>i, <1>21 DEF TypeOK, StageFails, TwoValued
  <2>3. Phase'
    BY <1>t, <1>i, <1>21 DEF TypeOK, StageFails, Phase
  <2>4. Unflushed'
    BY <1>t, <1>i, <1>21 DEF TypeOK, StageFails, Unflushed
  <2>5. RemovalProof'
    BY <1>t, <1>i, <1>21 DEF TypeOK, StageFails, RemovalProof, OneStage, Phase
  <2>6. Disjoint'
    BY <1>t, <1>i, <1>21 DEF TypeOK, StageFails, Disjoint
  <2>7. AllOrNothing'
    BY <1>t, <1>i, <1>21, SettledKept DEF TypeOK, OneStage, StageFails
  <2>8. AcknowledgedIsDurable'
    BY <1>t, <1>i, <1>21 DEF TypeOK, StageFails, AcknowledgedIsDurable
  <2>9. QED
    BY <1>t, <2>1, <2>2, <2>3, <2>4, <2>5, <2>6, <2>7, <2>8 DEF IInv
<1>22. ASSUME PublishFails PROVE IInv'
  <2>1. OneStage'
    BY <1>t, <1>i, <1>22 DEF TypeOK, PublishFails, BeginUndo, OneStage
  <2>2. TwoValued'
    BY <1>t, <1>i, <1>22 DEF TypeOK, PublishFails, BeginUndo, TwoValued
  <2>3. Phase'
    BY <1>t, <1>i, <1>22 DEF TypeOK, PublishFails, BeginUndo, Phase
  <2>4. Unflushed'
    BY <1>t, <1>i, <1>22 DEF TypeOK, PublishFails, BeginUndo, Unflushed
  <2>5. RemovalProof'
    BY <1>t, <1>i, <1>22 DEF TypeOK, PublishFails, BeginUndo, RemovalProof, OneStage
  <2>6. Disjoint'
    BY <1>t, <1>i, <1>22 DEF TypeOK, PublishFails, BeginUndo, Disjoint
  <2>7. AllOrNothing'
    BY <1>t, <1>i, <1>22, SettledKept DEF TypeOK, OneStage, PublishFails, BeginUndo
  <2>8. AcknowledgedIsDurable'
    BY <1>t, <1>i, <1>22 DEF TypeOK, PublishFails, BeginUndo, AcknowledgedIsDurable
  <2>9. QED
    BY <1>t, <2>1, <2>2, <2>3, <2>4, <2>5, <2>6, <2>7, <2>8 DEF IInv
<1>23. ASSUME MarkFlushFails PROVE IInv'
  <2>1. OneStage'
    BY <1>t, <1>i, <1>23 DEF TypeOK, MarkFlushFails, BeginUndo, OneStage
  <2>2. TwoValued'
    BY <1>t, <1>i, <1>23 DEF TypeOK, MarkFlushFails, BeginUndo, TwoValued
  <2>3. Phase'
    BY <1>t, <1>i, <1>23 DEF TypeOK, MarkFlushFails, BeginUndo, Phase
  <2>4. Unflushed'
    BY <1>t, <1>i, <1>23 DEF TypeOK, MarkFlushFails, BeginUndo, Unflushed
  <2>5. RemovalProof'
    BY <1>t, <1>i, <1>23 DEF TypeOK, MarkFlushFails, BeginUndo, RemovalProof, OneStage
  <2>6. Disjoint'
    BY <1>t, <1>i, <1>23 DEF TypeOK, MarkFlushFails, BeginUndo, Disjoint
  <2>7. AllOrNothing'
    BY <1>t, <1>i, <1>23, SettledKept DEF TypeOK, OneStage, MarkFlushFails, BeginUndo
  <2>8. AcknowledgedIsDurable'
    BY <1>t, <1>i, <1>23 DEF TypeOK, MarkFlushFails, BeginUndo, AcknowledgedIsDurable
  <2>9. QED
    BY <1>t, <2>1, <2>2, <2>3, <2>4, <2>5, <2>6, <2>7, <2>8 DEF IInv
<1>24. ASSUME Interrupted PROVE IInv'
  <2>1. OneStage'
    BY <1>t, <1>i, <1>24 DEF TypeOK, Interrupted, OneStage
  <2>2. TwoValued'
    BY <1>t, <1>i, <1>24 DEF TypeOK, Interrupted, TwoValued
  <2>3. Phase'
    BY <1>t, <1>i, <1>24 DEF TypeOK, Interrupted, Phase
  <2>4. Unflushed'
    BY <1>t, <1>i, <1>24 DEF TypeOK, Interrupted, Unflushed
  <2>5. RemovalProof'
    BY <1>t, <1>i, <1>24 DEF TypeOK, Interrupted, RemovalProof
  <2>6. Disjoint'
    BY <1>t, <1>i, <1>24 DEF TypeOK, Interrupted, Disjoint
  <2>7. AllOrNothing'
    BY <1>t, <1>i, <1>24, SettledKept DEF TypeOK, OneStage, Interrupted
  <2>8. AcknowledgedIsDurable'
    BY <1>t, <1>i, <1>24 DEF TypeOK, Interrupted, AcknowledgedIsDurable
  <2>9. QED
    BY <1>t, <2>1, <2>2, <2>3, <2>4, <2>5, <2>6, <2>7, <2>8 DEF IInv
<1>25. ASSUME CleanFails PROVE IInv'
  <2>1. OneStage'
    BY <1>t, <1>i, <1>25 DEF TypeOK, CleanFails, Cleaning, Leave, OneStage
  <2>2. TwoValued'
    BY <1>t, <1>i, <1>25 DEF TypeOK, CleanFails, Cleaning, Leave, TwoValued
  <2>3. Phase'
    BY <1>t, <1>i, <1>25 DEF TypeOK, CleanFails, Cleaning, Leave, Phase
  <2>4. Unflushed'
    BY <1>t, <1>i, <1>25 DEF TypeOK, CleanFails, Cleaning, Leave, Unflushed
  <2>5. RemovalProof'
    BY <1>t, <1>i, <1>25 DEF TypeOK, CleanFails, Cleaning, Leave, RemovalProof
  <2>6. Disjoint'
    BY <1>t, <1>i, <1>25 DEF TypeOK, CleanFails, Cleaning, Leave, Disjoint, OneStage
  <2>7. AllOrNothing'
    BY <1>t, <1>i, <1>25, SettledKept DEF TypeOK, OneStage, CleanFails, Cleaning, Leave
  <2>8. AcknowledgedIsDurable'
    BY <1>t, <1>i, <1>25
    DEF TypeOK, CleanFails, Cleaning, Leave, AcknowledgedIsDurable, OneStage, Phase, TwoValued, Unflushed
  <2>9. QED
    BY <1>t, <2>1, <2>2, <2>3, <2>4, <2>5, <2>6, <2>7, <2>8 DEF IInv
<1>26. ASSUME RecoveryFails PROVE IInv'
  <2>1. OneStage'
    BY <1>t, <1>i, <1>26 DEF TypeOK, RecoveryFails, OneStage
  <2>2. TwoValued'
    BY <1>t, <1>i, <1>26 DEF TypeOK, RecoveryFails, TwoValued
  <2>3. Phase'
    BY <1>t, <1>i, <1>26 DEF TypeOK, RecoveryFails, Phase
  <2>4. Unflushed'
    BY <1>t, <1>i, <1>26 DEF TypeOK, RecoveryFails, Unflushed
  <2>5. RemovalProof'
    BY <1>t, <1>i, <1>26 DEF TypeOK, RecoveryFails, RemovalProof
  <2>6. Disjoint'
    BY <1>t, <1>i, <1>26 DEF TypeOK, RecoveryFails, Disjoint
  <2>7. AllOrNothing'
    BY <1>t, <1>i, <1>26, SettledKept DEF TypeOK, OneStage, RecoveryFails
  <2>8. AcknowledgedIsDurable'
    BY <1>t, <1>i, <1>26 DEF TypeOK, RecoveryFails, AcknowledgedIsDurable
  <2>9. QED
    BY <1>t, <2>1, <2>2, <2>3, <2>4, <2>5, <2>6, <2>7, <2>8 DEF IInv
<1>27. ASSUME NEW R \in SUBSET Dirty, Crash(R) PROVE IInv'
  <2>1. OneStage'
    BY <1>t, <1>i, <1>27 DEF TypeOK, Crash, OneStage
  <2>2. TwoValued'
    BY <1>t, <1>i, <1>27 DEF TypeOK, Crash, TwoValued, OneStage, Phase, Unflushed
  <2>3. Phase'
    BY <1>t, <1>i, <1>27 DEF TypeOK, Crash, Phase
  <2>4. Unflushed'
    BY <1>t, <1>i, <1>27 DEF TypeOK, Crash, Unflushed
  <2>5. RemovalProof'
    BY <1>t, <1>i, <1>27
    DEF TypeOK, Crash, RemovalProof, OneStage, Phase, TwoValued, Unflushed
  <2>6. Disjoint'
    BY <1>t, <1>i, <1>27 DEF TypeOK, Crash, Disjoint, OneStage, Phase, TwoValued, Unflushed
  <2>7. AllOrNothing'
    <3>1. UNCHANGED <<ents, old, new, man, taken>>
      BY <1>27 DEF Crash
    <3>2. ASSUME NEW u \in Txns, man[u] = "none", NEW q \in ents[u] \ taken[u]
          PROVE live'[q] = live[q]
      BY <1>t, <1>i, <1>27, <3>2 DEF TypeOK, Crash, Unflushed
    <3>3. QED
      BY <1>i, <3>1, <3>2, SettledKept
  <2>8. AcknowledgedIsDurable'
    BY <1>t, <1>i, <1>27 DEF TypeOK, Crash, AcknowledgedIsDurable
  <2>9. QED
    BY <1>t, <2>1, <2>2, <2>3, <2>4, <2>5, <2>6, <2>7, <2>8 DEF IInv
<1>28. ASSUME NEW p \in Paths, NEW v \in Foreign, Edit(p, v) PROVE IInv'
  <2>1. OneStage'
    BY <1>t, <1>i, <1>28 DEF TypeOK, Edit, TakenFrom, OneStage
  <2>2. TwoValued'
    BY <1>t, <1>i, <1>28 DEF TypeOK, Edit, TakenFrom, TwoValued
  <2>3. Phase'
    BY <1>t, <1>i, <1>28 DEF TypeOK, Edit, TakenFrom, Phase
  <2>4. Unflushed'
    BY <1>t, <1>i, <1>28 DEF TypeOK, Edit, TakenFrom, Unflushed
  <2>5. RemovalProof'
    BY <1>t, <1>i, <1>28 DEF TypeOK, Edit, TakenFrom, RemovalProof
  <2>6. Disjoint'
    BY <1>t, <1>i, <1>28 DEF TypeOK, Edit, TakenFrom, Disjoint
  <2>7. AllOrNothing'
    BY <1>t, <1>i, <1>28, SettledKept DEF TypeOK, OneStage, Edit, TakenFrom
  <2>8. AcknowledgedIsDurable'
    BY <1>t, <1>i, <1>28 DEF TypeOK, Edit, TakenFrom, AcknowledgedIsDurable
  <2>9. QED
    BY <1>t, <2>1, <2>2, <2>3, <2>4, <2>5, <2>6, <2>7, <2>8 DEF IInv
<1>29. CASE UNCHANGED vars
  BY <1>t, <1>i, <1>29 DEF IInv, vars, OneStage, TwoValued, Phase, Unflushed, RemovalProof, Disjoint, AllOrNothing, AcknowledgedIsDurable
<1>30. QED
  <2>1. CASE Begin BY <1>1, <1>2, <2>1 DEF Begin
  <2>2. CASE CommitStep
    BY <1>3, <1>4, <1>5, <1>6, <1>7, <1>8, <1>9, <2>2 DEF CommitStep
  <2>3. CASE CleanStep BY <1>10, <1>11, <1>12, <1>13, <2>3 DEF CleanStep
  <2>4. CASE UndoStep BY <1>14, <1>15, <1>16, <1>17, <2>4 DEF UndoStep
  <2>5. CASE Open \/ RecoverStep BY <1>18, <1>19, <1>20, <2>5 DEF RecoverStep
  <2>6. CASE Fault BY <1>21, <1>22, <1>23, <1>24, <1>25, <1>26, <2>6 DEF Fault
  <2>7. CASE Environment BY <1>27, <1>28, <2>7 DEF Environment
  <2>8. QED BY <1>29, <2>1, <2>2, <2>3, <2>4, <2>5, <2>6, <2>7 DEF Next

\* All or nothing, for every number of files, commits, crashes, faults and
\* foreign edits: profiles that are recovered before every lifecycle writer.
THEOREM Atomicity == RecoverFirst => (Spec => []AllOrNothing)
<1> SUFFICES ASSUME RecoverFirst PROVE Spec => []AllOrNothing
  OBVIOUS
<1>1. Init => IInv
  BY InitIInv
<1>2. IInv /\ [Next]_vars => IInv'
  BY Induction DEF FreshStart
<1>3. IInv => AllOrNothing
  BY DEF IInv
<1>4. QED
  BY <1>1, <1>2, <1>3, PTL DEF Spec

\* An acknowledged commit is on disk and stays there, under the same
\* generality: no power loss, rollback or recovery takes it back.
THEOREM Durability == RecoverFirst => (Spec => []AcknowledgedIsDurable)
<1> SUFFICES ASSUME RecoverFirst PROVE Spec => []AcknowledgedIsDurable
  OBVIOUS
<1>1. Init => IInv
  BY InitIInv
<1>2. IInv /\ [Next]_vars => IInv'
  BY Induction DEF FreshStart
<1>3. IInv => AcknowledgedIsDurable
  BY DEF IInv
<1>4. QED
  BY <1>1, <1>2, <1>3, PTL DEF Spec

-----------------------------------------------------------------------------
(* Other people's files.                                                    *)

\* A file that someone else rewrote under the transaction whose stage exists
\* does not hold the transaction's candidate.  The code knows contents by
\* their digests, so an editor who writes the very bytes of a candidate cannot
\* be told from the commit itself: Foreign and Values are disjoint here.
Theirs ==
  \A t \in Txns :
    /\ \A p \in Paths : new[t][p] \in Values \cup {Absent}
    /\ dir[t] => \A p \in ents[t] \cap taken[t] : live[p] # new[t][p]

\* The steps that write a file or a manifest's entries.
Writes ==
  \/ \E t \in Txns, r \in Requests : Stage(t, r)
  \/ \E p \in Paths : Publish(p) \/ Undo(p)
  \/ \E R \in SUBSET Dirty : Crash(R)
  \/ \E p \in Paths, v \in Foreign : Edit(p, v)

\* Every other step leaves contents and entries alone and makes no stage.
LEMMA OtherSteps ==
  ASSUME TypeOK, [Next]_vars, ~Writes
  PROVE  /\ UNCHANGED <<live, ents, old, new, taken, edits>>
         /\ \A t \in Txns : dir'[t] => dir[t]
<1> USE DEF TypeOK, disk, journal, control, env
<1>1. CASE Begin
  BY <1>1 DEF Begin, Writes, Refuse
<1>2. CASE CommitStep
  BY <1>2 DEF CommitStep, Writes, MarkPrepared, PublishDone, FlushDone, MarkCommitted,
              PublishConflict, Flush, BeginUndo
<1>3. CASE CleanStep
  BY <1>3 DEF CleanStep, RemoveManifest, RemovePayload, RemoveStage, CleanDone, Cleaning
<1>4. CASE UndoStep
  BY <1>4 DEF UndoStep, Writes, UndoDone, Settle, UndoStuck
<1>5. CASE Open \/ RecoverStep
  BY <1>5 DEF RecoverStep, Open, ScanDone, Visit
<1>6. CASE Fault
  BY <1>6 DEF Fault, StageFails, PublishFails, MarkFlushFails, Interrupted, CleanFails,
              RecoveryFails
<1>7. CASE Environment
  BY <1>7 DEF Environment, Writes
<1>8. CASE UNCHANGED vars
  BY <1>8 DEF vars
<1>9. QED
  BY <1>1, <1>2, <1>3, <1>4, <1>5, <1>6, <1>7, <1>8 DEF Next

LEMMA TheirsInductive ==
  ASSUME RecoverFirst, Foreign \cap Values = {}, IInv, Theirs, [Next]_vars
  PROVE  Theirs'
<1> USE DEF disk, journal, control, env
<1>t. TypeOK /\ TypeOK' /\ OneStage /\ Unflushed
  BY TypeInductive DEF IInv
<1>1. ASSUME NEW t \in Txns, NEW r \in Requests, Stage(t, r) PROVE Theirs'
  <2>1. taken'[t] = {} /\ UNCHANGED <<live, taken>>
    BY <1>t, <1>1 DEF Stage, MayBegin, OneStage
  <2>2. /\ \A p \in Paths : new'[t][p] \in Values \cup {Absent}
        /\ \A u \in Txns \ {t} : new'[u] = new[u] /\ ents'[u] = ents[u] /\ dir'[u] = dir[u]
    BY <1>t, <1>1 DEF TypeOK, Stage, Requests, Named
  <2>3. ASSUME NEW u \in Txns \ {t}
        PROVE  /\ \A p \in Paths : new'[u][p] \in Values \cup {Absent}
               /\ ~dir'[u]
    BY <1>t, <1>1, <2>2, <2>3 DEF Theirs, Stage, MayBegin
  <2>4. ASSUME NEW u \in Txns
        PROVE  /\ \A p \in Paths : new'[u][p] \in Values \cup {Absent}
               /\ dir'[u] => \A p \in ents'[u] \cap taken'[u] : live'[p] # new'[u][p]
    <3>1. CASE u = t
      BY <2>1, <2>2, <3>1
    <3>2. CASE u # t
      BY <2>3, <3>2
    <3>3. QED
      BY <3>1, <3>2
  <2>5. QED
    BY <2>4 DEF Theirs
<1>2. ASSUME NEW p \in Paths, Publish(p) PROVE Theirs'
  <2>1. /\ dir[cur] /\ UNCHANGED <<dir, ents, new>>
        /\ live' = [live EXCEPT ![p] = new[cur][p]]
    BY <1>t, <1>2 DEF Publish, Rename, OneStage, Working
  <2>2. taken'[cur] = taken[cur] \ {p}
    BY <1>t, <1>2 DEF TypeOK, Publish, TakenFrom
  <2>3. \A t \in Txns : dir[t] => t = cur
    BY <1>t, <2>1 DEF OneStage, TypeOK
  <2>4. QED
    BY <1>t, <2>1, <2>2, <2>3 DEF Theirs, TypeOK
<1>3. ASSUME NEW p \in Paths, Undo(p) PROVE Theirs'
  <2>1. /\ dir[cur] /\ p \in ents[cur] /\ UNCHANGED <<dir, ents, new>>
        /\ \/ UNCHANGED <<live, taken>>
           \/ /\ live[p] = new[cur][p] /\ live' = [live EXCEPT ![p] = old[cur][p]]
              /\ taken' = TakenFrom({u \in Txns \ {cur} : out[u] # "ok"}, p)
    BY <1>t, <1>3 DEF Undo, Last, Restorable, OneStage, Working
  <2>2. \A t \in Txns : dir[t] => t = cur
    BY <1>t, <2>1 DEF OneStage, TypeOK
  <2>3. CASE UNCHANGED <<live, taken>>
    BY <2>1, <2>3 DEF Theirs
  <2>4. CASE /\ live[p] = new[cur][p] /\ live' = [live EXCEPT ![p] = old[cur][p]]
             /\ taken' = TakenFrom({u \in Txns \ {cur} : out[u] # "ok"}, p)
    <3>1. taken'[cur] = taken[cur]
      BY <1>t, <2>4 DEF TypeOK, TakenFrom
    <3>2. p \notin taken[cur]
      BY <1>t, <2>1, <2>4 DEF Theirs, TypeOK
    <3>3. \A q \in taken[cur] : live'[q] = live[q]
      BY <1>t, <2>4, <3>2 DEF TypeOK
    <3>4. QED
      BY <2>1, <2>2, <3>1, <3>3 DEF Theirs
  <2>5. QED
    BY <2>1, <2>3, <2>4
<1>4. ASSUME NEW R \in SUBSET Dirty, Crash(R) PROVE Theirs'
  <2>1. /\ UNCHANGED <<dir, ents, new, taken>>
        /\ \A p \in Paths : live'[p] = IF p \in R THEN dur[p] ELSE live[p]
    BY <1>4 DEF Crash
  <2>2. \A p \in R : live[p] = new[cur][p] /\ p \in ents[cur] /\ dir[cur] /\ dur[p] # live[p]
    BY <1>t DEF Unflushed, Dirty
  <2>3. \A t \in Txns : dir[t] => t = cur \/ R = {}
    BY <1>t, <2>2 DEF OneStage, TypeOK
  <2>4. ASSUME NEW t \in Txns, dir[t], NEW p \in ents[t] \cap taken[t]
        PROVE  live'[p] # new[t][p]
    <3>1. live[p] # new[t][p] /\ p \in Paths
      BY <1>t, <2>4 DEF Theirs, TypeOK
    <3>2. p \notin R
      BY <2>2, <2>3, <2>4, <3>1
    <3>3. QED
      BY <2>1, <3>1, <3>2
  <2>5. QED
    BY <2>1, <2>4 DEF Theirs
<1>5. ASSUME NEW p \in Paths, NEW v \in Foreign, Edit(p, v) PROVE Theirs'
  <2>1. /\ UNCHANGED <<dir, ents, new>>
        /\ live' = [live EXCEPT ![p] = v] /\ taken' = TakenFrom(Txns, p)
    BY <1>5 DEF Edit
  <2>2. v \notin Values \cup {Absent}
    BY ConstantsAssumption
  <2>3. ASSUME NEW t \in Txns, dir[t], NEW q \in ents[t] \cap taken'[t]
        PROVE  live'[q] # new[t][q]
    <3>1. CASE q = p
      BY <1>t, <2>1, <2>2, <3>1 DEF Theirs, TypeOK
    <3>2. CASE q # p
      <4>1. q \in taken[t]
        BY <1>t, <2>1, <2>3, <3>2 DEF TypeOK, TakenFrom
      <4>2. QED
        BY <1>t, <2>1, <2>3, <3>2, <4>1 DEF Theirs, TypeOK
    <3>3. QED
      BY <3>1, <3>2
  <2>4. QED
    BY <2>1, <2>3 DEF Theirs
<1>6. CASE ~Writes
  <2>1. UNCHANGED <<live, ents, new, taken>> /\ \A t \in Txns : dir'[t] => dir[t]
    BY <1>t, <1>6, OtherSteps
  <2>2. QED
    BY <2>1 DEF Theirs
<1>7. QED
  BY <1>1, <1>2, <1>3, <1>4, <1>5, <1>6 DEF Writes

\* A rollback, of the commit itself or of a later recovery, overwrites no file
\* that someone else has rewritten since the transaction published it, whatever
\* faults, crashes and edits came in between.
THEOREM EditsSurvive ==
  RecoverFirst /\ Foreign \cap Values = {} => (Spec => OthersPreserved)
<1> SUFFICES ASSUME RecoverFirst, Foreign \cap Values = {} PROVE Spec => OthersPreserved
  OBVIOUS
<1>1. Init => IInv /\ Theirs
  BY InitIInv DEF Init, Theirs
<1>2. IInv /\ Theirs /\ [Next]_vars => (IInv /\ Theirs)'
  BY Induction, TheirsInductive DEF FreshStart
<1>3. IInv /\ Theirs /\ [Next]_vars =>
        [ pc = "undo" /\ edits' = edits /\ crashes' = crashes =>
            \A p \in taken[cur] : live'[p] = live[p] ]_vars
  <2> SUFFICES ASSUME IInv, Theirs, [Next]_vars, pc = "undo", edits' = edits,
                      crashes' = crashes, NEW p \in taken[cur]
               PROVE  live'[p] = live[p]
    OBVIOUS
  <2>t. TypeOK /\ OneStage /\ p \in Paths
    BY DEF IInv, TypeOK
  <2>1. CASE ~Writes
    BY <2>1, <2>t, OtherSteps
  <2>2. ASSUME NEW t \in Txns, NEW r \in Requests, Stage(t, r) PROVE FALSE
    BY <2>2 DEF Stage, MayBegin
  <2>3. ASSUME NEW q \in Paths, Publish(q) PROVE FALSE
    BY <2>3 DEF Publish
  <2>4. ASSUME NEW q \in Paths, Undo(q) PROVE live'[p] = live[p]
    <3>1. /\ q \in ents[cur] /\ dir[cur]
          /\ \/ UNCHANGED live
             \/ live[q] = new[cur][q] /\ live' = [live EXCEPT ![q] = old[cur][q]]
      BY <2>t, <2>4 DEF Undo, Last, Restorable, OneStage, Working, disk
    <3>2. QED
      BY <2>t, <3>1 DEF Theirs, TypeOK
  <2>5. ASSUME NEW R \in SUBSET Dirty, Crash(R) PROVE FALSE
    BY <2>5, <2>t DEF Crash, TypeOK
  <2>6. ASSUME NEW q \in Paths, NEW v \in Foreign, Edit(q, v) PROVE FALSE
    BY <2>6, <2>t DEF Edit, TypeOK
  <2>7. QED
    BY <2>1, <2>2, <2>3, <2>4, <2>5, <2>6 DEF Writes
<1>4. QED
  BY <1>1, <1>2, <1>3, PTL DEF Spec, OthersPreserved

-----------------------------------------------------------------------------
(* Recovery: a directory order that lists the manifest first, and no errors *)
(* of the file system.                                                      *)

\* As long as nobody else edits the Instance, the existing stage has all of
\* its files to itself.
Unshared == edits = 0 => \A t \in Txns : dir[t] => taken[t] = {}

LEMMA UnsharedInductive ==
  ASSUME FreshStart, IInv, Unshared, [Next]_vars PROVE Unshared'
<1>t. TypeOK /\ TypeOK' /\ OneStage
  BY TypeInductive DEF IInv
<1>1. ASSUME NEW t \in Txns, NEW r \in Requests, Stage(t, r) PROVE Unshared'
  <2>1. taken[t] = {} /\ UNCHANGED <<taken, edits>>
    BY <1>t, <1>1 DEF Stage, MayBegin, OneStage, env
  <2>2. \A u \in Txns : dir'[u] => u = t
    BY <1>t, <1>1 DEF TypeOK, Stage, MayBegin, FreshStart
  <2>3. QED
    BY <2>1, <2>2 DEF Unshared
<1>2. ASSUME NEW p \in Paths, Publish(p) PROVE Unshared'
  <2>1. dir[cur] /\ UNCHANGED <<dir, edits>>
    BY <1>t, <1>2 DEF Publish, OneStage, Working, env
  <2>2. taken'[cur] = taken[cur] \ {p} /\ cur \in Txns
    BY <1>t, <1>2 DEF TypeOK, Publish, TakenFrom
  <2>3. \A t \in Txns : dir[t] => t = cur
    BY <1>t, <2>1, <2>2 DEF OneStage
  <2>4. QED
    BY <2>1, <2>2, <2>3 DEF Unshared
<1>3. ASSUME NEW p \in Paths, Undo(p) PROVE Unshared'
  <2>1. dir[cur] /\ UNCHANGED <<dir, edits>>
    BY <1>t, <1>3 DEF Undo, OneStage, Working, journal, env
  <2>2. taken'[cur] = taken[cur] /\ cur \in Txns
    BY <1>t, <1>3 DEF TypeOK, Undo, TakenFrom
  <2>3. \A t \in Txns : dir[t] => t = cur
    BY <1>t, <2>1, <2>2 DEF OneStage
  <2>4. QED
    BY <2>1, <2>2, <2>3 DEF Unshared
<1>4. ASSUME NEW R \in SUBSET Dirty, Crash(R) PROVE Unshared'
  BY <1>4 DEF Crash, Unshared
<1>5. ASSUME NEW p \in Paths, NEW v \in Foreign, Edit(p, v) PROVE Unshared'
  BY <1>t, <1>5 DEF Edit, Unshared, TypeOK
<1>6. CASE ~Writes
  BY <1>t, <1>6, OtherSteps DEF Unshared
<1>7. QED
  BY <1>1, <1>2, <1>3, <1>4, <1>5, <1>6 DEF Writes

\* Nothing has failed, and every stage is the business of the running commit
\* or of a recovery that has still to visit it.
Attended ==
  /\ faults = 0 /\ edits = 0 /\ pc # "blocked"
  /\ pc = "idle" => \A t \in Txns : ~dir[t]
  /\ pc = "scan" => \A t \in Txns : dir[t] => t \in pend
  /\ pc \in {"undo", "settle"} => man[cur] = "prepared"

\* A manifest is never without the preimages it names.
Kept ==
  \A t \in Txns : man[t] # "none" \/ (cur = t /\ pc = "stage") =>
    \A p \in ents[t] : HadPreimage(t, p) => p \in pre[t]

\* A committed marker stands over a complete publication.
Complete ==
  \A t \in Txns : man[t] = "committed" =>
    \A p \in ents[t] : live[p] = new[t][p] /\ (Removes(t, p) => p \in cand[t])

RInv == IInv /\ Unshared /\ Attended /\ Kept /\ Complete

LEMMA RecoveryInductive ==
  ASSUME ManifestFirst, MaxFaults = 0, MaxForeign = 0, RInv, [Next]_vars
  PROVE  RInv'
<1> USE DEF Removes, HadPreimage, disk, journal, control, env
<1>i. /\ IInv /\ TypeOK /\ TypeOK' /\ OneStage /\ TwoValued /\ Unflushed /\ RemovalProof
      /\ Unshared /\ Attended /\ Kept /\ Complete
  BY TypeInductive DEF RInv, IInv
<1>s. FreshStart
  BY <1>i DEF FreshStart, Attended
<1>a. IInv' /\ Unshared'
  BY <1>i, <1>s, Induction, UnsharedInductive
<1> DEFINE Rest == Attended /\ Kept /\ Complete
<1> SUFFICES Rest'
  BY <1>a DEF RInv
<1>1. ASSUME NEW t \in Txns, NEW r \in Requests, Stage(t, r) PROVE Rest'
  <2>1. Attended'
    BY <1>i, <1>1 DEF TypeOK, OneStage, Attended, Stage, MayBegin
  <2>2. Kept'
    BY <1>i, <1>1 DEF TypeOK, OneStage, Kept, Stage, MayBegin
  <2>3. Complete'
    BY <1>i, <1>1 DEF TypeOK, OneStage, Complete, Stage, MayBegin
  <2>4. QED
    BY <2>1, <2>2, <2>3
<1>2. ASSUME NEW t \in Txns, NEW r \in Requests, Refuse(t, r) PROVE Rest'
  <2>1. Attended'
    BY <1>i, <1>2 DEF TypeOK, OneStage, Attended, Refuse, MayBegin
  <2>2. Kept'
    BY <1>i, <1>2 DEF TypeOK, OneStage, Kept, Refuse, MayBegin
  <2>3. Complete'
    BY <1>i, <1>2 DEF TypeOK, OneStage, Complete, Refuse, MayBegin
  <2>4. QED
    BY <2>1, <2>2, <2>3
<1>3. ASSUME MarkPrepared PROVE Rest'
  <2>1. Attended'
    BY <1>i, <1>3 DEF TypeOK, OneStage, Attended, MarkPrepared
  <2>2. Kept'
    BY <1>i, <1>3 DEF TypeOK, OneStage, Kept, MarkPrepared
  <2>3. Complete'
    BY <1>i, <1>3 DEF TypeOK, OneStage, Complete, MarkPrepared
  <2>4. QED
    BY <2>1, <2>2, <2>3
<1>4. ASSUME NEW p \in Paths, Publish(p) PROVE Rest'
  <2>1. Attended'
    BY <1>i, <1>4 DEF TypeOK, OneStage, Attended, Publish, First, Publishable, Rename
  <2>2. Kept'
    BY <1>i, <1>4 DEF TypeOK, OneStage, Kept, Publish, First, Publishable, Rename
  <2>3. Complete'
    BY <1>i, <1>4 DEF TypeOK, OneStage, Complete, Publish, First, Publishable, Rename
  <2>4. QED
    BY <2>1, <2>2, <2>3
<1>5. ASSUME NEW p \in Paths, PublishConflict(p) PROVE Rest'
  <2>1. Attended'
    BY <1>i, <1>5 DEF TypeOK, OneStage, Attended, PublishConflict, BeginUndo
  <2>2. Kept'
    BY <1>i, <1>5 DEF TypeOK, OneStage, Kept, PublishConflict, BeginUndo
  <2>3. Complete'
    BY <1>i, <1>5 DEF TypeOK, OneStage, Complete, PublishConflict, BeginUndo
  <2>4. QED
    BY <2>1, <2>2, <2>3
<1>6. ASSUME NEW p \in Paths, Flush(p) PROVE Rest'
  <2>1. Attended'
    BY <1>i, <1>6 DEF TypeOK, OneStage, Attended, Flush
  <2>2. Kept'
    BY <1>i, <1>6 DEF TypeOK, OneStage, Kept, Flush
  <2>3. Complete'
    BY <1>i, <1>6 DEF TypeOK, OneStage, Complete, Flush
  <2>4. QED
    BY <2>1, <2>2, <2>3
<1>7. ASSUME PublishDone PROVE Rest'
  <2>1. Attended'
    BY <1>i, <1>7 DEF TypeOK, OneStage, Attended, PublishDone
  <2>2. Kept'
    BY <1>i, <1>7 DEF TypeOK, OneStage, Kept, PublishDone
  <2>3. Complete'
    BY <1>i, <1>7 DEF TypeOK, OneStage, Complete, PublishDone
  <2>4. QED
    BY <2>1, <2>2, <2>3
<1>8. ASSUME FlushDone PROVE Rest'
  <2>1. Attended'
    BY <1>i, <1>8 DEF TypeOK, OneStage, Attended, FlushDone
  <2>2. Kept'
    BY <1>i, <1>8 DEF TypeOK, OneStage, Kept, FlushDone
  <2>3. Complete'
    BY <1>i, <1>8 DEF TypeOK, OneStage, Complete, FlushDone
  <2>4. QED
    BY <2>1, <2>2, <2>3
<1>9. ASSUME MarkCommitted PROVE Rest'
  <2>1. Attended'
    BY <1>i, <1>9 DEF TypeOK, OneStage, Attended, MarkCommitted
  <2>2. Kept'
    BY <1>i, <1>9 DEF TypeOK, OneStage, Kept, MarkCommitted
  <2>3. Complete'
    <3>1. ASSUME NEW p \in ents[cur]
          PROVE  live[p] = new[cur][p] /\ (Removes(cur, p) => p \in cand[cur])
      <4>1. /\ dir[cur] /\ man[cur] = "prepared" /\ cur \in Txns /\ taken[cur] = {}
            /\ Committed(cur)
        BY <1>i, <1>9 DEF MarkCommitted, OneStage, Working, TypeOK, Unshared, Attended, Phase, IInv
      <4>2. live[p] = new[cur][p] /\ old[cur][p] # new[cur][p]
        BY <1>i, <4>1 DEF Committed, Mine, TwoValued
      <4>3. QED
        BY <1>i, <4>1, <4>2 DEF RemovalProof, Mine
    <3>2. QED
      BY <1>i, <1>9, <3>1 DEF TypeOK, Complete, MarkCommitted
  <2>4. QED
    BY <2>1, <2>2, <2>3
<1>10. ASSUME RemoveManifest PROVE Rest'
  <2>1. Attended'
    BY <1>i, <1>10 DEF TypeOK, OneStage, Attended, RemoveManifest, Cleaning
  <2>2. Kept'
    BY <1>i, <1>10 DEF TypeOK, OneStage, Kept, RemoveManifest, Cleaning
  <2>3. Complete'
    BY <1>i, <1>10 DEF TypeOK, OneStage, Complete, RemoveManifest, Cleaning
  <2>4. QED
    BY <2>1, <2>2, <2>3
<1>11. ASSUME NEW p \in Paths, RemovePayload(p) PROVE Rest'
  <2>1. Attended'
    BY <1>i, <1>11 DEF TypeOK, OneStage, Attended, RemovePayload, Cleaning
  <2>2. Kept'
    BY <1>i, <1>11 DEF TypeOK, OneStage, Kept, RemovePayload, Cleaning
  <2>3. Complete'
    BY <1>i, <1>11 DEF TypeOK, OneStage, Complete, RemovePayload, Cleaning
  <2>4. QED
    BY <2>1, <2>2, <2>3
<1>12. ASSUME RemoveStage PROVE Rest'
  <2>1. Attended'
    BY <1>i, <1>12 DEF TypeOK, OneStage, Attended, RemoveStage, Cleaning
  <2>2. Kept'
    BY <1>i, <1>12 DEF TypeOK, OneStage, Kept, RemoveStage, Cleaning
  <2>3. Complete'
    BY <1>i, <1>12 DEF TypeOK, OneStage, Complete, RemoveStage, Cleaning
  <2>4. QED
    BY <2>1, <2>2, <2>3
<1>13. ASSUME CleanDone PROVE Rest'
  <2>1. Attended'
    BY <1>i, <1>13 DEF TypeOK, OneStage, Attended, CleanDone, Leave
  <2>2. Kept'
    BY <1>i, <1>13 DEF TypeOK, OneStage, Kept, CleanDone, Leave
  <2>3. Complete'
    BY <1>i, <1>13 DEF TypeOK, OneStage, Complete, CleanDone, Leave
  <2>4. QED
    BY <2>1, <2>2, <2>3
<1>14. ASSUME NEW p \in Paths, Undo(p) PROVE Rest'
  <2>1. Attended'
    BY <1>i, <1>14 DEF TypeOK, OneStage, Attended, Undo, Last, Restorable
  <2>2. Kept'
    BY <1>i, <1>14 DEF TypeOK, OneStage, Kept, Undo, Last, Restorable
  <2>3. Complete'
    <3>1. \A t \in Txns : man[t] # "committed"
      BY <1>i, <1>14 DEF TypeOK, OneStage, Attended, Undo
    <3>2. QED
      BY <3>1, <1>14 DEF Complete, Undo
  <2>4. QED
    BY <2>1, <2>2, <2>3
<1>15. ASSUME NEW p \in Paths, UndoStuck(p) PROVE Rest'
  <2>1. Attended'
    <3>1. /\ p \in ents[cur] /\ cur \in Txns /\ dir[cur] /\ man[cur] = "prepared"
          /\ ~Untouched(cur, p) /\ ~Restorable(cur, p)
      BY <1>i, <1>15 DEF UndoStuck, Last, OneStage, Working, TypeOK, Attended
    <3>2. /\ old[cur][p] # new[cur][p] /\ live[p] \in {old[cur][p], new[cur][p]}
          /\ HadPreimage(cur, p) => p \in pre[cur]
      BY <1>i, <3>1 DEF TwoValued, Unshared, Attended, Kept
    <3>3. QED
      BY <3>1, <3>2 DEF Untouched, Restorable
  <2>2. Kept'
    BY <1>i, <1>15 DEF TypeOK, OneStage, Kept, UndoStuck, Last
  <2>3. Complete'
    BY <1>i, <1>15 DEF TypeOK, OneStage, Complete, UndoStuck, Last
  <2>4. QED
    BY <2>1, <2>2, <2>3
<1>16. ASSUME UndoDone PROVE Rest'
  <2>1. Attended'
    BY <1>i, <1>16 DEF TypeOK, OneStage, Attended, UndoDone
  <2>2. Kept'
    BY <1>i, <1>16 DEF TypeOK, OneStage, Kept, UndoDone
  <2>3. Complete'
    BY <1>i, <1>16 DEF TypeOK, OneStage, Complete, UndoDone
  <2>4. QED
    BY <2>1, <2>2, <2>3
<1>17. ASSUME Settle PROVE Rest'
  <2>1. Attended'
    BY <1>i, <1>17 DEF TypeOK, OneStage, Attended, Settle
  <2>2. Kept'
    BY <1>i, <1>17 DEF TypeOK, OneStage, Kept, Settle
  <2>3. Complete'
    BY <1>i, <1>17 DEF TypeOK, OneStage, Complete, Settle
  <2>4. QED
    BY <2>1, <2>2, <2>3
<1>18. ASSUME Open PROVE Rest'
  <2>1. Attended'
    BY <1>i, <1>18 DEF TypeOK, OneStage, Attended, Open
  <2>2. Kept'
    BY <1>i, <1>18 DEF TypeOK, OneStage, Kept, Open
  <2>3. Complete'
    BY <1>i, <1>18 DEF TypeOK, OneStage, Complete, Open
  <2>4. QED
    BY <2>1, <2>2, <2>3
<1>19. ASSUME NEW t \in Txns, Visit(t) PROVE Rest'
  <2>1. Attended'
    <3>1. t \in pend /\ dir[t] /\ taken[t] = {}
      BY <1>i, <1>19 DEF Visit, OneStage, Unshared, Attended
    <3>2. ASSUME man[t] # "none", NEW p \in ents[t] PROVE ValidEntry(t, p)
      <4>1. /\ old[t][p] # new[t][p] /\ live[p] \in {old[t][p], new[t][p]}
            /\ HadPreimage(t, p) => p \in pre[t]
        BY <1>i, <3>1, <3>2 DEF TwoValued, Kept
      <4>2. CASE man[t] = "prepared"
        BY <4>1, <4>2 DEF ValidEntry
      <4>3. CASE man[t] = "committed"
        BY <1>i, <4>1, <4>3 DEF ValidEntry, Complete
      <4>4. QED
        BY <1>i, <3>2, <4>2, <4>3 DEF TypeOK
    <3>3. man[t] # "none" => Accepted(t)
      BY <1>i, <3>2 DEF Accepted, Complete
    <3>4. QED
      BY <1>i, <1>19, <3>3 DEF Visit, Attended
  <2>2. Kept'
    BY <1>i, <1>19 DEF TypeOK, OneStage, Kept, Visit
  <2>3. Complete'
    BY <1>i, <1>19 DEF TypeOK, OneStage, Complete, Visit
  <2>4. QED
    BY <2>1, <2>2, <2>3
<1>20. ASSUME ScanDone PROVE Rest'
  <2>1. Attended'
    BY <1>i, <1>20 DEF TypeOK, OneStage, Attended, ScanDone
  <2>2. Kept'
    BY <1>i, <1>20 DEF TypeOK, OneStage, Kept, ScanDone
  <2>3. Complete'
    BY <1>i, <1>20 DEF TypeOK, OneStage, Complete, ScanDone
  <2>4. QED
    BY <2>1, <2>2, <2>3
<1>21. ASSUME NEW R \in SUBSET Dirty, Crash(R) PROVE Rest'
  <2>1. Attended'
    BY <1>i, <1>21 DEF TypeOK, OneStage, Attended, Crash
  <2>2. Kept'
    BY <1>i, <1>21 DEF TypeOK, OneStage, Kept, Crash
  <2>3. Complete'
    <3>1. ASSUME NEW t \in Txns, man[t] = "committed" PROVE R = {}
      BY <1>i, <3>1 DEF TypeOK, OneStage, Unflushed
    <3>2. CASE R = {}
      <4>1. live' = live /\ cand' = cand
        BY <1>i, <1>21, <3>2 DEF Crash, TypeOK
      <4>2. QED
        BY <1>i, <1>21, <4>1 DEF Crash, Complete
    <3>3. CASE \A t \in Txns : man[t] # "committed"
      BY <1>21, <3>3 DEF Crash, Complete
    <3>4. QED
      BY <3>1, <3>2, <3>3
  <2>4. QED
    BY <2>1, <2>2, <2>3
<1>22. CASE UNCHANGED vars
  BY <1>i, <1>22 DEF vars, Attended, Kept, Complete
<1>23. ~Fault /\ \A p \in Paths, v \in Foreign : ~Edit(p, v)
  BY <1>i DEF TypeOK, Fault, StageFails, PublishFails, MarkFlushFails, Interrupted,
              CleanFails, RecoveryFails, Edit
<1> HIDE DEF Rest
<1>24. QED
  <2>1. CASE Begin BY <1>1, <1>2, <2>1 DEF Begin
  <2>2. CASE CommitStep BY <1>3, <1>4, <1>5, <1>6, <1>7, <1>8, <1>9, <2>2 DEF CommitStep
  <2>3. CASE CleanStep BY <1>10, <1>11, <1>12, <1>13, <2>3 DEF CleanStep
  <2>4. CASE UndoStep BY <1>14, <1>15, <1>16, <1>17, <2>4 DEF UndoStep
  <2>5. CASE Open \/ RecoverStep BY <1>18, <1>19, <1>20, <2>5 DEF RecoverStep
  <2>6. CASE Environment BY <1>21, <1>23, <2>6 DEF Environment
  <2>7. QED
    BY <1>22, <1>23, <2>1, <2>2, <2>3, <2>4, <2>5, <2>6 DEF Next

\* Recovery accepts every journal that commits, rollbacks, crashes and earlier
\* recoveries leave behind, also for the profiles that only an open recovers,
\* when rmtree removes the manifest first and the file system makes no errors.
THEOREM RecoveryAlwaysAccepts ==
  ManifestFirst /\ MaxFaults = 0 /\ MaxForeign = 0 => (Spec => []RecoveryAccepts)
<1> SUFFICES ASSUME ManifestFirst, MaxFaults = 0, MaxForeign = 0
             PROVE  Spec => []RecoveryAccepts
  OBVIOUS
<1>1. Init => RInv
  BY InitIInv DEF RInv, Init, Unshared, Attended, Kept, Complete
<1>2. RInv /\ [Next]_vars => RInv'
  BY RecoveryInductive
<1>3. RInv => RecoveryAccepts
  BY DEF RInv, Attended, RecoveryAccepts
<1>4. QED
  BY <1>1, <1>2, <1>3, PTL DEF Spec
=============================================================================
