--------------------------- MODULE AtomicStoreProofs ---------------------------
(***************************************************************************)
(* AtomicCommit implements AtomicStore: every step of the journaled commit, *)
(* its rollback and its recovery changes what the next open shows by whole  *)
(* transactions, or not at all.                                            *)
(***************************************************************************)
EXTENDS AtomicCommitProofs

-----------------------------------------------------------------------------
(* The refinement mapping, evaluated.                                       *)

\* Is the journal of t with manifests m, entries e and candidates n one that
\* the next open takes back, when the files hold l?
Doubt(t, m, e, n, l) ==
  \/ m[t] = "prepared"
  \/ m[t] = "committed" /\ \E p \in e[t] : l[p] # n[t][p]

\* RecoveredView as a function of the variables it reads.
ViewOf(m, e, o, n, l) ==
  [p \in Paths |-> IF \E t \in Txns : Doubt(t, m, e, n, l) /\ p \in e[t]
                   THEN o[CHOOSE t \in Txns : Doubt(t, m, e, n, l) /\ p \in e[t]][p]
                   ELSE l[p]]

\* With nothing to take back the next open shows the files as they are.
LEMMA PlainView ==
  ASSUME NEW m, NEW e, NEW o, NEW n, NEW l \in [Paths -> Contents],
         \A t \in Txns : ~Doubt(t, m, e, n, l)
  PROVE  ViewOf(m, e, o, n, l) = l
<1>1. ViewOf(m, e, o, n, l) = [p \in Paths |-> l[p]]
  BY DEF ViewOf
<1>2. QED
  BY <1>1

\* With one journal to take back it shows that journal's preimages.
LEMMA RestoredView ==
  ASSUME NEW m, NEW e, NEW o, NEW n, NEW l, NEW d \in Txns,
         Doubt(d, m, e, n, l), \A t \in Txns : Doubt(t, m, e, n, l) => t = d
  PROVE  ViewOf(m, e, o, n, l) = [p \in Paths |-> IF p \in e[d] THEN o[d][p] ELSE l[p]]
<1>1. ASSUME NEW p \in Paths, p \in e[d]
      PROVE  (CHOOSE t \in Txns : Doubt(t, m, e, n, l) /\ p \in e[t]) = d
  <2> DEFINE c == CHOOSE t \in Txns : Doubt(t, m, e, n, l) /\ p \in e[t]
  <2>1. c \in Txns /\ Doubt(c, m, e, n, l)
    BY <1>1
  <2>2. QED
    BY <2>1
<1>2. ASSUME NEW p \in Paths
      PROVE  (\E t \in Txns : Doubt(t, m, e, n, l) /\ p \in e[t]) <=> p \in e[d]
  OBVIOUS
<1>3. QED
  BY <1>1, <1>2 DEF ViewOf

\* What the next open shows, now and after a step.
LEMMA Views ==
  ASSUME TypeOK, OneStage
  PROVE  /\ (\A t \in Txns : ~Doubtful(t)) => RecoveredView = live
         /\ \A d \in Txns : Doubtful(d) =>
              RecoveredView = [p \in Paths |-> IF p \in ents[d] THEN old[d][p] ELSE live[p]]
<1>1. RecoveredView = ViewOf(man, ents, old, new, live)
  BY DEF RecoveredView, Doubtful, ViewOf, Doubt
<1>2. \A t \in Txns : Doubtful(t) <=> Doubt(t, man, ents, new, live)
  BY DEF Doubtful, Doubt
<1>3. \A t, u \in Txns : Doubtful(t) /\ Doubtful(u) => t = u
  BY DEF OneStage, Doubtful
<1>4. live \in [Paths -> Contents]
  BY DEF TypeOK
<1>5. (\A t \in Txns : ~Doubtful(t)) => RecoveredView = live
  BY <1>1, <1>2, <1>4, PlainView
<1>6. ASSUME NEW d \in Txns, Doubtful(d)
      PROVE  RecoveredView = [p \in Paths |-> IF p \in ents[d] THEN old[d][p] ELSE live[p]]
  BY <1>1, <1>2, <1>3, <1>6, RestoredView
<1>7. QED
  BY <1>5, <1>6

LEMMA ViewsNext ==
  ASSUME TypeOK', OneStage'
  PROVE  /\ (\A t \in Txns : ~Doubtful(t)') => RecoveredView' = live'
         /\ \A d \in Txns : Doubtful(d)' =>
              RecoveredView' =
                [p \in Paths |-> IF p \in ents'[d] THEN old'[d][p] ELSE live'[p]]
<1>1. RecoveredView' = ViewOf(man', ents', old', new', live')
  BY DEF RecoveredView, Doubtful, ViewOf, Doubt
<1>2. \A t \in Txns : Doubtful(t)' <=> Doubt(t, man', ents', new', live')
  BY DEF Doubtful, Doubt
<1>3. \A t, u \in Txns : Doubtful(t)' /\ Doubtful(u)' => t = u
  BY DEF OneStage, Doubtful
<1>4. live' \in [Paths -> Contents]
  BY DEF TypeOK
<1>5. (\A t \in Txns : ~Doubtful(t)') => RecoveredView' = live'
  BY <1>1, <1>2, <1>4, PlainView
<1>6. ASSUME NEW d \in Txns, Doubtful(d)'
      PROVE  RecoveredView' =
               [p \in Paths |-> IF p \in ents'[d] THEN old'[d][p] ELSE live'[p]]
  BY <1>1, <1>2, <1>3, <1>6, RestoredView
<1>7. QED
  BY <1>5, <1>6

-----------------------------------------------------------------------------
(* The invariant the mapping needs beside IInv.                             *)

\* While commit() runs its caller has no answer yet, and a recovery rolls back
\* prepared journals only.
Answering ==
  /\ ~rec /\ pc \in Working \cup {"clean", "discard"} => out[cur] = "open"
  /\ pc = "scan" => rec
  /\ rec /\ pc \in {"undo", "settle"} => man[cur] = "prepared"

LEMMA AnsweringInductive ==
  ASSUME IInv, Answering, [Next]_vars PROVE Answering'
<1> USE DEF TypeOK, OneStage, Answering, Working, disk, journal, control, env
<1>t. TypeOK /\ OneStage
  BY DEF IInv
<1>1. ASSUME NEW t \in Txns, NEW r \in Requests, Stage(t, r) PROVE Answering'
  BY <1>t, <1>1 DEF Stage, MayBegin
<1>2. ASSUME NEW t \in Txns, NEW r \in Requests, Refuse(t, r) PROVE Answering'
  BY <1>t, <1>2 DEF Refuse, MayBegin
<1>3. ASSUME MarkPrepared PROVE Answering'
  BY <1>t, <1>3 DEF MarkPrepared
<1>4. ASSUME NEW p \in Paths, Publish(p) PROVE Answering'
  BY <1>t, <1>4 DEF Publish
<1>5. ASSUME NEW p \in Paths, PublishConflict(p) PROVE Answering'
  BY <1>t, <1>5 DEF PublishConflict, BeginUndo
<1>6. ASSUME NEW p \in Paths, Flush(p) PROVE Answering'
  BY <1>t, <1>6 DEF Flush
<1>7. ASSUME PublishDone PROVE Answering'
  BY <1>t, <1>7 DEF PublishDone
<1>8. ASSUME FlushDone PROVE Answering'
  BY <1>t, <1>8 DEF FlushDone
<1>9. ASSUME MarkCommitted PROVE Answering'
  BY <1>t, <1>9 DEF MarkCommitted
<1>10. ASSUME RemoveManifest PROVE Answering'
  BY <1>t, <1>10 DEF RemoveManifest, Cleaning
<1>11. ASSUME NEW p \in Paths, RemovePayload(p) PROVE Answering'
  BY <1>t, <1>11 DEF RemovePayload, Cleaning
<1>12. ASSUME RemoveStage PROVE Answering'
  BY <1>t, <1>12 DEF RemoveStage, Cleaning
<1>13. ASSUME CleanDone PROVE Answering'
  BY <1>t, <1>13 DEF CleanDone, Leave
<1>14. ASSUME NEW p \in Paths, Undo(p) PROVE Answering'
  BY <1>t, <1>14 DEF Undo
<1>15. ASSUME NEW p \in Paths, UndoStuck(p) PROVE Answering'
  BY <1>t, <1>15 DEF UndoStuck
<1>16. ASSUME UndoDone PROVE Answering'
  BY <1>t, <1>16 DEF UndoDone
<1>17. ASSUME Settle PROVE Answering'
  BY <1>t, <1>17 DEF Settle
<1>18. ASSUME Open PROVE Answering'
  BY <1>t, <1>18 DEF Open
<1>19. ASSUME NEW t \in Txns, Visit(t) PROVE Answering'
  BY <1>t, <1>19 DEF Visit
<1>20. ASSUME ScanDone PROVE Answering'
  BY <1>t, <1>20 DEF ScanDone
<1>21. ASSUME StageFails PROVE Answering'
  BY <1>t, <1>21 DEF StageFails
<1>22. ASSUME PublishFails PROVE Answering'
  BY <1>t, <1>22 DEF PublishFails, BeginUndo
<1>23. ASSUME MarkFlushFails PROVE Answering'
  BY <1>t, <1>23 DEF MarkFlushFails, BeginUndo
<1>24. ASSUME Interrupted PROVE Answering'
  BY <1>t, <1>24 DEF Interrupted
<1>25. ASSUME CleanFails PROVE Answering'
  BY <1>t, <1>25 DEF CleanFails, Cleaning, Leave
<1>26. ASSUME RecoveryFails PROVE Answering'
  BY <1>t, <1>26 DEF RecoveryFails
<1>27. ASSUME NEW R \in SUBSET Dirty, Crash(R) PROVE Answering'
  BY <1>t, <1>27 DEF Crash
<1>28. ASSUME NEW p \in Paths, NEW v \in Foreign, Edit(p, v) PROVE Answering'
  BY <1>t, <1>28 DEF Edit
<1>29. CASE UNCHANGED vars
  BY <1>29 DEF vars
<1> HIDE DEF Answering
<1>30. QED
  <2>1. CASE Begin BY <1>1, <1>2, <2>1 DEF Begin
  <2>2. CASE CommitStep
    BY <1>3, <1>4, <1>5, <1>6, <1>7, <1>8, <1>9, <2>2 DEF CommitStep
  <2>3. CASE CleanStep BY <1>10, <1>11, <1>12, <1>13, <2>3 DEF CleanStep
  <2>4. CASE UndoStep BY <1>14, <1>15, <1>16, <1>17, <2>4 DEF UndoStep
  <2>5. CASE Open \/ RecoverStep BY <1>18, <1>19, <1>20, <2>5 DEF RecoverStep
  <2>6. CASE Fault BY <1>21, <1>22, <1>23, <1>24, <1>25, <1>26, <2>6 DEF Fault
  <2>7. CASE Environment BY <1>27, <1>28, <2>7 DEF Environment
  <2>8. QED BY <1>29, <2>1, <2>2, <2>3, <2>4, <2>5, <2>6, <2>7 DEF Next

NInv == IInv /\ Unshared /\ Answering

LEMMA NInvInductive ==
  ASSUME FreshStart, NInv, [Next]_vars PROVE NInv'
BY Induction, UnsharedInductive, AnsweringInductive DEF NInv

-----------------------------------------------------------------------------
(* When a step of AtomicCommit is a step of AtomicStore.                    *)

Entries == <<ents, old, new>>

LEMMA Stutters ==
  ASSUME UNCHANGED <<RecoveredView, InPlace, out, edits>>, UNCHANGED Entries
  PROVE  UNCHANGED Abstract!vars
BY DEF Abstract!vars, Entries

LEMMA Applies ==
  ASSUME NEW t \in Txns, out[t] = "open", t \notin InPlace, InPlace' = InPlace \cup {t},
         RecoveredView' = [p \in Paths |-> IF p \in ents[t] THEN new[t][p]
                                                            ELSE RecoveredView[p]],
         UNCHANGED <<out, edits>>, UNCHANGED Entries
  PROVE  Abstract!Next
<1>1. Abstract!Apply(t)
  BY DEF Abstract!Apply, Abstract!Over, Entries
<1>2. QED
  BY <1>1 DEF Abstract!Next, Abstract!Operate

LEMMA Withdraws ==
  ASSUME NEW t \in Txns, out[t] = "open", t \in InPlace, InPlace' = InPlace \ {t},
         RecoveredView' = [p \in Paths |-> IF p \in ents[t] THEN old[t][p]
                                                            ELSE RecoveredView[p]],
         UNCHANGED <<out, edits>>, UNCHANGED Entries
  PROVE  Abstract!Next
<1>1. Abstract!Withdraw(t)
  BY DEF Abstract!Withdraw, Abstract!Over, Entries
<1>2. QED
  BY <1>1 DEF Abstract!Next, Abstract!Operate

LEMMA Acknowledges ==
  ASSUME NEW t \in Txns, out[t] = "open", t \in InPlace, out' = [out EXCEPT ![t] = "ok"],
         UNCHANGED <<RecoveredView, InPlace, edits>>, UNCHANGED Entries
  PROVE  Abstract!Next
<1>1. Abstract!Acknowledge(t)
  BY DEF Abstract!Acknowledge, Entries
<1>2. QED
  BY <1>1 DEF Abstract!Next, Abstract!Operate

LEMMA Fails ==
  ASSUME NEW t \in Txns, out[t] = "open", out' = [out EXCEPT ![t] = "failed"],
         InPlace' \in {InPlace, InPlace \ {t}},
         UNCHANGED <<RecoveredView, edits>>, UNCHANGED Entries
  PROVE  Abstract!Next
<1>1. Abstract!Fail(t)
  BY DEF Abstract!Fail, Entries
<1>2. QED
  BY <1>1 DEF Abstract!Next, Abstract!Operate

LEMMA Settles ==
  ASSUME NEW t \in Txns, out[t] # "ok", t \in InPlace, InPlace' = InPlace \ {t},
         UNCHANGED <<RecoveredView, out, edits>>, UNCHANGED Entries
  PROVE  Abstract!Next
<1>1. Abstract!Settle(t)
  BY DEF Abstract!Settle, Entries
<1>2. QED
  BY <1>1 DEF Abstract!Next, Abstract!Operate

-----------------------------------------------------------------------------
(* Every step, while nobody else edits the Instance.                        *)

StoreStep == Abstract!Next \/ UNCHANGED Abstract!vars

\* Only the transaction being worked on can have a journal.
LEMMA Sole ==
  ASSUME NInv, edits = 0, dir[cur]
  PROVE  /\ cur \in Txns /\ taken[cur] = {} /\ Mine(cur) = ents[cur]
         /\ \A t \in Txns \ {cur} : man[t] = "none" /\ ~Doubtful(t)
         /\ \A p \in ents[cur] : old[cur][p] # new[cur][p]
BY DEF NInv, IInv, TypeOK, OneStage, Unshared, TwoValued, Mine, Doubtful

\* Steps that touch neither contents nor manifests, and do not end a commit.
LEMMA QuietSteps ==
  ASSUME UNCHANGED <<live, man, ents, old, new, out, edits>>,
         (cur' = cur /\ pc' = pc /\ rec' = rec) \/ (pc # "clean" /\ pc' # "clean")
  PROVE  StoreStep
<1>1. \A t \in Txns : Doubtful(t)' <=> Doubtful(t)
  BY DEF Doubtful
<1>2. InPlace' = InPlace
  BY <1>1 DEF InPlace
<1>3. RecoveredView' = RecoveredView
  BY DEF RecoveredView, Doubtful
<1>4. QED
  BY <1>2, <1>3, Stutters DEF Entries, StoreStep

\* A journal to take back hides what happens to the files of its transaction.
LEMMA HiddenSteps ==
  ASSUME TypeOK, TypeOK', OneStage, OneStage', NEW c \in Txns, Doubtful(c), Doubtful(c)',
         UNCHANGED <<ents, old, new, out, edits>>, pc # "clean", pc' # "clean",
         \A p \in Paths : live'[p] = live[p] \/ p \in ents[c]
  PROVE  StoreStep
<1>1. man[c] # "none" /\ man'[c] # "none"
  BY DEF Doubtful
<1>2. \A t \in Txns \ {c} : man[t] = "none" /\ man'[t] = "none"
  <2>1. dir[c] /\ dir'[c]
    BY <1>1 DEF OneStage
  <2>2. ASSUME NEW t \in Txns, man[t] # "none" PROVE t = c
    BY <1>1, <2>1, <2>2 DEF OneStage
  <2>3. ASSUME NEW t \in Txns, man'[t] # "none" PROVE t = c
    BY <1>1, <2>1, <2>3 DEF OneStage
  <2>4. QED
    BY <2>2, <2>3
<1>3. RecoveredView' = RecoveredView
  <2>1. RecoveredView = [p \in Paths |-> IF p \in ents[c] THEN old[c][p] ELSE live[p]]
    BY Views
  <2>2. RecoveredView' = [p \in Paths |-> IF p \in ents'[c] THEN old'[c][p] ELSE live'[p]]
    BY ViewsNext
  <2>3. QED
    BY <2>1, <2>2
<1>4. InPlace' = InPlace
  <2>1. \A t \in Txns : t \in InPlace <=> out[t] = "ok"
    BY <1>2 DEF InPlace
  <2>2. \A t \in Txns : t \in InPlace' <=> out[t] = "ok"
    BY <1>2 DEF InPlace
  <2>3. InPlace \subseteq Txns /\ InPlace' \subseteq Txns
    BY DEF InPlace
  <2>4. QED
    BY <2>1, <2>2, <2>3
<1>5. QED
  BY <1>3, <1>4, Stutters DEF Entries, StoreStep

\* An admitted commit is staged: nothing shows yet.
LEMMA StageSteps ==
  ASSUME RecoverFirst, NInv, NInv', NEW t \in Txns, NEW r \in Requests, Stage(t, r)
  PROVE  StoreStep
<1>t. TypeOK /\ OneStage /\ TypeOK' /\ OneStage'
  BY DEF NInv, IInv
<1>1. \A u \in Txns : man[u] = "none"
  BY <1>t DEF Stage, MayBegin, OneStage
<1>2. UNCHANGED <<live, man, edits>> /\ pc # "clean" /\ pc' # "clean"
  BY DEF Stage, MayBegin, env
<1>3. \A u \in Txns : ~Doubtful(u) /\ ~Doubtful(u)'
  BY <1>1, <1>2 DEF Doubtful
<1>4. RecoveredView = live /\ RecoveredView' = live
  BY <1>t, <1>2, <1>3, Views, ViewsNext
<1>5. out[t] = "new" /\ out' = [out EXCEPT ![t] = "open"]
  BY DEF Stage, MayBegin
<1>6. InPlace' = InPlace
  <2>1. \A u \in Txns : u \in InPlace <=> out[u] = "ok"
    BY <1>1, <1>2 DEF InPlace
  <2>2. \A u \in Txns : u \in InPlace' <=> out'[u] = "ok"
    BY <1>1, <1>2 DEF InPlace
  <2>3. InPlace \subseteq Txns /\ InPlace' \subseteq Txns
    BY DEF InPlace
  <2>4. \A u \in Txns : out'[u] = "ok" <=> out[u] = "ok"
    BY <1>t, <1>5 DEF TypeOK
  <2>5. QED
    BY <2>1, <2>2, <2>3, <2>4
<1>7. /\ ents'[t] \in SUBSET Paths
      /\ [p \in ents'[t] |-> new'[t][p]] \in [ents'[t] -> Contents]
      /\ [p \in ents'[t] |-> old'[t][p]] = [p \in ents'[t] |-> live[p]]
  BY <1>t DEF Stage, TypeOK
<1>8. \A u \in Txns \ {t} : ents'[u] = ents[u] /\ old'[u] = old[u] /\ new'[u] = new[u]
  BY <1>t DEF Stage, TypeOK
<1>9. [u \in Txns |-> [p \in ents'[u] |-> old'[u][p]]] =
        [[u \in Txns |-> [p \in ents[u] |-> old[u][p]]] EXCEPT
           ![t] = [p \in ents'[t] |-> RecoveredView[p]]]
  BY <1>4, <1>7, <1>8
<1>10. [u \in Txns |-> [p \in ents'[u] |-> new'[u][p]]] =
         [[u \in Txns |-> [p \in ents[u] |-> new[u][p]]] EXCEPT
            ![t] = [p \in ents'[t] |-> new'[t][p]]]
  BY <1>8
<1>11. Abstract!Begin(t)
  BY <1>4, <1>5, <1>6, <1>7, <1>9, <1>10 DEF Abstract!Begin
<1>12. QED
  BY <1>2, <1>11 DEF Abstract!Next, Abstract!Operate, StoreStep

LEMMA RefuseSteps ==
  ASSUME NInv, NEW t \in Txns, NEW r \in Requests, Refuse(t, r)
  PROVE  StoreStep
<1>1. /\ UNCHANGED <<live, man, ents, old, new, edits, pc, cur, rec>>
      /\ out[t] = "new" /\ out' = [out EXCEPT ![t] = "refused"]
  BY DEF Refuse, MayBegin, disk, journal, control, env
<1>2. RecoveredView' = RecoveredView /\ \A u \in Txns : Doubtful(u)' <=> Doubtful(u)
  BY <1>1 DEF RecoveredView, Doubtful
<1>3. \A u \in Txns : out'[u] = "ok" <=> out[u] = "ok"
  BY <1>1 DEF NInv, IInv, TypeOK
<1>4. InPlace' = InPlace
  BY <1>1, <1>2, <1>3 DEF InPlace
<1>5. Abstract!Refuse(t)
  BY <1>1, <1>2, <1>4 DEF Abstract!Refuse
<1>6. QED
  BY <1>1, <1>5 DEF Abstract!Next, Abstract!Operate, StoreStep

\* The prepared marker, written before anything is published.
LEMMA PrepareSteps ==
  ASSUME NInv, NInv', edits = 0, NEW m \in {"none", "prepared"}, pc = "stage",
         man' = [man EXCEPT ![cur] = m], pc' # "clean", cur' = cur,
         UNCHANGED <<live, ents, old, new, out, edits>>
  PROVE  StoreStep
<1>t. TypeOK /\ OneStage /\ TypeOK' /\ OneStage'
  BY DEF NInv, IInv
<1>1. PICK c \in Txns : c = cur
  BY <1>t DEF TypeOK
<1>2. dir[cur] /\ man[cur] = "none" /\ RolledBack(cur)
  BY <1>t DEF OneStage, Working, NInv, IInv, Phase
<1>3. /\ \A t \in Txns : man[t] = "none"
      /\ \A t \in Txns : man'[t] = IF t = c THEN m ELSE "none"
      /\ \A p \in ents[c] : live[p] = old[c][p]
  BY <1>t, <1>1, <1>2, Sole DEF TypeOK, RolledBack
<1>4. RecoveredView = live
  BY <1>t, <1>3, Views DEF Doubtful
<1>5. RecoveredView' = live
  <2>1. CASE m = "none"
    BY <1>t, <1>3, <2>1, ViewsNext DEF Doubtful
  <2>2. CASE m = "prepared"
    <3>1. RecoveredView' = [p \in Paths |-> IF p \in ents'[c] THEN old'[c][p] ELSE live'[p]]
      BY <1>t, <1>3, <2>2, ViewsNext DEF Doubtful
    <3>2. live = [p \in Paths |-> live[p]]
      BY <1>t DEF TypeOK
    <3>3. QED
      BY <1>3, <3>1, <3>2
  <2>3. QED
    BY <2>1, <2>2
<1>6. InPlace' = InPlace
  <2>1. \A t \in Txns : t \in InPlace <=> out[t] = "ok"
    BY <1>3 DEF InPlace
  <2>2. \A t \in Txns : t \in InPlace' <=> out[t] = "ok"
    BY <1>3 DEF InPlace
  <2>3. InPlace \subseteq Txns /\ InPlace' \subseteq Txns
    BY DEF InPlace
  <2>4. QED
    BY <2>1, <2>2, <2>3
<1>7. QED
  BY <1>4, <1>5, <1>6, Stutters DEF Entries, StoreStep

\* The committed marker: here the transaction takes effect, as a whole.
LEMMA CommitSteps ==
  ASSUME NInv, NInv', edits = 0, pc = "mark", man' = [man EXCEPT ![cur] = "committed"],
         cur' = cur, UNCHANGED <<live, ents, old, new, out, rec, edits>>
  PROVE  StoreStep
<1>t. TypeOK /\ OneStage /\ TypeOK' /\ OneStage'
  BY DEF NInv, IInv
<1>1. PICK c \in Txns : c = cur
  BY <1>t DEF TypeOK
<1>2. dir[cur] /\ man[cur] = "prepared" /\ out[cur] = "open" /\ Committed(cur)
  BY <1>t DEF OneStage, Working, NInv, IInv, Phase, Answering
<1>3. /\ man[c] = "prepared" /\ out[c] = "open"
      /\ \A t \in Txns \ {c} : man[t] = "none"
      /\ \A t \in Txns : man'[t] = IF t = c THEN "committed" ELSE "none"
      /\ \A p \in ents[c] : live[p] = new[c][p]
  BY <1>t, <1>1, <1>2, Sole DEF TypeOK, Committed
<1>4. RecoveredView = [p \in Paths |-> IF p \in ents[c] THEN old[c][p] ELSE live[p]]
  BY <1>t, <1>3, Views DEF Doubtful
<1>5. \A t \in Txns : ~Doubtful(t)'
  BY <1>3 DEF Doubtful
<1>6. RecoveredView' = live
  BY <1>t, <1>5, ViewsNext
<1>7. live = [p \in Paths |-> live[p]]
  BY <1>t DEF TypeOK
<1>8. RecoveredView' = [p \in Paths |-> IF p \in ents[c] THEN new[c][p]
                                                         ELSE RecoveredView[p]]
  BY <1>3, <1>4, <1>6, <1>7
<1>9. c \notin InPlace /\ InPlace' = InPlace \cup {c}
  <2>1. \A t \in Txns : t \in InPlace <=> out[t] = "ok"
    BY <1>3 DEF InPlace
  <2>2. \A t \in Txns : t \in InPlace' <=> out[t] = "ok" \/ t = c
    BY <1>1, <1>3, <1>5 DEF InPlace
  <2>3. InPlace \subseteq Txns /\ InPlace' \subseteq Txns
    BY DEF InPlace
  <2>4. QED
    BY <1>3, <2>1, <2>2, <2>3
<1>10. QED
  BY <1>3, <1>8, <1>9, Applies DEF Entries, StoreStep

\* The rollback of one entry.  Under a committed marker whose flush failed the
\* first restored entry withdraws the whole transaction.
LEMMA UndoSteps ==
  ASSUME NInv, NInv', edits = 0, NEW p \in Paths, Undo(p)
  PROVE  StoreStep
<1>t. TypeOK /\ OneStage /\ TypeOK' /\ OneStage'
  BY DEF NInv, IInv
<1>1. PICK c \in Txns : c = cur
  BY <1>t DEF TypeOK
<1>2. /\ pc = "undo" /\ pc' = "undo" /\ cur' = cur /\ rec' = rec
      /\ UNCHANGED <<man, ents, old, new, out, edits>>
      /\ p \in ents[cur] /\ dir[cur] /\ man[cur] # "none"
  BY <1>t DEF Undo, Last, OneStage, Working, journal, env
<1>3. CASE UNCHANGED live
  BY <1>2, <1>3, QuietSteps
<1>4. CASE live[p] = new[cur][p] /\ live' = [live EXCEPT ![p] = old[cur][p]]
  <2>1. /\ \A t \in Txns \ {c} : man[t] = "none" /\ ~Doubtful(t)
        /\ old[c][p] # new[c][p] /\ p \in ents[c] /\ man[c] # "none"
    BY <1>1, <1>2, Sole
  <2>2. live'[p] = old[c][p] /\ \A q \in Paths : live'[q] = live[q] \/ q \in ents[c]
    BY <1>t, <1>1, <1>4, <2>1 DEF TypeOK
  <2>3. Doubtful(c)'
    BY <1>t, <1>2, <2>1, <2>2 DEF Doubtful, TypeOK
  <2>4. CASE Doubtful(c)
    BY <1>t, <1>2, <2>2, <2>3, <2>4, HiddenSteps
  <2>5. CASE ~Doubtful(c)
    <3>1. man[c] = "committed"
      BY <1>t, <2>1, <2>5 DEF Doubtful, TypeOK
    <3>2. out[c] = "open"
      BY <1>1, <1>2, <3>1 DEF NInv, Answering, Working
    <3>3. RecoveredView = live
      BY <1>t, <2>1, <2>5, Views
    <3>4. RecoveredView' = [q \in Paths |-> IF q \in ents[c] THEN old[c][q] ELSE live'[q]]
      BY <1>t, <1>2, <2>3, ViewsNext
    <3>5. RecoveredView' = [q \in Paths |-> IF q \in ents[c] THEN old[c][q]
                                                             ELSE RecoveredView[q]]
      BY <2>2, <3>3, <3>4
    <3>6. c \in InPlace /\ InPlace' = InPlace \ {c}
      <4>1. \A t \in Txns : t \in InPlace <=> out[t] = "ok" \/ t = c
        BY <1>2, <2>1, <2>5, <3>1 DEF InPlace
      <4>2. \A t \in Txns : t \in InPlace' <=> out[t] = "ok"
        BY <1>2, <2>1, <2>3 DEF InPlace
      <4>3. InPlace \subseteq Txns /\ InPlace' \subseteq Txns
        BY DEF InPlace
      <4>4. QED
        BY <3>2, <4>1, <4>2, <4>3
    <3>7. QED
      BY <1>2, <3>2, <3>5, <3>6, Withdraws DEF Entries, StoreStep
  <2>6. QED
    BY <2>4, <2>5
<1>5. QED
  BY <1>3, <1>4 DEF Undo, Restorable, disk

\* The caller gets an error.
LEMMA FailSteps ==
  ASSUME NInv, out[cur] = "open", out' = [out EXCEPT ![cur] = "failed"], pc' # "clean",
         UNCHANGED <<live, man, ents, old, new, edits, cur>>
  PROVE  StoreStep
<1>1. PICK c \in Txns : c = cur
  BY DEF NInv, IInv, TypeOK
<1>2. RecoveredView' = RecoveredView /\ \A t \in Txns : Doubtful(t)' <=> Doubtful(t)
  BY DEF RecoveredView, Doubtful
<1>3. \A t \in Txns : out'[t] = IF t = c THEN "failed" ELSE out[t]
  BY <1>1 DEF NInv, IInv, TypeOK
<1>4. InPlace' \in {InPlace, InPlace \ {c}}
  <2>1. \A t \in Txns \ {c} : t \in InPlace' <=> t \in InPlace
    BY <1>1, <1>2, <1>3 DEF InPlace
  <2>2. c \in InPlace' => c \in InPlace
    BY <1>2, <1>3 DEF InPlace
  <2>3. InPlace \subseteq Txns /\ InPlace' \subseteq Txns
    BY DEF InPlace
  <2>4. QED
    BY <2>1, <2>2, <2>3
<1>5. QED
  BY <1>1, <1>2, <1>4, Fails DEF Entries, StoreStep

\* commit() returns, commit() raises, or recovery turns to its next stage.
LEMMA LeaveSteps ==
  ASSUME NInv, pc \in {"clean", "discard"}, Leave \/ (rec /\ pc' = "down" /\ UNCHANGED out),
         UNCHANGED <<live, man, ents, old, new, rec, edits, cur>>
  PROVE  StoreStep
<1>t. TypeOK /\ OneStage
  BY DEF NInv, IInv
<1>1. CASE rec
  BY <1>t, <1>1, QuietSteps DEF Leave, OneStage
<1>2. CASE ~rec /\ pc = "discard"
  BY <1>2, FailSteps DEF NInv, Answering, Leave
<1>3. CASE ~rec /\ pc = "clean"
  <2>1. PICK c \in Txns : c = cur
    BY <1>t DEF TypeOK
  <2>2. out[c] = "open" /\ out' = [out EXCEPT ![c] = "ok"] /\ pc' # "clean"
    BY <1>3, <2>1 DEF NInv, Answering, Leave
  <2>3. RecoveredView' = RecoveredView /\ \A t \in Txns : Doubtful(t)' <=> Doubtful(t)
    BY DEF RecoveredView, Doubtful
  <2>4. \A t \in Txns : out'[t] = IF t = c THEN "ok" ELSE out[t]
    BY <1>t, <2>2 DEF TypeOK
  <2>5. c \in InPlace /\ InPlace' = InPlace
    <3>1. c \in InPlace /\ c \in InPlace'
      BY <1>3, <2>1, <2>4 DEF InPlace
    <3>2. \A t \in Txns \ {c} : t \in InPlace' <=> t \in InPlace
      BY <2>1, <2>3, <2>4 DEF InPlace
    <3>3. InPlace \subseteq Txns /\ InPlace' \subseteq Txns
      BY DEF InPlace
    <3>4. QED
      BY <3>1, <3>2, <3>3
  <2>6. QED
    BY <2>2, <2>3, <2>5, Acknowledges DEF Entries, StoreStep
<1>4. QED
  BY <1>1, <1>2, <1>3 DEF NInv, IInv, TypeOK

\* Without its manifest a journal is no longer taken back: by then its files
\* hold what the next open would have made of them.
LEMMA RemoveManifestSteps ==
  ASSUME NInv, NInv', edits = 0, RemoveManifest
  PROVE  StoreStep
<1>t. TypeOK /\ OneStage /\ TypeOK' /\ OneStage' /\ Phase
  BY DEF NInv, IInv
<1>1. PICK c \in Txns : c = cur
  BY <1>t DEF TypeOK
<1>2. /\ pc \in {"clean", "discard"} /\ dir[cur] /\ man[cur] # "none"
      /\ pc' = pc /\ cur' = cur /\ rec' = rec
      /\ UNCHANGED <<live, ents, old, new, out, edits>>
      /\ \A t \in Txns : man'[t] = IF t = c THEN "none" ELSE man[t]
  BY <1>t, <1>1 DEF RemoveManifest, Cleaning, TypeOK, disk, control, env
<1>3. /\ \A t \in Txns \ {c} : man[t] = "none" /\ ~Doubtful(t)
      /\ Mine(c) = ents[c] /\ dir[c] /\ man[c] # "none"
  BY <1>1, <1>2, Sole
<1>4. RecoveredView' = live
  <2>1. \A t \in Txns : ~Doubtful(t)'
    BY <1>2, <1>3 DEF Doubtful
  <2>2. QED
    BY <1>t, <1>2, <2>1, ViewsNext
<1>5. \A t \in Txns : t \in InPlace' <=> out[t] = "ok" \/ (t = c /\ pc = "clean" /\ ~rec)
  BY <1>1, <1>2, <1>3 DEF InPlace
<1>6. InPlace \subseteq Txns /\ InPlace' \subseteq Txns
  BY DEF InPlace
<1>7. CASE Doubtful(c)
  <2>1. pc = "discard" /\ \A p \in ents[c] : live[p] = old[c][p]
    <3>1. CASE man[c] = "prepared"
      BY <1>t, <1>1, <1>2, <1>3, <3>1 DEF OneStage, Phase, RolledBack
    <3>2. CASE man[c] = "committed" /\ ~Committed(c)
      BY <1>t, <1>1, <1>2, <1>3, <3>2 DEF Phase, RolledBack
    <3>3. QED
      BY <1>3, <1>7, <3>1, <3>2 DEF Doubtful, Committed
  <2>2. RecoveredView = [p \in Paths |-> IF p \in ents[c] THEN old[c][p] ELSE live[p]]
    BY <1>t, <1>7, Views
  <2>3. live = [p \in Paths |-> live[p]]
    BY <1>t DEF TypeOK
  <2>4. RecoveredView = live
    BY <2>1, <2>2, <2>3
  <2>5. \A t \in Txns : t \in InPlace <=> out[t] = "ok"
    BY <1>3, <1>7, <2>1 DEF InPlace
  <2>6. InPlace' = InPlace
    BY <1>5, <1>6, <2>1, <2>5
  <2>7. QED
    BY <1>2, <1>4, <2>4, <2>6, Stutters DEF Entries, StoreStep
<1>8. CASE ~Doubtful(c)
  <2>1. RecoveredView = live
    BY <1>t, <1>3, <1>8, Views
  <2>2. man[c] = "committed"
    BY <1>t, <1>3, <1>8 DEF Doubtful, TypeOK
  <2>3. \A t \in Txns : t \in InPlace <=> out[t] = "ok" \/ t = c
    BY <1>1, <1>3, <1>8, <2>2 DEF InPlace
  <2>4. CASE out[c] = "ok" \/ (pc = "clean" /\ ~rec)
    <3>1. InPlace' = InPlace
      BY <1>5, <1>6, <2>3, <2>4
    <3>2. QED
      BY <1>2, <1>4, <2>1, <3>1, Stutters DEF Entries, StoreStep
  <2>5. CASE out[c] # "ok" /\ ~(pc = "clean" /\ ~rec)
    <3>1. c \in InPlace /\ InPlace' = InPlace \ {c}
      BY <1>5, <1>6, <2>3, <2>5
    <3>2. QED
      BY <1>2, <1>4, <2>1, <2>5, <3>1, Settles DEF Entries, StoreStep
  <2>6. QED
    BY <2>4, <2>5
<1>9. QED
  BY <1>7, <1>8

\* A crash or a power loss, at any point.
LEMMA CrashSteps ==
  ASSUME NInv, NInv', edits = 0, NEW R \in SUBSET Dirty, Crash(R)
  PROVE  StoreStep
<1>t. TypeOK /\ OneStage /\ TypeOK' /\ OneStage' /\ Phase /\ Unflushed
  BY DEF NInv, IInv
<1>1. PICK c \in Txns : c = cur
  BY <1>t DEF TypeOK
<1>2. /\ pc' = "down" /\ UNCHANGED <<man, ents, old, new, out, edits, cur>>
      /\ \A p \in Paths : live'[p] = IF p \in R THEN dur[p] ELSE live[p]
      /\ live' \in [Paths -> Contents]
  BY <1>t DEF Crash, TypeOK
<1>3. CASE R # {}
  <2>1. PICK q \in R : TRUE
    BY <1>3
  <2>2. q \in Dirty
    BY <2>1
  <2>3. man[c] = "prepared" /\ pc # "clean"
    BY <1>t, <1>1, <2>2 DEF Unflushed
  <2>4. \A p \in R : p \in ents[c]
    BY <1>t, <1>1 DEF Unflushed
  <2>5. QED
    BY <1>t, <1>2, <2>3, <2>4, HiddenSteps DEF Doubtful
<1>4. CASE R = {}
  <2>1. live' = live
    BY <1>t, <1>2, <1>4 DEF TypeOK
  <2>2. CASE pc # "clean"
    BY <1>2, <2>1, <2>2, QuietSteps
  <2>3. CASE pc = "clean"
    <3>1. RecoveredView' = RecoveredView /\ \A t \in Txns : Doubtful(t)' <=> Doubtful(t)
      BY <1>2, <2>1 DEF RecoveredView, Doubtful
    <3>2. ~rec /\ out[c] = "open" /\ Committed(c) /\ man[c] # "prepared"
      BY <1>t, <1>1, <2>3 DEF OneStage, NInv, Answering, Phase
    <3>3. c \in InPlace /\ \A t \in Txns \ {c} : t \in InPlace' <=> t \in InPlace
      BY <1>1, <1>2, <2>3, <3>1, <3>2 DEF InPlace
    <3>4. InPlace \subseteq Txns /\ InPlace' \subseteq Txns
      BY DEF InPlace
    <3>5. CASE c \in InPlace'
      <4>1. InPlace' = InPlace
        BY <3>3, <3>4, <3>5
      <4>2. QED
        BY <1>2, <3>1, <4>1, Stutters DEF Entries, StoreStep
    <3>6. CASE c \notin InPlace'
      <4>1. InPlace' = InPlace \ {c}
        BY <3>3, <3>4, <3>6
      <4>2. QED
        BY <1>2, <3>1, <3>2, <3>3, <4>1, Settles DEF Entries, StoreStep
    <3>7. QED
      BY <3>5, <3>6
  <2>4. QED
    BY <2>2, <2>3
<1>5. QED
  BY <1>3, <1>4

-----------------------------------------------------------------------------
(* The refinement.                                                          *)

\* Once somebody else has edited the Instance AtomicStore promises nothing.
LEMMA DisturbedSteps ==
  ASSUME TypeOK, TypeOK', [Next]_vars, edits # 0 \/ edits' # edits
  PROVE  StoreStep
<1>1. edits' > 0
  <2>1. CASE edits' = edits
    BY <2>1 DEF TypeOK
  <2>2. CASE edits' # edits
    <3>1. Writes
      BY <2>2, OtherSteps
    <3>2. PICK p \in Paths, v \in Foreign : Edit(p, v)
      BY <2>2, <3>1 DEF Writes, Stage, Publish, Undo, Crash, env
    <3>3. QED
      BY <3>2 DEF Edit, TypeOK
  <2>3. QED
    BY <2>1, <2>2
<1>2. (edits' > 0) = TRUE
  BY <1>1
<1>3. Abstract!Disturb
  BY <1>2 DEF Abstract!Disturb
<1>4. QED
  BY <1>3 DEF Abstract!Next, StoreStep

LEMMA StepImplements ==
  ASSUME RecoverFirst, NInv, NInv', [Next]_vars, edits = 0, edits' = edits
  PROVE  StoreStep
<1> USE DEF disk, journal, control, env
<1>t. TypeOK /\ OneStage /\ Answering
  BY DEF NInv, IInv
<1>1. CASE Begin
  BY <1>1, StageSteps, RefuseSteps DEF Begin
<1>2. CASE CommitStep
  <2>1. CASE MarkPrepared
    BY <2>1, PrepareSteps DEF MarkPrepared
  <2>2. CASE MarkCommitted
    BY <2>2, CommitSteps DEF MarkCommitted
  <2>3. CASE PublishDone \/ FlushDone
    BY <2>3, QuietSteps DEF PublishDone, FlushDone
  <2>4. ASSUME NEW p \in Paths, PublishConflict(p) \/ Flush(p) PROVE StoreStep
    BY <2>4, QuietSteps DEF PublishConflict, Flush, BeginUndo
  <2>5. ASSUME NEW p \in Paths, Publish(p) PROVE StoreStep
    <3>1. /\ pc = "publish" /\ pc' = "publish" /\ p \in ents[cur]
          /\ live' = [live EXCEPT ![p] = new[cur][p]]
          /\ UNCHANGED <<man, ents, old, new, out, cur>>
      BY <1>t, <2>5 DEF Publish, First, Rename, OneStage
    <3>2. PICK c \in Txns : c = cur
      BY <1>t DEF TypeOK
    <3>3. man[c] = "prepared"
      BY <1>t, <3>1, <3>2 DEF OneStage
    <3>4. \A q \in Paths : live'[q] = live[q] \/ q \in ents[c]
      BY <1>t, <3>1, <3>2 DEF TypeOK
    <3>5. Doubtful(c) /\ Doubtful(c)' /\ TypeOK' /\ OneStage'
      BY <3>1, <3>3 DEF Doubtful, NInv, IInv
    <3>6. QED
      BY <1>t, <3>1, <3>4, <3>5, HiddenSteps
  <2>6. QED
    BY <1>2, <2>1, <2>2, <2>3, <2>4, <2>5 DEF CommitStep
<1>3. CASE CleanStep
  <2>1. CASE RemoveManifest
    BY <2>1, RemoveManifestSteps
  <2>2. CASE RemoveStage
    BY <2>2, QuietSteps DEF RemoveStage, Cleaning
  <2>3. ASSUME NEW p \in Paths, RemovePayload(p) PROVE StoreStep
    BY <2>3, QuietSteps DEF RemovePayload, Cleaning
  <2>4. CASE CleanDone
    BY <2>4, LeaveSteps DEF CleanDone
  <2>5. QED
    BY <1>3, <2>1, <2>2, <2>3, <2>4 DEF CleanStep
<1>4. CASE UndoStep
  <2>1. CASE UndoDone \/ Settle
    BY <2>1, QuietSteps DEF UndoDone, Settle
  <2>2. ASSUME NEW p \in Paths, UndoStuck(p) PROVE StoreStep
    <3>1. CASE rec
      BY <2>2, <3>1, QuietSteps DEF UndoStuck
    <3>2. CASE ~rec
      BY <1>t, <2>2, <3>2, FailSteps DEF UndoStuck, Answering, Working
    <3>3. QED
      BY <3>1, <3>2
  <2>3. QED
    BY <1>4, <2>1, <2>2, UndoSteps DEF UndoStep
<1>5. CASE Open \/ RecoverStep
  BY <1>5, QuietSteps DEF RecoverStep, Open, ScanDone, Visit
<1>6. CASE Fault
  <2>1. CASE StageFails
    <3>1. PICK m \in {"none", "prepared"} : man' = [man EXCEPT ![cur] = m]
      BY <2>1 DEF StageFails
    <3>2. QED
      BY <2>1, <3>1, PrepareSteps DEF StageFails
  <2>2. CASE PublishFails \/ RecoveryFails
    BY <2>2, QuietSteps DEF PublishFails, RecoveryFails, BeginUndo
  <2>3. CASE MarkFlushFails
    BY <2>3, CommitSteps DEF MarkFlushFails, BeginUndo
  <2>4. CASE Interrupted
    BY <1>t, <2>4, FailSteps DEF Interrupted, Answering, Working
  <2>5. CASE CleanFails
    BY <2>5, LeaveSteps DEF CleanFails, Cleaning
  <2>6. QED
    BY <1>6, <2>1, <2>2, <2>3, <2>4, <2>5 DEF Fault
<1>7. CASE Environment
  <2>1. ASSUME NEW p \in Paths, NEW v \in Foreign, Edit(p, v) PROVE FALSE
    BY <1>t, <2>1 DEF Edit, TypeOK
  <2>2. QED
    BY <1>7, <2>1, CrashSteps DEF Environment
<1>8. CASE UNCHANGED vars
  BY <1>8, QuietSteps DEF vars
<1>9. QED
  BY <1>1, <1>2, <1>3, <1>4, <1>5, <1>6, <1>7, <1>8 DEF Next

LEMMA InitImplements ==
  ASSUME Init PROVE Abstract!Init /\ NInv
<1>1. NInv
  BY InitIInv DEF NInv, Init, Unshared, Answering, Working
<1>2. \A t \in Txns : ~Doubtful(t)
  BY DEF Init, Doubtful
<1>3. RecoveredView = live
  BY <1>1, <1>2, Views DEF NInv, IInv
<1>4. RecoveredView \in [Paths -> Contents]
  BY <1>1, <1>3 DEF NInv, IInv, TypeOK
<1>5. InPlace = {}
  BY DEF Init, InPlace
<1>6. /\ [t \in Txns |-> [p \in ents[t] |-> old[t][p]]] =
             [t \in Txns |-> [p \in {} |-> RecoveredView[p]]]
      /\ [t \in Txns |-> [p \in ents[t] |-> new[t][p]]] =
             [t \in Txns |-> [p \in ents[t] |-> old[t][p]]]
  BY DEF Init
<1>7. out = [t \in Txns |-> "new"] /\ (edits > 0) = FALSE
  BY DEF Init
<1>8. QED
  BY <1>1, <1>4, <1>5, <1>6, <1>7 DEF Abstract!Init

\* The journaled commit implements the atomic store, for any number of files,
\* contents, commits, crashes, power losses and faults: as long as nobody else
\* edits the Instance, what the next open shows changes by whole transactions
\* only, and commit() returns only for one that is in place and stays.
THEOREM Refinement == RecoverFirst => (Spec => Implements)
<1> SUFFICES ASSUME RecoverFirst PROVE Spec => Implements
  OBVIOUS
<1>1. Init => Abstract!Init /\ NInv
  BY InitImplements
<1>2. NInv /\ [Next]_vars => NInv'
  BY NInvInductive DEF FreshStart
<1>3. NInv /\ NInv' /\ [Next]_vars => [Abstract!Next]_(Abstract!vars)
  <2> SUFFICES ASSUME NInv, NInv', [Next]_vars PROVE StoreStep
    BY DEF StoreStep
  <2>1. TypeOK /\ TypeOK'
    BY DEF NInv, IInv
  <2>2. QED
    BY <2>1, DisturbedSteps, StepImplements
<1>4. QED
  BY <1>1, <1>2, <1>3, PTL DEF Spec, Implements, Abstract!Spec
=============================================================================
