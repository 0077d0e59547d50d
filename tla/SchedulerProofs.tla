-------------------------- MODULE SchedulerProofs --------------------------
(***************************************************************************)
(* Proofs about Scheduler, for any jobs, kinds, attempts, commands, crashes *)
(* and clock changes.                                                      *)
(***************************************************************************)
EXTENDS Scheduler, TLAPS

-----------------------------------------------------------------------------
(* The inductive invariant.                                                 *)

\* Who holds the journal lock, and what the next write under it may assume.
Holder ==
  /\ wpc \in Working => wj \in Jobs /\ job[wj].status \in Active
  /\ lk = "recover" => wpc = "recover"
  /\ wpc = "recover" => lk # "free" /\ who = "worker"
  /\ wpc = "off" => lk = "free" \/ who = "control"
  /\ wpc \in Working /\ who = "worker" => lk = "free" \/ (lk = "job" /\ lj = wj)
  /\ lk \notin {"free", "recover"} => lj \in Jobs
  /\ lk = "receipt" => job[lj].status \in Stopped
  /\ lk = "job" => job[lj].status \notin Terminal /\ rcpt[lj].status \in Terminal
  /\ lk = "direct" => job[lj].status \in Stopped /\ rcpt[lj].status = "cancelled"
  /\ lk = "child" => job[lj].status \in Terminal /\ job[lj].restart # NoJob

\* Where receipts and completion intents cannot be: at jobs that do not exist,
\* at the job the worker runs, at jobs the running recovery has visited.
Clean ==
  /\ \A j \in Jobs : job[j].status = "missing" => rcpt[j] = NoReceipt /\ job[j].restart = NoJob
  /\ \A j \in Jobs : rcpt[j].status = "none" => rcpt[j] = NoReceipt
  /\ wpc \in Working => rcpt[wj] = NoReceipt \/ (lk = "job" /\ who = "worker")
  /\ wpc = "recover" => \A j \in Jobs \ todo :
        job[j].status \notin Terminal /\ (rcpt[j] # NoReceipt \/ job[j].completion)
          => lj = j /\ lk \in {"receipt", "job"}

\* A restart intent waits at a stopped parent, and a child has one parent.
Lineage ==
  /\ \A p \in Jobs : job[p].restart # NoJob => job[p].status \in Terminal \cup {"paused"}
  /\ \A p, q \in Jobs : job[p].restart = job[q].restart => p = q \/ job[p].restart = NoJob
  /\ \A p, c \in Jobs : job[p].restart = c /\ job[c].status # "missing" =>
        job[p].status \in Terminal

\* How far the effect of a job has come, and what its record says of it.
Effects ==
  /\ \A j \in Jobs \ Resumable : job[j].phase = "committed" =>
        job[j].status \in Active \cup Terminal /\ (j \in Cooperative => job[j].commit_started)
  /\ wpc \in Working \ {"committed"} /\ wj \notin Resumable => job[wj].phase # "committed"
  /\ wpc \in {"publishing", "done"} /\ wj \in Cooperative => job[wj].commit_started
  /\ \A j \in published \cap Cooperative : job[j].commit_started
  /\ \A j \in Jobs : job[j].status = "missing" => ~job[j].commit_started

\* A delay that has not passed is in the record of its job.
Delays ==
  \A j \in backoff :
    \/ job[j].status \in Terminal
    \/ job[j].status = "retry_wait" /\ job[j].retry_not_before = "future"
    \/ job[j].status \in {"queued", "paused"} /\ ~job[j].eligible

IInv ==
  /\ TypeOK /\ RecordsValid /\ QueueClaimable /\ ReceiptDecides
  /\ Holder /\ Clean /\ Lineage /\ Effects /\ Delays

-----------------------------------------------------------------------------
(* Type correctness.                                                        *)

\* What Pause, Admit, Elapse and SetClockBack write is a record again.
LEMMA DelayRecords ==
  ASSUME NEW r \in JobRecords, NEW b \in BOOLEAN
  PROVE /\ [r EXCEPT !.eligible = b] \in JobRecords
        /\ [r EXCEPT !.status = "paused", !.retry_not_before = "none", !.eligible = @ /\ b]
             \in JobRecords
        /\ [r EXCEPT !.eligible = TRUE,
                     !.retry_not_before = IF @ = "none" THEN @ ELSE "due"] \in JobRecords
        /\ [r EXCEPT !.lease = IF @ = "none" THEN @ ELSE "ahead", !.eligible = @ /\ b,
                     !.retry_not_before = IF @ = "none" THEN @ ELSE "reversed"] \in JobRecords
<1> USE DEF JobRecords, Stopped
<1>1. [r EXCEPT !.eligible = b] \in JobRecords
  OBVIOUS
<1>2. [r EXCEPT !.status = "paused", !.retry_not_before = "none", !.eligible = @ /\ b]
        \in JobRecords
  OBVIOUS
<1>3. [r EXCEPT !.eligible = TRUE,
                !.retry_not_before = IF @ = "none" THEN @ ELSE "due"] \in JobRecords
  OBVIOUS
<1>4. [r EXCEPT !.lease = IF @ = "none" THEN @ ELSE "ahead", !.eligible = @ /\ b,
                !.retry_not_before = IF @ = "none" THEN @ ELSE "reversed"] \in JobRecords
  <2>1. ASSUME NEW l \in {"none", "live", "expired", "ahead"}, NEW e \in BOOLEAN,
               NEW n \in {"none", "future", "due", "reversed"}
        PROVE [r EXCEPT !.lease = l, !.eligible = e, !.retry_not_before = n] \in JobRecords
    OBVIOUS
  <2>2. (IF r.lease = "none" THEN r.lease ELSE "ahead") \in {"none", "live", "expired", "ahead"}
    OBVIOUS
  <2>3. (r.eligible /\ b) \in BOOLEAN
    OBVIOUS
  <2>4. (IF r.retry_not_before = "none" THEN r.retry_not_before ELSE "reversed")
          \in {"none", "future", "due", "reversed"}
    OBVIOUS
  <2> HIDE DEF JobRecords, Stopped
  <2>5. QED
    BY <2>1, <2>2, <2>3, <2>4
<1>5. QED
  BY <1>1, <1>2, <1>3, <1>4

\* A receipt is written for a terminal status and the current attempt.
LEMMA ReceiptType ==
  ASSUME TypeOK, NEW j \in Jobs, NEW s \in Terminal, WriteReceipt(j, s)
  PROVE rcpt' \in [Jobs -> Receipts]
<1>1. job[j].attempt \in 0..MaxAttempts
  BY DEF TypeOK, JobRecords
<1>2. [status |-> s, attempts |-> job[j].attempt] \in Receipts
  BY <1>1 DEF Receipts
<1>3. QED
  BY <1>2 DEF WriteReceipt, TypeOK


\* An accepted command leaves room for itself in the history.
LEMMA CommandedType ==
  ASSUME TypeOK, NEW j \in Jobs, Requestable(j) PROVE Commanded(j) \in JobRecords
<1>1. job[j] \in JobRecords
  BY DEF TypeOK
<1>2. job[j].commands \in Nat /\ job[j].commands < MaxCommands
  BY <1>1, ConstantsAssumption DEF JobRecords, Requestable, Refused
<1>3. job[j].commands + 1 \in 0..MaxCommands
  BY <1>2, ConstantsAssumption
<1>4. QED
  BY <1>1, <1>3 DEF Commanded, JobRecords

\* Every step keeps the types.
LEMMA TypeInductive ==
  ASSUME IInv, [Next]_vars PROVE TypeOK'
<1>t. TypeOK /\ Holder
  BY DEF IInv
<1>z. 0 \in 0..MaxAttempts
  BY ConstantsAssumption
<1> USE <1>t, <1>z, ConstantsAssumption DEF TypeOK, Holder, Active, Stopped, Terminal, Working,
        ErrorClasses, worker, lock, history, env
<1>1. CASE StartRecovery
  BY <1>1 DEF StartRecovery, Acquire
<1>2. ASSUME NEW j \in Jobs, RecoverTerminal(j) PROVE TypeOK'
  BY <1>2 DEF RecoverTerminal, Recovering
<1>3. ASSUME NEW j \in Jobs, RecoverFromReceipt(j) PROVE TypeOK'
  <2>1. job[j] \in JobRecords
    OBVIOUS
  <2>2. Finished(j) \in JobRecords
    BY <1>3, <2>1 DEF JobRecords, Finished, RecoverFromReceipt, HasReceipt, Matches, Receipts
  <2>3. QED
    BY <1>3, <2>1, <2>2 DEF RecoverFromReceipt, Put, Recovering
<1>4. ASSUME NEW j \in Jobs, RecoveryRaises(j) PROVE TypeOK'
  BY <1>4 DEF RecoveryRaises, Abort, Recovering
<1>5. ASSUME NEW j \in Jobs, RecoverIntent(j) PROVE TypeOK'
  BY <1>5 DEF RecoverIntent, Recovering
<1>6. ASSUME NEW j \in Jobs, RecoverRetry(j) PROVE TypeOK'
  <2>1. job[j] \in JobRecords
    OBVIOUS
  <2>2. [job[j] EXCEPT !.status = "queued", !.retry_not_before = "none"] \in JobRecords
    BY <1>6, <2>1 DEF JobRecords
  <2>3. QED
    BY <1>6, <2>1, <2>2 DEF RecoverRetry, Put, Recovering
<1>7. ASSUME NEW j \in Jobs, RecoverLease(j) PROVE TypeOK'
  <2>1. job[j] \in JobRecords
    OBVIOUS
  <2>2. Paused(j) \in JobRecords
    BY <1>7, <2>1 DEF JobRecords, Paused
  <2>3. [job[j] EXCEPT !.status = "queued", !.lease = "none"] \in JobRecords
    BY <1>7, <2>1 DEF JobRecords, Paused
  <2>4. QED
    BY <1>7, <2>1, <2>2, <2>3, ReceiptType DEF RecoverLease, Put, Recovering
<1>8. ASSUME NEW j \in Jobs, RecoverSkip(j) PROVE TypeOK'
  BY <1>8 DEF RecoverSkip, Recovering
<1>9. CASE Idle
  BY <1>9 DEF Idle
<1>10. ASSUME NEW j \in Jobs, Claim(j) PROVE TypeOK'
  <2>1. job[j] \in JobRecords
    OBVIOUS
  <2>2. job[j].attempt \in Nat /\ job[j].attempt < MaxAttempts
    BY <1>10, <2>1 DEF JobRecords, Claim, Claimable
  <2>3. job[j].attempt + 1 \in 0..MaxAttempts
    BY <2>2
  <2>4. [job[j] EXCEPT !.status = "running", !.attempt = @ + 1, !.lease = "live"] \in JobRecords
    BY <2>1, <2>3 DEF JobRecords
  <2>5. QED
    BY <1>10, <2>4 DEF Claim, Put
<1>11. CASE CheckpointPrepared
  <2>1. wj \in Jobs /\ job[wj] \in JobRecords
    BY <1>11 DEF CheckpointPrepared, At, Checkpoint, Working
  <2>2. [job[wj] EXCEPT !.phase = "prepared"] \in JobRecords
    BY <1>11, <2>1 DEF JobRecords
  <2>3. QED
    BY <1>11, <2>1, <2>2 DEF CheckpointPrepared, Put, At, Owned, Checkpoint
<1>12. CASE CheckpointExecuting
  <2>1. wj \in Jobs /\ job[wj] \in JobRecords
    BY <1>12 DEF CheckpointExecuting, At, Checkpoint, Working
  <2>2. [job[wj] EXCEPT !.phase = "executing"] \in JobRecords
    BY <1>12, <2>1 DEF JobRecords
  <2>3. QED
    BY <1>12, <2>1, <2>2 DEF CheckpointExecuting, Put, At, Owned, Checkpoint
<1>13. CASE CheckpointCommitted
  <2>1. wj \in Jobs /\ job[wj] \in JobRecords
    BY <1>13 DEF CheckpointCommitted, At, Checkpoint, Working
  <2>2. [job[wj] EXCEPT !.phase = "committed"] \in JobRecords
    BY <1>13, <2>1 DEF JobRecords
  <2>3. QED
    BY <1>13, <2>1, <2>2 DEF CheckpointCommitted, Put, At, Owned, Checkpoint
<1>14. CASE Stop
  <2>1. wj \in Jobs /\ job[wj] \in JobRecords
    BY <1>14 DEF Stop, At, Working
  <2>2. Paused(wj) \in JobRecords
    BY <1>14, <2>1 DEF JobRecords, Paused
  <2>3. QED
    BY <1>14, <2>1, <2>2, ReceiptType DEF Stop, Put, Acquire, At, Owned
<1>15. CASE Barrier
  <2>1. wj \in Jobs /\ job[wj] \in JobRecords
    BY <1>15 DEF Barrier, At, Working
  <2>2. [job[wj] EXCEPT !.commit_started = TRUE] \in JobRecords
    BY <1>15, <2>1 DEF JobRecords
  <2>3. QED
    BY <1>15, <2>1, <2>2 DEF Barrier, Put, At, Owned
<1>16. CASE Publish
  BY <1>16 DEF Publish
<1>17. CASE Reuse
  BY <1>17 DEF Reuse
<1>18. CASE Succeed
  <2>1. wj \in Jobs
    BY <1>18 DEF Succeed, At
  <2>2. QED
    BY <1>18, <2>1, ReceiptType DEF Succeed, Acquire, At, Owned
<1>19. CASE LoseLease
  BY <1>19 DEF LoseLease, Owned
<1>20. ASSUME NEW e \in ErrorClasses, ExecuteFails(e) PROVE TypeOK'
  BY <1>20 DEF ExecuteFails
<1>21. ASSUME NEW e \in ErrorClasses, Fail(e) PROVE TypeOK'
  <2>1. wj \in Jobs /\ job[wj] \in JobRecords
    BY <1>21 DEF Fail, At, Working
  <2>2. [job[wj] EXCEPT !.status = "retry_wait", !.lease = "none",
                               !.retry_not_before = "future"] \in JobRecords
    BY <1>21, <2>1 DEF JobRecords
  <2>3. QED
    BY <1>21, <2>1, <2>2, ReceiptType DEF Fail, FailedStatus, Put, Acquire, At, Owned
<1>22. CASE Heartbeat
  <2>1. wj \in Jobs /\ job[wj] \in JobRecords
    BY <1>22 DEF Heartbeat, Working
  <2>2. [job[wj] EXCEPT !.lease = "live"] \in JobRecords
    BY <1>22, <2>1 DEF JobRecords
  <2>3. QED
    BY <1>22, <2>1, <2>2 DEF Heartbeat, Put, Owned
<1>23. CASE Busy
  BY <1>23 DEF Busy
<1>24. CASE ReceiptStep
  <2>1. lj \in Jobs
    BY <1>24 DEF ReceiptStep
  <2>2. QED
    BY <1>24, <2>1, ReceiptType DEF ReceiptStep, Abort
<1>25. CASE JobStep
  <2>1. lj \in Jobs /\ job[lj] \in JobRecords
    BY <1>25 DEF JobStep
  <2>2. Finished(lj) \in JobRecords
    BY <1>25, <2>1 DEF JobRecords, Finished, JobStep
  <2>3. QED
    BY <1>25, <2>1, <2>2 DEF JobStep, Put, Release
<1>26. CASE ChildStep
  <2>1. Fresh \in JobRecords
    BY <1>26 DEF JobRecords, Fresh
  <2>2. QED
    BY <1>26, <2>1 DEF ChildStep, Put, Release, Abort
<1>27. ASSUME NEW j \in Jobs, Pause(j) PROVE TypeOK'
  <2>1. Commanded(j) \in JobRecords
    BY <1>27, CommandedType DEF Pause
  <2>2. [Commanded(j) EXCEPT !.status = "pausing", !.pending = "pause"] \in JobRecords
    BY <2>1 DEF JobRecords
  <2>3. [Commanded(j) EXCEPT !.status = "paused", !.retry_not_before = "none",
                !.eligible = @ /\ job[j].retry_not_before \in {"none", "due"}] \in JobRecords
    BY <2>1, DelayRecords
  <2>4. QED
    BY <1>27, <2>2, <2>3 DEF Pause, Put
<1>28. ASSUME NEW j \in Jobs, Cancel(j) PROVE TypeOK'
  <2>1. Commanded(j) \in JobRecords
    BY <1>28, CommandedType DEF Cancel
  <2>2. [Commanded(j) EXCEPT !.status = "cancelling", !.pending = "cancel"] \in JobRecords
    BY <2>1 DEF JobRecords
  <2>3. [Commanded(j) EXCEPT !.completion = TRUE] \in JobRecords
    BY <2>1 DEF JobRecords
  <2>4. QED
    BY <1>28, <2>2, <2>3 DEF Cancel, Put, Acquire
<1>29. ASSUME NEW j \in Jobs, DirectCancel(j) PROVE TypeOK'
  <2>1. j \in Jobs
    BY <1>29 DEF DirectCancel
  <2>2. QED
    BY <1>29, <2>1, ReceiptType DEF DirectCancel, Acquire
<1>30. ASSUME NEW j \in Jobs, Resume(j) PROVE TypeOK'
  <2>1. Commanded(j) \in JobRecords
    BY <1>30, CommandedType DEF Resume
  <2>2. [Commanded(j) EXCEPT !.status = "queued"] \in JobRecords
    BY <2>1 DEF JobRecords
  <2>3. QED
    BY <1>30, <2>2 DEF Resume, Put
<1>31. ASSUME NEW j \in Jobs, Retry(j) PROVE TypeOK'
  <2>1. Commanded(j) \in JobRecords
    BY <1>31, CommandedType DEF Retry
  <2>2. [Commanded(j) EXCEPT !.status = "queued", !.retry_not_before = "none"] \in JobRecords
    BY <2>1 DEF JobRecords
  <2>3. QED
    BY <1>31, <2>2 DEF Retry, Put
<1>32. ASSUME NEW j \in Jobs, Replay(j) PROVE TypeOK'
  BY <1>32 DEF Replay, Acquire
<1>33. ASSUME NEW j \in Jobs, NEW c \in Jobs, Restart(j, c) PROVE TypeOK'
  <2>1. Commanded(j) \in JobRecords
    BY <1>33, CommandedType DEF Restart
  <2>2. [Commanded(j) EXCEPT !.restart = c] \in JobRecords
    BY <2>1 DEF JobRecords
  <2>3. QED
    BY <1>33, <2>2 DEF Restart, Put, Acquire
<1>34. ASSUME NEW j \in Jobs, NEW e \in BOOLEAN, Admit(j, e) PROVE TypeOK'
  <2>1. Fresh \in JobRecords
    BY DEF Fresh, JobRecords
  <2>2. [Fresh EXCEPT !.eligible = e] \in JobRecords
    BY <2>1, DelayRecords
  <2>3. QED
    BY <1>34, <2>2 DEF Admit, Put
<1>35. ASSUME NEW j \in Jobs, Expire(j) PROVE TypeOK'
  <2>1. job[j] \in JobRecords
    OBVIOUS
  <2>2. [job[j] EXCEPT !.lease = "expired"] \in JobRecords
    BY <1>35, <2>1 DEF JobRecords
  <2>3. QED
    BY <1>35, <2>1, <2>2 DEF Expire, Put
<1>36. ASSUME NEW j \in Jobs, Elapse(j) PROVE TypeOK'
  <2>1. [job[j] EXCEPT !.eligible = TRUE,
              !.retry_not_before = IF @ = "none" THEN @ ELSE "due"] \in JobRecords
    BY DelayRecords
  <2>2. QED
    BY <1>36, <2>1 DEF Elapse, Put
<1>37. CASE SetClockBack
  <2>1. PICK late \in SUBSET Jobs : job' = [j \in Jobs |->
          [job[j] EXCEPT !.lease = IF @ = "none" THEN @ ELSE "ahead",
                         !.eligible = @ /\ j \notin late,
                         !.retry_not_before = IF @ = "none" THEN @ ELSE "reversed"]]
    BY <1>37 DEF SetClockBack
  <2>2. ASSUME NEW r \in JobRecords, NEW b \in BOOLEAN
        PROVE [r EXCEPT !.lease = IF @ = "none" THEN @ ELSE "ahead", !.eligible = @ /\ b,
                        !.retry_not_before = IF @ = "none" THEN @ ELSE "reversed"] \in JobRecords
    BY DelayRecords
  <2>3. job' \in [Jobs -> JobRecords]
    BY <2>1, <2>2
  <2>4. /\ clockSets' = clockSets + 1 /\ backoff' \subseteq backoff
        /\ UNCHANGED <<rcpt, worker, lock, published, crashes, torn>>
    BY <1>37, Zenon DEF SetClockBack
  <2>5. QED
    BY <2>3, <2>4
<1>38. CASE WorkerDies
  BY <1>38 DEF WorkerDies
<1>39. CASE RequestDies
  BY <1>39 DEF RequestDies
<1>40. CASE TornReceipt
  BY <1>40 DEF TornReceipt, Abort, Receipts
<1>41. CASE UNCHANGED vars
  BY <1>41 DEF vars
<1>42. QED
  BY <1>1, <1>2, <1>3, <1>4, <1>5, <1>6, <1>7, <1>8, <1>9, <1>10, <1>11, <1>12, <1>13, <1>14,
     <1>15, <1>16, <1>17, <1>18, <1>19, <1>20, <1>21, <1>22, <1>23, <1>24, <1>25, <1>26, <1>27,
     <1>28, <1>29, <1>30, <1>31, <1>32, <1>33, <1>34, <1>35, <1>36, <1>37, <1>38, <1>39, <1>40,
     <1>41 DEF Next, RecoverStep, LockStep, WorkStep, Request, Claims, Time, Failure

-----------------------------------------------------------------------------
(* The parts of the invariant, one lemma each.                              *)

\* A step that writes one valid record keeps the others.
LEMMA ValidPut ==
  ASSUME TypeOK, RecordsValid, NEW j \in Jobs, NEW r, Put(j, r), ValidRecord(j, r)
  PROVE RecordsValid'
<1>1. \A i \in Jobs : job'[i] = IF i = j THEN r ELSE job[i]
  BY DEF TypeOK, Put
<1>2. QED
  BY <1>1 DEF RecordsValid, ValidRecord

\* What a clock set back leaves alone.
LEMMA ClockKeeps ==
  ASSUME TypeOK, SetClockBack
  PROVE /\ \A j \in Jobs :
             /\ job'[j].status = job[j].status /\ job'[j].attempt = job[j].attempt
             /\ job'[j].phase = job[j].phase /\ job'[j].pending = job[j].pending
             /\ job'[j].commit_started = job[j].commit_started
             /\ job'[j].completion = job[j].completion /\ job'[j].restart = job[j].restart
             /\ job'[j].commands = job[j].commands
             /\ job'[j].lease = "none" <=> job[j].lease = "none"
             /\ job'[j].retry_not_before = "none" <=> job[j].retry_not_before = "none"
             /\ ~job[j].eligible => ~job'[j].eligible
        /\ backoff' = {j \in backoff : job[j].status # "retry_wait"}
        /\ UNCHANGED <<rcpt, worker, lock, published>>
<1>1. PICK late \in SUBSET Jobs : job' = [j \in Jobs |->
        [job[j] EXCEPT !.lease = IF @ = "none" THEN @ ELSE "ahead",
                       !.eligible = @ /\ j \notin late,
                       !.retry_not_before = IF @ = "none" THEN @ ELSE "reversed"]]
  BY DEF SetClockBack
<1>2. /\ backoff' = {j \in backoff : job[j].status # "retry_wait"}
      /\ UNCHANGED <<rcpt, worker, lock, published>>
  BY Zenon DEF SetClockBack
<1>3. ASSUME NEW j \in Jobs
      PROVE /\ job'[j].status = job[j].status /\ job'[j].attempt = job[j].attempt
            /\ job'[j].phase = job[j].phase /\ job'[j].pending = job[j].pending
            /\ job'[j].commit_started = job[j].commit_started
            /\ job'[j].completion = job[j].completion /\ job'[j].restart = job[j].restart
            /\ job'[j].commands = job[j].commands
            /\ job'[j].lease = "none" <=> job[j].lease = "none"
            /\ job'[j].retry_not_before = "none" <=> job[j].retry_not_before = "none"
            /\ ~job[j].eligible => ~job'[j].eligible
  <2>1. job[j] \in JobRecords
    BY DEF TypeOK
  <2>2. job'[j] = [job[j] EXCEPT !.lease = IF @ = "none" THEN @ ELSE "ahead",
                     !.eligible = @ /\ j \notin late,
                     !.retry_not_before = IF @ = "none" THEN @ ELSE "reversed"]
    BY <1>1
  <2> DEFINE l == IF job[j].lease = "none" THEN job[j].lease ELSE "ahead"
             e == job[j].eligible /\ j \notin late
             n == IF job[j].retry_not_before = "none" THEN job[j].retry_not_before ELSE "reversed"
  <2>3. l = "none" <=> job[j].lease = "none"
    OBVIOUS
  <2>4. n = "none" <=> job[j].retry_not_before = "none"
    OBVIOUS
  <2>5. e => job[j].eligible
    OBVIOUS
  <2>6. job'[j] = [job[j] EXCEPT !.lease = l, !.eligible = e, !.retry_not_before = n]
    BY <2>2
  <2> HIDE DEF l, e, n
  <2>7. QED
    BY <2>1, <2>3, <2>4, <2>5, <2>6 DEF JobRecords
<1>4. QED
  BY <1>2, <1>3


-----------------------------------------------------------------------------
(* What the operations with several outcomes do to the fields of a record.  *)

\* Only the record of j changes, and not in these fields.
Kept(j) ==
  /\ \A i \in Jobs \ {j} : job'[i] = job[i]
  /\ job'[j].attempt = job[j].attempt /\ job'[j].phase = job[j].phase
  /\ job'[j].restart = job[j].restart

Becomes(j, s, l, p) == job'[j].status = s /\ job'[j].lease = l /\ job'[j].pending = p
SameDelay(j) ==
  job'[j].retry_not_before = job[j].retry_not_before /\ job'[j].eligible = job[j].eligible
SameIntent(j) ==
  job'[j].completion = job[j].completion /\ job'[j].commit_started = job[j].commit_started
Wrote(j, s) ==
  /\ rcpt'[j] = [status |-> s, attempts |-> job[j].attempt]
  /\ \A i \in Jobs \ {j} : rcpt'[i] = rcpt[i]

\* Put replaces one record.
LEMMA PutRecord ==
  ASSUME TypeOK, NEW j \in Jobs, NEW r, Put(j, r)
  PROVE job[j] \in JobRecords /\ job'[j] = r /\ \A i \in Jobs \ {j} : job'[i] = job[i]
BY DEF TypeOK, Put

\* WriteReceipt writes one receipt, of the current attempt.
LEMMA WroteReceipt ==
  ASSUME TypeOK, NEW j \in Jobs, NEW s, WriteReceipt(j, s) PROVE Wrote(j, s)
BY DEF TypeOK, WriteReceipt, Wrote

\* A finished record has the status of its receipt and no lease, request or intent.
LEMMA FinishedPut ==
  ASSUME TypeOK, NEW j \in Jobs, Put(j, Finished(j))
  PROVE /\ Kept(j) /\ Becomes(j, rcpt[j].status, "none", "none")
        /\ job'[j].retry_not_before = "none" /\ job'[j].eligible = job[j].eligible
        /\ job'[j].completion = FALSE /\ job'[j].commit_started = job[j].commit_started
<1>1. /\ job[j] \in JobRecords /\ job'[j] = Finished(j)
      /\ \A i \in Jobs \ {j} : job'[i] = job[i]
  BY PutRecord
<1>2. QED
  BY <1>1 DEF Finished, JobRecords, Kept, Becomes

\* A paused record has no lease and no request and keeps its delay.
LEMMA PausedPut ==
  ASSUME TypeOK, NEW j \in Jobs, Put(j, Paused(j))
  PROVE Kept(j) /\ Becomes(j, "paused", "none", "none") /\ SameDelay(j) /\ SameIntent(j)
<1>1. /\ job[j] \in JobRecords /\ job'[j] = Paused(j)
      /\ \A i \in Jobs \ {j} : job'[i] = job[i]
  BY PutRecord
<1>2. QED
  BY <1>1 DEF Paused, JobRecords, Kept, Becomes, SameDelay, SameIntent

\* RecoverLease: the request is honoured, the job queued again, or a receipt
\* written.
LeaseOutcome(j) ==
  /\ lk = "recover" /\ j \in todo /\ todo' = todo \ {j} /\ job[j].status \in Active
  /\ rcpt[j].status = "none" /\ ~job[j].completion /\ job[j].restart = NoJob
  /\ UNCHANGED <<worker, who, history>>
  /\ \/ /\ Kept(j) /\ SameDelay(j) /\ SameIntent(j) /\ UNCHANGED <<rcpt, lk, lj>>
        /\ \/ job[j].pending = "pause" /\ Becomes(j, "paused", "none", "none")
           \/ /\ job[j].pending = "none" /\ Becomes(j, "queued", "none", "none")
              /\ ~Exhausted(j) /\ ~Uncertain(j)
     \/ /\ UNCHANGED job /\ lk' = "job" /\ lj' = j
        /\ Wrote(j, "cancelled") \/ Wrote(j, "manual_intervention")

\* RecoverLease has one of these outcomes.
LEMMA LeaseEffect ==
  ASSUME TypeOK, NEW j \in Jobs, RecoverLease(j) PROVE LeaseOutcome(j)
<1>1. /\ lk = "recover" /\ j \in todo /\ todo' = todo \ {j} /\ job[j].status \in Active
      /\ rcpt[j].status = "none" /\ ~job[j].completion /\ job[j].restart = NoJob
      /\ UNCHANGED <<worker, who, history>>
  BY DEF RecoverLease, Recovering, Plain, Lapsed, HasReceipt, Intent, Active, Terminal
<1>2. ASSUME Put(j, [job[j] EXCEPT !.status = "queued", !.lease = "none"]),
             job[j].pending = "none"
      PROVE Kept(j) /\ SameDelay(j) /\ SameIntent(j) /\ Becomes(j, "queued", "none", "none")
  <2>1. /\ job[j] \in JobRecords /\ \A i \in Jobs \ {j} : job'[i] = job[i]
        /\ job'[j] = [job[j] EXCEPT !.status = "queued", !.lease = "none"]
    BY <1>2, PutRecord
  <2>2. QED
    BY <1>2, <2>1 DEF JobRecords, Kept, Becomes, SameDelay, SameIntent
<1>3. QED
  BY <1>1, <1>2, PausedPut, WroteReceipt DEF RecoverLease, GivesUp, LeaseOutcome


\* RecoverFromReceipt ends the job with the status of its receipt.
FromReceiptOutcome(j) ==
  /\ lk = "recover" /\ j \in todo /\ todo' = todo \ {j} /\ job[j].status \notin Terminal
  /\ rcpt[j].status \in Terminal /\ rcpt[j].attempts = job[j].attempt
  /\ Kept(j) /\ Becomes(j, rcpt[j].status, "none", "none")
  /\ job'[j].retry_not_before = "none" /\ job'[j].eligible = job[j].eligible
  /\ job'[j].completion = FALSE /\ job'[j].commit_started = job[j].commit_started
  /\ UNCHANGED <<rcpt, worker, who, history>>
  /\ \/ job[j].restart = NoJob /\ UNCHANGED <<lk, lj>>
     \/ job[j].restart # NoJob /\ lk' = "child" /\ lj' = j

\* RecoverFromReceipt has this outcome.
LEMMA FromReceiptEffect ==
  ASSUME TypeOK, NEW j \in Jobs, RecoverFromReceipt(j) PROVE FromReceiptOutcome(j)
<1>1. Put(j, Finished(j)) /\ Recovering(j) /\ HasReceipt(j) /\ Matches(j)
  BY DEF RecoverFromReceipt
<1>2. rcpt[j].status \in Terminal /\ rcpt[j].attempts = job[j].attempt
  BY <1>1 DEF HasReceipt, Matches, TypeOK, Receipts
<1>3. QED
  BY <1>1, <1>2, FinishedPut DEF RecoverFromReceipt, Recovering, HasReceipt, FromReceiptOutcome

\* JobStep does the same for the job under the lock.
JobStepOutcome ==
  /\ lj \in Jobs /\ lk \in {"job", "direct"} /\ rcpt[lj].status \in Terminal
  /\ Kept(lj) /\ Becomes(lj, rcpt[lj].status, "none", "none")
  /\ job'[lj].retry_not_before = "none" /\ job'[lj].eligible = job[lj].eligible
  /\ job'[lj].completion = FALSE /\ job'[lj].commit_started = job[lj].commit_started
  /\ UNCHANGED <<rcpt, wj, lj, who, todo, history>>
  /\ \/ lk = "job" /\ job[lj].restart # NoJob /\ lk' = "child" /\ UNCHANGED wpc
     \/ (lk = "direct" \/ job[lj].restart = NoJob) /\ Release

\* JobStep has this outcome.
LEMMA JobStepEffect ==
  ASSUME TypeOK, Holder, JobStep PROVE JobStepOutcome
<1>1. lj \in Jobs /\ lk \in {"job", "direct"} /\ rcpt[lj].status \in Terminal
  BY DEF JobStep, Holder, Terminal
<1>2. Put(lj, Finished(lj))
  BY DEF JobStep
<1>3. /\ Kept(lj) /\ Becomes(lj, rcpt[lj].status, "none", "none")
      /\ job'[lj].retry_not_before = "none" /\ job'[lj].eligible = job[lj].eligible
      /\ job'[lj].completion = FALSE /\ job'[lj].commit_started = job[lj].commit_started
  BY <1>1, <1>2, FinishedPut
<1>4. QED
  BY <1>1, <1>3 DEF JobStep, JobStepOutcome

\* A new record has nothing in it yet.
Newborn(j) ==
  /\ \A i \in Jobs \ {j} : job'[i] = job[i]
  /\ Becomes(j, "queued", "none", "none") /\ job'[j].attempt = 0 /\ job'[j].phase = "none"
  /\ job'[j].retry_not_before = "none" /\ job'[j].restart = NoJob
  /\ ~job'[j].completion /\ ~job'[j].commit_started

\* ChildStep creates the child unless it exists; its parent has ended.
ChildOutcome ==
  /\ lk = "child" /\ lj \in Jobs /\ job[lj].status \in Terminal /\ job[lj].restart \in Jobs
  /\ UNCHANGED <<rcpt, wj, lj, who, history>>
  /\ \/ /\ job[job[lj].restart].status = "missing" /\ Newborn(job[lj].restart)
        /\ Release /\ UNCHANGED todo
     \/ UNCHANGED job /\ Release /\ UNCHANGED todo
     \/ UNCHANGED job /\ Abort

\* ChildStep has one of these outcomes.
LEMMA ChildEffect ==
  ASSUME TypeOK, Holder, ChildStep PROVE ChildOutcome
<1>1. lk = "child" /\ lj \in Jobs /\ job[lj].status \in Terminal /\ job[lj].restart \in Jobs
  BY DEF ChildStep, Holder, TypeOK, JobRecords
<1>2. ASSUME NEW c \in Jobs, Put(c, Fresh) PROVE Newborn(c)
  <2>1. job'[c] = Fresh /\ \A i \in Jobs \ {c} : job'[i] = job[i]
    BY <1>2, PutRecord
  <2>2. QED
    BY <2>1 DEF Newborn, Becomes, Fresh
<1>3. QED
  BY <1>1, <1>2 DEF ChildStep, ChildOutcome

\* Admit creates a record nobody has reserved.
AdmitOutcome(j) ==
  /\ lk = "free" /\ wpc = "off" /\ job[j].status = "missing" /\ ~Reserved(j)
  /\ Newborn(j) /\ UNCHANGED <<rcpt, worker, lock, history>>

\* Admit has this outcome.
LEMMA AdmitEffect ==
  ASSUME TypeOK, NEW j \in Jobs, NEW e \in BOOLEAN, Admit(j, e) PROVE AdmitOutcome(j)
<1>1. Put(j, [Fresh EXCEPT !.eligible = e])
  BY DEF Admit
<1>2. job'[j] = [Fresh EXCEPT !.eligible = e] /\ \A i \in Jobs \ {j} : job'[i] = job[i]
  BY <1>1, PutRecord
<1>3. Newborn(j)
  BY <1>2 DEF Newborn, Becomes, Fresh
<1>4. QED
  BY <1>3 DEF Admit, AdmitOutcome

\* Stop: the worker acknowledges the pause, or writes the receipt of the
\* cancellation.
StopOutcome ==
  /\ wj \in Jobs /\ wpc = "executing" /\ lk = "free" /\ job[wj].status \in Active
  /\ UNCHANGED <<wj, todo, history>>
  /\ \/ /\ job[wj].pending = "pause" /\ Kept(wj) /\ Becomes(wj, "paused", "none", "none")
        /\ SameDelay(wj) /\ SameIntent(wj) /\ wpc' = "off" /\ UNCHANGED <<rcpt, lk, lj, who>>
     \/ /\ UNCHANGED <<job, wpc>> /\ Wrote(wj, "cancelled")
        /\ lk' = "job" /\ lj' = wj /\ who' = "worker"

\* Stop has one of these outcomes.
LEMMA StopEffect ==
  ASSUME TypeOK, Holder, Stop PROVE StopOutcome
<1>1. wj \in Jobs /\ wpc = "executing" /\ lk = "free" /\ job[wj].status \in Active
  BY DEF Stop, At, Holder, Working
<1>2. QED
  BY <1>1, PausedPut, WroteReceipt DEF Stop, Acquire, StopOutcome

\* Fail: the job waits for its retry, is left to the next recovery, or gets the
\* receipt of its failure.
FailOutcome(e) ==
  /\ wj \in Jobs /\ wpc = e /\ lk = "free" /\ job[wj].status \in Active
  /\ UNCHANGED <<wj, todo, published>>
  /\ \/ /\ job[wj].attempt < MaxAttempts /\ job[wj].pending = "none" /\ Kept(wj)
        /\ Becomes(wj, "retry_wait", "none", "none") /\ SameIntent(wj)
        /\ job'[wj].retry_not_before = "future" /\ job'[wj].eligible = job[wj].eligible
        /\ backoff' = backoff \cup {wj} /\ wpc' = "off" /\ UNCHANGED <<rcpt, lk, lj, who>>
     \/ wpc' = "off" /\ UNCHANGED <<job, rcpt, lk, lj, who, backoff>>
     \/ /\ UNCHANGED <<job, wpc, backoff>> /\ lk' = "job" /\ lj' = wj /\ who' = "worker"
        /\ \E s \in {"manual_intervention", "cancelled", "failed"} : Wrote(wj, s)

\* Fail has one of these outcomes.
LEMMA FailEffect ==
  ASSUME TypeOK, Holder, NEW e \in ErrorClasses, Fail(e) PROVE FailOutcome(e)
<1>1. wj \in Jobs /\ wpc = e /\ lk = "free" /\ job[wj].status \in Active
  BY DEF Fail, At, Holder, Working
<1>2. ASSUME Put(wj, [job[wj] EXCEPT !.status = "retry_wait", !.lease = "none",
                                     !.retry_not_before = "future"]),
             job[wj].pending = "none"
      PROVE /\ Kept(wj) /\ Becomes(wj, "retry_wait", "none", "none") /\ SameIntent(wj)
            /\ job'[wj].retry_not_before = "future" /\ job'[wj].eligible = job[wj].eligible
  <2>1. /\ job[wj] \in JobRecords /\ \A i \in Jobs \ {wj} : job'[i] = job[i]
        /\ job'[wj] = [job[wj] EXCEPT !.status = "retry_wait", !.lease = "none",
                                      !.retry_not_before = "future"]
    BY <1>1, <1>2, PutRecord
  <2>2. QED
    BY <1>2, <2>1 DEF JobRecords, Kept, Becomes, SameIntent
<1>3. ASSUME WriteReceipt(wj, FailedStatus(e))
      PROVE \E s \in {"manual_intervention", "cancelled", "failed"} : Wrote(wj, s)
  <2>1. Wrote(wj, FailedStatus(e)) 
    BY <1>1, <1>3, WroteReceipt
  <2>2. QED
    BY <2>1 DEF FailedStatus
<1>4. QED
  BY <1>1, <1>2, <1>3 DEF Fail, Acquire, FailOutcome

\* Pause: a running job is asked to stop, a waiting one stops and keeps its
\* delay.
PauseOutcome(j) ==
  /\ lk = "free" /\ j \in Cooperative /\ Kept(j) /\ SameIntent(j)
  /\ ~job[j].completion /\ job[j].restart = NoJob
  /\ UNCHANGED <<rcpt, worker, lock, history>>
  /\ \/ /\ job[j].status = "running" /\ Becomes(j, "pausing", job[j].lease, "pause")
        /\ SameDelay(j)
     \/ /\ job[j].status \in {"queued", "retry_wait"}
        /\ Becomes(j, "paused", job[j].lease, job[j].pending)
        /\ job'[j].retry_not_before = "none"
        /\ job[j].retry_not_before = "future" \/ ~job[j].eligible => ~job'[j].eligible

\* Pause has one of these outcomes.
LEMMA PauseEffect ==
  ASSUME TypeOK, NEW j \in Jobs, Pause(j) PROVE PauseOutcome(j)
<1>1. /\ lk = "free" /\ j \in Cooperative /\ ~job[j].completion /\ job[j].restart = NoJob
      /\ UNCHANGED <<rcpt, worker, lock, history>>
  BY DEF Pause, Requestable, Refused
<1>2. ASSUME Put(j, [Commanded(j) EXCEPT !.status = "pausing", !.pending = "pause"])
      PROVE /\ Kept(j) /\ Becomes(j, "pausing", job[j].lease, "pause")
            /\ SameDelay(j) /\ SameIntent(j)
  <2>1. /\ job[j] \in JobRecords /\ \A i \in Jobs \ {j} : job'[i] = job[i]
        /\ job'[j] = [Commanded(j) EXCEPT !.status = "pausing", !.pending = "pause"]
    BY <1>2, PutRecord
  <2>2. QED
    BY <2>1 DEF Commanded, JobRecords, Kept, Becomes, SameDelay, SameIntent
<1>3. ASSUME NEW b,
             Put(j, [Commanded(j) EXCEPT !.status = "paused", !.retry_not_before = "none",
                                         !.eligible = b])
      PROVE /\ Kept(j) /\ Becomes(j, "paused", job[j].lease, job[j].pending) /\ SameIntent(j)
            /\ job'[j].retry_not_before = "none" /\ job'[j].eligible = b
  <2>1. /\ job[j] \in JobRecords /\ \A i \in Jobs \ {j} : job'[i] = job[i]
        /\ job'[j] = [Commanded(j) EXCEPT !.status = "paused", !.retry_not_before = "none",
                                          !.eligible = b]
    BY <1>3, PutRecord
  <2>2. QED
    BY <2>1 DEF Commanded, JobRecords, Kept, Becomes, SameIntent
<1>4. CASE job[j].status = "running"
  BY <1>1, <1>2, <1>4 DEF Pause, PauseOutcome
<1>5. CASE job[j].status # "running"
  <2> DEFINE b == Commanded(j).eligible /\ job[j].retry_not_before \in {"none", "due"}
  <2>1. job[j] \in JobRecords
    BY DEF TypeOK
  <2>2. Commanded(j).eligible = job[j].eligible
    BY <2>1 DEF Commanded, JobRecords
  <2>3. job[j].retry_not_before = "future" \/ ~job[j].eligible => ~b
    BY <2>2
  <2>4. /\ job[j].status \in {"queued", "retry_wait"}
        /\ Put(j, [Commanded(j) EXCEPT !.status = "paused", !.retry_not_before = "none",
                                       !.eligible = b])
    BY <1>5 DEF Pause
  <2> HIDE DEF b
  <2>5. /\ Kept(j) /\ Becomes(j, "paused", job[j].lease, job[j].pending) /\ SameIntent(j)
        /\ job'[j].retry_not_before = "none" /\ job'[j].eligible = b
    BY <1>3, <2>4
  <2>6. job[j].retry_not_before = "future" \/ ~job[j].eligible => ~job'[j].eligible
    BY <2>3, <2>5
  <2>7. QED
    BY <1>1, <2>4, <2>5, <2>6 DEF PauseOutcome
<1>6. QED
  BY <1>4, <1>5

\* Cancel: a running job is asked to stop, a stopped one gets the intent.
CancelOutcome(j) ==
  /\ lk = "free" /\ Kept(j) /\ SameDelay(j)
  /\ job'[j].commit_started = job[j].commit_started
  /\ ~job[j].completion /\ job[j].restart = NoJob
  /\ UNCHANGED <<rcpt, worker, todo, history>>
  /\ \/ /\ job[j].status \in {"running", "pausing"} /\ ~job'[j].completion
        /\ Becomes(j, "cancelling", job[j].lease, "cancel") /\ UNCHANGED <<lk, lj, who>>
     \/ /\ job[j].status \in Stopped /\ job'[j].completion
        /\ Becomes(j, job[j].status, job[j].lease, job[j].pending)
        /\ lk' = "receipt" /\ lj' = j /\ who' = "control"

\* Cancel has one of these outcomes.
LEMMA CancelEffect ==
  ASSUME TypeOK, NEW j \in Jobs, Cancel(j) PROVE CancelOutcome(j)
<1>1. /\ lk = "free" /\ ~job[j].completion /\ job[j].restart = NoJob
      /\ UNCHANGED <<rcpt, worker, todo, history>>
  BY DEF Cancel, Requestable, Refused
<1>2. ASSUME Put(j, [Commanded(j) EXCEPT !.status = "cancelling", !.pending = "cancel"])
      PROVE /\ Kept(j) /\ Becomes(j, "cancelling", job[j].lease, "cancel")
            /\ SameDelay(j) /\ SameIntent(j)
  <2>1. /\ job[j] \in JobRecords /\ \A i \in Jobs \ {j} : job'[i] = job[i]
        /\ job'[j] = [Commanded(j) EXCEPT !.status = "cancelling", !.pending = "cancel"]
    BY <1>2, PutRecord
  <2>2. QED
    BY <2>1 DEF Commanded, JobRecords, Kept, Becomes, SameDelay, SameIntent
<1>3. ASSUME Put(j, [Commanded(j) EXCEPT !.completion = TRUE])
      PROVE /\ Kept(j) /\ Becomes(j, job[j].status, job[j].lease, job[j].pending)
            /\ SameDelay(j) /\ job'[j].completion = TRUE
            /\ job'[j].commit_started = job[j].commit_started
  <2>1. /\ job[j] \in JobRecords /\ \A i \in Jobs \ {j} : job'[i] = job[i]
        /\ job'[j] = [Commanded(j) EXCEPT !.completion = TRUE]
    BY <1>3, PutRecord
  <2>2. QED
    BY <2>1 DEF Commanded, JobRecords, Kept, Becomes, SameDelay
<1>4. QED
  BY <1>1, <1>2, <1>3 DEF Cancel, Acquire, SameIntent, CancelOutcome


\* Every step keeps the records valid.
LEMMA RecordsInductive ==
  ASSUME IInv, [Next]_vars PROVE RecordsValid'
<1>t. TypeOK /\ RecordsValid /\ Holder /\ Clean
  BY DEF IInv
<1> USE <1>t DEF TypeOK, JobRecords, RecordsValid, ValidRecord, Holder, Active, Stopped, Terminal,
        Working, ErrorClasses, worker, lock, history, env
<1>1. CASE StartRecovery
  BY <1>1 DEF StartRecovery, Acquire
<1>2. ASSUME NEW j \in Jobs, RecoverTerminal(j) PROVE RecordsValid'
  BY <1>2 DEF RecoverTerminal, Recovering
<1>3. ASSUME NEW j \in Jobs, RecoverFromReceipt(j) PROVE RecordsValid'
  <2>1. ValidRecord(j, Finished(j))
    BY <1>3 DEF RecoverFromReceipt, HasReceipt, Matches, Finished, Receipts
  <2>2. QED
    BY <1>3, <2>1, ValidPut DEF RecoverFromReceipt
<1>4. ASSUME NEW j \in Jobs, RecoveryRaises(j) PROVE RecordsValid'
  BY <1>4 DEF RecoveryRaises, HasReceipt, Abort, Recovering
<1>5. ASSUME NEW j \in Jobs, RecoverIntent(j) PROVE RecordsValid'
  BY <1>5 DEF RecoverIntent, HasReceipt, Intent, Recovering
<1>6. ASSUME NEW j \in Jobs, RecoverRetry(j) PROVE RecordsValid'
  BY <1>6 DEF RecoverRetry, Plain, HasReceipt, Intent, Ready, Put, Recovering
<1>7. ASSUME NEW j \in Jobs, RecoverLease(j) PROVE RecordsValid'
  <2>1. ASSUME job[j].pending = "pause", Put(j, Paused(j)) PROVE RecordsValid'
    <3>1. ValidRecord(j, Paused(j))
      BY <2>1 DEF Paused
    <3>2. QED
      BY <2>1, <3>1, ValidPut
  <2>2. ASSUME Put(j, [job[j] EXCEPT !.status = "queued", !.lease = "none"]),
               Lapsed(j), job[j].pending = "none"
        PROVE RecordsValid'
    <3>1. ValidRecord(j, [job[j] EXCEPT !.status = "queued", !.lease = "none"])
      BY <2>2 DEF Lapsed
    <3>2. QED
      BY <2>2, <3>1, ValidPut
  <2>3. QED
    BY <1>7, <2>1, <2>2 DEF RecoverLease
<1>8. ASSUME NEW j \in Jobs, RecoverSkip(j) PROVE RecordsValid'
  BY <1>8 DEF RecoverSkip, Plain, HasReceipt, Intent, Recovering
<1>9. CASE Idle
  BY <1>9 DEF Idle
<1>10. ASSUME NEW j \in Jobs, Claim(j) PROVE RecordsValid'
  <2>1. ValidRecord(j, [job[j] EXCEPT !.status = "running", !.attempt = @ + 1, !.lease = "live"])
    <3>1. ~job[j].completion
      BY <1>10 DEF Claim, Claimable, Clean
    <3>2. QED
      BY <1>10, <3>1 DEF Claim, Claimable
  <2>2. QED
    BY <1>10, <2>1, ValidPut DEF Claim
<1>11. CASE CheckpointPrepared
  BY <1>11 DEF CheckpointPrepared, Put, At, Owned, Checkpoint
<1>12. CASE CheckpointExecuting
  BY <1>12 DEF CheckpointExecuting, Put, At, Owned, Checkpoint
<1>13. CASE CheckpointCommitted
  BY <1>13 DEF CheckpointCommitted, Put, At, Owned, Checkpoint
<1>14. CASE Stop
  <2>1. ASSUME Put(wj, Paused(wj)), job[wj].pending = "pause" PROVE RecordsValid'
    <3>1. wj \in Jobs
      BY <1>14 DEF Stop, At
    <3>2. ValidRecord(wj, Paused(wj))
      BY <2>1, <3>1 DEF Paused
    <3>3. QED
      BY <2>1, <3>1, <3>2, ValidPut
  <2>2. QED
    BY <1>14, <2>1 DEF Stop
<1>15. CASE Barrier
  BY <1>15 DEF Barrier, Put, At, Owned
<1>16. CASE Publish
  BY <1>16 DEF Publish
<1>17. CASE Reuse
  BY <1>17 DEF Reuse
<1>18. CASE Succeed
  BY <1>18 DEF Succeed, WriteReceipt, Acquire, At, Owned
<1>19. CASE LoseLease
  BY <1>19 DEF LoseLease, Owned
<1>20. ASSUME NEW e \in ErrorClasses, ExecuteFails(e) PROVE RecordsValid'
  BY <1>20 DEF ExecuteFails
<1>21. ASSUME NEW e \in ErrorClasses, Fail(e) PROVE RecordsValid'
  <2>1. wj \in Jobs /\ job[wj].status \in Active
    BY <1>21 DEF Fail, At
  <2>2. ASSUME job[wj].pending = "none",
               Put(wj, [job[wj] EXCEPT !.status = "retry_wait", !.lease = "none",
                                       !.retry_not_before = "future"])
        PROVE RecordsValid'
    <3>1. ValidRecord(wj, [job[wj] EXCEPT !.status = "retry_wait", !.lease = "none",
                                          !.retry_not_before = "future"])
      BY <2>1, <2>2
    <3>2. QED
      BY <2>1, <2>2, <3>1, ValidPut
  <2>3. QED
    BY <1>21, <2>2 DEF Fail
<1>22. CASE Heartbeat
  BY <1>22 DEF Heartbeat, Put, Owned
<1>23. CASE Busy
  BY <1>23 DEF Busy
<1>24. CASE ReceiptStep
  BY <1>24 DEF ReceiptStep, Cancelled, NoReceipt, WriteReceipt, Abort
<1>25. CASE JobStep
  BY <1>25 DEF JobStep, Put, Release, Finished
<1>26. CASE ChildStep
  BY <1>26 DEF ChildStep, Put, Release, Abort, Fresh
<1>27. ASSUME NEW j \in Jobs, Pause(j) PROVE RecordsValid'
  <2>1. ValidRecord(j, job[j])
    OBVIOUS
  <2>2. ASSUME job[j].status = "running",
               Put(j, [Commanded(j) EXCEPT !.status = "pausing", !.pending = "pause"])
        PROVE RecordsValid'
    <3>1. ValidRecord(j, [Commanded(j) EXCEPT !.status = "pausing", !.pending = "pause"])
      BY <1>27, <2>1, <2>2 DEF Commanded, Pause, Requestable, Refused
    <3>2. QED
      BY <2>2, <3>1, ValidPut
  <2>3. ASSUME job[j].status \in {"queued", "retry_wait"}, ~job[j].commit_started,
               NEW b, Put(j, [Commanded(j) EXCEPT !.status = "paused", !.retry_not_before = "none",
                                                  !.eligible = b])
        PROVE RecordsValid'
    <3>1. ValidRecord(j, [Commanded(j) EXCEPT !.status = "paused", !.retry_not_before = "none",
                                              !.eligible = b])
      BY <1>27, <2>1, <2>3 DEF Commanded, Pause, Requestable, Refused
    <3>2. QED
      BY <2>3, <3>1, ValidPut
  <2>4. QED
    BY <1>27, <2>2, <2>3 DEF Pause
<1>28. ASSUME NEW j \in Jobs, Cancel(j) PROVE RecordsValid'
  <2>1. ValidRecord(j, job[j])
    OBVIOUS
  <2>2. ASSUME j \in Cooperative, job[j].status \in {"running", "pausing"},
               Put(j, [Commanded(j) EXCEPT !.status = "cancelling", !.pending = "cancel"])
        PROVE RecordsValid'
    <3>1. ValidRecord(j, [Commanded(j) EXCEPT !.status = "cancelling", !.pending = "cancel"])
      BY <1>28, <2>1, <2>2 DEF Commanded, Cancel, Requestable, Refused
    <3>2. QED
      BY <2>2, <3>1, ValidPut
  <2>3. ASSUME job[j].status \in Stopped, Put(j, [Commanded(j) EXCEPT !.completion = TRUE])
        PROVE RecordsValid'
    <3>1. ValidRecord(j, [Commanded(j) EXCEPT !.completion = TRUE])
      BY <2>1, <2>3 DEF Commanded
    <3>2. QED
      BY <2>3, <3>1, ValidPut
  <2>4. QED
    BY <1>28, <2>2, <2>3 DEF Cancel
<1>29. ASSUME NEW j \in Jobs, DirectCancel(j) PROVE RecordsValid'
  BY <1>29 DEF DirectCancel, DirectCancellable, WriteReceipt, Acquire
<1>30. ASSUME NEW j \in Jobs, Resume(j) PROVE RecordsValid'
  BY <1>30 DEF Resume, Requestable, Refused, Put, Commanded
<1>31. ASSUME NEW j \in Jobs, Retry(j) PROVE RecordsValid'
  BY <1>31 DEF Retry, Requestable, Refused, Put, Commanded
<1>32. ASSUME NEW j \in Jobs, Replay(j) PROVE RecordsValid'
  BY <1>32 DEF Replay, Intent, Acquire
<1>33. ASSUME NEW j \in Jobs, NEW c \in Jobs, Restart(j, c) PROVE RecordsValid'
  BY <1>33 DEF Restart, Requestable, Refused, Reserved, Put, Acquire, Commanded
<1>34. ASSUME NEW j \in Jobs, NEW e \in BOOLEAN, Admit(j, e) PROVE RecordsValid'
  BY <1>34 DEF Admit, Reserved, Put, Fresh
<1>35. ASSUME NEW j \in Jobs, Expire(j) PROVE RecordsValid'
  BY <1>35 DEF Expire, Put
<1>36. ASSUME NEW j \in Jobs, Elapse(j) PROVE RecordsValid'
  BY <1>36 DEF Elapse, Put
<1>37. CASE SetClockBack
  BY <1>37, ClockKeeps
<1>38. CASE WorkerDies
  BY <1>38 DEF WorkerDies
<1>39. CASE RequestDies
  BY <1>39 DEF RequestDies
<1>40. CASE TornReceipt
  BY <1>40 DEF TornReceipt, LockTears, WorkTears, DirectCancellable, Abort, Recovering, Owned
<1>41. CASE UNCHANGED vars
  BY <1>41 DEF vars
<1>42. QED
  BY <1>1, <1>2, <1>3, <1>4, <1>5, <1>6, <1>7, <1>8, <1>9, <1>10, <1>11, <1>12, <1>13, <1>14,
     <1>15, <1>16, <1>17, <1>18, <1>19, <1>20, <1>21, <1>22, <1>23, <1>24, <1>25, <1>26, <1>27,
     <1>28, <1>29, <1>30, <1>31, <1>32, <1>33, <1>34, <1>35, <1>36, <1>37, <1>38, <1>39, <1>40,
     <1>41 DEF Next, RecoverStep, LockStep, WorkStep, Request, Claims, Time, Failure


\* No step queues an exhausted job.
LEMMA QueueInductive ==
  ASSUME IInv, [Next]_vars PROVE QueueClaimable'
<1>t. TypeOK /\ QueueClaimable /\ Holder
  BY DEF IInv
<1> USE <1>t, ConstantsAssumption DEF TypeOK, JobRecords, QueueClaimable, Holder, Active, Stopped,
        Terminal, Working, ErrorClasses, worker, lock, history, env
<1>s. /\ todo \subseteq Jobs /\ published \subseteq Jobs /\ backoff \subseteq Jobs /\ NoJob \notin Jobs
      /\ MaxAttempts \in Nat /\ \A j \in Jobs : job[j].attempt \in Nat
  BY ConstantsAssumption
<1>1. CASE StartRecovery
  BY <1>1 DEF StartRecovery, Acquire
<1>2. ASSUME NEW j \in Jobs, RecoverTerminal(j) PROVE QueueClaimable'
  BY <1>2 DEF RecoverTerminal, Recovering
<1>3. ASSUME NEW j \in Jobs, RecoverFromReceipt(j) PROVE QueueClaimable'
  <2>1. FromReceiptOutcome(j)
    BY <1>3, FromReceiptEffect DEF Holder
  <2> HIDE DEF TypeOK, JobRecords
  <2>2. QED
    BY <1>s, <2>1 DEF FromReceiptOutcome, Kept, Becomes, Exhausted
<1>4. ASSUME NEW j \in Jobs, RecoveryRaises(j) PROVE QueueClaimable'
  BY <1>4 DEF RecoveryRaises, HasReceipt, Abort, Recovering
<1>5. ASSUME NEW j \in Jobs, RecoverIntent(j) PROVE QueueClaimable'
  BY <1>5 DEF RecoverIntent, HasReceipt, Intent, Recovering
<1>6. ASSUME NEW j \in Jobs, RecoverRetry(j) PROVE QueueClaimable'
  BY <1>6 DEF RecoverRetry, Plain, HasReceipt, Intent, Ready, Put, Recovering
<1>7. ASSUME NEW j \in Jobs, RecoverLease(j) PROVE QueueClaimable'
  <2>1. LeaseOutcome(j)
    BY <1>7, LeaseEffect DEF Holder
  <2> HIDE DEF TypeOK, JobRecords
  <2>2. QED
    BY <1>s, <2>1 DEF LeaseOutcome, Kept, Becomes, SameDelay, SameIntent, Wrote, Exhausted
<1>8. ASSUME NEW j \in Jobs, RecoverSkip(j) PROVE QueueClaimable'
  BY <1>8 DEF RecoverSkip, Plain, HasReceipt, Intent, Recovering
<1>9. CASE Idle
  BY <1>9 DEF Idle
<1>10. ASSUME NEW j \in Jobs, Claim(j) PROVE QueueClaimable'
  BY <1>10 DEF Claim, Claimable, Put
<1>11. CASE CheckpointPrepared
  BY <1>11 DEF CheckpointPrepared, Put, At, Owned, Checkpoint
<1>12. CASE CheckpointExecuting
  BY <1>12 DEF CheckpointExecuting, Put, At, Owned, Checkpoint
<1>13. CASE CheckpointCommitted
  BY <1>13 DEF CheckpointCommitted, Put, At, Owned, Checkpoint
<1>14. CASE Stop
  <2>1. StopOutcome
    BY <1>14, StopEffect DEF Holder
  <2> HIDE DEF TypeOK, JobRecords
  <2>2. QED
    BY <1>s, <2>1 DEF StopOutcome, Kept, Becomes, SameDelay, SameIntent, Wrote, Exhausted
<1>15. CASE Barrier
  BY <1>15 DEF Barrier, Put, At, Owned
<1>16. CASE Publish
  BY <1>16 DEF Publish
<1>17. CASE Reuse
  BY <1>17 DEF Reuse
<1>18. CASE Succeed
  BY <1>18 DEF Succeed, WriteReceipt, Acquire, At, Owned
<1>19. CASE LoseLease
  BY <1>19 DEF LoseLease, Owned
<1>20. ASSUME NEW e \in ErrorClasses, ExecuteFails(e) PROVE QueueClaimable'
  BY <1>20 DEF ExecuteFails
<1>21. ASSUME NEW e \in ErrorClasses, Fail(e) PROVE QueueClaimable'
  <2>1. FailOutcome(e)
    BY <1>21, FailEffect DEF Holder
  <2> HIDE DEF TypeOK, JobRecords
  <2>2. QED
    BY <1>s, <2>1 DEF FailOutcome, Kept, Becomes, SameIntent, Wrote, Exhausted
<1>22. CASE Heartbeat
  BY <1>22 DEF Heartbeat, Put, Owned
<1>23. CASE Busy
  BY <1>23 DEF Busy
<1>24. CASE ReceiptStep
  BY <1>24 DEF ReceiptStep, Cancelled, NoReceipt, WriteReceipt, Abort
<1>25. CASE JobStep
  <2>1. JobStepOutcome
    BY <1>25, JobStepEffect DEF Holder
  <2> HIDE DEF TypeOK, JobRecords
  <2>2. QED
    BY <1>s, <2>1 DEF JobStepOutcome, Kept, Becomes, Release, Exhausted
<1>26. CASE ChildStep
  <2>1. ChildOutcome
    BY <1>26, ChildEffect DEF Holder
  <2> HIDE DEF TypeOK, JobRecords
  <2>2. QED
    BY <1>s, <2>1 DEF ChildOutcome, Newborn, Becomes, Release, Abort, Exhausted
<1>27. ASSUME NEW j \in Jobs, Pause(j) PROVE QueueClaimable'
  <2>1. PauseOutcome(j)
    BY <1>27, PauseEffect DEF Holder
  <2> HIDE DEF TypeOK, JobRecords
  <2>2. QED
    BY <1>s, <2>1 DEF PauseOutcome, Kept, Becomes, SameDelay, SameIntent, Exhausted
<1>28. ASSUME NEW j \in Jobs, Cancel(j) PROVE QueueClaimable'
  <2>1. CancelOutcome(j)
    BY <1>28, CancelEffect DEF Holder
  <2> HIDE DEF TypeOK, JobRecords
  <2>2. QED
    BY <1>s, <2>1 DEF CancelOutcome, Kept, Becomes, SameDelay, Exhausted
<1>29. ASSUME NEW j \in Jobs, DirectCancel(j) PROVE QueueClaimable'
  BY <1>29 DEF DirectCancel, DirectCancellable, WriteReceipt, Acquire
<1>30. ASSUME NEW j \in Jobs, Resume(j) PROVE QueueClaimable'
  BY <1>30 DEF Resume, Requestable, Refused, Put, Commanded
<1>31. ASSUME NEW j \in Jobs, Retry(j) PROVE QueueClaimable'
  BY <1>31 DEF Retry, Requestable, Refused, Put, Commanded
<1>32. ASSUME NEW j \in Jobs, Replay(j) PROVE QueueClaimable'
  BY <1>32 DEF Replay, Intent, Acquire
<1>33. ASSUME NEW j \in Jobs, NEW c \in Jobs, Restart(j, c) PROVE QueueClaimable'
  BY <1>33 DEF Restart, Requestable, Refused, Reserved, Put, Acquire, Commanded
<1>34. ASSUME NEW j \in Jobs, NEW e \in BOOLEAN, Admit(j, e) PROVE QueueClaimable'
  <2>1. AdmitOutcome(j)
    BY <1>34, AdmitEffect DEF Holder
  <2> HIDE DEF TypeOK, JobRecords
  <2>2. QED
    BY <1>s, <2>1 DEF AdmitOutcome, Newborn, Becomes, Reserved, Exhausted
<1>35. ASSUME NEW j \in Jobs, Expire(j) PROVE QueueClaimable'
  BY <1>35 DEF Expire, Put
<1>36. ASSUME NEW j \in Jobs, Elapse(j) PROVE QueueClaimable'
  BY <1>36 DEF Elapse, Put
<1>37. CASE SetClockBack
  BY <1>37, ClockKeeps
<1>38. CASE WorkerDies
  BY <1>38 DEF WorkerDies
<1>39. CASE RequestDies
  BY <1>39 DEF RequestDies
<1>40. CASE TornReceipt
  BY <1>40 DEF TornReceipt, LockTears, WorkTears, DirectCancellable, Abort, Recovering, Owned
<1>41. CASE UNCHANGED vars
  BY <1>41 DEF vars
<1> HIDE <1>t DEF TypeOK, JobRecords, QueueClaimable, Holder
<1>42. QED
  BY <1>1, <1>2, <1>3, <1>4, <1>5, <1>6, <1>7, <1>8, <1>9, <1>10, <1>11, <1>12, <1>13, <1>14,
     <1>15, <1>16, <1>17, <1>18, <1>19, <1>20, <1>21, <1>22, <1>23, <1>24, <1>25, <1>26, <1>27,
     <1>28, <1>29, <1>30, <1>31, <1>32, <1>33, <1>34, <1>35, <1>36, <1>37, <1>38, <1>39, <1>40,
     <1>41 DEF Next, RecoverStep, LockStep, WorkStep, Request, Claims, Time, Failure

\* Every step keeps the delays in the records.
LEMMA DelaysInductive ==
  ASSUME IInv, [Next]_vars PROVE Delays'
<1>t. TypeOK /\ Delays /\ Holder /\ RecordsValid
  BY DEF IInv
<1> USE <1>t DEF TypeOK, JobRecords, Delays, Holder, RecordsValid, ValidRecord, Active, Stopped,
        Terminal, Working, ErrorClasses, worker, lock, history, env
<1>s. /\ todo \subseteq Jobs /\ published \subseteq Jobs /\ backoff \subseteq Jobs /\ NoJob \notin Jobs
      /\ MaxAttempts \in Nat /\ \A j \in Jobs : job[j].attempt \in Nat
  BY ConstantsAssumption
<1>1. CASE StartRecovery
  BY <1>1 DEF StartRecovery, Acquire
<1>2. ASSUME NEW j \in Jobs, RecoverTerminal(j) PROVE Delays'
  BY <1>2 DEF RecoverTerminal, Recovering
<1>3. ASSUME NEW j \in Jobs, RecoverFromReceipt(j) PROVE Delays'
  <2>1. FromReceiptOutcome(j)
    BY <1>3, FromReceiptEffect DEF Holder
  <2> HIDE DEF TypeOK, JobRecords
  <2>2. QED
    BY <1>s, <2>1 DEF FromReceiptOutcome, Kept, Becomes
<1>4. ASSUME NEW j \in Jobs, RecoveryRaises(j) PROVE Delays'
  BY <1>4 DEF RecoveryRaises, HasReceipt, Abort, Recovering
<1>5. ASSUME NEW j \in Jobs, RecoverIntent(j) PROVE Delays'
  BY <1>5 DEF RecoverIntent, HasReceipt, Intent, Recovering
<1>6. ASSUME NEW j \in Jobs, RecoverRetry(j) PROVE Delays'
  BY <1>6 DEF RecoverRetry, Plain, HasReceipt, Intent, Ready, Put, Recovering
<1>7. ASSUME NEW j \in Jobs, RecoverLease(j) PROVE Delays'
  <2>1. LeaseOutcome(j)
    BY <1>7, LeaseEffect DEF Holder
  <2> HIDE DEF TypeOK, JobRecords
  <2>2. QED
    BY <1>s, <2>1 DEF LeaseOutcome, Kept, Becomes, SameDelay, SameIntent, Wrote
<1>8. ASSUME NEW j \in Jobs, RecoverSkip(j) PROVE Delays'
  BY <1>8 DEF RecoverSkip, Plain, HasReceipt, Intent, Recovering
<1>9. CASE Idle
  BY <1>9 DEF Idle
<1>10. ASSUME NEW j \in Jobs, Claim(j) PROVE Delays'
  BY <1>10 DEF Claim, Claimable, Put
<1>11. CASE CheckpointPrepared
  BY <1>11 DEF CheckpointPrepared, Put, At, Owned, Checkpoint
<1>12. CASE CheckpointExecuting
  BY <1>12 DEF CheckpointExecuting, Put, At, Owned, Checkpoint
<1>13. CASE CheckpointCommitted
  BY <1>13 DEF CheckpointCommitted, Put, At, Owned, Checkpoint
<1>14. CASE Stop
  <2>1. StopOutcome
    BY <1>14, StopEffect DEF Holder
  <2> HIDE DEF TypeOK, JobRecords
  <2>2. QED
    BY <1>s, <2>1 DEF StopOutcome, Kept, Becomes, SameDelay, SameIntent, Wrote
<1>15. CASE Barrier
  BY <1>15 DEF Barrier, Put, At, Owned
<1>16. CASE Publish
  BY <1>16 DEF Publish
<1>17. CASE Reuse
  BY <1>17 DEF Reuse
<1>18. CASE Succeed
  BY <1>18 DEF Succeed, WriteReceipt, Acquire, At, Owned
<1>19. CASE LoseLease
  BY <1>19 DEF LoseLease, Owned
<1>20. ASSUME NEW e \in ErrorClasses, ExecuteFails(e) PROVE Delays'
  BY <1>20 DEF ExecuteFails
<1>21. ASSUME NEW e \in ErrorClasses, Fail(e) PROVE Delays'
  <2>1. FailOutcome(e)
    BY <1>21, FailEffect DEF Holder
  <2> HIDE DEF TypeOK, JobRecords
  <2>2. QED
    BY <1>s, <2>1 DEF FailOutcome, Kept, Becomes, SameIntent, Wrote
<1>22. CASE Heartbeat
  BY <1>22 DEF Heartbeat, Put, Owned
<1>23. CASE Busy
  BY <1>23 DEF Busy
<1>24. CASE ReceiptStep
  BY <1>24 DEF ReceiptStep, Cancelled, NoReceipt, WriteReceipt, Abort
<1>25. CASE JobStep
  <2>1. JobStepOutcome
    BY <1>25, JobStepEffect DEF Holder
  <2> HIDE DEF TypeOK, JobRecords
  <2>2. QED
    BY <1>s, <2>1 DEF JobStepOutcome, Kept, Becomes, Release
<1>26. CASE ChildStep
  <2>1. ChildOutcome
    BY <1>26, ChildEffect DEF Holder
  <2> HIDE DEF TypeOK, JobRecords
  <2>2. QED
    BY <1>s, <2>1 DEF ChildOutcome, Newborn, Becomes, Release, Abort
<1>27. ASSUME NEW j \in Jobs, Pause(j) PROVE Delays'
  <2>1. PauseOutcome(j)
    BY <1>27, PauseEffect DEF Holder
  <2> HIDE DEF TypeOK, JobRecords
  <2>2. QED
    BY <1>s, <2>1 DEF PauseOutcome, Kept, Becomes, SameDelay, SameIntent
<1>28. ASSUME NEW j \in Jobs, Cancel(j) PROVE Delays'
  <2>1. CancelOutcome(j)
    BY <1>28, CancelEffect DEF Holder
  <2> HIDE DEF TypeOK, JobRecords
  <2>2. QED
    BY <1>s, <2>1 DEF CancelOutcome, Kept, Becomes, SameDelay
<1>29. ASSUME NEW j \in Jobs, DirectCancel(j) PROVE Delays'
  BY <1>29 DEF DirectCancel, DirectCancellable, WriteReceipt, Acquire
<1>30. ASSUME NEW j \in Jobs, Resume(j) PROVE Delays'
  BY <1>30 DEF Resume, Requestable, Refused, Put, Commanded
<1>31. ASSUME NEW j \in Jobs, Retry(j) PROVE Delays'
  BY <1>31 DEF Retry, Requestable, Refused, Put, Commanded
<1>32. ASSUME NEW j \in Jobs, Replay(j) PROVE Delays'
  BY <1>32 DEF Replay, Intent, Acquire
<1>33. ASSUME NEW j \in Jobs, NEW c \in Jobs, Restart(j, c) PROVE Delays'
  BY <1>33 DEF Restart, Requestable, Refused, Reserved, Put, Acquire, Commanded
<1>34. ASSUME NEW j \in Jobs, NEW e \in BOOLEAN, Admit(j, e) PROVE Delays'
  <2>1. AdmitOutcome(j)
    BY <1>34, AdmitEffect DEF Holder
  <2> HIDE DEF TypeOK, JobRecords
  <2>2. QED
    BY <1>s, <2>1 DEF AdmitOutcome, Newborn, Becomes, Reserved
<1>35. ASSUME NEW j \in Jobs, Expire(j) PROVE Delays'
  BY <1>35 DEF Expire, Put
<1>36. ASSUME NEW j \in Jobs, Elapse(j) PROVE Delays'
  BY <1>36 DEF Elapse, Put
<1>37. CASE SetClockBack
  BY <1>37, ClockKeeps
<1>38. CASE WorkerDies
  BY <1>38 DEF WorkerDies
<1>39. CASE RequestDies
  BY <1>39 DEF RequestDies
<1>40. CASE TornReceipt
  BY <1>40 DEF TornReceipt, LockTears, WorkTears, DirectCancellable, Abort, Recovering, Owned
<1>41. CASE UNCHANGED vars
  BY <1>41 DEF vars
<1> HIDE <1>t DEF TypeOK, JobRecords, Delays, Holder, RecordsValid, ValidRecord
<1>42. QED
  BY <1>1, <1>2, <1>3, <1>4, <1>5, <1>6, <1>7, <1>8, <1>9, <1>10, <1>11, <1>12, <1>13, <1>14,
     <1>15, <1>16, <1>17, <1>18, <1>19, <1>20, <1>21, <1>22, <1>23, <1>24, <1>25, <1>26, <1>27,
     <1>28, <1>29, <1>30, <1>31, <1>32, <1>33, <1>34, <1>35, <1>36, <1>37, <1>38, <1>39, <1>40,
     <1>41 DEF Next, RecoverStep, LockStep, WorkStep, Request, Claims, Time, Failure

\* Every step keeps parents and children apart.
LEMMA LineageInductive ==
  ASSUME IInv, [Next]_vars PROVE Lineage'
<1>t. TypeOK /\ Lineage /\ Holder /\ Clean /\ RecordsValid
  BY DEF IInv
<1> USE <1>t DEF TypeOK, JobRecords, Lineage, Holder, Clean, RecordsValid, ValidRecord, Active,
        Stopped, Terminal, Working, ErrorClasses, worker, lock, history, env
<1>s. /\ todo \subseteq Jobs /\ published \subseteq Jobs /\ backoff \subseteq Jobs /\ NoJob \notin Jobs
      /\ MaxAttempts \in Nat /\ \A j \in Jobs : job[j].attempt \in Nat
  BY ConstantsAssumption
<1>1. CASE StartRecovery
  BY <1>1 DEF StartRecovery, Acquire
<1>2. ASSUME NEW j \in Jobs, RecoverTerminal(j) PROVE Lineage'
  BY <1>2 DEF RecoverTerminal, Recovering
<1>3. ASSUME NEW j \in Jobs, RecoverFromReceipt(j) PROVE Lineage'
  <2>1. FromReceiptOutcome(j)
    BY <1>3, FromReceiptEffect DEF Holder
  <2> HIDE DEF TypeOK, JobRecords
  <2>2. QED
    BY <1>s, <2>1 DEF FromReceiptOutcome, Kept, Becomes, NoReceipt
<1>4. ASSUME NEW j \in Jobs, RecoveryRaises(j) PROVE Lineage'
  BY <1>4 DEF RecoveryRaises, HasReceipt, Abort, Recovering
<1>5. ASSUME NEW j \in Jobs, RecoverIntent(j) PROVE Lineage'
  BY <1>5 DEF RecoverIntent, HasReceipt, Intent, Recovering
<1>6. ASSUME NEW j \in Jobs, RecoverRetry(j) PROVE Lineage'
  BY <1>6 DEF RecoverRetry, Plain, HasReceipt, Intent, Ready, Put, Recovering
<1>7. ASSUME NEW j \in Jobs, RecoverLease(j) PROVE Lineage'
  <2>1. LeaseOutcome(j)
    BY <1>7, LeaseEffect DEF Holder
  <2> HIDE DEF TypeOK, JobRecords
  <2>2. QED
    BY <1>s, <2>1 DEF LeaseOutcome, Kept, Becomes, SameDelay, SameIntent, Wrote, NoReceipt
<1>8. ASSUME NEW j \in Jobs, RecoverSkip(j) PROVE Lineage'
  BY <1>8 DEF RecoverSkip, Plain, HasReceipt, Intent, Recovering
<1>9. CASE Idle
  BY <1>9 DEF Idle
<1>10. ASSUME NEW j \in Jobs, Claim(j) PROVE Lineage'
  BY <1>10 DEF Claim, Claimable, Put
<1>11. CASE CheckpointPrepared
  BY <1>11 DEF CheckpointPrepared, Put, At, Owned, Checkpoint
<1>12. CASE CheckpointExecuting
  BY <1>12 DEF CheckpointExecuting, Put, At, Owned, Checkpoint
<1>13. CASE CheckpointCommitted
  BY <1>13 DEF CheckpointCommitted, Put, At, Owned, Checkpoint
<1>14. CASE Stop
  <2>1. StopOutcome
    BY <1>14, StopEffect DEF Holder
  <2> HIDE DEF TypeOK, JobRecords
  <2>2. QED
    BY <1>s, <2>1 DEF StopOutcome, Kept, Becomes, SameDelay, SameIntent, Wrote, NoReceipt
<1>15. CASE Barrier
  BY <1>15 DEF Barrier, Put, At, Owned
<1>16. CASE Publish
  BY <1>16 DEF Publish
<1>17. CASE Reuse
  BY <1>17 DEF Reuse
<1>18. CASE Succeed
  BY <1>18 DEF Succeed, WriteReceipt, Acquire, At, Owned
<1>19. CASE LoseLease
  BY <1>19 DEF LoseLease, Owned
<1>20. ASSUME NEW e \in ErrorClasses, ExecuteFails(e) PROVE Lineage'
  BY <1>20 DEF ExecuteFails
<1>21. ASSUME NEW e \in ErrorClasses, Fail(e) PROVE Lineage'
  <2>1. FailOutcome(e)
    BY <1>21, FailEffect DEF Holder
  <2> HIDE DEF TypeOK, JobRecords
  <2>2. QED
    BY <1>s, <2>1 DEF FailOutcome, Kept, Becomes, SameIntent, Wrote, NoReceipt
<1>22. CASE Heartbeat
  BY <1>22 DEF Heartbeat, Put, Owned
<1>23. CASE Busy
  BY <1>23 DEF Busy
<1>24. CASE ReceiptStep
  BY <1>24 DEF ReceiptStep, Cancelled, NoReceipt, WriteReceipt, Abort
<1>25. CASE JobStep
  <2>1. JobStepOutcome
    BY <1>25, JobStepEffect DEF Holder
  <2> HIDE DEF TypeOK, JobRecords
  <2>2. QED
    BY <1>s, <2>1 DEF JobStepOutcome, Kept, Becomes, Release, NoReceipt
<1>26. CASE ChildStep
  <2>1. ChildOutcome
    BY <1>26, ChildEffect DEF Holder
  <2> HIDE DEF TypeOK, JobRecords
  <2>2. QED
    BY <1>s, <2>1 DEF ChildOutcome, Newborn, Becomes, Release, Abort, NoReceipt
<1>27. ASSUME NEW j \in Jobs, Pause(j) PROVE Lineage'
  <2>1. PauseOutcome(j)
    BY <1>27, PauseEffect DEF Holder
  <2> HIDE DEF TypeOK, JobRecords
  <2>2. QED
    BY <1>s, <2>1 DEF PauseOutcome, Kept, Becomes, SameDelay, SameIntent, NoReceipt
<1>28. ASSUME NEW j \in Jobs, Cancel(j) PROVE Lineage'
  <2>1. CancelOutcome(j)
    BY <1>28, CancelEffect DEF Holder
  <2> HIDE DEF TypeOK, JobRecords
  <2>2. QED
    BY <1>s, <2>1 DEF CancelOutcome, Kept, Becomes, SameDelay, NoReceipt
<1>29. ASSUME NEW j \in Jobs, DirectCancel(j) PROVE Lineage'
  BY <1>29 DEF DirectCancel, DirectCancellable, WriteReceipt, Acquire
<1>30. ASSUME NEW j \in Jobs, Resume(j) PROVE Lineage'
  BY <1>30 DEF Resume, Requestable, Refused, Put, Commanded
<1>31. ASSUME NEW j \in Jobs, Retry(j) PROVE Lineage'
  BY <1>31 DEF Retry, Requestable, Refused, Put, Commanded
<1>32. ASSUME NEW j \in Jobs, Replay(j) PROVE Lineage'
  BY <1>32 DEF Replay, Intent, Acquire
<1>33. ASSUME NEW j \in Jobs, NEW c \in Jobs, Restart(j, c) PROVE Lineage'
  BY <1>33 DEF Restart, Requestable, Refused, Reserved, Put, Acquire, Commanded
<1>34. ASSUME NEW j \in Jobs, NEW e \in BOOLEAN, Admit(j, e) PROVE Lineage'
  <2>1. AdmitOutcome(j)
    BY <1>34, AdmitEffect DEF Holder
  <2> HIDE DEF TypeOK, JobRecords
  <2>2. QED
    BY <1>s, <2>1 DEF AdmitOutcome, Newborn, Becomes, Reserved, NoReceipt
<1>35. ASSUME NEW j \in Jobs, Expire(j) PROVE Lineage'
  BY <1>35 DEF Expire, Put
<1>36. ASSUME NEW j \in Jobs, Elapse(j) PROVE Lineage'
  BY <1>36 DEF Elapse, Put
<1>37. CASE SetClockBack
  BY <1>37, ClockKeeps
<1>38. CASE WorkerDies
  BY <1>38 DEF WorkerDies
<1>39. CASE RequestDies
  BY <1>39 DEF RequestDies
<1>40. CASE TornReceipt
  BY <1>40 DEF TornReceipt, LockTears, WorkTears, DirectCancellable, Abort, Recovering, Owned
<1>41. CASE UNCHANGED vars
  BY <1>41 DEF vars
<1> HIDE <1>t DEF TypeOK, JobRecords, Lineage, Holder, Clean, RecordsValid, ValidRecord
<1>42. QED
  BY <1>1, <1>2, <1>3, <1>4, <1>5, <1>6, <1>7, <1>8, <1>9, <1>10, <1>11, <1>12, <1>13, <1>14,
     <1>15, <1>16, <1>17, <1>18, <1>19, <1>20, <1>21, <1>22, <1>23, <1>24, <1>25, <1>26, <1>27,
     <1>28, <1>29, <1>30, <1>31, <1>32, <1>33, <1>34, <1>35, <1>36, <1>37, <1>38, <1>39, <1>40,
     <1>41 DEF Next, RecoverStep, LockStep, WorkStep, Request, Claims, Time, Failure

\* Every step hands the journal lock on as Holder says.
LEMMA HolderInductive ==
  ASSUME IInv, [Next]_vars PROVE Holder'
<1>t. TypeOK /\ RecordsValid /\ Holder /\ Clean /\ Lineage
  BY DEF IInv
<1> USE <1>t DEF TypeOK, JobRecords, Receipts, RecordsValid, ValidRecord, Holder, Clean, Lineage,
        Active, Stopped, Terminal, Working, ErrorClasses, worker, lock, history, env
<1>s. /\ todo \subseteq Jobs /\ published \subseteq Jobs /\ backoff \subseteq Jobs /\ NoJob \notin Jobs
      /\ MaxAttempts \in Nat /\ \A j \in Jobs : job[j].attempt \in Nat
  BY ConstantsAssumption
<1>1. CASE StartRecovery
  BY <1>1 DEF StartRecovery, Acquire
<1>2. ASSUME NEW j \in Jobs, RecoverTerminal(j) PROVE Holder'
  BY <1>2 DEF RecoverTerminal, Recovering
<1>3. ASSUME NEW j \in Jobs, RecoverFromReceipt(j) PROVE Holder'
  BY <1>3 DEF RecoverFromReceipt, HasReceipt, Matches, Put, Finished, Recovering
<1>4. ASSUME NEW j \in Jobs, RecoveryRaises(j) PROVE Holder'
  BY <1>4 DEF RecoveryRaises, HasReceipt, Abort, Recovering
<1>5. ASSUME NEW j \in Jobs, RecoverIntent(j) PROVE Holder'
  BY <1>5 DEF RecoverIntent, HasReceipt, Intent, Recovering
<1>6. ASSUME NEW j \in Jobs, RecoverRetry(j) PROVE Holder'
  BY <1>6 DEF RecoverRetry, Plain, HasReceipt, Intent, Ready, Put, Recovering
<1>7. ASSUME NEW j \in Jobs, RecoverLease(j) PROVE Holder'
  BY <1>7 DEF RecoverLease, Plain, HasReceipt, Intent, Lapsed, GivesUp, Exhausted, Put,
     WriteReceipt, Paused, Recovering
<1>8. ASSUME NEW j \in Jobs, RecoverSkip(j) PROVE Holder'
  BY <1>8 DEF RecoverSkip, Plain, HasReceipt, Intent, Recovering
<1>9. CASE Idle
  BY <1>9 DEF Idle
<1>10. ASSUME NEW j \in Jobs, Claim(j) PROVE Holder'
  BY <1>10 DEF Claim, Claimable, Put
<1>11. CASE CheckpointPrepared
  BY <1>11 DEF CheckpointPrepared, Put, At, Owned, Checkpoint
<1>12. CASE CheckpointExecuting
  BY <1>12 DEF CheckpointExecuting, Put, At, Owned, Checkpoint
<1>13. CASE CheckpointCommitted
  BY <1>13 DEF CheckpointCommitted, Put, At, Owned, Checkpoint
<1>14. CASE Stop
  BY <1>14 DEF Stop, Put, WriteReceipt, Acquire, Paused, At, Owned
<1>15. CASE Barrier
  BY <1>15 DEF Barrier, Put, At, Owned
<1>16. CASE Publish
  BY <1>16 DEF Publish
<1>17. CASE Reuse
  BY <1>17 DEF Reuse
<1>18. CASE Succeed
  BY <1>18 DEF Succeed, WriteReceipt, Acquire, At, Owned
<1>19. CASE LoseLease
  BY <1>19 DEF LoseLease, Owned
<1>20. ASSUME NEW e \in ErrorClasses, ExecuteFails(e) PROVE Holder'
  BY <1>20 DEF ExecuteFails
<1>21. ASSUME NEW e \in ErrorClasses, Fail(e) PROVE Holder'
  BY <1>21 DEF Fail, FailedStatus, Put, WriteReceipt, Acquire, At, Owned
<1>22. CASE Heartbeat
  BY <1>22 DEF Heartbeat, Put, Owned
<1>23. CASE Busy
  BY <1>23 DEF Busy
<1>24. CASE ReceiptStep
  BY <1>24 DEF ReceiptStep, Cancelled, NoReceipt, WriteReceipt, Abort
<1>25. CASE JobStep
  <2>1. JobStepOutcome
    BY <1>25, JobStepEffect DEF Holder
  <2> HIDE DEF TypeOK, JobRecords, Receipts
  <2>2. QED
    BY <1>s, <2>1 DEF JobStepOutcome, Kept, Becomes, Release, NoReceipt
<1>26. CASE ChildStep
  BY <1>26 DEF ChildStep, Put, Release, Abort, Fresh
<1>27. ASSUME NEW j \in Jobs, Pause(j) PROVE Holder'
  <2>1. PauseOutcome(j)
    BY <1>27, PauseEffect DEF Holder
  <2> HIDE DEF TypeOK, JobRecords, Receipts
  <2>2. QED
    BY <1>s, <2>1 DEF PauseOutcome, Kept, Becomes, SameDelay, SameIntent, NoReceipt
<1>28. ASSUME NEW j \in Jobs, Cancel(j) PROVE Holder'
  <2>1. CancelOutcome(j)
    BY <1>28, CancelEffect DEF Holder
  <2> HIDE DEF TypeOK, JobRecords, Receipts
  <2>2. QED
    BY <1>s, <2>1 DEF CancelOutcome, Kept, Becomes, SameDelay, NoReceipt
<1>29. ASSUME NEW j \in Jobs, DirectCancel(j) PROVE Holder'
  BY <1>29 DEF DirectCancel, DirectCancellable, WriteReceipt, Acquire
<1>30. ASSUME NEW j \in Jobs, Resume(j) PROVE Holder'
  BY <1>30 DEF Resume, Requestable, Refused, Put, Commanded
<1>31. ASSUME NEW j \in Jobs, Retry(j) PROVE Holder'
  BY <1>31 DEF Retry, Requestable, Refused, Put, Commanded
<1>32. ASSUME NEW j \in Jobs, Replay(j) PROVE Holder'
  BY <1>32 DEF Replay, Intent, Acquire
<1>33. ASSUME NEW j \in Jobs, NEW c \in Jobs, Restart(j, c) PROVE Holder'
  BY <1>33 DEF Restart, Requestable, Refused, Reserved, Put, Acquire, Commanded
<1>34. ASSUME NEW j \in Jobs, NEW e \in BOOLEAN, Admit(j, e) PROVE Holder'
  BY <1>34 DEF Admit, Reserved, Put, Fresh
<1>35. ASSUME NEW j \in Jobs, Expire(j) PROVE Holder'
  BY <1>35 DEF Expire, Put
<1>36. ASSUME NEW j \in Jobs, Elapse(j) PROVE Holder'
  BY <1>36 DEF Elapse, Put
<1>37. CASE SetClockBack
  BY <1>37, ClockKeeps
<1>38. CASE WorkerDies
  BY <1>38 DEF WorkerDies
<1>39. CASE RequestDies
  BY <1>39 DEF RequestDies
<1>40. CASE TornReceipt
  BY <1>40 DEF TornReceipt, LockTears, WorkTears, DirectCancellable, Abort, Recovering, Owned
<1>41. CASE UNCHANGED vars
  BY <1>41 DEF vars
<1> HIDE <1>t DEF TypeOK, JobRecords, Receipts, RecordsValid, ValidRecord, Holder, Clean, Lineage
<1>42. QED
  BY <1>1, <1>2, <1>3, <1>4, <1>5, <1>6, <1>7, <1>8, <1>9, <1>10, <1>11, <1>12, <1>13, <1>14,
     <1>15, <1>16, <1>17, <1>18, <1>19, <1>20, <1>21, <1>22, <1>23, <1>24, <1>25, <1>26, <1>27,
     <1>28, <1>29, <1>30, <1>31, <1>32, <1>33, <1>34, <1>35, <1>36, <1>37, <1>38, <1>39, <1>40,
     <1>41 DEF Next, RecoverStep, LockStep, WorkStep, Request, Claims, Time, Failure

\* Every step keeps receipts and jobs in agreement.
LEMMA ReceiptInductive ==
  ASSUME IInv, [Next]_vars PROVE ReceiptDecides'
<1>t. TypeOK /\ ReceiptDecides /\ Holder /\ Clean
  BY DEF IInv
<1> USE <1>t DEF TypeOK, JobRecords, Receipts, ReceiptDecides, HasReceipt, Matches, NoReceipt,
        Holder, Clean, Active, Stopped, Terminal, Working, ErrorClasses, worker, lock, history,
        env
<1>u. \A j \in Jobs : rcpt[j] = [status |-> rcpt[j].status, attempts |-> rcpt[j].attempts]
  BY DEF TypeOK
<1>1. CASE StartRecovery
  BY <1>1 DEF StartRecovery, Acquire
<1>2. ASSUME NEW j \in Jobs, RecoverTerminal(j) PROVE ReceiptDecides'
  BY <1>2 DEF RecoverTerminal, Recovering
<1>3. ASSUME NEW j \in Jobs, RecoverFromReceipt(j) PROVE ReceiptDecides'
  <2>1. FromReceiptOutcome(j)
    BY <1>3, FromReceiptEffect DEF Holder
  <2> HIDE DEF TypeOK, JobRecords, Receipts
  <2>2. QED
    BY <1>u, <2>1 DEF FromReceiptOutcome, Kept, Becomes
<1>4. ASSUME NEW j \in Jobs, RecoveryRaises(j) PROVE ReceiptDecides'
  BY <1>4 DEF RecoveryRaises, HasReceipt, Abort, Recovering
<1>5. ASSUME NEW j \in Jobs, RecoverIntent(j) PROVE ReceiptDecides'
  BY <1>5 DEF RecoverIntent, HasReceipt, Intent, Recovering
<1>6. ASSUME NEW j \in Jobs, RecoverRetry(j) PROVE ReceiptDecides'
  BY <1>6 DEF RecoverRetry, Plain, HasReceipt, Intent, Ready, Put, Recovering
<1>7. ASSUME NEW j \in Jobs, RecoverLease(j) PROVE ReceiptDecides'
  <2>1. LeaseOutcome(j)
    BY <1>7, LeaseEffect DEF Holder
  <2> HIDE DEF TypeOK, JobRecords, Receipts
  <2>2. QED
    BY <1>u, <2>1 DEF LeaseOutcome, Kept, Becomes, SameDelay, SameIntent, Wrote
<1>8. ASSUME NEW j \in Jobs, RecoverSkip(j) PROVE ReceiptDecides'
  BY <1>8 DEF RecoverSkip, Plain, HasReceipt, Intent, Recovering
<1>9. CASE Idle
  BY <1>9 DEF Idle
<1>10. ASSUME NEW j \in Jobs, Claim(j) PROVE ReceiptDecides'
  BY <1>10 DEF Claim, Claimable, Put
<1>11. CASE CheckpointPrepared
  BY <1>11 DEF CheckpointPrepared, Put, At, Owned, Checkpoint
<1>12. CASE CheckpointExecuting
  BY <1>12 DEF CheckpointExecuting, Put, At, Owned, Checkpoint
<1>13. CASE CheckpointCommitted
  BY <1>13 DEF CheckpointCommitted, Put, At, Owned, Checkpoint
<1>14. CASE Stop
  <2>1. StopOutcome
    BY <1>14, StopEffect DEF Holder
  <2> HIDE DEF TypeOK, JobRecords, Receipts
  <2>2. QED
    BY <1>u, <2>1 DEF StopOutcome, Kept, Becomes, SameDelay, SameIntent, Wrote
<1>15. CASE Barrier
  BY <1>15 DEF Barrier, Put, At, Owned
<1>16. CASE Publish
  BY <1>16 DEF Publish
<1>17. CASE Reuse
  BY <1>17 DEF Reuse
<1>18. CASE Succeed
  BY <1>18 DEF Succeed, WriteReceipt, Acquire, At, Owned
<1>19. CASE LoseLease
  BY <1>19 DEF LoseLease, Owned
<1>20. ASSUME NEW e \in ErrorClasses, ExecuteFails(e) PROVE ReceiptDecides'
  BY <1>20 DEF ExecuteFails
<1>21. ASSUME NEW e \in ErrorClasses, Fail(e) PROVE ReceiptDecides'
  <2>1. FailOutcome(e)
    BY <1>21, FailEffect DEF Holder
  <2> HIDE DEF TypeOK, JobRecords, Receipts
  <2>2. QED
    BY <1>u, <2>1 DEF FailOutcome, Kept, Becomes, SameIntent, Wrote
<1>22. CASE Heartbeat
  BY <1>22 DEF Heartbeat, Put, Owned
<1>23. CASE Busy
  BY <1>23 DEF Busy
<1>24. CASE ReceiptStep
  BY <1>24 DEF ReceiptStep, Cancelled, NoReceipt, WriteReceipt, Abort
<1>25. CASE JobStep
  <2>1. JobStepOutcome
    BY <1>25, JobStepEffect DEF Holder
  <2>2. job[lj].status \notin Terminal /\ rcpt[lj].status \notin {"none", "torn"}
    BY <2>1 DEF JobStepOutcome
  <2>3. rcpt[lj].attempts = job[lj].attempt
    BY <2>1, <2>2 DEF JobStepOutcome
  <2>4. /\ rcpt' = rcpt /\ job'[lj].attempt = job[lj].attempt /\ job'[lj].status = rcpt[lj].status
        /\ rcpt[lj].status \in Terminal /\ \A i \in Jobs \ {lj} : job'[i] = job[i]
    BY <2>1 DEF JobStepOutcome, Kept, Becomes
  <2> HIDE <1>t DEF TypeOK, JobRecords, Receipts, Holder, Clean
  <2>5. QED
    BY <1>t, <1>u, <2>3, <2>4
<1>26. CASE ChildStep
  <2>1. ChildOutcome
    BY <1>26, ChildEffect DEF Holder
  <2> HIDE DEF TypeOK, JobRecords, Receipts
  <2>2. QED
    BY <1>u, <2>1 DEF ChildOutcome, Newborn, Becomes, Release, Abort
<1>27. ASSUME NEW j \in Jobs, Pause(j) PROVE ReceiptDecides'
  <2>1. PauseOutcome(j)
    BY <1>27, PauseEffect DEF Holder
  <2>2. /\ rcpt' = rcpt /\ job'[j].attempt = job[j].attempt /\ \A i \in Jobs \ {j} : job'[i] = job[i]
        /\ job[j].status \notin Terminal /\ job'[j].status \notin Terminal
        /\ job'[j].status \in Stopped => job[j].status \in Stopped
    BY <2>1 DEF PauseOutcome, Kept, Becomes
  <2> HIDE DEF TypeOK, JobRecords, Receipts, Holder, Clean
  <2>3. QED
    BY <2>2
<1>28. ASSUME NEW j \in Jobs, Cancel(j) PROVE ReceiptDecides'
  <2>1. CancelOutcome(j)
    BY <1>28, CancelEffect DEF Holder
  <2>2. /\ rcpt' = rcpt /\ job'[j].attempt = job[j].attempt /\ \A i \in Jobs \ {j} : job'[i] = job[i]
        /\ job[j].status \notin Terminal /\ job'[j].status \notin Terminal
        /\ job'[j].status \in Stopped => job[j].status \in Stopped
    BY <2>1 DEF CancelOutcome, Kept, Becomes
  <2> HIDE DEF TypeOK, JobRecords, Receipts, Holder, Clean
  <2>3. QED
    BY <2>2
<1>29. ASSUME NEW j \in Jobs, DirectCancel(j) PROVE ReceiptDecides'
  BY <1>29 DEF DirectCancel, DirectCancellable, WriteReceipt, Acquire
<1>30. ASSUME NEW j \in Jobs, Resume(j) PROVE ReceiptDecides'
  BY <1>30 DEF Resume, Requestable, Refused, Put, Commanded
<1>31. ASSUME NEW j \in Jobs, Retry(j) PROVE ReceiptDecides'
  BY <1>31 DEF Retry, Requestable, Refused, Put, Commanded
<1>32. ASSUME NEW j \in Jobs, Replay(j) PROVE ReceiptDecides'
  BY <1>32 DEF Replay, Intent, Acquire
<1>33. ASSUME NEW j \in Jobs, NEW c \in Jobs, Restart(j, c) PROVE ReceiptDecides'
  BY <1>33 DEF Restart, Requestable, Refused, Reserved, Put, Acquire, Commanded
<1>34. ASSUME NEW j \in Jobs, NEW e \in BOOLEAN, Admit(j, e) PROVE ReceiptDecides'
  <2>1. AdmitOutcome(j)
    BY <1>34, AdmitEffect DEF Holder
  <2> HIDE DEF TypeOK, JobRecords, Receipts
  <2>2. QED
    BY <1>u, <2>1 DEF AdmitOutcome, Newborn, Becomes, Reserved
<1>35. ASSUME NEW j \in Jobs, Expire(j) PROVE ReceiptDecides'
  BY <1>35 DEF Expire, Put
<1>36. ASSUME NEW j \in Jobs, Elapse(j) PROVE ReceiptDecides'
  BY <1>36 DEF Elapse, Put
<1>37. CASE SetClockBack
  BY <1>37, ClockKeeps
<1>38. CASE WorkerDies
  BY <1>38 DEF WorkerDies
<1>39. CASE RequestDies
  BY <1>39 DEF RequestDies
<1>40. CASE TornReceipt
  BY <1>40 DEF TornReceipt, LockTears, WorkTears, DirectCancellable, Abort, Recovering, Owned
<1>41. CASE UNCHANGED vars
  BY <1>41 DEF vars
<1> HIDE <1>t DEF TypeOK, JobRecords, Receipts, ReceiptDecides, HasReceipt, Matches, NoReceipt,
        Holder, Clean
<1>42. QED
  BY <1>1, <1>2, <1>3, <1>4, <1>5, <1>6, <1>7, <1>8, <1>9, <1>10, <1>11, <1>12, <1>13, <1>14,
     <1>15, <1>16, <1>17, <1>18, <1>19, <1>20, <1>21, <1>22, <1>23, <1>24, <1>25, <1>26, <1>27,
     <1>28, <1>29, <1>30, <1>31, <1>32, <1>33, <1>34, <1>35, <1>36, <1>37, <1>38, <1>39, <1>40,
     <1>41 DEF Next, RecoverStep, LockStep, WorkStep, Request, Claims, Time, Failure

\* Every step keeps the places without receipts clean.
LEMMA CleanInductive ==
  ASSUME IInv, [Next]_vars PROVE Clean'
<1>t. TypeOK /\ RecordsValid /\ Holder /\ Clean /\ Lineage
  BY DEF IInv
<1> USE <1>t DEF TypeOK, JobRecords, Receipts, RecordsValid, ValidRecord, NoReceipt, Holder,
        Clean, Lineage, Active, Stopped, Terminal, Working, ErrorClasses, worker, lock, history,
        env
<1>s. /\ todo \subseteq Jobs /\ published \subseteq Jobs /\ backoff \subseteq Jobs /\ NoJob \notin Jobs
      /\ MaxAttempts \in Nat /\ \A j \in Jobs : job[j].attempt \in Nat
  BY ConstantsAssumption
<1>1. CASE StartRecovery
  BY <1>1 DEF StartRecovery, Acquire
<1>2. ASSUME NEW j \in Jobs, RecoverTerminal(j) PROVE Clean'
  BY <1>2 DEF RecoverTerminal, Recovering
<1>3. ASSUME NEW j \in Jobs, RecoverFromReceipt(j) PROVE Clean'
  <2>1. FromReceiptOutcome(j)
    BY <1>3, FromReceiptEffect DEF Holder
  <2> HIDE DEF TypeOK, JobRecords, Receipts
  <2>2. QED
    BY <1>s, <2>1 DEF FromReceiptOutcome, Kept, Becomes
<1>4. ASSUME NEW j \in Jobs, RecoveryRaises(j) PROVE Clean'
  BY <1>4 DEF RecoveryRaises, HasReceipt, Abort, Recovering
<1>5. ASSUME NEW j \in Jobs, RecoverIntent(j) PROVE Clean'
  BY <1>5 DEF RecoverIntent, HasReceipt, Intent, Recovering
<1>6. ASSUME NEW j \in Jobs, RecoverRetry(j) PROVE Clean'
  BY <1>6 DEF RecoverRetry, Plain, HasReceipt, Intent, Ready, Put, Recovering
<1>7. ASSUME NEW j \in Jobs, RecoverLease(j) PROVE Clean'
  <2>1. LeaseOutcome(j)
    BY <1>7, LeaseEffect DEF Holder
  <2> HIDE DEF TypeOK, JobRecords, Receipts
  <2>2. QED
    BY <1>s, <2>1 DEF LeaseOutcome, Kept, Becomes, SameDelay, SameIntent, Wrote
<1>8. ASSUME NEW j \in Jobs, RecoverSkip(j) PROVE Clean'
  BY <1>8 DEF RecoverSkip, Plain, HasReceipt, Intent, Recovering
<1>9. CASE Idle
  BY <1>9 DEF Idle
<1>10. ASSUME NEW j \in Jobs, Claim(j) PROVE Clean'
  BY <1>10 DEF Claim, Claimable, Put
<1>11. CASE CheckpointPrepared
  BY <1>11 DEF CheckpointPrepared, Put, At, Owned, Checkpoint
<1>12. CASE CheckpointExecuting
  BY <1>12 DEF CheckpointExecuting, Put, At, Owned, Checkpoint
<1>13. CASE CheckpointCommitted
  BY <1>13 DEF CheckpointCommitted, Put, At, Owned, Checkpoint
<1>14. CASE Stop
  <2>1. StopOutcome
    BY <1>14, StopEffect DEF Holder
  <2> HIDE DEF TypeOK, JobRecords, Receipts
  <2>2. QED
    BY <1>s, <2>1 DEF StopOutcome, Kept, Becomes, SameDelay, SameIntent, Wrote
<1>15. CASE Barrier
  BY <1>15 DEF Barrier, Put, At, Owned
<1>16. CASE Publish
  BY <1>16 DEF Publish
<1>17. CASE Reuse
  BY <1>17 DEF Reuse
<1>18. CASE Succeed
  BY <1>18 DEF Succeed, WriteReceipt, Acquire, At, Owned
<1>19. CASE LoseLease
  BY <1>19 DEF LoseLease, Owned
<1>20. ASSUME NEW e \in ErrorClasses, ExecuteFails(e) PROVE Clean'
  BY <1>20 DEF ExecuteFails
<1>21. ASSUME NEW e \in ErrorClasses, Fail(e) PROVE Clean'
  <2>1. FailOutcome(e)
    BY <1>21, FailEffect DEF Holder
  <2> HIDE DEF TypeOK, JobRecords, Receipts
  <2>2. QED
    BY <1>s, <2>1 DEF FailOutcome, Kept, Becomes, SameIntent, Wrote
<1>22. CASE Heartbeat
  BY <1>22 DEF Heartbeat, Put, Owned
<1>23. CASE Busy
  BY <1>23 DEF Busy
<1>24. CASE ReceiptStep
  BY <1>24 DEF ReceiptStep, Cancelled, NoReceipt, WriteReceipt, Abort
<1>25. CASE JobStep
  <2>1. JobStepOutcome
    BY <1>25, JobStepEffect DEF Holder
  <2> HIDE DEF TypeOK, JobRecords, Receipts
  <2>2. QED
    BY <1>s, <2>1 DEF JobStepOutcome, Kept, Becomes, Release
<1>26. CASE ChildStep
  <2>1. ChildOutcome
    BY <1>26, ChildEffect DEF Holder
  <2> HIDE DEF TypeOK, JobRecords, Receipts
  <2>2. QED
    BY <1>s, <2>1 DEF ChildOutcome, Newborn, Becomes, Release, Abort
<1>27. ASSUME NEW j \in Jobs, Pause(j) PROVE Clean'
  <2>1. PauseOutcome(j)
    BY <1>27, PauseEffect DEF Holder
  <2> HIDE DEF TypeOK, JobRecords, Receipts
  <2>2. QED
    BY <1>s, <2>1 DEF PauseOutcome, Kept, Becomes, SameDelay, SameIntent
<1>28. ASSUME NEW j \in Jobs, Cancel(j) PROVE Clean'
  <2>1. CancelOutcome(j)
    BY <1>28, CancelEffect DEF Holder
  <2> HIDE DEF TypeOK, JobRecords, Receipts
  <2>2. QED
    BY <1>s, <2>1 DEF CancelOutcome, Kept, Becomes, SameDelay
<1>29. ASSUME NEW j \in Jobs, DirectCancel(j) PROVE Clean'
  BY <1>29 DEF DirectCancel, DirectCancellable, WriteReceipt, Acquire
<1>30. ASSUME NEW j \in Jobs, Resume(j) PROVE Clean'
  BY <1>30 DEF Resume, Requestable, Refused, Put, Commanded
<1>31. ASSUME NEW j \in Jobs, Retry(j) PROVE Clean'
  BY <1>31 DEF Retry, Requestable, Refused, Put, Commanded
<1>32. ASSUME NEW j \in Jobs, Replay(j) PROVE Clean'
  BY <1>32 DEF Replay, Intent, Acquire
<1>33. ASSUME NEW j \in Jobs, NEW c \in Jobs, Restart(j, c) PROVE Clean'
  BY <1>33 DEF Restart, Requestable, Refused, Reserved, Put, Acquire, Commanded
<1>34. ASSUME NEW j \in Jobs, NEW e \in BOOLEAN, Admit(j, e) PROVE Clean'
  <2>1. AdmitOutcome(j)
    BY <1>34, AdmitEffect DEF Holder
  <2> HIDE DEF TypeOK, JobRecords, Receipts
  <2>2. QED
    BY <1>s, <2>1 DEF AdmitOutcome, Newborn, Becomes, Reserved
<1>35. ASSUME NEW j \in Jobs, Expire(j) PROVE Clean'
  BY <1>35 DEF Expire, Put
<1>36. ASSUME NEW j \in Jobs, Elapse(j) PROVE Clean'
  BY <1>36 DEF Elapse, Put
<1>37. CASE SetClockBack
  BY <1>37, ClockKeeps
<1>38. CASE WorkerDies
  BY <1>38 DEF WorkerDies
<1>39. CASE RequestDies
  BY <1>39 DEF RequestDies
<1>40. CASE TornReceipt
  <2>1. PICK j \in Jobs :
          /\ rcpt[j] = NoReceipt /\ rcpt' = [rcpt EXCEPT ![j] = [status |-> "torn", attempts |-> 0]]
          /\ \/ LockTears(j) /\ Abort
             \/ WorkTears(j) /\ wpc' = "off" /\ UNCHANGED <<lk, todo>>
             \/ DirectCancellable(j) /\ UNCHANGED <<wpc, lk, todo>>
    BY <1>40 DEF TornReceipt
  <2>2. /\ rcpt'[j].status = "torn" /\ \A i \in Jobs \ {j} : rcpt'[i] = rcpt[i]
        /\ UNCHANGED <<job, wj, lj, who>>
    BY <1>40, <2>1 DEF TornReceipt
  <2>3. CASE LockTears(j) /\ Abort
    <3>1. job[j].status # "missing" /\ wpc' \notin {"recover"} /\ (wpc' \in Working => wj # j)
      BY <2>1, <2>3 DEF LockTears, Abort, Recovering, Lapsed
    <3> HIDE DEF TypeOK, JobRecords, Receipts
    <3>2. QED
      BY <2>1, <2>2, <2>3, <3>1 DEF Abort
  <2>4. CASE WorkTears(j) /\ wpc' = "off" /\ UNCHANGED <<lk, todo>>
    <3>1. job[j].status # "missing"
      BY <2>4 DEF WorkTears, Owned
    <3>2. QED
      BY <2>1, <2>2, <2>4, <3>1
  <2>5. CASE DirectCancellable(j) /\ UNCHANGED <<wpc, lk, todo>>
    <3>1. job[j].status \in Stopped /\ lk = "free"
      BY <2>5 DEF DirectCancellable
    <3>2. QED
      BY <2>1, <2>2, <2>5, <3>1
  <2>6. QED
    BY <2>1, <2>3, <2>4, <2>5
<1>41. CASE UNCHANGED vars
  BY <1>41 DEF vars
<1> HIDE <1>t DEF TypeOK, JobRecords, Receipts, RecordsValid, ValidRecord, NoReceipt, Holder,
        Clean, Lineage
<1>42. QED
  BY <1>1, <1>2, <1>3, <1>4, <1>5, <1>6, <1>7, <1>8, <1>9, <1>10, <1>11, <1>12, <1>13, <1>14,
     <1>15, <1>16, <1>17, <1>18, <1>19, <1>20, <1>21, <1>22, <1>23, <1>24, <1>25, <1>26, <1>27,
     <1>28, <1>29, <1>30, <1>31, <1>32, <1>33, <1>34, <1>35, <1>36, <1>37, <1>38, <1>39, <1>40,
     <1>41 DEF Next, RecoverStep, LockStep, WorkStep, Request, Claims, Time, Failure

\* Every step keeps the record of the effects.
LEMMA EffectsInductive ==
  ASSUME IInv, [Next]_vars PROVE Effects'
<1>t. TypeOK /\ Effects /\ Holder /\ RecordsValid
  BY DEF IInv
<1> USE <1>t DEF TypeOK, JobRecords, Effects, Holder, RecordsValid, ValidRecord, Uncertain,
        Active, Stopped, Terminal, Working, ErrorClasses, worker, lock, history, env
<1>s. /\ todo \subseteq Jobs /\ published \subseteq Jobs /\ backoff \subseteq Jobs /\ NoJob \notin Jobs
      /\ MaxAttempts \in Nat /\ \A j \in Jobs : job[j].attempt \in Nat
  BY ConstantsAssumption
<1>1. CASE StartRecovery
  BY <1>1 DEF StartRecovery, Acquire
<1>2. ASSUME NEW j \in Jobs, RecoverTerminal(j) PROVE Effects'
  BY <1>2 DEF RecoverTerminal, Recovering
<1>3. ASSUME NEW j \in Jobs, RecoverFromReceipt(j) PROVE Effects'
  <2>1. FromReceiptOutcome(j)
    BY <1>3, FromReceiptEffect DEF Holder
  <2> HIDE DEF TypeOK, JobRecords
  <2>2. QED
    BY <1>s, <2>1 DEF FromReceiptOutcome, Kept, Becomes
<1>4. ASSUME NEW j \in Jobs, RecoveryRaises(j) PROVE Effects'
  BY <1>4 DEF RecoveryRaises, HasReceipt, Abort, Recovering
<1>5. ASSUME NEW j \in Jobs, RecoverIntent(j) PROVE Effects'
  BY <1>5 DEF RecoverIntent, HasReceipt, Intent, Recovering
<1>6. ASSUME NEW j \in Jobs, RecoverRetry(j) PROVE Effects'
  BY <1>6 DEF RecoverRetry, Plain, HasReceipt, Intent, Ready, Put, Recovering
<1>7. ASSUME NEW j \in Jobs, RecoverLease(j) PROVE Effects'
  <2>1. LeaseOutcome(j)
    BY <1>7, LeaseEffect DEF Holder
  <2> HIDE DEF TypeOK, JobRecords
  <2>2. QED
    BY <1>s, <2>1 DEF LeaseOutcome, Kept, Becomes, SameDelay, SameIntent, Wrote
<1>8. ASSUME NEW j \in Jobs, RecoverSkip(j) PROVE Effects'
  BY <1>8 DEF RecoverSkip, Plain, HasReceipt, Intent, Recovering
<1>9. CASE Idle
  BY <1>9 DEF Idle
<1>10. ASSUME NEW j \in Jobs, Claim(j) PROVE Effects'
  BY <1>10 DEF Claim, Claimable, Put
<1>11. CASE CheckpointPrepared
  BY <1>11 DEF CheckpointPrepared, Put, At, Owned, Checkpoint
<1>12. CASE CheckpointExecuting
  BY <1>12 DEF CheckpointExecuting, Put, At, Owned, Checkpoint
<1>13. CASE CheckpointCommitted
  BY <1>13 DEF CheckpointCommitted, Put, At, Owned, Checkpoint
<1>14. CASE Stop
  <2>1. StopOutcome
    BY <1>14, StopEffect DEF Holder
  <2> HIDE DEF TypeOK, JobRecords
  <2>2. QED
    BY <1>s, <2>1 DEF StopOutcome, Kept, Becomes, SameDelay, SameIntent, Wrote
<1>15. CASE Barrier
  BY <1>15 DEF Barrier, Put, At, Owned
<1>16. CASE Publish
  BY <1>16 DEF Publish
<1>17. CASE Reuse
  BY <1>17 DEF Reuse
<1>18. CASE Succeed
  BY <1>18 DEF Succeed, WriteReceipt, Acquire, At, Owned
<1>19. CASE LoseLease
  BY <1>19 DEF LoseLease, Owned
<1>20. ASSUME NEW e \in ErrorClasses, ExecuteFails(e) PROVE Effects'
  BY <1>20 DEF ExecuteFails
<1>21. ASSUME NEW e \in ErrorClasses, Fail(e) PROVE Effects'
  <2>1. FailOutcome(e)
    BY <1>21, FailEffect DEF Holder
  <2> HIDE DEF TypeOK, JobRecords
  <2>2. QED
    BY <1>s, <2>1 DEF FailOutcome, Kept, Becomes, SameIntent, Wrote
<1>22. CASE Heartbeat
  BY <1>22 DEF Heartbeat, Put, Owned
<1>23. CASE Busy
  BY <1>23 DEF Busy
<1>24. CASE ReceiptStep
  BY <1>24 DEF ReceiptStep, Cancelled, NoReceipt, WriteReceipt, Abort
<1>25. CASE JobStep
  <2>1. JobStepOutcome
    BY <1>25, JobStepEffect DEF Holder
  <2> HIDE DEF TypeOK, JobRecords
  <2>2. QED
    BY <1>s, <2>1 DEF JobStepOutcome, Kept, Becomes, Release
<1>26. CASE ChildStep
  <2>1. ChildOutcome
    BY <1>26, ChildEffect DEF Holder
  <2> HIDE DEF TypeOK, JobRecords
  <2>2. QED
    BY <1>s, <2>1 DEF ChildOutcome, Newborn, Becomes, Release, Abort
<1>27. ASSUME NEW j \in Jobs, Pause(j) PROVE Effects'
  <2>1. PauseOutcome(j)
    BY <1>27, PauseEffect DEF Holder
  <2> HIDE DEF TypeOK, JobRecords
  <2>2. QED
    BY <1>s, <2>1 DEF PauseOutcome, Kept, Becomes, SameDelay, SameIntent
<1>28. ASSUME NEW j \in Jobs, Cancel(j) PROVE Effects'
  <2>1. CancelOutcome(j)
    BY <1>28, CancelEffect DEF Holder
  <2> HIDE DEF TypeOK, JobRecords
  <2>2. QED
    BY <1>s, <2>1 DEF CancelOutcome, Kept, Becomes, SameDelay
<1>29. ASSUME NEW j \in Jobs, DirectCancel(j) PROVE Effects'
  BY <1>29 DEF DirectCancel, DirectCancellable, WriteReceipt, Acquire
<1>30. ASSUME NEW j \in Jobs, Resume(j) PROVE Effects'
  BY <1>30 DEF Resume, Requestable, Refused, Put, Commanded
<1>31. ASSUME NEW j \in Jobs, Retry(j) PROVE Effects'
  BY <1>31 DEF Retry, Requestable, Refused, Put, Commanded
<1>32. ASSUME NEW j \in Jobs, Replay(j) PROVE Effects'
  BY <1>32 DEF Replay, Intent, Acquire
<1>33. ASSUME NEW j \in Jobs, NEW c \in Jobs, Restart(j, c) PROVE Effects'
  BY <1>33 DEF Restart, Requestable, Refused, Reserved, Put, Acquire, Commanded
<1>34. ASSUME NEW j \in Jobs, NEW e \in BOOLEAN, Admit(j, e) PROVE Effects'
  <2>1. AdmitOutcome(j)
    BY <1>34, AdmitEffect DEF Holder
  <2> HIDE DEF TypeOK, JobRecords
  <2>2. QED
    BY <1>s, <2>1 DEF AdmitOutcome, Newborn, Becomes, Reserved
<1>35. ASSUME NEW j \in Jobs, Expire(j) PROVE Effects'
  BY <1>35 DEF Expire, Put
<1>36. ASSUME NEW j \in Jobs, Elapse(j) PROVE Effects'
  BY <1>36 DEF Elapse, Put
<1>37. CASE SetClockBack
  BY <1>37, ClockKeeps
<1>38. CASE WorkerDies
  BY <1>38 DEF WorkerDies
<1>39. CASE RequestDies
  BY <1>39 DEF RequestDies
<1>40. CASE TornReceipt
  BY <1>40 DEF TornReceipt, LockTears, WorkTears, DirectCancellable, Abort, Recovering, Owned
<1>41. CASE UNCHANGED vars
  BY <1>41 DEF vars
<1> HIDE <1>t DEF TypeOK, JobRecords, Effects, Holder, RecordsValid, ValidRecord, Uncertain
<1>42. QED
  BY <1>1, <1>2, <1>3, <1>4, <1>5, <1>6, <1>7, <1>8, <1>9, <1>10, <1>11, <1>12, <1>13, <1>14,
     <1>15, <1>16, <1>17, <1>18, <1>19, <1>20, <1>21, <1>22, <1>23, <1>24, <1>25, <1>26, <1>27,
     <1>28, <1>29, <1>30, <1>31, <1>32, <1>33, <1>34, <1>35, <1>36, <1>37, <1>38, <1>39, <1>40,
     <1>41 DEF Next, RecoverStep, LockStep, WorkStep, Request, Claims, Time, Failure

-----------------------------------------------------------------------------
(* What no step does.                                                       *)

AttemptKept ==
  \A i \in Jobs : job'[i].attempt = job[i].attempt \/ job[i].status = "missing" \/ Claim(i)
ReceiptKept == \A i \in Jobs : rcpt'[i] = rcpt[i] \/ rcpt[i] = NoReceipt
RequestKept ==
  \A i \in Jobs : job[i].pending # "none" =>
    job'[i].status \notin {"queued", "retry_wait", "running"}

\* Every step starts attempts by claims alone.
LEMMA AttemptStep ==
  ASSUME IInv, [Next]_vars PROVE AttemptKept
<1>t. TypeOK /\ Holder
  BY DEF IInv
<1> USE <1>t DEF TypeOK, JobRecords, AttemptKept, Holder, Active, Stopped, Terminal, Working,
        ErrorClasses, worker, lock, history, env
<1>s. /\ todo \subseteq Jobs /\ published \subseteq Jobs /\ backoff \subseteq Jobs /\ NoJob \notin Jobs
      /\ MaxAttempts \in Nat /\ \A j \in Jobs : job[j].attempt \in Nat
  BY ConstantsAssumption
<1>1. CASE StartRecovery
  BY <1>1 DEF StartRecovery, Acquire
<1>2. ASSUME NEW j \in Jobs, RecoverTerminal(j) PROVE AttemptKept
  BY <1>2 DEF RecoverTerminal, Recovering
<1>3. ASSUME NEW j \in Jobs, RecoverFromReceipt(j) PROVE AttemptKept
  <2>1. FromReceiptOutcome(j)
    BY <1>3, FromReceiptEffect DEF Holder
  <2> HIDE DEF TypeOK, JobRecords
  <2>2. QED
    BY <1>s, <2>1 DEF FromReceiptOutcome, Kept, Becomes
<1>4. ASSUME NEW j \in Jobs, RecoveryRaises(j) PROVE AttemptKept
  BY <1>4 DEF RecoveryRaises, HasReceipt, Abort, Recovering
<1>5. ASSUME NEW j \in Jobs, RecoverIntent(j) PROVE AttemptKept
  BY <1>5 DEF RecoverIntent, HasReceipt, Intent, Recovering
<1>6. ASSUME NEW j \in Jobs, RecoverRetry(j) PROVE AttemptKept
  BY <1>6 DEF RecoverRetry, Plain, HasReceipt, Intent, Ready, Put, Recovering
<1>7. ASSUME NEW j \in Jobs, RecoverLease(j) PROVE AttemptKept
  <2>1. LeaseOutcome(j)
    BY <1>7, LeaseEffect DEF Holder
  <2> HIDE DEF TypeOK, JobRecords
  <2>2. QED
    BY <1>s, <2>1 DEF LeaseOutcome, Kept, Becomes, SameDelay, SameIntent, Wrote
<1>8. ASSUME NEW j \in Jobs, RecoverSkip(j) PROVE AttemptKept
  BY <1>8 DEF RecoverSkip, Plain, HasReceipt, Intent, Recovering
<1>9. CASE Idle
  BY <1>9 DEF Idle
<1>10. ASSUME NEW j \in Jobs, Claim(j) PROVE AttemptKept
  BY <1>10 DEF Claim, Claimable, Put
<1>11. CASE CheckpointPrepared
  BY <1>11 DEF CheckpointPrepared, Put, At, Owned, Checkpoint
<1>12. CASE CheckpointExecuting
  BY <1>12 DEF CheckpointExecuting, Put, At, Owned, Checkpoint
<1>13. CASE CheckpointCommitted
  BY <1>13 DEF CheckpointCommitted, Put, At, Owned, Checkpoint
<1>14. CASE Stop
  <2>1. StopOutcome
    BY <1>14, StopEffect DEF Holder
  <2> HIDE DEF TypeOK, JobRecords
  <2>2. QED
    BY <1>s, <2>1 DEF StopOutcome, Kept, Becomes, SameDelay, SameIntent, Wrote
<1>15. CASE Barrier
  BY <1>15 DEF Barrier, Put, At, Owned
<1>16. CASE Publish
  BY <1>16 DEF Publish
<1>17. CASE Reuse
  BY <1>17 DEF Reuse
<1>18. CASE Succeed
  BY <1>18 DEF Succeed, WriteReceipt, Acquire, At, Owned
<1>19. CASE LoseLease
  BY <1>19 DEF LoseLease, Owned
<1>20. ASSUME NEW e \in ErrorClasses, ExecuteFails(e) PROVE AttemptKept
  BY <1>20 DEF ExecuteFails
<1>21. ASSUME NEW e \in ErrorClasses, Fail(e) PROVE AttemptKept
  <2>1. FailOutcome(e)
    BY <1>21, FailEffect DEF Holder
  <2> HIDE DEF TypeOK, JobRecords
  <2>2. QED
    BY <1>s, <2>1 DEF FailOutcome, Kept, Becomes, SameIntent, Wrote
<1>22. CASE Heartbeat
  BY <1>22 DEF Heartbeat, Put, Owned
<1>23. CASE Busy
  BY <1>23 DEF Busy
<1>24. CASE ReceiptStep
  BY <1>24 DEF ReceiptStep, Cancelled, NoReceipt, WriteReceipt, Abort
<1>25. CASE JobStep
  <2>1. JobStepOutcome
    BY <1>25, JobStepEffect DEF Holder
  <2> HIDE DEF TypeOK, JobRecords
  <2>2. QED
    BY <1>s, <2>1 DEF JobStepOutcome, Kept, Becomes, Release
<1>26. CASE ChildStep
  <2>1. ChildOutcome
    BY <1>26, ChildEffect DEF Holder
  <2> HIDE DEF TypeOK, JobRecords
  <2>2. QED
    BY <1>s, <2>1 DEF ChildOutcome, Newborn, Becomes, Release, Abort
<1>27. ASSUME NEW j \in Jobs, Pause(j) PROVE AttemptKept
  <2>1. PauseOutcome(j)
    BY <1>27, PauseEffect DEF Holder
  <2> HIDE DEF TypeOK, JobRecords
  <2>2. QED
    BY <1>s, <2>1 DEF PauseOutcome, Kept, Becomes, SameDelay, SameIntent
<1>28. ASSUME NEW j \in Jobs, Cancel(j) PROVE AttemptKept
  <2>1. CancelOutcome(j)
    BY <1>28, CancelEffect DEF Holder
  <2> HIDE DEF TypeOK, JobRecords
  <2>2. QED
    BY <1>s, <2>1 DEF CancelOutcome, Kept, Becomes, SameDelay
<1>29. ASSUME NEW j \in Jobs, DirectCancel(j) PROVE AttemptKept
  BY <1>29 DEF DirectCancel, DirectCancellable, WriteReceipt, Acquire
<1>30. ASSUME NEW j \in Jobs, Resume(j) PROVE AttemptKept
  BY <1>30 DEF Resume, Requestable, Refused, Put, Commanded
<1>31. ASSUME NEW j \in Jobs, Retry(j) PROVE AttemptKept
  BY <1>31 DEF Retry, Requestable, Refused, Put, Commanded
<1>32. ASSUME NEW j \in Jobs, Replay(j) PROVE AttemptKept
  BY <1>32 DEF Replay, Intent, Acquire
<1>33. ASSUME NEW j \in Jobs, NEW c \in Jobs, Restart(j, c) PROVE AttemptKept
  BY <1>33 DEF Restart, Requestable, Refused, Reserved, Put, Acquire, Commanded
<1>34. ASSUME NEW j \in Jobs, NEW e \in BOOLEAN, Admit(j, e) PROVE AttemptKept
  <2>1. AdmitOutcome(j)
    BY <1>34, AdmitEffect DEF Holder
  <2> HIDE DEF TypeOK, JobRecords
  <2>2. QED
    BY <1>s, <2>1 DEF AdmitOutcome, Newborn, Becomes, Reserved
<1>35. ASSUME NEW j \in Jobs, Expire(j) PROVE AttemptKept
  BY <1>35 DEF Expire, Put
<1>36. ASSUME NEW j \in Jobs, Elapse(j) PROVE AttemptKept
  BY <1>36 DEF Elapse, Put
<1>37. CASE SetClockBack
  BY <1>37, ClockKeeps
<1>38. CASE WorkerDies
  BY <1>38 DEF WorkerDies
<1>39. CASE RequestDies
  BY <1>39 DEF RequestDies
<1>40. CASE TornReceipt
  BY <1>40 DEF TornReceipt, LockTears, WorkTears, DirectCancellable, Abort, Recovering, Owned
<1>41. CASE UNCHANGED vars
  BY <1>41 DEF vars
<1> HIDE <1>t DEF TypeOK, JobRecords, AttemptKept, Holder
<1>42. QED
  BY <1>1, <1>2, <1>3, <1>4, <1>5, <1>6, <1>7, <1>8, <1>9, <1>10, <1>11, <1>12, <1>13, <1>14,
     <1>15, <1>16, <1>17, <1>18, <1>19, <1>20, <1>21, <1>22, <1>23, <1>24, <1>25, <1>26, <1>27,
     <1>28, <1>29, <1>30, <1>31, <1>32, <1>33, <1>34, <1>35, <1>36, <1>37, <1>38, <1>39, <1>40,
     <1>41 DEF Next, RecoverStep, LockStep, WorkStep, Request, Claims, Time, Failure

\* Every step leaves the receipts that exist alone.
LEMMA ReceiptsStep ==
  ASSUME IInv, [Next]_vars PROVE ReceiptKept
<1>t. TypeOK /\ Holder /\ Clean
  BY DEF IInv
<1> USE <1>t DEF TypeOK, JobRecords, Receipts, ReceiptKept, Holder, Clean, NoReceipt, Active,
        Stopped, Terminal, Working, ErrorClasses, worker, lock, history, env
<1>s. /\ todo \subseteq Jobs /\ published \subseteq Jobs /\ backoff \subseteq Jobs /\ NoJob \notin Jobs
      /\ MaxAttempts \in Nat /\ \A j \in Jobs : job[j].attempt \in Nat
  BY ConstantsAssumption
<1>1. CASE StartRecovery
  BY <1>1 DEF StartRecovery, Acquire
<1>2. ASSUME NEW j \in Jobs, RecoverTerminal(j) PROVE ReceiptKept
  BY <1>2 DEF RecoverTerminal, Recovering
<1>3. ASSUME NEW j \in Jobs, RecoverFromReceipt(j) PROVE ReceiptKept
  <2>1. FromReceiptOutcome(j)
    BY <1>3, FromReceiptEffect DEF Holder
  <2> HIDE DEF TypeOK, JobRecords, Receipts
  <2>2. QED
    BY <1>s, <2>1 DEF FromReceiptOutcome, Kept, Becomes
<1>4. ASSUME NEW j \in Jobs, RecoveryRaises(j) PROVE ReceiptKept
  BY <1>4 DEF RecoveryRaises, HasReceipt, Abort, Recovering
<1>5. ASSUME NEW j \in Jobs, RecoverIntent(j) PROVE ReceiptKept
  BY <1>5 DEF RecoverIntent, HasReceipt, Intent, Recovering
<1>6. ASSUME NEW j \in Jobs, RecoverRetry(j) PROVE ReceiptKept
  BY <1>6 DEF RecoverRetry, Plain, HasReceipt, Intent, Ready, Put, Recovering
<1>7. ASSUME NEW j \in Jobs, RecoverLease(j) PROVE ReceiptKept
  <2>1. LeaseOutcome(j)
    BY <1>7, LeaseEffect DEF Holder
  <2> HIDE DEF TypeOK, JobRecords, Receipts
  <2>2. QED
    BY <1>s, <2>1 DEF LeaseOutcome, Kept, Becomes, SameDelay, SameIntent, Wrote
<1>8. ASSUME NEW j \in Jobs, RecoverSkip(j) PROVE ReceiptKept
  BY <1>8 DEF RecoverSkip, Plain, HasReceipt, Intent, Recovering
<1>9. CASE Idle
  BY <1>9 DEF Idle
<1>10. ASSUME NEW j \in Jobs, Claim(j) PROVE ReceiptKept
  BY <1>10 DEF Claim, Claimable, Put
<1>11. CASE CheckpointPrepared
  BY <1>11 DEF CheckpointPrepared, Put, At, Owned, Checkpoint
<1>12. CASE CheckpointExecuting
  BY <1>12 DEF CheckpointExecuting, Put, At, Owned, Checkpoint
<1>13. CASE CheckpointCommitted
  BY <1>13 DEF CheckpointCommitted, Put, At, Owned, Checkpoint
<1>14. CASE Stop
  <2>1. StopOutcome
    BY <1>14, StopEffect DEF Holder
  <2> HIDE DEF TypeOK, JobRecords, Receipts
  <2>2. QED
    BY <1>s, <2>1 DEF StopOutcome, Kept, Becomes, SameDelay, SameIntent, Wrote
<1>15. CASE Barrier
  BY <1>15 DEF Barrier, Put, At, Owned
<1>16. CASE Publish
  BY <1>16 DEF Publish
<1>17. CASE Reuse
  BY <1>17 DEF Reuse
<1>18. CASE Succeed
  BY <1>18 DEF Succeed, WriteReceipt, Acquire, At, Owned
<1>19. CASE LoseLease
  BY <1>19 DEF LoseLease, Owned
<1>20. ASSUME NEW e \in ErrorClasses, ExecuteFails(e) PROVE ReceiptKept
  BY <1>20 DEF ExecuteFails
<1>21. ASSUME NEW e \in ErrorClasses, Fail(e) PROVE ReceiptKept
  <2>1. FailOutcome(e)
    BY <1>21, FailEffect DEF Holder
  <2> HIDE DEF TypeOK, JobRecords, Receipts
  <2>2. QED
    BY <1>s, <2>1 DEF FailOutcome, Kept, Becomes, SameIntent, Wrote
<1>22. CASE Heartbeat
  BY <1>22 DEF Heartbeat, Put, Owned
<1>23. CASE Busy
  BY <1>23 DEF Busy
<1>24. CASE ReceiptStep
  BY <1>24 DEF ReceiptStep, Cancelled, NoReceipt, WriteReceipt, Abort
<1>25. CASE JobStep
  <2>1. JobStepOutcome
    BY <1>25, JobStepEffect DEF Holder
  <2> HIDE DEF TypeOK, JobRecords, Receipts
  <2>2. QED
    BY <1>s, <2>1 DEF JobStepOutcome, Kept, Becomes, Release
<1>26. CASE ChildStep
  <2>1. ChildOutcome
    BY <1>26, ChildEffect DEF Holder
  <2> HIDE DEF TypeOK, JobRecords, Receipts
  <2>2. QED
    BY <1>s, <2>1 DEF ChildOutcome, Newborn, Becomes, Release, Abort
<1>27. ASSUME NEW j \in Jobs, Pause(j) PROVE ReceiptKept
  <2>1. PauseOutcome(j)
    BY <1>27, PauseEffect DEF Holder
  <2> HIDE DEF TypeOK, JobRecords, Receipts
  <2>2. QED
    BY <1>s, <2>1 DEF PauseOutcome, Kept, Becomes, SameDelay, SameIntent
<1>28. ASSUME NEW j \in Jobs, Cancel(j) PROVE ReceiptKept
  <2>1. CancelOutcome(j)
    BY <1>28, CancelEffect DEF Holder
  <2> HIDE DEF TypeOK, JobRecords, Receipts
  <2>2. QED
    BY <1>s, <2>1 DEF CancelOutcome, Kept, Becomes, SameDelay
<1>29. ASSUME NEW j \in Jobs, DirectCancel(j) PROVE ReceiptKept
  BY <1>29 DEF DirectCancel, DirectCancellable, WriteReceipt, Acquire
<1>30. ASSUME NEW j \in Jobs, Resume(j) PROVE ReceiptKept
  BY <1>30 DEF Resume, Requestable, Refused, Put, Commanded
<1>31. ASSUME NEW j \in Jobs, Retry(j) PROVE ReceiptKept
  BY <1>31 DEF Retry, Requestable, Refused, Put, Commanded
<1>32. ASSUME NEW j \in Jobs, Replay(j) PROVE ReceiptKept
  BY <1>32 DEF Replay, Intent, Acquire
<1>33. ASSUME NEW j \in Jobs, NEW c \in Jobs, Restart(j, c) PROVE ReceiptKept
  BY <1>33 DEF Restart, Requestable, Refused, Reserved, Put, Acquire, Commanded
<1>34. ASSUME NEW j \in Jobs, NEW e \in BOOLEAN, Admit(j, e) PROVE ReceiptKept
  <2>1. AdmitOutcome(j)
    BY <1>34, AdmitEffect DEF Holder
  <2> HIDE DEF TypeOK, JobRecords, Receipts
  <2>2. QED
    BY <1>s, <2>1 DEF AdmitOutcome, Newborn, Becomes, Reserved
<1>35. ASSUME NEW j \in Jobs, Expire(j) PROVE ReceiptKept
  BY <1>35 DEF Expire, Put
<1>36. ASSUME NEW j \in Jobs, Elapse(j) PROVE ReceiptKept
  BY <1>36 DEF Elapse, Put
<1>37. CASE SetClockBack
  BY <1>37, ClockKeeps
<1>38. CASE WorkerDies
  BY <1>38 DEF WorkerDies
<1>39. CASE RequestDies
  BY <1>39 DEF RequestDies
<1>40. CASE TornReceipt
  BY <1>40 DEF TornReceipt, LockTears, WorkTears, DirectCancellable, Abort, Recovering, Owned
<1>41. CASE UNCHANGED vars
  BY <1>41 DEF vars
<1> HIDE <1>t DEF TypeOK, JobRecords, Receipts, ReceiptKept, Holder, Clean, NoReceipt
<1>42. QED
  BY <1>1, <1>2, <1>3, <1>4, <1>5, <1>6, <1>7, <1>8, <1>9, <1>10, <1>11, <1>12, <1>13, <1>14,
     <1>15, <1>16, <1>17, <1>18, <1>19, <1>20, <1>21, <1>22, <1>23, <1>24, <1>25, <1>26, <1>27,
     <1>28, <1>29, <1>30, <1>31, <1>32, <1>33, <1>34, <1>35, <1>36, <1>37, <1>38, <1>39, <1>40,
     <1>41 DEF Next, RecoverStep, LockStep, WorkStep, Request, Claims, Time, Failure

\* Every step carries a pending request on.
LEMMA RequestStep ==
  ASSUME IInv, [Next]_vars PROVE RequestKept
<1>t. TypeOK /\ Holder /\ RecordsValid /\ Clean
  BY DEF IInv
<1> USE <1>t DEF TypeOK, JobRecords, Receipts, RequestKept, Holder, RecordsValid, ValidRecord,
        Clean, NoReceipt, Active, Stopped, Terminal, Working, ErrorClasses, worker, lock, history,
        env
<1>u. \A j \in Jobs : job[j].pending \in {"none", "pause", "cancel"}
  BY DEF TypeOK
<1>1. CASE StartRecovery
  BY <1>1 DEF StartRecovery, Acquire
<1>2. ASSUME NEW j \in Jobs, RecoverTerminal(j) PROVE RequestKept
  BY <1>2 DEF RecoverTerminal, Recovering
<1>3. ASSUME NEW j \in Jobs, RecoverFromReceipt(j) PROVE RequestKept
  <2>1. FromReceiptOutcome(j)
    BY <1>3, FromReceiptEffect DEF Holder
  <2> HIDE DEF TypeOK, JobRecords, Receipts
  <2>2. QED
    BY <1>u, <2>1 DEF FromReceiptOutcome, Kept, Becomes
<1>4. ASSUME NEW j \in Jobs, RecoveryRaises(j) PROVE RequestKept
  BY <1>4 DEF RecoveryRaises, HasReceipt, Abort, Recovering
<1>5. ASSUME NEW j \in Jobs, RecoverIntent(j) PROVE RequestKept
  BY <1>5 DEF RecoverIntent, HasReceipt, Intent, Recovering
<1>6. ASSUME NEW j \in Jobs, RecoverRetry(j) PROVE RequestKept
  BY <1>6 DEF RecoverRetry, Plain, HasReceipt, Intent, Ready, Put, Recovering
<1>7. ASSUME NEW j \in Jobs, RecoverLease(j) PROVE RequestKept
  <2>1. LeaseOutcome(j)
    BY <1>7, LeaseEffect DEF Holder
  <2> HIDE DEF TypeOK, JobRecords, Receipts
  <2>2. QED
    BY <1>u, <2>1 DEF LeaseOutcome, Kept, Becomes, SameDelay, SameIntent, Wrote
<1>8. ASSUME NEW j \in Jobs, RecoverSkip(j) PROVE RequestKept
  BY <1>8 DEF RecoverSkip, Plain, HasReceipt, Intent, Recovering
<1>9. CASE Idle
  BY <1>9 DEF Idle
<1>10. ASSUME NEW j \in Jobs, Claim(j) PROVE RequestKept
  BY <1>10 DEF Claim, Claimable, Put
<1>11. CASE CheckpointPrepared
  BY <1>11 DEF CheckpointPrepared, Put, At, Owned, Checkpoint
<1>12. CASE CheckpointExecuting
  BY <1>12 DEF CheckpointExecuting, Put, At, Owned, Checkpoint
<1>13. CASE CheckpointCommitted
  BY <1>13 DEF CheckpointCommitted, Put, At, Owned, Checkpoint
<1>14. CASE Stop
  <2>1. StopOutcome
    BY <1>14, StopEffect DEF Holder
  <2> HIDE DEF TypeOK, JobRecords, Receipts
  <2>2. QED
    BY <1>u, <2>1 DEF StopOutcome, Kept, Becomes, SameDelay, SameIntent, Wrote
<1>15. CASE Barrier
  BY <1>15 DEF Barrier, Put, At, Owned
<1>16. CASE Publish
  BY <1>16 DEF Publish
<1>17. CASE Reuse
  BY <1>17 DEF Reuse
<1>18. CASE Succeed
  BY <1>18 DEF Succeed, WriteReceipt, Acquire, At, Owned
<1>19. CASE LoseLease
  BY <1>19 DEF LoseLease, Owned
<1>20. ASSUME NEW e \in ErrorClasses, ExecuteFails(e) PROVE RequestKept
  BY <1>20 DEF ExecuteFails
<1>21. ASSUME NEW e \in ErrorClasses, Fail(e) PROVE RequestKept
  <2>1. FailOutcome(e)
    BY <1>21, FailEffect DEF Holder
  <2> HIDE DEF TypeOK, JobRecords, Receipts
  <2>2. QED
    BY <1>u, <2>1 DEF FailOutcome, Kept, Becomes, SameIntent, Wrote
<1>22. CASE Heartbeat
  BY <1>22 DEF Heartbeat, Put, Owned
<1>23. CASE Busy
  BY <1>23 DEF Busy
<1>24. CASE ReceiptStep
  BY <1>24 DEF ReceiptStep, Cancelled, NoReceipt, WriteReceipt, Abort
<1>25. CASE JobStep
  <2>1. JobStepOutcome
    BY <1>25, JobStepEffect DEF Holder
  <2> HIDE DEF TypeOK, JobRecords, Receipts
  <2>2. QED
    BY <1>u, <2>1 DEF JobStepOutcome, Kept, Becomes, Release
<1>26. CASE ChildStep
  <2>1. ChildOutcome
    BY <1>26, ChildEffect DEF Holder
  <2> HIDE DEF TypeOK, JobRecords, Receipts
  <2>2. QED
    BY <1>u, <2>1 DEF ChildOutcome, Newborn, Becomes, Release, Abort
<1>27. ASSUME NEW j \in Jobs, Pause(j) PROVE RequestKept
  <2>1. PauseOutcome(j)
    BY <1>27, PauseEffect DEF Holder
  <2> HIDE DEF TypeOK, JobRecords, Receipts
  <2>2. QED
    BY <1>u, <2>1 DEF PauseOutcome, Kept, Becomes, SameDelay, SameIntent
<1>28. ASSUME NEW j \in Jobs, Cancel(j) PROVE RequestKept
  <2>1. CancelOutcome(j)
    BY <1>28, CancelEffect DEF Holder
  <2> HIDE DEF TypeOK, JobRecords, Receipts
  <2>2. QED
    BY <1>u, <2>1 DEF CancelOutcome, Kept, Becomes, SameDelay
<1>29. ASSUME NEW j \in Jobs, DirectCancel(j) PROVE RequestKept
  BY <1>29 DEF DirectCancel, DirectCancellable, WriteReceipt, Acquire
<1>30. ASSUME NEW j \in Jobs, Resume(j) PROVE RequestKept
  BY <1>30 DEF Resume, Requestable, Refused, Put, Commanded
<1>31. ASSUME NEW j \in Jobs, Retry(j) PROVE RequestKept
  BY <1>31 DEF Retry, Requestable, Refused, Put, Commanded
<1>32. ASSUME NEW j \in Jobs, Replay(j) PROVE RequestKept
  BY <1>32 DEF Replay, Intent, Acquire
<1>33. ASSUME NEW j \in Jobs, NEW c \in Jobs, Restart(j, c) PROVE RequestKept
  BY <1>33 DEF Restart, Requestable, Refused, Reserved, Put, Acquire, Commanded
<1>34. ASSUME NEW j \in Jobs, NEW e \in BOOLEAN, Admit(j, e) PROVE RequestKept
  <2>1. AdmitOutcome(j)
    BY <1>34, AdmitEffect DEF Holder
  <2> HIDE DEF TypeOK, JobRecords, Receipts
  <2>2. QED
    BY <1>u, <2>1 DEF AdmitOutcome, Newborn, Becomes, Reserved
<1>35. ASSUME NEW j \in Jobs, Expire(j) PROVE RequestKept
  BY <1>35 DEF Expire, Put
<1>36. ASSUME NEW j \in Jobs, Elapse(j) PROVE RequestKept
  BY <1>36 DEF Elapse, Put
<1>37. CASE SetClockBack
  BY <1>37, ClockKeeps
<1>38. CASE WorkerDies
  BY <1>38 DEF WorkerDies
<1>39. CASE RequestDies
  BY <1>39 DEF RequestDies
<1>40. CASE TornReceipt
  BY <1>40 DEF TornReceipt, LockTears, WorkTears, DirectCancellable, Abort, Recovering, Owned
<1>41. CASE UNCHANGED vars
  BY <1>41 DEF vars
<1> HIDE <1>t DEF TypeOK, JobRecords, Receipts, RequestKept, Holder, RecordsValid, ValidRecord,
        Clean, NoReceipt
<1>42. QED
  BY <1>1, <1>2, <1>3, <1>4, <1>5, <1>6, <1>7, <1>8, <1>9, <1>10, <1>11, <1>12, <1>13, <1>14,
     <1>15, <1>16, <1>17, <1>18, <1>19, <1>20, <1>21, <1>22, <1>23, <1>24, <1>25, <1>26, <1>27,
     <1>28, <1>29, <1>30, <1>31, <1>32, <1>33, <1>34, <1>35, <1>36, <1>37, <1>38, <1>39, <1>40,
     <1>41 DEF Next, RecoverStep, LockStep, WorkStep, Request, Claims, Time, Failure

\* Only Publish puts a result in place.
LEMMA PublicationStep ==
  ASSUME [Next]_vars PROVE published' = published \/ Publish
BY Zenon DEF Next, RecoverStep, LockStep, WorkStep, Request, Claims, Time, Failure, vars, history,
   Checkpoint, StartRecovery, RecoverTerminal, RecoverFromReceipt, RecoveryRaises, RecoverIntent,
   RecoverRetry, RecoverLease, RecoverSkip, Idle, Claim, CheckpointPrepared, CheckpointExecuting,
   CheckpointCommitted, Stop, Barrier, Reuse, Succeed, LoseLease, ExecuteFails, Fail, Heartbeat,
   Busy, ReceiptStep, JobStep, ChildStep, Pause, Cancel, DirectCancel, Resume, Retry, Replay,
   Restart, Admit, Expire, Elapse, SetClockBack, WorkerDies, RequestDies, TornReceipt

-----------------------------------------------------------------------------
(* The theorems.                                                            *)

\* The empty journal satisfies the invariant.
LEMMA InitIInv == Init => IInv
<1> SUFFICES ASSUME Init PROVE IInv
  OBVIOUS
<1> USE DEF Init, Active, Stopped, Terminal, Working, ErrorClasses
<1>1. Missing \in JobRecords /\ NoReceipt \in Receipts
  <2>1. 0 \in 0..MaxAttempts /\ 0 \in 0..MaxCommands
    BY ConstantsAssumption
  <2>2. Fresh \in JobRecords /\ NoReceipt \in Receipts
    BY <2>1 DEF Fresh, NoReceipt, JobRecords, Receipts
  <2>3. QED
    BY <2>2 DEF Missing, JobRecords
<1>2. TypeOK
  BY <1>1 DEF TypeOK
<1>3. /\ Missing.status = "missing" /\ Missing.lease = "none" /\ Missing.pending = "none"
      /\ Missing.retry_not_before = "none" /\ Missing.restart = NoJob /\ Missing.phase = "none"
      /\ ~Missing.completion /\ ~Missing.commit_started
  BY DEF Missing, Fresh
<1>4. RecordsValid /\ QueueClaimable
  BY <1>3 DEF RecordsValid, ValidRecord, QueueClaimable
<1>5. ReceiptDecides /\ Holder /\ Clean
  BY <1>3 DEF ReceiptDecides, HasReceipt, Holder, Clean, NoReceipt
<1>6. Lineage /\ Effects /\ Delays
  BY <1>3 DEF Lineage, Effects, Delays
<1>7. QED
  BY <1>2, <1>4, <1>5, <1>6 DEF IInv

\* Every step keeps the whole invariant.
LEMMA Induction == IInv /\ [Next]_vars => IInv'
BY TypeInductive, RecordsInductive, QueueInductive, ReceiptInductive, HolderInductive,
   CleanInductive, LineageInductive, EffectsInductive, DelaysInductive DEF IInv

\* The invariant holds throughout.
LEMMA Invariant == Spec => []IInv
BY InitIInv, Induction, PTL DEF Spec

\* The journal, the receipts, the worker and the lock keep their types: attempts
\* and command histories never pass the limits of the record format.
THEOREM TypeCorrect == Spec => []TypeOK
<1>1. IInv => TypeOK
  BY DEF IInv
<1>2. QED
  BY <1>1, Invariant, PTL

\* Every record that is written passes validate_job_record: outside Fail and
\* Pause, which raise before their first write, no operation computes one that is
\* refused, and none of several writes stops halfway for it.
THEOREM Validity == Spec => []RecordsValid
<1>1. IInv => RecordsValid
  BY DEF IInv
<1>2. QED
  BY <1>1, Invariant, PTL

\* claim_next never meets a queued job without an attempt left.
THEOREM Claimability == Spec => []QueueClaimable
<1>1. IInv => QueueClaimable
  BY DEF IInv
<1>2. QED
  BY <1>1, Invariant, PTL

\* Terminal jobs have their receipt, and recovery accepts every whole receipt it
\* finds, for any number of crashes and torn receipts.
THEOREM ReceiptsDecide == Spec => []ReceiptDecides
<1>1. IInv => ReceiptDecides
  BY DEF IInv
<1>2. QED
  BY <1>1, Invariant, PTL

\* A restarted child exists only once its parent has ended with a receipt.
THEOREM Succession == Spec => []ChildAfterParent
<1>1. ASSUME IInv PROVE ChildAfterParent
  <2>1. ASSUME NEW p \in Jobs, NEW c \in Jobs, job[p].restart = c, job[c].status # "missing"
        PROVE job[p].status \in Terminal /\ rcpt[p].status = job[p].status
    <3>1. job[p].status \in Terminal
      BY <1>1, <2>1 DEF IInv, Lineage
    <3>2. rcpt[p] = [status |-> job[p].status, attempts |-> job[p].attempt]
      BY <1>1, <3>1 DEF IInv, ReceiptDecides
    <3>3. QED
      BY <3>1, <3>2
  <2>2. QED
    BY <2>1 DEF ChildAfterParent
<1>2. QED
  BY <1>1, Invariant, PTL

\* A receipt is final: it is never rewritten, and its job never runs again.
THEOREM Finality == Spec => ReceiptFinal
<1>1. ASSUME IInv, [Next]_vars
      PROVE \A j \in Jobs : rcpt[j] # NoReceipt =>
              rcpt'[j] = rcpt[j] /\ job'[j].attempt = job[j].attempt
  <2>1. ASSUME NEW j \in Jobs, Claim(j) PROVE rcpt[j] = NoReceipt
    BY <1>1, <2>1 DEF IInv, Clean, Holder, Claim, Claimable, Terminal
  <2>2. ReceiptKept /\ AttemptKept /\ Clean
    BY <1>1, AttemptStep, ReceiptsStep DEF IInv
  <2>3. QED
    BY <2>1, <2>2 DEF ReceiptKept, AttemptKept, Clean
<1>2. QED
  BY <1>1, Invariant, PTL DEF Spec, ReceiptFinal

\* An effect that may be in place is not executed a second time.
THEOREM ExecutedOnce == Spec => CommittedOnce
<1>1. ASSUME IInv, [Next]_vars
      PROVE \A j \in Jobs \ Resumable :
              job[j].phase = "committed" => job'[j].attempt = job[j].attempt
  <2>1. AttemptKept /\ Effects
    BY <1>1, AttemptStep DEF IInv
  <2>2. QED
    BY <2>1 DEF AttemptKept, Effects, Claim, Claimable, Active, Terminal
<1>2. QED
  BY <1>1, Invariant, PTL DEF Spec, CommittedOnce

\* A pending pause or cancellation is never dropped for another run.
THEOREM Honoured == Spec => RequestsHonoured
<1>1. ASSUME IInv, [Next]_vars
      PROVE \A j \in Jobs : job[j].pending # "none" =>
              job'[j].status \notin {"queued", "retry_wait", "running"}
  BY <1>1, RequestStep DEF RequestKept
<1>2. QED
  BY <1>1, Invariant, PTL DEF Spec, RequestsHonoured

\* No result of a cooperative job appears behind an accepted request.
THEOREM RequestWins == Spec => NoPublicationBehindRequest
<1>1. ASSUME IInv, [Next]_vars
      PROVE \A j \in Cooperative : published' # published /\ wj = j => job[j].pending = "none"
  <2>1. published' = published \/ Publish
    BY <1>1, PublicationStep
  <2>2. ASSUME Publish, wj \in Cooperative PROVE job[wj].pending = "none"
    <3>1. wj \in Jobs /\ job[wj].commit_started
      BY <1>1, <2>2, ConstantsAssumption DEF IInv, Effects, Publish
    <3>2. QED
      BY <1>1, <3>1 DEF IInv, RecordsValid, ValidRecord
  <2>3. QED
    BY <2>1, <2>2
<1>2. QED
  BY <1>1, Invariant, PTL DEF Spec, NoPublicationBehindRequest

\* No sequence of pauses, resumes and retries shortens a backoff.  A clock set
\* back behind the record ends one, as _recover_locked decides.
THEOREM Patience == Spec => BackoffKept
<1>1. ASSUME IInv, [Next]_vars
      PROVE \A j \in Jobs : job'[j].attempt # job[j].attempt => j \notin backoff
  <2>1. AttemptKept /\ Delays
    BY <1>1, AttemptStep DEF IInv
  <2>2. QED
    BY <2>1 DEF AttemptKept, Delays, Claim, Claimable, Terminal
<1>2. QED
  BY <1>1, Invariant, PTL DEF Spec, BackoffKept
=============================================================================
