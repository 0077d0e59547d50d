----------------------------- MODULE Scheduler -----------------------------
(***************************************************************************)
(* The durable job journal of core/provelume/scheduler.py and the          *)
(* cooperative controls of scheduler_control.py: one worker that claims,   *)
(* checkpoints and finishes jobs under the Instance lifecycle lock, and    *)
(* control requests that reach the journal while the worker runs.          *)
(*                                                                         *)
(* Every journal operation holds the journal lock, but the operations      *)
(* that end a job are several durable writes: the intent, the immutable    *)
(* receipt, the job, the restarted child.  The lock's continuation lk says *)
(* which write comes next; whoever holds it may die before making it.      *)
(*                                                                         *)
(* Time is abstracted to what the code compares: a lease is live, expired  *)
(* or ahead of a clock that was set back, and a backoff or an eligible_at  *)
(* has passed or not.                                                      *)
(***************************************************************************)
EXTENDS Naturals, FiniteSets

CONSTANTS
  Jobs, NoJob,     \* job identities
  Cooperative,     \* jobs of COOPERATIVE_KINDS
  Resumable,       \* jobs whose kind recovery may resume after any checkpoint
  MaxAttempts,     \* retry["max_attempts"]
  MaxCommands,     \* MAX_CONTROL_COMMANDS
  MaxCrashes, MaxTorn, MaxClockSets    \* bounds of the environment

Active == {"running", "pausing", "cancelling"}
Terminal == {"succeeded", "failed", "manual_intervention", "cancelled"}
Stopped == {"queued", "retry_wait", "paused"}
ErrorClasses == {"transient", "permanent", "manual_intervention", "cancelled"}
Working == {"claimed", "prepared", "executing", "publishing", "done", "committed"}
             \cup ErrorClasses

ASSUME ConstantsAssumption ==
  /\ NoJob \notin Jobs /\ Cooperative \subseteq Jobs /\ Resumable \subseteq Jobs
  /\ MaxAttempts \in Nat \ {0} /\ MaxCommands \in Nat
  /\ MaxCrashes \in Nat /\ MaxTorn \in Nat /\ MaxClockSets \in Nat

VARIABLES
  job,             \* the job records
  rcpt,            \* the receipt files: status and attempts, "none" or "torn"
  wpc, wj,         \* the worker's control point and the job it runs
  lk, lj, who,     \* next write under the journal lock, its job, the holder
  todo,            \* jobs the running recovery has yet to visit
  published,       \* history: jobs whose result is in place
  backoff,         \* history: jobs whose retry delay has not passed
  crashes, torn, clockSets

worker == <<wpc, wj>>
lock == <<lk, lj, who, todo>>
history == <<published, backoff>>
env == <<crashes, torn, clockSets>>
vars == <<job, rcpt, worker, lock, history, env>>

\* A job as _new_job and restart admit it, and the absence of one.
Fresh ==
  [status |-> "queued", attempt |-> 0, phase |-> "none", lease |-> "none",
   retry_not_before |-> "none", eligible |-> TRUE, pending |-> "none",
   commit_started |-> FALSE, completion |-> FALSE, restart |-> NoJob, commands |-> 0]
Missing == [Fresh EXCEPT !.status = "missing"]
NoReceipt == [status |-> "none", attempts |-> 0]

Put(j, r) == job' = [job EXCEPT ![j] = r]
WriteReceipt(j, s) ==
  rcpt' = [rcpt EXCEPT ![j] = [status |-> s, attempts |-> job[j].attempt]]

Init ==
  /\ job = [j \in Jobs |-> Missing] /\ rcpt = [j \in Jobs |-> NoReceipt]
  /\ wpc = "off" /\ wj = NoJob
  /\ lk = "free" /\ lj = NoJob /\ who = "worker" /\ todo = {}
  /\ published = {} /\ backoff = {}
  /\ crashes = 0 /\ torn = 0 /\ clockSets = 0

-----------------------------------------------------------------------------
(* Writes under the journal lock.                                           *)

Acquire(next, j, w) == lk' = next /\ lj' = j /\ who' = w

\* The operation returns: a recovery goes on with its loop, the worker is done
\* with the job it finished.
Release ==
  /\ lk' = IF who = "worker" /\ wpc = "recover" THEN "recover" ELSE "free"
  /\ wpc' = IF who = "worker" /\ wpc # "recover" THEN "off" ELSE wpc

\* The operation raises and leaves what it has written.
Abort ==
  /\ lk' = "free" /\ todo' = {}
  /\ wpc' = IF who = "worker" THEN "off" ELSE wpc

Finished(j) ==
  [job[j] EXCEPT !.status = rcpt[j].status, !.lease = "none", !.pending = "none",
                 !.completion = FALSE, !.retry_not_before = "none"]

\* _finish_locked for a cancellation whose intent is already in the job: an
\* equal receipt of an interrupted run is kept, a different one is an error.
Cancelled(j) == [status |-> "cancelled", attempts |-> job[j].attempt]
ReceiptStep ==
  /\ lk = "receipt"
  /\ \/ /\ rcpt[lj] \in {NoReceipt, Cancelled(lj)}
        /\ WriteReceipt(lj, "cancelled") /\ lk' = "job"
        /\ UNCHANGED <<worker, todo>>
     \/ /\ rcpt[lj] \notin {NoReceipt, Cancelled(lj)}
        /\ Abort /\ UNCHANGED <<rcpt, wj>>
  /\ UNCHANGED <<job, lj, who, history, env>>

JobStep_KeepLease ==
  /\ lk \in {"job", "direct"}
  /\ Put(lj, [job[lj] EXCEPT !.status = rcpt[lj].status])
  /\ Release
  /\ UNCHANGED <<rcpt, wj, lj, who, todo, history, env>>

JobStep ==
  /\ lk \in {"job", "direct"}
  /\ Put(lj, Finished(lj))
  /\ IF lk = "job" /\ job[lj].restart # NoJob THEN lk' = "child" /\ UNCHANGED wpc ELSE Release
  /\ UNCHANGED <<rcpt, wj, lj, who, todo, history, env>>

\* The end of finish_restart: the child is created once.
ChildStep ==
  LET c == job[lj].restart IN
  /\ lk = "child"
  /\ IF job[lj].status \in Terminal /\ rcpt[lj].status = job[lj].status
     THEN /\ IF job[c].status = "missing" THEN Put(c, Fresh) ELSE UNCHANGED job
          /\ Release /\ UNCHANGED todo
     ELSE Abort /\ UNCHANGED job
  /\ UNCHANGED <<rcpt, wj, lj, who, history, env>>

-----------------------------------------------------------------------------
(* Recovery: _recover_locked, first in every claim, under both locks.       *)

Recovering(j) == lk = "recover" /\ j \in todo

StartRecovery ==
  /\ wpc = "off" /\ lk = "free"
  /\ wpc' = "recover" /\ wj' = NoJob /\ Acquire("recover", NoJob, "worker")
  /\ todo' = {j \in Jobs : job[j].status # "missing"}
  /\ UNCHANGED <<job, rcpt, history, env>>

RecoverTerminal_Skip(j) ==
  /\ Recovering(j) /\ job[j].status \in Terminal
  /\ todo' = todo \ {j}
  /\ UNCHANGED <<job, rcpt, worker, lk, lj, who, history, env>>

\* A terminal job: only a restart intent is still to be completed.
RecoverTerminal(j) ==
  /\ Recovering(j) /\ job[j].status \in Terminal
  /\ todo' = todo \ {j}
  /\ IF job[j].restart = NoJob THEN UNCHANGED <<lk, lj>> ELSE lk' = "child" /\ lj' = j
  /\ UNCHANGED <<job, rcpt, worker, who, history, env>>

HasReceipt_Ignored(j) == FALSE
HasReceipt(j) == job[j].status \notin Terminal /\ rcpt[j].status # "none"
Matches(j) == rcpt[j].status # "torn" /\ rcpt[j].attempts = job[j].attempt

\* The receipt is immutable evidence: it decides the job.
RecoverFromReceipt(j) ==
  /\ Recovering(j) /\ HasReceipt(j) /\ Matches(j)
  /\ todo' = todo \ {j}
  /\ Put(j, Finished(j))
  /\ IF job[j].restart = NoJob THEN UNCHANGED <<lk, lj>> ELSE lk' = "child" /\ lj' = j
  /\ UNCHANGED <<rcpt, worker, who, history, env>>

\* An unreadable or foreign receipt stops the whole recovery.
RecoveryRaises(j) ==
  /\ Recovering(j) /\ HasReceipt(j) /\ ~Matches(j)
  /\ Abort
  /\ UNCHANGED <<job, rcpt, wj, lj, who, history, env>>

Intent_RestartOnly(j) == job[j].restart # NoJob
Intent(j) == job[j].completion \/ job[j].restart # NoJob

\* An interrupted cancel or restart continues with the receipt.
RecoverIntent(j) ==
  /\ Recovering(j) /\ job[j].status \notin Terminal /\ ~HasReceipt(j) /\ Intent(j)
  /\ todo' = todo \ {j}
  /\ lk' = "receipt" /\ lj' = j
  /\ UNCHANGED <<job, rcpt, worker, who, history, env>>

Plain(j) == job[j].status \notin Terminal /\ ~HasReceipt(j) /\ ~Intent(j)
Ready(j) == job[j].status = "retry_wait" /\ job[j].retry_not_before \in {"due", "reversed"}
Lapsed_RunningOnly(j) == job[j].status = "running" /\ job[j].lease \in {"expired", "ahead"}
Lapsed(j) == job[j].status \in Active /\ job[j].lease \in {"expired", "ahead"}

RecoverRetry(j) ==
  /\ Recovering(j) /\ Plain(j) /\ Ready(j)
  /\ todo' = todo \ {j}
  /\ Put(j, [job[j] EXCEPT !.status = "queued", !.retry_not_before = "none"])
  /\ UNCHANGED <<rcpt, worker, lk, lj, who, history, env>>

Paused(j) ==
  [job[j] EXCEPT !.status = "paused", !.lease = "none", !.pending = "none"]

Exhausted_OffByOne(j) == job[j].attempt > MaxAttempts
Exhausted(j) == job[j].attempt >= MaxAttempts

Uncertain_Never(j) == FALSE

\* A committed checkpoint without a receipt proves nothing about the effect
\* of a kind that cannot be resumed.
Uncertain(j) == j \notin Resumable /\ job[j].phase = "committed"

GivesUp(j) == job[j].pending = "none" /\ (Uncertain(j) \/ Exhausted(j))

RecoverLease_Requeue(j) ==
  /\ Recovering(j) /\ Plain(j) /\ Lapsed(j)
  /\ todo' = todo \ {j}
  /\ \/ /\ Uncertain(j) \/ Exhausted(j)
        /\ WriteReceipt(j, "manual_intervention") /\ lk' = "job" /\ lj' = j
        /\ UNCHANGED job
     \/ /\ ~Uncertain(j) /\ ~Exhausted(j)
        /\ Put(j, [job[j] EXCEPT !.status = "queued", !.lease = "none", !.pending = "none"])
        /\ UNCHANGED <<rcpt, lk, lj>>
  /\ UNCHANGED <<worker, who, history, env>>

\* A lapsed lease: a pending request is honoured, an uncertain or exhausted
\* job is given up, any other is queued again.
RecoverLease(j) ==
  /\ Recovering(j) /\ Plain(j) /\ Lapsed(j)
  /\ todo' = todo \ {j}
  /\ \/ /\ job[j].pending = "pause"
        /\ Put(j, Paused(j)) /\ UNCHANGED <<rcpt, lk, lj>>
     \/ /\ job[j].pending = "cancel"
        /\ WriteReceipt(j, "cancelled") /\ lk' = "job" /\ lj' = j /\ UNCHANGED job
     \/ /\ GivesUp(j)
        /\ WriteReceipt(j, "manual_intervention") /\ lk' = "job" /\ lj' = j /\ UNCHANGED job
     \/ /\ job[j].pending = "none" /\ ~GivesUp(j)
        /\ Put(j, [job[j] EXCEPT !.status = "queued", !.lease = "none"])
        /\ UNCHANGED <<rcpt, lk, lj>>
  /\ UNCHANGED <<worker, who, history, env>>

RecoverSkip(j) ==
  /\ Recovering(j) /\ Plain(j) /\ ~Ready(j) /\ ~Lapsed(j)
  /\ todo' = todo \ {j}
  /\ UNCHANGED <<job, rcpt, worker, lk, lj, who, history, env>>

-----------------------------------------------------------------------------
(* The worker: claim_next and _run_one_locked.                              *)

\* claim_next returns None, or the caller only wanted the recovery.
Idle ==
  /\ lk = "recover" /\ todo = {}
  /\ wpc' = "off" /\ lk' = "free"
  /\ UNCHANGED <<job, rcpt, wj, lj, who, todo, history, env>>

Claimable(j) ==
  /\ job[j].status = "queued" /\ job[j].eligible /\ job[j].attempt < MaxAttempts
  /\ \A p \in Jobs : job[p].restart = j => job[p].status \in Terminal

Claim(j) ==
  /\ lk = "recover" /\ todo = {} /\ Claimable(j)
  /\ Put(j, [job[j] EXCEPT !.status = "running", !.attempt = @ + 1, !.lease = "live"])
  /\ wpc' = "claimed" /\ wj' = j /\ lk' = "free"
  /\ UNCHANGED <<rcpt, lj, who, todo, history, env>>

\* _owned: only the lifecycle holder claims, so a job that still has the lease
\* the worker took has the worker's token.
Owned == job[wj].status \in Active /\ job[wj].lease \in {"live", "ahead"}
At(point) == wpc = point /\ lk = "free" /\ Owned

Checkpoint(from, phase) ==
  /\ At(from)
  /\ Put(wj, [job[wj] EXCEPT !.phase = phase])
  /\ wpc' = phase
  /\ UNCHANGED <<rcpt, wj, lock, history, env>>

CheckpointPrepared == Checkpoint("claimed", "prepared")
CheckpointExecuting == Checkpoint("prepared", "executing")

\* Before it reports the result the worker renews its lease once more.
CheckpointCommitted == Checkpoint("done", "committed")

Heartbeat ==
  /\ wpc \in Working /\ lk = "free" /\ Owned
  /\ Put(wj, [job[wj] EXCEPT !.lease = "live"])
  /\ UNCHANGED <<rcpt, worker, lock, history, env>>

\* JobControl.boundary with a pending request: CooperativeStop.
Stop ==
  /\ At("executing") /\ wj \in Cooperative /\ job[wj].pending # "none"
  /\ \/ /\ job[wj].pending = "pause"
        /\ Put(wj, Paused(wj)) /\ wpc' = "off"
        /\ UNCHANGED <<rcpt, lk, lj, who>>
     \/ /\ job[wj].pending = "cancel"
        /\ WriteReceipt(wj, "cancelled") /\ Acquire("job", wj, "worker")
        /\ UNCHANGED <<job, wpc>>
  /\ UNCHANGED <<wj, todo, history, env>>

Barrier_Unchecked ==
  /\ At("executing") /\ wj \in Cooperative
  /\ wpc' = "publishing"
  /\ UNCHANGED <<job, rcpt, wj, lock, history, env>>

\* JobControl.boundary(commit=True): from here on requests are refused.
Barrier ==
  /\ At("executing") /\ wj \in Cooperative /\ job[wj].pending = "none"
  /\ Put(wj, [job[wj] EXCEPT !.commit_started = TRUE])
  /\ wpc' = "publishing"
  /\ UNCHANGED <<rcpt, wj, lock, history, env>>

\* The executor puts its result in place; it does not look at the lease.
Publish ==
  /\ wpc = (IF wj \in Cooperative THEN "publishing" ELSE "executing")
  /\ published' = published \cup {wj}
  /\ wpc' = "done"
  /\ UNCHANGED <<job, rcpt, wj, lock, backoff, env>>

\* A resumed executor finds its result already in place.
Reuse ==
  /\ wpc = "executing" /\ wj \in Cooperative \cap published
  /\ wpc' = "done"
  /\ UNCHANGED <<job, rcpt, wj, lock, history, env>>

ExecuteFails(e) ==
  /\ wpc \in {"executing", "publishing"}
  /\ wpc' = e
  /\ UNCHANGED <<job, rcpt, wj, lock, history, env>>

Succeed_JobFirst ==
  /\ At("committed")
  /\ Put(wj, [job[wj] EXCEPT !.status = "succeeded", !.lease = "none", !.pending = "none"])
  /\ wpc' = "off"
  /\ UNCHANGED <<rcpt, wj, lock, history, env>>

Succeed ==
  /\ At("committed")
  /\ WriteReceipt(wj, "succeeded") /\ Acquire("job", wj, "worker")
  /\ UNCHANGED <<job, worker, todo, history, env>>

\* fail(): a transient error with attempts left waits for its backoff.  The
\* validator refuses a waiting job with a pending request, and the worker
\* leaves the job to the next recovery.
FailedStatus(e) == IF e \in {"manual_intervention", "cancelled"} THEN e ELSE "failed"
Fail(e) ==
  /\ At(e)
  /\ \/ /\ e = "transient" /\ job[wj].attempt < MaxAttempts /\ job[wj].pending = "none"
        /\ Put(wj, [job[wj] EXCEPT !.status = "retry_wait", !.lease = "none",
                                   !.retry_not_before = "future"])
        /\ backoff' = backoff \cup {wj}
        /\ wpc' = "off" /\ UNCHANGED <<rcpt, lk, lj, who>>
     \/ /\ e = "transient" /\ job[wj].attempt < MaxAttempts /\ job[wj].pending # "none"
        /\ wpc' = "off" /\ UNCHANGED <<job, rcpt, lk, lj, who, backoff>>
     \/ /\ e # "transient" \/ job[wj].attempt >= MaxAttempts
        /\ WriteReceipt(wj, FailedStatus(e)) /\ Acquire("job", wj, "worker")
        /\ UNCHANGED <<job, wpc, backoff>>
  /\ UNCHANGED <<wj, todo, published, env>>

\* The next operation finds the lease expired, or the journal lock, which is
\* never waited for, in the hands of a control request.
LoseLease ==
  /\ wpc \in Working /\ lk = "free" /\ ~Owned
  /\ wpc' = "off"
  /\ UNCHANGED <<job, rcpt, wj, lock, history, env>>

Busy ==
  /\ wpc \in Working /\ lk # "free" /\ who = "control"
  /\ wpc' = "off"
  /\ UNCHANGED <<job, rcpt, wj, lock, history, env>>

-----------------------------------------------------------------------------
(* Admission and control requests.                                          *)

Reserved(c) == \E p \in Jobs : job[p].restart = c

\* run_now and evaluate admit a job; eligible_at may lie ahead.
Admit(j, e) ==
  /\ lk = "free" /\ wpc = "off" /\ job[j].status = "missing" /\ ~Reserved(j)
  /\ Put(j, [Fresh EXCEPT !.eligible = e])
  /\ UNCHANGED <<rcpt, worker, lock, history, env>>

Refused_NoLimit(j) ==
  \/ job[j].status \in Active /\ (job[j].commit_started \/ job[j].phase = "committed")
  \/ job[j].completion \/ job[j].restart # NoJob

\* What capabilities refuses whatever the action.
Refused(j) ==
  \/ job[j].status \in Active /\ (job[j].commit_started \/ job[j].phase = "committed")
  \/ job[j].commands >= MaxCommands
  \/ job[j].completion \/ job[j].restart # NoJob

Requestable(j) == lk = "free" /\ job[j].status # "missing" /\ ~Refused(j)
Commanded(j) == [job[j] EXCEPT !.commands = @ + 1]

Pause_Eligible(j) ==
  /\ Requestable(j) /\ j \in Cooperative
  /\ \/ /\ job[j].status = "running"
        /\ Put(j, [Commanded(j) EXCEPT !.status = "pausing", !.pending = "pause"])
     \/ /\ job[j].status \in {"queued", "retry_wait"} /\ ~job[j].commit_started
        /\ Put(j, [Commanded(j) EXCEPT !.status = "paused", !.retry_not_before = "none"])
  /\ UNCHANGED <<rcpt, worker, lock, history, env>>

\* A waiting job keeps its backoff as its eligible_at.  The validator refuses a
\* paused job behind its commit barrier.
Pause(j) ==
  /\ Requestable(j) /\ j \in Cooperative
  /\ \/ /\ job[j].status = "running"
        /\ Put(j, [Commanded(j) EXCEPT !.status = "pausing", !.pending = "pause"])
     \/ /\ job[j].status \in {"queued", "retry_wait"} /\ ~job[j].commit_started
        /\ Put(j, [Commanded(j) EXCEPT !.status = "paused", !.retry_not_before = "none",
                     !.eligible = @ /\ job[j].retry_not_before \in {"none", "due"}])
  /\ UNCHANGED <<rcpt, worker, lock, history, env>>

Cancel(j) ==
  /\ Requestable(j)
  /\ \/ /\ j \in Cooperative /\ job[j].status \in {"running", "pausing"}
        /\ Put(j, [Commanded(j) EXCEPT !.status = "cancelling", !.pending = "cancel"])
        /\ UNCHANGED <<lk, lj, who>>
     \/ /\ job[j].status \in Stopped
        /\ Put(j, [Commanded(j) EXCEPT !.completion = TRUE])
        /\ Acquire("receipt", j, "control")
  /\ UNCHANGED <<rcpt, worker, todo, history, env>>

\* SchedulerStore.cancel, which OcrJobManager.cancel uses.
DirectCancellable(j) ==
  /\ lk = "free" /\ j \in Cooperative \cap Resumable
  /\ job[j].status \in Stopped /\ rcpt[j] = NoReceipt
DirectCancel(j) ==
  /\ DirectCancellable(j)
  /\ WriteReceipt(j, "cancelled") /\ Acquire("direct", j, "control")
  /\ UNCHANGED <<job, worker, todo, history, env>>

\* Resume, retry and restart take the lifecycle lock: no worker is running.
Resume(j) ==
  /\ Requestable(j) /\ wpc = "off" /\ j \in Cooperative
  /\ job[j].status = "paused" /\ job[j].attempt < MaxAttempts
  /\ Put(j, [Commanded(j) EXCEPT !.status = "queued"])
  /\ UNCHANGED <<rcpt, worker, lock, history, env>>

Retry(j) ==
  /\ Requestable(j) /\ wpc = "off" /\ j \in Cooperative
  /\ job[j].status = "retry_wait" /\ job[j].retry_not_before = "due"
  /\ job[j].attempt < MaxAttempts
  /\ Put(j, [Commanded(j) EXCEPT !.status = "queued", !.retry_not_before = "none"])
  /\ UNCHANGED <<rcpt, worker, lock, history, env>>

Restart_ChildFirst(j, c) ==
  /\ Requestable(j) /\ wpc = "off" /\ j \in Cooperative /\ c # j
  /\ job[j].status \in Terminal \cup {"paused"}
  /\ job[c].status = "missing" /\ ~Reserved(c)
  /\ c \in Cooperative /\ (c \in Resumable <=> j \in Resumable)
  /\ job' = [job EXCEPT ![j] = [Commanded(j) EXCEPT !.restart = c], ![c] = Fresh]
  /\ Acquire(IF job[j].status = "paused" THEN "receipt" ELSE "child", j, "control")
  /\ UNCHANGED <<rcpt, worker, todo, history, env>>

\* The intent names the child; a paused parent is cancelled before the child
\* exists.
Restart(j, c) ==
  /\ Requestable(j) /\ wpc = "off" /\ j \in Cooperative /\ c # j
  /\ job[j].status \in Terminal \cup {"paused"}
  /\ job[c].status = "missing" /\ ~Reserved(c)
  /\ c \in Cooperative /\ (c \in Resumable <=> j \in Resumable)
  /\ Put(j, [Commanded(j) EXCEPT !.restart = c])
  /\ Acquire(IF job[j].status = "paused" THEN "receipt" ELSE "child", j, "control")
  /\ UNCHANGED <<rcpt, worker, todo, history, env>>

\* A repeated request identity finishes what its first run left.  Repeating the
\* restart takes the lifecycle lock, repeating an older pause or cancel does not.
Replay(j) ==
  /\ lk = "free" /\ Intent(j)
  /\ job[j].restart = NoJob \/ job[j].commands > 1 \/ wpc = "off"
  /\ \/ job[j].status \in Stopped /\ Acquire("receipt", j, "control")
     \/ job[j].status \in Terminal /\ Acquire("child", j, "control")
  /\ UNCHANGED <<job, rcpt, worker, todo, history, env>>

-----------------------------------------------------------------------------
(* Time and failures.                                                       *)

\* A heartbeat comes too late, or nobody is left to send one.
Expire(j) ==
  /\ job[j].lease \in {"live", "ahead"}
  /\ Put(j, [job[j] EXCEPT !.lease = "expired"])
  /\ UNCHANGED <<rcpt, worker, lock, history, env>>

Elapse(j) ==
  /\ ~job[j].eligible \/ job[j].retry_not_before \in {"future", "reversed"}
  /\ Put(j, [job[j] EXCEPT !.eligible = TRUE,
                !.retry_not_before = IF @ = "none" THEN @ ELSE "due"])
  /\ backoff' = backoff \ {j}
  /\ UNCHANGED <<rcpt, worker, lock, published, env>>

\* The wall clock is set back behind every heartbeat and every update, and
\* behind the eligible_at of some jobs.
SetClockBack ==
  /\ clockSets < MaxClockSets
  /\ clockSets' = clockSets + 1
  /\ \E late \in SUBSET {j \in Jobs : job[j].status # "missing"} :
       job' = [j \in Jobs |->
         [job[j] EXCEPT !.lease = IF @ = "none" THEN @ ELSE "ahead",
                        !.eligible = @ /\ j \notin late,
                        !.retry_not_before = IF @ = "none" THEN @ ELSE "reversed"]]
  /\ backoff' = {j \in backoff : job[j].status # "retry_wait"}
  /\ UNCHANGED <<rcpt, worker, lock, published, crashes, torn>>

\* The worker, or whoever makes a request, dies or raises; the locks are free.
WorkerDies ==
  /\ wpc # "off" /\ crashes < MaxCrashes
  /\ crashes' = crashes + 1
  /\ wpc' = "off"
  /\ IF who = "worker" /\ lk # "free" THEN lk' = "free" /\ todo' = {} ELSE UNCHANGED <<lk, todo>>
  /\ UNCHANGED <<job, rcpt, wj, lj, who, history, torn, clockSets>>

RequestDies ==
  /\ who = "control" /\ lk # "free" /\ crashes < MaxCrashes
  /\ crashes' = crashes + 1
  /\ lk' = "free"
  /\ UNCHANGED <<job, rcpt, worker, lj, who, todo, history, torn, clockSets>>

\* The process dies between the exclusive creation of a receipt file and the
\* end of its write: in the cancellation under the lock, in a recovery, in the
\* worker's last operation, or in a direct cancellation.
LockTears(j) ==
  \/ lk = "receipt" /\ lj = j
  \/ /\ Recovering(j) /\ Plain(j) /\ Lapsed(j)
     /\ job[j].pending = "cancel" \/ GivesUp(j)
WorkTears(j) ==
  /\ wj = j /\ wpc \in Working /\ lk = "free" /\ Owned
  /\ \/ wpc = "executing" /\ job[j].pending = "cancel"
     \/ wpc = "committed" \/ wpc \in ErrorClasses \ {"transient"}
     \/ wpc = "transient" /\ Exhausted(j)

TornReceipt ==
  /\ torn < MaxTorn /\ torn' = torn + 1
  /\ \E j \in Jobs :
       /\ rcpt[j] = NoReceipt
       /\ rcpt' = [rcpt EXCEPT ![j] = [status |-> "torn", attempts |-> 0]]
       /\ \/ LockTears(j) /\ Abort
          \/ WorkTears(j) /\ wpc' = "off" /\ UNCHANGED <<lk, todo>>
          \/ DirectCancellable(j) /\ UNCHANGED <<wpc, lk, todo>>
  /\ UNCHANGED <<job, wj, lj, who, history, crashes, clockSets>>

-----------------------------------------------------------------------------
RecoverStep ==
  \E j \in Jobs : \/ RecoverTerminal(j) \/ RecoverFromReceipt(j) \/ RecoveryRaises(j)
                  \/ RecoverIntent(j) \/ RecoverRetry(j) \/ RecoverLease(j) \/ RecoverSkip(j)

LockStep == ReceiptStep \/ JobStep \/ ChildStep

WorkStep ==
  \/ CheckpointPrepared \/ CheckpointExecuting \/ CheckpointCommitted
  \/ Stop \/ Barrier \/ Publish \/ Reuse \/ Succeed \/ LoseLease
  \/ \E e \in ErrorClasses : ExecuteFails(e) \/ Fail(e)

Request ==
  \/ \E j \in Jobs : \/ Pause(j) \/ Cancel(j) \/ DirectCancel(j) \/ Resume(j)
                     \/ Retry(j) \/ Replay(j) \/ \E c \in Jobs : Restart(j, c)
  \/ \E j \in Jobs, e \in BOOLEAN : Admit(j, e)

Claims == \E j \in Jobs : Claim(j)

Time ==
  \/ \E j \in Jobs : Expire(j) \/ Elapse(j)
  \/ SetClockBack

Failure == WorkerDies \/ RequestDies \/ TornReceipt

Next ==
  \/ StartRecovery \/ RecoverStep \/ Idle \/ Claims \/ WorkStep \/ Heartbeat \/ Busy
  \/ LockStep \/ Request \/ Time \/ Failure

Spec == Init /\ [][Next]_vars

\* The runtime cycle comes round again and again, whoever holds a lock goes on
\* or dies, an abandoned lease expires and a delay passes.
Orphaned(j) == job[j].status \in Active /\ (wj # j \/ wpc \notin Working)
Fairness ==
  /\ SF_vars(StartRecovery) /\ WF_vars(RecoverStep) /\ WF_vars(LockStep)
  /\ SF_vars(WorkStep) /\ WF_vars(Idle) /\ SF_vars(Claims)
  /\ \A j \in Jobs : WF_vars(Orphaned(j) /\ Expire(j)) /\ WF_vars(Elapse(j))

FairSpec == Spec /\ Fairness
-----------------------------------------------------------------------------
(* What a careful reader of the code expects of it.                         *)

JobRecords ==
  [status : {"missing"} \cup Active \cup Stopped \cup Terminal, attempt : 0..MaxAttempts,
   phase : {"none", "prepared", "executing", "committed"},
   lease : {"none", "live", "expired", "ahead"},
   retry_not_before : {"none", "future", "due", "reversed"},
   eligible : BOOLEAN, pending : {"none", "pause", "cancel"},
   commit_started : BOOLEAN, completion : BOOLEAN,
   restart : Jobs \cup {NoJob}, commands : 0..MaxCommands]
Receipts == [status : {"none", "torn"} \cup Terminal, attempts : 0..MaxAttempts]

TypeOK ==
  /\ job \in [Jobs -> JobRecords] /\ rcpt \in [Jobs -> Receipts]
  /\ wpc \in {"off", "recover"} \cup Working /\ wj \in Jobs \cup {NoJob}
  /\ lk \in {"free", "recover", "receipt", "job", "direct", "child"}
  /\ lj \in Jobs \cup {NoJob} /\ who \in {"worker", "control"} /\ todo \subseteq Jobs
  /\ published \subseteq Jobs /\ backoff \subseteq Jobs
  /\ crashes \in Nat /\ torn \in Nat /\ clockSets \in Nat

\* validate_job_record and validate_control.
ValidRecord(j, r) ==
  /\ r.status \in Active <=> r.lease # "none"
  /\ r.status \in Active => r.attempt > 0
  /\ r.status = "retry_wait" <=> r.retry_not_before # "none"
  /\ r.status = "pausing" <=> r.pending = "pause"
  /\ r.status = "cancelling" <=> r.pending = "cancel"
  /\ r.pending # "none" => j \in Cooperative /\ ~r.commit_started
  /\ r.status = "paused" => j \in Cooperative
  /\ r.completion => r.status \in Stopped
  /\ r.commit_started => j \in Cooperative /\ r.status \notin {"paused", "pausing", "cancelling"}

\* Every record in the journal passes the journal's own validator.  Where the
\* code computes one that would not (Fail and Pause), the operation raises before
\* its first write; no operation of several writes meets a refusal halfway.
RecordsValid == \A j \in Jobs : ValidRecord(j, job[j])

\* The head of the queue can always be claimed: a job that is queued or waits
\* for a retry has an attempt left, so claim_next never stops at it.
QueueClaimable ==
  \A j \in Jobs : job[j].status \in {"queued", "retry_wait"} => job[j].attempt < MaxAttempts

\* A terminal job has the receipt that says so, and a receipt waiting for
\* its job is one recovery will accept.
ReceiptDecides ==
  \A j \in Jobs :
    /\ job[j].status \in Terminal => rcpt[j] = [status |-> job[j].status, attempts |-> job[j].attempt]
    /\ HasReceipt(j) /\ rcpt[j].status # "torn" =>
         /\ Matches(j)
         /\ job[j].status \in Stopped => rcpt[j].status = "cancelled"

\* "Reconcile the terminal job from the exact receipt; do not run again": a
\* receipt never changes, and no attempt starts once it exists.
ReceiptFinal ==
  [][ \A j \in Jobs : rcpt[j] # NoReceipt =>
        rcpt'[j] = rcpt[j] /\ job'[j].attempt = job[j].attempt ]_vars

\* "Other committed checkpoint without a terminal receipt: never infer
\* success": an effect that may be in place is not executed again.
CommittedOnce ==
  [][ \A j \in Jobs \ Resumable :
        job[j].phase = "committed" => job'[j].attempt = job[j].attempt ]_vars

\* "Expired leases honor pending pause/cancel and never silently requeue the
\* interrupted command."
RequestsHonoured ==
  [][ \A j \in Jobs : job[j].pending # "none" =>
        job'[j].status \notin {"queued", "retry_wait", "running"} ]_vars

\* "Pending pause/cancel wins before the first derived write": no cooperative
\* job publishes its result behind an accepted request.
NoPublicationBehindRequest ==
  [][ \A j \in Cooperative : published' # published /\ wj = j => job[j].pending = "none" ]_vars

\* "Never bypass backoff": whatever pauses and resumes come between, a failed
\* attempt is followed by another only after its delay.
BackoffKept ==
  [][ \A j \in Jobs : job'[j].attempt # job[j].attempt => j \notin backoff ]_vars

\* "Recovery verifies its terminal parent receipt and lineage before creating
\* the child": parent and child never compete for the same work.
ChildAfterParent ==
  \A p, c \in Jobs : job[p].restart = c /\ job[c].status # "missing" =>
    job[p].status \in Terminal /\ rcpt[p].status = job[p].status

\* "Requests arriving after it are rejected; the worker finishes publication":
\* no command is accepted for a job behind its commit barrier.
BarrierRejects ==
  [][ \A j \in Jobs : job[j].commit_started /\ job[j].status \notin Terminal =>
        job'[j].commands = job[j].commands ]_vars

\* Every admitted job is eventually finished or paused.
JobsSettle ==
  \A j \in Jobs : job[j].status # "missing" ~> job[j].status \in Terminal \cup {"paused"}

\* An accepted cancellation and an accepted restart are completed, whoever
\* dies on the way.
CancelCompletes == \A j \in Jobs : job[j].completion ~> job[j].status = "cancelled"
RestartCompletes ==
  \A p, c \in Jobs : job[p].restart = c ~> job[c].status # "missing"
=============================================================================
