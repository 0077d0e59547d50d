------------------------------- MODULE AiJobs -------------------------------
(***************************************************************************)
(* Governed AI jobs (core/provelume/ai_jobs.py): a job is enqueued, claimed *)
(* with a reservation, authorized by a durable "possible" mark, sent by an *)
(* adapter outside every lock, and settled.  Processes share the journal;  *)
(* every action that reads or writes it runs under the lifecycle and the   *)
(* journal lock, so it is one step, unless the process dies inside it.     *)
(*                                                                         *)
(* Only resource units are accounted: money takes the same path through    *)
(* charged, totals and reconcile.  The reservation of an attempt is the    *)
(* constant Reserve.  sent and remote are history: what adapters really    *)
(* transmitted, and which of it is still executing.                        *)
(***************************************************************************)
EXTENDS Integers, Sequences, FiniteSets, FiniteSetsExt

CONSTANTS
  Procs,                   \* processes, each with its own AiJobs manager
  Samplers,                \* processes that run scheduler cycles
  Jobs,                    \* request_key values: one job each
  Native,                  \* jobs whose route is the managed local runtime
  Refs, RefOf,             \* request_ref values, and that of each job
  Usage,                   \* units an adapter or a statement may report
  Caps,                    \* [concurrency, units] budgets an operator may set
  Queue,                   \* Budget.queue
  JobUnits, Reserve,       \* Budget.job_units, units of one reservation
  MaxAttempts,             \* limits.max_attempts
  Lease, Deadline, Backoff, DayLength,     \* durations
  MaxTime, MaxGeneration, MaxAuthority, MaxCrashes, MaxClockSets   \* bounds

None == "none"
Unknown == -1
NoLease == [heartbeat |-> -1, expires |-> -1]

ASSUME AiConstants ==
  /\ IsFiniteSet(Jobs)
  /\ Samplers \subseteq Procs /\ Native \subseteq Jobs /\ RefOf \in [Jobs -> Refs]
  /\ Usage \subseteq Nat /\ Caps \subseteq [concurrency : Nat \ {0}, units : Nat \ {0}]
  /\ {Reserve, JobUnits, MaxAttempts, Lease, Deadline, DayLength, Queue} \subseteq Nat \ {0}
  /\ {Backoff, MaxTime, MaxGeneration, MaxAuthority, MaxCrashes, MaxClockSets} \subseteq Nat

Terminal == {"succeeded", "failed", "cancelled", "manual_intervention"}
Cancels == {None, "pause", "cancel", "disable"}

VARIABLES
  clock,       \* the wall clock
  control,     \* ai-control.json: mode, generation, revoked references, budget
  authority,   \* version of what current(ref, route) returns
  job,         \* the job records
  proc,        \* each process: session_authorized and its worker
  sent, remote,          \* <<job, attempt>> transmitted; still executing
  crashes, clockSets

world == <<sent, remote, crashes, clockSets>>
vars == <<clock, control, authority, job, proc, world>>

Absent ==
  [status |-> "absent", terminal |-> None, cancel |-> None, generation |-> 0,
   binding |-> 0, created |-> 0, deadline |-> 0, restored |-> FALSE,
   retryAt |-> 0, resumeAt |-> 0, lease |-> NoLease, attempts |-> <<>>]

Idle(p) == [proc[p] EXCEPT !.pc = "idle", !.job = None, !.attempt = 0,
                           !.outcome = None, !.units = Unknown, !.sample = 0]
Stopped == [session |-> FALSE, pc |-> "idle", job |-> None, attempt |-> 0,
            outcome |-> None, units |-> Unknown, sample |-> 0]

Init ==
  /\ clock = 0 /\ crashes = 0 /\ clockSets = 0
  /\ control \in {[mode |-> "off", generation |-> 0, revoked |-> {}, budget |-> c] : c \in Caps}
  /\ authority = [r \in Refs |-> 0]
  /\ job = [j \in Jobs |-> Absent]
  /\ proc = [p \in Procs |-> Stopped]
  /\ sent = {} /\ remote = {}

(***************************************************************************)
(* Accounting (ai_job_contract.py).                                        *)
(***************************************************************************)

Day(t) == t \div DayLength
Rows(js) == {x \in Jobs \X (1..MaxAttempts) : x[2] <= Len(js[x[1]].attempts)}
Row(js, x) == js[x[1]].attempts[x[2]]
Last(r) == r.attempts[Len(r.attempts)]
WithLast(r, row) == [r EXCEPT !.attempts[Len(r.attempts)] = row]

Charged(row) ==
  IF row.phase = "released" THEN 0 ELSE IF row.units = Unknown THEN Reserve ELSE row.units

Counted_Midnight(row, period) == IF row.period = period THEN Charged(row) ELSE 0

\* What a row still counts in a period: unknown amounts and debt never lapse.
Counted(row, period) ==
  IF row.period = period \/ row.units = Unknown \/ ~row.quiescent THEN Charged(row)
  ELSE Max({0, Charged(row) - Reserve})

Active(js) == Cardinality({x \in Rows(js) : ~Row(js, x).quiescent})
PeriodUnits(js, period) == MapThenSumSet(LAMBDA x : Counted(Row(js, x), period), Rows(js))
UnitsOf(js, j) ==
  MapThenSumSet(LAMBDA x : Charged(Row(js, x)), {x \in Rows(js) : x[1] = j})

(***************************************************************************)
(* Finishing, recovery and validation of a record.                         *)
(***************************************************************************)

\* finish_ai_locked: the receipt and the terminal projection.
Finish(r) ==
  [r EXCEPT !.status = IF r.terminal = "uncertain" THEN "manual_intervention" ELSE r.terminal,
            !.lease = NoLease, !.retryAt = 0]

Open(r) == r.status \notin Terminal \cup {"absent"}
Finished(r) == IF Open(r) /\ r.terminal # None THEN Finish(r) ELSE r
Released(row) == [row EXCEPT !.phase = "released", !.quiescent = TRUE, !.units = 0]
Uncertain(row) == [row EXCEPT !.phase = "uncertain", !.quiescent = FALSE]

Fenced_Release(r) == [WithLast(r, Released(Last(r))) EXCEPT !.terminal = "failed"]

\* The branch of recover_ai_locked for a lease that is no longer live.
Fenced(r) ==
  IF Last(r).phase = "reserved"
  THEN [WithLast(r, Released(Last(r))) EXCEPT !.terminal = "failed"]
  ELSE [WithLast(r, Uncertain(Last(r))) EXCEPT !.terminal = "uncertain"]

LeaseLapsed_Unless(r, now) == FALSE
LeaseLapsed(r, now) ==
  r.lease # NoLease /\ (r.lease.expires <= now \/ r.lease.heartbeat > now)

Recovered(r, now) ==
  IF ~Open(r) THEN r
  ELSE IF r.terminal # None THEN Finish(r)
  ELSE IF LeaseLapsed(r, now) THEN Finish(Fenced(r))
  ELSE IF r.status = "retry_wait" /\ r.retryAt <= now
       THEN [r EXCEPT !.status = "queued", !.retryAt = 0]
  ELSE r

RecoverAll(now) == [j \in Jobs |-> Recovered(job[j], now)]

\* The dispatch-time recheck of the reservation against the current budget.
WithinBudget(js, j) ==
  /\ Active(js) <= control.budget.concurrency
  /\ PeriodUnits(js, Day(clock)) <= control.budget.units
  /\ UnitsOf(js, j) <= JobUnits

\* _validate of job j, read from js, by the manager of process p.
Valid(js, j, p) ==
  LET r == js[j]
      active == r.status = "running" /\ Last(r).phase \in {"possible", "settled", "uncertain"}
  IN  /\ proc[p].session /\ ~r.restored
      /\ control.mode = "enabled" \/ (control.mode = "paused" /\ active)
      /\ r.generation = control.generation /\ RefOf[j] \notin control.revoked
      /\ r.cancel = None
      /\ r.created <= clock /\ clock < r.deadline
      /\ r.binding = authority[RefOf[j]]
      /\ (r.status = "running" /\ Last(r).phase = "reserved") => WithinBudget(js, j)

\* _owned: the token names the attempt that took the lease.
Owned(js, p) ==
  LET r == js[proc[p].job]
  IN  /\ r.status = "running" /\ r.lease # NoLease /\ Len(r.attempts) = proc[p].attempt
      /\ r.lease.expires > clock

(***************************************************************************)
(* Enqueue, claim and authorization.                                       *)
(***************************************************************************)

Enqueue(j, ack) ==
  /\ control.mode # "off" /\ job[j].status = "absent"
  /\ RefOf[j] \notin control.revoked
  /\ ack \/ \A i \in Jobs : RefOf[i] = RefOf[j] => job[i].terminal # "uncertain"
  /\ Cardinality({i \in Jobs : Open(job[i])}) < Queue
  /\ job' = [job EXCEPT ![j] =
       [Absent EXCEPT !.status = "queued", !.generation = control.generation,
                      !.binding = authority[RefOf[j]], !.created = clock,
                      !.deadline = clock + Deadline]]
  /\ UNCHANGED <<clock, control, authority, proc, world>>

\* admit_locked: the reservation must fit the job, the period and the slots.
Admissible(js, j, p) ==
  /\ Valid(js, j, p) /\ Len(js[j].attempts) < MaxAttempts
  /\ Active(js) < control.budget.concurrency
  /\ UnitsOf(js, j) + Reserve <= JobUnits
  /\ PeriodUnits(js, Day(clock)) + Reserve <= control.budget.units

Reservation == [period |-> Day(clock), phase |-> "reserved", quiescent |-> FALSE,
                units |-> Unknown]

\* claim_next with ai_admit: recovery, then reservation and lease in one write.
Claim(p, j) ==
  /\ proc[p].pc = "idle" /\ clock + Lease <= MaxTime
  /\ LET js == RecoverAll(clock)
     IN  /\ js[j].status = "queued"
         /\ IF Admissible(js, j, p)
            THEN /\ job' = [js EXCEPT ![j] =
                      [js[j] EXCEPT !.status = "running", !.retryAt = 0,
                         !.attempts = Append(@, Reservation),
                         !.lease = [heartbeat |-> clock, expires |-> clock + Lease]]]
                 /\ proc' = [proc EXCEPT ![p] = [@ EXCEPT !.pc = "claimed", !.job = j,
                                                   !.attempt = Len(js[j].attempts) + 1]]
            ELSE job' = js /\ UNCHANGED proc
  /\ UNCHANGED <<clock, control, authority, world>>

Answered(p, outcome, units) ==
  [proc[p] EXCEPT !.pc = "answered", !.outcome = outcome, !.units = units]

\* The transaction of execute_claimed that writes "possible" before dispatch.
Authorize(p) ==
  /\ proc[p].pc = "claimed"
  /\ LET j == proc[p].job
     IN  IF Owned(job, p) /\ Valid(job, j, p)
         THEN /\ job' = [job EXCEPT ![j] =
                           WithLast(job[j], [Last(job[j]) EXCEPT !.phase = "possible"])]
              /\ proc' = [proc EXCEPT ![p].pc = "possible"]
         ELSE proc' = [proc EXCEPT ![p] = Answered(p, "not_sent", Unknown)] /\ UNCHANGED job
  /\ UNCHANGED <<clock, control, authority, world>>

AuthorizeBusy(p) ==
  /\ proc[p].pc = "claimed"
  /\ proc' = [proc EXCEPT ![p] = Answered(p, "not_sent", Unknown)]
  /\ UNCHANGED <<clock, control, authority, job, world>>

(***************************************************************************)
(* The adapter's exchange, outside the locks.                              *)
(***************************************************************************)

\* The pre-send checkpoint: current() re-validates under the journal lock.
AdapterCheck(p) ==
  /\ proc[p].pc = "possible"
  /\ proc' = [proc EXCEPT ![p] =
       IF Owned(job, p) /\ Valid(job, proc[p].job, p) THEN [@ EXCEPT !.pc = "checked"]
       ELSE Answered(p, "not_sent", Unknown)]
  /\ UNCHANGED <<clock, control, authority, job, world>>

\* A cancellation poll, or a DNS or connection failure, before transmission.
ConnectFails(p) ==
  /\ proc[p].pc = "checked"
  /\ \E o \in {"not_sent", "not_sent_transient"} :
       proc' = [proc EXCEPT ![p] = Answered(p, o, Unknown)]
  /\ UNCHANGED <<clock, control, authority, job, world>>

Send(p) ==
  /\ proc[p].pc = "checked"
  /\ LET x == <<proc[p].job, proc[p].attempt>>
     IN  sent' = sent \cup {x} /\ remote' = remote \cup {x}
  /\ proc' = [proc EXCEPT ![p].pc = "sent"]
  /\ UNCHANGED <<clock, control, authority, job, crashes, clockSets>>

RemoteEnds(p) == remote' = remote \ {<<proc[p].job, proc[p].attempt>>}

\* A result, a confirmed local stop, or an ambiguous failure.
Answer(p) ==
  /\ proc[p].pc = "sent"
  /\ \/ /\ RemoteEnds(p)
        /\ \E u \in Usage \cup {Unknown} : proc' = [proc EXCEPT ![p] = Answered(p, "result", u)]
     \/ /\ proc[p].job \in Native /\ RemoteEnds(p)
        /\ proc' = [proc EXCEPT ![p] = Answered(p, "local_failure", Unknown)]
     \/ /\ proc' = [proc EXCEPT ![p] = Answered(p, "possible", Unknown)]
        /\ UNCHANGED remote
  /\ UNCHANGED <<clock, control, authority, job, sent, crashes, clockSets>>

\* The provider finishes work nobody waits for any more.
RemoteFinishes ==
  /\ \E x \in remote :
       /\ \A p \in Procs : proc[p].pc = "sent" => <<proc[p].job, proc[p].attempt>> # x
       /\ remote' = remote \ {x}
  /\ UNCHANGED <<clock, control, authority, job, proc, sent, crashes, clockSets>>

(***************************************************************************)
(* Settlement.                                                             *)
(***************************************************************************)

Paused(r) == [r EXCEPT !.status = "paused", !.lease = NoLease, !.retryAt = 0]
Stop(r) == [r EXCEPT !.terminal = IF r.cancel = None THEN "failed" ELSE "cancelled"]

StoppedRow(r) == [Last(r) EXCEPT !.phase = "settled", !.quiescent = TRUE]

Settled_Resend(js, p) ==
  LET r == js[proc[p].job]
  IN  IF Len(r.attempts) < MaxAttempts /\ r.cancel = None
      THEN [WithLast(r, Uncertain(Last(r))) EXCEPT !.status = "retry_wait", !.lease = NoLease,
                                                   !.retryAt = clock + Backoff]
      ELSE [WithLast(r, Uncertain(Last(r))) EXCEPT !.terminal = "uncertain"]

Settled_Free(js, p) ==
  LET r == js[proc[p].job]
  IN  [WithLast(r, [Last(r) EXCEPT !.phase = "uncertain", !.quiescent = TRUE])
         EXCEPT !.terminal = "uncertain"]

\* The branches of complete: the record its single write commits.
Settled(js, p) ==
  LET j == proc[p].job
      r == js[j]
      done == WithLast(r, [Last(r) EXCEPT !.phase = "settled", !.quiescent = TRUE,
                                          !.units = proc[p].units])
      free == WithLast(r, Released(Last(r)))
  IN  CASE proc[p].outcome = "local_failure" ->
             LET s == WithLast(r, StoppedRow(r))
             IN  IF r.cancel = "pause" THEN Paused(s) ELSE Stop(s)
        [] proc[p].outcome = "result" ->
             IF Valid([js EXCEPT ![j] = done], j, p)
             THEN [done EXCEPT !.terminal = "succeeded"] ELSE Stop(done)
        [] proc[p].outcome = "possible" ->
             [WithLast(r, Uncertain(Last(r))) EXCEPT !.terminal = "uncertain"]
        [] OTHER ->
             IF r.cancel = "pause" THEN Paused(free)
             ELSE IF r.cancel # None THEN [free EXCEPT !.terminal = "cancelled"]
             ELSE IF /\ proc[p].outcome = "not_sent_transient"
                     /\ Len(r.attempts) < MaxAttempts /\ clock < r.deadline
             THEN [free EXCEPT !.status = "retry_wait", !.lease = NoLease,
                               !.retryAt = clock + Backoff]
             ELSE [free EXCEPT !.terminal = "failed"]

Complete_Late(p) ==
  /\ proc[p].pc = "answered"
  /\ LET j == proc[p].job
     IN  job' = IF Len(job[j].attempts) = proc[p].attempt
                THEN [job EXCEPT ![j] = Finish(Stop(Settled(job, p)))] ELSE job
  /\ proc' = [proc EXCEPT ![p] = Idle(p)]
  /\ UNCHANGED <<clock, control, authority, world>>

\* complete: a terminal record or a lease lost is left as it is.
Complete(p) ==
  /\ proc[p].pc = "answered"
  /\ LET j == proc[p].job
     IN  job' = IF job[j].terminal = None /\ Owned(job, p)
                THEN [job EXCEPT ![j] = Finished(Settled(job, p))] ELSE job
  /\ proc' = [proc EXCEPT ![p] = Idle(p)]
  /\ UNCHANGED <<clock, control, authority, world>>

\* The lock is taken for longer than the wait: an outcome becomes an ambiguous
\* error and is tried once more; an error is given up.
CompleteBusy(p) ==
  /\ proc[p].pc = "answered"
  /\ proc' = [proc EXCEPT ![p] =
       IF proc[p].outcome \in {"result", "local_failure"} THEN Answered(p, "possible", Unknown)
       ELSE Idle(p)]
  /\ UNCHANGED <<clock, control, authority, job, world>>

\* A clock sampled before the locks, and the recovery that uses it (cycle).
CycleSample(p) ==
  /\ p \in Samplers /\ proc[p].pc = "idle"
  /\ proc' = [proc EXCEPT ![p].pc = "sampled", ![p].sample = clock]
  /\ UNCHANGED <<clock, control, authority, job, world>>

CycleRecover(p) ==
  /\ proc[p].pc = "sampled"
  /\ job' = RecoverAll(proc[p].sample)
  /\ proc' = [proc EXCEPT ![p] = Idle(p)]
  /\ UNCHANGED <<clock, control, authority, world>>

Recover ==
  /\ job' = RecoverAll(clock)
  /\ UNCHANGED <<clock, control, authority, proc, world>>

(***************************************************************************)
(* Operator: configuration, authority, job controls, reconciliation.       *)
(***************************************************************************)

Delayed(r) == r.resumeAt # 0

\* _control_job_locked.
Controlled(r, action) ==
  IF ~Open(r) THEN r
  ELSE IF action = "resume"
       THEN [r EXCEPT !.cancel = None, !.resumeAt = 0, !.retryAt = r.resumeAt,
                      !.status = IF Delayed(r) THEN "retry_wait" ELSE "queued"]
  ELSE IF r.status = "running" THEN [r EXCEPT !.cancel = action]
  ELSE IF action = "pause"
       THEN [r EXCEPT !.status = "paused", !.resumeAt = r.retryAt, !.retryAt = 0,
                      !.cancel = "pause"]
  ELSE [r EXCEPT !.cancel = action, !.terminal = "cancelled"]

\* ai_capabilities.
Capable(r, action) ==
  LET remaining == Len(r.attempts) < MaxAttempts
  IN  CASE action = "cancel" -> TRUE
        [] action = "pause"  -> r.status \in {"queued", "retry_wait", "running"}
        [] action = "resume" -> r.status = "paused" /\ remaining
        [] action = "retry"  -> r.status = "retry_wait" /\ remaining /\ r.retryAt <= clock

\* request_control and control_job.
Control(j, action) ==
  /\ Open(job[j]) /\ Capable(job[j], action)
  /\ job' = [job EXCEPT ![j] =
       IF action = "retry" THEN [@ EXCEPT !.status = "queued", !.retryAt = 0]
       ELSE Finished(Controlled(@, action))]
  /\ UNCHANGED <<clock, control, authority, proc, world>>

Enabled(p) ==
  /\ control.mode = "enabled" /\ proc' = [proc EXCEPT ![p].session = TRUE]
  /\ UNCHANGED <<clock, control, authority, job, world>>

Configure(p, mode, cap) ==
  /\ control' = [control EXCEPT !.mode = mode, !.budget = cap]
  /\ proc' = [proc EXCEPT ![p].session = @ \/ mode = "enabled"]
  /\ UNCHANGED <<clock, authority, job, world>>

Off == [control EXCEPT !.mode = "off", !.generation = @ + 1]

\* configure(mode="off"): the generation first, then every open job.
ConfigureOff(p) ==
  /\ control.generation < MaxGeneration
  /\ control' = Off
  /\ job' = [j \in Jobs |-> Finished(Controlled(job[j], "disable"))]
  /\ proc' = [proc EXCEPT ![p].session = FALSE]
  /\ UNCHANGED <<clock, authority, world>>

\* The process dies on the way: some jobs are done, one has no receipt yet.
ConfigureOffCrash(p) ==
  /\ control.generation < MaxGeneration /\ crashes < MaxCrashes
  /\ control' = Off
  /\ \E done \in SUBSET Jobs : \E mid \in SUBSET (Jobs \ done) :
       /\ Cardinality(mid) <= 1
       /\ job' = [j \in Jobs |-> IF j \in done THEN Finished(Controlled(job[j], "disable"))
                                 ELSE IF j \in mid THEN Controlled(job[j], "disable")
                                 ELSE job[j]]
  /\ proc' = [proc EXCEPT ![p] = Stopped] /\ crashes' = crashes + 1
  /\ UNCHANGED <<clock, authority, sent, remote, clockSets>>

ChangeAuthority(ref) ==
  /\ \/ /\ authority[ref] < MaxAuthority
        /\ authority' = [authority EXCEPT ![ref] = @ + 1] /\ UNCHANGED control
     \/ /\ control' = [control EXCEPT !.revoked = @ \cup {ref}] /\ UNCHANGED authority
  /\ UNCHANGED <<clock, job, proc, world>>

Reconciled(row, units) ==
  [row EXCEPT !.phase = "settled", !.quiescent = TRUE,
              !.units = IF units = Unknown THEN @ ELSE units]

\* What the operator attests with quiescent=True: nothing runs or will start.
Quiescent(j, k) ==
  /\ <<j, k>> \notin remote
  /\ \A p \in Procs : proc[p].pc \in {"possible", "checked"} => <<proc[p].job, proc[p].attempt>> # <<j, k>>

\* reconcile, on that evidence.
Reconcile(j, k, units) ==
  /\ k <= Len(job[j].attempts) /\ Quiescent(j, k)
  /\ LET row == job[j].attempts[k]
     IN  /\ row.phase \in {"uncertain", "settled"}
         /\ units # Unknown => (row.units = Unknown \/ units >= row.units)
         /\ job' = [job EXCEPT ![j].attempts[k] = Reconciled(row, units)]
  /\ UNCHANGED <<clock, control, authority, proc, world>>

RestoredJob_Queued(r) ==
  LET s == [r EXCEPT !.restored = TRUE]
  IN  IF ~Open(r) \/ r.terminal # None THEN Finished(s)
      ELSE IF r.lease # NoLease
           THEN [WithLast(s, Released(Last(s))) EXCEPT !.status = "queued", !.lease = NoLease]
      ELSE Finish([s EXCEPT !.terminal = "cancelled"])

\* prepare_restored_ai over the same Instance: the current records are kept.
RestoredJob(r) ==
  LET s == [r EXCEPT !.restored = TRUE]
  IN  IF ~Open(r) \/ r.terminal # None THEN Finished(s)
      ELSE IF r.lease # NoLease
           THEN Finish([WithLast(s, Uncertain(Last(s))) EXCEPT !.terminal = "uncertain"])
      ELSE Finish([s EXCEPT !.terminal = "cancelled"])

Restore ==
  /\ control.generation < MaxGeneration
  /\ control' = Off
  /\ job' = [j \in Jobs |-> IF job[j].status = "absent" THEN job[j] ELSE RestoredJob(job[j])]
  /\ UNCHANGED <<clock, authority, proc, world>>

(***************************************************************************)
(* Environment.                                                            *)
(***************************************************************************)

Tick ==
  /\ clock < MaxTime /\ clock' = clock + 1
  /\ UNCHANGED <<control, authority, job, proc, world>>

ClockSet ==
  /\ clock > 0 /\ clockSets < MaxClockSets
  /\ clock' = clock - 1 /\ clockSets' = clockSets + 1
  /\ UNCHANGED <<control, authority, job, proc, sent, remote, crashes>>

Crash(p) ==
  /\ crashes < MaxCrashes /\ crashes' = crashes + 1
  /\ proc' = [proc EXCEPT ![p] = Stopped]
  /\ UNCHANGED <<clock, control, authority, job, sent, remote, clockSets>>

\* The process dies between the accounting commit and the receipt.
CompleteCrash(p) ==
  /\ proc[p].pc = "answered" /\ crashes < MaxCrashes /\ crashes' = crashes + 1
  /\ LET j == proc[p].job
     IN  job[j].terminal = None /\ Owned(job, p) /\ job' = [job EXCEPT ![j] = Settled(job, p)]
  /\ proc' = [proc EXCEPT ![p] = Stopped]
  /\ UNCHANGED <<clock, control, authority, sent, remote, clockSets>>

Worker(p) ==
  \/ Authorize(p) \/ AdapterCheck(p) \/ ConnectFails(p) \/ Send(p) \/ Answer(p)
  \/ Complete(p) \/ CompleteBusy(p) \/ AuthorizeBusy(p) \/ CycleRecover(p)

Next ==
  \/ \E j \in Jobs : \/ \E ack \in BOOLEAN : Enqueue(j, ack)
                     \/ \E a \in {"pause", "resume", "cancel", "retry"} : Control(j, a)
                     \/ \E k \in 1..MaxAttempts, u \in Usage \cup {Unknown} : Reconcile(j, k, u)
  \/ \E p \in Procs : \/ \E j \in Jobs : Claim(p, j)
                      \/ Worker(p) \/ CycleSample(p)
                      \/ Enabled(p) \/ ConfigureOff(p) \/ ConfigureOffCrash(p)
                      \/ \E m \in {"enabled", "paused"}, c \in Caps : Configure(p, m, c)
                      \/ Crash(p) \/ CompleteCrash(p)
  \/ \E ref \in Refs : ChangeAuthority(ref)
  \/ Recover \/ RemoteFinishes \/ Restore \/ Tick \/ ClockSet

Spec == Init /\ [][Next]_vars

\* Each cycle of the background scheduler recovers and time passes; nothing is
\* assumed of the workers, which may stall for ever outside the locks.
FairSpec == Spec /\ WF_vars(Recover) /\ WF_vars(Tick)

(***************************************************************************)
(* Properties.                                                             *)
(***************************************************************************)

RowType == [period : 0..Day(MaxTime), quiescent : BOOLEAN, units : Usage \cup {0, Unknown},
            phase : {"reserved", "possible", "settled", "released", "uncertain"}]

\* Every record keeps its shape, and an attempt that is not finished holds its
\* slot: validate_ai accepts whatever the actions write.
TypeOK ==
  /\ clock \in 0..MaxTime
  /\ control \in [mode : {"off", "enabled", "paused"}, generation : 0..MaxGeneration,
                  revoked : SUBSET Refs, budget : Caps]
  /\ \A j \in Jobs :
       /\ job[j].status \in Terminal \cup {"absent", "queued", "running", "retry_wait", "paused"}
       /\ job[j].terminal \in {None, "succeeded", "failed", "cancelled", "uncertain"}
       /\ job[j].cancel \in Cancels /\ Len(job[j].attempts) <= MaxAttempts
       /\ \A k \in DOMAIN job[j].attempts :
            LET row == job[j].attempts[k]
            IN  /\ row \in RowType
                /\ row.phase \in {"reserved", "possible", "uncertain"} => ~row.quiescent
  /\ \A x \in remote \cup sent : x \in Rows(job)

\* A job is transmitted once.  A second attempt of the same job may transmit
\* only if the first was stopped by the local runtime, which confirmed it:
\* retry, fallback, recovery, a late answer or a restore never resends.
OneTransmission ==
  \A x, y \in sent :
    (x[1] = y[1] /\ x[2] < y[2]) => x[1] \in Native /\ Row(job, x).phase = "settled"

\* What was transmitted stays charged: no crash, recovery, control or restore
\* releases its reservation, known consumption is never refunded, and an unknown
\* one is replaced only by an explicit statement of what was used.
SentIsCharged ==
  [][\A x \in sent' :
       LET row == Row(job, x)  next == Row(job', x) IN
       /\ next.phase \in {"possible", "settled", "uncertain"}
       /\ next.units = Unknown => row.units = Unknown
       /\ next.units # Unknown => next.units \in Usage /\ next.units >= row.units]_vars

\* Executions still running somewhere, known or not, never exceed the slots:
\* a dead or fenced worker's execution keeps its slot until reconciled.
SlotsCoverRemote ==
  /\ \A x \in remote : ~Row(job, x).quiescent
  /\ \E c \in Caps : Cardinality(remote) <= c.concurrency

\* Reservations whose consumption is still unknown, of any day, fit the largest
\* budget an operator set: no interleaving of claims by two processes, midnight,
\* crash or recovery admits work against an amount that may yet be owed.
UnknownWithinBudget ==
  \E c \in Caps :
    Reserve * Cardinality({x \in Rows(job) : Row(job, x).units = Unknown}) <= c.units

\* A terminal intent is final: a late answer, a second recovery, a control or a
\* restore changes neither it nor the status it was projected to.
TerminalIsFinal ==
  [][\A j \in Jobs : job[j].terminal # None =>
       /\ job'[j].terminal = job[j].terminal
       /\ ~Open(job[j]) => job'[j].status = job[j].status]_vars

\* A claimed job is released, settled or fenced in the end, whatever crashes.
LeaseSettles == \A j \in Jobs : job[j].status = "running" ~> job[j].status # "running"

(***************************************************************************)
(* Promises the code does not keep; the README tells how.                  *)
(***************************************************************************)

Working(p, j) == proc[p].job = j /\ job[j].lease # NoLease /\ Len(job[j].attempts) = proc[p].attempt

\* While the clock runs forward, nobody but its owner, a control or a restore
\* takes a live lease away (the comment in claim_next).
LiveReservationKept ==
  [][\A p \in Procs, j \in Jobs :
       (/\ Working(p, j) /\ job[j].lease.expires > clock /\ proc'[p] = proc[p]
        /\ ~job'[j].restored /\ clockSets = 0) => job'[j].lease = job[j].lease]_vars

\* An accepted cancellation of a job is not undone by a later control.
CancelSticks ==
  [][\A j \in Jobs : job[j].cancel \in {"cancel", "disable"} =>
       job'[j].cancel \in {"cancel", "disable"}]_vars

\* A job that was only asked to pause is not cancelled by the answer in flight.
PauseHolds ==
  [][\A j \in Jobs : (job[j].cancel = "pause" /\ job'[j].cancel = "pause") =>
       job'[j].terminal # "cancelled"]_vars
=============================================================================
