-------------------------- MODULE PolicyEvaluation --------------------------
(***************************************************************************)
(* Scheduler policies (core/provelume/scheduler.py, scheduler_model.py):   *)
(* cycle samples the time, takes the lifecycle and the journal lock, and   *)
(* evaluate turns each policy's due occurrences into at most one job and   *)
(* then moves the policy's cursor.  The job and the cursor are two durable *)
(* writes, the sample is older than the lock, and the wall clock may be    *)
(* set back.                                                               *)
(*                                                                         *)
(* Time is counted in units of which Day make a local day; a calendar      *)
(* schedule fires at every multiple of Day, except where its DST policy    *)
(* skips the day.                                                          *)
(***************************************************************************)
EXTENDS Integers, FiniteSets, FiniteSetsExt

CONSTANTS
  Policies, Cycles, Nobody,      \* policy identities; callers of cycle
  Schedules,                     \* [mode, missed] pairs an operator may choose
  Requests,                      \* request_key values of run_now
  Day, Interval,                 \* calendar period, interval_seconds
  SkippedDays,                   \* calendar instants in a DST gap under "skip"
  QuietStart, QuietEnd,          \* quiet_window, as times of day
  Jitter,                        \* _jitter_seconds of each policy revision
  MaxMissedScan,                 \* MAX_MISSED_SCAN
  MaxTime, MaxRevision, MaxCrashes, MaxClockSets   \* bounds of the instance

None == -1
Modes == {"manual", "interval", "calendar"}
MissedPolicies == {"skip", "coalesce", "catch_up_one"}
Revisions == 1..MaxRevision

ASSUME ConstantsAssumption ==
  /\ Nobody \notin Cycles
  /\ Schedules \subseteq [mode : Modes, missed : MissedPolicies]
  /\ Day \in Nat \ {0} /\ Interval \in Nat \ {0} /\ MaxMissedScan \in Nat \ {0, 1}
  /\ QuietStart \in 0..(Day - 1) /\ QuietEnd \in 0..(Day - 1)
  /\ MaxRevision \in Nat \ {0} /\ Jitter \in [Revisions -> Nat]
  /\ MaxTime \in Nat /\ MaxCrashes \in Nat /\ MaxClockSets \in Nat
  /\ \A t \in SkippedDays : t \in Nat /\ t + Day \notin SkippedDays

VARIABLES
  clock,           \* the wall clock
  policy,          \* the policy records
  jobs,            \* the job records evaluate and run_now created
  cycle,           \* each caller: its phase, its sampled time, policies to visit
  holder,          \* who holds the locks
  crashes, clockSets

env == <<crashes, clockSets>>
vars == <<clock, policy, jobs, cycle, holder, env>>

(***************************************************************************)
(* Occurrences.                                                            *)
(***************************************************************************)

\* resolve_local_time over the days after t: the first one that exists.
NextDay(t) ==
  LET d == (t \div Day + 1) * Day IN IF d \in SkippedDays THEN d + Day ELSE d

NextNominalAfter(t, s) == IF s.mode = "interval" THEN t + Interval ELSE NextDay(t)

\* An instant inside the quiet window, which may cross midnight.
Quiet(t) ==
  LET c == t % Day
  IN  IF QuietStart > QuietEnd THEN c >= QuietStart \/ c < QuietEnd
                               ELSE QuietStart <= c /\ c < QuietEnd

QuietUntil(t) ==
  LET today == (t \div Day) * Day + QuietEnd
  IN  IF ~Quiet(t) THEN t
      ELSE IF QuietStart > QuietEnd /\ t % Day >= QuietStart THEN today + Day ELSE today

\* eligible_instant: the nominal instant, offset and moved out of the window.
Due(revision, nominal) == QuietUntil(nominal + Jitter[revision])

\* The occurrences _advance_occurrences walks through from first.
Chain(s, first) ==
  LET occ[k \in 0..MaxMissedScan] ==
        IF k = 0 THEN first ELSE NextNominalAfter(occ[k - 1], s)
  IN  occ

\* Index of the last occurrence the walk accepts as missed by now.
LastMissed(p, now) ==
  LET occ == Chain(p.schedule, p.next_nominal)
  IN  CHOOSE k \in 0..(MaxMissedScan - 1) :
        /\ \A i \in 1..k : Due(p.revision, occ[i]) <= now
        /\ k + 1 < MaxMissedScan => Due(p.revision, occ[k + 1]) > now

Capped(p, now) == LastMissed(p, now) + 1 >= MaxMissedScan

FutureNominal_FromNow(p, now) == NextNominalAfter(now, p.schedule)
FutureNominal(p, now) ==
  IF Capped(p, now) THEN NextNominalAfter(now, p.schedule)
  ELSE Chain(p.schedule, p.next_nominal)[LastMissed(p, now) + 1]

\* The occurrence the cursor stands at, and those after it.
Missed(p, now) ==
  {p.next_nominal} \cup
    {Chain(p.schedule, p.next_nominal)[k] : k \in 1..LastMissed(p, now)}

(***************************************************************************)
(* Policies and jobs.                                                      *)
(***************************************************************************)

\* The record with its next occurrence, as create, update and evaluate write it.
WithNext(p, nominal) ==
  [p EXCEPT !.next_nominal = nominal, !.next_due = Due(p.revision, nominal)]

Scheduled(p) == p.state = "enabled" /\ p.schedule.mode # "manual"

Recomputed(p, now) ==
  IF Scheduled(p) THEN WithNext(p, NextNominalAfter(now, p.schedule))
  ELSE [p EXCEPT !.next_nominal = None, !.next_due = None]

Absent ==
  [state |-> "absent", revision |-> 0, schedule |-> [mode |-> "manual", missed |-> "skip"],
   last_evaluated |-> None, next_nominal |-> None, next_due |-> None]

Exists(id) == policy[id].state # "absent"

\* The reason of the one job for what is due, or "" for none.
Reason(p, now) ==
  IF LastMissed(p, now) = 0 THEN "scheduled"
  ELSE CASE p.schedule.missed = "skip" -> ""
         [] p.schedule.missed = "coalesce" -> "coalesced"
         [] OTHER -> "catch_up"

Eligible(p, now) ==
  CASE Reason(p, now) = "scheduled" -> p.next_due
    [] Reason(p, now) = "coalesced" -> now
    [] OTHER -> Due(p.revision, Chain(p.schedule, p.next_nominal)[LastMissed(p, now)])

\* idempotency_digest("scheduled", policy, revision, reason, first nominal).
Key(id, p, now) == <<id, p.revision, Reason(p, now), p.next_nominal>>

Admit_NoLookup(job) == jobs' = jobs \cup {job}

\* _new_job: a job with the same key is returned as it is.
Admit(job) ==
  jobs' = IF \E j \in jobs : j.key = job.key THEN jobs ELSE jobs \cup {job}

(***************************************************************************)
(* The callers of cycle.                                                   *)
(***************************************************************************)

Idle == [pc |-> "idle", now |-> None, todo |-> {}, at |-> Nobody]

\* cycle: selected_now = utc_instant(now), before any lock.
Sample(c) ==
  /\ cycle[c].pc = "idle"
  /\ cycle' = [cycle EXCEPT ![c] = [Idle EXCEPT !.pc = "sampled", !.now = clock]]
  /\ UNCHANGED <<clock, policy, jobs, holder, env>>

\* _hold_lifecycle and hold are not blocking: a busy lock ends the cycle.
Enter(c) ==
  /\ cycle[c].pc = "sampled"
  /\ IF holder = Nobody
     THEN /\ holder' = c
          /\ cycle' = [cycle EXCEPT ![c].pc = "policy",
                                     ![c].todo = {id \in Policies : Exists(id)}]
     ELSE /\ cycle' = [cycle EXCEPT ![c] = Idle]
          /\ UNCHANGED holder
  /\ UNCHANGED <<clock, policy, jobs, env>>

Visit(c, id) == holder = c /\ cycle[c].pc = "policy" /\ id \in cycle[c].todo
Visited(c, id) ==
  cycle' = [cycle EXCEPT ![c].pc = "policy", ![c].todo = @ \ {id}, ![c].at = Nobody]

Write_NextDue(c, id, p) ==
  policy' = [policy EXCEPT ![id] = [p EXCEPT !.last_evaluated = p.next_due]]

Write(c, id, p) ==
  policy' = [policy EXCEPT ![id] = [p EXCEPT !.last_evaluated = cycle[c].now]]

Reversed(p, now) == p.last_evaluated # None /\ now < p.last_evaluated

PassOver(c, id) ==
  /\ Visit(c, id) /\ ~Scheduled(policy[id])
  /\ Visited(c, id)
  /\ UNCHANGED <<clock, policy, jobs, holder, env>>

ClockReversal(c, id) ==
  /\ Visit(c, id) /\ Scheduled(policy[id]) /\ Reversed(policy[id], cycle[c].now)
  /\ Write(c, id, Recomputed(policy[id], cycle[c].now))
  /\ Visited(c, id)
  /\ UNCHANGED <<clock, jobs, holder, env>>

IsDue_Nominal(p, now) == p.next_nominal <= now
IsDue(p, now) == p.next_due <= now

Evaluable(c, id) ==
  Visit(c, id) /\ Scheduled(policy[id]) /\ ~Reversed(policy[id], cycle[c].now)

NotDue(c, id) ==
  /\ Evaluable(c, id) /\ ~IsDue(policy[id], cycle[c].now)
  /\ Write(c, id, policy[id])
  /\ Visited(c, id)
  /\ UNCHANGED <<clock, jobs, holder, env>>

\* The job for what is due; the cursor still stands before it.
CreateJob(c, id) ==
  LET now == cycle[c].now  p == policy[id] IN
  /\ Evaluable(c, id) /\ IsDue(p, now)
  /\ IF Reason(p, now) = "" THEN UNCHANGED jobs
     ELSE Admit([key |-> Key(id, p, now), eligible |-> Eligible(p, now),
                 created |-> now, covers |-> Missed(p, now)])
  /\ cycle' = [cycle EXCEPT ![c].pc = "cursor", ![c].at = id]
  /\ UNCHANGED <<clock, policy, holder, env>>

MoveCursor(c, id) ==
  LET now == cycle[c].now  p == policy[id] IN
  /\ holder = c /\ cycle[c].pc = "cursor" /\ cycle[c].at = id
  /\ Write(c, id, WithNext(p, FutureNominal(p, now)))
  /\ Visited(c, id)
  /\ UNCHANGED <<clock, jobs, holder, env>>

Leave(c) ==
  /\ holder = c /\ cycle[c].pc = "policy" /\ cycle[c].todo = {}
  /\ holder' = Nobody /\ cycle' = [cycle EXCEPT ![c] = Idle]
  /\ UNCHANGED <<clock, policy, jobs, env>>

Crash_KeepsLock(c) ==
  /\ cycle[c].pc # "idle" /\ crashes < MaxCrashes
  /\ crashes' = crashes + 1
  /\ cycle' = [cycle EXCEPT ![c] = Idle]
  /\ UNCHANGED <<clock, policy, jobs, holder, clockSets>>

\* The process that runs the cycle dies; the locks go with it.
Crash(c) ==
  /\ cycle[c].pc # "idle" /\ crashes < MaxCrashes
  /\ crashes' = crashes + 1
  /\ cycle' = [cycle EXCEPT ![c] = Idle]
  /\ holder' = IF holder = c THEN Nobody ELSE holder
  /\ UNCHANGED <<clock, policy, jobs, clockSets>>

(***************************************************************************)
(* The operator and the clock.                                             *)
(***************************************************************************)

Revised(p, state, schedule) ==
  [p EXCEPT !.state = state, !.schedule = schedule, !.revision = @ + 1, !.last_evaluated = None]

\* create_policy, and update_policy of an existing record: a new revision.
\* evaluate treats a disabled policy as it treats a paused one.
SavePolicy(id, state, schedule) ==
  /\ holder = Nobody /\ policy[id].revision < MaxRevision
  /\ policy' = [policy EXCEPT ![id] = Recomputed(Revised(policy[id], state, schedule), clock)]
  /\ UNCHANGED <<clock, jobs, cycle, holder, env>>

\* run_now, in any state of the policy; a repeated request finds its job, whose
\* instants no property tells apart.
RunNow(id, request) ==
  /\ holder = Nobody /\ Exists(id)
  /\ Admit([key |-> <<id, policy[id].revision, "manual", request>>,
            eligible |-> None, created |-> None, covers |-> {}])
  /\ UNCHANGED <<clock, policy, cycle, holder, env>>

Tick ==
  /\ clock < MaxTime
  /\ clock' = clock + 1
  /\ UNCHANGED <<policy, jobs, cycle, holder, env>>

SetBack ==
  /\ clockSets < MaxClockSets
  /\ clock > 0 /\ clock' = clock - 1
  /\ clockSets' = clockSets + 1
  /\ UNCHANGED <<policy, jobs, cycle, holder, crashes>>

Init ==
  /\ clock = 0
  /\ policy = [id \in Policies |-> Absent]
  /\ jobs = {}
  /\ cycle = [c \in Cycles |-> Idle]
  /\ holder = Nobody
  /\ crashes = 0 /\ clockSets = 0

Evaluate(c) ==
  \/ Enter(c) \/ Leave(c)
  \/ \E id \in Policies :
       PassOver(c, id) \/ ClockReversal(c, id) \/ NotDue(c, id)
         \/ CreateJob(c, id) \/ MoveCursor(c, id)

Next ==
  \/ \E c \in Cycles : Sample(c) \/ Evaluate(c) \/ Crash(c)
  \/ \E id \in Policies, state \in {"enabled", "paused"}, s \in Schedules :
       SavePolicy(id, state, s)
  \/ \E id \in Policies, request \in Requests : RunNow(id, request)
  \/ Tick \/ SetBack

Spec == Init /\ [][Next]_vars

\* The runtime thread calls cycle again and again while the Browser runs.
FairSpec == Spec /\ \A c \in Cycles : WF_vars(Sample(c) \/ Evaluate(c))

(***************************************************************************)
(* Properties.                                                             *)
(***************************************************************************)

\* What validate_policy_record accepts.
PolicyRecords ==
  {p \in [state : {"absent", "enabled", "paused"}, revision : 0..MaxRevision,
          schedule : [mode : Modes, missed : MissedPolicies],
          last_evaluated : None..MaxTime, next_nominal : Int, next_due : Int] :
     /\ p.next_nominal # None <=> Scheduled(p)
     /\ p.next_due # None <=> Scheduled(p)}

\* The variables keep the shapes of the records the journal stores.
TypeOK ==
  /\ clock \in 0..MaxTime
  /\ DOMAIN policy = Policies /\ \A id \in Policies : policy[id] \in PolicyRecords
  /\ cycle \in [Cycles -> [pc : {"idle", "sampled", "policy", "cursor"}, now : None..MaxTime,
                           todo : SUBSET Policies, at : Policies \cup {Nobody}]]
  /\ holder \in Cycles \cup {Nobody}
  /\ crashes \in 0..MaxCrashes /\ clockSets \in 0..MaxClockSets
  /\ \A j \in jobs : j.eligible \in Int /\ j.created \in None..MaxTime

Automatic == {j \in jobs : j.key[3] # "manual"}

\* No job exists, and no job is eligible, before what it stands for was due:
\* jitter and the quiet window are honoured by every occurrence it covers.
NeverEarly ==
  \A j \in Automatic :
    /\ j.eligible <= j.created
    /\ \A n \in j.covers : Due(j.key[2], n) <= j.created

\* However often evaluate is repeated, by crashes, stale samples or a clock set
\* back, one occurrence starts at most one punctual and one belated job.
ReplayBounded ==
  \A j, k \in Automatic :
    /\ j # k
    /\ <<j.key[1], j.key[2], j.key[4]>> = <<k.key[1], k.key[2], k.key[4]>>
    => "scheduled" \in {j.key[3], k.key[3]} /\ j.key[3] # k.key[3]

\* The cursor passes an occurrence only when it was due and, unless the policy
\* skips what it missed, a durable job stands for the backlog it belongs to: that
\* job covers it, or was created before it was due by an evaluation that is repeated
\* (a crash, a clock set back).  Only a scan that reached its bound gives more up.
NothingForgotten ==
  [][\A c \in Cycles, id \in Policies :
       LET p == policy[id]  now == cycle[c].now  q == policy'[id] IN
       /\ holder = c /\ Scheduled(p) /\ ~Reversed(p, now)
       /\ q # p /\ ~Capped(p, now)
       => \A k \in 0..MaxMissedScan :
            LET n == Chain(p.schedule, p.next_nominal)[k] IN
            n < q.next_nominal =>
              /\ Due(p.revision, n) <= now
              /\ \/ p.schedule.missed = "skip"
                 \/ \E j \in jobs' :
                      /\ j.key[1] = id /\ j.key[2] = p.revision /\ p.next_nominal \in j.covers
                      /\ n \in j.covers \/ j.created < Due(p.revision, n)]_vars

\* A policy whose occurrence is due is evaluated: its next occurrence comes to
\* lie ahead of the clock again, whoever dies on the way.
DueHandled ==
  \A id \in Policies :
    (Scheduled(policy[id]) /\ policy[id].next_due <= clock)
      ~> (Scheduled(policy[id]) => policy[id].next_due > clock)

(***************************************************************************)
(* Promises the code does not keep; the README tells how.                  *)
(***************************************************************************)

\* One occurrence of a policy revision leads to one job: evaluate creates at
\* most one job for the occurrences it finds due, and never finds them again.
OccurrenceOnce ==
  \A j, k \in Automatic :
    j # k /\ j.key[1] = k.key[1] /\ j.key[2] = k.key[2] => j.covers \cap k.covers = {}

\* Every occurrence the cursor passes has a job that was created for it.
NoneGivenUp ==
  [][\A c \in Cycles, id \in Policies :
       LET p == policy[id]  now == cycle[c].now IN
       /\ cycle[c].pc = "cursor" /\ cycle[c].at = id /\ policy'[id] # p
       /\ ~Capped(p, now) /\ p.schedule.missed # "skip"
       => \A n \in Missed(p, now) : \E j \in jobs' : n \in j.covers /\ j.key[1] = id]_vars

\* While the wall clock is not set back, no evaluation moves the cursor of a
\* policy back to occurrences it has passed.
CursorMonotone ==
  [][\A id \in Policies :
       /\ clockSets = 0 /\ Scheduled(policy[id]) /\ Scheduled(policy'[id])
       /\ policy'[id].revision = policy[id].revision
       => policy'[id].next_nominal >= policy[id].next_nominal]_vars

\* No automatic job becomes eligible inside the policy's quiet window.
QuietKept == \A j \in Automatic : ~Quiet(j.eligible)
=============================================================================
