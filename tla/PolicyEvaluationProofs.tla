----------------------- MODULE PolicyEvaluationProofs -----------------------
(***************************************************************************)
(* Proofs about PolicyEvaluation, for any number of policies, callers of   *)
(* cycle, schedules, revisions, crashes and settings of the clock.         *)
(***************************************************************************)
EXTENDS PolicyEvaluation, WellFoundedInduction, TLAPS

-----------------------------------------------------------------------------
(* The occurrences of a schedule.                                           *)

\* A set of naturals has a smallest member.
LEMMA Smallest ==
  ASSUME NEW T \in SUBSET Nat, T # {}
  PROVE  \E m \in T : \A n \in T : m <= n
<1>1. PICK m \in T : \A n \in T : <<n, m>> \notin OpToRel(<, Nat)
  BY NatLessThanWellFounded, WFMin
<1>2. \A n \in T : ~(n < m)
  BY <1>1, Zenon DEF OpToRel
<1> QED
  BY <1>2

\* The first n occurrences after the first, as _advance_occurrences computes them.
Walk(s, first, n, g) ==
  g = [k \in 0..n |-> IF k = 0 THEN first ELSE NextNominalAfter(g[k - 1], s)]

\* The walk can be taken to any length.
LEMMA WalksExist ==
  ASSUME NEW s, NEW first, NEW M \in Nat
  PROVE  \E g : Walk(s, first, M, g)
<1> DEFINE T == {n \in Nat : \A g : ~Walk(s, first, n, g)}
<1>1. ASSUME T # {} PROVE FALSE
  <2>1. PICK n \in T : \A k \in T : n <= k
    BY <1>1, Smallest
  <2>2. CASE n = 0
    <3> DEFINE g == [k \in 0..0 |-> first]
    <3>1. Walk(s, first, 0, g)
      BY DEF Walk
    <3> QED BY <2>1, <2>2, <3>1
  <2>3. CASE n # 0
    <3>1. n - 1 \in Nat /\ n - 1 \notin T
      BY <2>1, <2>3
    <3>2. PICK h : Walk(s, first, n - 1, h)
      BY <3>1
    <3> DEFINE g == [k \in 0..n |-> IF k = n THEN NextNominalAfter(h[n - 1], s) ELSE h[k]]
    <3>3. \A k \in 0..(n - 1) : h[k] = (IF k = 0 THEN first ELSE NextNominalAfter(h[k - 1], s))
      BY <3>2, Zenon DEF Walk
    <3>4. \A k \in 0..n : k # 0 => k - 1 \in 0..(n - 1)
      BY <2>1
    <3>5. \A k \in 0..(n - 1) : k \in 0..n /\ g[k] = h[k]
      BY <3>1
    <3>6. \A k \in 0..n : g[k] = (IF k = 0 THEN first ELSE NextNominalAfter(g[k - 1], s))
      <4> TAKE k \in 0..n
      <4>1. CASE k = n
        BY <2>3, <3>4, <3>5, <4>1
      <4>2. CASE k # n
        <5>1. k \in 0..(n - 1)
          BY <4>2, <3>1
        <5>2. k # 0 => g[k - 1] = h[k - 1]
          BY <3>4, <3>5
        <5> QED BY <3>3, <3>5, <5>1, <5>2
      <4> QED BY <4>1, <4>2
    <3>7. Walk(s, first, n, g)
      <4>1. g = [k \in 0..n |-> g[k]]
        OBVIOUS
      <4> HIDE DEF g
      <4> QED BY <3>6, <4>1 DEF Walk
    <3> QED BY <2>1, <3>7
  <2> QED BY <2>2, <2>3
<1> QED BY <1>1

\* Chain is the walk of MAX_MISSED_SCAN steps.
LEMMA Unfolded ==
  ASSUME NEW s, NEW first
  PROVE  /\ Chain(s, first)[0] = first
         /\ \A k \in 1..MaxMissedScan :
              Chain(s, first)[k] = NextNominalAfter(Chain(s, first)[k - 1], s)
<1> DEFINE occ == Chain(s, first)
<1>0. MaxMissedScan \in Nat \ {0, 1}
  BY ConstantsAssumption
<1>1. \E g : Walk(s, first, MaxMissedScan, g)
  BY <1>0, WalksExist
<1>2. Walk(s, first, MaxMissedScan, occ)
  BY <1>1, Zenon DEF Walk, Chain
<1> HIDE DEF occ
<1>3. \A k \in 0..MaxMissedScan :
        occ[k] = (IF k = 0 THEN first ELSE NextNominalAfter(occ[k - 1], s))
  BY <1>2, Zenon DEF Walk
<1>4. occ[0] = first /\ \A k \in 1..MaxMissedScan : occ[k] = NextNominalAfter(occ[k - 1], s)
  BY <1>0, <1>3
<1> QED BY <1>4 DEF occ

-----------------------------------------------------------------------------
(* Days, quiet windows and deadlines.                                       *)

\* A time is a time of day on a day.
LEMMA Days ==
  ASSUME NEW t \in Nat
  PROVE  /\ t \div Day \in Nat /\ t % Day \in 0..(Day - 1)
         /\ (t \div Day) * Day \in Nat
         /\ t = (t \div Day) * Day + (t % Day)
<1>0. Day \in Nat /\ Day > 0
  BY ConstantsAssumption
<1>1. t \div Day \in Nat
  BY <1>0, SMT
<1>2. t % Day \in 0..(Day - 1)
  BY <1>0, SMT
<1>3. t = (t \div Day) * Day + (t % Day)
  BY <1>0, SMT
<1>4. (t \div Day) * Day \in Nat
  BY <1>0, <1>1, SMT
<1> QED BY <1>1, <1>2, <1>3, <1>4

\* Days do not overlap.
LEMMA LaterDay ==
  ASSUME NEW x \in Nat, NEW y \in Nat, x < y
  PROVE  x * Day + Day <= y * Day
<1>1. Day \in Nat \ {0}
  BY ConstantsAssumption
<1>2. y - x - 1 \in Nat
  OBVIOUS
<1>3. (y - x - 1) * Day >= 0
  BY <1>1, <1>2
<1>4. (y - x - 1) * Day = y * Day - x * Day - Day
  BY <1>1
<1>5. x * Day \in Nat /\ y * Day \in Nat
  BY <1>1
<1> QED BY <1>1, <1>3, <1>4, <1>5

\* The next occurrence lies ahead.
LEMMA Ahead ==
  ASSUME NEW t \in Nat, NEW s
  PROVE  NextNominalAfter(t, s) \in Nat /\ NextNominalAfter(t, s) > t
<1>0. Day \in Nat \ {0} /\ Interval \in Nat \ {0}
  BY ConstantsAssumption
<1>1. t + Interval \in Nat /\ t + Interval > t
  BY <1>0
<1>2. NextDay(t) \in Nat /\ NextDay(t) > t
  <2> DEFINE q == t \div Day  d == (q + 1) * Day
  <2>1. q \in Nat /\ q * Day \in Nat /\ t % Day \in 0..(Day - 1) /\ t = q * Day + (t % Day)
    BY Days
  <2> HIDE DEF q
  <2>2. d = q * Day + Day
    BY <1>0, <2>1
  <2> HIDE DEF d
  <2>3. d \in Nat /\ d > t /\ d + Day \in Nat /\ d + Day > t
    BY <1>0, <2>1, <2>2
  <2> QED BY <2>3 DEF NextDay, d, q
<1> QED BY <1>1, <1>2 DEF NextNominalAfter

\* A deadline moved out of the quiet window is not moved back, and two deadlines
\* keep their order.
LEMMA QuietOrder ==
  ASSUME NEW t \in Nat, NEW u \in Nat, t <= u
  PROVE  QuietUntil(t) \in Nat /\ t <= QuietUntil(t) /\ QuietUntil(t) <= QuietUntil(u)
<1> DEFINE x == t \div Day  y == u \div Day  X == x * Day  Y == y * Day
           c == t % Day     e == u % Day
<1>0. Day \in Nat \ {0} /\ QuietStart \in 0..(Day - 1) /\ QuietEnd \in 0..(Day - 1)
  BY ConstantsAssumption
<1>1. x \in Nat /\ c \in 0..(Day - 1) /\ X \in Nat /\ t = X + c
  BY Days, Zenon
<1>2. y \in Nat /\ e \in 0..(Day - 1) /\ Y \in Nat /\ u = Y + e
  BY Days, Zenon
<1>3. X = Y \/ X + Day <= Y
  <2>1. CASE x < y
    BY <1>1, <1>2, <2>1, LaterDay
  <2>2. CASE y < x
    <3>1. Y + Day <= X
      BY <1>1, <1>2, <2>2, LaterDay
    <3> HIDE DEF x, y, X, Y, c, e
    <3> QED BY <1>0, <1>1, <1>2, <3>1
  <2>3. CASE x = y
    BY <2>3
  <2> HIDE DEF x, y, X, Y, c, e
  <2> QED BY <1>1, <1>2, <2>1, <2>2, <2>3
<1> DEFINE Inside(a) == IF QuietStart > QuietEnd THEN a >= QuietStart \/ a < QuietEnd
                                                 ELSE QuietStart <= a /\ a < QuietEnd
           Out(a, A) == IF ~Inside(a) THEN A + a
                        ELSE IF QuietStart > QuietEnd /\ a >= QuietStart
                             THEN A + QuietEnd + Day ELSE A + QuietEnd
<1>4. QuietUntil(t) = Out(c, X) /\ QuietUntil(u) = Out(e, Y)
  BY <1>1, <1>2 DEF QuietUntil, Quiet
<1> HIDE DEF x, y, X, Y, c, e
<1>5. Out(c, X) \in Nat /\ t <= Out(c, X)
  BY <1>0, <1>1
<1>6. Out(c, X) <= Out(e, Y)
  BY <1>0, <1>1, <1>2, <1>3
<1> QED BY <1>4, <1>5, <1>6

LEMMA DueOrder ==
  ASSUME NEW r \in Revisions, NEW t \in Nat, NEW u \in Nat, t <= u
  PROVE  Due(r, t) \in Nat /\ t <= Due(r, t) /\ Due(r, t) <= Due(r, u)
<1>1. Jitter[r] \in Nat
  BY ConstantsAssumption
<1> DEFINE a == t + Jitter[r]  b == u + Jitter[r]
<1>2. a \in Nat /\ b \in Nat /\ a <= b /\ t <= a
  BY <1>1
<1>3. Due(r, t) = QuietUntil(a) /\ Due(r, u) = QuietUntil(b)
  BY DEF Due
<1> HIDE DEF a, b
<1>4. QuietUntil(a) \in Nat /\ a <= QuietUntil(a) /\ QuietUntil(a) <= QuietUntil(b)
  BY <1>2, QuietOrder
<1> QED BY <1>2, <1>3, <1>4

\* The occurrences of a walk follow each other.
LEMMA Growing ==
  ASSUME NEW s, NEW first \in Nat
  PROVE  /\ \A k \in 0..MaxMissedScan : Chain(s, first)[k] \in Nat
         /\ \A i, k \in 0..MaxMissedScan : i < k => Chain(s, first)[i] < Chain(s, first)[k]
<1> DEFINE occ == Chain(s, first)
           Good(k) == occ[k] \in Nat /\ \A i \in 0..MaxMissedScan : i < k => occ[i] < occ[k]
           T == {k \in 0..MaxMissedScan : ~Good(k)}
<1>0. MaxMissedScan \in Nat \ {0, 1}
  BY ConstantsAssumption
<1>1. occ[0] = first /\ \A k \in 1..MaxMissedScan : occ[k] = NextNominalAfter(occ[k - 1], s)
  BY Unfolded
<1> HIDE DEF occ
<1>2. ASSUME T # {} PROVE FALSE
  <2>0. T \in SUBSET Nat
    BY <1>0
  <2>1. PICK k \in T : \A i \in T : k <= i
    BY <1>2, <2>0, Smallest, Zenon
  <2>2. CASE k = 0
    BY <1>0, <1>1, <2>1, <2>2
  <2>3. CASE k # 0
    <3>1. k - 1 \in 0..MaxMissedScan /\ k \in 1..MaxMissedScan /\ k - 1 \notin T
      BY <1>0, <2>1, <2>3
    <3>2. Good(k - 1)
      BY <3>1
    <3>3. occ[k] \in Nat /\ occ[k] > occ[k - 1]
      BY <1>1, <3>1, <3>2, Ahead
    <3>4. ASSUME NEW i \in 0..MaxMissedScan, i < k PROVE occ[i] < occ[k]
      <4>1. CASE i = k - 1
        BY <3>3, <4>1
      <4>2. CASE i < k - 1
        <5>1. occ[i] < occ[k - 1] /\ occ[k - 1] \in Nat
          BY <3>2, <4>2
        <5>2. i \notin T /\ Good(i)
          BY <1>0, <2>1, <3>4
        <5> QED BY <3>3, <5>1, <5>2
      <4> QED BY <1>0, <2>1, <3>4, <4>1, <4>2
    <3> QED BY <2>1, <3>3, <3>4
  <2> QED BY <2>2, <2>3
<1> QED BY <1>2 DEF occ

-----------------------------------------------------------------------------
(* The backlog.                                                             *)

\* A set of indices below a bound has a largest member.
LEMMA Largest ==
  ASSUME NEW n \in Nat, NEW S \in SUBSET (0..n), S # {}
  PROVE  \E m \in S : \A k \in S : k <= m
<1> DEFINE T == {n - k : k \in S}
<1>1. T \in SUBSET Nat /\ T # {}
  <2>1. \A k \in S : n - k \in Nat
    OBVIOUS
  <2>2. QED
    BY <2>1
<1> HIDE DEF T
<1>2. PICK x \in T : \A y \in T : x <= y
  BY <1>1, Smallest
<1> USE DEF T
<1>3. PICK m \in S : x = n - m
  OBVIOUS
<1>4. \A k \in S : k <= m
  BY <1>2, <1>3
<1> QED BY <1>4

\* The walk stops at the first occurrence that is not due: those before it were
\* due, and it and those after it were not.
LEMMA Backlog ==
  ASSUME NEW p, p.revision \in Revisions, p.next_nominal \in Nat, NEW now \in Int
  PROVE  LET occ == Chain(p.schedule, p.next_nominal)  last == LastMissed(p, now) IN
         /\ last \in 0..(MaxMissedScan - 1)
         /\ \A i \in 1..last : Due(p.revision, occ[i]) <= now
         /\ \A i \in (last + 1)..(MaxMissedScan - 1) : now < Due(p.revision, occ[i])
         /\ \A i \in 0..MaxMissedScan : occ[i] \in Nat /\ Due(p.revision, occ[i]) \in Nat
<1> DEFINE occ == Chain(p.schedule, p.next_nominal)
           due(i) == Due(p.revision, occ[i])
           Stop(k) == /\ \A i \in 1..k : due(i) <= now
                      /\ k + 1 < MaxMissedScan => due(k + 1) > now
           S == {k \in 0..(MaxMissedScan - 1) : \A i \in 1..k : due(i) <= now}
           last == LastMissed(p, now)
<1>0. MaxMissedScan \in Nat \ {0, 1}
  BY ConstantsAssumption
<1>1. /\ \A i \in 0..MaxMissedScan : occ[i] \in Nat
      /\ \A i, k \in 0..MaxMissedScan : i < k => occ[i] < occ[k]
  BY Growing
<1>2. last = CHOOSE k \in 0..(MaxMissedScan - 1) : Stop(k)
  BY DEF LastMissed
<1> HIDE DEF occ, last
<1>3. \A i \in 0..MaxMissedScan : due(i) \in Nat
  BY <1>1, DueOrder
<1>4. \A i, k \in 0..MaxMissedScan : i < k => due(i) <= due(k)
  <2> SUFFICES ASSUME NEW i \in 0..MaxMissedScan, NEW k \in 0..MaxMissedScan, i < k
               PROVE  due(i) <= due(k)
    OBVIOUS
  <2>1. occ[i] \in Nat /\ occ[k] \in Nat /\ occ[i] <= occ[k]
    BY <1>1
  <2> QED BY <2>1, DueOrder
<1> HIDE DEF due
<1>5. \E k \in 0..(MaxMissedScan - 1) : Stop(k)
  <2>1. MaxMissedScan - 1 \in Nat /\ S \in SUBSET (0..(MaxMissedScan - 1)) /\ 0 \in S
    BY <1>0
  <2> HIDE DEF S
  <2>2. PICK m \in S : \A k \in S : k <= m
    BY <2>1, Largest
  <2> USE DEF S
  <2>3. ASSUME m + 1 < MaxMissedScan PROVE due(m + 1) > now
    <3>1. m + 1 \in 0..(MaxMissedScan - 1) /\ m + 1 \notin S
      BY <1>0, <2>2, <2>3
    <3>2. ~(due(m + 1) <= now)
      BY <2>2, <3>1
    <3> QED BY <1>0, <1>3, <3>1, <3>2
  <2> QED BY <2>2, <2>3
<1>6. last \in 0..(MaxMissedScan - 1) /\ Stop(last)
  BY <1>2, <1>5
<1>7. ASSUME NEW i \in (last + 1)..(MaxMissedScan - 1) PROVE now < due(i)
  <2>1. last + 1 < MaxMissedScan /\ last + 1 \in 0..MaxMissedScan /\ i \in 0..MaxMissedScan
    BY <1>0, <1>6, <1>7
  <2>2. due(last + 1) > now
    BY <1>6, <2>1
  <2>3. due(last + 1) <= due(i)
    <3>1. CASE i = last + 1
      BY <1>3, <2>1, <3>1
    <3>2. CASE last + 1 < i
      BY <1>4, <2>1, <3>2
    <3> QED BY <1>6, <1>7, <2>1, <3>1, <3>2
  <2> QED BY <1>3, <2>1, <2>2, <2>3
<1>8. /\ last \in 0..(MaxMissedScan - 1)
      /\ \A i \in 1..last : due(i) <= now
      /\ \A i \in (last + 1)..(MaxMissedScan - 1) : now < due(i)
      /\ \A i \in 0..MaxMissedScan : occ[i] \in Nat /\ due(i) \in Nat
  BY <1>1, <1>3, <1>6, <1>7
<1> QED BY <1>8 DEF occ, due, last

-----------------------------------------------------------------------------
(* The inductive invariant.                                                 *)

Shape ==
  [state : {"absent", "enabled", "paused"}, revision : 0..MaxRevision,
   schedule : [mode : Modes, missed : MissedPolicies],
   last_evaluated : None..MaxTime, next_nominal : Int, next_due : Int]

\* A policy record, whose cursor stands at an occurrence with its deadline.
Sound(p) ==
  /\ p \in Shape
  /\ IF Scheduled(p)
     THEN /\ p.revision \in Revisions /\ p.next_nominal \in Nat
          /\ p.next_due = Due(p.revision, p.next_nominal)
     ELSE p.next_nominal = None /\ p.next_due = None

\* The sampled times are times, and the policies sound.
Grounded ==
  /\ \A c \in Cycles : cycle[c].pc # "idle" => cycle[c].now # None
  /\ \A id \in Policies : Sound(policy[id])

\* _new_job finds a job by its key, so that a key has one job.
Keyed == \A j, k \in jobs : j.key = k.key => j = k

Reasons == {"scheduled", "coalesced", "catch_up"}

\* What a policy with this schedule calls a job for more than one occurrence.
Belated(s) == IF s.missed = "coalesce" THEN "coalesced" ELSE "catch_up"

\* A job is of a revision its policy has had, and for a reason that the
\* schedule of that revision gives: a new schedule is a new revision.
Booked ==
  /\ \A j \in Automatic :
       /\ j.key[1] \in Policies /\ j.key[2] \in Nat /\ j.key[3] \in Reasons
       /\ j.key = <<j.key[1], j.key[2], j.key[3], j.key[4]>>
       /\ j.key[2] <= policy[j.key[1]].revision
       /\ j.key[2] = policy[j.key[1]].revision =>
            j.key[3] \in {"scheduled", Belated(policy[j.key[1]].schedule)}
  /\ \A j, k \in Automatic :
       j.key[1] = k.key[1] /\ j.key[2] = k.key[2] =>
         j.key[3] = k.key[3] \/ "scheduled" \in {j.key[3], k.key[3]}

\* A policy as it stood when its cursor was at first.
At(p, first) ==
  [schedule |-> p.schedule, revision |-> p.revision, next_nominal |-> first]

\* A job of the policy's own revision covers what was missed when it was created.
Backed ==
  \A j \in Automatic :
    j.key[2] = policy[j.key[1]].revision =>
      /\ j.key[2] \in Revisions /\ j.key[4] \in Nat /\ j.created \in Nat
      /\ j.covers = Missed(At(policy[j.key[1]], j.key[4]), j.created)

\* Between the job and the cursor, the lock is held, the occurrence is due and
\* the job is there.
Stands ==
  /\ \A c \in Cycles : cycle[c].pc \in {"policy", "cursor"} => holder = c
  /\ \A c \in Cycles :
       LET id == cycle[c].at  p == policy[id]  now == cycle[c].now IN
       cycle[c].pc = "cursor" =>
         /\ id \in Policies /\ Scheduled(p) /\ IsDue(p, now)
         /\ p.schedule.missed = "skip" \/ \E j \in jobs : j.key = Key(id, p, now)

\* What is known of the jobs and of the policies they belong to.
Ledger == Keyed /\ Booked /\ NeverEarly /\ Backed

IInv == TypeOK /\ Grounded /\ Ledger /\ Stands

-----------------------------------------------------------------------------
(* The policy records.                                                      *)

\* What validate_policy_record accepts is what the invariant says of a policy.
LEMMA SoundRecord == ASSUME NEW p, Sound(p) PROVE p \in PolicyRecords
<1>1. p \in Shape /\ None = -1
  BY DEF Sound, None
<1>2. CASE Scheduled(p)
  <2>1. p.revision \in Revisions /\ p.next_nominal \in Nat
        /\ p.next_due = Due(p.revision, p.next_nominal)
    BY <1>2 DEF Sound
  <2>2. p.next_due \in Nat
    BY <2>1, DueOrder
  <2>3. p.next_nominal # None /\ p.next_due # None
    BY <1>1, <2>1, <2>2
  <2> QED BY <1>1, <1>2, <2>3 DEF PolicyRecords, Shape
<1>3. CASE ~Scheduled(p)
  <2>1. p.next_nominal = None /\ p.next_due = None
    BY <1>3 DEF Sound
  <2> QED BY <1>1, <1>3, <2>1 DEF PolicyRecords, Shape
<1> QED BY <1>2, <1>3

\* The next occurrence is written with its deadline.
LEMMA NextSound ==
  ASSUME NEW p \in Shape, Scheduled(p), p.revision \in Revisions, NEW n \in Nat
  PROVE  LET q == WithNext(p, n) IN
         /\ Sound(q) /\ Scheduled(q) /\ q.revision = p.revision /\ q.schedule = p.schedule
         /\ q.next_nominal = n
<1> DEFINE d == Due(p.revision, n)
           q == [p EXCEPT !.next_nominal = n, !.next_due = d]
<1>1. WithNext(p, n) = q
  BY DEF WithNext
<1>2. n \in Int /\ d \in Int
  BY DueOrder
<1> HIDE DEF d
<1>3. /\ q \in Shape /\ q.revision = p.revision /\ q.schedule = p.schedule /\ q.state = p.state
      /\ q.next_nominal = n /\ q.next_due = d
  BY <1>2 DEF Shape
<1> HIDE DEF q
<1>4. Scheduled(q)
  BY <1>3 DEF Scheduled
<1>5. Sound(q)
  BY <1>3, <1>4 DEF Sound, d
<1> QED BY <1>1, <1>3, <1>4, <1>5

\* Create and update write a whole record, with its next occurrence.
LEMMA RecomputedSound ==
  ASSUME NEW p \in Shape, p.revision \in Revisions, NEW t \in Nat
  PROVE  LET q == Recomputed(p, t) IN
         Sound(q) /\ q.revision = p.revision /\ q.schedule = p.schedule
<1>1. CASE Scheduled(p)
  <2>1. NextNominalAfter(t, p.schedule) \in Nat
    BY Ahead
  <2> QED BY <1>1, <2>1, NextSound DEF Recomputed
<1>2. CASE ~Scheduled(p)
  <2> DEFINE q == [p EXCEPT !.next_nominal = None, !.next_due = None]
  <2>1. Recomputed(p, t) = q
    BY <1>2 DEF Recomputed
  <2>0. None \in Int
    BY DEF None
  <2>2. /\ q \in Shape /\ q.revision = p.revision /\ q.schedule = p.schedule
        /\ q.state = p.state /\ q.next_nominal = None /\ q.next_due = None
    BY <2>0 DEF Shape
  <2> HIDE DEF q
  <2>3. ~Scheduled(q)
    BY <1>2, <2>2 DEF Scheduled
  <2> QED BY <2>1, <2>2, <2>3 DEF Sound
<1> QED BY <1>1, <1>2

\* An evaluation writes a record again, with the sampled time.
LEMMA EvaluatedSound ==
  ASSUME NEW p, Sound(p), NEW t \in None..MaxTime
  PROVE  LET q == [p EXCEPT !.last_evaluated = t] IN
         /\ Sound(q) /\ q.revision = p.revision /\ q.schedule = p.schedule
         /\ q.next_nominal = p.next_nominal
<1> DEFINE q == [p EXCEPT !.last_evaluated = t]
<1>1. p \in Shape
  BY DEF Sound
<1>2. /\ q \in Shape /\ q.revision = p.revision /\ q.schedule = p.schedule
      /\ q.state = p.state /\ q.next_nominal = p.next_nominal /\ q.next_due = p.next_due
  BY <1>1 DEF Shape
<1> HIDE DEF q
<1>3. Scheduled(q) = Scheduled(p)
  BY <1>2 DEF Scheduled
<1>4. Sound(q)
  BY <1>2, <1>3 DEF Sound
<1> QED BY <1>2, <1>4 DEF q

\* A save is a new revision.
LEMMA RevisedShape ==
  ASSUME NEW p, Sound(p), p.revision < MaxRevision,
         NEW state \in {"enabled", "paused"}, NEW schedule \in Schedules
  PROVE  LET q == Revised(p, state, schedule) IN
         q \in Shape /\ q.revision = p.revision + 1 /\ q.revision \in Revisions
<1> DEFINE r == p.revision + 1
           q == [p EXCEPT !.state = state, !.schedule = schedule, !.revision = r,
                          !.last_evaluated = None]
<1>1. p \in Shape /\ schedule \in [mode : Modes, missed : MissedPolicies]
  BY ConstantsAssumption DEF Sound
<1>2. p.revision \in 0..MaxRevision /\ MaxRevision \in Nat /\ MaxTime \in Nat
  BY <1>1, ConstantsAssumption DEF Shape
<1>3. r \in 0..MaxRevision /\ r \in Revisions /\ None \in None..MaxTime
  BY <1>2 DEF Revisions, None
<1>4. Revised(p, state, schedule) = q
  BY DEF Revised
<1>5. r = p.revision + 1
  OBVIOUS
<1> HIDE DEF r
<1>6. q \in Shape /\ q.revision = r
  BY <1>1, <1>3 DEF Shape
<1> QED BY <1>3, <1>4, <1>5, <1>6

-----------------------------------------------------------------------------
(* What the steps do.                                                       *)

\* A missed backlog depends on the schedule, the revision and the cursor only.
LEMMA SameBacklog ==
  ASSUME NEW p, NEW q, p.schedule = q.schedule, p.revision = q.revision,
         p.next_nominal = q.next_nominal, NEW t
  PROVE  /\ LastMissed(p, t) = LastMissed(q, t) /\ Missed(p, t) = Missed(q, t)
         /\ Reason(p, t) = Reason(q, t)
<1>1. LastMissed(p, t) = LastMissed(q, t)
  BY Zenon DEF LastMissed
<1>2. Missed(p, t) = Missed(q, t)
  BY <1>1, Zenon DEF Missed
<1>3. Reason(p, t) = Reason(q, t)
  BY <1>1, Zenon DEF Reason
<1> QED BY <1>1, <1>2, <1>3

\* While c holds the lock, it may write a policy of the same revision.
Writes(c, id, q) ==
  /\ holder = c /\ cycle[c].pc \in {"policy", "cursor"}
  /\ Sound(q) /\ q.revision = policy[id].revision /\ q.schedule = policy[id].schedule
  /\ policy' = [policy EXCEPT ![id] = q]
  /\ Visited(c, id)
  /\ UNCHANGED <<clock, jobs, holder, env>>

\* The cursor moves to an occurrence.
LEMMA FutureSound ==
  ASSUME NEW p, p.revision \in Revisions, p.next_nominal \in Nat, NEW now \in Nat
  PROVE  FutureNominal(p, now) \in Nat
<1>1. /\ LastMissed(p, now) \in 0..(MaxMissedScan - 1) /\ MaxMissedScan \in Nat
      /\ \A i \in 0..MaxMissedScan : Chain(p.schedule, p.next_nominal)[i] \in Nat
  BY Backlog, ConstantsAssumption
<1>2. CASE Capped(p, now)
  BY <1>2, Ahead DEF FutureNominal
<1>3. CASE ~Capped(p, now)
  <2>1. LastMissed(p, now) + 1 \in 0..MaxMissedScan
    BY <1>1
  <2> QED BY <1>1, <1>3, <2>1 DEF FutureNominal
<1> QED BY <1>2, <1>3

\* What an evaluation writes is a sound policy of the same revision.
LEMMA Writing ==
  ASSUME TypeOK, Grounded, Stands, NEW c \in Cycles, NEW id \in Policies,
         ClockReversal(c, id) \/ NotDue(c, id) \/ MoveCursor(c, id)
  PROVE  \E q : Writes(c, id, q)
<1> DEFINE p == policy[id]  now == cycle[c].now
           W(r) == [r EXCEPT !.last_evaluated = now]
<1>0. holder = c /\ cycle[c].pc \in {"policy", "cursor"} /\ UNCHANGED <<clock, jobs, holder, env>>
      /\ Visited(c, id)
  BY DEF ClockReversal, NotDue, MoveCursor, Evaluable, Visit
<1>1. Sound(p) /\ p \in Shape
  BY DEF Grounded, Sound
<1>2. now \in None..MaxTime /\ now \in Nat
  <2>1. now \in None..MaxTime /\ now # None
    BY <1>0 DEF TypeOK, Grounded
  <2> QED BY <2>1, ConstantsAssumption DEF None
<1>3. Scheduled(p)
  BY DEF ClockReversal, NotDue, MoveCursor, Evaluable, Stands
<1>4. p.revision \in Revisions /\ p.next_nominal \in Nat
  BY <1>1, <1>3 DEF Sound
<1>5. PICK r : /\ Sound(r) /\ r.revision = p.revision /\ r.schedule = p.schedule
               /\ policy' = [policy EXCEPT ![id] = W(r)]
  <2>1. CASE ClockReversal(c, id)
    BY <1>1, <1>2, <1>4, <2>1, RecomputedSound DEF ClockReversal, Write
  <2>2. CASE NotDue(c, id)
    BY <1>1, <2>2 DEF NotDue, Write
  <2>3. CASE MoveCursor(c, id)
    BY <1>1, <1>2, <1>3, <1>4, <2>3, FutureSound, NextSound DEF MoveCursor, Write
  <2> QED BY <2>1, <2>2, <2>3
<1>6. Sound(W(r)) /\ W(r).revision = p.revision /\ W(r).schedule = p.schedule
  BY <1>2, <1>5, EvaluatedSound
<1> HIDE DEF W
<1> QED BY <1>0, <1>5, <1>6 DEF Writes

\* The steps that touch neither a policy nor a job.
Quiets ==
  \/ \E c \in Cycles : Sample(c) \/ Enter(c) \/ Leave(c) \/ Crash(c)
  \/ \E c \in Cycles, id \in Policies : PassOver(c, id)
  \/ Tick \/ SetBack \/ UNCHANGED vars

LEMMA Steps ==
  ASSUME TypeOK, Grounded, Stands, [Next]_vars
  PROVE  \/ Quiets
         \/ \E c \in Cycles, id \in Policies : CreateJob(c, id) \/ \E q : Writes(c, id, q)
         \/ \E id \in Policies, state \in {"enabled", "paused"}, s \in Schedules :
              SavePolicy(id, state, s)
         \/ \E id \in Policies, request \in Requests : RunNow(id, request)
BY Writing, Zenon DEF Next, Evaluate, Quiets

\* A quiet step leaves the policies and the jobs as they are.
LEMMA QuietKeeps == Quiets => UNCHANGED <<policy, jobs>>
BY DEF Quiets, Sample, Enter, Leave, Crash, PassOver, Tick, SetBack, vars

-----------------------------------------------------------------------------
(* The types.                                                               *)

\* The clock, the lock, the bounds and the callers of cycle.
Frame ==
  /\ clock \in 0..MaxTime
  /\ cycle \in [Cycles -> [pc : {"idle", "sampled", "policy", "cursor"}, now : None..MaxTime,
                           todo : SUBSET Policies, at : Policies \cup {Nobody}]]
  /\ holder \in Cycles \cup {Nobody}
  /\ crashes \in 0..MaxCrashes /\ clockSets \in 0..MaxClockSets
  /\ \A c \in Cycles : cycle[c].pc # "idle" => cycle[c].now # None

LEMMA FrameKept ==
  ASSUME TypeOK, Grounded, Stands, [Next]_vars
  PROVE  Frame'
<1> USE ConstantsAssumption DEF Frame, env
<1>0. Frame /\ 0..MaxTime \subseteq None..MaxTime /\ None \in None..MaxTime /\ None \notin 0..MaxTime
  BY DEF TypeOK, Grounded, None
<1>i. Idle = [pc |-> "idle", now |-> None, todo |-> {}, at |-> Nobody]
  BY DEF Idle
<1> HIDE ConstantsAssumption
<1>1. ASSUME NEW c \in Cycles, Sample(c) PROVE Frame'
  BY <1>0, <1>1 DEF Sample, Idle
<1>2. ASSUME NEW c \in Cycles, Enter(c) PROVE Frame'
  <2>1. CASE cycle' = [cycle EXCEPT ![c] = Idle] /\ UNCHANGED holder
    BY <1>0, <1>2, <1>i, <2>1 DEF Enter
  <2>2. CASE /\ cycle' = [cycle EXCEPT ![c].pc = "policy", ![c].todo = {id \in Policies : Exists(id)}]
             /\ holder' = c
    <3> DEFINE todo == {id \in Policies : Exists(id)}
    <3>1. todo \in SUBSET Policies
      OBVIOUS
    <3> HIDE DEF todo
    <3>2. cycle' = [cycle EXCEPT ![c] = [@ EXCEPT !.pc = "policy", !.todo = todo]]
      BY <1>0, <2>2 DEF todo
    <3>3. [cycle[c] EXCEPT !.pc = "policy", !.todo = todo]
            \in [pc : {"idle", "sampled", "policy", "cursor"}, now : None..MaxTime,
                todo : SUBSET Policies, at : Policies \cup {Nobody}]
      BY <1>0, <3>1
    <3>4. [cycle[c] EXCEPT !.pc = "policy", !.todo = todo].now = cycle[c].now
          /\ cycle[c].pc # "idle"
      BY <1>0, <1>2 DEF Enter
    <3> DEFINE r == [cycle[c] EXCEPT !.pc = "policy", !.todo = todo]
    <3>5. cycle' = [cycle EXCEPT ![c] = r] /\ r.now # None
      BY <1>0, <3>2, <3>4
    <3>6. UNCHANGED <<clock, crashes, clockSets>> /\ holder' \in Cycles \cup {Nobody}
      BY <1>2, <2>2 DEF Enter
    <3> HIDE DEF r
    <3>7. /\ cycle' \in [Cycles -> [pc : {"idle", "sampled", "policy", "cursor"},
                                   now : None..MaxTime, todo : SUBSET Policies,
                                   at : Policies \cup {Nobody}]]
          /\ \A x \in Cycles : cycle'[x].pc # "idle" => cycle'[x].now # None
      BY <1>0, <3>3, <3>5 DEF r
    <3> QED BY <1>0, <3>6, <3>7
  <2> QED BY <1>2, <2>1, <2>2 DEF Enter
<1>3. ASSUME NEW c \in Cycles, Leave(c) \/ Crash(c) PROVE Frame'
  <2>1. cycle' = [cycle EXCEPT ![c] = Idle] /\ UNCHANGED <<clock, clockSets>>
    BY <1>3 DEF Leave, Crash
  <2>2. crashes' \in 0..MaxCrashes /\ holder' \in Cycles \cup {Nobody}
    BY <1>0, <1>3, ConstantsAssumption DEF Leave, Crash
  <2> QED BY <1>0, <1>i, <2>1, <2>2
<1>4. ASSUME NEW c \in Cycles, NEW id \in Policies, Visited(c, id),
             cycle[c].pc \in {"policy", "cursor"}, UNCHANGED <<clock, holder, env>>
      PROVE  Frame'
  BY <1>0, <1>4, ZenonT(40) DEF Visited
<1>5. ASSUME NEW c \in Cycles, NEW id \in Policies, CreateJob(c, id) PROVE Frame'
  BY <1>0, <1>5 DEF CreateJob, Evaluable, Visit
<1>6. CASE \/ \E id \in Policies, state \in {"enabled", "paused"}, s \in Schedules :
                SavePolicy(id, state, s)
           \/ \E id \in Policies, request \in Requests : RunNow(id, request)
           \/ UNCHANGED vars
  BY <1>0, <1>6 DEF SavePolicy, RunNow, vars
<1>7. CASE Tick \/ SetBack
  BY <1>0, <1>7, ConstantsAssumption DEF Tick, SetBack
<1>8. ASSUME NEW c \in Cycles, NEW id \in Policies, PassOver(c, id) PROVE Frame'
  BY <1>4, <1>8 DEF PassOver, Visit
<1>9. ASSUME NEW c \in Cycles, NEW id \in Policies, NEW q, Writes(c, id, q) PROVE Frame'
  BY <1>4, <1>9 DEF Writes
<1> QED BY <1>1, <1>2, <1>3, <1>5, <1>6, <1>7, <1>8, <1>9, Steps DEF Quiets

\* The policy records.
LEMMA PoliciesKept ==
  ASSUME TypeOK, Grounded, Stands, [Next]_vars
  PROVE  DOMAIN policy' = Policies /\ \A id \in Policies : Sound(policy'[id])
<1>0. DOMAIN policy = Policies /\ \A id \in Policies : Sound(policy[id])
  BY DEF TypeOK, Grounded
<1>1. CASE policy' = policy
  BY <1>0, <1>1
<1>2. ASSUME NEW id \in Policies, NEW q, Sound(q), policy' = [policy EXCEPT ![id] = q]
      PROVE  DOMAIN policy' = Policies /\ \A x \in Policies : Sound(policy'[x])
  BY <1>0, <1>2
<1>3. ASSUME NEW id \in Policies, NEW state \in {"enabled", "paused"}, NEW s \in Schedules,
             SavePolicy(id, state, s)
      PROVE  \E q : Sound(q) /\ policy' = [policy EXCEPT ![id] = q]
  <2>1. Sound(policy[id]) /\ policy[id].revision < MaxRevision /\ clock \in Nat
    BY <1>0, <1>3, ConstantsAssumption DEF SavePolicy, TypeOK
  <2> DEFINE r == Revised(policy[id], state, s)
  <2>2. r \in Shape /\ r.revision \in Revisions
    BY <2>1, RevisedShape
  <2>3. policy' = [policy EXCEPT ![id] = Recomputed(r, clock)]
    BY <1>3 DEF SavePolicy
  <2> HIDE DEF r
  <2> QED BY <2>1, <2>2, <2>3, RecomputedSound
<1>4. ASSUME NEW c \in Cycles, NEW id \in Policies, CreateJob(c, id) PROVE policy' = policy
  BY <1>4 DEF CreateJob
<1>5. ASSUME NEW id \in Policies, NEW request \in Requests, RunNow(id, request) PROVE policy' = policy
  BY <1>5 DEF RunNow
<1>6. ASSUME NEW c \in Cycles, NEW id \in Policies, NEW q, Writes(c, id, q)
      PROVE  Sound(q) /\ policy' = [policy EXCEPT ![id] = q]
  BY <1>6 DEF Writes
<1> QED BY <1>1, <1>2, <1>3, <1>4, <1>5, <1>6, QuietKeeps, Steps

\* What CreateJob writes: the job of the backlog, when there is a reason for one.
Job(id, p, now) ==
  [key |-> Key(id, p, now), eligible |-> Eligible(p, now), created |-> now,
   covers |-> Missed(p, now)]

\* A job is due when it is created, and so is what it covers.
LEMMA JobSound ==
  ASSUME NEW id, NEW p, Sound(p), Scheduled(p), NEW now \in Nat, IsDue(p, now),
         Reason(p, now) \in {"scheduled", Belated(p.schedule)}
  PROVE  /\ Eligible(p, now) \in Int /\ Eligible(p, now) <= now
         /\ \A n \in Missed(p, now) : Due(p.revision, n) <= now
<1> DEFINE last == LastMissed(p, now)  occ == Chain(p.schedule, p.next_nominal)
<1>1. /\ p.revision \in Revisions /\ p.next_nominal \in Nat
      /\ p.next_due = Due(p.revision, p.next_nominal) /\ p.next_due <= now
  BY DEF Sound, IsDue
<1>2. p.next_due \in Nat
  <2>1. p.next_nominal <= p.next_nominal
    BY <1>1
  <2> HIDE DEF last, occ
  <2> QED BY <1>1, <2>1, DueOrder
<1>a. MaxMissedScan \in Nat /\ now \in Int
  BY ConstantsAssumption
<1>3. /\ last \in 0..(MaxMissedScan - 1) /\ MaxMissedScan \in Nat
      /\ \A i \in 1..last : Due(p.revision, occ[i]) <= now
      /\ \A i \in 0..MaxMissedScan : Due(p.revision, occ[i]) \in Nat
  BY <1>1, <1>a, Backlog
<1>4. \A n \in Missed(p, now) : Due(p.revision, n) <= now
  BY <1>1, <1>3 DEF Missed
<1>6. CASE last = 0
  <2>1. Eligible(p, now) = p.next_due
    BY <1>6, Zenon DEF Reason, Eligible, last
  <2> QED BY <1>1, <1>2, <1>4, <2>1
<1>7. CASE last # 0 /\ p.schedule.missed = "coalesce"
  <2>1. Eligible(p, now) = now
    BY <1>7, Zenon DEF Reason, Eligible, last
  <2> QED BY <1>4, <2>1
<1> HIDE DEF last, occ
<1>8. CASE last # 0 /\ p.schedule.missed # "coalesce"
  <2>1. Eligible(p, now) = Due(p.revision, occ[last])
    BY <1>8, Zenon DEF Reason, Eligible, Belated, last, occ
  <2>2. last \in 1..last /\ last \in 0..MaxMissedScan
    BY <1>3, <1>8
  <2> QED BY <1>3, <1>4, <2>1, <2>2
<1> QED BY <1>6, <1>7, <1>8

\* A job is created, found, or there is no reason for one.
LEMMA Creation ==
  ASSUME TypeOK, Grounded, NEW c \in Cycles, NEW id \in Policies, CreateJob(c, id)
  PROVE  LET p == policy[id]  now == cycle[c].now IN
         /\ holder = c /\ now \in Nat /\ now \in None..MaxTime
         /\ Sound(p) /\ Scheduled(p) /\ IsDue(p, now)
         /\ \/ p.schedule.missed = "skip" /\ jobs' = jobs
            \/ jobs' = jobs /\ \E j \in jobs : j.key = Key(id, p, now)
            \/ /\ Reason(p, now) \in {"scheduled", Belated(p.schedule)}
               /\ jobs' = jobs \cup {Job(id, p, now)}
               /\ \A j \in jobs : j.key # Key(id, p, now)
<1> DEFINE p == policy[id]  now == cycle[c].now
<1>1. holder = c /\ cycle[c].pc = "policy" /\ Scheduled(p) /\ IsDue(p, now)
  BY DEF CreateJob, Evaluable, Visit
<1>2. now \in None..MaxTime /\ now \in Nat
  <2>1. now \in None..MaxTime /\ now # None
    BY <1>1 DEF TypeOK, Grounded
  <2> QED BY <2>1, ConstantsAssumption DEF None
<1>3. Job(id, p, now).key = Key(id, p, now)
  BY DEF Job
<1>4. IF Reason(p, now) = "" THEN jobs' = jobs
      ELSE jobs' = IF \E j \in jobs : j.key = Job(id, p, now).key THEN jobs
                   ELSE jobs \cup {Job(id, p, now)}
  BY Zenon DEF CreateJob, Admit, Job
<1>6. Reason(p, now) = "" => p.schedule.missed = "skip"
  BY Zenon DEF Reason
<1>7. Reason(p, now) # "" => Reason(p, now) \in {"scheduled", Belated(p.schedule)}
  BY Zenon DEF Reason, Belated
<1>5. Sound(p)
  BY DEF Grounded
<1>8. \/ p.schedule.missed = "skip" /\ jobs' = jobs
      \/ jobs' = jobs /\ \E j \in jobs : j.key = Key(id, p, now)
      \/ /\ Reason(p, now) \in {"scheduled", Belated(p.schedule)}
         /\ jobs' = jobs \cup {Job(id, p, now)}
         /\ \A j \in jobs : j.key # Key(id, p, now)
  <2>1. CASE Reason(p, now) = ""
    BY <1>4, <1>6, <2>1, Zenon
  <2>2. CASE Reason(p, now) # "" /\ \E j \in jobs : j.key = Job(id, p, now).key
    BY <1>3, <1>4, <2>2, Zenon
  <2>3. CASE Reason(p, now) # "" /\ ~\E j \in jobs : j.key = Job(id, p, now).key
    BY <1>3, <1>4, <1>7, <2>3, Zenon
  <2> QED BY <2>1, <2>2, <2>3, Zenon
<1> QED BY <1>1, <1>2, <1>5, <1>8

\* The instants of the jobs.
LEMMA JobsKept ==
  ASSUME TypeOK, Grounded, Stands, [Next]_vars
  PROVE  \A j \in jobs' : j.eligible \in Int /\ j.created \in None..MaxTime
<1>0. \A j \in jobs : j.eligible \in Int /\ j.created \in None..MaxTime
  BY DEF TypeOK
<1>1. CASE jobs' = jobs
  BY <1>0, <1>1
<1>2. ASSUME NEW c \in Cycles, NEW id \in Policies, CreateJob(c, id)
      PROVE  \A j \in jobs' : j.eligible \in Int /\ j.created \in None..MaxTime
  <2> DEFINE p == policy[id]  now == cycle[c].now
  <2>1. CASE jobs' = jobs
    BY <1>0, <2>1
  <2>2. CASE /\ Reason(p, now) \in {"scheduled", Belated(p.schedule)}
             /\ jobs' = jobs \cup {Job(id, p, now)}
    <3>1. Eligible(p, now) \in Int /\ now \in None..MaxTime
      BY <1>2, <2>2, Creation, JobSound
    <3>2. Job(id, p, now).eligible = Eligible(p, now) /\ Job(id, p, now).created = now
      BY DEF Job
    <3> QED BY <1>0, <2>2, <3>1, <3>2
  <2> QED BY <1>2, <2>1, <2>2, Creation
<1>3. ASSUME NEW id \in Policies, NEW request \in Requests, RunNow(id, request)
      PROVE  \A j \in jobs' : j.eligible \in Int /\ j.created \in None..MaxTime
  <2>1. None \in Int /\ None \in None..MaxTime
    BY ConstantsAssumption DEF None
  <2> QED BY <1>0, <1>3, <2>1 DEF RunNow, Admit
<1>4. ASSUME NEW id \in Policies, NEW state, NEW s, SavePolicy(id, state, s) PROVE jobs' = jobs
  BY <1>4 DEF SavePolicy
<1>5. ASSUME NEW c \in Cycles, NEW id \in Policies, NEW q, Writes(c, id, q) PROVE jobs' = jobs
  BY <1>5 DEF Writes
<1> QED BY <1>1, <1>2, <1>3, <1>4, <1>5, QuietKeeps, Steps

LEMMA TypesKept ==
  ASSUME TypeOK, Grounded, Stands, [Next]_vars
  PROVE  TypeOK' /\ Grounded'
<1>1. Frame'
  BY FrameKept
<1>2. DOMAIN policy' = Policies /\ \A id \in Policies : Sound(policy'[id])
  BY PoliciesKept
<1>3. \A id \in Policies : policy'[id] \in PolicyRecords
  BY <1>2, SoundRecord
<1>4. \A j \in jobs' : j.eligible \in Int /\ j.created \in None..MaxTime
  BY JobsKept
<1> QED BY <1>1, <1>2, <1>3, <1>4 DEF Frame, TypeOK, Grounded

-----------------------------------------------------------------------------
(* The jobs.                                                                *)

\* An evaluation that writes a policy leaves its revision and its schedule.
LEMMA WriteLedger ==
  ASSUME IInv, NEW c \in Cycles, NEW id \in Policies, NEW q, Writes(c, id, q)
  PROVE  Ledger'
<1>1. jobs' = jobs /\ policy' = [policy EXCEPT ![id] = q]
      /\ q.revision = policy[id].revision /\ q.schedule = policy[id].schedule
  BY DEF Writes
<1>2. \A x \in Policies :
        policy'[x].revision = policy[x].revision /\ policy'[x].schedule = policy[x].schedule
  BY <1>1 DEF IInv, TypeOK
<1>3. \A x \in Policies : \A n : At(policy'[x], n) = At(policy[x], n)
  BY <1>2 DEF At
<1>4. Automatic' = Automatic
  BY <1>1 DEF Automatic
<1>5. Keyed' /\ Booked' /\ NeverEarly'
  BY <1>1, <1>2, <1>4 DEF IInv, Ledger, Keyed, Booked, NeverEarly
<1>6. Backed'
  <2> SUFFICES ASSUME NEW j \in Automatic, j.key[2] = policy'[j.key[1]].revision
               PROVE  /\ j.key[2] \in Revisions /\ j.key[4] \in Nat /\ j.created \in Nat
                      /\ j.covers = Missed(At(policy'[j.key[1]], j.key[4]), j.created)
    BY <1>4, Zenon DEF Backed
  <2>1. j.key[1] \in Policies
    BY DEF IInv, Ledger, Booked
  <2> QED BY <1>2, <1>3, <2>1, Zenon DEF IInv, Ledger, Backed
<1> QED BY <1>5, <1>6 DEF Ledger

\* The job evaluate creates is due, of the policy's own revision, and covers what
\* was missed.
LEMMA CreateLedger ==
  ASSUME IInv, NEW c \in Cycles, NEW id \in Policies, CreateJob(c, id)
  PROVE  Ledger'
<1> DEFINE p == policy[id]  now == cycle[c].now  job == Job(id, p, now)
<1>0. policy' = policy
  BY DEF CreateJob
<1>1. now \in Nat /\ Sound(p) /\ Scheduled(p) /\ IsDue(p, now)
  BY Creation DEF IInv
<1>2. CASE jobs' = jobs
  BY <1>0, <1>2 DEF IInv, Ledger, Keyed, Booked, NeverEarly, Backed, Automatic
<1>3. CASE /\ Reason(p, now) \in {"scheduled", Belated(p.schedule)}
           /\ jobs' = jobs \cup {job} /\ \A j \in jobs : j.key # Key(id, p, now)
  <2>1. /\ job.key = <<id, p.revision, Reason(p, now), p.next_nominal>>
        /\ job.eligible = Eligible(p, now) /\ job.created = now /\ job.covers = Missed(p, now)
    BY DEF Job, Key
  <2>2. p.revision \in Revisions /\ p.next_nominal \in Nat /\ p.revision \in Nat
    BY <1>1 DEF Sound, Revisions
  <2>3. Eligible(p, now) <= now /\ \A n \in Missed(p, now) : Due(p.revision, n) <= now
    BY <1>1, <1>3, JobSound
  <2>4. Reason(p, now) \in Reasons /\ Reason(p, now) # "manual"
    BY <1>3 DEF Belated, Reasons
  <2>5. Missed(p, now) = Missed(At(p, p.next_nominal), now)
    <3>1. /\ At(p, p.next_nominal).schedule = p.schedule
          /\ At(p, p.next_nominal).revision = p.revision
          /\ At(p, p.next_nominal).next_nominal = p.next_nominal
      BY DEF At
    <3> QED BY <3>1, SameBacklog
  <2>6. job.key[1] = id /\ job.key[2] = p.revision /\ job.key[3] = Reason(p, now)
        /\ job.key[4] = p.next_nominal
    BY <2>1
  <2>k. job.key = Key(id, p, now)
    BY DEF Job
  <2> HIDE DEF job, now
  <2>7. Automatic' = Automatic \cup {job}
    BY <1>3, <2>4, <2>6 DEF Automatic
  <2>8. Keyed'
    BY <1>3, <2>k DEF IInv, Ledger, Keyed
  <2>9. NeverEarly'
    BY <2>1, <2>3, <2>6, <2>7 DEF IInv, Ledger, NeverEarly
  <2>10. Booked'
    BY <1>0, <1>3, <2>1, <2>2, <2>4, <2>6, <2>7 DEF IInv, Ledger, Booked, Belated
  <2>11. Backed'
    <3> SUFFICES ASSUME NEW j \in Automatic', j.key[2] = policy[j.key[1]].revision
                 PROVE  /\ j.key[2] \in Revisions /\ j.key[4] \in Nat /\ j.created \in Nat
                        /\ j.covers = Missed(At(policy[j.key[1]], j.key[4]), j.created)
      BY <1>0, Zenon DEF Backed
    <3>1. CASE j \in Automatic
      BY <3>1, Zenon DEF IInv, Ledger, Backed
    <3>2. CASE j = job
      BY <1>1, <2>1, <2>2, <2>5, <2>6, <3>2
    <3> QED BY <2>7, <3>1, <3>2
  <2> QED BY <2>8, <2>9, <2>10, <2>11 DEF Ledger
<1> QED BY <1>2, <1>3, Creation DEF IInv

\* A save begins a revision that no job is of.
LEMMA SaveLedger ==
  ASSUME IInv, NEW id \in Policies, NEW state \in {"enabled", "paused"}, NEW s \in Schedules,
         SavePolicy(id, state, s)
  PROVE  Ledger'
<1> DEFINE p == policy[id]  r == Revised(p, state, s)  q == Recomputed(r, clock)
<1>1. Sound(p) /\ p.revision < MaxRevision /\ clock \in Nat
  BY ConstantsAssumption DEF SavePolicy, IInv, TypeOK, Grounded
<1>2. r \in Shape /\ r.revision = p.revision + 1 /\ r.revision \in Revisions
  BY <1>1, RevisedShape
<1>3. policy' = [policy EXCEPT ![id] = q] /\ jobs' = jobs
  BY DEF SavePolicy
<1> HIDE DEF r
<1>4. q.revision = p.revision + 1
  BY <1>1, <1>2, RecomputedSound
<1>5. p.revision \in Nat
  BY <1>1, ConstantsAssumption DEF Sound, Shape
<1> HIDE DEF q
<1>6. \A x \in Policies : \/ policy'[x] = policy[x]
                          \/ policy'[x].revision = policy[x].revision + 1 /\ policy[x].revision \in Nat
  BY <1>3, <1>4, <1>5 DEF IInv, TypeOK
<1>7. Automatic' = Automatic
  BY <1>3 DEF Automatic
<1>8. \A j \in Automatic : /\ j.key[1] \in Policies /\ j.key[2] \in Nat
                           /\ j.key[2] <= policy[j.key[1]].revision
  BY DEF IInv, Ledger, Booked
<1>9. \A j \in Automatic : j.key[2] = policy'[j.key[1]].revision => policy'[j.key[1]] = policy[j.key[1]]
  BY <1>6, <1>8
<1>10. \A j \in Automatic : j.key[2] <= policy'[j.key[1]].revision
  BY <1>6, <1>8
<1>11. Keyed' /\ NeverEarly'
  BY <1>3, <1>7 DEF IInv, Ledger, Keyed, NeverEarly
<1>12. Booked'
  BY <1>7, <1>9, <1>10 DEF IInv, Ledger, Booked
<1>13. Backed'
  <2> SUFFICES ASSUME NEW j \in Automatic, j.key[2] = policy'[j.key[1]].revision
               PROVE  /\ j.key[2] \in Revisions /\ j.key[4] \in Nat /\ j.created \in Nat
                      /\ j.covers = Missed(At(policy'[j.key[1]], j.key[4]), j.created)
    BY <1>7, Zenon DEF Backed
  <2>1. policy'[j.key[1]] = policy[j.key[1]]
    BY <1>9
  <2> QED BY <2>1, Zenon DEF IInv, Ledger, Backed
<1> QED BY <1>11, <1>12, <1>13 DEF Ledger

\* run_now creates a manual job, or finds it.
LEMMA RunLedger ==
  ASSUME IInv, NEW id \in Policies, NEW request \in Requests, RunNow(id, request)
  PROVE  Ledger'
<1> DEFINE job == [key |-> <<id, policy[id].revision, "manual", request>>,
                   eligible |-> None, created |-> None, covers |-> {}]
<1>1. /\ jobs' = (IF \E j \in jobs : j.key = job.key THEN jobs ELSE jobs \cup {job})
      /\ policy' = policy /\ job.key[3] = "manual"
  BY DEF RunNow, Admit
<1> HIDE DEF job
<1>2. Automatic' = Automatic
  BY <1>1 DEF Automatic
<1>3. Keyed'
  BY <1>1 DEF IInv, Ledger, Keyed
<1> QED BY <1>1, <1>2, <1>3, Zenon DEF IInv, Ledger, Booked, NeverEarly, Backed

LEMMA LedgerKept ==
  ASSUME IInv, [Next]_vars
  PROVE  Ledger'
<1>1. TypeOK /\ Grounded /\ Stands
  BY DEF IInv
<1>2. CASE UNCHANGED <<policy, jobs>>
  BY <1>2, Zenon DEF IInv, Ledger, Keyed, Booked, NeverEarly, Backed, Automatic
<1> QED BY <1>1, <1>2, QuietKeeps, Steps, WriteLedger, CreateLedger, SaveLedger, RunLedger

-----------------------------------------------------------------------------
(* Between the job and the cursor.                                          *)

\* With these jobs, a caller at this policy stands at a due occurrence, whose job
\* is there.
Standing(js, id, p, now) ==
  /\ id \in Policies /\ Scheduled(p) /\ IsDue(p, now)
  /\ p.schedule.missed = "skip" \/ \E j \in js : j.key = Key(id, p, now)

LEMMA StandingKept ==
  ASSUME NEW id, NEW p, NEW now, Standing(jobs, id, p, now), jobs \subseteq jobs'
  PROVE  Standing(jobs', id, p, now)
BY DEF Standing

LEMMA StandsKept ==
  ASSUME IInv, [Next]_vars
  PROVE  Stands'
<1> DEFINE Here(c)  == Standing(jobs, cycle[c].at, policy[cycle[c].at], cycle[c].now)
           There(c) == Standing(jobs', cycle'[c].at, policy'[cycle'[c].at], cycle'[c].now)
           Kept == /\ \A c \in Cycles : cycle'[c].pc \in {"policy", "cursor"} => holder' = c
                   /\ \A c \in Cycles : cycle'[c].pc = "cursor" => There(c)
<1>0. /\ TypeOK /\ Grounded /\ Stands
      /\ \A c \in Cycles : cycle[c].pc = "cursor" => Here(c)
      /\ \A c \in Cycles : cycle[c].pc \in {"policy", "cursor"} => holder = c
  BY Zenon DEF IInv, Stands, Standing
<1>s. Kept => Stands'
  BY Zenon DEF Stands, Standing
<1>t. Nobody \notin Cycles /\ DOMAIN cycle = Cycles
  BY <1>0, ConstantsAssumption DEF TypeOK
<1>f. jobs \subseteq jobs'
  <2>1. \A c \in Cycles, id \in Policies : CreateJob(c, id) => jobs \subseteq jobs'
    BY DEF CreateJob, Admit
  <2>2. \A id \in Policies, request \in Requests : RunNow(id, request) => jobs \subseteq jobs'
    BY DEF RunNow, Admit
  <2> QED BY <1>0, <2>1, <2>2, QuietKeeps, Steps DEF Writes, SavePolicy
<1>k. ASSUME NEW c \in Cycles, Here(c), cycle'[c] = cycle[c], policy' = policy
      PROVE  There(c)
  BY <1>f, <1>k, StandingKept
<1> HIDE DEF Here, There
<1>1. ASSUME NEW c \in Cycles, Sample(c) PROVE Kept
  <2>1. /\ \A x \in Cycles : x # c => cycle'[x] = cycle[x]
        /\ cycle'[c].pc = "sampled" /\ UNCHANGED <<holder, policy>>
    BY <1>1, <1>t DEF Sample, Idle
  <2> QED BY <1>0, <1>k, <2>1
<1>2. ASSUME NEW c \in Cycles, Enter(c) PROVE Kept
  <2>1. CASE holder = Nobody
    <3>1. /\ holder' = c /\ policy' = policy
          /\ cycle' = [cycle EXCEPT ![c].pc = "policy", ![c].todo = {id \in Policies : Exists(id)}]
      BY <1>2, <2>1 DEF Enter
    <3>2. \A x \in Cycles : x # c => cycle'[x] = cycle[x]
      BY <1>t, <3>1
    <3>3. cycle'[c].pc = "policy"
      <4> DEFINE todo == {id \in Policies : Exists(id)}
      <4>1. cycle[c] \in [pc : {"idle", "sampled", "policy", "cursor"}, now : None..MaxTime,
                          todo : SUBSET Policies, at : Policies \cup {Nobody}]
        BY <1>0 DEF TypeOK
      <4>2. cycle'[c] = [cycle[c] EXCEPT !.pc = "policy", !.todo = todo]
        BY <1>t, <3>1
      <4> HIDE DEF todo
      <4> QED BY <4>1, <4>2
    <3> QED BY <1>0, <1>k, <1>t, <2>1, <3>1, <3>2, <3>3
  <2>2. CASE holder # Nobody
    <3>1. /\ \A x \in Cycles : x # c => cycle'[x] = cycle[x]
          /\ holder' = holder /\ cycle'[c].pc = "idle" /\ policy' = policy
      BY <1>2, <1>t, <2>2 DEF Enter, Idle
    <3> QED BY <1>0, <1>k, <3>1
  <2> QED BY <2>1, <2>2
<1>3. ASSUME NEW c \in Cycles, Leave(c) \/ Crash(c) PROVE Kept
  <2>1. /\ \A x \in Cycles : x # c => cycle'[x] = cycle[x]
        /\ cycle'[c].pc = "idle" /\ policy' = policy
        /\ \A x \in Cycles : x # c /\ holder = x => holder' = x
    BY <1>3, <1>t DEF Leave, Crash, Idle
  <2> QED BY <1>0, <1>k, <2>1
<1>4. ASSUME NEW c \in Cycles, NEW id \in Policies, Visited(c, id), holder = c, holder' = holder
      PROVE  Kept
  <2>1. /\ \A x \in Cycles : x # c => cycle'[x] = cycle[x]
        /\ cycle'[c].pc = "policy"
    BY <1>0, <1>4, <1>t DEF Visited, TypeOK
  <2> QED BY <1>0, <1>4, <2>1
<1>5. ASSUME NEW c \in Cycles, NEW id \in Policies, CreateJob(c, id) PROVE Kept
  <2>1. /\ holder = c /\ holder' = holder /\ policy' = policy
        /\ cycle' = [cycle EXCEPT ![c].pc = "cursor", ![c].at = id]
    BY <1>5 DEF CreateJob, Evaluable, Visit
  <2>2. /\ \A x \in Cycles : x # c => cycle'[x] = cycle[x]
        /\ cycle'[c].pc = "cursor" /\ cycle'[c].at = id /\ cycle'[c].now = cycle[c].now
    BY <1>0, <2>1 DEF TypeOK
  <2> DEFINE p == policy[id]  now == cycle[c].now
  <2>3. Standing(jobs', id, p, now)
    <3>1. Job(id, p, now).key = Key(id, p, now)
      BY DEF Job
    <3> QED BY <1>0, <1>5, <3>1, Creation DEF Standing
  <2>4. There(c)
    BY <2>1, <2>2, <2>3 DEF There
  <2> QED BY <1>0, <2>1, <2>2, <2>4
<1>6. ASSUME UNCHANGED <<cycle, holder, policy>> PROVE Kept
  BY <1>0, <1>k, <1>6
<1>7. ASSUME NEW id \in Policies, NEW state, NEW s, SavePolicy(id, state, s) PROVE Kept
  BY <1>0, <1>t, <1>7 DEF SavePolicy
<1>8. ASSUME NEW c \in Cycles, NEW id \in Policies, PassOver(c, id) PROVE Kept
  BY <1>4, <1>8 DEF PassOver, Visit
<1>9. ASSUME NEW c \in Cycles, NEW id \in Policies, NEW q, Writes(c, id, q) PROVE Kept
  BY <1>4, <1>9 DEF Writes
<1>10. (\/ Tick \/ SetBack \/ UNCHANGED vars
        \/ \E id \in Policies, request \in Requests : RunNow(id, request))
       => UNCHANGED <<cycle, holder, policy>>
  BY DEF Tick, SetBack, RunNow, vars
<1> HIDE DEF Kept
<1>11. ASSUME Quiets PROVE Kept
  BY <1>1, <1>2, <1>3, <1>6, <1>8, <1>10, <1>11 DEF Quiets
<1>12. \/ Quiets
       \/ \E c \in Cycles, id \in Policies : CreateJob(c, id) \/ \E q : Writes(c, id, q)
       \/ \E id \in Policies, state \in {"enabled", "paused"}, s \in Schedules :
            SavePolicy(id, state, s)
       \/ \E id \in Policies, request \in Requests : RunNow(id, request)
  BY <1>0, Steps
<1>13. Kept
  BY <1>5, <1>6, <1>7, <1>9, <1>10, <1>11, <1>12
<1> QED BY <1>s, <1>13

-----------------------------------------------------------------------------
(* The theorems.                                                            *)

LEMMA Initially == Init => IInv
<1> SUFFICES ASSUME Init PROVE IInv
  OBVIOUS
<1>c. MaxTime \in Nat /\ MaxRevision \in Nat /\ MaxCrashes \in Nat /\ MaxClockSets \in Nat
      /\ None \in None..MaxTime /\ None \in Int
  BY ConstantsAssumption DEF None
<1>1. Sound(Absent)
  <2>1. Absent \in Shape
    BY <1>c DEF Absent, Shape, Modes, MissedPolicies
  <2>2. ~Scheduled(Absent) /\ Absent.next_nominal = None /\ Absent.next_due = None
    BY DEF Absent, Scheduled
  <2> QED BY <2>1, <2>2 DEF Sound
<1>2. Absent \in PolicyRecords
  BY <1>1, SoundRecord
<1>3. \A c \in Cycles : cycle[c].pc = "idle"
  BY DEF Init, Idle
<1>4. TypeOK
  BY <1>c, <1>2 DEF Init, TypeOK, Idle
<1>5. Grounded
  BY <1>1, <1>3 DEF Init, Grounded
<1>6. Ledger
  BY DEF Init, Ledger, Keyed, Booked, NeverEarly, Backed, Automatic
<1>7. Stands
  BY <1>3 DEF Stands
<1> QED BY <1>4, <1>5, <1>6, <1>7 DEF IInv

LEMMA Inductive == IInv /\ [Next]_vars => IInv'
<1> SUFFICES ASSUME IInv, [Next]_vars PROVE IInv'
  OBVIOUS
<1>1. TypeOK /\ Grounded /\ Stands
  BY DEF IInv
<1>2. TypeOK' /\ Grounded'
  BY <1>1, TypesKept
<1>3. Ledger' /\ Stands'
  BY LedgerKept, StandsKept
<1> QED BY <1>2, <1>3 DEF IInv

LEMMA Invariance == Spec => []IInv
BY Initially, Inductive, PTL DEF Spec

\* TypeOK, for every instance: every policy record evaluate, create_policy and
\* update_policy write is one validate_policy_record accepts.
THEOREM TypeCorrect == Spec => []TypeOK
<1>1. IInv => TypeOK
  BY DEF IInv
<1> QED BY <1>1, Invariance, PTL

\* NeverEarly, for every instance: whatever offset, quiet window and schedule a
\* policy has, however stale the sampled time is and wherever the clock is set.
THEOREM Punctual == Spec => []NeverEarly
<1>1. IInv => NeverEarly
  BY DEF IInv, Ledger
<1> QED BY <1>1, Invariance, PTL

\* ReplayBounded, for every instance: evaluate may be repeated for an occurrence
\* any number of times, by crashes between the job and the cursor, stale samples
\* and a clock that is set back, and starts one punctual and one belated job.
THEOREM Bounded == Spec => []ReplayBounded
<1>1. ASSUME IInv PROVE ReplayBounded
  <2> SUFFICES ASSUME NEW j \in Automatic, NEW k \in Automatic, j # k,
                      <<j.key[1], j.key[2], j.key[4]>> = <<k.key[1], k.key[2], k.key[4]>>
               PROVE  "scheduled" \in {j.key[3], k.key[3]} /\ j.key[3] # k.key[3]
    BY DEF ReplayBounded
  <2>1. j.key[3] # k.key[3]
    BY <1>1 DEF IInv, Ledger, Keyed, Booked, Automatic
  <2> QED BY <1>1, <2>1 DEF IInv, Ledger, Booked
<1> QED BY <1>1, Invariance, PTL

\* Only the caller that stands between the job and the cursor moves a cursor on.
LEMMA OnlyMoves ==
  ASSUME IInv, [Next]_vars, NEW c \in Cycles, NEW id \in Policies,
         holder = c, Scheduled(policy[id]), ~Reversed(policy[id], cycle[c].now)
  PROVE  \/ policy'[id].next_nominal = policy[id].next_nominal
         \/ MoveCursor(c, id)
<1>1. TypeOK /\ Grounded /\ Stands /\ DOMAIN policy = Policies
  BY DEF IInv, TypeOK
<1>2. Nobody \notin Cycles
  BY ConstantsAssumption
<1>3. ASSUME NEW d \in Cycles, NEW x \in Policies, ClockReversal(d, x)
      PROVE  policy'[id] = policy[id]
  <2>1. holder = d /\ Reversed(policy[x], cycle[d].now)
    BY <1>3 DEF ClockReversal, Visit
  <2>2. x # id
    BY <2>1
  <2> QED BY <1>1, <1>3, <2>2 DEF ClockReversal, Write
<1>4. ASSUME NEW d \in Cycles, NEW x \in Policies, NotDue(d, x)
      PROVE  policy'[id].next_nominal = policy[id].next_nominal
  <2>1. CASE x = id
    <3>1. Sound(policy[id]) /\ cycle[d].now \in None..MaxTime
      BY <1>1 DEF Grounded, TypeOK
    <3>2. policy'[id] = [policy[id] EXCEPT !.last_evaluated = cycle[d].now]
      BY <1>1, <1>4, <2>1 DEF NotDue, Write
    <3> QED BY <3>1, <3>2, EvaluatedSound
  <2>2. CASE x # id
    BY <1>1, <1>4, <2>2 DEF NotDue, Write
  <2> QED BY <2>1, <2>2
<1>5. ASSUME NEW d \in Cycles, NEW x \in Policies, MoveCursor(d, x)
      PROVE  policy'[id] = policy[id] \/ MoveCursor(c, id)
  <2>1. d = c
    BY <1>5 DEF MoveCursor
  <2> QED BY <1>1, <1>5, <2>1 DEF MoveCursor, Write
<1>6. \A x, state, s : ~SavePolicy(x, state, s)
  BY <1>2 DEF SavePolicy
<1>7. CASE policy' = policy
  BY <1>7
<1>8. ASSUME NEW d \in Cycles, NEW x \in Policies, CreateJob(d, x) PROVE policy' = policy
  BY <1>8 DEF CreateJob
<1>9. ASSUME NEW x \in Policies, NEW request \in Requests, RunNow(x, request)
      PROVE  policy' = policy
  BY <1>9 DEF RunNow
<1> QED BY <1>3, <1>4, <1>5, <1>6, <1>7, <1>8, <1>9, QuietKeeps DEF Next, Evaluate, Quiets

\* A job created for a backlog covers every occurrence that was due by then.
LEMMA Covering ==
  ASSUME NEW p, p.revision \in Revisions, p.next_nominal \in Nat, NEW t \in Nat,
         NEW k \in 0..(MaxMissedScan - 1)
  PROVE  LET n == Chain(p.schedule, p.next_nominal)[k] IN
         n \in Missed(p, t) \/ t < Due(p.revision, n)
<1> DEFINE last == LastMissed(p, t)  occ == Chain(p.schedule, p.next_nominal)
<1>0. t \in Int /\ MaxMissedScan \in Nat
  BY ConstantsAssumption
<1>1. /\ last \in 0..(MaxMissedScan - 1)
      /\ \A i \in (last + 1)..(MaxMissedScan - 1) : t < Due(p.revision, occ[i])
  BY <1>0, Backlog
<1>2. occ[0] = p.next_nominal
  BY Unfolded
<1>3. Missed(p, t) = {p.next_nominal} \cup {occ[i] : i \in 1..last}
  BY DEF Missed
<1> HIDE DEF last, occ
<1>4. k = 0 \/ k \in 1..last \/ k \in (last + 1)..(MaxMissedScan - 1)
  BY <1>0, <1>1
<1>5. occ[k] \in Missed(p, t) \/ t < Due(p.revision, occ[k])
  BY <1>1, <1>2, <1>3, <1>4
<1> QED BY <1>5 DEF occ

\* NothingForgotten, for every instance: the cursor passes an occurrence only when
\* it was due, and leaves a job of its backlog behind that covers it or is older.
THEOREM Remembered == Spec => NothingForgotten
<1>1. ASSUME IInv, [Next]_vars, NEW c \in Cycles, NEW id \in Policies,
             holder = c, Scheduled(policy[id]), ~Reversed(policy[id], cycle[c].now),
             ~Capped(policy[id], cycle[c].now),
             NEW k \in 0..MaxMissedScan,
             Chain(policy[id].schedule, policy[id].next_nominal)[k] < policy'[id].next_nominal
      PROVE  LET p == policy[id]  now == cycle[c].now
                 n == Chain(p.schedule, p.next_nominal)[k] IN
             /\ Due(p.revision, n) <= now
             /\ \/ p.schedule.missed = "skip"
                \/ \E j \in jobs' :
                     /\ j.key[1] = id /\ j.key[2] = p.revision /\ p.next_nominal \in j.covers
                     /\ n \in j.covers \/ j.created < Due(p.revision, n)
  <2> DEFINE p == policy[id]  now == cycle[c].now  last == LastMissed(p, now)
             occ == Chain(p.schedule, p.next_nominal)
  <2>0. MaxMissedScan \in Nat \ {0, 1} /\ TypeOK /\ Grounded /\ Ledger /\ Stands
    BY <1>1, ConstantsAssumption DEF IInv
  <2>1. /\ p.revision \in Revisions /\ p.next_nominal \in Nat
        /\ p.next_due = Due(p.revision, p.next_nominal) /\ p \in Shape
    BY <1>1, <2>0 DEF Grounded, Sound
  <2>2. /\ occ[0] = p.next_nominal /\ \A i \in 0..MaxMissedScan : occ[i] \in Nat
        /\ \A i, l \in 0..MaxMissedScan : i < l => occ[i] < occ[l]
    BY <2>1, Unfolded, Growing
  <2>3. MoveCursor(c, id)
    <3>1. ~(occ[k] < p.next_nominal)
      <4> HIDE DEF occ
      <4>1. k = 0 \/ occ[0] < occ[k]
        BY <2>0, <2>2
      <4> QED BY <2>0, <2>1, <2>2, <4>1
    <3> QED BY <1>1, <3>1, OnlyMoves
  <2>4. cycle[c].pc = "cursor" /\ cycle[c].at = id /\ jobs' = jobs
    BY <2>3 DEF MoveCursor
  <2>5. now \in Nat
    <3>1. now \in None..MaxTime /\ now # None
      BY <2>0, <2>4 DEF TypeOK, Grounded
    <3> QED BY <3>1, ConstantsAssumption DEF None
  <2>6. Standing(jobs, id, p, now)
    BY <2>0, <2>4, Zenon DEF Stands, Standing
  <2>7. /\ last \in 0..(MaxMissedScan - 1)
        /\ \A i \in 1..last : Due(p.revision, occ[i]) <= now
    <3>1. now \in Int
      BY <2>5
    <3> QED BY <2>1, <3>1, Backlog
  <2>8. last + 1 < MaxMissedScan
    BY <1>1, <2>0, <2>7 DEF Capped
  <2>9. policy'[id].next_nominal = occ[last + 1]
    <3> DEFINE q == WithNext(p, FutureNominal(p, now))
    <3>1. FutureNominal(p, now) = occ[last + 1]
      BY <1>1, Zenon DEF FutureNominal
    <3>2. occ[last + 1] \in Nat
      BY <2>0, <2>2, <2>7, <2>8
    <3>3. Sound(q) /\ q.next_nominal = occ[last + 1]
      BY <1>1, <2>1, <3>1, <3>2, NextSound
    <3>4. policy' = [policy EXCEPT ![id] = [q EXCEPT !.last_evaluated = now]]
      BY <2>3 DEF MoveCursor, Write
    <3> HIDE DEF q
    <3>5. now \in None..MaxTime
      BY <2>0 DEF TypeOK
    <3>6. [q EXCEPT !.last_evaluated = now].next_nominal = q.next_nominal
      BY <3>3, <3>5, EvaluatedSound
    <3>7. policy'[id] = [q EXCEPT !.last_evaluated = now]
      BY <2>0, <3>4 DEF TypeOK
    <3> QED BY <3>3, <3>6, <3>7
  <2>10. k <= last
    <3> HIDE DEF occ, last
    <3>1. ~(last + 1 < k) /\ k # last + 1
      BY <1>1, <2>0, <2>2, <2>7, <2>8, <2>9 DEF occ
    <3> QED BY <2>0, <2>7, <3>1
  <2>11. Due(p.revision, occ[k]) <= now
    <3> HIDE DEF last
    <3>1. CASE k = 0
      BY <2>1, <2>2, <2>6, <3>1 DEF Standing, IsDue
    <3>2. CASE k # 0
      BY <2>7, <2>10, <3>2
    <3> QED BY <3>1, <3>2
  <2>12. ASSUME p.schedule.missed # "skip"
         PROVE  \E j \in jobs' :
                  /\ j.key[1] = id /\ j.key[2] = p.revision /\ p.next_nominal \in j.covers
                  /\ occ[k] \in j.covers \/ j.created < Due(p.revision, occ[k])
    <3>1. PICK j \in jobs : j.key = Key(id, p, now)
      BY <2>6, <2>12 DEF Standing
    <3>2. /\ j.key[1] = id /\ j.key[2] = p.revision /\ j.key[3] = Reason(p, now)
          /\ j.key[4] = p.next_nominal
      BY <3>1 DEF Key
    <3>3. Reason(p, now) # "manual"
      BY <2>12, Zenon DEF Reason
    <3>4. j \in Automatic
      BY <3>1, <3>2, <3>3, Zenon DEF Automatic
    <3>5. j.created \in Nat /\ j.covers = Missed(At(p, p.next_nominal), j.created)
      BY <2>0, <3>2, <3>4, Zenon DEF Ledger, Backed
    <3>6. Missed(At(p, p.next_nominal), j.created) = Missed(p, j.created)
      <4>1. /\ At(p, p.next_nominal).schedule = p.schedule
            /\ At(p, p.next_nominal).revision = p.revision
            /\ At(p, p.next_nominal).next_nominal = p.next_nominal
        BY DEF At
      <4> QED BY <4>1, SameBacklog
    <3>7. p.next_nominal \in Missed(p, j.created)
      BY DEF Missed
    <3>8. k \in 0..(MaxMissedScan - 1)
      BY <2>0, <2>7, <2>10
    <3>9. occ[k] \in Missed(p, j.created) \/ j.created < Due(p.revision, occ[k])
      BY <2>1, <3>5, <3>8, Covering
    <3> QED BY <2>4, <3>1, <3>2, <3>5, <3>6, <3>7, <3>9
  <2> QED BY <2>11, <2>12
<1>2. IInv /\ [Next]_vars =>
        (\A c \in Cycles, id \in Policies :
           LET p == policy[id]  now == cycle[c].now  q == policy'[id] IN
           /\ holder = c /\ Scheduled(p) /\ ~Reversed(p, now)
           /\ q # p /\ ~Capped(p, now)
           => \A k \in 0..MaxMissedScan :
                LET n == Chain(p.schedule, p.next_nominal)[k] IN
                n < q.next_nominal =>
                  /\ Due(p.revision, n) <= now
                  /\ \/ p.schedule.missed = "skip"
                     \/ \E j \in jobs' :
                          /\ j.key[1] = id /\ j.key[2] = p.revision /\ p.next_nominal \in j.covers
                          /\ n \in j.covers \/ j.created < Due(p.revision, n))
  BY <1>1, Zenon
<1> QED BY <1>2, Invariance, PTL DEF Spec, NothingForgotten
=============================================================================
