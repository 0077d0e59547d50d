--------------------------- MODULE AiJobsProofs ---------------------------
(***************************************************************************)
(* Proofs about AiJobs, for any number of processes, jobs, attempts,       *)
(* budgets an operator may set, crashes, restores and clock changes.       *)
(***************************************************************************)
EXTENDS AiJobs, FiniteSetTheorems, WellFoundedInduction, TLAPS

-----------------------------------------------------------------------------
(* The inductive invariant.                                                 *)

Loose == {"reserved", "possible", "uncertain"}

\* A row: an attempt that is loose holds its slot and an unknown amount, one that
\* is settled or released does not hold its slot, and a released one is free.
RowOK(row) ==
  /\ row \in RowType
  /\ row.quiescent <=> row.phase \in {"settled", "released"}
  /\ row.phase \in Loose => row.units = Unknown
  /\ row.phase = "settled" => row.units \in Usage \cup {Unknown}
  /\ row.phase = "released" => row.units = 0

Record ==
  [status : Terminal \cup {"absent", "queued", "running", "retry_wait", "paused"},
   terminal : {None, "succeeded", "failed", "cancelled", "uncertain"}, cancel : Cancels,
   generation : Nat, binding : Nat, created : Int, deadline : Int, restored : BOOLEAN,
   retryAt : Int, resumeAt : Int, lease : [heartbeat : Int, expires : Int],
   attempts : Seq(RowType)]

\* An attempt nobody can transmit again: it never was, or the local runtime
\* confirmed that it stopped.
Stale(j, row) == row.phase = "released" \/ (j \in Native /\ row.phase = "settled")

Waiting(r) == Open(r) /\ r.status # "running"

\* What a job record keeps, whoever wrote it.
Good(j, r) ==
  /\ r \in Record /\ Len(r.attempts) <= MaxAttempts
  /\ r.status = "absent" => r = Absent
  /\ r.status = "running" <=> r.lease # NoLease
  /\ r.status = "running" =>
       /\ Len(r.attempts) > 0
       /\ r.terminal = None => Last(r).phase \in {"reserved", "possible"}
  /\ Waiting(r) => r.terminal \in {None, "cancelled"}
  /\ \A k \in 1..Len(r.attempts) :
       LET row == r.attempts[k] IN
       /\ RowOK(row)
       /\ row.phase \in {"reserved", "possible"} =>
            k = Len(r.attempts) /\ r.status = "running" /\ r.terminal = None
       /\ k < Len(r.attempts) \/ (Waiting(r) /\ r.terminal = None) => Stale(j, row)

Busy == {"claimed", "possible", "checked", "sent", "answered"}
NotSent == {"not_sent", "not_sent_transient"}
Processes ==
  [session : BOOLEAN, pc : {"idle", "sampled"} \cup Busy, job : Jobs \cup {None}, attempt : Nat,
   outcome : {None, "possible", "result", "local_failure"} \cup NotSent,
   units : Usage \cup {Unknown}, sample : Int]

Ticket(w) == <<w.job, w.attempt>>
Unsent(w) == w.pc \in {"claimed", "possible", "checked"} \/ (w.pc = "answered" /\ w.outcome \in NotSent)

\* What a worker w relies on: nobody ends its attempt while the lease is its own,
\* and it knows whether the request was transmitted and still executes.
Employed(w, js, sn, rm) ==
  w.pc \in Busy =>
    /\ w.job \in Jobs /\ w.attempt \in 1..Len(js[w.job].attempts)
    /\ js[w.job].status = "running" /\ Len(js[w.job].attempts) = w.attempt =>
         js[w.job].terminal = None
    /\ Unsent(w) => Ticket(w) \notin sn
    /\ w.pc \in {"possible", "checked", "sent"} =>
         js[w.job].attempts[w.attempt].phase \in {"possible", "uncertain"}
    /\ w.pc = "sent" => Ticket(w) \in rm
    /\ w.pc = "answered" =>
         /\ w.outcome # None
         /\ w.outcome \in {"result", "local_failure"} => Ticket(w) \notin rm
         /\ w.outcome = "local_failure" => w.job \in Native

\* No two workers have the same attempt.
Apart(pr) ==
  \A p, q \in Procs : pr[p].pc \in Busy /\ pr[q].pc \in Busy /\ Ticket(pr[p]) = Ticket(pr[q]) => p = q

\* What was transmitted keeps its charge, what executes keeps its slot.
Transmitted(js, sn, rm) ==
  /\ rm \subseteq sn
  /\ \A x \in sn : /\ x \in Rows(js) /\ Row(js, x).phase \in {"possible", "settled", "uncertain"}
                   /\ x \in rm => ~Row(js, x).quiescent

Held(js) == {x \in Rows(js) : ~Row(js, x).quiescent}
Owed(js) == {x \in Rows(js) : Row(js, x).units = Unknown}

\* What is held and what is owed fits a budget an operator set.
Affordable(js) ==
  /\ \E c \in Caps : Cardinality(Held(js)) <= c.concurrency
  /\ \E c \in Caps : Reserve * Cardinality(Owed(js)) <= c.units

Shapes ==
  /\ clock \in 0..MaxTime /\ authority \in [Refs -> Nat]
  /\ control \in [mode : {"off", "enabled", "paused"}, generation : 0..MaxGeneration,
                  revoked : SUBSET Refs, budget : Caps]
  /\ proc \in [Procs -> Processes]
  /\ job = [j \in Jobs |-> job[j]]

Journal(js, pr, sn, rm) ==
  /\ \A j \in Jobs : Good(j, js[j])
  /\ \A p \in Procs : Employed(pr[p], js, sn, rm)
  /\ Transmitted(js, sn, rm)
  /\ Affordable(js)

IInv == Shapes /\ Apart(proc) /\ Journal(job, proc, sent, remote)
-----------------------------------------------------------------------------
(* Job records.                                                             *)

LEMMA DayGrows ==
  ASSUME NEW t \in 0..MaxTime
  PROVE  Day(t) \in 0..Day(MaxTime)
BY AiConstants DEF Day

\* A record whose last row is replaced.
LEMMA WithLastIs ==
  ASSUME NEW r \in Record, Len(r.attempts) > 0, NEW row \in RowType
  PROVE  LET s == WithLast(r, row) IN
         /\ s \in Record /\ Len(s.attempts) = Len(r.attempts)
         /\ \A k \in 1..Len(r.attempts) :
              s.attempts[k] = IF k = Len(r.attempts) THEN row ELSE r.attempts[k]
         /\ s.status = r.status /\ s.terminal = r.terminal /\ s.lease = r.lease
         /\ s.cancel = r.cancel
<1> DEFINE a == [r.attempts EXCEPT ![Len(r.attempts)] = row]
<1>1. r.attempts \in Seq(RowType)
  BY DEF Record
<1>2. /\ a \in Seq(RowType) /\ Len(a) = Len(r.attempts)
      /\ \A k \in 1..Len(r.attempts) : a[k] = IF k = Len(r.attempts) THEN row ELSE r.attempts[k]
  BY <1>1
<1>3. WithLast(r, row) = [r EXCEPT !.attempts = a]
  BY DEF WithLast
<1> HIDE DEF a
<1>4. QED
  BY <1>2, <1>3 DEF Record

\* What other processes, the operator and recovery do to a record: an attempt that
\* never went out may be released, one that may have gone out becomes uncertain.
Faded(a, b) ==
  \/ b = a
  \/ a.phase = "reserved" /\ b.phase = "released" /\ b.quiescent
  \/ a.phase \in {"reserved", "possible"} /\ b.phase = "uncertain" /\ ~b.quiescent
Fading(r, s) ==
  /\ Len(s.attempts) = Len(r.attempts)
  /\ \A k \in 1..Len(r.attempts) : Faded(r.attempts[k], s.attempts[k])
Final(r, s) == r.terminal # None => s.terminal = r.terminal /\ (~Open(r) => s.status = r.status)
Drift(r, s) ==
  /\ Fading(r, s) /\ Final(r, s)
  /\ s.status = "running" => r.status = "running" /\ s.terminal = r.terminal

LEMMA NoDrift == ASSUME NEW r, NEW s, s = r PROVE Drift(r, s)
BY DEF Drift, Fading, Faded, Final

\* The accounting write that ends a running attempt, and the receipt after it.
Ended(r, row, t) == [WithLast(r, row) EXCEPT !.terminal = t]

LEMMA EndedGood ==
  ASSUME NEW j \in Jobs, NEW r, Good(j, r), r.status = "running", r.terminal = None,
         NEW row, RowOK(row), row.phase \notin {"reserved", "possible"},
         NEW t \in {"succeeded", "failed", "cancelled", "uncertain"}
  PROVE  LET s == Ended(r, row, t) IN
         /\ Good(j, s) /\ s.status = "running" /\ s.terminal = t
         /\ Len(s.attempts) = Len(r.attempts)
         /\ \A k \in 1..Len(r.attempts) :
              s.attempts[k] = IF k = Len(r.attempts) THEN row ELSE r.attempts[k]
<1> DEFINE w == WithLast(r, row)  s == [w EXCEPT !.terminal = t]
<1>1. r \in Record /\ Len(r.attempts) > 0 /\ row \in RowType
  BY DEF Good, RowOK
<1>2. /\ w \in Record /\ Len(w.attempts) = Len(r.attempts)
      /\ \A k \in 1..Len(r.attempts) :
           w.attempts[k] = IF k = Len(r.attempts) THEN row ELSE r.attempts[k]
      /\ w.status = r.status /\ w.lease = r.lease
  BY <1>1, WithLastIs
<1> HIDE DEF w
<1>3. /\ s \in Record /\ s.attempts = w.attempts /\ s.status = w.status /\ s.lease = w.lease
      /\ s.terminal = t
  BY <1>2 DEF Record
<1>4. t # None /\ ~Waiting(s)
  BY <1>2, <1>3 DEF None, Waiting
<1> HIDE DEF s
<1>5. Len(r.attempts) \in Nat
  BY <1>1 DEF Record
<1>6. Good(j, s)
  BY <1>2, <1>3, <1>4, <1>5 DEF Good
<1> QED
  BY <1>2, <1>3, <1>6 DEF Ended, s, w

LEMMA FinishGood ==
  ASSUME NEW j \in Jobs, NEW r, Good(j, r), Open(r), r.terminal # None
  PROVE  Good(j, Finish(r)) /\ Drift(r, Finish(r)) /\ ~Open(Finish(r))
<1> DEFINE s == Finish(r)
<1>1. r \in Record
  BY DEF Good
<1>2. /\ s \in Record /\ s.attempts = r.attempts /\ s.terminal = r.terminal
      /\ s.status \in Terminal /\ s.lease = NoLease
  <2> DEFINE st == IF r.terminal = "uncertain" THEN "manual_intervention" ELSE r.terminal
             zero == 0
  <2>1. st \in Terminal
    BY <1>1 DEF Record, Terminal, None
  <2>2. s = [r EXCEPT !.status = st, !.lease = NoLease, !.retryAt = zero] /\ zero \in Int
    BY DEF Finish
  <2>3. NoLease \in [heartbeat : Int, expires : Int]
    BY DEF NoLease
  <2> HIDE DEF st, s, zero
  <2>4. QED
    BY <1>1, <2>1, <2>2, <2>3 DEF Record
<1> HIDE DEF s
<1>3. s.status \notin {"absent", "running"} /\ ~Open(s) /\ ~Waiting(s)
  BY <1>2 DEF Terminal, Open, Waiting
<1>4. Good(j, s)
  BY <1>2, <1>3 DEF Good
<1>5. Drift(r, s)
  BY <1>2, <1>3 DEF Drift, Fading, Faded, Final
<1> QED
  BY <1>3, <1>4, <1>5 DEF s

LEMMA FinishedGood ==
  ASSUME NEW j \in Jobs, NEW r, Good(j, r)
  PROVE  Good(j, Finished(r)) /\ Drift(r, Finished(r))
BY FinishGood, NoDrift DEF Finished

\* Recovery or a restore that ends an attempt which another process may be running.
LEMMA FenceGood ==
  ASSUME NEW j \in Jobs, NEW r, Good(j, r), r.status = "running", r.terminal = None,
         NEW row, RowOK(row), Faded(Last(r), row), row.phase \notin {"reserved", "possible"},
         NEW t \in {"succeeded", "failed", "cancelled", "uncertain"}
  PROVE  LET s == Finish(Ended(r, row, t)) IN Good(j, s) /\ Drift(r, s)
<1> DEFINE e == Ended(r, row, t)  s == Finish(e)
<1>1. /\ Good(j, e) /\ e.status = "running" /\ e.terminal = t
      /\ Len(e.attempts) = Len(r.attempts)
      /\ \A k \in 1..Len(r.attempts) :
           e.attempts[k] = IF k = Len(r.attempts) THEN row ELSE r.attempts[k]
  BY EndedGood
<1> HIDE DEF e
<1>2. Open(e) /\ e.terminal # None
  BY <1>1 DEF Open, Terminal, None
<1>3. Good(j, s) /\ Drift(e, s) /\ ~Open(s)
  BY <1>1, <1>2, FinishGood
<1>4. s.attempts = e.attempts
  BY <1>1 DEF Finish, Good, Record
<1>5. s.status # "running"
  BY <1>3 DEF Open, Terminal
<1>6. Fading(r, s)
  BY <1>1, <1>4 DEF Fading, Faded, Last
<1>7. Drift(r, s)
  BY <1>5, <1>6 DEF Drift, Final
<1> QED
  BY <1>3, <1>7 DEF s, e

LEMMA RowsAre ==
  ASSUME NEW j \in Jobs, NEW r, Good(j, r), r.status = "running", r.terminal = None
  PROVE  /\ Len(r.attempts) > 0 /\ Last(r) = r.attempts[Len(r.attempts)] /\ RowOK(Last(r))
         /\ Last(r).phase \in {"reserved", "possible"} /\ Last(r).units = Unknown
         /\ RowOK(Released(Last(r))) /\ Released(Last(r)).phase = "released" /\ Released(Last(r)).quiescent
         /\ RowOK(Uncertain(Last(r))) /\ Uncertain(Last(r)).phase = "uncertain" /\ ~Uncertain(Last(r)).quiescent
<1> DEFINE n == Len(r.attempts)  a == r.attempts[n]
<1>1. n \in Nat /\ n > 0
  BY DEF Good, Record
<1>2. RowOK(a) /\ a.phase \in {"reserved", "possible"}
  BY <1>1 DEF Good, Last
<1>3. Last(r) = a
  BY DEF Last
<1>4. a.units = Unknown /\ a \in RowType
  BY <1>2 DEF RowOK, Loose
<1> HIDE DEF a
<1>5. RowOK(Released(a)) /\ Released(a).phase = "released" /\ Released(a).quiescent
  BY <1>4 DEF RowOK, Released, RowType, Loose
<1>6. RowOK(Uncertain(a)) /\ Uncertain(a).phase = "uncertain" /\ ~Uncertain(a).quiescent
  BY <1>4 DEF RowOK, Uncertain, RowType, Loose
<1> QED
  BY <1>1, <1>2, <1>3, <1>4, <1>5, <1>6 DEF n, a

LEMMA RecoveredGood ==
  ASSUME NEW j \in Jobs, NEW r, Good(j, r), NEW now
  PROVE  Good(j, Recovered(r, now)) /\ Drift(r, Recovered(r, now))
<1> DEFINE s == Recovered(r, now)
<1>1. CASE ~Open(r)
  BY <1>1, NoDrift DEF Recovered
<1>2. CASE Open(r) /\ r.terminal # None
  BY <1>2, FinishGood DEF Recovered
<1>3. CASE Open(r) /\ r.terminal = None /\ LeaseLapsed(r, now)
  <2>1. r.status = "running" /\ s = Finish(Fenced(r))
    BY <1>3 DEF Good, Recovered, LeaseLapsed
  <2>2. CASE Last(r).phase = "reserved"
    <3>1. Fenced(r) = Ended(r, Released(Last(r)), "failed")
      BY <2>2 DEF Fenced, Ended
    <3> QED BY <1>3, <2>1, <2>2, <3>1, RowsAre, FenceGood DEF Faded
  <2>3. CASE Last(r).phase # "reserved"
    <3>1. Fenced(r) = Ended(r, Uncertain(Last(r)), "uncertain")
      BY <2>3 DEF Fenced, Ended
    <3> QED BY <1>3, <2>1, <3>1, RowsAre, FenceGood DEF Faded
  <2> QED BY <2>2, <2>3
<1>4. CASE Open(r) /\ r.terminal = None /\ ~LeaseLapsed(r, now)
           /\ r.status = "retry_wait" /\ r.retryAt <= now
  <2> DEFINE zero == 0
  <2>1. s = [r EXCEPT !.status = "queued", !.retryAt = zero] /\ zero \in Int
    BY <1>4 DEF Recovered
  <2>2. /\ s \in Record /\ s.attempts = r.attempts /\ s.terminal = r.terminal
        /\ s.status = "queued" /\ s.lease = r.lease
    <3>1. r \in Record
      BY DEF Good
    <3> HIDE DEF s, zero
    <3> QED BY <2>1, <3>1 DEF Record
  <2> HIDE DEF s
  <2>3. Waiting(r) /\ Open(s) /\ Waiting(s)
    BY <1>4, <2>2 DEF Waiting, Open, Terminal
  <2>4. Good(j, s)
    BY <1>4, <2>2, <2>3 DEF Good
  <2>5. Drift(r, s)
    BY <1>4, <2>2 DEF Drift, Fading, Faded, Final
  <2> QED BY <2>4, <2>5 DEF s
<1>5. CASE Open(r) /\ r.terminal = None /\ ~LeaseLapsed(r, now)
           /\ ~(r.status = "retry_wait" /\ r.retryAt <= now)
  BY <1>5, NoDrift DEF Recovered
<1> QED
  BY <1>1, <1>2, <1>3, <1>4, <1>5

LEMMA ControlledGood ==
  ASSUME NEW j \in Jobs, NEW r, Good(j, r), NEW action \in {"pause", "resume", "cancel", "disable"},
         action = "resume" => r.status = "paused"
  PROVE  Good(j, Controlled(r, action)) /\ Drift(r, Controlled(r, action))
<1> DEFINE s == Controlled(r, action)  zero == 0
<1>0. r \in Record /\ zero \in Int /\ action \in Cancels \cup {"resume"} /\ None \in Cancels
  BY DEF Good, Cancels
<1>1. CASE ~Open(r)
  BY <1>1, NoDrift DEF Controlled
<1>2. CASE Open(r) /\ r.status = "running" /\ action # "resume"
  <2>1. s = [r EXCEPT !.cancel = action]
    BY <1>2 DEF Controlled
  <2> HIDE DEF s
  <2>2. /\ s \in Record /\ s.attempts = r.attempts /\ s.terminal = r.terminal
        /\ s.status = "running" /\ s.lease = r.lease
    BY <1>0, <1>2, <2>1 DEF Record
  <2>3. Good(j, s)
    BY <1>2, <2>2 DEF Good, Waiting, Open, Last
  <2>4. Drift(r, s)
    BY <1>2, <2>2 DEF Drift, Fading, Faded, Final
  <2> QED BY <2>3, <2>4 DEF s
<1>3. CASE Open(r) /\ (r.status # "running" \/ action = "resume")
  <2>1. Waiting(r)
    BY <1>3 DEF Waiting
  <2>2. PICK st \in {"queued", "retry_wait", "paused", r.status}, c \in Cancels, x \in Int, y \in Int,
             t \in {r.terminal, "cancelled"} :
          s = [r EXCEPT !.status = st, !.cancel = c, !.retryAt = x, !.resumeAt = y, !.terminal = t]
    <3> HIDE DEF zero
    <3>1. CASE action = "resume"
      <4> DEFINE st == IF Delayed(r) THEN "retry_wait" ELSE "queued"
      <4>0. st \in {"queued", "retry_wait"}
        OBVIOUS
      <4>1. s = [r EXCEPT !.cancel = None, !.resumeAt = zero, !.retryAt = r.resumeAt, !.status = st]
        BY <1>3, <3>1 DEF Controlled, zero
      <4> HIDE DEF s, st
      <4>2. s = [r EXCEPT !.status = st, !.cancel = None, !.retryAt = r.resumeAt, !.resumeAt = zero,
                          !.terminal = r.terminal]
        BY <4>1, <1>0 DEF Record
      <4>3. r.resumeAt \in Int
        BY <1>0 DEF Record
      <4> QED BY <4>0, <4>2, <4>3, <1>0
    <3>2. CASE action = "pause"
      <4>1. s = [r EXCEPT !.status = "paused", !.resumeAt = r.retryAt, !.retryAt = zero, !.cancel = "pause"]
        BY <1>3, <3>2 DEF Controlled, zero
      <4> HIDE DEF s
      <4>2. s = [r EXCEPT !.status = "paused", !.cancel = "pause", !.retryAt = zero, !.resumeAt = r.retryAt,
                          !.terminal = r.terminal]
        BY <4>1, <1>0 DEF Record
      <4>3. r.retryAt \in Int /\ "pause" \in Cancels
        BY <1>0 DEF Record, Cancels
      <4> QED BY <4>2, <4>3, <1>0
    <3>3. CASE action \in {"cancel", "disable"}
      <4>1. s = [r EXCEPT !.cancel = action, !.terminal = "cancelled"]
        BY <1>3, <3>3 DEF Controlled
      <4> HIDE DEF s
      <4>2. s = [r EXCEPT !.status = r.status, !.cancel = action, !.retryAt = r.retryAt,
                          !.resumeAt = r.resumeAt, !.terminal = "cancelled"]
        BY <4>1, <1>0 DEF Record
      <4>3. r.retryAt \in Int /\ r.resumeAt \in Int /\ action \in Cancels
        BY <1>0, <3>3 DEF Record, Cancels
      <4> QED BY <4>2, <4>3
    <3> QED BY <3>1, <3>2, <3>3
  <2> HIDE DEF s
  <2>3. /\ s \in Record /\ s.attempts = r.attempts /\ s.terminal = t
        /\ s.status = st /\ s.lease = r.lease
    BY <1>0, <2>2 DEF Record
  <2>4. Waiting(s)
    BY <2>1, <2>3 DEF Waiting, Open, Terminal
  <2>5. t \in {None, "cancelled"} /\ (r.terminal # None => t = r.terminal)
    BY <2>1 DEF Good
  <2>6. Good(j, s)
    BY <2>1, <2>3, <2>4, <2>5 DEF Good, Waiting, Open
  <2>7. Drift(r, s)
    BY <2>1, <2>3, <2>4, <2>5 DEF Drift, Fading, Faded, Final, Waiting
  <2> QED BY <2>6, <2>7 DEF s
<1> QED
  BY <1>1, <1>2, <1>3

LEMMA DriftCompose ==
  ASSUME NEW j \in Jobs, NEW r, NEW s, NEW u, Good(j, r), Good(j, s), Drift(r, s), Drift(s, u)
  PROVE  Drift(r, u)
<1>1. Len(r.attempts) \in Nat
  BY DEF Good, Record
<1>2. Fading(r, u)
  <2>1. ASSUME NEW a, NEW b, NEW c, Faded(a, b), Faded(b, c) PROVE Faded(a, c)
    BY <2>1 DEF Faded
  <2> QED BY <2>1 DEF Drift, Fading
<1>3. Final(r, u)
  BY DEF Drift, Final, Open
<1> QED
  BY <1>2, <1>3 DEF Drift

LEMMA RestoredGood ==
  ASSUME NEW j \in Jobs, NEW r, Good(j, r), r.status # "absent"
  PROVE  Good(j, RestoredJob(r)) /\ Drift(r, RestoredJob(r))
<1> DEFINE s == [r EXCEPT !.restored = TRUE]
<1>1. /\ s \in Record /\ s.attempts = r.attempts /\ s.terminal = r.terminal
      /\ s.status = r.status /\ s.lease = r.lease
  BY DEF Good, Record
<1>2. RestoredJob(r) = IF ~Open(r) \/ r.terminal # None THEN Finished(s)
                       ELSE IF r.lease # NoLease
                       THEN Finish([WithLast(s, Uncertain(Last(s))) EXCEPT !.terminal = "uncertain"])
                       ELSE Finish([s EXCEPT !.terminal = "cancelled"])
  BY DEF RestoredJob
<1> HIDE DEF s
<1>3. Good(j, s)
  BY <1>1 DEF Good, Waiting, Open, Last
<1>4. Drift(r, s)
  BY <1>1 DEF Drift, Fading, Faded, Final
<1>5. CASE ~Open(r) \/ r.terminal # None
  <2>1. RestoredJob(r) = Finished(s)
    BY <1>2, <1>5
  <2> QED BY <2>1, <1>3, <1>4, FinishedGood, DriftCompose
<1>6. CASE Open(r) /\ r.terminal = None /\ r.lease # NoLease
  <2>1. RestoredJob(r) = Finish(Ended(s, Uncertain(Last(s)), "uncertain"))
    BY <1>2, <1>6 DEF Ended
  <2>2. s.status = "running" /\ s.terminal = None
    BY <1>1, <1>6 DEF Good
  <2>3. LET u == Finish(Ended(s, Uncertain(Last(s)), "uncertain")) IN Good(j, u) /\ Drift(s, u)
    BY <1>3, <2>2, RowsAre, FenceGood DEF Faded
  <2> QED BY <2>1, <2>3, <1>3, <1>4, DriftCompose
<1>7. CASE Open(r) /\ r.terminal = None /\ r.lease = NoLease
  <2> DEFINE c == [s EXCEPT !.terminal = "cancelled"]
  <2>1. RestoredJob(r) = Finish(c)
    BY <1>2, <1>7
  <2>2. /\ c \in Record /\ c.attempts = s.attempts /\ c.terminal = "cancelled"
        /\ c.status = s.status /\ c.lease = s.lease
    BY <1>1 DEF Record
  <2> HIDE DEF c
  <2>3. Waiting(s) /\ Waiting(c) /\ Open(c) /\ c.status \notin {"absent", "running"}
    BY <2>2, <1>1, <1>7 DEF Waiting, Open, Good
  <2>4. "cancelled" # None /\ s.terminal = None
    BY <1>1, <1>7 DEF None
  <2>5. Good(j, c)
    BY <1>3, <2>2, <2>3, <2>4 DEF Good
  <2>6. Drift(s, c)
    BY <2>2, <2>3, <2>4 DEF Drift, Fading, Faded, Final, Waiting
  <2>7. Good(j, Finish(c)) /\ Drift(c, Finish(c))
    BY <2>2, <2>3, <2>4, <2>5, FinishGood
  <2> QED BY <2>1, <2>5, <2>6, <2>7, <1>3, <1>4, DriftCompose
<1> QED
  BY <1>5, <1>6, <1>7

\* A running attempt that is put aside: its row is one nobody transmits again.
Aside(r, row, st, x) ==
  [WithLast(r, row) EXCEPT !.status = st, !.lease = NoLease, !.retryAt = x]

LEMMA AsideGood ==
  ASSUME NEW j \in Jobs, NEW r, Good(j, r), r.status = "running", r.terminal = None,
         NEW row, RowOK(row), Stale(j, row), NEW st \in {"paused", "retry_wait"}, NEW x \in Int
  PROVE  LET s == Aside(r, row, st, x) IN
         /\ Good(j, s) /\ s.status = st /\ s.terminal = None /\ Len(s.attempts) = Len(r.attempts)
         /\ \A k \in 1..Len(r.attempts) :
              s.attempts[k] = IF k = Len(r.attempts) THEN row ELSE r.attempts[k]
<1> DEFINE w == WithLast(r, row)  s == [w EXCEPT !.status = st, !.lease = NoLease, !.retryAt = x]
<1>1. r \in Record /\ Len(r.attempts) > 0 /\ row \in RowType
  BY DEF Good, RowOK
<1>2. /\ w \in Record /\ Len(w.attempts) = Len(r.attempts)
      /\ \A k \in 1..Len(r.attempts) :
           w.attempts[k] = IF k = Len(r.attempts) THEN row ELSE r.attempts[k]
      /\ w.terminal = r.terminal
  BY <1>1, WithLastIs
<1> HIDE DEF w
<1>3. NoLease \in [heartbeat : Int, expires : Int]
  BY DEF NoLease
<1>4. /\ s \in Record /\ s.attempts = w.attempts /\ s.status = st /\ s.lease = NoLease
      /\ s.terminal = None
  <2> DEFINE nl == NoLease
  <2>1. nl \in [heartbeat : Int, expires : Int] /\ s = [w EXCEPT !.status = st, !.lease = nl, !.retryAt = x]
    BY <1>3
  <2> HIDE DEF nl, s
  <2>2. s \in Record /\ s.attempts = w.attempts /\ s.status = st /\ s.lease = nl /\ s.terminal = w.terminal
    BY <1>2, <2>1 DEF Record
  <2> QED BY <2>2, <1>2 DEF nl
<1> HIDE DEF s
<1>5. st \notin {"running", "absent"}
  OBVIOUS
<1>6. Len(r.attempts) \in Nat
  BY <1>1 DEF Record
<1>7. row.phase \notin {"reserved", "possible"}
  BY DEF Stale
<1>8. Good(j, s)
  BY <1>2, <1>4, <1>5, <1>6, <1>7 DEF Good
<1>9. Aside(r, row, st, x) = s
  BY DEF Aside, s, w
<1> QED
  BY <1>2, <1>4, <1>8, <1>9

\* What complete commits: the row of the attempt is settled, released or uncertain
\* as the adapter's answer says, and the job ends or is put aside.
LEMMA SettledGood ==
  ASSUME Shapes, NEW p \in Procs, proc[p].pc = "answered", proc[p].outcome # None,
         NEW j \in Jobs, j = proc[p].job, NEW r, r = job[j], Good(j, r),
         r.status = "running", r.terminal = None,
         proc[p].outcome = "local_failure" => j \in Native
  PROVE  LET s == Settled(job, p)  n == Len(r.attempts)  b == s.attempts[n] IN
         /\ Good(j, s) /\ Len(s.attempts) = n
         /\ \A k \in 1..n : k # n => s.attempts[k] = r.attempts[k]
         /\ s.status = "running" => s.terminal # None
         /\ b.phase \in {"settled", "uncertain", "released"}
         /\ b.phase = "released" => proc[p].outcome \in NotSent
         /\ b.quiescent => proc[p].outcome \in NotSent \cup {"result", "local_failure"}
<1> DEFINE s == Settled(job, p)  n == Len(r.attempts)
           Outcome(q, b) == /\ Good(j, q) /\ Len(q.attempts) = n
                            /\ \A k \in 1..n : q.attempts[k] = IF k = n THEN b ELSE r.attempts[k]
                            /\ q.status = "running" => q.terminal # None
           last == Last(r)
           done == [last EXCEPT !.phase = "settled", !.quiescent = TRUE, !.units = proc[p].units]
           stopped == StoppedRow(r)
<1>0. /\ last.phase \in {"reserved", "possible"} /\ last.units = Unknown /\ RowOK(last)
      /\ RowOK(Released(last)) /\ Released(last).phase = "released"
      /\ RowOK(Uncertain(last)) /\ Uncertain(last).phase = "uncertain" /\ ~Uncertain(last).quiescent
      /\ n > 0 /\ n \in Nat /\ r \in Record
  <2>1. r \in Record /\ Len(r.attempts) \in Nat
    BY DEF Good, Record
  <2> HIDE DEF s
  <2> QED BY <2>1, RowsAre
<1>1. proc[p] \in Processes /\ clock \in Int /\ Backoff \in Nat
  BY AiConstants DEF Shapes
<1>2. RowOK(done) /\ done.phase = "settled"
  <2>1. last \in RowType /\ proc[p].units \in Usage \cup {Unknown}
    BY <1>0, <1>1 DEF RowOK, Processes
  <2> HIDE DEF last
  <2> QED BY <2>1 DEF RowOK, RowType, Loose
<1>3. RowOK(stopped) /\ stopped.phase = "settled"
  <2>1. last \in RowType
    BY <1>0 DEF RowOK
  <2>2. stopped = [last EXCEPT !.phase = "settled", !.quiescent = TRUE]
    BY DEF StoppedRow
  <2> HIDE DEF last, stopped
  <2> QED BY <2>1, <2>2, <1>0 DEF RowOK, RowType, Loose
<1>4. ASSUME NEW row, RowOK(row), row.phase \notin {"reserved", "possible"},
             NEW t \in {"succeeded", "failed", "cancelled", "uncertain"}
      PROVE  Outcome([WithLast(r, row) EXCEPT !.terminal = t], row)
  <2>1. t # None
    BY DEF None
  <2> DEFINE e == Ended(r, row, t)
  <2>2. /\ Good(j, e) /\ e.status = "running" /\ e.terminal = t
        /\ Len(e.attempts) = Len(r.attempts)
        /\ \A k \in 1..Len(r.attempts) :
             e.attempts[k] = IF k = Len(r.attempts) THEN row ELSE r.attempts[k]
    BY <1>4, EndedGood, SMTT(30)
  <2>3. e = [WithLast(r, row) EXCEPT !.terminal = t]
    BY DEF Ended
  <2> HIDE DEF e, s
  <2>4. Outcome(e, row)
    BY <2>1, <2>2
  <2> HIDE DEF Outcome
  <2> QED BY <2>3, <2>4
<1>5. ASSUME NEW row, RowOK(row), Stale(j, row), NEW st \in {"paused", "retry_wait"}, NEW x \in Int
      PROVE  Outcome(Aside(r, row, st, x), row)
  <2> DEFINE e == Aside(r, row, st, x)
  <2>1. /\ Good(j, e) /\ e.status = st /\ Len(e.attempts) = Len(r.attempts)
        /\ \A k \in 1..Len(r.attempts) :
             e.attempts[k] = IF k = Len(r.attempts) THEN row ELSE r.attempts[k]
    BY <1>5, AsideGood
  <2> HIDE DEF e, s
  <2>2. Outcome(e, row)
    BY <2>1, <1>5
  <2> HIDE DEF Outcome
  <2> QED BY <2>2 DEF e
<1>6. ASSUME NEW row, RowOK(row), row.phase = "settled"
      PROVE  Outcome(Stop(WithLast(r, row)), row)
  <2>1. Stop(WithLast(r, row)) =
          [WithLast(r, row) EXCEPT !.terminal = IF WithLast(r, row).cancel = None THEN "failed" ELSE "cancelled"]
    BY DEF Stop
  <2> HIDE DEF Outcome
  <2> QED BY <1>4, <1>6, <2>1
<1>7. ASSUME NEW row, RowOK(row), Stale(j, row)
      PROVE  Outcome(Paused(WithLast(r, row)), row)
  <2> HIDE DEF Outcome, s
  <2> DEFINE zero == 0
  <2>1. Paused(WithLast(r, row)) = Aside(r, row, "paused", zero)
    BY DEF Paused, Aside
  <2>2. zero \in Int
    OBVIOUS
  <2> HIDE DEF zero
  <2> QED BY <1>5, <1>7, <2>1, <2>2
<1> HIDE DEF Outcome, last, done, stopped, n
<1>8. ASSUME NEW row, Outcome(s, row), row.phase \in {"settled", "uncertain", "released"},
             row.phase = "released" => proc[p].outcome \in NotSent,
             row.quiescent => proc[p].outcome \in NotSent \cup {"result", "local_failure"}
      PROVE  LET b == s.attempts[n] IN
             /\ Good(j, s) /\ Len(s.attempts) = n
             /\ \A k \in 1..n : k # n => s.attempts[k] = r.attempts[k]
             /\ s.status = "running" => s.terminal # None
             /\ b.phase \in {"settled", "uncertain", "released"}
             /\ b.phase = "released" => proc[p].outcome \in NotSent
             /\ b.quiescent => proc[p].outcome \in NotSent \cup {"result", "local_failure"}
  <2>1. s.attempts[n] = row
    BY <1>8, <1>0 DEF Outcome
  <2> HIDE DEF s
  <2> QED BY <1>8, <2>1 DEF Outcome
<1>9. CASE proc[p].outcome = "local_failure"
  <2>1. s = IF r.cancel = "pause" THEN Paused(WithLast(r, stopped)) ELSE Stop(WithLast(r, stopped))
    BY <1>9, <1>0 DEF Settled, stopped
  <2>2. Stale(j, stopped)
    BY <1>9, <1>3 DEF Stale
  <2> HIDE DEF s
  <2>3. Outcome(s, stopped)
    BY <2>1, <2>2, <1>3, <1>6, <1>7
  <2> QED BY <2>3, <1>3, <1>8, <1>9 DEF s, n
<1>10. CASE proc[p].outcome = "result"
  <2>1. \E v \in BOOLEAN : s = IF v THEN [WithLast(r, done) EXCEPT !.terminal = "succeeded"]
                               ELSE Stop(WithLast(r, done))
    <3>1. s = IF Valid([job EXCEPT ![j] = WithLast(r, done)], j, p)
              THEN [WithLast(r, done) EXCEPT !.terminal = "succeeded"] ELSE Stop(WithLast(r, done))
      BY <1>10 DEF Settled, done, last
    <3> HIDE DEF s
    <3> QED BY <3>1
  <2> HIDE DEF s
  <2>2. Outcome(s, done)
    BY <2>1, <1>2, <1>4, <1>6
  <2> QED BY <2>2, <1>2, <1>8, <1>10 DEF s, n
<1>11. CASE proc[p].outcome = "possible"
  <2>1. s = [WithLast(r, Uncertain(last)) EXCEPT !.terminal = "uncertain"]
    BY <1>11 DEF Settled, last
  <2> HIDE DEF s
  <2>2. Outcome(s, Uncertain(last))
    BY <2>1, <1>0, <1>4
  <2> QED BY <2>2, <1>0, <1>8 DEF s, n
<1>12. CASE proc[p].outcome \in NotSent
  <2> DEFINE row == Released(last)  free == WithLast(r, row)
  <2>1. \/ s = Paused(free)
        \/ s = [free EXCEPT !.terminal = "cancelled"] \/ s = [free EXCEPT !.terminal = "failed"]
        \/ s = Aside(r, row, "retry_wait", clock + Backoff)
    BY <1>12 DEF Settled, last, NotSent, Aside
  <2>2. Stale(j, row)
    BY <1>0 DEF Stale
  <2>3. clock + Backoff \in Int
    BY <1>1
  <2> HIDE DEF s, row
  <2>4. Outcome(s, row)
    <3>1. RowOK(row) /\ row.phase = "released"
      BY <1>0 DEF row
    <3>2. CASE s = Paused(free)
      BY <2>2, <3>1, <3>2, <1>7
    <3>3. CASE s = [free EXCEPT !.terminal = "cancelled"] \/ s = [free EXCEPT !.terminal = "failed"]
      <4>1. ASSUME NEW t \in {"cancelled", "failed"}
            PROVE  Outcome([WithLast(r, row) EXCEPT !.terminal = t], row)
        BY <3>1, <1>4
      <4> QED BY <3>3, <4>1
    <3>4. CASE s = Aside(r, row, "retry_wait", clock + Backoff)
      BY <2>2, <2>3, <3>1, <3>4, <1>5
    <3> QED BY <2>1, <3>2, <3>3, <3>4
  <2> QED BY <2>4, <1>0, <1>8, <1>12 DEF s, n, row
<1> QED
  <2>1. proc[p].outcome \in {"possible", "result", "local_failure"} \cup NotSent
    BY <1>1 DEF Processes
  <2> QED BY <2>1, <1>9, <1>10, <1>11, <1>12 DEF n
-----------------------------------------------------------------------------
(* Sums over finite sets: MapThenSumSet adds up the elements in some order. *)

Some(s) == CHOOSE x \in s : TRUE
Rest(s) == s \ {Some(s)}

IsSum(c, D, g) == g = [s \in D |-> IF s = {} THEN 0 ELSE c[Some(s)] + g[Rest(s)]]

LEMMA Smallest ==
  ASSUME NEW T \in SUBSET Nat, T # {}
  PROVE  \E m \in T : \A n \in T : m <= n
<1>1. PICK m \in T : \A n \in T : <<n, m>> \notin OpToRel(<, Nat)
  BY NatLessThanWellFounded, WFMin
<1>2. \A n \in T : ~(n < m)
  BY <1>1, Zenon DEF OpToRel
<1> QED
  BY <1>2

UpTo(S, n) == {s \in SUBSET S : Cardinality(s) <= n}

LEMMA RestSmaller ==
  ASSUME NEW S, IsFiniteSet(S), NEW s \in SUBSET S, s # {}
  PROVE  /\ Some(s) \in s /\ Rest(s) \in SUBSET S /\ IsFiniteSet(s) /\ IsFiniteSet(Rest(s))
         /\ Cardinality(s) \in Nat /\ Cardinality(Rest(s)) \in Nat
         /\ Cardinality(s) = Cardinality(Rest(s)) + 1
<1>1. Some(s) \in s
  BY DEF Some
<1>2. IsFiniteSet(s)
  BY FS_Subset
<1>3. IsFiniteSet(Rest(s)) /\ Cardinality(Rest(s)) = Cardinality(s) - 1
  BY <1>1, <1>2, FS_RemoveElement DEF Rest
<1>4. Cardinality(s) \in Nat /\ Cardinality(Rest(s)) \in Nat
  BY <1>2, <1>3, FS_CardinalityType
<1>5. Rest(s) \in SUBSET S
  BY DEF Rest
<1> QED
  BY <1>1, <1>2, <1>3, <1>4, <1>5

LEMMA SumsExist ==
  ASSUME NEW S, IsFiniteSet(S), NEW c
  PROVE  \E g : IsSum(c, SUBSET S, g)
<1> DEFINE T == {n \in Nat : \A g : ~IsSum(c, UpTo(S, n), g)}
<1>1. ASSUME T # {} PROVE FALSE
  <2>1. PICK n \in T : \A k \in T : n <= k
    BY <1>1, Smallest
  <2>2. CASE n = 0
    <3> DEFINE g == [s \in UpTo(S, 0) |-> 0]
    <3>1. \A s \in UpTo(S, 0) : s = {}
      BY FS_Subset, FS_EmptySet, FS_CardinalityType DEF UpTo
    <3>2. IsSum(c, UpTo(S, 0), g)
      BY <3>1 DEF IsSum
    <3> QED BY <2>1, <2>2, <3>2
  <2>3. CASE n # 0
    <3>1. n - 1 \in Nat /\ n - 1 \notin T
      BY <2>1, <2>3
    <3>2. PICK h : IsSum(c, UpTo(S, n - 1), h)
      BY <3>1
    <3> DEFINE g == [s \in UpTo(S, n) |-> IF s = {} THEN 0 ELSE c[Some(s)] + h[Rest(s)]]
    <3>3. \A s \in UpTo(S, n - 1) : s \in UpTo(S, n) /\ g[s] = h[s]
      <4> TAKE s \in UpTo(S, n - 1)
      <4>1. s \in UpTo(S, n)
        BY FS_Subset, FS_CardinalityType DEF UpTo
      <4>2. h[s] = IF s = {} THEN 0 ELSE c[Some(s)] + h[Rest(s)]
        BY <3>2, Zenon DEF IsSum
      <4> QED BY <4>1, <4>2
    <3>4. \A s \in UpTo(S, n) : s # {} => Rest(s) \in UpTo(S, n - 1)
      BY RestSmaller DEF UpTo
    <3>5. IsSum(c, UpTo(S, n), g)
      <4>1. \A s \in UpTo(S, n) : s # {} => g[Rest(s)] = h[Rest(s)]
        BY <3>3, <3>4
      <4> QED BY <4>1 DEF IsSum
    <3> QED BY <2>1, <3>5
  <2> QED BY <2>2, <2>3
<1>2. Cardinality(S) \in Nat
  BY FS_CardinalityType
<1>3. SUBSET S = UpTo(S, Cardinality(S))
  BY FS_Subset DEF UpTo
<1>4. \E g : IsSum(c, UpTo(S, Cardinality(S)), g)
  BY <1>1, <1>2
<1> QED BY <1>3, <1>4

LEMMA SumAtLeast ==
  ASSUME NEW S, IsFiniteSet(S), NEW c \in [S -> Nat], NEW g, IsSum(c, SUBSET S, g),
         NEW U \in SUBSET S, NEW k \in Nat, \A x \in U : c[x] = k
  PROVE  g[S] \in Nat /\ k * Cardinality(U) <= g[S]
<1> DEFINE Enough(s) == g[s] \in Nat /\ k * Cardinality(s \cap U) <= g[s]
           T == {n \in Nat : \E s \in SUBSET S : Cardinality(s) = n /\ ~Enough(s)}
<1>1. ASSUME T # {} PROVE FALSE
  <2>1. PICK n \in T : \A m \in T : n <= m
    BY <1>1, Smallest
  <2>2. PICK s \in SUBSET S : Cardinality(s) = n /\ ~Enough(s)
    BY <2>1
  <2>3. CASE s = {}
    <3>1. g[s] = 0
      BY <2>3, Zenon DEF IsSum
    <3>2. Cardinality(s \cap U) = 0
      BY <2>3, FS_EmptySet
    <3> QED BY <2>2, <3>1, <3>2
  <2>4. CASE s # {}
    <3> DEFINE x == Some(s)  r == Rest(s)
    <3>1. g[s] = c[x] + g[r]
      BY <2>4, Zenon DEF IsSum
    <3>2. /\ x \in s /\ r \in SUBSET S /\ IsFiniteSet(s) /\ IsFiniteSet(r)
          /\ Cardinality(s) = Cardinality(r) + 1 /\ Cardinality(r) \in Nat
      BY <2>4, RestSmaller
    <3>3. Enough(r)
      <4>1. Cardinality(r) \notin T
        BY <2>1, <2>2, <3>2
      <4> QED BY <4>1, <3>2
    <3>4. IsFiniteSet(r \cap U) /\ Cardinality(r \cap U) \in Nat
      BY <3>2, FS_Intersection, FS_CardinalityType
    <3>5. x \in U => s \cap U = (r \cap U) \cup {x} /\ x \notin r
      BY <3>2 DEF Rest
    <3>6. x \notin U => s \cap U = r \cap U
      BY <3>2 DEF Rest
    <3>7. Cardinality(s \cap U) = IF x \in U THEN Cardinality(r \cap U) + 1 ELSE Cardinality(r \cap U)
      BY <3>4, <3>5, <3>6, FS_AddElement
    <3>8. c[x] \in Nat /\ (x \in U => c[x] = k)
      BY <3>2
    <3> HIDE DEF x, r
    <3>9. CASE x \in U
      <4>1. k * (Cardinality(r \cap U) + 1) = k * Cardinality(r \cap U) + k
        BY <3>4
      <4> QED BY <4>1, <3>1, <3>3, <3>4, <3>7, <3>8, <3>9, <2>2
    <3>10. CASE x \notin U
      BY <3>10, <3>1, <3>3, <3>4, <3>7, <3>8, <2>2
    <3> QED BY <3>9, <3>10
  <2> QED BY <2>3, <2>4
<1>2. Cardinality(S) \in Nat
  BY FS_CardinalityType
<1>3. Enough(S)
  BY <1>1, <1>2
<1>4. S \cap U = U
  OBVIOUS
<1> QED BY <1>3, <1>4

-----------------------------------------------------------------------------
(* The budget.                                                              *)

LEMMA RowsFinite == ASSUME NEW js PROVE IsFiniteSet(Rows(js))
<1>1. MaxAttempts \in Int
  BY AiConstants
<1>2. IsFiniteSet(Jobs \X (1..MaxAttempts))
  <2>1. IsFiniteSet(1..MaxAttempts)
    BY <1>1, FS_Interval
  <2>2. IsFiniteSet(Jobs)
    BY AiConstants
  <2> QED BY <2>1, <2>2, FS_Product
<1>3. Rows(js) \in SUBSET (Jobs \X (1..MaxAttempts))
  BY DEF Rows
<1> QED
  BY <1>2, <1>3, FS_Subset

LEMMA TimesMonotone ==
  ASSUME NEW k \in Nat, NEW m \in Nat, NEW n \in Nat, m <= n
  PROVE  k * m <= k * n
<1>1. k * n = k * m + k * (n - m)
  OBVIOUS
<1>2. k * (n - m) >= 0
  OBVIOUS
<1>3. k * m \in Int /\ k * (n - m) \in Int
  OBVIOUS
<1> QED
  BY <1>1, <1>2, <1>3

\* Who holds and owes no more stays within the budget.
LEMMA AffordableKept ==
  ASSUME NEW js, NEW ks, Affordable(js), Held(ks) \subseteq Held(js), Owed(ks) \subseteq Owed(js)
  PROVE  Affordable(ks)
<1>1. IsFiniteSet(Held(js)) /\ IsFiniteSet(Owed(js))
  <2>1. Held(js) \in SUBSET Rows(js) /\ Owed(js) \in SUBSET Rows(js)
    BY DEF Held, Owed
  <2> QED BY <2>1, RowsFinite, FS_Subset
<1>2. /\ Cardinality(Held(ks)) <= Cardinality(Held(js)) /\ Cardinality(Owed(ks)) <= Cardinality(Owed(js))
      /\ IsFiniteSet(Held(ks)) /\ IsFiniteSet(Owed(ks))
  BY <1>1, FS_Subset
<1>3. /\ Cardinality(Held(js)) \in Nat /\ Cardinality(Owed(js)) \in Nat
      /\ Cardinality(Held(ks)) \in Nat /\ Cardinality(Owed(ks)) \in Nat
  BY <1>1, <1>2, FS_CardinalityType
<1>4. \A c \in Caps : c.concurrency \in Int /\ c.units \in Int
  BY AiConstants
<1>5. Reserve \in Nat
  BY AiConstants
<1>6. /\ Reserve * Cardinality(Owed(ks)) <= Reserve * Cardinality(Owed(js))
      /\ Reserve * Cardinality(Owed(ks)) \in Int /\ Reserve * Cardinality(Owed(js)) \in Int
  BY <1>2, <1>3, <1>5, TimesMonotone
<1>7. \E c \in Caps : Cardinality(Held(ks)) <= c.concurrency
  BY <1>2, <1>3, <1>4 DEF Affordable
<1>8. \E c \in Caps : Reserve * Cardinality(Owed(ks)) <= c.units
  <2> DEFINE a == Reserve * Cardinality(Owed(ks))  b == Reserve * Cardinality(Owed(js))
  <2>1. a <= b /\ a \in Int /\ b \in Int /\ \E c \in Caps : b <= c.units
    BY <1>6 DEF Affordable
  <2> HIDE DEF a, b
  <2>2. \E c \in Caps : a <= c.units
    BY <2>1, <1>4
  <2> QED BY <2>2 DEF a
<1> QED
  BY <1>7, <1>8 DEF Affordable

\* A day's sum counts every reservation whose consumption is not known.
LEMMA CountedIs ==
  ASSUME NEW row, RowOK(row), NEW period
  PROVE  Counted(row, period) \in Nat /\ (row.units = Unknown => Counted(row, period) = Reserve)
<1>1. Reserve \in Nat /\ Usage \subseteq Nat
  BY AiConstants
<1>2. row.phase = "released" => row.units # Unknown
  BY DEF RowOK, Unknown
<1>3. Charged(row) \in Nat /\ (row.units = Unknown => Charged(row) = Reserve)
  <2>1. row.phase # "released" => row.units = Unknown \/ row.units \in Usage
    BY DEF RowOK, RowType, Loose
  <2>2. CASE row.phase = "released"
    <3>1. Charged(row) = 0
      BY <2>2 DEF Charged
    <3> QED BY <3>1, <2>2, <1>2
  <2>3. CASE row.phase # "released" /\ row.units = Unknown
    <3>1. Charged(row) = Reserve
      BY <2>3 DEF Charged
    <3> QED BY <3>1, <1>1
  <2>4. CASE row.phase # "released" /\ row.units # Unknown
    <3>1. Charged(row) = row.units
      BY <2>4, Zenon DEF Charged
    <3>2. row.units \in Nat
      BY <1>1, <2>1, <2>4
    <3> QED BY <3>1, <3>2, <2>4
  <2> QED BY <2>2, <2>3, <2>4
<1>4. Max({0, Charged(row) - Reserve}) \in Nat
  <2> DEFINE d == Charged(row) - Reserve
  <2>1. d \in Int
    BY <1>1, <1>3
  <2> HIDE DEF d
  <2>2. \E m \in {0, d} : \A y \in {0, d} : m >= y
    BY <2>1
  <2>3. Max({0, d}) \in {0, d} /\ \A y \in {0, d} : Max({0, d}) >= y
    BY <2>2 DEF Max
  <2>4. Max({0, d}) \in Nat
    BY <2>1, <2>3
  <2> QED BY <2>4 DEF d
<1> QED
  BY <1>3, <1>4 DEF Counted

LEMMA OwedIsCounted ==
  ASSUME NEW js, \A j \in Jobs : Good(j, js[j]), NEW period
  PROVE  PeriodUnits(js, period) \in Nat /\ Reserve * Cardinality(Owed(js)) <= PeriodUnits(js, period)
<1> DEFINE S == Rows(js)
           F(x) == Counted(Row(js, x), period)
           c == [x \in S |-> F(x)]
           E(g) == g = [s \in SUBSET S |->
                          IF s = {} THEN 0 ELSE F(Some(s)) + g[Rest(s)]]
           iter == CHOOSE g : E(g)
<1>1. PeriodUnits(js, period) = iter[S]
  BY DEF PeriodUnits, MapThenSumSet, MapThenFoldSet, Some, Rest
<1>2. ASSUME NEW x \in S PROVE RowOK(Row(js, x))
  <2>1. x[1] \in Jobs /\ x[2] \in 1..Len(js[x[1]].attempts)
    BY DEF Rows, Good, Record
  <2> QED BY <2>1 DEF Row, Good
<1>3. IsFiniteSet(S)
  BY RowsFinite
<1>4. \A x \in S : F(x) \in Nat /\ (Row(js, x).units = Unknown => F(x) = Reserve)
  BY <1>2, CountedIs
<1>5. Owed(js) \in SUBSET S /\ \A x \in Owed(js) : Row(js, x).units = Unknown
  BY DEF Owed
<1> HIDE DEF F, S
<1>6. c \in [S -> Nat] /\ \A x \in Owed(js) : c[x] = Reserve
  BY <1>4, <1>5
<1>7. \A g : E(g) <=> IsSum(c, SUBSET S, g)
  <2> TAKE g
  <2>1. \A s \in SUBSET S : s # {} => Some(s) \in S
    BY DEF Some
  <2>2. \A s \in SUBSET S : s # {} => c[Some(s)] = F(Some(s))
    BY <2>1
  <2> HIDE DEF c
  <2> QED BY <2>2 DEF IsSum
<1> HIDE DEF c
<1>8. \E g : E(g)
  BY <1>3, <1>7, SumsExist
<1>9. E(iter)
  BY <1>8
<1> HIDE DEF E, iter
<1>10. Reserve \in Nat
  BY AiConstants
<1>11. iter[S] \in Nat /\ Reserve * Cardinality(Owed(js)) <= iter[S]
  BY <1>3, <1>5, <1>6, <1>7, <1>9, <1>10, SumAtLeast
<1> QED
  BY <1>1, <1>11

-----------------------------------------------------------------------------
(* What a step does to the rows and to a terminal intent.                   *)

\* No attempt takes a slot again, and an amount that is known stays and may grow.
RowMoves(a, b) ==
  /\ b.units = Unknown => a.units = Unknown
  /\ ~b.quiescent => ~a.quiescent
  /\ b.units # Unknown /\ b.phase # "released" => b.units >= a.units

Moves(js, ks) ==
  \A j \in Jobs :
    /\ Len(js[j].attempts) <= Len(ks[j].attempts)
    /\ \A k \in 1..Len(js[j].attempts) : RowMoves(js[j].attempts[k], ks[j].attempts[k])
    /\ Final(js[j], ks[j])

LEMMA UnitsAre ==
  ASSUME NEW a, RowOK(a)
  PROVE  /\ a.units \in Int /\ Unknown \in Int
         /\ a.phase # "released" /\ a.units # Unknown => a.units \in Usage /\ a.units >= Unknown
<1>1. Unknown = -1 /\ Usage \subseteq Nat
  BY AiConstants DEF Unknown
<1>2. a.phase = "released" \/ a.units = Unknown \/ a.units \in Usage
  BY DEF RowOK, RowType, Loose
<1>3. CASE a.phase = "released"
  BY <1>1, <1>3 DEF RowOK
<1>4. CASE a.phase # "released" /\ a.units = Unknown
  BY <1>1, <1>4
<1>5. CASE a.phase # "released" /\ a.units # Unknown
  <2>1. a.units \in Usage
    BY <1>2, <1>5
  <2>2. a.units \in Nat
    BY <1>1, <2>1
  <2>3. Unknown \in Int /\ \A n \in Nat : n >= Unknown
    BY DEF Unknown
  <2> QED BY <2>1, <2>2, <2>3
<1> QED
  BY <1>3, <1>4, <1>5

LEMMA SameRow == ASSUME NEW a, RowOK(a) PROVE RowMoves(a, a)
BY UnitsAre DEF RowMoves

LEMMA FadedMoves == ASSUME NEW a, NEW b, RowOK(a), RowOK(b), Faded(a, b) PROVE RowMoves(a, b)
<1>1. CASE b = a
  BY <1>1, SameRow
<1>2. CASE a.phase = "reserved" /\ b.phase = "released" /\ b.quiescent
  BY <1>2 DEF RowMoves, RowOK, Unknown
<1>3. CASE a.phase \in {"reserved", "possible"} /\ b.phase = "uncertain" /\ ~b.quiescent
  BY <1>3 DEF RowMoves, RowOK, Loose
<1> QED
  BY <1>1, <1>2, <1>3 DEF Faded

\* The rows of records that keep their attempts.
LEMMA RowsOf ==
  ASSUME NEW js, \A j \in Jobs : Good(j, js[j]), NEW x
  PROVE  /\ x \in Rows(js) => x[1] \in Jobs /\ x[2] \in 1..Len(js[x[1]].attempts) /\ x = <<x[1], x[2]>>
         /\ \A j \in Jobs : \A k \in 1..Len(js[j].attempts) : <<j, k>> \in Rows(js)
<1>1. \A j \in Jobs : Len(js[j].attempts) \in Nat /\ Len(js[j].attempts) <= MaxAttempts
  BY DEF Good, Record
<1>2. MaxAttempts \in Nat
  BY AiConstants
<1> QED
  BY <1>1, <1>2 DEF Rows

LEMMA Shrinks ==
  ASSUME NEW js, NEW ks, \A j \in Jobs : Good(j, js[j]), \A j \in Jobs : Good(j, ks[j]),
         Moves(js, ks), \A j \in Jobs : Len(ks[j].attempts) = Len(js[j].attempts)
  PROVE  Rows(ks) = Rows(js) /\ Held(ks) \subseteq Held(js) /\ Owed(ks) \subseteq Owed(js)
<1>1. \A x : x \in Rows(ks) <=> x \in Rows(js)
  BY DEF Rows
<1>2. \A x \in Rows(js) : RowMoves(Row(js, x), Row(ks, x))
  BY RowsOf DEF Moves, Row
<1> QED
  BY <1>1, <1>2 DEF Held, Owed, RowMoves

\* Enqueueing, recovery, operator controls and a restore keep what the journal
\* promises to every worker.
LEMMA DriftKeeps ==
  ASSUME NEW js, NEW ks, NEW pr, NEW sn, NEW rm, Journal(js, pr, sn, rm),
         \A j \in Jobs : Good(j, ks[j]) /\ Drift(js[j], ks[j])
  PROVE  Journal(ks, pr, sn, rm) /\ Moves(js, ks)
<1>1. \A j \in Jobs : Good(j, js[j]) /\ Len(ks[j].attempts) = Len(js[j].attempts) /\ Len(js[j].attempts) \in Nat
  BY DEF Journal, Drift, Fading, Good, Record
<1>2. \A j \in Jobs : \A k \in 1..Len(js[j].attempts) :
        /\ RowOK(js[j].attempts[k]) /\ RowOK(ks[j].attempts[k])
        /\ Faded(js[j].attempts[k], ks[j].attempts[k])
  BY <1>1 DEF Good, Drift, Fading
<1>3. Moves(js, ks)
  <2>1. \A j \in Jobs : Final(js[j], ks[j])
    BY DEF Drift
  <2> QED BY <1>1, <1>2, <2>1, FadedMoves DEF Moves
<1>4. Rows(ks) = Rows(js) /\ Held(ks) \subseteq Held(js) /\ Owed(ks) \subseteq Owed(js)
  BY <1>1, <1>3, Shrinks
<1>5. Affordable(ks)
  BY <1>4, AffordableKept DEF Journal
<1>6. Transmitted(ks, sn, rm)
  <2>1. ASSUME NEW x \in sn
        PROVE  /\ x \in Rows(ks) /\ Row(ks, x).phase \in {"possible", "settled", "uncertain"}
               /\ x \in rm => ~Row(ks, x).quiescent
    <3>1. x \in Rows(js) /\ Row(js, x).phase \in {"possible", "settled", "uncertain"}
          /\ (x \in rm => ~Row(js, x).quiescent)
      BY DEF Journal, Transmitted
    <3>2. Faded(Row(js, x), Row(ks, x))
      BY <3>1, <1>1, <1>2, RowsOf DEF Row
    <3> QED BY <3>1, <3>2, <1>4 DEF Faded
  <2> QED BY <2>1 DEF Journal, Transmitted
<1>7. ASSUME NEW p \in Procs PROVE Employed(pr[p], ks, sn, rm)
  <2> DEFINE w == pr[p]
  <2>1. Employed(w, js, sn, rm)
    BY DEF Journal
  <2> HIDE DEF w
  <2>2. SUFFICES ASSUME w.pc \in Busy PROVE Employed(w, ks, sn, rm)
    BY DEF Employed, w
  <2>3. w.job \in Jobs /\ w.attempt \in 1..Len(js[w.job].attempts)
    BY <2>1, <2>2 DEF Employed
  <2>4. Drift(js[w.job], ks[w.job]) /\ Faded(js[w.job].attempts[w.attempt], ks[w.job].attempts[w.attempt])
    BY <1>2, <2>3
  <2>5. /\ ks[w.job].status = "running" =>
             js[w.job].status = "running" /\ ks[w.job].terminal = js[w.job].terminal
        /\ js[w.job].attempts[w.attempt].phase \in {"possible", "uncertain"} =>
             ks[w.job].attempts[w.attempt].phase \in {"possible", "uncertain"}
    BY <2>4 DEF Drift, Faded
  <2> QED BY <1>1, <2>1, <2>3, <2>5 DEF Employed
<1> QED
  BY <1>3, <1>5, <1>6, <1>7 DEF Journal

\* One worker settles its attempt and is free.
LEMMA SettleKeeps ==
  ASSUME IInv, NEW p \in Procs, proc[p].pc = "answered", job[proc[p].job].terminal = None,
         Owned(job, p), NEW s, s \in {Settled(job, p), Finished(Settled(job, p))},
         NEW pr, NEW ks, ks = [job EXCEPT ![proc[p].job] = s],
         pr = [proc EXCEPT ![p] = pr[p]], pr[p].pc \notin Busy
  PROVE  Journal(ks, pr, sent, remote) /\ Moves(job, ks)
<1> DEFINE j == proc[p].job  r == job[j]  u == Settled(job, p)  n == Len(r.attempts)
           a == r.attempts[n]  b == s.attempts[n]
<1>1. /\ j \in Jobs /\ Good(j, r) /\ r.status = "running" /\ r.terminal = None /\ n = proc[p].attempt
      /\ n \in Nat /\ proc[p].attempt \in 1..n
      /\ Employed(proc[p], job, sent, remote)
  <2>1. Employed(proc[p], job, sent, remote) /\ proc[p].pc \in Busy
    BY DEF IInv, Journal, Busy
  <2>2. j \in Jobs /\ proc[p].attempt \in 1..n
    BY <2>1 DEF Employed
  <2>3. r.status = "running" /\ r.terminal = None /\ n = proc[p].attempt
    BY DEF Owned
  <2>4. Good(j, r)
    BY <2>2 DEF IInv, Journal
  <2>5. n \in Nat
    BY <2>4 DEF Good, Record
  <2> QED BY <2>1, <2>2, <2>3, <2>4, <2>5
<1>2. /\ proc[p].outcome # None /\ (proc[p].outcome \in NotSent => Ticket(proc[p]) \notin sent)
      /\ proc[p].outcome \in {"result", "local_failure"} => Ticket(proc[p]) \notin remote
      /\ proc[p].outcome = "local_failure" => j \in Native
  BY <1>1 DEF Employed, Unsent, Busy
<1> HIDE DEF u, n
<1>3. /\ Good(j, u) /\ Len(u.attempts) = n
      /\ \A k \in 1..n : k # n => u.attempts[k] = r.attempts[k]
      /\ u.attempts[n].phase \in {"settled", "uncertain", "released"}
      /\ u.attempts[n].phase = "released" => proc[p].outcome \in NotSent
      /\ u.attempts[n].quiescent => proc[p].outcome \in NotSent \cup {"result", "local_failure"}
  BY <1>1, <1>2, SettledGood DEF IInv, u, n
<1>4. Good(j, Finished(u)) /\ Finished(u).attempts = u.attempts
  <2>1. Finish(u).attempts = u.attempts
    BY <1>3 DEF Finish, Good, Record
  <2>2. Finished(u) \in {u, Finish(u)}
    BY DEF Finished
  <2>3. Good(j, Finished(u))
    BY <1>1, <1>3, FinishedGood
  <2> QED BY <2>1, <2>2, <2>3
<1>5. Good(j, s) /\ s.attempts = u.attempts
  BY <1>3, <1>4 DEF u
<1>6. /\ Len(s.attempts) = n /\ \A k \in 1..n : k # n => s.attempts[k] = r.attempts[k]
      /\ b.phase \in {"settled", "uncertain", "released"}
      /\ b.phase = "released" => proc[p].outcome \in NotSent
      /\ b.quiescent => proc[p].outcome \in NotSent \cup {"result", "local_failure"}
  BY <1>3, <1>5
<1>7. RowOK(a) /\ RowOK(b) /\ a.phase \in {"reserved", "possible"}
  BY <1>1, <1>5, <1>6, RowsAre DEF Good, Last, n
<1> HIDE DEF r, j
<1>8. \A i \in Jobs : ks[i] = IF i = j THEN s ELSE job[i]
  BY DEF IInv, Shapes, j
<1>9. \A i \in Jobs : Good(i, ks[i]) /\ Good(i, job[i]) /\ Len(ks[i].attempts) = Len(job[i].attempts)
  BY <1>1, <1>5, <1>6, <1>8 DEF IInv, Journal, r, n
<1>10. RowMoves(a, b)
  <2>1. a.units = Unknown /\ ~a.quiescent
    BY <1>7 DEF RowOK, Loose
  <2> QED BY <2>1, <1>7, UnitsAre DEF RowMoves
<1>11. Moves(job, ks)
  <2>1. ASSUME NEW i \in Jobs, NEW k \in 1..Len(job[i].attempts)
        PROVE  RowMoves(job[i].attempts[k], ks[i].attempts[k])
    <3>1. RowOK(job[i].attempts[k])
      BY <1>9 DEF Good
    <3>2. CASE i = j /\ k = n
      BY <3>2, <1>8, <1>10 DEF r
    <3>3. CASE ~(i = j /\ k = n)
      <4>1. ks[i].attempts[k] = job[i].attempts[k]
        BY <3>3, <1>6, <1>8 DEF r, n
      <4> QED BY <3>1, <4>1, SameRow
    <3> QED BY <3>2, <3>3
  <2>2. \A i \in Jobs : Final(job[i], ks[i])
    BY <1>1, <1>8 DEF Final, r
  <2>3. \A i \in Jobs : Len(job[i].attempts) \in Nat
    BY <1>9 DEF Good, Record
  <2> QED BY <1>9, <2>1, <2>2, <2>3 DEF Moves
<1>12. Rows(ks) = Rows(job) /\ Affordable(ks)
  <2>1. (\A i \in Jobs : Good(i, ks[i])) /\ (\A i \in Jobs : Good(i, job[i]))
    BY <1>9
  <2>2. Rows(ks) = Rows(job) /\ Held(ks) \subseteq Held(job) /\ Owed(ks) \subseteq Owed(job)
    BY <1>9, <1>11, <2>1, Shrinks
  <2> QED BY <2>2, AffordableKept DEF IInv, Journal
<1>13. Transmitted(ks, sent, remote)
  <2>1. ASSUME NEW x \in sent
        PROVE  /\ x \in Rows(ks) /\ Row(ks, x).phase \in {"possible", "settled", "uncertain"}
               /\ x \in remote => ~Row(ks, x).quiescent
    <3>1. x \in Rows(job) /\ Row(job, x).phase \in {"possible", "settled", "uncertain"}
          /\ (x \in remote => ~Row(job, x).quiescent) /\ (x \in remote => x \in sent)
      BY DEF IInv, Journal, Transmitted
    <3>2. x[1] \in Jobs /\ x[2] \in 1..Len(job[x[1]].attempts) /\ x = <<x[1], x[2]>>
      BY <3>1, <1>9, RowsOf
    <3>3. CASE x = <<j, n>>
      <4>1. x = Ticket(proc[p]) /\ Row(ks, x) = b
        BY <3>3, <1>1, <1>8 DEF Ticket, Row, j
      <4> QED BY <3>1, <4>1, <1>2, <1>6, <1>12
    <3>4. CASE x # <<j, n>>
      <4>1. Row(ks, x) = Row(job, x)
        BY <3>2, <3>4, <1>6, <1>8 DEF Row, r, n
      <4> QED BY <3>1, <4>1, <1>12
    <3> QED BY <3>3, <3>4
  <2> QED BY <2>1 DEF IInv, Journal, Transmitted
<1>14. ASSUME NEW q \in Procs PROVE Employed(pr[q], ks, sent, remote)
  <2>1. CASE q = p
    BY <2>1 DEF Employed
  <2>2. CASE q # p
    <3> DEFINE w == proc[q]
    <3>1. pr[q] = w
      BY <2>2 DEF IInv, Shapes
    <3>2. Employed(w, job, sent, remote)
      BY DEF IInv, Journal
    <3>3. SUFFICES ASSUME w.pc \in Busy PROVE Employed(w, ks, sent, remote)
      BY <3>1 DEF Employed
    <3>4. Ticket(w) # Ticket(proc[p])
      BY <2>2, <3>3 DEF IInv, Apart, Busy
    <3> HIDE DEF w
    <3>5. w.job \in Jobs /\ w.attempt \in 1..Len(job[w.job].attempts)
      BY <3>2, <3>3 DEF Employed
    <3>6. w.job = j => w.attempt # n
      BY <3>4, <1>1 DEF Ticket, j
    <3>7. ks[w.job].attempts[w.attempt] = job[w.job].attempts[w.attempt]
      BY <3>5, <3>6, <1>6, <1>8 DEF r, n
    <3>8. Len(ks[w.job].attempts) = Len(job[w.job].attempts)
          /\ (w.job # j => ks[w.job] = job[w.job]) /\ (w.job = j => Len(ks[w.job].attempts) # w.attempt)
      BY <3>5, <3>6, <1>6, <1>8, <1>9
    <3> QED BY <3>2, <3>5, <3>7, <3>8 DEF Employed
  <2> QED BY <2>1, <2>2
<1> QED
  BY <1>9, <1>11, <1>12, <1>13, <1>14 DEF Journal

-----------------------------------------------------------------------------
(* The steps.                                                               *)

\* A process that stays where it is, or is free.
Like(v, w) == w.pc = v.pc /\ w.job = v.job /\ w.attempt = v.attempt /\ w.outcome = v.outcome
Calm(pr, qr) == \A q \in Procs : qr[q].pc \notin Busy \/ Like(pr[q], qr[q])

LEMMA CalmKeeps ==
  ASSUME NEW js, NEW pr, NEW qr, NEW sn, NEW rm, Calm(pr, qr), Apart(pr), Journal(js, pr, sn, rm)
  PROVE  Apart(qr) /\ Journal(js, qr, sn, rm)
<1>1. Apart(qr)
  BY DEF Calm, Like, Apart, Ticket
<1>2. ASSUME NEW q \in Procs PROVE Employed(qr[q], js, sn, rm)
  <2>1. Employed(pr[q], js, sn, rm)
    BY DEF Journal
  <2>2. CASE qr[q].pc \notin Busy
    BY <2>2 DEF Employed
  <2>3. CASE Like(pr[q], qr[q])
    BY <2>1, <2>3 DEF Employed, Like, Ticket, Unsent
  <2> QED BY <2>2, <2>3 DEF Calm
<1> QED
  BY <1>1, <1>2 DEF Journal

LEMMA StillMoves == ASSUME IInv PROVE Moves(job, job)
<1>1. \A j \in Jobs : Good(j, job[j])
  BY DEF IInv, Journal
<1>2. \A j \in Jobs : Len(job[j].attempts) \in Nat /\ \A k \in 1..Len(job[j].attempts) : RowOK(job[j].attempts[k])
  BY <1>1 DEF Good, Record
<1> QED
  BY <1>2, SameRow DEF Moves, Final

\* A step that changes no record, nor what a worker relies on.
LEMMA CalmStep ==
  ASSUME IInv, Shapes', Calm(proc, proc'), UNCHANGED <<job, sent, remote>>
  PROVE  IInv' /\ Moves(job, job')
BY CalmKeeps, StillMoves DEF IInv

\* A step that only makes records drift.
LEMMA DriftStep ==
  ASSUME IInv, Shapes', Calm(proc, proc'), UNCHANGED <<sent, remote>>,
         \A j \in Jobs : Good(j, job'[j]) /\ Drift(job[j], job'[j])
  PROVE  IInv' /\ Moves(job, job')
<1>1. Journal(job', proc, sent, remote) /\ Moves(job, job')
  BY DriftKeeps DEF IInv
<1>2. Apart(proc') /\ Journal(job', proc', sent, remote)
  BY <1>1, CalmKeeps DEF IInv
<1> QED
  BY <1>1, <1>2 DEF IInv

\* A worker goes one step further with its attempt.
LEMMA WorkerStep ==
  ASSUME IInv, Shapes', NEW p \in Procs, proc[p].pc \in Busy,
         NEW w, proc' = [proc EXCEPT ![p] = w], w.job = proc[p].job, w.attempt = proc[p].attempt,
         UNCHANGED job, Employed(w, job, sent', remote'), Transmitted(job, sent', remote'),
         sent' \subseteq sent \cup {Ticket(proc[p])}, remote \subseteq remote' \cup {Ticket(proc[p])},
         remote' \subseteq remote \cup {Ticket(proc[p])}
  PROVE  IInv' /\ Moves(job, job')
<1>1. \A q \in Procs : proc'[q] = IF q = p THEN w ELSE proc[q]
  BY DEF IInv, Shapes
<1>2. Apart(proc')
  BY <1>1 DEF IInv, Apart, Ticket
<1>3. ASSUME NEW q \in Procs PROVE Employed(proc'[q], job, sent', remote')
  <2>1. CASE q = p
    BY <1>1, <2>1
  <2>2. CASE q # p
    <3>1. SUFFICES ASSUME proc[q].pc \in Busy PROVE Employed(proc[q], job, sent', remote')
      BY <1>1, <2>2 DEF Employed
    <3>2. Ticket(proc[q]) # Ticket(proc[p])
      BY <2>2, <3>1 DEF IInv, Apart
    <3>3. Employed(proc[q], job, sent, remote)
      BY DEF IInv, Journal
    <3>4. /\ Ticket(proc[q]) \notin sent => Ticket(proc[q]) \notin sent'
          /\ Ticket(proc[q]) \in remote <=> Ticket(proc[q]) \in remote'
      BY <3>2
    <3> QED BY <3>1, <3>3, <3>4 DEF Employed
  <2> QED BY <2>1, <2>2
<1>4. Journal(job, proc', sent', remote')
  BY <1>3 DEF IInv, Journal
<1> QED
  BY <1>2, <1>4, StillMoves DEF IInv

LEMMA ClaimKeeps ==
  ASSUME IInv, Shapes', NEW p \in Procs, NEW j \in Jobs, Claim(p, j)
  PROVE  IInv' /\ Moves(job, job')
<1> DEFINE js == RecoverAll(clock)  r == js[j]  n == Len(r.attempts)
           lease == [heartbeat |-> clock, expires |-> clock + Lease]
           s == [r EXCEPT !.status = "running", !.retryAt = 0,
                          !.attempts = Append(@, Reservation), !.lease = lease]
<1>1. \A i \in Jobs : Good(i, job[i])
  BY DEF IInv, Journal
<1>2. \A i \in Jobs : js[i] = Recovered(job[i], clock)
  BY DEF RecoverAll
<1>3. \A i \in Jobs : Good(i, js[i]) /\ Drift(job[i], js[i])
  BY <1>1, <1>2, RecoveredGood
<1>4. Journal(js, proc, sent, remote) /\ Moves(job, js)
  BY <1>3, DriftKeeps DEF IInv
<1>5. CASE ~Admissible(js, j, p)
  <2>1. job' = js /\ proc' = proc /\ UNCHANGED <<sent, remote>>
    BY <1>5 DEF Claim, world
  <2>2. Calm(proc, proc')
    BY <2>1 DEF Calm, Like
  <2> QED BY <2>1, <2>2, <1>3, DriftStep
<1>6. CASE Admissible(js, j, p)
  <2>1. /\ r.status = "queued" /\ proc[p].pc = "idle" /\ job' = [js EXCEPT ![j] = s]
        /\ proc' = [proc EXCEPT ![p] = [proc[p] EXCEPT !.pc = "claimed", !.job = j, !.attempt = n + 1]]
        /\ UNCHANGED <<sent, remote>>
    BY <1>6 DEF Claim, world
  <2>2. r.terminal = None
    <3>1. r = Recovered(job[j], clock)
      BY <1>2
    <3> HIDE DEF js
    <3>2. ASSUME job[j].terminal # None, Open(job[j]) PROVE FALSE
      <4>1. r = Finish(job[j])
        BY <3>1, <3>2 DEF Recovered
      <4>2. ~Open(r)
        BY <1>1, <3>2, <4>1, FinishGood
      <4> QED BY <2>1, <4>2 DEF Open, Terminal
    <3>3. ASSUME ~Open(job[j]) PROVE FALSE
      BY <2>1, <3>1, <3>3 DEF Recovered, Open, Terminal
    <3>4. ~LeaseLapsed(job[j], clock)
      <4>1. ASSUME LeaseLapsed(job[j], clock) PROVE FALSE
        <5>1. r = Finish(Fenced(job[j]))
          BY <3>1, <3>2, <3>3, <4>1 DEF Recovered
        <5>2. Finish(Fenced(job[j])).status # "queued"
          <6>1. job[j].status = "running" /\ job[j].terminal = None
            BY <1>1, <3>2, <3>3, <4>1 DEF LeaseLapsed, Good
          <6>2. \E row, t : /\ Fenced(job[j]) = Ended(job[j], row, t) /\ RowOK(row)
                            /\ row.phase \notin {"reserved", "possible"} /\ t \in {"failed", "uncertain"}
            <7>1. CASE Last(job[j]).phase = "reserved"
              <8>1. Fenced(job[j]) = Ended(job[j], Released(Last(job[j])), "failed")
                BY <7>1 DEF Fenced, Ended
              <8> QED BY <8>1, <6>1, <1>1, RowsAre
            <7>2. CASE Last(job[j]).phase # "reserved"
              <8>1. Fenced(job[j]) = Ended(job[j], Uncertain(Last(job[j])), "uncertain")
                BY <7>2 DEF Fenced, Ended
              <8> QED BY <8>1, <6>1, <1>1, RowsAre
            <7> QED BY <7>1, <7>2
          <6>3. Good(j, Fenced(job[j])) /\ Open(Fenced(job[j])) /\ Fenced(job[j]).terminal # None
            BY <1>1, <6>1, <6>2, EndedGood DEF Open, Terminal, None
          <6>4. ~Open(Finish(Fenced(job[j])))
            BY <6>3, FinishGood
          <6> QED BY <6>4 DEF Open, Terminal
        <5> QED BY <2>1, <5>1, <5>2
      <4> QED BY <4>1
    <3>5. r.terminal = job[j].terminal
      BY <1>1, <3>1, <3>2, <3>3, <3>4 DEF Recovered, Good, Record
    <3> QED BY <3>2, <3>3, <3>5
  <2> HIDE DEF js
  <2>3. Good(j, r) /\ r \in Record /\ n \in Nat /\ n < MaxAttempts /\ Waiting(r) /\ MaxAttempts \in Nat
    <3>1. Good(j, r)
      BY <1>3
    <3>2. r \in Record
      BY <3>1 DEF Good
    <3>3. n \in Nat
      BY <3>2 DEF Record
    <3>4. n < MaxAttempts
      BY <1>6 DEF Admissible
    <3>5. Waiting(r)
      BY <2>1 DEF Waiting, Open, Terminal
    <3>6. MaxAttempts \in Nat
      BY AiConstants
    <3> QED BY <3>1, <3>2, <3>3, <3>4, <3>5, <3>6
  <2>4. RowOK(Reservation) /\ Reservation.phase = "reserved"
    <3>1. Day(clock) \in 0..Day(MaxTime)
      BY DayGrows DEF IInv, Shapes
    <3> QED BY <3>1 DEF Reservation, RowOK, RowType, Loose
  <2>5. /\ s \in Record /\ s.status = "running" /\ s.terminal = None /\ s.lease = lease
        /\ s.attempts = Append(r.attempts, Reservation)
    <3> DEFINE zero == 0  at == Append(r.attempts, Reservation)
    <3>1. s = [r EXCEPT !.status = "running", !.retryAt = zero, !.attempts = at, !.lease = lease]
      OBVIOUS
    <3>2. r.attempts \in Seq(RowType) /\ Reservation \in RowType
      BY <2>3, <2>4 DEF Record, RowOK
    <3>3. at \in Seq(RowType)
      BY <3>2
    <3>4. lease \in [heartbeat : Int, expires : Int] /\ zero \in Int
      BY AiConstants DEF IInv, Shapes
    <3> HIDE DEF s, at, lease, zero, r
    <3> QED BY <2>2, <2>3, <3>1, <3>3, <3>4 DEF Record, at
  <2>6. /\ Len(s.attempts) = n + 1 /\ s.attempts[n + 1] = Reservation
        /\ \A k \in 1..n : s.attempts[k] = r.attempts[k]
    BY <2>3, <2>5 DEF Record
  <2>7. lease # NoLease
    BY DEF NoLease, IInv, Shapes
  <2> HIDE DEF s, lease, n
  <2>8. \A k \in 1..n : RowOK(r.attempts[k]) /\ Stale(j, r.attempts[k])
    BY <2>2, <2>3 DEF Good, n
  <2>9. Good(j, s)
    <3>1. Len(s.attempts) <= MaxAttempts /\ Len(s.attempts) > 0
      BY <2>3, <2>6
    <3>2. Last(s).phase = "reserved"
      BY <2>4, <2>6 DEF Last
    <3>3. ~Waiting(s)
      BY <2>5 DEF Waiting
    <3>4. ASSUME NEW k \in 1..Len(s.attempts)
          PROVE  LET row == s.attempts[k] IN
                 /\ RowOK(row)
                 /\ row.phase \in {"reserved", "possible"} =>
                      k = Len(s.attempts) /\ s.status = "running" /\ s.terminal = None
                 /\ k < Len(s.attempts) => Stale(j, row)
      <4>1. CASE k = n + 1
        BY <4>1, <2>3, <2>4, <2>5, <2>6
      <4>2. CASE k # n + 1
        <5>1. k \in 1..n
          BY <4>2, <2>3, <2>6
        <5> QED BY <5>1, <2>6, <2>8 DEF Stale
      <4> QED BY <4>1, <4>2
    <3> QED BY <2>5, <2>7, <3>1, <3>2, <3>3, <3>4 DEF Good
  <2>10. \A i \in Jobs : job'[i] = IF i = j THEN s ELSE js[i]
    BY <2>1 DEF RecoverAll, js
  <2>11. \A i \in Jobs : Good(i, job'[i]) /\ Good(i, js[i])
    BY <1>3, <2>9, <2>10
  <2>12. \A i \in Jobs : \A k \in 1..Len(js[i].attempts) :
           k \in 1..Len(job'[i].attempts) /\ job'[i].attempts[k] = js[i].attempts[k]
    BY <2>3, <2>6, <2>10 DEF n
  <2>13. Moves(job, job')
    <3>1. \A i \in Jobs : Len(job[i].attempts) = Len(js[i].attempts) /\ Len(js[i].attempts) \in Nat
      BY <1>3 DEF Drift, Fading, Good, Record
    <3>2. \A i \in Jobs : Len(js[i].attempts) <= Len(job'[i].attempts)
      BY <2>3, <2>6, <2>10, <3>1 DEF n
    <3>3. \A i \in Jobs : Final(job[i], job'[i])
      BY <1>4, <2>2, <2>10 DEF Moves, Final
    <3> QED BY <1>4, <2>12, <3>1, <3>2, <3>3 DEF Moves
  <2> DEFINE x == <<j, n + 1>>
  <2>14. Rows(job') = Rows(js) \cup {x} /\ x \notin Rows(js)
    <3>1. x \notin Rows(js)
      BY <2>3, <2>11, RowsOf DEF n
    <3>2. x \in Rows(job')
      BY <2>3, <2>6, <2>10, <2>11, RowsOf
    <3>3. ASSUME NEW y \in Rows(js) PROVE y \in Rows(job')
      <4>1. y[1] \in Jobs /\ y[2] \in 1..Len(js[y[1]].attempts) /\ y = <<y[1], y[2]>>
        BY <2>11, RowsOf
      <4>2. y[2] \in 1..Len(job'[y[1]].attempts)
        BY <2>12, <4>1
      <4> QED BY <2>11, <4>1, <4>2, RowsOf
    <3>4. ASSUME NEW y \in Rows(job'), y # x PROVE y \in Rows(js)
      <4>1. y[1] \in Jobs /\ y[2] \in 1..Len(job'[y[1]].attempts) /\ y = <<y[1], y[2]>>
        BY <2>11, RowsOf
      <4>2. y[2] \in 1..Len(js[y[1]].attempts)
        BY <2>3, <2>6, <2>10, <3>4, <4>1 DEF n
      <4> QED BY <2>11, <4>1, <4>2, RowsOf
    <3> QED BY <3>1, <3>2, <3>3, <3>4
  <2>15. Row(job', x) = Reservation /\ \A y \in Rows(js) : Row(job', y) = Row(js, y)
    <3>1. Row(job', x) = Reservation
      BY <2>6, <2>10 DEF Row
    <3>2. \A y \in Rows(js) : y[1] \in Jobs /\ y[2] \in 1..Len(js[y[1]].attempts)
      BY <2>11, RowsOf
    <3> QED BY <3>1, <3>2, <2>12 DEF Row
  <2>16. Affordable(job')
    <3>1. Held(job') = Held(js) \cup {x} /\ Owed(job') = Owed(js) \cup {x} /\ x \notin Held(js) /\ x \notin Owed(js)
      BY <2>14, <2>15 DEF Held, Owed, Reservation
    <3>2. IsFiniteSet(Held(js)) /\ IsFiniteSet(Owed(js))
      <4>1. Held(js) \in SUBSET Rows(js) /\ Owed(js) \in SUBSET Rows(js)
        BY DEF Held, Owed
      <4> QED BY <4>1, RowsFinite, FS_Subset
    <3>3. /\ Cardinality(Held(job')) = Cardinality(Held(js)) + 1
          /\ Cardinality(Owed(job')) = Cardinality(Owed(js)) + 1
          /\ Cardinality(Held(js)) \in Nat /\ Cardinality(Owed(js)) \in Nat
      BY <3>1, <3>2, FS_AddElement, FS_CardinalityType
    <3> DEFINE b == control.budget
    <3>4. b \in Caps /\ b.concurrency \in Int /\ b.units \in Int /\ Reserve \in Nat
      BY AiConstants DEF IInv, Shapes
    <3>5. Active(js) < b.concurrency /\ PeriodUnits(js, Day(clock)) + Reserve <= b.units
      BY <1>6 DEF Admissible
    <3>6. Active(js) = Cardinality(Held(js))
      BY DEF Active, Held
    <3>7. PeriodUnits(js, Day(clock)) \in Nat /\ Reserve * Cardinality(Owed(js)) <= PeriodUnits(js, Day(clock))
      BY <2>11, OwedIsCounted
    <3>8. Cardinality(Held(job')) <= b.concurrency
      BY <3>3, <3>4, <3>5, <3>6
    <3> DEFINE c == Cardinality(Owed(js))  u == PeriodUnits(js, Day(clock))
    <3>0. c \in Nat /\ u \in Nat
      BY <3>3, <3>7
    <3> HIDE DEF b, c, u
    <3>9. Reserve * (c + 1) = Reserve * c + Reserve /\ Reserve * c \in Int
      BY <3>0, <3>4
    <3>10. Reserve * (c + 1) <= b.units
      BY <3>0, <3>4, <3>5, <3>7, <3>9 DEF c, u
    <3> QED BY <3>3, <3>4, <3>8, <3>10 DEF Affordable, c
  <2>17. Transmitted(job', sent, remote)
    BY <1>4, <2>14, <2>15 DEF Journal, Transmitted
  <2>18. \A q \in Procs : proc'[q] = IF q = p THEN [proc[p] EXCEPT !.pc = "claimed", !.job = j, !.attempt = n + 1]
                                     ELSE proc[q]
    BY <2>1 DEF IInv, Shapes, n
  <2>19. proc'[p].pc = "claimed" /\ proc'[p].job = j /\ proc'[p].attempt = n + 1
    BY <2>18, ZenonT(40) DEF IInv, Shapes, Processes
  <2>20. \A q \in Procs : q # p /\ proc'[q].pc \in Busy => Ticket(proc'[q]) # x /\ Ticket(proc'[q]) \in Rows(js)
    <3> TAKE q \in Procs
    <3>1. HAVE q # p /\ proc'[q].pc \in Busy
    <3>2. proc[q].job \in Jobs /\ proc[q].attempt \in 1..Len(js[proc[q].job].attempts)
      BY <1>4, <2>18, <3>1 DEF Journal, Employed
    <3>3. Ticket(proc[q]) \in Rows(js)
      BY <2>11, <3>2, RowsOf DEF Ticket
    <3> QED BY <2>14, <2>18, <3>1, <3>3
  <2>21. Apart(proc')
    <3>1. Ticket(proc'[p]) = x
      BY <2>19 DEF Ticket
    <3> QED BY <3>1, <2>18, <2>20 DEF IInv, Apart
  <2>22. ASSUME NEW q \in Procs PROVE Employed(proc'[q], job', sent, remote)
    <3>1. CASE q = p
      <4>1. x \notin sent
        BY <1>4, <2>14 DEF Journal, Transmitted
      <4> QED BY <3>1, <4>1, <2>3, <2>5, <2>6, <2>10, <2>19 DEF Employed, Ticket
    <3>2. CASE q # p
      <4> DEFINE w == proc[q]
      <4>1. proc'[q] = w /\ Employed(w, js, sent, remote)
        BY <3>2, <1>4, <2>18 DEF Journal
      <4> HIDE DEF w
      <4>2. SUFFICES ASSUME w.pc \in Busy PROVE Employed(w, job', sent, remote)
        BY <4>1 DEF Employed
      <4>3. w.job \in Jobs /\ w.attempt \in 1..Len(js[w.job].attempts)
        BY <4>1, <4>2 DEF Employed
      <4>4. w.attempt \in 1..Len(job'[w.job].attempts)
            /\ job'[w.job].attempts[w.attempt] = js[w.job].attempts[w.attempt]
        BY <2>12, <4>3
      <4>5. job'[w.job] = js[w.job] \/ job'[w.job].terminal = None
        BY <2>5, <2>10, <4>3
      <4> QED BY <4>1, <4>3, <4>4, <4>5 DEF Employed
    <3> QED BY <3>1, <3>2
  <2>23. Journal(job', proc', sent', remote')
    BY <2>1, <2>11, <2>16, <2>17, <2>22 DEF Journal
  <2> QED BY <2>13, <2>21, <2>23 DEF IInv
<1> QED
  BY <1>5, <1>6

\* A step that writes one row of one record, by a worker or by the operator.
LEMMA RowStep ==
  ASSUME IInv, Shapes', UNCHANGED <<sent, remote>>, NEW j \in Jobs, NEW k \in 1..Len(job[j].attempts),
         NEW row, RowMoves(job[j].attempts[k], row),
         NEW s, job' = [job EXCEPT ![j] = s], Good(j, s), Len(s.attempts) = Len(job[j].attempts),
         s.status = job[j].status, s.terminal = job[j].terminal,
         \A n \in 1..Len(job[j].attempts) : s.attempts[n] = IF n = k THEN row ELSE job[j].attempts[n],
         <<j, k>> \in sent => row.phase \in {"possible", "settled", "uncertain"},
         <<j, k>> \in remote => ~row.quiescent,
         row.phase \notin {"possible", "uncertain"} =>
           \A q \in Procs : proc[q].pc \in {"possible", "checked", "sent"} => Ticket(proc[q]) # <<j, k>>,
         Apart(proc'), \A q \in Procs : proc'[q] = proc[q] \/ Employed(proc'[q], job', sent, remote)
  PROVE  IInv' /\ Moves(job, job')
<1>1. \A i \in Jobs : job'[i] = IF i = j THEN s ELSE job[i]
  BY DEF IInv, Shapes
<1>2. \A i \in Jobs : Good(i, job[i]) /\ Good(i, job'[i]) /\ Len(job'[i].attempts) = Len(job[i].attempts)
  BY <1>1 DEF IInv, Journal
<1>3. \A i \in Jobs : Len(job[i].attempts) \in Nat
  <2> TAKE i \in Jobs
  <2>1. job[i] \in Record
    BY <1>2 DEF Good
  <2> QED BY <2>1 DEF Record
<1>4. \A i \in Jobs : \A n \in 1..Len(job[i].attempts) :
        job'[i].attempts[n] = IF i = j /\ n = k THEN row ELSE job[i].attempts[n]
  BY <1>1
<1>5. Moves(job, job')
  <2>1. ASSUME NEW i \in Jobs, NEW n \in 1..Len(job[i].attempts)
        PROVE  RowMoves(job[i].attempts[n], job'[i].attempts[n])
    <3>1. RowOK(job[i].attempts[n])
      BY <1>2 DEF Good
    <3>2. CASE i = j /\ n = k
      BY <3>2, <1>4
    <3>3. CASE ~(i = j /\ n = k)
      BY <3>1, <3>3, <1>4, SameRow
    <3> QED BY <3>2, <3>3
  <2>2. \A i \in Jobs : Final(job[i], job'[i])
    BY <1>1 DEF Final
  <2> QED BY <1>2, <1>3, <2>1, <2>2 DEF Moves
<1>6. Rows(job') = Rows(job) /\ Affordable(job')
  <2>1. (\A i \in Jobs : Good(i, job[i])) /\ (\A i \in Jobs : Good(i, job'[i]))
    BY <1>2
  <2>2. Rows(job') = Rows(job) /\ Held(job') \subseteq Held(job) /\ Owed(job') \subseteq Owed(job)
    BY <1>2, <1>5, <2>1, Shrinks
  <2> QED BY <2>2, AffordableKept DEF IInv, Journal
<1>7. Transmitted(job', sent, remote)
  <2>1. ASSUME NEW x \in sent
        PROVE  /\ x \in Rows(job') /\ Row(job', x).phase \in {"possible", "settled", "uncertain"}
               /\ x \in remote => ~Row(job', x).quiescent
    <3>1. x \in Rows(job) /\ Row(job, x).phase \in {"possible", "settled", "uncertain"}
          /\ (x \in remote => ~Row(job, x).quiescent)
      BY DEF IInv, Journal, Transmitted
    <3>2. x[1] \in Jobs /\ x[2] \in 1..Len(job[x[1]].attempts) /\ x = <<x[1], x[2]>>
      BY <3>1, <1>2, RowsOf
    <3>3. CASE x = <<j, k>>
      BY <3>2, <3>3, <1>4, <1>6, <3>1 DEF Row
    <3>4. CASE x # <<j, k>>
      <4>1. Row(job', x) = Row(job, x)
        BY <3>2, <3>4, <1>4 DEF Row
      <4> QED BY <4>1, <3>1, <1>6
    <3> QED BY <3>3, <3>4
  <2> QED BY <2>1 DEF IInv, Journal, Transmitted
<1>8. ASSUME NEW q \in Procs, proc'[q] = proc[q] PROVE Employed(proc'[q], job', sent, remote)
  <2> DEFINE w == proc[q]
  <2>1. Employed(w, job, sent, remote)
    BY DEF IInv, Journal
  <2>2. row.phase \notin {"possible", "uncertain"} => (w.pc \in {"possible", "checked", "sent"} => Ticket(w) # <<j, k>>)
    OBVIOUS
  <2> HIDE DEF w
  <2>3. SUFFICES ASSUME w.pc \in Busy PROVE Employed(w, job', sent, remote)
    BY <1>8 DEF Employed, w
  <2>4. w.job \in Jobs /\ w.attempt \in 1..Len(job[w.job].attempts)
    BY <2>1, <2>3 DEF Employed
  <2>5. /\ Len(job'[w.job].attempts) = Len(job[w.job].attempts)
        /\ job'[w.job].status = job[w.job].status /\ job'[w.job].terminal = job[w.job].terminal
    BY <2>4, <1>1
  <2>6. \/ job'[w.job].attempts[w.attempt] = job[w.job].attempts[w.attempt]
        \/ Ticket(w) = <<j, k>> /\ job'[w.job].attempts[w.attempt] = row
    BY <2>4, <1>4 DEF Ticket
  <2> QED BY <2>1, <2>2, <2>4, <2>5, <2>6 DEF Employed
<1>9. Journal(job', proc', sent', remote')
  BY <1>2, <1>6, <1>7, <1>8 DEF Journal
<1> QED
  BY <1>5, <1>9 DEF IInv

\* What the steps of a process write.
LEMMA ProcessesAre ==
  ASSUME Shapes, NEW p \in Procs
  PROVE  /\ Stopped \in Processes /\ Stopped.pc = "idle"
         /\ Idle(p) \in Processes /\ Idle(p).pc = "idle"
         /\ \A o \in {"possible", "result", "local_failure"} \cup NotSent, u \in Usage \cup {Unknown} :
              /\ Answered(p, o, u) \in Processes /\ Answered(p, o, u).pc = "answered"
              /\ Answered(p, o, u).outcome = o
              /\ Answered(p, o, u).job = proc[p].job /\ Answered(p, o, u).attempt = proc[p].attempt
<1>1. proc[p] \in Processes
  BY DEF Shapes
<1> DEFINE zero == 0  un == Unknown
<1>2. zero \in Nat /\ zero \in Int /\ un \in Usage \cup {Unknown} /\ FALSE \in BOOLEAN
  OBVIOUS
<1>3. Stopped = [session |-> FALSE, pc |-> "idle", job |-> None, attempt |-> zero,
                 outcome |-> None, units |-> un, sample |-> zero]
  BY DEF Stopped
<1>4. Idle(p) = [proc[p] EXCEPT !.pc = "idle", !.job = None, !.attempt = zero,
                                !.outcome = None, !.units = un, !.sample = zero]
  BY DEF Idle
<1> HIDE DEF zero, un
<1>5. Stopped \in Processes /\ Stopped.pc = "idle"
  BY <1>2, <1>3 DEF Processes
<1>6. Idle(p) \in Processes /\ Idle(p).pc = "idle"
  BY <1>1, <1>2, <1>4 DEF Processes
<1>7. ASSUME NEW o \in {"possible", "result", "local_failure"} \cup NotSent, NEW u \in Usage \cup {Unknown}
      PROVE  LET w == Answered(p, o, u) IN
             /\ w \in Processes /\ w.pc = "answered" /\ w.outcome = o
             /\ w.job = proc[p].job /\ w.attempt = proc[p].attempt
  BY <1>1, <1>7 DEF Answered, Processes, Busy
<1> QED
  BY <1>5, <1>6, <1>7

LEMMA AtIs ==
  ASSUME Shapes, NEW p \in Procs, NEW c \in Busy
  PROVE  LET w == [proc[p] EXCEPT !.pc = c] IN
         w \in Processes /\ w.pc = c /\ w.job = proc[p].job /\ w.attempt = proc[p].attempt
BY DEF Shapes, Processes

LEMMA ShapesKept ==
  ASSUME Shapes, clock' \in 0..MaxTime, NEW p \in Procs, NEW w \in Processes, proc' = [proc EXCEPT ![p] = w],
         UNCHANGED <<control, authority>>, job' = [j \in Jobs |-> job'[j]]
  PROVE  Shapes'
BY DEF Shapes

\* The dispatch mark of a claimed attempt.
LEMMA AuthorizeKeeps ==
  ASSUME IInv, NEW p \in Procs, Authorize(p)
  PROVE  IInv' /\ Moves(job, job')
<1> DEFINE j == proc[p].job  r == job[j]  n == Len(r.attempts)
           row == [Last(r) EXCEPT !.phase = "possible"]  s == WithLast(r, row)
           w == [proc[p] EXCEPT !.pc = "possible"]
<1>1. Shapes /\ proc[p].pc = "claimed" /\ proc[p].pc \in Busy /\ Employed(proc[p], job, sent, remote)
  BY DEF Authorize, Busy, IInv, Journal
<1>2. j \in Jobs /\ proc[p].attempt \in 1..n /\ Ticket(proc[p]) \notin sent
  BY <1>1 DEF Employed, Unsent
<1>3. UNCHANGED <<clock, control, authority, sent, remote>>
  BY DEF Authorize, world
<1>4. CASE ~(Owned(job, p) /\ Valid(job, j, p))
  <2> DEFINE a == Answered(p, "not_sent", Unknown)
  <2>1. proc' = [proc EXCEPT ![p] = a] /\ UNCHANGED job
    BY <1>4 DEF Authorize
  <2>2. a \in Processes /\ a.pc = "answered" /\ a.outcome = "not_sent" /\ a.job = j /\ a.attempt = proc[p].attempt
    BY <1>1, ProcessesAre DEF NotSent
  <2> HIDE DEF a
  <2>3. Shapes'
    BY <1>1, <1>3, <2>1, <2>2 DEF Shapes
  <2>4. Employed(a, job, sent, remote)
    BY <1>1, <1>2, <2>2 DEF Employed, Ticket, NotSent, None
  <2>5. Employed(a, job, sent', remote') /\ Transmitted(job, sent', remote')
    BY <2>4, <1>3 DEF IInv, Journal
  <2> QED BY <1>1, <1>3, <2>1, <2>2, <2>3, <2>5, WorkerStep
<1>5. CASE Owned(job, p) /\ Valid(job, j, p)
  <2>1. /\ job' = [job EXCEPT ![j] = s] /\ proc' = [proc EXCEPT ![p] = w]
    BY <1>5 DEF Authorize
  <2>2. r.status = "running" /\ n = proc[p].attempt
    BY <1>5 DEF Owned
  <2>3. Good(j, r) /\ r.terminal = None
    BY <1>1, <1>2, <2>2 DEF IInv, Journal, Employed, Busy
  <2>4. r \in Record /\ n \in Nat /\ n > 0 /\ RowOK(Last(r)) /\ Last(r) = r.attempts[n]
        /\ Last(r).phase \in {"reserved", "possible"} /\ Last(r).units = Unknown
    <3>1. r \in Record
      BY <2>3 DEF Good
    <3>2. n \in Nat
      BY <3>1, SMTT(30) DEF Record
    <3> HIDE DEF r, j, row
    <3> QED BY <1>2, <2>2, <2>3, <3>1, <3>2, RowsAre
  <2>5. RowOK(row) /\ row.phase = "possible" /\ row.units = Unknown /\ ~row.quiescent
    <3> DEFINE a == Last(r)
    <3>1. a \in RowType /\ ~a.quiescent /\ a.units = Unknown
      BY <2>4 DEF RowOK
    <3>2. row = [a EXCEPT !.phase = "possible"]
      OBVIOUS
    <3> HIDE DEF a, row
    <3> QED BY <3>1, <3>2 DEF RowOK, RowType, Loose
  <2>6. w \in Processes /\ w.pc = "possible" /\ w.job = j /\ w.attempt = proc[p].attempt
    BY <1>1, AtIs DEF Busy
  <2> HIDE DEF row, w
  <2>7. /\ s \in Record /\ Len(s.attempts) = n
        /\ \A k \in 1..n : s.attempts[k] = IF k = n THEN row ELSE r.attempts[k]
        /\ s.status = r.status /\ s.terminal = r.terminal /\ s.lease = r.lease
    BY <2>4, <2>5, WithLastIs DEF RowOK
  <2> HIDE DEF s
  <2>8. Good(j, s)
    <3>0. n = Len(r.attempts)
      OBVIOUS
    <3> HIDE DEF j, r, n
    <3>1. Last(s) = row
      BY <2>4, <2>7 DEF Last
    <3>2. ~Waiting(s) /\ s.status # "absent"
      BY <2>2, <2>7 DEF Waiting
    <3>3. \A k \in 1..n : /\ RowOK(s.attempts[k])
                          /\ s.attempts[k].phase \in {"reserved", "possible"} => k = n
                          /\ k < n => Stale(j, s.attempts[k])
      BY <2>3, <2>4, <2>5, <2>7, <3>0 DEF Good
    <3> QED BY <2>2, <2>3, <2>4, <2>5, <2>7, <3>0, <3>1, <3>2, <3>3 DEF Good
  <2>9. RowMoves(r.attempts[n], row)
    <3>1. RowOK(r.attempts[n]) /\ r.attempts[n].units = Unknown /\ ~r.attempts[n].quiescent
      BY <2>4 DEF RowOK, Loose
    <3> QED BY <3>1, <2>5 DEF RowMoves
  <2>10. Shapes'
    <3>1. job' = [i \in Jobs |-> job'[i]]
      BY <1>1, <2>1 DEF Shapes
    <3> HIDE DEF s, r, j
    <3>2. clock' \in 0..MaxTime
      BY <1>1, <1>3 DEF Shapes
    <3> QED BY <1>1, <1>3, <2>1, <2>6, <3>1, <3>2, ShapesKept
  <2>11. \A q \in Procs : proc'[q] = IF q = p THEN w ELSE proc[q]
    BY <1>1, <2>1 DEF Shapes
  <2>12. Apart(proc')
    BY <1>1, <2>6, <2>11 DEF IInv, Apart, Ticket, Busy
  <2>13. Employed(w, job', sent, remote)
    <3>1. job'[j] = s
      BY <1>1, <1>2, <2>1 DEF Shapes
    <3>2. s.attempts[n].phase = "possible" /\ s.terminal = None
      <4>1. n \in 1..n
        BY <2>4
      <4> HIDE DEF j, r, n
      <4> QED BY <4>1, <2>3, <2>4, <2>5, <2>7
    <3> QED BY <1>2, <2>2, <2>6, <2>7, <3>1, <3>2 DEF Employed, Ticket
  <2>14. <<j, n>> \notin sent /\ n \in 1..n
    BY <1>2, <2>2, <2>4 DEF Ticket
  <2>15. \A q \in Procs : proc'[q] = proc[q] \/ Employed(proc'[q], job', sent, remote)
    BY <2>11, <2>13
  <2>16. r = job[j] /\ n = Len(job[j].attempts)
    OBVIOUS
  <2> HIDE DEF j, r, n
  <2>17. row.phase \in {"possible", "uncertain"} /\ ~row.quiescent /\ n \in 1..Len(job[j].attempts)
    BY <2>5, <2>14, <2>16
  <2>18. \A k \in 1..Len(job[j].attempts) : s.attempts[k] = IF k = n THEN row ELSE job[j].attempts[k]
    BY <2>7, <2>16
  <2>19. RowMoves(job[j].attempts[n], row) /\ Len(s.attempts) = Len(job[j].attempts)
    BY <2>7, <2>9, <2>16
  <2>20. s.status = job[j].status /\ s.terminal = job[j].terminal /\ job' = [job EXCEPT ![j] = s]
    BY <2>1, <2>7, <2>16
  <2> QED BY <1>2, <1>3, <2>8, <2>10, <2>12, <2>14, <2>15, <2>17, <2>18, <2>19, <2>20, RowStep
<1> QED
  BY <1>4, <1>5

\* The operator's statement about an attempt that neither runs nor will.
LEMMA ReconcileKeeps ==
  ASSUME IInv, NEW j \in Jobs, NEW k \in 1..MaxAttempts, NEW u \in Usage \cup {Unknown}, Reconcile(j, k, u)
  PROVE  IInv' /\ Moves(job, job')
<1> DEFINE r == job[j]  n == Len(r.attempts)  a == r.attempts[k]  row == Reconciled(a, u)
           at == [r.attempts EXCEPT ![k] = row]  s == [r EXCEPT !.attempts = at]
<1>1. /\ k <= n /\ Quiescent(j, k) /\ a.phase \in {"uncertain", "settled"}
      /\ u # Unknown => (a.units = Unknown \/ u >= a.units)
      /\ job' = [job EXCEPT ![j] = s]
      /\ UNCHANGED <<clock, control, authority, proc, sent, remote>>
  BY DEF Reconcile, world
<1>2. Good(j, r) /\ Shapes
  BY DEF IInv, Journal
<1>3. r \in Record /\ n \in Nat /\ k \in 1..n
  BY <1>1, <1>2 DEF Good, Record
<1>4. RowOK(a)
  BY <1>2, <1>3 DEF Good
<1>5. RowOK(row) /\ row.phase = "settled" /\ row.quiescent /\ (row.units = a.units \/ (row.units = u /\ u # Unknown))
  <2>1. a \in RowType /\ a.units \in Usage \cup {Unknown}
    BY <1>1, <1>4 DEF RowOK, Loose
  <2> HIDE DEF a
  <2>2. PICK v \in {a.units, u} : /\ row = [a EXCEPT !.phase = "settled", !.quiescent = TRUE, !.units = v]
                                  /\ v = a.units \/ (v = u /\ u # Unknown)
    BY DEF Reconciled
  <2>3. v \in Usage \cup {Unknown}
    BY <2>1
  <2> HIDE DEF row
  <2> QED BY <2>1, <2>2, <2>3 DEF RowOK, RowType, Loose
<1>6. RowMoves(a, row)
  <2>1. CASE row.units = a.units
    BY <2>1, <1>4, <1>5, UnitsAre DEF RowMoves
  <2>2. CASE row.units = u /\ u # Unknown /\ a.units # Unknown
    BY <2>2, <1>1, <1>5 DEF RowMoves
  <2>3. CASE row.units = u /\ u # Unknown /\ a.units = Unknown
    <3>1. row.units >= Unknown
      BY <2>3, <1>5, UnitsAre
    <3> QED BY <2>3, <3>1, <1>5 DEF RowMoves
  <2> QED BY <1>5, <2>1, <2>2, <2>3
<1> HIDE DEF row
<1>7. /\ s \in Record /\ Len(s.attempts) = n /\ s.attempts = at
      /\ \A m \in 1..n : s.attempts[m] = IF m = k THEN row ELSE r.attempts[m]
      /\ s.status = r.status /\ s.terminal = r.terminal /\ s.lease = r.lease
  <2>1. r.attempts \in Seq(RowType) /\ row \in RowType
    BY <1>3, <1>5 DEF Record, RowOK
  <2>2. /\ at \in Seq(RowType) /\ Len(at) = n
        /\ \A m \in 1..n : at[m] = IF m = k THEN row ELSE r.attempts[m]
    BY <1>3, <2>1
  <2> HIDE DEF at
  <2> QED BY <1>3, <2>2 DEF Record
<1> HIDE DEF s, at
<1>8. Good(j, s)
  <2>1. r.status # "absent"
    BY <1>2, <1>3 DEF Good, Absent
  <2>2. r.status = "running" /\ r.terminal = None => Last(s).phase \in {"reserved", "possible"}
    <3>1. ASSUME r.status = "running", r.terminal = None PROVE k # n
      BY <3>1, <1>1, <1>2 DEF Good, Last
    <3> QED BY <3>1, <1>2, <1>3, <1>7 DEF Good, Last
  <2>3. Waiting(s) <=> Waiting(r)
    BY <1>7 DEF Waiting, Open
  <2>4. Stale(j, a) => Stale(j, row)
    BY <1>1, <1>5 DEF Stale
  <2>5. \A m \in 1..n : LET x == s.attempts[m] IN
          /\ RowOK(x)
          /\ x.phase \in {"reserved", "possible"} => m = n /\ s.status = "running" /\ s.terminal = None
          /\ m < n \/ (Waiting(s) /\ s.terminal = None) => Stale(j, x)
    BY <1>2, <1>5, <1>7, <2>3, <2>4 DEF Good
  <2> QED BY <1>2, <1>7, <2>1, <2>2, <2>3, <2>5 DEF Good
<1>9. Shapes'
  BY <1>1, <1>2 DEF Shapes
<1>10. Apart(proc') /\ \A q \in Procs : proc'[q] = proc[q]
  BY <1>1 DEF IInv
<1>11. <<j, k>> \notin remote
  BY <1>1 DEF Quiescent
<1>12. \A q \in Procs : proc[q].pc \in {"possible", "checked", "sent"} => Ticket(proc[q]) # <<j, k>>
  <2> TAKE q \in Procs
  <2>1. proc[q].pc \in {"possible", "checked"} => Ticket(proc[q]) # <<j, k>>
    BY <1>1 DEF Quiescent, Ticket
  <2>2. proc[q].pc = "sent" => Ticket(proc[q]) \in remote
    BY DEF IInv, Journal, Employed, Busy
  <2> QED BY <2>1, <2>2, <1>11
<1> HIDE DEF r, n
<1> QED
  BY <1>1, <1>3, <1>5, <1>6, <1>7, <1>8, <1>9, <1>10, <1>11, <1>12, RowStep DEF r, n, a

\* The steps that only make records drift: enqueueing, operator controls, recovery,
\* switching off and a restore.
LEMMA EnqueueKeeps ==
  ASSUME IInv, NEW j \in Jobs, NEW ack \in BOOLEAN, Enqueue(j, ack)
  PROVE  IInv' /\ Moves(job, job')
<1> DEFINE zero == 0  none == <<>>  end == clock + Deadline
           s == [Absent EXCEPT !.status = "queued", !.generation = control.generation,
                      !.binding = authority[RefOf[j]], !.created = clock, !.deadline = end]
<1>1. /\ job[j].status = "absent" /\ job' = [job EXCEPT ![j] = s]
      /\ UNCHANGED <<clock, control, authority, proc, sent, remote>>
  BY DEF Enqueue, world
<1>2. Shapes /\ \A i \in Jobs : Good(i, job[i])
  BY DEF IInv, Journal
<1>3. job[j] = Absent
  BY <1>1, <1>2 DEF Good
<1>4. /\ clock \in Int /\ end \in Int /\ control.generation \in Nat /\ authority[RefOf[j]] \in Nat
      /\ NoLease \in [heartbeat : Int, expires : Int] /\ zero \in Nat /\ zero \in Int
      /\ none \in Seq(RowType) /\ None \in Cancels
  BY <1>2, AiConstants DEF Shapes, NoLease, Cancels
<1>5. /\ Absent \in Record /\ Absent.attempts = none /\ Absent.terminal = None /\ Absent.lease = NoLease
  <2>1. Absent = [status |-> "absent", terminal |-> None, cancel |-> None, generation |-> zero,
                  binding |-> zero, created |-> zero, deadline |-> zero, restored |-> FALSE,
                  retryAt |-> zero, resumeAt |-> zero, lease |-> NoLease, attempts |-> none]
    BY DEF Absent
  <2> HIDE DEF zero, none
  <2> QED BY <1>4, <2>1 DEF Record
<1>6. Len(none) = 0
  OBVIOUS
<1> DEFINE g == control.generation  v == authority[RefOf[j]]
<1> HIDE DEF none, zero, end, g, v
<1>7. s \in Record /\ s.status = "queued" /\ s.terminal = None /\ s.attempts = none /\ s.lease = NoLease
  <2>1. s = [Absent EXCEPT !.status = "queued", !.generation = g, !.binding = v, !.created = clock,
                           !.deadline = end]
    BY DEF g, v
  <2>2. g \in Nat /\ v \in Nat
    BY <1>4 DEF g, v
  <2> HIDE DEF s
  <2> QED BY <1>4, <1>5, <2>1, <2>2 DEF Record
<1> HIDE DEF s
<1>8. Good(j, s)
  <2>1. MaxAttempts \in Nat
    BY AiConstants
  <2> QED BY <1>6, <1>7, <2>1 DEF Good
<1>9. Drift(Absent, s)
  BY <1>5, <1>6, <1>7 DEF Drift, Fading, Final
<1>10. \A i \in Jobs : job'[i] = IF i = j THEN s ELSE job[i]
  BY <1>1, <1>2 DEF Shapes
<1>11. \A i \in Jobs : Good(i, job'[i]) /\ Drift(job[i], job'[i])
  BY <1>2, <1>3, <1>8, <1>9, <1>10, NoDrift
<1>12. Shapes' /\ Calm(proc, proc')
  BY <1>1, <1>2 DEF Shapes, Calm, Like
<1> QED
  BY <1>1, <1>11, <1>12, DriftStep

LEMMA ControlKeeps ==
  ASSUME IInv, NEW j \in Jobs, NEW a \in {"pause", "resume", "cancel", "retry"}, Control(j, a)
  PROVE  IInv' /\ Moves(job, job')
<1> DEFINE r == job[j]  zero == 0
           s == IF a = "retry" THEN [r EXCEPT !.status = "queued", !.retryAt = zero]
                ELSE Finished(Controlled(r, a))
<1>1. /\ Open(r) /\ Capable(r, a) /\ job' = [job EXCEPT ![j] = s]
      /\ UNCHANGED <<clock, control, authority, proc, sent, remote>>
  BY DEF Control, world
<1>2. Shapes /\ \A i \in Jobs : Good(i, job[i])
  BY DEF IInv, Journal
<1>3. Good(j, s) /\ Drift(r, s)
  <2>1. CASE a = "retry"
    <3>1. r.status = "retry_wait" /\ Waiting(r)
      BY <1>1, <2>1 DEF Capable, Waiting
    <3>2. s = [r EXCEPT !.status = "queued", !.retryAt = zero] /\ r \in Record /\ zero \in Int
      BY <1>2, <2>1 DEF Good
    <3> HIDE DEF s, zero, r
    <3>3. /\ s \in Record /\ s.status = "queued" /\ s.terminal = r.terminal /\ s.lease = r.lease
          /\ s.attempts = r.attempts
      BY <3>2 DEF Record
    <3>4. Waiting(s)
      BY <3>3 DEF Waiting, Open, Terminal
    <3>5. Good(j, r)
      BY <1>2 DEF r
    <3>6. Good(j, s)
      BY <3>1, <3>3, <3>4, <3>5 DEF Good
    <3>7. Drift(r, s)
      BY <3>1, <3>3, <3>4 DEF Drift, Fading, Faded, Final, Waiting
    <3> QED BY <3>6, <3>7
  <2>2. CASE a # "retry"
    <3>1. a = "resume" => r.status = "paused"
      BY <1>1 DEF Capable
    <3>2. s = Finished(Controlled(r, a))
      BY <2>2
    <3>3. Good(j, r) /\ a \in {"pause", "resume", "cancel", "disable"}
      BY <1>2, <2>2
    <3> HIDE DEF s, r
    <3>4. Good(j, Controlled(r, a)) /\ Drift(r, Controlled(r, a))
      BY <3>1, <3>3, ControlledGood
    <3>5. Good(j, s) /\ Drift(Controlled(r, a), s)
      BY <3>2, <3>4, FinishedGood
    <3> QED BY <3>3, <3>4, <3>5, DriftCompose
  <2> QED BY <2>1, <2>2
<1> HIDE DEF s
<1>4. \A i \in Jobs : job'[i] = IF i = j THEN s ELSE job[i]
  BY <1>1, <1>2 DEF Shapes
<1>5. \A i \in Jobs : Good(i, job'[i]) /\ Drift(job[i], job'[i])
  BY <1>2, <1>3, <1>4, NoDrift
<1>6. Shapes' /\ Calm(proc, proc')
  BY <1>1, <1>2 DEF Shapes, Calm, Like
<1> QED
  BY <1>1, <1>5, <1>6, DriftStep

LEMMA DisabledGood ==
  ASSUME NEW j \in Jobs, NEW r, Good(j, r)
  PROVE  LET c == Controlled(r, "disable")  s == Finished(c) IN
         Good(j, c) /\ Drift(r, c) /\ Good(j, s) /\ Drift(r, s)
<1> DEFINE c == Controlled(r, "disable")  s == Finished(c)
<1>1. Good(j, c) /\ Drift(r, c)
  BY ControlledGood
<1> HIDE DEF c
<1>2. Good(j, s) /\ Drift(c, s)
  BY <1>1, FinishedGood
<1>3. Drift(r, s)
  BY <1>1, <1>2, DriftCompose
<1> QED
  BY <1>1, <1>2, <1>3 DEF c

\* At most one process moves, and it is free or stays with its attempt.
CalmMoves ==
  proc' = proc \/ \E p \in Procs, w \in Processes :
    proc' = [proc EXCEPT ![p] = w] /\ (w.pc \notin Busy \/ Like(proc[p], w))

LEMMA CalmMove ==
  ASSUME Shapes, CalmMoves
  PROVE  proc' \in [Procs -> Processes] /\ Calm(proc, proc')
<1>1. CASE proc' = proc
  BY <1>1 DEF Shapes, Calm, Like
<1>2. CASE proc' # proc
  <2>1. PICK p \in Procs, w \in Processes :
          proc' = [proc EXCEPT ![p] = w] /\ (w.pc \notin Busy \/ Like(proc[p], w))
    BY <1>2 DEF CalmMoves
  <2>2. \A q \in Procs : proc'[q] = IF q = p THEN w ELSE proc[q]
    BY <2>1 DEF Shapes
  <2> QED BY <2>1, <2>2 DEF Shapes, Calm, Like
<1> QED
  BY <1>1, <1>2

\* The process that did it is free or goes on, and records drift.
LEMMA JournalDrifts ==
  ASSUME IInv, clock' = clock, authority' = authority, UNCHANGED <<sent, remote>>,
         control' = control \/ (control' = Off /\ control.generation < MaxGeneration),
         CalmMoves,
         job' = [j \in Jobs |-> job'[j]],
         \A j \in Jobs : Good(j, job'[j]) /\ Drift(job[j], job'[j])
  PROVE  IInv' /\ Moves(job, job')
<1>1. Shapes
  BY DEF IInv
<1>2. proc' \in [Procs -> Processes] /\ Calm(proc, proc')
  BY <1>1, CalmMove
<1>3. control' \in [mode : {"off", "enabled", "paused"}, generation : 0..MaxGeneration,
                    revoked : SUBSET Refs, budget : Caps]
  <2> DEFINE g == control.generation + 1
  <2>1. CASE control' = control
    BY <1>1, <2>1 DEF Shapes
  <2>2. CASE control' = Off /\ control.generation < MaxGeneration
    <3>1. g \in 0..MaxGeneration /\ control' = [control EXCEPT !.mode = "off", !.generation = g]
      BY <1>1, <2>2, AiConstants DEF Shapes, Off
    <3> HIDE DEF g
    <3> QED BY <1>1, <3>1 DEF Shapes
  <2> QED BY <2>1, <2>2
<1>4. Shapes'
  BY <1>1, <1>2, <1>3 DEF Shapes
<1> QED
  BY <1>2, <1>4, DriftStep

LEMMA RecoverKeeps ==
  ASSUME IInv, NEW now, job' = RecoverAll(now), UNCHANGED <<clock, control, authority, sent, remote>>,
         proc' = proc \/ \E p \in Procs : proc' = [proc EXCEPT ![p] = Idle(p)]
  PROVE  IInv' /\ Moves(job, job')
<1>1. \A j \in Jobs : Good(j, job'[j]) /\ Drift(job[j], job'[j])
  BY RecoveredGood DEF IInv, Journal, RecoverAll
<1>2. job' = [j \in Jobs |-> job'[j]]
  BY DEF RecoverAll
<1>3. \A p \in Procs : Idle(p) \in Processes /\ Idle(p).pc \notin Busy
  BY ProcessesAre DEF IInv, Busy
<1> QED
  BY <1>1, <1>2, <1>3, JournalDrifts DEF CalmMoves

LEMMA OffKeeps ==
  ASSUME IInv, NEW p \in Procs, ConfigureOff(p) \/ ConfigureOffCrash(p)
  PROVE  IInv' /\ Moves(job, job')
<1>0. \A j \in Jobs : Good(j, job[j])
  BY DEF IInv, Journal
<1>1. /\ control' = Off /\ control.generation < MaxGeneration
      /\ UNCHANGED <<clock, authority, sent, remote>>
  BY DEF ConfigureOff, ConfigureOffCrash, world
<1>2. \E w \in Processes : proc' = [proc EXCEPT ![p] = w] /\ (w.pc \notin Busy \/ Like(proc[p], w))
  <2>1. CASE ConfigureOff(p)
    <3> DEFINE w == [proc[p] EXCEPT !.session = FALSE]
    <3>1. proc' = [proc EXCEPT ![p] = w]
      BY <2>1 DEF ConfigureOff
    <3>2. w \in Processes /\ Like(proc[p], w)
      BY ZenonT(40) DEF IInv, Shapes, Processes, Like
    <3> QED BY <3>1, <3>2
  <2>2. CASE ConfigureOffCrash(p)
    BY <2>2, ProcessesAre DEF IInv, ConfigureOffCrash, Busy
  <2> QED BY <2>1, <2>2
<1>3. job' = [j \in Jobs |-> job'[j]]
  BY DEF ConfigureOff, ConfigureOffCrash
<1>4. \A j \in Jobs : Good(j, job'[j]) /\ Drift(job[j], job'[j])
  <2> TAKE j \in Jobs
  <2>1. job'[j] \in {job[j], Controlled(job[j], "disable"), Finished(Controlled(job[j], "disable"))}
    BY DEF ConfigureOff, ConfigureOffCrash
  <2> QED BY <1>0, <2>1, DisabledGood, NoDrift
<1> QED
  BY <1>1, <1>2, <1>3, <1>4, JournalDrifts DEF CalmMoves

LEMMA RestoreKeeps ==
  ASSUME IInv, Restore
  PROVE  IInv' /\ Moves(job, job')
<1>0. \A j \in Jobs : Good(j, job[j])
  BY DEF IInv, Journal
<1>1. /\ control' = Off /\ control.generation < MaxGeneration
      /\ UNCHANGED <<clock, authority, proc, sent, remote>> /\ job' = [j \in Jobs |-> job'[j]]
  BY DEF Restore, world
<1>2. \A j \in Jobs : Good(j, job'[j]) /\ Drift(job[j], job'[j])
  <2> TAKE j \in Jobs
  <2>1. job'[j] = IF job[j].status = "absent" THEN job[j] ELSE RestoredJob(job[j])
    BY DEF Restore
  <2> QED BY <1>0, <2>1, RestoredGood, NoDrift
<1> QED
  BY <1>1, <1>2, JournalDrifts DEF CalmMoves

\* The adapter's exchange and the busy locks: the worker moves, its records do not.
LEMMA AnswerKeeps ==
  ASSUME IInv, NEW p \in Procs, proc[p].pc \in Busy,
         NEW o \in {"possible", "result", "local_failure"} \cup NotSent, NEW u \in Usage \cup {Unknown},
         proc' = [proc EXCEPT ![p] = Answered(p, o, u)],
         UNCHANGED <<clock, control, authority, job, sent>>,
         remote' \in {remote, remote \ {Ticket(proc[p])}},
         o \in NotSent => Ticket(proc[p]) \notin sent,
         o \in {"result", "local_failure"} => Ticket(proc[p]) \notin remote',
         o = "local_failure" => proc[p].job \in Native
  PROVE  IInv' /\ Moves(job, job')
<1> DEFINE w == Answered(p, o, u)
<1>1. Shapes /\ Employed(proc[p], job, sent, remote) /\ Transmitted(job, sent, remote)
  BY DEF IInv, Journal
<1>2. w \in Processes /\ w.pc = "answered" /\ w.outcome = o /\ w.job = proc[p].job /\ w.attempt = proc[p].attempt
  BY <1>1, ProcessesAre
<1> HIDE DEF w
<1>3. Shapes'
  BY <1>1, <1>2 DEF Shapes, w
<1>4. o # None
  BY DEF NotSent, None
<1>5. Employed(w, job, sent', remote')
  BY <1>1, <1>2, <1>4 DEF Employed, Ticket, Unsent
<1>6. Transmitted(job, sent', remote')
  BY <1>1 DEF Transmitted
<1>7. /\ sent' \subseteq sent \cup {Ticket(proc[p])} /\ remote \subseteq remote' \cup {Ticket(proc[p])}
      /\ remote' \subseteq remote \cup {Ticket(proc[p])}
  OBVIOUS
<1> QED
  BY <1>2, <1>3, <1>5, <1>6, <1>7, WorkerStep DEF w

LEMMA ExchangeKeeps ==
  ASSUME IInv, NEW p \in Procs,
         AuthorizeBusy(p) \/ AdapterCheck(p) \/ ConnectFails(p) \/ Send(p) \/ Answer(p) \/ CompleteBusy(p)
  PROVE  IInv' /\ Moves(job, job')
<1>0. /\ Shapes /\ Employed(proc[p], job, sent, remote) /\ Transmitted(job, sent, remote)
      /\ Unknown \in Usage \cup {Unknown} /\ proc[p] \in Processes
  BY DEF IInv, Journal, Shapes
<1>1. CASE AuthorizeBusy(p)
  <2>1. /\ proc[p].pc = "claimed" /\ proc' = [proc EXCEPT ![p] = Answered(p, "not_sent", Unknown)]
        /\ UNCHANGED <<clock, control, authority, job, sent, remote>>
    BY <1>1 DEF AuthorizeBusy, world
  <2>2. proc[p].pc \in Busy /\ Ticket(proc[p]) \notin sent
    BY <1>0, <2>1 DEF Busy, Employed, Unsent
  <2> QED BY <1>0, <2>1, <2>2, AnswerKeeps DEF NotSent
<1>2. CASE AdapterCheck(p)
  <2>1. /\ proc[p].pc = "possible" /\ UNCHANGED <<clock, control, authority, job, sent, remote>>
    BY <1>2 DEF AdapterCheck, world
  <2>2. proc[p].pc \in Busy /\ Ticket(proc[p]) \notin sent
    BY <1>0, <2>1 DEF Busy, Employed, Unsent
  <2>3. CASE proc' = [proc EXCEPT ![p] = Answered(p, "not_sent", Unknown)]
    BY <1>0, <2>1, <2>2, <2>3, AnswerKeeps DEF NotSent
  <2>4. CASE proc' = [proc EXCEPT ![p] = [proc[p] EXCEPT !.pc = "checked"]]
    <3> DEFINE w == [proc[p] EXCEPT !.pc = "checked"]
    <3>1. w \in Processes /\ w.pc = "checked" /\ w.job = proc[p].job /\ w.attempt = proc[p].attempt
      BY <1>0, AtIs DEF Busy
    <3> HIDE DEF w
    <3>2. Shapes'
      BY <1>0, <2>1, <2>4, <3>1 DEF Shapes, w
    <3>3. Employed(w, job, sent', remote') /\ Transmitted(job, sent', remote')
      BY <1>0, <2>1, <2>2, <3>1 DEF Employed, Ticket
    <3> QED BY <2>1, <2>2, <2>4, <3>1, <3>2, <3>3, WorkerStep DEF w
  <2> QED BY <1>2, <2>3, <2>4 DEF AdapterCheck
<1>3. CASE ConnectFails(p)
  <2>1. /\ proc[p].pc = "checked" /\ UNCHANGED <<clock, control, authority, job, sent, remote>>
        /\ \E o \in NotSent : proc' = [proc EXCEPT ![p] = Answered(p, o, Unknown)]
    BY <1>3 DEF ConnectFails, world, NotSent
  <2>2. proc[p].pc \in Busy /\ Ticket(proc[p]) \notin sent
    BY <1>0, <2>1 DEF Busy, Employed, Unsent
  <2>3. PICK o \in NotSent : proc' = [proc EXCEPT ![p] = Answered(p, o, Unknown)]
    BY <2>1
  <2>4. o \notin {"result", "local_failure"}
    BY DEF NotSent
  <2> QED BY <1>0, <2>1, <2>2, <2>3, <2>4, AnswerKeeps
<1>4. CASE Send(p)
  <2> DEFINE x == Ticket(proc[p])  w == [proc[p] EXCEPT !.pc = "sent"]
  <2>1. /\ proc[p].pc = "checked" /\ UNCHANGED <<clock, control, authority, job>>
        /\ sent' = sent \cup {x} /\ remote' = remote \cup {x} /\ proc' = [proc EXCEPT ![p] = w]
    BY <1>4 DEF Send, Ticket
  <2>2. /\ proc[p].pc \in Busy /\ proc[p].job \in Jobs /\ proc[p].attempt \in 1..Len(job[proc[p].job].attempts)
        /\ job[proc[p].job].attempts[proc[p].attempt].phase \in {"possible", "uncertain"}
    BY <1>0, <2>1 DEF Employed, Busy
  <2>3. w \in Processes /\ w.pc = "sent" /\ w.job = proc[p].job /\ w.attempt = proc[p].attempt
    BY <1>0, AtIs DEF Busy
  <2> HIDE DEF w, x
  <2>4. Shapes'
    BY <1>0, <2>1, <2>3 DEF Shapes
  <2>5. Employed(w, job, sent', remote')
    BY <1>0, <2>1, <2>2, <2>3 DEF Employed, Unsent, Ticket, x
  <2>6. x \in Rows(job) /\ Row(job, x).phase \in {"possible", "uncertain"} /\ ~Row(job, x).quiescent
    <3>1. \A j \in Jobs : Good(j, job[j])
      BY DEF IInv, Journal
    <3>2. x \in Rows(job) /\ Row(job, x) = job[proc[p].job].attempts[proc[p].attempt]
      BY <2>2, <3>1, RowsOf DEF x, Ticket, Row
    <3>3. RowOK(Row(job, x))
      BY <2>2, <3>1, <3>2 DEF Good
    <3> QED BY <2>2, <3>2, <3>3 DEF RowOK
  <2>7. Transmitted(job, sent', remote')
    BY <1>0, <2>1, <2>6 DEF Transmitted
  <2>8. sent' \subseteq sent \cup {x} /\ remote \subseteq remote' \cup {x} /\ remote' \subseteq remote \cup {x}
    BY <2>1
  <2> QED BY <2>1, <2>2, <2>3, <2>4, <2>5, <2>7, <2>8, WorkerStep DEF x
<1>5. CASE Answer(p)
  <2>1. /\ proc[p].pc = "sent" /\ proc[p].pc \in Busy
        /\ UNCHANGED <<clock, control, authority, job, sent>>
    BY <1>5 DEF Answer, Busy
  <2>2. \E o \in {"result", "possible", "local_failure"}, u \in Usage \cup {Unknown} :
          /\ proc' = [proc EXCEPT ![p] = Answered(p, o, u)]
          /\ o = "possible" => remote' = remote
          /\ o # "possible" => remote' = remote \ {Ticket(proc[p])}
          /\ o = "local_failure" => proc[p].job \in Native
    BY <1>0, <1>5 DEF Answer, RemoteEnds, Ticket
  <2>3. PICK o \in {"result", "possible", "local_failure"}, u \in Usage \cup {Unknown} :
          /\ proc' = [proc EXCEPT ![p] = Answered(p, o, u)]
          /\ o = "possible" => remote' = remote
          /\ o # "possible" => remote' = remote \ {Ticket(proc[p])}
          /\ o = "local_failure" => proc[p].job \in Native
    BY <2>2
  <2>4. o \notin NotSent
    BY DEF NotSent
  <2> QED BY <2>1, <2>3, <2>4, AnswerKeeps
<1>6. CASE CompleteBusy(p)
  <2>1. /\ proc[p].pc = "answered" /\ proc[p].pc \in Busy
        /\ UNCHANGED <<clock, control, authority, job, sent, remote>>
    BY <1>6 DEF CompleteBusy, world, Busy
  <2>2. CASE proc' = [proc EXCEPT ![p] = Answered(p, "possible", Unknown)]
    BY <1>0, <2>1, <2>2, AnswerKeeps DEF NotSent
  <2>3. CASE proc' = [proc EXCEPT ![p] = Idle(p)]
    <3>1. Idle(p) \in Processes /\ Idle(p).pc \notin Busy
      BY <1>0, ProcessesAre DEF Busy
    <3>2. Shapes' /\ \A q \in Procs : proc'[q] = IF q = p THEN Idle(p) ELSE proc[q]
      BY <1>0, <2>1, <2>3, <3>1 DEF Shapes
    <3>3. Calm(proc, proc')
      BY <3>1, <3>2 DEF Calm, Like
    <3> QED BY <2>1, <3>2, <3>3, CalmStep
  <2> QED BY <1>6, <2>2, <2>3 DEF CompleteBusy
<1> QED
  BY <1>1, <1>2, <1>3, <1>4, <1>5, <1>6

\* Settlement, whole or cut off before the receipt.
LEMMA CompleteKeeps ==
  ASSUME IInv, NEW p \in Procs, Complete(p) \/ CompleteCrash(p)
  PROVE  IInv' /\ Moves(job, job')
<1> DEFINE j == proc[p].job  own == job[j].terminal = None /\ Owned(job, p)
<1>1. Shapes /\ Apart(proc) /\ proc[p].pc = "answered" /\ UNCHANGED <<clock, control, authority, sent, remote>>
  BY DEF IInv, Complete, CompleteCrash, world
<1>2. PICK w \in Processes : proc' = [proc EXCEPT ![p] = w] /\ w.pc = "idle"
  BY <1>1, ProcessesAre DEF Complete, CompleteCrash
<1>3. \A q \in Procs : proc'[q] = IF q = p THEN w ELSE proc[q]
  BY <1>1, <1>2 DEF Shapes
<1>4. Calm(proc, proc')
  BY <1>2, <1>3 DEF Calm, Like, Busy
<1>5. Apart(proc')
  BY <1>1, <1>2, <1>3 DEF Apart, Busy
<1>6. CASE own
  <2>1. PICK s \in {Settled(job, p), Finished(Settled(job, p))} : job' = [job EXCEPT ![j] = s]
    BY <1>6 DEF Complete, CompleteCrash
  <2>2. Shapes'
    BY <1>1, <1>2, <2>1 DEF Shapes
  <2>3. proc' = [proc EXCEPT ![p] = proc'[p]] /\ proc'[p].pc \notin Busy
    BY <1>2, <1>3 DEF Busy
  <2>4. Journal(job', proc', sent, remote) /\ Moves(job, job')
    BY <1>1, <1>6, <2>1, <2>3, SettleKeeps
  <2> QED BY <1>1, <1>5, <2>2, <2>4 DEF IInv
<1>7. CASE ~own
  <2>1. job' = job
    BY <1>7 DEF Complete, CompleteCrash
  <2>2. Shapes'
    BY <1>1, <1>2, <2>1 DEF Shapes
  <2> QED BY <1>1, <1>4, <2>1, <2>2, CalmStep
<1> QED
  BY <1>6, <1>7

LEMMA RemoteFinishesKeeps ==
  ASSUME IInv, RemoteFinishes
  PROVE  IInv' /\ Moves(job, job')
<1>1. PICK x \in remote : /\ \A p \in Procs : proc[p].pc = "sent" => Ticket(proc[p]) # x
                          /\ remote' = remote \ {x}
  BY DEF RemoteFinishes, Ticket
<1>2. UNCHANGED <<clock, control, authority, job, proc, sent>>
  BY DEF RemoteFinishes
<1>3. ASSUME NEW q \in Procs PROVE Employed(proc[q], job, sent, remote')
  <2> DEFINE w == proc[q]
  <2>1. Employed(w, job, sent, remote) /\ (w.pc = "sent" => Ticket(w) # x)
    BY <1>1 DEF IInv, Journal
  <2> HIDE DEF w
  <2>2. Employed(w, job, sent, remote')
    BY <1>1, <2>1 DEF Employed
  <2> QED BY <2>2 DEF w
<1>4. Transmitted(job, sent, remote')
  BY <1>1 DEF IInv, Journal, Transmitted
<1>5. Shapes' /\ Apart(proc')
  BY <1>2 DEF IInv, Shapes
<1> QED
  BY <1>2, <1>3, <1>4, <1>5, StillMoves DEF IInv, Journal

\* The clock, a crash of an idle moment, configuration and a cycle's sample.
LEMMA RestKeeps ==
  ASSUME IInv, UNCHANGED <<job, sent, remote>>, clock' \in 0..MaxTime, authority' \in [Refs -> Nat],
         control' \in [mode : {"off", "enabled", "paused"}, generation : 0..MaxGeneration,
                       revoked : SUBSET Refs, budget : Caps],
         CalmMoves
  PROVE  IInv' /\ Moves(job, job')
<1>1. Shapes
  BY DEF IInv
<1>2. proc' \in [Procs -> Processes] /\ Calm(proc, proc')
  BY <1>1, CalmMove
<1>3. Shapes'
  BY <1>1, <1>2 DEF Shapes
<1> QED
  BY <1>2, <1>3, CalmStep

\* The steps of a process that leave the journal alone.
LEMMA EnvironmentKeeps ==
  ASSUME IInv, NEW p \in Procs,
         \/ CycleSample(p) \/ Enabled(p) \/ Crash(p)
         \/ \E m \in {"enabled", "paused"}, c \in Caps : Configure(p, m, c)
  PROVE  IInv' /\ Moves(job, job')
<1>0. Shapes /\ clock \in 0..MaxTime /\ authority \in [Refs -> Nat] /\ proc[p] \in Processes
      /\ control \in [mode : {"off", "enabled", "paused"}, generation : 0..MaxGeneration,
                      revoked : SUBSET Refs, budget : Caps]
  BY DEF IInv, Shapes
<1>1. CASE CycleSample(p)
  <2> DEFINE w == [proc[p] EXCEPT !.pc = "sampled", !.sample = clock]
  <2>1. proc' = [proc EXCEPT ![p] = w] /\ UNCHANGED <<clock, control, authority, job, sent, remote>>
    BY <1>1 DEF CycleSample, world
  <2>2. w \in Processes /\ w.pc = "sampled"
    <3>1. clock \in Int
      BY <1>0
    <3> QED BY <1>0, <3>1 DEF Processes
  <2> HIDE DEF w
  <2> QED BY <1>0, <2>1, <2>2, RestKeeps DEF CalmMoves, Busy
<1>2. CASE Enabled(p)
  <2> DEFINE w == [proc[p] EXCEPT !.session = TRUE]
  <2>1. proc' = [proc EXCEPT ![p] = w] /\ UNCHANGED <<clock, control, authority, job, sent, remote>>
    BY <1>2 DEF Enabled, world
  <2>2. w \in Processes /\ Like(proc[p], w)
    BY <1>0 DEF Processes, Like
  <2> HIDE DEF w
  <2> QED BY <1>0, <2>1, <2>2, RestKeeps DEF CalmMoves
<1>3. CASE Crash(p)
  <2>1. proc' = [proc EXCEPT ![p] = Stopped] /\ UNCHANGED <<clock, control, authority, job, sent, remote>>
    BY <1>3 DEF Crash
  <2>2. Stopped \in Processes /\ Stopped.pc \notin Busy
    BY <1>0, ProcessesAre DEF Busy
  <2> QED BY <1>0, <2>1, <2>2, RestKeeps DEF CalmMoves
<1>4. ASSUME NEW m \in {"enabled", "paused"}, NEW c \in Caps, Configure(p, m, c)
      PROVE  IInv' /\ Moves(job, job')
  <2> DEFINE w == [proc[p] EXCEPT !.session = @ \/ m = "enabled"]
  <2>1. proc' = [proc EXCEPT ![p] = w] /\ UNCHANGED <<clock, authority, job, sent, remote>>
        /\ control' = [control EXCEPT !.mode = m, !.budget = c]
    BY <1>4 DEF Configure, world
  <2>2. w \in Processes /\ Like(proc[p], w)
    BY <1>0 DEF Processes, Like
  <2> HIDE DEF w
  <2>3. control' \in [mode : {"off", "enabled", "paused"}, generation : 0..MaxGeneration,
                      revoked : SUBSET Refs, budget : Caps]
    BY <1>0, <2>1
  <2> QED BY <1>0, <2>1, <2>2, <2>3, RestKeeps DEF CalmMoves
<1> QED
  BY <1>1, <1>2, <1>3, <1>4

\* The clock and the authority of a reference.
LEMMA QuietKeeps ==
  ASSUME IInv, (\E ref \in Refs : ChangeAuthority(ref)) \/ Tick \/ ClockSet
  PROVE  IInv' /\ Moves(job, job')
<1>0. Shapes /\ clock \in 0..MaxTime /\ authority \in [Refs -> Nat]
      /\ control \in [mode : {"off", "enabled", "paused"}, generation : 0..MaxGeneration,
                      revoked : SUBSET Refs, budget : Caps]
  BY DEF IInv, Shapes
<1>1. CASE Tick \/ ClockSet
  <2>1. clock' \in 0..MaxTime
    BY <1>0, <1>1, AiConstants DEF Tick, ClockSet
  <2>2. UNCHANGED <<control, authority, job, proc, sent, remote>>
    BY <1>1 DEF Tick, ClockSet, world
  <2> QED BY <1>0, <2>1, <2>2, RestKeeps DEF CalmMoves
<1>2. ASSUME NEW ref \in Refs, ChangeAuthority(ref)
      PROVE  IInv' /\ Moves(job, job')
  <2>1. UNCHANGED <<clock, job, proc, sent, remote>>
    BY <1>2 DEF ChangeAuthority, world
  <2>2. authority' \in [Refs -> Nat]
    BY <1>0, <1>2 DEF ChangeAuthority
  <2>3. control' \in [mode : {"off", "enabled", "paused"}, generation : 0..MaxGeneration,
                      revoked : SUBSET Refs, budget : Caps]
    <3>1. CASE control' = control
      BY <1>0, <3>1
    <3>2. CASE control' = [control EXCEPT !.revoked = @ \cup {ref}]
      BY <1>0, <3>2
    <3> QED BY <1>2, <3>1, <3>2 DEF ChangeAuthority
  <2> QED BY <1>0, <2>1, <2>2, <2>3, RestKeeps DEF CalmMoves
<1> QED
  BY <1>1, <1>2

\* Every step keeps the invariant, and does to the rows what Moves says.
LEMMA StepKeeps ==
  ASSUME IInv, [Next]_vars
  PROVE  IInv' /\ Moves(job, job')
<1>1. CASE UNCHANGED vars
  <2>1. Shapes' /\ Calm(proc, proc') /\ UNCHANGED <<job, sent, remote>>
    BY <1>1 DEF IInv, Shapes, Calm, Like, vars, world
  <2> QED BY <2>1, CalmStep
<1>2. ASSUME NEW j \in Jobs, NEW ack \in BOOLEAN, Enqueue(j, ack) PROVE IInv' /\ Moves(job, job')
  BY <1>2, EnqueueKeeps
<1>3. ASSUME NEW j \in Jobs, NEW a \in {"pause", "resume", "cancel", "retry"}, Control(j, a)
      PROVE  IInv' /\ Moves(job, job')
  BY <1>3, ControlKeeps
<1>4. ASSUME NEW j \in Jobs, NEW k \in 1..MaxAttempts, NEW u \in Usage \cup {Unknown}, Reconcile(j, k, u)
      PROVE  IInv' /\ Moves(job, job')
  BY <1>4, ReconcileKeeps
<1>5. ASSUME NEW p \in Procs, NEW j \in Jobs, Claim(p, j) PROVE IInv' /\ Moves(job, job')
  <2> DEFINE js == RecoverAll(clock)  w == [proc[p] EXCEPT !.pc = "claimed", !.job = j,
                                                   !.attempt = Len(js[j].attempts) + 1]
  <2>1. Shapes /\ UNCHANGED <<clock, control, authority>>
    BY <1>5 DEF IInv, Claim
  <2>2. Len(js[j].attempts) + 1 \in Nat
    <3>1. Good(j, js[j])
      BY RecoveredGood DEF IInv, Journal, RecoverAll
    <3> HIDE DEF js
    <3> QED BY <3>1 DEF Good, Record
  <2>3. w \in Processes
    <3> DEFINE n == Len(js[j].attempts) + 1
    <3>1. proc[p] \in Processes /\ n \in Nat /\ w = [proc[p] EXCEPT !.pc = "claimed", !.job = j, !.attempt = n]
      BY <2>1, <2>2 DEF Shapes
    <3> HIDE DEF n, w
    <3> QED BY <3>1 DEF Processes, Busy
  <2>4. job' = [i \in Jobs |-> job'[i]]
    BY <1>5 DEF Claim, RecoverAll
  <2>5. proc' = proc \/ proc' = [proc EXCEPT ![p] = w]
    BY <1>5 DEF Claim
  <2> HIDE DEF w
  <2>6. Shapes'
    BY <2>1, <2>3, <2>4, <2>5 DEF Shapes
  <2> QED BY <1>5, <2>6, ClaimKeeps
<1>6. ASSUME NEW p \in Procs, Authorize(p) PROVE IInv' /\ Moves(job, job')
  BY <1>6, AuthorizeKeeps
<1>7. ASSUME NEW p \in Procs,
             AuthorizeBusy(p) \/ AdapterCheck(p) \/ ConnectFails(p) \/ Send(p) \/ Answer(p) \/ CompleteBusy(p)
      PROVE  IInv' /\ Moves(job, job')
  BY <1>7, ExchangeKeeps
<1>8. ASSUME NEW p \in Procs, Complete(p) \/ CompleteCrash(p) PROVE IInv' /\ Moves(job, job')
  BY <1>8, CompleteKeeps
<1>9. ASSUME NEW p \in Procs, CycleRecover(p) PROVE IInv' /\ Moves(job, job')
  <2>1. /\ job' = RecoverAll(proc[p].sample) /\ proc' = [proc EXCEPT ![p] = Idle(p)]
        /\ UNCHANGED <<clock, control, authority, sent, remote>>
    BY <1>9 DEF CycleRecover, world
  <2> QED BY <2>1, RecoverKeeps
<1>10. CASE Recover
  <2>1. job' = RecoverAll(clock) /\ proc' = proc /\ UNCHANGED <<clock, control, authority, sent, remote>>
    BY <1>10 DEF Recover, world
  <2> QED BY <2>1, RecoverKeeps
<1>11. ASSUME NEW p \in Procs, ConfigureOff(p) \/ ConfigureOffCrash(p) PROVE IInv' /\ Moves(job, job')
  BY <1>11, OffKeeps
<1>12. ASSUME NEW p \in Procs, CycleSample(p) \/ Enabled(p) \/ Crash(p)
                \/ \E m \in {"enabled", "paused"}, c \in Caps : Configure(p, m, c)
       PROVE  IInv' /\ Moves(job, job')
  BY <1>12, EnvironmentKeeps
<1>13. CASE (\E ref \in Refs : ChangeAuthority(ref)) \/ Tick \/ ClockSet
  BY <1>13, QuietKeeps
<1>14. CASE Restore
  BY <1>14, RestoreKeeps
<1>15. CASE RemoteFinishes
  BY <1>15, RemoteFinishesKeeps
<1> QED
  BY <1>1, <1>2, <1>3, <1>4, <1>5, <1>6, <1>7, <1>8, <1>9, <1>10, <1>11, <1>12, <1>13, <1>14, <1>15
     DEF Next, Worker

LEMMA Initially == Init => IInv
<1> SUFFICES ASSUME Init PROVE IInv
  OBVIOUS
<1>1. Shapes
  <2>1. PICK c \in Caps : control = [mode |-> "off", generation |-> 0, revoked |-> {}, budget |-> c]
    BY DEF Init
  <2>2. 0 \in 0..MaxGeneration /\ 0 \in 0..MaxTime
    BY AiConstants
  <2>3. Stopped \in Processes
    <3> DEFINE zero == 0  un == Unknown
    <3>1. Stopped = [session |-> FALSE, pc |-> "idle", job |-> None, attempt |-> zero,
                     outcome |-> None, units |-> un, sample |-> zero]
      BY DEF Stopped
    <3>2. zero \in Nat /\ zero \in Int /\ un \in Usage \cup {Unknown}
      OBVIOUS
    <3> HIDE DEF zero, un
    <3> QED BY <3>1, <3>2 DEF Processes
  <2>4. control \in [mode : {"off", "enabled", "paused"}, generation : 0..MaxGeneration,
                     revoked : SUBSET Refs, budget : Caps]
    BY <2>1, <2>2
  <2>5. clock \in 0..MaxTime /\ authority \in [Refs -> Nat] /\ job = [j \in Jobs |-> job[j]]
    BY <2>2 DEF Init
  <2> QED BY <2>3, <2>4, <2>5 DEF Init, Shapes
<1>2. \A p \in Procs : proc[p].pc \notin Busy
  BY DEF Init, Stopped, Busy
<1>3. \A j \in Jobs : job[j] = Absent
  BY DEF Init
<1>4. Absent.attempts = <<>> /\ Len(Absent.attempts) = 0
  BY DEF Absent
<1>5. ASSUME NEW j \in Jobs PROVE Good(j, job[j])
  <2> DEFINE zero == 0  none == <<>>
  <2>1. Absent = [status |-> "absent", terminal |-> None, cancel |-> None, generation |-> zero,
                  binding |-> zero, created |-> zero, deadline |-> zero, restored |-> FALSE,
                  retryAt |-> zero, resumeAt |-> zero, lease |-> NoLease, attempts |-> none]
    BY DEF Absent
  <2>2. zero \in Nat /\ zero \in Int /\ none \in Seq(RowType) /\ None \in Cancels
        /\ NoLease \in [heartbeat : Int, expires : Int]
    BY DEF Cancels, NoLease
  <2> HIDE DEF zero, none
  <2>3. Absent \in Record /\ Absent.status = "absent" /\ Absent.lease = NoLease /\ Absent.terminal = None
    BY <2>1, <2>2 DEF Record
  <2>4. MaxAttempts \in Nat /\ ~Waiting(Absent)
    BY <2>3, AiConstants DEF Waiting, Open
  <2> QED BY <1>3, <1>4, <2>3, <2>4 DEF Good
<1>6. Affordable(job)
  <2>1. Rows(job) = {}
    <3>1. \A x \in Rows(job) : x[1] \in Jobs /\ x[2] \in 1..Len(job[x[1]].attempts)
      BY <1>5, RowsOf
    <3> QED BY <1>3, <1>4, <3>1
  <2>2. Held(job) = {} /\ Owed(job) = {}
    BY <2>1 DEF Held, Owed
  <2>3. Cardinality(Held(job)) = 0 /\ Cardinality(Owed(job)) = 0
    BY <2>2, FS_EmptySet
  <2>4. control.budget \in Caps
    BY <1>1 DEF Shapes
  <2>5. control.budget.concurrency \in Nat /\ control.budget.units \in Nat /\ Reserve * 0 = 0
    BY <2>4, AiConstants
  <2> QED BY <2>3, <2>4, <2>5 DEF Affordable
<1>7. Transmitted(job, sent, remote)
  BY DEF Init, Transmitted
<1>8. Apart(proc) /\ \A p \in Procs : Employed(proc[p], job, sent, remote)
  BY <1>2 DEF Apart, Employed
<1> QED
  BY <1>1, <1>5, <1>6, <1>7, <1>8 DEF IInv, Journal

-----------------------------------------------------------------------------
(* The theorems.                                                            *)

LEMMA Invariance == Spec => []IInv
BY Initially, StepKeeps, PTL DEF Spec

\* What is on the wire is a row of the journal, and every record is one that
\* validate_ai accepts, in every state.
LEMMA Typed == ASSUME IInv PROVE TypeOK
<1>1. clock \in 0..MaxTime /\ control \in [mode : {"off", "enabled", "paused"}, generation : 0..MaxGeneration,
                                            revoked : SUBSET Refs, budget : Caps]
  BY DEF IInv, Shapes
<1>2. ASSUME NEW j \in Jobs
      PROVE  /\ job[j].status \in Terminal \cup {"absent", "queued", "running", "retry_wait", "paused"}
             /\ job[j].terminal \in {None, "succeeded", "failed", "cancelled", "uncertain"}
             /\ job[j].cancel \in Cancels /\ Len(job[j].attempts) <= MaxAttempts
             /\ \A k \in DOMAIN job[j].attempts :
                  LET row == job[j].attempts[k]
                  IN  /\ row \in RowType
                      /\ row.phase \in {"reserved", "possible", "uncertain"} => ~row.quiescent
  <2> DEFINE r == job[j]
  <2>1. Good(j, r)
    BY DEF IInv, Journal
  <2>2. r \in Record /\ Len(r.attempts) <= MaxAttempts
    BY <2>1 DEF Good
  <2>3. DOMAIN r.attempts = 1..Len(r.attempts)
    BY <2>2 DEF Record
  <2>4. \A k \in 1..Len(r.attempts) : RowOK(r.attempts[k])
    BY <2>1 DEF Good
  <2> HIDE DEF r
  <2>5. /\ r.status \in Terminal \cup {"absent", "queued", "running", "retry_wait", "paused"}
        /\ r.terminal \in {None, "succeeded", "failed", "cancelled", "uncertain"} /\ r.cancel \in Cancels
    BY <2>2 DEF Record
  <2>6. \A k \in DOMAIN r.attempts :
          r.attempts[k] \in RowType
          /\ (r.attempts[k].phase \in {"reserved", "possible", "uncertain"} => ~r.attempts[k].quiescent)
    BY <2>3, <2>4 DEF RowOK
  <2> QED BY <2>2, <2>5, <2>6 DEF r
<1>3. \A x \in remote \cup sent : x \in Rows(job)
  BY DEF IInv, Journal, Transmitted
<1> QED
  BY <1>1, <1>2, <1>3 DEF TypeOK

\* Records, control and clock keep the shapes that validate_ai, the accounting and
\* the adapters rely on, and every execution is an attempt of the journal.
THEOREM TypeCorrect == Spec => []TypeOK
BY Invariance, Typed, PTL

\* A job that was transmitted is not transmitted again, unless the managed local
\* runtime confirmed that it stopped: claims, retries, fences and restores, of any
\* number of processes, add an attempt only after one that nobody transmits.
THEOREM NothingIsResent == Spec => []OneTransmission
<1>1. ASSUME IInv PROVE OneTransmission
  <2> SUFFICES ASSUME NEW x \in sent, NEW y \in sent, x[1] = y[1], x[2] < y[2]
               PROVE  x[1] \in Native /\ Row(job, x).phase = "settled"
    BY DEF OneTransmission
  <2>1. \A j \in Jobs : Good(j, job[j])
    BY <1>1 DEF IInv, Journal
  <2>2. x \in Rows(job) /\ y \in Rows(job) /\ Row(job, x).phase # "released"
    BY <1>1 DEF IInv, Journal, Transmitted
  <2>3. x[1] \in Jobs /\ x[2] \in 1..Len(job[x[1]].attempts) /\ y[2] \in 1..Len(job[x[1]].attempts)
    BY <2>1, <2>2, RowsOf
  <2>4. x[2] < Len(job[x[1]].attempts)
    BY <2>3
  <2>5. Stale(x[1], Row(job, x))
    BY <2>1, <2>3, <2>4 DEF Good, Row
  <2> QED BY <2>2, <2>5 DEF Stale
<1> QED
  BY <1>1, Invariance, PTL

\* What executes somewhere holds its slot, and together it fits a concurrency an
\* operator set, whoever died, was fenced or restored meanwhile.
THEOREM SlotsAreCovered == Spec => []SlotsCoverRemote
<1>1. ASSUME IInv PROVE SlotsCoverRemote
  <2>1. \A x \in remote : x \in Rows(job) /\ ~Row(job, x).quiescent
    BY <1>1 DEF IInv, Journal, Transmitted
  <2>2. remote \in SUBSET Held(job) /\ Held(job) \in SUBSET Rows(job)
    BY <2>1 DEF Held
  <2>3. IsFiniteSet(Held(job))
    BY <2>2, RowsFinite, FS_Subset
  <2>4. IsFiniteSet(remote) /\ Cardinality(remote) <= Cardinality(Held(job))
    BY <2>2, <2>3, FS_Subset
  <2>5. Cardinality(remote) \in Nat /\ Cardinality(Held(job)) \in Nat
    BY <2>3, <2>4, FS_CardinalityType
  <2>6. PICK c \in Caps : Cardinality(Held(job)) <= c.concurrency
    BY <1>1 DEF IInv, Journal, Affordable
  <2>7. c.concurrency \in Int
    BY AiConstants
  <2>8. Cardinality(remote) <= c.concurrency
    BY <2>4, <2>5, <2>6, <2>7
  <2> QED BY <2>1, <2>8 DEF SlotsCoverRemote
<1> QED
  BY <1>1, Invariance, PTL

\* Reservations whose consumption is not known, of whatever day, fit the units of a
\* budget an operator set: admission counts them all.
THEOREM UnknownIsAffordable == Spec => []UnknownWithinBudget
<1>1. ASSUME IInv PROVE UnknownWithinBudget
  BY <1>1 DEF IInv, Journal, Affordable, Owed, UnknownWithinBudget
<1> QED
  BY <1>1, Invariance, PTL

\* Only an adapter's dispatch transmits.
LEMMA SentOnly ==
  ASSUME [Next]_vars, sent' # sent
  PROVE  \E p \in Procs : Send(p)
<1>1. Next
  BY DEF vars, world
<1> QED
  BY <1>1, ZenonT(40) DEF Next, Worker, world, Enqueue, Control, Reconcile, Claim, Authorize, AdapterCheck, ConnectFails,
       Answer, Complete, CompleteBusy, AuthorizeBusy, CycleRecover, CycleSample, Enabled, ConfigureOff,
       ConfigureOffCrash, Configure, Crash, CompleteCrash, ChangeAuthority, Recover, RemoteFinishes, Restore,
       Tick, ClockSet

\* No step refunds what was transmitted: its row is never released, an amount that
\* is known stays known and never shrinks.
THEOREM ChargesStay == Spec => SentIsCharged
<1>1. ASSUME IInv, IInv', Moves(job, job'), [Next]_vars, NEW x \in sent'
      PROVE  LET row == Row(job, x)  next == Row(job', x) IN
             /\ next.phase \in {"possible", "settled", "uncertain"}
             /\ next.units = Unknown => row.units = Unknown
             /\ next.units # Unknown => next.units \in Usage /\ next.units >= row.units
  <2>1. (\A j \in Jobs : Good(j, job[j])) /\ (\A j \in Jobs : Good(j, job'[j]))
    BY <1>1 DEF IInv, Journal
  <2>2. x \in Rows(job') /\ Row(job', x).phase \in {"possible", "settled", "uncertain"}
    BY <1>1 DEF IInv, Journal, Transmitted
  <2>3. x[1] \in Jobs /\ x[2] \in 1..Len(job'[x[1]].attempts)
    BY <2>1, <2>2, RowsOf
  <2>4. x[2] \in 1..Len(job[x[1]].attempts)
    <3>1. CASE x \in sent
      <4>1. x \in Rows(job)
        BY <1>1, <3>1 DEF IInv, Journal, Transmitted
      <4> QED BY <2>1, <4>1, RowsOf
    <3>2. CASE x \notin sent
      <4>1. PICK p \in Procs : Send(p)
        BY <1>1, <3>2, SentOnly
      <4>2. x = Ticket(proc[p]) /\ proc[p].pc \in Busy
        BY <3>2, <4>1, <1>1 DEF Send, Ticket, Busy
      <4>3. proc[p].attempt \in 1..Len(job[proc[p].job].attempts)
        BY <1>1, <4>2 DEF IInv, Journal, Employed
      <4> QED BY <4>2, <4>3 DEF Ticket
    <3> QED BY <3>1, <3>2
  <2>5. RowMoves(Row(job, x), Row(job', x))
    BY <1>1, <2>3, <2>4 DEF Moves, Row
  <2>6. RowOK(Row(job', x))
    BY <2>1, <2>3 DEF Good, Row
  <2>7. Row(job', x).units # Unknown => Row(job', x).units \in Usage
    BY <2>2, <2>6, UnitsAre
  <2> QED BY <2>2, <2>5, <2>7 DEF RowMoves
<1>2. IInv /\ IInv' /\ [Next]_vars => [\A x \in sent' :
       LET row == Row(job, x)  next == Row(job', x) IN
       /\ next.phase \in {"possible", "settled", "uncertain"}
       /\ next.units = Unknown => row.units = Unknown
       /\ next.units # Unknown => next.units \in Usage /\ next.units >= row.units]_vars
  BY <1>1, StepKeeps
<1> QED
  BY <1>2, Invariance, PTL DEF Spec, SentIsCharged

\* A terminal intent is final, and so is the status it was projected to: late
\* answers, second recoveries, controls and restores find it and leave it.
THEOREM IntentIsFinal == Spec => TerminalIsFinal
<1>1. IInv /\ [Next]_vars => [\A j \in Jobs : job[j].terminal # None =>
                                /\ job'[j].terminal = job[j].terminal
                                /\ ~Open(job[j]) => job'[j].status = job[j].status]_vars
  BY StepKeeps DEF Moves, Final
<1> QED
  BY <1>1, Invariance, PTL DEF Spec, TerminalIsFinal
=============================================================================
