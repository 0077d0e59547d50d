----------------------------- MODULE AtomicStore -----------------------------
(***************************************************************************)
(* What a commit of core/provelume/atomic_commit.py promises, without the  *)
(* journal: a set of files that transactions change as a whole.  store is  *)
(* what the next successful open of the Instance shows.  A transaction is  *)
(* applied in one step; until its caller is told it may be withdrawn, as a *)
(* whole; once acknowledged it stays.  All this is promised as long as     *)
(* nobody else writes the files.                                           *)
(***************************************************************************)
CONSTANTS Paths, Contents, Txns

VARIABLES
  store,           \* the files
  before, after,   \* of each transaction: the contents it replaces, and its own
  applied,         \* transactions whose effect is in the store
  answer,          \* what the callers were told
  disturbed        \* has another writer changed a file

vars == <<store, before, after, applied, answer, disturbed>>

Over(f) == [p \in Paths |-> IF p \in DOMAIN f THEN f[p] ELSE store[p]]

Init ==
  /\ store \in [Paths -> Contents]
  /\ before = [t \in Txns |-> [p \in {} |-> store[p]]] /\ after = before
  /\ applied = {} /\ answer = [t \in Txns |-> "new"]
  /\ disturbed = FALSE

Begin(t) ==
  /\ answer[t] = "new" /\ answer' = [answer EXCEPT ![t] = "open"]
  /\ \E E \in SUBSET Paths : \E w \in [E -> Contents] :
       /\ before' = [before EXCEPT ![t] = [p \in E |-> store[p]]]
       /\ after' = [after EXCEPT ![t] = w]
  /\ UNCHANGED <<store, applied>>

Refuse(t) ==
  /\ answer[t] = "new" /\ answer' = [answer EXCEPT ![t] = "refused"]
  /\ UNCHANGED <<store, before, after, applied>>

Apply(t) ==
  /\ answer[t] = "open" /\ t \notin applied
  /\ store' = Over(after[t]) /\ applied' = applied \cup {t}
  /\ UNCHANGED <<before, after, answer>>

Withdraw(t) ==
  /\ answer[t] = "open" /\ t \in applied
  /\ store' = Over(before[t]) /\ applied' = applied \ {t}
  /\ UNCHANGED <<before, after, answer>>

Acknowledge(t) ==
  /\ answer[t] = "open" /\ t \in applied /\ answer' = [answer EXCEPT ![t] = "ok"]
  /\ UNCHANGED <<store, before, after, applied>>

\* The caller gets an error; the effect is in the store or it is not.
Fail(t) ==
  /\ answer[t] = "open" /\ answer' = [answer EXCEPT ![t] = "failed"]
  /\ applied' \in {applied, applied \ {t}}
  /\ UNCHANGED <<store, before, after>>

\* The caller is gone: what was applied stays, with nobody left to tell.
Settle(t) ==
  /\ answer[t] # "ok" /\ t \in applied /\ applied' = applied \ {t}
  /\ UNCHANGED <<store, before, after, answer>>

Operate(t) ==
  \/ Begin(t) \/ Refuse(t) \/ Apply(t) \/ Withdraw(t)
  \/ Acknowledge(t) \/ Fail(t) \/ Settle(t)

Disturb == disturbed' = TRUE

Next == Disturb \/ (UNCHANGED disturbed /\ \E t \in Txns : Operate(t))

Spec == Init /\ [][Next]_vars
=============================================================================
