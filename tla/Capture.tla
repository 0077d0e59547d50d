------------------------------- MODULE Capture -------------------------------
(***************************************************************************)
(* Capture from a paired phone: capture_journal.py, capture_adapter.py,    *)
(* capture_authority.py and the routes of capture_http.py on the server,   *)
(* static/capture-shell.js in the browser.                                 *)
(*                                                                         *)
(* The owner pairs and revokes devices; a device submits rows of its       *)
(* outbox and has them acquired.  Every change on the server is one        *)
(* AtomicInstanceCommit under the lifecycle lock: prepared, published,     *)
(* marked committed, and its stage removed.  Receipts are read without the *)
(* lock, between two checks that no stage is there.  Senders in several    *)
(* tabs share the outbox through leases.  Answers are lost and time out    *)
(* while the server works on, and processes die anywhere.                  *)
(* Routing to review and the index refresh, after an acquisition, change   *)
(* nothing of this and are left out.                                       *)
(***************************************************************************)
EXTENDS Naturals, FiniteSets

CONSTANTS
  Rows,                \* outbox rows, by their client_submission_id
  Devices,             \* the MAX_DEVICES device identities the server may issue
  Challenges,          \* pairing secrets it may draw
  Senders,             \* concurrent runs of sendRow
  Slots,               \* requests the Capture server has in progress
  Owner,               \* the owner's one request, in the other process
  None,
  MAX_AUDIT, MAX_RECORDS,
  First,               \* the device the browser is paired with at first, or None
  FailingKinds,        \* requests whose commit may raise
  MaxMishaps, MaxAsks  \* bounds of the instance

ASSUME ConstantsAssumption ==
  /\ Owner \notin Slots /\ First \in Devices \cup {None} /\ None \notin Devices \cup Challenges \cup Senders \cup Rows \cup Slots \cup {Owner}
  /\ {MAX_AUDIT, MAX_RECORDS, MaxMishaps, MaxAsks} \subseteq Nat

VARIABLES
  disk,                \* the Instance: authority, records, acquisitions
  stage,               \* the transaction in progress or left behind
  lock,                \* whose request holds the lifecycle lock
  req,                 \* each request: kind, subject, control point, answer
  rows,                \* the outbox in IndexedDB
  send,                \* each run of sendRow
  cred, pairing,       \* the browser's credential; the challenge it redeems
  drawn, expired,      \* challenges drawn; those whose 120 s are over
  shown, told,         \* challenges shown to the owner; revocations confirmed
  mishaps, asks        \* failed steps, deaths, lost calls; the owner's requests

server == <<disk, stage, lock>>
phone == <<rows, send, cred, pairing>>
owner == <<shown, told>>
env == <<mishaps, asks>>
vars == <<server, req, phone, drawn, expired, owner, env>>

Mishap == mishaps < MaxMishaps /\ mishaps' = mishaps + 1

Actors == Slots \cup {Owner}
Submissions == Rows \X Devices
NoStage == [status |-> "none"]
Free == [kind |-> "none", row |-> None, device |-> None, chal |-> None, sender |-> None,
         pc |-> "free", seen |-> "none"]
Resting == [pc |-> "idle", row |-> None, receipt |-> FALSE]

(***************************************************************************)
(* The transaction and its recovery.                                       *)
(***************************************************************************)

\* What the disk is once a stage left behind is recovered.
Recovered == IF stage.status \in {"prepared", "published"} THEN stage.pre ELSE disk

\* _read_ready: no stage of Capture is there.
Ready == stage = NoStage

Active(d) == disk.devices[d] = "active"

\* access: the route authenticates, reading the authority file.
Authorized(a) == Ready /\ Active(req[a].device)

Answer(a, seen) == req' = [req EXCEPT ![a].pc = "answered", ![a].seen = seen]
Goto(a, pc) == req' = [req EXCEPT ![a].pc = pc]

\* Slots are alike: the first free one is taken.
Vacant(s) == req[s].pc = "free" /\ s = CHOOSE t \in Slots : req[t].pc = "free"

(***************************************************************************)
(* A request for the lock: what it finds there and what it commits.        *)
(***************************************************************************)

Target(a) == <<req[a].row, req[a].device>>

Guarded_Outside(a, d) == TRUE

\* The guard of the device, repeated under the lock.
Guarded(a, d) == req[a].kind \in {"submit", "process"} => d.devices[req[a].device] = "active"

MayCommit(a, d) ==
  /\ Guarded(a, d)
  /\ CASE req[a].kind = "submit" -> Cardinality(d.records) < MAX_RECORDS
       [] req[a].kind = "process" -> Target(a) \in d.records
       [] req[a].kind = "redeem" ->
            /\ req[a].chal \in d.open \ expired /\ d.audit < MAX_AUDIT
            /\ \E x \in Devices : d.devices[x] = "free"
       [] OTHER -> d.audit < MAX_AUDIT

\* What is already there is answered again.
AlreadyDone(a, d) ==
  /\ Guarded(a, d)
  /\ CASE req[a].kind = "submit" -> Target(a) \in d.records
       [] req[a].kind = "process" -> Target(a) \in d.acquired
       [] req[a].kind = "revoke" -> d.devices[req[a].device] = "revoked"
       [] OTHER -> FALSE

Spent_Reusable(open, c) == open

\* A redeemed challenge is used.
Spent(open, c) == open \ {c}

Submitted(a, d) == [d EXCEPT !.records = @ \cup {Target(a)}]

Acquired(a, d) == [d EXCEPT !.acquired = @ \cup {Target(a)}]

\* The expired challenges go, the new one comes.
Challenged(a, d) == [d EXCEPT !.open = (@ \ expired) \cup {req[a].chal}, !.audit = @ + 1]

\* A new device gets a fresh identity: all are alike.
Redeemed(a, d) ==
  LET x == CHOOSE y \in Devices : d.devices[y] = "free" IN
  [d EXCEPT !.open = Spent(@, req[a].chal), !.devices[x] = "active",
            !.from[x] = req[a].chal, !.audit = @ + 1]

RevokedOne(a, d) == [d EXCEPT !.devices[req[a].device] = "revoked", !.audit = @ + 1]

\* To rebind is to revoke every device and drop the challenges.
Configured(d) ==
  [d EXCEPT !.devices = [x \in Devices |-> IF @[x] = "free" THEN "free" ELSE "revoked"],
            !.open = {}, !.audit = @ + 1]

\* What a request commits.
Candidate(a, d) ==
  CASE req[a].kind = "submit" -> Submitted(a, d)
    [] req[a].kind = "process" -> Acquired(a, d)
    [] req[a].kind = "challenge" -> Challenged(a, d)
    [] req[a].kind = "redeem" -> Redeemed(a, d)
    [] req[a].kind = "revoke" -> RevokedOne(a, d)
    [] req[a].kind = "configure" -> Configured(d)

\* _hold fails when somebody else has the lock.
Busy(a) ==
  /\ req[a].pc = "hold" /\ lock # None
  /\ Answer(a, "error")
  /\ UNCHANGED <<server, phone, drawn, expired, owner, env>>

\* _hold recovers first; then the request refuses, answers or prepares.
Hold(a) ==
  /\ req[a].pc = "hold" /\ lock = None
  /\ LET d == Recovered IN
       \/ /\ AlreadyDone(a, d) \/ ~MayCommit(a, d)
          /\ disk' = d /\ stage' = NoStage /\ UNCHANGED lock
          /\ IF AlreadyDone(a, d) THEN Goto(a, "respond") ELSE Answer(a, "error")
       \/ /\ ~AlreadyDone(a, d) /\ MayCommit(a, d)
          /\ stage' = [status |-> "prepared", pre |-> d, post |-> Candidate(a, d)]
          /\ disk' = d /\ lock' = a
          /\ Goto(a, "publish")
  /\ UNCHANGED <<phone, drawn, expired, owner, env>>

Publish(a) ==
  /\ req[a].pc = "publish"
  /\ disk' = stage.post /\ stage' = [stage EXCEPT !.status = "published"]
  /\ Goto(a, "mark")
  /\ UNCHANGED <<lock, phone, drawn, expired, owner, env>>

Mark(a) ==
  /\ req[a].pc = "mark"
  /\ stage' = [stage EXCEPT !.status = "committed"]
  /\ Goto(a, "clean")
  /\ UNCHANGED <<disk, lock, phone, drawn, expired, owner, env>>

\* Removing the stage may fail without a word; the lock is released.
Clean(a) ==
  /\ req[a].pc = "clean"
  /\ \/ stage' = NoStage /\ UNCHANGED mishaps
     \/ Mishap /\ UNCHANGED stage
  /\ lock' = None
  /\ Goto(a, "respond")
  /\ UNCHANGED <<disk, phone, drawn, expired, owner, asks>>

\* A step of the commit raises: rolled back in place, or the stage is left for
\* recovery when the rollback raises too.
Fail(a) ==
  /\ req[a].pc \in {"publish", "mark"} /\ req[a].kind \in FailingKinds
  /\ Mishap
  /\ \/ disk' = stage.pre /\ stage' = NoStage
     \/ UNCHANGED <<disk, stage>>
  /\ lock' = None
  /\ Answer(a, "error")
  /\ UNCHANGED <<phone, drawn, expired, owner, asks>>

\* A process opens the Instance, or another writer takes the lock: recovery.
Open ==
  /\ lock = None /\ ~Ready
  /\ disk' = Recovered /\ stage' = NoStage
  /\ UNCHANGED <<lock, req, phone, drawn, expired, owner, env>>

(***************************************************************************)
(* The routes.                                                             *)
(***************************************************************************)

\* The first guard, before the lock.  A redemption has only its challenge.
Guard(s) ==
  /\ req[s].pc = "start"
  /\ IF req[s].kind = "redeem" \/ Authorized(s)
     THEN Goto(s, IF req[s].kind = "lookup" THEN "record" ELSE "hold")
     ELSE Answer(s, "error")
  /\ UNCHANGED <<server, phone, drawn, expired, owner, env>>

\* lookup: the record between two checks, then detail reads the acquisition
\* and checks again; what was read stays in req.seen.
ReadRecord(s) ==
  /\ req[s].pc = "record"
  /\ req' = [req EXCEPT ![s].pc = "recheck",
                        ![s].seen = IF Target(s) \in disk.records THEN "found" ELSE "missing"]
  /\ UNCHANGED <<server, phone, drawn, expired, owner, env>>

Recheck(s) ==
  /\ req[s].pc = "recheck"
  /\ IF ~Ready THEN Answer(s, "error")
     ELSE IF req[s].seen = "missing" THEN Answer(s, "missing")
     ELSE Goto(s, "acquisition")
  /\ UNCHANGED <<server, phone, drawn, expired, owner, env>>

ReadAcquisition(s) ==
  /\ req[s].pc = "acquisition"
  /\ IF Target(s) \in disk.acquired
     THEN req' = [req EXCEPT ![s].pc = "respond", ![s].seen = "acquired"]
     ELSE Goto(s, "respond")
  /\ UNCHANGED <<server, phone, drawn, expired, owner, env>>

\* The route checks access again and answers; the owner's answer reads the
\* authority, and a redemption returns the credential at once.
Respond(a) ==
  /\ req[a].pc = "respond"
  /\ CASE a = Owner -> Answer(a, IF req[a].kind = "challenge" \/ Ready THEN "ok" ELSE "error")
       [] req[a].kind = "redeem" -> Answer(a, "ok")
       [] req[a].kind = "lookup" -> Answer(a, IF Authorized(a) THEN req[a].seen ELSE "error")
       [] OTHER -> Answer(a, IF Authorized(a) THEN "ok" ELSE "error")
  /\ UNCHANGED <<server, phone, drawn, expired, owner, env>>

\* The owner's process serves one request: show a challenge, revoke, configure.
OwnerAsks ==
  /\ req[Owner].pc = "free" /\ asks < MaxAsks /\ asks' = asks + 1
  /\ \/ \E c \in Challenges \ drawn :
          /\ req' = [req EXCEPT ![Owner] = [Free EXCEPT !.kind = "challenge", !.chal = c, !.pc = "hold"]]
          /\ drawn' = drawn \cup {c}
     \/ \E d \in Devices :
          /\ disk.devices[d] # "free" /\ d \notin told
          /\ req' = [req EXCEPT ![Owner] = [Free EXCEPT !.kind = "revoke", !.device = d, !.pc = "hold"]]
          /\ UNCHANGED drawn
     \/ /\ req' = [req EXCEPT ![Owner] = [Free EXCEPT !.kind = "configure", !.pc = "hold"]]
        /\ UNCHANGED drawn
  /\ UNCHANGED <<server, phone, expired, owner, mishaps>>

OwnerLearns ==
  /\ req[Owner].pc = "answered"
  /\ shown' = shown \cup (IF req[Owner].seen = "ok" /\ req[Owner].kind = "challenge"
                          THEN {req[Owner].chal} ELSE {})
  /\ told' = told \cup (IF req[Owner].seen = "ok" /\ req[Owner].kind = "revoke"
                        THEN {req[Owner].device} ELSE {})
  /\ req' = [req EXCEPT ![Owner] = Free]
  /\ UNCHANGED <<server, phone, drawn, expired, env>>

Expire(c) ==
  /\ c \in disk.open \ expired
  /\ expired' = expired \cup {c}
  /\ UNCHANGED <<server, req, phone, drawn, owner, env>>

\* The server process or the owner's dies, with its requests and its lock.
Crash(A) ==
  /\ Mishap /\ \E a \in A : req[a].pc # "free"
  /\ req' = [a \in Actors |-> IF a \in A /\ req[a].pc # "free"
                             THEN [req[a] EXCEPT !.pc = "answered", !.seen = "error"] ELSE req[a]]
  /\ lock' = IF lock \in A THEN None ELSE lock
  /\ UNCHANGED <<disk, stage, phone, drawn, expired, owner, asks>>

(***************************************************************************)
(* The browser.                                                            *)
(***************************************************************************)

\* pair: the challenge of the QR code is redeemed; success clears the code.
Redeem(s, c) ==
  /\ pairing = None /\ c \in shown /\ Vacant(s)
  /\ cred # None => disk.from[cred] # c
  /\ req' = [req EXCEPT ![s] = [Free EXCEPT !.kind = "redeem", !.chal = c, !.pc = "start"]]
  /\ pairing' = s
  /\ UNCHANGED <<server, rows, send, cred, drawn, expired, owner, env>>

\* The new credential replaces the old one.
Paired(s) ==
  /\ pairing = s /\ req[s].pc = "answered"
  /\ pairing' = None
  /\ cred' \in IF req[s].seen = "ok" THEN {d \in Devices : disk.from[d] = req[s].chal} ELSE {cred}
  /\ req' = [req EXCEPT ![s] = Free]
  /\ UNCHANGED <<server, rows, send, drawn, expired, owner, env>>

Enqueue(r) ==
  /\ cred # None /\ rows[r].state = "none"
  /\ rows' = [rows EXCEPT ![r].state = "queued", ![r].device = cred]
  /\ UNCHANGED <<server, req, send, cred, pairing, drawn, expired, owner, env>>

Sendable_NotSending(r) == rows[r].state \in {"queued", "acknowledged", "attention"} /\ ~rows[r].leased

Sendable(r) == rows[r].state \notin {"none", "acquired"} /\ ~rows[r].leased

\* sendRow takes the row's lease and keeps what it read of the row.
Claim(f, r) ==
  /\ send[f].pc = "idle" /\ cred # None /\ Sendable(r)
  /\ IF rows[r].device # cred
     THEN /\ rows' = [rows EXCEPT ![r].state = "attention", ![r].token = f]
          /\ UNCHANGED send
     ELSE /\ rows' = [rows EXCEPT ![r].leased = TRUE, ![r].token = f,
                         ![r].state = IF rows[r].receipt THEN "acknowledged" ELSE "sending"]
          /\ send' = [send EXCEPT ![f] = [pc |-> "lookup", row |-> r, receipt |-> rows[r].receipt]]
  /\ UNCHANGED <<server, req, cred, pairing, drawn, expired, owner, env>>

\* api: the request goes out under the credential of now.
Call(f, s) ==
  /\ send[f].pc \in {"lookup", "submit", "process"} /\ Vacant(s)
  /\ req' = [req EXCEPT ![s] = [Free EXCEPT !.kind = send[f].pc, !.row = send[f].row,
                                  !.device = cred, !.sender = f, !.pc = "start"]]
  /\ send' = [send EXCEPT ![f].pc = "wait"]
  /\ UNCHANGED <<server, rows, cred, pairing, drawn, expired, owner, env>>

\* The catch of sendRow: only the holder of the lease marks the row.
GiveUp(f) ==
  /\ send' = [send EXCEPT ![f] = Resting]
  /\ rows' = IF rows[send[f].row].state = "acquired" \/ rows[send[f].row].token # f THEN rows
             ELSE [rows EXCEPT ![send[f].row].leased = FALSE, ![send[f].row].state = "attention"]

Proceed(f, pc) == send' = [send EXCEPT ![f].pc = pc]

Verified_Not(f, s) == TRUE

\* verifyReceipt: the receipt is of the row and of the row's device.
Verified(f, s) == req[s].device = rows[send[f].row].device

\* acknowledged: the receipt replaces the payload.
Acknowledge(f, s, pc) ==
  IF ~Verified(f, s) THEN GiveUp(f)
  ELSE /\ rows' = [rows EXCEPT ![send[f].row].state = "acknowledged",
                               ![send[f].row].receipt = TRUE]
       /\ Proceed(f, pc)

Learn(f, s) ==
  /\ req[s].sender = f /\ req[s].pc = "answered"
  /\ CASE req[s].seen = "error" -> GiveUp(f)
       [] req[s].kind = "lookup" /\ req[s].seen = "found" -> Acknowledge(f, s, "process")
       [] req[s].seen = "acquired" -> Acknowledge(f, s, "finish")
       [] req[s].seen = "missing" ->
            IF send[f].receipt THEN GiveUp(f) ELSE Proceed(f, "submit") /\ UNCHANGED rows
       [] req[s].kind = "submit" /\ req[s].seen = "ok" -> Acknowledge(f, s, "process")
       [] OTHER -> Proceed(f, "finish") /\ UNCHANGED rows
  /\ req' = [req EXCEPT ![s] = Free]
  /\ UNCHANGED <<server, cred, pairing, drawn, expired, owner, env>>

\* The row is acquired, whoever holds the lease by now.
Finish(f) ==
  /\ send[f].pc = "finish"
  /\ rows' = [rows EXCEPT ![send[f].row].state = "acquired", ![send[f].row].leased = FALSE]
  /\ send' = [send EXCEPT ![f] = Resting]
  /\ UNCHANGED <<server, req, cred, pairing, drawn, expired, owner, env>>

\* 30 s are over; while the send goes on this counts as a mishap.
LeaseExpires(r) ==
  /\ rows[r].leased
  /\ rows' = [rows EXCEPT ![r].leased = FALSE]
  /\ IF send[rows[r].token].row # r THEN UNCHANGED mishaps
     ELSE Mishap
  /\ UNCHANGED <<server, req, send, cred, pairing, drawn, expired, owner, asks>>

\* The call fails in the network or after its 20 s, the server may go on with
\* it; or the tab is closed.
Lose(f) ==
  /\ Mishap
  /\ send[f].pc # "idle"
  /\ \/ send[f].pc = "wait" /\ GiveUp(f)
     \/ send' = [send EXCEPT ![f] = Resting] /\ UNCHANGED rows
  /\ req' = [a \in Actors |-> IF req[a].sender = f THEN [req[a] EXCEPT !.sender = None] ELSE req[a]]
  /\ UNCHANGED <<server, cred, pairing, drawn, expired, owner, asks>>

LosePairing ==
  /\ Mishap
  /\ pairing # None /\ pairing' = None
  /\ UNCHANGED <<server, req, rows, send, cred, drawn, expired, owner, asks>>

\* Nobody waits for the answer any more.
Discard(s) ==
  /\ req[s].pc = "answered" /\ req[s].sender = None /\ pairing # s
  /\ req' = [req EXCEPT ![s] = Free]
  /\ UNCHANGED <<server, phone, drawn, expired, owner, env>>

Init ==
  /\ disk = [devices |-> [d \in Devices |-> IF d = First THEN "active" ELSE "free"], from |-> [d \in Devices |-> None],
             open |-> {}, audit |-> 0, records |-> {}, acquired |-> {}]
  /\ stage = NoStage /\ lock = None
  /\ req = [a \in Actors |-> Free]
  /\ rows = [r \in Rows |-> [state |-> "none", device |-> None, receipt |-> FALSE,
                             leased |-> FALSE, token |-> None]]
  /\ send = [f \in Senders |-> Resting]
  /\ cred = First /\ pairing = None
  /\ drawn = {} /\ expired = {} /\ shown = {} /\ told = {}
  /\ mishaps = 0 /\ asks = 0

Commit(a) == Busy(a) \/ Hold(a) \/ Publish(a) \/ Mark(a) \/ Clean(a) \/ Respond(a)
Read(s) == Guard(s) \/ ReadRecord(s) \/ Recheck(s) \/ ReadAcquisition(s)
Serve == (\E a \in Actors : Commit(a)) \/ \E s \in Slots : Read(s) \/ Discard(s)
Send(f) == Finish(f) \/ \E s \in Slots : Call(f, s) \/ Learn(f, s)

Next ==
  \/ Serve \/ Open
  \/ \E a \in Actors : Fail(a)
  \/ Crash(Slots) \/ Crash({Owner})
  \/ OwnerAsks \/ OwnerLearns \/ \E c \in Challenges : Expire(c)
  \/ LosePairing \/ \E s \in Slots : Paired(s) \/ \E c \in Challenges : Redeem(s, c)
  \/ \E f \in Senders : Send(f) \/ Lose(f) \/ \E r \in Rows : Claim(f, r)
  \/ \E r \in Rows : Enqueue(r) \/ LeaseExpires(r)

Spec == Init /\ [][Next]_vars

\* Requests are served, senders go on, a stage left behind is recovered, and
\* somebody sends again what is not acquired.
FairSpec ==
  /\ Spec /\ WF_vars(Open) /\ WF_vars(OwnerLearns)
  /\ \A a \in Actors : WF_vars(Commit(a))
  /\ \A s \in Slots : WF_vars(Read(s)) /\ WF_vars(Discard(s)) /\ WF_vars(Paired(s))
  /\ \A f \in Senders : SF_vars(Send(f))
  /\ \A r \in Rows : WF_vars(LeaseExpires(r)) /\ SF_vars(\E f \in Senders : Claim(f, r))

(***************************************************************************)
(* Properties.                                                             *)
(***************************************************************************)

Disks == [devices : [Devices -> {"free", "active", "revoked"}], from : [Devices -> Challenges \cup {None}],
          open : SUBSET Challenges, audit : 0..MAX_AUDIT,
          records : SUBSET Submissions, acquired : SUBSET Submissions]
\* The authority file is one validate_authority accepts.  A challenge pairs one
\* device at most, whatever crashes, is retried or is answered late; and a
\* revocation the owner was told of stays.
AuthorityHolds ==
  /\ disk \in Disks
  /\ \A c \in Challenges : Cardinality({d \in Devices : disk.from[d] = c}) <= 1
  /\ \A d \in told : Recovered.devices[d] = "revoked"

\* Nothing enters the Instance for a device whose revocation is committed, by
\* a request that passed its first guard before it.
NothingAfterRevocation ==
  [][\A s \in (disk'.records \ disk.records) \cup (disk'.acquired \ disk.acquired) :
       Active(s[2])]_vars

\* The browser drops the payload of a row only when the Instance holds the
\* record for good, and calls it acquired only when it is.
PayloadKept ==
  \A r \in Rows :
    /\ rows[r].receipt => <<r, rows[r].device>> \in Recovered.records
    /\ rows[r].state = "acquired" => \E d \in Devices : <<r, d>> \in Recovered.acquired

\* What is queued under a credential that stays valid is acquired in the end:
\* no lost answer, expired lease, crash or stage left behind stops the outbox.
Delivered ==
  \A r \in Rows : rows[r].state # "none" ~>
    \/ rows[r].state = "acquired"
    \/ rows[r].device # cred \/ ~Active(rows[r].device)
    \/ Cardinality(disk.records) = MAX_RECORDS
=============================================================================
