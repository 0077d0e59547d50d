---------------------------- MODULE CaptureProofs ----------------------------
(***************************************************************************)
(* Proofs about Capture, for any number of rows, devices, challenges,      *)
(* senders, requests in progress and mishaps; for the payload, as long as  *)
(* no commit of a submission or of an acquisition raises.                  *)
(***************************************************************************)
EXTENDS Capture, FiniteSetTheorems, TLAPS

-----------------------------------------------------------------------------
(* The inductive invariant.                                                 *)

OwnerKinds == {"challenge", "revoke", "configure"}
SlotKinds == {"lookup", "submit", "process", "redeem"}
Reading == {"record", "recheck", "acquisition"}
Changing == {"publish", "mark", "clean"}
Requests ==
  [kind : {"none"} \cup OwnerKinds \cup SlotKinds, row : Rows \cup {None},
   device : Devices \cup {None}, chal : Challenges \cup {None}, sender : Senders \cup {None},
   pc : {"free", "start", "hold", "respond", "answered"} \cup Reading \cup Changing,
   seen : {"none", "error", "ok", "missing", "found", "acquired"}]
Stages == [status : {"prepared", "published", "committed"}, pre : Disks, post : Disks]
Sends ==
  [pc : {"idle", "lookup", "submit", "process", "wait", "finish"}, row : Rows \cup {None},
   receipt : BOOLEAN]
Outbox ==
  [state : {"none", "queued", "sending", "acknowledged", "attention", "acquired"},
   device : Devices \cup {None}, receipt : BOOLEAN, leased : BOOLEAN,
   token : Senders \cup {None}]

\* The shapes of the server's state, and the subject each kind of request needs.
Shapes ==
  /\ disk \in Disks /\ stage \in Stages \cup {NoStage} /\ lock \in Actors \cup {None}
  /\ req \in [Actors -> Requests] /\ told \subseteq Devices
  /\ drawn \subseteq Challenges /\ shown \subseteq Challenges
  /\ req[Owner].kind \in {"none"} \cup OwnerKinds
  /\ \A s \in Slots : req[s].kind \in {"none"} \cup SlotKinds
  /\ \A a \in Actors :
       /\ req[a].kind \in {"lookup", "submit", "process"} => req[a].row \in Rows
       /\ req[a].kind \in {"lookup", "submit", "process", "revoke"} => req[a].device \in Devices
       /\ req[a].kind \in {"redeem", "challenge"} => req[a].chal \in Challenges
       /\ req[a].kind = "none" => req[a].pc = "free"
       /\ req[a].pc \in Reading => req[a].kind = "lookup"
       /\ req[a].pc \in Changing \cup {"hold"} => req[a].kind # "lookup"

\* The browser's: whoever sends has a row, and a credential to send it under.
Outboxes ==
  /\ send \in [Senders -> Sends] /\ rows \in [Rows -> Outbox]
  /\ cred \in Devices \cup {None}
  /\ \A f \in Senders : send[f].pc # "idle" => cred # None /\ send[f].row \in Rows

\* A sender waits for one request at most, and for one it is named in.
Awaited ==
  /\ \A a \in Actors : req[a].sender # None => send[req[a].sender].pc = "wait"
  /\ \A a, b \in Actors : req[a].sender = req[b].sender /\ req[a].sender # None => a = b

\* Who holds the lock is committing, and the disk is on the side of the stage
\* its marker tells.
Committing ==
  /\ \A a \in Actors : lock = a <=> req[a].pc \in Changing
  /\ \A a \in Actors :
       /\ req[a].pc = "publish" => stage.status = "prepared"
       /\ req[a].pc = "mark" => stage.status = "published"
       /\ req[a].pc = "clean" => stage.status = "committed"
  /\ stage.status = "prepared" => disk = stage.pre
  /\ stage.status \in {"published", "committed"} => disk = stage.post

\* Contents the Instance may have next.
Views == {disk} \cup (IF Ready THEN {} ELSE {stage.pre, stage.post})

\* A challenge paired one device at most, and none that is still open.
Sound(d) ==
  /\ \A x, y \in Devices : d.from[x] = d.from[y] /\ d.from[x] # None => x = y
  /\ \A x \in Devices : d.from[x] \notin d.open

Known(d) == d.open \cup ({d.from[x] : x \in Devices} \ {None})

\* A challenge is known only once it is drawn, and the one the owner's request
\* is about to add is not known yet.
Fresh ==
  /\ req[Owner].kind = "challenge" => req[Owner].chal \in drawn
  /\ \A d \in Views :
       /\ Sound(d) /\ Known(d) \subseteq drawn
       /\ req[Owner].kind = "challenge" /\ req[Owner].pc = "hold" => req[Owner].chal \notin Known(d)

\* A commit takes nothing back, revives no device, and adds only what an active
\* one sent.
Extends(d, e) ==
  /\ d.records \subseteq e.records /\ d.acquired \subseteq e.acquired
  /\ \A s \in (e.records \ d.records) \cup (e.acquired \ d.acquired) :
       d.devices[s[2]] = "active"
  /\ \A x \in Devices : d.devices[x] = "revoked" => e.devices[x] = "revoked"

Onward == ~Ready => Extends(stage.pre, stage.post)

\* A revocation that is told, or is about to be, is in the Instance for good.
Revoking == req[Owner].kind = "revoke"
Promised ==
  /\ \A d \in told : Recovered.devices[d] = "revoked"
  /\ Revoking /\ req[Owner].pc \in Changing => stage.post.devices[req[Owner].device] = "revoked"
  /\ Revoking /\ (req[Owner].pc = "respond" \/ req[Owner].seen = "ok") =>
       Recovered.devices[req[Owner].device] = "revoked"

IInv == Shapes /\ Outboxes /\ Awaited /\ Committing /\ Fresh /\ Onward /\ Promised

-----------------------------------------------------------------------------
(* What a request commits.                                                  *)

\* The fields of a disk.
LEMMA DiskTypes ==
  ASSUME NEW d \in Disks
  PROVE  /\ d.devices \in [Devices -> {"free", "active", "revoked"}]
         /\ d.from \in [Devices -> Challenges \cup {None}]
         /\ d.open \subseteq Challenges /\ d.audit \in 0..MAX_AUDIT
         /\ d.records \subseteq Submissions /\ d.acquired \subseteq Submissions
         /\ d = [devices |-> d.devices, from |-> d.from, open |-> d.open, audit |-> d.audit,
                 records |-> d.records, acquired |-> d.acquired]
BY DEF Disks

Kinds == OwnerKinds \cup (SlotKinds \ {"lookup"})

\* A commit keeps the authority file sound and only adds what its request is
\* about, from a device that is active where it is prepared.
LEMMA CandidateFacts ==
  ASSUME Shapes, NEW a \in Actors, req[a].kind \in Kinds,
         NEW d \in Disks, Sound(d), MayCommit(a, d),
         req[a].kind = "challenge" => req[a].chal \notin Known(d)
  PROVE  /\ Candidate(a, d) \in Disks /\ Sound(Candidate(a, d))
         /\ Extends(d, Candidate(a, d))
         /\ Known(Candidate(a, d)) \subseteq
              Known(d) \cup (IF req[a].kind = "challenge" THEN {req[a].chal} ELSE {})
         /\ req[a].kind = "revoke" => Candidate(a, d).devices[req[a].device] = "revoked"
<1> DEFINE e == Candidate(a, d)
<1> USE DiskTypes
<1>t. /\ req[a].kind \in {"submit", "process"} => Target(a) \in Submissions
      /\ req[a].kind \in {"submit", "process", "revoke"} => req[a].device \in Devices
      /\ req[a].kind \in {"challenge", "redeem"} => req[a].chal \in Challenges
      /\ Target(a)[2] = req[a].device
  BY DEF Shapes, Target, Submissions
<1>n. MAX_AUDIT \in Nat /\ None \notin Challenges
  BY ConstantsAssumption
<1>1. CASE req[a].kind = "submit"
  <2>1. e = [d EXCEPT !.records = @ \cup {Target(a)}]
    BY <1>1 DEF Candidate, Submitted
  <2>2. e \in Disks
    BY <1>t, <1>1, <2>1 DEF Disks
  <2>3. /\ e.records = d.records \cup {Target(a)} /\ e.acquired = d.acquired
        /\ e.devices = d.devices /\ e.from = d.from /\ e.open = d.open
    BY <2>1
  <2>4. d.devices[req[a].device] = "active"
    BY <1>1 DEF MayCommit, Guarded
  <2> HIDE DEF e
  <2>5. QED
    BY <1>1, <1>t, <2>2, <2>3, <2>4 DEF e, Sound, Known, Extends
<1>2. CASE req[a].kind = "process"
  <2>1. e = [d EXCEPT !.acquired = @ \cup {Target(a)}]
    BY <1>2 DEF Candidate, Acquired
  <2>2. e \in Disks
    BY <1>t, <1>2, <2>1 DEF Disks
  <2>3. /\ e.records = d.records /\ e.acquired = d.acquired \cup {Target(a)}
        /\ e.devices = d.devices /\ e.from = d.from /\ e.open = d.open
    BY <2>1
  <2>4. d.devices[req[a].device] = "active"
    BY <1>2 DEF MayCommit, Guarded
  <2>5. QED
    BY <1>2, <1>t, <2>2, <2>3, <2>4 DEF Sound, Known, Extends
<1>3. CASE req[a].kind = "challenge"
  <2>1. e = [d EXCEPT !.open = (@ \ expired) \cup {req[a].chal}, !.audit = @ + 1]
    BY <1>3 DEF Candidate, Challenged
  <2>a. d.audit + 1 \in 0..MAX_AUDIT
    BY <1>3, <1>n DEF MayCommit
  <2>2. e \in Disks
    BY <1>t, <1>3, <2>1, <2>a DEF Disks
  <2>3. /\ e.records = d.records /\ e.acquired = d.acquired
        /\ e.devices = d.devices /\ e.from = d.from
        /\ e.open = (d.open \ expired) \cup {req[a].chal}
    BY <2>1
  <2>4. Sound(e)
    BY <1>3, <1>t, <1>n, <2>3 DEF Sound, Known
  <2>5. Known(e) \subseteq Known(d) \cup {req[a].chal}
    BY <2>3 DEF Known
  <2>6. Extends(d, e)
    BY <2>3 DEF Extends
  <2>7. QED
    BY <1>3, <2>2, <2>4, <2>5, <2>6
<1>4. CASE req[a].kind = "redeem"
  <2> DEFINE x == CHOOSE y \in Devices : d.devices[y] = "free"
  <2>1. x \in Devices /\ d.devices[x] = "free"
    BY <1>4 DEF MayCommit
  <2>2. e = [d EXCEPT !.open = @ \ {req[a].chal}, !.devices[x] = "active",
                                    !.from[x] = req[a].chal, !.audit = @ + 1]
    BY <1>4 DEF Candidate, Redeemed, Spent
  <2>3. req[a].chal \in d.open /\ d.audit + 1 \in 0..MAX_AUDIT
    BY <1>4, <1>n DEF MayCommit
  <2> HIDE DEF x
  <2>4. /\ e.records = d.records /\ e.acquired = d.acquired
        /\ e.devices = [d.devices EXCEPT ![x] = "active"]
        /\ e.from = [d.from EXCEPT ![x] = req[a].chal]
        /\ e.open = d.open \ {req[a].chal} /\ e.audit = d.audit + 1
    BY <2>2
  <2>5. e \in Disks
    <3>1. e = [devices |-> e.devices, from |-> e.from, open |-> e.open, audit |-> e.audit,
               records |-> e.records, acquired |-> e.acquired]
      BY <2>2
    <3>2. e.devices \in [Devices -> {"free", "active", "revoked"}]
      BY <2>1, <2>4
    <3>3. e.from \in [Devices -> Challenges \cup {None}]
      BY <1>4, <1>t, <2>1, <2>4
    <3>4. e.open \subseteq Challenges /\ e.audit \in 0..MAX_AUDIT
      BY <2>3, <2>4
    <3> HIDE DEF e
    <3>5. QED
      BY <2>4, <3>1, <3>2, <3>3, <3>4 DEF Disks
  <2>6. Sound(e)
    BY <1>4, <1>t, <1>n, <2>1, <2>3, <2>4 DEF Sound
  <2>7. Known(e) \subseteq Known(d)
    BY <1>4, <1>t, <2>1, <2>3, <2>4 DEF Known
  <2>8. Extends(d, e)
    BY <2>1, <2>4 DEF Extends
  <2>9. QED
    BY <1>4, <2>5, <2>6, <2>7, <2>8
<1>5. CASE req[a].kind = "revoke"
  <2>1. e = [d EXCEPT !.devices[req[a].device] = "revoked", !.audit = @ + 1]
    BY <1>5 DEF Candidate, RevokedOne
  <2>a. d.audit + 1 \in 0..MAX_AUDIT
    BY <1>5, <1>n DEF MayCommit
  <2>2. e \in Disks
    BY <1>t, <1>5, <2>1, <2>a DEF Disks
  <2>3. /\ e.records = d.records /\ e.acquired = d.acquired
        /\ e.devices = [d.devices EXCEPT ![req[a].device] = "revoked"]
        /\ e.from = d.from /\ e.open = d.open
    BY <2>1
  <2>4. QED
    BY <1>5, <1>t, <2>2, <2>3 DEF Sound, Known, Extends
<1>6. CASE req[a].kind = "configure"
  <2> DEFINE g == [x \in Devices |-> IF d.devices[x] = "free" THEN "free" ELSE "revoked"]
  <2>1. e = [d EXCEPT !.devices = g, !.open = {}, !.audit = @ + 1]
    BY <1>6 DEF Candidate, Configured
  <2>b. g \in [Devices -> {"free", "active", "revoked"}]
    OBVIOUS
  <2>a. d.audit + 1 \in 0..MAX_AUDIT
    BY <1>6, <1>n DEF MayCommit
  <2>2. e \in Disks
    <3> HIDE DEF g
    <3>1. QED
      BY <2>1, <2>a, <2>b, ZenonT(40) DEF Disks
  <2>3. /\ e.records = d.records /\ e.acquired = d.acquired /\ e.devices = g
        /\ e.from = d.from /\ e.open = {}
    BY <2>1
  <2>4. QED
    BY <1>6, <2>2, <2>3 DEF Sound, Known, Extends
<1>7. QED
  BY <1>1, <1>2, <1>3, <1>4, <1>5, <1>6 DEF Kinds, OwnerKinds, SlotKinds

-----------------------------------------------------------------------------
(* What the actions with several outcomes do to the requests.               *)

\* The owner's request is a new one, under the lock next.
Asked(q) ==
  /\ req[Owner].pc = "free" /\ req' = [req EXCEPT ![Owner] = q]
  /\ q \in Requests /\ q.kind \in OwnerKinds
  /\ q.pc = "hold" /\ q.seen = "none" /\ q.sender = None
  /\ q.kind = "challenge" => q.chal \in Challenges \ drawn /\ drawn' = drawn \cup {q.chal}
  /\ q.kind # "challenge" => drawn' = drawn
  /\ q.kind = "revoke" => q.device \in Devices
  /\ UNCHANGED <<disk, stage, lock, rows, send, cred, pairing, shown, told>>

LEMMA AskOutcome == ASSUME OwnerAsks PROVE \E q : Asked(q)
<1> USE DEF Asked, Requests, OwnerKinds, Free
<1>0. /\ req[Owner].pc = "free"
      /\ UNCHANGED <<disk, stage, lock, rows, send, cred, pairing, shown, told>>
  BY DEF OwnerAsks, server, phone, owner
<1>1. ASSUME NEW c \in Challenges \ drawn,
             req' = [req EXCEPT ![Owner] = [Free EXCEPT !.kind = "challenge", !.chal = c, !.pc = "hold"]],
             drawn' = drawn \cup {c}
      PROVE  Asked([Free EXCEPT !.kind = "challenge", !.chal = c, !.pc = "hold"])
  BY <1>0, <1>1
<1>2. ASSUME NEW d \in Devices, UNCHANGED drawn,
             req' = [req EXCEPT ![Owner] = [Free EXCEPT !.kind = "revoke", !.device = d, !.pc = "hold"]]
      PROVE  Asked([Free EXCEPT !.kind = "revoke", !.device = d, !.pc = "hold"])
  BY <1>0, <1>2
<1>3. ASSUME UNCHANGED drawn,
             req' = [req EXCEPT ![Owner] = [Free EXCEPT !.kind = "configure", !.pc = "hold"]]
      PROVE  Asked([Free EXCEPT !.kind = "configure", !.pc = "hold"])
  BY <1>0, <1>3
<1> HIDE DEF Asked
<1>4. QED
  BY <1>1, <1>2, <1>3 DEF OwnerAsks

\* A request moves on and keeps what it is about.
Moved(p, q) ==
  /\ q \in Requests /\ q.kind = p.kind /\ q.row = p.row /\ q.device = p.device
  /\ q.chal = p.chal /\ q.sender = p.sender

Points == {"free", "start", "hold", "respond", "answered"} \cup Reading \cup Changing
Answers == {"none", "error", "ok", "missing", "found", "acquired"}

LEMMA RequestMoves ==
  ASSUME NEW p \in Requests, NEW pc \in Points, NEW q, q = [p EXCEPT !.pc = pc]
  PROVE  Moved(p, q) /\ q.pc = pc /\ q.seen = p.seen
<1>1. q \in Requests
  BY DEF Requests, Points
<1>2. QED
  BY <1>1 DEF Moved, Requests

Same(a) ==
  /\ req'[a].kind = req[a].kind /\ req'[a].row = req[a].row /\ req'[a].device = req[a].device
  /\ req'[a].chal = req[a].chal /\ req'[a].sender = req[a].sender

\* Requests that die are answered with an error, the others go on.
LEMMA CrashOutcome ==
  ASSUME NEW A \in {Slots, {Owner}}, Crash(A), req \in [Actors -> Requests]
  PROVE  /\ req' \in [Actors -> Requests]
         /\ \A a \in Actors :
              /\ Same(a)
              /\ \/ req'[a] = req[a] /\ (a \notin A \/ req[a].pc = "free")
                 \/ /\ a \in A /\ req[a].pc # "free"
                    /\ req'[a].pc = "answered" /\ req'[a].seen = "error"
         /\ lock' = (IF lock \in A THEN None ELSE lock)
         /\ UNCHANGED <<disk, stage, rows, send, cred, pairing, drawn, shown, told>>
<1> DEFINE dead(a) == [req[a] EXCEPT !.pc = "answered", !.seen = "error"]
<1>2. req' = [a \in Actors |-> IF a \in A /\ req[a].pc # "free" THEN dead(a) ELSE req[a]]
  BY DEF Crash
<1>3. /\ lock' = (IF lock \in A THEN None ELSE lock)
      /\ UNCHANGED <<disk, stage, rows, send, cred, pairing, drawn, shown, told>>
  BY DEF Crash, phone, owner
<1>4. ASSUME NEW a \in Actors
      PROVE  Moved(req[a], dead(a)) /\ dead(a).pc = "answered" /\ dead(a).seen = "error"
  <2>1. req[a] \in Requests /\ "answered" \in Points /\ "error" \in Answers
    BY DEF Points, Answers
  <2>2. dead(a) = [req[a] EXCEPT !.pc = "answered", !.seen = "error"]
    OBVIOUS
  <2> HIDE DEF dead
  <2>3. dead(a) \in Requests
    BY <2>1, <2>2 DEF Requests, Points, Answers
  <2>4. QED
    BY <2>1, <2>2, <2>3 DEF Moved, Requests
<1> HIDE DEF dead
<1>5. req' \in [Actors -> Requests]
  BY <1>2, <1>4 DEF Moved
<1>6. ASSUME NEW a \in Actors
      PROVE  /\ Same(a)
             /\ \/ req'[a] = req[a] /\ (a \notin A \/ req[a].pc = "free")
                \/ /\ a \in A /\ req[a].pc # "free"
                   /\ req'[a].pc = "answered" /\ req'[a].seen = "error"
  BY <1>2, <1>4 DEF Same, Moved
<1>7. QED
  BY <1>3, <1>5, <1>6

-----------------------------------------------------------------------------
(* What the senders do to the outbox.                                       *)

LEMMA GiveUpOutcome ==
  ASSUME rows \in [Rows -> Outbox], NEW f \in Senders, send[f].row \in Rows, GiveUp(f)
  PROVE  rows' \in [Rows -> Outbox] /\ send' = [send EXCEPT ![f] = Resting]
<1>1. \A x \in Outbox : [x EXCEPT !.leased = FALSE, !.state = "attention"] \in Outbox
  BY DEF Outbox
<1>2. QED
  BY <1>1 DEF GiveUp

LEMMA ClaimOutcome ==
  ASSUME Outboxes, NEW f \in Senders, NEW r \in Rows, Claim(f, r)
  PROVE  /\ rows' \in [Rows -> Outbox] /\ cred # None /\ send[f].pc = "idle"
         /\ \/ send' = send
            \/ \E b \in BOOLEAN : send' = [send EXCEPT ![f] = [pc |-> "lookup", row |-> r, receipt |-> b]]
<1> DEFINE s == IF rows[r].receipt THEN "acknowledged" ELSE "sending"
<1>1. rows \in [Rows -> Outbox] /\ rows[r].receipt \in BOOLEAN
  BY DEF Outboxes, Outbox
<1>2. CASE rows[r].device # cred
  <2>1. [rows[r] EXCEPT !.state = "attention", !.token = f] \in Outbox
    BY <1>1 DEF Outbox
  <2>2. rows' = [rows EXCEPT ![r] = [rows[r] EXCEPT !.state = "attention", !.token = f]]
    BY <1>2 DEF Claim
  <2>3. QED
    BY <1>1, <1>2, <2>1, <2>2 DEF Claim
<1>3. CASE rows[r].device = cred
  <2>1. [rows[r] EXCEPT !.leased = TRUE, !.token = f, !.state = s] \in Outbox
    BY <1>1 DEF Outbox
  <2>2. rows' = [rows EXCEPT ![r] = [rows[r] EXCEPT !.leased = TRUE, !.token = f, !.state = s]]
    BY <1>3 DEF Claim
  <2> HIDE DEF s
  <2>3. QED
    BY <1>1, <1>3, <2>1, <2>2 DEF Claim
<1>4. QED
  BY <1>2, <1>3

\* The answer is the one the sender waits for: it goes on with its row or rests.
LEMMA LearnOutcome ==
  ASSUME Outboxes, Awaited, NEW f \in Senders, NEW s \in Slots, Learn(f, s)
  PROVE  /\ rows' \in [Rows -> Outbox] /\ send[f].row \in Rows /\ cred # None
         /\ req[s].sender = f /\ req' = [req EXCEPT ![s] = Free] /\ cred' = cred
         /\ \/ send' = [send EXCEPT ![f] = Resting]
            \/ \E pc \in {"submit", "process", "finish"} : send' = [send EXCEPT ![f].pc = pc]
<1>1. send[f].pc = "wait"
  BY ConstantsAssumption DEF Awaited, Learn, Actors
<1>2. rows \in [Rows -> Outbox] /\ send[f].row \in Rows /\ cred # None
  BY <1>1 DEF Outboxes
<1>3. ASSUME GiveUp(f) PROVE rows' \in [Rows -> Outbox] /\ send' = [send EXCEPT ![f] = Resting]
  BY <1>2, <1>3, GiveUpOutcome
<1>4. ASSUME NEW pc, Acknowledge(f, s, pc)
      PROVE  /\ rows' \in [Rows -> Outbox]
             /\ send' = [send EXCEPT ![f] = Resting] \/ send' = [send EXCEPT ![f].pc = pc]
  <2>1. [rows[send[f].row] EXCEPT !.state = "acknowledged", !.receipt = TRUE] \in Outbox
    BY <1>2 DEF Outbox
  <2>2. QED
    BY <1>2, <1>3, <1>4, <2>1 DEF Acknowledge, Proceed
<1>5. QED
  BY <1>2, <1>3, <1>4 DEF Learn, Proceed, phone

\* A sender that loses its call is no longer named in the requests.
LEMMA LoseOutcome ==
  ASSUME NEW f \in Senders, Lose(f), req \in [Actors -> Requests]
  PROVE  /\ req' \in [Actors -> Requests]
         /\ \A a \in Actors : req'[a] = req[a] \/ req'[a] = [req[a] EXCEPT !.sender = None]
         /\ send' = [send EXCEPT ![f] = Resting]
         /\ Outboxes => rows' \in [Rows -> Outbox] /\ cred' = cred
<1>1. \A a \in Actors : [req[a] EXCEPT !.sender = None] \in Requests
  BY DEF Requests
<1>2. req' = [a \in Actors |-> IF req[a].sender = f THEN [req[a] EXCEPT !.sender = None] ELSE req[a]]
  BY DEF Lose
<1>3. Outboxes => rows' \in [Rows -> Outbox]
  BY GiveUpOutcome DEF Lose, Outboxes
<1>4. QED
  BY <1>1, <1>2, <1>3 DEF Lose, GiveUp


-----------------------------------------------------------------------------
(* What a request finds under the lock.                                     *)

\* The recovered Instance is sound, and so is what the request commits to it.
LEMMA HoldFacts ==
  ASSUME IInv, NEW a \in Actors, Hold(a)
  PROVE  /\ Recovered \in Disks /\ Recovered \in Views
         /\ Sound(Recovered) /\ Known(Recovered) \subseteq drawn
         /\ req[a].kind = "challenge" => req[a].chal \notin Known(Recovered)
         /\ MayCommit(a, Recovered) =>
              /\ Candidate(a, Recovered) \in Disks /\ Sound(Candidate(a, Recovered))
              /\ Extends(Recovered, Candidate(a, Recovered))
              /\ Known(Candidate(a, Recovered)) \subseteq
                   Known(Recovered) \cup (IF req[a].kind = "challenge" THEN {req[a].chal} ELSE {})
              /\ req[a].kind = "revoke" =>
                   Candidate(a, Recovered).devices[req[a].device] = "revoked"
<1>1. Recovered \in Disks /\ Recovered \in Views
  BY DEF IInv, Shapes, Recovered, Views, Ready, Stages, NoStage
<1>2. req[a].kind \in Kinds
  BY DEF IInv, Shapes, Hold, Kinds, Actors, Changing, OwnerKinds, SlotKinds
<1>3. req[a].kind = "challenge" => a = Owner
  BY DEF IInv, Shapes, Actors, SlotKinds
<1>4. /\ Sound(Recovered) /\ Known(Recovered) \subseteq drawn
      /\ req[a].kind = "challenge" => req[a].chal \notin Known(Recovered)
  BY <1>1, <1>3 DEF IInv, Fresh, Hold
<1>5. QED
  BY <1>1, <1>2, <1>4, CandidateFacts DEF IInv

\* It refuses, finds the work done already, or prepares what it commits.
LEMMA HoldOutcome ==
  ASSUME IInv, NEW a \in Actors, Hold(a)
  PROVE  /\ lock = None /\ disk' = Recovered /\ req' \in [Actors -> Requests]
         /\ \A b \in Actors : Same(b) /\ (b # a => req'[b] = req[b])
         /\ UNCHANGED <<rows, send, cred, pairing, drawn, shown, told>>
         /\ \/ /\ stage' = NoStage /\ lock' = None /\ AlreadyDone(a, Recovered)
               /\ req'[a].pc = "respond" /\ req'[a].seen = req[a].seen
            \/ /\ stage' = NoStage /\ lock' = None
               /\ req'[a].pc = "answered" /\ req'[a].seen = "error"
            \/ /\ stage' \in Stages /\ stage'.status = "prepared" /\ stage'.pre = Recovered
               /\ stage'.post = Candidate(a, Recovered) /\ lock' = a /\ MayCommit(a, Recovered)
               /\ req'[a].pc = "publish" /\ req'[a].seen = req[a].seen
<1>1. lock = None /\ disk' = Recovered /\ UNCHANGED <<rows, send, cred, pairing, drawn, shown, told>>
  BY DEF Hold, phone, owner
<1>2. req \in [Actors -> Requests]
  BY DEF IInv, Shapes
<1>3. ASSUME NEW pc \in {"respond", "publish"}, Goto(a, pc)
      PROVE  /\ req' \in [Actors -> Requests] /\ req'[a].pc = pc /\ req'[a].seen = req[a].seen
             /\ \A b \in Actors : Same(b) /\ (b # a => req'[b] = req[b])
  <2> DEFINE q == [req[a] EXCEPT !.pc = pc]
  <2>1. req' = [req EXCEPT ![a] = q] /\ q = [req[a] EXCEPT !.pc = pc]
    BY <1>3 DEF Goto
  <2>2. pc \in Points /\ req[a] \in Requests
    BY <1>2 DEF Points, Changing
  <2> HIDE DEF q
  <2>3. Moved(req[a], q) /\ q.pc = pc /\ q.seen = req[a].seen
    BY <2>1, <2>2, RequestMoves
  <2>4. QED
    BY <1>2, <2>1, <2>3 DEF Same, Moved
<1>4. ASSUME Answer(a, "error")
      PROVE  /\ req' \in [Actors -> Requests] /\ req'[a].pc = "answered" /\ req'[a].seen = "error"
             /\ \A b \in Actors : Same(b) /\ (b # a => req'[b] = req[b])
  <2> DEFINE q == [req[a] EXCEPT !.pc = "answered", !.seen = "error"]
  <2>1. req' = [req EXCEPT ![a] = q] /\ q = [req[a] EXCEPT !.pc = "answered", !.seen = "error"]
    BY <1>4 DEF Answer
  <2>2. req[a] \in Requests /\ "answered" \in Points /\ "error" \in Answers
    BY <1>2 DEF Points, Answers
  <2> HIDE DEF q
  <2>3. Moved(req[a], q) /\ q.pc = "answered" /\ q.seen = "error"
    <3>1. q \in Requests
      BY <2>1, <2>2 DEF Requests, Points, Answers
    <3>2. QED
      BY <2>1, <2>2, <3>1 DEF Moved, Requests
  <2>4. QED
    BY <1>2, <2>1, <2>3 DEF Same, Moved
<1>5. CASE disk' = Recovered /\ stage' = NoStage /\ UNCHANGED lock /\ AlreadyDone(a, Recovered) /\ Goto(a, "respond")
  BY <1>1, <1>3, <1>5
<1>6. CASE disk' = Recovered /\ stage' = NoStage /\ UNCHANGED lock /\ Answer(a, "error")
  BY <1>1, <1>4, <1>6
<1>7. CASE /\ MayCommit(a, Recovered) /\ lock' = a /\ Goto(a, "publish")
           /\ stage' = [status |-> "prepared", pre |-> Recovered, post |-> Candidate(a, Recovered)]
  <2>1. Recovered \in Disks /\ Candidate(a, Recovered) \in Disks
    BY <1>7, HoldFacts
  <2>2. QED
    BY <1>1, <1>3, <1>7, <2>1 DEF Stages
<1>8. QED
  BY <1>5, <1>6, <1>7 DEF Hold

-----------------------------------------------------------------------------
(* Every part of the invariant is inductive relative to the whole.          *)

\* Requests, stages and the disk keep their shapes.
LEMMA Typing ==
  ASSUME IInv, [Next]_vars
  PROVE  Shapes'
<1> USE ConstantsAssumption DEF IInv, Shapes, OwnerKinds, SlotKinds, Reading,
      Changing, Actors, NoStage, server, phone, owner, env
<1>1. ASSUME NEW a \in Actors, Busy(a) PROVE Shapes'
  BY <1>1 DEF Busy, Answer, Requests, Stages
<1>2. ASSUME NEW a \in Actors, Hold(a) PROVE Shapes'
  <2>1. /\ disk' \in Disks /\ stage' \in Stages \cup {NoStage} /\ lock' \in Actors \cup {None}
        /\ req' \in [Actors -> Requests] /\ UNCHANGED <<drawn, shown, told>>
        /\ \A b \in Actors : Same(b) /\ (b # a => req'[b] = req[b])
        /\ req'[a].pc \in {"respond", "answered", "publish"}
    BY <1>2, HoldFacts, HoldOutcome
  <2>2. req[a].kind \notin {"lookup", "none"}
    BY <1>2 DEF Hold
  <2>3. QED
    BY <2>1, <2>2 DEF Same
<1>3. ASSUME NEW a \in Actors, Publish(a) PROVE Shapes'
  BY <1>3 DEF Publish, Goto, Requests, Stages, Committing
<1>4. ASSUME NEW a \in Actors, Mark(a) PROVE Shapes'
  BY <1>4 DEF Mark, Goto, Requests, Stages, Committing
<1>5. ASSUME NEW a \in Actors, Clean(a) PROVE Shapes'
  BY <1>5 DEF Clean, Goto, Requests, Stages
<1>6. ASSUME NEW a \in Actors, Respond(a) PROVE Shapes'
  BY <1>6 DEF Respond, Answer, Requests, Stages
<1>7. ASSUME NEW a \in Actors, Fail(a) PROVE Shapes'
  BY <1>7 DEF Fail, Answer, Requests, Stages, Committing
<1>8. ASSUME NEW s \in Slots, Guard(s) PROVE Shapes'
  BY <1>8 DEF Guard, Goto, Answer, Requests, Stages
<1>9. ASSUME NEW s \in Slots, ReadRecord(s) PROVE Shapes'
  <2> DEFINE v == IF Target(s) \in disk.records THEN "found" ELSE "missing"
             q == [req[s] EXCEPT !.pc = "recheck", !.seen = v]
  <2>1. v \in Answers /\ "recheck" \in Points
    BY DEF Answers, Points
  <2>2. /\ req' = [req EXCEPT ![s] = q] /\ req[s].pc = "record" /\ req[s] \in Requests
        /\ q = [req[s] EXCEPT !.pc = "recheck", !.seen = v]
    BY <1>9 DEF ReadRecord
  <2> HIDE DEF v, q
  <2>3. Moved(req[s], q) /\ q.pc = "recheck"
    <3>1. q \in Requests
      BY <2>1, <2>2 DEF Requests, Points, Answers
    <3>2. QED
      BY <2>1, <2>2, <3>1 DEF Moved, Requests
  <2>4. UNCHANGED <<disk, stage, lock, drawn, shown, told>>
    BY <1>9 DEF ReadRecord
  <2>5. QED
    BY <2>2, <2>3, <2>4 DEF Moved
<1>10. ASSUME NEW s \in Slots, Recheck(s) PROVE Shapes'
  BY <1>10 DEF Recheck, Goto, Answer, Requests, Stages
<1>11. ASSUME NEW s \in Slots, ReadAcquisition(s) PROVE Shapes'
  BY <1>11 DEF ReadAcquisition, Goto, Requests, Stages
<1>12. ASSUME NEW s \in Slots, Discard(s) PROVE Shapes'
  BY <1>12 DEF Discard, Free, Requests, Stages
<1>13. ASSUME Open PROVE Shapes'
  BY <1>13 DEF Open, Requests, Stages, Recovered, Ready
<1>14. ASSUME OwnerAsks PROVE Shapes'
  <2>1. PICK q : Asked(q)
    BY <1>14, AskOutcome
  <2>2. QED
    BY <2>1 DEF Asked
<1>15. ASSUME OwnerLearns PROVE Shapes'
  BY <1>15 DEF OwnerLearns, Free, Requests, Stages
<1>16. ASSUME NEW A \in {Slots, {Owner}}, Crash(A) PROVE Shapes'
  <2>1. /\ req \in [Actors -> Requests] /\ req' \in [Actors -> Requests]
        /\ \A a \in Actors : Same(a) /\ req'[a].pc \in {req[a].pc, "answered"}
        /\ \A a \in Actors : req[a].pc = "free" => req'[a].pc = "free"
        /\ lock' \in {lock, None} /\ UNCHANGED <<disk, stage, drawn, shown, told>>
    BY <1>16, CrashOutcome
  <2>2. QED
    BY <2>1 DEF Same
<1>17. ASSUME NEW c \in Challenges, Expire(c) PROVE Shapes'
  BY <1>17 DEF Expire, Requests, Stages
<1>18. ASSUME LosePairing PROVE Shapes'
  BY <1>18 DEF LosePairing, Requests, Stages
<1>19. ASSUME NEW s \in Slots, Paired(s) PROVE Shapes'
  BY <1>19 DEF Paired, Free, Requests, Stages
<1>20. ASSUME NEW s \in Slots, NEW c \in Challenges, Redeem(s, c) PROVE Shapes'
  BY <1>20, ZenonT(40) DEF Redeem, Vacant, Free, Requests, Stages
<1>21. ASSUME NEW f \in Senders, Finish(f) PROVE Shapes'
  BY <1>21 DEF Finish, Resting, Requests, Stages
<1>22. ASSUME NEW f \in Senders, NEW s \in Slots, Call(f, s) PROVE Shapes'
  <2> DEFINE q == [Free EXCEPT !.kind = send[f].pc, !.row = send[f].row,
                                !.device = cred, !.sender = f, !.pc = "start"]
  <2>1. /\ send[f].pc \in {"lookup", "submit", "process"}
        /\ send[f].row \in Rows /\ cred \in Devices
    BY <1>22 DEF Outboxes, Call
  <2>2. q \in Requests /\ q.kind = send[f].pc /\ q.row = send[f].row /\ q.device = cred /\ q.pc = "start"
    BY <2>1 DEF Requests, Free
  <2>3. req' = [req EXCEPT ![s] = q]
    BY <1>22 DEF Call
  <2> HIDE DEF q
  <2>4. QED
    BY <1>22, <2>1, <2>2, <2>3 DEF Call
<1>23. ASSUME NEW f \in Senders, NEW s \in Slots, Learn(f, s) PROVE Shapes'
    BY <1>23 DEF Learn, Acknowledge, GiveUp, Proceed, Resting, Free, Requests,
     Stages
<1>24. ASSUME NEW f \in Senders, Lose(f) PROVE Shapes'
  BY <1>24, LoseOutcome DEF Lose
<1>25. ASSUME NEW f \in Senders, NEW r \in Rows, Claim(f, r) PROVE Shapes'
  BY <1>25 DEF Claim, Requests, Stages
<1>26. ASSUME NEW r \in Rows, Enqueue(r) PROVE Shapes'
  BY <1>26 DEF Enqueue, Requests, Stages
<1>27. ASSUME NEW r \in Rows, LeaseExpires(r) PROVE Shapes'
  BY <1>27 DEF LeaseExpires, Requests, Stages
<1>28. CASE UNCHANGED vars
  BY <1>28 DEF vars, server, phone, owner, Shapes
<1>29. QED
    BY <1>1, <1>2, <1>3, <1>4, <1>5, <1>6, <1>7, <1>8, <1>9, <1>10, <1>11,
     <1>12, <1>13, <1>14, <1>15, <1>16, <1>17, <1>18, <1>19, <1>20, <1>21,
     <1>22, <1>23, <1>24, <1>25, <1>26, <1>27, <1>28 DEF Next, Serve, Commit,
     Read, Send

\* Whoever sends keeps its row, and the browser a credential.
LEMMA Sending ==
  ASSUME IInv, [Next]_vars
  PROVE  Outboxes'
<1> USE ConstantsAssumption DEF IInv, server, phone, owner, env
<1>1. ASSUME NEW a \in Actors, Busy(a) PROVE Outboxes'
  BY <1>1 DEF Busy, Answer, Outboxes
<1>2. ASSUME NEW a \in Actors, Hold(a) PROVE Outboxes'
  BY <1>2 DEF Hold, Goto, Answer, Outboxes
<1>3. ASSUME NEW a \in Actors, Publish(a) PROVE Outboxes'
  BY <1>3 DEF Publish, Goto, Outboxes
<1>4. ASSUME NEW a \in Actors, Mark(a) PROVE Outboxes'
  BY <1>4 DEF Mark, Goto, Outboxes
<1>5. ASSUME NEW a \in Actors, Clean(a) PROVE Outboxes'
  BY <1>5 DEF Clean, Goto, Outboxes
<1>6. ASSUME NEW a \in Actors, Respond(a) PROVE Outboxes'
  BY <1>6 DEF Respond, Answer, Outboxes
<1>7. ASSUME NEW a \in Actors, Fail(a) PROVE Outboxes'
  BY <1>7 DEF Fail, Answer, Outboxes
<1>8. ASSUME NEW s \in Slots, Guard(s) PROVE Outboxes'
  BY <1>8 DEF Guard, Goto, Answer, Outboxes
<1>9. ASSUME NEW s \in Slots, ReadRecord(s) PROVE Outboxes'
  BY <1>9 DEF ReadRecord, Outboxes
<1>10. ASSUME NEW s \in Slots, Recheck(s) PROVE Outboxes'
  BY <1>10 DEF Recheck, Goto, Answer, Outboxes
<1>11. ASSUME NEW s \in Slots, ReadAcquisition(s) PROVE Outboxes'
  BY <1>11 DEF ReadAcquisition, Goto, Outboxes
<1>12. ASSUME NEW s \in Slots, Discard(s) PROVE Outboxes'
  BY <1>12 DEF Discard, Free, Outboxes
<1>13. ASSUME Open PROVE Outboxes'
  BY <1>13 DEF Open, Outboxes
<1>14. ASSUME OwnerAsks PROVE Outboxes'
  BY <1>14 DEF OwnerAsks, Outboxes
<1>15. ASSUME OwnerLearns PROVE Outboxes'
  BY <1>15 DEF OwnerLearns, Free, Outboxes
<1>16. ASSUME NEW A \in {Slots, {Owner}}, Crash(A) PROVE Outboxes'
  BY <1>16, CrashOutcome DEF Outboxes, Shapes
<1>17. ASSUME NEW c \in Challenges, Expire(c) PROVE Outboxes'
  BY <1>17 DEF Expire, Outboxes
<1>18. ASSUME LosePairing PROVE Outboxes'
  BY <1>18 DEF LosePairing, Outboxes
<1>19. ASSUME NEW s \in Slots, Paired(s) PROVE Outboxes'
  BY <1>19 DEF Paired, Free, Outboxes
<1>20. ASSUME NEW s \in Slots, NEW c \in Challenges, Redeem(s, c) PROVE Outboxes'
  BY <1>20 DEF Redeem, Vacant, Free, Outboxes
<1>21. ASSUME NEW f \in Senders, Finish(f) PROVE Outboxes'
  <2>1. send[f].row \in Rows
    BY <1>21 DEF Outboxes, Finish
  <2>2. \A x \in Outbox : [x EXCEPT !.state = "acquired", !.leased = FALSE] \in Outbox
    BY DEF Outbox
  <2>3. QED
    BY <1>21, <2>1, <2>2 DEF Outboxes, Sends, Finish, Resting
<1>22. ASSUME NEW f \in Senders, NEW s \in Slots, Call(f, s) PROVE Outboxes'
  BY <1>22 DEF Outboxes, Sends, Call
<1>23. ASSUME NEW f \in Senders, NEW s \in Slots, Learn(f, s) PROVE Outboxes'
  <2>1. /\ rows' \in [Rows -> Outbox] /\ send[f].row \in Rows /\ cred # None /\ cred' = cred
        /\ \/ send' = [send EXCEPT ![f] = Resting]
           \/ \E pc \in {"submit", "process", "finish"} : send' = [send EXCEPT ![f].pc = pc]
    BY <1>23, LearnOutcome
  <2>2. CASE send' = [send EXCEPT ![f] = Resting]
    BY <2>1, <2>2 DEF Outboxes, Sends, Resting
  <2>3. ASSUME NEW pc \in {"submit", "process", "finish"}, send' = [send EXCEPT ![f].pc = pc]
        PROVE  Outboxes'
    BY <2>1, <2>3 DEF Outboxes, Sends
  <2>4. QED
    BY <2>1, <2>2, <2>3
<1>24. ASSUME NEW f \in Senders, Lose(f) PROVE Outboxes'
  <2>1. req \in [Actors -> Requests]
    BY DEF Shapes
  <2>2. /\ rows' \in [Rows -> Outbox] /\ cred' = cred
        /\ send' = [send EXCEPT ![f] = Resting]
    BY <1>24, <2>1, LoseOutcome
  <2>3. QED
    BY <2>2 DEF Outboxes, Sends, Resting
<1>25. ASSUME NEW f \in Senders, NEW r \in Rows, Claim(f, r) PROVE Outboxes'
  <2>1. cred' = cred
    BY <1>25 DEF Claim
  <2>2. QED
    BY <1>25, <2>1, ClaimOutcome DEF Outboxes, Sends
<1>26. ASSUME NEW r \in Rows, Enqueue(r) PROVE Outboxes'
  <2>1. [rows[r] EXCEPT !.state = "queued", !.device = cred] \in Outbox
    BY <1>26 DEF Outboxes, Outbox, Enqueue
  <2>2. QED
    BY <1>26, <2>1 DEF Outboxes, Enqueue
<1>27. ASSUME NEW r \in Rows, LeaseExpires(r) PROVE Outboxes'
  <2>1. [rows[r] EXCEPT !.leased = FALSE] \in Outbox
    BY <1>27 DEF Outboxes, Outbox
  <2>2. QED
    BY <1>27, <2>1 DEF Outboxes, LeaseExpires
<1>28. CASE UNCHANGED vars
  BY <1>28 DEF vars, server, phone, owner, Outboxes
<1>29. QED
    BY <1>1, <1>2, <1>3, <1>4, <1>5, <1>6, <1>7, <1>8, <1>9, <1>10, <1>11,
     <1>12, <1>13, <1>14, <1>15, <1>16, <1>17, <1>18, <1>19, <1>20, <1>21,
     <1>22, <1>23, <1>24, <1>25, <1>26, <1>27, <1>28 DEF Next, Serve, Commit,
     Read, Send

\* No sender has two requests under way.
LEMMA Awaiting ==
  ASSUME IInv, [Next]_vars
  PROVE  Awaited'
<1> USE ConstantsAssumption DEF IInv, Awaited, Actors, server, phone, owner,
      env
<1>1. ASSUME NEW a \in Actors, Busy(a) PROVE Awaited'
  BY <1>1 DEF Busy, Answer, Shapes, Requests
<1>2. ASSUME NEW a \in Actors, Hold(a) PROVE Awaited'
  BY <1>2 DEF Hold, Goto, Answer, Shapes, Requests
<1>3. ASSUME NEW a \in Actors, Publish(a) PROVE Awaited'
  BY <1>3 DEF Publish, Goto, Shapes, Requests
<1>4. ASSUME NEW a \in Actors, Mark(a) PROVE Awaited'
  BY <1>4 DEF Mark, Goto, Shapes, Requests
<1>5. ASSUME NEW a \in Actors, Clean(a) PROVE Awaited'
  BY <1>5 DEF Clean, Goto, Shapes, Requests
<1>6. ASSUME NEW a \in Actors, Respond(a) PROVE Awaited'
  BY <1>6 DEF Respond, Answer, Shapes, Requests
<1>7. ASSUME NEW a \in Actors, Fail(a) PROVE Awaited'
  BY <1>7 DEF Fail, Answer, Shapes, Requests
<1>8. ASSUME NEW s \in Slots, Guard(s) PROVE Awaited'
  BY <1>8 DEF Guard, Goto, Answer, Shapes, Requests
<1>9. ASSUME NEW s \in Slots, ReadRecord(s) PROVE Awaited'
  BY <1>9 DEF ReadRecord, Shapes, Requests
<1>10. ASSUME NEW s \in Slots, Recheck(s) PROVE Awaited'
  BY <1>10 DEF Recheck, Goto, Answer, Shapes, Requests
<1>11. ASSUME NEW s \in Slots, ReadAcquisition(s) PROVE Awaited'
  BY <1>11 DEF ReadAcquisition, Goto, Shapes, Requests
<1>12. ASSUME NEW s \in Slots, Discard(s) PROVE Awaited'
  BY <1>12 DEF Discard, Free, Shapes, Requests
<1>13. ASSUME Open PROVE Awaited'
  BY <1>13 DEF Open, Shapes, Requests
<1>14. ASSUME OwnerAsks PROVE Awaited'
  <2>1. PICK q : Asked(q)
    BY <1>14, AskOutcome
  <2>2. QED
    BY <2>1 DEF Asked
<1>15. ASSUME OwnerLearns PROVE Awaited'
  BY <1>15 DEF OwnerLearns, Free, Shapes, Requests
<1>16. ASSUME NEW A \in {Slots, {Owner}}, Crash(A) PROVE Awaited'
  <2>1. req \in [Actors -> Requests]
    BY DEF Shapes
  <2>2. send' = send /\ \A a \in Actors : req'[a].sender = req[a].sender
    BY <1>16, <2>1, CrashOutcome DEF Same
  <2>3. QED
    BY <2>2
<1>17. ASSUME NEW c \in Challenges, Expire(c) PROVE Awaited'
  BY <1>17 DEF Expire, Shapes, Requests
<1>18. ASSUME LosePairing PROVE Awaited'
  BY <1>18 DEF LosePairing, Shapes, Requests
<1>19. ASSUME NEW s \in Slots, Paired(s) PROVE Awaited'
  BY <1>19 DEF Paired, Free, Shapes, Requests
<1>20. ASSUME NEW s \in Slots, NEW c \in Challenges, Redeem(s, c) PROVE Awaited'
  BY <1>20 DEF Redeem, Vacant, Free, Shapes, Requests
<1>21. ASSUME NEW f \in Senders, Finish(f) PROVE Awaited'
  BY <1>21 DEF Finish, Resting, Outboxes, Sends
<1>22. ASSUME NEW f \in Senders, NEW s \in Slots, Call(f, s) PROVE Awaited'
  <2> DEFINE q == [Free EXCEPT !.kind = send[f].pc, !.row = send[f].row,
                                !.device = cred, !.sender = f, !.pc = "start"]
  <2>1. q.sender = f /\ req' = [req EXCEPT ![s] = q]
    BY <1>22 DEF Call, Free
  <2> HIDE DEF q
  <2>2. \A a \in Actors : req'[a].sender = IF a = s THEN f ELSE req[a].sender
    BY <2>1 DEF Shapes
  <2>3. \A a \in Actors : req[a].sender # f
    BY <1>22 DEF Call
  <2>4. \A g \in Senders : send'[g].pc = IF g = f THEN "wait" ELSE send[g].pc
    BY <1>22 DEF Call, Outboxes, Sends
  <2>5. \A a \in Actors : req[a].sender \in Senders \cup {None}
    BY DEF Shapes, Requests
  <2>6. QED
    BY <2>2, <2>3, <2>4, <2>5
<1>23. ASSUME NEW f \in Senders, NEW s \in Slots, Learn(f, s) PROVE Awaited'
  BY <1>23, LearnOutcome DEF Shapes, Requests, Outboxes, Sends, Free
<1>24. ASSUME NEW f \in Senders, Lose(f) PROVE Awaited'
  BY <1>24, LoseOutcome DEF Lose, Outboxes, Sends, Shapes, Requests
<1>25. ASSUME NEW f \in Senders, NEW r \in Rows, Claim(f, r) PROVE Awaited'
  <2>1. req' = req /\ \A a \in Actors : req[a].sender \in Senders \cup {None}
    BY <1>25 DEF Claim, Shapes, Requests
  <2>2. \A a \in Actors : req[a].sender # f
    BY <1>25, ClaimOutcome
  <2>3. \A g \in Senders : g # f => send'[g] = send[g]
    BY <1>25, ClaimOutcome DEF Outboxes
  <2>4. QED
    BY <2>1, <2>2, <2>3
<1>26. ASSUME NEW r \in Rows, Enqueue(r) PROVE Awaited'
  BY <1>26 DEF Enqueue, Shapes, Requests
<1>27. ASSUME NEW r \in Rows, LeaseExpires(r) PROVE Awaited'
  BY <1>27 DEF LeaseExpires, Shapes, Requests
<1>28. CASE UNCHANGED vars
  BY <1>28 DEF vars, server, phone, owner, Awaited
<1>29. QED
    BY <1>1, <1>2, <1>3, <1>4, <1>5, <1>6, <1>7, <1>8, <1>9, <1>10, <1>11,
     <1>12, <1>13, <1>14, <1>15, <1>16, <1>17, <1>18, <1>19, <1>20, <1>21,
     <1>22, <1>23, <1>24, <1>25, <1>26, <1>27, <1>28 DEF Next, Serve, Commit,
     Read, Send

\* The lock, the control points and the stage go together.
LEMMA Locking ==
  ASSUME IInv, [Next]_vars
  PROVE  Committing'
<1> USE ConstantsAssumption DEF IInv, Shapes, Committing, Changing, Reading,
      Actors, NoStage, server, phone, owner, env
<1>1. ASSUME NEW a \in Actors, Busy(a) PROVE Committing'
  BY <1>1 DEF Busy, Answer, Requests, Stages
<1>2. ASSUME NEW a \in Actors, Hold(a) PROVE Committing'
  BY <1>2, HoldOutcome DEF Same
<1>3. ASSUME NEW a \in Actors, Publish(a) PROVE Committing'
  BY <1>3 DEF Publish, Goto, Requests, Stages
<1>4. ASSUME NEW a \in Actors, Mark(a) PROVE Committing'
  BY <1>4 DEF Mark, Goto, Requests, Stages
<1>5. ASSUME NEW a \in Actors, Clean(a) PROVE Committing'
  BY <1>5 DEF Clean, Goto, Requests, Stages
<1>6. ASSUME NEW a \in Actors, Respond(a) PROVE Committing'
  BY <1>6 DEF Respond, Answer, Requests, Stages
<1>7. ASSUME NEW a \in Actors, Fail(a) PROVE Committing'
  BY <1>7 DEF Fail, Answer, Requests, Stages
<1>8. ASSUME NEW s \in Slots, Guard(s) PROVE Committing'
  BY <1>8 DEF Guard, Goto, Answer, Requests, Stages
<1>9. ASSUME NEW s \in Slots, ReadRecord(s) PROVE Committing'
  BY <1>9 DEF ReadRecord, Requests, Stages
<1>10. ASSUME NEW s \in Slots, Recheck(s) PROVE Committing'
  BY <1>10 DEF Recheck, Goto, Answer, Requests, Stages
<1>11. ASSUME NEW s \in Slots, ReadAcquisition(s) PROVE Committing'
  BY <1>11 DEF ReadAcquisition, Goto, Requests, Stages
<1>12. ASSUME NEW s \in Slots, Discard(s) PROVE Committing'
  BY <1>12 DEF Discard, Free, Requests, Stages
<1>13. ASSUME Open PROVE Committing'
  BY <1>13 DEF Open, Requests, Stages, Recovered, Ready
<1>14. ASSUME OwnerAsks PROVE Committing'
  <2>1. PICK q : Asked(q)
    BY <1>14, AskOutcome
  <2>2. QED
    BY <2>1 DEF Asked
<1>15. ASSUME OwnerLearns PROVE Committing'
  BY <1>15 DEF OwnerLearns, Free, Requests, Stages
<1>16. ASSUME NEW A \in {Slots, {Owner}}, Crash(A) PROVE Committing'
  <2>1. /\ \A a \in Actors :
             \/ req'[a] = req[a] /\ (a \notin A \/ req[a].pc = "free")
             \/ a \in A /\ req[a].pc # "free" /\ req'[a].pc = "answered"
        /\ lock' = (IF lock \in A THEN None ELSE lock) /\ UNCHANGED <<disk, stage>>
    BY <1>16, CrashOutcome
  <2>2. \A a \in Actors : lock' = a <=> req'[a].pc \in Changing
    BY <2>1
  <2>3. \A a \in Actors : req'[a].pc \in {req[a].pc, "answered"}
    BY <2>1
  <2>4. QED
    BY <2>1, <2>2, <2>3
<1>17. ASSUME NEW c \in Challenges, Expire(c) PROVE Committing'
  BY <1>17 DEF Expire, Requests, Stages
<1>18. ASSUME LosePairing PROVE Committing'
  BY <1>18 DEF LosePairing, Requests, Stages
<1>19. ASSUME NEW s \in Slots, Paired(s) PROVE Committing'
  BY <1>19 DEF Paired, Free, Requests, Stages
<1>20. ASSUME NEW s \in Slots, NEW c \in Challenges, Redeem(s, c) PROVE Committing'
  BY <1>20 DEF Redeem, Vacant, Free, Requests, Stages
<1>21. ASSUME NEW f \in Senders, Finish(f) PROVE Committing'
  BY <1>21 DEF Finish, Resting, Requests, Stages
<1>22. ASSUME NEW f \in Senders, NEW s \in Slots, Call(f, s) PROVE Committing'
  BY <1>22 DEF Call, Vacant, Free, Requests, Stages
<1>23. ASSUME NEW f \in Senders, NEW s \in Slots, Learn(f, s) PROVE Committing'
    BY <1>23 DEF Learn, Acknowledge, GiveUp, Proceed, Resting, Free, Requests,
     Stages
<1>24. ASSUME NEW f \in Senders, Lose(f) PROVE Committing'
  BY <1>24, LoseOutcome DEF Lose
<1>25. ASSUME NEW f \in Senders, NEW r \in Rows, Claim(f, r) PROVE Committing'
  BY <1>25 DEF Claim, Requests, Stages
<1>26. ASSUME NEW r \in Rows, Enqueue(r) PROVE Committing'
  BY <1>26 DEF Enqueue, Requests, Stages
<1>27. ASSUME NEW r \in Rows, LeaseExpires(r) PROVE Committing'
  BY <1>27 DEF LeaseExpires, Requests, Stages
<1>28. CASE UNCHANGED vars
  BY <1>28 DEF vars, server, phone, owner, Committing
<1>29. QED
    BY <1>1, <1>2, <1>3, <1>4, <1>5, <1>6, <1>7, <1>8, <1>9, <1>10, <1>11,
     <1>12, <1>13, <1>14, <1>15, <1>16, <1>17, <1>18, <1>19, <1>20, <1>21,
     <1>22, <1>23, <1>24, <1>25, <1>26, <1>27, <1>28 DEF Next, Serve, Commit,
     Read, Send

\* No commit makes a spent challenge usable again.
LEMMA Freshness ==
  ASSUME IInv, [Next]_vars
  PROVE  Fresh'
<1> USE ConstantsAssumption DEF IInv, Shapes, Fresh, Views, Actors, NoStage,
      Ready, server, phone, owner, env
<1>1. ASSUME NEW a \in Actors, Busy(a) PROVE Fresh'
  BY <1>1 DEF Busy, Answer, Requests
<1>2. ASSUME NEW a \in Actors, Hold(a) PROVE Fresh'
  <2>1. \A d \in Views' :
          \/ d = Recovered
          \/ MayCommit(a, Recovered) /\ d = Candidate(a, Recovered) /\ req'[a].pc = "publish"
    BY <1>2, HoldOutcome DEF Stages
  <2>2. UNCHANGED drawn /\ \A b \in Actors : Same(b) /\ (b # a => req'[b] = req[b])
    BY <1>2, HoldOutcome
  <2>3. req[a].kind = "challenge" => a = Owner
    BY DEF SlotKinds
  <2>4. /\ Sound(Recovered) /\ Known(Recovered) \subseteq drawn
        /\ req[Owner].kind = "challenge" /\ req[Owner].pc = "hold" => req[Owner].chal \notin Known(Recovered)
        /\ MayCommit(a, Recovered) =>
             /\ Sound(Candidate(a, Recovered))
             /\ Known(Candidate(a, Recovered)) \subseteq
                  Known(Recovered) \cup (IF req[a].kind = "challenge" THEN {req[a].chal} ELSE {})
    BY <1>2, HoldFacts
  <2>5. req'[a].pc # "hold" /\ Owner \in Actors
    BY <1>2, HoldOutcome
  <2>6. req'[Owner].kind = "challenge" => req'[Owner].chal \in drawn'
    BY <2>2, <2>5 DEF Same
  <2>7. ASSUME NEW d \in Views'
        PROVE  /\ Sound(d) /\ Known(d) \subseteq drawn'
               /\ req'[Owner].kind = "challenge" /\ req'[Owner].pc = "hold" =>
                    req'[Owner].chal \notin Known(d)
    <3> USE DEF Same
    <3> HIDE DEF Views
    <3>1. Known(d) \subseteq drawn /\ Sound(d)
      BY <2>1, <2>3, <2>4, <2>7
    <3>2. CASE Owner = a
      BY <2>2, <2>5, <3>1, <3>2
    <3>3. CASE Owner # a
      BY <2>1, <2>2, <2>3, <2>4, <2>5, <2>7, <3>1, <3>3
    <3>4. QED
      BY <3>2, <3>3
  <2>8. QED
    BY <2>6, <2>7
<1>3. ASSUME NEW a \in Actors, Publish(a) PROVE Fresh'
  BY <1>3 DEF Publish, Goto, Requests, Stages, Committing
<1>4. ASSUME NEW a \in Actors, Mark(a) PROVE Fresh'
  BY <1>4 DEF Mark, Goto, Requests, Committing
<1>5. ASSUME NEW a \in Actors, Clean(a) PROVE Fresh'
  BY <1>5 DEF Clean, Goto, Requests
<1>6. ASSUME NEW a \in Actors, Respond(a) PROVE Fresh'
  BY <1>6 DEF Respond, Answer, Requests
<1>7. ASSUME NEW a \in Actors, Fail(a) PROVE Fresh'
  BY <1>7 DEF Fail, Answer, Requests, Committing
<1>8. ASSUME NEW s \in Slots, Guard(s) PROVE Fresh'
  BY <1>8 DEF Guard, Goto, Answer, Requests
<1>9. ASSUME NEW s \in Slots, ReadRecord(s) PROVE Fresh'
  BY <1>9 DEF ReadRecord, Requests
<1>10. ASSUME NEW s \in Slots, Recheck(s) PROVE Fresh'
  BY <1>10 DEF Recheck, Goto, Answer, Requests
<1>11. ASSUME NEW s \in Slots, ReadAcquisition(s) PROVE Fresh'
  BY <1>11 DEF ReadAcquisition, Goto, Requests
<1>12. ASSUME NEW s \in Slots, Discard(s) PROVE Fresh'
  BY <1>12 DEF Discard, Free, Requests
<1>13. ASSUME Open PROVE Fresh'
  BY <1>13 DEF Open, Requests, Recovered, Committing
<1>14. ASSUME OwnerAsks PROVE Fresh'
  <2>1. PICK q : Asked(q)
    BY <1>14, AskOutcome
  <2>2. QED
    BY <2>1 DEF Asked
<1>15. ASSUME OwnerLearns PROVE Fresh'
  BY <1>15 DEF OwnerLearns, Free, Requests
<1>16. ASSUME NEW A \in {Slots, {Owner}}, Crash(A) PROVE Fresh'
  <2>1. /\ Owner \in Actors /\ Same(Owner) /\ UNCHANGED <<disk, stage, drawn>>
        /\ req'[Owner].pc \in {req[Owner].pc, "answered"}
    BY <1>16, CrashOutcome
  <2>2. QED
    BY <2>1 DEF Same
<1>17. ASSUME NEW c \in Challenges, Expire(c) PROVE Fresh'
  BY <1>17 DEF Expire, Requests
<1>18. ASSUME LosePairing PROVE Fresh'
  BY <1>18 DEF LosePairing, Requests
<1>19. ASSUME NEW s \in Slots, Paired(s) PROVE Fresh'
  BY <1>19 DEF Paired, Free, Requests
<1>20. ASSUME NEW s \in Slots, NEW c \in Challenges, Redeem(s, c) PROVE Fresh'
  BY <1>20 DEF Redeem, Vacant, Free, Requests
<1>21. ASSUME NEW f \in Senders, Finish(f) PROVE Fresh'
  BY <1>21 DEF Finish, Resting, Requests
<1>22. ASSUME NEW f \in Senders, NEW s \in Slots, Call(f, s) PROVE Fresh'
  BY <1>22 DEF Call, Vacant, Free, Requests
<1>23. ASSUME NEW f \in Senders, NEW s \in Slots, Learn(f, s) PROVE Fresh'
  BY <1>23 DEF Learn, Acknowledge, GiveUp, Proceed, Resting, Free, Requests
<1>24. ASSUME NEW f \in Senders, Lose(f) PROVE Fresh'
  BY <1>24, LoseOutcome DEF Lose
<1>25. ASSUME NEW f \in Senders, NEW r \in Rows, Claim(f, r) PROVE Fresh'
  BY <1>25 DEF Claim, Requests
<1>26. ASSUME NEW r \in Rows, Enqueue(r) PROVE Fresh'
  BY <1>26 DEF Enqueue, Requests
<1>27. ASSUME NEW r \in Rows, LeaseExpires(r) PROVE Fresh'
  BY <1>27 DEF LeaseExpires, Requests
<1>28. CASE UNCHANGED vars
  BY <1>28 DEF vars, server, phone, owner, Fresh
<1>29. QED
    BY <1>1, <1>2, <1>3, <1>4, <1>5, <1>6, <1>7, <1>8, <1>9, <1>10, <1>11,
     <1>12, <1>13, <1>14, <1>15, <1>16, <1>17, <1>18, <1>19, <1>20, <1>21,
     <1>22, <1>23, <1>24, <1>25, <1>26, <1>27, <1>28 DEF Next, Serve, Commit,
     Read, Send

\* What a stage installs extends what it replaces.
LEMMA Extending ==
  ASSUME IInv, [Next]_vars
  PROVE  Onward'
<1> USE DEF IInv, Onward, Ready, Shapes, Stages, NoStage, server, phone,
      owner, env
<1>1. ASSUME NEW a \in Actors, Busy(a) PROVE Onward'
  BY <1>1 DEF Busy, Answer
<1>2. ASSUME NEW a \in Actors, Hold(a) PROVE Onward'
  BY <1>2, HoldFacts, HoldOutcome DEF Same
<1>3. ASSUME NEW a \in Actors, Publish(a) PROVE Onward'
  BY <1>3 DEF Publish, Goto, Committing
<1>4. ASSUME NEW a \in Actors, Mark(a) PROVE Onward'
  BY <1>4 DEF Mark, Goto, Committing
<1>5. ASSUME NEW a \in Actors, Clean(a) PROVE Onward'
  BY <1>5 DEF Clean, Goto
<1>6. ASSUME NEW a \in Actors, Respond(a) PROVE Onward'
  BY <1>6 DEF Respond, Answer
<1>7. ASSUME NEW a \in Actors, Fail(a) PROVE Onward'
  BY <1>7 DEF Fail, Answer
<1>8. ASSUME NEW s \in Slots, Guard(s) PROVE Onward'
  BY <1>8 DEF Guard, Goto, Answer
<1>9. ASSUME NEW s \in Slots, ReadRecord(s) PROVE Onward'
  BY <1>9 DEF ReadRecord
<1>10. ASSUME NEW s \in Slots, Recheck(s) PROVE Onward'
  BY <1>10 DEF Recheck, Goto, Answer
<1>11. ASSUME NEW s \in Slots, ReadAcquisition(s) PROVE Onward'
  BY <1>11 DEF ReadAcquisition, Goto
<1>12. ASSUME NEW s \in Slots, Discard(s) PROVE Onward'
  BY <1>12 DEF Discard, Free
<1>13. ASSUME Open PROVE Onward'
  BY <1>13 DEF Open
<1>14. ASSUME OwnerAsks PROVE Onward'
  BY <1>14 DEF OwnerAsks
<1>15. ASSUME OwnerLearns PROVE Onward'
  BY <1>15 DEF OwnerLearns, Free
<1>16. ASSUME NEW A \in {Slots, {Owner}}, Crash(A) PROVE Onward'
  BY <1>16, CrashOutcome DEF Same
<1>17. ASSUME NEW c \in Challenges, Expire(c) PROVE Onward'
  BY <1>17 DEF Expire
<1>18. ASSUME LosePairing PROVE Onward'
  BY <1>18 DEF LosePairing
<1>19. ASSUME NEW s \in Slots, Paired(s) PROVE Onward'
  BY <1>19 DEF Paired, Free
<1>20. ASSUME NEW s \in Slots, NEW c \in Challenges, Redeem(s, c) PROVE Onward'
  BY <1>20 DEF Redeem, Vacant, Free
<1>21. ASSUME NEW f \in Senders, Finish(f) PROVE Onward'
  BY <1>21 DEF Finish, Resting
<1>22. ASSUME NEW f \in Senders, NEW s \in Slots, Call(f, s) PROVE Onward'
  BY <1>22 DEF Call, Vacant, Free
<1>23. ASSUME NEW f \in Senders, NEW s \in Slots, Learn(f, s) PROVE Onward'
  BY <1>23 DEF Learn, Acknowledge, GiveUp, Proceed, Resting, Free
<1>24. ASSUME NEW f \in Senders, Lose(f) PROVE Onward'
  BY <1>24, LoseOutcome DEF Lose
<1>25. ASSUME NEW f \in Senders, NEW r \in Rows, Claim(f, r) PROVE Onward'
  BY <1>25 DEF Claim
<1>26. ASSUME NEW r \in Rows, Enqueue(r) PROVE Onward'
  BY <1>26 DEF Enqueue
<1>27. ASSUME NEW r \in Rows, LeaseExpires(r) PROVE Onward'
  BY <1>27 DEF LeaseExpires
<1>28. CASE UNCHANGED vars
  BY <1>28 DEF vars, server, phone, owner, Onward
<1>29. QED
    BY <1>1, <1>2, <1>3, <1>4, <1>5, <1>6, <1>7, <1>8, <1>9, <1>10, <1>11,
     <1>12, <1>13, <1>14, <1>15, <1>16, <1>17, <1>18, <1>19, <1>20, <1>21,
     <1>22, <1>23, <1>24, <1>25, <1>26, <1>27, <1>28 DEF Next, Serve, Commit,
     Read, Send

\* Nothing that recovery decides takes a committed revocation back.
LEMMA Promising ==
  ASSUME IInv, [Next]_vars
  PROVE  Promised'
<1> USE ConstantsAssumption DEF IInv, Shapes, Promised, Revoking, Committing,
      Changing, Actors, NoStage, Recovered, server, phone, owner, env
<1>1. ASSUME NEW a \in Actors, Busy(a) PROVE Promised'
  BY <1>1 DEF Busy, Answer, Requests, Stages
<1>2. ASSUME NEW a \in Actors, Hold(a) PROVE Promised'
  BY <1>2, HoldFacts, HoldOutcome DEF Same, AlreadyDone
<1>3. ASSUME NEW a \in Actors, Publish(a) PROVE Promised'
  BY <1>3 DEF Publish, Goto, Requests, Stages
<1>4. ASSUME NEW a \in Actors, Mark(a) PROVE Promised'
  BY <1>4 DEF Mark, Goto, Requests, Stages, Onward, Extends, Ready
<1>5. ASSUME NEW a \in Actors, Clean(a) PROVE Promised'
  BY <1>5 DEF Clean, Goto, Requests, Stages
<1>6. ASSUME NEW a \in Actors, Respond(a) PROVE Promised'
  BY <1>6 DEF Respond, Answer, Requests, Stages
<1>7. ASSUME NEW a \in Actors, Fail(a) PROVE Promised'
  BY <1>7 DEF Fail, Answer, Requests, Stages
<1>8. ASSUME NEW s \in Slots, Guard(s) PROVE Promised'
  BY <1>8 DEF Guard, Goto, Answer, Requests, Stages
<1>9. ASSUME NEW s \in Slots, ReadRecord(s) PROVE Promised'
  BY <1>9 DEF ReadRecord, Requests, Stages
<1>10. ASSUME NEW s \in Slots, Recheck(s) PROVE Promised'
  BY <1>10 DEF Recheck, Goto, Answer, Requests, Stages
<1>11. ASSUME NEW s \in Slots, ReadAcquisition(s) PROVE Promised'
  BY <1>11 DEF ReadAcquisition, Goto, Requests, Stages
<1>12. ASSUME NEW s \in Slots, Discard(s) PROVE Promised'
  BY <1>12 DEF Discard, Free, Requests, Stages
<1>13. ASSUME Open PROVE Promised'
  BY <1>13 DEF Open, Requests, Stages, Ready
<1>14. ASSUME OwnerAsks PROVE Promised'
  <2>1. PICK q : Asked(q)
    BY <1>14, AskOutcome
  <2>2. QED
    BY <2>1 DEF Asked
<1>15. ASSUME OwnerLearns PROVE Promised'
  BY <1>15 DEF OwnerLearns, Free, Requests, Stages
<1>16. ASSUME NEW A \in {Slots, {Owner}}, Crash(A) PROVE Promised'
  <2>1. /\ Owner \in Actors /\ Same(Owner) /\ UNCHANGED <<disk, stage, told>>
        /\ \/ req'[Owner].pc = req[Owner].pc /\ req'[Owner].seen = req[Owner].seen
           \/ req'[Owner].pc = "answered" /\ req'[Owner].seen = "error"
    BY <1>16, CrashOutcome, ZenonT(40)
  <2>2. QED
    BY <2>1 DEF Same
<1>17. ASSUME NEW c \in Challenges, Expire(c) PROVE Promised'
  BY <1>17 DEF Expire, Requests, Stages
<1>18. ASSUME LosePairing PROVE Promised'
  BY <1>18 DEF LosePairing, Requests, Stages
<1>19. ASSUME NEW s \in Slots, Paired(s) PROVE Promised'
  BY <1>19 DEF Paired, Free, Requests, Stages
<1>20. ASSUME NEW s \in Slots, NEW c \in Challenges, Redeem(s, c) PROVE Promised'
  BY <1>20 DEF Redeem, Vacant, Free, Requests, Stages
<1>21. ASSUME NEW f \in Senders, Finish(f) PROVE Promised'
  BY <1>21 DEF Finish, Resting, Requests, Stages
<1>22. ASSUME NEW f \in Senders, NEW s \in Slots, Call(f, s) PROVE Promised'
  BY <1>22 DEF Call, Vacant, Free, Requests, Stages
<1>23. ASSUME NEW f \in Senders, NEW s \in Slots, Learn(f, s) PROVE Promised'
    BY <1>23 DEF Learn, Acknowledge, GiveUp, Proceed, Resting, Free, Requests,
     Stages
<1>24. ASSUME NEW f \in Senders, Lose(f) PROVE Promised'
  BY <1>24, LoseOutcome DEF Lose
<1>25. ASSUME NEW f \in Senders, NEW r \in Rows, Claim(f, r) PROVE Promised'
  BY <1>25 DEF Claim, Requests, Stages
<1>26. ASSUME NEW r \in Rows, Enqueue(r) PROVE Promised'
  BY <1>26 DEF Enqueue, Requests, Stages
<1>27. ASSUME NEW r \in Rows, LeaseExpires(r) PROVE Promised'
  BY <1>27 DEF LeaseExpires, Requests, Stages
<1>28. CASE UNCHANGED vars
  BY <1>28 DEF vars, server, phone, owner, Promised
<1>29. QED
    BY <1>1, <1>2, <1>3, <1>4, <1>5, <1>6, <1>7, <1>8, <1>9, <1>10, <1>11,
     <1>12, <1>13, <1>14, <1>15, <1>16, <1>17, <1>18, <1>19, <1>20, <1>21,
     <1>22, <1>23, <1>24, <1>25, <1>26, <1>27, <1>28 DEF Next, Serve, Commit,
     Read, Send

-----------------------------------------------------------------------------
(* The theorems.                                                            *)

LEMMA Initially == Init => IInv
<1> SUFFICES ASSUME Init PROVE IInv
  OBVIOUS
<1> USE ConstantsAssumption
<1>1. disk \in Disks
  BY DEF Init, Disks
<1>2. req \in [Actors -> Requests] /\ \A a \in Actors : req[a] = Free
  BY DEF Init, Requests, Free
<1>3. Shapes
  BY <1>1, <1>2 DEF Shapes, Init, Free, Actors, NoStage, Reading, Changing
<1>4. Outboxes
  BY DEF Outboxes, Init, Sends, Outbox, Resting
<1>5. Awaited
  BY <1>2 DEF Awaited, Free
<1>6. Committing
  BY <1>2 DEF Committing, Init, Free, Actors, NoStage, Changing
<1>7. Views = {disk} /\ Sound(disk) /\ Known(disk) = {}
  BY DEF Views, Init, Sound, Known, Ready
<1>8. Fresh
  BY <1>2, <1>7 DEF Fresh, Actors, Free
<1>9. Onward
  BY DEF Onward, Init, Ready
<1>10. Promised
  BY <1>2 DEF Promised, Init, Revoking, Actors, Free
<1>11. QED
  BY <1>3, <1>4, <1>5, <1>6, <1>8, <1>9, <1>10 DEF IInv

LEMMA Inductive == IInv /\ [Next]_vars => IInv'
BY Typing, Sending, Awaiting, Locking, Freshness, Extending, Promising DEF IInv

LEMMA Invariance == Spec => []IInv
BY Initially, Inductive, PTL DEF Spec

\* AuthorityHolds, for every instance: the authority file stays one that
\* validate_authority accepts, a challenge pairs one device at most, and a
\* revocation the owner was told of survives every crash, failed commit and
\* recovery.
THEOREM Authority == Spec => []AuthorityHolds
<1>1. ASSUME IInv PROVE AuthorityHolds
  <2>1. disk \in Disks /\ Sound(disk) /\ \A d \in told : Recovered.devices[d] = "revoked"
    BY <1>1 DEF IInv, Shapes, Fresh, Views, Promised
  <2>2. ASSUME NEW c \in Challenges
        PROVE  Cardinality({d \in Devices : disk.from[d] = c}) <= 1
    <3> DEFINE S == {d \in Devices : disk.from[d] = c}
    <3>1. c # None
      BY ConstantsAssumption
    <3>2. CASE S = {}
      BY <3>2, FS_EmptySet
    <3>3. CASE S # {}
      <4>1. PICK x : x \in S
        BY <3>3
      <4>2. S = {x}
        BY <2>1, <3>1, <4>1 DEF Sound
      <4>3. Cardinality({x}) = 1
        BY FS_Singleton
      <4> HIDE DEF S
      <4>4. Cardinality(S) <= 1
        BY <4>2, <4>3
      <4>5. QED
        BY <4>4 DEF S
    <3>4. QED
      BY <3>2, <3>3
  <2>3. QED
    BY <2>1, <2>2 DEF AuthorityHolds
<1>2. QED
  BY <1>1, Invariance, PTL

\* Recovery adds nothing to the Instance.
LEMMA RecoveredOnly ==
  ASSUME IInv
  PROVE  Recovered.records \subseteq disk.records /\ Recovered.acquired \subseteq disk.acquired
BY DEF IInv, Committing, Onward, Extends, Recovered, Ready, NoStage

\* NothingAfterRevocation, for every instance: a record or an acquisition only
\* enters the Instance for a device that is active there, whichever request
\* passed its first guard before, is retried, crashes or is rolled back.
THEOREM Revocation == Spec => NothingAfterRevocation
<1> DEFINE New == (disk'.records \ disk.records) \cup (disk'.acquired \ disk.acquired)
           Entered == \A s \in New : Active(s[2])
<1>1. ASSUME IInv, [Next]_vars PROVE Entered
  <2>1. CASE disk' \in {disk, Recovered}
    BY <1>1, <2>1, RecoveredOnly
  <2>2. ASSUME NEW a \in Actors, Publish(a) PROVE Entered
    <3>1. disk = stage.pre /\ disk' = stage.post /\ ~Ready
      BY <1>1, <2>2 DEF IInv, Committing, Publish, Ready, NoStage
    <3>2. Extends(disk, disk')
      BY <1>1, <3>1 DEF IInv, Onward
    <3>3. QED
      BY <3>2 DEF Extends, Active
  <2>3. ASSUME NEW a \in Actors, Fail(a) PROVE disk' \in {disk, Recovered}
    BY <1>1, <2>3 DEF IInv, Committing, Fail, Recovered
  <2>4. ASSUME NEW a \in Actors, Hold(a) PROVE disk' = Recovered
    BY <2>4 DEF Hold
  <2>5. ASSUME NEW a \in Actors, Busy(a) \/ Mark(a) \/ Clean(a) \/ Respond(a)
        PROVE  disk' = disk
    BY <2>5 DEF Busy, Mark, Clean, Respond, server
  <2>6. ASSUME NEW s \in Slots, Read(s) \/ Discard(s) PROVE disk' = disk
        BY <2>6 DEF Read, Guard, ReadRecord, Recheck, ReadAcquisition, Discard,
       server
  <2>7. CASE Open
    BY <2>1, <2>7 DEF Open
  <2>8. CASE Crash(Slots) \/ Crash({Owner}) \/ OwnerAsks \/ OwnerLearns \/ LosePairing
    BY <2>1, <2>8 DEF Crash, OwnerAsks, OwnerLearns, LosePairing, server
  <2>9. CASE (\E c \in Challenges : Expire(c)) \/ \E r \in Rows : Enqueue(r) \/ LeaseExpires(r)
    BY <2>1, <2>9 DEF Expire, Enqueue, LeaseExpires, server
  <2>10. ASSUME NEW s \in Slots, Paired(s) \/ \E c \in Challenges : Redeem(s, c)
         PROVE  disk' = disk
    BY <2>10 DEF Paired, Redeem, server
  <2>11. ASSUME NEW f \in Senders, Send(f) \/ Lose(f) \/ \E r \in Rows : Claim(f, r)
         PROVE  disk' = disk
    BY <2>11 DEF Send, Finish, Call, Learn, Lose, Claim, server
  <2>12. CASE UNCHANGED vars
    BY <2>1, <2>12 DEF vars, server
  <2>13. QED
        BY <1>1, <2>1, <2>2, <2>3, <2>4, <2>5, <2>6, <2>7, <2>8, <2>9, <2>10,
       <2>11, <2>12
       DEF Next, Serve, Commit
<1>2. IInv /\ [Next]_vars => [Entered]_vars
  BY <1>1
<1>3. QED
  BY <1>2, Invariance, PTL DEF Spec, NothingAfterRevocation

-----------------------------------------------------------------------------
(* The payload: what an answer says of a record or of an acquisition.       *)

Looking(q) == q.kind = "lookup" /\ q.pc \in Reading \cup {"respond"}
Storing(q) == q.kind \in {"submit", "process"}

\* A transaction left behind that a recovery would still take back changes no
\* record and no acquisition while somebody looks one up: a submission does not
\* fail in place, and a dying server takes its lookups along.
Steady ==
  stage.status \in {"prepared", "published"} =>
    \/ stage.post.records = stage.pre.records /\ stage.post.acquired = stage.pre.acquired
    \/ lock # None /\ Storing(req[lock])
    \/ \A a \in Actors : ~Looking(req[a])

\* What a lookup has seen: on the disk as long as it may still be refused, and
\* in the Instance for good from then on.
Looked(a) ==
  req[a].kind = "lookup" =>
    /\ req[a].pc = "recheck" => req[a].seen \in {"found", "missing"}
    /\ req[a].pc = "recheck" /\ req[a].seen = "found" => Target(a) \in disk.records
    /\ req[a].pc = "acquisition" => req[a].seen = "found"
    /\ req[a].pc = "respond" => req[a].seen \in {"found", "acquired"}
    /\ req[a].pc = "respond" /\ req[a].seen = "acquired" => Target(a) \in disk.acquired
    /\ req[a].pc = "answered" => req[a].seen \in {"error", "missing", "found", "acquired"}
    /\ req[a].pc \in {"acquisition", "respond"} => Target(a) \in Recovered.records
    /\ req[a].pc = "answered" =>
         /\ req[a].seen \in {"found", "acquired"} => Target(a) \in Recovered.records
         /\ req[a].seen = "acquired" => Target(a) \in Recovered.acquired

\* A submission or an acquisition that is confirmed, or is about to be, is in
\* the Instance for good.
Stored(a) ==
  Storing(req[a]) =>
    /\ req[a].seen \in {"none", "error", "ok"}
    /\ req[a].pc = "answered" => req[a].seen # "none"
    /\ req[a].kind = "submit" =>
         /\ req[a].pc \in Changing => Target(a) \in stage.post.records
         /\ req[a].pc = "respond" \/ req[a].seen = "ok" => Target(a) \in Recovered.records
    /\ req[a].kind = "process" =>
         /\ req[a].pc \in Changing => Target(a) \in stage.post.acquired
         /\ req[a].pc = "respond" \/ req[a].seen = "ok" => Target(a) \in Recovered.acquired

\* A request is about the row of the sender that waits for it, and a sender
\* finishes a row that is acquired.
Linked ==
  /\ \A a \in Actors : req[a].sender # None =>
       /\ req[a].kind \in {"lookup", "submit", "process"}
       /\ req[a].row = send[req[a].sender].row
  /\ \A f \in Senders : send[f].pc = "finish" =>
       \E d \in Devices : <<send[f].row, d>> \in Recovered.acquired
  /\ \A r \in Rows : rows[r].state = "none" => ~rows[r].receipt

PInv ==
  /\ IInv /\ Steady /\ \A a \in Actors : Looked(a) /\ Stored(a)
  /\ Linked /\ PayloadKept

\* No submission and no acquisition raises within its commit.
NoStoringFails == FailingKinds \cap {"submit", "process"} = {}

\* Steps of the server, and those that take no part in it.
Serving ==
  \/ Open \/ Crash(Slots) \/ Crash({Owner})
  \/ \E a \in Actors : Commit(a) \/ Fail(a)
  \/ \E s \in Slots : Read(s)

\* The acting request moves, and every other one stays as it is.
Acts(a) ==
  /\ req' \in [Actors -> Requests] /\ Same(a)
  /\ \A b \in Actors \ {a} : req'[b] = req[b]

LEMMA Goes ==
  ASSUME req \in [Actors -> Requests], NEW a \in Actors, NEW pc \in Points, Goto(a, pc)
  PROVE  Acts(a) /\ req'[a].pc = pc /\ req'[a].seen = req[a].seen
<1> DEFINE q == [req[a] EXCEPT !.pc = pc]
<1>1. req' = [req EXCEPT ![a] = q] /\ q = [req[a] EXCEPT !.pc = pc]
  BY DEF Goto
<1> HIDE DEF q
<1>2. Moved(req[a], q) /\ q.pc = pc /\ q.seen = req[a].seen
  BY <1>1, RequestMoves
<1>3. QED
  BY <1>1, <1>2 DEF Acts, Same, Moved

LEMMA Sees ==
  ASSUME req \in [Actors -> Requests], NEW a \in Actors, NEW pc \in Points, NEW seen \in Answers,
         req' = [req EXCEPT ![a].pc = pc, ![a].seen = seen]
  PROVE  Acts(a) /\ req'[a].pc = pc /\ req'[a].seen = seen
<1> DEFINE q == [req[a] EXCEPT !.pc = pc, !.seen = seen]
<1>1. req' = [req EXCEPT ![a] = q] /\ q = [req[a] EXCEPT !.pc = pc, !.seen = seen]
  OBVIOUS
<1> HIDE DEF q
<1>2. q \in Requests
  BY <1>1 DEF Requests, Points, Answers
<1>3. Moved(req[a], q) /\ q.pc = pc /\ q.seen = seen
  BY <1>1, <1>2 DEF Moved, Requests
<1>4. QED
  BY <1>1, <1>3 DEF Acts, Same, Moved

LEMMA Answered ==
  ASSUME req \in [Actors -> Requests], NEW a \in Actors, NEW seen \in Answers, Answer(a, seen)
  PROVE  Acts(a) /\ req'[a].pc = "answered" /\ req'[a].seen = seen
BY Sees DEF Answer, Points

LEMMA Acting ==
  ASSUME IInv, NEW a \in Actors, Commit(a) \/ Fail(a) \/ (a \in Slots /\ Read(a))
  PROVE  Acts(a) /\ UNCHANGED <<rows, send>>
<1> USE DEF phone
<1>r. req \in [Actors -> Requests]
  BY DEF IInv, Shapes
<1>g. ASSUME NEW pc \in Points, Goto(a, pc) PROVE Acts(a)
  BY <1>r, <1>g, Goes
<1>a. ASSUME NEW seen \in Answers, Answer(a, seen) PROVE Acts(a)
  BY <1>r, <1>a, Answered
<1>s. req[a].seen \in Answers
  BY <1>r DEF Requests, Answers
<1> USE DEF Points, Answers, Reading, Changing
<1>1. CASE Busy(a)
  BY <1>1, <1>a DEF Busy
<1>2. CASE Hold(a)
  BY <1>2, HoldOutcome DEF Acts
<1>3. CASE Publish(a)
  BY <1>3, <1>g DEF Publish
<1>4. CASE Mark(a)
  BY <1>4, <1>g DEF Mark
<1>5. CASE Clean(a)
  BY <1>5, <1>g DEF Clean
<1>6. CASE Respond(a)
  BY <1>6, <1>a, <1>s DEF Respond
<1>7. CASE Fail(a)
  BY <1>7, <1>a DEF Fail
<1>8. CASE Guard(a)
  BY <1>8, <1>g, <1>a DEF Guard
<1>9. CASE ReadRecord(a)
  <2>1. PICK v \in {"found", "missing"} : req' = [req EXCEPT ![a].pc = "recheck", ![a].seen = v]
    BY <1>9 DEF ReadRecord
  <2>2. QED
    BY <1>9, <1>r, <2>1, Sees DEF ReadRecord
<1>10. CASE Recheck(a)
  BY <1>10, <1>g, <1>a DEF Recheck
<1>11. CASE ReadAcquisition(a)
  BY <1>11, <1>r, <1>g, Sees DEF ReadAcquisition
<1>12. QED
  BY <1>1, <1>2, <1>3, <1>4, <1>5, <1>6, <1>7, <1>8, <1>9, <1>10, <1>11 DEF Commit, Read

\* Every other step leaves the server alone: a request that changes is a new
\* one, or is no longer waited for.
Waiting(p, q) ==
  /\ q.kind = p.kind /\ q.row = p.row /\ q.device = p.device
  /\ q.pc = p.pc /\ q.seen = p.seen
Recent(q) == q.pc \in {"free", "start", "hold"} /\ q.seen = "none"

LEMMA OtherSteps ==
  ASSUME IInv, [Next]_vars, ~Serving
  PROVE  /\ UNCHANGED <<disk, stage, lock>>
         /\ \A a \in Actors : Waiting(req[a], req'[a]) \/ Recent(req'[a])
<1> USE DEF server, Waiting, Recent
<1>r. req \in [Actors -> Requests] /\ Owner \in Actors /\ Slots \subseteq Actors
  BY DEF IInv, Shapes, Actors
<1>f. Free.pc = "free" /\ Free.seen = "none"
  BY DEF Free
<1>1. ASSUME NEW s \in Slots, Discard(s) \/ Paired(s) \/ \E f \in Senders : Learn(f, s)
      PROVE  UNCHANGED <<disk, stage, lock>> /\ req' = [req EXCEPT ![s] = Free]
  BY <1>1 DEF Discard, Paired, Learn
<1>2. CASE OwnerAsks
  BY <1>2, <1>r, AskOutcome DEF Asked
<1>3. CASE OwnerLearns
  BY <1>3, <1>r, <1>f DEF OwnerLearns
<1>4. ASSUME NEW s \in Slots, NEW c \in Challenges, Redeem(s, c)
      PROVE  /\ UNCHANGED <<disk, stage, lock>>
             /\ \A a \in Actors : Waiting(req[a], req'[a]) \/ Recent(req'[a])
  BY <1>4, <1>r DEF Redeem, Free
<1>5. ASSUME NEW f \in Senders, NEW s \in Slots, Call(f, s)
      PROVE  /\ UNCHANGED <<disk, stage, lock>>
             /\ \A a \in Actors : Waiting(req[a], req'[a]) \/ Recent(req'[a])
  BY <1>5, <1>r DEF Call, Free
<1>6. ASSUME NEW f \in Senders, Lose(f)
      PROVE  /\ UNCHANGED <<disk, stage, lock>>
             /\ \A a \in Actors : Waiting(req[a], req'[a]) \/ Recent(req'[a])
  <2>1. \A a \in Actors : req[a] \in Requests
    BY <1>r
  <2>2. \A q \in Requests : Waiting(q, [q EXCEPT !.sender = None])
    BY DEF Requests
  <2>3. QED
    BY <1>6, <1>r, <2>1, <2>2, LoseOutcome DEF Lose
<1>7. ASSUME \/ LosePairing \/ \E c \in Challenges : Expire(c)
             \/ \E f \in Senders : Finish(f) \/ \E r \in Rows : Claim(f, r)
             \/ \E r \in Rows : Enqueue(r) \/ LeaseExpires(r)
             \/ UNCHANGED vars
      PROVE  UNCHANGED <<disk, stage, lock, req>>
  BY <1>7 DEF LosePairing, Expire, Finish, Claim, Enqueue, LeaseExpires, vars
<1> DEFINE Goal == /\ UNCHANGED <<disk, stage, lock>>
                   /\ \A a \in Actors : Waiting(req[a], req'[a]) \/ Recent(req'[a])
<1>8. ASSUME UNCHANGED <<disk, stage, lock, req>> PROVE Goal
  BY <1>8
<1>9. ASSUME NEW s \in Slots, UNCHANGED <<disk, stage, lock>>, req' = [req EXCEPT ![s] = Free]
      PROVE  Goal
  BY <1>9, <1>r, <1>f
<1> HIDE DEF Waiting, Recent
<1>10. QED
  BY <1>1, <1>2, <1>3, <1>4, <1>5, <1>6, <1>7, <1>8, <1>9 DEF Next, Serve, Send, Serving

\* Only the transaction's own steps and a recovery touch the disk and the stage.
LEMMA Untouched ==
  ASSUME IInv, [Next]_vars, ~Open,
         \A a \in Actors : ~(Hold(a) \/ Publish(a) \/ Mark(a) \/ Clean(a) \/ Fail(a))
  PROVE  UNCHANGED <<disk, stage>>
<1> USE DEF server
<1>1. ASSUME NEW a \in Actors, Busy(a) \/ Respond(a) PROVE UNCHANGED <<disk, stage>>
  BY <1>1 DEF Busy, Respond
<1>2. ASSUME NEW s \in Slots, Read(s) PROVE UNCHANGED <<disk, stage>>
  BY <1>2 DEF Read, Guard, ReadRecord, Recheck, ReadAcquisition
<1>3. CASE Crash(Slots) \/ Crash({Owner})
  BY <1>3 DEF Crash
<1>4. QED
  BY <1>1, <1>2, <1>3, OtherSteps DEF Serving, Commit

\* What a recovery would leave only grows.
LEMMA RecoveredGrows ==
  ASSUME IInv, [Next]_vars
  PROVE  /\ Recovered.records \subseteq Recovered'.records
         /\ Recovered.acquired \subseteq Recovered'.acquired
<1> USE DEF Recovered, NoStage
<1>s. stage \in Stages \cup {NoStage}
  BY DEF IInv, Shapes
<1>1. ASSUME NEW a \in Actors, Hold(a) PROVE Recovered' = Recovered
  BY <1>1, HoldOutcome
<1>2. ASSUME NEW a \in Actors, Publish(a) PROVE Recovered' = Recovered
  BY <1>2, <1>s DEF Publish, IInv, Committing, Stages
<1>3. ASSUME NEW a \in Actors, Mark(a)
      PROVE  /\ Recovered.records \subseteq Recovered'.records
             /\ Recovered.acquired \subseteq Recovered'.acquired
  <2>1. stage.status = "published" /\ disk = stage.post /\ disk' = disk /\ stage'.status = "committed"
    BY <1>3, <1>s DEF Mark, IInv, Committing, Stages
  <2>2. QED
    BY <2>1 DEF IInv, Onward, Extends, Ready
<1>4. ASSUME NEW a \in Actors, Clean(a) PROVE Recovered' = Recovered
  BY <1>4 DEF Clean, IInv, Committing
<1>5. ASSUME NEW a \in Actors, Fail(a) PROVE Recovered' = Recovered
  BY <1>5 DEF Fail, IInv, Committing
<1>6. CASE Open
  BY <1>6 DEF Open
<1>7. QED
  BY <1>1, <1>2, <1>3, <1>4, <1>5, <1>6, Untouched

\* While somebody looks something up the disk only grows as well: what is rolled
\* back in place, or recovered, took no record and no acquisition.
LEMMA DiskGrows ==
  ASSUME IInv, [Next]_vars, Steady, NoStoringFails, NEW a \in Actors, Looking(req[a])
  PROVE  disk.records \subseteq disk'.records /\ disk.acquired \subseteq disk'.acquired
<1> USE DEF Recovered, NoStage
<1>1. ASSUME lock = None, disk' = Recovered
      PROVE  disk.records \subseteq disk'.records /\ disk.acquired \subseteq disk'.acquired
  BY <1>1 DEF Steady, IInv, Committing
<1>2. ASSUME NEW b \in Actors, Publish(b)
      PROVE  disk.records \subseteq disk'.records /\ disk.acquired \subseteq disk'.acquired
  BY <1>2 DEF Publish, IInv, Committing, Onward, Extends, Ready
<1>3. ASSUME NEW b \in Actors, Fail(b)
      PROVE  disk.records \subseteq disk'.records /\ disk.acquired \subseteq disk'.acquired
  <2>1. ~Storing(req[b]) /\ lock = b
    BY <1>3 DEF Fail, NoStoringFails, Storing, IInv, Committing, Changing
  <2>2. QED
    BY <1>3, <2>1 DEF Fail, Steady, IInv, Committing
<1>4. ASSUME NEW b \in Actors, Hold(b) PROVE lock = None /\ disk' = Recovered
  BY <1>4 DEF Hold
<1>5. CASE Open
  BY <1>1, <1>5 DEF Open
<1>6. ASSUME NEW b \in Actors, Mark(b) \/ Clean(b) PROVE disk' = disk
  BY <1>6 DEF Mark, Clean
<1>7. QED
  BY <1>1, <1>2, <1>3, <1>4, <1>5, <1>6, Untouched

\* Only a submission adds a record, only an acquisition adds one.
LEMMA CandidateKeeps ==
  ASSUME NEW a \in Actors, req[a].kind \in Kinds \ {"submit", "process"}, NEW d \in Disks
  PROVE  Candidate(a, d).records = d.records /\ Candidate(a, d).acquired = d.acquired
BY DEF Candidate, Kinds, OwnerKinds, SlotKinds, Challenged, Redeemed, RevokedOne, Configured, Disks

LEMMA Steadying ==
  ASSUME IInv, [Next]_vars, Steady, NoStoringFails
  PROVE  Steady'
<1> USE DEF Steady
<1>i. IInv'
  BY Inductive
<1>k. /\ None \notin Actors /\ Owner \in Actors /\ Slots \subseteq Actors
      /\ req \in [Actors -> Requests] /\ lock \in Actors \cup {None}
  BY ConstantsAssumption DEF IInv, Shapes, Actors
<1>t. stage \in Stages \cup {NoStage}
  BY DEF IInv, Shapes
<1>o. ~Looking(req[Owner]) /\ ~Looking(req'[Owner]) /\ ~Storing(req[Owner])
  BY <1>i DEF IInv, Shapes, OwnerKinds, Looking, Storing
<1>s. ASSUME stage' = stage, lock' = lock, \A a \in Actors : Same(a),
             \A a \in Actors : Looking(req'[a]) => Looking(req[a])
      PROVE  Steady'
  BY <1>k, <1>s DEF Storing, Same
<1>e. ASSUME stage'.status \notin {"prepared", "published"} PROVE Steady'
  BY <1>e
<1>n. NoStage.status \notin {"prepared", "published"}
  BY DEF NoStage
<1>1. ASSUME NEW a \in Actors, Hold(a) PROVE Steady'
  <2>1. CASE stage' = NoStage
    BY <1>e, <1>n, <2>1
  <2>2. CASE /\ stage'.pre = Recovered /\ stage'.post = Candidate(a, Recovered) /\ lock' = a
    <3>1. CASE Storing(req[a])
      BY <1>1, <1>k, <2>2, <3>1, HoldOutcome DEF Same, Storing
    <3>2. CASE ~Storing(req[a])
      <4>1. req[a].kind \in Kinds \ {"submit", "process"}
        BY <1>1, <3>2 DEF IInv, Shapes, Hold, Kinds, Actors, Changing, OwnerKinds, SlotKinds, Storing
      <4>2. Recovered \in Disks
        BY <1>1, HoldFacts
      <4>3. QED
        BY <2>2, <4>1, <4>2, CandidateKeeps
    <3>3. QED
      BY <3>1, <3>2
  <2>3. QED
    BY <1>1, <2>1, <2>2, HoldOutcome
<1>2. ASSUME NEW a \in Actors, Publish(a) PROVE Steady'
  <2>1. Acts(a) /\ req'[a].pc = "mark"
    BY <1>2, <1>k, Goes DEF Publish, Points, Changing
  <2>2. /\ stage.status = "prepared" /\ stage'.pre = stage.pre /\ stage'.post = stage.post
        /\ lock' = lock
    BY <1>2, <1>t DEF IInv, Committing, Publish, Stages, NoStage
  <2>3. QED
    BY <1>k, <2>1, <2>2 DEF Acts, Same, Looking, Storing, Reading
<1>3. ASSUME NEW a \in Actors, Mark(a) PROVE Steady'
  BY <1>3, <1>e, <1>t DEF IInv, Committing, Mark, Stages, NoStage
<1>4. ASSUME NEW a \in Actors, Clean(a) PROVE Steady'
  BY <1>4, <1>e, <1>n DEF IInv, Committing, Clean
<1>5. ASSUME NEW a \in Actors, Fail(a) PROVE Steady'
  <2>1. CASE stage' = NoStage
    BY <1>e, <1>n, <2>1
  <2>2. CASE stage' = stage
    <3>1. Acts(a) /\ req'[a].pc = "answered"
      BY <1>5, <1>k, Answered DEF Fail, Answers
    <3>2. lock = a /\ ~Storing(req[a])
      BY <1>5 DEF Fail, NoStoringFails, Storing, IInv, Committing, Changing
    <3>3. QED
      BY <2>2, <3>1, <3>2 DEF Acts, Looking, Reading
  <2>3. QED
    BY <1>5, <2>1, <2>2 DEF Fail
<1>6. CASE Open
  BY <1>6, <1>e, <1>n DEF Open
<1>7. CASE Crash(Slots)
  <2>1. \A a \in Slots : req'[a].pc \in {"answered", "free"}
    BY <1>7, <1>k, CrashOutcome
  <2>2. \A a \in Actors : ~Looking(req'[a])
    BY <1>o, <2>1 DEF Actors, Looking, Reading
  <2>3. QED
    BY <2>2
<1>8. CASE Crash({Owner})
  <2>1. /\ stage' = stage /\ lock' \in {lock, None} /\ (lock # Owner => lock' = lock)
        /\ \A a \in Actors : Same(a)
        /\ \A a \in Actors \ {Owner} : req'[a] = req[a]
    BY <1>8, <1>k, CrashOutcome
  <2>2. \A a \in Actors : Looking(req'[a]) => Looking(req[a])
    BY <1>o, <2>1
  <2>3. CASE lock # Owner
    BY <1>s, <2>1, <2>2, <2>3
  <2>4. CASE lock = Owner
    BY <1>o, <2>1, <2>2, <2>4
  <2>5. QED
    BY <2>3, <2>4
<1>9. ASSUME NEW a \in Actors, Busy(a) \/ Respond(a) PROVE Steady'
  <2>1. Acts(a) /\ req'[a].pc = "answered"
    <3>1. req[a].seen \in Answers
      BY <1>k DEF Requests, Answers
    <3>2. \E v \in Answers : Answer(a, v)
      BY <1>9, <3>1 DEF Busy, Respond, Answers
    <3>3. QED
      BY <1>k, <3>2, Answered
  <2>2. stage' = stage /\ lock' = lock
    BY <1>9 DEF Busy, Respond, server
  <2>3. QED
    BY <1>s, <2>1, <2>2 DEF Acts, Same, Looking, Reading
<1>10. ASSUME NEW s \in Slots, Guard(s) PROVE Steady'
  <2>1. Acts(s) /\ stage' = stage /\ lock' = lock
    BY <1>10, <1>k, Acting DEF Guard, Read, server
  <2>2. CASE Ready
    BY <1>e, <1>n, <2>1, <2>2 DEF Ready
  <2>3. CASE ~Ready
    <3>1. ~Looking(req'[s])
      <4>1. CASE req[s].kind = "redeem"
        BY <2>1, <4>1 DEF Acts, Same, Looking
      <4>2. CASE req[s].kind # "redeem"
        <5>1. Answer(s, "error")
          BY <1>10, <2>3, <4>2 DEF Guard, Authorized
        <5>2. QED
          BY <1>k, <5>1, Answered DEF Answers, Looking, Reading
      <4>3. QED
        BY <4>1, <4>2
    <3>2. QED
      BY <1>s, <2>1, <3>1 DEF Acts, Same
  <2>4. QED
    BY <2>2, <2>3
<1>11. ASSUME NEW s \in Slots, ReadRecord(s) \/ Recheck(s) \/ ReadAcquisition(s) PROVE Steady'
  <2>1. Acts(s) /\ stage' = stage /\ lock' = lock
    BY <1>11, <1>k, Acting DEF ReadRecord, Recheck, ReadAcquisition, Read, server
  <2>2. Looking(req[s])
    BY <1>11, <1>k DEF ReadRecord, Recheck, ReadAcquisition, IInv, Shapes, Looking, Reading
  <2>3. QED
    BY <1>s, <2>1, <2>2 DEF Acts, Same
<1>12. CASE ~Serving
  <2>1. /\ stage' = stage /\ lock' = lock
        /\ \A a \in Actors : Waiting(req[a], req'[a]) \/ Recent(req'[a])
    BY <1>12, OtherSteps
  <2>2. lock # None => ~Recent(req'[lock])
    BY <1>i, <1>k, <2>1 DEF IInv, Committing, Recent, Changing
  <2>3. \A a \in Actors : Looking(req'[a]) => Looking(req[a])
    BY <2>1 DEF Waiting, Recent, Looking, Reading
  <2>4. lock # None => (Storing(req[lock]) => Storing(req'[lock]))
    BY <1>k, <2>1, <2>2 DEF Waiting, Storing
  <2>5. QED
    BY <2>1, <2>3, <2>4
<1>13. QED
  BY <1>1, <1>2, <1>3, <1>4, <1>5, <1>6, <1>7, <1>8, <1>9, <1>10, <1>11, <1>12
     DEF Serving, Commit, Read

LEMMA Lookups ==
  ASSUME IInv, [Next]_vars, Steady, NoStoringFails, NEW a \in Actors, Looked(a)
  PROVE  Looked(a)'
<1> USE DEF Looked, Target
<1>k. /\ Owner \in Actors /\ Slots \subseteq Actors /\ req \in [Actors -> Requests]
      /\ req[Owner].kind # "lookup" /\ req[a].seen \in Answers
  BY DEF IInv, Shapes, Actors, OwnerKinds, Requests, Answers
<1>1. ASSUME Waiting(req[a], req'[a]) PROVE Looked(a)'
  <2>1. SUFFICES ASSUME req[a].kind = "lookup" PROVE Looked(a)'
    BY <1>1 DEF Waiting
  <2>2. /\ Recovered.records \subseteq Recovered'.records
        /\ Recovered.acquired \subseteq Recovered'.acquired
    BY RecoveredGrows
  <2>3. req[a].pc \in {"recheck", "respond"} =>
          disk.records \subseteq disk'.records /\ disk.acquired \subseteq disk'.acquired
    BY <2>1, DiskGrows DEF Looking, Reading
  <2> HIDE DEF Target
  <2>4. Target(a)' = Target(a)
    BY <1>1 DEF Waiting, Target
  <2>5. QED
    BY <1>1, <2>1, <2>2, <2>3, <2>4 DEF Waiting
<1>2. ASSUME \/ req'[a].kind # "lookup" \/ Recent(req'[a]) \/ req'[a].pc = "record"
             \/ req'[a].pc = "answered" /\ req'[a].seen = "error"
      PROVE  Looked(a)'
  BY <1>2 DEF Recent
<1>3. ASSUME req'[a] = req[a] PROVE Looked(a)'
  BY <1>1, <1>3 DEF Waiting
<1>4. ASSUME NEW b \in Actors \ {a}, Commit(b) \/ Fail(b) \/ (b \in Slots /\ Read(b))
      PROVE  Looked(a)'
  BY <1>3, <1>4, Acting DEF Acts
<1>5. ASSUME Busy(a) \/ Hold(a) \/ Publish(a) \/ Mark(a) \/ Clean(a) \/ Fail(a)
      PROVE  Looked(a)'
  <2>1. req[a].kind # "lookup"
    BY <1>5 DEF Busy, Hold, Publish, Mark, Clean, Fail, IInv, Shapes, Changing
  <2>2. Same(a)
    BY <1>5, Acting DEF Commit, Acts
  <2>3. QED
    BY <1>2, <2>1, <2>2 DEF Same
<1>r. Ready => Recovered = disk
  BY DEF Ready, Recovered, NoStage
<1>u. ASSUME UNCHANGED <<disk, stage>> PROVE Recovered' = Recovered
  BY <1>u DEF Recovered
<1>6. ASSUME Respond(a) PROVE Looked(a)'
  <2>1. Acts(a) /\ UNCHANGED <<disk, stage>>
    BY <1>6, Acting DEF Commit, Respond, server
  <2>2. SUFFICES ASSUME req[a].kind = "lookup" PROVE Looked(a)'
    BY <1>2, <2>1 DEF Acts, Same
  <2>3. CASE Authorized(a) /\ Answer(a, req[a].seen)
    <3>1. req'[a].pc = "answered" /\ req'[a].seen = req[a].seen
      BY <1>k, <2>3, Answered
    <3>2. Recovered = disk /\ Recovered' = Recovered
      BY <1>r, <1>u, <2>1, <2>3 DEF Authorized
    <3>3. QED
      BY <1>6, <2>1, <2>2, <3>1, <3>2 DEF Respond, Acts, Same
  <2>4. CASE Answer(a, "error")
    BY <1>2, <1>k, <2>4, Answered DEF Answers
  <2>5. QED
    BY <1>6, <1>k, <2>2, <2>3, <2>4 DEF Respond
<1>7. ASSUME Guard(a) PROVE Looked(a)'
  <2>1. CASE Goto(a, IF req[a].kind = "lookup" THEN "record" ELSE "hold")
    <3>1. CASE req[a].kind = "lookup"
      BY <1>2, <1>k, <2>1, <3>1, Goes DEF Points, Reading
    <3>2. CASE req[a].kind # "lookup"
      BY <1>2, <1>k, <2>1, <3>2, Goes DEF Points, Acts, Same
    <3>3. QED
      BY <3>1, <3>2
  <2>2. CASE Answer(a, "error")
    BY <1>2, <1>k, <2>2, Answered DEF Answers
  <2>3. QED
    BY <1>7, <2>1, <2>2 DEF Guard
<1>8. ASSUME ReadRecord(a) PROVE Looked(a)'
  <2> DEFINE v == IF Target(a) \in disk.records THEN "found" ELSE "missing"
  <2>1. req' = [req EXCEPT ![a].pc = "recheck", ![a].seen = v] /\ disk' = disk
    BY <1>8 DEF ReadRecord, server
  <2>2. v \in {"found", "missing"} /\ (v = "found" => Target(a) \in disk.records)
    OBVIOUS
  <2> HIDE DEF v
  <2>3. Acts(a) /\ req'[a].pc = "recheck" /\ req'[a].seen = v
    BY <1>k, <2>1, <2>2, Sees DEF Points, Reading, Answers
  <2>4. QED
    BY <2>1, <2>2, <2>3 DEF Acts, Same
<1>9. ASSUME Recheck(a) PROVE Looked(a)'
  <2>1. req[a].kind = "lookup" /\ UNCHANGED <<disk, stage>>
    BY <1>9 DEF Recheck, IInv, Shapes, Reading, server
  <2>2. CASE Answer(a, "error")
    BY <1>2, <1>k, <2>2, Answered DEF Answers
  <2>3. CASE Answer(a, "missing")
    <3>1. req'[a].pc = "answered" /\ req'[a].seen = "missing"
      BY <1>k, <2>3, Answered DEF Answers
    <3>2. QED
      BY <3>1
  <2>4. CASE Ready /\ req[a].seen # "missing" /\ Goto(a, "acquisition")
    <3>1. Acts(a) /\ req'[a].pc = "acquisition" /\ req'[a].seen = req[a].seen
      BY <1>k, <2>4, Goes DEF Points, Reading
    <3>2. Recovered' = disk
      BY <1>r, <1>u, <2>1, <2>4
    <3>3. QED
      BY <1>9, <2>1, <2>4, <3>1, <3>2 DEF Recheck, Acts, Same
  <2>5. QED
    BY <1>9, <2>2, <2>3, <2>4 DEF Recheck
<1>10. ASSUME ReadAcquisition(a) PROVE Looked(a)'
  <2>1. req[a].kind = "lookup" /\ UNCHANGED <<disk, stage>>
    BY <1>10 DEF ReadAcquisition, IInv, Shapes, Reading, server
  <2>2. PICK v \in {"acquired", req[a].seen} :
          /\ Acts(a) /\ req'[a].pc = "respond" /\ req'[a].seen = v
          /\ v = "acquired" => Target(a) \in disk.acquired \/ req[a].seen = "acquired"
    <3>1. CASE Target(a) \in disk.acquired
      BY <1>10, <1>k, <3>1, Sees DEF ReadAcquisition, Points, Answers
    <3>2. CASE Target(a) \notin disk.acquired
      BY <1>10, <1>k, <3>2, Goes DEF ReadAcquisition, Points
    <3>3. QED
      BY <3>1, <3>2
  <2>3. Recovered' = Recovered
    BY <1>u, <2>1
  <2>4. QED
    BY <1>10, <2>1, <2>2, <2>3 DEF ReadAcquisition, Acts, Same
<1>11. ASSUME NEW A \in {Slots, {Owner}}, Crash(A) PROVE Looked(a)'
  <2>1. \/ req'[a] = req[a]
        \/ req'[a].pc = "answered" /\ req'[a].seen = "error"
    BY <1>11, <1>k, CrashOutcome
  <2>2. QED
    BY <1>2, <1>3, <2>1
<1>12. CASE ~Serving
  BY <1>1, <1>2, <1>12, OtherSteps
<1>13. CASE Open
  BY <1>3, <1>13 DEF Open
<1> HIDE DEF Looked
<1>14. QED
  <2>1. ASSUME NEW b \in Actors, Commit(b) \/ Fail(b) PROVE Looked(a)'
    BY <1>4, <1>5, <1>6, <2>1 DEF Commit
  <2>2. ASSUME NEW s \in Slots, Read(s) PROVE Looked(a)'
    BY <1>k, <1>4, <1>7, <1>8, <1>9, <1>10, <2>2 DEF Read
  <2>3. QED
    BY <1>11, <1>12, <1>13, <2>1, <2>2 DEF Serving

LEMMA Confirmations ==
  ASSUME IInv, [Next]_vars, NEW a \in Actors, Stored(a)
  PROVE  Stored(a)'
<1> USE DEF Stored, Target
<1>k. /\ None \notin Actors /\ Owner \in Actors /\ Slots \subseteq Actors
      /\ req \in [Actors -> Requests] /\ ~Storing(req[Owner])
  BY ConstantsAssumption DEF IInv, Shapes, Actors, OwnerKinds, Storing
<1>t. stage \in Stages \cup {NoStage}
  BY DEF IInv, Shapes
<1>g. /\ Recovered.records \subseteq Recovered'.records
      /\ Recovered.acquired \subseteq Recovered'.acquired
  BY RecoveredGrows
<1>1. ASSUME Waiting(req[a], req'[a]), req[a].pc \in Changing => stage' = stage
      PROVE  Stored(a)'
  BY <1>1, <1>g DEF Waiting, Storing
<1>2. ASSUME \/ ~Storing(req'[a]) \/ Recent(req'[a])
             \/ req'[a].pc = "answered" /\ req'[a].seen = "error"
      PROVE  Stored(a)'
  BY <1>2 DEF Recent, Changing
<1>3. ASSUME req'[a] = req[a], req[a].pc \in Changing => stage' = stage
      PROVE  Stored(a)'
  BY <1>1, <1>3 DEF Waiting
<1>l. req[a].pc \in Changing => lock = a
  BY DEF IInv, Committing
<1>4. ASSUME NEW b \in Actors \ {a}, Commit(b) \/ Fail(b) \/ (b \in Slots /\ Read(b))
      PROVE  Stored(a)'
  <2>1. req'[a] = req[a]
    BY <1>4, Acting DEF Acts
  <2>2. ASSUME lock = a PROVE stage' = stage
    <3>1. req[b].pc \notin Changing
      BY <2>2 DEF IInv, Committing
    <3>2. ~Hold(b) /\ ~Publish(b) /\ ~Mark(b) /\ ~Clean(b) /\ ~Fail(b)
      BY <1>k, <2>2, <3>1 DEF Hold, Publish, Mark, Clean, Fail, Changing
    <3>3. QED
      BY <1>4, <3>2 DEF Commit, Busy, Respond, Read, Guard, ReadRecord, Recheck, ReadAcquisition, server
  <2>3. QED
    BY <1>3, <1>l, <2>1, <2>2
<1>5. ASSUME Busy(a) PROVE Stored(a)'
  BY <1>2, <1>5, <1>k, Answered DEF Busy, Answers
<1>6. ASSUME Hold(a) PROVE Stored(a)'
  <2>1. SUFFICES ASSUME Storing(req[a]) PROVE Stored(a)'
    BY <1>2, <1>6, HoldOutcome DEF Same, Storing
  <2>2. Same(a) /\ disk' = Recovered /\ Recovered \in Disks
    BY <1>6, HoldOutcome, HoldFacts
  <2>3. CASE req'[a].pc = "answered" /\ req'[a].seen = "error"
    BY <1>2, <2>3
  <2>4. CASE /\ stage' = NoStage /\ AlreadyDone(a, Recovered)
             /\ req'[a].pc = "respond" /\ req'[a].seen = req[a].seen
    <3>1. Recovered' = Recovered
      BY <2>2, <2>4 DEF Recovered, NoStage
    <3>2. /\ req[a].kind = "submit" => Target(a) \in Recovered.records
          /\ req[a].kind = "process" => Target(a) \in Recovered.acquired
      BY <2>4 DEF AlreadyDone
    <3>3. QED
      BY <2>1, <2>2, <2>4, <3>1, <3>2 DEF Same, Storing, Changing
  <2>5. CASE /\ stage'.post = Candidate(a, Recovered)
             /\ req'[a].pc = "publish" /\ req'[a].seen = req[a].seen
    <3>1. /\ req[a].kind = "submit" => Target(a) \in Candidate(a, Recovered).records
          /\ req[a].kind = "process" => Target(a) \in Candidate(a, Recovered).acquired
      BY <2>2 DEF Candidate, Submitted, Acquired, Disks
    <3>2. QED
      BY <1>g, <2>1, <2>2, <2>5, <3>1 DEF Same, Storing
  <2>6. QED
    BY <1>6, <2>3, <2>4, <2>5, HoldOutcome
<1>7. ASSUME Publish(a) \/ Mark(a) PROVE Stored(a)'
  <2>1. /\ Acts(a) /\ req'[a].pc \in {"mark", "clean"} /\ req'[a].seen = req[a].seen
        /\ req[a].pc \in Changing
    BY <1>7, <1>k, Goes DEF Publish, Mark, Points, Changing
  <2>2. stage'.post = stage.post
    BY <1>7, <1>t DEF Publish, Mark, IInv, Committing, Stages, NoStage
  <2>3. QED
    BY <1>g, <2>1, <2>2 DEF Acts, Same, Storing
<1>8. ASSUME Clean(a) PROVE Stored(a)'
  <2>1. /\ Acts(a) /\ req'[a].pc = "respond" /\ req'[a].seen = req[a].seen
        /\ req[a].pc \in Changing
    BY <1>8, <1>k, Goes DEF Clean, Points, Changing
  <2>2. Recovered' = stage.post
    BY <1>8 DEF Clean, IInv, Committing, Recovered, NoStage
  <2>3. QED
    BY <1>g, <2>1, <2>2 DEF Acts, Same, Storing, Changing
<1>9. ASSUME Respond(a) PROVE Stored(a)'
  <2>1. SUFFICES ASSUME Storing(req[a]) PROVE Stored(a)'
    BY <1>2, <1>9, Acting DEF Commit, Acts, Same, Storing
  <2>2. PICK v \in {"ok", "error"} : Answer(a, v)
    BY <1>9, <1>k, <2>1 DEF Respond, Storing
  <2>3. Acts(a) /\ req'[a].pc = "answered" /\ req'[a].seen = v
    BY <1>k, <2>2, Answered DEF Answers
  <2>4. req[a].pc = "respond"
    BY <1>9 DEF Respond
  <2>5. QED
    BY <1>g, <2>1, <2>3, <2>4 DEF Acts, Same, Storing, Changing
<1>10. ASSUME Fail(a) PROVE Stored(a)'
  BY <1>2, <1>10, <1>k, Answered DEF Fail, Answers
<1>11. ASSUME a \in Slots, Guard(a) PROVE Stored(a)'
  <2>1. CASE Answer(a, "error")
    BY <1>2, <1>k, <2>1, Answered DEF Answers
  <2>2. CASE Goto(a, IF req[a].kind = "lookup" THEN "record" ELSE "hold")
    <3>1. SUFFICES ASSUME req[a].kind # "lookup" PROVE Stored(a)'
      BY <1>2, <1>11, Acting DEF Read, Acts, Same, Storing
    <3>2. Acts(a) /\ req'[a].pc = "hold" /\ req'[a].seen = req[a].seen
      BY <1>k, <2>2, <3>1, Goes DEF Points
    <3>3. QED
      BY <1>g, <1>11, <3>2 DEF Acts, Same, Storing, Changing
  <2>3. QED
    BY <1>11, <2>1, <2>2 DEF Guard
<1>12. ASSUME a \in Slots, ReadRecord(a) \/ Recheck(a) \/ ReadAcquisition(a) PROVE Stored(a)'
  <2>1. req[a].kind = "lookup"
    BY <1>12 DEF ReadRecord, Recheck, ReadAcquisition, IInv, Shapes, Reading
  <2>2. QED
    BY <1>2, <1>12, <2>1, Acting DEF Read, Acts, Same, Storing
<1>13. ASSUME NEW A \in {Slots, {Owner}}, Crash(A) PROVE Stored(a)'
  <2>1. \/ req'[a] = req[a] /\ stage' = stage
        \/ req'[a].pc = "answered" /\ req'[a].seen = "error"
    BY <1>13, <1>k, CrashOutcome
  <2>2. QED
    BY <1>2, <1>3, <2>1
<1>14. CASE ~Serving
  BY <1>1, <1>2, <1>14, OtherSteps
<1>15. CASE Open
  BY <1>k, <1>l, <1>3, <1>15 DEF Open
<1> HIDE DEF Stored
<1>16. ASSUME NEW b \in Actors, Commit(b) \/ Fail(b) PROVE Stored(a)'
  BY <1>4, <1>5, <1>6, <1>7, <1>8, <1>9, <1>10, <1>16 DEF Commit
<1>17. ASSUME NEW s \in Slots, Read(s) PROVE Stored(a)'
  BY <1>k, <1>4, <1>11, <1>12, <1>17 DEF Read
<1>18. QED
  BY <1>13, <1>14, <1>15, <1>16, <1>17 DEF Serving

-----------------------------------------------------------------------------
(* The payload: what the browser makes of the answers.                      *)

\* A row that claims nothing it did not claim before.
Humble(p, q) ==
  /\ q.receipt => p.receipt /\ q.device = p.device
  /\ q.state = "acquired" => p.state = "acquired"
  /\ q.state = "none" => p.state = "none"

RowsLinked == \A r \in Rows : rows[r].state = "none" => ~rows[r].receipt

LEMMA RowsKept ==
  ASSUME IInv, [Next]_vars, PayloadKept, RowsLinked, \A r \in Rows : Humble(rows[r], rows'[r])
  PROVE  PayloadKept' /\ RowsLinked'
<1>1. RowsLinked'
  BY DEF RowsLinked, Humble
<1>2. PayloadKept'
  BY RecoveredGrows DEF PayloadKept, Humble
<1>3. QED
  BY <1>1, <1>2

\* A sender that only goes on with its row, or rests.
Finishers == \A f \in Senders : send[f].pc = "finish" =>
               \E d \in Devices : <<send[f].row, d>> \in Recovered.acquired

LEMMA FinishersKept ==
  ASSUME IInv, [Next]_vars, Finishers,
         \A f \in Senders : send'[f].pc = "finish" => send'[f] = send[f]
  PROVE  Finishers'
BY RecoveredGrows DEF Finishers

\* A request that keeps its subject, for a sender that keeps its row.
Requested == \A a \in Actors : req[a].sender # None =>
               /\ req[a].kind \in {"lookup", "submit", "process"}
               /\ req[a].row = send[req[a].sender].row

LEMMA RequestedKept ==
  ASSUME Requested,
         \A a \in Actors : \/ req'[a].sender = None
                           \/ Same(a) /\ send'[req[a].sender].row = send[req[a].sender].row
  PROVE  Requested'
BY DEF Requested, Same

LEMMA GivesUp ==
  ASSUME Outboxes, NEW f \in Senders, send[f].row \in Rows, GiveUp(f)
  PROVE  /\ \A r \in Rows : Humble(rows[r], rows'[r])
         /\ send' = [send EXCEPT ![f] = Resting]
<1>1. rows \in [Rows -> Outbox]
  BY DEF Outboxes
<1>2. \A x \in Outbox : Humble(x, x) /\ Humble(x, [x EXCEPT !.leased = FALSE, !.state = "attention"])
  BY DEF Humble, Outbox
<1>3. /\ \/ rows' = rows
         \/ rows' = [rows EXCEPT ![send[f].row] =
                       [rows[send[f].row] EXCEPT !.leased = FALSE, !.state = "attention"]]
      /\ send' = [send EXCEPT ![f] = Resting]
  BY DEF GiveUp
<1>4. QED
  BY <1>1, <1>2, <1>3

\* What the answer tells is in the Instance for good, and so is the receipt.
LEMMA Learning ==
  ASSUME PInv, [Next]_vars, NEW f \in Senders, NEW s \in Slots, Learn(f, s)
  PROVE  PayloadKept' /\ Linked'
<1> USE DEF Humble
<1>k. /\ IInv /\ Outboxes /\ rows \in [Rows -> Outbox] /\ send \in [Senders -> Sends]
      /\ req \in [Actors -> Requests] /\ s \in Actors /\ None \notin Senders
      /\ PayloadKept /\ RowsLinked /\ Finishers /\ Requested /\ Looked(s) /\ Stored(s)
      /\ Linked' = (Requested' /\ Finishers' /\ RowsLinked')
  BY ConstantsAssumption
     DEF PInv, IInv, Shapes, Outboxes, Actors, Linked, RowsLinked, Finishers, Requested
<1>w. /\ req[s].sender = f /\ req[s].pc = "answered" /\ send[f].pc = "wait"
      /\ send[f].row = req[s].row /\ send[f].row \in Rows
      /\ req[s].kind \in {"lookup", "submit", "process"} /\ req[s].device \in Devices
  BY <1>k DEF Learn, IInv, Shapes, Awaited, Outboxes, Requested
<1>q. /\ req' = [req EXCEPT ![s] = Free] /\ Free.sender = None
      /\ \A a \in Actors \ {s} : req[a].sender # f
  BY <1>k, <1>w DEF Learn, Free, IInv, Awaited
<1>1. ASSUME \/ send' = [send EXCEPT ![f] = Resting]
             \/ \E pc \in {"submit", "process", "finish"} : send' = [send EXCEPT ![f].pc = pc]
      PROVE  /\ Requested'
             /\ \A g \in Senders \ {f} : send'[g] = send[g]
  <2>1. \A g \in Senders \ {f} : send'[g] = send[g]
    BY <1>1, <1>k
  <2>2. \A a \in Actors : req[a].sender \in Senders \cup {None}
    BY <1>k DEF Requests
  <2>3. QED
    BY <1>k, <1>q, <2>1, <2>2, RequestedKept DEF Same
<1>2. ASSUME GiveUp(f) PROVE PayloadKept' /\ Linked'
  <2>1. /\ \A r \in Rows : Humble(rows[r], rows'[r])
        /\ send' = [send EXCEPT ![f] = Resting]
    BY <1>2, <1>k, <1>w, GivesUp
  <2>2. \A g \in Senders : send'[g].pc = "finish" => send'[g] = send[g]
    BY <1>1, <1>k, <2>1 DEF Resting
  <2>3. QED
    BY <1>1, <1>k, <2>1, <2>2, RowsKept, FinishersKept
<1>3. ASSUME NEW pc \in {"submit", "process", "finish"}, Proceed(f, pc),
             pc = "finish" => \E d \in Devices : <<send[f].row, d>> \in Recovered.acquired
      PROVE  Requested' /\ Finishers'
  <2>1. send' = [send EXCEPT ![f].pc = pc]
    BY <1>3 DEF Proceed
  <2>2. send'[f].row = send[f].row /\ send'[f].pc = pc
    BY <1>k, <2>1 DEF Sends
  <2>3. Finishers'
    BY <1>1, <1>3, <1>k, <2>1, <2>2, RecoveredGrows DEF Finishers
  <2>4. QED
    BY <1>1, <2>1, <2>3
<1>4. ASSUME NEW pc \in {"process", "finish"}, Acknowledge(f, s, pc),
             Target(s) \in Recovered.records, pc = "finish" => Target(s) \in Recovered.acquired
      PROVE  PayloadKept' /\ Linked'
  <2>1. SUFFICES ASSUME Verified(f, s) PROVE PayloadKept' /\ Linked'
    BY <1>2, <1>4 DEF Acknowledge
  <2> DEFINE r == send[f].row
             x == [rows[r] EXCEPT !.state = "acknowledged", !.receipt = TRUE]
  <2>2. rows' = [rows EXCEPT ![r] = x] /\ Proceed(f, pc)
    BY <1>4, <2>1 DEF Acknowledge
  <2>3. x.state = "acknowledged" /\ x.receipt = TRUE /\ x.device = rows[r].device
    BY <1>k, <1>w DEF Outbox
  <2>4. Target(s) = <<r, rows[r].device>>
    BY <1>w, <2>1 DEF Target, Verified
  <2> HIDE DEF x
  <2>5. Requested' /\ Finishers'
    BY <1>3, <1>4, <1>w, <2>2, <2>4 DEF Target
  <2>6. RowsLinked'
    BY <1>k, <1>w, <2>2, <2>3 DEF RowsLinked
  <2>7. PayloadKept'
    BY <1>4, <1>k, <1>w, <2>2, <2>3, <2>4, RecoveredGrows DEF PayloadKept
  <2>8. QED
    BY <1>k, <2>5, <2>6, <2>7
<1>5. ASSUME NEW pc \in {"submit", "finish"}, Proceed(f, pc), rows' = rows,
             pc = "finish" => Target(s) \in Recovered.acquired
      PROVE  PayloadKept' /\ Linked'
  <2>1. Requested' /\ Finishers'
    BY <1>3, <1>5, <1>w DEF Target
  <2>2. PayloadKept' /\ RowsLinked'
    BY <1>5, <1>k, RowsKept
  <2>3. QED
    BY <1>k, <2>1, <2>2
<1>6. CASE req[s].seen = "error"
  BY <1>2, <1>6 DEF Learn
<1>7. CASE req[s].kind = "lookup" /\ req[s].seen = "found"
  <2>1. Acknowledge(f, s, "process")
    BY <1>7 DEF Learn
  <2>2. QED
    BY <1>4, <1>7, <1>k, <1>w, <2>1 DEF Looked
<1>8. CASE req[s].kind = "lookup" /\ req[s].seen = "acquired"
  <2>1. Acknowledge(f, s, "finish")
    BY <1>8 DEF Learn
  <2>2. QED
    BY <1>4, <1>8, <1>k, <1>w, <2>1 DEF Looked
<1>9. CASE req[s].kind = "lookup" /\ req[s].seen = "missing"
  <2>1. GiveUp(f) \/ (Proceed(f, "submit") /\ rows' = rows)
    BY <1>9 DEF Learn
  <2>2. QED
    BY <1>2, <1>5, <2>1
<1>10. CASE req[s].kind = "submit" /\ req[s].seen = "ok"
  <2>1. Acknowledge(f, s, "process")
    BY <1>10 DEF Learn
  <2>2. QED
    BY <1>4, <1>10, <1>k, <2>1 DEF Stored, Storing
<1>11. CASE req[s].kind = "process" /\ req[s].seen = "ok"
  <2>1. Proceed(f, "finish") /\ rows' = rows
    BY <1>11 DEF Learn
  <2>2. QED
    BY <1>5, <1>11, <1>k, <2>1 DEF Stored, Storing
<1>12. \/ req[s].seen = "error"
       \/ req[s].kind = "lookup" /\ req[s].seen \in {"found", "acquired", "missing"}
       \/ req[s].kind \in {"submit", "process"} /\ req[s].seen = "ok"
  BY <1>k, <1>w DEF Looked, Stored, Storing
<1>13. QED
  BY <1>6, <1>7, <1>8, <1>9, <1>10, <1>11, <1>12

\* Every step keeps what the outbox claims.
LEMMA Claims ==
  ASSUME PInv, [Next]_vars
  PROVE  PayloadKept' /\ Linked'
<1> USE DEF server, phone, owner, env
<1>k. /\ IInv /\ Outboxes /\ rows \in [Rows -> Outbox] /\ send \in [Senders -> Sends]
      /\ req \in [Actors -> Requests] /\ Slots \subseteq Actors /\ Owner \in Actors
      /\ PayloadKept /\ RowsLinked /\ Finishers /\ Requested
      /\ Linked' = (Requested' /\ Finishers' /\ RowsLinked')
      /\ \A a \in Actors : req[a].sender \in Senders \cup {None}
      /\ \A a \in Actors : req[a].sender # None => send[req[a].sender].pc = "wait"
  BY DEF PInv, IInv, Shapes, Outboxes, Awaited, Requests, Actors, Linked, RowsLinked, Finishers, Requested
<1>h. \A p : Humble(p, p)
  BY DEF Humble
<1>f. Free.sender = None /\ Resting.pc = "idle"
  BY DEF Free, Resting
<1>1. ASSUME rows' = rows PROVE PayloadKept' /\ RowsLinked'
  BY <1>1, <1>h, <1>k, RowsKept
<1>2. ASSUME send' = send PROVE Finishers'
  BY <1>2, <1>k, FinishersKept
<1>3. ASSUME send' = send, \A a \in Actors : req'[a].sender = None \/ Same(a) PROVE Requested'
  BY <1>3, <1>k, RequestedKept
<1>4. ASSUME rows' = rows, send' = send, \A a \in Actors : req'[a].sender = None \/ Same(a)
      PROVE  PayloadKept' /\ Linked'
  BY <1>1, <1>2, <1>3, <1>4, <1>k
<1>5. ASSUME req' = req, \A f \in Senders : send[f].pc = "wait" => send'[f] = send[f]
      PROVE  Requested'
  BY <1>5, <1>k, RequestedKept DEF Same
<1>6. ASSUME NEW a \in Actors, Commit(a) \/ Fail(a) \/ (a \in Slots /\ Read(a))
      PROVE  PayloadKept' /\ Linked'
  BY <1>4, <1>6, <1>k, Acting DEF Acts, Same
<1>7. CASE Open
  BY <1>4, <1>7 DEF Open, Same
<1>8. ASSUME NEW A \in {Slots, {Owner}}, Crash(A) PROVE PayloadKept' /\ Linked'
  BY <1>4, <1>8, <1>k, CrashOutcome
<1>9. ASSUME NEW s \in Slots, Discard(s) \/ Paired(s) PROVE PayloadKept' /\ Linked'
  <2>1. rows' = rows /\ send' = send /\ req' = [req EXCEPT ![s] = Free]
    BY <1>9 DEF Discard, Paired
  <2>2. QED
    BY <1>4, <1>f, <1>k, <2>1 DEF Same
<1>10. CASE OwnerAsks
  <2>1. PICK q : Asked(q)
    BY <1>10, AskOutcome
  <2>2. QED
    BY <1>4, <1>k, <2>1 DEF Asked, Same
<1>11. CASE OwnerLearns
  <2>1. rows' = rows /\ send' = send /\ req' = [req EXCEPT ![Owner] = Free]
    BY <1>11 DEF OwnerLearns
  <2>2. QED
    BY <1>4, <1>f, <1>k, <2>1 DEF Same
<1>12. CASE LosePairing \/ (\E c \in Challenges : Expire(c)) \/ UNCHANGED vars
  <2>1. rows' = rows /\ send' = send /\ req' = req
    BY <1>12 DEF LosePairing, Expire, vars
  <2>2. QED
    BY <1>4, <2>1 DEF Same
<1>13. ASSUME NEW s \in Slots, NEW c \in Challenges, Redeem(s, c) PROVE PayloadKept' /\ Linked'
  <2>1. /\ rows' = rows /\ send' = send
        /\ req' = [req EXCEPT ![s] = [Free EXCEPT !.kind = "redeem", !.chal = c, !.pc = "start"]]
    BY <1>13 DEF Redeem
  <2>2. [Free EXCEPT !.kind = "redeem", !.chal = c, !.pc = "start"].sender = None
    BY DEF Free
  <2>3. QED
    BY <1>4, <1>k, <2>1, <2>2 DEF Same
<1>14. ASSUME NEW f \in Senders, Finish(f) PROVE PayloadKept' /\ Linked'
  <2> DEFINE r == send[f].row
             x == [rows[r] EXCEPT !.state = "acquired", !.leased = FALSE]
  <2>1. /\ send[f].pc = "finish" /\ r \in Rows /\ rows' = [rows EXCEPT ![r] = x]
        /\ send' = [send EXCEPT ![f] = Resting] /\ req' = req
    BY <1>14, <1>k DEF Finish, Outboxes
  <2>2. x.state = "acquired" /\ x.receipt = rows[r].receipt /\ x.device = rows[r].device
    BY <1>k, <2>1 DEF Outbox
  <2>3. \E d \in Devices : <<r, d>> \in Recovered.acquired
    BY <1>k, <2>1 DEF Finishers
  <2> HIDE DEF x, r
  <2>4. PayloadKept'
    BY <1>k, <2>1, <2>2, <2>3, RecoveredGrows DEF PayloadKept
  <2>5. RowsLinked'
    BY <1>k, <2>1, <2>2 DEF RowsLinked
  <2>6. Finishers'
    BY <1>f, <1>k, <2>1, FinishersKept
  <2>7. Requested'
    BY <1>5, <1>k, <2>1
  <2>8. QED
    BY <1>k, <2>4, <2>5, <2>6, <2>7
<1>15. ASSUME NEW f \in Senders, NEW s \in Slots, Call(f, s) PROVE PayloadKept' /\ Linked'
  <2> DEFINE q == [Free EXCEPT !.kind = send[f].pc, !.row = send[f].row,
                                !.device = cred, !.sender = f, !.pc = "start"]
  <2>1. /\ rows' = rows /\ req' = [req EXCEPT ![s] = q]
        /\ send' = [send EXCEPT ![f].pc = "wait"]
        /\ send[f].pc \in {"lookup", "submit", "process"}
    BY <1>15 DEF Call
  <2>2. q.kind = send[f].pc /\ q.row = send[f].row /\ q.sender = f
    BY DEF Free
  <2>3. /\ \A g \in Senders : send'[g].row = send[g].row
        /\ \A g \in Senders : send'[g].pc = "finish" => send'[g] = send[g]
    BY <1>k, <2>1 DEF Sends
  <2> HIDE DEF q
  <2>4. Requested'
    BY <1>k, <2>1, <2>2, <2>3 DEF Requested
  <2>5. QED
    BY <1>1, <1>k, <2>1, <2>3, <2>4, FinishersKept
<1>16. ASSUME NEW f \in Senders, NEW s \in Slots, Learn(f, s) PROVE PayloadKept' /\ Linked'
  BY <1>16, Learning
<1>17. ASSUME NEW f \in Senders, Lose(f) PROVE PayloadKept' /\ Linked'
  <2>1. /\ send' = [send EXCEPT ![f] = Resting]
        /\ req' = [a \in Actors |-> IF req[a].sender = f THEN [req[a] EXCEPT !.sender = None] ELSE req[a]]
    BY <1>17, <1>k, LoseOutcome DEF Lose
  <2>2. \A r \in Rows : Humble(rows[r], rows'[r])
    BY <1>17, <1>h, <1>k, GivesUp DEF Lose, Outboxes
  <2>3. \A a \in Actors : req'[a].sender = None \/ (req'[a] = req[a] /\ req[a].sender # f)
    BY <1>k, <2>1 DEF Requests
  <2>4. Requested'
    BY <1>k, <2>1, <2>3, RequestedKept DEF Same
  <2>5. \A g \in Senders : send'[g].pc = "finish" => send'[g] = send[g]
    BY <1>f, <1>k, <2>1
  <2>6. QED
    BY <1>k, <2>2, <2>4, <2>5, RowsKept, FinishersKept
<1>18. ASSUME NEW f \in Senders, NEW r \in Rows, Claim(f, r) PROVE PayloadKept' /\ Linked'
  <2>1. /\ send[f].pc = "idle" /\ req' = req
        /\ \/ send' = send
           \/ send' = [send EXCEPT ![f] = [pc |-> "lookup", row |-> r, receipt |-> rows[r].receipt]]
    BY <1>18 DEF Claim
  <2>2. \E x : /\ rows' = [rows EXCEPT ![r] = x] /\ Humble(rows[r], x)
    <3> DEFINE s == IF rows[r].receipt THEN "acknowledged" ELSE "sending"
               y == [rows[r] EXCEPT !.state = "attention", !.token = f]
               z == [rows[r] EXCEPT !.leased = TRUE, !.token = f, !.state = s]
    <3>1. rows' = [rows EXCEPT ![r] = y] \/ rows' = [rows EXCEPT ![r] = z]
      BY <1>18 DEF Claim
    <3>2. Humble(rows[r], y) /\ Humble(rows[r], z)
      BY <1>k DEF Humble, Outbox
    <3> HIDE DEF y, z
    <3>3. QED
      BY <3>1, <3>2
  <2>3. \A t \in Rows : Humble(rows[t], rows'[t])
    BY <1>h, <1>k, <2>2
  <2>4. /\ \A g \in Senders : send'[g].pc = "finish" => send'[g] = send[g]
        /\ \A g \in Senders : send[g].pc = "wait" => send'[g] = send[g]
    BY <1>k, <2>1
  <2>5. QED
    BY <1>5, <1>k, <2>1, <2>3, <2>4, RowsKept, FinishersKept
<1>19. ASSUME NEW r \in Rows, Enqueue(r) PROVE PayloadKept' /\ Linked'
  <2> DEFINE x == [rows[r] EXCEPT !.state = "queued", !.device = cred]
  <2>1. rows' = [rows EXCEPT ![r] = x] /\ send' = send /\ req' = req /\ rows[r].state = "none"
    BY <1>19 DEF Enqueue
  <2>2. x.state = "queued" /\ x.receipt = rows[r].receipt
    BY <1>k DEF Outbox
  <2>3. ~rows[r].receipt
    BY <1>k, <2>1 DEF RowsLinked
  <2> HIDE DEF x
  <2>4. \A t \in Rows : Humble(rows[t], rows'[t])
    BY <1>h, <1>k, <2>1, <2>2, <2>3 DEF Humble
  <2>5. QED
    BY <1>2, <1>5, <1>k, <2>1, <2>4, RowsKept
<1>20. ASSUME NEW r \in Rows, LeaseExpires(r) PROVE PayloadKept' /\ Linked'
  <2> DEFINE x == [rows[r] EXCEPT !.leased = FALSE]
  <2>1. rows' = [rows EXCEPT ![r] = x] /\ send' = send /\ req' = req
    BY <1>20 DEF LeaseExpires
  <2>2. Humble(rows[r], x)
    BY <1>k DEF Humble, Outbox
  <2> HIDE DEF x
  <2>3. \A t \in Rows : Humble(rows[t], rows'[t])
    BY <1>h, <1>k, <2>1, <2>2
  <2>4. QED
    BY <1>2, <1>5, <1>k, <2>1, <2>3, RowsKept
<1>21. QED
  BY <1>k, <1>6, <1>7, <1>8, <1>9, <1>10, <1>11, <1>12, <1>13, <1>14, <1>15, <1>16, <1>17,
     <1>18, <1>19, <1>20
     DEF Next, Serve, Send

LEMMA PInitially == Init => PInv
<1> SUFFICES ASSUME Init PROVE PInv
  OBVIOUS
<1>1. \A a \in Actors : req[a] = Free
  BY DEF Init
<1>2. stage = NoStage
  BY DEF Init
<1>3. Steady
  BY <1>2 DEF Steady, NoStage
<1>4. \A a \in Actors : Looked(a) /\ Stored(a)
  BY <1>1 DEF Looked, Stored, Storing, Free
<1>5. Linked
  BY <1>1 DEF Init, Linked, Free, Resting
<1>6. PayloadKept
  BY DEF Init, PayloadKept
<1>7. QED
  BY <1>3, <1>4, <1>5, <1>6, Initially DEF PInv

LEMMA PInductive == NoStoringFails /\ PInv /\ [Next]_vars => PInv'
<1> SUFFICES ASSUME NoStoringFails, PInv, [Next]_vars PROVE PInv'
  OBVIOUS
<1>1. IInv'
  BY Inductive DEF PInv
<1>2. Steady'
  BY Steadying DEF PInv
<1>3. ASSUME NEW a \in Actors PROVE Looked(a)' /\ Stored(a)'
  BY Lookups, Confirmations DEF PInv
<1>4. PayloadKept' /\ Linked'
  BY Claims
<1>5. QED
  BY <1>1, <1>2, <1>3, <1>4 DEF PInv

\* PayloadKept, for every instance in which no submission and no acquisition
\* raises within its commit: the browser drops the payload of a row only for a
\* receipt whose record no recovery takes back, and calls a row acquired only
\* when it is, whatever dies, is lost, expires, is retried by several senders,
\* or is read while another request commits.
THEOREM Payloads == NoStoringFails => (Spec => []PayloadKept)
<1>1. SUFFICES ASSUME NoStoringFails PROVE Spec => []PayloadKept
  OBVIOUS
<1>2. PInv /\ [Next]_vars => PInv'
  BY <1>1, PInductive
<1>3. PInv => PayloadKept
  BY DEF PInv
<1>4. QED
  BY <1>2, <1>3, PInitially, PTL DEF Spec
==============================================================================
