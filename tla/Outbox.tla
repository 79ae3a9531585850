------------------------------- MODULE Outbox -------------------------------
(***************************************************************************)
(* The durable outbox of one account (src/lib/data/outbox.ts): the records *)
(* kept in IndexedDB, the tabs that share them, the sender of the leading  *)
(* tab, and the server the sender posts to.                                *)
(*                                                                         *)
(* A record is read and written in two awaits, so every operation that     *)
(* changes one is a pair of steps here: the read decides what will be      *)
(* written and leaves a pending write in "writes", a later step stores it. *)
(* Only requeue, discard, release and recover take the record lock         *)
(* (withRecordLock); the sender's own writes do not.                       *)
(***************************************************************************)
EXTENDS Naturals, FiniteSets

CONSTANTS
    Tab,                \* the browser tabs the account is open in
    Entry,              \* the entries that may be queued
    Shape,              \* the gate's shapes (shapeOfTable)
    ShapeOf,            \* Entry -> Shape
    Prerequisites,      \* Entry -> SUBSET Entry: what discovery finds, if queued
    NoTab,              \* nobody holds the lock
    DRAIN_CONCURRENCY,  \* workers of one drain
    Environment,        \* bound: what happens around the queue, of EnvironmentEvents
    MaxCloses           \* bound: how many times a tab is closed or reloaded

\* What users, the network, storage and the page may do at any time.
EnvironmentEvents == {"logout", "online", "discard", "requeue", "probe",
                      "answersLost", "storageFails", "discoveryFails",
                      "keysUnavailable"}

ASSUME OutboxAssumption ==
    /\ NoTab \notin Tab
    /\ ShapeOf \in [Entry -> Shape]
    /\ Prerequisites \in [Entry -> SUBSET Entry]
    /\ DRAIN_CONCURRENCY \in Nat \ {0}
    /\ Environment \subseteq EnvironmentEvents
    /\ MaxCloses \in Nat

VARIABLES
    rec,        \* Entry -> Record: the stored records
    writes,     \* the reads that have not been written back yet
    session,    \* the tabs whose session is this account's
    leader,     \* holder of the leader Web Lock, or NoTab
    sendLock,   \* holder of the account's send lock, or NoTab
    drain,      \* Tab -> the drain that holds, or last held, the send lock
    job,        \* Tab -> Entry -> what the worker that claimed the entry does
    janitor,    \* Tab -> Entry -> stage of reconcileStuckEntries
    sweep,      \* Tab -> entries clearSchedulesWhere has still to look at
    probing,    \* Tab -> probingEntryIds
    committed,  \* server: the writes it holds
    wire,       \* requests whose sender will not see an answer any more
    refused,    \* history: writes the server refused for good
    asked,      \* history: writes the user asked to discard
    closes      \* how many tabs have been closed

sessions == <<session, leader, closes>>
sender == <<sendLock, drain, job>>
helpers == <<janitor, sweep, probing>>
server == <<committed, wire, refused>>
vars == <<rec, writes, sessions, sender, helpers, server, asked>>

Status == {"absent", "pending", "server_accepted", "accepted", "quarantined",
           "discarded"}
Schedule == {"none", "network", "server"}
Record == [status : Status, reconciled : BOOLEAN, sched : Schedule,
           held : BOOLEAN, blocked : BOOLEAN, deps : SUBSET Entry]

Absent == [status |-> "absent", reconciled |-> FALSE, sched |-> "none",
           held |-> FALSE, blocked |-> FALSE, deps |-> {}]
\* The markers that stay when the signed mutations are dropped.
Marker(s) == [Absent EXCEPT !.status = s]

LockedOps == {"requeue", "discard", "release", "recover"}
SenderOps == {"accept", "reconcile", "resolve", "fail"}
JanitorOps == {"janitorReconcile", "janitorResolve"}
Ops == LockedOps \union SenderOps \union JanitorOps \union {"clear"}
Write == [tab : Tab, op : Ops, entry : Entry, new : Record]

SenderStage == {"idle", "claimed", "sending", "accepting", "releasing",
                "freeing", "answered", "clearing", "reconciling", "marking",
                "resolving", "closing", "failing"}
\* held: the claimed snapshot was approval-held; todo: entries still to release.
Job == [at : SenderStage, held : BOOLEAN, todo : SUBSET Entry]
Idle == [at |-> "idle", held |-> FALSE, todo |-> {}]
JanitorStage == {"idle", "reconciling", "marking", "resolving", "closing"}
\* requested: the send lock is asked for; stopped: no worker claims any more.
Drain == [requested : BOOLEAN, scope : SUBSET Entry, recover : SUBSET Entry,
          answered : BOOLEAN, stopped : BOOLEAN]
NoDrain == [requested |-> FALSE, scope |-> {}, recover |-> {},
            answered |-> FALSE, stopped |-> FALSE]

TypeOK ==
    /\ rec \in [Entry -> Record]
    /\ writes \subseteq Write
    /\ session \subseteq Tab
    /\ leader \in Tab \union {NoTab}
    /\ sendLock \in Tab \union {NoTab}
    /\ drain \in [Tab -> Drain]
    /\ job \in [Tab -> [Entry -> Job]]
    /\ janitor \in [Tab -> [Entry -> JanitorStage]]
    /\ sweep \in [Tab -> SUBSET Entry]
    /\ probing \in [Tab -> SUBSET Entry]
    /\ committed \subseteq Entry
    /\ wire \subseteq Entry
    /\ refused \subseteq Entry
    /\ asked \subseteq Entry
    /\ closes \in 0 .. MaxCloses

Init ==
    /\ rec = [e \in Entry |-> Absent]
    /\ writes = {}
    /\ session = {}
    /\ leader = NoTab
    /\ sendLock = NoTab
    /\ drain = [t \in Tab |-> NoDrain]
    /\ job = [t \in Tab |-> [e \in Entry |-> Idle]]
    /\ janitor = [t \in Tab |-> [e \in Entry |-> "idle"]]
    /\ sweep = [t \in Tab |-> {}]
    /\ probing = [t \in Tab |-> {}]
    /\ committed = {}
    /\ wire = {}
    /\ refused = {}
    /\ asked = {}
    /\ closes = 0

-----------------------------------------------------------------------------
(* What the code reads from a scan of the stored records.                  *)

Active(e) == rec[e].status = "pending"

\* dependencyState: a discarded, quarantined or missing prerequisite is not
\* resolved, and never becomes so by itself.
Resolved(d) == rec[d].status \in {"accepted", "server_accepted"}
\* Mutant: a prerequisite that is merely queued counts as resolved.
QueuedDepsResolve(e) == \A d \in rec[e].deps : rec[d].status # "absent"
DepsResolved(e) == \A d \in rec[e].deps : Resolved(d)

heldShapesOf == {ShapeOf[f] : f \in {g \in Entry : Active(g) /\ rec[g].held}}
pausedForApproval(e) == rec[e].held \/ ShapeOf[e] \in heldShapesOf

\* readyEntries, as tab t computes it, but for the clock: a scheduled attempt may
\* be due or not at any time, so a schedule neither forces nor forbids a claim.
Ready(t, e) ==
    /\ Active(e)
    /\ ~rec[e].blocked
    /\ pausedForApproval(e) => e \in probing[t]
    /\ DepsResolved(e)

ReadyNow(t, e) == Ready(t, e) /\ rec[e].sched = "none"

InFlight(t) == {e \in Entry : job[t][e].at # "idle"}

stillSender(t) == t \in session /\ leader = t
current(t) == stillSender(t) /\ ~drain[t].stopped

Locked(e) == \E w \in writes : w.entry = e /\ w.op \in LockedOps
HasWrite(t, op, e) == \E w \in writes : w.tab = t /\ w.op = op /\ w.entry = e
Swept(t) == sweep[t] = {} /\ ~\E w \in writes : w.tab = t /\ w.op = "clear"
Recovered(t) == /\ drain[t].recover = {}
                /\ ~\E w \in writes : w.tab = t /\ w.op = "recover"

PendingWrite(t, op, e, r) == [tab |-> t, op |-> op, entry |-> e, new |-> r]

\* The pending write (t, op, e) is stored.
Store(t, op, e) ==
    \E w \in writes :
        /\ w.tab = t /\ w.op = op /\ w.entry = e
        /\ rec' = [rec EXCEPT ![e] = w.new]
        /\ writes' = writes \ {w}

\* The pending write (t, op, e) is lost: storage refused it.
Lose(t, op, e) ==
    /\ "storageFails" \in Environment
    /\ \E w \in writes :
        /\ w.tab = t /\ w.op = op /\ w.entry = e
        /\ writes' = writes \ {w}
    /\ UNCHANGED rec

At(t, e, s) == job' = [job EXCEPT ![t][e].at = s]
JanitorAt(t, e, s) == janitor' = [janitor EXCEPT ![t][e] = s]
\* settleAttempt ends the approval probe that waited for this attempt.
Settled(t, e) == /\ job' = [job EXCEPT ![t][e] = Idle]
                 /\ probing' = [probing EXCEPT ![t] = @ \ {e}]

-----------------------------------------------------------------------------
(* Sessions, leadership and the death of a tab.                            *)

\* startLeaderElection: the tab's session becomes this account's.
Login(t) ==
    /\ t \notin session
    /\ session' = session \union {t}
    /\ UNCHANGED <<rec, writes, sender, helpers, server, leader, asked, closes>>

\* The browser grants the leader lock to one of the tabs that requested it.
BecomeLeader(t) ==
    /\ t \in session
    /\ leader = NoTab
    /\ leader' = t
    /\ UNCHANGED <<rec, writes, sender, helpers, server, session, asked,
                   closes>>

\* Mutant: the send lock goes with the leadership, whatever is in flight.
LogoutFreesSendLock(t) ==
    /\ "logout" \in Environment
    /\ t \in session
    /\ session' = session \ {t}
    /\ leader' = IF leader = t THEN NoTab ELSE leader
    /\ sendLock' = IF sendLock = t THEN NoTab ELSE sendLock
    /\ drain' = [drain EXCEPT ![t].stopped = drain[t] # NoDrain]
    /\ probing' = [probing EXCEPT ![t] = {}]
    /\ UNCHANGED <<rec, writes, job, server, janitor, sweep, asked, closes>>

\* stopLeaderElection, stopDrainLoop: what the drain has in flight goes on, and
\* keeps the send lock; the waiters (an approval probe among them) are fenced.
Logout(t) ==
    /\ "logout" \in Environment
    /\ t \in session
    /\ session' = session \ {t}
    /\ leader' = IF leader = t THEN NoTab ELSE leader
    /\ drain' = [drain EXCEPT ![t].stopped = drain[t] # NoDrain]
    /\ probing' = [probing EXCEPT ![t] = {}]
    /\ UNCHANGED <<rec, writes, sendLock, job, server, janitor, sweep, asked,
                   closes>>

\* The tab is closed, reloaded or crashes: its memory and its locks are gone, the
\* requests it sent are not.
CloseTab(t) ==
    /\ closes < MaxCloses
    /\ closes' = closes + 1
    /\ session' = session \ {t}
    /\ leader' = IF leader = t THEN NoTab ELSE leader
    /\ sendLock' = IF sendLock = t THEN NoTab ELSE sendLock
    /\ wire' = wire \union {e \in Entry : job[t][e].at = "sending"}
    /\ writes' = {w \in writes : w.tab # t}
    /\ drain' = [drain EXCEPT ![t] = NoDrain]
    /\ job' = [job EXCEPT ![t] = [e \in Entry |-> Idle]]
    /\ janitor' = [janitor EXCEPT ![t] = [e \in Entry |-> "idle"]]
    /\ sweep' = [sweep EXCEPT ![t] = {}]
    /\ probing' = [probing EXCEPT ![t] = {}]
    /\ UNCHANGED <<rec, committed, refused, asked>>

-----------------------------------------------------------------------------
(* The queue's own operations.                                             *)

\* enqueue: discovery either found the prerequisites among the queued entries, or
\* failed and left the boundary it saw (discoveryBlocked.observedKeys).
Enqueue(t, e, discoveryFailed) ==
    /\ discoveryFailed => "discoveryFails" \in Environment
    /\ t \in session
    /\ rec[e].status = "absent"
    /\ rec' = [rec EXCEPT ![e] =
                 [Absent EXCEPT
                    !.status = "pending",
                    !.blocked = discoveryFailed,
                    !.deps = {d \in Prerequisites[e] :
                                /\ rec[d].status # "absent"
                                /\ discoveryFailed \/
                                   rec[d].status \notin {"accepted", "discarded"}}]]
    /\ UNCHANGED <<writes, sessions, sender, helpers, server, asked>>

\* discardEntry and requeueEntry read under the record lock ...
Discard(t, e) ==
    /\ "discard" \in Environment
    /\ t \in session
    /\ ~Locked(e)
    /\ rec[e].status \in {"pending", "quarantined"}
    /\ asked' = asked \union {e}
    /\ writes' = writes \union {PendingWrite(t, "discard", e, Marker("discarded"))}
    /\ UNCHANGED <<rec, sessions, sender, helpers, server>>

Requeue(t, e) ==
    /\ "requeue" \in Environment
    /\ t \in session
    /\ ~Locked(e)
    /\ rec[e].status \in {"pending", "quarantined"}
    /\ writes' = writes \union
         {PendingWrite(t, "requeue", e,
            [rec[e] EXCEPT !.status = "pending", !.sched = "none"])}
    /\ UNCHANGED <<rec, sessions, sender, helpers, server, asked>>

\* ... and write under it.
UserWrite(t, op, e) ==
    /\ op \in {"requeue", "discard"}
    /\ Store(t, op, e) \/ Lose(t, op, e)
    /\ UNCHANGED <<sessions, sender, helpers, server, asked>>

\* clearSchedulesWhere, on "online" in any tab (the sender's call is Answered): it
\* lists the entries that waited for a connection, then re-reads and rewrites each,
\* leaving alone what this tab has in flight.
WaitsForNetwork(e) == Active(e) /\ rec[e].sched = "network"

ReleaseNetworkBackoffs(t) ==
    /\ "online" \in Environment
    /\ t \in session
    /\ Swept(t)
    /\ sweep' = [sweep EXCEPT ![t] = {e \in Entry : WaitsForNetwork(e)}]
    /\ UNCHANGED <<rec, writes, sessions, sender, server, janitor, probing,
                   asked>>

ClearSchedule(t, e) ==
    /\ e \in sweep[t]
    /\ ~\E w \in writes : w.tab = t /\ w.op = "clear"
    /\ sweep' = [sweep EXCEPT ![t] = @ \ {e}]
    /\ writes' = IF WaitsForNetwork(e) /\ e \notin InFlight(t)
                 THEN writes \union {PendingWrite(t, "clear", e,
                                       [rec[e] EXCEPT !.sched = "none"])}
                 ELSE writes
    /\ UNCHANGED <<rec, sessions, sender, server, janitor, probing, asked>>

\* A failed write ends the sweep.
ClearWrite(t, e) ==
    /\ \/ Store(t, "clear", e) /\ UNCHANGED sweep
       \/ Lose(t, "clear", e) /\ sweep' = [sweep EXCEPT ![t] = {}]
    /\ UNCHANGED <<sessions, sender, server, janitor, probing, asked>>

-----------------------------------------------------------------------------
(* A drain: one run of drainOutbox under the send lock.                    *)

\* The tab that leads asks for the send lock: the account's loop, to send
\* everything, or sendTargeted, to send one entry.
RequestDrain(t, scope) ==
    /\ stillSender(t)
    /\ drain[t] = NoDrain
    /\ \/ scope = Entry
       \/ \E e \in Entry : Ready(t, e) /\ scope = {e}
    /\ drain' = [drain EXCEPT ![t] = [NoDrain EXCEPT !.requested = TRUE,
                                                     !.scope = scope]]
    /\ UNCHANGED <<rec, writes, sessions, helpers, server, sendLock, job, asked>>

\* The lock is granted, even to a tab that stopped leading while it waited; a full
\* drain looks at the discovery-blocked entries first.
StartDrain(t) ==
    /\ drain[t].requested
    /\ sendLock = NoTab
    /\ sendLock' = t
    /\ drain' = [drain EXCEPT
                   ![t].requested = FALSE,
                   ![t].recover = IF drain[t].scope = Entry
                                  THEN {e \in Entry : rec[e].blocked} ELSE {}]
    /\ UNCHANGED <<rec, writes, sessions, helpers, server, job, asked>>

\* sendApprovalProbe: the entry may be sent although its shape waits for approval.
Probe(t, e) ==
    /\ "probe" \in Environment
    /\ stillSender(t)
    /\ Active(e) /\ rec[e].held /\ DepsResolved(e)
    /\ probing' = [probing EXCEPT ![t] = @ \union {e}]
    /\ UNCHANGED <<rec, writes, sessions, sender, server, janitor, sweep,
                   asked>>

\* Mutant: discovery that succeeds late forgets what it found.
RediscoveredForgets(r, found) ==
    IF found THEN [r EXCEPT !.blocked = FALSE, !.deps = {}] ELSE r

Rediscovered(r, found) ==
    IF found
    THEN [r EXCEPT !.blocked = FALSE,
                   !.deps = {d \in @ : rec[d].status \notin
                                         {"accepted", "discarded"}}]
    ELSE r

\* recoverDiscoveryBlocked: discovery is tried again inside the stored boundary,
\* and applied only to what is still blocked then.
Rediscover(t, e, found) ==
    /\ sendLock = t
    /\ e \in drain[t].recover
    /\ ~Locked(e)
    /\ drain' = [drain EXCEPT ![t].recover = @ \ {e}]
    /\ writes' = IF rec[e].blocked
                 THEN writes \union
                   {PendingWrite(t, "recover", e, Rediscovered(rec[e], found))}
                 ELSE writes
    /\ UNCHANGED <<rec, sessions, helpers, server, sendLock, job, asked>>

\* A failed write ends the drain before any worker has started.
RecoverWrite(t, e) ==
    /\ \/ Store(t, "recover", e) /\ UNCHANGED drain
       \/ /\ Lose(t, "recover", e)
          /\ drain' = [drain EXCEPT ![t].recover = {}, ![t].stopped = TRUE]
    /\ UNCHANGED <<sessions, helpers, server, sendLock, job, asked>>

\* A worker claims a ready entry nobody in this tab has, and finds it still ready.
Claim(t, e) ==
    /\ sendLock = t
    /\ Recovered(t)
    /\ current(t)
    /\ e \in drain[t].scope
    /\ job[t][e].at = "idle"
    /\ Cardinality(InFlight(t)) < DRAIN_CONCURRENCY
    /\ Ready(t, e)
    /\ job' = [job EXCEPT ![t][e] = [Idle EXCEPT !.at = "claimed",
                                               !.held = rec[e].held]]
    /\ UNCHANGED <<rec, writes, sessions, helpers, server, sendLock, drain,
                   asked>>

\* The request leaves, if this tab still sends.
Dispatch(t, e) ==
    /\ job[t][e].at = "claimed"
    /\ job' = [job EXCEPT ![t][e] = IF current(t) THEN [@ EXCEPT !.at = "sending"]
                                                ELSE Idle]
    /\ UNCHANGED <<rec, writes, sessions, helpers, server, sendLock, drain,
                   asked>>

\* The keys were not open: nothing was sent, nothing is recorded, the drain ends.
KeysUnavailable(t, e) ==
    /\ "keysUnavailable" \in Environment
    /\ job[t][e].at = "claimed"
    /\ drain' = [drain EXCEPT ![t].stopped = TRUE]
    /\ Settled(t, e)
    /\ UNCHANGED <<rec, writes, sessions, server, sendLock, janitor, sweep,
                   asked>>

\* The last worker stops: nothing is left that can go, or the records could not be
\* read; a probe whose targeted drain ends goes with it.
EndDrain(t) ==
    /\ sendLock = t
    /\ Recovered(t)
    /\ InFlight(t) = {}
    /\ \/ current(t) => \A e \in drain[t].scope : ~ReadyNow(t, e)
       \/ "storageFails" \in Environment
    /\ sendLock' = NoTab
    /\ probing' = [probing EXCEPT ![t] =
                     IF drain[t].scope = Entry THEN @ ELSE @ \ drain[t].scope]
    /\ drain' = [drain EXCEPT ![t] = NoDrain]
    /\ UNCHANGED <<rec, writes, sessions, server, job, janitor, sweep, asked>>

-----------------------------------------------------------------------------
(* The server, and what the sender makes of its answers.                   *)

\* A request that arrived is applied: the one in flight, or one left on the wire.
ServerCommit(e) ==
    /\ e \in wire \/ \E t \in Tab : job[t][e].at = "sending"
    /\ e \notin committed
    /\ committed' = committed \union {e}
    /\ UNCHANGED <<rec, writes, sessions, sender, helpers, wire, refused,
                   asked>>

\* The next stage once markServerAccepted returned "recorded".
AfterMark(t, e, recorded, records) ==
    IF recorded /\ job[t][e].held
    THEN job' = [job EXCEPT ![t][e] =
                   [@ EXCEPT !.at = "releasing",
                             !.todo = {f \in Entry : /\ records[f].held
                                                     /\ ShapeOf[f] = ShapeOf[e]}]]
    ELSE At(t, e, "answered")

\* Mutant: an acceptance keeps the time of the next attempt.
AcceptedKeepsSchedule(r) ==
    [r EXCEPT !.status = "server_accepted", !.held = FALSE, !.blocked = FALSE]

\* markServerAccepted's new record.
Accepted(r) ==
    [r EXCEPT !.status = "server_accepted", !.sched = "none", !.held = FALSE,
              !.blocked = FALSE]

\* Mutant: any conflict confirms the write, whoever's row it is.
AnswerAcceptedUnverified(t, e) ==
    /\ job[t][e].at = "sending"
    /\ \/ /\ rec[e].status = "pending"
          /\ writes' = writes \union
               {PendingWrite(t, "accept", e, Accepted(rec[e]))}
          /\ At(t, e, "accepting")
       \/ /\ rec[e].status # "pending"
          /\ AfterMark(t, e, Resolved(e), rec)
          /\ UNCHANGED writes
    /\ UNCHANGED <<rec, sessions, helpers, server, sendLock, drain, asked>>

\* ok, "exists" with conflicted: false, or a conflict with our own signed row:
\* markServerAccepted reads the record (and a failed read records nothing).
AnswerAccepted(t, e) ==
    /\ job[t][e].at = "sending"
    /\ e \in committed
    /\ \/ /\ rec[e].status = "pending"
          /\ writes' = writes \union
               {PendingWrite(t, "accept", e, Accepted(rec[e]))}
          /\ At(t, e, "accepting")
       \/ /\ rec[e].status # "pending"
          /\ AfterMark(t, e, Resolved(e), rec)
          /\ UNCHANGED writes
       \/ /\ "storageFails" \in Environment
          /\ AfterMark(t, e, FALSE, rec)
          /\ UNCHANGED writes
    /\ UNCHANGED <<rec, sessions, helpers, server, sendLock, drain, asked>>

AcceptWrite(t, e) ==
    /\ job[t][e].at = "accepting"
    /\ Store(t, "accept", e)
    /\ AfterMark(t, e, TRUE, rec')
    /\ UNCHANGED <<sessions, helpers, server, sendLock, drain, asked>>

\* Mutants: every failure is scheduled; a refusal drops the write; a refusal
\* forgets to end the approval hold.
FailedSchedulesAll(r, kind) == [r EXCEPT !.sched = kind]
FailedDrops(r, kind) ==
    IF kind = "permanent" THEN Marker("discarded")
                          ELSE [r EXCEPT !.held = kind = "approval" \/ @]
FailedKeepsHold(r, kind) ==
    IF kind = "permanent"
    THEN [r EXCEPT !.status = "quarantined", !.sched = "none", !.blocked = FALSE]
    ELSE [r EXCEPT !.held = kind = "approval" \/ @, !.sched = "none"]

\* recordFailure's new record.
Failed(r, kind) ==
    CASE kind = "permanent" ->
           [r EXCEPT !.status = "quarantined", !.sched = "none", !.blocked = FALSE,
                     !.held = FALSE]
      [] kind = "approval" -> [r EXCEPT !.held = TRUE, !.sched = "none"]
      [] kind \in {"network", "server"} /\ r.held -> [r EXCEPT !.sched = "none"]
      [] kind \in {"network", "server"} /\ ~r.held /\ r.status # "quarantined" ->
           [r EXCEPT !.sched = kind]
      [] OTHER -> r

\* recordFailure reads; it leaves alone what is accepted or discarded by then.
RecordFailure(t, e, kind, others) ==
    IF rec[e].status \in {"pending", "quarantined"}
    THEN /\ writes' = others \union {PendingWrite(t, "fail", e, Failed(rec[e], kind))}
         /\ At(t, e, "failing")
         /\ UNCHANGED probing
    ELSE /\ writes' = others
         /\ Settled(t, e)

\* No answer at all: the request is lost, or still on its way.
AnswerLost(t, e) ==
    /\ "answersLost" \in Environment
    /\ job[t][e].at = "sending"
    /\ wire' = wire \union {e}
    /\ RecordFailure(t, e, "network", writes)
    /\ UNCHANGED <<rec, sessions, sendLock, drain, janitor, sweep, committed,
                   refused, asked>>

\* 5xx or 429: retryable.
AnswerRetryable(t, e) ==
    /\ job[t][e].at = "sending"
    /\ RecordFailure(t, e, "server", writes)
    /\ UNCHANGED <<rec, sessions, server, sendLock, drain, janitor, sweep,
                   asked>>

\* 422: a final verdict. A conflict the identity check could not confirm is one
\* too, so the server may hold the write all the same.
AnswerPermanent(t, e) ==
    /\ job[t][e].at = "sending"
    /\ refused' = refused \union {e}
    /\ RecordFailure(t, e, "permanent", writes)
    /\ UNCHANGED <<rec, sessions, sendLock, drain, janitor, sweep, committed,
                   wire, asked>>

\* not_in_trust_chain: the device owner has not approved the shape.
AnswerApproval(t, e) ==
    /\ job[t][e].at = "sending"
    /\ e \notin committed
    /\ RecordFailure(t, e, "approval", writes)
    /\ UNCHANGED <<rec, sessions, server, sendLock, drain, janitor, sweep,
                   asked>>

\* The acceptance could not be stored: the catch records it as a failure.
AcceptLost(t, e) ==
    /\ "storageFails" \in Environment
    /\ job[t][e].at = "accepting"
    /\ \E w \in writes :
          /\ w.tab = t /\ w.op = "accept" /\ w.entry = e
          /\ RecordFailure(t, e, "server", writes \ {w})
    /\ UNCHANGED <<rec, sessions, server, sendLock, drain, janitor, sweep,
                   asked>>

FailWrite(t, e) ==
    /\ job[t][e].at = "failing"
    /\ Store(t, "fail", e) \/ Lose(t, "fail", e)
    /\ Settled(t, e)
    /\ UNCHANGED <<sessions, server, sendLock, drain, janitor, sweep, asked>>

-----------------------------------------------------------------------------
(* After the acceptance.                                                   *)

\* releaseApprovalHeld: every entry the hold kept back, one by one; the worker does
\* not go on before.
Releasing(t) == \E w \in writes : w.tab = t /\ w.op = "release"

Release(t, e, f) ==
    /\ job[t][e].at = "releasing"
    /\ f \in job[t][e].todo
    /\ ~Locked(f)
    /\ ~Releasing(t)
    /\ job' = [job EXCEPT ![t][e] =
                 [@ EXCEPT !.todo = job[t][e].todo \ {f},
                           !.at = IF rec[f].held THEN "freeing" ELSE "releasing"]]
    /\ writes' = IF rec[f].held
                 THEN writes \union {PendingWrite(t, "release", f,
                                       [rec[f] EXCEPT !.held = FALSE])}
                 ELSE writes
    /\ UNCHANGED <<rec, sessions, helpers, server, sendLock, drain, asked>>

\* A failed write is taken for a failure of the attempt itself.
ReleaseWrite(t, e, f) ==
    /\ job[t][e].at = "freeing"
    /\ Store(t, "release", f)
    /\ At(t, e, "releasing")
    /\ UNCHANGED <<sessions, helpers, server, sendLock, drain, asked>>

ReleaseLost(t, e, f) ==
    /\ "storageFails" \in Environment
    /\ job[t][e].at = "freeing"
    /\ \E w \in writes :
          /\ w.tab = t /\ w.op = "release" /\ w.entry = f
          /\ RecordFailure(t, e, "server", writes \ {w})
    /\ UNCHANGED <<rec, sessions, server, sendLock, drain, janitor, sweep,
                   asked>>

Released(t, e) ==
    /\ job[t][e].at = "releasing"
    /\ job[t][e].todo = {}
    /\ At(t, e, "answered")
    /\ UNCHANGED <<rec, writes, sessions, helpers, server, sendLock, drain,
                   asked>>

\* The first answer of a drain ends every backoff that waited for a connection.
Answered(t, e) ==
    /\ job[t][e].at = "answered"
    /\ IF drain[t].answered
       THEN /\ At(t, e, "reconciling")
            /\ UNCHANGED <<drain, sweep>>
       ELSE /\ Swept(t)
            /\ drain' = [drain EXCEPT ![t].answered = TRUE]
            /\ sweep' = [sweep EXCEPT ![t] = {f \in Entry : WaitsForNetwork(f)}]
            /\ At(t, e, "clearing")
    /\ UNCHANGED <<rec, writes, sessions, server, sendLock, janitor, probing,
                   asked>>

Cleared(t, e) ==
    /\ job[t][e].at = "clearing"
    /\ Swept(t)
    /\ At(t, e, "reconciling")
    /\ UNCHANGED <<rec, writes, sessions, helpers, server, sendLock, drain,
                   asked>>

\* reconcile throws: the entry waits as server_accepted for reconcileStuckEntries.
ReconcileFails(t, e) ==
    /\ job[t][e].at = "reconciling"
    /\ Settled(t, e)
    /\ UNCHANGED <<rec, writes, sessions, server, sendLock, drain, janitor,
                   sweep, asked>>

\* reconcile succeeds and markReconciled reads the record.
Reconcile(t, e) ==
    /\ job[t][e].at = "reconciling"
    /\ IF rec[e].status = "server_accepted"
       THEN /\ writes' = writes \union {PendingWrite(t, "reconcile", e,
                                          [rec[e] EXCEPT !.reconciled = TRUE])}
            /\ At(t, e, "marking")
       ELSE /\ At(t, e, "resolving")
            /\ UNCHANGED writes
    /\ UNCHANGED <<rec, sessions, helpers, server, sendLock, drain, asked>>

MarkWrite(t, e) ==
    /\ job[t][e].at = "marking"
    /\ \/ Store(t, "reconcile", e) /\ At(t, e, "resolving") /\ UNCHANGED probing
       \/ Lose(t, "reconcile", e) /\ Settled(t, e)
    /\ UNCHANGED <<sessions, server, sendLock, drain, janitor, sweep, asked>>

\* resolveEntry refuses an acceptance that is not reconciled; it does not ask
\* whether the record was discarded meanwhile.
Refuses(e) == rec[e].status = "server_accepted" /\ ~rec[e].reconciled

Resolve(t, e) ==
    /\ job[t][e].at = "resolving"
    /\ IF Refuses(e)
       THEN Settled(t, e) /\ UNCHANGED writes
       ELSE /\ writes' = writes \union {PendingWrite(t, "resolve", e, Marker("accepted"))}
            /\ At(t, e, "closing")
            /\ UNCHANGED probing
    /\ UNCHANGED <<rec, sessions, server, sendLock, drain, janitor, sweep,
                   asked>>

ResolveWrite(t, e) ==
    /\ job[t][e].at = "closing"
    /\ Store(t, "resolve", e) \/ Lose(t, "resolve", e)
    /\ Settled(t, e)
    /\ UNCHANGED <<sessions, server, sendLock, drain, janitor, sweep, asked>>

-----------------------------------------------------------------------------
(* reconcileStuckEntries: any tab's drainOutbox runs it first, under no lock. *)

\* Mutant: only what is already reconciled is looked at.
JanitorStartReconciled(t) ==
    /\ t \in session
    /\ \A f \in Entry : janitor[t][f] = "idle"
    /\ janitor' = [janitor EXCEPT ![t] =
                     [e \in Entry |-> IF rec[e].reconciled
                                     THEN "reconciling" ELSE "idle"]]
    /\ UNCHANGED <<rec, writes, sessions, sender, server, sweep, probing,
                   asked>>

\* The list is read once; each entry on it is handled in turn, whatever became of it.
JanitorStart(t) ==
    /\ t \in session
    /\ \A f \in Entry : janitor[t][f] = "idle"
    /\ janitor' = [janitor EXCEPT ![t] =
                     [e \in Entry |-> IF rec[e].status = "server_accepted"
                                     THEN "reconciling" ELSE "idle"]]
    /\ UNCHANGED <<rec, writes, sessions, sender, server, sweep, probing,
                   asked>>

JanitorReconcile(t, e) ==
    /\ janitor[t][e] = "reconciling"
    /\ \A f \in Entry \ {e} : janitor[t][f] \in {"idle", "reconciling"}
    /\ \/ /\ rec[e].status = "server_accepted"
          /\ writes' = writes \union {PendingWrite(t, "janitorReconcile", e,
                                        [rec[e] EXCEPT !.reconciled = TRUE])}
          /\ JanitorAt(t, e, "marking")
       \/ /\ rec[e].status # "server_accepted"
          /\ JanitorAt(t, e, "resolving")
          /\ UNCHANGED writes
    /\ UNCHANGED <<rec, sessions, sender, server, sweep, probing, asked>>

JanitorReconcileFails(t, e) ==
    /\ janitor[t][e] = "reconciling"
    /\ \A f \in Entry \ {e} : janitor[t][f] \in {"idle", "reconciling"}
    /\ JanitorAt(t, e, "idle")
    /\ UNCHANGED <<rec, writes, sessions, sender, server, sweep, probing, asked>>

JanitorMark(t, e) ==
    /\ janitor[t][e] = "marking"
    /\ \/ Store(t, "janitorReconcile", e) /\ JanitorAt(t, e, "resolving")
       \/ Lose(t, "janitorReconcile", e) /\ JanitorAt(t, e, "idle")
    /\ UNCHANGED <<sessions, sender, server, sweep, probing, asked>>

JanitorResolve(t, e) ==
    /\ janitor[t][e] = "resolving"
    /\ IF Refuses(e)
       THEN JanitorAt(t, e, "idle") /\ UNCHANGED writes
       ELSE /\ writes' = writes \union
                 {PendingWrite(t, "janitorResolve", e, Marker("accepted"))}
            /\ JanitorAt(t, e, "closing")
    /\ UNCHANGED <<rec, sessions, sender, server, sweep, probing, asked>>

JanitorClose(t, e) ==
    /\ janitor[t][e] = "closing"
    /\ Store(t, "janitorResolve", e) \/ Lose(t, "janitorResolve", e)
    /\ JanitorAt(t, e, "idle")
    /\ UNCHANGED <<sessions, sender, server, sweep, probing, asked>>

-----------------------------------------------------------------------------

SessionStep(t) ==
    Login(t) \/ Logout(t) \/ BecomeLeader(t) \/ CloseTab(t)

UserStep(t, e) ==
    \/ \E failed \in BOOLEAN : Enqueue(t, e, failed)
    \/ Discard(t, e) \/ Requeue(t, e) \/ Probe(t, e)
    \/ \E op \in LockedOps : UserWrite(t, op, e)

DrainStep(t, e) ==
    \/ (\E found \in BOOLEAN : Rediscover(t, e, found)) \/ RecoverWrite(t, e)
    \/ Claim(t, e) \/ Dispatch(t, e) \/ KeysUnavailable(t, e)

AnswerStep(t, e) ==
    \/ AnswerAccepted(t, e) \/ AnswerLost(t, e) \/ AnswerRetryable(t, e)
    \/ AnswerPermanent(t, e) \/ AnswerApproval(t, e)

SettleStep(t, e) ==
    \/ AcceptWrite(t, e) \/ AcceptLost(t, e) \/ FailWrite(t, e)
    \/ \E f \in Entry :
          Release(t, e, f) \/ ReleaseWrite(t, e, f) \/ ReleaseLost(t, e, f)
    \/ Released(t, e) \/ Answered(t, e) \/ Cleared(t, e)
    \/ Reconcile(t, e) \/ ReconcileFails(t, e) \/ MarkWrite(t, e)
    \/ Resolve(t, e) \/ ResolveWrite(t, e)

JanitorStep(t, e) ==
    \/ JanitorReconcile(t, e) \/ JanitorReconcileFails(t, e)
    \/ JanitorMark(t, e) \/ JanitorResolve(t, e) \/ JanitorClose(t, e)

SweepStep(t, e) == ClearSchedule(t, e) \/ ClearWrite(t, e)

TabStep(t) ==
    \/ SessionStep(t)
    \/ \E scope \in SUBSET Entry : RequestDrain(t, scope)
    \/ StartDrain(t) \/ EndDrain(t)
    \/ ReleaseNetworkBackoffs(t) \/ JanitorStart(t)

EntryStep(t, e) ==
    \/ UserStep(t, e) \/ DrainStep(t, e) \/ AnswerStep(t, e)
    \/ SettleStep(t, e) \/ JanitorStep(t, e) \/ SweepStep(t, e)

Next ==
    \/ \E t \in Tab : TabStep(t) \/ \E e \in Entry : EntryStep(t, e)
    \/ \E e \in Entry : ServerCommit(e)

Spec == Init /\ [][Next]_vars

\* The tab that is left open logs in and leads; its loop keeps draining, because
\* the next scheduled attempt sets its timer; a request that is repeated is in the
\* end applied and answered, and reconciliation succeeds in the end. Nothing is
\* promised of users, of the network coming back, or of the fair choice of a tab.
Fairness ==
    /\ WF_vars(\E t \in Tab : Login(t))
    /\ WF_vars(\E t \in Tab : BecomeLeader(t))
    /\ \A t \in Tab :
          /\ WF_vars(RequestDrain(t, Entry))
          /\ WF_vars(StartDrain(t))
          /\ WF_vars(EndDrain(t))
          /\ WF_vars(JanitorStart(t))
    /\ \A t \in Tab, e \in Entry :
          /\ WF_vars(\E found \in BOOLEAN : Rediscover(t, e, found))
          /\ WF_vars(RecoverWrite(t, e))
          /\ WF_vars(Dispatch(t, e))
          /\ WF_vars(SettleStep(t, e))
          /\ WF_vars(JanitorStep(t, e))
          /\ WF_vars(SweepStep(t, e))
    /\ \A e \in Entry :
          /\ SF_vars(\E t \in Tab : Claim(t, e))
          /\ SF_vars(ServerCommit(e))
          /\ SF_vars(\E t \in Tab : AnswerAccepted(t, e))
          /\ SF_vars(\E t \in Tab : JanitorReconcile(t, e))

FairSpec == Spec /\ Fairness

-----------------------------------------------------------------------------
(* Safety.                                                                 *)

\* ADR section 9: one sender per account. No two tabs ever hold claimed entries
\* at once, whatever is closed, logged out or taken over meanwhile.
SingleSender ==
    \A t, u \in Tab : InFlight(t) # {} /\ InFlight(u) # {} => t = u

\* ADR section 8: what the record says happened did happen, although the
\* operations that write it overlap: accepted only what the server holds,
\* quarantined only what it refused, dropped only what it holds or what the user
\* asked to drop. With Absent never written, no queued write is ever lost.
Backed(r, e) ==
    /\ r.status \in {"server_accepted", "accepted"} => e \in committed
    /\ r.status = "quarantined" => e \in refused
    /\ r.status = "discarded" => e \in asked
VerdictsAreReal == \A e \in Entry : Backed(rec[e], e)

\* ADR section 7.3: a write reaches the server, or a wire to it, only after every
\* queued write it depends on, even when the records are rewritten from old reads.
Dispatched(e) == \/ e \in committed \union wire
                 \/ \E t \in Tab : job[t][e].at \in {"claimed", "sending"}
PrerequisitesFirst ==
    \A e \in Entry : Dispatched(e) => rec[e].deps \subseteq committed

\* invalidEntryReason: no interleaving of the queue's own operations writes a
\* combination of fields that the next read would call corrupt.
WellFormed(r) ==
    /\ r.held => r.status = "pending" /\ r.sched = "none" /\ ~r.blocked
    /\ r.blocked => r.status = "pending"
    /\ r.sched # "none" => r.status = "pending"
    /\ r.reconciled => r.status = "server_accepted"
NeverCorrupts == \A e \in Entry : WellFormed(rec[e])


-----------------------------------------------------------------------------
(* Liveness.                                                               *)

Sendable(e) == /\ Active(e)
               /\ ~rec[e].blocked
               /\ ~pausedForApproval(e)
               /\ DepsResolved(e)

Closed(e) == rec[e].status \in {"accepted", "quarantined", "discarded"}

\* A write that can go does go, and its acceptance is closed in the end: no tab
\* that dies, no answer that is lost and no backoff leaves it in the queue for
\* ever, unless the server asks for an approval.
Settles ==
    \A e \in Entry :
        Sendable(e) \/ rec[e].status = "server_accepted"
            ~> Closed(e) \/ pausedForApproval(e)

-----------------------------------------------------------------------------
(* What is promised, and what docs say of the records.                     *)

Issued == {e \in Entry : rec[e].status # "absent"}
Dropped == {e \in Entry : rec[e].status \in {"accepted", "discarded"}}

Promised == INSTANCE Delivery WITH
    kept <- Issued \ Dropped,
    dropped <- Dropped,
    waits <- [e \in Entry |-> rec[e].deps],
    delivered <- committed,
    cancelled <- asked

\* The outbox delivers as Delivery says.
DeliversAsPromised == Promised!Spec

\* ADR section 8 (a durable entry is removed by an explicit user action): what was
\* discarded stays discarded, and is not sent again.
DiscardStands ==
    [][\A e \in Entry : rec[e].status = "discarded" => rec'[e].status # "pending"]_vars

\* ADR section 5 (an entry leaves quarantine in exactly three ways): only a requeue
\* or a discard the user asked for ends a quarantine.
QuarantineStands ==
    [][\A e \in Entry :
          rec[e].status = "quarantined" /\ rec'[e].status # "quarantined"
          => \E w \in writes : /\ w.entry = e
                               /\ w.op \in {"requeue", "discard"}
                               /\ rec'[e] = w.new]_vars

=============================================================================
