---------------------------- MODULE StorageSlot ----------------------------
(***************************************************************************)
(* One slot of user_storage: how the edits a person makes become durable   *)
(* intents, how an intent is signed once and queued once, and how a write  *)
(* that lost against another device is built again                         *)
(* (src/lib/data/userStorage.ts, storageIntent.ts, intents.ts,             *)
(* intentRecovery.ts).                                                     *)
(*                                                                         *)
(* An edit is a JSON patch, and all the model knows of it is its name: a   *)
(* slot's value is the set of edits it holds, merging is union. A process  *)
(* is one call that runs in some tab: the call of an edit                  *)
(* (upsertStorageEditLive) or a recovery pass (recoverIntents). Each await *)
(* between a read of a record and its write is a step boundary. The outbox *)
(* is reduced to what a slot sees of it: an entry waits for its            *)
(* dependencies and is then accepted or refused for good.                  *)
(***************************************************************************)
EXTENDS Integers, Sequences, FiniteSetsExt

CONSTANTS
    Edit,        \* the edits made on this device, one call each
    Pass,        \* recovery passes that may run side by side
    Foreign,     \* the edits other devices make of the same slot
    NoProc,
    MAX_CONFLICT_RECONCILE_ATTEMPTS,
    MaxStops,    \* how often a tab may go away under a call
    Environment  \* which of "locked", "offline", "answersLost" may happen

Proc == Edit \union Pass

ASSUME SlotAssumption ==
    /\ Edit \intersect Pass = {}
    /\ NoProc \notin Proc
    /\ MAX_CONFLICT_RECONCILE_ATTEMPTS \in Nat
    /\ MaxStops \in Nat

VARIABLES
    intents,   \* IndexedDB: the intent records, by creation
    rows,      \* the signed revisions of the slot, by owner_timestamp
    outbox,    \* IndexedDB: the outbox entries of this slot, by creation
    tip,       \* the server's revision, 0 when the slot is absent
    shape,     \* the revision the replicated collection shows
    op,        \* where each call is
    slotLock,  \* holder of buckitup-storage-slot
    saved,     \* edits whose call found them durable (history)
    stops      \* tabs gone so far (bound)

vars == <<intents, rows, outbox, tip, shape, op, slotLock, saved, stops>>

Intent == [kind : {"storage", "signed", "resolved"}, patch : SUBSET Edit,
           attempts : 0 .. MAX_CONFLICT_RECONCILE_ATTEMPTS, row : Nat,
           awaiting : BOOLEAN]
\* The marker that stays of a resolved intent.
Resolved == [kind |-> "resolved", patch |-> {}, attempts |-> 0, row |-> 0,
             awaiting |-> FALSE]
Payload(patch, attempts) == [Resolved EXCEPT !.kind = "storage",
                             !.patch = patch, !.attempts = attempts]

Row == [patch : SUBSET (Edit \union Foreign),
        value : SUBSET (Edit \union Foreign), parent : Nat]
Entry == [row : Nat, source : Nat, deps : SUBSET Nat,
          status : {"queued", "accepted", "refused"}]

\* copy: the record as last read; base: what the draft builds on; excl: the
\* entries a retry must not build on.
Op == [at : {"idle", "creating", "merging", "storing", "stored", "building",
             "signing", "queueing", "linking", "sending", "retrying",
             "resuming", "marking", "unmarking", "done"},
       id : Nat, copy : Intent, read : Intent, base : Nat, row : Nat,
       entry : Nat, excl : SUBSET Nat]
Idle == [at |-> "idle", id |-> 0, copy |-> Resolved, read |-> Resolved,
         base |-> 0, row |-> 0, entry |-> 0, excl |-> {}]

TypeOK ==
    /\ intents \in Seq(Intent)
    /\ rows \in Seq(Row)
    /\ outbox \in Seq(Entry)
    /\ tip \in 0 .. Len(rows)
    /\ shape \in 0 .. tip
    /\ op \in [Proc -> Op]
    /\ slotLock \in Proc \union {NoProc}
    /\ saved \subseteq Edit
    /\ stops \in 0 .. MaxStops

Init ==
    /\ intents = <<>>
    /\ rows = <<>>
    /\ outbox = <<>>
    /\ tip = 0
    /\ shape = 0
    /\ op = [p \in Proc |-> Idle]
    /\ slotLock = NoProc
    /\ saved = {}
    /\ stops = 0

----------------------------------------------------------------------------
(* What the calls read *)

Value(r) == IF r = 0 THEN {} ELSE rows[r].value

\* A signing lock is held from the claim until the attempt is over.
SigningLocked(i) ==
    \E p \in Proc : /\ op[p].id = i
                    /\ op[p].at \in {"queueing", "linking", "sending",
                                     "marking", "unmarking"}

EntriesOf(i) == {k \in DOMAIN outbox : outbox[k].source = i}

\* Mutant: only the refused entry is left out, not what waits for it.
ClosureShallow(seeds) == seeds

\* transitiveDependencyClosure: the least set of entries that holds `seeds` and
\* all that wait for one of it.
Closure(seeds) ==
    LET closed(S) == \A k \in DOMAIN outbox :
                        k \in seeds \/ outbox[k].deps \intersect S # {} => k \in S
    IN  {k \in DOMAIN outbox : \A S \in SUBSET DOMAIN outbox : closed(S) => k \in S}

\* The revisions of this device a draft may build on: what was accepted, what
\* the outbox still holds open, and what is signed but not queued yet.
Trusted(excl) ==
    {outbox[k].row : k \in {j \in DOMAIN outbox :
        \/ outbox[j].status = "accepted"
        \/ outbox[j].status = "queued" /\ j \notin Closure(excl)}}
    \union {intents[i].row : i \in {j \in DOMAIN intents :
                                      intents[j].kind = "signed"}}

\* The replicated row counts when the shape is live; without it only an own
\* revision proves a base.
Bases(excl) ==
    {Max(Trusted(excl) \union {shape})} \union
    (IF "offline" \in Environment /\ Trusted(excl) # {}
     THEN {Max(Trusted(excl))} ELSE {})

\* Every entry of the slot that is not accepted, refused ones included.
Dependencies(excl) ==
    {k \in DOMAIN outbox : outbox[k].status # "accepted"} \ Closure(excl)

Goes(p, stage) == op' = [op EXCEPT ![p].at = stage]
\* The call is over; what it held is free again.
Leave(p) ==
    /\ op' = [op EXCEPT ![p] = IF p \in Edit THEN [Idle EXCEPT !.at = "done"]
                               ELSE Idle]
    /\ slotLock' = IF slotLock = p THEN NoProc ELSE slotLock

----------------------------------------------------------------------------
(* An edit becomes durable: coalesceOrCreateStorageIntent *)

FindNone(e) ==
    /\ op[e].at = "idle"
    /\ \A i \in DOMAIN intents : intents[i].kind # "storage"
    /\ Goes(e, "creating")
    /\ UNCHANGED <<intents, rows, outbox, tip, shape, slotLock, saved, stops>>

Find(e) ==
    /\ op[e].at = "idle"
    /\ LET open == {i \in DOMAIN intents : intents[i].kind = "storage"}
       IN  /\ open # {}
           /\ op' = [op EXCEPT ![e].at = "merging", ![e].id = Min(open),
                       ![e].copy = [intents[Min(open)] EXCEPT
                                        !.patch = @ \union {e}]]
    /\ UNCHANGED <<intents, rows, outbox, tip, shape, slotLock, saved, stops>>

Create(e) ==
    /\ op[e].at = "creating"
    /\ intents' = Append(intents, Payload({e}, 0))
    /\ op' = [op EXCEPT ![e].at = "stored", ![e].id = Len(intents) + 1]
    /\ saved' = saved \union {e}
    /\ UNCHANGED <<rows, outbox, tip, shape, slotLock, stops>>

\* updateIntent refuses a resolved record, and only that.
Merge(e) ==
    /\ op[e].at = "merging"
    /\ IF intents[op[e].id].kind = "resolved" THEN Leave(e)
       ELSE Goes(e, "storing") /\ UNCHANGED slotLock
    /\ UNCHANGED <<intents, rows, outbox, tip, shape, saved, stops>>

Store(e) ==
    /\ op[e].at = "storing"
    /\ intents' = [intents EXCEPT ![op[e].id] =
                       [op[e].copy EXCEPT !.awaiting = FALSE]]
    /\ Goes(e, "stored")
    /\ saved' = saved \union {e}
    /\ UNCHANGED <<rows, outbox, tip, shape, slotLock, stops>>

\* The edit was made with no signing key: it waits for recovery.
NoKey(e) ==
    /\ "locked" \in Environment
    /\ op[e].at = "stored" /\ op[e].excl = {}
    /\ Leave(e)
    /\ UNCHANGED <<intents, rows, outbox, tip, shape, saved, stops>>

----------------------------------------------------------------------------
(* materializeSignEnqueueStorageIntent and signAndDispatchIntent *)

AlreadyClaimed(p) ==
    /\ op[p].at = "stored"
    /\ slotLock = NoProc
    /\ intents[op[p].id].kind # "storage"
    /\ Leave(p)
    /\ UNCHANGED <<intents, rows, outbox, tip, shape, saved, stops>>

Claim(p) ==
    /\ op[p].at = "stored"
    /\ slotLock = NoProc
    /\ intents[op[p].id].kind = "storage"
    /\ slotLock' = p
    /\ op' = [op EXCEPT ![p].at = "building", ![p].copy = intents[op[p].id]]
    /\ UNCHANGED <<intents, rows, outbox, tip, shape, saved, stops>>

\* No base is proven, or the keys were locked meanwhile: the intent waits for
\* the next pass.
BaseUnavailable(p) ==
    /\ op[p].at = "building"
    /\ \/ "offline" \in Environment /\ Trusted(op[p].excl) = {}
       \/ "locked" \in Environment
    /\ Leave(p)
    /\ UNCHANGED <<intents, rows, outbox, tip, shape, saved, stops>>

Build(p) ==
    /\ op[p].at = "building"
    /\ \E base \in Bases(op[p].excl) :
          op' = [op EXCEPT ![p].at = "signing", ![p].base = base]
    /\ UNCHANGED <<intents, rows, outbox, tip, shape, slotLock, saved, stops>>

\* The record is a marker, or its snapshot is in the outbox already.
SignedBefore(p) ==
    LET i == op[p].id IN
    /\ op[p].at = "signing"
    /\ ~SigningLocked(i)
    /\ intents[i].kind = "resolved" \/ (intents[i].kind = "signed" /\ EntriesOf(i) # {})
    /\ intents' = [intents EXCEPT ![i] = Resolved]
    /\ Leave(p)
    /\ UNCHANGED <<rows, outbox, tip, shape, saved, stops>>

\* Mutant: the outbox is not asked whether it holds the snapshot already.
ReplayUnasked(p) ==
    LET i == op[p].id IN
    /\ op[p].at = "signing"
    /\ ~SigningLocked(i)
    /\ intents[i].kind = "signed"
    /\ op' = [op EXCEPT ![p].at = "queueing", ![p].row = intents[i].row]
    /\ UNCHANGED <<intents, rows, outbox, tip, shape, slotLock, saved, stops>>

\* A snapshot a stopped call left behind is sent as it is.
Replay(p) ==
    LET i == op[p].id IN
    /\ op[p].at = "signing"
    /\ ~SigningLocked(i)
    /\ intents[i].kind = "signed" /\ EntriesOf(i) = {}
    /\ op' = [op EXCEPT ![p].at = "queueing", ![p].row = intents[i].row]
    /\ UNCHANGED <<intents, rows, outbox, tip, shape, slotLock, saved, stops>>

\* Mutant: the intent is closed when it is signed, before it is queued.
SignResolves(p) ==
    LET i == op[p].id
        r == Len(rows) + 1
    IN
    /\ op[p].at = "signing"
    /\ ~SigningLocked(i)
    /\ intents[i].kind = "storage"
    /\ rows' = Append(rows, [patch |-> op[p].copy.patch, parent |-> op[p].base,
                             value |-> Value(op[p].base) \union op[p].copy.patch])
    /\ intents' = [intents EXCEPT ![i] = Resolved]
    /\ op' = [op EXCEPT ![p].at = "queueing", ![p].row = r]
    /\ UNCHANGED <<outbox, tip, shape, slotLock, saved, stops>>

\* Mutant: the patch is merged onto the value shown, not onto the base named.
SignShown(p) ==
    LET i == op[p].id
        r == Len(rows) + 1
    IN
    /\ op[p].at = "signing"
    /\ ~SigningLocked(i)
    /\ intents[i].kind = "storage"
    /\ rows' = Append(rows, [patch |-> op[p].copy.patch, parent |-> op[p].base,
                             value |-> Value(shape) \union op[p].copy.patch])
    /\ intents' = [intents EXCEPT ![i] =
                       [Resolved EXCEPT !.kind = "signed", !.row = r]]
    /\ op' = [op EXCEPT ![p].at = "queueing", ![p].row = r]
    /\ UNCHANGED <<outbox, tip, shape, slotLock, saved, stops>>

\* The draft was built from what this call read earlier, and the snapshot
\* replaces whatever the record holds by now.
Sign(p) ==
    LET i == op[p].id
        r == Len(rows) + 1
    IN
    /\ op[p].at = "signing"
    /\ ~SigningLocked(i)
    /\ intents[i].kind = "storage"
    /\ rows' = Append(rows, [patch |-> op[p].copy.patch, parent |-> op[p].base,
                             value |-> Value(op[p].base) \union op[p].copy.patch])
    /\ intents' = [intents EXCEPT ![i] =
                       [Resolved EXCEPT !.kind = "signed", !.row = r]]
    /\ op' = [op EXCEPT ![p].at = "queueing", ![p].row = r]
    /\ UNCHANGED <<outbox, tip, shape, slotLock, saved, stops>>

Enqueue(p) ==
    /\ op[p].at = "queueing"
    /\ outbox' = Append(outbox, [row |-> op[p].row, source |-> op[p].id,
                                 deps |-> Dependencies(op[p].excl),
                                 status |-> "queued"])
    /\ op' = [op EXCEPT ![p].at = "linking", ![p].entry = Len(outbox) + 1]
    /\ UNCHANGED <<intents, rows, tip, shape, slotLock, saved, stops>>

\* The intent is confirmed and resolved; the slot is free for the next signer.
Link(p) ==
    /\ op[p].at = "linking"
    /\ intents' = [intents EXCEPT ![op[p].id] = Resolved]
    /\ Goes(p, "sending")
    /\ slotLock' = IF slotLock = p THEN NoProc ELSE slotLock
    /\ UNCHANGED <<rows, outbox, tip, shape, saved, stops>>

\* Mutant: every conflict is tried once more.
ReconcilesAlways(p) == op[p].copy.kind = "storage"

\* A hand-over by recovery does not reconcile; a claimed payload does, so often.
Reconciles(p) == /\ op[p].copy.kind = "storage"
                 /\ op[p].copy.attempts < MAX_CONFLICT_RECONCILE_ATTEMPTS

\* Accepted, refused for good, or left to the queue.
Settle(p) ==
    /\ op[p].at = "sending"
    /\ ~(outbox[op[p].entry].status = "refused" /\ Reconciles(p))
    /\ Leave(p)
    /\ UNCHANGED <<intents, rows, outbox, tip, shape, saved, stops>>

Conflict(p) ==
    /\ op[p].at = "sending"
    /\ outbox[op[p].entry].status = "refused" /\ Reconciles(p)
    /\ Goes(p, "retrying")
    /\ UNCHANGED <<intents, rows, outbox, tip, shape, slotLock, saved, stops>>

\* The same payload as a new intent, built without the refused entry.
Retry(p) ==
    /\ op[p].at = "retrying"
    /\ intents' = Append(intents, Payload(op[p].copy.patch, op[p].copy.attempts + 1))
    /\ op' = [op EXCEPT ![p].at = "stored", ![p].id = Len(intents) + 1,
                        ![p].excl = @ \union {Min(EntriesOf(op[p].id))}]
    /\ UNCHANGED <<rows, outbox, tip, shape, slotLock, saved, stops>>

----------------------------------------------------------------------------
(* recoverIntents *)

\* Mutant: recovery looks for unsigned intents only.
ScanUnsigned(p, i) ==
    /\ op[p].at = "idle"
    /\ intents[i].kind = "storage"
    /\ op' = [op EXCEPT ![p].at = "resuming", ![p].id = i, ![p].copy = intents[i]]
    /\ UNCHANGED <<intents, rows, outbox, tip, shape, slotLock, saved, stops>>

Scan(p, i) ==
    /\ op[p].at = "idle"
    /\ intents[i].kind # "resolved"
    /\ op' = [op EXCEPT ![p].at = "resuming", ![p].id = i, ![p].copy = intents[i]]
    /\ UNCHANGED <<intents, rows, outbox, tip, shape, slotLock, saved, stops>>

\* With the keys locked the record is stored again, marked as waiting.
AwaitUnlock(p) ==
    LET stored == intents[op[p].id] IN
    /\ "locked" \in Environment
    /\ op[p].at = "resuming"
    /\ ~SigningLocked(op[p].id)
    /\ IF stored.kind = "resolved" \/ stored.awaiting THEN Leave(p)
       ELSE /\ op' = [op EXCEPT ![p].at = "marking", ![p].read = stored]
            /\ UNCHANGED slotLock
    /\ UNCHANGED <<intents, rows, outbox, tip, shape, saved, stops>>

Mark(p) ==
    /\ op[p].at = "marking"
    /\ intents' = [intents EXCEPT ![op[p].id] = [op[p].read EXCEPT !.awaiting = TRUE]]
    /\ Leave(p)
    /\ UNCHANGED <<rows, outbox, tip, shape, saved, stops>>

\* What recovery does next depends on the record it scanned: a storage payload
\* is materialized, a signed row is handed over as it was.
Proceed(p) ==
    op' = IF op[p].copy.kind = "storage"
          THEN [op EXCEPT ![p].at = "stored", ![p].read = Resolved]
          ELSE [op EXCEPT ![p].at = "signing", ![p].read = Resolved,
                          ![p].copy.patch = rows[op[p].copy.row].patch,
                          ![p].base = rows[op[p].copy.row].parent]

Resume(p) ==
    LET stored == intents[op[p].id] IN
    /\ op[p].at = "resuming"
    /\ ~SigningLocked(op[p].id)
    /\ \/ /\ stored.kind = "resolved"
          /\ Leave(p)
       \/ /\ stored.kind # "resolved" /\ ~stored.awaiting
          /\ Proceed(p)
          /\ UNCHANGED slotLock
       \/ /\ stored.kind # "resolved" /\ stored.awaiting
          /\ op' = [op EXCEPT ![p].at = "unmarking", ![p].read = stored]
          /\ UNCHANGED slotLock
    /\ UNCHANGED <<intents, rows, outbox, tip, shape, saved, stops>>

Unmark(p) ==
    /\ op[p].at = "unmarking"
    /\ intents' = [intents EXCEPT ![op[p].id] = [op[p].read EXCEPT !.awaiting = FALSE]]
    /\ Proceed(p)
    /\ UNCHANGED <<rows, outbox, tip, shape, slotLock, saved, stops>>

----------------------------------------------------------------------------
(* Tabs, the outbox, the server and the other devices *)

\* The tab closes, or the session it was pinned to is over.
Stop(p) ==
    /\ stops < MaxStops
    /\ op[p].at \notin {"idle", "done"}
    /\ stops' = stops + 1
    /\ Leave(p)
    /\ UNCHANGED <<intents, rows, outbox, tip, shape, saved>>

\* The server takes a revision of its tip; the tip itself is an exact replay.
Applies(r) == r = tip \/ rows[r].parent = tip

Deliver(k) ==
    LET r == outbox[k].row IN
    /\ outbox[k].status = "queued"
    /\ \A d \in outbox[k].deps : outbox[d].status = "accepted"
    /\ outbox' = [outbox EXCEPT ![k].status =
                      IF Applies(r) THEN "accepted" ELSE "refused"]
    /\ tip' = IF Applies(r) THEN r ELSE tip
    /\ UNCHANGED <<intents, rows, shape, op, slotLock, saved, stops>>

LoseAnswer(k) ==
    LET r == outbox[k].row IN
    /\ "answersLost" \in Environment
    /\ outbox[k].status = "queued"
    /\ \A d \in outbox[k].deps : outbox[d].status = "accepted"
    /\ rows[r].parent = tip
    /\ tip' = r
    /\ UNCHANGED <<intents, rows, outbox, shape, op, slotLock, saved, stops>>

\* Another device builds on the tip it sees; one that lost is built again.
ForeignWrite(x) ==
    /\ \A r \in DOMAIN rows : x \notin rows[r].patch
    /\ rows' = Append(rows, [patch |-> {x}, parent |-> tip,
                             value |-> Value(tip) \union {x}])
    /\ tip' = Len(rows) + 1
    /\ UNCHANGED <<intents, outbox, shape, op, slotLock, saved, stops>>

Sync ==
    /\ shape # tip
    /\ shape' = tip
    /\ UNCHANGED <<intents, rows, outbox, tip, op, slotLock, saved, stops>>

----------------------------------------------------------------------------
Call(e) == FindNone(e) \/ Find(e) \/ Create(e) \/ Merge(e) \/ Store(e) \/ NoKey(e)

Signer(p) ==
    \/ AlreadyClaimed(p) \/ Claim(p) \/ BaseUnavailable(p) \/ Build(p)
    \/ SignedBefore(p) \/ Replay(p) \/ Sign(p) \/ Enqueue(p) \/ Link(p)
    \/ Settle(p) \/ Conflict(p) \/ Retry(p)

Recover(p) == AwaitUnlock(p) \/ Mark(p) \/ Resume(p) \/ Unmark(p)

Next ==
    \/ \E e \in Edit : Call(e)
    \/ \E p \in Proc : Signer(p) \/ Stop(p)
    \/ \E p \in Pass : Recover(p) \/ \E i \in DOMAIN intents : Scan(p, i)
    \/ \E k \in DOMAIN outbox : Deliver(k) \/ LoseAnswer(k)
    \/ \E x \in Foreign : ForeignWrite(x)
    \/ Sync

Spec == Init /\ [][Next]_vars

\* A call goes on while its tab lives; the user comes back to the app again
\* and again, and each time a recovery pass goes over the intents that are
\* left (visibilitychange, online, outbox wakes); entries that may go are
\* sent, and an answer is not lost for ever.
FairSpec ==
    /\ Spec
    /\ \A e \in Edit : WF_vars(Call(e))
    /\ \A p \in Proc : WF_vars(Signer(p)) /\ SF_vars(Build(p))
    /\ \A p \in Pass : WF_vars(Recover(p))
    /\ \A i \in 1 .. Cardinality(Edit) * (MAX_CONFLICT_RECONCILE_ATTEMPTS + 1) :
          SF_vars(\E p \in Pass : i \in DOMAIN intents /\ Scan(p, i))
    /\ WF_vars(\E k \in DOMAIN outbox : Deliver(k))
    /\ WF_vars(Sync)

----------------------------------------------------------------------------
(* Properties *)

\* An intent is queued at most once, whatever stops between signing it,
\* queueing it and linking the two, and however many passes recover it
\* (signAndDispatchIntent, findEntryBySourceIntentId).
QueuedOnce == \A i \in DOMAIN intents : Cardinality(EntriesOf(i)) <= 1

Kept(e) ==
    \/ e \in Value(tip)
    \/ \E i \in DOMAIN intents :
          \/ intents[i].kind = "storage" /\ e \in intents[i].patch
          \/ intents[i].kind = "signed" /\ e \in rows[intents[i].row].patch
    \/ \E k \in DOMAIN outbox : /\ outbox[k].status \in {"queued", "refused"}
                               /\ e \in rows[outbox[k].row].patch

\* An edit whose call found it durable is on the server, in an intent, waiting
\* in the outbox or shown there as refused: never nowhere
\* (coalesceOrCreateStorageIntent, materializeSignEnqueueStorageIntent).
EditsKept == \A e \in saved : Kept(e)

\* What the slot holds on the server stays there: a write of this device never
\* takes away what it or another device has written since its base was read
\* (materializeStorageIntent, the conflict rounds).
NothingUndone == [][Value(tip) \subseteq Value(tip)']_vars

\* The least set of revisions that holds r and the parent of each it holds.
Ancestors(r) ==
    LET closed(S) == r \in S /\ \A s \in S \ {0} : rows[s].parent \in S
    IN  {s \in 0 .. r : \A S \in SUBSET (0 .. r) : closed(S) => s \in S}

\* A retry never builds on the write that was refused, nor on one that waits
\* for it, unless the server has it after all (a lost answer): it would be
\* refused with it (excludeIds of resolveStorageBase).
RetriesStartOver ==
    \A p \in Proc :
        op[p].excl # {} /\ op[p].at \in {"signing", "queueing", "linking", "sending"}
        => Ancestors(op[p].base)
             \intersect {outbox[k].row : k \in op[p].excl} \subseteq Ancestors(tip)

\* Once the server has the replacement of a refused write, an edit queued
\* after it does not wait for the refused one (ADR section 5: replacement by
\* a newer mutation ends a quarantine).
LaterEditsGoOut ==
    \A k, m, j \in DOMAIN outbox :
        /\ outbox[k].status = "refused"
        /\ outbox[m].status = "accepted"
        /\ k < m /\ m < j
        /\ rows[outbox[k].row].patch \subseteq rows[outbox[m].row].patch
        => k \notin outbox[j].deps

\* Every edit found durable reaches the server or is shown as refused.
EditsArrive ==
    \A e \in Edit :
        e \in saved ~>
            \/ e \in Value(tip)
            \/ \E k \in DOMAIN outbox : /\ outbox[k].status = "refused"
                                       /\ e \in rows[outbox[k].row].patch

=============================================================================
