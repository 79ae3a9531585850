# BuckitUp Chat: TLA+ models and proofs

A verification project for the client of BuckitUp Chat (Vue 3, offline-first).
The client signs every write, keeps it in a durable queue in IndexedDB, and
posts it to a server which merges the writes of all devices; what it reads back
passes a verification gate before it is shown. TLA+ models of the client's own
protocol logic are checked with TLC; the properties that matter most are proved
with TLAPS.

File names without a directory are under `src/lib/data/` of the repository.

## 1. Inventory

| Part | State it keeps | Operations | Correct when |
|---|---|---|---|
| Durable outbox (`outbox.ts`) | one encrypted record per signed write (status, schedule, dependencies, hold, block); per tab: leadership, drain, claimed entries, probes | enqueue, drain, accept, reconcile, resolve, fail, requeue, discard, hold, release, rediscover, clear backoffs | one sender per account; nothing lost, nothing sent before what it needs; a verdict in a record is one that was given; every write that can go is settled |
| Ingest (`ingest.ts`, `confirm.ts`) | none durable | post, classify the answer, confirm a conflict by signature, retry | a conflict counts as success only for our own row |
| Mutation coordinator (`coordinator.ts`, `writeContracts.ts`, `barrier.ts`) | observed boundaries | discover dependencies, wait for freshness | what a write needs is found, or the write is blocked |
| Intents (`intents.ts`, `intentRecovery.ts`, `operationLifecycle.ts`, `messageIntent.ts`, `userCardIntent.ts`) | one record per unsigned intent, then its signed snapshot and outbox link | enqueue, sign, link, resolve, await unlock, recover | signed once, queued once, whatever crashes |
| Storage slots (`storageIntent.ts`, `slots.ts`, `userStorage.ts`, `acceptedSnapshot.ts`) | accepted bases, slot map | merge patches, choose a base, create a slot, conflict rounds | no edit is lost between devices; patches coalesce as if applied in turn |
| Dialog gate (`dialogGate.ts`, `pq-client/src/dialogDag.ts`, `Page_Chat.vue`) | admitted, pending, blocked, terminal rows; what the page shows | admit, park, drain, retry when a card or key comes | admission closed under references, no row forgotten, nothing shown unverified |
| Access gate, read sessions (`accessGate.ts`, `readSession.ts`, `collections.ts`, `shapeLink.ts`) | sessions, renewals, blocked shapes and their probes, streams | open, renew, refuse, probe, pass the card, log out | one opening at a time, no session outlives its identity, whoever waits is woken |
| Handshake (`lib/handshake/engine.ts`, `pq-client/src/handshake.ts`, `QRScannerEngine.vue`) | stage, deadline, peer payload; camera, screen | start, read a code, sign, confirm, end | both sides verified or neither claims to be |
| Backup (`lib/recovery/backupRun.ts`, `store/recoveryBackup.store.js`) | the run and a reshare in one storage slot; vaults; versions on chain | prepare, publish, register, deposit, send, retire, take over, discard, revoke | the split that counts is kept, and there is always a way back |
| Restore (`lib/recovery/`) | rounds of a returning owner | collect, combine | |
| Transfers and files (`fileTransfer.ts`, `store/transfers.store.js`) | batches, chunks | upload, restore a batch | a batch is sent once |
| Secure store, sessions, crypto, avatars, caches, UI | | | not protocol logic |

How they interact. A user's action becomes an intent (when it cannot be signed
at once) or a signed mutation; `sendMutationsAndAwaitShape` discovers its
dependencies, enqueues it and wakes the account's sender. The leading tab's
drain posts ready entries and writes the outcome back to the record. Other tabs
see the records themselves (IndexedDB is shared), the Web Locks, and
BroadcastChannel hints. Acceptance is reconciled with the local collections
before the mutations are dropped. The collections are read through streams that
need a session per shape; the rows of a dialog pass the gate before the page
shows them. A backup run keeps its record in a storage slot, so every save of it
goes through the slot's intents and the outbox.

What is hard: reads and writes of a record are separate awaits and several
operations take no lock on it; two tabs, a crash, a logout or a lost answer may
fall between any two of them. In the gate, the sessions and the handshake, state
is read before an await and used after it, while cards, keys, logouts, codes and
deadlines arrive in any order. A backup run is continued on another device over
state that only the network, the nodes and the guardians keep. The hazards are
listed, line by line, in `PROJECT.json`.

## 2. What is modelled

| Module | Models | Proofs |
|---|---|---|
| `Outbox` | the records of the outbox, their sender and its locks | `OutboxProofs`, `OutboxDeliveryProofs` |
| `Delivery` | what the outbox promises; `Outbox` implements it | `OutboxDeliveryProofs` |
| `StorageSlot` | intents, signing and conflict rounds of one storage slot | `StorageSlotProofs` |
| `DialogGate` | admission of one dialog's rows, and the page's loops | `DialogGateProofs` |
| `Handshake` | the engines of phones that read each other's codes | `HandshakeProofs` |
| `ReadAccess` | sessions, blocked shapes and gated streams | `ReadAccessProofs` |
| `BackupRun` | runs of a backup on several devices, and the network | `BackupRunProofs`, `BackupRunChainProofs` |

`MC...` modules give constants that a configuration cannot write. The modules are
not composed with one another beyond `Outbox` and `Delivery`: `StorageSlot` sees of
the outbox, and `BackupRun` of the slot, only what is said there.

### Outbox.tla

One account, a set of tabs, a set of entries. `rec` is IndexedDB. An operation
that changes a record reads it in one action, which leaves the value it will
store in `writes`, and stores it in a later one; whatever happens in between is
overwritten, as in the code. Only requeue, discard, release and recover take the
record lock (`Locked`). Per tab: `drain` (one run of `drainOutbox`; requested,
then holding the send lock), `job` (where each worker is in `processEntry`),
`janitor` (`reconcileStuckEntries`), `sweep` (`clearSchedulesWhere`), `probing`.
`leader` and `sendLock` are the Web Locks. `committed` is the server's table,
`wire` the requests nobody waits for any more. `refused` and `asked` are history
variables, read by no guard.

| Actions | Code |
|---|---|
| Login, BecomeLeader, Logout, CloseTab | startLeaderElection, Web Locks, stopLeaderElection and stopDrainLoop, the browser |
| Enqueue, Requeue, Discard, UserWrite | enqueue, requeueEntry, discardEntry |
| ReleaseNetworkBackoffs, ClearSchedule, ClearWrite | clearSchedulesWhere |
| RequestDrain, StartDrain, Rediscover, RecoverWrite, Claim, Dispatch, KeysUnavailable, EndDrain | drainOutbox and its workers, sendTargeted, recoverDiscoveryBlocked |
| Probe | sendApprovalProbe |
| ServerCommit | the server applies a request |
| AnswerAccepted, AnswerLost, AnswerRetryable, AnswerPermanent, AnswerApproval | sendMutations, sendMutationsWithRetry, and the read of markServerAccepted or recordFailure |
| AcceptWrite, AcceptLost, FailWrite | their writes |
| Release, ReleaseWrite, ReleaseLost, Released, Answered, Cleared | releaseApprovalHeld, clearNetworkSchedules inside processEntry |
| Reconcile, ReconcileFails, MarkWrite, Resolve, ResolveWrite | reconcile, markReconciled, resolveEntry |
| Janitor... | reconcileStuckEntries |

### Delivery.tla

What the outbox promises, without tabs or storage: an issued write is kept until
the server holds it or its author gave it up, and is delivered only after the
writes it waits for. `Restore` is there because a write stored from an older read
may bring mutations back after they were dropped (section 4): it may then go out
again, but still not early. `Outbox!Promised` is the refinement mapping, and
`DeliversAsPromised` the property.

### StorageSlot.tla

One slot of `user_storage` on one device. A process is one call that runs in some
tab: an edit (`upsertStorageEditLive`) or a recovery pass (`recoverIntents`). `op`
says where each call is and what it has read; each await between reading a record
and writing it is a step boundary. `intents` is the intent store in IndexedDB,
`rows` every signed revision of the slot by owner_timestamp, `outbox` the slot's
entries, `tip` the server's revision and `shape` the one the replicated collection
shows. `slotLock` is the Web Lock of the slot; the signing lock of an intent is
held by the calls past its claim (`SigningLocked`). `saved` (the edits found
durable) is a history variable.

| Actions | Code |
|---|---|
| FindNone, Find, Create, Merge, Store, NoKey | findUnresolvedStorageIntent, coalesceOrCreateStorageIntent, enqueueIntent, updateIntent |
| Claim, AlreadyClaimed, BaseUnavailable, Build | materializeSignEnqueueStorageIntent, pendingStorageBase, decideStorageBase, materializeStorageIntent |
| SignedBefore, Replay, Sign, Enqueue, Link | signAndDispatchIntentUnguarded, sendMutationsAndAwaitShape |
| Settle, Conflict, Retry | the settling of the call, the conflict rounds |
| Scan, AwaitUnlock, Mark, Resume, Unmark, Proceed | recoverIntents, markIntentAwaitingUnlock, resumeIntentAfterUnlock |
| Stop | the tab closes, or the session the call was pinned to ends |
| Deliver, LoseAnswer, ForeignWrite, Sync | the outbox as a slot sees it, the server, other devices, the shape |

The outbox is cut to what a slot sees of it: an entry waits for its dependencies
and is then accepted or refused for good. How it gets there is `Outbox`.

### DialogGate.tla

One dialog. A row is one presentation of a revision: two rows may name the same
revision, of which the shape holds one. `attempt` is where the admission of a row
stands between its two awaits (the author's card, the decrypted refs map); what runs
without an await, both cascades included, is one step. A cascade goes through a queue
the code iterates until nothing changes: `Drained` and `Dependents` are the least sets
closed under it. `caller` holds the page's loops, `tick` and `timer` the watcher and
the debounced scan that start them, `shown` the page's message cache.

| Actions | Code |
|---|---|
| ResolveCard, BadSignature, AwaitCard, NoKey, AdmitUnplaced, Judge | admitOnce, one action per outcome of the stretch between two awaits: finishInvalid, finishBlocked, parkPending, finishAdmitted, drainUnblocked, markTerminal |
| Deliver, KeyArrives, CardArrives | the shapes and the watcher on user_cards |
| Retry, RetryAuthor, RetryEnds | retryAwaitingCards and the page's loop over it |
| Scan, CallAdmit, ScanEnds | the page's decryption pass over the rows it holds |
| Reopen | the dialog is opened again |

### Handshake.tla

Two or more phones. A session is a phone and the number of its start; its nonce, its
connection and that connection's fingerprint are its own, so the session stands for
them. A camera may read any code that was ever drawn, of an earlier session too.

| Actions | Code |
|---|---|
| Start, CameraStarts, CameraFails, Stop | QRScannerEngine.vue: start, the camera, stop, the session counter |
| ReadA, ReadB, ReadC, ReadD | engine.ts: handle, by the kind of code that was read |
| SignFails, NoAddress, Shows, OwnPayload, FeedFails, Feeds, Confirms | what a read code waits for: the signature, the own payload, the connection, the confirmation |
| ChannelOpens, Arrives | the data channel: exchange, checkConfirm |
| Timeout | the deadlines of the session, the channel and the confirmation |

### ReadAccess.tla

The streams of gated collections, the sessions that open them and the server. A
generation lasts from one logout to the next. `opening` holds every open that is
under way, those of earlier generations too; `inflight` names the one others join.

| Actions | Code |
|---|---|
| Begin, Judge, RequestFails, Stale, Opened, NotInTrustChain, UnknownUser, CardMissing | readSession.ts: openSession, doOpen, requestSession and their outcomes, after each await |
| CardAccepted, CardFails | the card of an unknown user is passed once per session |
| Send, Receives, Refused, SignedIn | gatedStream: a request with or without a token, its answer, the 401, the wait for a sign-in |
| ProbeDue, ProbeAll, Renew | accessGate.ts: the probe timers and "check again"; the renewal timer |
| Login, Logout | the session guard, as seen here |
| Grants, Revokes, Frees, ForgetsCards, TokensEnd | the server |

### BackupRun.tla

The owner's devices over one storage slot. A run is one split: its wrap key, pieces
and vault. `slot` holds the backup's record and the reshare beside it, `pc` and `mine`
what each device's run does next and the record it last wrote; `chain` lists, for each
secret, the runs that made its versions.

| Actions | Code |
|---|---|
| StartFirst, StartReshare, Resume, FinishWithoutPendingNodes, TakeOver, Discard | the store's operations of those names |
| Publish, Superseded, Registered, Submit, GiveUp, Sign | advance: publication, the look at the version, the submission |
| Deposit, DepositFailed, Send, SendFailed, AllSent, Settled, Done | advance: deposits and sends side by side, retirement of the earlier vaults |
| Revoke, RetireRevoked | ownerAct, revoke, retireRevoked |
| Stops | the app closes or a call fails: before, during or after what it did outside |
| Lands, Reverts, Lost, OtherChange | the network, and another client of the owner |

### Abstractions

Of Outbox:

- A scan of the records is one step; the code reads them one by one.
- Time: a schedule is none, network or server; a scheduled attempt may be due at
  any moment, so a model run includes every order of due times.
- The in-process retries of `sendMutationsWithRetry` are one attempt; a lost
  answer leaves the request on the wire, where it may still be applied.
- `Prerequisites` is what discovery would find; it is cut to the entries queued at
  that moment. A blocked entry keeps in `deps` the boundary it observed.
- Releases of one acceptance are serialised per tab.
- Wakes between tabs are hints only: any tab may ask for a drain at any time.

Of StorageSlot:

- An edit is a JSON patch, known by name; a value is the set of edits it holds and
  merging is union. What `mergeJsonPatch` does inside a record is planned work.
- A revision's number is its owner_timestamp: `nextOwnerTimestamp` goes past the
  base, and the clocks of the devices are taken to agree.
- Discovery and the insertion of the entry are one step, and so are linking and
  resolving an intent. Reading all that a base is decided from is one step.
- The server takes a revision whose parent is its tip, or the tip once more. The
  rule is external: it is read off how `ingest.ts` and the conflict rounds treat
  the answers.
- Intent storage does not fail here, and nobody discards or requeues an entry.
- Keys that lock in the middle of a pass end it (`BaseUnavailable`); the mark that
  recovery then puts on the record is put by the next pass.

Of DialogGate: a signature verifies for what its row shows and a sign_hash names
one signature (`Genuine`); the order of a queue only decides which row a full queue
drops, so any row but the newest may be dropped; reactions and receipts
(`admitSideRow`) and scans outside the page are left out.

Of Handshake: the three seconds a finished engine keeps its channel open are taken
to be enough for a message that was sent. Deadlines may pass at any moment. The
camera stays on if a current start fails after a replaced one switched it on
(`QRScannerEngine.vue`:256-264); no property is about that.

Of ReadAccess: what an awaited promise resumes runs with the step that settles it.
Expiry is the server's not honouring a token. Timers of entries that were replaced
(a probe or a renewal that finds nothing to do), the answers `bad_proof` and
`unknown_shape`, and the delays of a probe are left out. A 401 invalidates the
shape's session even if a newer one was opened meanwhile, as in the code. In the
server's open mode (`Frees`) only "check again" wakes a parked stream.

Of BackupRun: an awaited call and the save after it are one step, with `Stops` for
every way of being cut short inside it; a check of the slot and the write it allows
are one step too (section 4). The ten minutes of REGISTRATION_WAIT are any delay.
The fee, alerts, spares, setPolicy, deadlines of payloads and a switch of account
are left out.

## 3. Runs

`CHECK_DEADLOCK FALSE` everywhere because each of these systems may stop: users need
do nothing, calls end, every write may be closed, and starts are bounded.

| Run | Instance | Checks |
|---|---|---|
| outbox_takeover | 2 tabs, 1 entry; one crash; lost answers, logout, discard, failing storage | TypeOK, SingleSender, DeliversAsPromised |
| outbox_stale_writes | 2 tabs, 1 entry; lost answers, requeue, discard, online, keys not open | VerdictsAreReal, NeverCorrupts |
| outbox_prerequisites | 1 tab, 2 entries, 2 workers; failing discovery, probes, failing storage | PrerequisitesFirst, NeverCorrupts, DeliversAsPromised |
| outbox_settles | 2 tabs, 1 entry; one crash, lost answers, discard, probes; fairness | Settles |
| slot_recovery | 1 edit, 2 passes, 1 foreign edit; one stop at any step; keys locked, no shape, lost answers | TypeOK, QueuedOnce, EditsKept |
| slot_conflicts | 2 edits, 1 foreign edit; lost answers | RetriesStartOver, NothingUndone |
| slot_arrives | 1 edit, 1 pass, 1 foreign edit; one stop, no shape, lost answers; fairness | EditsArrive |
| slot_overlap | 2 edits | EditsKept is violated |
| dialog_gate | a message, a forged presentation of it, an answer; 2 authors, 2 loops, queues of one; fairness | TypeOK, CausalOrder, NobodyWaitsInVain, OnlyDoomedEnds, ShownIsGenuine, AllShown |
| handshake | 2 phones, one starts twice; on the other, everything that may fail fails; fairness | TypeOK, ProvenInPerson, Agreement, CurrentUndisturbed, Meet |
| read_access | 2 streams of 2 shapes, 1 account, one logout or change of the server, failing requests; fairness | TypeOK, SingleFlight, NoForeignToken, NoParkedForgotten, CardNotRepeated, Approved |
| backup_run | 2 devices, 1 guardian, 2 nodes of which one is enough, 2 runs, 2 mishaps, 1 change by another client; fairness | TypeOK, SplitKept, NoPieceLost, OwnVersion, WayBack, RevokedGoes, NeverBack, Made |

Bounds, all constants. Outbox: `MaxCloses` (crashes), `Environment` (which kinds of
event may happen; within a run they happen any number of times), the sets of tabs and
entries, `DRAIN_CONCURRENCY`. Two tabs and one entry give every overlap of two
operations on one record, which is where records are overwritten; two entries in
one tab give dependencies, held shapes and two workers. Both at once exceed TLC's
reach (over two million states), so a race of two tabs over two dependent
entries is covered only by the proofs of section 5. Tabs are symmetric in the
runs without liveness; entries are not, since one depends on the other.

StorageSlot: `MaxStops`, `MAX_CONFLICT_RECONCILE_ATTEMPTS` (1 instead of 3: one
round that is lost and one that is given up), and the sets of edits, passes and
foreign edits. One foreign edit is enough for a conflict, two passes for every
overlap in recovering one intent, two edits for a write queued behind another.
`QueuedOnce` and `EditsKept` are checked with one edit in flight: where two overlap,
`slot_overlap` shows an edit lost, and the same overlap, with a stop, lets one intent
be queued twice; section 5 says under which condition both hold for any number of
edits. `RetriesStartOver` is checked without stops: a snapshot that was
signed and not queued when its call died is trusted as a base (`pendingStorageBase`)
and cannot be named by `excludeIds`, so a retry may build on it; it is then refused
again, and `NothingUndone` still holds. With `MaxStops = 1`, a pass and the whole
environment `RetriesStartOver` is violated that way: `a` signs, queues and links; `b`
signs on top of it and stops before it queues; `a` is refused because another device
wrote, and its retry builds on the snapshot of `b`. Section 5 says what has to be ruled out.

DialogGate: queues of one row are full as soon as a second row comes, so every drop
happens; two loops give every pair of callers that share an attempt. Handshake:
`MaxStarts` (two on one phone, so that codes of a stopped session are read in the
next) and `SIGN_ATTEMPTS` 2 instead of the code's number. ReadAccess: `MaxEvents`
counts logouts and changes of the server together; with 1 the run has 174 thousand
states, and a logout followed by a change of the server is left to the proofs.
BackupRun: `MaxRuns` 2 (a first backup and one more split of any kind), `MaxMishaps` 2
(stops, lost payloads, takeovers), `MaxOthers` 1; a threshold of one among two nodes
is the smallest case of "fewer than all". `Overtaking` is FALSE (section 4).

Fairness of Outbox (`FairSpec`): a tab that is open logs in and some tab leads; its loop
asks for the send lock again and again because it sets a timer for the next
attempt (`runLoopOnceUntracked`); what is under way inside a tab goes on
(weak fairness per tab and per entry); a request repeated for ever is applied and
answered, and reconciliation, repeated for ever, succeeds (strong fairness: the
environment may fail any finite number of times). Nothing is assumed of users, of
'online' or of which tab leads. `Settles` is stated for writes that are sendable
or accepted by the server, and lets a write wait for the approval of the device
owner. It is checked without the event 'online': with it, a second tab that
clears backoffs without end may each time store an older pending record over the
acceptance just stored, and the write is never closed. That is the overlap
behind `QuarantineStands` in section 4.

Fairness of StorageSlot: calls go on while their tab lives (weak); the base of a
draft can be read if it is tried for ever (strong: the shape is live at times); the
user comes back, so that each intent left is scanned by some pass again and again
(the listeners of `#startOutboxDrain` in `EncryptionManagerPQ.js`: login, 'online',
visibility, outbox wakes); entries that may go are sent, and the shape follows.

Fairness of DialogGate: attempts end and loops go on (both only await local work), and
the user comes back to a dialog that still shows unverified rows. `AllShown` asks
nothing of the network: it is about what happens once rows, cards and keys are here.
The last assumption is needed: a pass that joins an attempt which read the card as
absent leaves its row parked after the retry the card set off (`dialogGate.ts`:190,
`Page_Chat.vue`:137), and nothing but opening the dialog again moves it.

Fairness of Handshake: a phone that is held up reads what the other one shows, what was
awaited comes, and a payload read again and again is taken in the end (strong). Nobody
has to start, to stop or to run out of time.

Fairness of ReadAccess: code that awaits nobody else runs on, streams ask again, probe
timers fire (weak); a request that is made again and again is answered now and then
(strong). Not the renewal timer: reading does not depend on it.

Fairness of BackupRun: whoever drives a run goes on with it and continues it when it
stopped (weak; the person is asked to in the UI), the network takes or refuses what it
was handed now and then (strong). Calls that fail are not fair, and mishaps are bounded.

## 4. Where code and documents disagree

The run `slot_overlap`. An edit coalesces into an intent that another call is building.
`coalesceOrCreateStorageIntent` holds neither the slot lock nor the signing lock,
so its payload is overwritten by the snapshot signed from the older one; the edit
is then nowhere, and its caller was told 'syncing'. `EncryptionManagerPQ.js`:1965
says two updates never drop each other's change. In one tab slot writes queue
behind each other (`slots.ts`), so it takes two tabs, a recovery pass, or the root
slot. Dialog intents take the signing lock for the same step.

Four more disagreements are stated as properties in the modules and were found
violated by TLC; they have no run of their own. To see one, take the named
configuration with the change given and the property in place of its own.

- `Outbox!DiscardStands` (`OutboxStaleWrites.cfg`, `Environment = {"answersLost",
  "discard"}`). `recordFailure` reads a record and stores it two awaits later
  without the record lock; a discard in between is overwritten, and the discarded
  write is pending again and is sent. ADR `docs/adr-pq-mutation-lifecycle.md`
  section 8 has cancelling end a write.
- `Outbox!QuarantineStands` (the same, `Environment = {"answersLost", "online"}`).
  `clearSchedulesWhere` guards against a sender's outcome by the in-flight set of its
  own tab only; on 'online' another tab may store the pending record it read over a
  quarantine. ADR section 5 and `tests/outboxAdr.test.ts` have only a requeue or a
  discard end a quarantine.
- `StorageSlot!LaterEditsGoOut` (`SlotConflicts.cfg`). After a conflict was reconciled
  the refused entry stays in quarantine, and every later edit of the slot depends on it
  until the user acts. ADR section 5 lets a replacement by a newer mutation end a
  quarantine.
- `BackupRun!OvertakenNeverLands` (`BackupRun.cfg`, `Overtaking = TRUE`). `signBound`
  (`typedData.ts`:121-135) signs for the version it reads when it signs, not for the
  version the run was made for (`reshareOf.version`). A change that comes between the
  run's look and its signature is thus built upon, and a run that was told it was
  overtaken may still land: against `backupRun.ts`:391-392 and the comment on
  `canDiscard` (line 49). In the same instance `SplitKept` fails (the run that was
  overtaken by its own registration is discarded although its split is the current
  one), and with `MaxRuns = 3` `OwnVersion` too, against the comment at
  `backupRun.ts`:377. A signature is good for an hour (`typedData.ts`:44) and is
  waited for ten minutes, so such a late landing needs no clock that is off.

For the outbox, what survives overwriting is what the passing runs state: the record never
claims a verdict that was not given, and nothing is lost or sent early.

Noticed while reading the backup's code, and outside the models:

- A save of the slot that is queued offline, or a device suspended between `ours` and
  the write, lands later and replaces `run` wholesale (`recoveryBackup.store.js`:451-452, 520-523).
- A record's version never follows a change another client made (line 651), so every
  later reshare is superseded at once; "Discard this one and start again"
  (`backupRun.ts`:375) does not help there, only revoking does.
- `start` looks only at `slot.run`: two devices may start at once, and a revocation may
  race a reshare started elsewhere. A discard may race another device's submission.
- A tab closed between the dispatch of a revocation and its record leaves the record
  unrevoked; `retireRevoked` in flight while a new first backup publishes would remove
  that one too; `retirePending` is lost when a new run replaces the revoked record.

## 5. Proofs

Every theorem is for all values of the constants, from the module's one assumption
(`OutboxAssumption`, `SlotAssumption`, `GateAssumption`, ...) and what the table names.
A run shows the same property on a small instance.

| Theorem | States | Also assumed |
|---|---|---|
| OutboxProofs: TypeCorrect, VerdictsStayReal, SenderIsSingle | TypeOK, VerdictsAreReal, SingleSender | |
| OutboxDeliveryProofs: RecordsStayWellFormed, PrerequisitesGoFirst | NeverCorrupts, PrerequisitesFirst | |
| OutboxDeliveryProofs: OutboxDelivers | DeliversAsPromised, the refinement of Delivery | |
| StorageSlotProofs: SlotTyped, NothingIsUndone | TypeOK, NothingUndone | |
| StorageSlotProofs: QueuedOnceInTime, EditsKeptInTime | QueuedOnce, EditsKept | `[]InTime` |
| StorageSlotProofs: LoneEditQueuedOnce, LoneEditKept | QueuedOnce, EditsKept | one edit |
| StorageSlotProofs: RetriesStartOverAttended | RetriesStartOver | `[]Attended` |
| StorageSlotProofs: RetriesStartOverLive | RetriesStartOver | no stops, no recovery pass |
| StorageSlotProofs: RetriesStartOverInTime | RetriesStartOver | no stops, `[]InTime` |
| DialogGateProofs: GateTypeCorrect, PlacedInOrder, NoVainWaiting, OnlyDoomedGivenUp, OnlyGenuineShown | TypeOK, CausalOrder, NobodyWaitsInVain, OnlyDoomedEnds, ShownIsGenuine | |
| HandshakeProofs: HandshakeTypeCorrect, ProofIsInPerson, ConfirmedAgree, SessionUndisturbed | TypeOK, ProvenInPerson, Agreement, CurrentUndisturbed | |
| ReadAccessProofs: ReadAccessTypeCorrect, OneOpenPerShape, TokensAreOfThisSession, ParkedAreAttended, CardPassedOnce | TypeOK, SingleFlight, NoForeignToken, NoParkedForgotten, CardNotRepeated | |
| BackupRunProofs: TypeCorrect, PiecesAreNotLost, RunsNeverGoBack | TypeOK, NoPieceLost, NeverBack | |
| BackupRunChainProofs: RevokedBackupsGo | RevokedGoes | |
| BackupRunChainProofs: SplitsAreKept, VersionsAreOwn, WayBackStays | SplitKept, OwnVersion, WayBack | `Overtaking = FALSE` |

### Outbox

`VerdictsAreReal` is not inductive: a bad value may sit in `writes`, or a worker may be
about to produce one. `VerdictInv` adds that every pending write is backed (an
acceptance by the server's copy, a refusal by a refusal, a discard by the user's wish)
and that a worker or the janitor past the acceptance has one. The history only grows,
so the backing never goes away. `SingleSender` follows from `SenderInv`: a tab with
claimed entries holds the send lock. Logout is the interesting step: it gives up the
leadership but not the lock.

`RecordsInv` is what makes a write back from an old read harmless. Each stored record is
one that may be read again (`Fine`), and so is each that is on its way (`WriteFine`).
Until discovery has succeeded once, only operations under the record lock touch an entry
(`Untouched`, `Exclusive`). From then on all values of an entry, the stored one and every
pending one, agree on its prerequisites (`Agree`), and before that a late discovery only
leaves out what is delivered or given up (`Waived`). So a value stored from any older
read waits for the same entries, and a dispatched entry's prerequisites, in every value
that may be stored, are with the server (`DepsHeld`): that is `PrerequisitesFirst`, and
its first conjunct gives `NeverCorrupts`. `Agree` is the part that no test would reach: it
is about two values of one entry, read at different times by operations that know nothing
of each other.

`OutboxDelivers` maps each step to one of Delivery or a stutter. Steps that store no
record and commit nothing are not seen (`Unseen`); a stored record is `Waive`,
`Drop`, `Restore` or nothing, by the statuses before and after (`StoredRefines`); an
enqueue is `Issue` and the user's wish `Cancel` (`VisibleRefines`); the server's copy is
`Deliver`, whose guard is `PrerequisitesFirst` (`CommitRefines`). That mutations are
dropped only for a write that is delivered or cancelled comes from `VerdictInv`.

### StorageSlot

`SlotInv` adds to the types that every revision descends from an earlier one and keeps
its value (`Lineal`), and that the revisions, intents and entries which records and calls
name are there (`Known`, `Placed`). Without the second part a call could sign on a base
that never was. That the chosen base is among the trusted ones needs the greatest element
of a set, taken from the well-foundedness of the numbers (`MaxIsMember`).

`QueuedOnce` and `EditsKept` are false as they stand: `slot_overlap` is the counterexample.
`InTime` is the condition that was missing: when a call stores the edit it merged, the
record is what it read, and nobody is building, signing or marking it. The code does
not establish it, as the merge takes no lock; with the lock that dialog intents take it
would. Under `[]InTime`, `OnceInv` is inductive: a record never goes back from signed
to unsigned, the call that queues a snapshot is the only one past the claim of that
intent (`Busy`), and an entry's intent is signed with the very row of the entry.
`KeptInv` then follows the edit from the payload to the signed row (a draft's patch is
the payload it was built from), to the entry, to the server's value. Merges that are in
time are reachable, so the condition does not hold by excluding merges.

With one edit the condition holds of every behaviour (`NoMerge`: a call that finds an
open intent finds its own, and there is none), and the two properties hold
unconditionally, for any number of recovery passes, stops and foreign edits.

`RetriesStartOver` is about all revisions below a base and all entries behind those left
out. `Ancestors` and `Closure` are therefore defined as least closed sets, which lemmas
can speak of (`AboveLeast`, `AfterLeast`) where a recursion could not be unfolded. In
`RetryInv` every entry waits for the entry that brings its parent, unless the server has
that revision, no two entries bring the same one, and the base of a retry is `Grounded`:
on the server, or brought by an entry the retry does not leave out. The revisions that
are grounded are closed under parents, because an entry that waits for one left out is
left out itself; so all of them are below the base and none is an excluded one
(`RetryMeans`). An enqueue keeps it, because `Dependencies` names every open entry but
the excluded. A delivery keeps it, because the server only moves to a child of its tip.

The one thing the code does not see to is `Attended`: a snapshot that is signed and not
queued belongs to the call that holds the slot. Then nothing is such while another call
builds (`BasesGrounded`). A stop between signing and linking leaves one behind, and the
property fails as section 3 tells. Without stops `Attended` follows from the slot's lock,
held from the claim to the link (`HeldInv`), if what a call signs is the payload it
claimed (`CopyFits`): always where nothing is recovered, which is the run's own instance
for any number of edits and rounds, and under `[]InTime` with passes as well. TLC checked
`RetryInv` with stops and a pass, on the states that are attended (1.5 million).

### DialogGate

`GateInv` is the four safety properties with what they need: a row that is parked or
placed is genuine, an attempt past its first await has verified its row, a loop never
heard "verified" of another. The work is in the two cascades. `Drained` and `Dependents`
are least fixpoints, so their proofs go by closure and minimality rather than by
induction on the queue: `Drained` contains a row when all it cites is in, and any set
closed under draining contains it. `OnlyDoomedEnds` compares `terminal` with another
least fixpoint, `Doomed`, in the same way.

### Handshake

`IInv` is about one engine at a time (`Sane`: what its fields say of one another), about
an engine and its peer (`Vouched`, `Heard`, `Agrees`), about the codes that were drawn
(`CodesDrawn`: a code says what its session still stands for) and about the component
(`Unstarted`, `CurrentUndisturbed`). That an engine's peer, its having signed and what it
sent never change afterwards (`Keeps`) carries the facts about a peer over every
step of that peer.

### ReadAccess

`IInv` adds `Begun` (an open is of this generation or an earlier one), `Attended` (a
blocked shape is probed or about to be, and lists whoever waits) and `ToldTrue`, the
reason why no card is passed twice: an open that was told "unknown user" was told so
while the server had no card of this session, or knows that one was passed since.

### BackupRun

`Kept` says where a record may stand (`Places`), that a device which drives a run that is
still its own has the slot's record of it (`Driving`), and what a record says of its
pieces (`PiecesInv`). The steps are summed up twice, so that each invariant is proved
against a handful of cases and not against twenty actions: `Grows` (every record in the
slot is fresh or grown from one that was there) and, in `BackupRunChainProofs`, `Change`
(what a step is to the slot, the network and the vaults, whoever takes it).

`RevokedInv` ties what was handed to the network to the account record: its vault is
among those that retiring removes. `LineInv` says what the versions on chain are in terms
of the slot: one secret is alive (`OnlyOne`), a finished backup is the last version of this
client's (`DoneShows`), the active run is where its step says, one version ahead at most
(`ActiveShows`), and a payload still out there is stale or the active run's (`Bound`).
`WayBack` is inductive with these three.

`Overtaking = FALSE` says that no change of the secret falls between a run's look at its
version and its registration. The code does not see to that, and without it `SplitKept`
and `OwnVersion` are false (section 4); so this is as far as they go. `NoPieceLost`,
`NeverBack` and `RevokedGoes` need no such condition.

### What is only model-checked

- Liveness: Settles, EditsArrive, AllShown, Meet, Approved, Made. Fairness and ENABLED are
  outside the prover's reach.

Every invariant and action property a passing run checks is stated by a theorem.
`QueuedOnce`, `EditsKept`, `RetriesStartOver`, `SplitKept` and `OwnVersion` only hold under
the conditions of the table; that they fail without them is TLC's result (sections 3
and 4). For `WayBack` the condition is what the proof needs.

## 6. Not modelled

Of the outbox: the IndexedDB lease used where Web Locks are missing, the loop's
wake-ups as such, the cap of 1000 entries, corrupt-record quarantine and owner
sidecars. Of intents and slots: how dialog messages and user cards are built,
contact-access intents, claim tokens without Web Locks, full-value writes and
deletions, the slot map, disagreeing clocks. Of the coordinator: the dependency rules of
each relation and the freshness barrier. Of the gate: reactions and receipts, and the
choice of the tips a new message cites. Of the shape link: the life cycle that `settled()`
and `whenLive()` report. Of backups: spares, alerts, setPolicy, the fee, a change of
account, a save that lands late. Transfers and restore are in the plan; the last row of
section 1 is outside it: encryption, presentation, caches and vendored code hold no
protocol state of their own.

## 7. Plan

1. `Transfers`: batches restored after a reload (`transfers.store.js`). Worth checking there:
   `maybeSendBatch` looks at the status before an awaited capture; a cancel after the last
   chunk is ignored; restore reads the records before it takes the lock; a batch may be
   restored by a new sign-in while its old run still ends.
2. `StorageMerge`: `mergeJsonPatch` and its coalescing as operators (keyed, sticky
   and vault fields), compared with applying the patches in turn.
3. `SlotMap`: two tabs or devices that create one slot (`slots.ts`).
4. `DrainLoop` and `Lease`: wake-ups that are not lost; the fallback lease.
5. Dialog intents: `StorageSlot`'s signing with the builtFrom check. Restore.
