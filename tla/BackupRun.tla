----------------------------- MODULE BackupRun -----------------------------
(***************************************************************************)
(* A community backup as a run that survives a closed tab and moves to     *)
(* another device (src/lib/recovery/backupRun.ts), driven by the store     *)
(* (src/store/recoveryBackup.store.js) over one slot of the owner's        *)
(* storage, the network that registers secrets, the nodes, the guardians   *)
(* and the vaults of the account.                                          *)
(*                                                                         *)
(* A run is one split: its wrap key, its pieces, its vault, whose address  *)
(* the wrap key gives. A first run's secret is its own, as its label is    *)
(* random. An awaited call and the save that follows it are one step;      *)
(* Stops lets the app close, or the call fail, before, during and after    *)
(* it. A check of the slot and the write it allows are one step too: what  *)
(* a write does that lands late is told apart in the README. Ten minutes   *)
(* are any delay.                                                          *)
(***************************************************************************)
EXTENDS Naturals, FiniteSets, Sequences

CONSTANTS
    Device, Guardian, Node,
    NodeThreshold,
    MaxRuns,          \* bounds the splits made
    MaxMishaps,       \* bounds stops, lost payloads and takeovers together
    MaxOthers,        \* bounds the versions that another client makes
    Overtaking,       \* a secret may change between a run's look at it and its own registration
    NoDevice

ASSUME BackupRunAssumption ==
    /\ MaxRuns \in Nat /\ MaxMishaps \in Nat /\ MaxOthers \in Nat
    /\ IsFiniteSet(Node)
    /\ NodeThreshold \in Nat /\ NodeThreshold <= Cardinality(Node)   \* checkNodeSet
    /\ Overtaking \in BOOLEAN
    /\ NoDevice \notin Device

VARIABLES
    slot,         \* the backup slot: the backup's record and the reshare beside it
    pc,           \* Device -> what its run does next
    mine,         \* Device -> the run it drives
    out,          \* Device -> the nodes whose deposit has not ended
    broken,       \* the devices with a step that failed while deposits were out
    chain,        \* Run -> the runs that made its secret's versions, in order
    payloads,     \* signed payloads handed over and not settled
    dead,         \* the secrets revoked on the network
    deposits,     \* <<run, node>>: the node took its piece
    pieces,       \* <<run, guardian>>: the guardian was sent theirs
    live,         \* the runs whose vault can be fetched
    root,         \* the account record: the current vault and the stale ones
    born,         \* how many runs were prepared
    mishaps, others

outside == <<deposits, pieces, live, root>>
network == <<chain, payloads, dead, others>>
vars == <<slot, pc, mine, out, broken, network, outside, born, mishaps>>

Run == 1 .. MaxRuns
Other == 0
Steps == {"none", "prepared", "published", "submitted", "registered", "done", "discarded"}
Rec == [id : 0 .. MaxRuns, secret : 0 .. MaxRuns, of : Nat, version : Nat,
        step : Steps, device : Device \union {NoDevice},
        superseded : BOOLEAN, revoked : BOOLEAN, retirePending : BOOLEAN,
        owed : SUBSET Node, held : SUBSET Node, skipped : SUBSET Node,
        shares : SUBSET Guardian, sent : SUBSET Guardian]
NoRun == [id |-> 0, secret |-> 0, of |-> 0, version |-> 0, step |-> "none",
          device |-> NoDevice, superseded |-> FALSE, revoked |-> FALSE,
          retirePending |-> FALSE, owed |-> {}, held |-> {}, skipped |-> {},
          shares |-> {}, sent |-> {}]

\* A new split, with all its pieces.
Prepared(r, d, secret, of) ==
    [id |-> r, secret |-> secret, of |-> of, version |-> 0, step |-> "prepared",
     device |-> d, superseded |-> FALSE, revoked |-> FALSE, retirePending |-> FALSE,
     owed |-> Node, held |-> {}, skipped |-> {}, shares |-> Guardian, sent |-> {}]

Unfinished(rec) == rec.step \in {"prepared", "published", "submitted", "registered"}
ActiveIn(s) == IF Unfinished(s.reshare) THEN s.reshare
               ELSE IF Unfinished(s.run) THEN s.run ELSE NoRun
Active == ActiveIn(slot)
CanDiscard(rec) == \/ rec.step \in {"prepared", "published"}
                   \/ rec.of > 0 /\ rec.superseded
Finished(rec) == rec.step = "done" /\ ~rec.revoked
NodesPending(rec) == Node \ (rec.skipped \union rec.held)
VersionOf(secret) == Len(chain[secret])

Init ==
    /\ slot = [run |-> NoRun, reshare |-> NoRun]
    /\ pc = [d \in Device |-> "idle"]
    /\ mine = [d \in Device |-> NoRun]
    /\ out = [d \in Device |-> {}]
    /\ broken = {}
    /\ chain = [r \in Run |-> <<>>]
    /\ payloads = {} /\ dead = {} /\ deposits = {} /\ pieces = {} /\ live = {}
    /\ root = [current |-> 0, stale |-> {}]
    /\ born = 0 /\ mishaps = 0 /\ others = 0

-----------------------------------------------------------------------------
(* What a save writes: a reshare goes beside the record until it is done,  *)
(* then takes its place, but never that of a revoked one.                  *)

Promoted(record, done) ==
    [done EXCEPT !.secret = record.secret, !.of = 0, !.superseded = FALSE, !.revoked = record.revoked]

Saved(rec) ==
    IF rec.of = 0 THEN [slot EXCEPT !.run = rec]
    ELSE IF rec.step # "done" \/ slot.run.step = "none" \/ slot.run.revoked
         THEN [slot EXCEPT !.reshare = rec]
         ELSE [run |-> Promoted(slot.run, rec), reshare |-> NoRun]

\* Mutant: the run is known by its id alone, whichever device drives it.
OursByRun(d) == Active.id = mine[d].id

\* The slot still names this device as its run's.
Ours(d) == Active.id = mine[d].id /\ Active.device = d

Stop(d) ==
    /\ pc' = [pc EXCEPT ![d] = "idle"]
    /\ mine' = [mine EXCEPT ![d] = NoRun]
    /\ out' = [out EXCEPT ![d] = {}]
    /\ broken' = broken \ {d}

\* d drives rec from its step on.
Drive(d, rec) ==
    /\ mine' = [mine EXCEPT ![d] = rec]
    /\ pc' = [pc EXCEPT ![d] = CASE rec.step = "prepared" -> "publish"
                                 [] rec.step = "registered" -> "deal"
                                 [] OTHER -> "look"]
    /\ out' = [out EXCEPT ![d] = IF rec.step = "registered" THEN NodesPending(rec) ELSE {}]
    /\ broken' = broken \ {d}

\* rec is in the slot before anything else is done; d goes on at `next`.
Step(d, rec, next) ==
    /\ slot' = Saved(rec)
    /\ mine' = [mine EXCEPT ![d] = rec]
    /\ pc' = [pc EXCEPT ![d] = next]

TakenOver(d) == ~Ours(d) /\ Stop(d) /\ UNCHANGED slot

Mishap == mishaps < MaxMishaps /\ mishaps' = mishaps + 1

-----------------------------------------------------------------------------
(* A person starts, continues, takes over, shortens or drops a run.        *)

StartFirst(d) ==
    /\ pc[d] = "idle" /\ born < MaxRuns
    /\ slot.run.step \in {"none", "discarded"} \/ slot.run.revoked
    /\ LET rec == Prepared(born + 1, d, born + 1, 0)
       IN slot' = Saved(rec) /\ Drive(d, rec)
    /\ born' = born + 1
    /\ UNCHANGED <<network, outside, mishaps>>

StartReshare(d) ==
    /\ pc[d] = "idle" /\ born < MaxRuns
    /\ Finished(slot.run) /\ ~Unfinished(slot.reshare)
    /\ LET rec == Prepared(born + 1, d, slot.run.secret, slot.run.version)
       IN slot' = Saved(rec) /\ Drive(d, rec)
    /\ born' = born + 1
    /\ UNCHANGED <<network, outside, mishaps>>

Resume(d) ==
    /\ pc[d] = "idle" /\ Active.device = d
    /\ Drive(d, Active)
    /\ UNCHANGED <<slot, network, outside, born, mishaps>>

FinishWithoutPendingNodes(d) ==
    /\ pc[d] = "idle" /\ Active.device = d /\ Active.step = "registered"
    /\ Cardinality(Active.held) >= NodeThreshold
    /\ LET rec == [Active EXCEPT !.skipped = @ \union NodesPending(Active)]
       IN slot' = Saved(rec) /\ Drive(d, rec)
    /\ UNCHANGED <<network, outside, born, mishaps>>

TakeOver(d) ==
    /\ pc[d] = "idle" /\ Active.device \notin {d, NoDevice}
    /\ LET rec == [Active EXCEPT !.device = d]
       IN slot' = Saved(rec) /\ Drive(d, rec)
    /\ Mishap
    /\ UNCHANGED <<network, outside, born>>

Discard(d) ==
    /\ pc[d] = "idle" /\ CanDiscard(Active)
    /\ slot' = IF Active.of > 0 THEN [slot EXCEPT !.reshare = NoRun]
               ELSE [slot EXCEPT !.run.step = "discarded"]
    /\ UNCHANGED <<pc, mine, out, broken, network, outside, born, mishaps>>

-----------------------------------------------------------------------------
(* advance: a run goes on until it is done or a step cannot finish.        *)

\* Mutant: the vault it replaces joins the stale ones, whether there is one or not.
CurrentUnchecked(r) == [current |-> r, stale |-> (root.stale \union {root.current}) \ {r}]

\* The vault it replaces joins the stale ones.
Current(r) == [current |-> r, stale |-> (root.stale \union {root.current}) \ {0, r}]

Publish(d) ==
    /\ pc[d] = "publish"
    /\ LET r == mine[d].id IN
       \/ /\ Ours(d)
          /\ live' = live \union {r}
          /\ root' = Current(r)
          /\ Step(d, [mine[d] EXCEPT !.step = "published"], "look")
          /\ UNCHANGED <<out, broken>>
       \/ TakenOver(d) /\ UNCHANGED <<live, root>>
    /\ UNCHANGED <<network, deposits, pieces, born, mishaps>>

\* A reshare is on the network at exactly the next version, a first run at any.
Landed(rec) == VersionOf(rec.secret) > 0
               /\ (rec.of > 0 => VersionOf(rec.secret) = rec.of + 1)
\* Mutant: a next version is this run's, sent or not.
MovedFurther(rec) == rec.of > 0 /\ VersionOf(rec.secret) > rec.of + 1

Moved(rec) == rec.of > 0 /\ (\/ VersionOf(rec.secret) > rec.of + 1
                             \/ VersionOf(rec.secret) > rec.of /\ rec.step = "published")

Superseded(d) ==
    /\ pc[d] \in {"look", "wait"} /\ Moved(mine[d])
    /\ \/ Ours(d) /\ slot' = Saved([mine[d] EXCEPT !.superseded = TRUE]) /\ Stop(d)
       \/ TakenOver(d)
    /\ UNCHANGED <<network, outside, born, mishaps>>

Registered(d) ==
    /\ pc[d] \in {"look", "wait"} /\ Landed(mine[d]) /\ ~Moved(mine[d])
    /\ LET rec == [mine[d] EXCEPT !.step = "registered", !.version = VersionOf(mine[d].secret)] IN
       \/ /\ Ours(d)
          /\ Step(d, rec, "deal")
          /\ out' = [out EXCEPT ![d] = NodesPending(rec)]
          /\ UNCHANGED broken
       \/ TakenOver(d)
    /\ UNCHANGED <<network, outside, born, mishaps>>

NotYet(d) == pc[d] = "look" /\ ~Landed(mine[d]) /\ ~Moved(mine[d])

\* Mutant: the registration leaves before its step is saved.
SubmitUnsaved(d) ==
    /\ NotYet(d)
    /\ \/ /\ Ours(d)
          /\ pc' = [pc EXCEPT ![d] = "sign"]
          /\ UNCHANGED <<slot, mine, out, broken>>
       \/ TakenOver(d)
    /\ UNCHANGED <<network, outside, born, mishaps>>

\* Mutant: a submission is never handed over again.
SubmitOnce(d) ==
    /\ NotYet(d) /\ mine[d].step = "published"
    /\ \/ /\ Ours(d)
          /\ Step(d, [mine[d] EXCEPT !.step = "submitted"], "sign")
          /\ UNCHANGED <<out, broken>>
       \/ TakenOver(d)
    /\ UNCHANGED <<network, outside, born, mishaps>>

\* The step is saved before the registration leaves. A stale one is handed over again;
\* until it is stale the run looks on, or gives up and is continued later.
Submit(d) ==
    /\ NotYet(d)
    /\ \/ /\ Ours(d)
          /\ Step(d, [mine[d] EXCEPT !.step = "submitted"], "sign")
          /\ UNCHANGED <<out, broken>>
       \/ TakenOver(d)
    /\ UNCHANGED <<network, outside, born, mishaps>>

GiveUp(d) ==
    /\ pc[d] = "wait" /\ ~Landed(mine[d]) /\ ~Moved(mine[d])
    /\ Stop(d)
    /\ UNCHANGED <<slot, network, outside, born, mishaps>>

\* addSecret is for a label that has no secret; a reshare for the version read as it is signed.
Payload(rec) == [run |-> rec.id, secret |-> rec.secret,
                 bound |-> IF rec.of = 0 THEN 0 ELSE VersionOf(rec.secret)]

Sign(d) ==
    /\ pc[d] = "sign"
    /\ \/ /\ Ours(d)
          /\ payloads' = payloads \union {Payload(mine[d])}
          /\ pc' = [pc EXCEPT ![d] = "wait"]
          /\ UNCHANGED <<slot, mine, out, broken>>
       \/ TakenOver(d) /\ UNCHANGED payloads
    /\ UNCHANGED <<chain, dead, others, outside, born, mishaps>>

\* A step recorded beside others: the run goes on from the record as the last one left it.
Aside(d, rec) ==
    \/ Ours(d) /\ Step(d, rec, pc[d]) /\ UNCHANGED broken
    \/ ~Ours(d) /\ broken' = broken \union {d} /\ UNCHANGED <<slot, mine, pc>>

\* Mutant: a node that failed to take its piece counts as having it.
DepositFailedKeeps(d, n) ==
    /\ n \in out[d]
    /\ out' = [out EXCEPT ![d] = @ \ {n}]
    /\ Mishap
    /\ deposits' = deposits
    /\ Aside(d, [mine[d] EXCEPT !.held = @ \union {n}, !.owed = @ \ {n}])
    /\ UNCHANGED <<network, pieces, live, root, born>>

Deposit(d, n) ==
    /\ n \in out[d]
    /\ out' = [out EXCEPT ![d] = @ \ {n}]
    /\ deposits' = deposits \union {<<mine[d].id, n>>}
    /\ Aside(d, [mine[d] EXCEPT !.held = @ \union {n}, !.owed = @ \ {n}])
    /\ UNCHANGED <<network, pieces, live, root, born, mishaps>>

\* The node refused, or its answer was lost.
DepositFailed(d, n) ==
    /\ n \in out[d]
    /\ out' = [out EXCEPT ![d] = @ \ {n}]
    /\ Mishap
    /\ deposits' \in {deposits, deposits \union {<<mine[d].id, n>>}}
    /\ Aside(d, mine[d])
    /\ UNCHANGED <<network, pieces, live, root, born>>

Send(d, g) ==
    /\ pc[d] = "deal" /\ g \in Guardian \ mine[d].sent
    /\ pieces' = pieces \union {<<mine[d].id, g>>}
    /\ \/ /\ Ours(d)
          /\ Step(d, [mine[d] EXCEPT !.sent = @ \union {g}], "deal")
          /\ UNCHANGED broken
       \/ /\ ~Ours(d)
          /\ pc' = [pc EXCEPT ![d] = "settle"]
          /\ broken' = broken \union {d}
          /\ UNCHANGED <<slot, mine>>
    /\ UNCHANGED <<out, network, deposits, live, root, born, mishaps>>

\* A send that fails lets the deposits land and be recorded before the run stops.
SendFailed(d) ==
    /\ pc[d] = "deal" /\ mine[d].sent # Guardian
    /\ pc' = [pc EXCEPT ![d] = "settle"]
    /\ broken' = broken \union {d}
    /\ Mishap
    /\ UNCHANGED <<slot, mine, out, network, outside, born>>

AllSent(d) ==
    /\ pc[d] = "deal" /\ mine[d].sent = Guardian
    /\ pc' = [pc EXCEPT ![d] = "settle"]
    /\ UNCHANGED <<slot, mine, out, broken, network, outside, born, mishaps>>

\* Mutant: a send that failed does not keep the run from its end.
SettledAnyway(d) ==
    /\ pc[d] = "settle" /\ out[d] = {}
    /\ IF NodesPending(mine[d]) # {}
       THEN Stop(d)
       ELSE pc' = [pc EXCEPT ![d] = "retire"] /\ UNCHANGED <<mine, out, broken>>
    /\ UNCHANGED <<slot, network, outside, born, mishaps>>

Settled(d) ==
    /\ pc[d] = "settle" /\ out[d] = {}
    /\ IF d \in broken \/ NodesPending(mine[d]) # {}
       THEN Stop(d)
       ELSE pc' = [pc EXCEPT ![d] = "retire"] /\ UNCHANGED <<mine, out, broken>>
    /\ UNCHANGED <<slot, network, outside, born, mishaps>>

\* Every piece is out: the earlier vaults go, and the pieces leave the record.
Done(d) ==
    /\ pc[d] = "retire"
    /\ \/ /\ Ours(d)
          /\ live' = live \ (root.stale \ {mine[d].id})
          /\ root' = [root EXCEPT !.stale = @ \intersect {mine[d].id}]
          /\ slot' = Saved([mine[d] EXCEPT !.step = "done", !.owed = {}, !.shares = {}])
          /\ Stop(d)
       \/ TakenOver(d) /\ UNCHANGED <<live, root>>
    /\ UNCHANGED <<network, deposits, pieces, born, mishaps>>

-----------------------------------------------------------------------------
(* Revoking a finished backup, and removing every copy of its vault.       *)

\* Mutant: the record says that it is revoked, not that copies are to go.
RevokeOnly(d) ==
    /\ pc[d] = "idle" /\ Finished(slot.run) /\ ~Unfinished(slot.reshare)
    /\ dead' = dead \union {slot.run.secret}
    /\ slot' = [slot EXCEPT !.run.revoked = TRUE]
    /\ UNCHANGED <<pc, mine, out, broken, chain, payloads, others, outside, born, mishaps>>

\* The network takes it, and the record then says so and that the copies are to go.
Revoke(d) ==
    /\ pc[d] = "idle" /\ Finished(slot.run) /\ ~Unfinished(slot.reshare)
    /\ dead' = dead \union {slot.run.secret}
    /\ slot' = [slot EXCEPT !.run.revoked = TRUE, !.run.retirePending = TRUE]
    /\ UNCHANGED <<pc, mine, out, broken, chain, payloads, others, outside, born, mishaps>>

RetireRevoked(d) ==
    /\ slot.run.revoked /\ slot.run.retirePending
    /\ live' = live \ (root.stale \union {root.current})
    /\ root' = [current |-> 0, stale |-> {}]
    /\ slot' = [slot EXCEPT !.run.retirePending = FALSE]
    /\ UNCHANGED <<pc, mine, out, broken, network, deposits, pieces, born, mishaps>>

-----------------------------------------------------------------------------
(* The app closes or a call throws; the network settles what it was handed.*)

\* What was on its way when d stopped may have arrived.
Stops(d) ==
    /\ pc[d] # "idle" /\ Mishap
    /\ LET r == mine[d].id IN
       /\ \E N \in SUBSET out[d] : deposits' = deposits \union {<<r, n>> : n \in N}
       /\ \E G \in SUBSET (Guardian \ mine[d].sent) :
             /\ Cardinality(G) <= (IF pc[d] = "deal" THEN 1 ELSE 0)
             /\ pieces' = pieces \union {<<r, g>> : g \in G}
       /\ \/ UNCHANGED <<payloads, live, root>>
          \/ /\ pc[d] = "sign" /\ Ours(d)
             /\ payloads' = payloads \union {Payload(mine[d])}
             /\ UNCHANGED <<live, root>>
          \/ /\ pc[d] = "publish" /\ Ours(d)
             /\ live' = live \union {r}
             /\ root' \in {root, Current(r)}
             /\ UNCHANGED payloads
          \/ /\ pc[d] = "retire" /\ Ours(d)
             /\ \E V \in SUBSET (root.stale \ {r}) :
                   live' = live \ V /\ root' = [root EXCEPT !.stale = @ \ V]
             /\ UNCHANGED payloads
    /\ Stop(d)
    /\ UNCHANGED <<slot, chain, dead, others, born>>

Lands(p) ==
    /\ p \in payloads /\ p.bound = VersionOf(p.secret) /\ p.secret \notin dead
    /\ Overtaking \/ \A d \in Device : pc[d] = "sign" => mine[d].id # p.run
    /\ chain' = [chain EXCEPT ![p.secret] = Append(@, p.run)]
    /\ payloads' = payloads \ {p}
    /\ UNCHANGED <<slot, pc, mine, out, broken, dead, others, outside, born, mishaps>>

Reverts(p) ==
    /\ p \in payloads /\ (p.bound # VersionOf(p.secret) \/ p.secret \in dead)
    /\ payloads' = payloads \ {p}
    /\ UNCHANGED <<slot, pc, mine, out, broken, chain, dead, others, outside, born, mishaps>>

Lost(p) ==
    /\ p \in payloads /\ Mishap
    /\ payloads' = payloads \ {p}
    /\ UNCHANGED <<slot, pc, mine, out, broken, chain, dead, others, outside, born>>

\* Another client of the owner reshares a finished backup.
OtherChange ==
    /\ others < MaxOthers /\ slot.run.step = "done" /\ slot.run.secret \notin dead
    /\ Overtaking \/ slot.reshare.step \notin {"submitted", "registered"}
    /\ others' = others + 1
    /\ chain' = [chain EXCEPT ![slot.run.secret] = Append(@, Other)]
    /\ UNCHANGED <<slot, pc, mine, out, broken, payloads, dead, outside, born, mishaps>>

-----------------------------------------------------------------------------
Advance(d) ==
    \/ Publish(d) \/ Superseded(d) \/ Registered(d) \/ Submit(d) \/ GiveUp(d)
    \/ Sign(d) \/ \E n \in Node : Deposit(d, n) \/ DepositFailed(d, n)
    \/ (\E g \in Guardian : Send(d, g)) \/ SendFailed(d) \/ AllSent(d) \/ Settled(d) \/ Done(d)
Asked(d) ==
    \/ StartFirst(d) \/ StartReshare(d) \/ Resume(d) \/ FinishWithoutPendingNodes(d)
    \/ TakeOver(d) \/ Discard(d) \/ Revoke(d) \/ RetireRevoked(d) \/ Stops(d)
Settles == \E p \in payloads : Lands(p) \/ Reverts(p) \/ Lost(p)

Next == (\E d \in Device : Advance(d) \/ Asked(d)) \/ Settles \/ OtherChange
Spec == Init /\ [][Next]_vars

GoesOn(d) ==
    \/ Resume(d) \/ Publish(d) \/ Superseded(d) \/ Registered(d) \/ Submit(d) \/ GiveUp(d) \/ Sign(d)
    \/ (\E n \in Node : Deposit(d, n)) \/ (\E g \in Guardian : Send(d, g))
    \/ AllSent(d) \/ Settled(d) \/ Done(d)

\* Whoever drives a run goes on with it and continues it when it stopped; calls that
\* go on failing are bounded; a submission given up is stale at the next look; the
\* network takes or refuses what it is handed now and then.
FairSpec ==
    /\ Spec
    /\ \A d \in Device : WF_vars(GoesOn(d))
    /\ SF_vars(\E p \in payloads : Lands(p) \/ Reverts(p))

-----------------------------------------------------------------------------
(* Properties.                                                             *)

\* The state is typed, and payloads are signed for versions the secret has had.
TypeOK ==
    /\ slot \in [run : Rec, reshare : Rec]
    /\ pc \in [Device -> {"idle", "publish", "look", "sign", "wait", "deal", "settle", "retire"}]
    /\ mine \in [Device -> Rec]
    /\ out \in [Device -> SUBSET Node]
    /\ broken \subseteq Device
    /\ chain \in [Run -> Seq(Run \union {Other})]
    /\ payloads \subseteq [run : Run, secret : Run, bound : Nat]
    /\ dead \subseteq Run
    /\ deposits \subseteq Run \X Node /\ pieces \subseteq Run \X Guardian
    /\ live \subseteq Run
    /\ root \in [current : 0 .. MaxRuns, stale : SUBSET Run]
    /\ born \in 0 .. MaxRuns /\ mishaps \in 0 .. MaxMishaps /\ others \in 0 .. MaxOthers

InSlot == {slot.run, slot.reshare}
Latest(s) == chain[s][Len(chain[s])]

\* The split whose pieces count on the network is in the owner's slot, until the
\* backup is revoked or another client made the version: a client that registers and
\* then loses its split can only reshare.
SplitKept ==
    \A s \in Run : chain[s] # <<>> /\ s \notin dead /\ Latest(s) # Other =>
        \E rec \in InSlot : rec.id = Latest(s) /\ rec.step \in {"submitted", "registered", "done"}

\* A piece leaves the record only once it is where it belongs, or its node was left
\* out while enough others have theirs; what is still owed can be sent.
NoPieceLost ==
    \A rec \in InSlot : rec.step \notin {"none", "discarded"} =>
        /\ \A n \in Node \ rec.owed : <<rec.id, n>> \in deposits \/ n \in rec.skipped
        /\ \A g \in Guardian \ rec.shares : <<rec.id, g>> \in pieces
        /\ Unfinished(rec) => NodesPending(rec) \subseteq rec.owed
        /\ rec.skipped # {} => Cardinality(rec.held) >= NodeThreshold

\* A run that is registered or done was made that version of its secret by its own
\* registration, not by a change that another made.
OwnVersion ==
    \A rec \in InSlot : rec.step \in {"registered", "done"} =>
        rec.version \in 1 .. VersionOf(rec.secret) /\ chain[rec.secret][rec.version] = rec.id

Covers(r) ==
    /\ r \in live
    /\ \A g \in Guardian : <<r, g>> \in pieces
    /\ Cardinality({n \in Node : <<r, n>> \in deposits}) >= NodeThreshold

\* While a backup stands on the network there is a way back: the vault of a version is
\* gone only when a later version of this client's stands in its place, its vault
\* live and its pieces out.
WayBack ==
    \A s \in Run \ dead : \A i \in 1 .. Len(chain[s]) :
        chain[s][i] # Other /\ chain[s][i] \notin live =>
            \E j \in i + 1 .. Len(chain[s]) : chain[s][j] # Other /\ Covers(chain[s][j])

\* A revoked backup says so, and that copies of it are to go as long as one is left.
RevokedGoes ==
    slot.run.secret \in dead =>
        /\ slot.run.revoked
        /\ slot.run.retirePending
           \/ \A i \in 1 .. VersionOf(slot.run.secret) : chain[slot.run.secret][i] \notin live

Rank == [none |-> 1, prepared |-> 2, published |-> 3, submitted |-> 4,
         registered |-> 5, done |-> 6, discarded |-> 7]
StepOf(r) == LET own == {rec \in InSlot : rec.id = r}
             IN IF own = {} THEN "none" ELSE (CHOOSE rec \in own : TRUE).step

\* A run in the slot never goes back: a device it was taken from writes nothing more.
NeverBack ==
    [][\A r \in Run : StepOf(r)' # "none" => Rank[StepOf(r)] <= Rank[StepOf(r)']]_vars

\* What canDiscard is told: a reshare that another change overtook can never land.
OvertakenNeverLands ==
    \A rec \in InSlot : rec.superseded =>
        \A s \in Run : \A i \in 1 .. Len(chain[s]) : chain[s][i] # rec.id

\* A run that is driven on gets done, or is dropped, overtaken by another change or revoked.
Made ==
    Active.id # 0 ~> (Active.id = 0 \/ Active.superseded \/ Active.secret \in dead)
=============================================================================
