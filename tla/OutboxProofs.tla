---------------------------- MODULE OutboxProofs ----------------------------
(***************************************************************************)
(* Theorems about Outbox for any set of tabs and entries, checked by TLAPS. *)
(***************************************************************************)
EXTENDS Outbox, TLAPS

USE DEF sessions, sender, helpers, server

-----------------------------------------------------------------------------
(* The values the operators build.                                         *)

LEMMA MarkerTyped ==
    ASSUME NEW s \in Status
    PROVE  Marker(s) \in Record
BY DEF Marker, Absent, Record, Status, Schedule

LEMMA WriteTyped ==
    ASSUME NEW t \in Tab, NEW op \in Ops, NEW e \in Entry, NEW r \in Record
    PROVE  PendingWrite(t, op, e, r) \in Write
BY DEF PendingWrite, Write

LEMMA FailedTyped ==
    ASSUME NEW r \in Record,
           NEW kind \in {"network", "server", "permanent", "approval"}
    PROVE  Failed(r, kind) \in Record
BY DEF Failed, Record, Status, Schedule

LEMMA OpsListed ==
    /\ LockedOps \subseteq Ops
    /\ {"requeue", "discard", "release", "recover", "accept", "reconcile",
        "resolve", "fail", "janitorReconcile", "janitorResolve", "clear"} = Ops
BY DEF Ops, LockedOps, SenderOps, JanitorOps

\* Whatever is stored was typed when it was read.
LEMMA StoreTyped ==
    ASSUME TypeOK, NEW t, NEW op, NEW e \in Entry, Store(t, op, e)
    PROVE  rec' \in [Entry -> Record] /\ writes' \subseteq Write
BY DEF TypeOK, Store, Write

LEMMA LoseTyped ==
    ASSUME TypeOK, NEW t, NEW op, NEW e \in Entry, Lose(t, op, e)
    PROVE  rec' \in [Entry -> Record] /\ writes' \subseteq Write
BY DEF TypeOK, Lose

LEMMA ElementsTyped ==
    ASSUME TypeOK, NEW t \in Tab, NEW e \in Entry
    PROVE  rec[e] \in Record /\ job[t][e] \in Job
BY DEF TypeOK

LEMMA DrainElement ==
    ASSUME TypeOK, NEW t \in Tab
    PROVE  drain[t] \in Drain
BY DEF TypeOK

LEMMA RecordUpdates ==
    ASSUME NEW r \in Record
    PROVE  /\ [r EXCEPT !.sched = "none"] \in Record
           /\ [r EXCEPT !.reconciled = TRUE] \in Record
           /\ [r EXCEPT !.held = FALSE] \in Record
           /\ [r EXCEPT !.status = "pending", !.sched = "none"] \in Record
           /\ Accepted(r) \in Record
BY DEF Record, Status, Schedule, Accepted

LEMMA RediscoveredTyped ==
    ASSUME NEW r \in Record, NEW found \in BOOLEAN
    PROVE  Rediscovered(r, found) \in Record
BY DEF Rediscovered, Record

LEMMA DrainUpdates ==
    ASSUME NEW d \in Drain, NEW b \in BOOLEAN, NEW s \in SUBSET Entry
    PROVE  /\ [d EXCEPT !.stopped = b] \in Drain
           /\ [d EXCEPT !.answered = b] \in Drain
           /\ [d EXCEPT !.recover = s] \in Drain
           /\ [d EXCEPT !.requested = b, !.recover = s] \in Drain
           /\ [d EXCEPT !.recover = s, !.stopped = b] \in Drain
BY DEF Drain

\* One drain changes.
LEMMA DrainTypedBy ==
    ASSUME TypeOK, NEW t \in Tab, NEW d \in Drain
    PROVE  [drain EXCEPT ![t] = d] \in [Tab -> Drain]
BY DEF TypeOK

\* One job changes.
LEMMA JobTyped ==
    ASSUME TypeOK, NEW t \in Tab, NEW e \in Entry, NEW j \in Job
    PROVE  [job EXCEPT ![t] = [job[t] EXCEPT ![e] = j]]
               \in [Tab -> [Entry -> Job]]
BY DEF TypeOK

LEMMA AtTyped ==
    ASSUME TypeOK, NEW t \in Tab, NEW e \in Entry, NEW s \in SenderStage,
           At(t, e, s)
    PROVE  job' \in [Tab -> [Entry -> Job]]
<1> DEFINE j == [job[t][e] EXCEPT !.at = s]
<1> HIDE DEF j
<1>0. job[t][e] \in Job
  BY DEF TypeOK
<1>1. j \in Job
  BY <1>0 DEF Job, j
<1>2. job' = [job EXCEPT ![t] = [job[t] EXCEPT ![e] = j]]
  BY DEF At, TypeOK, j
<1> QED
  BY <1>1, <1>2, JobTyped

LEMMA SettledTyped ==
    ASSUME TypeOK, NEW t \in Tab, NEW e \in Entry, Settled(t, e)
    PROVE  /\ job' \in [Tab -> [Entry -> Job]]
           /\ probing' \in [Tab -> SUBSET Entry]
BY DEF TypeOK, Settled, Job, Idle, SenderStage

LEMMA JanitorAtTyped ==
    ASSUME TypeOK, NEW t \in Tab, NEW e \in Entry, NEW s \in JanitorStage,
           JanitorAt(t, e, s)
    PROVE  janitor' \in [Tab -> [Entry -> JanitorStage]]
BY DEF TypeOK, JanitorAt

LEMMA RecordFailureTyped ==
    ASSUME TypeOK, NEW t \in Tab, NEW e \in Entry,
           NEW kind \in {"network", "server", "permanent", "approval"},
           NEW others \in SUBSET writes, RecordFailure(t, e, kind, others)
    PROVE  /\ writes' \subseteq Write
           /\ job' \in [Tab -> [Entry -> Job]]
           /\ probing' \in [Tab -> SUBSET Entry]
<1>1. others \subseteq Write
  BY DEF TypeOK
<1>2. CASE rec[e].status \in {"pending", "quarantined"}
  <2>1. Failed(rec[e], kind) \in Record
    BY FailedTyped DEF TypeOK
  <2>2. PendingWrite(t, "fail", e, Failed(rec[e], kind)) \in Write
    BY <2>1, WriteTyped, OpsListed
  <2>3. "failing" \in SenderStage
    BY DEF SenderStage
  <2> QED
    BY <1>1, <1>2, <2>2, <2>3, AtTyped DEF RecordFailure, TypeOK
<1>3. CASE rec[e].status \notin {"pending", "quarantined"}
  BY <1>1, <1>3, SettledTyped DEF RecordFailure
<1> QED
  BY <1>2, <1>3

LEMMA AfterMarkTyped ==
    ASSUME TypeOK, NEW t \in Tab, NEW e \in Entry, NEW recorded, NEW records,
           AfterMark(t, e, recorded, records)
    PROVE  job' \in [Tab -> [Entry -> Job]]
<1>1. CASE recorded /\ job[t][e].held
  <2> DEFINE freed == {f \in Entry : /\ records[f].held
                                    /\ ShapeOf[f] = ShapeOf[e]}
  <2> DEFINE j == [job[t][e] EXCEPT !.at = "releasing", !.todo = freed]
  <2>1. job[t][e] \in Job
    BY DEF TypeOK
  <2>2. "releasing" \in SenderStage /\ freed \in SUBSET Entry
    BY DEF SenderStage
  <2>3. j \in Job
    BY <2>1, <2>2 DEF Job
  <2>4. job' = [job EXCEPT ![t] = [job[t] EXCEPT ![e] = j]]
    BY <1>1 DEF AfterMark, TypeOK
  <2> QED
    BY <2>3, <2>4, JobTyped
<1>2. CASE ~(recorded /\ job[t][e].held)
  <2>1. "answered" \in SenderStage
    BY DEF SenderStage
  <2> QED
    BY <1>2, <2>1, AtTyped DEF AfterMark
<1> QED
  BY <1>1, <1>2

-----------------------------------------------------------------------------
(* Every step keeps the types.                                             *)

LEMMA SessionTyped ==
    ASSUME TypeOK, NEW t \in Tab,
           \/ SessionStep(t)
           \/ \E scope \in SUBSET Entry : RequestDrain(t, scope)
           \/ StartDrain(t) \/ EndDrain(t)
           \/ ReleaseNetworkBackoffs(t) \/ JanitorStart(t)
    PROVE  TypeOK'
<1>1. CASE Login(t)
  BY <1>1 DEF TypeOK, Login
<1>2. CASE Logout(t)
  <2>1. \A b \in BOOLEAN : [drain[t] EXCEPT !.stopped = b] \in Drain
    BY DrainElement, DrainUpdates
  <2> QED
    BY <1>2, <2>1 DEF TypeOK, Logout
<1>3. CASE BecomeLeader(t)
  BY <1>3 DEF TypeOK, BecomeLeader
<1>4. CASE CloseTab(t)
  <2>1. closes' \in 0 .. MaxCloses
    BY <1>4, OutboxAssumption DEF TypeOK, CloseTab
  <2>2. NoDrain \in Drain /\ [e \in Entry |-> Idle] \in [Entry -> Job]
    BY DEF NoDrain, Drain, Idle, Job, SenderStage
  <2>3. [e \in Entry |-> "idle"] \in [Entry -> JanitorStage]
    BY DEF JanitorStage
  <2> QED
    BY <1>4, <2>1, <2>2, <2>3 DEF TypeOK, CloseTab
<1>5. ASSUME NEW scope \in SUBSET Entry, RequestDrain(t, scope)
      PROVE  TypeOK'
  BY <1>5 DEF TypeOK, RequestDrain, NoDrain, Drain
<1>6. CASE StartDrain(t)
  <2> DEFINE r == IF drain[t].scope = Entry
                  THEN {e \in Entry : rec[e].blocked} ELSE {}
             d == [drain[t] EXCEPT !.requested = FALSE, !.recover = r]
  <2>1. r \in SUBSET Entry
    OBVIOUS
  <2> HIDE DEF r
  <2>2. d \in Drain
    BY <2>1, DrainElement, DrainUpdates
  <2>3. drain' = [drain EXCEPT ![t] = d]
    BY <1>6 DEF TypeOK, StartDrain, r
  <2> HIDE DEF d
  <2>4. drain' \in [Tab -> Drain]
    BY <2>2, <2>3, DrainTypedBy
  <2> QED
    BY <1>6, <2>4 DEF TypeOK, StartDrain
<1>7. CASE EndDrain(t)
  BY <1>7 DEF TypeOK, EndDrain, NoDrain, Drain
<1>8. CASE ReleaseNetworkBackoffs(t)
  BY <1>8 DEF TypeOK, ReleaseNetworkBackoffs
<1>9. CASE JanitorStart(t)
  BY <1>9 DEF TypeOK, JanitorStart, JanitorStage
<1> QED
  BY <1>1, <1>2, <1>3, <1>4, <1>5, <1>6, <1>7, <1>8, <1>9 DEF SessionStep

LEMMA UserTyped ==
    ASSUME TypeOK, NEW t \in Tab, NEW e \in Entry, UserStep(t, e)
    PROVE  TypeOK'
<1>1. ASSUME NEW failed \in BOOLEAN, Enqueue(t, e, failed)
      PROVE  TypeOK'
  <2> DEFINE deps == {d \in Prerequisites[e] :
                        /\ rec[d].status # "absent"
                        /\ failed \/ rec[d].status \notin {"accepted", "discarded"}}
  <2>1. deps \in SUBSET Entry
    BY OutboxAssumption
  <2>2. [Absent EXCEPT !.status = "pending", !.blocked = failed, !.deps = deps]
            \in Record
    BY <2>1 DEF Absent, Record, Status, Schedule
  <2>3. rec' = [rec EXCEPT ![e] = [Absent EXCEPT !.status = "pending",
                                                !.blocked = failed, !.deps = deps]]
    BY <1>1 DEF Enqueue
  <2> QED
    BY <1>1, <2>2, <2>3 DEF TypeOK, Enqueue
<1>2. CASE Discard(t, e)
  <2>1. PendingWrite(t, "discard", e, Marker("discarded")) \in Write
    BY MarkerTyped, WriteTyped, OpsListed DEF Status
  <2> QED
    BY <1>2, <2>1 DEF TypeOK, Discard
<1>3. CASE Requeue(t, e)
  <2> DEFINE r == [rec[e] EXCEPT !.status = "pending", !.sched = "none"]
  <2>1. r \in Record
    BY ElementsTyped, RecordUpdates
  <2>2. PendingWrite(t, "requeue", e, r) \in Write
    BY <2>1, WriteTyped, OpsListed
  <2> QED
    BY <1>3, <2>2 DEF TypeOK, Requeue
<1>4. CASE Probe(t, e)
  BY <1>4 DEF TypeOK, Probe
<1>5. ASSUME NEW op \in LockedOps, UserWrite(t, op, e)
      PROVE  TypeOK'
  BY <1>5, StoreTyped, LoseTyped DEF TypeOK, UserWrite
<1> QED
  BY <1>1, <1>2, <1>3, <1>4, <1>5 DEF UserStep

LEMMA DrainTyped ==
    ASSUME TypeOK, NEW t \in Tab, NEW e \in Entry, DrainStep(t, e)
    PROVE  TypeOK'
<1>1. ASSUME NEW found \in BOOLEAN, Rediscover(t, e, found)
      PROVE  TypeOK'
  <2>1. Rediscovered(rec[e], found) \in Record
    BY ElementsTyped, RediscoveredTyped
  <2>2. PendingWrite(t, "recover", e, Rediscovered(rec[e], found)) \in Write
    BY <2>1, WriteTyped, OpsListed
  <2>3. writes' \subseteq Write
    BY <1>1, <2>2 DEF TypeOK, Rediscover
  <2> drain[t].recover \ {e} \in SUBSET Entry
    BY DrainElement DEF Drain
  <2>4. [drain[t] EXCEPT !.recover = @ \ {e}] \in Drain
    BY DrainElement, DrainUpdates
  <2> QED
    BY <1>1, <2>3, <2>4 DEF TypeOK, Rediscover
<1>2. CASE RecoverWrite(t, e)
  <2>1. rec' \in [Entry -> Record] /\ writes' \subseteq Write
    BY <1>2, StoreTyped, LoseTyped DEF RecoverWrite
  <2>2. [drain[t] EXCEPT !.recover = {}, !.stopped = TRUE] \in Drain
    BY DrainElement, DrainUpdates
  <2> QED
    BY <1>2, <2>1, <2>2 DEF TypeOK, RecoverWrite
<1>3. CASE Claim(t, e)
  <2>1. [Idle EXCEPT !.at = "claimed", !.held = rec[e].held] \in Job
    BY DEF TypeOK, Idle, Job, SenderStage, Record
  <2>2. job' \in [Tab -> [Entry -> Job]]
    BY <1>3, <2>1, JobTyped DEF TypeOK, Claim
  <2> QED
    BY <1>3, <2>2 DEF TypeOK, Claim
<1>4. CASE Dispatch(t, e)
  <2>1. /\ [job[t][e] EXCEPT !.at = "sending"] \in Job
        /\ Idle \in Job
    BY ElementsTyped DEF Idle, Job, SenderStage
  <2>2. job' \in [Tab -> [Entry -> Job]]
    BY <1>4, <2>1, JobTyped DEF TypeOK, Dispatch
  <2> QED
    BY <1>4, <2>2 DEF TypeOK, Dispatch
<1>5. CASE KeysUnavailable(t, e)
  <2>1. /\ job' \in [Tab -> [Entry -> Job]]
        /\ probing' \in [Tab -> SUBSET Entry]
    BY <1>5, SettledTyped DEF KeysUnavailable
  <2>2. [drain[t] EXCEPT !.stopped = TRUE] \in Drain
    BY DrainElement, DrainUpdates
  <2> QED
    BY <1>5, <2>1, <2>2 DEF TypeOK, KeysUnavailable
<1> QED
  BY <1>1, <1>2, <1>3, <1>4, <1>5 DEF DrainStep

LEMMA AnswerTyped ==
    ASSUME TypeOK, NEW t \in Tab, NEW e \in Entry, AnswerStep(t, e)
    PROVE  TypeOK'
<1>1. CASE AnswerAccepted(t, e)
  <2> DEFINE r == Accepted(rec[e])
  <2>1. r \in Record
    BY ElementsTyped, RecordUpdates
  <2>2. PendingWrite(t, "accept", e, r) \in Write
    BY <2>1, WriteTyped, OpsListed
  <2>3. "accepting" \in SenderStage
    BY DEF SenderStage
  <2>4. job' \in [Tab -> [Entry -> Job]]
    BY <1>1, <2>3, AtTyped, AfterMarkTyped DEF AnswerAccepted
  <2>5. writes' \subseteq Write
    BY <1>1, <2>2 DEF TypeOK, AnswerAccepted
  <2> QED
    BY <1>1, <2>4, <2>5 DEF TypeOK, AnswerAccepted
<1>2. CASE AnswerLost(t, e)
  <2>1. /\ writes' \subseteq Write
        /\ job' \in [Tab -> [Entry -> Job]]
        /\ probing' \in [Tab -> SUBSET Entry]
    BY <1>2, RecordFailureTyped DEF AnswerLost
  <2> QED
    BY <1>2, <2>1 DEF TypeOK, AnswerLost
<1>3. CASE AnswerRetryable(t, e)
  <2>1. /\ writes' \subseteq Write
        /\ job' \in [Tab -> [Entry -> Job]]
        /\ probing' \in [Tab -> SUBSET Entry]
    BY <1>3, RecordFailureTyped DEF AnswerRetryable
  <2> QED
    BY <1>3, <2>1 DEF TypeOK, AnswerRetryable
<1>4. CASE AnswerPermanent(t, e)
  <2>1. /\ writes' \subseteq Write
        /\ job' \in [Tab -> [Entry -> Job]]
        /\ probing' \in [Tab -> SUBSET Entry]
    BY <1>4, RecordFailureTyped DEF AnswerPermanent
  <2> QED
    BY <1>4, <2>1 DEF TypeOK, AnswerPermanent
<1>5. CASE AnswerApproval(t, e)
  <2>1. /\ writes' \subseteq Write
        /\ job' \in [Tab -> [Entry -> Job]]
        /\ probing' \in [Tab -> SUBSET Entry]
    BY <1>5, RecordFailureTyped DEF AnswerApproval
  <2> QED
    BY <1>5, <2>1 DEF TypeOK, AnswerApproval
<1> QED
  BY <1>1, <1>2, <1>3, <1>4, <1>5 DEF AnswerStep

LEMMA SettleTyped ==
    ASSUME TypeOK, NEW t \in Tab, NEW e \in Entry, SettleStep(t, e)
    PROVE  TypeOK'
<1> {"answered", "clearing", "reconciling", "marking", "resolving", "closing",
     "releasing"} \subseteq SenderStage
  BY DEF SenderStage
<1>1. CASE AcceptWrite(t, e)
  <2>1. rec' \in [Entry -> Record] /\ writes' \subseteq Write
    BY <1>1, StoreTyped DEF AcceptWrite
  <2>2. job' \in [Tab -> [Entry -> Job]]
    BY <1>1, AfterMarkTyped DEF AcceptWrite
  <2> QED
    BY <1>1, <2>1, <2>2 DEF TypeOK, AcceptWrite
<1>2. CASE AcceptLost(t, e)
  <2>1. /\ writes' \subseteq Write
        /\ job' \in [Tab -> [Entry -> Job]]
        /\ probing' \in [Tab -> SUBSET Entry]
    BY <1>2, RecordFailureTyped DEF AcceptLost
  <2> QED
    BY <1>2, <2>1 DEF TypeOK, AcceptLost
<1>3. CASE FailWrite(t, e)
  <2>1. rec' \in [Entry -> Record] /\ writes' \subseteq Write
    BY <1>3, StoreTyped, LoseTyped DEF FailWrite
  <2>2. /\ job' \in [Tab -> [Entry -> Job]]
        /\ probing' \in [Tab -> SUBSET Entry]
    BY <1>3, SettledTyped DEF FailWrite
  <2> QED
    BY <1>3, <2>1, <2>2 DEF TypeOK, FailWrite
<1>4. ASSUME NEW f \in Entry, Release(t, e, f)
      PROVE  TypeOK'
  <2> DEFINE j == [job[t][e] EXCEPT
                       !.todo = job[t][e].todo \ {f},
                       !.at = IF rec[f].held THEN "freeing" ELSE "releasing"]
             r == [rec[f] EXCEPT !.held = FALSE]
  <2>1. job[t][e] \in Job /\ rec[f] \in Record
    BY DEF TypeOK
  <2>2. j \in Job
    BY <2>1 DEF Job, SenderStage
  <2>3. PendingWrite(t, "release", f, r) \in Write
    BY <2>1, WriteTyped, OpsListed DEF Record
  <2>6. job' = [job EXCEPT ![t] = [job[t] EXCEPT ![e] = j]]
    BY <1>4 DEF Release, TypeOK
  <2> HIDE DEF j
  <2>4. job' \in [Tab -> [Entry -> Job]]
    BY <2>2, <2>6, JobTyped
  <2>5. writes' \subseteq Write
    BY <1>4, <2>3 DEF TypeOK, Release
  <2> QED
    BY <1>4, <2>4, <2>5 DEF TypeOK, Release
<1>5. ASSUME NEW f \in Entry, ReleaseWrite(t, e, f)
      PROVE  TypeOK'
  <2>1. rec' \in [Entry -> Record] /\ writes' \subseteq Write
    BY <1>5, StoreTyped DEF ReleaseWrite
  <2>2. job' \in [Tab -> [Entry -> Job]]
    BY <1>5, AtTyped DEF ReleaseWrite
  <2> QED
    BY <1>5, <2>1, <2>2 DEF TypeOK, ReleaseWrite
<1>6. ASSUME NEW f \in Entry, ReleaseLost(t, e, f)
      PROVE  TypeOK'
  <2>1. /\ writes' \subseteq Write
        /\ job' \in [Tab -> [Entry -> Job]]
        /\ probing' \in [Tab -> SUBSET Entry]
    BY <1>6, RecordFailureTyped DEF ReleaseLost
  <2> QED
    BY <1>6, <2>1 DEF TypeOK, ReleaseLost
<1>7. CASE Released(t, e)
  <2>1. job' \in [Tab -> [Entry -> Job]]
    BY <1>7, AtTyped DEF Released
  <2> QED
    BY <1>7, <2>1 DEF TypeOK, Released
<1>8. CASE Answered(t, e)
  <2>1. job' \in [Tab -> [Entry -> Job]]
    BY <1>8, AtTyped DEF Answered
  <2>2. [drain[t] EXCEPT !.answered = TRUE] \in Drain
    BY DrainElement, DrainUpdates
  <2>3. drain' \in [Tab -> Drain]
    BY <1>8, <2>2, DrainTypedBy DEF TypeOK, Answered
  <2>4. sweep' \in [Tab -> SUBSET Entry]
    <3> {f \in Entry : WaitsForNetwork(f)} \in SUBSET Entry
      OBVIOUS
    <3> QED
      BY <1>8 DEF TypeOK, Answered
  <2> QED
    BY <1>8, <2>1, <2>3, <2>4 DEF TypeOK, Answered
<1>9. CASE Cleared(t, e)
  <2>1. job' \in [Tab -> [Entry -> Job]]
    BY <1>9, AtTyped DEF Cleared
  <2> QED
    BY <1>9, <2>1 DEF TypeOK, Cleared
<1>10. CASE Reconcile(t, e)
  <2>1. [rec[e] EXCEPT !.reconciled = TRUE] \in Record
    BY ElementsTyped, RecordUpdates
  <2> PendingWrite(t, "reconcile", e, [rec[e] EXCEPT !.reconciled = TRUE]) \in Write
    BY <2>1, WriteTyped, OpsListed
  <2>2. writes' \subseteq Write
    BY <1>10 DEF TypeOK, Reconcile
  <2>3. job' \in [Tab -> [Entry -> Job]]
    BY <1>10, AtTyped DEF Reconcile
  <2> QED
    BY <1>10, <2>2, <2>3 DEF TypeOK, Reconcile
<1>11. CASE ReconcileFails(t, e)
  BY <1>11, SettledTyped DEF TypeOK, ReconcileFails
<1>12. CASE MarkWrite(t, e)
  <2>1. rec' \in [Entry -> Record] /\ writes' \subseteq Write
    BY <1>12, StoreTyped, LoseTyped DEF MarkWrite
  <2>2. /\ job' \in [Tab -> [Entry -> Job]]
        /\ probing' \in [Tab -> SUBSET Entry]
    BY <1>12, AtTyped, SettledTyped DEF MarkWrite, TypeOK
  <2> QED
    BY <1>12, <2>1, <2>2 DEF TypeOK, MarkWrite
<1>13. CASE Resolve(t, e)
  <2>1. PendingWrite(t, "resolve", e, Marker("accepted")) \in Write
    BY MarkerTyped, WriteTyped, OpsListed DEF Status
  <2>2. writes' \subseteq Write
    BY <1>13, <2>1 DEF TypeOK, Resolve
  <2>3. /\ job' \in [Tab -> [Entry -> Job]]
        /\ probing' \in [Tab -> SUBSET Entry]
    BY <1>13, AtTyped, SettledTyped DEF Resolve, TypeOK
  <2> QED
    BY <1>13, <2>2, <2>3 DEF TypeOK, Resolve
<1>14. CASE ResolveWrite(t, e)
  <2>1. rec' \in [Entry -> Record] /\ writes' \subseteq Write
    BY <1>14, StoreTyped, LoseTyped DEF ResolveWrite
  <2>2. /\ job' \in [Tab -> [Entry -> Job]]
        /\ probing' \in [Tab -> SUBSET Entry]
    BY <1>14, SettledTyped DEF ResolveWrite
  <2> QED
    BY <1>14, <2>1, <2>2 DEF TypeOK, ResolveWrite
<1> QED
  BY <1>1, <1>2, <1>3, <1>4, <1>5, <1>6, <1>7, <1>8, <1>9, <1>10, <1>11,
     <1>12, <1>13, <1>14 DEF SettleStep

LEMMA JanitorTyped ==
    ASSUME TypeOK, NEW t \in Tab, NEW e \in Entry, JanitorStep(t, e)
    PROVE  TypeOK'
<1> {"idle", "marking", "resolving", "closing"} \subseteq JanitorStage
  BY DEF JanitorStage
<1>1. CASE JanitorReconcile(t, e)
  <2>1. [rec[e] EXCEPT !.reconciled = TRUE] \in Record
    BY ElementsTyped, RecordUpdates
  <2> PendingWrite(t, "janitorReconcile", e, [rec[e] EXCEPT !.reconciled = TRUE]) \in Write
    BY <2>1, WriteTyped, OpsListed
  <2>2. writes' \subseteq Write
    BY <1>1 DEF TypeOK, JanitorReconcile
  <2>3. janitor' \in [Tab -> [Entry -> JanitorStage]]
    BY <1>1, JanitorAtTyped DEF JanitorReconcile
  <2> QED
    BY <1>1, <2>2, <2>3 DEF TypeOK, JanitorReconcile
<1>2. CASE JanitorReconcileFails(t, e)
  <2>1. janitor' \in [Tab -> [Entry -> JanitorStage]]
    BY <1>2, JanitorAtTyped DEF JanitorReconcileFails
  <2> QED
    BY <1>2, <2>1 DEF TypeOK, JanitorReconcileFails
<1>3. CASE JanitorMark(t, e)
  <2>1. rec' \in [Entry -> Record] /\ writes' \subseteq Write
    BY <1>3, StoreTyped, LoseTyped DEF JanitorMark
  <2>2. janitor' \in [Tab -> [Entry -> JanitorStage]]
    BY <1>3, JanitorAtTyped DEF JanitorMark
  <2> QED
    BY <1>3, <2>1, <2>2 DEF TypeOK, JanitorMark
<1>4. CASE JanitorResolve(t, e)
  <2>1. PendingWrite(t, "janitorResolve", e, Marker("accepted")) \in Write
    BY MarkerTyped, WriteTyped, OpsListed DEF Status
  <2>2. writes' \subseteq Write
    BY <1>4, <2>1 DEF TypeOK, JanitorResolve
  <2>3. janitor' \in [Tab -> [Entry -> JanitorStage]]
    BY <1>4, JanitorAtTyped DEF JanitorResolve
  <2> QED
    BY <1>4, <2>2, <2>3 DEF TypeOK, JanitorResolve
<1>5. CASE JanitorClose(t, e)
  <2>1. rec' \in [Entry -> Record] /\ writes' \subseteq Write
    BY <1>5, StoreTyped, LoseTyped DEF JanitorClose
  <2>2. janitor' \in [Tab -> [Entry -> JanitorStage]]
    BY <1>5, JanitorAtTyped DEF JanitorClose
  <2> QED
    BY <1>5, <2>1, <2>2 DEF TypeOK, JanitorClose
<1> QED
  BY <1>1, <1>2, <1>3, <1>4, <1>5 DEF JanitorStep

LEMMA SweepTyped ==
    ASSUME TypeOK, NEW t \in Tab, NEW e \in Entry, SweepStep(t, e)
    PROVE  TypeOK'
<1>1. CASE ClearSchedule(t, e)
  <2>1. [rec[e] EXCEPT !.sched = "none"] \in Record
    BY ElementsTyped, RecordUpdates
  <2>2. writes' \subseteq Write
    BY <1>1, <2>1, WriteTyped, OpsListed DEF TypeOK, ClearSchedule
  <2> QED
    BY <1>1, <2>2 DEF TypeOK, ClearSchedule
<1>2. CASE ClearWrite(t, e)
  <2>1. rec' \in [Entry -> Record] /\ writes' \subseteq Write
    BY <1>2, StoreTyped, LoseTyped DEF ClearWrite
  <2> QED
    BY <1>2, <2>1 DEF TypeOK, ClearWrite
<1> QED
  BY <1>1, <1>2 DEF SweepStep

\* Every variable keeps its type: the model is closed under its own steps for any
\* tabs and entries, which the other theorems rest on.
THEOREM TypeCorrect == Spec => []TypeOK
<1>1. Init => TypeOK
  BY OutboxAssumption
  DEF Init, TypeOK, Absent, Record, Status, Schedule, NoDrain, Drain, Idle, Job,
      SenderStage, JanitorStage
<1>2. TypeOK /\ [Next]_vars => TypeOK'
  <2> SUFFICES ASSUME TypeOK, [Next]_vars PROVE TypeOK'
    OBVIOUS
  <2>1. ASSUME NEW t \in Tab, TabStep(t) PROVE TypeOK'
    BY <2>1, SessionTyped DEF TabStep
  <2>2. ASSUME NEW t \in Tab, NEW e \in Entry, EntryStep(t, e) PROVE TypeOK'
    BY <2>2, UserTyped, DrainTyped, AnswerTyped, SettleTyped, JanitorTyped,
       SweepTyped DEF EntryStep
  <2>3. ASSUME NEW e \in Entry, ServerCommit(e) PROVE TypeOK'
    BY <2>3 DEF TypeOK, ServerCommit
  <2>4. CASE UNCHANGED vars
    BY <2>4 DEF TypeOK, vars
  <2> QED
    BY <2>1, <2>2, <2>3, <2>4 DEF Next
<1> QED
  BY <1>1, <1>2, PTL DEF Spec

-----------------------------------------------------------------------------
(* VerdictsAreReal is not inductive: a stored verdict comes from a write    *)
(* that was decided before, and an acceptance from a worker or a janitor     *)
(* that is already past the answer. VerdictInv adds what these promise.      *)

AfterAnswer == {"accepting", "releasing", "freeing", "answered", "clearing",
                "reconciling", "marking", "resolving", "closing"}

VerdictInv ==
    /\ VerdictsAreReal
    /\ \A w \in writes : Backed(w.new, w.entry)
    /\ \A t \in Tab, e \in Entry : job[t][e].at \in AfterAnswer => e \in committed
    /\ \A t \in Tab, e \in Entry : janitor[t][e] # "idle" => e \in committed

\* What a step may do to each of them.
Grows == /\ committed \subseteq committed'
         /\ refused \subseteq refused'
         /\ asked \subseteq asked'
RecSound ==
    \A f \in Entry : \/ rec'[f] = rec[f]
                     \/ \E w \in writes : w.entry = f /\ rec'[f] = w.new
                     \/ rec'[f].status = "pending"
WritesSound == \A w \in writes' : w \in writes \/ Backed(w.new, w.entry)'
JobSound ==
    \A u \in Tab, f \in Entry :
        job'[u][f].at \in AfterAnswer => job[u][f].at \in AfterAnswer \/ f \in committed
JanitorSound ==
    \A u \in Tab, f \in Entry :
        janitor'[u][f] # "idle" => janitor[u][f] # "idle" \/ f \in committed

LEMMA SoundStep ==
    ASSUME VerdictInv, Grows, RecSound, WritesSound, JobSound, JanitorSound
    PROVE  VerdictInv'
<1>1. \A f \in Entry : Backed(rec[f], f)'
  BY DEF VerdictInv, VerdictsAreReal, Grows, RecSound, Backed
<1>2. \A w \in writes' : Backed(w.new, w.entry)'
  BY DEF VerdictInv, Grows, WritesSound, Backed
<1>3. \A t \in Tab, e \in Entry :
          /\ job'[t][e].at \in AfterAnswer => e \in committed'
          /\ janitor'[t][e] # "idle" => e \in committed'
  BY DEF VerdictInv, Grows, JobSound, JanitorSound
<1> QED
  BY <1>1, <1>2, <1>3 DEF VerdictInv, VerdictsAreReal

LEMMA StoreSound ==
    ASSUME TypeOK, NEW t, NEW op, NEW e \in Entry, Store(t, op, e)
    PROVE  RecSound /\ writes' \subseteq writes
BY DEF TypeOK, Store, RecSound

LEMMA LoseSound ==
    ASSUME TypeOK, NEW t, NEW op, NEW e \in Entry, Lose(t, op, e)
    PROVE  RecSound /\ writes' \subseteq writes
BY DEF TypeOK, Lose, RecSound

LEMMA OneWrite ==
    ASSUME Grows, NEW t, NEW op, NEW e, NEW r, Backed(r, e),
           writes' \subseteq writes \union {PendingWrite(t, op, e, r)}
    PROVE  WritesSound
BY DEF Grows, WritesSound, Backed, PendingWrite

LEMMA OneJob ==
    ASSUME TypeOK, NEW t \in Tab, NEW e \in Entry, NEW j,
           job' = [job EXCEPT ![t] = [job[t] EXCEPT ![e] = j]],
           j.at \notin AfterAnswer \/ e \in committed
    PROVE  JobSound
BY DEF TypeOK, JobSound

LEMMA AtSound ==
    ASSUME TypeOK, NEW t \in Tab, NEW e \in Entry, NEW s, At(t, e, s),
           s \notin AfterAnswer \/ e \in committed
    PROVE  JobSound
<1> DEFINE j == [job[t][e] EXCEPT !.at = s]
<1>1. job' = [job EXCEPT ![t] = [job[t] EXCEPT ![e] = j]]
  BY DEF At, TypeOK
<1>2. j.at = s
  BY ElementsTyped DEF Job
<1> HIDE DEF j
<1> QED
  BY <1>1, <1>2, OneJob

LEMMA SettledSound ==
    ASSUME TypeOK, NEW t \in Tab, NEW e \in Entry, Settled(t, e)
    PROVE  JobSound
<1>1. job' = [job EXCEPT ![t] = [job[t] EXCEPT ![e] = Idle]]
  BY DEF Settled, TypeOK
<1>2. Idle.at \notin AfterAnswer
  BY DEF Idle, AfterAnswer
<1> QED
  BY <1>1, <1>2, OneJob

LEMMA AfterMarkSound ==
    ASSUME TypeOK, NEW t \in Tab, NEW e \in Entry, NEW recorded, NEW records,
           AfterMark(t, e, recorded, records), e \in committed
    PROVE  JobSound
<1>1. CASE recorded /\ job[t][e].held
  <2> DEFINE j == [job[t][e] EXCEPT
                     !.at = "releasing",
                     !.todo = {f \in Entry : /\ records[f].held
                                             /\ ShapeOf[f] = ShapeOf[e]}]
  <2>1. job' = [job EXCEPT ![t] = [job[t] EXCEPT ![e] = j]]
    BY <1>1 DEF AfterMark, TypeOK
  <2> HIDE DEF j
  <2> QED
    BY <2>1, OneJob
<1>2. CASE ~(recorded /\ job[t][e].held)
  BY <1>2, AtSound DEF AfterMark
<1> QED
  BY <1>1, <1>2

LEMMA RecordFailureSound ==
    ASSUME TypeOK, VerdictsAreReal, Grows,
           NEW t \in Tab, NEW e \in Entry,
           NEW kind \in {"network", "server", "permanent", "approval"},
           NEW others \in SUBSET writes, RecordFailure(t, e, kind, others),
           kind = "permanent" => e \in refused'
    PROVE  WritesSound /\ JobSound
<1>1. CASE rec[e].status \in {"pending", "quarantined"}
  <2> DEFINE r == Failed(rec[e], kind)
             w == PendingWrite(t, "fail", e, r)
  <2>1. r.status \in {"pending", "quarantined"}
        /\ (r.status = "quarantined" =>
               kind = "permanent" \/ rec[e].status = "quarantined")
    BY <1>1, ElementsTyped DEF Failed, Record
  <2>2. Backed(rec[e], e)
    BY DEF VerdictsAreReal
  <2> HIDE DEF r
  <2>3. w.new = r /\ w.entry = e
    BY DEF PendingWrite
  <2>4. w.new.status = "quarantined" => w.entry \in refused'
    BY <1>1, <2>1, <2>2, <2>3 DEF Backed, Grows
  <2>5. writes' = others \union {w} /\ At(t, e, "failing")
    BY <1>1 DEF RecordFailure, r
  <2> HIDE DEF w
  <2>6. WritesSound
    BY <2>1, <2>3, <2>4, <2>5 DEF WritesSound, Backed
  <2> QED
    BY <2>5, <2>6, AtSound DEF AfterAnswer
<1>2. CASE rec[e].status \notin {"pending", "quarantined"}
  BY <1>2, SettledSound DEF RecordFailure, WritesSound
<1> QED
  BY <1>1, <1>2

LEMMA JanitorAtSound ==
    ASSUME TypeOK, NEW t \in Tab, NEW e \in Entry, NEW s, JanitorAt(t, e, s),
           e \in committed
    PROVE  JanitorSound
BY DEF TypeOK, JanitorAt, JanitorSound

LEMMA SessionSound ==
    ASSUME TypeOK, VerdictInv, NEW t \in Tab,
           \/ SessionStep(t)
           \/ \E scope \in SUBSET Entry : RequestDrain(t, scope)
           \/ StartDrain(t) \/ EndDrain(t)
           \/ ReleaseNetworkBackoffs(t) \/ JanitorStart(t)
    PROVE  VerdictInv'
<1>1. CASE CloseTab(t)
  <2>1. JobSound /\ JanitorSound
    BY <1>1 DEF TypeOK, CloseTab, JobSound, JanitorSound, Idle, AfterAnswer
  <2>2. Grows /\ RecSound /\ WritesSound
    BY <1>1 DEF CloseTab, Grows, RecSound, WritesSound
  <2> QED
    BY <2>1, <2>2, SoundStep
<1>2. CASE JanitorStart(t)
  <2>1. JanitorSound
    BY <1>2 DEF TypeOK, JanitorStart, JanitorSound, VerdictInv, VerdictsAreReal,
                Backed
  <2>2. Grows /\ RecSound /\ WritesSound /\ JobSound
    BY <1>2 DEF JanitorStart, Grows, RecSound, WritesSound, JobSound
  <2> QED
    BY <2>1, <2>2, SoundStep
<1>3. CASE UNCHANGED <<rec, writes, job, janitor, committed, refused, asked>>
  BY <1>3, SoundStep DEF Grows, RecSound, WritesSound, JobSound, JanitorSound
<1> QED
  BY <1>1, <1>2, <1>3
  DEF SessionStep, Login, Logout, BecomeLeader, RequestDrain, StartDrain, EndDrain,
      ReleaseNetworkBackoffs

LEMMA UserSound ==
    ASSUME TypeOK, VerdictInv, NEW t \in Tab, NEW e \in Entry, UserStep(t, e)
    PROVE  VerdictInv'
<1> DEFINE Quiet == UNCHANGED <<job, janitor, committed, refused>>
<1>1. ASSUME NEW failed \in BOOLEAN, Enqueue(t, e, failed)
      PROVE  RecSound /\ writes' = writes /\ asked' = asked /\ Quiet
  BY <1>1 DEF Enqueue, RecSound, TypeOK, Absent
<1>2. CASE Discard(t, e)
  <2>1. WritesSound
    BY <1>2 DEF Discard, WritesSound, Backed, PendingWrite, Marker, Absent
  <2> QED
    BY <1>2, <2>1, SoundStep
    DEF Discard, Grows, RecSound, JobSound, JanitorSound
<1>3. CASE Requeue(t, e)
  <2>1. [rec[e] EXCEPT !.status = "pending", !.sched = "none"].status = "pending"
    BY ElementsTyped DEF Record
  <2>2. Backed([rec[e] EXCEPT !.status = "pending", !.sched = "none"], e)
    BY <2>1 DEF Backed
  <2>3. WritesSound
    BY <1>3, <2>2, OneWrite DEF Requeue, Grows
  <2> QED
    BY <1>3, <2>3, SoundStep
    DEF Requeue, Grows, RecSound, JobSound, JanitorSound
<1>4. CASE Probe(t, e)
  BY <1>4, SoundStep
  DEF Probe, Grows, RecSound, WritesSound, JobSound, JanitorSound
<1>5. ASSUME NEW op \in LockedOps, UserWrite(t, op, e)
      PROVE  RecSound /\ writes' \subseteq writes /\ asked' = asked /\ Quiet
  BY <1>5, StoreSound, LoseSound DEF UserWrite
<1>6. ASSUME RecSound, writes' \subseteq writes, asked' = asked, Quiet
      PROVE  VerdictInv'
  BY <1>6, SoundStep DEF Grows, WritesSound, JobSound, JanitorSound
<1> HIDE DEF Quiet
<1> QED
  BY <1>1, <1>2, <1>3, <1>4, <1>5, <1>6 DEF UserStep

LEMMA DrainSound ==
    ASSUME TypeOK, VerdictInv, NEW t \in Tab, NEW e \in Entry, DrainStep(t, e)
    PROVE  VerdictInv'
<1>1. ASSUME NEW found \in BOOLEAN, Rediscover(t, e, found)
      PROVE  VerdictInv'
  <2>1. Rediscovered(rec[e], found).status = rec[e].status
    BY ElementsTyped DEF Rediscovered, Record
  <2>2. WritesSound
    BY <1>1, <2>1
    DEF Rediscover, WritesSound, VerdictInv, VerdictsAreReal, Backed, PendingWrite
  <2> QED
    BY <1>1, <2>2, SoundStep
    DEF Rediscover, Grows, RecSound, JobSound, JanitorSound
<1>2. CASE RecoverWrite(t, e)
  <2>1. RecSound /\ writes' \subseteq writes
    BY <1>2, StoreSound, LoseSound DEF RecoverWrite
  <2> QED
    BY <1>2, <2>1, SoundStep
    DEF RecoverWrite, Grows, WritesSound, JobSound, JanitorSound
<1>3. CASE Claim(t, e)
  <2> DEFINE j == [Idle EXCEPT !.at = "claimed", !.held = rec[e].held]
  <2>1. j.at \notin AfterAnswer
    BY DEF Idle, AfterAnswer
  <2>2. job' = [job EXCEPT ![t] = [job[t] EXCEPT ![e] = j]]
    BY <1>3 DEF Claim, TypeOK
  <2> HIDE DEF j
  <2>3. JobSound
    BY <2>1, <2>2, OneJob
  <2> QED
    BY <1>3, <2>3, SoundStep DEF Claim, Grows, RecSound, WritesSound, JanitorSound
<1>4. CASE Dispatch(t, e)
  <2> DEFINE j == IF current(t) THEN [job[t][e] EXCEPT !.at = "sending"] ELSE Idle
  <2>1. j.at \notin AfterAnswer
    BY ElementsTyped DEF Idle, AfterAnswer, Job
  <2>2. job' = [job EXCEPT ![t] = [job[t] EXCEPT ![e] = j]]
    BY <1>4 DEF Dispatch, TypeOK
  <2> HIDE DEF j
  <2>3. JobSound
    BY <2>1, <2>2, OneJob
  <2> QED
    BY <1>4, <2>3, SoundStep
    DEF Dispatch, Grows, RecSound, WritesSound, JanitorSound
<1>5. CASE KeysUnavailable(t, e)
  <2>1. JobSound
    BY <1>5, SettledSound DEF KeysUnavailable
  <2> QED
    BY <1>5, <2>1, SoundStep
    DEF KeysUnavailable, Grows, RecSound, WritesSound, JanitorSound
<1> QED
  BY <1>1, <1>2, <1>3, <1>4, <1>5 DEF DrainStep

LEMMA AnswerSound ==
    ASSUME TypeOK, VerdictInv, NEW t \in Tab, NEW e \in Entry, AnswerStep(t, e)
    PROVE  VerdictInv'
<1> DEFINE Quiet == RecSound /\ Grows /\ JanitorSound
<1>1. CASE AnswerAccepted(t, e)
  <2> DEFINE r == Accepted(rec[e])
  <2>1. r.status = "server_accepted"
    BY ElementsTyped DEF Record, Accepted
  <2>2. \/ writes' = writes \union {PendingWrite(t, "accept", e, r)}
        \/ writes' = writes
    BY <1>1 DEF AnswerAccepted
  <2> HIDE DEF r
  <2>3. e \in committed /\ committed' = committed
    BY <1>1 DEF AnswerAccepted
  <2>4. WritesSound
    BY <2>1, <2>2, <2>3 DEF WritesSound, Backed, PendingWrite
  <2>5. JobSound
    BY <1>1, <2>3, AtSound, AfterMarkSound DEF AnswerAccepted
  <2> QED
    BY <1>1, <2>4, <2>5, SoundStep DEF AnswerAccepted, RecSound, Grows, JanitorSound
<1>2. CASE AnswerLost(t, e)
  <2>1. Quiet
    BY <1>2 DEF AnswerLost, RecSound, Grows, JanitorSound
  <2> QED
    BY <1>2, <2>1, RecordFailureSound, SoundStep DEF AnswerLost, VerdictInv
<1>3. CASE AnswerRetryable(t, e)
  <2>1. Quiet
    BY <1>3 DEF AnswerRetryable, RecSound, Grows, JanitorSound
  <2> QED
    BY <1>3, <2>1, RecordFailureSound, SoundStep DEF AnswerRetryable, VerdictInv
<1>4. CASE AnswerPermanent(t, e)
  <2>1. Quiet /\ e \in refused'
    BY <1>4 DEF AnswerPermanent, RecSound, Grows, JanitorSound
  <2> QED
    BY <1>4, <2>1, RecordFailureSound, SoundStep DEF AnswerPermanent, VerdictInv
<1>5. CASE AnswerApproval(t, e)
  <2>1. Quiet
    BY <1>5 DEF AnswerApproval, RecSound, Grows, JanitorSound
  <2> QED
    BY <1>5, <2>1, RecordFailureSound, SoundStep DEF AnswerApproval, VerdictInv
<1> QED
  BY <1>1, <1>2, <1>3, <1>4, <1>5 DEF AnswerStep

LEMMA SettleSound ==
    ASSUME TypeOK, VerdictInv, NEW t \in Tab, NEW e \in Entry, SettleStep(t, e)
    PROVE  VerdictInv'
<1>1. job[t][e].at \in AfterAnswer => e \in committed
  BY DEF VerdictInv
<1>2. CASE AcceptWrite(t, e)
  <2>1. RecSound /\ writes' \subseteq writes
    BY <1>2, StoreSound DEF AcceptWrite
  <2>2. JobSound
    BY <1>1, <1>2, AfterMarkSound DEF AcceptWrite, AfterAnswer
  <2> QED
    BY <1>2, <2>1, <2>2, SoundStep DEF AcceptWrite, Grows, WritesSound, JanitorSound
<1>3. CASE AcceptLost(t, e)
  <2>1. RecSound /\ Grows /\ JanitorSound
    BY <1>3 DEF AcceptLost, RecSound, Grows, JanitorSound
  <2> QED
    BY <1>3, <2>1, RecordFailureSound, SoundStep DEF AcceptLost, VerdictInv
<1>4. CASE FailWrite(t, e)
  <2>1. RecSound /\ writes' \subseteq writes /\ JobSound
    BY <1>4, StoreSound, LoseSound, SettledSound DEF FailWrite
  <2> QED
    BY <1>4, <2>1, SoundStep DEF FailWrite, Grows, WritesSound, JanitorSound
<1>5. ASSUME NEW f \in Entry, Release(t, e, f)
      PROVE  VerdictInv'
  <2> DEFINE j == [job[t][e] EXCEPT
                     !.todo = job[t][e].todo \ {f},
                     !.at = IF rec[f].held THEN "freeing" ELSE "releasing"]
             r == [rec[f] EXCEPT !.held = FALSE]
  <2>1. r.status = rec[f].status
    BY ElementsTyped DEF Record
  <2>2. \/ writes' = writes \union {PendingWrite(t, "release", f, r)}
        \/ writes' = writes
    BY <1>5 DEF Release
  <2>3. Backed(rec[f], f)
    BY DEF VerdictInv, VerdictsAreReal
  <2> HIDE DEF r
  <2>4. WritesSound
    BY <1>5, <2>1, <2>2, <2>3 DEF Release, WritesSound, Backed, PendingWrite
  <2>5. job' = [job EXCEPT ![t] = [job[t] EXCEPT ![e] = j]]
    BY <1>5 DEF Release, TypeOK
  <2> HIDE DEF j
  <2>6. JobSound
    <3> e \in committed
      BY <1>1, <1>5 DEF Release, AfterAnswer
    <3> QED
      BY <2>5, OneJob
  <2> QED
    BY <1>5, <2>4, <2>6, SoundStep DEF Release, Grows, RecSound, JanitorSound
<1>6. ASSUME NEW f \in Entry, ReleaseWrite(t, e, f)
      PROVE  VerdictInv'
  <2>1. RecSound /\ writes' \subseteq writes
    BY <1>6, StoreSound DEF ReleaseWrite
  <2>2. JobSound
    BY <1>1, <1>6, AtSound DEF ReleaseWrite, AfterAnswer
  <2> QED
    BY <1>6, <2>1, <2>2, SoundStep DEF ReleaseWrite, Grows, WritesSound, JanitorSound
<1>7. ASSUME NEW f \in Entry, ReleaseLost(t, e, f)
      PROVE  VerdictInv'
  <2>1. RecSound /\ Grows /\ JanitorSound
    BY <1>7 DEF ReleaseLost, RecSound, Grows, JanitorSound
  <2> QED
    BY <1>7, <2>1, RecordFailureSound, SoundStep DEF ReleaseLost, VerdictInv
<1>8. ASSUME Released(t, e) \/ Answered(t, e) \/ Cleared(t, e)
      PROVE  VerdictInv'
  <2>1. JobSound
    BY <1>1, <1>8, AtSound DEF Released, Answered, Cleared, AfterAnswer
  <2> QED
    BY <1>8, <2>1, SoundStep
    DEF Released, Answered, Cleared, RecSound, Grows, WritesSound, JanitorSound
<1>9. CASE Reconcile(t, e)
  <2>1. e \in committed
    BY <1>1, <1>9 DEF Reconcile, AfterAnswer
  <2>2. JobSound
    BY <1>9, <2>1, AtSound DEF Reconcile
  <2>3. rec[e].status = "server_accepted" =>
            [rec[e] EXCEPT !.reconciled = TRUE].status = "server_accepted"
    BY ElementsTyped DEF Record
  <2>5. rec[e].status = "server_accepted" =>
            Backed([rec[e] EXCEPT !.reconciled = TRUE], e)
    BY <2>1, <2>3 DEF Backed
  <2>4. WritesSound
    <3>1. CASE rec[e].status = "server_accepted"
      BY <1>9, <2>5, <3>1, OneWrite DEF Reconcile, Grows
    <3>2. CASE rec[e].status # "server_accepted"
      BY <1>9, <3>2 DEF Reconcile, WritesSound
    <3> QED
      BY <3>1, <3>2
  <2> QED
    BY <1>9, <2>2, <2>4, SoundStep DEF Reconcile, Grows, RecSound, JanitorSound
<1>10. CASE ReconcileFails(t, e)
  <2>1. JobSound
    BY <1>10, SettledSound DEF ReconcileFails
  <2> QED
    BY <1>10, <2>1, SoundStep
    DEF ReconcileFails, RecSound, Grows, WritesSound, JanitorSound
<1>11. CASE MarkWrite(t, e)
  <2>1. RecSound /\ writes' \subseteq writes
    BY <1>11, StoreSound, LoseSound DEF MarkWrite
  <2>2. JobSound
    BY <1>1, <1>11, AtSound, SettledSound DEF MarkWrite, AfterAnswer
  <2> QED
    BY <1>11, <2>1, <2>2, SoundStep DEF MarkWrite, Grows, WritesSound, JanitorSound
<1>12. CASE Resolve(t, e)
  <2>1. e \in committed
    BY <1>1, <1>12 DEF Resolve, AfterAnswer
  <2>2. JobSound
    BY <1>12, <2>1, AtSound, SettledSound DEF Resolve
  <2>3. WritesSound
    BY <1>12, <2>1 DEF Resolve, WritesSound, Backed, PendingWrite, Marker, Absent
  <2> QED
    BY <1>12, <2>2, <2>3, SoundStep DEF Resolve, Grows, RecSound, JanitorSound
<1>13. CASE ResolveWrite(t, e)
  <2>1. RecSound /\ writes' \subseteq writes /\ JobSound
    BY <1>13, StoreSound, LoseSound, SettledSound DEF ResolveWrite
  <2> QED
    BY <1>13, <2>1, SoundStep DEF ResolveWrite, Grows, WritesSound, JanitorSound
<1> QED
  BY <1>2, <1>3, <1>4, <1>5, <1>6, <1>7, <1>8, <1>9, <1>10, <1>11, <1>12, <1>13
  DEF SettleStep

LEMMA JanitorSoundStep ==
    ASSUME TypeOK, VerdictInv, NEW t \in Tab, NEW e \in Entry, JanitorStep(t, e)
    PROVE  VerdictInv'
<1>1. janitor[t][e] # "idle" => e \in committed
  BY DEF VerdictInv
<1>2. CASE JanitorReconcile(t, e)
  <2>1. e \in committed
    BY <1>1, <1>2 DEF JanitorReconcile
  <2>2. rec[e].status = "server_accepted" =>
            [rec[e] EXCEPT !.reconciled = TRUE].status = "server_accepted"
    BY ElementsTyped DEF Record
  <2>5. rec[e].status = "server_accepted" =>
            Backed([rec[e] EXCEPT !.reconciled = TRUE], e)
    BY <2>1, <2>2 DEF Backed
  <2>3. WritesSound
    <3>1. CASE rec[e].status = "server_accepted"
      BY <1>2, <2>5, <3>1, OneWrite DEF JanitorReconcile, Grows
    <3>2. CASE rec[e].status # "server_accepted"
      BY <1>2, <3>2 DEF JanitorReconcile, WritesSound
    <3> QED
      BY <3>1, <3>2
  <2>4. JanitorSound
    BY <1>2, <2>1, JanitorAtSound DEF JanitorReconcile
  <2> QED
    BY <1>2, <2>3, <2>4, SoundStep DEF JanitorReconcile, Grows, RecSound, JobSound
<1>3. CASE JanitorReconcileFails(t, e)
  <2>1. JanitorSound
    BY <1>1, <1>3, JanitorAtSound DEF JanitorReconcileFails
  <2> QED
    BY <1>3, <2>1, SoundStep
    DEF JanitorReconcileFails, Grows, RecSound, WritesSound, JobSound
<1>4. ASSUME JanitorMark(t, e) \/ JanitorClose(t, e)
      PROVE  VerdictInv'
  <2>1. RecSound /\ writes' \subseteq writes
    BY <1>4, StoreSound, LoseSound DEF JanitorMark, JanitorClose
  <2>2. JanitorSound
    BY <1>1, <1>4, JanitorAtSound DEF JanitorMark, JanitorClose
  <2> QED
    BY <1>4, <2>1, <2>2, SoundStep
    DEF JanitorMark, JanitorClose, Grows, WritesSound, JobSound
<1>5. CASE JanitorResolve(t, e)
  <2>1. e \in committed
    BY <1>1, <1>5 DEF JanitorResolve
  <2>2. WritesSound
    BY <1>5, <2>1
    DEF JanitorResolve, WritesSound, Backed, PendingWrite, Marker, Absent
  <2>3. JanitorSound
    BY <1>5, <2>1, JanitorAtSound DEF JanitorResolve
  <2> QED
    BY <1>5, <2>2, <2>3, SoundStep DEF JanitorResolve, Grows, RecSound, JobSound
<1> QED
  BY <1>2, <1>3, <1>4, <1>5 DEF JanitorStep

LEMMA SweepSound ==
    ASSUME TypeOK, VerdictInv, NEW t \in Tab, NEW e \in Entry, SweepStep(t, e)
    PROVE  VerdictInv'
<1>1. CASE ClearSchedule(t, e)
  <2>1. [rec[e] EXCEPT !.sched = "none"].status = rec[e].status
    BY ElementsTyped DEF Record
  <2>2. Backed(rec[e], e)
    BY DEF VerdictInv, VerdictsAreReal
  <2>4. Backed([rec[e] EXCEPT !.sched = "none"], e)
    BY <2>1, <2>2 DEF Backed
  <2>3. WritesSound
    BY <1>1, <2>4, OneWrite DEF ClearSchedule, Grows
  <2> QED
    BY <1>1, <2>3, SoundStep
    DEF ClearSchedule, Grows, RecSound, JobSound, JanitorSound
<1>2. CASE ClearWrite(t, e)
  <2>1. RecSound /\ writes' \subseteq writes
    BY <1>2, StoreSound, LoseSound DEF ClearWrite
  <2> QED
    BY <1>2, <2>1, SoundStep
    DEF ClearWrite, Grows, WritesSound, JobSound, JanitorSound
<1> QED
  BY <1>1, <1>2 DEF SweepStep

LEMMA VerdictInvHolds == Spec => []VerdictInv
<1>1. Init => VerdictInv
  BY DEF Init, VerdictInv, VerdictsAreReal, Backed, Absent, Idle, AfterAnswer
<1>2. TypeOK /\ VerdictInv /\ [Next]_vars => VerdictInv'
  <2> SUFFICES ASSUME TypeOK, VerdictInv, [Next]_vars PROVE VerdictInv'
    OBVIOUS
  <2>1. ASSUME NEW t \in Tab, TabStep(t) PROVE VerdictInv'
    BY <2>1, SessionSound DEF TabStep
  <2>2. ASSUME NEW t \in Tab, NEW e \in Entry, EntryStep(t, e) PROVE VerdictInv'
    BY <2>2, UserSound, DrainSound, AnswerSound, SettleSound, JanitorSoundStep,
       SweepSound DEF EntryStep
  <2>3. ASSUME NEW e \in Entry, ServerCommit(e) PROVE VerdictInv'
    BY <2>3, SoundStep
    DEF ServerCommit, Grows, RecSound, WritesSound, JobSound, JanitorSound
  <2>4. CASE UNCHANGED vars
    BY <2>4, SoundStep
    DEF vars, Grows, RecSound, WritesSound, JobSound, JanitorSound
  <2> QED
    BY <2>1, <2>2, <2>3, <2>4 DEF Next
<1> QED
  BY <1>1, <1>2, TypeCorrect, PTL DEF Spec

\* ADR section 8: whatever tabs overlap, crash or write back late, a record says
\* accepted only of what the server holds, quarantined only of what it refused and
\* discarded only of what the user asked to discard.
THEOREM VerdictsStayReal == Spec => []VerdictsAreReal
<1>1. VerdictInv => VerdictsAreReal
  BY DEF VerdictInv
<1> QED
  BY <1>1, VerdictInvHolds, PTL

-----------------------------------------------------------------------------
(* One sender: what is claimed is claimed under the send lock, which outlives *)
(* the leadership of the tab and even its session.                           *)

SenderInv ==
    \A t \in Tab, e \in Entry : job[t][e].at # "idle" => sendLock = t

\* A step that claims nothing and leaves the lock alone.
NoClaim ==
    /\ sendLock' = sendLock
    /\ \A u \in Tab, f \in Entry :
          job'[u][f].at # "idle" => job[u][f].at # "idle"

LEMMA NoClaimStep ==
    ASSUME SenderInv, NoClaim
    PROVE  SenderInv'
BY DEF SenderInv, NoClaim

LEMMA AtClaimsNothing ==
    ASSUME TypeOK, NEW t \in Tab, NEW e \in Entry, NEW s, At(t, e, s),
           job[t][e].at # "idle", sendLock' = sendLock
    PROVE  NoClaim
BY DEF At, TypeOK, NoClaim

LEMMA SettledClaimsNothing ==
    ASSUME TypeOK, NEW t \in Tab, NEW e \in Entry, Settled(t, e),
           sendLock' = sendLock
    PROVE  NoClaim
BY DEF Settled, TypeOK, NoClaim, Idle

LEMMA RecordFailureClaimsNothing ==
    ASSUME TypeOK, NEW t \in Tab, NEW e \in Entry, NEW kind, NEW others,
           RecordFailure(t, e, kind, others), job[t][e].at # "idle",
           sendLock' = sendLock
    PROVE  NoClaim
BY AtClaimsNothing, SettledClaimsNothing DEF RecordFailure

LEMMA AfterMarkClaimsNothing ==
    ASSUME TypeOK, NEW t \in Tab, NEW e \in Entry, NEW recorded, NEW records,
           AfterMark(t, e, recorded, records), job[t][e].at # "idle",
           sendLock' = sendLock
    PROVE  NoClaim
<1>1. CASE recorded /\ job[t][e].held
  <2> DEFINE j == [job[t][e] EXCEPT
                     !.at = "releasing",
                     !.todo = {f \in Entry : /\ records[f].held
                                             /\ ShapeOf[f] = ShapeOf[e]}]
  <2>1. job' = [job EXCEPT ![t] = [job[t] EXCEPT ![e] = j]]
    BY <1>1 DEF AfterMark, TypeOK
  <2> HIDE DEF j
  <2> QED
    BY <2>1 DEF TypeOK, NoClaim
<1>2. CASE ~(recorded /\ job[t][e].held)
  BY <1>2, AtClaimsNothing DEF AfterMark
<1> QED
  BY <1>1, <1>2

LEMMA SenderTabStep ==
    ASSUME TypeOK, SenderInv, NEW t \in Tab,
           \/ SessionStep(t)
           \/ \E scope \in SUBSET Entry : RequestDrain(t, scope)
           \/ StartDrain(t) \/ EndDrain(t)
           \/ ReleaseNetworkBackoffs(t) \/ JanitorStart(t)
    PROVE  SenderInv'
<1>1. CASE CloseTab(t)
  BY <1>1, OutboxAssumption DEF CloseTab, SenderInv, TypeOK, Idle
<1>2. CASE StartDrain(t)
  BY <1>2, OutboxAssumption DEF StartDrain, SenderInv
<1>3. CASE EndDrain(t)
  <2>1. \A e \in Entry : job[t][e].at = "idle"
    BY <1>3 DEF EndDrain, InFlight
  <2> QED
    BY <1>3, <2>1 DEF EndDrain, SenderInv
<1>4. CASE UNCHANGED <<sendLock, job>>
  BY <1>4 DEF SenderInv
<1> QED
  BY <1>1, <1>2, <1>3, <1>4
  DEF SessionStep, Login, Logout, BecomeLeader, RequestDrain,
      ReleaseNetworkBackoffs, JanitorStart

LEMMA SenderDrainStep ==
    ASSUME TypeOK, SenderInv, NEW t \in Tab, NEW e \in Entry, DrainStep(t, e)
    PROVE  SenderInv'
<1>1. CASE Claim(t, e)
  BY <1>1 DEF Claim, SenderInv, TypeOK
<1>2. CASE Dispatch(t, e)
  BY <1>2 DEF Dispatch, SenderInv, TypeOK
<1>3. CASE KeysUnavailable(t, e)
  BY <1>3, SettledClaimsNothing, NoClaimStep DEF KeysUnavailable
<1>4. CASE UNCHANGED <<sendLock, job>>
  BY <1>4 DEF SenderInv
<1> QED
  BY <1>1, <1>2, <1>3, <1>4 DEF DrainStep, Rediscover, RecoverWrite

LEMMA SenderAnswerStep ==
    ASSUME TypeOK, SenderInv, NEW t \in Tab, NEW e \in Entry, AnswerStep(t, e)
    PROVE  SenderInv'
<1>1. CASE AnswerAccepted(t, e)
  BY <1>1, AtClaimsNothing, AfterMarkClaimsNothing, NoClaimStep DEF AnswerAccepted
<1>2. CASE AnswerLost(t, e)
  BY <1>2, RecordFailureClaimsNothing, NoClaimStep DEF AnswerLost
<1>3. CASE AnswerRetryable(t, e)
  BY <1>3, RecordFailureClaimsNothing, NoClaimStep DEF AnswerRetryable
<1>4. CASE AnswerPermanent(t, e)
  BY <1>4, RecordFailureClaimsNothing, NoClaimStep DEF AnswerPermanent
<1>5. CASE AnswerApproval(t, e)
  BY <1>5, RecordFailureClaimsNothing, NoClaimStep DEF AnswerApproval
<1> QED
  BY <1>1, <1>2, <1>3, <1>4, <1>5 DEF AnswerStep

LEMMA SenderSettleStep ==
    ASSUME TypeOK, SenderInv, NEW t \in Tab, NEW e \in Entry, SettleStep(t, e)
    PROVE  SenderInv'
<1>1. CASE AcceptWrite(t, e)
  BY <1>1, AfterMarkClaimsNothing, NoClaimStep DEF AcceptWrite
<1>2. CASE AcceptLost(t, e)
  BY <1>2, RecordFailureClaimsNothing, NoClaimStep DEF AcceptLost
<1>3. CASE FailWrite(t, e)
  BY <1>3, SettledClaimsNothing, NoClaimStep DEF FailWrite
<1>4. ASSUME NEW f \in Entry, Release(t, e, f)
      PROVE  SenderInv'
  BY <1>4 DEF Release, SenderInv, TypeOK
<1>5. ASSUME NEW f \in Entry, ReleaseWrite(t, e, f)
      PROVE  SenderInv'
  BY <1>5, AtClaimsNothing, NoClaimStep DEF ReleaseWrite
<1>6. ASSUME NEW f \in Entry, ReleaseLost(t, e, f)
      PROVE  SenderInv'
  BY <1>6, RecordFailureClaimsNothing, NoClaimStep DEF ReleaseLost
<1>7. ASSUME Released(t, e) \/ Answered(t, e) \/ Cleared(t, e)
      PROVE  SenderInv'
  BY <1>7, AtClaimsNothing, NoClaimStep DEF Released, Answered, Cleared
<1>8. ASSUME Reconcile(t, e) \/ ReconcileFails(t, e)
      PROVE  SenderInv'
  BY <1>8, AtClaimsNothing, SettledClaimsNothing, NoClaimStep
  DEF Reconcile, ReconcileFails
<1>9. CASE MarkWrite(t, e)
  BY <1>9, AtClaimsNothing, SettledClaimsNothing, NoClaimStep DEF MarkWrite
<1>10. ASSUME Resolve(t, e) \/ ResolveWrite(t, e)
       PROVE  SenderInv'
  BY <1>10, AtClaimsNothing, SettledClaimsNothing, NoClaimStep
  DEF Resolve, ResolveWrite
<1> QED
  BY <1>1, <1>2, <1>3, <1>4, <1>5, <1>6, <1>7, <1>8, <1>9, <1>10 DEF SettleStep

LEMMA SenderInvHolds == Spec => []SenderInv
<1>1. Init => SenderInv
  BY DEF Init, SenderInv, Idle
<1>2. TypeOK /\ SenderInv /\ [Next]_vars => SenderInv'
  <2> SUFFICES ASSUME TypeOK, SenderInv, [Next]_vars PROVE SenderInv'
    OBVIOUS
  <2>1. ASSUME NEW t \in Tab, TabStep(t) PROVE SenderInv'
    BY <2>1, SenderTabStep DEF TabStep
  <2>2. ASSUME NEW t \in Tab, NEW e \in Entry, EntryStep(t, e) PROVE SenderInv'
    <3>1. CASE UserStep(t, e) \/ JanitorStep(t, e) \/ SweepStep(t, e)
      <4>1. UNCHANGED <<sendLock, job>>
        BY <3>1
        DEF UserStep, Enqueue, Discard, Requeue, Probe, UserWrite, JanitorStep,
            JanitorReconcile, JanitorReconcileFails, JanitorMark, JanitorResolve,
            JanitorClose, SweepStep, ClearSchedule, ClearWrite
      <4> QED
        BY <4>1 DEF SenderInv
    <3>2. CASE DrainStep(t, e) \/ AnswerStep(t, e) \/ SettleStep(t, e)
      BY <3>2, SenderDrainStep, SenderAnswerStep, SenderSettleStep
    <3> QED
      BY <2>2, <3>1, <3>2 DEF EntryStep
  <2>3. ASSUME NEW e \in Entry, ServerCommit(e) PROVE SenderInv'
    BY <2>3 DEF ServerCommit, SenderInv
  <2>4. CASE UNCHANGED vars
    BY <2>4 DEF vars, SenderInv
  <2> QED
    BY <2>1, <2>2, <2>3, <2>4 DEF Next
<1> QED
  BY <1>1, <1>2, TypeCorrect, PTL DEF Spec

\* ADR section 9, one sender per account: no two tabs ever have entries claimed at
\* once, for any number of tabs, logins, logouts and crashes.
THEOREM SenderIsSingle == Spec => []SingleSender
<1>1. SenderInv => SingleSender
  BY DEF SenderInv, SingleSender, InFlight
<1> QED
  BY <1>1, SenderInvHolds, PTL

=============================================================================
