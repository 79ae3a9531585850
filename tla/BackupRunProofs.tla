-------------------------- MODULE BackupRunProofs --------------------------
(* Proofs about BackupRun.                                                 *)
EXTENDS BackupRun, FiniteSetTheorems, TLAPS

\* What the slot holds: the record, and beside a finished one the reshare being made.
Places ==
    /\ slot.run.of = 0 /\ ~slot.run.superseded
    /\ slot.run.id = 0 <=> slot.run.step = "none"
    /\ slot.run.id # 0 => slot.run.secret \in 1 .. born
    /\ slot.run.revoked => slot.run.step = "done"
    /\ slot.run.step \in {"registered", "done"} => slot.run.version # 0
    /\ slot.reshare.step = "registered" => slot.reshare.version # 0
    /\ slot.reshare = NoRun \/
         /\ Unfinished(slot.reshare) /\ Finished(slot.run)
         /\ slot.reshare.id # 0 /\ slot.reshare.id # slot.run.id
         /\ slot.reshare.of \in Nat \ {0} /\ slot.reshare.of = slot.run.version
         /\ slot.reshare.secret = slot.run.secret /\ ~slot.reshare.revoked
    /\ slot.run.id <= born /\ slot.reshare.id <= born

Phase(d) ==
    /\ pc[d] = "publish" => mine[d].step = "prepared"
    /\ pc[d] = "look" => mine[d].step \in {"published", "submitted"}
    /\ pc[d] \in {"sign", "wait"} => mine[d].step = "submitted"
    /\ pc[d] \in {"deal", "settle", "retire"} => mine[d].step = "registered"

\* A device that drives a run which is still its own has the slot's record of it.
DrivesRight(d) ==
    /\ pc[d] = "idle" => mine[d].id = 0
    /\ pc[d] # "idle" => mine[d].id \in 1 .. born
    /\ Phase(d)
    /\ pc[d] # "idle" /\ Ours(d) => Active = mine[d]
    /\ out[d] # {} => pc[d] \in {"deal", "settle"}
    /\ pc[d] = "settle" /\ d \notin broken => mine[d].sent = Guardian
    /\ pc[d] = "retire" => mine[d].sent = Guardian /\ NodesPending(mine[d]) = {}
Driving == \A d \in Device : DrivesRight(d)

\* What the record says of its pieces is so, and what it still holds are all the others.
Pieces(rec) ==
    /\ \A n \in rec.held : <<rec.id, n>> \in deposits
    /\ \A g \in rec.sent : <<rec.id, g>> \in pieces
    /\ rec.step # "done" => Node \ rec.owed \subseteq rec.held /\ rec.shares = Guardian
    /\ rec.step = "done" => rec.sent = Guardian /\ Node \subseteq rec.held \union rec.skipped
    /\ rec.skipped # {} => Cardinality(rec.held) >= NodeThreshold
PiecesInv == \A rec \in InSlot : rec.step # "none" => Pieces(rec)

LEMMA NoRunTyped == NoRun \in Rec /\ ~Unfinished(NoRun)
  BY BackupRunAssumption DEF NoRun, Rec, Steps, Unfinished

LEMMA ActiveTyped ==
  ASSUME TypeOK
  PROVE  Active \in Rec
  BY NoRunTyped DEF TypeOK, Active, ActiveIn

LEMMA SavedTyped ==
  ASSUME TypeOK, NEW rec \in Rec
  PROVE  Saved(rec) \in [run : Rec, reshare : Rec]
<1>1. Promoted(slot.run, rec) \in Rec
  <2>1. slot.run \in Rec  BY DEF TypeOK
  <2> QED  BY <2>1, Zenon, SMTT(30) DEF Promoted, Rec
<1> QED  BY <1>1, NoRunTyped DEF Saved, TypeOK

LEMMA PreparedTyped ==
  ASSUME NEW r \in Run, NEW d \in Device, NEW s \in Run, NEW v \in Nat
  PROVE  /\ Prepared(r, d, s, v) \in Rec
         /\ Prepared(r, d, s, v).step = "prepared"
  BY BackupRunAssumption DEF Prepared, Rec, Steps, Run

LEMMA StepUpdate ==
  ASSUME NEW rec \in Rec, NEW x \in Steps
  PROVE  LET new == [rec EXCEPT !.step = x]
         IN  /\ new \in Rec
             /\ new.id = rec.id /\ new.secret = rec.secret /\ new.of = rec.of
             /\ new.version = rec.version /\ new.device = rec.device /\ new.superseded = rec.superseded
             /\ new.revoked = rec.revoked /\ new.retirePending = rec.retirePending /\ new.owed = rec.owed
             /\ new.held = rec.held /\ new.skipped = rec.skipped /\ new.shares = rec.shares
             /\ new.sent = rec.sent
             /\ new.step = x
  BY DEF Rec, Steps, NodesPending

LEMMA SupersededUpdate ==
  ASSUME NEW rec \in Rec
  PROVE  LET new == [rec EXCEPT !.superseded = TRUE]
         IN  /\ new \in Rec
             /\ new.id = rec.id /\ new.secret = rec.secret /\ new.of = rec.of
             /\ new.version = rec.version /\ new.step = rec.step /\ new.device = rec.device
             /\ new.revoked = rec.revoked /\ new.retirePending = rec.retirePending /\ new.owed = rec.owed
             /\ new.held = rec.held /\ new.skipped = rec.skipped /\ new.shares = rec.shares
             /\ new.sent = rec.sent
             /\ new.superseded = TRUE
  BY DEF Rec, Steps, NodesPending

LEMMA RegisteredUpdate ==
  ASSUME NEW rec \in Rec, NEW v \in Nat
  PROVE  LET new == [rec EXCEPT !.step = "registered", !.version = v]
         IN  /\ new \in Rec
             /\ new.id = rec.id /\ new.secret = rec.secret /\ new.of = rec.of
             /\ new.device = rec.device /\ new.superseded = rec.superseded /\ new.revoked = rec.revoked
             /\ new.retirePending = rec.retirePending /\ new.owed = rec.owed /\ new.held = rec.held
             /\ new.skipped = rec.skipped /\ new.shares = rec.shares /\ new.sent = rec.sent
             /\ new.step = "registered"
             /\ new.version = v
  BY DEF Rec, Steps, NodesPending

LEMMA HeldUpdate ==
  ASSUME NEW rec \in Rec, NEW n \in Node
  PROVE  LET new == [rec EXCEPT !.held = @ \union {n}, !.owed = @ \ {n}]
         IN  /\ new \in Rec
             /\ new.id = rec.id /\ new.secret = rec.secret /\ new.of = rec.of
             /\ new.version = rec.version /\ new.step = rec.step /\ new.device = rec.device
             /\ new.superseded = rec.superseded /\ new.revoked = rec.revoked /\ new.retirePending = rec.retirePending
             /\ new.skipped = rec.skipped /\ new.shares = rec.shares /\ new.sent = rec.sent
             /\ new.held = rec.held \union {n}
             /\ new.owed = rec.owed \ {n}
  BY DEF Rec, Steps, NodesPending

LEMMA SentUpdate ==
  ASSUME NEW rec \in Rec, NEW g \in Guardian
  PROVE  LET new == [rec EXCEPT !.sent = @ \union {g}]
         IN  /\ new \in Rec
             /\ new.id = rec.id /\ new.secret = rec.secret /\ new.of = rec.of
             /\ new.version = rec.version /\ new.step = rec.step /\ new.device = rec.device
             /\ new.superseded = rec.superseded /\ new.revoked = rec.revoked /\ new.retirePending = rec.retirePending
             /\ new.owed = rec.owed /\ new.held = rec.held /\ new.skipped = rec.skipped
             /\ new.shares = rec.shares
             /\ new.sent = rec.sent \union {g}
  BY DEF Rec, Steps, NodesPending

LEMMA SkippedUpdate ==
  ASSUME NEW rec \in Rec
  PROVE  LET new == [rec EXCEPT !.skipped = @ \union NodesPending(rec)]
         IN  /\ new \in Rec
             /\ new.id = rec.id /\ new.secret = rec.secret /\ new.of = rec.of
             /\ new.version = rec.version /\ new.step = rec.step /\ new.device = rec.device
             /\ new.superseded = rec.superseded /\ new.revoked = rec.revoked /\ new.retirePending = rec.retirePending
             /\ new.owed = rec.owed /\ new.held = rec.held /\ new.shares = rec.shares
             /\ new.sent = rec.sent
             /\ new.skipped = rec.skipped \union NodesPending(rec)
  BY DEF Rec, Steps, NodesPending

LEMMA DeviceUpdate ==
  ASSUME NEW rec \in Rec, NEW d \in Device
  PROVE  LET new == [rec EXCEPT !.device = d]
         IN  /\ new \in Rec
             /\ new.id = rec.id /\ new.secret = rec.secret /\ new.of = rec.of
             /\ new.version = rec.version /\ new.step = rec.step /\ new.superseded = rec.superseded
             /\ new.revoked = rec.revoked /\ new.retirePending = rec.retirePending /\ new.owed = rec.owed
             /\ new.held = rec.held /\ new.skipped = rec.skipped /\ new.shares = rec.shares
             /\ new.sent = rec.sent
             /\ new.device = d
  BY DEF Rec, Steps, NodesPending

LEMMA DoneUpdate ==
  ASSUME NEW rec \in Rec
  PROVE  LET new == [rec EXCEPT !.step = "done", !.owed = {}, !.shares = {}]
         IN  /\ new \in Rec
             /\ new.id = rec.id /\ new.secret = rec.secret /\ new.of = rec.of
             /\ new.version = rec.version /\ new.device = rec.device /\ new.superseded = rec.superseded
             /\ new.revoked = rec.revoked /\ new.retirePending = rec.retirePending /\ new.held = rec.held
             /\ new.skipped = rec.skipped /\ new.sent = rec.sent
             /\ new.step = "done"
             /\ new.owed = {}
             /\ new.shares = {}
  BY DEF Rec, Steps, NodesPending

LEMMA AppendFacts ==
  ASSUME NEW S, NEW q \in Seq(S), NEW x \in S
  PROVE  /\ Append(q, x) \in Seq(S)
         /\ Len(Append(q, x)) = Len(q) + 1
         /\ Len(q) \in Nat
         /\ \A i \in 1 .. Len(q) : Append(q, x)[i] = q[i]
         /\ Append(q, x)[Len(q) + 1] = x
  OBVIOUS

LEMMA ActiveFacts ==
  ASSUME TypeOK, Places, Active.id # 0
  PROVE  /\ Active \in Rec /\ Unfinished(Active)
         /\ Active.id \in Run /\ Active.secret \in Run
         /\ \/ Active = slot.run /\ slot.reshare = NoRun /\ Active.of = 0
            \/ Active = slot.reshare /\ Active.of # 0 /\ Finished(slot.run)
<1>1. NoRun.id = 0 /\ ~Unfinished(NoRun)  BY DEF NoRun, Unfinished
<1>2. Active \in Rec /\ born \in Nat /\ born <= MaxRuns /\ slot.run \in Rec
  BY ActiveTyped, BackupRunAssumption DEF TypeOK
<1>3. slot.run.id # 0 => slot.run.secret \in Run
  BY <1>2, BackupRunAssumption DEF Places, Run
<1>4. slot.run.id <= born /\ slot.reshare.id <= born  BY DEF Places
<1>5. Active.id \in Nat  BY <1>2 DEF Rec
<1>6. CASE Unfinished(slot.reshare)
  <2>1. Active = slot.reshare  BY <1>6 DEF Active, ActiveIn
  <2>2. slot.reshare # NoRun  BY <1>1, <1>6
  <2>3. /\ slot.reshare.secret = slot.run.secret /\ Finished(slot.run) /\ slot.reshare.of \in Nat \ {0}
    BY <2>2 DEF Places
  <2>4. slot.run.id # 0  BY <2>3 DEF Places, Finished
  <2>5. Active.id \in Run  BY <1>2, <1>4, <1>5, <2>1, BackupRunAssumption DEF Run
  <2> QED  BY <1>2, <1>3, <1>6, <2>1, <2>3, <2>4, <2>5
<1>7. CASE ~Unfinished(slot.reshare)
  <2>1. slot.reshare = NoRun  BY <1>7 DEF Places
  <2>2. Active = slot.run /\ Unfinished(slot.run)  BY <1>1, <1>7 DEF Active, ActiveIn
  <2>3. Active.id \in Run  BY <1>2, <1>4, <1>5, <2>2, BackupRunAssumption DEF Run
  <2>4. Active.of = 0  BY <2>2 DEF Places
  <2> QED  BY <1>2, <1>3, <2>1, <2>2, <2>3, <2>4
<1> QED  BY <1>6, <1>7

\* No run is active, or the active one is in its place.
LEMMA ActiveNone ==
  ASSUME TypeOK, Places, Active.id = 0
  PROVE  Active = NoRun
<1>1. Unfinished(slot.reshare) => slot.reshare.id # 0  BY NoRunTyped DEF Places
<1>2. Unfinished(slot.run) => slot.run.id # 0  BY DEF Places, Unfinished
<1> QED  BY <1>1, <1>2 DEF Active, ActiveIn

LEMMA OursFacts ==
  ASSUME TypeOK, Places, Driving, NEW d \in Device, pc[d] # "idle"
  PROVE  /\ mine[d] \in Rec /\ mine[d].id \in Run
         /\ Ours(d) => /\ Active = mine[d] /\ Active.id # 0
                       /\ mine[d].secret \in Run /\ Unfinished(mine[d])
                       /\ mine[d].device = d
                       /\ mine[d].superseded => mine[d].of # 0
                       /\ mine[d].step = "registered" => mine[d].version # 0
<1>1. mine[d] \in Rec /\ mine[d].id \in 1 .. born /\ born \in 0 .. MaxRuns  BY DEF TypeOK, Driving, DrivesRight
<1>2. mine[d].id \in Run  BY <1>1, BackupRunAssumption DEF Run
<1>3. ASSUME Ours(d) PROVE Active = mine[d]  BY <1>3 DEF Driving, DrivesRight
<1>4. ASSUME Ours(d) PROVE mine[d].device = d  BY <1>3, <1>4 DEF Ours
<1>5. ASSUME Active.id # 0 PROVE /\ Active.superseded => Active.of # 0
                                 /\ Active.step = "registered" => Active.version # 0
  BY <1>5, ActiveFacts DEF Places
<1> QED  BY <1>1, <1>2, <1>3, <1>4, <1>5, ActiveFacts DEF Run

LEMMA OutDrives ==
  ASSUME Driving, NEW d \in Device, NEW n \in out[d]
  PROVE  pc[d] \in {"deal", "settle"}
  BY DEF Driving, DrivesRight

LEMMA StopTyped ==
  ASSUME TypeOK, NEW d \in Device, Stop(d)
  PROVE  (pc' \in [Device -> {"idle", "publish", "look", "sign", "wait", "deal", "settle", "retire"}]
          /\ mine' \in [Device -> Rec] /\ out' \in [Device -> SUBSET Node] /\ broken' \subseteq Device)
  BY NoRunTyped DEF TypeOK, Stop

LEMMA DriveTyped ==
  ASSUME TypeOK, NEW d \in Device, NEW rec \in Rec, Drive(d, rec)
  PROVE  (pc' \in [Device -> {"idle", "publish", "look", "sign", "wait", "deal", "settle", "retire"}]
          /\ mine' \in [Device -> Rec] /\ out' \in [Device -> SUBSET Node] /\ broken' \subseteq Device)
  BY DEF TypeOK, Drive, NodesPending

LEMMA StepTyped ==
  ASSUME TypeOK, NEW d \in Device, NEW rec \in Rec,
         NEW p \in {"idle", "publish", "look", "sign", "wait", "deal", "settle", "retire"}, Step(d, rec, p)
  PROVE  (slot' \in [run : Rec, reshare : Rec]
          /\ pc' \in [Device -> {"idle", "publish", "look", "sign", "wait", "deal", "settle", "retire"}]
          /\ mine' \in [Device -> Rec])
  BY SavedTyped DEF TypeOK, Step

LEMMA CurrentTyped ==
  ASSUME TypeOK, NEW r \in Run
  PROVE  Current(r) \in [current : 0 .. MaxRuns, stale : SUBSET Run]
  BY BackupRunAssumption DEF TypeOK, Current, Run

LEMMA TypeStep ==
  ASSUME TypeOK, Places, Driving, [Next]_vars
  PROVE  TypeOK'
<1> USE DEF outside, network, Mishap
<1>1. ASSUME NEW d \in Device, StartFirst(d) PROVE TypeOK'
  <2>1. born + 1 \in Run /\ born' \in 0 .. MaxRuns
    BY <1>1, BackupRunAssumption DEF StartFirst, TypeOK, Run
  <2> DEFINE rec == Prepared(born + 1, d, born + 1, 0)
  <2>2. rec \in Rec  BY <2>1, PreparedTyped
  <2>3. slot' = Saved(rec) /\ Drive(d, rec)  BY <1>1 DEF StartFirst
  <2> HIDE DEF rec
  <2> QED  BY <1>1, <2>1, <2>2, <2>3, SavedTyped, DriveTyped DEF StartFirst, TypeOK
<1>2. ASSUME NEW d \in Device, StartReshare(d) PROVE TypeOK'
  <2>1. born + 1 \in Run /\ born' \in 0 .. MaxRuns
    BY <1>2, BackupRunAssumption DEF StartReshare, TypeOK, Run
  <2>2. slot.run.secret \in Run /\ slot.run.version \in Nat
    <3>1. slot.run \in Rec /\ slot.run.step = "done" /\ born \in 0 .. MaxRuns  BY <1>2 DEF StartReshare, Finished, TypeOK
    <3>2. slot.run.id # 0  BY <3>1 DEF Places
    <3> QED  BY <3>1, <3>2, BackupRunAssumption DEF Places, Rec, Run
  <2> DEFINE rec == Prepared(born + 1, d, slot.run.secret, slot.run.version)
  <2>3. rec \in Rec  BY <2>1, <2>2, PreparedTyped
  <2>4. slot' = Saved(rec) /\ Drive(d, rec)  BY <1>2 DEF StartReshare
  <2>5. UNCHANGED <<network, outside, mishaps>>  BY <1>2 DEF StartReshare
  <2> HIDE DEF rec
  <2> QED  BY <2>1, <2>3, <2>4, <2>5, SavedTyped, DriveTyped DEF TypeOK
<1>3. ASSUME NEW d \in Device, Resume(d) PROVE TypeOK'
  BY <1>3, ActiveTyped, DriveTyped DEF Resume, TypeOK
<1>4. ASSUME NEW d \in Device, FinishWithoutPendingNodes(d) PROVE TypeOK'
  <2> DEFINE rec == [Active EXCEPT !.skipped = @ \union NodesPending(Active)]
  <2>1. rec \in Rec  BY ActiveTyped, SkippedUpdate
  <2>2. slot' = Saved(rec) /\ Drive(d, rec)  BY <1>4 DEF FinishWithoutPendingNodes
  <2> HIDE DEF rec
  <2> QED  BY <1>4, <2>1, <2>2, SavedTyped, DriveTyped DEF FinishWithoutPendingNodes, TypeOK
<1>5. ASSUME NEW d \in Device, TakeOver(d) PROVE TypeOK'
  <2> DEFINE rec == [Active EXCEPT !.device = d]
  <2>1. rec \in Rec  BY ActiveTyped, DeviceUpdate
  <2>2. slot' = Saved(rec) /\ Drive(d, rec)  BY <1>5 DEF TakeOver
  <2> HIDE DEF rec
  <2>3. mishaps' \in 0 .. MaxMishaps  BY <1>5, BackupRunAssumption DEF TakeOver, TypeOK
  <2> QED  BY <1>5, <2>1, <2>2, <2>3, SavedTyped, DriveTyped DEF TakeOver, TypeOK
<1>6. ASSUME NEW d \in Device, Discard(d) PROVE TypeOK'
  <2>1. [slot.run EXCEPT !.step = "discarded"] \in Rec  BY StepUpdate DEF TypeOK, Steps
  <2>2. slot' \in [run : Rec, reshare : Rec]  BY <1>6, <2>1, NoRunTyped DEF Discard, TypeOK
  <2> QED  BY <1>6, <2>2 DEF Discard, TypeOK
<1>7. ASSUME NEW d \in Device, Publish(d) PROVE TypeOK'
  <2>1. pc[d] # "idle"  BY <1>7 DEF Publish
  <2>2. CASE Ours(d)
    <3>1. [mine[d] EXCEPT !.step = "published"] \in Rec  BY <2>1, OursFacts, StepUpdate DEF Steps
    <3>2. Step(d, [mine[d] EXCEPT !.step = "published"], "look")  BY <1>7, <2>2 DEF Publish, TakenOver
    <3>3. live' \subseteq Run /\ root' = Current(mine[d].id) /\ UNCHANGED <<out, broken>>
      BY <1>7, <2>1, <2>2, OursFacts DEF Publish, TakenOver, TypeOK
    <3> QED  BY <1>7, <2>1, <3>1, <3>2, <3>3, StepTyped, CurrentTyped, OursFacts DEF Publish, TypeOK
  <2>3. CASE ~Ours(d)
    BY <1>7, <2>3, StopTyped DEF Publish, TakenOver, TypeOK
  <2> QED  BY <2>2, <2>3
<1>8. ASSUME NEW d \in Device, Superseded(d) PROVE TypeOK'
  <2>1. pc[d] # "idle"  BY <1>8 DEF Superseded
  <2>2. [mine[d] EXCEPT !.superseded = TRUE] \in Rec  BY <2>1, OursFacts, SupersededUpdate
  <2>3. slot' \in [run : Rec, reshare : Rec]  BY <1>8, <2>2, SavedTyped DEF Superseded, TakenOver, TypeOK
  <2> QED  BY <1>8, <2>3, StopTyped DEF Superseded, TakenOver, TypeOK
<1>9. ASSUME NEW d \in Device, Registered(d) PROVE TypeOK'
  <2>1. pc[d] # "idle"  BY <1>9 DEF Registered
  <2>2. CASE Ours(d)
    <3> DEFINE rec == [mine[d] EXCEPT !.step = "registered", !.version = VersionOf(mine[d].secret)]
    <3>1. rec \in Rec
      <4>1. VersionOf(mine[d].secret) \in Nat  BY <2>1, <2>2, OursFacts DEF TypeOK, VersionOf
      <4> QED  BY <2>1, <4>1, OursFacts, RegisteredUpdate
    <3>2. Step(d, rec, "deal")  BY <1>9, <2>2 DEF Registered, TakenOver
    <3>3. out' \in [Device -> SUBSET Node] /\ UNCHANGED broken
      BY <1>9, <2>2 DEF Registered, TakenOver, TypeOK, NodesPending
    <3> HIDE DEF rec
    <3> QED  BY <1>9, <3>1, <3>2, <3>3, StepTyped DEF Registered, TypeOK
  <2>3. CASE ~Ours(d)
    BY <1>9, <2>3, StopTyped DEF Registered, TakenOver, TypeOK
  <2> QED  BY <2>2, <2>3
<1>10. ASSUME NEW d \in Device, Submit(d) PROVE TypeOK'
  <2>1. pc[d] # "idle"  BY <1>10 DEF Submit, NotYet
  <2>2. [mine[d] EXCEPT !.step = "submitted"] \in Rec  BY <2>1, OursFacts, StepUpdate DEF Steps
  <2>3. CASE Ours(d)
    BY <1>10, <2>2, <2>3, StepTyped DEF Submit, TakenOver, TypeOK
  <2>4. CASE ~Ours(d)
    BY <1>10, <2>4, StopTyped DEF Submit, TakenOver, TypeOK
  <2> QED  BY <2>3, <2>4
<1>11. ASSUME NEW d \in Device, GiveUp(d) PROVE TypeOK'
  BY <1>11, StopTyped DEF GiveUp, TypeOK
<1>12. ASSUME NEW d \in Device, Sign(d) PROVE TypeOK'
  <2>1. pc[d] # "idle"  BY <1>12 DEF Sign
  <2>2. CASE Ours(d)
    <3>1. Payload(mine[d]) \in [run : Run, secret : Run, bound : Nat]
      BY <2>1, <2>2, OursFacts DEF TypeOK, Payload, VersionOf
    <3> QED  BY <1>12, <2>2, <3>1 DEF Sign, TakenOver, TypeOK
  <2>3. CASE ~Ours(d)
    BY <1>12, <2>3, StopTyped DEF Sign, TakenOver, TypeOK
  <2> QED  BY <2>2, <2>3
<1>13. ASSUME NEW d \in Device, NEW n \in Node, Deposit(d, n) PROVE TypeOK'
  <2>1. pc[d] \in {"deal", "settle"}  BY <1>13, OutDrives DEF Deposit
  <2>2. mine[d].id \in Run /\ [mine[d] EXCEPT !.held = @ \union {n}, !.owed = @ \ {n}] \in Rec
    BY <2>1, OursFacts, HeldUpdate
  <2>3. out' \in [Device -> SUBSET Node] /\ deposits' \subseteq Run \X Node  BY <1>13, <2>2 DEF Deposit, TypeOK
  <2>4. CASE Ours(d)
    BY <1>13, <2>1, <2>2, <2>3, <2>4, StepTyped DEF Deposit, Aside, TypeOK
  <2>5. CASE ~Ours(d)
    BY <1>13, <2>3, <2>5 DEF Deposit, Aside, TypeOK
  <2> QED  BY <2>4, <2>5
<1>14. ASSUME NEW d \in Device, NEW n \in Node, DepositFailed(d, n) PROVE TypeOK'
  <2>1. pc[d] \in {"deal", "settle"}  BY <1>14, OutDrives DEF DepositFailed
  <2>2. mine[d].id \in Run /\ mine[d] \in Rec  BY <2>1, OursFacts
  <2>3. out' \in [Device -> SUBSET Node] /\ deposits' \subseteq Run \X Node  BY <1>14, <2>2 DEF DepositFailed, TypeOK
  <2>4. mishaps' \in 0 .. MaxMishaps  BY <1>14, BackupRunAssumption DEF DepositFailed, TypeOK
  <2>5. CASE Ours(d)
    BY <1>14, <2>1, <2>2, <2>3, <2>4, <2>5, StepTyped DEF DepositFailed, Aside, TypeOK
  <2>6. CASE ~Ours(d)
    BY <1>14, <2>3, <2>4, <2>6 DEF DepositFailed, Aside, TypeOK
  <2> QED  BY <2>5, <2>6
<1>15. ASSUME NEW d \in Device, NEW g \in Guardian, Send(d, g) PROVE TypeOK'
  <2>1. pc[d] # "idle"  BY <1>15 DEF Send
  <2>2. mine[d].id \in Run /\ [mine[d] EXCEPT !.sent = @ \union {g}] \in Rec
    BY <2>1, OursFacts, SentUpdate
  <2>3. pieces' \subseteq Run \X Guardian  BY <1>15, <2>2 DEF Send, TypeOK
  <2>4. CASE Ours(d)
    BY <1>15, <2>2, <2>3, <2>4, StepTyped DEF Send, TypeOK
  <2>5. CASE ~Ours(d)
    BY <1>15, <2>3, <2>5 DEF Send, TypeOK
  <2> QED  BY <2>4, <2>5
<1>16. ASSUME NEW d \in Device, SendFailed(d) PROVE TypeOK'
  <2>1. mishaps' \in 0 .. MaxMishaps  BY <1>16, BackupRunAssumption DEF SendFailed, TypeOK
  <2> QED  BY <1>16, <2>1 DEF SendFailed, TypeOK
<1>17. ASSUME NEW d \in Device, AllSent(d) PROVE TypeOK'
  BY <1>17 DEF AllSent, TypeOK
<1>18. ASSUME NEW d \in Device, Settled(d) PROVE TypeOK'
  <2>1. CASE Stop(d)
    BY <1>18, <2>1, StopTyped DEF Settled, TypeOK
  <2>2. CASE ~Stop(d)
    BY <1>18, <2>2 DEF Settled, TypeOK
  <2> QED  BY <2>1, <2>2
<1>19. ASSUME NEW d \in Device, Done(d) PROVE TypeOK'
  <2>1. pc[d] # "idle"  BY <1>19 DEF Done
  <2>2. [mine[d] EXCEPT !.step = "done", !.owed = {}, !.shares = {}] \in Rec  BY <2>1, OursFacts, DoneUpdate
  <2>3. slot' \in [run : Rec, reshare : Rec]  BY <1>19, <2>2, SavedTyped DEF Done, TakenOver, TypeOK
  <2>4. live' \subseteq Run /\ root' \in [current : 0 .. MaxRuns, stale : SUBSET Run]  BY <1>19 DEF Done, TypeOK
  <2> QED  BY <1>19, <2>3, <2>4, StopTyped DEF Done, TakenOver, TypeOK
<1>20. ASSUME NEW d \in Device, Revoke(d) PROVE TypeOK'
  <2>1. slot.run \in Rec /\ slot.run.step = "done" /\ born \in 0 .. MaxRuns  BY <1>20 DEF Revoke, Finished, TypeOK
  <2>2. slot.run.id # 0  BY <2>1 DEF Places
  <2>3. slot.run.secret \in Run  BY <2>1, <2>2, BackupRunAssumption DEF Places, Rec, Run
  <2>4. [slot.run EXCEPT !.revoked = TRUE, !.retirePending = TRUE] \in Rec  BY <2>1 DEF Rec
  <2>5. slot' \in [run : Rec, reshare : Rec]
    <3>1. slot' = [slot EXCEPT !.run = [slot.run EXCEPT !.revoked = TRUE, !.retirePending = TRUE]]  BY <1>20 DEF Revoke, TypeOK
    <3> QED  BY <3>1, <2>4 DEF TypeOK
  <2> QED  BY <1>20, <2>3, <2>5 DEF Revoke, TypeOK
<1>21. ASSUME NEW d \in Device, RetireRevoked(d) PROVE TypeOK'
  <2>1. [slot.run EXCEPT !.retirePending = FALSE] \in Rec  BY DEF TypeOK, Rec
  <2>2. slot' \in [run : Rec, reshare : Rec]  BY <1>21, <2>1 DEF RetireRevoked, TypeOK
  <2>3. live' \subseteq Run /\ root' \in [current : 0 .. MaxRuns, stale : SUBSET Run]
    BY <1>21, BackupRunAssumption DEF RetireRevoked, TypeOK
  <2> QED  BY <1>21, <2>2, <2>3 DEF RetireRevoked, TypeOK
<1>22. ASSUME NEW d \in Device, Stops(d) PROVE TypeOK'
  <2>1. pc[d] # "idle" /\ mishaps' \in 0 .. MaxMishaps  BY <1>22, BackupRunAssumption DEF Stops, TypeOK
  <2>2. mine[d].id \in Run  BY <2>1, OursFacts
  <2>3. deposits' \subseteq Run \X Node
    <3>1. PICK N \in SUBSET out[d] : deposits' = deposits \union {<<mine[d].id, n>> : n \in N}  BY <1>22 DEF Stops
    <3> QED  BY <2>2, <3>1 DEF TypeOK
  <2>4. pieces' \subseteq Run \X Guardian
    <3>1. PICK G \in SUBSET (Guardian \ mine[d].sent) : pieces' = pieces \union {<<mine[d].id, g>> : g \in G}  BY <1>22 DEF Stops
    <3> QED  BY <2>2, <3>1 DEF TypeOK
  <2>5. payloads' \subseteq [run : Run, secret : Run, bound : Nat]
    <3>1. Ours(d) => Payload(mine[d]) \in [run : Run, secret : Run, bound : Nat]
      BY <2>1, OursFacts DEF TypeOK, Payload, VersionOf
    <3> QED  BY <1>22, <3>1 DEF Stops, TypeOK
  <2>6. live' \subseteq Run /\ root' \in [current : 0 .. MaxRuns, stale : SUBSET Run]
    BY <1>22, <2>2, CurrentTyped DEF Stops, TypeOK
  <2>7. Stop(d) /\ UNCHANGED <<slot, chain, dead, others, born>>  BY <1>22 DEF Stops
  <2> QED  BY <2>1, <2>3, <2>4, <2>5, <2>6, <2>7, StopTyped DEF TypeOK
<1>23. ASSUME NEW p \in payloads, Lands(p) PROVE TypeOK'
  <2>1. p.run \in Run /\ p.secret \in Run  BY DEF TypeOK
  <2>2. Append(chain[p.secret], p.run) \in Seq(Run \union {Other})  BY <2>1, AppendFacts DEF TypeOK
  <2> QED  BY <1>23, <2>1, <2>2 DEF Lands, TypeOK
<1>24. ASSUME NEW p \in payloads, Reverts(p) PROVE TypeOK'
  BY <1>24 DEF Reverts, TypeOK
<1>25. ASSUME NEW p \in payloads, Lost(p) PROVE TypeOK'
  <2>1. mishaps' \in 0 .. MaxMishaps  BY <1>25, BackupRunAssumption DEF Lost, TypeOK
  <2> QED  BY <1>25, <2>1 DEF Lost, TypeOK
<1>26. ASSUME OtherChange PROVE TypeOK'
  <2>1. slot.run \in Rec /\ slot.run.step = "done" /\ born \in 0 .. MaxRuns  BY <1>26 DEF OtherChange, TypeOK
  <2>2. slot.run.id # 0  BY <2>1 DEF Places
  <2>3. slot.run.secret \in Run  BY <2>1, <2>2, BackupRunAssumption DEF Places, Rec, Run
  <2>4. Append(chain[slot.run.secret], Other) \in Seq(Run \union {Other})  BY <2>3, AppendFacts DEF TypeOK
  <2>5. others' \in 0 .. MaxOthers  BY <1>26, BackupRunAssumption DEF OtherChange, TypeOK
  <2> QED  BY <1>26, <2>3, <2>4, <2>5 DEF OtherChange, TypeOK
<1>27. ASSUME UNCHANGED vars PROVE TypeOK'
  BY <1>27 DEF vars, TypeOK
<1> QED
  BY <1>1, <1>2, <1>3, <1>4, <1>5, <1>6, <1>7, <1>8, <1>9, <1>10, <1>11, <1>12, <1>13, <1>14, <1>15,
     <1>16, <1>17, <1>18, <1>19, <1>20, <1>21, <1>22, <1>23, <1>24, <1>25, <1>26, <1>27
     DEF Next, Advance, Asked, Settles
-----------------------------------------------------------------------------
(* What the actions do to the slot, and who goes on driving.               *)

\* The active run's record is replaced by a later one of the same run.
Update(rec) ==
    /\ Active.id # 0 /\ rec \in Rec /\ Unfinished(rec)
    /\ rec.id = Active.id /\ rec.secret = Active.secret /\ rec.of = Active.of
    /\ rec.revoked = Active.revoked
    /\ rec.superseded => rec.of # 0
    /\ rec.step = "registered" => rec.version # 0
    /\ slot' = Saved(rec)

LEMMA UpdateFacts ==
  ASSUME TypeOK, Places, born' = born, NEW rec, Update(rec)
  PROVE  /\ Places' /\ Active' = rec
         /\ \/ slot' = [run |-> rec, reshare |-> NoRun] /\ Active = slot.run
            \/ slot' = [run |-> slot.run, reshare |-> rec] /\ Active = slot.reshare
<1>1. rec.step \notin {"none", "done", "discarded"}  BY DEF Update, Unfinished
<1>2. rec \in Rec /\ rec.id # 0 /\ slot \in [run : Rec, reshare : Rec]  BY DEF Update, TypeOK
<1>3. Active \in Rec /\ Unfinished(Active)  BY ActiveFacts DEF Update
<1>4. Active.step \notin {"none", "done", "discarded"}  BY <1>3 DEF Unfinished
<1>5. ~Unfinished(NoRun) /\ NoRun.step = "none"  BY NoRunTyped DEF NoRun
<1>6. CASE Active = slot.run /\ slot.reshare = NoRun /\ Active.of = 0
  <2>1. slot' = [run |-> rec, reshare |-> NoRun]  BY <1>2, <1>6 DEF Update, Saved
  <2>2. Active' = rec  BY <1>5, <2>1 DEF Active, ActiveIn, Update
  <2>3. ~rec.revoked /\ ~rec.superseded /\ rec.of = 0
    BY <1>2, <1>4, <1>6 DEF Places, Update, Rec
  <2>4. rec.secret \in 1 .. born /\ rec.id <= born /\ NoRun.id <= born
    BY <1>2, <1>6 DEF Places, Update
  <2>5. Places'  BY <1>1, <1>2, <1>5, <2>1, <2>3, <2>4 DEF Places, Update
  <2> QED  BY <1>6, <2>1, <2>2, <2>5
<1>7. CASE Active = slot.reshare /\ Active.of # 0
  <2>1. slot' = [run |-> slot.run, reshare |-> rec]  BY <1>1, <1>2, <1>7 DEF Update, Saved
  <2>2. Active' = rec  BY <2>1 DEF Active, ActiveIn, Update
  <2>3. slot.reshare # NoRun  BY <1>3, <1>5, <1>7
  <2>4. Places'  BY <1>1, <1>2, <1>7, <2>1, <2>3 DEF Places, Update
  <2> QED  BY <1>7, <2>1, <2>2, <2>4
<1> QED  BY <1>6, <1>7, ActiveFacts DEF Update

Untouched(e) ==
    /\ pc'[e] = pc[e] /\ mine'[e] = mine[e] /\ out'[e] = out[e]
    /\ e \in broken' <=> e \in broken

LEMMA ActiveUnchanged ==
  ASSUME slot' = slot
  PROVE  Active' = Active /\ InSlot' = InSlot
  BY DEF Active, InSlot

LEMMA StopDrives ==
  ASSUME TypeOK, NEW d \in Device, Stop(d)
  PROVE  /\ DrivesRight(d)'
         /\ \A e \in Device \ {d} : Untouched(e)
<1>1. pc'[d] = "idle" /\ mine'[d] = NoRun /\ out'[d] = {}  BY DEF TypeOK, Stop
<1>2. DrivesRight(d)'  BY <1>1 DEF DrivesRight, Phase, NoRun
<1> QED  BY <1>2 DEF TypeOK, Stop, Untouched

LEMMA DriveDrives ==
  ASSUME TypeOK, NEW d \in Device, NEW rec, Unfinished(rec), rec.id \in 1 .. born', Active' = rec,
         Drive(d, rec)
  PROVE  /\ DrivesRight(d)'
         /\ \A e \in Device \ {d} : Untouched(e)
<1>1. mine'[d] = rec  BY DEF TypeOK, Drive
<1>2. pc'[d] = CASE rec.step = "prepared" -> "publish" [] rec.step = "registered" -> "deal" [] OTHER -> "look"
  BY DEF TypeOK, Drive
<1>3. out'[d] = IF rec.step = "registered" THEN NodesPending(rec) ELSE {}  BY DEF TypeOK, Drive
<1>4. ASSUME rec.step = "prepared" PROVE DrivesRight(d)'
  <2>1. pc'[d] = "publish" /\ out'[d] = {}  BY <1>2, <1>3, <1>4
  <2> QED  BY <1>1, <1>4, <2>1 DEF DrivesRight, Phase
<1>5. ASSUME rec.step = "registered" PROVE DrivesRight(d)'
  <2>1. pc'[d] = "deal"  BY <1>2, <1>5
  <2> QED  BY <1>1, <1>5, <2>1 DEF DrivesRight, Phase
<1>6. ASSUME rec.step \in {"published", "submitted"} PROVE DrivesRight(d)'
  <2>1. pc'[d] = "look" /\ out'[d] = {}  BY <1>2, <1>3, <1>6
  <2> QED  BY <1>1, <1>6, <2>1 DEF DrivesRight, Phase
<1>7. DrivesRight(d)'  BY <1>4, <1>5, <1>6 DEF Unfinished
<1> QED  BY <1>7 DEF TypeOK, Drive, Untouched

\* Who goes on as before has a run that is theirs only if it was.
LEMMA GoesOnDriving ==
  ASSUME Driving, NEW e \in Device, born' \in Nat, born \in Nat, born' >= born,
         Untouched(e), pc[e] # "idle" /\ Ours(e)' => Active' = mine[e]
  PROVE  DrivesRight(e)'
<1>1. DrivesRight(e)  BY DEF Driving
<1>2. Phase(e)'  BY <1>1 DEF DrivesRight, Phase, Untouched
<1>3. NodesPending(mine[e]) = NodesPending(mine[e])'  BY DEF NodesPending, Untouched
<1> QED  BY <1>1, <1>2, <1>3 DEF DrivesRight, Untouched

\* The slot stays, and d alone does something.
LEMMA SlotStays ==
  ASSUME TypeOK, Places, Driving, slot' = slot, born' = born, NEW d \in Device, DrivesRight(d)',
         \A e \in Device \ {d} : Untouched(e)
  PROVE  Places' /\ Driving'
<1>1. born \in Nat  BY BackupRunAssumption DEF TypeOK
<1>2. ASSUME NEW e \in Device, e # d, pc[e] # "idle", Ours(e)' PROVE Active' = mine[e]
  <2>1. mine'[e] = mine[e] /\ Active' = Active  BY <1>2, ActiveUnchanged DEF Untouched
  <2>2. Ours(e)  BY <1>2, <2>1 DEF Ours
  <2> QED  BY <1>2, <2>1, <2>2 DEF Driving, DrivesRight
<1>3. Driving'  BY <1>1, <1>2, GoesOnDriving DEF Driving
<1> QED  BY <1>3 DEF Places

\* A record of the run that d drives replaces the active one.
LEMMA OwnUpdate ==
  ASSUME TypeOK, Places, Driving, born' = born, NEW d \in Device, NEW rec, Update(rec), rec.device = d,
         DrivesRight(d)', \A e \in Device \ {d} : Untouched(e)
  PROVE  Places' /\ Driving'
<1>1. born \in Nat  BY BackupRunAssumption DEF TypeOK
<1>2. Places' /\ Active' = rec  BY UpdateFacts
<1>3. ASSUME NEW e \in Device, e # d PROVE ~Ours(e)'
  BY <1>2, <1>3 DEF Ours
<1> QED  BY <1>1, <1>2, <1>3, GoesOnDriving DEF Driving

\* No run is left that anybody drives.
LEMMA NobodyDrives ==
  ASSUME TypeOK, Driving, born' = born, NEW d \in Device, Active' = NoRun, DrivesRight(d)',
         \A e \in Device \ {d} : Untouched(e)
  PROVE  Driving'
<1>1. born \in Nat  BY BackupRunAssumption DEF TypeOK
<1>2. ASSUME NEW e \in Device, e # d, pc[e] # "idle" PROVE ~Ours(e)'
  <2>1. mine'[e].id # 0  BY <1>1, <1>2 DEF Driving, DrivesRight, Untouched
  <2> QED  BY <2>1 DEF Ours, NoRun
<1> QED  BY <1>1, <1>2, GoesOnDriving DEF Driving

LEMMA PromotedFields ==
  ASSUME NEW record \in Rec, NEW rec \in Rec
  PROVE  LET new == Promoted(record, rec)
         IN  /\ new \in Rec
             /\ new.id = rec.id /\ new.secret = record.secret /\ new.of = 0
             /\ new.version = rec.version /\ new.step = rec.step /\ new.device = rec.device
             /\ ~new.superseded /\ new.revoked = record.revoked
             /\ new.owed = rec.owed /\ new.held = rec.held /\ new.skipped = rec.skipped
             /\ new.shares = rec.shares /\ new.sent = rec.sent
  BY Zenon, SMTT(30) DEF Promoted, Rec

\* A record with no reshare beside it.
Alone(rec, b) ==
    /\ rec.of = 0 /\ ~rec.superseded /\ (rec.id = 0 <=> rec.step = "none")
    /\ rec.id # 0 => rec.secret \in 1 .. b
    /\ rec.revoked => rec.step = "done"
    /\ rec.step \in {"registered", "done"} => rec.version # 0
    /\ rec.id <= b

LEMMA PlacesAlone ==
  ASSUME born' \in Nat, NEW rec, slot' = [run |-> rec, reshare |-> NoRun], Alone(rec, born')
  PROVE  Places'
<1>1. NoRun.id = 0 /\ NoRun.step = "none"  BY DEF NoRun
<1>2. slot'.run = rec /\ slot'.reshare = NoRun  OBVIOUS
<1> QED  BY <1>1, <1>2 DEF Places, Alone

LEMMA PlacesThen == Places => Alone(slot.run, born)
  BY DEF Places, Alone

\* What Done leaves in the slot.
LEMMA DoneSlot ==
  ASSUME TypeOK, Places, NEW rec \in Rec, Active.id # 0, Active.step = "registered",
         rec.id = Active.id, rec.secret = Active.secret, rec.of = Active.of, rec.version = Active.version,
         rec.superseded = Active.superseded, rec.revoked = Active.revoked, rec.step = "done",
         slot' = Saved(rec), born' = born
  PROVE  /\ Places' /\ Active' = NoRun /\ slot'.reshare = NoRun
         /\ slot'.run = (IF rec.of = 0 THEN rec ELSE Promoted(slot.run, rec))
         /\ slot'.run.secret = rec.secret /\ slot'.run.id = rec.id /\ slot'.run.step = "done"
         /\ slot'.run.version = rec.version /\ ~slot'.run.revoked /\ slot.run.revoked = FALSE
<1>1. NoRun.id = 0 /\ NoRun.step = "none" /\ ~Unfinished(NoRun)  BY NoRunTyped DEF NoRun
<1>2. slot.run \in Rec /\ slot.reshare \in Rec /\ slot = [run |-> slot.run, reshare |-> slot.reshare]
      /\ born \in Nat
  BY BackupRunAssumption DEF TypeOK
<1>3. Active.version # 0 /\ rec.id # 0 /\ rec.id <= born /\ Active.secret \in 1 .. born
  <2>1. Active.id <= born /\ Active.version # 0  BY ActiveFacts DEF Places
  <2>2. CASE Active = slot.run
    BY <2>1, <2>2 DEF Places
  <2>3. CASE Active = slot.reshare /\ Finished(slot.run) /\ Unfinished(slot.reshare)
    <3>1. slot.run.id # 0  BY <2>3 DEF Places, Finished
    <3>2. slot.reshare.secret = slot.run.secret  BY <1>1, <2>3 DEF Places
    <3> QED  BY <2>1, <2>3, <3>1, <3>2 DEF Places
  <2> QED  BY <2>2, <2>3, ActiveFacts
<1>4. CASE Active = slot.run /\ slot.reshare = NoRun /\ Active.of = 0
  <2>1. slot' = [run |-> rec, reshare |-> NoRun]  BY <1>2, <1>4 DEF Saved
  <2>2. Active' = NoRun  BY <1>1, <2>1 DEF Active, ActiveIn, Unfinished
  <2>3. slot.run.revoked = FALSE  BY <1>2, <1>4 DEF Places, Rec
  <2>4. rec.superseded = FALSE /\ rec.revoked = FALSE  BY <1>2, <1>4, <2>3 DEF Places, Rec
  <2>5. Alone(rec, born')  BY <1>1, <1>3, <1>4, <2>1, <2>4, <1>2 DEF Alone
  <2>6. Places'  BY <1>2, <2>1, <2>5, PlacesAlone
  <2> QED  BY <1>3, <1>4, <2>1, <2>2, <2>3, <2>4, <2>6
<1>5. CASE Active = slot.reshare /\ Active.of # 0 /\ Finished(slot.run)
  <2> DEFINE new == Promoted(slot.run, rec)
  <2>1. slot.run.step = "done" /\ ~slot.run.revoked  BY <1>5 DEF Finished
  <2>2. slot' = [run |-> new, reshare |-> NoRun]
    BY <1>5, <2>1, <1>2 DEF Saved
  <2>3. slot.reshare.secret = slot.run.secret  BY <1>1, <1>5 DEF Places
  <2>4. /\ new.id = rec.id /\ new.secret = slot.run.secret /\ new.of = 0 /\ new.version = rec.version
        /\ new.step = "done" /\ ~new.superseded /\ new.revoked = slot.run.revoked
    BY <1>2, PromotedFields
  <2> HIDE DEF new
  <2>5. slot'.run = new /\ slot'.reshare = NoRun  BY <2>2
  <2>6. Active' = NoRun  BY <1>1, <2>4, <2>5 DEF Active, ActiveIn, Unfinished
  <2>7. slot.run.revoked = FALSE  BY <1>2, <2>1 DEF Rec
  <2>8. rec.secret = slot.run.secret  BY <1>5, <2>3
  <2>9. Alone(new, born')  BY <1>1, <1>3, <2>3, <2>4, <2>7, <2>8 DEF Alone
  <2>10. Places'  BY <1>2, <2>2, <2>9, PlacesAlone
  <2>11. rec.of # 0  BY <1>5
  <2> QED  BY <2>4, <2>5, <2>6, <2>7, <2>8, <2>10, <2>11 DEF new
<1> QED  BY <1>4, <1>5, ActiveFacts

\* No run is left, and nobody does anything.
LEMMA IdleDriving ==
  ASSUME TypeOK, Driving, born' = born, Active' = NoRun, UNCHANGED <<pc, mine, out, broken>>
  PROVE  Driving'
<1> SUFFICES ASSUME NEW e \in Device PROVE DrivesRight(e)'
  BY DEF Driving
<1>1. DrivesRight(e)  BY DEF Driving
<1>2. pc[e] # "idle" => ~Ours(e)'
  <2>1. born \in Nat  BY BackupRunAssumption DEF TypeOK
  <2> QED  BY <1>1, <2>1 DEF DrivesRight, Ours, NoRun
<1> QED  BY <1>1, <1>2 DEF DrivesRight, Phase, NodesPending

\* The run that d finds is not its own any more.
LEMMA LosesIt ==
  ASSUME TypeOK, Places, Driving, born' = born, NEW d \in Device, TakenOver(d)
  PROVE  Places' /\ Driving'
  BY StopDrives, SlotStays DEF TakenOver

\* A record made of the one that d drives is one of the active run.
LEMMA OwnRec ==
  ASSUME TypeOK, Places, Driving, NEW d \in Device, pc[d] # "idle", Ours(d),
         NEW rec \in Rec, Unfinished(rec), slot' = Saved(rec),
         rec.id = mine[d].id, rec.secret = mine[d].secret, rec.of = mine[d].of, rec.revoked = mine[d].revoked,
         rec.device = mine[d].device, rec.superseded => rec.of # 0,
         rec.step = "registered" => rec.version # 0
  PROVE  Update(rec) /\ rec.device = d /\ rec.id = mine[d].id
  BY OursFacts DEF Update

LEMMA OwnSame ==
  ASSUME TypeOK, Places, Driving, NEW d \in Device, pc[d] # "idle", NEW rec \in Rec,
         rec.id = mine[d].id, rec.secret = mine[d].secret, rec.of = mine[d].of, rec.revoked = mine[d].revoked,
         rec.device = mine[d].device, rec.version = mine[d].version, rec.superseded = mine[d].superseded,
         rec.step = mine[d].step
  PROVE  Ours(d) => Update(rec) \/ slot' # Saved(rec)
<1> SUFFICES ASSUME Ours(d), slot' = Saved(rec) PROVE Update(rec)
  OBVIOUS
<1>1. /\ Unfinished(mine[d]) /\ (mine[d].superseded => mine[d].of # 0)
      /\ (mine[d].step = "registered" => mine[d].version # 0)
  BY OursFacts
<1>2. Unfinished(rec)  BY <1>1 DEF Unfinished
<1> QED  BY <1>1, <1>2, OwnRec

LEMMA OutEmpty ==
  ASSUME Driving, NEW d \in Device, pc[d] \in {"publish", "look", "sign", "wait", "retire"}
  PROVE  out[d] = {}
  BY DEF Driving, DrivesRight

\* d goes on with the record that it saved.
LEMMA StepDrives ==
  ASSUME TypeOK, Driving, born' = born, NEW d \in Device, NEW rec, NEW next, pc[d] # "idle",
         Step(d, rec, next), UNCHANGED broken, Active' = rec, rec.id = mine[d].id,
         \/ next = "look" /\ rec.step \in {"published", "submitted"} /\ out[d] = {} /\ UNCHANGED out
         \/ next = "sign" /\ rec.step = "submitted" /\ out[d] = {} /\ UNCHANGED out
         \/ /\ next = "deal" /\ rec.step = "registered"
            /\ UNCHANGED out \/ \E N : out' = [out EXCEPT ![d] = N]
  PROVE  DrivesRight(d)' /\ \A e \in Device \ {d} : Untouched(e)
<1>1. pc'[d] = next /\ mine'[d] = rec /\ rec.id \in 1 .. born'  BY DEF TypeOK, Step, Driving, DrivesRight
<1>2. out'[d] = {} \/ next = "deal"  OBVIOUS
<1>3. Phase(d)'  BY <1>1 DEF Phase
<1>4. DrivesRight(d)'  BY <1>1, <1>2, <1>3 DEF DrivesRight
<1>5. \A e \in Device \ {d} : Untouched(e)  BY DEF Untouched, TypeOK, Step
<1> QED  BY <1>4, <1>5

\* What ends beside the others leaves d where it is.
LEMMA AsideOurs ==
  ASSUME TypeOK, Places, Driving, born' = born, NEW d \in Device, NEW N, NEW rec, Ours(d),
         pc[d] \in {"deal", "settle"}, Step(d, rec, pc[d]), UNCHANGED broken, Update(rec),
         rec.device = mine[d].device, rec.id = mine[d].id, rec.step = mine[d].step, rec.sent = mine[d].sent,
         out' = [out EXCEPT ![d] = N]
  PROVE  Places' /\ Driving'
<1>1. DrivesRight(d)  BY DEF Driving
<1>2. rec.device = d  BY OursFacts
<1>3. Active' = rec  BY UpdateFacts
<1>4. pc'[d] = pc[d] /\ mine'[d] = rec  BY DEF Step, TypeOK
<1>5. DrivesRight(d)'  BY <1>1, <1>3, <1>4 DEF DrivesRight, Phase
<1>6. \A e \in Device \ {d} : Untouched(e)  BY DEF Untouched, TypeOK, Step
<1> QED  BY <1>2, <1>5, <1>6, OwnUpdate

LEMMA AsideLost ==
  ASSUME TypeOK, Places, Driving, born' = born, NEW d \in Device,
         pc[d] \in {"deal", "settle"}, broken' = broken \union {d}, slot' = slot, mine' = mine, pc' = pc,
         \A e \in Device \ {d} : out'[e] = out[e]
  PROVE  Places' /\ Driving'
<1>1. DrivesRight(d)  BY DEF Driving
<1>2. Active' = Active /\ (Ours(d)' <=> Ours(d))  BY ActiveUnchanged DEF Ours
<1>3. DrivesRight(d)'  BY <1>1, <1>2 DEF DrivesRight, Phase
<1>4. \A e \in Device \ {d} : Untouched(e)  BY DEF Untouched, TypeOK
<1> QED  BY <1>3, <1>4, SlotStays

\* d has sent what it could.
LEMMA SettleNext ==
  ASSUME TypeOK, Places, Driving, born' = born, NEW d \in Device, pc[d] = "deal",
         pc' = [pc EXCEPT ![d] = "settle"], UNCHANGED <<slot, mine, out>>,
         broken' = broken \union {d} \/ (broken' = broken /\ mine[d].sent = Guardian)
  PROVE  Places' /\ Driving'
<1>1. DrivesRight(d) /\ pc'[d] = "settle" /\ Active' = Active /\ (Ours(d)' <=> Ours(d))
  BY ActiveUnchanged DEF Driving, TypeOK, Ours
<1>2. DrivesRight(d)'  BY <1>1 DEF DrivesRight, Phase
<1>3. \A e \in Device \ {d} : Untouched(e)  BY DEF Untouched, TypeOK
<1> QED  BY <1>2, <1>3, SlotStays

LEMMA CoreStep ==
  ASSUME TypeOK, Places, Driving, [Next]_vars
  PROVE  Places' /\ Driving'
<1> USE DEF outside, network
<1>0. born \in Nat /\ slot.run \in Rec /\ slot.reshare \in Rec
      /\ slot = [run |-> slot.run, reshare |-> slot.reshare]
  BY BackupRunAssumption DEF TypeOK
<1>n. NoRun.id = 0 /\ NoRun.step = "none" /\ ~Unfinished(NoRun) /\ NoRun.device = NoDevice /\ NoRun.of = 0
  BY NoRunTyped DEF NoRun
<1>1. ASSUME NEW d \in Device, StartFirst(d) PROVE Places' /\ Driving'
  <2> DEFINE rec == Prepared(born + 1, d, born + 1, 0)
  <2>1. /\ rec.id = born + 1 /\ rec.secret = born + 1 /\ rec.of = 0 /\ rec.step = "prepared"
        /\ ~rec.superseded /\ ~rec.revoked /\ Unfinished(rec)
    BY DEF Prepared, Unfinished
  <2>2. slot' = Saved(rec) /\ Drive(d, rec) /\ born' = born + 1  BY <1>1 DEF StartFirst
  <2> HIDE DEF rec
  <2>3. slot.reshare = NoRun  BY <1>1 DEF StartFirst, Places, Finished
  <2>4. slot' = [run |-> rec, reshare |-> NoRun]  BY <1>0, <2>1, <2>2, <2>3 DEF Saved
  <2>5. Active' = rec  BY <1>n, <2>1, <2>4 DEF Active, ActiveIn
  <2>6. Places'  BY <1>0, <1>n, <2>1, <2>2, <2>4 DEF Places
  <2>7. DrivesRight(d)' /\ \A e \in Device \ {d} : Untouched(e)
    BY <1>0, <2>1, <2>2, <2>5, DriveDrives
  <2>8. ASSUME NEW e \in Device, e # d, pc[e] # "idle" PROVE ~Ours(e)'
    <3>1. mine'[e].id <= born  BY <1>0, <2>7, <2>8 DEF Driving, DrivesRight, Untouched
    <3> QED  BY <1>0, <2>1, <2>5, <3>1 DEF Ours
  <2> QED  BY <1>0, <2>2, <2>6, <2>7, <2>8, GoesOnDriving DEF Driving
<1>2. ASSUME NEW d \in Device, StartReshare(d) PROVE Places' /\ Driving'
  <2> DEFINE rec == Prepared(born + 1, d, slot.run.secret, slot.run.version)
  <2>1. /\ rec.id = born + 1 /\ rec.secret = slot.run.secret /\ rec.of = slot.run.version
        /\ rec.step = "prepared" /\ ~rec.superseded /\ ~rec.revoked /\ Unfinished(rec)
    BY DEF Prepared, Unfinished
  <2>2. slot' = Saved(rec) /\ Drive(d, rec) /\ born' = born + 1  BY <1>2 DEF StartReshare
  <2> HIDE DEF rec
  <2>3. Finished(slot.run) /\ slot.run.step = "done"  BY <1>2 DEF StartReshare, Finished
  <2>4. slot.run.version \in Nat \ {0} /\ slot.run.id # 0 /\ slot.run.secret \in 1 .. born
    BY <1>0, <2>3 DEF Places, Rec
  <2>5. slot' = [run |-> slot.run, reshare |-> rec]  BY <1>0, <2>1, <2>2, <2>3, <2>4 DEF Saved
  <2>6. Active' = rec  BY <2>1, <2>5 DEF Active, ActiveIn
  <2>7. Places'
    <3>1. slot.run.id <= born /\ slot.run.id \in Nat  BY <1>0 DEF Places, Rec
    <3>2. slot.run.of = 0 /\ ~slot.run.superseded /\ slot.run.version # 0  BY <2>4 DEF Places
    <3>3. slot'.run = slot.run /\ slot'.reshare = rec  BY <2>5
    <3>4. /\ Unfinished(rec) /\ rec.id # 0 /\ rec.id # slot.run.id /\ rec.of \in Nat \ {0}
          /\ rec.id <= born' /\ slot.run.id <= born' /\ slot.run.secret \in 1 .. born'
      BY <1>0, <2>1, <2>2, <2>4, <3>1
    <3> QED  BY <2>1, <2>3, <2>4, <3>2, <3>3, <3>4 DEF Places, Finished
  <2>8. DrivesRight(d)' /\ \A e \in Device \ {d} : Untouched(e)
    BY <1>0, <2>1, <2>2, <2>6, DriveDrives
  <2>9. ASSUME NEW e \in Device, e # d, pc[e] # "idle" PROVE ~Ours(e)'
    <3>1. mine'[e].id <= born  BY <1>0, <2>8, <2>9 DEF Driving, DrivesRight, Untouched
    <3> QED  BY <1>0, <2>1, <2>6, <3>1 DEF Ours
  <2> QED  BY <1>0, <2>2, <2>7, <2>8, <2>9, GoesOnDriving DEF Driving
<1>3. ASSUME NEW d \in Device, Resume(d) PROVE Places' /\ Driving'
  <2>1. slot' = slot /\ born' = born /\ Drive(d, Active) /\ Active.device = d  BY <1>3 DEF Resume
  <2>2. Active.id # 0  BY <1>n, <2>1, ActiveNone, BackupRunAssumption
  <2>3. Active' = Active /\ Unfinished(Active)  BY <2>1, <2>2, ActiveUnchanged, ActiveFacts
  <2>4. Active.id \in 1 .. born'  BY <1>0, <2>1, <2>2, ActiveFacts DEF Places, Rec
  <2>5. DrivesRight(d)' /\ \A e \in Device \ {d} : Untouched(e)  BY <2>1, <2>3, <2>4, DriveDrives
  <2> QED  BY <2>1, <2>5, SlotStays
<1>4. ASSUME NEW d \in Device, FinishWithoutPendingNodes(d) PROVE Places' /\ Driving'
  <2> DEFINE rec == [Active EXCEPT !.skipped = @ \union NodesPending(Active)]
  <2>1. slot' = Saved(rec) /\ Drive(d, rec) /\ born' = born /\ Active.device = d /\ Active.step = "registered"
    BY <1>4 DEF FinishWithoutPendingNodes
  <2>2. Active.id # 0  BY <1>n, <2>1, ActiveNone
  <2>3. Update(rec) /\ rec.device = d
    BY <2>1, <2>2, ActiveFacts, SkippedUpdate DEF Update, Unfinished, Places
  <2> HIDE DEF rec
  <2>4. Active' = rec /\ rec.id \in 1 .. born'
    BY <1>0, <2>1, <2>2, <2>3, UpdateFacts, ActiveFacts DEF Places, Update, Rec
  <2>5. DrivesRight(d)' /\ \A e \in Device \ {d} : Untouched(e)
    BY <2>1, <2>3, <2>4, DriveDrives DEF Update
  <2> QED  BY <2>1, <2>3, <2>5, OwnUpdate
<1>5. ASSUME NEW d \in Device, TakeOver(d) PROVE Places' /\ Driving'
  <2> DEFINE rec == [Active EXCEPT !.device = d]
  <2>1. slot' = Saved(rec) /\ Drive(d, rec) /\ born' = born /\ Active.device # NoDevice  BY <1>5 DEF TakeOver
  <2>2. Active.id # 0  BY <1>n, <2>1, ActiveNone
  <2>3. Update(rec) /\ rec.device = d
    BY <2>1, <2>2, ActiveFacts, DeviceUpdate DEF Update, Unfinished, Places
  <2> HIDE DEF rec
  <2>4. Active' = rec /\ rec.id \in 1 .. born'
    BY <1>0, <2>1, <2>2, <2>3, UpdateFacts, ActiveFacts DEF Places, Update, Rec
  <2>5. DrivesRight(d)' /\ \A e \in Device \ {d} : Untouched(e)
    BY <2>1, <2>3, <2>4, DriveDrives DEF Update
  <2> QED  BY <2>1, <2>3, <2>5, OwnUpdate
<1>6. ASSUME NEW d \in Device, Discard(d) PROVE Places' /\ Driving'
  <2>1. /\ pc[d] = "idle" /\ CanDiscard(Active) /\ born' = born
        /\ UNCHANGED <<pc, mine, out, broken>>
        /\ slot' = IF Active.of > 0 THEN [slot EXCEPT !.reshare = NoRun]
                   ELSE [slot EXCEPT !.run.step = "discarded"]
    BY <1>6 DEF Discard
  <2>2. Active.id # 0  BY <1>n, <2>1, ActiveNone DEF CanDiscard
  <2>3. \A e \in Device : Untouched(e)  BY <2>1 DEF Untouched
  <2>4. Places' /\ Active' = NoRun
    <3>1. CASE Active = slot.run /\ slot.reshare = NoRun /\ Active.of = 0
      <4> DEFINE rec == [slot.run EXCEPT !.step = "discarded"]
      <4>1. /\ rec.id = slot.run.id /\ rec.secret = slot.run.secret /\ rec.of = slot.run.of
            /\ rec.version = slot.run.version /\ rec.superseded = slot.run.superseded
            /\ rec.revoked = slot.run.revoked /\ rec.step = "discarded"
        BY <1>0, StepUpdate DEF Steps
      <4>2. slot' = [run |-> rec, reshare |-> NoRun]  BY <1>0, <2>1, <3>1
      <4> HIDE DEF rec
      <4>3. slot.run.revoked => FALSE
        BY <2>2, <3>1, ActiveFacts DEF Places, Unfinished
      <4>4. Active' = NoRun  BY <1>n, <4>1, <4>2 DEF Active, ActiveIn, Unfinished
      <4>5. Places'  BY <1>0, <1>n, <2>1, <2>2, <3>1, <4>1, <4>2, <4>3 DEF Places
      <4> QED  BY <4>4, <4>5
    <3>2. CASE Active = slot.reshare /\ Active.of # 0 /\ Finished(slot.run)
      <4>1. Active.of > 0  BY <1>0, <3>2 DEF Rec
      <4>2. slot' = [run |-> slot.run, reshare |-> NoRun]  BY <1>0, <2>1, <4>1
      <4>3. Active' = NoRun  BY <1>n, <3>2, <4>2 DEF Active, ActiveIn, Unfinished, Finished
      <4>4. Alone(slot.run, born')  BY <2>1, <4>2, PlacesThen DEF Alone
      <4>5. Places'  BY <1>0, <2>1, <4>2, <4>4, PlacesAlone
      <4> QED  BY <4>3, <4>5
    <3> QED  BY <2>2, <3>1, <3>2, ActiveFacts
  <2>5. DrivesRight(d)'
    <3>1. DrivesRight(d)  BY DEF Driving
    <3> QED  BY <2>1, <3>1 DEF DrivesRight, Phase, NodesPending
  <2> QED  BY <2>1, <2>3, <2>4, <2>5, NobodyDrives
<1>7. ASSUME NEW d \in Device, Publish(d) PROVE Places' /\ Driving'
  <2>1. pc[d] = "publish" /\ born' = born  BY <1>7 DEF Publish
  <2>2. CASE Ours(d)
    <3> DEFINE rec == [mine[d] EXCEPT !.step = "published"]
    <3>1. Step(d, rec, "look") /\ UNCHANGED <<out, broken>>  BY <1>7, <2>2 DEF Publish, TakenOver
    <3>2. /\ rec \in Rec /\ rec.id = mine[d].id /\ rec.secret = mine[d].secret /\ rec.of = mine[d].of
          /\ rec.revoked = mine[d].revoked /\ rec.device = mine[d].device
          /\ rec.superseded = mine[d].superseded /\ rec.step = "published"
      <4>1. mine[d] \in Rec  BY <2>1, OursFacts
      <4> QED  BY <4>1, StepUpdate DEF Steps
    <3> HIDE DEF rec
    <3>3. Update(rec) /\ rec.device = d  BY <2>1, <2>2, <3>1, <3>2, OwnRec, OursFacts DEF Step, Unfinished
    <3>4. Active' = rec /\ out[d] = {}  BY <2>1, <3>3, UpdateFacts, OutEmpty
    <3>5. DrivesRight(d)' /\ \A e \in Device \ {d} : Untouched(e)  BY <2>1, <3>1, <3>2, <3>4, StepDrives
    <3> QED  BY <2>1, <3>3, <3>5, OwnUpdate
  <2>3. CASE ~Ours(d)
    BY <1>7, <2>1, <2>3, LosesIt DEF Publish
  <2> QED  BY <2>2, <2>3
<1>8. ASSUME NEW d \in Device, Superseded(d) PROVE Places' /\ Driving'
  <2>1. pc[d] # "idle" /\ born' = born /\ Moved(mine[d])  BY <1>8 DEF Superseded
  <2>2. CASE Ours(d)
    <3> DEFINE rec == [mine[d] EXCEPT !.superseded = TRUE]
    <3>1. slot' = Saved(rec) /\ Stop(d)  BY <1>8, <2>2 DEF Superseded, TakenOver
    <3>2. Update(rec) /\ rec.device = d
      BY <2>1, <2>2, <3>1, OursFacts, SupersededUpdate DEF Update, Unfinished, Moved
    <3> HIDE DEF rec
    <3> QED  BY <2>1, <3>1, <3>2, StopDrives, OwnUpdate
  <2>3. CASE ~Ours(d)
    BY <1>8, <2>1, <2>3, LosesIt DEF Superseded
  <2> QED  BY <2>2, <2>3
<1>9. ASSUME NEW d \in Device, Registered(d) PROVE Places' /\ Driving'
  <2>1. pc[d] \in {"look", "wait"} /\ born' = born /\ Landed(mine[d])  BY <1>9 DEF Registered
  <2>2. CASE Ours(d)
    <3> DEFINE rec == [mine[d] EXCEPT !.step = "registered", !.version = VersionOf(mine[d].secret)]
    <3>1. Step(d, rec, "deal") /\ out' = [out EXCEPT ![d] = NodesPending(rec)] /\ UNCHANGED broken
      BY <1>9, <2>2 DEF Registered, TakenOver
    <3>2. VersionOf(mine[d].secret) \in Nat \ {0}
      BY <2>1, <2>2, OursFacts DEF TypeOK, VersionOf, Landed
    <3>3. /\ rec \in Rec /\ rec.id = mine[d].id /\ rec.secret = mine[d].secret /\ rec.of = mine[d].of
          /\ rec.revoked = mine[d].revoked /\ rec.device = mine[d].device
          /\ rec.superseded = mine[d].superseded /\ rec.step = "registered" /\ rec.version # 0
      <4>1. mine[d] \in Rec  BY <2>1, OursFacts
      <4> QED  BY <3>2, <4>1, RegisteredUpdate
    <3> HIDE DEF rec
    <3>4. Update(rec) /\ rec.device = d  BY <2>1, <2>2, <3>1, <3>3, OwnRec, OursFacts DEF Step, Unfinished
    <3>5. Active' = rec  BY <2>1, <3>4, UpdateFacts
    <3>6. DrivesRight(d)' /\ \A e \in Device \ {d} : Untouched(e)  BY <2>1, <3>1, <3>3, <3>5, StepDrives
    <3> QED  BY <2>1, <3>4, <3>6, OwnUpdate
  <2>3. CASE ~Ours(d)
    BY <1>9, <2>1, <2>3, LosesIt DEF Registered
  <2> QED  BY <2>2, <2>3
<1>10. ASSUME NEW d \in Device, Submit(d) PROVE Places' /\ Driving'
  <2>1. pc[d] = "look" /\ born' = born  BY <1>10 DEF Submit, NotYet
  <2>2. CASE Ours(d)
    <3> DEFINE rec == [mine[d] EXCEPT !.step = "submitted"]
    <3>1. Step(d, rec, "sign") /\ UNCHANGED <<out, broken>>  BY <1>10, <2>2 DEF Submit, TakenOver
    <3>2. /\ rec \in Rec /\ rec.id = mine[d].id /\ rec.secret = mine[d].secret /\ rec.of = mine[d].of
          /\ rec.revoked = mine[d].revoked /\ rec.device = mine[d].device
          /\ rec.superseded = mine[d].superseded /\ rec.step = "submitted"
      <4>1. mine[d] \in Rec  BY <2>1, OursFacts
      <4> QED  BY <4>1, StepUpdate DEF Steps
    <3> HIDE DEF rec
    <3>3. Update(rec) /\ rec.device = d  BY <2>1, <2>2, <3>1, <3>2, OwnRec, OursFacts DEF Step, Unfinished
    <3>4. Active' = rec /\ out[d] = {}  BY <2>1, <3>3, UpdateFacts, OutEmpty
    <3>5. DrivesRight(d)' /\ \A e \in Device \ {d} : Untouched(e)  BY <2>1, <3>1, <3>2, <3>4, StepDrives
    <3> QED  BY <2>1, <3>3, <3>5, OwnUpdate
  <2>3. CASE ~Ours(d)
    BY <1>10, <2>1, <2>3, LosesIt DEF Submit
  <2> QED  BY <2>2, <2>3
<1>11. ASSUME NEW d \in Device, GiveUp(d) PROVE Places' /\ Driving'
  BY <1>11, StopDrives, SlotStays DEF GiveUp
<1>12. ASSUME NEW d \in Device, Sign(d) PROVE Places' /\ Driving'
  <2>1. pc[d] = "sign" /\ born' = born  BY <1>12 DEF Sign
  <2>2. CASE Ours(d)
    <3>1. pc' = [pc EXCEPT ![d] = "wait"] /\ UNCHANGED <<slot, mine, out, broken>>  BY <1>12, <2>2 DEF Sign, TakenOver
    <3>2. \A e \in Device \ {d} : Untouched(e)  BY <3>1 DEF Untouched, TypeOK
    <3>3. DrivesRight(d)'
      <4>1. DrivesRight(d) /\ pc'[d] = "wait" /\ Active' = Active /\ (Ours(d)' <=> Ours(d))
        BY <3>1, ActiveUnchanged DEF Driving, TypeOK, Ours
      <4> QED  BY <2>1, <3>1, <4>1 DEF DrivesRight, Phase
    <3> QED  BY <2>1, <3>1, <3>2, <3>3, SlotStays
  <2>3. CASE ~Ours(d)
    BY <1>12, <2>1, <2>3, LosesIt DEF Sign
  <2> QED  BY <2>2, <2>3
<1>13. ASSUME NEW d \in Device, NEW n \in Node, Deposit(d, n) PROVE Places' /\ Driving'
  <2>1. pc[d] \in {"deal", "settle"} /\ born' = born  BY <1>13, OutDrives DEF Deposit
  <2> DEFINE rec == [mine[d] EXCEPT !.held = @ \union {n}, !.owed = @ \ {n}]
  <2>2. Aside(d, rec) /\ out' = [out EXCEPT ![d] = out[d] \ {n}]  BY <1>13 DEF Deposit
  <2>3. /\ rec \in Rec /\ rec.id = mine[d].id /\ rec.secret = mine[d].secret /\ rec.of = mine[d].of
        /\ rec.revoked = mine[d].revoked /\ rec.device = mine[d].device /\ rec.version = mine[d].version
        /\ rec.superseded = mine[d].superseded /\ rec.step = mine[d].step /\ rec.sent = mine[d].sent
    <3>1. mine[d] \in Rec  BY <2>1, OursFacts
    <3> QED  BY <3>1, HeldUpdate
  <2> HIDE DEF rec
  <2>4. Ours(d) => Update(rec) \/ slot' # Saved(rec)
    BY <2>1, <2>3, OwnSame
  <2>5. CASE Ours(d)
    <3>1. Step(d, rec, pc[d]) /\ UNCHANGED broken  BY <2>2, <2>5 DEF Aside
    <3>2. Update(rec)  BY <2>5, <2>4, <3>1 DEF Step
    <3> QED  BY <2>1, <2>2, <2>3, <2>5, <3>1, <3>2, AsideOurs
  <2>6. CASE ~Ours(d)
    <3>1. broken' = broken \union {d} /\ slot' = slot /\ mine' = mine /\ pc' = pc  BY <2>2, <2>6 DEF Aside
    <3>2. \A e \in Device \ {d} : out'[e] = out[e]  BY <2>2 DEF TypeOK
    <3> QED  BY <2>1, <3>1, <3>2, AsideLost
  <2> QED  BY <2>5, <2>6
<1>14. ASSUME NEW d \in Device, NEW n \in Node, DepositFailed(d, n) PROVE Places' /\ Driving'
  <2>1. pc[d] \in {"deal", "settle"} /\ born' = born  BY <1>14, OutDrives DEF DepositFailed
  <2>2. Aside(d, mine[d]) /\ out' = [out EXCEPT ![d] = out[d] \ {n}]  BY <1>14 DEF DepositFailed
  <2>4. mine[d] \in Rec  BY <2>1, OursFacts
  <2>3. Ours(d) => Update(mine[d]) \/ slot' # Saved(mine[d])
    BY <2>1, <2>4, OwnSame
  <2>5. CASE Ours(d)
    <3>1. Step(d, mine[d], pc[d]) /\ UNCHANGED broken  BY <2>2, <2>5 DEF Aside
    <3>2. Update(mine[d])  BY <2>5, <2>3, <3>1 DEF Step
    <3> QED  BY <2>1, <2>2, <2>3, <2>5, <3>1, <3>2, AsideOurs
  <2>6. CASE ~Ours(d)
    <3>1. broken' = broken \union {d} /\ slot' = slot /\ mine' = mine /\ pc' = pc  BY <2>2, <2>6 DEF Aside
    <3>2. \A e \in Device \ {d} : out'[e] = out[e]  BY <2>2 DEF TypeOK
    <3> QED  BY <2>1, <3>1, <3>2, AsideLost
  <2> QED  BY <2>5, <2>6
<1>15. ASSUME NEW d \in Device, NEW g \in Guardian, Send(d, g) PROVE Places' /\ Driving'
  <2>1. pc[d] = "deal" /\ born' = born /\ out' = out  BY <1>15 DEF Send
  <2>2. CASE Ours(d)
    <3> DEFINE rec == [mine[d] EXCEPT !.sent = @ \union {g}]
    <3>1. Step(d, rec, "deal") /\ UNCHANGED broken  BY <1>15, <2>2 DEF Send
    <3>2. /\ rec \in Rec /\ rec.id = mine[d].id /\ rec.secret = mine[d].secret /\ rec.of = mine[d].of
          /\ rec.revoked = mine[d].revoked /\ rec.device = mine[d].device /\ rec.version = mine[d].version
          /\ rec.superseded = mine[d].superseded /\ rec.step = mine[d].step
      <4>1. mine[d] \in Rec  BY <2>1, OursFacts
      <4> QED  BY <4>1, SentUpdate
    <3>3. rec.step = "registered"  BY <2>1, <3>2 DEF Driving, DrivesRight, Phase
    <3> HIDE DEF rec
    <3>4. Update(rec) /\ rec.device = d  BY <2>1, <2>2, <3>1, <3>2, OwnSame, OursFacts DEF Step
    <3>5. Active' = rec  BY <2>1, <3>4, UpdateFacts
    <3>6. DrivesRight(d)' /\ \A e \in Device \ {d} : Untouched(e)  BY <2>1, <3>1, <3>2, <3>3, <3>5, StepDrives
    <3> QED  BY <2>1, <3>4, <3>6, OwnUpdate
  <2>3. CASE ~Ours(d)
    <3>1. pc' = [pc EXCEPT ![d] = "settle"] /\ broken' = broken \union {d} /\ UNCHANGED <<slot, mine, out>>
      BY <1>15, <2>3 DEF Send
    <3> QED  BY <2>1, <3>1, SettleNext
  <2> QED  BY <2>2, <2>3
<1>16. ASSUME NEW d \in Device, SendFailed(d) PROVE Places' /\ Driving'
  <2>1. /\ pc[d] = "deal" /\ pc' = [pc EXCEPT ![d] = "settle"] /\ broken' = broken \union {d}
        /\ UNCHANGED <<slot, mine, out, born>>
    BY <1>16 DEF SendFailed
  <2> QED  BY <2>1, SettleNext
<1>17. ASSUME NEW d \in Device, AllSent(d) PROVE Places' /\ Driving'
  <2>1. /\ pc[d] = "deal" /\ pc' = [pc EXCEPT ![d] = "settle"] /\ mine[d].sent = Guardian
        /\ UNCHANGED <<slot, mine, out, born, broken>>
    BY <1>17 DEF AllSent
  <2> QED  BY <2>1, SettleNext
<1>18. ASSUME NEW d \in Device, Settled(d) PROVE Places' /\ Driving'
  <2>1. pc[d] = "settle" /\ out[d] = {} /\ born' = born /\ slot' = slot  BY <1>18 DEF Settled
  <2>2. CASE d \in broken \/ NodesPending(mine[d]) # {}
    BY <1>18, <2>1, <2>2, StopDrives, SlotStays DEF Settled
  <2>3. CASE d \notin broken /\ NodesPending(mine[d]) = {}
    <3>1. pc' = [pc EXCEPT ![d] = "retire"] /\ UNCHANGED <<mine, out, broken>>  BY <1>18, <2>3 DEF Settled
    <3>2. \A e \in Device \ {d} : Untouched(e)  BY <3>1 DEF Untouched, TypeOK
    <3>3. DrivesRight(d)'
      <4>1. DrivesRight(d) /\ pc'[d] = "retire" /\ Active' = Active /\ (Ours(d)' <=> Ours(d))
        BY <2>1, <3>1, ActiveUnchanged DEF Driving, TypeOK, Ours
      <4>2. NodesPending(mine[d])' = {}  BY <2>3, <3>1 DEF NodesPending
      <4> QED  BY <2>1, <2>3, <3>1, <4>1, <4>2 DEF DrivesRight, Phase
    <3> QED  BY <2>1, <3>2, <3>3, SlotStays
  <2> QED  BY <2>2, <2>3
<1>19. ASSUME NEW d \in Device, Done(d) PROVE Places' /\ Driving'
  <2>1. pc[d] = "retire" /\ born' = born  BY <1>19 DEF Done
  <2>2. CASE Ours(d)
    <3> DEFINE rec == [mine[d] EXCEPT !.step = "done", !.owed = {}, !.shares = {}]
    <3>1. slot' = Saved(rec) /\ Stop(d)  BY <1>19, <2>2 DEF Done, TakenOver
    <3>2. /\ rec \in Rec /\ Active.id # 0 /\ Active.step = "registered" /\ rec.id = Active.id
          /\ rec.secret = Active.secret /\ rec.of = Active.of /\ rec.version = Active.version
          /\ rec.superseded = Active.superseded /\ rec.revoked = Active.revoked /\ rec.step = "done"
      <4>1. Active = mine[d] /\ Active.id # 0 /\ mine[d] \in Rec /\ mine[d].step = "registered"
        BY <2>1, <2>2, OursFacts DEF Driving, DrivesRight, Phase
      <4> QED  BY <4>1, DoneUpdate
    <3> HIDE DEF rec
    <3>3. Places' /\ Active' = NoRun  BY <2>1, <3>1, <3>2, DoneSlot
    <3> QED  BY <2>1, <3>1, <3>3, StopDrives, NobodyDrives
  <2>3. CASE ~Ours(d)
    BY <1>19, <2>1, <2>3, LosesIt DEF Done
  <2> QED  BY <2>2, <2>3
<1>20. ASSUME NEW d \in Device, Revoke(d) PROVE Places' /\ Driving'
  <2> DEFINE rec == [slot.run EXCEPT !.revoked = TRUE, !.retirePending = TRUE]
  <2>1. slot' = [slot EXCEPT !.run = rec] /\ born' = born /\ Finished(slot.run) /\ ~Unfinished(slot.reshare)
        /\ UNCHANGED <<pc, mine, out, broken>>
    BY <1>0, <1>20 DEF Revoke
  <2>2. /\ rec.id = slot.run.id /\ rec.secret = slot.run.secret /\ rec.of = slot.run.of /\ rec.step = slot.run.step
        /\ rec.version = slot.run.version /\ rec.superseded = slot.run.superseded
    BY <1>0 DEF Rec
  <2> HIDE DEF rec
  <2>3. slot.reshare = NoRun  BY <2>1 DEF Places
  <2>4. slot' = [run |-> rec, reshare |-> NoRun]  BY <1>0, <2>1, <2>3
  <2>5. Alone(rec, born')  BY <2>1, <2>2, PlacesThen DEF Alone, Finished
  <2>6. Active' = NoRun  BY <1>n, <2>1, <2>2, <2>4 DEF Active, ActiveIn, Unfinished, Finished
  <2>7. Places'  BY <1>0, <2>1, <2>4, <2>5, PlacesAlone
  <2> QED  BY <2>1, <2>6, <2>7, IdleDriving
<1>21. ASSUME NEW d \in Device, RetireRevoked(d) PROVE Places' /\ Driving'
  <2> DEFINE rec == [slot.run EXCEPT !.retirePending = FALSE]
  <2>1. slot' = [slot EXCEPT !.run = rec] /\ born' = born /\ slot.run.revoked
        /\ UNCHANGED <<pc, mine, out, broken>>
    BY <1>0, <1>21 DEF RetireRevoked
  <2>2. /\ rec.id = slot.run.id /\ rec.secret = slot.run.secret /\ rec.of = slot.run.of /\ rec.step = slot.run.step
        /\ rec.version = slot.run.version /\ rec.superseded = slot.run.superseded /\ rec.revoked = slot.run.revoked
    BY <1>0 DEF Rec
  <2> HIDE DEF rec
  <2>3. slot.reshare = NoRun /\ slot.run.step = "done"  BY <2>1 DEF Places, Finished
  <2>4. slot' = [run |-> rec, reshare |-> NoRun]  BY <1>0, <2>1, <2>3
  <2>5. Alone(rec, born')  BY <2>1, <2>2, PlacesThen DEF Alone
  <2>6. Active' = NoRun  BY <1>n, <2>1, <2>2, <2>3, <2>4 DEF Active, ActiveIn, Unfinished
  <2>7. Places'  BY <1>0, <2>1, <2>4, <2>5, PlacesAlone
  <2> QED  BY <2>1, <2>6, <2>7, IdleDriving
<1>22. ASSUME NEW d \in Device, Stops(d) PROVE Places' /\ Driving'
  <2>1. Stop(d) /\ slot' = slot /\ born' = born  BY <1>22 DEF Stops
  <2> QED  BY <2>1, StopDrives, SlotStays
<1>23. ASSUME UNCHANGED <<slot, pc, mine, out, broken, born>> PROVE Places' /\ Driving'
  <2>1. Active' = Active  BY <1>23, ActiveUnchanged
  <2>2. Places'  BY <1>23 DEF Places
  <2>3. Driving'
    <3> SUFFICES ASSUME NEW e \in Device PROVE DrivesRight(e)'
      BY DEF Driving
    <3>1. DrivesRight(e)  BY DEF Driving
    <3> QED  BY <1>23, <2>1, <3>1 DEF DrivesRight, Phase, NodesPending, Ours
  <2> QED  BY <2>2, <2>3
<1>24. ASSUME NEW p \in payloads, Lands(p) \/ Reverts(p) \/ Lost(p) PROVE Places' /\ Driving'
  BY <1>23, <1>24 DEF Lands, Reverts, Lost
<1>25. ASSUME OtherChange PROVE Places' /\ Driving'
  BY <1>23, <1>25 DEF OtherChange
<1>26. ASSUME UNCHANGED vars PROVE Places' /\ Driving'
  BY <1>23, <1>26 DEF vars
<1> QED
  BY <1>1, <1>2, <1>3, <1>4, <1>5, <1>6, <1>7, <1>8, <1>9, <1>10, <1>11, <1>12, <1>13, <1>14, <1>15,
     <1>16, <1>17, <1>18, <1>19, <1>20, <1>21, <1>22, <1>24, <1>25, <1>26
     DEF Next, Advance, Asked, Settles
-----------------------------------------------------------------------------
(* A record in the slot grows out of one that was there, or is a new run's.*)

Grown(old, new) ==
    /\ new.id = old.id /\ Rank[old.step] <= Rank[new.step]
    /\ old.held \subseteq new.held
    /\ \A n \in new.held \ old.held : <<new.id, n>> \in deposits'
    /\ \A g \in new.sent \ old.sent : <<new.id, g>> \in pieces'
    /\ new.step # "done" => /\ old.step # "done" /\ new.shares = old.shares
                            /\ Node \ new.owed \subseteq new.held \union (Node \ old.owed)
    /\ new.step = "done" =>
          \/ old.step = "done" /\ new.held = old.held /\ new.sent = old.sent /\ new.skipped = old.skipped
          \/ new.sent = Guardian /\ Node \subseteq new.held \union new.skipped
    /\ new.skipped = old.skipped \/ Cardinality(new.held) >= NodeThreshold

Fresh(new) ==
    /\ new.id = born + 1 /\ new.step = "prepared"
    /\ new.owed = Node /\ new.held = {} /\ new.skipped = {} /\ new.shares = Guardian /\ new.sent = {}

Grows ==
    /\ \A new \in InSlot' : new.id # 0 => Fresh(new) \/ \E old \in InSlot : Grown(old, new)
    /\ deposits \subseteq deposits' /\ pieces \subseteq pieces'

LEMMA RankFacts ==
  /\ Rank["none"] = 1 /\ Rank["prepared"] = 2 /\ Rank["published"] = 3 /\ Rank["submitted"] = 4
  /\ Rank["registered"] = 5 /\ Rank["done"] = 6 /\ Rank["discarded"] = 7
  /\ \A x \in Steps : Rank[x] \in 1 .. 7
  BY DEF Rank, Steps

LEMMA GrownSame ==
  ASSUME NEW rec \in Rec
  PROVE  Grown(rec, rec)
<1>1. Rank[rec.step] \in Int  BY RankFacts DEF Rec
<1> QED  BY <1>1 DEF Grown

LEMMA UpdateGrows ==
  ASSUME TypeOK, Places, born' = born, NEW rec, Update(rec), Grown(Active, rec),
         deposits \subseteq deposits', pieces \subseteq pieces'
  PROVE  Grows
<1>1. slot.run \in Rec  BY DEF TypeOK
<1>2. CASE slot' = [run |-> rec, reshare |-> NoRun] /\ Active = slot.run
  <2>1. InSlot' = {rec, NoRun} /\ Active \in InSlot  BY <1>2 DEF InSlot
  <2> QED  BY <2>1 DEF Grows, NoRun
<1>3. CASE slot' = [run |-> slot.run, reshare |-> rec] /\ Active = slot.reshare
  <2>1. InSlot' = {slot.run, rec} /\ Active \in InSlot /\ slot.run \in InSlot  BY <1>3 DEF InSlot
  <2>2. Grown(slot.run, slot.run)  BY <1>1, GrownSame
  <2> QED  BY <2>1, <2>2 DEF Grows
<1> QED  BY <1>2, <1>3, UpdateFacts

LEMMA SlotGrowsNot ==
  ASSUME TypeOK, slot' = slot, deposits \subseteq deposits', pieces \subseteq pieces'
  PROVE  Grows
<1>1. InSlot' = InSlot /\ \A rec \in InSlot : rec \in Rec  BY ActiveUnchanged DEF InSlot, TypeOK
<1> QED  BY <1>1, GrownSame DEF Grows

\* What a record made of the one that d drives may differ in.
LEMMA OwnGrows ==
  ASSUME TypeOK, Places, Driving, born' = born, NEW d \in Device, pc[d] # "idle", Ours(d),
         NEW rec \in Rec, Unfinished(rec), slot' = Saved(rec), rec.id = mine[d].id, rec.secret = mine[d].secret,
         rec.of = mine[d].of, rec.revoked = mine[d].revoked, rec.device = mine[d].device,
         rec.superseded => rec.of # 0, rec.step = "registered" => rec.version # 0,
         Grown(mine[d], rec), deposits \subseteq deposits', pieces \subseteq pieces'
  PROVE  Grows
<1>1. Update(rec)  BY OwnRec
<1> QED  BY <1>1, OursFacts, UpdateGrows

LEMMA SlotGrows ==
  ASSUME TypeOK, Places, Driving, [Next]_vars
  PROVE  Grows
<1> USE DEF outside, network
<1>0. /\ born \in Nat /\ slot.run \in Rec /\ slot.reshare \in Rec
      /\ slot = [run |-> slot.run, reshare |-> slot.reshare]
  BY BackupRunAssumption DEF TypeOK
<1>n. NoRun.id = 0  BY DEF NoRun
<1>1. ASSUME NEW d \in Device, StartFirst(d) PROVE Grows
  <2> DEFINE rec == Prepared(born + 1, d, born + 1, 0)
  <2>1. Fresh(rec) /\ rec.of = 0  BY DEF Fresh, Prepared
  <2>2. slot' = Saved(rec) /\ UNCHANGED <<deposits, pieces>>  BY <1>1 DEF StartFirst
  <2> HIDE DEF rec
  <2>3. slot.reshare = NoRun  BY <1>1 DEF StartFirst, Places, Finished
  <2>4. slot' = [run |-> rec, reshare |-> NoRun]  BY <1>0, <2>1, <2>2, <2>3 DEF Saved
  <2>5. InSlot' = {rec, NoRun}  BY <2>4 DEF InSlot
  <2> QED  BY <1>n, <2>1, <2>2, <2>5 DEF Grows
<1>2. ASSUME NEW d \in Device, StartReshare(d) PROVE Grows
  <2> DEFINE rec == Prepared(born + 1, d, slot.run.secret, slot.run.version)
  <2>1. Fresh(rec) /\ rec.of = slot.run.version  BY DEF Fresh, Prepared
  <2>2. slot' = Saved(rec) /\ UNCHANGED <<deposits, pieces>> /\ slot.run.step = "done"
    BY <1>2 DEF StartReshare, Finished
  <2> HIDE DEF rec
  <2>3. slot' = [run |-> slot.run, reshare |-> rec]
    <3>1. slot.run.version # 0  BY <2>2 DEF Places
    <3>2. rec.step # "done"  BY <2>1 DEF Fresh
    <3> QED  BY <1>0, <2>1, <2>2, <3>1, <3>2 DEF Saved
  <2>4. InSlot' = {slot.run, rec} /\ slot.run \in InSlot  BY <2>3 DEF InSlot
  <2>5. Grown(slot.run, slot.run)  BY <1>0, GrownSame
  <2> QED  BY <2>1, <2>2, <2>4, <2>5 DEF Grows
<1>3. ASSUME NEW d \in Device, FinishWithoutPendingNodes(d) PROVE Grows
  <2> DEFINE rec == [Active EXCEPT !.skipped = @ \union NodesPending(Active)]
  <2>1. /\ slot' = Saved(rec) /\ Active.step = "registered" /\ Cardinality(Active.held) >= NodeThreshold
        /\ UNCHANGED <<deposits, pieces, born>>
    BY <1>3 DEF FinishWithoutPendingNodes
  <2>2. Active.id # 0 /\ Active \in Rec  BY <2>1, ActiveNone, ActiveTyped DEF NoRun
  <2>3. Update(rec)
    BY <2>1, <2>2, ActiveFacts, SkippedUpdate DEF Update, Unfinished, Places
  <2>4. /\ rec.id = Active.id /\ rec.step = Active.step /\ rec.held = Active.held /\ rec.owed = Active.owed
        /\ rec.sent = Active.sent /\ rec.shares = Active.shares
    BY <2>2, SkippedUpdate
  <2> HIDE DEF rec
  <2>5. Grown(Active, rec)  BY <2>1, <2>4, RankFacts DEF Grown
  <2> QED  BY <2>1, <2>3, <2>5, UpdateGrows
<1>4. ASSUME NEW d \in Device, TakeOver(d) PROVE Grows
  <2> DEFINE rec == [Active EXCEPT !.device = d]
  <2>1. slot' = Saved(rec) /\ Active.device # NoDevice /\ UNCHANGED <<deposits, pieces, born>>  BY <1>4 DEF TakeOver
  <2>2. Active.id # 0 /\ Active \in Rec  BY <2>1, ActiveNone, ActiveTyped DEF NoRun
  <2>3. Update(rec)
    BY <2>1, <2>2, ActiveFacts, DeviceUpdate DEF Update, Unfinished, Places
  <2>4. /\ rec.id = Active.id /\ rec.step = Active.step /\ rec.held = Active.held /\ rec.owed = Active.owed
        /\ rec.sent = Active.sent /\ rec.shares = Active.shares /\ rec.skipped = Active.skipped
    BY <2>2, DeviceUpdate
  <2> HIDE DEF rec
  <2>5. Grown(Active, rec)  BY <2>2, <2>4, GrownSame DEF Grown
  <2> QED  BY <2>1, <2>3, <2>5, UpdateGrows
<1>5. ASSUME NEW d \in Device, Discard(d) PROVE Grows
  <2>1. CanDiscard(Active) /\ UNCHANGED <<deposits, pieces, born>>  BY <1>5 DEF Discard
  <2>2. Active.id # 0  BY <2>1, ActiveNone DEF CanDiscard, NoRun
  <2>3. CASE Active = slot.run /\ slot.reshare = NoRun /\ Active.of = 0
    <3> DEFINE rec == [slot.run EXCEPT !.step = "discarded"]
    <3>1. /\ rec.id = slot.run.id /\ rec.held = slot.run.held /\ rec.owed = slot.run.owed
          /\ rec.sent = slot.run.sent /\ rec.shares = slot.run.shares /\ rec.skipped = slot.run.skipped
          /\ rec.step = "discarded"
      BY <1>0, StepUpdate DEF Steps
    <3>2. slot' = [run |-> rec, reshare |-> NoRun]  BY <1>0, <1>5, <2>3 DEF Discard
    <3> HIDE DEF rec
    <3>3. InSlot' = {rec, NoRun} /\ slot.run \in InSlot  BY <3>2 DEF InSlot
    <3>4. slot.run.step # "done" /\ Rank[slot.run.step] <= 7
      BY <1>0, <2>2, <2>3, ActiveFacts, RankFacts DEF Unfinished, Rec
    <3>5. Grown(slot.run, rec)  BY <3>1, <3>4, RankFacts DEF Grown
    <3> QED  BY <1>n, <2>1, <3>3, <3>5 DEF Grows
  <2>4. CASE Active = slot.reshare /\ Active.of # 0
    <3>1. Active.of > 0  BY <1>0, <2>4 DEF Rec
    <3>2. slot' = [run |-> slot.run, reshare |-> NoRun]  BY <1>0, <1>5, <3>1 DEF Discard
    <3>3. InSlot' = {slot.run, NoRun} /\ slot.run \in InSlot  BY <3>2 DEF InSlot
    <3>4. Grown(slot.run, slot.run)  BY <1>0, GrownSame
    <3> QED  BY <1>n, <2>1, <3>3, <3>4 DEF Grows
  <2> QED  BY <2>2, <2>3, <2>4, ActiveFacts
<1>6. ASSUME NEW d \in Device, TakenOver(d), deposits \subseteq deposits', pieces \subseteq pieces' PROVE Grows
  BY <1>6, SlotGrowsNot DEF TakenOver
<1>7. ASSUME NEW d \in Device, Publish(d) PROVE Grows
  <2>1. pc[d] = "publish" /\ UNCHANGED <<deposits, pieces, born>>  BY <1>7 DEF Publish
  <2>2. CASE TakenOver(d)
    BY <1>6, <2>1, <2>2
  <2>3. CASE Ours(d)
    <3> DEFINE rec == [mine[d] EXCEPT !.step = "published"]
    <3>1. slot' = Saved(rec)  BY <1>7, <2>3 DEF Publish, TakenOver, Step
    <3>2. mine[d] \in Rec /\ mine[d].step = "prepared" /\ (mine[d].superseded => mine[d].of # 0)
      BY <2>1, <2>3, OursFacts DEF Driving, DrivesRight, Phase
    <3>3. /\ rec \in Rec /\ rec.step = "published" /\ rec.id = mine[d].id
          /\ rec.held = mine[d].held /\ rec.owed = mine[d].owed /\ rec.sent = mine[d].sent
          /\ rec.shares = mine[d].shares /\ rec.skipped = mine[d].skipped
      BY <3>2, StepUpdate DEF Steps
    <3>4. /\ rec.id = mine[d].id /\ rec.secret = mine[d].secret /\ rec.of = mine[d].of
          /\ rec.revoked = mine[d].revoked /\ rec.device = mine[d].device /\ rec.superseded = mine[d].superseded
      BY <3>2, StepUpdate DEF Steps
    <3> HIDE DEF rec
    <3>5. Grown(mine[d], rec) /\ Unfinished(rec)  BY <3>2, <3>3, RankFacts DEF Grown, Unfinished
    <3> QED  BY <2>1, <2>3, <3>1, <3>2, <3>3, <3>4, <3>5, OwnGrows
  <2> QED  BY <1>7, <2>2, <2>3 DEF Publish
<1>8. ASSUME NEW d \in Device, Superseded(d) PROVE Grows
  <2>1. pc[d] \in {"look", "wait"} /\ UNCHANGED <<deposits, pieces, born>> /\ Moved(mine[d])  BY <1>8 DEF Superseded
  <2>2. CASE TakenOver(d)
    BY <1>6, <2>1, <2>2
  <2>3. CASE Ours(d)
    <3> DEFINE rec == [mine[d] EXCEPT !.superseded = TRUE]
    <3>1. slot' = Saved(rec)  BY <1>8, <2>3 DEF Superseded, TakenOver
    <3>2. mine[d] \in Rec /\ Unfinished(mine[d]) /\ mine[d].step # "registered" /\ mine[d].of # 0
      BY <2>1, <2>3, OursFacts DEF Driving, DrivesRight, Phase, Moved
    <3>3. rec \in Rec /\ rec.step = mine[d].step /\ Grown(mine[d], rec)
      <4>1. Rank[mine[d].step] \in Int /\ mine[d].step # "done"  BY <3>2, RankFacts DEF Rec, Unfinished
      <4> QED  BY <3>2, <4>1, SupersededUpdate DEF Grown
    <3>4. /\ rec.id = mine[d].id /\ rec.secret = mine[d].secret /\ rec.of = mine[d].of
          /\ rec.revoked = mine[d].revoked /\ rec.device = mine[d].device
      BY <3>2, SupersededUpdate
    <3> HIDE DEF rec
    <3>5. Unfinished(rec)  BY <3>2, <3>3 DEF Unfinished
    <3> QED  BY <2>1, <2>3, <3>1, <3>2, <3>3, <3>4, <3>5, OwnGrows
  <2> QED  BY <1>8, <2>2, <2>3 DEF Superseded
<1>9. ASSUME NEW d \in Device, Registered(d) PROVE Grows
  <2>1. pc[d] \in {"look", "wait"} /\ UNCHANGED <<deposits, pieces, born>> /\ Landed(mine[d])  BY <1>9 DEF Registered
  <2>2. CASE TakenOver(d)
    BY <1>6, <2>1, <2>2
  <2>3. CASE Ours(d)
    <3> DEFINE rec == [mine[d] EXCEPT !.step = "registered", !.version = VersionOf(mine[d].secret)]
    <3>1. slot' = Saved(rec)  BY <1>9, <2>3 DEF Registered, TakenOver, Step
    <3>2. /\ mine[d] \in Rec /\ mine[d].secret \in Run /\ mine[d].step \in {"published", "submitted"}
          /\ mine[d].superseded => mine[d].of # 0
      BY <2>1, <2>3, OursFacts DEF Driving, DrivesRight, Phase
    <3>n. VersionOf(mine[d].secret) \in Nat /\ VersionOf(mine[d].secret) # 0
      BY <2>1, <3>2 DEF TypeOK, VersionOf, Landed
    <3>3. /\ rec \in Rec /\ rec.step = "registered" /\ rec.version # 0 /\ rec.id = mine[d].id
          /\ rec.held = mine[d].held /\ rec.owed = mine[d].owed /\ rec.sent = mine[d].sent
          /\ rec.shares = mine[d].shares /\ rec.skipped = mine[d].skipped
      <4>1. mine[d] \in Rec  BY <3>2
      <4> QED  BY <3>n, <4>1, RegisteredUpdate
    <3>4. /\ rec.id = mine[d].id /\ rec.secret = mine[d].secret /\ rec.of = mine[d].of
          /\ rec.revoked = mine[d].revoked /\ rec.device = mine[d].device /\ rec.superseded = mine[d].superseded
      <4>1. mine[d] \in Rec  BY <3>2
      <4> QED  BY <3>n, <4>1, RegisteredUpdate
    <3> HIDE DEF rec
    <3>5. Grown(mine[d], rec) /\ Unfinished(rec)  BY <3>2, <3>3, RankFacts DEF Grown, Unfinished
    <3> QED  BY <2>1, <2>3, <3>1, <3>2, <3>3, <3>4, <3>5, OwnGrows
  <2> QED  BY <1>9, <2>2, <2>3 DEF Registered
<1>10. ASSUME NEW d \in Device, Submit(d) PROVE Grows
  <2>1. pc[d] = "look" /\ UNCHANGED <<deposits, pieces, born>>  BY <1>10 DEF Submit, NotYet
  <2>2. CASE TakenOver(d)
    BY <1>6, <2>1, <2>2
  <2>3. CASE Ours(d)
    <3> DEFINE rec == [mine[d] EXCEPT !.step = "submitted"]
    <3>1. slot' = Saved(rec)  BY <1>10, <2>3 DEF Submit, TakenOver, Step
    <3>2. /\ mine[d] \in Rec /\ mine[d].step \in {"published", "submitted"}
          /\ mine[d].superseded => mine[d].of # 0
      BY <2>1, <2>3, OursFacts DEF Driving, DrivesRight, Phase
    <3>3. /\ rec \in Rec /\ rec.step = "submitted" /\ rec.id = mine[d].id
          /\ rec.held = mine[d].held /\ rec.owed = mine[d].owed /\ rec.sent = mine[d].sent
          /\ rec.shares = mine[d].shares /\ rec.skipped = mine[d].skipped
      BY <3>2, StepUpdate DEF Steps
    <3>4. /\ rec.id = mine[d].id /\ rec.secret = mine[d].secret /\ rec.of = mine[d].of
          /\ rec.revoked = mine[d].revoked /\ rec.device = mine[d].device /\ rec.superseded = mine[d].superseded
      BY <3>2, StepUpdate DEF Steps
    <3> HIDE DEF rec
    <3>5. Grown(mine[d], rec) /\ Unfinished(rec)  BY <3>2, <3>3, RankFacts DEF Grown, Unfinished
    <3> QED  BY <2>1, <2>3, <3>1, <3>2, <3>3, <3>4, <3>5, OwnGrows
  <2> QED  BY <1>10, <2>2, <2>3 DEF Submit
<1>11. ASSUME NEW d \in Device, NEW n \in Node, Deposit(d, n) PROVE Grows
  <2>1. /\ pc[d] \in {"deal", "settle"} /\ UNCHANGED <<pieces, born>>
        /\ deposits' = deposits \union {<<mine[d].id, n>>}
    BY <1>11, OutDrives DEF Deposit
  <2> DEFINE rec == [mine[d] EXCEPT !.held = @ \union {n}, !.owed = @ \ {n}]
  <2>2. CASE ~Ours(d)
    BY <1>11, <2>1, <2>2, SlotGrowsNot DEF Deposit, Aside
  <2>3. CASE Ours(d)
    <3>1. slot' = Saved(rec)  BY <1>11, <2>3 DEF Deposit, Aside, Step
    <3>2. /\ mine[d] \in Rec /\ mine[d].step = "registered" /\ mine[d].version # 0
          /\ mine[d].superseded => mine[d].of # 0
      BY <2>1, <2>3, OursFacts DEF Driving, DrivesRight, Phase
    <3>3. /\ rec \in Rec /\ rec.step = "registered" /\ rec.version # 0 /\ rec.id = mine[d].id
          /\ rec.held = mine[d].held \union {n} /\ rec.owed = mine[d].owed \ {n} /\ rec.sent = mine[d].sent
          /\ rec.shares = mine[d].shares /\ rec.skipped = mine[d].skipped
      BY <3>2, HeldUpdate
    <3>4. /\ rec.secret = mine[d].secret /\ rec.of = mine[d].of
          /\ rec.revoked = mine[d].revoked /\ rec.device = mine[d].device /\ rec.superseded = mine[d].superseded
      BY <3>2, HeldUpdate
    <3> HIDE DEF rec
    <3>5. Grown(mine[d], rec) /\ Unfinished(rec)  BY <2>1, <3>2, <3>3, RankFacts DEF Grown, Unfinished
    <3> QED  BY <2>1, <2>3, <3>1, <3>2, <3>3, <3>4, <3>5, OwnGrows
  <2> QED  BY <2>2, <2>3
<1>12. ASSUME NEW d \in Device, NEW n \in Node, DepositFailed(d, n) PROVE Grows
  <2>1. /\ pc[d] \in {"deal", "settle"} /\ UNCHANGED <<pieces, born>> /\ deposits \subseteq deposits'
    BY <1>12, OutDrives DEF DepositFailed
  <2>2. CASE ~Ours(d)
    BY <1>12, <2>1, <2>2, SlotGrowsNot DEF DepositFailed, Aside
  <2>3. CASE Ours(d)
    <3>1. slot' = Saved(mine[d])  BY <1>12, <2>3 DEF DepositFailed, Aside, Step
    <3>2. /\ mine[d] \in Rec /\ Unfinished(mine[d]) /\ (mine[d].superseded => mine[d].of # 0)
          /\ mine[d].step = "registered" => mine[d].version # 0
      BY <2>1, <2>3, OursFacts
    <3>3. Grown(mine[d], mine[d])  BY <3>2, GrownSame
    <3>4. Update(mine[d])  BY <2>1, <2>3, <3>1, <3>2, OursFacts DEF Update
    <3> QED  BY <2>1, <2>3, <3>3, <3>4, OursFacts, UpdateGrows
  <2> QED  BY <2>2, <2>3
<1>13. ASSUME NEW d \in Device, NEW g \in Guardian, Send(d, g) PROVE Grows
  <2>1. pc[d] = "deal" /\ UNCHANGED <<deposits, born>> /\ pieces' = pieces \union {<<mine[d].id, g>>}
    BY <1>13 DEF Send
  <2> DEFINE rec == [mine[d] EXCEPT !.sent = @ \union {g}]
  <2>2. CASE ~Ours(d)
    BY <1>13, <2>1, <2>2, SlotGrowsNot DEF Send
  <2>3. CASE Ours(d)
    <3>1. slot' = Saved(rec)  BY <1>13, <2>3 DEF Send, Step
    <3>2. /\ mine[d] \in Rec /\ mine[d].step = "registered" /\ mine[d].version # 0
          /\ mine[d].superseded => mine[d].of # 0
      BY <2>1, <2>3, OursFacts DEF Driving, DrivesRight, Phase
    <3>3. /\ rec \in Rec /\ rec.step = "registered" /\ rec.version # 0 /\ rec.id = mine[d].id
          /\ rec.held = mine[d].held /\ rec.owed = mine[d].owed /\ rec.sent = mine[d].sent \union {g}
          /\ rec.shares = mine[d].shares /\ rec.skipped = mine[d].skipped
      BY <3>2, SentUpdate
    <3>4. /\ rec.secret = mine[d].secret /\ rec.of = mine[d].of
          /\ rec.revoked = mine[d].revoked /\ rec.device = mine[d].device /\ rec.superseded = mine[d].superseded
      BY <3>2, SentUpdate
    <3> HIDE DEF rec
    <3>5. Grown(mine[d], rec) /\ Unfinished(rec)  BY <2>1, <3>2, <3>3, RankFacts DEF Grown, Unfinished
    <3> QED  BY <2>1, <2>3, <3>1, <3>2, <3>3, <3>4, <3>5, OwnGrows
  <2> QED  BY <2>2, <2>3
<1>14. ASSUME NEW d \in Device, Done(d) PROVE Grows
  <2>1. pc[d] = "retire" /\ UNCHANGED <<deposits, pieces, born>>  BY <1>14 DEF Done
  <2>2. CASE TakenOver(d)
    BY <1>6, <2>1, <2>2
  <2>3. CASE Ours(d)
    <3> DEFINE rec == [mine[d] EXCEPT !.step = "done", !.owed = {}, !.shares = {}]
    <3>1. slot' = Saved(rec)  BY <1>14, <2>3 DEF Done, TakenOver
    <3>2. /\ mine[d] \in Rec /\ mine[d].step = "registered" /\ mine[d] = Active /\ Active.id # 0
          /\ mine[d].sent = Guardian /\ NodesPending(mine[d]) = {}
      BY <2>1, <2>3, OursFacts DEF Driving, DrivesRight, Phase
    <3>3. /\ rec \in Rec /\ rec.step = "done" /\ rec.id = mine[d].id /\ rec.of = mine[d].of
          /\ rec.held = mine[d].held /\ rec.sent = mine[d].sent /\ rec.skipped = mine[d].skipped
          /\ rec.secret = mine[d].secret /\ rec.version = mine[d].version
          /\ rec.revoked = mine[d].revoked /\ rec.superseded = mine[d].superseded
      BY <3>2, DoneUpdate
    <3> HIDE DEF rec
    <3>4. /\ slot'.reshare = NoRun
          /\ slot'.run = (IF rec.of = 0 THEN rec ELSE Promoted(slot.run, rec))
      BY <2>1, <3>1, <3>2, <3>3, DoneSlot
    <3>5. /\ slot'.run.id = mine[d].id /\ slot'.run.step = "done" /\ slot'.run.held = mine[d].held
          /\ slot'.run.sent = mine[d].sent /\ slot'.run.skipped = mine[d].skipped
      BY <1>0, <3>3, <3>4, PromotedFields
    <3>6. Grown(mine[d], slot'.run)  BY <3>2, <3>5, RankFacts DEF Grown, NodesPending
    <3>7. mine[d] \in InSlot  BY <3>2, ActiveFacts DEF InSlot
    <3> QED  BY <1>n, <2>1, <3>4, <3>6, <3>7 DEF Grows, InSlot
  <2> QED  BY <1>14, <2>2, <2>3 DEF Done
<1>15. ASSUME slot.reshare = NoRun, NEW rec, slot' = [run |-> rec, reshare |-> NoRun], Grown(slot.run, rec),
              UNCHANGED <<deposits, pieces>>
       PROVE  Grows
  <2>1. InSlot' = {rec, NoRun} /\ slot.run \in InSlot  BY <1>15 DEF InSlot
  <2> QED  BY <1>n, <1>15, <2>1 DEF Grows
<1>16. ASSUME NEW d \in Device, Revoke(d) PROVE Grows
  <2> DEFINE rec == [slot.run EXCEPT !.revoked = TRUE, !.retirePending = TRUE]
  <2>1. slot' = [slot EXCEPT !.run = rec] /\ ~Unfinished(slot.reshare) /\ UNCHANGED <<deposits, pieces>>
    BY <1>0, <1>16 DEF Revoke
  <2>2. /\ rec.id = slot.run.id /\ rec.step = slot.run.step /\ rec.held = slot.run.held /\ rec.owed = slot.run.owed
        /\ rec.sent = slot.run.sent /\ rec.shares = slot.run.shares /\ rec.skipped = slot.run.skipped
    BY <1>0 DEF Rec
  <2> HIDE DEF rec
  <2>3. slot.reshare = NoRun  BY <2>1 DEF Places
  <2>4. slot' = [run |-> rec, reshare |-> NoRun]  BY <1>0, <2>1, <2>3
  <2>5. Grown(slot.run, rec)  BY <1>0, <2>2, GrownSame DEF Grown
  <2> QED  BY <1>15, <2>1, <2>3, <2>4, <2>5
<1>17. ASSUME NEW d \in Device, RetireRevoked(d) PROVE Grows
  <2> DEFINE rec == [slot.run EXCEPT !.retirePending = FALSE]
  <2>1. slot' = [slot EXCEPT !.run = rec] /\ slot.run.revoked /\ UNCHANGED <<deposits, pieces>>
    BY <1>0, <1>17 DEF RetireRevoked
  <2>2. /\ rec.id = slot.run.id /\ rec.step = slot.run.step /\ rec.held = slot.run.held /\ rec.owed = slot.run.owed
        /\ rec.sent = slot.run.sent /\ rec.shares = slot.run.shares /\ rec.skipped = slot.run.skipped
    BY <1>0 DEF Rec
  <2> HIDE DEF rec
  <2>3. slot.reshare = NoRun  BY <2>1 DEF Places, Finished
  <2>4. slot' = [run |-> rec, reshare |-> NoRun]  BY <1>0, <2>1, <2>3
  <2>5. Grown(slot.run, rec)  BY <1>0, <2>2, GrownSame DEF Grown
  <2> QED  BY <1>15, <2>1, <2>3, <2>4, <2>5
<1>18. ASSUME NEW d \in Device, Stops(d) PROVE Grows
  <2>1. slot' = slot /\ deposits \subseteq deposits' /\ pieces \subseteq pieces'  BY <1>18 DEF Stops
  <2> QED  BY <2>1, SlotGrowsNot
<1>19. ASSUME UNCHANGED <<slot, deposits, pieces>> PROVE Grows
  BY <1>19, SlotGrowsNot
<1>20. ASSUME NEW d \in Device, Resume(d) \/ GiveUp(d) \/ Sign(d) \/ SendFailed(d) \/ AllSent(d) \/ Settled(d)
       PROVE  Grows
  <2>1. CASE Sign(d)
    BY <1>19, <2>1 DEF Sign, TakenOver
  <2> QED  BY <1>19, <1>20, <2>1 DEF Resume, GiveUp, SendFailed, AllSent, Settled
<1>21. ASSUME NEW p \in payloads, Lands(p) \/ Reverts(p) \/ Lost(p) PROVE Grows
  BY <1>19, <1>21 DEF Lands, Reverts, Lost
<1>22. ASSUME OtherChange PROVE Grows
  BY <1>19, <1>22 DEF OtherChange
<1>23. ASSUME UNCHANGED vars PROVE Grows
  BY <1>19, <1>23 DEF vars
<1> QED
  BY <1>1, <1>2, <1>3, <1>4, <1>5, <1>7, <1>8, <1>9, <1>10, <1>11, <1>12, <1>13, <1>14,
     <1>16, <1>17, <1>18, <1>20, <1>21, <1>22, <1>23
     DEF Next, Advance, Asked, Settles

-----------------------------------------------------------------------------
(* What the pieces and the steps keep.                                     *)

LEMMA PiecesStep ==
  ASSUME TypeOK, TypeOK', Places, Places', PiecesInv, Grows
  PROVE  PiecesInv'
<1> SUFFICES ASSUME NEW new \in InSlot', new.step # "none" PROVE Pieces(new)'
  BY DEF PiecesInv
<1>2. new \in Rec /\ new.id # 0
  BY DEF InSlot, TypeOK, Places, NoRun
<1>3. CASE Fresh(new)
  BY <1>3 DEF Fresh, Pieces
<1>4. ASSUME NEW old \in InSlot, Grown(old, new) PROVE Pieces(new)'
  <2>1. old \in Rec /\ old.id = new.id /\ old.step # "none"
    <3>1. old.id = new.id /\ old.id # 0  BY <1>2, <1>4 DEF Grown
    <3>2. old \in Rec /\ old \in {slot.run, slot.reshare}  BY <1>4 DEF InSlot, TypeOK
    <3>3. NoRun.id = 0  BY DEF NoRun
    <3>4. old.step # "none"  BY <3>1, <3>2, <3>3 DEF Places, Unfinished
    <3> QED  BY <3>1, <3>2, <3>4
  <2>2. Pieces(old) /\ deposits \subseteq deposits' /\ pieces \subseteq pieces'  BY <2>1 DEF PiecesInv, Grows
  <2>3. \A n \in new.held : <<new.id, n>> \in deposits'  BY <1>4, <2>1, <2>2 DEF Pieces, Grown
  <2>4. \A g \in new.sent : <<new.id, g>> \in pieces'  BY <1>4, <2>1, <2>2 DEF Pieces, Grown
  <2>5. new.step # "done" => Node \ new.owed \subseteq new.held /\ new.shares = Guardian
    BY <1>4, <2>2 DEF Pieces, Grown
  <2>6. new.step = "done" => new.sent = Guardian /\ Node \subseteq new.held \union new.skipped
    BY <1>4, <2>2 DEF Pieces, Grown
  <2>7. new.skipped # {} => Cardinality(new.held) >= NodeThreshold
    <3>1. IsFiniteSet(new.held) /\ IsFiniteSet(old.held)
      BY <1>2, <2>1, BackupRunAssumption, FS_Subset DEF Rec
    <3>2. Cardinality(old.held) <= Cardinality(new.held) /\ Cardinality(old.held) \in Nat /\ Cardinality(new.held) \in Nat
      BY <1>4, <3>1, FS_Subset, FS_CardinalityType DEF Grown
    <3> QED  BY <1>4, <2>2, <3>2, BackupRunAssumption DEF Pieces, Grown
  <2> QED  BY <2>3, <2>4, <2>5, <2>6, <2>7 DEF Pieces
<1> QED  BY <1>2, <1>3, <1>4 DEF Grows

LEMMA PiecesKept ==
  ASSUME TypeOK, Places, PiecesInv
  PROVE  NoPieceLost
<1> SUFFICES ASSUME NEW rec \in InSlot, rec.step \notin {"none", "discarded"}
             PROVE  /\ \A n \in Node \ rec.owed : <<rec.id, n>> \in deposits \/ n \in rec.skipped
                    /\ \A g \in Guardian \ rec.shares : <<rec.id, g>> \in pieces
                    /\ Unfinished(rec) => NodesPending(rec) \subseteq rec.owed
                    /\ rec.skipped # {} => Cardinality(rec.held) >= NodeThreshold
  BY DEF NoPieceLost
<1>1. Pieces(rec)  BY DEF PiecesInv
<1> QED  BY <1>1 DEF Pieces, Unfinished, NodesPending

LEMMA StepOfOwn ==
  ASSUME NEW S, NEW rec \in S, \A x \in S : x.id = rec.id => x = rec
  PROVE  /\ {x \in S : x.id = rec.id} # {}
         /\ (CHOOSE x \in {x \in S : x.id = rec.id} : TRUE) = rec
<1>1. {x \in S : x.id = rec.id} = {rec}  OBVIOUS
<1> QED  BY <1>1

LEMMA OneOfEach ==
  ASSUME TypeOK, Places
  PROVE  /\ \A x, y \in InSlot : x.id = y.id /\ x.id # 0 => x = y
         /\ \A x \in InSlot : x \in Rec /\ x.id <= born
  BY DEF TypeOK, Places, InSlot, NoRun

LEMMA StepsStay ==
  ASSUME TypeOK, TypeOK', Places, Places', Grows, NEW r \in Run, StepOf(r)' # "none"
  PROVE  Rank[StepOf(r)] <= Rank[StepOf(r)']
<1>0. r # 0 /\ born \in Nat  BY BackupRunAssumption DEF Run, TypeOK
<1>1. PICK new \in InSlot' : new.id = r
  BY DEF StepOf
<1>2. new \in Rec /\ \A x \in InSlot' : x.id = new.id => x = new
  BY <1>0, <1>1 DEF TypeOK, Places, InSlot, NoRun
<1>3. StepOf(r)' = new.step  BY <1>1, <1>2, StepOfOwn DEF StepOf
<1>4. CASE \E old \in InSlot : old.id = r
  <2>1. PICK old \in InSlot : old.id = r  BY <1>4
  <2>2. \A x \in InSlot : x.id = old.id => x = old  BY <1>0, <2>1, OneOfEach
  <2>3. StepOf(r) = old.step  BY <2>1, <2>2, StepOfOwn DEF StepOf
  <2>4. ~Fresh(new)
    <3>1. old.id <= born /\ old.id \in Nat  BY <2>1, OneOfEach DEF Rec
    <3> QED  BY <1>0, <1>1, <2>1, <3>1 DEF Fresh
  <2>5. Grown(old, new)  BY <1>0, <1>1, <2>1, <2>2, <2>4 DEF Grows, Grown
  <2> QED  BY <1>3, <2>3, <2>5 DEF Grown
<1>5. CASE ~\E old \in InSlot : old.id = r
  <2>1. StepOf(r) = "none"  BY <1>5 DEF StepOf
  <2>2. Rank[new.step] \in 1 .. 7  BY <1>2, RankFacts DEF Rec
  <2> QED  BY <1>3, <2>1, <2>2, RankFacts
<1> QED  BY <1>4, <1>5

-----------------------------------------------------------------------------
Kept == TypeOK /\ Places /\ Driving /\ PiecesInv

LEMMA KeptInit == Init => Kept
<1> SUFFICES ASSUME Init PROVE Kept
  OBVIOUS
<1>1. slot.run = NoRun /\ slot.reshare = NoRun /\ InSlot = {NoRun}  BY DEF Init, InSlot
<1>2. TypeOK  BY NoRunTyped, BackupRunAssumption DEF Init, TypeOK, Run
<1>3. Places  BY <1>1 DEF Init, Places, NoRun
<1>4. Driving  BY DEF Init, Driving, DrivesRight, Phase, NoRun
<1>5. PiecesInv  BY <1>1 DEF PiecesInv, NoRun
<1> QED  BY <1>2, <1>3, <1>4, <1>5 DEF Kept

LEMMA KeptStep == Kept /\ [Next]_vars => Kept' /\ Grows
<1> SUFFICES ASSUME Kept, [Next]_vars PROVE Kept' /\ Grows
  OBVIOUS
<1>1. TypeOK /\ Places /\ Driving /\ PiecesInv  BY DEF Kept
<1>2. TypeOK'  BY <1>1, TypeStep
<1>3. Places' /\ Driving'  BY <1>1, CoreStep
<1>4. Grows  BY <1>1, SlotGrows
<1>5. PiecesInv'  BY <1>1, <1>2, <1>3, <1>4, PiecesStep
<1> QED  BY <1>2, <1>3, <1>4, <1>5 DEF Kept

\* The state is always typed.
THEOREM TypeCorrect == Spec => []TypeOK
<1>1. Kept => TypeOK  BY DEF Kept
<1> QED  BY <1>1, KeptInit, KeptStep, PTL DEF Spec

\* Whatever stops, fails or is taken over, a piece leaves the record only once it is
\* where it belongs, and what is still owed can be sent.
THEOREM PiecesAreNotLost == Spec => []NoPieceLost
<1>1. Kept => NoPieceLost  BY PiecesKept DEF Kept
<1> QED  BY <1>1, KeptInit, KeptStep, PTL DEF Spec

\* A run in the slot never goes back to an earlier step, whichever devices drove it.
THEOREM RunsNeverGoBack == Spec => NeverBack
<1>1. ASSUME Kept, [Next]_vars PROVE [\A r \in Run : StepOf(r)' # "none" => Rank[StepOf(r)] <= Rank[StepOf(r)']]_vars
  <2>1. Kept' /\ Grows  BY <1>1, KeptStep
  <2> QED  BY <1>1, <2>1, StepsStay DEF Kept
<1> QED  BY <1>1, KeptInit, KeptStep, PTL DEF Spec, NeverBack
=============================================================================
