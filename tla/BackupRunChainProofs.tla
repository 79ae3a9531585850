------------------------ MODULE BackupRunChainProofs ------------------------
(* Proofs about BackupRun: what the network and the vaults hold, set       *)
(* against what the slot says of it.                                       *)
EXTENDS BackupRunProofs

-----------------------------------------------------------------------------
(* What a step is to the slot, the network and the vaults, whoever takes it.*)

Quiet == UNCHANGED <<chain, payloads, dead, born>>
VaultsSame == UNCHANGED <<live, root>>

\* A new split is in the slot.
Begins(rec) ==
    /\ rec \in Rec /\ rec.id = born + 1 /\ rec.step = "prepared" /\ ~rec.superseded /\ ~rec.revoked
    /\ born' = born + 1 /\ slot.reshare = NoRun
    /\ \/ /\ rec.of = 0 /\ rec.secret = born + 1 /\ slot' = [run |-> rec, reshare |-> NoRun]
          /\ slot.run.step \in {"none", "discarded"} \/ slot.run.revoked
       \/ /\ rec.of = slot.run.version /\ rec.of # 0 /\ rec.secret = slot.run.secret /\ Finished(slot.run)
          /\ slot' = [run |-> slot.run, reshare |-> rec]
    /\ UNCHANGED <<chain, payloads, dead>> /\ VaultsSame

\* The active run's record goes on from old to rec.
Same(old, rec) == rec.step = old.step /\ rec.version = old.version /\ rec.superseded = old.superseded
Records(rec) == Same(Active, rec) /\ VaultsSame
Publishes(rec) ==
    /\ Active.step = "prepared" /\ rec.step = "published" /\ rec.superseded = Active.superseded
    /\ live' = live \union {Active.id} /\ root' = Current(Active.id)
Overtakes(rec) ==
    /\ Active.step \in {"published", "submitted"} /\ Moved(Active)
    /\ rec.step = Active.step /\ VaultsSame
Registers(rec) ==
    /\ Active.step \in {"published", "submitted"} /\ Landed(Active) /\ ~Moved(Active)
    /\ rec.step = "registered" /\ rec.version = VersionOf(Active.secret) /\ rec.superseded = Active.superseded
    /\ VaultsSame
Continues(rec) ==
    /\ Update(rec) /\ Quiet
    /\ Records(rec) \/ Publishes(rec) \/ Overtakes(rec) \/ Registers(rec)
Submits(rec) ==
    /\ Update(rec) /\ Quiet /\ VaultsSame
    /\ Active.step \in {"published", "submitted"} /\ ~Landed(Active) /\ ~Moved(Active)
    /\ rec.step = "submitted" /\ rec.superseded = Active.superseded

Ends(rec) ==
    /\ Active.id # 0 /\ Active.step = "registered" /\ Active.sent = Guardian /\ NodesPending(Active) = {}
    /\ slot' = [run |-> rec, reshare |-> NoRun] /\ Active' = NoRun /\ Quiet
    /\ rec.id = Active.id /\ rec.secret = slot.run.secret /\ slot.run.secret = Active.secret
    /\ rec.step = "done" /\ rec.version = Active.version /\ ~rec.revoked /\ ~slot.run.revoked
    /\ live' = live \ (root.stale \ {Active.id})
    /\ root' = [root EXCEPT !.stale = @ \intersect {Active.id}]
Drops(rec) ==
    /\ Active.id # 0 /\ CanDiscard(Active) /\ Quiet /\ VaultsSame
    /\ \/ /\ Active = slot.run /\ Active.of = 0 /\ rec.step = "discarded"
          /\ rec.secret = slot.run.secret /\ rec.revoked = slot.run.revoked
       \/ Active = slot.reshare /\ Active.of # 0 /\ Finished(slot.run) /\ rec = slot.run
    /\ slot' = [run |-> rec, reshare |-> NoRun]
Marks(rec) ==
    /\ slot.reshare = NoRun /\ slot' = [run |-> rec, reshare |-> NoRun]
    /\ slot.run.step = "done" /\ rec.revoked
    /\ rec.id = slot.run.id /\ rec.secret = slot.run.secret /\ rec.step = slot.run.step /\ rec.version = slot.run.version
    /\ UNCHANGED <<chain, payloads, born>>
    /\ \/ dead' = dead \union {slot.run.secret} /\ rec.retirePending /\ VaultsSame
       \/ /\ dead' = dead /\ slot.run.revoked
          /\ live' = live \ (root.stale \union {root.current}) /\ root' = [current |-> 0, stale |-> {}]

\* The slot stays.
Alike == slot' = slot /\ Quiet /\ VaultsSame
Hands ==
    /\ slot' = slot /\ UNCHANGED <<chain, dead, born>> /\ VaultsSame
    /\ \E d \in Device : pc[d] = "sign" /\ mine[d].id = Active.id
    /\ Active.id # 0 /\ Active.step = "submitted" /\ payloads' = payloads \union {Payload(Active)}
Uploads ==
    /\ slot' = slot /\ Quiet /\ Active.id # 0 /\ Active.step = "prepared"
    /\ live' = live \union {Active.id} /\ root' \in {root, Current(Active.id)}
Clears ==
    /\ slot' = slot /\ Quiet
    /\ Active.id # 0 /\ Active.step = "registered" /\ Active.sent = Guardian /\ NodesPending(Active) = {}
    /\ \E V \in SUBSET (root.stale \ {Active.id}) : live' = live \ V /\ root' = [root EXCEPT !.stale = @ \ V]
Withdrawn(p) == slot' = slot /\ UNCHANGED <<chain, dead, born>> /\ VaultsSame /\ payloads' = payloads \ {p}

\* Whoever signs next signed before: nobody but a run that submits comes to it.
SignersStay == \A d \in Device : pc'[d] = "sign" => pc[d] = "sign" /\ mine'[d] = mine[d]

Change ==
    \/ \E rec : Submits(rec)
    \/ /\ SignersStay
       /\ \/ \E rec : Begins(rec) \/ Continues(rec) \/ Ends(rec) \/ Drops(rec) \/ Marks(rec)
          \/ Alike \/ Hands \/ Uploads \/ Clears \/ OtherChange
          \/ \E p \in payloads : Lands(p) \/ Withdrawn(p)

LEMMA SubmitChange ==
  ASSUME Kept, NEW d \in Device, Submit(d), Ours(d)
  PROVE  \E rec : Submits(rec)
<1> DEFINE rec == [mine[d] EXCEPT !.step = "submitted"]
<1> USE DEF Kept
<1>1. /\ pc[d] = "look" /\ slot' = Saved(rec) /\ ~Landed(mine[d]) /\ ~Moved(mine[d])
      /\ UNCHANGED <<network, outside, born>>
  BY DEF Submit, NotYet, TakenOver, Step
<1>2. /\ mine[d] \in Rec /\ mine[d].step \in {"published", "submitted"} /\ mine[d] = Active
      /\ mine[d].superseded => mine[d].of # 0
  BY <1>1, OursFacts DEF Driving, DrivesRight, Phase
<1>3. /\ rec \in Rec /\ rec.step = "submitted" /\ rec.id = mine[d].id /\ rec.secret = mine[d].secret
      /\ rec.of = mine[d].of /\ rec.revoked = mine[d].revoked /\ rec.device = mine[d].device
      /\ rec.superseded = mine[d].superseded
  BY <1>2, StepUpdate DEF Steps
<1> HIDE DEF rec
<1>4. Update(rec)
  <2>1. Unfinished(rec)  BY <1>3 DEF Unfinished
  <2> QED  BY <1>1, <1>2, <1>3, <2>1, OwnRec
<1>5. Quiet /\ VaultsSame  BY <1>1 DEF Quiet, VaultsSame, network, outside
<1> QED  BY <1>1, <1>2, <1>3, <1>4, <1>5 DEF Submits

LEMMA SignersNext ==
  ASSUME Kept, [Next]_vars
  PROVE  SignersStay \/ \E rec : Submits(rec)
<1> USE DEF Kept
<1>1. ASSUME NEW d \in Device, Stop(d) PROVE SignersStay
  BY <1>1 DEF Stop, SignersStay, TypeOK
<1>2. ASSUME NEW d \in Device, NEW rec, Drive(d, rec) PROVE SignersStay
  BY <1>2 DEF Drive, SignersStay, TypeOK
<1>3. ASSUME NEW d \in Device, NEW rec, NEW next, Step(d, rec, next), next # "sign" PROVE SignersStay
  BY <1>3 DEF Step, SignersStay, TypeOK
<1>4. ASSUME UNCHANGED mine, NEW d \in Device, NEW next, pc' = [pc EXCEPT ![d] = next], next # "sign"
      PROVE  SignersStay
  BY <1>4 DEF SignersStay, TypeOK
<1>5. ASSUME UNCHANGED <<pc, mine>> PROVE SignersStay
  BY <1>5 DEF SignersStay
<1>6. ASSUME NEW d \in Device, NEW n \in Node, Deposit(d, n) \/ DepositFailed(d, n) PROVE SignersStay
  <2>1. pc[d] # "sign"  BY <1>6, OutDrives DEF Deposit, DepositFailed
  <2> QED  BY <1>3, <1>5, <1>6, <2>1 DEF Deposit, DepositFailed, Aside
<1>7. ASSUME NEW d \in Device, Advance(d) PROVE SignersStay \/ \E rec : Submits(rec)
  <2>1. CASE Publish(d) \/ Superseded(d) \/ Registered(d)
    BY <1>1, <1>3, <2>1 DEF Publish, Superseded, Registered, TakenOver
  <2>2. CASE Submit(d)
    BY <1>1, <2>2, SubmitChange DEF Submit, TakenOver
  <2>3. CASE GiveUp(d) \/ Sign(d)
    BY <1>1, <1>4, <2>3 DEF GiveUp, Sign, TakenOver
  <2>4. CASE \E g \in Guardian : Send(d, g)
    BY <1>3, <1>4, <2>4 DEF Send
  <2>5. CASE SendFailed(d) \/ AllSent(d) \/ Settled(d)
    BY <1>1, <1>4, <2>5 DEF SendFailed, AllSent, Settled
  <2>6. CASE Done(d)
    BY <1>1, <2>6 DEF Done, TakenOver
  <2> QED  BY <1>6, <1>7, <2>1, <2>2, <2>3, <2>4, <2>5, <2>6 DEF Advance
<1>8. ASSUME NEW d \in Device, Asked(d) PROVE SignersStay
  <2>1. CASE StartFirst(d) \/ StartReshare(d) \/ Resume(d)
    BY <1>2, <2>1 DEF StartFirst, StartReshare, Resume
  <2>2. CASE FinishWithoutPendingNodes(d) \/ TakeOver(d)
    BY <1>2, <2>2 DEF FinishWithoutPendingNodes, TakeOver
  <2>3. CASE Discard(d) \/ Revoke(d) \/ RetireRevoked(d)
    BY <1>5, <2>3 DEF Discard, Revoke, RetireRevoked
  <2>4. CASE Stops(d)
    BY <1>1, <2>4 DEF Stops
  <2> QED  BY <1>8, <2>1, <2>2, <2>3, <2>4 DEF Asked
<1>9. ASSUME Settles \/ OtherChange \/ UNCHANGED vars PROVE SignersStay
  BY <1>5, <1>9 DEF Settles, Lands, Reverts, Lost, OtherChange, vars
<1> QED  BY <1>7, <1>8, <1>9 DEF Next

\* A record that d saves of the run it drives goes on from the active one.
LEMMA OwnContinues ==
  ASSUME Kept, NEW d \in Device, pc[d] # "idle", Ours(d), NEW rec \in Rec, slot' = Saved(rec),
         Unfinished(rec), rec.id = mine[d].id, rec.secret = mine[d].secret, rec.of = mine[d].of,
         rec.revoked = mine[d].revoked, rec.device = mine[d].device, rec.superseded => rec.of # 0,
         rec.step = "registered" => rec.version # 0, Quiet,
         Records(rec) \/ Publishes(rec) \/ Overtakes(rec) \/ Registers(rec)
  PROVE  Continues(rec)
  BY OwnRec DEF Kept, Continues

LEMMA Changes ==
  ASSUME Kept, [Next]_vars
  PROVE  Change
<1> USE DEF Kept
<1> DEFINE Ch == \/ \E rec : Submits(rec) \/ Begins(rec) \/ Continues(rec) \/ Ends(rec) \/ Drops(rec) \/ Marks(rec)
                 \/ Alike \/ Hands \/ Uploads \/ Clears \/ OtherChange
                 \/ \E p \in payloads : Lands(p) \/ Withdrawn(p)
<1> SUFFICES Ch
  BY SignersNext DEF Change
<1>0. /\ born \in Nat /\ slot.run \in Rec /\ slot.reshare \in Rec
      /\ slot = [run |-> slot.run, reshare |-> slot.reshare]
  BY BackupRunAssumption DEF TypeOK
<1>1. ASSUME NEW d \in Device, StartFirst(d) PROVE Ch
  <2> DEFINE rec == Prepared(born + 1, d, born + 1, 0)
  <2>1. born + 1 \in Run  BY <1>1, BackupRunAssumption DEF StartFirst, TypeOK, Run
  <2>2. /\ rec \in Rec /\ rec.id = born + 1 /\ rec.step = "prepared" /\ ~rec.superseded /\ ~rec.revoked
        /\ rec.of = 0 /\ rec.secret = born + 1
    BY <2>1, PreparedTyped DEF Prepared
  <2>3. slot' = Saved(rec) /\ born' = born + 1 /\ UNCHANGED <<chain, payloads, dead>> /\ VaultsSame
    BY <1>1 DEF StartFirst, network, outside, VaultsSame
  <2> HIDE DEF rec
  <2>4. slot.reshare = NoRun  BY <1>1 DEF StartFirst, Places, Finished
  <2>5. slot' = [run |-> rec, reshare |-> NoRun]  BY <1>0, <2>2, <2>3, <2>4 DEF Saved
  <2>6. slot.run.step \in {"none", "discarded"} \/ slot.run.revoked  BY <1>1 DEF StartFirst
  <2> QED  BY <2>2, <2>3, <2>4, <2>5, <2>6 DEF Begins
<1>2. ASSUME NEW d \in Device, StartReshare(d) PROVE Ch
  <2> DEFINE rec == Prepared(born + 1, d, slot.run.secret, slot.run.version)
  <2>1. born + 1 \in Run /\ slot.run.secret \in Run /\ slot.run.version \in Nat /\ slot.run.version # 0
    <3>1. slot.run.step = "done" /\ born \in 0 .. MaxRuns /\ slot.run.id # 0
      BY <1>2 DEF StartReshare, Finished, TypeOK, Places
    <3>2. born < MaxRuns  BY <1>2 DEF StartReshare
    <3>3. slot.run.version \in Nat  BY <1>0 DEF Rec
    <3>4. slot.run.secret \in 1 .. born  BY <3>1 DEF Places
    <3>5. slot.run.version # 0  BY <3>1 DEF Places
    <3> QED  BY <3>1, <3>2, <3>3, <3>4, <3>5, BackupRunAssumption DEF Run
  <2>2. /\ rec \in Rec /\ rec.id = born + 1 /\ rec.step = "prepared" /\ ~rec.superseded /\ ~rec.revoked
        /\ rec.of = slot.run.version /\ rec.secret = slot.run.secret
    BY <2>1, PreparedTyped DEF Prepared
  <2>3. /\ slot' = Saved(rec) /\ born' = born + 1 /\ UNCHANGED <<chain, payloads, dead>> /\ VaultsSame
        /\ Finished(slot.run) /\ ~Unfinished(slot.reshare)
    BY <1>2 DEF StartReshare, network, outside, VaultsSame
  <2> HIDE DEF rec
  <2>4. slot.reshare = NoRun  BY <2>3 DEF Places
  <2>5. slot' = [run |-> slot.run, reshare |-> rec]  BY <1>0, <2>1, <2>2, <2>3 DEF Saved
  <2> QED  BY <2>1, <2>2, <2>3, <2>4, <2>5 DEF Begins
<1>3. ASSUME NEW d \in Device, FinishWithoutPendingNodes(d) PROVE Ch
  <2> DEFINE rec == [Active EXCEPT !.skipped = @ \union NodesPending(Active)]
  <2>1. slot' = Saved(rec) /\ Active.step = "registered" /\ Quiet /\ VaultsSame
    BY <1>3 DEF FinishWithoutPendingNodes, Quiet, VaultsSame, network, outside
  <2>2. Active.id # 0 /\ Active \in Rec  BY <2>1, ActiveNone, ActiveTyped DEF NoRun
  <2>3. Update(rec)
    BY <2>1, <2>2, ActiveFacts, SkippedUpdate DEF Update, Unfinished, Places
  <2>4. Same(Active, rec)  BY <2>2, SkippedUpdate DEF Same
  <2> QED  BY <2>1, <2>3, <2>4 DEF Continues, Records
<1>4. ASSUME NEW d \in Device, TakeOver(d) PROVE Ch
  <2> DEFINE rec == [Active EXCEPT !.device = d]
  <2>1. slot' = Saved(rec) /\ Active.device # NoDevice /\ Quiet /\ VaultsSame
    BY <1>4 DEF TakeOver, Quiet, VaultsSame, network, outside
  <2>2. Active.id # 0 /\ Active \in Rec  BY <2>1, ActiveNone, ActiveTyped DEF NoRun
  <2>3. Update(rec)
    BY <2>1, <2>2, ActiveFacts, DeviceUpdate DEF Update, Unfinished, Places
  <2>4. Same(Active, rec)  BY <2>2, DeviceUpdate DEF Same
  <2> QED  BY <2>1, <2>3, <2>4 DEF Continues, Records
<1>5. ASSUME NEW d \in Device, Discard(d) PROVE Ch
  <2>1. CanDiscard(Active) /\ Quiet /\ VaultsSame  BY <1>5 DEF Discard, Quiet, VaultsSame, network, outside
  <2>2. Active.id # 0  BY <2>1, ActiveNone DEF CanDiscard, NoRun
  <2>3. CASE Active = slot.run /\ slot.reshare = NoRun /\ Active.of = 0
    <3> DEFINE rec == [slot.run EXCEPT !.step = "discarded"]
    <3>1. rec.step = "discarded" /\ rec.secret = slot.run.secret /\ rec.revoked = slot.run.revoked
      BY <1>0, StepUpdate DEF Steps
    <3>2. slot' = [run |-> rec, reshare |-> NoRun]  BY <1>0, <1>5, <2>3 DEF Discard
    <3> HIDE DEF rec
    <3> QED  BY <2>1, <2>2, <2>3, <3>1, <3>2 DEF Drops
  <2>4. CASE Active = slot.reshare /\ Active.of # 0 /\ Finished(slot.run)
    <3>1. Active.of > 0  BY <1>0, <2>4 DEF Rec
    <3>2. slot' = [run |-> slot.run, reshare |-> NoRun]  BY <1>0, <1>5, <3>1 DEF Discard
    <3> QED  BY <2>1, <2>2, <2>4, <3>2 DEF Drops
  <2> QED  BY <2>2, <2>3, <2>4, ActiveFacts
<1>6. ASSUME UNCHANGED <<slot, chain, payloads, dead, born, live, root>> PROVE Ch
  BY <1>6 DEF Alike, Quiet, VaultsSame
<1>7. ASSUME NEW d \in Device, Publish(d) PROVE Ch
  <2>1. pc[d] = "publish" /\ Quiet  BY <1>7 DEF Publish, Quiet, network
  <2>2. CASE TakenOver(d) /\ UNCHANGED <<live, root>>
    BY <1>6, <2>1, <2>2 DEF TakenOver, Quiet
  <2>3. CASE Ours(d) /\ ~(TakenOver(d) /\ UNCHANGED <<live, root>>)
    <3> DEFINE rec == [mine[d] EXCEPT !.step = "published"]
    <3>1. slot' = Saved(rec) /\ live' = live \union {mine[d].id} /\ root' = Current(mine[d].id)
      BY <1>7, <2>3 DEF Publish, Step
    <3>2. /\ mine[d] \in Rec /\ mine[d].step = "prepared" /\ (mine[d].superseded => mine[d].of # 0)
          /\ mine[d] = Active
      BY <2>1, <2>3, OursFacts DEF Driving, DrivesRight, Phase
    <3>3. /\ rec \in Rec /\ rec.step = "published" /\ rec.id = mine[d].id /\ rec.secret = mine[d].secret
          /\ rec.of = mine[d].of /\ rec.revoked = mine[d].revoked /\ rec.device = mine[d].device
          /\ rec.superseded = mine[d].superseded
      BY <3>2, StepUpdate DEF Steps
    <3> HIDE DEF rec
    <3>4. Unfinished(rec) /\ Publishes(rec)  BY <3>1, <3>2, <3>3 DEF Unfinished, Publishes
    <3>5. Continues(rec)  BY <2>1, <2>3, <3>1, <3>2, <3>3, <3>4, OwnContinues
    <3> QED  BY <3>5
  <2> QED  BY <1>7, <2>2, <2>3 DEF Publish
<1>8. ASSUME NEW d \in Device, Superseded(d) PROVE Ch
  <2>1. pc[d] \in {"look", "wait"} /\ Quiet /\ VaultsSame /\ Moved(mine[d])
    BY <1>8 DEF Superseded, Quiet, VaultsSame, network, outside
  <2>2. CASE TakenOver(d)
    BY <1>6, <2>1, <2>2 DEF TakenOver, Quiet, VaultsSame
  <2>3. CASE Ours(d)
    <3> DEFINE rec == [mine[d] EXCEPT !.superseded = TRUE]
    <3>1. slot' = Saved(rec)  BY <1>8, <2>3 DEF Superseded, TakenOver
    <3>2. /\ mine[d] \in Rec /\ mine[d].of # 0 /\ mine[d] = Active /\ mine[d].step \in {"published", "submitted"}
      BY <2>1, <2>3, OursFacts DEF Driving, DrivesRight, Phase, Moved
    <3>3. /\ rec \in Rec /\ rec.step = mine[d].step /\ rec.id = mine[d].id /\ rec.secret = mine[d].secret
          /\ rec.of = mine[d].of /\ rec.revoked = mine[d].revoked /\ rec.device = mine[d].device
      BY <3>2, SupersededUpdate
    <3> HIDE DEF rec
    <3>4. Unfinished(rec) /\ Overtakes(rec)  BY <2>1, <3>2, <3>3 DEF Unfinished, Overtakes
    <3>5. Continues(rec)  BY <2>1, <2>3, <3>1, <3>2, <3>3, <3>4, OwnContinues
    <3> QED  BY <3>5
  <2> QED  BY <1>8, <2>2, <2>3 DEF Superseded
<1>9. ASSUME NEW d \in Device, Registered(d) PROVE Ch
  <2>1. pc[d] \in {"look", "wait"} /\ Quiet /\ VaultsSame /\ Landed(mine[d]) /\ ~Moved(mine[d])
    BY <1>9 DEF Registered, Quiet, VaultsSame, network, outside
  <2>2. CASE TakenOver(d)
    BY <1>6, <2>1, <2>2 DEF TakenOver, Quiet, VaultsSame
  <2>3. CASE Ours(d)
    <3> DEFINE rec == [mine[d] EXCEPT !.step = "registered", !.version = VersionOf(mine[d].secret)]
    <3>1. slot' = Saved(rec)  BY <1>9, <2>3 DEF Registered, TakenOver, Step
    <3>2. /\ mine[d] \in Rec /\ mine[d].secret \in Run /\ mine[d].step \in {"published", "submitted"}
          /\ mine[d] = Active /\ (mine[d].superseded => mine[d].of # 0)
      BY <2>1, <2>3, OursFacts DEF Driving, DrivesRight, Phase
    <3>3. VersionOf(mine[d].secret) \in Nat /\ VersionOf(mine[d].secret) # 0
      BY <2>1, <3>2 DEF TypeOK, VersionOf, Landed
    <3>4. /\ rec \in Rec /\ rec.step = "registered" /\ rec.version = VersionOf(mine[d].secret) /\ rec.id = mine[d].id
          /\ rec.secret = mine[d].secret /\ rec.of = mine[d].of /\ rec.revoked = mine[d].revoked
          /\ rec.device = mine[d].device /\ rec.superseded = mine[d].superseded
      <4>1. mine[d] \in Rec  BY <3>2
      <4> QED  BY <3>3, <4>1, RegisteredUpdate
    <3> HIDE DEF rec
    <3>5. Unfinished(rec) /\ Registers(rec)  BY <2>1, <3>2, <3>4 DEF Unfinished, Registers
    <3>6. Continues(rec)  BY <2>1, <2>3, <3>1, <3>2, <3>3, <3>4, <3>5, OwnContinues
    <3> QED  BY <3>6
  <2> QED  BY <1>9, <2>2, <2>3 DEF Registered
<1>10. ASSUME NEW d \in Device, Submit(d) PROVE Ch
  <2>1. CASE Ours(d)
    BY <1>10, <2>1, SubmitChange
  <2>2. CASE TakenOver(d)
    BY <1>6, <1>10, <2>2 DEF Submit, TakenOver, network, outside
  <2> QED  BY <1>10, <2>1, <2>2 DEF Submit
<1>11. ASSUME NEW d \in Device, NEW n \in Node, Deposit(d, n) PROVE Ch
  <2>1. pc[d] \in {"deal", "settle"} /\ Quiet /\ VaultsSame
    BY <1>11, OutDrives DEF Deposit, Quiet, VaultsSame, network
  <2>2. CASE ~Ours(d)
    BY <1>6, <1>11, <2>1, <2>2 DEF Deposit, Aside, Quiet, VaultsSame
  <2>3. CASE Ours(d)
    <3> DEFINE rec == [mine[d] EXCEPT !.held = @ \union {n}, !.owed = @ \ {n}]
    <3>1. slot' = Saved(rec)  BY <1>11, <2>3 DEF Deposit, Aside, Step
    <3>2. mine[d] \in Rec /\ mine[d] = Active /\ Unfinished(mine[d])
          /\ (mine[d].superseded => mine[d].of # 0) /\ (mine[d].step = "registered" => mine[d].version # 0)
      BY <2>1, <2>3, OursFacts
    <3>3. /\ rec \in Rec /\ rec.id = mine[d].id /\ rec.secret = mine[d].secret /\ rec.of = mine[d].of
          /\ rec.revoked = mine[d].revoked /\ rec.device = mine[d].device /\ rec.superseded = mine[d].superseded
          /\ rec.step = mine[d].step /\ rec.version = mine[d].version
      BY <3>2, HeldUpdate
    <3> HIDE DEF rec
    <3>4. Unfinished(rec) /\ Records(rec)  BY <2>1, <3>2, <3>3 DEF Unfinished, Records, Same
    <3>5. Continues(rec)  BY <2>1, <2>3, <3>1, <3>2, <3>3, <3>4, OwnContinues
    <3> QED  BY <3>5
  <2> QED  BY <2>2, <2>3
<1>12. ASSUME NEW d \in Device, NEW n \in Node, DepositFailed(d, n) PROVE Ch
  <2>1. pc[d] \in {"deal", "settle"} /\ Quiet /\ VaultsSame
    BY <1>12, OutDrives DEF DepositFailed, Quiet, VaultsSame, network
  <2>2. CASE ~Ours(d)
    BY <1>6, <1>12, <2>1, <2>2 DEF DepositFailed, Aside, Quiet, VaultsSame
  <2>3. CASE Ours(d)
    <3>1. slot' = Saved(mine[d])  BY <1>12, <2>3 DEF DepositFailed, Aside, Step
    <3>2. mine[d] \in Rec /\ mine[d] = Active /\ Unfinished(mine[d])
          /\ (mine[d].superseded => mine[d].of # 0) /\ (mine[d].step = "registered" => mine[d].version # 0)
      BY <2>1, <2>3, OursFacts
    <3>3. Records(mine[d])  BY <2>1, <3>2 DEF Records, Same
    <3>4. Continues(mine[d])  BY <2>1, <2>3, <3>1, <3>2, <3>3, OwnContinues
    <3> QED  BY <3>4
  <2> QED  BY <2>2, <2>3
<1>13. ASSUME NEW d \in Device, NEW g \in Guardian, Send(d, g) PROVE Ch
  <2>1. pc[d] = "deal" /\ Quiet /\ VaultsSame
    BY <1>13 DEF Send, Quiet, VaultsSame, network
  <2>2. CASE ~Ours(d)
    BY <1>6, <1>13, <2>1, <2>2 DEF Send, Quiet, VaultsSame
  <2>3. CASE Ours(d)
    <3> DEFINE rec == [mine[d] EXCEPT !.sent = @ \union {g}]
    <3>1. slot' = Saved(rec)  BY <1>13, <2>3 DEF Send, Step
    <3>2. mine[d] \in Rec /\ mine[d] = Active /\ Unfinished(mine[d])
          /\ (mine[d].superseded => mine[d].of # 0) /\ (mine[d].step = "registered" => mine[d].version # 0)
      BY <2>1, <2>3, OursFacts
    <3>3. /\ rec \in Rec /\ rec.id = mine[d].id /\ rec.secret = mine[d].secret /\ rec.of = mine[d].of
          /\ rec.revoked = mine[d].revoked /\ rec.device = mine[d].device /\ rec.superseded = mine[d].superseded
          /\ rec.step = mine[d].step /\ rec.version = mine[d].version
      BY <3>2, SentUpdate
    <3> HIDE DEF rec
    <3>4. Unfinished(rec) /\ Records(rec)  BY <2>1, <3>2, <3>3 DEF Unfinished, Records, Same
    <3>5. Continues(rec)  BY <2>1, <2>3, <3>1, <3>2, <3>3, <3>4, OwnContinues
    <3> QED  BY <3>5
  <2> QED  BY <2>2, <2>3
<1>14. ASSUME NEW d \in Device, Done(d) PROVE Ch
  <2>1. pc[d] = "retire" /\ Quiet  BY <1>14 DEF Done, Quiet, network
  <2>2. CASE TakenOver(d) /\ UNCHANGED <<live, root>>
    BY <1>6, <2>1, <2>2 DEF TakenOver, Quiet
  <2>3. CASE Ours(d) /\ ~(TakenOver(d) /\ UNCHANGED <<live, root>>)
    <3> DEFINE rec == [mine[d] EXCEPT !.step = "done", !.owed = {}, !.shares = {}]
    <3>1. /\ slot' = Saved(rec) /\ live' = live \ (root.stale \ {mine[d].id})
          /\ root' = [root EXCEPT !.stale = @ \intersect {mine[d].id}]
      BY <1>14, <2>3 DEF Done
    <3>2. /\ mine[d] \in Rec /\ mine[d].step = "registered" /\ mine[d] = Active /\ Active.id # 0
          /\ mine[d].sent = Guardian /\ NodesPending(mine[d]) = {}
      BY <2>1, <2>3, OursFacts DEF Driving, DrivesRight, Phase
    <3>3. /\ rec \in Rec /\ rec.step = "done" /\ rec.id = mine[d].id /\ rec.of = mine[d].of
          /\ rec.secret = mine[d].secret /\ rec.version = mine[d].version
          /\ rec.revoked = mine[d].revoked /\ rec.superseded = mine[d].superseded
      BY <3>2, DoneUpdate
    <3> HIDE DEF rec
    <3>4. /\ slot'.reshare = NoRun /\ Active' = NoRun /\ slot'.run.id = rec.id /\ slot'.run.secret = rec.secret
          /\ slot'.run.step = "done" /\ slot'.run.version = rec.version /\ ~slot'.run.revoked /\ ~slot.run.revoked
      <4>1. born' = born  BY <2>1 DEF Quiet
      <4> QED  BY <3>1, <3>2, <3>3, <4>1, DoneSlot
    <3>5. Active.secret = slot.run.secret  BY <3>2, ActiveFacts DEF Places, Unfinished, NoRun
    <3>6. slot' = [run |-> slot'.run, reshare |-> NoRun]
      BY <1>0, <3>1, <3>4 DEF Saved
    <3>7. Ends(slot'.run)  BY <2>1, <3>1, <3>2, <3>3, <3>4, <3>5, <3>6 DEF Ends
    <3> QED  BY <3>7
  <2> QED  BY <1>14, <2>2, <2>3 DEF Done
<1>15. ASSUME NEW d \in Device, Revoke(d) PROVE Ch
  <2> DEFINE rec == [slot.run EXCEPT !.revoked = TRUE, !.retirePending = TRUE]
  <2>1. /\ slot' = [slot EXCEPT !.run = rec] /\ Finished(slot.run) /\ ~Unfinished(slot.reshare)
        /\ dead' = dead \union {slot.run.secret} /\ UNCHANGED <<chain, payloads, born>> /\ VaultsSame
    BY <1>0, <1>15 DEF Revoke, outside, VaultsSame
  <2>2. /\ rec.id = slot.run.id /\ rec.secret = slot.run.secret /\ rec.step = slot.run.step
        /\ rec.version = slot.run.version /\ rec.revoked /\ rec.retirePending
    BY <1>0 DEF Rec
  <2> HIDE DEF rec
  <2>3. slot.reshare = NoRun /\ slot.run.step = "done"  BY <2>1 DEF Places, Finished
  <2>4. slot' = [run |-> rec, reshare |-> NoRun]  BY <1>0, <2>1, <2>3
  <2> QED  BY <2>1, <2>2, <2>3, <2>4 DEF Marks
<1>16. ASSUME NEW d \in Device, RetireRevoked(d) PROVE Ch
  <2> DEFINE rec == [slot.run EXCEPT !.retirePending = FALSE]
  <2>1. /\ slot' = [slot EXCEPT !.run = rec] /\ slot.run.revoked /\ UNCHANGED <<chain, payloads, dead, born>>
        /\ live' = live \ (root.stale \union {root.current}) /\ root' = [current |-> 0, stale |-> {}]
    BY <1>0, <1>16 DEF RetireRevoked, network
  <2>2. /\ rec.id = slot.run.id /\ rec.secret = slot.run.secret /\ rec.step = slot.run.step
        /\ rec.version = slot.run.version /\ rec.revoked = slot.run.revoked
    BY <1>0 DEF Rec
  <2> HIDE DEF rec
  <2>3. slot.reshare = NoRun /\ slot.run.step = "done"  BY <2>1 DEF Places, Finished
  <2>4. slot' = [run |-> rec, reshare |-> NoRun]  BY <1>0, <2>1, <2>3
  <2> QED  BY <2>1, <2>2, <2>3, <2>4 DEF Marks
<1>17. ASSUME NEW d \in Device, pc[d] # "idle", Ours(d) PROVE Active = mine[d] /\ Active.id # 0
  BY <1>17, OursFacts
<1>18. ASSUME NEW d \in Device, Sign(d) PROVE Ch
  <2>1. pc[d] = "sign" /\ UNCHANGED <<chain, dead, born>> /\ VaultsSame  BY <1>18 DEF Sign, outside, VaultsSame
  <2>2. CASE Ours(d) /\ ~TakenOver(d)
    <3>1. Active = mine[d] /\ Active.id # 0 /\ mine[d].step = "submitted"
      BY <1>17, <2>1, <2>2 DEF Driving, DrivesRight, Phase
    <3>2. slot' = slot /\ payloads' = payloads \union {Payload(mine[d])}  BY <1>18, <2>2 DEF Sign
    <3> QED  BY <2>1, <3>1, <3>2 DEF Hands
  <2>3. CASE TakenOver(d) /\ ~Ours(d)
    BY <1>6, <1>18, <2>1, <2>3 DEF Sign, TakenOver, VaultsSame
  <2> QED  BY <1>18, <2>2, <2>3 DEF Sign, TakenOver
<1>19. ASSUME NEW d \in Device, Stops(d) PROVE Ch
  <2>1. pc[d] # "idle" /\ UNCHANGED <<slot, chain, dead, born>>  BY <1>19 DEF Stops
  <2>2. CASE UNCHANGED <<payloads, live, root>>
    BY <1>6, <2>1, <2>2
  <2>3. CASE /\ pc[d] = "sign" /\ Ours(d)
             /\ payloads' = payloads \union {Payload(mine[d])}
             /\ UNCHANGED <<live, root>>
    <3>1. Active = mine[d] /\ Active.id # 0 /\ mine[d].step = "submitted"
      BY <1>17, <2>1, <2>3 DEF Driving, DrivesRight, Phase
    <3> QED  BY <2>1, <2>3, <3>1 DEF Hands, VaultsSame
  <2>4. CASE /\ pc[d] = "publish" /\ Ours(d)
             /\ live' = live \union {mine[d].id}
             /\ root' \in {root, Current(mine[d].id)}
             /\ UNCHANGED payloads
    <3>1. Active = mine[d] /\ Active.id # 0 /\ mine[d].step = "prepared"
      BY <1>17, <2>1, <2>4 DEF Driving, DrivesRight, Phase
    <3> QED  BY <2>1, <2>4, <3>1 DEF Uploads, Quiet
  <2>5. CASE /\ pc[d] = "retire" /\ Ours(d)
             /\ \E V \in SUBSET (root.stale \ {mine[d].id}) :
                   live' = live \ V /\ root' = [root EXCEPT !.stale = @ \ V]
             /\ UNCHANGED payloads
    <3>1. Active = mine[d] /\ Active.id # 0 /\ mine[d].step = "registered" /\ mine[d].sent = Guardian
          /\ NodesPending(mine[d]) = {}
      BY <1>17, <2>1, <2>5 DEF Driving, DrivesRight, Phase
    <3> QED  BY <2>1, <2>5, <3>1 DEF Clears, Quiet
  <2> QED  BY <1>19, <2>2, <2>3, <2>4, <2>5 DEF Stops
<1>20. ASSUME NEW d \in Device, Resume(d) \/ GiveUp(d) \/ SendFailed(d) \/ AllSent(d) \/ Settled(d)
       PROVE  Ch
  BY <1>6, <1>20 DEF Resume, GiveUp, SendFailed, AllSent, Settled, network, outside
<1>21. ASSUME NEW p \in payloads, Reverts(p) \/ Lost(p) PROVE Ch
  <2>1. Withdrawn(p)  BY <1>21 DEF Reverts, Lost, Withdrawn, VaultsSame, outside
  <2> QED  BY <2>1
<1>22. ASSUME UNCHANGED vars PROVE Ch
  BY <1>6, <1>22 DEF vars, network, outside
<1> QED
  BY <1>1, <1>2, <1>3, <1>4, <1>5, <1>7, <1>8, <1>9, <1>10, <1>11, <1>12, <1>13, <1>14,
     <1>15, <1>16, <1>18, <1>19, <1>20, <1>21, <1>22
     DEF Next, Advance, Asked, Settles

-----------------------------------------------------------------------------
(* Revoked backups: what was handed to the network has its vault in the    *)
(* account record, whose vaults are the ones that retiring removes.        *)

Handed(r) == \/ \E p \in payloads : p.run = r
             \/ \E s \in Run : \E i \in 1 .. Len(chain[s]) : chain[s][i] = r
Rooted(r) == r = root.current \/ r \in root.stale

Deaths ==
    /\ dead \subseteq 1 .. born
    /\ slot.run.revoked <=> slot.run.secret \in dead
HandedRooted == \A r \in Run : Handed(r) => r <= born /\ (r \in live => Rooted(r))
PreparedUnhanded == \A rec \in InSlot : rec.step = "prepared" => ~Handed(rec.id)
VaultsUp ==
    \A rec \in InSlot : rec.step \in {"published", "submitted", "registered"} => rec.id \in live /\ Rooted(rec.id)
Going ==
    slot.run.revoked /\ ~slot.run.retirePending =>
        \A i \in 1 .. VersionOf(slot.run.secret) : chain[slot.run.secret][i] \notin live
RevokedInv == Deaths /\ HandedRooted /\ PreparedUnhanded /\ VaultsUp /\ Going

\* The slot before and after the active run's record goes on.
LEMMA OnwardFacts ==
  ASSUME Kept, NEW rec, Update(rec), born' = born
  PROVE  /\ Active' = rec /\ rec \in Rec /\ Active \in Rec /\ Active \in InSlot
         /\ Active.id # 0 /\ Active.id \in Run /\ rec.id = Active.id /\ rec.of = Active.of
         /\ rec.secret = Active.secret /\ Active.secret = slot.run.secret /\ Active.secret \in Run
         /\ slot.run.step \notin {"none", "discarded"} /\ slot'.run.step \notin {"none", "discarded"}
         /\ ~slot.run.revoked /\ ~slot'.run.revoked
         /\ slot'.run.secret = slot.run.secret
         /\ slot.run.step = "done" \/ slot'.run.step = "done" => slot'.run = slot.run
         /\ \/ slot'.reshare = NoRun /\ InSlot' = {rec, NoRun} /\ Active = slot.run
            \/ slot'.reshare = rec /\ InSlot' = {slot.run, rec} /\ slot.run.step = "done" /\ slot.run \in InSlot
<1> USE DEF Kept
<1>1. slot.run \in Rec  BY DEF TypeOK
<1>2. /\ Active.id # 0 /\ rec.id = Active.id /\ rec.secret = Active.secret /\ rec.of = Active.of
      /\ rec \in Rec /\ Unfinished(rec) /\ rec.revoked = Active.revoked
  BY DEF Update
<1>3. /\ Active \in Rec /\ Unfinished(Active) /\ Active.id \in Run /\ Active.secret \in Run  BY <1>2, ActiveFacts
<1>4. Active' = rec  BY UpdateFacts
<1>5. CASE slot' = [run |-> rec, reshare |-> NoRun] /\ Active = slot.run
  <2>1. InSlot' = {rec, NoRun}  BY <1>5 DEF InSlot
  <2>2. slot'.run = rec /\ slot'.reshare = NoRun  BY <1>5
  <2>3. ~slot.run.revoked  BY <1>3, <1>5 DEF Places, Unfinished
  <2> QED  BY <1>2, <1>3, <1>4, <1>5, <2>1, <2>2, <2>3 DEF Unfinished, InSlot
<1>6. CASE slot' = [run |-> slot.run, reshare |-> rec] /\ Active = slot.reshare
  <2>1. InSlot' = {slot.run, rec}  BY <1>6 DEF InSlot
  <2>2. slot'.run = slot.run /\ slot'.reshare = rec  BY <1>6
  <2>3. Finished(slot.run) /\ slot.reshare.secret = slot.run.secret
    BY <1>3, <1>6, NoRunTyped DEF Places
  <2> QED  BY <1>2, <1>3, <1>4, <1>6, <2>1, <2>2, <2>3 DEF InSlot, Finished
<1> QED  BY <1>5, <1>6, UpdateFacts

LEMMA SlotShape ==
  ASSUME NEW a, NEW b, slot' = [run |-> a, reshare |-> b]
  PROVE  slot'.run = a /\ slot'.reshare = b /\ InSlot' = {a, b}
  BY DEF InSlot

LEMMA DeathsStep ==
  ASSUME Kept, Deaths, Change
  PROVE  Deaths'
<1> USE DEF Kept, Quiet
<1>0. /\ born \in Nat /\ slot.run \in Rec /\ slot.reshare \in Rec
  BY BackupRunAssumption DEF TypeOK
<1>1. ASSUME NEW rec, Submits(rec) \/ Continues(rec) PROVE Deaths'
  <2>1. Update(rec) /\ born' = born /\ dead' = dead  BY <1>1 DEF Submits, Continues
  <2> QED  BY <2>1, OnwardFacts DEF Deaths
<1>2. ASSUME NEW rec, Begins(rec) PROVE Deaths'
  <2>1. dead' = dead /\ born' = born + 1 /\ dead \subseteq 1 .. born  BY <1>2 DEF Begins, Deaths
  <2>2. CASE rec.secret = born + 1 /\ slot' = [run |-> rec, reshare |-> NoRun]
    <3>1. slot'.run = rec /\ ~rec.revoked  BY <1>2, <2>2, SlotShape DEF Begins
    <3>2. born + 1 \notin dead  BY <1>0, <2>1
    <3> QED  BY <1>0, <2>1, <2>2, <3>1, <3>2 DEF Deaths
  <2>3. CASE slot' = [run |-> slot.run, reshare |-> rec]
    <3>1. slot'.run = slot.run  BY <2>3, SlotShape
    <3> QED  BY <1>0, <2>1, <3>1 DEF Deaths
  <2> QED  BY <1>2, <2>2, <2>3 DEF Begins
<1>3. ASSUME NEW rec, Ends(rec) PROVE Deaths'
  <2>1. /\ slot'.run = rec /\ rec.secret = slot.run.secret /\ ~rec.revoked /\ ~slot.run.revoked
        /\ dead' = dead /\ born' = born
    BY <1>3, SlotShape DEF Ends
  <2> QED  BY <2>1 DEF Deaths
<1>4. ASSUME NEW rec, Drops(rec) PROVE Deaths'
  <2>1. /\ slot'.run = rec /\ rec.secret = slot.run.secret /\ (rec.revoked <=> slot.run.revoked)
        /\ dead' = dead /\ born' = born
    BY <1>4, SlotShape DEF Drops
  <2> QED  BY <2>1 DEF Deaths
<1>5. ASSUME NEW rec, Marks(rec) PROVE Deaths'
  <2>1. slot'.run = rec /\ rec.secret = slot.run.secret /\ rec.revoked /\ born' = born
    BY <1>5, SlotShape DEF Marks
  <2>2. slot.run.secret \in 1 .. born  BY <1>5 DEF Marks, Places
  <2>3. dead' = dead \union {slot.run.secret} \/ (dead' = dead /\ slot.run.revoked)  BY <1>5 DEF Marks
  <2> QED  BY <2>1, <2>2, <2>3 DEF Deaths
<1>6. ASSUME slot' = slot, dead' = dead, born' = born PROVE Deaths'
  BY <1>6 DEF Deaths
<1> QED
  BY <1>1, <1>2, <1>3, <1>4, <1>5, <1>6
     DEF Change, Alike, Hands, Uploads, Clears, OtherChange, Lands, Withdrawn, outside

\* Nothing that was handed over is taken back, and only what the active run signed is added.
LEMMA HandedNext ==
  ASSUME Kept, Change, NEW r \in Run, Handed(r)'
  PROVE  Handed(r) \/ (Hands /\ r = Active.id)
<1> USE DEF Kept, Quiet
<1>0. r # 0  BY DEF Run
<1>1. ASSUME chain' = chain, payloads' \subseteq payloads PROVE Handed(r)
  BY <1>1 DEF Handed
<1>2. CASE Hands
  BY <1>2 DEF Hands, Handed, Payload
<1>3. ASSUME NEW s \in Run, NEW x, chain' = [chain EXCEPT ![s] = Append(@, x)], payloads' \subseteq payloads,
             x \in Run \union {Other}, x # r \/ Handed(r)
      PROVE  Handed(r)
  <2>1. CASE \E p \in payloads' : p.run = r
    BY <1>3, <2>1 DEF Handed
  <2>2. CASE \E t \in Run : \E i \in 1 .. Len(chain'[t]) : chain'[t][i] = r
    <3>0. PICK t \in Run : \E i \in 1 .. Len(chain'[t]) : chain'[t][i] = r  BY <2>2
    <3>1. PICK i \in 1 .. Len(chain'[t]) : chain'[t][i] = r  BY <3>0
    <3>2. CASE t # s
      BY <1>3, <3>1, <3>2 DEF TypeOK, Handed
    <3>3. CASE t = s
      <4>1. chain[s] \in Seq(Run \union {Other}) /\ chain'[s] = Append(chain[s], x)  BY <1>3 DEF TypeOK
      <4>2. (i \in 1 .. Len(chain[s]) /\ chain[s][i] = r) \/ x = r  BY <1>3, <3>1, <3>3, <4>1, AppendFacts
      <4> QED  BY <1>3, <4>2 DEF Handed
    <3> QED  BY <3>2, <3>3
  <2> QED  BY <2>1, <2>2 DEF Handed
<1>4. ASSUME NEW p \in payloads, Lands(p) PROVE Handed(r)
  <2>1. p.run \in Run /\ p.secret \in Run  BY DEF TypeOK
  <2>2. p.run = r => Handed(r)  BY DEF Handed
  <2> QED  BY <1>3, <1>4, <2>1, <2>2 DEF Lands
<1>5. ASSUME OtherChange PROVE Handed(r)
  <2>1. slot.run.secret \in Run
    <3>1. slot.run.id # 0 /\ born \in 0 .. MaxRuns /\ slot.run.secret \in 1 .. born
      BY <1>5 DEF OtherChange, Places, TypeOK
    <3> QED  BY <3>1, BackupRunAssumption DEF Run
  <2> QED  BY <1>0, <1>3, <1>5, <2>1 DEF OtherChange, Other
<1> QED
  BY <1>1, <1>2, <1>4, <1>5
     DEF Change, Submits, Begins, Continues, Ends, Drops, Marks, Alike, Uploads, Clears, Withdrawn

\* Only a prepared run's vault is added; what the account record lists and is not removed
\* stays listed, the active run's vault among it.
LEMMA VaultsNext ==
  ASSUME Kept, Change
  PROVE  /\ \A r \in live' : r \in live \/ (r = Active.id /\ Active.step = "prepared")
         /\ \A r \in Run : r \in live' /\ Rooted(r) => Rooted(r)'
         /\ Active.id # 0 /\ Active.id \in live => Active.id \in live'
<1> USE DEF Kept
<1>1. \A r \in Run : r # 0  BY DEF Run
<1>2. root = [current |-> root.current, stale |-> root.stale]  BY DEF TypeOK
<1>3. CASE VaultsSame
  BY <1>3 DEF VaultsSame, Rooted
<1>4. ASSUME Active.id # 0, live' = live \union {Active.id}, root' \in {root, Current(Active.id)}, Active.step = "prepared"
      PROVE  /\ \A r \in live' : r \in live \/ (r = Active.id /\ Active.step = "prepared")
             /\ \A r \in Run : r \in live' /\ Rooted(r) => Rooted(r)'
             /\ Active.id \in live => Active.id \in live'
  BY <1>1, <1>4 DEF Rooted, Current
<1>5. ASSUME NEW rec, Ends(rec)
      PROVE  /\ \A r \in live' : r \in live
             /\ \A r \in Run : r \in live' /\ Rooted(r) => Rooted(r)'
             /\ Active.id \in live => Active.id \in live'
  <2>1. /\ live' = live \ (root.stale \ {Active.id})
        /\ root'.current = root.current /\ root'.stale = root.stale \intersect {Active.id}
    BY <1>2, <1>5 DEF Ends
  <2> QED  BY <2>1 DEF Rooted
<1>6. ASSUME Clears
      PROVE  /\ \A r \in live' : r \in live
             /\ \A r \in Run : r \in live' /\ Rooted(r) => Rooted(r)'
             /\ Active.id \in live => Active.id \in live'
  <2>1. PICK V \in SUBSET (root.stale \ {Active.id}) : live' = live \ V /\ root' = [root EXCEPT !.stale = @ \ V]
    BY <1>6 DEF Clears
  <2>2. root'.current = root.current /\ root'.stale = root.stale \ V  BY <1>2, <2>1
  <2> QED  BY <2>1, <2>2 DEF Rooted
<1>7. ASSUME NEW rec, Marks(rec)
      PROVE  /\ \A r \in live' : r \in live
             /\ \A r \in Run : r \in live' /\ Rooted(r) => Rooted(r)'
             /\ Active.id = 0
  <2>1. slot.run.step = "done" /\ slot.reshare = NoRun  BY <1>7 DEF Marks
  <2>2. Active = NoRun /\ NoRun.id = 0  BY <2>1, NoRunTyped DEF Active, ActiveIn, Unfinished, NoRun
  <2>3. \/ VaultsSame
        \/ live' = live \ (root.stale \union {root.current})
    BY <1>7 DEF Marks
  <2> QED  BY <2>2, <2>3 DEF VaultsSame, Rooted
<1>8. ASSUME NEW rec, Continues(rec), ~VaultsSame PROVE Publishes(rec) /\ Active.id # 0
  BY <1>8, OnwardFacts DEF Continues, Quiet, Records, Overtakes, Registers
<1>9. CASE \E rec : Continues(rec) /\ ~VaultsSame
  BY <1>4, <1>8, <1>9 DEF Publishes
<1>10. CASE Uploads
  BY <1>4, <1>10 DEF Uploads
<1> QED
  BY <1>3, <1>5, <1>6, <1>7, <1>9, <1>10
     DEF Change, Submits, Begins, Drops, Alike, Hands, Withdrawn, Lands, OtherChange, outside, VaultsSame

\* An unfinished record in the slot is the active one.
LEMMA UnfinishedActive ==
  ASSUME Kept, NEW rec \in InSlot, Unfinished(rec)
  PROVE  rec = Active /\ rec.id # 0
<1> USE DEF Kept
<1>1. CASE Unfinished(slot.reshare)
  <2>1. slot.run.step = "done" /\ Active = slot.reshare  BY <1>1, NoRunTyped DEF Places, Finished, Active, ActiveIn
  <2>2. slot.reshare.id # 0  BY <1>1, NoRunTyped DEF Places
  <2> QED  BY <2>1, <2>2 DEF InSlot, Unfinished
<1>2. CASE ~Unfinished(slot.reshare)
  <2>1. rec = slot.run /\ Active = slot.run  BY <1>2 DEF InSlot, Active, ActiveIn
  <2> QED  BY <2>1 DEF Places, Unfinished
<1> QED  BY <1>1, <1>2

\* A run that was prepared is further only by having its vault published.
LEMMA PublishedNext ==
  ASSUME Kept, Change, TypeOK', Places', Active.id # 0, Active.step = "prepared",
         NEW rec \in InSlot', rec.id = Active.id,
         rec.step \in {"published", "submitted", "registered"}
  PROVE  live' = live \union {Active.id} /\ root' = Current(Active.id)
<1> USE DEF Kept
<1>1. \A x \in InSlot' : x.id = rec.id => x = rec
  BY DEF TypeOK, Places, InSlot, NoRun
<1>2. Active \in InSlot  BY ActiveFacts DEF InSlot
<1>3. InSlot' # InSlot  BY <1>1, <1>2
<1>4. slot' # slot  BY <1>3, ActiveUnchanged
<1>5. ASSUME NEW new, Submits(new) \/ Continues(new) PROVE Publishes(new)
  <2>1. Update(new) /\ born' = born  BY <1>5 DEF Submits, Continues, Quiet
  <2>2. new \in InSlot' /\ new.id = Active.id  BY <2>1, OnwardFacts
  <2>3. new = rec  BY <1>1, <2>2
  <2> QED  BY <1>5, <2>3 DEF Submits, Continues, Records, Same, Overtakes, Registers
<1>6. ASSUME NEW new, Begins(new) PROVE FALSE
  <2>1. Active = NoRun \/ Unfinished(slot.run)  BY <1>6, NoRunTyped DEF Begins, Active, ActiveIn
  <2>2. ~Unfinished(slot.run)  BY <1>6 DEF Begins, Unfinished, Finished, Places
  <2> QED  BY <2>1, <2>2 DEF NoRun
<1>7. ASSUME NEW new, Drops(new) \/ Marks(new) PROVE FALSE
  <2>1. slot' = [run |-> new, reshare |-> NoRun]  BY <1>7 DEF Drops, Marks
  <2>2. InSlot' = {new, NoRun}  BY <2>1, SlotShape
  <2>3. new.step \in {"discarded", "done"}
    BY <1>7 DEF Drops, Marks, Finished
  <2> QED  BY <2>2, <2>3 DEF NoRun
<1> QED
  BY <1>4, <1>5, <1>6, <1>7
     DEF Change, Ends, Alike, Hands, Uploads, Clears, Withdrawn, Lands, OtherChange, Publishes

LEMMA RevokedStep ==
  ASSUME Kept, RevokedInv, [Next]_vars
  PROVE  RevokedInv'
<1> USE DEF Kept
<1>1. Kept' /\ Grows  BY KeptStep
<1>2. Change  BY Changes
<1>3. Deaths'  BY <1>2, DeathsStep DEF RevokedInv
<1>4. born \in Nat /\ born' \in Nat /\ born <= born'
  <2>1. born \in Nat  BY BackupRunAssumption DEF TypeOK
  <2>2. born' = born \/ born' = born + 1
    BY <1>2 DEF Change, Submits, Begins, Continues, Ends, Drops, Marks, Alike, Hands, Uploads, Clears, OtherChange,
                Lands, Withdrawn, Quiet
  <2> QED  BY <2>1, <2>2
<1>5. Hands => /\ Active \in InSlot /\ Active.id \in live /\ Rooted(Active.id) /\ Active.id <= born
               /\ Active.id \in Run /\ Active.id # 0 /\ Active.step = "submitted"
  <2> SUFFICES ASSUME Hands PROVE /\ Active \in InSlot /\ Active.id \in live /\ Rooted(Active.id) /\ Active.id <= born
                                  /\ Active.id \in Run /\ Active.id # 0 /\ Active.step = "submitted"
    OBVIOUS
  <2>1. Active.id # 0 /\ Active.step = "submitted"  BY DEF Hands
  <2>2. Active \in InSlot /\ Active.id \in Run  BY <2>1, ActiveFacts DEF InSlot
  <2> QED  BY <2>1, <2>2, OneOfEach DEF RevokedInv, VaultsUp
<1>6. HandedRooted'
  <2> SUFFICES ASSUME NEW r \in Run, Handed(r)' PROVE r <= born' /\ (r \in live' => Rooted(r)')
    BY DEF HandedRooted
  <2>1. r \in Nat  BY BackupRunAssumption DEF Run
  <2>2. CASE Handed(r)
    <3>1. r <= born /\ (r \in live => Rooted(r))  BY <2>2 DEF RevokedInv, HandedRooted
    <3>2. ~(r = Active.id /\ Active.step = "prepared")
      <4>1. Active.id # 0 => Active \in InSlot  BY ActiveFacts DEF InSlot
      <4>2. r # 0  BY DEF Run
      <4> QED  BY <2>2, <4>1, <4>2 DEF RevokedInv, PreparedUnhanded
    <3> QED  BY <1>2, <1>4, <2>1, <3>1, <3>2, VaultsNext
  <2>3. CASE Hands /\ r = Active.id
    <3>1. Rooted(r) /\ r <= born  BY <1>5, <2>3
    <3> QED  BY <1>2, <1>4, <2>1, <3>1, VaultsNext
  <2> QED  BY <1>2, <2>2, <2>3, HandedNext
<1>7. ASSUME NEW new \in InSlot', Unfinished(new)
      PROVE  /\ new \in Rec /\ new.id \in Run
             /\ \/ new.id = born + 1 /\ new.step = "prepared"
                \/ Unfinished(Active) /\ Active.id = new.id /\ Rank[Active.step] <= Rank[new.step]
  <2>1. new \in Rec /\ new.id # 0 /\ new.id <= born' /\ born' <= MaxRuns
    BY <1>1, <1>7 DEF InSlot, TypeOK, Places, NoRun, Unfinished
  <2>2. new.id \in Run  BY <1>4, <2>1, BackupRunAssumption DEF Run, Rec
  <2>3. CASE Fresh(new)
    BY <2>1, <2>2, <2>3 DEF Fresh
  <2>4. ASSUME NEW old \in InSlot, Grown(old, new) PROVE Unfinished(Active) /\ Active.id = new.id /\ Rank[Active.step] <= Rank[new.step]
    <3>1. old.id = new.id /\ Rank[old.step] <= Rank[new.step] /\ (new.step # "done" => old.step # "done")
      BY <2>4 DEF Grown
    <3>2. old \in Rec /\ old.step # "none"
      BY <2>1, <2>4, <3>1 DEF InSlot, TypeOK, Places, NoRun, Unfinished
    <3>3. Unfinished(old)
      BY <1>7, <3>1, <3>2, RankFacts DEF Unfinished, Rec, Steps
    <3> QED  BY <2>4, <3>1, <3>3, UnfinishedActive
  <2> QED  BY <1>1, <2>1, <2>2, <2>3, <2>4 DEF Grows
<1>8. PreparedUnhanded'
  <2> SUFFICES ASSUME NEW new \in InSlot', new.step = "prepared", Handed(new.id)' PROVE FALSE
    BY DEF PreparedUnhanded
  <2>1. Unfinished(new)  BY DEF Unfinished
  <2>2. Handed(new.id) \/ (Hands /\ new.id = Active.id)  BY <1>2, <1>7, <2>1, HandedNext
  <2>3. CASE new.id = born + 1
    BY <1>4, <1>5, <1>7, <2>1, <2>2, <2>3 DEF RevokedInv, HandedRooted
  <2>4. CASE Unfinished(Active) /\ Active.id = new.id /\ Rank[Active.step] <= Rank[new.step]
    <3>1. Active.step = "prepared"  BY <2>4, RankFacts DEF Unfinished
    <3>2. Active.id # 0 /\ Active \in InSlot  BY <1>7, <2>1, <2>4, ActiveFacts DEF InSlot, Run
    <3> QED  BY <1>5, <2>2, <2>4, <3>1, <3>2 DEF RevokedInv, PreparedUnhanded
  <2> QED  BY <1>7, <2>1, <2>3, <2>4
<1>9. VaultsUp'
  <2> SUFFICES ASSUME NEW new \in InSlot', new.step \in {"published", "submitted", "registered"}
               PROVE  new.id \in live' /\ Rooted(new.id)'
    BY DEF VaultsUp
  <2>1. Unfinished(new)  BY DEF Unfinished
  <2>2. Unfinished(Active) /\ Active.id = new.id /\ Active.id # 0 /\ new.id \in Run  BY <1>7, <2>1 DEF Run
  <2>3. Active \in InSlot  BY <2>2, ActiveFacts DEF InSlot
  <2>4. CASE Active.step = "prepared"
    <3>1. live' = live \union {Active.id} /\ root' = Current(Active.id)  BY <1>1, <1>2, <2>2, <2>4, PublishedNext
    <3> QED  BY <2>2, <3>1 DEF Rooted, Current
  <2>5. CASE Active.step # "prepared"
    <3>1. Active.id \in live /\ Rooted(Active.id)  BY <2>2, <2>3, <2>5 DEF RevokedInv, VaultsUp, Unfinished
    <3> QED  BY <1>2, <2>2, <3>1, VaultsNext
  <2> QED  BY <2>4, <2>5
<1>10. Going'
  <2> SUFFICES ASSUME slot'.run.revoked, ~slot'.run.retirePending,
                      NEW i \in 1 .. Len(chain'[slot'.run.secret]), chain'[slot'.run.secret][i] \in live'
               PROVE  FALSE
    BY DEF Going, VersionOf
  <2>1. ASSUME NEW rec, Submits(rec) \/ Continues(rec) PROVE FALSE
    <3>1. Update(rec) /\ born' = born  BY <2>1 DEF Submits, Continues, Quiet
    <3> QED  BY <3>1, OnwardFacts
  <2>2. ASSUME NEW rec, Begins(rec) \/ Ends(rec) PROVE FALSE
    BY <2>2, SlotShape DEF Begins, Ends, Finished
  <2>3. ASSUME NEW rec, Drops(rec) PROVE FALSE
    <3>1. slot'.run = rec /\ Active.id # 0  BY <2>3, SlotShape DEF Drops
    <3>2. ~slot.run.revoked /\ (rec.revoked <=> slot.run.revoked)
      <4>1. Active = slot.run => Unfinished(slot.run)  BY <3>1, ActiveFacts
      <4> QED  BY <2>3, <4>1 DEF Drops, Finished, Places, Unfinished
    <3> QED  BY <3>1, <3>2
  <2>4. ASSUME NEW rec, Marks(rec) PROVE FALSE
    <3>1. slot'.run = rec /\ rec.secret = slot.run.secret /\ chain' = chain  BY <2>4, SlotShape DEF Marks
    <3>2. live' = live \ (root.stale \union {root.current})  BY <2>4, <3>1 DEF Marks
    <3>3. slot.run.secret \in Run
      <4>1. slot.run.secret \in 1 .. born /\ born <= MaxRuns  BY <2>4 DEF Marks, Places, TypeOK
      <4> QED  BY <1>4, <4>1, BackupRunAssumption DEF Run
    <3> DEFINE x == chain[slot.run.secret][i]
    <3>4. x \in Run /\ Handed(x) /\ x \in live  BY <3>1, <3>2, <3>3 DEF TypeOK, Handed
    <3>5. Rooted(x)  BY <3>4 DEF RevokedInv, HandedRooted
    <3> QED  BY <3>1, <3>2, <3>5 DEF Rooted
  <2>5. ASSUME slot' = slot, chain'[slot.run.secret] = chain[slot.run.secret] PROVE FALSE
    <3>1. slot.run.step = "done" /\ slot.reshare = NoRun  BY <2>5 DEF Places, Finished
    <3>2. Active = NoRun  BY <3>1, NoRunTyped DEF Active, ActiveIn, Unfinished
    <3>3. \A r \in live' : r \in live
      BY <1>2, <3>2, VaultsNext DEF NoRun
    <3> QED  BY <2>5, <3>3 DEF RevokedInv, Going, VersionOf
  <2>6. slot' = slot => slot.run.secret \in dead  BY DEF RevokedInv, Deaths
  <2>7. ASSUME NEW p \in payloads, Lands(p) PROVE FALSE
    <3>1. slot' = slot /\ p.secret # slot.run.secret  BY <2>6, <2>7 DEF Lands
    <3> QED  BY <2>5, <2>7, <3>1 DEF Lands, TypeOK
  <2>8. CASE OtherChange
    BY <2>6, <2>8 DEF OtherChange
  <2>9. CASE Alike \/ Hands \/ Uploads \/ Clears \/ \E p \in payloads : Withdrawn(p)
    BY <2>5, <2>9 DEF Alike, Hands, Uploads, Clears, Withdrawn, Quiet
  <2> QED  BY <1>2, <2>1, <2>2, <2>3, <2>4, <2>7, <2>8, <2>9 DEF Change
<1> QED  BY <1>3, <1>6, <1>8, <1>9, <1>10 DEF RevokedInv

LEMMA RevokedInit == Init => RevokedInv
<1> SUFFICES ASSUME Init PROVE RevokedInv
  OBVIOUS
<1>1. slot.run = NoRun /\ InSlot = {NoRun} /\ payloads = {} /\ chain = [r \in Run |-> <<>>] /\ dead = {}
  BY DEF Init, InSlot
<1>2. \A r : ~Handed(r)  BY <1>1 DEF Handed
<1> QED  BY <1>1, <1>2 DEF RevokedInv, Deaths, HandedRooted, PreparedUnhanded, VaultsUp, Going, NoRun

\* A revoked backup says so, and that copies of it are to go for as long as one is left:
\* whatever was handed to the network has its vault among those that retiring removes.
THEOREM RevokedBackupsGo == Spec => []RevokedGoes
<1> DEFINE Inv == Kept /\ RevokedInv
<1>1. Init => Inv  BY KeptInit, RevokedInit
<1>2. ASSUME Inv, [Next]_vars PROVE Inv'
  BY <1>2, KeptStep, RevokedStep
<1>3. ASSUME Inv PROVE RevokedGoes
  BY <1>3 DEF RevokedInv, Deaths, Going, RevokedGoes
<1> HIDE DEF Inv
<1> QED  BY <1>1, <1>2, <1>3, PTL DEF Spec

-----------------------------------------------------------------------------
(* While no change overtakes a run between its look and its registration,  *)
(* what the secret's versions are is what the slot says of its runs.       *)

OthersAfter(s, v) == \A i \in v + 1 .. Len(chain[s]) : chain[s][i] = Other
Shows(rec) ==
    LET s == rec.secret  v == VersionOf(rec.secret) IN
    /\ rec.step \in {"prepared", "published"} =>
          v >= rec.of /\ OthersAfter(s, rec.of) /\ (rec.of = 0 => v = 0)
    /\ rec.step = "submitted" => v = rec.of \/ (v = rec.of + 1 /\ chain[s][v] = rec.id)
    /\ rec.step = "registered" => v = rec.of + 1 /\ rec.version = v /\ chain[s][v] = rec.id

OnlyOne ==
    \A s \in Run \ dead : chain[s] # <<>> \/ (\E p \in payloads : p.secret = s) =>
        s = slot.run.secret /\ slot.run.step \notin {"none", "discarded"}
DoneShows ==
    slot.run.step = "done" =>
        /\ slot.run.version \in 1 .. VersionOf(slot.run.secret)
        /\ chain[slot.run.secret][slot.run.version] = slot.run.id
        /\ Active.id = 0 /\ slot.run.secret \notin dead => OthersAfter(slot.run.secret, slot.run.version)
ActiveShows == Active.id # 0 => Shows(Active)
\* A payload was signed for a version that the secret has left, or is the active run's.
Bound ==
    \A p \in payloads : p.secret \notin dead =>
        \/ p.bound < VersionOf(p.secret)
        \/ p.run = Active.id /\ p.secret = Active.secret /\ Active.step = "submitted" /\ p.bound = Active.of
Overtaken == Active.superseded => Active.step = "published" /\ VersionOf(Active.secret) > Active.of
Signing ==
    \A d \in Device : pc[d] = "sign" /\ mine[d].id = Active.id =>
        Active.step = "submitted" /\ VersionOf(Active.secret) = Active.of
LineInv == OnlyOne /\ DoneShows /\ ActiveShows /\ Bound /\ Overtaken /\ Signing

LEMMA VersionTyped ==
  ASSUME TypeOK, NEW s \in Run
  PROVE  /\ chain[s] \in Seq(Run \union {Other}) /\ VersionOf(s) = Len(chain[s]) /\ VersionOf(s) \in Nat
         /\ chain[s] # <<>> <=> VersionOf(s) # 0
  BY DEF TypeOK, VersionOf

LEMMA SecretTyped ==
  ASSUME Kept, slot.run.step # "none"
  PROVE  slot.run.secret \in Run /\ slot.run.secret <= born
<1>1. slot.run.secret \in 1 .. born /\ born \in 0 .. MaxRuns  BY DEF Kept, Places, TypeOK
<1> QED  BY <1>1, BackupRunAssumption DEF Run

LEMMA SignerTyped ==
  ASSUME Kept, NEW d \in Device, pc[d] = "sign"
  PROVE  mine[d].id \in 1 .. born /\ born \in Nat
  BY BackupRunAssumption DEF Kept, TypeOK, Driving, DrivesRight

\* The slot and the versions stay.
LEMMA LineStays ==
  ASSUME LineInv, slot' = slot, chain' = chain, dead' = dead, payloads' \subseteq payloads, SignersStay
  PROVE  LineInv'
<1>1. Active' = Active  BY ActiveUnchanged
<1>2. \A s : VersionOf(s)' = VersionOf(s)  BY DEF VersionOf
<1>3. OnlyOne'  BY DEF LineInv, OnlyOne
<1>4. DoneShows'  BY <1>1, <1>2 DEF LineInv, DoneShows, OthersAfter
<1>5. ActiveShows'  BY <1>1, <1>2 DEF LineInv, ActiveShows, Shows, OthersAfter
<1>6. Bound' /\ Overtaken'  BY <1>1, <1>2 DEF LineInv, Bound, Overtaken
<1>7. Signing'  BY <1>1, <1>2 DEF LineInv, Signing, SignersStay
<1> QED  BY <1>3, <1>4, <1>5, <1>6, <1>7 DEF LineInv

LEMMA LineBegins ==
  ASSUME Kept, TypeOK', Deaths, LineInv, SignersStay, NEW rec, Begins(rec)
  PROVE  LineInv'
<1>n. NoRun.id = 0 /\ ~NoRun.superseded /\ ~Unfinished(NoRun)  BY NoRunTyped DEF NoRun
<1>b. born \in Nat  BY BackupRunAssumption DEF Kept, TypeOK
<1>0. /\ Kept /\ born \in Nat /\ NoRun.id = 0 /\ ~NoRun.superseded /\ ~Unfinished(NoRun)
      /\ UNCHANGED <<chain, payloads, dead>>
  BY <1>n, <1>b DEF Begins
<1>1. Active = NoRun
  <2>1. ~Unfinished(slot.run)  BY DEF Begins, Unfinished, Finished, Kept, Places
  <2> QED  BY <1>0, <2>1 DEF Begins, Active, ActiveIn
<1>2. \A s : VersionOf(s)' = VersionOf(s)  BY <1>0 DEF VersionOf
<1>3. /\ rec.id = born + 1 /\ rec.step = "prepared" /\ ~rec.superseded /\ Unfinished(rec)
  BY DEF Begins, Unfinished
<1>4. \A p \in payloads : p.run # 0 /\ p.secret \in Run  BY <1>0 DEF Kept, TypeOK, Run
<1>5. ASSUME Active' = rec PROVE Signing' /\ Overtaken'
  <2>1. ASSUME NEW d \in Device, pc'[d] = "sign" PROVE mine'[d].id # rec.id
    BY <1>0, <1>3, <2>1, SignerTyped DEF SignersStay
  <2> QED  BY <1>3, <1>5, <2>1 DEF Signing, Overtaken
<1>6. \A p \in payloads : p.secret \notin dead => p.bound < VersionOf(p.secret)
  BY <1>0, <1>1, <1>4 DEF LineInv, Bound
<1>7. Bound'  BY <1>0, <1>2, <1>6 DEF Bound
<1>8. CASE /\ rec.of = 0 /\ rec.secret = born + 1 /\ slot' = [run |-> rec, reshare |-> NoRun]
           /\ slot.run.step \in {"none", "discarded"} \/ slot.run.revoked
  <2>1. slot'.run = rec /\ slot'.reshare = NoRun /\ Active' = rec
    BY <1>0, <1>3, <1>8, SlotShape DEF Active, ActiveIn
  <2>2. ASSUME NEW s \in Run \ dead PROVE chain[s] = <<>> /\ \A p \in payloads : p.secret # s
    BY <1>8, <2>2 DEF LineInv, OnlyOne, Deaths
  <2>3. OnlyOne'  BY <1>0, <2>2 DEF OnlyOne
  <2>4. DoneShows'  BY <1>3, <2>1 DEF DoneShows
  <2>5. rec.secret \in Run \ dead
    <3>1. born' \in 0 .. MaxRuns /\ born' = born + 1  BY DEF Begins, TypeOK
    <3>2. born + 1 \notin dead  BY <1>0 DEF Deaths
    <3> QED  BY <1>0, <1>8, <3>1, <3>2, BackupRunAssumption DEF Run
  <2>6. VersionOf(rec.secret) = 0 /\ Len(chain[rec.secret]) = 0  BY <1>0, <2>2, <2>5 DEF VersionOf
  <2>7. Shows(rec)'  BY <1>0, <1>2, <1>3, <1>8, <2>6 DEF Shows, OthersAfter
  <2> QED  BY <1>5, <1>7, <2>1, <2>3, <2>4, <2>7 DEF LineInv, ActiveShows
<1>9. CASE /\ rec.of = slot.run.version /\ rec.of # 0 /\ rec.secret = slot.run.secret /\ Finished(slot.run)
           /\ slot' = [run |-> slot.run, reshare |-> rec]
  <2>1. slot'.run = slot.run /\ slot'.reshare = rec /\ Active' = rec
    BY <1>0, <1>3, <1>9, SlotShape DEF Active, ActiveIn
  <2>2. slot.run.step = "done" /\ slot.run.secret \notin dead /\ slot.run.secret \in Run
    BY <1>9, SecretTyped DEF Finished, Deaths
  <2>3. OnlyOne'  BY <1>0, <2>1 DEF LineInv, OnlyOne
  <2>4. DoneShows'  BY <1>0, <1>2, <1>3, <2>1, <2>2 DEF LineInv, DoneShows
  <2>5. /\ slot.run.version \in 1 .. VersionOf(slot.run.secret)
        /\ OthersAfter(slot.run.secret, slot.run.version)
    BY <1>0, <1>1, <2>2 DEF LineInv, DoneShows
  <2>6. VersionOf(slot.run.secret) \in Nat  BY <2>2, VersionTyped DEF Kept
  <2>7. Shows(rec)'  BY <1>0, <1>2, <1>3, <1>9, <2>5, <2>6 DEF Shows, OthersAfter
  <2> QED  BY <1>5, <1>7, <2>1, <2>3, <2>4, <2>7 DEF LineInv, ActiveShows
<1> QED  BY <1>8, <1>9 DEF Begins

\* The active run's record goes on, and shows what the secret's versions are.
LEMMA LineOnward ==
  ASSUME Kept, LineInv, NEW rec, Update(rec), Quiet, Shows(rec),
         rec.superseded => rec.step = "published" /\ VersionOf(rec.secret) > rec.of,
         \A p \in payloads : p.secret \notin dead =>
            \/ p.bound < VersionOf(p.secret)
            \/ p.run = rec.id /\ p.secret = rec.secret /\ rec.step = "submitted" /\ p.bound = rec.of,
         \A d \in Device : pc'[d] = "sign" /\ mine'[d].id = rec.id =>
            rec.step = "submitted" /\ VersionOf(rec.secret) = rec.of
  PROVE  LineInv'
<1>0. UNCHANGED <<chain, payloads, dead, born>>  BY DEF Quiet
<1>1. /\ Active' = rec /\ rec.id # 0 /\ slot'.run.secret = slot.run.secret
      /\ slot'.run.step \notin {"none", "discarded"}
      /\ slot'.run.step = "done" => slot'.run = slot.run
  BY <1>0, OnwardFacts
<1>2. \A s : VersionOf(s)' = VersionOf(s)  BY <1>0 DEF VersionOf
<1>3. OnlyOne'  BY <1>0, <1>1 DEF LineInv, OnlyOne
<1>4. DoneShows'  BY <1>0, <1>1, <1>2 DEF LineInv, DoneShows
<1>5. ActiveShows'  BY <1>0, <1>1, <1>2 DEF ActiveShows, Shows, OthersAfter
<1>6. Bound' /\ Overtaken'  BY <1>0, <1>1, <1>2 DEF Bound, Overtaken
<1>7. Signing'  BY <1>0, <1>1, <1>2 DEF Signing
<1> QED  BY <1>3, <1>4, <1>5, <1>6, <1>7 DEF LineInv

LEMMA LineContinues ==
  ASSUME Kept, LineInv, SignersStay, NEW rec, Continues(rec)
  PROVE  LineInv'
<1> DEFINE s == Active.secret
           v == VersionOf(s)
<1>0. Update(rec) /\ Quiet /\ born' = born  BY DEF Continues, Quiet
<1>1. /\ Active.id # 0 /\ rec.id = Active.id /\ rec.of = Active.of /\ rec.secret = s /\ s \in Run
      /\ Active \in Rec /\ rec \in Rec
  BY <1>0, OnwardFacts
<1>2. v \in Nat /\ Active.of \in Nat  BY <1>1, VersionTyped DEF Kept, Rec
<1>3. Shows(Active)  BY <1>1 DEF LineInv, ActiveShows
<1>4. \A d \in Device : pc'[d] = "sign" /\ mine'[d].id = rec.id => Active.step = "submitted" /\ v = Active.of
  BY <1>1 DEF LineInv, Signing, SignersStay
<1>5. Active.superseded => Active.step = "published" /\ v > Active.of  BY DEF LineInv, Overtaken
<1>6. \A p \in payloads : p.secret \notin dead =>
         \/ p.bound < VersionOf(p.secret)
         \/ p.run = rec.id /\ p.secret = s /\ Active.step = "submitted" /\ p.bound = Active.of
  BY <1>1 DEF LineInv, Bound
<1>7. CASE Records(rec)
  <2>1. rec.step = Active.step /\ rec.version = Active.version /\ rec.superseded = Active.superseded
    BY <1>7 DEF Records, Same
  <2>2. Shows(rec)  BY <1>1, <1>3, <2>1 DEF Shows
  <2> QED  BY <1>0, <1>1, <1>4, <1>5, <1>6, <2>1, <2>2, LineOnward
<1>8. CASE Publishes(rec)
  <2>1. Active.step = "prepared" /\ rec.step = "published" /\ ~rec.superseded
    BY <1>5, <1>8 DEF Publishes
  <2>2. Shows(rec)  BY <1>1, <1>3, <2>1 DEF Shows
  <2> QED  BY <1>0, <1>1, <1>4, <1>6, <2>1, <2>2, LineOnward
<1>9. CASE Overtakes(rec)
  <2>1. /\ rec.step = Active.step /\ Active.step \in {"published", "submitted"} /\ Active.of > 0
        /\ v > Active.of + 1 \/ (v > Active.of /\ Active.step = "published")
    BY <1>9 DEF Overtakes, Moved
  <2>2. Active.step = "published" /\ v > Active.of  BY <1>2, <1>3, <2>1 DEF Shows
  <2>3. Shows(rec)  BY <1>1, <1>3, <2>1, <2>2 DEF Shows
  <2> QED  BY <1>0, <1>1, <1>4, <1>6, <2>1, <2>2, <2>3, LineOnward
<1>10. CASE Registers(rec)
  <2>1. /\ rec.step = "registered" /\ rec.version = v /\ rec.superseded = Active.superseded
        /\ Active.step \in {"published", "submitted"} /\ v > 0 /\ (Active.of > 0 => v = Active.of + 1)
        /\ ~(Active.of > 0 /\ v > Active.of /\ Active.step = "published")
    BY <1>10 DEF Registers, Landed, Moved
  <2>2. Active.step = "submitted" /\ v = Active.of + 1 /\ chain[s][v] = Active.id
    BY <1>2, <1>3, <2>1 DEF Shows
  <2>3. Shows(rec)  BY <1>1, <2>1, <2>2 DEF Shows
  <2>4. \A p \in payloads : p.secret \notin dead => p.bound < VersionOf(p.secret)
    BY <1>2, <1>6, <2>2
  <2>5. ~rec.superseded  BY <1>5, <2>1, <2>2
  <2>6. \A d \in Device : ~(pc'[d] = "sign" /\ mine'[d].id = rec.id)  BY <1>2, <1>4, <2>2
  <2> QED  BY <1>0, <2>3, <2>4, <2>5, <2>6, LineOnward
<1> QED  BY <1>7, <1>8, <1>9, <1>10 DEF Continues

LEMMA LineSubmits ==
  ASSUME Kept, LineInv, NEW rec, Submits(rec)
  PROVE  LineInv'
<1> DEFINE s == Active.secret
           v == VersionOf(s)
<1>0. Update(rec) /\ Quiet /\ born' = born  BY DEF Submits, Quiet
<1>1. /\ Active.id # 0 /\ rec.id = Active.id /\ rec.of = Active.of /\ rec.secret = s /\ s \in Run
      /\ Active \in Rec /\ rec \in Rec
  BY <1>0, OnwardFacts
<1>2. v \in Nat /\ Active.of \in Nat  BY <1>1, VersionTyped DEF Kept, Rec
<1>3. Shows(Active)  BY <1>1 DEF LineInv, ActiveShows
<1>4. /\ rec.step = "submitted" /\ rec.superseded = Active.superseded /\ Active.step \in {"published", "submitted"}
      /\ ~(v > 0 /\ (Active.of > 0 => v = Active.of + 1))
      /\ ~(Active.of > 0 /\ v > Active.of /\ Active.step = "published")
  BY DEF Submits, Landed, Moved
<1>5. v = Active.of  BY <1>2, <1>3, <1>4 DEF Shows
<1>6. ~rec.superseded  BY <1>2, <1>4, <1>5 DEF LineInv, Overtaken
<1>7. Shows(rec)  BY <1>1, <1>4, <1>5 DEF Shows
<1>8. \A p \in payloads : p.secret \notin dead =>
         \/ p.bound < VersionOf(p.secret)
         \/ p.run = rec.id /\ p.secret = rec.secret /\ rec.step = "submitted" /\ p.bound = rec.of
  BY <1>1, <1>4 DEF LineInv, Bound
<1> QED  BY <1>0, <1>1, <1>4, <1>5, <1>6, <1>7, <1>8, LineOnward

\* The active run leaves the slot, done or dropped, and none is begun.
LEMMA LineLeaves ==
  ASSUME Kept, LineInv, SignersStay, NEW rec, slot' = [run |-> rec, reshare |-> NoRun], Quiet,
         rec.step \in {"done", "discarded"}, rec.secret = slot.run.secret, Active.id # 0,
         Active.step # "submitted",
         rec.step = "discarded" => VersionOf(rec.secret) = 0 /\ Active.secret = rec.secret,
         rec.step = "done" =>
            /\ rec.version \in 1 .. VersionOf(rec.secret) /\ chain[rec.secret][rec.version] = rec.id
            /\ OthersAfter(rec.secret, rec.version)
  PROVE  LineInv'
<1>0. UNCHANGED <<chain, payloads, dead, born>> /\ NoRun.id = 0 /\ ~NoRun.superseded
  BY DEF Quiet, NoRun
<1>1. slot'.run = rec /\ Active' = NoRun
  BY NoRunTyped, SlotShape DEF Active, ActiveIn, Unfinished
<1>2. \A t : VersionOf(t)' = VersionOf(t)  BY <1>0 DEF VersionOf
<1>3. \A p \in payloads : p.secret \notin dead => p.bound < VersionOf(p.secret)  BY DEF LineInv, Bound
<1>4. OnlyOne'
  <2> SUFFICES ASSUME NEW t \in Run \ dead, chain[t] # <<>> \/ (\E p \in payloads : p.secret = t)
               PROVE  t = rec.secret /\ rec.step # "discarded"
    BY <1>0, <1>1 DEF OnlyOne
  <2>1. t = rec.secret  BY DEF LineInv, OnlyOne
  <2>2. VersionOf(t) \in Nat /\ (chain[t] # <<>> <=> VersionOf(t) # 0)  BY VersionTyped DEF Kept
  <2>3. ASSUME NEW p \in payloads, p.secret = t PROVE VersionOf(t) # 0
    <3>1. p.bound \in Nat  BY DEF Kept, TypeOK
    <3> QED  BY <1>3, <2>2, <2>3, <3>1
  <2> QED  BY <2>1, <2>2, <2>3
<1>5. DoneShows'  BY <1>0, <1>1, <1>2 DEF DoneShows, OthersAfter
<1>6. ActiveShows' /\ Overtaken'  BY <1>0, <1>1 DEF ActiveShows, Overtaken
<1>7. Bound'  BY <1>0, <1>2, <1>3 DEF Bound
<1>8. Signing'
  <2>1. \A d \in Device : pc'[d] = "sign" => mine'[d].id # 0  BY SignerTyped DEF SignersStay
  <2> QED  BY <1>0, <1>1, <2>1 DEF Signing
<1> QED  BY <1>4, <1>5, <1>6, <1>7, <1>8 DEF LineInv

LEMMA LineEnds ==
  ASSUME Kept, LineInv, SignersStay, NEW rec, Ends(rec)
  PROVE  LineInv'
<1>1. /\ slot' = [run |-> rec, reshare |-> NoRun] /\ Quiet /\ rec.step = "done" /\ Active.id # 0
      /\ rec.secret = slot.run.secret /\ rec.secret = Active.secret /\ rec.version = Active.version
      /\ rec.id = Active.id /\ Active.step = "registered"
  BY DEF Ends
<1>2. Active.secret \in Run /\ Active \in Rec  BY <1>1, ActiveFacts DEF Kept
<1>3. VersionOf(rec.secret) \in Nat /\ Active.of \in Nat /\ VersionOf(rec.secret) = Len(chain[rec.secret])
  BY <1>1, <1>2, VersionTyped DEF Kept, Rec
<1>4. rec.version = VersionOf(rec.secret) /\ VersionOf(rec.secret) = Active.of + 1 /\ chain[rec.secret][rec.version] = rec.id
  BY <1>1 DEF LineInv, ActiveShows, Shows
<1>5. OthersAfter(rec.secret, rec.version)  BY <1>3, <1>4 DEF OthersAfter
<1> QED  BY <1>1, <1>3, <1>4, <1>5, LineLeaves

LEMMA LineDrops ==
  ASSUME Kept, LineInv, SignersStay, NEW rec, Drops(rec)
  PROVE  LineInv'
<1>1. slot' = [run |-> rec, reshare |-> NoRun] /\ Quiet /\ Active.id # 0 /\ CanDiscard(Active)  BY DEF Drops
<1>2. Active.step \in {"prepared", "published"}  BY <1>1 DEF CanDiscard, LineInv, Overtaken
<1>3. Shows(Active)  BY <1>1 DEF LineInv, ActiveShows
<1>4. CASE /\ Active = slot.run /\ Active.of = 0 /\ rec.step = "discarded" /\ rec.secret = slot.run.secret
  <2>1. VersionOf(rec.secret) = 0  BY <1>2, <1>3, <1>4 DEF Shows
  <2> QED  BY <1>1, <1>2, <1>4, <2>1, LineLeaves
<1>5. CASE Active = slot.reshare /\ Active.of # 0 /\ Finished(slot.run) /\ rec = slot.run
  <2>1. slot.reshare # NoRun  BY <1>1, <1>5 DEF NoRun
  <2>2. Active.of = rec.version /\ Active.secret = rec.secret /\ rec.step = "done"
    BY <1>5, <2>1 DEF Kept, Places, Finished
  <2>3. OthersAfter(rec.secret, rec.version)  BY <1>2, <1>3, <2>2 DEF Shows
  <2>4. rec.version \in 1 .. VersionOf(rec.secret) /\ chain[rec.secret][rec.version] = rec.id
    BY <1>5, <2>2 DEF LineInv, DoneShows
  <2> QED  BY <1>1, <1>2, <1>5, <2>2, <2>3, <2>4, LineLeaves
<1> QED  BY <1>4, <1>5 DEF Drops

LEMMA LineMarks ==
  ASSUME Kept, Deaths, Deaths', LineInv, SignersStay, NEW rec, Marks(rec)
  PROVE  LineInv'
<1>0. /\ slot' = [run |-> rec, reshare |-> NoRun] /\ UNCHANGED <<chain, payloads>> /\ dead \subseteq dead'
      /\ slot.run.step = "done" /\ rec.step = "done" /\ rec.secret = slot.run.secret /\ rec.id = slot.run.id
      /\ rec.version = slot.run.version /\ rec.revoked /\ NoRun.id = 0 /\ ~NoRun.superseded /\ slot.reshare = NoRun
  BY DEF Marks, NoRun
<1>1. slot'.run = rec /\ Active' = NoRun /\ Active = NoRun
  BY <1>0, NoRunTyped, SlotShape DEF Active, ActiveIn, Unfinished
<1>2. \A t : VersionOf(t)' = VersionOf(t)  BY <1>0 DEF VersionOf
<1>3. rec.secret \in dead'  BY <1>0, <1>1 DEF Deaths
<1>4. OnlyOne'  BY <1>0, <1>1 DEF LineInv, OnlyOne
<1>5. DoneShows'  BY <1>0, <1>1, <1>2, <1>3 DEF LineInv, DoneShows
<1>6. ActiveShows' /\ Overtaken'  BY <1>0, <1>1 DEF ActiveShows, Overtaken
<1>7. Bound'  BY <1>0, <1>1, <1>2 DEF LineInv, Bound
<1>8. Signing'  BY <1>0, <1>1, <1>2 DEF LineInv, Signing, SignersStay
<1> QED  BY <1>4, <1>5, <1>6, <1>7, <1>8 DEF LineInv

LEMMA LineHands ==
  ASSUME Kept, LineInv, SignersStay, Hands
  PROVE  LineInv'
<1>0. /\ slot' = slot /\ UNCHANGED <<chain, dead, born>> /\ payloads' = payloads \union {Payload(Active)}
      /\ Active.id # 0 /\ Active.step = "submitted"
  BY DEF Hands
<1>1. Active' = Active  BY <1>0, ActiveUnchanged
<1>2. \A s : VersionOf(s)' = VersionOf(s)  BY <1>0 DEF VersionOf
<1>3. VersionOf(Active.secret) = Active.of  BY DEF LineInv, Signing, Hands
<1>4. /\ Payload(Active).run = Active.id /\ Payload(Active).secret = Active.secret
      /\ Payload(Active).bound = Active.of
  BY <1>3 DEF Payload
<1>5. Active.secret = slot.run.secret /\ slot.run.step \notin {"none", "discarded"}
  <2>1. Active = slot.run \/ (Active = slot.reshare /\ Finished(slot.run))  BY <1>0, ActiveFacts DEF Kept
  <2>2. slot.reshare.id # 0 => slot.reshare.secret = slot.run.secret  BY DEF Kept, Places, NoRun
  <2> QED  BY <1>0, <2>1, <2>2 DEF Finished
<1>6. OnlyOne'  BY <1>0, <1>4, <1>5 DEF LineInv, OnlyOne
<1>7. DoneShows'  BY <1>0, <1>1, <1>2 DEF LineInv, DoneShows, OthersAfter
<1>8. ActiveShows' /\ Overtaken'  BY <1>0, <1>1, <1>2 DEF LineInv, ActiveShows, Overtaken, Shows, OthersAfter
<1>9. Bound'  BY <1>0, <1>1, <1>2, <1>4 DEF LineInv, Bound
<1>10. Signing'  BY <1>1, <1>2 DEF LineInv, Signing, SignersStay
<1> QED  BY <1>6, <1>7, <1>8, <1>9, <1>10 DEF LineInv

LEMMA ChainGrows ==
  ASSUME TypeOK, NEW s \in Run, NEW x \in Run \union {Other}, chain' = [chain EXCEPT ![s] = Append(@, x)]
  PROVE  /\ VersionOf(s)' = VersionOf(s) + 1 /\ VersionOf(s) \in Nat
         /\ chain'[s][VersionOf(s) + 1] = x
         /\ \A i \in 1 .. VersionOf(s) : chain'[s][i] = chain[s][i]
         /\ \A t \in Run : t # s => chain'[t] = chain[t] /\ VersionOf(t)' = VersionOf(t)
<1>1. chain[s] \in Seq(Run \union {Other}) /\ chain'[s] = Append(chain[s], x)  BY DEF TypeOK
<1>2. \A t \in Run : t # s => chain'[t] = chain[t]  BY DEF TypeOK
<1> QED  BY <1>1, <1>2, AppendFacts DEF VersionOf

LEMMA LineLands ==
  ASSUME Kept, LineInv, SignersStay, Overtaking = FALSE, NEW p \in payloads, Lands(p)
  PROVE  LineInv'
<1> DEFINE s == p.secret
           v == VersionOf(s)
<1>0. /\ slot' = slot /\ dead' = dead /\ payloads' = payloads \ {p} /\ s \notin dead /\ p.bound = v
      /\ p.run \in Run /\ s \in Run /\ chain' = [chain EXCEPT ![s] = Append(@, p.run)]
      /\ \A d \in Device : pc[d] = "sign" => mine[d].id # p.run
  BY DEF Lands, outside, Kept, TypeOK
<1>1. Active' = Active /\ InSlot' = InSlot  BY <1>0, ActiveUnchanged
<1>2. /\ VersionOf(s)' = v + 1 /\ v \in Nat /\ chain'[s][v + 1] = p.run
      /\ \A i \in 1 .. v : chain'[s][i] = chain[s][i]
      /\ \A t \in Run : t # s => chain'[t] = chain[t] /\ VersionOf(t)' = VersionOf(t)
  BY <1>0, ChainGrows DEF Kept
<1>3. s = slot.run.secret /\ slot.run.step \notin {"none", "discarded"}  BY <1>0 DEF LineInv, OnlyOne
<1>4. p.run = Active.id /\ s = Active.secret /\ Active.step = "submitted" /\ v = Active.of /\ Active.id # 0
  BY <1>0, <1>2 DEF LineInv, Bound, Run
<1>5. OnlyOne'
  BY <1>0, <1>2, <1>3 DEF LineInv, OnlyOne
<1>6. DoneShows'
  <2> SUFFICES ASSUME slot.run.step = "done"
               PROVE  /\ slot.run.version \in 1 .. v + 1 /\ chain'[s][slot.run.version] = slot.run.id
    BY <1>0, <1>1, <1>2, <1>3, <1>4 DEF DoneShows
  <2>1. slot.run.version \in 1 .. v /\ chain[s][slot.run.version] = slot.run.id
    BY <1>3 DEF LineInv, DoneShows
  <2> QED  BY <1>2, <2>1
<1>7. ActiveShows'
  <2>1. Shows(Active)'  BY <1>1, <1>2, <1>4 DEF Shows
  <2> QED  BY <1>1, <2>1 DEF ActiveShows
<1>8. Bound'
  <2> SUFFICES ASSUME NEW q \in payloads, q.secret \notin dead PROVE q.bound < VersionOf(q.secret)'
    BY <1>0 DEF Bound
  <2>1. q.secret \in Run /\ q.bound \in Nat  BY DEF Kept, TypeOK
  <2>2. q.secret = s  BY <1>3, <2>1 DEF LineInv, OnlyOne
  <2>3. q.bound < v \/ q.bound = v  BY <1>4, <2>2 DEF LineInv, Bound
  <2> QED  BY <1>2, <2>1, <2>2, <2>3
<1>9. Overtaken'  BY <1>1, <1>4 DEF LineInv, Overtaken
<1>10. Signing'  BY <1>0, <1>1, <1>4 DEF Signing, SignersStay
<1> QED  BY <1>5, <1>6, <1>7, <1>8, <1>9, <1>10 DEF LineInv

LEMMA LineOther ==
  ASSUME Kept, LineInv, SignersStay, Overtaking = FALSE, OtherChange
  PROVE  LineInv'
<1>p. PICK s \in Run : s = slot.run.secret  BY SecretTyped DEF OtherChange
<1> DEFINE v == VersionOf(s)
<1>0. /\ slot' = slot /\ dead' = dead /\ payloads' = payloads /\ s \notin dead /\ slot.run.step = "done"
      /\ chain' = [chain EXCEPT ![s] = Append(@, Other)] /\ slot.reshare.step \notin {"submitted", "registered"}
  BY <1>p DEF OtherChange
<1>1. Active' = Active /\ InSlot' = InSlot  BY <1>0, ActiveUnchanged
<1>2. /\ VersionOf(s)' = v + 1 /\ v \in Nat /\ chain'[s][v + 1] = Other
      /\ \A i \in 1 .. v : chain'[s][i] = chain[s][i]
      /\ \A t \in Run : t # s => chain'[t] = chain[t] /\ VersionOf(t)' = VersionOf(t)
  BY <1>0, ChainGrows DEF Kept
<1>l. Len(chain[s]) = v /\ Len(chain'[s]) = v + 1  BY <1>2 DEF VersionOf
<1>3. /\ Active.step \notin {"submitted", "registered"}
      /\ Active.id # 0 => Active.secret = s /\ Active.step \in {"prepared", "published"} /\ Active.of \in Nat \ {0}
  <2>1. ~Unfinished(slot.run)  BY <1>0 DEF Unfinished
  <2>2. Active = NoRun \/ (Active = slot.reshare /\ Unfinished(slot.reshare))  BY <2>1 DEF Active, ActiveIn
  <2>3. ASSUME Active = slot.reshare, Unfinished(slot.reshare)
        PROVE  slot.reshare.secret = s /\ slot.reshare.of \in Nat \ {0}
    BY <1>p, <2>3, NoRunTyped DEF Kept, Places
  <2> QED  BY <1>0, <2>2, <2>3 DEF NoRun, Unfinished
<1>4. OnlyOne'
  BY <1>0, <1>2, <1>p DEF LineInv, OnlyOne
<1>5. ASSUME NEW w \in Nat, OthersAfter(s, w), NEW i \in w + 1 .. Len(chain'[s]) PROVE chain'[s][i] = Other
  <2>1. CASE i <= v
    <3>1. i \in 1 .. v /\ i \in w + 1 .. Len(chain[s])  BY <1>2, <1>5, <1>l, <2>1
    <3> QED  BY <1>2, <1>5, <3>1 DEF OthersAfter
  <2>2. CASE i > v
    <3>1. i = v + 1  BY <1>2, <1>5, <1>l, <2>2
    <3> QED  BY <1>2, <3>1
  <2> QED  BY <1>2, <1>5, <2>1, <2>2
<1>6. DoneShows'
  <2>1. /\ slot.run.version \in 1 .. v /\ chain[s][slot.run.version] = slot.run.id
        /\ Active.id = 0 => OthersAfter(s, slot.run.version)
    BY <1>0, <1>p DEF LineInv, DoneShows
  <2>2. slot.run.version \in Nat /\ slot.run.version \in 1 .. v + 1
        /\ chain'[s][slot.run.version] = slot.run.id
    BY <1>2, <2>1
  <2>3. Active.id = 0 => \A i \in slot.run.version + 1 .. Len(chain'[s]) : chain'[s][i] = Other
    BY <1>5, <2>1, <2>2
  <2>4. slot'.run = slot.run  BY <1>0
  <2> QED  BY <1>1, <1>2, <1>p, <2>2, <2>3, <2>4 DEF DoneShows, OthersAfter
<1>7. ActiveShows'
  <2> SUFFICES ASSUME Active.id # 0 PROVE Shows(Active)'
    BY <1>1 DEF ActiveShows
  <2>1. Shows(Active) /\ Active.secret = s /\ Active.step \in {"prepared", "published"} /\ Active.of \in Nat \ {0}
    BY <1>3 DEF LineInv, ActiveShows
  <2>2. v >= Active.of /\ OthersAfter(s, Active.of)  BY <2>1 DEF Shows
  <2>3. v + 1 >= Active.of /\ \A i \in Active.of + 1 .. Len(chain'[s]) : chain'[s][i] = Other
    BY <1>2, <1>5, <2>1, <2>2
  <2> QED  BY <1>1, <1>2, <2>1, <2>3 DEF Shows, OthersAfter
<1>8. Bound'
  <2> SUFFICES ASSUME NEW q \in payloads, q.secret \notin dead PROVE q.bound < VersionOf(q.secret)'
    BY <1>0 DEF Bound
  <2>1. q.secret \in Run /\ q.bound \in Nat  BY DEF Kept, TypeOK
  <2>2. q.secret = s  BY <1>p, <2>1 DEF LineInv, OnlyOne
  <2>3. q.bound < v  BY <1>3, <2>2 DEF LineInv, Bound
  <2> QED  BY <1>2, <2>1, <2>2, <2>3
<1>9. Overtaken'
  <2>1. Active.superseded => Active.id # 0  BY ActiveNone DEF Kept, NoRun
  <2>2. Active.superseded => Active.secret = s /\ Active.of \in Nat /\ v > Active.of
    BY <1>3, <2>1 DEF LineInv, Overtaken
  <2>3. Active.superseded => VersionOf(s)' > Active.of  BY <1>2, <2>2
  <2> QED  BY <1>1, <2>2, <2>3 DEF LineInv, Overtaken, VersionOf
<1>10. Signing'  BY <1>1, <1>3 DEF LineInv, Signing, SignersStay
<1> QED  BY <1>4, <1>6, <1>7, <1>8, <1>9, <1>10 DEF LineInv

LEMMA LineStep ==
  ASSUME Overtaking = FALSE, Kept, Deaths, LineInv, [Next]_vars
  PROVE  LineInv'
<1>1. Change /\ Kept' /\ Deaths'  BY Changes, DeathsStep, KeptStep
<1>2. TypeOK'  BY <1>1 DEF Kept
<1>3. ASSUME SignersStay, Alike \/ Uploads \/ Clears \/ \E p \in payloads : Withdrawn(p) PROVE LineInv'
  BY <1>3, LineStays DEF Alike, Uploads, Clears, Withdrawn, Quiet
<1> QED
  BY <1>1, <1>2, <1>3, LineSubmits, LineBegins, LineContinues, LineEnds, LineDrops, LineMarks, LineHands,
     LineLands, LineOther
     DEF Change

LEMMA LineInit == Init => LineInv /\ Deaths
<1> SUFFICES ASSUME Init PROVE LineInv /\ Deaths
  OBVIOUS
<1>1. /\ slot.run = NoRun /\ slot.reshare = NoRun /\ chain = [r \in Run |-> <<>>] /\ payloads = {} /\ dead = {}
      /\ \A d \in Device : pc[d] = "idle"
  BY DEF Init
<1>2. Active = NoRun  BY <1>1 DEF Active, ActiveIn
<1>3. OnlyOne /\ Bound /\ Signing  BY <1>1 DEF OnlyOne, Bound, Signing
<1>4. DoneShows /\ ActiveShows /\ Overtaken /\ Deaths
  BY <1>1, <1>2 DEF DoneShows, ActiveShows, Overtaken, Deaths, NoRun
<1> QED  BY <1>3, <1>4 DEF LineInv

LEMMA LineHolds ==
  ASSUME Overtaking = FALSE
  PROVE  Spec => [](Kept /\ Deaths /\ LineInv)
<1> DEFINE Inv == Kept /\ Deaths /\ LineInv
<1>1. Init => Inv  BY KeptInit, LineInit
<1>2. Inv /\ [Next]_vars => Inv'  BY KeptStep, LineStep, Changes, DeathsStep
<1> HIDE DEF Inv
<1>3. Spec => []Inv  BY <1>1, <1>2, PTL DEF Spec
<1> QED  BY <1>3 DEF Inv

\* What a record in the slot says of its own version.
LEMMA RecordShows ==
  ASSUME Kept, LineInv, NEW rec \in InSlot, rec.step \in {"registered", "done"}
  PROVE  rec.version \in 1 .. VersionOf(rec.secret) /\ chain[rec.secret][rec.version] = rec.id
<1>1. CASE rec.step = "registered"
  <2>1. rec = Active /\ rec.id # 0  BY <1>1, UnfinishedActive DEF Unfinished
  <2>2. Active.of \in Nat  BY <2>1, ActiveFacts DEF Kept, Rec
  <2> QED  BY <1>1, <2>1, <2>2 DEF LineInv, ActiveShows, Shows
<1>2. CASE rec.step = "done"
  <2>1. rec = slot.run  BY <1>2 DEF InSlot, Kept, Places, NoRun, Unfinished
  <2> QED  BY <1>2, <2>1 DEF LineInv, DoneShows
<1> QED  BY <1>1, <1>2

LEMMA SplitShows ==
  ASSUME Kept, LineInv
  PROVE  SplitKept
<1> SUFFICES ASSUME NEW s \in Run, chain[s] # <<>>, s \notin dead, Latest(s) # Other
             PROVE  \E rec \in InSlot : rec.id = Latest(s) /\ rec.step \in {"submitted", "registered", "done"}
  BY DEF SplitKept
<1> DEFINE v == VersionOf(s)
<1>1. s = slot.run.secret /\ slot.run.step \notin {"none", "discarded"}  BY DEF LineInv, OnlyOne
<1>2. v \in Nat \ {0} /\ v = Len(chain[s]) /\ Latest(s) = chain[s][v]  BY VersionTyped DEF Kept, Latest
<1>3. slot.run.step = "done" => slot.run.version \in 1 .. v /\ chain[s][slot.run.version] = slot.run.id
  BY <1>1 DEF LineInv, DoneShows
<1>4. slot.run \in InSlot  BY DEF InSlot
<1>5. ASSUME NEW w \in Nat, OthersAfter(s, w), w <= v PROVE w = v
  BY <1>2, <1>5 DEF OthersAfter
<1>6. slot.run \in Rec  BY DEF Kept, TypeOK
<1>7. CASE Active.id = 0
  <2>1. slot.run.step = "done"
    <3>1. ~Unfinished(slot.run)  BY <1>4, <1>7, UnfinishedActive
    <3> QED  BY <1>1, <1>6, <3>1 DEF Unfinished, Rec, Steps
  <2>2. OthersAfter(s, slot.run.version)  BY <1>1, <1>7, <2>1 DEF LineInv, DoneShows
  <2>3. slot.run.version = v  BY <1>2, <1>3, <1>5, <2>1, <2>2
  <2> QED  BY <1>2, <1>3, <1>4, <2>1, <2>3
<1>8. CASE Active.id # 0
  <2>1. /\ Active \in InSlot /\ Active \in Rec /\ Unfinished(Active) /\ Shows(Active)
        /\ \/ Active = slot.run /\ Active.of = 0
           \/ Active = slot.reshare /\ Active.of # 0 /\ slot.run.step = "done"
    BY <1>8, ActiveFacts DEF Kept, InSlot, Finished, LineInv, ActiveShows
  <2>2. Active.secret = s /\ (Active.of # 0 => Active.of = slot.run.version)
    BY <1>1, <1>8, <2>1 DEF Kept, Places, NoRun
  <2>3. Active.of \in Nat  BY <2>1 DEF Rec
  <2>4. CASE Active.step \in {"prepared", "published"}
    <3>1. v >= Active.of /\ OthersAfter(s, Active.of) /\ Active.of # 0  BY <1>2, <2>1, <2>2, <2>4 DEF Shows
    <3>2. Active.of = v  BY <1>2, <1>5, <2>3, <3>1
    <3> QED  BY <1>2, <1>3, <1>4, <2>1, <2>2, <3>1, <3>2
  <2>5. CASE Active.step = "submitted"
    <3>1. v = Active.of \/ (v = Active.of + 1 /\ chain[s][v] = Active.id)  BY <2>1, <2>2, <2>5 DEF Shows
    <3> QED  BY <1>2, <1>3, <1>4, <2>1, <2>2, <2>5, <3>1
  <2>6. CASE Active.step = "registered"
    <3>1. chain[s][v] = Active.id  BY <2>1, <2>2, <2>6 DEF Shows
    <3> QED  BY <1>2, <2>1, <2>6, <3>1
  <2> QED  BY <2>1, <2>4, <2>5, <2>6 DEF Unfinished
<1> QED  BY <1>7, <1>8

\* As long as no change overtakes a run between its look at the secret and its own
\* registration, the split whose pieces count is in the owner's slot.
THEOREM SplitsAreKept ==
  ASSUME Overtaking = FALSE
  PROVE  Spec => []SplitKept
<1>1. Kept /\ Deaths /\ LineInv => SplitKept  BY SplitShows
<1> QED  BY <1>1, LineHolds, PTL

\* On the same condition a run takes no version for its own that another change made.
THEOREM VersionsAreOwn ==
  ASSUME Overtaking = FALSE
  PROVE  Spec => []OwnVersion
<1>1. Kept /\ Deaths /\ LineInv => OwnVersion  BY RecordShows DEF OwnVersion
<1> QED  BY <1>1, LineHolds, PTL

-----------------------------------------------------------------------------
(* The way back: a vault goes only when a later one covers for it.         *)

LEMMA CoversStays ==
  ASSUME Kept, Kept', Grows, NEW r \in Run, Covers(r), r \in live'
  PROVE  Covers(r)'
<1> DEFINE had == {n \in Node : <<r, n>> \in deposits}
           has == {n \in Node : <<r, n>> \in deposits'}
<1>1. deposits \subseteq deposits' /\ pieces \subseteq pieces'  BY DEF Grows
<1>2. had \subseteq has /\ has \subseteq Node  BY <1>1
<1>3. IsFiniteSet(has)  BY <1>2, BackupRunAssumption, FS_Subset
<1>4. IsFiniteSet(had) /\ Cardinality(had) <= Cardinality(has)  BY <1>2, <1>3, FS_Subset
<1>5. Cardinality(had) \in Nat /\ Cardinality(has) \in Nat  BY <1>3, <1>4, FS_CardinalityType
<1>6. Cardinality(had) >= NodeThreshold  BY DEF Covers
<1> HIDE DEF had, has
<1>7. Cardinality(has) >= NodeThreshold  BY <1>4, <1>5, <1>6, BackupRunAssumption
<1> QED  BY <1>1, <1>7 DEF Covers, has

\* A run that has sent what it could covers: its pieces are with every guardian and with
\* enough nodes.
LEMMA SentCovers ==
  ASSUME Kept, Active.id # 0, Active.step = "registered", Active.sent = Guardian, NodesPending(Active) = {},
         Active.id \in live
  PROVE  Covers(Active.id)
<1>1. Active \in Rec /\ Active \in InSlot  BY ActiveFacts DEF Kept, InSlot
<1>2. Pieces(Active)  BY <1>1 DEF Kept, PiecesInv
<1> DEFINE has == {n \in Node : <<Active.id, n>> \in deposits}
<1>3. Active.held \subseteq has /\ has \subseteq Node /\ Active.held \subseteq Node  BY <1>1, <1>2 DEF Pieces, Rec
<1>4. Node \subseteq Active.skipped \union Active.held  BY DEF NodesPending
<1>5. IsFiniteSet(has) /\ IsFiniteSet(Active.held)  BY <1>3, BackupRunAssumption, FS_Subset
<1>6. /\ Cardinality(Active.held) <= Cardinality(has)
      /\ Cardinality(Active.held) \in Nat /\ Cardinality(has) \in Nat
  BY <1>3, <1>5, FS_Subset, FS_CardinalityType
<1>7. Cardinality(Active.held) >= NodeThreshold
  <2>1. CASE Active.skipped = {}
    <3>1. Active.held = Node  BY <1>3, <1>4, <2>1
    <3>2. Cardinality(Node) \in Nat  BY BackupRunAssumption, FS_CardinalityType
    <3> QED  BY <3>1, <3>2, BackupRunAssumption
  <2>2. CASE Active.skipped # {}
    BY <1>2, <2>2 DEF Pieces
  <2> QED  BY <2>1, <2>2
<1> HIDE DEF has
<1>8. Cardinality(has) >= NodeThreshold  BY <1>6, <1>7, BackupRunAssumption
<1> QED  BY <1>2, <1>8 DEF Covers, Pieces, has

LEMMA ActiveUp ==
  ASSUME Kept, VaultsUp, Active.id # 0, Active.step \in {"published", "submitted", "registered"}
  PROVE  Active.id \in live /\ Active.id \in Run
  BY ActiveFacts DEF Kept, VaultsUp, InSlot

\* A version whose vault a step removes has the active run's after it.
LEMMA RemovedCovered ==
  ASSUME Kept, Kept', Grows, VaultsUp, Deaths, LineInv, Change,
         NEW s \in Run, s \notin dead, NEW k \in 1 .. Len(chain[s]),
         chain[s][k] \in live, chain[s][k] \notin live'
  PROVE  /\ chain' = chain
         /\ \E j \in k + 1 .. Len(chain[s]) : \E r \in Run : r = chain[s][j] /\ Covers(r)'
<1>1. VersionOf(s) = Len(chain[s]) /\ Len(chain[s]) \in Nat /\ chain[s] # <<>>  BY VersionTyped DEF Kept
<1>2. s = slot.run.secret /\ slot.run.step \notin {"none", "discarded"}  BY <1>1 DEF LineInv, OnlyOne
<1>3. CASE /\ chain' = chain /\ Active.id # 0 /\ Active.step = "registered"
           /\ Active.sent = Guardian /\ NodesPending(Active) = {}
  <2>1. PICK r \in Run : r = Active.id /\ r \in live  BY <1>3, ActiveUp
  <2>2. Covers(r)  BY <1>3, <2>1, SentCovers
  <2>3. r \in live'  BY <1>3, <2>1, VaultsNext
  <2>4. Covers(r)'  BY <2>2, <2>3, CoversStays
  <2>5. Active.secret = s /\ Active.of \in Nat
    <3>1. Active = slot.run \/ Active = slot.reshare  BY <1>3, ActiveFacts DEF Kept
    <3>2. Active \in Rec  BY <1>3, ActiveFacts DEF Kept
    <3> QED  BY <1>2, <1>3, <3>1, <3>2 DEF Kept, Places, NoRun, Rec
  <2>6. chain[s][Len(chain[s])] = r /\ Len(chain[s]) # 0
    BY <1>1, <1>3, <2>1, <2>5 DEF LineInv, ActiveShows, Shows
  <2>7. k # Len(chain[s])  BY <2>3, <2>6
  <2>8. Len(chain[s]) \in k + 1 .. Len(chain[s])  BY <1>1, <2>7
  <2> QED  BY <1>3, <2>4, <2>6, <2>8
<1>4. ASSUME NEW rec, Marks(rec) PROVE FALSE
  BY <1>2, <1>4 DEF Marks, VaultsSame, Deaths
<1>5. ASSUME NEW rec, Ends(rec) PROVE chain' = chain
  BY <1>5 DEF Ends, Quiet
<1>6. Clears => chain' = chain  BY DEF Clears, Quiet
<1> QED
  BY <1>3, <1>4, <1>5, <1>6
     DEF Change, Submits, Begins, Continues, Ends, Drops, Alike, Hands, Uploads, Clears, Withdrawn, Lands, OtherChange,
         outside, VaultsSame, Records, Publishes, Overtakes, Registers

\* Versions are only added, and what is added is the active run's, its vault up, or
\* another client's.
LEMMA ChainNext ==
  ASSUME Kept, VaultsUp, LineInv, Overtaking = FALSE, Change, NEW s \in Run, s \notin dead
  PROVE  /\ Len(chain[s]) \in Nat /\ Len(chain'[s]) \in Nat /\ Len(chain'[s]) >= Len(chain[s])
         /\ \A i \in 1 .. Len(chain[s]) : chain'[s][i] = chain[s][i]
         /\ \A i \in Len(chain[s]) + 1 .. Len(chain'[s]) : chain'[s][i] = Other \/ chain'[s][i] \in live'
<1>1. Len(chain[s]) \in Nat  BY VersionTyped DEF Kept
<1>2. ASSUME chain' = chain
      PROVE  /\ Len(chain'[s]) \in Nat /\ Len(chain'[s]) >= Len(chain[s])
             /\ \A i \in 1 .. Len(chain[s]) : chain'[s][i] = chain[s][i]
             /\ \A i \in Len(chain[s]) + 1 .. Len(chain'[s]) : chain'[s][i] = Other \/ chain'[s][i] \in live'
  BY <1>1, <1>2
<1>3. ASSUME NEW t \in Run, NEW x \in Run \union {Other}, chain' = [chain EXCEPT ![t] = Append(@, x)],
             x = Other \/ x \in live'
      PROVE  /\ Len(chain'[s]) \in Nat /\ Len(chain'[s]) >= Len(chain[s])
             /\ \A i \in 1 .. Len(chain[s]) : chain'[s][i] = chain[s][i]
             /\ \A i \in Len(chain[s]) + 1 .. Len(chain'[s]) : chain'[s][i] = Other \/ chain'[s][i] \in live'
  <2>1. /\ VersionOf(t)' = VersionOf(t) + 1 /\ VersionOf(t) \in Nat
        /\ chain'[t][VersionOf(t) + 1] = x
        /\ \A i \in 1 .. VersionOf(t) : chain'[t][i] = chain[t][i]
        /\ \A u \in Run : u # t => chain'[u] = chain[u]
    BY <1>3, ChainGrows DEF Kept
  <2>2. CASE t = s
    <3>1. Len(chain'[s]) = Len(chain[s]) + 1 /\ chain'[s][Len(chain[s]) + 1] = x
      BY <2>1, <2>2 DEF VersionOf
    <3>2. \A i \in 1 .. Len(chain[s]) : chain'[s][i] = chain[s][i]  BY <2>1, <2>2 DEF VersionOf
    <3>3. \A i \in Len(chain[s]) + 1 .. Len(chain'[s]) : i = Len(chain[s]) + 1  BY <1>1, <3>1
    <3> QED  BY <1>1, <1>3, <3>1, <3>2, <3>3
  <2>3. CASE t # s
    <3>1. chain'[s] = chain[s]  BY <2>1, <2>3
    <3> QED  BY <1>1, <3>1
  <2> QED  BY <2>2, <2>3
<1>4. ASSUME NEW p \in payloads, Lands(p)
      PROVE  /\ p.secret \in Run /\ p.run \in Run /\ p.run \in live'
             /\ chain' = [chain EXCEPT ![p.secret] = Append(@, p.run)]
  <2>1. /\ p.secret \in Run /\ p.run \in Run /\ live' = live /\ p.bound = VersionOf(p.secret) /\ p.secret \notin dead
        /\ chain' = [chain EXCEPT ![p.secret] = Append(@, p.run)]
    BY <1>4 DEF Lands, Kept, TypeOK, outside
  <2>2. VersionOf(p.secret) \in Nat  BY <2>1, VersionTyped DEF Kept
  <2>3. p.run = Active.id /\ Active.step = "submitted" /\ Active.id # 0  BY <2>1, <2>2 DEF LineInv, Bound, Run
  <2>4. p.run \in live  BY <2>3, ActiveUp
  <2> QED  BY <2>1, <2>4
<1>5. ASSUME OtherChange PROVE slot.run.secret \in Run /\ chain' = [chain EXCEPT ![slot.run.secret] = Append(@, Other)]
  BY <1>5, SecretTyped DEF OtherChange
<1>6. ASSUME ~OtherChange, ~\E p \in payloads : Lands(p) PROVE chain' = chain
  BY <1>6 DEF Change, Submits, Begins, Continues, Ends, Drops, Marks, Alike, Hands, Uploads, Clears, Withdrawn, Quiet
<1> QED  BY <1>1, <1>2, <1>3, <1>4, <1>5, <1>6 DEF Other

LEMMA WayBackStep ==
  ASSUME Overtaking = FALSE, Kept, RevokedInv, LineInv, WayBack, [Next]_vars
  PROVE  WayBack'
<1>1. Kept' /\ Grows /\ Change /\ VaultsUp /\ Deaths  BY KeptStep, Changes DEF RevokedInv
<1>2. dead \subseteq dead'
  BY <1>1 DEF Change, Submits, Begins, Continues, Ends, Drops, Marks, Alike, Hands, Uploads, Clears, Withdrawn,
              Lands, OtherChange, Quiet
<1> SUFFICES ASSUME NEW s \in Run, s \notin dead', NEW i \in 1 .. Len(chain'[s]),
                    chain'[s][i] # Other, chain'[s][i] \notin live'
             PROVE  \E j \in i + 1 .. Len(chain'[s]) : chain'[s][j] # Other /\ Covers(chain[s][j])'
  BY DEF WayBack
<1>3. s \notin dead  BY <1>2
<1>4. /\ Len(chain[s]) \in Nat /\ Len(chain'[s]) \in Nat /\ Len(chain'[s]) >= Len(chain[s])
      /\ \A k \in 1 .. Len(chain[s]) : chain'[s][k] = chain[s][k]
      /\ \A k \in Len(chain[s]) + 1 .. Len(chain'[s]) : chain'[s][k] = Other \/ chain'[s][k] \in live'
  BY <1>1, <1>3, ChainNext
<1>5. i \in 1 .. Len(chain[s]) /\ chain'[s][i] = chain[s][i]
  <2>1. i \notin Len(chain[s]) + 1 .. Len(chain'[s])  BY <1>4
  <2> QED  BY <1>4, <2>1
<1>6. ASSUME NEW k \in i .. Len(chain[s]), chain[s][k] \in live, chain[s][k] \notin live'
      PROVE  \E j \in i + 1 .. Len(chain'[s]) : chain'[s][j] # Other /\ Covers(chain[s][j])'
  <2>1. k \in 1 .. Len(chain[s])  BY <1>4, <1>5, <1>6
  <2>2. /\ chain' = chain
        /\ \E j \in k + 1 .. Len(chain[s]) : \E r \in Run : r = chain[s][j] /\ Covers(r)'
    BY <1>1, <1>3, <1>6, <2>1, RemovedCovered
  <2>3. PICK j \in k + 1 .. Len(chain[s]) : \E r \in Run : r = chain[s][j] /\ Covers(r)'  BY <2>2
  <2>4. PICK r \in Run : r = chain[s][j] /\ Covers(r)'  BY <2>3
  <2>5. j \in i + 1 .. Len(chain'[s]) /\ chain'[s][j] = r /\ r # Other  BY <1>4, <1>5, <2>1, <2>2, <2>3, <2>4 DEF Other, Run
  <2> QED  BY <2>4, <2>5 DEF Covers
<1>7. CASE chain[s][i] \in live
  BY <1>4, <1>5, <1>6, <1>7
<1>8. CASE chain[s][i] \notin live
  <2>1. \E j \in i + 1 .. Len(chain[s]) : chain[s][j] # Other /\ Covers(chain[s][j])
    BY <1>3, <1>5, <1>8 DEF WayBack
  <2>2. PICK j \in i + 1 .. Len(chain[s]) : chain[s][j] # Other /\ Covers(chain[s][j])  BY <2>1
  <2>3. j \in 1 .. Len(chain[s]) /\ j \in i .. Len(chain[s])  BY <1>4, <1>5, <2>2
  <2>4. chain[s][j] \in Run /\ chain[s][j] \in live
    BY <2>2, <2>3 DEF Kept, TypeOK, Covers
  <2>5. PICK r \in Run : r = chain[s][j] /\ r \in live /\ Covers(r)  BY <2>2, <2>4
  <2>6. CASE r \in live'
    <3>1. Covers(r)'  BY <1>1, <2>5, <2>6, CoversStays
    <3>2. chain'[s][j] = r /\ r # Other /\ j \in i + 1 .. Len(chain'[s])  BY <1>4, <2>2, <2>3, <2>5 DEF Other, Run
    <3> QED  BY <3>1, <3>2 DEF Covers
  <2>7. CASE r \notin live'
    BY <1>6, <2>3, <2>5, <2>7
  <2> QED  BY <2>6, <2>7
<1> QED  BY <1>7, <1>8

\* On the same condition there is a way back from every version of a backup that stands:
\* its vault, or that of a later version of this client's whose pieces are out.
THEOREM WayBackStays ==
  ASSUME Overtaking = FALSE
  PROVE  Spec => []WayBack
<1> DEFINE Inv == Kept /\ RevokedInv /\ LineInv /\ WayBack
<1>1. Init => WayBack  BY DEF Init, WayBack
<1>2. Init => Inv  BY <1>1, KeptInit, LineInit, RevokedInit
<1>3. Inv /\ [Next]_vars => Inv'
  BY KeptStep, RevokedStep, LineStep, WayBackStep DEF RevokedInv
<1>4. Inv => WayBack  OBVIOUS
<1> HIDE DEF Inv
<1> QED  BY <1>2, <1>3, <1>4, PTL DEF Spec
=============================================================================
