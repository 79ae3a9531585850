------------------------ MODULE StorageSlotProofs ------------------------
(***************************************************************************)
(* Theorems about StorageSlot for any edits, passes, devices and bounds,   *)
(* checked by TLAPS.                                                       *)
(***************************************************************************)
EXTENDS StorageSlot, FiniteSetTheorems, WellFoundedInduction, TLAPS

----------------------------------------------------------------------------
(* The least and the greatest of a set of numbers are its members. *)

LEMMA MinIsMember ==
    ASSUME NEW S \in SUBSET Nat, S # {}
    PROVE  Min(S) \in S /\ \A y \in S : Min(S) =< y
<1> DEFINE R == {ss \in Nat \X Nat : ss[1] < ss[2]}
<1>1. IsWellFoundedOn(R, Nat)
  BY NatLessThanWellFounded, Zenon DEF OpToRel
<1>2. PICK x \in S : \A y \in S : <<y, x>> \notin R
  BY <1>1, WFMin
<1>3. \A y \in S : x =< y
  <2> SUFFICES ASSUME NEW y \in S, y < x PROVE FALSE
    OBVIOUS
  <2>1. <<y, x>> \in R
    OBVIOUS
  <2> QED BY <1>2, <2>1
<1> QED BY <1>3 DEF Min

LEMMA MaxIsMember ==
    ASSUME NEW n \in Nat, NEW S \in SUBSET (0 .. n), S # {}
    PROVE  Max(S) \in S
<1> DEFINE D == {n - x : x \in S}
<1>1. D \in SUBSET Nat /\ D # {}
  <2>1. \A x \in S : x \in Nat /\ n - x \in Nat
    OBVIOUS
  <2> QED BY <2>1
<1>2. PICK d \in D : \A y \in D : d =< y
  <2>1. Min(D) \in D /\ \A y \in D : Min(D) =< y
    BY <1>1, MinIsMember
  <2> QED BY <2>1
<1>3. PICK x \in S : d = n - x
  BY <1>2
<1>4. \A y \in S : x >= y
  <2> TAKE y \in S
  <2>1. n - x =< n - y
    BY <1>2, <1>3
  <2> QED BY <2>1
<1> QED BY <1>3, <1>4 DEF Max

----------------------------------------------------------------------------
(* The inductive invariant: revisions descend from earlier ones and keep    *)
(* what those held, and every revision, intent and entry that a record or   *)
(* a call names is there. The names are never taken away: the three lists   *)
(* only grow, and a signed revision never changes.                          *)

Lineal(rs) ==
    \A r \in DOMAIN rs :
        /\ rs[r].parent \in 0 .. r - 1
        /\ rs[r].parent # 0 => rs[rs[r].parent].value \subseteq rs[r].value

Known(n, rs) ==
    /\ n \in Intent
    /\ n.kind = "signed" => n.row \in DOMAIN rs /\ rs[n.row].patch \subseteq Edit

Placed(o, is, rs, ks) ==
    /\ o \in Op
    /\ Known(o.copy, rs) /\ Known(o.read, rs)
    /\ o.base \in 0 .. Len(rs)
    /\ o.at \notin {"idle", "creating", "done"} => o.id \in DOMAIN is
    /\ o.at = "queueing" => o.row \in DOMAIN rs
    /\ o.at \in {"linking", "sending", "retrying"} =>
          o.entry \in DOMAIN ks /\ ks[o.entry].source = o.id
    /\ o.at = "retrying" => o.copy.attempts < MAX_CONFLICT_RECONCILE_ATTEMPTS
    /\ o.at \in {"resuming", "unmarking"} => o.copy.kind # "resolved"

SlotInv ==
    /\ TypeOK
    /\ Lineal(rows)
    /\ \A i \in DOMAIN intents : Known(intents[i], rows)
    /\ \A k \in DOMAIN outbox : outbox[k].row \in DOMAIN rows
    /\ \A p \in Proc : Placed(op[p], intents, rows, outbox)

Grows(rs, rsNew) == /\ Len(rs) =< Len(rsNew)
                    /\ \A r \in DOMAIN rs : rsNew[r] = rs[r]
Extends(ks, ksNew) == /\ Len(ks) =< Len(ksNew)
                      /\ \A k \in DOMAIN ks : ksNew[k].source = ks[k].source

LEMMA GrowsRefl ==
    ASSUME NEW T, NEW rs \in Seq(T)
    PROVE  Grows(rs, rs) /\ Extends(rs, rs)
BY DEF Grows, Extends

LEMMA StillKnown ==
    ASSUME NEW rs \in Seq(Row), NEW rsNew \in Seq(Row), Grows(rs, rsNew),
           NEW n, Known(n, rs)
    PROVE  Known(n, rsNew)
<1>1. DOMAIN rs \subseteq DOMAIN rsNew
  BY DEF Grows
<1> QED BY <1>1 DEF Known, Grows

LEMMA StillPlaced ==
    ASSUME NEW rs \in Seq(Row), NEW rsNew \in Seq(Row), Grows(rs, rsNew),
           NEW is \in Seq(Intent), NEW isNew \in Seq(Intent), Len(is) =< Len(isNew),
           NEW ks \in Seq(Entry), NEW ksNew \in Seq(Entry), Extends(ks, ksNew),
           NEW o, Placed(o, is, rs, ks)
    PROVE  Placed(o, isNew, rsNew, ksNew)
<1>1. /\ DOMAIN rs \subseteq DOMAIN rsNew
      /\ DOMAIN is \subseteq DOMAIN isNew
      /\ DOMAIN ks \subseteq DOMAIN ksNew
  BY DEF Grows, Extends
<1>2. Known(o.copy, rsNew) /\ Known(o.read, rsNew)
  BY StillKnown DEF Placed
<1>3. 0 .. Len(rs) \subseteq 0 .. Len(rsNew)
  BY DEF Grows
<1> QED BY <1>1, <1>2, <1>3 DEF Placed, Extends

\* What a step of the call p has to leave in order.
LEMMA CallStep ==
    ASSUME SlotInv, NEW p \in Proc, NEW o,
           op' = [op EXCEPT ![p] = o], Placed(o, intents', rows', outbox'),
           intents' \in Seq(Intent), Len(intents) =< Len(intents'),
           \A i \in DOMAIN intents' : Known(intents'[i], rows'),
           rows' \in Seq(Row), Grows(rows, rows'), Lineal(rows'),
           outbox' \in Seq(Entry), Extends(outbox, outbox'),
           \A k \in DOMAIN outbox' : outbox'[k].row \in DOMAIN rows',
           tip' \in 0 .. Len(rows'), shape' \in 0 .. tip',
           slotLock' \in Proc \union {NoProc}, saved' \subseteq Edit,
           stops' \in 0 .. MaxStops
    PROVE  SlotInv'
<1>1. \A q \in Proc : Placed(op[q], intents', rows', outbox')
  <2> TAKE q \in Proc
  <2>1. Placed(op[q], intents, rows, outbox)
    BY DEF SlotInv
  <2>2. intents \in Seq(Intent) /\ rows \in Seq(Row) /\ outbox \in Seq(Entry)
    BY DEF SlotInv, TypeOK
  <2> QED BY <2>1, <2>2, StillPlaced
<1>2. op \in [Proc -> Op] /\ o \in Op
  BY DEF SlotInv, TypeOK, Placed
<1>3. op' \in [Proc -> Op] /\ \A q \in Proc : op'[q] = IF q = p THEN o ELSE op[q]
  BY <1>2
<1>4. \A q \in Proc : Placed(op'[q], intents', rows', outbox')
  BY <1>1, <1>3
<1> QED BY <1>3, <1>4 DEF SlotInv, TypeOK

\* A step that changes no record.
LEMMA MoveStep ==
    ASSUME SlotInv, NEW p \in Proc, NEW o,
           op' = [op EXCEPT ![p] = o], Placed(o, intents, rows, outbox),
           UNCHANGED <<intents, rows, outbox, tip, shape>>,
           slotLock' \in Proc \union {NoProc}, saved' \subseteq Edit,
           stops' \in 0 .. MaxStops
    PROVE  SlotInv'
<1>1. /\ intents \in Seq(Intent) /\ rows \in Seq(Row) /\ outbox \in Seq(Entry)
      /\ tip \in 0 .. Len(rows) /\ shape \in 0 .. tip
  BY DEF SlotInv, TypeOK
<1>2. /\ Lineal(rows)
      /\ \A i \in DOMAIN intents : Known(intents[i], rows)
      /\ \A k \in DOMAIN outbox : outbox[k].row \in DOMAIN rows
  BY DEF SlotInv
<1>3. Grows(rows, rows) /\ Extends(outbox, outbox)
  BY <1>1, GrowsRefl
<1>4. Len(intents) =< Len(intents')
  BY <1>1
<1> QED BY <1>1, <1>2, <1>3, <1>4, CallStep

\* A step that stores one intent.
LEMMA StoreStep ==
    ASSUME SlotInv, NEW p \in Proc, NEW o,
           op' = [op EXCEPT ![p] = o], Placed(o, intents, rows, outbox),
           NEW i \in DOMAIN intents, NEW n, Known(n, rows),
           intents' = [intents EXCEPT ![i] = n],
           UNCHANGED <<rows, outbox, tip, shape>>,
           slotLock' \in Proc \union {NoProc}, saved' \subseteq Edit,
           stops' \in 0 .. MaxStops
    PROVE  SlotInv'
<1>1. /\ intents \in Seq(Intent) /\ rows \in Seq(Row) /\ outbox \in Seq(Entry)
      /\ tip \in 0 .. Len(rows) /\ shape \in 0 .. tip
  BY DEF SlotInv, TypeOK
<1>2. /\ Lineal(rows)
      /\ \A j \in DOMAIN intents : Known(intents[j], rows)
      /\ \A k \in DOMAIN outbox : outbox[k].row \in DOMAIN rows
  BY DEF SlotInv
<1>3. Grows(rows, rows) /\ Extends(outbox, outbox)
  BY <1>1, GrowsRefl
<1>4. n \in Intent
  BY DEF Known
<1>5. /\ intents' \in Seq(Intent) /\ Len(intents') = Len(intents)
      /\ DOMAIN intents' = DOMAIN intents
      /\ \A j \in DOMAIN intents : intents'[j] = IF j = i THEN n ELSE intents[j]
  BY <1>1, <1>4
<1>6. \A j \in DOMAIN intents' : Known(intents'[j], rows)
  BY <1>2, <1>5
<1>7. Placed(o, intents', rows, outbox)
  BY <1>5 DEF Placed
<1>8. Len(intents) =< Len(intents')
  BY <1>1, <1>5
<1> QED BY <1>1, <1>2, <1>3, <1>5, <1>6, <1>7, <1>8, CallStep

\* A step that adds an intent.
LEMMA AddStep ==
    ASSUME SlotInv, NEW p \in Proc, NEW o, NEW n, Known(n, rows),
           intents' = Append(intents, n),
           op' = [op EXCEPT ![p] = o], Placed(o, intents', rows, outbox),
           UNCHANGED <<rows, outbox, tip, shape>>,
           slotLock' \in Proc \union {NoProc}, saved' \subseteq Edit,
           stops' \in 0 .. MaxStops
    PROVE  SlotInv'
<1>1. /\ intents \in Seq(Intent) /\ rows \in Seq(Row) /\ outbox \in Seq(Entry)
      /\ tip \in 0 .. Len(rows) /\ shape \in 0 .. tip
  BY DEF SlotInv, TypeOK
<1>2. /\ Lineal(rows)
      /\ \A j \in DOMAIN intents : Known(intents[j], rows)
      /\ \A k \in DOMAIN outbox : outbox[k].row \in DOMAIN rows
  BY DEF SlotInv
<1>3. Grows(rows, rows) /\ Extends(outbox, outbox)
  BY <1>1, GrowsRefl
<1>4. n \in Intent
  BY DEF Known
<1>5. /\ intents' \in Seq(Intent) /\ Len(intents) =< Len(intents')
      /\ \A j \in DOMAIN intents' :
            intents'[j] = IF j \in DOMAIN intents THEN intents[j] ELSE n
  BY <1>1, <1>4
<1>6. \A j \in DOMAIN intents' : Known(intents'[j], rows)
  BY <1>2, <1>5
<1> QED BY <1>1, <1>2, <1>3, <1>5, <1>6, CallStep

----------------------------------------------------------------------------
(* The steps *)

LEMMA IdlePlaced ==
    ASSUME NEW is, NEW rs \in Seq(Row), NEW ks
    PROVE  /\ Placed(Idle, is, rs, ks)
           /\ Placed([Idle EXCEPT !.at = "done"], is, rs, ks)
<1>1. Known(Resolved, rs)
  BY SlotAssumption DEF Known, Resolved, Intent
<1>2. Idle \in Op /\ [Idle EXCEPT !.at = "done"] \in Op
  BY <1>1 DEF Idle, Op, Known
<1> QED BY <1>1, <1>2 DEF Placed, Idle, Resolved

\* How a call ends when it stores nothing.
LEMMA LeaveStep ==
    ASSUME SlotInv, NEW p \in Proc, Leave(p),
           UNCHANGED <<intents, rows, outbox, tip, shape>>,
           saved' \subseteq Edit, stops' \in 0 .. MaxStops
    PROVE  SlotInv'
<1> DEFINE o == IF p \in Edit THEN [Idle EXCEPT !.at = "done"] ELSE Idle
<1>1. Placed(o, intents, rows, outbox)
  BY IdlePlaced DEF SlotInv, TypeOK
<1>2. op' = [op EXCEPT ![p] = o] /\ slotLock' \in Proc \union {NoProc}
  BY DEF Leave, SlotInv, TypeOK
<1> HIDE DEF o
<1> QED BY <1>1, <1>2, MoveStep

\* How a call ends that stores one intent.
LEMMA LeaveStoring ==
    ASSUME SlotInv, NEW p \in Proc, Leave(p),
           NEW i \in DOMAIN intents, NEW n, Known(n, rows),
           intents' = [intents EXCEPT ![i] = n],
           UNCHANGED <<rows, outbox, tip, shape, saved, stops>>
    PROVE  SlotInv'
<1> DEFINE o == IF p \in Edit THEN [Idle EXCEPT !.at = "done"] ELSE Idle
<1>1. Placed(o, intents, rows, outbox)
  BY IdlePlaced DEF SlotInv, TypeOK
<1>2. op' = [op EXCEPT ![p] = o] /\ slotLock' \in Proc \union {NoProc}
  BY DEF Leave, SlotInv, TypeOK
<1>3. saved' \subseteq Edit /\ stops' \in 0 .. MaxStops
  BY DEF SlotInv, TypeOK
<1> HIDE DEF o
<1> QED BY <1>1, <1>2, <1>3, StoreStep

LEMMA ResolvedKnown ==
    ASSUME NEW rs PROVE Known(Resolved, rs)
BY SlotAssumption DEF Known, Resolved, Intent

LEMMA PayloadKnown ==
    ASSUME NEW rs, NEW patch \in SUBSET Edit,
           NEW attempts \in 0 .. MAX_CONFLICT_RECONCILE_ATTEMPTS
    PROVE  Known(Payload(patch, attempts), rs)
<1>1. Resolved \in Intent
  BY ResolvedKnown DEF Known
<1>2. Payload(patch, attempts) \in Intent /\ Payload(patch, attempts).kind = "storage"
  BY <1>1 DEF Payload, Intent
<1> QED BY <1>2 DEF Known

LEMMA EditStep ==
    ASSUME SlotInv, NEW e \in Edit, Call(e)
    PROVE  SlotInv'
<1> e \in Proc
  BY DEF Proc
<1>0. /\ op \in [Proc -> Op] /\ op[e] \in Op /\ Placed(op[e], intents, rows, outbox)
      /\ intents \in Seq(Intent) /\ slotLock \in Proc \union {NoProc}
      /\ saved \subseteq Edit /\ stops \in 0 .. MaxStops
      /\ \A i \in DOMAIN intents : Known(intents[i], rows)
  BY DEF SlotInv, TypeOK
<1>1. CASE FindNone(e)
  <2> DEFINE o == [op[e] EXCEPT !.at = "creating"]
  <2>1. Placed(o, intents, rows, outbox)
    BY <1>0 DEF Placed, Op
  <2>2. op' = [op EXCEPT ![e] = o]
    BY <1>0, <1>1 DEF FindNone, Goes
  <2> HIDE DEF o
  <2> QED BY <1>0, <1>1, <2>1, <2>2, MoveStep DEF FindNone
<1>2. CASE Find(e)
  <2> DEFINE open == {i \in DOMAIN intents : intents[i].kind = "storage"}
             n == [intents[Min(open)] EXCEPT !.patch = @ \union {e}]
             o == [op[e] EXCEPT !.at = "merging", !.id = Min(open), !.copy = n]
  <2>1. Min(open) \in open
    <3>1. open \in SUBSET Nat
      BY <1>0
    <3>2. open # {}
      BY <1>2 DEF Find
    <3> HIDE DEF open
    <3> QED BY <3>1, <3>2, MinIsMember
  <2>2. Known(n, rows)
    BY <1>0, <2>1 DEF Known, Intent
  <2>3. op' = [op EXCEPT ![e] = o]
    BY <1>0, <1>2 DEF Find
  <2>4. Min(open) \in DOMAIN intents /\ Min(open) \in Nat
    BY <1>0, <2>1
  <2> HIDE DEF n, open
  <2>5. Placed(o, intents, rows, outbox)
    BY <1>0, <2>2, <2>4 DEF Placed, Op, Known
  <2> HIDE DEF o
  <2> QED BY <1>0, <1>2, <2>3, <2>5, MoveStep DEF Find
<1>3. CASE Create(e)
  <2> DEFINE n == Payload({e}, 0)
             o == [op[e] EXCEPT !.at = "stored", !.id = Len(intents) + 1]
  <2>1. Known(n, rows)
    BY SlotAssumption, PayloadKnown
  <2>2. op' = [op EXCEPT ![e] = o] /\ intents' = Append(intents, n)
    BY <1>0, <1>3 DEF Create
  <2>3. Len(intents) + 1 \in DOMAIN intents' /\ Len(intents) + 1 \in Nat
    BY <1>0, <1>3 DEF Create
  <2>4. Placed(o, intents', rows, outbox)
    BY <1>0, <2>3 DEF Placed, Op
  <2> HIDE DEF n, o
  <2> QED BY <1>0, <1>3, <2>1, <2>2, <2>4, AddStep DEF Create
<1>4. CASE Merge(e)
  <2>1. CASE intents[op[e].id].kind = "resolved"
    BY <1>0, <1>4, <2>1, LeaveStep DEF Merge
  <2>2. CASE intents[op[e].id].kind # "resolved"
    <3> DEFINE o == [op[e] EXCEPT !.at = "storing"]
    <3>1. Placed(o, intents, rows, outbox)
      BY <1>0, <1>4 DEF Merge, Placed, Op
    <3>2. op' = [op EXCEPT ![e] = o]
      BY <1>0, <1>4, <2>2 DEF Merge, Goes
    <3> HIDE DEF o
    <3> QED BY <1>0, <1>4, <2>2, <3>1, <3>2, MoveStep DEF Merge
  <2> QED BY <2>1, <2>2
<1>5. CASE Store(e)
  <2> DEFINE n == [op[e].copy EXCEPT !.awaiting = FALSE]
             o == [op[e] EXCEPT !.at = "stored"]
  <2>1. Known(n, rows)
    BY <1>0 DEF Placed, Known, Intent
  <2>2. op' = [op EXCEPT ![e] = o] /\ intents' = [intents EXCEPT ![op[e].id] = n]
    BY <1>0, <1>5 DEF Store, Goes
  <2>3. Placed(o, intents, rows, outbox) /\ op[e].id \in DOMAIN intents
    BY <1>0, <1>5 DEF Store, Placed, Op
  <2> HIDE DEF n, o
  <2> QED BY <1>0, <1>5, <2>1, <2>2, <2>3, StoreStep DEF Store
<1>6. CASE NoKey(e)
  BY <1>0, <1>6, LeaveStep DEF NoKey
<1> QED BY <1>1, <1>2, <1>3, <1>4, <1>5, <1>6 DEF Call

\* What a draft may build on is a revision there is.
LEMMA BasesThere ==
    ASSUME SlotInv, NEW excl, NEW base \in Bases(excl)
    PROVE  base \in 0 .. Len(rows)
<1>1. Len(rows) \in Nat /\ DOMAIN rows = 1 .. Len(rows) /\ shape \in 0 .. Len(rows)
  BY DEF SlotInv, TypeOK
<1>2. Trusted(excl) \subseteq 1 .. Len(rows)
  <2>1. \A k \in DOMAIN outbox : outbox[k].row \in 1 .. Len(rows)
    BY <1>1 DEF SlotInv
  <2>2. \A i \in DOMAIN intents :
           intents[i].kind = "signed" => intents[i].row \in 1 .. Len(rows)
    BY <1>1 DEF SlotInv, Known
  <2> QED BY <2>1, <2>2 DEF Trusted
<1>3. /\ Trusted(excl) \in SUBSET (0 .. Len(rows))
      /\ Trusted(excl) \union {shape} \in SUBSET (0 .. Len(rows))
      /\ Trusted(excl) \union {shape} # {}
  BY <1>1, <1>2
<1>4. Max(Trusted(excl) \union {shape}) \in 0 .. Len(rows)
  <2>1. Max(Trusted(excl) \union {shape}) \in Trusted(excl) \union {shape}
    BY <1>1, <1>3, MaxIsMember
  <2> QED BY <1>3, <2>1
<1>5. Trusted(excl) # {} => Max(Trusted(excl)) \in 0 .. Len(rows)
  <2>1. Trusted(excl) # {} => Max(Trusted(excl)) \in Trusted(excl)
    BY <1>1, <1>3, MaxIsMember
  <2> QED BY <1>3, <2>1
<1> QED BY <1>4, <1>5 DEF Bases

\* A new revision on a base that is there.
LEMMA NewRow ==
    ASSUME NEW rs \in Seq(Row), Lineal(rs), NEW parent \in 0 .. Len(rs),
           NEW patch \in SUBSET (Edit \union Foreign), NEW row,
           row = [patch |-> patch, parent |-> parent,
                  value |-> (IF parent = 0 THEN {} ELSE rs[parent].value) \union patch]
    PROVE  /\ Append(rs, row) \in Seq(Row)
           /\ Grows(rs, Append(rs, row))
           /\ Lineal(Append(rs, row))
           /\ Append(rs, row)[Len(rs) + 1] = row
           /\ Len(Append(rs, row)) = Len(rs) + 1
<1>1. (IF parent = 0 THEN {} ELSE rs[parent].value) \subseteq Edit \union Foreign
  <2>1. parent # 0 => rs[parent] \in Row
    OBVIOUS
  <2> QED BY <2>1 DEF Row
<1>2. row \in Row
  BY <1>1 DEF Row
<1> DEFINE new == Append(rs, row)
<1>3. /\ new \in Seq(Row) /\ Len(new) = Len(rs) + 1 /\ new[Len(rs) + 1] = row
      /\ DOMAIN new = 1 .. Len(rs) + 1
      /\ \A r \in DOMAIN rs : new[r] = rs[r]
  BY <1>2
<1>4. Grows(rs, new)
  BY <1>3 DEF Grows
<1>5. Lineal(new)
  <2> SUFFICES ASSUME NEW r \in DOMAIN new
               PROVE  /\ new[r].parent \in 0 .. r - 1
                      /\ new[r].parent # 0 => new[new[r].parent].value \subseteq new[r].value
    BY DEF Lineal
  <2>1. CASE r \in DOMAIN rs
    <3>1. /\ rs[r].parent \in 0 .. r - 1
          /\ rs[r].parent # 0 => rs[rs[r].parent].value \subseteq rs[r].value
      BY <2>1 DEF Lineal
    <3>2. rs[r].parent # 0 => rs[r].parent \in DOMAIN rs
      BY <2>1, <3>1
    <3> HIDE DEF new
    <3> QED BY <1>3, <2>1, <3>1, <3>2
  <2>2. CASE r = Len(rs) + 1
    <3>1. /\ row.parent = parent
          /\ row.value = (IF parent = 0 THEN {} ELSE rs[parent].value) \union patch
      OBVIOUS
    <3>2. parent # 0 => parent \in DOMAIN rs
      OBVIOUS
    <3> HIDE DEF new
    <3> QED BY <1>3, <2>2, <3>1, <3>2
  <2>3. r \in 1 .. Len(rs) + 1
    BY <1>3
  <2> HIDE DEF new
  <2> QED BY <2>1, <2>2, <2>3
<1> QED BY <1>3, <1>4, <1>5

LEMMA SignStep ==
    ASSUME SlotInv, NEW p \in Proc, Sign(p)
    PROVE  SlotInv'
<1>0. /\ op \in [Proc -> Op] /\ op[p] \in Op /\ Placed(op[p], intents, rows, outbox)
      /\ intents \in Seq(Intent) /\ rows \in Seq(Row) /\ outbox \in Seq(Entry)
      /\ Lineal(rows) /\ tip \in 0 .. Len(rows) /\ shape \in 0 .. tip
      /\ slotLock \in Proc \union {NoProc} /\ saved \subseteq Edit
      /\ stops \in 0 .. MaxStops
      /\ \A i \in DOMAIN intents : Known(intents[i], rows)
      /\ \A k \in DOMAIN outbox : outbox[k].row \in DOMAIN rows
  BY DEF SlotInv, TypeOK
<1> DEFINE r == Len(rows) + 1
           row == [patch |-> op[p].copy.patch, parent |-> op[p].base,
                   value |-> Value(op[p].base) \union op[p].copy.patch]
           n == [Resolved EXCEPT !.kind = "signed", !.row = r]
           o == [op[p] EXCEPT !.at = "queueing", !.row = r]
<1>1. /\ op[p].base \in 0 .. Len(rows) /\ op[p].copy.patch \in SUBSET Edit
      /\ op[p].id \in DOMAIN intents
  BY <1>0 DEF Sign, Placed, Known, Intent
<1>2. rows' = Append(rows, row)
  BY DEF Sign
<1>3. /\ rows' \in Seq(Row) /\ Grows(rows, rows') /\ Lineal(rows')
      /\ rows'[r] = row /\ Len(rows') = r
  <2>1. op[p].copy.patch \in SUBSET (Edit \union Foreign)
    BY <1>1
  <2>2. row = [patch |-> op[p].copy.patch, parent |-> op[p].base,
               value |-> (IF op[p].base = 0 THEN {} ELSE rows[op[p].base].value)
                            \union op[p].copy.patch]
    BY DEF Value
  <2> DEFINE patch == op[p].copy.patch
             base == op[p].base
  <2>3. /\ patch \in SUBSET (Edit \union Foreign) /\ base \in 0 .. Len(rows)
        /\ row = [patch |-> patch, parent |-> base,
                  value |-> (IF base = 0 THEN {} ELSE rows[base].value) \union patch]
    BY <1>1, <2>1, <2>2
  <2> HIDE DEF row, patch, base
  <2>4. /\ Append(rows, row) \in Seq(Row)
        /\ Grows(rows, Append(rows, row))
        /\ Lineal(Append(rows, row))
        /\ Append(rows, row)[Len(rows) + 1] = row
        /\ Len(Append(rows, row)) = Len(rows) + 1
    <3>1. rows \in Seq(Row) /\ Lineal(rows)
      BY <1>0
    <3> QED BY <2>3, <3>1, NewRow
  <2> QED BY <1>2, <2>4
<1>4. r \in DOMAIN rows' /\ rows'[r].patch \subseteq Edit /\ r \in Nat
  BY <1>0, <1>1, <1>3
<1>5. Known(n, rows')
  <2>1. Resolved \in Intent
    BY ResolvedKnown DEF Known
  <2>2. n \in Intent /\ n.row = r
    BY <1>4, <2>1 DEF Intent
  <2> HIDE DEF n, r
  <2> QED BY <1>4, <2>2 DEF Known
<1>6. op' = [op EXCEPT ![p] = o] /\ intents' = [intents EXCEPT ![op[p].id] = n]
  BY <1>0 DEF Sign
<1> HIDE DEF n, row
<1>7. /\ intents' \in Seq(Intent) /\ Len(intents') = Len(intents)
      /\ DOMAIN intents' = DOMAIN intents
      /\ \A j \in DOMAIN intents : intents'[j] = IF j = op[p].id THEN n ELSE intents[j]
  <2>1. n \in Intent
    BY <1>5 DEF Known
  <2> QED BY <1>0, <1>1, <1>6, <2>1
<1>8. \A j \in DOMAIN intents' : Known(intents'[j], rows')
  <2> TAKE j \in DOMAIN intents'
  <2>1. Known(intents[j], rows')
    BY <1>0, <1>3, <1>7, StillKnown
  <2> QED BY <1>5, <1>7, <2>1
<1>9. Placed(o, intents', rows', outbox')
  <2>1. outbox' = outbox
    BY DEF Sign
  <2>2. Extends(outbox, outbox)
    BY <1>0, GrowsRefl
  <2>3. Len(intents) =< Len(intents')
    BY <1>0, <1>7
  <2>4. Placed(op[p], intents', rows', outbox')
    BY <1>0, <1>3, <1>7, <2>1, <2>2, <2>3, StillPlaced
  <2> HIDE DEF r
  <2>5. o \in Op /\ o.at = "queueing" /\ o.row = r
    BY <1>0, <1>4 DEF Op
  <2>6. o.copy = op[p].copy /\ o.read = op[p].read /\ o.base = op[p].base /\ o.id = op[p].id
    BY <1>0 DEF Op
  <2> HIDE DEF o
  <2> QED BY <1>1, <1>4, <1>7, <2>4, <2>5, <2>6 DEF Placed
<1> HIDE DEF o
<1>10. /\ outbox' = outbox /\ tip' = tip /\ shape' = shape /\ slotLock' = slotLock
       /\ saved' = saved /\ stops' = stops
  BY DEF Sign
<1>11. \A k \in DOMAIN outbox' : outbox'[k].row \in DOMAIN rows'
  <2>1. DOMAIN rows \subseteq DOMAIN rows'
    BY <1>0, <1>3 DEF Grows
  <2> QED BY <1>0, <1>10, <2>1
<1>12. Extends(outbox, outbox') /\ Len(intents) =< Len(intents') /\ tip' \in 0 .. Len(rows')
  BY <1>0, <1>3, <1>7, <1>10, GrowsRefl
<1> QED BY <1>0, <1>3, <1>6, <1>7, <1>8, <1>9, <1>10, <1>11, <1>12, CallStep

\* What the invariant says of one call and its surroundings.
LEMMA InvAt ==
    ASSUME SlotInv, NEW p \in Proc
    PROVE  /\ op \in [Proc -> Op] /\ op[p] \in Op
           /\ Placed(op[p], intents, rows, outbox)
           /\ intents \in Seq(Intent) /\ rows \in Seq(Row) /\ outbox \in Seq(Entry)
           /\ Lineal(rows) /\ tip \in 0 .. Len(rows) /\ shape \in 0 .. tip
           /\ slotLock \in Proc \union {NoProc} /\ saved \subseteq Edit
           /\ stops \in 0 .. MaxStops
           /\ \A i \in DOMAIN intents : Known(intents[i], rows)
           /\ \A k \in DOMAIN outbox : outbox[k].row \in DOMAIN rows
BY DEF SlotInv, TypeOK

LEMMA EnqueueStep ==
    ASSUME SlotInv, NEW p \in Proc, Enqueue(p)
    PROVE  SlotInv'
<1>0. /\ op \in [Proc -> Op] /\ op[p] \in Op
      /\ Placed(op[p], intents, rows, outbox)
      /\ intents \in Seq(Intent) /\ rows \in Seq(Row) /\ outbox \in Seq(Entry)
      /\ Lineal(rows) /\ tip \in 0 .. Len(rows) /\ shape \in 0 .. tip
      /\ slotLock \in Proc \union {NoProc} /\ saved \subseteq Edit
      /\ stops \in 0 .. MaxStops
      /\ \A i \in DOMAIN intents : Known(intents[i], rows)
      /\ \A k \in DOMAIN outbox : outbox[k].row \in DOMAIN rows
  BY InvAt
<1> DEFINE entry == [row |-> op[p].row, source |-> op[p].id,
                     deps |-> Dependencies(op[p].excl), status |-> "queued"]
           o == [op[p] EXCEPT !.at = "linking", !.entry = Len(outbox) + 1]
<1>1. op[p].row \in DOMAIN rows /\ op[p].row \in Nat /\ op[p].id \in Nat
  BY <1>0 DEF Enqueue, Placed, Op
<1>2. entry \in Entry /\ entry.row = op[p].row /\ entry.source = op[p].id
  <2>1. Dependencies(op[p].excl) \subseteq Nat
    BY <1>0 DEF Dependencies
  <2> QED BY <1>1, <2>1 DEF Entry
<1>3. /\ outbox' = Append(outbox, entry) /\ op' = [op EXCEPT ![p] = o]
      /\ UNCHANGED <<intents, rows, tip, shape, slotLock, saved, stops>>
  BY <1>0 DEF Enqueue
<1> HIDE DEF entry
<1>4. /\ outbox' \in Seq(Entry) /\ Len(outbox') = Len(outbox) + 1
      /\ \A k \in DOMAIN outbox : outbox'[k] = outbox[k]
      /\ outbox'[Len(outbox) + 1] = entry
  BY <1>0, <1>2, <1>3
<1>5. \A k \in DOMAIN outbox' : outbox'[k].row \in DOMAIN rows'
  <2> TAKE k \in DOMAIN outbox'
  <2>1. k \in DOMAIN outbox \/ k = Len(outbox) + 1
    BY <1>0, <1>4
  <2> QED BY <1>0, <1>1, <1>2, <1>3, <1>4, <2>1
<1>6. Extends(outbox, outbox')
  BY <1>0, <1>4 DEF Extends
<1>7. Placed(o, intents', rows', outbox')
  <2>1. Len(outbox) + 1 \in Nat /\ Len(outbox) + 1 \in DOMAIN outbox'
    BY <1>0, <1>4
  <2> QED BY <1>0, <1>2, <1>3, <1>4, <2>1 DEF Enqueue, Placed, Op
<1> HIDE DEF o
<1>8. Grows(rows, rows') /\ Len(intents) =< Len(intents')
  BY <1>0, <1>3, GrowsRefl
<1> QED BY <1>0, <1>3, <1>4, <1>5, <1>6, <1>7, <1>8, CallStep

LEMMA RetryStep ==
    ASSUME SlotInv, NEW p \in Proc, Retry(p)
    PROVE  SlotInv'
<1>0. /\ op \in [Proc -> Op] /\ op[p] \in Op
      /\ Placed(op[p], intents, rows, outbox)
      /\ intents \in Seq(Intent) /\ outbox \in Seq(Entry)
      /\ slotLock \in Proc \union {NoProc} /\ saved \subseteq Edit
      /\ stops \in 0 .. MaxStops
  BY InvAt
<1> DEFINE n == Payload(op[p].copy.patch, op[p].copy.attempts + 1)
           first == Min(EntriesOf(op[p].id))
           o == [op[p] EXCEPT !.at = "stored", !.id = Len(intents) + 1,
                              !.excl = @ \union {first}]
<1>1. Known(n, rows)
  <2>1. /\ op[p].copy.patch \in SUBSET Edit
        /\ op[p].copy.attempts + 1 \in 0 .. MAX_CONFLICT_RECONCILE_ATTEMPTS
    <3>1. /\ op[p].copy \in Intent
          /\ op[p].copy.attempts < MAX_CONFLICT_RECONCILE_ATTEMPTS
      BY <1>0 DEF Retry, Placed, Known
    <3>2. /\ op[p].copy.patch \in SUBSET Edit
          /\ op[p].copy.attempts \in 0 .. MAX_CONFLICT_RECONCILE_ATTEMPTS
      BY <3>1 DEF Intent
    <3> QED BY <3>1, <3>2, SlotAssumption
  <2> QED BY <2>1, PayloadKnown
<1>2. first \in Nat
  <2>1. EntriesOf(op[p].id) \in SUBSET Nat
    BY <1>0 DEF EntriesOf
  <2>2. EntriesOf(op[p].id) # {}
    BY <1>0 DEF EntriesOf, Retry, Placed
  <2> QED BY <2>1, <2>2, MinIsMember
<1>3. /\ op' = [op EXCEPT ![p] = o] /\ intents' = Append(intents, n)
      /\ UNCHANGED <<rows, outbox, tip, shape, slotLock, saved, stops>>
  BY <1>0 DEF Retry
<1>4. Len(intents) + 1 \in DOMAIN intents' /\ Len(intents) + 1 \in Nat
  BY <1>0, <1>3
<1> HIDE DEF n, first
<1>5. Placed(o, intents', rows, outbox)
  BY <1>0, <1>2, <1>4 DEF Placed, Op
<1> HIDE DEF o
<1> QED BY <1>0, <1>1, <1>3, <1>5, AddStep

LEMMA SignerStep ==
    ASSUME SlotInv, NEW p \in Proc, Signer(p)
    PROVE  SlotInv'
<1>0. /\ op \in [Proc -> Op] /\ op[p] \in Op
      /\ Placed(op[p], intents, rows, outbox)
      /\ intents \in Seq(Intent) /\ rows \in Seq(Row) /\ outbox \in Seq(Entry)
      /\ slotLock \in Proc \union {NoProc} /\ saved \subseteq Edit
      /\ stops \in 0 .. MaxStops
      /\ \A i \in DOMAIN intents : Known(intents[i], rows)
  BY InvAt
<1>1. CASE AlreadyClaimed(p)
  BY <1>0, <1>1, LeaveStep DEF AlreadyClaimed
<1>2. CASE Claim(p)
  <2> DEFINE o == [op[p] EXCEPT !.at = "building", !.copy = intents[op[p].id]]
  <2>1. op[p].id \in DOMAIN intents
    BY <1>0, <1>2 DEF Claim, Placed
  <2>2. Known(intents[op[p].id], rows) /\ intents[op[p].id] \in Intent
    BY <1>0, <2>1
  <2>3. Placed(o, intents, rows, outbox)
    BY <1>0, <2>1, <2>2 DEF Placed, Op
  <2>4. op' = [op EXCEPT ![p] = o]
    BY <1>0, <1>2 DEF Claim
  <2> HIDE DEF o
  <2> QED BY <1>0, <1>2, <2>3, <2>4, MoveStep DEF Claim
<1>3. CASE BaseUnavailable(p)
  BY <1>0, <1>3, LeaveStep DEF BaseUnavailable
<1>4. CASE Build(p)
  <2>1. PICK base \in Bases(op[p].excl) :
           op' = [op EXCEPT ![p].at = "signing", ![p].base = base]
    BY <1>4 DEF Build
  <2> DEFINE o == [op[p] EXCEPT !.at = "signing", !.base = base]
  <2>2. base \in 0 .. Len(rows)
    BY BasesThere
  <2>3. Placed(o, intents, rows, outbox)
    <3>1. base \in Nat
      BY <1>0, <2>2
    <3> QED BY <1>0, <1>4, <2>2, <3>1 DEF Build, Placed, Op
  <2>4. op' = [op EXCEPT ![p] = o]
    BY <1>0, <2>1
  <2> HIDE DEF o
  <2> QED BY <1>0, <1>4, <2>3, <2>4, MoveStep DEF Build
<1>5. CASE SignedBefore(p)
  <2>1. op[p].id \in DOMAIN intents
    BY <1>0, <1>5 DEF SignedBefore, Placed
  <2> QED BY <1>5, <2>1, ResolvedKnown, LeaveStoring DEF SignedBefore
<1>6. CASE Replay(p)
  <2> DEFINE o == [op[p] EXCEPT !.at = "queueing", !.row = intents[op[p].id].row]
  <2>1. op[p].id \in DOMAIN intents
    BY <1>0, <1>6 DEF Replay, Placed
  <2>2. intents[op[p].id].row \in DOMAIN rows
    BY <1>0, <1>6, <2>1 DEF Replay, Known
  <2>3. Placed(o, intents, rows, outbox)
    <3>1. intents[op[p].id].row \in Nat
      BY <1>0, <2>2
    <3> QED BY <1>0, <2>1, <2>2, <3>1 DEF Placed, Op
  <2>4. op' = [op EXCEPT ![p] = o]
    BY <1>0, <1>6 DEF Replay
  <2> HIDE DEF o
  <2> QED BY <1>0, <1>6, <2>3, <2>4, MoveStep DEF Replay
<1>7. CASE Sign(p)
  BY <1>7, SignStep
<1>8. CASE Enqueue(p)
  BY <1>8, EnqueueStep
<1>9. CASE Link(p)
  <2> DEFINE o == [op[p] EXCEPT !.at = "sending"]
  <2>1. Placed(o, intents, rows, outbox) /\ op[p].id \in DOMAIN intents
    BY <1>0, <1>9 DEF Link, Placed, Op
  <2>2. op' = [op EXCEPT ![p] = o] /\ slotLock' \in Proc \union {NoProc}
    BY <1>0, <1>9 DEF Link, Goes
  <2> HIDE DEF o
  <2> QED BY <1>0, <1>9, <2>1, <2>2, ResolvedKnown, StoreStep DEF Link
<1>10. CASE Settle(p)
  BY <1>0, <1>10, LeaveStep DEF Settle
<1>11. CASE Conflict(p)
  <2> DEFINE o == [op[p] EXCEPT !.at = "retrying"]
  <2>1. Placed(o, intents, rows, outbox)
    BY <1>0, <1>11 DEF Conflict, Reconciles, Placed, Op
  <2>2. op' = [op EXCEPT ![p] = o]
    BY <1>0, <1>11 DEF Conflict, Goes
  <2> HIDE DEF o
  <2> QED BY <1>0, <1>11, <2>1, <2>2, MoveStep DEF Conflict
<1>12. CASE Retry(p)
  BY <1>12, RetryStep
<1> QED BY <1>1, <1>2, <1>3, <1>4, <1>5, <1>6, <1>7, <1>8, <1>9, <1>10, <1>11, <1>12
        DEF Signer

\* What recovery goes on with: a payload as it is, a signed row as it was.
LEMMA ProceedPlaced ==
    ASSUME SlotInv, NEW p \in Proc, Proceed(p), op[p].at \in {"resuming", "unmarking"}
    PROVE  \E o : op' = [op EXCEPT ![p] = o] /\ Placed(o, intents, rows, outbox)
<1>0. /\ op \in [Proc -> Op] /\ op[p] \in Op
      /\ Placed(op[p], intents, rows, outbox) /\ rows \in Seq(Row) /\ Lineal(rows)
  BY InvAt
<1>1. Known(Resolved, rows) /\ Resolved \in Intent
  BY ResolvedKnown DEF Known
<1>2. CASE op[p].copy.kind = "storage"
  <2> DEFINE o == [op[p] EXCEPT !.at = "stored", !.read = Resolved]
  <2>1. Placed(o, intents, rows, outbox)
    BY <1>0, <1>1 DEF Placed, Op
  <2>2. op' = [op EXCEPT ![p] = o]
    BY <1>0, <1>2 DEF Proceed
  <2> QED BY <2>1, <2>2
<1>3. CASE op[p].copy.kind # "storage"
  <2> DEFINE r == op[p].copy.row
             copy == [op[p].copy EXCEPT !.patch = rows[r].patch]
             o == [op[p] EXCEPT !.at = "signing", !.read = Resolved,
                                !.copy = copy, !.base = rows[r].parent]
  <2>1. op[p].copy \in Intent /\ op[p].copy.kind = "signed"
    BY <1>0, <1>3 DEF Placed, Known, Intent
  <2>2. r \in DOMAIN rows /\ rows[r].patch \subseteq Edit
    BY <1>0, <2>1 DEF Placed, Known
  <2>3. rows[r].parent \in 0 .. Len(rows) /\ rows[r].parent \in Nat
    <3>1. rows[r].parent \in 0 .. r - 1
      BY <1>0, <2>2 DEF Lineal
    <3> QED BY <1>0, <2>2, <3>1
  <2>4. copy \in Intent /\ copy.row = r
    BY <2>1, <2>2 DEF Intent
  <2>5. op' = [op EXCEPT ![p] = o]
    BY <1>0, <1>3, <2>1 DEF Proceed, Op
  <2> HIDE DEF copy, r
  <2>6. Known(copy, rows)
    BY <2>2, <2>4 DEF Known
  <2>7. Placed(o, intents, rows, outbox)
    BY <1>0, <1>1, <2>3, <2>4, <2>6 DEF Placed, Op
  <2> QED BY <2>5, <2>7
<1> QED BY <1>2, <1>3

LEMMA RecoverStep ==
    ASSUME SlotInv, NEW p \in Pass, Recover(p)
    PROVE  SlotInv'
<1> p \in Proc
  BY DEF Proc
<1>0. /\ op \in [Proc -> Op] /\ op[p] \in Op
      /\ Placed(op[p], intents, rows, outbox)
      /\ intents \in Seq(Intent)
      /\ slotLock \in Proc \union {NoProc} /\ saved \subseteq Edit
      /\ stops \in 0 .. MaxStops
      /\ \A i \in DOMAIN intents : Known(intents[i], rows)
  BY InvAt
<1> DEFINE id == op[p].id
           reading(stage) == [op[p] EXCEPT !.at = stage, !.read = intents[id]]
<1>1. ASSUME op[p].at = "resuming"
      PROVE  /\ id \in DOMAIN intents
             /\ Placed(reading("marking"), intents, rows, outbox)
             /\ Placed(reading("unmarking"), intents, rows, outbox)
  <2>1. id \in DOMAIN intents
    BY <1>0, <1>1 DEF Placed
  <2>2. Known(intents[id], rows) /\ intents[id] \in Intent
    BY <1>0, <2>1
  <2> QED BY <1>0, <1>1, <2>1, <2>2 DEF Placed, Op
<1>2. CASE AwaitUnlock(p)
  <2>1. CASE Leave(p)
    BY <1>0, <1>2, <2>1, LeaveStep DEF AwaitUnlock
  <2>2. CASE op' = [op EXCEPT ![p].at = "marking", ![p].read = intents[id]] /\ UNCHANGED slotLock
    <3>1. op' = [op EXCEPT ![p] = reading("marking")]
      BY <1>0, <2>2
    <3>2. Placed(reading("marking"), intents, rows, outbox)
      BY <1>1, <1>2 DEF AwaitUnlock
    <3> HIDE DEF reading
    <3> QED BY <1>0, <1>2, <2>2, <3>1, <3>2, MoveStep DEF AwaitUnlock
  <2> QED BY <1>2, <2>1, <2>2 DEF AwaitUnlock
<1>3. CASE Mark(p)
  <2> DEFINE n == [op[p].read EXCEPT !.awaiting = TRUE]
  <2>1. Known(n, rows) /\ id \in DOMAIN intents
    BY <1>0, <1>3 DEF Mark, Placed, Known, Intent
  <2> QED BY <1>3, <2>1, LeaveStoring DEF Mark
<1>4. CASE Resume(p)
  <2>1. CASE Leave(p)
    BY <1>0, <1>4, <2>1, LeaveStep DEF Resume
  <2>2. CASE Proceed(p) /\ UNCHANGED slotLock
    <3>1. PICK o : op' = [op EXCEPT ![p] = o] /\ Placed(o, intents, rows, outbox)
      BY <1>4, <2>2, ProceedPlaced DEF Resume
    <3> QED BY <1>0, <1>4, <2>2, <3>1, MoveStep DEF Resume
  <2>3. CASE op' = [op EXCEPT ![p].at = "unmarking", ![p].read = intents[id]] /\ UNCHANGED slotLock
    <3>1. op' = [op EXCEPT ![p] = reading("unmarking")]
      BY <1>0, <2>3
    <3>2. Placed(reading("unmarking"), intents, rows, outbox)
      BY <1>1, <1>4 DEF Resume
    <3> HIDE DEF reading
    <3> QED BY <1>0, <1>4, <2>3, <3>1, <3>2, MoveStep DEF Resume
  <2> QED BY <1>4, <2>1, <2>2, <2>3 DEF Resume
<1>5. CASE Unmark(p)
  <2> DEFINE n == [op[p].read EXCEPT !.awaiting = FALSE]
  <2>1. Known(n, rows) /\ id \in DOMAIN intents
    BY <1>0, <1>5 DEF Unmark, Placed, Known, Intent
  <2>2. PICK o : op' = [op EXCEPT ![p] = o] /\ Placed(o, intents, rows, outbox)
    BY <1>5, ProceedPlaced DEF Unmark
  <2>3. intents' = [intents EXCEPT ![id] = n]
    BY <1>5 DEF Unmark
  <2> HIDE DEF n, id
  <2> QED BY <1>0, <1>5, <2>1, <2>2, <2>3, StoreStep DEF Unmark
<1> QED BY <1>2, <1>3, <1>4, <1>5 DEF Recover

LEMMA ScanStep ==
    ASSUME SlotInv, NEW p \in Pass, NEW i \in DOMAIN intents, Scan(p, i)
    PROVE  SlotInv'
<1> p \in Proc
  BY DEF Proc
<1>0. /\ op \in [Proc -> Op] /\ op[p] \in Op
      /\ Placed(op[p], intents, rows, outbox)
      /\ intents \in Seq(Intent)
      /\ slotLock \in Proc \union {NoProc} /\ saved \subseteq Edit
      /\ stops \in 0 .. MaxStops
      /\ \A j \in DOMAIN intents : Known(intents[j], rows)
  BY InvAt
<1> DEFINE o == [op[p] EXCEPT !.at = "resuming", !.id = i, !.copy = intents[i]]
<1>1. Known(intents[i], rows) /\ intents[i] \in Intent /\ i \in Nat
  BY <1>0
<1>2. Placed(o, intents, rows, outbox)
  BY <1>0, <1>1 DEF Scan, Placed, Op
<1>3. op' = [op EXCEPT ![p] = o]
  BY <1>0 DEF Scan
<1> HIDE DEF o
<1> QED BY <1>0, <1>2, <1>3, MoveStep DEF Scan

LEMMA StopStep ==
    ASSUME SlotInv, NEW p \in Proc, Stop(p)
    PROVE  SlotInv'
<1>1. stops \in 0 .. MaxStops /\ saved \subseteq Edit
  BY InvAt
<1>2. stops' \in 0 .. MaxStops
  BY <1>1, SlotAssumption DEF Stop
<1> QED BY <1>1, <1>2, LeaveStep DEF Stop

\* What a step outside the calls has to leave in order.
LEMMA WorldStep ==
    ASSUME SlotInv, UNCHANGED <<intents, op, slotLock, saved, stops>>,
           rows' \in Seq(Row), Grows(rows, rows'), Lineal(rows'),
           outbox' \in Seq(Entry), Extends(outbox, outbox'),
           \A k \in DOMAIN outbox' : outbox'[k].row \in DOMAIN rows',
           tip' \in 0 .. Len(rows'), shape' \in 0 .. tip'
    PROVE  SlotInv'
<1>0. /\ intents \in Seq(Intent) /\ rows \in Seq(Row) /\ outbox \in Seq(Entry)
      /\ intents' = intents /\ op' = op
      /\ \A i \in DOMAIN intents : Known(intents[i], rows)
      /\ \A q \in Proc : Placed(op[q], intents, rows, outbox)
  BY DEF SlotInv, TypeOK
<1>1. \A q \in Proc : Placed(op'[q], intents', rows', outbox')
  <2> TAKE q \in Proc
  <2>1. Placed(op[q], intents, rows, outbox) /\ Len(intents) =< Len(intents)
    BY <1>0
  <2>2. Placed(op[q], intents, rows', outbox')
    BY <1>0, <2>1, StillPlaced
  <2> QED BY <1>0, <2>2
<1>2. \A i \in DOMAIN intents' : Known(intents'[i], rows')
  BY <1>0, StillKnown
<1> QED BY <1>1, <1>2 DEF SlotInv, TypeOK

LEMMA WorldInv ==
    ASSUME SlotInv
    PROVE  /\ rows \in Seq(Row) /\ outbox \in Seq(Entry)
           /\ Lineal(rows) /\ tip \in 0 .. Len(rows) /\ shape \in 0 .. tip
           /\ \A k \in DOMAIN outbox : outbox[k].row \in DOMAIN rows
           /\ Grows(rows, rows) /\ Extends(outbox, outbox)
BY GrowsRefl DEF SlotInv, TypeOK

\* A revision the server takes is its tip or a child of it.
LEMMA AppliedTip ==
    ASSUME SlotInv, NEW r \in DOMAIN rows, Applies(r)
    PROVE  r \in tip .. Len(rows) /\ Value(tip) \subseteq Value(r)
<1>1. /\ rows \in Seq(Row) /\ tip \in 0 .. Len(rows)
      /\ rows[r].parent \in 0 .. r - 1
      /\ rows[r].parent # 0 => rows[rows[r].parent].value \subseteq rows[r].value
  BY WorldInv DEF Lineal
<1> QED BY <1>1 DEF Applies, Value

\* The tip moves to a revision the server takes.
LEMMA TipMoves ==
    ASSUME SlotInv, NEW r \in DOMAIN rows, Applies(r), tip' = r,
           UNCHANGED <<rows, shape>>
    PROVE  tip' \in 0 .. Len(rows') /\ shape' \in 0 .. tip'
<1>1. rows \in Seq(Row) /\ tip \in 0 .. Len(rows) /\ shape \in 0 .. tip
  BY WorldInv
<1>2. r \in tip .. Len(rows)
  BY AppliedTip
<1> QED BY <1>1, <1>2

LEMMA DeliverStep ==
    ASSUME SlotInv, NEW k \in DOMAIN outbox, Deliver(k)
    PROVE  SlotInv'
<1>0. /\ rows \in Seq(Row) /\ outbox \in Seq(Entry)
      /\ Lineal(rows) /\ tip \in 0 .. Len(rows) /\ shape \in 0 .. tip
      /\ \A j \in DOMAIN outbox : outbox[j].row \in DOMAIN rows
      /\ Grows(rows, rows)
  BY WorldInv
<1> DEFINE r == outbox[k].row
<1>1. \E st \in {"accepted", "refused"} : outbox' = [outbox EXCEPT ![k].status = st]
  BY DEF Deliver
<1>2. /\ outbox' \in Seq(Entry) /\ Len(outbox') = Len(outbox)
      /\ DOMAIN outbox' = DOMAIN outbox
      /\ \A j \in DOMAIN outbox :
            outbox'[j].row = outbox[j].row /\ outbox'[j].source = outbox[j].source
  <2>1. PICK st \in {"accepted", "refused"} : outbox' = [outbox EXCEPT ![k].status = st]
    BY <1>1
  <2> DEFINE n == [outbox[k] EXCEPT !.status = st]
  <2>2. outbox[k] \in Entry
    BY <1>0
  <2>3. n \in Entry /\ n.row = outbox[k].row /\ n.source = outbox[k].source
    BY <2>2 DEF Entry
  <2>4. outbox' = [outbox EXCEPT ![k] = n]
    BY <1>0, <2>1
  <2> HIDE DEF n
  <2> QED BY <1>0, <2>3, <2>4
<1>3. Extends(outbox, outbox')
  BY <1>0, <1>2 DEF Extends
<1>4. UNCHANGED <<intents, rows, shape, op, slotLock, saved, stops>>
  BY DEF Deliver
<1>5. tip' \in 0 .. Len(rows') /\ shape' \in 0 .. tip'
  <2>1. CASE Applies(r)
    <3>1. tip' = r /\ r \in DOMAIN rows
      BY <1>0, <2>1 DEF Deliver
    <3> QED BY <1>4, <2>1, <3>1, TipMoves
  <2>2. CASE ~Applies(r)
    BY <1>0, <2>2 DEF Deliver
  <2> QED BY <2>1, <2>2
<1>6. \A j \in DOMAIN outbox' : outbox'[j].row \in DOMAIN rows'
  BY <1>0, <1>2, <1>4
<1> QED BY <1>0, <1>2, <1>3, <1>4, <1>5, <1>6, WorldStep

LEMMA LoseAnswerStep ==
    ASSUME SlotInv, NEW k \in DOMAIN outbox, LoseAnswer(k)
    PROVE  SlotInv'
<1>1. outbox[k].row \in DOMAIN rows /\ Applies(outbox[k].row) /\ tip' = outbox[k].row
  BY WorldInv DEF LoseAnswer, Applies
<1>2. UNCHANGED <<intents, rows, outbox, shape, op, slotLock, saved, stops>>
  BY DEF LoseAnswer
<1>3. tip' \in 0 .. Len(rows') /\ shape' \in 0 .. tip'
  BY <1>1, <1>2, TipMoves
<1> QED BY <1>2, <1>3, WorldInv, WorldStep

LEMMA ForeignStep ==
    ASSUME SlotInv, NEW x \in Foreign, ForeignWrite(x)
    PROVE  SlotInv' /\ Value(tip) \subseteq Value(tip)'
<1>0. /\ rows \in Seq(Row) /\ outbox \in Seq(Entry)
      /\ Lineal(rows) /\ tip \in 0 .. Len(rows) /\ shape \in 0 .. tip
      /\ \A k \in DOMAIN outbox : outbox[k].row \in DOMAIN rows
      /\ Extends(outbox, outbox)
  BY WorldInv
<1> DEFINE patch == {x}
           row == [patch |-> patch, parent |-> tip, value |-> Value(tip) \union patch]
<1>1. /\ rows' = Append(rows, row) /\ tip' = Len(rows) + 1
      /\ UNCHANGED <<intents, outbox, shape, op, slotLock, saved, stops>>
  BY DEF ForeignWrite
<1>2. /\ patch \in SUBSET (Edit \union Foreign)
      /\ row = [patch |-> patch, parent |-> tip,
                value |-> (IF tip = 0 THEN {} ELSE rows[tip].value) \union patch]
      /\ row.value = Value(tip) \union patch
  BY DEF Value
<1> HIDE DEF row, patch
<1>3. /\ rows' \in Seq(Row) /\ Grows(rows, rows') /\ Lineal(rows')
      /\ rows'[Len(rows) + 1] = row /\ Len(rows') = Len(rows) + 1
  <2>1. rows \in Seq(Row) /\ Lineal(rows) /\ tip \in 0 .. Len(rows)
    BY <1>0
  <2>2. /\ Append(rows, row) \in Seq(Row)
        /\ Grows(rows, Append(rows, row))
        /\ Lineal(Append(rows, row))
        /\ Append(rows, row)[Len(rows) + 1] = row
        /\ Len(Append(rows, row)) = Len(rows) + 1
    BY <1>2, <2>1, NewRow
  <2> QED BY <1>1, <2>2
<1>4. \A k \in DOMAIN outbox' : outbox'[k].row \in DOMAIN rows'
  <2>1. DOMAIN rows \subseteq DOMAIN rows'
    BY <1>0, <1>3
  <2> QED BY <1>0, <1>1, <2>1
<1>5. tip' \in 0 .. Len(rows') /\ shape' \in 0 .. tip'
  BY <1>0, <1>1, <1>3
<1>6. SlotInv'
  BY <1>0, <1>1, <1>3, <1>4, <1>5, WorldStep
<1>7. Value(tip)' = row.value
  BY <1>0, <1>1, <1>3 DEF Value
<1> QED BY <1>2, <1>6, <1>7

LEMMA SyncStep ==
    ASSUME SlotInv, Sync
    PROVE  SlotInv'
<1>1. tip' \in 0 .. Len(rows') /\ shape' \in 0 .. tip'
  BY WorldInv DEF Sync
<1> QED BY <1>1, WorldInv, WorldStep DEF Sync

----------------------------------------------------------------------------
(* The theorems *)

LEMMA InitInv ==
    Init => SlotInv
<1> SUFFICES ASSUME Init PROVE SlotInv
  OBVIOUS
<1>1. /\ intents = <<>> /\ rows = <<>> /\ outbox = <<>> /\ tip = 0 /\ shape = 0
      /\ op = [p \in Proc |-> Idle] /\ slotLock = NoProc /\ saved = {} /\ stops = 0
  BY DEF Init
<1>2. intents \in Seq(Intent) /\ rows \in Seq(Row) /\ outbox \in Seq(Entry)
  BY <1>1
<1>3. DOMAIN intents = {} /\ DOMAIN rows = {} /\ DOMAIN outbox = {} /\ Len(rows) = 0
  BY <1>1
<1>4. Placed(Idle, intents, rows, outbox) /\ Idle \in Op
  BY <1>2, IdlePlaced DEF Placed
<1>5. TypeOK
  BY <1>1, <1>2, <1>3, <1>4, SlotAssumption DEF TypeOK
<1>6. \A p \in Proc : Placed(op[p], intents, rows, outbox)
  BY <1>1, <1>4
<1> QED BY <1>3, <1>5, <1>6 DEF SlotInv, Lineal

LEMMA NextInv ==
    SlotInv /\ [Next]_vars => SlotInv'
<1> SUFFICES ASSUME SlotInv, [Next]_vars PROVE SlotInv'
  OBVIOUS
<1>1. CASE \E e \in Edit : Call(e)
  BY <1>1, EditStep
<1>2. CASE \E p \in Proc : Signer(p)
  BY <1>2, SignerStep
<1>3. CASE \E p \in Proc : Stop(p)
  BY <1>3, StopStep
<1>4. CASE \E p \in Pass : Recover(p)
  BY <1>4, RecoverStep
<1>5. CASE \E p \in Pass : \E i \in DOMAIN intents : Scan(p, i)
  BY <1>5, ScanStep
<1>6. CASE \E k \in DOMAIN outbox : Deliver(k)
  BY <1>6, DeliverStep
<1>7. CASE \E k \in DOMAIN outbox : LoseAnswer(k)
  BY <1>7, LoseAnswerStep
<1>8. CASE \E x \in Foreign : ForeignWrite(x)
  BY <1>8, ForeignStep
<1>9. CASE Sync
  BY <1>9, SyncStep
<1>10. CASE UNCHANGED vars
  <2>1. UNCHANGED <<intents, rows, outbox, tip, shape, op, slotLock, saved, stops>>
    BY <1>10 DEF vars
  <2>2. tip' \in 0 .. Len(rows') /\ shape' \in 0 .. tip'
    BY <2>1, WorldInv
  <2> QED BY <2>1, <2>2, WorldInv, WorldStep
<1> QED BY <1>1, <1>2, <1>3, <1>4, <1>5, <1>6, <1>7, <1>8, <1>9, <1>10 DEF Next

\* The values of StorageSlot keep their types whatever steps overlap: what a
\* call stores from an older read is still a record, and the count of conflict
\* rounds that travels from intent to intent never passes its limit.
THEOREM SlotTyped == Spec => []TypeOK
<1>1. SlotInv => TypeOK
  BY DEF SlotInv
<1> QED BY <1>1, InitInv, NextInv, PTL DEF Spec

\* Steps of this device change no revision and move no tip.
LEMMA CallsKeepTip ==
    ASSUME SlotInv, NEW p \in Proc,
           Signer(p) \/ Stop(p) \/ (p \in Edit /\ Call(p)) \/ (p \in Pass /\ Recover(p))
             \/ (p \in Pass /\ \E i \in DOMAIN intents : Scan(p, i))
    PROVE  Value(tip)' = Value(tip)
<1>0. rows \in Seq(Row) /\ tip \in 0 .. Len(rows)
  BY WorldInv
<1>1. tip' = tip
  BY DEF Signer, AlreadyClaimed, Claim, BaseUnavailable, Build, SignedBefore, Replay,
         Sign, Enqueue, Link, Settle, Conflict, Retry, Stop, Call, FindNone, Find,
         Create, Merge, Store, NoKey, Recover, AwaitUnlock, Mark, Resume, Unmark, Scan
<1>2. CASE Sign(p)
  <2>1. PICK row : rows' = Append(rows, row)
    BY <1>2 DEF Sign
  <2>2. \A r \in DOMAIN rows : rows'[r] = rows[r]
    BY <1>0, <2>1
  <2> QED BY <1>0, <1>1, <2>2 DEF Value
<1>3. CASE ~Sign(p)
  <2>1. rows' = rows
    BY <1>3 DEF Signer, AlreadyClaimed, Claim, BaseUnavailable, Build, SignedBefore,
         Replay, Enqueue, Link, Settle, Conflict, Retry, Stop, Call, FindNone, Find,
         Create, Merge, Store, NoKey, Recover, AwaitUnlock, Mark, Resume, Unmark, Scan
  <2> QED BY <1>1, <2>1 DEF Value
<1> QED BY <1>2, <1>3

LEMMA NextKeeps ==
    SlotInv /\ [Next]_vars => Value(tip) \subseteq Value(tip)'
<1> SUFFICES ASSUME SlotInv, [Next]_vars PROVE Value(tip) \subseteq Value(tip)'
  OBVIOUS
<1>1. CASE \E e \in Edit : Call(e)
  BY <1>1, CallsKeepTip DEF Proc
<1>2. CASE \E p \in Proc : Signer(p) \/ Stop(p)
  BY <1>2, CallsKeepTip
<1>3. CASE \E p \in Pass : Recover(p) \/ \E i \in DOMAIN intents : Scan(p, i)
  BY <1>3, CallsKeepTip DEF Proc
<1>4. CASE \E k \in DOMAIN outbox : Deliver(k) \/ LoseAnswer(k)
  <2>1. PICK k \in DOMAIN outbox : Deliver(k) \/ LoseAnswer(k)
    BY <1>4
  <2> DEFINE r == outbox[k].row
  <2>2. r \in DOMAIN rows
    BY WorldInv
  <2>3. (tip' = r /\ Applies(r)) \/ tip' = tip
    BY <2>1 DEF Deliver, LoseAnswer, Applies
  <2>4. rows' = rows
    BY <2>1 DEF Deliver, LoseAnswer
  <2>5. CASE tip' = tip
    BY <2>4, <2>5 DEF Value
  <2>6. CASE tip' = r /\ Applies(r)
    <3>1. Value(tip) \subseteq Value(r)
      BY <2>2, <2>6, AppliedTip
    <3>2. Value(tip)' = Value(r)
      BY <2>4, <2>6 DEF Value
    <3> QED BY <3>1, <3>2
  <2> QED BY <2>3, <2>5, <2>6
<1>5. CASE \E x \in Foreign : ForeignWrite(x)
  BY <1>5, ForeignStep
<1>6. CASE Sync
  BY <1>6 DEF Sync, Value
<1>7. CASE UNCHANGED vars
  BY <1>7 DEF vars, Value
<1> QED BY <1>1, <1>2, <1>3, <1>4, <1>5, <1>6, <1>7 DEF Next

\* No write takes from the server's value what it held, whatever base a draft
\* was read from, however long it waited, and whatever stopped on the way: a
\* revision keeps the value of the one it names as parent, and the server takes
\* only children of its tip (materializeStorageIntent, the conflict rounds).
THEOREM NothingIsUndone == Spec => NothingUndone
<1>1. SlotInv /\ [Next]_vars => [Value(tip) \subseteq Value(tip)']_vars
  BY NextKeeps
<1> QED BY <1>1, InitInv, NextInv, PTL DEF Spec, NothingUndone

----------------------------------------------------------------------------
(* Why an intent is queued once, and an edit never lost. Both rest on one   *)
(* condition the code does not establish (the run slot_overlap shows how it *)
(* fails): a call that merges its edit into an open intent stores it while  *)
(* the record is what the call read and nobody has begun to sign it. With   *)
(* it, a payload never changes under the draft built from it and a record   *)
(* never goes back to an earlier kind.                                      *)

InTime ==
    \A e \in Edit : op[e].at = "storing" =>
        /\ op[e].copy = [intents[op[e].id] EXCEPT !.patch = @ \union {e}]
        /\ \A p \in Proc : op[p].id = op[e].id =>
              op[p].at \notin {"building", "signing", "marking", "unmarking"}

Busy(o) == o.at \in {"queueing", "linking", "sending", "marking", "unmarking"}

\* What a call relies on in the record it works on.
CallOk(o, is, ks) ==
    /\ o.at \in {"merging", "storing"} => o.copy.kind = "storage"
    /\ o.at \in {"marking", "unmarking"} => is[o.id] = o.read
    /\ o.at \in {"building", "signing"} => o.copy.kind # "resolved"
    /\ o.at = "building" => o.copy.kind = "storage"
    /\ o.at \in {"resuming", "unmarking", "signing"} /\ o.copy.kind = "signed" =>
          is[o.id].kind # "storage"
    /\ o.at \in {"building", "signing"} /\ o.copy.kind = "storage"
         /\ is[o.id].kind = "storage" => o.copy.patch = is[o.id].patch
    /\ o.at = "queueing" => /\ is[o.id].kind = "signed" /\ is[o.id].row = o.row
                            /\ \A k \in DOMAIN ks : ks[k].source # o.id

\* What the outbox holds is signed, and held once.
EntriesOk(is, ks) ==
    /\ \A k \in DOMAIN ks :
          /\ ks[k].source \in DOMAIN is
          /\ is[ks[k].source].kind # "storage"
          /\ is[ks[k].source].kind = "signed" => is[ks[k].source].row = ks[k].row
    /\ \A j, k \in DOMAIN ks : ks[j].source = ks[k].source => j = k

OnceInv ==
    /\ \A p \in Proc : CallOk(op[p], intents, outbox)
    /\ \A p, q \in Proc : Busy(op[p]) /\ Busy(op[q]) /\ op[p].id = op[q].id => p = q
    /\ EntriesOk(intents, outbox)

\* A step of the call p.
LEMMA CallOnce ==
    ASSUME SlotInv, OnceInv, NEW p \in Proc, NEW o, op' = [op EXCEPT ![p] = o],
           CallOk(o, intents', outbox'),
           Busy(o) => (Busy(op[p]) /\ o.id = op[p].id) \/ ~SigningLocked(o.id),
           \A q \in Proc \ {p} : CallOk(op[q], intents', outbox'),
           EntriesOk(intents', outbox')
    PROVE  OnceInv'
<1>1. \A q \in Proc : op'[q] = IF q = p THEN o ELSE op[q]
  BY DEF SlotInv, TypeOK
<1>2. \A q \in Proc : CallOk(op'[q], intents', outbox')
  BY <1>1
<1>3. \A q \in Proc : q # p /\ Busy(op[q]) /\ op[q].id = o.id => ~Busy(o)
  <2> SUFFICES ASSUME NEW q \in Proc, q # p, Busy(op[q]), op[q].id = o.id, Busy(o)
               PROVE  FALSE
    OBVIOUS
  <2>1. SigningLocked(o.id)
    BY DEF SigningLocked, Busy
  <2> QED BY <2>1 DEF OnceInv
<1>4. \A q, t \in Proc : Busy(op'[q]) /\ Busy(op'[t]) /\ op'[q].id = op'[t].id => q = t
  BY <1>1, <1>3 DEF OnceInv
<1> QED BY <1>2, <1>4 DEF OnceInv

\* A step of the call p that changes no record.
LEMMA MoveOnce ==
    ASSUME SlotInv, OnceInv, NEW p \in Proc, NEW o, op' = [op EXCEPT ![p] = o],
           CallOk(o, intents, outbox),
           Busy(o) => (Busy(op[p]) /\ o.id = op[p].id) \/ ~SigningLocked(o.id),
           UNCHANGED <<intents, outbox>>
    PROVE  OnceInv'
<1>1. intents' = intents /\ outbox' = outbox
  OBVIOUS
<1>2. CallOk(o, intents', outbox') /\ EntriesOk(intents', outbox')
  BY <1>1 DEF OnceInv
<1>3. \A q \in Proc \ {p} : CallOk(op[q], intents', outbox')
  BY <1>1 DEF OnceInv
<1> QED BY <1>2, <1>3, CallOnce

\* A record changes that no other call holds: a payload stays what it was, and
\* what is queued is not signed anew.
LEMMA RecordOnce ==
    ASSUME SlotInv, OnceInv, NEW p \in Proc, NEW o, op' = [op EXCEPT ![p] = o],
           NEW i \in DOMAIN intents, NEW n,
           intents' = [intents EXCEPT ![i] = n], outbox' = outbox,
           CallOk(o, intents', outbox),
           Busy(o) => (Busy(op[p]) /\ o.id = op[p].id) \/ ~SigningLocked(o.id),
           \A q \in Proc \ {p} : Busy(op[q]) => op[q].id # i,
           n.kind = "storage" => /\ intents[i].kind = "storage"
                                 /\ \/ n.patch = intents[i].patch
                                    \/ \A q \in Proc \ {p} : op[q].id = i =>
                                          op[q].at \notin {"building", "signing"},
           n.kind = "signed" => \/ n.row = intents[i].row /\ intents[i].kind = "signed"
                                \/ intents[i].kind = "storage"
    PROVE  OnceInv'
<1>1. /\ intents \in Seq(Intent)
      /\ DOMAIN intents' = DOMAIN intents
      /\ \A j \in DOMAIN intents : intents'[j] = IF j = i THEN n ELSE intents[j]
  BY DEF SlotInv, TypeOK
<1>2. \A q \in Proc \ {p} : CallOk(op[q], intents', outbox')
  <2> TAKE q \in Proc \ {p}
  <2>1. CallOk(op[q], intents, outbox) /\ Placed(op[q], intents, rows, outbox)
    BY DEF OnceInv, SlotInv
  <2>2. op[q].at \in {"resuming", "unmarking", "signing", "building", "queueing", "marking"} =>
           op[q].id \in DOMAIN intents
    BY <2>1 DEF Placed
  <2>3. CASE op[q].id # i
    BY <1>1, <2>1, <2>2, <2>3 DEF CallOk
  <2>4. CASE op[q].id = i
    <3>1. ~Busy(op[q])
      BY <2>4
    <3>2. intents'[op[q].id] = n
      BY <1>1, <2>4
    <3> QED BY <2>1, <2>2, <2>4, <3>1, <3>2 DEF CallOk, Busy
  <2> QED BY <2>3, <2>4
<1>3. EntriesOk(intents', outbox')
  <2>1. EntriesOk(intents, outbox)
    BY DEF OnceInv
  <2> SUFFICES ASSUME NEW k \in DOMAIN outbox
               PROVE  /\ intents'[outbox[k].source].kind # "storage"
                      /\ intents'[outbox[k].source].kind = "signed" =>
                            intents'[outbox[k].source].row = outbox[k].row
    BY <1>1, <2>1 DEF EntriesOk
  <2>2. /\ outbox[k].source \in DOMAIN intents
        /\ intents[outbox[k].source].kind # "storage"
        /\ intents[outbox[k].source].kind = "signed" =>
              intents[outbox[k].source].row = outbox[k].row
    BY <2>1 DEF EntriesOk
  <2> QED BY <1>1, <2>2
<1>4. CallOk(o, intents', outbox')
  OBVIOUS
<1> QED BY <1>2, <1>3, <1>4, CallOnce

\* A record goes forward: payload, signed row, marker.
Forward(m, n) ==
    \/ n.kind = "resolved"
    \/ m.kind = "storage" /\ n.kind = "signed"
    \/ n.kind = m.kind /\ n.patch = m.patch /\ n.row = m.row

LEMMA ForwardOnce ==
    ASSUME SlotInv, OnceInv, NEW p \in Proc, NEW o, op' = [op EXCEPT ![p] = o],
           NEW i \in DOMAIN intents, NEW n, Forward(intents[i], n),
           intents' = [intents EXCEPT ![i] = n], outbox' = outbox,
           CallOk(o, intents', outbox),
           ~Busy(o) \/ (Busy(op[p]) /\ o.id = op[p].id) \/ ~SigningLocked(o.id),
           \A q \in Proc \ {p} : Busy(op[q]) => op[q].id # i
    PROVE  OnceInv'
<1>1. n.kind = "storage" => /\ intents[i].kind = "storage"
                            /\ \/ n.patch = intents[i].patch
                               \/ \A q \in Proc \ {p} : op[q].id = i =>
                                     op[q].at \notin {"building", "signing"}
  BY DEF Forward
<1>2. n.kind = "signed" => \/ n.row = intents[i].row /\ intents[i].kind = "signed"
                           \/ intents[i].kind = "storage"
  BY DEF Forward
<1>3. Busy(o) => (Busy(op[p]) /\ o.id = op[p].id) \/ ~SigningLocked(o.id)
  OBVIOUS
<1> QED BY <1>1, <1>2, <1>3, RecordOnce

\* A new record.
LEMMA AddOnce ==
    ASSUME SlotInv, OnceInv, NEW p \in Proc, NEW o, op' = [op EXCEPT ![p] = o],
           NEW n, intents' = Append(intents, n), n \in Intent, outbox' = outbox,
           o.at = "stored"
    PROVE  OnceInv'
<1>1. /\ intents \in Seq(Intent)
      /\ DOMAIN intents \subseteq DOMAIN intents'
      /\ \A j \in DOMAIN intents : intents'[j] = intents[j]
  BY DEF SlotInv, TypeOK
<1>2. \A q \in Proc \ {p} : CallOk(op[q], intents', outbox')
  <2> TAKE q \in Proc \ {p}
  <2>1. CallOk(op[q], intents, outbox) /\ Placed(op[q], intents, rows, outbox)
    BY DEF OnceInv, SlotInv
  <2>2. op[q].at \in {"resuming", "unmarking", "signing", "building", "queueing", "marking"} =>
           op[q].id \in DOMAIN intents
    BY <2>1 DEF Placed
  <2> QED BY <1>1, <2>1, <2>2 DEF CallOk
<1>3. EntriesOk(intents', outbox')
  <2>1. EntriesOk(intents, outbox)
    BY DEF OnceInv
  <2> QED BY <1>1, <2>1 DEF EntriesOk
<1>4. CallOk(o, intents', outbox') /\ ~Busy(o)
  BY DEF CallOk, Busy
<1> QED BY <1>2, <1>3, <1>4, CallOnce

\* How a call ends.
LEMMA Left ==
    ASSUME SlotInv, NEW p \in Proc, Leave(p)
    PROVE  \E o : /\ op' = [op EXCEPT ![p] = o]
                  /\ o.at \in {"idle", "done"} /\ ~Busy(o)
                  /\ \A is, ks : CallOk(o, is, ks)
<1> DEFINE o == IF p \in Edit THEN [Idle EXCEPT !.at = "done"] ELSE Idle
<1>1. o.at \in {"idle", "done"}
  BY DEF Idle
<1>2. op' = [op EXCEPT ![p] = o]
  BY DEF Leave
<1> HIDE DEF o
<1>3. ~Busy(o) /\ \A is, ks : CallOk(o, is, ks)
  BY <1>1 DEF Busy, CallOk
<1> QED BY <1>1, <1>2, <1>3

LEMMA LeaveOnce ==
    ASSUME SlotInv, OnceInv, NEW p \in Proc, Leave(p), UNCHANGED <<intents, outbox>>
    PROVE  OnceInv'
<1>1. PICK o : /\ op' = [op EXCEPT ![p] = o] /\ ~Busy(o)
               /\ \A is, ks : CallOk(o, is, ks)
  BY Left
<1> QED BY <1>1, MoveOnce

LEMMA EditOnce ==
    ASSUME SlotInv, OnceInv, InTime, NEW e \in Edit, Call(e)
    PROVE  OnceInv'
<1> e \in Proc
  BY DEF Proc
<1>0. /\ op \in [Proc -> Op] /\ op[e] \in Op
      /\ Placed(op[e], intents, rows, outbox) /\ CallOk(op[e], intents, outbox)
      /\ intents \in Seq(Intent)
  BY InvAt DEF OnceInv
<1>1. CASE FindNone(e)
  <2> DEFINE o == [op[e] EXCEPT !.at = "creating"]
  <2>1. o.at = "creating" /\ op' = [op EXCEPT ![e] = o]
    BY <1>0, <1>1 DEF FindNone, Goes, Op
  <2> HIDE DEF o
  <2>2. CallOk(o, intents, outbox) /\ ~Busy(o)
    BY <2>1 DEF CallOk, Busy
  <2> QED BY <1>1, <2>1, <2>2, MoveOnce DEF FindNone
<1>2. CASE Find(e)
  <2> DEFINE open == {i \in DOMAIN intents : intents[i].kind = "storage"}
             n == [intents[Min(open)] EXCEPT !.patch = @ \union {e}]
             o == [op[e] EXCEPT !.at = "merging", !.id = Min(open), !.copy = n]
  <2>1. Min(open) \in open
    <3>1. open \in SUBSET Nat
      BY <1>0
    <3>2. open # {}
      BY <1>2 DEF Find
    <3> HIDE DEF open
    <3> QED BY <3>1, <3>2, MinIsMember
  <2>2. n.kind = "storage"
    BY <1>0, <2>1 DEF Intent
  <2>3. op' = [op EXCEPT ![e] = o]
    BY <1>0, <1>2 DEF Find
  <2> HIDE DEF n, open
  <2>4. o.at = "merging" /\ o.copy = n
    BY <1>0 DEF Op
  <2> HIDE DEF o
  <2>5. CallOk(o, intents, outbox) /\ ~Busy(o)
    BY <2>2, <2>4 DEF CallOk, Busy
  <2> QED BY <1>2, <2>3, <2>5, MoveOnce DEF Find
<1>3. CASE Create(e)
  <2> DEFINE o == [op[e] EXCEPT !.at = "stored", !.id = Len(intents) + 1]
  <2>1. o.at = "stored" /\ op' = [op EXCEPT ![e] = o]
    BY <1>0, <1>3 DEF Create, Op
  <2>2. Payload({e}, 0) \in Intent
    BY SlotAssumption, PayloadKnown DEF Known
  <2> HIDE DEF o
  <2> QED BY <1>3, <2>1, <2>2, AddOnce DEF Create
<1>4. CASE Merge(e)
  <2>1. CASE intents[op[e].id].kind = "resolved"
    BY <1>4, <2>1, LeaveOnce DEF Merge
  <2>2. CASE intents[op[e].id].kind # "resolved"
    <3> DEFINE o == [op[e] EXCEPT !.at = "storing"]
    <3>1. o.at = "storing" /\ o.copy = op[e].copy /\ op' = [op EXCEPT ![e] = o]
      BY <1>0, <1>4, <2>2 DEF Merge, Goes, Op
    <3>2. op[e].copy.kind = "storage"
      BY <1>0, <1>4 DEF Merge, CallOk
    <3> HIDE DEF o
    <3>3. CallOk(o, intents, outbox) /\ ~Busy(o)
      BY <3>1, <3>2 DEF CallOk, Busy
    <3> QED BY <1>4, <3>1, <3>3, MoveOnce DEF Merge
  <2> QED BY <2>1, <2>2
<1>5. CASE Store(e)
  <2> DEFINE i == op[e].id
             n == [op[e].copy EXCEPT !.awaiting = FALSE]
             o == [op[e] EXCEPT !.at = "stored"]
  <2>1. /\ op' = [op EXCEPT ![e] = o] /\ intents' = [intents EXCEPT ![i] = n]
        /\ o.at = "stored" /\ outbox' = outbox
    BY <1>0, <1>5 DEF Store, Goes, Op
  <2>2. i \in DOMAIN intents /\ intents[i] \in Intent /\ op[e].copy \in Intent
    BY <1>0, <1>5 DEF Store, Placed, Known
  <2>3. /\ op[e].copy = [intents[i] EXCEPT !.patch = @ \union {e}]
        /\ \A p \in Proc : op[p].id = i =>
              op[p].at \notin {"building", "signing", "marking", "unmarking"}
    BY <1>5 DEF Store, InTime
  <2>4. op[e].copy.kind = "storage"
    BY <1>0, <1>5 DEF Store, CallOk
  <2>5. n.kind = "storage" /\ intents[i].kind = "storage"
    BY <2>2, <2>3, <2>4 DEF Intent
  <2> HIDE DEF n, o, i
  <2>6. \A is, ks : CallOk(o, is, ks)
    BY <2>1 DEF CallOk
  <2>7. ~Busy(o)
    BY <2>1 DEF Busy
  <2>8. \A q \in Proc \ {e} : Busy(op[q]) => op[q].id # i
    <3> SUFFICES ASSUME NEW q \in Proc, op[q].at \in {"queueing", "linking", "sending"},
                        op[q].id = i
                 PROVE  FALSE
      BY <2>3 DEF Busy
    <3>1. CallOk(op[q], intents, outbox) /\ Placed(op[q], intents, rows, outbox)
      BY DEF OnceInv, SlotInv
    <3>2. CASE op[q].at = "queueing"
      BY <2>5, <3>1, <3>2 DEF CallOk
    <3>3. CASE op[q].at \in {"linking", "sending"}
      <4>1. op[q].entry \in DOMAIN outbox /\ outbox[op[q].entry].source = i
        BY <3>1, <3>3 DEF Placed
      <4> QED BY <2>5, <4>1 DEF OnceInv, EntriesOk
    <3> QED BY <3>2, <3>3
  <2>9. CallOk(o, intents', outbox)
    BY <2>6
  <2>10. n.kind = "storage" => /\ intents[i].kind = "storage"
                               /\ \/ n.patch = intents[i].patch
                                  \/ \A q \in Proc \ {e} : op[q].id = i =>
                                        op[q].at \notin {"building", "signing"}
    BY <2>3, <2>5
  <2>11. n.kind = "signed" => \/ n.row = intents[i].row /\ intents[i].kind = "signed"
                              \/ intents[i].kind = "storage"
    BY <2>5
  <2> QED BY <2>1, <2>2, <2>7, <2>8, <2>9, <2>10, <2>11, RecordOnce
<1>6. CASE NoKey(e)
  BY <1>6, LeaveOnce DEF NoKey
<1> QED BY <1>1, <1>2, <1>3, <1>4, <1>5, <1>6 DEF Call

\* Nobody but the holder of a signing lock is at work on the record.
LEMMA Unlocked ==
    ASSUME NEW i, ~SigningLocked(i)
    PROVE  \A q \in Proc : Busy(op[q]) => op[q].id # i
BY DEF SigningLocked, Busy

LEMMA HolderAlone ==
    ASSUME OnceInv, NEW p \in Proc, Busy(op[p])
    PROVE  \A q \in Proc \ {p} : Busy(op[q]) => op[q].id # op[p].id
BY DEF OnceInv

LEMMA EnqueueOnce ==
    ASSUME SlotInv, OnceInv, NEW p \in Proc, Enqueue(p)
    PROVE  OnceInv'
<1>0. /\ op \in [Proc -> Op] /\ op[p] \in Op
      /\ Placed(op[p], intents, rows, outbox) /\ CallOk(op[p], intents, outbox)
      /\ outbox \in Seq(Entry) /\ EntriesOk(intents, outbox)
  BY InvAt DEF OnceInv
<1> DEFINE i == op[p].id
           entry == [row |-> op[p].row, source |-> i,
                     deps |-> Dependencies(op[p].excl), status |-> "queued"]
           o == [op[p] EXCEPT !.at = "linking", !.entry = Len(outbox) + 1]
<1>1. /\ i \in DOMAIN intents /\ intents[i].kind = "signed" /\ intents[i].row = op[p].row
      /\ \A k \in DOMAIN outbox : outbox[k].source # i
  BY <1>0 DEF Enqueue, Placed, CallOk
<1>2. /\ outbox' = Append(outbox, entry) /\ op' = [op EXCEPT ![p] = o]
      /\ intents' = intents /\ o.at = "linking" /\ o.id = i
      /\ entry.source = i /\ entry.row = op[p].row
  BY <1>0 DEF Enqueue, Op
<1>3. entry \in Entry
  <2>1. op[p].row \in Nat /\ op[p].id \in Nat
    BY <1>0 DEF Op
  <2>2. Dependencies(op[p].excl) \subseteq Nat
    BY <1>0 DEF Dependencies
  <2> QED BY <2>1, <2>2 DEF Entry
<1> HIDE DEF entry, o
<1>4. /\ DOMAIN outbox' = 1 .. Len(outbox) + 1 /\ DOMAIN outbox = 1 .. Len(outbox)
      /\ Len(outbox) \in Nat
      /\ \A k \in DOMAIN outbox : outbox'[k] = outbox[k]
      /\ outbox'[Len(outbox) + 1] = entry
  BY <1>0, <1>2, <1>3
<1>5. \A k \in DOMAIN outbox' :
         (k \in DOMAIN outbox /\ outbox'[k] = outbox[k])
           \/ (k = Len(outbox) + 1 /\ outbox'[k] = entry)
  BY <1>4
<1>6. Busy(op[p])
  BY DEF Enqueue, Busy
<1>7. \A q \in Proc \ {p} : CallOk(op[q], intents', outbox')
  <2> TAKE q \in Proc \ {p}
  <2>1. CallOk(op[q], intents, outbox)
    BY DEF OnceInv
  <2>2. op[q].at = "queueing" => op[q].id # i
    BY <1>6, HolderAlone DEF Busy
  <2> HIDE DEF i
  <2> QED BY <1>2, <1>5, <2>1, <2>2 DEF CallOk
<1>8. EntriesOk(intents', outbox')
  <2>1. \A k \in DOMAIN outbox' :
           /\ outbox'[k].source \in DOMAIN intents
           /\ intents[outbox'[k].source].kind # "storage"
           /\ intents[outbox'[k].source].kind = "signed" =>
                 intents[outbox'[k].source].row = outbox'[k].row
    <3> TAKE k \in DOMAIN outbox'
    <3>1. CASE k \in DOMAIN outbox /\ outbox'[k] = outbox[k]
      BY <1>0, <3>1 DEF EntriesOk
    <3>2. CASE k = Len(outbox) + 1 /\ outbox'[k] = entry
      BY <1>1, <1>2, <3>2
    <3> QED BY <1>5, <3>1, <3>2
  <2>2. \A j, k \in DOMAIN outbox' : outbox'[j].source = outbox'[k].source => j = k
    <3> SUFFICES ASSUME NEW j \in DOMAIN outbox', NEW k \in DOMAIN outbox',
                        outbox'[j].source = outbox'[k].source
                 PROVE  j = k
      OBVIOUS
    <3>1. CASE j \in DOMAIN outbox /\ k \in DOMAIN outbox
      BY <1>0, <1>4, <3>1 DEF EntriesOk
    <3>2. CASE j \in DOMAIN outbox /\ k = Len(outbox) + 1
      BY <1>1, <1>2, <1>4, <3>2
    <3>3. CASE k \in DOMAIN outbox /\ j = Len(outbox) + 1
      BY <1>1, <1>2, <1>4, <3>3
    <3>4. CASE j = Len(outbox) + 1 /\ k = Len(outbox) + 1
      BY <3>4
    <3> QED BY <1>5, <3>1, <3>2, <3>3, <3>4
  <2> QED BY <1>2, <2>1, <2>2 DEF EntriesOk
<1>9. CallOk(o, intents', outbox')
  BY <1>2 DEF CallOk
<1> QED BY <1>2, <1>6, <1>7, <1>8, <1>9, CallOnce

LEMMA SignerOnce ==
    ASSUME SlotInv, OnceInv, NEW p \in Proc, Signer(p)
    PROVE  OnceInv'
<1>0. /\ op \in [Proc -> Op] /\ op[p] \in Op
      /\ Placed(op[p], intents, rows, outbox) /\ CallOk(op[p], intents, outbox)
      /\ intents \in Seq(Intent) /\ EntriesOk(intents, outbox)
  BY InvAt DEF OnceInv
<1> DEFINE i == op[p].id
<1>1. CASE AlreadyClaimed(p)
  BY <1>1, LeaveOnce DEF AlreadyClaimed
<1>2. CASE Claim(p)
  <2> DEFINE o == [op[p] EXCEPT !.at = "building", !.copy = intents[i]]
  <2>1. /\ o.at = "building" /\ o.id = i /\ o.copy = intents[i]
        /\ op' = [op EXCEPT ![p] = o] /\ intents[i].kind = "storage"
    BY <1>0, <1>2 DEF Claim, Op
  <2> HIDE DEF o
  <2>2. CallOk(o, intents, outbox) /\ ~Busy(o)
    BY <2>1 DEF CallOk, Busy
  <2> QED BY <1>2, <2>1, <2>2, MoveOnce DEF Claim
<1>3. CASE BaseUnavailable(p)
  BY <1>3, LeaveOnce DEF BaseUnavailable
<1>4. CASE Build(p)
  <2>1. PICK base \in Bases(op[p].excl) :
           op' = [op EXCEPT ![p].at = "signing", ![p].base = base]
    BY <1>4 DEF Build
  <2> DEFINE o == [op[p] EXCEPT !.at = "signing", !.base = base]
  <2>2. o.at = "signing" /\ o.id = i /\ o.copy = op[p].copy /\ op' = [op EXCEPT ![p] = o]
    BY <1>0, <2>1 DEF Op
  <2> HIDE DEF o
  <2>3. CallOk(o, intents, outbox) /\ ~Busy(o)
    BY <1>0, <1>4, <2>2 DEF Build, CallOk, Busy
  <2> QED BY <1>4, <2>2, <2>3, MoveOnce DEF Build
<1>5. CASE SignedBefore(p)
  <2>1. PICK o : /\ op' = [op EXCEPT ![p] = o] /\ ~Busy(o)
                 /\ \A is, ks : CallOk(o, is, ks)
    BY <1>5, Left DEF SignedBefore
  <2>2. i \in DOMAIN intents /\ ~SigningLocked(i)
    BY <1>0, <1>5 DEF SignedBefore, Placed
  <2>3. intents' = [intents EXCEPT ![i] = Resolved] /\ outbox' = outbox
    BY <1>5 DEF SignedBefore
  <2>4. Resolved.kind = "resolved"
    BY DEF Resolved
  <2>5. Forward(intents[i], Resolved)
    BY <2>4 DEF Forward
  <2>6. \A q \in Proc \ {p} : Busy(op[q]) => op[q].id # i
    BY <2>2, Unlocked
  <2>7. CallOk(o, intents', outbox)
    BY <2>1
  <2> HIDE DEF i
  <2> QED BY <2>1, <2>2, <2>3, <2>5, <2>6, <2>7, ForwardOnce
<1>6. CASE Replay(p)
  <2> DEFINE o == [op[p] EXCEPT !.at = "queueing", !.row = intents[i].row]
  <2>1. /\ o.at = "queueing" /\ o.id = i /\ o.row = intents[i].row
        /\ op' = [op EXCEPT ![p] = o] /\ intents[i].kind = "signed"
        /\ ~SigningLocked(i)
    BY <1>0, <1>6 DEF Replay, Op
  <2>2. \A k \in DOMAIN outbox : outbox[k].source # i
    BY <1>6 DEF Replay, EntriesOf
  <2> HIDE DEF o
  <2>3. CallOk(o, intents, outbox)
    BY <2>1, <2>2 DEF CallOk
  <2> QED BY <1>6, <2>1, <2>3, MoveOnce DEF Replay
<1>7. CASE Sign(p)
  <2> DEFINE r == Len(rows) + 1
             n == [Resolved EXCEPT !.kind = "signed", !.row = r]
             o == [op[p] EXCEPT !.at = "queueing", !.row = r]
  <2>1. /\ o.at = "queueing" /\ o.id = i /\ o.row = r
        /\ op' = [op EXCEPT ![p] = o] /\ intents[i].kind = "storage"
        /\ intents' = [intents EXCEPT ![i] = n] /\ outbox' = outbox
        /\ ~SigningLocked(i)
    BY <1>0, <1>7 DEF Sign, Op
  <2>2. n.kind = "signed" /\ n.row = r
    BY DEF Resolved
  <2>3. i \in DOMAIN intents
    BY <1>0, <1>7 DEF Sign, Placed
  <2>4. \A k \in DOMAIN outbox : outbox[k].source # i
    BY <1>0, <2>1 DEF EntriesOk
  <2> HIDE DEF n, o, r
  <2>5. CallOk(o, intents', outbox)
    <3>1. intents'[i] = n
      BY <2>1, <2>3
    <3> HIDE DEF i
    <3> QED BY <2>1, <2>2, <2>4, <3>1 DEF CallOk
  <2>6. Forward(intents[i], n)
    BY <2>1, <2>2 DEF Forward
  <2>7. \A q \in Proc \ {p} : Busy(op[q]) => op[q].id # i
    BY <2>1, Unlocked
  <2>8. ~SigningLocked(o.id)
    BY <2>1
  <2> HIDE DEF i
  <2> QED BY <2>1, <2>3, <2>5, <2>6, <2>7, <2>8, ForwardOnce
<1>8. CASE Enqueue(p)
  BY <1>8, EnqueueOnce
<1>9. CASE Link(p)
  <2> DEFINE o == [op[p] EXCEPT !.at = "sending"]
  <2>1. /\ o.at = "sending" /\ o.id = i /\ op' = [op EXCEPT ![p] = o]
        /\ intents' = [intents EXCEPT ![i] = Resolved] /\ outbox' = outbox
    BY <1>0, <1>9 DEF Link, Goes, Op
  <2>2. i \in DOMAIN intents /\ Busy(op[p])
    BY <1>0, <1>9 DEF Link, Placed, Busy
  <2>3. Resolved.kind = "resolved"
    BY DEF Resolved
  <2>4. \A q \in Proc \ {p} : Busy(op[q]) => op[q].id # i
    BY <2>2, HolderAlone
  <2> HIDE DEF o
  <2>5. CallOk(o, intents', outbox)
    BY <2>1 DEF CallOk
  <2>6. Busy(op[p]) /\ o.id = op[p].id
    BY <2>1, <2>2
  <2>7. Forward(intents[i], Resolved)
    BY <2>3 DEF Forward
  <2> HIDE DEF i
  <2> QED BY <2>1, <2>2, <2>4, <2>5, <2>6, <2>7, ForwardOnce
<1>10. CASE Settle(p)
  BY <1>10, LeaveOnce DEF Settle
<1>11. CASE Conflict(p)
  <2> DEFINE o == [op[p] EXCEPT !.at = "retrying"]
  <2>1. o.at = "retrying" /\ op' = [op EXCEPT ![p] = o]
    BY <1>0, <1>11 DEF Conflict, Goes, Op
  <2> HIDE DEF o
  <2>2. CallOk(o, intents, outbox) /\ ~Busy(o)
    BY <2>1 DEF CallOk, Busy
  <2> QED BY <1>11, <2>1, <2>2, MoveOnce DEF Conflict
<1>12. CASE Retry(p)
  <2> DEFINE n == Payload(op[p].copy.patch, op[p].copy.attempts + 1)
             o == [op[p] EXCEPT !.at = "stored", !.id = Len(intents) + 1,
                                !.excl = @ \union {Min(EntriesOf(op[p].id))}]
  <2>1. /\ o.at = "stored" /\ op' = [op EXCEPT ![p] = o]
        /\ intents' = Append(intents, n) /\ outbox' = outbox
    BY <1>0, <1>12 DEF Retry, Op
  <2>2. n \in Intent
    <3>1. /\ op[p].copy.patch \in SUBSET Edit
          /\ op[p].copy.attempts + 1 \in 0 .. MAX_CONFLICT_RECONCILE_ATTEMPTS
      <4>1. /\ op[p].copy \in Intent
            /\ op[p].copy.attempts < MAX_CONFLICT_RECONCILE_ATTEMPTS
        BY <1>0, <1>12 DEF Retry, Placed, Known
      <4>2. /\ op[p].copy.patch \in SUBSET Edit
            /\ op[p].copy.attempts \in 0 .. MAX_CONFLICT_RECONCILE_ATTEMPTS
        BY <4>1 DEF Intent
      <4> QED BY <4>1, <4>2, SlotAssumption
    <3> QED BY <3>1, PayloadKnown DEF Known
  <2> HIDE DEF n, o
  <2> QED BY <2>1, <2>2, AddOnce
<1> QED BY <1>1, <1>2, <1>3, <1>4, <1>5, <1>6, <1>7, <1>8, <1>9, <1>10, <1>11, <1>12
        DEF Signer

\* What recovery goes on with is still what it scanned, or past it.
LEMMA ProceedOk ==
    ASSUME SlotInv, OnceInv, NEW p \in Proc, Proceed(p),
           op[p].at \in {"resuming", "unmarking"}
    PROVE  \E o : /\ op' = [op EXCEPT ![p] = o] /\ ~Busy(o)
                  /\ \A is, ks : is[op[p].id].kind = intents[op[p].id].kind =>
                        CallOk(o, is, ks)
<1>0. /\ op \in [Proc -> Op] /\ op[p] \in Op
      /\ Placed(op[p], intents, rows, outbox) /\ CallOk(op[p], intents, outbox)
  BY InvAt DEF OnceInv
<1>1. CASE op[p].copy.kind = "storage"
  <2> DEFINE o == [op[p] EXCEPT !.at = "stored", !.read = Resolved]
  <2>1. o.at = "stored" /\ op' = [op EXCEPT ![p] = o]
    BY <1>0, <1>1 DEF Proceed, Op
  <2> HIDE DEF o
  <2>2. ~Busy(o) /\ \A is, ks : CallOk(o, is, ks)
    BY <2>1 DEF CallOk, Busy
  <2> QED BY <2>1, <2>2
<1>2. CASE op[p].copy.kind # "storage"
  <2> DEFINE r == op[p].copy.row
             copy == [op[p].copy EXCEPT !.patch = rows[r].patch]
             o == [op[p] EXCEPT !.at = "signing", !.read = Resolved,
                                !.copy = copy, !.base = rows[r].parent]
  <2>1. op[p].copy \in Intent /\ op[p].copy.kind = "signed"
    BY <1>0, <1>2 DEF Placed, Known, Intent
  <2>2. copy.kind = "signed"
    BY <2>1 DEF Intent
  <2>3. op' = [op EXCEPT ![p] = o]
    BY <1>0, <1>2, <2>1 DEF Proceed, Op
  <2>4. intents[op[p].id].kind # "storage"
    BY <1>0, <2>1 DEF CallOk
  <2> HIDE DEF copy, r
  <2>5. o.at = "signing" /\ o.id = op[p].id /\ o.copy = copy
    BY <1>0 DEF Op
  <2> HIDE DEF o
  <2>6. ~Busy(o)
    BY <2>5 DEF Busy
  <2>7. ASSUME NEW is, NEW ks, is[op[p].id].kind = intents[op[p].id].kind
        PROVE  CallOk(o, is, ks)
    BY <2>2, <2>4, <2>5, <2>7 DEF CallOk
  <2> QED BY <2>3, <2>6, <2>7
<1> QED BY <1>1, <1>2

LEMMA RecoverOnce ==
    ASSUME SlotInv, OnceInv, NEW p \in Pass, Recover(p)
    PROVE  OnceInv'
<1> p \in Proc
  BY DEF Proc
<1>0. /\ op \in [Proc -> Op] /\ op[p] \in Op
      /\ Placed(op[p], intents, rows, outbox) /\ CallOk(op[p], intents, outbox)
      /\ intents \in Seq(Intent)
  BY InvAt DEF OnceInv
<1> DEFINE i == op[p].id
           reading(stage) == [op[p] EXCEPT !.at = stage, !.read = intents[i]]
<1>1. \A stage \in {"marking", "unmarking"} :
         LET o == reading(stage) IN
         o.at = stage /\ o.id = i /\ o.copy = op[p].copy /\ o.read = intents[i]
  BY <1>0 DEF Op
<1>2. CASE AwaitUnlock(p)
  <2>1. CASE Leave(p)
    BY <1>2, <2>1, LeaveOnce DEF AwaitUnlock
  <2>2. CASE op' = [op EXCEPT ![p].at = "marking", ![p].read = intents[i]] /\ UNCHANGED slotLock
    <3>1. op' = [op EXCEPT ![p] = reading("marking")]
      BY <1>0, <2>2
    <3>2. PICK o : o = reading("marking")
      OBVIOUS
    <3>3. o.at = "marking" /\ o.id = i /\ o.read = intents[i]
      BY <1>1, <3>2
    <3>4. CallOk(o, intents, outbox)
      BY <3>3 DEF CallOk
    <3>5. ~SigningLocked(o.id)
      BY <1>2, <3>3 DEF AwaitUnlock
    <3> HIDE DEF reading
    <3> QED BY <1>2, <3>1, <3>2, <3>4, <3>5, MoveOnce DEF AwaitUnlock
  <2> QED BY <1>2, <2>1, <2>2 DEF AwaitUnlock
<1>3. ASSUME op[p].at \in {"marking", "unmarking"}, NEW b \in BOOLEAN,
             NEW n, n = [op[p].read EXCEPT !.awaiting = b]
      PROVE  /\ i \in DOMAIN intents /\ Busy(op[p])
             /\ n.kind = intents[i].kind /\ n.patch = intents[i].patch
             /\ n.row = intents[i].row
  <2>1. i \in DOMAIN intents
    BY <1>0, <1>3 DEF Placed
  <2>2. op[p].read = intents[i] /\ intents[i] \in Intent
    BY <1>0, <1>3, <2>1 DEF CallOk
  <2> QED BY <1>3, <2>1, <2>2 DEF Busy, Intent
<1>4. CASE Mark(p)
  <2> DEFINE n == [op[p].read EXCEPT !.awaiting = TRUE]
  <2>1. PICK o : /\ op' = [op EXCEPT ![p] = o] /\ ~Busy(o)
                 /\ \A is, ks : CallOk(o, is, ks)
    BY <1>4, Left DEF Mark
  <2>2. /\ i \in DOMAIN intents /\ Busy(op[p])
        /\ n.kind = intents[i].kind /\ n.patch = intents[i].patch
        /\ n.row = intents[i].row
    BY <1>3, <1>4 DEF Mark
  <2>3. intents' = [intents EXCEPT ![i] = n] /\ outbox' = outbox
    BY <1>4 DEF Mark
  <2>4. \A q \in Proc \ {p} : Busy(op[q]) => op[q].id # i
    BY <2>2, HolderAlone
  <2>5. CallOk(o, intents', outbox)
    BY <2>1
  <2>6. Forward(intents[i], n)
    BY <2>2 DEF Forward
  <2> HIDE DEF n, i
  <2> QED BY <2>1, <2>2, <2>3, <2>4, <2>5, <2>6, ForwardOnce
<1>5. CASE Resume(p)
  <2>1. CASE Leave(p)
    BY <1>5, <2>1, LeaveOnce DEF Resume
  <2>2. CASE Proceed(p) /\ UNCHANGED slotLock
    <3>1. PICK o : /\ op' = [op EXCEPT ![p] = o] /\ ~Busy(o)
                   /\ \A is, ks : is[op[p].id].kind = intents[op[p].id].kind =>
                         CallOk(o, is, ks)
      BY <1>5, <2>2, ProceedOk DEF Resume
    <3>2. CallOk(o, intents, outbox)
      BY <3>1
    <3> QED BY <1>5, <3>1, <3>2, MoveOnce DEF Resume
  <2>3. CASE /\ op' = [op EXCEPT ![p].at = "unmarking", ![p].read = intents[i]]
             /\ intents[i].kind # "resolved" /\ UNCHANGED slotLock
    <3>1. op' = [op EXCEPT ![p] = reading("unmarking")]
      BY <1>0, <2>3
    <3>2. PICK o : o = reading("unmarking")
      OBVIOUS
    <3>3. o.at = "unmarking" /\ o.id = i /\ o.read = intents[i] /\ o.copy = op[p].copy
      BY <1>1, <3>2
    <3>4. CallOk(o, intents, outbox)
      BY <1>0, <1>5, <3>3 DEF Resume, CallOk
    <3>5. ~SigningLocked(o.id)
      BY <1>5, <3>3 DEF Resume
    <3> HIDE DEF reading
    <3> QED BY <1>5, <3>1, <3>2, <3>4, <3>5, MoveOnce DEF Resume
  <2> QED BY <1>5, <2>1, <2>2, <2>3 DEF Resume
<1>6. CASE Unmark(p)
  <2> DEFINE n == [op[p].read EXCEPT !.awaiting = FALSE]
  <2>1. PICK o : /\ op' = [op EXCEPT ![p] = o] /\ ~Busy(o)
                 /\ \A is, ks : is[op[p].id].kind = intents[op[p].id].kind =>
                       CallOk(o, is, ks)
    BY <1>6, ProceedOk DEF Unmark
  <2>2. /\ i \in DOMAIN intents /\ Busy(op[p])
        /\ n.kind = intents[i].kind /\ n.patch = intents[i].patch
        /\ n.row = intents[i].row
    BY <1>3, <1>6 DEF Unmark
  <2>3. intents' = [intents EXCEPT ![i] = n] /\ outbox' = outbox
    BY <1>6 DEF Unmark
  <2>4. \A q \in Proc \ {p} : Busy(op[q]) => op[q].id # i
    BY <2>2, HolderAlone
  <2>5. CallOk(o, intents', outbox)
    <3>1. intents'[i].kind = intents[i].kind
      BY <1>0, <2>2, <2>3
    <3> QED BY <2>1, <3>1
  <2>6. Forward(intents[i], n)
    BY <2>2 DEF Forward
  <2> HIDE DEF n, i
  <2> QED BY <2>1, <2>2, <2>3, <2>4, <2>5, <2>6, ForwardOnce
<1> QED BY <1>2, <1>4, <1>5, <1>6 DEF Recover

LEMMA ScanOnce ==
    ASSUME SlotInv, OnceInv, NEW p \in Pass, NEW i \in DOMAIN intents, Scan(p, i)
    PROVE  OnceInv'
<1> p \in Proc
  BY DEF Proc
<1>0. op \in [Proc -> Op] /\ op[p] \in Op
  BY InvAt
<1> DEFINE o == [op[p] EXCEPT !.at = "resuming", !.id = i, !.copy = intents[i]]
<1>1. /\ o.at = "resuming" /\ o.id = i /\ o.copy = intents[i]
      /\ op' = [op EXCEPT ![p] = o]
  BY <1>0 DEF Scan, Op
<1> HIDE DEF o
<1>2. CallOk(o, intents, outbox) /\ ~Busy(o)
  BY <1>1 DEF CallOk, Busy
<1> QED BY <1>1, <1>2, MoveOnce DEF Scan

\* What the outbox holds of each entry but its status.
LEMMA DeliverOnce ==
    ASSUME SlotInv, OnceInv, NEW k \in DOMAIN outbox, Deliver(k)
    PROVE  OnceInv'
<1>1. outbox \in Seq(Entry)
  BY WorldInv
<1>2. /\ DOMAIN outbox' = DOMAIN outbox
      /\ \A j \in DOMAIN outbox :
            outbox'[j].row = outbox[j].row /\ outbox'[j].source = outbox[j].source
  <2>1. \E st : outbox' = [outbox EXCEPT ![k].status = st]
    BY DEF Deliver
  <2>2. PICK st : outbox' = [outbox EXCEPT ![k].status = st]
    BY <2>1
  <2> QED BY <1>1, <2>2 DEF Entry
<1>3. op' = op /\ intents' = intents
  BY DEF Deliver
<1>4. \A q \in Proc : CallOk(op[q], intents, outbox')
  <2> TAKE q \in Proc
  <2>1. CallOk(op[q], intents, outbox)
    BY DEF OnceInv
  <2> QED BY <1>2, <2>1 DEF CallOk
<1>5. EntriesOk(intents, outbox')
  BY <1>2 DEF OnceInv, EntriesOk
<1> QED BY <1>3, <1>4, <1>5 DEF OnceInv

LEMMA InitOnce ==
    Init => OnceInv
<1> SUFFICES ASSUME Init PROVE OnceInv
  OBVIOUS
<1>1. intents = <<>> /\ outbox = <<>> /\ op = [p \in Proc |-> Idle]
  BY DEF Init
<1>2. \A p \in Proc : op[p] = Idle
  BY <1>1
<1>3. ~Busy(Idle) /\ CallOk(Idle, intents, outbox)
  BY DEF Idle, Busy, CallOk
<1>4. DOMAIN outbox = {}
  BY <1>1
<1> QED BY <1>2, <1>3, <1>4 DEF OnceInv, EntriesOk

LEMMA NextOnce ==
    SlotInv /\ OnceInv /\ InTime /\ [Next]_vars => OnceInv'
<1> SUFFICES ASSUME SlotInv, OnceInv, InTime, [Next]_vars PROVE OnceInv'
  OBVIOUS
<1>1. CASE \E e \in Edit : Call(e)
  BY <1>1, EditOnce
<1>2. CASE \E p \in Proc : Signer(p)
  BY <1>2, SignerOnce
<1>3. CASE \E p \in Proc : Stop(p)
  BY <1>3, LeaveOnce DEF Stop
<1>4. CASE \E p \in Pass : Recover(p)
  BY <1>4, RecoverOnce
<1>5. CASE \E p \in Pass : \E i \in DOMAIN intents : Scan(p, i)
  BY <1>5, ScanOnce
<1>6. CASE \E k \in DOMAIN outbox : Deliver(k)
  BY <1>6, DeliverOnce
<1>7. CASE UNCHANGED <<intents, outbox, op>>
  BY <1>7 DEF OnceInv
<1> QED BY <1>1, <1>2, <1>3, <1>4, <1>5, <1>6, <1>7
        DEF Next, LoseAnswer, ForeignWrite, Sync, vars

LEMMA OnceMeans ==
    SlotInv /\ OnceInv => QueuedOnce
<1> SUFFICES ASSUME SlotInv, OnceInv, NEW i \in DOMAIN intents
             PROVE  Cardinality(EntriesOf(i)) <= 1
  BY DEF QueuedOnce
<1>1. \A j, k \in EntriesOf(i) : j = k
  BY DEF OnceInv, EntriesOk, EntriesOf
<1>2. CASE EntriesOf(i) = {}
  <2>1. Cardinality({}) = 0
    BY FS_EmptySet
  <2> QED BY <1>2, <2>1
<1>3. CASE EntriesOf(i) # {}
  <2>1. PICK k : k \in EntriesOf(i)
    BY <1>3
  <2>2. EntriesOf(i) = {k}
    BY <1>1, <2>1
  <2>3. Cardinality({k}) = 1
    BY FS_Singleton
  <2> QED BY <2>2, <2>3
<1> QED BY <1>2, <1>3

\* As long as merges are stored in time, an intent is queued at most once,
\* however many passes recover it and wherever they or a call stop: the signing
\* lock keeps others off the record from the look at the outbox to the entry,
\* and a record never becomes a payload again (signAndDispatchIntent,
\* findEntryBySourceIntentId).
THEOREM QueuedOnceInTime == Spec /\ []InTime => []QueuedOnce
BY InitInv, NextInv, InitOnce, NextOnce, OnceMeans, PTL DEF Spec

----------------------------------------------------------------------------
(* An edit found durable is never nowhere.                                  *)

KeptInv ==
    /\ \A r \in DOMAIN rows : rows[r].patch \subseteq rows[r].value
    /\ \A k \in DOMAIN outbox :
          outbox[k].status = "accepted" => rows[outbox[k].row].value \subseteq Value(tip)
    /\ EditsKept

Holds(n, rs, e) ==
    \/ n.kind = "storage" /\ e \in n.patch
    \/ n.kind = "signed" /\ e \in rs[n.row].patch

\* What is left of an intent once the outbox holds its row.
LEMMA EntryKeeps ==
    ASSUME SlotInv, OnceInv, KeptInv, NEW k \in DOMAIN outbox,
           NEW e, Holds(intents[outbox[k].source], rows, e)
    PROVE  \/ e \in Value(tip)
           \/ outbox[k].status \in {"queued", "refused"} /\ e \in rows[outbox[k].row].patch
<1>1. outbox[k].row \in DOMAIN rows /\ outbox[k] \in Entry
  BY WorldInv
<1>2. e \in rows[outbox[k].row].patch
  BY DEF OnceInv, EntriesOk, Holds
<1>3. CASE outbox[k].status = "accepted"
  BY <1>1, <1>2, <1>3 DEF KeptInv
<1>4. CASE outbox[k].status # "accepted"
  BY <1>1, <1>2, <1>4 DEF Entry
<1> QED BY <1>3, <1>4

\* Revisions, entries and the tip only grow: an edit is kept as long as each
\* record that holds it still does, or an entry has its row.
LEMMA StillKept ==
    ASSUME SlotInv, SlotInv', OnceInv, KeptInv, Grows(rows, rows'),
           Value(tip) \subseteq Value(tip)', NEW i, NEW e \in saved,
           \A j \in DOMAIN intents : j # i => j \in DOMAIN intents' /\ intents'[j] = intents[j],
           i \in DOMAIN intents /\ Holds(intents[i], rows, e) =>
               \/ i \in DOMAIN intents' /\ Holds(intents'[i], rows', e)
               \/ \E k \in DOMAIN outbox : outbox[k].source = i,
           DOMAIN outbox \subseteq DOMAIN outbox',
           \A k \in DOMAIN outbox : outbox'[k] = outbox[k]
    PROVE  Kept(e)'
<1>1. Kept(e)
  BY DEF KeptInv, EditsKept
<1>2. /\ \A r \in DOMAIN rows : rows'[r] = rows[r]
      /\ \A j \in DOMAIN intents : Known(intents[j], rows)
      /\ \A k \in DOMAIN outbox : outbox[k].row \in DOMAIN rows
  BY DEF SlotInv, Grows
<1>3. CASE e \in Value(tip)
  BY <1>3 DEF Kept
<1>4. ASSUME NEW k \in DOMAIN outbox, outbox[k].status \in {"queued", "refused"},
             e \in rows[outbox[k].row].patch
      PROVE  Kept(e)'
  <2>1. /\ k \in DOMAIN outbox' /\ outbox'[k].status \in {"queued", "refused"}
        /\ e \in rows'[outbox'[k].row].patch
    BY <1>2, <1>4
  <2> QED BY <2>1 DEF Kept
<1>5. ASSUME NEW j \in DOMAIN intents', Holds(intents'[j], rows', e)
      PROVE  Kept(e)'
  BY <1>5 DEF Kept, Holds
<1>6. ASSUME NEW j \in DOMAIN intents, Holds(intents[j], rows, e)
      PROVE  Kept(e)'
  <2>1. CASE j # i
    <3>1. j \in DOMAIN intents' /\ intents'[j] = intents[j]
      BY <2>1
    <3>2. Holds(intents'[j], rows', e)
      BY <1>2, <1>6, <3>1 DEF Holds, Known
    <3> QED BY <1>5, <3>1, <3>2
  <2>2. CASE j = i /\ Holds(intents'[i], rows', e) /\ i \in DOMAIN intents'
    BY <1>5, <2>2
  <2>3. CASE j = i /\ \E k \in DOMAIN outbox : outbox[k].source = i
    <3>1. PICK k \in DOMAIN outbox : outbox[k].source = i
      BY <2>3
    <3>2. \/ e \in Value(tip)
          \/ outbox[k].status \in {"queued", "refused"} /\ e \in rows[outbox[k].row].patch
      BY <1>6, <2>3, <3>1, EntryKeeps
    <3>3. CASE e \in Value(tip)
      BY <1>3, <3>3
    <3> QED BY <1>4, <3>2, <3>3
  <2> QED BY <1>6, <2>1, <2>2, <2>3
<1>7. \/ \E j \in DOMAIN intents : Holds(intents[j], rows, e)
      \/ \E k \in DOMAIN outbox : outbox[k].status \in {"queued", "refused"}
                                  /\ e \in rows[outbox[k].row].patch
      \/ e \in Value(tip)
  BY <1>1 DEF Kept, Holds
<1> QED BY <1>3, <1>4, <1>6, <1>7

LEMMA KeptStep ==
    ASSUME SlotInv, SlotInv', OnceInv, KeptInv, Grows(rows, rows'),
           Value(tip) \subseteq Value(tip)',
           \A r \in DOMAIN rows' : r \in DOMAIN rows \/ rows'[r].patch \subseteq rows'[r].value,
           NEW i,
           \A j \in DOMAIN intents : j # i => j \in DOMAIN intents' /\ intents'[j] = intents[j],
           \A e \in saved : i \in DOMAIN intents /\ Holds(intents[i], rows, e) =>
               \/ i \in DOMAIN intents' /\ Holds(intents'[i], rows', e)
               \/ \E k \in DOMAIN outbox : outbox[k].source = i,
           DOMAIN outbox \subseteq DOMAIN outbox',
           \A k \in DOMAIN outbox : outbox'[k] = outbox[k],
           \A k \in DOMAIN outbox' : k \in DOMAIN outbox \/ outbox'[k].status # "accepted",
           \A e \in saved' : e \in saved \/ \E j \in DOMAIN intents' : Holds(intents'[j], rows', e)
    PROVE  KeptInv'
<1>1. /\ \A r \in DOMAIN rows : rows'[r] = rows[r]
      /\ \A k \in DOMAIN outbox : outbox[k].row \in DOMAIN rows
  BY DEF SlotInv, Grows
<1>2. \A r \in DOMAIN rows' : rows'[r].patch \subseteq rows'[r].value
  BY <1>1 DEF KeptInv
<1>3. \A k \in DOMAIN outbox' :
         outbox'[k].status = "accepted" => rows'[outbox'[k].row].value \subseteq Value(tip)'
  <2> SUFFICES ASSUME NEW k \in DOMAIN outbox, outbox[k].status = "accepted"
               PROVE  rows'[outbox[k].row].value \subseteq Value(tip)'
    OBVIOUS
  <2>1. rows[outbox[k].row].value \subseteq Value(tip)
    BY DEF KeptInv
  <2> QED BY <1>1, <2>1
<1>4. \A e \in saved' : Kept(e)'
  <2> TAKE e \in saved'
  <2>1. CASE e \in saved
    BY <2>1, StillKept
  <2>2. CASE \E j \in DOMAIN intents' : Holds(intents'[j], rows', e)
    BY <2>2 DEF Kept, Holds
  <2> QED BY <2>1, <2>2
<1> QED BY <1>2, <1>3, <1>4 DEF KeptInv, EditsKept

\* Nothing a kept edit rests on changes.
LEMMA SameKept ==
    ASSUME KeptInv, UNCHANGED <<intents, rows, outbox, tip, saved>>
    PROVE  KeptInv'
BY DEF KeptInv, EditsKept, Kept, Value

\* Of the records one changes, and what it held is there or queued.
LEMMA RecordKept ==
    ASSUME SlotInv, SlotInv', OnceInv, KeptInv, UNCHANGED <<rows, outbox, tip>>,
           NEW i \in DOMAIN intents, NEW n, intents' = [intents EXCEPT ![i] = n],
           \A e \in saved : Holds(intents[i], rows, e) =>
               Holds(n, rows, e) \/ \E k \in DOMAIN outbox : outbox[k].source = i,
           \A e \in saved' : e \in saved \/ Holds(n, rows, e)
    PROVE  KeptInv'
<1>1. /\ DOMAIN intents' = DOMAIN intents /\ intents'[i] = n
      /\ \A j \in DOMAIN intents : j # i => intents'[j] = intents[j]
  BY DEF SlotInv, TypeOK
<1>2. Grows(rows, rows') /\ Value(tip)' = Value(tip)
  BY WorldInv DEF Value
<1>3. \A e \in saved : i \in DOMAIN intents /\ Holds(intents[i], rows, e) =>
         \/ i \in DOMAIN intents' /\ Holds(intents'[i], rows', e)
         \/ \E k \in DOMAIN outbox : outbox[k].source = i
  BY <1>1
<1>4. \A e \in saved' : e \in saved \/ \E j \in DOMAIN intents' : Holds(intents'[j], rows', e)
  BY <1>1
<1>5. /\ \A r \in DOMAIN rows' : r \in DOMAIN rows \/ rows'[r].patch \subseteq rows'[r].value
      /\ \A j \in DOMAIN intents : j # i => j \in DOMAIN intents' /\ intents'[j] = intents[j]
      /\ \A k \in DOMAIN outbox' : k \in DOMAIN outbox \/ outbox'[k].status # "accepted"
      /\ DOMAIN outbox \subseteq DOMAIN outbox'
      /\ \A k \in DOMAIN outbox : outbox'[k] = outbox[k]
  BY <1>1
<1> QED BY <1>2, <1>3, <1>4, <1>5, KeptStep

\* No record changes; one may be added.
LEMMA AddedKept ==
    ASSUME SlotInv, SlotInv', OnceInv, KeptInv, UNCHANGED <<rows, outbox, tip>>,
           NEW n, intents' = Append(intents, n),
           \A e \in saved' : e \in saved \/ Holds(n, rows, e)
    PROVE  KeptInv'
<1>1. /\ intents \in Seq(Intent) /\ intents'[Len(intents) + 1] = n
      /\ Len(intents) + 1 \in DOMAIN intents' /\ 0 \notin DOMAIN intents
      /\ \A j \in DOMAIN intents : j \in DOMAIN intents' /\ intents'[j] = intents[j]
  BY DEF SlotInv, TypeOK
<1>2. Grows(rows, rows') /\ Value(tip)' = Value(tip)
  BY WorldInv DEF Value
<1>3. \A e \in saved' : e \in saved \/ \E j \in DOMAIN intents' : Holds(intents'[j], rows', e)
  BY <1>1
<1>4. /\ \A r \in DOMAIN rows' : r \in DOMAIN rows \/ rows'[r].patch \subseteq rows'[r].value
      /\ \A k \in DOMAIN outbox' : k \in DOMAIN outbox \/ outbox'[k].status # "accepted"
      /\ DOMAIN outbox \subseteq DOMAIN outbox'
      /\ \A k \in DOMAIN outbox : outbox'[k] = outbox[k]
  OBVIOUS
<1> QED BY <1>1, <1>2, <1>3, <1>4, KeptStep

LEMMA EditKept ==
    ASSUME SlotInv, SlotInv', OnceInv, KeptInv, InTime, NEW e \in Edit, Call(e)
    PROVE  KeptInv'
<1>0. /\ op[e] \in Op /\ Placed(op[e], intents, rows, outbox)
      /\ CallOk(op[e], intents, outbox) /\ intents \in Seq(Intent)
  BY InvAt DEF OnceInv, Proc
<1>1. CASE FindNone(e) \/ Find(e) \/ Merge(e) \/ NoKey(e)
  BY <1>1, SameKept DEF FindNone, Find, Merge, NoKey
<1>2. CASE Create(e)
  <2> DEFINE n == Payload({e}, 0)
  <2>1. n.kind = "storage" /\ n.patch = {e}
    BY DEF Payload, Resolved
  <2>2. /\ intents' = Append(intents, n) /\ saved' = saved \union {e}
        /\ UNCHANGED <<rows, outbox, tip>>
    BY <1>2 DEF Create
  <2> HIDE DEF n
  <2>3. \A x \in saved' : x \in saved \/ Holds(n, rows, x)
    BY <2>1, <2>2 DEF Holds
  <2> QED BY <2>2, <2>3, AddedKept
<1>3. CASE Store(e)
  <2> DEFINE i == op[e].id
             n == [op[e].copy EXCEPT !.awaiting = FALSE]
  <2>1. /\ intents' = [intents EXCEPT ![i] = n] /\ saved' = saved \union {e}
        /\ UNCHANGED <<rows, outbox, tip>>
    BY <1>3 DEF Store
  <2>2. i \in DOMAIN intents /\ intents[i] \in Intent /\ op[e].copy \in Intent
    BY <1>0, <1>3 DEF Store, Placed, Known
  <2>3. /\ op[e].copy = [intents[i] EXCEPT !.patch = @ \union {e}]
        /\ op[e].copy.kind = "storage"
    BY <1>0, <1>3 DEF Store, InTime, CallOk
  <2>4. n.kind = "storage" /\ n.patch = intents[i].patch \union {e} /\ intents[i].kind = "storage"
    BY <2>2, <2>3 DEF Intent
  <2> HIDE DEF n, i
  <2>5. /\ \A x \in saved : Holds(intents[i], rows, x) => Holds(n, rows, x)
        /\ \A x \in saved' : x \in saved \/ Holds(n, rows, x)
    BY <2>1, <2>4 DEF Holds
  <2> QED BY <2>1, <2>2, <2>5, RecordKept
<1> QED BY <1>1, <1>2, <1>3 DEF Call

LEMMA SignKept ==
    ASSUME SlotInv, SlotInv', OnceInv, KeptInv, NEW p \in Proc, Sign(p)
    PROVE  KeptInv'
<1>0. /\ op[p] \in Op /\ Placed(op[p], intents, rows, outbox)
      /\ CallOk(op[p], intents, outbox) /\ intents \in Seq(Intent)
      /\ rows \in Seq(Row) /\ rows' \in Seq(Row) /\ tip \in 0 .. Len(rows)
  BY InvAt DEF OnceInv, SlotInv, TypeOK
<1> DEFINE i == op[p].id
           r == Len(rows) + 1
           row == [patch |-> op[p].copy.patch, parent |-> op[p].base,
                   value |-> Value(op[p].base) \union op[p].copy.patch]
           n == [Resolved EXCEPT !.kind = "signed", !.row = r]
<1>1. /\ rows' = Append(rows, row) /\ intents' = [intents EXCEPT ![i] = n]
      /\ intents[i].kind = "storage" /\ UNCHANGED <<outbox, tip, saved>>
  BY DEF Sign
<1>2. row.patch = op[p].copy.patch /\ row.patch \subseteq row.value
  OBVIOUS
<1>3. n.kind = "signed" /\ n.row = r
  BY DEF Resolved
<1>4. i \in DOMAIN intents
  BY <1>0 DEF Sign, Placed
<1>5. op[p].copy.patch = intents[i].patch
  <2>1. op[p].copy.kind = "storage"
    <3>1. op[p].copy.kind \in {"storage", "signed"}
      BY <1>0 DEF Sign, CallOk, Placed, Known, Intent
    <3> QED BY <1>0, <1>1, <3>1 DEF Sign, CallOk
  <2> QED BY <1>0, <1>1, <2>1 DEF Sign, CallOk
<1> HIDE DEF row, n
<1>6. /\ DOMAIN rows' = 1 .. r /\ rows'[r] = row
      /\ \A s \in DOMAIN rows : rows'[s] = rows[s]
      /\ DOMAIN rows = 1 .. Len(rows) /\ Len(rows) \in Nat
  <2>1. rows' \in Seq(Row) /\ Len(rows') = r
    BY <1>0, <1>1
  <2> QED BY <1>0, <1>1, <2>1
<1>7. Grows(rows, rows') /\ Value(tip)' = Value(tip)
  <2>1. Len(rows') = r
    BY <1>0, <1>1
  <2>2. tip # 0 => tip \in DOMAIN rows
    BY <1>0, <1>6
  <2> QED BY <1>1, <1>6, <2>1, <2>2 DEF Grows, Value
<1>8. \A s \in DOMAIN rows' : s \in DOMAIN rows \/ rows'[s].patch \subseteq rows'[s].value
  BY <1>2, <1>6
<1>9. /\ DOMAIN intents' = DOMAIN intents /\ intents'[i] = n
      /\ \A j \in DOMAIN intents : j # i => intents'[j] = intents[j]
  BY <1>0, <1>1, <1>4
<1> HIDE DEF r
<1>10. \A e \in saved : i \in DOMAIN intents /\ Holds(intents[i], rows, e) =>
          i \in DOMAIN intents' /\ Holds(intents'[i], rows', e)
  BY <1>1, <1>2, <1>3, <1>5, <1>6, <1>9 DEF Holds
<1> HIDE DEF i
<1>11. /\ \A j \in DOMAIN intents : j # i => j \in DOMAIN intents' /\ intents'[j] = intents[j]
       /\ \A k \in DOMAIN outbox' : k \in DOMAIN outbox \/ outbox'[k].status # "accepted"
       /\ \A e \in saved' : e \in saved \/ \E j \in DOMAIN intents' : Holds(intents'[j], rows', e)
       /\ DOMAIN outbox \subseteq DOMAIN outbox'
       /\ \A k \in DOMAIN outbox : outbox'[k] = outbox[k]
  BY <1>1, <1>9
<1>12. \A e \in saved : i \in DOMAIN intents /\ Holds(intents[i], rows, e) =>
          \/ i \in DOMAIN intents' /\ Holds(intents'[i], rows', e)
          \/ \E k \in DOMAIN outbox : outbox[k].source = i
  BY <1>10
<1>13. Value(tip) \subseteq Value(tip)'
  BY <1>7
<1> QED BY <1>7, <1>8, <1>11, <1>12, <1>13, KeptStep

LEMMA EnqueueKept ==
    ASSUME SlotInv, SlotInv', OnceInv, KeptInv, NEW p \in Proc, Enqueue(p)
    PROVE  KeptInv'
<1> DEFINE entry == [row |-> op[p].row, source |-> op[p].id,
                     deps |-> Dependencies(op[p].excl), status |-> "queued"]
<1>1. /\ outbox' = Append(outbox, entry) /\ UNCHANGED <<intents, rows, tip, saved>>
      /\ entry.status = "queued"
  BY DEF Enqueue
<1> HIDE DEF entry
<1>2. outbox \in Seq(Entry) /\ outbox' \in Seq(Entry) /\ 0 \notin DOMAIN intents
  BY DEF SlotInv, TypeOK
<1>3. /\ DOMAIN outbox \subseteq DOMAIN outbox'
      /\ \A k \in DOMAIN outbox : outbox'[k] = outbox[k]
      /\ \A k \in DOMAIN outbox' : k \in DOMAIN outbox \/ outbox'[k].status # "accepted"
  BY <1>1, <1>2
<1>4. Grows(rows, rows') /\ Value(tip) \subseteq Value(tip)'
  BY <1>1, WorldInv DEF Value
<1>5. /\ \A r \in DOMAIN rows' : r \in DOMAIN rows \/ rows'[r].patch \subseteq rows'[r].value
      /\ \A j \in DOMAIN intents : j # 0 => j \in DOMAIN intents' /\ intents'[j] = intents[j]
      /\ \A e \in saved' : e \in saved \/ \E j \in DOMAIN intents' : Holds(intents'[j], rows', e)
  BY <1>1
<1>6. \A e \in saved : 0 \in DOMAIN intents /\ Holds(intents[0], rows, e) =>
         \/ 0 \in DOMAIN intents' /\ Holds(intents'[0], rows', e)
         \/ \E k \in DOMAIN outbox : outbox[k].source = 0
  BY <1>2
<1> QED BY <1>3, <1>4, <1>5, <1>6, KeptStep

LEMMA SignerKept ==
    ASSUME SlotInv, SlotInv', OnceInv, KeptInv, NEW p \in Proc, Signer(p)
    PROVE  KeptInv'
<1>0. /\ op[p] \in Op /\ Placed(op[p], intents, rows, outbox)
      /\ CallOk(op[p], intents, outbox) /\ intents \in Seq(Intent)
  BY InvAt DEF OnceInv
<1> DEFINE i == op[p].id
<1>1. CASE AlreadyClaimed(p) \/ Claim(p) \/ BaseUnavailable(p) \/ Build(p) \/ Replay(p)
             \/ Settle(p) \/ Conflict(p)
  BY <1>1, SameKept DEF AlreadyClaimed, Claim, BaseUnavailable, Build, Replay, Settle, Conflict
<1>2. CASE SignedBefore(p)
  <2>1. /\ intents' = [intents EXCEPT ![i] = Resolved]
        /\ UNCHANGED <<rows, outbox, tip, saved>>
    BY <1>2 DEF SignedBefore
  <2>2. i \in DOMAIN intents
    BY <1>0, <1>2 DEF SignedBefore, Placed
  <2>3. \A e \in saved : Holds(intents[i], rows, e) =>
           \E k \in DOMAIN outbox : outbox[k].source = i
    BY <1>2 DEF SignedBefore, EntriesOf, Holds
  <2> HIDE DEF i
  <2> QED BY <2>1, <2>2, <2>3, RecordKept
<1>3. CASE Sign(p)
  BY <1>3, SignKept
<1>4. CASE Enqueue(p)
  BY <1>4, EnqueueKept
<1>5. CASE Link(p)
  <2>1. /\ intents' = [intents EXCEPT ![i] = Resolved]
        /\ UNCHANGED <<rows, outbox, tip, saved>>
    BY <1>5 DEF Link
  <2>2. /\ i \in DOMAIN intents /\ op[p].entry \in DOMAIN outbox
        /\ outbox[op[p].entry].source = i
    BY <1>0, <1>5 DEF Link, Placed
  <2>3. \A e \in saved : Holds(intents[i], rows, e) =>
           \E k \in DOMAIN outbox : outbox[k].source = i
    BY <2>2
  <2> HIDE DEF i
  <2> QED BY <2>1, <2>2, <2>3, RecordKept
<1>6. CASE Retry(p)
  <2> DEFINE n == Payload(op[p].copy.patch, op[p].copy.attempts + 1)
  <2>1. intents' = Append(intents, n) /\ UNCHANGED <<rows, outbox, tip, saved>>
    BY <1>6 DEF Retry
  <2> HIDE DEF n
  <2> QED BY <2>1, AddedKept
<1> QED BY <1>1, <1>2, <1>3, <1>4, <1>5, <1>6 DEF Signer

LEMMA RecoverKept ==
    ASSUME SlotInv, SlotInv', OnceInv, KeptInv, NEW p \in Pass, Recover(p)
    PROVE  KeptInv'
<1> p \in Proc
  BY DEF Proc
<1>0. /\ Placed(op[p], intents, rows, outbox) /\ CallOk(op[p], intents, outbox)
      /\ intents \in Seq(Intent)
  BY InvAt DEF OnceInv
<1> DEFINE i == op[p].id
<1>1. CASE AwaitUnlock(p) \/ Resume(p)
  BY <1>1, SameKept DEF AwaitUnlock, Resume
<1>2. ASSUME op[p].at \in {"marking", "unmarking"}, NEW b \in BOOLEAN,
             intents' = [intents EXCEPT ![i] = [op[p].read EXCEPT !.awaiting = b]],
             UNCHANGED <<rows, outbox, tip, saved>>
      PROVE  KeptInv'
  <2> DEFINE n == [op[p].read EXCEPT !.awaiting = b]
  <2>1. i \in DOMAIN intents /\ intents[i] \in Intent /\ op[p].read = intents[i]
    BY <1>0, <1>2 DEF Placed, CallOk
  <2>2. n.kind = intents[i].kind /\ n.patch = intents[i].patch /\ n.row = intents[i].row
    BY <2>1 DEF Intent
  <2>3. intents' = [intents EXCEPT ![i] = n]
    BY <1>2
  <2> HIDE DEF n, i
  <2>4. \A e \in saved : Holds(intents[i], rows, e) => Holds(n, rows, e)
    BY <2>2 DEF Holds
  <2> QED BY <1>2, <2>1, <2>3, <2>4, RecordKept
<1>3. CASE Mark(p)
  BY <1>2, <1>3 DEF Mark
<1>4. CASE Unmark(p)
  BY <1>2, <1>4 DEF Unmark
<1> QED BY <1>1, <1>3, <1>4 DEF Recover

\* The tip moves, and with it goes what the server holds.
LEMMA DeliverKept ==
    ASSUME SlotInv, KeptInv, Value(tip) \subseteq Value(tip)', NEW k \in DOMAIN outbox,
           Deliver(k)
    PROVE  KeptInv'
<1>1. /\ outbox \in Seq(Entry) /\ rows \in Seq(Row)
      /\ \A j \in DOMAIN outbox : outbox[j].row \in DOMAIN rows
      /\ rows' = rows /\ intents' = intents /\ saved' = saved
  BY WorldInv DEF Deliver
<1> DEFINE r == outbox[k].row
           st == IF Applies(r) THEN "accepted" ELSE "refused"
<1>2. /\ DOMAIN outbox' = DOMAIN outbox
      /\ \A j \in DOMAIN outbox : outbox'[j].row = outbox[j].row
      /\ \A j \in DOMAIN outbox : j # k => outbox'[j] = outbox[j]
      /\ outbox'[k].status = st
      /\ outbox[k].status = "queued"
  <2>1. outbox' = [outbox EXCEPT ![k].status = st] /\ outbox[k].status = "queued"
    BY DEF Deliver
  <2> DEFINE n == [outbox[k] EXCEPT !.status = st]
  <2>2. n.row = outbox[k].row /\ n.status = st
    <3>1. outbox[k] \in Entry
      BY <1>1
    <3> HIDE DEF st
    <3> QED BY <3>1 DEF Entry
  <2>3. outbox' = [outbox EXCEPT ![k] = n]
    BY <1>1, <2>1
  <2> HIDE DEF n, st
  <2> QED BY <1>1, <2>1, <2>2, <2>3
<1>3. Applies(r) => rows[r].value \subseteq Value(tip)'
  <2> SUFFICES ASSUME Applies(r) PROVE rows[r].value \subseteq Value(tip)'
    OBVIOUS
  <2>1. tip' = r /\ r # 0
    BY <1>1 DEF Deliver
  <2> QED BY <1>1, <2>1 DEF Value
<1>4. \A j \in DOMAIN outbox' :
         outbox'[j].status = "accepted" => rows'[outbox'[j].row].value \subseteq Value(tip)'
  <2> SUFFICES ASSUME NEW j \in DOMAIN outbox, outbox'[j].status = "accepted"
               PROVE  rows[outbox[j].row].value \subseteq Value(tip)'
    BY <1>1, <1>2
  <2>1. CASE j = k
    BY <1>2, <1>3, <2>1
  <2>2. CASE j # k
    BY <1>2, <2>2 DEF KeptInv
  <2> QED BY <2>1, <2>2
<1>5. \A e \in saved' : Kept(e)'
  <2> SUFFICES ASSUME NEW e \in saved PROVE Kept(e)'
    BY <1>1
  <2>1. Kept(e)
    BY DEF KeptInv, EditsKept
  <2>2. CASE e \in Value(tip)
    BY <2>2 DEF Kept
  <2>3. CASE \E j \in DOMAIN intents :
                \/ intents[j].kind = "storage" /\ e \in intents[j].patch
                \/ intents[j].kind = "signed" /\ e \in rows[intents[j].row].patch
    BY <1>1, <2>3 DEF Kept
  <2>4. CASE \E j \in DOMAIN outbox : outbox[j].status \in {"queued", "refused"}
                                      /\ e \in rows[outbox[j].row].patch
    <3>1. PICK j \in DOMAIN outbox : outbox[j].status \in {"queued", "refused"}
                                      /\ e \in rows[outbox[j].row].patch
      BY <2>4
    <3>2. CASE outbox'[j].status \in {"queued", "refused"}
      BY <1>1, <1>2, <3>1, <3>2 DEF Kept
    <3>3. CASE j = k /\ Applies(r)
      <4>1. rows[r].patch \subseteq rows[r].value
        BY <1>1 DEF KeptInv
      <4> QED BY <1>3, <3>1, <3>3, <4>1 DEF Kept
    <3> QED BY <1>2, <3>1, <3>2, <3>3
  <2> QED BY <2>1, <2>2, <2>3, <2>4 DEF Kept
<1> QED BY <1>1, <1>4, <1>5 DEF KeptInv, EditsKept

\* Revisions and the tip move, and no record.
LEMMA WorldKept ==
    ASSUME SlotInv, SlotInv', OnceInv, KeptInv, Value(tip) \subseteq Value(tip)',
           UNCHANGED <<intents, outbox, saved>>, Grows(rows, rows'),
           \A r \in DOMAIN rows' : r \in DOMAIN rows \/ rows'[r].patch \subseteq rows'[r].value
    PROVE  KeptInv'
<1>1. 0 \notin DOMAIN intents
  BY DEF SlotInv, TypeOK
<1>2. /\ \A j \in DOMAIN intents : j # 0 => j \in DOMAIN intents' /\ intents'[j] = intents[j]
      /\ \A e \in saved' : e \in saved \/ \E j \in DOMAIN intents' : Holds(intents'[j], rows', e)
      /\ DOMAIN outbox \subseteq DOMAIN outbox'
      /\ \A k \in DOMAIN outbox : outbox'[k] = outbox[k]
      /\ \A k \in DOMAIN outbox' : k \in DOMAIN outbox \/ outbox'[k].status # "accepted"
  OBVIOUS
<1>3. \A e \in saved : 0 \in DOMAIN intents /\ Holds(intents[0], rows, e) =>
         \/ 0 \in DOMAIN intents' /\ Holds(intents'[0], rows', e)
         \/ \E k \in DOMAIN outbox : outbox[k].source = 0
  BY <1>1
<1> QED BY <1>2, <1>3, KeptStep

LEMMA ForeignKept ==
    ASSUME SlotInv, SlotInv', OnceInv, KeptInv, Value(tip) \subseteq Value(tip)',
           NEW x \in Foreign, ForeignWrite(x)
    PROVE  KeptInv'
<1> DEFINE row == [patch |-> {x}, parent |-> tip, value |-> Value(tip) \union {x}]
<1>1. rows' = Append(rows, row) /\ UNCHANGED <<intents, outbox, saved>>
  BY DEF ForeignWrite
<1>2. row.patch \subseteq row.value
  OBVIOUS
<1> HIDE DEF row
<1>3. rows \in Seq(Row) /\ rows' \in Seq(Row)
  BY DEF SlotInv, TypeOK
<1>4. /\ \A r \in DOMAIN rows : rows'[r] = rows[r]
      /\ \A r \in DOMAIN rows' : r \in DOMAIN rows \/ rows'[r] = row
      /\ Len(rows) =< Len(rows')
  BY <1>1, <1>3
<1> QED BY <1>1, <1>2, <1>4, WorldKept DEF Grows

LEMMA NextKept ==
    SlotInv /\ OnceInv /\ KeptInv /\ InTime /\ [Next]_vars => KeptInv'
<1> SUFFICES ASSUME SlotInv, OnceInv, KeptInv, InTime, [Next]_vars PROVE KeptInv'
  OBVIOUS
<1>0. SlotInv' /\ Value(tip) \subseteq Value(tip)'
  BY NextInv, NextKeeps
<1>1. CASE \E e \in Edit : Call(e)
  BY <1>0, <1>1, EditKept
<1>2. CASE \E p \in Proc : Signer(p)
  BY <1>0, <1>2, SignerKept
<1>3. CASE \E p \in Proc : Stop(p)
  BY <1>3, SameKept DEF Stop
<1>4. CASE \E p \in Pass : Recover(p)
  BY <1>0, <1>4, RecoverKept
<1>5. CASE \E p \in Pass : \E i \in DOMAIN intents : Scan(p, i)
  BY <1>5, SameKept DEF Scan
<1>6. CASE \E k \in DOMAIN outbox : Deliver(k)
  BY <1>0, <1>6, DeliverKept
<1>7. CASE \E k \in DOMAIN outbox : LoseAnswer(k)
  <2>1. UNCHANGED <<intents, outbox, rows, saved>>
    BY <1>7 DEF LoseAnswer
  <2>2. Grows(rows, rows')
    BY <2>1, WorldInv
  <2> QED BY <1>0, <2>1, <2>2, WorldKept
<1>8. CASE \E x \in Foreign : ForeignWrite(x)
  BY <1>0, <1>8, ForeignKept
<1>9. CASE Sync \/ UNCHANGED vars
  BY <1>9, SameKept DEF Sync, vars
<1> QED BY <1>1, <1>2, <1>3, <1>4, <1>5, <1>6, <1>7, <1>8, <1>9 DEF Next

LEMMA InitKept ==
    Init => KeptInv
<1> SUFFICES ASSUME Init PROVE KeptInv
  OBVIOUS
<1>1. rows = <<>> /\ outbox = <<>> /\ saved = {}
  BY DEF Init
<1>2. DOMAIN rows = {} /\ DOMAIN outbox = {}
  BY <1>1
<1> QED BY <1>1, <1>2 DEF KeptInv, EditsKept

\* As long as merges are stored in time, an edit whose call found it durable is
\* on the server, in an intent, waiting in the outbox or shown there as refused,
\* through conflict rounds, recovery passes, calls that stop and lost answers:
\* a payload is closed only when the outbox has the row built from it
\* (coalesceOrCreateStorageIntent, materializeSignEnqueueStorageIntent).
THEOREM EditsKeptInTime == Spec /\ []InTime => []EditsKept
<1>1. KeptInv => EditsKept
  BY DEF KeptInv
<1> QED BY <1>1, InitInv, NextInv, InitOnce, NextOnce, InitKept, NextKept, PTL DEF Spec

----------------------------------------------------------------------------
(* One edit in flight never merges: it meets no intent of another call.     *)

NoMerge ==
    \A e \in Edit :
        /\ op[e].at \notin {"merging", "storing"}
        /\ op[e].at \in {"idle", "creating"} => intents = <<>>

LEMMA NextNoMerge ==
    ASSUME \A e, f \in Edit : e = f
    PROVE  SlotInv /\ NoMerge /\ [Next]_vars => NoMerge'
<1> SUFFICES ASSUME SlotInv, NoMerge, [Next]_vars PROVE NoMerge'
  OBVIOUS
<1> SUFFICES ASSUME NEW e \in Edit
             PROVE  /\ op'[e].at \notin {"merging", "storing"}
                    /\ op'[e].at \in {"idle", "creating"} => intents' = <<>>
  BY DEF NoMerge
<1>0. /\ op \in [Proc -> Op] /\ e \in Proc /\ intents \in Seq(Intent)
      /\ op[e].at \notin {"merging", "storing"}
      /\ op[e].at \in {"idle", "creating"} => intents = <<>>
      /\ \A p \in Proc : op[p] \in Op /\ Placed(op[p], intents, rows, outbox)
  BY DEF SlotInv, TypeOK, NoMerge, Proc
<1>1. CASE op' = op /\ intents' = intents
  BY <1>0, <1>1
<1>2. CASE \E f \in Edit : Call(f)
  <2>1. Call(e)
    BY <1>2
  <2>2. CASE FindNone(e)
    BY <1>0, <2>2 DEF FindNone, Goes
  <2>3. CASE Find(e)
    <3>1. intents = <<>>
      BY <1>0, <2>3 DEF Find
    <3>2. DOMAIN intents = {}
      BY <3>1
    <3> QED BY <2>3, <3>2 DEF Find
  <2>4. CASE Create(e)
    BY <1>0, <2>4 DEF Create
  <2>5. CASE NoKey(e)
    <3>1. op'[e] = [Idle EXCEPT !.at = "done"]
      BY <1>0, <2>5 DEF NoKey, Leave
    <3> QED BY <3>1 DEF Idle
  <2> QED BY <1>0, <2>1, <2>2, <2>3, <2>4, <2>5 DEF Call, Merge, Store
\* The other calls leave this one alone, and find no intent to work on before
\* it has made one.
<1>3. CASE \E p \in Proc : \/ Signer(p) \/ Stop(p)
                           \/ p \in Pass /\ Recover(p)
                           \/ p \in Pass /\ \E i \in DOMAIN intents : Scan(p, i)
  <2>1. PICK p \in Proc : \/ Signer(p) \/ Stop(p)
                          \/ p \in Pass /\ Recover(p)
                          \/ p \in Pass /\ \E i \in DOMAIN intents : Scan(p, i)
    BY <1>3
  <2>2. CASE p = e
    <3>1. p \notin Pass
      BY <2>2, SlotAssumption
    <3>2. CASE Leave(p)
      <4>1. op'[e] = [Idle EXCEPT !.at = "done"]
        BY <1>0, <2>2, <3>2 DEF Leave
      <4> QED BY <4>1 DEF Idle
    <3>3. CASE ~Leave(p)
      <4>1. op'[e].at \in {"building", "signing", "queueing", "linking", "sending",
                           "retrying", "stored"}
        BY <1>0, <2>1, <2>2, <3>1, <3>3
           DEF Signer, AlreadyClaimed, Claim, BaseUnavailable, Build, SignedBefore, Replay,
               Sign, Enqueue, Link, Settle, Conflict, Retry, Stop, Goes, Op
      <4> QED BY <4>1
    <3> QED BY <3>2, <3>3
  <2>3. CASE p # e
    <3>1. op'[e] = op[e]
      BY <1>0, <2>1, <2>3
         DEF Signer, AlreadyClaimed, Claim, BaseUnavailable, Build, SignedBefore, Replay,
             Sign, Enqueue, Link, Settle, Conflict, Retry, Stop, Recover, AwaitUnlock,
             Mark, Resume, Unmark, Proceed, Scan, Goes, Leave
    <3>2. intents = <<>> => intents' = intents
      <4> SUFFICES ASSUME intents = <<>> PROVE intents' = intents
        OBVIOUS
      <4>1. DOMAIN intents = {}
        OBVIOUS
      <4>2. op[p].at \in {"idle", "creating", "done"}
        BY <1>0, <4>1 DEF Placed
      <4>3. Stop(p)
        BY <2>1, <4>1, <4>2
           DEF Signer, AlreadyClaimed, Claim, BaseUnavailable, Build, SignedBefore, Replay,
               Sign, Enqueue, Link, Settle, Conflict, Retry, Recover, AwaitUnlock,
               Mark, Resume, Unmark
      <4> QED BY <4>3 DEF Stop
    <3> QED BY <1>0, <3>1, <3>2
  <2> QED BY <2>2, <2>3
<1> QED BY <1>1, <1>2, <1>3
        DEF Next, Deliver, LoseAnswer, ForeignWrite, Sync, vars, Proc

LEMMA OneEditInTime ==
    ASSUME \A e, f \in Edit : e = f
    PROVE  Spec => []InTime
<1>1. Init => NoMerge
  BY DEF Init, NoMerge, Idle, Proc
<1>2. NoMerge => InTime
  BY DEF NoMerge, InTime
<1>3. SlotInv /\ NoMerge /\ [Next]_vars => NoMerge'
  BY NextNoMerge
<1> QED BY <1>1, <1>2, <1>3, InitInv, NextInv, PTL DEF Spec

\* With one edit in flight nothing has to be assumed: whatever recovery passes,
\* devices, stops and conflict rounds there are, its intents are queued once
\* each (signAndDispatchIntent).
THEOREM LoneEditQueuedOnce ==
    ASSUME \A e, f \in Edit : e = f
    PROVE  Spec => []QueuedOnce
BY OneEditInTime, QueuedOnceInTime, PTL

\* ... and the edit is never lost (materializeSignEnqueueStorageIntent).
THEOREM LoneEditKept ==
    ASSUME \A e, f \in Edit : e = f
    PROVE  Spec => []EditsKept
BY OneEditInTime, EditsKeptInTime, PTL

----------------------------------------------------------------------------
(* Why a retry starts over. Ancestors and Closure are least closed sets:    *)
(* what they hold follows from their closure, what they do not hold from a  *)
(* closed set without it. They are taken of given lists here, so that a     *)
(* lemma can speak of the lists before and after a step.                    *)

Above(rs, r) ==
    {s \in 0 .. r : \A S \in SUBSET (0 .. r) :
        r \in S /\ (\A u \in S \ {0} : rs[u].parent \in S) => s \in S}

LEMMA AboveClosed ==
    ASSUME NEW rs \in Seq(Row), Lineal(rs), NEW r \in 0 .. Len(rs)
    PROVE  /\ r \in Above(rs, r) /\ Above(rs, r) \subseteq 0 .. r
           /\ \A s \in Above(rs, r) \ {0} : rs[s].parent \in Above(rs, r)
<1>1. r \in Above(rs, r) /\ Above(rs, r) \subseteq 0 .. r
  BY DEF Above
<1>2. ASSUME NEW s \in Above(rs, r) \ {0}
      PROVE  rs[s].parent \in Above(rs, r)
  <2>1. s \in 1 .. r /\ s \in DOMAIN rs
    BY <1>1
  <2>2. rs[s].parent \in 0 .. r
    BY <2>1 DEF Lineal
  <2>3. ASSUME NEW S \in SUBSET (0 .. r), r \in S,
               \A u \in S \ {0} : rs[u].parent \in S
        PROVE  rs[s].parent \in S
    BY <1>2, <2>3 DEF Above
  <2> QED BY <2>2, <2>3 DEF Above
<1> QED BY <1>1, <1>2

LEMMA AboveLeast ==
    ASSUME NEW rs \in Seq(Row), Lineal(rs), NEW r \in 0 .. Len(rs),
           NEW S, r \in S, \A u \in S : u \in 1 .. r => rs[u].parent \in S
    PROVE  Above(rs, r) \subseteq S
<1> DEFINE T == S \intersect (0 .. r)
<1>1. T \in SUBSET (0 .. r) /\ r \in T
  OBVIOUS
<1>2. ASSUME NEW u \in T \ {0} PROVE rs[u].parent \in T
  <2>1. u \in S /\ u \in 1 .. r /\ u \in DOMAIN rs
    OBVIOUS
  <2>2. rs[u].parent \in 0 .. r
    BY <2>1 DEF Lineal
  <2> QED BY <2>1, <2>2
<1> HIDE DEF T
<1>3. Above(rs, r) \subseteq T
  BY <1>1, <1>2 DEF Above
<1> QED BY <1>3 DEF T

LEMMA AboveTrans ==
    ASSUME NEW rs \in Seq(Row), Lineal(rs), NEW r \in 0 .. Len(rs), NEW s \in Above(rs, r)
    PROVE  Above(rs, s) \subseteq Above(rs, r)
<1>1. s \in 0 .. r /\ \A u \in Above(rs, r) \ {0} : rs[u].parent \in Above(rs, r)
  BY AboveClosed
<1>2. s \in 0 .. Len(rs) /\ \A u \in Above(rs, r) : u \in 1 .. s => rs[u].parent \in Above(rs, r)
  BY <1>1
<1> QED BY <1>2, AboveLeast

\* Later revisions change nothing about earlier ones.
LEMMA AboveGrows ==
    ASSUME NEW rs \in Seq(Row), NEW rsNew \in Seq(Row), Grows(rs, rsNew),
           NEW r \in 0 .. Len(rs)
    PROVE  Above(rsNew, r) = Above(rs, r)
<1>1. \A u \in 1 .. r : rsNew[u] = rs[u]
  BY DEF Grows
<1>2. \A S \in SUBSET (0 .. r) : \A u \in S \ {0} : rsNew[u].parent = rs[u].parent
  BY <1>1
<1> QED BY <1>2 DEF Above

After(ks, seeds) ==
    {k \in DOMAIN ks : \A S \in SUBSET DOMAIN ks :
        (\A j \in DOMAIN ks : j \in seeds \/ ks[j].deps \intersect S # {} => j \in S)
            => k \in S}

LEMMA AfterClosed ==
    ASSUME NEW ks, NEW seeds, NEW k \in DOMAIN ks,
           k \in seeds \/ ks[k].deps \intersect After(ks, seeds) # {}
    PROVE  k \in After(ks, seeds)
BY DEF After

LEMMA AfterLeast ==
    ASSUME NEW ks, NEW seeds, NEW S \in SUBSET DOMAIN ks,
           \A j \in DOMAIN ks : j \in seeds \/ ks[j].deps \intersect S # {} => j \in S
    PROVE  After(ks, seeds) \subseteq S
BY DEF After

\* Entries that are added later are not among what others wait for.
Same(ks, ksNew) == /\ Len(ks) =< Len(ksNew)
                   /\ \A k \in DOMAIN ks : /\ ksNew[k].row = ks[k].row
                                           /\ ksNew[k].deps = ks[k].deps
Backward(ks) == \A k \in DOMAIN ks : ks[k].deps \subseteq 1 .. k - 1

LEMMA AfterGrows ==
    ASSUME NEW ks \in Seq(Entry), NEW ksNew \in Seq(Entry), Same(ks, ksNew), Backward(ks),
           NEW seeds \in SUBSET DOMAIN ks
    PROVE  After(ksNew, seeds) \intersect DOMAIN ks \subseteq After(ks, seeds)
<1> DEFINE A == After(ks, seeds)
           S == A \union (DOMAIN ksNew \ DOMAIN ks)
<1>1. A \subseteq DOMAIN ks /\ DOMAIN ks \subseteq DOMAIN ksNew
  BY DEF After, Same
<1>2. S \in SUBSET DOMAIN ksNew
  BY <1>1
<1>3. ASSUME NEW j \in DOMAIN ksNew, j \in seeds \/ ksNew[j].deps \intersect S # {}
      PROVE  j \in S
  <2>1. CASE j \in DOMAIN ks
    <3>1. ksNew[j].deps = ks[j].deps /\ ks[j].deps \subseteq DOMAIN ks
      <4>1. 1 .. j - 1 \subseteq DOMAIN ks
        BY <2>1
      <4> QED BY <2>1, <4>1 DEF Same, Backward
    <3> HIDE DEF A
    <3>2. j \in seeds \/ ks[j].deps \intersect A # {}
      BY <1>3, <3>1
    <3> QED BY <2>1, <3>2, AfterClosed DEF A
  <2> QED BY <2>1
<1> HIDE DEF S
<1>4. After(ksNew, seeds) \subseteq S
  BY <1>2, <1>3, AfterLeast
<1> QED BY <1>4 DEF S

LEMMA Names ==
    /\ \A r : Ancestors(r) = Above(rows, r)
    /\ \A seeds : Closure(seeds) = After(outbox, seeds)
BY DEF Ancestors, Above, Closure, After

----------------------------------------------------------------------------
(* The invariant of retries: every entry waits for what brings the revision *)
(* below its own, unless the server has that one, and what a retry builds   *)
(* on is the server's or comes with an entry it does not leave out.         *)

\* A revision a retry may build on: the server has it, or an entry that does
\* not wait for what was refused brings it.
Grounded(r, excl, rs, ks, t) ==
    \/ r \in Above(rs, t)
    \/ \E k \in DOMAIN ks \ After(ks, excl) : ks[k].row = r

EntryRight(k, rs, ks, t) ==
    /\ ks[k].deps \subseteq 1 .. k - 1
    /\ ks[k].status = "accepted" => ks[k].row \in Above(rs, t)
    /\ \/ rs[ks[k].row].parent \in Above(rs, t)
       \/ \E j \in ks[k].deps : ks[j].row = rs[ks[k].row].parent

CallRight(o, held, rs, ks, t) ==
    /\ o.excl \subseteq DOMAIN ks
    /\ o.at \in {"idle", "resuming", "unmarking"} => o.excl = {}
    /\ held => o.at \in {"building", "signing", "queueing", "linking"}
    /\ o.at \in {"building", "queueing"} => held
    /\ o.at = "signing" /\ o.excl # {} => held
    /\ o.at \in {"signing", "queueing", "linking", "sending"} /\ (o.excl # {} \/ held)
          => Grounded(o.base, o.excl, rs, ks, t)
    /\ o.at = "queueing" => /\ rs[o.row].parent = o.base
                            /\ \A k \in DOMAIN ks : ks[k].row # o.row

RetryInv ==
    /\ shape \in Above(rows, tip)
    /\ \A k \in DOMAIN outbox : EntryRight(k, rows, outbox, tip)
    /\ \A j, k \in DOMAIN outbox : outbox[j].row = outbox[k].row => j = k
    /\ \A p \in Proc : CallRight(op[p], slotLock = p, rows, outbox, tip)

\* What the invariant says of a retry: the revisions its base rests on are on
\* the server or come with entries that wait for none that was left out.
LEMMA RetryMeans ==
    ASSUME SlotInv, RetryInv
    PROVE  RetriesStartOver
<1>0. /\ rows \in Seq(Row) /\ Lineal(rows) /\ tip \in 0 .. Len(rows)
      /\ outbox \in Seq(Entry) /\ \A k \in DOMAIN outbox : outbox[k].row \in DOMAIN rows
  BY DEF SlotInv, TypeOK
<1> SUFFICES ASSUME NEW p \in Proc, op[p].excl # {},
                    op[p].at \in {"signing", "queueing", "linking", "sending"},
                    NEW x \in Above(rows, op[p].base),
                    NEW k \in op[p].excl, x = outbox[k].row
             PROVE  x \in Above(rows, tip)
  BY Names DEF RetriesStartOver
<1> DEFINE b == op[p].base
           late == After(outbox, op[p].excl)
           S == {r \in 0 .. Len(rows) : \/ r \in Above(rows, tip)
                                        \/ \E j \in DOMAIN outbox \ late : outbox[j].row = r}
<1>1. /\ Grounded(b, op[p].excl, rows, outbox, tip) /\ op[p].excl \subseteq DOMAIN outbox
      /\ b \in 0 .. Len(rows)
  BY DEF RetryInv, CallRight, SlotInv, Placed
<1>2. b \in S
  BY <1>1 DEF Grounded
<1>3. ASSUME NEW u \in S, u \in 1 .. b
      PROVE  rows[u].parent \in S
  <2>0. u \in DOMAIN rows /\ rows[u].parent \in 0 .. Len(rows)
    <3>1. u \in DOMAIN rows /\ u \in 1 .. Len(rows)
      BY <1>0, <1>1, <1>3
    <3> QED BY <1>0, <3>1 DEF Lineal
  <2>1. CASE u \in Above(rows, tip)
    <3>1. u \in Above(rows, tip) \ {0}
      BY <2>1, <1>3
    <3>2. rows[u].parent \in Above(rows, tip)
      BY <1>0, <3>1, AboveClosed
    <3> QED BY <2>0, <3>2
  <2>2. CASE \E j \in DOMAIN outbox \ late : outbox[j].row = u
    <3>1. PICK j \in DOMAIN outbox \ late : outbox[j].row = u
      BY <2>2
    <3>2. EntryRight(j, rows, outbox, tip)
      BY DEF RetryInv
    <3>3. CASE rows[u].parent \in Above(rows, tip)
      BY <2>0, <3>3
    <3>4. CASE \E m \in outbox[j].deps : outbox[m].row = rows[u].parent
      <4>1. PICK m \in outbox[j].deps : outbox[m].row = rows[u].parent
        BY <3>4
      <4>2. m \in DOMAIN outbox
        <5>1. m \in 1 .. j - 1 /\ j \in 1 .. Len(outbox)
          BY <1>0, <3>2 DEF EntryRight
        <5> QED BY <1>0, <5>1
      <4>3. m \notin late
        <5> SUFFICES ASSUME m \in late PROVE FALSE
          OBVIOUS
        <5>1. outbox[j].deps \intersect After(outbox, op[p].excl) # {}
          BY <4>1
        <5>2. j \in late
          BY <5>1, AfterClosed
        <5> QED BY <5>2
      <4> QED BY <2>0, <4>1, <4>2, <4>3
    <3> QED BY <3>1, <3>2, <3>3, <3>4 DEF EntryRight
  <2> QED BY <2>1, <2>2
<1>4. x \in S
  <2> HIDE DEF S
  <2>1. b \in S /\ \A u \in S : u \in 1 .. b => rows[u].parent \in S
    BY <1>2, <1>3
  <2>2. Above(rows, b) \subseteq S
    BY <1>0, <1>1, <2>1, AboveLeast
  <2> QED BY <2>2
<1>5. ASSUME NEW j \in DOMAIN outbox \ late, outbox[j].row = x
      PROVE  FALSE
  <2>1. k \in DOMAIN outbox
    BY <1>1
  <2>2. j = k
    BY <1>5, <2>1 DEF RetryInv
  <2>3. k \in late
    BY <2>1, AfterClosed
  <2> QED BY <2>2, <2>3
<1> QED BY <1>4, <1>5

----------------------------------------------------------------------------
(* What stays right while the lists grow and the server moves on.           *)

LEMMA StillAbove ==
    ASSUME NEW rs \in Seq(Row), NEW rsNew \in Seq(Row), Grows(rs, rsNew), Lineal(rsNew),
           NEW t \in 0 .. Len(rs), NEW tNew \in 0 .. Len(rsNew), t \in Above(rsNew, tNew)
    PROVE  Above(rs, t) \subseteq Above(rsNew, tNew)
<1>1. Above(rsNew, t) \subseteq Above(rsNew, tNew)
  BY AboveTrans
<1>2. Above(rsNew, t) = Above(rs, t)
  BY AboveGrows
<1> QED BY <1>1, <1>2

LEMMA StillGrounded ==
    ASSUME NEW rs, NEW rsNew, NEW t, NEW tNew, Above(rs, t) \subseteq Above(rsNew, tNew),
           NEW ks \in Seq(Entry), NEW ksNew \in Seq(Entry), Same(ks, ksNew), Backward(ks),
           NEW excl \in SUBSET DOMAIN ks, NEW r, Grounded(r, excl, rs, ks, t)
    PROVE  Grounded(r, excl, rsNew, ksNew, tNew)
<1>1. CASE r \in Above(rs, t)
  BY <1>1 DEF Grounded
<1>2. CASE \E k \in DOMAIN ks \ After(ks, excl) : ks[k].row = r
  <2>1. PICK k \in DOMAIN ks \ After(ks, excl) : ks[k].row = r
    BY <1>2
  <2>2. k \notin After(ksNew, excl)
    BY AfterGrows
  <2>3. k \in DOMAIN ksNew /\ ksNew[k].row = r
    BY <2>1 DEF Same
  <2> QED BY <2>2, <2>3 DEF Grounded
<1> QED BY <1>1, <1>2 DEF Grounded

LEMMA LaterGrounded ==
    ASSUME NEW rs, NEW t,
           NEW ks \in Seq(Entry), NEW ksNew \in Seq(Entry), Same(ks, ksNew), Backward(ks),
           NEW excl \in SUBSET DOMAIN ks, NEW r, Grounded(r, excl, rs, ks, t)
    PROVE  Grounded(r, excl, rs, ksNew, t)
<1>1. Above(rs, t) \subseteq Above(rs, t)
  OBVIOUS
<1> QED BY <1>1, StillGrounded

LEMMA StillRight ==
    ASSUME NEW rs \in Seq(Row), NEW rsNew \in Seq(Row), Grows(rs, rsNew),
           NEW t, NEW tNew, Above(rs, t) \subseteq Above(rsNew, tNew),
           NEW ks \in Seq(Entry), NEW ksNew \in Seq(Entry), Same(ks, ksNew),
           Len(ks) = Len(ksNew), Backward(ks),
           NEW is, NEW o, NEW held \in BOOLEAN, Placed(o, is, rs, ks),
           CallRight(o, held, rs, ks, t)
    PROVE  CallRight(o, held, rsNew, ksNew, tNew)
<1>1. DOMAIN ks = DOMAIN ksNew /\ \A k \in DOMAIN ks : ksNew[k].row = ks[k].row
  BY DEF Same
<1>2. o.excl \in SUBSET DOMAIN ks
  BY DEF CallRight
<1>3. ASSUME Grounded(o.base, o.excl, rs, ks, t)
      PROVE  Grounded(o.base, o.excl, rsNew, ksNew, tNew)
  BY <1>2, <1>3, StillGrounded
<1>4. ASSUME o.at = "queueing"
      PROVE  rsNew[o.row].parent = o.base
  BY <1>4 DEF Placed, Grows, CallRight
<1> QED BY <1>1, <1>3, <1>4 DEF CallRight

LEMMA InvRight ==
    ASSUME SlotInv, RetryInv
    PROVE  /\ rows \in Seq(Row) /\ Lineal(rows) /\ outbox \in Seq(Entry)
           /\ Backward(outbox) /\ Grows(rows, rows) /\ Same(outbox, outbox)
           /\ tip \in 0 .. Len(rows) /\ tip \in Above(rows, tip)
           /\ shape \in Above(rows, tip)
<1>1. /\ rows \in Seq(Row) /\ Lineal(rows) /\ outbox \in Seq(Entry)
      /\ tip \in 0 .. Len(rows)
  BY DEF SlotInv, TypeOK
<1>2. Backward(outbox)
  BY DEF RetryInv, EntryRight, Backward
<1>3. Grows(rows, rows) /\ Same(outbox, outbox)
  BY <1>1, GrowsRefl DEF Same
<1> QED BY <1>1, <1>2, <1>3, AboveClosed DEF RetryInv

\* A step that adds no entry: the server's revision and the signed ones move
\* on, and what each call does is right of the lists as they are by then.
LEMMA StepRight ==
    ASSUME SlotInv, RetryInv, SlotInv', Grows(rows, rows'), Same(outbox, outbox'),
           Len(outbox) = Len(outbox'),
           tip \in Above(rows', tip'), shape' \in Above(rows', tip'),
           \A k \in DOMAIN outbox : outbox'[k].status = "accepted" =>
              outbox[k].status = "accepted" \/ outbox[k].row \in Above(rows', tip'),
           \A q \in Proc : CallRight(op[q], slotLock = q, rows', outbox', tip') =>
              CallRight(op'[q], slotLock' = q, rows', outbox', tip')
    PROVE  RetryInv'
<1>0. /\ rows \in Seq(Row) /\ Lineal(rows) /\ outbox \in Seq(Entry)
      /\ Backward(outbox) /\ tip \in 0 .. Len(rows)
      /\ rows' \in Seq(Row) /\ Lineal(rows') /\ outbox' \in Seq(Entry)
      /\ tip' \in 0 .. Len(rows')
  BY InvRight DEF SlotInv, TypeOK
<1>1. Above(rows, tip) \subseteq Above(rows', tip')
  BY <1>0, StillAbove
<1>2. \A q \in Proc : CallRight(op'[q], slotLock' = q, rows', outbox', tip')
  <2> TAKE q \in Proc
  <2>1. CallRight(op[q], slotLock = q, rows, outbox, tip)
    BY DEF RetryInv
  <2>2. Placed(op[q], intents, rows, outbox)
    BY DEF SlotInv
  <2>3. CallRight(op[q], slotLock = q, rows', outbox', tip')
    BY <1>0, <1>1, <2>1, <2>2, StillRight
  <2> QED BY <2>3
<1>3. /\ DOMAIN outbox' = DOMAIN outbox
      /\ \A k \in DOMAIN outbox : /\ outbox'[k].row = outbox[k].row
                                  /\ outbox'[k].deps = outbox[k].deps
  BY <1>0 DEF Same
<1>4. ASSUME NEW k \in DOMAIN outbox'
      PROVE  EntryRight(k, rows', outbox', tip')
  <2>1. EntryRight(k, rows, outbox, tip) /\ k \in DOMAIN outbox
    BY <1>3 DEF RetryInv
  <2>2. rows'[outbox[k].row] = rows[outbox[k].row]
    BY <2>1 DEF SlotInv, Grows
  <2>3. outbox[k].deps \subseteq 1 .. k - 1 /\ 1 .. k - 1 \subseteq DOMAIN outbox
    BY <1>0, <2>1 DEF EntryRight
  <2>4. \A j \in outbox[k].deps : outbox'[j].row = outbox[j].row
    BY <1>3, <2>3
  <2>5. outbox'[k].status = "accepted" => outbox'[k].row \in Above(rows', tip')
    BY <1>1, <1>3, <2>1 DEF EntryRight
  <2> QED BY <1>1, <1>3, <2>1, <2>2, <2>3, <2>4, <2>5 DEF EntryRight
<1>5. \A j, k \in DOMAIN outbox' : outbox'[j].row = outbox'[k].row => j = k
  BY <1>3 DEF RetryInv
<1> QED BY <1>2, <1>4, <1>5 DEF RetryInv

\* A step of the call p that changes neither the lists nor the server.
LEMMA MoveRight ==
    ASSUME SlotInv, RetryInv, SlotInv', NEW p \in Proc, NEW o, op' = [op EXCEPT ![p] = o],
           UNCHANGED <<rows, outbox, tip, shape>>,
           slotLock' = slotLock \/ {slotLock, slotLock'} \subseteq {p, NoProc},
           CallRight(op[p], slotLock = p, rows, outbox, tip) =>
              CallRight(o, slotLock' = p, rows, outbox, tip)
    PROVE  RetryInv'
<1>1. \A q \in Proc : CallRight(op[q], slotLock = q, rows', outbox', tip') =>
         CallRight(op'[q], slotLock' = q, rows', outbox', tip')
  <2> SUFFICES ASSUME NEW q \in Proc, CallRight(op[q], slotLock = q, rows, outbox, tip)
               PROVE  CallRight(op'[q], slotLock' = q, rows, outbox, tip)
    OBVIOUS
  <2>1. op'[q] = IF q = p THEN o ELSE op[q]
    BY DEF SlotInv, TypeOK
  <2>2. CASE q = p
    BY <2>1, <2>2
  <2>3. CASE q # p
    <3>1. (slotLock' = q) <=> (slotLock = q)
      BY <2>3, SlotAssumption
    <3>2. (slotLock' = q) = (slotLock = q)
      BY <3>1
    <3> QED BY <2>1, <2>3, <3>2
  <2> QED BY <2>2, <2>3
<1>2. /\ Grows(rows, rows') /\ Same(outbox, outbox') /\ Len(outbox) = Len(outbox')
      /\ tip \in Above(rows', tip') /\ shape' \in Above(rows', tip')
  <2>1. rows' = rows /\ outbox' = outbox /\ tip' = tip /\ shape' = shape
    OBVIOUS
  <2> QED BY <2>1, InvRight
<1>3. \A k \in DOMAIN outbox : outbox'[k].status = "accepted" =>
         outbox[k].status = "accepted" \/ outbox[k].row \in Above(rows', tip')
  OBVIOUS
<1> QED BY <1>1, <1>2, <1>3, StepRight

\* A call at a stage where it holds no lock and builds on nothing.
Resting == {"creating", "merging", "storing", "stored", "retrying", "marking", "done"}

LEMMA RestingRight ==
    ASSUME NEW o, o.at \in Resting, NEW rs, NEW ks, NEW t, o.excl \subseteq DOMAIN ks
    PROVE  CallRight(o, FALSE, rs, ks, t)
BY DEF CallRight, Resting

LEMMA RestRight ==
    ASSUME SlotInv, RetryInv, SlotInv', NEW p \in Proc, NEW o, op' = [op EXCEPT ![p] = o],
           UNCHANGED <<rows, outbox, tip, shape, slotLock>>, slotLock # p,
           o.at \in Resting, o.excl \subseteq DOMAIN outbox
    PROVE  RetryInv'
<1>1. (slotLock' = p) = FALSE
  OBVIOUS
<1>2. CallRight(o, slotLock' = p, rows, outbox, tip)
  BY <1>1, RestingRight
<1> QED BY <1>2, MoveRight

LEMMA LeaveRight ==
    ASSUME SlotInv, RetryInv, SlotInv', NEW p \in Proc, Leave(p),
           UNCHANGED <<rows, outbox, tip, shape>>
    PROVE  RetryInv'
<1> DEFINE o == IF p \in Edit THEN [Idle EXCEPT !.at = "done"] ELSE Idle
<1>1. op' = [op EXCEPT ![p] = o]
  BY DEF Leave
<1>2. o.at \in {"idle", "done"} /\ o.excl = {}
  BY DEF Idle
<1> HIDE DEF o
<1>3. slotLock' # p
  BY SlotAssumption DEF Leave
<1>4. (slotLock' = p) = FALSE
  BY <1>3
<1>5. CallRight(o, FALSE, rows, outbox, tip)
  BY <1>2 DEF CallRight
<1>6. slotLock' = slotLock \/ {slotLock, slotLock'} \subseteq {p, NoProc}
  BY DEF Leave
<1>7. CallRight(o, slotLock' = p, rows, outbox, tip)
  BY <1>4, <1>5
<1> QED BY <1>1, <1>6, <1>7, MoveRight

\* A signed snapshot is in the hands of the call that signed it, which still
\* holds the slot: no call stopped between signing and linking.
Attended ==
    \A i \in DOMAIN intents : intents[i].kind = "signed" =>
        \E p \in Proc : /\ op[p].at \in {"queueing", "linking"} /\ op[p].id = i
                        /\ slotLock = p

LEMMA EditRight ==
    ASSUME SlotInv, RetryInv, SlotInv', NEW e \in Edit, Call(e)
    PROVE  RetryInv'
<1> e \in Proc
  BY DEF Proc
<1>0. /\ op \in [Proc -> Op] /\ op[e] \in Op
      /\ CallRight(op[e], slotLock = e, rows, outbox, tip)
  BY DEF SlotInv, TypeOK, RetryInv
<1>1. CASE FindNone(e)
  <2> DEFINE o == [op[e] EXCEPT !.at = "creating"]
  <2>1. o.at = "creating" /\ o.excl = op[e].excl /\ op' = [op EXCEPT ![e] = o]
    BY <1>0, <1>1 DEF FindNone, Goes, Op
  <2> HIDE DEF o
  <2>2. slotLock # e /\ o.excl \subseteq DOMAIN outbox /\ o.at \in Resting
    BY <1>0, <1>1, <2>1 DEF FindNone, CallRight, Resting
  <2> QED BY <1>1, <2>1, <2>2, RestRight DEF FindNone
<1>2. CASE Find(e)
  <2>1. PICK i, c : op' = [op EXCEPT ![e].at = "merging", ![e].id = i, ![e].copy = c]
    BY <1>2 DEF Find
  <2> DEFINE o == [op[e] EXCEPT !.at = "merging", !.id = i, !.copy = c]
  <2>2. o.at = "merging" /\ o.excl = op[e].excl /\ op' = [op EXCEPT ![e] = o]
    BY <1>0, <2>1 DEF Op
  <2> HIDE DEF o
  <2>3. slotLock # e /\ o.excl \subseteq DOMAIN outbox /\ o.at \in Resting
    BY <1>0, <1>2, <2>2 DEF Find, CallRight, Resting
  <2> QED BY <1>2, <2>2, <2>3, RestRight DEF Find
<1>3. CASE Create(e)
  <2> DEFINE o == [op[e] EXCEPT !.at = "stored", !.id = Len(intents) + 1]
  <2>1. o.at = "stored" /\ o.excl = op[e].excl /\ op' = [op EXCEPT ![e] = o]
    BY <1>0, <1>3 DEF Create, Op
  <2> HIDE DEF o
  <2>2. slotLock # e /\ o.excl \subseteq DOMAIN outbox /\ o.at \in Resting
    BY <1>0, <1>3, <2>1 DEF Create, CallRight, Resting
  <2> QED BY <1>3, <2>1, <2>2, RestRight DEF Create
<1>4. CASE Merge(e)
  <2>1. CASE Leave(e)
    BY <1>4, <2>1, LeaveRight DEF Merge
  <2>2. CASE Goes(e, "storing") /\ UNCHANGED slotLock
    <3> DEFINE o == [op[e] EXCEPT !.at = "storing"]
    <3>1. o.at = "storing" /\ o.excl = op[e].excl /\ op' = [op EXCEPT ![e] = o]
      BY <1>0, <2>2 DEF Goes, Op
    <3> HIDE DEF o
    <3>2. slotLock # e /\ o.excl \subseteq DOMAIN outbox /\ o.at \in Resting
      BY <1>0, <1>4, <3>1 DEF Merge, CallRight, Resting
    <3> QED BY <1>4, <2>2, <3>1, <3>2, RestRight DEF Merge
  <2> QED BY <1>4, <2>1, <2>2 DEF Merge
<1>5. CASE Store(e)
  <2> DEFINE o == [op[e] EXCEPT !.at = "stored"]
  <2>1. o.at = "stored" /\ o.excl = op[e].excl /\ op' = [op EXCEPT ![e] = o]
    BY <1>0, <1>5 DEF Store, Goes, Op
  <2> HIDE DEF o
  <2>2. slotLock # e /\ o.excl \subseteq DOMAIN outbox /\ o.at \in Resting
    BY <1>0, <1>5, <2>1 DEF Store, CallRight, Resting
  <2> QED BY <1>5, <2>1, <2>2, RestRight DEF Store
<1>6. CASE NoKey(e)
  BY <1>6, LeaveRight DEF NoKey
<1> QED BY <1>1, <1>2, <1>3, <1>4, <1>5, <1>6 DEF Call

\* While a call builds in the slot, nothing is signed and not queued: what a
\* draft rests on is on the server, shown, or queued and not left out.
LEMMA BasesGrounded ==
    ASSUME SlotInv, RetryInv, Attended, NEW p \in Proc, op[p].at = "building",
           NEW excl, NEW base \in Bases(excl)
    PROVE  Grounded(base, excl, rows, outbox, tip)
<1>0. /\ Len(rows) \in Nat /\ DOMAIN rows = 1 .. Len(rows)
      /\ shape \in 0 .. Len(rows) /\ shape \in Above(rows, tip)
  BY DEF SlotInv, TypeOK, RetryInv
<1>1. \A i \in DOMAIN intents : intents[i].kind # "signed"
  <2> SUFFICES ASSUME NEW q \in Proc, op[q].at \in {"queueing", "linking"}, slotLock = q
               PROVE  FALSE
    BY DEF Attended
  <2>1. CallRight(op[p], slotLock = p, rows, outbox, tip)
    BY DEF RetryInv
  <2> QED BY <2>1 DEF CallRight
<1>2. \A r \in Trusted(excl) : Grounded(r, excl, rows, outbox, tip)
  <2> TAKE r \in Trusted(excl)
  <2>1. PICK k \in DOMAIN outbox :
            /\ outbox[k].row = r
            /\ \/ outbox[k].status = "accepted"
               \/ outbox[k].status = "queued" /\ k \notin After(outbox, excl)
    BY <1>1, Names DEF Trusted
  <2>2. EntryRight(k, rows, outbox, tip)
    BY DEF RetryInv
  <2> QED BY <2>1, <2>2 DEF EntryRight, Grounded
<1>3. Trusted(excl) \subseteq 0 .. Len(rows)
  <2>1. \A k \in DOMAIN outbox : outbox[k].row \in 0 .. Len(rows)
    BY <1>0 DEF SlotInv
  <2> QED BY <1>1, <2>1 DEF Trusted
<1>4. base \in Trusted(excl) \union {shape}
  <2>1. /\ Trusted(excl) \in SUBSET (0 .. Len(rows))
        /\ Trusted(excl) \union {shape} \in SUBSET (0 .. Len(rows))
        /\ Trusted(excl) \union {shape} # {}
    BY <1>0, <1>3
  <2>2. Max(Trusted(excl) \union {shape}) \in Trusted(excl) \union {shape}
    BY <1>0, <2>1, MaxIsMember
  <2>3. Trusted(excl) # {} => Max(Trusted(excl)) \in Trusted(excl)
    BY <1>0, <2>1, MaxIsMember
  <2> QED BY <2>2, <2>3 DEF Bases
<1> QED BY <1>0, <1>2, <1>4 DEF Grounded

\* The snapshot is attended, so this call holds the slot, and its base is one
\* a retry may build on.
LEMMA SignRight ==
    ASSUME SlotInv, RetryInv, SlotInv', Attended', NEW p \in Proc, Sign(p)
    PROVE  RetryInv'
<1>0. /\ op \in [Proc -> Op] /\ op[p] \in Op /\ Placed(op[p], intents, rows, outbox)
      /\ CallRight(op[p], slotLock = p, rows, outbox, tip)
      /\ intents \in Seq(Intent) /\ rows \in Seq(Row) /\ outbox \in Seq(Entry)
      /\ \A k \in DOMAIN outbox : outbox[k].row \in DOMAIN rows
      /\ tip \in 0 .. Len(rows) /\ shape \in 0 .. Len(rows)
  BY DEF SlotInv, TypeOK, RetryInv
<1> DEFINE i == op[p].id
           r == Len(rows) + 1
           row == [patch |-> op[p].copy.patch, parent |-> op[p].base,
                   value |-> Value(op[p].base) \union op[p].copy.patch]
           o == [op[p] EXCEPT !.at = "queueing", !.row = r]
<1>1. /\ op' = [op EXCEPT ![p] = o]
      /\ o.at = "queueing" /\ o.row = r /\ o.base = op[p].base /\ o.excl = op[p].excl
      /\ o.id = i
  BY <1>0 DEF Sign, Op
<1>2. /\ Grows(rows, rows') /\ rows'[r].parent = op[p].base
      /\ UNCHANGED <<outbox, tip, shape, slotLock>>
  <2>1. rows' = Append(rows, row)
    BY DEF Sign
  <2>2. row.parent = op[p].base
    OBVIOUS
  <2> HIDE DEF row
  <2>3. /\ Len(rows) =< Len(rows') /\ rows'[r] = row
        /\ \A s \in DOMAIN rows : rows'[s] = rows[s]
    BY <1>0, <2>1
  <2> QED BY <2>2, <2>3 DEF Grows, Sign
<1>3. i \in DOMAIN intents /\ intents'[i].kind = "signed" /\ DOMAIN intents' = DOMAIN intents
  BY <1>0 DEF Sign, Placed, Resolved
<1> HIDE DEF o, row
<1>4. slotLock = p
  <2>1. PICK q \in Proc : op'[q].at \in {"queueing", "linking"} /\ op'[q].id = i
                          /\ slotLock' = q
    BY <1>3 DEF Attended
  <2>2. CASE q = p
    BY <1>2, <2>1, <2>2
  <2>3. CASE q # p
    <3>1. op'[q] = op[q]
      BY <1>0, <1>1, <2>3
    <3>2. SigningLocked(i)
      BY <2>1, <3>1 DEF SigningLocked
    <3> QED BY <3>2 DEF Sign
  <2> QED BY <2>2, <2>3
<1>5. Grounded(op[p].base, op[p].excl, rows, outbox, tip)
  BY <1>0, <1>4 DEF CallRight, Sign
<1>6. Backward(outbox) /\ Same(outbox, outbox') /\ Lineal(rows') /\ rows' \in Seq(Row)
  BY <1>2, InvRight DEF SlotInv, TypeOK
<1>7. Above(rows', tip') = Above(rows, tip)
  BY <1>0, <1>2, <1>6, AboveGrows
<1>8. CallRight(o, slotLock = p, rows', outbox', tip')
  <2>1. Grounded(o.base, o.excl, rows', outbox', tip')
    BY <1>1, <1>2, <1>5, <1>7 DEF Grounded
  <2>2. \A k \in DOMAIN outbox' : outbox'[k].row # r
    BY <1>0, <1>2
  <2>3. op[p].excl \subseteq DOMAIN outbox'
    BY <1>0, <1>2 DEF CallRight
  <2> HIDE DEF r, i
  <2> QED BY <1>1, <1>2, <1>4, <2>1, <2>2, <2>3 DEF CallRight
<1>9. \A q \in Proc : CallRight(op[q], slotLock = q, rows', outbox', tip') =>
         CallRight(op'[q], slotLock' = q, rows', outbox', tip')
  <2> SUFFICES ASSUME NEW q \in Proc, CallRight(op[q], slotLock = q, rows', outbox', tip')
               PROVE  CallRight(op'[q], slotLock = q, rows', outbox', tip')
    BY <1>2
  <2>1. op'[q] = IF q = p THEN o ELSE op[q]
    BY <1>0, <1>1
  <2> QED BY <1>8, <2>1
<1>10. tip \in Above(rows', tip') /\ shape' \in Above(rows', tip')
  BY <1>2, <1>7, InvRight
<1>11. Len(outbox) = Len(outbox')
  BY <1>2
<1>12. \A k \in DOMAIN outbox : outbox'[k].status = "accepted" =>
          outbox[k].status = "accepted" \/ outbox[k].row \in Above(rows', tip')
  BY <1>2
<1> QED BY <1>2, <1>6, <1>9, <1>10, <1>11, <1>12, StepRight

\* The new entry's revision comes after all the outbox held, or on what the
\* server has: it waits for whatever brings its parent.
LEMMA EnqueueRight ==
    ASSUME SlotInv, RetryInv, SlotInv', NEW p \in Proc, Enqueue(p)
    PROVE  RetryInv'
<1>0. /\ op \in [Proc -> Op] /\ op[p] \in Op /\ Placed(op[p], intents, rows, outbox)
      /\ CallRight(op[p], slotLock = p, rows, outbox, tip)
      /\ rows \in Seq(Row) /\ outbox \in Seq(Entry) /\ outbox' \in Seq(Entry)
      /\ \A k \in DOMAIN outbox : EntryRight(k, rows, outbox, tip)
  BY DEF SlotInv, TypeOK, RetryInv
<1> DEFINE m == Len(outbox) + 1
           ex == op[p].excl
           r == op[p].row
           new == [row |-> r, source |-> op[p].id, deps |-> Dependencies(ex),
                   status |-> "queued"]
           o == [op[p] EXCEPT !.at = "linking", !.entry = m]
<1>1. /\ op' = [op EXCEPT ![p] = o]
      /\ o.at = "linking" /\ o.base = op[p].base /\ o.excl = ex
      /\ UNCHANGED <<rows, tip, shape, slotLock>>
  BY <1>0 DEF Enqueue, Op
<1>2. /\ DOMAIN outbox' = 1 .. m /\ DOMAIN outbox = 1 .. Len(outbox) /\ Len(outbox) \in Nat
      /\ \A k \in DOMAIN outbox : outbox'[k] = outbox[k]
      /\ outbox'[m].row = r /\ outbox'[m].deps = Dependencies(ex)
      /\ outbox'[m].status = "queued"
  <2>1. outbox' = Append(outbox, new)
    BY DEF Enqueue
  <2>2. new.row = r /\ new.deps = Dependencies(ex) /\ new.status = "queued"
    OBVIOUS
  <2> HIDE DEF new
  <2>3. /\ DOMAIN outbox' = 1 .. m /\ outbox'[m] = new
        /\ \A k \in DOMAIN outbox : outbox'[k] = outbox[k]
    BY <1>0, <2>1
  <2> QED BY <1>0, <2>2, <2>3
<1> HIDE DEF o, new
<1>3. /\ slotLock = p /\ Grounded(op[p].base, ex, rows, outbox, tip)
      /\ rows[r].parent = op[p].base /\ \A k \in DOMAIN outbox : outbox[k].row # r
      /\ ex \in SUBSET DOMAIN outbox
  BY <1>0 DEF CallRight, Enqueue
<1>4. Backward(outbox) /\ Same(outbox, outbox')
  <2>1. Len(outbox) =< Len(outbox')
    BY <1>0, <1>2
  <2> QED BY <1>2, <2>1, InvRight DEF Same
<1>5. EntryRight(m, rows, outbox', tip)
  <2>1. Dependencies(ex) \subseteq DOMAIN outbox
    BY DEF Dependencies
  <2>2. outbox'[m].deps \subseteq 1 .. m - 1
    BY <1>2, <2>1
  <2>3. \/ op[p].base \in Above(rows, tip)
        \/ \E j \in Dependencies(ex) : outbox'[j].row = op[p].base
    <3>1. CASE op[p].base \in Above(rows, tip)
      BY <3>1
    <3>2. CASE \E k \in DOMAIN outbox \ After(outbox, ex) : outbox[k].row = op[p].base
      <4>1. PICK k \in DOMAIN outbox \ After(outbox, ex) : outbox[k].row = op[p].base
        BY <3>2
      <4>2. CASE outbox[k].status = "accepted"
        <5>1. EntryRight(k, rows, outbox, tip)
          BY <1>0
        <5> QED BY <4>1, <4>2, <5>1 DEF EntryRight
      <4>3. CASE outbox[k].status # "accepted"
        <5>1. k \in Dependencies(ex)
          BY <4>1, <4>3, Names DEF Dependencies
        <5> QED BY <1>2, <4>1, <5>1
      <4> QED BY <4>2, <4>3
    <3> QED BY <1>3, <3>1, <3>2 DEF Grounded
  <2> QED BY <1>2, <1>3, <2>2, <2>3 DEF EntryRight
<1>6. ASSUME NEW k \in DOMAIN outbox
      PROVE  EntryRight(k, rows, outbox', tip)
  <2>1. EntryRight(k, rows, outbox, tip) /\ outbox'[k] = outbox[k]
    BY <1>0, <1>2
  <2>2. \A j \in outbox[k].deps : j \in DOMAIN outbox
    <3>1. outbox[k].deps \subseteq 1 .. k - 1 /\ 1 .. k - 1 \subseteq DOMAIN outbox
      BY <1>2, <2>1 DEF EntryRight
    <3> QED BY <3>1
  <2> QED BY <1>2, <2>1, <2>2 DEF EntryRight
<1>7. \A k \in DOMAIN outbox' : k \in DOMAIN outbox \/ k = m
  BY <1>2
<1>8. \A k \in DOMAIN outbox' : EntryRight(k, rows', outbox', tip')
  BY <1>1, <1>5, <1>6, <1>7
<1>9. \A j, k \in DOMAIN outbox' : outbox'[j].row = outbox'[k].row => j = k
  <2> TAKE j, k \in DOMAIN outbox'
  <2>1. \A a, b \in DOMAIN outbox : outbox[a].row = outbox[b].row => a = b
    BY DEF RetryInv
  <2> HIDE DEF m, r
  <2> QED BY <1>2, <1>3, <1>7, <2>1
<1>10. ASSUME NEW q \in Proc
       PROVE  CallRight(op'[q], slotLock' = q, rows', outbox', tip')
  <2>0. DOMAIN outbox \subseteq DOMAIN outbox'
    BY <1>2
  <2>1. CASE q = p
    <3>1. op'[q] = o
      BY <1>0, <1>1, <2>1
    <3>2. Grounded(o.base, o.excl, rows, outbox', tip)
      <4>1. outbox \in Seq(Entry) /\ outbox' \in Seq(Entry)
        BY <1>0
      <4> QED BY <1>1, <1>3, <1>4, <4>1, LaterGrounded
    <3>3. o.excl \subseteq DOMAIN outbox'
      BY <1>1, <1>3, <2>0
    <3> QED BY <1>1, <1>3, <2>1, <3>1, <3>2, <3>3 DEF CallRight
  <2>2. CASE q # p
    <3>1. op'[q] = op[q] /\ CallRight(op[q], slotLock = q, rows, outbox, tip)
      BY <1>0, <1>1, <2>2 DEF RetryInv
    <3>2. op[q].at # "queueing" /\ slotLock # q
      BY <1>3, <2>2, <3>1 DEF CallRight
    <3>3. op[q].excl \in SUBSET DOMAIN outbox
      BY <3>1 DEF CallRight
    <3>4. ASSUME Grounded(op[q].base, op[q].excl, rows, outbox, tip)
          PROVE  Grounded(op[q].base, op[q].excl, rows, outbox', tip)
      <4>1. outbox \in Seq(Entry) /\ outbox' \in Seq(Entry)
        BY <1>0
      <4> QED BY <1>4, <3>3, <3>4, <4>1, LaterGrounded
    <3>5. (slotLock' = q) = (slotLock = q)
      BY <1>1
    <3>6. CallRight(op[q], slotLock = q, rows, outbox', tip)
      BY <2>0, <3>1, <3>2, <3>4 DEF CallRight
    <3> QED BY <1>1, <3>1, <3>5, <3>6
  <2> QED BY <2>1, <2>2
<1>11. shape' \in Above(rows', tip')
  BY <1>1, InvRight
<1> QED BY <1>8, <1>9, <1>10, <1>11 DEF RetryInv

LEMMA SignerRight ==
    ASSUME SlotInv, RetryInv, Attended, SlotInv', Attended', NEW p \in Proc, Signer(p)
    PROVE  RetryInv'
<1>0. /\ op \in [Proc -> Op] /\ op[p] \in Op /\ Placed(op[p], intents, rows, outbox)
      /\ CallRight(op[p], slotLock = p, rows, outbox, tip)
      /\ outbox \in Seq(Entry)
  BY DEF SlotInv, TypeOK, RetryInv
<1> DEFINE ex == op[p].excl
<1>1. CASE AlreadyClaimed(p)
  BY <1>1, LeaveRight DEF AlreadyClaimed
<1>2. CASE Claim(p)
  <2> DEFINE o == [op[p] EXCEPT !.at = "building", !.copy = intents[op[p].id]]
  <2>1. /\ o.at = "building" /\ o.excl = ex /\ op' = [op EXCEPT ![p] = o]
        /\ slotLock = NoProc /\ slotLock' = p
    BY <1>0, <1>2 DEF Claim, Op
  <2> HIDE DEF o
  <2>2. CallRight(o, TRUE, rows, outbox, tip)
    BY <1>0, <2>1 DEF CallRight
  <2>3. (slotLock' = p) = TRUE
    BY <2>1
  <2>4. CallRight(o, slotLock' = p, rows, outbox, tip)
    BY <2>2, <2>3
  <2> QED BY <1>2, <2>1, <2>4, MoveRight DEF Claim
<1>3. CASE BaseUnavailable(p)
  BY <1>3, LeaveRight DEF BaseUnavailable
<1>4. CASE Build(p)
  <2>1. PICK base \in Bases(ex) :
           op' = [op EXCEPT ![p].at = "signing", ![p].base = base]
    BY <1>4 DEF Build
  <2> DEFINE o == [op[p] EXCEPT !.at = "signing", !.base = base]
  <2>2. /\ o.at = "signing" /\ o.base = base /\ o.excl = ex
        /\ op' = [op EXCEPT ![p] = o] /\ op[p].at = "building"
    BY <1>0, <1>4, <2>1 DEF Build, Op
  <2> HIDE DEF o
  <2>3. Grounded(o.base, o.excl, rows, outbox, tip)
    BY <2>2, BasesGrounded
  <2>4. CallRight(o, slotLock = p, rows, outbox, tip)
    BY <1>0, <2>2, <2>3 DEF CallRight
  <2>5. (slotLock' = p) = (slotLock = p) /\ slotLock' = slotLock
    BY <1>4 DEF Build
  <2>6. CallRight(o, slotLock' = p, rows, outbox, tip)
    BY <2>4, <2>5
  <2> QED BY <1>4, <2>2, <2>5, <2>6, MoveRight DEF Build
<1>5. CASE SignedBefore(p)
  BY <1>5, LeaveRight DEF SignedBefore
<1>6. CASE Replay(p)
  <2>1. op[p].id \in DOMAIN intents
    BY <1>0, <1>6 DEF Replay, Placed
  <2>2. SigningLocked(op[p].id)
    BY <1>6, <2>1 DEF Replay, Attended, SigningLocked
  <2> QED BY <1>6, <2>2 DEF Replay
<1>7. CASE Sign(p)
  BY <1>7, SignRight
<1>8. CASE Enqueue(p)
  BY <1>8, EnqueueRight
<1>9. CASE Link(p)
  <2> DEFINE o == [op[p] EXCEPT !.at = "sending"]
  <2>1. /\ o.at = "sending" /\ o.base = op[p].base /\ o.excl = ex
        /\ op' = [op EXCEPT ![p] = o] /\ op[p].at = "linking"
    BY <1>0, <1>9 DEF Link, Goes, Op
  <2> HIDE DEF o
  <2>2. CallRight(o, FALSE, rows, outbox, tip)
    BY <1>0, <2>1 DEF CallRight
  <2>3. slotLock' # p /\ (slotLock' = slotLock \/ {slotLock, slotLock'} \subseteq {p, NoProc})
    BY <1>9, SlotAssumption DEF Link
  <2>4. CallRight(o, slotLock' = p, rows, outbox, tip)
    <3>1. (slotLock' = p) = FALSE
      BY <2>3
    <3> QED BY <2>2, <3>1
  <2> QED BY <1>9, <2>1, <2>3, <2>4, MoveRight DEF Link
<1>10. CASE Settle(p)
  BY <1>10, LeaveRight DEF Settle
<1>11. CASE Conflict(p)
  <2> DEFINE o == [op[p] EXCEPT !.at = "retrying"]
  <2>1. o.at = "retrying" /\ o.excl = ex /\ op' = [op EXCEPT ![p] = o]
    BY <1>0, <1>11 DEF Conflict, Goes, Op
  <2> HIDE DEF o
  <2>2. slotLock # p /\ o.excl \subseteq DOMAIN outbox /\ o.at \in Resting
    BY <1>0, <1>11, <2>1 DEF Conflict, CallRight, Resting
  <2> QED BY <1>11, <2>1, <2>2, RestRight DEF Conflict
<1>12. CASE Retry(p)
  <2> DEFINE x == Min(EntriesOf(op[p].id))
             o == [op[p] EXCEPT !.at = "stored", !.id = Len(intents) + 1,
                                !.excl = @ \union {x}]
  <2>1. x \in DOMAIN outbox
    <3>1. op[p].entry \in EntriesOf(op[p].id)
      BY <1>0, <1>12 DEF Retry, Placed, EntriesOf
    <3>2. EntriesOf(op[p].id) \in SUBSET Nat
      BY <1>0 DEF EntriesOf
    <3>3. x \in EntriesOf(op[p].id)
      BY <3>1, <3>2, MinIsMember
    <3> QED BY <3>3 DEF EntriesOf
  <2> HIDE DEF x
  <2>2. o.at = "stored" /\ o.excl = ex \union {x} /\ op' = [op EXCEPT ![p] = o]
    BY <1>0, <1>12 DEF Retry, Op, x
  <2> HIDE DEF o
  <2>3. slotLock # p /\ o.excl \subseteq DOMAIN outbox /\ o.at \in Resting
    BY <1>0, <1>12, <2>1, <2>2 DEF Retry, CallRight, Resting
  <2> QED BY <1>12, <2>2, <2>3, RestRight DEF Retry
<1> QED BY <1>1, <1>2, <1>3, <1>4, <1>5, <1>6, <1>7, <1>8, <1>9, <1>10, <1>11, <1>12
        DEF Signer

\* Recovery starts with nothing left out.
LEMMA ProceedRight ==
    ASSUME SlotInv, RetryInv, SlotInv', NEW p \in Proc, Proceed(p),
           op[p].at \in {"resuming", "unmarking"},
           UNCHANGED <<rows, outbox, tip, shape, slotLock>>
    PROVE  RetryInv'
<1>0. /\ op[p] \in Op /\ op \in [Proc -> Op]
      /\ CallRight(op[p], slotLock = p, rows, outbox, tip)
  BY DEF SlotInv, TypeOK, RetryInv
<1>1. op[p].excl = {} /\ slotLock # p
  BY <1>0 DEF CallRight
<1>2. PICK o : /\ op' = [op EXCEPT ![p] = o]
               /\ o.at \in {"stored", "signing"} /\ o.excl = {}
  <2>1. CASE op[p].copy.kind = "storage"
    <3> DEFINE o == [op[p] EXCEPT !.at = "stored", !.read = Resolved]
    <3>1. op' = [op EXCEPT ![p] = o] /\ o.at = "stored" /\ o.excl = {}
      BY <1>0, <1>1, <2>1 DEF Proceed, Op
    <3> QED BY <3>1
  <2>2. CASE op[p].copy.kind # "storage"
    <3>1. PICK patch, base :
             op' = [op EXCEPT ![p].at = "signing", ![p].read = Resolved,
                              ![p].copy.patch = patch, ![p].base = base]
      BY <2>2 DEF Proceed
    <3> DEFINE o == [op[p] EXCEPT !.at = "signing", !.read = Resolved,
                                  !.copy.patch = patch, !.base = base]
    <3>2. op' = [op EXCEPT ![p] = o] /\ o.at = "signing" /\ o.excl = {}
      BY <1>0, <1>1, <3>1 DEF Op
    <3> QED BY <3>2
  <2> QED BY <2>1, <2>2
<1>3. CallRight(o, FALSE, rows, outbox, tip)
  BY <1>2 DEF CallRight
<1>4. (slotLock' = p) = FALSE /\ slotLock' = slotLock
  BY <1>1
<1>5. CallRight(o, slotLock' = p, rows, outbox, tip)
  BY <1>3, <1>4
<1> QED BY <1>2, <1>4, <1>5, MoveRight

LEMMA RecoverRight ==
    ASSUME SlotInv, RetryInv, SlotInv', NEW p \in Proc, Recover(p)
    PROVE  RetryInv'
<1>0. /\ op[p] \in Op /\ op \in [Proc -> Op]
      /\ CallRight(op[p], slotLock = p, rows, outbox, tip)
  BY DEF SlotInv, TypeOK, RetryInv
<1>1. ASSUME NEW stage \in {"marking", "unmarking"}, op[p].at = "resuming",
             op' = [op EXCEPT ![p].at = stage, ![p].read = intents[op[p].id]],
             UNCHANGED <<rows, outbox, tip, shape, slotLock>>
      PROVE  RetryInv'
  <2> DEFINE o == [op[p] EXCEPT !.at = stage, !.read = intents[op[p].id]]
  <2>1. op' = [op EXCEPT ![p] = o] /\ o.at = stage /\ o.excl = op[p].excl
    BY <1>0, <1>1 DEF Op
  <2> HIDE DEF o
  <2>2. slotLock # p /\ o.excl = {}
    BY <1>0, <1>1, <2>1 DEF CallRight
  <2>3. CallRight(o, FALSE, rows, outbox, tip)
    BY <2>1, <2>2 DEF CallRight
  <2>4. (slotLock' = p) = FALSE /\ slotLock' = slotLock
    BY <1>1, <2>2
  <2>5. CallRight(o, slotLock' = p, rows, outbox, tip)
    BY <2>3, <2>4
  <2> QED BY <1>1, <2>1, <2>4, <2>5, MoveRight
<1>2. CASE AwaitUnlock(p)
  BY <1>1, <1>2, LeaveRight DEF AwaitUnlock
<1>3. CASE Mark(p)
  BY <1>3, LeaveRight DEF Mark
<1>4. CASE Resume(p)
  <2>1. CASE Leave(p)
    BY <1>4, <2>1, LeaveRight DEF Resume
  <2>2. CASE Proceed(p) /\ UNCHANGED slotLock
    BY <1>4, <2>2, ProceedRight DEF Resume
  <2>3. CASE op' = [op EXCEPT ![p].at = "unmarking", ![p].read = intents[op[p].id]]
             /\ UNCHANGED slotLock
    BY <1>1, <1>4, <2>3 DEF Resume
  <2> QED BY <1>4, <2>1, <2>2, <2>3 DEF Resume
<1>5. CASE Unmark(p)
  BY <1>5, ProceedRight DEF Unmark
<1> QED BY <1>2, <1>3, <1>4, <1>5 DEF Recover

LEMMA ScanRight ==
    ASSUME SlotInv, RetryInv, SlotInv', NEW p \in Proc, NEW i \in DOMAIN intents, Scan(p, i)
    PROVE  RetryInv'
<1>0. /\ op[p] \in Op /\ op \in [Proc -> Op]
      /\ CallRight(op[p], slotLock = p, rows, outbox, tip)
  BY DEF SlotInv, TypeOK, RetryInv
<1> DEFINE o == [op[p] EXCEPT !.at = "resuming", !.id = i, !.copy = intents[i]]
<1>1. op' = [op EXCEPT ![p] = o] /\ o.at = "resuming" /\ o.excl = op[p].excl
  BY <1>0 DEF Scan, Op
<1> HIDE DEF o
<1>2. slotLock # p /\ o.excl = {}
  BY <1>0, <1>1 DEF CallRight, Scan
<1>3. CallRight(o, FALSE, rows, outbox, tip)
  BY <1>1, <1>2 DEF CallRight
<1>4. (slotLock' = p) = FALSE /\ slotLock' = slotLock
  BY <1>2 DEF Scan
<1>5. CallRight(o, slotLock' = p, rows, outbox, tip)
  BY <1>3, <1>4
<1> QED BY <1>1, <1>4, <1>5, MoveRight DEF Scan

\* What the server takes descends from what it has.
LEMMA TipAbove ==
    ASSUME SlotInv, NEW r \in DOMAIN rows, Applies(r)
    PROVE  tip \in Above(rows, r) /\ r \in Above(rows, r)
<1>1. rows \in Seq(Row) /\ Lineal(rows) /\ r \in 0 .. Len(rows) /\ r # 0
  BY WorldInv
<1>2. /\ r \in Above(rows, r) \ {0}
      /\ \A s \in Above(rows, r) \ {0} : rows[s].parent \in Above(rows, r)
  BY <1>1, AboveClosed
<1> QED BY <1>2 DEF Applies

\* The shape shows what the server had, and the tip descends from that.
LEMMA ShapeAbove ==
    ASSUME SlotInv, RetryInv, SlotInv', Grows(rows, rows'), tip \in Above(rows', tip')
    PROVE  shape \in Above(rows', tip')
<1>1. /\ rows \in Seq(Row) /\ rows' \in Seq(Row) /\ Lineal(rows')
      /\ tip \in 0 .. Len(rows) /\ tip' \in 0 .. Len(rows')
  BY DEF SlotInv, TypeOK
<1>2. Above(rows, tip) \subseteq Above(rows', tip')
  BY <1>1, StillAbove
<1> QED BY <1>2 DEF RetryInv

LEMMA DeliverRight ==
    ASSUME SlotInv, RetryInv, SlotInv', NEW k \in DOMAIN outbox, Deliver(k)
    PROVE  RetryInv'
<1>0. /\ outbox \in Seq(Entry) /\ \A j \in DOMAIN outbox : outbox[j].row \in DOMAIN rows
      /\ UNCHANGED <<rows, shape, op, slotLock>>
      /\ Grows(rows, rows')
  BY WorldInv DEF Deliver
<1> DEFINE r == outbox[k].row
<1>1. /\ Same(outbox, outbox') /\ Len(outbox) = Len(outbox')
      /\ \A j \in DOMAIN outbox : outbox'[j].status = "accepted" =>
            outbox[j].status = "accepted" \/ (j = k /\ Applies(r))
  <2>1. PICK st \in {"accepted", "refused"} :
            /\ outbox' = [outbox EXCEPT ![k].status = st]
            /\ st = "accepted" => Applies(r)
    BY DEF Deliver
  <2> DEFINE n == [outbox[k] EXCEPT !.status = st]
  <2>2. outbox[k] \in Entry
    BY <1>0
  <2>3. n.row = outbox[k].row /\ n.deps = outbox[k].deps /\ n.status = st
    BY <2>2 DEF Entry
  <2>4. outbox' = [outbox EXCEPT ![k] = n]
    BY <1>0, <2>1
  <2> HIDE DEF n, r
  <2> QED BY <1>0, <2>1, <2>3, <2>4 DEF Same
<1>2. tip \in Above(rows', tip') /\ (Applies(r) => r \in Above(rows', tip'))
  <2>1. CASE Applies(r)
    BY <1>0, <2>1, TipAbove DEF Deliver
  <2>2. CASE ~Applies(r)
    BY <1>0, <2>2, InvRight DEF Deliver
  <2> QED BY <2>1, <2>2
<1>3. shape' \in Above(rows', tip')
  BY <1>0, <1>2, ShapeAbove
<1>4. \A j \in DOMAIN outbox : outbox'[j].status = "accepted" =>
         outbox[j].status = "accepted" \/ outbox[j].row \in Above(rows', tip')
  BY <1>1, <1>2
<1>5. \A q \in Proc : CallRight(op[q], slotLock = q, rows', outbox', tip') =>
         CallRight(op'[q], slotLock' = q, rows', outbox', tip')
  BY <1>0
<1> QED BY <1>0, <1>1, <1>2, <1>3, <1>4, <1>5, StepRight

\* The server moves on by other ways; the outbox does not see it.
LEMMA ServerRight ==
    ASSUME SlotInv, RetryInv, SlotInv', UNCHANGED <<outbox, op, slotLock>>,
           Grows(rows, rows'), tip \in Above(rows', tip'),
           shape' = shape \/ shape' = tip
    PROVE  RetryInv'
<1>1. outbox' = outbox /\ op' = op /\ slotLock' = slotLock
  OBVIOUS
<1>2. Same(outbox, outbox') /\ Len(outbox) = Len(outbox')
  BY <1>1, InvRight
<1>3. shape' \in Above(rows', tip')
  BY ShapeAbove
<1>4. \A k \in DOMAIN outbox : outbox'[k].status = "accepted" =>
         outbox[k].status = "accepted" \/ outbox[k].row \in Above(rows', tip')
  BY <1>1
<1>5. \A q \in Proc : CallRight(op[q], slotLock = q, rows', outbox', tip') =>
         CallRight(op'[q], slotLock' = q, rows', outbox', tip')
  BY <1>1
<1> QED BY <1>2, <1>3, <1>4, <1>5, StepRight

LEMMA LoseAnswerRight ==
    ASSUME SlotInv, RetryInv, SlotInv', NEW k \in DOMAIN outbox, LoseAnswer(k)
    PROVE  RetryInv'
<1>1. /\ outbox[k].row \in DOMAIN rows /\ Applies(outbox[k].row)
      /\ tip' = outbox[k].row /\ rows' = rows /\ shape' = shape
      /\ UNCHANGED <<outbox, op, slotLock>>
  BY WorldInv DEF LoseAnswer, Applies
<1>2. tip \in Above(rows', tip') /\ Grows(rows, rows')
  BY <1>1, TipAbove, WorldInv
<1> QED BY <1>1, <1>2, ServerRight

LEMMA ForeignRight ==
    ASSUME SlotInv, RetryInv, SlotInv', NEW x \in Foreign, ForeignWrite(x)
    PROVE  RetryInv'
<1> DEFINE row == [patch |-> {x}, parent |-> tip, value |-> Value(tip) \union {x}]
           r == Len(rows) + 1
<1>1. /\ rows' = Append(rows, row) /\ tip' = r /\ row.parent = tip
      /\ UNCHANGED <<outbox, shape, op, slotLock>>
  BY DEF ForeignWrite
<1> HIDE DEF row
<1>2. rows \in Seq(Row) /\ rows' \in Seq(Row) /\ Lineal(rows') /\ tip' \in 0 .. Len(rows')
  BY WorldInv DEF SlotInv, TypeOK
<1>3. Grows(rows, rows') /\ rows'[r] = row /\ r # 0
  <2>1. Len(rows) =< Len(Append(rows, row)) /\ Append(rows, row)[r] = row /\ r # 0
    BY <1>2
  <2>2. \A s \in DOMAIN rows : Append(rows, row)[s] = rows[s]
    BY <1>2
  <2> QED BY <1>1, <2>1, <2>2 DEF Grows
<1>4. tip \in Above(rows', tip')
  <2>1. r \in Above(rows', r) /\ \A s \in Above(rows', r) \ {0} : rows'[s].parent \in Above(rows', r)
    BY <1>1, <1>2, AboveClosed
  <2> QED BY <1>1, <1>3, <2>1
<1>5. shape' = shape
  BY <1>1
<1> QED BY <1>1, <1>3, <1>4, <1>5, ServerRight

LEMMA SyncRight ==
    ASSUME SlotInv, RetryInv, SlotInv', Sync
    PROVE  RetryInv'
<1>1. UNCHANGED <<outbox, op, slotLock>> /\ rows' = rows /\ tip' = tip /\ shape' = tip
  BY DEF Sync
<1>2. tip \in Above(rows', tip') /\ Grows(rows, rows')
  BY <1>1, InvRight
<1> QED BY <1>1, <1>2, ServerRight

LEMMA InitRight ==
    Init => RetryInv
<1> SUFFICES ASSUME Init PROVE RetryInv
  OBVIOUS
<1>1. /\ rows = <<>> /\ outbox = <<>> /\ tip = 0 /\ shape = 0
      /\ op = [p \in Proc |-> Idle] /\ slotLock = NoProc
  BY DEF Init
<1>2. 0 \in Above(rows, 0)
  <2>1. rows \in Seq(Row) /\ Lineal(rows) /\ 0 \in 0 .. Len(rows)
    BY <1>1 DEF Lineal
  <2> QED BY <2>1, AboveClosed
<1>3. \A p \in Proc : CallRight(op[p], slotLock = p, rows, outbox, tip)
  <2> TAKE p \in Proc
  <2>1. op[p] = Idle /\ (slotLock = p) = FALSE
    BY <1>1, SlotAssumption
  <2>2. CallRight(Idle, FALSE, rows, outbox, tip)
    BY DEF Idle, CallRight
  <2> QED BY <2>1, <2>2
<1>4. DOMAIN outbox = {}
  BY <1>1
<1> QED BY <1>1, <1>2, <1>3, <1>4 DEF RetryInv

LEMMA NextRight ==
    SlotInv /\ RetryInv /\ Attended /\ Attended' /\ [Next]_vars => RetryInv'
<1> SUFFICES ASSUME SlotInv, RetryInv, Attended, Attended', [Next]_vars PROVE RetryInv'
  OBVIOUS
<1>0. SlotInv'
  BY NextInv
<1>1. CASE \E e \in Edit : Call(e)
  BY <1>0, <1>1, EditRight
<1>2. CASE \E p \in Proc : Signer(p)
  BY <1>0, <1>2, SignerRight
<1>3. CASE \E p \in Proc : Stop(p)
  BY <1>0, <1>3, LeaveRight DEF Stop
<1>4. CASE \E p \in Pass : Recover(p)
  BY <1>0, <1>4, RecoverRight DEF Proc
<1>5. CASE \E p \in Pass : \E i \in DOMAIN intents : Scan(p, i)
  BY <1>0, <1>5, ScanRight DEF Proc
<1>6. CASE \E k \in DOMAIN outbox : Deliver(k)
  BY <1>0, <1>6, DeliverRight
<1>7. CASE \E k \in DOMAIN outbox : LoseAnswer(k)
  BY <1>0, <1>7, LoseAnswerRight
<1>8. CASE \E x \in Foreign : ForeignWrite(x)
  BY <1>0, <1>8, ForeignRight
<1>9. CASE Sync
  BY <1>0, <1>9, SyncRight
<1>10. CASE UNCHANGED vars
  <2>1. UNCHANGED <<outbox, op, slotLock>> /\ rows' = rows /\ tip' = tip /\ shape' = shape
    BY <1>10 DEF vars
  <2>2. tip \in Above(rows', tip') /\ Grows(rows, rows')
    BY <2>1, InvRight
  <2> QED BY <1>0, <2>1, <2>2, ServerRight
<1> QED BY <1>1, <1>2, <1>3, <1>4, <1>5, <1>6, <1>7, <1>8, <1>9, <1>10 DEF Next

\* As long as no snapshot is left behind by a call that stopped, a retry starts
\* over: what its base rests on is on the server, or is queued and waits for
\* nothing the retry leaves out (resolveStorageBase,
\* transitiveDependencyClosure).
THEOREM RetriesStartOverAttended == Spec /\ []Attended => []RetriesStartOver
BY InitInv, NextInv, InitRight, NextRight, RetryMeans, PTL DEF Spec

----------------------------------------------------------------------------
(* When no tab goes away, a snapshot is attended until it is queued: the    *)
(* slot's lock is held from the claim to the link.                          *)

\* The call builds or signs a payload of its own, and stores one when it merges.
CopyFits(o, is) ==
    /\ o.at \in {"merging", "storing"} => o.copy.kind = "storage"
    /\ o.at = "signing" /\ is[o.id].kind = "storage" => o.copy.kind = "storage"
    /\ o.at \in {"marking", "unmarking"} => is[o.id].kind = o.read.kind

CallHolds(o, held) ==
    /\ o.at \in {"building", "queueing", "linking"} => held
    /\ o.at = "signing" /\ o.copy.kind = "storage" => held

HeldInv == /\ \A p \in Proc : CallHolds(op[p], slotLock = p)
           /\ Attended

LEMMA StillAttended ==
    ASSUME SlotInv, Attended, NEW p \in Proc, NEW o, op' = [op EXCEPT ![p] = o],
           slotLock' = slotLock \/ {slotLock, slotLock'} \subseteq {p, NoProc},
           op[p].at \notin {"queueing", "linking"},
           \A i \in DOMAIN intents' : intents'[i].kind = "signed" =>
              i \in DOMAIN intents /\ intents[i].kind = "signed"
    PROVE  Attended'
<1> SUFFICES ASSUME NEW i \in DOMAIN intents', intents'[i].kind = "signed"
             PROVE  \E q \in Proc : op'[q].at \in {"queueing", "linking"} /\ op'[q].id = i
                                    /\ slotLock' = q
  BY DEF Attended
<1>1. PICK q \in Proc : op[q].at \in {"queueing", "linking"} /\ op[q].id = i /\ slotLock = q
  BY DEF Attended
<1>2. q # p /\ op'[q] = op[q]
  BY <1>1 DEF SlotInv, TypeOK
<1>3. slotLock' = q
  BY <1>1, <1>2, SlotAssumption
<1> QED BY <1>1, <1>2, <1>3

\* A step of the call p that signs nothing and links nothing.
LEMMA MoveHolds ==
    ASSUME SlotInv, HeldInv, NEW p \in Proc, NEW o, op' = [op EXCEPT ![p] = o],
           slotLock' = slotLock \/ {slotLock, slotLock'} \subseteq {p, NoProc},
           CallHolds(o, slotLock' = p), op[p].at \notin {"queueing", "linking"},
           \A i \in DOMAIN intents' : intents'[i].kind = "signed" =>
              i \in DOMAIN intents /\ intents[i].kind = "signed"
    PROVE  HeldInv'
<1>1. \A q \in Proc : CallHolds(op'[q], slotLock' = q)
  <2> TAKE q \in Proc
  <2>1. op'[q] = IF q = p THEN o ELSE op[q]
    BY DEF SlotInv, TypeOK
  <2>2. CASE q = p
    BY <2>1, <2>2
  <2>3. CASE q # p
    <3>1. (slotLock' = q) <=> (slotLock = q)
      BY <2>3, SlotAssumption
    <3>2. (slotLock' = q) = (slotLock = q)
      BY <3>1
    <3> QED BY <2>1, <2>3, <3>2 DEF HeldInv
  <2> QED BY <2>2, <2>3
<1>2. Attended'
  BY StillAttended DEF HeldInv
<1> QED BY <1>1, <1>2 DEF HeldInv

\* The call rests, or ends.
LEMMA RestHolds ==
    ASSUME SlotInv, HeldInv, NEW p \in Proc, NEW o, op' = [op EXCEPT ![p] = o],
           slotLock' = slotLock \/ {slotLock, slotLock'} \subseteq {p, NoProc},
           o.at \in Resting \union {"idle", "sending", "resuming", "unmarking"},
           op[p].at \notin {"queueing", "linking"},
           \A i \in DOMAIN intents' : intents'[i].kind = "signed" =>
              i \in DOMAIN intents /\ intents[i].kind = "signed"
    PROVE  HeldInv'
<1>1. CallHolds(o, slotLock' = p)
  BY DEF CallHolds, Resting
<1> QED BY <1>1, MoveHolds

LEMMA LeaveHolds ==
    ASSUME SlotInv, HeldInv, NEW p \in Proc, Leave(p),
           op[p].at \notin {"queueing", "linking"},
           \A i \in DOMAIN intents' : intents'[i].kind = "signed" =>
              i \in DOMAIN intents /\ intents[i].kind = "signed"
    PROVE  HeldInv'
<1>1. PICK o : op' = [op EXCEPT ![p] = o] /\ o.at \in {"idle", "done"}
  BY Left
<1>2. slotLock' = slotLock \/ {slotLock, slotLock'} \subseteq {p, NoProc}
  BY DEF Leave
<1>3. o.at \in Resting \union {"idle", "sending", "resuming", "unmarking"}
  BY <1>1 DEF Resting
<1> QED BY <1>1, <1>2, <1>3, RestHolds

LEMMA EditHolds ==
    ASSUME SlotInv, HeldInv, NEW e \in Edit, Call(e), CopyFits(op[e], intents)
    PROVE  HeldInv'
<1> e \in Proc
  BY DEF Proc
<1>0. op \in [Proc -> Op] /\ op[e] \in Op /\ intents \in Seq(Intent)
      /\ Placed(op[e], intents, rows, outbox)
  BY DEF SlotInv, TypeOK
<1>1. CASE Leave(e) /\ intents' = intents /\ op[e].at \in {"merging", "stored"}
  BY <1>1, LeaveHolds
<1>2. ASSUME ~Leave(e)
      PROVE  /\ slotLock' = slotLock /\ op[e].at \notin {"queueing", "linking"}
             /\ \E o : op' = [op EXCEPT ![e] = o] /\ o.at \in Resting
             /\ \A i \in DOMAIN intents' : intents'[i].kind = "signed" =>
                   i \in DOMAIN intents /\ intents[i].kind = "signed"
  <2>1. CASE FindNone(e)
    <3> DEFINE o == [op[e] EXCEPT !.at = "creating"]
    <3>1. o.at \in Resting /\ op' = [op EXCEPT ![e] = o]
      BY <1>0, <2>1 DEF FindNone, Goes, Op, Resting
    <3> HIDE DEF o
    <3> QED BY <2>1, <3>1 DEF FindNone
  <2>2. CASE Find(e)
    <3>1. PICK i, c : op' = [op EXCEPT ![e].at = "merging", ![e].id = i, ![e].copy = c]
      BY <2>2 DEF Find
    <3> DEFINE o == [op[e] EXCEPT !.at = "merging", !.id = i, !.copy = c]
    <3>2. o.at \in Resting /\ op' = [op EXCEPT ![e] = o]
      BY <1>0, <3>1 DEF Op, Resting
    <3> HIDE DEF o
    <3> QED BY <2>2, <3>2 DEF Find
  <2>3. CASE Create(e)
    <3> DEFINE o == [op[e] EXCEPT !.at = "stored", !.id = Len(intents) + 1]
    <3>1. o.at \in Resting /\ op' = [op EXCEPT ![e] = o]
      BY <1>0, <2>3 DEF Create, Op, Resting
    <3> HIDE DEF o
    <3>2. Payload({e}, 0).kind = "storage"
      BY DEF Payload, Resolved
    <3>3. \A i \in DOMAIN intents' : intents'[i].kind = "signed" =>
             i \in DOMAIN intents /\ intents[i].kind = "signed"
      <4> DEFINE n == Payload({e}, 0)
      <4>1. intents' = Append(intents, n) /\ n.kind = "storage"
        BY <2>3, <3>2 DEF Create
      <4> HIDE DEF n
      <4> QED BY <1>0, <4>1
    <3> QED BY <2>3, <3>1, <3>3 DEF Create
  <2>4. CASE Merge(e)
    <3> DEFINE o == [op[e] EXCEPT !.at = "storing"]
    <3>1. o.at \in Resting /\ op' = [op EXCEPT ![e] = o]
      BY <1>0, <1>2, <2>4 DEF Merge, Goes, Op, Resting
    <3> HIDE DEF o
    <3> QED BY <1>2, <2>4, <3>1 DEF Merge
  <2>5. CASE Store(e)
    <3> DEFINE o == [op[e] EXCEPT !.at = "stored"]
               n == [op[e].copy EXCEPT !.awaiting = FALSE]
    <3>1. o.at \in Resting /\ op' = [op EXCEPT ![e] = o]
      BY <1>0, <2>5 DEF Store, Goes, Op, Resting
    <3>2. n.kind = "storage" /\ intents' = [intents EXCEPT ![op[e].id] = n]
      BY <1>0, <2>5 DEF Store, CopyFits, Placed, Known, Intent
    <3> HIDE DEF o, n
    <3>3. \A i \in DOMAIN intents' : intents'[i].kind = "signed" =>
             i \in DOMAIN intents /\ intents[i].kind = "signed"
      BY <1>0, <3>2
    <3> QED BY <2>5, <3>1, <3>3 DEF Store
  <2> QED BY <1>2, <2>1, <2>2, <2>3, <2>4, <2>5 DEF Call, NoKey
<1>3. CASE ~Leave(e)
  <2>1. PICK o : op' = [op EXCEPT ![e] = o] /\ o.at \in Resting
    BY <1>2, <1>3
  <2>2. /\ slotLock' = slotLock /\ op[e].at \notin {"queueing", "linking"}
        /\ \A i \in DOMAIN intents' : intents'[i].kind = "signed" =>
              i \in DOMAIN intents /\ intents[i].kind = "signed"
    BY <1>2, <1>3
  <2> QED BY <2>1, <2>2, RestHolds
<1>4. CASE Leave(e)
  <2>1. op'[e].at \in {"idle", "done"}
    BY <1>0, <1>4 DEF Leave, Idle
  <2>2. op'[e].at = "done"
    BY <1>0, <1>4 DEF Leave
  <2>3. intents' = intents /\ op[e].at \in {"merging", "stored"}
    <3>1. ~FindNone(e) /\ ~Store(e)
      BY <1>0, <2>2 DEF FindNone, Store, Goes, Op
    <3>2. ~Find(e)
      <4> SUFFICES ASSUME NEW i, NEW c,
                          op' = [op EXCEPT ![e].at = "merging", ![e].id = i, ![e].copy = c]
                   PROVE  FALSE
        BY DEF Find
      <4> QED BY <1>0, <2>2 DEF Op
    <3>3. ~Create(e)
      BY <1>0, <2>2 DEF Create, Op
    <3>4. Merge(e) \/ NoKey(e)
      BY <3>1, <3>2, <3>3 DEF Call
    <3> QED BY <3>4 DEF Merge, NoKey
  <2> QED BY <1>1, <1>4, <2>3
<1> QED BY <1>3, <1>4

\* Signing, queueing and linking are done by the one call that holds the slot.
LEMMA SignHolds ==
    ASSUME SlotInv, HeldInv, NEW p \in Proc, Sign(p), CopyFits(op[p], intents)
    PROVE  HeldInv'
<1>0. /\ op \in [Proc -> Op] /\ op[p] \in Op /\ intents \in Seq(Intent)
      /\ Placed(op[p], intents, rows, outbox) /\ CallHolds(op[p], slotLock = p)
  BY DEF SlotInv, TypeOK, HeldInv
<1> DEFINE i == op[p].id
           r == Len(rows) + 1
           n == [Resolved EXCEPT !.kind = "signed", !.row = r]
           o == [op[p] EXCEPT !.at = "queueing", !.row = r]
<1>1. /\ op' = [op EXCEPT ![p] = o] /\ o.at = "queueing" /\ o.id = i
      /\ slotLock' = slotLock /\ intents' = [intents EXCEPT ![i] = n]
  BY <1>0 DEF Sign, Op
<1>2. slotLock = p
  BY <1>0 DEF Sign, CopyFits, CallHolds
<1> HIDE DEF o, n, r
<1>3. \A q \in Proc : op'[q] = IF q = p THEN o ELSE op[q]
  BY <1>0, <1>1
<1>4. \A q \in Proc : CallHolds(op'[q], slotLock' = q)
  <2> TAKE q \in Proc
  <2>1. CASE q = p
    BY <1>1, <1>2, <1>3, <2>1 DEF CallHolds
  <2>2. CASE q # p
    BY <1>1, <1>3, <2>2 DEF HeldInv
  <2> QED BY <2>1, <2>2
<1>5. Attended'
  <2> SUFFICES ASSUME NEW j \in DOMAIN intents', intents'[j].kind = "signed"
               PROVE  j = i
    BY <1>1, <1>2, <1>3 DEF Attended
  <2> SUFFICES ASSUME j # i PROVE FALSE
    OBVIOUS
  <2>1. j \in DOMAIN intents /\ intents[j].kind = "signed"
    BY <1>0, <1>1
  <2>2. PICK q \in Proc : op[q].at \in {"queueing", "linking"} /\ slotLock = q
    BY <2>1 DEF HeldInv, Attended
  <2> QED BY <1>2, <2>2 DEF Sign
<1> QED BY <1>4, <1>5 DEF HeldInv

LEMMA EnqueueHolds ==
    ASSUME SlotInv, HeldInv, NEW p \in Proc, Enqueue(p)
    PROVE  HeldInv'
<1>0. /\ op \in [Proc -> Op] /\ op[p] \in Op /\ CallHolds(op[p], slotLock = p)
  BY DEF SlotInv, TypeOK, HeldInv
<1> DEFINE o == [op[p] EXCEPT !.at = "linking", !.entry = Len(outbox) + 1]
<1>1. /\ op' = [op EXCEPT ![p] = o] /\ o.at = "linking" /\ o.id = op[p].id
      /\ slotLock' = slotLock /\ intents' = intents /\ slotLock = p
  BY <1>0 DEF Enqueue, CallHolds, Op
<1> HIDE DEF o
<1>2. \A q \in Proc : op'[q] = IF q = p THEN o ELSE op[q]
  BY <1>0, <1>1
<1>3. \A q \in Proc : CallHolds(op'[q], slotLock' = q)
  <2> TAKE q \in Proc
  <2>1. CASE q = p
    BY <1>1, <1>2, <2>1 DEF CallHolds
  <2>2. CASE q # p
    BY <1>1, <1>2, <2>2 DEF HeldInv
  <2> QED BY <2>1, <2>2
<1>4. Attended'
  BY <1>1, <1>2 DEF HeldInv, Attended
<1> QED BY <1>3, <1>4 DEF HeldInv

\* The snapshot of the call that links was the only one.
LEMMA LinkHolds ==
    ASSUME SlotInv, HeldInv, NEW p \in Proc, Link(p)
    PROVE  HeldInv'
<1>0. /\ op \in [Proc -> Op] /\ op[p] \in Op /\ intents \in Seq(Intent)
      /\ Placed(op[p], intents, rows, outbox) /\ CallHolds(op[p], slotLock = p)
  BY DEF SlotInv, TypeOK, HeldInv
<1> DEFINE i == op[p].id
           o == [op[p] EXCEPT !.at = "sending"]
<1>1. /\ op' = [op EXCEPT ![p] = o] /\ o.at = "sending"
      /\ intents' = [intents EXCEPT ![i] = Resolved]
      /\ slotLock = p /\ slotLock' = NoProc
  BY <1>0 DEF Link, Goes, CallHolds, Op
<1> HIDE DEF o
<1>2. \A q \in Proc : op'[q] = IF q = p THEN o ELSE op[q]
  BY <1>0, <1>1
<1>3. \A q \in Proc : CallHolds(op'[q], slotLock' = q)
  <2> TAKE q \in Proc
  <2>1. CASE q = p
    BY <1>1, <1>2, <2>1 DEF CallHolds
  <2>2. CASE q # p
    <3>1. (slotLock = q) = FALSE /\ (slotLock' = q) = FALSE
      BY <1>1, <2>2, SlotAssumption
    <3> QED BY <1>2, <2>2, <3>1 DEF HeldInv
  <2> QED BY <2>1, <2>2
<1>4. Attended'
  <2> SUFFICES ASSUME NEW j \in DOMAIN intents', intents'[j].kind = "signed"
               PROVE  FALSE
    BY DEF Attended
  <2>1. Resolved.kind = "resolved"
    BY DEF Resolved
  <2>2. j \in DOMAIN intents /\ intents[j].kind = "signed" /\ j # i
    BY <1>0, <1>1, <2>1
  <2>3. PICK q \in Proc : op[q].id = j /\ slotLock = q
    BY <2>2 DEF HeldInv, Attended
  <2> QED BY <1>1, <2>2, <2>3
<1> QED BY <1>3, <1>4 DEF HeldInv

LEMMA SignerHolds ==
    ASSUME SlotInv, HeldInv, NEW p \in Proc, Signer(p), CopyFits(op[p], intents)
    PROVE  HeldInv'
<1>0. /\ op \in [Proc -> Op] /\ op[p] \in Op /\ intents \in Seq(Intent)
      /\ Placed(op[p], intents, rows, outbox) /\ CallHolds(op[p], slotLock = p)
  BY DEF SlotInv, TypeOK, HeldInv
<1>1. CASE AlreadyClaimed(p)
  BY <1>1, LeaveHolds DEF AlreadyClaimed
<1>2. CASE Claim(p)
  <2> DEFINE o == [op[p] EXCEPT !.at = "building", !.copy = intents[op[p].id]]
  <2>1. /\ o.at = "building" /\ op' = [op EXCEPT ![p] = o] /\ op[p].at = "stored"
        /\ slotLock = NoProc /\ slotLock' = p /\ intents' = intents
    BY <1>0, <1>2 DEF Claim, Op
  <2> HIDE DEF o
  <2>2. CallHolds(o, slotLock' = p)
    BY <2>1 DEF CallHolds
  <2>3. slotLock' = slotLock \/ {slotLock, slotLock'} \subseteq {p, NoProc}
    BY <2>1
  <2> QED BY <2>1, <2>2, <2>3, MoveHolds
<1>3. CASE BaseUnavailable(p)
  BY <1>3, LeaveHolds DEF BaseUnavailable
<1>4. CASE Build(p)
  <2>1. PICK base : op' = [op EXCEPT ![p].at = "signing", ![p].base = base]
    BY <1>4 DEF Build
  <2> DEFINE o == [op[p] EXCEPT !.at = "signing", !.base = base]
  <2>2. /\ o.at = "signing" /\ op' = [op EXCEPT ![p] = o] /\ op[p].at = "building"
        /\ slotLock' = slotLock /\ intents' = intents
    BY <1>0, <1>4, <2>1 DEF Build, Op
  <2> HIDE DEF o
  <2>3. CallHolds(o, slotLock' = p)
    BY <1>0, <2>2 DEF CallHolds
  <2> QED BY <2>2, <2>3, MoveHolds
<1>5. CASE SignedBefore(p)
  <2>1. /\ intents' = [intents EXCEPT ![op[p].id] = Resolved]
        /\ Leave(p) /\ op[p].at = "signing" /\ Resolved.kind = "resolved"
    BY <1>5 DEF SignedBefore, Resolved
  <2>2. \A i \in DOMAIN intents' : intents'[i].kind = "signed" =>
           i \in DOMAIN intents /\ intents[i].kind = "signed"
    BY <1>0, <2>1
  <2> QED BY <2>1, <2>2, LeaveHolds
<1>6. CASE Replay(p)
  <2>1. op[p].id \in DOMAIN intents
    BY <1>0, <1>6 DEF Replay, Placed
  <2>2. SigningLocked(op[p].id)
    BY <1>6, <2>1 DEF Replay, HeldInv, Attended, SigningLocked
  <2> QED BY <1>6, <2>2 DEF Replay
<1>7. CASE Sign(p)
  BY <1>7, SignHolds
<1>8. CASE Enqueue(p)
  BY <1>8, EnqueueHolds
<1>9. CASE Link(p)
  BY <1>9, LinkHolds
<1>10. CASE Settle(p)
  BY <1>10, LeaveHolds DEF Settle
<1>11. CASE Conflict(p)
  <2> DEFINE o == [op[p] EXCEPT !.at = "retrying"]
  <2>1. o.at = "retrying" /\ op' = [op EXCEPT ![p] = o]
    BY <1>0, <1>11 DEF Conflict, Goes, Op
  <2> HIDE DEF o
  <2> QED BY <1>11, <2>1, RestHolds DEF Conflict, Resting
<1>12. CASE Retry(p)
  <2>1. PICK id, excl : op' = [op EXCEPT ![p].at = "stored", ![p].id = id, ![p].excl = excl]
    BY <1>12 DEF Retry
  <2> DEFINE n == Payload(op[p].copy.patch, op[p].copy.attempts + 1)
             o == [op[p] EXCEPT !.at = "stored", !.id = id, !.excl = excl]
  <2>2. o.at = "stored" /\ op' = [op EXCEPT ![p] = o]
    BY <1>0, <2>1 DEF Op
  <2>3. intents' = Append(intents, n) /\ n.kind = "storage"
    BY <1>12 DEF Retry, Payload, Resolved
  <2> HIDE DEF o, n
  <2>4. \A i \in DOMAIN intents' : intents'[i].kind = "signed" =>
           i \in DOMAIN intents /\ intents[i].kind = "signed"
    BY <1>0, <2>3
  <2> QED BY <1>12, <2>2, <2>4, RestHolds DEF Retry, Resting
<1> QED BY <1>1, <1>2, <1>3, <1>4, <1>5, <1>6, <1>7, <1>8, <1>9, <1>10, <1>11, <1>12
        DEF Signer

LEMMA ProceedHolds ==
    ASSUME SlotInv, HeldInv, NEW p \in Proc, Proceed(p), slotLock' = slotLock,
           op[p].at \in {"resuming", "unmarking"},
           \A i \in DOMAIN intents' : intents'[i].kind = "signed" =>
              i \in DOMAIN intents /\ intents[i].kind = "signed"
    PROVE  HeldInv'
<1>0. op \in [Proc -> Op] /\ op[p] \in Op
  BY DEF SlotInv, TypeOK
<1>1. PICK o : /\ op' = [op EXCEPT ![p] = o]
               /\ o.at = "stored" \/ (o.at = "signing" /\ o.copy.kind # "storage")
  <2>1. CASE op[p].copy.kind = "storage"
    <3> DEFINE o == [op[p] EXCEPT !.at = "stored", !.read = Resolved]
    <3>1. op' = [op EXCEPT ![p] = o] /\ o.at = "stored"
      BY <1>0, <2>1 DEF Proceed, Op
    <3> QED BY <3>1
  <2>2. CASE op[p].copy.kind # "storage"
    <3>1. PICK patch, base :
             op' = [op EXCEPT ![p].at = "signing", ![p].read = Resolved,
                              ![p].copy.patch = patch, ![p].base = base]
      BY <2>2 DEF Proceed
    <3> DEFINE copy == [op[p].copy EXCEPT !.patch = patch]
               o == [op[p] EXCEPT !.at = "signing", !.read = Resolved,
                                  !.copy = copy, !.base = base]
    <3>2. copy.kind = op[p].copy.kind
      BY <1>0 DEF Op, Intent
    <3>3. op' = [op EXCEPT ![p] = o]
      BY <1>0, <3>1 DEF Op
    <3> HIDE DEF copy
    <3>4. o.at = "signing" /\ o.copy = copy
      BY <1>0 DEF Op
    <3> QED BY <2>2, <3>2, <3>3, <3>4
  <2> QED BY <2>1, <2>2
<1>2. CallHolds(o, slotLock' = p)
  BY <1>1 DEF CallHolds
<1> QED BY <1>1, <1>2, MoveHolds

LEMMA RecoverHolds ==
    ASSUME SlotInv, HeldInv, NEW p \in Proc, Recover(p), CopyFits(op[p], intents)
    PROVE  HeldInv'
<1>0. /\ op \in [Proc -> Op] /\ op[p] \in Op /\ intents \in Seq(Intent)
      /\ Placed(op[p], intents, rows, outbox)
  BY DEF SlotInv, TypeOK
<1>1. ASSUME NEW stage \in {"marking", "unmarking"}, op[p].at = "resuming",
             op' = [op EXCEPT ![p].at = stage, ![p].read = intents[op[p].id]],
             slotLock' = slotLock, intents' = intents
      PROVE  HeldInv'
  <2> DEFINE o == [op[p] EXCEPT !.at = stage, !.read = intents[op[p].id]]
  <2>1. op' = [op EXCEPT ![p] = o] /\ o.at = stage
    BY <1>0, <1>1 DEF Op
  <2> HIDE DEF o
  <2> QED BY <1>1, <2>1, RestHolds DEF Resting
<1>2. ASSUME NEW mark \in BOOLEAN, op[p].at \in {"marking", "unmarking"},
             intents' = [intents EXCEPT ![op[p].id] = [op[p].read EXCEPT !.awaiting = mark]]
      PROVE  \A i \in DOMAIN intents' : intents'[i].kind = "signed" =>
                i \in DOMAIN intents /\ intents[i].kind = "signed"
  <2> DEFINE n == [op[p].read EXCEPT !.awaiting = mark]
  <2>1. n.kind = intents[op[p].id].kind
    BY <1>0, <1>2 DEF CopyFits, Op, Intent
  <2> HIDE DEF n
  <2> QED BY <1>0, <1>2, <2>1 DEF n
<1>3. CASE AwaitUnlock(p)
  BY <1>1, <1>3, LeaveHolds DEF AwaitUnlock
<1>4. CASE Mark(p)
  <2>1. /\ op[p].at = "marking" /\ Leave(p)
        /\ intents' = [intents EXCEPT ![op[p].id] = [op[p].read EXCEPT !.awaiting = TRUE]]
    BY <1>4 DEF Mark
  <2>2. \A i \in DOMAIN intents' : intents'[i].kind = "signed" =>
           i \in DOMAIN intents /\ intents[i].kind = "signed"
    BY <1>2, <2>1
  <2> QED BY <2>1, <2>2, LeaveHolds
<1>5. CASE Resume(p)
  <2>1. CASE Leave(p)
    BY <1>5, <2>1, LeaveHolds DEF Resume
  <2>2. CASE Proceed(p) /\ UNCHANGED slotLock
    BY <1>5, <2>2, ProceedHolds DEF Resume
  <2>3. CASE op' = [op EXCEPT ![p].at = "unmarking", ![p].read = intents[op[p].id]]
             /\ UNCHANGED slotLock
    BY <1>1, <1>5, <2>3 DEF Resume
  <2> QED BY <1>5, <2>1, <2>2, <2>3 DEF Resume
<1>6. CASE Unmark(p)
  <2>1. /\ op[p].at = "unmarking" /\ Proceed(p) /\ slotLock' = slotLock
        /\ intents' = [intents EXCEPT ![op[p].id] = [op[p].read EXCEPT !.awaiting = FALSE]]
    BY <1>6 DEF Unmark
  <2>2. \A i \in DOMAIN intents' : intents'[i].kind = "signed" =>
           i \in DOMAIN intents /\ intents[i].kind = "signed"
    BY <1>2, <2>1
  <2> QED BY <2>1, <2>2, ProceedHolds
<1> QED BY <1>3, <1>4, <1>5, <1>6 DEF Recover

LEMMA ScanHolds ==
    ASSUME SlotInv, HeldInv, NEW p \in Proc, NEW i \in DOMAIN intents, Scan(p, i)
    PROVE  HeldInv'
<1>0. op \in [Proc -> Op] /\ op[p] \in Op
  BY DEF SlotInv, TypeOK
<1> DEFINE o == [op[p] EXCEPT !.at = "resuming", !.id = i, !.copy = intents[i]]
<1>1. op' = [op EXCEPT ![p] = o] /\ o.at = "resuming"
  BY <1>0 DEF Scan, Op
<1> HIDE DEF o
<1> QED BY <1>1, RestHolds DEF Scan

LEMMA InitHeld ==
    Init => HeldInv
<1> SUFFICES ASSUME Init PROVE HeldInv
  OBVIOUS
<1>1. intents = <<>> /\ op = [p \in Proc |-> Idle]
  BY DEF Init
<1>2. \A p \in Proc : CallHolds(op[p], slotLock = p)
  BY <1>1 DEF CallHolds, Idle
<1>3. DOMAIN intents = {}
  BY <1>1
<1> QED BY <1>2, <1>3 DEF HeldInv, Attended

LEMMA NextHeld ==
    ASSUME MaxStops = 0
    PROVE  /\ SlotInv /\ HeldInv /\ (\A p \in Proc : CopyFits(op[p], intents)) /\ [Next]_vars
              => HeldInv'
<1> SUFFICES ASSUME SlotInv, HeldInv, \A p \in Proc : CopyFits(op[p], intents), [Next]_vars
             PROVE  HeldInv'
  OBVIOUS
<1>1. CASE \E e \in Edit : Call(e)
  BY <1>1, EditHolds DEF Proc
<1>2. CASE \E p \in Proc : Signer(p)
  BY <1>2, SignerHolds
<1>3. CASE \E p \in Proc : Stop(p)
  <2>1. stops \in 0 .. 0
    BY DEF SlotInv, TypeOK
  <2> QED BY <1>3, <2>1 DEF Stop
<1>4. CASE \E p \in Pass : Recover(p)
  BY <1>4, RecoverHolds DEF Proc
<1>5. CASE \E p \in Pass : \E i \in DOMAIN intents : Scan(p, i)
  BY <1>5, ScanHolds DEF Proc
<1>6. CASE UNCHANGED <<intents, op, slotLock>>
  BY <1>6 DEF HeldInv, Attended
<1> QED BY <1>1, <1>2, <1>3, <1>4, <1>5, <1>6
        DEF Next, Deliver, LoseAnswer, ForeignWrite, Sync, vars

\* When no tab goes away and every merge is stored in time, any number of
\* edits, passes and devices may overlap: a retry starts over
\* (resolveStorageBase, STORAGE_SLOT_LOCK in userStorage.ts).
THEOREM RetriesStartOverInTime ==
    ASSUME MaxStops = 0
    PROVE  Spec /\ []InTime => []RetriesStartOver
<1>1. SlotInv /\ OnceInv => \A p \in Proc : CopyFits(op[p], intents)
  <2> SUFFICES ASSUME SlotInv, OnceInv, NEW p \in Proc PROVE CopyFits(op[p], intents)
    OBVIOUS
  <2>1. CallOk(op[p], intents, outbox)
    BY DEF OnceInv
  <2>2. op[p].copy.kind \in {"storage", "signed", "resolved"}
    BY DEF SlotInv, TypeOK, Op, Intent
  <2> QED BY <2>1, <2>2 DEF CallOk, CopyFits
<1>2. SlotInv /\ HeldInv /\ (\A p \in Proc : CopyFits(op[p], intents)) /\ [Next]_vars => HeldInv'
  BY NextHeld
<1>3. HeldInv => Attended
  BY DEF HeldInv
<1> QED BY <1>1, <1>2, <1>3, InitInv, NextInv, InitOnce, NextOnce, InitHeld,
           RetriesStartOverAttended, PTL DEF Spec

\* Without recovery a call only ever works on payloads.
Payloads ==
    \A p \in Proc :
        /\ op[p].at \notin {"resuming", "marking", "unmarking"}
        /\ op[p].at \in {"merging", "storing", "building", "signing"} =>
              op[p].copy.kind = "storage"

LEMMA CallPayloads ==
    ASSUME SlotInv, NEW p \in Proc, NEW o, op' = [op EXCEPT ![p] = o], Payloads,
           o.at \notin {"resuming", "marking", "unmarking"},
           o.at \in {"merging", "storing", "building", "signing"} => o.copy.kind = "storage"
    PROVE  Payloads'
<1>1. \A q \in Proc : op'[q] = IF q = p THEN o ELSE op[q]
  BY DEF SlotInv, TypeOK
<1> QED BY <1>1 DEF Payloads

LEMMA EditPayloads ==
    ASSUME SlotInv, Payloads, NEW e \in Edit, Call(e)
    PROVE  Payloads'
<1> e \in Proc
  BY DEF Proc
<1>0. op \in [Proc -> Op] /\ op[e] \in Op /\ intents \in Seq(Intent)
  BY DEF SlotInv, TypeOK
<1>1. CASE Leave(e)
  <2>1. PICK o : op' = [op EXCEPT ![e] = o] /\ o.at \in {"idle", "done"}
    BY <1>1, Left
  <2> QED BY <2>1, CallPayloads
<1>2. CASE \E stage \in {"creating", "storing", "stored"}, id \in Nat :
              /\ op' = [op EXCEPT ![e].at = stage, ![e].id = id]
              /\ stage = "storing" => op[e].at = "merging"
  <2>1. PICK stage \in {"creating", "storing", "stored"}, id \in Nat :
              /\ op' = [op EXCEPT ![e].at = stage, ![e].id = id]
              /\ stage = "storing" => op[e].at = "merging"
    BY <1>2
  <2> DEFINE o == [op[e] EXCEPT !.at = stage, !.id = id]
  <2>2. op' = [op EXCEPT ![e] = o] /\ o.at = stage /\ o.copy = op[e].copy
    BY <1>0, <2>1 DEF Op
  <2> HIDE DEF o
  <2>3. o.at = "storing" => o.copy.kind = "storage"
    BY <2>1, <2>2 DEF Payloads
  <2> QED BY <2>1, <2>2, <2>3, CallPayloads
<1>3. CASE Find(e)
  <2> DEFINE open == {i \in DOMAIN intents : intents[i].kind = "storage"}
             n == [intents[Min(open)] EXCEPT !.patch = @ \union {e}]
             o == [op[e] EXCEPT !.at = "merging", !.id = Min(open), !.copy = n]
  <2>1. Min(open) \in open
    <3>1. open \in SUBSET Nat
      BY <1>0
    <3>2. open # {}
      BY <1>3 DEF Find
    <3> HIDE DEF open
    <3> QED BY <3>1, <3>2, MinIsMember
  <2>2. n.kind = "storage"
    BY <1>0, <2>1 DEF Intent
  <2>4. op' = [op EXCEPT ![e] = o]
    BY <1>0, <1>3 DEF Find
  <2> HIDE DEF n, open
  <2>3. o.at = "merging" /\ o.copy = n
    BY <1>0 DEF Op
  <2> HIDE DEF o
  <2> QED BY <2>2, <2>3, <2>4, CallPayloads
<1>4. op[e].id \in Nat /\ op[e] = [op[e] EXCEPT !.id = op[e].id]
  BY <1>0 DEF Op
<1>5. CASE ~Leave(e) /\ ~Find(e)
  <2>1. ASSUME NEW stage \in {"creating", "storing", "stored"}, Goes(e, stage)
        PROVE  op' = [op EXCEPT ![e].at = stage, ![e].id = op[e].id]
    BY <1>0, <2>1 DEF Goes, Op
  <2>2. CASE FindNone(e)
    BY <1>2, <1>4, <2>1, <2>2 DEF FindNone
  <2>3. CASE Create(e)
    <3>1. Len(intents) + 1 \in Nat
      BY <1>0
    <3> QED BY <1>2, <2>3, <3>1 DEF Create
  <2>4. CASE Merge(e)
    BY <1>2, <1>4, <1>5, <2>1, <2>4 DEF Merge
  <2>5. CASE Store(e)
    BY <1>2, <1>4, <2>1, <2>5 DEF Store
  <2> QED BY <1>5, <2>2, <2>3, <2>4, <2>5 DEF Call, NoKey
<1> QED BY <1>1, <1>3, <1>5

LEMMA SignerPayloads ==
    ASSUME SlotInv, Payloads, NEW p \in Proc, Signer(p)
    PROVE  Payloads'
<1>0. op \in [Proc -> Op] /\ op[p] \in Op
  BY DEF SlotInv, TypeOK
<1>1. CASE Leave(p)
  <2>1. PICK o : op' = [op EXCEPT ![p] = o] /\ o.at \in {"idle", "done"}
    BY <1>1, Left
  <2> QED BY <2>1, CallPayloads
<1>2. CASE Claim(p)
  <2> DEFINE n == intents[op[p].id]
             o == [op[p] EXCEPT !.at = "building", !.copy = n]
  <2>1. o.at = "building" /\ o.copy = n /\ op' = [op EXCEPT ![p] = o] /\ n.kind = "storage"
    BY <1>0, <1>2 DEF Claim, Op
  <2> HIDE DEF o, n
  <2> QED BY <2>1, CallPayloads
<1>3. CASE Build(p)
  <2>1. PICK base : op' = [op EXCEPT ![p].at = "signing", ![p].base = base]
    BY <1>3 DEF Build
  <2> DEFINE o == [op[p] EXCEPT !.at = "signing", !.base = base]
  <2>2. /\ o.at = "signing" /\ o.copy = op[p].copy /\ op' = [op EXCEPT ![p] = o]
        /\ op[p].at = "building"
    BY <1>0, <1>3, <2>1 DEF Build, Op
  <2> HIDE DEF o
  <2>3. o.copy.kind = "storage"
    BY <2>2 DEF Payloads
  <2> QED BY <2>2, <2>3, CallPayloads
<1>4. ASSUME NEW o, op' = [op EXCEPT ![p] = o],
             o.at \in {"queueing", "linking", "sending", "retrying", "stored"}
      PROVE  Payloads'
  BY <1>4, CallPayloads
<1>5. CASE Replay(p) \/ Sign(p)
  <2>1. PICK r : op' = [op EXCEPT ![p].at = "queueing", ![p].row = r]
    BY <1>5 DEF Replay, Sign
  <2> DEFINE o == [op[p] EXCEPT !.at = "queueing", !.row = r]
  <2>2. o.at = "queueing" /\ op' = [op EXCEPT ![p] = o]
    BY <1>0, <2>1 DEF Op
  <2> HIDE DEF o
  <2> QED BY <1>4, <2>2
<1>6. CASE Enqueue(p)
  <2> DEFINE o == [op[p] EXCEPT !.at = "linking", !.entry = Len(outbox) + 1]
  <2>1. o.at = "linking" /\ op' = [op EXCEPT ![p] = o]
    BY <1>0, <1>6 DEF Enqueue, Op
  <2> HIDE DEF o
  <2> QED BY <1>4, <2>1
<1>7. CASE Link(p) \/ Conflict(p)
  <2>1. PICK stage \in {"sending", "retrying"} : Goes(p, stage)
    BY <1>7 DEF Link, Conflict
  <2> DEFINE o == [op[p] EXCEPT !.at = stage]
  <2>2. o.at = stage /\ op' = [op EXCEPT ![p] = o]
    BY <1>0, <2>1 DEF Goes, Op
  <2> HIDE DEF o
  <2> QED BY <1>4, <2>2
<1>8. CASE Retry(p)
  <2>1. PICK id, excl : op' = [op EXCEPT ![p].at = "stored", ![p].id = id, ![p].excl = excl]
    BY <1>8 DEF Retry
  <2> DEFINE o == [op[p] EXCEPT !.at = "stored", !.id = id, !.excl = excl]
  <2>2. o.at = "stored" /\ op' = [op EXCEPT ![p] = o]
    BY <1>0, <2>1 DEF Op
  <2> HIDE DEF o
  <2> QED BY <1>4, <2>2
<1> QED BY <1>1, <1>2, <1>3, <1>5, <1>6, <1>7, <1>8
        DEF Signer, AlreadyClaimed, BaseUnavailable, SignedBefore, Settle

\* Edits that overlap while nothing goes away and nothing is left to recover:
\* no assumption is needed about their reads and writes, a retry starts over
\* for any number of them, of other devices and of rounds (resolveStorageBase,
\* STORAGE_SLOT_LOCK in userStorage.ts).
THEOREM RetriesStartOverLive ==
    ASSUME MaxStops = 0, Pass = {}
    PROVE  Spec => []RetriesStartOver
<1>1. SlotInv /\ Payloads /\ [Next]_vars => Payloads'
  <2> SUFFICES ASSUME SlotInv, Payloads, [Next]_vars PROVE Payloads'
    OBVIOUS
  <2>1. CASE \E e \in Edit : Call(e)
    BY <2>1, EditPayloads
  <2>2. CASE \E p \in Proc : Signer(p)
    BY <2>2, SignerPayloads
  <2>3. ~\E p \in Proc : Stop(p)
    <3>1. stops \in 0 .. 0
      BY DEF SlotInv, TypeOK
    <3> QED BY <3>1 DEF Stop
  <2>4. CASE op' = op
    BY <2>4 DEF Payloads
  <2> QED BY <2>1, <2>2, <2>3, <2>4 DEF Next, Deliver, LoseAnswer, ForeignWrite, Sync, vars
<1>2. Payloads => \A p \in Proc : CopyFits(op[p], intents)
  BY DEF Payloads, CopyFits
<1>3. Init => Payloads
  BY DEF Init, Payloads, Idle
<1>4. SlotInv /\ HeldInv /\ (\A p \in Proc : CopyFits(op[p], intents)) /\ [Next]_vars => HeldInv'
  BY NextHeld
<1>5. HeldInv => Attended
  BY DEF HeldInv
<1> QED BY <1>1, <1>2, <1>3, <1>4, <1>5, InitInv, NextInv, InitHeld,
           RetriesStartOverAttended, PTL DEF Spec

=============================================================================
