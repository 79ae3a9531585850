------------------------ MODULE OutboxDeliveryProofs ------------------------
(***************************************************************************)
(* What the stored records and the writes on their way to them say of one   *)
(* another, for any set of tabs and entries: no write back corrupts a       *)
(* record, no entry is sent before its prerequisites, and the outbox        *)
(* implements Delivery.                                                     *)
(***************************************************************************)
EXTENDS OutboxProofs

USE DEF sessions, sender, helpers, server

-----------------------------------------------------------------------------
(* The inductive invariant.                                                 *)

\* The signed mutations are still there.
Kept(r) == r.status \in {"pending", "server_accepted", "quarantined"}

\* A record that may be stored: one the next read takes for a valid entry, that
\* waits only for issued entries, and not at all once its mutations are dropped.
Fine(r) ==
    /\ WellFormed(r)
    /\ r.blocked => r.sched = "none"
    /\ ~Kept(r) => r.deps = {}
    /\ r.deps \subseteq Issued

\* Claimed, and no answer has been read yet.
Early == {"claimed", "sending"}

\* Before discovery has succeeded nothing but the user and discovery touch it.
NotYet(e) == rec[e].status = "absent" \/ rec[e].blocked
EarlyOps == {"requeue", "discard", "recover"}
Untouched(e) ==
    /\ ~Dispatched(e)
    /\ \A t \in Tab : job[t][e].at = "idle" /\ janitor[t][e] = "idle"
    /\ \A w \in writes : w.entry = e => w.op \in EarlyOps

WriteFine(w) ==
    /\ Fine(w.new)
    /\ w.new.status # "absent"
    /\ rec[w.entry].status # "absent"
    /\ w.new.blocked => rec[w.entry].blocked
    /\ w.new.status = "quarantined" => w.op = "fail"
    /\ w.op = "fail" => job[w.tab][w.entry].at = "failing"

\* The record lock serialises requeue, discard, release and recover; a worker
\* records one failure at a time.
Exclusive(v, w) ==
    v.entry = w.entry =>
        /\ v.op \in LockedOps /\ w.op \in LockedOps => v = w
        /\ v.op = "fail" /\ w.op = "fail" /\ v.tab = w.tab => v = w

\* The prerequisites are fixed by the first discovery that succeeds; what an older
\* read writes back still has them.
SameDeps(r, s) == Kept(r) /\ Kept(s) => r.deps = s.deps
Agree(w) ==
    ~rec[w.entry].blocked =>
        /\ SameDeps(w.new, rec[w.entry])
        /\ \A v \in writes : v.entry = w.entry => SameDeps(w.new, v.new)
\* A discovery that succeeds late only drops what is delivered or given up.
Waived(w) ==
    rec[w.entry].blocked /\ Kept(w.new) =>
        /\ w.new.deps \subseteq rec[w.entry].deps
        /\ rec[w.entry].deps \ w.new.deps \subseteq committed \union asked

DepsHeld(e) ==
    Dispatched(e) =>
        /\ rec[e].deps \subseteq committed
        /\ \A w \in writes : w.entry = e => w.new.deps \subseteq committed

RecordsInv ==
    /\ \A e \in Entry : Fine(rec[e])
    /\ \A e \in Entry : NotYet(e) => Untouched(e)
    /\ \A e \in Entry : DepsHeld(e)
    /\ \A t \in Tab, e \in Entry :
          job[t][e].at \in Early => rec[e].status # "quarantined"
    /\ \A w \in writes : WriteFine(w)
    /\ \A w \in writes : Agree(w)
    /\ \A w \in writes : Waived(w)
    /\ \A v, w \in writes : Exclusive(v, w)

-----------------------------------------------------------------------------
(* The kinds of steps that preserve it.                                     *)

\* Nothing is claimed, and nothing else is begun on an entry that was untouched.
Onward ==
    /\ committed \subseteq committed' /\ asked \subseteq asked'
    /\ \A f \in Entry : Dispatched(f)' => Dispatched(f)
    /\ \A u \in Tab, f \in Entry :
          /\ job'[u][f].at \in Early => job[u][f].at \in Early
          /\ job'[u][f].at # "idle" => job[u][f].at # "idle"
          /\ janitor'[u][f] # "idle" =>
                janitor[u][f] # "idle" \/ rec[f].status = "server_accepted"
    /\ \A w \in writes : w \in writes' /\ w.op = "fail" =>
          job'[w.tab][w.entry].at = "failing"

\* What a new write takes from the record it was decided on.
Decided(w) ==
    /\ WellFormed(w.new)
    /\ w.new.blocked => w.new.sched = "none"
    /\ ~Kept(w.new) => w.new.deps = {}
    /\ w.new.deps \subseteq rec[w.entry].deps
    /\ w.new.status # "absent"
    /\ rec[w.entry].status # "absent"
    /\ w.new.blocked => rec[w.entry].blocked
    /\ rec[w.entry].blocked => w.op \in EarlyOps
    /\ w.new.status = "quarantined" => w.op = "fail"
    /\ Kept(w.new) /\ ~rec[w.entry].blocked =>
          Kept(rec[w.entry]) /\ w.new.deps = rec[w.entry].deps
    /\ Kept(w.new) => rec[w.entry].deps \ w.new.deps \subseteq committed \union asked
\* Nobody else has the lock it is written under.
Admitted(w) ==
    /\ w.op \in LockedOps => ~Locked(w.entry)
    /\ w.op = "fail" =>
          /\ job[w.tab][w.entry].at # "failing"
          /\ job'[w.tab][w.entry].at = "failing"

LEMMA ReadStep ==
    ASSUME TypeOK, RecordsInv, Onward, rec' = rec,
           NEW w, writes' \subseteq writes \union {w},
           w \in writes' =>
               w \in writes \/ (w \in Write /\ Decided(w) /\ Admitted(w))
    PROVE  RecordsInv'
<1> USE DEF TypeOK, Write
<1>1. \A r : Fine(r)' <=> Fine(r)
  BY DEF Fine, WellFormed, Kept, Issued
<1>2. \A e \in Entry : Fine(rec[e])'
  BY <1>1 DEF RecordsInv
<1>3. \A e \in Entry : NotYet(e)' => Untouched(e)'
  <2> SUFFICES ASSUME NEW e \in Entry, NotYet(e) PROVE Untouched(e)'
    BY DEF NotYet
  <2>1. Untouched(e)
    BY DEF RecordsInv
  <2>2. rec[e].status # "server_accepted"
    BY DEF NotYet, RecordsInv, Fine, WellFormed
  <2>3. \A v \in writes' : v.entry = e => v.op \in EarlyOps
    BY <2>1 DEF Untouched, Decided, NotYet
  <2> QED
    BY <2>1, <2>2, <2>3 DEF Untouched, Onward
<1>4. \A e \in Entry : DepsHeld(e)'
  <2> SUFFICES ASSUME NEW e \in Entry, Dispatched(e)'
               PROVE  /\ rec[e].deps \subseteq committed
                      /\ \A v \in writes' : v.entry = e => v.new.deps \subseteq committed
    BY DEF DepsHeld, Onward
  <2>1. Dispatched(e) /\ DepsHeld(e)
    BY DEF Onward, RecordsInv
  <2> QED
    BY <2>1 DEF DepsHeld, Decided
<1>5. \A t \in Tab, e \in Entry :
          job'[t][e].at \in Early => rec'[e].status # "quarantined"
  BY DEF RecordsInv, Onward
<1>6. \A v \in writes' : WriteFine(v)'
  <2> SUFFICES ASSUME NEW v \in writes' PROVE WriteFine(v)'
    OBVIOUS
  <2>1. CASE v \in writes
    <3>1. WriteFine(v)
      BY <2>1 DEF RecordsInv
    <3> QED
      BY <1>1, <2>1, <3>1 DEF WriteFine, Onward
  <2>2. CASE v \notin writes
    <3>1. v = w /\ w \in Write /\ Decided(w) /\ Admitted(w)
      BY <2>2
    <3>2. rec[w.entry].deps \subseteq Issued
      BY <3>1 DEF RecordsInv, Fine
    <3>3. Fine(w.new)
      BY <3>1, <3>2 DEF Decided, Fine
    <3> QED
      BY <1>1, <3>1, <3>3 DEF WriteFine, Decided, Admitted
  <2> QED
    BY <2>1, <2>2
<1>7. \A v \in writes' : Agree(v)'
  <2>1. \A v \in writes : Agree(v)
    BY DEF RecordsInv
  <2>2. w \in writes' /\ w \notin writes /\ Kept(w.new) /\ ~rec[w.entry].blocked =>
            Kept(rec[w.entry]) /\ w.new.deps = rec[w.entry].deps
    BY DEF Decided
  <2> QED
    BY <2>1, <2>2 DEF Agree, SameDeps
<1>8. \A v \in writes' : Waived(v)'
  <2> SUFFICES ASSUME NEW v \in writes' PROVE Waived(v)'
    OBVIOUS
  <2>1. v \in writes => Waived(v)
    BY DEF RecordsInv
  <2>2. v \notin writes => Decided(v)
    OBVIOUS
  <2> QED
    BY <2>1, <2>2 DEF Waived, Decided, Onward
<1>9. \A v, x \in writes' : Exclusive(v, x)'
  <2>1. \A v \in writes' : w \in writes' /\ w \notin writes => Exclusive(v, w) /\ Exclusive(w, v)
    BY DEF RecordsInv, WriteFine, Admitted, Exclusive, Locked
  <2> QED
    BY <2>1 DEF RecordsInv, Exclusive
<1> QED
  BY <1>2, <1>3, <1>4, <1>5, <1>6, <1>7, <1>8, <1>9 DEF RecordsInv

LEMMA StoreStep ==
    ASSUME TypeOK, RecordsInv, SenderInv, Onward,
           NEW w \in writes, rec' = [rec EXCEPT ![w.entry] = w.new],
           writes' = writes \ {w}
    PROVE  RecordsInv'
<1> USE DEF TypeOK, Write
<1>1. WriteFine(w) /\ Agree(w) /\ Waived(w) /\ w \in Write
  BY DEF RecordsInv
<1>2. Issued' = Issued
  BY <1>1 DEF Issued, WriteFine
<1>3. \A r : Fine(r)' <=> Fine(r)
  BY <1>2 DEF Fine, WellFormed, Kept
<1>4. \A e \in Entry : Fine(rec'[e])
  BY <1>1 DEF RecordsInv, WriteFine
<1>5. rec[w.entry].blocked =>
          \A v \in writes' : v.entry # w.entry
  <2> SUFFICES ASSUME rec[w.entry].blocked, NEW v \in writes', v.entry = w.entry
               PROVE  FALSE
    OBVIOUS
  <2>1. v.op \in EarlyOps /\ w.op \in EarlyOps
    BY <1>1 DEF RecordsInv, NotYet, Untouched
  <2>2. Exclusive(v, w)
    BY DEF RecordsInv
  <2> QED
    BY <2>1, <2>2 DEF EarlyOps, LockedOps, Exclusive
<1>6. \A e \in Entry : NotYet(e)' => NotYet(e)
  BY <1>1 DEF NotYet, WriteFine
<1>7. \A e \in Entry : NotYet(e)' => Untouched(e)'
  <2> SUFFICES ASSUME NEW e \in Entry, NotYet(e) PROVE Untouched(e)'
    BY <1>6
  <2>1. Untouched(e)
    BY DEF RecordsInv
  <2>2. rec[e].status # "server_accepted"
    BY DEF NotYet, RecordsInv, Fine, WellFormed
  <2> QED
    BY <2>1, <2>2 DEF Untouched, Onward
<1>8. \A e \in Entry : DepsHeld(e)'
  <2> SUFFICES ASSUME NEW e \in Entry, Dispatched(e)'
               PROVE  /\ rec'[e].deps \subseteq committed
                      /\ \A v \in writes' : v.entry = e => v.new.deps \subseteq committed
    BY DEF DepsHeld, Onward
  <2>1. Dispatched(e) /\ DepsHeld(e)
    BY DEF Onward, RecordsInv
  <2> QED
    BY <1>1, <2>1 DEF DepsHeld
<1>9. \A t \in Tab, e \in Entry :
          job'[t][e].at \in Early => rec'[e].status # "quarantined"
  <2> SUFFICES ASSUME NEW t \in Tab, NEW e \in Entry, job'[t][e].at \in Early,
                      rec'[e].status = "quarantined"
               PROVE  FALSE
    OBVIOUS
  <2>1. job[t][e].at \in Early
    BY DEF Onward
  <2>2. e = w.entry /\ w.new.status = "quarantined"
    BY <1>1, <2>1 DEF RecordsInv
  <2>3. job[w.tab][e].at = "failing" /\ w.tab \in Tab
    BY <1>1, <2>2 DEF WriteFine
  <2>4. w.tab = t
    BY <2>1, <2>3 DEF SenderInv, Early
  <2> QED
    BY <2>1, <2>3, <2>4 DEF Early
<1>10. \A v \in writes' : WriteFine(v)'
  <2> SUFFICES ASSUME NEW v \in writes' PROVE WriteFine(v)'
    OBVIOUS
  <2>1. WriteFine(v) /\ v \in writes
    BY DEF RecordsInv
  <2>2. v.new.blocked => rec'[v.entry].blocked
    BY <1>1, <1>5, <2>1 DEF WriteFine
  <2>3. v.op = "fail" => job'[v.tab][v.entry].at = "failing"
    BY <2>1 DEF Onward
  <2> QED
    BY <1>1, <1>3, <2>1, <2>2, <2>3 DEF WriteFine
<1>11. \A v \in writes' : Agree(v)'
  <2> SUFFICES ASSUME NEW v \in writes', ~rec'[v.entry].blocked
               PROVE  /\ SameDeps(v.new, rec'[v.entry])
                      /\ \A x \in writes' : x.entry = v.entry => SameDeps(v.new, x.new)
    BY DEF Agree, SameDeps, Kept
  <2>1. Agree(v) /\ v \in writes
    BY DEF RecordsInv
  <2> QED
    BY <1>1, <1>5, <2>1 DEF Agree
<1>12. \A v \in writes' : Waived(v)'
  <2> SUFFICES ASSUME NEW v \in writes' PROVE Waived(v)'
    OBVIOUS
  <2>1. Waived(v) /\ v \in writes
    BY DEF RecordsInv
  <2>2. rec'[v.entry].blocked => v.entry # w.entry
    BY <1>1, <1>5 DEF WriteFine
  <2> QED
    BY <1>1, <2>1, <2>2 DEF Waived, Onward, Kept
<1>13. \A v, x \in writes' : Exclusive(v, x)'
  BY DEF RecordsInv, Exclusive
<1> QED
  BY <1>3, <1>4, <1>7, <1>8, <1>9, <1>10, <1>11, <1>12, <1>13 DEF RecordsInv

\* Only a claim begins something, on an entry that is ready.
LEMMA ClaimStep ==
    ASSUME TypeOK, RecordsInv, VerdictsAreReal, NEW t \in Tab, NEW e \in Entry,
           Claim(t, e)
    PROVE  RecordsInv'
<1> USE DEF TypeOK, Write
<1>1. /\ rec[e].status = "pending" /\ ~rec[e].blocked
      /\ rec[e].deps \subseteq committed
  <2>1. \A d \in rec[e].deps : d \in Entry
    BY DEF Record
  <2> QED
    BY <2>1 DEF Claim, Ready, Active, DepsResolved, Resolved, VerdictsAreReal, Backed
<1>2. \A w \in writes : w.entry = e => w.new.deps \subseteq committed
  <2> SUFFICES ASSUME NEW w \in writes, w.entry = e PROVE w.new.deps \subseteq committed
    OBVIOUS
  <2>1. Fine(w.new) /\ SameDeps(w.new, rec[e])
    BY <1>1 DEF RecordsInv, WriteFine, Agree
  <2>2. Kept(rec[e])
    BY <1>1 DEF Kept
  <2> QED
    BY <1>1, <2>1, <2>2 DEF Fine, SameDeps
<1>3. /\ UNCHANGED <<rec, writes, committed, asked, wire, janitor>>
      /\ job[t][e].at = "idle" /\ job'[t][e].at = "claimed"
      /\ \A u \in Tab, f \in Entry : u # t \/ f # e => job'[u][f] = job[u][f]
  BY DEF Claim, Idle
<1>4. \A f \in Entry : f # e => (Dispatched(f)' <=> Dispatched(f))
  BY <1>3 DEF Dispatched
<1>5. \A f \in Entry : NotYet(f)' => Untouched(f)'
  <2> SUFFICES ASSUME NEW f \in Entry, NotYet(f) PROVE Untouched(f)'
    BY <1>3 DEF NotYet
  <2>1. f # e /\ Untouched(f)
    BY <1>1 DEF RecordsInv, NotYet
  <2> QED
    BY <1>3, <1>4, <2>1 DEF Untouched
<1>6. \A f \in Entry : DepsHeld(f)'
  BY <1>1, <1>2, <1>3, <1>4 DEF RecordsInv, DepsHeld
<1>7. \A u \in Tab, f \in Entry :
          job'[u][f].at \in Early => rec'[f].status # "quarantined"
  BY <1>1, <1>3 DEF RecordsInv
<1>8. \A w \in writes' : WriteFine(w)'
  BY <1>3 DEF RecordsInv, WriteFine, Fine, WellFormed, Kept, Issued
<1>9. /\ \A f \in Entry : Fine(rec[f])'
      /\ \A w \in writes' : Agree(w)' /\ Waived(w)'
      /\ \A v, w \in writes' : Exclusive(v, w)'
  BY <1>3
  DEF RecordsInv, Fine, WellFormed, Kept, Issued, Agree, SameDeps, Waived, Exclusive
<1> QED
  BY <1>5, <1>6, <1>7, <1>8, <1>9 DEF RecordsInv

LEMMA EnqueueStep ==
    ASSUME TypeOK, RecordsInv, NEW t \in Tab, NEW e \in Entry,
           NEW failed \in BOOLEAN, Enqueue(t, e, failed)
    PROVE  RecordsInv'
<1> USE DEF TypeOK, Write
<1> DEFINE deps == {d \in Prerequisites[e] :
                      /\ rec[d].status # "absent"
                      /\ failed \/ rec[d].status \notin {"accepted", "discarded"}}
           new == [Absent EXCEPT !.status = "pending", !.blocked = failed,
                                 !.deps = deps]
<1>1. deps \subseteq Issued /\ rec[e].status = "absent"
  BY OutboxAssumption DEF Enqueue, Issued
<1>2. /\ new.status = "pending" /\ new.deps = deps /\ new.blocked = failed
      /\ new.sched = "none" /\ new.held = FALSE /\ new.reconciled = FALSE
  BY DEF Absent
<1>3. rec' = [rec EXCEPT ![e] = new]
  BY DEF Enqueue
<1> HIDE DEF deps, new
<1>4. UNCHANGED <<writes, job, janitor, committed, wire, asked>>
  BY DEF Enqueue
<1>5. Untouched(e)
  BY <1>1 DEF RecordsInv, NotYet
<1>6. \A w \in writes : w.entry # e
  BY <1>1 DEF RecordsInv, WriteFine
<1>7. Issued \subseteq Issued'
  BY <1>2, <1>3 DEF Issued
<1>8. \A f \in Entry : Fine(rec[f])'
  <2>1. rec'[e] = new /\ \A f \in Entry : f # e => rec'[f] = rec[f]
    BY <1>3
  <2>2. Fine(rec[e])'
    BY <1>1, <1>2, <1>7, <2>1 DEF Fine, WellFormed, Kept
  <2>3. \A f \in Entry : f # e => Fine(rec[f])'
    BY <1>7, <2>1 DEF RecordsInv, Fine, WellFormed, Kept
  <2> QED
    BY <2>2, <2>3
<1>9. \A f \in Entry : NotYet(f)' => Untouched(f)'
  BY <1>3, <1>4, <1>5 DEF RecordsInv, NotYet, Untouched, Dispatched
<1>10. \A f \in Entry : DepsHeld(f)'
  BY <1>3, <1>4, <1>5 DEF RecordsInv, DepsHeld, Untouched, Dispatched
<1>11. \A u \in Tab, f \in Entry :
           job'[u][f].at \in Early => rec'[f].status # "quarantined"
  BY <1>2, <1>3, <1>4 DEF RecordsInv
<1>12. \A w \in writes' : WriteFine(w)'
  BY <1>3, <1>4, <1>6, <1>7 DEF RecordsInv, WriteFine, Fine, WellFormed, Kept
<1>13. \A w \in writes' : Agree(w)' /\ Waived(w)'
  BY <1>3, <1>4, <1>6 DEF RecordsInv, Agree, SameDeps, Waived, Kept
<1>14. \A v, w \in writes' : Exclusive(v, w)'
  BY <1>4 DEF RecordsInv, Exclusive
<1> QED
  BY <1>8, <1>9, <1>10, <1>11, <1>12, <1>13, <1>14 DEF RecordsInv

LEMMA NoNewWrite ==
    ASSUME TypeOK, RecordsInv, Onward, rec' = rec, writes' \subseteq writes
    PROVE  RecordsInv'
BY ReadStep

LEMMA StoreWrite ==
    ASSUME TypeOK, RecordsInv, SenderInv, Onward,
           NEW t, NEW op, NEW e, Store(t, op, e)
    PROVE  RecordsInv'
BY StoreStep DEF Store

LEMMA LoseWrite ==
    ASSUME TypeOK, RecordsInv, Onward, NEW t, NEW op, NEW e, Lose(t, op, e)
    PROVE  RecordsInv'
BY NoNewWrite DEF Lose

-----------------------------------------------------------------------------
(* What the operators the actions are built from leave in order.            *)

LEMMA QuietOnward ==
    ASSUME RecordsInv,
           UNCHANGED <<job, committed, wire, janitor>>, asked \subseteq asked'
    PROVE  Onward
BY DEF Onward, Dispatched, RecordsInv, WriteFine

LEMMA JanitorOnward ==
    ASSUME TypeOK, RecordsInv, UNCHANGED <<job, committed, wire, asked>>,
           NEW t \in Tab, NEW e \in Entry, NEW s, JanitorAt(t, e, s),
           janitor[t][e] # "idle"
    PROVE  Onward
BY DEF TypeOK, Onward, JanitorAt, Dispatched, RecordsInv, WriteFine

LEMMA NoFailPending ==
    ASSUME RecordsInv, NEW t \in Tab, NEW e \in Entry, job[t][e].at # "failing"
    PROVE  \A w \in writes : ~(w.op = "fail" /\ w.tab = t /\ w.entry = e)
BY DEF RecordsInv, WriteFine

\* Only the worker of one entry moves, and at most its request stays on the wire.
OnlyJob(t, e) ==
    /\ \A u \in Tab, f \in Entry : u # t \/ f # e => job'[u][f] = job[u][f]
    /\ UNCHANGED <<committed, asked, janitor>>
    /\ \A f \in wire' : f \in wire \/ (f = e /\ job[t][e].at = "sending")

LEMMA JobOnward ==
    ASSUME TypeOK, RecordsInv, NEW t \in Tab, NEW e \in Entry, OnlyJob(t, e),
           job[t][e].at # "idle",
           job'[t][e].at \in Early => job[t][e].at \in Early,
           \A w \in writes' : w.op = "fail" /\ w.tab = t /\ w.entry = e =>
               w \notin writes \/ job'[t][e].at = "failing"
    PROVE  Onward
<1> USE DEF TypeOK, Write
<1>1. \A f \in Entry : Dispatched(f)' => Dispatched(f)
  <2> SUFFICES ASSUME NEW f \in Entry, Dispatched(f)' PROVE Dispatched(f)
    OBVIOUS
  <2>1. CASE f \in committed' \union wire'
    BY <2>1 DEF Dispatched, OnlyJob
  <2>2. CASE \E u \in Tab : job'[u][f].at \in Early
    BY <2>2 DEF Dispatched, Early, OnlyJob
  <2> QED
    BY <2>1, <2>2 DEF Dispatched, Early
<1>2. \A w \in writes : w \in writes' /\ w.op = "fail" =>
          job'[w.tab][w.entry].at = "failing"
  BY DEF RecordsInv, WriteFine, OnlyJob
<1> QED
  BY <1>1, <1>2 DEF Onward, OnlyJob

LEMMA AtOnward ==
    ASSUME TypeOK, RecordsInv, NEW t \in Tab, NEW e \in Entry,
           NEW s \in SenderStage \ Early, At(t, e, s),
           job[t][e].at \notin {"idle", "failing"},
           UNCHANGED <<committed, asked, janitor>>,
           \A f \in wire' : f \in wire \/ (f = e /\ job[t][e].at = "sending")
    PROVE  Onward
<1>1. OnlyJob(t, e) /\ job'[t][e].at = s
  BY DEF At, TypeOK, OnlyJob, Job
<1> QED
  BY <1>1, NoFailPending, JobOnward

LEMMA SettledOnward ==
    ASSUME TypeOK, RecordsInv, NEW t \in Tab, NEW e \in Entry, Settled(t, e),
           job[t][e].at # "idle",
           job[t][e].at = "failing" =>
               \A w \in writes' : ~(w.op = "fail" /\ w.tab = t /\ w.entry = e),
           UNCHANGED <<committed, asked, janitor>>,
           \A f \in wire' : f \in wire \/ (f = e /\ job[t][e].at = "sending")
    PROVE  Onward
<1>1. OnlyJob(t, e) /\ job'[t][e].at \notin Early
  BY DEF Settled, TypeOK, OnlyJob, Job, Idle, Early
<1>2. job[t][e].at # "failing" =>
          \A w \in writes : ~(w.op = "fail" /\ w.tab = t /\ w.entry = e)
  BY NoFailPending
<1> QED
  BY <1>1, <1>2, JobOnward

LEMMA AfterMarkOnward ==
    ASSUME TypeOK, RecordsInv, NEW t \in Tab, NEW e \in Entry,
           NEW recorded, NEW records, AfterMark(t, e, recorded, records),
           job[t][e].at \notin {"idle", "failing"},
           UNCHANGED <<committed, asked, janitor, wire>>
    PROVE  Onward
<1>1. CASE recorded /\ job[t][e].held
  <2> DEFINE j == [job[t][e] EXCEPT
                     !.at = "releasing",
                     !.todo = {f \in Entry : /\ records[f].held
                                             /\ ShapeOf[f] = ShapeOf[e]}]
  <2>1. job' = [job EXCEPT ![t] = [job[t] EXCEPT ![e] = j]]
    BY <1>1 DEF AfterMark, TypeOK
  <2>2. j.at = "releasing"
    BY ElementsTyped DEF Job
  <2> HIDE DEF j
  <2>3. OnlyJob(t, e) /\ job'[t][e].at \notin Early
    BY <2>1, <2>2 DEF TypeOK, OnlyJob, Early
  <2> QED
    BY <2>3, NoFailPending, JobOnward
<1>2. CASE ~(recorded /\ job[t][e].held)
  BY <1>2, AtOnward DEF AfterMark, SenderStage, Early
<1> QED
  BY <1>1, <1>2

\* What is written is decided on a record whose entry was begun: it is not blocked.
LEMMA Begun ==
    ASSUME TypeOK, RecordsInv, NEW t \in Tab, NEW e \in Entry,
           job[t][e].at # "idle" \/ janitor[t][e] # "idle"
    PROVE  ~rec[e].blocked /\ rec[e].status # "absent"
BY DEF RecordsInv, NotYet, Untouched

\* recordFailure keeps a record that is not blocked well formed; an approval may
\* only hold back what is pending.
LEMMA FailedFine ==
    ASSUME NEW r \in Record, WellFormed(r), ~r.blocked,
           r.status \in {"pending", "quarantined"},
           NEW kind \in {"network", "server", "permanent", "approval"},
           kind = "approval" => r.status = "pending"
    PROVE  /\ Failed(r, kind).deps = r.deps
           /\ Failed(r, kind).blocked = FALSE
           /\ Failed(r, kind).status \in {"pending", "quarantined"}
           /\ WellFormed(Failed(r, kind))
<1> USE DEF Record, WellFormed, Failed
<1>1. CASE kind = "permanent"
  BY <1>1
<1>2. CASE kind = "approval"
  BY <1>2
<1>3. CASE kind \in {"network", "server"} /\ r.held
  BY <1>3
<1>4. CASE kind \in {"network", "server"} /\ ~r.held /\ r.status # "quarantined"
  BY <1>4
<1>5. CASE kind \in {"network", "server"} /\ ~r.held /\ r.status = "quarantined"
  BY <1>5
<1> QED
  BY <1>1, <1>2, <1>3, <1>4, <1>5

LEMMA RecordFailureStep ==
    ASSUME TypeOK, RecordsInv, NEW t \in Tab, NEW e \in Entry,
           NEW kind \in {"network", "server", "permanent", "approval"},
           NEW others \in SUBSET writes, RecordFailure(t, e, kind, others),
           job[t][e].at \in {"sending", "accepting", "freeing"},
           kind = "approval" => job[t][e].at = "sending",
           UNCHANGED <<rec, committed, asked, janitor>>,
           \A f \in wire' : f \in wire \/ (f = e /\ job[t][e].at = "sending")
    PROVE  RecordsInv'
<1>1. CASE rec[e].status \in {"pending", "quarantined"}
  <2> DEFINE r == Failed(rec[e], kind)
             w == PendingWrite(t, "fail", e, r)
  <2>1. At(t, e, "failing") /\ writes' = others \union {w}
    BY <1>1 DEF RecordFailure
  <2>2. Onward
    BY <2>1, AtOnward DEF SenderStage, Early
  <2>3. /\ Fine(rec[e]) /\ ~rec[e].blocked
        /\ kind = "approval" => rec[e].status = "pending"
    BY <1>1, Begun DEF RecordsInv, Early
  <2>4. /\ r \in Record /\ r.deps = rec[e].deps /\ r.blocked = FALSE
        /\ r.status \in {"pending", "quarantined"} /\ WellFormed(r)
    BY <1>1, <2>3, FailedFine, FailedTyped, ElementsTyped DEF Fine
  <2> HIDE DEF r
  <2>5. /\ w.tab = t /\ w.op = "fail" /\ w.entry = e /\ w.new = r
        /\ w \in Write
    BY <2>4, WriteTyped, OpsListed DEF PendingWrite
  <2> HIDE DEF w
  <2>6. Decided(w)
    BY <1>1, <2>3, <2>4, <2>5 DEF Decided, Kept
  <2>7. Admitted(w)
    BY <2>1, <2>5, ElementsTyped DEF Admitted, LockedOps, At, TypeOK, Job
  <2> QED
    BY <2>1, <2>2, <2>5, <2>6, <2>7, ReadStep
<1>2. CASE rec[e].status \notin {"pending", "quarantined"}
  <2>1. Settled(t, e) /\ writes' = others
    BY <1>2 DEF RecordFailure
  <2> QED
    BY <2>1, SettledOnward, NoNewWrite
<1> QED
  BY <1>1, <1>2

LEMMA AcceptedFields ==
    ASSUME NEW r \in Record
    PROVE  /\ Accepted(r) \in Record
           /\ Accepted(r).status = "server_accepted" /\ Accepted(r).sched = "none"
           /\ Accepted(r).held = FALSE /\ Accepted(r).blocked = FALSE
           /\ Accepted(r).deps = r.deps /\ Accepted(r).reconciled = r.reconciled
BY RecordUpdates DEF Accepted, Record

\* A later discovery only drops prerequisites that are accepted or discarded.
LEMMA RediscoveredFields ==
    ASSUME NEW r \in Record, NEW found \in BOOLEAN
    PROVE  LET s == Rediscovered(r, found) IN
           /\ s.deps \subseteq r.deps
           /\ \A d \in r.deps \ s.deps : rec[d].status \in {"accepted", "discarded"}
           /\ s.status = r.status /\ s.sched = r.sched
           /\ s.held = r.held /\ s.reconciled = r.reconciled
<1>1. CASE found
  <2> DEFINE left == {d \in r.deps : rec[d].status \notin {"accepted", "discarded"}}
  <2>1. Rediscovered(r, found) = [r EXCEPT !.blocked = FALSE, !.deps = left]
    BY <1>1 DEF Rediscovered
  <2>2. left \subseteq r.deps
        /\ \A d \in r.deps \ left : rec[d].status \in {"accepted", "discarded"}
    OBVIOUS
  <2> HIDE DEF left
  <2> QED
    BY <2>1, <2>2 DEF Record
<1>2. CASE ~found
  BY <1>2 DEF Rediscovered
<1> QED
  BY <1>1, <1>2

-----------------------------------------------------------------------------
(* One lemma per group of actions.                                          *)

LEMMA RecordsTabStep ==
    ASSUME TypeOK, RecordsInv, NEW t \in Tab,
           \/ SessionStep(t)
           \/ \E scope \in SUBSET Entry : RequestDrain(t, scope)
           \/ StartDrain(t) \/ EndDrain(t)
           \/ ReleaseNetworkBackoffs(t) \/ JanitorStart(t)
    PROVE  RecordsInv'
<1>1. CASE CloseTab(t)
  <2>1. \A u \in Tab, f \in Entry :
           /\ u # t => job'[u][f] = job[u][f] /\ janitor'[u][f] = janitor[u][f]
           /\ job'[t][f].at = "idle" /\ janitor'[t][f] = "idle"
    BY <1>1 DEF CloseTab, TypeOK, Idle
  <2>2. \A f \in Entry : Dispatched(f)' => Dispatched(f)
    BY <1>1, <2>1 DEF CloseTab, Dispatched
  <2>3. \A w \in writes : w \in writes' /\ w.op = "fail" =>
            job'[w.tab][w.entry].at = "failing"
    BY <1>1, <2>1 DEF CloseTab, TypeOK, Write, RecordsInv, WriteFine
  <2>4. Onward
    BY <1>1, <2>1, <2>2, <2>3 DEF CloseTab, Onward, Early
  <2> QED
    BY <1>1, <2>4, NoNewWrite DEF CloseTab
<1>2. CASE JanitorStart(t)
  <2>1. \A u \in Tab, f \in Entry : janitor'[u][f] # "idle" =>
            janitor[u][f] # "idle" \/ rec[f].status = "server_accepted"
    BY <1>2 DEF JanitorStart, TypeOK
  <2>2. Onward
    BY <1>2, <2>1 DEF JanitorStart, Onward, Dispatched, RecordsInv, WriteFine
  <2> QED
    BY <1>2, <2>2, NoNewWrite DEF JanitorStart
<1>3. CASE UNCHANGED <<rec, writes, job, committed, wire, janitor, asked>>
  BY <1>3, QuietOnward, NoNewWrite
<1> QED
  BY <1>1, <1>2, <1>3
  DEF SessionStep, Login, Logout, BecomeLeader, RequestDrain, StartDrain, EndDrain,
      ReleaseNetworkBackoffs

LEMMA RecordsUserStep ==
    ASSUME TypeOK, RecordsInv, SenderInv, NEW t \in Tab, NEW e \in Entry,
           UserStep(t, e)
    PROVE  RecordsInv'
<1>1. ASSUME NEW failed \in BOOLEAN, Enqueue(t, e, failed)
      PROVE  RecordsInv'
  BY <1>1, EnqueueStep
<1>2. CASE Discard(t, e)
  <2> DEFINE w == PendingWrite(t, "discard", e, Marker("discarded"))
  <2>1. w \in Write
    BY WriteTyped, MarkerTyped, OpsListed DEF Status
  <2>2. Decided(w) /\ Admitted(w)
    BY <1>2 DEF Discard, Decided, Admitted, PendingWrite, Marker, Absent, WellFormed,
                Kept, EarlyOps
  <2>3. Onward /\ writes' = writes \union {w} /\ rec' = rec
    BY <1>2, QuietOnward DEF Discard
  <2> HIDE DEF w
  <2> QED
    BY <2>1, <2>2, <2>3, ReadStep
<1>3. CASE Requeue(t, e)
  <2> DEFINE r == [rec[e] EXCEPT !.status = "pending", !.sched = "none"]
             w == PendingWrite(t, "requeue", e, r)
  <2>1. w \in Write
    BY WriteTyped, ElementsTyped, RecordUpdates, OpsListed
  <2>2. /\ r.status = "pending" /\ r.sched = "none" /\ r.deps = rec[e].deps
        /\ r.held = rec[e].held /\ r.blocked = rec[e].blocked
        /\ r.reconciled = rec[e].reconciled
    BY ElementsTyped DEF Record
  <2>3. writes' = writes \union {w} /\ rec' = rec /\ ~Locked(e)
        /\ rec[e].status \in {"pending", "quarantined"}
    BY <1>3 DEF Requeue
  <2>4. Onward
    BY <1>3, QuietOnward DEF Requeue
  <2> HIDE DEF r
  <2>5. w.new = r /\ w.op = "requeue" /\ w.entry = e
    BY DEF PendingWrite
  <2> HIDE DEF w
  <2>6. Fine(rec[e])
    BY DEF RecordsInv
  <2>7. Decided(w) /\ Admitted(w)
    BY <2>2, <2>3, <2>5, <2>6 DEF Decided, Admitted, Fine, WellFormed, Kept, EarlyOps
  <2> QED
    BY <2>1, <2>3, <2>4, <2>7, ReadStep
<1>4. CASE Probe(t, e)
  BY <1>4, QuietOnward, NoNewWrite DEF Probe
<1>5. ASSUME NEW op \in LockedOps, UserWrite(t, op, e)
      PROVE  RecordsInv'
  <2>1. Onward
    BY <1>5, QuietOnward DEF UserWrite
  <2> QED
    BY <1>5, <2>1, StoreWrite, LoseWrite DEF UserWrite
<1> QED
  BY <1>1, <1>2, <1>3, <1>4, <1>5 DEF UserStep

LEMMA RecordsDrainStep ==
    ASSUME TypeOK, RecordsInv, SenderInv, VerdictsAreReal,
           NEW t \in Tab, NEW e \in Entry, DrainStep(t, e)
    PROVE  RecordsInv'
<1>1. ASSUME NEW found \in BOOLEAN, Rediscover(t, e, found)
      PROVE  RecordsInv'
  <2> DEFINE r == Rediscovered(rec[e], found)
             w == PendingWrite(t, "recover", e, r)
  <2>1. Onward /\ rec' = rec
    BY <1>1, QuietOnward DEF Rediscover
  <2>2. CASE rec[e].blocked
    <3>1. writes' = writes \union {w} /\ ~Locked(e)
      BY <1>1, <2>2 DEF Rediscover
    <3>2. /\ r \in Record /\ r.deps \subseteq rec[e].deps
          /\ \A d \in rec[e].deps \ r.deps : rec[d].status \in {"accepted", "discarded"}
          /\ r.status = rec[e].status /\ r.sched = rec[e].sched
          /\ r.held = rec[e].held /\ r.reconciled = rec[e].reconciled
      BY ElementsTyped, RediscoveredTyped, RediscoveredFields
    <3>3. rec[e].deps \ r.deps \subseteq committed \union asked
      BY <3>2, ElementsTyped DEF VerdictsAreReal, Backed, Record
    <3>4. Fine(rec[e]) /\ rec[e].status = "pending"
      BY <2>2 DEF RecordsInv, Fine, WellFormed
    <3> HIDE DEF r
    <3>5. w \in Write /\ w.new = r /\ w.op = "recover" /\ w.entry = e
      BY <3>2, WriteTyped, OpsListed DEF PendingWrite
    <3> HIDE DEF w
    <3>6. Decided(w) /\ Admitted(w)
      BY <2>2, <3>1, <3>2, <3>3, <3>4, <3>5
      DEF Decided, Admitted, Fine, WellFormed, Kept, EarlyOps
    <3> QED
      BY <2>1, <3>1, <3>5, <3>6, ReadStep
  <2>3. CASE ~rec[e].blocked
    BY <1>1, <2>1, <2>3, NoNewWrite DEF Rediscover
  <2> QED
    BY <2>2, <2>3
<1>2. CASE RecoverWrite(t, e)
  <2>1. Onward
    BY <1>2, QuietOnward DEF RecoverWrite
  <2> QED
    BY <1>2, <2>1, StoreWrite, LoseWrite DEF RecoverWrite
<1>3. CASE Claim(t, e)
  BY <1>3, ClaimStep
<1>4. CASE Dispatch(t, e)
  <2>1. OnlyJob(t, e) /\ job[t][e].at = "claimed"
    BY <1>4 DEF Dispatch, TypeOK, OnlyJob
  <2>2. Onward
    BY <2>1, NoFailPending, JobOnward DEF Early
  <2> QED
    BY <1>4, <2>2, NoNewWrite DEF Dispatch
<1>5. CASE KeysUnavailable(t, e)
  <2>1. Onward
    BY <1>5, SettledOnward DEF KeysUnavailable
  <2> QED
    BY <1>5, <2>1, NoNewWrite DEF KeysUnavailable
<1> QED
  BY <1>1, <1>2, <1>3, <1>4, <1>5 DEF DrainStep

LEMMA RecordsAnswerStep ==
    ASSUME TypeOK, RecordsInv, NEW t \in Tab, NEW e \in Entry, AnswerStep(t, e)
    PROVE  RecordsInv'
<1>1. CASE AnswerAccepted(t, e)
  <2> DEFINE r == Accepted(rec[e])
             w == PendingWrite(t, "accept", e, r)
  <2>1. Onward /\ rec' = rec
    BY <1>1, AtOnward, AfterMarkOnward DEF AnswerAccepted, SenderStage, Early
  <2>2. CASE rec[e].status = "pending" /\ writes' = writes \union {w}
    <3>1. Fine(rec[e]) /\ ~rec[e].blocked
      BY <1>1, Begun DEF AnswerAccepted, RecordsInv
    <3>2. /\ r \in Record /\ r.status = "server_accepted" /\ r.sched = "none"
          /\ r.held = FALSE /\ r.blocked = FALSE /\ r.deps = rec[e].deps
          /\ r.reconciled = rec[e].reconciled
      BY ElementsTyped, AcceptedFields
    <3> HIDE DEF r
    <3>3. w \in Write /\ w.new = r /\ w.op = "accept" /\ w.entry = e
      BY <3>2, WriteTyped, OpsListed DEF PendingWrite
    <3> HIDE DEF w
    <3>4. Decided(w) /\ Admitted(w)
      BY <2>2, <3>1, <3>2, <3>3
      DEF Decided, Admitted, Fine, WellFormed, Kept, LockedOps
    <3> QED
      BY <2>1, <2>2, <3>3, <3>4, ReadStep
  <2>3. CASE writes' = writes
    BY <2>1, <2>3, NoNewWrite
  <2> QED
    BY <1>1, <2>2, <2>3 DEF AnswerAccepted
<1>2. CASE AnswerLost(t, e)
  BY <1>2, RecordFailureStep DEF AnswerLost
<1>3. CASE AnswerRetryable(t, e)
  BY <1>3, RecordFailureStep DEF AnswerRetryable
<1>4. CASE AnswerPermanent(t, e)
  BY <1>4, RecordFailureStep DEF AnswerPermanent
<1>5. CASE AnswerApproval(t, e)
  BY <1>5, RecordFailureStep DEF AnswerApproval
<1> QED
  BY <1>1, <1>2, <1>3, <1>4, <1>5 DEF AnswerStep

\* A write decided on an acceptance, or one that only leaves a marker.
LEMMA MarkDecided ==
    ASSUME TypeOK, RecordsInv, NEW t \in Tab, NEW e \in Entry,
           ~rec[e].blocked, rec[e].status = "server_accepted",
           NEW op \in {"reconcile", "janitorReconcile"}
    PROVE  LET w == PendingWrite(t, op, e, [rec[e] EXCEPT !.reconciled = TRUE])
           IN  w \in Write /\ Decided(w) /\ Admitted(w)
<1> DEFINE r == [rec[e] EXCEPT !.reconciled = TRUE]
           w == PendingWrite(t, op, e, r)
<1>1. /\ r \in Record /\ r.status = "server_accepted" /\ r.deps = rec[e].deps
      /\ r.held = rec[e].held /\ r.blocked = rec[e].blocked
      /\ r.sched = rec[e].sched
  BY ElementsTyped, RecordUpdates DEF Record
<1>2. Fine(rec[e])
  BY DEF RecordsInv
<1> HIDE DEF r
<1>3. w \in Write /\ w.new = r /\ w.op = op /\ w.entry = e
  BY <1>1, WriteTyped, OpsListed DEF PendingWrite
<1> HIDE DEF w
<1>4. Decided(w) /\ Admitted(w)
  BY <1>1, <1>2, <1>3 DEF Decided, Admitted, Fine, WellFormed, Kept, LockedOps
<1> QED
  BY <1>3, <1>4 DEF w, r

LEMMA MarkerDecided ==
    ASSUME TypeOK, RecordsInv, NEW t \in Tab, NEW e \in Entry,
           ~rec[e].blocked, rec[e].status # "absent",
           NEW op \in {"resolve", "janitorResolve"}
    PROVE  LET w == PendingWrite(t, op, e, Marker("accepted"))
           IN  w \in Write /\ Decided(w) /\ Admitted(w)
<1> DEFINE w == PendingWrite(t, op, e, Marker("accepted"))
<1>1. w \in Write /\ w.new = Marker("accepted") /\ w.op = op /\ w.entry = e
  BY MarkerTyped, WriteTyped, OpsListed DEF PendingWrite, Status
<1> HIDE DEF w
<1>2. Decided(w) /\ Admitted(w)
  BY <1>1 DEF Decided, Admitted, WellFormed, Kept, LockedOps, Marker, Absent
<1> QED
  BY <1>1, <1>2 DEF w

LEMMA RecordsJanitorStep ==
    ASSUME TypeOK, RecordsInv, SenderInv, NEW t \in Tab, NEW e \in Entry,
           JanitorStep(t, e)
    PROVE  RecordsInv'
<1>1. janitor[t][e] # "idle" => ~rec[e].blocked /\ rec[e].status # "absent"
  BY Begun
<1>2. CASE JanitorReconcile(t, e)
  <2>1. Onward /\ rec' = rec
    BY <1>2, JanitorOnward DEF JanitorReconcile
  <2> QED
    BY <1>1, <1>2, <2>1, MarkDecided, ReadStep, NoNewWrite DEF JanitorReconcile
<1>3. CASE JanitorReconcileFails(t, e)
  <2>1. Onward
    BY <1>3, JanitorOnward DEF JanitorReconcileFails
  <2> QED
    BY <1>3, <2>1, NoNewWrite DEF JanitorReconcileFails
<1>4. ASSUME JanitorMark(t, e) \/ JanitorClose(t, e)
      PROVE  RecordsInv'
  <2>1. Onward
    BY <1>4, JanitorOnward DEF JanitorMark, JanitorClose
  <2> QED
    BY <1>4, <2>1, StoreWrite, LoseWrite DEF JanitorMark, JanitorClose
<1>5. CASE JanitorResolve(t, e)
  <2>1. Onward /\ rec' = rec
    BY <1>5, JanitorOnward DEF JanitorResolve
  <2> QED
    BY <1>1, <1>5, <2>1, MarkerDecided, ReadStep, NoNewWrite DEF JanitorResolve
<1> QED
  BY <1>2, <1>3, <1>4, <1>5 DEF JanitorStep

LEMMA RecordsSweepStep ==
    ASSUME TypeOK, RecordsInv, SenderInv, NEW t \in Tab, NEW e \in Entry,
           SweepStep(t, e)
    PROVE  RecordsInv'
<1>1. CASE ClearSchedule(t, e)
  <2> DEFINE r == [rec[e] EXCEPT !.sched = "none"]
             w == PendingWrite(t, "clear", e, r)
  <2>1. Onward /\ rec' = rec
    BY <1>1, QuietOnward DEF ClearSchedule
  <2>2. CASE WaitsForNetwork(e) /\ writes' = writes \union {w}
    <3>1. Fine(rec[e]) /\ ~rec[e].blocked /\ rec[e].status = "pending"
      BY <2>2 DEF WaitsForNetwork, Active, RecordsInv, Fine
    <3>2. /\ r \in Record /\ r.status = rec[e].status /\ r.sched = "none"
          /\ r.held = rec[e].held /\ r.blocked = rec[e].blocked
          /\ r.deps = rec[e].deps /\ r.reconciled = rec[e].reconciled
      BY ElementsTyped, RecordUpdates DEF Record
    <3> HIDE DEF r
    <3>3. w \in Write /\ w.new = r /\ w.op = "clear" /\ w.entry = e
      BY <3>2, WriteTyped, OpsListed DEF PendingWrite
    <3> HIDE DEF w
    <3>4. Decided(w) /\ Admitted(w)
      BY <3>1, <3>2, <3>3 DEF Decided, Admitted, Fine, WellFormed, Kept, LockedOps
    <3> QED
      BY <2>1, <2>2, <3>3, <3>4, ReadStep
  <2>3. CASE writes' = writes
    BY <2>1, <2>3, NoNewWrite
  <2> QED
    BY <1>1, <2>2, <2>3 DEF ClearSchedule
<1>2. CASE ClearWrite(t, e)
  <2>1. Onward
    BY <1>2, QuietOnward DEF ClearWrite
  <2> QED
    BY <1>2, <2>1, StoreWrite, LoseWrite DEF ClearWrite
<1> QED
  BY <1>1, <1>2 DEF SweepStep

LEMMA RecordsSettleStep ==
    ASSUME TypeOK, RecordsInv, SenderInv, NEW t \in Tab, NEW e \in Entry,
           SettleStep(t, e)
    PROVE  RecordsInv'
<1>1. job[t][e].at # "idle" => ~rec[e].blocked /\ rec[e].status # "absent"
  BY Begun
<1>2. CASE AcceptWrite(t, e)
  <2>1. Onward
    BY <1>2, AfterMarkOnward DEF AcceptWrite
  <2> QED
    BY <1>2, <2>1, StoreWrite DEF AcceptWrite
<1>3. CASE AcceptLost(t, e)
  BY <1>3, RecordFailureStep DEF AcceptLost
<1>4. CASE FailWrite(t, e)
  <2>1. \A w \in writes' : ~(w.op = "fail" /\ w.tab = t /\ w.entry = e)
    BY <1>4 DEF FailWrite, Store, Lose, RecordsInv, Exclusive
  <2>2. Onward
    BY <1>4, <2>1, SettledOnward DEF FailWrite
  <2> QED
    BY <1>4, <2>2, StoreWrite, LoseWrite DEF FailWrite
<1>5. ASSUME NEW f \in Entry, Release(t, e, f)
      PROVE  RecordsInv'
  <2> DEFINE r == [rec[f] EXCEPT !.held = FALSE]
             w == PendingWrite(t, "release", f, r)
  <2>1. OnlyJob(t, e) /\ job'[t][e].at \notin Early /\ job[t][e].at = "releasing"
    BY <1>5 DEF Release, OnlyJob, TypeOK, Job, Early
  <2>2. Onward /\ rec' = rec
    BY <1>5, <2>1, NoFailPending, JobOnward DEF Release
  <2>3. CASE rec[f].held /\ ~Locked(f) /\ writes' = writes \union {w}
    <3>1. Fine(rec[f])
      BY DEF RecordsInv
    <3>2. /\ r \in Record /\ r.status = rec[f].status /\ r.sched = rec[f].sched
          /\ r.held = FALSE /\ r.blocked = rec[f].blocked
          /\ r.deps = rec[f].deps /\ r.reconciled = rec[f].reconciled
      BY ElementsTyped, RecordUpdates DEF Record
    <3> HIDE DEF r
    <3>3. w \in Write /\ w.new = r /\ w.op = "release" /\ w.entry = f
      BY <3>2, WriteTyped, OpsListed DEF PendingWrite
    <3> HIDE DEF w
    <3>4. Decided(w) /\ Admitted(w)
      BY <2>3, <3>1, <3>2, <3>3 DEF Decided, Admitted, Fine, WellFormed, Kept
    <3> QED
      BY <2>2, <2>3, <3>3, <3>4, ReadStep
  <2>4. CASE writes' = writes
    BY <2>2, <2>4, NoNewWrite
  <2> QED
    BY <1>5, <2>3, <2>4 DEF Release
<1>6. ASSUME NEW f \in Entry, ReleaseWrite(t, e, f)
      PROVE  RecordsInv'
  <2>1. Onward
    BY <1>6, AtOnward DEF ReleaseWrite, SenderStage, Early
  <2> QED
    BY <1>6, <2>1, StoreWrite DEF ReleaseWrite
<1>7. ASSUME NEW f \in Entry, ReleaseLost(t, e, f)
      PROVE  RecordsInv'
  BY <1>7, RecordFailureStep DEF ReleaseLost
<1>8. ASSUME Released(t, e) \/ Answered(t, e) \/ Cleared(t, e)
      PROVE  RecordsInv'
  <2>1. Onward
    BY <1>8, AtOnward DEF Released, Answered, Cleared, SenderStage, Early
  <2> QED
    BY <1>8, <2>1, NoNewWrite DEF Released, Answered, Cleared
<1>9. CASE Reconcile(t, e)
  <2>1. Onward /\ rec' = rec
    BY <1>9, AtOnward DEF Reconcile, SenderStage, Early
  <2> QED
    BY <1>1, <1>9, <2>1, MarkDecided, ReadStep, NoNewWrite DEF Reconcile
<1>10. CASE ReconcileFails(t, e)
  <2>1. Onward
    BY <1>10, SettledOnward DEF ReconcileFails
  <2> QED
    BY <1>10, <2>1, NoNewWrite DEF ReconcileFails
<1>11. CASE MarkWrite(t, e)
  <2>1. Onward
    BY <1>11, AtOnward, SettledOnward DEF MarkWrite, SenderStage, Early
  <2> QED
    BY <1>11, <2>1, StoreWrite, LoseWrite DEF MarkWrite
<1>12. CASE Resolve(t, e)
  <2>1. Onward /\ rec' = rec
    BY <1>12, AtOnward, SettledOnward DEF Resolve, SenderStage, Early
  <2> QED
    BY <1>1, <1>12, <2>1, MarkerDecided, ReadStep, NoNewWrite DEF Resolve
<1>13. CASE ResolveWrite(t, e)
  <2>1. Onward
    BY <1>13, SettledOnward DEF ResolveWrite
  <2> QED
    BY <1>13, <2>1, StoreWrite, LoseWrite DEF ResolveWrite
<1> QED
  BY <1>2, <1>3, <1>4, <1>5, <1>6, <1>7, <1>8, <1>9, <1>10, <1>11, <1>12, <1>13
  DEF SettleStep

LEMMA RecordsServerStep ==
    ASSUME TypeOK, RecordsInv, NEW e \in Entry, ServerCommit(e)
    PROVE  RecordsInv'
<1>1. Onward
  BY DEF ServerCommit, Onward, Dispatched, RecordsInv, WriteFine
<1> QED
  BY <1>1, NoNewWrite DEF ServerCommit

LEMMA RecordsInvHolds == Spec => []RecordsInv
<1>1. Init => RecordsInv
  BY DEF Init, RecordsInv, Fine, WellFormed, Kept, Absent, NotYet, Untouched,
         Dispatched, DepsHeld, Early, Idle
<1>2. ASSUME TypeOK, SenderInv, VerdictInv, RecordsInv, [Next]_vars
      PROVE  RecordsInv'
  <2>1. VerdictsAreReal
    BY <1>2 DEF VerdictInv
  <2>2. ASSUME NEW t \in Tab, TabStep(t) PROVE RecordsInv'
    BY <1>2, <2>2, RecordsTabStep DEF TabStep
  <2>3. ASSUME NEW t \in Tab, NEW e \in Entry, EntryStep(t, e) PROVE RecordsInv'
    BY <1>2, <2>1, <2>3, RecordsUserStep, RecordsDrainStep, RecordsAnswerStep,
       RecordsSettleStep, RecordsJanitorStep, RecordsSweepStep DEF EntryStep
  <2>4. ASSUME NEW e \in Entry, ServerCommit(e) PROVE RecordsInv'
    BY <1>2, <2>4, RecordsServerStep
  <2>5. CASE UNCHANGED vars
    BY <1>2, <2>5, QuietOnward, NoNewWrite DEF vars
  <2> QED
    BY <1>2, <2>2, <2>3, <2>4, <2>5 DEF Next
<1> QED
  BY <1>1, <1>2, TypeCorrect, SenderInvHolds, VerdictInvHolds, PTL DEF Spec

\* invalidEntryReason (docs/adr-pq-mutation-lifecycle.md, section 8): whatever
\* operations overlap, none writes back a record the next read calls corrupt.
THEOREM RecordsStayWellFormed == Spec => []NeverCorrupts
<1>1. RecordsInv => NeverCorrupts
  BY DEF RecordsInv, Fine, NeverCorrupts
<1> QED
  BY <1>1, RecordsInvHolds, PTL

\* ADR section 7.3: no write is claimed, sent or left on a wire before the server
\* holds every queued write it depends on, for any graph of prerequisites.
THEOREM PrerequisitesGoFirst == Spec => []PrerequisitesFirst
<1>1. RecordsInv => PrerequisitesFirst
  BY DEF RecordsInv, DepsHeld, PrerequisitesFirst
<1> QED
  BY <1>1, RecordsInvHolds, PTL

-----------------------------------------------------------------------------
(* The outbox implements Delivery.                                          *)

\* What a step can do to what Delivery sees.
Visible(t, e) ==
    \/ \E failed \in BOOLEAN : Enqueue(t, e, failed)
    \/ Discard(t, e)
Stored ==
    /\ \E w \in writes : rec' = [rec EXCEPT ![w.entry] = w.new]
    /\ UNCHANGED <<committed, asked>>
Unseen == UNCHANGED <<rec, committed, asked>>

LEMMA StoreOrLose ==
    ASSUME NEW t, NEW op, NEW e, Store(t, op, e) \/ Lose(t, op, e),
           UNCHANGED <<committed, asked>>
    PROVE  Stored \/ Unseen
BY DEF Store, Lose, Stored, Unseen

LEMMA StepSeen ==
    ASSUME [Next]_vars
    PROVE  \/ Unseen \/ Stored
           \/ \E t \in Tab, e \in Entry : Visible(t, e)
           \/ \E e \in Entry : ServerCommit(e)
<1>1. ASSUME NEW t \in Tab, TabStep(t) PROVE Unseen
  BY <1>1
  DEF TabStep, SessionStep, Login, Logout, BecomeLeader, CloseTab, RequestDrain,
      StartDrain, EndDrain, ReleaseNetworkBackoffs, JanitorStart, Unseen
<1>2. ASSUME NEW t \in Tab, NEW e \in Entry, EntryStep(t, e)
      PROVE  Unseen \/ Stored \/ Visible(t, e)
  <2>1. CASE UserStep(t, e)
    BY <2>1, StoreOrLose DEF UserStep, Requeue, Probe, UserWrite, Visible, Unseen
  <2>2. CASE DrainStep(t, e)
    BY <2>2, StoreOrLose
    DEF DrainStep, Rediscover, RecoverWrite, Claim, Dispatch, KeysUnavailable, Unseen
  <2>3. CASE AnswerStep(t, e)
    BY <2>3
    DEF AnswerStep, AnswerAccepted, AnswerLost, AnswerRetryable, AnswerPermanent,
        AnswerApproval, Unseen
  <2>4. CASE SettleStep(t, e)
    BY <2>4, StoreOrLose
    DEF SettleStep, AcceptWrite, AcceptLost, FailWrite, Release, ReleaseWrite,
        ReleaseLost, Released, Answered, Cleared, Reconcile, ReconcileFails,
        MarkWrite, Resolve, ResolveWrite, Unseen
  <2>5. CASE JanitorStep(t, e)
    BY <2>5, StoreOrLose
    DEF JanitorStep, JanitorReconcile, JanitorReconcileFails, JanitorMark,
        JanitorResolve, JanitorClose, Unseen
  <2>6. CASE SweepStep(t, e)
    BY <2>6, StoreOrLose DEF SweepStep, ClearSchedule, ClearWrite, Unseen
  <2> QED
    BY <1>2, <2>1, <2>2, <2>3, <2>4, <2>5, <2>6 DEF EntryStep
<1>3. CASE UNCHANGED vars
  BY <1>3 DEF vars, Unseen
<1> QED
  BY <1>1, <1>2, <1>3 DEF Next

\* The abstract state: an issued entry is kept or dropped.
LEMMA IssuedIsKeptOrDropped ==
    ASSUME TypeOK
    PROVE  /\ \A f \in Entry : f \in Issued \ Dropped <=> Kept(rec[f])
           /\ \A f \in Entry :
                 f \in Dropped <=> ~Kept(rec[f]) /\ rec[f].status # "absent"
           /\ (Issued \ Dropped) \union Dropped = Issued
BY DEF TypeOK, Issued, Dropped, Kept, Record, Status

LEMMA StoredRefines ==
    ASSUME TypeOK, TypeOK', RecordsInv, VerdictInv, Stored
    PROVE  [Promised!Next]_(Promised!vars)
<1> DEFINE kept == Issued \ Dropped
           waits == [f \in Entry |-> rec[f].deps]
<1> USE DEF TypeOK, Write
<1>1. PICK w \in writes : rec' = [rec EXCEPT ![w.entry] = w.new]
  BY DEF Stored
<1> DEFINE e == w.entry
<1>2. /\ e \in Entry /\ WriteFine(w) /\ Agree(w) /\ Waived(w) /\ Backed(w.new, e)
      /\ Fine(rec[e]) /\ w.new \in Record
  BY DEF RecordsInv, VerdictInv
<1>3. rec'[e] = w.new /\ \A f \in Entry : f # e => rec'[f] = rec[f]
  BY <1>1, <1>2
<1>4. /\ \A f \in Entry : f \in kept <=> Kept(rec[f])
      /\ \A f \in Entry : f \in Dropped <=> ~Kept(rec[f]) /\ rec[f].status # "absent"
      /\ \A f \in Entry : f \in kept' <=> Kept(rec'[f])
      /\ \A f \in Entry : f \in Dropped' <=> ~Kept(rec'[f]) /\ rec'[f].status # "absent"
      /\ kept \union Dropped = Issued
      /\ kept \subseteq Entry /\ Dropped \subseteq Entry
      /\ kept' \subseteq Entry /\ Dropped' \subseteq Entry
  BY DEF Issued, Dropped, Kept, Record, Status
<1>5. waits' = [waits EXCEPT ![e] = w.new.deps] /\ waits[e] = rec[e].deps
  BY <1>2, <1>3
<1>6. UNCHANGED <<committed, asked>>
  BY DEF Stored
<1>7. w.new.status # "absent" /\ rec[e].status # "absent"
  BY <1>2 DEF WriteFine
<1>12. \A f \in Entry : f # e => /\ f \in kept' <=> f \in kept
                                 /\ f \in Dropped' <=> f \in Dropped
  BY <1>3, <1>4
<1>13. /\ e \in kept <=> Kept(rec[e])
       /\ e \in Dropped <=> ~Kept(rec[e])
       /\ e \in kept' <=> Kept(w.new)
       /\ e \in Dropped' <=> ~Kept(w.new)
  BY <1>2, <1>3, <1>4, <1>7
<1> HIDE DEF kept
<1>8. CASE Kept(rec[e]) /\ Kept(w.new)
  <2>1. kept' = kept /\ Dropped' = Dropped
    BY <1>2, <1>4, <1>12, <1>13, <1>8
  <2>2. CASE rec[e].blocked
    <3> DEFINE v == rec[e].deps \ w.new.deps
    <3>1. v \subseteq waits[e] \intersect (committed \union asked)
          /\ w.new.deps = waits[e] \ v
      BY <1>2, <1>5, <1>8, <2>2 DEF Waived
    <3> HIDE DEF v, waits
    <3>2. waits' = [waits EXCEPT ![e] = @ \ v]
      BY <1>5, <3>1
    <3>3. e \in kept
      BY <1>2, <1>4, <1>8
    <3>4. Promised!Waive(e)
      BY <1>6, <2>1, <3>1, <3>2, <3>3 DEF Promised!Waive, waits, kept
    <3> QED
      BY <1>2, <3>4 DEF Promised!Next
  <2>3. CASE ~rec[e].blocked
    <3>1. w.new.deps = rec[e].deps
      BY <1>2, <1>8, <2>3 DEF Agree, SameDeps
    <3>2. waits' = waits
      BY <1>5, <3>1
    <3> HIDE DEF waits
    <3> QED
      BY <1>6, <2>1, <3>2 DEF Promised!vars, waits, kept
  <2> QED
    BY <2>2, <2>3
<1>9. CASE Kept(rec[e]) /\ ~Kept(w.new)
  <2>1. kept' = kept \ {e} /\ Dropped' = Dropped \union {e} /\ e \in kept
    BY <1>2, <1>4, <1>9, <1>12, <1>13
  <2>2. w.new.deps = {}
    BY <1>2, <1>9 DEF WriteFine, Fine
  <2>3. e \in committed \union asked
    BY <1>2, <1>7, <1>9 DEF Backed, Kept, Record, Status
  <2> HIDE DEF waits
  <2>4. Promised!Drop(e)
    BY <1>5, <1>6, <2>1, <2>2, <2>3 DEF Promised!Drop, waits, kept
  <2> QED
    BY <1>2, <2>4 DEF Promised!Next
<1>10. CASE ~Kept(rec[e]) /\ Kept(w.new)
  <2>1. kept' = kept \union {e} /\ Dropped' = Dropped \ {e} /\ e \in Dropped
    BY <1>2, <1>4, <1>10, <1>12, <1>13
  <2>2. w.new.deps \subseteq kept \union Dropped
    BY <1>2, <1>4 DEF WriteFine, Fine
  <2> HIDE DEF waits
  <2>3. Promised!Restore(e)
    BY <1>5, <1>6, <2>1, <2>2 DEF Promised!Restore, Promised!issued, waits, kept
  <2> QED
    BY <1>2, <2>3 DEF Promised!Next
<1>11. CASE ~Kept(rec[e]) /\ ~Kept(w.new)
  <2>1. kept' = kept /\ Dropped' = Dropped
    BY <1>2, <1>4, <1>11, <1>12, <1>13
  <2>2. w.new.deps = rec[e].deps
    BY <1>2, <1>11 DEF WriteFine, Fine
  <2>3. waits' = waits
    BY <1>5, <2>2
  <2> HIDE DEF waits
  <2> QED
    BY <1>6, <2>1, <2>3 DEF Promised!vars, waits, kept
<1> QED
  BY <1>8, <1>9, <1>10, <1>11

LEMMA VisibleRefines ==
    ASSUME TypeOK, TypeOK', RecordsInv, NEW t \in Tab, NEW e \in Entry,
           Visible(t, e)
    PROVE  Promised!Next
<1> DEFINE kept == Issued \ Dropped
           waits == [f \in Entry |-> rec[f].deps]
<1>1. ASSUME NEW failed \in BOOLEAN, Enqueue(t, e, failed)
      PROVE  Promised!Next
  <2> DEFINE deps == {d \in Prerequisites[e] :
                        /\ rec[d].status # "absent"
                        /\ failed \/ rec[d].status \notin {"accepted", "discarded"}}
  <2>1. /\ rec[e].status = "absent" /\ rec'[e].status = "pending"
        /\ rec'[e].deps = deps
        /\ \A f \in Entry : f # e => rec'[f] = rec[f]
    BY <1>1 DEF Enqueue, TypeOK, Absent
  <2>2. deps \subseteq Issued
    BY OutboxAssumption DEF Issued
  <2> HIDE DEF deps
  <2>3. /\ e \notin Issued /\ kept' = kept \union {e} /\ Dropped' = Dropped
        /\ kept \union Dropped = Issued
    BY <2>1 DEF Issued, Dropped
  <2>4. waits' = [waits EXCEPT ![e] = deps]
    BY <2>1
  <2>5. UNCHANGED <<committed, asked>>
    BY <1>1 DEF Enqueue
  <2> HIDE DEF waits, kept
  <2>6. Promised!Issue(e)
    BY <2>2, <2>3, <2>4, <2>5 DEF Promised!Issue, Promised!issued, waits, kept
  <2> QED
    BY <2>6 DEF Promised!Next
<1>2. CASE Discard(t, e)
  <2>1. /\ e \in Issued /\ kept \union Dropped = Issued
        /\ asked' = asked \union {e} /\ UNCHANGED <<rec, committed>>
    BY <1>2 DEF Discard, Issued, Dropped
  <2>2. kept' = kept /\ Dropped' = Dropped /\ waits' = waits
    BY <2>1 DEF Issued, Dropped
  <2> HIDE DEF waits, kept
  <2>3. Promised!Cancel(e)
    BY <2>1, <2>2 DEF Promised!Cancel, Promised!issued, waits, kept
  <2> QED
    BY <2>3 DEF Promised!Next
<1> QED
  BY <1>1, <1>2 DEF Visible

LEMMA CommitRefines ==
    ASSUME TypeOK, RecordsInv, NEW e \in Entry, ServerCommit(e)
    PROVE  Promised!Next
<1> DEFINE kept == Issued \ Dropped
           waits == [f \in Entry |-> rec[f].deps]
<1>1. Dispatched(e)
  BY DEF ServerCommit, Dispatched
<1>2. e \in Issued /\ waits[e] \subseteq committed
  BY <1>1 DEF RecordsInv, NotYet, Untouched, DepsHeld, Issued
<1>3. kept \union Dropped = Issued
  BY DEF Issued, Dropped
<1>4. /\ UNCHANGED <<rec, asked>> /\ committed' = committed \union {e}
  BY DEF ServerCommit
<1>5. kept' = kept /\ Dropped' = Dropped /\ waits' = waits
  BY <1>4 DEF Issued, Dropped
<1> HIDE DEF waits, kept
<1>6. Promised!Deliver(e)
  BY <1>2, <1>3, <1>4, <1>5 DEF Promised!Deliver, Promised!issued, waits, kept
<1> QED
  BY <1>6 DEF Promised!Next

\* ADR sections 7.3 and 8: the outbox implements Delivery. Whatever overlaps or
\* crashes, an issued write keeps its mutations until the server holds it or its
\* author gave it up, and reaches the server only after the writes it waits for.
THEOREM OutboxDelivers == Spec => DeliversAsPromised
<1>1. Init => Promised!Init
  BY DEF Init, Promised!Init, Issued, Dropped, Absent
<1>2. ASSUME TypeOK, TypeOK', VerdictInv, RecordsInv, [Next]_vars
      PROVE  [Promised!Next]_(Promised!vars)
  <2>1. CASE Unseen
    BY <2>1 DEF Unseen, Promised!vars, Issued, Dropped
  <2>2. CASE Stored
    BY <1>2, <2>2, StoredRefines
  <2>3. ASSUME NEW t \in Tab, NEW e \in Entry, Visible(t, e)
        PROVE  Promised!Next
    BY <1>2, <2>3, VisibleRefines
  <2>4. ASSUME NEW e \in Entry, ServerCommit(e)
        PROVE  Promised!Next
    BY <1>2, <2>4, CommitRefines
  <2> QED
    BY <1>2, <2>1, <2>2, <2>3, <2>4, StepSeen
<1> QED
  BY <1>1, <1>2, TypeCorrect, VerdictInvHolds, RecordsInvHolds, PTL
  DEF Spec, DeliversAsPromised, Promised!Spec

=============================================================================
