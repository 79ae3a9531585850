-------------------------- MODULE DialogGateProofs --------------------------
(***************************************************************************)
(* Theorems about DialogGate for any rows, references, authors, queue      *)
(* bounds and number of loops, checked by TLAPS.                           *)
(***************************************************************************)
EXTENDS DialogGate, FiniteSetTheorems, WellFoundedInduction, TLAPS

-----------------------------------------------------------------------------
(* The two cascades are least fixpoints *)

LEMMA KeysGrow ==
    ASSUME NEW S, NEW T, S \subseteq T
    PROVE  KeysOf(S) \subseteq KeysOf(T)
BY DEF KeysOf

LEMMA FollowsGrows ==
    ASSUME NEW q, NEW k, NEW S, NEW T, S \subseteq T, Follows(q, k, S)
    PROVE  Follows(q, k, T)
BY KeysGrow DEF Follows, Cites

LEMMA CitesGrows ==
    ASSUME NEW q, NEW k, NEW S, NEW T, S \subseteq T, Cites(q, k, S)
    PROVE  Cites(q, k, T)
BY KeysGrow DEF Cites

\* What is drained follows what is drained, and nothing else does.
LEMMA DrainedIsClosed ==
    ASSUME NEW k
    PROVE  /\ Drained(k) \subseteq pending
           /\ \A q \in pending : Follows(q, k, Drained(k)) => q \in Drained(k)
<1> DEFINE D == Drained(k)
           closed(S) == \A q \in pending : Follows(q, k, S) => q \in S
<1>1. D \subseteq pending
  BY DEF Drained
<1>2. ASSUME NEW q \in pending, Follows(q, k, D) PROVE q \in D
  <2>1. ASSUME NEW S \in SUBSET pending, closed(S) PROVE q \in S
    <3>1. D \subseteq S
      BY <2>1 DEF Drained
    <3>2. Follows(q, k, S)
      BY <1>2, <3>1, FollowsGrows
    <3> QED BY <2>1, <3>2
  <2> QED BY <2>1 DEF Drained
<1> QED BY <1>1, <1>2

LEMMA DrainedFollows ==
    ASSUME NEW k, NEW r \in Drained(k)
    PROVE  Follows(r, k, Drained(k))
<1> DEFINE D == Drained(k)
           T == {q \in D : Follows(q, k, D)}
<1>1. T \in SUBSET pending /\ T \subseteq D
  BY DrainedIsClosed
<1>2. \A q \in pending : Follows(q, k, T) => q \in T
  BY <1>1, DrainedIsClosed, FollowsGrows
<1>3. r \in T
  BY <1>1, <1>2 DEF Drained
<1> QED BY <1>3

\* No row is left behind that cites a row that was given up.
LEMMA DependentsAreClosed ==
    ASSUME NEW k
    PROVE  /\ Dependents(k) \subseteq pending
           /\ \A q \in pending : Cites(q, k, Dependents(k)) => q \in Dependents(k)
<1> DEFINE D == Dependents(k)
           closed(S) == \A q \in pending : Cites(q, k, S) => q \in S
<1>1. D \subseteq pending
  BY DEF Dependents
<1>2. ASSUME NEW q \in pending, Cites(q, k, D) PROVE q \in D
  <2>1. ASSUME NEW S \in SUBSET pending, closed(S) PROVE q \in S
    <3>1. D \subseteq S
      BY <2>1 DEF Dependents
    <3>2. Cites(q, k, S)
      BY <1>2, <3>1, CitesGrows
    <3> QED BY <2>1, <3>2
  <2> QED BY <2>1 DEF Dependents
<1> QED BY <1>1, <1>2

-----------------------------------------------------------------------------
(* The gate's own state.                                                   *)

GateTyped ==
    /\ placed \subseteq admitted /\ admitted \subseteq Genuine
    /\ terminal \subseteq Rev
    /\ pending \subseteq Genuine /\ Cardinality(pending) <= maxPending

GateSafe == CausalOrder /\ NobodyWaitsInVain /\ OnlyDoomedEnds

LEMMA FinitePart ==
    ASSUME NEW S \in SUBSET Row
    PROVE  IsFiniteSet(S) /\ Cardinality(S) \in Nat
BY GateAssumption, FS_Subset, FS_CardinalityType

LEMMA FewerArePending ==
    ASSUME GateTyped, pending' \subseteq pending
    PROVE  pending' \subseteq Genuine /\ Cardinality(pending') <= maxPending
<1>1. pending \in SUBSET Row
  BY GateAssumption DEF GateTyped
<1>2. Cardinality(pending') <= Cardinality(pending)
  BY <1>1, FinitePart, FS_Subset
<1>3. Cardinality(pending') \in Nat /\ Cardinality(pending) \in Nat
  BY <1>1, FinitePart
<1> QED BY <1>2, <1>3, GateAssumption DEF GateTyped

LEMMA AdmitKeeps ==
    ASSUME GateTyped, GateSafe, NEW r \in Genuine, NEW b \in BOOLEAN,
           b => Missing(r) = {}, Admit(r, b), unreadable' = unreadable
    PROVE  GateTyped' /\ GateSafe'
<1> DEFINE k == KeyOf[r]
           D == Drained(k)
<1>1. D \subseteq pending
  BY DrainedIsClosed
<1>2. /\ admitted' = admitted \union {r} \union D
      /\ placed' \subseteq placed \union D \union {r}
      /\ r \in placed' => r \in placed \/ b \/ r \in D
      /\ pending' = pending \ D
      /\ terminal' = terminal
  BY DEF Admit
<1>3. AdmittedRevs' = AdmittedRevs \union {k} \union KeysOf(D)
  BY <1>2 DEF AdmittedRevs, KeysOf
<1>4. GateTyped'
  <2>1. placed' \subseteq admitted' /\ admitted' \subseteq Genuine
    BY <1>1, <1>2 DEF GateTyped
  <2> QED BY <1>2, <2>1, FewerArePending DEF GateTyped
<1>5. CausalOrder'
  <2> SUFFICES ASSUME NEW q \in placed' PROVE Refs[q] \subseteq AdmittedRevs'
    BY DEF CausalOrder
  <2>1. CASE q \in placed
    BY <2>1, <1>3 DEF GateSafe, CausalOrder
  <2>2. CASE q \in D
    BY <2>2, <1>3, DrainedFollows DEF Follows
  <2>3. CASE q = r /\ b
    BY <2>3, <1>3 DEF Missing
  <2> QED BY <1>2, <2>1, <2>2, <2>3
<1>6. NobodyWaitsInVain'
  <2> SUFFICES ASSUME NEW q \in pending'
               PROVE  Missing(q)' # {} /\ Hopeless(q)' = {}
    BY DEF NobodyWaitsInVain
  <2>1. q \in pending /\ q \notin D
    BY <1>2
  <2>2. Missing(q) # {} /\ Hopeless(q) = {}
    BY <2>1 DEF GateSafe, NobodyWaitsInVain
  <2>3. Hopeless(q)' = {}
    BY <1>2, <1>3, <2>2 DEF Hopeless
  <2>4. Missing(q)' # {}
    <3> SUFFICES ASSUME Refs[q] \subseteq AdmittedRevs' PROVE FALSE
      BY DEF Missing
    <3>1. Refs[q] \subseteq AdmittedRevs \union {k} \union KeysOf(D)
      BY <1>3
    <3>2. Follows(q, k, D)
      BY <2>2, <3>1 DEF Missing, Follows, Cites
    <3>3. q \in D
      BY <2>1, <3>2, DrainedIsClosed
    <3> QED BY <2>1, <3>3
  <2> QED BY <2>3, <2>4
<1>7. OnlyDoomedEnds'
  BY <1>2 DEF GateSafe, OnlyDoomedEnds, Doomed, Faulty
<1> QED BY <1>4, <1>5, <1>6, <1>7 DEF GateSafe

LEMMA GivenUpIsDoomed ==
    ASSUME GateTyped, OnlyDoomedEnds, NEW r \in Genuine,
           Faulty(r) \/ Hopeless(r) # {}
    PROVE  {KeyOf[r]} \union KeysOf(Dependents(KeyOf[r])) \subseteq Doomed
<1> DEFINE k == KeyOf[r]
           closed(S) == \A q \in Genuine : Faulty(q) \/ Refs[q] \intersect S # {}
                                           => KeyOf[q] \in S
<1>1. \A q \in Genuine : q \in Row /\ KeyOf[q] \in Rev
  BY GateAssumption
<1>2. ASSUME NEW S \in SUBSET Rev, closed(S)
      PROVE  {k} \union KeysOf(Dependents(k)) \subseteq S
  <2>1. terminal \subseteq S
    BY <1>2 DEF OnlyDoomedEnds, Doomed
  <2>2. k \in S
    BY <1>2, <2>1 DEF Hopeless
  <2> DEFINE T == {q \in pending : KeyOf[q] \in S}
  <2>3. \A q \in pending : Cites(q, k, T) => q \in T
    <3> SUFFICES ASSUME NEW q \in pending, Cites(q, k, T) PROVE KeyOf[q] \in S
      OBVIOUS
    <3>1. Refs[q] \intersect S # {}
      BY <2>2 DEF Cites, KeysOf
    <3> QED BY <1>2, <3>1 DEF GateTyped
  <2>4. Dependents(k) \subseteq T
    BY <2>3 DEF Dependents
  <2> QED BY <2>2, <2>4 DEF KeysOf
<1>3. {k} \union KeysOf(Dependents(k)) \subseteq Rev
  BY <1>1, DependentsAreClosed DEF KeysOf, GateTyped
<1> QED BY <1>2, <1>3 DEF Doomed

LEMMA RejectKeeps ==
    ASSUME GateTyped, GateSafe, NEW r \in Genuine,
           Faulty(r) \/ Hopeless(r) # {}, Reject(r), unreadable' = unreadable
    PROVE  GateTyped' /\ GateSafe'
<1> DEFINE k == KeyOf[r]
           D == Dependents(k)
<1>1. CASE UNCHANGED gate
  BY <1>1 DEF gate, GateTyped, GateSafe, CausalOrder, NobodyWaitsInVain, Missing, Hopeless,
              AdmittedRevs, KeysOf, OnlyDoomedEnds, Doomed, Faulty
<1>2. CASE /\ terminal' = terminal \union {k} \union KeysOf(D)
           /\ pending' = pending \ D
           /\ UNCHANGED <<admitted, placed, awaitingCard>>
  <2>1. {k} \union KeysOf(D) \subseteq Doomed
    BY GivenUpIsDoomed DEF GateSafe
  <2>2. Doomed' = Doomed /\ Doomed \subseteq Rev
    BY DEF Doomed, Faulty
  <2>3. GateTyped'
    BY <1>2, <2>1, <2>2, FewerArePending DEF GateTyped
  <2>4. OnlyDoomedEnds'
    BY <1>2, <2>1, <2>2 DEF GateSafe, OnlyDoomedEnds
  <2>5. CausalOrder'
    BY <1>2 DEF GateSafe, CausalOrder, AdmittedRevs
  <2>6. NobodyWaitsInVain'
    <3> SUFFICES ASSUME NEW q \in pending \ D
                 PROVE  Missing(q)' # {} /\ Hopeless(q)' = {}
      BY <1>2 DEF NobodyWaitsInVain
    <3>1. Missing(q) # {} /\ Hopeless(q) = {}
      BY DEF GateSafe, NobodyWaitsInVain
    <3>2. ~Cites(q, k, D)
      BY DependentsAreClosed
    <3>3. AdmittedRevs' = AdmittedRevs
      BY <1>2 DEF AdmittedRevs
    <3> QED BY <1>2, <3>1, <3>2, <3>3 DEF Missing, Hopeless, Cites
  <2> QED BY <2>3, <2>4, <2>5, <2>6 DEF GateSafe
<1> QED BY <1>1, <1>2 DEF Reject

\* A set that is one too large for a bound fits when one of it is dropped.
LEMMA DroppingOneFits ==
    ASSUME NEW S \in SUBSET Row, NEW r \in Row, NEW n \in Nat \ {0},
           Cardinality(S) <= n, NEW dropped \in SUBSET (S \ {r}),
           Cardinality(dropped) = IF Cardinality(S \union {r}) > n THEN 1 ELSE 0
    PROVE  Cardinality((S \union {r}) \ dropped) <= n
<1>1. IsFiniteSet(S) /\ Cardinality(S) \in Nat
  BY FinitePart
<1>2. /\ IsFiniteSet(S \union {r})
      /\ Cardinality(S \union {r}) <= Cardinality(S) + 1
  BY <1>1, FS_AddElement
<1>3. Cardinality(S \union {r}) \in Nat
  BY <1>2, FS_CardinalityType
<1>4. (S \union {r}) \intersect dropped = dropped
  OBVIOUS
<1>5. Cardinality((S \union {r}) \ dropped)
        = Cardinality(S \union {r}) - Cardinality(dropped)
  BY <1>2, <1>4, FS_Difference
<1> QED BY <1>1, <1>2, <1>3, <1>5

LEMMA ParkKeeps ==
    ASSUME GateTyped, GateSafe, NEW r \in Genuine,
           Missing(r) # {}, Hopeless(r) = {}, ParkPending(r), unreadable' = unreadable
    PROVE  GateTyped' /\ GateSafe'
<1>1. PICK dropped \in SUBSET (pending \ {r}) :
         /\ Cardinality(dropped) = IF Cardinality(pending \union {r}) > maxPending
                                   THEN 1 ELSE 0
         /\ pending' = (pending \union {r}) \ dropped
  BY DEF ParkPending
<1>2. pending \in SUBSET Row /\ r \in Row
  BY GateAssumption DEF GateTyped
<1>3. Cardinality(pending') <= maxPending
  BY <1>1, <1>2, DroppingOneFits, GateAssumption DEF GateTyped
<1>4. UNCHANGED <<admitted, placed, terminal>>
  BY DEF ParkPending
<1>5. GateTyped'
  BY <1>1, <1>3, <1>4 DEF GateTyped
<1>6. CausalOrder' /\ OnlyDoomedEnds'
  BY <1>4 DEF GateSafe, CausalOrder, AdmittedRevs, OnlyDoomedEnds, Doomed, Faulty
<1>7. NobodyWaitsInVain'
  BY <1>1, <1>4 DEF GateSafe, NobodyWaitsInVain, Missing, Hopeless, AdmittedRevs
<1> QED BY <1>5, <1>6, <1>7 DEF GateSafe

-----------------------------------------------------------------------------
(* The attempts and the loops.                                             *)

Waiting ==
    /\ awaitingCard \subseteq Row
    /\ \A a \in Author : Cardinality(ParkedOn(a)) <= maxAwaitingCard

World ==
    /\ unreadable \subseteq Breakable
    /\ delivered \subseteq Row
    /\ cards \subseteq Author
    /\ keys \subseteq Author
    /\ tick \in BOOLEAN /\ timer \in BOOLEAN

\* An attempt has verified what it goes on with.
Attempted ==
    /\ attempt \in [Row -> Stage]
    /\ \A r \in Row : attempt[r] \in {"decrypting", "keyless"} => r \in Genuine

\* What a loop heard of a row.
HonestLoop(l) ==
    /\ l \in Loop
    /\ \A r \in Row : l.seen[r] = "verified" => r \in Genuine
Heeded == caller \in [Caller -> Loop] /\ \A c \in Caller : HonestLoop(caller[c])

Display ==
    /\ shown \in [Row -> Verdict \union {"none"}]
    /\ ShownIsGenuine

GateInv == GateTyped /\ GateSafe /\ Waiting /\ World /\ Attempted /\ Heeded /\ Display

LEMMA InvImplies ==
    GateInv => TypeOK /\ CausalOrder /\ NobodyWaitsInVain /\ OnlyDoomedEnds /\ ShownIsGenuine
BY GateAssumption DEF GateInv, TypeOK, GateTyped, GateSafe, Waiting, World, Attempted,
   Heeded, Display

LEMMA IdleIsHonest == HonestLoop(Idle)
BY DEF HonestLoop, Loop, Idle, Verdict

LEMMA HearingIsHonest ==
    ASSUME NEW l, HonestLoop(l), NEW r \in Row, NEW v \in Verdict,
           v = "verified" => r \in Genuine
    PROVE  HonestLoop(Heard(l, r, v))
<1> DEFINE h == Heard(l, r, v)
<1>1. l \in Loop
  BY DEF HonestLoop
<1>2. h.seen = IF l.kind = "scan" THEN [l.seen EXCEPT ![r] = v] ELSE l.seen
  BY <1>1 DEF Heard, Loop
<1>3. h \in Loop
  BY <1>1 DEF Heard, Loop
<1> QED BY <1>1, <1>2, <1>3 DEF HonestLoop, Loop

\* One loop changes, into an honest one.
LEMMA LoopSteps ==
    ASSUME Heeded, NEW c \in Caller, NEW l, HonestLoop(l),
           caller' = [caller EXCEPT ![c] = l]
    PROVE  Heeded'
BY DEF Heeded, HonestLoop

LEMMA AnswerKeeps ==
    ASSUME Attempted, Heeded, NEW r \in Row, NEW v \in Verdict,
           v = "verified" => r \in Genuine, Answer(r, v)
    PROVE  Attempted' /\ Heeded' /\ UNCHANGED <<unreadable, delivered, cards, keys, tick, timer, shown>>
<1>1. Attempted'
  BY DEF Answer, Attempted, Stage
<1>2. caller' = [c \in Caller |-> IF caller[c].on = r THEN Heard(caller[c], r, v)
                                  ELSE caller[c]]
  BY DEF Answer
<1>3. ASSUME NEW c \in Caller PROVE HonestLoop(caller'[c])
  BY <1>2, HearingIsHonest DEF Heeded
<1>4. Heeded'
  <2>1. \A c \in Caller : caller'[c] \in Loop
    BY <1>3 DEF HonestLoop
  <2>2. caller' \in [Caller -> Loop]
    BY <1>2, <2>1
  <2> QED BY <1>3, <2>2 DEF Heeded, HonestLoop
<1> QED BY <1>1, <1>4 DEF Answer

\* What the gate did not touch stays as it was.
LEMMA GateRests ==
    ASSUME GateTyped, GateSafe, UNCHANGED <<admitted, placed, terminal, pending, unreadable>>
    PROVE  GateTyped' /\ GateSafe'
BY DEF GateTyped, GateSafe, CausalOrder, NobodyWaitsInVain, Missing, Hopeless,
       AdmittedRevs, KeysOf, OnlyDoomedEnds, Doomed, Faulty

LEMMA WaitingRests ==
    ASSUME Waiting, awaitingCard' = awaitingCard
    PROVE  Waiting'
BY DEF Waiting, ParkedOn

LEMMA WorldRests ==
    ASSUME World, UNCHANGED <<unreadable, delivered, cards, keys, tick, timer>>
    PROVE  World'
BY DEF World

LEMMA DisplayRests ==
    ASSUME Display, shown' = shown
    PROVE  Display'
BY DEF Display, ShownIsGenuine

LEMMA CardWait ==
    ASSUME Waiting, NEW r \in Row, AwaitCard(r)
    PROVE  Waiting'
<1> DEFINE P == ParkedOn(AuthorOf[r])
<1>1. PICK dropped \in SUBSET (P \ {r}) :
         /\ Cardinality(dropped) = IF Cardinality(P \union {r}) > maxAwaitingCard
                                   THEN 1 ELSE 0
         /\ awaitingCard' = (awaitingCard \union {r}) \ dropped
  BY DEF AwaitCard
<1>2. P \in SUBSET Row /\ AuthorOf[r] \in Author
  BY GateAssumption DEF Waiting, ParkedOn
<1>3. awaitingCard' \subseteq Row
  BY <1>1 DEF Waiting
<1>4. ASSUME NEW a \in Author PROVE Cardinality(ParkedOn(a)') <= maxAwaitingCard
  <2>1. CASE a = AuthorOf[r]
    <3>1. ParkedOn(a)' = (P \union {r}) \ dropped
      BY <1>1, <2>1 DEF ParkedOn
    <3>2. Cardinality(P) <= maxAwaitingCard
      BY <1>2 DEF Waiting
    <3>3. Cardinality((P \union {r}) \ dropped) <= maxAwaitingCard
      <4> HIDE DEF P
      <4> QED BY <1>1, <1>2, <3>2, DroppingOneFits, GateAssumption
    <3> QED BY <3>1, <3>3
  <2>2. CASE a # AuthorOf[r]
    <3>1. ParkedOn(a)' = ParkedOn(a)
      BY <1>1, <2>2 DEF ParkedOn
    <3> QED BY <3>1 DEF Waiting
  <2> QED BY <2>1, <2>2
<1> QED BY <1>3, <1>4 DEF Waiting

LEMMA JudgeKeeps ==
    ASSUME GateInv, NEW r \in Row, Judge(r)
    PROVE  GateTyped' /\ GateSafe' /\ Attempted' /\ Heeded'
           /\ UNCHANGED <<unreadable, delivered, cards, keys, tick, timer, shown, awaitingCard>>
<1> USE DEF GateInv
<1>1. r \in Genuine
  BY DEF Judge, Attempted
<1>2. awaitingCard' = awaitingCard
  BY DEF Judge, Reject, gate, ParkPending, Admit
<1>3. CASE Faulty(r) /\ Reject(r) /\ Answer(r, "invalid")
  BY <1>1, <1>2, <1>3, AnswerKeeps, RejectKeeps DEF Verdict
<1>4. CASE Hopeless(r) # {} /\ Reject(r) /\ Answer(r, "blocked")
  BY <1>1, <1>2, <1>4, AnswerKeeps, RejectKeeps DEF Verdict
<1>5. CASE Hopeless(r) = {} /\ Missing(r) # {} /\ ParkPending(r) /\ Answer(r, "waiting")
  BY <1>1, <1>2, <1>5, AnswerKeeps, ParkKeeps DEF Verdict
<1>6. CASE Missing(r) = {} /\ Admit(r, TRUE) /\ Answer(r, "verified")
  BY <1>1, <1>2, <1>6, AnswerKeeps, AdmitKeeps DEF Verdict
<1> QED BY <1>3, <1>4, <1>5, <1>6 DEF Judge

LEMMA AttemptsKeep ==
    ASSUME GateInv, NEW r \in Row, Attempt(r)
    PROVE  GateInv'
<1> USE DEF GateInv
<1>1. CASE ResolveCard(r) \/ NoKey(r)
  <2>1. UNCHANGED <<unreadable, delivered, cards, keys, gate, page>>
    BY <1>1 DEF ResolveCard, NoKey
  <2>2. Attempted'
    BY <1>1 DEF ResolveCard, NoKey, Attempted, Stage
  <2>3. Heeded'
    BY <2>1 DEF page, Heeded
  <2> QED BY <2>1, <2>2, <2>3, GateRests, WaitingRests, WorldRests, DisplayRests DEF gate, page
<1>2. CASE BadSignature(r)
  <2>1. Answer(r, "invalid") /\ UNCHANGED gate
    BY <1>2 DEF BadSignature
  <2>2. Attempted' /\ Heeded' /\ UNCHANGED <<unreadable, delivered, cards, keys, tick, timer, shown>>
    BY <2>1, AnswerKeeps DEF Verdict
  <2> QED BY <2>1, <2>2, GateRests, WaitingRests, WorldRests, DisplayRests DEF gate
<1>3. CASE AwaitCard(r)
  <2>1. Answer(r, "waiting") /\ UNCHANGED <<admitted, placed, terminal, pending>>
    BY <1>3 DEF AwaitCard
  <2>2. Attempted' /\ Heeded' /\ UNCHANGED <<unreadable, delivered, cards, keys, tick, timer, shown>>
    BY <2>1, AnswerKeeps DEF Verdict
  <2> QED BY <1>3, <2>1, <2>2, GateRests, CardWait, WorldRests, DisplayRests
<1>4. CASE AdmitUnplaced(r)
  <2>1. r \in Genuine /\ Admit(r, FALSE) /\ Answer(r, "verified")
    BY <1>4 DEF AdmitUnplaced, Attempted
  <2>2. Attempted' /\ Heeded' /\ UNCHANGED <<unreadable, delivered, cards, keys, tick, timer, shown>>
    BY <2>1, AnswerKeeps DEF Verdict
  <2>3. GateTyped' /\ GateSafe' /\ awaitingCard' = awaitingCard
    BY <2>1, <2>2, AdmitKeeps DEF Admit
  <2> QED BY <2>2, <2>3, WaitingRests, WorldRests, DisplayRests
<1>5. CASE Judge(r)
  BY <1>5, JudgeKeeps, WaitingRests, WorldRests, DisplayRests
<1> QED BY <1>1, <1>2, <1>3, <1>4, <1>5 DEF Attempt

LEMMA ArrivalsKeep ==
    ASSUME GateInv,
           \/ \E r \in Row : Deliver(r)
           \/ \E a \in Author : CardArrives(a) \/ KeyArrives(a)
           \/ Reopen
    PROVE  GateInv'
<1> USE DEF GateInv
<1>1. UNCHANGED <<unreadable, gate, attempt, caller, shown>>
  BY DEF Deliver, CardArrives, KeyArrives, Reopen
<1>2. World'
  BY DEF World, Deliver, CardArrives, KeyArrives, Reopen
<1>3. Attempted' /\ Heeded'
  BY <1>1 DEF Attempted, Heeded
<1> QED BY <1>1, <1>2, <1>3, GateRests, WaitingRests, DisplayRests DEF gate

-----------------------------------------------------------------------------
\* The next row of a loop is one of those it has to do.
LEMMA NextRow ==
    ASSUME NEW S \in SUBSET Row, S # {}
    PROVE  Min(S) \in S
<1> DEFINE R == {ss \in Nat \X Nat : ss[1] < ss[2]}
<1>1. IsWellFoundedOn(R, Nat)
  BY NatLessThanWellFounded, Zenon DEF OpToRel
<1>2. S \subseteq Nat
  BY GateAssumption
<1>3. PICK x \in S : \A y \in S : <<y, x>> \notin R
  BY <1>1, <1>2, WFMin
<1>4. \A y \in S : x =< y
  <2> SUFFICES ASSUME NEW y \in S, y < x PROVE FALSE
    BY <1>2
  <2>1. <<y, x>> \in R
    BY <1>2
  <2> QED BY <1>3, <2>1
<1> QED BY <1>4 DEF Min

LEMMA LoopsKeep ==
    ASSUME GateInv, NEW c \in Caller, Loops(c)
    PROVE  GateInv'
<1> USE DEF GateInv
<1> DEFINE l == caller[c]
<1>0. l \in Loop /\ HonestLoop(l)
  BY DEF Heeded
<1>1. UNCHANGED <<unreadable, delivered, cards, keys, admitted, placed, terminal, pending>>
  BY DEF Loops, Scan, RetryEnds, CallAdmit, ScanEnds, Retry, RetryAuthor, gate
<1>2. World'
  BY DEF Loops, Scan, RetryEnds, CallAdmit, ScanEnds, Retry, RetryAuthor, World
<1>3. CASE Scan(c) \/ RetryEnds(c) \/ Retry(c)
  <2> DEFINE n == IF Scan(c) THEN [Idle EXCEPT !.kind = "scan",
                                     !.todo = {r \in delivered : shown[r] # "verified"}]
                  ELSE IF Retry(c) THEN [Idle EXCEPT !.kind = "retry",
                                     !.authors = {AuthorOf[r] : r \in awaitingCard}]
                  ELSE Idle
  <2>1. caller' = [caller EXCEPT ![c] = n] /\ UNCHANGED <<gate, attempt, shown>>
    BY <1>3 DEF Scan, RetryEnds, Retry
  <2>2. {AuthorOf[r] : r \in awaitingCard} \subseteq Author
    BY GateAssumption DEF Waiting
  <2>3. HonestLoop(n)
    BY <2>2 DEF HonestLoop, Loop, Idle, Verdict, World
  <2>4. Heeded'
    <3> HIDE DEF n
    <3> QED BY <2>1, <2>3, LoopSteps
  <2> QED BY <1>1, <1>2, <2>1, <2>4, GateRests, WaitingRests, DisplayRests DEF gate, Attempted
<1>4. CASE \E a \in Author : RetryAuthor(c, a)
  <2>1. PICK a \in Author : RetryAuthor(c, a)
    BY <1>4
  <2> DEFINE n == [l EXCEPT !.authors = @ \ {a}, !.todo = ParkedOn(a)]
  <2>2. /\ caller' = [caller EXCEPT ![c] = n]
        /\ awaitingCard' = awaitingCard \ ParkedOn(a)
        /\ UNCHANGED <<attempt, shown>>
    BY <2>1 DEF RetryAuthor, Heeded
  <2>3. HonestLoop(n)
    BY <1>0 DEF HonestLoop, Loop, ParkedOn, Waiting
  <2>4. Heeded'
    <3> HIDE DEF n
    <3> QED BY <2>2, <2>3, LoopSteps
  <2>5. Waiting'
    <3>1. awaitingCard' \subseteq Row
      BY <2>2 DEF Waiting
    <3>2. ASSUME NEW b \in Author PROVE Cardinality(ParkedOn(b)') <= maxAwaitingCard
      <4>1. ParkedOn(b)' \subseteq ParkedOn(b) /\ ParkedOn(b) \in SUBSET Row
        BY <2>2 DEF ParkedOn, Waiting
      <4>2. Cardinality(ParkedOn(b)') <= Cardinality(ParkedOn(b))
        BY <4>1, FinitePart, FS_Subset
      <4>3. Cardinality(ParkedOn(b)') \in Nat /\ Cardinality(ParkedOn(b)) \in Nat
        BY <4>1, FinitePart
      <4> QED BY <4>2, <4>3, GateAssumption DEF Waiting
    <3> QED BY <3>1, <3>2 DEF Waiting
  <2> QED BY <1>1, <1>2, <2>2, <2>4, <2>5, GateRests, DisplayRests DEF Attempted
<1>5. CASE CallAdmit(c)
  <2> DEFINE r == Min(l.todo)
             n == IF r \in admitted THEN Heard(l, r, "verified") ELSE [l EXCEPT !.on = r]
  <2>1. r \in Row
    BY <1>0, <1>5, NextRow DEF CallAdmit, Loop
  <2>2. /\ caller' = [caller EXCEPT ![c] = n]
        /\ attempt' = attempt \/ attempt' = [attempt EXCEPT ![r] = "resolving"]
        /\ UNCHANGED <<gate, shown>>
    BY <1>5 DEF CallAdmit, Heeded
  <2>3. HonestLoop(n)
    <3>1. CASE r \in admitted
      BY <1>0, <2>1, <3>1, HearingIsHonest DEF GateTyped, Verdict
    <3>2. CASE r \notin admitted
      BY <1>0, <2>1, <3>2 DEF HonestLoop, Loop
    <3> QED BY <3>1, <3>2
  <2>4. Heeded'
    <3> HIDE DEF n
    <3> QED BY <2>2, <2>3, LoopSteps
  <2>5. Attempted'
    <3> HIDE DEF r
    <3> QED BY <2>1, <2>2 DEF Attempted, Stage
  <2> QED BY <1>1, <1>2, <2>2, <2>4, <2>5, GateRests, WaitingRests, DisplayRests DEF gate
<1>6. CASE ScanEnds(c)
  <2>1. caller' = [caller EXCEPT ![c] = Idle] /\ UNCHANGED <<gate, attempt>>
    BY <1>6 DEF ScanEnds
  <2>2. Heeded'
    BY <2>1, IdleIsHonest, LoopSteps
  <2>3. \A r \in Row : l.seen[r] \in Verdict \union {"none"}
    BY <1>0 DEF Loop
  <2>4. \A r \in Row : /\ shown'[r] \in Verdict \union {"none"}
                       /\ shown'[r] = "verified" =>
                            shown[r] = "verified" \/ l.seen[r] = "verified" \/ r \in admitted
    BY <1>6, <2>3 DEF ScanEnds, Display, Verdict
  <2>5. shown' \in [Row -> Verdict \union {"none"}]
    BY <1>6, <2>4 DEF ScanEnds
  <2>6. Display'
    BY <1>0, <2>4, <2>5 DEF Display, ShownIsGenuine, HonestLoop, GateTyped
  <2> QED BY <1>1, <1>2, <2>1, <2>2, <2>6, GateRests, WaitingRests DEF gate, Attempted
<1> QED BY <1>3, <1>4, <1>5, <1>6 DEF Loops

LEMMA InitHolds == Init => GateInv
<1> SUFFICES ASSUME Init PROVE GateInv
  OBVIOUS
<1>1. Cardinality({}) = 0
  BY FS_EmptySet
<1>2. GateTyped /\ Waiting
  <2>1. \A a \in Author : ParkedOn(a) = {}
    BY DEF Init, ParkedOn
  <2> QED BY <1>1, <2>1, GateAssumption DEF Init, GateTyped, Waiting
<1>3. GateSafe
  BY DEF Init, GateSafe, CausalOrder, NobodyWaitsInVain, OnlyDoomedEnds
<1>4. World
  BY GateAssumption DEF Init, World
<1>5. Attempted /\ Display
  BY DEF Init, Attempted, Stage, Display, ShownIsGenuine, Verdict
<1>6. Heeded
  BY IdleIsHonest DEF Init, Heeded, HonestLoop
<1> QED BY <1>2, <1>3, <1>4, <1>5, <1>6 DEF GateInv

LEMMA NextHolds == GateInv /\ [Next]_vars => GateInv'
<1> SUFFICES ASSUME GateInv, [Next]_vars PROVE GateInv'
  OBVIOUS
<1>1. CASE Next
  BY <1>1, AttemptsKeep, ArrivalsKeep, LoopsKeep DEF Next
<1>2. CASE UNCHANGED vars
  <2>1. UNCHANGED <<unreadable, delivered, cards, keys, gate, attempt, page>>
    BY <1>2 DEF vars
  <2>2. Attempted' /\ Heeded'
    BY <2>1 DEF GateInv, Attempted, Heeded, page
  <2> QED BY <2>1, <2>2, GateRests, WaitingRests, WorldRests, DisplayRests DEF GateInv, gate, page
<1> QED BY <1>1, <1>2

\* The variables of the gate and of the page keep their types: the queues of
\* parked rows never exceed their bounds (parkPending, admitOnce).
THEOREM GateTypeCorrect == Spec => []TypeOK
BY InitHolds, NextHolds, InvImplies, PTL DEF Spec

\* No row is placed before all it refers to is in, however attempts interleave
\* and however far a cascade runs (admitRefs, drainUnblocked).
THEOREM PlacedInOrder == Spec => []CausalOrder
BY InitHolds, NextHolds, InvImplies, PTL DEF Spec

\* A parked row misses something that may still come: the cascades leave none
\* behind, for references of any shape (drainUnblocked, markTerminal).
THEOREM NoVainWaiting == Spec => []NobodyWaitsInVain
BY InitHolds, NextHolds, InvImplies, PTL DEF Spec

\* Only what a sender broke, or what builds on it, is given up for good.
THEOREM OnlyDoomedGivenUp == Spec => []OnlyDoomedEnds
BY InitHolds, NextHolds, InvImplies, PTL DEF Spec

\* What the page shows as verified was verified as it is shown.
THEOREM OnlyGenuineShown == Spec => []ShownIsGenuine
BY InitHolds, NextHolds, InvImplies, PTL DEF Spec
=============================================================================
