----------------------------- MODULE DialogGate -----------------------------
(***************************************************************************)
(* The verification gate between the replicated rows of one dialog and     *)
(* what is trusted as its conversation (src/lib/data/dialogGate.ts,        *)
(* packages/pq-client/src/dialogDag.ts), with the two loops of the chat    *)
(* page that feed it (Page_Chat.vue).                                      *)
(*                                                                         *)
(* A row is one presentation of a revision: two rows may name the same     *)
(* revision and differ in what they show, and the shape holds one of them. *)
(* A later edit or deletion of a message is a revision like any other.     *)
(* An admission awaits the author's card and then the refs map; between    *)
(* those awaits anything else runs. What runs without an await (judging,   *)
(* draining, rejecting dependents) is one step. The order of a queue only  *)
(* decides which row a full queue drops: here any row but the newest.      *)
(***************************************************************************)
EXTENDS Naturals, FiniteSetsExt

CONSTANTS
    Row,              \* presentations, numbered by owner_timestamp
    Rev,              \* revisionKey(message_id, sign_hash)
    Author,
    Me,               \* whose card and key are here from the start
    KeyOf,            \* Row -> Rev
    AuthorOf,         \* Row -> Author
    Refs,             \* Row -> SUBSET Rev: the decrypted refs map
    Genuine,          \* rows whose signature verifies against the card
    Breakable,        \* genuine rows a sender bug may have broken
    maxPending,
    maxAwaitingCard,
    Caller,           \* loops of the page that may run side by side
    NoRow

\* A signature covers what a row shows, and a sign_hash names one signature.
ASSUME GateAssumption ==
    /\ Row \subseteq Nat /\ IsFiniteSet(Row) /\ NoRow \notin Row /\ Me \in Author
    /\ KeyOf \in [Row -> Rev] /\ AuthorOf \in [Row -> Author]
    /\ Refs \in [Row -> SUBSET Rev]
    /\ Genuine \subseteq Row /\ Breakable \subseteq Genuine
    /\ \A r, s \in Genuine : KeyOf[r] = KeyOf[s] => r = s
    /\ maxPending \in Nat \ {0} /\ maxAwaitingCard \in Nat \ {0}

VARIABLES
    unreadable,    \* rows whose refs blob does not decrypt; never changes
    delivered,     \* rows the shapes hold
    cards,         \* authors whose card is here and verifies
    keys,          \* authors whose message key is here
    admitted,      \* rows that are in
    placed,        \* those admitted with dagVerified
    terminal,      \* revisions that can never be admitted
    pending,       \* rows parked on missing references
    awaitingCard,  \* rows parked on their author's card
    attempt,       \* Row -> the admission in flight (inFlight)
    caller,        \* Caller -> where a loop is
    tick,          \* user_cards changed, the watcher has not run yet
    timer,         \* scheduleDecrypt is set
    shown          \* Row -> its entry in messageCache

gate == <<admitted, placed, terminal, pending, awaitingCard>>
page == <<caller, tick, timer, shown>>
vars == <<unreadable, delivered, cards, keys, gate, attempt, page>>

Verdict == {"verified", "waiting", "blocked", "invalid"}
Stage == {"none", "resolving", "cardless", "decrypting", "keyless"}
\* on: the row whose verdict is awaited; seen: the entries collected so far.
Loop == [kind : {"idle", "scan", "retry"}, authors : SUBSET Author,
         todo : SUBSET Row, on : Row \union {NoRow},
         seen : [Row -> Verdict \union {"none"}]]
Idle == [kind |-> "idle", authors |-> {}, todo |-> {}, on |-> NoRow,
         seen |-> [r \in Row |-> "none"]]
\* The loop has the verdict on row r; a pass collects it for the page.
Heard(l, r, verdict) ==
    [l EXCEPT !.on = NoRow, !.todo = @ \ {r},
              !.seen[r] = IF l.kind = "scan" THEN verdict ELSE @]

Presentations(r) == {q \in Row : KeyOf[q] = KeyOf[r]}
ParkedOn(a) == {r \in awaitingCard : AuthorOf[r] = a}

TypeOK ==
    /\ unreadable \subseteq Breakable
    /\ delivered \subseteq Row
    /\ cards \subseteq Author
    /\ keys \subseteq Author
    /\ placed \subseteq admitted /\ admitted \subseteq Row
    /\ terminal \subseteq Rev
    /\ pending \subseteq Row /\ Cardinality(pending) <= maxPending
    /\ awaitingCard \subseteq Row
    /\ \A a \in Author : Cardinality(ParkedOn(a)) <= maxAwaitingCard
    /\ attempt \in [Row -> Stage]
    /\ caller \in [Caller -> Loop]
    /\ tick \in BOOLEAN /\ timer \in BOOLEAN
    /\ shown \in [Row -> Verdict \union {"none"}]

\* The page opens with its own rows, card and key, and its timer set.
Init ==
    /\ unreadable \in SUBSET Breakable
    /\ delivered = {r \in Genuine : AuthorOf[r] = Me}
    /\ cards = {Me} /\ keys = {Me}
    /\ admitted = {} /\ placed = {} /\ terminal = {}
    /\ pending = {} /\ awaitingCard = {}
    /\ attempt = [r \in Row |-> "none"]
    /\ caller = [c \in Caller |-> Idle]
    /\ tick = FALSE /\ timer = TRUE
    /\ shown = [r \in Row |-> "none"]

-----------------------------------------------------------------------------
(* Judging a row, and what follows from it without an await *)

KeysOf(rows) == {KeyOf[r] : r \in rows}
AdmittedRevs == KeysOf(admitted)
\* Its refs map can never be used (refs_decrypt_failed, self_reference).
Faulty(r) == r \in unreadable \/ KeyOf[r] \in Refs[r]
\* A dependency that can never be admitted; one that may still come.
Hopeless(r) == (Refs[r] \intersect terminal) \ AdmittedRevs
\* Mutant: what stands in a queue counts as present.
MissingUnlessParked(r) == Refs[r] \ KeysOf(admitted \union pending \union awaitingCard)
Missing(r) == Refs[r] \ AdmittedRevs

\* Row q cites one of the revisions k and those of S; it has nothing else to wait
\* for.
Cites(q, k, S) == Refs[q] \intersect ({k} \union KeysOf(S)) # {}
Follows(q, k, S) == /\ Cites(q, k, S)
                    /\ Refs[q] \subseteq AdmittedRevs \union {k} \union KeysOf(S)

\* drainUnblocked: the least set of parked rows that follow revision k in.
Drained(k) ==
    LET closed(S) == \A q \in pending : Follows(q, k, S) => q \in S
    IN  {r \in pending : \A S \in SUBSET pending : closed(S) => r \in S}

\* Mutant: a row that is given up does not end those that wait for it.
NoDependents(k) == {}

\* markTerminal: the least set of parked rows that cite k, or one that does.
Dependents(k) ==
    LET closed(S) == \A q \in pending : Cites(q, k, S) => q \in S
    IN  {r \in pending : \A S \in SUBSET pending : closed(S) => r \in S}

\* finishVerified, then the rows that waited for this one.
Admit(r, dagVerified) ==
    LET drained == Drained(KeyOf[r]) IN
    /\ admitted' = admitted \union {r} \union drained
    /\ placed' = placed \union (drained \ {r})
                   \union IF dagVerified /\ r \notin admitted THEN {r} ELSE {}
    /\ pending' = pending \ drained
    /\ UNCHANGED <<terminal, awaitingCard>>

\* finishInvalid with a definitive reason, or finishBlocked.
Reject(r) ==
    LET k == KeyOf[r] IN
    IF k \in terminal \union AdmittedRevs
    THEN UNCHANGED gate
    ELSE /\ terminal' = terminal \union {k} \union KeysOf(Dependents(k))
         /\ pending' = pending \ Dependents(k)
         /\ UNCHANGED <<admitted, placed, awaitingCard>>

\* parkPending: a full queue drops its oldest row.
ParkPending(r) ==
    /\ \E dropped \in SUBSET (pending \ {r}) :
          /\ Cardinality(dropped) = IF Cardinality(pending \union {r}) > maxPending
                                    THEN 1 ELSE 0
          /\ pending' = (pending \union {r}) \ dropped
    /\ UNCHANGED <<admitted, placed, terminal, awaitingCard>>

\* The attempt is over: every loop that awaits it has its verdict.
Answer(r, verdict) ==
    /\ attempt' = [attempt EXCEPT ![r] = "none"]
    /\ caller' = [c \in Caller |->
                     IF caller[c].on = r THEN Heard(caller[c], r, verdict)
                     ELSE caller[c]]
    /\ UNCHANGED <<unreadable, delivered, cards, keys, tick, timer, shown>>

-----------------------------------------------------------------------------
(* admitOnce, between its awaits *)

\* The resolver reads the card; its answer is used after another await.
ResolveCard(r) ==
    /\ attempt[r] = "resolving"
    /\ AuthorOf[r] \in cards => r \in Genuine
    /\ attempt' = [attempt EXCEPT ![r] = IF AuthorOf[r] \in cards
                                         THEN "decrypting" ELSE "cardless"]
    /\ UNCHANGED <<unreadable, delivered, cards, keys, gate, page>>

\* Mutant: a bad signature ends its revision.
BadSignatureEnds(r) ==
    /\ attempt[r] = "resolving"
    /\ AuthorOf[r] \in cards /\ r \notin Genuine
    /\ Answer(r, "invalid")
    /\ Reject(r)

\* The signature does not hold: invalid, but not for good, since the genuine
\* row of this revision may still come.
BadSignature(r) ==
    /\ attempt[r] = "resolving"
    /\ AuthorOf[r] \in cards /\ r \notin Genuine
    /\ Answer(r, "invalid")
    /\ UNCHANGED gate

\* Mutant: the queue of an author is not bounded.
AwaitCardUnbounded(r) ==
    /\ attempt[r] = "cardless"
    /\ awaitingCard' = awaitingCard \union {r}
    /\ Answer(r, "waiting")
    /\ UNCHANGED <<admitted, placed, terminal, pending>>

AwaitCard(r) ==
    /\ attempt[r] = "cardless"
    /\ \E dropped \in SUBSET (ParkedOn(AuthorOf[r]) \ {r}) :
          /\ Cardinality(dropped) =
                IF Cardinality(ParkedOn(AuthorOf[r]) \union {r}) > maxAwaitingCard
                THEN 1 ELSE 0
          /\ awaitingCard' = (awaitingCard \union {r}) \ dropped
    /\ Answer(r, "waiting")
    /\ UNCHANGED <<admitted, placed, terminal, pending>>

NoKey(r) ==
    /\ attempt[r] = "decrypting"
    /\ AuthorOf[r] \notin keys
    /\ attempt' = [attempt EXCEPT ![r] = "keyless"]
    /\ UNCHANGED <<unreadable, delivered, cards, keys, gate, page>>

\* Trusted enough to render, not to order.
AdmitUnplaced(r) ==
    /\ attempt[r] = "keyless"
    /\ Admit(r, FALSE)
    /\ Answer(r, "verified")

\* The refs map is readable: admitRefs judges against what is in by now.
Judge(r) ==
    /\ attempt[r] = "decrypting"
    /\ AuthorOf[r] \in keys
    /\ \/ Faulty(r) /\ Reject(r) /\ Answer(r, "invalid")
       \/ /\ ~Faulty(r)
          /\ \/ Hopeless(r) # {} /\ Reject(r) /\ Answer(r, "blocked")
             \/ /\ Hopeless(r) = {} /\ Missing(r) # {}
                /\ ParkPending(r) /\ Answer(r, "waiting")
             \/ Missing(r) = {} /\ Admit(r, TRUE) /\ Answer(r, "verified")

Attempt(r) == \/ ResolveCard(r) \/ BadSignature(r) \/ AwaitCard(r)
              \/ NoKey(r) \/ AdmitUnplaced(r) \/ Judge(r)

-----------------------------------------------------------------------------
(* The loops of the page *)

\* A tick of the message or the key collection.
Deliver(r) ==
    /\ r \notin delivered
    /\ delivered' = (delivered \ Presentations(r)) \union {r}
    /\ timer' = TRUE
    /\ UNCHANGED <<unreadable, cards, keys, gate, attempt, caller, tick, shown>>

KeyArrives(a) ==
    /\ a \notin keys
    /\ keys' = keys \union {a}
    /\ timer' = TRUE
    /\ UNCHANGED <<unreadable, delivered, cards, gate, attempt, caller, tick, shown>>

CardArrives(a) ==
    /\ a \notin cards
    /\ cards' = cards \union {a}
    /\ tick' = TRUE
    /\ UNCHANGED <<unreadable, delivered, keys, gate, attempt, caller, timer, shown>>

\* A tick of user_cards: retryAwaitingCards.
Retry(c) ==
    /\ tick
    /\ caller[c].kind = "idle"
    /\ tick' = FALSE
    /\ caller' = [caller EXCEPT ![c] =
           [Idle EXCEPT !.kind = "retry",
                        !.authors = {AuthorOf[r] : r \in awaitingCard}]]
    /\ UNCHANGED <<unreadable, delivered, cards, keys, gate, attempt, timer, shown>>

\* onCardVerified takes the whole queue of an author out, then admits it.
RetryAuthor(c, a) ==
    /\ caller[c].kind = "retry" /\ caller[c].todo = {} /\ caller[c].on = NoRow
    /\ a \in caller[c].authors
    /\ caller' = [caller EXCEPT ![c].authors = @ \ {a}, ![c].todo = ParkedOn(a)]
    /\ awaitingCard' = awaitingCard \ ParkedOn(a)
    /\ UNCHANGED <<unreadable, delivered, cards, keys, admitted, placed, terminal, pending,
                   attempt, tick, timer, shown>>

\* The loop is through: the decrypt pass is scheduled.
RetryEnds(c) ==
    /\ caller[c].kind = "retry"
    /\ caller[c].authors = {} /\ caller[c].todo = {} /\ caller[c].on = NoRow
    /\ caller' = [caller EXCEPT ![c] = Idle]
    /\ timer' = TRUE
    /\ UNCHANGED <<unreadable, delivered, cards, keys, gate, attempt, tick, shown>>

\* Mutant: an entry that was judged is not judged again.
ScanNew(c) ==
    /\ timer
    /\ caller[c].kind = "idle"
    /\ timer' = FALSE
    /\ caller' = [caller EXCEPT ![c] =
           [Idle EXCEPT !.kind = "scan",
                        !.todo = {r \in delivered : shown[r] = "none"}]]
    /\ UNCHANGED <<unreadable, delivered, cards, keys, gate, attempt, tick, shown>>

\* The pass takes the rows that are not shown as verified yet.
Scan(c) ==
    /\ timer
    /\ caller[c].kind = "idle"
    /\ timer' = FALSE
    /\ caller' = [caller EXCEPT ![c] =
           [Idle EXCEPT !.kind = "scan",
                        !.todo = {r \in delivered : shown[r] # "verified"}]]
    /\ UNCHANGED <<unreadable, delivered, cards, keys, gate, attempt, tick, shown>>

\* Mutant: an admitted revision answers for every presentation of it.
CallAdmitByRevision(c) ==
    LET r == Min(caller[c].todo) IN
    /\ caller[c].todo # {} /\ caller[c].on = NoRow
    /\ IF KeyOf[r] \in AdmittedRevs
       THEN /\ caller' = [caller EXCEPT ![c] = Heard(@, r, "verified")]
            /\ UNCHANGED attempt
       ELSE /\ caller' = [caller EXCEPT ![c].on = r]
            /\ attempt' = IF attempt[r] # "none" THEN attempt
                          ELSE [attempt EXCEPT ![r] = "resolving"]
    /\ UNCHANGED <<unreadable, delivered, cards, keys, gate, tick, timer, shown>>

\* admit: an admitted presentation is answered at once, an attempt in flight
\* for the same presentation is joined.
CallAdmit(c) ==
    LET r == Min(caller[c].todo) IN
    /\ caller[c].todo # {} /\ caller[c].on = NoRow
    /\ IF r \in admitted
       THEN /\ caller' = [caller EXCEPT ![c] = Heard(@, r, "verified")]
            /\ UNCHANGED attempt
       ELSE /\ caller' = [caller EXCEPT ![c].on = r]
            /\ attempt' = IF attempt[r] # "none" THEN attempt
                          ELSE [attempt EXCEPT ![r] = "resolving"]
    /\ UNCHANGED <<unreadable, delivered, cards, keys, gate, tick, timer, shown>>

\* The pass writes its entries, and brings waiting ones up to what the gate
\* decided meanwhile.
ScanEnds(c) ==
    LET judged == {r \in Row : caller[c].seen[r] # "none"}
        cache(r) == IF r \in judged THEN caller[c].seen[r]
                    ELSE IF Presentations(r) \intersect judged # {} THEN "none"
                    ELSE shown[r]
    IN
    /\ caller[c].kind = "scan" /\ caller[c].todo = {} /\ caller[c].on = NoRow
    /\ shown' = [r \in Row |->
           IF cache(r) # "waiting" THEN cache(r)
           ELSE IF KeyOf[r] \in terminal \ KeysOf({q \in Row : Faulty(q)})
           THEN "blocked"
           ELSE IF r \in admitted THEN "verified" ELSE "waiting"]
    /\ caller' = [caller EXCEPT ![c] = Idle]
    /\ UNCHANGED <<unreadable, delivered, cards, keys, gate, attempt, tick, timer>>

Resting == ~tick /\ ~timer /\ \A c \in Caller : caller[c].kind = "idle"

\* The dialog is opened again: its rows are scanned again. Without it a row may
\* stay behind: a pass joins an attempt that read the card as absent, so the row
\* is parked after the retry that the card's arrival set off.
Reopen ==
    /\ Resting
    /\ \E r \in delivered : shown[r] # "verified"
    /\ timer' = TRUE
    /\ UNCHANGED <<unreadable, delivered, cards, keys, gate, attempt, caller, tick, shown>>

Loops(c) == \/ Scan(c) \/ RetryEnds(c) \/ CallAdmit(c) \/ ScanEnds(c)
            \/ Retry(c) \/ \E a \in Author : RetryAuthor(c, a)

Next ==
    \/ \E r \in Row : Attempt(r) \/ Deliver(r)
    \/ \E a \in Author : CardArrives(a) \/ KeyArrives(a)
    \/ \E c \in Caller : Loops(c)
    \/ Reopen

Spec == Init /\ [][Next]_vars

\* A loop goes on and an attempt ends; the user comes back to a dialog that
\* still shows unverified rows. Nothing is promised of the network.
FairSpec ==
    /\ Spec
    /\ WF_vars(\E r \in Row : Attempt(r))
    /\ WF_vars(\E c \in Caller : Loops(c))
    /\ WF_vars(Reopen)

-----------------------------------------------------------------------------
(* Properties *)

\* No row is placed in the conversation before everything it refers to is in:
\* not when it is judged from refs that were decrypted earlier, and not when it
\* is drained in a cascade (admitRefs, drainUnblocked).
CausalOrder == \A r \in placed : Refs[r] \subseteq AdmittedRevs

\* A row waits only while something it cites may still come: it is drained with
\* the last of its references, and blocked with the first that cannot come,
\* although both run through the queue it stands in.
NobodyWaitsInVain == \A r \in pending : Missing(r) # {} /\ Hopeless(r) = {}

\* What a sender broke, and what was built on it.
Doomed ==
    LET closed(S) == \A r \in Genuine : Faulty(r) \/ Refs[r] \intersect S # {}
                                        => KeyOf[r] \in S
    IN  {k \in Rev : \A S \in SUBSET Rev : closed(S) => k \in S}

\* A revision is given up for good only if its sender broke it or one it builds
\* on: neither a forged presentation nor a card, a key or a reference that comes
\* late ends a revision (finishInvalid, finishBlocked, markTerminal).
OnlyDoomedEnds == terminal \subseteq Doomed

\* A row is shown as verified only if this very presentation was verified,
\* although the gate answers for its revision, attempts are shared by the loops
\* and the page corrects its entries from what the gate decided meanwhile.
ShownIsGenuine == \A r \in Row : shown[r] = "verified" => r \in Genuine

\* Once all genuine rows, cards and keys are here, each row is shown in the end,
\* in whatever order they came and whatever a full queue dropped.
AllHere == Genuine \subseteq delivered /\ cards = Author /\ keys = Author
AllShown ==
    <>[]AllHere =>
        \A r \in Genuine : KeyOf[r] \notin Doomed => <>[](shown[r] = "verified")
=============================================================================
