----------------------------- MODULE Handshake -----------------------------
(***************************************************************************)
(* The optical handshake of two phones (src/lib/handshake/engine.ts,       *)
(* packages/pq-client/src/handshake.ts) with the component that runs one   *)
(* engine per session and owns camera and screen (QRScannerEngine.vue).    *)
(*                                                                         *)
(* A session is a phone and the number of its start: its nonce, its        *)
(* connection and the fingerprint of that connection are its own, so the   *)
(* session stands for all three. A transcript T is the pair of two         *)
(* sessions; a signature over it verifies for that pair alone. A camera    *)
(* may read any code that was ever drawn on the other phone, of an earlier *)
(* session too. Time is what the deadlines may do at any moment; the three *)
(* seconds a finished engine keeps its channel open are taken to be enough *)
(* for a message that was sent to arrive.                                  *)
(***************************************************************************)
EXTENDS Naturals, FiniteSets

CONSTANTS
    Phone,
    MaxStarts,       \* Phone -> how often its user starts a session
    SIGN_ATTEMPTS,
    Trouble,         \* Phone -> which of "sign", "address", "feed", "confirm", "card" may fail
    NoSession,
    NoCode

ASSUME HandshakeAssumption ==
    /\ MaxStarts \in [Phone -> Nat]
    /\ SIGN_ATTEMPTS \in Nat \ {0}
    /\ NoSession \notin Phone \X Nat

VARIABLES
    starts,     \* Phone -> starts so far; the last one is the session counter
    current,    \* Phone -> the session the component runs or last ran, 0: none
    starting,   \* Phone -> starts that wait for the camera
    scanning,   \* Phone -> the scanner is shown
    camera,     \* Phone -> the camera runs
    screen,     \* Phone -> the code that is drawn
    codes,      \* all codes that were ever drawn
    engine      \* Session -> its engine

vars == <<starts, current, starting, scanning, camera, screen, codes, engine>>

Session == UNION {{p} \X (1 .. MaxStarts[p]) : p \in Phone}
\* B and C carry a signature of from over the transcript with its peer, D the tag
\* of that transcript, C and D the payload of from.
Code == [kind : {"A", "B", "C", "D"}, from : Session, with : Session \union {NoSession}]

\* What a message that was read waits for: A and B for the signature, B and C for
\* the own payload, the rest for the connection and for the own confirmation.
Awaits == {"nothing", "A", "B", "C", "feed", "confirmation"}
Outcome == {"none", "expired", "failed", "verified", "confirmed"}
Engine ==
    [stage : {"idle", "A", "B", "C", "D", "done"},
     ended : BOOLEAN,
     peer : Session \union {NoSession},
     proved : BOOLEAN,                \* opticallyVerified was reached
     handling : Awaits,               \* busy unless "nothing"
     signed : BOOLEAN,
     signFailures : 0 .. SIGN_ATTEMPTS,
     payload : {"none", "asked", "known"},
     fed : BOOLEAN,                   \* peerPayload and bound are known
     message : {"none", "confirm", "refusal"},
     link : BOOLEAN,                  \* the data channel is open
     sent : BOOLEAN,                  \* exchange ran
     inbox : {"none", "confirm", "refusal"},
     deadline : {"none", "session", "channel", "confirm"},
     closed : BOOLEAN,
     outcome : Outcome]

Fresh == [stage |-> "idle", ended |-> FALSE, peer |-> NoSession, proved |-> FALSE,
          handling |-> "nothing", signed |-> FALSE, signFailures |-> 0,
          payload |-> "none", fed |-> FALSE, message |-> "none", link |-> FALSE,
          sent |-> FALSE, inbox |-> "none", deadline |-> "none", closed |-> FALSE,
          outcome |-> "none"]

TypeOK ==
    /\ starts \in [Phone -> Nat] /\ \A p \in Phone : starts[p] <= MaxStarts[p]
    /\ current \in [Phone -> Nat] /\ \A p \in Phone : current[p] <= starts[p]
    /\ starting \in [Phone -> SUBSET Nat]
    /\ scanning \in [Phone -> BOOLEAN]
    /\ camera \in [Phone -> BOOLEAN]
    /\ screen \in [Phone -> Code \union {NoCode}]
    /\ codes \subseteq Code
    /\ engine \in [Session -> Engine]

Init ==
    /\ starts = [p \in Phone |-> 0]
    /\ current = [p \in Phone |-> 0]
    /\ starting = [p \in Phone |-> {}]
    /\ scanning = [p \in Phone |-> FALSE]
    /\ camera = [p \in Phone |-> FALSE]
    /\ screen = [p \in Phone |-> NoCode]
    /\ codes = {}
    /\ engine = [s \in Session |-> Fresh]

-----------------------------------------------------------------------------
(* What an engine does at once, and what the component makes of it *)

\* finish: the connection closes now, unless a channel is open.
Finished(e, outcome) ==
    IF e.ended THEN e
    ELSE [e EXCEPT !.stage = "done", !.ended = TRUE, !.deadline = "none",
                   !.closed = ~e.link, !.outcome = outcome]

\* Mutant: whatever message comes first counts as the confirmation.
RefusalConfirms(s, e, valid) ==
    LET t == e.peer IN
    IF e.inbox # "none" /\ valid /\ engine[t].peer = s /\ engine[t].fed
    THEN Finished(e, "confirmed") ELSE Finished(e, "verified")

\* checkConfirm: the card and the signature vouch for this session and channel.
Checked(s, e, valid) ==
    LET t == e.peer IN
    IF /\ e.inbox = "confirm" /\ valid
       /\ engine[t].peer = s /\ engine[t].fed
    THEN Finished(e, "confirmed") ELSE Finished(e, "verified")

\* Mutant: an early message ends the exchange before the own one is sent.
EarlyMessageSilences(s, e, valid) ==
    LET open == [e EXCEPT !.deadline = "confirm"] IN
    IF e.inbox = "none" THEN [open EXCEPT !.sent = TRUE] ELSE Checked(s, open, valid)

\* exchange: an early message is handled first, ours goes out all the same.
Exchanged(s, e, valid) ==
    LET open == [e EXCEPT !.deadline = "confirm", !.sent = TRUE] IN
    IF e.inbox = "none" THEN open ELSE Checked(s, open, valid)

CodeOf(s, e) == [kind |-> e.stage, from |-> s,
                 with |-> IF e.stage = "A" THEN NoSession ELSE e.peer]

\* onShow, onReadingDone and onDone, heeded for the current session only.
Becomes(s, e) ==
    LET p == s[1]
        mine == current[p] = s[2]
        done == e.outcome # engine[s].outcome
        shows == ~done /\ e.stage # engine[s].stage
    IN
    /\ engine' = [engine EXCEPT ![s] = e]
    /\ camera' = [camera EXCEPT ![p] = @ /\ ~(mine /\ (done \/ (e.fed /\ ~engine[s].fed)))]
    /\ scanning' = [scanning EXCEPT ![p] = @ /\ ~(mine /\ done)]
    /\ screen' = IF mine /\ shows THEN [screen EXCEPT ![p] = CodeOf(s, e)]
                 ELSE IF mine /\ done /\ e.outcome \in {"expired", "failed"}
                 THEN [screen EXCEPT ![p] = NoCode] ELSE screen
    /\ codes' = IF mine /\ shows THEN codes \union {CodeOf(s, e)} ELSE codes
    /\ UNCHANGED <<starts, current, starting>>

-----------------------------------------------------------------------------
(* The user, the component and its camera *)

\* startSession, up to the camera.
Start(p) ==
    LET n == starts[p] + 1 IN
    /\ ~scanning[p]
    /\ starts[p] < MaxStarts[p]
    /\ starts' = [starts EXCEPT ![p] = n]
    /\ current' = [current EXCEPT ![p] = n]
    /\ starting' = [starting EXCEPT ![p] = @ \union {n}]
    /\ scanning' = [scanning EXCEPT ![p] = TRUE]
    /\ screen' = [screen EXCEPT ![p] = NoCode]
    /\ UNCHANGED <<camera, codes, engine>>

\* Mutant: a start that was replaced turns the camera off, as one that was stopped does.
StaleStartStops(p, n) ==
    LET s == <<p, n>>
        e == [Fresh EXCEPT !.stage = "A", !.deadline = "session"]
    IN
    /\ n \in starting[p]
    /\ starting' = [starting EXCEPT ![p] = @ \ {n}]
    /\ camera' = [camera EXCEPT ![p] = n = current[p]]
    /\ IF n = current[p]
       THEN /\ engine' = [engine EXCEPT ![s] = e]
            /\ screen' = [screen EXCEPT ![p] = CodeOf(s, e)]
            /\ codes' = codes \union {CodeOf(s, e)}
       ELSE UNCHANGED <<engine, screen, codes>>
    /\ UNCHANGED <<starts, current, scanning>>

\* The camera is on: for the current session, which begins; for one that was
\* stopped meanwhile, and then it goes off; or for one that was replaced.
CameraStarts(p, n) ==
    LET s == <<p, n>>
        e == [Fresh EXCEPT !.stage = "A", !.deadline = "session"]
    IN
    /\ n \in starting[p]
    /\ starting' = [starting EXCEPT ![p] = @ \ {n}]
    /\ camera' = [camera EXCEPT ![p] = n = current[p] \/ scanning[p]]
    /\ IF n = current[p]
       THEN /\ engine' = [engine EXCEPT ![s] = e]
            /\ screen' = [screen EXCEPT ![p] = CodeOf(s, e)]
            /\ codes' = codes \union {CodeOf(s, e)}
       ELSE UNCHANGED <<engine, screen, codes>>
    /\ UNCHANGED <<starts, current, scanning>>

CameraFails(p, n) ==
    /\ n \in starting[p]
    /\ starting' = [starting EXCEPT ![p] = @ \ {n}]
    /\ scanning' = [scanning EXCEPT ![p] = @ /\ n # current[p]]
    /\ UNCHANGED <<starts, current, camera, screen, codes, engine>>

\* stopScan: the engine ends with no outcome, its connection closes.
Stop(p) ==
    LET s == <<p, current[p]>> IN
    /\ scanning[p]
    /\ current' = [current EXCEPT ![p] = 0]
    /\ scanning' = [scanning EXCEPT ![p] = FALSE]
    /\ camera' = [camera EXCEPT ![p] = FALSE]
    /\ screen' = [screen EXCEPT ![p] = NoCode]
    /\ engine' = IF s \in Session /\ engine[s].stage # "idle"
                 THEN [engine EXCEPT ![s].ended = TRUE, ![s].closed = TRUE,
                                     ![s].deadline = "none"]
                 ELSE engine
    /\ UNCHANGED <<starts, starting, codes>>

-----------------------------------------------------------------------------
(* Reading a code *)

\* The engine takes a code: it runs, is not busy, and the code is not its own nor
\* from a session other than the one it is bound to.
Takes(s, c) ==
    LET e == engine[s] IN
    /\ current[s[1]] = s[2] /\ camera[s[1]]
    /\ e.stage # "idle" /\ ~e.ended /\ e.handling = "nothing"
    /\ c.from[1] # s[1]
    /\ c.kind \in {"A", "B"} => e.peer \in {NoSession, c.from}

\* Mutant: a signature is checked against its sender alone, not against this transcript.
AnyTranscript(s, c) == engine[s].peer \in {NoSession, c.from}

\* verifyOptical, and the comparison of a tag: the same transcript.
SameTranscript(s, c) == c.with = s /\ engine[s].peer \in {NoSession, c.from}

\* A binds before anything is proved.
ReadA(s, c) ==
    /\ Takes(s, c)
    /\ c.kind = "A" /\ engine[s].stage = "A"
    /\ Becomes(s, [engine[s] EXCEPT !.peer = c.from, !.handling = "A"])

\* B binds only with its proof.
ReadB(s, c) ==
    /\ Takes(s, c)
    /\ c.kind = "B" /\ engine[s].stage \in {"A", "B"}
    /\ SameTranscript(s, c)
    /\ Becomes(s, [engine[s] EXCEPT !.peer = c.from, !.proved = TRUE, !.handling = "B",
                                    !.payload = IF @ = "known" THEN @ ELSE "asked"])

ReadC(s, c) ==
    LET e == engine[s] IN
    /\ Takes(s, c)
    /\ c.kind = "C" /\ e.stage \in {"B", "C"} /\ ~e.fed
    /\ c.from = e.peer /\ SameTranscript(s, c)
    /\ IF e.stage = "B"
       THEN Becomes(s, [e EXCEPT !.proved = TRUE, !.handling = "C",
                                 !.payload = IF @ = "known" THEN @ ELSE "asked"])
       ELSE Becomes(s, [e EXCEPT !.handling = "feed"])

ReadD(s, c) ==
    LET e == engine[s] IN
    /\ Takes(s, c)
    /\ c.kind = "D" /\ e.stage = "C" /\ ~e.fed
    /\ c.from = e.peer /\ SameTranscript(s, c)
    /\ Becomes(s, [e EXCEPT !.handling = "feed"])

Read(s, c) == ReadA(s, c) \/ ReadB(s, c) \/ ReadC(s, c) \/ ReadD(s, c)

-----------------------------------------------------------------------------
(* What was awaited *)

\* Mutant: the count of failed signatures is compared one too late.
GivesUpLate(s) ==
    LET e == engine[s]
        n == e.signFailures + 1
        failed == [e EXCEPT !.signFailures = n, !.handling = "nothing"]
    IN
    /\ "sign" \in Trouble[s[1]]
    /\ e.handling \in {"A", "B"} /\ ~e.signed
    /\ Becomes(s, IF n > SIGN_ATTEMPTS THEN Finished(failed, "failed") ELSE failed)

SignFails(s) ==
    LET e == engine[s]
        n == e.signFailures + 1
        failed == [e EXCEPT !.signFailures = n, !.handling = "nothing"]
    IN
    /\ "sign" \in Trouble[s[1]]
    /\ e.handling \in {"A", "B"} /\ ~e.signed
    /\ Becomes(s, IF n >= SIGN_ATTEMPTS THEN Finished(failed, "failed") ELSE failed)

\* The connection has no address to offer: nothing follows the optical proof.
NoAddress(s) ==
    LET e == engine[s] IN
    /\ "address" \in Trouble[s[1]] \/ e.closed
    /\ e.payload = "asked"
    /\ Becomes(s, Finished([e EXCEPT !.payload = "none", !.handling = "nothing"], "verified"))

\* The own signature is there, and kept; a session that ended shows nothing more.
Shows(s, kind, next) ==
    LET e == engine[s]
        signed == [e EXCEPT !.signed = TRUE, !.signFailures = 0, !.handling = "nothing",
                            !.payload = IF kind = "B" THEN "known" ELSE @]
    IN
    /\ e.handling = kind
    /\ kind = "B" => e.payload # "none"
    /\ Becomes(s, IF e.ended THEN signed ELSE [signed EXCEPT !.stage = next])

OwnPayload(s) ==
    LET e == engine[s] IN
    /\ e.handling = "C" /\ e.payload # "none"
    /\ Becomes(s, [e EXCEPT !.payload = "known",
                            !.handling = IF e.ended THEN "nothing" ELSE "feed"])

FeedFails(s) ==
    LET e == engine[s] IN
    /\ "feed" \in Trouble[s[1]] \/ e.closed
    /\ e.handling = "feed" /\ ~e.link
    /\ Becomes(s, [e EXCEPT !.handling = "nothing"])

\* Both payloads are known: the answer is shown where one is due, the digits are
\* fixed and the window of the channel opens.
Feeds(s) ==
    LET e == engine[s] IN
    /\ e.handling = "feed"
    /\ Becomes(s, IF e.ended THEN [e EXCEPT !.handling = "nothing"]
                  ELSE [e EXCEPT !.fed = TRUE, !.handling = "confirmation",
                                 !.stage = IF @ = "B" THEN "D" ELSE @,
                                 !.deadline = IF e.link THEN @ ELSE "channel"])

\* ownConfirmation: the card and the signature over M, or a refusal.
Confirms(s) ==
    LET e == engine[s] IN
    /\ e.handling = "confirmation"
    /\ \E message \in {"confirm"} \union (IF "confirm" \in Trouble[s[1]] THEN {"refusal"} ELSE {}),
          valid \in BOOLEAN :
          LET ready == [e EXCEPT !.handling = "nothing", !.message = message] IN
          /\ valid \/ "card" \in Trouble[s[1]]
          /\ Becomes(s, IF ~e.ended /\ e.link THEN Exchanged(s, ready, valid) ELSE ready)

-----------------------------------------------------------------------------
(* The channel and the deadlines *)

\* DTLS joins two connections that were given each other's fingerprint.
Offered(s) == engine[s].fed \/ engine[s].handling = "feed"
Joined(s) ==
    LET t == engine[s].peer IN
    /\ t # NoSession /\ engine[t].peer = s
    /\ Offered(s) /\ Offered(t)
    /\ ~engine[s].closed /\ ~engine[t].closed

ChannelOpens(s) ==
    LET e == engine[s]
        open == [e EXCEPT !.link = TRUE]
    IN
    /\ Joined(s) /\ ~e.ended /\ ~e.link
    /\ \E valid \in BOOLEAN :
          /\ valid \/ "card" \in Trouble[s[1]]
          /\ Becomes(s, IF e.message # "none" THEN Exchanged(s, open, valid)
                        ELSE IF e.fed THEN [open EXCEPT !.deadline = "confirm"] ELSE open)

\* The message of the peer: kept while nobody listens, checked otherwise.
Arrives(s) ==
    LET e == engine[s]
        heard == [e EXCEPT !.inbox = engine[e.peer].message]
    IN
    /\ e.link /\ ~e.closed /\ e.inbox = "none"
    /\ engine[e.peer].sent /\ ~engine[e.peer].closed
    /\ \E valid \in BOOLEAN :
          /\ valid \/ "card" \in Trouble[s[1]]
          /\ Becomes(s, IF e.sent /\ ~e.ended THEN Checked(s, heard, valid) ELSE heard)

Timeout(s) ==
    LET e == engine[s] IN
    /\ e.deadline # "none"
    /\ Becomes(s, Finished(e, IF e.deadline = "session" THEN "expired" ELSE "verified"))

-----------------------------------------------------------------------------
Awaited(s) ==
    \/ SignFails(s) \/ NoAddress(s) \/ Shows(s, "A", "B") \/ Shows(s, "B", "C")
    \/ OwnPayload(s) \/ FeedFails(s) \/ Feeds(s) \/ Confirms(s)
    \/ ChannelOpens(s) \/ Arrives(s)

Next ==
    \/ \E p \in Phone :
          \/ Start(p) \/ Stop(p)
          \/ \E n \in starting[p] : CameraStarts(p, n) \/ CameraFails(p, n)
    \/ \E s \in Session :
          \/ Awaited(s) \/ Timeout(s)
          \/ \E c \in codes : Read(s, c)

Spec == Init /\ [][Next]_vars

\* A phone that is held up reads what the other one shows; what was awaited comes,
\* and a payload that is read again and again is taken in the end. Nobody has to
\* start, to stop or to run out of time.
FairSpec ==
    /\ Spec
    /\ \A s \in Session :
          /\ WF_vars(Awaited(s))
          /\ SF_vars(Feeds(s))
          /\ \A p \in Phone \ {s[1]} : WF_vars(screen[p] \in codes /\ Read(s, screen[p]))

-----------------------------------------------------------------------------
(* Properties *)

\* A session that ends with its peer's key proved, or confirmed, was answered by
\* that peer: it is bound to this very session and it signed their transcript. A
\* code of an earlier session proves nothing (handle, verifyOptical).
ProvenInPerson ==
    \A s \in Session :
        engine[s].outcome \in {"verified", "confirmed"} =>
            LET t == engine[s].peer IN
            t # NoSession /\ engine[t].peer = s /\ engine[t].signed

\* Who is confirmed confirmed itself in the same session over the same two
\* fingerprints, hence with the same six digits; a refusal confirms nobody, and the
\* own message has gone out whatever came first (exchange, checkConfirm).
Agreement ==
    \A s \in Session :
        engine[s].outcome = "confirmed" =>
            LET t == engine[s].peer IN
            /\ engine[s].fed /\ engine[s].sent
            /\ engine[t].peer = s /\ engine[t].fed
            /\ engine[t].sent /\ engine[t].message = "confirm"

Runs(s) == engine[s].stage # "idle" /\ ~engine[s].ended

\* What an older session, or an older start, still had under way neither draws over
\* the running session nor stops its camera (QRScannerEngine.vue, the session id).
CurrentUndisturbed ==
    \A s \in Session :
        Runs(s) =>
            /\ current[s[1]] = s[2] /\ scanning[s[1]]
            /\ screen[s[1]] = CodeOf(s, engine[s])
            /\ engine[s].fed \/ camera[s[1]]

\* Two sessions of which one is bound to the other and the other to nobody else
\* confirm each other, in whatever order the codes are read, the channel opens and
\* the two messages cross, unless one is stopped, runs out of time or cannot go on.
Meeting(s, t) ==
    /\ Runs(s) /\ Runs(t)
    /\ engine[s].peer = t /\ engine[t].peer \in {NoSession, s}
Confirmed(s) == engine[s].outcome = "confirmed"
GaveUp(s) == engine[s].ended /\ ~Confirmed(s)
Meet ==
    \A s \in Session : \A t \in {u \in Session : u[1] # s[1]} :
        Meeting(s, t) ~> \/ Confirmed(s) /\ Confirmed(t)
                         \/ GaveUp(s) \/ GaveUp(t)
                         \/ engine[t].peer \notin {NoSession, s}
=============================================================================
