----------------------------- MODULE ReadAccess -----------------------------
(***************************************************************************)
(* Gated reads: the sessions that open them (src/lib/data/readSession.ts), *)
(* the shapes that wait for approval (accessGate.ts) and the streams of    *)
(* the collections (gatedStream in collections.ts, shapeLink.ts), with the *)
(* account that signs in and out and the server that grants, revokes,      *)
(* restarts, loses its cards or stops asking for tokens.                   *)
(*                                                                         *)
(* What an awaited promise resumes runs with the step that settles it, as  *)
(* microtasks do. A generation lasts from one logout to the next. Expiry   *)
(* is the server's not honouring a token any more; the client's own clock  *)
(* only makes it send none. Delays double up to a bound; how long a timer  *)
(* takes is left out.                                                      *)
(***************************************************************************)
EXTENDS Naturals, FiniteSets

CONSTANTS
    Stream, Shape, User,
    ShapeOf,          \* Stream -> Shape
    MaxEvents,        \* bounds logouts and server changes together
    MayFail,          \* requests and card writes may fail
    Starting,         \* the grants and the cards the server may start with
    NoUser, NoGen

ASSUME ReadAccessAssumption ==
    /\ ShapeOf \in [Stream -> Shape]
    /\ MaxEvents \in Nat
    /\ MayFail \in BOOLEAN
    /\ Starting \subseteq [granted : SUBSET (User \X Shape), known : SUBSET User]
    /\ NoUser \notin User /\ NoGen \notin Nat

VARIABLES
    user,         \* who is signed in
    generation,
    token,        \* Shape -> the session kept for it
    renewal,      \* the shapes with a renewal timer
    inflight,     \* Shape -> the generation of the open that others join
    opening,      \* <<Shape, generation>> -> the open under way
    ended,        \* User -> how its card recovery ended for good
    recovering,   \* <<User, generation>> whose card is being passed
    blocked,      \* the shapes that wait for approval
    timer,        \* the blocked shapes with a probe timer
    probes,       \* Shape -> the probes of its entry that wait for an open
    waiters,      \* Shape -> the streams its entry will wake
    stream,       \* Stream -> where it stands
    awaits,       \* Stream -> the generation of the open it awaits, if it does
    wasParked,    \* the streams that parked and were not answered since
    server        \* what the server grants and knows, and how often it changed

clientVars == <<user, generation, token, renewal, inflight, opening, ended,
                recovering, blocked, timer, probes, waiters>>
vars == <<clientVars, stream, awaits, wasParked, server>>

Gen == 0 .. MaxEvents
Token == [of : Gen \union {NoGen}, good : BOOLEAN]
NoToken == [of |-> NoGen, good |-> FALSE]
Open == [pc : {"idle", "starting", "asking", "answered", "recovering"},
         user : User \union {NoUser}, late : BOOLEAN, again : BOOLEAN,
         verdict : {"none", "opened", "blocked", "unknown"}]
NoOpen == [pc |-> "idle", user |-> NoUser, late |-> FALSE, again |-> FALSE, verdict |-> "none"]
\* A stream sends with a token or without, opens a session, waits for a sign-in or
\* for approval, or is stopped by an error its handler threw.
Standing == {"ready", "sentGood", "sentBad", "opening", "signIn", "parked", "stopped"}

TypeOK ==
    /\ user \in User \union {NoUser}
    /\ generation \in Gen
    /\ token \in [Shape -> Token]
    /\ renewal \subseteq Shape
    /\ inflight \in [Shape -> Gen \union {NoGen}]
    /\ opening \in [Shape \X Gen -> Open]
    /\ ended \in [User -> {"no", "refused", "failed"}]
    /\ recovering \subseteq User \X Gen
    /\ blocked \subseteq Shape
    /\ timer \subseteq blocked
    /\ probes \in [Shape -> SUBSET {"timer", "asked"}]
    /\ waiters \in [Shape -> SUBSET Stream]
    /\ stream \in [Stream -> Standing] /\ awaits \in [Stream -> Gen]
    /\ wasParked \subseteq Stream
    /\ server \in [granted : SUBSET (User \X Shape),
                   cards : SUBSET (User \X (Gen \union {NoGen})),
                   free : BOOLEAN, changes : 0 .. MaxEvents]

Init ==
    /\ user = NoUser /\ generation = 0
    /\ token = [h \in Shape |-> NoToken] /\ renewal = {}
    /\ inflight = [h \in Shape |-> NoGen]
    /\ opening = [o \in Shape \X Gen |-> NoOpen]
    /\ ended = [u \in User |-> "no"] /\ recovering = {}
    /\ blocked = {} /\ timer = {}
    /\ probes = [h \in Shape |-> {}] /\ waiters = [h \in Shape |-> {}]
    /\ stream = [s \in Stream |-> "ready"] /\ awaits = [s \in Stream |-> 0]
    /\ wasParked = {}
    /\ \E c \in Starting :
          server = [granted |-> c.granted, cards |-> c.known \X {NoGen},
                    free |-> FALSE, changes |-> 0]

-----------------------------------------------------------------------------
(* Opening a session                                                       *)

\* openSession for some shapes: each joins the open of its shape, or starts one.
Opens(H) ==
    LET first == {h \in H : inflight[h] = NoGen} IN
    /\ inflight' = [h \in Shape |-> IF h \in first THEN generation ELSE inflight[h]]
    /\ opening' = [o \in Shape \X Gen |->
                      IF o[1] \in first /\ o[2] = generation
                      THEN [NoOpen EXCEPT !.pc = "starting"] ELSE opening[o]]
\* Which open a caller awaits.
Awaited(h) == IF inflight[h] # NoGen THEN inflight[h] ELSE generation

\* The streams and probes that await the open of h begun in generation g.
Joined(h, g) == {s \in Stream : ShapeOf[s] = h /\ stream[s] = "opening" /\ awaits[s] = g}

\* Mutant: an open that ends clears the slot whoever's it is.
ClosedAnyway(h, g) ==
    /\ inflight' = [inflight EXCEPT ![h] = NoGen]
    /\ opening' = [opening EXCEPT ![<<h, g>>] = NoOpen]

\* The finally of openSession, and the slot of the open.
Closed(h, g) ==
    /\ inflight' = [inflight EXCEPT ![h] = IF @ = g THEN NoGen ELSE @]
    /\ opening' = [opening EXCEPT ![<<h, g>>] = NoOpen]

\* The open ended with a session: whoever waits for the shape reads again.
Succeeds(h, g) ==
    /\ Closed(h, g)
    /\ token' = [token EXCEPT ![h] = [of |-> g, good |-> TRUE]]
    /\ renewal' = renewal \union {h}
    /\ blocked' = blocked \ {h} /\ timer' = timer \ {h}
    /\ waiters' = [waiters EXCEPT ![h] = {}]
    /\ probes' = [probes EXCEPT ![h] = {}]
    /\ stream' = [s \in Stream |->
                     IF s \in Joined(h, g) \union waiters[h] THEN "ready" ELSE stream[s]]
    /\ awaits' = [s \in Stream |-> IF s \in Joined(h, g) THEN 0 ELSE awaits[s]]
    /\ UNCHANGED wasParked

\* Mutant: a probe that ends without a session schedules no other.
FailsOnce(h, g, b, threw) ==
    LET mine == h \in b /\ inflight[h] = g
        woken == IF mine /\ "asked" \in probes[h] THEN waiters[h] ELSE {}
        parked == IF h \in b /\ ~threw THEN Joined(h, g) ELSE {}
    IN
    /\ Closed(h, g)
    /\ blocked' = b
    /\ timer' = IF h \in b \ blocked THEN timer \union {h} ELSE timer
    /\ probes' = IF inflight[h] = g THEN [probes EXCEPT ![h] = {}] ELSE probes
    /\ waiters' = [waiters EXCEPT ![h] = (@ \ woken) \union parked]
    /\ stream' = [s \in Stream |->
                     IF s \in Joined(h, g)
                     THEN IF threw THEN "stopped" ELSE IF h \in b THEN "parked" ELSE "signIn"
                     ELSE IF s \in woken THEN "ready" ELSE stream[s]]
    /\ awaits' = [s \in Stream |-> IF s \in Joined(h, g) THEN 0 ELSE awaits[s]]
    /\ wasParked' = wasParked \union parked
    /\ UNCHANGED <<token, renewal>>

\* It ended with none: streams park if the shape waits for approval, otherwise they
\* wait until somebody is signed in; a probe that was asked for wakes who is parked,
\* and the next probe is scheduled. An error stops the streams instead.
Fails(h, g, b, threw) ==
    LET mine == h \in b /\ inflight[h] = g
        woken == IF mine /\ "asked" \in probes[h] THEN waiters[h] ELSE {}
        parked == IF h \in b /\ ~threw THEN Joined(h, g) ELSE {}
    IN
    /\ Closed(h, g)
    /\ blocked' = b
    /\ timer' = IF h \in b /\ (h \notin blocked \/ (mine /\ probes[h] # {}))
                THEN timer \union {h} ELSE timer
    /\ probes' = IF inflight[h] = g THEN [probes EXCEPT ![h] = {}] ELSE probes
    /\ waiters' = [waiters EXCEPT ![h] = (@ \ woken) \union parked]
    /\ stream' = [s \in Stream |->
                     IF s \in Joined(h, g)
                     THEN IF threw THEN "stopped" ELSE IF h \in b THEN "parked" ELSE "signIn"
                     ELSE IF s \in woken THEN "ready" ELSE stream[s]]
    /\ wasParked' = wasParked \union parked
    /\ awaits' = [s \in Stream |-> IF s \in Joined(h, g) THEN 0 ELSE awaits[s]]
    /\ UNCHANGED <<token, renewal>>

-----------------------------------------------------------------------------
(* One open: doOpen, requestSession, recoverCard                           *)

Kept == UNCHANGED <<user, generation, ended, recovering, server>>

Moves(h, g, o) ==
    /\ opening' = [opening EXCEPT ![<<h, g>>] = o]
    /\ UNCHANGED <<inflight, token, renewal, blocked, timer, probes, waiters,
                   stream, awaits, wasParked>>

\* The module is there: nothing begins for an identity that left, or for nobody.
Begin(h, g) ==
    /\ opening[<<h, g>>].pc = "starting"
    /\ IF g # generation \/ user = NoUser
       THEN Fails(h, g, blocked, FALSE)
       ELSE Moves(h, g, [opening[<<h, g>>] EXCEPT !.pc = "asking", !.user = user])
    /\ Kept

\* A card the server has, and the session that passed it.
Known(u) == \E g \in Gen \union {NoGen} : <<u, g>> \in server.cards

\* The server's word, for the identity that signed the challenge.
Judge(h, g) ==
    LET o == opening[<<h, g>>]
        v == IF ~Known(o.user) THEN "unknown"
             ELSE IF <<o.user, h>> \in server.granted THEN "opened" ELSE "blocked"
    IN
    /\ o.pc = "asking"
    /\ Moves(h, g, [o EXCEPT !.pc = "answered", !.verdict = v])
    /\ Kept

\* A request that fails is an error even when the identity has left.
RequestFails(h, g) ==
    /\ MayFail
    /\ opening[<<h, g>>].pc = "asking"
    /\ Fails(h, g, blocked, TRUE)
    /\ Kept

\* Signing for, or an answer to, an identity that left.
Stale(h, g) ==
    /\ opening[<<h, g>>].pc \in {"asking", "answered"} /\ g # generation
    /\ Fails(h, g, blocked, FALSE)
    /\ Kept

\* Mutant: the answer is kept without asking whose it is.
OpenedAnyway(h, g) ==
    /\ opening[<<h, g>>].pc = "answered" /\ opening[<<h, g>>].verdict = "opened"
    /\ Succeeds(h, g)
    /\ Kept

Opened(h, g) ==
    /\ opening[<<h, g>>].pc = "answered" /\ opening[<<h, g>>].verdict = "opened"
    /\ g = generation
    /\ Succeeds(h, g)
    /\ Kept

NotInTrustChain(h, g) ==
    /\ opening[<<h, g>>].pc = "answered" /\ opening[<<h, g>>].verdict = "blocked"
    /\ g = generation
    /\ Fails(h, g, blocked \union {h}, FALSE)
    /\ Kept

\* Mutant: an open does not notice that the card was accepted since it began.
UnknownAgain(h, g) ==
    LET o == opening[<<h, g>>]
        u == o.user
    IN
    /\ o.pc = "answered" /\ o.verdict = "unknown"
    /\ g = generation
    /\ \/ /\ o.again
          /\ ended' = [ended EXCEPT ![u] = "refused"]
          /\ Fails(h, g, blocked, FALSE)
          /\ UNCHANGED recovering
       \/ /\ ~o.again /\ ended[u] # "no"
          /\ Fails(h, g, blocked, ended[u] = "failed")
          /\ UNCHANGED <<ended, recovering>>
       \/ /\ ~o.again /\ ended[u] = "no"
          /\ Moves(h, g, [o EXCEPT !.pc = "recovering"])
          /\ recovering' = recovering \union {<<u, g>>}
          /\ UNCHANGED ended
    /\ UNCHANGED <<user, generation, server>>

\* The server does not know the card: it is passed once, by whichever open comes
\* first, unless it was accepted since this one began.
UnknownUser(h, g) ==
    LET o == opening[<<h, g>>]
        u == o.user
    IN
    /\ o.pc = "answered" /\ o.verdict = "unknown"
    /\ g = generation
    /\ \/ /\ o.again
          /\ ended' = [ended EXCEPT ![u] = "refused"]
          /\ Fails(h, g, blocked, FALSE)
          /\ UNCHANGED recovering
       \/ /\ ~o.again /\ ended[u] # "no"
          /\ Fails(h, g, blocked, ended[u] = "failed")
          /\ UNCHANGED <<ended, recovering>>
       \/ /\ ~o.again /\ ended[u] = "no" /\ o.late
          /\ Moves(h, g, [o EXCEPT !.pc = "asking", !.late = FALSE, !.again = TRUE])
          /\ UNCHANGED <<ended, recovering>>
       \/ /\ ~o.again /\ ended[u] = "no" /\ ~o.late
          /\ Moves(h, g, [o EXCEPT !.pc = "recovering"])
          /\ recovering' = recovering \union {<<u, g>>}
          /\ UNCHANGED ended
    /\ UNCHANGED <<user, generation, server>>

CardAccepted(u, g) ==
    /\ <<u, g>> \in recovering /\ g = generation
    /\ recovering' = recovering \ {<<u, g>>}
    /\ server' = [server EXCEPT !.cards = @ \union {<<u, g>>}]
    /\ opening' = [o \in Shape \X Gen |->
                      IF opening[o].pc = "recovering" /\ o[2] = g /\ opening[o].user = u
                      THEN [opening[o] EXCEPT !.pc = "asking", !.again = TRUE]
                      ELSE [opening[o] EXCEPT !.late =
                               \/ @
                               \/ opening[o].pc \in {"asking", "answered"} /\ ~opening[o].again]]
    /\ UNCHANGED <<user, generation, token, renewal, inflight, ended, blocked, timer,
                   probes, waiters, stream, awaits, wasParked>>

\* The card is refused or cannot be passed; or its account has left.
CardFails(u, g) ==
    /\ <<u, g>> \in recovering
    /\ recovering' = recovering \ {<<u, g>>}
    /\ \/ /\ g = generation /\ MayFail
          /\ UNCHANGED server
       \/ /\ g # generation
          /\ \/ UNCHANGED server
             \/ server' = [server EXCEPT !.cards = @ \union {<<u, NoGen>>}]
    /\ ended' = IF g = generation THEN [ended EXCEPT ![u] = "failed"] ELSE ended
    /\ UNCHANGED <<user, generation, token, renewal, inflight, opening, blocked,
                   timer, probes, waiters, stream, awaits, wasParked>>

CardMissing(h, g) ==
    /\ opening[<<h, g>>].pc = "recovering"
    /\ <<opening[<<h, g>>].user, g>> \notin recovering
    /\ Fails(h, g, blocked, g = generation)
    /\ Kept

-----------------------------------------------------------------------------
(* The streams                                                             *)

Send(s) ==
    /\ stream[s] = "ready"
    /\ stream' = [stream EXCEPT ![s] = IF server.free \/ token[ShapeOf[s]].good
                                       THEN "sentGood" ELSE "sentBad"]
    /\ UNCHANGED <<clientVars, awaits, wasParked, server>>

\* An answer makes the stream live, and ends the wait of a shape it had parked on.
Receives(s) ==
    LET h == ShapeOf[s]
        free == s \in wasParked /\ h \in blocked
    IN
    /\ stream[s] = "sentGood"
    /\ stream' = [t \in Stream |-> IF t = s \/ (free /\ t \in waiters[h]) THEN "ready"
                                   ELSE stream[t]]
    /\ wasParked' = wasParked \ {s}
    /\ blocked' = IF free THEN blocked \ {h} ELSE blocked
    /\ timer' = IF free THEN timer \ {h} ELSE timer
    /\ probes' = IF free THEN [probes EXCEPT ![h] = {}] ELSE probes
    /\ waiters' = IF free THEN [waiters EXCEPT ![h] = {}] ELSE waiters
    /\ UNCHANGED <<user, generation, token, renewal, inflight, opening, ended,
                   recovering, awaits, server>>

\* 401: the session kept for the shape goes, whichever token was refused.
Refused(s) ==
    LET h == ShapeOf[s] IN
    /\ stream[s] = "sentBad"
    /\ token' = [token EXCEPT ![h] = NoToken]
    /\ renewal' = renewal \ {h}
    /\ Opens({h})
    /\ stream' = [stream EXCEPT ![s] = "opening"]
    /\ awaits' = [awaits EXCEPT ![s] = Awaited(h)]
    /\ UNCHANGED <<user, generation, ended, recovering, blocked, timer, probes,
                   waiters, wasParked, server>>

SignedIn(s) ==
    /\ stream[s] = "signIn" /\ user # NoUser
    /\ stream' = [stream EXCEPT ![s] = "ready"]
    /\ UNCHANGED <<clientVars, awaits, wasParked, server>>

-----------------------------------------------------------------------------
(* Timers and the account                                                  *)

Renew(h) ==
    /\ h \in renewal
    /\ renewal' = renewal \ {h}
    /\ Opens({h})
    /\ UNCHANGED <<user, generation, token, ended, recovering, blocked, timer,
                   probes, waiters, stream, awaits, wasParked, server>>

ProbeDue(h) ==
    /\ h \in timer
    /\ timer' = timer \ {h}
    /\ probes' = [probes EXCEPT ![h] = @ \union {"timer"}]
    /\ Opens({h})
    /\ UNCHANGED <<user, generation, token, renewal, ended, recovering, blocked,
                   waiters, stream, awaits, wasParked, server>>

\* "Check again", the app becoming visible, the network coming back.
ProbeAll ==
    /\ blocked # {}
    /\ timer' = {}
    /\ probes' = [h \in Shape |-> IF h \in blocked THEN probes[h] \union {"asked"}
                                  ELSE probes[h]]
    /\ Opens(blocked)
    /\ UNCHANGED <<user, generation, token, renewal, ended, recovering, blocked,
                   waiters, stream, awaits, wasParked, server>>

Login(u) ==
    /\ user = NoUser
    /\ user' = u
    /\ UNCHANGED <<generation, token, renewal, inflight, opening, ended, recovering,
                   blocked, timer, probes, waiters, stream, awaits, wasParked, server>>

\* Mutant: the gate is emptied and its timers are left running.
LogoutTicks ==
    /\ user # NoUser /\ generation + server.changes < MaxEvents
    /\ user' = NoUser /\ generation' = generation + 1
    /\ token' = [h \in Shape |-> NoToken] /\ renewal' = {}
    /\ inflight' = [h \in Shape |-> NoGen]
    /\ ended' = [u \in User |-> "no"]
    /\ blocked' = {}
    /\ probes' = [h \in Shape |-> {}] /\ waiters' = [h \in Shape |-> {}]
    /\ stream' = [s \in Stream |-> IF s \in waiters[ShapeOf[s]] THEN "ready" ELSE stream[s]]
    /\ UNCHANGED <<opening, recovering, timer, awaits, wasParked, server>>

\* logout: clearSessions and resetGate; what is under way is left to find out.
Logout ==
    /\ user # NoUser /\ generation + server.changes < MaxEvents
    /\ user' = NoUser /\ generation' = generation + 1
    /\ token' = [h \in Shape |-> NoToken] /\ renewal' = {}
    /\ inflight' = [h \in Shape |-> NoGen]
    /\ ended' = [u \in User |-> "no"]
    /\ blocked' = {} /\ timer' = {}
    /\ probes' = [h \in Shape |-> {}] /\ waiters' = [h \in Shape |-> {}]
    /\ stream' = [s \in Stream |-> IF s \in waiters[ShapeOf[s]] THEN "ready" ELSE stream[s]]
    /\ UNCHANGED <<opening, recovering, awaits, wasParked, server>>

-----------------------------------------------------------------------------
(* The server                                                              *)

ServerChanges(next) ==
    /\ generation + server.changes < MaxEvents
    /\ server' = [next EXCEPT !.changes = server.changes + 1]
    /\ UNCHANGED <<user, generation, renewal, inflight, opening, ended, recovering,
                   blocked, timer, probes, waiters, stream, awaits, wasParked>>

Grants(u, h) ==
    /\ ServerChanges([server EXCEPT !.granted = @ \union {<<u, h>>}]) /\ UNCHANGED token
Revokes(u, h) ==
    /\ ServerChanges([server EXCEPT !.granted = @ \ {<<u, h>>}]) /\ UNCHANGED token
Frees == ServerChanges([server EXCEPT !.free = ~@]) /\ UNCHANGED token
ForgetsCards == ServerChanges([server EXCEPT !.cards = {}]) /\ UNCHANGED token
\* A restart, or the end of their time.
TokensEnd ==
    /\ ServerChanges(server)
    /\ token' = [h \in Shape |-> [token[h] EXCEPT !.good = FALSE]]

-----------------------------------------------------------------------------
Works(h, g) ==
    \/ Begin(h, g) \/ Judge(h, g) \/ Stale(h, g) \/ Opened(h, g)
    \/ NotInTrustChain(h, g) \/ UnknownUser(h, g) \/ CardMissing(h, g)
Streams(s) == Send(s) \/ Receives(s) \/ Refused(s) \/ SignedIn(s)
Passes(u, g) == CardAccepted(u, g) \/ CardFails(u, g)

Next ==
    \/ \E h \in Shape, g \in Gen : Works(h, g) \/ RequestFails(h, g)
    \/ \E u \in User, g \in Gen : Passes(u, g)
    \/ \E s \in Stream : Streams(s)
    \/ \E h \in Shape : Renew(h) \/ ProbeDue(h)
    \/ ProbeAll
    \/ \E u \in User : Login(u)
    \/ Logout
    \/ \E u \in User, h \in Shape : Grants(u, h) \/ Revokes(u, h)
    \/ Frees \/ ForgetsCards \/ TokensEnd

Spec == Init /\ [][Next]_vars

\* Code that awaits nobody else runs on, timers fire, the browser's streams ask again;
\* a request that is made again and again is answered now and then.
FairSpec ==
    /\ Spec
    /\ \A h \in Shape, g \in Gen : WF_vars(Works(h, g))
    /\ \A h \in Shape : SF_vars(\E g \in Gen : Judge(h, g))
    /\ WF_vars(\E u \in User, g \in Gen : Passes(u, g))
    /\ \A s \in Stream : WF_vars(Streams(s))
    /\ \A h \in Shape : WF_vars(ProbeDue(h))

-----------------------------------------------------------------------------
(* Properties                                                              *)

\* The open that others join is the one under way for this session, and there is no
\* other: an open left over from before a logout neither takes its place nor ends it.
SingleFlight ==
    \A h \in Shape : (opening[<<h, generation>>].pc # "idle") <=> (inflight[h] = generation)

\* A session opened for an identity that has left is neither sent nor renewed.
NoForeignToken ==
    /\ \A h \in Shape : token[h].of \in {NoGen, generation}
    /\ \A h \in renewal : token[h].of = generation

\* A stream that waits for approval is in the list somebody will go through: its shape
\* is blocked, and a probe of it is scheduled or under way.
NoParkedForgotten ==
    \A s \in Stream : stream[s] = "parked" =>
        LET h == ShapeOf[s] IN
        /\ h \in blocked /\ s \in waiters[h]
        /\ h \in timer \/ (probes[h] # {} /\ inflight[h] = generation)

\* However the opens of several shapes and the passing of the card interleave, a
\* session passes no card that it has passed and that the server still has.
CardNotRepeated ==
    [][\A u \in User, g \in Gen :
          <<u, g>> \in recovering' \ recovering => <<u, g>> \notin server.cards]_vars

\* Who is signed in and granted the shape for good reads it again and again, unless
\* its card could not be passed or an error stopped the stream.
Approved ==
    \A s \in Stream :
        []<>(\/ stream[s] \in {"sentGood", "stopped"}
             \/ \A u \in User : \/ user # u \/ ended[u] # "no"
                              \/ <<u, ShapeOf[s]>> \notin server.granted)
=============================================================================
