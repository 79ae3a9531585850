-------------------------- MODULE HandshakeProofs --------------------------
(***************************************************************************)
(* Theorems about Handshake for any phones, any number of starts, whatever *)
(* fails and whatever code a camera reads again, checked by TLAPS.         *)
(***************************************************************************)
EXTENDS Handshake, TLAPS

-----------------------------------------------------------------------------
(* The inductive invariant: what one engine's own fields say, what it may   *)
(* rely on about its peer, and what the component keeps of its sessions.    *)

Sane(e) ==
    /\ e.stage = "idle" => e = Fresh
    /\ e.stage = "done" <=> e.outcome # "none"
    /\ e.outcome # "none" => e.ended
    /\ e.stage \in {"B", "C", "D"} => e.peer # NoSession /\ e.signed
    /\ e.handling = "A" => e.peer # NoSession
    /\ e.proved => e.peer # NoSession
    /\ e.stage \in {"C", "D"} => e.proved
    /\ e.handling \in {"B", "C", "feed", "confirmation"} => e.proved
    /\ (e.fed \/ e.link \/ e.payload # "none") => e.proved
    /\ e.deadline \in {"channel", "confirm"} => e.proved
    /\ e.outcome \in {"verified", "confirmed"} => e.proved
    /\ e.handling = "A" /\ ~e.ended => e.stage = "A"
    /\ e.handling = "B" /\ ~e.ended => e.stage \in {"A", "B"}
    /\ e.handling = "C" /\ ~e.ended => e.stage = "B"
    /\ e.handling = "feed" /\ ~e.ended => e.stage \in {"B", "C"}
    /\ e.handling = "confirmation" => e.fed
    /\ e.fed => e.handling \in {"nothing", "confirmation"}
    /\ e.fed => e.stage \in {"C", "D", "done"}
    /\ e.message # "none" => e.fed /\ e.handling = "nothing"
    /\ e.sent => e.message # "none"
    /\ e.inbox # "none" => e.peer # NoSession
    /\ e.signFailures = SIGN_ATTEMPTS => e.ended /\ e.handling = "nothing"

\* The peer showed a code for this very session.
Vouched(s, e) ==
    e.proved => engine[e.peer].peer = s /\ engine[e.peer].signed

\* What was heard is what the peer sent.
Heard(e) ==
    e.inbox # "none" => engine[e.peer].sent /\ engine[e.peer].message = e.inbox

Agrees(s, e) ==
    e.outcome = "confirmed" =>
        /\ e.fed /\ e.sent
        /\ engine[e.peer].peer = s /\ engine[e.peer].fed
        /\ engine[e.peer].sent /\ engine[e.peer].message = "confirm"

Sound(s, e) == e \in Engine /\ Sane(e) /\ Vouched(s, e) /\ Heard(e) /\ Agrees(s, e)

EnginesSound == \A s \in Session : Sound(s, engine[s])

\* A code that was drawn says what its session still stands for.
Drawn(c) ==
    c.kind # "A" =>
        /\ c.with # NoSession
        /\ engine[c.from].peer = c.with /\ engine[c.from].signed
CodesDrawn == \A c \in codes : Drawn(c)

Unstarted ==
    /\ \A s \in Session : s[2] > starts[s[1]] => engine[s].stage = "idle"
    /\ \A p \in Phone : \A n \in starting[p] :
          n \in 1 .. starts[p] /\ engine[<<p, n>>].stage = "idle"
    /\ \A p \in Phone : current[p] \in starting[p] => scanning[p]

IInv == TypeOK /\ EnginesSound /\ CodesDrawn /\ Unstarted /\ CurrentUndisturbed

-----------------------------------------------------------------------------
(* One engine changes *)

LEMMA Sessions ==
    /\ NoSession \notin Session
    /\ \A s \in Session : s = <<s[1], s[2]>> /\ s[1] \in Phone
                          /\ s[2] \in Nat /\ s[2] \in 1 .. MaxStarts[s[1]]
    /\ \A p \in Phone : \A n \in 1 .. MaxStarts[p] : <<p, n>> \in Session
BY HandshakeAssumption DEF Session

\* What no step takes back.
Keeps(d, e) ==
    /\ d.peer # NoSession => e.peer = d.peer
    /\ d.signed => e.signed
    /\ d.fed => e.fed
    /\ d.sent => e.sent /\ e.message = d.message
    /\ d.ended => e.ended
    /\ d.stage # "idle" => e.stage # "idle"

LEMMA EngineFields ==
    ASSUME NEW e \in Engine
    PROVE  /\ e.stage \in {"idle", "A", "B", "C", "D", "done"}
           /\ e.peer \in Session \union {NoSession}
           /\ e.ended \in BOOLEAN /\ e.signed \in BOOLEAN /\ e.fed \in BOOLEAN
           /\ e.link \in BOOLEAN /\ e.sent \in BOOLEAN /\ e.proved \in BOOLEAN
           /\ e.closed \in BOOLEAN
           /\ e.handling \in Awaits /\ e.outcome \in Outcome
           /\ e.message \in {"none", "confirm", "refusal"}
           /\ e.inbox \in {"none", "confirm", "refusal"}
           /\ e.payload \in {"none", "asked", "known"}
           /\ e.signFailures \in 0 .. SIGN_ATTEMPTS
           /\ e.deadline \in {"none", "session", "channel", "confirm"}
BY DEF Engine

LEMMA CodeIsTyped ==
    ASSUME NEW s \in Session, NEW e \in Engine, Sane(e), e.stage \in {"A", "B", "C", "D"}
    PROVE  CodeOf(s, e) \in Code
BY EngineFields DEF CodeOf, Code

LEMMA OneChanges ==
    ASSUME TypeOK, EnginesSound, CodesDrawn,
           NEW s \in Session, NEW e, Sound(s, e), Keeps(engine[s], e),
           engine' = [engine EXCEPT ![s] = e],
           \/ codes' = codes
           \/ e.stage \in {"A", "B", "C", "D"} /\ codes' = codes \union {CodeOf(s, e)}
    PROVE  EnginesSound' /\ CodesDrawn' /\ codes' \subseteq Code
                         /\ engine' \in [Session -> Engine]
<1> USE DEF TypeOK
<1>1. e \in Engine /\ Sane(e)
  BY DEF Sound
<1>2. engine' \in [Session -> Engine]
  BY <1>1
<1>3. \A u \in Session : engine'[u] = IF u = s THEN e ELSE engine[u]
  OBVIOUS
<1>4. \A u \in Session : Keeps(engine[u], engine'[u])
  BY <1>3 DEF Keeps
<1>5. ASSUME NEW u \in Session PROVE Sound(u, engine[u])'
  <2> DEFINE d == engine'[u]
  <2>1. Sound(u, d)
    BY <1>3 DEF EnginesSound
  <2>2. d \in Engine /\ Sane(d)
    BY <2>1 DEF Sound
  <2>3. d.peer # NoSession => d.peer \in Session
    BY <2>2, EngineFields
  <2>4. d.peer # NoSession => Keeps(engine[d.peer], engine'[d.peer])
    BY <2>3, <1>4
  <2>5. Vouched(u, engine[u])'
    BY <2>1, <2>2, <2>4, Sessions DEF Vouched, Sane, Sound, Keeps
  <2>6. Heard(engine[u])'
    BY <2>1, <2>2, <2>4 DEF Heard, Sane, Sound, Keeps
  <2>7. Agrees(u, engine[u])'
    BY <2>1, <2>2, <2>4, Sessions DEF Agrees, Sane, Sound, Keeps, Outcome
  <2> QED BY <2>2, <2>5, <2>6, <2>7 DEF Sound, Sane
<1>6. codes' \subseteq Code
  BY <1>1, CodeIsTyped
<1>7. ASSUME NEW c \in codes' PROVE Drawn(c)'
  <2>1. CASE c \in codes
    <3>1. c.from \in Session
      BY <2>1 DEF Code
    <3> QED BY <2>1, <3>1, <1>4 DEF CodesDrawn, Drawn, Keeps
  <2>2. CASE c = CodeOf(s, e) /\ e.stage \in {"A", "B", "C", "D"}
    BY <2>2, <1>1, <1>3 DEF CodeOf, Drawn, Sane
  <2> QED BY <2>1, <2>2
<1> QED BY <1>2, <1>5, <1>6, <1>7 DEF EnginesSound, CodesDrawn

Change(s, e) ==
    /\ Sound(s, e)
    /\ Keeps(engine[s], e)
    /\ engine[s].stage # "idle" /\ e.stage # "idle"
    /\ engine[s].outcome # "none" => e.outcome = engine[s].outcome

LEMMA BecomesKeeps ==
    ASSUME IInv, NEW s \in Session, NEW e, Change(s, e), Becomes(s, e)
    PROVE  IInv'
<1> DEFINE p == s[1]
           mine == current[p] = s[2]
           done == e.outcome # engine[s].outcome
           shows == ~done /\ e.stage # engine[s].stage
<1> USE DEF IInv
<1>1. e \in Engine /\ Sane(e) /\ engine[s] \in Engine /\ Sane(engine[s])
  BY DEF Change, Sound, EnginesSound
<1>2. Keeps(engine[s], e) /\ engine[s].stage # "idle" /\ e.stage # "idle"
  BY DEF Change
<1>3. p \in Phone /\ s = <<p, s[2]>>
  BY Sessions
<1>4. engine' = [engine EXCEPT ![s] = e]
  BY DEF Becomes
<1>5. UNCHANGED <<starts, current, starting>>
  BY DEF Becomes
<1>6. shows => e.stage \in {"A", "B", "C", "D"}
  BY <1>1, <1>2, EngineFields DEF Sane
<1>7. codes' = codes \/ (e.stage \in {"A", "B", "C", "D"} /\ codes' = codes \union {CodeOf(s, e)})
  BY <1>6 DEF Becomes
<1>8. EnginesSound' /\ CodesDrawn' /\ codes' \subseteq Code /\ engine' \in [Session -> Engine]
  BY <1>4, <1>7, OneChanges DEF Change
<1>9. screen' \in [Phone -> Code \union {NoCode}]
  BY <1>1, <1>6, CodeIsTyped DEF Becomes, TypeOK
<1>10. camera' \in [Phone -> BOOLEAN] /\ scanning' \in [Phone -> BOOLEAN]
  <2>1. \A b \in BOOLEAN : \A c : (b /\ c) \in BOOLEAN
    OBVIOUS
  <2> QED BY DEF Becomes, TypeOK
<1>11. TypeOK'
  BY <1>5, <1>8, <1>9, <1>10 DEF TypeOK
<1>12. Unstarted'
  <2>1. \A u \in Session : engine[u].stage = "idle" => u # s
    BY <1>2
  <2>2. \A u \in Session : engine[u].stage = "idle" => engine'[u].stage = "idle"
    BY <1>4, <2>1 DEF TypeOK
  <2>3. \A x \in Phone : \A n \in starting[x] : n \in 1 .. starts[x] => <<x, n>> \in Session
    BY Sessions, HandshakeAssumption DEF TypeOK
  <2>4. ASSUME NEW x \in Phone, current[x] \in starting[x] PROVE scanning'[x]
    <3>1. scanning[x] /\ engine[<<x, current[x]>>].stage = "idle"
      BY <2>4 DEF Unstarted
    <3>2. x = p => ~mine
      BY <3>1, <1>2, <1>3
    <3> QED BY <3>1, <3>2, <1>3 DEF Becomes, TypeOK
  <2> QED BY <1>5, <2>2, <2>3, <2>4 DEF Unstarted
<1>13. CurrentUndisturbed'
  <2> SUFFICES ASSUME NEW u \in Session, Runs(u)'
               PROVE  /\ current'[u[1]] = u[2] /\ scanning'[u[1]]
                      /\ screen'[u[1]] = CodeOf(u, engine'[u])
                      /\ engine'[u].fed \/ camera'[u[1]]
    BY DEF CurrentUndisturbed
  <2>1. u[1] \in Phone /\ u = <<u[1], u[2]>>
    BY Sessions
  <2>2. CASE u # s
    <3>1. engine'[u] = engine[u] /\ Runs(u)
      BY <2>2, <1>4 DEF Runs, TypeOK
    <3>2. current[u[1]] = u[2]
      BY <3>1 DEF CurrentUndisturbed
    <3>3. u[1] # p \/ ~mine
      BY <2>1, <2>2, <1>3, <3>2
    <3>4. screen'[u[1]] = screen[u[1]] /\ camera'[u[1]] = camera[u[1]]
          /\ scanning'[u[1]] = scanning[u[1]]
      BY <3>3, <2>1 DEF Becomes, TypeOK
    <3> QED BY <3>1, <3>4, <1>5 DEF CurrentUndisturbed, CodeOf
  <2>3. CASE u = s
    <3>1. engine'[u] = e
      BY <2>3, <1>4 DEF TypeOK
    <3>2. ~e.ended /\ Runs(s)
      BY <2>3, <3>1, <1>1, <1>2, EngineFields DEF Runs, Keeps
    <3>3. mine /\ scanning[p] /\ screen[p] = CodeOf(s, engine[s])
          /\ (engine[s].fed \/ camera[p])
      BY <3>2 DEF CurrentUndisturbed
    <3>4. ~done
      BY <1>1, <3>2, EngineFields DEF Sane, Runs
    <3>5. screen'[p] = CodeOf(s, e)
      <4>1. CASE shows
        BY <4>1, <3>3, <1>3 DEF Becomes, TypeOK
      <4>2. CASE ~shows
        <5>1. e.stage = engine[s].stage
          BY <4>2, <3>4
        <5>2. e.stage = "A" \/ e.stage \in {"B", "C", "D"}
          BY <1>1, <1>2, <3>2, EngineFields DEF Sane
        <5>3. e.stage # "A" => e.peer = engine[s].peer
          BY <5>1, <5>2, <1>1, <1>2 DEF Sane, Keeps
        <5>4. CodeOf(s, e) = CodeOf(s, engine[s])
          BY <5>1, <5>3 DEF CodeOf
        <5> QED BY <4>2, <3>3, <3>4, <5>4 DEF Becomes
      <4> QED BY <4>1, <4>2
    <3>6. scanning'[p]
      BY <3>3, <3>4, <1>3 DEF Becomes, TypeOK
    <3>7. e.fed \/ camera'[p]
      BY <3>3, <3>4, <1>2, <1>3 DEF Becomes, TypeOK, Keeps
    <3> QED BY <2>3, <3>1, <3>3, <3>5, <3>6, <3>7, <1>5
  <2> QED BY <2>2, <2>3
<1> QED BY <1>8, <1>11, <1>12, <1>13

-----------------------------------------------------------------------------
(* What an engine makes of what it reads, awaits and hears                  *)

LEMMA FreshIsSane == Fresh \in Engine /\ Sane(Fresh)
BY HandshakeAssumption DEF Fresh, Engine, Sane, Awaits, Outcome

LEMMA LiveEngine ==
    ASSUME IInv, NEW s \in Session
    PROVE  /\ engine[s] \in Engine /\ Sane(engine[s])
           /\ Vouched(s, engine[s]) /\ Heard(engine[s]) /\ Agrees(s, engine[s])
           /\ engine[s].stage = "idle" => engine[s] = Fresh
BY DEF IInv, EnginesSound, Sound, Sane

\* An end changes neither what was proved nor what was heard.
LEMMA FinishChanges ==
    ASSUME IInv, NEW s \in Session, NEW e, NEW outcome \in Outcome \ {"none"},
           e \in Engine, Sane(e), Vouched(s, e), Heard(e), Agrees(s, e),
           Keeps(engine[s], e), engine[s].stage # "idle", e.stage # "idle",
           engine[s].outcome # "none" => e.outcome = engine[s].outcome,
           outcome \in {"verified", "confirmed"} => e.proved,
           outcome = "confirmed" => Agrees(s, [e EXCEPT !.outcome = "confirmed"])
    PROVE  Change(s, Finished(e, outcome))
<1> DEFINE f == [e EXCEPT !.stage = "done", !.ended = TRUE, !.deadline = "none",
                          !.closed = ~e.link, !.outcome = outcome]
<1>1. CASE e.ended
  BY <1>1 DEF Finished, Change, Sound
<1>2. CASE ~e.ended
  <2>1. Finished(e, outcome) = f
    BY <1>2 DEF Finished
  <2>2. f \in Engine
    <3>1. (~e.link) \in BOOLEAN /\ TRUE \in BOOLEAN
      OBVIOUS
    <3>2. outcome \in Outcome
      OBVIOUS
    <3> QED BY <3>1, <3>2 DEF Engine
  <2>3. Sane(f)
    BY <1>2, EngineFields DEF Sane, Engine, Fresh
  <2>4. Vouched(s, f) /\ Heard(f)
    BY DEF Vouched, Heard, Engine
  <2>5. Agrees(s, f)
    BY DEF Agrees, Engine
  <2>6. Keeps(engine[s], f)
    BY DEF Keeps, Engine
  <2>7. engine[s].outcome = "none"
    BY <1>2, LiveEngine DEF Sane
  <2> QED BY <2>1, <2>2, <2>3, <2>4, <2>5, <2>6, <2>7 DEF Change, Sound, Engine
<1> QED BY <1>1, <1>2

-----------------------------------------------------------------------------
(* Reading *)

LEMMA TakenCode ==
    ASSUME IInv, NEW s \in Session, NEW c \in codes, Takes(s, c)
    PROVE  /\ c.from \in Session
           /\ c.with \in Session \union {NoSession}
           /\ engine[s].stage # "idle" /\ engine[s].ended = FALSE
           /\ engine[s].outcome = "none"
           /\ engine[s].handling = "nothing"
           /\ c.kind \in {"A", "B"} => engine[s].peer \in {NoSession, c.from}
           /\ c.kind # "A" =>
                 engine[c.from].peer = c.with /\ engine[c.from].signed
<1>1. c \in Code /\ Drawn(c)
  BY DEF IInv, TypeOK, CodesDrawn
<1>2. engine[s].ended = FALSE
  BY LiveEngine, EngineFields DEF Takes
<1> QED BY <1>1, <1>2, LiveEngine, EngineFields DEF Takes, Code, Drawn, Sane

LEMMA ReadAChanges ==
    ASSUME IInv, NEW s \in Session, NEW c \in codes, ReadA(s, c)
    PROVE  IInv'
<1> DEFINE d == engine[s]
           e == [d EXCEPT !.peer = c.from, !.handling = "A"]
<1>1. Takes(s, c) /\ c.kind = "A" /\ d.stage = "A" /\ Becomes(s, e)
  BY DEF ReadA
<1>2. d \in Engine /\ Sane(d)
  BY LiveEngine
<1>3. c.from \in Session /\ d.ended = FALSE /\ d.outcome = "none" /\ d.handling = "nothing"
      /\ d.peer \in {NoSession, c.from}
  BY <1>1, TakenCode
<1>4. e \in Engine
  BY <1>2, <1>3 DEF Engine, Awaits
<1>5. Sane(e)
  BY <1>1, <1>2, <1>3, Sessions, EngineFields DEF Sane, Engine
<1>6. Vouched(s, e) /\ Heard(e) /\ Agrees(s, e)
  BY <1>2, <1>3, LiveEngine DEF Vouched, Heard, Agrees, Engine, Sane
<1>7. Keeps(d, e)
  BY <1>2, <1>3 DEF Keeps, Engine
<1>8. Change(s, e)
  BY <1>1, <1>2, <1>3, <1>4, <1>5, <1>6, <1>7 DEF Change, Sound, Engine
<1> QED BY <1>1, <1>8, BecomesKeeps

LEMMA ReadBChanges ==
    ASSUME IInv, NEW s \in Session, NEW c \in codes, ReadB(s, c)
    PROVE  IInv'
<1> DEFINE d == engine[s]
           x == IF d.payload = "known" THEN d.payload ELSE "asked"
           e == [d EXCEPT !.peer = c.from, !.proved = TRUE, !.handling = "B",
                          !.payload = x]
<1>1. Takes(s, c) /\ c.kind = "B" /\ d.stage \in {"A", "B"} /\ SameTranscript(s, c)
  BY DEF ReadB
<1>2. d \in Engine /\ Sane(d)
  BY LiveEngine
<1>3. c.from \in Session /\ d.ended = FALSE /\ d.outcome = "none" /\ d.handling = "nothing"
      /\ d.peer \in {NoSession, c.from} /\ engine[c.from].peer = s /\ engine[c.from].signed
  BY <1>1, TakenCode DEF SameTranscript
<1>4. x \in {"asked", "known"}
  BY <1>2, EngineFields
<1>5. e \in Engine
  <2>1. ASSUME NEW y \in {"asked", "known"}
        PROVE  [d EXCEPT !.peer = c.from, !.proved = TRUE, !.handling = "B", !.payload = y]
                   \in Engine
    <3>1. c.from \in Session \union {NoSession} /\ "B" \in Awaits /\ TRUE \in BOOLEAN
      BY <1>3 DEF Awaits
    <3> HIDE DEF x, e
    <3> QED BY <3>1, <1>2 DEF Engine
  <2> HIDE DEF x
  <2> QED BY <2>1, <1>4
<1>6. Sane(e)
  BY <1>1, <1>2, <1>3, <1>4, Sessions, EngineFields DEF Sane, Engine
<1>7. Vouched(s, e) /\ Heard(e) /\ Agrees(s, e)
  BY <1>2, <1>3, LiveEngine DEF Vouched, Heard, Agrees, Engine, Sane
<1>8. Keeps(d, e)
  BY <1>2, <1>3 DEF Keeps, Engine
<1>9. Change(s, e)
  BY <1>1, <1>2, <1>3, <1>5, <1>6, <1>7, <1>8 DEF Change, Sound, Engine
<1>10. Becomes(s, e)
  BY DEF ReadB
<1> QED BY <1>9, <1>10, BecomesKeeps

LEMMA ReadCChanges ==
    ASSUME IInv, NEW s \in Session, NEW c \in codes, ReadC(s, c) \/ ReadD(s, c)
    PROVE  IInv'
<1> DEFINE d == engine[s]
           x == IF d.payload = "known" THEN d.payload ELSE "asked"
           e == [d EXCEPT !.proved = TRUE, !.handling = "C", !.payload = x]
           f == [d EXCEPT !.handling = "feed"]
<1>1. Takes(s, c) /\ c.kind \in {"C", "D"} /\ d.stage \in {"B", "C"}
      /\ SameTranscript(s, c) /\ c.from = d.peer /\ ~d.fed
  BY DEF ReadC, ReadD
<1>2. d \in Engine /\ Sane(d)
  BY LiveEngine
<1>3. c.from \in Session /\ d.ended = FALSE /\ d.outcome = "none" /\ d.handling = "nothing"
      /\ engine[c.from].peer = s /\ engine[c.from].signed
  BY <1>1, TakenCode DEF SameTranscript
<1>4. x \in {"asked", "known"}
  BY <1>2, EngineFields
<1>5. (d.stage = "B" /\ Becomes(s, e)) \/ (d.stage = "C" /\ Becomes(s, f))
  BY <1>1 DEF ReadC, ReadD
<1>6. CASE d.stage = "B" /\ Becomes(s, e)
  <2>1. e \in Engine
    <3>1. \A y \in {"asked", "known"} :
              [d EXCEPT !.proved = TRUE, !.handling = "C", !.payload = y] \in Engine
      BY <1>2 DEF Engine, Awaits
    <3> HIDE DEF x
    <3> QED BY <3>1, <1>4
  <2>2. Sane(e)
    BY <1>1, <1>2, <1>3, <1>4, <1>6, Sessions, EngineFields DEF Sane, Engine
  <2>3. Vouched(s, e) /\ Heard(e) /\ Agrees(s, e)
    BY <1>1, <1>2, <1>3, LiveEngine DEF Vouched, Heard, Agrees, Engine
  <2>4. Keeps(d, e)
    BY <1>2 DEF Keeps, Engine
  <2>5. Change(s, e)
    BY <1>1, <1>2, <1>3, <2>1, <2>2, <2>3, <2>4 DEF Change, Sound, Engine
  <2> QED BY <1>6, <2>5, BecomesKeeps
<1>7. CASE d.stage = "C" /\ Becomes(s, f)
  <2>1. f \in Engine
    BY <1>2 DEF Engine, Awaits
  <2>2. Sane(f)
    BY <1>1, <1>2, <1>3, <1>7, Sessions, EngineFields DEF Sane, Engine
  <2>3. Vouched(s, f) /\ Heard(f) /\ Agrees(s, f)
    BY <1>1, <1>2, <1>3, LiveEngine DEF Vouched, Heard, Agrees, Engine
  <2>4. Keeps(d, f)
    BY <1>2 DEF Keeps, Engine
  <2>5. Change(s, f)
    BY <1>1, <1>2, <1>3, <2>1, <2>2, <2>3, <2>4 DEF Change, Sound, Engine
  <2> QED BY <1>7, <2>5, BecomesKeeps
<1> QED BY <1>5, <1>6, <1>7

-----------------------------------------------------------------------------
(* What was awaited *)

\* The steps that end no session only have to say how the fields change.
LEMMA PlainChange ==
    ASSUME IInv, NEW s \in Session, NEW e \in Engine, Sane(e), Becomes(s, e),
           engine[s].stage # "idle", e.stage # "idle",
           e.peer = engine[s].peer, e.proved = engine[s].proved,
           engine[s].signed => e.signed,
           engine[s].fed => e.fed,
           engine[s].sent => e.sent /\ e.message = engine[s].message,
           e.ended = engine[s].ended, e.outcome = engine[s].outcome,
           e.inbox = engine[s].inbox
    PROVE  IInv'
<1>1. Vouched(s, e) /\ Heard(e) /\ Agrees(s, e)
  BY LiveEngine DEF Vouched, Heard, Agrees
<1>2. Keeps(engine[s], e)
  BY DEF Keeps
<1> QED BY <1>1, <1>2, BecomesKeeps DEF Change, Sound

LEMMA SignFailsChanges ==
    ASSUME IInv, NEW s \in Session, SignFails(s)
    PROVE  IInv'
<1> DEFINE d == engine[s]
           n == d.signFailures + 1
           e == [d EXCEPT !.signFailures = n, !.handling = "nothing"]
<1>1. d.handling \in {"A", "B"} /\ ~d.signed
      /\ Becomes(s, IF n >= SIGN_ATTEMPTS THEN Finished(e, "failed") ELSE e)
  BY DEF SignFails
<1>2. d \in Engine /\ Sane(d)
  BY LiveEngine
<1>3. d.stage # "idle"
  BY <1>1, LiveEngine DEF Fresh
<1>4. n \in 0 .. SIGN_ATTEMPTS
  BY <1>1, <1>2, EngineFields, HandshakeAssumption DEF Sane
<1>5. e \in Engine
  <2> HIDE DEF n
  <2> QED BY <1>2, <1>4 DEF Engine, Awaits
<1>6. Vouched(s, e) /\ Heard(e) /\ Agrees(s, e) /\ Keeps(d, e)
      /\ e.stage = d.stage /\ e.outcome = d.outcome
  BY <1>2, LiveEngine DEF Vouched, Heard, Agrees, Keeps, Engine
<1>7. CASE n >= SIGN_ATTEMPTS
  <2> DEFINE f == [e EXCEPT !.stage = "done", !.ended = TRUE, !.deadline = "none",
                            !.closed = ~e.link, !.outcome = "failed"]
  <2>1. Finished(e, "failed") = IF e.ended THEN e ELSE f
    BY DEF Finished
  <2>2. CASE e.ended
    <3>1. Sane(e)
      BY <1>2, <1>3, <2>2, EngineFields DEF Sane, Engine
    <3>2. Change(s, e)
      BY <1>3, <1>5, <1>6, <3>1 DEF Change, Sound
    <3> QED BY <1>1, <1>7, <2>1, <2>2, <3>2, BecomesKeeps
  <2>3. CASE ~e.ended
    <3>1. f \in Engine
      <4>1. (~e.link) \in BOOLEAN /\ "failed" \in Outcome
        BY DEF Outcome
      <4> HIDE DEF e
      <4> QED BY <4>1, <1>5 DEF Engine
    <3>2. Sane(f)
      BY <1>2, <1>3, <1>5, <2>3, EngineFields DEF Sane, Engine
    <3>3. d.outcome = "none"
      BY <1>2, <2>3, EngineFields DEF Sane, Engine
    <3>4. Vouched(s, f) /\ Heard(f) /\ Agrees(s, f) /\ Keeps(d, f)
      BY <1>2, <3>3, LiveEngine DEF Vouched, Heard, Agrees, Keeps, Engine
    <3>5. Change(s, f)
      BY <1>3, <1>5, <3>1, <3>2, <3>3, <3>4 DEF Change, Sound, Engine
    <3> QED BY <1>1, <1>7, <2>1, <2>3, <3>5, BecomesKeeps
  <2> QED BY <2>2, <2>3
<1>8. CASE ~(n >= SIGN_ATTEMPTS)
  <2>1. Sane(e)
    BY <1>2, <1>3, <1>4, <1>8, EngineFields, HandshakeAssumption DEF Sane, Engine
  <2>2. Change(s, e)
    BY <1>3, <1>5, <1>6, <2>1 DEF Change, Sound
  <2> QED BY <1>1, <1>8, <2>2, BecomesKeeps
<1> QED BY <1>7, <1>8

LEMMA NoAddressChanges ==
    ASSUME IInv, NEW s \in Session, NoAddress(s)
    PROVE  IInv'
<1> DEFINE d == engine[s]
           e == [d EXCEPT !.payload = "none", !.handling = "nothing"]
<1>1. d.payload = "asked" /\ Becomes(s, Finished(e, "verified"))
  BY DEF NoAddress
<1>2. d \in Engine /\ Sane(d)
  BY LiveEngine
<1>3. d.stage # "idle" /\ d.proved
  BY <1>1, <1>2, LiveEngine DEF Fresh, Sane
<1>4. e \in Engine
  BY <1>2 DEF Engine, Awaits
<1>5. Sane(e)
  BY <1>2, <1>3, EngineFields DEF Sane, Engine
<1>6. Vouched(s, e) /\ Heard(e) /\ Agrees(s, e) /\ Keeps(d, e)
      /\ e.stage = d.stage /\ e.outcome = d.outcome /\ e.proved
  BY <1>2, <1>3, LiveEngine DEF Vouched, Heard, Agrees, Keeps, Engine
<1>7. Change(s, Finished(e, "verified"))
  BY <1>3, <1>4, <1>5, <1>6, FinishChanges DEF Outcome
<1> QED BY <1>1, <1>7, BecomesKeeps

LEMMA ShowsChanges ==
    ASSUME IInv, NEW s \in Session, NEW kind, NEW next,
           <<kind, next>> \in {<<"A", "B">>, <<"B", "C">>}, Shows(s, kind, next)
    PROVE  IInv'
<1> DEFINE d == engine[s]
           x == IF kind = "B" THEN "known" ELSE d.payload
           e == [d EXCEPT !.signed = TRUE, !.signFailures = 0, !.handling = "nothing",
                          !.payload = x]
           f == [e EXCEPT !.stage = next]
<1>1. d.handling = kind /\ (kind = "B" => d.payload # "none")
      /\ Becomes(s, IF e.ended THEN e ELSE f)
  BY DEF Shows
<1>2. d \in Engine /\ Sane(d)
  BY LiveEngine
<1>3. d.stage # "idle" /\ kind \in {"A", "B"} /\ d.peer # NoSession
      /\ (kind = "B" => d.proved)
  BY <1>1, <1>2, LiveEngine DEF Fresh, Sane
<1>4. x \in {"none", "asked", "known"} /\ 0 \in 0 .. SIGN_ATTEMPTS
      /\ (x = "none" => d.payload = "none") /\ (x # "none" => d.proved)
  BY <1>2, <1>3, EngineFields, HandshakeAssumption DEF Sane
<1>5. e \in Engine
  <2> HIDE DEF x
  <2> QED BY <1>2, <1>4 DEF Engine, Awaits
<1>6. /\ e.stage = d.stage /\ e.peer = d.peer /\ e.proved = d.proved /\ e.signed
      /\ e.fed = d.fed /\ e.sent = d.sent /\ e.message = d.message /\ e.ended = d.ended
      /\ e.outcome = d.outcome /\ e.inbox = d.inbox /\ e.link = d.link
      /\ e.deadline = d.deadline /\ e.handling = "nothing" /\ e.signFailures = 0
      /\ e.payload = x
  BY <1>2 DEF Engine
<1> HIDE DEF e, x
<1>7. CASE e.ended
  <2>1. Sane(e)
    BY <1>2, <1>3, <1>4, <1>6, <1>7, HandshakeAssumption DEF Sane
  <2> QED BY <1>1, <1>3, <1>5, <1>6, <1>7, <2>1, PlainChange
<1>8. CASE ~e.ended
  <2>1. f \in Engine
    BY <1>5 DEF Engine
  <2>2. /\ f.stage = next /\ f.peer = d.peer /\ f.proved = d.proved /\ f.signed
        /\ f.fed = d.fed /\ f.sent = d.sent /\ f.message = d.message /\ f.ended = d.ended
        /\ f.outcome = d.outcome /\ f.inbox = d.inbox /\ f.link = d.link
        /\ f.deadline = d.deadline /\ f.handling = "nothing" /\ f.signFailures = 0
        /\ f.payload = x
    BY <1>5, <1>6 DEF Engine
  <2> HIDE DEF f
  <2>3. Sane(f)
    BY <1>1, <1>2, <1>3, <1>4, <1>6, <1>8, <2>2, HandshakeAssumption DEF Sane
  <2> QED BY <1>1, <1>3, <1>8, <2>1, <2>2, <2>3, PlainChange
<1> QED BY <1>7, <1>8

LEMMA FeedingChanges ==
    ASSUME IInv, NEW s \in Session, OwnPayload(s) \/ FeedFails(s)
    PROVE  IInv'
<1> DEFINE d == engine[s]
           x == IF d.ended THEN "nothing" ELSE "feed"
           e == [d EXCEPT !.payload = "known", !.handling = x]
           f == [d EXCEPT !.handling = "nothing"]
<1>1. d \in Engine /\ Sane(d)
  BY LiveEngine
<1>2. CASE OwnPayload(s)
  <2>1. d.handling = "C" /\ Becomes(s, e)
    BY <1>2 DEF OwnPayload
  <2>2. d.stage # "idle"
    BY <2>1, LiveEngine DEF Fresh
  <2>3. e \in Engine
    <3>1. x \in Awaits
      BY DEF Awaits
    <3> HIDE DEF x
    <3> QED BY <1>1, <3>1 DEF Engine
  <2>4. /\ e.payload = "known" /\ e.handling = x /\ e.stage = d.stage
        /\ e.outcome = d.outcome /\ e.ended = d.ended /\ e.peer = d.peer
        /\ e.signed = d.signed /\ e.proved = d.proved /\ e.fed = d.fed
        /\ e.link = d.link /\ e.deadline = d.deadline /\ e.message = d.message
        /\ e.sent = d.sent /\ e.inbox = d.inbox /\ e.signFailures = d.signFailures
    <3> HIDE DEF x
    <3> QED BY <1>1 DEF Engine
  <2>5. (d.ended /\ x = "nothing") \/ (~d.ended /\ x = "feed")
    OBVIOUS
  <2> HIDE DEF e, x
  <2>6. Sane(e)
    BY <1>1, <2>1, <2>2, <2>4, <2>5 DEF Sane
  <2> QED BY <2>1, <2>2, <2>3, <2>4, <2>6, PlainChange
<1>3. CASE FeedFails(s)
  <2>1. d.handling = "feed" /\ Becomes(s, f)
    BY <1>3 DEF FeedFails
  <2>2. d.stage # "idle"
    BY <2>1, LiveEngine DEF Fresh
  <2>3. f \in Engine
    BY <1>1 DEF Engine, Awaits
  <2>4. Sane(f)
    BY <1>1, <2>1, <2>2, EngineFields, HandshakeAssumption DEF Sane, Engine
  <2> QED BY <1>1, <2>1, <2>2, <2>3, <2>4, PlainChange DEF Engine
<1> QED BY <1>2, <1>3

LEMMA FeedsChanges ==
    ASSUME IInv, NEW s \in Session, Feeds(s)
    PROVE  IInv'
<1> DEFINE d == engine[s]
           x == IF d.stage = "B" THEN "D" ELSE d.stage
           y == IF d.link THEN d.deadline ELSE "channel"
           e == [d EXCEPT !.handling = "nothing"]
           f == [d EXCEPT !.fed = TRUE, !.handling = "confirmation", !.stage = x,
                          !.deadline = y]
<1>1. d.handling = "feed" /\ Becomes(s, IF d.ended THEN e ELSE f)
  BY DEF Feeds
<1>2. d \in Engine /\ Sane(d)
  BY LiveEngine
<1>3. d.stage # "idle" /\ d.proved
  BY <1>1, <1>2, LiveEngine DEF Fresh, Sane
<1>4. CASE d.ended
  <2>1. e \in Engine
    BY <1>2 DEF Engine, Awaits
  <2>2. Sane(e)
    BY <1>1, <1>2, <1>3, <1>4, EngineFields, HandshakeAssumption DEF Sane, Engine
  <2> QED BY <1>1, <1>2, <1>3, <1>4, <2>1, <2>2, PlainChange DEF Engine
<1>5. CASE ~d.ended
  <2>1. x \in {"C", "D"} /\ y \in {"none", "session", "channel", "confirm"}
    BY <1>1, <1>2, <1>5, EngineFields DEF Sane
  <2>2. f \in Engine
    <3>1. x \in {"idle", "A", "B", "C", "D", "done"} /\ "confirmation" \in Awaits
      BY <2>1 DEF Awaits
    <3> HIDE DEF x, y
    <3> QED BY <1>2, <2>1, <3>1 DEF Engine
  <2>3. d.peer # NoSession /\ d.signed
    BY <1>1, <1>2, <1>5 DEF Sane
  <2>4. Sane(f)
    <3>1. f.stage = x /\ f.deadline = y
      BY <1>2 DEF Engine
    <3> HIDE DEF x, y
    <3> QED BY <1>1, <1>2, <1>3, <1>5, <2>1, <2>3, EngineFields, HandshakeAssumption
            DEF Sane, Engine
  <2>5. f.stage # "idle" /\ f.peer = d.peer /\ f.proved = d.proved /\ f.signed = d.signed
        /\ f.fed /\ f.sent = d.sent /\ f.message = d.message /\ f.ended = d.ended
        /\ f.outcome = d.outcome /\ f.inbox = d.inbox
    <3> HIDE DEF x, y
    <3> QED BY <1>2, <2>1 DEF Engine
  <2> HIDE DEF f
  <2> QED BY <1>1, <1>3, <1>5, <2>2, <2>4, <2>5, PlainChange
<1> QED BY <1>4, <1>5

-----------------------------------------------------------------------------
(* The exchange *)

\* checkConfirm: what was heard is the peer's, so a confirmation is one of this
\* session. An engine about to judge it has sent its own.
LEMMA CheckedChanges ==
    ASSUME IInv, NEW s \in Session, NEW e \in Engine, NEW valid \in BOOLEAN,
           Sane(e), Vouched(s, e), Heard(e), Agrees(s, e), Keeps(engine[s], e),
           engine[s].stage # "idle", e.stage # "idle",
           e.outcome = engine[s].outcome, e.sent
    PROVE  Change(s, Checked(s, e, valid))
<1>1. e.proved /\ e.fed
  BY DEF Sane
<1>2. CASE /\ e.inbox = "confirm" /\ valid
           /\ engine[e.peer].peer = s /\ engine[e.peer].fed
  <2>1. Checked(s, e, valid) = Finished(e, "confirmed")
    BY <1>2 DEF Checked
  <2>2. Agrees(s, [e EXCEPT !.outcome = "confirmed"])
    BY <1>1, <1>2 DEF Agrees, Heard, Engine
  <2> QED BY <1>1, <2>1, <2>2, FinishChanges DEF Outcome
<1>3. CASE ~(/\ e.inbox = "confirm" /\ valid
             /\ engine[e.peer].peer = s /\ engine[e.peer].fed)
  <2>1. Checked(s, e, valid) = Finished(e, "verified")
    BY <1>3 DEF Checked
  <2> QED BY <1>1, <2>1, FinishChanges DEF Outcome
<1> QED BY <1>2, <1>3

LEMMA ExchangedChanges ==
    ASSUME IInv, NEW s \in Session, NEW e \in Engine, NEW valid \in BOOLEAN,
           Sane(e), Vouched(s, e), Heard(e), Agrees(s, e), Keeps(engine[s], e),
           engine[s].stage # "idle", e.stage # "idle",
           e.outcome = engine[s].outcome, e.message # "none"
    PROVE  Change(s, Exchanged(s, e, valid))
<1> DEFINE open == [e EXCEPT !.deadline = "confirm", !.sent = TRUE]
<1>1. open \in Engine
  BY DEF Engine
<1>2. Sane(open)
  BY DEF Sane, Engine
<1>3. Vouched(s, open) /\ Heard(open) /\ Agrees(s, open) /\ Keeps(engine[s], open)
      /\ open.stage = e.stage /\ open.outcome = e.outcome /\ open.sent
  BY DEF Vouched, Heard, Agrees, Keeps, Engine
<1>4. Exchanged(s, e, valid) = IF e.inbox = "none" THEN open ELSE Checked(s, open, valid)
  BY DEF Exchanged
<1> HIDE DEF open
<1>5. CASE e.inbox = "none"
  BY <1>1, <1>2, <1>3, <1>4, <1>5 DEF Change, Sound
<1>6. CASE e.inbox # "none"
  BY <1>1, <1>2, <1>3, <1>4, <1>6, CheckedChanges
<1> QED BY <1>5, <1>6

LEMMA ConfirmsChanges ==
    ASSUME IInv, NEW s \in Session, Confirms(s)
    PROVE  IInv'
<1> DEFINE d == engine[s]
<1>1. PICK message \in {"confirm", "refusal"}, valid \in BOOLEAN :
          LET ready == [d EXCEPT !.handling = "nothing", !.message = message] IN
          Becomes(s, IF ~d.ended /\ d.link THEN Exchanged(s, ready, valid) ELSE ready)
  BY DEF Confirms
<1> DEFINE e == [d EXCEPT !.handling = "nothing", !.message = message]
<1>2. d \in Engine /\ Sane(d) /\ d.handling = "confirmation"
  BY LiveEngine DEF Confirms
<1>3. d.stage # "idle" /\ d.fed /\ d.message = "none" /\ ~d.sent
  BY <1>2, LiveEngine, EngineFields DEF Fresh, Sane
<1>4. e \in Engine
  BY <1>2 DEF Engine, Awaits
<1>5. Sane(e)
  BY <1>2, <1>3, EngineFields, HandshakeAssumption DEF Sane, Engine
<1>6. Vouched(s, e) /\ Heard(e) /\ Agrees(s, e) /\ Keeps(d, e)
      /\ e.stage = d.stage /\ e.outcome = d.outcome /\ e.message # "none"
  BY <1>2, <1>3, LiveEngine DEF Vouched, Heard, Agrees, Keeps, Engine
<1> HIDE DEF e
<1>7. Becomes(s, IF ~d.ended /\ d.link THEN Exchanged(s, e, valid) ELSE e)
  BY <1>1 DEF e
<1>8. CASE ~d.ended /\ d.link
  <2>1. Change(s, Exchanged(s, e, valid))
    BY <1>3, <1>4, <1>5, <1>6, ExchangedChanges
  <2> QED BY <1>7, <1>8, <2>1, BecomesKeeps
<1>9. CASE ~(~d.ended /\ d.link)
  <2>1. Change(s, e)
    BY <1>3, <1>4, <1>5, <1>6 DEF Change, Sound
  <2> QED BY <1>7, <1>9, <2>1, BecomesKeeps
<1> QED BY <1>8, <1>9

LEMMA ChannelOpensChanges ==
    ASSUME IInv, NEW s \in Session, ChannelOpens(s)
    PROVE  IInv'
<1> DEFINE d == engine[s]
           e == [d EXCEPT !.link = TRUE]
           f == [e EXCEPT !.deadline = "confirm"]
<1>1. d \in Engine /\ Sane(d)
  BY LiveEngine
<1>2. d.proved /\ d.stage # "idle"
  BY <1>1, LiveEngine DEF ChannelOpens, Joined, Offered, Sane, Fresh
<1>3. e \in Engine /\ f \in Engine
  BY <1>1 DEF Engine
<1>4. Sane(e) /\ Sane(f)
  BY <1>1, <1>2 DEF Sane, Engine
<1>5. /\ Vouched(s, e) /\ Heard(e) /\ Agrees(s, e) /\ Keeps(d, e)
      /\ Vouched(s, f) /\ Heard(f) /\ Agrees(s, f) /\ Keeps(d, f)
  BY <1>1, LiveEngine DEF Vouched, Heard, Agrees, Keeps, Engine
<1>6. /\ e.stage = d.stage /\ e.outcome = d.outcome /\ e.message = d.message
      /\ f.stage = d.stage /\ f.outcome = d.outcome
  BY <1>1 DEF Engine
<1>7. PICK valid \in BOOLEAN :
          Becomes(s, IF d.message # "none" THEN Exchanged(s, e, valid)
                     ELSE IF d.fed THEN f ELSE e)
  BY DEF ChannelOpens
<1> HIDE DEF e, f
<1>8. Change(s, e) /\ Change(s, f)
  BY <1>2, <1>3, <1>4, <1>5, <1>6 DEF Change, Sound
<1>9. CASE d.message # "none"
  <2>1. Change(s, Exchanged(s, e, valid))
    BY <1>2, <1>3, <1>4, <1>5, <1>6, <1>9, ExchangedChanges
  <2> QED BY <1>7, <1>9, <2>1, BecomesKeeps
<1>10. CASE d.message = "none"
  BY <1>7, <1>8, <1>10, BecomesKeeps
<1> QED BY <1>9, <1>10

LEMMA ArrivesChanges ==
    ASSUME IInv, NEW s \in Session, Arrives(s)
    PROVE  IInv'
<1> DEFINE d == engine[s]
           e == [d EXCEPT !.inbox = engine[d.peer].message]
<1>1. d \in Engine /\ Sane(d)
  BY LiveEngine
<1>2. PICK valid \in BOOLEAN :
          Becomes(s, IF d.sent /\ ~d.ended THEN Checked(s, e, valid) ELSE e)
  BY DEF Arrives
<1>3. d.link /\ d.inbox = "none" /\ engine[d.peer].sent
  BY DEF Arrives
<1>4. d.proved /\ d.stage # "idle" /\ d.peer \in Session
  BY <1>1, <1>3, LiveEngine, EngineFields DEF Sane, Fresh
<1>5. engine[d.peer].message \in {"none", "confirm", "refusal"}
  BY <1>4, LiveEngine, EngineFields
<1>6. e \in Engine
  BY <1>1, <1>5 DEF Engine
<1>7. Sane(e)
  BY <1>1, <1>4, EngineFields DEF Sane, Engine
<1>8. Vouched(s, e) /\ Heard(e) /\ Agrees(s, e) /\ Keeps(d, e)
      /\ e.stage = d.stage /\ e.outcome = d.outcome /\ e.sent = d.sent
  BY <1>1, <1>3, LiveEngine DEF Vouched, Heard, Agrees, Keeps, Engine
<1> HIDE DEF e
<1>9. CASE d.sent /\ ~d.ended
  <2>1. Change(s, Checked(s, e, valid))
    BY <1>4, <1>6, <1>7, <1>8, <1>9, CheckedChanges
  <2> QED BY <1>2, <1>9, <2>1, BecomesKeeps
<1>10. CASE ~(d.sent /\ ~d.ended)
  <2>1. Change(s, e)
    BY <1>4, <1>6, <1>7, <1>8 DEF Change, Sound
  <2> QED BY <1>2, <1>10, <2>1, BecomesKeeps
<1> QED BY <1>9, <1>10

LEMMA TimeoutChanges ==
    ASSUME IInv, NEW s \in Session, Timeout(s)
    PROVE  IInv'
<1> DEFINE d == engine[s]
           o == IF d.deadline = "session" THEN "expired" ELSE "verified"
<1>1. d \in Engine /\ Sane(d) /\ Vouched(s, d) /\ Heard(d) /\ Agrees(s, d)
  BY LiveEngine
<1>2. d.deadline # "none" /\ Becomes(s, Finished(d, o))
  BY DEF Timeout
<1>3. d.stage # "idle"
  BY <1>2, LiveEngine DEF Fresh
<1>4. o \in {"expired", "verified"} /\ (o = "verified" => d.proved)
  BY <1>1, <1>2, EngineFields DEF Sane
<1>5. Keeps(d, d)
  BY DEF Keeps
<1> HIDE DEF o
<1>6. Change(s, Finished(d, o))
  BY <1>1, <1>3, <1>4, <1>5, FinishChanges DEF Outcome
<1> QED BY <1>2, <1>6, BecomesKeeps

-----------------------------------------------------------------------------
(* The user and the camera *)

LEMMA StartChanges ==
    ASSUME IInv, NEW p \in Phone, Start(p)
    PROVE  IInv'
<1> DEFINE n == starts[p] + 1
<1> USE DEF IInv
<1>1. /\ ~scanning[p] /\ starts[p] < MaxStarts[p]
      /\ starts' = [starts EXCEPT ![p] = n]
      /\ current' = [current EXCEPT ![p] = n]
      /\ starting' = [starting EXCEPT ![p] = @ \union {n}]
      /\ scanning' = [scanning EXCEPT ![p] = TRUE]
      /\ screen' = [screen EXCEPT ![p] = NoCode]
      /\ UNCHANGED <<camera, codes, engine>>
  BY DEF Start
<1>2. n \in Nat /\ n \in 1 .. MaxStarts[p] /\ starts[p] \in Nat
  <2>1. starts[p] \in Nat /\ MaxStarts[p] \in Nat
    BY HandshakeAssumption DEF TypeOK
  <2>2. starts[p] < MaxStarts[p]
    BY <1>1
  <2> QED BY <2>1, <2>2
<1>3. TypeOK'
  BY <1>1, <1>2 DEF TypeOK
<1>4. EnginesSound' /\ CodesDrawn'
  BY <1>1 DEF EnginesSound, CodesDrawn, Sound, Vouched, Heard, Agrees, Drawn
<1>5. Unstarted'
  <2>1. engine[<<p, n>>].stage = "idle"
    BY <1>2, Sessions DEF Unstarted
  <2>2. \A u \in Session : u[2] > starts'[u[1]] => u[2] > starts[u[1]]
    BY <1>1, <1>2, Sessions, HandshakeAssumption DEF TypeOK
  <2>3. \A x \in Phone : \A k \in starting'[x] :
            k \in 1 .. starts'[x] /\ engine[<<x, k>>].stage = "idle"
    <3> SUFFICES ASSUME NEW x \in Phone, NEW k \in starting'[x]
                 PROVE  k \in 1 .. starts'[x] /\ engine[<<x, k>>].stage = "idle"
      OBVIOUS
    <3>1. CASE x # p
      BY <1>1, <3>1 DEF TypeOK, Unstarted
    <3>2. CASE x = p
      <4>1. starting'[p] = starting[p] \union {n} /\ starts'[p] = n
        BY <1>1 DEF TypeOK
      <4>2. k \in starting[p] => k \in 1 .. starts[p] /\ engine[<<p, k>>].stage = "idle"
        BY DEF Unstarted
      <4>3. k \in 1 .. starts[p] => k \in 1 .. n
        BY <1>2
      <4>4. n \in 1 .. n
        BY <1>2
      <4> HIDE DEF n
      <4> QED BY <2>1, <3>2, <4>1, <4>2, <4>3, <4>4
    <3> QED BY <3>1, <3>2
  <2>4. \A x \in Phone : current'[x] \in starting'[x] => scanning'[x]
    BY <1>1 DEF TypeOK, Unstarted
  <2> QED BY <1>1, <2>2, <2>3, <2>4 DEF Unstarted
<1>6. CurrentUndisturbed'
  <2> SUFFICES ASSUME NEW u \in Session, Runs(u)
               PROVE  /\ current'[u[1]] = u[2] /\ scanning'[u[1]]
                      /\ screen'[u[1]] = CodeOf(u, engine[u])
                      /\ engine[u].fed \/ camera[u[1]]
    BY <1>1 DEF CurrentUndisturbed, Runs, CodeOf
  <2>1. u[1] # p
    BY <1>1 DEF CurrentUndisturbed
  <2> QED BY <1>1, <2>1, Sessions DEF CurrentUndisturbed, TypeOK
<1> QED BY <1>3, <1>4, <1>5, <1>6

LEMMA CameraChanges ==
    ASSUME IInv, NEW p \in Phone, NEW n \in starting[p], CameraStarts(p, n)
    PROVE  IInv'
<1> DEFINE s == <<p, n>>
           e == [Fresh EXCEPT !.stage = "A", !.deadline = "session"]
<1> USE DEF IInv
<1>1. /\ starting' = [starting EXCEPT ![p] = @ \ {n}]
      /\ camera' = [camera EXCEPT ![p] = n = current[p] \/ scanning[p]]
      /\ UNCHANGED <<starts, current, scanning>>
  BY DEF CameraStarts
<1>2. n \in 1 .. starts[p] /\ engine[s].stage = "idle" /\ starts[p] <= MaxStarts[p]
      /\ starts[p] \in Nat /\ MaxStarts[p] \in Nat
  BY HandshakeAssumption DEF Unstarted, TypeOK
<1>3. s \in Session /\ s[1] = p /\ s[2] = n /\ n \in Nat
  BY <1>2, Sessions
<1>4. engine[s] = Fresh
  BY <1>2, <1>3, LiveEngine
<1>5. e \in Engine /\ Sane(e)
  BY FreshIsSane, HandshakeAssumption DEF Engine, Fresh, Sane, Awaits, Outcome
<1>6. Sound(s, e) /\ Keeps(engine[s], e) /\ e.stage = "A" /\ e.ended = FALSE
  BY <1>4, <1>5 DEF Sound, Vouched, Heard, Agrees, Keeps, Fresh
<1>7. camera' \in [Phone -> BOOLEAN]
  <2>1. (n = current[p] \/ scanning[p]) \in BOOLEAN
    OBVIOUS
  <2> QED BY <1>1, <2>1 DEF TypeOK
<1>8. CASE n = current[p]
  <2>1. /\ engine' = [engine EXCEPT ![s] = e]
        /\ screen' = [screen EXCEPT ![p] = CodeOf(s, e)]
        /\ codes' = codes \union {CodeOf(s, e)}
    BY <1>8 DEF CameraStarts
  <2> HIDE DEF e, s
  <2>2. EnginesSound' /\ CodesDrawn' /\ codes' \subseteq Code /\ engine' \in [Session -> Engine]
    BY <1>3, <1>6, <2>1, OneChanges
  <2>3. screen' \in [Phone -> Code \union {NoCode}]
    BY <1>3, <1>5, <1>6, <2>1, CodeIsTyped DEF TypeOK
  <2>4. TypeOK'
    BY <1>1, <1>7, <2>2, <2>3 DEF TypeOK
  <2>5. Unstarted'
    <3>1. \A u \in Session : u # s => engine'[u] = engine[u]
      BY <2>1 DEF TypeOK
    <3>2. ASSUME NEW u \in Session, u[2] > starts[u[1]] PROVE engine'[u].stage = "idle"
      <4>1. u # s
        BY <1>2, <1>3, <3>2
      <4> QED BY <3>1, <3>2, <4>1 DEF Unstarted
    <3>3. ASSUME NEW x \in Phone, NEW k \in starting'[x]
          PROVE  k \in 1 .. starts[x] /\ engine'[<<x, k>>].stage = "idle"
      <4>1. k \in starting[x] /\ <<x, k>> # s
        BY <1>1 DEF TypeOK, s
      <4>2. k \in 1 .. starts[x] /\ engine[<<x, k>>].stage = "idle"
        BY <4>1 DEF Unstarted
      <4>3. starts[x] \in Nat /\ starts[x] <= MaxStarts[x] /\ MaxStarts[x] \in Nat
        BY HandshakeAssumption DEF TypeOK
      <4>4. <<x, k>> \in Session
        BY <4>2, <4>3, Sessions
      <4> QED BY <3>1, <4>1, <4>2, <4>4
    <3> QED BY <1>1, <3>2, <3>3 DEF Unstarted
  <2>6. CurrentUndisturbed'
    <3> SUFFICES ASSUME NEW u \in Session, Runs(u)'
                 PROVE  /\ current[u[1]] = u[2] /\ scanning[u[1]]
                        /\ screen'[u[1]] = CodeOf(u, engine'[u])
                        /\ engine'[u].fed \/ camera'[u[1]]
      BY <1>1 DEF CurrentUndisturbed
    <3>1. CASE u = s
      <4>1. engine'[u] = e
        BY <2>1, <3>1 DEF TypeOK
      <4>2. scanning[p]
        BY <1>8 DEF Unstarted
      <4> QED BY <1>1, <1>3, <1>8, <2>1, <3>1, <4>1, <4>2 DEF TypeOK
    <3>2. CASE u # s
      <4>1. engine'[u] = engine[u] /\ Runs(u)
        BY <2>1, <3>2 DEF TypeOK, Runs
      <4>2. current[u[1]] = u[2] /\ scanning[u[1]] /\ screen[u[1]] = CodeOf(u, engine[u])
            /\ (engine[u].fed \/ camera[u[1]])
        BY <4>1 DEF CurrentUndisturbed
      <4>3. u[1] # p
        BY <1>3, <1>8, <3>2, <4>2, Sessions DEF s
      <4> QED BY <1>1, <2>1, <4>1, <4>2, <4>3, Sessions DEF TypeOK
    <3> QED BY <3>1, <3>2
  <2> QED BY <2>2, <2>4, <2>5, <2>6
<1>9. CASE n # current[p]
  <2>1. UNCHANGED <<engine, screen, codes>>
    BY <1>9 DEF CameraStarts
  <2>2. TypeOK'
    BY <1>1, <1>7, <2>1 DEF TypeOK
  <2>3. EnginesSound' /\ CodesDrawn'
    BY <2>1 DEF EnginesSound, CodesDrawn, Sound, Vouched, Heard, Agrees, Drawn
  <2>4. Unstarted'
    BY <1>1, <2>1 DEF Unstarted, TypeOK
  <2>5. CurrentUndisturbed'
    BY <1>1, <2>1, Sessions DEF CurrentUndisturbed, Runs, CodeOf, TypeOK
  <2> QED BY <2>2, <2>3, <2>4, <2>5
<1> QED BY <1>8, <1>9

LEMMA CameraFailsChanges ==
    ASSUME IInv, NEW p \in Phone, NEW n \in starting[p], CameraFails(p, n)
    PROVE  IInv'
<1> USE DEF IInv
<1>1. /\ starting' = [starting EXCEPT ![p] = @ \ {n}]
      /\ scanning' = [scanning EXCEPT ![p] = @ /\ n # current[p]]
      /\ UNCHANGED <<starts, current, camera, screen, codes, engine>>
  BY DEF CameraFails
<1>2. scanning' \in [Phone -> BOOLEAN]
  <2>1. (scanning[p] /\ n # current[p]) \in BOOLEAN
    OBVIOUS
  <2> QED BY <1>1, <2>1 DEF TypeOK
<1>3. TypeOK'
  BY <1>1, <1>2 DEF TypeOK
<1>4. EnginesSound' /\ CodesDrawn'
  BY <1>1 DEF EnginesSound, CodesDrawn, Sound, Vouched, Heard, Agrees, Drawn
<1>5. Unstarted'
  BY <1>1 DEF Unstarted, TypeOK
<1>6. CurrentUndisturbed'
  <2> SUFFICES ASSUME NEW u \in Session, Runs(u) PROVE scanning'[u[1]]
    BY <1>1 DEF CurrentUndisturbed, Runs, CodeOf
  <2>1. current[u[1]] = u[2] /\ scanning[u[1]] /\ u = <<u[1], u[2]>> /\ u[1] \in Phone
    BY Sessions DEF CurrentUndisturbed
  <2>2. ~(u[1] = p /\ u[2] = n)
    BY <2>1 DEF Unstarted, Runs
  <2> QED BY <1>1, <2>1, <2>2 DEF TypeOK
<1> QED BY <1>3, <1>4, <1>5, <1>6

LEMMA StopChanges ==
    ASSUME IInv, NEW p \in Phone, Stop(p)
    PROVE  IInv'
<1> DEFINE s == <<p, current[p]>>
           d == engine[s]
           e == [d EXCEPT !.ended = TRUE, !.closed = TRUE, !.deadline = "none"]
           stops == s \in Session /\ d.stage # "idle"
<1> USE DEF IInv
<1>1. /\ scanning[p]
      /\ current' = [current EXCEPT ![p] = 0]
      /\ scanning' = [scanning EXCEPT ![p] = FALSE]
      /\ camera' = [camera EXCEPT ![p] = FALSE]
      /\ screen' = [screen EXCEPT ![p] = NoCode]
      /\ UNCHANGED <<starts, starting, codes>>
  BY DEF Stop
<1>2. stops => engine' = [engine EXCEPT ![s] = e]
  BY DEF Stop, TypeOK
<1>3. ~stops => engine' = engine
  BY DEF Stop
<1>4. stops => Sound(s, e) /\ Keeps(d, e) /\ e.stage = d.stage /\ e.ended
  <2> SUFFICES ASSUME stops PROVE Sound(s, e) /\ Keeps(d, e) /\ e.stage = d.stage /\ e.ended
    OBVIOUS
  <2> HIDE DEF s
  <2>1. d \in Engine /\ Sane(d) /\ Vouched(s, d) /\ Heard(d) /\ Agrees(s, d)
    BY LiveEngine
  <2>2. e \in Engine
    BY <2>1 DEF Engine
  <2>3. Sane(e)
    BY <2>1, EngineFields DEF Sane, Engine
  <2>4. Vouched(s, e) /\ Heard(e) /\ Agrees(s, e) /\ Keeps(d, e) /\ e.stage = d.stage /\ e.ended
    BY <2>1 DEF Vouched, Heard, Agrees, Keeps, Engine
  <2> QED BY <2>2, <2>3, <2>4 DEF Sound
<1> HIDE DEF e
<1>5. EnginesSound' /\ CodesDrawn' /\ codes' \subseteq Code /\ engine' \in [Session -> Engine]
  <2>1. CASE stops
    <3> HIDE DEF s
    <3> QED BY <1>1, <1>2, <1>4, <2>1, OneChanges
  <2>2. CASE ~stops
    BY <1>1, <1>3, <2>2
        DEF EnginesSound, CodesDrawn, Sound, Vouched, Heard, Agrees, Drawn, TypeOK
  <2> QED BY <2>1, <2>2
<1>6. TypeOK'
  <2>1. \A x \in Phone : 0 <= starts[x]
    BY DEF TypeOK
  <2> QED BY <1>1, <1>5, <2>1 DEF TypeOK
<1>7. \A u \in Session : engine'[u] = IF stops /\ u = s THEN e ELSE engine[u]
  <2> HIDE DEF s
  <2> QED BY <1>2, <1>3 DEF TypeOK
<1>8. Unstarted'
  <2>1. \A u \in Session : engine[u].stage = "idle" => engine'[u].stage = "idle"
    BY <1>4, <1>7
  <2>2. \A x \in Phone : \A k \in starting[x] : <<x, k>> \in Session /\ k # 0
    <3> SUFFICES ASSUME NEW x \in Phone, NEW k \in starting[x]
                 PROVE  <<x, k>> \in Session /\ k # 0
      OBVIOUS
    <3>1. k \in 1 .. starts[x]
      BY DEF Unstarted
    <3>2. starts[x] \in Nat /\ starts[x] <= MaxStarts[x] /\ MaxStarts[x] \in Nat
      BY HandshakeAssumption DEF TypeOK
    <3> QED BY <3>1, <3>2, Sessions
  <2>3. \A x \in Phone : current'[x] \in starting[x] => scanning'[x]
    BY <1>1, <2>2 DEF Unstarted, TypeOK
  <2> QED BY <1>1, <2>1, <2>2, <2>3 DEF Unstarted
<1>9. CurrentUndisturbed'
  <2> SUFFICES ASSUME NEW u \in Session, Runs(u)'
               PROVE  /\ current'[u[1]] = u[2] /\ scanning'[u[1]]
                      /\ screen'[u[1]] = CodeOf(u, engine'[u])
                      /\ engine'[u].fed \/ camera'[u[1]]
    BY DEF CurrentUndisturbed
  <2>1. engine'[u] = engine[u] /\ Runs(u)
    BY <1>4, <1>7 DEF Runs
  <2>2. current[u[1]] = u[2] /\ scanning[u[1]] /\ screen[u[1]] = CodeOf(u, engine[u])
        /\ (engine[u].fed \/ camera[u[1]])
    BY <2>1 DEF CurrentUndisturbed
  <2>3. u[1] # p
    <3>1. SUFFICES ASSUME u[1] = p PROVE FALSE
      OBVIOUS
    <3>2. u = s
      BY <2>2, <3>1, Sessions
    <3>3. engine'[u].ended
      BY <2>1, <3>2, <1>4, <1>7 DEF Runs
    <3> QED BY <2>1, <3>3 DEF Runs
  <2> QED BY <1>1, <2>1, <2>2, <2>3, Sessions DEF TypeOK
<1> QED BY <1>5, <1>6, <1>8, <1>9

-----------------------------------------------------------------------------
(* The theorems *)

LEMMA InitIsSound == Init => IInv
<1> SUFFICES ASSUME Init PROVE IInv
  OBVIOUS
<1> USE DEF Init
<1>1. engine \in [Session -> Engine] /\ \A s \in Session : engine[s] = Fresh
  BY FreshIsSane
<1>2. Fresh.stage = "idle" /\ Fresh.outcome = "none" /\ Fresh.proved = FALSE /\ Fresh.inbox = "none"
  BY DEF Fresh
<1>3. TypeOK
  BY <1>1, HandshakeAssumption DEF TypeOK
<1>4. EnginesSound
  BY <1>1, <1>2, FreshIsSane DEF EnginesSound, Sound, Vouched, Heard, Agrees
<1>5. CodesDrawn /\ Unstarted /\ CurrentUndisturbed
  BY <1>1, <1>2 DEF CodesDrawn, Unstarted, CurrentUndisturbed, Runs
<1> QED BY <1>3, <1>4, <1>5 DEF IInv

LEMMA StepIsSound == IInv /\ [Next]_vars => IInv'
<1> SUFFICES ASSUME IInv, [Next]_vars PROVE IInv'
  OBVIOUS
<1>1. ASSUME NEW p \in Phone, Start(p) PROVE IInv'
  BY <1>1, StartChanges
<1>2. ASSUME NEW p \in Phone, Stop(p) PROVE IInv'
  BY <1>2, StopChanges
<1>3. ASSUME NEW p \in Phone, NEW n \in starting[p], CameraStarts(p, n) \/ CameraFails(p, n)
      PROVE  IInv'
  BY <1>3, CameraChanges, CameraFailsChanges
<1>4. ASSUME NEW s \in Session, SignFails(s) PROVE IInv'
  BY <1>4, SignFailsChanges
<1>5. ASSUME NEW s \in Session, NoAddress(s) PROVE IInv'
  BY <1>5, NoAddressChanges
<1>6. ASSUME NEW s \in Session, Shows(s, "A", "B") \/ Shows(s, "B", "C") PROVE IInv'
  BY <1>6, ShowsChanges
<1>7. ASSUME NEW s \in Session, OwnPayload(s) \/ FeedFails(s) PROVE IInv'
  BY <1>7, FeedingChanges
<1>8. ASSUME NEW s \in Session, Feeds(s) PROVE IInv'
  BY <1>8, FeedsChanges
<1>9. ASSUME NEW s \in Session, Confirms(s) PROVE IInv'
  BY <1>9, ConfirmsChanges
<1>10. ASSUME NEW s \in Session, ChannelOpens(s) PROVE IInv'
  BY <1>10, ChannelOpensChanges
<1>11. ASSUME NEW s \in Session, Arrives(s) PROVE IInv'
  BY <1>11, ArrivesChanges
<1>12. ASSUME NEW s \in Session, Timeout(s) PROVE IInv'
  BY <1>12, TimeoutChanges
<1>13. ASSUME NEW s \in Session, NEW c \in codes, Read(s, c) PROVE IInv'
  BY <1>13, ReadAChanges, ReadBChanges, ReadCChanges DEF Read
<1>14. CASE UNCHANGED vars
  BY <1>14 DEF vars, IInv, TypeOK, EnginesSound, CodesDrawn, Unstarted, CurrentUndisturbed,
               Sound, Vouched, Heard, Agrees, Drawn, Runs, CodeOf
<1> QED BY <1>1, <1>2, <1>3, <1>4, <1>5, <1>6, <1>7, <1>8, <1>9, <1>10, <1>11, <1>12, <1>13,
           <1>14 DEF Next, Awaited

LEMMA AlwaysSound == Spec => []IInv
BY InitIsSound, StepIsSound, PTL DEF Spec

\* The state stays typed: no signature is tried beyond its attempts (SIGN_ATTEMPTS).
THEOREM HandshakeTypeCorrect == Spec => []TypeOK
<1>1. IInv => TypeOK
  BY DEF IInv
<1> QED BY <1>1, AlwaysSound, PTL

\* A proved or confirmed session was answered by its peer, whatever old code is read.
THEOREM ProofIsInPerson == Spec => []ProvenInPerson
<1>1. IInv => ProvenInPerson
  <2> SUFFICES ASSUME IInv, NEW s \in Session,
                      engine[s].outcome \in {"verified", "confirmed"}
               PROVE  /\ engine[s].peer # NoSession
                      /\ engine[engine[s].peer].peer = s
                      /\ engine[engine[s].peer].signed
    BY DEF ProvenInPerson
  <2> QED BY LiveEngine DEF Sane, Vouched
<1> QED BY <1>1, AlwaysSound, PTL

\* A confirmed session and its peer confirmed each other over the same transcript and
\* fingerprints; a refusal, or a message of another session, confirms nobody.
THEOREM ConfirmedAgree == Spec => []Agreement
<1>1. IInv => Agreement
  BY LiveEngine DEF Agreement, Agrees
<1> QED BY <1>1, AlwaysSound, PTL

\* No older session or start draws over the running session or stops its camera.
THEOREM SessionUndisturbed == Spec => []CurrentUndisturbed
<1>1. IInv => CurrentUndisturbed
  BY DEF IInv
<1> QED BY <1>1, AlwaysSound, PTL
=============================================================================
