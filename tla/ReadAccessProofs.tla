-------------------------- MODULE ReadAccessProofs --------------------------
(***************************************************************************)
(* Theorems about ReadAccess for any streams, shapes, accounts and number  *)
(* of logouts and changes of the server, checked by TLAPS.                 *)
(***************************************************************************)
EXTENDS ReadAccess, TLAPS

-----------------------------------------------------------------------------
(* The inductive invariant                                                 *)

\* An open was begun in this session or an earlier one, for an account if it has asked.
Begun ==
    /\ \A h \in Shape, g \in Gen :
          /\ opening[<<h, g>>].pc # "idle" => g \leq generation
          /\ opening[<<h, g>>].pc \in {"asking", "answered", "recovering"}
                => opening[<<h, g>>].user \in User
    /\ \A h \in Shape : inflight[h] \in {NoGen, generation}

\* Every blocked shape is probed or about to be, and lists whoever waits for it.
Attended ==
    /\ \A h \in blocked : h \in timer \/ probes[h] # {}
    /\ \A h \in Shape : probes[h] # {} => inflight[h] = generation
    /\ \A s \in Stream : stream[s] = "parked" =>
          ShapeOf[s] \in blocked /\ s \in waiters[ShapeOf[s]]

\* An open was told that its card is unknown only while the server has none that this
\* session passed, or else it knows that one was passed since.
ToldTrue ==
    \A h \in Shape, g \in Gen :
        LET o == opening[<<h, g>>] IN
        o.pc = "answered" /\ o.verdict = "unknown" /\ ~o.late /\ ~o.again
            => <<o.user, g>> \notin server.cards

IInv == TypeOK /\ Begun /\ SingleFlight /\ NoForeignToken /\ Attended /\ ToldTrue

LEMMA Constants ==
    /\ 0 \in Gen /\ NoGen \notin Gen /\ NoUser \notin User
    /\ \A g \in Gen : g \in Nat /\ g \leq MaxEvents
    /\ \A s \in Stream : ShapeOf[s] \in Shape
BY ReadAccessAssumption DEF Gen

LEMMA NoneOpen ==
    /\ NoOpen \in Open /\ NoToken \in Token
    /\ NoOpen.pc = "idle" /\ NoOpen.user = NoUser
    /\ [NoOpen EXCEPT !.pc = "starting"] \in Open
    /\ [NoOpen EXCEPT !.pc = "starting"].pc = "starting"
BY DEF NoOpen, Open, NoToken, Token

LEMMA Initially == Init => IInv
<1> SUFFICES ASSUME Init PROVE IInv
  OBVIOUS
<1>1. \A h \in Shape, g \in Gen : opening[<<h, g>>] = NoOpen
  BY DEF Init
<1>2. server \in [granted : SUBSET (User \X Shape),
                  cards : SUBSET (User \X (Gen \union {NoGen})),
                  free : BOOLEAN, changes : 0 .. MaxEvents]
  <2>1. PICK c \in Starting : server = [granted |-> c.granted, cards |-> c.known \X {NoGen},
                                        free |-> FALSE, changes |-> 0]
    BY DEF Init
  <2>2. c.granted \in SUBSET (User \X Shape) /\ c.known \in SUBSET User
    BY ReadAccessAssumption
  <2> QED BY <2>1, <2>2, ReadAccessAssumption
<1>3. TypeOK
  BY <1>2, Constants, NoneOpen DEF Init, TypeOK, Standing
<1>4. Begun /\ SingleFlight
  BY <1>1, NoneOpen, Constants DEF Init, Begun, SingleFlight
<1>5. NoForeignToken /\ Attended
  BY DEF Init, NoForeignToken, NoToken, Attended
<1>6. ToldTrue
  BY <1>1, NoneOpen DEF ToldTrue
<1> QED BY <1>3, <1>4, <1>5, <1>6 DEF IInv

-----------------------------------------------------------------------------
(* What opening, closing and moving an open keeps                          *)

\* Joining or starting the opens of some shapes.
LEMMA OpensKeeps ==
    ASSUME IInv, NEW H \in SUBSET Shape, Opens(H), UNCHANGED <<generation, server>>
    PROVE  /\ inflight' \in [Shape -> Gen \union {NoGen}]
           /\ opening' \in [Shape \X Gen -> Open]
           /\ Begun' /\ SingleFlight' /\ ToldTrue'
           /\ \A h \in Shape : inflight[h] = generation => inflight'[h] = generation
           /\ \A h \in H : inflight'[h] = generation
<1> DEFINE first == {h \in H : inflight[h] = NoGen}
<1>1. generation \in Gen /\ inflight \in [Shape -> Gen \union {NoGen}]
      /\ opening \in [Shape \X Gen -> Open]
  BY DEF IInv, TypeOK
<1>2. \A h \in Shape : inflight'[h] = IF h \in first THEN generation ELSE inflight[h]
  BY DEF Opens
<1>3. \A h \in Shape, g \in Gen :
          opening'[<<h, g>>] = IF h \in first /\ g = generation
                               THEN [NoOpen EXCEPT !.pc = "starting"] ELSE opening[<<h, g>>]
  BY DEF Opens
<1>4. inflight' \in [Shape -> Gen \union {NoGen}] /\ opening' \in [Shape \X Gen -> Open]
  BY <1>1, NoneOpen DEF Opens
<1>5. \A h \in H : inflight'[h] = generation
  BY <1>2 DEF IInv, Begun
<1>6. \A h \in Shape : inflight[h] = generation => inflight'[h] = generation
  BY <1>2
<1>7. Begun'
  <2>1. \A h \in Shape : inflight'[h] \in {NoGen, generation'}
    BY <1>2 DEF IInv, Begun
  <2>2. ASSUME NEW h \in Shape, NEW g \in Gen
        PROVE  /\ opening'[<<h, g>>].pc # "idle" => g \leq generation'
               /\ opening'[<<h, g>>].pc \in {"asking", "answered", "recovering"}
                     => opening'[<<h, g>>].user \in User
    <3>1. CASE h \in first /\ g = generation
      <4>1. opening'[<<h, g>>].pc = "starting"
        BY <1>3, <2>2, <3>1, NoneOpen
      <4>2. g \leq generation'
        BY <1>1, <3>1, Constants
      <4> QED BY <4>1, <4>2
    <3>2. CASE ~(h \in first /\ g = generation)
      BY <1>3, <2>2, <3>2 DEF IInv, Begun
    <3> QED BY <3>1, <3>2
  <2> QED BY <2>1, <2>2 DEF Begun
<1>8. SingleFlight'
  BY <1>1, <1>2, <1>3, NoneOpen, Constants DEF IInv, Begun, SingleFlight
<1>9. ToldTrue'
  BY <1>3, NoneOpen DEF IInv, ToldTrue
<1> QED BY <1>4, <1>5, <1>6, <1>7, <1>8, <1>9

\* Closing one.
LEMMA ClosedKeeps ==
    ASSUME IInv, NEW h \in Shape, NEW g \in Gen, Closed(h, g),
           UNCHANGED <<generation, server>>
    PROVE  /\ inflight' \in [Shape -> Gen \union {NoGen}]
           /\ opening' \in [Shape \X Gen -> Open]
           /\ Begun' /\ SingleFlight' /\ ToldTrue'
           /\ \A k \in Shape : inflight[k] = generation /\ (k # h \/ g # generation)
                                  => inflight'[k] = generation
<1>1. generation \in Gen /\ inflight \in [Shape -> Gen \union {NoGen}]
      /\ opening \in [Shape \X Gen -> Open]
  BY DEF IInv, TypeOK
<1>2. \A k \in Shape : inflight'[k] = IF k = h /\ inflight[k] = g THEN NoGen ELSE inflight[k]
  BY <1>1 DEF Closed
<1>3. \A k \in Shape, m \in Gen :
          opening'[<<k, m>>] = IF k = h /\ m = g THEN NoOpen ELSE opening[<<k, m>>]
  BY <1>1 DEF Closed
<1>4. inflight' \in [Shape -> Gen \union {NoGen}] /\ opening' \in [Shape \X Gen -> Open]
  BY <1>1, NoneOpen DEF Closed
<1>5. Begun'
  BY <1>1, <1>2, <1>3, NoneOpen, Constants DEF IInv, Begun
<1>6. SingleFlight'
  <2>1. ASSUME NEW k \in Shape
        PROVE  (opening'[<<k, generation>>].pc # "idle") <=> (inflight'[k] = generation)
    <3>1. CASE k = h /\ g = generation
      BY <1>1, <1>2, <1>3, <3>1, NoneOpen, Constants DEF IInv, SingleFlight
    <3>2. CASE ~(k = h /\ g = generation)
      <4>1. opening'[<<k, generation>>] = opening[<<k, generation>>]
        BY <1>1, <1>3, <3>2
      <4>2. (inflight'[k] = generation) <=> (inflight[k] = generation)
        BY <1>1, <1>2, <3>2, Constants
      <4> QED BY <4>1, <4>2 DEF IInv, SingleFlight
    <3> QED BY <3>1, <3>2
  <2> QED BY <1>1, <2>1, <1>2 DEF SingleFlight
<1>7. ToldTrue'
  BY <1>3, NoneOpen DEF IInv, ToldTrue
<1> QED BY <1>2, <1>4, <1>5, <1>6, <1>7

\* One that goes on: it was under way, and if it is told that the card is unknown, the
\* server has none of this session.
LEMMA MovesKeeps ==
    ASSUME IInv, NEW h \in Shape, NEW g \in Gen, NEW o \in Open, Moves(h, g, o),
           UNCHANGED <<user, generation, server>>,
           opening[<<h, g>>].pc # "idle", o.pc # "idle",
           o.pc \in {"asking", "answered", "recovering"} => o.user \in User,
           o.pc = "answered" /\ o.verdict = "unknown" /\ ~o.late /\ ~o.again
              => <<o.user, g>> \notin server.cards,
           ended' \in [User -> {"no", "refused", "failed"}], recovering' \in SUBSET (User \X Gen)
    PROVE  IInv'
<1>1. generation \in Gen /\ inflight \in [Shape -> Gen \union {NoGen}]
      /\ opening \in [Shape \X Gen -> Open]
  BY DEF IInv, TypeOK
<1>2. \A k \in Shape, m \in Gen :
          opening'[<<k, m>>] = IF k = h /\ m = g THEN o ELSE opening[<<k, m>>]
  BY <1>1 DEF Moves
<1>3. TypeOK'
  BY <1>1 DEF IInv, TypeOK, Moves
<1>4. Begun' /\ SingleFlight'
  <2>1. UNCHANGED <<inflight, generation>>
    BY DEF Moves
  <2>2. Begun'
    BY <1>1, <1>2, <2>1 DEF IInv, Begun
  <2>3. ASSUME NEW k \in Shape
        PROVE  (opening'[<<k, generation>>].pc # "idle") <=> (inflight[k] = generation)
    <3>1. CASE k = h /\ g = generation
      BY <1>1, <1>2, <3>1 DEF IInv, SingleFlight
    <3>2. CASE ~(k = h /\ g = generation)
      BY <1>1, <1>2, <3>2 DEF IInv, SingleFlight
    <3> QED BY <3>1, <3>2
  <2> QED BY <2>1, <2>2, <2>3 DEF SingleFlight
<1>5. NoForeignToken' /\ Attended'
  BY DEF IInv, NoForeignToken, Attended, Moves
<1>6. ToldTrue'
  BY <1>2 DEF IInv, ToldTrue
<1> QED BY <1>3, <1>4, <1>5, <1>6 DEF IInv

LEMMA JoinedAre ==
    ASSUME NEW h \in Shape, NEW g \in Gen
    PROVE  /\ Joined(h, g) \subseteq Stream
           /\ \A s \in Joined(h, g) : ShapeOf[s] = h /\ stream[s] = "opening"
BY DEF Joined

\* One that ends with a session.
LEMMA SucceedsKeeps ==
    ASSUME IInv, NEW h \in Shape, Succeeds(h, generation), Kept
    PROVE  IInv'
<1>1. generation \in Gen
  BY DEF IInv, TypeOK
<1>2. Closed(h, generation) /\ UNCHANGED <<generation, server>>
  BY DEF Succeeds, Kept
<1>3. /\ inflight' \in [Shape -> Gen \union {NoGen}]
      /\ opening' \in [Shape \X Gen -> Open]
      /\ Begun' /\ SingleFlight' /\ ToldTrue'
      /\ \A k \in Shape : inflight[k] = generation /\ k # h => inflight'[k] = generation
  BY <1>1, <1>2, ClosedKeeps
<1>4. TypeOK'
  <2>1. [of |-> generation, good |-> TRUE] \in Token
    BY <1>1 DEF Token
  <2>2. awaits' \in [Stream -> Gen] /\ stream' \in [Stream -> Standing]
    BY Constants DEF IInv, TypeOK, Succeeds, Standing
  <2> QED BY <1>3, <2>1, <2>2 DEF IInv, TypeOK, Succeeds, Kept
<1>5. NoForeignToken'
  BY <1>1, <1>2 DEF IInv, TypeOK, NoForeignToken, Succeeds
<1>6. Attended'
  BY <1>1, <1>2, <1>3 DEF IInv, TypeOK, Attended, Succeeds
<1> QED BY <1>3, <1>4, <1>5, <1>6 DEF IInv

\* One that ends with none.
LEMMA FailsKeeps ==
    ASSUME IInv, NEW h \in Shape, NEW g \in Gen, NEW b, b \in {blocked, blocked \union {h}},
           NEW threw \in BOOLEAN, Fails(h, g, b, threw), UNCHANGED <<user, generation, server>>,
           ended' \in [User -> {"no", "refused", "failed"}], recovering' \in SUBSET (User \X Gen)
    PROVE  IInv'
<1> DEFINE mine == h \in b /\ inflight[h] = g
           woken == IF mine /\ "asked" \in probes[h] THEN waiters[h] ELSE {}
           parked == IF h \in b /\ ~threw THEN Joined(h, g) ELSE {}
<1>1. /\ generation \in Gen /\ blocked \in SUBSET Shape /\ timer \subseteq blocked
      /\ inflight \in [Shape -> Gen \union {NoGen}]
      /\ probes \in [Shape -> SUBSET {"timer", "asked"}]
      /\ waiters \in [Shape -> SUBSET Stream] /\ stream \in [Stream -> Standing]
  BY DEF IInv, TypeOK
<1>2. Closed(h, g)
  BY DEF Fails
<1>3. /\ inflight' \in [Shape -> Gen \union {NoGen}]
      /\ opening' \in [Shape \X Gen -> Open]
      /\ Begun' /\ SingleFlight' /\ ToldTrue'
      /\ \A k \in Shape : inflight[k] = generation /\ (k # h \/ g # generation)
                             => inflight'[k] = generation
  BY <1>2, ClosedKeeps
<1>4. /\ blocked' = b
      /\ timer' = IF h \in b /\ (h \notin blocked \/ (mine /\ probes[h] # {}))
                  THEN timer \union {h} ELSE timer
      /\ probes' = IF inflight[h] = g THEN [probes EXCEPT ![h] = {}] ELSE probes
      /\ waiters' = [waiters EXCEPT ![h] = (@ \ woken) \union parked]
      /\ stream' = [s \in Stream |->
                     IF s \in Joined(h, g)
                     THEN IF threw THEN "stopped" ELSE IF h \in b THEN "parked" ELSE "signIn"
                     ELSE IF s \in woken THEN "ready" ELSE stream[s]]
      /\ wasParked' = wasParked \union parked
      /\ awaits' = [s \in Stream |-> IF s \in Joined(h, g) THEN 0 ELSE awaits[s]]
      /\ UNCHANGED <<token, renewal>>
  BY DEF Fails
<1>5. parked \subseteq Stream /\ woken \subseteq Stream
  BY <1>1, JoinedAre
<1> HIDE DEF mine, woken, parked
<1>6. TypeOK'
  <2>1. timer' \subseteq blocked' /\ blocked' \subseteq Shape
    BY <1>1, <1>4
  <2>2. stream' \in [Stream -> Standing]
    BY <1>1, <1>4 DEF Standing
  <2>3. awaits' \in [Stream -> Gen]
    BY <1>4, Constants DEF IInv, TypeOK
  <2>4. waiters' \in [Shape -> SUBSET Stream] /\ wasParked' \subseteq Stream
    BY <1>1, <1>4, <1>5 DEF IInv, TypeOK
  <2>5. probes' \in [Shape -> SUBSET {"timer", "asked"}]
    BY <1>1, <1>4
  <2>6. token' \in [Shape -> Token] /\ renewal' \subseteq Shape
    BY <1>4 DEF IInv, TypeOK
  <2> QED BY <1>3, <2>1, <2>2, <2>3, <2>4, <2>5, <2>6 DEF IInv, TypeOK
<1>7. NoForeignToken'
  BY <1>4 DEF IInv, NoForeignToken
<1>8. Attended'
  <2>1. ASSUME NEW k \in blocked' PROVE k \in timer' \/ probes'[k] # {}
    <3>1. CASE k # h
      BY <1>1, <1>4, <2>1, <3>1 DEF IInv, Attended
    <3>2. CASE k = h /\ h \notin blocked
      BY <1>4, <2>1, <3>2
    <3>3. CASE k = h /\ h \in blocked /\ inflight[h] # g
      BY <1>4, <2>1, <3>3 DEF IInv, Attended
    <3>4. CASE k = h /\ h \in blocked /\ inflight[h] = g
      BY <1>4, <2>1, <3>4 DEF IInv, Attended, mine
    <3> QED BY <3>1, <3>2, <3>3, <3>4
  <2>2. ASSUME NEW k \in Shape, probes'[k] # {} PROVE inflight'[k] = generation'
    BY <1>1, <1>3, <1>4, <2>2 DEF IInv, Attended
  <2>3. ASSUME NEW s \in Stream, stream'[s] = "parked"
        PROVE  ShapeOf[s] \in blocked' /\ s \in waiters'[ShapeOf[s]]
    <3>1. CASE s \in Joined(h, g)
      <4>1. ShapeOf[s] = h
        BY <3>1, JoinedAre
      <4>2. h \in b /\ ~threw
        BY <1>4, <2>3, <3>1
      <4> QED BY <1>1, <1>4, <3>1, <4>1, <4>2 DEF parked
    <3>2. CASE s \notin Joined(h, g)
      <4>1. stream[s] = "parked" /\ s \notin woken
        BY <1>4, <2>3, <3>2
      <4>2. ShapeOf[s] \in blocked /\ s \in waiters[ShapeOf[s]]
        BY <4>1 DEF IInv, Attended
      <4> QED BY <1>1, <1>4, <4>1, <4>2, Constants
    <3> QED BY <3>1, <3>2
  <2> QED BY <2>1, <2>2, <2>3 DEF Attended
<1> QED BY <1>3, <1>6, <1>7, <1>8 DEF IInv

-----------------------------------------------------------------------------
(* The steps of an open                                                    *)

LEMMA OpenAt ==
    ASSUME IInv, NEW h \in Shape, NEW g \in Gen
    PROVE  /\ opening[<<h, g>>] \in Open
           /\ opening[<<h, g>>].user \in User \union {NoUser}
           /\ opening[<<h, g>>].late \in BOOLEAN /\ opening[<<h, g>>].again \in BOOLEAN
           /\ ended \in [User -> {"no", "refused", "failed"}]
           /\ recovering \in SUBSET (User \X Gen)
BY DEF IInv, TypeOK, Open

LEMMA BeginKeeps ==
    ASSUME IInv, NEW h \in Shape, NEW g \in Gen, Begin(h, g)
    PROVE  IInv'
<1> DEFINE o == [opening[<<h, g>>] EXCEPT !.pc = "asking", !.user = user]
<1>1. CASE g # generation \/ user = NoUser
  BY <1>1, OpenAt, FailsKeeps DEF Begin, Kept
<1>2. CASE ~(g # generation \/ user = NoUser)
  <2>1. user \in User
    BY <1>2 DEF IInv, TypeOK
  <2>2. o \in Open /\ o.pc = "asking" /\ o.user = user
    BY <2>1, OpenAt DEF Open
  <2>3. Moves(h, g, o) /\ opening[<<h, g>>].pc = "starting" /\ Kept
    BY <1>2 DEF Begin
  <2> HIDE DEF o
  <2> QED BY <2>1, <2>2, <2>3, OpenAt, MovesKeeps DEF Kept
<1> QED BY <1>1, <1>2

LEMMA JudgeKeeps ==
    ASSUME IInv, NEW h \in Shape, NEW g \in Gen, Judge(h, g)
    PROVE  IInv'
<1> DEFINE v == IF ~Known(opening[<<h, g>>].user) THEN "unknown"
                ELSE IF <<opening[<<h, g>>].user, h>> \in server.granted THEN "opened"
                ELSE "blocked"
           o == [opening[<<h, g>>] EXCEPT !.pc = "answered", !.verdict = v]
<1>1. Moves(h, g, o) /\ opening[<<h, g>>].pc = "asking" /\ Kept
  BY DEF Judge
<1>2. opening[<<h, g>>].user \in User
  BY <1>1 DEF IInv, Begun
<1>3. o \in Open /\ o.pc = "answered" /\ o.user = opening[<<h, g>>].user /\ o.verdict = v
  BY OpenAt DEF Open
<1>4. v = "unknown" => <<o.user, g>> \notin server.cards
  BY <1>3 DEF Known
<1> HIDE DEF o, v
<1> QED BY <1>1, <1>2, <1>3, <1>4, OpenAt, MovesKeeps DEF Kept

LEMMA EndsKeep ==
    ASSUME IInv, NEW h \in Shape, NEW g \in Gen,
           RequestFails(h, g) \/ Stale(h, g) \/ NotInTrustChain(h, g) \/ CardMissing(h, g)
    PROVE  IInv'
<1>1. CASE RequestFails(h, g)
  BY <1>1, OpenAt, FailsKeeps DEF RequestFails, Kept
<1>2. CASE Stale(h, g)
  BY <1>2, OpenAt, FailsKeeps DEF Stale, Kept
<1>3. CASE NotInTrustChain(h, g)
  BY <1>3, OpenAt, FailsKeeps DEF NotInTrustChain, Kept
<1>4. CASE CardMissing(h, g)
  <2> DEFINE t == (g = generation)
  <2>1. t \in BOOLEAN /\ Fails(h, g, blocked, t) /\ Kept
    BY <1>4 DEF CardMissing
  <2> HIDE DEF t
  <2> QED BY <2>1, OpenAt, FailsKeeps DEF Kept
<1> QED BY <1>1, <1>2, <1>3, <1>4

LEMMA OpenedKeeps ==
    ASSUME IInv, NEW h \in Shape, NEW g \in Gen, Opened(h, g)
    PROVE  IInv'
BY SucceedsKeeps DEF Opened

LEMMA UnknownUserKeeps ==
    ASSUME IInv, NEW h \in Shape, NEW g \in Gen, UnknownUser(h, g)
    PROVE  /\ IInv'
           /\ \A u \in User, m \in Gen :
                 <<u, m>> \in recovering' \ recovering => <<u, m>> \notin server.cards
<1> DEFINE o == opening[<<h, g>>]
           again == [o EXCEPT !.pc = "asking", !.late = FALSE, !.again = TRUE]
           passing == [o EXCEPT !.pc = "recovering"]
<1>1. /\ o.pc = "answered" /\ o.verdict = "unknown" /\ o.user \in User
      /\ UNCHANGED <<user, generation, server>>
  BY DEF UnknownUser, IInv, Begun
<1>2. /\ again \in Open /\ again.pc = "asking" /\ again.user = o.user
      /\ passing \in Open /\ passing.pc = "recovering" /\ passing.user = o.user
  BY OpenAt DEF Open
<1>3. CASE o.again
  <2>1. ended' = [ended EXCEPT ![o.user] = "refused"] /\ UNCHANGED recovering
        /\ Fails(h, g, blocked, FALSE)
    BY <1>3 DEF UnknownUser
  <2>2. ended' \in [User -> {"no", "refused", "failed"}]
    BY <2>1, OpenAt
  <2> QED BY <1>1, <2>1, <2>2, OpenAt, FailsKeeps
<1>4. CASE ~o.again /\ ended[o.user] # "no"
  <2> DEFINE t == (ended[o.user] = "failed")
  <2>1. t \in BOOLEAN /\ Fails(h, g, blocked, t) /\ UNCHANGED <<ended, recovering>>
    BY <1>4 DEF UnknownUser
  <2> HIDE DEF t
  <2> QED BY <1>1, <2>1, OpenAt, FailsKeeps
<1>5. CASE ~o.again /\ ended[o.user] = "no" /\ o.late
  <2>1. Moves(h, g, again) /\ UNCHANGED <<ended, recovering>>
    BY <1>5 DEF UnknownUser
  <2> HIDE DEF again, passing
  <2> QED BY <1>1, <1>2, <2>1, OpenAt, MovesKeeps
<1>6. CASE ~o.again /\ ended[o.user] = "no" /\ ~o.late
  <2>1. Moves(h, g, passing) /\ recovering' = recovering \union {<<o.user, g>>}
        /\ UNCHANGED ended
    BY <1>6 DEF UnknownUser
  <2>2. <<o.user, g>> \notin server.cards
    BY <1>1, <1>6 DEF IInv, ToldTrue
  <2>3. recovering' \in SUBSET (User \X Gen)
    BY <1>1, <2>1, OpenAt
  <2> HIDE DEF again, passing
  <2> QED BY <1>1, <1>2, <2>1, <2>2, <2>3, OpenAt, MovesKeeps
<1>7. o.again \in BOOLEAN /\ o.late \in BOOLEAN
  BY OpenAt
<1> QED BY <1>3, <1>4, <1>5, <1>6, <1>7

\* What a change of the cards and of nothing else an open depends on keeps.
LEMMA CardAcceptedKeeps ==
    ASSUME IInv, NEW u \in User, NEW g \in Gen, CardAccepted(u, g)
    PROVE  IInv'
<1> DEFINE wakes(p) == p.pc = "recovering" /\ p.user = u
           after(p, m) == IF p.pc = "recovering" /\ m = g /\ p.user = u
                          THEN [p EXCEPT !.pc = "asking", !.again = TRUE]
                          ELSE [p EXCEPT !.late =
                                  \/ @
                                  \/ p.pc \in {"asking", "answered"} /\ ~p.again]
<1>1. opening \in [Shape \X Gen -> Open] /\ generation \in Gen
  BY DEF IInv, TypeOK
<1>2. \A h \in Shape, m \in Gen : opening'[<<h, m>>] = after(opening[<<h, m>>], m)
  BY DEF CardAccepted
<1>3. ASSUME NEW p \in Open, NEW m \in Gen
      PROVE  /\ after(p, m) \in Open
             /\ after(p, m).pc # "idle" <=> p.pc # "idle"
             /\ after(p, m).user = p.user
             /\ after(p, m).pc \in {"asking", "answered", "recovering"}
                   => p.pc \in {"asking", "answered", "recovering"}
             /\ after(p, m).pc = "answered" => after(p, m).late \/ after(p, m).again
  BY <1>3 DEF Open
<1>4. opening' \in [Shape \X Gen -> Open]
  <2>1. opening' = [q \in Shape \X Gen |-> after(opening[q], q[2])]
    BY DEF CardAccepted
  <2>2. \A q \in Shape \X Gen : after(opening[q], q[2]) \in Open
    BY <1>1, <1>3
  <2> HIDE DEF after
  <2> QED BY <2>1, <2>2
<1> HIDE DEF after
<1>5. TypeOK'
  <2>1. server' \in [granted : SUBSET (User \X Shape),
                     cards : SUBSET (User \X (Gen \union {NoGen})),
                     free : BOOLEAN, changes : 0 .. MaxEvents]
    BY DEF IInv, TypeOK, CardAccepted
  <2> QED BY <1>4, <2>1 DEF IInv, TypeOK, CardAccepted
<1>6. Begun'
  <2>1. UNCHANGED <<inflight, generation>>
    BY DEF CardAccepted
  <2>2. ASSUME NEW h \in Shape, NEW m \in Gen
        PROVE  /\ opening'[<<h, m>>].pc # "idle" => m \leq generation'
               /\ opening'[<<h, m>>].pc \in {"asking", "answered", "recovering"}
                     => opening'[<<h, m>>].user \in User
    BY <1>1, <1>2, <1>3, <2>1 DEF IInv, Begun
  <2> QED BY <2>1, <2>2 DEF IInv, Begun
<1>7. SingleFlight'
  <2>1. UNCHANGED <<inflight, generation>>
    BY DEF CardAccepted
  <2> QED BY <1>1, <1>2, <1>3, <2>1 DEF IInv, SingleFlight
<1>8. NoForeignToken' /\ Attended'
  BY DEF IInv, NoForeignToken, Attended, CardAccepted
<1>9. ToldTrue'
  BY <1>1, <1>2, <1>3 DEF ToldTrue
<1> QED BY <1>5, <1>6, <1>7, <1>8, <1>9 DEF IInv

\* Steps that leave the opens and the streams that wait alone, and add no card of a
\* session.
LEMMA AsideKeeps ==
    ASSUME IInv, TypeOK',
           UNCHANGED <<generation, token, renewal, inflight, opening, blocked, timer,
                       probes, waiters>>,
           \A s \in Stream : stream'[s] = "parked" => stream[s] = "parked",
           \A u \in User, g \in Gen :
              <<u, g>> \in server'.cards => <<u, g>> \in server.cards
    PROVE  IInv'
<1>1. Begun' /\ SingleFlight' /\ NoForeignToken' /\ Attended'
  BY DEF IInv, Begun, SingleFlight, NoForeignToken, Attended
<1>2. ToldTrue'
  <2>1. \A h \in Shape, g \in Gen :
           opening[<<h, g>>].pc = "answered" => opening[<<h, g>>].user \in User
    BY DEF IInv, Begun
  <2> QED BY <2>1 DEF IInv, ToldTrue
<1> QED BY <1>1, <1>2 DEF IInv

LEMMA CardFailsKeeps ==
    ASSUME IInv, NEW u \in User, NEW g \in Gen, CardFails(u, g)
    PROVE  IInv'
<1>1. \/ UNCHANGED server
      \/ server' = [server EXCEPT !.cards = @ \union {<<u, NoGen>>}]
  BY DEF CardFails
<1>2. server' \in [granted : SUBSET (User \X Shape),
                   cards : SUBSET (User \X (Gen \union {NoGen})),
                   free : BOOLEAN, changes : 0 .. MaxEvents]
  <2>1. CASE UNCHANGED server
    BY <2>1 DEF IInv, TypeOK
  <2>2. CASE server' = [server EXCEPT !.cards = @ \union {<<u, NoGen>>}]
    BY <2>2 DEF IInv, TypeOK
  <2> QED BY <1>1, <2>1, <2>2
<1>3. \A v \in User, m \in Gen : <<v, m>> \in server'.cards => <<v, m>> \in server.cards
  BY <1>1, Constants DEF IInv, TypeOK
<1>4. TypeOK'
  BY <1>2 DEF IInv, TypeOK, CardFails
<1> QED BY <1>3, <1>4, AsideKeeps DEF CardFails

-----------------------------------------------------------------------------
(* The streams, the timers, the account and the server                     *)

LEMMA StreamsKeep ==
    ASSUME IInv, NEW s \in Stream, Streams(s)
    PROVE  IInv'
<1>1. stream \in [Stream -> Standing] /\ ShapeOf[s] \in Shape
  BY Constants DEF IInv, TypeOK
<1>2. CASE Send(s)
  <2>1. /\ stream' \in [Stream -> Standing]
        /\ \A t \in Stream : stream'[t] = "parked" => stream[t] = "parked"
    BY <1>1, <1>2 DEF Send, Standing
  <2>2. TypeOK'
    BY <1>2, <2>1 DEF IInv, TypeOK, Send, clientVars
  <2> QED BY <1>2, <2>1, <2>2, AsideKeeps DEF Send, clientVars
<1>3. CASE SignedIn(s)
  <2>1. /\ stream' \in [Stream -> Standing]
        /\ \A t \in Stream : stream'[t] = "parked" => stream[t] = "parked"
    BY <1>1, <1>3 DEF SignedIn, Standing
  <2>2. TypeOK'
    BY <1>3, <2>1 DEF IInv, TypeOK, SignedIn, clientVars
  <2> QED BY <1>3, <2>1, <2>2, AsideKeeps DEF SignedIn, clientVars
<1>4. CASE Receives(s)
  <2> DEFINE h == ShapeOf[s]
             free == s \in wasParked /\ h \in blocked
  <2>1. /\ stream' = [t \in Stream |-> IF t = s \/ (free /\ t \in waiters[h]) THEN "ready"
                                       ELSE stream[t]]
        /\ wasParked' = wasParked \ {s}
        /\ blocked' = IF free THEN blocked \ {h} ELSE blocked
        /\ timer' = IF free THEN timer \ {h} ELSE timer
        /\ probes' = IF free THEN [probes EXCEPT ![h] = {}] ELSE probes
        /\ waiters' = IF free THEN [waiters EXCEPT ![h] = {}] ELSE waiters
        /\ UNCHANGED <<user, generation, token, renewal, inflight, opening, ended,
                       recovering, awaits, server>>
    BY <1>4 DEF Receives
  <2>2. h \in Shape
    BY <1>1
  <2> HIDE DEF free, h
  <2>3. stream' \in [Stream -> Standing]
    BY <1>1, <2>1 DEF Standing
  <2>4. TypeOK'
    BY <2>1, <2>2, <2>3 DEF IInv, TypeOK
  <2>5. Begun' /\ SingleFlight' /\ NoForeignToken' /\ ToldTrue'
    BY <2>1 DEF IInv, Begun, SingleFlight, NoForeignToken, ToldTrue
  <2>6. Attended'
    <3>1. CASE ~free
      BY <2>1, <3>1 DEF IInv, Attended
    <3>2. CASE free
      <4>1. \A k \in blocked' : k \in timer' \/ probes'[k] # {}
        BY <2>1, <2>2, <3>2 DEF IInv, TypeOK, Attended
      <4>2. \A k \in Shape : probes'[k] # {} => inflight'[k] = generation'
        BY <2>1, <2>2, <3>2 DEF IInv, TypeOK, Attended
      <4>3. ASSUME NEW t \in Stream, stream'[t] = "parked"
            PROVE  ShapeOf[t] \in blocked' /\ t \in waiters'[ShapeOf[t]]
        <5>1. stream[t] = "parked" /\ t \notin waiters[h]
          BY <2>1, <3>2, <4>3
        <5>2. ShapeOf[t] \in blocked /\ t \in waiters[ShapeOf[t]]
          BY <5>1 DEF IInv, Attended
        <5> QED BY <2>1, <3>2, <5>1, <5>2, Constants DEF IInv, TypeOK
      <4> QED BY <4>1, <4>2, <4>3 DEF Attended
    <3> QED BY <3>1, <3>2
  <2> QED BY <2>4, <2>5, <2>6 DEF IInv
<1>5. CASE Refused(s)
  <2> DEFINE h == ShapeOf[s]
  <2>1. /\ token' = [token EXCEPT ![h] = NoToken]
        /\ renewal' = renewal \ {h}
        /\ Opens({h})
        /\ stream' = [stream EXCEPT ![s] = "opening"]
        /\ awaits' = [awaits EXCEPT ![s] = Awaited(h)]
        /\ UNCHANGED <<user, generation, ended, recovering, blocked, timer, probes,
                       waiters, wasParked, server>>
    BY <1>5 DEF Refused
  <2>2. h \in Shape /\ {h} \in SUBSET Shape
    BY <1>1
  <2> HIDE DEF h
  <2>3. /\ inflight' \in [Shape -> Gen \union {NoGen}]
        /\ opening' \in [Shape \X Gen -> Open]
        /\ Begun' /\ SingleFlight' /\ ToldTrue'
        /\ \A k \in Shape : inflight[k] = generation => inflight'[k] = generation
    BY <2>1, <2>2, OpensKeeps
  <2>4. Awaited(h) \in Gen
    BY <2>2 DEF IInv, TypeOK, Awaited
  <2>5. stream' \in [Stream -> Standing]
    BY <1>1, <2>1 DEF Standing
  <2>6. TypeOK'
    BY <2>1, <2>2, <2>3, <2>4, <2>5, NoneOpen DEF IInv, TypeOK
  <2>7. NoForeignToken'
    BY <2>1, <2>2 DEF IInv, TypeOK, NoForeignToken, NoToken
  <2>8. Attended'
    BY <1>1, <2>1, <2>3 DEF IInv, Attended
  <2> QED BY <2>3, <2>6, <2>7, <2>8 DEF IInv
<1> QED BY <1>2, <1>3, <1>4, <1>5 DEF Streams

LEMMA TimersKeep ==
    ASSUME IInv,
           \/ \E h \in Shape : Renew(h) \/ ProbeDue(h)
           \/ ProbeAll
    PROVE  IInv'
<1>1. CASE \E h \in Shape : Renew(h)
  <2>1. PICK h \in Shape : Renew(h)
    BY <1>1
  <2>2. {h} \in SUBSET Shape /\ Opens({h}) /\ UNCHANGED <<generation, server>>
    BY <2>1 DEF Renew
  <2>3. /\ inflight' \in [Shape -> Gen \union {NoGen}]
        /\ opening' \in [Shape \X Gen -> Open]
        /\ Begun' /\ SingleFlight' /\ ToldTrue'
        /\ \A k \in Shape : inflight[k] = generation => inflight'[k] = generation
    BY <2>2, OpensKeeps
  <2>4. TypeOK'
    BY <2>1, <2>3 DEF IInv, TypeOK, Renew
  <2>5. NoForeignToken'
    BY <2>1 DEF IInv, NoForeignToken, Renew
  <2>6. Attended'
    BY <2>1, <2>3 DEF IInv, Attended, Renew
  <2> QED BY <2>3, <2>4, <2>5, <2>6 DEF IInv
<1>2. CASE \E h \in Shape : ProbeDue(h)
  <2>1. PICK h \in Shape : ProbeDue(h)
    BY <1>2
  <2>2. {h} \in SUBSET Shape /\ Opens({h}) /\ UNCHANGED <<generation, server>>
    BY <2>1 DEF ProbeDue
  <2>3. /\ inflight' \in [Shape -> Gen \union {NoGen}]
        /\ opening' \in [Shape \X Gen -> Open]
        /\ Begun' /\ SingleFlight' /\ ToldTrue'
        /\ \A k \in Shape : inflight[k] = generation => inflight'[k] = generation
        /\ inflight'[h] = generation
    BY <2>2, OpensKeeps
  <2>4. TypeOK'
    BY <2>1, <2>3 DEF IInv, TypeOK, ProbeDue
  <2>5. NoForeignToken'
    BY <2>1 DEF IInv, NoForeignToken, ProbeDue
  <2>6. Attended'
    BY <2>1, <2>3 DEF IInv, TypeOK, Attended, ProbeDue
  <2> QED BY <2>3, <2>4, <2>5, <2>6 DEF IInv
<1>3. CASE ProbeAll
  <2>1. blocked \in SUBSET Shape /\ Opens(blocked) /\ UNCHANGED <<generation, server>>
    BY <1>3 DEF ProbeAll, IInv, TypeOK
  <2>2. /\ inflight' \in [Shape -> Gen \union {NoGen}]
        /\ opening' \in [Shape \X Gen -> Open]
        /\ Begun' /\ SingleFlight' /\ ToldTrue'
        /\ \A k \in Shape : inflight[k] = generation => inflight'[k] = generation
        /\ \A k \in blocked : inflight'[k] = generation
    BY <2>1, OpensKeeps
  <2>3. probes' \in [Shape -> SUBSET {"timer", "asked"}]
    BY <1>3 DEF IInv, TypeOK, ProbeAll
  <2>4. TypeOK'
    BY <1>3, <2>2, <2>3 DEF IInv, TypeOK, ProbeAll
  <2>5. NoForeignToken'
    BY <1>3 DEF IInv, NoForeignToken, ProbeAll
  <2>6. Attended'
    BY <1>3, <2>1, <2>2 DEF IInv, TypeOK, Attended, ProbeAll
  <2> QED BY <2>2, <2>4, <2>5, <2>6 DEF IInv
<1> QED BY <1>1, <1>2, <1>3

LEMMA AccountKeeps ==
    ASSUME IInv, Logout \/ \E u \in User : Login(u)
    PROVE  IInv'
<1>1. CASE \E u \in User : Login(u)
  <2>1. TypeOK'
    BY <1>1 DEF IInv, TypeOK, Login
  <2> QED BY <1>1, <2>1, AsideKeeps DEF Login
<1>2. CASE Logout
  <2>1. generation \in Gen /\ generation' \in Gen /\ generation' = generation + 1
    <3>1. generation \in Gen /\ server.changes \in 0 .. MaxEvents
      BY DEF IInv, TypeOK
    <3> QED BY <1>2, <3>1, ReadAccessAssumption DEF Logout, Gen
  <2>2. stream' \in [Stream -> Standing]
    BY <1>2 DEF IInv, TypeOK, Logout, Standing
  <2>3. TypeOK'
    BY <1>2, <2>1, <2>2, NoneOpen DEF IInv, TypeOK, Logout
  <2>4. Begun'
    BY <1>2, <2>1, Constants DEF IInv, Begun, Logout
  <2>5. SingleFlight'
    <3>1. \A h \in Shape : opening[<<h, generation'>>].pc = "idle"
      BY <2>1, Constants DEF IInv, Begun
    <3>2. \A h \in Shape : inflight'[h] = NoGen
      BY <1>2 DEF Logout
    <3>3. UNCHANGED opening
      BY <1>2 DEF Logout
    <3> QED BY <2>1, <3>1, <3>2, <3>3, Constants DEF SingleFlight
  <2>6. NoForeignToken' /\ ToldTrue'
    BY <1>2 DEF IInv, NoForeignToken, NoToken, ToldTrue, Logout
  <2>7. Attended'
    BY <1>2 DEF IInv, Attended, Logout
  <2> QED BY <2>3, <2>4, <2>5, <2>6, <2>7 DEF IInv
<1> QED BY <1>1, <1>2

LEMMA ServerChangesKeep ==
    ASSUME IInv,
           \/ \E u \in User, h \in Shape : Grants(u, h) \/ Revokes(u, h)
           \/ Frees \/ ForgetsCards \/ TokensEnd
    PROVE  IInv'
<1> DEFINE Server == [granted : SUBSET (User \X Shape),
                      cards : SUBSET (User \X (Gen \union {NoGen})),
                      free : BOOLEAN, changes : 0 .. MaxEvents]
<1>1. server \in Server /\ generation \in Gen
  BY DEF IInv, TypeOK
<1>2. ASSUME NEW next \in Server, ServerChanges(next), next.cards \subseteq server.cards
      PROVE  /\ server' \in Server
             /\ server'.cards \subseteq server.cards
  <2>1. server.changes + 1 \in 0 .. MaxEvents
    BY <1>1, <1>2, ReadAccessAssumption DEF ServerChanges, Gen
  <2>2. server' = [next EXCEPT !.changes = server.changes + 1]
    BY <1>2 DEF ServerChanges
  <2> QED BY <1>2, <2>1, <2>2
<1>3. CASE /\ UNCHANGED token
           /\ \/ \E u \in User, h \in Shape : Grants(u, h) \/ Revokes(u, h)
              \/ Frees \/ ForgetsCards
  <2>1. PICK next \in Server : ServerChanges(next) /\ next.cards \subseteq server.cards
    <3>1. CASE \E u \in User, h \in Shape : Grants(u, h)
      BY <1>1, <3>1 DEF Grants
    <3>2. CASE \E u \in User, h \in Shape : Revokes(u, h)
      BY <1>1, <3>2 DEF Revokes
    <3>3. CASE Frees
      <4> DEFINE next == [server EXCEPT !.free = ~server.free]
      <4>1. ServerChanges(next)
        BY <3>3 DEF Frees
      <4>2. (~server.free) \in BOOLEAN
        OBVIOUS
      <4>3. next \in Server /\ next.cards = server.cards
        BY <1>1, <4>2
      <4> QED BY <4>1, <4>3
    <3>4. CASE ForgetsCards
      BY <1>1, <3>4 DEF ForgetsCards
    <3> QED BY <1>3, <3>1, <3>2, <3>3, <3>4
  <2>2. server' \in Server /\ server'.cards \subseteq server.cards
    BY <1>2, <2>1
  <2>3. TypeOK'
    BY <1>3, <2>1, <2>2 DEF IInv, TypeOK, ServerChanges
  <2> QED BY <1>3, <2>1, <2>2, <2>3, AsideKeeps DEF ServerChanges
<1>4. CASE TokensEnd
  <2>1. ServerChanges(server)
        /\ token' = [h \in Shape |-> [token[h] EXCEPT !.good = FALSE]]
    BY <1>4 DEF TokensEnd
  <2>2. server' \in Server /\ server'.cards \subseteq server.cards
    BY <1>1, <1>2, <2>1
  <2>3. token' \in [Shape -> Token] /\ \A h \in Shape : token'[h].of = token[h].of
    <3>1. token \in [Shape -> Token]
      BY DEF IInv, TypeOK
    <3>2. ASSUME NEW t \in Token
          PROVE  [t EXCEPT !.good = FALSE] \in Token /\ [t EXCEPT !.good = FALSE].of = t.of
      BY <3>2 DEF Token
    <3> QED BY <2>1, <3>1, <3>2
  <2>4. TypeOK'
    BY <2>1, <2>2, <2>3 DEF IInv, TypeOK, ServerChanges
  <2>5. Begun' /\ SingleFlight' /\ Attended'
    BY <2>1 DEF IInv, Begun, SingleFlight, Attended, ServerChanges
  <2>6. NoForeignToken'
    BY <2>1, <2>3 DEF IInv, TypeOK, NoForeignToken, ServerChanges
  <2>7. ToldTrue'
    BY <2>1, <2>2 DEF IInv, ToldTrue, ServerChanges
  <2> QED BY <2>4, <2>5, <2>6, <2>7 DEF IInv
<1> QED BY <1>3, <1>4 DEF Grants, Revokes, Frees, ForgetsCards

-----------------------------------------------------------------------------
(* The theorems                                                            *)

LEMMA Inductive == IInv /\ [Next]_vars => IInv'
<1> SUFFICES ASSUME IInv, [Next]_vars PROVE IInv'
  OBVIOUS
<1>1. CASE UNCHANGED vars
  BY <1>1 DEF vars, clientVars, IInv, TypeOK, Begun, SingleFlight, NoForeignToken,
              Attended, ToldTrue
<1>2. CASE \E h \in Shape, g \in Gen : Works(h, g) \/ RequestFails(h, g)
  BY <1>2, BeginKeeps, JudgeKeeps, EndsKeep, OpenedKeeps, UnknownUserKeeps DEF Works
<1>3. CASE \E u \in User, g \in Gen : Passes(u, g)
  BY <1>3, CardAcceptedKeeps, CardFailsKeeps DEF Passes
<1>4. CASE \E s \in Stream : Streams(s)
  BY <1>4, StreamsKeep
<1>5. CASE (\E h \in Shape : Renew(h) \/ ProbeDue(h)) \/ ProbeAll
  BY <1>5, TimersKeep
<1>6. CASE Logout \/ \E u \in User : Login(u)
  BY <1>6, AccountKeeps
<1>7. CASE \/ \E u \in User, h \in Shape : Grants(u, h) \/ Revokes(u, h)
           \/ Frees \/ ForgetsCards \/ TokensEnd
  BY <1>7, ServerChangesKeep
<1> QED BY <1>1, <1>2, <1>3, <1>4, <1>5, <1>6, <1>7 DEF Next

LEMMA Invariantly == Spec => []IInv
BY Initially, Inductive, PTL DEF Spec

\* The type invariant.
THEOREM ReadAccessTypeCorrect == Spec => []TypeOK
<1>1. IInv => TypeOK
  BY DEF IInv
<1> QED BY <1>1, Invariantly, PTL

\* inflight in readSession.ts names the one open of this session and of no other.
THEOREM OneOpenPerShape == Spec => []SingleFlight
<1>1. IInv => SingleFlight
  BY DEF IInv
<1> QED BY <1>1, Invariantly, PTL

\* No token outlives the logout that ended its session.
THEOREM TokensAreOfThisSession == Spec => []NoForeignToken
<1>1. IInv => NoForeignToken
  BY DEF IInv
<1> QED BY <1>1, Invariantly, PTL

\* A parked stream is on the list of a shape that is probed or about to be.
THEOREM ParkedAreAttended == Spec => []NoParkedForgotten
<1>1. IInv => NoParkedForgotten
  BY Constants DEF IInv, Attended, NoParkedForgotten
<1> QED BY <1>1, Invariantly, PTL

\* The epoch of readSession.ts keeps a session from passing its card twice.
THEOREM CardPassedOnce == Spec => CardNotRepeated
<1> DEFINE A == \A u \in User, g \in Gen :
                  <<u, g>> \in recovering' \ recovering => <<u, g>> \notin server.cards
<1>1. IInv /\ [Next]_vars => [A]_vars
  <2> SUFFICES ASSUME IInv, Next PROVE A
    BY DEF vars, clientVars
  <2>1. CASE \E h \in Shape, g \in Gen : UnknownUser(h, g)
    BY <2>1, UnknownUserKeeps
  <2>2. CASE recovering' \subseteq recovering
    BY <2>2
  <2>3. (\E h \in Shape, g \in Gen : UnknownUser(h, g)) \/ recovering' \subseteq recovering
    BY DEF Next, Works, Begin, Judge, Stale, Opened, NotInTrustChain, CardMissing,
           RequestFails, Kept, Passes, CardAccepted, CardFails, Streams, Send, Receives,
           Refused, SignedIn, clientVars, Renew, ProbeDue, ProbeAll, Login, Logout,
           Grants, Revokes, Frees, ForgetsCards, TokensEnd, ServerChanges
  <2> QED BY <2>1, <2>2, <2>3
<1> QED BY <1>1, Invariantly, PTL DEF Spec, CardNotRepeated
=============================================================================
