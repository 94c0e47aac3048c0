--------------------------- MODULE GatewayProofs ---------------------------
(***************************************************************************)
(* Proofs about Gateway.tla and CompressedTransport.tla, the two modules   *)
(* of packages/ws, for every value of their constants.  Each operator of   *)
(* Gateway is shown once to preserve what the theorems need; a step of the *)
(* specification is then the composition of the operators.  The receiving  *)
(* side of a compressed connection has a lemma per action instead.         *)
(***************************************************************************)
EXTENDS Gateway, CompressedTransport, FiniteSetTheorems, TLAPS

-----------------------------------------------------------------------------
(***************************************************************************)
(* The object                                                              *)
(***************************************************************************)

\* At most the socket the transport holds is connecting or open, and it was
\* dialled under a token.
OneSocket(g) ==
    /\ \A s \in Sockets : g.sock[s] \in {"connecting", "open"} => s = g.current
    /\ g.current # 0 => g.token # 0

Sound(g) == g \in GatewayObject /\ OneSocket(g)

\* Zero belongs to the sets whose elements are otherwise names or numbers.
LEMMA Zeroes == 0 \in Tokens /\ 0 \in SequenceNumbers /\ 0 \in Attempts
  BY BoundAssumption DEF Tokens, SequenceNumbers, Attempts

LEMMA SocketsAreTokens == Sockets = Tokens \ {0}
  BY BoundAssumption DEF Tokens, Sockets

LEMMA DiscardSound ==
    ASSUME NEW g, Sound(g)
    PROVE  Sound(Discard(g)) /\ Discard(g).current = 0
  <1>1. CASE g.current = 0
    BY <1>1 DEF Discard
  <1>2. CASE g.current # 0
    <2>1. g.current \in Sockets
      BY <1>2, SocketsAreTokens DEF Sound, GatewayObject
    <2>2. Discard(g) \in GatewayObject
      <3>1. [g.sock EXCEPT ![g.current] = "closing"] \in SocketTable
        BY <2>1 DEF Sound, GatewayObject, SocketTable, SocketStates
      <3> QED BY <1>2, <3>1, Zeroes DEF Discard, Sound, GatewayObject
    <2>3. OneSocket(Discard(g)) /\ Discard(g).current = 0
      BY <1>2, <2>1 DEF Discard, Sound, OneSocket, GatewayObject, SocketTable
    <2> QED BY <2>2, <2>3 DEF Sound
  <1> QED BY <1>1, <1>2

LEMMA TransportCloseSound ==
    ASSUME NEW g, Sound(g)
    PROVE  Sound(TransportClose(g))
  <1>1. CASE ~Live(g)
    BY <1>1 DEF TransportClose
  <1>2. CASE Live(g)
    <2>1. g.current \in Sockets
      BY <1>2, SocketsAreTokens DEF Sound, GatewayObject, Live
    <2>2. [g.sock EXCEPT ![g.current] = "closing"] \in SocketTable
      BY <2>1 DEF Sound, GatewayObject, SocketTable, SocketStates
    <2>3. TransportClose(g) \in GatewayObject
      BY <1>2, <2>2 DEF TransportClose, Sound, GatewayObject
    <2>4. OneSocket(TransportClose(g))
      BY <1>2, <2>1 DEF TransportClose, Sound, OneSocket, GatewayObject, SocketTable
    <2> QED BY <2>3, <2>4 DEF Sound
  <1> QED BY <1>1, <1>2

LEMMA TransportConnectSound ==
    ASSUME NEW g, Sound(g), g.token # 0, NEW ok
    PROVE  Sound(TransportConnect(g, ok))
  <1> DEFINE h == Discard(g)
  <1>1. Sound(h) /\ h.current = 0
    BY DiscardSound
  <1>2. h.token = g.token
    BY DEF Discard, Sound, GatewayObject
  <1>3. h.token \in Sockets /\ h.token \in Tokens
    BY <1>2, SocketsAreTokens DEF Sound, GatewayObject
  <1> HIDE DEF h
  <1>4. [h.sock EXCEPT ![h.token] = "connecting"] \in SocketTable
        /\ [h.sock EXCEPT ![h.token] = "closed"] \in SocketTable
    BY <1>1, <1>3 DEF Sound, GatewayObject, SocketTable, SocketStates
  <1>5. CASE ok
    <2>1. TransportConnect(g, ok) = [h EXCEPT !.current = h.token,
                                              !.sock[h.token] = "connecting"]
      BY <1>5 DEF TransportConnect, h
    <2>2. TransportConnect(g, ok) \in GatewayObject
      BY <2>1, <1>1, <1>3, <1>4 DEF Sound, GatewayObject
    <2>3. OneSocket(TransportConnect(g, ok))
      BY <2>1, <1>1, <1>3, <1>4, SocketsAreTokens
         DEF Sound, OneSocket, GatewayObject, SocketTable
    <2> QED BY <2>2, <2>3 DEF Sound
  <1>6. CASE ~ok
    <2>1. TransportConnect(g, ok) = [h EXCEPT !.sock[h.token] = "closed"]
      BY <1>6 DEF TransportConnect, h
    <2> QED BY <2>1, <1>1, <1>3, <1>4
            DEF Sound, OneSocket, GatewayObject, SocketTable
  <1> QED BY <1>5, <1>6

-----------------------------------------------------------------------------
(***************************************************************************)
(* The methods: each leaves a sound object sound.                          *)
(***************************************************************************)

LEMMA InvalidateSound ==
    ASSUME NEW g, Sound(g) PROVE Sound(Invalidate(g))
  BY Zeroes DEF Invalidate, Sound, OneSocket, GatewayObject

LEMMA RecordSequenceSound ==
    ASSUME NEW g, Sound(g), NEW s \in SequenceNumbers
    PROVE  Sound(RecordSequence(g, s))
  BY DEF RecordSequence, Sound, OneSocket, GatewayObject

LEMMA ClearTimersSound ==
    ASSUME NEW g, Sound(g) PROVE Sound(ClearTimers(g))
  BY Zeroes DEF ClearTimers, StopHeartbeat, ClearBeatTimers, Sound, OneSocket,
                GatewayObject

LEMMA StartHeartbeatSound ==
    ASSUME NEW g, Sound(g) PROVE Sound(StartHeartbeat(g))
  BY Zeroes DEF StartHeartbeat, ClearBeatTimers, Sound, OneSocket, GatewayObject

LEMMA ClearBeatTimersSound ==
    ASSUME NEW g, Sound(g) PROVE Sound(ClearBeatTimers(g))
  BY Zeroes DEF ClearBeatTimers, Sound, OneSocket, GatewayObject

LEMMA SendHeartbeatSound ==
    ASSUME NEW g, Sound(g) PROVE Sound(SendHeartbeat(g))
  BY DEF SendHeartbeat, Sound, OneSocket, GatewayObject

LEMMA AcknowledgeSound ==
    ASSUME NEW g, Sound(g) PROVE Sound(Acknowledge(g))
  BY Zeroes DEF Acknowledge, Sound, OneSocket, GatewayObject

LEMMA SetStateSound ==
    ASSUME NEW g, Sound(g), NEW next \in States PROVE Sound(SetState(g, next))
  BY DEF SetState, Sound, OneSocket, GatewayObject

LEMMA SettleSound ==
    ASSUME NEW g, Sound(g), NEW outcome \in Promises PROVE Sound(Settle(g, outcome))
  BY DEF Settle, Sound, OneSocket, GatewayObject

LEMMA ClosingSound ==
    ASSUME NEW g, Sound(g), NEW b \in BOOLEAN
    PROVE  Sound([g EXCEPT !.closed = b])
  BY DEF Sound, OneSocket, GatewayObject

LEMMA CloseGatewaySound ==
    ASSUME NEW g, Sound(g) PROVE Sound(CloseGateway(g))
  <1> DEFINE g1 == [g EXCEPT !.closed = TRUE]
             g2 == ClearTimers(g1)
             g3 == Settle(g2, "rejected")
             g4 == Discard(g3)
  <1>1. Sound(g1) BY ClosingSound
  <1>2. Sound(g2) BY <1>1, ClearTimersSound
  <1>3. Sound(g3) BY <1>2, SettleSound DEF Promises
  <1>4. Sound(g4) BY <1>3, DiscardSound
  <1>5. Sound(SetState(g4, "Closed")) BY <1>4, SetStateSound DEF States
  <1> QED BY <1>5 DEF CloseGateway

LEMMA AnnounceSound ==
    ASSUME NEW g, Sound(g), NEW next \in States, NEW reaction
    PROVE  Sound(Announce(g, next, reaction))
  BY SetStateSound, CloseGatewaySound DEF Announce

LEMMA ScheduleReconnectSound ==
    ASSUME NEW g, Sound(g) PROVE Sound(ScheduleReconnect(g))
  <1>1. CASE g.closed \/ g.pending
    BY <1>1 DEF ScheduleReconnect
  <1>2. CASE ~(g.closed \/ g.pending) /\ g.attempts < MaxAttempts
    <2>1. g.attempts + 1 \in Attempts
      BY <1>2, BoundAssumption DEF Sound, GatewayObject, Attempts
    <2> QED BY <1>2, <2>1 DEF ScheduleReconnect, Sound, OneSocket, GatewayObject
  <1>3. CASE ~(g.closed \/ g.pending) /\ ~(g.attempts < MaxAttempts)
    BY <1>3, SettleSound, SetStateSound DEF ScheduleReconnect, Promises, States
  <1> QED BY <1>1, <1>2, <1>3

\* Dialling takes a fresh token: there must be one left within the bound.
LEMMA OpenSound ==
    ASSUME NEW g, Sound(g), g.token < MaxSockets, NEW ok
    PROVE  Sound(Open(g, ok))
  <1> DEFINE fresh == [g EXCEPT !.token = @ + 1]
             h == TransportConnect(fresh, ok)
  <1>1. g.token + 1 \in Tokens /\ g.token + 1 # 0
    BY BoundAssumption DEF Sound, GatewayObject, Tokens
  <1>2. Sound(fresh) /\ fresh.token # 0
    BY <1>1 DEF Sound, OneSocket, GatewayObject
  <1>3. Sound(h) BY <1>2, TransportConnectSound
  <1> HIDE DEF h
  <1>4. Sound([h EXCEPT !.dial = h.token])
    BY <1>3 DEF Sound, OneSocket, GatewayObject
  <1>5. Sound(ScheduleReconnect(SetState(h, "Reconnect")))
    BY <1>3, SetStateSound, ScheduleReconnectSound DEF States
  <1>6. Sound(Settle(h, "rejected"))
    BY <1>3, SettleSound DEF Promises
  <1> QED BY <1>4, <1>5, <1>6 DEF Open, h

LEMMA ConnectGatewaySound ==
    ASSUME NEW g, Sound(g), Dials(g) => g.token < MaxSockets, NEW ok
    PROVE  Sound(ConnectGateway(g, ok))
  <1>1. CASE ~Idle(g)
    BY <1>1 DEF ConnectGateway
  <1>2. CASE Idle(g) /\ Joins(g)
    <2>1. Sound([g EXCEPT !.promise = "pending"])
      BY DEF Sound, OneSocket, GatewayObject, Promises
    <2> QED BY <1>2, <2>1 DEF ConnectGateway
  <1>3. CASE Dials(g)
    <2> DEFINE h == SetState([g EXCEPT !.closed = FALSE, !.paced = TRUE,
                                       !.promise = "pending"], "Connect")
    <2>1. Sound(h) /\ h.token = g.token
      BY DEF Sound, OneSocket, GatewayObject, Promises, SetState, States
    <2>2. Sound(Open(h, ok)) BY <1>3, <2>1, OpenSound
    <2> QED BY <1>3, <2>2 DEF ConnectGateway, Dials
  <1> QED BY <1>1, <1>2, <1>3 DEF Dials

LEMMA ReactSound ==
    ASSUME NEW g, Sound(g), NEW reaction, NEW ok,
           reaction = "connect" => g.token < MaxSockets
    PROVE  Sound(React(g, reaction, ok))
  BY ConnectGatewaySound, CloseGatewaySound DEF React

\* The socket the transport held is gone, whatever its state was.
LEMMA GoneSound ==
    ASSUME NEW g, Sound(g), NEW s \in Sockets, s = g.current
    PROVE  LET gone == [g EXCEPT !.current = 0, !.sock[s] = "closed"]
           IN  Sound(gone) /\ gone.token = g.token /\ gone.current = 0
  <1> DEFINE gone == [g EXCEPT !.current = 0, !.sock[s] = "closed"]
  <1>1. [g.sock EXCEPT ![s] = "closed"] \in SocketTable
    BY DEF Sound, GatewayObject, SocketTable, SocketStates
  <1>2. gone \in GatewayObject
    BY <1>1, Zeroes DEF Sound, GatewayObject
  <1>3. OneSocket(gone)
    BY DEF Sound, OneSocket, GatewayObject, SocketTable
  <1>4. gone.token = g.token /\ gone.current = 0
    BY DEF Sound, GatewayObject
  <1> QED BY <1>2, <1>3, <1>4 DEF Sound

LEMMA HandleCloseSound ==
    ASSUME NEW g, Sound(g), NEW s \in Sockets, s = g.current,
           NEW kind, NEW reaction, NEW ok,
           reaction = "connect" => g.token < MaxSockets
    PROVE  Sound(HandleClose(g, s, kind, reaction, ok))
  <1> DEFINE g1 == [g EXCEPT !.current = 0, !.sock[s] = "closed"]
             gone == ClearTimers(g1)
             action == ClassifyClose(kind, CanResume(gone))
             g2 == [gone EXCEPT !.arming = Arms(gone, kind)]
             g3 == React(g2, reaction, ok)
             told == [g3 EXCEPT !.arming = FALSE]
             over == told.closed \/ action = "stop"
             last == IF action = "identify" THEN Invalidate(told) ELSE told
  <1>1. Sound(g1) /\ g1.token = g.token
    BY GoneSound
  <1>2. Sound(gone) /\ gone.token = g.token
    <2> HIDE DEF g1
    <2>1. Sound(gone)
      BY <1>1, ClearTimersSound
    <2>2. gone.token = g1.token
      BY <1>1 DEF ClearTimers, StopHeartbeat, ClearBeatTimers, Sound, GatewayObject
    <2> QED BY <1>1, <2>1, <2>2
  <1>3. Sound(g2) /\ g2.token = g.token
    <2>1. Arms(gone, kind) \in BOOLEAN
      BY DEF Arms
    <2> QED BY <2>1, <1>2 DEF Sound, OneSocket, GatewayObject
  <1> HIDE DEF g2
  <1>4. Sound(g3)
    BY <1>3, ReactSound
  <1> HIDE DEF g3
  <1>5. Sound(told) /\ over \in BOOLEAN
    BY <1>4 DEF Sound, OneSocket, GatewayObject
  <1> HIDE DEF told, over
  <1>6. Sound(last)
    BY <1>5, InvalidateSound
  <1>7. Sound(ScheduleReconnect(SetState(last, "Reconnect")))
    BY <1>6, SetStateSound, ScheduleReconnectSound DEF States
  <1>8. Sound(Settle(SetState([told EXCEPT !.closed = over],
                              IF over THEN "Closed" ELSE "Connect"), "rejected"))
    <2>1. Sound([told EXCEPT !.closed = over])
      BY <1>5, ClosingSound
    <2> QED BY <2>1, SetStateSound, SettleSound DEF States, Promises
  <1> QED BY <1>7, <1>8 DEF HandleClose, g2, g3, told, over

LEMMA WriteSound ==
    ASSUME NEW g, Sound(g), NEW handshake \in Handshakes
    PROVE  Sound(Write(g, handshake))
  <1>1. CASE ~Connected(g)
    BY <1>1 DEF Write
  <1>2. CASE Connected(g)
    <2>1. g.current \in Sockets /\ g.wire \in WireTable
      BY <1>2, SocketsAreTokens DEF Sound, GatewayObject, Connected
    <2>2. g.wire[g.current] \in Seq(Handshakes)
      BY <2>1 DEF WireTable
    <2>3. Append(g.wire[g.current], handshake) \in Seq(Handshakes)
      BY <2>2
    <2>4. [g.wire EXCEPT ![g.current] = Append(@, handshake)] \in WireTable
      BY <2>1, <2>3 DEF WireTable
    <2> QED BY <1>2, <2>4 DEF Write, Sound, OneSocket, GatewayObject
  <1> QED BY <1>1, <1>2

LEMMA SendIdentifySound ==
    ASSUME NEW g, Sound(g) PROVE Sound(SendIdentify(g))
  <1>1. [kind |-> "identify", sid |-> 0, seq |-> 0] \in Handshakes
    BY DEF Handshakes
  <1> QED BY <1>1, WriteSound DEF SendIdentify

LEMMA IdentifyOrResumeSound ==
    ASSUME NEW g, Sound(g), g.token # 0 PROVE Sound(IdentifyOrResume(g))
  <1>1. CASE CanResume(g)
    <2>1. [kind |-> "resume", sid |-> g.sid, seq |-> g.seq] \in Handshakes
      <3>1. g.sid \in Sockets /\ g.seq \in 1..MaxSeq
        BY <1>1, SocketsAreTokens, BoundAssumption
           DEF CanResume, Sound, GatewayObject, SequenceNumbers
      <3> QED BY <3>1 DEF Handshakes
    <2>2. Sound(SetState(g, "Resume"))
      BY SetStateSound DEF States
    <2> QED BY <1>1, <2>1, <2>2, WriteSound DEF IdentifyOrResume
  <1>2. CASE ~CanResume(g) /\ Gated /\ ~g.paced
    <2> DEFINE h == SetState(g, "Identify")
    <2>1. Sound(h)
      BY SetStateSound DEF States
    <2>4. g.token \in Sockets
      BY SocketsAreTokens DEF Sound, GatewayObject
    <2>2. g.asking \cup {g.token} \in TokenSets
      BY <2>4 DEF Sound, GatewayObject, TokenSets
    <2>5. h.asking = g.asking
      BY DEF SetState, Sound, GatewayObject
    <2> HIDE DEF h
    <2>3. Sound([h EXCEPT !.asking = g.asking \cup {g.token}])
      BY <2>1, <2>2 DEF Sound, OneSocket, GatewayObject
    <2> QED BY <1>2, <2>3, <2>5 DEF IdentifyOrResume, h
  <1>3. CASE ~CanResume(g) /\ ~(Gated /\ ~g.paced)
    <2>1. Sound([SetState(g, "Identify") EXCEPT !.paced = FALSE])
      BY DEF Sound, OneSocket, GatewayObject, SetState, States
    <2> QED BY <1>3, <2>1, SendIdentifySound DEF IdentifyOrResume
  <1> QED BY <1>1, <1>2, <1>3

\* The token never goes back to 0, so a frame is always handled under one.
LEMMA HandleHelloSound ==
    ASSUME NEW g, Sound(g), g.token # 0, NEW reaction
    PROVE  Sound(HandleHello(g, reaction))
  <1> DEFINE h == Announce(g, IF CanResume(g) THEN "Resume" ELSE "Hello", reaction)
             b == StartHeartbeat(h)
  <1>1. Sound(h)
    BY AnnounceSound DEF States
  <1>2. h.token = g.token
    BY DEF Announce, CloseGateway, SetState, Discard, Settle, ClearTimers,
           StopHeartbeat, ClearBeatTimers, Sound, GatewayObject
  <1> HIDE DEF h
  <1>3. Sound(b)
    BY <1>1, StartHeartbeatSound
  <1>4. b.token = g.token
    BY <1>1, <1>2 DEF StartHeartbeat, ClearBeatTimers, Sound, GatewayObject
  <1> HIDE DEF b
  <1>5. Sound(IdentifyOrResume(b))
    BY <1>3, <1>4, IdentifyOrResumeSound
  <1> QED BY <1>5 DEF HandleHello, b, h

LEMMA HandleReadySound ==
    ASSUME NEW g, Sound(g), NEW sid \in Sockets PROVE Sound(HandleReady(g, sid))
  BY SocketsAreTokens, Zeroes
     DEF HandleReady, SetState, Sound, OneSocket, GatewayObject, States

LEMMA HandleResumedSound ==
    ASSUME NEW g, Sound(g) PROVE Sound(HandleResumed(g))
  BY Zeroes DEF HandleResumed, SetState, Sound, OneSocket, GatewayObject, States

LEMMA ApplySound ==
    ASSUME NEW g, Sound(g), g.token # 0, NEW f \in Frames, NEW reaction
    PROVE  Sound(Apply(g, f, reaction))
  <1> DEFINE h == IF f.s = 0 THEN g ELSE RecordSequence(g, f.s)
             d == Announce(h, "Dispatch", reaction)
  <1>1. f.s \in SequenceNumbers
    BY BoundAssumption DEF Frames, SequenceNumbers
  <1>2. Sound(h)
    BY <1>1, RecordSequenceSound
  <1>3. h.token # 0
    BY DEF RecordSequence, Sound, GatewayObject
  <1> HIDE DEF h
  <1>4. Sound(d)
    BY <1>2, AnnounceSound DEF States
  <1> HIDE DEF d
  <1>5. CASE f.op = "hello"
    BY <1>2, <1>3, <1>5, HandleHelloSound DEF Apply, h
  <1>6. CASE f.op = "ready"
    <2>1. f.sid \in Sockets
      BY <1>6 DEF Frames
    <2> QED BY <1>4, <1>6, <2>1, HandleReadySound DEF Apply, h, d
  <1>7. CASE f.op \in {"resumed", "event"}
    BY <1>4, <1>7, HandleResumedSound DEF Apply, h, d
  <1>8. CASE f.op = "beat"
    <2>1. Sound(Announce(h, "Heartbeat", reaction))
      BY <1>2, AnnounceSound DEF States
    <2> QED BY <1>8, <2>1, SendHeartbeatSound DEF Apply, h
  <1>9. CASE f.op = "ack"
    BY <1>2, <1>9, AcknowledgeSound DEF Apply, h
  <1>10. CASE f.op \in {"reconnect", "resumable"}
    BY <1>2, <1>10, TransportCloseSound DEF Apply, h
  <1>11. CASE f.op = "invalid"
    BY <1>2, <1>11, InvalidateSound, TransportCloseSound DEF Apply, h
  <1>12. f.op \in {"hello", "ready", "resumed", "event", "beat", "ack",
                    "reconnect", "resumable", "invalid"}
    BY DEF Frames
  <1> QED
    BY <1>5, <1>6, <1>7, <1>8, <1>9, <1>10, <1>11, <1>12

-----------------------------------------------------------------------------
(***************************************************************************)
(* The steps                                                               *)
(***************************************************************************)

\* TypeOK is not inductive: that RESUMED carries a sequence number needs that
\* a session Discord remembers has used one, and that the client dials under
\* fresh tokens needs that a socket it holds has one.
TypeInv ==
    /\ TypeOK
    /\ OneSocket(gw)
    /\ \A n \in alive : sent[n] # 0

LEMMA TypeInvInit == Init => TypeInv
  <1> SUFFICES ASSUME Init PROVE TypeInv
    OBVIOUS
  <1>1. PICK auto \in Reconnects : gw =
            [auto |-> auto, state |-> "Connect", closed |-> FALSE, paced |-> FALSE,
             arming |-> FALSE, sid |-> 0, seq |-> 0, attempts |-> 0,
             pending |-> FALSE, promise |-> "none", token |-> 0,
             current |-> 0, sock |-> [s \in Sockets |-> "unused"],
             wire |-> [s \in Sockets |-> <<>>], dial |-> 0, first |-> 0,
             beat |-> 0, ackBy |-> 0, watch |-> FALSE, awaiting |-> FALSE,
             asking |-> {}]
    BY DEF Init
  <1>2. auto \in BOOLEAN
    BY OptionAssumption
  <1>3. /\ [s \in Sockets |-> "unused"] \in SocketTable
        /\ [s \in Sockets |-> <<>>] \in WireTable
        /\ {} \in TokenSets
    BY DEF SocketTable, SocketStates, WireTable, TokenSets
  <1>4. gw \in GatewayObject
    BY <1>1, <1>2, <1>3, Zeroes DEF GatewayObject, States, Promises
  <1>5. OneSocket(gw)
    BY <1>1 DEF OneSocket
  <1> QED BY <1>4, <1>5, Zeroes DEF Init, TypeInv, TypeOK

\* What a step of the client has to preserve of the rest of the state.
LEMMA ClientStep ==
    ASSUME TypeInv, Sound(gw'), UNCHANGED server,
           inbox' \in [Sockets -> Seq(Frames)]
    PROVE  TypeInv'
  BY DEF TypeInv, TypeOK, Sound, server

LEMMA SocketOpensSound ==
    ASSUME TypeInv, NEW s \in Sockets, SocketOpens(s) PROVE Sound(gw')
  <1> DEFINE g == [gw EXCEPT !.sock[s] = "open"]
             up == [g EXCEPT !.dial = 0, !.watch = TRUE]
  <1>1. gw \in GatewayObject /\ OneSocket(gw) /\ gw.sock[s] = "connecting"
    BY DEF TypeInv, TypeOK, SocketOpens
  <1>2. Sound(g)
    <2>1. [gw.sock EXCEPT ![s] = "open"] \in SocketTable
      BY <1>1 DEF GatewayObject, SocketTable, SocketStates
    <2>2. g \in GatewayObject
      BY <1>1, <2>1 DEF GatewayObject
    <2>3. OneSocket(g)
      BY <1>1 DEF OneSocket, GatewayObject, SocketTable
    <2> QED BY <2>2, <2>3 DEF Sound
  <1> HIDE DEF g
  <1>3. Sound(up)
    BY <1>2, Zeroes DEF Sound, OneSocket, GatewayObject
  <1>4. Sound(Settle(up, "fulfilled"))
    BY <1>3, SettleSound DEF Promises
  <1> QED BY <1>2, <1>4 DEF SocketOpens, g

LEMMA DeliverSound ==
    ASSUME TypeInv, NEW s \in Sockets, Deliver(s) PROVE Sound(gw')
  <1>1. Sound(gw) /\ inbox[s] # <<>> /\ inbox[s] \in Seq(Frames)
    BY DEF TypeInv, TypeOK, Sound, Deliver
  <1>2. Head(inbox[s]) \in Frames
    BY <1>1
  <1>3. CASE ~Owns(gw, s)
    BY <1>1, <1>3 DEF Deliver
  <1>4. CASE Owns(gw, s)
    <2>1. gw.token # 0
      BY <1>1, <1>4, SocketsAreTokens DEF Owns, Sound, OneSocket
    <2> QED BY <1>1, <1>2, <1>4, <2>1, ApplySound DEF Deliver
  <1> QED BY <1>3, <1>4

LEMMA SocketClosesSound ==
    ASSUME TypeInv, NEW s \in Sockets, SocketCloses(s) PROVE Sound(gw')
  <1>1. Sound(gw)
    BY DEF TypeInv, TypeOK, Sound
  <1>2. CASE Owns(gw, s)
    BY <1>1, <1>2, HandleCloseSound DEF SocketCloses, Owns, CanDial
  <1>3. CASE ~Owns(gw, s)
    <2>1. [gw.sock EXCEPT ![s] = "closed"] \in SocketTable
      BY <1>1 DEF Sound, GatewayObject, SocketTable, SocketStates
    <2>2. [gw EXCEPT !.sock[s] = "closed"] \in GatewayObject
      BY <1>1, <2>1 DEF Sound, GatewayObject
    <2>3. OneSocket([gw EXCEPT !.sock[s] = "closed"])
      BY <1>1 DEF Sound, OneSocket, GatewayObject, SocketTable
    <2>4. gw' = [gw EXCEPT !.sock[s] = "closed"]
      BY <1>3 DEF SocketCloses
    <2> QED BY <2>2, <2>3, <2>4 DEF Sound
  <1> QED BY <1>2, <1>3

LEMMA TimerSound ==
    ASSUME TypeInv, Timer PROVE Sound(gw')
  <1>1. Sound(gw)
    BY DEF TypeInv, TypeOK, Sound
  <1>2. CASE ReconnectTimer
    <2> DEFINE g == [gw EXCEPT !.pending = FALSE]
    <2>1. Sound(g) /\ g.token = gw.token
      BY <1>1 DEF Sound, OneSocket, GatewayObject
    <2>2. gw.token < MaxSockets
      BY <1>2 DEF ReconnectTimer, CanDial
    <2> HIDE DEF g
    <2>3. ASSUME NEW ok PROVE Sound(Open(g, ok))
      BY <2>1, <2>2, OpenSound
    <2> QED BY <1>2, <2>3 DEF ReconnectTimer, g
  <1>3. CASE ConnectTimer
    <2> DEFINE g == [gw EXCEPT !.dial = 0]
    <2>1. Sound(g)
      BY <1>1, Zeroes DEF Sound, OneSocket, GatewayObject
    <2> HIDE DEF g
    <2> QED BY <1>3, <2>1, TransportCloseSound DEF ConnectTimer, g
  <1>4. CASE FirstBeat
    <2> DEFINE g == SendHeartbeat(gw)
    <2>1. Sound(g) /\ gw.first \in Tokens
      BY <1>1, SendHeartbeatSound DEF Sound, GatewayObject
    <2> HIDE DEF g
    <2>2. Sound([g EXCEPT !.beat = gw.first, !.first = 0])
      BY <2>1, Zeroes DEF Sound, OneSocket, GatewayObject
    <2> QED BY <1>4, <2>2 DEF FirstBeat, g
  <1>5. CASE ScheduledBeat
    BY <1>1, <1>5, ClearBeatTimersSound, TransportCloseSound, SendHeartbeatSound
       DEF ScheduledBeat
  <1>6. CASE AckTimeout
    <2>1. Sound([gw EXCEPT !.ackBy = 0])
      BY <1>1, Zeroes DEF Sound, OneSocket, GatewayObject
    <2> QED BY <1>6, <2>1, TransportCloseSound DEF AckTimeout
  <1>7. CASE ZombieTimeout
    BY <1>1, <1>7, TransportCloseSound DEF ZombieTimeout
  <1> QED BY <1>2, <1>3, <1>4, <1>5, <1>6, <1>7 DEF Timer

LEMMA GateAnswersSound ==
    ASSUME TypeInv, NEW t \in Sockets, GateAnswers(t) PROVE Sound(gw')
  <1> DEFINE g == [gw EXCEPT !.asking = gw.asking \ {t}]
  <1>1. Sound(gw)
    BY DEF TypeInv, TypeOK, Sound
  <1>2. gw.asking \ {t} \in TokenSets
    BY <1>1 DEF Sound, GatewayObject, TokenSets
  <1>3. Sound(g)
    BY <1>1, <1>2 DEF Sound, OneSocket, GatewayObject
  <1> HIDE DEF g
  <1> QED BY <1>3, SendIdentifySound, TransportCloseSound DEF GateAnswers, g

\* What Discord puts on the way is a frame.
LEMMA PushTyped ==
    ASSUME TypeInv, NEW s \in Sockets, NEW f \in Frames, Push(s, f)
    PROVE  inbox' \in [Sockets -> Seq(Frames)]
  <1>1. inbox \in [Sockets -> Seq(Frames)]
    BY DEF TypeInv, TypeOK
  <1>2. Append(inbox[s], f) \in Seq(Frames)
    BY <1>1
  <1> QED BY <1>1, <1>2 DEF Push

LEMMA FramesTyped ==
    /\ \A op \in {"hello", "reconnect", "invalid", "resumable", "beat", "ack"} :
          Frame(op, 0, 0) \in Frames
    /\ \A sid \in Sockets, n \in 1..MaxSeq : Frame("ready", sid, n) \in Frames
    /\ \A op \in {"resumed", "event"}, n \in 1..MaxSeq : Frame(op, 0, n) \in Frames
  BY DEF Frame, Frames

LEMMA NumbersOfSessions ==
    ASSUME NEW n \in SequenceNumbers, n # 0 PROVE n \in 1..MaxSeq
  BY BoundAssumption DEF SequenceNumbers

LEMMA AnswersIdentifyTyped ==
    ASSUME TypeInv, NEW s \in Sockets, AnswersIdentify(s) PROVE TypeInv'
  <1>1. 1 \in 1..MaxSeq /\ 1 \in SequenceNumbers /\ s \in Tokens
    BY BoundAssumption, SocketsAreTokens DEF SequenceNumbers
  <1>2. inbox' \in [Sockets -> Seq(Frames)]
    BY <1>1, FramesTyped, PushTyped DEF AnswersIdentify
  <1>3. gw' \in GatewayObject /\ OneSocket(gw')
    BY DEF AnswersIdentify, TypeInv, TypeOK
  <1>4. /\ answered' \in SUBSET Sockets /\ attached' \in [Sockets -> Tokens]
        /\ alive' \in SUBSET Sockets /\ sent' \in [Sockets -> SequenceNumbers]
    BY <1>1 DEF AnswersIdentify, TypeInv, TypeOK
  <1>5. \A n \in alive' : sent'[n] # 0
    BY DEF AnswersIdentify, TypeInv, TypeOK
  <1> QED BY <1>2, <1>3, <1>4, <1>5 DEF TypeInv, TypeOK

LEMMA AnswersResumeTyped ==
    ASSUME TypeInv, NEW s \in Sockets, AnswersResume(s) PROVE TypeInv'
  <1> DEFINE n == Head(gw.wire[s]).sid
  <1>1. n \in Sockets
    <2>1. gw.wire[s] \in Seq(Handshakes) /\ gw.wire[s] # <<>>
      BY DEF TypeInv, TypeOK, GatewayObject, WireTable, AnswersResume
    <2>2. Head(gw.wire[s]) \in Handshakes /\ Head(gw.wire[s]).kind = "resume"
      BY <2>1 DEF AnswersResume
    <2> QED BY <2>2 DEF Handshakes
  <1>2. n \in alive => sent[n] \in 1..MaxSeq
    BY <1>1, NumbersOfSessions DEF TypeInv, TypeOK
  <1>3. inbox' \in [Sockets -> Seq(Frames)]
    BY <1>2, FramesTyped, PushTyped DEF AnswersResume
  <1>4. gw' \in GatewayObject /\ OneSocket(gw')
    BY DEF AnswersResume, TypeInv, TypeOK
  <1>5. n \in Tokens
    BY <1>1, SocketsAreTokens
  <1>6. /\ answered' \in SUBSET Sockets /\ attached' \in [Sockets -> Tokens]
        /\ alive' \in SUBSET Sockets /\ sent' \in [Sockets -> SequenceNumbers]
    BY <1>5 DEF AnswersResume, TypeInv, TypeOK
  <1>7. \A m \in alive' : sent'[m] # 0
    BY DEF AnswersResume, TypeInv
  <1> QED BY <1>3, <1>4, <1>6, <1>7 DEF TypeInv, TypeOK

LEMMA SendsEventTyped ==
    ASSUME TypeInv, NEW s \in Sockets, SendsEvent(s) PROVE TypeInv'
  <1>1. attached[s] \in Sockets /\ sent \in [Sockets -> SequenceNumbers]
    BY SocketsAreTokens DEF TypeInv, TypeOK, SendsEvent
  <1>2. sent[attached[s]] \in SequenceNumbers /\ sent[attached[s]] < MaxSeq
    BY <1>1 DEF SendsEvent
  <1>3. /\ sent[attached[s]] + 1 \in 1..MaxSeq
        /\ sent[attached[s]] + 1 \in SequenceNumbers
        /\ sent[attached[s]] + 1 # 0
    BY <1>2, BoundAssumption DEF SequenceNumbers
  <1>4. inbox' \in [Sockets -> Seq(Frames)]
    BY <1>3, FramesTyped, PushTyped DEF SendsEvent
  <1>5. sent' \in [Sockets -> SequenceNumbers]
    BY <1>1, <1>3 DEF SendsEvent
  <1>6. \A n \in alive : sent'[n] # 0
    BY <1>1, <1>3 DEF SendsEvent, TypeInv, TypeOK
  <1> QED BY <1>4, <1>5, <1>6 DEF SendsEvent, TypeInv, TypeOK

LEMMA DiscordTyped ==
    ASSUME TypeInv, NEW s \in Sockets, Discord(s) PROVE TypeInv'
  <1>1. CASE AnswersIdentify(s)
    BY <1>1, AnswersIdentifyTyped
  <1>2. CASE AnswersResume(s)
    BY <1>2, AnswersResumeTyped
  <1>3. CASE SendsEvent(s)
    BY <1>3, SendsEventTyped
  <1>4. CASE SendsControl(s)
    <2>1. inbox' \in [Sockets -> Seq(Frames)]
      BY <1>4, FramesTyped, PushTyped DEF SendsControl
    <2>2. Sound(gw') /\ UNCHANGED server
      BY <1>4 DEF SendsControl, TypeInv, TypeOK, Sound
    <2> QED BY <2>1, <2>2, ClientStep
  <1>5. CASE SendsInvalid(s)
    <2>1. inbox' \in [Sockets -> Seq(Frames)]
      BY <1>5, FramesTyped, PushTyped DEF SendsInvalid
    <2>2. attached' \in [Sockets -> Tokens]
      BY <1>5, Zeroes DEF SendsInvalid, TypeInv, TypeOK
    <2> QED BY <1>5, <2>1, <2>2 DEF SendsInvalid, TypeInv, TypeOK
  <1>6. CASE SessionExpires(s)
    BY <1>6 DEF SessionExpires, TypeInv, TypeOK
  <1> QED BY <1>1, <1>2, <1>3, <1>4, <1>5, <1>6 DEF Discord

LEMMA ClientTyped ==
    ASSUME TypeInv, NEW s \in Sockets,
           SocketOpens(s) \/ Deliver(s) \/ SocketCloses(s) \/ GateAnswers(s)
    PROVE  TypeInv'
  <1>1. inbox \in [Sockets -> Seq(Frames)]
    BY DEF TypeInv, TypeOK
  <1>2. CASE SocketOpens(s)
    <2>1. <<Frame("hello", 0, 0)>> \in Seq(Frames)
      BY FramesTyped
    <2>2. inbox' \in [Sockets -> Seq(Frames)]
      BY <1>1, <1>2, <2>1 DEF SocketOpens
    <2>3. UNCHANGED server
      BY <1>2 DEF SocketOpens
    <2> QED BY <1>2, <2>2, <2>3, SocketOpensSound, ClientStep
  <1>3. CASE Deliver(s)
    <2>1. Tail(inbox[s]) \in Seq(Frames)
      BY <1>1, <1>3 DEF Deliver
    <2>2. inbox' \in [Sockets -> Seq(Frames)]
      BY <1>1, <1>3, <2>1 DEF Deliver
    <2>3. UNCHANGED server
      BY <1>3 DEF Deliver
    <2> QED BY <1>3, <2>2, <2>3, DeliverSound, ClientStep
  <1>4. CASE SocketCloses(s)
    <2>1. inbox' \in [Sockets -> Seq(Frames)]
      BY <1>1, <1>4 DEF SocketCloses
    <2>2. attached' \in [Sockets -> Tokens]
      BY <1>4, Zeroes DEF SocketCloses, TypeInv, TypeOK
    <2>3. /\ alive' \subseteq alive
          /\ answered' = answered /\ sent' = sent
      BY <1>4 DEF SocketCloses
    <2> QED BY <1>4, <2>1, <2>2, <2>3, SocketClosesSound DEF TypeInv, TypeOK, Sound
  <1>5. CASE GateAnswers(s)
    <2>1. inbox' = inbox /\ UNCHANGED server
      BY <1>5 DEF GateAnswers
    <2> QED BY <1>1, <1>5, <2>1, GateAnswersSound, ClientStep
  <1> QED BY <1>2, <1>3, <1>4, <1>5

LEMMA TypeInvStep == TypeInv /\ [Next]_vars => TypeInv'
  <1> SUFFICES ASSUME TypeInv, [Next]_vars PROVE TypeInv'
    OBVIOUS
  <1>1. Sound(gw) /\ inbox \in [Sockets -> Seq(Frames)]
    BY DEF TypeInv, TypeOK, Sound
  <1>2. CASE Connect
    <2>1. Sound(gw')
      BY <1>1, <1>2, ConnectGatewaySound DEF Connect, CanDial
    <2> QED BY <1>1, <1>2, <2>1, ClientStep DEF Connect
  <1>3. CASE Close
    BY <1>1, <1>3, CloseGatewaySound, ClientStep DEF Close
  <1>4. CASE Timer
    <2>1. inbox' = inbox /\ UNCHANGED server
      BY <1>4 DEF Timer, ReconnectTimer, ConnectTimer, FirstBeat, ScheduledBeat,
                  AckTimeout, ZombieTimeout
    <2> QED BY <1>1, <1>4, <2>1, TimerSound, ClientStep
  <1>5. ASSUME NEW s \in Sockets,
               SocketOpens(s) \/ Deliver(s) \/ SocketCloses(s) \/ GateAnswers(s)
        PROVE  TypeInv'
    BY <1>5, ClientTyped
  <1>6. ASSUME NEW s \in Sockets, Discord(s) PROVE TypeInv'
    BY <1>6, DiscordTyped
  <1>7. CASE UNCHANGED vars
    BY <1>7 DEF vars, TypeInv, TypeOK
  <1> QED BY <1>2, <1>3, <1>4, <1>5, <1>6, <1>7 DEF Next

\* Whatever the options, listeners and closes, every field keeps its domain:
\* the backoff never counts beyond maxReconnectAttempts, every handshake
\* written and every frame handled names a real session (TypeOK), for every
\* number of connections, events and attempts.
THEOREM TypeCorrect == Spec => []TypeOK
  <1>1. TypeInv => TypeOK
    BY DEF TypeInv
  <1> QED BY <1>1, TypeInvInit, TypeInvStep, PTL DEF Spec

-----------------------------------------------------------------------------
(***************************************************************************)
(* One connection                                                          *)
(***************************************************************************)

\* No socket is held while a backoff runs.
Backed(g) == g.pending => g.current = 0

\* Nothing is armed and nothing is held: how a close event starts.
Still(g) ==
    /\ g.current = 0 /\ ~g.pending /\ ~g.watch
    /\ g.dial = 0 /\ g.first = 0 /\ g.beat = 0 /\ g.ackBy = 0

\* A closed object has nothing armed, and says that it is closed.
Quiet(g) == g.closed => g.state = "Closed" /\ Still(g)

LEMMA CloseGatewayStill ==
    ASSUME NEW g, Sound(g)
    PROVE  LET c == CloseGateway(g) IN Still(c) /\ c.closed /\ c.state = "Closed"
  <1> DEFINE h == Settle(ClearTimers([g EXCEPT !.closed = TRUE]), "rejected")
  <1>1. Sound(h)
    BY ClosingSound, ClearTimersSound, SettleSound DEF Promises
  <1>2. /\ h.closed /\ ~h.pending /\ ~h.watch
        /\ h.dial = 0 /\ h.first = 0 /\ h.beat = 0 /\ h.ackBy = 0
    BY DEF Settle, ClearTimers, StopHeartbeat, ClearBeatTimers, Sound, GatewayObject
  <1> HIDE DEF h
  <1> DEFINE d == Discard(h)
  <1>3. /\ d.closed /\ ~d.pending /\ ~d.watch /\ d.current = 0
        /\ d.dial = 0 /\ d.first = 0 /\ d.beat = 0 /\ d.ackBy = 0
    BY <1>1, <1>2 DEF Discard, Sound, GatewayObject
  <1>4. Sound(d)
    BY <1>1, DiscardSound
  <1> HIDE DEF d
  <1>5. Still(SetState(d, "Closed")) /\ SetState(d, "Closed").closed
        /\ SetState(d, "Closed").state = "Closed"
    BY <1>3, <1>4 DEF SetState, Still, Sound, GatewayObject
  <1> QED BY <1>5 DEF CloseGateway, d, h

LEMMA ScheduleReconnectBacked ==
    ASSUME NEW g, Sound(g), Backed(g), g.current = 0
    PROVE  Backed(ScheduleReconnect(g)) /\ ScheduleReconnect(g).closed = g.closed
  BY DEF ScheduleReconnect, Settle, SetState, Backed, Sound, GatewayObject

\* Dialling starts without a backoff; it holds the new socket, or backs off
\* without one.
LEMMA OpenBacked ==
    ASSUME NEW g, Sound(g), g.token < MaxSockets, ~g.pending, NEW ok
    PROVE  Backed(Open(g, ok)) /\ Open(g, ok).closed = g.closed
  <1> DEFINE fresh == [g EXCEPT !.token = @ + 1]
             d == Discard(fresh)
             h == TransportConnect(fresh, ok)
  <1>1. g.token + 1 \in Tokens /\ g.token + 1 # 0
    BY BoundAssumption DEF Sound, GatewayObject, Tokens
  <1>2. Sound(fresh) /\ fresh.token # 0
    BY <1>1 DEF Sound, OneSocket, GatewayObject
  <1>3. ~fresh.pending /\ fresh.closed = g.closed /\ fresh.auto = g.auto
    BY DEF Sound, GatewayObject
  <1>4. Sound(h) BY <1>2, TransportConnectSound
  <1> HIDE DEF fresh
  <1>5. Sound(d) /\ d.current = 0
    BY <1>2, DiscardSound
  <1>6. ~d.pending /\ d.closed = g.closed /\ d.auto = g.auto
    BY <1>2, <1>3 DEF Discard, Sound, GatewayObject
  <1> HIDE DEF d
  <1>7. /\ ~h.pending /\ h.closed = g.closed /\ h.auto = g.auto
        /\ ~ok => h.current = 0
    BY <1>5, <1>6 DEF TransportConnect, d, Sound, GatewayObject
  <1> HIDE DEF h
  <1>8. CASE g.closed
    BY <1>8 DEF Open, Backed
  <1>9. CASE ~g.closed /\ ok
    <2>1. Open(g, ok) = [h EXCEPT !.dial = h.token]
      BY <1>9 DEF Open, h, fresh
    <2> QED BY <1>4, <1>7, <2>1 DEF Backed, Sound, GatewayObject
  <1>10. CASE ~g.closed /\ ~ok /\ h.auto
    <2> DEFINE r == SetState(h, "Reconnect")
    <2>1. Sound(r)
      BY <1>4, SetStateSound DEF States
    <2>2. ~r.pending /\ r.closed = g.closed /\ r.current = 0
      BY <1>4, <1>7, <1>10 DEF SetState, Sound, GatewayObject
    <2> HIDE DEF r
    <2>3. Backed(ScheduleReconnect(r)) /\ ScheduleReconnect(r).closed = g.closed
      BY <2>1, <2>2, ScheduleReconnectBacked DEF Backed
    <2> QED BY <1>7, <1>10, <2>3 DEF Open, h, fresh, r
  <1>11. CASE ~g.closed /\ ~ok /\ ~h.auto
    <2>1. Backed(Settle(h, "rejected")) /\ Settle(h, "rejected").closed = g.closed
      BY <1>4, <1>7 DEF Settle, Backed, Sound, GatewayObject
    <2> QED BY <1>7, <1>11, <2>1 DEF Open, h, fresh
  <1> QED BY <1>8, <1>9, <1>10, <1>11

LEMMA ConnectGatewayBacked ==
    ASSUME NEW g, Sound(g), Backed(g), Dials(g) => g.token < MaxSockets, NEW ok
    PROVE  /\ Backed(ConnectGateway(g, ok))
           /\ Quiet(g) => Quiet(ConnectGateway(g, ok))
  <1>1. CASE ~Idle(g)
    BY <1>1 DEF ConnectGateway
  <1>2. CASE Idle(g) /\ Joins(g)
    BY <1>2 DEF ConnectGateway, Backed, Quiet, Still, Sound, GatewayObject
  <1>3. CASE Dials(g)
    <2> DEFINE h == SetState([g EXCEPT !.closed = FALSE, !.paced = TRUE,
                                       !.promise = "pending"], "Connect")
    <2>1. Sound(h) /\ h.token = g.token
      BY DEF Sound, OneSocket, GatewayObject, Promises, SetState, States
    <2>2. ~h.pending /\ ~h.closed
      BY <1>3 DEF SetState, Dials, Joins, Sound, GatewayObject
    <2> HIDE DEF h
    <2>3. Backed(Open(h, ok)) /\ ~Open(h, ok).closed
      BY <1>3, <2>1, <2>2, OpenBacked
    <2> QED BY <1>3, <2>3 DEF ConnectGateway, Dials, Quiet, h
  <1> QED BY <1>1, <1>2, <1>3 DEF Dials

\* A listener of the close event leaves nothing armed behind: its connect()
\* joins the reconnect that is about to be armed.
LEMMA ReactStill ==
    ASSUME NEW g, Sound(g), Still(g), NEW reaction, NEW ok,
           reaction = "connect" => g.arming
    PROVE  Sound(React(g, reaction, ok)) /\ Still(React(g, reaction, ok))
  <1>1. CASE reaction = "connect"
    <2>1. Joins(g)
      BY <1>1 DEF Joins
    <2>2. Sound([g EXCEPT !.promise = "pending"])
      BY DEF Sound, OneSocket, GatewayObject, Promises
    <2>3. Still([g EXCEPT !.promise = "pending"])
      BY DEF Still, Sound, GatewayObject
    <2> QED BY <1>1, <2>1, <2>2, <2>3 DEF React, ConnectGateway
  <1>2. CASE reaction = "close"
    BY <1>2, CloseGatewaySound, CloseGatewayStill DEF React
  <1>3. CASE reaction \notin {"connect", "close"}
    BY <1>3 DEF React
  <1> QED BY <1>1, <1>2, <1>3

LEMMA ClearTimersStops ==
    ASSUME NEW g, Sound(g)
    PROVE  LET c == ClearTimers(g)
           IN  /\ ~c.pending /\ ~c.watch
               /\ c.dial = 0 /\ c.first = 0 /\ c.beat = 0 /\ c.ackBy = 0
               /\ c.current = g.current /\ c.auto = g.auto /\ c.closed = g.closed
               /\ c.sid = g.sid /\ c.seq = g.seq
  BY DEF ClearTimers, StopHeartbeat, ClearBeatTimers, Sound, GatewayObject

LEMMA HandleCloseBacked ==
    ASSUME NEW g, Sound(g), NEW s \in Sockets, s = g.current,
           NEW kind, NEW reaction, NEW ok,
           reaction = "connect" => Arms(g, kind)
    PROVE  LET h == HandleClose(g, s, kind, reaction, ok) IN Backed(h) /\ Quiet(h)
  <1> DEFINE g1 == [g EXCEPT !.current = 0, !.sock[s] = "closed"]
             gone == ClearTimers(g1)
             action == ClassifyClose(kind, CanResume(gone))
             g2 == [gone EXCEPT !.arming = Arms(gone, kind)]
             g3 == React(g2, reaction, ok)
             told == [g3 EXCEPT !.arming = FALSE]
             over == told.closed \/ action = "stop"
             last == IF action = "identify" THEN Invalidate(told) ELSE told
  <1>1. Sound(g1) /\ g1.current = 0
    BY GoneSound
  <1>2. /\ g1.auto = g.auto /\ g1.closed = g.closed
        /\ g1.sid = g.sid /\ g1.seq = g.seq
    BY DEF Sound, GatewayObject
  <1> HIDE DEF g1
  <1>3. Sound(gone) /\ Still(gone)
    BY <1>1, ClearTimersSound, ClearTimersStops DEF Still
  <1>4. /\ gone.auto = g.auto /\ gone.closed = g.closed
        /\ gone.sid = g.sid /\ gone.seq = g.seq
    BY <1>1, <1>2, ClearTimersStops
  <1> HIDE DEF gone
  <1>5. Arms(gone, kind) = Arms(g, kind) /\ Arms(gone, kind) \in BOOLEAN
    BY <1>4 DEF Arms, CanResume
  <1>6. Sound(g2) /\ Still(g2) /\ g2.arming = Arms(g, kind)
    BY <1>3, <1>5 DEF Still, Sound, OneSocket, GatewayObject
  <1> HIDE DEF g2
  <1>7. Sound(g3) /\ Still(g3)
    BY <1>6, ReactStill
  <1> HIDE DEF g3
  <1>8. Sound(told) /\ Still(told) /\ over \in BOOLEAN
    BY <1>7 DEF Still, Sound, OneSocket, GatewayObject
  <1> HIDE DEF told
  <1>9. Sound(last) /\ Still(last) /\ last.closed = told.closed
    BY <1>8, InvalidateSound DEF Invalidate, Still, Sound, GatewayObject
  <1> HIDE DEF last, over
  <1>10. CASE over \/ ~g.auto
    <2> DEFINE t == [told EXCEPT !.closed = over]
               next == IF over THEN "Closed" ELSE "Connect"
               e == SetState(t, next)
    <2>1. Sound(t) /\ Still(t) /\ t.closed = over
      BY <1>8 DEF Still, Sound, OneSocket, GatewayObject
    <2>2. next \in States /\ (over => next = "Closed")
      BY DEF States
    <2>3. HandleClose(g, s, kind, reaction, ok) = Settle(e, "rejected")
      BY <1>10 DEF HandleClose, g1, gone, g2, g3, told, over
    <2> HIDE DEF t, next
    <2>4. Sound(e)
      BY <2>1, <2>2, SetStateSound
    <2>5. Still(e) /\ e.closed = over /\ e.state = next
      BY <2>1 DEF SetState, Still, Sound, GatewayObject
    <2> HIDE DEF e
    <2>6. Backed(Settle(e, "rejected")) /\ Quiet(Settle(e, "rejected"))
      BY <2>2, <2>4, <2>5 DEF Settle, Backed, Quiet, Still, Sound, GatewayObject
    <2> QED BY <2>3, <2>6
  <1>11. CASE ~(over \/ ~g.auto)
    <2> DEFINE e == SetState(last, "Reconnect")
    <2>1. HandleClose(g, s, kind, reaction, ok) = ScheduleReconnect(e)
      BY <1>11 DEF HandleClose, g1, gone, g2, g3, told, over, last
    <2>2. Sound(e)
      BY <1>9, SetStateSound DEF States
    <2>3. ~e.closed /\ e.current = 0
      BY <1>9, <1>11 DEF SetState, Still, over, Sound, GatewayObject
    <2> HIDE DEF e
    <2> QED BY <2>1, <2>2, <2>3, ScheduleReconnectBacked DEF Backed, Quiet
  <1> QED BY <1>10, <1>11

\* What handling a frame leaves alone: no backoff is armed and, unless a
\* listener closes (b is FALSE), the object is not closed.
Unarmed(g, b) == ~g.pending /\ (b => ~g.closed)

LEMMA MethodsUnarmed ==
    ASSUME NEW g, Sound(g), NEW b, Unarmed(g, b)
    PROVE  /\ Unarmed(StartHeartbeat(g), b)
           /\ Unarmed(SendHeartbeat(g), b)
           /\ Unarmed(Acknowledge(g), b)
           /\ Unarmed(Invalidate(g), b)
           /\ Unarmed(TransportClose(g), b)
           /\ \A handshake : Unarmed(Write(g, handshake), b)
           /\ \A next : Unarmed(SetState(g, next), b)
           /\ \A n : Unarmed(RecordSequence(g, n), b)
           /\ \A sid : Unarmed(HandleReady(g, sid), b)
           /\ Unarmed(HandleResumed(g), b)
  <1>1. Unarmed(StartHeartbeat(g), b)
    BY DEF StartHeartbeat, ClearBeatTimers, Unarmed, Sound, GatewayObject
  <1>2. Unarmed(SendHeartbeat(g), b) /\ Unarmed(Acknowledge(g), b)
    BY DEF SendHeartbeat, Acknowledge, Unarmed, Sound, GatewayObject
  <1>3. Unarmed(Invalidate(g), b) /\ Unarmed(TransportClose(g), b)
    BY DEF Invalidate, TransportClose, Unarmed, Sound, GatewayObject
  <1>4. \A handshake : Unarmed(Write(g, handshake), b)
    BY DEF Write, Unarmed, Sound, GatewayObject
  <1>5. /\ \A next : Unarmed(SetState(g, next), b)
        /\ \A n : Unarmed(RecordSequence(g, n), b)
    BY DEF SetState, RecordSequence, Unarmed, Sound, GatewayObject
  <1>6. /\ \A sid : Unarmed(HandleReady(g, sid), b)
        /\ Unarmed(HandleResumed(g), b)
    BY DEF HandleReady, HandleResumed, SetState, Unarmed, Sound, GatewayObject
  <1> QED BY <1>1, <1>2, <1>3, <1>4, <1>5, <1>6

LEMMA AnnounceUnarmed ==
    ASSUME NEW g, Sound(g), NEW b, Unarmed(g, b),
           NEW next \in States, NEW reaction, b => reaction # "close"
    PROVE  Unarmed(Announce(g, next, reaction), b)
  <1>1. Sound(SetState(g, next)) /\ Unarmed(SetState(g, next), b)
    BY SetStateSound, MethodsUnarmed
  <1>2. ~CloseGateway(SetState(g, next)).pending
    BY <1>1, CloseGatewayStill DEF Still
  <1> QED BY <1>1, <1>2 DEF Announce, Unarmed

LEMMA IdentifyOrResumeUnarmed ==
    ASSUME NEW g, Sound(g), NEW b, Unarmed(g, b)
    PROVE  Unarmed(IdentifyOrResume(g), b)
  <1>1. /\ Sound(SetState(g, "Resume")) /\ Unarmed(SetState(g, "Resume"), b)
        /\ Sound(SetState(g, "Identify")) /\ Unarmed(SetState(g, "Identify"), b)
    BY SetStateSound, MethodsUnarmed DEF States
  <1> DEFINE h == SetState(g, "Identify")
             paced == [h EXCEPT !.paced = FALSE]
             asked == [h EXCEPT !.asking = @ \cup {g.token}]
  <1> HIDE DEF h
  <1>2. Sound(paced) /\ Unarmed(paced, b) /\ Unarmed(asked, b)
    BY <1>1 DEF h, Unarmed, Sound, OneSocket, GatewayObject
  <1> HIDE DEF paced, asked
  <1>3. Unarmed(SendIdentify(paced), b)
    BY <1>2, MethodsUnarmed DEF SendIdentify
  <1>4. CASE CanResume(g)
    BY <1>1, <1>4, MethodsUnarmed DEF IdentifyOrResume
  <1>5. CASE ~CanResume(g)
    BY <1>2, <1>3, <1>5 DEF IdentifyOrResume, h, paced, asked
  <1> QED BY <1>4, <1>5

LEMMA ApplyUnarmed ==
    ASSUME NEW g, Sound(g), NEW b, Unarmed(g, b),
           NEW f \in Frames, NEW reaction, b => reaction # "close"
    PROVE  Unarmed(Apply(g, f, reaction), b)
  <1> DEFINE h == IF f.s = 0 THEN g ELSE RecordSequence(g, f.s)
             d == Announce(h, "Dispatch", reaction)
             greeted == Announce(h, IF CanResume(h) THEN "Resume" ELSE "Hello", reaction)
  <1>1. f.s \in SequenceNumbers
    BY BoundAssumption DEF Frames, SequenceNumbers
  <1>2. Sound(h) /\ Unarmed(h, b)
    BY <1>1, RecordSequenceSound, MethodsUnarmed
  <1> HIDE DEF h
  <1>3. Sound(d) /\ Unarmed(d, b)
    BY <1>2, AnnounceSound, AnnounceUnarmed DEF States
  <1>4. Sound(greeted) /\ Unarmed(greeted, b)
    BY <1>2, AnnounceSound, AnnounceUnarmed DEF States
  <1> HIDE DEF d, greeted
  <1>5. CASE f.op = "hello"
    <2>1. Sound(StartHeartbeat(greeted)) /\ Unarmed(StartHeartbeat(greeted), b)
      BY <1>4, StartHeartbeatSound, MethodsUnarmed
    <2>2. Unarmed(HandleHello(h, reaction), b)
      BY <2>1, IdentifyOrResumeUnarmed DEF HandleHello, greeted
    <2> QED BY <1>5, <2>2 DEF Apply, h
  <1>6. CASE f.op \in {"ready", "resumed", "event"}
    BY <1>3, <1>6, MethodsUnarmed DEF Apply, h, d
  <1>7. CASE f.op = "beat"
    <2>1. /\ Sound(Announce(h, "Heartbeat", reaction))
          /\ Unarmed(Announce(h, "Heartbeat", reaction), b)
      BY <1>2, AnnounceSound, AnnounceUnarmed DEF States
    <2> QED BY <1>7, <2>1, MethodsUnarmed DEF Apply, h
  <1>8. CASE f.op \in {"ack", "reconnect", "resumable"}
    BY <1>2, <1>8, MethodsUnarmed DEF Apply, h
  <1>9. CASE f.op = "invalid"
    BY <1>2, <1>9, InvalidateSound, MethodsUnarmed DEF Apply, h
  <1>10. f.op \in {"hello", "ready", "resumed", "event", "beat", "ack",
                    "reconnect", "resumable", "invalid"}
    BY DEF Frames
  <1> QED BY <1>5, <1>6, <1>7, <1>8, <1>9, <1>10

-----------------------------------------------------------------------------
(***************************************************************************)
(* The steps, again                                                        *)
(***************************************************************************)

\* What one step has to preserve.  Under a stateChange listener that calls
\* close() in the middle of a frame, Quiet is not preserved.
Kept(g, h) == Backed(h) /\ (Quiet(g) /\ OnState \subseteq {"nothing"} => Quiet(h))

\* A step that neither arms the backoff, nor closes, nor takes a socket.
LEMMA SameKept ==
    ASSUME NEW g, NEW h, Backed(g), h.pending = g.pending, h.closed = g.closed,
           h.current = g.current, Quiet(g) => ~g.closed
    PROVE  Kept(g, h)
  BY DEF Kept, Backed, Quiet

LEMMA TransportCloseSame ==
    ASSUME NEW g, Sound(g)
    PROVE  LET h == TransportClose(g)
           IN  h.pending = g.pending /\ h.closed = g.closed /\ h.current = g.current
  BY DEF TransportClose, Sound, GatewayObject

LEMMA SendHeartbeatSame ==
    ASSUME NEW g, Sound(g)
    PROVE  LET h == SendHeartbeat(g)
           IN  h.pending = g.pending /\ h.closed = g.closed /\ h.current = g.current
  BY DEF SendHeartbeat, Sound, GatewayObject

LEMMA TimerKept ==
    ASSUME TypeInv, Backed(gw), Timer PROVE Kept(gw, gw')
  <1>1. Sound(gw)
    BY DEF TypeInv, TypeOK, Sound
  <1>2. CASE ReconnectTimer
    <2> DEFINE g == [gw EXCEPT !.pending = FALSE]
    <2>1. Sound(g) /\ g.token < MaxSockets /\ ~g.pending
      BY <1>1, <1>2 DEF ReconnectTimer, CanDial, Sound, OneSocket, GatewayObject
    <2>2. g.closed = gw.closed /\ gw.pending
      BY <1>1, <1>2 DEF ReconnectTimer, Sound, GatewayObject
    <2> HIDE DEF g
    <2>3. PICK ok : gw' = Open(g, ok)
      BY <1>2 DEF ReconnectTimer, g
    <2>4. Backed(gw') /\ gw'.closed = gw.closed
      BY <2>1, <2>2, <2>3, OpenBacked
    <2> QED BY <2>2, <2>4 DEF Kept, Quiet, Still
  <1>3. CASE ConnectTimer
    <2> DEFINE g == [gw EXCEPT !.dial = 0]
    <2>1. Sound(g)
      BY <1>1, Zeroes DEF Sound, OneSocket, GatewayObject
    <2>2. g.pending = gw.pending /\ g.closed = gw.closed /\ g.current = gw.current
      BY <1>1 DEF Sound, GatewayObject
    <2> HIDE DEF g
    <2>3. gw' \in {g, TransportClose(g)} /\ gw.dial # 0
      BY <1>3 DEF ConnectTimer, g
    <2>4. /\ gw'.pending = gw.pending /\ gw'.closed = gw.closed
          /\ gw'.current = gw.current
      BY <2>1, <2>2, <2>3, TransportCloseSame
    <2> QED BY <2>3, <2>4, SameKept DEF Quiet, Still
  <1>4. CASE FirstBeat
    <2> DEFINE g == SendHeartbeat(gw)
    <2>1. Sound(g)
      BY <1>1, SendHeartbeatSound
    <2>2. g.pending = gw.pending /\ g.closed = gw.closed /\ g.current = gw.current
      BY <1>1, SendHeartbeatSame
    <2> HIDE DEF g
    <2>3. gw' = [g EXCEPT !.beat = gw.first, !.first = 0] /\ gw.first # 0
      BY <1>4 DEF FirstBeat, g
    <2>4. /\ gw'.pending = gw.pending /\ gw'.closed = gw.closed
          /\ gw'.current = gw.current
      BY <2>1, <2>2, <2>3 DEF Sound, GatewayObject
    <2> QED BY <2>3, <2>4, SameKept DEF Quiet, Still
  <1>5. CASE ScheduledBeat
    <2> DEFINE g == ClearBeatTimers(gw)
    <2>1. Sound(g)
      BY <1>1, ClearBeatTimersSound
    <2>2. g.pending = gw.pending /\ g.closed = gw.closed /\ g.current = gw.current
      BY <1>1 DEF ClearBeatTimers, Sound, GatewayObject
    <2> HIDE DEF g
    <2>3. gw' \in {TransportClose(g), SendHeartbeat(gw)} /\ gw.beat # 0
      BY <1>5 DEF ScheduledBeat, g
    <2>4. /\ gw'.pending = gw.pending /\ gw'.closed = gw.closed
          /\ gw'.current = gw.current
      BY <1>1, <2>1, <2>2, <2>3, TransportCloseSame, SendHeartbeatSame
    <2> QED BY <2>3, <2>4, SameKept DEF Quiet, Still
  <1>6. CASE AckTimeout
    <2> DEFINE g == [gw EXCEPT !.ackBy = 0]
    <2>1. Sound(g)
      BY <1>1, Zeroes DEF Sound, OneSocket, GatewayObject
    <2>2. g.pending = gw.pending /\ g.closed = gw.closed /\ g.current = gw.current
      BY <1>1 DEF Sound, GatewayObject
    <2> HIDE DEF g
    <2>3. gw' = TransportClose(g) /\ gw.ackBy # 0
      BY <1>6 DEF AckTimeout, g
    <2>4. /\ gw'.pending = gw.pending /\ gw'.closed = gw.closed
          /\ gw'.current = gw.current
      BY <2>1, <2>2, <2>3, TransportCloseSame
    <2> QED BY <2>3, <2>4, SameKept DEF Quiet, Still
  <1>7. CASE ZombieTimeout
    BY <1>1, <1>7, TransportCloseSame, SameKept DEF ZombieTimeout
  <1> QED BY <1>2, <1>3, <1>4, <1>5, <1>6, <1>7 DEF Timer

LEMMA SocketOpensKept ==
    ASSUME TypeInv, Backed(gw), NEW s \in Sockets, SocketOpens(s) PROVE Kept(gw, gw')
  <1> DEFINE g == [gw EXCEPT !.sock[s] = "open"]
             up == [g EXCEPT !.dial = 0, !.watch = TRUE]
  <1>1. Sound(gw) /\ s # 0
    BY SocketsAreTokens DEF TypeInv, TypeOK, Sound
  <1>2. /\ g.pending = gw.pending /\ g.closed = gw.closed /\ g.current = gw.current
        /\ g.state = gw.state /\ (Still(gw) => Still(g))
    BY <1>1 DEF Still, Sound, GatewayObject
  <1>3. Settle(up, "fulfilled").pending = gw.pending
        /\ Settle(up, "fulfilled").closed = gw.closed
        /\ Settle(up, "fulfilled").current = gw.current
    BY <1>1 DEF Settle, Sound, GatewayObject
  <1> HIDE DEF g, up
  <1>4. gw' = IF Owns(g, s) THEN Settle(up, "fulfilled") ELSE g
    BY DEF SocketOpens, g, up
  <1>5. CASE Owns(g, s)
    <2>1. Quiet(gw) => ~gw.closed
      BY <1>1, <1>2, <1>5 DEF Quiet, Still, Owns
    <2> QED BY <1>3, <1>4, <1>5, <2>1, SameKept
  <1>6. CASE ~Owns(g, s)
    BY <1>2, <1>4, <1>6 DEF Kept, Backed, Quiet
  <1> QED BY <1>5, <1>6

LEMMA DeliverKept ==
    ASSUME TypeInv, Backed(gw), NEW s \in Sockets, Deliver(s) PROVE Kept(gw, gw')
  <1>1. Sound(gw) /\ inbox[s] # <<>> /\ inbox[s] \in Seq(Frames) /\ s # 0
    BY SocketsAreTokens DEF TypeInv, TypeOK, Sound, Deliver
  <1>2. Head(inbox[s]) \in Frames
    BY <1>1
  <1>3. CASE ~Owns(gw, s)
    BY <1>3 DEF Deliver, Kept
  <1>4. CASE Owns(gw, s)
    <2> DEFINE b == Quiet(gw) /\ OnState \subseteq {"nothing"}
    <2>1. PICK reaction \in OnState : gw' = Apply(gw, Head(inbox[s]), reaction)
      BY <1>4 DEF Deliver
    <2>2. Unarmed(gw, b)
      BY <1>1, <1>4 DEF Unarmed, Backed, Quiet, Still, Owns
    <2>3. b => reaction # "close"
      OBVIOUS
    <2>4. Unarmed(gw', b)
      BY <1>1, <1>2, <2>1, <2>2, <2>3, ApplyUnarmed
    <2> QED BY <2>4 DEF Unarmed, Kept, Backed, Quiet
  <1> QED BY <1>3, <1>4

LEMMA SocketClosesKept ==
    ASSUME ~RedialsUnarmed, TypeInv, Backed(gw), NEW s \in Sockets, SocketCloses(s)
    PROVE  Kept(gw, gw')
  <1>1. Sound(gw)
    BY DEF TypeInv, TypeOK, Sound
  <1>2. CASE Owns(gw, s)
    <2>1. PICK kind \in CloseKinds, reaction \in OnClose, ok \in {TRUE, ~DialMayFail} :
              /\ reaction = "connect" => Arms(gw, kind)
              /\ gw' = HandleClose(gw, s, kind, reaction, ok)
      BY <1>2 DEF SocketCloses
    <2> QED BY <1>1, <1>2, <2>1, HandleCloseBacked DEF Owns, Kept
  <1>3. CASE ~Owns(gw, s)
    <2>1. gw' = [gw EXCEPT !.sock[s] = "closed"]
      BY <1>3 DEF SocketCloses
    <2>2. /\ gw'.pending = gw.pending /\ gw'.closed = gw.closed
          /\ gw'.current = gw.current /\ gw'.state = gw.state
          /\ Still(gw) => Still(gw')
      BY <1>1, <2>1 DEF Still, Sound, GatewayObject
    <2> QED BY <2>2 DEF Kept, Backed, Quiet
  <1> QED BY <1>2, <1>3

LEMMA GateAnswersKept ==
    ASSUME TypeInv, Backed(gw), NEW t \in Sockets, GateAnswers(t) PROVE Kept(gw, gw')
  <1> DEFINE g == [gw EXCEPT !.asking = gw.asking \ {t}]
  <1>1. Sound(gw)
    BY DEF TypeInv, TypeOK, Sound
  <1>2. gw.asking \ {t} \in TokenSets
    BY <1>1 DEF Sound, GatewayObject, TokenSets
  <1>3. Sound(g)
    BY <1>1, <1>2 DEF Sound, OneSocket, GatewayObject
  <1>4. /\ g.pending = gw.pending /\ g.closed = gw.closed /\ g.current = gw.current
        /\ g.state = gw.state /\ (Still(gw) => Still(g))
    BY <1>1 DEF Still, Sound, GatewayObject
  <1> HIDE DEF g
  <1>5. CASE ~SlotIsCurrent(g, t)
    BY <1>4, <1>5 DEF GateAnswers, g, Kept, Backed, Quiet
  <1>6. CASE SlotIsCurrent(g, t)
    <2>1. gw' \in {SendIdentify(g), TransportClose(g)}
      BY <1>6 DEF GateAnswers, g
    <2>2. /\ SendIdentify(g).pending = g.pending
          /\ SendIdentify(g).closed = g.closed
          /\ SendIdentify(g).current = g.current
      BY <1>3 DEF SendIdentify, Write, Sound, GatewayObject
    <2>3. ~gw.closed
      BY <1>4, <1>6 DEF SlotIsCurrent
    <2> QED BY <1>3, <1>4, <2>1, <2>2, <2>3, TransportCloseSame, SameKept
  <1> QED BY <1>5, <1>6

LEMMA StepKept ==
    ASSUME ~RedialsUnarmed
    PROVE  TypeInv /\ Backed(gw) /\ [Next]_vars => Kept(gw, gw')
  <1> SUFFICES ASSUME TypeInv, Backed(gw), [Next]_vars PROVE Kept(gw, gw')
    OBVIOUS
  <1>1. Sound(gw)
    BY DEF TypeInv, TypeOK, Sound
  <1>2. CASE Connect
    <2>1. PICK ok : gw' = ConnectGateway(gw, ok)
      BY <1>2 DEF Connect
    <2>2. Dials(gw) => gw.token < MaxSockets
      BY <1>2 DEF Connect, CanDial
    <2> QED BY <1>1, <2>1, <2>2, ConnectGatewayBacked DEF Kept
  <1>3. CASE Close
    BY <1>1, <1>3, CloseGatewayStill DEF Close, Kept, Backed, Quiet, Still
  <1>4. CASE Timer
    BY <1>4, TimerKept
  <1>5. ASSUME NEW s \in Sockets,
               SocketOpens(s) \/ Deliver(s) \/ SocketCloses(s) \/ GateAnswers(s)
        PROVE  Kept(gw, gw')
    BY <1>5, SocketOpensKept, DeliverKept, SocketClosesKept, GateAnswersKept
  <1>6. ASSUME NEW s \in Sockets, Discord(s) PROVE Kept(gw, gw')
    <2>1. gw' = gw
      BY <1>6 DEF Discord, AnswersIdentify, AnswersResume, SendsEvent, SendsControl,
                  SendsInvalid, SessionExpires
    <2> QED BY <2>1 DEF Kept
  <1>7. CASE UNCHANGED vars
    BY <1>7 DEF vars, Kept
  <1> QED BY <1>2, <1>3, <1>4, <1>5, <1>6, <1>7 DEF Next

LEMMA StartsQuiet == Init => Backed(gw) /\ Quiet(gw)
  BY DEF Init, Backed, Quiet

\* One logical connection, for every number of connections, attempts, frames
\* and listeners: no orphan socket is left by a dial that replaces one or that
\* fails, and none is held while a backoff runs, so a connect() that races a
\* reconnect joins it.  The one assumption: a listener of the close event calls
\* connect() only when a reconnect follows.
THEOREM ConnectionIsOne ==
    ASSUME ~RedialsUnarmed
    PROVE  Spec => []OneConnection
  <1> DEFINE IInv == TypeInv /\ Backed(gw)
  <1>1. Init => IInv
    BY TypeInvInit, StartsQuiet
  <1>2. IInv /\ [Next]_vars => IInv'
    <2>1. IInv /\ [Next]_vars => TypeInv'
      BY TypeInvStep
    <2>2. IInv /\ [Next]_vars => Backed(gw')
      BY StepKept DEF Kept
    <2>3. Backed(gw)' <=> Backed(gw')
      BY DEF Backed
    <2> QED BY <2>1, <2>2, <2>3
  <1>3. IInv => OneConnection
    BY DEF TypeInv, OneSocket, Backed, OneConnection
  <1> QED BY <1>1, <1>2, <1>3, PTL DEF Spec

\* A Gateway that is closed - by the application, by a listener of the close
\* event, by a fatal close code - says so, holds no socket and has no timer
\* armed that could dial or beat, for every value of the bounds.  Assumed: the
\* listeners do not call connect() on a close that no reconnect follows, nor
\* close() in the middle of a frame: with either the theorem is false.
THEOREM ClosedStaysQuiet ==
    ASSUME ~RedialsUnarmed, OnState \subseteq {"nothing"}
    PROVE  Spec => []ClosedIsQuiet
  <1> DEFINE IInv == TypeInv /\ Backed(gw) /\ Quiet(gw)
  <1>1. Init => IInv
    BY TypeInvInit, StartsQuiet
  <1>2. IInv /\ [Next]_vars => IInv'
    <2>1. IInv /\ [Next]_vars => TypeInv'
      BY TypeInvStep
    <2>2. IInv /\ [Next]_vars => Backed(gw') /\ Quiet(gw')
      BY StepKept DEF Kept
    <2>3. (Backed(gw)' <=> Backed(gw')) /\ (Quiet(gw)' <=> Quiet(gw'))
      BY DEF Backed, Quiet, Still
    <2> QED BY <2>1, <2>2, <2>3
  <1>3. IInv => ClosedIsQuiet
    BY DEF Quiet, Still, ClosedIsQuiet
  <1> QED BY <1>1, <1>2, <1>3, PTL DEF Spec

-----------------------------------------------------------------------------
(***************************************************************************)
(* What is said on a socket                                                *)
(***************************************************************************)

\* The frames that carry a sequence number, and those that speak of a session.
Numbered(f) == f.op \in {"ready", "resumed", "event"}
OfSession(f) == Numbered(f) \/ f.op = "invalid"

Has(q, op) == \E i \in 1..Len(q) : q[i].op = op

\* The frames of q can be handed, in their order, to a client that knows the
\* session sid: it is greeted first, told of a session at most once and only
\* when it has none, and numbered frames come while it has one.
Ordered(q, sid) ==
    \A i \in 1..Len(q) :
        /\ q[i].op = "hello" => i = 1
        /\ q[i].op = "ready" => sid = 0 /\ \A j \in 1..(i - 1) : ~OfSession(q[j])
        /\ q[i].op \in {"resumed", "event"} =>
              /\ sid # 0 \/ \E j \in 1..(i - 1) : q[j].op = "ready"
              /\ \A j \in 1..(i - 1) : q[j].op # "invalid"

\* Where the conversation on a socket stands: sid is the session the client
\* knows, w the handshakes it has written, q the frames on their way to it;
\* the socket may be connecting, answered, attached to a session, or waiting
\* for an IDENTIFY slot.
Conversation(sid, connecting, w, q, isAnswered, isAttached, asks) ==
    /\ Ordered(q, sid)
    /\ isAttached => (sid # 0 \/ Has(q, "ready")) /\ ~Has(q, "invalid")
    /\ ~isAnswered => /\ ~isAttached
                      /\ \A i \in 1..Len(q) : ~OfSession(q[i])
                      /\ w # <<>> => (Head(w).kind = "identify" <=> sid = 0)
    /\ isAnswered => w # <<>>
    /\ asks => sid = 0 /\ w = <<>>
    /\ connecting \/ Has(q, "hello") => w = <<>> /\ ~asks
    /\ connecting => q = <<>>

LEMMA TailOf ==
    ASSUME NEW q \in Seq(Frames), q # <<>>
    PROVE  /\ Tail(q) \in Seq(Frames) /\ Head(q) \in Frames
           /\ Len(q) \in Nat /\ Len(q) >= 1 /\ Len(Tail(q)) = Len(q) - 1
           /\ Head(q) = q[1]
           /\ \A i \in 1..Len(Tail(q)) : Tail(q)[i] = q[i + 1] /\ i + 1 \in 1..Len(q)
  OBVIOUS

\* What a client that knows sid knows once the frame f is handed to it.
Learns(sid, f, known) ==
    \/ f.op \notin {"ready", "invalid"} /\ known = sid
    \/ f.op = "ready" /\ known # 0
    \/ f.op = "invalid" /\ known = 0

\* Handing over the first frame leaves the others in order.
LEMMA TailOrdered ==
    ASSUME NEW q \in Seq(Frames), q # <<>>, NEW sid, Ordered(q, sid),
           NEW known, Learns(sid, Head(q), known)
    PROVE  Ordered(Tail(q), known) /\ ~Has(Tail(q), "hello")
  <1> DEFINE t == Tail(q)
  <1>1. /\ Len(q) \in Nat /\ Len(q) >= 1 /\ Len(t) = Len(q) - 1 /\ Head(q) = q[1]
        /\ \A i \in 1..Len(t) : t[i] = q[i + 1] /\ i + 1 \in 1..Len(q)
    BY TailOf
  <1> HIDE DEF t
  <1>2. ASSUME NEW i \in 1..Len(t)
        PROVE  /\ t[i].op # "hello"
               /\ t[i].op = "ready" =>
                     known = 0 /\ \A j \in 1..(i - 1) : ~OfSession(t[j])
               /\ t[i].op \in {"resumed", "event"} =>
                     /\ known # 0 \/ \E j \in 1..(i - 1) : t[j].op = "ready"
                     /\ \A j \in 1..(i - 1) : t[j].op # "invalid"
    <2>1. t[i] = q[i + 1] /\ i + 1 \in 1..Len(q) /\ i \in Nat /\ i >= 1 /\ i + 1 # 1
      BY <1>1
    <2>2. \A j \in 1..(i - 1) : t[j] = q[j + 1] /\ j + 1 \in 1..((i + 1) - 1)
      BY <1>1, <2>1
    <2>3. 1 \in 1..((i + 1) - 1)
      BY <2>1
    <2>4. t[i].op # "hello"
      BY <2>1 DEF Ordered
    <2>5. CASE t[i].op = "ready"
      <3>1. sid = 0 /\ \A j \in 1..((i + 1) - 1) : ~OfSession(q[j])
        BY <2>1, <2>5 DEF Ordered
      <3>2. ~OfSession(Head(q))
        BY <1>1, <2>3, <3>1
      <3>3. known = sid
        BY <3>2 DEF OfSession, Numbered, Learns
      <3> QED BY <2>2, <2>4, <2>5, <3>1, <3>3
    <2>6. CASE t[i].op \in {"resumed", "event"}
      <3>1. /\ sid # 0 \/ \E j \in 1..((i + 1) - 1) : q[j].op = "ready"
            /\ \A j \in 1..((i + 1) - 1) : q[j].op # "invalid"
        BY <2>1, <2>6 DEF Ordered
      <3>2. \A j \in 1..(i - 1) : t[j].op # "invalid"
        BY <2>2, <3>1
      <3>3. Head(q).op # "invalid"
        BY <1>1, <2>3, <3>1
      <3>4. CASE known # 0
        BY <2>4, <2>6, <3>2, <3>4
      <3>5. CASE known = 0
        <4>1. sid = 0 /\ Head(q).op # "ready"
          BY <3>3, <3>5 DEF Learns
        <4>2. PICK j \in 1..((i + 1) - 1) : q[j].op = "ready"
          BY <3>1, <4>1
        <4>3. j # 1
          BY <1>1, <4>1, <4>2
        <4>4. j - 1 \in 1..(i - 1) /\ t[j - 1] = q[(j - 1) + 1] /\ (j - 1) + 1 = j
          BY <2>1, <2>2, <4>3
        <4> QED BY <2>4, <2>6, <3>2, <4>2, <4>4
      <3> QED BY <3>4, <3>5
    <2> QED BY <2>4, <2>5, <2>6
  <1> QED BY <1>2 DEF Ordered, Has, t

LEMMA TailHas ==
    ASSUME NEW q \in Seq(Frames), q # <<>>, NEW op
    PROVE  Has(q, op) <=> Head(q).op = op \/ Has(Tail(q), op)
  <1> DEFINE t == Tail(q)
  <1>1. /\ Len(q) \in Nat /\ Len(q) >= 1 /\ Len(t) = Len(q) - 1 /\ Head(q) = q[1]
        /\ \A i \in 1..Len(t) : t[i] = q[i + 1] /\ i + 1 \in 1..Len(q)
    BY TailOf
  <1> HIDE DEF t
  <1>2. ASSUME Has(q, op), Head(q).op # op PROVE Has(t, op)
    <2>1. PICK i \in 1..Len(q) : q[i].op = op
      BY <1>2 DEF Has
    <2>2. i # 1
      BY <1>1, <1>2, <2>1
    <2>3. i - 1 \in 1..Len(t) /\ t[i - 1] = q[(i - 1) + 1] /\ (i - 1) + 1 = i
      BY <1>1, <2>1, <2>2
    <2> QED BY <2>1, <2>3 DEF Has
  <1>3. ASSUME Head(q).op = op PROVE Has(q, op)
    <2>1. 1 \in 1..Len(q)
      BY <1>1
    <2> QED BY <1>1, <1>3, <2>1 DEF Has
  <1>4. ASSUME Has(t, op) PROVE Has(q, op)
    BY <1>1, <1>4 DEF Has
  <1> QED BY <1>2, <1>3, <1>4 DEF t

\* The client is handed the first frame.
LEMMA Handed ==
    ASSUME NEW q \in Seq(Frames), q # <<>>, NEW sid, NEW known,
           NEW connecting, NEW w, NEW isAnswered, NEW isAttached, NEW asks,
           Conversation(sid, connecting, w, q, isAnswered, isAttached, asks),
           Learns(sid, Head(q), known)
    PROVE  Conversation(known, connecting, w, Tail(q), isAnswered, isAttached, asks)
  <1> DEFINE t == Tail(q)
  <1>1. Ordered(t, known) /\ ~Has(t, "hello")
    BY TailOrdered DEF Conversation
  <1>2. /\ Has(q, "ready") <=> Head(q).op = "ready" \/ Has(t, "ready")
        /\ Has(q, "invalid") <=> Head(q).op = "invalid" \/ Has(t, "invalid")
    BY TailHas
  <1>3. /\ Len(q) \in Nat /\ Len(q) >= 1 /\ Len(t) = Len(q) - 1 /\ Head(q) = q[1]
        /\ \A i \in 1..Len(t) : t[i] = q[i + 1] /\ i + 1 \in 1..Len(q)
    BY TailOf
  <1> HIDE DEF t
  <1>4. ~connecting
    BY DEF Conversation
  <1>5. isAttached => (known # 0 \/ Has(t, "ready")) /\ ~Has(t, "invalid")
    BY <1>2 DEF Conversation, Learns
  <1>6. ASSUME ~isAnswered
        PROVE  known = sid /\ \A i \in 1..Len(t) : ~OfSession(t[i])
    <2>1. \A i \in 1..Len(q) : ~OfSession(q[i])
      BY <1>6 DEF Conversation
    <2>2. 1 \in 1..Len(q)
      BY <1>3
    <2>3. ~OfSession(Head(q))
      BY <1>3, <2>1, <2>2
    <2>4. known = sid
      BY <2>3 DEF OfSession, Numbered, Learns
    <2> QED BY <1>3, <2>1, <2>4
  <1>7. ~isAnswered => /\ ~isAttached
                       /\ \A i \in 1..Len(t) : ~OfSession(t[i])
                       /\ w # <<>> => (Head(w).kind = "identify" <=> known = 0)
    BY <1>6 DEF Conversation
  <1>8. asks => known = 0 /\ w = <<>>
    BY <1>6 DEF Conversation
  <1> QED BY <1>1, <1>4, <1>5, <1>7, <1>8 DEF Conversation, t

LEMMA AppendOf ==
    ASSUME NEW q \in Seq(Frames), NEW f \in Frames
    PROVE  LET a == Append(q, f)
           IN  /\ a \in Seq(Frames) /\ Len(q) \in Nat /\ Len(a) = Len(q) + 1
               /\ a[Len(q) + 1] = f /\ \A i \in 1..Len(q) : a[i] = q[i]
  OBVIOUS

LEMMA AppendHas ==
    ASSUME NEW q \in Seq(Frames), NEW f \in Frames, NEW op
    PROVE  Has(Append(q, f), op) <=> f.op = op \/ Has(q, op)
  <1> DEFINE a == Append(q, f)
  <1>1. /\ Len(q) \in Nat /\ Len(a) = Len(q) + 1
        /\ a[Len(q) + 1] = f /\ \A i \in 1..Len(q) : a[i] = q[i]
    BY AppendOf
  <1> HIDE DEF a
  <1>2. \A i \in 1..Len(a) : i \in 1..Len(q) \/ i = Len(q) + 1
    BY <1>1
  <1>3. Len(q) + 1 \in 1..Len(a) /\ \A i \in 1..Len(q) : i \in 1..Len(a)
    BY <1>1
  <1>4. Has(a, op) => f.op = op \/ Has(q, op)
    BY <1>1, <1>2 DEF Has
  <1>5. f.op = op => Has(a, op)
    BY <1>1, <1>3 DEF Has
  <1>6. Has(q, op) => Has(a, op)
    BY <1>1, <1>3 DEF Has
  <1> QED BY <1>4, <1>5, <1>6 DEF a

\* A frame that fits the conversation so far keeps it in order.
Fits(q, sid, f) ==
    /\ f.op # "hello"
    /\ f.op = "ready" => sid = 0 /\ \A i \in 1..Len(q) : ~OfSession(q[i])
    /\ f.op \in {"resumed", "event"} =>
          (sid # 0 \/ Has(q, "ready")) /\ ~Has(q, "invalid")

LEMMA AppendOrdered ==
    ASSUME NEW q \in Seq(Frames), NEW f \in Frames, NEW sid, Ordered(q, sid),
           Fits(q, sid, f)
    PROVE  Ordered(Append(q, f), sid)
  <1> DEFINE a == Append(q, f)
             n == Len(q) + 1
  <1>1. /\ Len(q) \in Nat /\ Len(a) = n
        /\ a[n] = f /\ \A i \in 1..Len(q) : a[i] = q[i]
    BY AppendOf
  <1>2. n \in Nat /\ n - 1 = Len(q)
    BY <1>1
  <1> HIDE DEF a
  <1> SUFFICES ASSUME NEW i \in 1..Len(a)
               PROVE  /\ a[i].op = "hello" => i = 1
                      /\ a[i].op = "ready" =>
                            sid = 0 /\ \A j \in 1..(i - 1) : ~OfSession(a[j])
                      /\ a[i].op \in {"resumed", "event"} =>
                            /\ sid # 0 \/ \E j \in 1..(i - 1) : a[j].op = "ready"
                            /\ \A j \in 1..(i - 1) : a[j].op # "invalid"
    BY DEF Ordered, a
  <1>3. CASE i = n
    <2>1. \A j \in 1..(i - 1) : a[j] = q[j]
      BY <1>1, <1>2, <1>3
    <2>2. a[i] = f /\ i - 1 = Len(q)
      BY <1>1, <1>2, <1>3
    <2> QED BY <2>1, <2>2 DEF Fits, Has
  <1>4. CASE i # n
    <2>1. i \in 1..Len(q)
      BY <1>1, <1>2, <1>4
    <2>2. a[i] = q[i] /\ \A j \in 1..(i - 1) : j \in 1..Len(q) /\ a[j] = q[j]
      BY <1>1, <2>1
    <2>3. /\ q[i].op = "hello" => i = 1
          /\ q[i].op = "ready" =>
                sid = 0 /\ \A j \in 1..(i - 1) : ~OfSession(q[j])
          /\ q[i].op \in {"resumed", "event"} =>
                /\ sid # 0 \/ \E j \in 1..(i - 1) : q[j].op = "ready"
                /\ \A j \in 1..(i - 1) : q[j].op # "invalid"
      BY <2>1 DEF Ordered
    <2> QED BY <2>2, <2>3
  <1> QED BY <1>3, <1>4

\* Discord says f: it may thereby answer the handshake, attach or detach.
LEMMA Said ==
    ASSUME NEW q \in Seq(Frames), NEW f \in Frames, NEW sid,
           NEW connecting, NEW w, NEW isAnswered, NEW isAttached, NEW asks,
           Conversation(sid, connecting, w, q, isAnswered, isAttached, asks),
           ~connecting, Fits(q, sid, f),
           NEW nowAnswered, NEW nowAttached,
           isAnswered => nowAnswered, nowAnswered => w # <<>>,
           nowAttached => /\ sid # 0 \/ Has(q, "ready") \/ f.op = "ready"
                          /\ ~Has(q, "invalid") /\ f.op # "invalid",
           ~nowAnswered => ~nowAttached /\ ~OfSession(f)
    PROVE  Conversation(sid, connecting, w, Append(q, f), nowAnswered, nowAttached, asks)
  <1> DEFINE a == Append(q, f)
  <1>1. Ordered(a, sid)
    BY AppendOrdered DEF Conversation
  <1>2. /\ Has(a, "ready") <=> f.op = "ready" \/ Has(q, "ready")
        /\ Has(a, "invalid") <=> f.op = "invalid" \/ Has(q, "invalid")
        /\ Has(a, "hello") <=> f.op = "hello" \/ Has(q, "hello")
    BY AppendHas
  <1>3. /\ Len(q) \in Nat /\ Len(a) = Len(q) + 1
        /\ a[Len(q) + 1] = f /\ \A i \in 1..Len(q) : a[i] = q[i]
    BY AppendOf
  <1> HIDE DEF a
  <1>4. ASSUME ~nowAnswered PROVE \A i \in 1..Len(a) : ~OfSession(a[i])
    <2>1. \A i \in 1..Len(q) : ~OfSession(q[i])
      BY <1>4 DEF Conversation
    <2>2. \A i \in 1..Len(a) : i \in 1..Len(q) \/ i = Len(q) + 1
      BY <1>3
    <2> QED BY <1>3, <1>4, <2>1, <2>2
  <1>5. /\ nowAttached => (sid # 0 \/ Has(a, "ready")) /\ ~Has(a, "invalid")
        /\ Has(a, "hello") => Has(q, "hello")
    BY <1>2 DEF Fits
  <1>6. ~nowAnswered => /\ ~nowAttached
                        /\ \A i \in 1..Len(a) : ~OfSession(a[i])
                        /\ w # <<>> => (Head(w).kind = "identify" <=> sid = 0)
    BY <1>4 DEF Conversation
  <1> QED BY <1>1, <1>5, <1>6 DEF Conversation, a

\* The client writes its handshake, on an open socket that has greeted it.
LEMMA Written ==
    ASSUME NEW q, NEW sid, NEW w, NEW isAnswered, NEW isAttached, NEW asks,
           Conversation(sid, FALSE, w, q, isAnswered, isAttached, asks),
           w = <<>>, ~asks, ~Has(q, "hello"),
           NEW handshake, handshake.kind = "identify" <=> sid = 0
    PROVE  Conversation(sid, FALSE, Append(w, handshake), q, isAnswered, isAttached, asks)
  <1>1. Append(w, handshake) = <<handshake>>
    OBVIOUS
  <1>2. <<handshake>> # <<>> /\ Head(<<handshake>>) = handshake
    OBVIOUS
  <1> QED BY <1>1, <1>2 DEF Conversation

-----------------------------------------------------------------------------
(***************************************************************************)
(* What is said on the sockets of a Gateway                                *)
(***************************************************************************)

\* A socket not dialled yet has seen nothing.
Untouched(g, box, ans, att) ==
    \A s \in Sockets : s > g.token =>
        /\ g.wire[s] = <<>> /\ box[s] = <<>>
        /\ s \notin ans /\ att[s] = 0 /\ s \notin g.asking

Spoken(g, c, box, ans, att) ==
    Conversation(g.sid, g.sock[c] = "connecting", g.wire[c], box[c],
                 c \in ans, att[c] # 0, c \in g.asking)

Talking(g, box, ans, att) ==
    /\ g.sid = 0 <=> g.seq = 0
    /\ g.current # 0 => g.current = g.token /\ Spoken(g, g.current, box, ans, att)
    /\ Untouched(g, box, ans, att)
    /\ \A s \in Sockets : Len(g.wire[s]) <= 1

\* What most methods leave alone: the session, and what was said.  They keep
\* the socket, drop it, or dial a fresh one.
Moves(g, h) ==
    /\ h.sid = g.sid /\ h.seq = g.seq
    /\ h.wire = g.wire /\ h.asking = g.asking
    /\ h.token >= g.token
    /\ \/ h.current = 0
       \/ /\ h.current = g.current /\ h.token = g.token
          /\ h.sock[h.current] = "connecting" => g.sock[h.current] = "connecting"
       \/ h.current = h.token /\ h.token > g.token

LEMMA MovesTwice ==
    ASSUME NEW g, Sound(g), NEW h, Sound(h), NEW k, Sound(k), Moves(g, h), Moves(h, k)
    PROVE  Moves(g, k)
  <1>1. g.token \in Nat /\ h.token \in Nat /\ k.token \in Nat
    BY BoundAssumption DEF Sound, GatewayObject, Tokens
  <1> QED BY <1>1 DEF Moves

LEMMA MovesTalking ==
    ASSUME NEW g, Sound(g), NEW h, Sound(h), Moves(g, h),
           NEW box, NEW ans, NEW att, Talking(g, box, ans, att)
    PROVE  Talking(h, box, ans, att)
  <1>1. /\ g.token \in Nat /\ h.token \in Nat
        /\ h.token # 0 => h.token \in Sockets
        /\ \A s \in Sockets : s \in Nat
    BY BoundAssumption, SocketsAreTokens DEF Sound, GatewayObject, Tokens, Sockets
  <1>2. Untouched(h, box, ans, att)
    BY <1>1 DEF Moves, Talking, Untouched
  <1>3. ASSUME h.current # 0
        PROVE  h.current = h.token /\ Spoken(h, h.current, box, ans, att)
    <2>1. CASE h.current = g.current /\ h.token = g.token
      <3>1. Spoken(g, h.current, box, ans, att) /\ h.current = h.token
        BY <1>3, <2>1 DEF Talking
      <3>2. CASE h.sock[h.current] = "connecting" <=> g.sock[h.current] = "connecting"
        BY <3>1, <3>2 DEF Moves, Spoken
      <3>3. CASE h.sock[h.current] # "connecting" /\ g.sock[h.current] = "connecting"
        BY <3>1, <3>3 DEF Moves, Spoken, Conversation
      <3>4. h.sock[h.current] = "connecting" => g.sock[h.current] = "connecting"
        BY <1>1, <1>3, <2>1 DEF Moves
      <3> QED BY <3>1, <3>2, <3>3, <3>4
    <2>2. CASE h.current = h.token /\ h.token > g.token
      <3> DEFINE c == h.current
      <3>1. c \in Sockets /\ c > g.token
        BY <1>1, <1>3, <2>2
      <3>2. /\ h.wire[c] = <<>> /\ box[c] = <<>>
            /\ c \notin ans /\ att[c] = 0 /\ c \notin h.asking
        BY <3>1 DEF Talking, Untouched, Moves
      <3> HIDE DEF c
      <3>3. Len(box[c]) = 0 /\ 1..0 = {}
        BY <3>2
      <3>4. Spoken(h, c, box, ans, att)
        BY <3>2, <3>3 DEF Spoken, Conversation, Ordered, Has
      <3> QED BY <2>2, <3>4 DEF c
    <2> QED BY <1>3, <2>1, <2>2 DEF Moves
  <1> QED BY <1>2, <1>3 DEF Talking, Moves

LEMMA MethodsMove ==
    ASSUME NEW g, Sound(g)
    PROVE  /\ Moves(g, Discard(g))
           /\ Moves(g, TransportClose(g))
           /\ Moves(g, ClearTimers(g))
           /\ Moves(g, ClearBeatTimers(g))
           /\ Moves(g, StartHeartbeat(g))
           /\ Moves(g, SendHeartbeat(g))
           /\ Moves(g, Acknowledge(g))
           /\ \A next : Moves(g, SetState(g, next))
           /\ \A outcome : Moves(g, Settle(g, outcome))
           /\ Moves(g, ScheduleReconnect(g))
           /\ Moves(g, HandleResumed(g))
  <1>0. g.token \in Nat
    BY BoundAssumption DEF Sound, GatewayObject, Tokens
  <1>1. Moves(g, Discard(g))
    BY <1>0 DEF Discard, Moves, Sound, GatewayObject
  <1>2. Moves(g, TransportClose(g))
    <2>1. CASE ~Live(g)
      BY <1>0, <2>1 DEF TransportClose, Moves
    <2>2. CASE Live(g)
      <3>1. g.current \in Sockets
        BY <2>2, SocketsAreTokens DEF Sound, GatewayObject, Live
      <3>2. [g.sock EXCEPT ![g.current] = "closing"][g.current] = "closing"
        BY <3>1 DEF Sound, GatewayObject, SocketTable
      <3> QED BY <1>0, <2>2, <3>1, <3>2 DEF TransportClose, Moves, Sound, GatewayObject
    <2> QED BY <2>1, <2>2
  <1>3. Moves(g, ClearTimers(g)) /\ Moves(g, ClearBeatTimers(g))
    BY <1>0 DEF ClearTimers, StopHeartbeat, ClearBeatTimers, Moves, Sound, GatewayObject
  <1>4. Moves(g, StartHeartbeat(g)) /\ Moves(g, SendHeartbeat(g)) /\ Moves(g, Acknowledge(g))
    BY <1>0 DEF StartHeartbeat, ClearBeatTimers, SendHeartbeat, Acknowledge, Moves,
                Sound, GatewayObject
  <1>5. /\ \A next : Moves(g, SetState(g, next))
        /\ \A outcome : Moves(g, Settle(g, outcome))
        /\ Moves(g, HandleResumed(g))
    BY <1>0 DEF SetState, Settle, HandleResumed, Moves, Sound, GatewayObject
  <1>6. Moves(g, ScheduleReconnect(g))
    BY <1>0 DEF ScheduleReconnect, SetState, Settle, Moves, Sound, GatewayObject
  <1> QED BY <1>1, <1>2, <1>3, <1>4, <1>5, <1>6

LEMMA CloseGatewayMoves ==
    ASSUME NEW g, Sound(g) PROVE Moves(g, CloseGateway(g))
  <1> DEFINE g1 == [g EXCEPT !.closed = TRUE]
             g2 == ClearTimers(g1)
             g3 == Settle(g2, "rejected")
             g4 == Discard(g3)
             g5 == SetState(g4, "Closed")
  <1>1. Sound(g1) /\ Moves(g, g1)
    <2>1. g.token \in Nat
      BY BoundAssumption DEF Sound, GatewayObject, Tokens
    <2>2. Sound(g1)
      BY ClosingSound
    <2>3. Moves(g, g1)
      BY <2>1 DEF Moves, Sound, GatewayObject
    <2> QED BY <2>2, <2>3
  <1> HIDE DEF g1
  <1>2. Sound(g2) /\ Moves(g1, g2)
    BY <1>1, ClearTimersSound, MethodsMove
  <1> HIDE DEF g2
  <1>3. Sound(g3) /\ Moves(g2, g3)
    BY <1>2, SettleSound, MethodsMove DEF Promises
  <1> HIDE DEF g3
  <1>4. Sound(g4) /\ Moves(g3, g4)
    BY <1>3, DiscardSound, MethodsMove
  <1> HIDE DEF g4
  <1>5. Sound(g5) /\ Moves(g4, g5)
    BY <1>4, SetStateSound, MethodsMove DEF States
  <1>6. CloseGateway(g) = g5
    BY DEF CloseGateway, g1, g2, g3, g4
  <1> HIDE DEF g5
  <1>7. Moves(g, g2)
    BY <1>1, <1>2, MovesTwice
  <1>8. Moves(g, g3)
    BY <1>2, <1>3, <1>7, MovesTwice
  <1>9. Moves(g, g4)
    BY <1>3, <1>4, <1>8, MovesTwice
  <1> QED BY <1>4, <1>5, <1>6, <1>9, MovesTwice

LEMMA AnnounceMoves ==
    ASSUME NEW g, Sound(g), NEW next \in States, NEW reaction
    PROVE  Moves(g, Announce(g, next, reaction))
  <1> DEFINE h == SetState(g, next)
  <1>1. Sound(h) /\ Moves(g, h)
    BY SetStateSound, MethodsMove
  <1> HIDE DEF h
  <1>2. Sound(CloseGateway(h)) /\ Moves(h, CloseGateway(h))
    BY <1>1, CloseGatewaySound, CloseGatewayMoves
  <1>3. Moves(g, CloseGateway(h))
    BY <1>1, <1>2, MovesTwice
  <1> QED BY <1>1, <1>3 DEF Announce, h

\* Dialling: under the next token there is a new socket or none.
LEMMA OpenMoves ==
    ASSUME NEW g, Sound(g), g.token < MaxSockets, NEW ok
    PROVE  Moves(g, Open(g, ok))
  <1> DEFINE fresh == [g EXCEPT !.token = @ + 1]
             d == Discard(fresh)
             h == TransportConnect(fresh, ok)
             r == SetState(h, "Reconnect")
  <1>1. g.token \in Nat /\ g.token + 1 \in Tokens /\ g.token + 1 # 0
    BY BoundAssumption DEF Sound, GatewayObject, Tokens
  <1>2. Sound(fresh) /\ fresh.token = g.token + 1
    BY <1>1 DEF Sound, OneSocket, GatewayObject
  <1>3. /\ fresh.sid = g.sid /\ fresh.seq = g.seq
        /\ fresh.wire = g.wire /\ fresh.asking = g.asking
    BY DEF Sound, GatewayObject
  <1>4. Sound(h)
    BY <1>1, <1>2, TransportConnectSound
  <1> HIDE DEF fresh
  <1>5. Sound(d) /\ d.current = 0 /\ d.token = g.token + 1
    BY <1>2, DiscardSound DEF Discard, Sound, GatewayObject
  <1>6. /\ d.sid = g.sid /\ d.seq = g.seq /\ d.wire = g.wire /\ d.asking = g.asking
    BY <1>2, <1>3 DEF Discard, Sound, GatewayObject
  <1> HIDE DEF d
  <1>7. /\ h.sid = g.sid /\ h.seq = g.seq /\ h.wire = g.wire /\ h.asking = g.asking
        /\ h.token = g.token + 1 /\ h.current \in {0, h.token}
    BY <1>5, <1>6 DEF TransportConnect, d, Sound, GatewayObject
  <1> HIDE DEF h
  <1>8. Moves(g, h)
    BY <1>1, <1>7 DEF Moves
  <1>9. Moves(g, [h EXCEPT !.dial = h.token])
    BY <1>1, <1>4, <1>7 DEF Moves, Sound, GatewayObject
  <1>10. Sound(r) /\ Moves(h, r)
    BY <1>4, SetStateSound, MethodsMove DEF States
  <1> HIDE DEF r
  <1>11. Sound(ScheduleReconnect(r)) /\ Moves(r, ScheduleReconnect(r))
    BY <1>10, ScheduleReconnectSound, MethodsMove
  <1>12. Moves(h, ScheduleReconnect(r))
    BY <1>4, <1>10, <1>11, MovesTwice
  <1>13. Moves(g, ScheduleReconnect(r))
    BY <1>4, <1>8, <1>11, <1>12, MovesTwice
  <1>14. Sound(Settle(h, "rejected")) /\ Moves(h, Settle(h, "rejected"))
    BY <1>4, SettleSound, MethodsMove DEF Promises
  <1>15. Moves(g, Settle(h, "rejected"))
    BY <1>4, <1>8, <1>14, MovesTwice
  <1>16. Moves(g, g)
    BY <1>1 DEF Moves
  <1> QED BY <1>9, <1>13, <1>15, <1>16 DEF Open, h, r, fresh

LEMMA ConnectGatewayMoves ==
    ASSUME NEW g, Sound(g), Dials(g) => g.token < MaxSockets, NEW ok
    PROVE  Moves(g, ConnectGateway(g, ok))
  <1>0. g.token \in Nat
    BY BoundAssumption DEF Sound, GatewayObject, Tokens
  <1>1. CASE ~Idle(g)
    BY <1>0, <1>1 DEF ConnectGateway, Moves
  <1>2. CASE Idle(g) /\ Joins(g)
    BY <1>0, <1>2 DEF ConnectGateway, Moves, Sound, GatewayObject
  <1>3. CASE Dials(g)
    <2> DEFINE h == SetState([g EXCEPT !.closed = FALSE, !.paced = TRUE,
                                       !.promise = "pending"], "Connect")
    <2>1. Sound(h) /\ h.token = g.token
      BY DEF Sound, OneSocket, GatewayObject, Promises, SetState, States
    <2>2. Moves(g, h)
      BY <1>0 DEF SetState, Moves, Sound, GatewayObject
    <2>3. ConnectGateway(g, ok) = Open(h, ok)
      BY <1>3 DEF ConnectGateway, Dials
    <2> HIDE DEF h
    <2>4. h.token < MaxSockets
      BY <1>3, <2>1
    <2>5. Sound(Open(h, ok)) /\ Moves(h, Open(h, ok))
      BY <2>1, <2>4, OpenSound, OpenMoves
    <2> QED BY <2>1, <2>2, <2>3, <2>5, MovesTwice
  <1> QED BY <1>1, <1>2, <1>3 DEF Dials

LEMMA ReactMoves ==
    ASSUME NEW g, Sound(g), NEW reaction, NEW ok,
           reaction = "connect" => g.token < MaxSockets
    PROVE  Moves(g, React(g, reaction, ok))
  <1>1. Moves(g, g)
    <2>1. g.token \in Nat
      BY BoundAssumption DEF Sound, GatewayObject, Tokens
    <2> QED BY <2>1 DEF Moves
  <1> QED BY <1>1, ConnectGatewayMoves, CloseGatewayMoves DEF React

\* A closed socket is dropped, and with it the session or not; the rest only
\* moves from there.
LEMMA HandleCloseMoves ==
    ASSUME NEW g, Sound(g), NEW s \in Sockets, s = g.current,
           NEW kind, NEW reaction, NEW ok,
           reaction = "connect" => g.token < MaxSockets
    PROVE  \E dropped :
              /\ Sound(dropped) /\ dropped.current = 0 /\ dropped.token = g.token
              /\ dropped.wire = g.wire /\ dropped.asking = g.asking
              /\ \/ dropped.sid = g.sid /\ dropped.seq = g.seq
                 \/ dropped.sid = 0 /\ dropped.seq = 0
              /\ Moves(dropped, HandleClose(g, s, kind, reaction, ok))
  <1> DEFINE g1 == [g EXCEPT !.current = 0, !.sock[s] = "closed"]
             gone == ClearTimers(g1)
             action == ClassifyClose(kind, CanResume(gone))
             g2 == [gone EXCEPT !.arming = Arms(gone, kind)]
             g3 == React(g2, reaction, ok)
             told == [g3 EXCEPT !.arming = FALSE]
             over == told.closed \/ action = "stop"
             last == IF action = "identify" THEN Invalidate(told) ELSE told
             end == HandleClose(g, s, kind, reaction, ok)
  <1>1. Sound(g1) /\ g1.current = 0 /\ g1.token = g.token
    BY GoneSound
  <1>2. /\ g1.sid = g.sid /\ g1.seq = g.seq
        /\ g1.wire = g.wire /\ g1.asking = g.asking
    BY DEF Sound, GatewayObject
  <1> HIDE DEF g1
  <1>3. Sound(gone) /\ gone.current = 0
    BY <1>1, ClearTimersSound, ClearTimersStops
  <1>4. /\ gone.sid = g.sid /\ gone.seq = g.seq /\ gone.token = g.token
        /\ gone.wire = g.wire /\ gone.asking = g.asking
    BY <1>1, <1>2 DEF ClearTimers, StopHeartbeat, ClearBeatTimers, Sound, GatewayObject
  <1> HIDE DEF gone
  <1>5. g.token \in Nat
    BY BoundAssumption DEF Sound, GatewayObject, Tokens
  <1>6. Sound(g2) /\ Moves(gone, g2) /\ g2.token = g.token
    <2>1. Arms(gone, kind) \in BOOLEAN
      BY DEF Arms
    <2>2. Sound(g2)
      BY <2>1, <1>3 DEF Sound, OneSocket, GatewayObject
    <2>3. Moves(gone, g2) /\ g2.token = g.token
      BY <1>3, <1>4, <1>5 DEF Moves, Sound, GatewayObject
    <2> QED BY <2>2, <2>3
  <1> HIDE DEF g2
  <1>7. Sound(g3) /\ Moves(g2, g3)
    BY <1>6, ReactSound, ReactMoves
  <1> HIDE DEF g3
  <1>8. Sound(told) /\ Moves(g3, told) /\ over \in BOOLEAN
    <2>1. g3.token \in Nat
      BY <1>7, BoundAssumption DEF Sound, GatewayObject, Tokens
    <2>2. Sound(told)
      BY <1>7 DEF Sound, OneSocket, GatewayObject
    <2>3. Moves(g3, told)
      BY <2>1, <1>7 DEF Moves, Sound, GatewayObject
    <2>4. over \in BOOLEAN
      BY <2>2 DEF Sound, GatewayObject
    <2> QED BY <2>2, <2>3, <2>4
  <1>9. Moves(gone, told)
    <2>1. Moves(gone, g3)
      BY <1>3, <1>6, <1>7, MovesTwice
    <2> QED BY <2>1, <1>3, <1>7, <1>8, MovesTwice
  <1>10. end = IF over \/ ~g.auto
               THEN Settle(SetState([told EXCEPT !.closed = over],
                                    IF over THEN "Closed" ELSE "Connect"), "rejected")
               ELSE ScheduleReconnect(SetState(last, "Reconnect"))
    BY DEF HandleClose, g1, gone, g2, g3
  <1> HIDE DEF told, over, end
  <1>11. CASE over \/ ~g.auto
    <2> DEFINE t == [told EXCEPT !.closed = over]
               next == IF over THEN "Closed" ELSE "Connect"
               e == SetState(t, next)
    <2>1. Sound(t) /\ Moves(told, t)
      <3>1. told.token \in Nat
        BY <1>8, BoundAssumption DEF Sound, GatewayObject, Tokens
      <3>2. Sound(t)
        BY <1>8, ClosingSound
      <3>3. Moves(told, t)
        BY <3>1, <1>8 DEF Moves, Sound, GatewayObject
      <3> QED BY <3>2, <3>3
    <2>2. next \in States
      BY DEF States
    <2>3. end = Settle(e, "rejected")
      BY <1>10, <1>11
    <2> HIDE DEF t, next
    <2>4. Sound(e) /\ Moves(t, e)
      BY <2>1, <2>2, SetStateSound, MethodsMove
    <2> HIDE DEF e
    <2>5. Sound(end) /\ Moves(e, end)
      BY <2>3, <2>4, SettleSound, MethodsMove DEF Promises
    <2>6. Moves(gone, t)
      BY <1>3, <1>8, <1>9, <2>1, MovesTwice
    <2>7. Moves(gone, e)
      BY <1>3, <2>1, <2>4, <2>6, MovesTwice
    <2>8. Moves(gone, end)
      BY <1>3, <2>4, <2>5, <2>7, MovesTwice
    <2> QED BY <1>3, <1>4, <2>8 DEF end
  <1>12. CASE ~(over \/ ~g.auto)
    <2> DEFINE e == SetState(last, "Reconnect")
               dropped == IF action = "identify" THEN Invalidate(gone) ELSE gone
    <2>1. Sound(last) /\ Sound(dropped)
      BY <1>3, <1>8, InvalidateSound
    <2>2. Moves(dropped, last)
      <3>1. Moves(Invalidate(gone), Invalidate(told))
        BY <1>3, <1>8, <1>9 DEF Invalidate, Moves, Sound, GatewayObject
      <3>2. CASE action = "identify"
        BY <3>1, <3>2
      <3>3. CASE action # "identify"
        BY <1>9, <3>3
      <3> QED BY <3>2, <3>3
    <2>3. /\ dropped.current = 0 /\ dropped.token = g.token
          /\ dropped.wire = g.wire /\ dropped.asking = g.asking
          /\ \/ dropped.sid = g.sid /\ dropped.seq = g.seq
             \/ dropped.sid = 0 /\ dropped.seq = 0
      BY <1>3, <1>4 DEF Invalidate, Sound, GatewayObject
    <2>4. end = ScheduleReconnect(e)
      BY <1>10, <1>12
    <2> HIDE DEF last, dropped
    <2>5. Sound(e) /\ Moves(last, e)
      BY <2>1, SetStateSound, MethodsMove DEF States
    <2> HIDE DEF e
    <2>6. Sound(end) /\ Moves(e, end)
      BY <2>4, <2>5, ScheduleReconnectSound, MethodsMove
    <2>7. Moves(dropped, e)
      BY <2>1, <2>2, <2>5, MovesTwice
    <2>8. Moves(dropped, end)
      BY <2>1, <2>5, <2>6, <2>7, MovesTwice
    <2> QED BY <2>1, <2>3, <2>8 DEF end
  <1> QED BY <1>11, <1>12

\* The first frame on socket s is handed over.
HandedBox(box, s) == [box EXCEPT ![s] = Tail(@)]

LEMMA HandedTalking ==
    ASSUME NEW g, Sound(g), NEW box \in [Sockets -> Seq(Frames)], NEW ans, NEW att,
           Talking(g, box, ans, att), g.current # 0, box[g.current] # <<>>,
           NEW k, k.token = g.token, k.current = g.current, k.wire = g.wire,
           k.asking = g.asking, k.sock = g.sock,
           Learns(g.sid, Head(box[g.current]), k.sid), k.sid = 0 <=> k.seq = 0
    PROVE  /\ Talking(k, HandedBox(box, g.current), ans, att)
           /\ ~Has(HandedBox(box, g.current)[g.current], "hello")
           /\ g.sock[g.current] # "connecting"
  <1> DEFINE c == g.current
             after == HandedBox(box, c)
  <1>1. c \in Sockets /\ box[c] \in Seq(Frames) /\ c = g.token
    BY SocketsAreTokens DEF Sound, GatewayObject, Talking
  <1>2. after[c] = Tail(box[c]) /\ \A s \in Sockets : s # c => after[s] = box[s]
    BY <1>1 DEF HandedBox
  <1>3. Conversation(g.sid, g.sock[c] = "connecting", g.wire[c], box[c],
                     c \in ans, att[c] # 0, c \in g.asking)
    BY DEF Talking, Spoken
  <1> HIDE DEF after
  <1>4. Spoken(k, c, after, ans, att)
    BY <1>1, <1>2, <1>3, Handed DEF Spoken
  <1>5. ~Has(after[c], "hello")
    BY <1>1, <1>2, <1>3, TailOrdered DEF Conversation
  <1>6. g.sock[c] # "connecting"
    BY <1>3 DEF Conversation
  <1>7. Untouched(k, after, ans, att)
    <2>1. \A s \in Sockets : s > c => s # c
      BY <1>1 DEF Sockets
    <2> QED BY <1>1, <1>2, <2>1 DEF Talking, Untouched
  <1> QED BY <1>1, <1>4, <1>5, <1>6, <1>7 DEF Talking, after

\* The client has been greeted on the socket it holds and has not answered.
Greeted(g, box) ==
    g.current # 0 => /\ g.wire[g.current] = <<>> /\ g.current \notin g.asking
                     /\ ~Has(box[g.current], "hello")
                     /\ g.sock[g.current] # "connecting"

LEMMA WriteTalking ==
    ASSUME NEW g, Sound(g), NEW box, NEW ans, NEW att, Talking(g, box, ans, att),
           Greeted(g, box), NEW handshake, handshake.kind = "identify" <=> g.sid = 0
    PROVE  LET h == Write(g, handshake)
           IN  Talking(h, box, ans, att) /\ h.sid = g.sid /\ h.seq = g.seq
  <1>1. CASE ~Connected(g)
    BY <1>1 DEF Write
  <1>2. CASE Connected(g)
    <2> DEFINE c == g.current
               w == Append(g.wire[c], handshake)
               h == [g EXCEPT !.wire[c] = w]
    <2>1. c \in Sockets /\ c # 0 /\ c = g.token /\ g.sock[c] = "open"
      BY <1>2, SocketsAreTokens DEF Connected, Talking, Sound, GatewayObject
    <2>2. Write(g, handshake) = h
      BY <1>2 DEF Write
    <2>3. /\ h.sid = g.sid /\ h.seq = g.seq /\ h.token = g.token /\ h.current = c
          /\ h.sock = g.sock /\ h.asking = g.asking
          /\ h.wire[c] = w /\ \A s \in Sockets : s # c => h.wire[s] = g.wire[s]
      BY <2>1 DEF Sound, GatewayObject, WireTable
    <2>4. Conversation(g.sid, FALSE, g.wire[c], box[c], c \in ans, att[c] # 0,
                       c \in g.asking)
      <3>1. Spoken(g, c, box, ans, att)
        BY <2>1 DEF Talking
      <3>2. (g.sock[c] = "connecting") = FALSE
        BY <2>1
      <3> QED BY <3>1, <3>2 DEF Spoken
    <2>5. g.wire[c] = <<>> /\ c \notin g.asking /\ ~Has(box[c], "hello")
      BY <2>1 DEF Greeted
    <2>6. Len(w) <= 1
      BY <2>5
    <2> HIDE DEF h
    <2>7. Conversation(g.sid, FALSE, w, box[c], c \in ans, att[c] # 0, c \in g.asking)
      BY <2>4, <2>5, Written
    <2> HIDE DEF c, w
    <2>8. Spoken(h, c, box, ans, att)
      <3>1. (h.sock[c] = "connecting") = FALSE
        BY <2>1, <2>3
      <3> QED BY <2>3, <2>7, <3>1 DEF Spoken
    <2>9. Untouched(h, box, ans, att)
      <3>1. \A s \in Sockets : s > c => s # c
        BY <2>1 DEF Sockets
      <3> QED BY <2>1, <2>3, <3>1 DEF Talking, Untouched
    <2>10. \A s \in Sockets : Len(h.wire[s]) <= 1
      BY <2>3, <2>6 DEF Talking
    <2> QED BY <2>1, <2>2, <2>3, <2>8, <2>9, <2>10 DEF Talking
  <1> QED BY <1>1, <1>2

LEMMA SendIdentifyTalking ==
    ASSUME NEW g, Sound(g), NEW box, NEW ans, NEW att, Talking(g, box, ans, att),
           Greeted(g, box), g.sid = 0
    PROVE  LET h == SendIdentify(g)
           IN  Talking(h, box, ans, att) /\ h.sid = g.sid /\ h.seq = g.seq
  BY WriteTalking DEF SendIdentify

LEMMA IdentifyOrResumeTalking ==
    ASSUME NEW g, Sound(g), NEW box, NEW ans, NEW att, Talking(g, box, ans, att),
           Greeted(g, box)
    PROVE  LET h == IdentifyOrResume(g)
           IN  Talking(h, box, ans, att) /\ h.sid = g.sid /\ h.seq = g.seq
  <1> DEFINE i == SetState(g, "Identify")
             r == SetState(g, "Resume")
  <1>1. CASE CanResume(g)
    <2> DEFINE handshake == [kind |-> "resume", sid |-> g.sid, seq |-> g.seq]
    <2>1. Sound(r) /\ Moves(g, r)
      BY SetStateSound, MethodsMove DEF States
    <2>2. Talking(r, box, ans, att)
      BY <2>1, MovesTalking
    <2>3. Greeted(r, box) /\ r.sid = g.sid /\ r.seq = g.seq
      BY DEF SetState, Greeted, Sound, GatewayObject
    <2>4. IdentifyOrResume(g) = Write(r, handshake)
      BY <1>1 DEF IdentifyOrResume
    <2>5. handshake.kind = "identify" <=> r.sid = 0
      BY <1>1, <2>3 DEF CanResume
    <2> HIDE DEF r, handshake
    <2> QED BY <2>1, <2>2, <2>3, <2>4, <2>5, WriteTalking
  <1>2. CASE ~CanResume(g) /\ Gated /\ ~g.paced
    <2> DEFINE h == [i EXCEPT !.asking = @ \cup {g.token}]
    <2>1. IdentifyOrResume(g) = h
      BY <1>2 DEF IdentifyOrResume
    <2>2. Sound(i) /\ Moves(g, i)
      BY SetStateSound, MethodsMove DEF States
    <2>3. Talking(i, box, ans, att)
      BY <2>2, MovesTalking
    <2>4. /\ i.sid = g.sid /\ i.seq = g.seq /\ i.token = g.token
          /\ Greeted(i, box)
      BY DEF SetState, Greeted, Sound, GatewayObject
    <2>5. i.sid = 0
      BY <1>2, <2>3, <2>4 DEF CanResume, Talking
    <2> HIDE DEF i
    <2>6. /\ h.sid = i.sid /\ h.seq = i.seq /\ h.token = i.token
          /\ h.current = i.current /\ h.sock = i.sock /\ h.wire = i.wire
          /\ h.asking = i.asking \cup {i.token}
      BY <2>2, <2>4 DEF Sound, GatewayObject
    <2> HIDE DEF h
    <2>7. ASSUME h.current # 0 PROVE Spoken(h, h.current, box, ans, att)
      BY <2>3, <2>4, <2>5, <2>6, <2>7 DEF Talking, Spoken, Conversation, Greeted
    <2>8. Untouched(h, box, ans, att)
      <3>1. i.token \in Nat /\ \A s \in Sockets : s > i.token => s # i.token
        BY <2>2, BoundAssumption DEF Sound, GatewayObject, Tokens, Sockets
      <3> QED BY <2>3, <2>6, <3>1 DEF Talking, Untouched
    <2>9. Talking(h, box, ans, att)
      BY <2>3, <2>6, <2>7, <2>8 DEF Talking
    <2> QED BY <2>1, <2>4, <2>6, <2>9
  <1>3. CASE ~CanResume(g) /\ ~(Gated /\ ~g.paced)
    <2> DEFINE h == [i EXCEPT !.paced = FALSE]
    <2>1. IdentifyOrResume(g) = SendIdentify(h)
      BY <1>3 DEF IdentifyOrResume
    <2>2. Sound(h)
      BY DEF Sound, OneSocket, GatewayObject, SetState, States
    <2>3. Moves(g, h)
      <3>1. g.token \in Nat
        BY BoundAssumption DEF Sound, GatewayObject, Tokens
      <3> QED BY <3>1 DEF SetState, Moves, Sound, GatewayObject
    <2>4. h.sid = g.sid /\ h.seq = g.seq /\ Greeted(h, box)
      BY DEF SetState, Greeted, Sound, GatewayObject
    <2>5. Talking(h, box, ans, att)
      BY <2>2, <2>3, MovesTalking
    <2>6. h.sid = 0
      BY <1>3, <2>4, <2>5 DEF CanResume, Talking
    <2> HIDE DEF h
    <2> QED BY <2>1, <2>2, <2>4, <2>5, <2>6, SendIdentifyTalking
  <1> QED BY <1>1, <1>2, <1>3

\* What one step may do to the session: what ResumableSession allows.
SessionStep(g, h) ==
    \/ h.sid = g.sid /\ h.seq = g.seq
    \/ h.sid = 0 /\ h.seq = 0
    \/ g.sid = 0 /\ g.seq = 0 /\ h.sid \in Sockets /\ h.seq > 0
    \/ g.sid # 0 /\ h.sid = g.sid /\ h.seq > g.seq

LEMMA HelloTalking ==
    ASSUME NEW g, Sound(g), NEW box \in [Sockets -> Seq(Frames)], NEW ans, NEW att,
           Talking(g, box, ans, att), g.current # 0, box[g.current] # <<>>,
           Head(box[g.current]).op = "hello", NEW reaction
    PROVE  LET h == HandleHello(g, reaction)
           IN  /\ Talking(h, HandedBox(box, g.current), ans, att)
               /\ h.sid = g.sid /\ h.seq = g.seq
  <1> DEFINE a == Announce(g, IF CanResume(g) THEN "Resume" ELSE "Hello", reaction)
             b == StartHeartbeat(a)
             after == HandedBox(box, g.current)
  <1>1. Talking(g, after, ans, att)
    BY HandedTalking DEF Learns, Talking
  <1>2. Greeted(g, after)
    <2>1. ~Has(after[g.current], "hello") /\ g.sock[g.current] # "connecting"
      BY HandedTalking DEF Learns, Talking
    <2>2. Has(box[g.current], "hello")
      <3>1. g.current \in Sockets
        BY SocketsAreTokens DEF Sound, GatewayObject
      <3> QED BY <3>1, TailHas
    <2>3. g.wire[g.current] = <<>> /\ g.current \notin g.asking
      BY <2>2 DEF Talking, Spoken, Conversation
    <2> QED BY <2>1, <2>3 DEF Greeted
  <1> HIDE DEF after
  <1>3. Sound(a) /\ Moves(g, a)
    BY AnnounceSound, AnnounceMoves DEF States
  <1>4. a.token = g.token
    BY DEF Announce, CloseGateway, SetState, Discard, Settle, ClearTimers,
           StopHeartbeat, ClearBeatTimers, Sound, GatewayObject
  <1> HIDE DEF a
  <1>5. Sound(b) /\ Moves(a, b)
    BY <1>3, StartHeartbeatSound, MethodsMove
  <1>6. b.token = g.token
    BY <1>3, <1>4 DEF StartHeartbeat, ClearBeatTimers, Sound, GatewayObject
  <1> HIDE DEF b
  <1>7. Moves(g, b)
    BY <1>3, <1>5, MovesTwice
  <1>8. Talking(b, after, ans, att)
    BY <1>1, <1>5, <1>7, MovesTalking
  <1>9. Greeted(b, after)
    <2>1. g.token \in Nat
      BY BoundAssumption DEF Sound, GatewayObject, Tokens
    <2> QED BY <2>1, <1>2, <1>6, <1>7 DEF Moves, Greeted
  <1>10. LET h == IdentifyOrResume(b)
         IN  Talking(h, after, ans, att) /\ h.sid = b.sid /\ h.seq = b.seq
    BY <1>5, <1>8, <1>9, IdentifyOrResumeTalking
  <1>11. b.sid = g.sid /\ b.seq = g.seq
    BY <1>7 DEF Moves
  <1> QED BY <1>10, <1>11 DEF HandleHello, b, a, after

\* A frame is handed to the client that holds its socket.
LEMMA ApplyTalking ==
    ASSUME NEW g, Sound(g), NEW box \in [Sockets -> Seq(Frames)], NEW ans, NEW att,
           Talking(g, box, ans, att), g.current # 0, box[g.current] # <<>>,
           NEW reaction
    PROVE  LET h == Apply(g, Head(box[g.current]), reaction)
           IN  /\ Talking(h, HandedBox(box, g.current), ans, att)
               /\ SessionStep(g, h)
  <1> DEFINE c == g.current
             f == Head(box[c])
             after == HandedBox(box, c)
             h == IF f.s = 0 THEN g ELSE RecordSequence(g, f.s)
             d == Announce(h, "Dispatch", reaction)
  <1>1. c \in Sockets /\ box[c] \in Seq(Frames) /\ f \in Frames
    BY SocketsAreTokens DEF Sound, GatewayObject
  <1>2. g.seq \in Nat /\ f.s \in SequenceNumbers /\ f.s \in Nat
    BY <1>1, BoundAssumption DEF Sound, GatewayObject, SequenceNumbers, Frames
  <1>3. Sound(h)
    BY <1>2, RecordSequenceSound
  <1>4. Spoken(g, c, box, ans, att)
    BY DEF Talking
  <1>5. box[c][1] = f /\ 1 \in 1..Len(box[c])
    BY <1>1, TailOf
  <1> HIDE DEF f
  <1>6. CASE f.op = "hello"
    <2>1. f.s = 0
      BY <1>1, <1>6 DEF Frames
    <2>2. Apply(g, f, reaction) = HandleHello(g, reaction)
      BY <1>6, <2>1 DEF Apply
    <2>3. LET e == HandleHello(g, reaction)
          IN  Talking(e, after, ans, att) /\ e.sid = g.sid /\ e.seq = g.seq
      BY <1>6, HelloTalking DEF f
    <2> QED BY <2>2, <2>3 DEF SessionStep, f
  <1>7. CASE f.op = "ready"
    <2> DEFINE k == [g EXCEPT !.sid = f.sid, !.seq = f.s]
               e == HandleReady(d, f.sid)
    <2>1. f.sid \in Sockets /\ f.sid # 0 /\ f.s # 0 /\ f.s \in 1..MaxSeq
      BY <1>1, <1>7, SocketsAreTokens DEF Frames
    <2>2. g.sid = 0 /\ g.seq = 0
      BY <1>4, <1>5, <1>7 DEF Spoken, Conversation, Ordered, Talking
    <2>3. h = [g EXCEPT !.seq = f.s]
      BY <1>2, <2>1, <2>2 DEF RecordSequence
    <2>4. /\ k.sid = f.sid /\ k.seq = f.s /\ k.token = g.token /\ k.current = g.current
          /\ k.wire = g.wire /\ k.asking = g.asking /\ k.sock = g.sock
      BY DEF Sound, GatewayObject
    <2>5. Sound(k)
      <3>1. f.sid \in Tokens
        BY <2>1, SocketsAreTokens
      <3> QED BY <1>2, <3>1 DEF Sound, OneSocket, GatewayObject
    <2>6. Talking(k, after, ans, att)
      <3>1. Learns(g.sid, f, k.sid)
        BY <1>7, <2>1, <2>4 DEF Learns
      <3>2. k.sid = 0 <=> k.seq = 0
        BY <2>1, <2>4
      <3> HIDE DEF k
      <3> QED BY <2>4, <3>1, <3>2, HandedTalking DEF f
    <2>7. /\ h.seq = f.s /\ h.token = g.token /\ h.current = g.current
          /\ h.wire = g.wire /\ h.asking = g.asking /\ h.sock = g.sock
      BY <2>3 DEF Sound, GatewayObject
    <2> HIDE DEF k, h
    <2>8. Sound(d) /\ Moves(h, d)
      BY <1>3, AnnounceSound, AnnounceMoves DEF States
    <2> HIDE DEF d
    <2>9. Sound(e) /\ e.sid = f.sid
      BY <2>1, <2>8, HandleReadySound DEF HandleReady, SetState, Sound, GatewayObject
    <2>10. /\ e.seq = d.seq /\ e.token = d.token /\ e.current = d.current
           /\ e.wire = d.wire /\ e.asking = d.asking /\ e.sock = d.sock
      BY <2>8 DEF HandleReady, SetState, Sound, GatewayObject
    <2> HIDE DEF e
    <2>11. Moves(k, e)
      BY <2>4, <2>7, <2>8, <2>9, <2>10 DEF Moves
    <2>12. Talking(e, after, ans, att)
      BY <2>5, <2>6, <2>9, <2>11, MovesTalking
    <2>13. e.seq = f.s /\ e.seq > 0
      BY <2>1, <2>4, <2>11 DEF Moves
    <2>14. Apply(g, f, reaction) = e
      BY <1>7 DEF Apply, e, d, h
    <2> QED BY <2>1, <2>2, <2>9, <2>12, <2>13, <2>14 DEF SessionStep, f
  <1>8. CASE f.op \in {"resumed", "event"}
    <2> DEFINE e == Apply(g, f, reaction)
    <2>1. f.s # 0
      BY <1>1, <1>8 DEF Frames
    <2>2. g.sid # 0 /\ g.seq # 0
      BY <1>4, <1>5, <1>8 DEF Spoken, Conversation, Ordered, Talking
    <2>3. /\ h.sid = g.sid /\ h.token = g.token /\ h.current = g.current
          /\ h.wire = g.wire /\ h.asking = g.asking /\ h.sock = g.sock
          /\ h.seq = g.seq \/ h.seq > g.seq
          /\ h.seq # 0
      BY <1>2, <2>1, <2>2 DEF RecordSequence, Sound, GatewayObject
    <2> HIDE DEF h
    <2>4. Talking(h, after, ans, att)
      <3>1. Learns(g.sid, f, h.sid)
        BY <1>8, <2>3 DEF Learns
      <3> QED BY <2>2, <2>3, <3>1, HandedTalking DEF f
    <2>5. Sound(d) /\ Moves(h, d)
      BY <1>3, AnnounceSound, AnnounceMoves DEF States
    <2> HIDE DEF d
    <2>6. Sound(HandleResumed(d)) /\ Moves(d, HandleResumed(d))
      BY <2>5, HandleResumedSound, MethodsMove
    <2>7. e \in {d, HandleResumed(d)}
      BY <1>8 DEF Apply, h, d
    <2>8. Sound(e) /\ Moves(h, e)
      BY <1>3, <2>5, <2>6, <2>7, MovesTwice
    <2> HIDE DEF e
    <2>9. Talking(e, after, ans, att)
      BY <1>3, <2>4, <2>8, MovesTalking
    <2>10. SessionStep(g, e)
      BY <2>2, <2>3, <2>8 DEF Moves, SessionStep
    <2> QED BY <2>9, <2>10 DEF e, f
  <1>9. CASE f.op \in {"beat", "ack", "reconnect", "resumable"}
    <2> DEFINE e == Apply(g, f, reaction)
               b == Announce(g, "Heartbeat", reaction)
    <2>1. h = g
      BY <1>1, <1>9 DEF Frames
    <2>2. Talking(g, after, ans, att)
      BY <1>9, HandedTalking DEF Learns, Talking, f
    <2>3. Sound(b) /\ Moves(g, b)
      BY AnnounceSound, AnnounceMoves DEF States
    <2> HIDE DEF b
    <2>4. Sound(SendHeartbeat(b)) /\ Moves(b, SendHeartbeat(b))
      BY <2>3, SendHeartbeatSound, MethodsMove
    <2>5. Moves(g, SendHeartbeat(b))
      BY <2>3, <2>4, MovesTwice
    <2>6. /\ Sound(Acknowledge(g)) /\ Moves(g, Acknowledge(g))
          /\ Sound(TransportClose(g)) /\ Moves(g, TransportClose(g))
      BY AcknowledgeSound, TransportCloseSound, MethodsMove
    <2>7. e \in {SendHeartbeat(b), Acknowledge(g), TransportClose(g)}
      BY <1>9, <2>1 DEF Apply, b
    <2>8. Sound(e) /\ Moves(g, e)
      BY <2>4, <2>5, <2>6, <2>7
    <2> HIDE DEF e
    <2>9. Talking(e, after, ans, att)
      BY <2>2, <2>8, MovesTalking
    <2> QED BY <2>8, <2>9 DEF e, f, Moves, SessionStep
  <1>10. CASE f.op = "invalid"
    <2> DEFINE k == Invalidate(g)
               e == TransportClose(k)
    <2>1. h = g
      BY <1>1, <1>10 DEF Frames
    <2>2. Sound(k)
      BY InvalidateSound
    <2>3. /\ k.sid = 0 /\ k.seq = 0 /\ k.token = g.token /\ k.current = g.current
          /\ k.wire = g.wire /\ k.asking = g.asking /\ k.sock = g.sock
      BY DEF Invalidate, Sound, GatewayObject
    <2>4. Apply(g, f, reaction) = e
      BY <1>10, <2>1 DEF Apply
    <2> HIDE DEF k
    <2>5. Talking(k, after, ans, att)
      <3>1. Learns(g.sid, f, k.sid)
        BY <1>10, <2>3 DEF Learns
      <3> QED BY <2>3, <3>1, HandedTalking DEF f
    <2>6. Sound(e) /\ Moves(k, e)
      BY <2>2, TransportCloseSound, MethodsMove
    <2> HIDE DEF e
    <2>7. Talking(e, after, ans, att)
      BY <2>2, <2>5, <2>6, MovesTalking
    <2> QED BY <2>3, <2>4, <2>6, <2>7 DEF Moves, SessionStep, f
  <1>11. f.op \in {"hello", "ready", "resumed", "event", "beat", "ack",
                    "reconnect", "resumable", "invalid"}
    BY <1>1 DEF Frames
  <1> QED BY <1>6, <1>7, <1>8, <1>9, <1>10, <1>11

-----------------------------------------------------------------------------
(***************************************************************************)
(* The steps, and the session                                              *)
(***************************************************************************)

\* The state of affairs on every socket, and how a step may change it.
InTalk == Talking(gw, inbox, answered, attached)

Follows == Talking(gw', inbox', answered', attached') /\ SessionStep(gw, gw')

LEMMA TalkStarts == Init => InTalk
  <1> SUFFICES ASSUME Init PROVE InTalk
    OBVIOUS
  <1>1. gw.sid = 0 /\ gw.seq = 0 /\ gw.current = 0 /\ gw.token = 0
    BY DEF Init
  <1>2. \A s \in Sockets : /\ gw.wire[s] = <<>> /\ inbox[s] = <<>>
                           /\ s \notin answered /\ attached[s] = 0
                           /\ s \notin gw.asking
    BY DEF Init
  <1>3. Len(<<>>) <= 1
    OBVIOUS
  <1> QED BY <1>1, <1>2, <1>3 DEF InTalk, Talking, Untouched

\* A step of the client alone.
LEMMA MovesFollow ==
    ASSUME TypeInv, InTalk, Sound(gw'), Moves(gw, gw'),
           inbox' = inbox, answered' = answered, attached' = attached
    PROVE  Follows
  <1>1. Sound(gw)
    BY DEF TypeInv, TypeOK, Sound
  <1>2. Talking(gw', inbox, answered, attached)
    BY <1>1, MovesTalking DEF InTalk
  <1> QED BY <1>2 DEF Follows, Moves, SessionStep

LEMMA TimerFollows ==
    ASSUME TypeInv, InTalk, Timer PROVE Follows
  <1>1. Sound(gw) /\ gw.token \in Nat
    BY BoundAssumption DEF TypeInv, TypeOK, Sound, GatewayObject, Tokens
  <1>2. Sound(gw')
    BY TimerSound
  <1>3. inbox' = inbox /\ answered' = answered /\ attached' = attached
    BY DEF Timer, ReconnectTimer, ConnectTimer, FirstBeat, ScheduledBeat,
           AckTimeout, ZombieTimeout, server
  <1>4. CASE ReconnectTimer
    <2> DEFINE g == [gw EXCEPT !.pending = FALSE]
    <2>1. Sound(g) /\ g.token < MaxSockets
      BY <1>1, <1>4 DEF ReconnectTimer, CanDial, Sound, OneSocket, GatewayObject
    <2>2. Moves(gw, g)
      BY <1>1 DEF Moves, Sound, GatewayObject
    <2> HIDE DEF g
    <2>3. PICK ok : gw' = Open(g, ok)
      BY <1>4 DEF ReconnectTimer, g
    <2>4. Moves(g, gw')
      BY <2>1, <2>3, OpenMoves
    <2>5. Moves(gw, gw')
      BY <1>1, <1>2, <2>1, <2>2, <2>4, MovesTwice
    <2> QED BY <1>2, <1>3, <2>5, MovesFollow
  <1>5. CASE ConnectTimer
    <2> DEFINE g == [gw EXCEPT !.dial = 0]
    <2>1. Sound(g)
      BY <1>1, Zeroes DEF Sound, OneSocket, GatewayObject
    <2>2. Moves(gw, g)
      BY <1>1 DEF Moves, Sound, GatewayObject
    <2> HIDE DEF g
    <2>3. gw' \in {g, TransportClose(g)}
      BY <1>5 DEF ConnectTimer, g
    <2>4. Moves(g, TransportClose(g)) /\ Sound(TransportClose(g))
      BY <2>1, MethodsMove, TransportCloseSound
    <2>5. Moves(gw, gw')
      BY <1>1, <2>1, <2>2, <2>3, <2>4, MovesTwice
    <2> QED BY <1>2, <1>3, <2>5, MovesFollow
  <1>6. CASE FirstBeat
    <2> DEFINE g == SendHeartbeat(gw)
    <2>1. Sound(g) /\ Moves(gw, g)
      BY <1>1, SendHeartbeatSound, MethodsMove
    <2> HIDE DEF g
    <2>2. gw' = [g EXCEPT !.beat = gw.first, !.first = 0]
      BY <1>6 DEF FirstBeat, g
    <2>3. g.token \in Nat
      BY <2>1, BoundAssumption DEF Sound, GatewayObject, Tokens
    <2>4. Moves(g, gw')
      BY <2>1, <2>2, <2>3 DEF Moves, Sound, GatewayObject
    <2>5. Moves(gw, gw')
      BY <1>1, <1>2, <2>1, <2>4, MovesTwice
    <2> QED BY <1>2, <1>3, <2>5, MovesFollow
  <1>7. CASE ScheduledBeat
    <2> DEFINE g == ClearBeatTimers(gw)
    <2>1. Sound(g) /\ Moves(gw, g)
      BY <1>1, ClearBeatTimersSound, MethodsMove
    <2> HIDE DEF g
    <2>2. gw' \in {TransportClose(g), SendHeartbeat(gw)}
      BY <1>7 DEF ScheduledBeat, g
    <2>3. Moves(g, TransportClose(g)) /\ Sound(TransportClose(g))
      BY <2>1, MethodsMove, TransportCloseSound
    <2>4. Moves(gw, TransportClose(g))
      BY <1>1, <2>1, <2>3, MovesTwice
    <2>5. Moves(gw, SendHeartbeat(gw))
      BY <1>1, MethodsMove
    <2>6. Moves(gw, gw')
      BY <2>2, <2>4, <2>5
    <2> QED BY <1>2, <1>3, <2>6, MovesFollow
  <1>8. CASE AckTimeout
    <2> DEFINE g == [gw EXCEPT !.ackBy = 0]
    <2>1. Sound(g)
      BY <1>1, Zeroes DEF Sound, OneSocket, GatewayObject
    <2>2. Moves(gw, g)
      BY <1>1 DEF Moves, Sound, GatewayObject
    <2> HIDE DEF g
    <2>3. gw' = TransportClose(g)
      BY <1>8 DEF AckTimeout, g
    <2>4. Moves(g, gw')
      BY <2>1, <2>3, MethodsMove
    <2>5. Moves(gw, gw')
      BY <1>1, <1>2, <2>1, <2>2, <2>4, MovesTwice
    <2> QED BY <1>2, <1>3, <2>5, MovesFollow
  <1>9. CASE ZombieTimeout
    <2>1. Moves(gw, gw')
      BY <1>1, <1>9, MethodsMove DEF ZombieTimeout
    <2> QED BY <1>2, <1>3, <2>1, MovesFollow
  <1> QED BY <1>4, <1>5, <1>6, <1>7, <1>8, <1>9 DEF Timer

LEMMA SocketOpensFollows ==
    ASSUME TypeInv, InTalk, NEW s \in Sockets, SocketOpens(s) PROVE Follows
  <1> DEFINE g == [gw EXCEPT !.sock[s] = "open"]
             up == [g EXCEPT !.dial = 0, !.watch = TRUE]
             end == Settle(up, "fulfilled")
             hello == <<Frame("hello", 0, 0)>>
  <1>1. Sound(gw) /\ gw.sock[s] = "connecting" /\ gw.current = s /\ s # 0
    BY SocketsAreTokens DEF TypeInv, TypeOK, Sound, OneSocket, SocketOpens
  <1>2. /\ inbox'[s] = hello /\ \A t \in Sockets : t # s => inbox'[t] = inbox[t]
        /\ answered' = answered /\ attached' = attached
    BY DEF SocketOpens, server, TypeInv, TypeOK
  <1>3. Sound(gw')
    BY SocketOpensSound
  <1>4. gw' = end
    <2>1. g.current = s
      BY <1>1 DEF Sound, GatewayObject
    <2> QED BY <2>1 DEF SocketOpens, Owns
  <1>5. /\ gw'.sid = gw.sid /\ gw'.seq = gw.seq /\ gw'.token = gw.token
        /\ gw'.current = s /\ gw'.wire = gw.wire /\ gw'.asking = gw.asking
        /\ gw'.sock[s] = "open"
    <2>1. /\ g.sid = gw.sid /\ g.seq = gw.seq /\ g.token = gw.token
          /\ g.current = s /\ g.wire = gw.wire /\ g.asking = gw.asking
          /\ g.sock[s] = "open" /\ g \in GatewayObject
      <3>1. [gw.sock EXCEPT ![s] = "open"] \in SocketTable
        BY <1>1 DEF Sound, GatewayObject, SocketTable, SocketStates
      <3> QED BY <1>1, <3>1 DEF Sound, GatewayObject, SocketTable
    <2> HIDE DEF g
    <2> QED BY <1>4, <2>1 DEF Settle, GatewayObject
  <1>6. Spoken(gw, s, inbox, answered, attached) /\ s = gw.token
    BY <1>1 DEF InTalk, Talking
  <1>7. Spoken(gw', s, inbox', answered', attached')
    <2>1. /\ gw.wire[s] = <<>> /\ s \notin gw.asking /\ s \notin answered
          /\ attached[s] = 0
      BY <1>1, <1>6 DEF Spoken, Conversation
    <2>2. Len(hello) = 1 /\ hello[1].op = "hello" /\ \A i \in 1..Len(hello) : i = 1
      BY DEF Frame
    <2> HIDE DEF hello
    <2>3. (gw'.sock[s] = "connecting") = FALSE
      BY <1>5
    <2>4. \A i \in 1..Len(hello) : ~OfSession(hello[i])
      BY <2>2 DEF OfSession, Numbered
    <2>5. Ordered(hello, gw.sid) /\ ~Has(hello, "invalid")
      BY <2>2 DEF Ordered, Has
    <2> QED BY <1>2, <1>5, <2>1, <2>3, <2>4, <2>5 DEF Spoken, Conversation
  <1>8. Untouched(gw', inbox', answered', attached')
    <2>1. \A t \in Sockets : t > s => t # s
      BY DEF Sockets
    <2> QED BY <1>2, <1>5, <1>6, <2>1 DEF InTalk, Talking, Untouched
  <1> QED BY <1>5, <1>6, <1>7, <1>8 DEF InTalk, Talking, Follows, SessionStep

LEMMA DeliverFollows ==
    ASSUME TypeInv, InTalk, NEW s \in Sockets, Deliver(s) PROVE Follows
  <1>1. Sound(gw) /\ inbox \in [Sockets -> Seq(Frames)] /\ inbox[s] # <<>> /\ s # 0
    BY SocketsAreTokens DEF TypeInv, TypeOK, Sound, Deliver
  <1>2. /\ inbox' = HandedBox(inbox, s)
        /\ answered' = answered /\ attached' = attached
    BY DEF Deliver, server, HandedBox
  <1>3. CASE Owns(gw, s)
    <2>1. PICK reaction : gw' = Apply(gw, Head(inbox[s]), reaction)
      BY <1>3 DEF Deliver
    <2>2. gw.current = s
      BY <1>3 DEF Owns
    <2> QED BY <1>1, <1>2, <2>1, <2>2, ApplyTalking DEF InTalk, Follows
  <1>4. CASE ~Owns(gw, s)
    <2>1. gw' = gw
      BY <1>4 DEF Deliver
    <2>2. \A t \in Sockets : t # s => inbox'[t] = inbox[t]
      BY <1>1, <1>2 DEF HandedBox
    <2>3. gw.current # 0 => gw.current \in Sockets /\ gw.current # s
      BY <1>1, <1>4, SocketsAreTokens DEF Owns, Sound, GatewayObject
    <2>4. ~(s > gw.token)
      BY <1>1 DEF InTalk, Talking, Untouched
    <2>5. gw.current # 0 => Spoken(gw, gw.current, inbox', answered', attached')
      BY <1>2, <2>2, <2>3 DEF InTalk, Talking, Spoken
    <2>6. Untouched(gw, inbox', answered', attached')
      BY <1>2, <2>2, <2>4 DEF InTalk, Talking, Untouched
    <2>7. Talking(gw, inbox', answered', attached')
      BY <2>5, <2>6 DEF InTalk, Talking
    <2> QED BY <2>1, <2>7 DEF Follows, SessionStep
  <1> QED BY <1>3, <1>4

LEMMA SocketClosesFollows ==
    ASSUME TypeInv, InTalk, NEW s \in Sockets, SocketCloses(s) PROVE Follows
  <1>1. Sound(gw) /\ s # 0 /\ gw.token \in Nat
    BY BoundAssumption, SocketsAreTokens
       DEF TypeInv, TypeOK, Sound, GatewayObject, Tokens
  <1>2. /\ \A t \in Sockets : t # s => inbox'[t] = inbox[t] /\ attached'[t] = attached[t]
        /\ inbox'[s] = <<>> /\ attached'[s] = 0 /\ answered' = answered
    BY DEF SocketCloses, TypeInv, TypeOK
  <1>3. Sound(gw')
    BY SocketClosesSound
  <1>4. Untouched(gw, inbox', answered', attached')
    BY <1>2 DEF InTalk, Talking, Untouched
  <1>5. CASE Owns(gw, s)
    <2>1. PICK kind, reaction, ok :
              /\ reaction = "connect" => gw.token < MaxSockets
              /\ gw' = HandleClose(gw, s, kind, reaction, ok)
      BY <1>5 DEF SocketCloses, CanDial
    <2>2. s = gw.current
      BY <1>5 DEF Owns
    <2>3. PICK dropped :
              /\ Sound(dropped) /\ dropped.current = 0 /\ dropped.token = gw.token
              /\ dropped.wire = gw.wire /\ dropped.asking = gw.asking
              /\ \/ dropped.sid = gw.sid /\ dropped.seq = gw.seq
                 \/ dropped.sid = 0 /\ dropped.seq = 0
              /\ Moves(dropped, HandleClose(gw, s, kind, reaction, ok))
      BY <1>1, <2>1, <2>2, HandleCloseMoves
    <2>4. Talking(dropped, inbox', answered', attached')
      BY <1>4, <2>3 DEF InTalk, Talking, Untouched
    <2>5. Talking(gw', inbox', answered', attached')
      BY <1>3, <2>1, <2>3, <2>4, MovesTalking
    <2>6. SessionStep(gw, gw')
      BY <2>1, <2>3 DEF Moves, SessionStep
    <2> QED BY <2>5, <2>6 DEF Follows
  <1>6. CASE ~Owns(gw, s)
    <2>1. gw' = [gw EXCEPT !.sock[s] = "closed"]
      BY <1>6 DEF SocketCloses
    <2>2. gw.current # 0 => gw.current \in Sockets /\ gw.current # s
      BY <1>1, <1>6, SocketsAreTokens DEF Owns, Sound, GatewayObject
    <2>3. Moves(gw, gw')
      BY <1>1, <2>1, <2>2 DEF Moves, Sound, GatewayObject, SocketTable
    <2>4. gw.current # 0 => Spoken(gw, gw.current, inbox', answered', attached')
      BY <1>2, <2>2 DEF InTalk, Talking, Spoken
    <2>5. Talking(gw, inbox', answered', attached')
      BY <1>4, <2>4 DEF InTalk, Talking
    <2>6. Talking(gw', inbox', answered', attached')
      BY <1>1, <1>3, <2>3, <2>5, MovesTalking
    <2> QED BY <2>3, <2>6 DEF Follows, Moves, SessionStep
  <1> QED BY <1>5, <1>6

LEMMA GateAnswersFollows ==
    ASSUME TypeInv, InTalk, NEW t \in Sockets, GateAnswers(t) PROVE Follows
  <1> DEFINE g == [gw EXCEPT !.asking = gw.asking \ {t}]
  <1>1. Sound(gw) /\ t \in gw.asking
    BY DEF TypeInv, TypeOK, Sound, GateAnswers
  <1>2. Sound(g)
    <2>1. gw.asking \ {t} \in TokenSets
      BY <1>1 DEF Sound, GatewayObject, TokenSets
    <2> QED BY <1>1, <2>1 DEF Sound, OneSocket, GatewayObject
  <1>3. /\ g.sid = gw.sid /\ g.seq = gw.seq /\ g.token = gw.token
        /\ g.current = gw.current /\ g.wire = gw.wire /\ g.sock = gw.sock
        /\ g.asking = gw.asking \ {t} /\ g.closed = gw.closed
    BY <1>1 DEF Sound, GatewayObject
  <1>4. inbox' = inbox /\ answered' = answered /\ attached' = attached
    BY DEF GateAnswers, server
  <1>5. /\ SlotIsCurrent(g, t) => gw' \in {SendIdentify(g), TransportClose(g)}
        /\ ~SlotIsCurrent(g, t) => gw' = g
    BY DEF GateAnswers
  <1> HIDE DEF g
  <1>6. Talking(g, inbox, answered, attached)
    <2>1. gw.current # 0 => Spoken(g, gw.current, inbox, answered, attached)
      BY <1>3 DEF InTalk, Talking, Spoken, Conversation
    <2>2. Untouched(g, inbox, answered, attached)
      BY <1>3 DEF InTalk, Talking, Untouched
    <2> QED BY <1>3, <2>1, <2>2 DEF InTalk, Talking
  <1>7. CASE ~SlotIsCurrent(g, t)
    BY <1>3, <1>4, <1>5, <1>6, <1>7 DEF Follows, SessionStep
  <1>8. CASE SlotIsCurrent(g, t) /\ gw' = TransportClose(g)
    <2>1. Sound(TransportClose(g)) /\ Moves(g, TransportClose(g))
      BY <1>2, TransportCloseSound, MethodsMove
    <2>2. Talking(TransportClose(g), inbox, answered, attached)
      BY <1>2, <1>6, <2>1, MovesTalking
    <2> QED BY <1>3, <1>4, <1>8, <2>1, <2>2 DEF Follows, Moves, SessionStep
  <1>9. CASE SlotIsCurrent(g, t) /\ gw' = SendIdentify(g)
    <2>1. CASE g.current = 0
      <3>1. SendIdentify(g) = g
        BY <2>1 DEF SendIdentify, Write, Connected
      <3> QED BY <1>3, <1>4, <1>6, <1>9, <3>1 DEF Follows, SessionStep
    <2>2. CASE g.current # 0
      <3>1. gw.current = t
        BY <1>3, <1>9, <2>2 DEF SlotIsCurrent, InTalk, Talking
      <3>2. Spoken(gw, t, inbox, answered, attached)
        BY <1>3, <2>2, <3>1 DEF InTalk, Talking
      <3>3. /\ gw.sid = 0 /\ gw.wire[t] = <<>> /\ ~Has(inbox[t], "hello")
            /\ gw.sock[t] # "connecting"
        BY <1>1, <3>2 DEF Spoken, Conversation
      <3>4. Greeted(g, inbox) /\ g.sid = 0
        BY <1>3, <3>1, <3>3 DEF Greeted
      <3> QED BY <1>2, <1>3, <1>4, <1>6, <1>9, <3>4, SendIdentifyTalking
              DEF Follows, SessionStep
    <2> QED BY <2>1, <2>2
  <1> QED BY <1>5, <1>7, <1>8, <1>9

\* Discord only speaks on an open socket, which is the one the client holds.
LEMMA SaidFollows ==
    ASSUME TypeInv, InTalk, NEW s \in Sockets, UNCHANGED gw, gw.sock[s] = "open",
           NEW f \in Frames, Push(s, f), Fits(inbox[s], gw.sid, f),
           \A t \in Sockets : t # s =>
               (t \in answered' <=> t \in answered) /\ attached'[t] = attached[t],
           s \in answered => s \in answered',
           s \in answered' => gw.wire[s] # <<>>,
           attached'[s] # 0 =>
               /\ gw.sid # 0 \/ Has(inbox[s], "ready") \/ f.op = "ready"
               /\ ~Has(inbox[s], "invalid") /\ f.op # "invalid",
           s \notin answered' => attached'[s] = 0 /\ ~OfSession(f)
    PROVE  Follows
  <1>1. gw \in GatewayObject /\ inbox \in [Sockets -> Seq(Frames)]
    BY DEF TypeInv, TypeOK
  <1>2. gw.current = s /\ s # 0 /\ s = gw.token
    BY <1>1, SocketsAreTokens DEF TypeInv, OneSocket, InTalk, Talking
  <1>3. /\ inbox[s] \in Seq(Frames) /\ inbox'[s] = Append(inbox[s], f)
        /\ \A t \in Sockets : t # s => inbox'[t] = inbox[t]
    BY <1>1 DEF Push
  <1>4. Conversation(gw.sid, gw.sock[s] = "connecting", gw.wire[s], inbox[s],
                     s \in answered, attached[s] # 0, s \in gw.asking)
    BY <1>2 DEF InTalk, Talking, Spoken
  <1> DEFINE q == inbox[s]
             sid == gw.sid
             w == gw.wire[s]
             connecting == gw.sock[s] = "connecting"
             asks == s \in gw.asking
             was == s \in answered
             is == s \in answered'
             had == attached[s] # 0
             has == attached'[s] # 0
  <1>5. /\ ~connecting /\ Fits(q, sid, f) /\ (was => is) /\ (is => w # <<>>)
        /\ Conversation(sid, connecting, w, q, was, had, asks)
        /\ has => /\ sid # 0 \/ Has(q, "ready") \/ f.op = "ready"
                  /\ ~Has(q, "invalid") /\ f.op # "invalid"
        /\ ~is => ~has /\ ~OfSession(f)
    BY <1>4
  <1>6. Conversation(sid, connecting, w, Append(q, f), is, has, asks)
    <2> HIDE DEF sid, w, connecting, asks, was, is, had, has
    <2>1. q \in Seq(Frames)
      BY <1>3
    <2> HIDE DEF q
    <2> QED BY <1>5, <2>1, Said
  <1>7. Spoken(gw, s, inbox', answered', attached')
    BY <1>3, <1>6 DEF Spoken
  <1>8. Untouched(gw, inbox', answered', attached')
    <2>1. \A t \in Sockets : t > s => t # s
      BY DEF Sockets
    <2> QED BY <1>2, <1>3, <2>1 DEF InTalk, Talking, Untouched
  <1>9. Talking(gw, inbox', answered', attached')
    BY <1>2, <1>7, <1>8 DEF InTalk, Talking
  <1> QED BY <1>9 DEF Follows, SessionStep

LEMMA DiscordFollows ==
    ASSUME TypeInv, InTalk, NEW s \in Sockets, Discord(s) PROVE Follows
  <1>1. /\ gw \in GatewayObject /\ inbox \in [Sockets -> Seq(Frames)]
        /\ answered \in SUBSET Sockets /\ attached \in [Sockets -> Tokens]
        /\ sent \in [Sockets -> SequenceNumbers] /\ s # 0
    BY SocketsAreTokens DEF TypeInv, TypeOK
  <1>2. ASSUME gw.sock[s] = "open"
        PROVE  Conversation(gw.sid, gw.sock[s] = "connecting", gw.wire[s], inbox[s],
                            s \in answered, attached[s] # 0, s \in gw.asking)
    <2>1. gw.current = s
      BY <1>2 DEF TypeInv, OneSocket
    <2> QED BY <1>1, <2>1 DEF InTalk, Talking, Spoken
  <1>3. CASE AnswersIdentify(s)
    <2>1. /\ gw.sock[s] = "open" /\ UNCHANGED gw /\ s \notin answered
          /\ gw.wire[s] # <<>> /\ Head(gw.wire[s]).kind = "identify"
          /\ answered' = answered \cup {s}
      BY <1>3 DEF AnswersIdentify, CanPush
    <2>2. /\ gw.sid = 0 /\ attached[s] = 0
          /\ \A i \in 1..Len(inbox[s]) : ~OfSession(inbox[s][i])
      BY <1>2, <2>1 DEF Conversation
    <2>3. ~Has(inbox[s], "invalid")
      BY <2>2 DEF Has, OfSession
    <2>4. CASE Push(s, Frame("ready", s, 1)) /\ attached' = [attached EXCEPT ![s] = s]
      <3> DEFINE f == Frame("ready", s, 1)
      <3>1. f \in Frames /\ f.op = "ready"
        BY FramesTyped, BoundAssumption DEF Frame
      <3> HIDE DEF f
      <3>2. Fits(inbox[s], gw.sid, f)
        BY <2>2, <3>1 DEF Fits
      <3>3. \A t \in Sockets : t # s =>
               (t \in answered' <=> t \in answered) /\ attached'[t] = attached[t]
        BY <1>1, <2>1, <2>4
      <3>4. s \in answered'
        BY <2>1
      <3> QED BY <2>1, <2>3, <2>4, <3>1, <3>2, <3>3, <3>4, SaidFollows DEF f
    <2>5. CASE Push(s, Frame("invalid", 0, 0)) /\ attached' = attached
      <3> DEFINE f == Frame("invalid", 0, 0)
      <3>1. f \in Frames /\ f.op = "invalid"
        BY FramesTyped DEF Frame
      <3> HIDE DEF f
      <3>2. Fits(inbox[s], gw.sid, f)
        BY <3>1 DEF Fits
      <3>3. s \in answered' /\ attached'[s] = 0
        BY <2>1, <2>2, <2>5
      <3> QED BY <2>1, <2>5, <3>1, <3>2, <3>3, SaidFollows DEF f
    <2> QED BY <1>3, <2>4, <2>5 DEF AnswersIdentify
  <1>4. CASE AnswersResume(s)
    <2> DEFINE n == Head(gw.wire[s]).sid
    <2>1. /\ gw.sock[s] = "open" /\ UNCHANGED gw /\ s \notin answered
          /\ gw.wire[s] # <<>> /\ Head(gw.wire[s]).kind = "resume"
          /\ answered' = answered \cup {s}
      BY <1>4 DEF AnswersResume, CanPush
    <2>2. /\ gw.sid # 0 /\ attached[s] = 0
          /\ \A i \in 1..Len(inbox[s]) : ~OfSession(inbox[s][i])
      BY <1>2, <2>1 DEF Conversation
    <2>3. ~Has(inbox[s], "invalid")
      BY <2>2 DEF Has, OfSession
    <2>4. n \in Sockets
      <3>1. gw.wire[s] \in Seq(Handshakes) /\ gw.wire[s] # <<>>
        BY <1>1, <2>1 DEF GatewayObject, WireTable
      <3>2. Head(gw.wire[s]) \in Handshakes /\ Head(gw.wire[s]).kind = "resume"
        BY <2>1, <3>1
      <3> QED BY <3>2 DEF Handshakes
    <2> HIDE DEF n
    <2>5. CASE /\ n \in alive /\ Push(s, Frame("resumed", 0, sent[n]))
               /\ attached' = [attached EXCEPT ![s] = n]
      <3> DEFINE f == Frame("resumed", 0, sent[n])
      <3>1. f \in Frames /\ f.op = "resumed"
        <4>1. sent[n] \in 1..MaxSeq
          BY <1>1, <2>4, <2>5, NumbersOfSessions DEF TypeInv
        <4> QED BY <4>1, FramesTyped DEF Frame
      <3> HIDE DEF f
      <3>2. Fits(inbox[s], gw.sid, f)
        BY <2>2, <2>3, <3>1 DEF Fits
      <3>3. \A t \in Sockets : t # s =>
               (t \in answered' <=> t \in answered) /\ attached'[t] = attached[t]
        BY <1>1, <2>1, <2>5
      <3>4. s \in answered'
        BY <2>1
      <3> QED BY <2>1, <2>2, <2>3, <2>5, <3>1, <3>2, <3>3, <3>4, SaidFollows DEF f
    <2>6. CASE Push(s, Frame("invalid", 0, 0)) /\ attached' = attached
      <3> DEFINE f == Frame("invalid", 0, 0)
      <3>1. f \in Frames /\ f.op = "invalid"
        BY FramesTyped DEF Frame
      <3> HIDE DEF f
      <3>2. Fits(inbox[s], gw.sid, f)
        BY <3>1 DEF Fits
      <3>3. s \in answered' /\ attached'[s] = 0
        BY <2>1, <2>2, <2>6
      <3> QED BY <2>1, <2>6, <3>1, <3>2, <3>3, SaidFollows DEF f
    <2> QED BY <1>4, <2>5, <2>6 DEF AnswersResume, n
  <1>5. CASE SendsEvent(s)
    <2> DEFINE f == Frame("event", 0, sent[attached[s]] + 1)
    <2>1. /\ gw.sock[s] = "open" /\ UNCHANGED <<gw, answered, attached>>
          /\ attached[s] # 0 /\ sent[attached[s]] < MaxSeq /\ Push(s, f)
      BY <1>5 DEF SendsEvent, CanPush
    <2>2. f \in Frames /\ f.op = "event"
      <3>1. attached[s] \in Sockets
        BY <1>1, <2>1, SocketsAreTokens
      <3>2. sent[attached[s]] + 1 \in 1..MaxSeq
        BY <1>1, <2>1, <3>1, BoundAssumption DEF SequenceNumbers
      <3> QED BY <3>2, FramesTyped DEF Frame
    <2> HIDE DEF f
    <2>3. /\ gw.sid # 0 \/ Has(inbox[s], "ready")
          /\ ~Has(inbox[s], "invalid") /\ s \in answered /\ gw.wire[s] # <<>>
      BY <1>2, <2>1 DEF Conversation
    <2>4. Fits(inbox[s], gw.sid, f)
      BY <2>2, <2>3 DEF Fits
    <2> QED BY <2>1, <2>2, <2>3, <2>4, SaidFollows
  <1>6. CASE SendsControl(s)
    <2>1. PICK op \in {"beat", "ack", "reconnect", "resumable"} : Push(s, Frame(op, 0, 0))
      BY <1>6 DEF SendsControl
    <2> DEFINE f == Frame(op, 0, 0)
    <2>2. gw.sock[s] = "open" /\ UNCHANGED <<gw, answered, attached>>
      BY <1>6 DEF SendsControl, CanPush, server
    <2>3. f \in Frames /\ f.op \in {"beat", "ack", "reconnect", "resumable"}
      BY FramesTyped DEF Frame
    <2> HIDE DEF f
    <2>4. Fits(inbox[s], gw.sid, f) /\ ~OfSession(f)
      BY <2>3 DEF Fits, OfSession, Numbered
    <2>5. /\ s \in answered => gw.wire[s] # <<>>
          /\ s \notin answered => attached[s] = 0
          /\ attached[s] # 0 => /\ gw.sid # 0 \/ Has(inbox[s], "ready")
                                /\ ~Has(inbox[s], "invalid")
      BY <1>2, <2>2 DEF Conversation
    <2>6. f.op # "invalid"
      BY <2>3
    <2> QED BY <2>1, <2>2, <2>3, <2>4, <2>5, <2>6, SaidFollows DEF f
  <1>7. CASE SendsInvalid(s)
    <2> DEFINE f == Frame("invalid", 0, 0)
    <2>1. /\ gw.sock[s] = "open" /\ UNCHANGED <<gw, answered>> /\ Push(s, f)
          /\ attached[s] # 0 /\ attached' = [attached EXCEPT ![s] = 0]
      BY <1>7 DEF SendsInvalid, CanPush
    <2>2. f \in Frames /\ f.op = "invalid"
      BY FramesTyped DEF Frame
    <2> HIDE DEF f
    <2>3. s \in answered /\ gw.wire[s] # <<>>
      BY <1>2, <2>1 DEF Conversation
    <2>4. Fits(inbox[s], gw.sid, f)
      BY <2>2 DEF Fits
    <2>5. attached'[s] = 0 /\ \A t \in Sockets : t # s => attached'[t] = attached[t]
      BY <1>1, <2>1
    <2> QED BY <2>1, <2>2, <2>3, <2>4, <2>5, SaidFollows
  <1>8. CASE SessionExpires(s)
    BY <1>8 DEF SessionExpires, InTalk, Follows, SessionStep
  <1> QED BY <1>3, <1>4, <1>5, <1>6, <1>7, <1>8 DEF Discord

LEMMA StepFollows == TypeInv /\ InTalk /\ [Next]_vars => Follows
  <1> SUFFICES ASSUME TypeInv, InTalk, [Next]_vars PROVE Follows
    OBVIOUS
  <1>1. Sound(gw)
    BY DEF TypeInv, TypeOK, Sound
  <1>2. CASE Connect
    <2>1. PICK ok : gw' = ConnectGateway(gw, ok)
      BY <1>2 DEF Connect
    <2>2. Dials(gw) => gw.token < MaxSockets
      BY <1>2 DEF Connect, CanDial
    <2>3. Sound(gw') /\ Moves(gw, gw')
      BY <1>1, <2>1, <2>2, ConnectGatewaySound, ConnectGatewayMoves
    <2>4. inbox' = inbox /\ answered' = answered /\ attached' = attached
      BY <1>2 DEF Connect, server
    <2> QED BY <2>3, <2>4, MovesFollow
  <1>3. CASE Close
    <2>1. Sound(gw') /\ Moves(gw, gw')
      BY <1>1, <1>3, CloseGatewaySound, CloseGatewayMoves DEF Close
    <2>2. inbox' = inbox /\ answered' = answered /\ attached' = attached
      BY <1>3 DEF Close, server
    <2> QED BY <2>1, <2>2, MovesFollow
  <1>4. CASE Timer
    BY <1>4, TimerFollows
  <1>5. ASSUME NEW s \in Sockets,
               SocketOpens(s) \/ Deliver(s) \/ SocketCloses(s) \/ GateAnswers(s)
        PROVE  Follows
    BY <1>5, SocketOpensFollows, DeliverFollows, SocketClosesFollows,
       GateAnswersFollows
  <1>6. ASSUME NEW s \in Sockets, Discord(s) PROVE Follows
    BY <1>6, DiscordFollows
  <1>7. CASE UNCHANGED vars
    BY <1>7 DEF vars, InTalk, Follows, SessionStep
  <1> QED BY <1>2, <1>3, <1>4, <1>5, <1>6, <1>7 DEF Next

LEMMA TalkStep == TypeInv /\ InTalk /\ [Next]_vars => InTalk'
  BY StepFollows DEF Follows, InTalk

\* The session a Gateway would resume is, whatever happens to its sockets and
\* whatever its listeners do, the session ResumableSession specifies: learned
\* when there is none, with a number of its own; moved forward only while it
\* lasts; and forgotten together with its number.  It holds for every value of
\* the constants, with no assumption on the application: a READY never meets a
\* session, since the IDENTIFY it answers was written when there was none, and
\* a numbered frame never meets an object without one.
THEOREM SessionIsResumable == Spec => SessionContinuity
  <1> DEFINE IInv == TypeInv /\ InTalk
  <1>1. Init => IInv
    BY TypeInvInit, TalkStarts
  <1>2. IInv /\ [Next]_vars => IInv'
    BY TypeInvStep, TalkStep
  <1>3. Init => Session!Init
    BY DEF Init, Session!Init
  <1>4. IInv /\ [Next]_vars => [Session!Next]_<<gw.sid, gw.seq>>
    <2> SUFFICES ASSUME IInv, [Next]_vars
                 PROVE  [Session!Next]_<<gw.sid, gw.seq>>
      OBVIOUS
    <2>1. SessionStep(gw, gw') /\ IInv'
      BY <1>2, StepFollows DEF Follows
    <2>2. gw.seq \in Nat /\ gw'.seq \in Nat
      <3>1. gw \in GatewayObject /\ gw' \in GatewayObject
        BY <2>1 DEF TypeInv, TypeOK
      <3> QED BY <3>1, BoundAssumption DEF GatewayObject, SequenceNumbers
    <2>3. CASE gw'.sid = gw.sid /\ gw'.seq = gw.seq
      BY <2>3
    <2>4. CASE gw'.sid = 0 /\ gw'.seq = 0
      BY <2>4 DEF Session!Next, Session!Forget
    <2>5. CASE gw.sid = 0 /\ gw.seq = 0 /\ gw'.sid \in Sockets /\ gw'.seq > 0
      BY <2>2, <2>5 DEF Session!Next, Session!Establish
    <2>6. CASE gw.sid # 0 /\ gw'.sid = gw.sid /\ gw'.seq > gw.seq
      BY <2>2, <2>6 DEF Session!Next, Session!Advance
    <2> QED BY <2>1, <2>3, <2>4, <2>5, <2>6 DEF SessionStep
  <1> QED BY <1>1, <1>2, <1>3, <1>4, PTL DEF Spec, SessionContinuity, Session!Spec

\* A socket carries at most one IDENTIFY or RESUME, whatever the application
\* and its listeners do: a slot the gate grants is used only on the socket that
\* asked for it, which has written nothing since.
THEOREM HandshakeIsOne == Spec => []OneHandshake
  <1> DEFINE IInv == TypeInv /\ InTalk
  <1>1. Init => IInv
    BY TypeInvInit, TalkStarts
  <1>2. IInv /\ [Next]_vars => IInv'
    BY TypeInvStep, TalkStep
  <1>3. IInv => OneHandshake
    BY DEF InTalk, Talking, OneHandshake
  <1> QED BY <1>1, <1>2, <1>3, PTL DEF Spec

-----------------------------------------------------------------------------
(***************************************************************************)
(* Nobody is left waiting                                                  *)
(***************************************************************************)

\* What Inv says of promises is not inductive: that a rejected promise leaves
\* no socket to close and rearm, that a backoff is only armed when options say
\* so, and that arming lasts no longer than one callback, is part of it.
Awake(g) ==
    /\ ~g.arming
    /\ g.pending => g.auto
    /\ g.promise = "rejected" => ~g.pending /\ g.current = 0
    /\ g.promise = "pending" \/ g.state = "Reconnect" => g.pending \/ g.current # 0

\* The timers that beat measure the socket that is held, and without one
\* there are none.
Steered(g) ==
    /\ g.first \in {0, g.current} /\ g.beat \in {0, g.current}
    /\ g.ackBy \in {0, g.current}
    /\ g.current # 0 => g.current = g.token

\* A step of the object that neither takes, drops nor promises anything.
Calm(g, h) ==
    /\ h.arming = g.arming /\ h.pending = g.pending /\ h.auto = g.auto
    /\ h.promise = g.promise /\ h.current = g.current /\ h.token = g.token
    /\ h.state = g.state \/ h.state # "Reconnect"
    /\ Steered(g) => Steered(h)

LEMMA CalmTwice ==
    ASSUME NEW g, NEW h, NEW k, Calm(g, h), Calm(h, k) PROVE Calm(g, k)
  BY DEF Calm

LEMMA CalmAwake ==
    ASSUME NEW g, NEW h, Calm(g, h), Awake(g), Steered(g)
    PROVE  Awake(h) /\ Steered(h)
  BY DEF Calm, Awake

LEMMA MethodsCalm ==
    ASSUME NEW g, Sound(g)
    PROVE  /\ Calm(g, TransportClose(g))
           /\ Calm(g, ClearBeatTimers(g))
           /\ g.current # 0 => Calm(g, StartHeartbeat(g))
           /\ Calm(g, SendHeartbeat(g))
           /\ Calm(g, Acknowledge(g))
           /\ Calm(g, Invalidate(g))
           /\ \A handshake : Calm(g, Write(g, handshake))
           /\ \A next : next # "Reconnect" => Calm(g, SetState(g, next))
           /\ \A n : Calm(g, RecordSequence(g, n))
           /\ \A sid : Calm(g, HandleReady(g, sid))
           /\ Calm(g, HandleResumed(g))
  <1>1. Calm(g, TransportClose(g)) /\ Calm(g, Invalidate(g))
    BY DEF TransportClose, Invalidate, Calm, Steered, Sound, GatewayObject
  <1>2. Calm(g, ClearBeatTimers(g)) /\ (g.current # 0 => Calm(g, StartHeartbeat(g)))
    BY DEF ClearBeatTimers, StartHeartbeat, Calm, Steered, Sound, GatewayObject
  <1>3. Calm(g, SendHeartbeat(g)) /\ Calm(g, Acknowledge(g))
    BY DEF SendHeartbeat, Connected, Acknowledge, Calm, Steered, Sound, GatewayObject
  <1>4. \A handshake : Calm(g, Write(g, handshake))
    BY DEF Write, Calm, Steered, Sound, GatewayObject
  <1>5. /\ \A next : next # "Reconnect" => Calm(g, SetState(g, next))
        /\ \A n : Calm(g, RecordSequence(g, n))
    BY DEF SetState, RecordSequence, Calm, Steered, Sound, GatewayObject
  <1>6. (\A sid : Calm(g, HandleReady(g, sid))) /\ Calm(g, HandleResumed(g))
    BY DEF HandleReady, HandleResumed, SetState, Calm, Steered, Sound, GatewayObject
  <1> QED BY <1>1, <1>2, <1>3, <1>4, <1>5, <1>6

LEMMA IdentifyOrResumeCalm ==
    ASSUME NEW g, Sound(g) PROVE Calm(g, IdentifyOrResume(g))
  <1> DEFINE i == SetState(g, "Identify")
             r == SetState(g, "Resume")
             handshake == [kind |-> "resume", sid |-> g.sid, seq |-> g.seq]
             asked == [i EXCEPT !.asking = @ \cup {g.token}]
             paced == [i EXCEPT !.paced = FALSE]
  <1>1. Sound(i) /\ Calm(g, i) /\ Sound(r) /\ Calm(g, r)
    BY SetStateSound, MethodsCalm DEF States
  <1>2. IdentifyOrResume(g) \in {Write(r, handshake), asked, SendIdentify(paced)}
    BY DEF IdentifyOrResume
  <1> HIDE DEF i, r
  <1>3. Calm(g, Write(r, handshake))
    BY <1>1, MethodsCalm, CalmTwice
  <1>4. Calm(i, asked) /\ Calm(i, paced) /\ Sound(paced)
    BY <1>1 DEF Calm, Steered, Sound, OneSocket, GatewayObject
  <1> HIDE DEF asked, paced, handshake
  <1>5. Calm(paced, SendIdentify(paced))
    BY <1>4, MethodsCalm DEF SendIdentify
  <1>6. Calm(g, asked) /\ Calm(g, SendIdentify(paced))
    BY <1>1, <1>4, <1>5, CalmTwice
  <1> QED BY <1>2, <1>3, <1>6

LEMMA ApplyCalm ==
    ASSUME NEW g, Sound(g), g.current # 0, NEW f \in Frames
    PROVE  Calm(g, Apply(g, f, "nothing"))
  <1> DEFINE h == IF f.s = 0 THEN g ELSE RecordSequence(g, f.s)
             d == Announce(h, "Dispatch", "nothing")
             greeted == Announce(h, IF CanResume(h) THEN "Resume" ELSE "Hello", "nothing")
             asked == Announce(h, "Heartbeat", "nothing")
  <1>1. f.s \in SequenceNumbers
    BY BoundAssumption DEF Frames, SequenceNumbers
  <1>2. Sound(h) /\ Calm(g, h)
    <2>1. Calm(g, g)
      BY DEF Calm
    <2> QED BY <1>1, <2>1, RecordSequenceSound, MethodsCalm
  <1> HIDE DEF h
  <1>3. /\ Sound(d) /\ Calm(h, d) /\ Sound(asked) /\ Calm(h, asked)
        /\ Sound(greeted) /\ Calm(h, greeted)
    BY <1>2, SetStateSound, MethodsCalm DEF Announce, States
  <1>4. Calm(g, d) /\ Calm(g, asked) /\ Calm(g, greeted)
    BY <1>2, <1>3, CalmTwice
  <1> HIDE DEF d, asked, greeted
  <1>5. CASE f.op = "hello"
    <2> DEFINE b == StartHeartbeat(greeted)
    <2>1. greeted.current # 0
      BY <1>4 DEF Calm
    <2>2. Sound(b) /\ Calm(greeted, b)
      BY <1>3, <2>1, StartHeartbeatSound, MethodsCalm
    <2>3. Apply(g, f, "nothing") = IdentifyOrResume(b)
      BY <1>5 DEF Apply, HandleHello, greeted, h
    <2> HIDE DEF b
    <2>4. Calm(b, IdentifyOrResume(b)) /\ Calm(g, b)
      BY <1>4, <2>2, IdentifyOrResumeCalm, CalmTwice
    <2> QED BY <2>3, <2>4, CalmTwice
  <1>6. CASE f.op \in {"ready", "resumed", "event"}
    <2>1. Apply(g, f, "nothing") \in {HandleReady(d, f.sid), HandleResumed(d), d}
      BY <1>6 DEF Apply, d, h
    <2>2. Calm(g, HandleReady(d, f.sid)) /\ Calm(g, HandleResumed(d))
      BY <1>3, <1>4, MethodsCalm, CalmTwice
    <2> QED BY <1>4, <2>1, <2>2
  <1>7. CASE f.op = "beat"
    <2>1. Apply(g, f, "nothing") = SendHeartbeat(asked)
      BY <1>7 DEF Apply, asked, h
    <2> QED BY <1>3, <1>4, <2>1, MethodsCalm, CalmTwice
  <1>8. CASE f.op \in {"ack", "reconnect", "resumable"}
    <2>1. Apply(g, f, "nothing") \in {Acknowledge(h), TransportClose(h)}
      BY <1>8 DEF Apply, h
    <2> QED BY <1>2, <2>1, MethodsCalm, CalmTwice
  <1>9. CASE f.op = "invalid"
    <2> DEFINE i == Invalidate(h)
    <2>1. Apply(g, f, "nothing") = TransportClose(i)
      BY <1>9 DEF Apply, h
    <2>2. Sound(i) /\ Calm(h, i)
      BY <1>2, InvalidateSound, MethodsCalm
    <2> HIDE DEF i
    <2>3. Calm(g, i)
      BY <1>2, <2>2, CalmTwice
    <2> QED BY <2>1, <2>2, <2>3, MethodsCalm, CalmTwice
  <1>10. f.op \in {"hello", "ready", "resumed", "event", "beat", "ack",
                    "reconnect", "resumable", "invalid"}
    BY DEF Frames
  <1> QED BY <1>5, <1>6, <1>7, <1>8, <1>9, <1>10

\* A closing object: it arms a backoff, or tells whoever waits.
LEMMA ScheduleReconnectAwake ==
    ASSUME NEW g, Sound(g), ~g.closed, ~g.pending, ~g.arming, g.auto,
           g.current = 0, g.promise # "rejected", Steered(g)
    PROVE  LET h == ScheduleReconnect(g) IN Awake(h) /\ Steered(h)
  <1>1. CASE g.attempts < MaxAttempts
    <2>1. ScheduleReconnect(g) = [g EXCEPT !.attempts = g.attempts + 1, !.pending = TRUE]
      BY <1>1 DEF ScheduleReconnect
    <2> QED BY <2>1 DEF Awake, Steered, Sound, GatewayObject
  <1>2. CASE ~(g.attempts < MaxAttempts)
    <2>1. ScheduleReconnect(g) = SetState(Settle(g, "rejected"), "Connect")
      BY <1>2 DEF ScheduleReconnect
    <2> QED BY <2>1 DEF SetState, Settle, Awake, Steered, Sound, GatewayObject
  <1> QED BY <1>1, <1>2

LEMMA OpenAwake ==
    ASSUME NEW g, Sound(g), g.token < MaxSockets, ~g.closed, ~g.pending, ~g.arming,
           g.current = 0, g.promise # "rejected", Steered(g),
           g.auto \/ g.state # "Reconnect", NEW ok
    PROVE  LET h == Open(g, ok) IN Awake(h) /\ Steered(h)
  <1> DEFINE fresh == [g EXCEPT !.token = @ + 1]
             h == TransportConnect(fresh, ok)
             r == SetState(h, "Reconnect")
  <1>1. g.token + 1 \in Tokens /\ g.token + 1 # 0
    BY BoundAssumption DEF Sound, GatewayObject, Tokens
  <1>2. Sound(fresh) /\ fresh.token = g.token + 1
    BY <1>1 DEF Sound, OneSocket, GatewayObject
  <1>3. /\ ~fresh.closed /\ ~fresh.pending /\ ~fresh.arming /\ fresh.current = 0
        /\ fresh.promise = g.promise /\ fresh.auto = g.auto /\ fresh.state = g.state
        /\ fresh.first = 0 /\ fresh.beat = 0 /\ fresh.ackBy = 0
    BY DEF Steered, Sound, GatewayObject
  <1>4. Sound(h)
    BY <1>1, <1>2, TransportConnectSound
  <1>5. h = IF ok THEN [fresh EXCEPT !.current = fresh.token,
                                     !.sock[fresh.token] = "connecting"]
            ELSE [fresh EXCEPT !.sock[fresh.token] = "closed"]
    BY <1>3 DEF TransportConnect, Discard
  <1> HIDE DEF fresh, h
  <1>6. /\ ~h.closed /\ ~h.pending /\ ~h.arming /\ h.token = g.token + 1
        /\ h.promise = g.promise /\ h.auto = g.auto /\ h.state = g.state
        /\ h.first = 0 /\ h.beat = 0 /\ h.ackBy = 0
        /\ h.current = IF ok THEN h.token ELSE 0
    BY <1>2, <1>3, <1>5 DEF Sound, GatewayObject
  <1>7. CASE ok
    <2>1. Open(g, ok) = [h EXCEPT !.dial = h.token]
      BY <1>7 DEF Open, h, fresh
    <2> QED BY <1>1, <1>4, <1>6, <1>7, <2>1 DEF Awake, Steered, Sound, GatewayObject
  <1>8. CASE ~ok /\ h.auto
    <2>1. Open(g, ok) = ScheduleReconnect(r)
      BY <1>6, <1>8 DEF Open, h, fresh
    <2>2. Sound(r)
      BY <1>4, SetStateSound DEF States
    <2>3. /\ ~r.closed /\ ~r.pending /\ ~r.arming /\ r.auto
          /\ r.current = 0 /\ r.promise # "rejected" /\ Steered(r)
      BY <1>4, <1>6, <1>8 DEF SetState, Steered, Sound, GatewayObject
    <2> HIDE DEF r
    <2> QED BY <2>1, <2>2, <2>3, ScheduleReconnectAwake
  <1>9. CASE ~ok /\ ~h.auto
    <2>1. Open(g, ok) = Settle(h, "rejected")
      BY <1>6, <1>9 DEF Open, h, fresh
    <2> QED BY <1>4, <1>6, <1>9, <2>1 DEF Settle, Awake, Steered, Sound, GatewayObject
  <1> QED BY <1>7, <1>8, <1>9

LEMMA ConnectGatewayAwake ==
    ASSUME NEW g, Sound(g), Awake(g), Steered(g), Quiet(g), NEW ok,
           Dials(g) => g.token < MaxSockets /\ g.current = 0
    PROVE  LET h == ConnectGateway(g, ok) IN Awake(h) /\ Steered(h)
  <1>1. CASE ~Idle(g)
    BY <1>1 DEF ConnectGateway
  <1>2. CASE Idle(g) /\ Joins(g)
    <2>1. ConnectGateway(g, ok) = [g EXCEPT !.promise = "pending"] /\ g.pending
      BY <1>2 DEF ConnectGateway, Joins, Awake
    <2> QED BY <2>1 DEF Awake, Steered, Sound, GatewayObject
  <1>3. CASE Dials(g)
    <2> DEFINE h == SetState([g EXCEPT !.closed = FALSE, !.paced = TRUE,
                                       !.promise = "pending"], "Connect")
    <2>1. Sound(h) /\ h.token = g.token
      BY DEF Sound, OneSocket, GatewayObject, Promises, SetState, States
    <2>2. /\ ~h.closed /\ ~h.pending /\ ~h.arming /\ h.current = 0
          /\ h.promise # "rejected" /\ h.state # "Reconnect" /\ Steered(h)
      BY <1>3 DEF SetState, Dials, Joins, Steered, Sound, GatewayObject
    <2>3. ConnectGateway(g, ok) = Open(h, ok)
      BY <1>3 DEF ConnectGateway, Dials
    <2> HIDE DEF h
    <2> QED BY <1>3, <2>1, <2>2, <2>3, OpenAwake
  <1> QED BY <1>1, <1>2, <1>3 DEF Dials

LEMMA CloseGatewayAwake ==
    ASSUME NEW g, Sound(g)
    PROVE  LET c == CloseGateway(g)
           IN  /\ c.promise # "pending" /\ c.arming = g.arming /\ c.auto = g.auto
               /\ ~g.arming => Awake(c) /\ Steered(c)
  <1> DEFINE h == Settle(ClearTimers([g EXCEPT !.closed = TRUE]), "rejected")
             d == Discard(h)
             c == CloseGateway(g)
  <1>1. Sound(h)
    BY ClosingSound, ClearTimersSound, SettleSound DEF Promises
  <1>2. h.promise # "pending" /\ h.arming = g.arming /\ h.auto = g.auto
    BY DEF Settle, ClearTimers, StopHeartbeat, ClearBeatTimers, Sound, GatewayObject
  <1>3. c = SetState(d, "Closed")
    BY DEF CloseGateway
  <1> HIDE DEF h
  <1>4. Sound(d) /\ d.promise # "pending" /\ d.arming = g.arming /\ d.auto = g.auto
    BY <1>1, <1>2, DiscardSound DEF Discard, Sound, GatewayObject
  <1> HIDE DEF d
  <1>5. c.promise # "pending" /\ c.arming = g.arming /\ c.auto = g.auto
    BY <1>3, <1>4 DEF SetState, Sound, GatewayObject
  <1>6. Still(c) /\ c.state = "Closed"
    BY CloseGatewayStill
  <1> HIDE DEF c
  <1> QED BY <1>5, <1>6 DEF Awake, Steered, Still, c

\* What a listener of the close event leaves to the rest of the handler.
LEMMA ReactAwake ==
    ASSUME NEW g, Sound(g), g.promise # "rejected", NEW reaction, NEW ok,
           reaction = "connect" => g.arming
    PROVE  LET h == React(g, reaction, ok)
           IN  h.auto = g.auto /\ (~h.closed => h.promise # "rejected")
  <1>1. CASE reaction = "connect"
    <2>1. Joins(g)
      BY <1>1 DEF Joins
    <2> QED BY <1>1, <2>1 DEF React, ConnectGateway, Sound, GatewayObject
  <1>2. CASE reaction = "close"
    BY <1>2, CloseGatewayStill, CloseGatewayAwake DEF React
  <1>3. CASE reaction \notin {"connect", "close"}
    BY <1>3 DEF React
  <1> QED BY <1>1, <1>2, <1>3

LEMMA HandleCloseAwake ==
    ASSUME NEW g, Sound(g), Awake(g), NEW s \in Sockets, s = g.current,
           NEW kind, NEW reaction, NEW ok, reaction = "connect" => Arms(g, kind)
    PROVE  LET h == HandleClose(g, s, kind, reaction, ok) IN Awake(h) /\ Steered(h)
  <1> DEFINE g1 == [g EXCEPT !.current = 0, !.sock[s] = "closed"]
             gone == ClearTimers(g1)
             action == ClassifyClose(kind, CanResume(gone))
             g2 == [gone EXCEPT !.arming = Arms(gone, kind)]
             g3 == React(g2, reaction, ok)
             told == [g3 EXCEPT !.arming = FALSE]
             over == told.closed \/ action = "stop"
             last == IF action = "identify" THEN Invalidate(told) ELSE told
             end == HandleClose(g, s, kind, reaction, ok)
  <1>1. Sound(g1) /\ g1.current = 0
    BY GoneSound
  <1>2. /\ g1.auto = g.auto /\ g1.closed = g.closed
        /\ g1.sid = g.sid /\ g1.seq = g.seq /\ g1.promise = g.promise
    BY DEF Sound, GatewayObject
  <1>3. g.promise # "rejected"
    BY SocketsAreTokens DEF Awake
  <1> HIDE DEF g1
  <1>4. Sound(gone) /\ Still(gone)
    BY <1>1, ClearTimersSound, ClearTimersStops DEF Still
  <1>5. /\ gone.auto = g.auto /\ gone.closed = g.closed
        /\ gone.sid = g.sid /\ gone.seq = g.seq
    BY <1>1, <1>2, ClearTimersStops
  <1>6. gone.promise # "rejected"
    BY <1>1, <1>2, <1>3
       DEF ClearTimers, StopHeartbeat, ClearBeatTimers, Sound, GatewayObject
  <1> HIDE DEF gone
  <1>7. Arms(gone, kind) = Arms(g, kind) /\ Arms(gone, kind) \in BOOLEAN
    BY <1>5 DEF Arms, CanResume
  <1>8. /\ Sound(g2) /\ Still(g2) /\ g2.arming = Arms(g, kind)
        /\ g2.auto = g.auto /\ g2.promise # "rejected"
    BY <1>4, <1>5, <1>6, <1>7 DEF Still, Sound, OneSocket, GatewayObject
  <1> HIDE DEF g2
  <1>9. Sound(g3) /\ Still(g3)
    BY <1>8, ReactStill
  <1>10. g3.auto = g.auto /\ (~g3.closed => g3.promise # "rejected")
    BY <1>8, ReactAwake
  <1> HIDE DEF g3
  <1>11. Sound(told) /\ Still(told)
    BY <1>9 DEF Still, Sound, OneSocket, GatewayObject
  <1>12. /\ told.auto = g.auto /\ ~told.arming
         /\ ~told.closed => told.promise # "rejected"
    BY <1>9, <1>10 DEF Sound, GatewayObject
  <1>13. over \in BOOLEAN
    BY <1>11 DEF Sound, GatewayObject
  <1>14. end = IF over \/ ~g.auto
               THEN Settle(SetState([told EXCEPT !.closed = over],
                                    IF over THEN "Closed" ELSE "Connect"), "rejected")
               ELSE ScheduleReconnect(SetState(last, "Reconnect"))
    BY DEF HandleClose, g1, gone, g2, g3
  <1>15. over = (told.closed \/ action = "stop")
    OBVIOUS
  <1> HIDE DEF told, over, end, action
  <1>16. CASE over \/ ~g.auto
    <2> DEFINE t == [told EXCEPT !.closed = over]
               next == IF over THEN "Closed" ELSE "Connect"
               e == SetState(t, next)
    <2>1. t \in GatewayObject /\ Still(t) /\ ~t.arming
      BY <1>11, <1>12, <1>13 DEF Still, Sound, GatewayObject
    <2>2. next # "Reconnect" /\ end = Settle(e, "rejected")
      BY <1>14, <1>16
    <2>3. next \in States
      BY DEF States
    <2> HIDE DEF t, next
    <2>4. Still(e) /\ ~e.arming /\ e.state = next /\ e \in GatewayObject
      BY <2>1, <2>3 DEF SetState, Still, GatewayObject
    <2> HIDE DEF e
    <2>5. Awake(end) /\ Steered(end)
      BY <2>2, <2>4 DEF Settle, Awake, Steered, Still, GatewayObject
    <2> QED BY <2>5 DEF end
  <1>17. CASE ~(over \/ ~g.auto)
    <2> DEFINE e == SetState(last, "Reconnect")
    <2>1. Sound(last) /\ Still(last) /\ last.closed = told.closed
          /\ last.auto = told.auto /\ last.arming = told.arming
          /\ last.promise = told.promise
      BY <1>11, InvalidateSound DEF Invalidate, Still, Sound, GatewayObject
    <2>2. end = ScheduleReconnect(e)
      BY <1>14, <1>17
    <2> HIDE DEF last
    <2>3. Sound(e)
      BY <2>1, SetStateSound DEF States
    <2>4. /\ ~e.closed /\ ~e.pending /\ ~e.arming /\ e.auto /\ e.current = 0
          /\ e.promise # "rejected" /\ Steered(e)
      BY <1>12, <1>15, <1>17, <2>1 DEF SetState, Still, Steered, Sound, GatewayObject
    <2> HIDE DEF e
    <2>5. Awake(end) /\ Steered(end)
      BY <2>2, <2>3, <2>4, ScheduleReconnectAwake
    <2> QED BY <2>5 DEF end
  <1> QED BY <1>16, <1>17

\* What a step needs of the object, beyond its type.
Steady(g) == Backed(g) /\ Quiet(g) /\ Awake(g) /\ Steered(g)

LEMMA TimerSteady ==
    ASSUME TypeInv, Steady(gw), Timer PROVE Awake(gw') /\ Steered(gw')
  <1>1. Sound(gw) /\ Awake(gw) /\ Steered(gw) /\ Backed(gw) /\ Quiet(gw)
    BY DEF TypeInv, TypeOK, Sound, Steady
  <1>2. CASE ReconnectTimer
    <2> DEFINE g == [gw EXCEPT !.pending = FALSE]
    <2>1. gw.pending /\ gw.token < MaxSockets
      BY <1>2 DEF ReconnectTimer, CanDial
    <2>2. ~gw.closed /\ gw.auto /\ gw.current = 0 /\ gw.promise # "rejected" /\ ~gw.arming
      BY <1>1, <2>1 DEF Quiet, Still, Backed, Awake
    <2>3. Sound(g)
      BY <1>1 DEF Sound, OneSocket, GatewayObject
    <2>4. /\ g.token < MaxSockets /\ ~g.closed /\ ~g.pending /\ ~g.arming
          /\ g.current = 0 /\ g.promise # "rejected" /\ g.auto /\ Steered(g)
      BY <1>1, <2>1, <2>2 DEF Steered, Sound, GatewayObject
    <2> HIDE DEF g
    <2>5. PICK ok : gw' = Open(g, ok)
      BY <1>2 DEF ReconnectTimer, g
    <2> QED BY <2>3, <2>4, <2>5, OpenAwake
  <1>3. ASSUME Calm(gw, gw') PROVE Awake(gw') /\ Steered(gw')
    BY <1>1, <1>3, CalmAwake
  <1>4. CASE ConnectTimer
    <2> DEFINE g == [gw EXCEPT !.dial = 0]
    <2>1. Sound(g)
      BY <1>1, Zeroes DEF Sound, OneSocket, GatewayObject
    <2>2. Calm(gw, g)
      BY <1>1 DEF Calm, Steered, Sound, GatewayObject
    <2> HIDE DEF g
    <2>3. gw' \in {g, TransportClose(g)}
      BY <1>4 DEF ConnectTimer, g
    <2>4. Calm(gw, TransportClose(g))
      BY <2>1, <2>2, MethodsCalm, CalmTwice
    <2> QED BY <1>3, <2>2, <2>3, <2>4
  <1>5. CASE FirstBeat
    <2> DEFINE g == SendHeartbeat(gw)
    <2>1. Sound(g) /\ Calm(gw, g) /\ gw.first \in {0, gw.current}
      BY <1>1, SendHeartbeatSound, MethodsCalm DEF Steered
    <2>2. Steered(g) /\ g.current = gw.current
      BY <1>1, <2>1 DEF Calm
    <2> HIDE DEF g
    <2>3. gw' = [g EXCEPT !.beat = gw.first, !.first = 0]
      BY <1>5 DEF FirstBeat, g
    <2>4. Calm(g, gw')
      BY <2>1, <2>2, <2>3 DEF Calm, Steered, Sound, GatewayObject
    <2> QED BY <1>3, <2>1, <2>4, CalmTwice
  <1>6. CASE ScheduledBeat
    <2> DEFINE g == ClearBeatTimers(gw)
    <2>1. Sound(g) /\ Calm(gw, g) /\ Calm(gw, SendHeartbeat(gw))
      BY <1>1, ClearBeatTimersSound, MethodsCalm
    <2> HIDE DEF g
    <2>2. gw' \in {TransportClose(g), SendHeartbeat(gw)}
      BY <1>6 DEF ScheduledBeat, g
    <2>3. Calm(gw, TransportClose(g))
      BY <2>1, MethodsCalm, CalmTwice
    <2> QED BY <1>3, <2>1, <2>2, <2>3
  <1>7. CASE AckTimeout
    <2> DEFINE g == [gw EXCEPT !.ackBy = 0]
    <2>1. Sound(g)
      BY <1>1, Zeroes DEF Sound, OneSocket, GatewayObject
    <2>2. Calm(gw, g)
      BY <1>1 DEF Calm, Steered, Sound, GatewayObject
    <2> HIDE DEF g
    <2>3. gw' = TransportClose(g)
      BY <1>7 DEF AckTimeout, g
    <2> QED BY <1>3, <2>1, <2>2, <2>3, MethodsCalm, CalmTwice
  <1>8. CASE ZombieTimeout
    BY <1>1, <1>3, <1>8, MethodsCalm DEF ZombieTimeout
  <1> QED BY <1>2, <1>4, <1>5, <1>6, <1>7, <1>8 DEF Timer

LEMMA SocketOpensSteady ==
    ASSUME TypeInv, Steady(gw), NEW s \in Sockets, SocketOpens(s)
    PROVE  Awake(gw') /\ Steered(gw')
  <1> DEFINE g == [gw EXCEPT !.sock[s] = "open"]
             up == [g EXCEPT !.dial = 0, !.watch = TRUE]
  <1>1. /\ Sound(gw) /\ Awake(gw) /\ Steered(gw) /\ gw.current = s /\ s # 0
        /\ gw.sock[s] = "connecting"
    BY SocketsAreTokens
       DEF TypeInv, TypeOK, Sound, OneSocket, SocketOpens, Steady
  <1>2. /\ g.arming = gw.arming /\ g.pending = gw.pending /\ g.auto = gw.auto
        /\ g.promise = gw.promise /\ g.current = s /\ g.token = gw.token
        /\ g.first = gw.first /\ g.beat = gw.beat /\ g.ackBy = gw.ackBy
        /\ g \in GatewayObject
    <2>1. [gw.sock EXCEPT ![s] = "open"] \in SocketTable
      BY <1>1 DEF Sound, GatewayObject, SocketTable, SocketStates
    <2> QED BY <1>1, <2>1 DEF Sound, GatewayObject
  <1>3. gw' = Settle(up, "fulfilled")
    BY <1>2 DEF SocketOpens, Owns
  <1> HIDE DEF g
  <1>4. up \in GatewayObject
    BY <1>2, Zeroes DEF GatewayObject
  <1>5. /\ up.arming = gw.arming /\ up.pending = gw.pending /\ up.auto = gw.auto
        /\ up.promise = gw.promise /\ up.current = s /\ up.token = gw.token
        /\ up.first = gw.first /\ up.beat = gw.beat /\ up.ackBy = gw.ackBy
    BY <1>2 DEF GatewayObject
  <1> HIDE DEF up
  <1> QED BY <1>1, <1>3, <1>4, <1>5 DEF Settle, Awake, Steered, GatewayObject

LEMMA GateAnswersSteady ==
    ASSUME TypeInv, Steady(gw), NEW t \in Sockets, GateAnswers(t)
    PROVE  Awake(gw') /\ Steered(gw')
  <1> DEFINE g == [gw EXCEPT !.asking = gw.asking \ {t}]
  <1>1. Sound(gw)
    BY DEF TypeInv, TypeOK, Sound
  <1>2. Sound(g)
    <2>1. gw.asking \ {t} \in TokenSets
      BY <1>1 DEF Sound, GatewayObject, TokenSets
    <2> QED BY <1>1, <2>1 DEF Sound, OneSocket, GatewayObject
  <1>3. Calm(gw, g)
    BY <1>1 DEF Calm, Steered, Sound, GatewayObject
  <1> HIDE DEF g
  <1>4. gw' \in {g, SendIdentify(g), TransportClose(g)}
    BY DEF GateAnswers, g
  <1>5. Calm(gw, SendIdentify(g)) /\ Calm(gw, TransportClose(g))
    BY <1>2, <1>3, MethodsCalm, CalmTwice DEF SendIdentify
  <1> QED BY <1>3, <1>4, <1>5, CalmAwake DEF Steady

LEMMA StepSteady ==
    ASSUME ~RedialsUnarmed, ~DialsWhileClosing, OnState \subseteq {"nothing"}
    PROVE  TypeInv /\ Steady(gw) /\ [Next]_vars => Steady(gw')
  <1> SUFFICES ASSUME TypeInv, Steady(gw), [Next]_vars PROVE Awake(gw') /\ Steered(gw')
    <2>1. TypeInv /\ Steady(gw) /\ [Next]_vars => Backed(gw') /\ Quiet(gw')
      BY StepKept DEF Kept, Steady
    <2> QED BY <2>1 DEF Steady
  <1>1. Sound(gw) /\ Awake(gw) /\ Steered(gw) /\ Quiet(gw)
    BY DEF TypeInv, TypeOK, Sound, Steady
  <1>2. CASE Connect
    <2>1. PICK ok : gw' = ConnectGateway(gw, ok)
      BY <1>2 DEF Connect
    <2>2. Dials(gw) => gw.token < MaxSockets /\ gw.current = 0
      BY <1>2 DEF Connect, CanDial, Dials, Idle
    <2> QED BY <1>1, <2>1, <2>2, ConnectGatewayAwake
  <1>3. CASE Close
    <2>1. ~gw.arming
      BY <1>1 DEF Awake
    <2> QED BY <1>1, <1>3, <2>1, CloseGatewayAwake DEF Close
  <1>4. CASE Timer
    BY <1>4, TimerSteady
  <1>5. ASSUME NEW s \in Sockets, SocketOpens(s) \/ GateAnswers(s)
        PROVE  Awake(gw') /\ Steered(gw')
    BY <1>5, SocketOpensSteady, GateAnswersSteady
  <1>6. ASSUME NEW s \in Sockets, Deliver(s) PROVE Awake(gw') /\ Steered(gw')
    <2>1. CASE Owns(gw, s)
      <3>1. Head(inbox[s]) \in Frames
        <4>1. inbox[s] # <<>> /\ inbox[s] \in Seq(Frames)
          BY <1>6 DEF TypeInv, TypeOK, Deliver
        <4> QED BY <4>1
      <3>2. gw' = Apply(gw, Head(inbox[s]), "nothing")
        BY <1>6, <2>1 DEF Deliver
      <3>3. gw.current # 0
        BY <2>1, SocketsAreTokens DEF Owns
      <3>4. Calm(gw, gw')
        BY <1>1, <3>1, <3>2, <3>3, ApplyCalm
      <3> QED BY <1>1, <3>4, CalmAwake
    <2>2. CASE ~Owns(gw, s)
      BY <1>1, <1>6, <2>2 DEF Deliver
    <2> QED BY <2>1, <2>2
  <1>7. ASSUME NEW s \in Sockets, SocketCloses(s) PROVE Awake(gw') /\ Steered(gw')
    <2>1. CASE Owns(gw, s)
      <3>1. PICK kind \in CloseKinds, reaction \in OnClose, ok \in {TRUE, ~DialMayFail} :
                /\ reaction = "connect" => Arms(gw, kind)
                /\ gw' = HandleClose(gw, s, kind, reaction, ok)
        BY <1>7, <2>1 DEF SocketCloses
      <3> QED BY <1>1, <2>1, <3>1, HandleCloseAwake DEF Owns
    <2>2. CASE ~Owns(gw, s)
      <3>1. gw' = [gw EXCEPT !.sock[s] = "closed"]
        BY <1>7, <2>2 DEF SocketCloses
      <3>2. Calm(gw, gw')
        BY <1>1, <3>1 DEF Calm, Steered, Sound, GatewayObject
      <3> QED BY <1>1, <3>2, CalmAwake
    <2> QED BY <2>1, <2>2
  <1>8. ASSUME NEW s \in Sockets, Discord(s) PROVE Awake(gw') /\ Steered(gw')
    <2>1. gw' = gw
      BY <1>8 DEF Discord, AnswersIdentify, AnswersResume, SendsEvent, SendsControl,
                  SendsInvalid, SessionExpires
    <2> QED BY <1>1, <2>1
  <1>9. CASE UNCHANGED vars
    BY <1>1, <1>9 DEF vars
  <1> QED BY <1>2, <1>3, <1>4, <1>5, <1>6, <1>7, <1>8, <1>9 DEF Next

LEMMA StartsSteady == Init => Steady(gw)
  <1>1. Init => Backed(gw) /\ Quiet(gw)
    BY StartsQuiet
  <1>2. Init => Awake(gw) /\ Steered(gw)
    BY DEF Init, Awake, Steered
  <1> QED BY <1>1, <1>2 DEF Steady

\* A connection sends one handshake, also when its IDENTIFY had to wait for a
\* slot while connections were replaced; its beat timers never measure another
\* socket; a promise in flight has a socket or a backoff that will settle it;
\* and a rejected one leaves nothing under way.  Assumed of the application: it
\* does not redial from a "close" listener when no reconnect follows, nor while
\* its socket is still closing, nor close from a listener in the middle of a
\* frame: README names the behaviour of the code that each of these avoids.
THEOREM InvHolds ==
    ASSUME ~RedialsUnarmed, ~DialsWhileClosing, OnState \subseteq {"nothing"}
    PROVE  Spec => []Inv
  <1> DEFINE IInv == TypeInv /\ InTalk /\ Steady(gw)
  <1>1. Init => IInv
    BY TypeInvInit, TalkStarts, StartsSteady
  <1>2. IInv /\ [Next]_vars => IInv'
    <2>1. IInv /\ [Next]_vars => TypeInv' /\ InTalk'
      BY TypeInvStep, TalkStep
    <2>2. IInv /\ [Next]_vars => Steady(gw')
      BY StepSteady
    <2>3. Steady(gw)' <=> Steady(gw')
      BY DEF Steady, Backed, Quiet, Still, Awake, Steered
    <2> QED BY <2>1, <2>2, <2>3
  <1>3. IInv => Inv
    <2> SUFFICES ASSUME IInv PROVE Inv
      OBVIOUS
    <2>1. TypeOK
      BY DEF TypeInv
    <2>2. OneHandshake
      BY DEF InTalk, Talking, OneHandshake
    <2>3. NobodyWaitsForNothing
      BY DEF Steady, Awake, NobodyWaitsForNothing
    <2>4. RejectedMeansIdle
      BY DEF Steady, Awake, RejectedMeansIdle, Live
    <2>5. BeatsOwnSocket
      BY DEF Steady, Steered, BeatsOwnSocket
    <2> QED BY <2>1, <2>2, <2>3, <2>4, <2>5 DEF Inv
  <1> QED BY <1>1, <1>2, <1>3, PTL DEF Spec

-----------------------------------------------------------------------------
(***************************************************************************)
(* The receiving side of a compressed connection (CompressedTransport)     *)
(***************************************************************************)

\* How many messages of socket c have left its chain.
Taken(c) == Len(stream[c]) - Len(queue[c])

\* The messages of the socket the transport holds.
Mine == {m \in Messages : m[1] = current}

\* A socket that is not dialled yet has heard nothing.
Undialled ==
    \A c \in TransportSockets :
        c > dialled => stream[c] = <<>> /\ queue[c] = <<>> /\ delivered[c] = <<>>

\* A chain holds the messages of its socket that were not handed on, in order.
Chained ==
    \A c \in TransportSockets :
        /\ Len(stream[c]) <= MaxMessages /\ Len(queue[c]) <= Len(stream[c])
        /\ \A k \in 1..Len(queue[c]) : queue[c][k] = <<c, Taken(c) + k>>

\* What has not arrived has not been pushed.
Unsent == \A m \in Messages \ Arrived : phase[m] = "none" /\ result[m] = <<>>

\* An inflater that was closed calls back for a message of an earlier socket.
Outdated ==
    \A o \in orphans : o[1] \in Arrived /\ o[1][1] # current /\ o[1][1] <= dialled

Wired ==
    TransportTypeOK /\ current <= dialled /\ Undialled /\ Chained /\ Unsent /\ Outdated

\* The order of two operations in the inflater's queue: writes in the order of
\* arrival, flushes likewise, and a flush is of an earlier message than a write.
Before(p, q) ==
    IF p[2] = q[2] \/ p[2] = "flush" THEN p[1][2] < q[1][2] ELSE q[1][2] < p[1][2]

\* The inflater's queue holds what pushes of the current socket wait for, in
\* order.
Queued ==
    \A k \in 1..Len(ops) :
        /\ ops[k][1] \in Mine \cap Arrived
        /\ phase[ops[k][1]] = ops[k][2] \/ (failure /\ phase[ops[k][1]] = "rejected")
        /\ \A j \in 1..(k - 1) : Before(ops[j], ops[k])

\* The push() that an error would reject has an operation in the queue.
WaiterQueued == waiter # None => \E k \in 1..Len(ops) : ops[k][1] = waiter

\* Only a failure rejects, and until then every push() that is not settled has
\* an operation in the queue.
AllQueued ==
    /\ \A m \in Mine : phase[m] = "rejected" => failure
    /\ ~failure => \A m \in Mine \cap Arrived :
           phase[m] = "resolved" \/ \E k \in 1..Len(ops) : ops[k] = <<m, phase[m]>>

\* Without a socket the decoder is as new.
AsNew == current = 0 => ops = <<>> /\ ~closing /\ chunks = <<>> /\ ~failure

Lined == Queued /\ WaiterQueued /\ AllQueued /\ AsNew

\* Bytes are only taken when everything before them is settled.
TakenInTurn ==
    \A m \in Mine : result[m] # <<>> =>
        \A n \in Mine : n[2] <= m[2] => phase[n] = "resolved"

\* What left the chain is settled.
HandedSettled ==
    \A m \in Mine : m[2] <= Taken(current) => phase[m] \in {"resolved", "rejected"}

\* Behind the failure that closed a socket nothing waits to be handed on.
NothingBehind ==
    closing => failure /\ \A m \in Mine : m[2] > Taken(current) => result[m] = <<>>

Settled == TakenInTurn /\ HandedSettled /\ NothingBehind

LEMMA MessagesArePairs ==
    /\ \A m \in Messages : m[1] \in TransportSockets /\ m[2] \in 1..MaxMessages
                           /\ m = <<m[1], m[2]>>
    /\ \A c \in TransportSockets : \A i \in 1..MaxMessages : <<c, i>> \in Messages
    /\ None \notin Messages
  BY CompressedAssumption DEF Messages, TransportSockets, None

LEMMA ListTail ==
    ASSUME NEW S, NEW q \in Seq(S), q # <<>>
    PROVE  /\ Tail(q) \in Seq(S) /\ Head(q) \in S
           /\ Len(q) \in Nat /\ Len(q) >= 1 /\ Len(Tail(q)) = Len(q) - 1
           /\ Head(q) = q[1] /\ 1 \in 1..Len(q)
           /\ \A k \in 1..Len(Tail(q)) : Tail(q)[k] = q[k + 1] /\ k + 1 \in 1..Len(q)
           /\ \A k \in 2..Len(q) : k - 1 \in 1..Len(Tail(q)) /\ Tail(q)[k - 1] = q[k]
  OBVIOUS

LEMMA ListAppend ==
    ASSUME NEW S, NEW q \in Seq(S), NEW e \in S
    PROVE  LET a == Append(q, e)
           IN  /\ a \in Seq(S) /\ Len(q) \in Nat /\ Len(a) = Len(q) + 1
               /\ a[Len(q) + 1] = e /\ Len(q) + 1 \in 1..Len(a)
               /\ \A k \in 1..Len(q) : a[k] = q[k] /\ k \in 1..Len(a)
               /\ \A k \in 1..Len(a) : k \in 1..Len(q) \/ k = Len(q) + 1
  OBVIOUS

\* A socket on which every message has arrived has no room for another.
LEMMA Room ==
    ASSUME Wired, current # 0, Cardinality(Arrived) < MaxMessages
    PROVE  Len(stream[current]) < MaxMessages
  <1> DEFINE all == {<<current, i>> : i \in 1..MaxMessages}
  <1>1. current \in TransportSockets /\ Len(stream[current]) \in Nat /\ MaxMessages \in Nat
    BY CompressedAssumption DEF Wired, TransportTypeOK, TransportSockets
  <1>2. SUFFICES ASSUME Len(stream[current]) >= MaxMessages PROVE FALSE
    BY <1>1
  <1>3. all \subseteq Arrived
    BY <1>1, <1>2, MessagesArePairs DEF Arrived
  <1>4. IsFiniteSet(Arrived)
    <2>1. IsFiniteSet(TransportSockets) /\ IsFiniteSet(1..MaxMessages)
      BY CompressedAssumption, FS_Interval DEF TransportSockets
    <2>2. IsFiniteSet(Messages)
      BY <2>1, FS_Product DEF Messages
    <2> QED BY <2>2, FS_Subset DEF Arrived
  <1>5. Cardinality(all) = MaxMessages
    <2> DEFINE f == [i \in 1..MaxMessages |-> <<current, i>>]
    <2>1. IsFiniteSet(1..MaxMessages) /\ Cardinality(1..MaxMessages) = MaxMessages
      BY CompressedAssumption, FS_Interval
    <2>2. f \in Bijection(1..MaxMessages, all)
      BY DEF Bijection, Injection, Surjection, IsInjective
    <2> HIDE DEF f, all
    <2> QED BY <2>1, <2>2, FS_Bijection DEF ExistsBijection
  <1>6. IsFiniteSet(all) /\ Cardinality(all) <= Cardinality(Arrived)
    <2> HIDE DEF all
    <2> QED BY <1>3, <1>4, FS_Subset
  <1>7. Cardinality(Arrived) \in Nat
    BY <1>4, FS_CardinalityType
  <1> QED BY <1>1, <1>5, <1>6, <1>7

\* What the invariant says of the current socket, one fact at a time.
LEMMA CurrentFacts ==
    ASSUME Wired, current # 0
    PROVE  /\ current \in TransportSockets
           /\ Len(stream[current]) \in 0..MaxMessages /\ Len(queue[current]) \in Nat
           /\ Taken(current) \in 0..Len(stream[current])
           /\ \A m \in Mine : /\ m[1] = current /\ m[2] \in 1..MaxMessages
                              /\ m = <<current, m[2]>> /\ m \in Messages
                              /\ (m \in Arrived <=> m[2] <= Len(stream[current]))
           /\ \A i \in 1..MaxMessages : <<current, i>> \in Mine
  <1>1. current \in TransportSockets
    BY CompressedAssumption DEF Wired, TransportTypeOK, TransportSockets
  <1>2. /\ stream \in [TransportSockets -> Seq(Kinds)]
        /\ queue \in [TransportSockets -> Seq(Messages)]
    BY <1>1 DEF Wired, TransportTypeOK
  <1>3. /\ Len(stream[current]) \in Nat /\ Len(queue[current]) \in Nat /\ MaxMessages \in Nat
        /\ Len(stream[current]) <= MaxMessages /\ Len(queue[current]) <= Len(stream[current])
    BY <1>1, <1>2, CompressedAssumption DEF Wired, Chained
  <1>4. Taken(current) \in 0..Len(stream[current])
    BY <1>1, <1>2, <1>3 DEF Taken
  <1>5. \A m \in Mine : /\ m[1] = current /\ m[2] \in 1..MaxMessages
                        /\ m = <<current, m[2]>> /\ m \in Messages
    BY MessagesArePairs DEF Mine
  <1>6. \A m \in Mine : m \in Arrived <=> m[2] <= Len(stream[current])
    BY <1>5 DEF Arrived
  <1>7. \A i \in 1..MaxMessages : <<current, i>> \in Mine
    BY <1>1, MessagesArePairs DEF Mine
  <1> QED BY <1>1, <1>3, <1>4, <1>5, <1>6, <1>7

\* The operations in the inflater's queue.
LEMMA OpsFacts ==
    ASSUME Wired, Lined
    PROVE  /\ Len(ops) \in Nat
           /\ \A k \in 1..Len(ops) :
                 /\ ops[k] \in Operations /\ ops[k] = <<ops[k][1], ops[k][2]>>
                 /\ ops[k][1] \in Messages /\ ops[k][2] \in {"write", "flush"}
                 /\ ops[k][1] \in Mine /\ ops[k][1] \in Arrived
                 /\ ops[k][1][2] \in Nat
  <1>1. ops \in Seq(Operations) /\ Len(ops) \in Nat
    BY DEF Wired, TransportTypeOK
  <1>2. \A k \in 1..Len(ops) : ops[k] \in Operations
    BY <1>1
  <1>3. \A p \in Operations : p = <<p[1], p[2]>> /\ p[1] \in Messages /\ p[2] \in {"write", "flush"}
    BY DEF Operations
  <1>4. \A m \in Messages : m[2] \in Nat
    BY MessagesArePairs, CompressedAssumption
  <1> QED BY <1>1, <1>2, <1>3, <1>4 DEF Lined, Queued

LEMMA NoList == \A S : <<>> \in Seq(S) /\ Len(<<>>) = 0
  OBVIOUS

LEMMA OpsDiffer ==
    ASSUME Wired, Lined, NEW j \in 1..Len(ops), NEW k \in 1..Len(ops), j # k
    PROVE  ops[j][1] # ops[k][1]
  <1>1. j < k \/ k < j
    BY OpsFacts
  <1>2. ops[j][1][2] \in Nat /\ ops[k][1][2] \in Nat
    BY OpsFacts
  <1>3. Before(ops[j], ops[k]) \/ Before(ops[k], ops[j])
    BY <1>1, OpsFacts DEF Lined, Queued
  <1> QED BY <1>2, <1>3 DEF Before

LEMMA StartsWired == TransportInit => Wired /\ Lined /\ Settled
  <1> SUFFICES ASSUME TransportInit PROVE Wired /\ Lined /\ Settled
    OBVIOUS
  <1>1. closing \in BOOLEAN /\ failure \in BOOLEAN
    BY DEF TransportInit
  <1>2. TransportTypeOK
    BY <1>1, CompressedAssumption, NoList DEF TransportInit, TransportTypeOK, Phases
  <1>3. Arrived = {} /\ Mine = {}
    BY MessagesArePairs DEF TransportInit, Arrived, Mine, TransportSockets
  <1>4. Undialled /\ Chained /\ Unsent /\ Outdated
    BY CompressedAssumption DEF TransportInit, Undialled, Chained, Unsent, Outdated
  <1>5. ops = <<>> /\ current = 0 /\ dialled = 0 /\ waiter = None /\ chunks = <<>> /\ ~failure /\ ~closing
    BY DEF TransportInit
  <1>6. Wired
    BY <1>2, <1>4, <1>5 DEF Wired
  <1>7. Lined
    BY <1>3, <1>5 DEF Lined, Queued, WaiterQueued, AllQueued, AsNew
  <1>8. Settled
    BY <1>3, <1>5 DEF Settled, TakenInTurn, HandedSettled, NothingBehind
  <1> QED BY <1>6, <1>7, <1>8

\* A reset leaves the operation in flight to an inflater that is closed.
LEMMA ResetOrphans ==
    ASSUME Wired, Lined, Reset
    PROVE  /\ orphans' \in SUBSET Operations
           /\ \A o \in orphans' : o \in orphans \/ (current # 0 /\ o[1] \in Mine /\ o[1] \in Arrived)
  <1>1. CASE ops = <<>>
    BY <1>1 DEF Reset, Wired, TransportTypeOK
  <1>2. CASE ops # <<>>
    <2>1. Head(ops) = ops[1] /\ 1 \in 1..Len(ops)
      BY <1>2, ListTail DEF Wired, TransportTypeOK
    <2>2. orphans' = orphans \cup {Head(ops)}
      BY <1>2 DEF Reset
    <2>3. current # 0
      BY <1>2 DEF Lined, AsNew
    <2> QED BY <2>1, <2>2, <2>3, OpsFacts DEF Wired, TransportTypeOK
  <1> QED BY <1>1, <1>2

LEMMA ConnectKeeps ==
    ASSUME Wired, Lined, Settled, ConnectTransport
    PROVE  Wired' /\ Lined' /\ Settled'
  <1>1. /\ orphans' \in SUBSET Operations
        /\ \A o \in orphans' : o \in orphans \/ (current # 0 /\ o[1] \in Mine /\ o[1] \in Arrived)
    BY ResetOrphans DEF ConnectTransport
  <1>2. /\ dialled' = dialled + 1 /\ current' = dialled + 1
        /\ ops' = <<>> /\ waiter' = None /\ chunks' = <<>>
        /\ UNCHANGED <<stream, phase, result, queue, delivered>> /\ dialled < MaxDials
    BY DEF ConnectTransport, Reset
  <1>3. closing' \in BOOLEAN /\ failure' \in BOOLEAN /\ ~closing' /\ ~failure'
    BY DEF ConnectTransport, Reset
  <1>4. /\ dialled \in 0..MaxDials /\ current \in 0..MaxDials /\ current <= dialled
        /\ MaxDials \in Nat
    BY CompressedAssumption DEF Wired, TransportTypeOK
  <1>5. /\ current' \in 0..MaxDials /\ dialled' \in 0..MaxDials
        /\ current' \in TransportSockets /\ current' > dialled
    BY <1>2, <1>4 DEF TransportSockets
  <1>6. TransportTypeOK'
    BY <1>1, <1>2, <1>3, <1>5, NoList DEF Wired, TransportTypeOK
  <1>7. stream[current'] = <<>> /\ queue[current'] = <<>>
    BY <1>5 DEF Wired, Undialled
  <1>8. Arrived' = Arrived
    BY <1>2 DEF Arrived
  <1>9. \A m \in Mine' : m \in Messages /\ m \notin Arrived /\ m[1] = current' /\ m[2] \in Nat \ {0}
    BY <1>7, MessagesArePairs, CompressedAssumption DEF Mine, Arrived
  <1>10. Undialled'
    BY <1>2, <1>4 DEF Wired, Undialled, TransportSockets
  <1>11. Chained' /\ Unsent'
    BY <1>2, <1>8 DEF Wired, Chained, Unsent, Taken
  <1>12. Outdated'
    <2>1. \A o \in orphans' : o[1] \in Arrived /\ o[1][1] <= dialled
      BY <1>1, <1>4 DEF Wired, Outdated, Mine
    <2>2. \A o \in orphans' : o[1][1] \in Nat
      BY <2>1, MessagesArePairs DEF Arrived, TransportSockets
    <2> QED BY <1>2, <1>4, <1>8, <2>1, <2>2 DEF Outdated
  <1>13. Wired'
    BY <1>2, <1>6, <1>4, <1>10, <1>11, <1>12 DEF Wired
  <1>14. \A m \in Mine' : phase'[m] = "none" /\ result'[m] = <<>>
    BY <1>2, <1>9 DEF Wired, Unsent
  <1>15. Lined'
    BY <1>2, <1>3, <1>4, <1>8, <1>9, <1>14 DEF Lined, Queued, WaiterQueued, AllQueued, AsNew
  <1>16. Settled'
    <2>1. Taken(current)' = 0
      BY <1>2, <1>7 DEF Taken
    <2> QED BY <1>3, <1>9, <1>14, <2>1 DEF Settled, TakenInTurn, HandedSettled, NothingBehind
  <1> QED BY <1>13, <1>15, <1>16

LEMMA EndKeeps ==
    ASSUME Wired, Lined, Settled, SocketEnds
    PROVE  Wired' /\ Lined' /\ Settled'
  <1>1. /\ orphans' \in SUBSET Operations
        /\ \A o \in orphans' : o \in orphans \/ (current # 0 /\ o[1] \in Mine /\ o[1] \in Arrived)
    BY ResetOrphans DEF SocketEnds
  <1>2. /\ current' = 0 /\ ops' = <<>> /\ waiter' = None /\ chunks' = <<>>
        /\ UNCHANGED <<dialled, stream, phase, result, queue, delivered>>
    BY DEF SocketEnds, Reset
  <1>3. closing' \in BOOLEAN /\ failure' \in BOOLEAN /\ ~closing' /\ ~failure'
    BY DEF SocketEnds, Reset
  <1>4. dialled \in 0..MaxDials /\ current \in 0..MaxDials /\ current <= dialled /\ MaxDials \in Nat
    BY CompressedAssumption DEF Wired, TransportTypeOK
  <1>5. current' \in 0..MaxDials
    BY <1>2, <1>4
  <1>6. TransportTypeOK'
    BY <1>1, <1>2, <1>3, <1>5, NoList DEF Wired, TransportTypeOK
  <1>7. Arrived' = Arrived
    BY <1>2 DEF Arrived
  <1>8. Mine' = {}
    BY <1>2, MessagesArePairs DEF Mine, TransportSockets
  <1>9. Undialled' /\ Chained' /\ Unsent'
    BY <1>2, <1>7 DEF Wired, Undialled, Chained, Unsent, Taken
  <1>10. Outdated'
    <2>1. \A o \in orphans' : o[1] \in Arrived /\ o[1][1] <= dialled
      BY <1>1, <1>4 DEF Wired, Outdated, Mine
    <2>2. \A o \in orphans' : o[1][1] # 0
      BY <2>1, MessagesArePairs DEF Arrived, TransportSockets
    <2> QED BY <1>2, <1>7, <2>1, <2>2 DEF Outdated
  <1>11. Wired'
    BY <1>2, <1>4, <1>6, <1>9, <1>10 DEF Wired
  <1>12. Lined'
    BY <1>2, <1>3, <1>8 DEF Lined, Queued, WaiterQueued, AllQueued, AsNew
  <1>13. Settled'
    BY <1>3, <1>8 DEF Settled, TakenInTurn, HandedSettled, NothingBehind
  <1> QED BY <1>11, <1>12, <1>13

\* A message that arrives joins the end of everything.
LEMMA MessageKeeps ==
    ASSUME Wired, Lined, Settled, NEW kind \in Kinds, Message(kind)
    PROVE  Wired' /\ Lined' /\ Settled'
  <1> DEFINE n == Len(stream[current])
             m == <<current, n + 1>>
  <1>1. /\ current # 0 /\ Cardinality(Arrived) < MaxMessages
        /\ stream' = [stream EXCEPT ![current] = Append(@, kind)]
        /\ queue' = [queue EXCEPT ![current] = Append(@, m)]
        /\ UNCHANGED <<current, dialled, closing, result, orphans, chunks, failure, delivered>>
    BY DEF Message
  <1>2. /\ failure => /\ phase' = [phase EXCEPT ![m] = "rejected"]
                      /\ ops' = ops /\ waiter' = waiter
        /\ ~failure => /\ phase' = [phase EXCEPT ![m] = "write"]
                       /\ ops' = Append(ops, <<m, "write">>)
                       /\ waiter' = m
    BY DEF Message
  <1>3. /\ current \in TransportSockets /\ n \in Nat /\ n < MaxMessages /\ MaxMessages \in Nat
        /\ Len(queue[current]) \in Nat
    BY <1>1, Room, CurrentFacts, CompressedAssumption
  <1>4. m \in Messages /\ m \in Mine /\ m \notin Arrived
    BY <1>3, MessagesArePairs DEF Mine, Arrived
  <1>5. stream \in [TransportSockets -> Seq(Kinds)] /\ queue \in [TransportSockets -> Seq(Messages)]
    BY DEF Wired, TransportTypeOK
  <1>6. stream[current] \in Seq(Kinds) /\ queue[current] \in Seq(Messages)
    BY <1>3, <1>5
  <1> HIDE DEF m
  <1>7. /\ stream'[current] \in Seq(Kinds) /\ Len(stream'[current]) = n + 1
        /\ \A c \in TransportSockets \ {current} : stream'[c] = stream[c]
    BY <1>1, <1>3, <1>5, <1>6, ListAppend
  <1>8. /\ queue'[current] = Append(queue[current], m)
        /\ \A c \in TransportSockets \ {current} : queue'[c] = queue[c]
    BY <1>1, <1>3, <1>5
  <1>9. TransportTypeOK'
    <2>1. closing' \in BOOLEAN /\ failure' \in BOOLEAN
      BY <1>1 DEF Wired, TransportTypeOK
    <2>2. phase' \in [Messages -> Phases]
      BY <1>2, <1>4 DEF Wired, TransportTypeOK, Phases
    <2>3. ops' \in Seq(Operations)
      <3>1. <<m, "write">> \in Operations
        BY <1>4 DEF Operations
      <3>2. ops \in Seq(Operations)
        BY DEF Wired, TransportTypeOK
      <3>3. Append(ops, <<m, "write">>) \in Seq(Operations)
        <4> DEFINE o == <<m, "write">>
        <4>1. o \in Operations
          BY <3>1
        <4> HIDE DEF o
        <4>2. Append(ops, o) \in Seq(Operations)
          BY <3>2, <4>1
        <4> QED BY <4>2 DEF o
      <3>4. ops' = ops \/ ops' = Append(ops, <<m, "write">>)
        BY <1>2
      <3> QED BY <3>2, <3>3, <3>4
    <2>4. waiter' \in Messages \cup {None}
      BY <1>2, <1>4 DEF Wired, TransportTypeOK
    <2>5. stream' \in [TransportSockets -> Seq(Kinds)] /\ queue' \in [TransportSockets -> Seq(Messages)]
      BY <1>1, <1>4, <1>5, <1>6, ListAppend
    <2> QED BY <1>1, <2>1, <2>2, <2>3, <2>4, <2>5 DEF Wired, TransportTypeOK
  <1>10. Taken(current)' = Taken(current) /\ \A c \in TransportSockets : Taken(c)' = Taken(c)
    <2>0. /\ stream' \in [TransportSockets -> Seq(Kinds)]
          /\ queue' \in [TransportSockets -> Seq(Messages)]
      BY <1>9 DEF TransportTypeOK
    <2>1. Len(queue'[current]) = Len(queue[current]) + 1
      BY <1>4, <1>6, <1>8, ListAppend
    <2>2. Taken(current)' = Taken(current)
      BY <2>1, <2>0, <1>1, <1>3, <1>5, <1>7 DEF Taken
    <2> QED BY <2>2, <1>1, <1>7, <1>8 DEF Taken
  <1>11. Arrived' = Arrived \cup {m}
    <2>1. \A o \in Messages : o \in Arrived' <=> o \in Arrived \/ o = m
      <3> SUFFICES ASSUME NEW o \in Messages PROVE o[2] <= Len(stream'[o[1]]) <=> o \in Arrived \/ o = m
        BY DEF Arrived
      <3>1. o[1] \in TransportSockets /\ o[2] \in Nat /\ o = <<o[1], o[2]>>
        BY MessagesArePairs, CompressedAssumption
      <3>2. CASE o[1] # current
        BY <3>1, <3>2, <1>7 DEF Arrived, m
      <3>3. CASE o[1] = current
        BY <3>1, <3>3, <1>3, <1>7 DEF Arrived, m
      <3> QED BY <3>2, <3>3
    <2> QED BY <2>1, <1>4 DEF Arrived
  <1>12. Undialled'
    <2>1. current <= dialled /\ current \in Nat /\ dialled \in Nat
      BY CompressedAssumption DEF Wired, TransportTypeOK
    <2>2. \A c \in TransportSockets : c > dialled => c # current
      BY <2>1 DEF TransportSockets
    <2> QED BY <1>1, <1>7, <1>8, <2>2 DEF Wired, Undialled
  <1>13. Chained'
    <2> SUFFICES ASSUME NEW c \in TransportSockets
                 PROVE  /\ Len(stream'[c]) <= MaxMessages /\ Len(queue'[c]) <= Len(stream'[c])
                        /\ \A k \in 1..Len(queue'[c]) : queue'[c][k] = <<c, Taken(c)' + k>>
      BY DEF Chained
    <2>1. CASE c # current
      BY <2>1, <1>7, <1>8, <1>10 DEF Wired, Chained
    <2>2. CASE c = current
      <3>1. /\ Len(queue[c]) <= n /\ \A k \in 1..Len(queue[c]) : queue[c][k] = <<c, Taken(c) + k>>
        BY <2>2 DEF Wired, Chained
      <3>2. /\ Len(queue'[c]) = Len(queue[c]) + 1 /\ queue'[c][Len(queue[c]) + 1] = m
            /\ \A k \in 1..Len(queue[c]) : queue'[c][k] = queue[c][k]
            /\ \A k \in 1..Len(queue'[c]) : k \in 1..Len(queue[c]) \/ k = Len(queue[c]) + 1
        BY <2>2, <1>4, <1>6, <1>8, ListAppend
      <3>3. m = <<c, Taken(c) + (Len(queue[c]) + 1)>>
        BY <2>2, <1>3, <1>5 DEF m, Taken
      <3> QED BY <2>2, <3>1, <3>2, <3>3, <1>3, <1>7, <1>10
    <2> QED BY <2>1, <2>2
  <1>14. \A o \in Messages : o # m => phase'[o] = phase[o]
    BY <1>2 DEF Wired, TransportTypeOK
  <1>15. Unsent' /\ Outdated'
    BY <1>1, <1>11, <1>14 DEF Wired, Unsent, Outdated
  <1>16. Wired'
    BY <1>1, <1>9, <1>12, <1>13, <1>15 DEF Wired
  <1>17. Mine' = Mine /\ phase'[m] \in {"write", "rejected"} /\ result[m] = <<>>
    <2>1. phase'[m] \in {"write", "rejected"}
      BY <1>2, <1>4 DEF Wired, TransportTypeOK
    <2> QED BY <2>1, <1>1, <1>4 DEF Mine, Wired, Unsent
  <1>18. Queued'
    <2>1. CASE failure
      <3>1. \A k \in 1..Len(ops) : ops[k][1] \in Messages /\ ops[k][1] \in Arrived
        BY OpsFacts
      <3> QED BY <2>1, <3>1, <1>1, <1>2, <1>4, <1>11, <1>14, <1>17 DEF Lined, Queued
    <2>2. CASE ~failure
      <3> DEFINE e == <<m, "write">>
      <3>1. ops \in Seq(Operations) /\ e \in Operations
        BY <1>4 DEF Operations, Wired, TransportTypeOK
      <3>2. /\ Len(ops) \in Nat /\ Len(ops') = Len(ops) + 1 /\ ops'[Len(ops) + 1] = e
            /\ \A k \in 1..Len(ops) : ops'[k] = ops[k]
            /\ \A k \in 1..Len(ops') : k \in 1..Len(ops) \/ k = Len(ops) + 1
        BY <2>2, <3>1, <1>2, ListAppend
      <3>3. \A k \in 1..Len(ops) : Before(ops[k], e)
        <4> SUFFICES ASSUME NEW k \in 1..Len(ops) PROVE Before(ops[k], e)
          OBVIOUS
        <4>1. ops[k][1][2] < n + 1 /\ ops[k][2] \in {"write", "flush"}
          BY <1>1, <1>3, OpsFacts, CurrentFacts
        <4> QED BY <4>1 DEF Before, m
      <3>4. phase'[m] = "write"
        BY <2>2, <1>2, <1>4 DEF Wired, TransportTypeOK
      <3>5. \A k \in 1..Len(ops) : ops[k][1] \in Messages /\ ops[k][1] \in Arrived
        BY OpsFacts
      <3> SUFFICES ASSUME NEW k \in 1..Len(ops')
                   PROVE  /\ ops'[k][1] \in Mine' \cap Arrived'
                          /\ phase'[ops'[k][1]] = ops'[k][2] \/ (failure' /\ phase'[ops'[k][1]] = "rejected")
                          /\ \A j \in 1..(k - 1) : Before(ops'[j], ops'[k])
        BY DEF Queued, Before
      <3>6. CASE k \in 1..Len(ops)
        <4>1. ops'[k] = ops[k] /\ \A j \in 1..(k - 1) : j \in 1..Len(ops) /\ ops'[j] = ops[j]
          BY <3>2, <3>6
        <4> QED BY <4>1, <3>5, <3>6, <2>2, <1>4, <1>11, <1>14, <1>17 DEF Lined, Queued
      <3>7. CASE k = Len(ops) + 1
        <4>1. \A j \in 1..(k - 1) : j \in 1..Len(ops) /\ ops'[j] = ops[j]
          BY <3>2, <3>7
        <4> QED BY <4>1, <3>2, <3>3, <3>4, <3>7, <1>4, <1>11, <1>17
      <3> QED BY <3>2, <3>6, <3>7
    <2> QED BY <2>1, <2>2
  <1>19. WaiterQueued' /\ AllQueued'
    <2>1. CASE failure
      BY <2>1, <1>1, <1>2, <1>14, <1>17 DEF Lined, WaiterQueued, AllQueued
    <2>2. CASE ~failure
      <3> DEFINE e == <<m, "write">>
      <3>1. ops \in Seq(Operations) /\ e \in Operations
        BY <1>4 DEF Operations, Wired, TransportTypeOK
      <3>2. /\ Len(ops) + 1 \in 1..Len(ops') /\ ops'[Len(ops) + 1] = e
            /\ \A k \in 1..Len(ops) : ops'[k] = ops[k] /\ k \in 1..Len(ops')
        BY <2>2, <3>1, <1>2, ListAppend
      <3>3. phase'[m] = "write"
        BY <2>2, <1>2, <1>4 DEF Wired, TransportTypeOK
      <3>4. WaiterQueued'
        BY <3>2, <2>2, <1>2 DEF WaiterQueued
      <3>5. \A o \in Mine \cap Arrived : phase[o] = "resolved" \/ \E k \in 1..Len(ops) : ops[k] = <<o, phase[o]>>
        BY <2>2 DEF Lined, AllQueued
      <3>6. \A o \in Mine \cap Arrived : phase'[o] = phase[o]
        BY <1>4, <1>14 DEF Mine
      <3>7. \A o \in Mine' \cap Arrived' : phase'[o] = "resolved" \/ \E k \in 1..Len(ops') : ops'[k] = <<o, phase'[o]>>
        <4> SUFFICES ASSUME NEW o \in Mine' \cap Arrived'
                     PROVE  phase'[o] = "resolved" \/ \E k \in 1..Len(ops') : ops'[k] = <<o, phase'[o]>>
          OBVIOUS
        <4>1. CASE o = m
          BY <4>1, <3>2, <3>3
        <4>2. CASE o # m
          BY <4>2, <3>2, <3>5, <3>6, <1>11, <1>17
        <4> QED BY <4>1, <4>2
      <3>8. \A o \in Mine' : phase'[o] # "rejected"
        BY <3>3, <2>2, <1>14, <1>17 DEF Lined, AllQueued, Mine
      <3> QED BY <3>4, <3>7, <3>8 DEF AllQueued
    <2> QED BY <2>1, <2>2
  <1>20. Lined'
    BY <1>1, <1>18, <1>19 DEF Lined, AsNew
  <1>21. Settled'
    <2>1. TakenInTurn'
      <3>1. \A o \in Mine : result[o] # <<>> => o \in Arrived
        BY DEF Wired, Unsent, Mine
      <3>2. \A o \in Mine : o \in Arrived => o[2] < n + 1
        BY <1>1, <1>3, CurrentFacts
      <3>3. \A o \in Mine : \A p \in Mine : p[2] <= o[2] /\ o \in Arrived => p # m
        BY <1>1, <1>3, <3>2, CurrentFacts DEF m
      <3> QED BY <3>1, <3>3, <1>1, <1>14, <1>17 DEF Settled, TakenInTurn, Mine
    <2>2. HandedSettled'
      <3>1. \A o \in Mine : o[2] <= Taken(current) => o # m
        BY <1>1, <1>3, CurrentFacts DEF m
      <3> QED BY <3>1, <1>1, <1>10, <1>14, <1>17 DEF Settled, HandedSettled, Mine
    <2>3. NothingBehind'
      BY <1>1, <1>10, <1>17 DEF Settled, NothingBehind
    <2> QED BY <2>1, <2>2, <2>3 DEF Settled
  <1> QED BY <1>16, <1>20, <1>21

-----------------------------------------------------------------------------

\* What is left of the inflater's queue once its first operation is done.
LEMMA Popped ==
    ASSUME Wired, Lined, ops # <<>>
    PROVE  LET h == Head(ops)
               t == Tail(ops)
           IN  /\ h = ops[1] /\ 1 \in 1..Len(ops) /\ t \in Seq(Operations)
               /\ Len(ops) \in Nat /\ Len(t) = Len(ops) - 1
               /\ \A k \in 1..Len(t) : t[k] = ops[k + 1] /\ k + 1 \in 1..Len(ops)
               /\ \A k \in 2..Len(ops) : k - 1 \in 1..Len(t) /\ t[k - 1] = ops[k]
               /\ h[1] \in Mine /\ h[1] \in Arrived /\ h[1] \in Messages
               /\ h[2] \in {"write", "flush"} /\ h = <<h[1], h[2]>>
               /\ phase[h[1]] = h[2] \/ (failure /\ phase[h[1]] = "rejected")
               /\ \A k \in 1..Len(t) :
                     /\ t[k][1] \in Mine /\ t[k][1] \in Arrived /\ t[k][1] \in Messages
                     /\ t[k][1] # h[1] /\ Before(h, t[k])
                     /\ phase[t[k][1]] = t[k][2] \/ (failure /\ phase[t[k][1]] = "rejected")
                     /\ \A j \in 1..(k - 1) : Before(t[j], t[k])
               /\ current # 0
  <1> DEFINE h == Head(ops)
             t == Tail(ops)
  <1>1. ops \in Seq(Operations)
    BY DEF Wired, TransportTypeOK
  <1>2. /\ h = ops[1] /\ 1 \in 1..Len(ops) /\ t \in Seq(Operations)
        /\ Len(ops) \in Nat /\ Len(t) = Len(ops) - 1
        /\ \A k \in 1..Len(t) : t[k] = ops[k + 1] /\ k + 1 \in 1..Len(ops)
        /\ \A k \in 2..Len(ops) : k - 1 \in 1..Len(t) /\ t[k - 1] = ops[k]
    BY <1>1, ListTail
  <1> HIDE DEF h, t
  <1>3. /\ h[1] \in Mine /\ h[1] \in Arrived /\ h[1] \in Messages
        /\ h[2] \in {"write", "flush"} /\ h = <<h[1], h[2]>>
        /\ phase[h[1]] = h[2] \/ (failure /\ phase[h[1]] = "rejected")
    BY <1>2, OpsFacts DEF Lined, Queued
  <1>4. ASSUME NEW k \in 1..Len(t)
        PROVE  /\ t[k][1] \in Mine /\ t[k][1] \in Arrived /\ t[k][1] \in Messages
               /\ t[k][1] # h[1] /\ Before(h, t[k])
               /\ phase[t[k][1]] = t[k][2] \/ (failure /\ phase[t[k][1]] = "rejected")
               /\ \A j \in 1..(k - 1) : Before(t[j], t[k])
    <2>1. t[k] = ops[k + 1] /\ k + 1 \in 1..Len(ops) /\ 1 \in 1..((k + 1) - 1) /\ k + 1 # 1
      BY <1>2
    <2>2. /\ ops[k + 1][1] \in Mine /\ ops[k + 1][1] \in Arrived /\ ops[k + 1][1] \in Messages
          /\ phase[ops[k + 1][1]] = ops[k + 1][2]
                \/ (failure /\ phase[ops[k + 1][1]] = "rejected")
          /\ \A j \in 1..((k + 1) - 1) : Before(ops[j], ops[k + 1])
      BY <2>1, OpsFacts DEF Lined, Queued
    <2>3. ops[k + 1][1] # ops[1][1]
      BY <2>1, <1>2, OpsDiffer
    <2>4. \A j \in 1..(k - 1) : t[j] = ops[j + 1] /\ j + 1 \in 1..((k + 1) - 1)
      BY <1>2, <2>1
    <2> QED BY <1>2, <2>1, <2>2, <2>3, <2>4
  <1>5. current # 0
    BY <1>2 DEF Lined, AsNew
  <1> QED BY <1>2, <1>3, <1>4, <1>5 DEF h, t

\* An operation that leaves the queue with the push() it is of settled, or with
\* the decoder failed: what then has to hold of the phases.
LEMMA PopKeeps ==
    ASSUME Wired, Lined, Settled, ops # <<>>,
           UNCHANGED <<current, dialled, closing, stream, orphans, queue, delivered>>,
           ops' = Tail(ops), waiter' = None, failure' \in BOOLEAN, failure => failure',
           chunks' \in Seq(Messages), result' \in [Messages -> Seq(Messages)],
           phase' \in [Messages -> Phases],
           phase'[Head(ops)[1]] = IF failure' THEN "rejected" ELSE "resolved",
           \A m \in Messages : m # Head(ops)[1] =>
               \/ phase'[m] = phase[m]
               \/ failure' /\ phase'[m] = "rejected" /\ \E k \in 1..Len(ops) : ops[k][1] = m,
           \A m \in Messages : result'[m] # result[m] =>
               /\ ~failure' /\ m = Head(ops)[1] /\ Head(ops)[2] = "flush"
    PROVE  Wired' /\ Lined' /\ Settled'
  <1> DEFINE h == Head(ops)
             t == Tail(ops)
             u == h[1]
  <1>1. /\ h = ops[1] /\ 1 \in 1..Len(ops) /\ t \in Seq(Operations)
        /\ Len(ops) \in Nat /\ Len(t) = Len(ops) - 1
        /\ \A k \in 1..Len(t) : t[k] = ops[k + 1] /\ k + 1 \in 1..Len(ops)
        /\ \A k \in 2..Len(ops) : k - 1 \in 1..Len(t) /\ t[k - 1] = ops[k]
        /\ u \in Mine /\ u \in Arrived /\ u \in Messages
        /\ h[2] \in {"write", "flush"} /\ h = <<u, h[2]>>
        /\ phase[u] = h[2] \/ (failure /\ phase[u] = "rejected")
        /\ \A k \in 1..Len(t) :
              /\ t[k][1] \in Mine /\ t[k][1] \in Arrived /\ t[k][1] \in Messages
              /\ t[k][1] # u /\ Before(h, t[k])
              /\ phase[t[k][1]] = t[k][2] \/ (failure /\ phase[t[k][1]] = "rejected")
              /\ \A j \in 1..(k - 1) : Before(t[j], t[k])
        /\ current # 0
    BY Popped
  <1> HIDE DEF h, t
  <1>2. /\ ops' = t /\ phase'[u] = IF failure' THEN "rejected" ELSE "resolved"
        /\ \A m \in Messages : m # u =>
               \/ phase'[m] = phase[m]
               \/ failure' /\ phase'[m] = "rejected" /\ \E k \in 1..Len(ops) : ops[k][1] = m
        /\ \A m \in Messages : result'[m] # result[m] => ~failure' /\ m = u /\ h[2] = "flush"
    BY DEF h, t
  <1> HIDE DEF u
  <1>3. Arrived' = Arrived /\ Mine' = Mine /\ Taken(current)' = Taken(current)
    BY DEF Arrived, Mine, Taken
  <1>4. \A k \in 1..Len(ops) : ops[k][1] \in Messages /\ ops[k][1] \in Arrived /\ ops[k][1] \in Mine
                               /\ phase[ops[k][1]] # "resolved"
    BY OpsFacts DEF Lined, Queued
  <1>5. TransportTypeOK'
    BY <1>1, <1>2 DEF Wired, TransportTypeOK
  <1>6. Unsent'
    <2> SUFFICES ASSUME NEW m \in Messages \ Arrived
                 PROVE  phase'[m] = "none" /\ result'[m] = <<>>
      BY <1>3 DEF Unsent
    <2>1. phase[m] = "none" /\ result[m] = <<>>
      BY DEF Wired, Unsent
    <2>2. m # u /\ ~\E k \in 1..Len(ops) : ops[k][1] = m
      BY <1>1, <1>4
    <2> QED BY <2>1, <2>2, <1>2
  <1>7. Undialled' /\ Chained' /\ Outdated'
    BY <1>3 DEF Wired, Undialled, Chained, Outdated, Taken
  <1>8. Wired'
    BY <1>5, <1>6, <1>7 DEF Wired
  <1>9. Queued'
    <2>1. ASSUME NEW k \in 1..Len(t)
          PROVE  phase'[t[k][1]] = t[k][2] \/ (failure' /\ phase'[t[k][1]] = "rejected")
      BY <1>1, <1>2
    <2>2. ASSUME NEW k \in 1..Len(t)
          PROVE  /\ t[k][1] \in Mine' \cap Arrived'
                 /\ \A j \in 1..(k - 1) : Before(t[j], t[k])
      BY <1>1, <1>3
    <2>3. ops' = t
      BY <1>2
    <2> QED BY <2>1, <2>2, <2>3 DEF Queued, Before
  <1>10. WaiterQueued' /\ AsNew'
    BY <1>1 DEF WaiterQueued, AsNew
  <1>11. AllQueued'
    <2>1. \A m \in Mine : phase'[m] = "rejected" => failure'
      BY <1>1, <1>2 DEF Lined, AllQueued, Mine
    <2>2. ASSUME ~failure', NEW m \in Mine \cap Arrived
          PROVE  phase'[m] = "resolved" \/ \E k \in 1..Len(t) : t[k] = <<m, phase'[m]>>
      <3>1. CASE m = u
        BY <2>2, <3>1, <1>2
      <3>2. CASE m # u
        <4>1. phase'[m] = phase[m]
          BY <2>2, <3>2, <1>2 DEF Mine
        <4>2. phase[m] = "resolved" \/ \E k \in 1..Len(ops) : ops[k] = <<m, phase[m]>>
          BY <2>2 DEF Lined, AllQueued
        <4>3. \A k \in 1..Len(ops) : ops[k] = <<m, phase[m]>> => k \in 2..Len(ops)
          BY <1>1, <3>2
        <4>4. CASE phase[m] = "resolved"
          BY <4>1, <4>4
        <4>5. ASSUME NEW k \in 1..Len(ops), ops[k] = <<m, phase[m]>>
              PROVE  \E j \in 1..Len(t) : t[j] = <<m, phase'[m]>>
          <5>1. k - 1 \in 1..Len(t) /\ t[k - 1] = ops[k]
            BY <4>3, <4>5, <1>1
          <5> QED BY <4>1, <4>5, <5>1
        <4> QED BY <4>2, <4>4, <4>5
      <3> QED BY <3>1, <3>2
    <2> QED BY <2>1, <2>2, <1>2, <1>3 DEF AllQueued
  <1>12. Lined'
    BY <1>9, <1>10, <1>11 DEF Lined
  <1>13. /\ \A m \in Mine : m \in Messages /\ m[2] \in Nat
         /\ u[2] \in Nat /\ u[2] <= Len(stream[current]) /\ Len(stream[current]) \in Nat
         /\ \A m \in Mine : m[2] <= u[2] => m \in Arrived
         /\ \A m \in Mine : \A n \in Mine : m[2] = n[2] => m = n
    <2>1. /\ Len(stream[current]) \in Nat
          /\ \A m \in Mine : /\ m \in Messages /\ m[2] \in Nat /\ m = <<current, m[2]>>
                             /\ (m \in Arrived <=> m[2] <= Len(stream[current]))
      BY <1>1, CurrentFacts
    <2>2. u[2] \in Nat /\ u[2] <= Len(stream[current])
      BY <2>1, <1>1
    <2>3. \A m \in Mine : m[2] <= u[2] => m[2] <= Len(stream[current])
      BY <2>1, <2>2
    <2>4. \A m \in Mine : m[2] <= u[2] => m \in Arrived
      BY <2>1, <2>3
    <2>5. \A m \in Mine : \A n \in Mine : m[2] = n[2] => m = n
      BY <2>1
    <2> QED BY <2>1, <2>2, <2>4, <2>5
  <1>14. TakenInTurn'
    <2> SUFFICES ASSUME NEW m \in Mine, result'[m] # <<>>, NEW n \in Mine, n[2] <= m[2]
                 PROVE  phase'[n] = "resolved"
      BY <1>3 DEF TakenInTurn
    <2>1. CASE result'[m] = result[m]
      <3>1. phase[n] = "resolved"
        BY <2>1 DEF Settled, TakenInTurn
      <3>2. n # u
        BY <3>1, <1>1
      <3> QED BY <3>1, <3>2, <1>2, <1>4, <1>13
    <2>2. CASE result'[m] # result[m]
      <3>1. ~failure' /\ ~failure /\ m = u /\ h[2] = "flush" /\ h = <<u, "flush">>
        BY <2>2, <1>1, <1>2, <1>13
      <3>2. CASE n = u
        BY <3>1, <3>2, <1>2
      <3>3. CASE n # u
        <4>1. n[2] < u[2] /\ n \in Arrived
          BY <3>1, <3>3, <1>13
        <4>2. phase[n] = "resolved" \/ \E k \in 1..Len(ops) : ops[k] = <<n, phase[n]>>
          BY <3>1, <4>1 DEF Lined, AllQueued
        <4>3. ASSUME NEW k \in 1..Len(ops), ops[k] = <<n, phase[n]>> PROVE FALSE
          <5>1. k \in 2..Len(ops)
            BY <4>3, <3>3, <1>1
          <5>2. Before(h, ops[k])
            BY <5>1, <1>1
          <5> QED BY <5>2, <4>1, <4>3, <3>1, <1>13 DEF Before
        <4>4. phase[n] = "resolved"
          BY <4>2, <4>3
        <4> QED BY <4>4, <3>1, <3>3, <1>2, <1>13
      <3> QED BY <3>2, <3>3
    <2> QED BY <2>1, <2>2
  <1>15. HandedSettled'
    BY <1>2, <1>3, <1>13 DEF Settled, HandedSettled
  <1>16. NothingBehind'
    BY <1>2, <1>3, <1>13 DEF Settled, NothingBehind
  <1> QED BY <1>8, <1>12, <1>14, <1>15, <1>16 DEF Settled

\* zlib refuses the bytes: nothing queued calls back any more.
LEMMA InflateCorruptKeeps ==
    ASSUME Wired, Lined, Settled, InflateCorrupt
    PROVE  Wired' /\ Lined' /\ Settled'
  <1>1. /\ ops' = <<>> /\ waiter' = None /\ phase' = Rejected /\ ops # <<>>
        /\ UNCHANGED <<current, dialled, closing, stream, result, orphans, chunks, queue, delivered>>
    BY DEF InflateCorrupt
  <1>2. failure' \in BOOLEAN /\ failure'
    BY DEF InflateCorrupt, FailureAfter
  <1>3. current # 0
    BY <1>1, Popped
  <1>4. \A k \in 1..Len(ops) : ops[k][1] \in Messages /\ ops[k][1] \in Arrived /\ ops[k][1] \in Mine
                               /\ phase[ops[k][1]] # "resolved"
    BY OpsFacts DEF Lined, Queued
  <1>5. waiter # None => waiter \in Messages /\ waiter \in Arrived /\ phase[waiter] # "resolved"
    BY <1>4 DEF Lined, WaiterQueued
  <1>6. phase' \in [Messages -> Phases]
    BY <1>1, <1>5 DEF Rejected, Phases, Wired, TransportTypeOK
  <1>7. \A m \in Messages : phase'[m] = phase[m]
                            \/ (m = waiter /\ waiter # None /\ phase'[m] = "rejected")
    BY <1>1, <1>5 DEF Rejected, Wired, TransportTypeOK
  <1>8. Arrived' = Arrived /\ Mine' = Mine /\ Taken(current)' = Taken(current)
    BY <1>1 DEF Arrived, Mine, Taken
  <1>9. TransportTypeOK'
    BY <1>1, <1>2, <1>6, NoList DEF Wired, TransportTypeOK
  <1>10. Undialled' /\ Chained' /\ Outdated'
    BY <1>1, <1>8 DEF Wired, Undialled, Chained, Outdated, Taken
  <1>11. Unsent'
    <2> SUFFICES ASSUME NEW m \in Messages \ Arrived
                 PROVE  phase'[m] = "none" /\ result'[m] = <<>>
      BY <1>8 DEF Unsent
    <2> QED BY <1>1, <1>5, <1>7 DEF Wired, Unsent
  <1>12. Wired'
    BY <1>1, <1>9, <1>10, <1>11 DEF Wired
  <1>13. Lined'
    BY <1>1, <1>2, <1>3 DEF Lined, Queued, WaiterQueued, AllQueued, AsNew
  <1>14. \A m \in Mine : m \in Messages
    BY DEF Mine
  <1>15. \A m \in Mine : phase[m] \in {"resolved", "rejected"} =>
                           phase'[m] \in {"resolved", "rejected"}
                           /\ (phase[m] = "resolved" => phase'[m] = "resolved")
    BY <1>5, <1>7, <1>14
  <1>16. Settled'
    <2>1. TakenInTurn'
      BY <1>1, <1>8, <1>15 DEF Settled, TakenInTurn
    <2>2. HandedSettled'
      BY <1>1, <1>8, <1>15 DEF Settled, HandedSettled
    <2>3. NothingBehind'
      BY <1>1, <1>2, <1>8 DEF Settled, NothingBehind
    <2> QED BY <2>1, <2>2, <2>3 DEF Settled
  <1> QED BY <1>12, <1>13, <1>16

LEMMA FlushKeeps ==
    ASSUME Wired, Lined, Settled, Flush
    PROVE  Wired' /\ Lined' /\ Settled'
  <1> DEFINE m == Head(ops)[1]
  <1>1. /\ ops # <<>> /\ Head(ops)[2] = "flush" /\ ops' = Tail(ops) /\ waiter' = None
        /\ UNCHANGED <<current, dialled, closing, stream, orphans, failure, queue, delivered>>
        /\ failure => /\ phase' = [phase EXCEPT ![m] = "rejected"]
                      /\ result' = result /\ chunks' = chunks
        /\ ~failure => /\ phase' = [phase EXCEPT ![m] = "resolved"]
                       /\ result' = [result EXCEPT ![m] = chunks] /\ chunks' = <<>>
    BY DEF Flush
  <1>2. m \in Messages
    BY <1>1, Popped
  <1> HIDE DEF m
  <1>3. /\ phase \in [Messages -> Phases] /\ result \in [Messages -> Seq(Messages)]
        /\ chunks \in Seq(Messages) /\ failure \in BOOLEAN
    BY DEF Wired, TransportTypeOK
  <1>4. failure' \in BOOLEAN /\ (failure => failure')
    BY <1>1, <1>3
  <1>5. chunks' \in Seq(Messages)
    BY <1>1, <1>3, NoList
  <1>6. result' \in [Messages -> Seq(Messages)]
    BY <1>1, <1>3
  <1>7. phase' \in [Messages -> Phases]
    BY <1>1, <1>3 DEF Phases
  <1>8. phase'[m] = IF failure' THEN "rejected" ELSE "resolved"
    BY <1>1, <1>2, <1>3
  <1>9. \A o \in Messages : o # m => phase'[o] = phase[o]
    BY <1>1, <1>3
  <1>10. \A o \in Messages : result'[o] # result[o] => ~failure' /\ o = m
    BY <1>1, <1>3
  <1> QED BY <1>1, <1>4, <1>5, <1>6, <1>7, <1>8, <1>9, <1>10, PopKeeps DEF m

\* A write that ends its push(), or a payload that is complete.
LEMMA InflateKeeps ==
    ASSUME Wired, Lined, Settled, Inflate
    PROVE  Wired' /\ Lined' /\ Settled'
  <1> DEFINE m == Head(ops)[1]
             large == KindOf(m) = "large" /\ ~failure
             told == IF large THEN Rejected ELSE phase
  <1>1. /\ ops # <<>> /\ Head(ops)[2] = "write"
        /\ failure' = FailureAfter(KindOf(m))
        /\ chunks' = IF large THEN <<>> ELSE IF failure THEN chunks ELSE Append(chunks, m)
        /\ UNCHANGED <<current, dialled, closing, stream, result, orphans, queue, delivered>>
    BY DEF Inflate
  <1>2. /\ failure' \/ KindOf(m) = "part" =>
               /\ phase' = [told EXCEPT ![m] = IF failure' THEN "rejected" ELSE "resolved"]
               /\ ops' = Tail(ops) /\ waiter' = None
        /\ ~failure' /\ KindOf(m) # "part" =>
               /\ phase' = [phase EXCEPT ![m] = "flush"]
               /\ ops' = Append(Tail(ops), <<m, "flush">>) /\ waiter' = m
    BY DEF Inflate
  <1>3. /\ m \in Messages /\ m \in Mine /\ m \in Arrived
        /\ phase[m] = "write" \/ (failure /\ phase[m] = "rejected")
    BY <1>1, Popped
  <1>4. /\ phase \in [Messages -> Phases] /\ result \in [Messages -> Seq(Messages)]
        /\ chunks \in Seq(Messages) /\ failure \in BOOLEAN
    BY DEF Wired, TransportTypeOK
  <1>5. failure' \in BOOLEAN /\ (failure => failure') /\ (large => failure')
    BY <1>1, <1>4 DEF FailureAfter
  <1>6. chunks' \in Seq(Messages)
    <2>1. Append(chunks, m) \in Seq(Messages)
      BY <1>3, <1>4
    <2> QED BY <1>1, <1>4, <2>1, NoList
  <1>7. waiter # None => waiter \in Messages /\ \E k \in 1..Len(ops) : ops[k][1] = waiter
    BY OpsFacts DEF Lined, WaiterQueued
  <1>8. CASE failure' \/ KindOf(m) = "part"
    <2>1. told \in [Messages -> Phases]
      BY <1>4, <1>7 DEF Rejected, Phases
    <2>2. \A o \in Messages :
              \/ told[o] = phase[o]
              \/ failure' /\ told[o] = "rejected" /\ \E k \in 1..Len(ops) : ops[k][1] = o
      <3>1. CASE large /\ waiter # None
        BY <3>1, <1>4, <1>5, <1>7 DEF Rejected
      <3>2. CASE ~(large /\ waiter # None)
        BY <3>2 DEF Rejected
      <3> QED BY <3>1, <3>2
    <2> HIDE DEF told, large, m
    <2>3. phase' \in [Messages -> Phases]
      BY <1>2, <1>8, <2>1 DEF Phases
    <2>4. phase'[m] = IF failure' THEN "rejected" ELSE "resolved"
      BY <1>2, <1>3, <1>8, <2>1
    <2>5. \A o \in Messages : o # m => phase'[o] = told[o]
      BY <1>2, <1>8, <2>1
    <2>6. \A o \in Messages : o # m =>
              \/ phase'[o] = phase[o]
              \/ failure' /\ phase'[o] = "rejected" /\ \E k \in 1..Len(ops) : ops[k][1] = o
      BY <2>2, <2>5
    <2>7. ops' = Tail(ops) /\ waiter' = None
      BY <1>2, <1>8
    <2>8. result' \in [Messages -> Seq(Messages)] /\ \A o \in Messages : result'[o] = result[o]
      BY <1>1, <1>4
    <2> QED BY <1>1, <1>5, <1>6, <2>3, <2>4, <2>6, <2>7, <2>8, PopKeeps DEF m
  <1>9. CASE ~failure' /\ KindOf(m) # "part"
    <2> DEFINE h == Head(ops)
               t == Tail(ops)
               e == <<m, "flush">>
    <2>1. /\ h = ops[1] /\ 1 \in 1..Len(ops) /\ t \in Seq(Operations)
          /\ Len(ops) \in Nat /\ Len(t) = Len(ops) - 1
          /\ \A k \in 2..Len(ops) : k - 1 \in 1..Len(t) /\ t[k - 1] = ops[k]
          /\ h = <<m, "write">>
          /\ \A k \in 1..Len(t) :
                /\ t[k][1] \in Mine /\ t[k][1] \in Arrived /\ t[k][1] \in Messages
                /\ t[k][1] # m /\ Before(h, t[k])
                /\ phase[t[k][1]] = t[k][2] \/ (failure /\ phase[t[k][1]] = "rejected")
                /\ \A j \in 1..(k - 1) : Before(t[j], t[k])
          /\ current # 0
      BY <1>1, Popped
    <2>2. e \in Operations
      BY <1>3 DEF Operations
    <2> HIDE DEF t, h
    <2>3. /\ ops' \in Seq(Operations) /\ Len(t) \in Nat /\ Len(ops') = Len(t) + 1
          /\ ops'[Len(t) + 1] = e /\ Len(t) + 1 \in 1..Len(ops')
          /\ \A k \in 1..Len(t) : ops'[k] = t[k] /\ k \in 1..Len(ops')
          /\ \A k \in 1..Len(ops') : k \in 1..Len(t) \/ k = Len(t) + 1
      <3>1. ops' = Append(t, e)
        BY <1>2, <1>9 DEF t
      <3> QED BY <2>1, <2>2, <3>1, ListAppend
    <2>4. /\ ~failure /\ ~failure' /\ waiter' = m /\ phase' = [phase EXCEPT ![m] = "flush"]
      BY <1>2, <1>5, <1>9
    <2> HIDE DEF m
    <2>5. /\ phase' \in [Messages -> Phases] /\ phase'[m] = "flush"
          /\ \A o \in Messages : o # m => phase'[o] = phase[o]
      BY <2>4, <1>3, <1>4 DEF Phases
    <2>6. Arrived' = Arrived /\ Mine' = Mine /\ Taken(current)' = Taken(current)
      BY <1>1 DEF Arrived, Mine, Taken
    <2>7. TransportTypeOK'
      BY <1>1, <1>3, <1>5, <1>6, <2>3, <2>4, <2>5 DEF Wired, TransportTypeOK
    <2>8. Undialled' /\ Chained' /\ Outdated'
      BY <1>1, <2>6 DEF Wired, Undialled, Chained, Outdated, Taken
    <2>9. Unsent'
      <3> SUFFICES ASSUME NEW o \in Messages \ Arrived
                   PROVE  phase'[o] = "none" /\ result'[o] = <<>>
        BY <2>6 DEF Unsent
      <3> QED BY <1>1, <1>3, <2>5 DEF Wired, Unsent
    <2>10. Wired'
      BY <1>1, <2>7, <2>8, <2>9 DEF Wired
    <2>11. \A k \in 1..Len(t) : Before(t[k], e)
      <3> SUFFICES ASSUME NEW k \in 1..Len(t) PROVE Before(t[k], e)
        OBVIOUS
      <3>1. Before(h, t[k])
        BY <2>1
      <3>2. t[k][2] \in {"write", "flush"} /\ t[k][1][2] \in Nat /\ m[2] \in Nat
        <4>1. t[k] \in Operations
          BY <2>1
        <4>2. t[k][1] \in Messages /\ t[k][2] \in {"write", "flush"}
          BY <4>1 DEF Operations
        <4> QED BY <4>2, <1>3, MessagesArePairs, CompressedAssumption
      <3> QED BY <2>1, <3>1, <3>2 DEF Before
    <2>12. Queued'
      <3> SUFFICES ASSUME NEW k \in 1..Len(ops')
                   PROVE  /\ ops'[k][1] \in Mine /\ ops'[k][1] \in Arrived
                          /\ phase'[ops'[k][1]] = ops'[k][2]
                          /\ \A j \in 1..(k - 1) : Before(ops'[j], ops'[k])
        BY <2>6 DEF Queued, Before
      <3>1. CASE k \in 1..Len(t)
        <4>1. ops'[k] = t[k] /\ \A j \in 1..(k - 1) : ops'[j] = t[j]
          BY <2>3, <3>1
        <4> QED BY <4>1, <3>1, <2>1, <2>4, <2>5
      <3>2. CASE k = Len(t) + 1
        <4>1. \A j \in 1..(k - 1) : j \in 1..Len(t) /\ ops'[j] = t[j]
          BY <2>3, <3>2
        <4> QED BY <4>1, <3>2, <2>3, <2>5, <2>11, <1>3
      <3> QED BY <2>3, <3>1, <3>2
    <2>13. WaiterQueued' /\ AsNew'
      BY <1>1, <2>1, <2>3, <2>4 DEF WaiterQueued, AsNew
    <2>14. AllQueued'
      <3>1. \A o \in Mine : phase'[o] # "rejected"
        BY <2>4, <2>5 DEF Lined, AllQueued, Mine
      <3>2. ASSUME NEW o \in Mine \cap Arrived
            PROVE  phase'[o] = "resolved" \/ \E k \in 1..Len(ops') : ops'[k] = <<o, phase'[o]>>
        <4>1. CASE o = m
          BY <4>1, <2>3, <2>5
        <4>2. CASE o # m
          <5>1. phase'[o] = phase[o]
            BY <4>2, <2>5 DEF Mine
          <5>2. phase[o] = "resolved" \/ \E k \in 1..Len(ops) : ops[k] = <<o, phase[o]>>
            BY <3>2, <2>4 DEF Lined, AllQueued
          <5>3. ASSUME NEW k \in 1..Len(ops), ops[k] = <<o, phase[o]>>
                PROVE  \E j \in 1..Len(ops') : ops'[j] = <<o, phase'[o]>>
            <6>1. k \in 2..Len(ops)
              <7>1. ops[1] = <<m, "write">> /\ Len(ops) \in Nat
                BY <2>1
              <7>2. k # 1
                BY <5>3, <4>2, <7>1
              <7> QED BY <7>1, <7>2
            <6>2. k - 1 \in 1..Len(t) /\ t[k - 1] = ops[k]
              BY <6>1, <2>1
            <6> QED BY <6>2, <5>1, <5>3, <2>3
          <5> QED BY <5>1, <5>2, <5>3
        <4> QED BY <4>1, <4>2
      <3> QED BY <3>1, <3>2, <2>4, <2>6 DEF AllQueued
    <2>15. \A o \in Mine : phase[o] \in {"resolved", "rejected"} => phase'[o] = phase[o]
      BY <2>4, <2>5, <1>3 DEF Mine
    <2>16. Settled'
      <3>1. TakenInTurn'
        BY <1>1, <2>6, <2>15 DEF Settled, TakenInTurn
      <3>2. HandedSettled'
        BY <1>1, <2>6, <2>15 DEF Settled, HandedSettled
      <3>3. NothingBehind'
        BY <1>1, <2>4, <2>6 DEF Settled, NothingBehind
      <3> QED BY <3>1, <3>2, <3>3 DEF Settled
    <2> QED BY <2>10, <2>12, <2>13, <2>14, <2>16 DEF Lined
  <1> QED BY <1>8, <1>9

\* An inflater that was closed concerns an earlier socket.
LEMMA OrphanKeeps ==
    ASSUME Wired, Lined, Settled, OrphanReturns
    PROVE  Wired' /\ Lined' /\ Settled'
  <1> PICK o \in orphans :
        LET m == o[1]
            takes == ~failure /\ (o[2] = "flush" \/ KindOf(m) # "part")
        IN  /\ orphans' = orphans \ {o}
            /\ waiter' = None
            /\ phase' = [phase EXCEPT ![m] = IF failure THEN "rejected" ELSE "resolved"]
            /\ result' = [result EXCEPT ![m] = IF takes THEN chunks ELSE @]
            /\ chunks' = IF takes THEN <<>> ELSE chunks
            /\ UNCHANGED <<current, dialled, closing, stream, ops, failure, queue, delivered>>
    BY DEF OrphanReturns
  <1> DEFINE m == o[1]
             takes == ~failure /\ (o[2] = "flush" \/ KindOf(m) # "part")
  <1>1. /\ orphans' = orphans \ {o} /\ waiter' = None
        /\ phase' = [phase EXCEPT ![m] = IF failure THEN "rejected" ELSE "resolved"]
        /\ result' = [result EXCEPT ![m] = IF takes THEN chunks ELSE @]
        /\ chunks' = IF takes THEN <<>> ELSE chunks
        /\ UNCHANGED <<current, dialled, closing, stream, ops, failure, queue, delivered>>
    OBVIOUS
  <1>2. m \in Arrived /\ m \in Messages /\ m[1] # current
    BY DEF Wired, Outdated, Arrived
  <1> HIDE DEF m, takes
  <1>3. /\ phase \in [Messages -> Phases] /\ result \in [Messages -> Seq(Messages)]
        /\ chunks \in Seq(Messages) /\ failure \in BOOLEAN
    BY DEF Wired, TransportTypeOK
  <1>4. phase' \in [Messages -> Phases] /\ result' \in [Messages -> Seq(Messages)]
    <2>1. phase' \in [Messages -> Phases]
      <3>1. CASE failure
        BY <3>1, <1>1, <1>3 DEF Phases
      <3>2. CASE ~failure
        BY <3>2, <1>1, <1>3 DEF Phases
      <3> QED BY <3>1, <3>2
    <2>2. result' \in [Messages -> Seq(Messages)]
      BY <1>1, <1>3
    <2> QED BY <2>1, <2>2
  <1>5. chunks' \in Seq(Messages) /\ failure' \in BOOLEAN /\ closing' \in BOOLEAN
    BY <1>1, <1>3, NoList DEF Wired, TransportTypeOK
  <1>6. \A p \in Messages : p # m => phase'[p] = phase[p] /\ result'[p] = result[p]
    BY <1>1, <1>3
  <1>7. Arrived' = Arrived /\ Mine' = Mine /\ Taken(current)' = Taken(current)
    BY <1>1 DEF Arrived, Mine, Taken
  <1>8. TransportTypeOK'
    BY <1>1, <1>4, <1>5 DEF Wired, TransportTypeOK
  <1>9. Undialled' /\ Chained' /\ Outdated'
    <2>0. UNCHANGED <<dialled, stream, queue, delivered>>
      BY <1>1
    <2>1. Undialled' /\ Chained'
      BY <2>0 DEF Wired, Undialled, Chained, Taken
    <2>2. Outdated'
      BY <1>1, <1>7 DEF Wired, Outdated
    <2> QED BY <2>1, <2>2
  <1>10. Unsent'
    BY <1>2, <1>6, <1>7 DEF Wired, Unsent
  <1>11. Wired'
    BY <1>1, <1>8, <1>9, <1>10 DEF Wired
  <1>12. \A p \in Mine : phase'[p] = phase[p] /\ result'[p] = result[p]
    BY <1>2, <1>6 DEF Mine
  <1>13. Queued'
    BY <1>1, <1>7, <1>12 DEF Lined, Queued, Before
  <1>14. AllQueued'
    <2>1. \A p \in Mine : phase'[p] = "rejected" => failure
      BY <1>12 DEF Lined, AllQueued
    <2>2. failure' = failure /\ ops' = ops /\ Mine' = Mine /\ Arrived' = Arrived
      BY <1>1, <1>7
    <2>3. ASSUME ~failure', NEW p \in (Mine \cap Arrived)'
          PROVE  phase'[p] = "resolved" \/ \E k \in 1..Len(ops') : ops'[k] = <<p, phase'[p]>>
      <3>1. ~failure /\ p \in Mine \cap Arrived
        BY <2>2, <2>3
      <3>2. phase[p] = "resolved" \/ \E k \in 1..Len(ops) : ops[k] = <<p, phase[p]>>
        BY <3>1 DEF Lined, AllQueued
      <3>3. phase'[p] = phase[p]
        BY <3>1, <1>12
      <3> QED BY <2>2, <3>2, <3>3
    <2>4. \A p \in Mine' : phase'[p] = "rejected" => failure'
      BY <2>1, <2>2
    <2> QED BY <2>3, <2>4 DEF AllQueued
  <1>15. WaiterQueued' /\ AsNew'
    BY <1>1 DEF Lined, WaiterQueued, AsNew
  <1>16. Settled'
    BY <1>1, <1>7, <1>12 DEF Settled, TakenInTurn, HandedSettled, NothingBehind
  <1> QED BY <1>11, <1>13, <1>14, <1>15, <1>16 DEF Lined

\* The head of a chain that is settled is the next message of its socket.
LEMMA HeadOfChain ==
    ASSUME Wired, NEW c \in TransportSockets, queue[c] # <<>>
    PROVE  /\ Head(queue[c]) = <<c, Taken(c) + 1>> /\ Head(queue[c]) \in Messages
           /\ Tail(queue[c]) \in Seq(Messages)
           /\ Taken(c) \in Nat /\ Taken(c) + 1 \in 1..MaxMessages
           /\ Len(stream[c]) \in Nat /\ Len(queue[c]) \in Nat
           /\ Len(Tail(queue[c])) = Len(queue[c]) - 1
           /\ \A k \in 1..Len(Tail(queue[c])) :
                 Tail(queue[c])[k] = <<c, Taken(c) + (k + 1)>>
  <1>1. /\ stream \in [TransportSockets -> Seq(Kinds)]
        /\ queue \in [TransportSockets -> Seq(Messages)]
    BY DEF Wired, TransportTypeOK
  <1> DEFINE q == queue[c]
  <1>2. q \in Seq(Messages) /\ Len(stream[c]) \in Nat
    BY <1>1
  <1>3. /\ Len(stream[c]) <= MaxMessages /\ Len(q) <= Len(stream[c])
        /\ \A k \in 1..Len(q) : q[k] = <<c, Taken(c) + k>>
    BY DEF Wired, Chained
  <1> HIDE DEF q
  <1>4. q # <<>>
    BY DEF q
  <1>5. /\ Tail(q) \in Seq(Messages) /\ Head(q) \in Messages
        /\ Len(q) \in Nat /\ Len(q) >= 1 /\ Len(Tail(q)) = Len(q) - 1
        /\ Head(q) = q[1] /\ 1 \in 1..Len(q)
        /\ \A k \in 1..Len(Tail(q)) : Tail(q)[k] = q[k + 1] /\ k + 1 \in 1..Len(q)
    BY <1>2, <1>4, ListTail
  <1>6. Taken(c) = Len(stream[c]) - Len(q)
    BY DEF Taken, q
  <1>7. Taken(c) \in Nat /\ Taken(c) + 1 \in 1..MaxMessages /\ MaxMessages \in Nat
    BY <1>2, <1>3, <1>5, <1>6, CompressedAssumption
  <1> QED BY <1>2, <1>3, <1>5, <1>7 DEF q

LEMMA HandOnKeeps ==
    ASSUME Wired, Lined, Settled, NEW c \in TransportSockets, HandOn(c)
    PROVE  Wired' /\ Lined' /\ Settled'
  <1> DEFINE m == Head(queue[c])
  <1>1. /\ queue[c] # <<>> /\ phase[m] \in {"resolved", "rejected"}
        /\ queue' = [queue EXCEPT ![c] = Tail(@)]
        /\ UNCHANGED <<current, dialled, stream, phase, result, ops, orphans, chunks, failure, waiter>>
        /\ phase[m] = "rejected" => /\ closing' = (closing \/ OwnsGeneration(c))
                                    /\ delivered' = delivered
        /\ phase[m] # "rejected" =>
              /\ closing' = closing
              /\ delivered' = IF OwnsGeneration(c) /\ result[m] # <<>>
                              THEN [delivered EXCEPT ![current] = Append(@, result[m])]
                              ELSE delivered
    BY DEF HandOn, inflater
  <1>2. /\ m = <<c, Taken(c) + 1>> /\ m \in Messages
        /\ Tail(queue[c]) \in Seq(Messages)
        /\ Taken(c) \in Nat /\ Taken(c) + 1 \in 1..MaxMessages
        /\ Len(stream[c]) \in Nat /\ Len(queue[c]) \in Nat
        /\ Len(Tail(queue[c])) = Len(queue[c]) - 1
        /\ \A k \in 1..Len(Tail(queue[c])) : Tail(queue[c])[k] = <<c, Taken(c) + (k + 1)>>
    BY <1>1, HeadOfChain
  <1> HIDE DEF m
  <1>3. /\ stream \in [TransportSockets -> Seq(Kinds)]
        /\ queue \in [TransportSockets -> Seq(Messages)]
        /\ delivered \in [TransportSockets -> Seq(Seq(Messages))]
        /\ result \in [Messages -> Seq(Messages)]
        /\ closing \in BOOLEAN
    BY DEF Wired, TransportTypeOK
  <1>4. closing' \in BOOLEAN
    <2>1. closing' = closing \/ closing' = (closing \/ OwnsGeneration(c))
      BY <1>1
    <2> QED BY <2>1, <1>3
  <1>5. queue' \in [TransportSockets -> Seq(Messages)] /\ queue'[c] = Tail(queue[c])
        /\ \A d \in TransportSockets \ {c} : queue'[d] = queue[d]
    BY <1>1, <1>2, <1>3
  <1>6. delivered' \in [TransportSockets -> Seq(Seq(Messages))]
        /\ \A d \in TransportSockets : d # c \/ c # current => delivered'[d] = delivered[d]
    <2>1. CASE phase[m] # "rejected" /\ OwnsGeneration(c) /\ result[m] # <<>>
      <3>1. current = c
        BY <2>1 DEF OwnsGeneration
      <3>2. delivered[c] \in Seq(Seq(Messages)) /\ result[m] \in Seq(Messages)
        BY <1>2, <1>3
      <3>3. Append(delivered[c], result[m]) \in Seq(Seq(Messages))
        BY <3>2
      <3> QED BY <1>1, <1>3, <2>1, <3>1, <3>3
    <2>2. CASE ~(phase[m] # "rejected" /\ OwnsGeneration(c) /\ result[m] # <<>>)
      BY <1>1, <1>3, <2>2
    <2> QED BY <2>1, <2>2
  <1>7. Taken(c)' = Taken(c) + 1 /\ \A d \in TransportSockets \ {c} : Taken(d)' = Taken(d)
    BY <1>1, <1>2, <1>3, <1>5 DEF Taken
  <1>8. Arrived' = Arrived /\ Mine' = Mine
    BY <1>1 DEF Arrived, Mine
  <1>9. TransportTypeOK'
    BY <1>1, <1>4, <1>5, <1>6 DEF Wired, TransportTypeOK
  <1>10. Undialled'
    <2> SUFFICES ASSUME NEW d \in TransportSockets, d > dialled
                 PROVE  stream[d] = <<>> /\ queue'[d] = <<>> /\ delivered'[d] = <<>>
      BY <1>1 DEF Undialled
    <2>1. stream[d] = <<>> /\ queue[d] = <<>> /\ delivered[d] = <<>>
      BY DEF Wired, Undialled
    <2>2. d # c
      BY <2>1, <1>1
    <2> QED BY <2>1, <2>2, <1>5, <1>6
  <1>11. Chained'
    <2> SUFFICES ASSUME NEW d \in TransportSockets
                 PROVE  /\ Len(stream[d]) <= MaxMessages /\ Len(queue'[d]) <= Len(stream[d])
                        /\ \A k \in 1..Len(queue'[d]) : queue'[d][k] = <<d, Taken(d)' + k>>
      BY <1>1 DEF Chained
    <2>1. /\ Len(stream[d]) <= MaxMessages /\ Len(queue[d]) <= Len(stream[d])
          /\ \A k \in 1..Len(queue[d]) : queue[d][k] = <<d, Taken(d) + k>>
      BY DEF Wired, Chained
    <2>2. CASE d # c
      BY <2>1, <2>2, <1>5, <1>7
    <2>3. CASE d = c
      <3>1. Len(Tail(queue[c])) <= Len(stream[c])
        BY <2>1, <2>3, <1>2
      <3>2. \A k \in 1..Len(Tail(queue[c])) : Taken(c) + (k + 1) = (Taken(c) + 1) + k
        BY <1>2
      <3> QED BY <2>1, <2>3, <3>1, <3>2, <1>2, <1>5, <1>7
    <2> QED BY <2>2, <2>3
  <1>12. Wired'
    BY <1>1, <1>8, <1>9, <1>10, <1>11 DEF Wired, Unsent, Outdated
  <1>13. c = current => m \in Mine /\ \A o \in Mine : o[2] \in Nat /\ (o[2] = Taken(c) + 1 => o = m)
    <2>1. \A o \in Mine : o \in Messages /\ o[1] = current
      BY DEF Mine
    <2>2. \A o \in Mine : o = <<current, o[2]>> /\ o[2] \in Nat
      BY <2>1, MessagesArePairs, CompressedAssumption
    <2> QED BY <2>2, <1>2, MessagesArePairs DEF Mine
  <1>14. closing' /\ ~closing => failure /\ c = current /\ phase[m] = "rejected"
    BY <1>1, <1>13 DEF OwnsGeneration, Lined, AllQueued
  <1>15. current # 0 => current \in TransportSockets
    BY CurrentFacts
  <1>16. Lined'
    <2>1. current = 0 => ~closing'
      <3>1. c # 0
        BY DEF TransportSockets
      <3>2. current = 0 => ~closing /\ ~OwnsGeneration(c)
        BY <3>1 DEF Lined, AsNew, OwnsGeneration
      <3> QED BY <1>1, <3>2
    <2>2. AsNew'
      BY <1>1, <2>1 DEF Lined, AsNew
    <2>3. Queued' /\ WaiterQueued' /\ AllQueued'
      BY <1>1, <1>8 DEF Lined, Queued, WaiterQueued, AllQueued, Before
    <2> QED BY <2>2, <2>3 DEF Lined
  <1>17. TakenInTurn'
    BY <1>1, <1>8 DEF Settled, TakenInTurn
  <1>18. current = 0 => Mine = {}
    BY MessagesArePairs DEF Mine, TransportSockets
  <1>19. HandedSettled'
    <2> SUFFICES ASSUME NEW o \in Mine, o[2] <= Taken(current)'
                 PROVE  phase[o] \in {"resolved", "rejected"}
      BY <1>1, <1>8 DEF HandedSettled
    <2>1. CASE c = current
      <3>1. o[2] <= Taken(c) \/ o = m
        BY <2>1, <1>1, <1>2, <1>7, <1>13
      <3> QED BY <2>1, <3>1, <1>1 DEF Settled, HandedSettled
    <2>2. CASE c # current
      <3>1. Taken(current)' = Taken(current)
        BY <2>2, <1>1, <1>7, <1>15, <1>18
      <3> QED BY <3>1 DEF Settled, HandedSettled
    <2> QED BY <2>1, <2>2
  <1>20. NothingBehind'
    <2> SUFFICES ASSUME closing'
                 PROVE  failure /\ \A o \in Mine : o[2] > Taken(current)' => result[o] = <<>>
      BY <1>1, <1>8 DEF NothingBehind
    <2>1. CASE closing
      <3>1. current # 0
        BY <2>1 DEF Lined, AsNew
      <3>2. Taken(current)' = Taken(current) \/ (c = current /\ Taken(current)' = Taken(current) + 1)
        BY <3>1, <1>1, <1>7, <1>15
      <3>3. \A o \in Mine : o[2] \in Nat /\ Taken(current) \in Nat
        BY <3>1, CurrentFacts
      <3>4. \A o \in Mine : o[2] > Taken(current)' => o[2] > Taken(current)
        BY <3>2, <3>3
      <3> QED BY <2>1, <3>4 DEF Settled, NothingBehind
    <2>2. CASE ~closing
      <3>1. failure /\ c = current /\ phase[m] = "rejected"
        BY <2>2, <1>14
      <3>2. \A o \in Mine : o[2] > Taken(current)' => m[2] <= o[2]
        BY <3>1, <1>2, <1>7, <1>13, <1>1
      <3> QED BY <3>1, <3>2, <1>13 DEF Settled, TakenInTurn
    <2> QED BY <2>1, <2>2
  <1> QED BY <1>12, <1>16, <1>17, <1>19, <1>20 DEF Settled

LEMMA StepKeeps ==
    ASSUME Wired, Lined, Settled, [TransportNext]_transportVars
    PROVE  Wired' /\ Lined' /\ Settled'
  <1>1. CASE UNCHANGED transportVars
    <2>1. UNCHANGED <<current, dialled, closing, stream, phase, result, ops, orphans,
                      chunks, failure, waiter, queue, delivered>>
      BY <1>1 DEF transportVars, inflater
    <2>2. Arrived' = Arrived /\ Mine' = Mine /\ \A c : Taken(c)' = Taken(c)
      BY <2>1 DEF Arrived, Mine, Taken
    <2>3. Wired'
      BY <2>1, <2>2 DEF Wired, TransportTypeOK, Undialled, Chained, Unsent, Outdated
    <2>4. Lined'
      <3>1. Queued' /\ WaiterQueued' /\ AsNew'
        BY <2>1, <2>2 DEF Lined, Queued, WaiterQueued, AsNew, Before
      <3>2. AllQueued'
        BY <2>1, <2>2, Zenon DEF Lined, AllQueued
      <3> QED BY <3>1, <3>2 DEF Lined
    <2>5. Settled'
      BY <2>1, <2>2 DEF Settled, TakenInTurn, HandedSettled, NothingBehind
    <2> QED BY <2>3, <2>4, <2>5
  <1>2. CASE TransportNext
    BY <1>2, ConnectKeeps, EndKeeps, MessageKeeps, InflateCorruptKeeps, InflateKeeps,
       FlushKeeps, OrphanKeeps, HandOnKeeps DEF TransportNext
  <1> QED BY <1>1, <1>2

\* Whatever arrives, fails, closes or calls back late, the state of the
\* receiving side is well typed.
THEOREM TransportTypesHold == TransportSpec => []TransportTypeOK
  <1> DEFINE IInv == Wired /\ Lined /\ Settled
  <1>1. TransportInit => IInv
    BY StartsWired
  <1>2. IInv /\ [TransportNext]_transportVars => IInv'
    BY StepKeeps
  <1>3. IInv => TransportTypeOK
    BY DEF Wired
  <1> QED BY <1>1, <1>2, <1>3, PTL DEF TransportSpec

\* A decoder that failed is not trusted again: once its failure has closed the
\* socket no frame of that socket is handed on, whatever was inflated before the
\* failure, is still queued, or calls back from an inflater that was closed.
THEOREM FailureIsFinalHolds == TransportSpec => FailureIsFinal
  <1> DEFINE IInv == Wired /\ Lined /\ Settled
             Final == closing /\ closing' => delivered' = delivered
  <1>1. TransportInit => IInv
    BY StartsWired
  <1>2. IInv /\ [TransportNext]_transportVars => IInv'
    BY StepKeeps
  <1>3. IInv /\ [TransportNext]_transportVars => [Final]_transportVars
    <2> SUFFICES ASSUME IInv, TransportNext, closing PROVE delivered' = delivered
      OBVIOUS
    <2>1. ASSUME NEW c \in TransportSockets, HandOn(c) PROVE delivered' = delivered
      <3> DEFINE m == Head(queue[c])
      <3>1. /\ queue[c] # <<>>
            /\ phase[m] = "rejected" => delivered' = delivered
            /\ phase[m] # "rejected" /\ ~(OwnsGeneration(c) /\ result[m] # <<>>)
                  => delivered' = delivered
        BY <2>1 DEF HandOn
      <3>2. CASE c # current
        BY <3>1, <3>2 DEF OwnsGeneration
      <3>3. CASE c = current
        <4>1. m = <<c, Taken(c) + 1>> /\ m \in Messages /\ Taken(c) \in Nat
          BY <3>1, HeadOfChain
        <4>2. m \in Mine /\ m[2] > Taken(current)
          BY <3>3, <4>1 DEF Mine
        <4>3. result[m] = <<>>
          BY <4>2 DEF Settled, NothingBehind
        <4> QED BY <3>1, <4>3
      <3> QED BY <3>2, <3>3
    <2> QED BY <2>1 DEF TransportNext, ConnectTransport, SocketEnds, Message,
                        InflateCorrupt, Inflate, Flush, OrphanReturns
  <1> QED BY <1>1, <1>2, <1>3, PTL DEF TransportSpec, FailureIsFinal

-----------------------------------------------------------------------------

\* Where the frames of the current socket's pushes end: f[i] messages are in
\* the frames of its first i messages, each of which goes on where the one
\* before ends.
Ends(f) ==
    /\ f[0] = 0
    /\ \A i \in 1..MaxMessages :
        LET frame == result[<<current, i>>]
        IN  /\ f[i - 1] <= f[i] /\ Len(frame) = f[i] - f[i - 1]
            /\ \A k \in 1..Len(frame) : frame[k] = <<current, f[i - 1] + k>>
            /\ (\A j \in i..MaxMessages : result[<<current, j>>] = <<>>)
                   => f[i - 1] = f[MaxMessages]

\* The bytes that are inflated and not taken are those that follow.
Inflated(f) ==
    /\ f[MaxMessages] + Len(chunks) <= Len(stream[current])
    /\ \A k \in 1..Len(chunks) : chunks[k] = <<current, f[MaxMessages] + k>>

\* What is still to be inflated comes after them.
ToInflate(f) ==
    ~failure => \A i \in 1..Len(stream[current]) :
        phase[<<current, i>>] = "write" <=> i > f[MaxMessages] + Len(chunks)

\* What was handed on ends with the frames of the messages that left the chain.
HandedUpTo(f) ==
    f[Taken(current)] = IF delivered[current] = <<>> THEN 0
                        ELSE LastOf(delivered[current][Len(delivered[current])])

Numberings == [0..MaxMessages -> Nat]
Laid(f) == Ends(f) /\ Inflated(f) /\ ToInflate(f) /\ HandedUpTo(f)
InOrder == current # 0 => \E f \in Numberings : Laid(f)

LEMMA LaidFacts ==
    ASSUME Wired, current # 0, NEW f \in Numberings
    PROVE  /\ MaxMessages \in Nat \ {0} /\ f[0] \in Nat /\ f[MaxMessages] \in Nat
           /\ \A i \in 1..MaxMessages :
                 /\ i - 1 \in 0..MaxMessages /\ f[i] \in Nat /\ f[i - 1] \in Nat
                 /\ result[<<current, i>>] \in Seq(Messages)
                 /\ Len(result[<<current, i>>]) \in Nat
                 /\ <<current, i>> \in Mine
           /\ Taken(current) \in 0..MaxMessages /\ f[Taken(current)] \in Nat
           /\ chunks \in Seq(Messages) /\ Len(chunks) \in Nat
           /\ Len(stream[current]) \in 0..MaxMessages
  <1>1. MaxMessages \in Nat \ {0}
    BY CompressedAssumption
  <1>2. f[0] \in Nat /\ f[MaxMessages] \in Nat
    BY <1>1 DEF Numberings
  <1>3. /\ \A i \in 1..MaxMessages : <<current, i>> \in Mine
        /\ \A m \in Mine : m \in Messages
        /\ Taken(current) \in 0..Len(stream[current]) /\ Len(stream[current]) \in 0..MaxMessages
    BY CurrentFacts
  <1>4. \A m \in Messages : result[m] \in Seq(Messages)
    BY DEF Wired, TransportTypeOK
  <1>5. \A i \in 1..MaxMessages : i - 1 \in 0..MaxMessages /\ f[i] \in Nat /\ f[i - 1] \in Nat
    BY <1>1 DEF Numberings
  <1>6. Taken(current) \in 0..MaxMessages
    BY <1>1, <1>3
  <1>7. f[Taken(current)] \in Nat
    BY <1>6 DEF Numberings
  <1>8. \A i \in 1..MaxMessages : /\ result[<<current, i>>] \in Seq(Messages)
                                  /\ Len(result[<<current, i>>]) \in Nat
    BY <1>3, <1>4
  <1>9. chunks \in Seq(Messages) /\ Len(chunks) \in Nat
    BY DEF Wired, TransportTypeOK
  <1> QED BY <1>1, <1>2, <1>3, <1>5, <1>6, <1>7, <1>8, <1>9

\* A step that takes nothing and hands nothing on keeps the numbering.
LEMMA SameEnds ==
    ASSUME NEW f, current' = current,
           \A i \in 1..MaxMessages : result'[<<current, i>>] = result[<<current, i>>],
           Ends(f)
    PROVE  Ends(f)'
  <1>1. \A i \in 1..MaxMessages : \A j \in i..MaxMessages : j \in 1..MaxMessages
    BY CompressedAssumption
  <1> SUFFICES ASSUME NEW i \in 1..MaxMessages
               PROVE  LET frame == result'[<<current, i>>]
                      IN  /\ f[i - 1] <= f[i] /\ Len(frame) = f[i] - f[i - 1]
                          /\ \A k \in 1..Len(frame) : frame[k] = <<current, f[i - 1] + k>>
                          /\ (\A j \in i..MaxMessages : result'[<<current, j>>] = <<>>)
                                 => f[i - 1] = f[MaxMessages]
    BY DEF Ends
  <1> QED BY <1>1 DEF Ends

LEMMA ConnectInOrder ==
    ASSUME Wired, ConnectTransport, Wired'
    PROVE  InOrder'
  <1> DEFINE f == [i \in 0..MaxMessages |-> 0]
  <1>1. /\ current' = dialled + 1 /\ chunks' = <<>>
        /\ UNCHANGED <<stream, phase, result, queue, delivered>> /\ dialled < MaxDials
    BY DEF ConnectTransport, Reset
  <1>2. dialled \in Nat /\ MaxDials \in Nat /\ MaxMessages \in Nat
    BY CompressedAssumption DEF Wired, TransportTypeOK
  <1>3. current' \in TransportSockets /\ current' > dialled
    BY <1>1, <1>2 DEF TransportSockets
  <1>4. stream'[current'] = <<>> /\ queue'[current'] = <<>> /\ delivered'[current'] = <<>>
    BY <1>1, <1>3 DEF Wired, Undialled
  <1>5. \A i \in 1..MaxMessages : result'[<<current', i>>] = <<>>
    <2> SUFFICES ASSUME NEW i \in 1..MaxMessages PROVE result[<<current', i>>] = <<>>
      BY <1>1
    <2>1. <<current', i>> \in Messages /\ <<current', i>> \notin Arrived
      BY <1>1, <1>3, <1>4, MessagesArePairs DEF Arrived
    <2> QED BY <2>1 DEF Wired, Unsent
  <1>6. f \in Numberings /\ \A i \in 0..MaxMessages : f[i] = 0
    BY DEF Numberings
  <1> HIDE DEF f
  <1>7. \A i \in 1..MaxMessages : i - 1 \in 0..MaxMessages /\ i \in 0..MaxMessages
    BY <1>2
  <1>8. Ends(f)'
    <2>0. f[0] = 0
      BY <1>2, <1>6
    <2> SUFFICES ASSUME NEW i \in 1..MaxMessages
                 PROVE  LET frame == result'[<<current', i>>]
                        IN  /\ f[i - 1] <= f[i] /\ Len(frame) = f[i] - f[i - 1]
                            /\ \A k \in 1..Len(frame) : frame[k] = <<current', f[i - 1] + k>>
                            /\ (\A j \in i..MaxMessages : result'[<<current', j>>] = <<>>)
                                   => f[i - 1] = f[MaxMessages]
      BY <2>0 DEF Ends
    <2>1. f[i] = 0 /\ f[i - 1] = 0 /\ f[MaxMessages] = 0
      BY <1>2, <1>6, <1>7
    <2>2. result'[<<current', i>>] = <<>>
      BY <1>5
    <2> QED BY <2>1, <2>2, NoList
  <1>9. Inflated(f)' /\ ToInflate(f)'
    BY <1>1, <1>2, <1>4, <1>6, NoList DEF Inflated, ToInflate
  <1>10. HandedUpTo(f)'
    <2>1. Taken(current)' = 0
      BY <1>4, NoList DEF Taken
    <2> QED BY <1>2, <1>4, <1>6, <2>1 DEF HandedUpTo
  <1> QED BY <1>6, <1>8, <1>9, <1>10 DEF InOrder, Laid

LEMMA MessageInOrder ==
    ASSUME Wired, Lined, Settled, NEW kind \in Kinds, Message(kind), InOrder
    PROVE  InOrder'
  <1> DEFINE n == Len(stream[current])
             m == <<current, n + 1>>
  <1>1. /\ current # 0 /\ Cardinality(Arrived) < MaxMessages
        /\ stream' = [stream EXCEPT ![current] = Append(@, kind)]
        /\ queue' = [queue EXCEPT ![current] = Append(@, m)]
        /\ UNCHANGED <<current, result, chunks, failure, delivered>>
        /\ ~failure => phase' = [phase EXCEPT ![m] = "write"]
    BY DEF Message
  <1>2. PICK f \in Numberings : Laid(f)
    BY <1>1 DEF InOrder
  <1>3. /\ current \in TransportSockets /\ n \in Nat /\ n < MaxMessages /\ MaxMessages \in Nat
        /\ Len(queue[current]) \in Nat
    BY <1>1, Room, CurrentFacts, CompressedAssumption
  <1>4. m \in Messages
    BY <1>3, MessagesArePairs
  <1>5. stream \in [TransportSockets -> Seq(Kinds)] /\ queue \in [TransportSockets -> Seq(Messages)]
    BY DEF Wired, TransportTypeOK
  <1>6. stream[current] \in Seq(Kinds) /\ queue[current] \in Seq(Messages)
    BY <1>3, <1>5
  <1>7. Len(stream'[current]) = n + 1 /\ Len(queue'[current]) = Len(queue[current]) + 1
    BY <1>1, <1>3, <1>4, <1>5, <1>6, ListAppend
  <1>8. Taken(current)' = Taken(current)
    <2> DEFINE a == Len(stream'[current'])
               b == Len(queue'[current'])
               q == Len(queue[current])
    <2>1. a = n + 1 /\ b = q + 1 /\ n \in Nat /\ q \in Nat
      BY <1>1, <1>3, <1>7
    <2> HIDE DEF a, b, n, q
    <2>2. a - b = n - q
      BY <2>1
    <2> QED BY <2>2 DEF Taken, a, b, n, q
  <1>9. /\ f[MaxMessages] \in Nat /\ Len(chunks) \in Nat /\ Len(stream[current]) \in Nat
        /\ phase \in [Messages -> Phases]
    BY <1>1, LaidFacts DEF Wired, TransportTypeOK
  <1>10. Ends(f)'
    BY <1>1, <1>2, SameEnds DEF Laid
  <1>11. Inflated(f)'
    <2>1. /\ f[MaxMessages] + Len(chunks) <= Len(stream[current])
          /\ \A k \in 1..Len(chunks) : chunks[k] = <<current, f[MaxMessages] + k>>
      BY <1>2 DEF Laid, Inflated
    <2>2. f[MaxMessages] + Len(chunks) <= n + 1
      BY <2>1, <1>3, <1>9
    <2>3. chunks' = chunks /\ current' = current /\ Len(stream'[current']) = n + 1
      BY <1>1, <1>7
    <2> HIDE DEF n, m
    <2> QED BY <2>1, <2>2, <2>3 DEF Inflated
  <1>12. ToInflate(f)'
    <2> SUFFICES ASSUME ~failure, NEW i \in 1..(n + 1)
                 PROVE  phase'[<<current, i>>] = "write" <=> i > f[MaxMessages] + Len(chunks)
      BY <1>1, <1>7 DEF ToInflate
    <2>1. phase' = [phase EXCEPT ![m] = "write"] /\ f[MaxMessages] + Len(chunks) <= n
      BY <1>1, <1>2 DEF Laid, Inflated
    <2>2. CASE i = n + 1
      BY <2>1, <2>2, <1>4, <1>9
    <2>3. CASE i \in 1..n
      <3>1. phase'[<<current, i>>] = phase[<<current, i>>]
        <4>1. <<current, i>> \in Messages /\ <<current, i>> # m
          BY <2>3, <1>3, MessagesArePairs
        <4> QED BY <4>1, <2>1, <1>9
      <3> QED BY <3>1, <2>3, <1>2 DEF Laid, ToInflate
    <2> QED BY <2>2, <2>3, <1>3
  <1>13. HandedUpTo(f)'
    BY <1>1, <1>2, <1>8 DEF Laid, HandedUpTo
  <1> QED BY <1>2, <1>10, <1>11, <1>12, <1>13 DEF InOrder, Laid

LEMMA InflateCorruptInOrder ==
    ASSUME InflateCorrupt, InOrder
    PROVE  InOrder'
  <1>1. UNCHANGED <<current, stream, result, chunks, queue, delivered>> /\ failure'
    BY DEF InflateCorrupt, FailureAfter
  <1>2. CASE current = 0
    BY <1>1, <1>2 DEF InOrder
  <1>3. CASE current # 0
    <2>1. PICK f \in Numberings : Laid(f)
      BY <1>3 DEF InOrder
    <2>2. Ends(f)'
      BY <1>1, <2>1, SameEnds DEF Laid
    <2>3. Inflated(f)' /\ ToInflate(f)' /\ HandedUpTo(f)'
      BY <1>1, <2>1 DEF Laid, Inflated, ToInflate, HandedUpTo, Taken
    <2> QED BY <2>1, <2>2, <2>3 DEF InOrder, Laid
  <1> QED BY <1>2, <1>3

LEMMA InflateInOrder ==
    ASSUME Wired, Lined, Settled, Inflate, InOrder
    PROVE  InOrder'
  <1> DEFINE m == Head(ops)[1]
             large == KindOf(m) = "large" /\ ~failure
             told == IF large THEN Rejected ELSE phase
  <1>1. /\ ops # <<>> /\ Head(ops)[2] = "write"
        /\ failure' = FailureAfter(KindOf(m)) /\ KindOf(m) # "corrupt"
        /\ chunks' = IF large THEN <<>> ELSE IF failure THEN chunks ELSE Append(chunks, m)
        /\ UNCHANGED <<current, stream, result, queue, delivered>>
    BY DEF Inflate
  <1>2. ~failure' => \/ phase' = [told EXCEPT ![m] = "resolved"]
                     \/ phase' = [phase EXCEPT ![m] = "flush"]
    BY DEF Inflate
  <1>3. /\ m \in Messages /\ m \in Mine /\ m \in Arrived /\ current # 0
        /\ phase[m] = "write" \/ (failure /\ phase[m] = "rejected")
        /\ \A k \in 2..Len(ops) : Before(Head(ops), ops[k])
    <2>1. \A k \in 2..Len(ops) : k - 1 \in 1..Len(Tail(ops)) /\ Tail(ops)[k - 1] = ops[k]
      BY <1>1, Popped
    <2>2. \A k \in 1..Len(Tail(ops)) : Before(Head(ops), Tail(ops)[k])
      BY <1>1, Popped
    <2>3. \A k \in 2..Len(ops) : Before(Head(ops), ops[k])
      BY <2>1, <2>2
    <2> QED BY <2>3, <1>1, Popped
  <1>4. PICK f \in Numberings : Laid(f)
    BY <1>3 DEF InOrder
  <1>5. /\ f[MaxMessages] \in Nat /\ chunks \in Seq(Messages) /\ Len(chunks) \in Nat
        /\ Len(stream[current]) \in Nat /\ phase \in [Messages -> Phases]
    BY <1>3, <1>4, LaidFacts DEF Wired, TransportTypeOK
  <1>6. Ends(f)' /\ HandedUpTo(f)'
    BY <1>1, <1>4, SameEnds DEF Laid, HandedUpTo, Taken
  <1>7. CASE failure'
    <2>1. chunks' = <<>> \/ chunks' = chunks
      BY <1>1, <1>7 DEF FailureAfter
    <2>2. Inflated(f)'
      BY <1>1, <1>4, <1>5, <2>1, NoList DEF Laid, Inflated
    <2> QED BY <1>4, <1>6, <1>7, <2>2 DEF InOrder, Laid, ToInflate
  <1>8. CASE ~failure'
    <2>1. ~failure /\ ~large /\ chunks' = Append(chunks, m)
      BY <1>1, <1>8 DEF FailureAfter
    <2>2. phase' = [phase EXCEPT ![m] = "resolved"] \/ phase' = [phase EXCEPT ![m] = "flush"]
      BY <1>2, <1>8, <2>1
    <2> HIDE DEF m, large, told
    <2> DEFINE base == f[MaxMessages] + Len(chunks)
               next == base + 1
               x == m[2]
    <2>3. m = <<current, x>> /\ x \in 1..Len(stream[current]) /\ Len(stream[current]) <= MaxMessages
      BY <1>3, CurrentFacts
    <2> HIDE DEF x
    <2>0. base \in Nat
      BY <1>5
    <2>4. x >= next
      <3>1. phase[m] = "write"
        BY <1>3, <2>1
      <3>2. x > base
        BY <3>1, <2>1, <2>3, <1>4 DEF Laid, ToInflate
      <3> HIDE DEF base
      <3> QED BY <3>2, <2>0, <2>3, <1>5
    <2>5. x = next
      <3> HIDE DEF base
      <3> SUFFICES ASSUME x > next PROVE FALSE
        BY <2>0, <2>3, <2>4, <1>5
      <3> DEFINE o == <<current, next>>
      <3>1. next \in 1..Len(stream[current]) /\ next \in Nat
        BY <2>0, <2>3, <1>5
      <3>2. next \in 1..MaxMessages
        BY <3>1, <2>3, <1>5, CompressedAssumption
      <3> HIDE DEF next
      <3>3. o \in Mine /\ o \in Arrived /\ o[2] = next
        BY <3>1, <3>2, <1>3, CurrentFacts
      <3>4. phase[o] = "write"
        <4>1. next > base
          BY <2>0 DEF next
        <4> QED BY <3>1, <4>1, <2>1, <1>4 DEF Laid, ToInflate, base
      <3> HIDE DEF o
      <3>5. PICK k \in 1..Len(ops) : ops[k] = <<o, "write">>
        BY <3>3, <3>4, <2>1 DEF Lined, AllQueued
      <3>6. Head(ops) = ops[1] /\ Head(ops) = <<m, "write">> /\ Len(ops) \in Nat
        BY <1>1, Popped DEF m
      <3>7. k # 1
        <4>1. m # o
          BY <3>3, <3>1, <2>3
        <4> QED BY <4>1, <3>5, <3>6
      <3>8. Before(Head(ops), ops[k])
        BY <3>5, <3>6, <3>7, <1>3
      <3>9. m[2] = x
        BY DEF x
      <3> QED BY <3>1, <3>3, <3>5, <3>6, <3>8, <3>9, <2>3 DEF Before
    <2>6. /\ Len(chunks') = Len(chunks) + 1 /\ chunks'[Len(chunks) + 1] = m
          /\ \A k \in 1..Len(chunks) : chunks'[k] = chunks[k]
          /\ \A k \in 1..Len(chunks') : k \in 1..Len(chunks) \/ k = Len(chunks) + 1
      BY <2>1, <1>3, <1>5, ListAppend
    <2>7. m = <<current, f[MaxMessages] + (Len(chunks) + 1)>>
      <3>1. next = f[MaxMessages] + (Len(chunks) + 1)
        BY <1>5
      <3> QED BY <2>3, <2>5, <3>1
    <2>8. Inflated(f)'
      <3>1. f[MaxMessages] + Len(chunks') <= Len(stream[current])
        BY <2>3, <2>5, <2>6, <1>5
      <3>2. \A k \in 1..Len(chunks') : chunks'[k] = <<current, f[MaxMessages] + k>>
        BY <2>6, <2>7, <1>4 DEF Laid, Inflated
      <3> QED BY <3>1, <3>2, <1>1 DEF Inflated
    <2>9. ToInflate(f)'
      <3> SUFFICES ASSUME NEW i \in 1..Len(stream[current])
                   PROVE  phase'[<<current, i>>] = "write" <=> i > f[MaxMessages] + Len(chunks')
        BY <1>1 DEF ToInflate
      <3>1. phase[<<current, i>>] = "write" <=> i > f[MaxMessages] + Len(chunks)
        BY <2>1, <1>4 DEF Laid, ToInflate
      <3>2. CASE i = x
        BY <3>2, <2>2, <2>3, <2>5, <2>6, <1>3, <1>5
      <3>3. CASE i # x
        <4>1. <<current, i>> # m /\ <<current, i>> \in Messages
          <5>1. i \in 1..MaxMessages
            BY <2>3, <1>5, CompressedAssumption
          <5> QED BY <5>1, <3>3, <2>3, <1>3, CurrentFacts
        <4>2. phase'[<<current, i>>] = phase[<<current, i>>]
          BY <4>1, <2>2, <1>5
        <4>3. i > base <=> i > base + 1
          <5> HIDE DEF base
          <5> QED BY <3>3, <2>0, <2>5
        <4>4. f[MaxMessages] + Len(chunks') = base + 1
          BY <2>6, <1>5
        <4> QED BY <4>2, <4>3, <4>4, <3>1
      <3> QED BY <3>2, <3>3
    <2> QED BY <1>4, <1>6, <2>8, <2>9 DEF InOrder, Laid
  <1> QED BY <1>7, <1>8

LEMMA FlushInOrder ==
    ASSUME Wired, Lined, Settled, Flush, InOrder
    PROVE  InOrder'
  <1> DEFINE m == Head(ops)[1]
  <1>1. /\ ops # <<>> /\ Head(ops)[2] = "flush"
        /\ UNCHANGED <<current, stream, failure, queue, delivered>>
        /\ failure => result' = result /\ chunks' = chunks
        /\ ~failure => /\ phase' = [phase EXCEPT ![m] = "resolved"]
                       /\ result' = [result EXCEPT ![m] = chunks] /\ chunks' = <<>>
    BY DEF Flush
  <1>2. /\ m \in Messages /\ m \in Mine /\ m \in Arrived /\ current # 0
        /\ phase[m] = "flush" \/ (failure /\ phase[m] = "rejected")
    BY <1>1, Popped
  <1> HIDE DEF m
  <1>3. PICK f \in Numberings : Laid(f)
    BY <1>2 DEF InOrder
  <1>4. CASE failure
    <2>1. Ends(f)'
      BY <1>1, <1>3, <1>4, SameEnds DEF Laid
    <2>2. Inflated(f)' /\ ToInflate(f)' /\ HandedUpTo(f)'
      BY <1>1, <1>3, <1>4 DEF Laid, Inflated, ToInflate, HandedUpTo, Taken
    <2> QED BY <1>3, <2>1, <2>2 DEF InOrder, Laid
  <1>5. CASE ~failure
    <2> DEFINE i == m[2]
               top == f[MaxMessages] + Len(chunks)
               jump == [j \in 0..MaxMessages |-> IF j < i THEN f[j] ELSE top]
    <2>1. /\ MaxMessages \in Nat \ {0} /\ f[0] \in Nat /\ f[MaxMessages] \in Nat
          /\ \A j \in 1..MaxMessages :
                /\ j - 1 \in 0..MaxMessages /\ f[j] \in Nat /\ f[j - 1] \in Nat
                /\ result[<<current, j>>] \in Seq(Messages)
                /\ Len(result[<<current, j>>]) \in Nat
                /\ <<current, j>> \in Mine
          /\ Taken(current) \in 0..MaxMessages /\ f[Taken(current)] \in Nat
          /\ chunks \in Seq(Messages) /\ Len(chunks) \in Nat
          /\ Len(stream[current]) \in 0..MaxMessages
      BY <1>2, LaidFacts
    <2>2. m = <<current, i>> /\ i \in 1..MaxMessages
      BY <1>2, CurrentFacts
    <2> HIDE DEF i
    <2>3. top \in Nat /\ top >= f[MaxMessages]
      BY <2>1
    <2>4. phase[m] = "flush"
      BY <1>2, <1>5
    <2>5. /\ phase \in [Messages -> Phases] /\ result \in [Messages -> Seq(Messages)]
          /\ \A o \in Mine : o \in Messages
      BY DEF Wired, TransportTypeOK, Mine
    <2>6. \A j \in i..MaxMessages : j \in 1..MaxMessages /\ result[<<current, j>>] = <<>>
      <3> SUFFICES ASSUME NEW j \in i..MaxMessages
                   PROVE  j \in 1..MaxMessages /\ result[<<current, j>>] = <<>>
        OBVIOUS
      <3>1. j \in 1..MaxMessages /\ i <= j
        BY <2>1, <2>2
      <3>2. <<current, j>> \in Mine
        BY <2>1, <3>1
      <3>3. i = m[2]
        BY DEF i
      <3> QED BY <1>2, <2>4, <3>1, <3>2, <3>3 DEF Settled, TakenInTurn
    <2>7. f[i - 1] = f[MaxMessages]
      BY <1>3, <2>2, <2>6 DEF Laid, Ends
    <2>8. PICK g \in Numberings :
             /\ g[MaxMessages] = top
             /\ \A j \in 0..MaxMessages : g[j] = IF j < i THEN f[j] ELSE top
      <3>1. \A j \in 0..MaxMessages : f[j] \in Nat
        BY DEF Numberings
      <3>2. /\ jump \in Numberings /\ jump[MaxMessages] = top
            /\ \A j \in 0..MaxMessages : jump[j] = IF j < i THEN f[j] ELSE top
        <4> HIDE DEF top
        <4> QED BY <2>1, <2>2, <2>3, <3>1 DEF Numberings
      <3> HIDE DEF jump
      <3> QED BY <3>2
    <2>9. /\ result'[m] = chunks /\ chunks' = <<>>
          /\ \A o \in Mine : o # m => result'[o] = result[o] /\ phase'[o] = phase[o]
          /\ phase'[m] = "resolved"
      BY <1>1, <1>2, <1>5, <2>5
    <2>10. Ends(g)'
      <3>1. g[0] = 0
        <4>1. f[0] = 0 /\ 0 \in 0..MaxMessages /\ 0 < i
          BY <1>3, <2>1, <2>2 DEF Laid, Ends
        <4> HIDE DEF top
        <4> QED BY <4>1, <2>8
      <3> SUFFICES ASSUME NEW j \in 1..MaxMessages
                   PROVE  LET frame == result'[<<current, j>>]
                          IN  /\ g[j - 1] <= g[j] /\ Len(frame) = g[j] - g[j - 1]
                              /\ \A k \in 1..Len(frame) : frame[k] = <<current, g[j - 1] + k>>
                              /\ (\A l \in j..MaxMessages : result'[<<current, l>>] = <<>>)
                                     => g[j - 1] = g[MaxMessages]
        BY <3>1, <1>1 DEF Ends
      <3> DEFINE frame == result'[<<current, j>>]
                 old == result[<<current, j>>]
      <3>2. /\ f[j - 1] <= f[j] /\ Len(old) = f[j] - f[j - 1]
            /\ \A k \in 1..Len(old) : old[k] = <<current, f[j - 1] + k>>
            /\ (\A l \in j..MaxMessages : result[<<current, l>>] = <<>>)
                   => f[j - 1] = f[MaxMessages]
        BY <1>3 DEF Laid, Ends
      <3>3. /\ f[j] \in Nat /\ f[j - 1] \in Nat /\ <<current, j>> \in Mine
            /\ j \in 0..MaxMessages /\ j - 1 \in 0..MaxMessages /\ j \in Nat
        BY <2>1
      <3>4. j # i => frame = old
        BY <2>2, <2>9, <3>3
      <3>5. CASE j < i
        <4>1. g[j] = f[j] /\ g[j - 1] = f[j - 1] /\ frame = old
          BY <2>2, <2>8, <3>3, <3>4, <3>5
        <4>2. ASSUME \A l \in j..MaxMessages : result'[<<current, l>>] = <<>>
              PROVE  g[j - 1] = g[MaxMessages]
          <5>1. chunks = <<>>
            <6>1. i \in j..MaxMessages
              BY <2>1, <2>2, <3>3, <3>5
            <6> QED BY <6>1, <4>2, <2>2, <2>9
          <5>2. top = f[MaxMessages]
            BY <5>1, <2>1
          <5>3. \A l \in j..MaxMessages : result[<<current, l>>] = <<>>
            <6> SUFFICES ASSUME NEW l \in j..MaxMessages PROVE result[<<current, l>>] = <<>>
              OBVIOUS
            <6>1. l \in 1..MaxMessages
              BY <2>1, <3>3
            <6>2. <<current, l>> \in Mine
              BY <6>1, <2>1
            <6>3. CASE l = i
              <7>1. i \in i..MaxMessages
                BY <2>2, <2>1
              <7> QED BY <7>1, <6>3, <2>6
            <6>4. CASE l # i
              BY <6>2, <6>4, <4>2, <2>2, <2>9
            <6> QED BY <6>3, <6>4
          <5> QED BY <5>2, <5>3, <4>1, <3>2, <2>8
        <4> QED BY <4>1, <4>2, <3>2
      <3>6. CASE j = i
        <4>1. g[j] = top /\ g[j - 1] = f[MaxMessages] /\ frame = chunks
          BY <2>2, <2>7, <2>8, <2>9, <3>3, <3>6
        <4>2. \A k \in 1..Len(chunks) : chunks[k] = <<current, f[MaxMessages] + k>>
          BY <1>3 DEF Laid, Inflated
        <4>3. top - f[MaxMessages] = Len(chunks)
          BY <2>1
        <4>4. ASSUME \A l \in j..MaxMessages : result'[<<current, l>>] = <<>>
              PROVE  f[MaxMessages] = top
          <5>1. j \in j..MaxMessages
            BY <2>1, <3>3
          <5>2. chunks = <<>>
            BY <5>1, <4>4, <4>1
          <5> QED BY <5>2, <2>1
        <4> QED BY <4>1, <4>2, <4>3, <4>4, <2>3, <2>8
      <3>7. CASE j > i
        <4>1. g[j] = top /\ g[j - 1] = top /\ g[MaxMessages] = top
          BY <2>2, <2>8, <3>3, <3>7
        <4>2. frame = <<>>
          <5>1. j \in i..MaxMessages
            BY <2>2, <3>3, <3>7, <2>1
          <5> QED BY <5>1, <2>6, <3>4, <3>7, <2>2
        <4>3. top - top = 0
          BY <2>3
        <4> HIDE DEF top
        <4> QED BY <4>1, <4>2, <4>3, <2>3, NoList
      <3>8. j < i \/ j = i \/ j > i
        BY <2>2
      <3> QED BY <3>5, <3>6, <3>7, <3>8
    <2>11. Inflated(g)'
      BY <1>1, <1>3, <2>1, <2>8, <2>9, NoList DEF Laid, Inflated
    <2>12. ToInflate(g)'
      <3> SUFFICES ASSUME NEW j \in 1..Len(stream[current])
                   PROVE  phase'[<<current, j>>] = "write" <=> j > top + Len(chunks')
        BY <1>1, <2>8 DEF ToInflate
      <3>1. top + Len(chunks') = top
        BY <2>3, <2>9, NoList
      <3>2. phase[<<current, j>>] = "write" <=> j > top
        BY <1>3, <1>5 DEF Laid, ToInflate
      <3>3. <<current, j>> \in Mine
        BY <2>1
      <3>4. phase'[<<current, j>>] = "write" <=> phase[<<current, j>>] = "write"
        BY <3>3, <2>4, <2>9
      <3> QED BY <3>1, <3>2, <3>4
    <2>13. HandedUpTo(g)'
      <3>1. Taken(current) < i
        <4>1. m[2] = i /\ i \in Nat
          BY <2>2 DEF i
        <4>2. ~(m[2] <= Taken(current))
          BY <1>2, <2>4 DEF Settled, HandedSettled
        <4> QED BY <4>1, <4>2, <2>1
      <3>2. g[Taken(current)] = f[Taken(current)]
        BY <3>1, <2>1, <2>8
      <3>3. Taken(current)' = Taken(current) /\ delivered' = delivered /\ current' = current
        BY <1>1 DEF Taken
      <3> QED BY <3>2, <3>3, <1>3 DEF Laid, HandedUpTo
    <2> QED BY <2>8, <2>10, <2>11, <2>12, <2>13 DEF InOrder, Laid
  <1> QED BY <1>4, <1>5

\* An inflater that is closed before the next message arrives has nothing of the
\* current socket to take.
LEMMA OrphanInOrder ==
    ASSUME ~Late, Wired, OrphanReturns, InOrder
    PROVE  InOrder'
  <1>1. PICK o \in orphans :
           LET takes == ~failure /\ (o[2] = "flush" \/ KindOf(o[1]) # "part")
           IN  /\ current # 0 => stream[current] = <<>>
               /\ phase' = [phase EXCEPT ![o[1]] = IF failure THEN "rejected" ELSE "resolved"]
               /\ result' = [result EXCEPT ![o[1]] = IF takes THEN chunks ELSE @]
               /\ chunks' = IF takes THEN <<>> ELSE chunks
               /\ UNCHANGED <<current, stream, failure, queue, delivered>>
    BY DEF OrphanReturns
  <1>2. CASE current = 0
    BY <1>1, <1>2 DEF InOrder
  <1>3. CASE current # 0
    <2>1. PICK f \in Numberings : Laid(f)
      BY <1>3 DEF InOrder
    <2>2. /\ f[MaxMessages] \in Nat /\ chunks \in Seq(Messages) /\ Len(chunks) \in Nat
          /\ \A i \in 1..MaxMessages : <<current, i>> \in Mine
      BY <1>3, LaidFacts
    <2>3. chunks = <<>>
      <3>1. f[MaxMessages] + Len(chunks) <= 0
        BY <1>1, <1>3, <2>1, NoList DEF Laid, Inflated
      <3> QED BY <3>1, <2>2
    <2>4. chunks' = chunks
      BY <1>1, <2>3
    <2>5. o[1] \notin Mine /\ \A m \in Mine : m \in Messages
      BY DEF Wired, Outdated, Mine
    <2>6. phase \in [Messages -> Phases] /\ result \in [Messages -> Seq(Messages)]
      BY DEF Wired, TransportTypeOK
    <2>7. \A m \in Mine : phase'[m] = phase[m] /\ result'[m] = result[m]
      BY <1>1, <2>5, <2>6
    <2>8. Ends(f)'
      BY <1>1, <2>1, <2>2, <2>7, SameEnds DEF Laid
    <2>9. Inflated(f)' /\ HandedUpTo(f)'
      BY <1>1, <2>1, <2>4 DEF Laid, Inflated, HandedUpTo, Taken
    <2>10. ToInflate(f)'
      BY <1>1, <1>3, NoList DEF ToInflate
    <2> QED BY <2>1, <2>8, <2>9, <2>10 DEF InOrder, Laid
  <1> QED BY <1>2, <1>3

\* What the head of the current chain brings is what follows on the frames that
\* were handed on before it.
LEMMA HandOnInOrder ==
    ASSUME Wired, Lined, Settled, NEW c \in TransportSockets, HandOn(c), InOrder, BytesInOrder
    PROVE  InOrder' /\ BytesInOrder'
  <1> DEFINE m == Head(queue[c])
  <1>1. /\ queue[c] # <<>> /\ phase[m] \in {"resolved", "rejected"}
        /\ queue' = [queue EXCEPT ![c] = Tail(@)]
        /\ UNCHANGED <<current, stream, phase, result, chunks, failure>>
        /\ phase[m] = "rejected" => delivered' = delivered
        /\ phase[m] # "rejected" =>
              delivered' = IF OwnsGeneration(c) /\ result[m] # <<>>
                           THEN [delivered EXCEPT ![current] = Append(@, result[m])]
                           ELSE delivered
    BY DEF HandOn, inflater
  <1>2. /\ m = <<c, Taken(c) + 1>> /\ m \in Messages
        /\ Tail(queue[c]) \in Seq(Messages)
        /\ Taken(c) \in Nat /\ Taken(c) + 1 \in 1..MaxMessages
        /\ Len(stream[c]) \in Nat /\ Len(queue[c]) \in Nat
        /\ Len(Tail(queue[c])) = Len(queue[c]) - 1
    BY <1>1, HeadOfChain
  <1> HIDE DEF m
  <1>3. /\ stream \in [TransportSockets -> Seq(Kinds)]
        /\ queue \in [TransportSockets -> Seq(Messages)]
        /\ delivered \in [TransportSockets -> Seq(Seq(Messages))]
        /\ result \in [Messages -> Seq(Messages)]
    BY DEF Wired, TransportTypeOK
  <1>4. queue'[c] = Tail(queue[c]) /\ \A d \in TransportSockets \ {c} : queue'[d] = queue[d]
    BY <1>1, <1>2, <1>3
  <1>5. Taken(c)' = Taken(c) + 1 /\ \A d \in TransportSockets \ {c} : Taken(d)' = Taken(d)
    BY <1>1, <1>2, <1>3, <1>4 DEF Taken
  <1>6. CASE c # current
    <2>1. delivered' = delivered
      BY <1>1, <1>6 DEF OwnsGeneration
    <2>2. BytesInOrder'
      BY <2>1 DEF BytesInOrder
    <2>3. CASE current = 0
      BY <1>1, <2>2, <2>3 DEF InOrder
    <2>4. CASE current # 0
      <3>1. PICK f \in Numberings : Laid(f)
        BY <2>4 DEF InOrder
      <3>2. Taken(current)' = Taken(current)
        BY <1>1, <1>5, <1>6, <2>4, CurrentFacts
      <3>3. Ends(f)'
        BY <1>1, <3>1, SameEnds DEF Laid
      <3>4. Inflated(f)' /\ ToInflate(f)' /\ HandedUpTo(f)'
        BY <1>1, <2>1, <3>1, <3>2 DEF Laid, Inflated, ToInflate, HandedUpTo
      <3> QED BY <2>2, <3>1, <3>3, <3>4 DEF InOrder, Laid
    <2> QED BY <2>3, <2>4
  <1>7. CASE c = current
    <2>1. current # 0
      BY <1>7 DEF TransportSockets
    <2>2. PICK f \in Numberings : Laid(f)
      BY <2>1 DEF InOrder
    <2> DEFINE t == Taken(c)
               frame == result[m]
               old == delivered[c]
    <2>3. t \in Nat /\ t + 1 \in 1..MaxMessages /\ (t + 1) - 1 = t /\ m = <<c, t + 1>>
      BY <1>2
    <2> HIDE DEF t
    <2>4. f[t] \in Nat /\ f[t + 1] \in Nat
      BY <2>1, <2>3, LaidFacts
    <2>5. frame \in Seq(Messages) /\ Len(frame) \in Nat
      BY <1>2, <1>3
    <2>6. old \in Seq(Seq(Messages)) /\ Len(old) \in Nat
      BY <1>3
    <2> HIDE DEF old
    <2>7. /\ Len(frame) = f[t + 1] - f[t]
          /\ \A k \in 1..Len(frame) : frame[k] = <<c, f[t] + k>>
      BY <1>7, <2>2, <2>3 DEF Laid, Ends
    <2>8. f[t] = IF old = <<>> THEN 0 ELSE LastOf(old[Len(old)])
      BY <1>7, <2>2 DEF Laid, HandedUpTo, t, old
    <2>9. Taken(current)' = t + 1
      BY <1>1, <1>5, <1>7 DEF t
    <2>10. Ends(f)'
      BY <1>1, <2>2, SameEnds DEF Laid
    <2>11. Inflated(f)' /\ ToInflate(f)'
      BY <1>1, <2>2 DEF Laid, Inflated, ToInflate
    <2>12. phase[m] = "rejected" => frame = <<>>
      <3>1. m \in Mine /\ m[2] <= m[2]
        BY <1>2, <1>7, <2>3 DEF Mine
      <3> QED BY <3>1 DEF Settled, TakenInTurn
    <2> HIDE DEF frame
    <2>13. CASE frame = <<>>
      <3>1. delivered' = delivered
        BY <1>1, <2>13 DEF frame
      <3>2. f[t + 1] = f[t]
        BY <2>4, <2>7, <2>13, NoList
      <3>3. HandedUpTo(f)'
        BY <1>1, <1>7, <2>8, <2>9, <3>1, <3>2 DEF HandedUpTo, old
      <3>4. BytesInOrder'
        BY <3>1 DEF BytesInOrder
      <3> QED BY <2>2, <2>10, <2>11, <3>3, <3>4 DEF InOrder, Laid
    <2>14. CASE frame # <<>>
      <3> DEFINE new == Append(old, frame)
      <3>1. delivered' = [delivered EXCEPT ![c] = new]
        BY <1>1, <1>7, <2>12, <2>14 DEF frame, old, OwnsGeneration
      <3>2. /\ Len(new) = Len(old) + 1 /\ new[Len(old) + 1] = frame /\ new # <<>>
            /\ \A k \in 1..Len(old) : new[k] = old[k] /\ k \in 1..Len(new)
            /\ \A k \in 1..Len(new) : k \in 1..Len(old) \/ k = Len(old) + 1
            /\ DOMAIN new = 1..Len(new) /\ DOMAIN old = 1..Len(old)
        <4>1. frame \in Seq(Messages)
          BY <2>5
        <4> QED BY <4>1, <2>6, ListAppend
      <3> HIDE DEF new
      <3>3. delivered'[c] = new /\ \A d \in TransportSockets \ {c} : delivered'[d] = delivered[d]
        BY <1>3, <3>1
      <3>4. LastOf(frame) = f[t + 1]
        <4>1. Len(frame) \in 1..Len(frame)
          BY <2>5, <2>14
        <4>2. frame[Len(frame)] = <<c, f[t] + Len(frame)>>
          BY <4>1, <2>7
        <4>3. f[t] + Len(frame) = f[t + 1]
          BY <2>4, <2>7
        <4> QED BY <4>2, <4>3 DEF LastOf
      <3>5. HandedUpTo(f)'
        <4>1. f[t + 1] = LastOf(new[Len(new)])
          BY <3>2, <3>4
        <4>2. f[Taken(current)'] = LastOf(delivered'[current'][Len(delivered'[current'])])
          BY <1>1, <1>7, <2>9, <3>3, <4>1
        <4>3. delivered'[current'] # <<>>
          BY <1>1, <1>7, <3>2, <3>3
        <4> QED BY <4>2, <4>3 DEF HandedUpTo, LastOf
      <3>6. BytesInOrder'
        <4> SUFFICES ASSUME NEW d \in TransportSockets, NEW k \in DOMAIN delivered'[d]
                     PROVE  LET x == delivered'[d][k]
                                before == IF k = 1 THEN 0 ELSE LastOf(delivered'[d][k - 1])
                            IN  x # <<>> /\ \A i \in DOMAIN x : x[i] = <<d, before + i>>
          BY DEF BytesInOrder, LastOf
        <4>1. CASE d # c
          BY <4>1, <3>3 DEF BytesInOrder
        <4>2. CASE d = c
          <5>1. k \in 1..Len(new)
            BY <4>2, <3>2, <3>3
          <5>2. CASE k \in 1..Len(old)
            <6>1. k = 1 \/ k - 1 \in 1..Len(old)
              BY <5>2, <2>6
            <6>2. new[k] = old[k] /\ (k # 1 => new[k - 1] = old[k - 1])
              BY <5>2, <6>1, <3>2
            <6>3. LET x == old[k]
                      before == IF k = 1 THEN 0 ELSE LastOf(old[k - 1])
                  IN  x # <<>> /\ \A i \in DOMAIN x : x[i] = <<c, before + i>>
              BY <5>2, <3>2 DEF BytesInOrder, old
            <6> QED BY <4>2, <6>2, <6>3, <3>3
          <5>3. CASE k = Len(old) + 1
            <6> DEFINE before == IF k = 1 THEN 0 ELSE LastOf(new[k - 1])
            <6>1. new[k] = frame
              BY <5>3, <3>2
            <6>2. before = f[t]
              <7>1. CASE old = <<>>
                BY <7>1, <5>3, <2>8, NoList
              <7>2. CASE old # <<>>
                <8>1. Len(old) \in 1..Len(old) /\ k - 1 = Len(old) /\ k # 1
                  BY <7>2, <5>3, <2>6
                <8> QED BY <8>1, <7>2, <2>8, <3>2
              <7> QED BY <7>1, <7>2
            <6>3. DOMAIN frame = 1..Len(frame)
              BY <2>5
            <6> QED BY <4>2, <6>1, <6>2, <6>3, <2>7, <2>14, <3>3
          <5> QED BY <5>1, <5>2, <5>3, <3>2
        <4> QED BY <4>1, <4>2
      <3> QED BY <2>2, <2>10, <2>11, <3>5, <3>6 DEF InOrder, Laid
    <2> QED BY <2>13, <2>14
  <1> QED BY <1>6, <1>7

LEMMA StepInOrder ==
    ASSUME ~Late, Wired, Lined, Settled, InOrder, BytesInOrder, Wired',
           [TransportNext]_transportVars
    PROVE  InOrder' /\ BytesInOrder'
  <1>1. CASE UNCHANGED transportVars
    <2>1. UNCHANGED <<current, stream, phase, result, chunks, failure, queue, delivered>>
      BY <1>1 DEF transportVars, inflater
    <2>2. BytesInOrder'
      BY <2>1 DEF BytesInOrder
    <2>3. CASE current # 0
      <3>1. PICK f \in Numberings : Laid(f)
        BY <2>3 DEF InOrder
      <3>2. Ends(f)'
        BY <2>1, <3>1, SameEnds DEF Laid
      <3>3. Inflated(f)' /\ ToInflate(f)' /\ HandedUpTo(f)'
        BY <2>1, <3>1 DEF Laid, Inflated, ToInflate, HandedUpTo, Taken
      <3> QED BY <2>2, <3>1, <3>2, <3>3 DEF InOrder, Laid
    <2>4. CASE current = 0
      BY <2>1, <2>2, <2>4 DEF InOrder
    <2> QED BY <2>3, <2>4
  <1>2. CASE \E c \in TransportSockets : HandOn(c)
    BY <1>2, HandOnInOrder
  <1>3. CASE \/ ConnectTransport \/ SocketEnds \/ \E kind \in Kinds : Message(kind)
             \/ InflateCorrupt \/ Inflate \/ Flush \/ OrphanReturns
    <2>1. delivered' = delivered
      BY <1>3 DEF ConnectTransport, SocketEnds, Message, InflateCorrupt, Inflate, Flush,
                  OrphanReturns
    <2>2. BytesInOrder'
      BY <2>1 DEF BytesInOrder
    <2>3. ASSUME SocketEnds PROVE InOrder'
      BY <2>3 DEF SocketEnds, InOrder
    <2>4. InOrder'
      BY <1>3, <2>3, ConnectInOrder, MessageInOrder, InflateCorruptInOrder, InflateInOrder,
         FlushInOrder, OrphanInOrder
    <2> QED BY <2>2, <2>4
  <1> QED BY <1>1, <1>2, <1>3 DEF TransportNext

\* Provided a closed inflater calls back before the next message arrives, what is
\* handed on while a socket is current is what arrived on it, in order, nothing
\* twice and nothing left out.
THEOREM TransportInvHolds ==
    ASSUME ~Late
    PROVE  TransportSpec => []TransportInv
  <1> DEFINE IInv == Wired /\ Lined /\ Settled /\ InOrder /\ BytesInOrder
  <1>1. TransportInit => IInv
    <2> SUFFICES ASSUME TransportInit PROVE IInv
      OBVIOUS
    <2>1. InOrder /\ BytesInOrder
      BY DEF TransportInit, InOrder, BytesInOrder
    <2> QED BY <2>1, StartsWired
  <1>2. IInv /\ [TransportNext]_transportVars => IInv'
    BY StepKeeps, StepInOrder
  <1>3. IInv => TransportInv
    BY DEF Wired, TransportInv
  <1> QED BY <1>1, <1>2, <1>3, PTL DEF TransportSpec

=============================================================================
