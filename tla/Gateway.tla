------------------------------ MODULE Gateway ------------------------------
(***************************************************************************)
(* One shard's connection to Discord: packages/ws/src/index.ts (class      *)
(* Gateway) with the parts it owns - GatewaySession (session.ts),          *)
(* GatewayReconnect (reconnect.ts), GatewayHeartbeat (heartbeat.ts) and    *)
(* the socket ownership of WebSocketTransport (transport.ts) - against a   *)
(* Discord that answers, invalidates, goes silent and closes.              *)
(*                                                                         *)
(* JavaScript runs one callback at a time, so a step is one callback: a    *)
(* call by the application, a socket event, a timer.  A callback calls     *)
(* several methods; each method is an operator from the object to the      *)
(* object, so that a listener that calls back into the Gateway in the      *)
(* middle of a method is the composition of those operators.               *)
(*                                                                         *)
(* Clocks are left out: an armed timer may fire at any time.  A socket is  *)
(* named by the connection token under which it was dialled, and a session *)
(* by the socket on which it was identified.                               *)
(***************************************************************************)
EXTENDS Naturals, Sequences, FiniteSets

CONSTANTS
    MaxSockets,     \* bound: connections dialled in a behaviour
    MaxSeq,         \* bound: dispatches numbered in one session
    MaxInbox,       \* bound: frames of one socket on their way to the client
    MaxAttempts,    \* options.maxReconnectAttempts
    Reconnects,     \* values options.reconnect may have: subset of BOOLEAN
    Gated,          \* options.identifyGate is set
    DialMayFail,    \* the socket factory may throw
    CloseKinds,     \* why a socket closes: subset of AllCloseKinds
    OnClose,        \* what a "close" listener does: subset of AllReactions
    OnState,        \* what a "stateChange" listener does on a frame
    RedialsUnarmed, \* a "close" listener calls connect() though no reconnect follows
    DialsWhileClosing \* the application may connect() between close and its event

AllCloseKinds == {"transient", "sessionLost", "fatal"}
AllReactions == {"nothing", "connect", "close"}

ASSUME BoundAssumption ==
    /\ MaxSockets \in Nat \ {0} /\ MaxSeq \in Nat \ {0}
    /\ MaxInbox \in Nat \ {0} /\ MaxAttempts \in Nat
ASSUME OptionAssumption ==
    /\ Reconnects \subseteq BOOLEAN /\ Gated \in BOOLEAN
ASSUME EnvironmentAssumption ==
    /\ CloseKinds \subseteq AllCloseKinds
    /\ OnClose \subseteq AllReactions
    /\ OnState \subseteq {"nothing", "close"}
    /\ DialMayFail \in BOOLEAN /\ RedialsUnarmed \in BOOLEAN
    /\ DialsWhileClosing \in BOOLEAN

VARIABLES
    gw,       \* the Gateway object
    inbox,    \* inbox[s]: frames Discord sent on s, not yet handed to the client
    answered, \* sockets whose handshake Discord has answered
    attached, \* attached[s]: the session Discord streams on s, 0 for none
    alive,    \* sessions Discord still remembers
    sent      \* sent[n]: last sequence number Discord used in session n

vars == <<gw, inbox, answered, attached, alive, sent>>
server == <<answered, attached, alive, sent>>

Sockets == 1..MaxSockets
States == {"Connect", "Hello", "Identify", "Resume", "Ready", "Dispatch",
           "Heartbeat", "Reconnect", "Closed"}
SocketStates == {"unused", "connecting", "open", "closing", "closed"}
Promises == {"none", "pending", "fulfilled", "rejected"}
Handshakes == [kind : {"identify"}, sid : {0}, seq : {0}]
                \cup [kind : {"resume"}, sid : Sockets, seq : 1..MaxSeq]

(***************************************************************************)
(* The frames the client tells apart (protocol.ts, classifyPayload): op 9  *)
(* is "resumable" or "invalid" after its d.  A frame that violates the     *)
(* protocol closes the socket as op 7 does, with another code of the same  *)
(* class, and is the same frame here.                                      *)
(***************************************************************************)
Frames == [op : {"hello", "reconnect", "invalid", "resumable", "beat", "ack"},
           sid : {0}, s : {0}]
            \cup [op : {"ready"}, sid : Sockets, s : 1..MaxSeq]
            \cup [op : {"resumed", "event"}, sid : {0}, s : 1..MaxSeq]
Frame(op, sid, s) == [op |-> op, sid |-> sid, s |-> s]

Tokens == 0..MaxSockets         \* a connection, 0 for none
SequenceNumbers == 0..MaxSeq    \* a sequence number, 0 for null
Attempts == 0..MaxAttempts
SocketTable == [Sockets -> SocketStates]
WireTable == [Sockets -> Seq(Handshakes)]
TokenSets == SUBSET Sockets

GatewayObject ==
    [auto : BOOLEAN,       \* options.reconnect
     state : States,
     closed : BOOLEAN,
     paced : BOOLEAN,
     arming : BOOLEAN,
     sid : Tokens,         \* session id, 0 when status is "none"
     seq : SequenceNumbers,
     attempts : Attempts,
     pending : BOOLEAN,    \* the reconnect timer is armed
     promise : Promises,   \* the connect() promise last handed out
     token : Tokens,
     current : Tokens,     \* the transport's #socket
     sock : SocketTable,
     wire : WireTable,     \* handshakes written to each socket
     dial : Tokens,        \* connect timer, by the token it captured
     first : Tokens,       \* first-beat timer, by the token it was armed under
     beat : Tokens,        \* beat interval, likewise
     ackBy : Tokens,       \* ack deadline, likewise
     watch : BOOLEAN,      \* silence monitor
     awaiting : BOOLEAN,   \* a heartbeat is not acknowledged yet
     asking : TokenSets]   \* tokens waiting for an IDENTIFY slot

TypeOK ==
    /\ gw \in GatewayObject
    /\ inbox \in [Sockets -> Seq(Frames)]
    /\ answered \in SUBSET Sockets
    /\ attached \in [Sockets -> Tokens]
    /\ alive \in SUBSET Sockets
    /\ sent \in [Sockets -> SequenceNumbers]

-----------------------------------------------------------------------------
(***************************************************************************)
(* transport.ts                                                            *)
(***************************************************************************)

\* Events of a socket are heeded while it is the one the transport holds:
\* the generation captured by its listeners is current exactly then.
Owns(g, s) == s = g.current

Live(g) == g.current # 0 /\ g.sock[g.current] \in {"connecting", "open"}

Connected(g) == g.current # 0 /\ g.sock[g.current] = "open"

Discard(g) ==
    IF g.current = 0 THEN g
    ELSE [g EXCEPT !.sock[g.current] = "closing", !.current = 0]

TransportClose(g) ==
    IF Live(g) THEN [g EXCEPT !.sock[g.current] = "closing"] ELSE g

TransportConnect(g, ok) ==
    LET h == Discard(g)
    IN  IF ok THEN [h EXCEPT !.current = h.token,
                             !.sock[h.token] = "connecting"]
        ELSE [h EXCEPT !.sock[h.token] = "closed"]

-----------------------------------------------------------------------------
(***************************************************************************)
(* session.ts                                                              *)
(***************************************************************************)

CanResume(g) == g.sid # 0 /\ g.seq # 0

RecordSequence(g, s) == IF s < g.seq THEN g ELSE [g EXCEPT !.seq = s]

\* Mutant: the numbering of the lost session is carried over.
InvalidateKeepsSequence(g) == [g EXCEPT !.sid = 0]

Invalidate(g) == [g EXCEPT !.sid = 0, !.seq = 0]

-----------------------------------------------------------------------------
(***************************************************************************)
(* heartbeat.ts                                                            *)
(***************************************************************************)

\* The beat timers, and the acknowledgement deadline with them.
ClearBeatTimers(g) == [g EXCEPT !.first = 0, !.beat = 0, !.ackBy = 0]

StopHeartbeat(g) == [ClearBeatTimers(g) EXCEPT !.watch = FALSE]

StartHeartbeat(g) ==
    [ClearBeatTimers(g) EXCEPT !.first = g.token, !.awaiting = FALSE]

SendHeartbeat(g) ==
    IF Connected(g) THEN [g EXCEPT !.awaiting = TRUE, !.ackBy = g.token] ELSE g

Acknowledge(g) == [g EXCEPT !.awaiting = FALSE, !.ackBy = 0]

-----------------------------------------------------------------------------
(***************************************************************************)
(* reconnect.ts and the connection lifecycle of index.ts                   *)
(***************************************************************************)

Settle(g, outcome) ==
    IF g.promise = "pending" THEN [g EXCEPT !.promise = outcome] ELSE g

\* Mutants: the heartbeat, or the backoff, survives the socket.
ClearTimersKeepsBeats(g) == [g EXCEPT !.dial = 0, !.pending = FALSE]
ClearTimersKeepsBackoff(g) == StopHeartbeat([g EXCEPT !.dial = 0])

ClearTimers(g) == StopHeartbeat([g EXCEPT !.dial = 0, !.pending = FALSE])

SetState(g, next) == [g EXCEPT !.state = next]

\* Mutant: close() does not clear the timers.
CloseKeepsTimers(g) ==
    SetState(Discard(Settle([g EXCEPT !.closed = TRUE], "rejected")), "Closed")

CloseGateway(g) ==
    SetState(Discard(Settle(ClearTimers([g EXCEPT !.closed = TRUE]), "rejected")),
             "Closed")

\* A stateChange listener is told only of a change, before the method goes on.
Announce(g, next, reaction) ==
    IF g.state # next /\ reaction = "close" THEN CloseGateway(SetState(g, next))
    ELSE SetState(g, next)

\* Mutants: the attempt budget is not consulted; its end settles nothing.
ScheduleUnbounded(g) ==
    IF g.closed \/ g.pending THEN g
    ELSE [g EXCEPT !.attempts = @ + 1, !.pending = TRUE]
ScheduleGivesUpSilently(g) ==
    IF g.closed \/ g.pending \/ g.attempts >= MaxAttempts THEN g
    ELSE [g EXCEPT !.attempts = @ + 1, !.pending = TRUE]

ScheduleReconnect(g) ==
    IF g.closed \/ g.pending THEN g
    ELSE IF g.attempts < MaxAttempts
    THEN [g EXCEPT !.attempts = @ + 1, !.pending = TRUE]
    ELSE SetState(Settle(g, "rejected"), "Connect")

\* Mutant: a socket that never opens is never given up.
OpenUntimed(g, ok) ==
    IF g.closed THEN g
    ELSE LET h == TransportConnect([g EXCEPT !.token = @ + 1], ok)
         IN  IF ok THEN h
             ELSE IF g.auto
             THEN ScheduleReconnect(SetState(h, "Reconnect"))
             ELSE Settle(h, "rejected")

Open(g, ok) ==
    IF g.closed THEN g
    ELSE LET h == TransportConnect([g EXCEPT !.token = @ + 1], ok)
         IN  IF ok THEN [h EXCEPT !.dial = h.token]
             ELSE IF g.auto
             THEN ScheduleReconnect(SetState(h, "Reconnect"))
             ELSE Settle(h, "rejected")

\* Whether connect() finds nobody connecting or connected.
Idle(g) == g.state # "Closed" /\ g.promise # "pending" /\ ~Live(g)

\* Mutant: an armed reconnect is not joined.
JoinsNothing(g) == FALSE

\* Whether connect() then joins a reconnect that is armed, or being armed.
Joins(g) == g.pending \/ g.arming

\* Whether connect() dials.
Dials(g) == Idle(g) /\ ~Joins(g)

ConnectGateway(g, ok) ==
    IF ~Idle(g) THEN g
    ELSE IF Joins(g) THEN [g EXCEPT !.promise = "pending"]
    ELSE Open(SetState([g EXCEPT !.closed = FALSE, !.paced = TRUE,
                                 !.promise = "pending"], "Connect"), ok)

ClassifyClose(kind, canResume) ==
    IF kind = "fatal" THEN "stop"
    ELSE IF kind = "sessionLost" \/ ~canResume THEN "identify" ELSE "resume"

\* A close that a reconnect will follow: a listener's connect() joins it.
Arms(g, kind) ==
    ~g.closed /\ g.auto /\ ClassifyClose(kind, CanResume(g)) # "stop"

\* What a "close" listener does while the close is being handled.
React(g, reaction, ok) ==
    IF reaction = "connect" THEN ConnectGateway(g, ok)
    ELSE IF reaction = "close" THEN CloseGateway(g) ELSE g

\* The close event of socket s, which the transport held.
HandleClose(g, s, kind, reaction, ok) ==
    LET gone == ClearTimers([g EXCEPT !.current = 0, !.sock[s] = "closed"])
        action == ClassifyClose(kind, CanResume(gone))
        told == [React([gone EXCEPT !.arming = Arms(gone, kind)], reaction, ok)
                    EXCEPT !.arming = FALSE]
        over == told.closed \/ action = "stop"
    IN  IF over \/ ~g.auto
        THEN Settle(SetState([told EXCEPT !.closed = over],
                             IF over THEN "Closed" ELSE "Connect"), "rejected")
        ELSE ScheduleReconnect(SetState(
                IF action = "identify" THEN Invalidate(told) ELSE told,
                "Reconnect"))

-----------------------------------------------------------------------------
(***************************************************************************)
(* The handshake                                                           *)
(***************************************************************************)

Write(g, handshake) ==
    IF Connected(g) THEN [g EXCEPT !.wire[g.current] = Append(@, handshake)] ELSE g

SendIdentify(g) == Write(g, [kind |-> "identify", sid |-> 0, seq |-> 0])

IdentifyOrResume(g) ==
    IF CanResume(g)
    THEN Write(SetState(g, "Resume"),
               [kind |-> "resume", sid |-> g.sid, seq |-> g.seq])
    ELSE IF Gated /\ ~g.paced
    THEN [SetState(g, "Identify") EXCEPT !.asking = @ \cup {g.token}]
    ELSE SendIdentify([SetState(g, "Identify") EXCEPT !.paced = FALSE])

\* Mutant: the answer of the gate is used on whatever socket is up.
SlotIsAnyones(g, t) == ~g.closed

\* A slot granted by the gate is used on the socket that asked for it only.
SlotIsCurrent(g, t) == t = g.token /\ ~g.closed

HandleHello(g, reaction) ==
    IdentifyOrResume(StartHeartbeat(
        Announce(g, IF CanResume(g) THEN "Resume" ELSE "Hello", reaction)))

HandleReady(g, sid) ==
    SetState([g EXCEPT !.sid = sid, !.attempts = 0], "Ready")

HandleResumed(g) == SetState([g EXCEPT !.attempts = 0], "Ready")

\* Records the frame's sequence, then does what the frame means.
Apply(g, f, reaction) ==
    LET h == IF f.s = 0 THEN g ELSE RecordSequence(g, f.s)
    IN  CASE f.op = "hello" -> HandleHello(h, reaction)
          [] f.op = "ready" -> HandleReady(Announce(h, "Dispatch", reaction), f.sid)
          [] f.op = "resumed" -> HandleResumed(Announce(h, "Dispatch", reaction))
          [] f.op = "event" -> Announce(h, "Dispatch", reaction)
          [] f.op = "beat" -> SendHeartbeat(Announce(h, "Heartbeat", reaction))
          [] f.op = "ack" -> Acknowledge(h)
          [] f.op \in {"reconnect", "resumable"} -> TransportClose(h)
          [] f.op = "invalid" -> TransportClose(Invalidate(h))

-----------------------------------------------------------------------------
(***************************************************************************)
(* Steps of the client                                                     *)
(***************************************************************************)

CanDial == gw.token < MaxSockets

\* The application calls connect().
Connect ==
    /\ Dials(gw) => CanDial
    /\ gw.current # 0 => Live(gw) \/ DialsWhileClosing
    /\ \E ok \in {TRUE, ~DialMayFail} : gw' = ConnectGateway(gw, ok)
    /\ UNCHANGED <<inbox, server>>

\* The application calls close().
Close ==
    /\ gw.state # "Closed"
    /\ gw' = CloseGateway(gw)
    /\ UNCHANGED <<inbox, server>>

\* A socket opens; Discord greets it with HELLO.
SocketOpens(s) ==
    /\ gw.sock[s] = "connecting"
    /\ gw' = LET g == [gw EXCEPT !.sock[s] = "open"]
             IN  IF Owns(g, s)
                 THEN Settle([g EXCEPT !.dial = 0, !.watch = TRUE], "fulfilled")
                 ELSE g
    /\ inbox' = [inbox EXCEPT ![s] = <<Frame("hello", 0, 0)>>]
    /\ UNCHANGED server

\* A frame reaches the transport's listener.  Compressed frames are decoded
\* asynchronously, so a frame may be handed over while the socket is closing.
Deliver(s) ==
    /\ inbox[s] # <<>>
    /\ gw.sock[s] \in {"open", "closing"}
    /\ \E reaction \in OnState :
            gw' = IF Owns(gw, s) THEN Apply(gw, Head(inbox[s]), reaction) ELSE gw
    /\ inbox' = [inbox EXCEPT ![s] = Tail(@)]
    /\ UNCHANGED server

\* The close event of a socket: whoever closed it, or the network.  Frames
\* still on their way are lost.  A close the client asked for, and one before
\* the socket opened, carries no verdict of Discord's.
SocketCloses(s) ==
    /\ gw.sock[s] \in {"connecting", "open", "closing"}
    /\ \E kind \in CloseKinds, reaction \in OnClose, ok \in {TRUE, ~DialMayFail} :
        /\ gw.sock[s] # "open" => kind = "transient"
        /\ reaction = "connect" => CanDial /\ (Arms(gw, kind) \/ RedialsUnarmed)
        /\ gw' = IF Owns(gw, s) THEN HandleClose(gw, s, kind, reaction, ok)
                 ELSE [gw EXCEPT !.sock[s] = "closed"]
        /\ alive' = IF kind = "transient" THEN alive ELSE alive \ {attached[s]}
    /\ inbox' = [inbox EXCEPT ![s] = <<>>]
    /\ attached' = [attached EXCEPT ![s] = 0]
    /\ UNCHANGED <<answered, sent>>

\* The backoff is over (reconnect.ts clears the timer, then dials).
ReconnectTimer ==
    /\ gw.pending
    /\ CanDial
    /\ \E ok \in {TRUE, ~DialMayFail} :
            gw' = Open([gw EXCEPT !.pending = FALSE], ok)
    /\ UNCHANGED <<inbox, server>>

\* A socket stayed connecting for connectTimeout.
ConnectTimer ==
    /\ gw.dial # 0
    /\ gw' = LET g == [gw EXCEPT !.dial = 0]
             IN  IF gw.dial = gw.token /\ ~gw.closed THEN TransportClose(g) ELSE g
    /\ UNCHANGED <<inbox, server>>

\* The jittered first beat, which starts the interval.
FirstBeat ==
    /\ gw.first # 0
    /\ gw' = [SendHeartbeat(gw) EXCEPT !.beat = gw.first, !.first = 0]
    /\ UNCHANGED <<inbox, server>>

\* A regular beat: a beat still unacknowledged means the link is dead.
ScheduledBeat ==
    /\ gw.beat # 0
    /\ gw' = IF gw.awaiting THEN TransportClose(ClearBeatTimers(gw))
             ELSE SendHeartbeat(gw)
    /\ UNCHANGED <<inbox, server>>

\* The acknowledgement deadline passes.
AckTimeout ==
    /\ gw.ackBy # 0
    /\ gw' = TransportClose([gw EXCEPT !.ackBy = 0])
    /\ UNCHANGED <<inbox, server>>

\* The silence monitor finds nothing received within the deadline.
ZombieTimeout ==
    /\ gw.watch
    /\ ~gw.closed /\ Connected(gw)
    /\ gw' = TransportClose(gw)
    /\ UNCHANGED <<inbox, server>>

\* The IDENTIFY gate answers the request made under token t.
GateAnswers(t) ==
    /\ t \in gw.asking
    /\ \E granted \in BOOLEAN :
        gw' = LET g == [gw EXCEPT !.asking = @ \ {t}]
              IN  IF ~SlotIsCurrent(g, t) THEN g
                  ELSE IF granted THEN SendIdentify(g) ELSE TransportClose(g)
    /\ UNCHANGED <<inbox, server>>

-----------------------------------------------------------------------------
(***************************************************************************)
(* Steps of Discord (external: what the client relies on)                  *)
(***************************************************************************)

CanPush(s) == gw.sock[s] = "open" /\ Len(inbox[s]) < MaxInbox

Push(s, f) == inbox' = [inbox EXCEPT ![s] = Append(@, f)]

\* IDENTIFY starts a session, or is refused.
AnswersIdentify(s) ==
    /\ CanPush(s)
    /\ s \notin answered /\ gw.wire[s] # <<>>
    /\ Head(gw.wire[s]).kind = "identify"
    /\ answered' = answered \cup {s}
    /\ \/ /\ Push(s, Frame("ready", s, 1))
          /\ attached' = [attached EXCEPT ![s] = s]
          /\ alive' = alive \cup {s}
          /\ sent' = [sent EXCEPT ![s] = 1]
       \/ /\ Push(s, Frame("invalid", 0, 0))
          /\ UNCHANGED <<attached, alive, sent>>
    /\ UNCHANGED gw

\* RESUME continues a session Discord remembers, and is refused otherwise.
AnswersResume(s) ==
    /\ CanPush(s)
    /\ s \notin answered /\ gw.wire[s] # <<>>
    /\ Head(gw.wire[s]).kind = "resume"
    /\ answered' = answered \cup {s}
    /\ LET n == Head(gw.wire[s]).sid
       IN  \/ /\ n \in alive
              /\ Push(s, Frame("resumed", 0, sent[n]))
              /\ attached' = [attached EXCEPT ![s] = n]
              /\ UNCHANGED alive
           \/ /\ Push(s, Frame("invalid", 0, 0))
              /\ alive' = alive \ {n}
              /\ UNCHANGED attached
    /\ UNCHANGED <<gw, sent>>

\* An event of the session.
SendsEvent(s) ==
    /\ CanPush(s)
    /\ attached[s] # 0 /\ sent[attached[s]] < MaxSeq
    /\ sent' = [sent EXCEPT ![attached[s]] = @ + 1]
    /\ Push(s, Frame("event", 0, sent[attached[s]] + 1))
    /\ UNCHANGED <<gw, answered, attached, alive>>

\* A heartbeat request, an acknowledgement, op 7, or op 9 with d true.
SendsControl(s) ==
    /\ CanPush(s)
    /\ \E op \in {"beat", "ack", "reconnect", "resumable"} :
        /\ op = "ack" => gw.awaiting
        /\ op = "resumable" => attached[s] # 0
        /\ Push(s, Frame(op, 0, 0))
    /\ UNCHANGED <<gw, server>>

\* Op 9 with d false: the session is over.
SendsInvalid(s) ==
    /\ CanPush(s)
    /\ attached[s] # 0
    /\ Push(s, Frame("invalid", 0, 0))
    /\ alive' = alive \ {attached[s]}
    /\ attached' = [attached EXCEPT ![s] = 0]
    /\ UNCHANGED <<gw, answered, sent>>

\* Discord forgets a session nobody is connected to.
SessionExpires(n) ==
    /\ n \in alive
    /\ \A s \in Sockets : attached[s] # n
    /\ alive' = alive \ {n}
    /\ UNCHANGED <<gw, inbox, answered, attached, sent>>

-----------------------------------------------------------------------------

Init ==
    /\ \E auto \in Reconnects : gw =
            [auto |-> auto, state |-> "Connect", closed |-> FALSE, paced |-> FALSE,
             arming |-> FALSE, sid |-> 0, seq |-> 0, attempts |-> 0,
             pending |-> FALSE, promise |-> "none", token |-> 0,
             current |-> 0, sock |-> [s \in Sockets |-> "unused"],
             wire |-> [s \in Sockets |-> <<>>], dial |-> 0, first |-> 0,
             beat |-> 0, ackBy |-> 0, watch |-> FALSE, awaiting |-> FALSE,
             asking |-> {}]
    /\ inbox = [s \in Sockets |-> <<>>]
    /\ answered = {}
    /\ attached = [s \in Sockets |-> 0]
    /\ alive = {}
    /\ sent = [s \in Sockets |-> 0]

Timer == ReconnectTimer \/ ConnectTimer \/ FirstBeat \/ ScheduledBeat
            \/ AckTimeout \/ ZombieTimeout

Discord(s) == AnswersIdentify(s) \/ AnswersResume(s) \/ SendsEvent(s)
                \/ SendsControl(s) \/ SendsInvalid(s) \/ SessionExpires(s)

Next ==
    \/ Connect
    \/ Close
    \/ Timer
    \/ \E s \in Sockets : \/ SocketOpens(s)
                          \/ Deliver(s)
                          \/ SocketCloses(s)
                          \/ GateAnswers(s)
                          \/ Discord(s)

Spec == Init /\ [][Next]_vars

\* Timers fire, and a socket that is closing reports it.
Fairness ==
    /\ WF_vars(ReconnectTimer)
    /\ WF_vars(ConnectTimer)
    /\ \A s \in Sockets : WF_vars(gw.sock[s] = "closing" /\ SocketCloses(s))

FairSpec == Spec /\ Fairness

-----------------------------------------------------------------------------
(***************************************************************************)
(* Properties                                                              *)
(***************************************************************************)

\* One logical connection: at most one socket is connecting or open, the one
\* the transport holds, and none while a backoff runs.  connect() racing a
\* reconnect, a dial that replaces a socket and a dial that fails never leave
\* an orphan that goes on dispatching, nor dial past the backoff.
OneConnection ==
    /\ \A s \in Sockets : gw.sock[s] \in {"connecting", "open"} => s = gw.current
    /\ gw.pending => gw.current = 0

\* A connect() promise in flight, and a Gateway that reports RECONNECT, always
\* has something that will wake it: a socket that will open or close, or an
\* armed reconnect.
NobodyWaitsForNothing ==
    gw.promise = "pending" \/ gw.state = "Reconnect"
        => gw.pending \/ gw.current # 0

\* A connect() promise is rejected only when the Gateway has given up: no
\* socket is live and no reconnect is armed, so the caller may dial again.
RejectedMeansIdle == gw.promise = "rejected" => ~Live(gw) /\ ~gw.pending

\* A socket carries at most one IDENTIFY or RESUME, also when the IDENTIFY
\* had to wait for the gate while the connection was replaced.
OneHandshake == \A s \in Sockets : Len(gw.wire[s]) <= 1

\* Beat timers and the acknowledgement deadline measure the connection that
\* is up: none of them outlives its socket to close the next one.
BeatsOwnSocket ==
    gw.current # 0 => {gw.first, gw.beat, gw.ackBy} \subseteq {0, gw.current}

\* A Gateway closed by the application or by a fatal close code says so, and
\* holds no socket and no armed timer that would wake it.
ClosedIsQuiet ==
    gw.closed => /\ gw.state = "Closed"
                 /\ gw.current = 0
                 /\ ~gw.pending /\ ~gw.watch
                 /\ {gw.dial, gw.first, gw.beat, gw.ackBy} = {0}

\* The session a reconnect resumes behaves as ResumableSession promises.
Session == INSTANCE ResumableSession
              WITH Sessions <- Sockets, session <- gw.sid, last <- gw.seq
SessionContinuity == Session!Spec

\* Every connect() promise settles, unless the bound on sockets ends the run.
ConnectSettles ==
    gw.promise = "pending" ~> gw.promise # "pending" \/ ~CanDial

\* A connection sends one handshake, is beaten by its own timers, leaves nobody waiting
\* for nothing, and rejects a promise only when nothing is under way.
Inv ==
    /\ TypeOK
    /\ OneHandshake
    /\ NobodyWaitsForNothing
    /\ RejectedMeansIdle
    /\ BeatsOwnSocket

=============================================================================
