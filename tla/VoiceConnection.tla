-------------------------- MODULE VoiceConnection --------------------------
(***************************************************************************)
(* The bot's voice session in one guild (packages/voice/src): the          *)
(* VoiceConnection of connection.ts, the VoiceNetworking sessions it opens *)
(* and replaces (networking.ts), and the socket and UDP socket of each     *)
(* (gateway.ts, udp.ts).                                                   *)
(*                                                                         *)
(* Discord's voice events come at any time.  A 'stateChange' listener may  *)
(* call back into the connection (Listeners); what it calls is not heard   *)
(* by a listener once more.  Audio, DAVE and heartbeats are left out: an   *)
(* unanswered heartbeat is a close with a code that can resume, after      *)
(* which the old socket may still deliver a frame (LateFrames).            *)
(***************************************************************************)
EXTENDS Integers, FiniteSets

CONSTANTS
    Channels, NoChannel,
    Attempts,       \* resume.attempts
    Listeners,      \* pairs of a status and what a listener calls at it
    Unsent,         \* the adapter may refuse to send op 4
    LateFrames,     \* see above
    MaxNets,        \* bound: sessions that exist at a time
    MaxAnswers,     \* bound: calls of listeners
    MaxCalls, MaxEvents, MaxFaults  \* bounds: calls, voice events, failures

ASSUME VoiceAssumption ==
    /\ NoChannel \notin Channels /\ Attempts \in Nat /\ MaxNets \in Nat \ {0}
    /\ Listeners \subseteq {"signalling", "connecting", "ready", "disconnected"}
                           \X {"rejoin", "disconnect", "destroy"}
    /\ Unsent \in BOOLEAN /\ LateFrames \in BOOLEAN
    /\ MaxAnswers \in Nat /\ MaxCalls \in Nat /\ MaxEvents \in Nat /\ MaxFaults \in Nat

VARIABLES
    voice,      \* the connection and its sessions
    calls, events, faults

voiceVars == <<voice, calls, events, faults>>

Nets == 1..MaxNets
Pending == {"signalling", "connecting"}

\* socket: of the session's gateway; waits: what an async handler awaits;
\* late: a RESUMED of the gateway before may still arrive.
Session == [state: {"opening", "identifying", "discovering", "selecting", "ready",
                    "resuming", "closed"},
            socket: {"dialing", "open", "shut"}, waits: {"nothing", "dave", "udp", "discovery"},
            udp: BOOLEAN, backoff: BOOLEAN, attempts: 0..Attempts, late: BOOLEAN]

NoSession == [state |-> "closed", socket |-> "shut", waits |-> "nothing", udp |-> FALSE,
              backoff |-> FALSE, attempts |-> 0, late |-> FALSE]
NewSession == [NoSession EXCEPT !.state = "opening", !.socket = "dialing"]

\* known: #sessionId and #userId; server: #token and #endpoint; opened:
\* #sessionChannel; net: #networking, or 0.
Connection == [status: Pending \cup {"ready", "disconnected", "destroyed"},
               channel: Channels, opened: Channels \cup {NoChannel}, known: BOOLEAN,
               server: BOOLEAN, timer: {"none", "join", "reconnect"}, leaving: BOOLEAN,
               net: 0..MaxNets, nets: [Nets -> Session], answers: 0..MaxAnswers]

VoiceTypeOK ==
    /\ voice \in Connection
    /\ calls \in 0..MaxCalls /\ events \in 0..MaxEvents /\ faults \in 0..MaxFaults

-----------------------------------------------------------------------------
\* VoiceConnection.  An operation returns the states it may end in.

\* VoiceNetworking.destroy(): a UDP socket that is being opened comes later.
EndedSession(s) == [NoSession EXCEPT !.waits = IF s.waits = "udp" THEN "udp" ELSE "nothing"]

EndNet(p) == IF p.net = 0 THEN p ELSE [p EXCEPT !.nets[p.net] = EndedSession(@)]
DropNet(p) == [EndNet(p) EXCEPT !.net = 0]

\* #setStatus, up to its event.
Became(p, next) ==
    IF p.status = "destroyed" THEN p
    ELSE [p EXCEPT !.status = next,
                   !.timer = IF next \in {"ready", "disconnected"} THEN "none" ELSE @]

Left(p) == [DropNet(p) EXCEPT !.leaving = TRUE, !.timer = "none"]

\* destroy()
Destroyed(p) == [Left(p) EXCEPT !.status = "destroyed"]

\* rejoin() with no reconnect: live, and no other channel is asked for.
Stays(p, channel) == p.status = "ready" /\ channel \in {NoChannel, p.opened}
Asked(p, channel) == [p EXCEPT !.channel = IF channel = NoChannel THEN @ ELSE channel]

\* What a listener calls at the status it is told of.
Answers(p) ==
    LET q == [p EXCEPT !.answers = @ + 1]
        Does(call) == p.answers < MaxAnswers /\ <<p.status, call>> \in Listeners
        Rejoined(channel) ==
            IF Stays(q, channel) THEN q
            ELSE [Became(Asked(q, channel), "signalling") EXCEPT !.leaving = FALSE, !.timer = "join"] IN
    (IF Does("disconnect") THEN {Became(Left(q), "disconnected")} ELSE {})
    \cup (IF Does("destroy") THEN {Destroyed(q)} ELSE {})
    \cup (IF Does("rejoin") THEN {Rejoined(c) : c \in Channels \cup {NoChannel}} ELSE {})

\* #setStatus
SetStatus(p, next) ==
    {Became(p, next)} \cup
    IF p.status \in {next, "destroyed"} THEN {} ELSE Answers(Became(p, next))

\* Mutant: a join is not timed.
SignalUntimed(p, sent) ==
    UNION {LET q == [r EXCEPT !.timer = "none"] IN
           IF sent THEN {q} ELSE SetStatus(q, "disconnected") :
           r \in SetStatus([p EXCEPT !.leaving = FALSE], "signalling")}

\* #signal
Signal(p, sent) ==
    UNION {LET q == [r EXCEPT !.timer = "join"] IN
           IF sent THEN {q} ELSE SetStatus(q, "disconnected") :
           r \in SetStatus([p EXCEPT !.leaving = FALSE], "signalling")}

\* #armReconnectTimeout, when no timer runs
Arm(p) == [p EXCEPT !.timer = IF @ = "none" THEN "reconnect" ELSE @]

FreeNets(p) == {n \in Nets : p.nets[n] = NoSession}
OpenNet(p) ==
    LET n == CHOOSE n \in FreeNets(p) : TRUE IN
    [p EXCEPT !.net = n, !.nets[n] = NewSession]

\* #connect
Connect(p) ==
    IF ~(p.known /\ p.server) THEN {p}
    ELSE {OpenNet(Arm(q)) :
            q \in SetStatus([EndNet(p) EXCEPT !.opened = p.channel], "connecting")}

\* #onState, out of every channel
StateGone(p) == SetStatus([DropNet(p) EXCEPT !.opened = NoChannel], "disconnected")

\* #onState, in a channel
StateIn(p, channel, newSession) ==
    LET q == [p EXCEPT !.known = TRUE, !.channel = channel] IN
    IF channel # p.opened \/ newSession \/ ~p.known \/ p.net = 0 THEN Connect(q)
    ELSE IF p.status = "signalling" /\ p.nets[p.net].state = "ready" THEN SetStatus(q, "ready")
    ELSE {q}

\* Mutant: nobody waits for the next server.
ServerGoneUntimed(p) ==
    IF p.status = "ready" THEN SetStatus(DropNet(p), "connecting") ELSE {DropNet(p)}

\* #onServer without an endpoint: the guild moves to another server.
ServerGone(p) ==
    {IF q.status = "connecting" THEN Arm(q) ELSE q :
        q \in IF p.status = "ready" THEN SetStatus(DropNet(p), "connecting") ELSE {DropNet(p)}}

\* Mutant: a session that resumes is still ready.
OnNetStateUntold(p, n) ==
    IF p.net = n /\ p.nets[n].state = "ready" THEN SetStatus(p, "ready") ELSE {p}

\* The handlers of a session: `state`, and `close`.
OnNetState(p, n) ==
    IF p.net # n THEN {p}
    ELSE CASE p.nets[n].state = "ready" -> SetStatus(p, "ready")
           [] p.nets[n].state = "resuming" -> {Arm(q) : q \in SetStatus(p, "connecting")}
           [] OTHER -> {p}

OnNetClose(p, n) ==
    IF p.net # n THEN {p} ELSE SetStatus([p EXCEPT !.net = 0], "disconnected")

-----------------------------------------------------------------------------
\* VoiceNetworking.

With(p, n, s) == [p EXCEPT !.nets[n] = s]

\* #onClose with a code that can resume, while it may try again.
Resumes(s) == s.state \in {"ready", "resuming"} /\ s.attempts < Attempts

\* The session resumes after a pause, whose timer is armed once its owner has
\* been told.
Resume(p, n, late) ==
    LET s == [p.nets[n] EXCEPT !.state = "resuming", !.socket = "shut",
                               !.attempts = @ + 1, !.late = late] IN
    {With(q, n, [q.nets[n] EXCEPT !.backoff = TRUE]) : q \in OnNetState(With(p, n, s), n)}

\* Mutant: the attempts are not limited.
CloseForever(p, n, late) ==
    IF p.nets[n].state \in {"ready", "resuming"} THEN Resume(p, n, late)
    ELSE OnNetClose(With(p, n, EndedSession(p.nets[n])), n)

CloseResumable(p, n, late) ==
    IF Resumes(p.nets[n]) THEN Resume(p, n, late)
    ELSE OnNetClose(With(p, n, EndedSession(p.nets[n])), n)

CloseForGood(p, n) == OnNetClose(With(p, n, EndedSession(p.nets[n])), n)

VoiceInit ==
    /\ \E sent \in IF Unsent THEN BOOLEAN ELSE {TRUE}, channel \in Channels :
        voice = [status |-> IF sent THEN "signalling" ELSE "disconnected", channel |-> channel,
                 opened |-> NoChannel, known |-> FALSE, server |-> FALSE,
                 timer |-> IF sent THEN "join" ELSE "none", leaving |-> FALSE, net |-> 0,
                 nets |-> [n \in Nets |-> NoSession], answers |-> 0]
    /\ calls = 0 /\ events = 0 /\ faults = 0

OneCall == calls < MaxCalls /\ calls' = calls + 1 /\ UNCHANGED <<events, faults>>
Event == events < MaxEvents /\ events' = events + 1 /\ UNCHANGED <<calls, faults>>
Fault == faults < MaxFaults /\ faults' = faults + 1 /\ UNCHANGED <<calls, events>>
Alone == UNCHANGED <<calls, events, faults>>

CallRejoin ==
    /\ OneCall
    /\ voice.status # "destroyed"
    /\ \E channel \in Channels \cup {NoChannel} :
        IF Stays(voice, channel) THEN voice' = Asked(voice, channel)
        ELSE \E sent \in IF Unsent THEN BOOLEAN ELSE {TRUE} :
                voice' \in Signal(Asked(voice, channel), sent)

CallDisconnect ==
    /\ OneCall
    /\ voice.status # "destroyed"
    /\ voice' \in SetStatus(Left(voice), "disconnected")

CallDestroy ==
    /\ OneCall
    /\ voice.status # "destroyed"
    /\ voice' = Destroyed(voice)

\* A voice event; there is room for one more session.
Told ==
    /\ Event
    /\ voice.status # "destroyed" /\ FreeNets(EndNet(voice)) # {}

OnStateGone == Told /\ voice' \in StateGone(voice)
OnStateIn ==
    /\ Told
    /\ \E channel \in Channels, newSession \in BOOLEAN : voice' \in StateIn(voice, channel, newSession)
OnServerGone == Told /\ voice' \in ServerGone(voice)
OnServer == Told /\ voice' \in Connect([voice EXCEPT !.server = TRUE])

\* The timers of #signal and #armReconnectTimeout.
TimerFires ==
    /\ Alone
    /\ voice.timer # "none"
    /\ LET p == [voice EXCEPT !.timer = "none"] IN
        IF p.status = "connecting" \/ (voice.timer = "join" /\ p.status = "signalling")
        THEN voice' \in SetStatus(DropNet(p), "disconnected")
        ELSE voice' = p

\* #onOpen: RESUME, or IDENTIFY once DAVE is loaded.
SocketOpens(n) ==
    LET s == voice.nets[n] IN
    /\ Alone
    /\ s.socket = "dialing"
    /\ voice' = With(voice, n, [s EXCEPT !.socket = "open",
                                         !.waits = IF s.state = "opening" THEN "dave" ELSE @])

DaveLoads(n) ==
    LET s == voice.nets[n] IN
    /\ Alone
    /\ s.waits = "dave"
    /\ voice' = With(voice, n, [s EXCEPT !.waits = "nothing", !.state = "identifying"])

\* #onReady, up to its await
OnReady(n) ==
    LET s == voice.nets[n] IN
    /\ Alone
    /\ s.state = "identifying" /\ s.socket = "open"
    /\ voice' = With(voice, n, [s EXCEPT !.waits = "udp", !.state = "discovering"])

\* Mutant: nobody looks whether the session still goes on.
UdpOpensAnyway(n) ==
    LET s == voice.nets[n] IN
    /\ Alone
    /\ s.waits = "udp"
    /\ voice' = With(voice, n, [s EXCEPT !.waits = "discovery", !.udp = TRUE])

\* #onReady, after VoiceUdp.open
UdpOpens(n) ==
    LET s == voice.nets[n] IN
    /\ Alone
    /\ s.waits = "udp"
    /\ voice' = With(voice, n, IF s.state = "discovering"
                               THEN [s EXCEPT !.waits = "discovery", !.udp = TRUE]
                               ELSE [s EXCEPT !.waits = "nothing"])

\* #onReady, after VoiceUdp.discover: SELECT PROTOCOL
Discovers(n) ==
    LET s == voice.nets[n] IN
    /\ Alone
    /\ s.waits = "discovery"
    /\ voice' = With(voice, n, [s EXCEPT !.waits = "nothing", !.state = "selecting"])

\* #onReady: what it awaits fails.
UdpFails(n) ==
    LET s == [voice.nets[n] EXCEPT !.waits = "nothing"] IN
    /\ Fault
    /\ voice.nets[n].waits \in {"udp", "discovery"}
    /\ voice' \in IF s.state = "closed" THEN {With(voice, n, s)}
                  ELSE CloseForGood(With(voice, n, s), n)

\* #onSession
OnSession(n) ==
    LET s == voice.nets[n] IN
    /\ Alone
    /\ s.state = "selecting" /\ s.socket = "open"
    /\ voice' \in OnNetState(With(voice, n, [s EXCEPT !.state = "ready"]), n)

\* #onPacket, RESUMED
OnResumed(n) ==
    LET s == voice.nets[n] IN
    /\ Alone
    /\ s.state = "resuming" /\ (s.socket = "open" \/ s.late)
    /\ voice' \in OnNetState(With(voice, n, [s EXCEPT !.state = "ready", !.attempts = 0,
                                                      !.late = FALSE]), n)

\* #onClose: the server closes, the network fails, or a beat is not answered.
SocketCloses(n) ==
    /\ Fault
    /\ voice.nets[n].socket # "shut"
    /\ \/ \E late \in IF LateFrames /\ voice.nets[n].socket = "open" THEN BOOLEAN ELSE {FALSE} :
            voice' \in CloseResumable(voice, n, late)
       \/ voice' \in CloseForGood(voice, n)

\* #onClose, its timer
ResumeTimerFires(n) ==
    LET s == voice.nets[n] IN
    /\ Alone
    /\ s.backoff
    /\ voice' = With(voice, n, [s EXCEPT !.backoff = FALSE,
                                         !.socket = IF s.state = "resuming" THEN "dialing" ELSE @])

VoiceNext ==
    \/ CallRejoin \/ CallDisconnect \/ CallDestroy
    \/ OnStateGone \/ OnStateIn \/ OnServerGone \/ OnServer
    \/ TimerFires
    \/ \E n \in Nets :
        \/ SocketOpens(n) \/ DaveLoads(n) \/ OnReady(n) \/ UdpOpens(n) \/ Discovers(n)
        \/ UdpFails(n) \/ OnSession(n) \/ OnResumed(n) \/ SocketCloses(n) \/ ResumeTimerFires(n)

\* Fairness: a timer fires.
VoiceSpec == VoiceInit /\ [][VoiceNext]_voiceVars /\ WF_voiceVars(TimerFires)

-----------------------------------------------------------------------------
(***************************************************************************)
(* Properties.                                                             *)
(***************************************************************************)

\* What a replaced, left or destroyed session held is released, however many
\* awaits of it were under way: "nothing is left open" (udp.ts), "Leaves and
\* releases everything" (destroy() of connection.ts).
NothingLeftBehind ==
    /\ \A n \in Nets :
        voice.nets[n].state # "closed" \/ voice.nets[n].udp \/ voice.nets[n].backoff => n = voice.net
    /\ voice.status = "destroyed" => voice.net = 0

\* The one timer runs exactly while a join, a move or a resumption is under
\* way, whichever of them armed it.
AttemptIsTimed == (voice.status \in Pending) <=> (voice.timer # "none")

\* "Can send and receive audio" (VoiceConnectionStatus.Ready): the session is
\* ready, with its UDP socket and a gateway that is open.
ReadyCanSend ==
    voice.status = "ready" =>
        /\ voice.net # 0
        /\ voice.nets[voice.net].state = "ready"
        /\ voice.nets[voice.net].udp
        /\ voice.nets[voice.net].socket = "open"

\* Every join, move or resumption ends, ready or not.
AttemptsEnd == voice.status \in Pending ~> voice.status \notin Pending

\* The state is well typed, every attempt has its timer, and a connection that is ready
\* can send.
VoiceInv == VoiceTypeOK /\ AttemptIsTimed /\ ReadyCanSend

=============================================================================
