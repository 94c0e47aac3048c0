---------------------------- MODULE VoiceProofs ----------------------------
(***************************************************************************)
(* Theorems about the voice package, for every value of the constants.     *)
(*                                                                         *)
(* VoiceConnection, for listeners that call back once the connection has   *)
(* settled (Settled): nothing of a replaced session is left, attempts are  *)
(* timed, and a connection that is ready can send.  A listener that calls  *)
(* in the middle of #connect or #signal is followed by what the method had *)
(* begun.                                                                  *)
(*                                                                         *)
(* AudioPlayer: every operator but Schedule leads from a player to one     *)
(* that is Safe; a method and a tick are compositions of them, and Safe    *)
(* composes.  What plays is Fit between the methods, and in the middle of  *)
(* one it Suits the status that the method is about to tell.               *)
(***************************************************************************)
EXTENDS AudioPlayer, VoiceConnection, TLAPS

-----------------------------------------------------------------------------
(* A voice connection.                                                     *)

Settled == Listeners \subseteq {"ready", "disconnected"} \X {"rejoin", "disconnect", "destroy"}

VoiceStatuses == Pending \cup {"ready", "disconnected", "destroyed"}

-----------------------------------------------------------------------------
(* The invariant.                                                          *)

\* One session: what it waits for, and what it holds, at each state.
SessionSound(s) ==
    /\ s.state = "closed" => /\ s.socket = "shut" /\ ~s.udp /\ ~s.backoff
                             /\ s.waits \in {"nothing", "udp"}
    /\ s.state \in {"selecting", "ready", "resuming"} => s.udp
    /\ s.waits = "dave" => s.state = "opening"
    /\ s.waits = "udp" => s.state \in {"discovering", "closed"}
    /\ s.waits = "discovery" => s.state = "discovering" /\ s.udp
    /\ ~LateFrames => ~s.late /\ (s.state = "ready" => s.socket = "open")

\* The sessions are sound, and only the current one is not closed.
Core(p) ==
    /\ p \in Connection
    /\ \A n \in Nets : SessionSound(p.nets[n])
    /\ \A n \in Nets : p.nets[n].state # "closed" => n = p.net
    /\ p.status = "destroyed" => p.net = 0

\* The timer of each status.
Timed(p) ==
    /\ p.status = "signalling" => p.timer = "join"
    /\ p.status = "connecting" => p.timer # "none"
    /\ p.status \notin Pending => p.timer = "none"

Sends(p) == p.net # 0 /\ p.nets[p.net].state = "ready"

Sound(p) == Core(p) /\ Timed(p) /\ (p.status = "ready" => Sends(p))

-----------------------------------------------------------------------------
(* Sessions that end.                                                      *)

LEMMA EndedSound ==
    ASSUME NEW s \in Session
    PROVE  EndedSession(s) \in Session /\ SessionSound(EndedSession(s)) /\ EndedSession(s).state = "closed"
  <1> DEFINE w == IF s.waits = "udp" THEN "udp" ELSE "nothing"
  <1>1. w \in {"nothing", "udp"}
    OBVIOUS
  <1> HIDE DEF w
  <1>2. EndedSession(s) = [NoSession EXCEPT !.waits = w]
    BY DEF EndedSession, w
  <1>3. NoSession \in Session
    BY VoiceAssumption DEF NoSession, Session
  <1>4. [NoSession EXCEPT !.waits = w] \in Session
    BY <1>1, <1>3 DEF Session
  <1>5. SessionSound([NoSession EXCEPT !.waits = w])
        /\ [NoSession EXCEPT !.waits = w].state = "closed"
    BY <1>1 DEF NoSession, SessionSound
  <1> QED BY <1>2, <1>4, <1>5

LEMMA NewSessionSound ==
    NewSession \in Session /\ SessionSound(NewSession)
  <1> DEFINE o == [NoSession EXCEPT !.state = "opening"]
             d == [o EXCEPT !.socket = "dialing"]
  <1>1. /\ NoSession \in Session
        /\ NoSession.waits = "nothing" /\ NoSession.udp = FALSE /\ NoSession.late = FALSE
    BY VoiceAssumption DEF NoSession, Session
  <1>2. NewSession = d
    BY DEF NewSession, NoSession
  <1>3. /\ o \in Session
        /\ o.state = "opening" /\ o.waits = "nothing" /\ o.udp = FALSE /\ o.late = FALSE
    BY <1>1 DEF Session
  <1> HIDE DEF o
  <1>4. /\ d \in Session
        /\ d.state = "opening" /\ d.waits = "nothing" /\ d.udp = FALSE /\ d.late = FALSE
    BY <1>3 DEF Session
  <1> HIDE DEF d
  <1>5. SessionSound(d)
    BY <1>4 DEF SessionSound
  <1> QED BY <1>2, <1>4, <1>5

\* What a session is replaced by keeps the rest.
LEMMA WithCore ==
    ASSUME NEW p, Core(p), NEW n \in Nets, NEW s \in Session, SessionSound(s),
           s.state # "closed" => n = p.net
    PROVE  /\ Core(With(p, n, s))
           /\ With(p, n, s).nets[n] = s
           /\ \A k \in Nets \ {n} : With(p, n, s).nets[k] = p.nets[k]
           /\ With(p, n, s).net = p.net /\ With(p, n, s).status = p.status
           /\ With(p, n, s).timer = p.timer
  <1>1. With(p, n, s) \in Connection
    BY DEF With, Core, Connection
  <1>2. /\ With(p, n, s).nets[n] = s
        /\ \A k \in Nets \ {n} : With(p, n, s).nets[k] = p.nets[k]
        /\ With(p, n, s).net = p.net /\ With(p, n, s).status = p.status
        /\ With(p, n, s).timer = p.timer
    BY DEF With, Core, Connection
  <1> QED BY <1>1, <1>2 DEF Core

LEMMA EndNetCore ==
    ASSUME NEW p, Core(p)
    PROVE  /\ Core(EndNet(p))
           /\ \A n \in Nets : EndNet(p).nets[n].state = "closed"
           /\ EndNet(p).net = p.net /\ EndNet(p).status = p.status
           /\ EndNet(p).timer = p.timer
  <1>1. CASE p.net = 0
    BY <1>1 DEF EndNet, Core, Nets
  <1>2. CASE p.net # 0
    <2> DEFINE s == p.nets[p.net]
    <2>1. p.net \in Nets /\ s \in Session
      BY <1>2, VoiceAssumption DEF Core, Connection, Nets
    <2>2. EndedSession(s) \in Session /\ SessionSound(EndedSession(s)) /\ EndedSession(s).state = "closed"
      BY <2>1, EndedSound
    <2>3. EndNet(p) = With(p, p.net, EndedSession(s))
      BY <1>2 DEF EndNet, With
    <2> QED BY <2>1, <2>2, <2>3, WithCore DEF Core
  <1> QED BY <1>1, <1>2

LEMMA DropNetCore ==
    ASSUME NEW p, Core(p)
    PROVE  /\ Core(DropNet(p))
           /\ DropNet(p).net = 0 /\ DropNet(p).status = p.status
           /\ DropNet(p).timer = p.timer
  <1> DEFINE q == EndNet(p)
  <1>1. /\ Core(q) /\ q.status = p.status /\ q.timer = p.timer
        /\ \A n \in Nets : q.nets[n].state = "closed"
    BY EndNetCore
  <1>2. DropNet(p) = [q EXCEPT !.net = 0]
    BY DEF DropNet
  <1> HIDE DEF q
  <1>3. [q EXCEPT !.net = 0] \in Connection
    BY <1>1, VoiceAssumption DEF Core, Connection
  <1>4. /\ [q EXCEPT !.net = 0].nets = q.nets /\ [q EXCEPT !.net = 0].net = 0
        /\ [q EXCEPT !.net = 0].status = q.status /\ [q EXCEPT !.net = 0].timer = q.timer
    BY <1>1 DEF Core, Connection
  <1> QED BY <1>1, <1>2, <1>3, <1>4 DEF Core

-----------------------------------------------------------------------------
(* The status.                                                             *)

\* A change of fields that the sessions do not depend on.
LEMMA FieldsCore ==
    ASSUME NEW p, Core(p), NEW q \in Connection, q.nets = p.nets, q.net = p.net,
           q.status = "destroyed" => q.net = 0
    PROVE  Core(q)
  BY DEF Core

LEMMA BecameCore ==
    ASSUME NEW p, Core(p), NEW next \in VoiceStatuses \ {"destroyed"}, p.status # "destroyed"
    PROVE  /\ Core(Became(p, next))
           /\ Became(p, next).status = next
           /\ Became(p, next).timer = IF next \in {"ready", "disconnected"} THEN "none" ELSE p.timer
           /\ Became(p, next).net = p.net /\ Became(p, next).nets = p.nets
  <1> DEFINE t == IF next \in {"ready", "disconnected"} THEN "none" ELSE p.timer
             q == [p EXCEPT !.status = next, !.timer = t]
  <1>1. Became(p, next) = q
    BY DEF Became
  <1>2. t \in {"none", "join", "reconnect"} /\ p \in Connection
    BY DEF Core, Connection
  <1> HIDE DEF t
  <1>3. /\ q \in Connection /\ q.status = next /\ q.timer = t /\ q.net = p.net
        /\ q.nets = p.nets
    BY <1>2 DEF Connection, VoiceStatuses
  <1> HIDE DEF q
  <1>4. Core(q)
    BY <1>3, FieldsCore
  <1> QED BY <1>1, <1>3, <1>4 DEF t

LEMMA LeftCore ==
    ASSUME NEW p, Core(p)
    PROVE  /\ Core(Left(p)) /\ Left(p).net = 0 /\ Left(p).status = p.status
           /\ Left(p).timer = "none"
  <1> DEFINE q == DropNet(p)
  <1>1. Core(q) /\ q.net = 0 /\ q.status = p.status
    BY DropNetCore
  <1>2. Left(p) = [q EXCEPT !.leaving = TRUE, !.timer = "none"]
    BY DEF Left
  <1> HIDE DEF q
  <1>3. [q EXCEPT !.leaving = TRUE, !.timer = "none"] \in Connection
    BY <1>1 DEF Core, Connection
  <1>4. /\ Left(p).nets = q.nets /\ Left(p).net = 0 /\ Left(p).status = q.status
        /\ Left(p).timer = "none"
    BY <1>1, <1>2 DEF Core, Connection
  <1> QED BY <1>1, <1>2, <1>3, <1>4, FieldsCore

LEMMA DestroyedSound ==
    ASSUME NEW p, Core(p)
    PROVE  Sound(Destroyed(p))
  <1> DEFINE q == Left(p)
  <1>1. Core(q) /\ q.net = 0 /\ q.timer = "none"
    BY LeftCore
  <1>2. Destroyed(p) = [q EXCEPT !.status = "destroyed"]
    BY DEF Destroyed
  <1> HIDE DEF q
  <1>3. [q EXCEPT !.status = "destroyed"] \in Connection
    BY <1>1 DEF Core, Connection
  <1>4. /\ Destroyed(p).nets = q.nets /\ Destroyed(p).net = 0
        /\ Destroyed(p).status = "destroyed" /\ Destroyed(p).timer = "none"
    BY <1>1, <1>2 DEF Core, Connection
  <1> QED BY <1>1, <1>2, <1>3, <1>4, FieldsCore DEF Sound, Timed, Pending

LEMMA AskedCore ==
    ASSUME NEW p, Core(p), NEW channel \in Channels \cup {NoChannel}
    PROVE  /\ Core(Asked(p, channel))
           /\ Asked(p, channel).status = p.status /\ Asked(p, channel).timer = p.timer
           /\ Asked(p, channel).net = p.net /\ Asked(p, channel).nets = p.nets
  <1> DEFINE c == IF channel = NoChannel THEN p.channel ELSE channel
  <1>1. c \in Channels
    BY DEF Core, Connection
  <1> HIDE DEF c
  <1>2. Asked(p, channel) = [p EXCEPT !.channel = c]
    BY DEF Asked, c
  <1>3. [p EXCEPT !.channel = c] \in Connection
    BY <1>1 DEF Core, Connection
  <1>4. /\ Asked(p, channel).nets = p.nets /\ Asked(p, channel).net = p.net
        /\ Asked(p, channel).status = p.status /\ Asked(p, channel).timer = p.timer
    BY <1>2 DEF Core, Connection
  <1> QED BY <1>2, <1>3, <1>4, FieldsCore DEF Core

LEMMA ArmCore ==
    ASSUME NEW p, Core(p)
    PROVE  /\ Core(Arm(p))
           /\ Arm(p).timer = IF p.timer = "none" THEN "reconnect" ELSE p.timer
           /\ Arm(p).status = p.status /\ Arm(p).net = p.net /\ Arm(p).nets = p.nets
  <1> DEFINE t == IF p.timer = "none" THEN "reconnect" ELSE p.timer
  <1>1. t \in {"none", "join", "reconnect"}
    BY DEF Core, Connection
  <1>2. Arm(p) = [p EXCEPT !.timer = t]
    BY DEF Arm
  <1> HIDE DEF t
  <1>3. [p EXCEPT !.timer = t] \in Connection
    BY <1>1 DEF Core, Connection
  <1>4. /\ Arm(p).timer = t /\ Arm(p).status = p.status
        /\ Arm(p).net = p.net /\ Arm(p).nets = p.nets
    BY <1>2 DEF Core, Connection
  <1>5. Core(Arm(p))
    BY <1>2, <1>3, <1>4, FieldsCore DEF Core
  <1> QED BY <1>4, <1>5 DEF t

-----------------------------------------------------------------------------
(* Listeners.                                                              *)

LEMMA AnswersSound ==
    ASSUME Settled, NEW p, Sound(p)
    PROVE  \A r \in Answers(p) : Sound(r)
  <1> DEFINE q == [p EXCEPT !.answers = @ + 1]
             Does(call) == p.answers < MaxAnswers /\ <<p.status, call>> \in Listeners
             Rejoined(channel) ==
                 IF Stays(q, channel) THEN q
                 ELSE [Became(Asked(q, channel), "signalling") EXCEPT !.leaving = FALSE,
                                                                     !.timer = "join"]
  <1> SUFFICES ASSUME NEW r \in Answers(p) PROVE Sound(r)
    OBVIOUS
  <1>1. \/ Does("disconnect") /\ r = Became(Left(q), "disconnected")
        \/ Does("destroy") /\ r = Destroyed(q)
        \/ Does("rejoin") /\ \E channel \in Channels \cup {NoChannel} : r = Rejoined(channel)
    BY DEF Answers
  <1>2. p.answers < MaxAnswers /\ p.status \in {"ready", "disconnected"}
    BY <1>1 DEF Settled
  <1>3. p \in Connection /\ p.answers + 1 \in 0..MaxAnswers
    BY <1>2, VoiceAssumption DEF Sound, Core, Connection
  <1>4. /\ q \in Connection /\ q.nets = p.nets /\ q.net = p.net /\ q.status = p.status
        /\ q.timer = p.timer
    BY <1>3 DEF Connection
  <1>5. Core(q)
    BY <1>2, <1>4, FieldsCore DEF Sound
  <1>6. Sound(q)
    BY <1>4, <1>5 DEF Sound, Timed, Sends
  <1> HIDE DEF q
  <1>7. CASE r = Became(Left(q), "disconnected")
    <2>1. Core(Left(q)) /\ Left(q).net = 0 /\ Left(q).status = p.status
      BY <1>4, <1>5, LeftCore
    <2>2. Core(r) /\ r.status = "disconnected" /\ r.timer = "none"
      BY <1>2, <1>7, <2>1, BecameCore DEF VoiceStatuses
    <2> QED BY <2>2 DEF Sound, Timed, Pending
  <1>8. CASE r = Destroyed(q)
    BY <1>5, <1>8, DestroyedSound
  <1>9. ASSUME NEW channel \in Channels \cup {NoChannel}, r = Rejoined(channel)
        PROVE  Sound(r)
    <2>1. CASE Stays(q, channel)
      BY <1>6, <1>9, <2>1
    <2>2. CASE ~Stays(q, channel)
      <3> DEFINE a == Asked(q, channel)
                 b == Became(a, "signalling")
      <3>1. Core(a) /\ a.status = p.status
        BY <1>4, <1>5, AskedCore
      <3> HIDE DEF a
      <3>2. Core(b) /\ b.status = "signalling"
        BY <1>2, <3>1, BecameCore DEF VoiceStatuses, Pending
      <3>3. r = [b EXCEPT !.leaving = FALSE, !.timer = "join"]
        BY <1>9, <2>2 DEF a
      <3> HIDE DEF b
      <3>4. /\ r \in Connection /\ r.nets = b.nets /\ r.net = b.net
            /\ r.status = "signalling" /\ r.timer = "join"
        BY <3>2, <3>3 DEF Core, Connection
      <3>5. Core(r)
        BY <3>2, <3>4, FieldsCore
      <3> QED BY <3>4, <3>5 DEF Sound, Timed, Pending
    <2> QED BY <2>1, <2>2
  <1> QED BY <1>1, <1>7, <1>8, <1>9

\* No listener calls while an attempt is under way.
LEMMA SetQuiet ==
    ASSUME Settled, NEW p, Core(p), p.status # "destroyed", NEW next \in Pending
    PROVE  SetStatus(p, next) = {Became(p, next)}
  <1> DEFINE r == Became(p, next)
  <1>1. r.status = next
    BY BecameCore DEF VoiceStatuses, Pending
  <1> HIDE DEF r
  <1>2. \A call : <<r.status, call>> \notin Listeners
    BY <1>1 DEF Settled, Pending
  <1>3. Answers(r) = {}
    BY <1>2 DEF Answers
  <1> QED BY <1>3 DEF SetStatus, r

LEMMA SetSound ==
    ASSUME Settled, NEW p, Core(p), p.status = "destroyed" => p.timer = "none",
           NEW next \in {"ready", "disconnected"}, next = "ready" => Sends(p)
    PROVE  \A r \in SetStatus(p, next) : Sound(r)
  <1>1. CASE p.status = "destroyed"
    <2>1. SetStatus(p, next) = {p}
      BY <1>1 DEF SetStatus, Became
    <2> QED BY <1>1, <2>1 DEF Sound, Timed, Pending
  <1>2. CASE p.status # "destroyed"
    <2> DEFINE q == Became(p, next)
    <2>1. /\ Core(q) /\ q.status = next /\ q.timer = "none" /\ q.net = p.net
          /\ q.nets = p.nets
      BY <1>2, BecameCore DEF VoiceStatuses
    <2> HIDE DEF q
    <2>2. Sound(q)
      BY <2>1 DEF Sound, Timed, Sends, Pending
    <2>3. \A r \in SetStatus(p, next) : r = q \/ r \in Answers(q)
      BY DEF SetStatus, q
    <2> QED BY <2>2, <2>3, AnswersSound
  <1> QED BY <1>1, <1>2

-----------------------------------------------------------------------------
(* The operations of a connection.                                         *)

LEMMA SignalSound ==
    ASSUME Settled, NEW p, Core(p), p.status # "destroyed", NEW sent \in BOOLEAN
    PROVE  \A r \in Signal(p, sent) : Sound(r)
  <1> DEFINE a == [p EXCEPT !.leaving = FALSE]
             b == Became(a, "signalling")
             q == [b EXCEPT !.timer = "join"]
             Ends(r) == LET c == [r EXCEPT !.timer = "join"] IN
                        IF sent THEN {c} ELSE SetStatus(c, "disconnected")
  <1>1. /\ a \in Connection /\ a.nets = p.nets /\ a.net = p.net /\ a.status = p.status
    BY DEF Core, Connection
  <1>2. Core(a)
    BY <1>1, FieldsCore
  <1>3. Signal(p, sent) = UNION {Ends(r) : r \in SetStatus(a, "signalling")}
    BY DEF Signal
  <1> HIDE DEF a
  <1>4. SetStatus(a, "signalling") = {b}
    BY <1>1, <1>2, SetQuiet DEF Pending
  <1>5. Core(b) /\ b.status = "signalling"
    BY <1>1, <1>2, BecameCore DEF VoiceStatuses, Pending
  <1> HIDE DEF b, Ends
  <1>6. Signal(p, sent) = Ends(b)
    BY <1>3, <1>4
  <1>7. /\ q \in Connection /\ q.nets = b.nets /\ q.net = b.net
        /\ q.status = "signalling" /\ q.timer = "join"
    BY <1>5 DEF Core, Connection
  <1> HIDE DEF q
  <1>8. Core(q) /\ Sound(q)
    BY <1>5, <1>7, FieldsCore DEF Sound, Timed, Pending
  <1>9. \A r \in SetStatus(q, "disconnected") : Sound(r)
    BY <1>7, <1>8, SetSound
  <1> QED BY <1>6, <1>8, <1>9 DEF Ends, q

LEMMA OpenNetCore ==
    ASSUME NEW p, Core(p), p.status # "destroyed", FreeNets(p) # {},
           \A n \in Nets : p.nets[n].state = "closed"
    PROVE  /\ Core(OpenNet(p))
           /\ OpenNet(p).status = p.status /\ OpenNet(p).timer = p.timer
  <1> DEFINE n == CHOOSE n \in FreeNets(p) : TRUE
             q == [p EXCEPT !.net = n, !.nets[n] = NewSession]
  <1>1. OpenNet(p) = q
    BY DEF OpenNet
  <1>2. n \in Nets /\ n \in 0..MaxNets
    BY VoiceAssumption DEF FreeNets, Nets
  <1> HIDE DEF n
  <1>3. NewSession \in Session /\ SessionSound(NewSession)
    BY NewSessionSound
  <1>4. q \in Connection
    BY <1>2, <1>3 DEF Core, Connection
  <1>5. /\ q.nets = [p.nets EXCEPT ![n] = NewSession]
        /\ q.net = n /\ q.status = p.status /\ q.timer = p.timer
    BY <1>2 DEF Core, Connection
  <1>8. q.nets[n] = NewSession /\ \A k \in Nets \ {n} : q.nets[k] = p.nets[k]
    BY <1>2, <1>5 DEF Core, Connection
  <1> HIDE DEF q
  <1>6. \A k \in Nets : SessionSound(q.nets[k])
    BY <1>3, <1>8 DEF Core
  <1>7. \A k \in Nets : q.nets[k].state # "closed" => k = q.net
    BY <1>5, <1>8
  <1> QED BY <1>1, <1>4, <1>5, <1>6, <1>7 DEF Core

\* What EndNet leaves depends on the sessions alone.
LEMMA EndNetNets ==
    ASSUME NEW p, p \in Connection, NEW q \in Connection, q.nets = p.nets, q.net = p.net
    PROVE  FreeNets(EndNet(q)) = FreeNets(EndNet(p))
  <1>1. CASE p.net = 0
    BY <1>1 DEF EndNet, FreeNets
  <1>2. CASE p.net # 0
    <2>1. /\ EndNet(p) = [p EXCEPT !.nets[p.net] = EndedSession(@)]
          /\ EndNet(q) = [q EXCEPT !.nets[p.net] = EndedSession(@)]
      BY <1>2 DEF EndNet
    <2>2. /\ EndNet(p).nets = [p.nets EXCEPT ![p.net] = EndedSession(@)]
          /\ EndNet(q).nets = [p.nets EXCEPT ![p.net] = EndedSession(@)]
      BY <2>1 DEF Connection
    <2> QED BY <2>2 DEF FreeNets
  <1> QED BY <1>1, <1>2

LEMMA ConnectSound ==
    ASSUME Settled, NEW p, Sound(p), p.status # "destroyed", FreeNets(EndNet(p)) # {}
    PROVE  \A r \in Connect(p) : Sound(r)
  <1> DEFINE e == EndNet(p)
             a == [e EXCEPT !.opened = p.channel]
             b == Became(a, "connecting")
             c == Arm(b)
  <1>1. CASE ~(p.known /\ p.server)
    BY <1>1 DEF Connect
  <1>2. CASE p.known /\ p.server
    <2>1. Connect(p) = {OpenNet(Arm(r)) : r \in SetStatus(a, "connecting")}
      BY <1>2 DEF Connect
    <2>2. /\ Core(e) /\ e.status = p.status /\ FreeNets(e) # {}
          /\ \A n \in Nets : e.nets[n].state = "closed"
      BY EndNetCore DEF Sound
    <2>3. p.channel \in Channels
      BY DEF Sound, Core, Connection
    <2> HIDE DEF e
    <2>4. /\ a \in Connection /\ a.nets = e.nets /\ a.net = e.net /\ a.status = p.status
      BY <2>2, <2>3 DEF Core, Connection
    <2> HIDE DEF a
    <2>5. Core(a)
      BY <2>2, <2>4, FieldsCore
    <2>6. SetStatus(a, "connecting") = {b}
      BY <2>4, <2>5, SetQuiet DEF Pending
    <2>7. Core(b) /\ b.status = "connecting" /\ b.nets = e.nets
      BY <2>4, <2>5, BecameCore DEF VoiceStatuses, Pending
    <2> HIDE DEF b
    <2>8. Core(c) /\ c.status = "connecting" /\ c.nets = e.nets /\ c.timer # "none"
      BY <2>7, ArmCore
    <2>9. Connect(p) = {OpenNet(c)}
      BY <2>1, <2>6
    <2> HIDE DEF c
    <2>10. FreeNets(c) # {} /\ \A n \in Nets : c.nets[n].state = "closed"
      BY <2>2, <2>8 DEF FreeNets
    <2>11. Core(OpenNet(c)) /\ OpenNet(c).status = "connecting" /\ OpenNet(c).timer # "none"
      BY <2>8, <2>10, OpenNetCore
    <2> QED BY <2>9, <2>11 DEF Sound, Timed, Pending
  <1> QED BY <1>1, <1>2

LEMMA StateGoneSound ==
    ASSUME Settled, NEW p, Sound(p), p.status # "destroyed"
    PROVE  \A r \in StateGone(p) : Sound(r)
  <1> DEFINE d == DropNet(p)
             q == [d EXCEPT !.opened = NoChannel]
  <1>1. StateGone(p) = SetStatus(q, "disconnected")
    BY DEF StateGone
  <1>2. Core(d) /\ d.status = p.status
    BY DropNetCore DEF Sound
  <1> HIDE DEF d
  <1>3. q \in Connection /\ q.nets = d.nets /\ q.net = d.net /\ q.status = p.status
    BY <1>2 DEF Core, Connection
  <1> HIDE DEF q
  <1>4. Core(q)
    BY <1>2, <1>3, FieldsCore
  <1> QED BY <1>1, <1>3, <1>4, SetSound

LEMMA StateInSound ==
    ASSUME Settled, NEW p, Sound(p), p.status # "destroyed", FreeNets(EndNet(p)) # {},
           NEW channel \in Channels, NEW newSession \in BOOLEAN
    PROVE  \A r \in StateIn(p, channel, newSession) : Sound(r)
  <1> DEFINE q == [p EXCEPT !.known = TRUE, !.channel = channel]
             fresh == channel # p.opened \/ newSession \/ ~p.known \/ p.net = 0
             back == p.status = "signalling" /\ p.nets[p.net].state = "ready"
  <1>1. StateIn(p, channel, newSession) =
            IF fresh THEN Connect(q) ELSE IF back THEN SetStatus(q, "ready") ELSE {q}
    BY DEF StateIn
  <1>2. /\ q \in Connection /\ q.nets = p.nets /\ q.net = p.net
        /\ q.status = p.status /\ q.timer = p.timer
    BY DEF Sound, Core, Connection
  <1> HIDE DEF q
  <1>3. Core(q) /\ Sound(q)
    BY <1>2, FieldsCore DEF Sound, Timed, Sends
  <1>4. FreeNets(EndNet(q)) # {}
    BY <1>2, EndNetNets DEF Sound, Core
  <1>5. \A r \in Connect(q) : Sound(r)
    BY <1>2, <1>3, <1>4, ConnectSound
  <1>6. CASE ~fresh /\ back
    <2>1. Sends(q)
      BY <1>2, <1>6 DEF Sends
    <2> QED BY <1>1, <1>2, <1>3, <1>6, <2>1, SetSound
  <1> QED BY <1>1, <1>3, <1>5, <1>6

LEMMA ServerGoneSound ==
    ASSUME Settled, NEW p, Sound(p), p.status # "destroyed"
    PROVE  \A r \in ServerGone(p) : Sound(r)
  <1> DEFINE d == DropNet(p)
             b == Became(d, "connecting")
             q == IF p.status = "ready" THEN b ELSE d
  <1>1. Core(d) /\ d.status = p.status /\ d.timer = p.timer
    BY DropNetCore DEF Sound
  <1>2. ServerGone(p) = {IF r.status = "connecting" THEN Arm(r) ELSE r :
                         r \in IF p.status = "ready" THEN SetStatus(d, "connecting") ELSE {d}}
    BY DEF ServerGone
  <1> HIDE DEF d
  <1>3. SetStatus(d, "connecting") = {b}
    BY <1>1, SetQuiet DEF Pending
  <1>4. Core(b) /\ b.status = "connecting"
    BY <1>1, BecameCore DEF VoiceStatuses, Pending
  <1> HIDE DEF b
  <1>5. ServerGone(p) = {IF q.status = "connecting" THEN Arm(q) ELSE q}
    BY <1>2, <1>3
  <1>6. /\ Core(q)
        /\ q.status # "ready"
        /\ q.status # "connecting" => Timed(q)
    BY <1>1, <1>4 DEF Sound, Timed
  <1> HIDE DEF q
  <1>7. CASE q.status = "connecting"
    <2>1. Core(Arm(q)) /\ Arm(q).status = "connecting" /\ Arm(q).timer # "none"
      BY <1>6, <1>7, ArmCore
    <2> QED BY <1>5, <1>7, <2>1 DEF Sound, Timed, Pending
  <1>8. CASE q.status # "connecting"
    BY <1>5, <1>6, <1>8 DEF Sound
  <1> QED BY <1>7, <1>8

-----------------------------------------------------------------------------
(* The sessions.                                                           *)

\* A session steps on, and its owner is not told.
LEMMA StepSound ==
    ASSUME NEW p, Sound(p), NEW n \in Nets, NEW s \in Session, SessionSound(s),
           s.state # "closed" => n = p.net,
           p.nets[n].state = "ready" => s.state = "ready"
    PROVE  Sound(With(p, n, s))
  <1> DEFINE q == With(p, n, s)
  <1>1. /\ Core(q) /\ q.nets[n] = s
        /\ \A k \in Nets \ {n} : q.nets[k] = p.nets[k]
        /\ q.net = p.net /\ q.status = p.status /\ q.timer = p.timer
    BY WithCore DEF Sound
  <1>2. p.net = 0 \/ p.net \in Nets
    BY VoiceAssumption DEF Sound, Core, Connection, Nets
  <1> HIDE DEF q
  <1>3. Timed(q)
    BY <1>1 DEF Sound, Timed
  <1>4. Sends(p) => Sends(q)
    BY <1>1, <1>2 DEF Sends
  <1> QED BY <1>1, <1>3, <1>4 DEF Sound, q

\* The owner hears that a session is ready.
LEMMA ReadySound ==
    ASSUME Settled, NEW p, Core(p), NEW n \in Nets, p.nets[n].state = "ready"
    PROVE  \A r \in OnNetState(p, n) : Sound(r)
  <1>1. n = p.net /\ n # 0 /\ p.status # "destroyed"
    BY VoiceAssumption DEF Core, Nets
  <1>2. OnNetState(p, n) = SetStatus(p, "ready")
    BY <1>1 DEF OnNetState
  <1>3. Sends(p)
    BY <1>1 DEF Sends
  <1> QED BY <1>1, <1>2, <1>3, SetSound

LEMMA ResumeSound ==
    ASSUME Settled, NEW p, Sound(p), NEW n \in Nets, Resumes(p.nets[n]),
           NEW late \in BOOLEAN, ~LateFrames => ~late
    PROVE  \A r \in Resume(p, n, late) : Sound(r)
  <1> DEFINE o == p.nets[n]
             again == o.attempts + 1
             s == [o EXCEPT !.state = "resuming", !.socket = "shut",
                            !.attempts = @ + 1, !.late = late]
             w == With(p, n, s)
             b == Became(w, "connecting")
             q == Arm(b)
             t == [s EXCEPT !.backoff = TRUE]
  <1>1. /\ o \in Session /\ SessionSound(o) /\ o.state \in {"ready", "resuming"}
        /\ o.attempts < Attempts /\ n = p.net /\ p.net # 0 /\ p.status # "destroyed"
    BY VoiceAssumption DEF Sound, Core, Connection, Resumes, Nets
  <1>2. Resume(p, n, late) = {With(r, n, [r.nets[n] EXCEPT !.backoff = TRUE]) :
                              r \in OnNetState(w, n)}
    BY DEF Resume
  <1>3. o.udp /\ o.waits = "nothing"
    BY <1>1 DEF SessionSound, Session
  <1> HIDE DEF o
  <1>4. /\ s \in Session /\ s.state = "resuming" /\ s.socket = "shut" /\ s.late = late
        /\ s.udp /\ s.waits = "nothing"
    <2>1. again \in 0..Attempts
      BY <1>1, VoiceAssumption DEF Session
    <2>2. s = [o EXCEPT !.state = "resuming", !.socket = "shut",
                        !.attempts = again, !.late = late]
      OBVIOUS
    <2> HIDE DEF again
    <2> QED BY <1>1, <1>3, <2>1, <2>2 DEF Session
  <1> HIDE DEF s
  <1>5. SessionSound(s)
    BY <1>4 DEF SessionSound
  <1>6. t \in Session /\ t.state = "resuming" /\ SessionSound(t)
    <2>1. /\ t \in Session /\ t.state = "resuming" /\ t.late = late
          /\ t.udp /\ t.waits = "nothing"
      BY <1>4 DEF Session
    <2> HIDE DEF t
    <2> QED BY <2>1 DEF SessionSound
  <1>7. Core(w) /\ w.nets[n] = s /\ w.net = n /\ w.status = p.status
    BY <1>1, <1>4, <1>5, WithCore DEF Sound
  <1> HIDE DEF w
  <1>8. SetStatus(w, "connecting") = {b}
    BY <1>1, <1>7, SetQuiet DEF Pending
  <1>9. OnNetState(w, n) = {q}
    <2>1. OnNetState(w, n) = {Arm(r) : r \in SetStatus(w, "connecting")}
      BY <1>4, <1>7 DEF OnNetState
    <2> QED BY <1>8, <2>1
  <1>10. Core(b) /\ b.status = "connecting" /\ b.net = n /\ b.nets = w.nets
    BY <1>1, <1>7, BecameCore DEF VoiceStatuses, Pending
  <1> HIDE DEF b
  <1>11. /\ Core(q) /\ q.status = "connecting" /\ q.net = n /\ q.nets[n] = s
         /\ q.timer # "none"
    BY <1>7, <1>10, ArmCore
  <1> HIDE DEF q
  <1>12. Resume(p, n, late) = {With(q, n, t)}
    BY <1>2, <1>9, <1>11
  <1>13. Sound(q)
    BY <1>11 DEF Sound, Timed, Pending
  <1>14. Sound(With(q, n, t))
    <2> HIDE DEF t
    <2> QED BY <1>4, <1>6, <1>11, <1>13, StepSound
  <1> QED BY <1>12, <1>14

LEMMA CloseSound ==
    ASSUME Settled, NEW p, Sound(p), NEW n \in Nets
    PROVE  \A r \in CloseForGood(p, n) : Sound(r)
  <1> DEFINE s == EndedSession(p.nets[n])
             w == With(p, n, s)
             d == [w EXCEPT !.net = 0]
  <1>1. s \in Session /\ SessionSound(s) /\ s.state = "closed"
    BY EndedSound DEF Sound, Core, Connection
  <1> HIDE DEF s
  <1>2. /\ Core(w) /\ w.nets[n] = s /\ \A k \in Nets \ {n} : w.nets[k] = p.nets[k]
        /\ w.net = p.net /\ w.status = p.status /\ w.timer = p.timer
    BY <1>1, WithCore DEF Sound
  <1>3. CloseForGood(p, n) = OnNetClose(w, n)
    BY DEF CloseForGood, s
  <1> HIDE DEF w
  <1>4. CASE w.net # n
    <2>1. p.net = 0 \/ p.net \in Nets \ {n}
      BY <1>2, <1>4, VoiceAssumption DEF Core, Connection, Nets
    <2>2. Sends(p) => Sends(w)
      BY <1>2, <2>1 DEF Sends
    <2>3. Sound(w)
      BY <1>2, <2>2 DEF Sound, Timed
    <2>4. CloseForGood(p, n) = {w}
      BY <1>3, <1>4 DEF OnNetClose
    <2> QED BY <2>3, <2>4
  <1>5. CASE w.net = n
    <2>1. CloseForGood(p, n) = SetStatus(d, "disconnected")
      BY <1>3, <1>5 DEF OnNetClose
    <2>2. n # 0 /\ w.status # "destroyed"
      BY <1>2, <1>5, VoiceAssumption DEF Core, Nets
    <2>3. /\ d \in Connection /\ d.nets = w.nets /\ d.net = 0 /\ d.status = w.status
      BY <1>2, VoiceAssumption DEF Core, Connection
    <2> HIDE DEF d
    <2>4. \A k \in Nets : d.nets[k].state = "closed"
      BY <1>1, <1>2, <1>5, <2>3 DEF Core
    <2>5. Core(d)
      BY <1>2, <2>3, <2>4 DEF Core
    <2> QED BY <2>1, <2>2, <2>3, <2>5, SetSound
  <1> QED BY <1>4, <1>5

LEMMA CloseResumableSound ==
    ASSUME Settled, NEW p, Sound(p), NEW n \in Nets, NEW late \in BOOLEAN, ~LateFrames => ~late
    PROVE  \A r \in CloseResumable(p, n, late) : Sound(r)
  <1>1. CASE Resumes(p.nets[n])
    BY <1>1, ResumeSound DEF CloseResumable
  <1>2. CASE ~Resumes(p.nets[n])
    <2>1. CloseResumable(p, n, late) = CloseForGood(p, n)
      BY <1>2 DEF CloseResumable, CloseForGood
    <2> QED BY <2>1, CloseSound
  <1> QED BY <1>1, <1>2

-----------------------------------------------------------------------------
(* The steps.                                                              *)

LEMMA CallRejoinSound ==
    ASSUME Settled, Sound(voice), CallRejoin
    PROVE  Sound(voice')
  <1>1. voice.status # "destroyed"
    BY DEF CallRejoin
  <1>2. PICK channel \in Channels \cup {NoChannel} :
            IF Stays(voice, channel) THEN voice' = Asked(voice, channel)
            ELSE \E sent \in IF Unsent THEN BOOLEAN ELSE {TRUE} :
                    voice' \in Signal(Asked(voice, channel), sent)
    BY DEF CallRejoin
  <1> DEFINE a == Asked(voice, channel)
  <1>3. /\ Core(a) /\ a.status = voice.status /\ a.timer = voice.timer
        /\ a.net = voice.net /\ a.nets = voice.nets
    BY AskedCore DEF Sound
  <1> HIDE DEF a
  <1>4. CASE Stays(voice, channel)
    <2>1. voice' = a
      BY <1>2, <1>4 DEF a
    <2> QED BY <1>3, <2>1 DEF Sound, Timed, Sends
  <1>5. CASE ~Stays(voice, channel)
    <2>1. PICK sent \in BOOLEAN : voice' \in Signal(a, sent)
      BY <1>2, <1>5 DEF a
    <2> QED BY <1>1, <1>3, <2>1, SignalSound
  <1> QED BY <1>4, <1>5

LEMMA CallsSound ==
    ASSUME Settled, Sound(voice), CallDisconnect \/ CallDestroy
    PROVE  Sound(voice')
  <1>1. CASE CallDisconnect
    <2>1. Core(Left(voice)) /\ Left(voice).timer = "none"
      BY LeftCore DEF Sound
    <2> QED BY <1>1, <2>1, SetSound DEF CallDisconnect
  <1>2. CASE CallDestroy
    BY <1>2, DestroyedSound DEF CallDestroy, Sound
  <1> QED BY <1>1, <1>2

LEMMA EventsSound ==
    ASSUME Settled, Sound(voice), OnStateGone \/ OnStateIn \/ OnServerGone \/ OnServer
    PROVE  Sound(voice')
  <1>1. voice.status # "destroyed" /\ FreeNets(EndNet(voice)) # {}
    BY DEF OnStateGone, OnStateIn, OnServerGone, OnServer, Told
  <1>2. CASE OnStateGone
    BY <1>1, <1>2, StateGoneSound DEF OnStateGone
  <1>3. CASE OnStateIn
    BY <1>1, <1>3, StateInSound DEF OnStateIn
  <1>4. CASE OnServerGone
    BY <1>1, <1>4, ServerGoneSound DEF OnServerGone
  <1>5. CASE OnServer
    <2> DEFINE q == [voice EXCEPT !.server = TRUE]
    <2>1. voice' \in Connect(q)
      BY <1>5 DEF OnServer
    <2>2. /\ q \in Connection /\ q.nets = voice.nets /\ q.net = voice.net
          /\ q.status = voice.status /\ q.timer = voice.timer
      BY DEF Sound, Core, Connection
    <2> HIDE DEF q
    <2>3. Sound(q)
      BY <2>2, FieldsCore DEF Sound, Core, Timed, Sends
    <2>4. FreeNets(EndNet(q)) # {}
      BY <1>1, <2>2, EndNetNets DEF Sound, Core
    <2> QED BY <1>1, <2>1, <2>2, <2>3, <2>4, ConnectSound
  <1> QED BY <1>2, <1>3, <1>4, <1>5

LEMMA TimerSound ==
    ASSUME Settled, Sound(voice), TimerFires
    PROVE  Sound(voice')
  <1> DEFINE p == [voice EXCEPT !.timer = "none"]
  <1>1. /\ p \in Connection /\ p.nets = voice.nets /\ p.net = voice.net
        /\ p.status = voice.status /\ p.timer = "none"
    BY DEF Sound, Core, Connection
  <1>2. voice.status \in Pending /\ (voice.status = "signalling" => voice.timer = "join")
    BY DEF TimerFires, Sound, Timed
  <1>3. voice' \in SetStatus(DropNet(p), "disconnected")
    BY <1>1, <1>2 DEF TimerFires, Pending
  <1> HIDE DEF p
  <1>4. Core(p)
    BY <1>1, FieldsCore DEF Sound, Core
  <1>5. Core(DropNet(p)) /\ DropNet(p).timer = "none"
    BY <1>1, <1>4, DropNetCore
  <1> QED BY <1>3, <1>5, SetSound

\* What a session holds is what its type says, and it is sound.
LEMMA NetSound ==
    ASSUME Sound(voice), NEW n \in Nets
    PROVE  /\ voice.nets[n] \in Session /\ SessionSound(voice.nets[n])
           /\ voice.nets[n].state # "closed" => n = voice.net
  BY DEF Sound, Core, Connection

LEMMA SocketOpensSound ==
    ASSUME Sound(voice), NEW n \in Nets, SocketOpens(n)
    PROVE  Sound(voice')
  <1> DEFINE s == voice.nets[n]
             w == IF s.state = "opening" THEN "dave" ELSE s.waits
             t == [s EXCEPT !.socket = "open", !.waits = w]
  <1>1. voice' = With(voice, n, t) /\ s.socket = "dialing"
    BY DEF SocketOpens
  <1>2. s \in Session /\ SessionSound(s) /\ (s.state # "closed" => n = voice.net)
    BY NetSound
  <1>3. w \in {"nothing", "dave", "udp", "discovery"}
    BY <1>2 DEF Session
  <1>4. w # s.waits => w = "dave" /\ s.state = "opening"
    OBVIOUS
  <1> HIDE DEF s, w
  <1>5. /\ t \in Session /\ t.state = s.state /\ t.socket = "open" /\ t.waits = w
        /\ t.udp = s.udp /\ t.backoff = s.backoff /\ t.late = s.late
    BY <1>2, <1>3 DEF Session
  <1> HIDE DEF t
  <1>6. SessionSound(t)
    BY <1>1, <1>2, <1>4, <1>5 DEF SessionSound
  <1> QED BY <1>1, <1>2, <1>5, <1>6, StepSound DEF s

LEMMA DaveLoadsSound ==
    ASSUME Sound(voice), NEW n \in Nets, DaveLoads(n)
    PROVE  Sound(voice')
  <1> DEFINE s == voice.nets[n]
             t == [s EXCEPT !.waits = "nothing", !.state = "identifying"]
  <1>1. voice' = With(voice, n, t) /\ s.waits = "dave"
    BY DEF DaveLoads
  <1>2. s \in Session /\ SessionSound(s) /\ (s.state # "closed" => n = voice.net)
    BY NetSound
  <1>3. s.state = "opening"
    BY <1>1, <1>2 DEF SessionSound
  <1> HIDE DEF s
  <1>4. /\ t \in Session /\ t.state = "identifying" /\ t.waits = "nothing" /\ t.late = s.late
    BY <1>2 DEF Session
  <1> HIDE DEF t
  <1>5. SessionSound(t)
    BY <1>2, <1>4 DEF SessionSound
  <1> QED BY <1>1, <1>2, <1>3, <1>4, <1>5, StepSound DEF s

LEMMA OnReadySound ==
    ASSUME Sound(voice), NEW n \in Nets, OnReady(n)
    PROVE  Sound(voice')
  <1> DEFINE s == voice.nets[n]
             t == [s EXCEPT !.waits = "udp", !.state = "discovering"]
  <1>1. voice' = With(voice, n, t) /\ s.state = "identifying"
    BY DEF OnReady
  <1>2. s \in Session /\ SessionSound(s) /\ (s.state # "closed" => n = voice.net)
    BY NetSound
  <1> HIDE DEF s
  <1>3. /\ t \in Session /\ t.state = "discovering" /\ t.waits = "udp" /\ t.late = s.late
    BY <1>2 DEF Session
  <1> HIDE DEF t
  <1>4. SessionSound(t)
    BY <1>2, <1>3 DEF SessionSound
  <1> QED BY <1>1, <1>2, <1>3, <1>4, StepSound DEF s

\* The socket may open after its session has ended.
LEMMA UdpOpensSound ==
    ASSUME Sound(voice), NEW n \in Nets, UdpOpens(n)
    PROVE  Sound(voice')
  <1> DEFINE s == voice.nets[n]
             t == [s EXCEPT !.waits = "discovery", !.udp = TRUE]
             u == [s EXCEPT !.waits = "nothing"]
  <1>1. /\ s.waits = "udp"
        /\ voice' = With(voice, n, IF s.state = "discovering" THEN t ELSE u)
    BY DEF UdpOpens
  <1>2. s \in Session /\ SessionSound(s) /\ (s.state # "closed" => n = voice.net)
    BY NetSound
  <1>3. s.state \in {"discovering", "closed"}
    BY <1>1, <1>2 DEF SessionSound
  <1> HIDE DEF s
  <1>4. CASE s.state = "discovering"
    <2>1. /\ t \in Session /\ t.state = s.state /\ t.waits = "discovery" /\ t.udp
          /\ t.late = s.late
      BY <1>2 DEF Session
    <2>2. voice' = With(voice, n, t)
      BY <1>1, <1>4
    <2> HIDE DEF t
    <2>3. SessionSound(t)
      BY <1>2, <1>4, <2>1 DEF SessionSound
    <2> QED BY <1>2, <1>4, <2>1, <2>2, <2>3, StepSound DEF s
  <1>5. CASE s.state # "discovering"
    <2>1. /\ u \in Session /\ u.state = s.state /\ u.waits = "nothing" /\ u.udp = s.udp
          /\ u.late = s.late /\ u.socket = s.socket /\ u.backoff = s.backoff
      BY <1>2 DEF Session
    <2>2. voice' = With(voice, n, u)
      BY <1>1, <1>5
    <2> HIDE DEF u
    <2>3. SessionSound(u)
      BY <1>2, <2>1 DEF SessionSound
    <2> QED BY <1>2, <1>3, <1>5, <2>1, <2>2, <2>3, StepSound DEF s
  <1> QED BY <1>4, <1>5

LEMMA DiscoversSound ==
    ASSUME Sound(voice), NEW n \in Nets, Discovers(n)
    PROVE  Sound(voice')
  <1> DEFINE s == voice.nets[n]
             t == [s EXCEPT !.waits = "nothing", !.state = "selecting"]
  <1>1. voice' = With(voice, n, t) /\ s.waits = "discovery"
    BY DEF Discovers
  <1>2. s \in Session /\ SessionSound(s) /\ (s.state # "closed" => n = voice.net)
    BY NetSound
  <1>3. s.state = "discovering" /\ s.udp
    BY <1>1, <1>2 DEF SessionSound
  <1> HIDE DEF s
  <1>4. /\ t \in Session /\ t.state = "selecting" /\ t.waits = "nothing" /\ t.late = s.late
        /\ t.udp = s.udp
    BY <1>2 DEF Session
  <1> HIDE DEF t
  <1>5. SessionSound(t)
    BY <1>2, <1>3, <1>4 DEF SessionSound
  <1> QED BY <1>1, <1>2, <1>3, <1>4, <1>5, StepSound DEF s

LEMMA UdpFailsSound ==
    ASSUME Settled, Sound(voice), NEW n \in Nets, UdpFails(n)
    PROVE  Sound(voice')
  <1> DEFINE o == voice.nets[n]
             s == [o EXCEPT !.waits = "nothing"]
             w == With(voice, n, s)
  <1>1. /\ o.waits \in {"udp", "discovery"}
        /\ voice' \in IF s.state = "closed" THEN {w} ELSE CloseForGood(w, n)
    BY DEF UdpFails
  <1>2. o \in Session /\ SessionSound(o) /\ (o.state # "closed" => n = voice.net)
    BY NetSound
  <1>3. o.state # "ready"
    BY <1>1, <1>2 DEF SessionSound
  <1> HIDE DEF o
  <1>4. /\ s \in Session /\ s.state = o.state /\ s.waits = "nothing" /\ s.udp = o.udp
        /\ s.late = o.late /\ s.socket = o.socket /\ s.backoff = o.backoff
    BY <1>2 DEF Session
  <1> HIDE DEF s
  <1>5. SessionSound(s)
    BY <1>2, <1>4 DEF SessionSound
  <1>6. Sound(w)
    BY <1>2, <1>3, <1>4, <1>5, StepSound DEF o
  <1> HIDE DEF w
  <1>7. \A r \in CloseForGood(w, n) : Sound(r)
    BY <1>6, CloseSound
  <1> QED BY <1>1, <1>6, <1>7

LEMMA OnSessionSound ==
    ASSUME Settled, Sound(voice), NEW n \in Nets, OnSession(n)
    PROVE  Sound(voice')
  <1> DEFINE s == voice.nets[n]
             t == [s EXCEPT !.state = "ready"]
             w == With(voice, n, t)
  <1>1. voice' \in OnNetState(w, n) /\ s.state = "selecting" /\ s.socket = "open"
    BY DEF OnSession
  <1>2. s \in Session /\ SessionSound(s) /\ (s.state # "closed" => n = voice.net)
    BY NetSound
  <1> HIDE DEF s
  <1>3. /\ t \in Session /\ t.state = "ready" /\ t.waits = s.waits /\ t.udp = s.udp
        /\ t.late = s.late /\ t.socket = "open" /\ t.backoff = s.backoff
    BY <1>1, <1>2 DEF Session
  <1> HIDE DEF t
  <1>4. SessionSound(t)
    BY <1>1, <1>2, <1>3 DEF SessionSound
  <1>5. Core(w) /\ w.nets[n] = t
    BY <1>1, <1>2, <1>3, <1>4, WithCore DEF Sound
  <1> HIDE DEF w
  <1> QED BY <1>1, <1>3, <1>5, ReadySound

LEMMA OnResumedSound ==
    ASSUME Settled, Sound(voice), NEW n \in Nets, OnResumed(n)
    PROVE  Sound(voice')
  <1> DEFINE s == voice.nets[n]
             t == [s EXCEPT !.state = "ready", !.attempts = 0, !.late = FALSE]
             w == With(voice, n, t)
  <1>1. /\ voice' \in OnNetState(w, n)
        /\ s.state = "resuming" /\ (s.socket = "open" \/ s.late)
    BY DEF OnResumed
  <1>2. s \in Session /\ SessionSound(s) /\ (s.state # "closed" => n = voice.net)
    BY NetSound
  <1>3. 0 \in 0..Attempts
    BY VoiceAssumption
  <1> HIDE DEF s
  <1>4. /\ t \in Session /\ t.state = "ready" /\ t.waits = s.waits /\ t.udp = s.udp
        /\ t.late = FALSE /\ t.socket = s.socket /\ t.backoff = s.backoff
    BY <1>2, <1>3 DEF Session
  <1> HIDE DEF t
  <1>5. SessionSound(t)
    BY <1>1, <1>2, <1>4 DEF SessionSound
  <1>6. Core(w) /\ w.nets[n] = t
    BY <1>1, <1>2, <1>4, <1>5, WithCore DEF Sound
  <1> HIDE DEF w
  <1> QED BY <1>1, <1>4, <1>6, ReadySound

LEMMA SocketClosesSound ==
    ASSUME Settled, Sound(voice), NEW n \in Nets, SocketCloses(n)
    PROVE  Sound(voice')
  <1>1. \/ \E late \in BOOLEAN : (~LateFrames => ~late) /\ voice' \in CloseResumable(voice, n, late)
        \/ voice' \in CloseForGood(voice, n)
    BY DEF SocketCloses
  <1> QED BY <1>1, CloseSound, CloseResumableSound

LEMMA ResumeTimerSound ==
    ASSUME Sound(voice), NEW n \in Nets, ResumeTimerFires(n)
    PROVE  Sound(voice')
  <1> DEFINE s == voice.nets[n]
             k == IF s.state = "resuming" THEN "dialing" ELSE s.socket
             t == [s EXCEPT !.backoff = FALSE, !.socket = k]
  <1>1. voice' = With(voice, n, t) /\ s.backoff
    BY DEF ResumeTimerFires
  <1>2. s \in Session /\ SessionSound(s) /\ (s.state # "closed" => n = voice.net)
    BY NetSound
  <1>3. k \in {"dialing", "open", "shut"} /\ (s.state # "resuming" => k = s.socket)
    BY <1>2 DEF Session
  <1> HIDE DEF s, k
  <1>4. /\ t \in Session /\ t.state = s.state /\ t.waits = s.waits /\ t.udp = s.udp
        /\ t.late = s.late /\ t.socket = k /\ t.backoff = FALSE
    BY <1>2, <1>3 DEF Session
  <1> HIDE DEF t
  <1>5. SessionSound(t)
    BY <1>1, <1>2, <1>3, <1>4 DEF SessionSound
  <1> QED BY <1>1, <1>2, <1>4, <1>5, StepSound DEF s

-----------------------------------------------------------------------------
(* The theorems.                                                           *)

Counted == calls \in 0..MaxCalls /\ events \in 0..MaxEvents /\ faults \in 0..MaxFaults

IInv == Sound(voice) /\ Counted

LEMMA InitIInv == VoiceInit => IInv
  <1> SUFFICES ASSUME VoiceInit PROVE IInv
    OBVIOUS
  <1>1. NoSession \in Session /\ SessionSound(NoSession) /\ NoSession.state = "closed"
    BY VoiceAssumption DEF NoSession, Session, SessionSound
  <1>2. PICK sent \in BOOLEAN, channel \in Channels :
            voice = [status |-> IF sent THEN "signalling" ELSE "disconnected",
                     channel |-> channel, opened |-> NoChannel, known |-> FALSE,
                     server |-> FALSE, timer |-> IF sent THEN "join" ELSE "none",
                     leaving |-> FALSE, net |-> 0,
                     nets |-> [n \in Nets |-> NoSession], answers |-> 0]
    BY DEF VoiceInit
  <1>3. /\ voice \in Connection /\ voice.nets = [n \in Nets |-> NoSession]
        /\ voice.status \in {"signalling", "disconnected"}
        /\ voice.timer = IF voice.status = "signalling" THEN "join" ELSE "none"
    BY <1>1, <1>2, VoiceAssumption DEF Connection, Pending
  <1>4. Sound(voice)
    BY <1>1, <1>3 DEF Sound, Core, Timed, Pending
  <1>5. Counted
    BY VoiceAssumption DEF VoiceInit, Counted
  <1> QED BY <1>4, <1>5 DEF IInv

LEMMA NextCounts == VoiceNext => OneCall \/ Event \/ Fault \/ Alone
  <1>1. CallRejoin \/ CallDisconnect \/ CallDestroy => OneCall
    BY DEF CallRejoin, CallDisconnect, CallDestroy
  <1>2. OnStateGone \/ OnStateIn \/ OnServerGone \/ OnServer => Event
    BY DEF OnStateGone, OnStateIn, OnServerGone, OnServer, Told
  <1>3. TimerFires => Alone
    BY DEF TimerFires
  <1>4. ASSUME NEW n \in Nets
        PROVE  /\ SocketOpens(n) => Alone
               /\ DaveLoads(n) => Alone
               /\ OnReady(n) => Alone
               /\ UdpOpens(n) => Alone
               /\ Discovers(n) => Alone
               /\ UdpFails(n) => Fault
               /\ OnSession(n) => Alone
               /\ OnResumed(n) => Alone
               /\ SocketCloses(n) => Fault
               /\ ResumeTimerFires(n) => Alone
    <2>1. /\ SocketOpens(n) => Alone
          /\ DaveLoads(n) => Alone
          /\ OnReady(n) => Alone
      BY DEF SocketOpens, DaveLoads, OnReady
    <2>2. /\ UdpOpens(n) => Alone
          /\ Discovers(n) => Alone
          /\ UdpFails(n) => Fault
      BY DEF UdpOpens, Discovers, UdpFails
    <2>3. /\ OnSession(n) => Alone
          /\ OnResumed(n) => Alone
          /\ SocketCloses(n) => Fault
          /\ ResumeTimerFires(n) => Alone
      BY DEF OnSession, OnResumed, SocketCloses, ResumeTimerFires
    <2> QED BY <2>1, <2>2, <2>3
  <1> QED BY <1>1, <1>2, <1>3, <1>4 DEF VoiceNext

LEMMA NextIInv ==
    ASSUME Settled
    PROVE  IInv /\ [VoiceNext]_voiceVars => IInv'
  <1> SUFFICES ASSUME IInv, [VoiceNext]_voiceVars PROVE IInv'
    OBVIOUS
  <1>1. Sound(voice) /\ Counted
    BY DEF IInv
  <1>2. CASE UNCHANGED voiceVars
    BY <1>1, <1>2 DEF voiceVars, IInv, Counted
  <1>3. CASE VoiceNext
    <2>1. Counted'
      <3>1. OneCall \/ Event \/ Fault \/ Alone
        BY <1>3, NextCounts
      <3> QED BY <1>1, <3>1, VoiceAssumption DEF Counted, OneCall, Event, Fault, Alone
    <2>2. Sound(voice')
      <3>1. CASE CallRejoin
        BY <1>1, <3>1, CallRejoinSound
      <3>2. CASE CallDisconnect \/ CallDestroy
        BY <1>1, <3>2, CallsSound
      <3>3. CASE OnStateGone \/ OnStateIn \/ OnServerGone \/ OnServer
        BY <1>1, <3>3, EventsSound
      <3>4. CASE TimerFires
        BY <1>1, <3>4, TimerSound
      <3>5. ASSUME NEW n \in Nets,
                   \/ SocketOpens(n) \/ DaveLoads(n) \/ OnReady(n) \/ UdpOpens(n)
                   \/ Discovers(n) \/ UdpFails(n) \/ OnSession(n) \/ OnResumed(n)
                   \/ SocketCloses(n) \/ ResumeTimerFires(n)
            PROVE  Sound(voice')
        BY <1>1, <3>5, SocketOpensSound, DaveLoadsSound, OnReadySound, UdpOpensSound,
           DiscoversSound, UdpFailsSound, OnSessionSound, OnResumedSound,
           SocketClosesSound, ResumeTimerSound
      <3> QED BY <1>3, <3>1, <3>2, <3>3, <3>4, <3>5 DEF VoiceNext
    <2> QED BY <2>1, <2>2 DEF IInv
  <1> QED BY <1>2, <1>3

LEMMA SpecIInv ==
    ASSUME Settled
    PROVE  VoiceSpec => []IInv
  <1>1. VoiceInit => IInv
    BY InitIInv
  <1>2. IInv /\ [VoiceNext]_voiceVars => IInv'
    BY NextIInv
  <1> QED BY <1>1, <1>2, PTL DEF VoiceSpec

\* What a replaced, left or destroyed session held is released: #closeNetworking and
\* destroy() of connection.ts, with VoiceNetworking.destroy() of a session that awaits.
THEOREM NothingLeft ==
    ASSUME Settled
    PROVE  VoiceSpec => []NothingLeftBehind
  <1>1. IInv => NothingLeftBehind
    BY DEF IInv, Sound, Core, SessionSound, NothingLeftBehind
  <1> QED BY <1>1, SpecIInv, PTL

\* Every attempt of #signal, #connect, #onServer and a resumption has the timer that
\* bounds it, and none is left when it has ended.
THEOREM AttemptsAreTimed ==
    ASSUME Settled
    PROVE  VoiceSpec => []AttemptIsTimed
  <1>1. IInv => AttemptIsTimed
    BY DEF IInv, Sound, Timed, Pending, AttemptIsTimed
  <1> QED BY <1>1, SpecIInv, PTL

\* The state is well typed, every attempt has its timer, and a connection in Ready can
\* send: its session is ready, with a UDP socket and, when the gateway of a session that
\* resumes delivers nothing late, an open gateway.
THEOREM Invariant ==
    ASSUME Settled, ~LateFrames
    PROVE  VoiceSpec => []VoiceInv
  <1>1. IInv => VoiceInv
    <2> SUFFICES ASSUME IInv PROVE VoiceInv
      OBVIOUS
    <2>1. VoiceTypeOK
      BY DEF IInv, Sound, Core, Counted, VoiceTypeOK
    <2>2. AttemptIsTimed
      BY DEF IInv, Sound, Timed, Pending, AttemptIsTimed
    <2>3. ReadyCanSend
      <3> SUFFICES ASSUME voice.status = "ready"
                   PROVE  /\ voice.net # 0 /\ voice.nets[voice.net].state = "ready"
                          /\ voice.nets[voice.net].udp
                          /\ voice.nets[voice.net].socket = "open"
        BY DEF ReadyCanSend
      <3>1. voice.net # 0 /\ voice.nets[voice.net].state = "ready"
        BY DEF IInv, Sound, Sends
      <3>2. voice.net \in Nets
        BY <3>1, VoiceAssumption DEF IInv, Sound, Core, Connection, Nets
      <3>3. SessionSound(voice.nets[voice.net])
        BY <3>2 DEF IInv, Sound, Core
      <3> QED BY <3>1, <3>3 DEF SessionSound
    <2> QED BY <2>1, <2>2, <2>3 DEF VoiceInv
  <1> QED BY <1>1, SpecIInv, PTL

-----------------------------------------------------------------------------
(***************************************************************************)
(* The player: what its operators preserve                                 *)
(***************************************************************************)

\* A well-typed player, which has a timer if #timer is one.
Typed(p) == p \in Player /\ (p.tracked => p.armed > 0)

\* No frame of the resource, if any, was late yet.
Fresh(p) == p.resource = 0 \/ p.missed = 0

\* The clock is one, or there is none.
Clocked(p) == p.armed <= 1 /\ (p.tracked <=> p.armed = 1)
Still(p) == p.armed = 0 /\ ~p.tracked

Safe(p, q) ==
    /\ Typed(q)
    /\ q.missed \in {0, p.missed}
    /\ Fresh(p) => Fresh(q)
    /\ Clocked(p) => Clocked(q)

\* A call, or what a listener calls, with a resource where play() needs one.
GoodCall(c) ==
    /\ c.do \in Methods /\ c.with \in Resources \cup {0}
    /\ c.do = "play" <=> c.with # 0

LEMMA SafeReflexive ==
    ASSUME NEW p, Typed(p) PROVE Safe(p, p)
  BY DEF Safe

LEMMA SafeTransitive ==
    ASSUME NEW p, NEW q, NEW r, Safe(p, q), Safe(q, r) PROVE Safe(p, r)
  BY DEF Safe

-----------------------------------------------------------------------------
(***************************************************************************)
(* The resource and the clock                                              *)
(***************************************************************************)

LEMMA DestroySafe ==
    ASSUME NEW p, Typed(p), NEW r \in Resources \cup {0}
    PROVE  /\ Safe(p, Destroy(p, r))
           /\ Destroy(p, r).resource = p.resource
           /\ Still(p) => Still(Destroy(p, r))
  <1>1. CASE r = 0
    BY <1>1, SafeReflexive DEF Destroy
  <1>2. CASE r # 0
    <2>1. 0 \in 0..MaxFrames /\ r \in Resources
      BY <1>2, PlayerAssumption
    <2> DEFINE gone == [p.source EXCEPT ![r] = [@ EXCEPT !.frames = 0, !.done = TRUE]]
    <2>3. gone \in [Resources -> Source]
      BY <2>1 DEF Typed, Player, Source
    <2>4. Destroy(p, r) = [p EXCEPT !.source = gone]
      BY <1>2, <2>1 DEF Destroy, Typed, Player, Source
    <2> QED
      BY <2>3, <2>4 DEF Safe, Typed, Fresh, Clocked, Still, Player
  <1> QED BY <1>1, <1>2

LEMMA ReplaceSafe ==
    ASSUME NEW p, Typed(p), NEW r
    PROVE  Safe(p, Replace(p, r)) /\ (Still(p) => Still(Replace(p, r)))
  BY DestroySafe, SafeReflexive DEF Replace, Typed, Player

LEMMA ClockTyped ==
    ASSUME NEW p \in Player, NEW n \in Nat, NEW b \in BOOLEAN
    PROVE  [p EXCEPT !.armed = n, !.tracked = b] \in Player
  BY DEF Player

LEMMA ScheduleTyped ==
    ASSUME NEW p, Typed(p)
    PROVE  /\ Typed(Schedule(p))
           /\ Schedule(p).missed = p.missed /\ Schedule(p).resource = p.resource
           /\ Still(p) => Clocked(Schedule(p))
  <1> DEFINE q == Schedule(p)
  <1>1. p.armed \in Nat
    BY DEF Typed, Player
  <1>2. q \in Player
    <2> p \in Player /\ p.armed + 1 \in Nat
      BY <1>1 DEF Typed
    <2> QED BY ClockTyped DEF Schedule
  <1>3. q.armed = p.armed + 1 /\ q.tracked
        /\ q.missed = p.missed /\ q.resource = p.resource
    BY DEF Typed, Player, Schedule
  <1> QED BY <1>1, <1>2, <1>3 DEF Typed, Still, Clocked

LEMMA StartSafe ==
    ASSUME NEW p, Typed(p) PROVE Safe(p, Start(p))
  <1>1. CASE p.tracked
    BY <1>1, SafeReflexive DEF Start
  <1>2. CASE ~p.tracked
    <2>1. Clocked(p) => Still(p)
      BY <1>2 DEF Clocked, Still, Typed, Player
    <2> QED BY <1>2, <2>1, ScheduleTyped DEF Start, Safe, Fresh
  <1> QED BY <1>1, <1>2

LEMMA QuietSafe ==
    ASSUME NEW p, Typed(p)
    PROVE  Safe(p, Quiet(p)) /\ (Still(p) => Still(Quiet(p)))
  <1>1. CASE p.tracked
    <2> DEFINE q == Quiet(p)
    <2>1. p.armed \in Nat /\ p.armed > 0
      BY <1>1 DEF Typed, Player
    <2>2. q \in Player
      <3> p \in Player /\ p.armed - 1 \in Nat
        BY <2>1 DEF Typed
      <3> QED BY <1>1, ClockTyped DEF Quiet
    <2>3. q.armed = p.armed - 1 /\ ~q.tracked
          /\ q.missed = p.missed /\ q.resource = p.resource
      BY <1>1 DEF Typed, Player, Quiet
    <2> QED BY <1>1, <2>1, <2>2, <2>3 DEF Safe, Typed, Fresh, Clocked, Still
  <1>2. CASE ~p.tracked
    BY <1>2, SafeReflexive DEF Quiet
  <1> QED BY <1>1, <1>2

LEMMA SilenceSafe ==
    ASSUME NEW p, Typed(p), NEW n \in 0..Padding
    PROVE  /\ Safe(p, [p EXCEPT !.silence = n])
           /\ Still(p) => Still([p EXCEPT !.silence = n])
  BY DEF Safe, Typed, Fresh, Clocked, Still, Player

LEMMA SetStateSafe ==
    ASSUME NEW p, Typed(p), NEW next \in Statuses
    PROVE  /\ Safe(p, SetState(p, next))
           /\ Still(p) => Still(SetState(p, next))
           /\ SetState(p, next).resource = p.resource
  BY DEF SetState, Safe, Typed, Fresh, Clocked, Still, Player

LEMMA ForgetSafe ==
    ASSUME NEW p, Typed(p)
    PROVE  /\ Safe(p, [p EXCEPT !.resource = 0])
           /\ Fresh([p EXCEPT !.resource = 0])
           /\ Still(p) => Still([p EXCEPT !.resource = 0])
  BY DEF Safe, Typed, Fresh, Clocked, Still, Player

-----------------------------------------------------------------------------
(***************************************************************************)
(* Calls                                                                   *)
(***************************************************************************)

LEMMA PlayTyped ==
    ASSUME NEW p \in Player, NEW r \in Resources, NEW P \in SUBSET Resources,
           NEW m \in 0..MaxMissed, NEW n \in 0..Padding
    PROVE  [p EXCEPT !.resource = r, !.played = P, !.missed = m, !.silence = n] \in Player
  BY DEF Player

LEMMA PrepareSafe ==
    ASSUME NEW p, Typed(p), NEW c, GoodCall(c), c.do # "nothing"
    PROVE  Safe(p, Prepare(p, c)) /\ (Still(p) => Still(Prepare(p, c)))
  <1>1. CASE c.do = "play"
    <2> DEFINE q == Replace(p, c.with)
    <2>1. Safe(p, q) /\ (Still(p) => Still(q))
      BY ReplaceSafe
    <2>2. Prepare(p, c) = [q EXCEPT !.resource = c.with, !.played = @ \cup {c.with},
                                    !.missed = 0, !.silence = 0]
      BY <1>1 DEF Prepare
    <2>3. c.with \in Resources /\ 0 \in 0..MaxMissed /\ 0 \in 0..Padding
      BY <1>1, PlayerAssumption DEF GoodCall
    <2> DEFINE s == Prepare(p, c)
    <2>4. q \in Player
      BY <2>1 DEF Safe, Typed
    <2> HIDE DEF q
    <2>5. s \in Player
      <3>1. q.played \cup {c.with} \in SUBSET Resources
        BY <2>3, <2>4 DEF Player
      <3>2. [q EXCEPT !.resource = c.with, !.played = q.played \cup {c.with},
                      !.missed = 0, !.silence = 0] \in Player
        BY <2>3, <2>4, <3>1, PlayTyped
      <3> QED BY <2>2, <3>2
    <2>6. s.armed = q.armed /\ s.tracked = q.tracked /\ s.missed = 0
      BY <2>2, <2>4 DEF Player
    <2> QED
      BY <2>1, <2>5, <2>6 DEF Safe, Typed, Fresh, Clocked, Still
  <1>2. CASE c.do = "unpause"
    BY <1>2, SilenceSafe, PlayerAssumption DEF Prepare
  <1>3. CASE c.do \in {"stop", "halt"}
    <2>1. p.resource \in Resources \cup {0}
      BY DEF Typed, Player
    <2> QED
      BY <1>3, <2>1, DestroySafe, ForgetSafe, SafeTransitive DEF Prepare, Safe
  <1>4. CASE c.do \in {"pause", "mute", "refresh"}
    BY <1>4, SafeReflexive DEF Prepare
  <1> QED
    BY <1>1, <1>2, <1>3, <1>4 DEF GoodCall, Methods, AllReactions

LEMMA AimTyped ==
    ASSUME NEW p, Typed(p), NEW c, GoodCall(c), c.do # "nothing"
    PROVE  Aim(p, c) \in Statuses
  <1>1. Going(p) \in Statuses /\ p.state \in Statuses
    BY DEF Going, Statuses, Typed, Player
  <1> QED
    BY <1>1 DEF Aim, GoodCall, Methods, AllReactions, Statuses

LEMMA CompleteSafe ==
    ASSUME NEW p, Typed(p), NEW c, GoodCall(c), c.do # "nothing"
    PROVE  Safe(p, Complete(p, c)) /\ (c.do = "halt" /\ Still(p) => Still(Complete(p, c)))
  <1>1. 0 \in 0..Padding /\ Padding \in 0..Padding
    BY PlayerAssumption
  <1>2. CASE c.do \in {"play", "unpause", "refresh"}
    BY <1>2, StartSafe DEF Complete
  <1>3. CASE c.do \in {"pause", "stop"}
    BY <1>1, <1>3, StartSafe, SilenceSafe, SafeTransitive DEF Complete, Safe
  <1>4. CASE c.do \in {"mute", "halt"}
    BY <1>1, <1>4, QuietSafe, SilenceSafe, SafeTransitive DEF Complete, Safe
  <1> QED
    BY <1>2, <1>3, <1>4 DEF GoodCall, Methods, AllReactions

\* A call that a listener makes.
LEMMA DoSafe ==
    ASSUME NEW p, Typed(p), NEW c, GoodCall(c)
    PROVE  Safe(p, Do(p, c)) /\ (c.do \in {"nothing", "halt"} /\ Still(p) => Still(Do(p, c)))
  <1>1. CASE ~Accepts(p, c)
    BY <1>1, SafeReflexive DEF Do
  <1>2. CASE Accepts(p, c)
    <2> DEFINE q == Prepare(p, c)
               s == SetState(q, Aim(q, c))
    <2>1. c.do # "nothing"
      BY <1>2 DEF Accepts
    <2>2. Safe(p, q) /\ (Still(p) => Still(q))
      BY <2>1, PrepareSafe
    <2>3. Safe(q, s) /\ (Still(q) => Still(s))
      BY <2>1, <2>2, AimTyped, SetStateSafe DEF Safe
    <2>4. Safe(s, Complete(s, c)) /\ (c.do = "halt" /\ Still(s) => Still(Complete(s, c)))
      BY <2>1, <2>3, CompleteSafe DEF Safe
    <2>5. Do(p, c) = Complete(s, c)
      BY <1>2 DEF Do
    <2> HIDE DEF q, s
    <2> QED
      BY <2>1, <2>2, <2>3, <2>4, <2>5, SafeTransitive
  <1> QED BY <1>1, <1>2

-----------------------------------------------------------------------------
(***************************************************************************)
(* Listeners                                                               *)
(***************************************************************************)

\* The listener neither starts the clock nor fails to.
Calm(l) == l.do \in {"nothing", "halt"}

LEMMA ListenerCalls ==
    ASSUME NEW E, NEW R, NEW l \in Listening(E, R)
    PROVE  GoodCall(l) /\ l.do \in R
  BY DEF Listening, Calls, MethodCall, GoodCall

LEMMA EmitSafe ==
    ASSUME NEW p, Typed(p), NEW event, NEW l, GoodCall(l)
    PROVE  Safe(p, Emit(p, event, l)) /\ (Calm(l) /\ Still(p) => Still(Emit(p, event, l)))
  BY DoSafe, SafeReflexive DEF Emit, Calm

\* A change of status that is told.
LEMMA TellSafe ==
    ASSUME NEW p, Typed(p), NEW next \in Statuses, NEW l, GoodCall(l)
    PROVE  Safe(p, Tell(p, next, l)) /\ (Calm(l) /\ Still(p) => Still(Tell(p, next, l)))
  <1>1. CASE p.state = next
    BY <1>1, SafeReflexive DEF Tell
  <1>2. CASE p.state # next
    <2> DEFINE q == SetState(p, next)
    <2>1. Safe(p, q) /\ (Still(p) => Still(q))
      BY SetStateSafe
    <2>2. Tell(p, next, l) = Emit(q, next, l)
      BY <1>2 DEF Tell
    <2> HIDE DEF q
    <2>3. Safe(q, Emit(q, next, l)) /\ (Calm(l) /\ Still(q) => Still(Emit(q, next, l)))
      BY <2>1, EmitSafe DEF Safe
    <2> QED BY <2>1, <2>2, <2>3, SafeTransitive
  <1> QED BY <1>1, <1>2

\* A call that the application, or a tick, makes.
LEMMA InvokeSafe ==
    ASSUME NEW p, Typed(p), NEW c, GoodCall(c), NEW l, GoodCall(l)
    PROVE  /\ Safe(p, Invoke(p, c, l))
           /\ c.do = "halt" /\ Calm(l) /\ Still(p) => Still(Invoke(p, c, l))
  <1>1. CASE ~Accepts(p, c)
    BY <1>1, SafeReflexive DEF Invoke
  <1>2. CASE Accepts(p, c)
    <2> DEFINE q == Prepare(p, c)
               s == Tell(q, Aim(q, c), l)
    <2>1. c.do # "nothing"
      BY <1>2 DEF Accepts
    <2>2. Safe(p, q) /\ (Still(p) => Still(q))
      BY <2>1, PrepareSafe
    <2>3. Safe(q, s) /\ (Calm(l) /\ Still(q) => Still(s))
      BY <2>1, <2>2, AimTyped, TellSafe DEF Safe
    <2>4. Safe(s, Complete(s, c)) /\ (c.do = "halt" /\ Still(s) => Still(Complete(s, c)))
      BY <2>1, <2>3, CompleteSafe DEF Safe
    <2>5. Invoke(p, c, l) = Complete(s, c)
      BY <1>2 DEF Invoke
    <2> HIDE DEF q, s
    <2> QED
      BY <2>2, <2>3, <2>4, <2>5, SafeTransitive
  <1> QED BY <1>1, <1>2

-----------------------------------------------------------------------------
(***************************************************************************)
(* The tick                                                                *)
(***************************************************************************)

\* The resource that is over is let go: whatever plays next is fresh.
LEMMA FinishSafe ==
    ASSUME NEW p, Typed(p), NEW r \in Resources \cup {0}, NEW event,
           NEW l, GoodCall(l)
    PROVE  /\ Safe(p, Finish(p, r, event, l)) /\ Fresh(Finish(p, r, event, l))
           /\ Calm(l) /\ Still(p) => Still(Finish(p, r, event, l))
  <1> DEFINE gone == IF event = "error" THEN Destroy(p, r) ELSE p
             free == [gone EXCEPT !.resource = 0]
             told == Tell(free, "idle", l)
             heard == Emit(told, event, l)
  <1>1. Safe(p, gone) /\ (Still(p) => Still(gone))
    BY DestroySafe, SafeReflexive
  <1>2. Finish(p, r, event, l) = [heard EXCEPT !.silence = Padding]
    BY DEF Finish
  <1> HIDE DEF gone
  <1>3. Safe(gone, free) /\ Fresh(free) /\ (Still(gone) => Still(free))
    BY <1>1, ForgetSafe DEF Safe
  <1> HIDE DEF free
  <1>4. Safe(free, told) /\ (Calm(l) /\ Still(free) => Still(told))
    BY <1>3, TellSafe DEF Safe, Statuses
  <1> HIDE DEF told
  <1>5. Safe(told, heard) /\ (Calm(l) /\ Still(told) => Still(heard))
    BY <1>4, EmitSafe DEF Safe
  <1> HIDE DEF heard
  <1>6. Padding \in 0..Padding
    BY PlayerAssumption
  <1>7. Safe(heard, [heard EXCEPT !.silence = Padding])
        /\ (Still(heard) => Still([heard EXCEPT !.silence = Padding]))
    BY <1>5, <1>6, SilenceSafe DEF Safe
  <1>8. Safe(free, Finish(p, r, event, l))
    BY <1>2, <1>4, <1>5, <1>7, SafeTransitive
  <1> QED
    BY <1>1, <1>2, <1>3, <1>4, <1>5, <1>7, <1>8, SafeTransitive DEF Safe

LEMMA PadTyped ==
    ASSUME NEW p, Typed(p)
    PROVE  Typed(Pad(p)) /\ (Still(p) => Clocked(Pad(p)))
  <1>1. Still(p) => Clocked(p)
    BY DEF Still, Clocked
  <1>2. CASE p.silence > 1
    <2>1. p.silence - 1 \in 0..Padding
      BY <1>2, PlayerAssumption DEF Typed, Player
    <2>2. Pad(p) = Schedule([p EXCEPT !.silence = p.silence - 1])
      BY <1>2 DEF Pad
    <2> QED
      BY <2>1, <2>2, SilenceSafe, ScheduleTyped DEF Safe
  <1>3. CASE ~(p.silence > 1)
    <2>1. 0 \in 0..Padding
      BY PlayerAssumption
    <2>2. Safe(p, [p EXCEPT !.silence = 0])
      BY <2>1, SilenceSafe
    <2> QED
      BY <1>1, <1>3, <2>2, QuietSafe, SafeTransitive DEF Pad, Safe
  <1> QED BY <1>2, <1>3

LEMMA SourceTyped ==
    ASSUME NEW s \in Source, NEW n \in 0..MaxFrames, NEW b \in BOOLEAN
    PROVE  [s EXCEPT !.frames = n, !.started = b] \in Source
  BY DEF Source

\* A frame of the resource is sent.
LEMMA TakeSafe ==
    ASSUME NEW p, Typed(p), p.resource # 0, Readable(p, p.resource)
    PROVE  Safe(p, Take(p)) /\ (Still(p) => Still(Take(p)))
  <1> DEFINE r == p.resource
             source == [p.source EXCEPT ![r] = TakeFrom(p.source[r])]
  <1>1. r \in Resources /\ p.source \in [Resources -> Source]
    BY DEF Typed, Player
  <1>2. p.source[r].frames - 1 \in 0..MaxFrames
    BY <1>1, PlayerAssumption DEF Readable, Source
  <1>3. TakeFrom(p.source[r]) \in Source
    BY <1>1, <1>2, SourceTyped DEF TakeFrom
  <1>4. Take(p) = [p EXCEPT !.source = source, !.missed = 0]
    BY DEF Take
  <1>5. source \in [Resources -> Source]
    BY <1>1, <1>3
  <1> HIDE DEF source
  <1>6. 0 \in 0..MaxMissed
    BY PlayerAssumption
  <1> QED
    BY <1>4, <1>5, <1>6 DEF Safe, Typed, Fresh, Clocked, Still, Player

\* A frame that is late is counted, and the resource given up before it is
\* late once more than it may.
LEMMA MissTyped ==
    ASSUME NEW p, Typed(p), p.missed # MaxMissed
    PROVE  Typed(Miss(p)) /\ (Still(p) => Still(Miss(p)))
  <1>1. p.missed + 1 \in 0..MaxMissed
    BY PlayerAssumption DEF Typed, Player
  <1> QED BY <1>1 DEF Miss, Typed, Still, Player

LEMMA BeatTyped ==
    ASSUME NEW p, Typed(p), NEW l, GoodCall(l),
           Fresh(p) \/ (~Over(p) /\ ~Stalls(p))
    PROVE  Typed(Beat(p, l)) /\ (Calm(l) /\ Still(p) => Clocked(Beat(p, l)))
  <1>1. \A q : Still(q) => Clocked(q)
    BY DEF Still, Clocked
  <1>2. \A s \in Statuses : Safe(p, Tell(p, s, l)) /\ (Calm(l) /\ Still(p) => Still(Tell(p, s, l)))
    BY TellSafe
  <1>3. {"autopaused", "buffering", "playing"} \subseteq Statuses
    BY DEF Statuses
  <1>4. CASE p.state \in {"idle", "paused"}
    BY <1>4, PadTyped DEF Beat
  <1>5. CASE p.state \notin {"idle", "paused"} /\ (p.state = "autopaused" \/ p.resource = 0)
    BY <1>1, <1>5, QuietSafe DEF Beat, Safe
  <1>6. CASE /\ p.state \notin {"idle", "paused", "autopaused"} /\ p.resource # 0
             /\ ~p.ready /\ p.option = "pause"
    <2>1. Beat(p, l) = Quiet(Tell(p, "autopaused", l))
      BY <1>6 DEF Beat
    <2> QED BY <1>1, <1>2, <1>3, <2>1, QuietSafe DEF Safe
  <1>7. CASE /\ p.state \notin {"idle", "paused", "autopaused"} /\ p.resource # 0
             /\ ~p.ready /\ p.option = "stop"
    <2> DEFINE halt == [do |-> "halt", with |-> 0]
    <2>1. GoodCall(halt)
      BY DEF GoodCall, Methods, AllReactions
    <2>2. Beat(p, l) = Invoke(p, halt, l)
      BY <1>7 DEF Beat
    <2>3. Still(p) /\ Calm(l) => Still(Invoke(p, halt, l))
      BY <2>1, InvokeSafe
    <2> QED BY <1>1, <2>1, <2>2, <2>3, InvokeSafe DEF Safe
  <1>8. CASE /\ p.state \notin {"idle", "paused", "autopaused"} /\ p.resource # 0
             /\ p.ready \/ p.option \notin {"pause", "stop"}
    <2>1. CASE Readable(p, p.resource)
      <3> DEFINE taken == Take(p)
      <3>1. Safe(p, taken) /\ (Still(p) => Still(taken))
        BY <1>8, <2>1, TakeSafe
      <3>2. Beat(p, l) = Schedule(Tell(taken, "playing", l))
        BY <1>8, <2>1 DEF Beat
      <3> HIDE DEF taken
      <3>3. Safe(taken, Tell(taken, "playing", l))
            /\ (Calm(l) /\ Still(taken) => Still(Tell(taken, "playing", l)))
        BY <1>3, <3>1, TellSafe DEF Safe
      <3> QED BY <3>1, <3>2, <3>3, ScheduleTyped DEF Safe
    <2>2. CASE ~Readable(p, p.resource) /\ p.resource \notin Live
      <3> DEFINE late == Tell(p, "buffering", l)
      <3>1. p.missed # MaxMissed
        <4>1. Reads(p)
          BY <1>8, PlayerAssumption DEF Reads, Typed, Player, Statuses
        <4>2. CASE Fresh(p)
          BY <1>8, <4>2, PlayerAssumption DEF Fresh
        <4>3. CASE ~Over(p) /\ ~Stalls(p)
          BY <2>2, <4>1, <4>3 DEF Over, Stalls, Ended
        <4> QED BY <4>2, <4>3
      <3>2. Safe(p, late) /\ (Calm(l) /\ Still(p) => Still(late))
        BY <1>2, <1>3
      <3>3. Beat(p, l) = Schedule(Miss(late))
        BY <1>8, <2>2 DEF Beat
      <3> HIDE DEF late
      <3>4. late.missed # MaxMissed
        BY <3>1, <3>2, PlayerAssumption DEF Safe
      <3> QED BY <3>2, <3>3, <3>4, MissTyped, ScheduleTyped DEF Safe
    <2>3. CASE ~Readable(p, p.resource) /\ p.resource \in Live
      <3> DEFINE q == IF p.source[p.resource].started THEN p ELSE Tell(p, "buffering", l)
      <3>1. Typed(q) /\ (Calm(l) /\ Still(p) => Still(q))
        BY <1>2, <1>3 DEF Safe
      <3>2. Beat(p, l) = Schedule(q)
        BY <1>8, <2>3 DEF Beat
      <3> HIDE DEF q
      <3> QED BY <3>1, <3>2, ScheduleTyped
    <2> QED BY <2>1, <2>2, <2>3
  <1> QED BY <1>4, <1>5, <1>6, <1>7, <1>8

LEMMA TickTyped ==
    ASSUME NEW p, Typed(p), NEW l, GoodCall(l)
    PROVE  Typed(Tick(p, l)) /\ (Calm(l) /\ Still(p) => Clocked(Tick(p, l)))
  <1>1. p.resource \in Resources \cup {0}
    BY DEF Typed, Player
  <1>2. CASE Over(p)
    <2> DEFINE q == Finish(p, p.resource,
                           IF p.source[p.resource].failed THEN "error" ELSE "finish", l)
    <2>1. Tick(p, l) = Beat(q, l)
      BY <1>2 DEF Tick
    <2>2. Safe(p, q) /\ Fresh(q) /\ (Calm(l) /\ Still(p) => Still(q))
      BY <1>1, FinishSafe
    <2> HIDE DEF q
    <2> QED BY <2>1, <2>2, BeatTyped DEF Safe
  <1>3. CASE ~Over(p) /\ Stalls(p)
    <2> DEFINE late == Tell(p, "buffering", l)
               q == Finish(late, p.resource, "error", l)
    <2>1. Tick(p, l) = Beat(q, l)
      BY <1>3 DEF Tick
    <2>2. Safe(p, late) /\ (Calm(l) /\ Still(p) => Still(late))
      BY TellSafe DEF Statuses
    <2> HIDE DEF late
    <2>3. Safe(late, q) /\ Fresh(q) /\ (Calm(l) /\ Still(late) => Still(q))
      BY <1>1, <2>2, FinishSafe DEF Safe
    <2> HIDE DEF q
    <2> QED BY <2>1, <2>2, <2>3, BeatTyped DEF Safe
  <1>4. CASE ~Over(p) /\ ~Stalls(p)
    BY <1>4, BeatTyped DEF Tick
  <1> QED BY <1>2, <1>3, <1>4

-----------------------------------------------------------------------------
(***************************************************************************)
(* What plays                                                              *)
(***************************************************************************)

\* Every resource that was played, but the one that is, is done.
Owned(p) == \A r \in p.played \ {p.resource} : p.source[r].done

\* A player that takes status next has a resource, unless it is to be idle.
Suits(p, next) == p.resource # 0 <=> next # "idle"

Fit(p) == Suits(p, p.state) /\ Owned(p)

\* The clock runs while something plays; who is autopaused is not heard.
Driven(p) == p.state \in {"playing", "buffering"} => p.armed > 0
Excused(p) == p.state = "autopaused" => ~p.ready

\* What most operators leave alone: they are about the clock and the padding.
Same(p, q) ==
    /\ q.state = p.state /\ q.resource = p.resource /\ q.ready = p.ready
    /\ q.played = p.played /\ q.source = p.source

\* What every operator leaves alone, and what only a tick brings about.
Loud(p, q) == q.ready = p.ready /\ (q.state = "autopaused" => p.state = "autopaused")

\* Resource r is done, and none that was is not.
Frees(p, q, r) ==
    /\ q.state = p.state /\ q.resource = p.resource /\ q.ready = p.ready
    /\ q.played = p.played
    /\ \A x \in Resources : p.source[x].done => q.source[x].done
    /\ r # 0 => q.source[r].done

LEMMA SameFits ==
    ASSUME NEW p, NEW q, Same(p, q), Fit(p)
    PROVE  Fit(q)
  BY DEF Same, Fit, Suits, Owned

LEMMA ClockSame ==
    ASSUME NEW p, Typed(p)
    PROVE  /\ Same(p, Schedule(p)) /\ Schedule(p).armed > 0
           /\ Same(p, Start(p)) /\ Start(p).armed > 0
           /\ Same(p, Quiet(p))
  <1>1. p \in Player /\ p.armed \in Nat
    BY DEF Typed, Player
  <1>2. Same(p, Schedule(p)) /\ Schedule(p).armed > 0
    BY <1>1 DEF Same, Schedule, Player
  <1>3. Same(p, Quiet(p))
    BY <1>1 DEF Same, Quiet, Player
  <1>4. Same(p, Start(p)) /\ Start(p).armed > 0
    BY <1>2 DEF Start, Same, Typed
  <1> QED BY <1>2, <1>3, <1>4

LEMMA SilenceSame ==
    ASSUME NEW p, Typed(p), NEW n
    PROVE  Same(p, [p EXCEPT !.silence = n])
  BY DEF Same, Typed, Player

LEMMA SameTwice ==
    ASSUME NEW p, NEW q, NEW r, Same(p, q), Same(q, r)
    PROVE  Same(p, r)
  BY DEF Same

LEMMA DestroyFrees ==
    ASSUME NEW p, Typed(p), NEW r \in Resources \cup {0}
    PROVE  Frees(p, Destroy(p, r), r)
  <1>1. CASE r = 0
    BY <1>1 DEF Destroy, Frees
  <1>2. CASE r # 0
    <2>1. r \in Resources
      BY <1>2
    <2> DEFINE gone == [p.source EXCEPT ![r] = [@ EXCEPT !.frames = 0, !.done = TRUE]]
    <2>2. p.source \in [Resources -> Source] /\ p \in Player
      BY DEF Typed, Player
    <2>3. \A x \in Resources : gone[x].done <=> (x = r \/ p.source[x].done)
      BY <2>1, <2>2 DEF Source
    <2>4. Destroy(p, r) = [p EXCEPT !.source = gone]
      BY <1>2, <2>1 DEF Destroy, Typed, Player, Source
    <2> HIDE DEF gone
    <2> DEFINE q == Destroy(p, r)
    <2>5. /\ q.state = p.state /\ q.resource = p.resource /\ q.ready = p.ready
          /\ q.played = p.played /\ q.source = gone
      BY <2>2, <2>4 DEF Player
    <2> QED BY <2>1, <2>3, <2>5 DEF Frees
  <1> QED BY <1>1, <1>2

LEMMA SetStateFits ==
    ASSUME NEW p, Typed(p), NEW next \in Statuses, Owned(p), Suits(p, next)
    PROVE  Fit(SetState(p, next))
  BY DEF SetState, Fit, Suits, Owned, Typed, Player

\* What a call that is accepted prepares, whatever was going on.
LEMMA PrepareOwns ==
    ASSUME NEW p, Typed(p), Fit(p), NEW c, GoodCall(c), Accepts(p, c),
           NEW q, q = Prepare(p, c)
    PROVE  /\ Owned(q) /\ Suits(q, Aim(q, c)) /\ q.ready = p.ready
           /\ Aim(q, c) # "autopaused"
           /\ c.do \in {"pause", "mute", "stop", "halt"} => Aim(q, c) \in {"paused", "idle"}
  <1>1. /\ p \in Player /\ p.resource \in Resources \cup {0} /\ p.played \subseteq Resources
        /\ 0 \notin Resources
    BY PlayerAssumption DEF Typed, Player, Resources
  <1>2. Going(q) \in {"playing", "buffering"}
    BY DEF Going
  <1>3. CASE c.do = "play"
    <2> DEFINE old == Replace(p, c.with)
    <2>1. c.with \in Resources /\ c.with # 0
      BY <1>3 DEF GoodCall
    <2>2. /\ old \in Player /\ old.played = p.played /\ old.ready = p.ready
          /\ \A x \in p.played \ {c.with} : old.source[x].done
      <3>1. CASE p.resource = c.with
        BY <1>1, <3>1 DEF Replace, Fit, Owned
      <3>2. CASE p.resource # c.with
        <4>1. old = Destroy(p, p.resource)
          BY <3>2 DEF Replace
        <4>2. old \in Player
          BY <1>1, <4>1, DestroySafe DEF Safe, Typed
        <4>3. Frees(p, old, p.resource)
          BY <1>1, <4>1, DestroyFrees
        <4>4. \A x \in p.played : old.source[x].done
          <5> HIDE DEF old
          <5>1. \A x \in p.played : x = p.resource \/ p.source[x].done
            BY DEF Fit, Owned
          <5>2. \A x \in p.played : x \in Resources /\ (x = p.resource => p.resource # 0)
            BY <1>1
          <5> QED BY <4>3, <5>1, <5>2 DEF Frees
        <4> QED BY <4>2, <4>3, <4>4 DEF Frees
      <3> QED BY <3>1, <3>2
    <2>3. q = [old EXCEPT !.resource = c.with, !.played = old.played \cup {c.with},
                          !.missed = 0, !.silence = 0]
      BY <1>3 DEF Prepare
    <2> HIDE DEF old
    <2>4. /\ q.resource = c.with /\ q.played = p.played \cup {c.with}
          /\ q.source = old.source /\ q.ready = p.ready
      BY <2>2, <2>3 DEF Player
    <2> QED BY <1>2, <1>3, <2>1, <2>2, <2>4 DEF Owned, Suits, Aim
  <1>4. CASE c.do = "unpause"
    <2>1. Same(p, q)
      BY <1>4, SilenceSame DEF Prepare
    <2>2. p.resource # 0
      BY <1>4 DEF Accepts, Fit, Suits
    <2> QED BY <1>2, <1>4, <2>1, <2>2 DEF Same, Owned, Fit, Suits, Aim
  <1>5. CASE c.do \in {"stop", "halt"}
    <2> DEFINE old == Destroy(p, p.resource)
    <2>1. old \in Player
      BY <1>1, DestroySafe DEF Safe, Typed
    <2>2. old.ready = p.ready /\ old.played = p.played
          /\ \A x \in p.played : old.source[x].done
      <3>1. Frees(p, old, p.resource)
        BY <1>1, DestroyFrees
      <3> HIDE DEF old
      <3>2. \A x \in p.played : x = p.resource \/ p.source[x].done
        BY DEF Fit, Owned
      <3>3. \A x \in p.played : x \in Resources /\ (x = p.resource => p.resource # 0)
        BY <1>1
      <3> QED BY <3>1, <3>2, <3>3 DEF Frees
    <2>3. q = [old EXCEPT !.resource = 0]
      BY <1>5 DEF Prepare
    <2> HIDE DEF old
    <2>4. q.resource = 0 /\ q.played = p.played /\ q.source = old.source /\ q.ready = p.ready
      BY <2>1, <2>2, <2>3 DEF Player
    <2> QED BY <1>5, <2>2, <2>4 DEF Owned, Suits, Aim
  <1>6. CASE c.do \in {"pause", "mute"}
    <2>1. q = p
      BY <1>6 DEF Prepare
    <2>2. p.resource # 0
      BY <1>6 DEF Accepts, Fit, Suits
    <2> QED BY <1>6, <2>1, <2>2 DEF Fit, Suits, Aim
  <1>7. CASE c.do = "refresh"
    <2>1. q = p
      BY <1>7 DEF Prepare
    <2>2. p.resource # 0 /\ p.state # "idle"
      BY <1>7 DEF Accepts, Fit, Suits
    <2> QED BY <1>2, <1>7, <2>1, <2>2 DEF Fit, Suits, Aim
  <1>8. c.do # "nothing"
    BY DEF Accepts
  <1> QED
    BY <1>3, <1>4, <1>5, <1>6, <1>7, <1>8 DEF GoodCall, Methods, AllReactions

LEMMA CompleteSame ==
    ASSUME NEW p, Typed(p), NEW c, GoodCall(c), c.do # "nothing"
    PROVE  /\ Same(p, Complete(p, c))
           /\ c.do \notin {"mute", "halt"} => Complete(p, c).armed > 0
  <1>1. 0 \in 0..Padding /\ Padding \in 0..Padding
    BY PlayerAssumption
  <1> DEFINE loud == [p EXCEPT !.silence = Padding]
             mute == [p EXCEPT !.silence = 0]
  <1>2. Typed(loud) /\ Typed(mute) /\ Same(p, loud) /\ Same(p, mute)
    BY <1>1, SilenceSafe, SilenceSame DEF Safe
  <1>3. /\ c.do \in {"pause", "stop"} => Complete(p, c) = Start(loud)
        /\ c.do \in {"mute", "halt"} => Complete(p, c) = Quiet(mute)
        /\ c.do \in {"play", "unpause", "refresh"} => Complete(p, c) = Start(p)
    BY DEF Complete
  <1> HIDE DEF loud, mute
  <1>4. Same(p, Start(loud)) /\ Start(loud).armed > 0 /\ Same(p, Quiet(mute))
    BY <1>2, ClockSame, SameTwice
  <1> QED
    BY <1>3, <1>4, ClockSame DEF GoodCall, Methods, AllReactions

\* A listener that hears of this status neither plays nor goes on.
Mild(l, status) ==
    l.do \in AllReactions \ {"play"} /\ (l.do = "unpause" => status # "paused")

\* A call that a listener makes.
LEMMA DoFits ==
    ASSUME NEW p, Typed(p), Fit(p), NEW c, GoodCall(c)
    PROVE  /\ Fit(Do(p, c)) /\ Loud(p, Do(p, c))
           /\ Mild(c, p.state) => Do(p, c) = p \/ Do(p, c).state \in {"paused", "idle"}
  <1>1. CASE ~Accepts(p, c)
    BY <1>1 DEF Do, Loud
  <1>2. CASE Accepts(p, c)
    <2> DEFINE q == Prepare(p, c)
               s == SetState(q, Aim(q, c))
    <2>1. c.do # "nothing"
      BY <1>2 DEF Accepts
    <2>2. Typed(q)
      BY <2>1, PrepareSafe DEF Safe
    <2>3. /\ Owned(q) /\ Suits(q, Aim(q, c)) /\ q.ready = p.ready
          /\ Aim(q, c) # "autopaused"
          /\ c.do \in {"pause", "mute", "stop", "halt"} => Aim(q, c) \in {"paused", "idle"}
      BY <1>2, PrepareOwns
    <2>4. Aim(q, c) \in Statuses
      BY <2>1, <2>2, AimTyped
    <2>10. Mild(c, p.state) => c.do \in {"pause", "stop", "halt"}
      BY <1>2 DEF Mild, Accepts, AllReactions
    <2>5. Do(p, c) = Complete(s, c)
      BY <1>2 DEF Do
    <2> HIDE DEF q
    <2>6. Typed(s) /\ Fit(s)
      BY <2>2, <2>3, <2>4, SetStateSafe, SetStateFits DEF Safe
    <2>7. s.state = Aim(q, c) /\ s.ready = q.ready
      BY <2>2 DEF SetState, Typed, Player
    <2> HIDE DEF s
    <2>8. Same(s, Complete(s, c))
      BY <2>1, <2>6, CompleteSame
    <2>9. Fit(Complete(s, c))
      BY <2>6, <2>8, SameFits
    <2> QED BY <2>3, <2>5, <2>7, <2>8, <2>9, <2>10 DEF Loud, Same
  <1> QED BY <1>1, <1>2

LEMMA EmitFits ==
    ASSUME NEW p, Typed(p), Fit(p), NEW event, NEW l, GoodCall(l)
    PROVE  /\ Fit(Emit(p, event, l)) /\ Loud(p, Emit(p, event, l))
           /\ Mild(l, p.state)
                => \/ Emit(p, event, l) = p
                   \/ Emit(p, event, l).state \in {"paused", "idle"}
  <1>1. CASE event \in l.on
    BY <1>1, DoFits DEF Emit
  <1>2. CASE event \notin l.on
    BY <1>2 DEF Emit, Loud
  <1> QED BY <1>1, <1>2

\* Told of what suits the player, listeners leave it fit; but for those that
\* start it, they leave it in that status or silent.
LEMMA TellFits ==
    ASSUME NEW p, Typed(p), NEW next \in Statuses, Owned(p), Suits(p, next),
           NEW l, GoodCall(l)
    PROVE  /\ Fit(Tell(p, next, l)) /\ Tell(p, next, l).ready = p.ready
           /\ Tell(p, next, l).state = "autopaused" => next = "autopaused"
           /\ Mild(l, next) => Tell(p, next, l).state \in {next, "paused", "idle"}
  <1>1. CASE p.state = next
    BY <1>1 DEF Tell, Fit
  <1>2. CASE p.state # next
    <2> DEFINE q == SetState(p, next)
    <2>1. Typed(q) /\ Fit(q)
      BY SetStateSafe, SetStateFits DEF Safe
    <2>2. q.state = next /\ q.ready = p.ready
      BY DEF SetState, Typed, Player
    <2>3. Tell(p, next, l) = Emit(q, next, l)
      BY <1>2 DEF Tell
    <2> HIDE DEF q
    <2>4. /\ Fit(Emit(q, next, l)) /\ Loud(q, Emit(q, next, l))
          /\ Mild(l, next) => Emit(q, next, l) = q \/ Emit(q, next, l).state \in {"paused", "idle"}
      BY <2>1, <2>2, EmitFits
    <2> QED BY <2>2, <2>3, <2>4 DEF Loud
  <1> QED BY <1>1, <1>2

\* A call that the application, or a tick, makes: one that starts the clock, or
\* one after which nothing plays.
LEMMA InvokeFits ==
    ASSUME NEW p, Typed(p), Fit(p), NEW c, GoodCall(c), NEW l, GoodCall(l)
    PROVE  /\ Fit(Invoke(p, c, l))
           /\ Accepts(p, c) =>
                /\ Invoke(p, c, l).state # "autopaused"
                /\ c.do \notin {"mute", "halt"} => Invoke(p, c, l).armed > 0
                /\ (c.do \in {"mute", "halt"} /\ Mild(l, IF c.do = "mute" THEN "paused" ELSE "idle"))
                     => Invoke(p, c, l).state \in {"paused", "idle"}
  <1>1. CASE ~Accepts(p, c)
    BY <1>1 DEF Invoke
  <1>2. CASE Accepts(p, c)
    <2> DEFINE q == Prepare(p, c)
               s == Tell(q, Aim(q, c), l)
    <2>1. c.do # "nothing"
      BY <1>2 DEF Accepts
    <2>2. Typed(q)
      BY <2>1, PrepareSafe DEF Safe
    <2>3. /\ Owned(q) /\ Suits(q, Aim(q, c))
          /\ Aim(q, c) # "autopaused"
          /\ c.do \in {"pause", "mute", "stop", "halt"} => Aim(q, c) \in {"paused", "idle"}
      BY <1>2, PrepareOwns
    <2>4. Aim(q, c) \in Statuses
      BY <2>1, <2>2, AimTyped
    <2>5. Invoke(p, c, l) = Complete(s, c)
      BY <1>2 DEF Invoke
    <2> HIDE DEF q
    <2>6. Typed(s)
      BY <2>2, <2>4, TellSafe DEF Safe
    <2>7. /\ Fit(s) /\ s.state # "autopaused"
          /\ Mild(l, Aim(q, c)) => s.state \in {Aim(q, c), "paused", "idle"}
      BY <2>2, <2>3, <2>4, TellFits
    <2> HIDE DEF s
    <2>8. Same(s, Complete(s, c))
          /\ (c.do \notin {"mute", "halt"} => Complete(s, c).armed > 0)
      BY <2>1, <2>6, CompleteSame
    <2>9. Fit(Complete(s, c)) /\ Complete(s, c).state = s.state
      BY <2>7, <2>8, SameFits DEF Same
    <2>10. (c.do \in {"mute", "halt"} /\ Mild(l, IF c.do = "mute" THEN "paused" ELSE "idle"))
             => s.state \in {"paused", "idle"}
      <3>1. c.do \in {"mute", "halt"} => Aim(q, c) = IF c.do = "mute" THEN "paused" ELSE "idle"
        BY DEF Aim
      <3> QED BY <2>7, <3>1
    <2> QED BY <2>5, <2>7, <2>8, <2>9, <2>10
  <1> QED BY <1>1, <1>2

\* The resource that a tick lets go is done, and is the player's own or nobody's.
LEMMA FinishFits ==
    ASSUME NEW p, Typed(p), Owned(p), NEW r \in Resources, p.resource \in {0, r},
           NEW event, event # "error" => p.source[r].done, NEW l, GoodCall(l)
    PROVE  LET q == Finish(p, r, event, l)
           IN  Fit(q) /\ (q.state = "autopaused" => p.state = "autopaused")
  <1> DEFINE gone == IF event = "error" THEN Destroy(p, r) ELSE p
             free == [gone EXCEPT !.resource = 0]
             told == Tell(free, "idle", l)
             heard == Emit(told, event, l)
             q == Finish(p, r, event, l)
  <1>1. q = [heard EXCEPT !.silence = Padding]
    BY DEF Finish
  <1>2. Typed(gone)
    BY DestroySafe DEF Safe
  <1>3. /\ gone.played = p.played /\ gone.played \subseteq Resources
        /\ \A x \in p.played : gone.source[x].done
    <2>1. p.played \subseteq Resources /\ 0 \notin Resources
      BY PlayerAssumption DEF Typed, Player, Resources
    <2>2. \A x \in p.played : x \in Resources /\ (x = r \/ p.source[x].done)
      BY <2>1 DEF Owned
    <2>3. CASE event = "error"
      <3>1. Frees(p, gone, r)
        BY <2>3, DestroyFrees
      <3> HIDE DEF gone
      <3> QED BY <2>1, <2>2, <3>1 DEF Frees
    <2>4. CASE event # "error"
      BY <2>1, <2>2, <2>4
    <2> QED BY <2>3, <2>4
  <1> HIDE DEF gone
  <1>4. Typed(free)
    BY <1>2, ForgetSafe DEF Safe
  <1>5. Owned(free) /\ Suits(free, "idle")
    <2>1. free.resource = 0 /\ free.played = gone.played /\ free.source = gone.source
      BY <1>2 DEF Typed, Player
    <2> HIDE DEF free
    <2> QED BY <1>3, <2>1 DEF Owned, Suits
  <1> HIDE DEF free
  <1>6. Typed(told) /\ Fit(told) /\ told.state # "autopaused"
    BY <1>4, <1>5, TellSafe, TellFits DEF Safe, Statuses
  <1> HIDE DEF told
  <1>7. Typed(heard) /\ Fit(heard) /\ heard.state # "autopaused"
    BY <1>6, EmitSafe, EmitFits DEF Safe, Loud
  <1> HIDE DEF heard
  <1>8. Same(heard, q)
    BY <1>1, <1>7, SilenceSame
  <1> HIDE DEF q
  <1>9. Fit(q) /\ q.state # "autopaused"
    BY <1>7, <1>8, SameFits DEF Same
  <1> QED BY <1>9 DEF q

LEMMA PadSame ==
    ASSUME NEW p, Typed(p)
    PROVE  Same(p, Pad(p))
  <1>1. CASE p.silence > 1
    <2>1. p.silence - 1 \in 0..Padding
      BY <1>1, PlayerAssumption DEF Typed, Player
    <2> DEFINE q == [p EXCEPT !.silence = p.silence - 1]
    <2>2. Pad(p) = Schedule(q)
      BY <1>1 DEF Pad
    <2>3. Typed(q) /\ Same(p, q)
      BY <2>1, SilenceSafe, SilenceSame DEF Safe
    <2> HIDE DEF q
    <2> QED BY <2>2, <2>3, ClockSame, SameTwice
  <1>2. CASE ~(p.silence > 1)
    <2> DEFINE q == [p EXCEPT !.silence = 0]
    <2>1. Pad(p) = Quiet(q)
      BY <1>2 DEF Pad
    <2>2. 0 \in 0..Padding
      BY PlayerAssumption
    <2>3. Typed(q) /\ Same(p, q)
      BY <2>2, SilenceSafe, SilenceSame DEF Safe
    <2> HIDE DEF q
    <2> QED BY <2>1, <2>3, ClockSame, SameTwice
  <1> QED BY <1>1, <1>2

LEMMA TakeFits ==
    ASSUME NEW p, Typed(p), Fit(p), p.resource # 0
    PROVE  Fit(Take(p)) /\ Take(p).resource = p.resource
  <1> DEFINE r == p.resource
             source == [p.source EXCEPT ![r] = TakeFrom(p.source[r])]
             q == Take(p)
  <1>1. p \in Player /\ r \in Resources /\ p.source \in [Resources -> Source]
        /\ p.played \subseteq Resources
    BY DEF Typed, Player
  <1>2. Take(p) = [p EXCEPT !.source = source, !.missed = 0]
    BY DEF Take
  <1>3. \A x \in p.played \ {r} : source[x].done
    BY <1>1 DEF Fit, Owned
  <1> HIDE DEF source
  <1>4. /\ q.source = source /\ q.resource = r /\ q.played = p.played
        /\ q.state = p.state
    BY <1>1, <1>2 DEF Player
  <1> HIDE DEF q
  <1>5. Fit(q)
    BY <1>3, <1>4 DEF Fit, Owned, Suits
  <1> QED BY <1>4, <1>5 DEF q

\* What a tick leaves behind.
Served(p) == Fit(p) /\ Driven(p) /\ Excused(p)

\* A beat that plays on schedules the next; one that does not leaves nothing
\* that plays.
LEMMA BeatServes ==
    ASSUME NEW p, Typed(p), Fit(p), Excused(p), NEW l, GoodCall(l),
           \A s \in Statuses \ {"paused"} : Mild(l, s),
           Fresh(p) \/ (~Over(p) /\ ~Stalls(p))
    PROVE  Served(Beat(p, l))
  <1>0. /\ p \in Player /\ p.state \in Statuses
        /\ {"idle", "buffering", "playing", "autopaused"} \subseteq Statuses \ {"paused"}
    BY DEF Typed, Player, Statuses
  <1>1. \A q, b : Same(q, b) /\ Fit(q) /\ Excused(q)
                    /\ (q.state \in {"paused", "idle", "autopaused"} \/ b.armed > 0)
                    => Served(b)
    BY SameFits DEF Same, Served, Driven, Excused
  <1>2. CASE p.state \in {"idle", "paused"}
    BY <1>1, <1>2, PadSame DEF Beat
  <1>3. CASE p.state \notin {"idle", "paused"} /\ (p.state = "autopaused" \/ p.resource = 0)
    <2>1. Beat(p, l) = Quiet(p)
      BY <1>3 DEF Beat
    <2>2. p.state = "autopaused"
      BY <1>3 DEF Fit, Suits
    <2> QED BY <1>1, <2>1, <2>2, ClockSame
  <1>4. CASE p.state \notin {"idle", "paused", "autopaused"} /\ p.resource # 0
    <2>1. CASE ~p.ready /\ p.option = "pause"
      <3> DEFINE q == Tell(p, "autopaused", l)
      <3>1. Beat(p, l) = Quiet(q)
        BY <1>4, <2>1 DEF Beat
      <3>2. Owned(p) /\ Suits(p, "autopaused") /\ "autopaused" \in Statuses
        BY <1>0, <1>4 DEF Fit, Suits
      <3>3. Typed(q)
        BY <3>2, TellSafe DEF Safe
      <3>4. Fit(q) /\ ~q.ready /\ q.state \in {"autopaused", "paused", "idle"}
        BY <1>0, <2>1, <3>2, TellFits
      <3> HIDE DEF q
      <3> QED BY <1>1, <3>1, <3>3, <3>4, ClockSame DEF Excused
    <2>2. CASE ~p.ready /\ p.option = "stop"
      <3> DEFINE halt == [do |-> "halt", with |-> 0]
                 b == Invoke(p, halt, l)
      <3>1. GoodCall(halt)
        BY DEF GoodCall, Methods, AllReactions
      <3>2. Beat(p, l) = b
        BY <1>4, <2>2 DEF Beat
      <3>3. Accepts(p, halt)
        BY <1>4 DEF Accepts
      <3>4. Mild(l, IF halt.do = "mute" THEN "paused" ELSE "idle")
        BY <1>0
      <3>5. Fit(b) /\ b.state \in {"paused", "idle"}
        <4>1. halt.do \in {"mute", "halt"}
          OBVIOUS
        <4> HIDE DEF halt
        <4> QED BY <3>1, <3>3, <3>4, <4>1, InvokeFits
      <3> QED BY <3>2, <3>5 DEF Served, Driven, Excused
    <2>3. CASE (p.ready \/ p.option \notin {"pause", "stop"}) /\ Readable(p, p.resource)
      <3> DEFINE taken == Take(p)
                 q == Tell(taken, "playing", l)
      <3>1. Typed(taken) /\ Fit(taken) /\ taken.resource # 0
        BY <1>4, <2>3, TakeSafe, TakeFits DEF Safe
      <3>2. Beat(p, l) = Schedule(q)
        BY <1>4, <2>3 DEF Beat
      <3> HIDE DEF taken
      <3>3. Owned(taken) /\ Suits(taken, "playing") /\ "playing" \in Statuses
        BY <1>0, <3>1 DEF Fit, Suits
      <3>4. Typed(q)
        BY <3>1, <3>3, TellSafe DEF Safe
      <3>5. Fit(q) /\ q.state # "autopaused"
        BY <3>1, <3>3, TellFits
      <3> HIDE DEF q
      <3> QED BY <1>1, <3>2, <3>4, <3>5, ClockSame DEF Excused
    <2>4. CASE (p.ready \/ p.option \notin {"pause", "stop"}) /\ ~Readable(p, p.resource)
      <3> DEFINE late == Tell(p, "buffering", l)
      <3>1. Owned(p) /\ Suits(p, "buffering") /\ "buffering" \in Statuses
        BY <1>0, <1>4 DEF Fit, Suits
      <3>2. Safe(p, late) /\ Typed(late)
        BY <3>1, TellSafe DEF Safe
      <3>3. Fit(late) /\ late.state # "autopaused"
        BY <3>1, TellFits
      <3>4. CASE p.resource \notin Live
        <4>1. Beat(p, l) = Schedule(Miss(late))
          BY <1>4, <2>4, <3>4 DEF Beat
        <4> HIDE DEF late
        <4>2. p.missed # MaxMissed
          <5>1. Reads(p)
            BY <1>4, <2>4, PlayerAssumption DEF Reads, Typed, Player, Statuses
          <5>2. CASE Fresh(p)
            BY <1>4, <5>2, PlayerAssumption DEF Fresh
          <5>3. CASE ~Over(p) /\ ~Stalls(p)
            BY <2>4, <3>4, <5>1, <5>3 DEF Over, Stalls, Ended
          <5> QED BY <5>2, <5>3
        <4>3. late.missed # MaxMissed
          BY <3>2, <4>2, PlayerAssumption DEF Safe
        <4>4. Typed(Miss(late)) /\ Same(late, Miss(late))
          BY <3>2, <4>3, MissTyped DEF Same, Miss, Typed, Player
        <4>5. Same(late, Schedule(Miss(late))) /\ Schedule(Miss(late)).armed > 0
          BY <4>4, ClockSame, SameTwice
        <4> QED BY <1>1, <3>3, <4>1, <4>5 DEF Excused
      <3>5. CASE p.resource \in Live
        <4> DEFINE q == IF p.source[p.resource].started THEN p ELSE late
        <4>1. Beat(p, l) = Schedule(q)
          BY <1>4, <2>4, <3>5 DEF Beat
        <4>2. Typed(q) /\ Fit(q) /\ q.state # "autopaused"
          BY <1>4, <3>2, <3>3
        <4> HIDE DEF q
        <4> QED BY <1>1, <4>1, <4>2, ClockSame DEF Excused
      <3> QED BY <3>4, <3>5
    <2> QED BY <2>1, <2>2, <2>3, <2>4
  <1> QED BY <1>2, <1>3, <1>4

\* A listener that does not play leaves the player its resource, or none.
LEMMA MildKeeps ==
    ASSUME NEW p, Typed(p), NEW next \in Statuses, NEW l, GoodCall(l), Mild(l, next)
    PROVE  Tell(p, next, l).resource \in {0, p.resource}
  <1> DEFINE s == SetState(p, next)
             q == Prepare(s, l)
             u == SetState(q, Aim(q, l))
  <1>1. Typed(s) /\ s.resource = p.resource
    BY SetStateSafe DEF Safe
  <1>2. Tell(p, next, l) \in {p, s} \/ (Accepts(s, l) /\ Tell(p, next, l) = Complete(u, l))
    BY DEF Tell, Emit, Do
  <1> HIDE DEF s
  <1>3. CASE Accepts(s, l)
    <2>1. l.do # "nothing" /\ l.do \in {"pause", "unpause", "stop", "halt"}
      BY <1>3 DEF Accepts, Mild, AllReactions
    <2>2. Typed(q)
      BY <1>1, <2>1, PrepareSafe DEF Safe
    <2>3. q.resource \in {0, p.resource}
      <3>1. CASE l.do \in {"pause", "unpause"}
        BY <1>1, <2>1, <3>1, SilenceSame DEF Prepare, Same
      <3>2. CASE l.do \in {"stop", "halt"}
        <4> DEFINE old == Destroy(s, s.resource)
        <4>1. old \in Player
          <5>1. s.resource \in Resources \cup {0}
            BY <1>1 DEF Typed, Player
          <5> QED BY <1>1, <5>1, DestroySafe DEF Safe, Typed
        <4>2. q = [old EXCEPT !.resource = 0]
          BY <3>2 DEF Prepare
        <4> HIDE DEF old
        <4> QED BY <4>1, <4>2 DEF Player
      <3> QED BY <2>1, <3>1, <3>2
    <2>4. Aim(q, l) \in Statuses
      BY <2>1, <2>2, AimTyped
    <2> HIDE DEF q
    <2>5. Typed(u) /\ u.resource = q.resource
      BY <2>2, <2>4, SetStateSafe DEF Safe
    <2> HIDE DEF u
    <2>6. Complete(u, l).resource = u.resource
      BY <2>1, <2>5, CompleteSame DEF Same
    <2> QED BY <1>1, <1>2, <2>3, <2>5, <2>6
  <1>4. CASE ~Accepts(s, l)
    BY <1>1, <1>2, <1>4
  <1> QED BY <1>3, <1>4

LEMMA TickServes ==
    ASSUME NEW p, Typed(p), Fit(p), Excused(p), NEW l, GoodCall(l),
           \A s \in Statuses \ {"paused"} : Mild(l, s)
    PROVE  Served(Tick(p, l))
  <1>1. CASE Over(p)
    <2> DEFINE event == IF p.source[p.resource].failed THEN "error" ELSE "finish"
               q == Finish(p, p.resource, event, l)
    <2>1. Tick(p, l) = Beat(q, l)
      BY <1>1 DEF Tick
    <2>2. p.resource \in Resources /\ p.source[p.resource].done
      BY <1>1 DEF Over, Reads, Ended, Typed, Player
    <2>3. Safe(p, q) /\ Fresh(q)
      BY <2>2, FinishSafe
    <2>4. Fit(q) /\ (q.state = "autopaused" => p.state = "autopaused")
      BY <2>2, FinishFits DEF Fit
    <2>5. Excused(q)
      BY <1>1, <2>4 DEF Excused, Over, Reads
    <2> HIDE DEF q
    <2> QED BY <2>1, <2>3, <2>4, <2>5, BeatServes DEF Safe
  <1>2. CASE ~Over(p) /\ Stalls(p)
    <2> DEFINE late == Tell(p, "buffering", l)
               q == Finish(late, p.resource, "error", l)
    <2>1. Tick(p, l) = Beat(q, l)
      BY <1>2 DEF Tick
    <2>2. p.resource \in Resources /\ Owned(p) /\ Suits(p, "buffering")
          /\ "buffering" \in Statuses \ {"paused"}
      BY <1>2 DEF Stalls, Reads, Typed, Player, Fit, Suits, Statuses
    <2>3. Typed(late) /\ Fit(late) /\ late.state # "autopaused"
      BY <2>2, TellSafe, TellFits DEF Safe
    <2>4. late.resource \in {0, p.resource}
      BY <2>2, MildKeeps
    <2> HIDE DEF late
    <2>5. Safe(late, q) /\ Fresh(q)
      BY <2>2, <2>3, FinishSafe
    <2>6. Fit(q) /\ q.state # "autopaused"
      BY <2>2, <2>3, <2>4, FinishFits DEF Fit
    <2> HIDE DEF q
    <2> QED BY <2>1, <2>5, <2>6, BeatServes DEF Safe, Excused
  <1>3. CASE ~Over(p) /\ ~Stalls(p)
    BY <1>3, BeatServes DEF Tick
  <1> QED BY <1>1, <1>2, <1>3

-----------------------------------------------------------------------------
(***************************************************************************)
(* The theorems                                                            *)
(***************************************************************************)

TypeInv == Typed(player)

LEMMA InitTyped == Init => TypeInv /\ OneClock
  <1> SUFFICES ASSUME Init PROVE TypeInv /\ OneClock
    OBVIOUS
  <1>1. PICK option \in NoSubscriber, ready \in BOOLEAN : player =
            [option |-> option, ready |-> ready, state |-> "idle", resource |-> 0,
             source |-> [r \in Resources |->
                            [frames |-> 0, started |-> FALSE, done |-> FALSE,
                             failed |-> FALSE]],
             played |-> {}, armed |-> 0, tracked |-> FALSE, silence |-> 0,
             missed |-> 0]
    BY DEF Init
  <1>2. 0 \in 0..MaxFrames /\ 0 \in 0..Padding /\ 0 \in 0..MaxMissed
    BY PlayerAssumption
  <1>3. player \in Player
    BY <1>1, <1>2 DEF Player, Source, Statuses
  <1> QED BY <1>1, <1>3 DEF TypeInv, Typed, OneClock

LEMMA ListenersCall ==
    /\ \A l \in CallListeners \cup QuietListeners \cup TickListeners : GoodCall(l)
    /\ \A l \in TickListeners : l.do \in OnTick \cup {"nothing"}
    /\ \A c \in LoudCalls \cup QuietCalls \cup {Refresh} : GoodCall(c)
  <1>1. \A l \in CallListeners \cup QuietListeners : GoodCall(l)
    BY ListenerCalls DEF CallListeners, QuietListeners
  <1>2. \A l \in TickListeners : GoodCall(l) /\ l.do \in OnTick \cup {"nothing"}
    BY ListenerCalls DEF TickListeners
  <1>3. \A c \in LoudCalls \cup QuietCalls \cup {Refresh} : GoodCall(c)
    BY DEF LoudCalls, QuietCalls, Refresh, Calls, MethodCall, GoodCall, Methods, AllReactions
  <1> QED BY <1>1, <1>2, <1>3

\* What every step preserves; a tick needs calm listeners to keep one clock.
LEMMA StepTyped ==
    ASSUME TypeInv, [Next]_vars
    PROVE  TypeInv' /\ (OneClock /\ OnTick \subseteq {"nothing", "halt"} => OneClock')
  <1>1. OneClock <=> Clocked(player)
    BY DEF OneClock, Clocked
  <1>2. OneClock' <=> Clocked(player')
    BY DEF OneClock, Clocked
  <1>3. SUFFICES Typed(player') /\
                 (Clocked(player) /\ OnTick \subseteq {"nothing", "halt"} => Clocked(player'))
    BY <1>1, <1>2 DEF TypeInv
  <1>4. Typed(player)
    BY DEF TypeInv
  <1>5. CASE Call
    <2>1. PICK l \in CallListeners, c \in LoudCalls : player' = Invoke(player, c, l)
      BY <1>5 DEF Call
    <2> QED BY <1>4, <2>1, ListenersCall, InvokeSafe DEF Safe
  <1>6. CASE Silence
    <2>1. PICK l \in QuietListeners, c \in QuietCalls : player' = Invoke(player, c, l)
      BY <1>6 DEF Silence
    <2> QED BY <1>4, <2>1, ListenersCall, InvokeSafe DEF Safe
  <1>7. CASE Subscribers
    <2>1. PICK l \in CallListeners, ready \in BOOLEAN :
            player' = Invoke([player EXCEPT !.ready = ready], Refresh, l)
      BY <1>7 DEF Subscribers
    <2>2. Safe(player, [player EXCEPT !.ready = ready])
      BY <1>4 DEF Safe, Typed, Fresh, Clocked, Player
    <2> QED BY <2>1, <2>2, ListenersCall, InvokeSafe DEF Safe
  <1>8. CASE ClockFires
    <2> DEFINE fired == [player EXCEPT !.armed = player.armed - 1, !.tracked = FALSE]
    <2>1. PICK l \in TickListeners : player' = Tick(fired, l)
      BY <1>8 DEF ClockFires
    <2>2. player \in Player /\ player.armed \in Nat /\ player.armed > 0
      BY <1>4, <1>8 DEF Typed, Player, ClockFires
    <2>3. player.armed - 1 \in Nat
      BY <2>2
    <2>4. fired \in Player
      BY <2>2, <2>3, ClockTyped
    <2>5. fired.armed = player.armed - 1 /\ ~fired.tracked
      BY <2>2 DEF Player
    <2>6. Typed(fired) /\ (Clocked(player) => Still(fired))
      BY <2>2, <2>4, <2>5 DEF Typed, Clocked, Still
    <2> HIDE DEF fired
    <2>7. OnTick \subseteq {"nothing", "halt"} => Calm(l)
      BY ListenersCall DEF Calm
    <2> QED BY <2>1, <2>6, <2>7, ListenersCall, TickTyped
  <1>9. ASSUME NEW r \in Resources, Produces(r)
        PROVE  Typed(player') /\ (Clocked(player) => Clocked(player'))
    <2>1. player.source \in [Resources -> Source] /\ player.source[r] \in Source
      BY <1>4 DEF Typed, Player
    <2>2. CASE /\ player.source[r].frames < MaxFrames
               /\ player' = [player EXCEPT !.source[r].frames = @ + 1]
      <3>1. player.source[r].frames + 1 \in 0..MaxFrames
        BY <2>1, <2>2, PlayerAssumption DEF Source
      <3>2. [player.source EXCEPT ![r].frames = @ + 1] \in [Resources -> Source]
        BY <2>1, <3>1 DEF Source
      <3> DEFINE source == [player.source EXCEPT ![r].frames = @ + 1]
      <3>3. player' = [player EXCEPT !.source = source]
        BY <2>2
      <3> HIDE DEF source
      <3> QED BY <1>4, <3>2, <3>3 DEF source, Typed, Clocked, Player
    <2>3. CASE \E failed \in BOOLEAN :
                  player' = [player EXCEPT !.source[r].done = TRUE,
                                           !.source[r].failed = failed]
      <3>1. PICK failed \in BOOLEAN :
                  player' = [player EXCEPT !.source[r].done = TRUE,
                                           !.source[r].failed = failed]
        BY <2>3
      <3> DEFINE source == [player.source EXCEPT ![r] =
                                [@ EXCEPT !.done = TRUE, !.failed = failed]]
      <3>2. source \in [Resources -> Source]
        BY <2>1 DEF Source
      <3>3. player' = [player EXCEPT !.source = source]
        BY <1>4, <2>1, <3>1 DEF Typed, Player, Source
      <3> HIDE DEF source
      <3> QED BY <1>4, <3>2, <3>3 DEF Typed, Clocked, Player
    <2>4. CASE player' = Destroy(player, r)
      BY <1>4, <2>4, DestroySafe DEF Safe
    <2> QED BY <1>9, <2>2, <2>3, <2>4 DEF Produces
  <1>10. CASE UNCHANGED vars
    BY <1>4, <1>10 DEF vars
  <1> QED BY <1>5, <1>6, <1>7, <1>8, <1>9, <1>10 DEF Next

\* The player is well typed, whatever the listeners do: no miss is counted past
\* maxMissedFrames and no timer is cleared that was not there (player.ts:234-282).
THEOREM TypeCorrect == Spec => []TypeOK
  <1>1. Spec => []TypeInv
    BY InitTyped, StepTyped, PTL DEF Spec
  <1>2. TypeInv => TypeOK
    BY DEF TypeInv, Typed, TypeOK
  <1> QED BY <1>1, <1>2, PTL

\* One clock: if no listener that a tick runs starts the clock, there is never
\* a second timer, and #timer is the one there is, so pause(false) and
\* stop(true) do silence the player (player.ts:192-214).
THEOREM ClockIsOne ==
    ASSUME OnTick \subseteq {"nothing", "halt"}
    PROVE  Spec => []OneClock
  <1>1. TypeInv /\ OneClock /\ [Next]_vars => TypeInv' /\ OneClock'
    BY StepTyped
  <1> QED BY <1>1, InitTyped, PTL DEF Spec

LEMMA InitServed == Init => Served(player)
  BY DEF Init, Served, Fit, Suits, Owned, Driven, Excused

\* What a listener of a tick, or of a call that stops the clock, must not do.
LEMMA MildListeners ==
    /\ "play" \notin OnTick =>
         \A l \in TickListeners, s \in Statuses \ {"paused"} : Mild(l, s)
    /\ OnQuiet \cap {"play", "unpause"} = {} =>
         \A l \in QuietListeners, s \in Statuses : Mild(l, s)
  <1>1. OnTick \cup OnQuiet \cup {"nothing"} \subseteq AllReactions
    BY PlayerAssumption DEF AllReactions
  <1>2. \A l \in TickListeners : l.do \in OnTick \cup {"nothing"}
    BY ListenersCall
  <1>3. \A l \in QuietListeners : l.do \in OnQuiet \cup {"nothing"}
    BY ListenerCalls DEF QuietListeners
  <1> QED BY <1>1, <1>2, <1>3 DEF Mild

LEMMA StepServed ==
    ASSUME "play" \notin OnTick, OnQuiet \cap {"play", "unpause"} = {},
           TypeInv, Served(player), [Next]_vars
    PROVE  Served(player')
  <1>1. Typed(player) /\ Fit(player) /\ Driven(player) /\ Excused(player)
    BY DEF TypeInv, Served
  <1>2. CASE Call
    <2>1. PICK l \in CallListeners, c \in LoudCalls : player' = Invoke(player, c, l)
      BY <1>2 DEF Call
    <2>2. GoodCall(c) /\ GoodCall(l) /\ c.do \notin {"mute", "halt"}
      BY ListenersCall DEF LoudCalls, Calls
    <2>3. CASE Accepts(player, c)
      BY <1>1, <2>1, <2>2, <2>3, InvokeFits DEF Served, Driven, Excused
    <2>4. CASE ~Accepts(player, c)
      BY <2>1, <2>4 DEF Invoke
    <2> QED BY <2>3, <2>4
  <1>3. CASE Silence
    <2>1. PICK l \in QuietListeners, c \in QuietCalls : player' = Invoke(player, c, l)
      BY <1>3 DEF Silence
    <2>2. GoodCall(c) /\ GoodCall(l) /\ c.do \in {"mute", "halt"}
      BY ListenersCall DEF QuietCalls, Calls
    <2>3. Mild(l, IF c.do = "mute" THEN "paused" ELSE "idle")
      BY MildListeners DEF Statuses
    <2>4. CASE Accepts(player, c)
      BY <1>1, <2>1, <2>2, <2>3, <2>4, InvokeFits DEF Served, Driven, Excused
    <2>5. CASE ~Accepts(player, c)
      BY <2>1, <2>5 DEF Invoke
    <2> QED BY <2>4, <2>5
  <1>4. CASE Subscribers
    <2>1. PICK l \in CallListeners, ready \in BOOLEAN :
            player' = Invoke([player EXCEPT !.ready = ready], Refresh, l)
      BY <1>4 DEF Subscribers
    <2> DEFINE p == [player EXCEPT !.ready = ready]
    <2>2. Typed(p)
      BY <1>1 DEF Typed, Player
    <2>3. Fit(p)
      BY <1>1 DEF Typed, Player, Fit, Suits, Owned
    <2>4. GoodCall(Refresh) /\ GoodCall(l) /\ Refresh.do = "refresh"
      BY ListenersCall DEF Refresh
    <2> HIDE DEF p
    <2>5. CASE Accepts(p, Refresh)
      BY <2>1, <2>2, <2>3, <2>4, <2>5, InvokeFits DEF p, Served, Driven, Excused
    <2>6. CASE ~Accepts(p, Refresh)
      <3>1. player' = p
        BY <2>1, <2>6 DEF p, Invoke
      <3>2. Driven(p) /\ Excused(p)
        BY <2>4, <2>6 DEF Accepts, Driven, Excused
      <3> QED BY <2>3, <3>1, <3>2 DEF Served
    <2> QED BY <2>5, <2>6
  <1>5. CASE ClockFires
    <2> DEFINE fired == [player EXCEPT !.armed = player.armed - 1, !.tracked = FALSE]
    <2>1. PICK l \in TickListeners : player' = Tick(fired, l)
      BY <1>5 DEF ClockFires
    <2>2. player \in Player /\ player.armed \in Nat /\ player.armed > 0
      BY <1>1, <1>5 DEF Typed, Player, ClockFires
    <2>3. player.armed - 1 \in Nat
      BY <2>2
    <2>4. fired \in Player
      BY <2>2, <2>3, ClockTyped
    <2>5. ~fired.tracked /\ Same(player, fired)
      BY <2>2 DEF Player, Same
    <2> HIDE DEF fired
    <2>6. Typed(fired) /\ Fit(fired) /\ Excused(fired)
      BY <1>1, <2>4, <2>5, SameFits DEF Typed, Excused, Same
    <2>7. GoodCall(l) /\ \A s \in Statuses \ {"paused"} : Mild(l, s)
      BY ListenersCall, MildListeners
    <2> QED BY <2>1, <2>6, <2>7, TickServes
  <1>6. ASSUME NEW r \in Resources, Produces(r) PROVE Served(player')
    <2>1. \E source : /\ player' = [player EXCEPT !.source = source]
                      /\ \A x \in Resources : player.source[x].done => source[x].done
      <3>1. player \in Player /\ player.source \in [Resources -> Source] /\ r # 0
        BY <1>1, PlayerAssumption DEF Typed, Player, Resources
      <3>2. CASE player' = [player EXCEPT !.source[r].frames = @ + 1]
        <4> DEFINE source == [player.source EXCEPT ![r].frames = @ + 1]
        <4>1. \A x \in Resources : player.source[x].done => source[x].done
          BY <3>1 DEF Source
        <4>2. player' = [player EXCEPT !.source = source]
          BY <3>2
        <4> HIDE DEF source
        <4> QED BY <4>1, <4>2
      <3>3. ASSUME NEW failed \in BOOLEAN,
                   player' = [player EXCEPT !.source[r].done = TRUE,
                                            !.source[r].failed = failed]
            PROVE  \E source : /\ player' = [player EXCEPT !.source = source]
                      /\ \A x \in Resources : player.source[x].done => source[x].done
        <4> DEFINE source == [player.source EXCEPT ![r] =
                                  [@ EXCEPT !.done = TRUE, !.failed = failed]]
        <4>1. \A x \in Resources : player.source[x].done => source[x].done
          BY <3>1 DEF Source
        <4>2. player' = [player EXCEPT !.source = source]
          BY <3>1, <3>3 DEF Player, Source
        <4> HIDE DEF source
        <4> QED BY <4>1, <4>2
      <3>4. CASE player' = Destroy(player, r)
        <4> DEFINE source == [player.source EXCEPT ![r] =
                                  [@ EXCEPT !.frames = 0, !.done = TRUE]]
        <4>1. \A x \in Resources : player.source[x].done => source[x].done
          BY <3>1 DEF Source
        <4>2. player' = [player EXCEPT !.source = source]
          BY <3>1, <3>4 DEF Destroy, Player, Source
        <4> HIDE DEF source
        <4> QED BY <4>1, <4>2
      <3> QED BY <1>6, <3>2, <3>3, <3>4 DEF Produces
    <2>2. PICK source : /\ player' = [player EXCEPT !.source = source]
                        /\ \A x \in Resources : player.source[x].done => source[x].done
      BY <2>1
    <2>3. /\ player'.state = player.state /\ player'.resource = player.resource
          /\ player'.ready = player.ready /\ player'.armed = player.armed
          /\ player'.played = player.played /\ player'.source = source
          /\ player.played \subseteq Resources
      BY <1>1, <2>2 DEF Typed, Player
    <2> QED BY <1>1, <2>2, <2>3 DEF Served, Fit, Suits, Owned, Driven, Excused
  <1>7. CASE UNCHANGED vars
    BY <1>7, <1>1 DEF vars, Served
  <1> QED BY <1>2, <1>3, <1>4, <1>5, <1>6, <1>7 DEF Next

\* What plays has a clock, nothing stays autopaused while a connection could
\* play it, and of the resources that were played only the player's own may
\* still run, whichever calls listeners make in the middle of one another
\* (player.ts:193-288).  Assumed: no listener plays in the middle of a tick, and
\* none plays or goes on while the clock is being stopped.
THEOREM InvHolds ==
    ASSUME "play" \notin OnTick, OnQuiet \cap {"play", "unpause"} = {}
    PROVE  Spec => []Inv
  <1> DEFINE JInv == TypeInv /\ Served(player)
  <1>1. Init => JInv
    BY InitTyped, InitServed
  <1>2. JInv /\ [Next]_vars => JInv'
    <2>1. JInv /\ [Next]_vars => TypeInv'
      BY StepTyped
    <2>2. JInv /\ [Next]_vars => Served(player')
      BY StepServed
    <2>3. Served(player)' <=> Served(player')
      BY DEF Served, Fit, Suits, Owned, Driven, Excused
    <2> QED BY <2>1, <2>2, <2>3
  <1>3. JInv => Inv
    BY DEF TypeInv, Typed, Served, Fit, Suits, Owned, Driven, Excused,
           Inv, TypeOK, ClockWhenNeeded, PlaysCurrent
  <1> QED BY <1>1, <1>2, <1>3, PTL DEF Spec
=============================================================================
