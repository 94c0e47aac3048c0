---------------------------- MODULE AudioPlayer ----------------------------
(***************************************************************************)
(* The player that sends one Opus frame every 20 ms to a voice connection: *)
(* AudioPlayer in packages/voice/src/player.ts, over the queue of frames   *)
(* of each AudioResource (resource.ts).                                    *)
(*                                                                         *)
(* Listeners run in the middle of the method that emits, and may call the  *)
(* player.  So a method comes in parts: whether it does anything, what it  *)
(* changes before the status, the status, what it changes afterwards.      *)
(* Tell changes the status and runs the listener between those parts.  The *)
(* recursion of listeners is cut there: nothing hears of the change that a *)
(* method makes when a listener calls it.                                  *)
(***************************************************************************)
EXTENDS Naturals

CONSTANTS
    MaxResources,  \* bound: resources the application creates
    MaxFrames,     \* bound: frames a resource prefetches
    Live,          \* resources of a live source
    NoSubscriber,  \* values options.noSubscriber may have
    MaxMissed,     \* options.maxMissedFrames
    Padding,       \* SILENCE_PADDING
    Hears,         \* what a listener reacts to: subset of Events
    OnCall,        \* what it does when a call has made the change
    OnQuiet,       \* likewise, for a call that stops the clock
    OnTick         \* likewise, for a tick of the clock

Statuses == {"idle", "buffering", "playing", "paused", "autopaused"}
Events == Statuses \cup {"finish", "error"}
AllReactions == {"nothing", "play", "pause", "unpause", "stop", "halt"}
Methods == AllReactions \cup {"mute", "refresh"}

ASSUME PlayerAssumption ==
    /\ MaxResources \in Nat /\ MaxFrames \in Nat \ {0} /\ MaxMissed \in Nat \ {0}
    /\ Padding \in Nat /\ Live \subseteq 1..MaxResources
    /\ NoSubscriber \subseteq {"pause", "play", "stop"} /\ Hears \subseteq Events
    /\ OnCall \cup OnQuiet \cup OnTick \subseteq AllReactions

VARIABLE
    player  \* the AudioPlayer, its resources and its subscribers

vars == <<player>>

Resources == 1..MaxResources
Source == [frames : 0..MaxFrames,  \* frames read ahead
           started : BOOLEAN,
           done : BOOLEAN,         \* #done: it ended, failed or was destroyed
           failed : BOOLEAN]
MethodCall == [do : Methods, with : Resources \cup {0}]

Player ==
    [option : NoSubscriber,
     ready : BOOLEAN,            \* some subscribed connection can send
     state : Statuses,
     resource : Resources \cup {0},
     source : [Resources -> Source],
     played : SUBSET Resources,  \* history: what play() accepted
     armed : Nat,                \* clock callbacks that are scheduled
     tracked : BOOLEAN,          \* #timer is one of them
     silence : 0..Padding,
     missed : 0..MaxMissed]

TypeOK == player \in Player

-----------------------------------------------------------------------------
(***************************************************************************)
(* The resource                                                            *)
(***************************************************************************)

Readable(p, r) == p.source[r].frames > 0
Ended(p, r) == p.source[r].done /\ ~Readable(p, r)

Destroy(p, r) ==
    IF r = 0 THEN p
    ELSE [p EXCEPT !.source[r].frames = 0, !.source[r].done = TRUE]

-----------------------------------------------------------------------------
(***************************************************************************)
(* The clock                                                               *)
(***************************************************************************)

\* The timer that #timer held, if any, is forgotten.
Schedule(p) == [p EXCEPT !.armed = @ + 1, !.tracked = TRUE]

\* Mutant: a clock that runs is not noticed.
StartAgain(p) == Schedule(p)

Start(p) == IF p.tracked THEN p ELSE Schedule(p)

Quiet(p) ==
    IF p.tracked THEN [p EXCEPT !.armed = @ - 1, !.tracked = FALSE] ELSE p

-----------------------------------------------------------------------------
(***************************************************************************)
(* The public methods.  "pause" and "stop" send padding; "mute" is         *)
(* pause(false) and "halt" is stop(true), which do not.                    *)
(***************************************************************************)

\* Whether call c does anything.  A resource that has ended, or whose first
\* frame was taken, is refused.
Accepts(p, c) ==
    CASE c.do = "nothing" -> FALSE
      [] c.do = "play" -> ~p.source[c.with].started /\ ~Ended(p, c.with)
      [] c.do \in {"pause", "mute"} -> p.state \in {"playing", "buffering"}
      [] c.do = "unpause" -> p.state = "paused"
      [] c.do \in {"stop", "halt"} -> p.state # "idle"
      [] c.do = "refresh" -> \/ p.state \in {"playing", "buffering"}
                             \/ p.state = "autopaused" /\ p.ready

\* Mutant: the resource that is replaced is left running.
Abandon(p, r) == p

\* The resource that is replaced, if another, is destroyed.
Replace(p, r) == IF p.resource = r THEN p ELSE Destroy(p, p.resource)

\* What call c does before it changes the status.
Prepare(p, c) ==
    CASE c.do = "play" -> [Replace(p, c.with) EXCEPT
                               !.resource = c.with, !.played = @ \cup {c.with},
                               !.missed = 0, !.silence = 0]
      [] c.do = "unpause" -> [p EXCEPT !.silence = 0]
      [] c.do \in {"stop", "halt"} -> [Destroy(p, p.resource) EXCEPT !.resource = 0]
      [] c.do \in {"pause", "mute", "refresh"} -> p

\* The status of a player that goes on with its resource.
Going(p) == IF p.resource # 0 /\ Readable(p, p.resource) THEN "playing" ELSE "buffering"

\* Mutant: a player that becomes audible again stays autopaused.
AimAutopaused(p, c) ==
    CASE c.do \in {"pause", "mute"} -> "paused"
      [] c.do \in {"stop", "halt"} -> "idle"
      [] c.do \in {"play", "unpause"} -> Going(p)
      [] c.do = "refresh" -> p.state

\* The status call c asks for.
Aim(p, c) ==
    CASE c.do \in {"pause", "mute"} -> "paused"
      [] c.do \in {"stop", "halt"} -> "idle"
      [] c.do \in {"play", "unpause"} -> Going(p)
      [] c.do = "refresh" -> IF p.state = "autopaused" THEN Going(p) ELSE p.state

\* What call c does after the status has changed.
Complete(p, c) ==
    CASE c.do \in {"play", "unpause", "refresh"} -> Start(p)
      [] c.do \in {"pause", "stop"} -> Start([p EXCEPT !.silence = Padding])
      [] c.do \in {"mute", "halt"} -> Quiet([p EXCEPT !.silence = 0])

-----------------------------------------------------------------------------
(***************************************************************************)
(* Listeners                                                               *)
(***************************************************************************)

SetState(p, next) == [p EXCEPT !.state = next]

\* A method that a listener calls: nothing hears of the change it makes.
Do(p, c) ==
    IF ~Accepts(p, c) THEN p
    ELSE LET q == Prepare(p, c) IN Complete(SetState(q, Aim(q, c)), c)

Emit(p, event, l) == IF event \in l.on THEN Do(p, l) ELSE p

\* Only a change of status is told.
Tell(p, next, l) ==
    IF p.state = next THEN p ELSE Emit(SetState(p, next), next, l)

\* A method that the application, or a tick, calls.
Invoke(p, c, l) ==
    IF ~Accepts(p, c) THEN p
    ELSE LET q == Prepare(p, c) IN Complete(Tell(q, Aim(q, c), l), c)

-----------------------------------------------------------------------------
(***************************************************************************)
(* The tick                                                                *)
(***************************************************************************)

\* Resource r ended, or it failed and is destroyed.
Finish(p, r, event, l) ==
    LET gone == IF event = "error" THEN Destroy(p, r) ELSE p
    IN  [Emit(Tell([gone EXCEPT !.resource = 0], "idle", l), event, l)
            EXCEPT !.silence = Padding]

\* Mutant: the padding never gets shorter.
PadForEver(p) == IF p.silence > 0 THEN Schedule(p) ELSE Quiet(p)

\* Silence after pause() or stop(), until it is used up.
Pad(p) ==
    IF p.silence > 1 THEN Schedule([p EXCEPT !.silence = @ - 1])
    ELSE Quiet([p EXCEPT !.silence = 0])

\* The player has a resource to read from, and may send.
Reads(p) ==
    /\ p.state \in {"playing", "buffering"} /\ p.resource # 0
    /\ p.ready \/ p.option = "play"

\* read() returns null.
Over(p) == Reads(p) /\ Ended(p, p.resource)

\* Mutant: a stalled resource is waited for however long it takes.
NeverStalls(p) == FALSE

\* read() returned undefined once too often.
Stalls(p) ==
    /\ Reads(p) /\ ~Readable(p, p.resource) /\ ~p.source[p.resource].done
    /\ p.resource \notin Live /\ p.missed = MaxMissed

\* Mutant: the frames that come late are not counted.
MissUncounted(p) == p

Miss(p) == [p EXCEPT !.missed = @ + 1]

\* A tick sends the frame that read() takes.
TakeFrom(source) == [source EXCEPT !.frames = @ - 1, !.started = TRUE]

Take(p) == [p EXCEPT !.source[p.resource] = TakeFrom(@), !.missed = 0]

\* A tick that finds the resource neither over nor stalled.
Beat(p, l) ==
    IF p.state \in {"idle", "paused"} THEN Pad(p)
    ELSE IF p.state = "autopaused" \/ p.resource = 0 THEN Quiet(p)
    ELSE IF ~p.ready /\ p.option = "pause" THEN Quiet(Tell(p, "autopaused", l))
    ELSE IF ~p.ready /\ p.option = "stop"
    THEN Invoke(p, [do |-> "halt", with |-> 0], l)
    ELSE IF Readable(p, p.resource)
    THEN Schedule(Tell(Take(p), "playing", l))
    ELSE IF p.resource \notin Live
    THEN Schedule(Miss(Tell(p, "buffering", l)))
    ELSE Schedule(IF p.source[p.resource].started THEN p ELSE Tell(p, "buffering", l))

Tick(p, l) ==
    IF Over(p)
    THEN Beat(Finish(p, p.resource,
                     IF p.source[p.resource].failed THEN "error" ELSE "finish", l), l)
    ELSE IF Stalls(p)
    THEN Beat(Finish(Tell(p, "buffering", l), p.resource, "error", l), l)
    ELSE Beat(p, l)

-----------------------------------------------------------------------------
(***************************************************************************)
(* Steps                                                                   *)
(***************************************************************************)

\* The calls of some methods: play() has a resource, no other has.
Calls(methods) == {c \in MethodCall : c.do \in methods /\ (c.do = "play" <=> c.with # 0)}

Listening(events, reactions) ==
    {[on |-> events, do |-> c.do, with |-> c.with] : c \in Calls(reactions)}

\* A call makes at most one change, so its listener hears every event; a tick
\* may make several.
CallListeners == Listening(Hears, OnCall \cup {"nothing"})
QuietListeners == Listening(Hears, OnQuiet \cup {"nothing"})
TickListeners ==
    UNION {Listening({event}, OnTick \cup {"nothing"}) : event \in Hears}
LoudCalls == Calls({"play", "pause", "unpause", "stop"})
QuietCalls == Calls({"mute", "halt"})
Refresh == [do |-> "refresh", with |-> 0]

\* A method is called, and the listeners hear of what it does.
Call ==
    \E l \in CallListeners, c \in LoudCalls :
        player' = Invoke(player, c, l)

\* A method that stops the clock is called.
Silence ==
    \E l \in QuietListeners, c \in QuietCalls :
        player' = Invoke(player, c, l)

\* A connection subscribes, unsubscribes, becomes ready or is so no more.
Subscribers ==
    \E l \in CallListeners, ready \in BOOLEAN :
        player' = Invoke([player EXCEPT !.ready = ready], Refresh, l)

\* A clock callback runs; whichever it is, #timer is cleared first.
ClockFires ==
    /\ player.armed > 0
    /\ \E l \in TickListeners :
        player' = Tick([player EXCEPT !.armed = @ - 1, !.tracked = FALSE], l)

\* The source of resource r yields a frame, ends or fails; its owner may
\* destroy it as well.
Produces(r) ==
    /\ ~player.source[r].done
    /\ \/ /\ player.source[r].frames < MaxFrames
          /\ player' = [player EXCEPT !.source[r].frames = @ + 1]
       \/ \E failed \in BOOLEAN :
            player' = [player EXCEPT !.source[r].done = TRUE,
                                     !.source[r].failed = failed]
       \/ player' = Destroy(player, r)

Init ==
    \E option \in NoSubscriber, ready \in BOOLEAN : player =
            [option |-> option, ready |-> ready, state |-> "idle", resource |-> 0,
             source |-> [r \in Resources |->
                            [frames |-> 0, started |-> FALSE, done |-> FALSE,
                             failed |-> FALSE]],
             played |-> {}, armed |-> 0, tracked |-> FALSE, silence |-> 0,
             missed |-> 0]

Next ==
    \/ Call \/ Silence \/ Subscribers \/ ClockFires
    \/ \E r \in Resources : Produces(r)

Spec == Init /\ [][Next]_vars

\* Timers fire.
FairSpec == Spec /\ WF_vars(ClockFires)

-----------------------------------------------------------------------------
(***************************************************************************)
(* Properties                                                              *)
(***************************************************************************)

\* One clock: at most one callback is scheduled and #timer is that one, so
\* frames leave at the rate they are meant for and pause() and stop() can
\* silence them (player.ts:53).
OneClock == player.armed <= 1 /\ (player.tracked <=> player.armed = 1)

\* What plays has a clock, and nothing stays autopaused while a connection
\* could play it: no sound waits for a call that nobody has to make.
ClockWhenNeeded ==
    /\ player.state \in {"playing", "buffering"} => player.armed > 0
    /\ player.state = "autopaused" => ~player.ready

\* A player that is not idle has a resource, and every other resource it was
\* given has ended or was destroyed, whoever replaced it and from where.
PlaysCurrent ==
    /\ player.resource # 0 <=> player.state # "idle"
    /\ \A r \in player.played \ {player.resource} : player.source[r].done

\* An idle or paused player has no timer, once its padding is sent, unless
\* the application keeps calling it (pausing again starts the padding again).
Quiesces ==
    \/ []<><<Call>>_vars
    \/ player.state \in {"idle", "paused", "autopaused"} ~>
            \/ player.armed = 0
            \/ player.state \in {"playing", "buffering"}

\* A resource that stops producing frames does not buffer for ever, unless the
\* application keeps calling (playing it again starts the count again).
BufferingEnds ==
    \/ []<><<Call>>_vars
    \/ \A r \in Resources \ Live :
           player.resource = r /\ player.state = "buffering" ~>
               player.resource # r \/ player.state # "buffering"

\* The state is well typed, the clock runs when it is needed, and what plays is current.
Inv == TypeOK /\ ClockWhenNeeded /\ PlaysCurrent

=============================================================================
