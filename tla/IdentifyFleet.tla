--------------------------- MODULE IdentifyFleet ---------------------------
(***************************************************************************)
(* How a fleet of shards shares Discord's IDENTIFY limit: the parent's     *)
(* IdentifyCoordinator (packages/sharding/src/identify.ts), reached by the *)
(* workers' identify frames (cluster.ts, worker.ts), and the shards that   *)
(* start through connectInQueue (sharding/src/index.ts) and later ask for  *)
(* a slot themselves when a reconnect has to IDENTIFY (gatedIdentify in    *)
(* ws/src/index.ts).                                                       *)
(*                                                                         *)
(* Time is discrete.  A deadline is the number of ticks left to it, and no *)
(* tick passes while a timer is due or a grant is on its way.              *)
(***************************************************************************)
EXTENDS Naturals, Sequences, FiniteSets

CONSTANTS
    Shards,            \* shard ids
    Nobody,            \* the holder of a slot nobody holds
    MaxConcurrency,    \* options.maxConcurrency
    Owners, OwnerOf,   \* clusters, and the cluster of each shard
    Interval,          \* options.interval
    HoldTimeout,       \* options.holdTimeout
    HandshakeTimeout,  \* options.handshakeTimeout of connectInQueue
    ReadyTimeout,      \* options.readyTimeout
    Total, Period,     \* options.budget
    Startups,          \* whether startup is "sequential": subset of BOOLEAN
    MaxFaults,         \* bound: sockets lost and clusters gone
    MaxHandshake       \* environment: ticks from a grant to the IDENTIFY it was for

ASSUME FleetAssumption ==
    /\ Shards \subseteq Nat /\ IsFiniteSet(Shards) /\ Nobody \notin Shards
    /\ MaxConcurrency \in Nat \ {0}
    /\ OwnerOf \in [Shards -> Owners]
    /\ Interval \in Nat \ {0} /\ HoldTimeout \in Nat \ {0}
    /\ HandshakeTimeout \in Nat /\ ReadyTimeout \in Nat
    /\ Total \in Nat \ {0} /\ Period \in Nat \ {0}
    /\ Startups \subseteq BOOLEAN /\ MaxHandshake \in Nat /\ MaxFaults \in Nat

VARIABLES
    co,       \* the IdentifyCoordinator
    granted,  \* shards whose grant is on its way to them
    shard,    \* shard[s]: a shard of the fleet
    recent,   \* history: recent[k], ticks the last IDENTIFY on key k still counts
    crowded,  \* history: keys on which another came while one still counted
    spent,    \* history: IDENTIFYs since the budget was reset
    carried,  \* history: slots that were held when the budget was reset
    faults,   \* sockets lost and clusters gone so far
    sequential  \* startup is "sequential"

history == <<recent, crowded, spent, carried, faults, sequential>>
vars == <<co, granted, shard, history>>

Keys == 0..(MaxConcurrency - 1)
KeyOf(s) == s % MaxConcurrency
Longest(a, b) == IF a > b THEN a ELSE b

Coordinator ==
    [queue : [Keys -> Seq(Shards)],
     holder : [Keys -> Shards \cup {Nobody}],
     hold : [Keys -> 0..HoldTimeout],   \* to the holder's timeout
     rest : [Keys -> 0..Interval],      \* to nextAt
     remaining : 0..Total,
     reset : 1..Period,                 \* to the next resetAt still ahead
     refill : BOOLEAN,                  \* a resetAt has passed since the last pump
     timer : SUBSET (0..Longest(Period, Interval))]  \* the armed timer, if any

(***************************************************************************)
(* A shard dials, waits for HELLO ("opened"), may wait for a slot to       *)
(* IDENTIFY ("gated"), and waits for READY ("identified").                 *)
(***************************************************************************)
Shard ==
    [phase : {"down", "asking", "dialling", "opened", "gated", "identified",
              "ready"},
     ask : {"none", "start", "current", "stale"},  \* its request for a slot
     starting : BOOLEAN,     \* connectInQueue is waiting
     patience : SUBSET (0..Longest(HandshakeTimeout, ReadyTimeout)), \* until it gives up
     paced : BOOLEAN,        \* the next IDENTIFY takes no slot
     age : 0..MaxHandshake,  \* ticks since the grant it was paced by
     session : BOOLEAN]      \* it can RESUME

Down == [phase |-> "down", ask |-> "none", starting |-> FALSE, patience |-> {},
         paced |-> FALSE, age |-> 0, session |-> FALSE]

TypeOK ==
    /\ co \in Coordinator
    /\ granted \in SUBSET Shards
    /\ shard \in [Shards -> Shard]

-----------------------------------------------------------------------------
(***************************************************************************)
(* identify.ts                                                             *)
(***************************************************************************)

\* Keys that somebody waits for and nobody holds.
Wanted(c) == {k \in Keys : c.holder[k] = Nobody /\ c.queue[k] # <<>>}

Refill(c) ==
    IF c.refill THEN [c EXCEPT !.remaining = Total, !.refill = FALSE] ELSE c

\* Mutant: the budget is not consulted.
GrantableUnbudgeted(c) == {{k \in Wanted(c) : c.rest[k] = 0}}

\* The sets of keys a pump may grant: every key that is due, in an order that
\* matters only when the budget does not suffice.
Grantable(c) ==
    LET due == {k \in Wanted(c) : c.rest[k] = 0}
    IN  {G \in SUBSET due : \/ G = due /\ Cardinality(G) <= c.remaining
                            \/ G # due /\ Cardinality(G) = c.remaining}

\* Mutants: a budget wait, or a resting key, is not what the timer is armed for.
WakesRestOnly(c) == {c.rest[k] : k \in {j \in Wanted(c) : c.rest[j] > 0}}
WakesBudgetOnly(c) == {c.reset : k \in {j \in Wanted(c) : c.rest[j] = 0}}

\* When the keys still wanted can next be granted.
Wakes(c) == {IF c.rest[k] > 0 THEN c.rest[k] ELSE c.reset : k \in Wanted(c)}

Arm(c) ==
    [c EXCEPT !.timer = {w \in Wakes(c) : \A v \in Wakes(c) : w <= v}]

Grant(c, G) ==
    [c EXCEPT !.queue = [k \in Keys |-> IF k \in G THEN Tail(@[k]) ELSE @[k]],
              !.holder = [k \in Keys |-> IF k \in G THEN Head(c.queue[k]) ELSE @[k]],
              !.hold = [k \in Keys |-> IF k \in G THEN HoldTimeout ELSE @[k]],
              !.remaining = @ - Cardinality(G)]

\* pump(): grants what is due and arms the timer for the rest.
Pump(c, alreadyGranted) ==
    LET r == Refill(c)
    IN  \E G \in Grantable(r) :
            /\ co' = Arm(Grant(r, G))
            /\ granted' = alreadyGranted \cup {Head(r.queue[k]) : k \in G}

\* Mutant: a key may be granted again as soon as its slot is released.
FreeAtOnce(c, k) == [c EXCEPT !.holder[k] = Nobody, !.hold[k] = 0]

Free(c, k) ==
    [c EXCEPT !.holder[k] = Nobody, !.hold[k] = 0, !.rest[k] = Interval]

Acquire(s) ==
    Pump([co EXCEPT !.queue[KeyOf(s)] = Append(@, s)], granted)

\* Ignored unless the shard holds the slot.
Release(s, stillGranted) ==
    IF co.holder[KeyOf(s)] = s THEN Pump(Free(co, KeyOf(s)), stillGranted)
    ELSE co' = co /\ granted' = stillGranted

\* The waiters that are not of cluster o, in their order.
Keep(waiters, o) ==
    LET kept == {i \in DOMAIN waiters : OwnerOf[waiters[i]] # o}
        Place(i) == Cardinality({j \in kept : j <= i})
    IN  [n \in 1..Cardinality(kept) |-> waiters[CHOOSE i \in kept : Place(i) = n]]

\* Mutant: the slots a dead cluster holds are left to their timeout.
DropWaiters(c, o) == [c EXCEPT !.queue = [k \in Keys |-> Keep(@[k], o)]]

Held(c, o) == {k \in Keys : c.holder[k] # Nobody /\ OwnerOf[c.holder[k]] = o}

\* A cluster is gone: its requests are forgotten, the slots it held are freed.
Drop(c, o) ==
    [c EXCEPT !.queue = [k \in Keys |-> Keep(@[k], o)],
              !.holder = [k \in Keys |-> IF k \in Held(c, o) THEN Nobody ELSE @[k]],
              !.hold = [k \in Keys |-> IF k \in Held(c, o) THEN 0 ELSE @[k]],
              !.rest = [k \in Keys |-> IF k \in Held(c, o) THEN Interval ELSE @[k]]]

\* The armed timer fires.
PumpTimer ==
    /\ 0 \in co.timer
    /\ Pump([co EXCEPT !.timer = {}], granted)
    /\ UNCHANGED <<shard, history>>

\* A slot was not released in time.
HoldExpires(k) ==
    /\ co.holder[k] # Nobody /\ co.hold[k] = 0
    /\ Pump(Free(co, k), granted)
    /\ UNCHANGED <<shard, history>>

-----------------------------------------------------------------------------
(***************************************************************************)
(* The shards                                                              *)
(***************************************************************************)

\* connectInQueue asks for a slot.
StartShard(s) ==
    /\ shard[s].phase = "down"
    /\ shard' = [shard EXCEPT ![s].phase = "asking", ![s].ask = "start"]
    /\ Acquire(s)
    /\ UNCHANGED history

\* The slot a start waited for arrives: connect().
StartGranted(s) ==
    /\ s \in granted /\ shard[s].ask = "start"
    /\ shard' = [shard EXCEPT ![s].phase = "dialling", ![s].ask = "none",
                              ![s].starting = TRUE, ![s].paced = TRUE, ![s].age = 0]
    /\ granted' = granted \ {s}
    /\ UNCHANGED <<co, history>>

\* The socket opens; the first time, connect() resolves and the start waits
\* for the handshake.
SocketOpens(s) ==
    /\ shard[s].phase = "dialling"
    /\ shard' = [shard EXCEPT ![s].phase = "opened",
                    ![s].patience = IF shard[s].starting /\ @ = {}
                                    THEN {HandshakeTimeout} ELSE @]
    /\ UNCHANGED <<co, granted, history>>

\* IDENTIFY reaches Discord.
Counts(s) ==
    /\ recent' = [recent EXCEPT ![KeyOf(s)] = Interval]
    /\ crowded' = crowded \cup {k \in {KeyOf(s)} : recent[k] > 0}
    /\ spent' = spent + 1
    /\ UNCHANGED <<carried, faults, sequential>>

\* HELLO on a session that lasts: RESUME, which takes no slot.
HelloResumes(s) ==
    /\ shard[s].phase = "opened" /\ shard[s].session
    /\ shard' = [shard EXCEPT ![s].phase = "ready"]
    /\ UNCHANGED <<co, granted, history>>

\* HELLO on a start: IDENTIFY in the slot the start holds.  A parallel start
\* is done then; a sequential one goes on to wait for READY.
HelloIdentifies(s) ==
    /\ shard[s].phase = "opened" /\ ~shard[s].session /\ shard[s].paced
    /\ Counts(s)
    /\ IF shard[s].starting /\ sequential
       THEN /\ shard' = [shard EXCEPT ![s].phase = "identified", ![s].paced = FALSE,
                                      ![s].patience = {ReadyTimeout}]
            /\ UNCHANGED <<co, granted>>
       ELSE /\ shard' = [shard EXCEPT ![s].phase = "identified", ![s].paced = FALSE,
                                      ![s].starting = FALSE, ![s].patience = {}]
            /\ IF shard[s].starting THEN Release(s, granted)
               ELSE UNCHANGED <<co, granted>>

\* HELLO on a reconnect that lost its session: the shard asks for a slot.
\* The parent denies a second request of one shard, which closes the socket.
HelloAsks(s) ==
    /\ shard[s].phase = "opened" /\ ~shard[s].session /\ ~shard[s].paced
    /\ IF shard[s].ask = "none"
       THEN /\ shard' = [shard EXCEPT ![s].phase = "gated", ![s].ask = "current"]
            /\ Acquire(s)
       ELSE /\ shard' = [shard EXCEPT ![s].phase = "dialling"]
            /\ UNCHANGED <<co, granted>>
    /\ UNCHANGED history

\* The slot a reconnect waited for arrives: IDENTIFY, unless the socket that
\* asked is gone, and the slot is released either way.
ReconnectGranted(s) ==
    /\ s \in granted /\ shard[s].ask \in {"current", "stale"}
    /\ IF shard[s].ask = "current"
       THEN /\ shard' = [shard EXCEPT ![s].phase = "identified", ![s].ask = "none"]
            /\ Counts(s)
       ELSE /\ shard' = [shard EXCEPT ![s].ask = "none"]
            /\ UNCHANGED history
    /\ Release(s, granted \ {s})

\* READY: a sequential start is done.
Ready(s) ==
    /\ shard[s].phase = "identified"
    /\ shard' = [shard EXCEPT ![s].phase = "ready", ![s].session = TRUE,
                              ![s].starting = FALSE, ![s].patience = {}]
    /\ IF shard[s].starting THEN Release(s, granted) ELSE UNCHANGED <<co, granted>>
    /\ UNCHANGED history

Fault ==
    /\ faults < MaxFaults
    /\ faults' = faults + 1
    /\ UNCHANGED <<recent, crowded, spent, carried, sequential>>

\* The socket is lost, with or without the session; the Gateway redials.
Lose(s) ==
    /\ shard[s].phase \in {"opened", "gated", "identified", "ready"}
    /\ \E kept \in {FALSE, shard[s].session} :
        shard' = [shard EXCEPT ![s].phase = "dialling", ![s].session = kept,
                     ![s].ask = IF @ = "current" THEN "stale" ELSE @]
    /\ Fault
    /\ UNCHANGED <<co, granted>>

\* handshakeSent or shardReady gives up: the start releases its slot.
StartTimesOut(s) ==
    /\ shard[s].starting /\ 0 \in shard[s].patience
    /\ shard' = [shard EXCEPT ![s].starting = FALSE, ![s].patience = {}]
    /\ Release(s, granted)
    /\ UNCHANGED history

\* A cluster exits with its shards; they may be started again.
Exit(o) ==
    /\ \E s \in Shards : OwnerOf[s] = o /\ shard[s].phase # "down"
    /\ shard' = [s \in Shards |-> IF OwnerOf[s] = o THEN Down ELSE shard[s]]
    /\ Pump(Drop(co, o), {s \in granted : OwnerOf[s] # o})
    /\ Fault

-----------------------------------------------------------------------------

Less(n) == IF n = 0 THEN 0 ELSE n - 1
Sooner(S) == {Less(n) : n \in S}

\* A tick of the clock, once everything due has happened.
Tick ==
    /\ granted = {} /\ 0 \notin co.timer
    /\ \A k \in Keys : co.holder[k] # Nobody => co.hold[k] > 0
    /\ \A s \in Shards :
        /\ 0 \notin shard[s].patience
        /\ shard[s].paced => shard[s].age < MaxHandshake
    /\ co' = [co EXCEPT !.hold = [k \in Keys |-> Less(@[k])],
                        !.rest = [k \in Keys |-> Less(@[k])],
                        !.timer = Sooner(@),
                        !.reset = IF @ = 1 THEN Period ELSE @ - 1,
                        !.refill = @ \/ co.reset = 1]
    /\ shard' = [s \in Shards |->
                    [shard[s] EXCEPT !.patience = Sooner(@),
                                     !.age = IF shard[s].paced THEN @ + 1 ELSE @]]
    /\ recent' = [k \in Keys |-> Less(recent[k])]
    /\ spent' = IF co.reset = 1 THEN 0 ELSE spent
    /\ carried' = IF co.reset # 1 THEN carried
                  ELSE Cardinality({k \in Keys : co.holder[k] # Nobody})
    /\ UNCHANGED <<granted, crowded, faults, sequential>>

Init ==
    /\ \E remaining \in 0..Total : co =
            [queue |-> [k \in Keys |-> <<>>], holder |-> [k \in Keys |-> Nobody],
             hold |-> [k \in Keys |-> 0], rest |-> [k \in Keys |-> 0],
             remaining |-> remaining, reset |-> Period, refill |-> FALSE,
             timer |-> {}]
    /\ granted = {}
    /\ shard = [s \in Shards |-> Down]
    /\ recent = [k \in Keys |-> 0]
    /\ crowded = {}
    /\ spent = 0
    /\ carried = 0
    /\ faults = 0
    /\ sequential \in Startups

Coordinates == PumpTimer \/ \E k \in Keys : HoldExpires(k)
Connects(s) ==
    SocketOpens(s) \/ HelloResumes(s) \/ HelloIdentifies(s) \/ HelloAsks(s)
Granted(s) == StartGranted(s) \/ ReconnectGranted(s)

Next ==
    \/ Coordinates
    \/ \E s \in Shards : \/ StartShard(s) \/ Granted(s) \/ Connects(s)
                         \/ Ready(s) \/ Lose(s) \/ StartTimesOut(s)
    \/ \E o \in Owners : Exit(o)
    \/ Tick

Spec == Init /\ [][Next]_vars

\* Time passes, timers fire, a grant arrives, and a dial gets an answer.
FairSpec ==
    /\ Spec
    /\ WF_vars(Tick) /\ WF_vars(Coordinates)
    /\ \A s \in Shards : /\ WF_vars(Granted(s)) /\ WF_vars(StartTimesOut(s))
                         /\ WF_vars(Connects(s))

-----------------------------------------------------------------------------
(***************************************************************************)
(* Properties                                                              *)
(***************************************************************************)

\* One IDENTIFY per rate-limit key per interval (identify.ts:62), across the
\* starts and the reconnects of every cluster, and also when clusters die.
IdentifiesArePaced == crowded = {}

\* No more IDENTIFYs between two resets than the budget holds, but for the
\* slots that were handed out of the budget before.
WithinBudget == spent <= Total + carried

\* No missed wakeup: while somebody waits for a key that nobody holds, the one
\* timer is armed, and no later than that key is due or the budget resets.
TimerCoversWaiters ==
    \A k \in Wanted(co) :
        \E t \in co.timer : t <= Longest(co.rest[k], IF co.remaining = 0 THEN co.reset ELSE 0)

\* The parent and the shards agree: who waits or holds a slot is a live shard
\* that asked for it, so a dead cluster never blocks a key.
NoGhosts ==
    \A k \in Keys :
        /\ \A i \in DOMAIN co.queue[k] : shard[co.queue[k][i]].ask # "none"
        /\ co.holder[k] # Nobody =>
            \/ co.holder[k] \in granted
            \/ shard[co.holder[k]].starting

\* Every request for a slot is answered, however its predecessors fare.
EveryoneIsServed ==
    \A s \in Shards : shard[s].ask # "none" ~> shard[s].ask = "none"

\* The state is well typed, the budget is kept, and the timer covers whoever waits.
Inv == TypeOK /\ WithinBudget /\ TimerCoversWaiters

=============================================================================
