--------------------------- MODULE ClusterManager ---------------------------
(***************************************************************************)
(* The ClusterManager of packages/sharding/src/cluster.ts with its         *)
(* ShardSupervisor (supervisor.ts) and RequestTracker (requests.ts).       *)
(*                                                                         *)
(* The manager and the processes it forked are one record, m; a method is  *)
(* an operator from m to m, and an action is a call, an event or a timer   *)
(* with everything it runs.  A start that a stop made stale changes        *)
(* nothing any more (every await is followed by stale()), so only the      *)
(* start in force is kept; #shutdown still waits for a stale one           *)
(* ("draining").                                                           *)
(***************************************************************************)
EXTENDS Integers, FiniteSets, Sequences

CONSTANTS
    LastCluster,      \* clusters are 0..LastCluster, in the order they start
    Shards,
    Plan,             \* Plan[s]: the cluster that planClusters gives shard s
    HasLeader,        \* options.leader is set
    WaitForReady,     \* options.waitForReady
    Reassigns,        \* options.reassignOnGiveUp
    Coordinated,      \* IDENTIFY slots are asked from this manager
    MaxRestarts,      \* options.supervisor.maxRestarts
    Races,            \* windows in which the environment may act, see below
    Asks,             \* requests under way at a time
    MaxProcs,         \* bound: processes forked
    MaxFaults,        \* bound: crashes, failed forks, timeouts
    MaxEvents,        \* bound: faults and commands together
    MaxCommands       \* bound: spawn(), stops, respawns, requests, scale checks

\* "ready": a "ready" frame arrives after killAll() or a lost lock.  "scale": a
\* shard-count check is answered after a stop.  "lock": the leader's lock is
\* lost during a stop.  "stop": a stop is asked while a respawn is under way.
\* "again": spawn() is called again after a cluster gave up.  "late": somebody
\* begins to wait for readiness after one did.  "gap": a cluster becomes ready, or gives up,
\* while others are still to be launched.
RaceNames == {"ready", "scale", "lock", "stop", "again", "late", "gap"}

ASSUME ClusterAssumption ==
    /\ {LastCluster, MaxRestarts, MaxProcs, MaxFaults, MaxCommands,
         MaxEvents} \subseteq Nat
    /\ IsFiniteSet(Shards) /\ Plan \in [Shards -> 0..LastCluster]
    /\ {HasLeader, WaitForReady, Reassigns, Coordinated} \subseteq BOOLEAN
    /\ Races \subseteq RaceNames

VARIABLES
    m,          \* the manager and its processes
    frames,     \* "ready" frames on their way, with the shards they name
    wanted,     \* history: the application last asked for a fleet
    faults, commands

vars == <<m, frames, wanted, faults, commands>>

Clusters == 0..LastCluster
Pids == 1..MaxProcs
NoCluster == -1

States == {"unknown", "starting", "ready", "restarting", "failed", "stopping",
           "stopped"}
Info == [state: States, pid: 0..MaxProcs, shards: SUBSET Shards]
Process == [cluster: Clusters, shards: SUBSET Shards, told: {"run", "term", "kill"},
            state: {"running", "dead", "gone"}]
Timer == [cluster: Clusters, start: 0..MaxProcs + MaxFaults]

Unknown == [state |-> "unknown", pid |-> 0, shards |-> {}]

Manager ==
    [start: {"none", "leading", "gateway", "launching", "waiting", "done"},
     next: 0..LastCluster + 1,
     starts: 0..MaxProcs + MaxFaults,
     stopping: BOOLEAN,
     stop: {"none", "draining", "killing"},
     resigns: BOOLEAN,              \* the stop under way gives the lock back
     awaited: SUBSET Pids,          \* exits that the stop under way awaits
     queued: BOOLEAN,               \* a spawn() waits for the stop under way
     leading: BOOLEAN,
     scaling: BOOLEAN,              \* checkAutoScale awaits its answer
     info: [Clusters -> Info],
     owner: [Shards -> Clusters \cup {NoCluster}],
     up: SUBSET Clusters,           \* clusters
     timers: SUBSET Timer,          \* restartTimers
     crashes: [Clusters -> 0..MaxRestarts],
     waiters: SUBSET {"spawn", "user"},
     allReady: BOOLEAN,             \* set with the event "ready"
     asked: [Asks -> SUBSET Pids],  \* who still owes an answer to a request
     assigned: [Clusters -> 0..MaxProcs],
     procs: Seq(Process)]

TypeOK ==
    /\ m \in Manager /\ Len(m.procs) <= MaxProcs
    /\ frames \subseteq [pid: Pids, shards: SUBSET Shards]
    /\ wanted \in BOOLEAN
    /\ faults \in 0..MaxFaults /\ commands \in 0..MaxCommands

Init ==
    /\ m = [start |-> "none", next |-> 0, starts |-> 0, stopping |-> FALSE,
            stop |-> "none", resigns |-> FALSE, awaited |-> {}, queued |-> FALSE,
            leading |-> FALSE, scaling |-> FALSE,
            info |-> [c \in Clusters |-> Unknown],
            owner |-> [s \in Shards |-> NoCluster],
            up |-> {}, timers |-> {}, crashes |-> [c \in Clusters |-> 0],
            waiters |-> {}, allReady |-> FALSE, asked |-> [a \in Asks |-> {}],
            assigned |-> [c \in Clusters |-> 0], procs |-> <<>>]
    /\ frames = {} /\ wanted = FALSE /\ faults = 0 /\ commands = 0

-----------------------------------------------------------------------------
\* Readiness.

Live(state) == state \in {"starting", "ready"}

\* A cluster failed for good: it has shards, and nobody is asked to take them.
Hopeless(p, c) ==
    /\ p.info[c].state = "failed" /\ p.info[c].shards # {}
    /\ p.assigned[c] = 0

\* Mutant: a cluster that failed does not count.
IsReadyButFailed(p) ==
    /\ \E c \in Clusters : p.info[c].state = "ready"
    /\ \A c \in Clusters : p.info[c].state \in {"unknown", "ready", "failed"}

IsReady(p) ==
    /\ \E c \in Clusters : p.info[c].state = "ready"
    /\ \A c \in Clusters :
        \/ p.info[c].state \in {"unknown", "ready"}
        \/ p.info[c].state = "failed" /\ p.info[c].shards = {}

\* #checkReady: a start that waits goes on, and is done.
CheckReady(p) ==
    IF ~IsReady(p) THEN p
    ELSE [p EXCEPT !.waiters = {}, !.allReady = TRUE,
                   !.start = IF "spawn" \in p.waiters THEN "done" ELSE @]

\* Mutant: a cluster that gives up is not reported to who waits.
RejectNobody(p, c) == p

\* #rejectReady: a start that waits fails, and can be made again.
RejectReady(p, c) ==
    IF p.info[c].shards = {} THEN p
    ELSE [p EXCEPT !.waiters = {},
                   !.start = IF "spawn" \in p.waiters THEN "none" ELSE @]

-----------------------------------------------------------------------------
\* Requests.

\* sendFrame: a frame to a process that is dead, and has not exited yet for
\* the manager, is lost.
Reaches(p, c) == Live(p.info[c].state) /\ p.info[c].pid # 0

PidsOf(p, c) == {n \in DOMAIN p.procs : p.procs[n].cluster = c}

\* Reassignments that await an answer of cluster c.
AwaitAssign(p, c) == {f \in Clusters : p.assigned[f] \in PidsOf(p, c)}

\* A set of clusters whose reassignment failed; they keep their shards.
AssignFails(p, failed) ==
    LET q == [p EXCEPT !.assigned = [f \in Clusters |-> IF f \in failed THEN 0 ELSE @[f]]]
        reported == {f \in failed : p.info[f].shards # {}}
    IN  IF reported = {} THEN q ELSE RejectReady(q, CHOOSE f \in reported : TRUE)

\* Mutant: only the requests of the tracker's own kind fail.
FailNothing(p, c) == p

\* RequestTracker.failOwner: what cluster c owes is settled with an error.
FailOwner(p, c) ==
    AssignFails([p EXCEPT !.asked = [a \in Asks |-> @[a] \ PidsOf(p, c)]],
                AwaitAssign(p, c))

\* RequestTracker.close.
CloseTracker(p) ==
    [p EXCEPT !.asked = [a \in Asks |-> {}], !.assigned = [c \in Clusters |-> 0]]

\* request, broadcast: the clusters that cannot be reached fail at once.
SendAsk(p, a, clusters) ==
    [p EXCEPT !.asked[a] = {p.info[c].pid : c \in {d \in clusters : Reaches(p, d)}}]

-----------------------------------------------------------------------------
\* Launching and recovering.

\* The ready cluster with the fewest shards, the first of them.
Takers(p) == {c \in Clusters : p.info[c].state = "ready"}
Taker(p) ==
    CHOOSE c \in Takers(p) : \A d \in Takers(p) :
        \/ Cardinality(p.info[c].shards) < Cardinality(p.info[d].shards)
        \/ /\ Cardinality(p.info[c].shards) = Cardinality(p.info[d].shards)
           /\ c <= d

\* #reassign, up to the answer of the cluster that is asked.
Reassign(p, c) ==
    IF Takers(p) = {} \/ ~Reaches(p, Taker(p)) THEN RejectReady(p, c)
    ELSE [p EXCEPT !.assigned[c] = p.info[Taker(p)].pid]

\* Mutant: one restart too many.
RecoverOnceMore(p, c) ==
    IF p.crashes[c] > MaxRestarts
    THEN LET q == [p EXCEPT !.crashes[c] = 0, !.info[c].state = "failed"]
         IN  IF Reassigns THEN Reassign(q, c) ELSE RejectReady(q, c)
    ELSE [p EXCEPT !.crashes[c] = @ + 1, !.info[c].state = "restarting",
                   !.timers = @ \cup {[cluster |-> c, start |-> p.starts]}]

\* ShardSupervisor.next, #recover, #restartLater.
Recover(p, c) ==
    IF p.crashes[c] >= MaxRestarts
    THEN LET q == [p EXCEPT !.crashes[c] = 0, !.info[c].state = "failed"]
         IN  IF Reassigns THEN Reassign(q, c) ELSE RejectReady(q, c)
    ELSE [p EXCEPT !.crashes[c] = @ + 1, !.info[c].state = "restarting",
                   !.timers = @ \cup {[cluster |-> c, start |-> p.starts]}]

\* #launch: one process for the cluster's shards.
Fork(p, c, shards) ==
    [p EXCEPT !.procs = Append(@, [cluster |-> c, shards |-> shards,
                                   told |-> "run", state |-> "running"]),
              !.info[c] = [state |-> "starting", pid |-> Len(p.procs) + 1,
                           shards |-> shards],
              !.up = @ \cup {c}, !.allReady = FALSE]

\* #launchOrRecover: a fork that throws is a failed start.
LaunchOrRecover(p, c, shards, throws) ==
    IF ~throws THEN Fork(p, c, shards)
    ELSE Recover([p EXCEPT !.info[c] = [state |-> IF @.state = "unknown" THEN "starting"
                                                  ELSE @.state,
                                        pid |-> 0, shards |-> shards],
                           !.up = @ \ {c}, !.allReady = FALSE], c)

\* #start, the fleet that is planned once the gateway has answered.
PlanFleet(p) ==
    [p EXCEPT !.start = "launching", !.next = 0, !.starts = @ + 1,
              !.info = [c \in Clusters |-> Unknown],
              !.owner = [s \in Shards |-> NoCluster]]

\* #start, the next cluster; after the last one it waits for all, if asked to.
LaunchNext(p, throws) ==
    LET c == p.next
        mine == {s \in Shards : Plan[s] = c}
        q == LaunchOrRecover([p EXCEPT !.owner = [s \in Shards |->
                                             IF s \in mine THEN c ELSE @[s]]],
                             c, mine, throws) IN
    IF c < LastCluster THEN [q EXCEPT !.next = @ + 1]
    ELSE IF WaitForReady /\ ~IsReady(q)
         THEN [q EXCEPT !.next = 0, !.start = "waiting", !.waiters = @ \cup {"spawn"}]
         ELSE [q EXCEPT !.next = 0, !.start = "done"]

-----------------------------------------------------------------------------
\* Starting and stopping.

\* Mutant: a start that has ended is not remembered.
SpawnAnew(p) ==
    IF p.stop # "none" THEN [p EXCEPT !.queued = TRUE]
    ELSE IF p.start \notin {"none", "done"} THEN p
    ELSE [p EXCEPT !.start = IF HasLeader /\ ~p.leading THEN "leading" ELSE "gateway"]

\* spawn().
Spawn(p) ==
    IF p.stop # "none" THEN [p EXCEPT !.queued = TRUE]
    ELSE IF p.start # "none" THEN p
    ELSE [p EXCEPT !.start = IF HasLeader /\ ~p.leading THEN "leading" ELSE "gateway"]

\* #halt: everything that could start work, and everyone who waits.
Halt(p) ==
    [CloseTracker(p) EXCEPT !.start = "none", !.next = 0, !.waiters = {}, !.timers = {}]

Known(p) == {c \in Clusters : p.info[c].state # "unknown"}

Stopped(p) ==
    [p EXCEPT !.info = [c \in Clusters |-> IF c \in Known(p)
                                           THEN [@[c] EXCEPT !.state = "stopped"]
                                           ELSE @[c]],
              !.up = {}]

\* A signal to the processes that are still current, and run.
Signal(p, clusters, signal) ==
    [p EXCEPT !.procs = [n \in DOMAIN @ |->
        IF @[n].state = "running" /\ \E c \in clusters : p.info[c].pid = n
        THEN [@[n] EXCEPT !.told = signal] ELSE @[n]]]

\* #stop and #shutdown, up to the end of a start that is now stale.
Shutdown(p, resigns) ==
    IF p.stop # "none" THEN p
    ELSE [Halt(p) EXCEPT !.stopping = TRUE, !.stop = "draining", !.resigns = resigns]

\* killAll(): no grace, no waiting.
KillAll(p) ==
    [Stopped(Signal(Halt(p), Known(p), "term")) EXCEPT
        !.leading = FALSE, !.stopping = FALSE]

\* #standDown: the lock is lost; everything is killed, and led again.
StandDown(p) ==
    Spawn([Stopped(Signal(Halt(p), Known(p), "kill")) EXCEPT
             !.leading = FALSE, !.stopping = FALSE])

\* #shutdown, the signals to the live clusters.
EndClusters(p) ==
    [Signal(p, p.up, "term") EXCEPT
        !.stop = "killing",
        !.awaited = {p.info[c].pid : c \in p.up}
                    \cap {n \in DOMAIN p.procs : p.procs[n].state # "gone"},
        !.info = [c \in Clusters |-> IF c \in p.up
                                     THEN [@[c] EXCEPT !.state = "stopping"] ELSE @[c]]]

\* #shutdown, its end, and the spawn() calls that waited for it.
EndShutdown(p) ==
    LET q == [Stopped(p) EXCEPT !.stop = "none", !.awaited = {}, !.start = "none",
                                !.leading = IF p.resigns THEN FALSE ELSE @,
                                !.stopping = FALSE, !.queued = FALSE] IN
    IF p.queued THEN Spawn(q) ELSE q

\* respawn(): a stop that keeps the hosts and the lock, and a spawn().
Respawn(p) ==
    [Shutdown(p, FALSE) EXCEPT !.queued = TRUE, !.crashes = [c \in Clusters |-> 0]]


-----------------------------------------------------------------------------
\* Processes.

Pid(p) == DOMAIN p.procs

\* #current: the process is its cluster's process now.
Current(p, n) == p.info[p.procs[n].cluster].pid = n

\* #onControl, "ready".
OnReady(p, n, shards) ==
    LET c == p.procs[n].cluster IN
    IF ~Current(p, n) \/ ~(shards \subseteq p.info[c].shards) THEN p
    ELSE CheckReady([p EXCEPT !.info[c].state = "ready"])

\* Mutant: killAll() is not a deliberate stop.
ExpectedOfShutdown(p, c) == p.stopping \/ p.info[c].state = "stopping"

\* #onExit: whether the exit was asked for.
Expected(p, c) == p.stopping \/ p.info[c].state \in {"stopping", "stopped"}

\* #onExit.
OnExit(p, n) ==
    LET c == p.procs[n].cluster
        q == [p EXCEPT !.procs[n].state = "gone", !.awaited = @ \ {n}]
        r == [FailOwner(q, c) EXCEPT !.up = @ \ {c}, !.allReady = FALSE] IN
    IF ~Current(p, n) THEN q
    ELSE IF Expected(p, c) THEN [r EXCEPT !.info[c].state = "stopped"]
    ELSE Recover(r, c)

\* Mutant: the failed cluster keeps the shards it lost.
MoveShardsKeepsBoth(p, c, taker) ==
    [p EXCEPT !.assigned[c] = 0,
              !.info[taker].shards = @ \cup p.info[c].shards,
              !.owner = [s \in Shards |-> IF s \in p.info[c].shards THEN taker ELSE @[s]]]

\* #reassign, once the taker has confirmed.
MoveShards(p, c, taker) ==
    [p EXCEPT !.assigned[c] = 0,
              !.info[taker].shards = @ \cup p.info[c].shards,
              !.info[c].shards = {},
              !.owner = [s \in Shards |-> IF s \in p.info[c].shards THEN taker ELSE @[s]]]

\* The timer of #restartLater.
RestartFires(p, t, throws) ==
    LET q == [p EXCEPT !.timers = @ \ {t}]
        c == t.cluster IN
    IF p.stopping \/ (t.start = p.starts /\ p.info[c].state # "restarting") THEN q
    ELSE LaunchOrRecover(q, c, p.info[c].shards, throws)

-----------------------------------------------------------------------------
\* Actions.

Room == Len(m.procs) < MaxProcs
Eventful == commands + faults < MaxEvents
Command == Eventful /\ commands < MaxCommands /\ commands' = commands + 1
Fault == Eventful /\ faults < MaxFaults /\ faults' = faults + 1
Allows(race) == race \in Races

\* A fork may throw (EAGAIN, a bad path).
Forks(throws) == IF throws THEN Fault ELSE Room /\ UNCHANGED faults

CallSpawn ==
    /\ Command /\ m' = Spawn(m) /\ wanted' = TRUE
    /\ Allows("again") \/ ~\E c \in Clusters : m.info[c].state = "failed"
    /\ UNCHANGED <<frames, faults>>

CallShutdown ==
    /\ Command /\ m' = Shutdown(m, TRUE) /\ wanted' = FALSE
    /\ Allows("stop") \/ ~m.queued
    /\ UNCHANGED <<frames, faults>>

CallKill ==
    /\ Command /\ m' = KillAll(m) /\ wanted' = FALSE
    /\ Allows("stop") \/ ~m.queued
    /\ UNCHANGED <<frames, faults>>

CallRespawn ==
    /\ Command /\ m' = Respawn(m) /\ wanted' = TRUE
    /\ UNCHANGED <<frames, faults>>

\* ready().
CallReady ==
    /\ ~IsReady(m)
    /\ Allows("late") \/ ~\E c \in Clusters : Hopeless(m, c)
    /\ m' = [m EXCEPT !.waiters = @ \cup {"user"}]
    /\ UNCHANGED <<frames, wanted, faults, commands>>

\* request() to a cluster, or broadcast() to all of them.
CallAsk(a) ==
    /\ m.asked[a] = {} /\ Command
    /\ \E clusters \in {Clusters} \cup {{c} : c \in Clusters} : m' = SendAsk(m, a, clusters)
    /\ UNCHANGED <<frames, wanted, faults>>

\* #lead.
Lead ==
    /\ m.start = "leading"
    /\ m' = [m EXCEPT !.leading = TRUE, !.start = "gateway"]
    /\ UNCHANGED <<frames, wanted, faults, commands>>

\* #startRenewing: the lock cannot be renewed.
LoseLock ==
    /\ m.leading /\ Fault
    /\ Allows("lock") \/ m.stop = "none"
    /\ m' = StandDown(m)
    /\ UNCHANGED <<frames, wanted, commands>>

\* A start does not begin to wait for a cluster that has given up already.
InTime(p) == Allows("late") \/ p.start # "waiting" \/ ~\E c \in Clusters : Hopeless(p, c)

GatewayAnswers ==
    /\ m.start = "gateway"
    /\ \E throws \in BOOLEAN : Forks(throws) /\ m' = LaunchNext(PlanFleet(m), throws)
    /\ InTime(m')
    /\ UNCHANGED <<frames, wanted, commands>>

GatewayFails ==
    /\ m.start = "gateway" /\ Fault
    /\ m' = [m EXCEPT !.start = "none"]
    /\ UNCHANGED <<frames, wanted, commands>>

SpawnsNext ==
    /\ m.start = "launching"
    /\ \E throws \in BOOLEAN : Forks(throws) /\ m' = LaunchNext(m, throws)
    /\ InTime(m')
    /\ UNCHANGED <<frames, wanted, commands>>

\* Every shard of the worker is ready.
WorkerReady(n) ==
    /\ n \in Pid(m) /\ m.procs[n].state = "running"
    /\ Allows("gap") \/ m.start # "launching"
    /\ frames' = frames \cup {[pid |-> n, shards |-> m.procs[n].shards]}
    /\ UNCHANGED <<m, wanted, faults, commands>>

ReadyArrives(f) ==
    /\ m.procs[f.pid].state # "gone"
    /\ \/ Allows("ready") \/ ~Current(m, f.pid)
       \/ m.info[m.procs[f.pid].cluster].state # "stopped"
    /\ frames' = frames \ {f} /\ m' = OnReady(m, f.pid, f.shards)
    /\ UNCHANGED <<wanted, faults, commands>>

Dies(n) ==
    /\ n \in Pid(m) /\ m.procs[n].state = "running"
    /\ IF m.procs[n].told = "run" THEN Fault ELSE UNCHANGED faults
    /\ m' = [m EXCEPT !.procs[n].state = "dead"]
    /\ UNCHANGED <<frames, wanted, commands>>

Exits(n) ==
    /\ n \in Pid(m) /\ m.procs[n].state = "dead"
    /\ m' = OnExit(m, n)
    /\ frames' = {f \in frames : f.pid # n}
    /\ UNCHANGED <<wanted, faults, commands>>

\* A worker answers a request: RequestTracker.answer.
Answers(a, n) ==
    /\ n \in m.asked[a] /\ m.procs[n].state # "gone"
    /\ m' = IF Current(m, n) THEN [m EXCEPT !.asked[a] = @ \ {n}] ELSE m
    /\ UNCHANGED <<frames, wanted, faults, commands>>

RequestTimesOut(a) ==
    /\ m.asked[a] # {} /\ m' = [m EXCEPT !.asked[a] = {}]
    /\ UNCHANGED <<frames, wanted, faults, commands>>

\* The taker starts the shards; with coordinated IDENTIFYs it is denied the
\* slots, which go to the owner of a shard only.
TakerStarts(c) ==
    LET n == m.assigned[c] IN
    /\ n # 0 /\ ~Coordinated /\ m.procs[n].state = "running"
    /\ m' = [m EXCEPT !.procs[n].shards = @ \cup m.info[c].shards]
    /\ UNCHANGED <<frames, wanted, faults, commands>>

TakerConfirms(c) ==
    LET n == m.assigned[c] IN
    /\ n # 0 /\ m.procs[n].state # "gone" /\ Current(m, n)
    /\ m.info[c].shards \subseteq m.procs[n].shards
    /\ m' = IF m.stopping \/ m.info[c].state # "failed"
            THEN [m EXCEPT !.assigned[c] = 0]
            ELSE CheckReady(MoveShards(m, c, m.procs[n].cluster))
    /\ UNCHANGED <<frames, wanted, faults, commands>>

\* The taker refuses, or does not answer in time.
TakerFails(c) ==
    /\ m.assigned[c] # 0
    /\ m' = AssignFails(m, {c})
    /\ UNCHANGED <<frames, wanted, faults, commands>>

Restarts(t) ==
    /\ Allows("gap") \/ m.start # "launching"
    /\ \E throws \in BOOLEAN : Forks(throws) /\ m' = RestartFires(m, t, throws)
    /\ UNCHANGED <<frames, wanted, commands>>

\* The timer of #launch, options.startTimeout.
StartTimesOut(c) ==
    LET n == m.info[c].pid IN
    /\ n # 0 /\ m.info[c].state = "starting" /\ Fault
    /\ m.procs[n].state = "running" /\ m.procs[n].told = "run"
    /\ m' = Signal(m, {c}, "kill")
    /\ UNCHANGED <<frames, wanted, commands>>

\* A cluster ran for a whole window: its crashes are forgiven.
Forgives(c) ==
    /\ Live(m.info[c].state) /\ m.crashes[c] > 0
    /\ m' = [m EXCEPT !.crashes[c] = 0]
    /\ UNCHANGED <<frames, wanted, faults, commands>>

\* checkAutoScale: the timer, and the answer, when the count has changed.
ScaleAsks ==
    /\ m.start = "done" /\ ~m.scaling /\ Command
    /\ m' = [m EXCEPT !.scaling = TRUE]
    /\ UNCHANGED <<frames, wanted, faults>>

ScaleAnswers ==
    /\ m.scaling
    /\ Allows("scale") \/ wanted
    /\ m' = [Respawn(m) EXCEPT !.scaling = FALSE]
    /\ UNCHANGED <<frames, wanted, faults, commands>>

\* #shutdown: the start that it made stale has ended.
Drains ==
    /\ m.stop = "draining" /\ m' = EndClusters(m)
    /\ UNCHANGED <<frames, wanted, faults, commands>>

\* Mutant: SIGTERM is sent again, and SIGKILL never.
GraceIsGiven(n) ==
    /\ n \in m.awaited /\ m.procs[n].told = "run"
    /\ m' = [m EXCEPT !.procs[n].told = "term"]
    /\ UNCHANGED <<frames, wanted, faults, commands>>

\* #shutdownCluster: the grace period is over.
GraceEnds(n) ==
    /\ n \in m.awaited /\ m.procs[n].told # "kill"
    /\ m' = [m EXCEPT !.procs[n].told = "kill"]
    /\ UNCHANGED <<frames, wanted, faults, commands>>

ShutdownEnds ==
    /\ m.stop = "killing" /\ m.awaited = {}
    /\ m' = EndShutdown(m)
    /\ UNCHANGED <<frames, wanted, faults, commands>>

Next ==
    \/ CallSpawn \/ CallShutdown \/ CallKill \/ CallRespawn \/ CallReady
    \/ Lead \/ LoseLock \/ GatewayAnswers \/ GatewayFails \/ SpawnsNext
    \/ ScaleAsks \/ ScaleAnswers \/ Drains \/ ShutdownEnds
    \/ \E a \in Asks : CallAsk(a) \/ RequestTimesOut(a)
    \/ \E a \in Asks, n \in Pids : Answers(a, n)
    \/ \E n \in Pids : WorkerReady(n) \/ Dies(n) \/ Exits(n) \/ GraceEnds(n)
    \/ \E f \in frames : ReadyArrives(f)
    \/ \E t \in m.timers : Restarts(t)
    \/ \E c \in Clusters : \/ StartTimesOut(c) \/ Forgives(c)
                          \/ TakerStarts(c) \/ TakerConfirms(c) \/ TakerFails(c)

\* A start that is stale ends, timers fire, and the system ends processes that
\* are killed and reports their exits.
Fairness ==
    WF_vars(\/ Drains \/ ShutdownEnds
            \/ \E n \in Pids : GraceEnds(n) \/ Exits(n) \/ (Dies(n) /\ m.procs[n].told = "kill"))

Spec == Init /\ [][Next]_vars /\ Fairness

-----------------------------------------------------------------------------
(***************************************************************************)
(* Properties.                                                             *)
(***************************************************************************)

\* No shard runs in two processes that nobody has told to end: a process is
\* only replaced once it has exited, and a shard only moves from a dead one.
OneProcess ==
    \A n, k \in Pid(m) :
        /\ n # k
        /\ m.procs[n].state = "running" /\ m.procs[n].told = "run"
        /\ m.procs[k].state = "running" /\ m.procs[k].told = "run"
        => m.procs[n].shards \cap m.procs[k].shards = {}

\* A deliberate stop is final: nothing is forked until the application asks
\* for a fleet again, whatever timers, answers and exits were on their way.
StopsForGood == [][Len(m'.procs) > Len(m.procs) => wanted]_vars

\* The manager's two views of ownership agree: a shard is in the list of the
\* cluster that requests to it are sent to, and in no other.
OwnersAgree ==
    \A s \in Shards, c \in Clusters :
        s \in m.info[c].shards <=> m.owner[s] = c

\* A request waits only for processes that can still answer it, or whose exit
\* will settle it; a reassignment likewise.
AskedCanAnswer ==
    /\ \A a \in Asks : \A n \in m.asked[a] :
        Current(m, n) /\ m.procs[n].state # "gone"
    /\ \A c \in Clusters : m.assigned[c] # 0 =>
        /\ Current(m, m.assigned[c]) /\ m.procs[m.assigned[c]].state # "gone"
        /\ m.info[c].state = "failed"

\* Nobody waits for readiness that cannot come: a cluster that failed for good
\* rejects who waits, and a cluster that is to come back has its timer.
NobodyWaitsInVain ==
    /\ m.waiters # {} => \A c \in Clusters : ~Hopeless(m, c)
    /\ \A c \in Clusters :
        m.info[c].state = "restarting" /\ m.stop = "none" =>
            \E t \in m.timers : t.cluster = c /\ t.start = m.starts

\* The fleet is announced ready, outside a stop, only when every shard has an
\* owner that is.
ReadyMeansServed ==
    [][~m.allReady /\ m'.allReady /\ ~m.stopping =>
        \A s \in Shards : m'.owner[s] # NoCluster /\ m'.info[m'.owner[s]].state = "ready"]_vars

\* shutdownAll() settles.
StopEnds == m.stop # "none" ~> m.stop = "none"

\* The state is well typed, the owners of the shards agree, whoever was asked can answer,
\* and nobody waits in vain.
Inv == TypeOK /\ OwnersAgree /\ AskedCanAnswer /\ NobodyWaitsInVain

=============================================================================
