---------------------------- MODULE RemoteHosts ----------------------------
(***************************************************************************)
(* Clusters on other machines: RemoteHosts (packages/sharding/src/         *)
(* remote.ts) with the part of ClusterManager that places, restarts and    *)
(* moves clusters (cluster.ts), and the agents of the hosts, ClusterHost   *)
(* (host.ts).                                                              *)
(*                                                                         *)
(* Time advances in ticks of a third of the lease, the interval of the     *)
(* pings and of the hosts' watchdogs.  A message arrives within a tick or  *)
(* is lost with its connection; a SIGKILL takes effect within one.  Pings  *)
(* and pongs of a connection that works are part of the tick.              *)
(***************************************************************************)
EXTENDS Integers, FiniteSets, Sequences

CONSTANTS
    LastHost,       \* hosts are 1..LastHost; their IDs sort in this order
    Clusters,       \* cluster numbers
    Lease,          \* in ticks: 3, or more for a finer clock
    Moves,          \* remote.moveClusters
    MinHosts,       \* remote.minHosts
    Hasty,          \* a fleet may be placed while the last one still runs on a
                    \* host that was lost, or that does not report its exit
    MaxEpoch,       \* bound: processes asked for by one coordinator
    MaxFaults,      \* bound: lost connections and hosts, dead workers, kills
    MaxTakeovers,   \* bound: coordinators that follow one another
    MaxRespawns,    \* bound: respawn()
    MaxEvents       \* bound: all of these together

ASSUME RemoteAssumption ==
    /\ {LastHost, Lease, MinHosts, MaxEpoch} \subseteq Nat \ {0}
    /\ Clusters \in SUBSET Nat /\ IsFiniteSet(Clusters)
    /\ {MaxFaults, MaxTakeovers, MaxRespawns, MaxEvents} \subseteq Nat
    /\ {Moves, Hasty} \subseteq BOOLEAN

VARIABLES
    phase,      \* the coordinator: what its start, or its stop, is at
    guard,      \* ticks left of the wait of a new leader
    epoch,      \* RemoteHosts.#epoch
    info,       \* the coordinator's clusters, with hostOf
    link,       \* RemoteHosts.#links and #droppedAt
    host,       \* the hosts' connections
    procs,      \* the processes of all hosts: ClusterHost.#running
    wire,       \* the WebSockets between the two
    count       \* bounded counters

coordinator == <<phase, guard, epoch, info, link>>
remoteVars == <<phase, guard, epoch, info, link, host, procs, wire, count>>

Hosts == 1..LastHost
Nowhere == 0
NoCluster == -1

Info == [state: {"none", "live", "restarting", "fencing", "stopping",
                "killing", "failed"},
         place: Hosts \cup {Nowhere}, epoch: 0..MaxEpoch,
         child: BOOLEAN,            \* its RemoteChild has not finished
         hold: 0..2 * Lease]        \* ticks left of the wait in #fencing
Link == [up: BOOLEAN, seen: 0..2 * Lease + 1, dropped: -1..2 * Lease]
Host == [conn: {"none", "opening", "joined"}, rx: 0..Lease + 1]
Process == [host: Hosts, cluster: Clusters, epoch: 1..MaxEpoch,
            told: {"run", "term", "kill"},
            reply: BOOLEAN]         \* it was spawned over the present socket
Message == [t: {"welcome", "ping", "bye", "spawn", "term", "kill",
                "exit"},
            cluster: Clusters \cup {NoCluster}, epoch: 0..MaxEpoch, old: BOOLEAN]
Wire == [state: {"none", "good", "cut", "closing", "left"},
         down: Seq(Message), up: Seq(Message)]

RemoteTypeOK ==
    /\ phase \in {"down", "guarding", "joining", "running", "stopping"}
    /\ guard \in 0..2 * Lease
    /\ epoch \in 0..MaxEpoch
    /\ info \in [Clusters -> Info]
    /\ link \in [Hosts -> Link]
    /\ host \in [Hosts -> Host]
    /\ procs \subseteq Process
    /\ wire \in [Hosts -> Wire]
    /\ count \in [faults: 0..MaxFaults, takeovers: 0..MaxTakeovers, respawns: 0..MaxRespawns]

NewInfo == [c \in Clusters |-> [state |-> "none", place |-> Nowhere, epoch |-> 0,
                                child |-> FALSE, hold |-> 0]]
NewLink == [up |-> FALSE, seen |-> 0, dropped |-> -1]
NewWire == [state |-> "none", down |-> <<>>, up |-> <<>>]

RemoteInit ==
    /\ phase = "joining" /\ guard = 0 /\ epoch = 0
    /\ info = NewInfo
    /\ link = [h \in Hosts |-> NewLink]
    /\ host = [h \in Hosts |-> [conn |-> "none", rx |-> 0]]
    /\ procs = {}
    /\ wire = [h \in Hosts |-> NewWire]
    /\ count = [faults |-> 0, takeovers |-> 0, respawns |-> 0]

-----------------------------------------------------------------------------
\* Messages.

Msg(t, c, e) == [t |-> t, cluster |-> c, epoch |-> e, old |-> FALSE]
Plain(t) == Msg(t, NoCluster, 0)

\* What is posted to a connection that is gone reaches nobody.
Down(w, messages) == IF w.state = "good" THEN [w EXCEPT !.down = @ \o messages] ELSE w
Up(w, message) == IF w.state = "good" THEN [w EXCEPT !.up = Append(@, message)] ELSE w

Connected == {h \in Hosts : link[h].up}

\* The elements of a set of numbers, in their order.
Rank(S, n) == Cardinality({k \in S : k < n})
Ascending(S) == [i \in 1..Cardinality(S) |-> CHOOSE n \in S : Rank(S, n) = i - 1]

-----------------------------------------------------------------------------
\* Launching: operators on the coordinator and the wires.

Now == [epoch |-> epoch, info |-> info, link |-> link, wire |-> wire]

Becomes(s) ==
    /\ epoch' = s.epoch /\ info' = s.info /\ link' = s.link /\ wire' = s.wire

\* #recover at epoch e: the supervisor gives up in the end (here with the epochs).
Recovered(i, e) == [i EXCEPT !.child = FALSE, !.hold = 0,
                             !.state = IF e < MaxEpoch THEN "restarting" ELSE "failed"]

\* #launch and RemoteHosts.createChild, for the clusters of S in their order: each
\* takes the next epoch.  With no connection to the host, the child exits at once.
Launch(s, S) ==
    LET number(c) == s.epoch + 1 + Rank(S, c)
        begun == {c \in S : number(c) <= MaxEpoch}
        asked(h) == Ascending({c \in begun : s.info[c].place = h})
        asks(h) == [i \in DOMAIN asked(h) |-> Msg("spawn", asked(h)[i], number(asked(h)[i]))]
        launched(i, e) ==
            IF s.link[i.place].up
            THEN [i EXCEPT !.state = "live", !.epoch = e, !.child = TRUE, !.hold = 0]
            ELSE Recovered([i EXCEPT !.epoch = e], e)
    IN  [s EXCEPT !.epoch = IF @ + Cardinality(S) < MaxEpoch THEN @ + Cardinality(S)
                            ELSE MaxEpoch,
                  !.info = [c \in Clusters |->
                               IF c \in begun THEN launched(@[c], number(c))
                               ELSE IF c \in S THEN Recovered(@[c], MaxEpoch) ELSE @[c]],
                  !.wire = [h \in Hosts |-> Down(@[h], asks(h))]]

\* Mutant: the wait starts when somebody asks.
FenceWaitAnew(s, h) == IF s.link[h].up \/ s.link[h].dropped = -1 THEN 0 ELSE 2 * Lease

\* Mutant: the host is trusted to fence within one lease.
FenceWaitShort(s, h) ==
    IF s.link[h].up \/ s.link[h].dropped \in {-1} \cup Lease..2 * Lease
    THEN 0 ELSE Lease - s.link[h].dropped

\* fencedAt: the ticks until the workers of a lost host are certainly gone.
FenceWait(s, h) ==
    IF s.link[h].up \/ s.link[h].dropped = -1 THEN 0
    ELSE 2 * Lease - s.link[h].dropped

\* #relocate: the connected host that runs the fewest clusters.
Load(s, h) ==
    Cardinality({c \in Clusters : s.info[c].place = h /\ s.info[c].state # "failed"})
BestPlace(s) ==
    LET up == {h \in Hosts : s.link[h].up} IN
    CHOOSE h \in up : \A k \in up :
        Load(s, h) < Load(s, k) \/ (Load(s, h) = Load(s, k) /\ h <= k)

\* The timer of #restartLater: a lost host is waited for, then left.
Restart(s, c) ==
    LET h == s.info[c].place IN
    IF s.link[h].up \/ ~Moves THEN Launch(s, {c})
    ELSE IF FenceWait(s, h) > 0
         THEN [s EXCEPT !.info[c] = [@ EXCEPT !.state = "fencing", !.hold = FenceWait(s, h)]]
    ELSE IF \A k \in Hosts : ~s.link[k].up THEN Launch(s, {c})
    ELSE Launch([s EXCEPT !.info[c].place = BestPlace(s)], {c})

\* #onExit, for the clusters of S.
OnExit(s, S) ==
    [s EXCEPT !.info = [c \in Clusters |->
        IF c \notin S THEN @[c]
        ELSE IF @[c].state \in {"stopping", "killing"} THEN [@[c] EXCEPT !.child = FALSE]
        ELSE Recovered(@[c], s.epoch)]]

\* #drop: every worker the host ran is over, for the coordinator.  A ping may
\* still be on its way to the host.
Drop(s, h) ==
    LET ran == {c \in Clusters : s.info[c].child /\ s.info[c].place = h}
        w == s.wire[h]
        after == CASE w.state = "good" -> [state |-> "closing", up |-> <<>>,
                                           down |-> Append(w.down, Plain("ping"))]
                   [] w.state = "left" -> NewWire
                   [] OTHER -> [w EXCEPT !.up = <<>>]
    IN  OnExit([s EXCEPT !.link[h] = [up |-> FALSE, seen |-> 0, dropped |-> 0],
                         !.wire[h] = after],
               ran)

\* The coordinator's end of every connection goes: with a word, as stop() does,
\* closed by its system, or in silence.
Goodbyes(how) ==
    [h \in Hosts |->
        IF ~link[h].up THEN wire[h]
        ELSE CASE wire[h].state = "left" -> NewWire
               [] wire[h].state = "good" ->
                    [state |-> IF how = "silence" THEN "cut" ELSE "closing", up |-> <<>>,
                     down |-> Append(wire[h].down, Plain(IF how = "bye" THEN how ELSE "ping"))]
               [] OTHER -> [wire[h] EXCEPT !.up = <<>>]]

-----------------------------------------------------------------------------
\* The host.

\* #fence.
Fenced(h) == {IF p.host = h THEN [p EXCEPT !.told = "kill"] ELSE p : p \in procs}

\* #lost: the host fences, and its workers answer nobody.
Lost(h) ==
    /\ procs' = {IF p.host = h THEN [p EXCEPT !.told = "kill", !.reply = FALSE] ELSE p
                    : p \in procs}
    /\ host' = [host EXCEPT ![h] = [conn |-> "none", rx |-> 0]]
    /\ wire' = [wire EXCEPT ![h] =
                    IF @.state = "good" THEN [@ EXCEPT !.state = "left", !.down = <<>>]
                    ELSE IF link[h].up THEN [@ EXCEPT !.down = <<>>]
                    ELSE NewWire]

RunsHere(h, c) == \E p \in procs : p.host = h /\ p.cluster = c

\* #message, "spawn": a cluster that runs here is not spawned again.
OnSpawn(h, c, e, w) ==
    IF RunsHere(h, c)
    THEN procs' = procs /\ wire' = [w EXCEPT ![h] = Up(@, Msg("exit", c, e))]
    ELSE /\ procs' = procs \cup {[host |-> h, cluster |-> c, epoch |-> e,
                                  told |-> "run", reply |-> TRUE]}
         /\ wire' = w

\* #message, "kill".
OnKill(h, m) ==
    procs' = {IF p.host = h /\ p.cluster = m.cluster /\ p.epoch = m.epoch
                 /\ p.told # "kill"
              THEN [p EXCEPT !.told = m.t] ELSE p : p \in procs}

-----------------------------------------------------------------------------
\* Actions.

Count(what, bound) ==
    /\ count[what] < bound /\ count.faults + count.takeovers + count.respawns < MaxEvents
    /\ count' = [count EXCEPT ![what] = @ + 1]
Fault == Count("faults", MaxFaults)

Listening == phase \in {"joining", "running", "stopping"}

\* #hello: clusters that wait for this host to fence start on it.
Joins(h) ==
    /\ Listening /\ ~link[h].up /\ host[h].conn = "none"
    /\ host' = [host EXCEPT ![h] = [conn |-> "opening", rx |-> 0]]
    /\ LET s == [Now EXCEPT !.link[h] = [up |-> TRUE, seen |-> 0, dropped |-> -1],
                            !.wire[h] = [state |-> "good", up |-> <<>>,
                                         down |-> <<Plain("welcome")>>]]
       IN  Becomes(Launch(s, {c \in Clusters : info[c].state = "fencing" /\ info[c].place = h}))
    /\ UNCHANGED <<phase, guard, procs, count>>

\* No process runs the cluster, nor is to be started for it.
Gone(c) ==
    /\ \A p \in procs : p.cluster # c
    /\ \A h \in Hosts : \A i \in DOMAIN wire[h].down :
        wire[h].down[i].t = "spawn" => wire[h].down[i].cluster # c

\* #placeHosts and #start: clusters go round the hosts that have joined.
Places ==
    /\ phase = "joining" /\ Cardinality(Connected) >= MinHosts
    /\ phase' = "running"
    /\ LET places == Ascending(Connected)
           s == [Now EXCEPT !.info = [c \in Clusters |->
                    [NewInfo[c] EXCEPT !.place = places[1 + (c % Len(places))]]]]
       IN  Becomes(Launch(s, Clusters))
    /\ UNCHANGED <<guard, host, procs, count>>

HostReceives(h) ==
    /\ host[h].conn # "none" /\ wire[h].down # <<>>
    /\ LET m == Head(wire[h].down)
           w == [wire EXCEPT ![h].down = Tail(@)]
       IN  /\ host' = [host EXCEPT ![h] = [conn |-> IF m.t = "welcome" THEN "joined" ELSE @.conn,
                                           rx |-> 0]]
           /\ CASE m.t = "spawn" -> OnSpawn(h, m.cluster, m.epoch, w)
                [] m.t \in {"term", "kill"} -> OnKill(h, m) /\ wire' = w
                [] m.t = "bye" -> procs' = Fenced(h) /\ wire' = w
                [] OTHER -> procs' = procs /\ wire' = w
    /\ UNCHANGED <<coordinator, count>>

\* Mutant: the frame is of the cluster's process, whichever it was.
IsCurrentCluster(h, m) ==
    info[m.cluster].child /\ info[m.cluster].place = h

\* #message: the frame is of the process the cluster runs now.
IsCurrent(h, m) ==
    info[m.cluster].child /\ info[m.cluster].place = h /\ info[m.cluster].epoch = m.epoch

CoordinatorReceives(h) ==
    /\ link[h].up /\ wire[h].up # <<>>
    /\ LET m == Head(wire[h].up)
           s == [Now EXCEPT !.wire[h].up = Tail(@), !.link[h].seen = 0]
       IN  Becomes(IF IsCurrent(h, m) THEN OnExit(s, {m.cluster}) ELSE s)
    /\ UNCHANGED <<phase, guard, host, procs, count>>

\* The close of a connection reaches the coordinator, or it has been silent.
Closes(h) ==
    /\ link[h].up
    /\ \/ wire[h].state = "left" /\ wire[h].up = <<>>
       \/ wire[h].state = "cut"
    /\ Becomes(Drop(Now, h))
    /\ UNCHANGED <<phase, guard, host, procs, count>>

\* The close reaches the host, or its watchdog has found the silence.
HostLoses(h) ==
    /\ host[h].conn # "none"
    /\ \/ wire[h].state = "closing" /\ wire[h].down = <<>>
       \/ wire[h].state = "cut"
    /\ Lost(h)
    /\ UNCHANGED <<coordinator, count>>

\* Mutant: the watchdog allows two leases of silence.
SilentForTwo(h) == host[h].conn = "joined" /\ host[h].rx > 2 * Lease

\* #startWatchdog: more than a lease of silence.
Silent(h) == host[h].conn = "joined" /\ host[h].rx > Lease

WatchdogFires(h) ==
    /\ Silent(h) /\ Lost(h)
    /\ UNCHANGED <<coordinator, count>>

HostLeaves(h) ==
    /\ host[h].conn # "none" /\ wire[h].state = "good" /\ Fault
    /\ Lost(h)
    /\ UNCHANGED coordinator

\* The network is cut: neither end hears of it; a last ping may arrive.
Cut(h) ==
    /\ wire[h].state \in {"good", "closing"} /\ Fault
    /\ wire' = [wire EXCEPT ![h] = [Down(@, <<Plain("ping")>>) EXCEPT !.state = "cut"]]
    /\ UNCHANGED <<coordinator, host, procs>>

\* What was on its way over a cut connection is lost.
LosesMessages(h) ==
    /\ wire[h].state = "cut" /\ (wire[h].down # <<>> \/ wire[h].up # <<>>)
    /\ wire' = [wire EXCEPT ![h] = [@ EXCEPT !.down = <<>>, !.up = <<>>]]
    /\ UNCHANGED <<coordinator, host, procs, count>>

\* A process ends: killed, told to, or by itself.
Ends(p) ==
    /\ IF p.told = "run" THEN Fault ELSE UNCHANGED count
    /\ procs' = procs \ {p}
    /\ wire' = IF p.reply THEN [wire EXCEPT ![p.host] = Up(@, Msg("exit", p.cluster, p.epoch))]
              ELSE wire
    /\ UNCHANGED <<coordinator, host>>

\* The clusters of S are told to end, in their order.
Kill(s, S, t) ==
    LET told(h) == Ascending({c \in S : s.info[c].place = h})
    IN  [s EXCEPT !.wire = [h \in Hosts |->
            Down(@[h], [i \in DOMAIN told(h) |-> Msg(t, told(h)[i], s.info[told(h)[i]].epoch)])]]

\* #launch: the start timeout.
StartTimesOut(c) ==
    /\ info[c].state = "live" /\ Fault
    /\ Becomes(Kill(Now, {c}, "kill"))
    /\ UNCHANGED <<phase, guard, host, procs>>

Restarts(c) ==
    /\ phase = "running"
    /\ \/ info[c].state = "restarting"
       \/ info[c].state = "fencing" /\ info[c].hold = 0
    /\ Becomes(Restart(Now, c))
    /\ UNCHANGED <<phase, guard, host, procs, count>>

\* respawn(): the hosts stay connected, every worker is told to end.
Respawn ==
    /\ phase = "running" /\ Count("respawns", MaxRespawns)
    /\ phase' = "stopping"
    /\ LET s == [Now EXCEPT !.info = [c \in Clusters |->
                    [@[c] EXCEPT !.state = IF info[c].child THEN "stopping" ELSE "none"]]]
       IN  Becomes(Kill(s, {c \in Clusters : info[c].child}, "term"))
    /\ UNCHANGED <<guard, host, procs>>

GraceEnds(c) ==
    /\ info[c].state = "stopping" /\ info[c].child
    /\ Becomes(Kill([Now EXCEPT !.info[c].state = "killing"], {c}, "kill"))
    /\ UNCHANGED <<phase, guard, host, procs, count>>

\* #shutdownCluster: an exit that is never reported is not waited for.
GivesUp(c) ==
    /\ info[c].state = "killing" /\ info[c].child
    /\ Hasty \/ Gone(c)
    /\ info' = [info EXCEPT ![c].child = FALSE]
    /\ UNCHANGED <<phase, guard, epoch, link, host, procs, wire, count>>

StopEnds ==
    /\ phase = "stopping" /\ \A c \in Clusters : ~info[c].child
    /\ Hasty \/ \A c \in Clusters : Gone(c)
    /\ phase' = "joining"
    /\ UNCHANGED <<guard, epoch, info, link, host, procs, wire, count>>

\* The coordinator stands down, is stopped, or dies.
Falls ==
    /\ phase # "down" /\ Count("takeovers", MaxTakeovers)
    /\ phase' = "down" /\ guard' = 0 /\ epoch' = 0 /\ info' = NewInfo
    /\ link' = [h \in Hosts |-> NewLink]
    /\ \E how \in {"bye", "close", "silence"} : wire' = Goodbyes(how)
    /\ UNCHANGED <<host, procs>>

\* #lead: a new leader waits for the hosts of the last one.
TakesOver ==
    /\ phase = "down"
    /\ phase' = "guarding" /\ guard' = 2 * Lease
    /\ UNCHANGED <<epoch, info, link, host, procs, wire, count>>

Listens ==
    /\ phase = "guarding" /\ guard = 0
    /\ phase' = "joining"
    /\ UNCHANGED <<guard, epoch, info, link, host, procs, wire, count>>

\* What has to happen before more time goes by.
Overdue ==
    \/ \E p \in procs : p.told = "kill"
    \/ \E h \in Hosts : \/ Silent(h)
                        \/ link[h].seen > 2 * Lease
                        \/ \E i \in DOMAIN wire[h].down : wire[h].down[i].old
                        \/ \E i \in DOMAIN wire[h].up : wire[h].up[i].old

OlderMessages(messages) == [i \in DOMAIN messages |-> [messages[i] EXCEPT !.old = TRUE]]
Less(n) == IF n > 0 THEN n - 1 ELSE 0
Silence(h, n) == IF wire[h].state = "good" THEN 0 ELSE n + 1

\* #tick and the pings it sends, and the clocks of everything that waits.
RemoteTick ==
    /\ ~Overdue
    /\ guard' = Less(guard)
    /\ info' = [c \in Clusters |-> [info[c] EXCEPT !.hold = Less(@)]]
    /\ link' = [h \in Hosts |->
                    [link[h] EXCEPT !.seen = IF link[h].up THEN Silence(h, @) ELSE 0,
                                    !.dropped = IF @ \in 0..2 * Lease - 1 THEN @ + 1 ELSE @]]
    /\ host' = [h \in Hosts |-> [host[h] EXCEPT !.rx = IF host[h].conn = "joined"
                                                       THEN Silence(h, @) ELSE 0]]
    /\ wire' = [h \in Hosts |-> [wire[h] EXCEPT !.down = OlderMessages(@), !.up = OlderMessages(@)]]
    /\ UNCHANGED <<phase, epoch, procs, count>>

RemoteNext ==
    \/ Places \/ Respawn \/ StopEnds \/ Falls \/ TakesOver \/ Listens \/ RemoteTick
    \/ \E h \in Hosts : \/ Joins(h) \/ HostReceives(h) \/ CoordinatorReceives(h)
                       \/ Closes(h) \/ HostLoses(h) \/ WatchdogFires(h)
                       \/ HostLeaves(h) \/ Cut(h) \/ LosesMessages(h)
    \/ \E p \in procs : Ends(p)
    \/ \E c \in Clusters : StartTimesOut(c) \/ Restarts(c) \/ GraceEnds(c) \/ GivesUp(c)

\* Time passes, what is due happens, and the timers of restarts fire.
Fairness ==
    /\ WF_remoteVars(RemoteTick)
    /\ WF_remoteVars(\E h \in Hosts : \/ HostReceives(h) \/ CoordinatorReceives(h)
                               \/ Closes(h) \/ WatchdogFires(h) \/ LosesMessages(h))
    /\ WF_remoteVars(\E p \in procs : p.told = "kill" /\ Ends(p))
    /\ \A c \in Clusters : WF_remoteVars(Restarts(c))

RemoteSpec == RemoteInit /\ [][RemoteNext]_remoteVars /\ Fairness

-----------------------------------------------------------------------------
(***************************************************************************)
(* Properties.                                                             *)
(***************************************************************************)

\* A cluster never runs in two places, not even in a process that has been
\* killed but is not gone: neither when it moves away from a lost host, nor
\* when it comes back to it, nor when another coordinator takes over.
OneHost ==
    \A p, q \in procs : p.cluster = q.cluster => p = q

\* The least that fencing promises: no shard of a cluster is served twice, by
\* two processes that nobody has killed yet.
NotServedTwice ==
    \A p, q \in procs :
        p.cluster = q.cluster /\ p.told # "kill" /\ q.told # "kill" => p = q

\* The coordinator never loses sight of a process of a host it talks to: an
\* exit it was told of, late or of another process, is not taken for this one.
KnownProcess ==
    \A p \in procs :
        p.reply /\ link[p.host].up /\ wire[p.host].state = "good" =>
            info[p.cluster].child /\ info[p.cluster].place = p.host
                /\ info[p.cluster].epoch = p.epoch

\* A cluster does not wait for a lost host for ever.
FencingEnds ==
    \A c \in Clusters : info[c].state = "fencing" ~> info[c].state # "fencing"

\* The state is well typed and the coordinator knows every process it speaks for.
RemoteInv == RemoteTypeOK /\ KnownProcess

=============================================================================
