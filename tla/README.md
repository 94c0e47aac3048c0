# lunibee: specifications, model checking and proofs

lunibee is a Discord API library in TypeScript: packages for the Gateway
connection (`ws`), processes that share the work of many connections
(`sharding`), the HTTP API (`rest`), voice (`voice`), the objects of the API
(`structures`, `managers`, `types`, `builders`, `formatters`), caches
(`collection`) and the client that joins them (`core`).  This directory holds
TLA+ modules of the parts whose correctness is a matter of order: what happens
when a socket closes while a timer runs, when a request is aborted while it
waits, when a process dies while it holds a slot, when a listener calls back.

* `tlc -config X.cfg M` checks a run (see *Runs*); `tlapm MProofs` checks the
  proofs about a module (see *Theorems*).
* `PROJECT.json` lists the components, the runs, the lines every definition
  stands for, the hazards and the findings.

Paths below are relative to `packages/` of the repository.

## 1. Inventory

Each entry gives the state a part keeps, its operations, what it interacts with,
what is hard about it, and what makes it correct.

**Gateway connection** (`ws/src`: `index.ts`, `session.ts`, `reconnect.ts`,
`heartbeat.ts`, `transport.ts`, `state.ts`).  State: the connection state, the
socket the transport holds and the token that filters the events of older
sockets, the session (id, sequence, resumable), attempts and the armed
reconnect, the heartbeat's timers, the promise of `connect()`, whether an
IDENTIFY waits for the gate.  Operations: `connect`, `close`, socket opened /
message / closed, Hello, Ready, Resumed, a dispatch, Reconnect, Invalid Session,
an acknowledgement, the timers.  Interacts with the sharding layer through
`identifyGate` and with the application through listeners, which run inside the
handlers.  Hard: every handler may find its socket replaced; a listener may
call `connect()` or `close()` in the middle of a close.  Correct when there is
one socket, one handshake per socket, no timer that outlives its socket, no
promise that waits for nothing, and no session resumed with another's numbers.

**Compressed transport** (`ws/src/transport.ts`, `decoder.ts`).  State: the
generation of the inflater, chunks not yet flushed, the chain of deliveries.
Operations: connect, a message, a flush, a zlib error, reset.  Hard: inflating
is asynchronous and outlives the socket.  Correct when what is handed on is what
arrived, in order, and nothing follows a failure.

**IDENTIFY coordinator and shard startup** (`sharding/src/identify.ts`,
`index.ts`, `worker.ts`, `cluster.ts`).  State: a queue, a holder and a rest per
rate-limit key, a session budget, one timer; each shard's start or reconnect and
what it asked for.  Operations: acquire, release, drop, pump, the hold timeout;
`connectInQueue` with two timeouts; the identify frames between a worker and its
parent; the exit of a cluster.  Hard: a grant crosses a process boundary, so the
slot and the IDENTIFY it is for come apart.  Correct when IDENTIFYs of a key are
an interval apart, the budget is kept, and everybody is served.

**Cluster manager** (`sharding/src/cluster.ts`, `supervisor.ts`, `requests.ts`).
State: the start and the stop under way, each cluster's state, process, shards
and restart timer, the owner of every shard, crash counts, who waits for
readiness, the requests and reassignments that await answers.  Operations:
`spawn`, `respawnAll`, `killAll`, `shutdownAll`, `ready`, `request`,
`checkAutoScale`; a worker's ready frame, answer and exit; the timers.  Hard: a
stop may come at any await of a start; frames and exits of an earlier process
arrive after a new one was forked.  Correct when a shard runs in one process,
the two views of ownership agree, a stop is final and ends, and nobody waits
for what cannot come.

**Leader election** (`sharding/src/leader.ts`, `cluster.ts`).  State: the lock in
Redis with its lifetime, the term, its renewal timer and the commands under way.
Operations: campaign, renew, resign, stand down, crash.  Hard: an answer that is
late belongs to a term that is over.  Correct when only the holder leads.

**Remote hosts** (`sharding/src/remote.ts`, `host.ts`, `remote-protocol.ts`).
State: per host the link, when it was last heard and when it was lost; per
cluster its place, epoch and the wait of fencing; on a host its processes and
its watchdog.  Operations: hello, place, spawn, term, kill, exit, ping, drop,
fence, take over.  Hard: partitions, and a process that outlives its
connection.  Correct when a cluster runs on one host.

**Cross-process bus** (`sharding/src/bus.ts`, `health.ts`): broadcasts and reports.

**REST request scheduler** (`rest/src/scheduler.ts`).  State: a queue per bucket
key as a chain of promises, the total and per-key number of waiters, the route's
bucket as it is learned.  Operations: run, wait, remap, release (at the end or
early), abort, overload.  Correct when one request per key is in flight, the
counters count, and no slot is lost.

**REST limiter, stores, client** (`rest/src`: `limiter.ts`, `store.ts`,
`redis.ts`, `headers.ts`, `index.ts`).  State: per bucket key the window, what
remains of it, whether it is provisional or a probe's placeholder; the hash of a
route; the global reset and the log of recent sends; per request its
reservation and attempt.  Operations: reserve, reconcile, release, learn a hash,
prune; attempt, timeout, failure, 429, retry.  Hard: responses out of order,
after their window, or for another key.  Correct when no unit is handed out
twice, no placeholder leaks, and a 429 and the global limit are honoured.

**Audio player** (`voice/src/player.ts`, `resource.ts`).  State: the status, the
resource, the timer, silence frames left, misses, the frames read ahead.
Operations: play, pause, unpause, stop, attach, detach, refresh, the tick.
Hard: listeners run inside a tick; the clock is started by seven paths and
stopped by five.  Correct when there is one clock while there is something to
send and none otherwise, and when no resource is left running.

**Voice connection** (`voice/src`: `connection.ts`, `networking.ts`,
`gateway.ts`, `udp.ts`).  State: the status, what signalling has delivered, the
networking session of the current server with its socket, UDP socket, backoff
and resume attempts, one timer.  Operations: state and server updates, rejoin,
disconnect, destroy, the session's frames and close codes.  Hard: the two
updates arrive in either order, and every await of a session may return after it
was replaced.  Correct when nothing of a replaced session is left, an attempt is
timed and ends, and a ready connection can send.

**Caches, managers and client core** (`managers/src`, `core/src`,
`collection/src`).  State: the caches of a guild, the fetches out for a key and
the flag that a write raises meanwhile.  Operations: the dispatches of a guild,
fetch, edit, remove.  Hard: an answer shows the past.  Correct when an answer
never overwrites what an event told, and the caches end up showing what Discord
holds.

**Structures, builders, formatters, types, commands, utilities, CLI**: typed data
and its construction, without a protocol of their own.

How the parts meet: the client logs in through the shard manager, which starts
one Gateway per shard under the coordinator's slots; in a cluster the worker
asks its parent over a channel, or over a remote host's socket.  The cluster
manager leads only while it holds the lock, and places clusters on local
processes or on remote hosts.  A Gateway's dispatches go through the cache to
listeners.  REST calls go scheduler, limiter, transport; their answers go to the
same caches.  A voice connection signals through its shard's Gateway and is one
of the sinks of an audio player.

## 2. Modules

| Module | Models | State |
| --- | --- | --- |
| `Gateway` | a `Gateway` of `ws/src/index.ts` with its session, policy, heartbeat and transport | `gw`, the object, as a record; the frames in flight |
| `ResumableSession` | abstract: a session whose sequence only grows and dies with it | `session`, `last` |
| `CompressedTransport` | the receiving side of a zlib-stream connection | sockets, generations, the inflater's writes, the chain |
| `RequestScheduler` | `RequestScheduler` of `rest/src/scheduler.ts` | queues, counters, each request's phase |
| `IdentifyFleet` | the coordinator, a start-up, each shard's connection and its worker | `co`, `shard`, grants in flight, a clock |
| `AudioPlayer` | an `AudioPlayer` and its `AudioResource`s | `player`, one record |
| `RateLimiter` | `MemoryRateLimitStore`, `RateLimiter` and the attempts of a request against one bucket of Discord | `store`, `req`, `discord`, a clock |
| `ClusterManager` | `ClusterManager` with supervisor and request tracker, and the processes it forks | `m`, one record; ready frames in flight |
| `RemoteHosts` | `RemoteHosts`, `ClusterHost` and the sockets between them | coordinator, links, hosts, processes, wires |
| `LeaderElection` | `RedisLeaderLock` and the terms of `ClusterManager` | the lock, commands under way, terms |
| `VoiceConnection` | a `VoiceConnection` and the `VoiceNetworking` sessions it opens | `voice`, one record |
| `ClientCache` | the caches of a client for one guild, with a fetch and an edit out | Discord's truth, the wire, `box` |
| `GatewayProofs`, `SchedulerProofs`, `VoiceProofs`, `LeaderProofs`, `CacheProofs`, `FleetProofs`, `LimiterProofs`, `ClusterProofs` | theorems about the modules they are named after (`GatewayProofs`: also `CompressedTransport`; `VoiceProofs`: `AudioPlayer` and `VoiceConnection`; `LeaderProofs`: `LeaderElection` and `RemoteHosts`) | |
| `MC...` | small instances for the runs | |

**Objects as records.**  JavaScript runs a handler to its end, but a handler
calls others and emits events whose listeners call back.  `Gateway`,
`AudioPlayer` and the coordinator of `IdentifyFleet` therefore keep the object
in one record (so do `ClusterManager` and `VoiceConnection`); a method is an operator from the record to the record, the calls
it makes are compositions in the order of the code, and an action is one handler
with everything it calls.  What is asynchronous in the code - a socket's events,
a timer, a promise that somebody awaits, a message to another process - is an
action of its own.

`Gateway`.  `Connect`, `Close` are `connect()` and `close()` called from outside;
`SocketOpens`, `Deliver` (with `HandleHello`, `HandleReady`, `HandleResumed` and
`Apply` for the frames) and `SocketCloses` the socket's events; `GateAnswers` the
answer of `identifyGate`; the timers (`ReconnectTimer`, `ConnectTimer`,
`FirstBeat`, `ScheduledBeat`, `AckTimeout`, `ZombieTimeout`) are actions enabled
while armed.  Discord is the set of actions that push a frame a server may send
(`AnswersIdentify`, `SendsEvent`, ...), and lets a session lapse
(`SessionExpires`).  Sockets are
numbered in the order they are dialled, and the numbers are the tokens by which
the code recognises the events of an older socket.  A `close` listener is a
choice (`OnClose`), made once for a close, as is a `stateChange` listener
(`OnState`); a listener's own calls are not heard by others, which is where the
recursion of listeners is cut.

`CompressedTransport`.  A message is a symbol: it ends a payload or does not, is
refused by zlib, or inflates past the limit.  `push()` writes to an inflater
that answers later; `Inflate`, `Flush` and `InflateCorrupt` are its callbacks,
`OrphanReturns` those of an inflater that `reset()` closed, `HandOn` one link of
the chain that hands the result on.  The actions that Gateway has too carry
another name here (`ConnectTransport`, `SocketEnds`), since one proof module reads
both.

`RequestScheduler`.  The chain of promises of a key is the pair of the turn each
request waits for and the entry in the map.  `Start` is the await that returns,
`Check` the look at the key the route resolves to by then, `Move` the remap,
`Settle` the end of the task, `FreeEarly` and `Abort` the caller's interventions;
`Follow` opens the gate of a turn that was aborted when the turn ahead of it has.
The bucket of a route is what a response teaches (`Learn`); the rate limiter
keeps it.

`IdentifyFleet`.  Time is discrete; a tick is only enabled while no timer is due.
Each shard is starting (`connectInQueue`), reconnecting behind its gate, or
connected; `SocketOpens`, `HelloResumes`, `HelloIdentifies` and `HelloAsks` are a
connection's progress, `Lose` and `Exit` the faults.  The frame a worker sends when its IDENTIFY is done is one step with
the IDENTIFY: the release may only come later in the code, which is later than
the model's, never earlier.  `recent` is what is left of the interval of the last
IDENTIFY on a key, and `crowded` the keys on which another came within it, which is
what `IdentifiesArePaced` speaks about.

`AudioPlayer`.  A method is in three parts around `#transition`: whether it does
anything (`Accepts`), what it changes before (`Prepare`), the status (`Aim`),
what it does afterwards (`Complete`); `Invoke` puts them together and runs the
listener in between.  `ClockFires` is the timer's callback with the tick, the end
or the failure of the resource, and the tick that follows it.  `armed` counts
scheduled callbacks and `tracked` says whether `#timer` holds one: the code has
only the latter.

`RateLimiter`.  A worker makes one request after another: `Start` resolves its
key, `Grant` / `Refuse` / `Wake` are `reserve()` and the wait it answers with,
`Send` is the request reaching Discord, which counts it in its own window and
writes the answer, `Receive` the response's arrival, `ApplyHeaders` the
reconciliation of a window, `Finish` the rest of the attempt (release, global
429, retry), `Fail` and `SendAmiss` what goes wrong, `Abandon` a caller that gives
up.  Discord's window is fixed and opens with its first request, which the
client only sees through headers.  `spent`, `told` and `grants` are what the
properties compare the store with.

`ClusterManager`.  An await of `spawn()` is a value of `m.start`; each of the
steps after it checks that the start is still in force, as `stale()` does.
`WorkerReady` / `ReadyArrives`, `Dies` / `Exits` separate an event of a process
from the moment the manager hears of it.  `Recover` and `Reassign` are what an
unexpected exit leads to; `TakerStarts`, `TakerConfirms` and `TakerFails` are the
exchange with the cluster that takes shards over.  `Races` names windows in which
the environment may act; see *Known divergences*.

`RemoteHosts`.  A tick is a third of the lease.  `Joins`, `Places`, `HostReceives`
and `CoordinatorReceives` are the protocol; `Cut`, `LosesMessages`, `HostLoses`,
`Closes` the ways a connection ends for either side; `WatchdogFires` the host that
fences itself; `Falls`, `TakesOver`, `Listens` a coordinator that goes and the one
that follows it, which waits for twice the lease.  A frame in flight is `old` once
a tick has passed.  `Launch`, `Kill` and `OnExit` do for a set of clusters what the
manager's loops do for one after the other, in the order of their numbers: an epoch
and a message each.

`LeaderElection`.  Commands reach Redis in order and are answered in any order,
late or never; `AsksAgain` is the campaign's loop, `TimerFires` a renewal,
`TimesOut` one that takes too long.

`VoiceConnection`.  The operators are the methods of `connection.ts` as functions
from the connection to the set of outcomes (a listener that answers, an adapter
that does not send); the actions are voice events, the timer, and the events of
each session, current or replaced.

`ClientCache`.  A version per resource stands for its contents.  Discord changes
resources and appends dispatches to `wire`; `Handled` is the client's handler of a
dispatch with what it does to the fetches that are out; `Serves` and `Obeys` are
Discord answering a call, `Answers` and `Written` the client taking the answer.

## 3. Runs

States are distinct states as TLC counts them; every bound is in the `.cfg`.

* **gateway** (103,000).  Three connections, sequence numbers up to 2, one frame
  in flight per socket, two reconnect attempts, reconnect on and off, an IDENTIFY
  gate, dials that fail, transient, session-losing and fatal closes, `close`
  listeners that connect or close.  Three connections are a first one, a
  reconnect that resumes and a reconnect that identifies, which is every way a
  connection can hand over to the next; the third gives an old socket, an orphan
  and a current one at once.  `OneConnection`: one live socket, and none while a
  backoff runs.  `ClosedIsQuiet`: a closed Gateway has no socket and no timer.
  `SessionContinuity`: the session refines `ResumableSession`.  `ConnectSettles`:
  a `connect()` promise settles.  `Inv`: nobody waits for nothing, a rejected
  `connect()` means an idle Gateway, a socket carries one handshake, beats belong
  to the socket that is up.
* **compressed_transport** (339,000).  Four messages on two sockets: enough for a
  payload in two parts that a reconnect interrupts, with a corrupt or oversized
  message before or after.  `TransportInv`: the bytes handed on are those that
  arrived, in order.  `FailureIsFinal`: nothing follows a failure.
* **request_scheduler** (297,000).  Four requests on two routes that turn out to
  share a bucket: one that runs, one behind it, one on the other route that is
  remapped, one over the limit.  `OneInFlight`, `RunsOnItsKey` (the key is
  current when the task starts), `Served`; `Inv`: exact counters, and an entry for
  every busy key.
* **identify_fleet** (227,000).  Three shards, two keys, two clusters; shards 0
  and 2 share a key across clusters.  One fault (a lost socket or a dead
  cluster), a budget of one session per three ticks, sequential and parallel
  start-up.  `IdentifiesArePaced`, `NoGhosts`, `EveryoneIsServed`; `Inv`: the budget
  is kept, and the one timer covers whoever waits.
* **audio_player** (23,000).  Two resources, one of them live, a connection that
  comes and goes under each `noSubscriber` option, two misses, two padding
  frames; one listener that hears an event and calls back.  Two resources are one
  that plays and one that replaces it, or follows it.  `OneClock`, `Quiesces` (a
  clock with nothing to send stops), `BufferingEnds`; `Inv`: the clock runs when
  it is needed, and the resource that plays is the current one.
* **rate_limiter** (1,656,000).  Three workers on two routes of one bucket, two
  of them on the same route; four requests, two per window, three per global
  window, one retry, one answer that is lost, bare or a global 429; six ticks of
  time, which is a window, its end, and the start of the next.  `NoUnitTwice`: what is left of
  a window and what was handed out never exceed the limit.  `RefusedOnlyIfLate`:
  Discord refuses only what the client could not know.  `GlobalPaced`,
  `HonoursRetryAfter`.  `Inv`: a placeholder has a probe, and there is one probe.
* **cluster_manager** (194,000).  Two clusters with a shard each, with a leader's
  lock, `waitForReady` and reassignment; one restart, two faults, three commands,
  three of these together, five processes.  `OneProcess`: no shard in two
  processes that were told to run.  `StopsForGood`: nothing is forked after a stop
  until the application asks.  `ReadyMeansServed`, `StopEnds`; `Inv`: owners agree,
  whoever is asked can answer, nobody waits in vain.
* **cluster_again** (violated).  `spawn()` called again after a start that was
  rejected, while another cluster runs: `OneProcess` fails.  See *Findings*.
* **remote_hosts** (138,000).  A cluster, two hosts, a lease of three ticks, two
  faults or takeovers or respawns, three epochs.  Two hosts are the one that is
  lost and the one the cluster moves to; the coordinator may be replaced
  meanwhile.  `OneHost`: never two processes, not even one that is being killed.
  `FencingEnds`; `RemoteInv`: an exit is taken for the process it is of.
* **leader_election** (1,041,000).  Two coordinators, a lock of four ticks, three
  commands (spawn, kill, shutdown, crash), two calls under way each.
  `OnlyHolderLeads`; `Inv`: a leader stands down a quarter before its lock lapses,
  and a renewal it holds back for is of its own term.
* **voice_connection** (50,000).  Two channels, two sessions at a time, three calls,
  four voice events, three failures, two answers of listeners, one resume attempt.
  Two sessions are the one that is replaced and the one that replaces it.
  `NothingLeftBehind`, `AttemptsEnd`; `Inv`: the timer runs exactly while an attempt
  does, and ready means that audio can be sent.
* **client_cache** (1,436,000).  A guild with a channel, a member, an emoji, a
  plain resource and a message; two changes of Discord, one fetch and one edit or
  removal.  One change may overtake the answer and one may follow it.
  `NeverOlder`, `Mirrors`; `Inv`: a guild that was left is forgotten.

Every property of a passing run has a mutant in `PROJECT.json`: a plausible bug
at a mapped definition (a timer that is not cleared, a guard that is dropped, an
entry that is not deleted) under which TLC finds it violated.  The modules hold
more: the named parts of each `Inv` have one of their own.

Deadlock is off in every run: each system may rest for good (a closed Gateway
with its sockets used up, requests all done, an idle player).

**Fairness.**  `Gateway`: the reconnect and the connect timer fire when armed, and
a socket that was told to close reports it; the peer may stay silent for ever.
`RequestScheduler`: callbacks of settled promises run, and a task settles, since an
attempt times out and retries are bounded (`rest/src/index.ts`).  `IdentifyFleet`:
time passes, the coordinator's timers fire, a grant reaches its shard, a dial is
answered or the start times out; no shard has to be lost, to become ready or to
ask.  `AudioPlayer`: the clock fires; a source need not yield, and a connection
need not become ready; liveness is stated up to an application that keeps calling
the player, since pausing or playing again starts the count again.
`ClusterManager`: a start that is stale ends, the grace of a stop ends, the system
ends a process it was told to kill and reports its exit; a worker need not answer
anything.  `RemoteHosts`: time passes, what is due within a tick happens, a killed
process ends, restart timers fire.  `VoiceConnection`: the timer fires; no event
ever has to come.  The other three have no liveness property: what they wait for
is time or a server, and each wait is bounded by a timer whose firing is a step.

## 4. Known divergences

**Findings.**  `cluster_again`: `spawn()` forgets its start promise when the start
is rejected (`sharding/src/cluster.ts:566`), which one failed cluster does while
others run; called again it forks the fleet over the running one, against
`cluster.ts:549-550` ("Calling it again while clusters run ... returns the same
promise") and `cluster.ts:341`.

**What the passing runs leave out.**  Each of these is a constant of its module
with the value that excludes it; the other value reproduces the behaviour.  None
of them is hidden in the shape of a model.

| Constant | What happens with it | Code |
| --- | --- | --- |
| `Gateway.RedialsUnarmed` | a `close` listener that calls `connect()` where no reconnect follows leaves a live socket on a Gateway that says Closed | `ws/src/index.ts:786`, `:791-793` |
| `Gateway.OnState`, `DialsWhileClosing` | a `stateChange` listener that closes in the middle of a frame, or a `connect()` between `socket.close()` and its event, leaves timers behind | `ws/src/index.ts:863`, `:381` |
| `CompressedTransport.Late`; property `WholeFrames` | an inflater that was closed calls back later; two messages that arrive before the first is inflated become one frame | `ws/src/transport.ts:127` against `:59`, `decoder.ts:62-63`, `:130` |
| `RequestScheduler.TailAborts` | aborting the last waiter of a key drops its entry while its predecessor runs, and the next request runs beside it | `rest/src/scheduler.ts:133` against `:127-128` |
| `IdentifyFleet.MaxHandshake` (3 with `HoldTimeout` 5) | a Hello later than the handshake timeout IDENTIFYs when its slot is already another's | `sharding/src/worker.ts:193`, `identify.ts:63-65` |
| `AudioPlayer.OnTick`, `OnQuiet` | a listener that plays inside a tick, or while the clock is being stopped, starts a second clock | `voice/src/player.ts:290` against `:52-54`, `:154` |
| `RateLimiter.SharedWithdraw` | a unit given back while a 429 stands raises a window that was spent | `rest/src/store.ts:391` against `:88`, `:232` |
| `RateLimiter.Timeout` above `Window` | a 429 that arrives when a newer window has begun asks for longer than that window lasts; a response of the newer window shortens the wait to its own | `rest/src/store.ts:232` |
| `ClusterManager.Races` "ready" | a ready frame that arrives after `killAll()` or standing down counts | `sharding/src/cluster.ts:1242` |
| "scale", "lock", "stop" | a shard-count check answered after a stop, a lock lost during one, or a stop asked during a respawn forks again | `cluster.ts:1776`, `:835` |
| "late", "gap" | who asks for readiness after a cluster gave up, or between launches, waits for ever, or too short | `cluster.ts:703` |
| `ClusterManager.Coordinated` with `TakerFails` | a reassignment that is confirmed late keeps the failed owner though the shards run | `cluster.ts:1180` |
| `RemoteHosts.Hasty`; property `NotServedTwice` | a fleet placed anew after `respawn()` or `killAll()` does not look at the fence | `cluster.ts:641`, `:689-691` against `remote.ts:48-50` |
| `LeaderElection.SpawnsOver` | a second `spawn()` during the campaign of one that was killed leads without a lock of its own | `cluster.ts:736` against `leader.ts:3-4` |
| `VoiceConnection.LateFrames` | a RESUMED of an older socket makes a session ready that cannot send | `voice/src/networking.ts:187` |
| `VoiceConnection.Listeners` at "signalling", "connecting" | a listener that destroys or rejoins there is followed by what the method had begun | `voice/src/connection.ts:330`, `:247`, `:346` |
| `ClientCache.Races` "emoji", "message", "plain" | the answer of a fetch overwrites what an event told, where the flag is not raised or not read | `managers/src/emoji.ts:103`, `advanced.ts:70` |
| "write" | so does the answer of an edit or a removal | `managers/src/base.ts` |
| "left", "outage" | a channel fetched while the bot leaves is stored afterwards; what was deleted during an outage stays | `managers/src/index.ts:193`, `core/src/index.ts:820` |

Where a second place is named, the comment there says otherwise: the slot is not to
be passed on while the request ahead runs, deliveries are not to interleave, the
clock is to be one.  The rest are calls and orders that the types allow and no text
speaks of.

Two observations outside the models: `destroy()` of the
client leaves the per-guild and message managers filled
(`core/src/index.ts:1591-1605`), and the transport clears its timeout before it
reads the body (`rest/src/index.ts:403`).

## 5. Theorems

Proved by TLAPS for every value of the constants, with no assumption but the
typing of the constants unless stated.

`GatewayProofs`:

* `TypeCorrect`: `Spec => []TypeOK`.
* `ConnectionIsOne`: `Spec => []OneConnection`, if no listener redials a close that
  nothing follows (`~RedialsUnarmed`).
* `ClosedStaysQuiet`: `Spec => []ClosedIsQuiet`, if besides no `stateChange`
  listener calls back in the middle of a frame.
* `SessionIsResumable`: `Spec => SessionContinuity`, the refinement of
  `ResumableSession`, and `HandshakeIsOne`: `Spec => []OneHandshake`; whatever the
  listeners do.
* `InvHolds`: `Spec => []Inv`, if no listener redials a close that nothing follows or
  a socket that is still closing (`~DialsWhileClosing`), nor calls back from
  `stateChange`.

Types alone are not inductive: a dial is typed only if there is a token, an
event only if its socket was dialled.  The invariant `TypeInv` adds that at most
the held socket is connecting or open, that a held socket was dialled
(`OneSocket`), and that Discord has numbered what every live session was sent.
`Backed` adds that an armed reconnect and a held socket exclude each other, and
`Quiet` what a closed Gateway has not.  `Sound` (well typed, one socket) is
preserved by each method on its own, in a lemma per method; each handler is then
the composition of the lemmas of what it calls, and a step of the specification a
case per handler.

The refinement needs the order of the frames on a socket: what Discord sends as
dispatch `n` of a session is dispatch `n` for the Gateway only if the session, its
sequence and the frames under way agree.  `InTalk` says that (`Talking`): a socket
nobody answered is `Untouched`, one that was has at most one handshake behind it, and
the frames on the held one continue from `gw.seq` (`Ordered`).  `Moves` relates a
Gateway before and after a method by the session it forgets or keeps, and composes;
so each step is one step of `ResumableSession` or a stutter.  `Steady` adds to `Quiet`
what `Inv` needs between steps: whoever waits has a live socket or a backoff (`Awake`),
and the beats are those of the held socket (`Steered`).

The same module has the receiving side of a compressed connection:

* `TransportTypesHold`: `TransportSpec => []TransportTypeOK`.
* `FailureIsFinalHolds`: `TransportSpec => FailureIsFinal`, however late a closed
  inflater calls back.
* `TransportInvHolds`: `TransportSpec => []TransportInv`, the bytes in order, if a
  closed inflater calls back before the next socket hears a message (`~Late`).

The difficulty is that a push passes through two queues, the inflater's and the
chain of its socket, and neither says what the other holds.  `Wired`: a chain is
the messages of its socket that were not handed on, in order, and what a closed
inflater still owes belongs to an earlier socket.  `Lined`: every push that is not
settled has its operation in the inflater's queue, in the order `Before`, where a
flush always comes from an earlier message than a write; the push that an error
would reject is one of them; only a failure rejects.  `Settled`: bytes are taken
only when everything before them is resolved, and behind the failure that closed a
socket nothing is left to hand on, which is `FailureIsFinal` one step ahead.  For the
order of the bytes `InOrder` says that the frames of a socket can be numbered: there is
a function `f` from messages to what was taken up to them, where frames meet end to
end, the inflated chunks follow on the last, the writes that are queued follow on the
chunks, and what was handed on ends where the chain begins.  Each action extends `f` or
keeps it; a flush raises it from its message on.  A late callback is the one step that
could take a chunk of the current socket into a frame of another, hence the proviso.

`SchedulerProofs`:

* `TypeCorrect`: `Spec => []TypeOK`, whatever is aborted.
* `CountersExact`: `Spec => []CountsWaiters`, whatever is aborted.
* `SlotsAreExclusive`: `Spec => []OneInFlight`, if the last waiter of a key is not
  aborted while another runs (`~TailAborts`).
* `Invariant`: `Spec => []Inv`, under the same proviso.
* `KeysAreCurrent`: `Spec => RunsOnItsKey`, if `MAX_REMAPS` is not 0.  The proof
  shows that a request that has moved once never moves again, so that the code's
  two moves are one more than it needs.

`OneInFlight` is far from inductive: that two turns of a key do not both run
depends on the whole chain of promises behind them.  `Base` says that the chain
is well formed: gates that were never used are referred to by nobody (`Fresh`),
those a request left behind are open (`Past`), a turn has one turn behind it
(`Links`), the entry of a key is an active turn with nobody behind (`Tails`), turns
that wait for one another are of one key (`SameKey`), and waiting goes back in time
(`Ordered`, which states a numbering of the turns).  `Slots` says that a key with a
busy turn has an entry, and that of the busy turns of a key one may start.  The
lemma that carries the proof is `TailIsAlone`: if the last turn of a key may start,
nobody else of that key is busy - else the earliest other turn would wait for one
earlier still.  It is why dropping the entry on release is right, and it is what
`TailAborts` breaks.

`VoiceProofs`, of `AudioPlayer`:

* `TypeCorrect`: `Spec => []TypeOK`, whatever the listeners do.  It says that
  misses never pass `maxMissedFrames`, and needs `Typed` (a tracked timer is a
  scheduled one) and `Fresh` (a resource that a listener plays in the middle of
  the end of another has missed nothing) through the tick.
* `ClockIsOne`: `Spec => []OneClock`, if listeners of a tick do nothing or halt
  (`OnTick \subseteq {"nothing", "halt"}`); listeners of calls are free.  Every operator
  but `#schedule` is `Safe` (keeps one clock one); `#schedule` needs a `Still`
  player, which a tick has after the callback cleared `#timer`, and loses as soon
  as a listener starts the clock.

* `InvHolds`: `Spec => []Inv`, if no listener plays inside a tick (`"play" \notin
  OnTick`), nor plays or goes on while the clock is being stopped; what listeners of
  other calls do is free.  In the middle of a method the resource and the status
  disagree, so the lemmas speak of the status that is about to be told (`Suits`): a
  listener then finds a player that is `Fit`, and leaves one.  A loud method ends
  with a started clock whatever its listener did (`InvokeFits`); a beat ends with a
  scheduled one or with nothing that plays (`BeatServes`), which needs that the
  listener is `Mild`.

`VoiceProofs`, of `VoiceConnection`, if listeners call back only at `ready` and `disconnected` (`Settled`;
one that calls in the middle of `#connect` or `#signal` is followed by what the
method had begun, see *Known divergences*):

* `NothingLeft`: `VoiceSpec => []NothingLeftBehind`.
* `AttemptsAreTimed`: `VoiceSpec => []AttemptIsTimed`.
* `Invariant`: `VoiceSpec => []VoiceInv`, if besides a gateway that is being replaced delivers
  nothing late (`~LateFrames`).

`ReadyCanSend` speaks of one instant of a session that goes through seven states
while handlers await beside it.  `SessionSound` says what a session awaits and holds
at each of them; a UDP socket that comes after its session ended is the case that
needs it.  `Core` adds that only the current session is not closed, `Timed` the timer
of each status, and `Sends` is what an operation restores before `ready` is told.
Each operation of the connection has a lemma from `Core` to `Sound` states, for every
answer of a listener (`AnswersSound`, `SetSound`); each step is one of them or
replaces one session by a sound one (`StepSound`).

`LeaderProofs`, of `LeaderElection`, if no start is made while a command of a killed one is under way
(`~SpawnsOver`; see *Known divergences* for what happens otherwise):

* `HolderLeads`: `Spec => []OnlyHolderLeads`, and `OneLeader`: two coordinators never
  lead at a time.
* `Invariant`: `Spec => []Inv`.

That a leader holds the lock now depends on commands that are still on their way.
`Queue` says what a coordinator's commands look like: Redis has carried out a prefix
of them, one start waits at most and every release was sent before it, and nobody
waits for an answer longer than its timeout.  `Owns(l, k, age)` says that the lock is
`k`'s and what is left of it and the age of a command make up a lifetime; `Answered`,
that this is true of every answer that would make or keep `k` the leader, and `Sound`,
that it is true of the last renewal of a leader, whose age and next timer stay within
three quarters.  `Retained` says that another coordinator's step leaves such a lock alone
while it has not lapsed (Redis gives it away only when nothing of it is left), and
`Tick` ages both sides of the sum alike.

`LeaderProofs`, of `RemoteHosts`, for every number of hosts, clusters, epochs and
faults:

* `RemoteTypesHold`: `RemoteSpec => []RemoteTypeOK`, with no proviso.
* `RemoteInvHolds`: `RemoteSpec => []RemoteInv`, if a fleet is placed only once nothing
  of the last one is left (`~Hasty`; see *Known divergences*).
* `OneHostHolds`: `RemoteSpec => []OneHost`, under the same proviso and for a lease of
  three ticks or more, a tick being a third of the lease or less.

`OneHost` speaks of processes and follows from no state of the coordinator alone: a
host that was lost has processes it has no word of.  `Framed` keeps the time.  Whoever
was lost is lost for as many ticks as `Elapsed` tells, whether its link went, its
coordinator died or another one waits for it (`guard`), and `Fading` says what is left
of it by then: the last message of the coordinator arrived within a tick; the silence
of a host that still is joined is one tick shorter at most, and with more than a lease
of it the watchdog fires; a process that was fenced is gone a tick later.  So nothing
runs after `Lease + 2` ticks, and who waits for `2 * Lease` (`FenceWaited`, `Listens`)
finds nothing: this is the inequality that needs three ticks.  `Managed` says that the
wait of a cluster in `#fencing` ends at that time and not before, and `Opened` that a
host without a connection, or one that is not welcomed yet, has only processes that are
ended, so a host that comes back early may be given its clusters again.  On top of it
`Placed` says that a cluster belongs to one host: whatever runs it, or is a message that
asks for it (`Claims`), is where the manager has placed it, and nowhere while a fleet is
to be placed.  A restart is the one step that changes a place, and a takeover the one
that forgets it; both wait.

`KnownProcess` needs what is on the wires (`Known`): over a connection that works every
process that answers, and every process asked for, is the current one of its cluster;
nobody answers for a cluster that is asked for; and no exit on its way has the epoch of
a process that still runs.  New epochs are larger than any on a wire, which keeps all
three when clusters are launched.  That `Launch` gives each cluster of a set an epoch of
its own, and asks each host once, is shown by counting (`Ranked`, `AscendingFacts`)
instead of an induction over the set.

`CacheProofs`, if none of the four paths that miss the flag of a fetch is raced
(`Guarded`; the outage and the departure may be):

* `CacheNeverOlder`: `Spec => []NeverOlder`.
* `TypeCorrect`: `Spec => []TypeOK`.

And if none of the orders in `Races` happens at all (`Strict`):

* `CachesMirror`: `Spec => []Mirrors`.
* `InvHolds`: `Spec => []Inv`, a guild that was left being forgotten.

`NeverOlder` compares a cache with the past of the wire and says nothing of the
answers that are still to come.  `Fresh` does: what is cached, and what a clean fetch
is about to store, is no older than what was heard.  A fetch is served with Discord's
present, so `Rises` (what the wire tells of a resource grows, from what was heard to
what Discord holds) makes its answer fresh at that moment; every dispatch received
later must then mark the flag or be no newer than the answer.  `Handled` is walked by
type: each handler either marks every key it is told of (`Soiled`), or is one of the
two that do not - the emoji that is assigned, the edit of a message that is not cached
- and `Guarded` excludes that those overtake an answer.  A member event is special:
`TakesMembers` ignores it while the guild is not cached.  `Placed` shows that this
never happens, since the dispatch that creates the guild comes first on the wire.

`Mirrors` speaks of one moment, when nothing is on its way, and of two sides: nothing
too much is cached and nothing is missing.  `JInv` says what that moment comes from.
Nothing too much: every version that is told, cached or answered is one that existed
(`Real`) or one at which the resource ended (`Ended`), which Discord's further changes
leave true (`Grows`), and of every resource the client has heard the present version
or will (`TellsAll`: on the wire, with the snapshot that ends an outage, or never, if
it is a message from before the client was there).  So a version that is no older
than what was heard, once all has been heard, is the present one of a resource that
is there.  Nothing missing: whatever Discord has, and the Gateway tells of in full,
the client holds once it has received what is on the wire (`Held`): it holds it
already and no departure is coming, or a dispatch brings it and no departure comes
after (`Brought`).  An event that deletes takes away what ended; the answer of a
removal may come after a member is back, and then its return is still on the wire
(`ComesAgain`).  `Departed` closes the case of a guild that was left: the wire ends
with the departure, and once that is received nothing is cached and no answer under
way will be stored (`Bare`, `LeftBare`).

The proviso is needed.  With "left" in `Races`, TLC finds an edit whose answer puts
the channel of a guild back that the bot has left; with "outage", a resource whose
deletion nothing tells of, since the snapshot that ends the outage lists what is
there (*Known divergences*).

`FleetProofs`:

* `TypeCorrect`: `Spec => []TypeOK`; `NoMissedWakeup`: `Spec => []TimerCoversWaiters`;
  `NoGhostsEver`: `Spec => []NoGhosts`.
* `Paced`: `Spec => []IdentifiesArePaced`, `BudgetHolds`: `Spec => []WithinBudget`, and
  with them `InvHolds`: `Spec => []Inv`, if an IDENTIFY follows its grant before the
  start, or the slot, times out (`Prompt`).  The coordinator cannot know more: it
  frees a slot after `holdTimeout` whether or not the IDENTIFY has come, and
  *Known divergences* has what a Hello that is later than that does.

The structure (`IInv`) holds whatever the timeouts are: a shard waits in the queue of
its key and once (`Lined`), only if it asks (`Asked`), and a held slot has its grant on
the way or a start behind it (`HoldsAt`).  `Covered` is the one timer, which every pump
arms anew (`ArmOf`) after it granted what the budget allows.  Pacing is another matter,
since a slot may be free while the shard it was for is yet to IDENTIFY.  `May` is that
shard, and `Sole` says that it is alone on its key, on which nothing counts any more,
and either holds the slot or has lost it this very tick, when it is out of time
(`Urgent`).  A key nobody holds rests at least as long as the last IDENTIFY counts
(`Rests`), and `Timed` ties the age of a grant to what is left of the slot, which makes
a shard whose slot or start times out an urgent one - the two places where `Prompt` is
needed.  `Budgeted` counts the shards that may still IDENTIFY with the budget that is
left, and what was held at a reset on the other side.

`LimiterProofs`:

* `TypeCorrect`: `Spec => []TypeOK`; `InvHolds`: `Spec => []Inv`; `UnitsOnce`:
  `Spec => []NoUnitTwice`; `GlobalIsPaced`: `Spec => GlobalPaced`.
* `RetryAfterIsHonoured`: `Spec => HonoursRetryAfter`, if no unit is given back into a
  window that a 429 has closed (`~SharedWithdraw`) and no answer is later than a
  window is long (`Timeout <= Window`).  Without the second TLC finds a grant before
  its time (`Timeout` 6, `Window` 4): see *Known divergences*.
* `RefusedIsLate`: `Spec => []RefusedOnlyIfLate`, if `Window` is even, as every
  duration but a probe's is.  Otherwise the end that a placeholder estimates could be
  that of Discord's window to the millisecond, and a probe that is withdrawn would
  give its unit back to a window it was never taken from.

What a request will do to the store depends on when it was sent and on a bucket that
others have changed since.  `Whole` relates the two: buckets are sound, the times of a
request fit its phase (`Timely`), the bucket of a request in flight still is its
placeholder or has a limit and a window that ends after the request was sent (`Kept`),
a running placeholder has a holder (`HeldIn`) and a key one discoverer (`Alone`).
`Kept` is what makes a late answer harmless: reconciling and giving back find the
bucket they left, or a newer one that they can tell from it.  `Move` is the lemma for
all steps: one request and one bucket change, every other bucket is swept at most, and
a swept bucket has nobody in flight.  `NoUnitTwice` is inductive on top of it: a
response lowers what is left by as much as it takes off what is out, and only a request
that was never answered gives back.  For the global limit `Logged` says that the log
ends with the grants that still count, whatever was pruned.  For the wait of a 429,
`Spaced` orders the windows Discord has told of, a window apart, and `Remembered` says
that the store waits until the time that was told, or is spent in a window that no
later one ends before.

That Discord refuses nothing is about the store and Discord at once (`InStep`): until
the run is `excused`, what is used at Discord, what is granted or on its way and what
the bucket has left make a limit at most (`Balanced`), and the bucket's window covers
Discord's whenever no response is to tell of it (`Covered`).  Four facts keep the two
together: a request is answered in the tick it was sent (`Prompt`), its response tells
of the window that is still Discord's (`Fresh`), a probe has Discord to itself (`Lone`),
and what a probe may give back is never what replaced its placeholder (`Distinct`,
the reason for even windows).  `Resolved` and `Unlimited` say that once a response has
named Discord's bucket no route keeps a limit of its own beside it.

`ClusterProofs`, if `spawn()` is not called again after a cluster gave up and no ready
frame arrives after `killAll()` or a lost lock (`Sane`: neither "again" nor "ready" is in
`Races`; in both a fleet is planned, or counted, while processes of the last one run, see
*Findings* and *Known divergences*):

* `OneProcessHolds`: `Spec => []OneProcess`; `OwnersAgreeHolds`: `Spec => []OwnersAgree`;
  `AskedCanAnswerHolds`: `Spec => []AskedCanAnswer`; `TypesHold`: `Spec => []TypeOK`.
* `InvHolds`: `Spec => []Inv`, and `NobodyWaitsHolds`, its part about who waits, if
  besides nobody begins to wait after a cluster failed for good (no "late").
* `ReadyMeansServedHolds`: `Spec => ReadyMeansServed`, if besides no cluster becomes
  ready, gives up or comes back while others are still to be launched (no "gap").
* `StopsForGoodHolds`: `Spec => StopsForGood`, if besides a check of the shard count is
  not answered after a stop, the lock is not lost during one, and a stop is not asked
  while a respawn is under way (`Willing`).

The run has none of these races, and the proofs need no more than what is named: a race
that a theorem does not exclude may happen in it.  That a shard has one process is not
inductive, nor is it with the states of the clusters alone: a process outlives the
manager's interest in it, and a request to take shards over is out while its sender and
its receiver go on.  `Good` is what every method keeps, stated of one value of the manager
so that methods compose.  `Alive`: a cluster that failed or is to come back has no process,
or one that is gone; one that is up has one that is not; a process that serves is the
current one of its cluster.  `Phased`: a fleet is planned only when nothing of the last one
is left (`Quiet`), and what a stop has cleared at each of its phases.  `Owned`: the two
views of ownership agree, and clusters not yet launched own nothing.  `Held` is the step
from shards to processes: a process that serves has the shards of its cluster, or those of
a cluster that failed, if nobody else was asked to take them - which is why the shards
of two processes are disjoint (`Apart`) when one more is taken, forked or moved.
`Asked`: whoever was asked is current and its exit is still to come, so its cluster cannot
be forked again before the request is settled; this is where the order inside
`#onExit` (requests first, recovery after) is needed.  In the middle of a method the
invariant is broken for the cluster at hand, so `Good` has a parameter for the clusters
whose process has just ended, and one for the next cluster to launch.

The other three are about what is still to come, and have an invariant on top of it.
`Fine`: outside a stop a cluster that is to restart has its timer (`Timed`), nobody is
asked to take shards during one (`Unasked`), a stop that no start waits for gives the lock
back (`Resigning`), nobody waits for a cluster that is hopeless (`Hopeful`), and while
clusters are launched none is ready, no frame of theirs is under way (`Unheard`) and those
before the next one own their shards (`Placed`).  The last two are what "gap" breaks: a
fleet of which some clusters are unknown would be announced.  `Unwanted` is the state a stop
leaves and nothing but the application ends: no start, no timer, no queued `spawn()`,
and outside the stop no lock and no cluster that failed, so that every exit is an
expected one.  `Carried` is the case analysis over the steps for all three.

Only model-checked: liveness (`ConnectSettles`, `Served`, `EveryoneIsServed`,
`Quiesces`, `BufferingEnds`, `StopEnds`, `FencingEnds`, `AttemptsEnd`), which is out
of the prover's reach.  Every safety property of a passing run is a theorem.

## 6. Not modelled

* Contents: payloads, routes, opus frames, encryption, presence.  A dispatch is
  its sequence number, a frame of audio is one of a count, a resource its version.
* Times: only their order matters in `Gateway`, `AudioPlayer`, `ClusterManager`,
  `VoiceConnection` and `ClientCache` (a timer fires any time after it was armed);
  durations are ticks in the others.
* `Gateway`: application sends and their budget of 120 a minute, voice state and
  member requests: they write a frame and change nothing the properties speak of.
* `IdentifyFleet`: `close()` of the coordinator, `initialize()` and resharding.
  The frame a worker sends when its IDENTIFY is done is one step with the IDENTIFY.
* `AudioPlayer`: two listeners of the same event at once, and what a listener of a
  listener's change does.
* `RateLimiter`: the queue in front of it (`RequestScheduler`), 401s and the count
  of invalid requests, stores without `reserve()`, the Redis store (whose scripts
  take the same decisions), caps on waits that the run's times do not reach.
  `reconcile`, `release` and the global 429 of one response are one step, a body is
  read within the timeout, and a wait too long, an abort and a close are all
  `Abandon`.
* `ClusterManager`: hosts (see `RemoteHosts`), messages between clusters, broadcast
  and eval by shard, health reports; `restartOnExit: false` is `MaxRestarts` 0.
* `RemoteHosts`: authentication, limits on pending sockets, the join timeout, a
  crash of the host agent, status frames.  A message arrives within a tick or is
  lost, a SIGKILL takes effect within a tick, and the handshake is one step, as is the
  launch of a fleet (without `spawnInterval` between its clusters).
* `VoiceConnection`: the maps of `VoiceManager` and `waitReady`, DAVE, audio frames,
  the player it feeds.
* `ClientCache`: users, partial payloads, size limits and lifetimes, the stub
  channels of messages, collectors, interactions, and lists fetched whole.
* The bus, REST telemetry and routes, media, collections, commands, the Redis
  cache, structures and builders: sequential transformations of data, or plumbing
  over what is modelled; `PROJECT.json` says which is which.  They are most of the
  lines of the repository and few of its hazards.

## 7. Plan

1. Done: the modules above, in the order of what a fault would cost.
2. Next: `RateLimiter` behind `RequestScheduler`, and caches with limits and
   lifetimes under `ClientCache`.
