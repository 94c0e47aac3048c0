-------------------------- MODULE RequestScheduler --------------------------
(***************************************************************************)
(* The per-bucket queues of the REST client: RequestScheduler in           *)
(* packages/rest/src/scheduler.ts, with the route-to-bucket cache of       *)
(* RateLimiter (limiter.ts) that tells a request its queue.                *)
(*                                                                         *)
(* A queue is a chain of promises.  Each turn of a request in run() has a  *)
(* gate <<r, hop>>; it waits for the gate that was the last of its key     *)
(* when it came, and becomes the last.  Requests run concurrently between  *)
(* awaits; a step is what happens between two of them.                     *)
(***************************************************************************)
EXTENDS Naturals, FiniteSets

CONSTANTS
    Requests,
    Routes,
    RouteOf,       \* RouteOf[r]: the route request r is sent on
    Buckets,       \* hashes Discord may report
    BucketOf,      \* BucketOf[t]: the bucket Discord maps route t onto
    MaxQueued, MaxPerBucket,  \* options maxQueued and maxQueuedPerBucket
    MAX_REMAPS,
    TailAborts     \* the last waiter of a key may be aborted while another runs

ASSUME SchedulerAssumption ==
    /\ IsFiniteSet(Requests)
    /\ RouteOf \in [Requests -> Routes] /\ BucketOf \in [Routes -> Buckets]
    /\ Routes \cap Buckets = {}
    /\ MaxQueued \in Nat /\ MaxPerBucket \in Nat /\ MAX_REMAPS \in Nat
    /\ TailAborts \in BOOLEAN

VARIABLES
    known,    \* routes whose bucket a response has revealed
    phase,    \* phase[r]: where request r is
    hop,      \* hop[r]: queues it has left for another
    key,      \* key[r]: the bucket key it queued under last
    queues,   \* queues[k]: gate of the last request of key k (#queues)
    previous, \* previous[g]: the gate that turn g waits for
    opened,   \* gates that are open
    linked,   \* gates that open as soon as the one before them does
    queued,   \* #queued
    waiting   \* waiting[k]: #waiting

vars == <<known, phase, hop, key, queues, previous, opened, linked, queued, waiting>>

Keys == Routes \cup Buckets
Gates == Requests \X (0..MAX_REMAPS)
None == <<>>
Phases == {"idle", "queued", "checking", "moving", "running", "freed",
           "done", "aborted", "overloaded"}

TypeOK ==
    /\ known \in SUBSET Routes
    /\ phase \in [Requests -> Phases]
    /\ hop \in [Requests -> 0..MAX_REMAPS]
    /\ key \in [Requests -> Keys]
    /\ queues \in [Keys -> Gates \cup {None}]
    /\ previous \in [Gates -> Gates \cup {None}]
    /\ opened \in SUBSET Gates /\ linked \in SUBSET Gates
    /\ queued \in 0..MaxQueued
    /\ waiting \in [Keys -> 0..MaxPerBucket]

-----------------------------------------------------------------------------

Gate(r) == <<r, hop[r]>>

\* Whether turn g may start: nothing was ahead of it, or that is over.
MayStart(g) == previous[g] = None \/ previous[g] \in opened

\* resolveBucketKey: the hash a response has revealed, else the route.
Resolve(r) == IF RouteOf[r] \in known THEN BucketOf[RouteOf[r]] ELSE RouteOf[r]

\* Mutant: the queue limits are not consulted.
NeverFull(k) == FALSE

Full(k) ==
    queues[k] # None /\ (queued >= MaxQueued \/ waiting[k] >= MaxPerBucket)

\* Whether turn r is counted as waiting.
Counted(r) == phase[r] = "queued" /\ previous[Gate(r)] # None

\* run(): joins the queue of key k behind its last gate, or is refused.
JoinQueue(r, h, k) ==
    /\ key' = [key EXCEPT ![r] = k]
    /\ hop' = [hop EXCEPT ![r] = h]
    /\ IF Full(k)
       THEN /\ phase' = [phase EXCEPT ![r] = "overloaded"]
            /\ UNCHANGED <<queues, previous, queued, waiting>>
       ELSE /\ phase' = [phase EXCEPT ![r] = "queued"]
            /\ previous' = [previous EXCEPT ![<<r, h>>] = queues[k]]
            /\ queues' = [queues EXCEPT ![k] = <<r, h>>]
            /\ IF queues[k] = None THEN UNCHANGED <<queued, waiting>>
               ELSE /\ queued' = queued + 1
                    /\ waiting' = [waiting EXCEPT ![k] = @ + 1]
    /\ UNCHANGED <<known, opened, linked>>

\* Mutant: a turn that ends without starting stays counted.
StillWaiting(r) == UNCHANGED <<queued, waiting>>

\* A turn stops waiting, because it starts or because it is aborted.
StopWaiting(r) ==
    IF Counted(r)
    THEN /\ queued' = queued - 1
         /\ waiting' = [waiting EXCEPT ![key[r]] = @ - 1]
    ELSE UNCHANGED <<queued, waiting>>

\* Mutants: an aborted turn opens its gate at once, or never; a gate that is
\* the last of its key stays in the map.
ReleaseAlwaysOpens(r, started) ==
    /\ opened' = opened \cup {Gate(r)}
    /\ queues' = [queues EXCEPT ![key[r]] = IF @ = Gate(r) THEN None ELSE @]
    /\ UNCHANGED linked
ReleaseOnlyStarted(r, started) ==
    /\ opened' = IF started THEN opened \cup {Gate(r)} ELSE opened
    /\ queues' = [queues EXCEPT ![key[r]] = IF @ = Gate(r) THEN None ELSE @]
    /\ UNCHANGED linked
ReleaseKeepsEntry(r, started) ==
    /\ opened' = opened \cup {Gate(r)}
    /\ UNCHANGED <<queues, linked>>

\* release(): opens the gate, or links it to the one ahead when the turn was
\* aborted before it started, and drops the map entry if it is still ours.
Release(r, started) ==
    /\ IF started \/ previous[Gate(r)] = None
       THEN opened' = opened \cup {Gate(r)} /\ UNCHANGED linked
       ELSE linked' = linked \cup {Gate(r)} /\ UNCHANGED opened
    /\ queues' = [queues EXCEPT ![key[r]] = IF @ = Gate(r) THEN None ELSE @]

-----------------------------------------------------------------------------

\* runResolved() is called: the key is resolved and the queue joined.
Submit(r) ==
    /\ phase[r] = "idle"
    /\ JoinQueue(r, 0, Resolve(r))

\* The gate ahead is open: the task starts.  All but the last hop check first
\* that the key is still the request's.
Start(r) ==
    /\ phase[r] = "queued" /\ MayStart(Gate(r))
    /\ phase' = [phase EXCEPT ![r] = IF hop[r] < MAX_REMAPS THEN "checking"
                                     ELSE "running"]
    /\ StopWaiting(r)
    /\ UNCHANGED <<known, hop, key, queues, previous, opened, linked>>

\* Mutant: the key is trusted after the wait.
KeyIsTrusted(r) == TRUE

KeyIsCurrent(r) == Resolve(r) = key[r]

\* The key is resolved again in the slot: the request runs, or gives the slot
\* up and moves to the queue it belongs to.
Check(r) ==
    /\ phase[r] = "checking"
    /\ IF KeyIsCurrent(r)
       THEN /\ phase' = [phase EXCEPT ![r] = "running"]
            /\ UNCHANGED <<key, queues, opened, linked>>
       ELSE /\ phase' = [phase EXCEPT ![r] = "moving"]
            /\ key' = [key EXCEPT ![r] = Resolve(r)]
            /\ Release(r, TRUE)
    /\ UNCHANGED <<known, hop, previous, queued, waiting>>

Move(r) ==
    /\ phase[r] = "moving"
    /\ JoinQueue(r, hop[r] + 1, key[r])

\* A response reveals the bucket of the route.
Learn(r) ==
    /\ phase[r] \in {"running", "freed"}
    /\ RouteOf[r] \notin known
    /\ known' = known \cup {RouteOf[r]}
    /\ UNCHANGED <<phase, hop, key, queues, previous, opened, linked, queued, waiting>>

\* The task frees the slot before it settles.
FreeEarly(r) ==
    /\ phase[r] = "running"
    /\ phase' = [phase EXCEPT ![r] = "freed"]
    /\ Release(r, TRUE)
    /\ UNCHANGED <<known, hop, key, previous, queued, waiting>>

\* The task settles, well or not.
Settle(r) ==
    /\ phase[r] \in {"running", "freed"}
    /\ phase' = [phase EXCEPT ![r] = "done"]
    /\ IF phase[r] = "running" THEN Release(r, TRUE)
       ELSE UNCHANGED <<queues, opened, linked>>
    /\ UNCHANGED <<known, hop, key, previous, queued, waiting>>

\* The caller's signal aborts the wait.
Abort(r) ==
    /\ phase[r] = "queued"
    /\ ~TailAborts => queues[key[r]] # Gate(r) \/ MayStart(Gate(r))
    /\ phase' = [phase EXCEPT ![r] = "aborted"]
    /\ StopWaiting(r)
    /\ Release(r, FALSE)
    /\ UNCHANGED <<known, hop, key, previous>>

\* The promise of a gate whose turn was aborted follows the one ahead of it.
Follow(g) ==
    /\ g \in linked \ opened
    /\ MayStart(g)
    /\ opened' = opened \cup {g}
    /\ UNCHANGED <<known, phase, hop, key, queues, previous, linked, queued, waiting>>

\* The store may know buckets that earlier responses have revealed.
Init ==
    /\ known \in SUBSET Routes
    /\ phase = [r \in Requests |-> "idle"]
    /\ hop = [r \in Requests |-> 0]
    /\ key = RouteOf
    /\ queues = [k \in Keys |-> None]
    /\ previous = [g \in Gates |-> None]
    /\ opened = {} /\ linked = {}
    /\ queued = 0
    /\ waiting = [k \in Keys |-> 0]

Advance(r) == Start(r) \/ Check(r) \/ Move(r) \/ Settle(r)

Next ==
    \/ \E r \in Requests : \/ Submit(r) \/ Advance(r)
                           \/ Learn(r) \/ FreeEarly(r) \/ Abort(r)
    \/ \E g \in Gates : Follow(g)

Spec == Init /\ [][Next]_vars

\* Promise callbacks run, and a task settles (attempts have a timeout).
FairSpec ==
    /\ Spec
    /\ \A r \in Requests : WF_vars(Advance(r))
    /\ \A g \in Gates : WF_vars(Follow(g))

-----------------------------------------------------------------------------
(***************************************************************************)
(* Properties                                                              *)
(***************************************************************************)

\* Whether request r holds the slot of its key.
Holds(r) == phase[r] \in {"checking", "running"}

\* One request per bucket key is in flight at a time, until it frees its slot
\* (scheduler.ts:14), however waits are aborted and keys remapped.
OneInFlight ==
    \A r, s \in Requests : Holds(r) /\ Holds(s) /\ key[r] = key[s] => r = s

\* The counters the limits are enforced with count the waiters.
CountsWaiters ==
    /\ queued = Cardinality({r \in Requests : Counted(r)})
    /\ \A k \in Keys :
        waiting[k] = Cardinality({r \in Requests : Counted(r) /\ key[r] = k})

\* A key has an entry exactly while somebody queues for it or holds it, so
\* idle buckets do not accumulate and a busy one is never taken for idle.
EntryWhileBusy ==
    \A k \in Keys :
        queues[k] # None <=>
            \E r \in Requests : key[r] = k /\ (phase[r] = "queued" \/ Holds(r))

\* The task runs under the key that its route resolved to when it started.
RunsOnItsKey ==
    [][\A r \in Requests :
        phase[r] # "running" /\ phase'[r] = "running" => key'[r] = Resolve(r)]_vars

\* A slot is released on every exit path: whoever queues is served in the end.
Served ==
    \A r \in Requests :
        phase[r] = "queued" ~> phase[r] \in {"done", "aborted", "overloaded"}

\* The state is well typed, a key keeps its entry while it is busy, and the counters count
\* the requests that wait.
Inv == TypeOK /\ EntryWhileBusy /\ CountsWaiters

=============================================================================
