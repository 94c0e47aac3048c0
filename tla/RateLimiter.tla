---------------------------- MODULE RateLimiter ----------------------------
(***************************************************************************)
(* Rate limits of the REST client: the store of packages/rest/src/store.ts *)
(* (redis.ts runs the same decisions in Lua), the limiter of limiter.ts    *)
(* and the attempts of a request in index.ts.                              *)
(*                                                                         *)
(* Workers share a store; each call of the store is atomic, and a worker   *)
(* awaits between two of them.  Discord keeps one bucket, which the routes *)
(* share: fixed windows that open with their first request.  A request     *)
(* reaches Discord in the step that sends it; its response takes its time. *)
(* Time advances by two: all durations but a probe's are even, so that an  *)
(* estimated reset, in milliseconds, is never by chance Discord's.         *)
(***************************************************************************)
EXTENDS Integers, Sequences

CONSTANTS
    Workers,
    Routes,
    RouteOf,          \* RouteOf[w]: the route worker w sends on
    Hash,             \* the key of Discord's bucket, told by its responses
    Limit,            \* requests per window of the bucket
    Window,           \* length of a window of the bucket
    GlobalLimit, GLOBAL_WINDOW,  \* requests in any span, across buckets
    GlobalWait,       \* retry_after of a global 429
    Timeout,          \* the transport's timeout; a probe holds a bucket one longer
    BUCKET_LINGER, PRUNE_INTERVAL,
    MaxRetries,
    SharedWithdraw,   \* a unit may be given back after a 429 spent its bucket
    MaxRequests,      \* bound: requests made
    MaxFaults,        \* bound: answers that are lost, bare or global 429s
    Horizon           \* bound of the clock

ASSUME LimiterAssumption ==
    /\ RouteOf \in [Workers -> Routes] /\ Hash \notin Routes
    /\ {Limit, Window, GlobalLimit, GLOBAL_WINDOW, GlobalWait, Timeout,
        PRUNE_INTERVAL} \subseteq Nat \ {0}
    /\ {BUCKET_LINGER, MaxRetries, MaxRequests, MaxFaults, Horizon} \subseteq Nat
    /\ Timeout <= BUCKET_LINGER  \* 15 s and 60 s
    /\ Timeout % 2 = 0           \* TICK
    /\ SharedWithdraw \in BOOLEAN

VARIABLES
    now,
    store,     \* buckets, hashes of routes, the global reset and log
    req,       \* req[w]: the request worker w makes
    discord,   \* Discord's window: when it ends, how much of it is used
    made,      \* requests made so far
    faults,    \* answers that went wrong so far
    spent,     \* history: units handed out of the window stored under a key
    told,      \* history: until when 429s asked a key to wait
    grants,    \* history: when the last GlobalLimit reservations were granted
    excused    \* history: a late or lost answer, or a second route's probe

vars == <<now, store, req, discord, made, faults, spent, told, grants, excused>>

Keys == Routes \cup {Hash}
TICK == 2
PROBE_POLL == TICK
ProbeTime == Timeout + 1
Later == Horizon + Timeout + Window + GlobalWait + GLOBAL_WINDOW + 1

\* BucketState; a limit or a window of 0 is one that no response has told.
BucketState == [remaining: 0..Limit, resetAt: 0..Later, limit: {0, Limit},
                window: 0..Later, provisional: BOOLEAN, probe: BOOLEAN]
NoBucket == [remaining |-> 0, resetAt |-> 0, limit |-> 0, window |-> 0,
             provisional |-> FALSE, probe |-> FALSE]

Replies == [kind: {"none", "ok", "limited", "bare", "global", "lost"},
            remaining: 0..Limit, after: 0..Window, window: 0..Later]
NoReply == [kind |-> "none", remaining |-> 0, after |-> 0, window |-> 0]

Phases == {"idle", "asking", "waiting", "granted", "sent", "reconciling",
           "finishing"}
Request == [phase: Phases, key: Keys, known: BOOLEAN, resetAt: 0..Later,
            wake: 0..Later, moves: BOOLEAN, attempt: 0..MaxRetries,
            reply: Replies, since: 0..Horizon]

NoRequest(k) ==
    [phase |-> "idle", key |-> k, known |-> FALSE, resetAt |-> 0, wake |-> 0,
     moves |-> FALSE, attempt |-> 0, reply |-> NoReply, since |-> 0]

TypeOK ==
    /\ now \in 0..Horizon
    /\ store \in [buckets: [Keys -> BucketState], mapped: SUBSET Routes,
                  globalReset: 0..Later, log: Seq(0..Horizon),
                  lastPrune: 0..Horizon]
    /\ req \in [Workers -> Request]
    /\ discord \in [reset: 0..Later, used: 0..Limit, refused: BOOLEAN]
    /\ made \in 0..MaxRequests /\ faults \in 0..MaxFaults
    /\ spent \in [Keys -> Nat]
    /\ told \in [Keys -> 0..Later]
    /\ grants \in Seq(0..Horizon)
    /\ excused \in BOOLEAN

Init ==
    /\ now = 0
    /\ store = [buckets |-> [k \in Keys |-> NoBucket], mapped |-> {},
                globalReset |-> 0, log |-> <<>>, lastPrune |-> 0]
    /\ req = [w \in Workers |-> NoRequest(RouteOf[w])]
    /\ discord = [reset |-> 0, used |-> 0, refused |-> FALSE]
    /\ made = 0 /\ faults = 0
    /\ spent = [k \in Keys |-> 0]
    /\ told = [k \in Keys |-> 0]
    /\ grants = <<>>
    /\ excused = FALSE

-----------------------------------------------------------------------------
\* The store.

Least(a, b) == IF a <= b THEN a ELSE b
Most(a, b) == IF a >= b THEN a ELSE b

Active(b) == b.resetAt > now

\* Mutant: a spent window grants.
GrantsAlways(b) == TRUE

\* reserveState: whether a reservation on a bucket is granted.
Grants(b) == Active(b) => b.remaining > 0

\* Mutant: the probe gives the bucket up when its attempt does.
OpenWindowShort(b) ==
    [NoBucket EXCEPT !.remaining = Most(b.limit, 1) - 1, !.limit = b.limit,
                     !.resetAt = now + Timeout,
                     !.provisional = TRUE, !.probe = (b.limit = 0)]

\* reserveState: the window a reservation opens, with the limit if it is
\* known, and else as the placeholder of a probe.
OpenWindow(b) ==
    [NoBucket EXCEPT !.remaining = Most(b.limit, 1) - 1, !.limit = b.limit,
                     !.resetAt = now + ProbeTime,
                     !.provisional = TRUE, !.probe = (b.limit = 0)]

\* Mutant: a window that runs keeps the unit it grants.
AfterGrantKeepsUnit(b) == IF Active(b) THEN b ELSE OpenWindow(b)

AfterGrant(b) ==
    IF Active(b) THEN [b EXCEPT !.remaining = @ - 1] ELSE OpenWindow(b)

\* reserveState: how long a refusal asks to wait.
BucketWait(b) ==
    IF b.provisional THEN Least(b.resetAt - now, PROBE_POLL) ELSE b.resetAt - now

\* prune(BUCKET_LINGER_MS), which #write calls once per interval.
Prune(s) ==
    IF now - s.lastPrune < PRUNE_INTERVAL THEN s
    ELSE [s EXCEPT
            !.lastPrune = now,
            !.buckets = [k \in Keys |->
                IF @[k].resetAt <= now - BUCKET_LINGER THEN NoBucket ELSE @[k]],
            !.globalReset = IF @ <= now THEN 0 ELSE @,
            !.log = IF @ # <<>> /\ @[Len(@)] > now - GLOBAL_WINDOW THEN @ ELSE <<>>]

WriteBucket(s, k, b) == Prune([s EXCEPT !.buckets[k] = b])

\* takeGlobalSlot: the log without the sends that have left the window.
Expired(log) ==
    CHOOSE n \in 0..Len(log) :
        /\ \A i \in 1..n : log[i] <= now - GLOBAL_WINDOW
        /\ n < Len(log) => log[n + 1] > now - GLOBAL_WINDOW
RecentSends(s) == SubSeq(s.log, Expired(s.log) + 1, Len(s.log))

\* reserve(): how long the global limit asks to wait.
GlobalDelay(s) ==
    LET log == RecentSends(s) IN
    IF s.globalReset > now THEN s.globalReset - now
    ELSE IF Len(log) >= GlobalLimit
         THEN Most(1, log[1] + GLOBAL_WINDOW - now + 1)
         ELSE 0

\* Mutant: the bucket is written, and the log pruned, before the send is
\* recorded in it: a log that is still empty is forgotten with its first send.
ReserveWritesFirst(s, k) ==
    LET pruned == WriteBucket([s EXCEPT !.log = RecentSends(s)], k,
                              AfterGrant(s.buckets[k])) IN
    IF pruned.log = <<>> /\ pruned.lastPrune # s.lastPrune THEN pruned
    ELSE [pruned EXCEPT !.log = Append(@, now)]

\* reserve(), granted: the send is recorded, and the bucket written.
Reserve(s, k) ==
    WriteBucket([s EXCEPT !.log = Append(RecentSends(s), now)], k,
                AfterGrant(s.buckets[k]))

\* Mutant: the header's count replaces the stored one.
RemainingOfHeader(b, u) == u.remaining

RemainingAfter(b, u) == Least(b.remaining, u.remaining)

\* reconcileState on a window that runs.
MergeWindow(b, u) ==
    LET incoming == now + u.after
        stale == b.window # 0 /\ u.window < b.window
        newer == b.window # 0 /\ u.window > b.window IN
    IF stale THEN b
    ELSE [b EXCEPT !.remaining = RemainingAfter(b, u),
                   !.resetAt = IF b.provisional \/ newer THEN incoming
                               ELSE Most(@, incoming),
                   !.provisional = FALSE,
                   !.window = Most(@, u.window)]

\* Mutant: a 429 is treated like any other response.
SpendNothing(b, u) == b

\* reconcileState: a 429 spends the bucket for as long as it says.
SpendOn429(b, u) ==
    IF u.kind # "limited" THEN b
    ELSE [b EXCEPT !.remaining = 0,
                   !.resetAt = Most(@, now + u.after),
                   !.provisional = FALSE]

\* reconcileState, for a response with rate-limit headers.
Merge(b, u) ==
    LET merged == IF Active(b) /\ ~b.probe THEN MergeWindow(b, u)
                  ELSE [NoBucket EXCEPT !.remaining = u.remaining,
                                        !.resetAt = now + u.after,
                                        !.window = u.window] IN
    SpendOn429([merged EXCEPT !.limit = Limit], u)

\* Mutant: nothing learned, nothing done.
LearnNothingKept(s, k) == s

\* reconcile() of a response without headers: a placeholder must not stay.
LearnNothing(s, k) ==
    LET b == s.buckets[k] IN
    IF b.probe THEN [s EXCEPT !.buckets[k] = NoBucket]
    ELSE IF Active(b) THEN WriteBucket(s, k, b) ELSE s

Reconcile(s, k, u) ==
    IF u.kind \in {"ok", "limited"} THEN WriteBucket(s, k, Merge(s.buckets[k], u))
    ELSE LearnNothing(s, k)

\* release(): whether a grant still names the window that is stored.
SameWindow(s, r) == s.buckets[r.key].resetAt = r.resetAt

Release(s, r, refund) ==
    IF ~SameWindow(s, r) THEN s
    ELSE IF s.buckets[r.key].probe
         THEN [s EXCEPT !.buckets[r.key] = NoBucket]
         ELSE IF ~refund THEN s
         ELSE [s EXCEPT !.buckets[r.key].remaining =
                  IF s.buckets[r.key].limit = 0 THEN @ + 1
                  ELSE Least(@ + 1, s.buckets[r.key].limit)]

\* extendGlobalReset: never shortens a longer one.
ExtendGlobal(s) == [s EXCEPT !.globalReset = Most(@, now + GlobalWait)]

\* resolveBucketKey: the hash a response has told, else the route.
Resolve(w) == IF RouteOf[w] \in store.mapped THEN Hash ELSE RouteOf[w]

-----------------------------------------------------------------------------
\* The attempts of a request.

At(w, phase) == req[w].phase = phase

\* The request is over, with a result or an error.
Over(w) == NoRequest(RouteOf[w])

\* The next attempt asks the limiter again: at once after a 429, whose wait the
\* store has, and else after a pause.
Retried(r) == [NoRequest(r.key) EXCEPT !.phase = IF r.reply.kind \in {"limited", "global"}
                                        THEN "asking" ELSE "waiting",
                              !.wake = IF r.reply.kind \in {"limited", "global"}
                                       THEN 0 ELSE now + TICK,
                              !.attempt = r.attempt + 1]

\* request() and runResolved: the key is resolved and the limiter asked.
Start(w) ==
    /\ At(w, "idle") /\ made < MaxRequests
    /\ made' = made + 1
    /\ req' = [req EXCEPT ![w].phase = "asking", ![w].key = Resolve(w)]
    /\ UNCHANGED <<now, store, discord, faults, spent, told, grants, excused>>

\* acquire: a unit is reserved.
Grant(w) ==
    LET k == req[w].key
        b == store.buckets[k] IN
    /\ At(w, "asking") /\ GlobalDelay(store) = 0 /\ Grants(b)
    /\ store' = Reserve(store, k)
    /\ req' = [req EXCEPT ![w].phase = "granted",
                          ![w].known = Active(b) \/ b.limit > 0,
                          ![w].resetAt = AfterGrant(b).resetAt]
    /\ spent' = [spent EXCEPT ![k] = IF Active(b) THEN @ + 1 ELSE 1]
    /\ grants' = Append(IF Len(grants) < GlobalLimit THEN grants ELSE Tail(grants), now)
    /\ UNCHANGED <<now, discord, made, faults, told, excused>>

\* acquire: a refusal is waited out.
Refuse(w) ==
    LET b == store.buckets[req[w].key]
        delay == GlobalDelay(store) IN
    /\ At(w, "asking") /\ (delay > 0 \/ ~Grants(b))
    /\ req' = [req EXCEPT ![w].phase = "waiting",
                          ![w].wake = now + (IF delay > 0 THEN delay ELSE BucketWait(b)),
                          ![w].moves = delay = 0 /\ b.probe]
    /\ UNCHANGED <<now, store, discord, made, faults, spent, told, grants, excused>>

\* acquire: the wait is over; after a probe the key is resolved again.
Wake(w) ==
    /\ At(w, "waiting") /\ req[w].wake <= now
    /\ req' = [req EXCEPT ![w].phase = "asking", ![w].wake = 0, ![w].moves = FALSE,
                          ![w].key = IF req[w].moves THEN Resolve(w) ELSE @]
    /\ UNCHANGED <<now, store, discord, made, faults, spent, told, grants, excused>>

\* A wait ends with an error: the caller's signal, close(), maxQueueWait, or
\* twice maxBackoff.
Abandon(w) ==
    /\ At(w, "waiting")
    /\ req' = [req EXCEPT ![w] = Over(w)]
    /\ UNCHANGED <<now, store, discord, made, faults, spent, told, grants, excused>>

\* #attempts: aborted by the time the unit is there; it is given back.
Withdraw(w) ==
    LET r == req[w] IN
    /\ At(w, "granted")
    /\ SharedWithdraw \/ told[r.key] <= now
    /\ store' = Release(store, r, TRUE)
    /\ req' = [req EXCEPT ![w] = Over(w)]
    /\ spent' = [spent EXCEPT ![r.key] =
                    IF SameWindow(store, r) /\ @ > 0 THEN @ - 1 ELSE @]
    /\ UNCHANGED <<now, discord, made, faults, told, grants, excused>>

\* Discord's window after a request: a new one opens when the last is over.
NextWindow ==
    IF discord.reset <= now
    THEN [discord EXCEPT !.reset = now + Window, !.used = 1]
    ELSE IF discord.used < Limit THEN [discord EXCEPT !.used = @ + 1]
    ELSE [discord EXCEPT !.refused = TRUE]

\* Another probe for Discord's bucket is out, or was answered, under a key of
\* its own: two units are spent where the store will count one.
SecondProbe(w) ==
    /\ ~req[w].known
    /\ IF req[w].key # Hash
       THEN store.mapped # {} \/ \E v \in Workers : At(v, "sent") /\ req[v].key # req[w].key
       ELSE \/ ~store.buckets[Hash].probe
            \/ \E v \in Workers : At(v, "reconciling")

\* The attempt is sent, and counts at Discord, which answers what it says.
Send(w) ==
    /\ At(w, "granted")
    /\ discord' = NextWindow
    /\ req' = [req EXCEPT ![w].phase = "sent", ![w].since = now,
                  ![w].reply =
                    [kind |-> IF NextWindow.refused /\ NextWindow.used = discord.used
                              THEN "limited" ELSE "ok",
                     remaining |-> Limit - NextWindow.used,
                     after |-> NextWindow.reset - now,
                     window |-> NextWindow.reset]]
    /\ excused' = (excused \/ SecondProbe(w))
    /\ UNCHANGED <<now, store, made, faults, spent, told, grants>>

\* The answer is a global 429, comes from a proxy without headers, or never
\* comes; the request that is never answered may have counted.
SendAmiss(w, kind) ==
    /\ At(w, "granted") /\ faults < MaxFaults
    /\ faults' = faults + 1
    /\ \/ UNCHANGED discord
       \/ kind = "lost" /\ discord' = NextWindow
    /\ req' = [req EXCEPT ![w].phase = "sent", ![w].since = now,
                          ![w].reply = [NoReply EXCEPT !.kind = kind]]
    /\ excused' = (excused \/ kind = "lost")
    /\ UNCHANGED <<now, store, made, spent, told, grants>>

\* send() fails: no answer in time, or no connection.  Only a placeholder is
\* given back.  A failure other than the timeout may be retried.
Fail(w) ==
    /\ At(w, "sent") /\ req[w].reply.kind = "lost"
    /\ store' = Release(store, req[w], FALSE)
    /\ \/ req' = [req EXCEPT ![w] = Over(w)]
       \/ /\ req[w].attempt < MaxRetries /\ now < req[w].since + Timeout
          /\ req' = [req EXCEPT ![w] = Retried(@)]
    /\ UNCHANGED <<now, discord, made, faults, spent, told, grants, excused>>

\* applyResponse: the route's hash is recorded.
Receive(w) ==
    /\ At(w, "sent") /\ req[w].reply.kind # "lost"
    /\ req' = [req EXCEPT ![w].phase = "reconciling"]
    /\ IF req[w].reply.kind \in {"ok", "limited"}
       THEN store' = [store EXCEPT !.mapped = @ \cup {RouteOf[w]}]
       ELSE UNCHANGED store
    /\ UNCHANGED <<now, discord, made, faults, spent, told, grants, excused>>

\* The key the response belongs to.
KeyOfReply(w) == IF req[w].reply.kind \in {"ok", "limited"} THEN Hash ELSE req[w].key

\* applyResponse: what the headers say is merged into the bucket.
ApplyHeaders(w) ==
    LET k == KeyOfReply(w)
        b == store.buckets[k]
        u == req[w].reply IN
    /\ At(w, "reconciling")
    /\ store' = Reconcile(store, k, u)
    /\ req' = [req EXCEPT ![w].phase = "finishing"]
    /\ spent' = [spent EXCEPT ![k] =
                    IF (Active(b) /\ ~b.probe) \/ u.kind \notin {"ok", "limited"}
                    THEN @ ELSE 1]
    /\ told' = IF u.kind = "limited"
               THEN [told EXCEPT ![k] = Most(@, now + u.after)] ELSE told
    /\ UNCHANGED <<now, discord, made, faults, grants, excused>>

\* applyResponse: a placeholder under the route's key is cleared, a global 429
\* recorded; then the request is over or tried again.
Finish(w) ==
    LET r == req[w]
        next == [r EXCEPT !.key = KeyOfReply(w)] IN
    /\ At(w, "finishing")
    /\ store' = IF r.reply.kind = "global" THEN ExtendGlobal(store)
                ELSE IF KeyOfReply(w) # r.key THEN Release(store, r, FALSE)
                ELSE store
    /\ told' = IF r.reply.kind = "global"
               THEN [k \in Keys |-> Most(told[k], now + GlobalWait)] ELSE told
    /\ \/ req' = [req EXCEPT ![w] = Over(w)]
       \/ /\ r.reply.kind # "ok" /\ r.attempt < MaxRetries
          /\ req' = [req EXCEPT ![w] = Retried(next)]
    /\ UNCHANGED <<now, discord, made, faults, spent, grants, excused>>

\* Time passes while every worker waits for a timer or for an answer.
Tick ==
    /\ now + TICK <= Horizon
    /\ \A w \in Workers :
        \/ At(w, "idle")
        \/ At(w, "waiting") /\ req[w].wake > now
        \/ At(w, "sent") /\ now < req[w].since + Timeout
    /\ now' = now + TICK
    /\ excused' = (excused \/ \E w \in Workers : At(w, "sent"))
    /\ UNCHANGED <<store, req, discord, made, faults, spent, told, grants>>

Next ==
    \/ Tick
    \/ \E w \in Workers :
        \/ Start(w) \/ Grant(w) \/ Refuse(w) \/ Wake(w) \/ Abandon(w)
        \/ Withdraw(w) \/ Send(w) \/ Fail(w) \/ Receive(w)
        \/ ApplyHeaders(w) \/ Finish(w)
        \/ \E kind \in {"lost", "bare", "global"} : SendAmiss(w, kind)

Spec == Init /\ [][Next]_vars

-----------------------------------------------------------------------------
(***************************************************************************)
(* Properties.                                                             *)
(***************************************************************************)

\* The request that probes for bucket k still holds its placeholder.
Probes(w, k) ==
    /\ req[w].phase \in {"granted", "sent", "reconciling", "finishing"}
    /\ req[w].key = k /\ ~req[w].known
    /\ req[w].resetAt = store.buckets[k].resetAt

\* A placeholder never outlives its probe: while one stands, the request that
\* probes is on its way or its response is being applied.  Else everyone waits
\* out its whole lifetime (store.ts, reconcileState).
PlaceholderIsHeld ==
    \A k \in Keys :
        LET b == store.buckets[k] IN
        b.probe /\ Active(b) => \E w \in Workers : Probes(w, k)

\* At most one request at a time probes under a key: a second one cannot start
\* while the first is still out (index.ts, probeMs).
OneProbe ==
    \A v, w \in Workers :
        /\ v # w /\ req[v].key = req[w].key
        /\ req[v].phase = "sent" /\ req[w].phase = "sent"
        => req[v].known \/ req[w].known

\* No unit is handed out twice: what the store has left of a window and what
\* was handed out of it never exceed the limit, whatever the order of the
\* responses and of the units given back.
NoUnitTwice ==
    \A k \in Keys :
        LET b == store.buckets[k] IN
        Active(b) /\ ~b.probe => b.remaining + spent[k] <= Limit

\* Discord refuses a request for its bucket only where the client cannot know
\* better: after an answer that took time or was lost, or where two keys stood
\* for the bucket before its hash was known.
RefusedOnlyIfLate == discord.refused => excused

\* Any GlobalLimit + 1 grants span at least the global window, though the log
\* is shared, pruned and consulted before the bucket.
GlobalPaced ==
    [][\A w \in Workers :
        Grant(w) /\ Len(grants) = GlobalLimit => now >= grants[1] + GLOBAL_WINDOW]_vars

\* Nothing is granted on a key before the time that a 429 has told: neither a
\* later response, nor a unit given back, nor a sweep of the store shortens it,
\* as long as no answer is later than a window is long.
HonoursRetryAfter ==
    [][\A w \in Workers : Grant(w) => told[req[w].key] <= now]_vars

\* The state is well typed, a placeholder has a holder, and one request probes a bucket.
Inv == TypeOK /\ PlaceholderIsHeld /\ OneProbe

=============================================================================
