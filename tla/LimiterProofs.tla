--------------------------- MODULE LimiterProofs ---------------------------
(***************************************************************************)
(* Theorems about RateLimiter for any workers, routes, limits, windows,    *)
(* timeouts and retries, and any number of requests and of faults.         *)
(***************************************************************************)
EXTENDS RateLimiter, SequenceTheorems, FiniteSetTheorems, WellFoundedInduction, TLAPS

-----------------------------------------------------------------------------
(* What is in a bucket, and what a request knows of it.                    *)

\* A bucket that has no limit is a placeholder with nothing left, or none.
SoundBucket(b) ==
    /\ b \in BucketState
    /\ b.probe => b.limit = 0 /\ b.remaining = 0 /\ b.resetAt > 0
    /\ b.limit = 0 /\ ~b.probe => b = NoBucket

Carries(u) == u.kind \in {"ok", "limited"}

\* What Discord says of its window, in a reply that was sent at time t.
SoundReply(u, t) ==
    Carries(u) => /\ u.after > 0 /\ u.remaining < Limit
                  /\ u.window = t + u.after

\* The grant of a request is out, and the bucket it was taken from is still to
\* hear of it.
Key(r) == IF Carries(r.reply) THEN Hash ELSE r.key
Holds(r) ==
    \/ r.phase \in {"granted", "sent", "reconciling"}
    \/ r.phase = "finishing" /\ Key(r) # r.key

Since(r) == IF r.phase = "granted" THEN now ELSE r.since

\* The times of a request fit its phase.
Timely(r) ==
    /\ r.phase \in {"sent", "reconciling", "finishing"} =>
          /\ r.since <= now /\ now <= r.since + Timeout /\ r.since % 2 = 0
          /\ SoundReply(r.reply, r.since)
    /\ Holds(r) => r.resetAt > 0
    /\ Holds(r) /\ ~r.known => r.resetAt = Since(r) + ProbeTime

\* The bucket of a request in flight is its placeholder, or has a limit and
\* a window that ends after the request was sent.
Kept(r, b) ==
    \/ b.limit = Limit /\ b.resetAt > Since(r)
    \/ ~r.known /\ b.probe /\ b.resetAt = r.resetAt

Discovers(r) == Holds(r) /\ ~r.known

-----------------------------------------------------------------------------
(* Numbers.                                                                *)

LEMMA Consts ==
    /\ Limit \in Nat /\ Limit > 0 /\ Window \in Nat /\ Window > 0
    /\ GlobalLimit \in Nat /\ GlobalLimit > 0
    /\ GLOBAL_WINDOW \in Nat /\ GLOBAL_WINDOW > 0
    /\ GlobalWait \in Nat /\ GlobalWait > 0 /\ Timeout \in Nat /\ Timeout > 0
    /\ BUCKET_LINGER \in Nat /\ Timeout <= BUCKET_LINGER
    /\ MaxRetries \in Nat /\ MaxRequests \in Nat /\ MaxFaults \in Nat /\ Horizon \in Nat
    /\ Hash \notin Routes /\ RouteOf \in [Workers -> Routes]
  BY LimiterAssumption

LEMMA Numbers ==
    /\ ProbeTime = Timeout + 1 /\ TICK = 2 /\ PROBE_POLL = 2
    /\ Later = Horizon + Timeout + Window + GlobalWait + GLOBAL_WINDOW + 1
    /\ Later \in Nat /\ ProbeTime \in Nat
  BY Consts DEF ProbeTime, TICK, PROBE_POLL, Later

\* A time that is told now.
LEMMA Ahead ==
    ASSUME now \in 0..Horizon, NEW d \in Nat,
           \/ d <= Horizon + Timeout + Window + GlobalWait + GLOBAL_WINDOW + 1 - now
           \/ d <= Timeout + Window + GlobalWait + GLOBAL_WINDOW + 1
    PROVE  now + d \in 0..Later
  BY Consts, Numbers

-----------------------------------------------------------------------------
(* Buckets.                                                                *)

LEMMA NoBucketSound == SoundBucket(NoBucket)
  BY Consts, Numbers DEF SoundBucket, NoBucket, BucketState

LEMMA BucketOf ==
    ASSUME NEW b, b \in BucketState
    PROVE  /\ b.remaining \in 0..Limit /\ b.resetAt \in 0..Later /\ b.limit \in {0, Limit}
           /\ b.window \in 0..Later /\ b.provisional \in BOOLEAN /\ b.probe \in BOOLEAN
           /\ b.remaining \in Nat /\ b.resetAt \in Nat /\ b.limit \in Nat /\ b.window \in Nat
  BY Consts, Numbers DEF BucketState

LEMMA GrantSound ==
    ASSUME now \in 0..Horizon, NEW b, SoundBucket(b), Grants(b)
    PROVE  /\ SoundBucket(AfterGrant(b)) /\ Active(AfterGrant(b))
           /\ AfterGrant(b).limit = b.limit
           /\ Active(b) => /\ ~b.probe /\ ~AfterGrant(b).probe
                           /\ b.limit = Limit /\ AfterGrant(b).resetAt = b.resetAt
                           /\ AfterGrant(b).remaining = b.remaining - 1
           /\ ~Active(b) => /\ AfterGrant(b).resetAt = now + ProbeTime
                            /\ AfterGrant(b).probe <=> b.limit = 0
                            /\ AfterGrant(b).remaining <= Limit - 1
           /\ AfterGrant(b).window = IF Active(b) THEN b.window ELSE 0
  <1>1. /\ b.remaining \in Nat /\ b.remaining <= Limit /\ b.resetAt \in 0..Later
        /\ b.limit \in {0, Limit} /\ b.probe \in BOOLEAN /\ b \in BucketState
    BY BucketOf DEF SoundBucket
  <1>2. now \in Nat
    BY Consts
  <1>3. CASE Active(b)
    <2>1. AfterGrant(b) = [b EXCEPT !.remaining = b.remaining - 1]
      BY <1>3 DEF AfterGrant
    <2>2. b.remaining > 0
      BY <1>3 DEF Grants
    <2>3. ~b.probe /\ b.limit = Limit
      <3>1. ~b.probe
        BY <2>2 DEF SoundBucket
      <3>2. b # NoBucket
        BY <2>2 DEF NoBucket
      <3> QED BY <1>1, <3>1, <3>2 DEF SoundBucket
    <2>4. b.remaining - 1 \in 0..Limit
      BY <1>1, <2>2, Consts
    <2> DEFINE c == [b EXCEPT !.remaining = b.remaining - 1]
    <2>5. /\ c \in BucketState /\ c.remaining = b.remaining - 1 /\ c.resetAt = b.resetAt
          /\ c.limit = b.limit /\ c.probe = b.probe /\ c.window = b.window
      BY <1>1, <2>4 DEF BucketState
    <2> HIDE DEF c
    <2> QED BY <1>3, <2>1, <2>3, <2>5, Consts DEF c, SoundBucket, Active
  <1>4. CASE ~Active(b)
    <2> DEFINE m == Most(b.limit, 1) - 1
               z == (b.limit = 0)
               e == now + ProbeTime
               c == [remaining |-> m, resetAt |-> e, limit |-> b.limit, window |-> 0,
                     provisional |-> TRUE, probe |-> z]
    <2>1. AfterGrant(b) = c
      BY <1>4 DEF AfterGrant, OpenWindow, NoBucket
    <2>2. m \in 0..Limit /\ m <= Limit - 1 /\ (z => m = 0)
      BY <1>1, Consts DEF Most
    <2>3. e \in 0..Later /\ e > now /\ e \in Nat
      BY <1>2, Numbers, Consts, Ahead
    <2>4. z \in BOOLEAN
      OBVIOUS
    <2> HIDE DEF m, e, z
    <2>5. c \in BucketState
      BY <1>1, <2>2, <2>3, <2>4, Numbers DEF BucketState
    <2>6. /\ c.remaining = m /\ c.resetAt = e /\ c.limit = b.limit /\ c.probe = z
          /\ c.window = 0
      OBVIOUS
    <2> HIDE DEF c
    <2>7. SoundBucket(c) /\ Active(c)
      <3>1. c.resetAt > 0
        BY <1>2, <2>3, <2>6
      <3>2. c.probe => c.limit = 0 /\ c.remaining = 0
        BY <2>2, <2>6 DEF z
      <3>3. c.limit = 0 => c.probe
        BY <2>6 DEF z
      <3> QED BY <2>3, <2>5, <2>6, <3>1, <3>2, <3>3 DEF SoundBucket, Active
    <2> QED BY <1>4, <2>1, <2>2, <2>6, <2>7 DEF e, z
  <1> QED BY <1>3, <1>4

\* The window that a response makes of a bucket, but for a 429.
Merged(b, u) == IF Active(b) /\ ~b.probe THEN MergeWindow(b, u)
                ELSE [NoBucket EXCEPT !.remaining = u.remaining,
                                      !.resetAt = now + u.after,
                                      !.window = u.window]

LEMMA MergedSound ==
    ASSUME now \in 0..Horizon, NEW b, SoundBucket(b), NEW u \in Replies,
           u.after > 0, u.remaining < Limit, NEW m, m = Merged(b, u)
    PROVE  /\ m \in BucketState /\ m.resetAt > now /\ ~m.probe
           /\ Active(b) /\ ~b.probe => m.remaining <= b.remaining
           /\ m.remaining < Limit \/ (Active(b) /\ ~b.probe)
           /\ m.window \in {b.window, u.window} /\ m.window >= u.window
           /\ Active(b) /\ ~b.probe /\ ~b.provisional =>
                  /\ ~m.provisional /\ m.window >= b.window
                  /\ \/ m.resetAt >= b.resetAt
                     \/ b.window # 0 /\ u.window > b.window /\ m.resetAt = now + u.after
  <1>1. /\ b.remaining \in Nat /\ b.remaining <= Limit /\ b.resetAt \in 0..Later
        /\ b.resetAt \in Nat /\ b.window \in 0..Later /\ b.window \in Nat
        /\ b \in BucketState /\ b.provisional \in BOOLEAN
    BY BucketOf DEF SoundBucket
  <1>2. /\ u.remaining \in Nat /\ u.remaining <= Limit /\ u.after \in Nat
        /\ u.after <= Window /\ u.window \in 0..Later /\ u.window \in Nat
    BY Consts, Numbers DEF Replies
  <1>3. now + u.after \in 0..Later /\ now + u.after \in Nat /\ now + u.after > now /\ now \in Nat
    BY <1>2, Consts, Ahead
  <1>4. CASE Active(b) /\ ~b.probe
    <2>1. m = MergeWindow(b, u)
      BY <1>4 DEF Merged
    <2>2. b.resetAt > now
      BY <1>4 DEF Active
    <2>3. CASE b.window # 0 /\ u.window < b.window
      <3>1. m = b
        BY <2>1, <2>3 DEF MergeWindow
      <3> QED BY <1>1, <1>2, <1>4, <2>2, <2>3, <3>1
    <2>4. CASE ~(b.window # 0 /\ u.window < b.window)
      <3> DEFINE left == RemainingAfter(b, u)
                 e == IF b.provisional \/ (b.window # 0 /\ u.window > b.window)
                      THEN now + u.after ELSE Most(b.resetAt, now + u.after)
                 f == Most(b.window, u.window)
                 d == [b EXCEPT !.remaining = left, !.resetAt = e, !.provisional = FALSE,
                                !.window = f]
      <3>1. left \in 0..Limit /\ left <= b.remaining
        BY <1>1, <1>2, Consts DEF RemainingAfter, Least
      <3>2. e \in 0..Later /\ e > now
        BY <1>1, <1>3, <2>2, Numbers DEF Most
      <3>3. f \in 0..Later
        BY <1>1, <1>2 DEF Most
      <3>4. /\ f \in {b.window, u.window} /\ f >= u.window /\ f >= b.window
            /\ ~b.provisional => \/ e >= b.resetAt
                                 \/ b.window # 0 /\ u.window > b.window /\ e = now + u.after
        BY <1>1, <1>2, <1>3 DEF Most
      <3>5. m = d
        BY <2>1, <2>4 DEF MergeWindow
      <3> HIDE DEF left, e, f
      <3>6. /\ d \in BucketState /\ d.remaining = left /\ d.resetAt = e /\ d.probe = b.probe
            /\ d.window = f /\ ~d.provisional
        BY <1>1, <3>1, <3>2, <3>3 DEF BucketState
      <3> HIDE DEF d
      <3> QED BY <1>4, <3>1, <3>2, <3>4, <3>5, <3>6
    <2> QED BY <2>3, <2>4
  <1>5. CASE ~(Active(b) /\ ~b.probe)
    <2> DEFINE d == [remaining |-> u.remaining, resetAt |-> now + u.after, limit |-> 0,
                     window |-> u.window, provisional |-> FALSE, probe |-> FALSE]
    <2>1. m = d
      BY <1>5 DEF NoBucket, Merged
    <2>2. d \in BucketState
      BY <1>2, <1>3, Consts DEF BucketState
    <2> QED BY <1>2, <1>3, <1>5, <2>1, <2>2
  <1> QED BY <1>4, <1>5

LEMMA MergeSound ==
    ASSUME now \in 0..Horizon, NEW b, SoundBucket(b), NEW u \in Replies, Carries(u),
           u.after > 0, u.remaining < Limit
    PROVE  /\ SoundBucket(Merge(b, u)) /\ Active(Merge(b, u))
           /\ Merge(b, u).limit = Limit /\ ~Merge(b, u).probe
           /\ Active(b) /\ ~b.probe => Merge(b, u).remaining <= b.remaining
           /\ Merge(b, u).remaining < Limit \/ (Active(b) /\ ~b.probe)
  <1>1. /\ b.remaining \in Nat /\ b.remaining <= Limit /\ b.resetAt \in 0..Later
        /\ b.resetAt \in Nat /\ b.window \in 0..Later /\ b.window \in Nat
        /\ b.limit \in {0, Limit} /\ b.probe \in BOOLEAN /\ b \in BucketState
        /\ b.provisional \in BOOLEAN
    BY BucketOf DEF SoundBucket
  <1>2. /\ u.remaining \in Nat /\ u.remaining <= Limit /\ u.after \in Nat
        /\ u.after <= Window /\ u.window \in 0..Later /\ u.window \in Nat
    BY Consts, Numbers DEF Replies
  <1> DEFINE incoming == now + u.after
  <1>3. incoming \in 0..Later /\ incoming \in Nat /\ incoming > now /\ now \in Nat
    BY <1>2, Consts, Ahead
  <1> DEFINE merged == Merged(b, u)
             c == [merged EXCEPT !.limit = Limit]
  <1>4. /\ merged \in BucketState /\ merged.resetAt > now /\ ~merged.probe
        /\ Active(b) /\ ~b.probe => merged.remaining <= b.remaining
        /\ merged.remaining < Limit \/ (Active(b) /\ ~b.probe)
    BY MergedSound
  <1>5. Merge(b, u) = SpendOn429(c, u)
    BY DEF Merge, Merged
  <1> HIDE DEF merged
  <1>6. /\ c \in BucketState /\ c.resetAt > now /\ ~c.probe /\ c.limit = Limit
        /\ c.remaining = merged.remaining /\ c.resetAt \in 0..Later /\ c.resetAt \in Nat
    BY <1>4, Consts, Numbers DEF BucketState
  <1> HIDE DEF c
  <1>7. CASE u.kind # "limited"
    BY <1>4, <1>5, <1>6, <1>7, Consts DEF SpendOn429, SoundBucket, Active
  <1>8. CASE u.kind = "limited"
    <2> DEFINE e == Most(c.resetAt, incoming)
               d == [c EXCEPT !.remaining = 0, !.resetAt = e, !.provisional = FALSE]
    <2>1. e \in 0..Later /\ e > now
      BY <1>3, <1>6 DEF Most
    <2>2. Merge(b, u) = d
      BY <1>5, <1>8 DEF SpendOn429
    <2> HIDE DEF e
    <2>0. 0 \in 0..Limit
      BY Consts
    <2>3. /\ d \in BucketState /\ d.remaining = 0 /\ d.resetAt = e
          /\ d.probe = c.probe /\ d.limit = c.limit
      BY <1>6, <2>0, <2>1 DEF BucketState
    <2> HIDE DEF d
    <2> QED BY <1>1, <1>6, <2>1, <2>2, <2>3, Consts DEF SoundBucket, Active
  <1> QED BY <1>7, <1>8

-----------------------------------------------------------------------------
(* The store.                                                              *)

Stores == [buckets: [Keys -> BucketState], mapped: SUBSET Routes,
           globalReset: 0..Later, log: Seq(0..Horizon), lastPrune: 0..Horizon]

SoundStore(s) == s \in Stores /\ \A k \in Keys : SoundBucket(s.buckets[k])

\* What a sweep makes of a bucket, and of a log.
Swept(b, c) == c = b \/ (c = NoBucket /\ b.resetAt <= now - BUCKET_LINGER)
Trimmed(l, m) ==
    m = l \/ (m = <<>> /\ (l # <<>> => l[Len(l)] <= now - GLOBAL_WINDOW))

\* Bucket k of store s becomes b, and the store is swept perhaps.
Rewrites(s, t, k, b) ==
    /\ SoundStore(t)
    /\ Swept(b, t.buckets[k])
    /\ \A j \in Keys \ {k} : Swept(s.buckets[j], t.buckets[j])

\* What is said of all buckets is swept at most.
Spares(s, t) ==
    /\ t.globalReset = s.globalReset \/ (t.globalReset = 0 /\ s.globalReset <= now)
    /\ Trimmed(s.log, t.log)

LEMMA StoreOf ==
    ASSUME NEW s, s \in Stores
    PROVE  /\ s.buckets \in [Keys -> BucketState] /\ s.mapped \in SUBSET Routes
           /\ s.globalReset \in 0..Later /\ s.log \in Seq(0..Horizon)
           /\ s.lastPrune \in 0..Horizon
  BY DEF Stores

LEMMA LogOf ==
    ASSUME NEW l \in Seq(0..Horizon), l # <<>>
    PROVE  l[Len(l)] \in 0..Horizon
  <1>1. Len(l) \in Nat /\ Len(l) # 0
    BY EmptySeq, LenProperties
  <1>2. Len(l) \in 1..Len(l)
    BY <1>1
  <1> QED BY <1>2, ElementOfSeq

LEMMA PruneSound ==
    ASSUME now \in 0..Horizon, NEW s, SoundStore(s)
    PROVE  /\ SoundStore(Prune(s))
           /\ \A k \in Keys : Swept(s.buckets[k], Prune(s).buckets[k])
           /\ \/ Prune(s).globalReset = s.globalReset
              \/ Prune(s).globalReset = 0 /\ s.globalReset <= now
           /\ Trimmed(s.log, Prune(s).log)
  <1>1. CASE now - s.lastPrune < PRUNE_INTERVAL
    BY <1>1 DEF Prune, Swept, Trimmed
  <1>2. CASE ~(now - s.lastPrune < PRUNE_INTERVAL)
    <2> DEFINE f == [k \in Keys |-> IF s.buckets[k].resetAt <= now - BUCKET_LINGER
                                    THEN NoBucket ELSE s.buckets[k]]
               g == IF s.globalReset <= now THEN 0 ELSE s.globalReset
               l == IF s.log # <<>> /\ s.log[Len(s.log)] > now - GLOBAL_WINDOW
                    THEN s.log ELSE <<>>
               t == [s EXCEPT !.lastPrune = now, !.buckets = f, !.globalReset = g, !.log = l]
    <2>1. s \in Stores
      BY DEF SoundStore
    <2>2. Prune(s) = t
      BY <1>2 DEF Prune
    <2>3. \A k \in Keys : SoundBucket(f[k]) /\ f[k] \in BucketState /\ Swept(s.buckets[k], f[k])
      BY NoBucketSound DEF SoundStore, SoundBucket, Swept
    <2>4. f \in [Keys -> BucketState]
      BY <2>3
    <2>5. g \in 0..Later /\ (g = s.globalReset \/ (g = 0 /\ s.globalReset <= now))
      BY <2>1, StoreOf, Numbers
    <2>6. l \in Seq(0..Horizon)
      <3>1. s.log \in Seq(0..Horizon) /\ <<>> \in Seq(0..Horizon)
        BY <2>1, StoreOf, EmptySeq
      <3>2. l = s.log \/ l = <<>>
        OBVIOUS
      <3> HIDE DEF l
      <3> QED BY <3>1, <3>2
    <2>7. Trimmed(s.log, l)
      <3>1. CASE s.log # <<>> /\ s.log[Len(s.log)] > now - GLOBAL_WINDOW
        BY <3>1 DEF Trimmed
      <3>2. CASE s.log = <<>>
        BY <3>2 DEF Trimmed
      <3>3. CASE s.log # <<>> /\ ~(s.log[Len(s.log)] > now - GLOBAL_WINDOW)
        <4>1. s.log[Len(s.log)] \in 0..Horizon
          BY <2>1, <3>3, StoreOf, LogOf
        <4>2. s.log[Len(s.log)] <= now - GLOBAL_WINDOW
          BY <3>3, <4>1, Consts
        <4> QED BY <3>3, <4>2 DEF Trimmed
      <3> QED BY <3>1, <3>2, <3>3
    <2> HIDE DEF f, g, l
    <2>8. t \in Stores
      BY <2>1, <2>4, <2>5, <2>6 DEF Stores
    <2>9. t.buckets = f /\ t.globalReset = g /\ t.log = l
      BY <2>1 DEF Stores
    <2> HIDE DEF t
    <2> QED BY <2>2, <2>3, <2>5, <2>7, <2>8, <2>9 DEF SoundStore
  <1> QED BY <1>1, <1>2

Put(s, k, b) == [s EXCEPT !.buckets[k] = b]

LEMMA SetsBucket ==
    ASSUME NEW s, SoundStore(s), NEW k \in Keys, NEW b, SoundBucket(b),
           NEW t, t = Put(s, k, b)
    PROVE  /\ SoundStore(t) /\ t.buckets[k] = b
           /\ \A j \in Keys \ {k} : t.buckets[j] = s.buckets[j]
           /\ t.globalReset = s.globalReset /\ t.log = s.log
  <1> DEFINE f == [s.buckets EXCEPT ![k] = b]
  <1>1. s \in Stores /\ s.buckets \in [Keys -> BucketState]
    BY StoreOf DEF SoundStore
  <1>2. /\ f \in [Keys -> BucketState] /\ f[k] = b
        /\ \A j \in Keys \ {k} : f[j] = s.buckets[j]
    BY <1>1 DEF SoundBucket
  <1>3. t = [s EXCEPT !.buckets = f]
    BY DEF Put
  <1> HIDE DEF f
  <1>4. t \in Stores /\ t.buckets = f /\ t.globalReset = s.globalReset /\ t.log = s.log
    BY <1>1, <1>2, <1>3 DEF Stores
  <1>5. \A j \in Keys : SoundBucket(f[j])
    BY <1>2 DEF SoundStore
  <1> QED BY <1>2, <1>4, <1>5 DEF SoundStore

LEMMA Sets ==
    ASSUME NEW s, SoundStore(s), NEW k \in Keys, NEW b, SoundBucket(b),
           NEW t, t = Put(s, k, b)
    PROVE  Rewrites(s, t, k, b) /\ Spares(s, t)
  <1>1. /\ SoundStore(t) /\ t.buckets[k] = b
        /\ \A j \in Keys \ {k} : t.buckets[j] = s.buckets[j]
        /\ t.globalReset = s.globalReset /\ t.log = s.log
    BY SetsBucket
  <1> QED BY <1>1 DEF Rewrites, Spares, Swept, Trimmed

LEMMA Leaves ==
    ASSUME NEW s, SoundStore(s), NEW k \in Keys
    PROVE  Rewrites(s, s, k, s.buckets[k]) /\ Spares(s, s)
  BY DEF Rewrites, Spares, Swept, Trimmed

LEMMA WriteSound ==
    ASSUME now \in 0..Horizon, NEW s, SoundStore(s), NEW k \in Keys, NEW b, SoundBucket(b),
           NEW u, u = WriteBucket(s, k, b)
    PROVE  Rewrites(s, u, k, b) /\ Spares(s, u)
  <1> DEFINE t == Put(s, k, b)
  <1>2. u = Prune(t)
    BY DEF WriteBucket, Put
  <1>3. t = Put(s, k, b)
    OBVIOUS
  <1> HIDE DEF t
  <1>1. /\ SoundStore(t) /\ t.buckets[k] = b
        /\ \A j \in Keys \ {k} : t.buckets[j] = s.buckets[j]
        /\ t.globalReset = s.globalReset /\ t.log = s.log
    BY <1>3, SetsBucket
  <1>4. /\ SoundStore(u) /\ \A j \in Keys : Swept(t.buckets[j], u.buckets[j])
        /\ u.globalReset = t.globalReset \/ (u.globalReset = 0 /\ t.globalReset <= now)
        /\ Trimmed(t.log, u.log)
    BY <1>1, <1>2, PruneSound
  <1>5. Swept(b, u.buckets[k]) /\ \A j \in Keys \ {k} : Swept(s.buckets[j], u.buckets[j])
    BY <1>1, <1>4
  <1>6. /\ u.globalReset = s.globalReset \/ (u.globalReset = 0 /\ s.globalReset <= now)
        /\ Trimmed(s.log, u.log)
    BY <1>1, <1>4
  <1> QED BY <1>4, <1>5, <1>6 DEF Rewrites, Spares

-----------------------------------------------------------------------------
(* What the calls of the store do.                                         *)

\* The log, at its own: the sends that have left the window are gone.
LEMMA ExpiredOf ==
    ASSUME NEW l \in Seq(0..Horizon), now \in 0..Horizon
    PROVE  /\ Expired(l) \in 0..Len(l)
           /\ \A i \in 1..Expired(l) : l[i] <= now - GLOBAL_WINDOW
           /\ Expired(l) < Len(l) => l[Expired(l) + 1] > now - GLOBAL_WINDOW
  <1> DEFINE Stays(n) == n < Len(l) => l[n + 1] > now - GLOBAL_WINDOW
             T == {n \in 0..Len(l) : Stays(n)}
  <1>1. Len(l) \in Nat /\ \A i \in 1..Len(l) : l[i] \in 0..Horizon
    BY LenProperties, ElementOfSeq
  <1>2. Len(l) \in T /\ T \subseteq Nat /\ T # {}
    BY <1>1
  <1>3. PICK n \in T : \A m \in T : ~(<<m, n>> \in OpToRel(<, Nat))
    BY <1>2, NatLessThanWellFounded, WFMin
  <1>4. \A i \in 1..n : l[i] <= now - GLOBAL_WINDOW
    <2> SUFFICES ASSUME NEW i \in 1..n PROVE l[i] <= now - GLOBAL_WINDOW
      OBVIOUS
    <2>1. n \in Nat /\ n <= Len(l) /\ i - 1 \in Nat /\ i - 1 < n /\ i \in 1..Len(l)
          /\ (i - 1) + 1 = i /\ i - 1 \in 0..Len(l) /\ i - 1 < Len(l)
      BY <1>1
    <2> DEFINE m == i - 1
    <2>2. <<m, n>> \in OpToRel(<, Nat)
      BY <2>1 DEF OpToRel
    <2>3. m \notin T
      BY <1>3, <2>2
    <2>4. ~Stays(m)
      BY <2>1, <2>3
    <2>5. ~(l[i] > now - GLOBAL_WINDOW)
      BY <2>1, <2>4
    <2>6. l[i] \in Nat /\ now \in Nat
      BY <1>1, <2>1, Consts
    <2> QED BY <2>5, <2>6, Consts
  <1>5. /\ n \in 0..Len(l)
        /\ \A i \in 1..n : l[i] <= now - GLOBAL_WINDOW
        /\ n < Len(l) => l[n + 1] > now - GLOBAL_WINDOW
    BY <1>4
  <1> QED BY <1>5 DEF Expired

LEMMA RecentOf ==
    ASSUME now \in 0..Horizon, NEW s, SoundStore(s), NEW l, l = RecentSends(s),
           NEW e, e = Expired(s.log)
    PROVE  /\ Len(s.log) \in Nat /\ e \in 0..Len(s.log) /\ s.log \in Seq(0..Horizon)
           /\ l \in Seq(0..Horizon) /\ Len(l) = Len(s.log) - e
           /\ \A i \in 1..Len(l) : l[i] = s.log[e + i]
           /\ \A i \in 1..e : s.log[i] <= now - GLOBAL_WINDOW
           /\ e < Len(s.log) => l[1] > now - GLOBAL_WINDOW
  <1>1. s.log \in Seq(0..Horizon)
    BY StoreOf DEF SoundStore
  <1>2. Len(s.log) \in Nat
    BY <1>1, LenProperties
  <1>3. /\ e \in 0..Len(s.log) /\ \A i \in 1..e : s.log[i] <= now - GLOBAL_WINDOW
        /\ e < Len(s.log) => s.log[e + 1] > now - GLOBAL_WINDOW
    BY <1>1, ExpiredOf
  <1>4. l = SubSeq(s.log, e + 1, Len(s.log))
    BY DEF RecentSends
  <1>5. e + 1 \in 1..(Len(s.log) + 1) /\ Len(s.log) \in e..Len(s.log)
    BY <1>2, <1>3
  <1>6. /\ l \in Seq(0..Horizon) /\ Len(l) = Len(s.log) - e
        /\ \A i \in 1..(Len(s.log) - e) : l[i] = s.log[e + i]
    <2>1. /\ l \in Seq(0..Horizon)
          /\ Len(l) = (IF e + 1 <= Len(s.log) THEN Len(s.log) - (e + 1) + 1 ELSE 0)
          /\ \A i \in 1..(Len(s.log) - (e + 1) + 1) : l[i] = s.log[(e + 1) + i - 1]
      <3>1. \A i \in (e + 1) .. Len(s.log) : s.log[i] \in 0..Horizon
        <4>1. \A i \in (e + 1) .. Len(s.log) : i \in 1..Len(s.log)
          BY <1>2, <1>3
        <4> QED BY <1>1, <4>1, ElementOfSeq
      <3>2. e + 1 \in Int /\ Len(s.log) \in Int
        BY <1>2, <1>3
      <3> QED BY <1>4, <3>1, <3>2, SubSeqProperties
    <2>2. Len(s.log) - (e + 1) + 1 = Len(s.log) - e
      BY <1>2, <1>3
    <2>3. \A i \in 1..(Len(s.log) - e) : (e + 1) + i - 1 = e + i
      BY <1>2, <1>3
    <2> QED BY <1>2, <1>3, <2>1, <2>2, <2>3
  <1>7. e < Len(s.log) => l[1] = s.log[e + 1]
    <2> HAVE e < Len(s.log)
    <2>1. 1 \in 1..(Len(s.log) - e)
      BY <1>2, <1>3
    <2> QED BY <1>6, <2>1
  <1> QED BY <1>1, <1>2, <1>3, <1>6, <1>7

LEMMA ReserveSound ==
    ASSUME now \in 0..Horizon, NEW s, SoundStore(s), NEW k \in Keys,
           Grants(s.buckets[k]), NEW t, t = Reserve(s, k)
    PROVE  /\ Rewrites(s, t, k, AfterGrant(s.buckets[k]))
           /\ t.globalReset = s.globalReset \/ (t.globalReset = 0 /\ s.globalReset <= now)
           /\ t.log = Append(RecentSends(s), now)
  <1> DEFINE b == AfterGrant(s.buckets[k])
             l == RecentSends(s)
             m == Append(l, now)
             u == [s EXCEPT !.log = m]
  <1>1. l \in Seq(0..Horizon)
    BY RecentOf
  <1>2. m \in Seq(0..Horizon) /\ m # <<>> /\ Len(m) = Len(l) + 1 /\ m[Len(m)] = now
    BY <1>1, AppendProperties
  <1>3. t = WriteBucket(u, k, b)
    BY DEF Reserve
  <1>4. s \in Stores
    BY DEF SoundStore
  <1> HIDE DEF l, m
  <1>5. u \in Stores /\ u.buckets = s.buckets /\ u.globalReset = s.globalReset /\ u.log = m
    BY <1>2, <1>4 DEF Stores
  <1> HIDE DEF u
  <1>6. SoundStore(u)
    BY <1>5 DEF SoundStore
  <1>7. SoundBucket(b)
    BY GrantSound DEF SoundStore
  <1> HIDE DEF b
  <1>8. Rewrites(u, t, k, b) /\ Spares(u, t)
    BY <1>3, <1>6, <1>7, WriteSound
  <1>9. Rewrites(s, t, k, b)
    BY <1>5, <1>8 DEF Rewrites
  <1>10. t.log = m
    BY <1>2, <1>5, <1>8, Consts DEF Spares, Trimmed
  <1>11. t.globalReset = s.globalReset \/ (t.globalReset = 0 /\ s.globalReset <= now)
    BY <1>5, <1>8 DEF Spares
  <1> QED BY <1>9, <1>10, <1>11 DEF b, m, l

LEMMA ReconcileSound ==
    ASSUME now \in 0..Horizon, NEW s, SoundStore(s), NEW k \in Keys, NEW u \in Replies,
           Carries(u), u.after > 0, u.remaining < Limit, NEW t, t = Reconcile(s, k, u)
    PROVE  Rewrites(s, t, k, Merge(s.buckets[k], u)) /\ Spares(s, t)
  <1> DEFINE b == Merge(s.buckets[k], u)
  <1>1. SoundBucket(b)
    BY MergeSound DEF SoundStore
  <1>2. t = WriteBucket(s, k, b)
    BY DEF Reconcile, Carries
  <1> HIDE DEF b
  <1>3. Rewrites(s, t, k, b) /\ Spares(s, t)
    BY <1>1, <1>2, WriteSound
  <1> QED BY <1>3 DEF b

LEMMA BareSound ==
    ASSUME now \in 0..Horizon, NEW s, SoundStore(s), NEW k \in Keys, NEW u,
           ~Carries(u), NEW t, t = Reconcile(s, k, u)
    PROVE  /\ Spares(s, t)
           /\ s.buckets[k].probe => Rewrites(s, t, k, NoBucket)
           /\ ~s.buckets[k].probe => Rewrites(s, t, k, s.buckets[k])
  <1> DEFINE b == s.buckets[k]
  <1>1. SoundBucket(b)
    BY DEF SoundStore
  <1>2. t = LearnNothing(s, k)
    BY DEF Reconcile, Carries
  <1>3. CASE b.probe
    <2>1. t = Put(s, k, NoBucket)
      BY <1>2, <1>3 DEF LearnNothing, Put
    <2>2. Rewrites(s, t, k, NoBucket) /\ Spares(s, t)
      BY <2>1, NoBucketSound, Sets
    <2> QED BY <1>3, <2>2
  <1>4. CASE ~b.probe /\ Active(b)
    <2>1. t = WriteBucket(s, k, b)
      BY <1>2, <1>4 DEF LearnNothing
    <2> HIDE DEF b
    <2>2. Rewrites(s, t, k, b) /\ Spares(s, t)
      BY <1>1, <2>1, WriteSound
    <2> QED BY <1>4, <2>2 DEF b
  <1>5. CASE ~b.probe /\ ~Active(b)
    <2>1. t = s
      BY <1>2, <1>5 DEF LearnNothing
    <2> QED BY <1>5, <2>1, Leaves
  <1> QED BY <1>3, <1>4, <1>5

\* What a release makes of the bucket that it finds.
Refunded(b) == IF b.limit = 0 THEN b.remaining + 1 ELSE Least(b.remaining + 1, b.limit)
Released(b, c, same, refund) ==
    \/ c = b /\ ~(same /\ b.probe)
    \/ same /\ b.probe /\ c = NoBucket
    \/ /\ same /\ ~b.probe /\ refund /\ SoundBucket(c)
       /\ c.limit = b.limit /\ c.resetAt = b.resetAt /\ ~c.probe /\ c.window = b.window
       /\ c.remaining <= b.remaining + 1 /\ c.remaining <= Limit

LEMMA ReleaseSound ==
    ASSUME now \in 0..Horizon, NEW s, SoundStore(s), NEW r \in Request, r.resetAt > 0,
           NEW refund \in BOOLEAN, NEW t, t = Release(s, r, refund)
    PROVE  /\ Spares(s, t)
           /\ \E c : /\ Released(s.buckets[r.key], c, SameWindow(s, r), refund)
                     /\ Rewrites(s, t, r.key, c)
  <1> DEFINE k == r.key
             b == s.buckets[k]
  <1>1. k \in Keys /\ r.resetAt \in 0..Later
    BY DEF Request
  <1>2. SoundBucket(b) /\ b \in BucketState
    BY <1>1 DEF SoundStore, SoundBucket
  <1>3. CASE ~SameWindow(s, r) \/ (~b.probe /\ ~refund)
    <2>1. t = s
      BY <1>3 DEF Release
    <2>2. Rewrites(s, t, k, b) /\ Spares(s, t)
      BY <1>1, <2>1, Leaves
    <2>3. Released(b, b, SameWindow(s, r), refund)
      BY <1>3 DEF Released
    <2> QED BY <2>2, <2>3
  <1>4. CASE SameWindow(s, r) /\ b.probe
    <2>1. t = Put(s, k, NoBucket)
      BY <1>4 DEF Release, Put
    <2>2. Rewrites(s, t, k, NoBucket) /\ Spares(s, t)
      BY <1>1, <2>1, NoBucketSound, Sets
    <2>3. Released(b, NoBucket, SameWindow(s, r), refund)
      BY <1>4 DEF Released
    <2> QED BY <2>2, <2>3
  <1>5. CASE SameWindow(s, r) /\ ~b.probe /\ refund
    <2> DEFINE m == Refunded(b)
               c == [b EXCEPT !.remaining = m]
               f == [s.buckets EXCEPT ![k] = c]
    <2>1. b.resetAt # 0
      BY <1>1, <1>5 DEF SameWindow
    <2>2. b.limit = Limit /\ b.limit # 0
      <3>1. b # NoBucket
        BY <2>1 DEF NoBucket
      <3>2. b.limit \in {0, Limit}
        BY <1>2, BucketOf
      <3> QED BY <1>2, <1>5, <3>1, <3>2, Consts DEF SoundBucket
    <2>3. b.remaining \in 0..Limit
      BY <1>2, BucketOf
    <2>4. m \in 0..Limit /\ m <= b.remaining + 1
      BY <2>2, <2>3, Consts DEF Least, Refunded
    <2>5. t = [s EXCEPT !.buckets[k].remaining = m]
      BY <1>5 DEF Release, Refunded
    <2>6. t = Put(s, k, c)
      BY <2>5 DEF Put
    <2> HIDE DEF m
    <2>7. /\ c \in BucketState /\ c.remaining = m /\ c.limit = b.limit /\ c.resetAt = b.resetAt
          /\ c.probe = b.probe /\ c.window = b.window
      BY <1>2, <2>4 DEF BucketState
    <2> HIDE DEF c
    <2>8. SoundBucket(c)
      BY <1>5, <2>2, <2>7 DEF SoundBucket
    <2>9. Rewrites(s, t, k, c) /\ Spares(s, t)
      BY <1>1, <2>6, <2>8, Sets
    <2>10. Released(b, c, SameWindow(s, r), refund)
      BY <1>5, <2>4, <2>7, <2>8, <2>3, Consts DEF Released
    <2> QED BY <2>9, <2>10
  <1> QED BY <1>3, <1>4, <1>5

-----------------------------------------------------------------------------
(* Requests and the buckets they are in flight for.                        *)

LEMMA RequestOf ==
    ASSUME NEW r, r \in Request
    PROVE  /\ r.phase \in Phases /\ r.key \in Keys /\ r.known \in BOOLEAN
           /\ r.resetAt \in 0..Later /\ r.wake \in 0..Later /\ r.moves \in BOOLEAN
           /\ r.attempt \in 0..MaxRetries /\ r.reply \in Replies /\ r.since \in 0..Horizon
           /\ r.resetAt \in Nat /\ r.since \in Nat
  BY Consts, Numbers DEF Request

Times(q) == \A w \in Workers : q[w] \in Request /\ Timely(q[w])

Backs(s, q) == \A w \in Workers : Holds(q[w]) => Kept(q[w], s.buckets[q[w].key])

\* One request at a time discovers the limit of a key.
Alone(q) ==
    \A v, w \in Workers :
        v # w /\ q[v].key = q[w].key => ~Discovers(q[v]) \/ ~Discovers(q[w])

Holder(r, k, e) == Discovers(r) /\ r.key = k /\ r.resetAt = e

HeldIn(s, q) ==
    \A k \in Keys :
        s.buckets[k].probe /\ Active(s.buckets[k]) =>
            \E w \in Workers : Holder(q[w], k, s.buckets[k].resetAt)

Whole(s, q) == SoundStore(s) /\ Times(q) /\ Backs(s, q) /\ Alone(q) /\ HeldIn(s, q)

\* Requests p are requests q but for w's.
Others(q, p, w) == \A v \in Workers \ {w} : p[v] = q[v]

LEMMA KeptSwept ==
    ASSUME now \in 0..Horizon, NEW r \in Request, Timely(r), Holds(r),
           NEW b \in BucketState, NEW c, Kept(r, b), Swept(b, c)
    PROVE  Kept(r, c)
  <1>1. CASE c = b
    BY <1>1
  <1>2. CASE c = NoBucket /\ b.resetAt <= now - BUCKET_LINGER
    <2>1. b.resetAt \in Nat /\ r.since \in Nat /\ now \in Nat
      BY BucketOf, RequestOf, Consts
    <2>2. Since(r) \in Nat /\ now <= Since(r) + Timeout
      <3>1. CASE r.phase = "granted"
        BY <2>1, <3>1, Consts DEF Since
      <3>2. CASE r.phase # "granted"
        BY <2>1, <3>2 DEF Since, Timely, Holds
      <3> QED BY <3>1, <3>2
    <2>3. b.resetAt > Since(r)
      BY <2>1, <2>2, Consts, Numbers DEF Kept, Timely
    <2> QED BY <1>2, <2>1, <2>2, <2>3, Consts
  <1> QED BY <1>1, <1>2 DEF Swept

\* A discovery that is in flight is not over: its placeholder runs.
LEMMA ProbeRuns ==
    ASSUME now \in 0..Horizon, NEW r \in Request, Timely(r), Discovers(r)
    PROVE  r.resetAt > now
  <1>1. r.since \in Nat /\ now \in Nat
    BY RequestOf, Consts
  <1>2. r.resetAt = Since(r) + ProbeTime
    BY DEF Timely, Discovers
  <1>3. CASE r.phase = "granted"
    BY <1>1, <1>2, <1>3, Consts, Numbers DEF Since
  <1>4. CASE r.phase # "granted"
    BY <1>1, <1>2, <1>4, Consts, Numbers DEF Since, Timely, Holds, Discovers
  <1> QED BY <1>3, <1>4

\* The discovery of a bucket is over when it has a limit, or when nothing runs.
LEMMA KeptKnown ==
    ASSUME now \in 0..Horizon, NEW r \in Request, Timely(r), Holds(r),
           NEW b, SoundBucket(b), Kept(r, b)
    PROVE  /\ b.probe => ~r.known /\ b.resetAt = r.resetAt /\ b.resetAt > now
           /\ ~b.probe => b.limit = Limit /\ b.resetAt > Since(r)
           /\ b.limit = Limit => ~b.probe
           /\ r.known => b.limit = Limit
  <1>1. b.limit \in {0, Limit} /\ b.resetAt \in Nat /\ Limit # 0
    BY BucketOf, Consts DEF SoundBucket
  <1>2. b.probe => ~r.known /\ b.resetAt = r.resetAt
    BY <1>1 DEF Kept, SoundBucket
  <1>3. b.probe => b.resetAt > now
    BY <1>2, ProbeRuns DEF Discovers
  <1> QED BY <1>1, <1>2, <1>3 DEF Kept, SoundBucket

\* Bucket k becomes c and request w becomes r.
LEMMA Move ==
    ASSUME now \in 0..Horizon, NEW s, NEW q, Whole(s, q), NEW w \in Workers, NEW r \in Request,
           Timely(r), NEW k \in Keys, NEW c, SoundBucket(c), NEW t, Rewrites(s, t, k, c),
           NEW p, p[w] = r, Others(q, p, w),
           \A v \in Workers \ {w} : Holds(q[v]) /\ q[v].key = k => Kept(q[v], c),
           Holds(r) => Kept(r, IF r.key = k THEN c ELSE s.buckets[r.key]),
           Discovers(r) => \A v \in Workers \ {w} : q[v].key = r.key => ~Discovers(q[v]),
           c.probe /\ Active(c) =>
               \/ Holder(r, k, c.resetAt)
               \/ \E v \in Workers \ {w} : Holder(q[v], k, c.resetAt),
           \A j \in Keys \ {k} : \A e \in 0..Later : Holder(q[w], j, e) => Holder(r, j, e)
    PROVE  Whole(t, p)
  <1>1. Times(p)
    BY DEF Whole, Times, Others
  <1>2. SoundStore(t) /\ SoundStore(s)
    BY DEF Rewrites, Whole
  <1>3. Backs(t, p)
    <2> SUFFICES ASSUME NEW v \in Workers, Holds(p[v])
                 PROVE  Kept(p[v], t.buckets[p[v].key])
      BY DEF Backs
    <2> DEFINE j == p[v].key
               b == IF j = k THEN c ELSE s.buckets[j]
    <2>1. p[v] \in Request /\ Timely(p[v]) /\ j \in Keys
      BY <1>1, RequestOf DEF Times
    <2>2. Kept(p[v], b)
      <3>1. CASE v = w
        BY <3>1
      <3>2. CASE v # w
        <4>1. p[v] = q[v]
          BY <3>2 DEF Others
        <4>2. Holds(q[v]) /\ Kept(q[v], s.buckets[q[v].key])
          BY <4>1 DEF Whole, Backs
        <4> QED BY <3>2, <4>1, <4>2
      <3> QED BY <3>1, <3>2
    <2>3. SoundBucket(b) /\ Swept(b, t.buckets[j])
      BY <1>2, <2>1 DEF Rewrites, SoundStore
    <2> HIDE DEF b, j
    <2>4. b \in BucketState
      BY <2>3 DEF SoundBucket
    <2>5. Kept(p[v], t.buckets[j])
      BY <2>1, <2>2, <2>3, <2>4, KeptSwept
    <2> QED BY <2>5 DEF j
  <1>4. Alone(p)
    <2> SUFFICES ASSUME NEW v \in Workers, NEW u \in Workers, v # u, p[v].key = p[u].key
                 PROVE  ~Discovers(p[v]) \/ ~Discovers(p[u])
      BY DEF Alone
    <2>1. CASE v # w /\ u # w
      BY <2>1 DEF Others, Whole, Alone
    <2>2. CASE v = w
      BY <2>2 DEF Others
    <2>3. CASE u = w
      BY <2>3 DEF Others
    <2> QED BY <2>1, <2>2, <2>3
  <1>5. HeldIn(t, p)
    <2> SUFFICES ASSUME NEW j \in Keys, t.buckets[j].probe, Active(t.buckets[j])
                 PROVE  \E v \in Workers : Holder(p[v], j, t.buckets[j].resetAt)
      BY DEF HeldIn
    <2> DEFINE b == IF j = k THEN c ELSE s.buckets[j]
               e == b.resetAt
    <2>1. t.buckets[j] = b
      BY DEF Rewrites, Swept, NoBucket
    <2>2. \/ Holder(r, j, e)
          \/ \E v \in Workers \ {w} : Holder(q[v], j, e)
      <3>1. CASE j = k
        BY <2>1, <3>1
      <3>2. CASE j # k
        <4>1. b = s.buckets[j]
          BY <3>2
        <4>2. PICK v \in Workers : Holder(q[v], j, e)
          BY <2>1, <4>1 DEF Whole, HeldIn
        <4>3. e \in 0..Later
          BY <1>2, <4>1, BucketOf DEF SoundStore, SoundBucket
        <4> HIDE DEF e
        <4>4. j \in Keys \ {k}
          BY <3>2
        <4> QED BY <4>2, <4>3, <4>4
      <3> QED BY <3>1, <3>2
    <2> HIDE DEF e
    <2>3. CASE Holder(r, j, e)
      BY <2>1, <2>3 DEF e
    <2>4. CASE \E v \in Workers \ {w} : Holder(q[v], j, e)
      <3>1. PICK v \in Workers \ {w} : Holder(q[v], j, e)
        BY <2>4
      <3>2. p[v] = q[v]
        BY DEF Others
      <3> QED BY <2>1, <3>1, <3>2 DEF e
    <2> QED BY <2>2, <2>3, <2>4
  <1> QED BY <1>1, <1>2, <1>3, <1>4, <1>5 DEF Whole

\* Nothing happens to the buckets, and w's request is neither in flight nor
\* will it be.
LEMMA Idles ==
    ASSUME now \in 0..Horizon, NEW s, NEW q, Whole(s, q), NEW w \in Workers, NEW r \in Request,
           r.phase \in {"idle", "asking", "waiting"}, ~Holds(q[w]),
           NEW t, SoundStore(t), t.buckets = s.buckets, NEW p, p[w] = r, Others(q, p, w)
    PROVE  Whole(t, p)
  <1> DEFINE k == q[w].key
             c == s.buckets[k]
  <1>1. k \in Keys /\ SoundBucket(c)
    BY RequestOf DEF Whole, Times, SoundStore
  <1>2. Rewrites(s, t, k, c)
    BY DEF Rewrites, Swept
  <1>3. ~Holds(r) /\ Timely(r)
    BY DEF Holds, Timely
  <1>4. \A v \in Workers \ {w} : Holds(q[v]) /\ q[v].key = k => Kept(q[v], c)
    BY DEF Whole, Backs
  <1>5. c.probe /\ Active(c) => \E v \in Workers \ {w} : Holder(q[v], k, c.resetAt)
    BY <1>1 DEF Whole, HeldIn, Holder, Discovers
  <1>6. ~Discovers(r)
    BY <1>3 DEF Discovers
  <1>7. \A j \in Keys \ {k} : \A e \in 0..Later : Holder(q[w], j, e) => Holder(r, j, e)
    BY DEF Holder, Discovers
  <1> HIDE DEF k, c
  <1> QED BY <1>1, <1>2, <1>3, <1>4, <1>5, <1>6, <1>7, Move

-----------------------------------------------------------------------------
(* What a request becomes.                                                 *)

Renew(q, w, r) == [q EXCEPT ![w] = r]

LEMMA Renews ==
    ASSUME NEW q \in [Workers -> Request], NEW w \in Workers, NEW r \in Request,
           NEW p, p = Renew(q, w, r)
    PROVE  p \in [Workers -> Request] /\ p[w] = r /\ Others(q, p, w)
  BY DEF Renew, Others

LEMMA NoRequestOf ==
    ASSUME NEW k \in Keys
    PROVE  NoRequest(k) \in Request /\ NoRequest(k).phase = "idle"
  <1>1. NoReply \in Replies
    <2>1. 0 \in 0..Limit /\ 0 \in 0..Window /\ 0 \in 0..Later
      BY Consts, Numbers
    <2> QED BY <2>1 DEF NoReply, Replies
  <1>2. 0 \in 0..Later /\ 0 \in 0..MaxRetries /\ 0 \in 0..Horizon /\ "idle" \in Phases
    BY Consts, Numbers DEF Phases
  <1> QED BY <1>1, <1>2 DEF NoRequest, Request

LEMMA OverOf ==
    ASSUME NEW w \in Workers
    PROVE  Over(w) \in Request /\ Over(w).phase \in {"idle", "asking", "waiting"}
  <1>1. RouteOf[w] \in Keys
    BY Consts DEF Keys
  <1> QED BY <1>1, NoRequestOf DEF Over

LEMMA RetriedOf ==
    ASSUME now \in 0..Horizon, NEW r, r.key \in Keys, r.attempt \in 0..MaxRetries,
           r.attempt < MaxRetries
    PROVE  Retried(r) \in Request /\ Retried(r).phase \in {"idle", "asking", "waiting"}
  <1> DEFINE f == IF r.reply.kind \in {"limited", "global"} THEN "asking" ELSE "waiting"
             d == IF r.reply.kind \in {"limited", "global"} THEN 0 ELSE now + TICK
             a == r.attempt + 1
             n == NoRequest(r.key)
             c == [n EXCEPT !.phase = f, !.wake = d, !.attempt = a]
  <1>1. n \in Request
    BY NoRequestOf
  <1>2. f \in Phases /\ f \in {"idle", "asking", "waiting"}
    BY DEF Phases
  <1>3. d \in 0..Later
    BY Consts, Numbers
  <1>4. a \in 0..MaxRetries
    BY Consts
  <1>5. Retried(r) = c
    BY DEF Retried
  <1> HIDE DEF f, d, a, n
  <1>6. c \in Request /\ c.phase = f
    BY <1>1, <1>2, <1>3, <1>4 DEF Request
  <1> QED BY <1>2, <1>5, <1>6

\* How long the store asks to wait.
LEMMA DelayOf ==
    ASSUME now \in 0..Horizon, NEW s, SoundStore(s)
    PROVE  GlobalDelay(s) \in Nat /\ now + GlobalDelay(s) \in 0..Later
  <1> DEFINE l == RecentSends(s)
             d == Most(1, l[1] + GLOBAL_WINDOW - now + 1)
  <1>1. l \in Seq(0..Horizon)
    BY RecentOf
  <1>2. s.globalReset \in 0..Later
    BY StoreOf DEF SoundStore
  <1>3. now \in Nat
    BY Consts
  <1>4. GlobalDelay(s) = IF s.globalReset > now THEN s.globalReset - now
                         ELSE IF Len(l) >= GlobalLimit THEN d ELSE 0
    BY DEF GlobalDelay
  <1> HIDE DEF l
  <1>5. CASE s.globalReset > now
    BY <1>2, <1>3, <1>4, <1>5, Numbers
  <1>6. CASE ~(s.globalReset > now) /\ Len(l) >= GlobalLimit
    <2>1. 1 \in 1..Len(l)
      BY <1>1, <1>6, LenProperties, Consts
    <2>2. l[1] \in 0..Horizon
      BY <1>1, <2>1, ElementOfSeq
    <2>3. d \in Nat /\ now + d \in 0..Later
      BY <1>3, <2>2, Consts, Numbers DEF Most
    <2> QED BY <1>4, <1>6, <2>3
  <1>7. CASE ~(s.globalReset > now) /\ ~(Len(l) >= GlobalLimit)
    BY <1>3, <1>4, <1>7, Consts, Numbers
  <1> QED BY <1>5, <1>6, <1>7

LEMMA BucketWaitOf ==
    ASSUME now \in 0..Horizon, NEW b, b \in BucketState, ~Grants(b)
    PROVE  now + BucketWait(b) \in 0..Later
  <1>1. b.resetAt \in 0..Later /\ b.resetAt > now /\ now \in Nat
    BY BucketOf, Consts DEF Grants, Active
  <1> QED BY <1>1, Numbers, Consts DEF BucketWait, Least

\* Discord's window after a request.
DiscordState == [reset: 0..Later, used: 0..Limit, refused: BOOLEAN]

Opened == /\ discord.reset <= now + Window
          /\ discord.reset > now => discord.used > 0

LEMMA NextWindowOf ==
    ASSUME now \in 0..Horizon, discord \in DiscordState, Opened, NEW d, d = NextWindow
    PROVE  /\ d \in DiscordState /\ d.reset > now /\ d.reset <= now + Window /\ d.used > 0
           /\ d.reset = discord.reset \/ (discord.reset <= now /\ d.reset = now + Window)
  <1>1. /\ discord.reset \in 0..Later /\ discord.reset \in Nat /\ discord.used \in 0..Limit
        /\ discord.used \in Nat /\ now \in Nat
    BY Consts, Numbers DEF DiscordState
  <1>2. CASE discord.reset <= now
    <2> DEFINE e == now + Window
               u == 1
    <2>1. e \in 0..Later /\ e > now /\ u \in 0..Limit
      BY <1>1, Consts, Numbers
    <2>2. d = [discord EXCEPT !.reset = e, !.used = u]
      BY <1>2 DEF NextWindow
    <2> HIDE DEF e, u
    <2>3. d \in DiscordState /\ d.reset = e /\ d.used = u
      BY <2>1, <2>2 DEF DiscordState
    <2> QED BY <1>1, <1>2, <2>1, <2>3, Consts DEF e, u
  <1>3. CASE ~(discord.reset <= now) /\ discord.used < Limit
    <2> DEFINE u == discord.used + 1
    <2>1. u \in 0..Limit /\ u > 0
      BY <1>1, <1>3, Consts
    <2>2. d = [discord EXCEPT !.used = u]
      BY <1>3 DEF NextWindow
    <2> HIDE DEF u
    <2>3. d \in DiscordState /\ d.reset = discord.reset /\ d.used = u
      BY <2>1, <2>2 DEF DiscordState
    <2> QED BY <1>1, <1>3, <2>1, <2>3 DEF Opened
  <1>4. CASE ~(discord.reset <= now) /\ ~(discord.used < Limit)
    <2>1. d = [discord EXCEPT !.refused = TRUE]
      BY <1>4 DEF NextWindow
    <2>2. d \in DiscordState /\ d.reset = discord.reset /\ d.used = discord.used
      BY <2>1 DEF DiscordState
    <2> QED BY <1>1, <1>4, <2>2, Consts DEF Opened
  <1> QED BY <1>2, <1>3, <1>4

-----------------------------------------------------------------------------
(* What the actions make of the store and of the requests.                 *)

Ready == now \in 0..Horizon /\ Whole(store, req) /\ req \in [Workers -> Request]

LEMMA ReadyOf ==
    ASSUME Ready, NEW w \in Workers
    PROVE  /\ req[w] \in Request /\ Timely(req[w]) /\ SoundStore(store)
           /\ req[w].key \in Keys /\ SoundBucket(store.buckets[req[w].key])
           /\ now \in Nat
           /\ Holds(req[w]) => Kept(req[w], store.buckets[req[w].key])
  BY RequestOf, Consts DEF Ready, Whole, Times, SoundStore, Backs

LEMMA ResolveOf ==
    ASSUME NEW w \in Workers
    PROVE  Resolve(w) \in Keys
  BY Consts DEF Resolve, Keys

\* A request that is not in flight becomes one that is not.
LEMMA IdleStep ==
    ASSUME Ready, NEW w \in Workers, ~Holds(req[w]), NEW r \in Request,
           r.phase \in {"idle", "asking", "waiting"}, req' = Renew(req, w, r),
           SoundStore(store'), store'.buckets = store.buckets
    PROVE  Whole(store', req') /\ req' \in [Workers -> Request]
  <1>1. req' \in [Workers -> Request] /\ req'[w] = r /\ Others(req, req', w)
    BY Renews DEF Ready
  <1> QED BY <1>1, Idles DEF Ready

LEMMA StartKeeps ==
    ASSUME Ready, NEW w \in Workers, Start(w)
    PROVE  Whole(store', req') /\ req' \in [Workers -> Request]
  <1> DEFINE f == "asking"
             k == Resolve(w)
             r == [req[w] EXCEPT !.phase = f, !.key = k]
  <1>1. f \in Phases /\ f \in {"idle", "asking", "waiting"} /\ k \in Keys
    BY ResolveOf DEF Phases
  <1>2. ~Holds(req[w]) /\ SoundStore(store') /\ store'.buckets = store.buckets
    BY ReadyOf DEF Start, At, Holds
  <1>3. req' = Renew(req, w, r)
    BY DEF Start, Renew
  <1> HIDE DEF f, k
  <1>4. r \in Request /\ r.phase = f
    BY <1>1, ReadyOf DEF Request
  <1> QED BY <1>1, <1>2, <1>3, <1>4, IdleStep

LEMMA RefuseKeeps ==
    ASSUME Ready, NEW w \in Workers, Refuse(w)
    PROVE  Whole(store', req') /\ req' \in [Workers -> Request]
  <1> DEFINE b == store.buckets[req[w].key]
             delay == GlobalDelay(store)
             f == "waiting"
             d == now + (IF delay > 0 THEN delay ELSE BucketWait(b))
             m == (delay = 0 /\ b.probe)
             r == [req[w] EXCEPT !.phase = f, !.wake = d, !.moves = m]
  <1>1. f \in Phases /\ f \in {"idle", "asking", "waiting"}
    BY DEF Phases
  <1>2. ~Holds(req[w]) /\ SoundStore(store') /\ store'.buckets = store.buckets
    BY ReadyOf DEF Refuse, At, Holds
  <1>3. req' = Renew(req, w, r)
    BY DEF Refuse, Renew
  <1>4. b \in BucketState /\ SoundStore(store) /\ req[w] \in Request
    BY ReadyOf DEF SoundBucket
  <1>5. delay \in Nat /\ now + delay \in 0..Later
    BY <1>4, DelayOf DEF Ready
  <1>6. d \in 0..Later
    <2>1. delay > 0 \/ ~Grants(b)
      BY DEF Refuse
    <2>2. CASE delay > 0
      BY <1>5, <2>2
    <2>3. CASE ~(delay > 0)
      <3>1. now + BucketWait(b) \in 0..Later
        BY <1>4, <2>1, <2>3, BucketWaitOf DEF Ready
      <3> QED BY <2>3, <3>1
    <2> QED BY <2>2, <2>3
  <1>7. m \in BOOLEAN
    OBVIOUS
  <1> HIDE DEF f, d, m
  <1>8. r \in Request /\ r.phase = f
    BY <1>1, <1>4, <1>6, <1>7 DEF Request
  <1> HIDE DEF r, b, delay
  <1> QED BY <1>1, <1>2, <1>3, <1>8, IdleStep

LEMMA WakeKeeps ==
    ASSUME Ready, NEW w \in Workers, Wake(w)
    PROVE  Whole(store', req') /\ req' \in [Workers -> Request]
  <1> DEFINE f == "asking"
             k == IF req[w].moves THEN Resolve(w) ELSE req[w].key
             d == 0
             r == [req[w] EXCEPT !.phase = f, !.wake = d, !.moves = FALSE, !.key = k]
  <1>1. f \in Phases /\ f \in {"idle", "asking", "waiting"} /\ k \in Keys /\ d \in 0..Later
    BY ResolveOf, ReadyOf, Numbers DEF Phases
  <1>2. ~Holds(req[w]) /\ SoundStore(store') /\ store'.buckets = store.buckets
    BY ReadyOf DEF Wake, At, Holds
  <1>3. req' = Renew(req, w, r)
    BY DEF Wake, Renew
  <1> HIDE DEF f, k, d
  <1>4. r \in Request /\ r.phase = f
    BY <1>1, ReadyOf DEF Request
  <1> QED BY <1>1, <1>2, <1>3, <1>4, IdleStep

LEMMA AbandonKeeps ==
    ASSUME Ready, NEW w \in Workers, Abandon(w)
    PROVE  Whole(store', req') /\ req' \in [Workers -> Request]
  <1>1. ~Holds(req[w]) /\ SoundStore(store') /\ store'.buckets = store.buckets
    BY ReadyOf DEF Abandon, At, Holds
  <1>2. req' = Renew(req, w, Over(w))
    BY DEF Abandon, Renew
  <1> QED BY <1>1, <1>2, OverOf, IdleStep

LEMMA GrantKeeps ==
    ASSUME Ready, NEW w \in Workers, Grant(w)
    PROVE  Whole(store', req') /\ req' \in [Workers -> Request]
  <1> DEFINE k == req[w].key
             b == store.buckets[k]
             c == AfterGrant(b)
             f == "granted"
             n == (Active(b) \/ b.limit > 0)
             e == c.resetAt
             r == [req[w] EXCEPT !.phase = f, !.known = n, !.resetAt = e]
             t == store'
             p == req'
  <1>1. k \in Keys /\ SoundBucket(b) /\ req[w] \in Request /\ SoundStore(store) /\ now \in Nat
    BY ReadyOf
  <1>2. Grants(b) /\ ~Holds(req[w])
    BY DEF Grant, At, Holds
  <1>3. now \in 0..Horizon /\ Whole(store, req) /\ req \in [Workers -> Request]
    BY DEF Ready
  <1>4. t = Reserve(store, k)
    BY DEF Grant
  <1>5. p = Renew(req, w, r)
    BY DEF Grant, Renew
  <1>6. Rewrites(store, t, k, c)
    BY <1>1, <1>2, <1>3, <1>4, ReserveSound
  <1>7. /\ b.limit \in {0, Limit} /\ b.resetAt \in Nat /\ b.probe \in BOOLEAN /\ Limit > 0
        /\ Limit \in Nat
    BY <1>1, BucketOf, Consts DEF SoundBucket
  <1>8. /\ SoundBucket(c) /\ Active(c) /\ c.limit = b.limit
        /\ Active(b) => ~b.probe /\ ~c.probe /\ b.limit = Limit /\ c.resetAt = b.resetAt
        /\ ~Active(b) => c.resetAt = now + ProbeTime /\ (c.probe <=> b.limit = 0)
    BY <1>1, <1>2, <1>3, GrantSound
  <1> HIDE DEF c, t, p
  <1>9. e \in 0..Later /\ e > now /\ n \in BOOLEAN /\ f \in Phases /\ e > 0
    BY <1>1, <1>8, BucketOf DEF SoundBucket, Active, Phases
  <1>10. n <=> b.limit = Limit
    BY <1>7, <1>8
  <1> HIDE DEF e, n, f
  <1>11. r \in Request /\ r.phase = f /\ r.known = n /\ r.resetAt = e /\ r.key = k
    BY <1>1, <1>9 DEF Request
  <1> HIDE DEF r, b
  <1>12. p \in [Workers -> Request] /\ p[w] = r /\ Others(req, p, w)
    BY <1>3, <1>5, <1>11, Renews
  <1>13. ~n => ~Active(b) /\ c.probe /\ e = now + ProbeTime
    BY <1>7, <1>8, <1>10 DEF e
  <1>14. Timely(r)
    BY <1>9, <1>11, <1>13 DEF Timely, Since, Holds, f
  \* Nobody discovers a bucket that grants.
  <1>15. \A v \in Workers \ {w} : Holds(req[v]) /\ req[v].key = k =>
             Kept(req[v], c) /\ b.limit = Limit
    <2> SUFFICES ASSUME NEW v \in Workers \ {w}, Holds(req[v]), req[v].key = k
                 PROVE  Kept(req[v], c) /\ b.limit = Limit
      OBVIOUS
    <2>1. req[v] \in Request /\ Timely(req[v]) /\ Kept(req[v], b)
      BY ReadyOf DEF b
    <2>2. ~b.probe
      BY <1>1, <1>3, <1>8, <2>1, KeptKnown DEF Active
    <2>3. b.limit = Limit /\ b.resetAt > Since(req[v])
      BY <1>1, <1>3, <2>1, <2>2, KeptKnown
    <2>4. Since(req[v]) \in Nat /\ Since(req[v]) <= now
      BY <1>1, <2>1, RequestOf DEF Since, Timely, Holds
    <2>5. c.resetAt > Since(req[v])
      BY <1>1, <1>7, <1>8, <2>3, <2>4, Numbers, Consts DEF Active
    <2> QED BY <1>8, <2>3, <2>5 DEF Kept
  <1>16. Kept(r, c)
    <2>1. CASE n
      BY <1>8, <1>10, <1>9, <1>11, <2>1 DEF Kept, Since, f, e
    <2>2. CASE ~n
      BY <1>13, <1>11, <2>2 DEF Kept, e
    <2> QED BY <2>1, <2>2
  <1>17. Discovers(r) => \A v \in Workers \ {w} : req[v].key = r.key => ~Discovers(req[v])
    BY <1>10, <1>11, <1>15, <1>7 DEF Discovers
  <1>18. c.probe /\ Active(c) => Holder(r, k, c.resetAt)
    <2> HAVE c.probe
    <2>1. ~n
      BY <1>7, <1>8, <1>10
    <2> QED BY <1>11, <2>1 DEF Holder, Discovers, Holds, f, e
  <1>19. \A j \in Keys \ {k} : \A d \in 0..Later : Holder(req[w], j, d) => Holder(r, j, d)
    BY DEF Holder
  <1> HIDE DEF k
  <1>20. Whole(t, p)
    BY <1>1, <1>3, <1>6, <1>8, <1>11, <1>12, <1>14, <1>15, <1>16, <1>17, <1>18, <1>19, Move
  <1> QED BY <1>12, <1>20 DEF t, p

\* A request in flight gives its grant up, and is not in flight any more.
LEMMA ReleaseStep ==
    ASSUME Ready, NEW w \in Workers, Holds(req[w]), NEW refund \in BOOLEAN,
           store' = Release(store, req[w], refund), NEW r \in Request,
           r.phase \in {"idle", "asking", "waiting"}, req' = Renew(req, w, r)
    PROVE  Whole(store', req') /\ req' \in [Workers -> Request]
  <1> DEFINE x == req[w]
             k == x.key
             b == store.buckets[k]
             t == store'
             p == req'
             same == SameWindow(store, x)
  <1>1. /\ k \in Keys /\ SoundBucket(b) /\ x \in Request /\ SoundStore(store)
        /\ Timely(x) /\ Kept(x, b)
    BY ReadyOf
  <1>2. now \in 0..Horizon /\ Whole(store, req) /\ req \in [Workers -> Request]
    BY DEF Ready
  <1>3. p \in [Workers -> Request] /\ p[w] = r /\ Others(req, p, w)
    BY <1>2, Renews
  <1>4. x.resetAt > 0
    BY <1>1 DEF Timely
  <1>5. \E c : Released(b, c, same, refund) /\ Rewrites(store, t, k, c)
    <2> HIDE DEF x, t
    <2>1. t = Release(store, x, refund)
      BY DEF t, x
    <2> QED BY <1>1, <1>2, <1>4, <2>1, ReleaseSound
  <1>6. PICK c : Released(b, c, same, refund) /\ Rewrites(store, t, k, c)
    BY <1>5
  <1>7. same <=> b.resetAt = x.resetAt
    BY DEF SameWindow
  <1> HIDE DEF t, p, same
  <1>8. SoundBucket(c) /\ c.probe \in BOOLEAN /\ b.probe \in BOOLEAN
    <2>1. SoundBucket(c)
      BY <1>1, <1>6, NoBucketSound DEF Released
    <2> QED BY <1>1, <2>1, BucketOf DEF SoundBucket
  <1>9. ~Holds(r) /\ Timely(r) /\ ~Discovers(r)
    BY DEF Holds, Timely, Discovers
  <1>10. \A v \in Workers \ {w} : Holds(req[v]) /\ req[v].key = k => Kept(req[v], c)
    <2> SUFFICES ASSUME NEW v \in Workers \ {w}, Holds(req[v]), req[v].key = k
                 PROVE  Kept(req[v], c)
      OBVIOUS
    <2>1. req[v] \in Request /\ Timely(req[v]) /\ Kept(req[v], b)
      BY ReadyOf DEF b
    <2>2. CASE same /\ b.probe
      <3>1. ~x.known
        BY <1>1, <1>2, <2>2, KeptKnown
      <3>2. ~req[v].known
        BY <1>1, <1>2, <2>1, <2>2, KeptKnown
      <3>3. Discovers(x) /\ Discovers(req[v])
        BY <3>1, <3>2 DEF Discovers
      <3> QED BY <1>2, <3>3 DEF Whole, Alone
    <2>3. CASE ~(same /\ b.probe)
      <3>1. c.limit = b.limit /\ c.resetAt = b.resetAt /\ (b.probe => c.probe)
        BY <1>6, <2>3 DEF Released
      <3> QED BY <2>1, <3>1 DEF Kept
    <2> QED BY <2>2, <2>3
  <1>11. c.probe /\ Active(c) => \E v \in Workers \ {w} : Holder(req[v], k, c.resetAt)
    <2> HAVE c.probe /\ Active(c)
    <2>1. c = b /\ ~same
      BY <1>6, <1>8 DEF Released, NoBucket
    <2>2. PICK v \in Workers : Holder(req[v], k, c.resetAt)
      BY <1>1, <1>2, <2>1 DEF Whole, HeldIn
    <2>3. v # w
      BY <1>7, <2>1, <2>2 DEF Holder
    <2> QED BY <2>2, <2>3
  <1>12. \A j \in Keys \ {k} : \A e \in 0..Later : Holder(req[w], j, e) => Holder(r, j, e)
    BY DEF Holder
  <1> HIDE DEF k, b, x
  <1>13. Whole(t, p)
    BY <1>1, <1>2, <1>3, <1>6, <1>8, <1>9, <1>10, <1>11, <1>12, Move
  <1> QED BY <1>3, <1>13 DEF t, p

LEMMA WithdrawKeeps ==
    ASSUME Ready, NEW w \in Workers, Withdraw(w)
    PROVE  Whole(store', req') /\ req' \in [Workers -> Request]
  <1>1. Holds(req[w]) /\ store' = Release(store, req[w], TRUE)
    BY DEF Withdraw, At, Holds
  <1>2. req' = Renew(req, w, Over(w))
    BY DEF Withdraw, Renew
  <1> QED BY <1>1, <1>2, OverOf, ReleaseStep

LEMMA FailKeeps ==
    ASSUME Ready, NEW w \in Workers, Fail(w)
    PROVE  Whole(store', req') /\ req' \in [Workers -> Request]
  <1>1. Holds(req[w]) /\ store' = Release(store, req[w], FALSE)
    BY DEF Fail, At, Holds
  <1>2. CASE req' = [req EXCEPT ![w] = Over(w)]
    <2>1. req' = Renew(req, w, Over(w))
      BY <1>2 DEF Renew
    <2> QED BY <1>1, <2>1, OverOf, ReleaseStep
  <1>3. CASE req[w].attempt < MaxRetries /\ req' = [req EXCEPT ![w] = Retried(@)]
    <2>1. req' = Renew(req, w, Retried(req[w]))
      BY <1>3 DEF Renew, Ready
    <2>2. req[w].key \in Keys /\ req[w].attempt \in 0..MaxRetries
      BY ReadyOf, RequestOf
    <2>3. /\ Retried(req[w]) \in Request
          /\ Retried(req[w]).phase \in {"idle", "asking", "waiting"}
      BY <1>3, <2>2, RetriedOf DEF Ready
    <2> QED BY <1>1, <2>1, <2>3, ReleaseStep
  <1> QED BY <1>2, <1>3 DEF Fail

LEMMA KeyOf ==
    ASSUME NEW w \in Workers, req[w] \in Request
    PROVE  KeyOfReply(w) = Key(req[w]) /\ KeyOfReply(w) \in Keys
  BY RequestOf DEF KeyOfReply, Key, Carries, Keys

LEMMA FinishKeeps ==
    ASSUME Ready, NEW w \in Workers, Finish(w)
    PROVE  Whole(store', req') /\ req' \in [Workers -> Request]
  <1> DEFINE x == req[w]
             h == KeyOfReply(w)
             next == [x EXCEPT !.key = h]
  <1>1. x \in Request /\ Timely(x) /\ SoundStore(store) /\ now \in 0..Horizon
    BY ReadyOf DEF Ready
  <1>2. h = Key(x) /\ h \in Keys
    BY <1>1, KeyOf
  <1>3. \E r \in Request : /\ r.phase \in {"idle", "asking", "waiting"}
                           /\ req' = Renew(req, w, r)
    <2>1. CASE req' = [req EXCEPT ![w] = Over(w)]
      <3>1. req' = Renew(req, w, Over(w))
        BY <2>1 DEF Renew
      <3> QED BY <3>1, OverOf
    <2>2. CASE x.attempt < MaxRetries /\ req' = [req EXCEPT ![w] = Retried(next)]
      <3>1. req' = Renew(req, w, Retried(next))
        BY <2>2 DEF Renew
      <3> HIDE DEF h
      <3>2. next.key \in Keys /\ next.attempt \in 0..MaxRetries /\ next.attempt < MaxRetries
        BY <1>1, <1>2, <2>2 DEF Request
      <3> HIDE DEF next
      <3>3. /\ Retried(next) \in Request
            /\ Retried(next).phase \in {"idle", "asking", "waiting"}
        BY <1>1, <3>2, RetriedOf
      <3> QED BY <3>1, <3>3
    <2> QED BY <2>1, <2>2 DEF Finish
  <1>4. PICK r \in Request : /\ r.phase \in {"idle", "asking", "waiting"}
                             /\ req' = Renew(req, w, r)
    BY <1>3
  <1>5. CASE h = x.key
    <2>1. ~Holds(x)
      BY <1>2, <1>5 DEF Holds, Finish, At
    <2>2. SoundStore(store') /\ store'.buckets = store.buckets
      <3>1. CASE x.reply.kind = "global"
        <4> DEFINE g == Most(store.globalReset, now + GlobalWait)
        <4>1. store' = [store EXCEPT !.globalReset = g]
          BY <3>1 DEF Finish, ExtendGlobal
        <4>2. store.globalReset \in 0..Later /\ store \in Stores
          BY <1>1, StoreOf DEF SoundStore
        <4>3. g \in 0..Later
          BY <1>1, <4>2, Consts, Numbers DEF Most
        <4> HIDE DEF g
        <4>4. store' \in Stores /\ store'.buckets = store.buckets
          BY <4>1, <4>2, <4>3 DEF Stores
        <4> QED BY <1>1, <4>4 DEF SoundStore
      <3>2. CASE x.reply.kind # "global"
        <4>1. store' = store
          BY <1>5, <3>2 DEF Finish
        <4> QED BY <1>1, <4>1
      <3> QED BY <3>1, <3>2
    <2> QED BY <1>4, <2>1, <2>2, IdleStep
  <1>6. CASE h # x.key
    <2>1. Holds(x) /\ x.reply.kind # "global"
      BY <1>2, <1>6 DEF Holds, Key, Carries, Finish, At
    <2>2. store' = Release(store, x, FALSE)
      BY <1>6, <2>1 DEF Finish
    <2> QED BY <1>4, <2>1, <2>2, ReleaseStep
  <1> QED BY <1>5, <1>6

\* A request in flight stays so, and the buckets what they are.
LEMMA FlightStep ==
    ASSUME Ready, NEW w \in Workers, Holds(req[w]), NEW r \in Request, Timely(r), Holds(r),
           r.key = req[w].key, r.known = req[w].known, r.resetAt = req[w].resetAt,
           Since(r) = Since(req[w]), req' = Renew(req, w, r),
           SoundStore(store'), store'.buckets = store.buckets
    PROVE  Whole(store', req') /\ req' \in [Workers -> Request]
  <1> DEFINE k == req[w].key
             c == store.buckets[k]
             t == store'
             p == req'
  <1>1. k \in Keys /\ SoundBucket(c) /\ SoundStore(store) /\ Kept(req[w], c)
    BY ReadyOf
  <1>2. now \in 0..Horizon /\ Whole(store, req) /\ req \in [Workers -> Request]
    BY DEF Ready
  <1>3. p \in [Workers -> Request] /\ p[w] = r /\ Others(req, p, w)
    BY <1>2, Renews
  <1>4. Rewrites(store, t, k, c)
    BY DEF Rewrites, Swept
  <1>5. \A v \in Workers \ {w} : Holds(req[v]) /\ req[v].key = k => Kept(req[v], c)
    BY ReadyOf
  <1>6. Kept(r, c)
    BY <1>1 DEF Kept
  <1>7. Discovers(r) => \A v \in Workers \ {w} : req[v].key = r.key => ~Discovers(req[v])
    BY <1>2 DEF Discovers, Whole, Alone
  <1>8. \A j \in Keys, e \in 0..Later : Holder(req[w], j, e) => Holder(r, j, e)
    BY DEF Holder, Discovers
  <1>9. c.probe /\ Active(c) =>
            \/ Holder(r, k, c.resetAt)
            \/ \E v \in Workers \ {w} : Holder(req[v], k, c.resetAt)
    <2> HAVE c.probe /\ Active(c)
    <2>1. PICK v \in Workers : Holder(req[v], k, c.resetAt)
      BY <1>1, <1>2 DEF Whole, HeldIn
    <2>2. CASE v = w
      BY <2>1, <2>2 DEF Holder, Discovers
    <2> QED BY <2>1, <2>2
  <1> HIDE DEF t, p
  <1>10. r.key = k
    OBVIOUS
  <1> HIDE DEF k, c
  <1>11. Whole(t, p)
    BY <1>1, <1>2, <1>3, <1>4, <1>5, <1>6, <1>7, <1>8, <1>9, <1>10, Move
  <1> QED BY <1>3, <1>11 DEF t, p

Even == now % 2 = 0

LEMMA SendKeeps ==
    ASSUME Ready, Even, discord \in DiscordState, Opened, NEW w \in Workers, Send(w)
    PROVE  Whole(store', req') /\ req' \in [Workers -> Request]
  <1> DEFINE d == NextWindow
             n == IF d.refused /\ d.used = discord.used THEN "limited" ELSE "ok"
             m == Limit - d.used
             a == d.reset - now
             e == d.reset
             u == [kind |-> n, remaining |-> m, after |-> a, window |-> e]
             f == "sent"
             g == now
             r == [req[w] EXCEPT !.phase = f, !.since = g, !.reply = u]
  <1>1. d \in DiscordState /\ d.reset > now /\ d.reset <= now + Window /\ d.used > 0
    BY NextWindowOf DEF Ready
  <1>2. req' = Renew(req, w, r)
    BY DEF Send, Renew
  <1>3. /\ req[w] \in Request /\ Timely(req[w]) /\ SoundStore(store) /\ now \in Nat
        /\ now \in 0..Horizon
    BY ReadyOf DEF Ready
  <1>4. store' = store /\ req[w].phase = "granted"
    BY DEF Send, At
  <1> HIDE DEF d
  <1>5. /\ m \in 0..Limit /\ m < Limit /\ a \in 0..Window /\ a > 0 /\ e \in 0..Later
        /\ n \in {"ok", "limited"} /\ e = now + a
    BY <1>1, <1>3, Consts, Numbers DEF DiscordState
  <1> HIDE DEF m, a, e, n
  <1>6. /\ u \in Replies /\ u.remaining = m /\ u.after = a /\ u.window = e
        /\ u.kind = n
    BY <1>5 DEF Replies
  <1>7. f \in Phases /\ g \in 0..Horizon
    BY <1>3 DEF Phases
  <1> HIDE DEF u, f, g
  <1>8. /\ r \in Request /\ r.phase = f /\ r.since = g /\ r.reply = u
        /\ r.key = req[w].key /\ r.known = req[w].known /\ r.resetAt = req[w].resetAt
    BY <1>3, <1>6, <1>7 DEF Request
  <1> HIDE DEF r
  <1>9. Holds(r) /\ Holds(req[w]) /\ Since(r) = Since(req[w]) /\ Since(r) = now
    BY <1>4, <1>8 DEF Holds, Since, f, g
  <1>10. Timely(r)
    <2>1. r.since = now /\ now <= now + Timeout /\ now <= now /\ now % 2 = 0
      BY <1>3, <1>8, Consts DEF g, Even
    <2>2. SoundReply(r.reply, r.since)
      BY <1>5, <1>6, <1>8 DEF SoundReply, g
    <2>3. r.resetAt > 0 /\ (~r.known => r.resetAt = Since(r) + ProbeTime)
      BY <1>3, <1>8, <1>9 DEF Timely
    <2> QED BY <2>1, <2>2, <2>3 DEF Timely
  <1> QED BY <1>2, <1>3, <1>4, <1>8, <1>9, <1>10, FlightStep

LEMMA SendAmissKeeps ==
    ASSUME Ready, Even, NEW w \in Workers, NEW kind \in {"lost", "bare", "global"},
           SendAmiss(w, kind)
    PROVE  Whole(store', req') /\ req' \in [Workers -> Request]
  <1> DEFINE u == [NoReply EXCEPT !.kind = kind]
             f == "sent"
             g == now
             r == [req[w] EXCEPT !.phase = f, !.since = g, !.reply = u]
  <1>2. req' = Renew(req, w, r)
    BY DEF SendAmiss, Renew
  <1>3. /\ req[w] \in Request /\ Timely(req[w]) /\ SoundStore(store) /\ now \in Nat
        /\ now \in 0..Horizon
    BY ReadyOf DEF Ready
  <1>4. store' = store /\ req[w].phase = "granted"
    BY DEF SendAmiss, At
  <1>6. u \in Replies /\ u.kind = kind
    <2>1. 0 \in 0..Limit /\ 0 \in 0..Window /\ 0 \in 0..Later
      BY Consts, Numbers
    <2> QED BY <2>1 DEF Replies, NoReply
  <1>7. f \in Phases /\ g \in 0..Horizon
    BY <1>3 DEF Phases
  <1> HIDE DEF u, f, g
  <1>8. /\ r \in Request /\ r.phase = f /\ r.since = g /\ r.reply = u
        /\ r.key = req[w].key /\ r.known = req[w].known /\ r.resetAt = req[w].resetAt
    BY <1>3, <1>6, <1>7 DEF Request
  <1> HIDE DEF r
  <1>9. Holds(r) /\ Holds(req[w]) /\ Since(r) = Since(req[w]) /\ Since(r) = now
    BY <1>4, <1>8 DEF Holds, Since, f, g
  <1>10. Timely(r)
    <2>1. r.since = now /\ now <= now + Timeout /\ now <= now /\ now % 2 = 0
      BY <1>3, <1>8, Consts DEF g, Even
    <2>2. SoundReply(r.reply, r.since)
      BY <1>6, <1>8 DEF SoundReply, Carries
    <2>3. r.resetAt > 0 /\ (~r.known => r.resetAt = Since(r) + ProbeTime)
      BY <1>3, <1>8, <1>9 DEF Timely
    <2> QED BY <2>1, <2>2, <2>3 DEF Timely
  <1> QED BY <1>2, <1>3, <1>4, <1>8, <1>9, <1>10, FlightStep

LEMMA ReceiveKeeps ==
    ASSUME Ready, NEW w \in Workers, Receive(w)
    PROVE  Whole(store', req') /\ req' \in [Workers -> Request]
  <1> DEFINE f == "reconciling"
             r == [req[w] EXCEPT !.phase = f]
             h == store.mapped \cup {RouteOf[w]}
  <1>2. req' = Renew(req, w, r)
    BY DEF Receive, Renew
  <1>3. /\ req[w] \in Request /\ Timely(req[w]) /\ SoundStore(store)
    BY ReadyOf
  <1>4. req[w].phase = "sent"
    BY DEF Receive, At
  <1>5. store \in Stores /\ h \in SUBSET Routes
    BY <1>3, StoreOf, Consts DEF SoundStore
  <1>6. store' = store \/ store' = [store EXCEPT !.mapped = h]
    BY DEF Receive
  <1> HIDE DEF h
  <1>7. SoundStore(store') /\ store'.buckets = store.buckets
    <2>1. CASE store' = store
      BY <1>3, <2>1
    <2>2. CASE store' = [store EXCEPT !.mapped = h]
      <3>1. store' \in Stores /\ store'.buckets = store.buckets
        BY <1>5, <2>2 DEF Stores
      <3> QED BY <1>3, <3>1 DEF SoundStore
    <2> QED BY <1>6, <2>1, <2>2
  <1>8. f \in Phases
    BY DEF Phases
  <1> HIDE DEF f
  <1>9. /\ r \in Request /\ r.phase = f /\ r.since = req[w].since /\ r.reply = req[w].reply
        /\ r.key = req[w].key /\ r.known = req[w].known /\ r.resetAt = req[w].resetAt
    BY <1>3, <1>8 DEF Request
  <1> HIDE DEF r
  <1>10. Holds(r) /\ Holds(req[w]) /\ Since(r) = Since(req[w])
    BY <1>4, <1>9 DEF Holds, Since, f
  <1>11. Timely(r)
    BY <1>3, <1>4, <1>9, <1>10 DEF Timely
  <1> QED BY <1>2, <1>7, <1>9, <1>10, <1>11, FlightStep

LEMMA ApplyHeadersKeeps ==
    ASSUME Ready, NEW w \in Workers, ApplyHeaders(w)
    PROVE  Whole(store', req') /\ req' \in [Workers -> Request]
  <1> DEFINE x == req[w]
             u == x.reply
             k == KeyOfReply(w)
             b == store.buckets[k]
             f == "finishing"
             r == [x EXCEPT !.phase = f]
             t == store'
             p == req'
             c == IF Carries(u) THEN Merge(b, u) ELSE IF b.probe THEN NoBucket ELSE b
  <1>1. now \in 0..Horizon /\ Whole(store, req) /\ req \in [Workers -> Request]
    BY DEF Ready
  <1>2. /\ x \in Request /\ Timely(x) /\ SoundStore(store) /\ now \in Nat /\ x.phase = "reconciling"
        /\ Kept(x, store.buckets[x.key])
    BY ReadyOf DEF ApplyHeaders, At, Holds
  <1>3. k = Key(x) /\ k \in Keys /\ x.key \in Keys /\ x.since \in Nat
    BY <1>2, KeyOf, RequestOf
  <1>4. SoundBucket(b) /\ b.probe \in BOOLEAN
    BY <1>2, <1>3, BucketOf DEF SoundStore, SoundBucket
  <1>5. u \in Replies /\ (Carries(u) => u.after > 0 /\ u.remaining < Limit)
    BY <1>2, RequestOf DEF Timely, SoundReply
  <1>6. t = Reconcile(store, k, u)
    BY DEF ApplyHeaders
  <1>7. p = Renew(req, w, r)
    BY DEF ApplyHeaders, Renew
  <1> HIDE DEF t, p, k
  <1>8. Rewrites(store, t, k, c)
    BY <1>1, <1>2, <1>3, <1>5, <1>6, ReconcileSound, BareSound
  <1>9. f \in Phases
    BY DEF Phases
  <1> HIDE DEF f
  <1>10. /\ r \in Request /\ r.phase = f /\ r.since = x.since /\ r.reply = u
         /\ r.key = x.key /\ r.known = x.known /\ r.resetAt = x.resetAt
    BY <1>2, <1>9 DEF Request
  <1> HIDE DEF r
  <1>11. p \in [Workers -> Request] /\ p[w] = r /\ Others(req, p, w)
    BY <1>1, <1>7, <1>10, Renews
  <1>12. Holds(x) /\ Since(r) = x.since /\ Since(x) = x.since
    BY <1>2, <1>10 DEF Holds, Since, f
  <1>13. Timely(r)
    BY <1>2, <1>10, <1>12 DEF Timely, f
  <1>14. Holds(r) => k # x.key /\ Carries(u)
    BY <1>3, <1>10 DEF Holds, Key, f
  <1>15. SoundBucket(c)
    BY <1>1, <1>4, <1>5, MergeSound, NoBucketSound
  <1>16. Carries(u) => c.limit = Limit /\ c.resetAt > now /\ ~c.probe
    BY <1>1, <1>4, <1>5, MergeSound DEF Active
  <1>17. ~Carries(u) => ~c.probe /\ (b.probe \/ c = b)
    BY DEF NoBucket
  <1>18. ~Carries(u) => k = x.key
    BY <1>3 DEF Key
  <1>19. \A v \in Workers \ {w} : Holds(req[v]) /\ req[v].key = k => Kept(req[v], c)
    <2> SUFFICES ASSUME NEW v \in Workers \ {w}, Holds(req[v]), req[v].key = k
                 PROVE  Kept(req[v], c)
      OBVIOUS
    <2>1. req[v] \in Request /\ Timely(req[v]) /\ Kept(req[v], b)
      BY ReadyOf
    <2>2. CASE Carries(u)
      <3>1. Since(req[v]) <= now /\ Since(req[v]) \in Nat
        BY <1>2, <2>1, RequestOf DEF Since, Timely, Holds
      <3>2. c.resetAt \in Nat
        BY <1>15, BucketOf DEF SoundBucket
      <3> QED BY <1>2, <1>16, <2>2, <3>1, <3>2 DEF Kept
    <2>3. CASE ~Carries(u) /\ b.probe
      <3>1. ~x.known
        BY <1>1, <1>2, <1>4, <1>12, <1>18, <2>3, KeptKnown
      <3>2. ~req[v].known
        BY <1>1, <1>4, <2>1, <2>3, KeptKnown
      <3>3. Discovers(x) /\ Discovers(req[v])
        BY <1>12, <3>1, <3>2 DEF Discovers
      <3> QED BY <1>1, <1>18, <2>3, <3>3 DEF Whole, Alone
    <2>4. CASE ~Carries(u) /\ ~b.probe
      BY <1>17, <2>1, <2>4
    <2> QED BY <2>2, <2>3, <2>4
  <1>20. Holds(r) => Kept(r, IF r.key = k THEN c ELSE store.buckets[r.key])
    BY <1>2, <1>10, <1>12, <1>14 DEF Kept
  <1>21. Discovers(r) => \A v \in Workers \ {w} : req[v].key = r.key => ~Discovers(req[v])
    BY <1>1, <1>10, <1>12 DEF Discovers, Whole, Alone
  <1>22. ~c.probe
    BY <1>16, <1>17
  <1>23. \A j \in Keys \ {k} : \A e \in 0..Later : Holder(req[w], j, e) => Holder(r, j, e)
    <2> SUFFICES ASSUME NEW j \in Keys \ {k}, NEW e \in 0..Later, Holder(x, j, e)
                 PROVE  Holder(r, j, e)
      OBVIOUS
    <2>1. x.key # k
      BY DEF Holder
    <2>2. Holds(r)
      BY <1>3, <1>10, <2>1 DEF Holds, Key, f
    <2> QED BY <1>10, <2>2 DEF Holder, Discovers
  <1> HIDE DEF c, b, u
  <1>24. Whole(t, p)
    BY <1>1, <1>3, <1>8, <1>10, <1>11, <1>13, <1>15, <1>19, <1>20, <1>21, <1>22, <1>23, Move
  <1> QED BY <1>11, <1>24 DEF t, p

\* While time stands, what is said of the next store and requests is said next.
LEMMA WholeNext ==
    ASSUME now' = now, Whole(store', req')
    PROVE  Whole(store, req)'
  <1>1. SoundStore(store)'
    BY DEF Whole, SoundStore, SoundBucket
  <1>2. Times(req)'
    BY DEF Whole, Times, Timely, Since, Holds, Key, SoundReply, Carries
  <1>3. Backs(store, req)'
    BY DEF Whole, Backs, Kept, Since, Holds, Key, Carries
  <1>4. Alone(req)'
    BY DEF Whole, Alone, Discovers, Holds, Key, Carries
  <1>5. HeldIn(store, req)'
    BY DEF Whole, HeldIn, Holder, Active, Discovers, Holds, Key, Carries
  <1> QED BY <1>1, <1>2, <1>3, <1>4, <1>5 DEF Whole

LEMMA TickKeeps ==
    ASSUME Ready, Even, Tick
    PROVE  Ready' /\ Even'
  <1>1. now' = now + 2 /\ store' = store /\ req' = req /\ now + 2 <= Horizon
    BY Numbers DEF Tick
  <1>2. /\ now \in 0..Horizon /\ Whole(store, req) /\ req \in [Workers -> Request]
        /\ now \in Nat /\ now % 2 = 0
    BY Consts DEF Ready, Even
  <1>3. now' \in 0..Horizon
    BY <1>1, <1>2, Consts
  <1>4. Even'
    BY <1>1, <1>2 DEF Even
  <1>5. \A w \in Workers : /\ req[w].phase \in {"idle", "waiting", "sent"}
                           /\ req[w].phase = "sent" => now < req[w].since + Timeout
    BY DEF Tick, At
  <1>6. \A w \in Workers : /\ req[w] \in Request /\ req[w].since \in Nat /\ Timely(req[w])
    BY <1>2, RequestOf DEF Whole, Times
  <1>7. SoundStore(store)'
    BY <1>1, <1>2 DEF Whole, SoundStore, SoundBucket
  <1>8. Times(req)'
    <2> SUFFICES ASSUME NEW w \in Workers
                 PROVE  req'[w] \in Request /\ Timely(req[w])'
      BY DEF Times
    <2>1. CASE req[w].phase = "sent"
      <3>1. /\ req[w].since <= now /\ now < req[w].since + Timeout
            /\ req[w].since % 2 = 0
        BY <1>5, <1>6, <2>1 DEF Timely
      <3>2. now + 2 <= req[w].since + Timeout
        <4> DEFINE x == req[w].since
        <4>1. x \in Nat /\ x % 2 = 0 /\ now < x + Timeout /\ Timeout \in Nat
              /\ Timeout % 2 = 0
          BY <1>6, <3>1, LimiterAssumption
        <4> HIDE DEF x
        <4>2. now + 2 <= x + Timeout
          BY <1>2, <4>1
        <4> QED BY <4>2 DEF x
      <3>3. req[w].since <= now + 2
        BY <1>2, <1>6, <3>1
      <3> QED BY <1>1, <1>6, <2>1, <3>1, <3>2, <3>3 DEF Timely, Since, Holds, SoundReply, Carries, Key
    <2>2. CASE req[w].phase # "sent"
      <3>1. req[w].phase \notin {"granted", "sent", "reconciling", "finishing"}
        BY <1>5, <2>2
      <3> QED BY <1>1, <1>6, <3>1 DEF Timely, Holds
    <2> QED BY <2>1, <2>2
  <1>9. Backs(store, req)'
    <2> SUFFICES ASSUME NEW w \in Workers, Holds(req[w])'
                 PROVE  Kept(req[w], store.buckets[req[w].key])'
      BY DEF Backs
    <2>1. Holds(req[w]) /\ req[w].phase # "granted"
      BY <1>1, <1>5 DEF Holds, Key, Carries
    <2>2. Kept(req[w], store.buckets[req[w].key])
      BY <1>2, <2>1 DEF Whole, Backs
    <2> QED BY <1>1, <2>1, <2>2 DEF Kept, Since
  <1>10. Alone(req)'
    BY <1>1, <1>2 DEF Whole, Alone, Discovers, Holds, Key, Carries
  <1>11. HeldIn(store, req)'
    <2> SUFFICES ASSUME NEW k \in Keys, store.buckets[k].probe, store.buckets[k].resetAt > now + 2
                 PROVE  \E w \in Workers : Holder(req[w], k, store.buckets[k].resetAt)'
      BY <1>1 DEF HeldIn, Active
    <2>1. store.buckets[k].resetAt \in Nat
      BY <1>2, BucketOf DEF Whole, SoundStore, SoundBucket
    <2>2. Active(store.buckets[k])
      BY <1>2, <2>1 DEF Active
    <2>3. PICK w \in Workers : Holder(req[w], k, store.buckets[k].resetAt)
      BY <1>2, <2>2 DEF Whole, HeldIn
    <2> QED BY <1>1, <2>3 DEF Holder, Discovers, Holds, Key, Carries
  <1> QED BY <1>1, <1>2, <1>3, <1>4, <1>7, <1>8, <1>9, <1>10, <1>11 DEF Ready, Whole

-----------------------------------------------------------------------------
(* The invariant.                                                          *)

Histories ==
    /\ made \in 0..MaxRequests /\ faults \in 0..MaxFaults
    /\ spent \in [Keys -> Nat] /\ told \in [Keys -> 0..Later]
    /\ grants \in Seq(0..Horizon) /\ excused \in BOOLEAN

IInv == Ready /\ Even /\ discord \in DiscordState /\ Opened /\ Histories

LEMMA GrantHistories ==
    ASSUME Ready, Histories, NEW w \in Workers, Grant(w)
    PROVE  Histories'
  <1> DEFINE k == req[w].key
             n == IF Active(store.buckets[k]) THEN spent[k] + 1 ELSE 1
             g == IF Len(grants) < GlobalLimit THEN grants ELSE Tail(grants)
  <1>1. k \in Keys /\ n \in Nat
    BY ReadyOf DEF Histories
  <1>2. spent' = [spent EXCEPT ![k] = n]
    BY DEF Grant
  <1> HIDE DEF n, k
  <1>3. spent' \in [Keys -> Nat]
    BY <1>1, <1>2 DEF Histories
  <1>4. g \in Seq(0..Horizon)
    <2>1. CASE Len(grants) < GlobalLimit
      BY <2>1 DEF Histories
    <2>2. CASE ~(Len(grants) < GlobalLimit)
      <3>1. grants # <<>>
        BY <2>2, Consts
      <3> QED BY <2>2, <3>1, HeadTailProperties DEF Histories
    <2> QED BY <2>1, <2>2
  <1>5. grants' = Append(g, now)
    BY DEF Grant
  <1> HIDE DEF g
  <1>6. grants' \in Seq(0..Horizon)
    BY <1>4, <1>5, AppendProperties DEF Ready
  <1> QED BY <1>3, <1>6 DEF Histories, Grant

LEMMA StepHistories ==
    ASSUME Ready, Histories, [Next]_vars
    PROVE  Histories'
  <1>1. now \in Nat /\ now \in 0..Horizon /\ req \in [Workers -> Request]
    BY Consts DEF Ready
  <1>2. ASSUME NEW w \in Workers, Start(w) PROVE Histories'
    <2>1. made + 1 \in 0..MaxRequests
      BY <1>2, Consts DEF Histories, Start
    <2> QED BY <1>2, <2>1 DEF Histories, Start
  <1>3. ASSUME NEW w \in Workers, Withdraw(w) PROVE Histories'
    <2> DEFINE k == req[w].key
               n == IF SameWindow(store, req[w]) /\ spent[k] > 0 THEN spent[k] - 1 ELSE spent[k]
    <2>1. k \in Keys /\ n \in Nat
      BY ReadyOf DEF Histories
    <2>2. spent' = [spent EXCEPT ![k] = n]
      BY <1>3 DEF Withdraw
    <2> HIDE DEF n, k
    <2>3. spent' \in [Keys -> Nat]
      BY <2>1, <2>2 DEF Histories
    <2> QED BY <1>3, <2>3 DEF Histories, Withdraw
  <1>4. ASSUME NEW w \in Workers, NEW kind \in {"lost", "bare", "global"}, SendAmiss(w, kind)
        PROVE  Histories'
    <2>1. faults + 1 \in 0..MaxFaults
      BY <1>4, Consts DEF Histories, SendAmiss
    <2>2. excused' \in BOOLEAN
      BY <1>4 DEF Histories, SendAmiss
    <2> QED BY <1>4, <2>1, <2>2 DEF Histories, SendAmiss
  <1>5. ASSUME NEW w \in Workers, ApplyHeaders(w) PROVE Histories'
    <2> DEFINE k == KeyOfReply(w)
               b == store.buckets[k]
               u == req[w].reply
               n == IF (Active(b) /\ ~b.probe) \/ u.kind \notin {"ok", "limited"}
                    THEN spent[k] ELSE 1
               m == Most(told[k], now + u.after)
    <2>1. k \in Keys /\ u.after \in 0..Window
      BY <1>1, KeyOf, RequestOf DEF Replies
    <2>2. n \in Nat
      BY <2>1 DEF Histories
    <2>3. m \in 0..Later
      BY <1>1, <2>1, Consts, Numbers DEF Most, Histories
    <2>4. /\ spent' = [spent EXCEPT ![k] = n]
          /\ told' = told \/ told' = [told EXCEPT ![k] = m]
      BY <1>5 DEF ApplyHeaders
    <2> HIDE DEF n, m, k
    <2>5. spent' \in [Keys -> Nat] /\ told' \in [Keys -> 0..Later]
      BY <2>1, <2>2, <2>3, <2>4 DEF Histories
    <2> QED BY <1>5, <2>5 DEF Histories, ApplyHeaders
  <1>6. ASSUME NEW w \in Workers, Finish(w) PROVE Histories'
    <2> DEFINE f == [k \in Keys |-> Most(told[k], now + GlobalWait)]
    <2>1. told' = f \/ told' = told
      BY <1>6 DEF Finish
    <2>2. \A k \in Keys : Most(told[k], now + GlobalWait) \in 0..Later
      BY <1>1, Consts, Numbers DEF Most, Histories
    <2>3. told' \in [Keys -> 0..Later]
      BY <2>1, <2>2 DEF Histories
    <2> QED BY <1>6, <2>3 DEF Histories, Finish
  <1>7. ASSUME NEW w \in Workers, Send(w) PROVE Histories'
    BY <1>7 DEF Histories, Send
  <1>8. ASSUME NEW w \in Workers, \/ Refuse(w) \/ Wake(w) \/ Abandon(w) \/ Fail(w) \/ Receive(w)
        PROVE  Histories'
    BY <1>8 DEF Histories, Refuse, Wake, Abandon, Fail, Receive
  <1>9. CASE Tick
    BY <1>9 DEF Histories, Tick
  <1>10. CASE UNCHANGED vars
    BY <1>10 DEF Histories, vars
  <1> QED BY <1>2, <1>3, <1>4, <1>5, <1>6, <1>7, <1>8, <1>9, <1>10, GrantHistories DEF Next

LEMMA StepDiscord ==
    ASSUME Ready, discord \in DiscordState, Opened, [Next]_vars
    PROVE  (discord \in DiscordState)' /\ Opened'
  <1>1. now \in 0..Horizon /\ now \in Nat
    BY Consts DEF Ready
  <1> DEFINE d == NextWindow
  <1>2. /\ d \in DiscordState /\ d.reset > now /\ d.reset <= now + Window /\ d.used > 0
    BY <1>1, NextWindowOf
  <1> HIDE DEF d
  <1>3. CASE now' = now /\ discord' = d
    BY <1>2, <1>3 DEF Opened
  <1>4. CASE now' = now /\ discord' = discord
    BY <1>4 DEF Opened
  <1>5. CASE Tick
    <2>1. now' = now + 2 /\ discord' = discord
      BY <1>5, Numbers DEF Tick
    <2>2. discord.reset \in Nat
      BY Numbers DEF DiscordState
    <2> QED BY <1>1, <2>1, <2>2, Consts DEF Opened
  <1>6. ASSUME NEW w \in Workers,
               \/ Start(w) \/ Grant(w) \/ Refuse(w) \/ Wake(w) \/ Abandon(w) \/ Withdraw(w)
               \/ Fail(w) \/ Receive(w) \/ ApplyHeaders(w) \/ Finish(w)
        PROVE  now' = now /\ discord' = discord
    BY <1>6 DEF Start, Grant, Refuse, Wake, Abandon, Withdraw, Fail, Receive, ApplyHeaders, Finish
  <1>7. ASSUME NEW w \in Workers, Send(w) PROVE now' = now /\ discord' = d
    BY <1>7 DEF Send, d
  <1>8. ASSUME NEW w \in Workers, NEW kind \in {"lost", "bare", "global"}, SendAmiss(w, kind)
        PROVE  now' = now /\ (discord' = d \/ discord' = discord)
    BY <1>8 DEF SendAmiss, d
  <1>9. UNCHANGED vars => now' = now /\ discord' = discord
    BY DEF vars
  <1> QED BY <1>3, <1>4, <1>5, <1>6, <1>7, <1>8, <1>9 DEF Next

LEMMA StepReady ==
    ASSUME Ready, Even, discord \in DiscordState, Opened, [Next]_vars
    PROVE  Ready' /\ Even'
  <1>1. CASE now' = now /\ Whole(store', req') /\ req' \in [Workers -> Request]
    BY <1>1, WholeNext DEF Ready, Even
  <1>2. ASSUME NEW w \in Workers,
               \/ Start(w) \/ Grant(w) \/ Refuse(w) \/ Wake(w) \/ Abandon(w) \/ Withdraw(w)
               \/ Send(w) \/ Fail(w) \/ Receive(w) \/ ApplyHeaders(w) \/ Finish(w)
               \/ \E kind \in {"lost", "bare", "global"} : SendAmiss(w, kind)
        PROVE  now' = now
    BY <1>2 DEF Start, Grant, Refuse, Wake, Abandon, Withdraw, Send, SendAmiss, Fail, Receive,
                ApplyHeaders, Finish
  <1>3. ASSUME NEW w \in Workers,
               \/ Start(w) \/ Grant(w) \/ Refuse(w) \/ Wake(w) \/ Abandon(w) \/ Withdraw(w)
               \/ Send(w) \/ Fail(w) \/ Receive(w) \/ ApplyHeaders(w) \/ Finish(w)
               \/ \E kind \in {"lost", "bare", "global"} : SendAmiss(w, kind)
        PROVE  Whole(store', req') /\ req' \in [Workers -> Request]
    BY <1>3, StartKeeps, GrantKeeps, RefuseKeeps, WakeKeeps, AbandonKeeps, WithdrawKeeps,
       SendKeeps, SendAmissKeeps, FailKeeps, ReceiveKeeps, ApplyHeadersKeeps, FinishKeeps
  <1>4. CASE Tick
    BY <1>4, TickKeeps
  <1>5. CASE UNCHANGED vars
    <2>1. now' = now /\ store' = store /\ req' = req
      BY <1>5 DEF vars
    <2>2. Whole(store', req') /\ req' \in [Workers -> Request]
      BY <2>1 DEF Ready
    <2> QED BY <1>1, <2>1, <2>2
  <1> QED BY <1>1, <1>2, <1>3, <1>4, <1>5 DEF Next

LEMMA InitIInv == Init => IInv
  <1> SUFFICES ASSUME Init PROVE IInv
    OBVIOUS
  <1>1. now = 0 /\ now \in 0..Horizon /\ 0 \in Nat
    BY Consts DEF Init
  <1>2. /\ store.buckets = [k \in Keys |-> NoBucket] /\ store.mapped = {}
        /\ store.globalReset = 0 /\ store.log = <<>> /\ store.lastPrune = 0
        /\ store = [buckets |-> store.buckets, mapped |-> {}, globalReset |-> 0,
                    log |-> <<>>, lastPrune |-> 0]
    BY DEF Init
  <1>3. \A k \in Keys : SoundBucket(store.buckets[k]) /\ ~store.buckets[k].probe
    BY <1>2, NoBucketSound DEF NoBucket
  <1>4. store.buckets \in [Keys -> BucketState]
    BY <1>2, NoBucketSound DEF SoundBucket
  <1>5. SoundStore(store)
    <2>1. 0 \in 0..Later /\ 0 \in 0..Horizon /\ <<>> \in Seq(0..Horizon) /\ {} \in SUBSET Routes
      BY Consts, Numbers, EmptySeq
    <2> QED BY <1>2, <1>3, <1>4, <2>1 DEF SoundStore, Stores
  <1>6. \A w \in Workers : RouteOf[w] \in Keys
    BY Consts DEF Keys
  <1>7. req = [w \in Workers |-> NoRequest(RouteOf[w])]
    BY DEF Init
  <1>8. \A w \in Workers : req[w] \in Request /\ req[w].phase = "idle"
    BY <1>6, <1>7, NoRequestOf
  <1>9. req \in [Workers -> Request]
    BY <1>7, <1>8
  <1>10. \A w \in Workers : Timely(req[w]) /\ ~Holds(req[w]) /\ ~Discovers(req[w])
    BY <1>8 DEF Timely, Holds, Discovers
  <1>11. Whole(store, req)
    BY <1>3, <1>5, <1>8, <1>10 DEF Whole, Times, Backs, Alone, HeldIn
  <1>12. discord \in DiscordState /\ Opened
    <2>1. 0 \in 0..Later /\ 0 \in 0..Limit /\ 0 <= 0 + Window
      BY Consts, Numbers
    <2> QED BY <1>1, <2>1 DEF Init, DiscordState, Opened
  <1>13. Histories
    <2>1. 0 \in 0..MaxRequests /\ 0 \in 0..MaxFaults /\ 0 \in 0..Later /\ <<>> \in Seq(0..Horizon)
      BY Consts, Numbers, EmptySeq
    <2> QED BY <2>1 DEF Init, Histories
  <1>14. Even
    BY <1>1 DEF Even
  <1> QED BY <1>1, <1>9, <1>11, <1>12, <1>13, <1>14 DEF IInv, Ready

LEMMA StepIInv == IInv /\ [Next]_vars => IInv'
  BY StepReady, StepDiscord, StepHistories DEF IInv

LEMMA Invariance == Spec => []IInv
  BY InitIInv, StepIInv, PTL DEF Spec

LEMMA TypeFrom == IInv => TypeOK
  BY DEF IInv, Ready, Whole, SoundStore, Stores, Histories, DiscordState, TypeOK

\* The store, the requests, Discord's window and the histories stay well typed:
\* no count falls below zero or exceeds its limit, and no wait ends after the
\* last moment the clock can name (store.ts, limiter.ts).
THEOREM TypeCorrect == Spec => []TypeOK
  BY Invariance, TypeFrom, PTL

LEMMA InvFrom == IInv => Inv
  <1> SUFFICES ASSUME IInv PROVE Inv
    OBVIOUS
  <1>1. PlaceholderIsHeld
    BY DEF IInv, Ready, Whole, HeldIn, Holder, Discovers, Holds, PlaceholderIsHeld, Probes
  <1>2. OneProbe
    BY DEF IInv, Ready, Whole, Alone, Discovers, Holds, OneProbe
  <1> QED BY <1>1, <1>2, TypeFrom DEF Inv

\* A placeholder never outlives its probe, whatever fails, is given back or is
\* answered without headers, and one request at a time probes a key (store.ts,
\* reconcileState and release; index.ts, probeMs).
THEOREM InvHolds == Spec => []Inv
  BY Invariance, InvFrom, PTL

-----------------------------------------------------------------------------
(* Which bucket a step writes, and what it becomes.                        *)

\* Bucket k becomes c, the others are swept at most.
Writes(k, c) ==
    /\ now' = now /\ k \in Keys /\ SoundBucket(c) /\ Rewrites(store, store', k, c)

Quiet == now' = now /\ store'.buckets = store.buckets

LEMMA GrantWrites ==
    ASSUME Ready, NEW w \in Workers, Grant(w)
    PROVE  /\ Writes(req[w].key, AfterGrant(store.buckets[req[w].key]))
           /\ \/ store'.globalReset = store.globalReset
              \/ store'.globalReset = 0 /\ store.globalReset <= now
           /\ store'.log = Append(RecentSends(store), now)
  <1> DEFINE k == req[w].key
             t == store'
  <1>1. k \in Keys /\ SoundBucket(store.buckets[k]) /\ SoundStore(store) /\ now \in 0..Horizon
    BY ReadyOf DEF Ready
  <1>2. Grants(store.buckets[k]) /\ t = Reserve(store, k) /\ now' = now
    BY DEF Grant
  <1>3. SoundBucket(AfterGrant(store.buckets[k]))
    BY <1>1, <1>2, GrantSound
  <1> HIDE DEF k, t
  <1>4. /\ Rewrites(store, t, k, AfterGrant(store.buckets[k]))
        /\ t.globalReset = store.globalReset \/ (t.globalReset = 0 /\ store.globalReset <= now)
        /\ t.log = Append(RecentSends(store), now)
    BY <1>1, <1>2, ReserveSound
  <1> QED BY <1>1, <1>2, <1>3, <1>4 DEF Writes, k, t

LEMMA ReleaseWrites ==
    ASSUME Ready, NEW w \in Workers, Holds(req[w]), NEW refund \in BOOLEAN,
           store' = Release(store, req[w], refund), now' = now
    PROVE  /\ Spares(store, store')
           /\ \E c : /\ Released(store.buckets[req[w].key], c, SameWindow(store, req[w]), refund)
                     /\ Writes(req[w].key, c)
  <1> DEFINE x == req[w]
             k == x.key
             b == store.buckets[k]
             t == store'
  <1>1. /\ k \in Keys /\ SoundBucket(b) /\ SoundStore(store) /\ now \in 0..Horizon
        /\ x \in Request /\ x.resetAt > 0
    BY ReadyOf DEF Ready, Timely
  <1> HIDE DEF x, t
  <1>2. t = Release(store, x, refund)
    BY DEF x, t
  <1>3. /\ Spares(store, t)
        /\ \E c : Released(b, c, SameWindow(store, x), refund) /\ Rewrites(store, t, k, c)
    BY <1>1, <1>2, ReleaseSound
  <1>4. PICK c : Released(b, c, SameWindow(store, x), refund) /\ Rewrites(store, t, k, c)
    BY <1>3
  <1>5. SoundBucket(c)
    BY <1>1, <1>4, NoBucketSound DEF Released
  <1>6. Writes(k, c)
    BY <1>1, <1>4, <1>5 DEF Writes, t
  <1> QED BY <1>3, <1>4, <1>6 DEF x, t

\* What a reply makes of the bucket it belongs to.
Learned(b, u) == IF Carries(u) THEN Merge(b, u) ELSE IF b.probe THEN NoBucket ELSE b

LEMMA HeadersWrite ==
    ASSUME Ready, NEW w \in Workers, ApplyHeaders(w)
    PROVE  /\ Spares(store, store')
           /\ Writes(KeyOfReply(w), Learned(store.buckets[KeyOfReply(w)], req[w].reply))
           /\ req[w].reply \in Replies
           /\ Carries(req[w].reply) => /\ req[w].reply.after > 0 /\ req[w].reply.remaining < Limit
                                       /\ KeyOfReply(w) = Hash
  <1> DEFINE k == KeyOfReply(w)
             b == store.buckets[k]
             u == req[w].reply
             t == store'
             c == Learned(b, u)
  <1>1. /\ now \in 0..Horizon /\ SoundStore(store) /\ req[w] \in Request /\ Timely(req[w])
        /\ req[w].phase = "reconciling"
    BY ReadyOf DEF Ready, ApplyHeaders, At
  <1>2. k \in Keys /\ (Carries(u) => k = Hash)
    BY <1>1, KeyOf DEF Key
  <1>3. u \in Replies /\ (Carries(u) => u.after > 0 /\ u.remaining < Limit)
    BY <1>1, RequestOf DEF Timely, SoundReply
  <1>4. t = Reconcile(store, k, u) /\ now' = now
    BY DEF ApplyHeaders
  <1> HIDE DEF t, k, u
  <1>5. SoundBucket(b)
    BY <1>1, <1>2 DEF SoundStore
  <1>6. SoundBucket(c)
    BY <1>1, <1>3, <1>5, MergeSound, NoBucketSound DEF Learned
  <1>7. Rewrites(store, t, k, c) /\ Spares(store, t)
    BY <1>1, <1>2, <1>3, <1>4, ReconcileSound, BareSound DEF Learned
  <1> HIDE DEF c
  <1>8. Writes(k, c)
    BY <1>2, <1>4, <1>6, <1>7 DEF Writes, t
  <1> QED BY <1>2, <1>3, <1>7, <1>8 DEF c, t, k, u

LEMMA FinishWrites ==
    ASSUME Ready, NEW w \in Workers, Finish(w)
    PROVE  \/ /\ Holds(req[w]) /\ store' = Release(store, req[w], FALSE) /\ now' = now
              /\ req[w].reply.kind # "global"
           \/ store' = ExtendGlobal(store) /\ Quiet /\ req[w].reply.kind = "global"
              /\ store'.log = store.log
              /\ store'.globalReset = Most(store.globalReset, now + GlobalWait)
           \/ store' = store /\ Quiet /\ req[w].reply.kind # "global"
  <1>1. req[w] \in Request /\ SoundStore(store) /\ now' = now /\ req[w].phase = "finishing"
    BY ReadyOf DEF Finish, At
  <1>2. KeyOfReply(w) = Key(req[w])
    BY <1>1, KeyOf
  <1>3. CASE req[w].reply.kind = "global"
    <2> DEFINE g == Most(store.globalReset, now + GlobalWait)
    <2>1. store' = [store EXCEPT !.globalReset = g] /\ store' = ExtendGlobal(store)
      BY <1>3 DEF Finish, ExtendGlobal
    <2>2. store \in Stores
      BY <1>1 DEF SoundStore
    <2> HIDE DEF g
    <2>3. store'.buckets = store.buckets /\ store'.log = store.log /\ store'.globalReset = g
      BY <2>1, <2>2 DEF Stores
    <2> QED BY <1>1, <1>3, <2>1, <2>3 DEF Quiet, g
  <1>4. CASE req[w].reply.kind # "global" /\ KeyOfReply(w) # req[w].key
    <2>1. Holds(req[w])
      BY <1>1, <1>2, <1>4 DEF Holds
    <2>2. store' = Release(store, req[w], FALSE)
      BY <1>4 DEF Finish
    <2> QED BY <1>1, <1>4, <2>1, <2>2
  <1>5. CASE req[w].reply.kind # "global" /\ KeyOfReply(w) = req[w].key
    <2>1. store' = store
      BY <1>5 DEF Finish
    <2> QED BY <1>1, <1>5, <2>1 DEF Quiet
  <1> QED BY <1>3, <1>4, <1>5

LEMMA ReceiveWrites ==
    ASSUME Ready, NEW w \in Workers, Receive(w)
    PROVE  Quiet /\ store'.globalReset = store.globalReset /\ store'.log = store.log
  <1> DEFINE h == store.mapped \cup {RouteOf[w]}
  <1>1. store \in Stores /\ now' = now
    BY ReadyOf DEF Receive, SoundStore
  <1>2. store' = store \/ store' = [store EXCEPT !.mapped = h]
    BY DEF Receive
  <1> HIDE DEF h
  <1> QED BY <1>1, <1>2 DEF Quiet, Stores

-----------------------------------------------------------------------------
(* Units.                                                                  *)

\* What is left of a window and what was handed out of it is at most the limit.
Accounted(b, n) == Active(b) /\ ~b.probe => b.remaining + n <= Limit

LEMMA UnitsOf == NoUnitTwice <=> \A k \in Keys : Accounted(store.buckets[k], spent[k])
  BY DEF NoUnitTwice, Accounted

LEMMA UnitsNext ==
    ASSUME now' = now
    PROVE  NoUnitTwice' <=> \A k \in Keys : Accounted(store'.buckets[k], spent'[k])
  BY DEF NoUnitTwice, Accounted, Active

LEMMA WriteUnits ==
    ASSUME Ready, NoUnitTwice, NEW k, NEW c, Writes(k, c),
           \A j \in Keys \ {k} : spent'[j] = spent[j],
           Accounted(c, spent'[k])
    PROVE  NoUnitTwice'
  <1>1. now' = now /\ now \in 0..Horizon /\ now \in Nat
    BY Consts DEF Writes, Ready
  <1>2. \A n : Accounted(NoBucket, n)
    BY <1>1 DEF Accounted, Active, NoBucket
  <1>3. ASSUME NEW j \in Keys PROVE Accounted(store'.buckets[j], spent'[j])
    <2>1. CASE j = k
      <3>1. store'.buckets[j] = c \/ store'.buckets[j] = NoBucket
        BY <2>1 DEF Writes, Rewrites, Swept
      <3> QED BY <1>2, <2>1, <3>1
    <2>2. CASE j # k
      <3>1. store'.buckets[j] = store.buckets[j] \/ store'.buckets[j] = NoBucket
        BY <2>2 DEF Writes, Rewrites, Swept
      <3>2. Accounted(store.buckets[j], spent[j]) /\ spent'[j] = spent[j]
        BY <2>2, UnitsOf
      <3> QED BY <1>2, <3>1, <3>2
    <2> QED BY <2>1, <2>2
  <1> QED BY <1>1, <1>3, UnitsNext

LEMMA QuietUnits ==
    ASSUME NoUnitTwice, Quiet, spent' = spent
    PROVE  NoUnitTwice'
  BY UnitsOf, UnitsNext DEF Quiet

LEMMA GrantUnits ==
    ASSUME Ready, Histories, NoUnitTwice, NEW w \in Workers, Grant(w)
    PROVE  NoUnitTwice'
  <1> DEFINE k == req[w].key
             b == store.buckets[k]
             c == AfterGrant(b)
             n == IF Active(b) THEN spent[k] + 1 ELSE 1
  <1>1. Writes(k, c)
    BY GrantWrites
  <1>2. spent' = [spent EXCEPT ![k] = n]
    BY DEF Grant
  <1>3. k \in Keys /\ SoundBucket(b) /\ now \in 0..Horizon /\ Grants(b)
    BY ReadyOf DEF Ready, Grant
  <1>4. spent \in [Keys -> Nat] /\ spent[k] \in Nat
    BY <1>3 DEF Histories
  <1>5. Accounted(b, spent[k])
    BY <1>3, UnitsOf
  <1> HIDE DEF k
  <1>6. b.remaining \in Nat /\ SoundBucket(c) /\ c.remaining \in Nat
    BY <1>1, <1>3, BucketOf DEF SoundBucket, Writes
  <1>7. Accounted(c, n)
    <2>1. CASE Active(b)
      <3>1. ~b.probe /\ c.remaining = b.remaining - 1
        BY <1>3, <2>1, GrantSound
      <3> QED BY <1>4, <1>5, <1>6, <2>1, <3>1, Consts DEF Accounted
    <2>2. CASE ~Active(b)
      <3>1. c.remaining <= Limit - 1
        BY <1>3, <2>2, GrantSound
      <3> QED BY <1>6, <2>2, <3>1, Consts DEF Accounted
    <2> QED BY <2>1, <2>2
  <1> HIDE DEF n, c, b
  <1>8. spent'[k] = n /\ \A j \in Keys \ {k} : spent'[j] = spent[j]
    BY <1>2, <1>3, <1>4
  <1> QED BY <1>1, <1>7, <1>8, WriteUnits

LEMMA ReleaseUnits ==
    ASSUME Ready, Histories, NoUnitTwice, NEW w \in Workers, Holds(req[w]),
           NEW refund \in BOOLEAN, store' = Release(store, req[w], refund), now' = now,
           NEW n, n = IF refund /\ SameWindow(store, req[w]) /\ spent[req[w].key] > 0
                      THEN spent[req[w].key] - 1 ELSE spent[req[w].key],
           spent'[req[w].key] = n,
           \A j \in Keys \ {req[w].key} : spent'[j] = spent[j]
    PROVE  NoUnitTwice'
  <1> DEFINE k == req[w].key
             b == store.buckets[k]
             same == SameWindow(store, req[w])
  <1>1. k \in Keys /\ SoundBucket(b) /\ now \in Nat
    BY ReadyOf
  <1>2. spent[k] \in Nat /\ Accounted(b, spent[k])
    BY <1>1, UnitsOf DEF Histories
  <1>3. PICK c : Released(b, c, same, refund) /\ Writes(k, c)
    BY ReleaseWrites
  <1>4. /\ b.remaining \in Nat /\ c.remaining \in Nat /\ b.resetAt \in Nat /\ c.resetAt \in Nat
        /\ b.probe \in BOOLEAN /\ c.probe \in BOOLEAN /\ n \in Nat /\ n <= spent[k]
        /\ c.remaining <= Limit
    BY <1>1, <1>2, <1>3, BucketOf DEF SoundBucket, Writes
  <1>5. n = IF refund /\ same /\ spent[k] > 0 THEN spent[k] - 1 ELSE spent[k]
    OBVIOUS
  <1> HIDE DEF same, k, b
  <1>6. Accounted(c, n)
    <2>1. CASE c = b
      BY <1>2, <1>4, <2>1, Consts DEF Accounted
    <2>2. CASE c = NoBucket
      BY <1>1, <2>2 DEF Accounted, Active, NoBucket
    <2>3. CASE /\ same /\ ~b.probe /\ refund /\ c.resetAt = b.resetAt
               /\ c.remaining <= b.remaining + 1 /\ c.remaining <= Limit
      <3>1. CASE spent[k] = 0
        BY <1>2, <1>4, <1>5, <3>1, Consts DEF Accounted
      <3>2. CASE spent[k] > 0
        <4>1. n = spent[k] - 1
          BY <1>5, <2>3, <3>2
        <4>2. Active(c) => Active(b)
          BY <2>3 DEF Active
        <4> QED BY <1>2, <1>4, <2>3, <4>1, <4>2, Consts DEF Accounted
      <3> QED BY <1>2, <3>1, <3>2
    <2> QED BY <1>3, <2>1, <2>2, <2>3 DEF Released
  <1> QED BY <1>3, <1>6, WriteUnits DEF k

LEMMA HeadersUnits ==
    ASSUME Ready, Histories, NoUnitTwice, NEW w \in Workers, ApplyHeaders(w)
    PROVE  NoUnitTwice'
  <1> DEFINE k == KeyOfReply(w)
             b == store.buckets[k]
             u == req[w].reply
             c == Learned(b, u)
             n == IF (Active(b) /\ ~b.probe) \/ ~Carries(u) THEN spent[k] ELSE 1
  <1>1. /\ Writes(k, c) /\ u \in Replies
        /\ Carries(u) => u.after > 0 /\ u.remaining < Limit
    BY HeadersWrite
  <1>2. k \in Keys /\ SoundBucket(c) /\ SoundStore(store) /\ now \in Nat /\ now \in 0..Horizon
    BY <1>1, ReadyOf DEF Writes, Ready
  <1>3. SoundBucket(b)
    BY <1>2 DEF SoundStore
  <1>4. spent \in [Keys -> Nat] /\ spent[k] \in Nat /\ Accounted(b, spent[k])
    BY <1>2, UnitsOf DEF Histories
  <1>5. spent' = [spent EXCEPT ![k] = n]
    BY DEF ApplyHeaders, Carries
  <1>6. /\ b.remaining \in Nat /\ c.remaining \in Nat
    BY <1>2, <1>3, BucketOf DEF SoundBucket
  <1>7. Accounted(c, n)
    <2>1. CASE Carries(u)
      <3>1. c = Merge(b, u)
        BY <2>1 DEF Learned
      <3>2. /\ Active(b) /\ ~b.probe => c.remaining <= b.remaining
            /\ c.remaining < Limit \/ (Active(b) /\ ~b.probe)
        BY <1>1, <1>2, <1>3, <2>1, <3>1, MergeSound
      <3> QED BY <1>4, <1>6, <2>1, <3>2, Consts DEF Accounted
    <2>2. CASE ~Carries(u)
      <3>1. c = NoBucket \/ c = b
        BY <2>2 DEF Learned
      <3>2. Accounted(NoBucket, n)
        BY <1>2 DEF Accounted, Active, NoBucket
      <3> QED BY <1>4, <2>2, <3>1, <3>2
    <2> QED BY <2>1, <2>2
  <1> HIDE DEF n, c, k
  <1>8. spent'[k] = n /\ \A j \in Keys \ {k} : spent'[j] = spent[j]
    BY <1>2, <1>4, <1>5
  <1> QED BY <1>1, <1>7, <1>8, WriteUnits

LEMMA StepUnits ==
    ASSUME Ready, Histories, NoUnitTwice, [Next]_vars
    PROVE  NoUnitTwice'
  <1>1. now \in Nat /\ now \in 0..Horizon /\ Whole(store, req) /\ spent \in [Keys -> Nat]
    BY Consts DEF Ready, Histories
  <1>2. ASSUME NEW w \in Workers, Withdraw(w) PROVE NoUnitTwice'
    <2> DEFINE k == req[w].key
               n == IF SameWindow(store, req[w]) /\ spent[k] > 0 THEN spent[k] - 1 ELSE spent[k]
    <2>1. Holds(req[w]) /\ store' = Release(store, req[w], TRUE) /\ now' = now
      BY <1>2 DEF Withdraw, At, Holds
    <2>2. spent' = [spent EXCEPT ![k] = n] /\ k \in Keys
      BY <1>2, ReadyOf DEF Withdraw
    <2>3. spent'[k] = n /\ \A j \in Keys \ {k} : spent'[j] = spent[j]
      BY <1>1, <2>2
    <2>4. n = IF TRUE /\ SameWindow(store, req[w]) /\ spent[k] > 0 THEN spent[k] - 1 ELSE spent[k]
      OBVIOUS
    <2> HIDE DEF n
    <2> QED BY <2>1, <2>3, <2>4, ReleaseUnits
  <1>3. ASSUME NEW w \in Workers, Fail(w) \/ Finish(w) PROVE NoUnitTwice'
    <2>1. spent' = spent
      BY <1>3 DEF Fail, Finish
    <2>2. \/ Quiet
          \/ Holds(req[w]) /\ store' = Release(store, req[w], FALSE) /\ now' = now
      BY <1>3, FinishWrites DEF Fail, At, Holds
    <2>3. CASE Holds(req[w]) /\ store' = Release(store, req[w], FALSE) /\ now' = now
      <3> DEFINE k == req[w].key
                 n == spent[k]
      <3>1. n = IF FALSE /\ SameWindow(store, req[w]) /\ spent[k] > 0 THEN spent[k] - 1 ELSE spent[k]
        OBVIOUS
      <3>2. spent'[k] = n /\ \A j \in Keys \ {k} : spent'[j] = spent[j]
        BY <2>1
      <3> HIDE DEF n
      <3> QED BY <2>3, <3>1, <3>2, ReleaseUnits
    <2> QED BY <2>1, <2>2, <2>3, QuietUnits
  <1>4. ASSUME NEW w \in Workers,
               \/ Start(w) \/ Refuse(w) \/ Wake(w) \/ Abandon(w) \/ Send(w) \/ Receive(w)
               \/ \E kind \in {"lost", "bare", "global"} : SendAmiss(w, kind)
        PROVE  NoUnitTwice'
    <2>1. spent' = spent
      BY <1>4 DEF Start, Refuse, Wake, Abandon, Send, Receive, SendAmiss
    <2>2. Quiet
      BY <1>4, ReceiveWrites DEF Start, Refuse, Wake, Abandon, Send, SendAmiss, Quiet
    <2> QED BY <2>1, <2>2, QuietUnits
  <1>5. CASE Tick
    <2>1. now' = now + 2 /\ store' = store /\ spent' = spent
      BY <1>5, Numbers DEF Tick
    <2>2. SoundStore(store)
      BY <1>1 DEF Whole
    <2>3. ASSUME NEW k \in Keys, store.buckets[k].resetAt > now + 2
          PROVE  Active(store.buckets[k])
      <3>1. store.buckets[k].resetAt \in Nat
        BY <2>2, BucketOf DEF SoundStore, SoundBucket
      <3> QED BY <1>1, <2>3, <3>1 DEF Active
    <2> QED BY <2>1, <2>3 DEF NoUnitTwice, Active
  <1>6. CASE UNCHANGED vars
    BY <1>6, QuietUnits DEF vars, Quiet
  <1> QED BY <1>2, <1>3, <1>4, <1>5, <1>6, GrantUnits, HeadersUnits DEF Next

LEMMA InitUnits == Init => NoUnitTwice
  BY NoBucketSound DEF Init, NoUnitTwice, NoBucket, Active

\* No unit of a window is handed out twice, in whatever order responses arrive
\* and units are given back, and whatever the store sweeps (store.ts,
\* reserveState, reconcileState and release).
THEOREM UnitsOnce == Spec => []NoUnitTwice
  BY Invariance, InitUnits, StepUnits, PTL DEF Spec, IInv

-----------------------------------------------------------------------------
(* The global limit.                                                       *)

\* Grants in the order of time, none of them to come.
Past(s) ==
    /\ \A i \in 1..Len(s) : s[i] <= now
    /\ \A i, j \in 1..Len(s) : i <= j => s[i] <= s[j]

\* The log ends with the grants that the global window still counts.
EndsAfter(log, s, t) ==
    \A i \in 1..Len(s) : s[i] > t =>
        /\ Len(s) - i < Len(log)
        /\ log[Len(log) - (Len(s) - i)] = s[i]
Ends(log, s) == EndsAfter(log, s, now - GLOBAL_WINDOW)

Logged == Past(grants) /\ Len(grants) <= GlobalLimit /\ Ends(store.log, grants)

LEMMA EndsLater ==
    ASSUME NEW l, NEW s, \A i \in 1..Len(s) : s[i] \in Nat, NEW t \in Int, NEW u \in Int,
           t <= u, EndsAfter(l, s, t)
    PROVE  EndsAfter(l, s, u)
  <1> SUFFICES ASSUME NEW i \in 1..Len(s), s[i] > u
               PROVE  Len(s) - i < Len(l) /\ l[Len(l) - (Len(s) - i)] = s[i]
    BY DEF EndsAfter
  <1>1. s[i] > t
    OBVIOUS
  <1> QED BY <1>1 DEF EndsAfter

LEMMA GrantsOf ==
    ASSUME Histories
    PROVE  /\ Len(grants) \in Nat /\ \A i \in 1..Len(grants) : grants[i] \in 0..Horizon
  BY LenProperties, ElementOfSeq DEF Histories

\* The grants after one more.
LEMMA MoreGrants ==
    ASSUME Ready, Histories, Len(grants) <= GlobalLimit, NEW h,
           h = Append(IF Len(grants) < GlobalLimit THEN grants ELSE Tail(grants), now)
    PROVE  \E o \in {0, 1} :
               /\ Len(h) = Len(grants) + 1 - o /\ Len(h) <= GlobalLimit
               /\ Len(h) \in Nat /\ h[Len(h)] = now
               /\ \A i \in 1..(Len(h) - 1) : i + o \in 1..Len(grants) /\ h[i] = grants[i + o]
  <1>1. grants \in Seq(0..Horizon) /\ now \in 0..Horizon /\ Len(grants) \in Nat
    BY LenProperties DEF Ready, Histories
  <1>2. CASE Len(grants) < GlobalLimit
    <2>1. h = Append(grants, now)
      BY <1>2
    <2>2. /\ Len(h) = Len(grants) + 1 /\ h[Len(grants) + 1] = now
          /\ \A i \in 1..Len(grants) : h[i] = grants[i]
      BY <1>1, <2>1, AppendProperties
    <2>3. /\ Len(h) = Len(grants) + 1 - 0 /\ Len(h) <= GlobalLimit
          /\ Len(h) \in Nat /\ h[Len(h)] = now
          /\ \A i \in 1..(Len(h) - 1) : i + 0 \in 1..Len(grants) /\ h[i] = grants[i + 0]
      BY <1>1, <1>2, <2>2, Consts
    <2> QED BY <2>3
  <1>3. CASE ~(Len(grants) < GlobalLimit)
    <2> DEFINE g == Tail(grants)
    <2>1. h = Append(g, now) /\ grants # <<>>
      BY <1>1, <1>3, Consts
    <2>2. /\ g \in Seq(0..Horizon) /\ Len(g) = Len(grants) - 1
          /\ \A i \in 1..Len(g) : g[i] = grants[i + 1]
      BY <1>1, <2>1, HeadTailProperties
    <2> HIDE DEF g
    <2>3. /\ Len(h) = Len(g) + 1 /\ h[Len(g) + 1] = now
          /\ \A i \in 1..Len(g) : h[i] = g[i]
      BY <1>1, <2>1, <2>2, AppendProperties
    <2>4. /\ Len(h) = Len(grants) + 1 - 1 /\ Len(h) <= GlobalLimit
          /\ Len(h) \in Nat /\ h[Len(h)] = now
          /\ \A i \in 1..(Len(h) - 1) : i + 1 \in 1..Len(grants) /\ h[i] = grants[i + 1]
      BY <1>1, <2>2, <2>3, Consts
    <2> QED BY <2>4
  <1> QED BY <1>2, <1>3

\* The last of the recent grants is in the log that is consulted.
LEMMA StillRecent ==
    ASSUME Ready, Histories, Logged, NEW l, l = RecentSends(store), NEW i \in 1..Len(grants),
           grants[i] > now - GLOBAL_WINDOW
    PROVE  /\ l \in Seq(0..Horizon) /\ Len(l) \in Nat
           /\ Len(grants) - i < Len(l) /\ l[Len(l) - (Len(grants) - i)] = grants[i]
  <1> DEFINE e == Expired(store.log)
             n == Len(store.log)
             d == Len(grants) - i
  <1>1. now \in 0..Horizon /\ SoundStore(store) /\ now \in Nat
    BY Consts DEF Ready, Whole
  <1>2. /\ n \in Nat /\ e \in 0..n /\ l \in Seq(0..Horizon) /\ Len(l) = n - e
        /\ \A j \in 1..Len(l) : l[j] = store.log[e + j]
        /\ \A j \in 1..e : store.log[j] <= now - GLOBAL_WINDOW
    BY <1>1, RecentOf
  <1>3. d \in Nat /\ d < n /\ store.log[n - d] = grants[i] /\ grants[i] \in Nat
    BY GrantsOf, Consts DEF Logged, Ends, EndsAfter
  <1> HIDE DEF e, n, d
  <1>4. ~(n - d \in 1..e)
    <2> SUFFICES ASSUME n - d \in 1..e PROVE FALSE
      OBVIOUS
    <2>1. grants[i] <= now - GLOBAL_WINDOW
      BY <1>2, <1>3
    <2> QED BY <1>1, <1>3, <2>1, Consts
  <1>5. d < Len(l) /\ Len(l) - d \in 1..Len(l) /\ e + (Len(l) - d) = n - d /\ Len(l) \in Nat
    BY <1>2, <1>3, <1>4
  <1>6. l[Len(l) - d] = grants[i]
    BY <1>2, <1>3, <1>5
  <1> QED BY <1>2, <1>5, <1>6 DEF d

LEMMA GrantLogged ==
    ASSUME Ready, Histories, Logged, NEW w \in Workers, Grant(w)
    PROVE  Logged'
  <1> DEFINE l == RecentSends(store)
             m == store'.log
             h == grants'
  <1>1. now' = now /\ now \in Nat /\ now \in 0..Horizon /\ SoundStore(store)
    BY Consts DEF Grant, Ready, Whole
  <1>2. m = Append(l, now)
    BY GrantWrites
  <1>3. h = Append(IF Len(grants) < GlobalLimit THEN grants ELSE Tail(grants), now)
    BY DEF Grant
  <1>4. l \in Seq(0..Horizon) /\ Len(l) \in Nat
    BY <1>1, RecentOf, LenProperties
  <1>9. \A i \in 1..Len(grants) : grants[i] > now - GLOBAL_WINDOW =>
            Len(grants) - i < Len(l) /\ l[Len(l) - (Len(grants) - i)] = grants[i]
    BY StillRecent
  <1> HIDE DEF h, m, l
  <1>5. Len(m) = Len(l) + 1 /\ m[Len(l) + 1] = now /\ \A i \in 1..Len(l) : m[i] = l[i]
    BY <1>1, <1>2, <1>4, AppendProperties
  <1>6. Len(grants) <= GlobalLimit /\ Past(grants)
    BY DEF Logged
  <1>7. PICK o \in {0, 1} :
            /\ Len(h) = Len(grants) + 1 - o /\ Len(h) <= GlobalLimit
            /\ Len(h) \in Nat /\ h[Len(h)] = now
            /\ \A i \in 1..(Len(h) - 1) : i + o \in 1..Len(grants) /\ h[i] = grants[i + o]
    BY <1>3, <1>6, MoreGrants
  <1>8. Len(grants) \in Nat /\ \A i \in 1..Len(grants) : grants[i] \in Nat
    BY GrantsOf, Consts
  <1>10. \A i \in 1..Len(h) : h[i] <= now
    <2> SUFFICES ASSUME NEW i \in 1..Len(h) PROVE h[i] <= now
      OBVIOUS
    <2>1. CASE i = Len(h)
      BY <1>1, <1>7, <2>1
    <2>2. CASE i # Len(h)
      <3>1. i \in 1..(Len(h) - 1)
        BY <1>7, <2>2
      <3> QED BY <1>6, <1>7, <3>1 DEF Past
    <2> QED BY <2>1, <2>2
  <1>11. \A i, j \in 1..Len(h) : i <= j => h[i] <= h[j]
    <2> SUFFICES ASSUME NEW i \in 1..Len(h), NEW j \in 1..Len(h), i <= j PROVE h[i] <= h[j]
      OBVIOUS
    <2>1. CASE j = Len(h)
      BY <1>7, <1>10, <2>1
    <2>2. CASE j # Len(h)
      <3>1. i \in 1..(Len(h) - 1) /\ j \in 1..(Len(h) - 1) /\ i + o <= j + o
        BY <1>7, <2>2
      <3>2. /\ i + o \in 1..Len(grants) /\ h[i] = grants[i + o]
            /\ j + o \in 1..Len(grants) /\ h[j] = grants[j + o]
        BY <1>7, <3>1
      <3> QED BY <1>6, <3>1, <3>2 DEF Past
    <2> QED BY <2>1, <2>2
  <1>12. ASSUME NEW i \in 1..Len(h), h[i] > now - GLOBAL_WINDOW
         PROVE  /\ Len(h) - i < Len(m) /\ m[Len(m) - (Len(h) - i)] = h[i]
    <2>1. CASE i = Len(h)
      <3>1. Len(h) - i = 0 /\ Len(m) - (Len(h) - i) = Len(l) + 1
        BY <1>4, <1>5, <1>7, <2>1
      <3> QED BY <1>4, <1>5, <1>7, <2>1, <3>1
    <2>2. CASE i # Len(h)
      <3> DEFINE j == i + o
                 d == Len(grants) - j
      <3>1. i \in 1..(Len(h) - 1)
        BY <1>7, <2>2
      <3>2. j \in 1..Len(grants) /\ h[i] = grants[j]
        BY <1>7, <3>1
      <3>3. d < Len(l) /\ l[Len(l) - d] = grants[j]
        BY <1>9, <1>12, <3>2
      <3>4. d \in Nat /\ Len(h) - i = d + 1
        BY <1>7, <1>8, <3>1, <3>2
      <3> HIDE DEF d
      <3>5. Len(l) - d \in 1..Len(l) /\ Len(m) - (Len(h) - i) = Len(l) - d
        BY <1>4, <1>5, <3>3, <3>4
      <3>6. m[Len(l) - d] = h[i]
        BY <1>5, <3>2, <3>3, <3>5
      <3>7. m[Len(m) - (Len(h) - i)] = h[i]
        BY <3>5, <3>6
      <3>8. Len(h) - i < Len(m)
        BY <1>4, <1>5, <3>3, <3>4
      <3> QED BY <3>7, <3>8
    <2> QED BY <2>1, <2>2
  <1>13. Past(grants)'
    BY <1>1, <1>10, <1>11 DEF Past, h
  <1>14. Ends(store.log, grants)'
    BY <1>1, <1>12 DEF Ends, EndsAfter, h, m
  <1> QED BY <1>7, <1>13, <1>14 DEF Logged, h

\* A sweep forgets the log when none of its sends is recent.
LEMMA SparesLogged ==
    ASSUME Ready, Histories, Logged, now' = now, grants' = grants,
           Trimmed(store.log, store'.log)
    PROVE  Logged'
  <1>1. now \in Nat /\ Len(grants) \in Nat /\ \A i \in 1..Len(grants) : grants[i] \in Nat
    BY GrantsOf, Consts DEF Ready
  <1>2. CASE store'.log = store.log
    BY <1>2 DEF Logged, Past, Ends, EndsAfter
  <1>3. CASE store.log # <<>> => store.log[Len(store.log)] <= now - GLOBAL_WINDOW
    <2> DEFINE n == Len(grants)
               q == Len(store.log)
    <2>1. q \in Nat /\ (store.log = <<>> => q = 0) /\ \A i \in 1..q : store.log[i] \in Nat
      <3>1. store.log \in Seq(0..Horizon)
        BY StoreOf DEF Ready, Whole, SoundStore
      <3> QED BY <3>1, EmptySeq, LenProperties, ElementOfSeq, Consts
    <2>2. \A i \in 1..n : ~(grants[i] > now - GLOBAL_WINDOW)
      <3> SUFFICES ASSUME NEW i \in 1..n, grants[i] > now - GLOBAL_WINDOW PROVE FALSE
        OBVIOUS
      <3>1. n \in 1..n /\ i <= n
        BY <1>1
      <3>2. grants[i] <= grants[n]
        BY <3>1 DEF Logged, Past
      <3>3. grants[n] > now - GLOBAL_WINDOW
        BY <1>1, <3>1, <3>2, Consts
      <3>4. n - n < q /\ store.log[q - (n - n)] = grants[n]
        BY <3>1, <3>3 DEF Logged, Ends, EndsAfter
      <3>5. q > 0 /\ store.log[q] = grants[n] /\ store.log # <<>>
        BY <1>1, <2>1, <3>4
      <3> QED BY <1>1, <1>3, <3>1, <3>3, <3>5, Consts
    <2> QED BY <2>2 DEF Logged, Past, Ends, EndsAfter
  <1> QED BY <1>2, <1>3 DEF Trimmed

LEMMA StepLogged ==
    ASSUME Ready, Histories, Logged, [Next]_vars
    PROVE  Logged'
  <1>1. ASSUME NEW w \in Workers, Withdraw(w) \/ Fail(w) PROVE Logged'
    <2>1. \E refund \in BOOLEAN : store' = Release(store, req[w], refund)
      BY <1>1 DEF Withdraw, Fail
    <2>2. Holds(req[w]) /\ now' = now /\ grants' = grants
      BY <1>1 DEF Withdraw, Fail, At, Holds
    <2>3. Spares(store, store')
      BY <2>1, <2>2, ReleaseWrites
    <2> QED BY <2>2, <2>3, SparesLogged DEF Spares
  <1>2. ASSUME NEW w \in Workers, ApplyHeaders(w) PROVE Logged'
    <2>1. Spares(store, store') /\ now' = now /\ grants' = grants
      BY <1>2, HeadersWrite DEF ApplyHeaders
    <2> QED BY <2>1, SparesLogged DEF Spares
  <1>3. ASSUME NEW w \in Workers, Finish(w) PROVE Logged'
    <2>1. now' = now /\ grants' = grants
      BY <1>3 DEF Finish
    <2>2. Trimmed(store.log, store'.log)
      <3>1. CASE Holds(req[w]) /\ store' = Release(store, req[w], FALSE)
        BY <2>1, <3>1, ReleaseWrites DEF Spares
      <3>2. CASE store'.log = store.log
        BY <3>2 DEF Trimmed
      <3> QED BY <1>3, <3>1, <3>2, FinishWrites
    <2> QED BY <2>1, <2>2, SparesLogged
  <1>4. ASSUME NEW w \in Workers,
               \/ Start(w) \/ Refuse(w) \/ Wake(w) \/ Abandon(w) \/ Send(w) \/ Receive(w)
               \/ \E kind \in {"lost", "bare", "global"} : SendAmiss(w, kind)
        PROVE  Logged'
    <2>1. now' = now /\ grants' = grants
      BY <1>4 DEF Start, Refuse, Wake, Abandon, Send, Receive, SendAmiss
    <2>2. store'.log = store.log
      BY <1>4, ReceiveWrites DEF Start, Refuse, Wake, Abandon, Send, SendAmiss
    <2> QED BY <2>1, <2>2, SparesLogged DEF Trimmed
  <1>5. CASE Tick
    <2>1. now' = now + 2 /\ store' = store /\ grants' = grants
      BY <1>5, Numbers DEF Tick
    <2>2. now \in Nat /\ \A i \in 1..Len(grants) : grants[i] \in Nat
      BY GrantsOf, Consts DEF Ready
    <2>3. Past(grants)'
      BY <2>1, <2>2 DEF Logged, Past
    <2>4. EndsAfter(store.log, grants, now - GLOBAL_WINDOW)
      BY DEF Logged, Ends
    <2>5. EndsAfter(store.log, grants, (now + 2) - GLOBAL_WINDOW)
      BY <2>2, <2>4, Consts, EndsLater
    <2>6. EndsAfter(store'.log, grants', now' - GLOBAL_WINDOW)
      BY <2>1, <2>5
    <2>7. Ends(store.log, grants)'
      BY <2>6 DEF Ends
    <2> QED BY <2>1, <2>3, <2>7 DEF Logged
  <1>6. CASE UNCHANGED vars
    BY <1>6 DEF vars, Logged, Past, Ends, EndsAfter
  <1> QED BY <1>1, <1>2, <1>3, <1>4, <1>5, <1>6, GrantLogged DEF Next

LEMMA InitLogged == Init => Logged
  <1> SUFFICES ASSUME Init PROVE Logged
    OBVIOUS
  <1>1. Len(grants) = 0
    BY EmptySeq DEF Init
  <1> QED BY <1>1, Consts DEF Logged, Past, Ends, EndsAfter

LEMMA GrantPaced ==
    ASSUME Ready, Histories, Logged, NEW w \in Workers, Grant(w), Len(grants) = GlobalLimit
    PROVE  now >= grants[1] + GLOBAL_WINDOW
  <1> DEFINE l == RecentSends(store)
  <1>1. now \in Nat /\ 1 \in 1..Len(grants) /\ grants[1] \in Nat /\ Len(grants) \in Nat
    BY GrantsOf, Consts DEF Ready
  <1>2. SUFFICES ASSUME grants[1] > now - GLOBAL_WINDOW PROVE FALSE
    BY <1>1, Consts
  <1>3. Len(grants) - 1 < Len(l) /\ Len(l) \in Nat /\ l \in Seq(0..Horizon)
    BY <1>1, <1>2, StillRecent
  <1>4. Len(l) >= GlobalLimit /\ 1 \in 1..Len(l)
    BY <1>1, <1>3, Consts
  <1>5. l[1] \in Nat
    BY <1>3, <1>4, ElementOfSeq, Consts
  <1>6. GlobalDelay(store) = 0
    BY DEF Grant
  <1>7. store.globalReset \in Nat
    BY StoreOf, Numbers DEF Ready, Whole, SoundStore
  <1>8. GlobalDelay(store) = IF store.globalReset > now THEN store.globalReset - now
                             ELSE IF Len(l) >= GlobalLimit
                                  THEN Most(1, l[1] + GLOBAL_WINDOW - now + 1) ELSE 0
    BY DEF GlobalDelay
  <1> HIDE DEF l
  <1> QED BY <1>1, <1>4, <1>5, <1>6, <1>7, <1>8, Consts DEF Most

LEMMA StepPaced ==
    ASSUME Ready, Histories, Logged
    PROVE  [\A w \in Workers : Grant(w) /\ Len(grants) = GlobalLimit
                                  => now >= grants[1] + GLOBAL_WINDOW]_vars
  BY GrantPaced

\* The global limit is kept in any span of its window, though its log is swept
\* and shared by all buckets (store.ts, takeGlobalSlot and prune).
THEOREM GlobalIsPaced == Spec => GlobalPaced
  <1>1. Init => Logged
    BY InitLogged
  <1>2. IInv /\ Logged /\ [Next]_vars => Logged'
    BY StepLogged DEF IInv
  <1>3. IInv /\ Logged => [\A w \in Workers : Grant(w) /\ Len(grants) = GlobalLimit
                                  => now >= grants[1] + GLOBAL_WINDOW]_vars
    BY StepPaced DEF IInv
  <1> QED BY <1>1, <1>2, <1>3, Invariance, PTL DEF Spec, GlobalPaced

-----------------------------------------------------------------------------
(* What a 429 asks for.                                                    *)

\* Discord's windows, where they are known, follow one another.
Windows == {0, discord.reset} \cup {store.buckets[k].window : k \in Keys}
              \cup {req[w].reply.window : w \in Workers}
Apart(x, y) == x # 0 /\ x < y => y >= x + Window
Spaced == \A x \in Windows : x <= discord.reset /\ \A y \in Windows : Apart(x, y)

\* The bucket has nothing left until t, and no later window ends before.
Spent(b, t) ==
    /\ b.remaining = 0 /\ b.resetAt >= t /\ ~b.provisional /\ b.limit = Limit
    /\ b.window # 0 /\ t <= b.window + Timeout

Waits(s, k, t) == s.globalReset >= t \/ Spent(s.buckets[k], t)

Remembered == \A k \in Keys : told[k] > now => Waits(store, k, told[k])

LEMMA WindowsNat ==
    ASSUME Ready, discord \in DiscordState
    PROVE  \A x \in Windows : x \in Nat
  <1>1. discord.reset \in Nat
    BY Numbers DEF DiscordState
  <1>2. \A k \in Keys : store.buckets[k].window \in Nat
    BY BucketOf DEF Ready, Whole, SoundStore, SoundBucket
  <1>3. \A w \in Workers : req[w].reply.window \in Nat
    BY RequestOf, Numbers DEF Ready, Replies
  <1> QED BY <1>1, <1>2, <1>3 DEF Windows

\* No window is known that was not, but for one that opens.
LEMMA SpacedNext ==
    ASSUME Ready, discord \in DiscordState, Spaced,
           \/ discord'.reset = discord.reset
           \/ discord.reset <= now /\ discord'.reset = now + Window,
           \A x \in Windows' : x \in Windows \/ x = discord'.reset
    PROVE  Spaced'
  <1>1. now \in Nat /\ discord.reset \in Nat /\ \A x \in Windows : x \in Nat
    BY WindowsNat, Consts, Numbers DEF Ready, DiscordState
  <1>2. discord.reset \in Windows
    BY DEF Windows
  <1>3. discord'.reset \in Nat /\ discord.reset <= discord'.reset
    BY <1>1, Consts
  <1>4. ASSUME NEW x \in Windows PROVE x <= discord'.reset /\ Apart(x, discord'.reset)
    <2>1. x <= discord.reset /\ x \in Nat
      BY <1>1 DEF Spaced
    <2>2. CASE discord'.reset = discord.reset
      BY <1>2, <2>1, <2>2 DEF Spaced
    <2>3. CASE discord.reset <= now /\ discord'.reset = now + Window
      BY <1>1, <1>3, <2>1, <2>3, Consts DEF Apart
    <2> QED BY <2>2, <2>3
  <1>5. ASSUME NEW x \in Windows' PROVE x <= discord'.reset /\ \A y \in Windows' : Apart(x, y)
    <2>1. x <= discord'.reset
      BY <1>3, <1>4
    <2>2. ASSUME NEW y \in Windows' PROVE Apart(x, y)
      <3>1. CASE x \in Windows /\ y \in Windows
        BY <3>1 DEF Spaced
      <3>2. CASE x \in Windows /\ y = discord'.reset
        BY <1>4, <3>2
      <3>3. CASE x = discord'.reset
        <4>1. y \in Nat /\ y <= discord'.reset
          BY <1>1, <1>3, <1>4
        <4> QED BY <1>3, <3>3, <4>1 DEF Apart
      <3> QED BY <3>1, <3>2, <3>3
    <2> QED BY <2>1, <2>2
  <1> QED BY <1>5 DEF Spaced, Apart

-----------------------------------------------------------------------------
(* A response cannot shorten it.                                           *)

LEMMA MergeTimes ==
    ASSUME now \in 0..Horizon, NEW b, SoundBucket(b), NEW u \in Replies, Carries(u),
           u.after > 0, u.remaining < Limit, NEW m, m = Merged(b, u), NEW c, c = Merge(b, u)
    PROVE  /\ c.window = m.window /\ c.limit = Limit /\ c.resetAt >= m.resetAt
           /\ c.resetAt \in Nat
           /\ m.remaining = 0 => c.remaining = 0
           /\ ~m.provisional => ~c.provisional
           /\ u.kind = "limited" =>
                 c.remaining = 0 /\ ~c.provisional /\ c.resetAt >= now + u.after
  <1>1. m \in BucketState
    BY MergedSound
  <1>2. m.resetAt \in Nat /\ now + u.after \in Nat
    BY <1>1, BucketOf, Consts DEF Replies
  <1> DEFINE d == [m EXCEPT !.limit = Limit]
  <1>3. c = SpendOn429(d, u)
    BY DEF Merge, Merged
  <1>4. /\ d \in BucketState /\ d.limit = Limit /\ d.window = m.window /\ d.resetAt = m.resetAt
        /\ d.remaining = m.remaining /\ d.provisional = m.provisional
    BY <1>1, Consts DEF BucketState
  <1> HIDE DEF d
  <1>5. CASE u.kind # "limited"
    BY <1>2, <1>3, <1>4, <1>5 DEF SpendOn429
  <1>6. CASE u.kind = "limited"
    <2> DEFINE e == Most(d.resetAt, now + u.after)
               n == 0
    <2>1. c = [d EXCEPT !.remaining = n, !.resetAt = e, !.provisional = FALSE]
      BY <1>3, <1>6 DEF SpendOn429
    <2>2. e \in Nat /\ e >= m.resetAt /\ e >= now + u.after
      BY <1>2, <1>4 DEF Most
    <2> HIDE DEF e, n
    <2>3. /\ c.remaining = n /\ c.resetAt = e /\ ~c.provisional /\ c.window = d.window
          /\ c.limit = d.limit
      BY <1>4, <2>1 DEF BucketState
    <2> QED BY <1>4, <1>6, <2>2, <2>3 DEF n
  <1> QED BY <1>5, <1>6

\* The reply, as the request that carries it knows it: it was sent at t.
Sent(u, t) ==
    /\ t \in Nat /\ t <= now /\ now <= t + Timeout
    /\ u.after > 0 /\ u.remaining < Limit /\ u.window = t + u.after

\* A 429 spends the bucket for as long as it says.
LEMMA MergeSpends ==
    ASSUME now \in 0..Horizon, NEW b, SoundBucket(b), NEW u \in Replies, u.kind = "limited",
           NEW t, Sent(u, t)
    PROVE  Spent(Merge(b, u), now + u.after)
  <1> DEFINE m == Merged(b, u)
             c == Merge(b, u)
  <1>1. Carries(u) /\ u.after > 0 /\ u.remaining < Limit
    BY DEF Carries, Sent
  <1>2. u.after \in Nat /\ u.window \in Nat /\ now \in Nat
    BY Consts, Numbers DEF Replies
  <1>3. m \in BucketState /\ m.window >= u.window
    BY <1>1, MergedSound
  <1>4. m.window \in Nat
    BY <1>3, BucketOf
  <1>5. /\ c.window = m.window /\ c.limit = Limit
        /\ c.remaining = 0 /\ ~c.provisional /\ c.resetAt >= now + u.after
    BY <1>1, MergeTimes
  <1> HIDE DEF m, c
  <1>6. c.window # 0 /\ now + u.after <= c.window + Timeout
    BY <1>2, <1>3, <1>4, <1>5, Consts DEF Sent
  <1> QED BY <1>5, <1>6 DEF Spent, c

\* A response leaves a bucket spent that a 429 has spent.
LEMMA MergeStaysSpent ==
    ASSUME Timeout <= Window, now \in 0..Horizon, NEW b, SoundBucket(b), NEW u \in Replies,
           Carries(u), NEW s, Sent(u, s), Apart(b.window, u.window),
           NEW t \in Nat, t > now, Spent(b, t)
    PROVE  Spent(Merge(b, u), t)
  <1> DEFINE m == Merged(b, u)
             c == Merge(b, u)
  <1>1. u.after > 0 /\ u.remaining < Limit
    BY DEF Sent
  <1>2. /\ u.after \in Nat /\ u.window \in Nat /\ now \in Nat /\ b.window \in Nat
        /\ b.resetAt \in Nat /\ b.probe \in BOOLEAN /\ b.remaining = 0
    BY BucketOf, Consts, Numbers DEF Replies, SoundBucket, Spent
  <1>3. Active(b) /\ ~b.probe /\ ~b.provisional
    BY <1>2, Consts DEF Spent, Active, SoundBucket
  <1>4. /\ m \in BucketState /\ m.remaining <= b.remaining /\ ~m.provisional
        /\ m.window >= b.window
        /\ \/ m.resetAt >= b.resetAt
           \/ b.window # 0 /\ u.window > b.window /\ m.resetAt = now + u.after
    BY <1>1, <1>3, MergedSound
  <1>5. m.window \in Nat /\ m.remaining \in Nat /\ m.resetAt \in Nat
    BY <1>4, BucketOf
  <1>6. /\ c.window = m.window /\ c.limit = Limit /\ c.resetAt >= m.resetAt
        /\ c.resetAt \in Nat /\ c.remaining = 0 /\ ~c.provisional
    <2>1. m.remaining = 0
      BY <1>2, <1>4, <1>5
    <2> QED BY <1>1, <1>4, <2>1, MergeTimes
  <1> HIDE DEF m, c
  <1>7. m.resetAt >= t
    <2>1. CASE m.resetAt >= b.resetAt
      BY <1>2, <1>5, <2>1 DEF Spent
    <2>2. CASE b.window # 0 /\ u.window > b.window /\ m.resetAt = now + u.after
      <3>1. u.window >= b.window + Window
        BY <1>2, <2>2 DEF Apart
      <3>2. now + u.after >= u.window
        BY <1>2 DEF Sent
      <3>3. t <= b.window + Timeout
        BY DEF Spent
      <3> QED BY <1>2, <2>2, <3>1, <3>2, <3>3, Consts
    <2> QED BY <1>4, <2>1, <2>2
  <1>8. c.window # 0 /\ t <= c.window + Timeout
    BY <1>2, <1>4, <1>5, <1>6, Consts DEF Spent
  <1>9. c.resetAt >= t
    BY <1>5, <1>6, <1>7
  <1> QED BY <1>6, <1>8, <1>9 DEF Spent, c

\* The windows that a step leaves in the replies, and in the buckets.
LEMMA NextReplies ==
    ASSUME Ready, [Next]_vars
    PROVE  \A v \in Workers :
               req'[v].reply.window \in {0, discord'.reset, req[v].reply.window}
  <1>1. req \in [Workers -> Request]
    BY DEF Ready
  <1>2. \A w \in Workers : Over(w).reply.window = 0
    BY DEF Over, NoRequest, NoReply
  <1>3. \A r : Retried(r).reply.window = 0
    BY DEF Retried, NoRequest, NoReply
  <1>4. ASSUME NEW w \in Workers, NEW r, req' = [req EXCEPT ![w] = r],
               r.reply.window \in {0, discord'.reset, req[w].reply.window}
        PROVE  \A v \in Workers :
                   req'[v].reply.window \in {0, discord'.reset, req[v].reply.window}
    BY <1>1, <1>4
  <1>5. ASSUME NEW w \in Workers, Abandon(w) \/ Withdraw(w)
        PROVE  \A v \in Workers :
                   req'[v].reply.window \in {0, discord'.reset, req[v].reply.window}
    BY <1>2, <1>4, <1>5 DEF Abandon, Withdraw
  <1>6. ASSUME NEW w \in Workers, Fail(w) \/ Finish(w)
        PROVE  \A v \in Workers :
                   req'[v].reply.window \in {0, discord'.reset, req[v].reply.window}
    <2>1. \E r : req' = [req EXCEPT ![w] = r] /\ r.reply.window = 0
      <3>1. CASE req' = [req EXCEPT ![w] = Over(w)]
        BY <1>2, <3>1
      <3>2. CASE \E r : req' = [req EXCEPT ![w] = Retried(r)]
        BY <1>3, <3>2
      <3>3. Fail(w) => \/ req' = [req EXCEPT ![w] = Over(w)]
                       \/ \E r : req' = [req EXCEPT ![w] = Retried(r)]
        <4>1. Fail(w) => \/ req' = [req EXCEPT ![w] = Over(w)]
                         \/ req' = [req EXCEPT ![w] = Retried(req[w])]
          BY <1>1 DEF Fail
        <4> QED BY <4>1
      <3>4. Finish(w) => \/ req' = [req EXCEPT ![w] = Over(w)]
                         \/ \E r : req' = [req EXCEPT ![w] = Retried(r)]
        BY DEF Finish
      <3> QED BY <1>6, <3>1, <3>2, <3>3, <3>4
    <2> QED BY <1>4, <2>1
  <1>7. ASSUME NEW w \in Workers, NEW kind \in {"lost", "bare", "global"}, SendAmiss(w, kind)
        PROVE  \A v \in Workers :
                   req'[v].reply.window \in {0, discord'.reset, req[v].reply.window}
    <2> DEFINE u == [NoReply EXCEPT !.kind = kind]
               r == [req[w] EXCEPT !.phase = "sent", !.since = now, !.reply = u]
    <2>1. req' = [req EXCEPT ![w] = r]
      BY <1>7 DEF SendAmiss
    <2>2. u.window = 0
      BY DEF NoReply
    <2> HIDE DEF u
    <2>3. r.reply = u
      BY <1>1 DEF Request
    <2> HIDE DEF r
    <2> QED BY <1>4, <2>1, <2>2, <2>3
  <1>8. ASSUME NEW w \in Workers, Send(w)
        PROVE  \A v \in Workers :
                   req'[v].reply.window \in {0, discord'.reset, req[v].reply.window}
    <2> DEFINE e == NextWindow.reset
               n == IF NextWindow.refused /\ NextWindow.used = discord.used
                    THEN "limited" ELSE "ok"
               u == [kind |-> n, remaining |-> Limit - NextWindow.used,
                     after |-> NextWindow.reset - now, window |-> e]
               r == [req[w] EXCEPT !.phase = "sent", !.since = now, !.reply = u]
    <2>1. req' = [req EXCEPT ![w] = r] /\ discord'.reset = e
      BY <1>8 DEF Send
    <2> HIDE DEF e, n
    <2>2. u.window = e
      OBVIOUS
    <2> HIDE DEF u
    <2>3. r.reply = u
      BY <1>1 DEF Request
    <2> HIDE DEF r
    <2> QED BY <1>4, <2>1, <2>2, <2>3
  <1>9. ASSUME NEW w \in Workers, \/ Start(w) \/ Grant(w) \/ Refuse(w) \/ Wake(w)
                                  \/ Receive(w) \/ ApplyHeaders(w)
        PROVE  \A v \in Workers :
                   req'[v].reply.window \in {0, discord'.reset, req[v].reply.window}
    <2>1. \A v \in Workers : req'[v].reply = req[v].reply
      <3>1. CASE Start(w)
        BY <1>1, <3>1 DEF Start, Request
      <3>2. CASE Grant(w)
        <4> DEFINE n == (Active(store.buckets[req[w].key]) \/ store.buckets[req[w].key].limit > 0)
                   e == AfterGrant(store.buckets[req[w].key]).resetAt
        <4>1. req' = [req EXCEPT ![w].phase = "granted", ![w].known = n, ![w].resetAt = e]
          BY <3>2 DEF Grant
        <4> HIDE DEF n, e
        <4> QED BY <1>1, <4>1 DEF Request
      <3>3. CASE Refuse(w)
        <4> DEFINE d == now + (IF GlobalDelay(store) > 0 THEN GlobalDelay(store)
                               ELSE BucketWait(store.buckets[req[w].key]))
                   m == (GlobalDelay(store) = 0 /\ store.buckets[req[w].key].probe)
        <4>1. req' = [req EXCEPT ![w].phase = "waiting", ![w].wake = d, ![w].moves = m]
          BY <3>3 DEF Refuse
        <4> HIDE DEF d, m
        <4> QED BY <1>1, <4>1 DEF Request
      <3>4. CASE Wake(w)
        <4> DEFINE k == IF req[w].moves THEN Resolve(w) ELSE req[w].key
        <4>1. req' = [req EXCEPT ![w].phase = "asking", ![w].wake = 0, ![w].moves = FALSE,
                                 ![w].key = k]
          BY <3>4 DEF Wake
        <4> HIDE DEF k
        <4> QED BY <1>1, <4>1 DEF Request
      <3>5. CASE Receive(w) \/ ApplyHeaders(w)
        BY <1>1, <3>5 DEF Receive, ApplyHeaders, Request
      <3> QED BY <1>9, <3>1, <3>2, <3>3, <3>4, <3>5
    <2> QED BY <2>1
  <1>10. CASE Tick \/ UNCHANGED vars
    BY <1>10 DEF Tick, vars
  <1> QED BY <1>5, <1>6, <1>7, <1>8, <1>9, <1>10 DEF Next

\* The times of the replies in the buckets' calls.
LEMMA ReplySent ==
    ASSUME Ready, NEW w \in Workers, ApplyHeaders(w), Carries(req[w].reply)
    PROVE  Sent(req[w].reply, req[w].since)
  BY ReadyOf, RequestOf DEF ApplyHeaders, At, Timely, SoundReply, Sent

LEMMA WriteWindows ==
    ASSUME NEW k, NEW c, Writes(k, c), c.window \in Windows
    PROVE  \A j \in Keys : store'.buckets[j].window \in Windows
  <1>1. NoBucket.window \in Windows
    BY DEF NoBucket, Windows
  <1>2. \A j \in Keys : store.buckets[j].window \in Windows
    BY DEF Windows
  <1> QED BY <1>1, <1>2 DEF Writes, Rewrites, Swept

LEMMA NextBuckets ==
    ASSUME Ready, [Next]_vars
    PROVE  \A k \in Keys : store'.buckets[k].window \in Windows
  <1>1. /\ 0 \in Windows /\ \A k \in Keys : store.buckets[k].window \in Windows
        /\ \A w \in Workers : req[w].reply.window \in Windows
    BY DEF Windows
  <1>2. now \in 0..Horizon /\ SoundStore(store)
    BY DEF Ready, Whole
  <1>3. ASSUME NEW w \in Workers, Grant(w)
        PROVE  \A k \in Keys : store'.buckets[k].window \in Windows
    <2> DEFINE k == req[w].key
               c == AfterGrant(store.buckets[k])
    <2>1. Writes(k, c) /\ k \in Keys
      BY <1>3, GrantWrites, ReadyOf
    <2>2. c.window \in {0, store.buckets[k].window}
      BY <1>2, <1>3, <2>1, GrantSound DEF Grant, SoundStore
    <2> HIDE DEF c, k
    <2> QED BY <1>1, <2>1, <2>2, WriteWindows
  <1>4. ASSUME NEW w \in Workers, Holds(req[w]), NEW refund \in BOOLEAN,
               store' = Release(store, req[w], refund), now' = now
        PROVE  \A k \in Keys : store'.buckets[k].window \in Windows
    <2> DEFINE k == req[w].key
               b == store.buckets[k]
    <2>1. PICK c : Released(b, c, SameWindow(store, req[w]), refund) /\ Writes(k, c)
      BY <1>4, ReleaseWrites
    <2>2. c.window \in {0, b.window} /\ k \in Keys
      BY <2>1, ReadyOf DEF Released, NoBucket
    <2> HIDE DEF k
    <2> QED BY <1>1, <2>1, <2>2, WriteWindows
  <1>5. ASSUME NEW w \in Workers, ApplyHeaders(w)
        PROVE  \A k \in Keys : store'.buckets[k].window \in Windows
    <2> DEFINE k == KeyOfReply(w)
               b == store.buckets[k]
               u == req[w].reply
               c == Learned(b, u)
    <2>1. Writes(k, c) /\ u \in Replies /\ (Carries(u) => u.after > 0 /\ u.remaining < Limit)
      BY <1>5, HeadersWrite
    <2>2. k \in Keys /\ SoundBucket(b)
      BY <1>2, <2>1 DEF Writes, SoundStore
    <2>3. c.window \in {0, b.window, u.window}
      <3>1. CASE Carries(u)
        <4>1. c = Merge(b, u)
          BY <3>1 DEF Learned
        <4>2. Merged(b, u).window \in {b.window, u.window}
          BY <1>2, <2>1, <2>2, <3>1, MergedSound
        <4>3. c.window = Merged(b, u).window
          BY <1>2, <2>1, <2>2, <3>1, <4>1, MergeTimes
        <4> QED BY <4>2, <4>3
      <3>2. CASE ~Carries(u)
        BY <3>2 DEF Learned, NoBucket
      <3> QED BY <3>1, <3>2
    <2> HIDE DEF c, k
    <2> QED BY <1>1, <2>1, <2>2, <2>3, WriteWindows
  <1>6. ASSUME NEW w \in Workers, Withdraw(w) \/ Fail(w) \/ Finish(w)
        PROVE  \A k \in Keys : store'.buckets[k].window \in Windows
    <2>1. \/ store'.buckets = store.buckets
          \/ Holds(req[w]) /\ now' = now /\ store' = Release(store, req[w], FALSE)
          \/ Holds(req[w]) /\ now' = now /\ store' = Release(store, req[w], TRUE)
      BY <1>6, FinishWrites DEF Withdraw, Fail, At, Holds, Quiet
    <2> QED BY <1>1, <1>4, <2>1
  <1>7. ASSUME NEW w \in Workers,
               \/ Start(w) \/ Refuse(w) \/ Wake(w) \/ Abandon(w) \/ Send(w) \/ Receive(w)
               \/ \E kind \in {"lost", "bare", "global"} : SendAmiss(w, kind)
        PROVE  store'.buckets = store.buckets
    BY <1>7, ReceiveWrites DEF Start, Refuse, Wake, Abandon, Send, SendAmiss, Quiet
  <1>8. Tick \/ UNCHANGED vars => store'.buckets = store.buckets
    BY DEF Tick, vars
  <1> QED BY <1>1, <1>3, <1>5, <1>6, <1>7, <1>8 DEF Next

LEMMA NextReset ==
    ASSUME Ready, discord \in DiscordState, Opened, [Next]_vars
    PROVE  \/ discord'.reset = discord.reset
           \/ discord.reset <= now /\ discord'.reset = now + Window
  <1>1. ASSUME discord' = NextWindow
        PROVE  \/ discord'.reset = discord.reset
               \/ discord.reset <= now /\ discord'.reset = now + Window
    BY <1>1, NextWindowOf DEF Ready
  <1>2. discord' = discord \/ discord' = NextWindow
    BY DEF Next, Tick, Start, Grant, Refuse, Wake, Abandon, Withdraw, Send, SendAmiss, Fail,
           Receive, ApplyHeaders, Finish, vars
  <1> QED BY <1>1, <1>2

LEMMA StepSpaced ==
    ASSUME Ready, discord \in DiscordState, Opened, Spaced, [Next]_vars
    PROVE  Spaced'
  <1>1. \A k \in Keys : store'.buckets[k].window \in Windows
    BY NextBuckets
  <1>2. \A w \in Workers : req'[w].reply.window \in {0, discord'.reset, req[w].reply.window}
    BY NextReplies
  <1>3. \A x \in Windows' : x \in Windows \/ x = discord'.reset
    BY <1>1, <1>2 DEF Windows
  <1> QED BY <1>3, NextReset, SpacedNext

LEMMA InitSpaced == Init => Spaced
  <1> SUFFICES ASSUME Init PROVE Spaced
    OBVIOUS
  <1>1. \A x \in Windows : x = 0
    BY DEF Init, Windows, NoBucket, NoRequest, NoReply
  <1> QED BY <1>1 DEF Init, Spaced, Apart

\* A wait that is not over is in the store.
LEMMA GrantWaits ==
    ASSUME Ready, Histories, Remembered, NEW w \in Workers, Grant(w)
    PROVE  told[req[w].key] <= now
  <1> DEFINE k == req[w].key
             b == store.buckets[k]
             t == told[k]
  <1>1. k \in Keys /\ b \in BucketState /\ now \in Nat /\ SoundStore(store) /\ now \in 0..Horizon
    BY ReadyOf DEF Ready, SoundBucket
  <1>2. t \in Nat /\ b.resetAt \in Nat /\ store.globalReset \in Nat
    BY <1>1, BucketOf, StoreOf, Numbers DEF Histories, SoundStore
  <1>3. SUFFICES ASSUME t > now PROVE FALSE
    BY <1>1, <1>2
  <1>4. GlobalDelay(store) = 0 /\ Grants(b)
    BY DEF Grant
  <1>5. CASE store.globalReset >= t
    <2>1. store.globalReset > now
      BY <1>1, <1>2, <1>3, <1>5
    <2>2. GlobalDelay(store) = store.globalReset - now
      BY <2>1 DEF GlobalDelay
    <2> QED BY <1>1, <1>2, <1>4, <2>1, <2>2
  <1>6. CASE Spent(b, t)
    <2>1. Active(b) /\ b.remaining = 0
      BY <1>1, <1>2, <1>3, <1>6 DEF Spent, Active
    <2> QED BY <1>4, <2>1 DEF Grants
  <1> QED BY <1>1, <1>3, <1>5, <1>6 DEF Remembered, Waits

GlobalSwept ==
    \/ store'.globalReset = store.globalReset
    \/ store'.globalReset = 0 /\ store.globalReset <= now

LEMMA WriteWaits ==
    ASSUME Ready, NEW k, NEW c, Writes(k, c), GlobalSwept,
           NEW j \in Keys, NEW t \in Nat, t > now, Waits(store, j, t),
           j = k /\ Spent(store.buckets[j], t) => Spent(c, t)
    PROVE  Waits(store', j, t)
  <1>1. now \in Nat /\ SoundStore(store) /\ SoundBucket(c)
    BY Consts DEF Ready, Whole, Writes
  <1>2. store.globalReset \in Nat
    BY <1>1, StoreOf, Numbers DEF SoundStore
  <1>3. CASE store.globalReset >= t
    BY <1>1, <1>2, <1>3 DEF GlobalSwept, Waits
  <1>4. CASE Spent(store.buckets[j], t)
    <2> DEFINE b == IF j = k THEN c ELSE store.buckets[j]
    <2>1. Spent(b, t) /\ SoundBucket(b) /\ Swept(b, store'.buckets[j])
      BY <1>1, <1>4 DEF SoundStore, Writes, Rewrites
    <2> HIDE DEF b
    <2>2. b.resetAt \in Nat
      BY <2>1, BucketOf DEF SoundBucket
    <2>3. ~(b.resetAt <= now - BUCKET_LINGER)
      BY <1>1, <2>1, <2>2, Consts DEF Spent
    <2>4. store'.buckets[j] = b
      BY <2>1, <2>3 DEF Swept
    <2> QED BY <2>1, <2>4 DEF Waits
  <1> QED BY <1>3, <1>4 DEF Waits

\* What waits have been told stays, and so does what is told anew.
LEMMA RememberedNext ==
    ASSUME Ready, now' = now,
           \A k \in Keys : told'[k] > now => Waits(store', k, told'[k])
    PROVE  Remembered'
  BY DEF Remembered, Waits, Spent

LEMMA QuietWaits ==
    ASSUME Ready, Remembered, now' = now, store'.buckets = store.buckets,
           store'.globalReset = store.globalReset, told' = told
    PROVE  Remembered'
  BY RememberedNext DEF Remembered, Waits

LEMMA GrantRemembers ==
    ASSUME Ready, Histories, Remembered, NEW w \in Workers, Grant(w)
    PROVE  Remembered'
  <1> DEFINE k == req[w].key
             c == AfterGrant(store.buckets[k])
  <1>1. Writes(k, c) /\ GlobalSwept
    BY GrantWrites DEF GlobalSwept
  <1>2. told[k] <= now
    BY GrantWaits
  <1>3. told' = told /\ now' = now
    BY DEF Grant
  <1>4. now \in Nat /\ \A j \in Keys : told[j] \in Nat
    BY Consts, Numbers DEF Ready, Histories
  <1> HIDE DEF c, k
  <1>5. \A j \in Keys : told[j] > now => Waits(store', j, told[j])
    <2> SUFFICES ASSUME NEW j \in Keys, told[j] > now PROVE Waits(store', j, told[j])
      OBVIOUS
    <2>1. j # k
      BY <1>1, <1>2, <1>4 DEF Writes
    <2>2. Waits(store, j, told[j])
      BY DEF Remembered
    <2> QED BY <1>1, <1>4, <2>1, <2>2, WriteWaits
  <1> QED BY <1>3, <1>5, RememberedNext

LEMMA ReleaseRemembers ==
    ASSUME Ready, Histories, Remembered, NEW w \in Workers, Holds(req[w]),
           NEW refund \in BOOLEAN, store' = Release(store, req[w], refund),
           refund => told[req[w].key] <= now, now' = now, told' = told
    PROVE  Remembered'
  <1> DEFINE k == req[w].key
             b == store.buckets[k]
             same == SameWindow(store, req[w])
  <1>1. GlobalSwept
    BY ReleaseWrites DEF Spares, GlobalSwept
  <1>2. PICK c : Released(b, c, same, refund) /\ Writes(k, c)
    BY ReleaseWrites
  <1>3. SoundBucket(b) /\ k \in Keys
    BY ReadyOf
  <1>4. now \in Nat /\ \A j \in Keys : told[j] \in Nat
    BY Consts, Numbers DEF Ready, Histories
  <1>5. ASSUME NEW t, Spent(b, t) PROVE c = b \/ refund
    <2>1. ~b.probe
      BY <1>3, <1>5, Consts DEF Spent, SoundBucket
    <2> QED BY <1>2, <2>1 DEF Released
  <1> HIDE DEF same
  <1>6. \A j \in Keys : told[j] > now => Waits(store', j, told[j])
    <2> SUFFICES ASSUME NEW j \in Keys, told[j] > now PROVE Waits(store', j, told[j])
      OBVIOUS
    <2>1. Waits(store, j, told[j])
      BY DEF Remembered
    <2>2. j = k => ~refund
      BY <1>4
    <2>3. j = k /\ Spent(store.buckets[j], told[j]) => Spent(c, told[j])
      BY <1>5, <2>2
    <2> HIDE DEF k, b
    <2> QED BY <1>1, <1>2, <1>4, <2>1, <2>3, WriteWaits
  <1> QED BY <1>6, RememberedNext

LEMMA HeadersRemember ==
    ASSUME Timeout <= Window, Ready, Histories, Remembered, Spaced,
           NEW w \in Workers, ApplyHeaders(w)
    PROVE  Remembered'
  <1> DEFINE k == KeyOfReply(w)
             b == store.buckets[k]
             u == req[w].reply
             s == req[w].since
             c == Learned(b, u)
             new == now + u.after
  <1>1. /\ Writes(k, c) /\ GlobalSwept /\ u \in Replies /\ now' = now
        /\ Carries(u) => u.after > 0 /\ u.remaining < Limit
    BY HeadersWrite DEF Spares, GlobalSwept, Writes
  <1>2. k \in Keys /\ SoundStore(store) /\ now \in Nat /\ now \in 0..Horizon
    BY <1>1, ReadyOf DEF Writes, Ready
  <1>3. SoundBucket(b) /\ told \in [Keys -> 0..Later] /\ \A j \in Keys : told[j] \in Nat
    BY <1>2, Numbers DEF SoundStore, Histories
  <1>4. Carries(u) => Sent(u, s)
    BY ReplySent
  <1>5. Apart(b.window, u.window)
    BY <1>2 DEF Spaced, Windows
  <1>6. new \in Nat
    BY <1>1, <1>2, Consts DEF Replies
  <1>7. told' = IF u.kind = "limited" THEN [told EXCEPT ![k] = Most(told[k], new)] ELSE told
    BY DEF ApplyHeaders
  <1> HIDE DEF k, u, s
  \* What was waited for is waited for still.
  <1>8. ASSUME NEW t \in Nat, t > now, Spent(b, t) PROVE Spent(c, t)
    <2>1. CASE Carries(u)
      <3>1. c = Merge(b, u)
        BY <2>1 DEF Learned
      <3>2. Spent(Merge(b, u), t)
        BY <1>1, <1>2, <1>3, <1>4, <1>5, <1>8, <2>1, MergeStaysSpent
      <3> QED BY <3>1, <3>2
    <2>2. CASE ~Carries(u)
      <3>1. ~b.probe
        BY <1>3, <1>8, Consts DEF Spent, SoundBucket
      <3> QED BY <1>8, <2>2, <3>1 DEF Learned
    <2> QED BY <2>1, <2>2
  <1>9. ASSUME NEW j \in Keys, told[j] > now PROVE Waits(store', j, told[j])
    <2>1. Waits(store, j, told[j])
      BY <1>9 DEF Remembered
    <2>2. j = k /\ Spent(store.buckets[j], told[j]) => Spent(c, told[j])
      BY <1>3, <1>8, <1>9
    <2> HIDE DEF c
    <2> QED BY <1>1, <1>3, <1>9, <2>1, <2>2, WriteWaits
  <1>10. CASE u.kind # "limited"
    BY <1>1, <1>7, <1>9, <1>10, RememberedNext
  <1>11. CASE u.kind = "limited"
    <2> DEFINE t == Most(told[k], new)
    <2>1. Carries(u) /\ c = Merge(b, u)
      BY <1>11 DEF Carries, Learned
    <2>2. Spent(c, new)
      BY <1>1, <1>2, <1>3, <1>4, <1>11, <2>1, MergeSpends
    <2>3. new > now
      BY <1>1, <1>2, <2>1, Consts DEF Replies
    <2>4. t \in Nat /\ t \in {told[k], new} /\ t > now
      BY <1>2, <1>3, <1>6, <2>3 DEF Most
    <2> HIDE DEF c, new
    <2>5. store'.buckets[k] = c
      <3>1. Swept(c, store'.buckets[k]) /\ SoundBucket(c)
        BY <1>1 DEF Writes, Rewrites
      <3>2. c.resetAt \in Nat /\ c.resetAt >= new
        BY <2>2, <3>1, BucketOf DEF SoundBucket, Spent
      <3>3. ~(c.resetAt <= now - BUCKET_LINGER)
        BY <1>2, <1>6, <2>3, <3>2, Consts
      <3> QED BY <3>1, <3>3 DEF Swept
    <2>6. Waits(store', k, new)
      BY <2>2, <2>5 DEF Waits
    <2>7. Waits(store', k, t)
      <3>1. CASE t = new
        BY <2>6, <3>1
      <3>2. CASE t = told[k]
        <4>1. told[k] > now
          BY <2>4, <3>2
        <4>2. Waits(store', k, told[k])
          BY <1>2, <1>9, <4>1
        <4> QED BY <3>2, <4>2
      <3> QED BY <2>4, <3>1, <3>2
    <2> HIDE DEF t
    <2>8. told'[k] = t /\ \A j \in Keys \ {k} : told'[j] = told[j]
      BY <1>2, <1>3, <1>7, <1>11 DEF t
    <2>9. \A j \in Keys : told'[j] > now => Waits(store', j, told'[j])
      <3> SUFFICES ASSUME NEW j \in Keys, told'[j] > now PROVE Waits(store', j, told'[j])
        OBVIOUS
      <3>1. CASE j = k
        BY <2>7, <2>8, <3>1
      <3>2. CASE j # k
        BY <1>9, <2>8, <3>2
      <3> QED BY <3>1, <3>2
    <2> QED BY <1>1, <2>9, RememberedNext
  <1> QED BY <1>10, <1>11

LEMMA FinishRemembers ==
    ASSUME Ready, Histories, Remembered, NEW w \in Workers, Finish(w)
    PROVE  Remembered'
  <1>1. CASE req[w].reply.kind # "global"
    <2>1. told' = told /\ now' = now
      BY <1>1 DEF Finish
    <2>2. CASE Holds(req[w]) /\ store' = Release(store, req[w], FALSE)
      BY <2>1, <2>2, ReleaseRemembers
    <2>3. CASE store' = store
      BY <2>1, <2>3, QuietWaits
    <2> QED BY <1>1, <2>2, <2>3, FinishWrites
  <1>2. CASE req[w].reply.kind = "global"
    <2> DEFINE e == now + GlobalWait
               g == Most(store.globalReset, e)
    <2>1. /\ told' = [k \in Keys |-> Most(told[k], e)]
          /\ now' = now
      BY <1>2 DEF Finish
    <2>2. store'.buckets = store.buckets /\ store'.globalReset = g
      BY <1>2, FinishWrites DEF Quiet
    <2>3. now \in Nat /\ e \in Nat /\ store.globalReset \in Nat /\ \A k \in Keys : told[k] \in Nat
      BY StoreOf, Consts, Numbers DEF Ready, Whole, SoundStore, Histories
    <2>4. g \in Nat /\ g >= e /\ g >= store.globalReset
      BY <2>3 DEF Most
    <2> HIDE DEF g, e
    <2>5. ASSUME NEW k \in Keys, told'[k] > now PROVE Waits(store', k, told'[k])
      <3>1. told'[k] = Most(told[k], e)
        BY <2>1
      <3>2. CASE told'[k] = e
        BY <2>2, <2>4, <3>2 DEF Waits
      <3>3. CASE told'[k] = told[k]
        <4>1. Waits(store, k, told[k])
          BY <2>5, <3>3 DEF Remembered
        <4>2. store.globalReset >= told[k] => g >= told[k]
          BY <2>3, <2>4
        <4> QED BY <2>2, <3>3, <4>1, <4>2 DEF Waits
      <3> QED BY <3>1, <3>2, <3>3 DEF Most
    <2> QED BY <2>1, <2>5, RememberedNext
  <1> QED BY <1>1, <1>2

LEMMA StepRemembered ==
    ASSUME ~SharedWithdraw, Timeout <= Window, Ready, Histories, Spaced, Remembered,
           [Next]_vars
    PROVE  Remembered'
  <1>1. ASSUME NEW w \in Workers, Withdraw(w) PROVE Remembered'
    <2>1. /\ Holds(req[w]) /\ store' = Release(store, req[w], TRUE)
          /\ told[req[w].key] <= now /\ now' = now /\ told' = told
      BY <1>1 DEF Withdraw, At, Holds
    <2> QED BY <2>1, ReleaseRemembers
  <1>2. ASSUME NEW w \in Workers, Fail(w) PROVE Remembered'
    <2>1. /\ Holds(req[w]) /\ store' = Release(store, req[w], FALSE)
          /\ now' = now /\ told' = told
      BY <1>2 DEF Fail, At, Holds
    <2> QED BY <2>1, ReleaseRemembers
  <1>3. ASSUME NEW w \in Workers,
               \/ Start(w) \/ Refuse(w) \/ Wake(w) \/ Abandon(w) \/ Send(w) \/ Receive(w)
               \/ \E kind \in {"lost", "bare", "global"} : SendAmiss(w, kind)
        PROVE  Remembered'
    <2>1. told' = told /\ now' = now
      BY <1>3 DEF Start, Refuse, Wake, Abandon, Send, Receive, SendAmiss
    <2>2. store'.buckets = store.buckets /\ store'.globalReset = store.globalReset
      BY <1>3, ReceiveWrites DEF Start, Refuse, Wake, Abandon, Send, SendAmiss, Quiet
    <2> QED BY <2>1, <2>2, QuietWaits
  <1>4. CASE Tick
    <2>1. now' = now + 2 /\ store' = store /\ told' = told
      BY <1>4, Numbers DEF Tick
    <2>2. now \in Nat /\ \A k \in Keys : told[k] \in Nat
      BY Consts, Numbers DEF Ready, Histories
    <2>3. \A k \in Keys : told[k] > now + 2 => Waits(store, k, told[k])
      <3>1. \A k \in Keys : told[k] > now + 2 => told[k] > now
        BY <2>2
      <3> QED BY <3>1 DEF Remembered
    <2> QED BY <2>1, <2>3 DEF Remembered, Waits, Spent
  <1>5. CASE UNCHANGED vars
    BY <1>5, QuietWaits DEF vars
  <1> QED BY <1>1, <1>2, <1>3, <1>4, <1>5, GrantRemembers, HeadersRemember, FinishRemembers
          DEF Next

LEMMA InitRemembered == Init => Remembered
  BY DEF Init, Remembered

\* No grant precedes the end of a wait that a 429 has asked for, if units are
\* not given back while it lasts and no answer is later than a window is long.
\* Without the second, a late 429 asks for more than Discord's window has left,
\* and a response of the next window corrects it (store.ts, reconcileState).
THEOREM RetryAfterIsHonoured ==
    ASSUME ~SharedWithdraw, Timeout <= Window
    PROVE  Spec => HonoursRetryAfter
  <1>1. Init => Spaced /\ Remembered
    BY InitSpaced, InitRemembered
  <1>2. IInv /\ Spaced /\ Remembered /\ [Next]_vars => (Spaced /\ Remembered)'
    BY StepSpaced, StepRemembered DEF IInv
  <1>3. IInv /\ Remembered => [\A w \in Workers : Grant(w) => told[req[w].key] <= now]_vars
    BY GrantWaits DEF IInv
  <1> QED BY <1>1, <1>2, <1>3, Invariance, PTL DEF Spec, HonoursRetryAfter

-----------------------------------------------------------------------------
(* What Discord refuses.                                                   *)

\* The request counts at Discord, and its response is to come.
Pending(r) == r.phase \in {"sent", "reconciling"} /\ Carries(r.reply)

\* The units of Discord's bucket that are granted and not sent.
Owing(q) == {w \in Workers : q[w].phase = "granted" /\ q[w].known}

Used(d) == IF d.reset > now THEN d.used ELSE 0

\* The buckets of routes never get a limit, and Discord's has none, nor is asked
\* for, before a response has told the hash.
Unlimited == \A k \in Routes : store.buckets[k].limit = 0
Hashed(r) ==
    \/ r.key = Hash
    \/ r.phase \in {"reconciling", "finishing"} /\ Carries(r.reply)
Resolved ==
    /\ \A w \in Workers : Hashed(req[w]) => store.mapped # {}
    /\ store.mapped = {} => store.buckets[Hash].limit = 0

EvenReset == discord.reset % 2 = 0

\* What holds until an answer takes time or is lost, or two probes are out.
Prompt(q) ==
    \A w \in Workers :
        q[w].phase \in {"sent", "reconciling", "finishing"} =>
            q[w].since = now /\ q[w].reply.kind \notin {"lost", "limited"}

\* Responses tell of the window that is Discord's, and only a first one, with
\* no hash known, belongs to a route's bucket.
Fresh(m, d, q) ==
    \A w \in Workers : Pending(q[w]) =>
        /\ q[w].reply.window = d.reset
        /\ q[w].phase = "sent" /\ q[w].key # Hash => m = {}

\* A probe that counts is the only request that does.
Lone(b, d, q) ==
    \A v \in Workers : Pending(q[v]) /\ ~q[v].known =>
        /\ b.limit = 0 /\ q[v].reply.remaining = Limit - d.used
        /\ \A u \in Workers \ {v} : ~Pending(q[u])

\* A window of Discord's that no response is to tell of is known.
Covered(b, d, q) ==
    d.reset > now /\ (\A v \in Workers : ~Pending(q[v])) =>
        b.limit = Limit /\ b.resetAt >= d.reset

\* What is used at Discord, what is about to be and what is left make a limit.
Balanced(b, d, q) ==
    /\ IsFiniteSet(Owing(q))
    /\ Active(b) /\ b.limit = Limit =>
           Used(d) + Cardinality(Owing(q)) + b.remaining <= Limit

\* The window that has replaced a placeholder does not end when that would.
Distinct(b, q) ==
    \A w \in Workers :
        q[w].phase = "granted" /\ ~q[w].known /\ q[w].key = Hash /\ b.limit = Limit =>
            b.resetAt % 2 = 0

Undisturbed(b, m, d, q) ==
    /\ ~d.refused /\ Prompt(q) /\ Fresh(m, d, q) /\ Lone(b, d, q)
    /\ Covered(b, d, q) /\ Balanced(b, d, q) /\ Distinct(b, q)

InStep == excused \/ Undisturbed(store.buckets[Hash], store.mapped, discord, req)

-----------------------------------------------------------------------------
(* What a step makes of the requests and of the hashes that are known.     *)

Standing == {"idle", "asking", "waiting"}

LEMMA StandsTo ==
    ASSUME Ready, NEW w \in Workers, Start(w) \/ Refuse(w) \/ Wake(w) \/ Abandon(w)
    PROVE  /\ now' = now /\ store' = store /\ discord' = discord /\ excused' = excused
           /\ Others(req, req', w) /\ req[w].phase \in Standing /\ req'[w].phase \in Standing
           /\ store.mapped = {} /\ req[w].key # Hash => req'[w].key # Hash
  <1>1. req \in [Workers -> Request] /\ Hash \notin Routes /\ RouteOf[w] \in Routes
    BY Consts DEF Ready
  <1>2. store.mapped = {} => Resolve(w) # Hash
    BY <1>1 DEF Resolve
  <1>3. CASE Start(w)
    BY <1>1, <1>2, <1>3 DEF Start, At, Request, Others, Standing
  <1>4. CASE Refuse(w)
    <2> DEFINE d == now + (IF GlobalDelay(store) > 0 THEN GlobalDelay(store)
                           ELSE BucketWait(store.buckets[req[w].key]))
               m == (GlobalDelay(store) = 0 /\ store.buckets[req[w].key].probe)
    <2>1. req' = [req EXCEPT ![w].phase = "waiting", ![w].wake = d, ![w].moves = m]
      BY <1>4 DEF Refuse
    <2> HIDE DEF d, m
    <2>2. req'[w].phase = "waiting" /\ req'[w].key = req[w].key /\ Others(req, req', w)
      BY <1>1, <2>1 DEF Request, Others
    <2> QED BY <1>4, <2>2 DEF Refuse, At, Standing
  <1>5. CASE Wake(w)
    <2> DEFINE k == IF req[w].moves THEN Resolve(w) ELSE req[w].key
    <2>1. req' = [req EXCEPT ![w].phase = "asking", ![w].wake = 0, ![w].moves = FALSE,
                             ![w].key = k]
      BY <1>5 DEF Wake
    <2>2. store.mapped = {} /\ req[w].key # Hash => k # Hash
      BY <1>2
    <2> HIDE DEF k
    <2>3. req'[w].phase = "asking" /\ req'[w].key = k /\ Others(req, req', w)
      BY <1>1, <2>1 DEF Request, Others
    <2> QED BY <1>5, <2>2, <2>3 DEF Wake, At, Standing
  <1>6. CASE Abandon(w)
    <2>1. req'[w] = Over(w) /\ Others(req, req', w)
      BY <1>1, <1>6 DEF Abandon, Others
    <2>2. Over(w).phase = "idle" /\ Over(w).key = RouteOf[w]
      BY DEF Over, NoRequest
    <2> QED BY <1>1, <1>6, <2>1, <2>2 DEF Abandon, At, Standing
  <1> QED BY <1>3, <1>4, <1>5, <1>6

LEMMA GrantTo ==
    ASSUME Ready, NEW w \in Workers, Grant(w)
    PROVE  /\ now' = now /\ discord' = discord /\ excused' = excused
           /\ Others(req, req', w) /\ req[w].phase = "asking" /\ req'[w].phase = "granted"
           /\ req'[w].key = req[w].key
           /\ req'[w].known <=> \/ Active(store.buckets[req[w].key])
                                \/ store.buckets[req[w].key].limit > 0
  <1> DEFINE b == store.buckets[req[w].key]
             n == (Active(b) \/ b.limit > 0)
             e == AfterGrant(b).resetAt
  <1>1. req \in [Workers -> Request]
    BY DEF Ready
  <1>2. req' = [req EXCEPT ![w].phase = "granted", ![w].known = n, ![w].resetAt = e]
    BY DEF Grant
  <1> HIDE DEF e, n
  <1>3. req'[w].phase = "granted" /\ req'[w].key = req[w].key /\ req'[w].known = n
        /\ Others(req, req', w)
    BY <1>1, <1>2 DEF Request, Others
  <1> QED BY <1>3 DEF Grant, At, n

\* A request that is given up, or over, or starts again.
LEMMA EndsTo ==
    ASSUME Ready, NEW w \in Workers, Withdraw(w) \/ Fail(w) \/ Finish(w)
    PROVE  /\ now' = now /\ discord' = discord /\ excused' = excused
           /\ Others(req, req', w) /\ req'[w].phase \in Standing
           /\ ~Hashed(req[w]) => req'[w].key # Hash
  <1>1. req \in [Workers -> Request] /\ Hash \notin Routes /\ RouteOf[w] \in Routes
    BY Consts DEF Ready
  <1>2. Over(w).phase \in Standing /\ Over(w).key # Hash
    BY <1>1 DEF Over, NoRequest, Standing
  <1>3. \A r : Retried(r).phase \in Standing /\ Retried(r).key = r.key
    BY DEF Retried, NoRequest, Standing
  <1>4. req' = [req EXCEPT ![w] = Over(w)] => Others(req, req', w) /\ req'[w] = Over(w)
    BY <1>1 DEF Others
  <1>5. CASE Withdraw(w)
    BY <1>2, <1>4, <1>5 DEF Withdraw
  <1>6. CASE Fail(w)
    <2>1. CASE req' = [req EXCEPT ![w] = Retried(@)]
      <3>1. Others(req, req', w) /\ req'[w] = Retried(req[w])
        BY <1>1, <2>1 DEF Others
      <3> QED BY <1>3, <1>6, <3>1 DEF Fail, Hashed
    <2> QED BY <1>2, <1>4, <1>6, <2>1 DEF Fail
  <1>7. CASE Finish(w)
    <2> DEFINE h == KeyOfReply(w)
               next == [req[w] EXCEPT !.key = h]
    <2>1. CASE req' = [req EXCEPT ![w] = Retried(next)]
      <3> HIDE DEF h
      <3>1. next.key = h
        BY <1>1 DEF Request
      <3> HIDE DEF next
      <3>2. Others(req, req', w) /\ req'[w] = Retried(next)
        BY <1>1, <2>1 DEF Others
      <3>3. ~Hashed(req[w]) => h # Hash
        BY <1>7 DEF Hashed, Finish, At, KeyOfReply, Carries, h
      <3> QED BY <1>3, <1>7, <3>1, <3>2, <3>3 DEF Finish
    <2> QED BY <1>2, <1>4, <1>7, <2>1 DEF Finish
  <1> QED BY <1>5, <1>6, <1>7

LEMMA SendTo ==
    ASSUME Ready, NEW w \in Workers, Send(w)
    PROVE  /\ now' = now /\ store' = store /\ discord' = NextWindow
           /\ excused' <=> excused \/ SecondProbe(w)
           /\ Others(req, req', w) /\ req[w].phase = "granted" /\ req'[w].phase = "sent"
           /\ req'[w].key = req[w].key /\ req'[w].known = req[w].known /\ req'[w].since = now
           /\ req'[w].reply.kind = IF NextWindow.refused /\ NextWindow.used = discord.used
                                   THEN "limited" ELSE "ok"
           /\ req'[w].reply.remaining = Limit - NextWindow.used
           /\ req'[w].reply.window = NextWindow.reset
  <1> DEFINE d == NextWindow
             n == IF d.refused /\ d.used = discord.used THEN "limited" ELSE "ok"
             m == Limit - d.used
             a == d.reset - now
             e == d.reset
             u == [kind |-> n, remaining |-> m, after |-> a, window |-> e]
  <1>1. req \in [Workers -> Request]
    BY DEF Ready
  <1>2. req' = [req EXCEPT ![w].phase = "sent", ![w].since = now, ![w].reply = u]
    BY DEF Send
  <1> HIDE DEF n, m, a, e
  <1>3. u.kind = n /\ u.remaining = m /\ u.window = e
    OBVIOUS
  <1> HIDE DEF u
  <1>4. /\ req'[w].phase = "sent" /\ req'[w].key = req[w].key /\ req'[w].known = req[w].known
        /\ req'[w].since = now /\ req'[w].reply = u /\ Others(req, req', w)
    BY <1>1, <1>2 DEF Request, Others
  <1>5. now' = now /\ store' = store /\ discord' = d /\ req[w].phase = "granted"
    BY DEF Send, At
  <1>6. excused' <=> excused \/ SecondProbe(w)
    BY DEF Send
  <1> QED BY <1>3, <1>4, <1>5, <1>6 DEF n, m, e

LEMMA AmissTo ==
    ASSUME Ready, NEW w \in Workers, NEW kind \in {"lost", "bare", "global"},
           SendAmiss(w, kind)
    PROVE  /\ now' = now /\ store' = store
           /\ excused' <=> excused \/ kind = "lost"
           /\ kind # "lost" => discord' = discord
           /\ discord' = discord \/ discord' = NextWindow
           /\ Others(req, req', w) /\ req[w].phase = "granted" /\ req'[w].phase = "sent"
           /\ req'[w].key = req[w].key /\ req'[w].since = now /\ req'[w].reply.kind = kind
  <1> DEFINE u == [NoReply EXCEPT !.kind = kind]
  <1>1. req \in [Workers -> Request]
    BY DEF Ready
  <1>2. req' = [req EXCEPT ![w].phase = "sent", ![w].since = now, ![w].reply = u]
    BY DEF SendAmiss
  <1>3. u.kind = kind
    BY DEF NoReply
  <1> HIDE DEF u
  <1>4. /\ req'[w].phase = "sent" /\ req'[w].key = req[w].key
        /\ req'[w].since = now /\ req'[w].reply = u /\ Others(req, req', w)
    BY <1>1, <1>2 DEF Request, Others
  <1> QED BY <1>3, <1>4 DEF SendAmiss, At

LEMMA ReceiveTo ==
    ASSUME Ready, NEW w \in Workers, Receive(w)
    PROVE  /\ now' = now /\ discord' = discord /\ excused' = excused
           /\ Others(req, req', w) /\ req[w].phase = "sent" /\ req'[w].phase = "reconciling"
           /\ req'[w].key = req[w].key /\ req'[w].known = req[w].known
           /\ req'[w].since = req[w].since /\ req'[w].reply = req[w].reply
           /\ store'.buckets = store.buckets
           /\ IF Carries(req[w].reply) THEN store'.mapped = store.mapped \cup {RouteOf[w]}
              ELSE store'.mapped = store.mapped
  <1> DEFINE h == store.mapped \cup {RouteOf[w]}
  <1>1. req \in [Workers -> Request] /\ store \in Stores
    BY DEF Ready, Whole, SoundStore
  <1>2. /\ req'[w].phase = "reconciling" /\ req'[w].key = req[w].key
        /\ req'[w].known = req[w].known /\ req'[w].since = req[w].since
        /\ req'[w].reply = req[w].reply /\ Others(req, req', w)
    BY <1>1 DEF Receive, Request, Others
  <1>3. IF Carries(req[w].reply) THEN store' = [store EXCEPT !.mapped = h]
        ELSE store' = store
    BY DEF Receive, Carries
  <1> HIDE DEF h
  <1>4. /\ store'.buckets = store.buckets
        /\ IF Carries(req[w].reply) THEN store'.mapped = h ELSE store'.mapped = store.mapped
    BY <1>1, <1>3 DEF Stores
  <1> QED BY <1>2, <1>4 DEF Receive, At, h

LEMMA HeadersTo ==
    ASSUME Ready, NEW w \in Workers, ApplyHeaders(w)
    PROVE  /\ now' = now /\ discord' = discord /\ excused' = excused
           /\ Others(req, req', w) /\ req[w].phase = "reconciling"
           /\ req'[w].phase = "finishing" /\ req'[w].key = req[w].key
           /\ req'[w].since = req[w].since /\ req'[w].reply = req[w].reply
  <1>1. req \in [Workers -> Request]
    BY DEF Ready
  <1>2. /\ req'[w].phase = "finishing" /\ req'[w].key = req[w].key
        /\ req'[w].since = req[w].since
        /\ req'[w].reply = req[w].reply /\ Others(req, req', w)
    BY <1>1 DEF ApplyHeaders, Request, Others
  <1> QED BY <1>2 DEF ApplyHeaders, At

\* Only a response tells a hash.
LEMMA PruneMapped ==
    ASSUME NEW s \in Stores
    PROVE  Prune(s).mapped = s.mapped
  <1> DEFINE f == [k \in Keys |-> IF s.buckets[k].resetAt <= now - BUCKET_LINGER
                                  THEN NoBucket ELSE s.buckets[k]]
             g == IF s.globalReset <= now THEN 0 ELSE s.globalReset
             l == IF s.log # <<>> /\ s.log[Len(s.log)] > now - GLOBAL_WINDOW
                  THEN s.log ELSE <<>>
  <1>1. \/ Prune(s) = s
        \/ Prune(s) = [s EXCEPT !.lastPrune = now, !.buckets = f, !.globalReset = g, !.log = l]
    BY DEF Prune
  <1> HIDE DEF f, g, l
  <1> QED BY <1>1 DEF Stores

LEMMA PutMapped ==
    ASSUME NEW s \in Stores, NEW k, NEW b
    PROVE  Put(s, k, b).mapped = s.mapped
  <1> DEFINE f == [s.buckets EXCEPT ![k] = b]
  <1>1. Put(s, k, b) = [s EXCEPT !.buckets = f]
    BY DEF Put
  <1> HIDE DEF f
  <1> QED BY <1>1 DEF Stores

LEMMA WriteMapped ==
    ASSUME NEW s \in Stores, NEW k \in Keys, NEW b \in BucketState
    PROVE  WriteBucket(s, k, b).mapped = s.mapped
  <1>1. WriteBucket(s, k, b) = Prune(Put(s, k, b))
    BY DEF Put, WriteBucket
  <1> DEFINE f == [s.buckets EXCEPT ![k] = b]
  <1>2. f \in [Keys -> BucketState]
    BY StoreOf
  <1>3. Put(s, k, b) = [s EXCEPT !.buckets = f]
    BY DEF Put
  <1> HIDE DEF f
  <1>4. Put(s, k, b) \in Stores
    BY <1>2, <1>3 DEF Stores
  <1> QED BY <1>1, <1>4, PruneMapped, PutMapped

LEMMA ReserveMapped ==
    ASSUME now \in 0..Horizon, NEW s, SoundStore(s), NEW k \in Keys, Grants(s.buckets[k])
    PROVE  Reserve(s, k).mapped = s.mapped
  <1> DEFINE b == s.buckets[k]
             l == Append(RecentSends(s), now)
             t == [s EXCEPT !.log = l]
  <1>1. s \in Stores /\ SoundBucket(b)
    BY DEF SoundStore
  <1>2. AfterGrant(b) \in BucketState
    BY <1>1, GrantSound DEF SoundBucket
  <1>3. l \in Seq(0..Horizon)
    BY RecentOf
  <1>4. Reserve(s, k) = WriteBucket(t, k, AfterGrant(b))
    BY DEF Reserve
  <1> HIDE DEF l, b
  <1>5. t \in Stores /\ t.mapped = s.mapped
    BY <1>1, <1>3 DEF Stores
  <1> QED BY <1>2, <1>4, <1>5, WriteMapped

LEMMA ReconcileMapped ==
    ASSUME now \in 0..Horizon, NEW s, SoundStore(s), NEW k \in Keys, NEW u \in Replies,
           Carries(u) => u.after > 0 /\ u.remaining < Limit
    PROVE  Reconcile(s, k, u).mapped = s.mapped
  <1> DEFINE b == s.buckets[k]
  <1>1. s \in Stores /\ SoundBucket(b) /\ b \in BucketState
    BY DEF SoundStore, SoundBucket
  <1>2. CASE Carries(u)
    <2>1. Merge(b, u) \in BucketState
      BY <1>1, <1>2, MergeSound DEF SoundBucket
    <2>2. Reconcile(s, k, u) = WriteBucket(s, k, Merge(b, u))
      BY <1>2 DEF Reconcile, Carries
    <2> QED BY <1>1, <2>1, <2>2, WriteMapped
  <1>3. CASE ~Carries(u)
    <2>1. \/ Reconcile(s, k, u) = Put(s, k, NoBucket)
          \/ Reconcile(s, k, u) = WriteBucket(s, k, b)
          \/ Reconcile(s, k, u) = s
      BY <1>3 DEF Reconcile, Carries, LearnNothing, Put
    <2> QED BY <1>1, <2>1, PutMapped, WriteMapped
  <1> QED BY <1>2, <1>3

LEMMA ReleaseMapped ==
    ASSUME NEW s \in Stores, NEW r, NEW refund \in BOOLEAN
    PROVE  Release(s, r, refund).mapped = s.mapped
  <1> DEFINE k == r.key
             m == Refunded(s.buckets[k])
             c == [s.buckets[k] EXCEPT !.remaining = m]
  <1>1. \/ Release(s, r, refund) = s
        \/ Release(s, r, refund) = Put(s, k, NoBucket)
        \/ Release(s, r, refund) = [s EXCEPT !.buckets[k].remaining = m]
    BY DEF Release, Put, Refunded
  <1>2. [s EXCEPT !.buckets[k].remaining = m] = Put(s, k, c)
    BY DEF Put
  <1> QED BY <1>1, <1>2, PutMapped

LEMMA MappedTo ==
    ASSUME Ready, [Next]_vars
    PROVE  store'.mapped = store.mapped \/ \E w \in Workers : Receive(w)
  <1>1. now \in 0..Horizon /\ SoundStore(store) /\ store \in Stores
    BY DEF Ready, Whole, SoundStore
  <1>2. ASSUME NEW w \in Workers, Grant(w) PROVE store'.mapped = store.mapped
    <2>1. req[w].key \in Keys /\ Grants(store.buckets[req[w].key])
      BY <1>2, ReadyOf DEF Grant
    <2> QED BY <1>1, <1>2, <2>1, ReserveMapped DEF Grant
  <1>3. ASSUME NEW w \in Workers, ApplyHeaders(w) PROVE store'.mapped = store.mapped
    <2>1. store' = Reconcile(store, KeyOfReply(w), req[w].reply)
      BY <1>3 DEF ApplyHeaders
    <2>2. /\ KeyOfReply(w) \in Keys /\ req[w].reply \in Replies
          /\ Carries(req[w].reply) => req[w].reply.after > 0 /\ req[w].reply.remaining < Limit
      BY <1>3, HeadersWrite DEF Writes
    <2> QED BY <1>1, <2>1, <2>2, ReconcileMapped
  <1>4. ASSUME NEW w \in Workers, Withdraw(w) \/ Fail(w) \/ Finish(w)
        PROVE  store'.mapped = store.mapped
    <2>1. \/ store' = Release(store, req[w], TRUE)
          \/ store' = Release(store, req[w], FALSE)
          \/ store' = store
          \/ store' = ExtendGlobal(store)
      BY <1>4 DEF Withdraw, Fail, Finish
    <2>2. ExtendGlobal(store).mapped = store.mapped
      BY <1>1 DEF ExtendGlobal, Stores
    <2> QED BY <1>1, <2>1, <2>2, ReleaseMapped
  <1>5. ASSUME NEW w \in Workers,
               \/ Start(w) \/ Refuse(w) \/ Wake(w) \/ Abandon(w) \/ Send(w)
               \/ \E kind \in {"lost", "bare", "global"} : SendAmiss(w, kind)
        PROVE  store' = store
    BY <1>5 DEF Start, Refuse, Wake, Abandon, Send, SendAmiss
  <1>6. Tick \/ UNCHANGED vars => store' = store
    BY DEF Tick, vars
  <1> QED BY <1>2, <1>3, <1>4, <1>5, <1>6 DEF Next

-----------------------------------------------------------------------------
(* Routes' buckets, and Discord's before it is known.                      *)

\* The limit of a bucket after a step is 0 if it was, but for the headers.
LEMMA LimitsTo ==
    ASSUME Ready, [Next]_vars, NEW j \in Keys, store.buckets[j].limit = 0,
           \A w \in Workers : ApplyHeaders(w) /\ Carries(req[w].reply) => j # Hash
    PROVE  store'.buckets[j].limit = 0
  <1> DEFINE b == store.buckets[j]
  <1>1. now \in 0..Horizon /\ SoundStore(store) /\ NoBucket.limit = 0
    BY DEF Ready, Whole, NoBucket
  <1>2. ASSUME NEW k, NEW c, Writes(k, c), k = j => c.limit = 0
        PROVE  store'.buckets[j].limit = 0
    BY <1>1, <1>2 DEF Writes, Rewrites, Swept
  <1>3. ASSUME NEW w \in Workers, Grant(w) PROVE store'.buckets[j].limit = 0
    <2> DEFINE k == req[w].key
    <2>1. Writes(k, AfterGrant(store.buckets[k])) /\ k \in Keys /\ Grants(store.buckets[k])
      BY <1>3, GrantWrites, ReadyOf DEF Grant
    <2>2. AfterGrant(store.buckets[k]).limit = store.buckets[k].limit
      BY <1>1, <2>1, GrantSound DEF SoundStore
    <2> HIDE DEF k
    <2> QED BY <1>2, <2>1, <2>2
  <1>4. ASSUME NEW w \in Workers, Holds(req[w]), NEW refund \in BOOLEAN,
               store' = Release(store, req[w], refund), now' = now
        PROVE  store'.buckets[j].limit = 0
    <2> DEFINE k == req[w].key
    <2>1. PICK c : /\ Released(store.buckets[k], c, SameWindow(store, req[w]), refund)
                   /\ Writes(k, c)
      BY <1>4, ReleaseWrites
    <2>2. c.limit \in {0, store.buckets[k].limit}
      BY <1>1, <2>1 DEF Released
    <2> HIDE DEF k
    <2> QED BY <1>2, <2>1, <2>2
  <1>5. ASSUME NEW w \in Workers, ApplyHeaders(w) PROVE store'.buckets[j].limit = 0
    <2> DEFINE k == KeyOfReply(w)
               c == Learned(store.buckets[k], req[w].reply)
    <2>1. Writes(k, c) /\ (Carries(req[w].reply) => k = Hash)
      BY <1>5, HeadersWrite
    <2>2. k = j => c.limit = 0
      BY <1>1, <1>5, <2>1 DEF Learned
    <2> HIDE DEF k, c
    <2> QED BY <1>2, <2>1, <2>2
  <1>6. ASSUME NEW w \in Workers, Withdraw(w) \/ Fail(w) \/ Finish(w)
        PROVE  store'.buckets[j].limit = 0
    <2>1. \/ store'.buckets = store.buckets
          \/ Holds(req[w]) /\ now' = now /\ store' = Release(store, req[w], FALSE)
          \/ Holds(req[w]) /\ now' = now /\ store' = Release(store, req[w], TRUE)
      BY <1>6, FinishWrites DEF Withdraw, Fail, At, Holds, Quiet
    <2> QED BY <1>4, <2>1
  <1>7. ASSUME NEW w \in Workers,
               \/ Start(w) \/ Refuse(w) \/ Wake(w) \/ Abandon(w) \/ Send(w) \/ Receive(w)
               \/ \E kind \in {"lost", "bare", "global"} : SendAmiss(w, kind)
        PROVE  store'.buckets = store.buckets
    BY <1>7, ReceiveWrites DEF Start, Refuse, Wake, Abandon, Send, SendAmiss, Quiet
  <1>8. Tick \/ UNCHANGED vars => store'.buckets = store.buckets
    BY DEF Tick, vars
  <1> QED BY <1>3, <1>5, <1>6, <1>7, <1>8 DEF Next

LEMMA StepUnlimited ==
    ASSUME Ready, Unlimited, [Next]_vars
    PROVE  Unlimited'
  <1>1. \A k \in Routes : k \in Keys /\ k # Hash
    BY Consts DEF Keys
  <1> QED BY <1>1, LimitsTo DEF Unlimited

\* The next request has Discord's key, or a response that tells it, only if a
\* hash is told.
LEMMA HashedTo ==
    ASSUME Ready, Resolved, [Next]_vars, store'.mapped = {}
    PROVE  store.mapped = {} /\ \A v \in Workers : ~Hashed(req[v]) /\ ~Hashed(req'[v])
  <1>1. store.mapped = {}
    <2>1. ASSUME NEW w \in Workers, Receive(w) PROVE store.mapped = {}
      BY <2>1, ReceiveTo
    <2> QED BY <2>1, MappedTo
  <1>2. \A v \in Workers : ~Hashed(req[v])
    BY <1>1 DEF Resolved
  <1>3. ASSUME NEW w \in Workers, Others(req, req', w), ~Hashed(req'[w])
        PROVE  \A v \in Workers : ~Hashed(req'[v])
    BY <1>2, <1>3 DEF Others
  <1>4. ASSUME NEW w \in Workers, Start(w) \/ Refuse(w) \/ Wake(w) \/ Abandon(w)
        PROVE  \A v \in Workers : ~Hashed(req'[v])
    BY <1>1, <1>2, <1>3, <1>4, StandsTo DEF Hashed, Standing
  <1>5. ASSUME NEW w \in Workers, Withdraw(w) \/ Fail(w) \/ Finish(w)
        PROVE  \A v \in Workers : ~Hashed(req'[v])
    BY <1>2, <1>3, <1>5, EndsTo DEF Hashed, Standing
  <1>6. ASSUME NEW w \in Workers, Grant(w)
        PROVE  \A v \in Workers : ~Hashed(req'[v])
    BY <1>2, <1>3, <1>6, GrantTo DEF Hashed
  <1>7. ASSUME NEW w \in Workers, Send(w)
        PROVE  \A v \in Workers : ~Hashed(req'[v])
    BY <1>2, <1>3, <1>7, SendTo DEF Hashed
  <1>8. ASSUME NEW w \in Workers, NEW kind \in {"lost", "bare", "global"}, SendAmiss(w, kind)
        PROVE  \A v \in Workers : ~Hashed(req'[v])
    BY <1>2, <1>3, <1>8, AmissTo DEF Hashed
  <1>9. ASSUME NEW w \in Workers, Receive(w)
        PROVE  \A v \in Workers : ~Hashed(req'[v])
    <2>1. ~Carries(req[w].reply)
      BY <1>9, ReceiveTo
    <2> QED BY <1>2, <1>3, <1>9, <2>1, ReceiveTo DEF Hashed
  <1>10. ASSUME NEW w \in Workers, ApplyHeaders(w)
        PROVE  \A v \in Workers : ~Hashed(req'[v])
    BY <1>2, <1>3, <1>10, HeadersTo DEF Hashed
  <1>11. Tick \/ UNCHANGED vars => req' = req
    BY DEF Tick, vars
  <1> QED BY <1>1, <1>2, <1>4, <1>5, <1>6, <1>7, <1>8, <1>9, <1>10, <1>11 DEF Next

LEMMA StepResolved ==
    ASSUME Ready, Resolved, [Next]_vars
    PROVE  Resolved'
  <1>1. ASSUME store'.mapped = {} PROVE store'.buckets[Hash].limit = 0
    <2>1. store.mapped = {} /\ \A v \in Workers : ~Hashed(req[v])
      BY <1>1, HashedTo
    <2>2. \A w \in Workers : ApplyHeaders(w) => ~Carries(req[w].reply)
      BY <2>1 DEF Hashed, ApplyHeaders, At
    <2>3. store.buckets[Hash].limit = 0 /\ Hash \in Keys
      BY <2>1 DEF Resolved, Keys
    <2> QED BY <2>2, <2>3, LimitsTo
  <1>2. \A v \in Workers : Hashed(req'[v]) => store'.mapped # {}
    BY HashedTo
  <1> QED BY <1>1, <1>2 DEF Resolved, Hashed, Carries

LEMMA StepEvenReset ==
    ASSUME Ready, discord \in DiscordState, Opened, Even, EvenReset, Window % 2 = 0, [Next]_vars
    PROVE  EvenReset'
  <1>1. now \in Nat /\ Window \in Nat /\ now % 2 = 0
    BY Consts DEF Ready, Even
  <1>2. (now + Window) % 2 = 0
    BY <1>1
  <1> QED BY <1>2, NextReset DEF EvenReset

LEMMA InitCounted == Init => Unlimited /\ Resolved /\ EvenReset
  <1> SUFFICES ASSUME Init PROVE Unlimited /\ Resolved /\ EvenReset
    OBVIOUS
  <1>1. \A k \in Keys : store.buckets[k].limit = 0
    BY DEF Init, NoBucket
  <1>2. \A w \in Workers : req[w].key = RouteOf[w] /\ req[w].phase = "idle"
    BY DEF Init, NoRequest
  <1>3. \A w \in Workers : ~Hashed(req[w])
    BY <1>2, Consts DEF Hashed
  <1>4. discord.reset = 0
    BY DEF Init
  <1> QED BY <1>1, <1>3, <1>4 DEF Unlimited, Resolved, EvenReset, Keys

-----------------------------------------------------------------------------
(* Units that are owed, and requests that know their bucket.               *)

LEMMA OwingTo ==
    ASSUME NEW q, NEW p, NEW w \in Workers, Others(q, p, w)
    PROVE  /\ ~(p[w].phase = "granted" /\ p[w].known) => Owing(p) = Owing(q) \ {w}
           /\ p[w].phase = "granted" /\ p[w].known => Owing(p) = Owing(q) \cup {w}
           /\ ~(q[w].phase = "granted" /\ q[w].known) => w \notin Owing(q)
           /\ q[w].phase = "granted" /\ q[w].known => w \in Owing(q)
  BY DEF Others, Owing

\* A unit less is owed, or none.
LEMMA OwesLess ==
    ASSUME NEW q, NEW p, NEW w \in Workers, Others(q, p, w), p[w].phase # "granted",
           IsFiniteSet(Owing(q))
    PROVE  /\ IsFiniteSet(Owing(p)) /\ Cardinality(Owing(p)) \in Nat
           /\ Cardinality(Owing(q)) \in Nat /\ Cardinality(Owing(p)) <= Cardinality(Owing(q))
           /\ q[w].phase = "granted" /\ q[w].known =>
                  Cardinality(Owing(q)) = Cardinality(Owing(p)) + 1
           /\ ~(q[w].phase = "granted" /\ q[w].known) => Owing(p) = Owing(q)
  <1>1. Owing(p) = Owing(q) \ {w}
    BY OwingTo
  <1>2. IsFiniteSet(Owing(p)) /\ Cardinality(Owing(p)) \in Nat /\ Cardinality(Owing(q)) \in Nat
    BY <1>1, FS_RemoveElement, FS_CardinalityType
  <1>3. CASE q[w].phase = "granted" /\ q[w].known
    <2>1. w \in Owing(q)
      BY <1>3, OwingTo
    <2>2. Cardinality(Owing(p)) = Cardinality(Owing(q)) - 1
      BY <1>1, <2>1, FS_RemoveElement
    <2> QED BY <1>2, <1>3, <2>2
  <1>4. CASE ~(q[w].phase = "granted" /\ q[w].known)
    <2>1. Owing(p) = Owing(q)
      BY <1>1, <1>4, OwingTo
    <2> QED BY <1>2, <1>4, <2>1
  <1> QED BY <1>3, <1>4

LEMMA OwesMore ==
    ASSUME NEW q, NEW p, NEW w \in Workers, Others(q, p, w), q[w].phase # "granted",
           IsFiniteSet(Owing(q))
    PROVE  /\ IsFiniteSet(Owing(p)) /\ Cardinality(Owing(q)) \in Nat
           /\ p[w].phase = "granted" /\ p[w].known =>
                  Cardinality(Owing(p)) = Cardinality(Owing(q)) + 1
           /\ ~(p[w].phase = "granted" /\ p[w].known) => Owing(p) = Owing(q)
  <1>1. w \notin Owing(q) /\ Cardinality(Owing(q)) \in Nat
    BY OwingTo, FS_CardinalityType
  <1>2. CASE p[w].phase = "granted" /\ p[w].known
    <2>1. Owing(p) = Owing(q) \cup {w}
      BY <1>2, OwingTo
    <2>2. IsFiniteSet(Owing(p)) /\ Cardinality(Owing(p)) = Cardinality(Owing(q)) + 1
      BY <1>1, <2>1, FS_AddElement
    <2> QED BY <1>1, <1>2, <2>2
  <1>3. CASE ~(p[w].phase = "granted" /\ p[w].known)
    <2>1. Owing(p) = Owing(q)
      BY <1>1, <1>3, OwingTo
    <2> QED BY <1>1, <1>3, <2>1
  <1> QED BY <1>2, <1>3

Out(r) == r.phase \in {"granted", "sent", "reconciling"}

LEMMA OutOf ==
    ASSUME Ready, Prompt(req), NEW w \in Workers, Out(req[w])
    PROVE  Holds(req[w]) /\ Since(req[w]) = now
  BY DEF Prompt, Out, Holds, Since

LEMMA BucketHash ==
    ASSUME Ready, NEW b, b = store.buckets[Hash]
    PROVE  /\ Hash \in Keys /\ SoundBucket(b) /\ b.limit \in {0, Limit} /\ b.resetAt \in Nat
           /\ b.remaining \in Nat /\ b.probe \in BOOLEAN /\ b.window \in Nat /\ Limit # 0
           /\ b.provisional \in BOOLEAN /\ now \in Nat /\ now \in 0..Horizon /\ Limit \in Nat
           /\ b.probe => b.limit = 0
           /\ b.limit = 0 /\ ~b.probe => ~Active(b)
  <1>1. Hash \in Keys /\ SoundBucket(b)
    BY DEF Keys, Ready, Whole, SoundStore
  <1>2. b.limit = 0 /\ ~b.probe => b.resetAt = 0
    BY <1>1 DEF SoundBucket, NoBucket
  <1> QED BY <1>1, <1>2, BucketOf, Consts DEF Ready, SoundBucket, Active

\* A request that knows its bucket has a unit of a window of Discord's that runs.
LEMMA KnowsHash ==
    ASSUME Ready, Unlimited, Prompt(req), NEW w \in Workers, Out(req[w]), req[w].known,
           NEW b, b = store.buckets[Hash]
    PROVE  req[w].key = Hash /\ b.limit = Limit /\ Active(b) /\ ~b.probe
  <1> DEFINE k == req[w].key
             c == store.buckets[k]
  <1>1. Holds(req[w]) /\ Since(req[w]) = now
    BY OutOf
  <1>2. req[w] \in Request /\ Timely(req[w]) /\ k \in Keys /\ SoundBucket(c) /\ Kept(req[w], c)
        /\ now \in 0..Horizon
    BY <1>1, ReadyOf DEF Ready
  <1>3. c.limit = Limit /\ ~c.probe /\ c.resetAt > now
    <2>1. c.limit = Limit
      BY <1>1, <1>2, KeptKnown
    <2>2. ~c.probe
      BY <1>1, <1>2, <2>1, KeptKnown
    <2> QED BY <1>1, <1>2, <2>1, <2>2, KeptKnown
  <1>4. k = Hash
    BY <1>2, <1>3, Consts DEF Unlimited, Keys
  <1> QED BY <1>3, <1>4 DEF Active

\* While a request for Discord's bucket is out, the window that runs has a limit
\* or is a placeholder.
LEMMA RunsHash ==
    ASSUME Ready, Prompt(req), NEW w \in Workers, Out(req[w]), req[w].key = Hash,
           NEW b, b = store.buckets[Hash]
    PROVE  Active(b) /\ (b.probe \/ b.limit = Limit)
  <1>1. Holds(req[w]) /\ Since(req[w]) = now
    BY OutOf
  <1>2. req[w] \in Request /\ Timely(req[w]) /\ SoundBucket(b) /\ Kept(req[w], b)
        /\ now \in 0..Horizon
    BY <1>1, ReadyOf DEF Ready
  <1>3. CASE b.probe
    BY <1>1, <1>2, <1>3, KeptKnown DEF Active
  <1>4. CASE ~b.probe
    <2>1. b.limit = Limit /\ b.resetAt > Since(req[w])
      BY <1>1, <1>2, <1>4, KeptKnown
    <2> QED BY <1>1, <2>1 DEF Active
  <1> QED BY <1>3, <1>4

\* Two requests that probe under a key are not out together.
LEMMA OneOut ==
    ASSUME Ready, NEW v \in Workers, NEW w \in Workers, v # w, Out(req[v]), Out(req[w]),
           req[v].key = req[w].key
    PROVE  req[v].known \/ req[w].known
  BY DEF Ready, Whole, Alone, Discovers, Holds, Out

\* A response to come tells of the window that runs.
LEMMA PendingRuns ==
    ASSUME Ready, discord \in DiscordState, NEW m, Prompt(req), Fresh(m, discord, req),
           NEW w \in Workers, Pending(req[w])
    PROVE  /\ discord.reset \in Nat /\ discord.reset > now
           /\ req[w].reply.window = discord.reset
           /\ req[w].reply.after = discord.reset - now /\ req[w].reply.after \in Nat
           /\ req[w].reply.kind = "ok"
           /\ Out(req[w]) /\ req[w].phase # "granted"
  <1>1. req[w] \in Request /\ Timely(req[w]) /\ now \in Nat
    BY ReadyOf
  <1>2. req[w].since = now /\ req[w].reply.kind = "ok"
    BY DEF Pending, Prompt, Carries
  <1>3. req[w].reply.after \in Nat
    BY <1>1, RequestOf, Consts DEF Replies
  <1>4. req[w].reply.after > 0 /\ req[w].reply.window = now + req[w].reply.after
    BY <1>1, <1>2 DEF Timely, SoundReply, Pending
  <1>5. req[w].reply.window = discord.reset
    BY DEF Fresh
  <1>6. Out(req[w]) /\ req[w].phase # "granted"
    BY DEF Out, Pending
  <1> QED BY <1>1, <1>2, <1>3, <1>4, <1>5, <1>6

-----------------------------------------------------------------------------
(* Steps that leave what Discord knows as it is.                           *)

\* A sweep only forgets what is over.
LEMMA SweptUndisturbed ==
    ASSUME now \in 0..Horizon, NEW b, SoundBucket(b), NEW c, Swept(b, c), NEW m,
           NEW d \in DiscordState, NEW q, Undisturbed(b, m, d, q)
    PROVE  Undisturbed(c, m, d, q)
  <1>1. CASE c = b
    BY <1>1
  <1>2. CASE c = NoBucket /\ b.resetAt <= now - BUCKET_LINGER
    <2>1. b.resetAt \in Nat /\ now \in Nat /\ d.reset \in Nat /\ b.resetAt <= now
      BY <1>2, BucketOf, Consts, Numbers DEF SoundBucket, DiscordState
    <2>2. c.limit = 0 /\ c.resetAt = 0 /\ ~Active(c) /\ Limit # 0
      BY <1>2, <2>1, Consts DEF NoBucket, Active
    <2>3. Lone(c, d, q)
      BY <2>2 DEF Undisturbed, Lone
    <2>4. Covered(c, d, q)
      BY <2>1 DEF Undisturbed, Covered
    <2>5. Balanced(c, d, q)
      BY <2>2 DEF Undisturbed, Balanced
    <2>6. Distinct(c, q)
      BY <2>2 DEF Distinct
    <2> QED BY <2>3, <2>4, <2>5, <2>6 DEF Undisturbed
  <1> QED BY <1>1, <1>2 DEF Swept

LEMMA WriteUndisturbed ==
    ASSUME Ready, NEW k, NEW c, Writes(k, c), NEW m, NEW d \in DiscordState, NEW q,
           Undisturbed(IF k = Hash THEN c ELSE store.buckets[Hash], m, d, q)
    PROVE  Undisturbed(store'.buckets[Hash], m, d, q)
  <1> DEFINE b == IF k = Hash THEN c ELSE store.buckets[Hash]
             a == store'.buckets[Hash]
  <1>1. Hash \in Keys /\ SoundBucket(store.buckets[Hash]) /\ now \in 0..Horizon
    BY BucketHash
  <1>2. SoundBucket(b) /\ Swept(b, a)
    BY <1>1 DEF Writes, Rewrites
  <1> HIDE DEF a, b
  <1>3. Undisturbed(b, m, d, q)
    BY DEF b
  <1>4. Undisturbed(a, m, d, q)
    BY <1>1, <1>2, <1>3, SweptUndisturbed
  <1> QED BY <1>4 DEF a

\* A request that is not out becomes another that is not.
LEMMA RestUndisturbed ==
    ASSUME NEW b, NEW m, NEW d, NEW q, Undisturbed(b, m, d, q), NEW p, NEW w \in Workers,
           Others(q, p, w), ~Out(q[w]), p[w].phase \in Standing
    PROVE  Undisturbed(b, m, d, p)
  <1>1. \A v \in Workers : Pending(p[v]) <=> Pending(q[v]) /\ v # w
    BY DEF Others, Pending, Standing
  <1>2. ~Pending(q[w]) /\ q[w].phase # "granted"
    BY DEF Pending, Out
  <1>3. \A v \in Workers : v # w => p[v] = q[v]
    BY DEF Others
  <1>4. Prompt(p)
    BY <1>3 DEF Undisturbed, Prompt, Standing
  <1>5. Fresh(m, d, p)
    BY <1>1, <1>3 DEF Undisturbed, Fresh
  <1>6. Lone(b, d, p)
    BY <1>1, <1>3 DEF Undisturbed, Lone
  <1>7. Covered(b, d, p)
    BY <1>1, <1>2 DEF Undisturbed, Covered
  <1>8. Owing(p) = Owing(q)
    BY <1>2, <1>3 DEF Owing, Standing
  <1>9. Balanced(b, d, p)
    BY <1>8 DEF Undisturbed, Balanced
  <1>10. Distinct(b, p)
    BY <1>3 DEF Undisturbed, Distinct, Standing
  <1> QED BY <1>4, <1>5, <1>6, <1>7, <1>9, <1>10 DEF Undisturbed

\* A placeholder is cleared.
LEMMA ClearUndisturbed ==
    ASSUME Ready, NEW b, b = store.buckets[Hash], b.probe, NEW m, NEW d, NEW q,
           Undisturbed(b, m, d, q)
    PROVE  Undisturbed(NoBucket, m, d, q)
  <1>1. b.limit = 0 /\ Limit # 0 /\ now \in Nat
    BY BucketHash
  <1>2. NoBucket.limit = 0
    BY DEF NoBucket
  <1>3. Lone(NoBucket, d, q)
    BY <1>2 DEF Undisturbed, Lone
  <1>4. Covered(NoBucket, d, q)
    BY <1>1 DEF Undisturbed, Covered
  <1>5. Balanced(NoBucket, d, q)
    BY <1>1, <1>2 DEF Undisturbed, Balanced
  <1>6. Distinct(NoBucket, q)
    BY <1>1, <1>2 DEF Distinct
  <1> QED BY <1>3, <1>4, <1>5, <1>6 DEF Undisturbed

\* A unit that is granted is given up.
LEMMA YieldUndisturbed ==
    ASSUME NEW b, NEW m, NEW d, NEW q, Undisturbed(b, m, d, q), NEW p, NEW w \in Workers,
           Others(q, p, w), q[w].phase = "granted", p[w].phase # "granted", ~Pending(p[w]),
           p[w].phase \in {"sent", "reconciling", "finishing"} =>
               p[w].since = now /\ p[w].reply.kind \notin {"lost", "limited"},
           Used(d) \in Nat, b.remaining \in Nat, Limit \in Nat
    PROVE  Undisturbed(b, m, d, p)
  <1>1. \A v \in Workers : Pending(p[v]) <=> Pending(q[v])
    BY DEF Others, Pending
  <1>2. \A v \in Workers : v # w => p[v] = q[v]
    BY DEF Others
  <1>3. Prompt(p)
    BY <1>2 DEF Undisturbed, Prompt
  <1>4. \A v \in Workers : Pending(p[v]) => p[v] = q[v]
    BY <1>2
  <1>5. Fresh(m, d, p)
    BY <1>1, <1>4 DEF Undisturbed, Fresh
  <1>6. Lone(b, d, p)
    BY <1>1, <1>4 DEF Undisturbed, Lone
  <1>7. Covered(b, d, p)
    BY <1>1 DEF Undisturbed, Covered
  <1>8. Balanced(b, d, p)
    <2>1. IsFiniteSet(Owing(q))
      BY DEF Undisturbed, Balanced
    <2>2. /\ IsFiniteSet(Owing(p)) /\ Cardinality(Owing(p)) \in Nat
          /\ Cardinality(Owing(q)) \in Nat /\ Cardinality(Owing(p)) <= Cardinality(Owing(q))
      BY <2>1, OwesLess
    <2>3. ASSUME Active(b) /\ b.limit = Limit
          PROVE  Used(d) + Cardinality(Owing(p)) + b.remaining <= Limit
      <3>1. Used(d) + Cardinality(Owing(q)) + b.remaining <= Limit
        BY <2>3 DEF Undisturbed, Balanced
      <3> QED BY <2>2, <3>1
    <2> QED BY <2>2, <2>3 DEF Balanced
  <1>9. Distinct(b, p)
    BY <1>2 DEF Undisturbed, Distinct
  <1> QED BY <1>3, <1>5, <1>6, <1>7, <1>8, <1>9 DEF Undisturbed

\* Discord's bucket.
HashBucket == store.buckets[Hash]

\* What the steps below start from.
Calm == /\ Ready /\ Even /\ discord \in DiscordState /\ Opened /\ Unlimited /\ Resolved
        /\ EvenReset /\ Undisturbed(HashBucket, store.mapped, discord, req)

\* What is said of the state after a step.
StaysCalm == Undisturbed(store'.buckets[Hash], store'.mapped, discord', req')

LEMMA CalmOf ==
    ASSUME Calm
    PROVE  /\ Ready /\ Unlimited /\ Resolved /\ discord \in DiscordState
           /\ ~discord.refused /\ Prompt(req) /\ Fresh(store.mapped, discord, req)
           /\ Lone(HashBucket, discord, req) /\ Covered(HashBucket, discord, req)
           /\ Balanced(HashBucket, discord, req) /\ Distinct(HashBucket, req)
           /\ discord.reset \in Nat /\ discord.used \in 0..Limit /\ Used(discord) \in Nat
           /\ SoundBucket(HashBucket) /\ HashBucket.limit \in {0, Limit} /\ HashBucket.resetAt \in Nat
           /\ HashBucket.remaining \in Nat /\ HashBucket.probe \in BOOLEAN /\ Limit # 0 /\ Limit \in Nat
           /\ now \in Nat /\ now \in 0..Horizon
           /\ HashBucket.probe => HashBucket.limit = 0
           /\ HashBucket.limit = 0 /\ ~HashBucket.probe => ~Active(HashBucket)
  <1>1. discord.reset \in Nat /\ discord.used \in 0..Limit /\ Used(discord) \in Nat
    BY Consts, Numbers DEF Calm, DiscordState, Used
  <1>2. /\ SoundBucket(HashBucket) /\ HashBucket.limit \in {0, Limit} /\ HashBucket.resetAt \in Nat
        /\ HashBucket.remaining \in Nat /\ HashBucket.probe \in BOOLEAN /\ Limit # 0 /\ Limit \in Nat
        /\ now \in Nat /\ now \in 0..Horizon /\ (HashBucket.probe => HashBucket.limit = 0)
        /\ HashBucket.limit = 0 /\ ~HashBucket.probe => ~Active(HashBucket)
    BY BucketHash DEF Calm, HashBucket
  <1> QED BY <1>1, <1>2 DEF Calm, Undisturbed

LEMMA StandsCalm ==
    ASSUME Calm, NEW w \in Workers, Start(w) \/ Refuse(w) \/ Wake(w) \/ Abandon(w)
    PROVE  StaysCalm
  <1>1. /\ store' = store /\ discord' = discord /\ Others(req, req', w)
        /\ req[w].phase \in Standing /\ req'[w].phase \in Standing
    BY StandsTo DEF Calm
  <1>2. ~Out(req[w])
    BY <1>1 DEF Out, Standing
  <1> DEFINE p == req'
  <1>3. Undisturbed(HashBucket, store.mapped, discord, p)
    <2>1. Others(req, p, w) /\ p[w].phase \in Standing
      BY <1>1
    <2> HIDE DEF p
    <2> QED BY <1>2, <2>1, RestUndisturbed DEF Calm
  <1> QED BY <1>1, <1>3 DEF StaysCalm, HashBucket

LEMMA FinishCalm ==
    ASSUME Calm, NEW w \in Workers, Finish(w)
    PROVE  StaysCalm
  <1>1. /\ discord' = discord /\ Others(req, req', w) /\ req'[w].phase \in Standing
        /\ req[w].phase = "finishing" /\ now' = now
    BY EndsTo DEF Calm, Finish, At
  <1>2. store'.mapped = store.mapped
    <2>1. \A v \in Workers : ~Receive(v)
      <3> SUFFICES ASSUME NEW v \in Workers, Receive(v) PROVE FALSE
        OBVIOUS
      <3>1. req[v].phase = "sent" /\ Others(req, req', v) /\ req'[v].phase = "reconciling"
        BY ReceiveTo DEF Calm
      <3> QED BY <1>1, <3>1 DEF Others, Standing
    <2> QED BY <2>1, MappedTo DEF Next, Calm
  <1>3. ~Out(req[w])
    BY <1>1 DEF Out
  <1> DEFINE p == req'
  <1>4. Undisturbed(HashBucket, store.mapped, discord, p)
    <2>1. Others(req, p, w) /\ p[w].phase \in Standing
      BY <1>1
    <2> HIDE DEF p
    <2> QED BY <1>3, <2>1, RestUndisturbed DEF Calm
  <1>5. CASE store'.buckets = store.buckets
    BY <1>1, <1>2, <1>4, <1>5 DEF StaysCalm, HashBucket
  <1>6. CASE Holds(req[w]) /\ store' = Release(store, req[w], FALSE)
    <2> DEFINE k == req[w].key
    <2>1. PICK c : Writes(k, c)
      BY <1>1, <1>6, ReleaseWrites DEF Calm
    <2>2. k # Hash
      BY <1>1, <1>6 DEF Holds, Key
    <2> HIDE DEF k, p
    <2>3. Undisturbed(IF k = Hash THEN c ELSE store.buckets[Hash], store.mapped, discord, p)
      BY <1>4, <2>2 DEF HashBucket
    <2>4. Undisturbed(store'.buckets[Hash], store.mapped, discord, p)
      BY <2>1, <2>3, WriteUndisturbed DEF Calm
    <2> QED BY <1>1, <1>2, <2>4 DEF StaysCalm, p
  <1> QED BY <1>5, <1>6, FinishWrites DEF Calm, Quiet

LEMMA WithdrawCalm ==
    ASSUME Calm, NEW w \in Workers, Withdraw(w)
    PROVE  StaysCalm
  <1> DEFINE k == req[w].key
             b == store.buckets[k]
             same == SameWindow(store, req[w])
             p == req'
             m == store.mapped
             d == discord
  <1>1. /\ discord' = discord /\ Others(req, p, w) /\ p[w].phase \in Standing
        /\ req[w].phase = "granted" /\ now' = now
    BY EndsTo DEF Calm, Withdraw, At
  <1>2. store'.mapped = m
    BY ReleaseMapped DEF Withdraw, Calm, Ready, Whole, SoundStore
  <1>3. Holds(req[w]) /\ Out(req[w]) /\ store' = Release(store, req[w], TRUE)
    BY <1>1 DEF Holds, Out, Withdraw
  <1>4. PICK c : Released(b, c, same, TRUE) /\ Writes(k, c)
    BY <1>1, <1>3, ReleaseWrites DEF Calm
  <1> HIDE DEF p, same
  <1>5. p[w].phase # "granted" /\ ~Pending(p[w]) /\ p[w].phase \in {"idle", "asking", "waiting"}
    BY <1>1 DEF Pending, Standing
  <1>6. Undisturbed(HashBucket, m, d, p)
    <2>1. Undisturbed(HashBucket, m, d, req) /\ Used(d) \in Nat /\ HashBucket.remaining \in Nat /\ Limit \in Nat
      BY CalmOf DEF Calm
    <2> QED BY <1>1, <1>5, <2>1, YieldUndisturbed
  <1>7. k = Hash => Undisturbed(c, m, d, p)
    <2> HAVE k = Hash
    <2>1. b = HashBucket
      BY DEF HashBucket
    <2>2. CASE c = b
      BY <1>6, <2>1, <2>2
    <2>3. CASE b.probe /\ c = NoBucket
      <3>1. Ready
        BY DEF Calm
      <3> HIDE DEF b
      <3> QED BY <1>6, <2>1, <2>3, <3>1, ClearUndisturbed DEF HashBucket
    <2>4. CASE /\ same /\ ~b.probe /\ SoundBucket(c)
               /\ c.limit = b.limit /\ c.resetAt = b.resetAt /\ ~c.probe /\ c.window = b.window
               /\ c.remaining <= b.remaining + 1 /\ c.remaining <= Limit
      <3> HIDE DEF b
      <3>1. Ready /\ Prompt(req)
        BY CalmOf
      <3>2. HashBucket.limit = Limit /\ Active(HashBucket)
        BY <1>3, <2>1, <2>4, <3>1, RunsHash DEF HashBucket
      <3>3. req[w].known
        <4> SUFFICES ASSUME ~req[w].known PROVE FALSE
          BY <3>1, ReadyOf, RequestOf
        <4>1. HashBucket.resetAt % 2 = 0
          BY <1>1, <3>2, CalmOf DEF Distinct
        <4>2. Timely(req[w]) /\ req[w].resetAt = now + ProbeTime
          BY <1>1, <1>3, <3>1, ReadyOf DEF Timely, Since
        <4>3. HashBucket.resetAt = now + ProbeTime
          BY <2>1, <2>4, <4>2 DEF same, SameWindow, HashBucket
        <4>4. now % 2 = 0 /\ Timeout % 2 = 0 /\ now \in Nat /\ Timeout \in Nat
          BY Consts, CalmOf, LimiterAssumption DEF Calm, Even
        <4>5. (now + (Timeout + 1)) % 2 = 1
          BY <4>4
        <4> QED BY <4>1, <4>3, <4>5, Numbers
      <3>4. Active(c) /\ c.limit = Limit
        BY <2>1, <2>4, <3>2 DEF Active
      <3>5. c.remaining \in Nat
        BY <2>4, BucketOf DEF SoundBucket
      <3>6. Lone(c, d, p) /\ Covered(c, d, p) /\ Distinct(c, p)
        BY <1>6, <2>1, <2>4 DEF Undisturbed, Lone, Covered, Distinct
      <3>7. Balanced(c, d, p)
        <4>1. IsFiniteSet(Owing(req)) /\ Used(d) + Cardinality(Owing(req)) + HashBucket.remaining <= Limit
          BY <3>2, CalmOf DEF Balanced
        <4>2. /\ IsFiniteSet(Owing(p)) /\ Cardinality(Owing(p)) \in Nat
              /\ Cardinality(Owing(req)) = Cardinality(Owing(p)) + 1
          BY <1>1, <1>5, <3>3, <4>1, OwesLess
        <4>3. Used(d) \in Nat /\ HashBucket.remaining \in Nat /\ Limit \in Nat
          BY CalmOf
        <4>4. c.remaining <= HashBucket.remaining + 1
          BY <2>1, <2>4
        <4>5. Used(d) + Cardinality(Owing(p)) + c.remaining <= Limit
          BY <3>5, <4>1, <4>2, <4>3, <4>4
        <4> QED BY <4>2, <4>5 DEF Balanced
      <3> QED BY <1>6, <3>6, <3>7 DEF Undisturbed
    <2> QED BY <1>4, <2>2, <2>3, <2>4 DEF Released
  <1> HIDE DEF k, m, d, b
  <1>8. Undisturbed(IF k = Hash THEN c ELSE store.buckets[Hash], m, d, p)
    BY <1>6, <1>7 DEF HashBucket
  <1>9. Undisturbed(store'.buckets[Hash], m, d, p)
    BY <1>4, <1>8, WriteUndisturbed DEF Calm, d
  <1> QED BY <1>1, <1>2, <1>9 DEF StaysCalm, p, d

LEMMA AmissCalm ==
    ASSUME Calm, NEW w \in Workers, NEW kind \in {"lost", "bare", "global"},
           SendAmiss(w, kind), ~excused'
    PROVE  StaysCalm
  <1> DEFINE p == req'
  <1>1. /\ store' = store /\ discord' = discord /\ Others(req, p, w) /\ kind # "lost"
        /\ req[w].phase = "granted" /\ p[w].phase = "sent" /\ p[w].since = now
        /\ p[w].reply.kind = kind
    BY AmissTo DEF Calm
  <1> HIDE DEF p
  <1>2. ~Pending(p[w]) /\ p[w].reply.kind \notin {"lost", "limited"}
    BY <1>1 DEF Pending, Carries
  <1>3. /\ Undisturbed(HashBucket, store.mapped, discord, req) /\ Used(discord) \in Nat
        /\ HashBucket.remaining \in Nat /\ Limit \in Nat
    BY CalmOf DEF Calm
  <1>4. Undisturbed(HashBucket, store.mapped, discord, p)
    BY <1>1, <1>2, <1>3, YieldUndisturbed
  <1> QED BY <1>1, <1>4 DEF StaysCalm, HashBucket, p

\* No request fails whose answer is not lost.
LEMMA FailCalm ==
    ASSUME Calm, NEW w \in Workers
    PROVE  ~Fail(w)
  <1>1. Prompt(req)
    BY CalmOf
  <1> QED BY <1>1 DEF Prompt, Fail, At

LEMMA ReceiveCalm ==
    ASSUME Calm, NEW w \in Workers, Receive(w)
    PROVE  StaysCalm
  <1> DEFINE p == req'
             q == req
             m == store'.mapped
             b == HashBucket
             d == discord
  <1>1. /\ d' = d /\ Others(q, p, w) /\ q[w].phase = "sent" /\ p[w].phase = "reconciling"
        /\ p[w].key = q[w].key /\ p[w].known = q[w].known /\ p[w].since = q[w].since
        /\ p[w].reply = q[w].reply /\ store'.buckets = store.buckets
        /\ ~Carries(q[w].reply) => m = store.mapped
    BY ReceiveTo DEF Calm
  <1>2. /\ ~d.refused /\ Prompt(q) /\ Fresh(store.mapped, d, q) /\ Lone(b, d, q)
        /\ Covered(b, d, q) /\ Balanced(b, d, q) /\ Distinct(b, q) /\ Ready /\ Unlimited
    BY CalmOf
  <1> HIDE DEF p, m, d, b
  <1>3. \A v \in Workers : /\ Pending(p[v]) <=> Pending(q[v])
                           /\ p[v].key = q[v].key /\ p[v].known = q[v].known
                           /\ p[v].since = q[v].since /\ p[v].reply = q[v].reply
                           /\ v # w => p[v] = q[v]
    BY <1>1 DEF Others, Pending
  <1>4. Prompt(p)
    BY <1>1, <1>2, <1>3 DEF Prompt
  <1>5. Fresh(m, d, p)
    <2> SUFFICES ASSUME NEW v \in Workers, Pending(p[v])
                 PROVE  /\ p[v].reply.window = d.reset
                        /\ p[v].phase = "sent" /\ p[v].key # Hash => m = {}
      BY DEF Fresh
    <2>1. Pending(q[v]) /\ q[v].reply.window = d.reset
      BY <1>2, <1>3 DEF Fresh
    <2>2. ASSUME p[v].phase = "sent", p[v].key # Hash PROVE m = {}
      <3>1. v # w /\ p[v] = q[v]
        BY <1>1, <1>3, <2>2
      <3>2. store.mapped = {}
        BY <1>2, <2>1, <2>2, <3>1 DEF Fresh
      <3>3. ~q[v].known
        <4>1. Out(q[v])
          BY <2>1 DEF Out, Pending
        <4>2. q[v].known => q[v].key = Hash
          BY <1>2, <4>1, KnowsHash
        <4> QED BY <2>2, <3>1, <4>2
      <3>4. ~Pending(q[w])
        BY <1>2, <2>1, <3>1, <3>3 DEF Lone
      <3>5. ~Carries(q[w].reply)
        BY <1>1, <3>4 DEF Pending
      <3> QED BY <1>1, <3>2, <3>5
    <2> QED BY <1>3, <2>1, <2>2
  <1>6. Lone(b, d, p)
    BY <1>2, <1>3 DEF Lone
  <1>7. Covered(b, d, p)
    BY <1>2, <1>3 DEF Covered
  <1>8. Owing(p) = Owing(q)
    BY <1>1, <1>3 DEF Owing
  <1>9. Balanced(b, d, p)
    BY <1>2, <1>8 DEF Balanced
  <1>10. Distinct(b, p)
    BY <1>1, <1>2, <1>3 DEF Distinct
  <1>11. Undisturbed(b, m, d, p)
    BY <1>2, <1>4, <1>5, <1>6, <1>7, <1>9, <1>10 DEF Undisturbed
  <1> QED BY <1>1, <1>11 DEF StaysCalm, p, m, d, b, HashBucket

LEMMA GrantCalm ==
    ASSUME Calm, NEW w \in Workers, Grant(w)
    PROVE  StaysCalm
  <1> DEFINE k == req[w].key
             a == store.buckets[k]
             c == AfterGrant(a)
             b == HashBucket
             p == req'
             q == req
             d == discord
  <1>1. /\ d' = d /\ Others(q, p, w) /\ q[w].phase = "asking" /\ p[w].phase = "granted"
        /\ p[w].key = k /\ (p[w].known <=> Active(a) \/ a.limit > 0)
    BY GrantTo DEF Calm
  <1>2. store'.mapped = store.mapped
    <2>1. k \in Keys /\ Grants(a) /\ store' = Reserve(store, k) /\ now \in 0..Horizon
          /\ SoundStore(store)
      BY ReadyOf, CalmOf DEF Grant
    <2> QED BY <2>1, ReserveMapped
  <1>3. Writes(k, c) /\ k \in Keys /\ Grants(a)
    BY GrantWrites, CalmOf, ReadyOf DEF Grant
  <1>4. /\ SoundBucket(a) /\ a.limit \in {0, Limit} /\ a.resetAt \in Nat /\ a.remaining \in Nat
        /\ now \in 0..Horizon
    BY <1>3, CalmOf, ReadyOf, BucketOf DEF SoundBucket
  <1>5. /\ SoundBucket(c) /\ Active(c) /\ c.limit = a.limit
        /\ Active(a) => /\ a.limit = Limit /\ c.resetAt = a.resetAt
                        /\ c.remaining = a.remaining - 1
        /\ ~Active(a) => c.remaining <= Limit - 1
    BY <1>3, <1>4, GrantSound
  <1>6. c.remaining \in Nat
    BY <1>5, BucketOf DEF SoundBucket
  <1> HIDE DEF p, c
  <1>7. /\ ~d.refused /\ Prompt(q) /\ Fresh(store.mapped, d, q) /\ Lone(b, d, q)
        /\ Covered(b, d, q) /\ Balanced(b, d, q) /\ Distinct(b, q) /\ Ready /\ Unlimited
        /\ Limit # 0 /\ Limit \in Nat /\ Used(d) \in Nat /\ d.reset \in Nat /\ b.limit \in {0, Limit}
        /\ now \in Nat /\ b.remaining \in Nat /\ b.resetAt \in Nat
    BY CalmOf
  <1>8. \A v \in Workers : /\ Pending(p[v]) <=> Pending(q[v])
                           /\ Pending(q[v]) => p[v] = q[v]
                           /\ v # w => p[v] = q[v]
    BY <1>1 DEF Others, Pending
  <1>9. Prompt(p)
    BY <1>1, <1>7, <1>8 DEF Prompt
  <1>10. Fresh(store.mapped, d, p)
    BY <1>7, <1>8 DEF Fresh
  <1>11. /\ IsFiniteSet(Owing(q)) /\ IsFiniteSet(Owing(p)) /\ Cardinality(Owing(q)) \in Nat
         /\ p[w].known => Cardinality(Owing(p)) = Cardinality(Owing(q)) + 1
         /\ ~p[w].known => Owing(p) = Owing(q)
    <2>1. IsFiniteSet(Owing(q))
      BY <1>7 DEF Balanced
    <2> QED BY <1>1, <2>1, OwesMore
  <1>12. CASE k # Hash
    <2>1. a.limit = 0 /\ ~p[w].known
      BY <1>1, <1>3, <1>4, <1>5, <1>7, <1>12 DEF Unlimited, Keys
    <2>2. Lone(b, d, p) /\ Covered(b, d, p)
      BY <1>7, <1>8 DEF Lone, Covered
    <2>3. Balanced(b, d, p)
      BY <1>7, <1>11, <2>1 DEF Balanced
    <2>4. Distinct(b, p)
      BY <1>1, <1>7, <1>8, <1>12 DEF Distinct
    <2>5. Undisturbed(b, store.mapped, d, p)
      BY <1>7, <1>9, <1>10, <2>2, <2>3, <2>4 DEF Undisturbed
    <2> HIDE DEF k, d
    <2>6. Undisturbed(IF k = Hash THEN c ELSE store.buckets[Hash], store.mapped, d, p)
      BY <1>12, <2>5 DEF HashBucket
    <2>7. Undisturbed(store'.buckets[Hash], store.mapped, d, p)
      BY <1>3, <1>7, <2>6, WriteUndisturbed, CalmOf DEF d
    <2> QED BY <1>1, <1>2, <2>7 DEF StaysCalm, p, d
  <1>13. CASE k = Hash
    <2>1. a = b
      BY <1>13 DEF HashBucket
    \* Where no window runs, no request for the bucket is out.
    <2>2. ~Active(b) => \A v \in Workers : Out(q[v]) => q[v].key # Hash /\ ~q[v].known
      BY <1>7, RunsHash, KnowsHash DEF HashBucket
    <2>3. Lone(c, d, p)
      BY <1>5, <1>7, <1>8, <2>1 DEF Lone
    <2>4. ASSUME Active(b) PROVE Undisturbed(c, store.mapped, d, p)
      <3>1. b.limit = Limit /\ c.resetAt = b.resetAt /\ c.limit = b.limit /\ p[w].known
            /\ c.remaining = b.remaining - 1
        BY <1>1, <1>5, <2>1, <2>4
      <3>2. Covered(c, d, p)
        BY <1>7, <1>8, <3>1 DEF Covered
      <3>3. Distinct(c, p)
        BY <1>7, <1>8, <3>1 DEF Distinct
      <3>4. Balanced(c, d, p)
        <4>1. Used(d) + Cardinality(Owing(q)) + b.remaining <= Limit
          BY <1>7, <2>4, <3>1 DEF Balanced
        <4>2. Used(d) + Cardinality(Owing(p)) + c.remaining <= Limit
          BY <1>6, <1>7, <1>11, <3>1, <4>1
        <4> QED BY <1>11, <4>2 DEF Balanced
      <3> QED BY <1>7, <1>9, <1>10, <2>3, <3>2, <3>3, <3>4 DEF Undisturbed
    <2>5. ASSUME ~Active(b) /\ b.limit = Limit PROVE Undisturbed(c, store.mapped, d, p)
      <3>1. c.limit = Limit /\ c.remaining <= Limit - 1 /\ p[w].known
        BY <1>1, <1>5, <1>7, <2>1, <2>5, Consts
      <3>2. Owing(q) = {}
        BY <2>2, <2>5 DEF Owing, Out
      <3>3. \A v \in Workers : ~Pending(q[v])
        <4> SUFFICES ASSUME NEW v \in Workers, Pending(q[v]) PROVE FALSE
          OBVIOUS
        <4>1. ~q[v].known
          BY <2>2, <2>5 DEF Out, Pending
        <4> QED BY <1>7, <2>5, <4>1 DEF Lone
      <3>4. ~(d.reset > now)
        <4> SUFFICES ASSUME d.reset > now PROVE FALSE
          OBVIOUS
        <4>1. b.resetAt >= d.reset
          BY <1>7, <3>3 DEF Covered
        <4> QED BY <1>7, <2>5, <4>1 DEF Active
      <3>5. Covered(c, d, p)
        BY <3>4 DEF Covered
      <3>6. Distinct(c, p)
        <4>1. \A v \in Workers : v # w /\ p[v].phase = "granted" => p[v].key # Hash
          BY <1>8, <2>2, <2>5 DEF Out
        <4> QED BY <3>1, <4>1 DEF Distinct
      <3>7. Balanced(c, d, p)
        <4>1. Used(d) = 0
          BY <3>4 DEF Used
        <4>2. Cardinality(Owing(q)) = 0
          BY <3>2, FS_EmptySet
        <4>3. Cardinality(Owing(p)) = 1
          BY <1>11, <3>1, <4>2
        <4>4. 0 + 1 + c.remaining <= Limit
          BY <1>6, <1>7, <3>1
        <4> QED BY <1>11, <4>1, <4>3, <4>4 DEF Balanced
      <3> QED BY <1>7, <1>9, <1>10, <2>3, <3>5, <3>6, <3>7 DEF Undisturbed
    <2>6. ASSUME ~Active(b) /\ b.limit = 0 PROVE Undisturbed(c, store.mapped, d, p)
      <3>1. c.limit = 0 /\ c.limit # Limit
        BY <1>5, <1>7, <2>1, <2>6
      <3>2. Covered(c, d, p)
        BY <1>7, <1>8, <2>6 DEF Covered
      <3>3. Distinct(c, p) /\ Balanced(c, d, p)
        BY <1>11, <3>1 DEF Distinct, Balanced
      <3> QED BY <1>7, <1>9, <1>10, <2>3, <3>2, <3>3 DEF Undisturbed
    <2>7. Undisturbed(c, store.mapped, d, p)
      BY <1>7, <2>4, <2>5, <2>6
    <2> HIDE DEF k, d
    <2>8. Undisturbed(IF k = Hash THEN c ELSE store.buckets[Hash], store.mapped, d, p)
      BY <1>13, <2>7
    <2>9. Undisturbed(store'.buckets[Hash], store.mapped, d, p)
      BY <1>3, <1>7, <2>8, WriteUndisturbed, CalmOf DEF d
    <2> QED BY <1>1, <1>2, <2>9 DEF StaysCalm, p, d
  <1> QED BY <1>12, <1>13

\* A probe that is sent, as the only one, opens a window at Discord.
LEMMA ProbeAlone ==
    ASSUME Calm, NEW w \in Workers, req[w].phase = "granted", ~req[w].known, ~SecondProbe(w)
    PROVE  /\ HashBucket.limit = 0 /\ discord.reset <= now
           /\ \A v \in Workers : ~Pending(req[v])
           /\ req[w].key # Hash => store.mapped = {}
  <1>1. /\ Ready /\ Unlimited /\ Resolved /\ Prompt(req) /\ Fresh(store.mapped, discord, req)
        /\ Covered(HashBucket, discord, req) /\ discord.reset \in Nat /\ now \in Nat /\ Limit # 0
        /\ HashBucket.limit \in {0, Limit} /\ (HashBucket.probe => HashBucket.limit = 0)
        /\ \A v \in Workers : req[v].known \in BOOLEAN
    BY CalmOf, ReadyOf, RequestOf
  <1>2. Out(req[w])
    BY DEF Out
  <1>3. HashBucket.limit = 0 /\ (req[w].key # Hash => store.mapped = {})
    BY <1>1 DEF SecondProbe, Resolved, HashBucket
  <1>4. ASSUME NEW v \in Workers, Pending(req[v]) PROVE FALSE
    <2>1. v # w /\ Out(req[v])
      BY <1>4 DEF Pending, Out
    <2>2. ~req[v].known
      <3>1. req[v].known => HashBucket.limit = Limit
        BY <1>1, <2>1, KnowsHash DEF HashBucket
      <3> QED BY <1>1, <1>3, <3>1
    <2>3. req[v].key # req[w].key
      BY <1>1, <1>2, <2>1, <2>2, OneOut
    <2>4. CASE req[w].key # Hash
      <3>1. store.mapped = {} /\ ~(req[v].phase = "sent")
        BY <2>3, <2>4 DEF SecondProbe, At
      <3>2. Hashed(req[v])
        BY <1>4, <3>1 DEF Pending, Hashed
      <3> QED BY <1>1, <3>1, <3>2 DEF Resolved
    <2>5. CASE req[w].key = Hash
      <3>1. req[v].phase # "reconciling"
        BY <2>5 DEF SecondProbe, At
      <3>2. req[v].phase = "sent"
        BY <1>4, <3>1 DEF Pending
      <3>3. store.mapped = {}
        BY <1>1, <1>4, <2>3, <2>5, <3>2 DEF Fresh
      <3>4. Hashed(req[w])
        BY <2>5 DEF Hashed
      <3> QED BY <1>1, <3>3, <3>4 DEF Resolved
    <2> QED BY <2>4, <2>5
  <1>5. ~(discord.reset > now)
    BY <1>1, <1>3, <1>4 DEF Covered
  <1> QED BY <1>1, <1>3, <1>4, <1>5

\* Discord's window, where it has room.
LEMMA RoomOf ==
    ASSUME discord \in DiscordState, ~discord.refused, now \in Nat,
           discord.reset <= now \/ discord.used < Limit, NEW d, d = NextWindow
    PROVE  /\ ~d.refused /\ d.used \in Nat /\ d.used = Used(discord) + 1
           /\ discord.reset > now => d.reset = discord.reset
           /\ discord.reset <= now => d.reset = now + Window /\ d.used = 1
           /\ d.reset > now
  <1>1. /\ discord.reset \in Nat /\ discord.used \in Nat /\ Window \in Nat /\ Window > 0
        /\ Limit \in Nat
    BY Consts, Numbers DEF DiscordState
  <1>2. CASE discord.reset <= now
    <2> DEFINE e == now + Window
               u == 1
    <2>1. d = [discord EXCEPT !.reset = e, !.used = u]
      BY <1>2 DEF NextWindow
    <2> HIDE DEF e, u
    <2>2. d.reset = e /\ d.used = u /\ d.refused = discord.refused
      BY <2>1 DEF DiscordState
    <2> QED BY <1>1, <1>2, <2>2 DEF e, u, Used
  <1>3. CASE ~(discord.reset <= now)
    <2> DEFINE u == discord.used + 1
    <2>1. d = [discord EXCEPT !.used = u]
      BY <1>3 DEF NextWindow
    <2> HIDE DEF u
    <2>2. d.reset = discord.reset /\ d.used = u /\ d.refused = discord.refused
      BY <2>1 DEF DiscordState
    <2> QED BY <1>1, <1>3, <2>2 DEF u, Used
  <1> QED BY <1>2, <1>3

LEMMA SendCalm ==
    ASSUME Calm, NEW w \in Workers, Send(w), ~excused'
    PROVE  StaysCalm
  <1> DEFINE p == req'
             q == req
             m == store.mapped
             b == HashBucket
             d == discord
             e == NextWindow
  <1>1. /\ store' = store /\ discord' = e /\ Others(q, p, w) /\ q[w].phase = "granted"
        /\ p[w].phase = "sent" /\ p[w].key = q[w].key /\ p[w].known = q[w].known
        /\ p[w].since = now /\ p[w].reply.kind \in {"ok", "limited"}
        /\ ~e.refused => p[w].reply.kind = "ok"
        /\ p[w].reply.remaining = Limit - e.used /\ p[w].reply.window = e.reset
        /\ ~SecondProbe(w)
    BY SendTo DEF Calm
  <1>2. /\ ~d.refused /\ Prompt(q) /\ Fresh(m, d, q) /\ Lone(b, d, q) /\ d \in DiscordState
        /\ Covered(b, d, q) /\ Balanced(b, d, q) /\ Distinct(b, q) /\ Ready /\ Unlimited
        /\ Limit # 0 /\ Limit \in Nat /\ Used(d) \in Nat /\ d.reset \in Nat /\ b.limit \in {0, Limit}
        /\ now \in Nat /\ b.remaining \in Nat /\ b.resetAt \in Nat /\ d.used \in Nat
    BY CalmOf
  <1>3. Out(q[w])
    BY <1>1 DEF Out
  <1>4. ~q[w].known => /\ b.limit = 0 /\ d.reset <= now /\ \A v \in Workers : ~Pending(q[v])
                       /\ q[w].key # Hash => m = {}
    BY <1>1, ProbeAlone
  <1>5. q[w].known => q[w].key = Hash /\ b.limit = Limit /\ Active(b)
    BY <1>2, <1>3, KnowsHash DEF HashBucket
  <1> HIDE DEF p, e
  <1>6. /\ IsFiniteSet(Owing(q)) /\ IsFiniteSet(Owing(p)) /\ Cardinality(Owing(p)) \in Nat
        /\ q[w].known => Cardinality(Owing(q)) = Cardinality(Owing(p)) + 1
    <2>1. IsFiniteSet(Owing(q))
      BY <1>2 DEF Balanced
    <2> QED BY <1>1, <2>1, OwesLess
  <1>7. d.reset <= now \/ d.used < Limit
    <2>1. CASE q[w].known
      <3>1. Used(d) + Cardinality(Owing(q)) + b.remaining <= Limit
        BY <1>2, <1>5, <2>1 DEF Balanced
      <3>2. Used(d) < Limit
        BY <1>2, <1>6, <2>1, <3>1
      <3> QED BY <1>2, <3>2 DEF Used
    <2>2. CASE ~q[w].known
      BY <1>4, <2>2
    <2> QED BY <2>1, <2>2
  <1>8. /\ ~e.refused /\ e.used \in Nat /\ e.used = Used(d) + 1
        /\ d.reset > now => e.reset = d.reset
        /\ d.reset <= now => e.reset = now + Window /\ e.used = 1
        /\ e.reset > now
    BY <1>2, <1>7, RoomOf DEF e
  <1>9. p[w].reply.kind = "ok" /\ Pending(p[w])
    BY <1>1, <1>8 DEF Pending, Carries
  <1>10. \A v \in Workers : v # w => p[v] = q[v]
    BY <1>1 DEF Others
  <1>11. Prompt(p)
    BY <1>1, <1>2, <1>9, <1>10 DEF Prompt
  <1>12. Fresh(m, e, p)
    <2> SUFFICES ASSUME NEW v \in Workers, Pending(p[v])
                 PROVE  /\ p[v].reply.window = e.reset
                        /\ p[v].phase = "sent" /\ p[v].key # Hash => m = {}
      BY DEF Fresh
    <2>1. CASE v = w
      BY <1>1, <1>4, <1>5, <2>1
    <2>2. CASE v # w
      <3>1. p[v] = q[v] /\ Pending(q[v])
        BY <1>10, <2>2
      <3>2. d.reset > now
        BY <1>2, <3>1, PendingRuns
      <3> QED BY <1>2, <1>8, <3>1, <3>2 DEF Fresh
    <2> QED BY <2>1, <2>2
  <1>13. Lone(b, e, p)
    <2> SUFFICES ASSUME NEW v \in Workers, Pending(p[v]), ~p[v].known
                 PROVE  /\ b.limit = 0 /\ p[v].reply.remaining = Limit - e.used
                        /\ \A u \in Workers \ {v} : ~Pending(p[u])
      BY DEF Lone
    <2>1. CASE v = w
      <3>1. ~q[w].known
        BY <1>1, <2>1
      <3> QED BY <1>1, <1>4, <1>10, <2>1, <3>1
    <2>2. CASE v # w
      <3>1. Pending(q[v]) /\ ~q[v].known
        BY <1>10, <2>2
      <3>2. b.limit = 0
        BY <1>2, <3>1 DEF Lone
      <3>3. ~q[w].known
        BY <1>2, <1>5, <3>2
      <3> QED BY <1>4, <3>1, <3>3
    <2> QED BY <2>1, <2>2
  <1>14. Covered(b, e, p)
    BY <1>9 DEF Covered
  <1>15. Balanced(b, e, p)
    <2>1. ASSUME Active(b), b.limit = Limit
          PROVE  Used(e) + Cardinality(Owing(p)) + b.remaining <= Limit
      <3>1. q[w].known
        BY <1>2, <1>4, <2>1
      <3>2. Used(d) + Cardinality(Owing(q)) + b.remaining <= Limit
        BY <1>2, <2>1 DEF Balanced
      <3>3. Used(e) = Used(d) + 1
        BY <1>8 DEF Used
      <3> QED BY <1>2, <1>6, <3>1, <3>2, <3>3
    <2> QED BY <1>6, <2>1 DEF Balanced
  <1>16. Distinct(b, p)
    BY <1>1, <1>2, <1>10 DEF Distinct
  <1>17. Undisturbed(b, m, e, p)
    BY <1>8, <1>11, <1>12, <1>13, <1>14, <1>15, <1>16 DEF Undisturbed
  <1> QED BY <1>1, <1>17 DEF StaysCalm, p, HashBucket

\* What a response that is not stale makes of a bucket.
LEMMA MergeFresh ==
    ASSUME now \in 0..Horizon, NEW b, SoundBucket(b), NEW u \in Replies, u.kind = "ok",
           u.after > 0, b.window <= u.window, NEW c, c = Merge(b, u)
    PROVE  /\ c.limit = Limit /\ c.remaining \in Nat /\ c.resetAt \in Nat
           /\ Active(b) /\ ~b.probe => /\ c.remaining <= b.remaining
                                       /\ c.resetAt \in {b.resetAt, now + u.after}
           /\ ~(Active(b) /\ ~b.probe) => c.remaining = u.remaining /\ c.resetAt = now + u.after
           /\ c.resetAt >= now + u.after
  <1> DEFINE m == Merged(b, u)
             d == [m EXCEPT !.limit = Limit]
             r == now + u.after
  <1>1. /\ b.remaining \in Nat /\ b.resetAt \in Nat /\ b.window \in Nat /\ b \in BucketState
        /\ u.remaining \in Nat /\ u.after \in Nat /\ u.window \in Nat /\ r \in Nat
    BY BucketOf, Consts, Numbers DEF SoundBucket, Replies
  <1>2. c = d
    BY DEF Merge, Merged, SpendOn429
  <1> HIDE DEF d
  <1>3. CASE Active(b) /\ ~b.probe
    <2> DEFINE left == RemainingAfter(b, u)
               e == IF b.provisional \/ (b.window # 0 /\ u.window > b.window)
                    THEN r ELSE Most(b.resetAt, r)
               f == Most(b.window, u.window)
               g == [b EXCEPT !.remaining = left, !.resetAt = e, !.provisional = FALSE,
                              !.window = f]
    <2>1. m = g
      BY <1>1, <1>3 DEF Merged, MergeWindow
    <2>2. /\ left \in Nat /\ left <= b.remaining
          /\ e \in {b.resetAt, r} /\ e >= r /\ e \in Nat
      BY <1>1 DEF RemainingAfter, Least, Most
    <2> HIDE DEF left, e, f, m, r
    <2>3. d = [g EXCEPT !.limit = Limit]
      BY <2>1 DEF d
    <2>4. d.remaining = left /\ d.resetAt = e /\ d.limit = Limit
      BY <1>1, <2>3 DEF BucketState
    <2> QED BY <1>2, <1>3, <2>2, <2>4 DEF r
  <1>4. CASE ~(Active(b) /\ ~b.probe)
    <2> DEFINE g == [remaining |-> u.remaining, resetAt |-> r, limit |-> 0,
                     window |-> u.window, provisional |-> FALSE, probe |-> FALSE]
    <2>1. m = g
      BY <1>4 DEF Merged, NoBucket
    <2> HIDE DEF m, r
    <2>2. d = [g EXCEPT !.limit = Limit]
      BY <2>1 DEF d
    <2>3. d.remaining = u.remaining /\ d.resetAt = r /\ d.limit = Limit
      BY <2>2
    <2> QED BY <1>1, <1>2, <1>4, <2>3 DEF r
  <1> QED BY <1>3, <1>4

\* A response without headers leaves Discord's bucket, or clears its placeholder.
LEMMA BareCalm ==
    ASSUME Calm, NEW w \in Workers, ApplyHeaders(w), ~Carries(req[w].reply)
    PROVE  StaysCalm
  <1> DEFINE k == KeyOfReply(w)
             a == store.buckets[k]
             c == Learned(a, req[w].reply)
             p == req'
             q == req
             m == store.mapped
             d == discord
  <1>1. Writes(k, c)
    BY HeadersWrite DEF Calm
  <1>2. /\ discord' = d /\ Others(q, p, w) /\ q[w].phase = "reconciling"
        /\ p[w].phase = "finishing" /\ p[w].since = q[w].since /\ p[w].reply = q[w].reply
    BY HeadersTo DEF Calm
  <1>3. store'.mapped = m
    <2>1. /\ k \in Keys /\ req[w].reply \in Replies
          /\ store' = Reconcile(store, k, req[w].reply) /\ now \in 0..Horizon /\ SoundStore(store)
      BY <1>1, HeadersWrite DEF Writes, ApplyHeaders, Calm, Ready, Whole
    <2> QED BY <2>1, ReconcileMapped
  <1>4. c = IF a.probe THEN NoBucket ELSE a
    BY DEF Learned
  <1> HIDE DEF p, c
  <1>5. /\ ~d.refused /\ Prompt(q) /\ Fresh(m, d, q) /\ Lone(HashBucket, d, q)
        /\ Covered(HashBucket, d, q) /\ Balanced(HashBucket, d, q) /\ Distinct(HashBucket, q)
    BY CalmOf
  <1>6. \A v \in Workers : /\ Pending(p[v]) <=> Pending(q[v])
                           /\ Pending(q[v]) => p[v] = q[v]
                           /\ v # w => p[v] = q[v]
    BY <1>2 DEF Others, Pending
  <1>7. Prompt(p)
    BY <1>2, <1>5, <1>6 DEF Prompt
  <1>8. Fresh(m, d, p) /\ Lone(HashBucket, d, p) /\ Covered(HashBucket, d, p)
    BY <1>5, <1>6 DEF Fresh, Lone, Covered
  <1>9. Owing(p) = Owing(q)
    BY <1>2, <1>6 DEF Owing
  <1>10. Balanced(HashBucket, d, p)
    BY <1>5, <1>9 DEF Balanced
  <1>11. Distinct(HashBucket, p)
    BY <1>2, <1>5, <1>6 DEF Distinct
  <1>12. Undisturbed(HashBucket, m, d, p)
    BY <1>5, <1>7, <1>8, <1>10, <1>11 DEF Undisturbed
  <1>13. k = Hash => Undisturbed(c, m, d, p)
    <2> HAVE k = Hash
    <2>1. a = HashBucket
      BY DEF HashBucket
    <2>2. HashBucket.probe => Undisturbed(NoBucket, m, d, p)
      BY <1>12, ClearUndisturbed DEF Calm, HashBucket
    <2> HIDE DEF a
    <2> QED BY <1>4, <1>12, <2>1, <2>2
  <1> HIDE DEF k, d, m, a
  <1>14. Undisturbed(IF k = Hash THEN c ELSE store.buckets[Hash], m, d, p)
    BY <1>12, <1>13 DEF HashBucket
  <1>15. Undisturbed(store'.buckets[Hash], m, d, p)
    BY <1>1, <1>14, WriteUndisturbed DEF Calm, d
  <1> QED BY <1>2, <1>3, <1>15 DEF StaysCalm, p, d, m

LEMMA HeadersCalm ==
    ASSUME Calm, Spaced, NEW w \in Workers, ApplyHeaders(w), Carries(req[w].reply)
    PROVE  StaysCalm
  <1> DEFINE u == req[w].reply
             b == HashBucket
             c == Merge(b, u)
             p == req'
             q == req
             m == store.mapped
             d == discord
  <1>1. Writes(Hash, c) /\ u \in Replies /\ u.remaining < Limit
    BY HeadersWrite DEF Calm, HashBucket, Learned
  <1>2. /\ discord' = d /\ Others(q, p, w) /\ q[w].phase = "reconciling"
        /\ p[w].phase = "finishing" /\ p[w].since = q[w].since /\ p[w].reply = q[w].reply
    BY HeadersTo DEF Calm
  <1>3. store'.mapped = m
    <2>1. /\ KeyOfReply(w) \in Keys /\ u.after > 0
          /\ store' = Reconcile(store, KeyOfReply(w), u) /\ now \in 0..Horizon /\ SoundStore(store)
      BY HeadersWrite DEF Writes, ApplyHeaders, Calm, Ready, Whole
    <2> QED BY <1>1, <2>1, ReconcileMapped
  <1>4. /\ ~d.refused /\ Prompt(q) /\ Fresh(m, d, q) /\ Lone(b, d, q) /\ d \in DiscordState
        /\ Covered(b, d, q) /\ Balanced(b, d, q) /\ Distinct(b, q) /\ Ready /\ Unlimited
        /\ Limit # 0 /\ Limit \in Nat /\ Used(d) \in Nat /\ d.reset \in Nat /\ b.limit \in {0, Limit}
        /\ now \in Nat /\ now \in 0..Horizon /\ b.remaining \in Nat /\ b.resetAt \in Nat
        /\ SoundBucket(b) /\ (b.limit = 0 /\ ~b.probe => ~Active(b)) /\ d.used \in 0..Limit
        /\ b.probe \in BOOLEAN
    BY CalmOf
  <1>5. Pending(q[w]) /\ Out(q[w])
    BY <1>2 DEF Pending, Out
  <1>6. /\ d.reset > now /\ u.window = d.reset /\ u.after = d.reset - now /\ u.kind = "ok"
        /\ u.after \in Nat
    BY <1>4, <1>5, PendingRuns
  <1>7. now + u.after = d.reset /\ u.after > 0 /\ b.window <= u.window
    <2>1. b.window \in Windows
      BY BucketHash DEF Windows, Calm, HashBucket
    <2>2. b.window <= d.reset
      BY <2>1 DEF Spaced
    <2> QED BY <1>4, <1>6, <2>2
  <1>8. /\ c.limit = Limit /\ c.remaining \in Nat /\ c.resetAt \in Nat
        /\ Active(b) /\ ~b.probe => c.remaining <= b.remaining /\ c.resetAt \in {b.resetAt, d.reset}
        /\ ~(Active(b) /\ ~b.probe) => c.remaining = u.remaining /\ c.resetAt = d.reset
        /\ c.resetAt >= d.reset
    BY <1>1, <1>4, <1>6, <1>7, MergeFresh
  <1> HIDE DEF p, c
  <1>9. \A v \in Workers : /\ Pending(p[v]) <=> Pending(q[v]) /\ v # w
                           /\ v # w => p[v] = q[v]
    BY <1>2 DEF Others, Pending
  <1>10. Prompt(p)
    BY <1>2, <1>4, <1>9 DEF Prompt
  <1>11. Fresh(m, d, p)
    BY <1>4, <1>9 DEF Fresh
  <1>12. Lone(c, d, p)
    <2> SUFFICES ASSUME NEW v \in Workers, Pending(p[v]), ~p[v].known PROVE FALSE
      BY DEF Lone
    <2>1. v # w /\ Pending(q[v]) /\ ~q[v].known
      BY <1>9
    <2> QED BY <1>4, <1>5, <2>1 DEF Lone
  <1>13. Covered(c, d, p)
    BY <1>8 DEF Covered
  <1>14. Owing(p) = Owing(q) /\ IsFiniteSet(Owing(q))
    BY <1>2, <1>4, <1>9 DEF Owing, Balanced
  <1>15. Used(d) + Cardinality(Owing(q)) + c.remaining <= Limit
    <2>0. Cardinality(Owing(q)) \in Nat
      BY <1>14, FS_CardinalityType
    <2>1. CASE q[w].known
      <3>1. b.limit = Limit /\ Active(b) /\ ~b.probe
        BY <1>4, <1>5, <2>1, KnowsHash DEF HashBucket
      <3>2. Used(d) + Cardinality(Owing(q)) + b.remaining <= Limit
        BY <1>4, <3>1 DEF Balanced
      <3>3. c.remaining <= b.remaining
        BY <1>8, <3>1
      <3> QED BY <1>4, <1>8, <2>0, <3>2, <3>3
    <2>2. CASE ~q[w].known
      <3>1. b.limit = 0 /\ u.remaining = Limit - d.used
        BY <1>4, <1>5, <2>2 DEF Lone
      <3>2. Owing(q) = {}
        <4> SUFFICES ASSUME NEW v \in Owing(q) PROVE FALSE
          OBVIOUS
        <4>1. v \in Workers /\ Out(q[v]) /\ q[v].known
          BY DEF Owing, Out
        <4>2. b.limit = Limit
          BY <1>4, <4>1, KnowsHash DEF HashBucket
        <4> QED BY <1>4, <3>1, <4>2
      <3>3. Cardinality(Owing(q)) = 0
        BY <3>2, FS_EmptySet
      <3>4. c.remaining = u.remaining
        BY <1>4, <1>8, <3>1
      <3>5. Used(d) = d.used
        BY <1>6 DEF Used
      <3> QED BY <1>4, <3>1, <3>3, <3>4, <3>5
    <2> QED BY <2>1, <2>2
  <1>16. Balanced(c, d, p)
    BY <1>14, <1>15 DEF Balanced
  <1>17. Distinct(c, p)
    <2> SUFFICES ASSUME NEW v \in Workers, p[v].phase = "granted", ~p[v].known, p[v].key = Hash
                 PROVE  c.resetAt % 2 = 0
      BY DEF Distinct
    <2>1. q[v] = p[v]
      BY <1>2, <1>9
    <2>2. d.reset % 2 = 0
      BY DEF Calm, EvenReset
    <2>3. CASE Active(b) /\ ~b.probe
      <3>1. b.limit = Limit
        BY <1>4, <2>3
      <3>2. b.resetAt % 2 = 0
        BY <1>4, <2>1, <3>1 DEF Distinct
      <3> QED BY <1>8, <2>2, <2>3, <3>2
    <2>4. CASE ~(Active(b) /\ ~b.probe)
      BY <1>8, <2>2, <2>4
    <2> QED BY <2>3, <2>4
  <1>18. Undisturbed(c, m, d, p)
    BY <1>4, <1>10, <1>11, <1>12, <1>13, <1>16, <1>17 DEF Undisturbed
  <1> HIDE DEF d, m
  <1>19. Undisturbed(IF Hash = Hash THEN c ELSE store.buckets[Hash], m, d, p)
    BY <1>18
  <1>20. Undisturbed(store'.buckets[Hash], m, d, p)
    BY <1>1, <1>4, <1>19, WriteUndisturbed
  <1> QED BY <1>2, <1>3, <1>20 DEF StaysCalm, p, d, m

\* While time stands, what is said of the next state is said next.
LEMMA CalmNext ==
    ASSUME now' = now, StaysCalm
    PROVE  Undisturbed(store.buckets[Hash], store.mapped, discord, req)'
  BY DEF StaysCalm, Undisturbed, Prompt, Fresh, Lone, Covered, Balanced, Distinct, Owing,
         Used, Active, Pending, Carries

\* Time passes when no request is out.
LEMMA TickCalm ==
    ASSUME Calm, Tick, ~excused'
    PROVE  Undisturbed(store.buckets[Hash], store.mapped, discord, req)'
  <1> DEFINE q == req
             m == store.mapped
             b == store.buckets[Hash]
             d == discord
  <1>1. now' = now + 2 /\ store' = store /\ req' = req /\ discord' = discord
    BY Numbers DEF Tick
  <1>2. \A w \in Workers : q[w].phase \in {"idle", "waiting"}
    BY DEF Tick, At
  <1>3. /\ ~d.refused /\ Covered(b, d, q) /\ Balanced(b, d, q) /\ now \in Nat
        /\ d.reset \in Nat /\ b.resetAt \in Nat /\ Used(d) \in Nat /\ d.used \in Nat
        /\ b.remaining \in Nat /\ Limit \in Nat
    BY CalmOf DEF HashBucket
  <1>4. Prompt(req)' /\ Fresh(store.mapped, discord, req)' /\ Lone(store.buckets[Hash], discord, req)'
        /\ Distinct(store.buckets[Hash], req)'
    BY <1>1, <1>2 DEF Prompt, Fresh, Lone, Distinct, Pending
  <1>5. \A w \in Workers : ~Pending(q[w])
    BY <1>2 DEF Pending
  <1>6. d.reset > now + 2 => b.limit = Limit /\ b.resetAt >= d.reset
    BY <1>3, <1>5 DEF Covered
  <1>7. Covered(store.buckets[Hash], discord, req)'
    BY <1>1, <1>6 DEF Covered
  <1>8. IsFiniteSet(Owing(q)) /\ Cardinality(Owing(q)) \in Nat
    BY <1>3, FS_CardinalityType DEF Balanced
  <1>9. ASSUME b.resetAt > now + 2, b.limit = Limit
        PROVE  (IF d.reset > now + 2 THEN d.used ELSE 0) + Cardinality(Owing(q)) + b.remaining <= Limit
    <2>1. Active(b)
      BY <1>3, <1>9 DEF Active
    <2>2. Used(d) + Cardinality(Owing(q)) + b.remaining <= Limit
      BY <1>3, <1>9, <2>1 DEF Balanced
    <2>3. (IF d.reset > now + 2 THEN d.used ELSE 0) <= Used(d)
      BY <1>3 DEF Used
    <2> DEFINE x == IF d.reset > now + 2 THEN d.used ELSE 0
    <2>4. x \in Nat
      BY <1>3
    <2> HIDE DEF x
    <2>5. x + Cardinality(Owing(q)) + b.remaining <= Limit
      BY <1>3, <1>8, <2>2, <2>3, <2>4 DEF x
    <2> QED BY <2>5 DEF x
  <1>10. Balanced(store.buckets[Hash], discord, req)'
    BY <1>1, <1>8, <1>9 DEF Balanced, Used, Active, Owing
  <1> QED BY <1>1, <1>3, <1>4, <1>7, <1>10 DEF Undisturbed

LEMMA StepCalm ==
    ASSUME Calm, Spaced, [Next]_vars, ~excused'
    PROVE  Undisturbed(store.buckets[Hash], store.mapped, discord, req)'
  <1>1. ASSUME NEW w \in Workers, Start(w) \/ Refuse(w) \/ Wake(w) \/ Abandon(w)
        PROVE  now' = now /\ StaysCalm
    BY <1>1, StandsTo, StandsCalm DEF Calm
  <1>2. ASSUME NEW w \in Workers, Withdraw(w) \/ Fail(w) \/ Finish(w)
        PROVE  now' = now /\ StaysCalm
    BY <1>2, EndsTo, WithdrawCalm, FailCalm, FinishCalm DEF Calm
  <1>3. ASSUME NEW w \in Workers, Grant(w) PROVE now' = now /\ StaysCalm
    BY <1>3, GrantTo, GrantCalm DEF Calm
  <1>4. ASSUME NEW w \in Workers, Send(w) PROVE now' = now /\ StaysCalm
    BY <1>4, SendTo, SendCalm DEF Calm
  <1>5. ASSUME NEW w \in Workers, NEW kind \in {"lost", "bare", "global"}, SendAmiss(w, kind)
        PROVE  now' = now /\ StaysCalm
    BY <1>5, AmissTo, AmissCalm DEF Calm
  <1>6. ASSUME NEW w \in Workers, Receive(w) PROVE now' = now /\ StaysCalm
    BY <1>6, ReceiveTo, ReceiveCalm DEF Calm
  <1>7. ASSUME NEW w \in Workers, ApplyHeaders(w) PROVE now' = now /\ StaysCalm
    BY <1>7, HeadersTo, HeadersCalm, BareCalm DEF Calm
  <1>8. CASE Tick
    BY <1>8, TickCalm
  <1>9. CASE UNCHANGED vars
    <2>1. now' = now /\ StaysCalm
      BY <1>9 DEF vars, StaysCalm, Calm, HashBucket
    <2> QED BY <2>1, CalmNext
  <1> QED BY <1>1, <1>2, <1>3, <1>4, <1>5, <1>6, <1>7, <1>8, <1>9, CalmNext DEF Next

\* A step excuses, and never takes an excuse back.
LEMMA StepExcused ==
    ASSUME [Next]_vars, excused
    PROVE  excused'
  BY DEF Next, Tick, Start, Grant, Refuse, Wake, Abandon, Withdraw, Send, SendAmiss, Fail,
         Receive, ApplyHeaders, Finish, vars

LEMMA StepInStep ==
    ASSUME IInv, Spaced, Unlimited, Resolved, EvenReset, InStep, [Next]_vars
    PROVE  InStep'
  <1>1. CASE excused
    BY <1>1, StepExcused DEF InStep
  <1>2. CASE ~excused
    <2>1. Calm
      BY <1>2 DEF IInv, InStep, Calm, HashBucket
    <2> QED BY <2>1, StepCalm DEF InStep
  <1> QED BY <1>1, <1>2

LEMMA InitInStep == Init => InStep
  <1> SUFFICES ASSUME Init PROVE Undisturbed(store.buckets[Hash], store.mapped, discord, req)
    BY DEF InStep
  <1>1. \A w \in Workers : req[w].phase = "idle"
    BY DEF Init, NoRequest
  <1>2. discord.reset = 0 /\ discord.refused = FALSE /\ now = 0
    BY DEF Init
  <1>3. Hash \in Keys /\ store.buckets[Hash] = NoBucket /\ ~Active(NoBucket)
    BY <1>2 DEF Init, Keys, NoBucket, Active
  <1>4. Owing(req) = {}
    BY <1>1 DEF Owing
  <1>5. IsFiniteSet(Owing(req))
    BY <1>4, FS_EmptySet
  <1> QED BY <1>1, <1>2, <1>3, <1>5
          DEF Undisturbed, Prompt, Fresh, Lone, Covered, Balanced, Distinct, Pending

\* Discord refuses nothing until an answer takes time or is lost, or two probes
\* are out for its bucket, if no window of Discord's can end when a
\* placeholder would (store.ts, reserveState and reconcileState; index.ts,
\* applyResponse).
THEOREM RefusedIsLate ==
    ASSUME Window % 2 = 0
    PROVE  Spec => []RefusedOnlyIfLate
  <1>1. Init => Spaced /\ Unlimited /\ Resolved /\ EvenReset /\ InStep
    BY InitSpaced, InitCounted, InitInStep
  <1>2. IInv /\ Spaced /\ Unlimited /\ Resolved /\ EvenReset /\ InStep /\ [Next]_vars
        => (Spaced /\ Unlimited /\ Resolved /\ EvenReset /\ InStep)'
    BY StepSpaced, StepUnlimited, StepResolved, StepEvenReset, StepInStep DEF IInv
  <1>3. InStep => RefusedOnlyIfLate
    BY DEF InStep, Undisturbed, RefusedOnlyIfLate
  <1> QED BY <1>1, <1>2, <1>3, Invariance, PTL DEF Spec

=============================================================================
