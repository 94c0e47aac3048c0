---------------------------- MODULE FleetProofs ----------------------------
(***************************************************************************)
(* Theorems about IdentifyFleet for every fleet: any shards, clusters and  *)
(* rate-limit keys, any interval, timeouts and budget, and any number of   *)
(* lost sockets and dead clusters.                                         *)
(***************************************************************************)
EXTENDS IdentifyFleet, FiniteSetTheorems, SequenceTheorems, WellFoundedInduction, TLAPS

-----------------------------------------------------------------------------
(* The invariant.                                                          *)

\* Every shard waits in the queue of its key, and once.
Lined(c) ==
    \A k \in Keys : \A i \in 1..Len(c.queue[k]) :
        /\ KeyOf(c.queue[k][i]) = k
        /\ \A j \in 1..Len(c.queue[k]) : c.queue[k][i] = c.queue[k][j] => i = j

Waits(c, s) == \E i \in 1..Len(c.queue[KeyOf(s)]) : c.queue[KeyOf(s)][i] = s

\* A slot is waited for, or on its way, only for a shard that asks for it.
Asked(c, g, sh) ==
    \A s \in Shards :
        /\ Waits(c, s) => sh[s].ask # "none"
        /\ s \in g => sh[s].ask # "none" /\ ~Waits(c, s)

\* A slot is held by a shard of its key, whose grant is on its way or who starts.
HoldsAt(c, g, sh, k) ==
    /\ c.holder[k] # Nobody =>
          /\ KeyOf(c.holder[k]) = k
          /\ c.holder[k] \in g => c.hold[k] = HoldTimeout
          /\ c.holder[k] \in g \/ sh[c.holder[k]].starting
    /\ \A s \in g : KeyOf(s) = k /\ sh[s].ask = "start" => c.holder[k] = s

\* How far a shard is, by its phase.
Shaped(x) ==
    /\ x.phase = "down" => x.ask = "none"
    /\ x.ask = "start" <=> x.phase = "asking"
    /\ x.phase \in {"down", "asking"} => ~x.starting /\ ~x.session /\ x.patience = {}
    /\ x.paced => x.ask = "none" /\ ~x.session /\ x.phase \in {"dialling", "opened"}
    /\ x.paced => \A p \in x.patience : p + x.age >= HandshakeTimeout

Covered(c) ==
    \A k \in Wanted(c) :
        \E t \in c.timer : t <= Longest(c.rest[k], IF c.remaining = 0 THEN c.reset ELSE 0)

Formed(c, g, sh) ==
    /\ c \in Coordinator /\ g \subseteq Shards /\ sh \in [Shards -> Shard]
    /\ Lined(c)
    /\ Asked(c, g, sh)
    /\ \A s \in Shards : Shaped(sh[s])

Sound(c, g, sh) == Formed(c, g, sh) /\ \A k \in Keys : HoldsAt(c, g, sh, k)

IInv == Sound(co, granted, shard) /\ Covered(co)

\* A shard may IDENTIFY without asking again.
May(g, sh, s) == s \in g \/ sh[s].paced

\* It has to at once, before time goes on.
Urgent(g, sh, s) == s \in g \/ sh[s].age = MaxHandshake

\* A shard that may IDENTIFY is alone on its key, on which nothing counts any more;
\* it holds the slot, or has just lost it.
Sole(c, g, sh, r) ==
    \A s \in Shards : May(g, sh, s) =>
        /\ r[KeyOf(s)] = 0
        /\ \/ c.holder[KeyOf(s)] = s
           \/ c.holder[KeyOf(s)] = Nobody /\ c.rest[KeyOf(s)] = Interval /\ Urgent(g, sh, s)
        /\ \A t \in Shards : May(g, sh, t) /\ KeyOf(t) = KeyOf(s) => t = s

\* A key that nobody holds rests while an IDENTIFY on it counts.
Rests(c, r) == \A k \in Keys : c.holder[k] = Nobody => r[k] <= c.rest[k]

\* The slot of a shard that has not yet used it is as old as its grant.
Timed(c, sh) ==
    \A s \in Shards : sh[s].paced /\ c.holder[KeyOf(s)] = s =>
        c.hold[KeyOf(s)] + sh[s].age >= HoldTimeout

Pacing(c, g, sh, r) ==
    r \in [Keys -> 0..Interval] /\ Sole(c, g, sh, r) /\ Rests(c, r) /\ Timed(c, sh)

\* The keys on which an IDENTIFY may come.
Pending(g, sh) == {k \in Keys : \E s \in Shards : KeyOf(s) = k /\ May(g, sh, s)}

\* The budget left, a reset that has passed included.
Left(c) == IF c.refill THEN Total ELSE c.remaining

Budgeted(c, g, sh, n, m) ==
    n \in Nat /\ m \in Nat /\ n + Cardinality(Pending(g, sh)) + Left(c) <= Total + m

PInv ==
    /\ Pacing(co, granted, shard, recent)
    /\ crowded = {}
    /\ Budgeted(co, granted, shard, spent, carried)

\* An IDENTIFY follows its grant before a start, or a slot, times out.
Prompt == MaxHandshake <= HandshakeTimeout /\ MaxHandshake <= HoldTimeout

-----------------------------------------------------------------------------
(* Numbers and sequences.                                                  *)

LEMMA Constants ==
    /\ MaxConcurrency \in Nat \ {0} /\ Shards \subseteq Nat /\ Nobody \notin Shards
    /\ {Interval, HoldTimeout, Total, Period} \subseteq Nat \ {0}
    /\ {HandshakeTimeout, ReadyTimeout, MaxHandshake} \subseteq Nat
    /\ Keys \subseteq Nat /\ IsFiniteSet(Keys)
    /\ \A s \in Shards : KeyOf(s) \in Keys
  <1>1. IsFiniteSet(Keys)
    BY FleetAssumption, FS_Interval DEF Keys
  <1>2. \A s \in Shards : KeyOf(s) \in Keys
    BY FleetAssumption DEF Keys, KeyOf
  <1>3. Keys \subseteq Nat
    BY FleetAssumption DEF Keys
  <1> QED BY <1>1, <1>2, <1>3, FleetAssumption

LEMMA LongestOf ==
    ASSUME NEW a \in Nat, NEW b \in Nat
    PROVE  Longest(a, b) \in Nat /\ a <= Longest(a, b) /\ b <= Longest(a, b)
           /\ Longest(a, b) \in {a, b}
  BY DEF Longest

\* A set of numbers that is not empty has a least one.
LEMMA Smallest ==
    ASSUME NEW T \in SUBSET Nat, T # {}
    PROVE  \E x \in T : \A y \in T : x <= y
  <1>1. PICK x \in T : \A y \in T : <<y, x>> \notin OpToRel(<, Nat)
    BY NatLessThanWellFounded, WFMin
  <1>2. \A y \in T : ~(y < x)
    BY <1>1 DEF OpToRel
  <1>3. x \in T /\ \A y \in T : x <= y
    BY <1>2
  <1> QED BY <1>3

UpTo(K, m) == {j \in K : j <= m}

LEMMA UpToStep ==
    ASSUME NEW K \in SUBSET Nat, NEW m \in Nat, 0 \notin K
    PROVE  /\ UpTo(K, 0) = {}
           /\ m # 0 /\ m \notin K => UpTo(K, m) = UpTo(K, m - 1)
           /\ m \in K => UpTo(K, m) = UpTo(K, m - 1) \cup {m} /\ m \notin UpTo(K, m - 1)
  <1>1. \A j \in K : j \in Nat /\ ~(j <= 0) /\ (j <= m <=> j <= m - 1 \/ j = m)
    <2> SUFFICES ASSUME NEW j \in K PROVE j \in Nat /\ ~(j <= 0) /\ (j <= m <=> j <= m - 1 \/ j = m)
      OBVIOUS
    <2>1. j \in Nat /\ j # 0
      OBVIOUS
    <2> QED BY <2>1
  <1>2. ~(m <= m - 1)
    OBVIOUS
  <1> QED BY <1>1, <1>2 DEF UpTo

\* Every rank of a finite set of numbers is that of one of them.
LEMMA Ranked ==
    ASSUME NEW n \in Nat, NEW K \in SUBSET (1..n), NEW r \in 1..Cardinality(K)
    PROVE  \E i \in K : Cardinality(UpTo(K, i)) = r
  <1>1. IsFiniteSet(K) /\ \A m \in Nat : Cardinality(UpTo(K, m)) \in Nat /\ IsFiniteSet(UpTo(K, m))
    <2>1. IsFiniteSet(K)
      <3>1. IsFiniteSet(1..n)
        BY FS_Interval
      <3> QED BY <3>1, FS_Subset
    <2>2. \A m : UpTo(K, m) \in SUBSET K
      BY DEF UpTo
    <2> QED BY <2>1, <2>2, FS_Subset, FS_CardinalityType
  <1>0. \A j \in K : j \in Nat /\ 1 <= j /\ j <= n
    OBVIOUS
  <1> DEFINE T == {m \in Nat : Cardinality(UpTo(K, m)) >= r}
  <1>2. n \in T
    <2>1. UpTo(K, n) = K
      BY <1>0 DEF UpTo
    <2>2. Cardinality(K) \in Nat
      BY <1>1, FS_CardinalityType
    <2> QED BY <2>1, <2>2
  <1>3. PICK m \in T : \A y \in T : m <= y
    BY <1>2, Smallest
  <1>4. m # 0
    <2>1. UpTo(K, 0) = {}
      BY <1>0, UpToStep
    <2>2. Cardinality(UpTo(K, 0)) = 0
      BY <2>1, FS_EmptySet
    <2> QED BY <2>2, <1>3
  <1>5. m - 1 \in Nat /\ m - 1 \notin T
    BY <1>3, <1>4
  <1>6. Cardinality(UpTo(K, m - 1)) < r
    BY <1>1, <1>5
  <1>7. m \in K
    <2>1. m \notin K => UpTo(K, m) = UpTo(K, m - 1)
      BY <1>0, <1>3, <1>4, UpToStep
    <2> QED BY <1>1, <1>3, <1>6, <2>1
  <1>8. UpTo(K, m) = UpTo(K, m - 1) \cup {m} /\ m \notin UpTo(K, m - 1)
    BY <1>0, <1>3, <1>7, UpToStep
  <1>9. Cardinality(UpTo(K, m)) = Cardinality(UpTo(K, m - 1)) + 1
    BY <1>1, <1>5, <1>8, FS_AddElement
  <1>10. Cardinality(UpTo(K, m)) = r
    BY <1>1, <1>3, <1>5, <1>6, <1>9
  <1> QED BY <1>7, <1>10

\* What is kept is waiters of other clusters, each once.
LEMMA KeepOf ==
    ASSUME NEW q \in Seq(Shards), NEW o
    PROVE  /\ Keep(q, o) \in Seq(Shards)
           /\ \E f \in [1..Len(Keep(q, o)) -> 1..Len(q)] :
                 /\ \A n \in 1..Len(Keep(q, o)) :
                       Keep(q, o)[n] = q[f[n]] /\ OwnerOf[q[f[n]]] # o
                 /\ \A n, m \in 1..Len(Keep(q, o)) : f[n] = f[m] => n = m
  <1> DEFINE K == {i \in DOMAIN q : OwnerOf[q[i]] # o}
             f == [n \in 1..Cardinality(K) |-> CHOOSE i \in K : Cardinality({j \in K : j <= i}) = n]
  <1>1. K \in SUBSET (1..Len(q)) /\ Len(q) \in Nat /\ \A i \in K : OwnerOf[q[i]] # o
    BY LenProperties
  <1>2. Cardinality(K) \in Nat
    <2>1. IsFiniteSet(1..Len(q))
      BY <1>1, FS_Interval
    <2> QED BY <1>1, <2>1, FS_Subset, FS_CardinalityType
  <1>3. Keep(q, o) = [n \in 1..Cardinality(K) |-> q[f[n]]]
    BY DEF Keep
  <1>4. \A n \in 1..Cardinality(K) : f[n] \in K /\ Cardinality({j \in K : j <= f[n]}) = n
    <2> SUFFICES ASSUME NEW n \in 1..Cardinality(K)
                 PROVE  f[n] \in K /\ Cardinality({j \in K : j <= f[n]}) = n
      OBVIOUS
    <2>1. f[n] = CHOOSE i \in K : Cardinality({j \in K : j <= i}) = n
      OBVIOUS
    <2> HIDE DEF K, f
    <2>2. \E i \in K : Cardinality({j \in K : j <= i}) = n
      BY <1>1, Ranked DEF UpTo
    <2> QED BY <2>1, <2>2
  <1>5. DOMAIN f = 1..Cardinality(K)
    OBVIOUS
  <1>6. f \in [1..Cardinality(K) -> K]
    BY <1>4
  <1> HIDE DEF K, f
  <1>7. Keep(q, o) \in [1..Cardinality(K) -> Shards]
    BY <1>1, <1>3, <1>4, ElementOfSeq
  <1>8. Keep(q, o) \in Seq(Shards) /\ Len(Keep(q, o)) = Cardinality(K)
    BY <1>2, <1>7
  <1>9. f \in [1..Len(Keep(q, o)) -> 1..Len(q)]
    BY <1>1, <1>6, <1>8
  <1>10. \A n \in 1..Len(Keep(q, o)) : Keep(q, o)[n] = q[f[n]] /\ OwnerOf[q[f[n]]] # o
    BY <1>1, <1>3, <1>4, <1>8
  <1>11. \A n, m \in 1..Len(Keep(q, o)) : f[n] = f[m] => n = m
    <2> SUFFICES ASSUME NEW n \in 1..Cardinality(K), NEW m \in 1..Cardinality(K), f[n] = f[m]
                 PROVE  n = m
      BY <1>8
    <2> QED BY <1>4
  <1> QED BY <1>8, <1>9, <1>10, <1>11

-----------------------------------------------------------------------------
(* The coordinator.                                                        *)

LEMMA Parts ==
    ASSUME NEW c \in Coordinator
    PROVE  /\ c.queue \in [Keys -> Seq(Shards)]
           /\ c.holder \in [Keys -> Shards \cup {Nobody}]
           /\ c.hold \in [Keys -> 0..HoldTimeout]
           /\ c.rest \in [Keys -> 0..Interval]
           /\ c.remaining \in 0..Total /\ c.reset \in 1..Period
           /\ c.refill \in BOOLEAN /\ c.timer \in SUBSET (0..Longest(Period, Interval))
  BY DEF Coordinator

\* The queue of one key and its holder, in two states of a coordinator.
SameAt(c, d, k) ==
    /\ d.queue[k] = c.queue[k] /\ d.holder[k] = c.holder[k]
    /\ d.hold[k] = c.hold[k] /\ d.rest[k] = c.rest[k]

SameBudget(c, d) == d.remaining = c.remaining /\ d.reset = c.reset /\ d.refill = c.refill

LEMMA FreeOf ==
    ASSUME NEW c \in Coordinator, NEW k \in Keys, NEW d, d = Free(c, k)
    PROVE  /\ d \in Coordinator
           /\ SameBudget(c, d) /\ d.queue = c.queue
           /\ d.holder[k] = Nobody /\ d.hold[k] = 0 /\ d.rest[k] = Interval
           /\ \A j \in Keys \ {k} : SameAt(c, d, j)
  <1>1. d = [c EXCEPT !.holder = [c.holder EXCEPT ![k] = Nobody],
                      !.hold = [c.hold EXCEPT ![k] = 0],
                      !.rest = [c.rest EXCEPT ![k] = Interval]]
    BY DEF Free
  <1> DEFINE a == [c.holder EXCEPT ![k] = Nobody]
             b == [c.hold EXCEPT ![k] = 0]
             e == [c.rest EXCEPT ![k] = Interval]
  <1>2. a \in [Keys -> Shards \cup {Nobody}] /\ a[k] = Nobody
        /\ \A j \in Keys \ {k} : a[j] = c.holder[j]
    BY Parts
  <1>3. b \in [Keys -> 0..HoldTimeout] /\ b[k] = 0 /\ \A j \in Keys \ {k} : b[j] = c.hold[j]
    BY Parts, Constants
  <1>4. e \in [Keys -> 0..Interval] /\ e[k] = Interval /\ \A j \in Keys \ {k} : e[j] = c.rest[j]
    BY Parts, Constants
  <1>5. d = [c EXCEPT !.holder = a, !.hold = b, !.rest = e]
    BY <1>1
  <1> HIDE DEF a, b, e
  <1>6. d \in Coordinator /\ d.holder = a /\ d.hold = b /\ d.rest = e /\ d.queue = c.queue
        /\ SameBudget(c, d)
    BY <1>2, <1>3, <1>4, <1>5 DEF Coordinator, SameBudget
  <1> QED BY <1>2, <1>3, <1>4, <1>6 DEF SameAt

Enqueue(c, s) == [c EXCEPT !.queue[KeyOf(s)] = Append(@, s)]

LEMMA EnqueueOf ==
    ASSUME NEW c \in Coordinator, NEW s \in Shards, NEW d, d = Enqueue(c, s)
    PROVE  /\ d \in Coordinator
           /\ SameBudget(c, d)
           /\ d.holder = c.holder /\ d.hold = c.hold /\ d.rest = c.rest
           /\ d.queue[KeyOf(s)] = Append(c.queue[KeyOf(s)], s)
           /\ \A j \in Keys \ {KeyOf(s)} : d.queue[j] = c.queue[j]
  <1> DEFINE k == KeyOf(s)
             x == Append(c.queue[k], s)
             a == [c.queue EXCEPT ![k] = x]
  <1>1. k \in Keys /\ c.queue \in [Keys -> Seq(Shards)]
    BY Parts, Constants
  <1>2. x \in Seq(Shards)
    BY <1>1
  <1>3. d = [c EXCEPT !.queue = a]
    BY DEF Enqueue
  <1> HIDE DEF x, k
  <1>4. a \in [Keys -> Seq(Shards)] /\ a[k] = x /\ \A j \in Keys \ {k} : a[j] = c.queue[j]
    BY <1>1, <1>2
  <1> HIDE DEF a
  <1>5. d \in Coordinator /\ d.queue = a /\ SameBudget(c, d)
        /\ d.holder = c.holder /\ d.hold = c.hold /\ d.rest = c.rest
    BY <1>3, <1>4 DEF Coordinator, SameBudget
  <1> QED BY <1>4, <1>5 DEF x, k

LEMMA DropOf ==
    ASSUME NEW c \in Coordinator, NEW o, NEW d, d = Drop(c, o)
    PROVE  /\ d \in Coordinator
           /\ SameBudget(c, d)
           /\ \A k \in Keys :
                 /\ d.queue[k] = Keep(c.queue[k], o)
                 /\ IF c.holder[k] # Nobody /\ OwnerOf[c.holder[k]] = o
                    THEN d.holder[k] = Nobody /\ d.hold[k] = 0 /\ d.rest[k] = Interval
                    ELSE /\ d.holder[k] = c.holder[k] /\ d.hold[k] = c.hold[k]
                         /\ d.rest[k] = c.rest[k]
  <1> DEFINE a == [k \in Keys |-> Keep(c.queue[k], o)]
             b == [k \in Keys |-> IF k \in Held(c, o) THEN Nobody ELSE c.holder[k]]
             e == [k \in Keys |-> IF k \in Held(c, o) THEN 0 ELSE c.hold[k]]
             f == [k \in Keys |-> IF k \in Held(c, o) THEN Interval ELSE c.rest[k]]
  <1>1. d = [c EXCEPT !.queue = a, !.holder = b, !.hold = e, !.rest = f]
    BY DEF Drop
  <1>2. a \in [Keys -> Seq(Shards)] /\ \A k \in Keys : a[k] = Keep(c.queue[k], o)
    BY Parts, KeepOf
  <1>3. /\ b \in [Keys -> Shards \cup {Nobody}]
        /\ \A k \in Keys : b[k] = IF k \in Held(c, o) THEN Nobody ELSE c.holder[k]
    BY Parts
  <1>4. e \in [Keys -> 0..HoldTimeout] /\ \A k \in Keys : e[k] = IF k \in Held(c, o) THEN 0 ELSE c.hold[k]
    BY Parts, Constants
  <1>5. f \in [Keys -> 0..Interval] /\ \A k \in Keys : f[k] = IF k \in Held(c, o) THEN Interval ELSE c.rest[k]
    BY Parts, Constants
  <1> HIDE DEF a, b, e, f
  <1>6. d \in Coordinator /\ d.queue = a /\ d.holder = b /\ d.hold = e /\ d.rest = f /\ SameBudget(c, d)
    BY <1>1, <1>2, <1>3, <1>4, <1>5 DEF Coordinator, SameBudget
  <1>7. \A k \in Keys : k \in Held(c, o) <=> c.holder[k] # Nobody /\ OwnerOf[c.holder[k]] = o
    BY DEF Held
  <1> QED BY <1>2, <1>3, <1>4, <1>5, <1>6, <1>7

LEMMA RefillOf ==
    ASSUME NEW c \in Coordinator, NEW d, d = Refill(c)
    PROVE  /\ d \in Coordinator
           /\ d.queue = c.queue /\ d.holder = c.holder /\ d.hold = c.hold /\ d.rest = c.rest
           /\ d.reset = c.reset /\ d.remaining = Left(c) /\ ~d.refill
  <1>1. CASE c.refill
    <2>1. d = [c EXCEPT !.remaining = Total, !.refill = FALSE]
      BY <1>1 DEF Refill
    <2>2. Total \in 0..Total
      BY Constants
    <2> QED BY <1>1, <2>1, <2>2 DEF Coordinator, Left
  <1>2. CASE ~c.refill
    BY <1>2 DEF Refill, Left
  <1> QED BY <1>1, <1>2

LEMMA GrantOf ==
    ASSUME NEW c \in Coordinator, NEW G \in SUBSET Keys, NEW d, d = Grant(c, G),
           Cardinality(G) <= c.remaining, \A k \in G : c.queue[k] # <<>>
    PROVE  /\ d \in Coordinator
           /\ d.rest = c.rest /\ d.reset = c.reset /\ d.refill = c.refill
           /\ d.remaining = c.remaining - Cardinality(G)
           /\ \A k \in G : /\ d.queue[k] = Tail(c.queue[k])
                           /\ d.holder[k] = Head(c.queue[k]) /\ d.hold[k] = HoldTimeout
           /\ \A k \in Keys \ G : SameAt(c, d, k)
  <1> DEFINE a == [k \in Keys |-> IF k \in G THEN Tail(c.queue[k]) ELSE c.queue[k]]
             b == [k \in Keys |-> IF k \in G THEN Head(c.queue[k]) ELSE c.holder[k]]
             e == [k \in Keys |-> IF k \in G THEN HoldTimeout ELSE c.hold[k]]
             n == c.remaining - Cardinality(G)
  <1>1. d = [c EXCEPT !.queue = a, !.holder = b, !.hold = e, !.remaining = n]
    BY DEF Grant
  <1>2. \A k \in G : Head(c.queue[k]) \in Shards /\ Tail(c.queue[k]) \in Seq(Shards)
    BY Parts, HeadTailProperties
  <1>3. a \in [Keys -> Seq(Shards)] /\ \A k \in Keys : a[k] = IF k \in G THEN Tail(c.queue[k]) ELSE c.queue[k]
    BY <1>2, Parts
  <1>4. /\ b \in [Keys -> Shards \cup {Nobody}]
        /\ \A k \in Keys : b[k] = IF k \in G THEN Head(c.queue[k]) ELSE c.holder[k]
    BY <1>2, Parts
  <1>5. /\ e \in [Keys -> 0..HoldTimeout]
        /\ \A k \in Keys : e[k] = IF k \in G THEN HoldTimeout ELSE c.hold[k]
    BY Parts, Constants
  <1>6. n \in 0..Total
    <2>1. IsFiniteSet(G)
      BY Constants, FS_Subset
    <2>2. Cardinality(G) \in Nat
      BY <2>1, FS_CardinalityType
    <2> QED BY <2>2, Parts, Constants
  <1> HIDE DEF a, b, e, n
  <1>7. /\ d \in Coordinator /\ d.queue = a /\ d.holder = b /\ d.hold = e /\ d.remaining = n
        /\ d.rest = c.rest /\ d.reset = c.reset /\ d.refill = c.refill
    BY <1>1, <1>3, <1>4, <1>5, <1>6 DEF Coordinator
  <1> QED BY <1>3, <1>4, <1>5, <1>7 DEF SameAt, n

LEMMA ArmOf ==
    ASSUME NEW c \in Coordinator, NEW d, d = Arm(c)
    PROVE  /\ d \in Coordinator
           /\ SameBudget(c, d)
           /\ d.queue = c.queue /\ d.holder = c.holder /\ d.hold = c.hold /\ d.rest = c.rest
           /\ \A k \in Wanted(c) : \E t \in d.timer :
                 t <= IF c.rest[k] > 0 THEN c.rest[k] ELSE c.reset
  <1> DEFINE a == {w \in Wakes(c) : \A v \in Wakes(c) : w <= v}
  <1>1. d = [c EXCEPT !.timer = a]
    BY DEF Arm
  <1>2. Wakes(c) \subseteq 0..Longest(Period, Interval)
    <2>1. Longest(Period, Interval) \in Nat /\ Period <= Longest(Period, Interval)
          /\ Interval <= Longest(Period, Interval)
      BY Constants, LongestOf
    <2>2. \A k \in Keys : c.rest[k] \in 0..Interval /\ c.reset \in 1..Period
      BY Parts
    <2>3. \A k \in Keys : (IF c.rest[k] > 0 THEN c.rest[k] ELSE c.reset) \in 0..Longest(Period, Interval)
      BY <2>1, <2>2, Constants
    <2> QED BY <2>3 DEF Wakes, Wanted
  <1>3. a \in SUBSET (0..Longest(Period, Interval))
    BY <1>2
  <1> HIDE DEF a
  <1>4. /\ d \in Coordinator /\ SameBudget(c, d) /\ d.timer = a
        /\ d.queue = c.queue /\ d.holder = c.holder /\ d.hold = c.hold /\ d.rest = c.rest
    BY <1>1, <1>3 DEF Coordinator, SameBudget
  <1>5. ASSUME NEW k \in Wanted(c)
        PROVE  \E t \in a : t <= IF c.rest[k] > 0 THEN c.rest[k] ELSE c.reset
    <2> DEFINE w == IF c.rest[k] > 0 THEN c.rest[k] ELSE c.reset
    <2>1. w \in Wakes(c)
      BY DEF Wakes
    <2>2. Wakes(c) \in SUBSET Nat
      BY <1>2
    <2> HIDE DEF w
    <2>3. PICK t \in Wakes(c) : \A v \in Wakes(c) : t <= v
      BY <2>1, <2>2, Smallest
    <2>4. t \in a /\ t <= w
      BY <2>1, <2>3 DEF a
    <2> QED BY <2>4 DEF w
  <1> QED BY <1>4, <1>5

\* What a pump makes of c and of the grants g: it serves the keys G.
Served(c, g, G, d, h) ==
    /\ G \in SUBSET Keys /\ d \in Coordinator
    /\ d.rest = c.rest /\ d.reset = c.reset /\ ~d.refill
    /\ d.remaining = Left(c) - Cardinality(G)
    /\ \A k \in G : /\ c.holder[k] = Nobody /\ c.queue[k] # <<>> /\ c.rest[k] = 0
                    /\ d.queue[k] = Tail(c.queue[k]) /\ d.holder[k] = Head(c.queue[k])
                    /\ d.hold[k] = HoldTimeout
    /\ \A k \in Keys \ G : SameAt(c, d, k)
    /\ h = g \cup {Head(c.queue[k]) : k \in G}
    /\ Covered(d)

LEMMA PumpOf ==
    ASSUME NEW c \in Coordinator, NEW g, Pump(c, g)
    PROVE  \E G : Served(c, g, G, co', granted')
  <1> DEFINE r == Refill(c)
  <1>1. /\ r \in Coordinator
        /\ r.queue = c.queue /\ r.holder = c.holder /\ r.hold = c.hold /\ r.rest = c.rest
        /\ r.reset = c.reset /\ r.remaining = Left(c) /\ ~r.refill
    BY RefillOf
  <1>2. PICK G \in Grantable(r) :
           /\ co' = Arm(Grant(r, G))
           /\ granted' = g \cup {Head(r.queue[k]) : k \in G}
    BY DEF Pump
  <1> DEFINE e == Grant(r, G)
             due == {k \in Wanted(r) : r.rest[k] = 0}
  <1>3. /\ G \in SUBSET due
        /\ \/ G = due /\ Cardinality(G) <= r.remaining
           \/ G # due /\ Cardinality(G) = r.remaining
    BY DEF Grantable
  <1>4. co' = Arm(e)
    BY <1>2
  <1>5. \A k \in due : k \in Keys /\ r.holder[k] = Nobody /\ r.queue[k] # <<>> /\ r.rest[k] = 0
    BY DEF Wanted
  <1>6. \A k \in Keys : r.holder[k] = Nobody /\ r.queue[k] # <<>> /\ r.rest[k] = 0 => k \in due
    BY DEF Wanted
  <1> HIDE DEF r, due
  <1>7. r.remaining \in Nat /\ Cardinality(G) <= r.remaining
    BY <1>1, <1>3, Parts, Constants
  <1>8. G \in SUBSET Keys /\ \A k \in G : r.queue[k] # <<>>
    BY <1>3, <1>5
  <1>9. /\ e \in Coordinator
        /\ e.rest = r.rest /\ e.reset = r.reset /\ e.refill = r.refill
        /\ e.remaining = r.remaining - Cardinality(G)
        /\ \A k \in G : /\ e.queue[k] = Tail(r.queue[k])
                        /\ e.holder[k] = Head(r.queue[k]) /\ e.hold[k] = HoldTimeout
        /\ \A k \in Keys \ G : SameAt(r, e, k)
    BY <1>1, <1>7, <1>8, GrantOf
  <1> HIDE DEF e
  <1>10. /\ co' \in Coordinator
         /\ SameBudget(e, co')
         /\ co'.queue = e.queue /\ co'.holder = e.holder /\ co'.hold = e.hold /\ co'.rest = e.rest
         /\ \A k \in Wanted(e) : \E t \in co'.timer :
               t <= IF e.rest[k] > 0 THEN e.rest[k] ELSE e.reset
    BY <1>4, <1>9, ArmOf
  <1> DEFINE d == co'
  <1>11. d \in Coordinator /\ co' = d
    BY <1>10
  <1> HIDE DEF d
  <1>12. Covered(d)
    <2> SUFFICES ASSUME NEW k \in Wanted(d)
                 PROVE  \E t \in d.timer :
                           t <= Longest(d.rest[k], IF d.remaining = 0 THEN d.reset ELSE 0)
      BY DEF Covered
    <2>1. k \in Keys /\ d.holder[k] = Nobody /\ d.queue[k] # <<>> /\ k \in Wanted(e)
      BY <1>10, <1>11 DEF Wanted
    <2>2. PICK t \in d.timer : t <= IF e.rest[k] > 0 THEN e.rest[k] ELSE e.reset
      BY <1>10, <1>11, <2>1
    <2>3. d.rest[k] = e.rest[k] /\ d.reset = e.reset /\ d.remaining = e.remaining
      BY <1>10, <1>11 DEF SameBudget
    <2>4. t \in Nat /\ d.rest[k] \in Nat /\ d.reset \in Nat
      <3>1. Longest(Period, Interval) \in Nat
        BY Constants, LongestOf
      <3>2. t \in 0..Longest(Period, Interval) /\ d.rest[k] \in 0..Interval /\ d.reset \in 1..Period
        BY <1>11, <2>1, Parts
      <3> QED BY <3>1, <3>2, Constants
    <2>5. d.rest[k] <= Longest(d.rest[k], 0) /\ d.rest[k] <= Longest(d.rest[k], d.reset)
          /\ d.reset <= Longest(d.rest[k], d.reset)
      BY <2>4, LongestOf
    <2>6. Longest(d.rest[k], 0) \in Nat /\ Longest(d.rest[k], d.reset) \in Nat
      BY <2>4, LongestOf
    <2>7. CASE d.rest[k] > 0
      BY <2>2, <2>3, <2>4, <2>5, <2>6, <2>7
    <2>8. CASE d.rest[k] = 0
      <3>1. k \notin G
        <4>1. k \in G => d.holder[k] = Head(r.queue[k]) /\ Head(r.queue[k]) \in Shards
          BY <1>1, <1>8, <1>9, <1>10, <1>11, Parts, HeadTailProperties
        <4> QED BY <2>1, <4>1, Constants
      <3>2. SameAt(r, e, k)
        BY <1>9, <2>1, <3>1
      <3>3. k \in due
        BY <1>6, <1>9, <1>10, <1>11, <2>1, <2>3, <2>8, <3>2 DEF SameAt
      <3>4. d.remaining = 0
        BY <1>3, <1>7, <1>9, <2>3, <3>1, <3>3
      <3>5. t <= d.reset
        BY <2>2, <2>3, <2>8
      <3> QED BY <2>4, <2>5, <2>6, <3>4, <3>5
    <2> QED BY <2>4, <2>7, <2>8
  <1>13. /\ d.rest = c.rest /\ d.reset = c.reset /\ ~d.refill
         /\ d.remaining = Left(c) - Cardinality(G)
    BY <1>1, <1>9, <1>10, <1>11 DEF SameBudget
  <1>14. \A k \in G : /\ c.holder[k] = Nobody /\ c.queue[k] # <<>> /\ c.rest[k] = 0
                      /\ d.queue[k] = Tail(c.queue[k]) /\ d.holder[k] = Head(c.queue[k])
                      /\ d.hold[k] = HoldTimeout
    BY <1>1, <1>3, <1>5, <1>9, <1>10, <1>11
  <1>15. \A k \in Keys \ G : SameAt(c, d, k)
    BY <1>1, <1>9, <1>10, <1>11 DEF SameAt
  <1>16. granted' = g \cup {Head(c.queue[k]) : k \in G}
    BY <1>1, <1>2
  <1>17. Served(c, g, G, d, granted')
    BY <1>8, <1>11, <1>12, <1>13, <1>14, <1>15, <1>16 DEF Served
  <1> QED BY <1>11, <1>17

LEMMA TailOf ==
    ASSUME NEW q \in Seq(Shards), q # <<>>
    PROVE  /\ Len(q) \in Nat /\ 1 \in 1..Len(q) /\ Head(q) = q[1] /\ Head(q) \in Shards
           /\ \A i \in 1..Len(Tail(q)) : i + 1 \in 1..Len(q) /\ Tail(q)[i] = q[i + 1]
  <1>1. Len(q) \in Nat /\ Len(q) # 0
    BY EmptySeq
  <1>2. Len(Tail(q)) = Len(q) - 1 /\ \A i \in 1..Len(Tail(q)) : Tail(q)[i] = q[i + 1]
    BY HeadTailProperties
  <1> QED BY <1>1, <1>2, HeadTailProperties

\* The queues of d are those of c with no one new.
Shorter(c, d) ==
    \A k \in Keys : \E f \in [1..Len(d.queue[k]) -> 1..Len(c.queue[k])] :
        /\ \A i \in 1..Len(d.queue[k]) : d.queue[k][i] = c.queue[k][f[i]]
        /\ \A i, j \in 1..Len(d.queue[k]) : f[i] = f[j] => i = j

LEMMA ShorterLined ==
    ASSUME NEW c, NEW d, Shorter(c, d), Lined(c)
    PROVE  Lined(d) /\ \A s \in Shards : Waits(d, s) => Waits(c, s)
  <1>1. Lined(d)
    <2> SUFFICES ASSUME NEW k \in Keys, NEW i \in 1..Len(d.queue[k])
                 PROVE  /\ KeyOf(d.queue[k][i]) = k
                        /\ \A j \in 1..Len(d.queue[k]) : d.queue[k][i] = d.queue[k][j] => i = j
      BY DEF Lined
    <2>1. PICK f \in [1..Len(d.queue[k]) -> 1..Len(c.queue[k])] :
             /\ \A n \in 1..Len(d.queue[k]) : d.queue[k][n] = c.queue[k][f[n]]
             /\ \A n, j \in 1..Len(d.queue[k]) : f[n] = f[j] => n = j
      BY DEF Shorter
    <2>2. \A n \in 1..Len(d.queue[k]) : f[n] \in 1..Len(c.queue[k])
      BY <2>1
    <2>3. \A n, j \in 1..Len(c.queue[k]) :
             /\ KeyOf(c.queue[k][n]) = k
             /\ c.queue[k][n] = c.queue[k][j] => n = j
      BY DEF Lined
    <2>4. KeyOf(d.queue[k][i]) = k
      BY <2>1, <2>2, <2>3
    <2>5. ASSUME NEW j \in 1..Len(d.queue[k]), d.queue[k][i] = d.queue[k][j]
          PROVE  i = j
      <3>1. c.queue[k][f[i]] = c.queue[k][f[j]] /\ f[i] \in 1..Len(c.queue[k]) /\ f[j] \in 1..Len(c.queue[k])
        BY <2>1, <2>2, <2>5
      <3>2. f[i] = f[j]
        BY <2>3, <3>1
      <3> QED BY <2>1, <3>2
    <2> QED BY <2>4, <2>5
  <1>2. ASSUME NEW s \in Shards, Waits(d, s) PROVE Waits(c, s)
    <2>1. PICK i \in 1..Len(d.queue[KeyOf(s)]) : d.queue[KeyOf(s)][i] = s
      BY <1>2 DEF Waits
    <2>2. PICK f \in [1..Len(d.queue[KeyOf(s)]) -> 1..Len(c.queue[KeyOf(s)])] :
             \A n \in 1..Len(d.queue[KeyOf(s)]) : d.queue[KeyOf(s)][n] = c.queue[KeyOf(s)][f[n]]
      BY Constants DEF Shorter
    <2>3. f[i] \in 1..Len(c.queue[KeyOf(s)]) /\ c.queue[KeyOf(s)][f[i]] = s
      BY <2>1, <2>2
    <2> QED BY <2>3 DEF Waits
  <1> QED BY <1>1, <1>2

\* A queue that loses its head is shorter.
LEMMA ServedShorter ==
    ASSUME NEW c, NEW g, NEW G, NEW d, NEW h, c \in Coordinator, Served(c, g, G, d, h)
    PROVE  Shorter(c, d)
  <1> SUFFICES ASSUME NEW k \in Keys
               PROVE  \E f \in [1..Len(d.queue[k]) -> 1..Len(c.queue[k])] :
                         /\ \A i \in 1..Len(d.queue[k]) : d.queue[k][i] = c.queue[k][f[i]]
                         /\ \A i, j \in 1..Len(d.queue[k]) : f[i] = f[j] => i = j
    BY DEF Shorter
  <1>1. d \in Coordinator /\ d.queue[k] \in Seq(Shards) /\ c.queue[k] \in Seq(Shards)
    BY Parts DEF Served
  <1>2. CASE k \in G
    <2>1. c.queue[k] # <<>> /\ d.queue[k] = Tail(c.queue[k])
      BY <1>2 DEF Served
    <2>2. \A i \in 1..Len(d.queue[k]) : i + 1 \in 1..Len(c.queue[k]) /\ d.queue[k][i] = c.queue[k][i + 1]
      BY <1>1, <2>1, TailOf
    <2> DEFINE f == [i \in 1..Len(d.queue[k]) |-> i + 1]
    <2>3. f \in [1..Len(d.queue[k]) -> 1..Len(c.queue[k])]
      BY <2>2
    <2>4. \A i \in 1..Len(d.queue[k]) : d.queue[k][i] = c.queue[k][f[i]]
      BY <2>2
    <2>5. \A i, j \in 1..Len(d.queue[k]) : f[i] = f[j] => i = j
      OBVIOUS
    <2> HIDE DEF f
    <2> QED BY <2>3, <2>4, <2>5
  <1>3. CASE k \notin G
    <2> DEFINE f == [i \in 1..Len(d.queue[k]) |-> i]
    <2>1. d.queue[k] = c.queue[k]
      BY <1>3 DEF Served, SameAt
    <2>2. f \in [1..Len(d.queue[k]) -> 1..Len(c.queue[k])]
      BY <2>1
    <2>3. \A i \in 1..Len(d.queue[k]) : d.queue[k][i] = c.queue[k][f[i]]
      BY <2>1
    <2>4. \A i, j \in 1..Len(d.queue[k]) : f[i] = f[j] => i = j
      OBVIOUS
    <2> HIDE DEF f
    <2> QED BY <2>2, <2>3, <2>4
  <1> QED BY <1>2, <1>3

\* Who is served waited at the head of the queue of its key, and waits no more.
LEMMA ServedHeads ==
    ASSUME NEW c, NEW g, NEW G, NEW d, NEW h, c \in Coordinator, Lined(c), Served(c, g, G, d, h)
    PROVE  /\ h \subseteq g \cup Shards
           /\ g \subseteq h
           /\ \A k \in G : d.holder[k] \in h /\ d.holder[k] \in Shards /\ KeyOf(d.holder[k]) = k
           /\ \A s \in h : s \in g \/ (KeyOf(s) \in G /\ d.holder[KeyOf(s)] = s
                                       /\ Waits(c, s) /\ ~Waits(d, s))
  <1>1. ASSUME NEW k \in G
        PROVE  /\ d.holder[k] = Head(c.queue[k]) /\ d.holder[k] \in Shards
               /\ KeyOf(d.holder[k]) = k
               /\ Waits(c, d.holder[k]) /\ ~Waits(d, d.holder[k])
    <2>1. k \in Keys /\ c.queue[k] \in Seq(Shards) /\ c.queue[k] # <<>>
          /\ d.queue[k] = Tail(c.queue[k]) /\ d.holder[k] = Head(c.queue[k])
      BY Parts DEF Served
    <2>2. /\ 1 \in 1..Len(c.queue[k]) /\ Head(c.queue[k]) = c.queue[k][1] /\ Head(c.queue[k]) \in Shards
          /\ \A i \in 1..Len(d.queue[k]) : i + 1 \in 1..Len(c.queue[k]) /\ d.queue[k][i] = c.queue[k][i + 1]
      BY <2>1, TailOf
    <2>3. KeyOf(d.holder[k]) = k /\ \A j \in 1..Len(c.queue[k]) : c.queue[k][1] = c.queue[k][j] => j = 1
      BY <2>1, <2>2 DEF Lined
    <2>4. Waits(c, d.holder[k])
      BY <2>1, <2>2, <2>3 DEF Waits
    <2>5. ~Waits(d, d.holder[k])
      <3> SUFFICES ASSUME NEW i \in 1..Len(d.queue[k]), d.queue[k][i] = d.holder[k] PROVE FALSE
        BY <2>3 DEF Waits
      <3>1. i + 1 \in 1..Len(c.queue[k]) /\ c.queue[k][i + 1] = c.queue[k][1]
        BY <2>1, <2>2
      <3>2. i + 1 = 1
        BY <2>3, <3>1
      <3>3. i \in Nat /\ i >= 1
        OBVIOUS
      <3> QED BY <3>2, <3>3
    <2> QED BY <2>1, <2>2, <2>3, <2>4, <2>5
  <1>2. h = g \cup {Head(c.queue[k]) : k \in G}
    BY DEF Served
  <1>3. \A s \in h : s \in g \/ \E k \in G : s = d.holder[k]
    BY <1>1, <1>2
  <1>4. \A k \in G : d.holder[k] \in h
    BY <1>1, <1>2
  <1> QED BY <1>1, <1>2, <1>3, <1>4

LEMMA PumpSound ==
    ASSUME NEW c, NEW g, NEW G, NEW d, NEW h, NEW sh, Sound(c, g, sh), Served(c, g, G, d, h)
    PROVE  Sound(d, h, sh)
  <1>1. /\ c \in Coordinator /\ Lined(c) /\ Asked(c, g, sh) /\ g \subseteq Shards
        /\ \A k \in Keys : HoldsAt(c, g, sh, k)
    BY DEF Sound, Formed
  <1>2. /\ h \subseteq g \cup Shards
        /\ g \subseteq h
        /\ \A k \in G : d.holder[k] \in h /\ d.holder[k] \in Shards /\ KeyOf(d.holder[k]) = k
        /\ \A s \in h : s \in g \/ (KeyOf(s) \in G /\ d.holder[KeyOf(s)] = s
                                    /\ Waits(c, s) /\ ~Waits(d, s))
    BY <1>1, ServedHeads
  <1>3. Lined(d) /\ \A s \in Shards : Waits(d, s) => Waits(c, s)
    BY <1>1, ServedShorter, ShorterLined
  <1>4. Asked(d, h, sh)
    BY <1>1, <1>2, <1>3 DEF Asked
  <1>5. ASSUME NEW k \in Keys, d.holder[k] # Nobody
        PROVE  /\ KeyOf(d.holder[k]) = k
               /\ d.holder[k] \in h => d.hold[k] = HoldTimeout
               /\ d.holder[k] \in h \/ sh[d.holder[k]].starting
    <2>1. CASE k \in G
      BY <1>2, <2>1 DEF Served
    <2>2. CASE k \notin G
      <3>1. d.holder[k] = c.holder[k] /\ d.hold[k] = c.hold[k]
        BY <2>2 DEF Served, SameAt
      <3>2. /\ KeyOf(c.holder[k]) = k
            /\ c.holder[k] \in g => c.hold[k] = HoldTimeout
            /\ c.holder[k] \in g \/ sh[c.holder[k]].starting
        BY <1>1, <1>5, <3>1 DEF HoldsAt
      <3> QED BY <1>2, <2>2, <3>1, <3>2
    <2> QED BY <2>1, <2>2
  <1>6. ASSUME NEW s \in h, sh[s].ask = "start"
        PROVE  d.holder[KeyOf(s)] = s
    <2>1. CASE s \in g
      <3>1. c.holder[KeyOf(s)] = s /\ s \in Shards /\ KeyOf(s) \in Keys
        BY <1>1, <1>6, <2>1, Constants DEF HoldsAt
      <3>2. KeyOf(s) \notin G
        BY <3>1, Constants DEF Served
      <3> QED BY <3>1, <3>2 DEF Served, SameAt
    <2> QED BY <1>2, <2>1
  <1>7. \A k \in Keys : HoldsAt(d, h, sh, k)
    BY <1>5, <1>6 DEF HoldsAt
  <1>8. d \in Coordinator
    BY DEF Served
  <1> QED BY <1>1, <1>2, <1>3, <1>4, <1>7, <1>8 DEF Sound, Formed

LEMMA PumpPacing ==
    ASSUME NEW c, NEW g, NEW G, NEW d, NEW h, NEW sh, NEW r, Formed(c, g, sh),
           Pacing(c, g, sh, r), Served(c, g, G, d, h)
    PROVE  Pacing(d, h, sh, r)
  <1>1. /\ c \in Coordinator /\ Lined(c) /\ g \subseteq Shards
        /\ r \in [Keys -> 0..Interval] /\ Sole(c, g, sh, r) /\ Rests(c, r) /\ Timed(c, sh)
    BY DEF Formed, Pacing
  <1>2. /\ g \subseteq h
        /\ \A k \in G : d.holder[k] \in Shards
        /\ \A s \in h : s \in g \/ (KeyOf(s) \in G /\ d.holder[KeyOf(s)] = s)
    BY <1>1, ServedHeads
  <1>3. \A k \in G : k \in Keys /\ c.holder[k] = Nobody /\ c.rest[k] = 0
    BY DEF Served
  <1>4. \A k \in Keys \ G : d.holder[k] = c.holder[k] /\ d.hold[k] = c.hold[k]
    BY DEF Served, SameAt
  <1>5. d.rest = c.rest
    BY DEF Served
  <1>6. \A k \in G : r[k] = 0
    <2>1. \A k \in G : r[k] \in Nat /\ r[k] <= 0
      BY <1>1, <1>3 DEF Rests
    <2> QED BY <2>1
  <1>7. \A s \in Shards : May(g, sh, s) => KeyOf(s) \notin G
    <2> SUFFICES ASSUME NEW s \in Shards, May(g, sh, s), KeyOf(s) \in G PROVE FALSE
      OBVIOUS
    <2>1. c.holder[KeyOf(s)] = Nobody /\ c.rest[KeyOf(s)] = 0 /\ s # Nobody /\ Interval # 0
      BY <1>3, Constants
    <2> QED BY <1>1, <2>1 DEF Sole
  <1>8. Sole(d, h, sh, r)
    <2> SUFFICES ASSUME NEW s \in Shards, May(h, sh, s)
                 PROVE  /\ r[KeyOf(s)] = 0
                        /\ \/ d.holder[KeyOf(s)] = s
                           \/ d.holder[KeyOf(s)] = Nobody /\ d.rest[KeyOf(s)] = Interval /\ Urgent(h, sh, s)
                        /\ \A t \in Shards : May(h, sh, t) /\ KeyOf(t) = KeyOf(s) => t = s
      BY DEF Sole
    <2>1. \A t \in Shards : May(h, sh, t) =>
             May(g, sh, t) \/ (KeyOf(t) \in G /\ d.holder[KeyOf(t)] = t)
      BY <1>2 DEF May
    <2>2. CASE May(g, sh, s)
      <3>1. KeyOf(s) \in Keys \ G
        BY <1>7, <2>2, Constants
      <3>2. Urgent(g, sh, s) => Urgent(h, sh, s)
        BY <1>2 DEF Urgent
      <3>3. \A t \in Shards : May(h, sh, t) /\ KeyOf(t) = KeyOf(s) => May(g, sh, t)
        BY <2>1, <3>1
      <3> QED BY <1>1, <1>4, <1>5, <2>2, <3>1, <3>2, <3>3 DEF Sole
    <2>3. CASE ~May(g, sh, s)
      <3>1. KeyOf(s) \in G /\ d.holder[KeyOf(s)] = s
        BY <2>1, <2>3
      <3>2. \A t \in Shards : May(h, sh, t) /\ KeyOf(t) = KeyOf(s) => t = s
        BY <1>7, <2>1, <3>1
      <3> QED BY <1>6, <3>1, <3>2
    <2> QED BY <2>2, <2>3
  <1>9. Rests(d, r)
    BY <1>1, <1>2, <1>4, <1>5, Constants DEF Rests
  <1>10. Timed(d, sh)
    <2>1. \A s \in Shards : sh[s].paced => KeyOf(s) \in Keys \ G
      BY <1>7, Constants DEF May
    <2> QED BY <1>1, <1>4, <2>1 DEF Timed
  <1> QED BY <1>1, <1>8, <1>9, <1>10 DEF Pacing

LEMMA PendingFinite ==
    ASSUME NEW g, NEW sh
    PROVE  /\ Pending(g, sh) \in SUBSET Keys /\ IsFiniteSet(Pending(g, sh))
           /\ Cardinality(Pending(g, sh)) \in Nat
  <1>1. Pending(g, sh) \in SUBSET Keys
    BY DEF Pending
  <1>2. IsFiniteSet(Pending(g, sh))
    BY <1>1, Constants, FS_Subset
  <1> QED BY <1>1, <1>2, FS_CardinalityType

LEMMA PumpBudgeted ==
    ASSUME NEW c, NEW g, NEW G, NEW d, NEW h, NEW sh, NEW n, NEW m, Formed(c, g, sh),
           Budgeted(c, g, sh, n, m), Served(c, g, G, d, h)
    PROVE  Budgeted(d, h, sh, n, m)
  <1>1. c \in Coordinator /\ Lined(c) /\ n \in Nat /\ m \in Nat
    BY DEF Formed, Budgeted
  <1>2. \A s \in h : s \in g \/ KeyOf(s) \in G
    BY <1>1, ServedHeads
  <1> DEFINE P == Pending(g, sh)
             Q == Pending(h, sh)
  <1>3. /\ P \in SUBSET Keys /\ IsFiniteSet(P) /\ Cardinality(P) \in Nat
        /\ Q \in SUBSET Keys /\ IsFiniteSet(Q) /\ Cardinality(Q) \in Nat
    BY PendingFinite
  <1>4. Q \in SUBSET (P \cup G)
    BY <1>2 DEF Pending, May
  <1>5. G \in SUBSET Keys /\ ~d.refill /\ d.remaining = Left(c) - Cardinality(G)
    BY DEF Served
  <1>6. IsFiniteSet(G)
    BY <1>5, Constants, FS_Subset
  <1> HIDE DEF P, Q
  <1>7. /\ IsFiniteSet(P \cup G) /\ Cardinality(G) \in Nat /\ Cardinality(P \cap G) \in Nat
        /\ Cardinality(P \cup G) = Cardinality(P) + Cardinality(G) - Cardinality(P \cap G)
    <2>1. IsFiniteSet(P \cap G)
      BY <1>3, FS_Subset
    <2> QED BY <1>3, <1>6, <2>1, FS_Union, FS_CardinalityType
  <1>8. Cardinality(Q) <= Cardinality(P \cup G)
    BY <1>4, <1>7, FS_Subset
  <1>9. n + Cardinality(P) + Left(c) <= Total + m
    BY DEF Budgeted, P
  <1>10. Left(c) \in Nat /\ Left(d) = Left(c) - Cardinality(G)
    BY <1>1, <1>5, Parts, Constants DEF Left
  <1>11. n + Cardinality(Q) + Left(d) <= Total + m
    BY <1>1, <1>3, <1>7, <1>8, <1>9, <1>10, Constants
  <1> QED BY <1>1, <1>11 DEF Budgeted, Q

-----------------------------------------------------------------------------
(* A slot that is freed, asked for, or lost with its cluster.              *)

\* The holder of key k is of no concern once it is free.
LEMMA FreeSound ==
    ASSUME NEW c, NEW g, NEW sh, NEW k \in Keys, NEW d, d = Free(c, k), Formed(c, g, sh),
           \A j \in Keys \ {k} : HoldsAt(c, g, sh, j),
           \A s \in g : KeyOf(s) = k => sh[s].ask # "start"
    PROVE  Sound(d, g, sh)
  <1>1. c \in Coordinator /\ Lined(c) /\ Asked(c, g, sh)
    BY DEF Formed
  <1>2. /\ d \in Coordinator
        /\ d.queue = c.queue /\ d.holder[k] = Nobody
        /\ \A j \in Keys \ {k} : SameAt(c, d, j)
    BY <1>1, FreeOf
  <1>3. Lined(d) /\ Asked(d, g, sh)
    BY <1>1, <1>2 DEF Lined, Asked, Waits
  <1>4. HoldsAt(d, g, sh, k)
    BY <1>2 DEF HoldsAt
  <1>5. ASSUME NEW j \in Keys \ {k} PROVE HoldsAt(d, g, sh, j)
    BY <1>2, <1>5 DEF HoldsAt, SameAt
  <1> QED BY <1>2, <1>3, <1>4, <1>5 DEF Sound, Formed

LEMMA FreePacing ==
    ASSUME NEW c \in Coordinator, NEW g, NEW sh, NEW r, NEW k \in Keys, NEW d, d = Free(c, k),
           Pacing(c, g, sh, r),
           \A s \in Shards : May(g, sh, s) /\ KeyOf(s) = k => Urgent(g, sh, s)
    PROVE  Pacing(d, g, sh, r)
  <1>1. r \in [Keys -> 0..Interval] /\ Sole(c, g, sh, r) /\ Rests(c, r) /\ Timed(c, sh)
    BY DEF Pacing
  <1>2. /\ d.holder[k] = Nobody /\ d.rest[k] = Interval
        /\ \A j \in Keys \ {k} : SameAt(c, d, j)
    BY FreeOf
  <1>3. Sole(d, g, sh, r)
    <2> SUFFICES ASSUME NEW s \in Shards, May(g, sh, s)
                 PROVE  /\ r[KeyOf(s)] = 0
                        /\ \/ d.holder[KeyOf(s)] = s
                           \/ d.holder[KeyOf(s)] = Nobody /\ d.rest[KeyOf(s)] = Interval /\ Urgent(g, sh, s)
                        /\ \A t \in Shards : May(g, sh, t) /\ KeyOf(t) = KeyOf(s) => t = s
      BY DEF Sole
    <2>1. r[KeyOf(s)] = 0 /\ \A t \in Shards : May(g, sh, t) /\ KeyOf(t) = KeyOf(s) => t = s
      BY <1>1 DEF Sole
    <2>2. CASE KeyOf(s) = k
      BY <1>2, <2>1, <2>2
    <2>3. CASE KeyOf(s) # k
      BY <1>1, <1>2, <2>3, Constants DEF Sole, SameAt
    <2> QED BY <2>2, <2>3
  <1>4. Rests(d, r)
    <2>1. r[k] <= Interval
      BY <1>1, Constants
    <2> QED BY <1>1, <1>2, <2>1 DEF Rests, SameAt
  <1>5. Timed(d, sh)
    <2> SUFFICES ASSUME NEW s \in Shards, sh[s].paced, d.holder[KeyOf(s)] = s
                 PROVE  d.hold[KeyOf(s)] + sh[s].age >= HoldTimeout
      BY DEF Timed
    <2>1. KeyOf(s) \in Keys \ {k}
      BY <1>2, Constants
    <2> QED BY <1>1, <1>2, <2>1 DEF Timed, SameAt
  <1> QED BY <1>1, <1>3, <1>4, <1>5 DEF Pacing

LEMMA BudgetKept ==
    ASSUME NEW c, NEW d, NEW g, NEW sh, NEW n, NEW m, SameBudget(c, d), Budgeted(c, g, sh, n, m)
    PROVE  Budgeted(d, g, sh, n, m)
  BY DEF SameBudget, Budgeted, Left

\* What a release leaves, when the shard no longer needs the slot.
LEMMA ReleaseSound ==
    ASSUME NEW s \in Shards, NEW g, NEW sh, Formed(co, g, sh), Covered(co),
           \A k \in Keys \ {KeyOf(s)} : HoldsAt(co, g, sh, k),
           co.holder[KeyOf(s)] # s => HoldsAt(co, g, sh, KeyOf(s)),
           co.holder[KeyOf(s)] = s => \A t \in g : KeyOf(t) = KeyOf(s) => sh[t].ask # "start",
           Release(s, g)
    PROVE  Sound(co', granted', sh) /\ Covered(co')
  <1>1. KeyOf(s) \in Keys /\ co \in Coordinator
    BY Constants DEF Formed
  <1>2. CASE co.holder[KeyOf(s)] = s
    <2> DEFINE f == Free(co, KeyOf(s))
    <2>1. Sound(f, g, sh)
      BY <1>1, <1>2, FreeSound
    <2>2. Pump(f, g)
      BY <1>2 DEF Release
    <2> HIDE DEF f
    <2>3. PICK G : Served(f, g, G, co', granted')
      BY <2>1, <2>2, PumpOf DEF Sound, Formed
    <2> QED BY <2>1, <2>3, PumpSound DEF Served
  <1>3. CASE co.holder[KeyOf(s)] # s
    <2>1. co' = co /\ granted' = g
      BY <1>3 DEF Release
    <2>2. \A k \in Keys : HoldsAt(co, g, sh, k)
      BY <1>3
    <2>3. Sound(co, g, sh)
      BY <2>2 DEF Sound
    <2> QED BY <2>1, <2>3
  <1> QED BY <1>2, <1>3

LEMMA ReleasePacing ==
    ASSUME NEW s \in Shards, NEW g, NEW sh, NEW r, NEW n, NEW m, Formed(co, g, sh),
           Pacing(co, g, sh, r), Budgeted(co, g, sh, n, m),
           co.holder[KeyOf(s)] = s =>
              \A t \in Shards : May(g, sh, t) /\ KeyOf(t) = KeyOf(s) => Urgent(g, sh, t),
           Release(s, g)
    PROVE  Pacing(co', granted', sh, r) /\ Budgeted(co', granted', sh, n, m)
  <1>1. KeyOf(s) \in Keys /\ co \in Coordinator
    BY Constants DEF Formed
  <1>2. CASE co.holder[KeyOf(s)] = s
    <2> DEFINE f == Free(co, KeyOf(s))
    <2>1. Pacing(f, g, sh, r)
      BY <1>1, <1>2, FreePacing
    <2>2. f \in Coordinator /\ SameBudget(co, f) /\ f.queue = co.queue
      BY <1>1, FreeOf
    <2>3. Pump(f, g)
      BY <1>2 DEF Release
    <2> HIDE DEF f
    <2>4. Formed(f, g, sh)
      BY <2>2 DEF Formed, Lined, Asked, Waits
    <2>5. Budgeted(f, g, sh, n, m)
      BY <2>2, BudgetKept
    <2>6. PICK G : Served(f, g, G, co', granted')
      BY <2>2, <2>3, PumpOf
    <2> QED BY <2>1, <2>4, <2>5, <2>6, PumpPacing, PumpBudgeted
  <1>3. CASE co.holder[KeyOf(s)] # s
    <2>1. co' = co /\ granted' = g
      BY <1>3 DEF Release
    <2> QED BY <2>1
  <1> QED BY <1>2, <1>3

\* A shard that asks for nothing asks for a slot.
LEMMA EnqueueSound ==
    ASSUME NEW c, NEW g, NEW sh, NEW s \in Shards, NEW sh2 \in [Shards -> Shard], NEW d,
           d = Enqueue(c, s), Sound(c, g, sh), sh[s].ask = "none",
           \A t \in Shards \ {s} : sh2[t] = sh[t],
           sh2[s].ask # "none", sh[s].starting => sh2[s].starting, Shaped(sh2[s])
    PROVE  Sound(d, g, sh2)
  <1>1. /\ c \in Coordinator /\ g \subseteq Shards /\ Lined(c) /\ Asked(c, g, sh)
        /\ \A t \in Shards : Shaped(sh[t])
        /\ \A k \in Keys : HoldsAt(c, g, sh, k)
    BY DEF Sound, Formed
  <1>2. /\ d \in Coordinator
        /\ d.holder = c.holder /\ d.hold = c.hold
        /\ d.queue[KeyOf(s)] = Append(c.queue[KeyOf(s)], s)
        /\ \A j \in Keys \ {KeyOf(s)} : d.queue[j] = c.queue[j]
    BY <1>1, EnqueueOf
  <1>3. s \notin g /\ ~Waits(c, s)
    BY <1>1 DEF Asked
  <1> DEFINE k == KeyOf(s)
             q == c.queue[k]
  <1>4. k \in Keys /\ q \in Seq(Shards) /\ Len(q) \in Nat
    <2>1. k \in Keys
      BY Constants
    <2>2. c.queue \in [Keys -> Seq(Shards)]
      BY <1>1, Parts
    <2>3. q \in Seq(Shards)
      BY <2>1, <2>2
    <2> QED BY <2>1, <2>3, LenProperties
  <1>5. /\ Len(d.queue[k]) = Len(q) + 1
        /\ \A i \in 1..Len(q) + 1 : d.queue[k][i] = IF i <= Len(q) THEN q[i] ELSE s
    BY <1>2, <1>4
  <1>6. \A i \in 1..Len(q) : q[i] # s /\ KeyOf(q[i]) = k
    BY <1>1, <1>3, <1>4 DEF Waits, Lined
  <1>7. \A i, j \in 1..Len(q) : q[i] = q[j] => i = j
    BY <1>1, <1>4 DEF Lined
  <1> HIDE DEF q
  <1>8. \A i, j \in 1..Len(q) + 1 :
           /\ KeyOf(d.queue[k][i]) = k
           /\ d.queue[k][i] = d.queue[k][j] => i = j
    <2> SUFFICES ASSUME NEW i \in 1..Len(q) + 1, NEW j \in 1..Len(q) + 1
                 PROVE  KeyOf(d.queue[k][i]) = k /\ (d.queue[k][i] = d.queue[k][j] => i = j)
      OBVIOUS
    <2>1. (i \in 1..Len(q) \/ i = Len(q) + 1) /\ (j \in 1..Len(q) \/ j = Len(q) + 1)
      BY <1>4
    <2>2. i \in 1..Len(q) => d.queue[k][i] = q[i]
      BY <1>4, <1>5
    <2>3. j \in 1..Len(q) => d.queue[k][j] = q[j]
      BY <1>4, <1>5
    <2>4. d.queue[k][Len(q) + 1] = s
      BY <1>4, <1>5
    <2> QED BY <1>6, <1>7, <2>1, <2>2, <2>3, <2>4
  <1>9. Lined(d)
    <2> SUFFICES ASSUME NEW j \in Keys, NEW i \in 1..Len(d.queue[j])
                 PROVE  /\ KeyOf(d.queue[j][i]) = j
                        /\ \A l \in 1..Len(d.queue[j]) : d.queue[j][i] = d.queue[j][l] => i = l
      BY DEF Lined
    <2>1. CASE j = k
      BY <1>5, <1>8, <2>1
    <2>2. CASE j # k
      <3>1. d.queue[j] = c.queue[j]
        BY <1>2, <2>2
      <3> QED BY <1>1, <3>1 DEF Lined
    <2> QED BY <2>1, <2>2
  <1>10. ASSUME NEW t \in Shards, t # s, Waits(d, t) PROVE Waits(c, t)
    <2>1. PICK i \in 1..Len(d.queue[KeyOf(t)]) : d.queue[KeyOf(t)][i] = t
      BY <1>10 DEF Waits
    <2>2. CASE KeyOf(t) = k
      <3>1. i \in 1..Len(q) /\ q[i] = t
        BY <1>4, <1>5, <1>10, <2>1, <2>2
      <3> QED BY <2>2, <3>1 DEF Waits, q
    <2>3. CASE KeyOf(t) # k
      BY <1>2, <2>1, <2>3, Constants DEF Waits
    <2> QED BY <2>2, <2>3
  <1>11. Asked(d, g, sh2)
    BY <1>1, <1>3, <1>10 DEF Asked
  <1>12. \A t \in Shards : Shaped(sh2[t])
    BY <1>1
  <1>13. ASSUME NEW j \in Keys PROVE HoldsAt(d, g, sh2, j)
    <2>1. HoldsAt(c, g, sh, j) /\ c.holder[j] \in Shards \cup {Nobody}
      BY <1>1, Parts
    <2>2. c.holder[j] \in Shards /\ sh[c.holder[j]].starting => sh2[c.holder[j]].starting
      OBVIOUS
    <2>3. \A t \in g : sh2[t] = sh[t]
      BY <1>1, <1>3
    <2> QED BY <1>2, <2>1, <2>2, <2>3 DEF HoldsAt
  <1> QED BY <1>1, <1>2, <1>9, <1>11, <1>12, <1>13 DEF Sound, Formed

\* Pacing speaks of shards only by what they may still do.
LEMMA PacingKept ==
    ASSUME NEW c, NEW d, NEW g, NEW sh, NEW sh2, NEW r, NEW n, NEW m,
           Pacing(c, g, sh, r), Budgeted(c, g, sh, n, m), SameBudget(c, d),
           d.holder = c.holder, d.hold = c.hold, d.rest = c.rest,
           \A s \in Shards : /\ sh2[s].paced <=> sh[s].paced
                             /\ sh2[s].paced => sh2[s].age = sh[s].age
    PROVE  Pacing(d, g, sh2, r) /\ Budgeted(d, g, sh2, n, m)
  <1>1. \A s \in Shards : May(g, sh2, s) <=> May(g, sh, s)
    BY DEF May
  <1>2. \A s \in Shards : May(g, sh, s) /\ Urgent(g, sh, s) => Urgent(g, sh2, s)
    BY DEF May, Urgent
  <1>3. Sole(d, g, sh2, r)
    BY <1>1, <1>2 DEF Pacing, Sole
  <1>4. Rests(d, r) /\ Timed(d, sh2)
    BY DEF Pacing, Rests, Timed
  <1>5. Pending(g, sh2) = Pending(g, sh)
    BY <1>1 DEF Pending
  <1> QED BY <1>3, <1>4, <1>5, BudgetKept DEF Pacing, Budgeted

\* A cluster is gone: o's shards are down, and nobody waits or holds for them.
Gone(sh, o) == [s \in Shards |-> IF OwnerOf[s] = o THEN Down ELSE sh[s]]

LEMMA DownOf == Down \in Shard /\ Shaped(Down)
  <1>1. Down \in Shard
    BY Constants DEF Down, Shard
  <1> QED BY <1>1 DEF Down, Shaped

LEMMA GoneOf ==
    ASSUME NEW sh \in [Shards -> Shard], NEW o, NEW x, x = Gone(sh, o)
    PROVE  /\ x \in [Shards -> Shard]
           /\ \A s \in Shards : x[s] = IF OwnerOf[s] = o THEN Down ELSE sh[s]
  BY DownOf DEF Gone

LEMMA DropSound ==
    ASSUME NEW c, NEW g, NEW sh, NEW o, NEW d, d = Drop(c, o), NEW x, x = Gone(sh, o),
           NEW h, h = {s \in g : OwnerOf[s] # o}, Sound(c, g, sh)
    PROVE  Sound(d, h, x)
  <1>1. /\ c \in Coordinator /\ g \subseteq Shards /\ sh \in [Shards -> Shard]
        /\ Lined(c) /\ Asked(c, g, sh)
        /\ \A t \in Shards : Shaped(sh[t])
        /\ \A k \in Keys : HoldsAt(c, g, sh, k)
    BY DEF Sound, Formed
  <1>2. /\ d \in Coordinator
        /\ \A k \in Keys :
              /\ d.queue[k] = Keep(c.queue[k], o)
              /\ IF c.holder[k] # Nobody /\ OwnerOf[c.holder[k]] = o
                 THEN d.holder[k] = Nobody
                 ELSE d.holder[k] = c.holder[k] /\ d.hold[k] = c.hold[k]
    BY <1>1, DropOf
  <1>3. /\ x \in [Shards -> Shard]
        /\ \A s \in Shards : x[s] = IF OwnerOf[s] = o THEN Down ELSE sh[s]
    BY <1>1, GoneOf
  <1>4. \A k \in Keys : c.queue[k] \in Seq(Shards) /\ c.holder[k] \in Shards \cup {Nobody}
    BY <1>1, Parts
  <1>5. Shorter(c, d)
    BY <1>2, <1>4, KeepOf DEF Shorter
  <1>6. Lined(d) /\ \A s \in Shards : Waits(d, s) => Waits(c, s)
    BY <1>1, <1>5, ShorterLined
  <1>7. ASSUME NEW s \in Shards, Waits(d, s) PROVE OwnerOf[s] # o
    <2>1. KeyOf(s) \in Keys
      BY Constants
    <2>2. PICK i \in 1..Len(d.queue[KeyOf(s)]) : d.queue[KeyOf(s)][i] = s
      BY <1>7 DEF Waits
    <2>3. d.queue[KeyOf(s)] = Keep(c.queue[KeyOf(s)], o) /\ c.queue[KeyOf(s)] \in Seq(Shards)
      BY <1>2, <1>4, <2>1
    <2>4. \A n \in 1..Len(Keep(c.queue[KeyOf(s)], o)) : OwnerOf[Keep(c.queue[KeyOf(s)], o)[n]] # o
      BY <2>3, KeepOf
    <2> QED BY <2>2, <2>3, <2>4
  <1>8. Asked(d, h, x)
    BY <1>1, <1>3, <1>6, <1>7 DEF Asked
  <1>9. \A s \in Shards : Shaped(x[s])
    BY <1>1, <1>3, DownOf
  <1>10. ASSUME NEW k \in Keys PROVE HoldsAt(d, h, x, k)
    <2>1. HoldsAt(c, g, sh, k) /\ c.holder[k] \in Shards \cup {Nobody}
      BY <1>1, <1>4
    <2>2. \A s \in h : s \in g /\ s \in Shards /\ OwnerOf[s] # o /\ x[s] = sh[s]
      BY <1>1, <1>3
    <2>3. CASE c.holder[k] # Nobody /\ OwnerOf[c.holder[k]] = o
      <3>1. d.holder[k] = Nobody
        BY <1>2, <2>3
      <3>2. \A s \in h : KeyOf(s) = k => x[s].ask # "start"
        BY <2>1, <2>2, <2>3 DEF HoldsAt
      <3> QED BY <3>1, <3>2 DEF HoldsAt
    <2>4. CASE ~(c.holder[k] # Nobody /\ OwnerOf[c.holder[k]] = o)
      <3>1. d.holder[k] = c.holder[k] /\ d.hold[k] = c.hold[k]
        BY <1>2, <2>4
      <3>2. c.holder[k] # Nobody =>
               /\ c.holder[k] \in Shards /\ OwnerOf[c.holder[k]] # o /\ x[c.holder[k]] = sh[c.holder[k]]
               /\ c.holder[k] \in g <=> c.holder[k] \in h
        BY <1>3, <2>1, <2>4
      <3> QED BY <2>1, <2>2, <3>1, <3>2 DEF HoldsAt
    <2> QED BY <2>3, <2>4
  <1> QED BY <1>1, <1>2, <1>3, <1>6, <1>8, <1>9, <1>10 DEF Sound, Formed

LEMMA DropPacing ==
    ASSUME NEW c \in Coordinator, NEW g, NEW sh \in [Shards -> Shard], NEW r, NEW n, NEW m,
           NEW o, NEW d, d = Drop(c, o), NEW x, x = Gone(sh, o),
           NEW h, h = {s \in g : OwnerOf[s] # o},
           Pacing(c, g, sh, r), Budgeted(c, g, sh, n, m)
    PROVE  Pacing(d, h, x, r) /\ Budgeted(d, h, x, n, m)
  <1>1. /\ d \in Coordinator /\ SameBudget(c, d)
        /\ \A k \in Keys :
              IF c.holder[k] # Nobody /\ OwnerOf[c.holder[k]] = o
              THEN d.holder[k] = Nobody /\ d.hold[k] = 0 /\ d.rest[k] = Interval
              ELSE d.holder[k] = c.holder[k] /\ d.hold[k] = c.hold[k] /\ d.rest[k] = c.rest[k]
    BY DropOf
  <1>2. \A s \in Shards : x[s] = IF OwnerOf[s] = o THEN Down ELSE sh[s]
    BY GoneOf
  <1>3. \A s \in Shards : May(h, x, s) => OwnerOf[s] # o /\ May(g, sh, s) /\ x[s] = sh[s]
    BY <1>2 DEF May, Down
  <1>4. r \in [Keys -> 0..Interval] /\ Sole(c, g, sh, r) /\ Rests(c, r) /\ Timed(c, sh)
    BY DEF Pacing
  <1>5. Sole(d, h, x, r)
    <2> SUFFICES ASSUME NEW s \in Shards, May(h, x, s)
                 PROVE  /\ r[KeyOf(s)] = 0
                        /\ \/ d.holder[KeyOf(s)] = s
                           \/ d.holder[KeyOf(s)] = Nobody /\ d.rest[KeyOf(s)] = Interval /\ Urgent(h, x, s)
                        /\ \A t \in Shards : May(h, x, t) /\ KeyOf(t) = KeyOf(s) => t = s
      BY DEF Sole
    <2>1. OwnerOf[s] # o /\ May(g, sh, s) /\ x[s] = sh[s] /\ KeyOf(s) \in Keys
      BY <1>3, Constants
    <2>2. /\ r[KeyOf(s)] = 0
          /\ \/ c.holder[KeyOf(s)] = s
             \/ c.holder[KeyOf(s)] = Nobody /\ c.rest[KeyOf(s)] = Interval /\ Urgent(g, sh, s)
          /\ \A t \in Shards : May(g, sh, t) /\ KeyOf(t) = KeyOf(s) => t = s
      BY <1>4, <2>1 DEF Sole
    <2>3. Urgent(g, sh, s) => Urgent(h, x, s)
      BY <2>1 DEF Urgent
    <2> QED BY <1>1, <1>3, <2>1, <2>2, <2>3
  <1>6. Rests(d, r)
    <2>1. \A k \in Keys : r[k] <= Interval
      BY <1>4, Constants
    <2> QED BY <1>1, <1>4, <2>1 DEF Rests
  <1>7. Timed(d, x)
    <2> SUFFICES ASSUME NEW s \in Shards, x[s].paced, d.holder[KeyOf(s)] = s
                 PROVE  d.hold[KeyOf(s)] + x[s].age >= HoldTimeout
      BY DEF Timed
    <2>1. x[s] = sh[s] /\ KeyOf(s) \in Keys /\ s # Nobody
      BY <1>3, Constants DEF May
    <2>2. c.holder[KeyOf(s)] = s /\ d.hold[KeyOf(s)] = c.hold[KeyOf(s)]
      BY <1>1, <2>1
    <2> QED BY <1>4, <2>1, <2>2 DEF Timed
  <1>8. Pending(h, x) \in SUBSET Pending(g, sh)
    BY <1>3 DEF Pending
  <1>9. Cardinality(Pending(h, x)) <= Cardinality(Pending(g, sh))
        /\ Cardinality(Pending(h, x)) \in Nat /\ Cardinality(Pending(g, sh)) \in Nat
    BY <1>8, PendingFinite, FS_Subset
  <1>10. Left(d) = Left(c) /\ Left(c) \in Nat
    BY <1>1, Parts, Constants DEF SameBudget, Left
  <1>11. Budgeted(d, h, x, n, m)
    BY <1>9, <1>10, Constants DEF Budgeted
  <1> QED BY <1>4, <1>5, <1>6, <1>7, <1>11 DEF Pacing

-----------------------------------------------------------------------------
(* A step of one shard.                                                    *)

LEMMA ShardFormed ==
    ASSUME NEW c, NEW g, NEW sh, NEW s \in Shards, NEW x \in [Shards -> Shard], NEW h,
           Formed(c, g, sh), h \in {g, g \ {s}},
           \A t \in Shards \ {s} : x[t] = sh[t], Shaped(x[s]),
           x[s].ask = "none" /\ sh[s].ask # "none" => s \in g /\ h = g \ {s}
    PROVE  Formed(c, h, x)
  <1>1. Asked(c, h, x)
    BY DEF Asked, Formed
  <1> QED BY <1>1 DEF Formed

LEMMA ShardHolds ==
    ASSUME NEW c, NEW g, NEW sh, NEW s \in Shards, NEW x, NEW h, NEW k \in Keys,
           c \in Coordinator, g \subseteq Shards, HoldsAt(c, g, sh, k), h \in {g, g \ {s}},
           \A t \in Shards \ {s} : x[t] = sh[t],
           c.holder[k] = s => x[s].starting \/ (h = g /\ s \in g),
           x[s].ask = "start" /\ s \in h => sh[s].ask = "start"
    PROVE  HoldsAt(c, h, x, k)
  <1>1. c.holder[k] \in Shards \cup {Nobody}
    BY Parts
  <1> QED BY <1>1 DEF HoldsAt

\* A step that leaves who holds a slot, and who starts, as it was.
LEMMA ShardSound ==
    ASSUME NEW c, NEW g, NEW sh, NEW s \in Shards, NEW x \in [Shards -> Shard],
           Sound(c, g, sh), \A t \in Shards \ {s} : x[t] = sh[t], Shaped(x[s]),
           x[s].ask = "none" => sh[s].ask = "none",
           x[s].ask = "start" => sh[s].ask = "start",
           sh[s].starting => x[s].starting
    PROVE  Sound(c, g, x)
  <1>1. Formed(c, g, sh) /\ c \in Coordinator /\ g \subseteq Shards
    BY DEF Sound, Formed
  <1>2. Formed(c, g, x)
    BY <1>1, ShardFormed
  <1>3. ASSUME NEW k \in Keys PROVE HoldsAt(c, g, x, k)
    <2>1. HoldsAt(c, g, sh, k)
      BY DEF Sound
    <2>2. c.holder[k] = s => x[s].starting \/ s \in g
      BY <2>1, Constants DEF HoldsAt
    <2> QED BY <1>1, <2>1, <2>2, ShardHolds
  <1> QED BY <1>2, <1>3 DEF Sound

\* A shard that might IDENTIFY no longer may; it has, if the window is open again.
LEMMA SpentPacing ==
    ASSUME NEW c, NEW g, NEW sh, NEW r, NEW n, NEW m, NEW s \in Shards, NEW h, NEW x, NEW u, NEW v,
           c \in Coordinator, Pacing(c, g, sh, r), Budgeted(c, g, sh, n, m),
           May(g, sh, s), ~May(h, x, s),
           \A t \in Shards \ {s} : x[t] = sh[t] /\ (t \in h <=> t \in g),
           \/ u = r /\ v = n
           \/ u = [r EXCEPT ![KeyOf(s)] = Interval] /\ v = n + 1
    PROVE  /\ Pacing(c, h, x, u) /\ Budgeted(c, h, x, v, m)
           /\ \A t \in Shards : May(h, x, t) => KeyOf(t) # KeyOf(s)
           /\ r[KeyOf(s)] = 0
  <1>1. r \in [Keys -> 0..Interval] /\ Sole(c, g, sh, r) /\ Rests(c, r) /\ Timed(c, sh)
    BY DEF Pacing
  <1> DEFINE k == KeyOf(s)
  <1>2. k \in Keys /\ s # Nobody
    BY Constants
  <1>3. /\ r[k] = 0
        /\ c.holder[k] = s \/ (c.holder[k] = Nobody /\ c.rest[k] = Interval)
        /\ \A t \in Shards : May(g, sh, t) /\ KeyOf(t) = k => t = s
    BY <1>1 DEF Sole
  <1>4. \A t \in Shards : May(h, x, t) => t # s /\ May(g, sh, t) /\ x[t] = sh[t]
    BY DEF May
  <1>5. \A t \in Shards : May(h, x, t) => KeyOf(t) # k
    BY <1>3, <1>4
  <1> HIDE DEF k
  <1>6. /\ u \in [Keys -> 0..Interval]
        /\ \A j \in Keys : u[j] = r[j] \/ (j = k /\ u[j] = Interval)
        /\ \A j \in Keys \ {k} : u[j] = r[j]
    <2>1. Interval \in 0..Interval
      BY Constants
    <2> QED BY <1>1, <1>2, <2>1 DEF k
  <1>7. Sole(c, h, x, u)
    <2> SUFFICES ASSUME NEW t \in Shards, May(h, x, t)
                 PROVE  /\ u[KeyOf(t)] = 0
                        /\ \/ c.holder[KeyOf(t)] = t
                           \/ c.holder[KeyOf(t)] = Nobody /\ c.rest[KeyOf(t)] = Interval /\ Urgent(h, x, t)
                        /\ \A w \in Shards : May(h, x, w) /\ KeyOf(w) = KeyOf(t) => w = t
      BY DEF Sole
    <2>1. t # s /\ May(g, sh, t) /\ x[t] = sh[t] /\ KeyOf(t) \in Keys \ {k}
      BY <1>4, <1>5, Constants
    <2>2. Urgent(g, sh, t) => Urgent(h, x, t)
      BY <2>1 DEF Urgent
    <2> QED BY <1>1, <1>4, <1>6, <2>1, <2>2 DEF Sole
  <1>8. Rests(c, u)
    <2> SUFFICES ASSUME NEW j \in Keys, c.holder[j] = Nobody PROVE u[j] <= c.rest[j]
      BY DEF Rests
    <2>1. CASE u[j] = r[j]
      BY <1>1, <2>1 DEF Rests
    <2>2. CASE j = k /\ u[j] = Interval
      BY <1>2, <1>3, <2>2, Constants
    <2> QED BY <1>6, <2>1, <2>2
  <1>9. Timed(c, x)
    <2>1. \A t \in Shards : x[t].paced => May(h, x, t)
      BY DEF May
    <2> QED BY <1>1, <1>4, <2>1 DEF Timed
  <1> DEFINE P == Pending(g, sh)
             Q == Pending(h, x)
  <1>10. k \in P /\ k \notin Q /\ Q \subseteq P
    <2>1. k \in P
      BY <1>2 DEF Pending, k
    <2>2. k \notin Q
      BY <1>5 DEF Pending
    <2>3. Q \subseteq P
      BY <1>4 DEF Pending
    <2> QED BY <2>1, <2>2, <2>3
  <1>11. IsFiniteSet(P) /\ Cardinality(P) \in Nat /\ IsFiniteSet(Q) /\ Cardinality(Q) \in Nat
    BY PendingFinite
  <1>12. n \in Nat /\ m \in Nat /\ n + Cardinality(P) + Left(c) <= Total + m
    BY DEF Budgeted
  <1>13. Left(c) \in Nat
    BY Parts, Constants DEF Left
  <1> HIDE DEF P, Q
  <1>14. Cardinality(Q) + 1 <= Cardinality(P)
    <2>1. IsFiniteSet(Q \cup {k}) /\ Cardinality(Q \cup {k}) = Cardinality(Q) + 1
      BY <1>10, <1>11, FS_AddElement
    <2>2. Q \cup {k} \in SUBSET P
      BY <1>10
    <2>3. Cardinality(Q \cup {k}) <= Cardinality(P)
      BY <1>11, <2>2, FS_Subset
    <2> QED BY <2>1, <2>3
  <1>15. v \in {n, n + 1} /\ v \in Nat
    BY <1>12
  <1>16. v + Cardinality(Q) + Left(c) <= Total + m
    BY <1>11, <1>12, <1>13, <1>14, <1>15, Constants
  <1> QED BY <1>3, <1>5, <1>6, <1>7, <1>8, <1>9, <1>12, <1>15, <1>16 DEF Pacing, Budgeted, k, Q

LEMMA Moved ==
    ASSUME NEW sh \in [Shards -> Shard], NEW s \in Shards, NEW y \in Shard, NEW x,
           x = [sh EXCEPT ![s] = y]
    PROVE  x \in [Shards -> Shard] /\ x[s] = y /\ \A t \in Shards \ {s} : x[t] = sh[t]
  OBVIOUS

LEMMA ShardParts ==
    ASSUME NEW y \in Shard
    PROVE  /\ y.starting \in BOOLEAN /\ y.paced \in BOOLEAN /\ y.session \in BOOLEAN
           /\ y.age \in 0..MaxHandshake
           /\ y.patience \in SUBSET (0..Longest(HandshakeTimeout, ReadyTimeout))
  BY DEF Shard

LEMMA StateOf ==
    ASSUME IInv
    PROVE  /\ Sound(co, granted, shard) /\ Formed(co, granted, shard) /\ Covered(co)
           /\ co \in Coordinator /\ granted \subseteq Shards /\ shard \in [Shards -> Shard]
           /\ Lined(co) /\ Asked(co, granted, shard)
           /\ \A s \in Shards : shard[s] \in Shard /\ Shaped(shard[s])
           /\ \A k \in Keys : HoldsAt(co, granted, shard, k)
  BY DEF IInv, Sound, Formed

LEMMA AcquireSound ==
    ASSUME IInv, NEW s \in Shards, NEW x \in [Shards -> Shard], shard[s].ask = "none",
           \A t \in Shards \ {s} : x[t] = shard[t],
           x[s].ask # "none", shard[s].starting => x[s].starting, Shaped(x[s]), Acquire(s)
    PROVE  /\ Sound(co', granted', x) /\ Covered(co')
           /\ Sound(Enqueue(co, s), granted, x)
           /\ \E G : Served(Enqueue(co, s), granted, G, co', granted')
  <1> DEFINE d == Enqueue(co, s)
  <1>1. Sound(co, granted, shard)
    BY DEF IInv
  <1>2. Sound(d, granted, x)
    BY <1>1, EnqueueSound
  <1>3. Pump(d, granted)
    BY DEF Acquire, Enqueue
  <1> HIDE DEF d
  <1>4. PICK G : Served(d, granted, G, co', granted')
    BY <1>2, <1>3, PumpOf DEF Sound, Formed
  <1>5. Sound(co', granted', x) /\ Covered(co')
    BY <1>2, <1>4, PumpSound DEF Served
  <1> QED BY <1>2, <1>4, <1>5 DEF d

LEMMA AcquirePacing ==
    ASSUME IInv, PInv, NEW s \in Shards, NEW x \in [Shards -> Shard], shard[s].ask = "none",
           \A t \in Shards \ {s} : x[t] = shard[t],
           x[s].ask # "none", shard[s].starting => x[s].starting, Shaped(x[s]), Acquire(s),
           shard[s].paced = x[s].paced, shard[s].age = x[s].age
    PROVE  Pacing(co', granted', x, recent) /\ Budgeted(co', granted', x, spent, carried)
  <1> DEFINE d == Enqueue(co, s)
  <1>1. co \in Coordinator
    BY StateOf
  <1>2. SameBudget(co, d) /\ d.holder = co.holder /\ d.hold = co.hold /\ d.rest = co.rest
    BY <1>1, EnqueueOf
  <1>3. Formed(d, granted, x) /\ \E G : Served(d, granted, G, co', granted')
    BY AcquireSound DEF Sound
  <1> HIDE DEF d
  <1>4. Pacing(co, granted, shard, recent) /\ Budgeted(co, granted, shard, spent, carried)
    BY DEF PInv
  <1>5. \A t \in Shards : /\ x[t].paced <=> shard[t].paced
                          /\ x[t].paced => x[t].age = shard[t].age
    OBVIOUS
  <1>6. Pacing(d, granted, x, recent) /\ Budgeted(d, granted, x, spent, carried)
    BY <1>2, <1>4, <1>5, PacingKept
  <1> QED BY <1>3, <1>6, PumpPacing, PumpBudgeted

\* A step of one shard that leaves the coordinator, and who may IDENTIFY, as they were.
LEMMA AloneStep ==
    ASSUME IInv, NEW s \in Shards, UNCHANGED <<co, granted>>, shard' \in [Shards -> Shard],
           \A t \in Shards \ {s} : shard'[t] = shard[t], Shaped(shard'[s]),
           shard'[s].ask = "none" => shard[s].ask = "none",
           shard'[s].ask = "start" => shard[s].ask = "start",
           shard[s].starting => shard'[s].starting
    PROVE  /\ IInv'
           /\ PInv /\ UNCHANGED <<recent, crowded, spent, carried>>
              /\ shard'[s].paced = shard[s].paced /\ shard'[s].age = shard[s].age => PInv'
  <1>1. Sound(co, granted, shard')
    BY StateOf, ShardSound
  <1>2. IInv'
    BY <1>1, StateOf DEF IInv
  <1>3. ASSUME PInv, UNCHANGED <<recent, crowded, spent, carried>>,
               shard'[s].paced = shard[s].paced, shard'[s].age = shard[s].age
        PROVE  PInv'
    <2>1. Pacing(co, granted, shard, recent) /\ Budgeted(co, granted, shard, spent, carried) /\ crowded = {}
      BY <1>3 DEF PInv
    <2>2. \A t \in Shards : /\ shard'[t].paced <=> shard[t].paced
                            /\ shard'[t].paced => shard'[t].age = shard[t].age
      BY <1>3
    <2>3. SameBudget(co, co)
      BY DEF SameBudget
    <2>4. Pacing(co, granted, shard', recent) /\ Budgeted(co, granted, shard', spent, carried)
      BY <2>1, <2>2, <2>3, PacingKept
    <2> QED BY <1>3, <2>1, <2>4 DEF PInv
  <1> QED BY <1>2, <1>3

-----------------------------------------------------------------------------
(* The actions.                                                            *)

LEMMA PumpTimerStep ==
    ASSUME IInv, PumpTimer
    PROVE  IInv' /\ (PInv => PInv')
  <1> DEFINE d == [co EXCEPT !.timer = {}]
  <1>1. d \in Coordinator /\ d.queue = co.queue /\ d.holder = co.holder /\ d.hold = co.hold
        /\ d.rest = co.rest /\ SameBudget(co, d)
    BY StateOf DEF Coordinator, SameBudget
  <1>2. Pump(d, granted) /\ UNCHANGED <<shard, history>>
    BY DEF PumpTimer
  <1> HIDE DEF d
  <1>3. Formed(d, granted, shard) /\ \A k \in Keys : HoldsAt(d, granted, shard, k)
    BY <1>1, StateOf DEF Formed, Lined, Asked, Waits, HoldsAt
  <1>4. PICK G : Served(d, granted, G, co', granted')
    BY <1>1, <1>2, PumpOf
  <1>5. IInv'
    BY <1>2, <1>3, <1>4, PumpSound DEF IInv, Sound, Served
  <1>6. ASSUME PInv PROVE PInv'
    <2>1. Pacing(d, granted, shard, recent) /\ Budgeted(d, granted, shard, spent, carried)
      BY <1>1, <1>6, PacingKept DEF PInv
    <2>2. Pacing(co', granted', shard, recent) /\ Budgeted(co', granted', shard, spent, carried)
      BY <1>3, <1>4, <2>1, PumpPacing, PumpBudgeted
    <2> QED BY <1>2, <1>6, <2>2 DEF PInv, history
  <1> QED BY <1>5, <1>6

LEMMA HoldExpiresStep ==
    ASSUME IInv, NEW k \in Keys, HoldExpires(k)
    PROVE  IInv' /\ (PInv /\ Prompt => PInv')
  <1> DEFINE d == Free(co, k)
  <1>1. co.holder[k] # Nobody /\ co.hold[k] = 0 /\ Pump(d, granted) /\ UNCHANGED <<shard, history>>
    BY DEF HoldExpires
  <1>2. co.holder[k] \notin granted
    BY <1>1, StateOf, Constants DEF HoldsAt
  <1>3. \A s \in granted : KeyOf(s) = k => shard[s].ask # "start"
    BY <1>2, StateOf DEF HoldsAt
  <1>4. Sound(d, granted, shard)
    BY <1>3, StateOf, FreeSound
  <1>5. SameBudget(co, d)
    BY StateOf, FreeOf
  <1> HIDE DEF d
  <1>6. PICK G : Served(d, granted, G, co', granted')
    BY <1>1, <1>4, PumpOf DEF Sound, Formed
  <1>7. IInv'
    BY <1>1, <1>4, <1>6, PumpSound DEF IInv, Served
  <1>8. ASSUME PInv, Prompt PROVE PInv'
    <2>1. Pacing(co, granted, shard, recent) /\ Budgeted(co, granted, shard, spent, carried) /\ crowded = {}
      BY <1>8 DEF PInv
    <2>2. ASSUME NEW s \in Shards, May(granted, shard, s), KeyOf(s) = k
          PROVE  Urgent(granted, shard, s)
      <3>1. co.holder[k] = s
        BY <1>1, <2>1, <2>2 DEF Pacing, Sole
      <3>2. shard[s].paced
        BY <1>2, <2>2, <3>1 DEF May
      <3>3. 0 + shard[s].age >= HoldTimeout /\ shard[s].age \in 0..MaxHandshake
        BY <1>1, <2>1, <2>2, <3>1, <3>2, StateOf, ShardParts DEF Pacing, Timed
      <3>4. shard[s].age = MaxHandshake
        BY <1>8, <3>3, Constants DEF Prompt
      <3> QED BY <3>4 DEF Urgent
    <2>3. Pacing(d, granted, shard, recent)
      BY <2>1, <2>2, StateOf, FreePacing DEF d
    <2>4. Budgeted(d, granted, shard, spent, carried)
      BY <1>5, <2>1, BudgetKept
    <2>5. Pacing(co', granted', shard, recent) /\ Budgeted(co', granted', shard, spent, carried)
      BY <1>4, <1>6, <2>3, <2>4, PumpPacing, PumpBudgeted DEF Sound
    <2> QED BY <1>1, <2>1, <2>5 DEF PInv, history
  <1> QED BY <1>7, <1>8

LEMMA StartShardStep ==
    ASSUME IInv, NEW s \in Shards, StartShard(s)
    PROVE  IInv' /\ (PInv => PInv')
  <1> DEFINE y == [shard[s] EXCEPT !.phase = "asking", !.ask = "start"]
  <1>1. shard[s].phase = "down" /\ shard' = [shard EXCEPT ![s] = y] /\ Acquire(s) /\ UNCHANGED history
    BY StateOf DEF StartShard
  <1>2. /\ y \in Shard /\ y.phase = "asking" /\ y.ask = "start"
        /\ y.starting = shard[s].starting /\ y.patience = shard[s].patience /\ y.paced = shard[s].paced
        /\ y.age = shard[s].age /\ y.session = shard[s].session
    BY StateOf DEF Shard
  <1> HIDE DEF y
  <1>3. Shaped(shard[s])
    BY StateOf
  <1>4. shard[s].ask = "none" /\ Shaped(y)
    BY <1>1, <1>2, <1>3 DEF Shaped
  <1>5. shard' \in [Shards -> Shard] /\ shard'[s] = y /\ \A t \in Shards \ {s} : shard'[t] = shard[t]
    BY <1>1, <1>2, StateOf, Moved
  <1>6. IInv'
    BY <1>1, <1>2, <1>4, <1>5, AcquireSound DEF IInv
  <1>7. ASSUME PInv PROVE PInv'
    BY <1>1, <1>2, <1>4, <1>5, <1>7, AcquirePacing DEF PInv, history
  <1> QED BY <1>6, <1>7

LEMMA StartGrantedStep ==
    ASSUME IInv, NEW s \in Shards, StartGranted(s)
    PROVE  IInv' /\ (PInv => PInv')
  <1> DEFINE y == [shard[s] EXCEPT !.phase = "dialling", !.ask = "none", !.starting = TRUE,
                                   !.paced = TRUE, !.age = 0]
             g == granted \ {s}
             k == KeyOf(s)
  <1>1. /\ s \in granted /\ shard[s].ask = "start"
        /\ shard' = [shard EXCEPT ![s] = y] /\ granted' = g /\ co' = co /\ UNCHANGED history
    BY StateOf DEF StartGranted
  <1>2. /\ y \in Shard /\ y.phase = "dialling" /\ y.ask = "none" /\ y.starting = TRUE
        /\ y.patience = shard[s].patience /\ y.paced = TRUE /\ y.age = 0
        /\ y.session = shard[s].session
    <2>1. 0 \in 0..MaxHandshake
      BY Constants
    <2> QED BY <2>1, StateOf DEF Shard
  <1> HIDE DEF y
  <1>3. Shaped(shard[s])
    BY StateOf
  <1>4. Shaped(y)
    BY <1>1, <1>2, <1>3 DEF Shaped
  <1>5. shard' \in [Shards -> Shard] /\ shard'[s] = y /\ \A t \in Shards \ {s} : shard'[t] = shard[t]
    BY <1>1, <1>2, StateOf, Moved
  <1>6. Formed(co, g, shard')
    BY <1>1, <1>4, <1>5, StateOf, ShardFormed
  <1>7. ASSUME NEW j \in Keys PROVE HoldsAt(co, g, shard', j)
    <2>1. HoldsAt(co, granted, shard, j)
      BY StateOf
    <2>2. shard'[s].starting /\ shard'[s].ask # "start"
      BY <1>2, <1>5
    <2> QED BY <1>5, <2>1, <2>2, StateOf, ShardHolds
  <1>8. IInv'
    BY <1>1, <1>6, <1>7, StateOf DEF IInv, Sound
  <1>9. k \in Keys /\ HoldsAt(co, granted, shard, k) /\ s # Nobody
    BY StateOf, Constants
  <1>10. co.holder[k] = s /\ co.hold[k] = HoldTimeout
    BY <1>1, <1>9 DEF HoldsAt
  <1>11. ASSUME PInv PROVE PInv'
    <2>1. /\ recent \in [Keys -> 0..Interval] /\ Sole(co, granted, shard, recent)
          /\ Rests(co, recent) /\ Timed(co, shard)
      BY <1>11 DEF PInv, Pacing
    <2>2. \A t \in Shards : May(g, shard', t) <=> May(granted, shard, t)
      BY <1>1, <1>2, <1>5 DEF May
    <2>3. \A t \in Shards \ {s} : Urgent(granted, shard, t) => Urgent(g, shard', t)
      BY <1>5 DEF Urgent
    <2>4. Sole(co, g, shard', recent)
      BY <1>10, <2>1, <2>2, <2>3 DEF Sole
    <2>5. Timed(co, shard')
      <3> SUFFICES ASSUME NEW t \in Shards, shard'[t].paced, co.holder[KeyOf(t)] = t
                   PROVE  co.hold[KeyOf(t)] + shard'[t].age >= HoldTimeout
        BY DEF Timed
      <3>1. CASE t = s
        BY <1>2, <1>5, <1>10, <3>1, Constants
      <3>2. CASE t # s
        BY <1>5, <2>1, <3>2 DEF Timed
      <3> QED BY <3>1, <3>2
    <2>6. Pending(g, shard') = Pending(granted, shard)
      BY <2>2 DEF Pending
    <2>7. Pacing(co, g, shard', recent) /\ Budgeted(co, g, shard', spent, carried)
      BY <1>11, <2>1, <2>4, <2>5, <2>6 DEF PInv, Pacing, Budgeted
    <2> QED BY <1>1, <1>11, <2>7 DEF PInv, history
  <1> QED BY <1>8, <1>11

LEMMA SocketOpensStep ==
    ASSUME IInv, NEW s \in Shards, SocketOpens(s)
    PROVE  IInv' /\ (PInv => PInv')
  <1> DEFINE p == IF shard[s].starting /\ shard[s].patience = {} THEN {HandshakeTimeout}
                  ELSE shard[s].patience
             y == [shard[s] EXCEPT !.phase = "opened", !.patience = p]
  <1>1. shard[s].phase = "dialling" /\ shard' = [shard EXCEPT ![s] = y]
        /\ UNCHANGED <<co, granted, history>>
    BY StateOf DEF SocketOpens
  <1>2. shard[s].age \in Nat /\ shard[s].patience \in SUBSET (0..Longest(HandshakeTimeout, ReadyTimeout))
        /\ HandshakeTimeout \in 0..Longest(HandshakeTimeout, ReadyTimeout)
    BY StateOf, ShardParts, Constants, LongestOf
  <1>3. p \in SUBSET (0..Longest(HandshakeTimeout, ReadyTimeout))
    BY <1>2
  <1>4. p \in {{HandshakeTimeout}, shard[s].patience}
    OBVIOUS
  <1> HIDE DEF p
  <1>5. /\ y \in Shard /\ y.phase = "opened" /\ y.ask = shard[s].ask
        /\ y.starting = shard[s].starting /\ y.patience = p /\ y.paced = shard[s].paced
        /\ y.age = shard[s].age /\ y.session = shard[s].session
    BY <1>3, StateOf DEF Shard
  <1> HIDE DEF y
  <1>6. Shaped(shard[s])
    BY StateOf
  <1>7. Shaped(y)
    <2>1. y.paced => \A n \in y.patience : n + y.age >= HandshakeTimeout
      BY <1>2, <1>4, <1>5, <1>6, Constants DEF Shaped
    <2> QED BY <1>1, <1>5, <1>6, <2>1 DEF Shaped
  <1>8. shard' \in [Shards -> Shard] /\ shard'[s] = y /\ \A t \in Shards \ {s} : shard'[t] = shard[t]
    BY <1>1, <1>5, StateOf, Moved
  <1> QED BY <1>1, <1>5, <1>7, <1>8, AloneStep DEF history

LEMMA HelloResumesStep ==
    ASSUME IInv, NEW s \in Shards, HelloResumes(s)
    PROVE  IInv' /\ (PInv => PInv')
  <1> DEFINE y == [shard[s] EXCEPT !.phase = "ready"]
  <1>1. shard[s].phase = "opened" /\ shard[s].session /\ shard' = [shard EXCEPT ![s] = y]
        /\ UNCHANGED <<co, granted, history>>
    BY StateOf DEF HelloResumes
  <1>2. /\ y \in Shard /\ y.phase = "ready" /\ y.ask = shard[s].ask
        /\ y.starting = shard[s].starting /\ y.paced = shard[s].paced
        /\ y.age = shard[s].age /\ y.session = shard[s].session
    BY StateOf DEF Shard
  <1> HIDE DEF y
  <1>3. Shaped(shard[s])
    BY StateOf
  <1>4. Shaped(y)
    BY <1>1, <1>2, <1>3 DEF Shaped
  <1>5. shard' \in [Shards -> Shard] /\ shard'[s] = y /\ \A t \in Shards \ {s} : shard'[t] = shard[t]
    BY <1>1, <1>2, StateOf, Moved
  <1> QED BY <1>1, <1>2, <1>4, <1>5, AloneStep DEF history

LEMMA LoseStep ==
    ASSUME IInv, NEW s \in Shards, Lose(s)
    PROVE  IInv' /\ (PInv => PInv')
  <1>1. PICK kept \in {FALSE, shard[s].session} :
            shard' = [shard EXCEPT ![s].phase = "dialling", ![s].session = kept,
                         ![s].ask = IF @ = "current" THEN "stale" ELSE @]
    BY DEF Lose
  <1> DEFINE a == IF shard[s].ask = "current" THEN "stale" ELSE shard[s].ask
             y == [shard[s] EXCEPT !.phase = "dialling", !.session = kept, !.ask = a]
  <1>2. /\ shard[s].phase \in {"opened", "gated", "identified", "ready"}
        /\ shard' = [shard EXCEPT ![s] = y]
        /\ UNCHANGED <<co, granted, recent, crowded, spent, carried>>
    BY <1>1, StateOf DEF Lose, Fault
  <1>3. a \in {"none", "start", "current", "stale"} /\ kept \in BOOLEAN
        /\ (a = shard[s].ask \/ (shard[s].ask = "current" /\ a = "stale"))
    BY StateOf DEF Shard
  <1> HIDE DEF a
  <1>4. /\ y \in Shard /\ y.phase = "dialling" /\ y.ask = a
        /\ y.starting = shard[s].starting /\ y.patience = shard[s].patience
        /\ y.paced = shard[s].paced /\ y.age = shard[s].age /\ y.session = kept
    BY <1>3, StateOf DEF Shard
  <1> HIDE DEF y
  <1>5. Shaped(shard[s])
    BY StateOf
  <1>6. Shaped(y)
    BY <1>2, <1>3, <1>4, <1>5 DEF Shaped
  <1>7. shard' \in [Shards -> Shard] /\ shard'[s] = y /\ \A t \in Shards \ {s} : shard'[t] = shard[t]
    BY <1>2, <1>4, StateOf, Moved
  <1> QED BY <1>2, <1>3, <1>4, <1>6, <1>7, AloneStep

\* A shard gives its slot back, or asks for it to be taken back.
LEMMA EndSound ==
    ASSUME IInv, NEW s \in Shards, NEW g \in {granted, granted \ {s}}, NEW x \in [Shards -> Shard],
           \A t \in Shards \ {s} : x[t] = shard[t], Shaped(x[s]), x[s].ask # "start",
           x[s].ask = "none" /\ shard[s].ask # "none" => s \in granted /\ g = granted \ {s},
           Release(s, g)
    PROVE  Formed(co, g, x) /\ Sound(co', granted', x) /\ Covered(co')
  <1>1. Formed(co, g, x)
    BY StateOf, ShardFormed
  <1>2. ASSUME NEW k \in Keys, co.holder[k] # s PROVE HoldsAt(co, g, x, k)
    <2>1. HoldsAt(co, granted, shard, k)
      BY StateOf
    <2> QED BY <1>2, <2>1, StateOf, ShardHolds
  <1>3. ASSUME NEW k \in Keys \ {KeyOf(s)} PROVE HoldsAt(co, g, x, k)
    <2>1. co.holder[k] # s
      BY <1>3, StateOf, Constants DEF HoldsAt
    <2> QED BY <1>2, <2>1
  <1>4. KeyOf(s) \in Keys
    BY Constants
  <1>5. ASSUME co.holder[KeyOf(s)] = s, NEW t \in g, KeyOf(t) = KeyOf(s) PROVE x[t].ask # "start"
    <2>1. HoldsAt(co, granted, shard, KeyOf(s)) /\ t \in granted /\ t \in Shards
      BY <1>4, StateOf
    <2>2. CASE t = s
      BY <2>2
    <2>3. CASE t # s
      BY <1>5, <2>1, <2>3 DEF HoldsAt
    <2> QED BY <2>2, <2>3
  <1>6. Sound(co', granted', x) /\ Covered(co')
    BY <1>1, <1>2, <1>3, <1>4, <1>5, StateOf, ReleaseSound
  <1> QED BY <1>1, <1>6

\* What an IDENTIFY counts, when the window of its key is open.
LEMMA CountsOf ==
    ASSUME PInv, NEW s \in Shards, recent[KeyOf(s)] = 0, Counts(s)
    PROVE  /\ recent' = [recent EXCEPT ![KeyOf(s)] = Interval] /\ spent' = spent + 1
           /\ crowded' = {} /\ carried' = carried
  <1>1. {k \in {KeyOf(s)} : recent[k] > 0} = {}
    OBVIOUS
  <1> QED BY <1>1 DEF Counts, PInv

\* In PInv, a shard that may IDENTIFY finds the window of its key open.
LEMMA OpenOf ==
    ASSUME PInv, NEW s \in Shards, May(granted, shard, s)
    PROVE  /\ recent[KeyOf(s)] = 0
           /\ \A t \in Shards : May(granted, shard, t) /\ KeyOf(t) = KeyOf(s) => t = s
  BY DEF PInv, Pacing, Sole

LEMMA HelloIdentifiesStep ==
    ASSUME IInv, NEW s \in Shards, HelloIdentifies(s)
    PROVE  IInv' /\ (PInv => PInv')
  <1> DEFINE on == shard[s].starting /\ sequential
             b == on
             p == IF on THEN {ReadyTimeout} ELSE {}
             y == [shard[s] EXCEPT !.phase = "identified", !.paced = FALSE,
                                   !.starting = b, !.patience = p]
  <1>1. /\ shard[s].paced /\ Counts(s)
        /\ shard' = [shard EXCEPT ![s] = y]
        /\ IF shard[s].starting /\ ~sequential THEN Release(s, granted) ELSE UNCHANGED <<co, granted>>
    <2>1. shard[s].starting \in BOOLEAN
      BY StateOf, ShardParts
    <2>2. CASE on
      <3>1. shard' = [shard EXCEPT ![s].phase = "identified", ![s].paced = FALSE,
                                   ![s].patience = {ReadyTimeout}]
            /\ UNCHANGED <<co, granted>>
        BY <2>2 DEF HelloIdentifies
      <3>2. shard[s].starting = TRUE
        BY <2>1, <2>2
      <3>3. b = TRUE
        BY <2>2
      <3>4. y = [shard[s] EXCEPT !.phase = "identified", !.paced = FALSE, !.patience = {ReadyTimeout}]
        BY <2>2, <3>2, <3>3, StateOf DEF Shard
      <3>5. shard' = [shard EXCEPT ![s] = y]
        BY <3>1, <3>4, StateOf
      <3> QED BY <2>2, <3>1, <3>5 DEF HelloIdentifies
    <2>3. CASE ~on
      <3>1. b = FALSE
        BY <2>3
      <3>2. /\ shard' = [shard EXCEPT ![s].phase = "identified", ![s].paced = FALSE,
                                      ![s].starting = FALSE, ![s].patience = {}]
            /\ IF shard[s].starting THEN Release(s, granted) ELSE UNCHANGED <<co, granted>>
        BY <2>3 DEF HelloIdentifies
      <3>3. shard' = [shard EXCEPT ![s] = y]
        BY <2>3, <3>1, <3>2, StateOf
      <3> QED BY <2>3, <3>2, <3>3 DEF HelloIdentifies
    <2> QED BY <2>2, <2>3
  <1>2. b \in BOOLEAN /\ (b => shard[s].starting)
        /\ (shard[s].starting /\ sequential => b)
    OBVIOUS
  <1>3. p \in SUBSET (0..Longest(HandshakeTimeout, ReadyTimeout))
    BY Constants, LongestOf
  <1> HIDE DEF b, p
  <1>4. /\ y \in Shard /\ y.phase = "identified" /\ y.ask = shard[s].ask /\ y.starting = b
        /\ y.paced = FALSE /\ y.session = shard[s].session
    BY <1>2, <1>3, StateOf DEF Shard
  <1> HIDE DEF y, on
  <1>5. Shaped(shard[s]) /\ Asked(co, granted, shard)
    BY StateOf
  <1>6. shard[s].ask = "none" /\ Shaped(y)
    BY <1>1, <1>4, <1>5 DEF Shaped
  <1>7. shard' \in [Shards -> Shard] /\ shard'[s] = y /\ \A t \in Shards \ {s} : shard'[t] = shard[t]
    BY <1>1, <1>4, StateOf, Moved
  <1>8. s \notin granted
    BY <1>5, <1>6 DEF Asked
  <1>9. May(granted, shard, s) /\ ~May(granted, shard', s)
    BY <1>1, <1>4, <1>7, <1>8 DEF May
  <1>10. ASSUME PInv
         PROVE  /\ Pacing(co, granted, shard', recent') /\ Budgeted(co, granted, shard', spent', carried')
                /\ crowded' = {}
                /\ \A t \in Shards : May(granted, shard', t) => KeyOf(t) # KeyOf(s)
    <2>1. recent[KeyOf(s)] = 0
      BY <1>9, <1>10, OpenOf
    <2>2. /\ recent' = [recent EXCEPT ![KeyOf(s)] = Interval] /\ spent' = spent + 1
          /\ crowded' = {} /\ carried' = carried
      BY <1>1, <1>10, <2>1, CountsOf
    <2>3. Pacing(co, granted, shard, recent) /\ Budgeted(co, granted, shard, spent, carried)
      BY <1>10 DEF PInv
    <2>4. \A t \in Shards \ {s} : shard'[t] = shard[t] /\ (t \in granted <=> t \in granted)
      BY <1>7
    <2>5. co \in Coordinator
      BY StateOf
    <2> QED BY <1>9, <2>2, <2>3, <2>4, <2>5, SpentPacing
  <1>11. CASE shard[s].starting /\ ~sequential
    <2>1. Release(s, granted)
      BY <1>1, <1>11
    <2>2. Formed(co, granted, shard') /\ Sound(co', granted', shard') /\ Covered(co')
      BY <1>4, <1>6, <1>7, <2>1, EndSound
    <2>3. IInv'
      BY <2>2 DEF IInv
    <2>4. ASSUME PInv PROVE PInv'
      <3>1. Pacing(co', granted', shard', recent') /\ Budgeted(co', granted', shard', spent', carried')
        BY <1>10, <2>1, <2>2, <2>4, ReleasePacing
      <3> QED BY <1>10, <2>4, <3>1 DEF PInv
    <2> QED BY <2>3, <2>4
  <1>12. CASE ~(shard[s].starting /\ ~sequential)
    <2>1. UNCHANGED <<co, granted>>
      BY <1>1, <1>12
    <2>2. shard[s].starting => shard'[s].starting
      BY <1>2, <1>4, <1>7, <1>12
    <2>3. Sound(co, granted, shard')
      BY <1>4, <1>6, <1>7, <2>2, StateOf, ShardSound
    <2>4. IInv'
      BY <2>1, <2>3, StateOf DEF IInv
    <2>5. PInv => PInv'
      BY <1>10, <2>1 DEF PInv
    <2> QED BY <2>4, <2>5
  <1> QED BY <1>11, <1>12

LEMMA HelloAsksStep ==
    ASSUME IInv, NEW s \in Shards, HelloAsks(s)
    PROVE  IInv' /\ (PInv => PInv')
  <1>1. Shaped(shard[s]) /\ shard[s].phase = "opened" /\ ~shard[s].paced /\ UNCHANGED history
    BY StateOf DEF HelloAsks
  <1>2. CASE shard[s].ask = "none"
    <2> DEFINE y == [shard[s] EXCEPT !.phase = "gated", !.ask = "current"]
    <2>1. shard' = [shard EXCEPT ![s] = y] /\ Acquire(s)
      BY <1>2, StateOf DEF HelloAsks
    <2>2. /\ y \in Shard /\ y.phase = "gated" /\ y.ask = "current"
          /\ y.starting = shard[s].starting /\ y.paced = shard[s].paced /\ y.age = shard[s].age
      BY StateOf DEF Shard
    <2> HIDE DEF y
    <2>3. Shaped(y)
      BY <1>1, <2>2 DEF Shaped
    <2>4. shard' \in [Shards -> Shard] /\ shard'[s] = y /\ \A t \in Shards \ {s} : shard'[t] = shard[t]
      BY <2>1, <2>2, StateOf, Moved
    <2>5. IInv'
      BY <1>2, <2>1, <2>2, <2>3, <2>4, AcquireSound DEF IInv
    <2>6. ASSUME PInv PROVE PInv'
      BY <1>1, <1>2, <2>1, <2>2, <2>3, <2>4, <2>6, AcquirePacing DEF PInv, history
    <2> QED BY <2>5, <2>6
  <1>3. CASE shard[s].ask # "none"
    <2> DEFINE y == [shard[s] EXCEPT !.phase = "dialling"]
    <2>1. shard' = [shard EXCEPT ![s] = y] /\ UNCHANGED <<co, granted>>
      BY <1>3, StateOf DEF HelloAsks
    <2>2. /\ y \in Shard /\ y.phase = "dialling" /\ y.ask = shard[s].ask
          /\ y.starting = shard[s].starting /\ y.paced = shard[s].paced /\ y.age = shard[s].age
      BY StateOf DEF Shard
    <2> HIDE DEF y
    <2>3. Shaped(y)
      BY <1>1, <2>2 DEF Shaped
    <2>4. shard' \in [Shards -> Shard] /\ shard'[s] = y /\ \A t \in Shards \ {s} : shard'[t] = shard[t]
      BY <2>1, <2>2, StateOf, Moved
    <2> QED BY <1>1, <2>1, <2>2, <2>3, <2>4, AloneStep DEF history
  <1> QED BY <1>2, <1>3

LEMMA ReconnectGrantedStep ==
    ASSUME IInv, NEW s \in Shards, ReconnectGranted(s)
    PROVE  IInv' /\ (PInv => PInv')
  <1> DEFINE f == IF shard[s].ask = "current" THEN "identified" ELSE shard[s].phase
             y == [shard[s] EXCEPT !.phase = f, !.ask = "none"]
             g == granted \ {s}
  <1>1. /\ s \in granted /\ shard[s].ask \in {"current", "stale"} /\ Release(s, g)
        /\ shard' = [shard EXCEPT ![s] = y]
        /\ Counts(s) \/ UNCHANGED history
    <2>1. s \in granted /\ shard[s].ask \in {"current", "stale"} /\ Release(s, g)
      BY DEF ReconnectGranted
    <2>2. CASE shard[s].ask = "current"
      <3>1. shard' = [shard EXCEPT ![s].phase = "identified", ![s].ask = "none"] /\ Counts(s)
        BY <2>2 DEF ReconnectGranted
      <3>2. shard' = [shard EXCEPT ![s] = y]
        BY <2>2, <3>1, StateOf
      <3> QED BY <2>1, <3>1, <3>2
    <2>3. CASE shard[s].ask # "current"
      <3>1. shard' = [shard EXCEPT ![s].ask = "none"] /\ UNCHANGED history
        BY <2>3 DEF ReconnectGranted
      <3>2. f = shard[s].phase
        BY <2>3
      <3>3. y = [shard[s] EXCEPT !.ask = "none"]
        BY <3>2, StateOf DEF Shard
      <3>4. shard' = [shard EXCEPT ![s] = y]
        BY <3>1, <3>3, StateOf
      <3> QED BY <2>1, <3>1, <3>4
    <2> QED BY <2>2, <2>3
  <1>2. f = "identified" \/ f = shard[s].phase
    OBVIOUS
  <1> HIDE DEF f
  <1>3. /\ y \in Shard /\ y.phase = f /\ y.ask = "none" /\ y.starting = shard[s].starting
        /\ y.paced = shard[s].paced /\ y.session = shard[s].session
        /\ y.patience = shard[s].patience /\ y.age = shard[s].age
    BY <1>2, StateOf DEF Shard
  <1> HIDE DEF y
  <1>4. Shaped(shard[s])
    BY StateOf
  <1>5. ~shard[s].paced /\ Shaped(y)
    BY <1>1, <1>2, <1>3, <1>4 DEF Shaped
  <1>6. shard' \in [Shards -> Shard] /\ shard'[s] = y /\ \A t \in Shards \ {s} : shard'[t] = shard[t]
    BY <1>1, <1>3, StateOf, Moved
  <1>7. May(granted, shard, s) /\ ~May(g, shard', s)
    BY <1>1, <1>3, <1>5, <1>6 DEF May
  <1>8. \A t \in Shards \ {s} : shard'[t] = shard[t] /\ (t \in g <=> t \in granted)
    BY <1>6
  <1>9. g \in {granted, granted \ {s}} /\ s \in granted /\ g = granted \ {s}
    BY <1>1
  <1> HIDE DEF g
  <1>10. Formed(co, g, shard') /\ Sound(co', granted', shard') /\ Covered(co')
    BY <1>1, <1>3, <1>5, <1>6, <1>9, EndSound
  <1>11. IInv'
    BY <1>10 DEF IInv
  <1>12. ASSUME PInv PROVE PInv'
    <2>1. recent[KeyOf(s)] = 0
      BY <1>7, <1>12, OpenOf
    <2>2. /\ \/ recent' = recent /\ spent' = spent
             \/ recent' = [recent EXCEPT ![KeyOf(s)] = Interval] /\ spent' = spent + 1
          /\ crowded' = {} /\ carried' = carried
      BY <1>1, <1>12, <2>1, CountsOf DEF history, PInv
    <2>3. Pacing(co, granted, shard, recent) /\ Budgeted(co, granted, shard, spent, carried)
      BY <1>12 DEF PInv
    <2>4. co \in Coordinator
      BY StateOf
    <2>5. /\ Pacing(co, g, shard', recent') /\ Budgeted(co, g, shard', spent', carried)
          /\ \A t \in Shards : May(g, shard', t) => KeyOf(t) # KeyOf(s)
      BY <1>7, <1>8, <2>2, <2>3, <2>4, SpentPacing
    <2>6. Pacing(co', granted', shard', recent') /\ Budgeted(co', granted', shard', spent', carried)
      BY <1>1, <1>10, <2>5, ReleasePacing
    <2> QED BY <2>2, <2>6 DEF PInv
  <1> QED BY <1>11, <1>12

\* A start ends, and its shard is on its way to IDENTIFY no more than it must be.
LEMMA EndPacing ==
    ASSUME IInv, PInv, NEW s \in Shards, NEW x \in [Shards -> Shard],
           \A t \in Shards \ {s} : x[t] = shard[t],
           x[s].paced = shard[s].paced, x[s].age = shard[s].age,
           shard[s].paced => shard[s].age = MaxHandshake,
           Formed(co, granted, x), Release(s, granted)
    PROVE  Pacing(co', granted', x, recent) /\ Budgeted(co', granted', x, spent, carried)
  <1>1. Pacing(co, granted, shard, recent) /\ Budgeted(co, granted, shard, spent, carried)
    BY DEF PInv
  <1>2. \A t \in Shards : /\ x[t].paced <=> shard[t].paced
                          /\ x[t].paced => x[t].age = shard[t].age
    OBVIOUS
  <1>3. SameBudget(co, co)
    BY DEF SameBudget
  <1>4. Pacing(co, granted, x, recent) /\ Budgeted(co, granted, x, spent, carried)
    BY <1>1, <1>2, <1>3, PacingKept
  <1>5. ASSUME co.holder[KeyOf(s)] = s, NEW t \in Shards, May(granted, x, t), KeyOf(t) = KeyOf(s)
        PROVE  Urgent(granted, x, t)
    <2>1. s # Nobody
      BY Constants
    <2>2. t = s
      BY <1>4, <1>5, <2>1 DEF Pacing, Sole
    <2> QED BY <1>5, <2>2 DEF May, Urgent
  <1> QED BY <1>4, <1>5, ReleasePacing

LEMMA ReadyStep ==
    ASSUME IInv, NEW s \in Shards, Ready(s)
    PROVE  IInv' /\ (PInv => PInv')
  <1> DEFINE y == [shard[s] EXCEPT !.phase = "ready", !.session = TRUE,
                                   !.starting = FALSE, !.patience = {}]
  <1>1. /\ shard[s].phase = "identified" /\ shard' = [shard EXCEPT ![s] = y] /\ UNCHANGED history
        /\ IF shard[s].starting THEN Release(s, granted) ELSE UNCHANGED <<co, granted>>
    BY StateOf DEF Ready
  <1>2. /\ y \in Shard /\ y.phase = "ready" /\ y.ask = shard[s].ask /\ y.starting = FALSE
        /\ y.paced = shard[s].paced /\ y.age = shard[s].age
    BY StateOf DEF Shard
  <1> HIDE DEF y
  <1>3. Shaped(shard[s])
    BY StateOf
  <1>4. ~shard[s].paced /\ shard[s].ask # "start" /\ Shaped(y)
    BY <1>1, <1>2, <1>3 DEF Shaped
  <1>5. shard' \in [Shards -> Shard] /\ shard'[s] = y /\ \A t \in Shards \ {s} : shard'[t] = shard[t]
    BY <1>1, <1>2, StateOf, Moved
  <1>6. CASE shard[s].starting
    <2>1. Release(s, granted)
      BY <1>1, <1>6
    <2>2. Formed(co, granted, shard') /\ Sound(co', granted', shard') /\ Covered(co')
      BY <1>2, <1>4, <1>5, <2>1, EndSound
    <2>3. ASSUME PInv PROVE PInv'
      <3>1. Pacing(co', granted', shard', recent) /\ Budgeted(co', granted', shard', spent, carried)
        BY <1>2, <1>4, <1>5, <2>1, <2>2, <2>3, EndPacing
      <3> QED BY <1>1, <2>3, <3>1 DEF PInv, history
    <2> QED BY <2>2, <2>3 DEF IInv
  <1>7. CASE ~shard[s].starting
    <2>1. UNCHANGED <<co, granted>>
      BY <1>1, <1>7
    <2> QED BY <1>1, <1>2, <1>4, <1>5, <1>7, <2>1, AloneStep DEF history
  <1> QED BY <1>6, <1>7

LEMMA StartTimesOutStep ==
    ASSUME IInv, NEW s \in Shards, StartTimesOut(s)
    PROVE  IInv' /\ (PInv /\ Prompt => PInv')
  <1> DEFINE y == [shard[s] EXCEPT !.starting = FALSE, !.patience = {}]
  <1>1. /\ shard[s].starting /\ 0 \in shard[s].patience /\ shard' = [shard EXCEPT ![s] = y]
        /\ Release(s, granted) /\ UNCHANGED history
    BY StateOf DEF StartTimesOut
  <1>2. /\ y \in Shard /\ y.phase = shard[s].phase /\ y.ask = shard[s].ask /\ y.starting = FALSE
        /\ y.paced = shard[s].paced /\ y.age = shard[s].age /\ y.session = shard[s].session
        /\ y.patience = {}
    BY StateOf DEF Shard
  <1> HIDE DEF y
  <1>3. Shaped(shard[s])
    BY StateOf
  <1>4. shard[s].ask # "start" /\ Shaped(y)
    BY <1>1, <1>2, <1>3 DEF Shaped
  <1>5. shard' \in [Shards -> Shard] /\ shard'[s] = y /\ \A t \in Shards \ {s} : shard'[t] = shard[t]
    BY <1>1, <1>2, StateOf, Moved
  <1>6. Formed(co, granted, shard') /\ Sound(co', granted', shard') /\ Covered(co')
    BY <1>1, <1>2, <1>4, <1>5, EndSound
  <1>7. ASSUME PInv, Prompt PROVE PInv'
    <2>1. shard[s].paced => 0 + shard[s].age >= HandshakeTimeout
      BY <1>1, <1>3 DEF Shaped
    <2>2. shard[s].age \in 0..MaxHandshake
      BY StateOf, ShardParts
    <2>3. shard[s].paced => shard[s].age = MaxHandshake
      BY <1>7, <2>1, <2>2, Constants DEF Prompt
    <2>4. Pacing(co', granted', shard', recent) /\ Budgeted(co', granted', shard', spent, carried)
      BY <1>1, <1>2, <1>5, <1>6, <1>7, <2>3, EndPacing
    <2> QED BY <1>1, <1>7, <2>4 DEF PInv, history
  <1> QED BY <1>6, <1>7 DEF IInv

LEMMA ExitStep ==
    ASSUME IInv, NEW o, Exit(o)
    PROVE  IInv' /\ (PInv => PInv')
  <1> DEFINE d == Drop(co, o)
             h == {s \in granted : OwnerOf[s] # o}
             x == Gone(shard, o)
  <1>1. shard' = x /\ Pump(d, h) /\ UNCHANGED <<recent, crowded, spent, carried>>
    BY DEF Exit, Fault, Gone
  <1>2. Sound(d, h, x)
    BY StateOf, DropSound
  <1>3. ASSUME PInv
        PROVE  Pacing(d, h, x, recent) /\ Budgeted(d, h, x, spent, carried)
    <2>1. Pacing(co, granted, shard, recent) /\ Budgeted(co, granted, shard, spent, carried)
      BY <1>3 DEF PInv
    <2> QED BY <2>1, StateOf, DropPacing
  <1> HIDE DEF d, h, x
  <1>4. PICK G : Served(d, h, G, co', granted')
    BY <1>1, <1>2, PumpOf DEF Sound, Formed
  <1>5. IInv'
    BY <1>1, <1>2, <1>4, PumpSound DEF IInv, Served
  <1>6. ASSUME PInv PROVE PInv'
    <2>1. Formed(d, h, x)
      BY <1>2 DEF Sound
    <2>2. Pacing(co', granted', x, recent) /\ Budgeted(co', granted', x, spent, carried)
      BY <1>3, <1>4, <1>6, <2>1, PumpPacing, PumpBudgeted
    <2> QED BY <1>1, <1>6, <2>2 DEF PInv
  <1> QED BY <1>5, <1>6

-----------------------------------------------------------------------------
(* Time.                                                                   *)

LEMMA LessOf ==
    ASSUME NEW n \in Nat
    PROVE  /\ Less(n) \in Nat /\ Less(n) <= n /\ (n > 0 => Less(n) = n - 1)
           /\ \A m \in Nat : n <= m => Less(n) <= Less(m)
  BY DEF Less

LEMMA TickCo ==
    ASSUME IInv, Tick
    PROVE  /\ co' \in Coordinator
           /\ co'.queue = co.queue /\ co'.holder = co.holder /\ co'.remaining = co.remaining
           /\ \A k \in Keys : co'.hold[k] = Less(co.hold[k]) /\ co'.rest[k] = Less(co.rest[k])
           /\ co'.timer = Sooner(co.timer)
           /\ co'.reset = IF co.reset = 1 THEN Period ELSE co.reset - 1
           /\ co'.refill = (co.refill \/ co.reset = 1)
  <1> DEFINE a == [k \in Keys |-> Less(co.hold[k])]
             b == [k \in Keys |-> Less(co.rest[k])]
             t == Sooner(co.timer)
             n == IF co.reset = 1 THEN Period ELSE co.reset - 1
             f == co.refill \/ co.reset = 1
  <1>1. co' = [co EXCEPT !.hold = a, !.rest = b, !.timer = t, !.reset = n, !.refill = f]
    BY DEF Tick
  <1>2. co \in Coordinator
    BY StateOf
  <1>3. /\ co.hold \in [Keys -> 0..HoldTimeout] /\ co.rest \in [Keys -> 0..Interval]
        /\ co.reset \in 1..Period /\ co.timer \in SUBSET (0..Longest(Period, Interval))
    BY <1>2, Parts
  <1>4. \A m \in Nat : \A i \in 0..m : Less(i) \in 0..m
    BY DEF Less
  <1>5. a \in [Keys -> 0..HoldTimeout]
    BY <1>3, <1>4, Constants
  <1>6. b \in [Keys -> 0..Interval]
    BY <1>3, <1>4, Constants
  <1>7. Longest(Period, Interval) \in Nat
    BY Constants, LongestOf
  <1>8. t \in SUBSET (0..Longest(Period, Interval))
    BY <1>3, <1>4, <1>7 DEF Sooner
  <1>9. n \in 1..Period
    BY <1>3, Constants
  <1>10. f \in BOOLEAN
    OBVIOUS
  <1>11. \A k \in Keys : a[k] = Less(co.hold[k]) /\ b[k] = Less(co.rest[k])
    OBVIOUS
  <1> HIDE DEF a, b, t, n, f
  <1>12. /\ co' \in Coordinator
         /\ co'.queue = co.queue /\ co'.holder = co.holder /\ co'.remaining = co.remaining
         /\ co'.hold = a /\ co'.rest = b /\ co'.timer = t /\ co'.reset = n /\ co'.refill = f
    BY <1>1, <1>2, <1>5, <1>6, <1>8, <1>9, <1>10 DEF Coordinator
  <1> QED BY <1>11, <1>12 DEF t, n, f

LEMMA TickShard ==
    ASSUME IInv, Tick, NEW s \in Shards
    PROVE  /\ shard'[s] \in Shard /\ Shaped(shard'[s])
           /\ shard'[s].ask = shard[s].ask /\ shard'[s].starting = shard[s].starting
           /\ shard'[s].paced = shard[s].paced
           /\ shard'[s].age = IF shard[s].paced THEN shard[s].age + 1 ELSE shard[s].age
  <1> DEFINE p == Sooner(shard[s].patience)
             a == IF shard[s].paced THEN shard[s].age + 1 ELSE shard[s].age
             y == [shard[s] EXCEPT !.patience = p, !.age = a]
  <1>1. shard'[s] = y /\ 0 \notin shard[s].patience
        /\ (shard[s].paced => shard[s].age < MaxHandshake)
    BY DEF Tick
  <1>2. /\ shard[s] \in Shard /\ Shaped(shard[s]) /\ shard[s].age \in 0..MaxHandshake
        /\ shard[s].patience \in SUBSET (0..Longest(HandshakeTimeout, ReadyTimeout))
    BY StateOf, ShardParts
  <1>3. Longest(HandshakeTimeout, ReadyTimeout) \in Nat
    BY Constants, LongestOf
  <1>4. p \in SUBSET (0..Longest(HandshakeTimeout, ReadyTimeout))
    BY <1>2, <1>3 DEF Sooner, Less
  <1>5. a \in 0..MaxHandshake
    BY <1>1, <1>2, Constants
  <1>6. shard[s].patience = {} => p = {}
    BY DEF Sooner
  <1>7. shard[s].paced => \A n \in p : n + a >= HandshakeTimeout
    <2> SUFFICES ASSUME shard[s].paced, NEW m \in shard[s].patience
                 PROVE  Less(m) + a >= HandshakeTimeout
      BY DEF Sooner
    <2>1. m \in Nat /\ m # 0
      BY <1>1, <1>2, <1>3
    <2>2. m + shard[s].age >= HandshakeTimeout
      BY <1>2 DEF Shaped
    <2>3. Less(m) = m - 1 /\ a = shard[s].age + 1
      BY <2>1 DEF Less
    <2> QED BY <1>2, <2>1, <2>2, <2>3, Constants
  <1> HIDE DEF p
  <1>8. a = IF shard[s].paced THEN shard[s].age + 1 ELSE shard[s].age
    OBVIOUS
  <1> HIDE DEF a
  <1>9. /\ y \in Shard /\ y.phase = shard[s].phase /\ y.ask = shard[s].ask
        /\ y.starting = shard[s].starting /\ y.paced = shard[s].paced
        /\ y.session = shard[s].session /\ y.patience = p /\ y.age = a
    BY <1>2, <1>4, <1>5 DEF Shard
  <1> HIDE DEF y
  <1>10. Shaped(y)
    BY <1>2, <1>6, <1>7, <1>9 DEF Shaped
  <1> QED BY <1>1, <1>8, <1>9, <1>10

LEMMA TickSound ==
    ASSUME IInv, Tick
    PROVE  IInv'
  <1> DEFINE d == co'
  <1>1. /\ d \in Coordinator
        /\ d.queue = co.queue /\ d.holder = co.holder /\ d.remaining = co.remaining
        /\ \A k \in Keys : d.rest[k] = Less(co.rest[k])
        /\ d.timer = Sooner(co.timer)
        /\ d.reset = IF co.reset = 1 THEN Period ELSE co.reset - 1
    BY TickCo
  <1> HIDE DEF d
  <1>2. granted = {} /\ granted' = {} /\ 0 \notin co.timer
    BY DEF Tick
  <1>3. shard' \in [Shards -> Shard]
    <2>1. \A s \in Shards : shard'[s] \in Shard
      BY TickShard
    <2>2. shard' = [s \in Shards |->
                      [shard[s] EXCEPT !.patience = Sooner(@),
                                       !.age = IF shard[s].paced THEN @ + 1 ELSE @]]
      BY DEF Tick
    <2> QED BY <2>1, <2>2
  <1>4. \A s \in Shards : Shaped(shard'[s]) /\ shard'[s].ask = shard[s].ask
                          /\ shard'[s].starting = shard[s].starting
    BY TickShard
  <1>5. Lined(d)
    BY <1>1, StateOf DEF Lined
  <1>6. Asked(d, granted', shard')
    BY <1>1, <1>2, <1>4, StateOf DEF Asked, Waits
  <1>7. ASSUME NEW k \in Keys PROVE HoldsAt(d, granted', shard', k)
    <2>1. HoldsAt(co, granted, shard, k) /\ co.holder[k] \in Shards \cup {Nobody}
      BY StateOf, Parts
    <2> QED BY <1>1, <1>2, <1>4, <2>1 DEF HoldsAt
  <1>8. Covered(d)
    <2> SUFFICES ASSUME NEW k \in Wanted(d)
                 PROVE  \E t \in d.timer :
                           t <= Longest(d.rest[k], IF d.remaining = 0 THEN d.reset ELSE 0)
      BY DEF Covered
    <2>1. k \in Wanted(co) /\ k \in Keys
      BY <1>1 DEF Wanted
    <2>2. PICK t \in co.timer : t <= Longest(co.rest[k], IF co.remaining = 0 THEN co.reset ELSE 0)
      BY <2>1, StateOf DEF Covered
    <2>3. /\ co.rest[k] \in 0..Interval /\ co.reset \in 1..Period /\ co.remaining \in 0..Total
          /\ co.timer \in SUBSET (0..Longest(Period, Interval))
          /\ Longest(Period, Interval) \in Nat
      BY <2>1, StateOf, Parts, Constants, LongestOf
    <2>4. t \in Nat /\ t > 0 /\ co.rest[k] \in Nat /\ co.reset \in Nat /\ co.reset > 0
      BY <1>2, <2>2, <2>3, Constants
    <2>5. Less(t) \in d.timer /\ Less(t) = t - 1
      BY <1>1, <2>2, <2>4, LessOf DEF Sooner
    <2>6. d.rest[k] = Less(co.rest[k]) /\ d.rest[k] \in Nat
      BY <1>1, <2>1, <2>4, LessOf
    <2>7. d.reset \in Nat /\ d.reset > 0 /\ (co.reset # 1 => d.reset = co.reset - 1)
      BY <1>1, <2>3, <2>4, Constants
    <2> DEFINE m == IF d.remaining = 0 THEN d.reset ELSE 0
    <2>8. m \in Nat /\ d.rest[k] <= Longest(d.rest[k], m) /\ m <= Longest(d.rest[k], m)
          /\ Longest(d.rest[k], m) \in Nat
      BY <2>6, <2>7, LongestOf
    <2>9. t - 1 <= d.rest[k] \/ t - 1 <= m
      <3>1. CASE t <= co.rest[k]
        BY <2>4, <2>6, <3>1, LessOf
      <3>2. CASE ~(t <= co.rest[k])
        <4>1. co.remaining = 0 /\ t <= co.reset
          BY <2>2, <2>3, <2>4, <3>2 DEF Longest
        <4>2. m = d.reset
          BY <1>1, <4>1
        <4> QED BY <2>4, <2>7, <4>1, <4>2
      <3> QED BY <3>1, <3>2
    <2> QED BY <2>4, <2>5, <2>6, <2>8, <2>9
  <1> QED BY <1>1, <1>2, <1>3, <1>4, <1>5, <1>6, <1>7, <1>8 DEF IInv, Sound, Formed, d

LEMMA TickPacing ==
    ASSUME IInv, PInv, Tick
    PROVE  PInv'
  <1> DEFINE d == co'
             x == shard'
             r == recent'
  <1>1. /\ d \in Coordinator /\ d.holder = co.holder /\ d.remaining = co.remaining
        /\ \A k \in Keys : d.hold[k] = Less(co.hold[k]) /\ d.rest[k] = Less(co.rest[k])
        /\ d.refill = (co.refill \/ co.reset = 1)
    BY TickCo
  <1>2. \A s \in Shards :
           /\ x[s].paced = shard[s].paced
           /\ x[s].age = IF shard[s].paced THEN shard[s].age + 1 ELSE shard[s].age
    BY TickShard
  <1>3. /\ granted = {} /\ granted' = {} /\ crowded' = crowded
        /\ \A k \in Keys : co.holder[k] # Nobody => co.hold[k] > 0
        /\ \A s \in Shards : shard[s].paced => shard[s].age < MaxHandshake
        /\ r = [k \in Keys |-> Less(recent[k])]
        /\ spent' = IF co.reset = 1 THEN 0 ELSE spent
        /\ carried' = IF co.reset # 1 THEN carried
                      ELSE Cardinality({k \in Keys : co.holder[k] # Nobody})
    BY DEF Tick
  <1>4. /\ recent \in [Keys -> 0..Interval] /\ Sole(co, granted, shard, recent)
        /\ Rests(co, recent) /\ Timed(co, shard)
    BY DEF PInv, Pacing
  <1>5. /\ co.hold \in [Keys -> 0..HoldTimeout] /\ co.rest \in [Keys -> 0..Interval]
        /\ co.holder \in [Keys -> Shards \cup {Nobody}]
        /\ \A s \in Shards : shard[s].age \in 0..MaxHandshake
    BY StateOf, Parts, ShardParts
  <1> HIDE DEF d, x, r
  <1>6. \A s \in Shards : May(granted', x, s) <=> May(granted, shard, s)
    BY <1>2, <1>3 DEF May
  <1>7. \A s \in Shards : May(granted, shard, s) => co.holder[KeyOf(s)] = s
    <2> SUFFICES ASSUME NEW s \in Shards, May(granted, shard, s) PROVE co.holder[KeyOf(s)] = s
      OBVIOUS
    <2>1. shard[s].age < MaxHandshake
      BY <1>3 DEF May
    <2>2. ~Urgent(granted, shard, s)
      BY <1>3, <1>5, <2>1, Constants DEF Urgent
    <2> QED BY <1>4, <2>2 DEF Sole
  <1>8. /\ r \in [Keys -> 0..Interval]
        /\ \A k \in Keys : r[k] = Less(recent[k]) /\ recent[k] \in Nat
    BY <1>3, <1>4, Constants DEF Less
  <1>9. Sole(d, granted', x, r)
    <2>1. \A s \in Shards : May(granted', x, s) => r[KeyOf(s)] = 0
      BY <1>4, <1>6, <1>8, Constants DEF Sole, Less
    <2> QED BY <1>1, <1>4, <1>6, <1>7, <2>1 DEF Sole
  <1>10. Rests(d, r)
    <2> SUFFICES ASSUME NEW k \in Keys, d.holder[k] = Nobody PROVE r[k] <= d.rest[k]
      BY DEF Rests
    <2>1. recent[k] <= co.rest[k] /\ co.rest[k] \in Nat
      BY <1>1, <1>4, <1>5, Constants DEF Rests
    <2> QED BY <1>1, <1>8, <2>1, LessOf
  <1>11. Timed(d, x)
    <2> SUFFICES ASSUME NEW s \in Shards, x[s].paced, d.holder[KeyOf(s)] = s
                 PROVE  d.hold[KeyOf(s)] + x[s].age >= HoldTimeout
      BY DEF Timed
    <2>1. KeyOf(s) \in Keys /\ s # Nobody
      BY Constants
    <2>2. /\ co.hold[KeyOf(s)] \in Nat /\ co.hold[KeyOf(s)] > 0
          /\ d.hold[KeyOf(s)] = Less(co.hold[KeyOf(s)])
      <3>1. co.hold[KeyOf(s)] \in 0..HoldTimeout
        BY <1>5, <2>1
      <3>2. co.hold[KeyOf(s)] \in Nat
        BY <3>1, Constants
      <3>3. co.holder[KeyOf(s)] # Nobody
        BY <1>1, <2>1
      <3> QED BY <1>1, <1>3, <2>1, <3>2, <3>3
    <2>3. x[s].age = shard[s].age + 1 /\ shard[s].age \in Nat
      BY <1>2, <1>5, Constants
    <2>4. co.hold[KeyOf(s)] + shard[s].age >= HoldTimeout
      BY <1>1, <1>2, <1>4 DEF Timed
    <2> QED BY <2>2, <2>3, <2>4, LessOf, Constants
  <1>12. Pending(granted', x) = Pending(granted, shard)
    BY <1>6 DEF Pending
  <1> DEFINE P == Pending(granted, shard)
             H == {k \in Keys : co.holder[k] # Nobody}
  <1>13. P \in SUBSET H
    <2> SUFFICES ASSUME NEW s \in Shards, May(granted, shard, s)
                 PROVE  KeyOf(s) \in H
      BY DEF Pending
    <2> QED BY <1>7, Constants
  <1>14. IsFiniteSet(H) /\ Cardinality(H) \in Nat
    <2>1. H \in SUBSET Keys
      OBVIOUS
    <2> QED BY <2>1, Constants, FS_Subset, FS_CardinalityType
  <1>15. Cardinality(P) <= Cardinality(H) /\ Cardinality(P) \in Nat
    BY <1>13, <1>14, FS_Subset, PendingFinite
  <1>16. /\ spent \in Nat /\ carried \in Nat
         /\ spent + Cardinality(P) + Left(co) <= Total + carried
    BY DEF PInv, Budgeted
  <1>17. carried' = IF co.reset # 1 THEN carried ELSE Cardinality(H)
    BY <1>3
  <1> HIDE DEF P, H
  <1>18. spent' \in Nat /\ carried' \in Nat /\ spent' + Cardinality(P) + Left(d) <= Total + carried'
    <2>1. CASE co.reset = 1
      <3>1. spent' = 0 /\ carried' = Cardinality(H) /\ Left(d) = Total
        BY <1>1, <1>3, <1>17, <2>1 DEF Left
      <3> QED BY <1>14, <1>15, <3>1, Constants
    <2>2. CASE co.reset # 1
      <3>1. co.refill \in BOOLEAN
        BY StateOf, Parts
      <3>2. d.refill = co.refill
        BY <1>1, <2>2, <3>1
      <3>3. spent' = spent /\ carried' = carried /\ Left(d) = Left(co)
        BY <1>1, <1>3, <1>17, <2>2, <3>2 DEF Left
      <3> QED BY <1>16, <3>3
    <2> QED BY <2>1, <2>2
  <1>19. Pacing(d, granted', x, r)
    BY <1>8, <1>9, <1>10, <1>11 DEF Pacing
  <1>20. Budgeted(d, granted', x, spent', carried')
    BY <1>12, <1>18 DEF Budgeted, P
  <1>21. crowded' = {}
    BY <1>3 DEF PInv
  <1> QED BY <1>19, <1>20, <1>21 DEF PInv, d, x, r

-----------------------------------------------------------------------------
(* The invariant holds.                                                    *)

LEMMA InitHolds ==
    ASSUME Init
    PROVE  IInv /\ PInv
  <1> DEFINE q == [k \in Keys |-> <<>>]
             h == [k \in Keys |-> Nobody]
             z == [k \in Keys |-> 0]
  <1>1. PICK n \in 0..Total :
            co = [queue |-> q, holder |-> h, hold |-> z, rest |-> z, remaining |-> n,
                  reset |-> Period, refill |-> FALSE, timer |-> {}]
    BY DEF Init
  <1>2. q \in [Keys -> Seq(Shards)] /\ h \in [Keys -> Shards \cup {Nobody}]
        /\ \A k \in Keys : q[k] = <<>> /\ h[k] = Nobody /\ z[k] = 0
    OBVIOUS
  <1>3. z \in [Keys -> 0..HoldTimeout] /\ z \in [Keys -> 0..Interval] /\ Period \in 1..Period
    BY Constants
  <1> HIDE DEF q, h, z
  <1>4. /\ co \in Coordinator /\ co.queue = q /\ co.holder = h /\ co.rest = z
        /\ co.remaining = n /\ co.refill = FALSE
    BY <1>1, <1>2, <1>3 DEF Coordinator
  <1>5. granted = {} /\ shard \in [Shards -> Shard] /\ \A s \in Shards : shard[s] = Down
    BY DownOf DEF Init
  <1>6. \A k \in Keys : co.queue[k] = <<>> /\ co.holder[k] = Nobody /\ co.rest[k] = 0
    BY <1>2, <1>4
  <1>7. Lined(co) /\ Covered(co)
    BY <1>6 DEF Lined, Covered, Wanted
  <1>8. Asked(co, granted, shard)
    <2>1. ASSUME NEW s \in Shards PROVE ~Waits(co, s)
      <3>1. co.queue[KeyOf(s)] = <<>>
        BY <1>6, Constants
      <3>2. 1..Len(co.queue[KeyOf(s)]) = {}
        BY <3>1
      <3> QED BY <3>2 DEF Waits
    <2> QED BY <1>5, <2>1 DEF Asked
  <1>9. \A k \in Keys : HoldsAt(co, granted, shard, k)
    BY <1>5, <1>6 DEF HoldsAt
  <1>10. IInv
    BY <1>4, <1>5, <1>7, <1>8, <1>9, DownOf DEF IInv, Sound, Formed
  <1>11. \A s \in Shards : ~May(granted, shard, s)
    BY <1>5 DEF May, Down
  <1>12. recent \in [Keys -> 0..Interval] /\ \A k \in Keys : recent[k] = 0
    BY Constants DEF Init
  <1>13. Sole(co, granted, shard, recent) /\ Timed(co, shard)
    BY <1>11 DEF Sole, Timed, May
  <1>14. Rests(co, recent)
    BY <1>6, <1>12 DEF Rests
  <1>15. Pending(granted, shard) = {}
    BY <1>11 DEF Pending
  <1>16. Cardinality(Pending(granted, shard)) = 0
    BY <1>15, FS_EmptySet
  <1>17. Left(co) = n
    BY <1>4 DEF Left
  <1>18. spent = 0 /\ carried = 0 /\ crowded = {}
    BY DEF Init
  <1>19. Budgeted(co, granted, shard, spent, carried)
    BY <1>16, <1>17, <1>18, Constants DEF Budgeted
  <1> QED BY <1>10, <1>12, <1>13, <1>14, <1>18, <1>19 DEF PInv, Pacing

LEMMA StutterHolds ==
    ASSUME UNCHANGED vars
    PROVE  (IInv => IInv') /\ (PInv => PInv')
  BY DEF vars, history, IInv, PInv

LEMMA NextHolds ==
    ASSUME IInv, Next
    PROVE  IInv' /\ (PInv /\ Prompt => PInv')
  <1>1. CASE Coordinates
    BY <1>1, PumpTimerStep, HoldExpiresStep DEF Coordinates
  <1>2. ASSUME NEW s \in Shards, Granted(s) PROVE IInv' /\ (PInv => PInv')
    BY <1>2, StartGrantedStep, ReconnectGrantedStep DEF Granted
  <1>3. ASSUME NEW s \in Shards, Connects(s) PROVE IInv' /\ (PInv => PInv')
    BY <1>3, SocketOpensStep, HelloResumesStep, HelloIdentifiesStep, HelloAsksStep DEF Connects
  <1>4. ASSUME NEW s \in Shards, StartShard(s) \/ Ready(s) \/ Lose(s) \/ StartTimesOut(s)
        PROVE  IInv' /\ (PInv /\ Prompt => PInv')
    BY <1>4, StartShardStep, ReadyStep, LoseStep, StartTimesOutStep
  <1>5. ASSUME NEW o \in Owners, Exit(o) PROVE IInv' /\ (PInv => PInv')
    BY <1>5, ExitStep
  <1>6. CASE Tick
    BY <1>6, TickSound, TickPacing
  <1> QED BY <1>1, <1>2, <1>3, <1>4, <1>5, <1>6 DEF Next

LEMMA SpecIInv == Spec => []IInv
  <1>1. Init => IInv
    BY InitHolds
  <1>2. IInv /\ [Next]_vars => IInv'
    BY NextHolds, StutterHolds
  <1> QED BY <1>1, <1>2, PTL DEF Spec

LEMMA SpecPInv ==
    ASSUME Prompt
    PROVE  Spec => []PInv
  <1>1. Init => PInv
    BY InitHolds
  <1>2. IInv /\ PInv /\ [Next]_vars => PInv'
    BY NextHolds, StutterHolds
  <1> QED BY <1>1, <1>2, SpecIInv, PTL DEF Spec

-----------------------------------------------------------------------------
(* Theorems.                                                               *)

\* The coordinator, the grants on their way and the shards stay well formed.
THEOREM TypeCorrect == Spec => []TypeOK
  <1>1. IInv => TypeOK
    BY DEF IInv, Sound, Formed, TypeOK
  <1> QED BY <1>1, SpecIInv, PTL

\* pump() never leaves a waiter that nobody will wake: while a key somebody waits
\* for is free, the one timer is armed, and in time, whatever is granted, freed,
\* dropped or expires meanwhile (identify.ts).
THEOREM NoMissedWakeup == Spec => []TimerCoversWaiters
  <1>1. IInv => TimerCoversWaiters
    BY DEF IInv, Covered, TimerCoversWaiters
  <1> QED BY <1>1, SpecIInv, PTL

\* Whoever waits for a slot or holds one is a live shard that asked for it: what
\* dropCluster forgets and frees is all that a dead cluster had (identify.ts).
THEOREM NoGhostsEver == Spec => []NoGhosts
  <1>1. IInv => NoGhosts
    <2> SUFFICES ASSUME IInv, NEW k \in Keys
                 PROVE  /\ \A i \in DOMAIN co.queue[k] : shard[co.queue[k][i]].ask # "none"
                        /\ co.holder[k] # Nobody =>
                              co.holder[k] \in granted \/ shard[co.holder[k]].starting
      BY DEF NoGhosts
    <2>1. co.queue[k] \in Seq(Shards) /\ DOMAIN co.queue[k] = 1..Len(co.queue[k])
      BY StateOf, Parts
    <2>2. ASSUME NEW i \in DOMAIN co.queue[k] PROVE shard[co.queue[k][i]].ask # "none"
      <3>1. i \in 1..Len(co.queue[k]) /\ co.queue[k][i] \in Shards
        BY <2>1
      <3>2. KeyOf(co.queue[k][i]) = k
        BY <3>1, StateOf DEF Lined
      <3>3. Waits(co, co.queue[k][i])
        BY <3>1, <3>2 DEF Waits
      <3> QED BY <3>1, <3>3, StateOf DEF Asked
    <2> QED BY <2>2, StateOf DEF HoldsAt
  <1> QED BY <1>1, SpecIInv, PTL

\* If an IDENTIFY follows its grant before the start, or the slot, times out, then no
\* two IDENTIFYs of one rate-limit key come within an interval, across starts and
\* reconnects of every cluster, lost sockets and dead clusters (identify.ts:62).
THEOREM Paced ==
    ASSUME Prompt
    PROVE  Spec => []IdentifiesArePaced
  <1>1. PInv => IdentifiesArePaced
    BY DEF PInv, IdentifiesArePaced
  <1> QED BY <1>1, SpecPInv, PTL

\* And no more IDENTIFYs come between two resets than the budget holds, but for the
\* slots held when it was reset.
THEOREM BudgetHolds ==
    ASSUME Prompt
    PROVE  Spec => []WithinBudget
  <1>1. IInv /\ PInv => WithinBudget
    <2> SUFFICES ASSUME IInv, PInv PROVE spent <= Total + carried
      BY DEF WithinBudget
    <2>1. spent + Cardinality(Pending(granted, shard)) + Left(co) <= Total + carried
          /\ spent \in Nat /\ carried \in Nat
      BY DEF PInv, Budgeted
    <2>2. Cardinality(Pending(granted, shard)) \in Nat
      BY PendingFinite
    <2>3. co.remaining \in 0..Total /\ co.refill \in BOOLEAN
      BY StateOf, Parts
    <2>4. Left(co) \in Nat
      BY <2>3, Constants DEF Left
    <2> QED BY <2>1, <2>2, <2>4, Constants
  <1> QED BY <1>1, SpecIInv, SpecPInv, PTL

\* The state is well typed, the budget kept and the waiters covered.
THEOREM InvHolds ==
    ASSUME Prompt
    PROVE  Spec => []Inv
  BY TypeCorrect, NoMissedWakeup, BudgetHolds, PTL DEF Inv

=============================================================================
