---------------------------- MODULE LeaderProofs ----------------------------
(***************************************************************************)
(* Theorems about who leads and who runs what, for every value of the      *)
(* constants.                                                              *)
(*                                                                         *)
(* About LeaderElection: only the holder of the lock leads, and a leader   *)
(* stands down before its lock can lapse.  They are about coordinators     *)
(* that are not started again while a command of a start that killAll()    *)
(* ended is under way (~SpawnsOver): the release that answers such a start *)
(* takes the lock from the next term.                                      *)
(*                                                                         *)
(* About RemoteHosts: a cluster runs on one host, and the coordinator      *)
(* knows every process that answers it.  They are about a fleet that is    *)
(* placed once nothing of the last one is left (~Hasty).                   *)
(***************************************************************************)
EXTENDS LeaderElection, RemoteHosts, SequenceTheorems, FiniteSetTheorems,
        WellFoundedInduction, TLAPS

-----------------------------------------------------------------------------
(* The invariant, of the values of one coordinator.                        *)

\* Redis carries the commands out in order.
Ordered(q) == \A i, j \in DOMAIN q : i < j /\ q[j].done => q[i].done

\* One start waits at a time, and every release was sent before it.
OneStart(q) == \A i, j \in DOMAIN q : q[i].by = "lead" /\ q[j].by = "lead" => i = j
ReleasedBefore(q) == \A i, j \in DOMAIN q : q[i].kind = "release" /\ q[j].by = "lead" => i < j

\* How long a command is waited for.
Waited(q) ==
    \A i \in DOMAIN q :
        /\ q[i].kind = "release" => q[i].by = "nobody"
        /\ q[i].by = "lead" => q[i].age <= 2 * Quarter
        /\ q[i].by = "renew" => q[i].age <= Quarter

Queue(q) ==
    q \in Seq(Call) /\ Ordered(q) /\ OneStart(q) /\ ReleasedBefore(q) /\ Waited(q)

NoStart(q) == \A i \in DOMAIN q : q[i].by # "lead"
Released(q) == \A i \in DOMAIN q : q[i].kind = "release" => q[i].done
HasRenewal(q) == \E i \in DOMAIN q : q[i].by = "renew"

\* The lock is k's, for what is left of a lifetime that began that long ago.
Owns(l, k, age) == l.holder = k /\ l.left + age >= Ttl

\* An answer that makes or keeps k the leader is true when it comes.
Answered(k, l, q, ld) ==
    \A i \in DOMAIN q :
        q[i].done /\ q[i].held /\ (q[i].by = "lead" \/ (ld /\ q[i].by = "renew"))
            => Owns(l, k, q[i].age)

\* The coordinator k, with the lock l, its commands q, its start st, and whether it
\* leads (ld), the ticks since its last renewal (sc), its timer (tm) and whether it
\* renews (rn).
Sound(k, l, q, st, ld, sc, tm, rn) ==
    /\ Queue(q)
    /\ Answered(k, l, q, ld)
    /\ ld => /\ NoStart(q) /\ Released(q) /\ st # "resting"
             /\ tm \in 0..Quarter /\ sc \in Nat /\ sc + tm <= 3 * Quarter
             /\ Owns(l, k, sc)
             /\ rn => HasRenewal(q)
    /\ ~ld => tm = -1
    /\ st = "resting" => NoStart(q)

Present(k) == Sound(k, lock, calls[k], start[k], leading[k], since[k], timer[k], renewing[k])

IInv == TypeOK /\ \A k \in Coordinators : Present(k)

-----------------------------------------------------------------------------
(* Sequences.                                                              *)

LEMMA Removed ==
    ASSUME NEW S, NEW q \in Seq(S), NEW i \in 1..Len(q)
    PROVE  /\ RemoveAt(q, i) \in Seq(S) /\ Len(RemoveAt(q, i)) = Len(q) - 1
           /\ \A j \in 1..Len(q) - 1 : RemoveAt(q, i)[j] = IF j < i THEN q[j] ELSE q[j + 1]
  <1> DEFINE a == SubSeq(q, 1, i - 1)
             b == SubSeq(q, i + 1, Len(q))
  <1>1. Len(q) \in Nat /\ \A j \in 1..Len(q) : q[j] \in S
    BY LenProperties, ElementOfSeq
  <1>2. /\ a \in Seq(S) /\ Len(a) = i - 1
        /\ \A j \in 1..i - 1 : a[j] = q[j]
    <2>1. \A j \in 1..i - 1 : q[j] \in S
      BY <1>1
    <2>2. /\ SubSeq(q, 1, i - 1) \in Seq(S)
          /\ Len(SubSeq(q, 1, i - 1)) = IF 1 <= i - 1 THEN (i - 1) - 1 + 1 ELSE 0
          /\ \A j \in 1..(i - 1) - 1 + 1 : SubSeq(q, 1, i - 1)[j] = q[1 + j - 1]
      BY <1>1, <2>1, SubSeqProperties
    <2> QED BY <1>1, <2>2
  <1>3. /\ b \in Seq(S) /\ Len(b) = Len(q) - i
        /\ \A j \in 1..Len(q) - i : b[j] = q[i + j]
    <2>1. \A j \in i + 1..Len(q) : q[j] \in S
      BY <1>1
    <2>2. /\ SubSeq(q, i + 1, Len(q)) \in Seq(S)
          /\ Len(SubSeq(q, i + 1, Len(q))) =
                IF i + 1 <= Len(q) THEN Len(q) - (i + 1) + 1 ELSE 0
          /\ \A j \in 1..Len(q) - (i + 1) + 1 : SubSeq(q, i + 1, Len(q))[j] = q[(i + 1) + j - 1]
      BY <1>1, <2>1, SubSeqProperties
    <2> QED BY <1>1, <2>2
  <1>4. RemoveAt(q, i) = a \o b
    BY DEF RemoveAt
  <1> HIDE DEF a, b
  <1>5. /\ a \o b \in Seq(S) /\ Len(a \o b) = Len(a) + Len(b)
        /\ \A j \in 1..Len(a) + Len(b) : (a \o b)[j] = IF j <= Len(a) THEN a[j] ELSE b[j - Len(a)]
    BY <1>2, <1>3, ConcatProperties
  <1> QED BY <1>1, <1>2, <1>3, <1>4, <1>5

\* A set of numbers that is not empty has a least one.
LEMMA Smallest ==
    ASSUME NEW T \in SUBSET Nat, T # {}
    PROVE  \E x \in T : \A y \in T : x <= y
  <1>1. PICK x \in T : \A y \in T : <<y, x>> \notin OpToRel(<, Nat)
    BY NatLessThanWellFounded, WFMin
  <1>2. \A y \in T : ~(y < x)
    BY <1>1 DEF OpToRel
  <1>3. x \in T /\ \A y \in T : x <= y
    BY <1>2
  <1> QED BY <1>3

-----------------------------------------------------------------------------
(* The commands of a coordinator.                                          *)

\* A command of r that Redis carried out is one of q, whose answer nobody new awaits.
From(r, q) ==
    \A j \in DOMAIN r : r[j].done =>
        \E i \in DOMAIN q : /\ q[i].done /\ q[i].held = r[j].held /\ q[i].age = r[j].age
                            /\ r[j].by \in {q[i].by, "nobody"}

LEMMA FromAnswered ==
    ASSUME NEW k, NEW l, NEW q, NEW r, NEW ld, Answered(k, l, q, ld), From(r, q)
    PROVE  Answered(k, l, r, ld)
  <1> SUFFICES ASSUME NEW j \in DOMAIN r, r[j].done, r[j].held,
                      r[j].by = "lead" \/ (ld /\ r[j].by = "renew")
               PROVE  Owns(l, k, r[j].age)
    BY DEF Answered
  <1>1. PICK i \in DOMAIN q : /\ q[i].done /\ q[i].held = r[j].held /\ q[i].age = r[j].age
                              /\ r[j].by \in {q[i].by, "nobody"}
    BY DEF From
  <1>2. q[i].by = r[j].by
    BY <1>1
  <1> QED BY <1>1, <1>2 DEF Answered

\* A command is answered or lost.
LEMMA RemoveQueue ==
    ASSUME NEW q, Queue(q), NEW i \in DOMAIN q
    PROVE  LET r == RemoveAt(q, i) IN
           /\ Queue(r) /\ From(r, q)
           /\ NoStart(q) \/ q[i].by = "lead" => NoStart(r)
           /\ Released(q) => Released(r)
           /\ HasRenewal(q) /\ q[i].by # "renew" => HasRenewal(r)
           /\ q[i].by = "lead" /\ q[i].done => Released(r)
  <1> DEFINE r == RemoveAt(q, i)
             at(j) == IF j < i THEN j ELSE j + 1
  <1>1. q \in Seq(Call) /\ DOMAIN q = 1..Len(q) /\ Len(q) \in Nat /\ i \in 1..Len(q)
    BY LenProperties DEF Queue
  <1>2. /\ r \in Seq(Call) /\ Len(r) = Len(q) - 1
        /\ \A j \in 1..Len(q) - 1 : r[j] = IF j < i THEN q[j] ELSE q[j + 1]
    BY <1>1, Removed
  <1>3. DOMAIN r = 1..Len(q) - 1
    BY <1>2, LenProperties
  <1> HIDE DEF r
  <1>4. \A j \in DOMAIN r : at(j) \in DOMAIN q /\ r[j] = q[at(j)] /\ at(j) # i
    BY <1>1, <1>2, <1>3
  <1>5. \A j, m \in DOMAIN r : /\ j < m => at(j) < at(m)
                               /\ at(j) < at(m) => j < m
                               /\ at(j) = at(m) => j = m
    BY <1>1, <1>3
  <1>6. \A m \in DOMAIN q \ {i} : \E j \in DOMAIN r : r[j] = q[m]
    <2> SUFFICES ASSUME NEW m \in DOMAIN q \ {i} PROVE \E j \in DOMAIN r : r[j] = q[m]
      OBVIOUS
    <2>1. CASE m < i
      <3>1. m \in 1..Len(q) - 1 /\ r[m] = q[m]
        BY <1>1, <1>2, <2>1
      <3> QED BY <1>3, <3>1
    <2>2. CASE m > i
      <3>1. m - 1 \in 1..Len(q) - 1 /\ r[m - 1] = q[m]
        BY <1>1, <1>2, <2>2
      <3> QED BY <1>3, <3>1
    <2> QED BY <1>1, <2>1, <2>2
  <1> HIDE DEF at
  <1>7. Queue(r)
    <2>1. Ordered(r)
      BY <1>4, <1>5 DEF Queue, Ordered
    <2>2. OneStart(r)
      BY <1>4, <1>5 DEF Queue, OneStart
    <2>3. ReleasedBefore(r)
      BY <1>4, <1>5 DEF Queue, ReleasedBefore
    <2>4. Waited(r)
      BY <1>4 DEF Queue, Waited
    <2> QED BY <1>2, <2>1, <2>2, <2>3, <2>4 DEF Queue
  <1>8. From(r, q)
    BY <1>4 DEF From
  <1>9. NoStart(q) \/ q[i].by = "lead" => NoStart(r)
    BY <1>4 DEF Queue, OneStart, NoStart
  <1>10. Released(q) => Released(r)
    BY <1>4 DEF Released
  <1>11. HasRenewal(q) /\ q[i].by # "renew" => HasRenewal(r)
    BY <1>6 DEF HasRenewal
  <1>12. q[i].by = "lead" /\ q[i].done => Released(r)
    BY <1>4 DEF Queue, ReleasedBefore, Ordered, Released
  <1> QED BY <1>7, <1>8, <1>9, <1>10, <1>11, <1>12 DEF r

\* A command is sent; a start or a release while no start is under way.
LEMMA AppendQueue ==
    ASSUME NEW q, Queue(q), NEW c \in Call, ~c.done, c.age = 0,
           c.kind = "release" => c.by = "nobody",
           c.by = "lead" \/ c.kind = "release" => NoStart(q)
    PROVE  LET r == Append(q, c) IN
           /\ Queue(r) /\ From(r, q)
           /\ NoStart(q) /\ c.by # "lead" => NoStart(r)
           /\ Released(q) /\ c.kind # "release" => Released(r)
           /\ c.by = "renew" => HasRenewal(r)
  <1> DEFINE r == Append(q, c)
             n == Len(q) + 1
  <1>1. q \in Seq(Call) /\ DOMAIN q = 1..Len(q) /\ Len(q) \in Nat
    BY LenProperties DEF Queue
  <1>2. /\ r \in Seq(Call) /\ DOMAIN r = 1..n /\ r[n] = c
        /\ \A j \in DOMAIN q : r[j] = q[j]
    BY <1>1
  <1>3. \A j \in DOMAIN r : (j \in DOMAIN q /\ r[j] = q[j] /\ j < n) \/ (j = n /\ r[j] = c)
    BY <1>1, <1>2
  <1>4. n \in DOMAIN r
    BY <1>1, <1>2
  <1>10. Quarter \in Nat
    BY LeaderAssumption
  <1> HIDE DEF r
  <1>5. Queue(r)
    <2>1. Ordered(r)
      <3> SUFFICES ASSUME NEW i \in DOMAIN r, NEW j \in DOMAIN r, i < j, r[j].done
                   PROVE  r[i].done
        BY DEF Ordered
      <3>1. j \in DOMAIN q /\ i \in DOMAIN q
        BY <1>1, <1>3
      <3> QED BY <1>2, <3>1 DEF Queue, Ordered
    <2>2. OneStart(r)
      BY <1>3 DEF Queue, OneStart, NoStart
    <2>3. ReleasedBefore(r)
      BY <1>3 DEF Queue, ReleasedBefore, NoStart
    <2>4. Waited(r)
      BY <1>3, <1>10 DEF Queue, Waited
    <2> QED BY <1>2, <2>1, <2>2, <2>3, <2>4 DEF Queue
  <1>6. From(r, q)
    BY <1>3 DEF From
  <1>7. NoStart(q) /\ c.by # "lead" => NoStart(r)
    BY <1>3 DEF NoStart
  <1>8. Released(q) /\ c.kind # "release" => Released(r)
    BY <1>3 DEF Released
  <1>9. c.by = "renew" => HasRenewal(r)
    BY <1>2, <1>4 DEF HasRenewal
  <1> QED BY <1>5, <1>6, <1>7, <1>8, <1>9 DEF r

\* Commands that nobody awaits any more, or that belong to a start that is over.
LEMMA UpdateQueue ==
    ASSUME NEW q, Queue(q), NEW r \in Seq(Call), DOMAIN r = DOMAIN q,
           \A j \in DOMAIN q : /\ r[j].kind = q[j].kind /\ r[j].done = q[j].done
                               /\ r[j].held = q[j].held /\ r[j].age = q[j].age
                               /\ r[j].by \in {q[j].by, "nobody"}
    PROVE  /\ Queue(r) /\ From(r, q)
           /\ NoStart(q) => NoStart(r)
           /\ Released(q) => Released(r)
  <1>1. Ordered(r) /\ OneStart(r) /\ ReleasedBefore(r) /\ Waited(r)
    <2>1. Ordered(r)
      BY DEF Queue, Ordered
    <2>2. OneStart(r)
      BY DEF Queue, OneStart
    <2>3. ReleasedBefore(r)
      BY DEF Queue, ReleasedBefore
    <2>4. Waited(r)
      BY DEF Queue, Waited
    <2> QED BY <2>1, <2>2, <2>3, <2>4
  <1>2. From(r, q)
    BY DEF From
  <1>3. NoStart(q) => NoStart(r)
    BY DEF NoStart
  <1>4. Released(q) => Released(r)
    BY DEF Released
  <1> QED BY <1>1, <1>2, <1>3, <1>4 DEF Queue

-----------------------------------------------------------------------------
(* What a coordinator does, on its values.                                 *)

\* The commands that are sent.
LEMMA SentCall ==
    ASSUME NEW kind \in {"acquire", "release"}, NEW by \in {"lead", "renew", "nobody"}
    PROVE  /\ Sent(kind, by) \in Call
           /\ Sent(kind, by).kind = kind /\ Sent(kind, by).by = by
           /\ ~Sent(kind, by).done /\ Sent(kind, by).age = 0
  <1>1. 0 \in 0..Ttl
    BY LeaderAssumption DEF Ttl
  <1> QED BY <1>1 DEF Sent, Call

\* Whoever does not lead has only its starts to answer for.
LEMMA IdleSound ==
    ASSUME NEW k, NEW l, NEW q, NEW st, NEW ld \in BOOLEAN, NEW sc, NEW rn,
           Queue(q), Answered(k, l, q, ld), st = "resting" => NoStart(q)
    PROVE  Sound(k, l, q, st, FALSE, sc, -1, rn)
  BY DEF Sound, Answered

\* Ask
LEMMA AskSound ==
    ASSUME NEW k, NEW l, NEW q, NEW sc, NEW rn, Queue(q), NoStart(q)
    PROVE  Sound(k, l, Append(q, Sent("acquire", "lead")), "asking", FALSE, sc, -1, rn)
  <1> DEFINE c == Sent("acquire", "lead")
             r == Append(q, c)
  <1>1. /\ c \in Call /\ c.kind = "acquire" /\ c.by = "lead" /\ ~c.done /\ c.age = 0
    BY SentCall
  <1> HIDE DEF c
  <1>2. Queue(r) /\ From(r, q)
    BY <1>1, AppendQueue
  <1>3. Answered(k, l, q, FALSE)
    BY DEF NoStart, Answered
  <1> HIDE DEF r
  <1>4. Answered(k, l, r, FALSE)
    BY <1>2, <1>3, FromAnswered
  <1> QED BY <1>2, <1>4, IdleSound DEF r, c

\* Resign, of somebody that leads or that has a start to give up.
LEMMA ResignSound ==
    ASSUME NEW k, NEW l, NEW q, NEW st, NEW ld \in BOOLEAN, NEW sc, NEW rn,
           Queue(q), Answered(k, l, q, ld), NoStart(q)
    PROVE  Sound(k, l, Append(q, Sent("release", "nobody")), st, FALSE, sc, -1, rn)
  <1> DEFINE c == Sent("release", "nobody")
             r == Append(q, c)
  <1>1. /\ c \in Call /\ c.kind = "release" /\ c.by = "nobody" /\ ~c.done /\ c.age = 0
    BY SentCall
  <1> HIDE DEF c
  <1>2. Queue(r) /\ From(r, q) /\ NoStart(r)
    BY <1>1, AppendQueue
  <1> HIDE DEF r
  <1>3. Answered(k, l, r, ld)
    BY <1>2, FromAnswered
  <1> QED BY <1>2, <1>3, IdleSound DEF r, c

\* Staled changes what nobody counts.
LEMMA StaledQueue ==
    ASSUME NEW q, Queue(q)
    PROVE  /\ Queue(Staled(q)) /\ From(Staled(q), q)
           /\ NoStart(q) => NoStart(Staled(q))
           /\ Released(q) => Released(Staled(q))
           /\ HasRenewal(q) => HasRenewal(Staled(q))
  <1> DEFINE r == Staled(q)
             e(i) == [q[i] EXCEPT !.stale = @ \/ q[i].by = "lead"]
  <1>1. q \in Seq(Call) /\ DOMAIN q = 1..Len(q) /\ Len(q) \in Nat
    BY LenProperties DEF Queue
  <1>2. \A i \in DOMAIN q :
            /\ e(i) \in Call /\ e(i).kind = q[i].kind /\ e(i).done = q[i].done
            /\ e(i).held = q[i].held /\ e(i).age = q[i].age /\ e(i).by = q[i].by
    <2> SUFFICES ASSUME NEW c \in Call, NEW b \in BOOLEAN
                 PROVE  LET d == [c EXCEPT !.stale = b] IN
                        /\ d \in Call /\ d.kind = c.kind /\ d.done = c.done
                        /\ d.held = c.held /\ d.age = c.age /\ d.by = c.by
      <3>1. \A i \in DOMAIN q : q[i] \in Call
        BY <1>1
      <3>2. \A i \in DOMAIN q : (q[i].stale \/ q[i].by = "lead") \in BOOLEAN
        BY Zenon
      <3> QED BY <3>1, <3>2
    <2> QED BY DEF Call
  <1>3. r = [i \in 1..Len(q) |-> e(i)]
    BY <1>1 DEF Staled
  <1> HIDE DEF e
  <1>4. r \in Seq(Call) /\ DOMAIN r = DOMAIN q /\ \A i \in DOMAIN q : r[i] = e(i)
    BY <1>1, <1>2, <1>3
  <1> HIDE DEF r
  <1>5. Queue(r) /\ From(r, q) /\ (NoStart(q) => NoStart(r)) /\ (Released(q) => Released(r))
    BY <1>2, <1>4, UpdateQueue
  <1>6. HasRenewal(q) => HasRenewal(r)
    BY <1>2, <1>4 DEF HasRenewal
  <1> QED BY <1>5, <1>6 DEF r

\* #startRenewing
LEMMA NewTermQueue ==
    ASSUME NEW q, Queue(q)
    PROVE  /\ Queue(NewTerm(q))
           /\ NoStart(q) => NoStart(NewTerm(q))
           /\ Released(q) => Released(NewTerm(q))
           /\ ~HasRenewal(NewTerm(q))
  <1> DEFINE r == NewTerm(q)
             e(i) == IF q[i].by = "renew" THEN [q[i] EXCEPT !.by = "nobody"] ELSE q[i]
  <1>1. q \in Seq(Call) /\ DOMAIN q = 1..Len(q) /\ Len(q) \in Nat
    BY LenProperties DEF Queue
  <1>2. \A i \in DOMAIN q :
            /\ e(i) \in Call /\ e(i).kind = q[i].kind /\ e(i).done = q[i].done
            /\ e(i).held = q[i].held /\ e(i).age = q[i].age
            /\ e(i).by \in {q[i].by, "nobody"} /\ e(i).by # "renew"
    <2> SUFFICES ASSUME NEW c \in Call
                 PROVE  LET d == IF c.by = "renew" THEN [c EXCEPT !.by = "nobody"] ELSE c IN
                        /\ d \in Call /\ d.kind = c.kind /\ d.done = c.done
                        /\ d.held = c.held /\ d.age = c.age
                        /\ d.by \in {c.by, "nobody"} /\ d.by # "renew"
      <3>1. \A i \in DOMAIN q : q[i] \in Call
        BY <1>1
      <3> QED BY <3>1
    <2> QED BY DEF Call
  <1>3. r = [i \in 1..Len(q) |-> e(i)]
    BY <1>1 DEF NewTerm
  <1> HIDE DEF e
  <1>4. r \in Seq(Call) /\ DOMAIN r = DOMAIN q /\ \A i \in DOMAIN q : r[i] = e(i)
    BY <1>1, <1>2, <1>3
  <1> HIDE DEF r
  <1>5. Queue(r) /\ (NoStart(q) => NoStart(r)) /\ (Released(q) => Released(r))
    BY <1>2, <1>4, UpdateQueue
  <1>6. ~HasRenewal(r)
    BY <1>2, <1>4 DEF HasRenewal
  <1> QED BY <1>5, <1>6 DEF r

LEMMA LeadSound ==
    ASSUME NEW k, NEW l, NEW q, NEW age \in Nat, age <= 2 * Quarter,
           Queue(q), NoStart(q), Released(q), Owns(l, k, age)
    PROVE  Sound(k, l, NewTerm(q), "leading", TRUE, age, Quarter, FALSE)
  <1> DEFINE r == NewTerm(q)
  <1>1. Queue(r) /\ NoStart(r) /\ Released(r) /\ ~HasRenewal(r)
    BY NewTermQueue
  <1> HIDE DEF r
  <1>2. Answered(k, l, r, TRUE)
    BY <1>1 DEF Answered, NoStart, HasRenewal
  <1>3. Quarter \in 0..Quarter /\ age + Quarter <= 3 * Quarter
    BY LeaderAssumption
  <1> QED BY <1>1, <1>2, <1>3 DEF Sound, r

\* The command i is waited for no longer.
LEMMA ForsakenQueue ==
    ASSUME NEW q, Queue(q), NEW i \in DOMAIN q
    PROVE  LET r == [q EXCEPT ![i] = [@ EXCEPT !.by = "nobody"]] IN
           /\ Queue(r) /\ From(r, q)
           /\ NoStart(q) \/ q[i].by = "lead" => NoStart(r)
           /\ Released(q) => Released(r)
  <1> DEFINE e == [q[i] EXCEPT !.by = "nobody"]
             r == [q EXCEPT ![i] = e]
  <1>1. q \in Seq(Call) /\ q[i] \in Call /\ i \in 1..Len(q) /\ DOMAIN q = 1..Len(q)
    BY LenProperties, ElementOfSeq DEF Queue
  <1>2. /\ e \in Call /\ e.kind = q[i].kind /\ e.done = q[i].done
        /\ e.held = q[i].held /\ e.age = q[i].age /\ e.by = "nobody"
    BY <1>1 DEF Call
  <1> HIDE DEF e
  <1>3. /\ r \in Seq(Call) /\ DOMAIN r = DOMAIN q /\ r[i] = e
        /\ \A j \in DOMAIN q \ {i} : r[j] = q[j]
    BY <1>1, <1>2, ExceptSeq, LenProperties
  <1>6. r = [q EXCEPT ![i] = [@ EXCEPT !.by = "nobody"]]
    BY DEF e
  <1> HIDE DEF r
  <1>4. Queue(r) /\ From(r, q) /\ (NoStart(q) => NoStart(r)) /\ (Released(q) => Released(r))
    BY <1>2, <1>3, UpdateQueue
  <1>5. q[i].by = "lead" => NoStart(r)
    BY <1>2, <1>3 DEF Queue, OneStart, NoStart
  <1> QED BY <1>4, <1>5, <1>6

-----------------------------------------------------------------------------
(* Steps of one coordinator.                                               *)

Locks == [holder: Coordinators \cup {Nobody}, left: 0..Ttl]
Starts == {"none", "asking", "resting", "leading"}

\* What j owns in the lock l, it owns in m.
Retained(j, l, m) == \A age \in Nat : age < Ttl /\ Owns(l, j, age) => Owns(m, j, age)

LEMMA KeptSound ==
    ASSUME NEW j, NEW l, NEW m, Retained(j, l, m), NEW q, NEW st, NEW ld, NEW sc, NEW tm, NEW rn,
           Sound(j, l, q, st, ld, sc, tm, rn)
    PROVE  Sound(j, m, q, st, ld, sc, tm, rn)
  <1>1. Quarter \in Nat \ {0} /\ Ttl = 4 * Quarter
    BY LeaderAssumption DEF Ttl
  <1>2. \A i \in DOMAIN q : q[i].age \in Nat
    <2>1. \A i \in DOMAIN q : q[i] \in Call
      BY LenProperties, ElementOfSeq DEF Sound, Queue
    <2>2. \A c \in Call : c.age \in Nat
      BY <1>1 DEF Call
    <2> QED BY <2>1, <2>2
  <1>3. Answered(j, m, q, ld)
    <2> SUFFICES ASSUME NEW i \in DOMAIN q, q[i].done, q[i].held,
                        q[i].by = "lead" \/ (ld /\ q[i].by = "renew")
                 PROVE  Owns(m, j, q[i].age)
      BY DEF Answered
    <2>1. q[i].age \in Nat /\ q[i].age < Ttl
      BY <1>1, <1>2 DEF Sound, Queue, Waited
    <2>2. Owns(l, j, q[i].age)
      BY DEF Sound, Answered
    <2> QED BY <2>1, <2>2 DEF Retained
  <1>4. ld => Owns(m, j, sc)
    <2> SUFFICES ASSUME ld PROVE Owns(m, j, sc)
      OBVIOUS
    <2>1. sc \in Nat /\ tm \in 0..Quarter /\ sc + tm <= 3 * Quarter /\ Owns(l, j, sc)
      BY DEF Sound
    <2>2. sc < Ttl
      BY <1>1, <2>1
    <2> QED BY <2>1, <2>2 DEF Retained
  <1> QED BY <1>3, <1>4 DEF Sound

\* What k alone assigns.
Turns(k, l, q, st, ld, sc, tm, rn) ==
    /\ l \in Locks /\ st \in Starts /\ ld \in BOOLEAN /\ sc \in 0..Ttl
    /\ tm \in -1..Quarter /\ rn \in BOOLEAN
    /\ lock' = l /\ calls' = [calls EXCEPT ![k] = q] /\ start' = [start EXCEPT ![k] = st]
    /\ leading' = [leading EXCEPT ![k] = ld] /\ since' = [since EXCEPT ![k] = sc]
    /\ timer' = [timer EXCEPT ![k] = tm] /\ renewing' = [renewing EXCEPT ![k] = rn]
    /\ stops' \in [Coordinators -> BOOLEAN] /\ commands' \in 0..MaxCommands

\* It may change the lock if nobody else owns it.
LEMMA Steps ==
    ASSUME IInv, NEW k \in Coordinators, NEW l, NEW q, NEW st, NEW ld, NEW sc, NEW tm, NEW rn,
           Turns(k, l, q, st, ld, sc, tm, rn), Sound(k, l, q, st, ld, sc, tm, rn),
           \A j \in Coordinators \ {k} : Retained(j, lock, l)
    PROVE  IInv'
  <1> USE DEF Turns
  <1>1. q \in Seq(Call)
    BY DEF Sound, Queue
  <1>2. TypeOK'
    BY <1>1 DEF IInv, TypeOK, Locks, Starts
  <1>3. ASSUME NEW j \in Coordinators PROVE Present(j)'
    <2>1. CASE j = k
      BY <2>1 DEF Present, IInv, TypeOK
    <2>2. CASE j # k
      <3>1. /\ calls'[j] = calls[j] /\ start'[j] = start[j] /\ leading'[j] = leading[j]
            /\ since'[j] = since[j] /\ timer'[j] = timer[j] /\ renewing'[j] = renewing[j]
        BY <2>2 DEF IInv, TypeOK
      <3>2. Sound(j, lock', calls[j], start[j], leading[j], since[j], timer[j], renewing[j])
        BY <2>2, KeptSound DEF IInv, Present
      <3> QED BY <3>1, <3>2 DEF Present
    <2> QED BY <2>1, <2>2
  <1> QED BY <1>2, <1>3 DEF IInv

LEMMA Types ==
    ASSUME IInv, NEW k \in Coordinators
    PROVE  /\ lock \in Locks /\ start[k] \in Starts /\ stops[k] \in BOOLEAN
           /\ leading[k] \in BOOLEAN /\ since[k] \in 0..Ttl /\ timer[k] \in -1..Quarter
           /\ renewing[k] \in BOOLEAN
           /\ Present(k) /\ Queue(calls[k]) /\ Answered(k, lock, calls[k], leading[k])
           /\ \A j \in Coordinators : Retained(j, lock, lock)
  BY DEF IInv, TypeOK, Locks, Starts, Present, Sound, Retained

\* What is not assigned keeps its value.
LEMMA Same ==
    ASSUME IInv, NEW k \in Coordinators
    PROVE  /\ calls = [calls EXCEPT ![k] = calls[k]] /\ start = [start EXCEPT ![k] = start[k]]
           /\ leading = [leading EXCEPT ![k] = leading[k]]
           /\ since = [since EXCEPT ![k] = since[k]] /\ timer = [timer EXCEPT ![k] = timer[k]]
           /\ renewing = [renewing EXCEPT ![k] = renewing[k]]
           /\ stops \in [Coordinators -> BOOLEAN] /\ commands \in 0..MaxCommands
           /\ \A b \in BOOLEAN : [stops EXCEPT ![k] = b] \in [Coordinators -> BOOLEAN]
           /\ commands < MaxCommands => commands + 1 \in 0..MaxCommands
  BY LeaderAssumption DEF IInv, TypeOK

LEMMA Values ==
    /\ {"asking", "none", "resting", "leading"} \subseteq Starts
    /\ -1 \in -1..Quarter /\ Quarter \in -1..Quarter
    /\ TRUE \in BOOLEAN /\ FALSE \in BOOLEAN
  BY LeaderAssumption DEF Starts

LEMMA CallSpawnStep ==
    ASSUME IInv, ~SpawnsOver, NEW k \in Coordinators, CallSpawn(k)
    PROVE  IInv'
  <1> DEFINE r == Append(calls[k], Sent("acquire", "lead"))
  <1>1. NoStart(calls[k]) /\ leading[k] = FALSE /\ timer[k] = -1
    <2>1. ~StartOut(k) /\ ~leading[k]
      BY DEF CallSpawn
    <2> QED BY <2>1, Types DEF StartOut, NoStart, Present, Sound
  <1>2. Sound(k, lock, r, "asking", FALSE, since[k], -1, renewing[k])
    BY <1>1, Types, AskSound
  <1>3. /\ lock' = lock /\ calls' = [calls EXCEPT ![k] = r]
        /\ start' = [start EXCEPT ![k] = "asking"] /\ leading' = leading /\ since' = since
        /\ timer' = timer /\ renewing' = renewing /\ stops' = stops
        /\ commands < MaxCommands /\ commands' = commands + 1
    BY DEF CallSpawn, Ask, Command
  <1> HIDE DEF r
  <1>4. Turns(k, lock, r, "asking", FALSE, since[k], -1, renewing[k])
    BY <1>1, <1>3, Types, Same, Values DEF Turns
  <1> QED BY <1>2, <1>4, Types, Steps

LEMMA AsksAgainStep ==
    ASSUME IInv, NEW k \in Coordinators, AsksAgain(k)
    PROVE  IInv'
  <1> DEFINE r == Append(calls[k], Sent("acquire", "lead"))
  <1>1. NoStart(calls[k]) /\ leading[k] = FALSE /\ timer[k] = -1
    <2>1. start[k] = "resting"
      BY DEF AsksAgain
    <2> QED BY <2>1, Types DEF Present, Sound
  <1>2. Sound(k, lock, r, "asking", FALSE, since[k], -1, renewing[k])
    BY <1>1, Types, AskSound
  <1>3. /\ lock' = lock /\ calls' = [calls EXCEPT ![k] = r]
        /\ start' = [start EXCEPT ![k] = "asking"] /\ leading' = leading /\ since' = since
        /\ timer' = timer /\ renewing' = renewing /\ stops' = stops /\ commands' = commands
    BY DEF AsksAgain, Ask
  <1> HIDE DEF r
  <1>4. Turns(k, lock, r, "asking", FALSE, since[k], -1, renewing[k])
    BY <1>1, <1>3, Types, Same, Values DEF Turns
  <1> QED BY <1>2, <1>4, Types, Steps

\* Resign after the commands q.
LEMMA Resigned ==
    ASSUME IInv, NEW k \in Coordinators, NEW q, Queue(q), From(q, calls[k]),
           NoStart(calls[k]) => NoStart(q), NEW st \in Starts \ {"resting"}
    PROVE  LET r == IF leading[k] THEN Append(q, Sent("release", "nobody")) ELSE q IN
           Sound(k, lock, r, st, FALSE, since[k], -1, renewing[k])
  <1>1. Answered(k, lock, q, leading[k])
    BY Types, FromAnswered
  <1>2. CASE leading[k]
    <2>1. NoStart(q)
      BY <1>2, Types DEF Present, Sound
    <2> QED BY <1>1, <1>2, <2>1, Types, ResignSound
  <1>3. CASE ~leading[k]
    BY <1>1, <1>3, Types, IdleSound
  <1> QED BY <1>2, <1>3

LEMMA CallKillStep ==
    ASSUME IInv, NEW k \in Coordinators, CallKill(k)
    PROVE  IInv'
  <1> DEFINE q == Staled(calls[k])
             r == IF leading[k] THEN Append(q, Sent("release", "nobody")) ELSE q
  <1>1. Queue(q) /\ From(q, calls[k]) /\ (NoStart(calls[k]) => NoStart(q))
    BY Types, StaledQueue
  <1>2. Sound(k, lock, r, "none", FALSE, since[k], -1, renewing[k])
    <2> HIDE DEF q
    <2> QED BY <1>1, Resigned, Values
  <1>3. /\ lock' = lock /\ calls' = [calls EXCEPT ![k] = r]
        /\ start' = [start EXCEPT ![k] = "none"] /\ leading' = [leading EXCEPT ![k] = FALSE]
        /\ since' = since /\ timer' = [timer EXCEPT ![k] = -1] /\ renewing' = renewing
        /\ stops' = stops /\ commands < MaxCommands /\ commands' = commands + 1
    BY DEF CallKill, Resign, Idle, Command
  <1> HIDE DEF r
  <1>4. Turns(k, lock, r, "none", FALSE, since[k], -1, renewing[k])
    BY <1>3, Types, Same, Values DEF Turns
  <1> QED BY <1>2, <1>4, Types, Steps

LEMMA ShutdownEndsStep ==
    ASSUME IInv, NEW k \in Coordinators, ShutdownEnds(k)
    PROVE  IInv'
  <1> DEFINE q == calls[k]
             r == IF leading[k] THEN Append(q, Sent("release", "nobody")) ELSE q
  <1>1. Queue(q) /\ From(q, calls[k]) /\ NoStart(q)
    BY Types DEF From, ShutdownEnds, StartOut, NoStart
  <1>2. Sound(k, lock, r, start[k], FALSE, since[k], -1, renewing[k])
    <2>1. Answered(k, lock, q, leading[k])
      BY Types
    <2>2. CASE leading[k]
      BY <1>1, <2>1, <2>2, Types, ResignSound
    <2>3. CASE ~leading[k]
      BY <1>1, <2>1, <2>3, Types, IdleSound
    <2> QED BY <2>2, <2>3
  <1>3. /\ lock' = lock /\ calls' = [calls EXCEPT ![k] = r]
        /\ start' = start /\ leading' = [leading EXCEPT ![k] = FALSE]
        /\ since' = since /\ timer' = [timer EXCEPT ![k] = -1] /\ renewing' = renewing
        /\ stops' = [stops EXCEPT ![k] = FALSE] /\ commands' = commands
    BY DEF ShutdownEnds, Resign, Idle
  <1> HIDE DEF r
  <1>4. Turns(k, lock, r, start[k], FALSE, since[k], -1, renewing[k])
    BY <1>3, Types, Same, Values DEF Turns
  <1> QED BY <1>2, <1>4, Types, Steps

LEMMA CallShutdownStep ==
    ASSUME IInv, NEW k \in Coordinators, CallShutdown(k)
    PROVE  IInv'
  <1> DEFINE r == Staled(calls[k])
  <1>1. /\ Queue(r) /\ From(r, calls[k]) /\ (NoStart(calls[k]) => NoStart(r))
        /\ Released(calls[k]) => Released(r)
        /\ HasRenewal(calls[k]) => HasRenewal(r)
    BY Types, StaledQueue
  <1>2. Answered(k, lock, r, leading[k])
    BY <1>1, Types, FromAnswered
  <1>3. /\ lock' = lock /\ calls' = [calls EXCEPT ![k] = r]
        /\ start' = [start EXCEPT ![k] = "none"] /\ leading' = leading
        /\ since' = since /\ timer' = timer /\ renewing' = renewing
        /\ stops' = [stops EXCEPT ![k] = TRUE] /\ commands' \in 0..MaxCommands
    BY Same DEF CallShutdown, Command
  <1> HIDE DEF r
  <1>4. Sound(k, lock, r, "none", leading[k], since[k], timer[k], renewing[k])
    BY <1>1, <1>2, Types DEF Present, Sound
  <1>5. Turns(k, lock, r, "none", leading[k], since[k], timer[k], renewing[k])
    BY <1>3, Types, Same, Values DEF Turns
  <1> QED BY <1>4, <1>5, Types, Steps

\* What another coordinator owns, the lock of k does not take.
LEMMA OthersKept ==
    ASSUME NEW k, NEW j, j # k, NEW l, NEW m, l.holder = k
    PROVE  Retained(j, l, m)
  BY DEF Retained, Owns

LEMMA CrashesStep ==
    ASSUME IInv, NEW k \in Coordinators, Crashes(k)
    PROVE  IInv'
  <1> DEFINE l == IF lock.holder = k THEN [lock EXCEPT !.holder = Nobody] ELSE lock
             r == <<>>
  <1>1. Sound(k, l, r, "none", FALSE, since[k], -1, FALSE)
    <2>1. /\ r \in Seq(Call) /\ DOMAIN r = {}
      OBVIOUS
    <2> HIDE DEF r, l
    <2>2. Queue(r) /\ Answered(k, l, r, FALSE)
      BY <2>1 DEF Queue, Ordered, OneStart, ReleasedBefore, Waited, Answered
    <2> QED BY <2>2, IdleSound
  <1>2. l \in Locks
    <2>1. lock \in Locks
      BY Types
    <2> QED BY <2>1 DEF Locks
  <1>3. \A j \in Coordinators \ {k} : Retained(j, lock, l)
    BY OthersKept, Types
  <1>4. /\ lock' = l /\ calls' = [calls EXCEPT ![k] = r]
        /\ start' = [start EXCEPT ![k] = "none"] /\ leading' = [leading EXCEPT ![k] = FALSE]
        /\ since' = since /\ timer' = [timer EXCEPT ![k] = -1]
        /\ renewing' = [renewing EXCEPT ![k] = FALSE]
        /\ stops' = [stops EXCEPT ![k] = FALSE] /\ commands < MaxCommands
        /\ commands' = commands + 1
    BY DEF Crashes, Idle, Command
  <1> HIDE DEF r, l
  <1>5. Turns(k, l, r, "none", FALSE, since[k], -1, FALSE)
    BY <1>2, <1>4, Types, Same, Values DEF Turns
  <1> QED BY <1>1, <1>3, <1>5, Steps

\* A command nobody waits for is gone.
LEMMA DroppedStep ==
    ASSUME IInv, NEW k \in Coordinators, NEW i \in DOMAIN calls[k], calls[k][i].by = "nobody",
           calls' = [calls EXCEPT ![k] = RemoveAt(calls[k], i)],
           UNCHANGED <<lock, start, stops, leading, since, timer, renewing, commands>>
    PROVE  IInv'
  <1> DEFINE q == calls[k]
             r == RemoveAt(q, i)
  <1>1. /\ Queue(r) /\ From(r, q) /\ (NoStart(q) => NoStart(r))
        /\ Released(q) => Released(r)
        /\ HasRenewal(q) => HasRenewal(r)
    BY Types, RemoveQueue
  <1>2. calls' = [calls EXCEPT ![k] = r]
    OBVIOUS
  <1> HIDE DEF r
  <1>3. Answered(k, lock, r, leading[k])
    BY <1>1, Types, FromAnswered
  <1>4. Sound(k, lock, r, start[k], leading[k], since[k], timer[k], renewing[k])
    BY <1>1, <1>3, Types DEF Present, Sound
  <1>5. Turns(k, lock, r, start[k], leading[k], since[k], timer[k], renewing[k])
    BY <1>2, Types, Same DEF Turns
  <1> QED BY <1>4, <1>5, Types, Steps

LEMMA LosesStep ==
    ASSUME IInv, NEW k \in Coordinators, Loses(k)
    PROVE  IInv'
  <1>1. PICK i \in DOMAIN calls[k] :
            calls[k][i].by = "nobody" /\ calls' = [calls EXCEPT ![k] = RemoveAt(@, i)]
    BY DEF Loses
  <1>2. calls' = [calls EXCEPT ![k] = RemoveAt(calls[k], i)]
    BY <1>1
  <1>3. UNCHANGED <<lock, start, stops, leading, since, timer, renewing, commands>>
    BY DEF Loses
  <1> QED BY <1>1, <1>2, <1>3, DroppedStep

\* The parts of an answer.
LEMMA AnswerParts ==
    ASSUME IInv, NEW k \in Coordinators, NEW i \in DOMAIN calls[k], calls[k][i].done
    PROVE  LET q == calls[k]
               c == q[i]
               r == RemoveAt(q, i) IN
           /\ Queue(r) /\ Answered(k, lock, r, leading[k])
           /\ c.age \in 0..Ttl
           /\ NoStart(q) => NoStart(r)
           /\ Released(q) => Released(r)
           /\ c.by = "lead" => /\ NoStart(r) /\ Released(r) /\ ~leading[k]
                               /\ start[k] # "resting" /\ c.age <= 2 * Quarter
           /\ c.by = "renew" => c.age <= Quarter
           /\ c.held /\ (c.by = "lead" \/ (leading[k] /\ c.by = "renew")) => Owns(lock, k, c.age)
  <1> DEFINE q == calls[k]
             c == q[i]
             r == RemoveAt(q, i)
  <1>1. /\ Queue(r) /\ From(r, q) /\ (NoStart(q) \/ c.by = "lead" => NoStart(r))
        /\ Released(q) => Released(r)
        /\ c.by = "lead" /\ c.done => Released(r)
    BY Types, RemoveQueue
  <1> HIDE DEF r
  <1>2. Answered(k, lock, r, leading[k])
    BY <1>1, Types, FromAnswered
  <1>3. c.age \in 0..Ttl
    <2>1. c \in Call
      BY Types, LenProperties, ElementOfSeq DEF Queue
    <2> QED BY <2>1 DEF Call
  <1>4. c.by = "lead" => ~leading[k] /\ start[k] # "resting"
    BY Types DEF Present, Sound, NoStart
  <1>5. /\ c.by = "lead" => c.age <= 2 * Quarter
        /\ c.by = "renew" => c.age <= Quarter
    BY Types DEF Queue, Waited
  <1>6. c.held /\ (c.by = "lead" \/ (leading[k] /\ c.by = "renew")) => Owns(lock, k, c.age)
    BY Types DEF Answered
  <1> QED BY <1>1, <1>2, <1>3, <1>4, <1>5, <1>6 DEF r

LEMMA StaleAnswerStep ==
    ASSUME IInv, NEW k \in Coordinators, NEW i \in DOMAIN calls[k], calls[k][i].done,
           StaleAnswer(k, calls[k][i], RemoveAt(calls[k], i)), UNCHANGED <<lock, stops, commands>>
    PROVE  IInv'
  <1> DEFINE c == calls[k][i]
             q == RemoveAt(calls[k], i)
             r == IF c.held THEN Append(q, Sent("release", "nobody")) ELSE q
  <1>1. c.by = "lead" /\ calls' = [calls EXCEPT ![k] = r]
        /\ UNCHANGED <<start, leading, since, timer, renewing>>
    BY DEF StaleAnswer
  <1>2. /\ Queue(q) /\ Answered(k, lock, q, leading[k]) /\ NoStart(q) /\ ~leading[k]
        /\ start[k] # "resting"
    BY <1>1, AnswerParts
  <1> HIDE DEF q
  <1>3. Sound(k, lock, r, start[k], FALSE, since[k], -1, renewing[k])
    <2>1. CASE c.held
      BY <1>2, <2>1, Types, ResignSound
    <2>2. CASE ~c.held
      BY <1>2, <2>2, Types, IdleSound
    <2> QED BY <2>1, <2>2
  <1> HIDE DEF r
  <1>4. leading[k] = FALSE /\ timer[k] = -1
    BY <1>2, Types DEF Present, Sound
  <1>5. Turns(k, lock, r, start[k], FALSE, since[k], -1, renewing[k])
    BY <1>1, <1>4, Types, Same, Values DEF Turns
  <1> QED BY <1>3, <1>5, Types, Steps

LEMMA LeadAnswerStep ==
    ASSUME IInv, NEW k \in Coordinators, NEW i \in DOMAIN calls[k], calls[k][i].done,
           LeadAnswer(k, calls[k][i], RemoveAt(calls[k], i)), UNCHANGED <<lock, stops, commands>>
    PROVE  IInv'
  <1> DEFINE c == calls[k][i]
             q == RemoveAt(calls[k], i)
             r == NewTerm(q)
  <1>1. c.by = "lead" /\ IF c.held THEN Lead(k, q, c.age) ELSE Rest(k, q)
    BY DEF LeadAnswer
  <1>2. /\ Queue(q) /\ Answered(k, lock, q, leading[k]) /\ NoStart(q) /\ Released(q)
        /\ ~leading[k] /\ c.age \in 0..Ttl /\ c.age <= 2 * Quarter
        /\ c.held => Owns(lock, k, c.age)
    BY <1>1, AnswerParts
  <1> HIDE DEF q, c
  <1>3. CASE c.held
    <2>4. c.age \in Nat /\ Owns(lock, k, c.age)
      BY <1>2, <1>3
    <2>1. Sound(k, lock, r, "leading", TRUE, c.age, Quarter, FALSE)
      BY <1>2, <2>4, LeadSound
    <2>2. /\ calls' = [calls EXCEPT ![k] = r] /\ start' = [start EXCEPT ![k] = "leading"]
          /\ leading' = [leading EXCEPT ![k] = TRUE] /\ since' = [since EXCEPT ![k] = c.age]
          /\ timer' = [timer EXCEPT ![k] = Quarter] /\ renewing' = [renewing EXCEPT ![k] = FALSE]
      BY <1>1, <1>3 DEF Lead
    <2> HIDE DEF r
    <2>3. Turns(k, lock, r, "leading", TRUE, c.age, Quarter, FALSE)
      BY <1>2, <2>2, Types, Same, Values DEF Turns
    <2> QED BY <2>1, <2>3, Types, Steps
  <1>4. CASE ~c.held
    <2>1. Sound(k, lock, q, "resting", FALSE, since[k], -1, renewing[k])
      BY <1>2, Types, IdleSound
    <2>2. /\ calls' = [calls EXCEPT ![k] = q] /\ start' = [start EXCEPT ![k] = "resting"]
          /\ UNCHANGED <<leading, since, timer, renewing>>
      BY <1>1, <1>4 DEF Rest
    <2>3. leading[k] = FALSE /\ timer[k] = -1
      BY <1>2, Types DEF Present, Sound
    <2>4. Turns(k, lock, q, "resting", FALSE, since[k], -1, renewing[k])
      BY <2>2, <2>3, Types, Same, Values DEF Turns
    <2> QED BY <2>1, <2>4, Types, Steps
  <1> QED BY <1>3, <1>4

\* #standDown of a leader with the commands q.
LEMMA StandDownStep ==
    ASSUME IInv, NEW k \in Coordinators, NEW q, Queue(q), NoStart(q), NEW rn \in BOOLEAN,
           StandDown(k, q), renewing' = [renewing EXCEPT ![k] = rn],
           UNCHANGED <<lock, stops, since, commands>>
    PROVE  IInv'
  <1> DEFINE r == Append(q, Sent("acquire", "lead"))
  <1>1. timer' = [timer EXCEPT ![k] = -1] /\ leading' = [leading EXCEPT ![k] = FALSE]
    BY DEF StandDown, Idle
  <1>2. CASE stops[k]
    <2>1. Answered(k, lock, q, FALSE)
      BY DEF Answered, NoStart
    <2>2. Sound(k, lock, q, "none", FALSE, since[k], -1, rn)
      BY <2>1, IdleSound
    <2>3. calls' = [calls EXCEPT ![k] = q] /\ start' = [start EXCEPT ![k] = "none"]
      BY <1>2 DEF StandDown
    <2>4. Turns(k, lock, q, "none", FALSE, since[k], -1, rn)
      BY <1>1, <2>3, Types, Same, Values DEF Turns
    <2> QED BY <2>2, <2>4, Types, Steps
  <1>3. CASE ~stops[k]
    <2>1. Sound(k, lock, r, "asking", FALSE, since[k], -1, rn)
      BY AskSound
    <2>2. calls' = [calls EXCEPT ![k] = r] /\ start' = [start EXCEPT ![k] = "asking"]
      BY <1>3 DEF StandDown, Ask
    <2> HIDE DEF r
    <2>3. Turns(k, lock, r, "asking", FALSE, since[k], -1, rn)
      BY <1>1, <2>2, Types, Same, Values DEF Turns
    <2> QED BY <2>1, <2>3, Types, Steps
  <1> QED BY <1>2, <1>3

LEMMA RenewAnswerStep ==
    ASSUME IInv, NEW k \in Coordinators, NEW i \in DOMAIN calls[k], calls[k][i].done,
           RenewAnswer(k, calls[k][i], RemoveAt(calls[k], i)), UNCHANGED <<lock, stops, commands>>
    PROVE  IInv'
  <1> DEFINE c == calls[k][i]
             q == RemoveAt(calls[k], i)
             sc == IF leading[k] THEN c.age ELSE since[k]
  <1>1. /\ c.by = "renew" /\ renewing' = [renewing EXCEPT ![k] = FALSE]
        /\ IF leading[k] /\ ~c.held
           THEN StandDown(k, q) /\ UNCHANGED since
           ELSE /\ calls' = [calls EXCEPT ![k] = q]
                /\ since' = [since EXCEPT ![k] = sc]
                /\ UNCHANGED <<start, leading, timer>>
    <2>1. [since EXCEPT ![k] = IF leading[k] THEN c.age ELSE @] = [since EXCEPT ![k] = sc]
      BY DEF IInv, TypeOK
    <2> QED BY <2>1 DEF RenewAnswer
  <1>2. /\ Queue(q) /\ Answered(k, lock, q, leading[k])
        /\ NoStart(calls[k]) => NoStart(q)
        /\ Released(calls[k]) => Released(q)
        /\ c.age \in 0..Ttl /\ c.age <= Quarter
        /\ c.held /\ leading[k] => Owns(lock, k, c.age)
    BY <1>1, AnswerParts
  <1> HIDE DEF q, c
  <1>3. CASE leading[k] /\ ~c.held
    <2>1. NoStart(q)
      BY <1>2, <1>3, Types DEF Present, Sound
    <2> QED BY <1>1, <1>2, <1>3, <2>1, Values, StandDownStep
  <1>4. CASE ~(leading[k] /\ ~c.held)
    <2>1. /\ calls' = [calls EXCEPT ![k] = q] /\ since' = [since EXCEPT ![k] = sc]
          /\ UNCHANGED <<start, leading, timer>>
      BY <1>1, <1>4
    <2>2. leading[k] => /\ timer[k] \in 0..Quarter /\ c.age \in Nat
                        /\ c.age + timer[k] <= 3 * Quarter
      BY <1>2, Types, LeaderAssumption DEF Present, Sound
    <2>3. Sound(k, lock, q, start[k], leading[k], sc, timer[k], FALSE)
      BY <1>2, <1>4, <2>2, Types DEF Present, Sound
    <2>4. sc \in 0..Ttl
      BY <1>2, Types
    <2> HIDE DEF sc
    <2>5. Turns(k, lock, q, start[k], leading[k], sc, timer[k], FALSE)
      BY <1>1, <2>1, <2>4, Types, Same, Values DEF Turns
    <2> QED BY <2>3, <2>5, Types, Steps
  <1> QED BY <1>3, <1>4

LEMMA AnswersStep ==
    ASSUME IInv, NEW k \in Coordinators, Answers(k)
    PROVE  IInv'
  <1>1. PICK i \in DOMAIN calls[k] :
            LET c == calls[k][i]
                q == RemoveAt(calls[k], i) IN
            /\ c.done
            /\ \/ StaleAnswer(k, c, q)
               \/ LeadAnswer(k, c, q)
               \/ RenewAnswer(k, c, q)
               \/ /\ c.by = "nobody"
                  /\ calls' = [calls EXCEPT ![k] = q]
                  /\ UNCHANGED <<start, leading, since, timer, renewing>>
    BY DEF Answers
  <1>2. UNCHANGED <<lock, stops, commands>>
    BY DEF Answers
  <1>3. CASE StaleAnswer(k, calls[k][i], RemoveAt(calls[k], i))
    BY <1>1, <1>2, <1>3, StaleAnswerStep
  <1>4. CASE LeadAnswer(k, calls[k][i], RemoveAt(calls[k], i))
    BY <1>1, <1>2, <1>4, LeadAnswerStep
  <1>5. CASE RenewAnswer(k, calls[k][i], RemoveAt(calls[k], i))
    BY <1>1, <1>2, <1>5, RenewAnswerStep
  <1>6. CASE /\ calls[k][i].by = "nobody"
             /\ calls' = [calls EXCEPT ![k] = RemoveAt(calls[k], i)]
             /\ UNCHANGED <<start, leading, since, timer, renewing>>
    BY <1>2, <1>6, DroppedStep
  <1> QED BY <1>1, <1>3, <1>4, <1>5, <1>6

LEMMA TimesOutStep ==
    ASSUME IInv, NEW k \in Coordinators, TimesOut(k)
    PROVE  IInv'
  <1> DEFINE q == calls[k]
             i == CHOOSE i \in DOMAIN q : Late(q[i])
             c == q[i]
             r == [q EXCEPT ![i] = [@ EXCEPT !.by = "nobody"]]
  <1>1. i \in DOMAIN q /\ Late(c)
    BY DEF TimesOut
  <1>2. /\ calls' = [calls EXCEPT ![k][i] = [@ EXCEPT !.by = "nobody"]]
        /\ start' = IF c.by = "lead" /\ ~c.stale
                    THEN [start EXCEPT ![k] = "resting"] ELSE start
        /\ renewing' = IF c.by = "renew" THEN [renewing EXCEPT ![k] = FALSE] ELSE renewing
        /\ UNCHANGED <<lock, stops, leading, since, timer, commands>>
    BY DEF TimesOut
  <1> HIDE DEF i
  <1>3. calls' = [calls EXCEPT ![k] = r]
    BY <1>2 DEF IInv, TypeOK
  <1>4. /\ Queue(r) /\ From(r, q)
        /\ NoStart(q) \/ c.by = "lead" => NoStart(r)
        /\ Released(q) => Released(r)
    BY <1>1, Types, ForsakenQueue
  <1> HIDE DEF r
  <1>5. Answered(k, lock, r, leading[k])
    BY <1>4, Types, FromAnswered
  <1>6. CASE c.by = "lead"
    <2> DEFINE st == IF ~c.stale THEN "resting" ELSE start[k]
    <2>1. leading[k] = FALSE /\ timer[k] = -1
      BY <1>1, <1>6, Types DEF Present, Sound, NoStart
    <2>2. st \in Starts /\ start' = [start EXCEPT ![k] = st] /\ renewing' = renewing
      BY <1>2, <1>6, Types, Same, Values
    <2> HIDE DEF st
    <2>3. Sound(k, lock, r, st, FALSE, since[k], -1, renewing[k])
      BY <1>4, <1>5, <1>6, Types, IdleSound
    <2>4. Turns(k, lock, r, st, FALSE, since[k], -1, renewing[k])
      BY <1>2, <1>3, <2>1, <2>2, Types, Same, Values DEF Turns
    <2> QED BY <2>3, <2>4, Types, Steps
  <1>7. CASE c.by = "renew"
    <2>1. start' = start /\ renewing' = [renewing EXCEPT ![k] = FALSE]
      BY <1>2, <1>7
    <2>2. Sound(k, lock, r, start[k], leading[k], since[k], timer[k], FALSE)
      BY <1>4, <1>5, Types DEF Present, Sound
    <2>3. Turns(k, lock, r, start[k], leading[k], since[k], timer[k], FALSE)
      BY <1>2, <1>3, <2>1, Types, Same, Values DEF Turns
    <2> QED BY <2>2, <2>3, Types, Steps
  <1> QED BY <1>1, <1>6, <1>7 DEF Late

LEMMA TimerFiresStep ==
    ASSUME IInv, NEW k \in Coordinators, TimerFires(k)
    PROVE  IInv'
  <1> DEFINE q == calls[k]
  <1>1. /\ leading[k] /\ timer[k] = 0 /\ Queue(q) /\ NoStart(q) /\ Released(q)
        /\ start[k] # "resting" /\ Owns(lock, k, since[k]) /\ since[k] \in Nat
        /\ renewing[k] => HasRenewal(q)
    BY Types DEF TimerFires, Present, Sound
  <1>2. UNCHANGED <<lock, stops, since, commands>>
    BY DEF TimerFires
  <1>3. CASE TooOld(k) /\ StandDown(k, q) /\ UNCHANGED renewing
    <2>1. renewing[k] \in BOOLEAN /\ renewing' = [renewing EXCEPT ![k] = renewing[k]]
      BY <1>3, Types, Same
    <2> QED BY <1>1, <1>2, <1>3, <2>1, StandDownStep
  <1>4. CASE /\ ~TooOld(k) \/ since[k] = 2 * Quarter
             /\ timer' = [timer EXCEPT ![k] = Quarter]
             /\ IF renewing[k] \/ ~CanSend(k)
                THEN UNCHANGED <<calls, renewing>>
                ELSE /\ calls' = [calls EXCEPT ![k] = Append(@, Sent("acquire", "renew"))]
                     /\ renewing' = [renewing EXCEPT ![k] = TRUE]
             /\ UNCHANGED <<start, leading>>
    <2>1. Quarter \in 0..Quarter /\ since[k] + Quarter <= 3 * Quarter
      BY <1>1, <1>4, LeaderAssumption DEF TooOld
    <2>2. CASE renewing[k] \/ ~CanSend(k)
      <3>1. Sound(k, lock, q, start[k], leading[k], since[k], Quarter, renewing[k])
        BY <1>1, <2>1, Types DEF Sound
      <3>2. Turns(k, lock, q, start[k], leading[k], since[k], Quarter, renewing[k])
        BY <1>2, <1>4, <2>2, Types, Same, Values DEF Turns
      <3> QED BY <3>1, <3>2, Types, Steps
    <2>3. CASE ~(renewing[k] \/ ~CanSend(k))
      <3> DEFINE c == Sent("acquire", "renew")
                 r == Append(q, c)
      <3>1. /\ c \in Call /\ c.kind = "acquire" /\ c.by = "renew" /\ ~c.done /\ c.age = 0
        BY SentCall
      <3>2. calls' = [calls EXCEPT ![k] = r] /\ renewing' = [renewing EXCEPT ![k] = TRUE]
        BY <1>4, <2>3
      <3> HIDE DEF c
      <3>3. /\ Queue(r) /\ From(r, q) /\ NoStart(r) /\ Released(r) /\ HasRenewal(r)
        BY <1>1, <3>1, AppendQueue
      <3> HIDE DEF r
      <3>4. Answered(k, lock, r, leading[k])
        BY <3>3, Types, FromAnswered
      <3>5. Sound(k, lock, r, start[k], leading[k], since[k], Quarter, TRUE)
        BY <1>1, <2>1, <3>3, <3>4 DEF Sound
      <3>6. Turns(k, lock, r, start[k], leading[k], since[k], Quarter, TRUE)
        BY <1>2, <1>4, <3>2, Types, Same, Values DEF Turns
      <3> QED BY <3>5, <3>6, Types, Steps
    <2> QED BY <2>2, <2>3
  <1> QED BY <1>3, <1>4 DEF TimerFires

-----------------------------------------------------------------------------
(* Steps of Redis, and of time.                                            *)

\* Redis carries out the first command that it has not carried out.
FirstOpen(q, i) == ~q[i].done /\ \A j \in 1..i - 1 : q[j].done
CarriedOut(q, i, held) == [q EXCEPT ![i] = [@ EXCEPT !.done = TRUE, !.held = held]]

LEMMA ExecutedQueue ==
    ASSUME NEW q, Queue(q), NEW i \in DOMAIN q, FirstOpen(q, i), NEW held \in BOOLEAN,
           NEW r, r = CarriedOut(q, i, held)
    PROVE  /\ Queue(r) /\ DOMAIN r = DOMAIN q
           /\ r[i].held = held /\ r[i].by = q[i].by /\ r[i].age = q[i].age
           /\ \A j \in DOMAIN q \ {i} : r[j] = q[j]
           /\ NoStart(q) => NoStart(r)
           /\ Released(q) => Released(r)
           /\ HasRenewal(q) => HasRenewal(r)
  <1> DEFINE e == [q[i] EXCEPT !.done = TRUE, !.held = held]
  <1>4. r = [q EXCEPT ![i] = e]
    BY DEF CarriedOut
  <1>1. q \in Seq(Call) /\ q[i] \in Call /\ i \in 1..Len(q) /\ DOMAIN q = 1..Len(q)
        /\ Len(q) \in Nat
    BY LenProperties, ElementOfSeq DEF Queue
  <1>2. /\ e \in Call /\ e.kind = q[i].kind /\ e.done /\ e.held = held
        /\ e.age = q[i].age /\ e.by = q[i].by
    BY <1>1 DEF Call
  <1> HIDE DEF e
  <1>3. /\ r \in Seq(Call) /\ DOMAIN r = DOMAIN q /\ r[i] = e
        /\ \A j \in DOMAIN q \ {i} : r[j] = q[j]
    BY <1>1, <1>2, <1>4, ExceptSeq, LenProperties
  <1>5. \A j \in DOMAIN q : r[j].kind = q[j].kind /\ r[j].age = q[j].age /\ r[j].by = q[j].by
    BY <1>2, <1>3
  <1>6. Ordered(r)
    <2> SUFFICES ASSUME NEW a \in DOMAIN r, NEW b \in DOMAIN r, a < b, r[b].done
                 PROVE  r[a].done
      BY DEF Ordered
    <2>1. CASE b = i
      BY <1>1, <1>3, <2>1 DEF FirstOpen
    <2>2. CASE b # i
      <3>1. a # i => q[a].done
        BY <1>3, <2>2 DEF Queue, Ordered
      <3> QED BY <1>2, <1>3, <3>1
    <2> QED BY <2>1, <2>2
  <1>7. OneStart(r) /\ ReleasedBefore(r) /\ Waited(r)
    <2>1. OneStart(r)
      BY <1>3, <1>5 DEF Queue, OneStart
    <2>2. ReleasedBefore(r)
      BY <1>3, <1>5 DEF Queue, ReleasedBefore
    <2>3. Waited(r)
      BY <1>3, <1>5 DEF Queue, Waited
    <2> QED BY <2>1, <2>2, <2>3
  <1>8. Queue(r)
    BY <1>3, <1>6, <1>7 DEF Queue
  <1>9. NoStart(q) => NoStart(r)
    BY <1>3, <1>5 DEF NoStart
  <1>10. Released(q) => Released(r)
    BY <1>2, <1>3 DEF Released
  <1>11. HasRenewal(q) => HasRenewal(r)
    BY <1>3, <1>5 DEF HasRenewal
  <1> QED BY <1>2, <1>3, <1>4, <1>8, <1>9, <1>10, <1>11

\* There is a first one.
LEMMA NextIsFirst ==
    ASSUME IInv, NEW k \in Coordinators, \E i \in DOMAIN calls[k] : ~calls[k][i].done
    PROVE  /\ NextCall(k) \in DOMAIN calls[k] /\ ~calls[k][NextCall(k)].done
           /\ \A j \in 1..NextCall(k) - 1 : calls[k][j].done
  <1> DEFINE q == calls[k]
             T == {i \in DOMAIN q : ~q[i].done}
  <1>1. DOMAIN q = 1..Len(q) /\ Len(q) \in Nat
    BY Types, LenProperties DEF Queue
  <1>2. T \in SUBSET Nat /\ T # {}
    BY <1>1
  <1> HIDE DEF T
  <1>3. PICK x \in T : \A y \in T : x <= y
    BY <1>2, Smallest
  <1>4. x \in DOMAIN q /\ ~q[x].done
    BY <1>3 DEF T
  <1>5. \A j \in 1..x - 1 : q[j].done
    <2> SUFFICES ASSUME NEW j \in 1..x - 1, ~q[j].done PROVE FALSE
      OBVIOUS
    <2>1. x \in 1..Len(q)
      BY <1>1, <1>4
    <2>2. j \in DOMAIN q /\ j < x
      BY <1>1, <2>1
    <2>3. x <= j
      BY <1>3, <2>2 DEF T
    <2> QED BY <1>1, <2>1, <2>2, <2>3
  <1> QED BY <1>4, <1>5 DEF NextCall

LEMMA ExecutesStep ==
    ASSUME IInv, NEW k \in Coordinators, Executes(k)
    PROVE  IInv'
  <1> DEFINE q == calls[k]
             i == NextCall(k)
             c == q[i]
             held == Free(k)
             r == [q EXCEPT ![i] = [@ EXCEPT !.done = TRUE, !.held = held]]
             l == IF c.kind = "acquire"
                  THEN IF held THEN [holder |-> k, left |-> Ttl] ELSE lock
                  ELSE IF lock.holder = k THEN [holder |-> Nobody, left |-> 0] ELSE lock
  <1>1. i \in DOMAIN q /\ ~q[i].done /\ \A j \in 1..i - 1 : q[j].done
    BY NextIsFirst DEF Executes
  <1>2. /\ calls' = [calls EXCEPT ![k][i] = [@ EXCEPT !.done = TRUE, !.held = held]]
        /\ lock' = l
        /\ UNCHANGED <<start, stops, leading, since, timer, renewing, commands>>
    BY DEF Executes
  <1> HIDE DEF i
  <1>3. calls' = [calls EXCEPT ![k] = r]
    BY <1>2 DEF IInv, TypeOK
  <1>4. held \in BOOLEAN /\ (held <=> lock.holder = k \/ lock.left = 0)
    BY Zenon DEF Free
  <1> HIDE DEF held
  <1>5. /\ Queue(r) /\ DOMAIN r = DOMAIN q
        /\ r[i].held = held /\ r[i].by = c.by /\ r[i].age = c.age
        /\ \A j \in DOMAIN q \ {i} : r[j] = q[j]
        /\ NoStart(q) => NoStart(r)
        /\ Released(q) => Released(r)
        /\ HasRenewal(q) => HasRenewal(r)
    <2>1. Queue(q)
      BY Types
    <2>2. r = CarriedOut(q, i, held) /\ FirstOpen(q, i)
      BY <1>1 DEF CarriedOut, FirstOpen
    <2> HIDE DEF r, q, c
    <2>3. /\ Queue(r) /\ DOMAIN r = DOMAIN q
          /\ r[i].held = held /\ r[i].by = q[i].by /\ r[i].age = q[i].age
          /\ \A j \in DOMAIN q \ {i} : r[j] = q[j]
          /\ NoStart(q) => NoStart(r)
          /\ Released(q) => Released(r)
          /\ HasRenewal(q) => HasRenewal(r)
      BY <1>1, <1>4, <2>1, <2>2, ExecutedQueue
    <2> QED BY <2>3 DEF c
  <1> HIDE DEF r
  <1>6. lock \in Locks /\ Ttl \in Nat
    BY Types, LeaderAssumption DEF Ttl
  <1>7. \A j \in DOMAIN r : r[j].age \in Nat
    <2>1. \A j \in DOMAIN r : r[j] \in Call
      BY <1>5, LenProperties, ElementOfSeq DEF Queue
    <2>2. \A d \in Call : d.age \in Nat
      BY <1>6 DEF Call
    <2> QED BY <2>1, <2>2
  <1>8. /\ l \in Locks
        /\ \A j \in Coordinators \ {k} : Retained(j, lock, l)
        /\ Sound(k, l, r, start[k], leading[k], since[k], timer[k], renewing[k])
    <2>1. CASE c.kind = "acquire" /\ held
      <3> DEFINE m == [holder |-> k, left |-> Ttl]
      <3>1. l = m /\ m \in Locks /\ m.holder = k /\ m.left = Ttl
        BY <1>6, <2>1 DEF Locks
      <3> HIDE DEF m, l
      <3>2. \A age \in Nat : Owns(m, k, age)
        BY <1>6, <3>1 DEF Owns
      <3>3. Answered(k, m, r, leading[k])
        BY <1>7, <3>2 DEF Answered
      <3>4. Sound(k, m, r, start[k], leading[k], since[k], timer[k], renewing[k])
        BY <1>5, <3>2, <3>3, Types DEF Present, Sound
      <3>5. ASSUME NEW j \in Coordinators \ {k} PROVE Retained(j, lock, m)
        BY <1>4, <1>6, <2>1 DEF Retained, Owns, Locks
      <3> QED BY <3>1, <3>4, <3>5
    <2>2. CASE c.kind = "acquire" /\ ~held
      <3>1. l = lock
        BY <2>2
      <3> HIDE DEF l
      <3>2. Answered(k, lock, r, leading[k])
        BY <1>5, <2>2, Types DEF Answered
      <3>3. Sound(k, lock, r, start[k], leading[k], since[k], timer[k], renewing[k])
        BY <1>5, <3>2, Types DEF Present, Sound
      <3> QED BY <1>6, <3>1, <3>3, Types
    <2>3. CASE c.kind # "acquire"
      <3>1. c.kind = "release" /\ c.by = "nobody"
        <4>1. c \in Call
          BY <1>1, Types, LenProperties, ElementOfSeq DEF Queue
        <4> QED BY <1>1, <2>3, <4>1, Types DEF Call, Queue, Waited
      <3>2. ~leading[k]
        BY <1>1, <3>1, Types DEF Present, Sound, Released
      <3>3. l \in Locks
        BY <1>6, <2>3 DEF Locks
      <3>4. \A j \in Coordinators \ {k} : Retained(j, lock, l)
        BY <2>3, OthersKept, Types
      <3> HIDE DEF l
      <3>5. Answered(k, l, r, leading[k])
        <4> SUFFICES ASSUME NEW j \in DOMAIN r, r[j].done, r[j].by = "lead"
                     PROVE  FALSE
          BY <3>2 DEF Answered
        <4>1. j # i /\ q[j].done /\ q[j].by = "lead"
          BY <1>5, <3>1
        <4>2. i < j
          BY <1>1, <1>5, <3>1, <4>1, Types DEF Queue, ReleasedBefore
        <4> QED BY <1>1, <1>5, <4>1, <4>2, Types DEF Queue, Ordered
      <3>6. Sound(k, l, r, start[k], leading[k], since[k], timer[k], renewing[k])
        BY <1>5, <3>2, <3>5, Types DEF Present, Sound
      <3> QED BY <3>3, <3>4, <3>6
    <2> QED BY <2>1, <2>2, <2>3
  <1> HIDE DEF l
  <1>9. Turns(k, l, r, start[k], leading[k], since[k], timer[k], renewing[k])
    BY <1>2, <1>3, <1>8, Types, Same DEF Turns
  <1> QED BY <1>8, <1>9, Steps

\* A tick makes every command older.
Aged(q) == [i \in DOMAIN q |-> [q[i] EXCEPT !.age = Older(@)]]

LEMMA AgedQueue ==
    ASSUME NEW q, Queue(q), \A i \in DOMAIN q : ~Late(q[i])
    PROVE  /\ Queue(Aged(q)) /\ DOMAIN Aged(q) = DOMAIN q
           /\ \A i \in DOMAIN q :
                /\ Aged(q)[i].by = q[i].by /\ Aged(q)[i].done = q[i].done
                /\ Aged(q)[i].held = q[i].held /\ Aged(q)[i].kind = q[i].kind
                /\ q[i].by \in {"lead", "renew"} =>
                    /\ q[i].age \in Nat /\ q[i].age < 2 * Quarter
                    /\ Aged(q)[i].age = q[i].age + 1
  <1> DEFINE r == Aged(q)
             e(i) == [q[i] EXCEPT !.age = Older(@)]
  <1>1. q \in Seq(Call) /\ DOMAIN q = 1..Len(q) /\ Len(q) \in Nat
    BY LenProperties DEF Queue
  <1>2. Quarter \in Nat \ {0} /\ Ttl = 4 * Quarter
    BY LeaderAssumption DEF Ttl
  <1>3. \A i \in DOMAIN q :
            /\ q[i].age \in 0..Ttl
            /\ e(i) \in Call /\ e(i).kind = q[i].kind /\ e(i).done = q[i].done
            /\ e(i).held = q[i].held /\ e(i).age = Older(q[i].age) /\ e(i).by = q[i].by
    <2>1. \A n \in 0..Ttl : Older(n) \in 0..Ttl
      BY <1>2 DEF Older
    <2>2. ASSUME NEW d \in Call
          PROVE  LET f == [d EXCEPT !.age = Older(@)] IN
                 /\ d.age \in 0..Ttl
                 /\ f \in Call /\ f.kind = d.kind /\ f.done = d.done
                 /\ f.held = d.held /\ f.age = Older(d.age) /\ f.by = d.by
      BY <2>1 DEF Call
    <2>3. \A i \in DOMAIN q : q[i] \in Call
      BY <1>1
    <2> QED BY <2>2, <2>3
  <1>4. r = [i \in 1..Len(q) |-> e(i)]
    BY <1>1 DEF Aged
  <1> HIDE DEF e
  <1>5. r \in Seq(Call) /\ DOMAIN r = DOMAIN q /\ \A i \in DOMAIN q : r[i] = e(i)
    BY <1>1, <1>3, <1>4
  <1> HIDE DEF r
  <1>6. \A i \in DOMAIN q :
            /\ q[i].by = "lead" => q[i].age < 2 * Quarter
            /\ q[i].by = "renew" => q[i].age < Quarter
    BY <1>2, <1>3 DEF Late
  <1>7. \A i \in DOMAIN q :
            q[i].by \in {"lead", "renew"} =>
                q[i].age \in Nat /\ q[i].age < 2 * Quarter /\ r[i].age = q[i].age + 1
    BY <1>2, <1>3, <1>5, <1>6 DEF Older
  <1>8. Ordered(r) /\ OneStart(r) /\ ReleasedBefore(r)
    <2>1. Ordered(r)
      BY <1>3, <1>5 DEF Queue, Ordered
    <2>2. OneStart(r)
      BY <1>3, <1>5 DEF Queue, OneStart
    <2>3. ReleasedBefore(r)
      BY <1>3, <1>5 DEF Queue, ReleasedBefore
    <2> QED BY <2>1, <2>2, <2>3
  <1>9. Waited(r)
    <2> SUFFICES ASSUME NEW i \in DOMAIN r
                 PROVE  /\ r[i].kind = "release" => r[i].by = "nobody"
                        /\ r[i].by = "lead" => r[i].age <= 2 * Quarter
                        /\ r[i].by = "renew" => r[i].age <= Quarter
      BY DEF Waited
    <2>1. r[i].kind = q[i].kind /\ r[i].by = q[i].by
      BY <1>3, <1>5
    <2>2. r[i].kind = "release" => r[i].by = "nobody"
      BY <1>5, <2>1 DEF Queue, Waited
    <2> QED BY <1>2, <1>5, <1>6, <1>7, <2>1, <2>2
  <1>10. Queue(r)
    BY <1>5, <1>8, <1>9 DEF Queue
  <1> QED BY <1>3, <1>5, <1>7, <1>10 DEF r

LEMMA TickStep ==
    ASSUME IInv, Tick
    PROVE  IInv'
  <1> DEFINE l == IF lock.left <= 1 THEN [holder |-> Nobody, left |-> 0]
                  ELSE [lock EXCEPT !.left = @ - 1]
  <1>1. Quarter \in Nat \ {0} /\ Ttl = 4 * Quarter /\ lock \in Locks
    BY LeaderAssumption DEF Ttl, IInv, TypeOK, Locks
  <1>2. /\ lock' = l /\ calls' = [k \in Coordinators |-> Aged(calls[k])]
        /\ since' = [k \in Coordinators |-> IF leading[k] THEN Older(since[k]) ELSE 0]
        /\ timer' = [k \in Coordinators |-> IF timer[k] > 0 THEN timer[k] - 1 ELSE timer[k]]
        /\ UNCHANGED <<start, stops, leading, renewing, commands>>
    BY DEF Tick, Aged
  <1>3. l \in Locks
    BY <1>1 DEF Locks
  <1>4. \A k \in Coordinators, age \in Nat :
            age < 3 * Quarter /\ Owns(lock, k, age) => Owns(l, k, age + 1)
    BY <1>1 DEF Owns, Locks
  <1> HIDE DEF l
  <1>5. ASSUME NEW k \in Coordinators
        PROVE  /\ Queue(Aged(calls[k]))
               /\ since'[k] \in 0..Ttl /\ timer'[k] \in -1..Quarter
               /\ Present(k)'
    <2> DEFINE q == calls[k]
               r == Aged(q)
    <2>1. timer[k] # 0 /\ \A i \in DOMAIN q : ~Late(q[i])
      BY DEF Tick, Due
    <2>2. /\ Queue(r) /\ DOMAIN r = DOMAIN q
          /\ \A i \in DOMAIN q :
                /\ r[i].by = q[i].by /\ r[i].done = q[i].done
                /\ r[i].held = q[i].held /\ r[i].kind = q[i].kind
                /\ q[i].by \in {"lead", "renew"} =>
                    /\ q[i].age \in Nat /\ q[i].age < 2 * Quarter
                    /\ r[i].age = q[i].age + 1
      BY <2>1, Types, AgedQueue
    <2> HIDE DEF r
    <2>3. /\ NoStart(q) => NoStart(r)
          /\ Released(q) => Released(r)
          /\ HasRenewal(q) => HasRenewal(r)
      BY <2>2 DEF NoStart, Released, HasRenewal
    <2>4. Answered(k, l, r, leading[k])
      <3> SUFFICES ASSUME NEW i \in DOMAIN r, r[i].done, r[i].held,
                          r[i].by = "lead" \/ (leading[k] /\ r[i].by = "renew")
                   PROVE  Owns(l, k, r[i].age)
        BY DEF Answered
      <3>1. q[i].age \in Nat /\ q[i].age < 3 * Quarter /\ r[i].age = q[i].age + 1
        BY <1>1, <2>2
      <3>2. Owns(lock, k, q[i].age)
        BY <2>2, Types DEF Answered
      <3> QED BY <1>4, <3>1, <3>2
    <2>5. leading[k] => /\ timer[k] \in 1..Quarter /\ since[k] \in Nat
                        /\ since[k] + timer[k] <= 3 * Quarter /\ Owns(lock, k, since[k])
      BY <1>1, <2>1, Types DEF Present, Sound
    <2>6. leading[k] => /\ timer'[k] \in 0..Quarter /\ since'[k] \in Nat
                        /\ since'[k] + timer'[k] <= 3 * Quarter /\ Owns(l, k, since'[k])
      <3> SUFFICES ASSUME leading[k]
                   PROVE  /\ timer'[k] \in 0..Quarter /\ since'[k] \in Nat
                          /\ since'[k] + timer'[k] <= 3 * Quarter /\ Owns(l, k, since'[k])
        OBVIOUS
      <3>1. timer'[k] = timer[k] - 1
        BY <1>2, <2>5
      <3>2. since'[k] = since[k] + 1
        BY <1>1, <1>2, <2>5 DEF Older
      <3>3. Owns(l, k, since[k] + 1)
        BY <1>1, <1>4, <2>5
      <3> QED BY <1>1, <2>5, <3>1, <3>2, <3>3
    <2>7. ~leading[k] => timer'[k] = -1 /\ since'[k] = 0
      BY <1>2, Types DEF Present, Sound
    <2>8. since'[k] \in 0..Ttl /\ timer'[k] \in -1..Quarter
      BY <1>1, <2>6, <2>7
    <2>9. start[k] = "resting" => NoStart(r)
      BY <2>3, Types DEF Present, Sound
    <2>10. leading[k] => /\ NoStart(r) /\ Released(r) /\ start[k] # "resting"
                         /\ renewing[k] => HasRenewal(r)
      BY <2>3, Types DEF Present, Sound
    <2>11. Sound(k, l, r, start[k], leading[k], since'[k], timer'[k], renewing[k])
      BY <2>2, <2>4, <2>6, <2>7, <2>9, <2>10 DEF Sound
    <2>12. calls'[k] = r
      BY <1>2 DEF r
    <2> QED BY <1>2, <2>2, <2>8, <2>11, <2>12 DEF Present, r
  <1>6. TypeOK'
    <2>1. calls' \in [Coordinators -> Seq(Call)]
      BY <1>2, <1>5 DEF Queue
    <2>2. since' \in [Coordinators -> 0..Ttl] /\ timer' \in [Coordinators -> -1..Quarter]
      BY <1>2, <1>5
    <2> QED BY <1>2, <1>3, <2>1, <2>2 DEF IInv, TypeOK, Locks
  <1> QED BY <1>5, <1>6 DEF IInv

-----------------------------------------------------------------------------
(* The theorems.                                                           *)

LEMMA InitIInv == Init => IInv
  <1> SUFFICES ASSUME Init PROVE IInv
    OBVIOUS
  <1>1. TypeOK
    BY LeaderAssumption DEF Init, TypeOK, Ttl
  <1>2. ASSUME NEW k \in Coordinators PROVE Present(k)
    <2>1. calls[k] = <<>> /\ start[k] = "none" /\ leading[k] = FALSE /\ timer[k] = -1
      BY DEF Init
    <2>2. Queue(calls[k]) /\ Answered(k, lock, calls[k], FALSE)
      BY <1>1, <2>1 DEF TypeOK, Queue, Ordered, OneStart, ReleasedBefore, Waited, Answered
    <2> QED BY <2>1, <2>2 DEF Present, Sound
  <1> QED BY <1>1, <1>2 DEF IInv

LEMMA NextIInv ==
    ASSUME ~SpawnsOver
    PROVE  IInv /\ [Next]_vars => IInv'
  <1> SUFFICES ASSUME IInv, [Next]_vars PROVE IInv'
    OBVIOUS
  <1>1. CASE UNCHANGED vars
    BY <1>1 DEF vars, IInv, TypeOK, Present
  <1>2. CASE Tick
    BY <1>2, TickStep
  <1>3. ASSUME NEW k \in Coordinators,
               \/ CallSpawn(k) \/ CallKill(k) \/ CallShutdown(k) \/ ShutdownEnds(k) \/ Crashes(k)
               \/ Executes(k) \/ Answers(k) \/ TimesOut(k) \/ Loses(k)
               \/ AsksAgain(k) \/ TimerFires(k)
        PROVE  IInv'
    BY <1>3, CallSpawnStep, CallKillStep, CallShutdownStep, ShutdownEndsStep, CrashesStep,
       ExecutesStep, AnswersStep, TimesOutStep, LosesStep, AsksAgainStep, TimerFiresStep
  <1> QED BY <1>1, <1>2, <1>3 DEF Next

LEMMA SpecIInv ==
    ASSUME ~SpawnsOver
    PROVE  Spec => []IInv
  <1>1. Init => IInv
    BY InitIInv
  <1>2. IInv /\ [Next]_vars => IInv'
    BY NextIInv
  <1> QED BY <1>1, <1>2, PTL DEF Spec

\* Only the holder of the lock leads (#startRenewing, #standDown, #resign): there is one
\* leader at most, whatever is lost, late, out of order, killed or restarted.
THEOREM HolderLeads ==
    ASSUME ~SpawnsOver
    PROVE  Spec => []OnlyHolderLeads
  <1>1. IInv => OnlyHolderLeads
    BY DEF IInv, Present, Sound, Owns, OnlyHolderLeads
  <1> QED BY <1>1, SpecIInv, PTL

\* Two coordinators never lead at a time.
THEOREM OneLeader ==
    ASSUME ~SpawnsOver
    PROVE  Spec => [](\A j, k \in Coordinators : leading[j] /\ leading[k] => j = k)
  <1>1. IInv => \A j, k \in Coordinators : leading[j] /\ leading[k] => j = k
    BY DEF IInv, Present, Sound, Owns
  <1> QED BY <1>1, SpecIInv, PTL

\* The state is well typed, a leader stands down a quarter of the lifetime before its lock
\* can lapse, and while it holds its renewals back one of this term is under way.
THEOREM Invariant ==
    ASSUME ~SpawnsOver
    PROVE  Spec => []Inv
  <1>1. IInv => Inv
    <2> SUFFICES ASSUME IInv PROVE Inv
      OBVIOUS
    <2>1. ASSUME NEW k \in Coordinators, leading[k]
          PROVE  since[k] <= 3 * Quarter /\ (renewing[k] => HasRenewal(calls[k]))
      <3>1. /\ timer[k] \in 0..Quarter /\ since[k] \in Nat /\ since[k] + timer[k] <= 3 * Quarter
            /\ renewing[k] => HasRenewal(calls[k])
        BY <2>1 DEF IInv, Present, Sound
      <3> QED BY <3>1, LeaderAssumption
    <2> QED BY <2>1 DEF IInv, Inv, StandsDownInTime, RenewalIsOfThisTerm, HasRenewal
  <1> QED BY <1>1, SpecIInv, PTL

-----------------------------------------------------------------------------
(***************************************************************************)
(* Clusters on other machines (RemoteHosts)                                *)
(***************************************************************************)

\* The ticks since the coordinator lost host h, or since its predecessor did.
Elapsed(h) ==
    IF phase = "down" THEN 0
    ELSE IF phase = "guarding" THEN 2 * Lease - guard
    ELSE IF link[h].dropped = -1 THEN 2 * Lease ELSE link[h].dropped

\* Host h is asked to run cluster c by a message it has not received.
Spawning(h, c) ==
    \E i \in DOMAIN wire[h].down :
        wire[h].down[i].t = "spawn" /\ wire[h].down[i].cluster = c

\* Cluster c runs on host h, or is going to.
Claims(h, c) == RunsHere(h, c) \/ Spawning(h, c)

\* Messages say what their kind needs.
Worded(h) ==
    /\ \A i \in DOMAIN wire[h].down : wire[h].down[i].t = "spawn" =>
           wire[h].down[i].cluster \in Clusters /\ wire[h].down[i].epoch # 0
    /\ \A i \in DOMAIN wire[h].up :
           wire[h].up[i].t = "exit" /\ wire[h].up[i].cluster \in Clusters

\* What the manager knows of a cluster.  One that waits for a lost host to fence
\* waits until two leases have passed since it was lost.
Managed(c) ==
    /\ info[c].child => info[c].state \in {"live", "stopping", "killing"}
                        /\ phase \in {"running", "stopping"}
    /\ info[c].epoch <= epoch
    /\ info[c].state # "none" => info[c].place \in Hosts
    /\ info[c].state \in {"restarting", "fencing"} => phase = "running"
    /\ phase = "stopping" /\ info[c].child => info[c].state # "live"
    /\ info[c].state = "fencing" =>
           /\ ~link[info[c].place].up /\ link[info[c].place].dropped \in 0..2 * Lease
           /\ info[c].hold = 2 * Lease - link[info[c].place].dropped

\* A host that has no connection, or one that is not welcomed yet, was fenced.
Opened(h) ==
    /\ wire[h].state = "good" => link[h].up
    /\ wire[h].state = "closing" => ~link[h].up
    /\ wire[h].state \in {"left", "none"} => host[h].conn = "none"
    /\ wire[h].state \in {"good", "closing"} => host[h].conn # "none"
    /\ host[h].conn = "none" => wire[h].down = <<>>
    /\ host[h].conn = "opening" =>
           IF wire[h].down = <<>> THEN wire[h].state = "cut" ELSE wire[h].down[1].t = "welcome"
    /\ \A p \in procs : p.host = h /\ (p.told # "kill" \/ p.reply) => host[h].conn = "joined"

\* A host that was lost hears the last of the coordinator within a tick, falls silent
\* for a lease and a tick at most, and has no process a tick after that.
Fading(h) ==
    ~link[h].up =>
        /\ \A i \in DOMAIN wire[h].down :
               Elapsed(h) <= 1 /\ (wire[h].down[i].old \/ Elapsed(h) = 0)
        /\ host[h].conn = "joined" => host[h].rx + 1 >= Elapsed(h)
        /\ \A p \in procs : p.host = h => Elapsed(h) <= Lease + 2

Phased ==
    phase \in {"down", "guarding"} => \A h \in Hosts : ~link[h].up /\ link[h].dropped = -1

\* A host does not run a cluster twice.
Single == \A p, q \in procs : p.host = q.host /\ p.cluster = q.cluster => p = q

\* Host h has a process of cluster c, at epoch e, as far as the manager knows.
Current(clusters, c, h, e) ==
    clusters[c].child /\ clusters[c].place = h /\ clusters[c].epoch = e

\* Over a connection that works, the manager knows every process that answers it and
\* every one it has asked for, and what it has not heard yet is about others.
Known(h) ==
    wire[h].state = "good" =>
        /\ \A p \in procs : p.host = h /\ p.reply => Current(info, p.cluster, h, p.epoch)
        /\ \A i \in DOMAIN wire[h].down : LET m == wire[h].down[i] IN m.t = "spawn" =>
               /\ Current(info, m.cluster, h, m.epoch)
               /\ \A p \in procs : p.host = h /\ p.reply => p.cluster # m.cluster
               /\ \A j \in DOMAIN wire[h].up :
                      wire[h].up[j].cluster = m.cluster => wire[h].up[j].epoch # m.epoch
               /\ \A j \in DOMAIN wire[h].down :
                      wire[h].down[j].t = "spawn" /\ wire[h].down[j].cluster = m.cluster => j = i
        /\ \A j \in DOMAIN wire[h].up :
               /\ wire[h].up[j].epoch <= epoch
               /\ \A p \in procs : p.host = h /\ p.reply /\ p.cluster = wire[h].up[j].cluster =>
                      p.epoch # wire[h].up[j].epoch

\* A cluster belongs to one host: where the manager has placed it, and nowhere
\* while the clusters are not placed.
Placed(c) ==
    /\ \A h, k \in Hosts : Claims(h, c) /\ Claims(k, c) => h = k
    /\ phase = "joining" => \A h \in Hosts : ~Claims(h, c)
    /\ phase \in {"running", "stopping"} =>
           /\ info[c].place \in Hosts
           /\ \A h \in Hosts : Claims(h, c) => h = info[c].place

Framed ==
    /\ RemoteTypeOK /\ Phased /\ Single
    /\ \A c \in Clusters : Managed(c)
    /\ \A h \in Hosts : Worded(h) /\ Opened(h) /\ Fading(h)

\* What the assumptions on the constants come to.
LEMMA RemoteFacts ==
    /\ LastHost \in Nat \ {0} /\ Lease \in Nat \ {0} /\ MinHosts \in Nat \ {0}
    /\ MaxEpoch \in Nat \ {0} /\ Clusters \subseteq Nat /\ IsFiniteSet(Clusters)
    /\ Hosts \subseteq Nat \ {0} /\ IsFiniteSet(Hosts) /\ Nowhere \notin Hosts
    /\ NoCluster \notin Clusters
  <1>1. IsFiniteSet(1..LastHost)
    BY RemoteAssumption, FS_Interval
  <1> QED BY <1>1, RemoteAssumption DEF Hosts, Nowhere, NoCluster

-----------------------------------------------------------------------------
(* Sequences.                                                              *)

\* The places of a sequence that is put together from two.
LEMMA Concatenated ==
    ASSUME NEW T, NEW q \in Seq(T), NEW r \in Seq(T)
    PROVE  LET z == q \o r
           IN  /\ z \in Seq(T) /\ Len(q) \in Nat
               /\ \A i \in DOMAIN q : i \in DOMAIN z /\ z[i] = q[i]
               /\ \A i \in DOMAIN z :
                      \/ i \in DOMAIN q /\ i <= Len(q) /\ z[i] = q[i]
                      \/ /\ i - Len(q) \in DOMAIN r /\ i > Len(q)
                         /\ z[i] = r[i - Len(q)]
               /\ \A i, j \in DOMAIN z : i - Len(q) = j - Len(q) => i = j
               /\ r = <<>> => z = q
  OBVIOUS

\* The places of a sequence that is one element longer.
LEMMA Appended ==
    ASSUME NEW T, NEW q \in Seq(T), NEW e \in T
    PROVE  LET z == Append(q, e)
           IN  /\ z \in Seq(T) /\ z # <<>>
               /\ \A i \in DOMAIN q : i \in DOMAIN z /\ z[i] = q[i]
               /\ \A i \in DOMAIN z : (i \in DOMAIN q /\ z[i] = q[i]) \/ (i \notin DOMAIN q /\ z[i] = e)
               /\ \A i, j \in DOMAIN z : i \notin DOMAIN q /\ j \notin DOMAIN q => i = j
               /\ z[1] = IF q = <<>> THEN e ELSE q[1]
  OBVIOUS

\* The places of a sequence without its first element.
LEMMA Rested ==
    ASSUME NEW T, NEW q \in Seq(T), q # <<>>
    PROVE  /\ Tail(q) \in Seq(T) /\ Head(q) \in T /\ Head(q) = q[1] /\ 1 \in DOMAIN q
           /\ \A i \in DOMAIN Tail(q) : i + 1 \in DOMAIN q /\ i + 1 # 1 /\ Tail(q)[i] = q[i + 1]
           /\ \A i, j \in DOMAIN Tail(q) : i + 1 = j + 1 => i = j
           /\ \A i \in DOMAIN q : i # 1 => i - 1 \in DOMAIN Tail(q) /\ Tail(q)[i - 1] = q[i]
  OBVIOUS

\* The empty sequence has no places.
LEMMA Nothing == \A T : <<>> \in Seq(T) /\ DOMAIN <<>> = {}
  OBVIOUS

\* The numbers of a finite set have the ranks from 0 on.
LEMMA Ranked ==
    ASSUME NEW S \in SUBSET Nat, IsFiniteSet(S)
    PROVE  /\ Cardinality(S) \in Nat
           /\ \A n \in S : Rank(S, n) \in Nat /\ Rank(S, n) + 1 \in 1..Cardinality(S)
           /\ \A n, m \in S : Rank(S, n) = Rank(S, m) => n = m
           /\ \A i \in 1..Cardinality(S) : \E n \in S : Rank(S, n) = i - 1
  <1> DEFINE Below(n) == {k \in S : k < n}
             size == Cardinality(S)
  <1>1. size \in Nat
    BY FS_CardinalityType
  <1>2. \A n \in S : IsFiniteSet(Below(n)) /\ Cardinality(Below(n)) \in Nat
    <2> TAKE n \in S
    <2>1. Below(n) \subseteq S
      OBVIOUS
    <2> HIDE DEF Below
    <2>2. IsFiniteSet(Below(n))
      BY <2>1, FS_Subset
    <2> QED BY <2>2, FS_CardinalityType
  <1>3. ASSUME NEW T, IsFiniteSet(T), NEW U \in SUBSET T, NEW n \in T, n \notin U
        PROVE  Cardinality(U) < Cardinality(T)
    <2>1. IsFiniteSet(T \ {n}) /\ Cardinality(T \ {n}) = Cardinality(T) - 1
      BY <1>3, FS_RemoveElement
    <2>2. U \subseteq T \ {n}
      BY <1>3
    <2>3. Cardinality(U) <= Cardinality(T \ {n})
      BY <2>1, <2>2, FS_Subset
    <2>4. Cardinality(T) \in Nat /\ Cardinality(U) \in Nat
      BY <1>3, <2>1, <2>2, FS_Subset, FS_CardinalityType
    <2> QED BY <2>1, <2>3, <2>4
  <1>4. \A n \in S : Cardinality(Below(n)) + 1 \in 1..size
    <2> TAKE n \in S
    <2>1. Below(n) \subseteq S /\ n \notin Below(n)
      OBVIOUS
    <2>2. Cardinality(Below(n)) < size
      <3> HIDE DEF Below
      <3> QED BY <2>1, <1>3
    <2>3. Cardinality(Below(n)) \in Nat
      BY <1>2
    <2> HIDE DEF Below, size
    <2> QED BY <1>1, <2>2, <2>3
  <1>5. \A n, m \in S : n < m => Cardinality(Below(n)) < Cardinality(Below(m))
    <2> TAKE n, m \in S
    <2> HAVE n < m
    <2>1. n \in Below(m) /\ n \notin Below(n)
      OBVIOUS
    <2>5. Below(n) \subseteq Below(m)
      <3> SUFFICES ASSUME NEW k \in S, k < n PROVE k < m
        OBVIOUS
      <3>1. k \in Nat /\ n \in Nat /\ m \in Nat
        OBVIOUS
      <3> QED BY <3>1
    <2>2. IsFiniteSet(Below(m))
      BY <1>2
    <2> HIDE DEF Below
    <2> QED BY <2>1, <2>2, <2>5, <1>3
  <1>6. \A n, m \in S : Cardinality(Below(n)) = Cardinality(Below(m)) => n = m
    <2> TAKE n, m \in S
    <2>1. n \in Nat /\ m \in Nat /\ Cardinality(Below(n)) \in Nat /\ Cardinality(Below(m)) \in Nat
      BY <1>2
    <2>2. (n < m => Cardinality(Below(n)) < Cardinality(Below(m)))
          /\ (m < n => Cardinality(Below(m)) < Cardinality(Below(n)))
      BY <1>5
    <2> HIDE DEF Below
    <2> QED BY <2>1, <2>2
  <1>7. \A i \in 1..size : \E n \in S : Cardinality(Below(n)) = i - 1
    <2> DEFINE f == [n \in S |-> Cardinality(Below(n)) + 1]
    <2>1. f \in [S -> 1..size]
      <3> HIDE DEF Below, size
      <3> QED BY <1>4
    <2>2. \A n, m \in S : f[n] = f[m] => n = m
      <3> TAKE n, m \in S
      <3>1. Cardinality(Below(n)) \in Nat /\ Cardinality(Below(m)) \in Nat
        BY <1>2
      <3>2. f[n] = Cardinality(Below(n)) + 1 /\ f[m] = Cardinality(Below(m)) + 1
        OBVIOUS
      <3> HIDE DEF Below, f
      <3> QED BY <3>1, <3>2, <1>6
    <2>3. \A n \in S : f[n] = Cardinality(Below(n)) + 1
      OBVIOUS
    <2> HIDE DEF f
    <2>4. f \in Injection(S, 1..size)
      BY <2>1, <2>2 DEF Injection, IsInjective
    <2>5. IsFiniteSet(1..size) /\ Cardinality(1..size) = size
      BY <1>1, FS_Interval
    <2>6. f \in Surjection(S, 1..size)
      <3> HIDE DEF size
      <3>1. Cardinality(S) = Cardinality(1..size)
        BY <2>5 DEF size
      <3> QED BY <3>1, <2>4, <2>5, FS_Injection
    <2>7. \A i \in 1..size : \E n \in S : f[n] = i
      BY <2>6 DEF Surjection
    <2> SUFFICES ASSUME NEW i \in 1..size PROVE \E n \in S : Cardinality(Below(n)) = i - 1
      OBVIOUS
    <2>8. PICK n \in S : f[n] = i
      BY <2>7
    <2>9. Cardinality(Below(n)) \in Nat /\ f[n] = Cardinality(Below(n)) + 1
      BY <1>2, <2>3
    <2> HIDE DEF Below
    <2>10. Cardinality(Below(n)) = i - 1
      BY <2>8, <2>9
    <2> QED BY <2>10
  <1>8. \A n : Rank(S, n) = Cardinality(Below(n))
    BY DEF Rank
  <1> HIDE DEF Below
  <1> QED BY <1>1, <1>2, <1>4, <1>6, <1>7, <1>8 DEF size

\* A finite set in its order: every element of it, once.
LEMMA AscendingFacts ==
    ASSUME NEW S \in SUBSET Nat, IsFiniteSet(S)
    PROVE  /\ Ascending(S) \in Seq(S) /\ Len(Ascending(S)) = Cardinality(S)
           /\ \A i \in DOMAIN Ascending(S) : Ascending(S)[i] \in S
           /\ \A i, j \in DOMAIN Ascending(S) : Ascending(S)[i] = Ascending(S)[j] => i = j
           /\ S = {} => Ascending(S) = <<>>
           /\ S # {} => Cardinality(S) \in Nat \ {0}
  <1> DEFINE size == Cardinality(S)
             a == Ascending(S)
  <1>1. size \in Nat /\ \A i \in 1..size : \E n \in S : Rank(S, n) = i - 1
    BY Ranked
  <1>2. \A i \in 1..size : a[i] \in S /\ Rank(S, a[i]) = i - 1
    <2> TAKE i \in 1..size
    <2>1. a[i] = CHOOSE n \in S : Rank(S, n) = i - 1
      BY DEF Ascending
    <2>2. \E n \in S : Rank(S, n) = i - 1
      BY <1>1
    <2> HIDE DEF a
    <2> QED BY <2>1, <2>2
  <1>3. DOMAIN a = 1..size /\ a = [i \in 1..size |-> a[i]]
    BY DEF Ascending
  <1> HIDE DEF a
  <1>4. a \in Seq(S) /\ Len(a) = size
    <2> HIDE DEF size
    <2>1. a \in [1..size -> S]
      BY <1>2, <1>3
    <2> QED BY <2>1, <1>1
  <1>5. \A i, j \in 1..size : a[i] = a[j] => i = j
    <2> TAKE i, j \in 1..size
    <2> HAVE a[i] = a[j]
    <2>1. i - 1 = j - 1
      BY <1>2
    <2> HIDE DEF size
    <2> QED BY <2>1, <1>1
  <1>6. S = {} => a = <<>>
    <2> HAVE S = {}
    <2>1. size = 0
      BY FS_EmptySet
    <2> HIDE DEF size
    <2> QED BY <2>1, <1>4
  <1>7. S # {} => size # 0
    BY FS_EmptySet
  <1> QED BY <1>1, <1>2, <1>3, <1>4, <1>5, <1>6, <1>7 DEF a

-----------------------------------------------------------------------------
(* What the methods of the manager do to its records and to the wires.     *)

\* What the manager and the wires hold, as Now.
Manager == [epoch: 0..MaxEpoch, info: [Clusters -> Info], link: [Hosts -> Link],
            wire: [Hosts -> Wire]]

\* Wire v is w with something more on its way to the host.
Longer(w, v) ==
    /\ v \in Wire /\ v.state = w.state /\ v.up = w.up
    /\ w.state # "good" => v = w
    /\ \A i \in DOMAIN w.down : i \in DOMAIN v.down /\ v.down[i] = w.down[i]

\* A message about a cluster.
LEMMA MessageFacts ==
    ASSUME NEW c \in Clusters \cup {NoCluster}, NEW e \in 0..MaxEpoch,
           NEW t \in {"welcome", "ping", "bye", "spawn", "term", "kill", "exit"}
    PROVE  /\ Msg(t, c, e) \in Message
           /\ Msg(t, c, e).t = t /\ Msg(t, c, e).cluster = c /\ Msg(t, c, e).epoch = e
           /\ ~Msg(t, c, e).old
  BY DEF Msg, Message

\* A message about no cluster.
LEMMA PlainFacts ==
    ASSUME NEW t \in {"welcome", "ping", "bye"}
    PROVE  Plain(t) \in Message /\ Plain(t).t = t /\ ~Plain(t).old
  <1>1. NoCluster \in Clusters \cup {NoCluster} /\ 0 \in 0..MaxEpoch
    BY RemoteFacts
  <1> QED BY <1>1, MessageFacts DEF Plain

\* What a wire becomes when the coordinator says something.
LEMMA DownFacts ==
    ASSUME NEW w \in Wire, NEW ms \in Seq(Message)
    PROVE  LET v == Down(w, ms)
           IN  /\ Longer(w, v)
               /\ \A i \in DOMAIN v.down :
                      \/ i \in DOMAIN w.down
                      \/ /\ w.state = "good" /\ i - Len(w.down) \in DOMAIN ms
                         /\ v.down[i] = ms[i - Len(w.down)] /\ i \notin DOMAIN w.down
               /\ \A i, j \in DOMAIN v.down : i - Len(w.down) = j - Len(w.down) => i = j
               /\ ms = <<>> => v = w
  <1> DEFINE q == w.down
             z == q \o ms
             v == [w EXCEPT !.down = z]
  <1>1. q \in Seq(Message) /\ DOMAIN q = 1..Len(q) /\ Len(q) \in Nat
    BY DEF Wire
  <1>2. CASE w.state # "good"
    <2>1. Down(w, ms) = w
      BY <1>2 DEF Down
    <2>2. \A i, j \in 1..Len(q) : i - Len(q) = j - Len(q) => i = j
      <3> HIDE DEF q
      <3> QED BY <1>1
    <2> QED BY <1>1, <1>2, <2>1, <2>2 DEF Longer
  <1>3. CASE w.state = "good"
    <2>1. Down(w, ms) = v
      BY <1>3 DEF Down
    <2>2. z \in Seq(Message)
      BY <1>1, Concatenated
    <2>3. v \in Wire /\ v.state = w.state /\ v.up = w.up /\ v.down = z
      <3> HIDE DEF z
      <3> QED BY <2>2 DEF Wire
    <2>4. /\ \A i \in DOMAIN q : i \in DOMAIN z /\ z[i] = q[i]
          /\ \A i \in DOMAIN z :
                 \/ i \in DOMAIN q
                 \/ i - Len(q) \in DOMAIN ms /\ i > Len(q) /\ z[i] = ms[i - Len(q)]
          /\ \A i, j \in DOMAIN z : i - Len(q) = j - Len(q) => i = j
          /\ ms = <<>> => z = q
      BY <1>1, Concatenated
    <2>5. \A i : i > Len(q) => i \notin DOMAIN q
      BY <1>1
    <2>6. z = q => v = w
      <3> HIDE DEF z
      <3> SUFFICES ASSUME z = q PROVE v = w
        OBVIOUS
      <3> QED BY DEF Wire
    <2> HIDE DEF z, v
    <2> QED BY <1>3, <2>1, <2>3, <2>4, <2>5, <2>6 DEF Longer
  <1> QED BY <1>2, <1>3

\* What a wire becomes when a host says something.
LEMMA UpFacts ==
    ASSUME NEW w \in Wire, NEW e \in Message
    PROVE  LET v == Up(w, e)
           IN  /\ v \in Wire /\ v.state = w.state /\ v.down = w.down
               /\ w.state # "good" => v = w
               /\ \A i \in DOMAIN v.up :
                      (i \in DOMAIN w.up /\ v.up[i] = w.up[i]) \/ v.up[i] = e
               /\ \A i \in DOMAIN v.up : i \in DOMAIN w.up \/ w.state = "good"
  <1> DEFINE q == w.up
             z == Append(q, e)
             v == [w EXCEPT !.up = z]
  <1>1. q \in Seq(Message)
    BY DEF Wire
  <1>2. CASE w.state # "good"
    BY <1>2 DEF Up
  <1>3. CASE w.state = "good"
    <2>1. Up(w, e) = v
      BY <1>3 DEF Up
    <2>2. z \in Seq(Message)
          /\ \A i \in DOMAIN z : (i \in DOMAIN q /\ z[i] = q[i]) \/ z[i] = e
      BY <1>1, Appended
    <2>3. v \in Wire /\ v.state = w.state /\ v.down = w.down /\ v.up = z
      <3> HIDE DEF z
      <3> QED BY <2>2 DEF Wire
    <2> HIDE DEF z, v
    <2> QED BY <1>3, <2>1, <2>2, <2>3
  <1> QED BY <1>2, <1>3

\* A cluster whose process is over restarts or has failed.
LEMMA RecoveredFacts ==
    ASSUME NEW i \in Info, NEW e
    PROVE  LET r == Recovered(i, e)
           IN  /\ r \in Info /\ ~r.child /\ r.place = i.place /\ r.epoch = i.epoch
               /\ r.state \in {"restarting", "failed"} /\ r.hold = 0
  <1>1. 0 \in 0..2 * Lease
    BY RemoteFacts
  <1> QED BY <1>1 DEF Recovered, Info

\* What launching a set of clusters makes of the manager's records: each cluster that
\* could be started has an epoch of its own, newer than every one before.
LaunchedInfo(s, S, t) ==
    /\ t \in Manager /\ t.link = s.link /\ t.epoch >= s.epoch
    /\ \A c \in Clusters \ S : t.info[c] = s.info[c]
    /\ \A c \in S : /\ t.info[c].place = s.info[c].place
                    /\ t.info[c].state \in {"live", "restarting", "failed"}
                    /\ t.info[c].child => t.info[c].state = "live"
                    /\ t.info[c].epoch = s.info[c].epoch \/ t.info[c].epoch <= t.epoch

\* It also has one message on the wire to its host, if that is connected.
LaunchedWire(s, S, t, h) ==
    /\ Longer(s.wire[h], t.wire[h])
    /\ (\A c \in S : s.info[c].place # h) => t.wire[h] = s.wire[h]
    /\ \A i \in DOMAIN t.wire[h].down \ DOMAIN s.wire[h].down :
        LET m == t.wire[h].down[i]
        IN  /\ m.t = "spawn" /\ ~m.old /\ m.cluster \in S
            /\ s.info[m.cluster].place = h /\ t.info[m.cluster].child
            /\ m.epoch > s.epoch /\ m.epoch <= t.epoch
            /\ t.info[m.cluster].epoch = m.epoch
            /\ \A j \in DOMAIN t.wire[h].down \ DOMAIN s.wire[h].down :
                   t.wire[h].down[j].cluster = m.cluster => j = i

\* What Launch makes of the records of the clusters and of the wires.
LEMMA Launched ==
    ASSUME NEW s \in Manager, NEW S \in SUBSET Clusters,
           \A h \in Hosts : s.wire[h].state = "good" => s.link[h].up
    PROVE  /\ LaunchedInfo(s, S, Launch(s, S))
           /\ \A h \in Hosts : LaunchedWire(s, S, Launch(s, S), h)
  <1> DEFINE number(c) == s.epoch + 1 + Rank(S, c)
             begun == {c \in S : number(c) <= MaxEpoch}
             placed(h) == {c \in begun : s.info[c].place = h}
             asked(h) == Ascending(placed(h))
             asks(h) == [i \in DOMAIN asked(h) |-> Msg("spawn", asked(h)[i], number(asked(h)[i]))]
             launched(i, e) ==
                 IF s.link[i.place].up
                 THEN [i EXCEPT !.state = "live", !.epoch = e, !.child = TRUE, !.hold = 0]
                 ELSE Recovered([i EXCEPT !.epoch = e], e)
             last == IF s.epoch + Cardinality(S) < MaxEpoch THEN s.epoch + Cardinality(S)
                     ELSE MaxEpoch
             infos == [c \in Clusters |->
                          IF c \in begun THEN launched(s.info[c], number(c))
                          ELSE IF c \in S THEN Recovered(s.info[c], MaxEpoch) ELSE s.info[c]]
             wires == [h \in Hosts |-> Down(s.wire[h], asks(h))]
             t == [s EXCEPT !.epoch = last, !.info = infos, !.wire = wires]
  <1>1. Launch(s, S) = t
    BY DEF Launch
  <1>2. /\ s.epoch \in 0..MaxEpoch /\ s.info \in [Clusters -> Info]
        /\ s.link \in [Hosts -> Link] /\ s.wire \in [Hosts -> Wire] /\ MaxEpoch \in Nat
    BY RemoteFacts DEF Manager
  <1>3. /\ S \in SUBSET Nat /\ IsFiniteSet(S) /\ Cardinality(S) \in Nat
        /\ \A c \in S : Rank(S, c) \in Nat /\ Rank(S, c) + 1 \in 1..Cardinality(S)
    <2>1. S \in SUBSET Nat /\ IsFiniteSet(S)
      BY RemoteFacts, FS_Subset
    <2> QED BY <2>1, Ranked
  <1>4. \A c \in S : number(c) \in Nat /\ number(c) > s.epoch /\ number(c) <= s.epoch + Cardinality(S)
    <2> SUFFICES ASSUME NEW c \in S
                 PROVE  number(c) \in Nat /\ number(c) > s.epoch /\ number(c) <= s.epoch + Cardinality(S)
      OBVIOUS
    <2> DEFINE r == Rank(S, c)
               n == Cardinality(S)
    <2>1. r \in Nat /\ r + 1 \in 1..n /\ n \in Nat
      BY <1>3
    <2> HIDE DEF r, n
    <2>2. s.epoch + 1 + r > s.epoch /\ s.epoch + 1 + r <= s.epoch + n /\ s.epoch + 1 + r \in Nat
      BY <2>1, <1>2
    <2> QED BY <2>2 DEF r, n
  <1>5. last \in 0..MaxEpoch /\ last >= s.epoch /\ \A c \in begun : number(c) <= last
    <2> DEFINE n == Cardinality(S)
    <2>1. n \in Nat
      BY <1>3
    <2>2. \A c \in begun : number(c) <= s.epoch + n /\ number(c) <= MaxEpoch
      BY <1>4
    <2> HIDE DEF n, number, begun
    <2>3. last = IF s.epoch + n < MaxEpoch THEN s.epoch + n ELSE MaxEpoch
      BY DEF n
    <2> HIDE DEF last
    <2> QED BY <2>1, <2>2, <2>3, <1>2
  <1>6. \A c \in begun : c \in S /\ c \in Clusters /\ number(c) \in 1..MaxEpoch
    <2> SUFFICES ASSUME NEW c \in begun PROVE number(c) \in 1..MaxEpoch
      OBVIOUS
    <2>1. number(c) \in Nat /\ number(c) > s.epoch /\ number(c) <= MaxEpoch
      BY <1>4
    <2> HIDE DEF number
    <2> QED BY <2>1, <1>2
  <1> HIDE DEF number, last
  <1>7. \A h \in Hosts : /\ placed(h) \subseteq begun /\ placed(h) \in SUBSET Nat /\ IsFiniteSet(placed(h))
    <2> TAKE h \in Hosts
    <2>1. placed(h) \in SUBSET S /\ placed(h) \subseteq begun
      OBVIOUS
    <2> HIDE DEF placed, begun
    <2> QED BY <2>1, <1>3, FS_Subset
  <1>8. \A h \in Hosts :
            /\ asks(h) \in Seq(Message) /\ DOMAIN asks(h) = DOMAIN asked(h)
            /\ \A i \in DOMAIN asks(h) : /\ asked(h)[i] \in begun /\ s.info[asked(h)[i]].place = h
                                         /\ asks(h)[i].t = "spawn" /\ ~asks(h)[i].old
                                         /\ asks(h)[i].cluster = asked(h)[i]
                                         /\ asks(h)[i].epoch = number(asked(h)[i])
            /\ \A i, j \in DOMAIN asks(h) : asks(h)[i].cluster = asks(h)[j].cluster => i = j
            /\ placed(h) = {} => asks(h) = <<>>
    <2> TAKE h \in Hosts
    <2>1. /\ asked(h) \in Seq(placed(h))
          /\ \A i \in DOMAIN asked(h) : asked(h)[i] \in placed(h)
          /\ \A i, j \in DOMAIN asked(h) : asked(h)[i] = asked(h)[j] => i = j
          /\ placed(h) = {} => asked(h) = <<>>
      BY <1>7, AscendingFacts
    <2>2. \A c \in placed(h) : c \in begun /\ s.info[c].place = h
      OBVIOUS
    <2> HIDE DEF asked, placed
    <2>3. \A i \in DOMAIN asked(h) :
              /\ asked(h)[i] \in begun /\ s.info[asked(h)[i]].place = h
              /\ asks(h)[i] = Msg("spawn", asked(h)[i], number(asked(h)[i]))
      BY <2>1, <2>2
    <2>4. \A i \in DOMAIN asked(h) :
              /\ asks(h)[i] \in Message /\ asks(h)[i].t = "spawn" /\ ~asks(h)[i].old
              /\ asks(h)[i].cluster = asked(h)[i] /\ asks(h)[i].epoch = number(asked(h)[i])
      <3> TAKE i \in DOMAIN asked(h)
      <3> DEFINE c == asked(h)[i]
      <3>1. c \in Clusters \cup {NoCluster} /\ number(c) \in 0..MaxEpoch
        <4>1. c \in begun
          BY <2>3
        <4> HIDE DEF c, begun
        <4>2. c \in Clusters /\ number(c) \in 1..MaxEpoch
          BY <4>1, <1>6
        <4> QED BY <4>2, <1>2
      <3>2. asks(h)[i] = Msg("spawn", c, number(c))
        BY <2>3
      <3> HIDE DEF c, asks
      <3>3. /\ Msg("spawn", c, number(c)) \in Message /\ Msg("spawn", c, number(c)).t = "spawn"
            /\ Msg("spawn", c, number(c)).cluster = c
            /\ Msg("spawn", c, number(c)).epoch = number(c) /\ ~Msg("spawn", c, number(c)).old
        BY <3>1, MessageFacts
      <3> QED BY <3>2, <3>3 DEF c
    <2>5. DOMAIN asks(h) = DOMAIN asked(h) /\ asked(h) \in [1..Len(asked(h)) -> placed(h)]
          /\ Len(asked(h)) \in Nat
      BY <2>1
    <2>6. asks(h) = [i \in 1..Len(asked(h)) |-> asks(h)[i]]
      BY <2>5
    <2>7. asks(h) \in Seq(Message)
      <3>1. asks(h) \in [1..Len(asked(h)) -> Message]
        <4> HIDE DEF asks
        <4> QED BY <2>4, <2>5, <2>6
      <3> HIDE DEF asks
      <3> QED BY <3>1, <2>5
    <2>8. asked(h) = <<>> => asks(h) = <<>>
      <3> HAVE asked(h) = <<>>
      <3>1. Len(asked(h)) = 0
        OBVIOUS
      <3> HIDE DEF asks
      <3> QED BY <3>1, <2>6
    <2> HIDE DEF asks
    <2> QED BY <2>1, <2>3, <2>4, <2>5, <2>7, <2>8
  <1>9. \A c \in begun :
            /\ launched(s.info[c], number(c)) \in Info
            /\ launched(s.info[c], number(c)).place = s.info[c].place
            /\ launched(s.info[c], number(c)).epoch = number(c)
            /\ launched(s.info[c], number(c)).state \in {"live", "restarting", "failed"}
            /\ launched(s.info[c], number(c)).child =>
                   launched(s.info[c], number(c)).state = "live"
            /\ s.link[s.info[c].place].up => launched(s.info[c], number(c)).child
    <2> TAKE c \in begun
    <2> DEFINE i == s.info[c]
               e == number(c)
    <2>1. i \in Info /\ e \in 0..MaxEpoch /\ 0 \in 0..2 * Lease
      <3>1. c \in Clusters /\ e \in 1..MaxEpoch
        BY <1>6
      <3> HIDE DEF e, begun
      <3> QED BY <3>1, <1>2, RemoteFacts
    <2> HIDE DEF i, e
    <2>2. [i EXCEPT !.epoch = e] \in Info /\ [i EXCEPT !.epoch = e].place = i.place
          /\ [i EXCEPT !.epoch = e].epoch = e
      BY <2>1 DEF Info
    <2>3. CASE s.link[i.place].up
      <3>1. launched(i, e) = [i EXCEPT !.state = "live", !.epoch = e, !.child = TRUE, !.hold = 0]
        BY <2>3
      <3> HIDE DEF launched
      <3>2. /\ launched(i, e) \in Info /\ launched(i, e).place = i.place /\ launched(i, e).epoch = e
            /\ launched(i, e).state = "live" /\ launched(i, e).child
        BY <3>1, <2>1 DEF Info
      <3> QED BY <3>2 DEF i, e
    <2>4. CASE ~s.link[i.place].up
      <3> DEFINE j == [i EXCEPT !.epoch = e]
      <3>1. launched(i, e) = Recovered(j, e)
        BY <2>4
      <3>3. j \in Info /\ j.place = i.place /\ j.epoch = e
        BY <2>2
      <3> HIDE DEF launched, j
      <3>2. /\ launched(i, e) \in Info /\ launched(i, e).place = i.place /\ launched(i, e).epoch = e
            /\ launched(i, e).state \in {"restarting", "failed"} /\ ~launched(i, e).child
        BY <3>1, <3>3, RecoveredFacts
      <3> QED BY <3>2, <2>4 DEF i, e
    <2> QED BY <2>3, <2>4
  <1> HIDE DEF launched
  <1>10. /\ infos \in [Clusters -> Info]
         /\ \A c \in Clusters \ S : infos[c] = s.info[c]
         /\ \A c \in S : /\ infos[c].place = s.info[c].place
                         /\ infos[c].state \in {"live", "restarting", "failed"}
                         /\ infos[c].child => infos[c].state = "live"
         /\ \A c \in S \ begun : infos[c].epoch = s.info[c].epoch
         /\ \A c \in begun : infos[c].epoch = number(c)
                             /\ (s.link[s.info[c].place].up => infos[c].child)
    <2>1. \A c \in Clusters : s.info[c] \in Info
      BY <1>2
    <2>2. \A c \in begun : infos[c] = launched(s.info[c], number(c))
      BY <1>6
    <2>3. \A c \in S \ begun : infos[c] = Recovered(s.info[c], MaxEpoch)
      OBVIOUS
    <2>4. \A c \in Clusters \ S : infos[c] = s.info[c]
      OBVIOUS
    <2>5. infos = [c \in Clusters |-> infos[c]]
      OBVIOUS
    <2> HIDE DEF infos, begun
    <2>6. \A c \in S \ begun : /\ infos[c] \in Info /\ infos[c].place = s.info[c].place
                               /\ infos[c].state \in {"restarting", "failed"} /\ ~infos[c].child
                               /\ infos[c].epoch = s.info[c].epoch
      BY <2>1, <2>3, RecoveredFacts
    <2>7. \A c \in Clusters : infos[c] \in Info
      BY <2>1, <2>2, <2>4, <2>6, <1>9
    <2>8. infos \in [Clusters -> Info]
      BY <2>5, <2>7
    <2> QED BY <2>2, <2>4, <2>6, <2>8, <1>9
  <1>11. \A h \in Hosts :
            /\ Longer(s.wire[h], wires[h])
            /\ \A i \in DOMAIN wires[h].down :
                   \/ i \in DOMAIN s.wire[h].down
                   \/ /\ s.wire[h].state = "good" /\ i - Len(s.wire[h].down) \in DOMAIN asks(h)
                      /\ wires[h].down[i] = asks(h)[i - Len(s.wire[h].down)]
            /\ \A i, j \in DOMAIN wires[h].down :
                   i - Len(s.wire[h].down) = j - Len(s.wire[h].down) => i = j
            /\ asks(h) = <<>> => wires[h] = s.wire[h]
    <2> TAKE h \in Hosts
    <2>1. wires[h] = Down(s.wire[h], asks(h))
      OBVIOUS
    <2>2. s.wire[h] \in Wire /\ asks(h) \in Seq(Message)
      BY <1>2, <1>8
    <2> HIDE DEF wires, asks
    <2> QED BY <2>1, <2>2, DownFacts
  <1>12. wires \in [Hosts -> Wire]
    <2>1. wires = [h \in Hosts |-> wires[h]]
      OBVIOUS
    <2> HIDE DEF wires
    <2>2. \A h \in Hosts : wires[h] \in Wire
      BY <1>11 DEF Longer
    <2> QED BY <2>1, <2>2
  <1>13. /\ t \in Manager /\ t.link = s.link /\ t.epoch = last /\ t.info = infos
         /\ t.wire = wires
    <2> HIDE DEF infos, wires, last
    <2> QED BY <1>5, <1>10, <1>12 DEF Manager
  <1>14. \A h \in Hosts : (\A c \in S : s.info[c].place # h) => wires[h] = s.wire[h]
    <2> TAKE h \in Hosts
    <2> HAVE \A c \in S : s.info[c].place # h
    <2>1. placed(h) = {}
      BY <1>6
    <2> HIDE DEF placed, wires, asks
    <2> QED BY <2>1, <1>8, <1>11
  <1>15. \A h \in Hosts : \A i \in DOMAIN wires[h].down \ DOMAIN s.wire[h].down :
            LET m == wires[h].down[i]
            IN  /\ m.t = "spawn" /\ ~m.old /\ m.cluster \in S
                /\ s.info[m.cluster].place = h /\ infos[m.cluster].child
                /\ m.epoch > s.epoch /\ m.epoch <= last
                /\ infos[m.cluster].epoch = m.epoch
                /\ \A j \in DOMAIN wires[h].down \ DOMAIN s.wire[h].down :
                       wires[h].down[j].cluster = m.cluster => j = i
    <2> HIDE DEF wires, asks, asked, infos
    <2> SUFFICES ASSUME NEW h \in Hosts, NEW i \in DOMAIN wires[h].down \ DOMAIN s.wire[h].down
                 PROVE  LET m == wires[h].down[i]
                        IN  /\ m.t = "spawn" /\ ~m.old /\ m.cluster \in S
                            /\ s.info[m.cluster].place = h /\ infos[m.cluster].child
                            /\ m.epoch > s.epoch /\ m.epoch <= last
                            /\ infos[m.cluster].epoch = m.epoch
                            /\ \A j \in DOMAIN wires[h].down \ DOMAIN s.wire[h].down :
                                   wires[h].down[j].cluster = m.cluster => j = i
      OBVIOUS
    <2> DEFINE k == i - Len(s.wire[h].down)
               c == asked(h)[k]
    <2>1. /\ s.wire[h].state = "good" /\ k \in DOMAIN asks(h) /\ wires[h].down[i] = asks(h)[k]
      BY <1>11
    <2>2. /\ c \in begun /\ s.info[c].place = h /\ asks(h)[k].t = "spawn" /\ ~asks(h)[k].old
          /\ asks(h)[k].cluster = c /\ asks(h)[k].epoch = number(c)
      BY <2>1, <1>8
    <2>3. s.link[h].up
      BY <2>1
    <2>4. \A j \in DOMAIN wires[h].down \ DOMAIN s.wire[h].down :
              wires[h].down[j].cluster = asks(h)[k].cluster => j = i
      <3> SUFFICES ASSUME NEW j \in DOMAIN wires[h].down \ DOMAIN s.wire[h].down,
                          wires[h].down[j].cluster = asks(h)[k].cluster
                   PROVE  j = i
        OBVIOUS
      <3> DEFINE l == j - Len(s.wire[h].down)
      <3>1. l \in DOMAIN asks(h) /\ wires[h].down[j] = asks(h)[l]
        BY <1>11
      <3>2. l = k
        <4> HIDE DEF l, k
        <4> QED BY <3>1, <2>1, <1>8
      <3> QED BY <3>2, <1>11
    <2> HIDE DEF k, c
    <2>5. c \in S /\ number(c) > s.epoch /\ number(c) <= last
      BY <2>2, <1>4, <1>5, <1>6
    <2> HIDE DEF begun
    <2> QED BY <2>1, <2>2, <2>3, <2>4, <2>5, <1>10
  <1> HIDE DEF t, infos, wires
  <1>16. t.epoch >= s.epoch
    BY <1>5, <1>13
  <1>17. \A c \in Clusters \ S : t.info[c] = s.info[c]
    BY <1>10, <1>13
  <1>18. \A c \in S : /\ t.info[c].place = s.info[c].place
                      /\ t.info[c].state \in {"live", "restarting", "failed"}
                      /\ t.info[c].child => t.info[c].state = "live"
    BY <1>10, <1>13
  <1>19. \A c \in S : t.info[c].epoch = s.info[c].epoch \/ t.info[c].epoch <= t.epoch
    <2> HIDE DEF begun
    <2> QED BY <1>5, <1>10, <1>13
  <1>20. \A h \in Hosts : /\ Longer(s.wire[h], t.wire[h])
                          /\ (\A c \in S : s.info[c].place # h) => t.wire[h] = s.wire[h]
    BY <1>11, <1>13, <1>14
  <1>21. \A h \in Hosts : \A i \in DOMAIN t.wire[h].down \ DOMAIN s.wire[h].down :
            LET m == t.wire[h].down[i]
            IN  /\ m.t = "spawn" /\ ~m.old /\ m.cluster \in S
                /\ s.info[m.cluster].place = h /\ t.info[m.cluster].child
                /\ m.epoch > s.epoch /\ m.epoch <= t.epoch
                /\ t.info[m.cluster].epoch = m.epoch
                /\ \A j \in DOMAIN t.wire[h].down \ DOMAIN s.wire[h].down :
                       t.wire[h].down[j].cluster = m.cluster => j = i
    <2>1. \A h : t.wire[h] = wires[h]
      BY <1>13
    <2>2. \A c : t.info[c] = infos[c]
      BY <1>13
    <2> QED BY <2>1, <2>2, <1>13, <1>15
  <1>22. LaunchedInfo(s, S, t)
    BY <1>13, <1>16, <1>17, <1>18, <1>19 DEF LaunchedInfo
  <1>23. \A h \in Hosts : LaunchedWire(s, S, t, h)
    BY <1>20, <1>21 DEF LaunchedWire
  <1> QED BY <1>1, <1>22, <1>23

\* Telling clusters to end: one message for each, on the wire to its host.
LEMMA Killed ==
    ASSUME NEW s \in Manager, NEW S \in SUBSET Clusters, NEW what \in {"term", "kill"}
    PROVE  LET t == Kill(s, S, what)
           IN  /\ t \in Manager /\ t.epoch = s.epoch /\ t.info = s.info /\ t.link = s.link
               /\ \A h \in Hosts :
                   /\ Longer(s.wire[h], t.wire[h])
                   /\ \A i \in DOMAIN t.wire[h].down \ DOMAIN s.wire[h].down :
                          ~t.wire[h].down[i].old /\ t.wire[h].down[i].t = what
  <1> DEFINE placed(h) == {c \in S : s.info[c].place = h}
             told(h) == Ascending(placed(h))
             tells(h) == [i \in DOMAIN told(h) |-> Msg(what, told(h)[i], s.info[told(h)[i]].epoch)]
             wires == [h \in Hosts |-> Down(s.wire[h], tells(h))]
             t == [s EXCEPT !.wire = wires]
  <1>1. Kill(s, S, what) = t
    BY DEF Kill
  <1>2. /\ s.epoch \in 0..MaxEpoch /\ s.info \in [Clusters -> Info]
        /\ s.link \in [Hosts -> Link] /\ s.wire \in [Hosts -> Wire]
    BY DEF Manager
  <1>3. S \in SUBSET Nat /\ IsFiniteSet(S)
    BY RemoteFacts, FS_Subset
  <1>4. \A h \in Hosts : placed(h) \in SUBSET S /\ placed(h) \in SUBSET Nat /\ IsFiniteSet(placed(h))
    <2> TAKE h \in Hosts
    <2>1. placed(h) \in SUBSET S
      OBVIOUS
    <2> HIDE DEF placed
    <2> QED BY <2>1, <1>3, FS_Subset
  <1>5. \A c \in S : /\ Msg(what, c, s.info[c].epoch) \in Message
                     /\ Msg(what, c, s.info[c].epoch).t = what /\ ~Msg(what, c, s.info[c].epoch).old
    <2> TAKE c \in S
    <2> DEFINE e == s.info[c].epoch
    <2>1. e \in 0..MaxEpoch
      BY <1>2 DEF Info
    <2> HIDE DEF e
    <2>2. Msg(what, c, e) \in Message /\ Msg(what, c, e).t = what /\ ~Msg(what, c, e).old
      BY <2>1, MessageFacts
    <2> QED BY <2>2 DEF e
  <1>6. \A h \in Hosts :
            /\ tells(h) \in Seq(Message)
            /\ \A i \in DOMAIN tells(h) : tells(h)[i].t = what /\ ~tells(h)[i].old
    <2> TAKE h \in Hosts
    <2>1. told(h) \in Seq(placed(h)) /\ \A i \in DOMAIN told(h) : told(h)[i] \in placed(h)
      BY <1>4, AscendingFacts
    <2>2. \A i \in DOMAIN told(h) : told(h)[i] \in S
      BY <2>1
    <2>3. DOMAIN told(h) = 1..Len(told(h)) /\ Len(told(h)) \in Nat
      BY <2>1
    <2> HIDE DEF told
    <2>4. \A i \in DOMAIN told(h) : tells(h)[i] = Msg(what, told(h)[i], s.info[told(h)[i]].epoch)
      OBVIOUS
    <2>5. tells(h) = [i \in 1..Len(told(h)) |-> tells(h)[i]] /\ DOMAIN tells(h) = DOMAIN told(h)
      BY <2>3
    <2> HIDE DEF tells
    <2>6. \A i \in DOMAIN told(h) : tells(h)[i] \in Message /\ tells(h)[i].t = what /\ ~tells(h)[i].old
      BY <2>2, <2>4, <1>5
    <2>7. tells(h) \in [1..Len(told(h)) -> Message]
      BY <2>3, <2>5, <2>6
    <2> QED BY <2>3, <2>5, <2>6, <2>7
  <1>7. \A h \in Hosts :
            /\ Longer(s.wire[h], wires[h])
            /\ \A i \in DOMAIN wires[h].down \ DOMAIN s.wire[h].down :
                   ~wires[h].down[i].old /\ wires[h].down[i].t = what
    <2> TAKE h \in Hosts
    <2>1. wires[h] = Down(s.wire[h], tells(h))
      OBVIOUS
    <2>2. s.wire[h] \in Wire /\ tells(h) \in Seq(Message)
      BY <1>2, <1>6
    <2> HIDE DEF wires, tells
    <2>3. /\ Longer(s.wire[h], wires[h])
          /\ \A i \in DOMAIN wires[h].down :
                 \/ i \in DOMAIN s.wire[h].down
                 \/ /\ i - Len(s.wire[h].down) \in DOMAIN tells(h)
                    /\ wires[h].down[i] = tells(h)[i - Len(s.wire[h].down)]
      BY <2>1, <2>2, DownFacts
    <2> QED BY <2>3, <1>6
  <1>8. wires \in [Hosts -> Wire]
    <2>1. wires = [h \in Hosts |-> wires[h]]
      OBVIOUS
    <2> HIDE DEF wires
    <2>2. \A h \in Hosts : wires[h] \in Wire
      BY <1>7 DEF Longer
    <2> QED BY <2>1, <2>2
  <1>9. /\ t \in Manager /\ t.link = s.link /\ t.epoch = s.epoch /\ t.info = s.info
        /\ t.wire = wires
    <2> HIDE DEF wires
    <2> QED BY <1>8 DEF Manager
  <1> HIDE DEF t, wires, Kill
  <1> QED BY <1>1, <1>7, <1>9

\* The exits of the processes of a set of clusters.
LEMMA Exited ==
    ASSUME NEW s \in Manager, NEW S \in SUBSET Clusters
    PROVE  LET t == OnExit(s, S)
           IN  /\ t \in Manager /\ t.epoch = s.epoch /\ t.link = s.link /\ t.wire = s.wire
               /\ \A c \in Clusters \ S : t.info[c] = s.info[c]
               /\ \A c \in S :
                   /\ ~t.info[c].child /\ t.info[c].place = s.info[c].place
                   /\ t.info[c].epoch = s.info[c].epoch
                   /\ IF s.info[c].state \in {"stopping", "killing"}
                      THEN t.info[c].state = s.info[c].state
                      ELSE t.info[c].state \in {"restarting", "failed"}
  <1> DEFINE infos == [c \in Clusters |->
                 IF c \notin S THEN s.info[c]
                 ELSE IF s.info[c].state \in {"stopping", "killing"}
                      THEN [s.info[c] EXCEPT !.child = FALSE]
                 ELSE Recovered(s.info[c], s.epoch)]
             t == [s EXCEPT !.info = infos]
  <1>1. OnExit(s, S) = t
    BY DEF OnExit
  <1>2. s.info \in [Clusters -> Info]
    BY DEF Manager
  <1>3. \A c \in S :
            /\ infos[c] \in Info /\ ~infos[c].child /\ infos[c].place = s.info[c].place
            /\ infos[c].epoch = s.info[c].epoch
            /\ IF s.info[c].state \in {"stopping", "killing"} THEN infos[c].state = s.info[c].state
               ELSE infos[c].state \in {"restarting", "failed"}
    <2> TAKE c \in S
    <2> DEFINE i == s.info[c]
    <2>1. i \in Info
      BY <1>2
    <2>2. infos[c] = IF i.state \in {"stopping", "killing"} THEN [i EXCEPT !.child = FALSE]
                     ELSE Recovered(i, s.epoch)
      OBVIOUS
    <2> HIDE DEF i, infos
    <2>3. /\ [i EXCEPT !.child = FALSE] \in Info /\ ~[i EXCEPT !.child = FALSE].child
          /\ [i EXCEPT !.child = FALSE].place = i.place /\ [i EXCEPT !.child = FALSE].epoch = i.epoch
          /\ [i EXCEPT !.child = FALSE].state = i.state
      BY <2>1 DEF Info
    <2>4. /\ infos[c] \in Info /\ ~infos[c].child /\ infos[c].place = i.place
          /\ infos[c].epoch = i.epoch
          /\ IF i.state \in {"stopping", "killing"} THEN infos[c].state = i.state
             ELSE infos[c].state \in {"restarting", "failed"}
      <3>1. CASE i.state \in {"stopping", "killing"}
        <4>1. infos[c] = [i EXCEPT !.child = FALSE]
          BY <2>2, <3>1
        <4> QED BY <4>1, <3>1, <2>3
      <3>2. CASE i.state \notin {"stopping", "killing"}
        <4>1. infos[c] = Recovered(i, s.epoch)
          BY <2>2, <3>2
        <4> QED BY <4>1, <3>2, <2>1, RecoveredFacts
      <3> QED BY <3>1, <3>2
    <2> QED BY <2>4 DEF i
  <1>4. \A c \in Clusters \ S : infos[c] = s.info[c]
    OBVIOUS
  <1>5. infos = [c \in Clusters |-> infos[c]]
    OBVIOUS
  <1> HIDE DEF infos
  <1>6. infos \in [Clusters -> Info]
    <2>1. \A c \in Clusters : infos[c] \in Info
      BY <1>2, <1>3, <1>4
    <2> QED BY <2>1, <1>5
  <1>7. /\ t \in Manager /\ t.link = s.link /\ t.epoch = s.epoch /\ t.info = infos
        /\ t.wire = s.wire
    BY <1>6 DEF Manager
  <1> HIDE DEF t
  <1>8. OnExit(s, S) \in Manager /\ OnExit(s, S).epoch = s.epoch /\ OnExit(s, S).link = s.link
        /\ OnExit(s, S).wire = s.wire /\ OnExit(s, S).info = infos
    BY <1>1, <1>7
  <1> HIDE DEF OnExit
  <1> QED BY <1>3, <1>4, <1>8

\* A set of numbers that is finite and not empty has a least one.
LEMMA Least ==
    ASSUME NEW S \in SUBSET Nat, IsFiniteSet(S), S # {}
    PROVE  \E n \in S : \A m \in S : n <= m
  <1> DEFINE Below(n) == {k \in S : k < n}
  <1>1. Cardinality(S) \in Nat \ {0}
    BY AscendingFacts
  <1>2. PICK n \in S : Rank(S, n) = 1 - 1
    BY <1>1, Ranked
  <1>3. Cardinality(Below(n)) = 0
    BY <1>2 DEF Rank
  <1>4. Below(n) \subseteq S
    OBVIOUS
  <1>5. Below(n) = {}
    <2> HIDE DEF Below
    <2>1. IsFiniteSet(Below(n))
      BY <1>4, FS_Subset
    <2> QED BY <2>1, <1>3, FS_EmptySet
  <1>6. \A m \in S : ~(m < n)
    BY <1>5
  <1> HIDE DEF Below
  <1> QED BY <1>6

\* A cluster that moves goes to a host that is connected.
LEMMA BestPlaceFacts ==
    ASSUME NEW s \in Manager, \E k \in Hosts : s.link[k].up
    PROVE  BestPlace(s) \in Hosts /\ s.link[BestPlace(s)].up
  <1> DEFINE up == {h \in Hosts : s.link[h].up}
             loads == {Load(s, h) : h \in up}
             better(h, k) == Load(s, h) < Load(s, k) \/ (Load(s, h) = Load(s, k) /\ h <= k)
  <1>1. up # {} /\ up \subseteq Hosts /\ IsFiniteSet(up) /\ up \in SUBSET Nat
    <2>1. up \subseteq Hosts /\ up # {}
      OBVIOUS
    <2> HIDE DEF up
    <2> QED BY <2>1, RemoteFacts, FS_Subset
  <1>2. \A h : Load(s, h) \in Nat
    <2> TAKE h
    <2> DEFINE those == {c \in Clusters : s.info[c].place = h /\ s.info[c].state # "failed"}
    <2>1. those \subseteq Clusters
      OBVIOUS
    <2>2. Load(s, h) = Cardinality(those)
      BY DEF Load
    <2> HIDE DEF those
    <2> QED BY <2>1, <2>2, RemoteFacts, FS_Subset, FS_CardinalityType
  <1>3. IsFiniteSet(loads)
    <2> DEFINE f == [h \in up |-> Load(s, h)]
    <2>1. f \in [up -> loads] /\ \A n \in loads : \E h \in up : f[h] = n
      <3> HIDE DEF up
      <3> QED OBVIOUS
    <2> HIDE DEF f, up, loads
    <2>2. f \in Surjection(up, loads)
      BY <2>1 DEF Surjection
    <2> QED BY <2>2, <1>1, FS_Surjection
  <1>4. loads # {} /\ loads \in SUBSET Nat
    <2> HIDE DEF up
    <2> QED BY <1>1, <1>2
  <1>5. PICK n \in loads : \A m \in loads : n <= m
    <2> HIDE DEF loads
    <2> QED BY <1>3, <1>4, Least
  <1> DEFINE best == {h \in up : Load(s, h) = n}
  <1>6. best \subseteq up /\ best # {}
    BY <1>5
  <1>7. best \in SUBSET Nat /\ IsFiniteSet(best)
    <2> HIDE DEF best, up
    <2> QED BY <1>1, <1>6, FS_Subset
  <1>8. PICK h \in best : \A k \in best : h <= k
    <2> HIDE DEF best
    <2> QED BY <1>6, <1>7, Least
  <1>9. \A k \in up : better(h, k)
    <2> TAKE k \in up
    <2>1. Load(s, h) = n /\ Load(s, k) \in loads /\ n <= Load(s, k)
      BY <1>5, <1>8
    <2>2. Load(s, h) \in Nat /\ Load(s, k) \in Nat
      BY <1>2
    <2>3. Load(s, k) = n => h <= k
      BY <1>8
    <2> HIDE DEF loads, up, best
    <2> QED BY <2>1, <2>2, <2>3
  <1>10. h \in up /\ BestPlace(s) = CHOOSE g \in up : \A k \in up : better(g, k)
    BY <1>8 DEF BestPlace
  <1> HIDE DEF better, up
  <1>11. BestPlace(s) \in up
    BY <1>9, <1>10
  <1> QED BY <1>11 DEF up

-----------------------------------------------------------------------------
(* Hosts that a step leaves alone, or writes to.                           *)

\* A step that does to host h no more than this: its connection stays as it is, what
\* is added to its wire is new and well formed, none of its workers comes back to life.
Kept(h) ==
    /\ host'[h] = host[h] /\ link'[h].up = link[h].up /\ Elapsed(h)' = Elapsed(h)
    /\ wire'[h].state = wire[h].state
    /\ wire[h].state # "good" => wire'[h].down = wire[h].down
    /\ \A i \in DOMAIN wire[h].down :
           i \in DOMAIN wire'[h].down /\ wire'[h].down[i] = wire[h].down[i]
    /\ \A i \in DOMAIN wire'[h].down \ DOMAIN wire[h].down :
           /\ ~wire'[h].down[i].old
           /\ wire'[h].down[i].t = "spawn" =>
                  wire'[h].down[i].cluster \in Clusters /\ wire'[h].down[i].epoch # 0
    /\ \A i \in DOMAIN wire'[h].up :
           wire'[h].up[i].t = "exit" /\ wire'[h].up[i].cluster \in Clusters
    /\ \A p \in procs' : p.host = h =>
           \E q \in procs : q.host = h /\ (p.told # "kill" \/ p.reply => q.told # "kill" \/ q.reply)

\* Such a step leaves what is said of the host true.
LEMMA KeptHolds ==
    ASSUME NEW h \in Hosts, Worded(h), Opened(h), Fading(h), Kept(h), wire \in [Hosts -> Wire]
    PROVE  Worded(h)' /\ Opened(h)' /\ Fading(h)'
  <1>1. Worded(h)'
    <2>1. \A i \in DOMAIN wire'[h].down : wire'[h].down[i].t = "spawn" =>
              wire'[h].down[i].cluster \in Clusters /\ wire'[h].down[i].epoch # 0
      BY DEF Worded, Kept
    <2> QED BY <2>1 DEF Worded, Kept
  <1>2. Opened(h)'
    <2>1. /\ wire'[h].state = "good" => link'[h].up
          /\ wire'[h].state = "closing" => ~link'[h].up
          /\ wire'[h].state \in {"left", "none"} => host'[h].conn = "none"
          /\ wire'[h].state \in {"good", "closing"} => host'[h].conn # "none"
      BY DEF Opened, Kept
    <2>2. host'[h].conn = "none" => wire'[h].down = <<>>
      BY DEF Opened, Kept
    <2>3. host'[h].conn = "opening" =>
              IF wire'[h].down = <<>> THEN wire'[h].state = "cut" ELSE wire'[h].down[1].t = "welcome"
      <3> HAVE host'[h].conn = "opening"
      <3>1. wire[h].down \in Seq(Message)
        BY DEF Wire
      <3>2. CASE wire[h].down = <<>>
        BY <3>2 DEF Opened, Kept
      <3>3. CASE wire[h].down # <<>>
        <4>1. 1 \in DOMAIN wire[h].down
          BY <3>1, <3>3, Rested
        <4>2. 1 \in DOMAIN wire'[h].down /\ wire'[h].down[1] = wire[h].down[1]
          BY <4>1 DEF Kept
        <4>3. wire'[h].down # <<>>
          BY <4>2
        <4> QED BY <3>3, <4>2, <4>3 DEF Opened, Kept
      <3> QED BY <3>2, <3>3
    <2>4. \A p \in procs' : p.host = h /\ (p.told # "kill" \/ p.reply) => host'[h].conn = "joined"
      BY DEF Opened, Kept
    <2> QED BY <2>1, <2>2, <2>3, <2>4 DEF Opened
  <1>3. Fading(h)'
    <2> SUFFICES ASSUME ~link'[h].up
                 PROVE  /\ \A i \in DOMAIN wire'[h].down :
                               Elapsed(h)' <= 1 /\ (wire'[h].down[i].old \/ Elapsed(h)' = 0)
                        /\ host'[h].conn = "joined" => host'[h].rx + 1 >= Elapsed(h)'
                        /\ \A p \in procs' : p.host = h => Elapsed(h)' <= Lease + 2
      BY DEF Fading
    <2>1. ~link[h].up /\ wire'[h].down = wire[h].down /\ Elapsed(h)' = Elapsed(h)
          /\ host'[h] = host[h]
      BY DEF Kept, Opened
    <2> HIDE DEF Elapsed
    <2>2. \A i \in DOMAIN wire'[h].down :
              Elapsed(h)' <= 1 /\ (wire'[h].down[i].old \/ Elapsed(h)' = 0)
      BY <2>1 DEF Fading
    <2>3. host'[h].conn = "joined" => host'[h].rx + 1 >= Elapsed(h)'
      BY <2>1 DEF Fading
    <2>4. \A p \in procs' : p.host = h => Elapsed(h)' <= Lease + 2
      BY <2>1 DEF Fading, Kept
    <2> QED BY <2>2, <2>3, <2>4
  <1> QED BY <1>1, <1>2, <1>3

\* The records that the methods of the manager work on.
LEMMA NowFacts ==
    ASSUME RemoteTypeOK
    PROVE  /\ Now \in Manager /\ Now.epoch = epoch /\ Now.info = info /\ Now.link = link
           /\ Now.wire = wire
  BY DEF RemoteTypeOK, Manager, Now

\* What the manager's records become keeps their types, and the epoch goes up.
LEMMA BecomesTyped ==
    ASSUME RemoteTypeOK, NEW t \in Manager, Becomes(t), phase' \in {"joining", "running", "stopping"},
           host' = host, procs' = procs, guard' = guard,
           count' \in [faults: 0..MaxFaults, takeovers: 0..MaxTakeovers, respawns: 0..MaxRespawns]
    PROVE  RemoteTypeOK'
  BY DEF RemoteTypeOK, Manager, Becomes

\* The time since a host was lost is that of its link, while the coordinator listens.
LEMMA ElapsedKept ==
    ASSUME NEW h \in Hosts, link'[h] = link[h], guard' = guard,
           \/ phase' = phase
           \/ {phase, phase'} \subseteq {"joining", "running", "stopping"}
    PROVE  Elapsed(h)' = Elapsed(h)
  BY DEF Elapsed

\* A step that only lengthens the wires with messages for the hosts that listen.
LEMMA Speaks ==
    ASSUME NEW h \in Hosts, Framed, Longer(wire[h], wire'[h]),
           host'[h] = host[h], link'[h] = link[h], Elapsed(h)' = Elapsed(h), procs' = procs,
           \A i \in DOMAIN wire'[h].down \ DOMAIN wire[h].down :
               /\ ~wire'[h].down[i].old
               /\ wire'[h].down[i].t = "spawn" =>
                      wire'[h].down[i].cluster \in Clusters /\ wire'[h].down[i].epoch # 0
    PROVE  Worded(h)' /\ Opened(h)' /\ Fading(h)'
  <1>1. Worded(h) /\ Opened(h) /\ Fading(h) /\ wire \in [Hosts -> Wire]
    BY DEF Framed, RemoteTypeOK
  <1>2. Kept(h)
    BY <1>1 DEF Kept, Longer, Worded
  <1> QED BY <1>1, <1>2, KeptHolds

-----------------------------------------------------------------------------
(* What a step leaves known, and what it leaves placed.                    *)

AllKnown == \A h \in Hosts : Known(h)
AllPlaced == \A c \in Clusters : Placed(c)

\* What is new on the wire of host h, once clusters of S have been launched.
Asked(S, h, w) ==
    \A i \in DOMAIN wire'[h].down \ DOMAIN w.down :
        /\ wire'[h].down[i].t = "spawn" /\ ~wire'[h].down[i].old /\ wire'[h].down[i].cluster \in S
        /\ Current(info', wire'[h].down[i].cluster, h, wire'[h].down[i].epoch)
        /\ wire'[h].down[i].epoch > epoch /\ wire'[h].down[i].epoch <= epoch'
        /\ \A j \in DOMAIN wire'[h].down \ DOMAIN w.down :
               wire'[h].down[j].cluster = wire'[h].down[i].cluster => j = i

\* A step that launches clusters, seen from the variables.
LEMMA LaunchStep ==
    ASSUME NEW s \in Manager, NEW S \in SUBSET Clusters, Becomes(Launch(s, S)), s.epoch = epoch,
           \A h \in Hosts : s.wire[h].state = "good" => s.link[h].up
    PROVE  /\ Launch(s, S) \in Manager /\ link' = s.link /\ epoch' >= epoch
           /\ \A c \in Clusters \ S : info'[c] = s.info[c]
           /\ \A c \in S : /\ info'[c].place = s.info[c].place
                           /\ info'[c].state \in {"live", "restarting", "failed"}
                           /\ info'[c].child => info'[c].state = "live"
                           /\ info'[c].epoch = s.info[c].epoch \/ info'[c].epoch <= epoch'
           /\ \A h \in Hosts : Longer(s.wire[h], wire'[h]) /\ Asked(S, h, s.wire[h])
           /\ \A h \in Hosts : (\A c \in S : s.info[c].place # h) => wire'[h] = s.wire[h]
  <1> DEFINE t == Launch(s, S)
  <1>1. epoch' = t.epoch /\ info' = t.info /\ link' = t.link /\ wire' = t.wire
    BY DEF Becomes
  <1>2. LaunchedInfo(s, S, t) /\ \A h \in Hosts : LaunchedWire(s, S, t, h)
    BY Launched
  <1> HIDE DEF t
  <1>5. \A h \in Hosts : Asked(S, h, s.wire[h])
    <2> TAKE h \in Hosts
    <2> DEFINE v == t.wire[h].down
               new == DOMAIN v \ DOMAIN s.wire[h].down
    <2>1. \A i \in new :
              /\ v[i].t = "spawn" /\ ~v[i].old /\ v[i].cluster \in S
              /\ s.info[v[i].cluster].place = h /\ t.info[v[i].cluster].child
              /\ v[i].epoch > s.epoch /\ v[i].epoch <= t.epoch
              /\ t.info[v[i].cluster].epoch = v[i].epoch
              /\ \A j \in new : v[j].cluster = v[i].cluster => j = i
      BY <1>2 DEF LaunchedWire
    <2>2. \A c \in S : t.info[c].place = s.info[c].place
      BY <1>2 DEF LaunchedInfo
    <2>3. wire'[h].down = v /\ s.epoch = epoch
      BY <1>1
    <2> HIDE DEF v
    <2>4. \A i \in new : /\ v[i].t = "spawn" /\ ~v[i].old /\ v[i].cluster \in S
                         /\ Current(t.info, v[i].cluster, h, v[i].epoch)
                         /\ v[i].epoch > epoch /\ v[i].epoch <= t.epoch
                         /\ \A j \in new : v[j].cluster = v[i].cluster => j = i
      BY <2>1, <2>2, <2>3 DEF Current
    <2> HIDE DEF Current
    <2> QED BY <2>3, <2>4, <1>1 DEF Asked
  <1>6. \A h \in Hosts : Longer(s.wire[h], wire'[h])
    BY <1>1, <1>2 DEF LaunchedWire
  <1>7. \A h \in Hosts : (\A c \in S : s.info[c].place # h) => wire'[h] = s.wire[h]
    BY <1>1, <1>2 DEF LaunchedWire
  <1>8. t \in Manager /\ link' = s.link /\ epoch' >= epoch
    BY <1>1, <1>2 DEF LaunchedInfo
  <1>9. /\ \A c \in Clusters \ S : info'[c] = s.info[c]
        /\ \A c \in S : /\ info'[c].place = s.info[c].place
                        /\ info'[c].state \in {"live", "restarting", "failed"}
                        /\ info'[c].child => info'[c].state = "live"
                        /\ info'[c].epoch = s.info[c].epoch \/ info'[c].epoch <= epoch'
    BY <1>1, <1>2 DEF LaunchedInfo
  <1> QED BY <1>5, <1>6, <1>7, <1>8, <1>9 DEF t

\* What is asked of a host is in order.
LEMMA AskedSpeaks ==
    ASSUME RemoteTypeOK, NEW S \in SUBSET Clusters, NEW h \in Hosts, NEW w, Asked(S, h, w),
           wire' \in [Hosts -> Wire]
    PROVE  \A i \in DOMAIN wire'[h].down \ DOMAIN w.down :
               /\ ~wire'[h].down[i].old
               /\ wire'[h].down[i].t = "spawn" =>
                      wire'[h].down[i].cluster \in Clusters /\ wire'[h].down[i].epoch # 0
  <1> SUFFICES ASSUME NEW i \in DOMAIN wire'[h].down \ DOMAIN w.down
               PROVE  ~wire'[h].down[i].old /\ wire'[h].down[i].cluster \in Clusters
                      /\ wire'[h].down[i].epoch # 0
    OBVIOUS
  <1>1. ~wire'[h].down[i].old /\ wire'[h].down[i].cluster \in Clusters
        /\ wire'[h].down[i].epoch > epoch
    BY DEF Asked
  <1>2. wire'[h].down \in Seq(Message)
    BY DEF Wire
  <1>3. wire'[h].down[i] \in Message
    BY <1>2
  <1>4. wire'[h].down[i].epoch \in Nat /\ epoch \in Nat
    BY <1>3, RemoteFacts DEF RemoteTypeOK, Message
  <1> QED BY <1>1, <1>4

\* Launching clusters that have no process the manager knows of.
LEMMA KnownLaunched ==
    ASSUME RemoteTypeOK, NEW S \in SUBSET Clusters, NEW h \in Hosts, Known(h), procs' = procs,
           Longer(wire[h], wire'[h]), Asked(S, h, wire[h]), epoch' >= epoch, epoch' \in Nat,
           wire' \in [Hosts -> Wire], Worded(h),
           \A c \in S : ~info[c].child,
           \A c \in Clusters \ S : info'[c] = info[c]
    PROVE  Known(h)'
  <1> SUFFICES ASSUME wire'[h].state = "good" PROVE Known(h)'
    BY DEF Known
  <1>1. wire[h].state = "good" /\ wire'[h].up = wire[h].up
    BY DEF Longer
  <1>2. \A c \in Clusters : \A e : Current(info, c, h, e) => Current(info', c, h, e) /\ c \notin S
    BY DEF Current
  <1>3. wire[h].up \in Seq(Message) /\ wire[h].down \in Seq(Message)
    BY DEF RemoteTypeOK, Wire
  <1>4. \A p \in procs : p.host = h /\ p.reply => Current(info, p.cluster, h, p.epoch) /\ p.cluster \in Clusters
    BY <1>1 DEF Known, RemoteTypeOK, Process
  <1>5. \A j \in DOMAIN wire[h].up : wire[h].up[j].epoch <= epoch /\ wire[h].up[j].epoch \in Nat
    <2> TAKE j \in DOMAIN wire[h].up
    <2>1. wire[h].up[j] \in Message
      BY <1>3
    <2> QED BY <1>1, <2>1, RemoteFacts DEF Known, Message
  <1>6. \A i \in DOMAIN wire'[h].down : wire'[h].down[i].t = "spawn" =>
            /\ Current(info', wire'[h].down[i].cluster, h, wire'[h].down[i].epoch)
            /\ \A p \in procs : p.host = h /\ p.reply => p.cluster # wire'[h].down[i].cluster
            /\ \A j \in DOMAIN wire[h].up :
                   wire[h].up[j].cluster = wire'[h].down[i].cluster =>
                       wire[h].up[j].epoch # wire'[h].down[i].epoch
            /\ \A j \in DOMAIN wire'[h].down :
                   wire'[h].down[j].t = "spawn"
                       /\ wire'[h].down[j].cluster = wire'[h].down[i].cluster => j = i
    <2> TAKE i \in DOMAIN wire'[h].down
    <2> DEFINE m == wire'[h].down[i]
    <2> HAVE m.t = "spawn"
    <2>1. \A j \in DOMAIN wire[h].down : j \in DOMAIN wire'[h].down /\ wire'[h].down[j] = wire[h].down[j]
      BY DEF Longer
    <2>2. \A j \in DOMAIN wire[h].down : wire[h].down[j].t = "spawn" =>
              wire[h].down[j].cluster \in Clusters
              /\ Current(info, wire[h].down[j].cluster, h, wire[h].down[j].epoch)
      BY <1>1 DEF Known, Worded
    <2>3. CASE i \in DOMAIN wire[h].down
      <3>1. m = wire[h].down[i] /\ Current(info, m.cluster, h, m.epoch) /\ m.cluster \in Clusters
        BY <2>1, <2>2, <2>3
      <3>2. Current(info', m.cluster, h, m.epoch) /\ m.cluster \notin S
        BY <3>1, <1>2
      <3>3. /\ \A p \in procs : p.host = h /\ p.reply => p.cluster # m.cluster
            /\ \A j \in DOMAIN wire[h].up : wire[h].up[j].cluster = m.cluster =>
                   wire[h].up[j].epoch # m.epoch
            /\ \A j \in DOMAIN wire[h].down :
                   wire[h].down[j].t = "spawn" /\ wire[h].down[j].cluster = m.cluster => j = i
        BY <2>3, <3>1, <1>1 DEF Known
      <3>4. \A j \in DOMAIN wire'[h].down :
                wire'[h].down[j].t = "spawn" /\ wire'[h].down[j].cluster = m.cluster => j = i
        BY <2>1, <3>2, <3>3 DEF Asked
      <3> QED BY <3>2, <3>3, <3>4
    <2>4. CASE i \notin DOMAIN wire[h].down
      <3>1. /\ m.cluster \in S /\ Current(info', m.cluster, h, m.epoch) /\ m.epoch > epoch
            /\ \A j \in DOMAIN wire'[h].down \ DOMAIN wire[h].down :
                   wire'[h].down[j].cluster = m.cluster => j = i
        BY <2>4 DEF Asked
      <3>2. \A p \in procs : p.host = h /\ p.reply => p.cluster # m.cluster
        BY <3>1, <1>2, <1>4
      <3>3. m \in Message
        BY DEF Wire
      <3>4. m.epoch \in Nat /\ epoch \in Nat
        BY <3>3, RemoteFacts DEF Message, RemoteTypeOK
      <3>5. \A j \in DOMAIN wire[h].up : wire[h].up[j].epoch # m.epoch
        <4> HIDE DEF m
        <4> QED BY <3>1, <3>4, <1>5
      <3>6. \A j \in DOMAIN wire'[h].down :
                wire'[h].down[j].t = "spawn" /\ wire'[h].down[j].cluster = m.cluster => j = i
        BY <2>1, <2>2, <3>1, <1>2
      <3> QED BY <3>1, <3>2, <3>5, <3>6
    <2> QED BY <2>3, <2>4
  <1>7. \A j \in DOMAIN wire[h].up : wire[h].up[j].epoch <= epoch'
    BY <1>5 DEF RemoteTypeOK
  <1>8. \A j \in DOMAIN wire[h].up : \A p \in procs :
            p.host = h /\ p.reply /\ p.cluster = wire[h].up[j].cluster => p.epoch # wire[h].up[j].epoch
    BY <1>1 DEF Known
  <1>9. \A p \in procs : p.host = h /\ p.reply => Current(info', p.cluster, h, p.epoch)
    BY <1>2, <1>4
  <1> HIDE DEF Current
  <1> QED BY <1>1, <1>6, <1>7, <1>8, <1>9 DEF Known

\* A step after which there is less to know about host h: the clusters of L have no
\* process the manager knows of any more, and none that host h answers for; the host
\* has received the first d messages.
LessKnown(h, d, L) ==
    /\ d \in Nat /\ L \subseteq Clusters
    /\ wire'[h].state = "good" => wire[h].state = "good"
    /\ wire'[h].down \in Seq(Message)
    /\ epoch' >= epoch /\ epoch' \in Nat
    /\ \A p \in procs' : p.host = h /\ p.reply =>
           /\ p.cluster \notin L
           /\ \E q \in procs : /\ q.host = h /\ q.reply
                               /\ q.cluster = p.cluster /\ q.epoch = p.epoch
    /\ \A i \in DOMAIN wire'[h].down : wire'[h].down[i].t = "spawn" =>
           /\ wire'[h].down[i].cluster \notin L
           /\ i + d \in DOMAIN wire[h].down /\ wire[h].down[i + d].t = "spawn"
           /\ wire[h].down[i + d].cluster = wire'[h].down[i].cluster
           /\ wire[h].down[i + d].epoch = wire'[h].down[i].epoch
    /\ \A i \in DOMAIN wire'[h].up : \E j \in DOMAIN wire[h].up :
           /\ wire[h].up[j].cluster = wire'[h].up[i].cluster
           /\ wire[h].up[j].epoch = wire'[h].up[i].epoch
    /\ \A c \in Clusters \ L : \A e : Current(info, c, h, e) => Current(info', c, h, e)

\* A step that says less of a host leaves known what was known.
LEMMA KnownKept ==
    ASSUME RemoteTypeOK, NEW h \in Hosts, Known(h), Worded(h), NEW d, NEW L, LessKnown(h, d, L)
    PROVE  Known(h)'
  <1> USE DEF LessKnown
  <1> SUFFICES ASSUME wire'[h].state = "good" PROVE Known(h)'
    BY DEF Known
  <1>1. wire[h].state = "good"
    OBVIOUS
  <1> DEFINE low == wire[h].down
             down == wire'[h].down
  <1>2. \A p \in procs' : p.host = h /\ p.reply => Current(info', p.cluster, h, p.epoch)
    <2> SUFFICES ASSUME NEW p \in procs', p.host = h, p.reply
                 PROVE  Current(info', p.cluster, h, p.epoch)
      OBVIOUS
    <2>1. PICK q \in procs : q.host = h /\ q.reply /\ q.cluster = p.cluster /\ q.epoch = p.epoch
      OBVIOUS
    <2>2. Current(info, p.cluster, h, p.epoch) /\ p.cluster \in Clusters \ L
      BY <1>1, <2>1 DEF Known, RemoteTypeOK, Process
    <2> QED BY <2>2
  <1>3. \A i \in DOMAIN down : down[i].t = "spawn" =>
            /\ Current(info', down[i].cluster, h, down[i].epoch)
            /\ \A p \in procs' : p.host = h /\ p.reply => p.cluster # down[i].cluster
            /\ \A j \in DOMAIN wire'[h].up :
                   wire'[h].up[j].cluster = down[i].cluster => wire'[h].up[j].epoch # down[i].epoch
            /\ \A j \in DOMAIN down :
                   down[j].t = "spawn" /\ down[j].cluster = down[i].cluster => j = i
    <2> SUFFICES ASSUME NEW i \in DOMAIN down, down[i].t = "spawn"
                 PROVE  /\ Current(info', down[i].cluster, h, down[i].epoch)
                        /\ \A p \in procs' : p.host = h /\ p.reply => p.cluster # down[i].cluster
                        /\ \A j \in DOMAIN wire'[h].up :
                               wire'[h].up[j].cluster = down[i].cluster =>
                                   wire'[h].up[j].epoch # down[i].epoch
                        /\ \A j \in DOMAIN down :
                               down[j].t = "spawn" /\ down[j].cluster = down[i].cluster => j = i
      OBVIOUS
    <2> DEFINE c == down[i].cluster
               e == down[i].epoch
    <2>1. /\ c \notin L /\ i + d \in DOMAIN low /\ low[i + d].t = "spawn"
          /\ low[i + d].cluster = c /\ low[i + d].epoch = e
      OBVIOUS
    <2>2. /\ Current(info, c, h, e) /\ c \in Clusters
          /\ \A p \in procs : p.host = h /\ p.reply => p.cluster # c
          /\ \A j \in DOMAIN wire[h].up : wire[h].up[j].cluster = c => wire[h].up[j].epoch # e
          /\ \A j \in DOMAIN low : low[j].t = "spawn" /\ low[j].cluster = c => j = i + d
      BY <1>1, <2>1 DEF Known, Worded
    <2>3. Current(info', c, h, e)
      BY <2>1, <2>2
    <2>4. \A p \in procs' : p.host = h /\ p.reply => p.cluster # c
      BY <2>2
    <2>5. \A j \in DOMAIN wire'[h].up : wire'[h].up[j].cluster = c => wire'[h].up[j].epoch # e
      BY <2>2
    <2>6. \A j \in DOMAIN down : down[j].t = "spawn" /\ down[j].cluster = c => j = i
      <3> TAKE j \in DOMAIN down
      <3> HAVE down[j].t = "spawn" /\ down[j].cluster = c
      <3>1. j + d \in DOMAIN low /\ low[j + d].t = "spawn" /\ low[j + d].cluster = c
        OBVIOUS
      <3>2. j + d = i + d
        BY <3>1, <2>2
      <3>3. i \in Nat /\ j \in Nat
        OBVIOUS
      <3> HIDE DEF down, c
      <3> QED BY <3>2, <3>3
    <2> QED BY <2>3, <2>4, <2>5, <2>6
  <1>4. \A i \in DOMAIN wire'[h].up :
            /\ wire'[h].up[i].epoch <= epoch'
            /\ \A p \in procs' : p.host = h /\ p.reply /\ p.cluster = wire'[h].up[i].cluster =>
                   p.epoch # wire'[h].up[i].epoch
    <2> TAKE i \in DOMAIN wire'[h].up
    <2>1. PICK j \in DOMAIN wire[h].up : /\ wire[h].up[j].cluster = wire'[h].up[i].cluster
                                         /\ wire[h].up[j].epoch = wire'[h].up[i].epoch
      OBVIOUS
    <2>2. /\ wire[h].up[j].epoch <= epoch
          /\ \A p \in procs : p.host = h /\ p.reply /\ p.cluster = wire[h].up[j].cluster =>
                 p.epoch # wire[h].up[j].epoch
      BY <1>1 DEF Known
    <2>3. wire[h].up \in Seq(Message)
      BY DEF RemoteTypeOK, Wire
    <2>4. wire[h].up[j] \in Message
      BY <2>3
    <2>5. wire[h].up[j].epoch \in Nat /\ epoch \in Nat
      BY <2>4, RemoteFacts DEF Message, RemoteTypeOK
    <2>6. wire'[h].up[i].epoch <= epoch'
      BY <2>1, <2>2, <2>5
    <2>7. \A p \in procs' : p.host = h /\ p.reply /\ p.cluster = wire'[h].up[i].cluster =>
              p.epoch # wire'[h].up[i].epoch
      BY <2>1, <2>2
    <2> QED BY <2>6, <2>7
  <1> HIDE DEF Current
  <1> QED BY <1>2, <1>3, <1>4 DEF Known

\* A step after which fewer clusters are claimed, if any.
LEMMA PlacedKept ==
    ASSUME AllPlaced,
           \A h \in Hosts, c \in Clusters : Claims(h, c)' => Claims(h, c),
           \/ phase' \in {"down", "guarding"}
           \/ /\ \A c \in Clusters : info'[c].place = info[c].place
              /\ phase' = phase \/ {phase, phase'} \subseteq {"running", "stopping"}
    PROVE  AllPlaced'
  <1> SUFFICES ASSUME NEW c \in Clusters PROVE Placed(c)'
    BY DEF AllPlaced
  <1>1. Placed(c)
    BY DEF AllPlaced
  <1> QED BY <1>1 DEF Placed

\* A step that launches clusters of S where they have been placed.
LEMMA PlacedLaunched ==
    ASSUME AllPlaced, NEW S \in SUBSET Clusters,
           \A h \in Hosts, c \in Clusters :
               Claims(h, c)' => Claims(h, c) \/ (c \in S /\ h = info'[c].place),
           \A c \in S : /\ info'[c].place \in Hosts
                        /\ \A h \in Hosts : Claims(h, c) => h = info'[c].place,
           \A c \in Clusters \ S : info'[c].place = info[c].place,
           \/ phase' = phase /\ (S # {} => phase = "running")
           \/ phase' = "running" /\ S = Clusters
    PROVE  AllPlaced'
  <1> SUFFICES ASSUME NEW c \in Clusters PROVE Placed(c)'
    BY DEF AllPlaced
  <1>1. Placed(c)
    BY DEF AllPlaced
  <1>2. CASE c \in S
    BY <1>1, <1>2 DEF Placed
  <1>3. CASE c \notin S
    BY <1>1, <1>3 DEF Placed
  <1> QED BY <1>2, <1>3

\* The claims on host h that come with messages to it.
LEMMA ClaimsLaunched ==
    ASSUME NEW S \in SUBSET Clusters, NEW h \in Hosts, NEW w, procs' = procs,
           Asked(S, h, w), Longer(w, wire'[h]),
           \A i \in DOMAIN w.down : w.down[i].t = "spawn" =>
               i \in DOMAIN wire[h].down /\ wire[h].down[i] = w.down[i]
    PROVE  \A c \in Clusters : Claims(h, c)' => Claims(h, c) \/ (c \in S /\ h = info'[c].place)
  <1> SUFFICES ASSUME NEW c \in Clusters, Spawning(h, c)'
               PROVE  Spawning(h, c) \/ (c \in S /\ h = info'[c].place)
    BY DEF Claims, RunsHere
  <1>1. PICK i \in DOMAIN wire'[h].down : wire'[h].down[i].t = "spawn" /\ wire'[h].down[i].cluster = c
    BY DEF Spawning
  <1>2. CASE i \in DOMAIN w.down
    BY <1>1, <1>2 DEF Longer, Spawning
  <1>3. CASE i \notin DOMAIN w.down
    BY <1>1, <1>3 DEF Asked, Current
  <1> QED BY <1>2, <1>3

-----------------------------------------------------------------------------
(* Every step keeps the frame, what is known and what is placed.           *)

\* What every step is shown to do; the parts do not depend on one another, but on
\* the frame.
Keeps ==
    /\ Framed'
    /\ ~Hasty /\ AllKnown => AllKnown'
    /\ ~Hasty /\ Lease >= 3 /\ AllPlaced => AllPlaced'

\* A step of a host leaves what the coordinator knows.
LEMMA CoordinatorKept ==
    ASSUME Framed, UNCHANGED coordinator
    PROVE  /\ Phased' /\ \A c \in Clusters : Managed(c)'
           /\ \A h \in Hosts : Elapsed(h)' = Elapsed(h)
           /\ phase' = phase /\ epoch' = epoch /\ info' = info /\ link' = link
           /\ epoch' \in Nat /\ epoch' >= epoch
  <1>1. phase' = phase /\ guard' = guard /\ epoch' = epoch /\ info' = info /\ link' = link
    BY DEF coordinator
  <1>2. Phased'
    BY <1>1 DEF Framed, Phased
  <1>3. \A c \in Clusters : Managed(c)'
    BY <1>1 DEF Framed, Managed
  <1>4. \A h \in Hosts : Elapsed(h)' = Elapsed(h)
    BY <1>1 DEF Elapsed
  <1>5. epoch' \in Nat /\ epoch' >= epoch
    BY <1>1, RemoteFacts DEF Framed, RemoteTypeOK
  <1> QED BY <1>1, <1>2, <1>3, <1>4, <1>5

\* A host that a step leaves alone.
LEMMA LeftAlone ==
    ASSUME Framed, NEW k \in Hosts, host'[k] = host[k], link'[k] = link[k], wire'[k] = wire[k],
           Elapsed(k)' = Elapsed(k), epoch' >= epoch, epoch' \in Nat,
           NEW L \in SUBSET Clusters, \A c \in L : ~Current(info, c, k, info[c].epoch),
           \A c \in Clusters \ L : info'[c].child = info[c].child
               /\ info'[c].place = info[c].place /\ info'[c].epoch = info[c].epoch,
           \A p \in procs' : p.host = k => p \in procs
    PROVE  /\ Worded(k)' /\ Opened(k)' /\ Fading(k)'
           /\ Known(k) => Known(k)'
           /\ \A c \in Clusters : Claims(k, c)' => Claims(k, c)
  <1>1. Worded(k) /\ Opened(k) /\ Fading(k) /\ wire \in [Hosts -> Wire] /\ RemoteTypeOK
    BY DEF Framed, RemoteTypeOK
  <1>2. Kept(k)
    BY <1>1 DEF Kept, Worded
  <1>3. Worded(k)' /\ Opened(k)' /\ Fading(k)'
    BY <1>1, <1>2, KeptHolds
  <1>4. ASSUME Known(k) PROVE Known(k)'
    <2>1. CASE wire[k].state # "good"
      BY <2>1 DEF Known
    <2>2. CASE wire[k].state = "good"
      <3>1. \A p \in procs : p.host = k /\ p.reply => p.cluster \notin L
        BY <1>4, <2>2 DEF Known, Current
      <3>2. \A i \in DOMAIN wire[k].down : wire[k].down[i].t = "spawn" =>
                wire[k].down[i].cluster \notin L
        BY <1>4, <2>2 DEF Known, Current
      <3>3. wire[k].down \in Seq(Message)
        BY <1>1 DEF Wire
      <3>4. \A i \in DOMAIN wire[k].down : i + 0 = i
        BY <3>3
      <3>5. \A c \in Clusters \ L : \A e : Current(info, c, k, e) => Current(info', c, k, e)
        BY DEF Current
      <3> HIDE DEF Current
      <3>6. LessKnown(k, 0, L)
        BY <1>1, <3>1, <3>2, <3>3, <3>4, <3>5 DEF LessKnown
      <3> QED BY <1>1, <1>4, <3>6, KnownKept
    <2> QED BY <2>1, <2>2
  <1>5. \A c \in Clusters : Claims(k, c)' => Claims(k, c)
    BY DEF Claims, RunsHere, Spawning
  <1> QED BY <1>3, <1>4, <1>5

\* A host loses its connection and fences.
LEMMA LostKeeps ==
    ASSUME Framed, NEW h \in Hosts, Lost(h), UNCHANGED coordinator,
           count' \in [faults: 0..MaxFaults, takeovers: 0..MaxTakeovers, respawns: 0..MaxRespawns]
    PROVE  Keeps
  <1> DEFINE killed(p) == IF p.host = h THEN [p EXCEPT !.told = "kill", !.reply = FALSE] ELSE p
             after == IF wire[h].state = "good" THEN [wire[h] EXCEPT !.state = "left", !.down = <<>>]
                      ELSE IF link[h].up THEN [wire[h] EXCEPT !.down = <<>>]
                      ELSE NewWire
  <1>1. /\ RemoteTypeOK /\ Single /\ wire \in [Hosts -> Wire] /\ procs \subseteq Process
        /\ host \in [Hosts -> Host] /\ Worded(h) /\ Opened(h) /\ Fading(h)
    BY DEF Framed, RemoteTypeOK
  <1>2. /\ Phased' /\ \A c \in Clusters : Managed(c)'
        /\ \A k \in Hosts : Elapsed(k)' = Elapsed(k)
        /\ phase' = phase /\ epoch' = epoch /\ info' = info /\ link' = link
        /\ epoch' \in Nat /\ epoch' >= epoch
    BY CoordinatorKept
  <1>3. /\ procs' = {killed(p) : p \in procs}
        /\ host' = [host EXCEPT ![h] = [conn |-> "none", rx |-> 0]]
        /\ wire' = [wire EXCEPT ![h] = after]
    BY DEF Lost
  <1>4. \A p \in procs : /\ killed(p) \in Process /\ killed(p).host = p.host
                         /\ killed(p).cluster = p.cluster
                         /\ p.host # h => killed(p) = p
                         /\ p.host = h => killed(p).told = "kill" /\ ~killed(p).reply
    BY <1>1 DEF Process
  <1> HIDE DEF killed
  <1>5. /\ \A p \in procs' : \E q \in procs : p = killed(q)
        /\ procs' \subseteq Process /\ Single'
    BY <1>1, <1>3, <1>4 DEF Single
  <1>6. /\ after \in Wire /\ after.down = <<>> /\ after.state \notin {"good", "closing"}
        /\ \A i \in DOMAIN after.up : i \in DOMAIN wire[h].up /\ after.up[i] = wire[h].up[i]
    <2>1. wire[h] \in Wire /\ <<>> \in Seq(Message)
      BY <1>1, Nothing
    <2>2. wire[h].state \in {"none", "good", "cut", "closing", "left"}
      BY <2>1 DEF Wire
    <2>3. CASE wire[h].state = "good"
      <3>1. after = [wire[h] EXCEPT !.state = "left", !.down = <<>>]
        BY <2>3
      <3> HIDE DEF after
      <3>2. after \in Wire /\ after.down = <<>> /\ after.state = "left" /\ after.up = wire[h].up
        BY <3>1, <2>1 DEF Wire
      <3> QED BY <3>2
    <2>4. CASE wire[h].state # "good" /\ link[h].up
      <3>1. after = [wire[h] EXCEPT !.down = <<>>]
        BY <2>4
      <3> QED BY <3>1, <2>1, <2>4, <1>1 DEF Wire, Opened
    <2>5. CASE wire[h].state # "good" /\ ~link[h].up
      <3>1. after = NewWire
        BY <2>5
      <3> HIDE DEF after
      <3>2. after \in Wire /\ after.down = <<>> /\ after.state = "none" /\ after.up = <<>>
        BY <3>1, <2>1 DEF Wire, NewWire
      <3>3. DOMAIN after.up = {}
        BY <3>2
      <3> QED BY <3>2, <3>3
    <2> QED BY <2>3, <2>4, <2>5
  <1> HIDE DEF after
  <1>7. RemoteTypeOK'
    <2>1. wire' \in [Hosts -> Wire]
      BY <1>1, <1>3, <1>6
    <2>2. host' \in [Hosts -> Host]
      <3>1. [conn |-> "none", rx |-> 0] \in Host
        BY RemoteFacts DEF Host
      <3> QED BY <3>1, <1>1, <1>3
    <2>3. guard' = guard
      BY DEF coordinator
    <2> QED BY <2>1, <2>2, <2>3, <1>1, <1>2, <1>5 DEF RemoteTypeOK
  <1>8. wire'[h] = after /\ host'[h].conn = "none"
    BY <1>1, <1>3
  <1>9. \A p \in procs' : p.host = h => p.told = "kill" /\ ~p.reply /\ \E q \in procs : q.host = h
    BY <1>4, <1>5
  <1>10. Worded(h)' /\ Opened(h)' /\ Fading(h)' /\ Known(h)'
    <2>1. DOMAIN after.down = {}
      BY <1>6
    <2>2. Worded(h)'
      BY <1>1, <1>6, <1>8, <2>1 DEF Worded
    <2>3. Opened(h)'
      BY <1>6, <1>8, <1>9 DEF Opened
    <2>4. Fading(h)'
      <3> HIDE DEF Elapsed
      <3> QED BY <1>1, <1>2, <1>8, <1>9, <2>1 DEF Fading
    <2>5. Known(h)'
      BY <1>6, <1>8 DEF Known
    <2> QED BY <2>2, <2>3, <2>4, <2>5
  <1>11. \A k \in Hosts \ {h} :
             /\ Worded(k)' /\ Opened(k)' /\ Fading(k)' /\ (Known(k) => Known(k)')
             /\ \A c \in Clusters : Claims(k, c)' => Claims(k, c)
    <2> TAKE k \in Hosts \ {h}
    <2>1. host'[k] = host[k] /\ wire'[k] = wire[k] /\ link'[k] = link[k]
      BY <1>1, <1>2, <1>3
    <2>2. \A p \in procs' : p.host = k => p \in procs
      BY <1>4, <1>5
    <2>3. {} \in SUBSET Clusters
      OBVIOUS
    <2> QED BY <1>2, <2>1, <2>2, <2>3, LeftAlone
  <1>12. \A c \in Clusters : Claims(h, c)' => Claims(h, c)
    <2>1. DOMAIN after.down = {}
      BY <1>6
    <2> QED BY <2>1, <1>4, <1>5, <1>8 DEF Claims, RunsHere, Spawning
  <1>13. Framed'
    BY <1>2, <1>5, <1>7, <1>10, <1>11 DEF Framed
  <1>14. AllKnown => AllKnown'
    BY <1>10, <1>11 DEF AllKnown
  <1>15. AllPlaced => AllPlaced'
    <2> HAVE AllPlaced
    <2>1. \A k \in Hosts, c \in Clusters : Claims(k, c)' => Claims(k, c)
      BY <1>11, <1>12
    <2>2. \A c \in Clusters : info'[c].place = info[c].place
      BY <1>2
    <2> QED BY <2>1, <2>2, <1>2, PlacedKept
  <1> QED BY <1>13, <1>14, <1>15 DEF Keeps

\* The frame, and what stands on it, is true at the start.
LEMMA RemoteStart == RemoteInit => Framed /\ AllKnown /\ AllPlaced
  <1> SUFFICES ASSUME RemoteInit PROVE Framed /\ AllKnown /\ AllPlaced
    OBVIOUS
  <1> USE RemoteFacts DEF RemoteInit
  <1>1. \A h \in Hosts : /\ wire[h].state = "none" /\ wire[h].down = <<>> /\ wire[h].up = <<>>
                         /\ ~link[h].up /\ link[h].dropped = -1 /\ host[h].conn = "none"
    BY DEF NewWire, NewLink
  <1>2. \A c \in Clusters : /\ info[c].state = "none" /\ ~info[c].child /\ info[c].epoch = 0
    BY DEF NewInfo
  <1>3. RemoteTypeOK
    <2>1. NewWire \in Wire /\ NewLink \in Link /\ [conn |-> "none", rx |-> 0] \in Host
      BY Nothing DEF NewWire, NewLink, Wire, Link, Host
    <2>2. NewInfo \in [Clusters -> Info]
      BY DEF NewInfo, Info
    <2>3. wire \in [Hosts -> Wire] /\ link \in [Hosts -> Link] /\ host \in [Hosts -> Host]
      BY <2>1
    <2>4. count \in [faults: 0..MaxFaults, takeovers: 0..MaxTakeovers, respawns: 0..MaxRespawns]
      BY RemoteAssumption
    <2> QED BY <2>2, <2>3, <2>4 DEF RemoteTypeOK
  <1>4. \A h \in Hosts : Worded(h) /\ Opened(h) /\ Fading(h) /\ Known(h)
    BY <1>1 DEF Worded, Opened, Fading, Known
  <1>5. \A c \in Clusters : Managed(c)
    BY <1>2 DEF Managed
  <1>6. Phased /\ Single
    BY DEF Phased, Single
  <1>7. \A c \in Clusters, h \in Hosts : ~Claims(h, c)
    BY <1>1 DEF Claims, RunsHere, Spawning
  <1>8. \A c \in Clusters : Placed(c)
    BY <1>7 DEF Placed
  <1> QED BY <1>3, <1>4, <1>5, <1>6, <1>8 DEF Framed, AllKnown, AllPlaced

\* The counters stay within their bounds.
LEMMA CountTyped ==
    ASSUME RemoteTypeOK, NEW what \in {"faults", "takeovers", "respawns"}, NEW bound,
           Count(what, bound),
           bound = CASE what = "faults" -> MaxFaults [] what = "takeovers" -> MaxTakeovers
                     [] what = "respawns" -> MaxRespawns
    PROVE  count' \in [faults: 0..MaxFaults, takeovers: 0..MaxTakeovers, respawns: 0..MaxRespawns]
  <1>1. /\ count \in [faults: 0..MaxFaults, takeovers: 0..MaxTakeovers, respawns: 0..MaxRespawns]
        /\ {MaxFaults, MaxTakeovers, MaxRespawns} \subseteq Nat
    BY RemoteAssumption DEF RemoteTypeOK
  <1>2. count[what] + 1 \in 0..bound
    BY <1>1 DEF Count
  <1>3. count' = [count EXCEPT ![what] = count[what] + 1]
    BY DEF Count
  <1>4. CASE what = "faults"
    BY <1>1, <1>2, <1>3, <1>4
  <1>5. CASE what = "takeovers"
    BY <1>1, <1>2, <1>3, <1>5
  <1>6. CASE what = "respawns"
    BY <1>1, <1>2, <1>3, <1>6
  <1> QED BY <1>4, <1>5, <1>6

\* So they do when something fails.
LEMMA FaultTyped ==
    ASSUME RemoteTypeOK, Fault
    PROVE  count' \in [faults: 0..MaxFaults, takeovers: 0..MaxTakeovers, respawns: 0..MaxRespawns]
  BY CountTyped DEF Fault

\* A host hears that its connection is closed, finds it silent, or leaves.
LEMMA HostLosesKeeps ==
    ASSUME Framed, NEW h \in Hosts, HostLoses(h) \/ WatchdogFires(h) \/ HostLeaves(h)
    PROVE  Keeps
  <1>1. RemoteTypeOK
    BY DEF Framed
  <1>2. CASE HostLoses(h) \/ WatchdogFires(h)
    <2>1. Lost(h) /\ UNCHANGED coordinator /\ count' = count
      BY <1>2 DEF HostLoses, WatchdogFires
    <2> QED BY <2>1, <1>1, LostKeeps DEF RemoteTypeOK
  <1>3. CASE HostLeaves(h)
    <2>1. Lost(h) /\ UNCHANGED coordinator /\ Fault
      BY <1>3 DEF HostLeaves
    <2> QED BY <2>1, <1>1, FaultTyped, LostKeeps
  <1> QED BY <1>2, <1>3

\* The network between a host and the coordinator is gone, with some of what was
\* under way.
LEMMA CutOff ==
    ASSUME Framed, NEW h \in Hosts, NEW v \in Wire, v.state = "cut",
           wire[h].state \in {"good", "cut", "closing"},
           wire' = [wire EXCEPT ![h] = v], UNCHANGED <<coordinator, host, procs>>,
           count' \in [faults: 0..MaxFaults, takeovers: 0..MaxTakeovers, respawns: 0..MaxRespawns],
           \A i \in DOMAIN v.down :
               (i \in DOMAIN wire[h].down /\ v.down[i] = wire[h].down[i]) \/ v.down[i].t # "spawn",
           ~link[h].up => \A i \in DOMAIN v.down :
               i \in DOMAIN wire[h].down /\ v.down[i] = wire[h].down[i],
           \A i \in DOMAIN v.up : i \in DOMAIN wire[h].up /\ v.up[i] = wire[h].up[i],
           \/ v.down = <<>>
           \/ host[h].conn # "none" /\ (host[h].conn = "opening" => v.down[1].t = "welcome")
    PROVE  Keeps
  <1>1. /\ RemoteTypeOK /\ Single /\ wire \in [Hosts -> Wire]
        /\ Worded(h) /\ Opened(h) /\ Fading(h)
    BY DEF Framed, RemoteTypeOK
  <1>2. /\ Phased' /\ \A c \in Clusters : Managed(c)'
        /\ \A k \in Hosts : Elapsed(k)' = Elapsed(k)
        /\ phase' = phase /\ epoch' = epoch /\ info' = info /\ link' = link
        /\ epoch' \in Nat /\ epoch' >= epoch
    BY CoordinatorKept
  <1>3. wire'[h] = v /\ host' = host /\ procs' = procs
    BY <1>1
  <1>4. RemoteTypeOK'
    BY <1>1, <1>2 DEF RemoteTypeOK, coordinator
  <1>5. Worded(h)' /\ Opened(h)' /\ Fading(h)' /\ Known(h)'
    <2>1. Worded(h)'
      BY <1>1, <1>3 DEF Worded
    <2>2. Opened(h)'
      BY <1>1, <1>2, <1>3 DEF Opened
    <2>3. Fading(h)'
      <3> HIDE DEF Elapsed
      <3> QED BY <1>1, <1>2, <1>3 DEF Fading
    <2>4. Known(h)'
      BY <1>3 DEF Known
    <2> QED BY <2>1, <2>2, <2>3, <2>4
  <1>6. \A k \in Hosts \ {h} :
            /\ Worded(k)' /\ Opened(k)' /\ Fading(k)' /\ (Known(k) => Known(k)')
            /\ \A c \in Clusters : Claims(k, c)' => Claims(k, c)
    <2> TAKE k \in Hosts \ {h}
    <2>1. host'[k] = host[k] /\ wire'[k] = wire[k] /\ link'[k] = link[k]
      BY <1>1, <1>2, <1>3
    <2>2. {} \in SUBSET Clusters
      OBVIOUS
    <2> QED BY <1>2, <1>3, <2>1, <2>2, LeftAlone
  <1>7. \A c \in Clusters : Claims(h, c)' => Claims(h, c)
    BY <1>3 DEF Claims, RunsHere, Spawning
  <1>8. Framed'
    BY <1>1, <1>2, <1>3, <1>4, <1>5, <1>6 DEF Framed, Single
  <1>9. AllKnown => AllKnown'
    BY <1>5, <1>6 DEF AllKnown
  <1>10. AllPlaced => AllPlaced'
    <2> HAVE AllPlaced
    <2>1. \A k \in Hosts, c \in Clusters : Claims(k, c)' => Claims(k, c)
      BY <1>6, <1>7
    <2>2. \A c \in Clusters : info'[c].place = info[c].place
      BY <1>2
    <2> QED BY <2>1, <2>2, <1>2, PlacedKept
  <1> QED BY <1>8, <1>9, <1>10 DEF Keeps

\* The network is cut.
LEMMA CutKeeps == ASSUME Framed, NEW h \in Hosts, Cut(h) PROVE Keeps
  <1> DEFINE w == wire[h]
             d == Down(w, <<Plain("ping")>>)
             v == [d EXCEPT !.state = "cut"]
  <1>1. RemoteTypeOK /\ w \in Wire /\ Opened(h) /\ wire \in [Hosts -> Wire]
    BY DEF Framed, RemoteTypeOK
  <1>2. w.state \in {"good", "closing"} /\ Fault /\ UNCHANGED <<coordinator, host, procs>>
        /\ wire' = [wire EXCEPT ![h] = v]
    BY DEF Cut
  <1>3. <<Plain("ping")>> \in Seq(Message)
        /\ \A i \in DOMAIN <<Plain("ping")>> : <<Plain("ping")>>[i].t = "ping"
    BY PlainFacts
  <1>4. /\ Longer(w, d)
        /\ \A i \in DOMAIN d.down : i \in DOMAIN w.down \/ d.down[i].t = "ping"
    <2> HIDE DEF w
    <2> DEFINE ms == <<Plain("ping")>>
    <2> HIDE DEF ms
    <2>1. ms \in Seq(Message) /\ \A i \in DOMAIN ms : ms[i].t = "ping"
      BY <1>3 DEF ms
    <2>2. d = Down(w, ms)
      BY DEF ms
    <2> HIDE DEF d
    <2> QED BY <1>1, <2>1, <2>2, DownFacts
  <1> HIDE DEF d
  <1>5. v \in Wire /\ v.state = "cut" /\ v.down = d.down /\ v.up = w.up
    BY <1>4 DEF Longer, Wire
  <1> HIDE DEF v
  <1>6. \A i \in DOMAIN v.down : (i \in DOMAIN w.down /\ v.down[i] = w.down[i]) \/ v.down[i].t # "spawn"
    BY <1>4, <1>5 DEF Longer
  <1>7. ~link[h].up => v.down = w.down
    BY <1>1, <1>4, <1>5 DEF Longer, Opened
  <1>8. host[h].conn # "none" /\ (host[h].conn = "opening" => v.down[1].t = "welcome")
    <2>1. host[h].conn # "none" /\ (host[h].conn = "opening" => w.down # <<>> /\ w.down[1].t = "welcome")
      BY <1>1, <1>2 DEF Opened
    <2>2. w.down \in Seq(Message)
      BY <1>1 DEF Wire
    <2>3. w.down # <<>> => 1 \in DOMAIN w.down
      BY <2>2, Rested
    <2>4. w.down # <<>> => v.down[1] = w.down[1]
      BY <1>4, <1>5, <2>3 DEF Longer
    <2> QED BY <2>1, <2>4
  <1>9. count' \in [faults: 0..MaxFaults, takeovers: 0..MaxTakeovers, respawns: 0..MaxRespawns]
    BY <1>1, <1>2, FaultTyped
  <1> QED BY <1>2, <1>5, <1>6, <1>7, <1>8, <1>9, CutOff DEF w

\* Messages on a cut connection are lost.
LEMMA LosesMessagesKeeps == ASSUME Framed, NEW h \in Hosts, LosesMessages(h) PROVE Keeps
  <1> DEFINE v == [wire[h] EXCEPT !.down = <<>>, !.up = <<>>]
  <1>1. RemoteTypeOK /\ wire[h] \in Wire /\ wire \in [Hosts -> Wire]
    BY DEF Framed, RemoteTypeOK
  <1>2. wire[h].state = "cut" /\ wire' = [wire EXCEPT ![h] = v] /\ count' = count
        /\ UNCHANGED <<coordinator, host, procs>>
    BY DEF LosesMessages
  <1>3. v \in Wire /\ v.state = "cut" /\ v.down = <<>> /\ v.up = <<>>
    BY <1>1, <1>2, Nothing DEF Wire
  <1> HIDE DEF v
  <1>4. DOMAIN v.down = {} /\ DOMAIN v.up = {}
    BY <1>3
  <1> QED BY <1>1, <1>2, <1>3, <1>4, CutOff DEF RemoteTypeOK

\* A process ends; the coordinator may hear of it later.
LEMMA EndsKeeps == ASSUME Framed, NEW p \in procs, Ends(p) PROVE Keeps
  <1> DEFINE h == p.host
             e == Msg("exit", p.cluster, p.epoch)
             v == IF p.reply THEN Up(wire[h], e) ELSE wire[h]
  <1>1. /\ RemoteTypeOK /\ Single /\ wire \in [Hosts -> Wire] /\ procs \subseteq Process
        /\ \A k \in Hosts : Worded(k) /\ Opened(k) /\ Fading(k)
        /\ \A c \in Clusters : Managed(c)
    BY DEF Framed, RemoteTypeOK
  <1>2. /\ Phased' /\ \A c \in Clusters : Managed(c)'
        /\ \A k \in Hosts : Elapsed(k)' = Elapsed(k)
        /\ phase' = phase /\ epoch' = epoch /\ info' = info /\ link' = link
        /\ epoch' \in Nat /\ epoch' >= epoch
    BY CoordinatorKept DEF Ends
  <1>3. h \in Hosts /\ p.cluster \in Clusters /\ p.epoch \in 1..MaxEpoch /\ wire[h] \in Wire
    BY <1>1 DEF Process
  <1>4. /\ e \in Message /\ e.t = "exit" /\ e.cluster = p.cluster /\ e.epoch = p.epoch
    <2>1. p.epoch \in 0..MaxEpoch
      BY <1>3, RemoteFacts
    <2> QED BY <2>1, <1>3, MessageFacts
  <1> HIDE DEF e
  <1>5. /\ v \in Wire /\ v.state = wire[h].state /\ v.down = wire[h].down
        /\ \A i \in DOMAIN v.up : \/ i \in DOMAIN wire[h].up /\ v.up[i] = wire[h].up[i]
                                  \/ p.reply /\ v.up[i] = e
    <2>1. CASE p.reply
      <3>1. v = Up(wire[h], e)
        BY <2>1
      <3> HIDE DEF v, h
      <3> QED BY <2>1, <3>1, <1>3, <1>4, UpFacts
    <2>2. CASE ~p.reply
      BY <2>2, <1>3
    <2> QED BY <2>1, <2>2
  <1>6. wire' = [wire EXCEPT ![h] = v] /\ procs' = procs \ {p} /\ host' = host
    <2>1. procs' = procs \ {p} /\ host' = host
      BY DEF Ends
    <2>2. CASE p.reply
      BY <2>2 DEF Ends, e
    <2>3. CASE ~p.reply
      <3>1. wire' = wire /\ v = wire[h]
        BY <2>3 DEF Ends
      <3> HIDE DEF v, h
      <3>2. [wire EXCEPT ![h] = wire[h]] = wire
        BY <1>1
      <3> QED BY <2>1, <3>1, <3>2
    <2> QED BY <2>1, <2>2, <2>3
  <1> HIDE DEF v
  <1>7. wire'[h] = v
    BY <1>1, <1>3, <1>6
  <1>8. RemoteTypeOK'
    <2>1. count' \in [faults: 0..MaxFaults, takeovers: 0..MaxTakeovers, respawns: 0..MaxRespawns]
      BY <1>1, FaultTyped DEF Ends, RemoteTypeOK
    <2>2. wire' \in [Hosts -> Wire]
      BY <1>1, <1>5, <1>6
    <2>3. guard' = guard
      BY DEF Ends, coordinator
    <2> QED BY <2>1, <2>2, <2>3, <1>1, <1>2, <1>6 DEF RemoteTypeOK
  <1>9. Worded(h)' /\ Opened(h)' /\ Fading(h)'
    <2>1. \A i \in DOMAIN v.up : v.up[i].t = "exit" /\ v.up[i].cluster \in Clusters
      BY <1>1, <1>3, <1>4, <1>5 DEF Worded
    <2>2. Kept(h)
      BY <2>1, <1>2, <1>3, <1>5, <1>6, <1>7 DEF Kept
    <2> QED BY <2>2, <1>1, <1>3, KeptHolds
  <1>10. ASSUME Known(h) PROVE Known(h)'
    <2> SUFFICES ASSUME wire[h].state = "good" PROVE Known(h)'
      BY <1>5, <1>7 DEF Known
    <2>1. /\ \A q \in procs : q.host = h /\ q.reply => Current(info, q.cluster, h, q.epoch)
          /\ \A j \in DOMAIN wire[h].up :
                 /\ wire[h].up[j].epoch <= epoch
                 /\ \A q \in procs : q.host = h /\ q.reply /\ q.cluster = wire[h].up[j].cluster =>
                        q.epoch # wire[h].up[j].epoch
      BY <1>10 DEF Known
    <2>2. \A i \in DOMAIN wire[h].down : wire[h].down[i].t = "spawn" =>
              /\ Current(info, wire[h].down[i].cluster, h, wire[h].down[i].epoch)
              /\ \A q \in procs : q.host = h /\ q.reply => q.cluster # wire[h].down[i].cluster
              /\ \A j \in DOMAIN wire[h].up : wire[h].up[j].cluster = wire[h].down[i].cluster =>
                     wire[h].up[j].epoch # wire[h].down[i].epoch
              /\ \A j \in DOMAIN wire[h].down :
                     wire[h].down[j].t = "spawn" /\ wire[h].down[j].cluster = wire[h].down[i].cluster
                         => j = i
      BY <1>10 DEF Known
    <2>3. p.reply => p.epoch <= epoch
      BY <2>1, <1>1, <1>3 DEF Current, Managed
    <2>4. \A q \in procs' : q \in procs /\ (q.host = h => q.cluster # p.cluster)
      BY <1>1, <1>3, <1>6 DEF Single
    <2>5. \A j \in DOMAIN v.up :
              /\ v.up[j].epoch <= epoch
              /\ \A q \in procs' : q.host = h /\ q.reply /\ q.cluster = v.up[j].cluster =>
                     q.epoch # v.up[j].epoch
      BY <2>1, <2>3, <2>4, <1>4, <1>5
    <2>6. \A i \in DOMAIN wire[h].down : wire[h].down[i].t = "spawn" =>
              \A j \in DOMAIN v.up : v.up[j].cluster = wire[h].down[i].cluster =>
                  v.up[j].epoch # wire[h].down[i].epoch
      <3> HIDE DEF h
      <3> QED BY <2>2, <1>4, <1>5 DEF h
    <2> HIDE DEF Current, h
    <2> QED BY <2>1, <2>2, <2>4, <2>5, <2>6, <1>2, <1>5, <1>7 DEF Known
  <1>11. \A k \in Hosts \ {h} :
             /\ Worded(k)' /\ Opened(k)' /\ Fading(k)' /\ (Known(k) => Known(k)')
             /\ \A c \in Clusters : Claims(k, c)' => Claims(k, c)
    <2> TAKE k \in Hosts \ {h}
    <2>1. host'[k] = host[k] /\ wire'[k] = wire[k] /\ link'[k] = link[k]
      BY <1>1, <1>2, <1>6
    <2>2. {} \in SUBSET Clusters
      OBVIOUS
    <2> QED BY <1>2, <1>6, <2>1, <2>2, LeftAlone
  <1>12. \A c \in Clusters : Claims(h, c)' => Claims(h, c)
    BY <1>5, <1>6, <1>7 DEF Claims, RunsHere, Spawning
  <1>13. Framed'
    <2>1. Single'
      BY <1>1, <1>6 DEF Single
    <2> QED BY <2>1, <1>2, <1>8, <1>9, <1>11 DEF Framed
  <1>14. AllKnown => AllKnown'
    BY <1>3, <1>10, <1>11 DEF AllKnown
  <1>15. AllPlaced => AllPlaced'
    <2> HAVE AllPlaced
    <2>1. \A k \in Hosts, c \in Clusters : Claims(k, c)' => Claims(k, c)
      BY <1>11, <1>12
    <2>2. \A c \in Clusters : info'[c].place = info[c].place
      BY <1>2
    <2> QED BY <2>1, <2>2, <1>2, PlacedKept
  <1> QED BY <1>13, <1>14, <1>15 DEF Keeps

\* What host h makes of message m, with w the wires once it has been taken: its workers
\* are told, a new one is there, or the coordinator hears that there is one already.
Handled(h, m, w) ==
    \/ /\ wire' = w /\ m.t # "spawn" /\ procs' \subseteq Process
       /\ \A p \in procs' : \E q \in procs :
              p.host = q.host /\ p.cluster = q.cluster /\ p.epoch = q.epoch
                  /\ p.reply = q.reply /\ (p.host # h => p = q)
       /\ Single'
    \/ /\ m.t = "spawn" /\ wire' = w /\ ~RunsHere(h, m.cluster)
       /\ procs' = procs \cup {[host |-> h, cluster |-> m.cluster, epoch |-> m.epoch,
                                told |-> "run", reply |-> TRUE]}
    \/ /\ m.t = "spawn" /\ RunsHere(h, m.cluster) /\ procs' = procs
       /\ wire' = [w EXCEPT ![h] = Up(w[h], Msg("exit", m.cluster, m.epoch))]

\* What a host does with the next message.
LEMMA Handles ==
    ASSUME Framed, NEW h \in Hosts, HostReceives(h)
    PROVE  /\ wire[h].down # <<>> /\ host[h].conn # "none" /\ UNCHANGED <<coordinator, count>>
           /\ host' = [host EXCEPT ![h] = [conn |-> "joined", rx |-> 0]]
           /\ Handled(h, Head(wire[h].down), [wire EXCEPT ![h].down = Tail(wire[h].down)])
  <1> DEFINE m == Head(wire[h].down)
             w == [wire EXCEPT ![h].down = Tail(wire[h].down)]
  <1>1. /\ RemoteTypeOK /\ Single /\ procs \subseteq Process /\ wire \in [Hosts -> Wire]
        /\ Opened(h) /\ host \in [Hosts -> Host]
    BY DEF Framed, RemoteTypeOK
  <1>2. /\ wire[h].down # <<>> /\ host[h].conn # "none" /\ UNCHANGED <<coordinator, count>>
        /\ host' = [host EXCEPT ![h] =
                       [conn |-> IF m.t = "welcome" THEN "joined" ELSE host[h].conn, rx |-> 0]]
        /\ CASE m.t = "spawn" -> OnSpawn(h, m.cluster, m.epoch, w)
             [] m.t \in {"term", "kill"} -> OnKill(h, m) /\ wire' = w
             [] m.t = "bye" -> procs' = Fenced(h) /\ wire' = w
             [] OTHER -> procs' = procs /\ wire' = w
    BY DEF HostReceives
  <1>3. m = wire[h].down[1] /\ m \in Message
    <2>1. wire[h].down \in Seq(Message)
      BY <1>1 DEF Wire
    <2> QED BY <2>1, <1>2, Rested
  <1>4. (IF m.t = "welcome" THEN "joined" ELSE host[h].conn) = "joined"
    <2>1. host[h].conn \in {"none", "opening", "joined"}
      BY <1>1 DEF Host
    <2> HIDE DEF m
    <2> QED BY <2>1, <1>1, <1>2, <1>3 DEF Opened
  <1> HIDE DEF m, w
  <1>6. Handled(h, m, w)
    <2>1. CASE m.t = "spawn"
      <3>1. OnSpawn(h, m.cluster, m.epoch, w)
        BY <1>2, <2>1
      <3> QED BY <3>1, <2>1 DEF OnSpawn, Handled
    <2>2. CASE m.t \in {"term", "kill"}
      <3> DEFINE changed(p) == IF p.host = h /\ p.cluster = m.cluster /\ p.epoch = m.epoch
                                  /\ p.told # "kill"
                               THEN [p EXCEPT !.told = m.t] ELSE p
      <3>1. wire' = w /\ procs' = {changed(p) : p \in procs}
        BY <1>2, <2>2 DEF OnKill
      <3>2. \A p \in procs : /\ changed(p) \in Process /\ changed(p).host = p.host
                             /\ changed(p).cluster = p.cluster /\ changed(p).epoch = p.epoch
                             /\ changed(p).reply = p.reply /\ (p.host # h => changed(p) = p)
        BY <1>1, <2>2 DEF Process
      <3> HIDE DEF changed
      <3>3. /\ procs' \subseteq Process /\ Single'
            /\ \A p \in procs' : \E q \in procs :
                   p.host = q.host /\ p.cluster = q.cluster /\ p.epoch = q.epoch
                       /\ p.reply = q.reply /\ (p.host # h => p = q)
        BY <3>1, <3>2, <1>1 DEF Single
      <3> QED BY <3>1, <3>3, <2>2 DEF Handled
    <2>3. CASE m.t = "bye"
      <3> DEFINE changed(p) == IF p.host = h THEN [p EXCEPT !.told = "kill"] ELSE p
      <3>1. wire' = w /\ procs' = {changed(p) : p \in procs}
        BY <1>2, <2>3 DEF Fenced
      <3>2. \A p \in procs : /\ changed(p) \in Process /\ changed(p).host = p.host
                             /\ changed(p).cluster = p.cluster /\ changed(p).epoch = p.epoch
                             /\ changed(p).reply = p.reply /\ (p.host # h => changed(p) = p)
        BY <1>1 DEF Process
      <3> HIDE DEF changed
      <3>3. /\ procs' \subseteq Process /\ Single'
            /\ \A p \in procs' : \E q \in procs :
                   p.host = q.host /\ p.cluster = q.cluster /\ p.epoch = q.epoch
                       /\ p.reply = q.reply /\ (p.host # h => p = q)
        BY <3>1, <3>2, <1>1 DEF Single
      <3> QED BY <3>1, <3>3, <2>3 DEF Handled
    <2>4. CASE m.t \notin {"spawn", "term", "kill", "bye"}
      <3>1. procs' = procs /\ wire' = w
        BY <1>2, <2>4
      <3> QED BY <3>1, <2>4, <1>1 DEF Handled, Single
    <2> QED BY <2>1, <2>2, <2>3, <2>4
  <1>7. host' = [host EXCEPT ![h] = [conn |-> "joined", rx |-> 0]]
    BY <1>2, <1>4
  <1> QED BY <1>2, <1>6, <1>7 DEF m, w

\* A host takes the next message.
LEMMA HostReceivesKeeps == ASSUME Framed, NEW h \in Hosts, HostReceives(h) PROVE Keeps
  <1> DEFINE q == wire[h].down
             m == Head(q)
             z == Tail(q)
             w == [wire EXCEPT ![h].down = z]
             e == Msg("exit", m.cluster, m.epoch)
  <1>1. /\ RemoteTypeOK /\ Single /\ wire \in [Hosts -> Wire] /\ procs \subseteq Process
        /\ host \in [Hosts -> Host] /\ Worded(h) /\ Opened(h) /\ Fading(h)
        /\ \A c \in Clusters : Managed(c)
    BY DEF Framed, RemoteTypeOK
  <1>2. /\ q # <<>> /\ host[h].conn # "none" /\ UNCHANGED <<coordinator, count>>
        /\ host' = [host EXCEPT ![h] = [conn |-> "joined", rx |-> 0]] /\ Handled(h, m, w)
    BY Handles
  <1>3. /\ Phased' /\ \A c \in Clusters : Managed(c)'
        /\ \A k \in Hosts : Elapsed(k)' = Elapsed(k)
        /\ phase' = phase /\ epoch' = epoch /\ info' = info /\ link' = link
        /\ epoch' \in Nat /\ epoch' >= epoch
    BY <1>2, CoordinatorKept
  <1>4. q \in Seq(Message) /\ wire[h] \in Wire
    BY <1>1 DEF Wire
  <1>5. /\ z \in Seq(Message) /\ m \in Message /\ m = q[1] /\ 1 \in DOMAIN q
        /\ \A i \in DOMAIN z : i + 1 \in DOMAIN q /\ i + 1 # 1 /\ z[i] = q[i + 1]
    BY <1>2, <1>4, Rested
  <1> HIDE DEF m, z
  <1>6. /\ w \in [Hosts -> Wire] /\ w[h].down = z /\ w[h].up = wire[h].up
        /\ w[h].state = wire[h].state /\ \A k \in Hosts \ {h} : w[k] = wire[k]
    <2> DEFINE x == [wire[h] EXCEPT !.down = z]
    <2>1. x \in Wire /\ x.down = z /\ x.up = wire[h].up /\ x.state = wire[h].state
      BY <1>4, <1>5 DEF Wire
    <2>2. w = [wire EXCEPT ![h] = x]
      BY <1>1
    <2> HIDE DEF x, w
    <2> QED BY <2>1, <2>2, <1>1
  <1> HIDE DEF w
  <1>7. m.t = "spawn" => m.cluster \in Clusters /\ m.epoch \in 1..MaxEpoch
    BY <1>1, <1>5, RemoteFacts DEF Worded, Message
  <1>8. m.t = "spawn" => e \in Message /\ e.t = "exit" /\ e.cluster = m.cluster /\ e.epoch = m.epoch
    <2> HAVE m.t = "spawn"
    <2>1. m.cluster \in Clusters /\ m.epoch \in 0..MaxEpoch
      BY <1>7, RemoteFacts
    <2> QED BY <2>1, MessageFacts
  <1> HIDE DEF e
  <1>9. /\ wire' \in [Hosts -> Wire] /\ wire'[h].down = z /\ wire'[h].state = wire[h].state
        /\ \A k \in Hosts \ {h} : wire'[k] = wire[k]
        /\ \A i \in DOMAIN wire'[h].up :
               \/ i \in DOMAIN wire[h].up /\ wire'[h].up[i] = wire[h].up[i]
               \/ m.t = "spawn" /\ RunsHere(h, m.cluster) /\ wire'[h].up[i] = e
        /\ m.t = "spawn" /\ RunsHere(h, m.cluster) => procs' = procs
    <2>1. CASE wire' = w /\ ~(m.t = "spawn" /\ RunsHere(h, m.cluster))
      BY <2>1, <1>6
    <2>2. CASE m.t = "spawn" /\ RunsHere(h, m.cluster) /\ procs' = procs
               /\ wire' = [w EXCEPT ![h] = Up(w[h], e)]
      <3>1. /\ Up(w[h], e) \in Wire /\ Up(w[h], e).state = w[h].state
            /\ Up(w[h], e).down = w[h].down
            /\ \A i \in DOMAIN Up(w[h], e).up :
                   (i \in DOMAIN w[h].up /\ Up(w[h], e).up[i] = w[h].up[i]) \/ Up(w[h], e).up[i] = e
        BY <2>2, <1>6, <1>8, UpFacts
      <3>2. wire'[h] = Up(w[h], e) /\ \A k \in Hosts \ {h} : wire'[k] = w[k]
        BY <2>2, <1>6
      <3>3. wire' \in [Hosts -> Wire]
        BY <2>2, <3>1, <1>6
      <3> QED BY <2>2, <3>1, <3>2, <3>3, <1>6
    <2> QED BY <2>1, <2>2, <1>2 DEF Handled, e
  <1>10. /\ procs' \subseteq Process /\ Single'
         /\ \A p \in procs' :
                \/ \E r \in procs : p.host = r.host /\ p.cluster = r.cluster /\ p.epoch = r.epoch
                                    /\ p.reply = r.reply /\ (p.host # h => p = r)
                \/ /\ p.host = h /\ p.cluster = m.cluster /\ p.epoch = m.epoch /\ m.t = "spawn"
                   /\ ~RunsHere(h, m.cluster)
    <2>1. CASE m.t # "spawn"
      BY <2>1, <1>2 DEF Handled
    <2>2. CASE procs' = procs
      BY <2>2, <1>1 DEF Single
    <2>3. CASE /\ m.t = "spawn" /\ ~RunsHere(h, m.cluster)
               /\ procs' = procs \cup {[host |-> h, cluster |-> m.cluster, epoch |-> m.epoch,
                                        told |-> "run", reply |-> TRUE]}
      <3> DEFINE new == [host |-> h, cluster |-> m.cluster, epoch |-> m.epoch,
                         told |-> "run", reply |-> TRUE]
      <3>1. new \in Process /\ new.host = h /\ new.cluster = m.cluster /\ new.epoch = m.epoch
        BY <2>3, <1>7 DEF Process
      <3>2. procs' = procs \cup {new}
        BY <2>3
      <3> HIDE DEF new
      <3>3. \A p \in procs : p.host = h => p.cluster # new.cluster
        BY <2>3, <3>1 DEF RunsHere
      <3>4. Single'
        BY <3>1, <3>2, <3>3, <1>1 DEF Single
      <3> QED BY <2>3, <3>1, <3>2, <3>4, <1>1
    <2> QED BY <2>1, <2>2, <2>3, <1>2 DEF Handled
  <1>11. host'[h].conn = "joined" /\ host'[h].rx = 0 /\ host' \in [Hosts -> Host]
         /\ \A k \in Hosts \ {h} : host'[k] = host[k]
    <2>1. [conn |-> "joined", rx |-> 0] \in Host
      BY RemoteFacts DEF Host
    <2> QED BY <2>1, <1>1, <1>2
  <1>12. RemoteTypeOK'
    BY <1>1, <1>2, <1>3, <1>9, <1>10, <1>11 DEF RemoteTypeOK, coordinator
  <1>13. Worded(h)'
    BY <1>1, <1>5, <1>7, <1>8, <1>9 DEF Worded
  <1>14. Opened(h)'
    <2>1. wire[h].state \notin {"left", "none"}
      BY <1>1, <1>2 DEF Opened
    <2> QED BY <2>1, <1>1, <1>3, <1>9, <1>11 DEF Opened
  <1>15. Fading(h)'
    <2> SUFFICES ASSUME ~link'[h].up PROVE Fading(h)'
      BY DEF Fading
    <2>1. Elapsed(h)' <= 1 /\ \A i \in DOMAIN z : z[i].old \/ Elapsed(h)' = 0
      <3> HIDE DEF Elapsed
      <3> QED BY <1>1, <1>3, <1>5 DEF Fading
    <2>2. Elapsed(h)' <= Lease + 2
      <3>1. Elapsed(h)' \in Int
        BY <1>12, RemoteFacts DEF Elapsed, RemoteTypeOK, Link
      <3> HIDE DEF Elapsed
      <3> QED BY <2>1, <3>1, RemoteFacts
    <2>3. 0 + 1 >= Elapsed(h)'
      <3> HIDE DEF Elapsed
      <3> QED BY <2>1
    <2> HIDE DEF Elapsed
    <2> QED BY <2>1, <2>2, <2>3, <1>9, <1>11 DEF Fading
  <1>16. ASSUME Known(h) PROVE Known(h)'
    <2> SUFFICES ASSUME wire[h].state = "good" PROVE Known(h)'
      BY <1>9 DEF Known
    <2> DEFINE up == wire'[h].up
    <2>1. /\ \A p \in procs : p.host = h /\ p.reply => Current(info, p.cluster, h, p.epoch)
          /\ \A j \in DOMAIN wire[h].up :
                 /\ wire[h].up[j].epoch <= epoch
                 /\ \A p \in procs : p.host = h /\ p.reply /\ p.cluster = wire[h].up[j].cluster =>
                        p.epoch # wire[h].up[j].epoch
      BY <1>16 DEF Known
    <2>2. \A i \in DOMAIN q : q[i].t = "spawn" =>
              /\ Current(info, q[i].cluster, h, q[i].epoch)
              /\ \A p \in procs : p.host = h /\ p.reply => p.cluster # q[i].cluster
              /\ \A j \in DOMAIN wire[h].up : wire[h].up[j].cluster = q[i].cluster =>
                     wire[h].up[j].epoch # q[i].epoch
              /\ \A j \in DOMAIN q : q[j].t = "spawn" /\ q[j].cluster = q[i].cluster => j = i
      BY <1>16 DEF Known
    <2> HIDE DEF q, up
    <2>3. m.t = "spawn" =>
              /\ Current(info, m.cluster, h, m.epoch) /\ m.epoch <= epoch
              /\ \A p \in procs : p.host = h /\ p.reply => p.cluster # m.cluster
              /\ \A j \in DOMAIN wire[h].up : wire[h].up[j].cluster = m.cluster =>
                     wire[h].up[j].epoch # m.epoch
              /\ \A i \in DOMAIN z : z[i].t = "spawn" => z[i].cluster # m.cluster
      BY <2>2, <1>1, <1>5, <1>7 DEF Current, Managed
    <2>4. \A p \in procs' : p.host = h /\ p.reply =>
              \/ \E r \in procs : r.host = h /\ r.reply /\ r.cluster = p.cluster /\ r.epoch = p.epoch
              \/ m.t = "spawn" /\ ~RunsHere(h, m.cluster) /\ p.cluster = m.cluster /\ p.epoch = m.epoch
      BY <1>10
    <2>5. \A p \in procs' : p.host = h /\ p.reply => Current(info, p.cluster, h, p.epoch)
      BY <2>1, <2>3, <2>4
    <2>6. \A j \in DOMAIN up : \/ j \in DOMAIN wire[h].up /\ up[j] = wire[h].up[j]
                               \/ /\ m.t = "spawn" /\ RunsHere(h, m.cluster) /\ procs' = procs
                                  /\ up[j].cluster = m.cluster /\ up[j].epoch = m.epoch
      BY <1>8, <1>9 DEF up
    <2>7. \A j \in DOMAIN up : up[j].epoch <= epoch
      BY <2>1, <2>3, <2>6
    <2>8. \A j \in DOMAIN up : \A p \in procs' :
              p.host = h /\ p.reply /\ p.cluster = up[j].cluster => p.epoch # up[j].epoch
      <3> SUFFICES ASSUME NEW j \in DOMAIN up, NEW p \in procs', p.host = h, p.reply,
                          p.cluster = up[j].cluster
                   PROVE  p.epoch # up[j].epoch
        OBVIOUS
      <3>1. CASE j \in DOMAIN wire[h].up /\ up[j] = wire[h].up[j]
        BY <3>1, <2>1, <2>3, <2>4
      <3>2. CASE m.t = "spawn" /\ procs' = procs /\ up[j].cluster = m.cluster
        BY <3>2, <2>3
      <3> QED BY <3>1, <3>2, <2>6
    <2>9. \A i \in DOMAIN z : z[i].t = "spawn" =>
              /\ Current(info, z[i].cluster, h, z[i].epoch)
              /\ \A p \in procs' : p.host = h /\ p.reply => p.cluster # z[i].cluster
              /\ \A j \in DOMAIN up : up[j].cluster = z[i].cluster => up[j].epoch # z[i].epoch
              /\ \A j \in DOMAIN z : z[j].t = "spawn" /\ z[j].cluster = z[i].cluster => j = i
      <3> SUFFICES ASSUME NEW i \in DOMAIN z, z[i].t = "spawn"
                   PROVE  /\ Current(info, z[i].cluster, h, z[i].epoch)
                          /\ \A p \in procs' : p.host = h /\ p.reply => p.cluster # z[i].cluster
                          /\ \A j \in DOMAIN up :
                                 up[j].cluster = z[i].cluster => up[j].epoch # z[i].epoch
                          /\ \A j \in DOMAIN z :
                                 z[j].t = "spawn" /\ z[j].cluster = z[i].cluster => j = i
        OBVIOUS
      <3>1. /\ Current(info, z[i].cluster, h, z[i].epoch)
            /\ \A p \in procs : p.host = h /\ p.reply => p.cluster # z[i].cluster
            /\ \A j \in DOMAIN wire[h].up : wire[h].up[j].cluster = z[i].cluster =>
                   wire[h].up[j].epoch # z[i].epoch
            /\ \A j \in DOMAIN q : q[j].t = "spawn" /\ q[j].cluster = z[i].cluster => j = i + 1
        BY <2>2, <1>5
      <3>2. m.t = "spawn" => z[i].cluster # m.cluster
        BY <2>3
      <3>3. \A p \in procs' : p.host = h /\ p.reply => p.cluster # z[i].cluster
        BY <2>4, <3>1, <3>2
      <3>4. \A j \in DOMAIN up : up[j].cluster = z[i].cluster => up[j].epoch # z[i].epoch
        BY <2>6, <3>1, <3>2
      <3>5. \A j \in DOMAIN z : z[j].t = "spawn" /\ z[j].cluster = z[i].cluster => j = i
        <4> TAKE j \in DOMAIN z
        <4> HAVE z[j].t = "spawn" /\ z[j].cluster = z[i].cluster
        <4>1. j + 1 = i + 1
          BY <3>1, <1>5
        <4>2. i \in Nat /\ j \in Nat
          BY <1>5
        <4> QED BY <4>1, <4>2
      <3> QED BY <3>1, <3>3, <3>4, <3>5
    <2> HIDE DEF Current
    <2> QED BY <2>5, <2>7, <2>8, <2>9, <1>3, <1>9 DEF Known, up
  <1>17. \A k \in Hosts \ {h} :
             /\ Worded(k)' /\ Opened(k)' /\ Fading(k)' /\ (Known(k) => Known(k)')
             /\ \A c \in Clusters : Claims(k, c)' => Claims(k, c)
    <2> TAKE k \in Hosts \ {h}
    <2>1. host'[k] = host[k] /\ wire'[k] = wire[k] /\ link'[k] = link[k]
      BY <1>3, <1>9, <1>11
    <2>2. \A p \in procs' : p.host = k => p \in procs
      BY <1>10
    <2>3. {} \in SUBSET Clusters
      OBVIOUS
    <2> QED BY <1>3, <2>1, <2>2, <2>3, LeftAlone
  <1>18. \A c \in Clusters : Claims(h, c)' => Claims(h, c)
    <2> TAKE c \in Clusters
    <2>1. Spawning(h, c)' => Spawning(h, c)
      BY <1>5, <1>9 DEF Spawning
    <2>2. RunsHere(h, c)' => RunsHere(h, c) \/ (m.t = "spawn" /\ m.cluster = c)
      BY <1>10 DEF RunsHere
    <2>3. m.t = "spawn" /\ m.cluster = c => Spawning(h, c)
      BY <1>5 DEF Spawning
    <2> QED BY <2>1, <2>2, <2>3 DEF Claims
  <1>19. Framed'
    BY <1>3, <1>10, <1>12, <1>13, <1>14, <1>15, <1>17 DEF Framed
  <1>20. AllKnown => AllKnown'
    BY <1>16, <1>17 DEF AllKnown
  <1>21. AllPlaced => AllPlaced'
    <2> HAVE AllPlaced
    <2>1. \A k \in Hosts, c \in Clusters : Claims(k, c)' => Claims(k, c)
      BY <1>17, <1>18
    <2>2. \A c \in Clusters : info'[c].place = info[c].place
      BY <1>3
    <2> QED BY <2>1, <2>2, <1>3, PlacedKept
  <1> QED BY <1>19, <1>20, <1>21 DEF Keeps

\* The coordinator says something that asks for no process.
LEMMA Tells ==
    ASSUME Framed, UNCHANGED <<host, procs, guard, epoch, link>>,
           count' \in [faults: 0..MaxFaults, takeovers: 0..MaxTakeovers, respawns: 0..MaxRespawns],
           wire' \in [Hosts -> Wire], info' \in [Clusters -> Info],
           \A h \in Hosts :
               /\ Longer(wire[h], wire'[h])
               /\ \A i \in DOMAIN wire'[h].down \ DOMAIN wire[h].down :
                      ~wire'[h].down[i].old /\ wire'[h].down[i].t # "spawn",
           \A c \in Clusters :
               /\ info'[c].child = info[c].child /\ info'[c].place = info[c].place
               /\ info'[c].epoch = info[c].epoch /\ Managed(c)',
           phase' = phase \/ {phase, phase'} \subseteq {"running", "stopping"}
    PROVE  Keeps
  <1>1. /\ RemoteTypeOK /\ Single /\ Phased
        /\ \A h \in Hosts : Worded(h) /\ Opened(h) /\ Fading(h)
    BY DEF Framed
  <1>2. epoch' \in Nat /\ epoch' >= epoch
    BY <1>1, RemoteFacts DEF RemoteTypeOK
  <1>3. RemoteTypeOK'
    BY <1>1 DEF RemoteTypeOK
  <1>4. \A h \in Hosts : Elapsed(h)' = Elapsed(h)
    BY ElapsedKept
  <1>5. \A h \in Hosts : Worded(h)' /\ Opened(h)' /\ Fading(h)'
    BY <1>4, Speaks
  <1>6. Framed'
    BY <1>1, <1>3, <1>5 DEF Framed, Single, Phased
  <1>7. ASSUME NEW h \in Hosts, Known(h) PROVE Known(h)'
    <2>1. wire'[h].down \in Seq(Message) /\ wire'[h].state = wire[h].state
          /\ wire'[h].up = wire[h].up
      BY DEF Wire, Longer
    <2>2. \A i \in DOMAIN wire'[h].down : wire'[h].down[i].t = "spawn" =>
              i \in DOMAIN wire[h].down /\ wire[h].down[i] = wire'[h].down[i]
      <3> TAKE i \in DOMAIN wire'[h].down
      <3> HAVE wire'[h].down[i].t = "spawn"
      <3>1. i \in DOMAIN wire[h].down
        OBVIOUS
      <3>2. wire'[h].down[i] = wire[h].down[i]
        BY <3>1 DEF Longer
      <3> QED BY <3>1, <3>2
    <2> DEFINE L == {c \in Clusters : FALSE}
    <2>3. L \in SUBSET Clusters  /\ \A c : c \notin L
      OBVIOUS
    <2> DEFINE d == 0
    <2>9. d \in Nat /\ \A i \in DOMAIN wire'[h].down : i + d = i
      BY <2>1
    <2> HIDE DEF L, d
    <2>4. \A c \in Clusters \ L : \A e : Current(info, c, h, e) => Current(info', c, h, e)
      BY DEF Current
    <2> HIDE DEF Current
    <2>5. \A p \in procs' : p.host = h /\ p.reply => /\ p.cluster \notin L
              /\ \E q \in procs : q.host = h /\ q.reply /\ q.cluster = p.cluster /\ q.epoch = p.epoch
      BY <2>3
    <2>7. \A i \in DOMAIN wire'[h].down : wire'[h].down[i].t = "spawn" =>
              /\ wire'[h].down[i].cluster \notin L
              /\ i + d \in DOMAIN wire[h].down /\ wire[h].down[i + d].t = "spawn"
              /\ wire[h].down[i + d].cluster = wire'[h].down[i].cluster
              /\ wire[h].down[i + d].epoch = wire'[h].down[i].epoch
      BY <2>2, <2>3, <2>9
    <2>8. \A i \in DOMAIN wire'[h].up : \E j \in DOMAIN wire[h].up :
              /\ wire[h].up[j].cluster = wire'[h].up[i].cluster
              /\ wire[h].up[j].epoch = wire'[h].up[i].epoch
      BY <2>1
    <2>6. Worded(h)
      BY <1>1
    <2>10. LessKnown(h, d, L)
      BY <1>2, <2>1, <2>3, <2>4, <2>5, <2>7, <2>8, <2>9 DEF LessKnown
    <2> QED BY <1>1, <1>7, <2>6, <2>10, KnownKept
  <1>8. AllKnown => AllKnown'
    BY <1>7 DEF AllKnown
  <1>9. \A h \in Hosts, c \in Clusters : Claims(h, c)' => Claims(h, c)
    <2> TAKE h \in Hosts, c \in Clusters
    <2>1. Spawning(h, c)' => Spawning(h, c)
      BY DEF Spawning, Longer
    <2> QED BY <2>1 DEF Claims, RunsHere
  <1>10. AllPlaced => AllPlaced'
    BY <1>9, PlacedKept
  <1> QED BY <1>6, <1>8, <1>10 DEF Keeps

\* Kill, as the coordinator's step.
LEMMA KillStep ==
    ASSUME Framed, NEW s \in Manager, s.epoch = epoch, s.link = link, s.wire = wire,
           NEW S \in SUBSET Clusters, NEW what \in {"term", "kill"}, Becomes(Kill(s, S, what))
    PROVE  /\ epoch' = epoch /\ link' = link /\ info' = s.info
           /\ wire' \in [Hosts -> Wire] /\ info' \in [Clusters -> Info]
           /\ \A h \in Hosts :
               /\ Longer(wire[h], wire'[h])
               /\ \A i \in DOMAIN wire'[h].down \ DOMAIN wire[h].down :
                      ~wire'[h].down[i].old /\ wire'[h].down[i].t # "spawn"
  <1> DEFINE t == Kill(s, S, what)
  <1>1. epoch' = t.epoch /\ info' = t.info /\ link' = t.link /\ wire' = t.wire
    BY DEF Becomes
  <1>2. /\ t \in Manager /\ t.epoch = s.epoch /\ t.info = s.info /\ t.link = s.link
        /\ \A h \in Hosts :
            /\ Longer(s.wire[h], t.wire[h])
            /\ \A i \in DOMAIN t.wire[h].down \ DOMAIN s.wire[h].down :
                   ~t.wire[h].down[i].old /\ t.wire[h].down[i].t = what
    BY Killed
  <1> HIDE DEF t
  <1>3. wire' \in [Hosts -> Wire] /\ info' \in [Clusters -> Info]
    BY <1>1, <1>2 DEF Manager
  <1>4. ASSUME NEW h \in Hosts
        PROVE  /\ Longer(wire[h], wire'[h])
               /\ \A i \in DOMAIN wire'[h].down \ DOMAIN wire[h].down :
                      ~wire'[h].down[i].old /\ wire'[h].down[i].t # "spawn"
    BY <1>1, <1>2
  <1> QED BY <1>1, <1>2, <1>3, <1>4

\* A process that takes too long to start is killed.
LEMMA StartTimesOutKeeps == ASSUME Framed, NEW c \in Clusters, StartTimesOut(c) PROVE Keeps
  <1>1. RemoteTypeOK /\ \A d \in Clusters : Managed(d)
    BY DEF Framed
  <1>2. Now \in Manager /\ Now.epoch = epoch /\ Now.info = info /\ Now.link = link /\ Now.wire = wire
    BY <1>1, NowFacts
  <1>3. Becomes(Kill(Now, {c}, "kill")) /\ UNCHANGED <<phase, guard, host, procs>> /\ Fault
    BY DEF StartTimesOut
  <1>4. {c} \in SUBSET Clusters
    OBVIOUS
  <1> DEFINE s == Now
  <1> HIDE DEF s
  <1>5. s \in Manager /\ s.epoch = epoch /\ s.info = info /\ s.link = link /\ s.wire = wire
        /\ Becomes(Kill(s, {c}, "kill"))
    BY <1>2, <1>3 DEF s
  <1>6. /\ epoch' = epoch /\ link' = link /\ info' = info
        /\ wire' \in [Hosts -> Wire] /\ info' \in [Clusters -> Info]
        /\ \A h \in Hosts :
            /\ Longer(wire[h], wire'[h])
            /\ \A i \in DOMAIN wire'[h].down \ DOMAIN wire[h].down :
                   ~wire'[h].down[i].old /\ wire'[h].down[i].t # "spawn"
    BY <1>4, <1>5, KillStep
  <1>7. \A d \in Clusters : Managed(d)'
    BY <1>1, <1>3, <1>6 DEF Managed
  <1>8. count' \in [faults: 0..MaxFaults, takeovers: 0..MaxTakeovers, respawns: 0..MaxRespawns]
    BY <1>1, <1>3, FaultTyped
  <1> QED BY <1>3, <1>6, <1>7, <1>8, Tells

\* A process that was asked to end, and did not, is killed.
LEMMA GraceEndsKeeps == ASSUME Framed, NEW c \in Clusters, GraceEnds(c) PROVE Keeps
  <1> DEFINE i == [info[c] EXCEPT !.state = "killing"]
             s == [Now EXCEPT !.info[c].state = "killing"]
  <1>1. RemoteTypeOK /\ (\A d \in Clusters : Managed(d)) /\ info \in [Clusters -> Info]
    BY DEF Framed, RemoteTypeOK
  <1>2. Now \in Manager /\ Now.epoch = epoch /\ Now.info = info /\ Now.link = link /\ Now.wire = wire
    BY <1>1, NowFacts
  <1>3. /\ Becomes(Kill(s, {c}, "kill")) /\ UNCHANGED <<phase, guard, host, procs, count>>
        /\ info[c].state = "stopping" /\ info[c].child
    BY DEF GraceEnds
  <1>4. {c} \in SUBSET Clusters
    OBVIOUS
  <1>5. /\ i \in Info /\ i.state = "killing" /\ i.child = info[c].child
        /\ i.place = info[c].place /\ i.epoch = info[c].epoch
    BY <1>1 DEF Info
  <1>6. s = [Now EXCEPT !.info = [info EXCEPT ![c] = i]]
    BY <1>2
  <1> HIDE DEF s, i
  <1>7. /\ s \in Manager /\ s.epoch = epoch /\ s.info = [info EXCEPT ![c] = i] /\ s.link = link
        /\ s.wire = wire
    <2>1. [info EXCEPT ![c] = i] \in [Clusters -> Info]
      BY <1>1, <1>5
    <2> QED BY <2>1, <1>2, <1>6 DEF Manager
  <1>8. /\ epoch' = epoch /\ link' = link /\ info' = s.info
        /\ wire' \in [Hosts -> Wire] /\ info' \in [Clusters -> Info]
        /\ \A h \in Hosts :
            /\ Longer(wire[h], wire'[h])
            /\ \A j \in DOMAIN wire'[h].down \ DOMAIN wire[h].down :
                   ~wire'[h].down[j].old /\ wire'[h].down[j].t # "spawn"
    BY <1>3, <1>4, <1>7, KillStep
  <1>9. info'[c] = i /\ \A d \in Clusters \ {c} : info'[d] = info[d]
    BY <1>1, <1>7, <1>8
  <1>10. \A d \in Clusters : Managed(d)'
    BY <1>1, <1>3, <1>5, <1>8, <1>9 DEF Managed
  <1>11. \A d \in Clusters : /\ info'[d].child = info[d].child /\ info'[d].place = info[d].place
                             /\ info'[d].epoch = info[d].epoch
    BY <1>5, <1>9
  <1> QED BY <1>1, <1>3, <1>8, <1>10, <1>11, Tells DEF RemoteTypeOK

\* The fleet is stopped to be placed anew.
LEMMA RespawnKeeps == ASSUME Framed, Respawn PROVE Keeps
  <1> DEFINE f == [d \in Clusters |->
                      [info[d] EXCEPT !.state = IF info[d].child THEN "stopping" ELSE "none"]]
             s == [Now EXCEPT !.info = f]
             S == {c \in Clusters : info[c].child}
  <1>1. RemoteTypeOK /\ (\A d \in Clusters : Managed(d)) /\ info \in [Clusters -> Info]
    BY DEF Framed, RemoteTypeOK
  <1>2. Now \in Manager /\ Now.epoch = epoch /\ Now.info = info /\ Now.link = link /\ Now.wire = wire
    BY <1>1, NowFacts
  <1>3. /\ phase = "running" /\ Count("respawns", MaxRespawns) /\ phase' = "stopping"
        /\ UNCHANGED <<guard, host, procs>> /\ Becomes(Kill(s, S, "term"))
    BY <1>2 DEF Respawn
  <1>4. S \in SUBSET Clusters
    OBVIOUS
  <1>5. \A d \in Clusters :
            /\ f[d] \in Info /\ f[d].child = info[d].child /\ f[d].place = info[d].place
            /\ f[d].epoch = info[d].epoch /\ f[d].state = IF info[d].child THEN "stopping" ELSE "none"
    <2> TAKE d \in Clusters
    <2>1. info[d] \in Info /\ f[d] = [info[d] EXCEPT !.state = IF info[d].child THEN "stopping"
                                                               ELSE "none"]
      BY <1>1
    <2> HIDE DEF f
    <2> QED BY <2>1 DEF Info
  <1>6. f \in [Clusters -> Info]
    <2>1. f = [d \in Clusters |-> f[d]]
      OBVIOUS
    <2> HIDE DEF f
    <2> QED BY <2>1, <1>5
  <1> HIDE DEF f, S
  <1>7. s \in Manager /\ s.epoch = epoch /\ s.info = f /\ s.link = link /\ s.wire = wire
    BY <1>2, <1>6 DEF Manager
  <1> HIDE DEF s
  <1>8. /\ epoch' = epoch /\ link' = link /\ info' = f
        /\ wire' \in [Hosts -> Wire] /\ info' \in [Clusters -> Info]
        /\ \A h \in Hosts :
            /\ Longer(wire[h], wire'[h])
            /\ \A j \in DOMAIN wire'[h].down \ DOMAIN wire[h].down :
                   ~wire'[h].down[j].old /\ wire'[h].down[j].t # "spawn"
    BY <1>3, <1>4, <1>7, KillStep
  <1>9. \A d \in Clusters : Managed(d)'
    BY <1>1, <1>3, <1>5, <1>8 DEF Managed
  <1>10. count' \in [faults: 0..MaxFaults, takeovers: 0..MaxTakeovers, respawns: 0..MaxRespawns]
    BY <1>1, <1>3, CountTyped
  <1> QED BY <1>3, <1>5, <1>8, <1>9, <1>10, Tells

\* A step of the coordinator that changes nothing outside it, nor the processes that
\* it knows of.
LEMMA PhaseKeeps ==
    ASSUME Framed, UNCHANGED <<epoch, info, link, host, procs, wire, count>>,
           phase' \in {"down", "guarding", "joining", "running", "stopping"},
           guard' \in 0..2 * Lease,
           \A h \in Hosts : Elapsed(h)' = Elapsed(h),
           phase' \in {"down", "guarding"} => phase \in {"down", "guarding"},
           \A c \in Clusters : Managed(c)'
    PROVE  /\ Framed'
           /\ AllKnown => AllKnown'
           /\ \A h \in Hosts, c \in Clusters : Claims(h, c)' => Claims(h, c)
  <1>1. RemoteTypeOK /\ Single /\ Phased
    BY DEF Framed
  <1>2. epoch' \in Nat /\ epoch' >= epoch
    BY <1>1, RemoteFacts DEF RemoteTypeOK
  <1>3. \A h \in Hosts :
            /\ Worded(h)' /\ Opened(h)' /\ Fading(h)' /\ (Known(h) => Known(h)')
            /\ \A c \in Clusters : Claims(h, c)' => Claims(h, c)
    <2>1. {} \in SUBSET Clusters
      OBVIOUS
    <2> QED BY <1>2, <2>1, LeftAlone
  <1>4. RemoteTypeOK'
    BY <1>1 DEF RemoteTypeOK
  <1>5. Phased' /\ Single'
    BY <1>1 DEF Phased, Single
  <1>6. Framed'
    BY <1>3, <1>4, <1>5 DEF Framed
  <1> QED BY <1>3, <1>6 DEF AllKnown

\* Another coordinator leads.
LEMMA TakesOverKeeps == ASSUME Framed, TakesOver PROVE Keeps
  <1>1. RemoteTypeOK /\ \A c \in Clusters : Managed(c)
    BY DEF Framed
  <1>2. /\ phase = "down" /\ phase' = "guarding" /\ guard' = 2 * Lease
        /\ UNCHANGED <<epoch, info, link, host, procs, wire, count>>
    BY DEF TakesOver
  <1>3. \A h \in Hosts : Elapsed(h)' = Elapsed(h)
    BY <1>2, RemoteFacts DEF Elapsed
  <1>4. \A c \in Clusters : Managed(c)'
    BY <1>1, <1>2 DEF Managed
  <1>5. guard' \in 0..2 * Lease
    BY <1>2, RemoteFacts
  <1>6. Framed' /\ (AllKnown => AllKnown')
        /\ \A h \in Hosts, c \in Clusters : Claims(h, c)' => Claims(h, c)
    BY <1>2, <1>3, <1>4, <1>5, PhaseKeeps
  <1>7. AllPlaced => AllPlaced'
    BY <1>2, <1>6, PlacedKept
  <1> QED BY <1>6, <1>7 DEF Keeps

\* Two leases after the hosts were lost, none of them has a process left.
LEMMA ListensKeeps == ASSUME Framed, Listens PROVE Keeps
  <1>1. /\ RemoteTypeOK /\ Phased /\ \A c \in Clusters : Managed(c)
        /\ \A h \in Hosts : Fading(h)
    BY DEF Framed
  <1>2. /\ phase = "guarding" /\ guard = 0 /\ phase' = "joining" /\ guard' = guard
        /\ UNCHANGED <<epoch, info, link, host, procs, wire, count>>
    BY DEF Listens
  <1>3. \A h \in Hosts : ~link[h].up /\ link[h].dropped = -1
    BY <1>1, <1>2 DEF Phased
  <1>4. \A h \in Hosts : Elapsed(h)' = Elapsed(h) /\ Elapsed(h) = 2 * Lease
    BY <1>2, <1>3, RemoteFacts DEF Elapsed
  <1>5. \A c \in Clusters : Managed(c)'
    BY <1>1, <1>2 DEF Managed
  <1>6. guard' \in 0..2 * Lease
    BY <1>2, RemoteFacts
  <1>7. Framed' /\ (AllKnown => AllKnown')
        /\ \A h \in Hosts, c \in Clusters : Claims(h, c)' => Claims(h, c)
    BY <1>2, <1>4, <1>5, <1>6, PhaseKeeps
  <1>8. ASSUME Lease >= 3 PROVE \A h \in Hosts, c \in Clusters : ~Claims(h, c)
    <2> TAKE h \in Hosts, c \in Clusters
    <2>1. /\ \A i \in DOMAIN wire[h].down : Elapsed(h) <= 1
          /\ \A p \in procs : p.host = h => Elapsed(h) <= Lease + 2
      BY <1>1, <1>3 DEF Fading
    <2>2. ~(Elapsed(h) <= 1) /\ ~(Elapsed(h) <= Lease + 2)
      <3>1. Elapsed(h) = 2 * Lease
        BY <1>4
      <3> HIDE DEF Elapsed
      <3> QED BY <3>1, <1>8, RemoteFacts
    <2> HIDE DEF Elapsed
    <2> QED BY <2>1, <2>2 DEF Claims, RunsHere, Spawning
  <1>9. Lease >= 3 => AllPlaced'
    <2> HAVE Lease >= 3
    <2>1. \A h \in Hosts, c \in Clusters : ~Claims(h, c)'
      BY <1>7, <1>8
    <2> QED BY <2>1, <1>2 DEF AllPlaced, Placed
  <1> QED BY <1>7, <1>9 DEF Keeps

\* A fleet has stopped.
LEMMA StopEndsKeeps == ASSUME Framed, StopEnds PROVE Keeps
  <1>1. RemoteTypeOK /\ \A c \in Clusters : Managed(c)
    BY DEF Framed
  <1>2. /\ phase = "stopping" /\ phase' = "joining" /\ guard' = guard
        /\ \A c \in Clusters : ~info[c].child
        /\ Hasty \/ \A c \in Clusters : Gone(c)
        /\ UNCHANGED <<epoch, info, link, host, procs, wire, count>>
    BY DEF StopEnds
  <1>3. \A h \in Hosts : Elapsed(h)' = Elapsed(h)
    BY <1>2, ElapsedKept
  <1>4. \A c \in Clusters : Managed(c)'
    BY <1>1, <1>2 DEF Managed
  <1>5. guard' \in 0..2 * Lease
    BY <1>1, <1>2 DEF RemoteTypeOK
  <1>6. Framed' /\ (AllKnown => AllKnown')
        /\ \A h \in Hosts, c \in Clusters : Claims(h, c)' => Claims(h, c)
    BY <1>2, <1>3, <1>4, <1>5, PhaseKeeps
  <1>7. ~Hasty => AllPlaced'
    <2> HAVE ~Hasty
    <2>1. \A h \in Hosts, c \in Clusters : ~Claims(h, c)
      BY <1>2 DEF Gone, Claims, RunsHere, Spawning
    <2>2. \A h \in Hosts, c \in Clusters : ~Claims(h, c)'
      BY <1>6, <2>1
    <2> QED BY <2>2, <1>2 DEF AllPlaced, Placed
  <1> QED BY <1>6, <1>7 DEF Keeps

\* An exit is waited for no longer.
LEMMA GivesUpKeeps == ASSUME Framed, NEW c \in Clusters, GivesUp(c) PROVE Keeps
  <1> DEFINE i == [info[c] EXCEPT !.child = FALSE]
  <1>1. /\ RemoteTypeOK /\ (\A d \in Clusters : Managed(d)) /\ info \in [Clusters -> Info]
        /\ Phased /\ Single
        /\ \A h \in Hosts : Worded(h) /\ Opened(h) /\ Fading(h)
    BY DEF Framed, RemoteTypeOK
  <1>2. /\ info[c].state = "killing" /\ info[c].child /\ (Hasty \/ Gone(c))
        /\ info' = [info EXCEPT ![c] = i]
        /\ UNCHANGED <<phase, guard, epoch, link, host, procs, wire, count>>
    BY DEF GivesUp
  <1>3. /\ i \in Info /\ i.state = "killing" /\ ~i.child
        /\ i.place = info[c].place /\ i.epoch = info[c].epoch
    BY <1>1, <1>2 DEF Info
  <1> HIDE DEF i
  <1>4. info'[c] = i /\ \A d \in Clusters \ {c} : info'[d] = info[d]
    BY <1>1, <1>2
  <1>5. epoch' \in Nat /\ epoch' >= epoch
    BY <1>1, <1>2, RemoteFacts DEF RemoteTypeOK
  <1>6. RemoteTypeOK'
    <2>1. info' \in [Clusters -> Info]
      BY <1>1, <1>2, <1>3
    <2> QED BY <2>1, <1>1, <1>2 DEF RemoteTypeOK
  <1>7. \A d \in Clusters : Managed(d)'
    BY <1>1, <1>2, <1>3, <1>4 DEF Managed
  <1>8. \A h \in Hosts : Elapsed(h)' = Elapsed(h)
    BY <1>2, ElapsedKept
  <1>9. \A h \in Hosts : Worded(h)' /\ Opened(h)' /\ Fading(h)'
    BY <1>1, <1>2, <1>8 DEF Worded, Opened, Fading
  <1>10. Framed'
    BY <1>1, <1>2, <1>6, <1>7, <1>9 DEF Framed, Phased, Single
  <1>11. ASSUME ~Hasty, NEW h \in Hosts, Known(h) PROVE Known(h)'
    <2>1. /\ \A p \in procs : p.cluster # c
          /\ \A j \in DOMAIN wire[h].down : wire[h].down[j].t = "spawn" => wire[h].down[j].cluster # c
      BY <1>2, <1>11 DEF Gone
    <2>2. wire[h].down \in Seq(Message)
      BY <1>1 DEF RemoteTypeOK, Wire
    <2>3. \A j \in DOMAIN wire[h].down : j + 0 = j
      BY <2>2
    <2>4. \A d \in Clusters \ {c} : \A e : Current(info, d, h, e) => Current(info', d, h, e)
      BY <1>4 DEF Current
    <2>5. LessKnown(h, 0, {c})
      <3> HIDE DEF Current
      <3> QED BY <1>2, <1>5, <2>1, <2>2, <2>3, <2>4 DEF LessKnown
    <2> QED BY <1>1, <1>11, <2>5, KnownKept
  <1>12. ~Hasty /\ AllKnown => AllKnown'
    BY <1>11 DEF AllKnown
  <1>13. AllPlaced => AllPlaced'
    <2>1. \A h \in Hosts, d \in Clusters : Claims(h, d)' => Claims(h, d)
      BY <1>2 DEF Claims, RunsHere, Spawning
    <2>2. \A d \in Clusters : info'[d].place = info[d].place
      BY <1>3, <1>4
    <2> QED BY <2>1, <2>2, <1>2, PlacedKept
  <1> QED BY <1>10, <1>12, <1>13 DEF Keeps

\* The coordinator is gone: no connection of its works any more.
LEMMA FallsKeeps == ASSUME Framed, Falls PROVE Keeps
  <1>1. /\ RemoteTypeOK /\ Phased /\ Single /\ wire \in [Hosts -> Wire] /\ host \in [Hosts -> Host]
        /\ \A h \in Hosts : Worded(h) /\ Opened(h) /\ Fading(h)
    BY DEF Framed, RemoteTypeOK
  <1>2. /\ Count("takeovers", MaxTakeovers)
        /\ phase' = "down" /\ guard' = 0 /\ epoch' = 0 /\ info' = NewInfo
        /\ link' = [h \in Hosts |-> NewLink] /\ host' = host /\ procs' = procs
    BY DEF Falls
  <1>3. PICK how \in {"bye", "close", "silence"} : wire' = Goodbyes(how)
    BY DEF Falls
  <1> DEFINE last == Plain(IF how = "bye" THEN how ELSE "ping")
  <1>4. last \in Message /\ last.t # "spawn"
    <2>1. last.t = "bye" \/ last.t = "ping"
      BY PlainFacts
    <2>2. last \in Message
      BY PlainFacts
    <2> QED BY <2>1, <2>2
  <1> HIDE DEF last
  <1>5. ASSUME NEW h \in Hosts
        PROVE  \/ ~link[h].up /\ wire'[h] = wire[h]
               \/ link[h].up /\ wire[h].state = "left" /\ wire'[h] = NewWire
               \/ /\ link[h].up /\ wire[h].state = "good"
                  /\ wire'[h] = [state |-> IF how = "silence" THEN "cut" ELSE "closing",
                                 up |-> <<>>, down |-> Append(wire[h].down, last)]
               \/ /\ link[h].up /\ wire[h].state \notin {"left", "good"}
                  /\ wire'[h] = [wire[h] EXCEPT !.up = <<>>]
    <2>1. wire'[h] = IF ~link[h].up THEN wire[h]
                     ELSE CASE wire[h].state = "left" -> NewWire
                            [] wire[h].state = "good" ->
                                 [state |-> IF how = "silence" THEN "cut" ELSE "closing",
                                  up |-> <<>>, down |-> Append(wire[h].down, last)]
                            [] OTHER -> [wire[h] EXCEPT !.up = <<>>]
      BY <1>3 DEF Goodbyes, last
    <2>2. CASE ~link[h].up
      BY <2>1, <2>2
    <2>3. CASE link[h].up /\ wire[h].state = "left"
      BY <2>1, <2>3
    <2>4. CASE link[h].up /\ wire[h].state = "good"
      BY <2>1, <2>4
    <2>5. CASE link[h].up /\ wire[h].state \notin {"left", "good"}
      BY <2>1, <2>5
    <2> QED BY <2>2, <2>3, <2>4, <2>5
  <1>6. ASSUME NEW h \in Hosts
        PROVE  /\ wire'[h] \in Wire /\ wire'[h].state # "good"
               /\ wire'[h].state \in {"left", "none"} => host[h].conn = "none"
               /\ wire'[h].state = "closing" => host[h].conn # "none"
               /\ host[h].conn = "none" => wire'[h].down = <<>>
               /\ host[h].conn = "opening" =>
                      IF wire'[h].down = <<>> THEN wire'[h].state = "cut"
                      ELSE wire'[h].down[1].t = "welcome"
               /\ \A i \in DOMAIN wire'[h].up : i \in DOMAIN wire[h].up /\ wire'[h].up[i] = wire[h].up[i]
               /\ \A i \in DOMAIN wire'[h].down :
                      \/ i \in DOMAIN wire[h].down /\ wire'[h].down[i] = wire[h].down[i]
                      \/ wire'[h].down[i].t # "spawn"
    <2>1. /\ wire[h] \in Wire /\ wire[h].down \in Seq(Message) /\ <<>> \in Seq(Message)
          /\ wire[h].state \in {"none", "good", "cut", "closing", "left"}
          /\ DOMAIN <<>> = {} /\ Opened(h)
      BY <1>1, Nothing DEF Wire
    <2>2. CASE ~link[h].up /\ wire'[h] = wire[h]
      BY <2>1, <2>2 DEF Opened
    <2>3. CASE link[h].up /\ wire[h].state = "left" /\ wire'[h] = NewWire
      <3>1. NewWire \in Wire /\ NewWire.state = "none" /\ NewWire.down = <<>> /\ NewWire.up = <<>>
        BY <2>1 DEF NewWire, Wire
      <3>2. host[h].conn = "none"
        BY <2>1, <2>3 DEF Opened
      <3> QED BY <2>1, <2>3, <3>1, <3>2
    <2>4. CASE /\ link[h].up /\ wire[h].state = "good"
               /\ wire'[h] = [state |-> IF how = "silence" THEN "cut" ELSE "closing",
                              up |-> <<>>, down |-> Append(wire[h].down, last)]
      <3> DEFINE z == Append(wire[h].down, last)
      <3>1. /\ z \in Seq(Message) /\ z # <<>>
            /\ \A i \in DOMAIN z : (i \in DOMAIN wire[h].down /\ z[i] = wire[h].down[i])
                                   \/ (i \notin DOMAIN wire[h].down /\ z[i] = last)
            /\ z[1] = IF wire[h].down = <<>> THEN last ELSE wire[h].down[1]
        BY <2>1, <1>4, Appended
      <3> HIDE DEF z
      <3>2. /\ wire'[h].down = z /\ wire'[h].up = <<>> /\ wire'[h].state \in {"cut", "closing"}
            /\ wire'[h] \in Wire
        BY <2>1, <2>4, <3>1 DEF Wire, z
      <3>3. host[h].conn # "none" /\ (host[h].conn = "opening" => wire[h].down # <<>>
                                                        /\ wire[h].down[1].t = "welcome")
        BY <2>1, <2>4 DEF Opened
      <3> QED BY <2>1, <3>1, <3>2, <3>3, <1>4
    <2>5. CASE /\ link[h].up /\ wire[h].state \notin {"left", "good"}
               /\ wire'[h] = [wire[h] EXCEPT !.up = <<>>]
      <3>1. /\ wire'[h] \in Wire /\ wire'[h].state = wire[h].state /\ wire'[h].up = <<>>
            /\ wire'[h].down = wire[h].down
        BY <2>1, <2>5 DEF Wire
      <3> QED BY <2>1, <2>5, <3>1 DEF Opened
    <2> QED BY <1>5, <2>2, <2>3, <2>4, <2>5
  <1>7. /\ NewLink \in Link /\ ~NewLink.up /\ NewLink.dropped = -1
        /\ NewInfo \in [Clusters -> Info]
        /\ \A c \in Clusters : NewInfo[c].state = "none" /\ ~NewInfo[c].child /\ NewInfo[c].epoch = 0
    BY RemoteFacts DEF NewLink, Link, NewInfo, Info
  <1>8. RemoteTypeOK'
    <2>1. wire' \in [Hosts -> Wire]
      <3>1. wire' = [h \in Hosts |-> wire'[h]]
        BY <1>3 DEF Goodbyes
      <3> QED BY <3>1, <1>6
    <2>2. link' \in [Hosts -> Link]
      BY <1>2, <1>7
    <2>3. count' \in [faults: 0..MaxFaults, takeovers: 0..MaxTakeovers, respawns: 0..MaxRespawns]
      BY <1>1, <1>2, CountTyped
    <2>4. 0 \in 0..MaxEpoch /\ 0 \in 0..2 * Lease
      BY RemoteFacts
    <2> QED BY <2>1, <2>2, <2>3, <2>4, <1>1, <1>2, <1>7 DEF RemoteTypeOK
  <1>9. \A h \in Hosts : ~link'[h].up /\ link'[h].dropped = -1 /\ Elapsed(h)' = 0
    BY <1>2, <1>7 DEF Elapsed
  <1>10. \A c \in Clusters : Managed(c)'
    BY <1>2, <1>7 DEF Managed
  <1>11. ASSUME NEW h \in Hosts PROVE Worded(h)' /\ Opened(h)' /\ Fading(h)' /\ Known(h)'
    <2>1. Worded(h)'
      BY <1>1, <1>6 DEF Worded
    <2>2. Opened(h)'
      BY <1>1, <1>2, <1>6, <1>9 DEF Opened
    <2>3. Fading(h)'
      <3>1. host'[h].rx \in Nat /\ Elapsed(h)' = 0
        BY <1>1, <1>2, <1>9, RemoteFacts DEF Host
      <3> HIDE DEF Elapsed
      <3> QED BY <3>1, RemoteFacts DEF Fading
    <2>4. Known(h)'
      BY <1>6 DEF Known
    <2> QED BY <2>1, <2>2, <2>3, <2>4
  <1>12. Framed'
    BY <1>1, <1>2, <1>8, <1>9, <1>10, <1>11 DEF Framed, Phased, Single
  <1>13. AllKnown'
    BY <1>11 DEF AllKnown
  <1>14. \A h \in Hosts, c \in Clusters : Claims(h, c)' => Claims(h, c)
    <2> TAKE h \in Hosts, c \in Clusters
    <2>1. Spawning(h, c)' => Spawning(h, c)
      BY <1>6 DEF Spawning
    <2> QED BY <2>1, <1>2 DEF Claims, RunsHere
  <1>15. AllPlaced => AllPlaced'
    BY <1>2, <1>14, PlacedKept
  <1> QED BY <1>12, <1>13, <1>15 DEF Keeps

\* Messages that have aged by a tick.
LEMMA OlderFacts ==
    ASSUME NEW q \in Seq(Message)
    PROVE  /\ OlderMessages(q) \in Seq(Message) /\ DOMAIN OlderMessages(q) = DOMAIN q
           /\ OlderMessages(q) = <<>> <=> q = <<>>
           /\ \A i \in DOMAIN q :
                  /\ OlderMessages(q)[i].t = q[i].t /\ OlderMessages(q)[i].cluster = q[i].cluster
                  /\ OlderMessages(q)[i].epoch = q[i].epoch /\ OlderMessages(q)[i].old
  <1> DEFINE z == OlderMessages(q)
  <1>1. DOMAIN z = DOMAIN q /\ \A i \in DOMAIN q : z[i] = [q[i] EXCEPT !.old = TRUE]
    BY DEF OlderMessages
  <1>2. z = [i \in 1..Len(q) |-> z[i]] /\ Len(q) \in Nat /\ DOMAIN q = 1..Len(q)
    BY DEF OlderMessages
  <1> HIDE DEF z
  <1>3. \A i \in DOMAIN q : q[i] \in Message
    OBVIOUS
  <1>4. \A i \in DOMAIN q : /\ z[i] \in Message /\ z[i].t = q[i].t /\ z[i].cluster = q[i].cluster
                            /\ z[i].epoch = q[i].epoch /\ z[i].old
    BY <1>1, <1>3 DEF Message
  <1>5. z \in Seq(Message) /\ Len(z) = Len(q)
    <2>1. z \in [1..Len(q) -> Message]
      BY <1>2, <1>4
    <2> QED BY <2>1, <1>2
  <1>6. z = <<>> <=> q = <<>>
    <2>1. \A r \in Seq(Message) : r = <<>> <=> Len(r) = 0
      OBVIOUS
    <2> QED BY <2>1, <1>5
  <1> QED BY <1>1, <1>4, <1>5, <1>6 DEF z

\* A tick, for what it does to every variable.
LEMMA TickFacts ==
    ASSUME RemoteTypeOK, RemoteTick
    PROVE  /\ guard' = Less(guard) /\ guard' \in 0..2 * Lease
           /\ phase' = phase /\ epoch' = epoch /\ procs' = procs /\ count' = count
           /\ info' \in [Clusters -> Info] /\ link' \in [Hosts -> Link]
           /\ host' \in [Hosts -> Host] /\ wire' \in [Hosts -> Wire]
           /\ \A c \in Clusters :
                  /\ info'[c].state = info[c].state /\ info'[c].place = info[c].place
                  /\ info'[c].epoch = info[c].epoch /\ info'[c].child = info[c].child
                  /\ info'[c].hold = Less(info[c].hold)
           /\ \A h \in Hosts :
                  /\ link'[h].up = link[h].up
                  /\ link'[h].dropped = IF link[h].dropped \in 0..2 * Lease - 1
                                        THEN link[h].dropped + 1 ELSE link[h].dropped
                  /\ host'[h].conn = host[h].conn
                  /\ host[h].conn = "joined" => host'[h].rx = Silence(h, host[h].rx)
                  /\ wire'[h].state = wire[h].state
                  /\ wire'[h].down = OlderMessages(wire[h].down)
                  /\ wire'[h].up = OlderMessages(wire[h].up)
  <1>1. /\ guard' = Less(guard) /\ UNCHANGED <<phase, epoch, procs, count>> /\ ~Overdue
        /\ info' = [c \in Clusters |-> [info[c] EXCEPT !.hold = Less(info[c].hold)]]
        /\ link' = [h \in Hosts |->
               [link[h] EXCEPT !.seen = IF link[h].up THEN Silence(h, link[h].seen) ELSE 0,
                               !.dropped = IF link[h].dropped \in 0..2 * Lease - 1
                                           THEN link[h].dropped + 1 ELSE link[h].dropped]]
        /\ host' = [h \in Hosts |-> [host[h] EXCEPT !.rx = IF host[h].conn = "joined"
                                                           THEN Silence(h, host[h].rx) ELSE 0]]
        /\ wire' = [h \in Hosts |-> [wire[h] EXCEPT !.down = OlderMessages(wire[h].down),
                                                    !.up = OlderMessages(wire[h].up)]]
    BY DEF RemoteTick
  <1>2. \A n, m \in Nat : n \in 0..m => Less(n) \in 0..m
    BY DEF Less
  <1>3. 2 * Lease \in Nat /\ Lease \in Nat
    BY RemoteFacts
  <1>4. guard' \in 0..2 * Lease
    <2>1. guard \in Nat /\ guard \in 0..2 * Lease
      BY <1>3 DEF RemoteTypeOK
    <2> QED BY <1>1, <1>2, <1>3, <2>1
  <1>5. ASSUME NEW c \in Clusters
        PROVE  /\ info'[c] \in Info
               /\ info'[c].state = info[c].state /\ info'[c].place = info[c].place
               /\ info'[c].epoch = info[c].epoch /\ info'[c].child = info[c].child
               /\ info'[c].hold = Less(info[c].hold)
    <2> DEFINE i == info[c]
               n == Less(i.hold)
    <2>1. i \in Info /\ info'[c] = [i EXCEPT !.hold = n]
      BY <1>1 DEF RemoteTypeOK
    <2>2. i.hold \in Nat /\ i.hold \in 0..2 * Lease
      BY <2>1, <1>3 DEF Info
    <2>3. n \in 0..2 * Lease
      BY <2>2, <1>2, <1>3
    <2> HIDE DEF i, n
    <2>4. /\ info'[c] \in Info /\ info'[c].state = i.state /\ info'[c].place = i.place
          /\ info'[c].epoch = i.epoch /\ info'[c].child = i.child /\ info'[c].hold = n
      BY <2>1, <2>3 DEF Info
    <2> QED BY <2>4 DEF i, n
  <1>6. ASSUME NEW h \in Hosts
        PROVE  /\ link'[h] \in Link /\ link'[h].up = link[h].up
               /\ link'[h].dropped = IF link[h].dropped \in 0..2 * Lease - 1
                                     THEN link[h].dropped + 1 ELSE link[h].dropped
    <2> DEFINE l == link[h]
               n == IF l.up THEN Silence(h, l.seen) ELSE 0
               d == IF l.dropped \in 0..2 * Lease - 1 THEN l.dropped + 1 ELSE l.dropped
    <2>1. l \in Link /\ link'[h] = [l EXCEPT !.seen = n, !.dropped = d]
      BY <1>1 DEF RemoteTypeOK
    <2>2. ~(l.seen > 2 * Lease)
      BY <1>1 DEF Overdue
    <2> HIDE DEF l
    <2>3. l.seen \in 0..2 * Lease + 1 /\ l.dropped \in -1..2 * Lease
      BY <2>1 DEF Link
    <2>4. n \in 0..2 * Lease + 1
      BY <2>2, <2>3, <1>3 DEF Silence
    <2>5. d \in -1..2 * Lease
      BY <2>3, <1>3
    <2> HIDE DEF n, d
    <2>6. link'[h] \in Link /\ link'[h].up = l.up /\ link'[h].dropped = d
      BY <2>1, <2>4, <2>5 DEF Link
    <2> QED BY <2>6 DEF l, d
  <1>7. ASSUME NEW h \in Hosts
        PROVE  /\ host'[h] \in Host /\ host'[h].conn = host[h].conn
               /\ host[h].conn = "joined" => host'[h].rx = Silence(h, host[h].rx)
    <2> DEFINE i == host[h]
               n == IF i.conn = "joined" THEN Silence(h, i.rx) ELSE 0
    <2>1. i \in Host /\ host'[h] = [i EXCEPT !.rx = n]
      BY <1>1 DEF RemoteTypeOK
    <2>2. i.conn = "joined" => ~(i.rx > Lease)
      BY <1>1 DEF Overdue, Silent
    <2> HIDE DEF i
    <2>3. i.rx \in 0..Lease + 1
      BY <2>1 DEF Host
    <2>4. n \in 0..Lease + 1
      BY <2>2, <2>3, <1>3 DEF Silence
    <2>5. i.conn = "joined" => n = Silence(h, i.rx)
      OBVIOUS
    <2> HIDE DEF n
    <2>6. host'[h] \in Host /\ host'[h].conn = i.conn /\ host'[h].rx = n
      BY <2>1, <2>4 DEF Host
    <2> QED BY <2>5, <2>6 DEF i
  <1>8. ASSUME NEW h \in Hosts
        PROVE  /\ wire'[h] \in Wire /\ wire'[h].state = wire[h].state
               /\ wire'[h].down = OlderMessages(wire[h].down)
               /\ wire'[h].up = OlderMessages(wire[h].up)
    <2> DEFINE w == wire[h]
               y == OlderMessages(w.down)
               z == OlderMessages(w.up)
    <2>1. w \in Wire /\ wire'[h] = [w EXCEPT !.down = y, !.up = z]
      BY <1>1 DEF RemoteTypeOK
    <2>2. y \in Seq(Message) /\ z \in Seq(Message)
      BY <2>1, OlderFacts DEF Wire
    <2> HIDE DEF w, y, z
    <2>3. wire'[h] \in Wire /\ wire'[h].state = w.state /\ wire'[h].down = y /\ wire'[h].up = z
      BY <2>1, <2>2 DEF Wire
    <2> QED BY <2>3 DEF w, y, z
  <1>9. info' \in [Clusters -> Info]
    <2>1. info' = [c \in Clusters |-> info'[c]]
      BY <1>1
    <2> QED BY <2>1, <1>5
  <1>10. link' \in [Hosts -> Link]
    <2>1. link' = [h \in Hosts |-> link'[h]]
      BY <1>1
    <2> QED BY <2>1, <1>6
  <1>11. host' \in [Hosts -> Host]
    <2>1. host' = [h \in Hosts |-> host'[h]]
      BY <1>1
    <2> QED BY <2>1, <1>7
  <1>12. wire' \in [Hosts -> Wire]
    <2>1. wire' = [h \in Hosts |-> wire'[h]]
      BY <1>1
    <2> QED BY <2>1, <1>8
  <1> QED BY <1>1, <1>4, <1>5, <1>6, <1>7, <1>8, <1>9, <1>10, <1>11, <1>12

\* A tick adds one to the time since a host was lost, up to two leases; the time of a
\* host whose coordinator is gone does not run yet.
LEMMA TickElapsed ==
    ASSUME Framed, RemoteTick, NEW h \in Hosts
    PROVE  /\ Elapsed(h) \in Nat /\ Elapsed(h)' \in Nat
           /\ \/ Elapsed(h)' = Elapsed(h) + 1
              \/ Elapsed(h)' = Elapsed(h) /\ (Elapsed(h) = 0 \/ Elapsed(h) = 2 * Lease)
           /\ Elapsed(h) <= 2 * Lease
  <1>1. RemoteTypeOK
    BY DEF Framed
  <1>2. /\ guard' = Less(guard) /\ phase' = phase /\ guard \in 0..2 * Lease
        /\ link'[h].dropped = IF link[h].dropped \in 0..2 * Lease - 1
                              THEN link[h].dropped + 1 ELSE link[h].dropped
        /\ link[h].dropped \in -1..2 * Lease /\ Lease \in Nat \ {0}
    BY <1>1, TickFacts, RemoteFacts DEF RemoteTypeOK, Link
  <1> DEFINE d == link[h].dropped
             e == link'[h].dropped
  <1>3. /\ Elapsed(h) = IF phase = "down" THEN 0 ELSE IF phase = "guarding" THEN 2 * Lease - guard
                        ELSE IF d = -1 THEN 2 * Lease ELSE d
        /\ Elapsed(h)' = IF phase = "down" THEN 0
                         ELSE IF phase = "guarding" THEN 2 * Lease - Less(guard)
                         ELSE IF e = -1 THEN 2 * Lease ELSE e
    BY <1>2 DEF Elapsed
  <1>4. e = IF d \in 0..2 * Lease - 1 THEN d + 1 ELSE d
    BY <1>2
  <1>5. d \in -1..2 * Lease
    BY <1>2
  <1> HIDE DEF Elapsed, d, e
  <1>6. CASE phase = "down"
    BY <1>2, <1>3, <1>6
  <1>7. CASE phase = "guarding"
    BY <1>2, <1>3, <1>7 DEF Less
  <1>8. CASE phase \notin {"down", "guarding"}
    <2>1. /\ Elapsed(h) = IF d = -1 THEN 2 * Lease ELSE d
          /\ Elapsed(h)' = IF e = -1 THEN 2 * Lease ELSE e
      BY <1>3, <1>8
    <2> QED BY <1>2, <1>4, <1>5, <2>1
  <1> QED BY <1>6, <1>7, <1>8

\* Time passes.
LEMMA RemoteTickKeeps == ASSUME Framed, RemoteTick PROVE Keeps
  <1>1. /\ RemoteTypeOK /\ Phased /\ Single /\ (\A c \in Clusters : Managed(c))
        /\ \A h \in Hosts : Worded(h) /\ Opened(h) /\ Fading(h)
    BY DEF Framed
  <1>2. /\ guard' = Less(guard) /\ guard' \in 0..2 * Lease
        /\ phase' = phase /\ epoch' = epoch /\ procs' = procs /\ count' = count
        /\ info' \in [Clusters -> Info] /\ link' \in [Hosts -> Link]
        /\ host' \in [Hosts -> Host] /\ wire' \in [Hosts -> Wire]
    BY <1>1, TickFacts
  <1>3. \A c \in Clusters :
            /\ info'[c].state = info[c].state /\ info'[c].place = info[c].place
            /\ info'[c].epoch = info[c].epoch /\ info'[c].child = info[c].child
            /\ info'[c].hold = Less(info[c].hold)
    BY <1>1, TickFacts
  <1>4. \A h \in Hosts :
            /\ link'[h].up = link[h].up
            /\ link'[h].dropped = IF link[h].dropped \in 0..2 * Lease - 1
                                  THEN link[h].dropped + 1 ELSE link[h].dropped
            /\ host'[h].conn = host[h].conn
            /\ host[h].conn = "joined" => host'[h].rx = Silence(h, host[h].rx)
            /\ wire'[h].state = wire[h].state
            /\ wire'[h].down = OlderMessages(wire[h].down)
            /\ wire'[h].up = OlderMessages(wire[h].up)
    BY <1>1, TickFacts
  <1>5. /\ \A p \in procs : p.told # "kill"
        /\ \A h \in Hosts : ~Silent(h) /\ \A i \in DOMAIN wire[h].down : ~wire[h].down[i].old
    BY DEF RemoteTick, Overdue
  <1>6. \A h \in Hosts :
            /\ wire[h].down \in Seq(Message) /\ wire[h].up \in Seq(Message)
            /\ wire'[h].down \in Seq(Message)
            /\ DOMAIN wire'[h].down = DOMAIN wire[h].down
            /\ DOMAIN wire'[h].up = DOMAIN wire[h].up
            /\ wire'[h].down = <<>> <=> wire[h].down = <<>>
            /\ \A i \in DOMAIN wire[h].down :
                   /\ wire'[h].down[i].t = wire[h].down[i].t
                   /\ wire'[h].down[i].cluster = wire[h].down[i].cluster
                   /\ wire'[h].down[i].epoch = wire[h].down[i].epoch /\ wire'[h].down[i].old
            /\ \A i \in DOMAIN wire[h].up :
                   /\ wire'[h].up[i].t = wire[h].up[i].t
                   /\ wire'[h].up[i].cluster = wire[h].up[i].cluster
                   /\ wire'[h].up[i].epoch = wire[h].up[i].epoch
    <2> TAKE h \in Hosts
    <2>1. wire[h].down \in Seq(Message) /\ wire[h].up \in Seq(Message)
      BY <1>1 DEF RemoteTypeOK, Wire
    <2>2. wire'[h].down = OlderMessages(wire[h].down) /\ wire'[h].up = OlderMessages(wire[h].up)
      BY <1>4
    <2> QED BY <2>1, <2>2, OlderFacts
  <1>7. RemoteTypeOK'
    BY <1>1, <1>2 DEF RemoteTypeOK
  <1>8. Phased' /\ Single'
    BY <1>1, <1>2, <1>4, RemoteFacts DEF Phased, Single
  <1>9. ASSUME NEW c \in Clusters PROVE Managed(c)'
    <2>1. info[c].state = "fencing" =>
              /\ ~link'[info[c].place].up /\ link'[info[c].place].dropped \in 0..2 * Lease
              /\ info'[c].hold = 2 * Lease - link'[info[c].place].dropped
      <3> HAVE info[c].state = "fencing"
      <3> DEFINE k == info[c].place
                 d == link[k].dropped
      <3>1. k \in Hosts /\ ~link[k].up /\ d \in 0..2 * Lease /\ info[c].hold = 2 * Lease - d
        BY <1>1 DEF Managed
      <3>2. /\ ~link'[k].up /\ info'[c].hold = Less(2 * Lease - d)
            /\ link'[k].dropped = IF d \in 0..2 * Lease - 1 THEN d + 1 ELSE d
        BY <1>3, <1>4, <3>1
      <3> HIDE DEF k, d
      <3>3. link'[k].dropped \in 0..2 * Lease /\ info'[c].hold = 2 * Lease - link'[k].dropped
        BY <3>1, <3>2, RemoteFacts DEF Less
      <3> QED BY <3>2, <3>3 DEF k
    <2> QED BY <2>1, <1>1, <1>2, <1>3 DEF Managed
  <1>10. ASSUME NEW h \in Hosts PROVE Worded(h)' /\ Opened(h)' /\ Fading(h)'
    <2>1. Worded(h)'
      <3>1. \A i \in DOMAIN wire'[h].down : wire'[h].down[i].t = "spawn" =>
                wire'[h].down[i].cluster \in Clusters /\ wire'[h].down[i].epoch # 0
        <4> TAKE i \in DOMAIN wire'[h].down
        <4>1. /\ i \in DOMAIN wire[h].down /\ wire'[h].down[i].t = wire[h].down[i].t
              /\ wire'[h].down[i].cluster = wire[h].down[i].cluster
              /\ wire'[h].down[i].epoch = wire[h].down[i].epoch
          BY <1>6
        <4> QED BY <4>1, <1>1 DEF Worded
      <3>2. \A i \in DOMAIN wire'[h].up : wire'[h].up[i].t = "exit" /\ wire'[h].up[i].cluster \in Clusters
        <4> TAKE i \in DOMAIN wire'[h].up
        <4>1. /\ i \in DOMAIN wire[h].up /\ wire'[h].up[i].t = wire[h].up[i].t
              /\ wire'[h].up[i].cluster = wire[h].up[i].cluster
          BY <1>6
        <4> QED BY <4>1, <1>1 DEF Worded
      <3> QED BY <3>1, <3>2 DEF Worded
    <2>2. Opened(h)'
      <3>1. wire[h].down # <<>> => 1 \in DOMAIN wire[h].down
        BY <1>6, Rested
      <3> QED BY <3>1, <1>1, <1>2, <1>4, <1>6 DEF Opened
    <2>3. Fading(h)'
      <3> SUFFICES ASSUME ~link[h].up PROVE Fading(h)'
        BY <1>4 DEF Fading
      <3>1. /\ Elapsed(h) \in Nat /\ Elapsed(h)' \in Nat
            /\ \/ Elapsed(h)' = Elapsed(h) + 1
               \/ Elapsed(h)' = Elapsed(h) /\ (Elapsed(h) = 0 \/ Elapsed(h) = 2 * Lease)
            /\ Elapsed(h) <= 2 * Lease
        BY TickElapsed
      <3>2. /\ \A i \in DOMAIN wire[h].down :
                   Elapsed(h) <= 1 /\ (wire[h].down[i].old \/ Elapsed(h) = 0)
            /\ host[h].conn = "joined" => host[h].rx + 1 >= Elapsed(h)
            /\ \A p \in procs : p.host = h => Elapsed(h) <= Lease + 2
        BY <1>1 DEF Fading
      <3> HIDE DEF Elapsed
      <3>3. \A i \in DOMAIN wire'[h].down :
                Elapsed(h)' <= 1 /\ (wire'[h].down[i].old \/ Elapsed(h)' = 0)
        <4> TAKE i \in DOMAIN wire'[h].down
        <4>1. i \in DOMAIN wire[h].down /\ ~wire[h].down[i].old /\ wire'[h].down[i].old
          BY <1>5, <1>6
        <4>2. Elapsed(h) = 0
          BY <4>1, <3>2
        <4>3. Elapsed(h)' <= 1
          BY <4>2, <3>1
        <4> QED BY <4>1, <4>3
      <3>4. host[h].conn = "joined" => host'[h].rx = host[h].rx + 1 /\ host[h].rx \in Nat
        <4>1. wire[h].state # "good"
          BY <1>1 DEF Opened
        <4>2. host[h].rx \in Nat
          BY <1>1, RemoteFacts DEF RemoteTypeOK, Host
        <4> QED BY <4>1, <4>2, <1>4 DEF Silence
      <3>5. host'[h].conn = "joined" => host'[h].rx + 1 >= Elapsed(h)'
        <4> HAVE host'[h].conn = "joined"
        <4>1. host[h].conn = "joined"
          BY <1>4
        <4> QED BY <4>1, <3>1, <3>2, <3>4
      <3>6. \A p \in procs : p.host = h => Elapsed(h)' <= Lease + 2
        <4> SUFFICES ASSUME NEW p \in procs, p.host = h PROVE Elapsed(h)' <= Lease + 2
          OBVIOUS
        <4>1. host[h].conn = "joined"
          BY <1>1, <1>5 DEF Opened
        <4>2. ~(host[h].rx > Lease)
          BY <1>5, <4>1 DEF Silent
        <4>3. host[h].rx + 1 >= Elapsed(h) /\ host[h].rx \in Nat /\ Elapsed(h) <= Lease + 2
          BY <4>1, <3>2, <3>4
        <4> QED BY <4>2, <4>3, <3>1, RemoteFacts
      <3> QED BY <3>3, <3>5, <3>6, <1>2 DEF Fading
    <2> QED BY <2>1, <2>2, <2>3
  <1>11. Framed'
    BY <1>7, <1>8, <1>9, <1>10 DEF Framed
  <1>12. ASSUME NEW h \in Hosts, Known(h) PROVE Known(h)'
    <2>1. \A i \in DOMAIN wire[h].down : i + 0 = i
      BY <1>6
    <2>2. \A c \in Clusters : \A e : Current(info, c, h, e) => Current(info', c, h, e)
      BY <1>3 DEF Current
    <2>3. epoch' \in Nat /\ epoch' >= epoch
      BY <1>1, <1>2, RemoteFacts DEF RemoteTypeOK
    <2>4. LessKnown(h, 0, {})
      <3> HIDE DEF Current
      <3> QED BY <1>2, <1>4, <1>6, <2>1, <2>2, <2>3 DEF LessKnown
    <2> QED BY <1>1, <1>12, <2>4, KnownKept
  <1>13. AllKnown => AllKnown'
    BY <1>12 DEF AllKnown
  <1>14. \A h \in Hosts, c \in Clusters : Claims(h, c)' => Claims(h, c)
    <2> TAKE h \in Hosts, c \in Clusters
    <2>1. Spawning(h, c)' => Spawning(h, c)
      <3> HAVE Spawning(h, c)'
      <3>1. PICK i \in DOMAIN wire'[h].down :
                wire'[h].down[i].t = "spawn" /\ wire'[h].down[i].cluster = c
        BY DEF Spawning
      <3>2. /\ i \in DOMAIN wire[h].down /\ wire'[h].down[i].t = wire[h].down[i].t
            /\ wire'[h].down[i].cluster = wire[h].down[i].cluster
        BY <1>6
      <3> QED BY <3>1, <3>2 DEF Spawning
    <2> QED BY <2>1, <1>2 DEF Claims, RunsHere
  <1>15. AllPlaced => AllPlaced'
    BY <1>2, <1>3, <1>14, PlacedKept
  <1> QED BY <1>11, <1>13, <1>15 DEF Keeps

\* The coordinator hears of the exit of a process: it is the one that the manager
\* knows of, or an older one.
LEMMA CoordinatorReceivesKeeps == ASSUME Framed, NEW h \in Hosts, CoordinatorReceives(h) PROVE Keeps
  <1> DEFINE q == wire[h].up
             m == Head(q)
             z == Tail(q)
             v == [wire[h] EXCEPT !.up = z]
             l == [link[h] EXCEPT !.seen = 0]
             s == [Now EXCEPT !.wire[h].up = z, !.link[h].seen = 0]
             L == IF IsCurrent(h, m) THEN {m.cluster} ELSE {}
  <1>1. /\ RemoteTypeOK /\ Phased /\ Single /\ wire \in [Hosts -> Wire] /\ link \in [Hosts -> Link]
        /\ info \in [Clusters -> Info] /\ (\A c \in Clusters : Managed(c))
        /\ \A k \in Hosts : Worded(k) /\ Opened(k) /\ Fading(k)
    BY DEF Framed, RemoteTypeOK
  <1>2. Now \in Manager /\ Now.epoch = epoch /\ Now.info = info /\ Now.link = link /\ Now.wire = wire
    BY <1>1, NowFacts
  <1>3. /\ link[h].up /\ q # <<>> /\ UNCHANGED <<phase, guard, host, procs, count>>
        /\ Becomes(IF IsCurrent(h, m) THEN OnExit(s, {m.cluster}) ELSE s)
    BY <1>2 DEF CoordinatorReceives
  <1>4. q \in Seq(Message) /\ wire[h] \in Wire /\ link[h] \in Link
    BY <1>1 DEF Wire
  <1>5. /\ z \in Seq(Message) /\ m \in Message /\ m = q[1] /\ 1 \in DOMAIN q
        /\ \A i \in DOMAIN z : i + 1 \in DOMAIN q /\ z[i] = q[i + 1]
    BY <1>3, <1>4, Rested
  <1> HIDE DEF m, z
  <1>6. m.cluster \in Clusters
    BY <1>1, <1>5 DEF Worded
  <1>7. /\ v \in Wire /\ v.up = z /\ v.state = wire[h].state /\ v.down = wire[h].down
        /\ l \in Link /\ l.up = link[h].up /\ l.dropped = link[h].dropped
    <2>1. v \in Wire /\ v.up = z /\ v.state = wire[h].state /\ v.down = wire[h].down
      BY <1>4, <1>5 DEF Wire
    <2>2. l \in Link /\ l.up = link[h].up /\ l.dropped = link[h].dropped
      BY <1>4, RemoteFacts DEF Link
    <2> QED BY <2>1, <2>2
  <1>8. s = [Now EXCEPT !.wire = [wire EXCEPT ![h] = v], !.link = [link EXCEPT ![h] = l]]
    BY <1>2 DEF Manager
  <1> HIDE DEF s, v, l
  <1>9. /\ s \in Manager /\ s.epoch = epoch /\ s.info = info
        /\ s.wire = [wire EXCEPT ![h] = v] /\ s.link = [link EXCEPT ![h] = l]
    <2>1. [wire EXCEPT ![h] = v] \in [Hosts -> Wire] /\ [link EXCEPT ![h] = l] \in [Hosts -> Link]
      BY <1>1, <1>7
    <2> QED BY <2>1, <1>2, <1>8 DEF Manager
  <1>10. /\ epoch' = epoch /\ wire' = s.wire /\ link' = s.link /\ info' \in [Clusters -> Info]
         /\ \A c \in Clusters \ L : info'[c] = info[c]
         /\ \A c \in L :
             /\ ~info'[c].child /\ info'[c].place = info[c].place /\ info'[c].epoch = info[c].epoch
             /\ IF info[c].state \in {"stopping", "killing"} THEN info'[c].state = info[c].state
                ELSE info'[c].state \in {"restarting", "failed"}
    <2>1. CASE IsCurrent(h, m)
      <3> DEFINE t == OnExit(s, {m.cluster})
      <3>1. {m.cluster} \in SUBSET Clusters /\ L = {m.cluster}
        BY <2>1, <1>6
      <3>2. /\ t \in Manager /\ t.epoch = s.epoch /\ t.link = s.link /\ t.wire = s.wire
            /\ \A c \in Clusters \ L : t.info[c] = s.info[c]
            /\ \A c \in L :
                /\ ~t.info[c].child /\ t.info[c].place = s.info[c].place
                /\ t.info[c].epoch = s.info[c].epoch
                /\ IF s.info[c].state \in {"stopping", "killing"}
                   THEN t.info[c].state = s.info[c].state
                   ELSE t.info[c].state \in {"restarting", "failed"}
        BY <1>9, <3>1, Exited
      <3>3. Becomes(t)
        BY <1>3, <2>1
      <3> HIDE DEF t, L
      <3>4. epoch' = t.epoch /\ info' = t.info /\ link' = t.link /\ wire' = t.wire
        BY <3>3 DEF Becomes
      <3> QED BY <1>9, <3>2, <3>4 DEF Manager
    <2>2. CASE ~IsCurrent(h, m)
      <3>1. Becomes(s) /\ L = {}
        BY <1>3, <2>2
      <3> QED BY <3>1, <1>1, <1>9 DEF Becomes
    <2> QED BY <2>1, <2>2
  <1>11. \A c \in L : /\ c = m.cluster /\ c \in Clusters /\ info[c].child
                      /\ info[c].place = h /\ info[c].epoch = m.epoch
    BY <1>6 DEF IsCurrent
  <1>12. L \in SUBSET Clusters
    BY <1>11
  <1> HIDE DEF L
  <1>13. /\ wire' \in [Hosts -> Wire] /\ wire'[h] = v /\ link' \in [Hosts -> Link] /\ link'[h] = l
         /\ \A k \in Hosts \ {h} : wire'[k] = wire[k] /\ link'[k] = link[k]
    BY <1>1, <1>7, <1>9, <1>10
  <1>14. RemoteTypeOK'
    BY <1>1, <1>3, <1>10, <1>13 DEF RemoteTypeOK
  <1>15. \A k \in Hosts : link'[k].up = link[k].up /\ link'[k].dropped = link[k].dropped
    BY <1>7, <1>13
  <1>16. \A k \in Hosts : Elapsed(k)' = Elapsed(k)
    BY <1>3, <1>15 DEF Elapsed
  <1>17. \A c \in Clusters : Managed(c)'
    <2> TAKE c \in Clusters
    <2>1. CASE c \notin L
      BY <2>1, <1>1, <1>3, <1>10, <1>15 DEF Managed
    <2>2. CASE c \in L
      BY <2>2, <1>1, <1>3, <1>10, <1>11 DEF Managed
    <2> QED BY <2>1, <2>2
  <1>18. epoch' \in Nat /\ epoch' >= epoch
    BY <1>1, <1>10, RemoteFacts DEF RemoteTypeOK
  <1>19. Worded(h)' /\ Opened(h)' /\ Fading(h)'
    <2>1. \A i \in DOMAIN z : z[i].t = "exit" /\ z[i].cluster \in Clusters
      BY <1>1, <1>5 DEF Worded
    <2>2. Kept(h)
      BY <2>1, <1>3, <1>7, <1>13, <1>15, <1>16 DEF Kept
    <2> QED BY <1>1, <2>2, KeptHolds
  <1>20. ASSUME Known(h) PROVE Known(h)'
    <2> SUFFICES ASSUME wire[h].state = "good" PROVE Known(h)'
      BY <1>7, <1>13 DEF Known
    <2>1. \A p \in procs : p.host = h /\ p.reply => p.cluster \notin L
      BY <1>5, <1>11, <1>20 DEF Known, Current
    <2>2. \A i \in DOMAIN wire[h].down : wire[h].down[i].t = "spawn" => wire[h].down[i].cluster \notin L
      <3> SUFFICES ASSUME NEW i \in DOMAIN wire[h].down, wire[h].down[i].t = "spawn",
                          wire[h].down[i].cluster \in L
                   PROVE  FALSE
        OBVIOUS
      <3>1. /\ Current(info, wire[h].down[i].cluster, h, wire[h].down[i].epoch)
            /\ \A j \in DOMAIN wire[h].up : wire[h].up[j].cluster = wire[h].down[i].cluster =>
                   wire[h].up[j].epoch # wire[h].down[i].epoch
        BY <1>20 DEF Known
      <3>2. m.cluster = wire[h].down[i].cluster /\ m.epoch = wire[h].down[i].epoch
        BY <3>1, <1>11 DEF Current
      <3> QED BY <3>1, <3>2, <1>5
    <2>3. wire[h].down \in Seq(Message)
      BY <1>4 DEF Wire
    <2>4. \A i \in DOMAIN wire[h].down : i + 0 = i
      BY <2>3
    <2>5. \A c \in Clusters \ L : \A e : Current(info, c, h, e) => Current(info', c, h, e)
      BY <1>10 DEF Current
    <2>6. \A i \in DOMAIN z : \E j \in DOMAIN q : q[j].cluster = z[i].cluster /\ q[j].epoch = z[i].epoch
      BY <1>5
    <2>7. LessKnown(h, 0, L)
      <3> HIDE DEF Current
      <3> QED BY <1>3, <1>7, <1>12, <1>13, <1>18, <2>1, <2>2, <2>3, <2>4, <2>5, <2>6 DEF LessKnown
    <2> QED BY <1>1, <1>20, <2>7, KnownKept
  <1>21. \A k \in Hosts \ {h} :
             /\ Worded(k)' /\ Opened(k)' /\ Fading(k)' /\ (Known(k) => Known(k)')
             /\ \A c \in Clusters : Claims(k, c)' => Claims(k, c)
    <2> TAKE k \in Hosts \ {h}
    <2>1. \A c \in L : ~Current(info, c, k, info[c].epoch)
      BY <1>11 DEF Current
    <2> QED BY <1>3, <1>10, <1>12, <1>13, <1>16, <1>18, <2>1, LeftAlone
  <1>22. \A c \in Clusters : Claims(h, c)' => Claims(h, c)
    BY <1>3, <1>7, <1>13 DEF Claims, RunsHere, Spawning
  <1>23. Framed'
    <2>1. Phased' /\ Single'
      BY <1>1, <1>3, <1>15 DEF Phased, Single
    <2> QED BY <2>1, <1>14, <1>17, <1>19, <1>21 DEF Framed
  <1>24. AllKnown => AllKnown'
    BY <1>20, <1>21 DEF AllKnown
  <1>25. AllPlaced => AllPlaced'
    <2> HAVE AllPlaced
    <2>1. \A k \in Hosts, c \in Clusters : Claims(k, c)' => Claims(k, c)
      BY <1>21, <1>22
    <2>2. \A c \in Clusters : info'[c].place = info[c].place
      BY <1>10
    <2> QED BY <2>1, <2>2, <1>3, PlacedKept
  <1> QED BY <1>23, <1>24, <1>25 DEF Keeps

\* The coordinator drops a host: its clock starts.
LEMMA ClosesKeeps == ASSUME Framed, NEW h \in Hosts, Closes(h) PROVE Keeps
  <1> DEFINE L == {c \in Clusters : info[c].child /\ info[c].place = h}
             w == wire[h]
             v == CASE w.state = "good" -> [state |-> "closing", up |-> <<>>,
                                            down |-> Append(w.down, Plain("ping"))]
                    [] w.state = "left" -> NewWire
                    [] OTHER -> [w EXCEPT !.up = <<>>]
             l == [up |-> FALSE, seen |-> 0, dropped |-> 0]
             s == [Now EXCEPT !.link[h] = l, !.wire[h] = v]
             t == OnExit(s, L)
  <1>1. /\ RemoteTypeOK /\ Phased /\ Single /\ wire \in [Hosts -> Wire] /\ link \in [Hosts -> Link]
        /\ info \in [Clusters -> Info] /\ host \in [Hosts -> Host]
        /\ (\A c \in Clusters : Managed(c))
        /\ \A k \in Hosts : Worded(k) /\ Opened(k) /\ Fading(k)
    BY DEF Framed, RemoteTypeOK
  <1>2. Now \in Manager /\ Now.epoch = epoch /\ Now.info = info /\ Now.link = link /\ Now.wire = wire
    BY <1>1, NowFacts
  <1>3. /\ link[h].up /\ w.state \in {"left", "cut"} /\ UNCHANGED <<phase, guard, host, procs, count>>
        /\ Becomes(Drop(Now, h))
    BY DEF Closes
  <1>4. Drop(Now, h) = t
    BY <1>2 DEF Drop
  <1>5. w \in Wire /\ Opened(h) /\ <<>> \in Seq(Message) /\ DOMAIN <<>> = {}
    BY <1>1, Nothing
  <1>6. /\ v \in Wire /\ v.up = <<>> /\ v.state # "good" /\ v.state # "closing"
        /\ v.state \in {"left", "none"} => host[h].conn = "none"
        /\ v.down = <<>> \/ (v.down = w.down /\ v.state = w.state)
        /\ host[h].conn = "opening" => v.down = w.down /\ v.state = w.state
    <2>1. CASE w.state = "left"
      <3>1. v = NewWire
        BY <2>1
      <3> HIDE DEF v
      <3>2. v \in Wire /\ v.up = <<>> /\ v.down = <<>> /\ v.state = "none"
        BY <3>1, <1>5 DEF NewWire, Wire
      <3>3. host[h].conn = "none"
        BY <2>1, <1>5 DEF Opened
      <3> QED BY <3>2, <3>3
    <2>2. CASE w.state = "cut"
      <3>1. v = [w EXCEPT !.up = <<>>]
        BY <2>2
      <3> HIDE DEF v, w
      <3>2. v \in Wire /\ v.up = <<>> /\ v.down = w.down /\ v.state = w.state
        BY <3>1, <1>5 DEF Wire
      <3> QED BY <2>2, <3>2
    <2> QED BY <2>1, <2>2, <1>3
  <1> HIDE DEF v
  <1>7. l \in Link /\ ~l.up /\ l.dropped = 0
    BY RemoteFacts DEF Link
  <1> HIDE DEF l
  <1>8. /\ s \in Manager /\ s.epoch = epoch /\ s.info = info
        /\ s.wire = [wire EXCEPT ![h] = v] /\ s.link = [link EXCEPT ![h] = l]
    <2>1. [wire EXCEPT ![h] = v] \in [Hosts -> Wire] /\ [link EXCEPT ![h] = l] \in [Hosts -> Link]
      BY <1>1, <1>6, <1>7
    <2>2. s = [Now EXCEPT !.link = [link EXCEPT ![h] = l], !.wire = [wire EXCEPT ![h] = v]]
      BY <1>2 DEF Manager
    <2> HIDE DEF s
    <2> QED BY <2>1, <2>2, <1>2 DEF Manager
  <1> HIDE DEF s
  <1>9. L \in SUBSET Clusters
    OBVIOUS
  <1>10. \A c \in L : info[c].child /\ info[c].place = h /\ c \in Clusters
    OBVIOUS
  <1> HIDE DEF L
  <1>11. /\ t \in Manager /\ t.epoch = s.epoch /\ t.link = s.link /\ t.wire = s.wire
         /\ \A c \in Clusters \ L : t.info[c] = s.info[c]
         /\ \A c \in L :
             /\ ~t.info[c].child /\ t.info[c].place = s.info[c].place
             /\ t.info[c].epoch = s.info[c].epoch
             /\ IF s.info[c].state \in {"stopping", "killing"}
                THEN t.info[c].state = s.info[c].state
                ELSE t.info[c].state \in {"restarting", "failed"}
    BY <1>8, <1>9, Exited
  <1>12. epoch' = t.epoch /\ info' = t.info /\ link' = t.link /\ wire' = t.wire
    BY <1>3, <1>4 DEF Becomes
  <1> HIDE DEF t
  <1>13. /\ epoch' = epoch /\ wire' = s.wire /\ link' = s.link /\ info' \in [Clusters -> Info]
         /\ \A c \in Clusters \ L : info'[c] = info[c]
         /\ \A c \in L :
             /\ ~info'[c].child /\ info'[c].place = info[c].place /\ info'[c].epoch = info[c].epoch
             /\ IF info[c].state \in {"stopping", "killing"} THEN info'[c].state = info[c].state
                ELSE info'[c].state \in {"restarting", "failed"}
    BY <1>8, <1>11, <1>12 DEF Manager
  <1>14. /\ wire' \in [Hosts -> Wire] /\ wire'[h] = v /\ link' \in [Hosts -> Link] /\ link'[h] = l
         /\ \A k \in Hosts \ {h} : wire'[k] = wire[k] /\ link'[k] = link[k]
    BY <1>1, <1>6, <1>7, <1>8, <1>13
  <1>15. RemoteTypeOK'
    BY <1>1, <1>3, <1>13, <1>14 DEF RemoteTypeOK
  <1>16. phase \notin {"down", "guarding"}
    BY <1>1, <1>3 DEF Phased
  <1>17. Elapsed(h)' = 0 /\ \A k \in Hosts \ {h} : Elapsed(k)' = Elapsed(k)
    BY <1>3, <1>7, <1>14, <1>16 DEF Elapsed
  <1>18. \A c \in Clusters : Managed(c)'
    <2> TAKE c \in Clusters
    <2>1. CASE c \notin L
      <3>1. info[c].state = "fencing" => info[c].place \in Hosts \ {h}
        BY <1>1, <1>3 DEF Managed
      <3>2. info[c].state = "fencing" => link'[info[c].place] = link[info[c].place]
        BY <3>1, <1>14
      <3> QED BY <2>1, <3>2, <1>1, <1>3, <1>13 DEF Managed
    <2>2. CASE c \in L
      BY <2>2, <1>1, <1>3, <1>10, <1>13 DEF Managed
    <2> QED BY <2>1, <2>2
  <1>19. epoch' \in Nat /\ epoch' >= epoch
    BY <1>1, <1>13, RemoteFacts DEF RemoteTypeOK
  <1>20. Worded(h)' /\ Opened(h)' /\ Fading(h)' /\ Known(h)'
    <2>1. Worded(h)'
      BY <1>1, <1>5, <1>6, <1>14 DEF Worded
    <2>2. Opened(h)'
      BY <1>3, <1>5, <1>6, <1>7, <1>14 DEF Opened
    <2>3. Fading(h)'
      <3>1. host'[h].rx \in Nat
        BY <1>1, <1>3, RemoteFacts DEF Host
      <3> HIDE DEF Elapsed
      <3> QED BY <3>1, <1>17, RemoteFacts DEF Fading
    <2>4. Known(h)'
      BY <1>6, <1>14 DEF Known
    <2> QED BY <2>1, <2>2, <2>3, <2>4
  <1>21. \A k \in Hosts \ {h} :
             /\ Worded(k)' /\ Opened(k)' /\ Fading(k)' /\ (Known(k) => Known(k)')
             /\ \A c \in Clusters : Claims(k, c)' => Claims(k, c)
    <2> TAKE k \in Hosts \ {h}
    <2>1. \A c \in L : ~Current(info, c, k, info[c].epoch)
      BY <1>10 DEF Current
    <2> QED BY <1>3, <1>9, <1>13, <1>14, <1>17, <1>19, <2>1, LeftAlone
  <1>22. \A c \in Clusters : Claims(h, c)' => Claims(h, c)
    BY <1>3, <1>5, <1>6, <1>14 DEF Claims, RunsHere, Spawning
  <1>23. Framed'
    <2>1. Phased' /\ Single'
      BY <1>1, <1>3, <1>16 DEF Phased, Single
    <2> QED BY <2>1, <1>15, <1>18, <1>20, <1>21 DEF Framed
  <1>24. AllKnown => AllKnown'
    BY <1>20, <1>21 DEF AllKnown
  <1>25. AllPlaced => AllPlaced'
    <2> HAVE AllPlaced
    <2>1. \A k \in Hosts, c \in Clusters : Claims(k, c)' => Claims(k, c)
      BY <1>21, <1>22
    <2>2. \A c \in Clusters : info'[c].place = info[c].place
      BY <1>13
    <2> QED BY <2>1, <2>2, <1>3, PlacedKept
  <1> QED BY <1>23, <1>24, <1>25 DEF Keeps

\* Launching clusters that have no process.
LEMMA LaunchKeeps ==
    ASSUME Framed, UNCHANGED <<host, procs, guard, link, count>>,
           {phase, phase'} \subseteq {"joining", "running", "stopping"},
           NEW S \in SUBSET Clusters, epoch' \in 0..MaxEpoch, epoch' >= epoch,
           info' \in [Clusters -> Info], wire' \in [Hosts -> Wire],
           \A h \in Hosts : Longer(wire[h], wire'[h]) /\ Asked(S, h, wire[h]),
           \A c \in S : ~info[c].child,
           \A c \in Clusters \ S : info'[c] = info[c],
           \A c \in Clusters : Managed(c)'
    PROVE  /\ Framed'
           /\ AllKnown => AllKnown'
           /\ \A h \in Hosts, c \in Clusters :
                  Claims(h, c)' => Claims(h, c) \/ (c \in S /\ h = info'[c].place)
  <1>1. /\ RemoteTypeOK /\ Single /\ Phased
        /\ \A h \in Hosts : Worded(h) /\ Opened(h) /\ Fading(h)
    BY DEF Framed
  <1>2. RemoteTypeOK'
    BY <1>1 DEF RemoteTypeOK
  <1>3. \A h \in Hosts : Elapsed(h)' = Elapsed(h)
    BY ElapsedKept
  <1>4. \A h \in Hosts : Worded(h)' /\ Opened(h)' /\ Fading(h)'
    <2> TAKE h \in Hosts
    <2>1. \A i \in DOMAIN wire'[h].down \ DOMAIN wire[h].down :
              /\ ~wire'[h].down[i].old
              /\ wire'[h].down[i].t = "spawn" =>
                     wire'[h].down[i].cluster \in Clusters /\ wire'[h].down[i].epoch # 0
      BY <1>1, AskedSpeaks
    <2> QED BY <1>3, <2>1, Speaks
  <1>5. Framed'
    BY <1>1, <1>2, <1>4 DEF Framed, Single, Phased
  <1>6. epoch' \in Nat
    BY RemoteFacts
  <1>7. \A h \in Hosts : Known(h) => Known(h)'
    BY <1>1, <1>6, KnownLaunched
  <1>8. \A h \in Hosts, c \in Clusters :
            Claims(h, c)' => Claims(h, c) \/ (c \in S /\ h = info'[c].place)
    <2> TAKE h \in Hosts
    <2> DEFINE w == wire[h]
    <2>1. Asked(S, h, w) /\ Longer(w, wire'[h])
      OBVIOUS
    <2>2. \A i \in DOMAIN w.down : w.down[i].t = "spawn" =>
              i \in DOMAIN wire[h].down /\ wire[h].down[i] = w.down[i]
      OBVIOUS
    <2> HIDE DEF w
    <2> QED BY <2>1, <2>2, ClaimsLaunched
  <1> QED BY <1>5, <1>7, <1>8 DEF AllKnown

\* A cluster that was launched is as the manager wants it.
LEMMA LaunchedManaged ==
    ASSUME RemoteTypeOK, NEW c \in Clusters, phase' = "running", epoch' \in Nat, epoch' >= epoch,
           info'[c] \in Info, info'[c].place \in Hosts,
           info'[c].state \in {"live", "restarting", "failed"},
           info'[c].child => info'[c].state = "live",
           NEW e \in Nat, e <= epoch, info'[c].epoch = e \/ info'[c].epoch <= epoch'
    PROVE  Managed(c)'
  <1>1. epoch \in Nat
    BY RemoteFacts DEF RemoteTypeOK
  <1>2. info'[c].epoch <= epoch'
    BY <1>1
  <1> QED BY <1>2 DEF Managed

\* Two leases after a host was lost, it has no process left.
LEMMA FenceWaited ==
    ASSUME Framed, NEW h \in Hosts, phase = "running", ~link[h].up, ~(FenceWait(Now, h) > 0), Lease >= 3
    PROVE  \A c \in Clusters : ~Claims(h, c)
  <1>1. RemoteTypeOK /\ Fading(h)
    BY DEF Framed
  <1>2. FenceWait(Now, h) = IF link[h].dropped = -1 THEN 0 ELSE 2 * Lease - link[h].dropped
    BY <1>1, NowFacts DEF FenceWait
  <1>3. link[h].dropped \in -1..2 * Lease
    BY <1>1 DEF RemoteTypeOK, Link
  <1>4. Elapsed(h) = 2 * Lease
    <2> DEFINE d == link[h].dropped
    <2>1. Elapsed(h) = IF d = -1 THEN 2 * Lease ELSE d
      BY DEF Elapsed
    <2> HIDE DEF Elapsed, d
    <2>2. d = -1 \/ ~(2 * Lease - d > 0)
      BY <1>2 DEF d
    <2> QED BY <2>1, <2>2, <1>3, RemoteFacts DEF d
  <1>5. ~(Elapsed(h) <= 1) /\ ~(Elapsed(h) <= Lease + 2)
    <2> HIDE DEF Elapsed
    <2> QED BY <1>4, RemoteFacts
  <1> HIDE DEF Elapsed
  <1> QED BY <1>1, <1>5 DEF Fading, Claims, RunsHere, Spawning

\* The timer of a restart fires: the cluster is launched where it is, or on another
\* host once nothing of it is left where it was.
LEMMA RestartsKeeps == ASSUME Framed, NEW c \in Clusters, Restarts(c) PROVE Keeps
  <1> DEFINE h == info[c].place
  <1>1. /\ RemoteTypeOK /\ Phased /\ Single /\ info \in [Clusters -> Info]
        /\ (\A d \in Clusters : Managed(d))
        /\ \A k \in Hosts : Worded(k) /\ Opened(k) /\ Fading(k)
        /\ \A k \in Hosts : wire[k].state = "good" => link[k].up
    BY DEF Framed, RemoteTypeOK, Opened
  <1>2. Now \in Manager /\ Now.epoch = epoch /\ Now.info = info /\ Now.link = link /\ Now.wire = wire
    BY <1>1, NowFacts
  <1>3. /\ phase = "running" /\ info[c].state \in {"restarting", "fencing"}
        /\ Becomes(Restart(Now, c)) /\ UNCHANGED <<phase, guard, host, procs, count>>
    BY DEF Restarts
  <1>4. ~info[c].child /\ h \in Hosts /\ info[c].epoch <= epoch /\ info[c] \in Info
    BY <1>1, <1>3 DEF Managed
  <1>5. epoch \in Nat /\ info[c].epoch \in Nat
    BY <1>1, <1>4, RemoteFacts DEF RemoteTypeOK, Info
  <1>6. ASSUME NEW s \in Manager, s.epoch = epoch, s.link = link, s.wire = wire,
               NEW k \in Hosts, s.info[c].place = k, s.info[c].epoch = info[c].epoch,
               \A d \in Clusters \ {c} : s.info[d] = info[d],
               Becomes(Launch(s, {c})),
               Lease >= 3 /\ AllPlaced => \A g \in Hosts : Claims(g, c) => g = k
        PROVE  Keeps
    <2>1. {c} \in SUBSET Clusters
      OBVIOUS
    <2>2. \A g \in Hosts : s.wire[g].state = "good" => s.link[g].up
      BY <1>1, <1>6
    <2>3. /\ Launch(s, {c}) \in Manager /\ link' = s.link /\ epoch' >= epoch
          /\ \A d \in Clusters \ {c} : info'[d] = s.info[d]
          /\ \A d \in {c} : /\ info'[d].place = s.info[d].place
                            /\ info'[d].state \in {"live", "restarting", "failed"}
                            /\ info'[d].child => info'[d].state = "live"
                            /\ info'[d].epoch = s.info[d].epoch \/ info'[d].epoch <= epoch'
          /\ \A g \in Hosts : Longer(s.wire[g], wire'[g]) /\ Asked({c}, g, s.wire[g])
      BY <1>6, <2>1, <2>2, LaunchStep
    <2>4. epoch' \in 0..MaxEpoch /\ info' \in [Clusters -> Info] /\ wire' \in [Hosts -> Wire]
      BY <1>6, <2>3 DEF Becomes, Manager
    <2>5. epoch' \in Nat
      BY <2>4, RemoteFacts
    <2>6. Managed(c)'
      BY <1>1, <1>3, <1>4, <1>5, <1>6, <2>3, <2>4, <2>5, LaunchedManaged
    <2>7. \A d \in Clusters \ {c} : Managed(d)'
      <3> TAKE d \in Clusters \ {c}
      <3>1. info'[d] = info[d] /\ link' = link /\ phase' = phase
        BY <1>3, <1>6, <2>3
      <3>2. info[d].epoch <= epoch'
        <4>1. info[d].epoch \in Nat /\ info[d].epoch <= epoch
          BY <1>1, RemoteFacts DEF Managed, Info
        <4> QED BY <4>1, <1>5, <2>3, <2>5
      <3> QED BY <1>1, <3>1, <3>2 DEF Managed
    <2>8. /\ Framed'
          /\ AllKnown => AllKnown'
          /\ \A g \in Hosts, d \in Clusters :
                 Claims(g, d)' => Claims(g, d) \/ (d \in {c} /\ g = info'[d].place)
      BY <1>3, <1>4, <1>6, <2>1, <2>3, <2>4, <2>6, <2>7, LaunchKeeps
    <2>9. Lease >= 3 /\ AllPlaced => AllPlaced'
      <3> HAVE Lease >= 3 /\ AllPlaced
      <3>1. \A d \in {c} : /\ info'[d].place \in Hosts
                           /\ \A g \in Hosts : Claims(g, d) => g = info'[d].place
        BY <1>6, <2>3
      <3>2. \A d \in Clusters \ {c} : info'[d].place = info[d].place
        BY <1>6, <2>3
      <3> QED BY <1>3, <2>1, <2>8, <3>1, <3>2, PlacedLaunched
    <2> QED BY <2>8, <2>9 DEF Keeps
  <1>7. AllPlaced => \A g \in Hosts : Claims(g, c) => g = h
    BY <1>3 DEF AllPlaced, Placed
  <1>8. CASE Becomes(Launch(Now, {c}))
    <2> DEFINE s == Now
    <2>1. s \in Manager /\ s.epoch = epoch /\ s.info = info /\ s.link = link /\ s.wire = wire
          /\ Becomes(Launch(s, {c}))
      BY <1>2, <1>8
    <2> HIDE DEF s
    <2> QED BY <2>1, <1>4, <1>6, <1>7
  <1>9. CASE /\ ~link[h].up /\ FenceWait(Now, h) > 0
             /\ Becomes([Now EXCEPT !.info[c] = [@ EXCEPT !.state = "fencing",
                                                          !.hold = FenceWait(Now, h)]])
    <2> DEFINE n == FenceWait(Now, h)
               d == link[h].dropped
               i == [info[c] EXCEPT !.state = "fencing", !.hold = n]
               s == [Now EXCEPT !.info[c] = [@ EXCEPT !.state = "fencing", !.hold = n]]
    <2>1. d \in -1..2 * Lease
      BY <1>1, <1>4 DEF RemoteTypeOK, Link
    <2>2. n = IF d = -1 THEN 0 ELSE 2 * Lease - d
      BY <1>2, <1>9 DEF FenceWait
    <2>3. n > 0
      BY <1>9
    <2> HIDE DEF n
    <2>4. d \in 0..2 * Lease /\ n = 2 * Lease - d /\ n \in 0..2 * Lease
      <3> HIDE DEF d
      <3> QED BY <2>1, <2>2, <2>3, RemoteFacts
    <2>5. /\ i \in Info /\ i.state = "fencing" /\ i.hold = n /\ i.child = info[c].child
          /\ i.place = h /\ i.epoch = info[c].epoch
      BY <1>4, <2>4 DEF Info
    <2>6. s = [Now EXCEPT !.info = [info EXCEPT ![c] = i]]
      BY <1>2
    <2> HIDE DEF i
    <2>7. s.epoch = epoch /\ s.info = [info EXCEPT ![c] = i] /\ s.link = link /\ s.wire = wire
      BY <1>2, <2>6 DEF Manager
    <2>8. Becomes(s)
      BY <1>9 DEF n
    <2> HIDE DEF s
    <2>9. /\ epoch' = epoch /\ link' = link /\ wire' = wire /\ info' = [info EXCEPT ![c] = i]
      BY <2>7, <2>8 DEF Becomes
    <2>10. info' \in [Clusters -> Info] /\ info'[c] = i
           /\ \A e \in Clusters \ {c} : info'[e] = info[e]
      BY <1>1, <2>5, <2>9
    <2>11. \A e \in Clusters : Managed(e)'
      <3> TAKE e \in Clusters
      <3>1. CASE e = c
        BY <3>1, <1>3, <1>4, <1>9, <2>4, <2>5, <2>9, <2>10 DEF Managed
      <3>2. CASE e # c
        BY <3>2, <1>1, <1>3, <2>9, <2>10 DEF Managed
      <3> QED BY <3>1, <3>2
    <2>12. \A e \in Clusters : /\ info'[e].child = info[e].child /\ info'[e].place = info[e].place
                               /\ info'[e].epoch = info[e].epoch
      BY <2>5, <2>10
    <2>13. wire' \in [Hosts -> Wire]
           /\ \A g \in Hosts :
               /\ Longer(wire[g], wire'[g])
               /\ \A j \in DOMAIN wire'[g].down \ DOMAIN wire[g].down :
                      ~wire'[g].down[j].old /\ wire'[g].down[j].t # "spawn"
      BY <1>1, <2>9 DEF Longer, RemoteTypeOK
    <2> QED BY <1>1, <1>3, <2>9, <2>10, <2>11, <2>12, <2>13, Tells DEF RemoteTypeOK
  <1>10. CASE /\ ~link[h].up /\ ~(FenceWait(Now, h) > 0) /\ \E k \in Hosts : link[k].up
              /\ Becomes(Launch([Now EXCEPT !.info[c].place = BestPlace(Now)], {c}))
    <2> DEFINE k == BestPlace(Now)
               i == [info[c] EXCEPT !.place = k]
               s == [Now EXCEPT !.info[c].place = k]
    <2>1. k \in Hosts
      BY <1>2, <1>10, BestPlaceFacts
    <2>2. Becomes(Launch(s, {c}))
      BY <1>10
    <2> HIDE DEF k
    <2>3. /\ i \in Info /\ i.place = k /\ i.epoch = info[c].epoch
      BY <1>4, <2>1 DEF Info
    <2>4. s = [Now EXCEPT !.info = [info EXCEPT ![c] = i]]
      BY <1>2
    <2> HIDE DEF i, s
    <2>5. [info EXCEPT ![c] = i] \in [Clusters -> Info]
      BY <1>1, <2>3
    <2>6. /\ s \in Manager /\ s.epoch = epoch /\ s.info = [info EXCEPT ![c] = i]
          /\ s.link = link /\ s.wire = wire
      BY <1>2, <2>4, <2>5 DEF Manager
    <2>7. s.info[c] = i /\ \A d \in Clusters \ {c} : s.info[d] = info[d]
      BY <1>1, <2>6
    <2>8. Lease >= 3 => \A e \in Clusters : ~Claims(h, e)
      BY <1>3, <1>4, <1>10, FenceWaited
    <2>9. Lease >= 3 /\ AllPlaced => \A g \in Hosts : Claims(g, c) => g = k
      BY <1>7, <2>8
    <2> QED BY <1>6, <2>1, <2>2, <2>3, <2>6, <2>7, <2>9
  <1> QED BY <1>2, <1>3, <1>8, <1>9, <1>10 DEF Restart


\* A host joins: what waited for it to fence starts there.
LEMMA JoinsKeeps == ASSUME Framed, NEW h \in Hosts, Joins(h) PROVE Keeps
  <1> DEFINE S == {c \in Clusters : info[c].state = "fencing" /\ info[c].place = h}
             L0 == [up |-> TRUE, seen |-> 0, dropped |-> -1]
             W0 == [state |-> "good", up |-> <<>>, down |-> <<Plain("welcome")>>]
             s == [Now EXCEPT !.link[h] = L0, !.wire[h] = W0]
             H0 == [conn |-> "opening", rx |-> 0]
  <1>1. /\ RemoteTypeOK /\ Phased /\ Single /\ info \in [Clusters -> Info]
        /\ link \in [Hosts -> Link] /\ wire \in [Hosts -> Wire] /\ host \in [Hosts -> Host]
        /\ (\A d \in Clusters : Managed(d))
        /\ \A k \in Hosts : Worded(k) /\ Opened(k) /\ Fading(k)
        /\ \A k \in Hosts : wire[k].state = "good" => link[k].up
    BY DEF Framed, RemoteTypeOK, Opened
  <1>2. Now \in Manager /\ Now.epoch = epoch /\ Now.info = info /\ Now.link = link /\ Now.wire = wire
    BY <1>1, NowFacts
  <1>3. /\ phase \in {"joining", "running", "stopping"} /\ host[h].conn = "none" /\ ~link[h].up
        /\ host' = [host EXCEPT ![h] = H0]
        /\ Becomes(Launch(s, S)) /\ UNCHANGED <<phase, guard, procs, count>>
    BY DEF Joins, Listening
  <1>4. Plain("welcome") \in Message /\ Plain("welcome").t = "welcome"
    BY PlainFacts
  <1>5. /\ W0 \in Wire /\ W0.state = "good" /\ W0.up = <<>> /\ W0.down # <<>>
        /\ DOMAIN W0.up = {} /\ DOMAIN W0.down = {1} /\ W0.down[1].t = "welcome"
    BY <1>4 DEF Wire
  <1>6. L0 \in Link /\ L0.up /\ H0 \in Host /\ H0.conn = "opening"
    BY RemoteFacts DEF Link, Host
  <1>7. s = [Now EXCEPT !.link = [link EXCEPT ![h] = L0], !.wire = [wire EXCEPT ![h] = W0]]
    BY <1>2
  <1>8. S \in SUBSET Clusters
    OBVIOUS
  <1> HIDE DEF L0, W0, H0, s
  <1>9. [link EXCEPT ![h] = L0] \in [Hosts -> Link] /\ [wire EXCEPT ![h] = W0] \in [Hosts -> Wire]
    BY <1>1, <1>5, <1>6
  <1>10. /\ s \in Manager /\ s.epoch = epoch /\ s.info = info
         /\ s.link = [link EXCEPT ![h] = L0] /\ s.wire = [wire EXCEPT ![h] = W0]
    BY <1>2, <1>7, <1>9 DEF Manager
  <1>11. /\ s.link[h] = L0 /\ s.wire[h] = W0
         /\ \A k \in Hosts \ {h} : s.link[k] = link[k] /\ s.wire[k] = wire[k]
    BY <1>1, <1>10
  <1>12. \A c \in S : c \in Clusters /\ info[c].state = "fencing" /\ info[c].place = h
                      /\ ~info[c].child /\ phase = "running" /\ info[c].epoch <= epoch
    BY <1>1 DEF Managed
  <1>13. \A c \in Clusters \ S : info[c].state = "fencing" => info[c].place # h
    OBVIOUS
  <1> HIDE DEF S
  <1>14. \A k \in Hosts : s.wire[k].state = "good" => s.link[k].up
    BY <1>1, <1>6, <1>11
  <1>15. /\ Launch(s, S) \in Manager /\ link' = s.link /\ epoch' >= epoch
         /\ \A c \in Clusters \ S : info'[c] = info[c]
         /\ \A c \in S : /\ info'[c].place = h
                         /\ info'[c].state \in {"live", "restarting", "failed"}
                         /\ info'[c].child => info'[c].state = "live"
                         /\ info'[c].epoch = info[c].epoch \/ info'[c].epoch <= epoch'
    <2>1. /\ Launch(s, S) \in Manager /\ link' = s.link /\ epoch' >= epoch
          /\ \A c \in Clusters \ S : info'[c] = s.info[c]
          /\ \A c \in S : /\ info'[c].place = s.info[c].place
                          /\ info'[c].state \in {"live", "restarting", "failed"}
                          /\ info'[c].child => info'[c].state = "live"
                          /\ info'[c].epoch = s.info[c].epoch \/ info'[c].epoch <= epoch'
      BY <1>3, <1>8, <1>10, <1>14, LaunchStep
    <2> QED BY <2>1, <1>10, <1>12
  <1>16. /\ Longer(W0, wire'[h]) /\ Asked(S, h, W0)
         /\ \A k \in Hosts \ {h} : wire'[k] = wire[k]
    <2>1. \A k \in Hosts : Longer(s.wire[k], wire'[k]) /\ Asked(S, k, s.wire[k])
      BY <1>3, <1>8, <1>10, <1>14, LaunchStep
    <2>2. \A k \in Hosts : (\A c \in S : s.info[c].place # k) => wire'[k] = s.wire[k]
      BY <1>3, <1>8, <1>10, <1>14, LaunchStep
    <2>3. \A k \in Hosts \ {h} : \A c \in S : s.info[c].place # k
      BY <1>10, <1>12
    <2> QED BY <2>1, <2>2, <2>3, <1>11
  <1>17. /\ link' = [link EXCEPT ![h] = L0] /\ epoch' \in 0..MaxEpoch /\ epoch' \in Nat
         /\ info' \in [Clusters -> Info] /\ wire' \in [Hosts -> Wire]
    BY <1>3, <1>10, <1>15, RemoteFacts DEF Becomes, Manager
  <1>18. RemoteTypeOK' /\ Phased' /\ Single'
    <2>1. link' \in [Hosts -> Link] /\ host' \in [Hosts -> Host]
      BY <1>1, <1>3, <1>6, <1>9, <1>17
    <2>2. RemoteTypeOK'
      BY <1>1, <1>3, <1>17, <2>1 DEF RemoteTypeOK
    <2> QED BY <1>1, <1>3, <2>2 DEF Phased, Single
  <1>19. \A c \in Clusters : Managed(c)'
    <2> TAKE c \in Clusters
    <2>1. epoch \in Nat /\ info[c] \in Info /\ info[c].epoch \in Nat /\ info[c].epoch <= epoch
      BY <1>1, RemoteFacts DEF RemoteTypeOK, Info, Managed
    <2>2. CASE c \in S
      <3>1. phase' = "running" /\ info'[c] \in Info /\ info'[c].place \in Hosts
        BY <2>2, <1>3, <1>12, <1>15, <1>17
      <3> QED BY <2>1, <2>2, <3>1, <1>1, <1>15, <1>17, LaunchedManaged
    <2>3. CASE c \notin S
      <3>1. info'[c] = info[c] /\ phase' = phase
        BY <2>3, <1>3, <1>15
      <3>2. info[c].epoch <= epoch'
        BY <2>1, <1>15, <1>17
      <3>3. info[c].state = "fencing" => info[c].place \in Hosts /\ link'[info[c].place] = link[info[c].place]
        BY <2>3, <1>1, <1>13, <1>17 DEF Managed
      <3> QED BY <1>1, <3>1, <3>2, <3>3 DEF Managed
    <2> QED BY <2>2, <2>3
  <1>20. \A k \in Hosts \ {h} :
             /\ Worded(k)' /\ Opened(k)' /\ Fading(k)'
             /\ Known(k) => Known(k)'
             /\ \A c \in Clusters : Claims(k, c)' => Claims(k, c)
    <2> TAKE k \in Hosts \ {h}
    <2>1. host'[k] = host[k] /\ link'[k] = link[k] /\ wire'[k] = wire[k] /\ procs' = procs
      BY <1>1, <1>3, <1>16, <1>17
    <2>2. Elapsed(k)' = Elapsed(k)
      BY <2>1, <1>3, ElapsedKept
    <2>3. \A c \in S : ~Current(info, c, k, info[c].epoch)
      BY <1>12 DEF Current
    <2>4. \A c \in Clusters \ S : info'[c].child = info[c].child
              /\ info'[c].place = info[c].place /\ info'[c].epoch = info[c].epoch
      BY <1>15
    <2> HIDE DEF Elapsed, Current
    <2> QED BY <2>1, <2>2, <2>3, <2>4, <1>8, <1>15, <1>17, LeftAlone
  <1>21. /\ host'[h].conn = "opening" /\ link'[h].up /\ wire'[h].state = "good"
         /\ wire'[h].up = <<>> /\ DOMAIN wire'[h].up = {}
         /\ \A p \in procs : p.host = h => p.told = "kill" /\ ~p.reply
    <2>1. host'[h] = H0 /\ link'[h] = L0
      BY <1>1, <1>3, <1>17
    <2> QED BY <2>1, <1>1, <1>3, <1>5, <1>6, <1>16 DEF Longer, Opened
  <1>22. /\ 1 \in DOMAIN wire'[h].down /\ wire'[h].down[1].t = "welcome" /\ wire'[h].down # <<>>
         /\ \A i \in DOMAIN wire'[h].down : wire'[h].down[i].t = "spawn" => i \notin DOMAIN W0.down
    BY <1>5, <1>16 DEF Longer
  <1>23. \A i \in DOMAIN wire'[h].down \ DOMAIN W0.down :
             wire'[h].down[i].t = "spawn" =>
                 wire'[h].down[i].cluster \in Clusters /\ wire'[h].down[i].epoch # 0
    BY <1>1, <1>8, <1>16, <1>17, AskedSpeaks
  <1>24. Worded(h)' /\ Opened(h)' /\ Fading(h)'
    <2>1. Worded(h)'
      BY <1>21, <1>22, <1>23 DEF Worded
    <2>2. Opened(h)'
      BY <1>3, <1>21, <1>22 DEF Opened
    <2>3. Fading(h)'
      BY <1>21 DEF Fading
    <2> QED BY <2>1, <2>2, <2>3
  <1>25. Known(h)'
    <2>1. \A i \in DOMAIN wire'[h].down : wire'[h].down[i].t = "spawn" =>
              /\ Current(info', wire'[h].down[i].cluster, h, wire'[h].down[i].epoch)
              /\ \A j \in DOMAIN wire'[h].down :
                     wire'[h].down[j].t = "spawn"
                         /\ wire'[h].down[j].cluster = wire'[h].down[i].cluster => j = i
      BY <1>16, <1>22 DEF Asked
    <2> HIDE DEF Current
    <2> QED BY <2>1, <1>3, <1>21 DEF Known
  <1>26. \A c \in Clusters : Claims(h, c)' => Claims(h, c) \/ (c \in S /\ h = info'[c].place)
    <2>1. \A i \in DOMAIN W0.down : W0.down[i].t = "spawn" =>
              i \in DOMAIN wire[h].down /\ wire[h].down[i] = W0.down[i]
      BY <1>5
    <2> QED BY <2>1, <1>3, <1>8, <1>16, ClaimsLaunched
  <1>27. Framed'
    BY <1>18, <1>19, <1>20, <1>24 DEF Framed
  <1>28. AllKnown => AllKnown'
    BY <1>20, <1>25 DEF AllKnown
  <1>29. AllPlaced => AllPlaced'
    <2> HAVE AllPlaced
    <2>1. \A k \in Hosts, c \in Clusters :
              Claims(k, c)' => Claims(k, c) \/ (c \in S /\ k = info'[c].place)
      BY <1>20, <1>26
    <2>2. \A c \in S : /\ info'[c].place \in Hosts
                       /\ \A k \in Hosts : Claims(k, c) => k = info'[c].place
      BY <1>12, <1>15 DEF AllPlaced, Placed
    <2>3. \A c \in Clusters \ S : info'[c].place = info[c].place
      BY <1>15
    <2>4. phase' = phase /\ (S # {} => phase = "running")
      BY <1>3, <1>12
    <2> QED BY <2>1, <2>2, <2>3, <2>4, <1>8, PlacedLaunched
  <1> QED BY <1>27, <1>28, <1>29 DEF Keeps

\* A fleet is placed, once nothing of the last one is left.
LEMMA PlacesKeeps == ASSUME Framed, Places PROVE Keeps
  <1> DEFINE places == Ascending(Connected)
             base == [state |-> "none", place |-> Nowhere, epoch |-> 0, child |-> FALSE, hold |-> 0]
             I == [c \in Clusters |-> [NewInfo[c] EXCEPT !.place = places[1 + (c % Len(places))]]]
             s == [Now EXCEPT !.info = I]
  <1>1. /\ RemoteTypeOK /\ Phased /\ Single /\ info \in [Clusters -> Info]
        /\ (\A d \in Clusters : Managed(d))
        /\ \A k \in Hosts : wire[k].state = "good" => link[k].up
    BY DEF Framed, RemoteTypeOK, Opened
  <1>2. Now \in Manager /\ Now.epoch = epoch /\ Now.info = info /\ Now.link = link /\ Now.wire = wire
    BY <1>1, NowFacts
  <1>3. /\ phase = "joining" /\ phase' = "running" /\ Cardinality(Connected) >= MinHosts
        /\ Becomes(Launch(s, Clusters)) /\ UNCHANGED <<guard, host, procs, count>>
    BY DEF Places
  <1>4. Connected \subseteq Hosts /\ IsFiniteSet(Connected) /\ Connected \subseteq Nat
    <2>1. Connected \subseteq Hosts
      BY DEF Connected
    <2> QED BY <2>1, RemoteFacts, FS_Subset
  <1>5. /\ places \in Seq(Connected) /\ Len(places) = Cardinality(Connected)
        /\ \A i \in DOMAIN places : places[i] \in Connected
    BY <1>4, AscendingFacts
  <1> HIDE DEF places
  <1>6. \A c \in Clusters : places[1 + (c % Len(places))] \in Hosts
    <2> TAKE c \in Clusters
    <2> DEFINE n == Len(places)
               r == c % n
    <2>1. n \in Nat /\ n >= MinHosts /\ MinHosts \in Nat \ {0} /\ c \in Nat /\ DOMAIN places = 1..n
      BY <1>3, <1>5, RemoteFacts
    <2> HIDE DEF n
    <2>2. r \in 0..(n - 1)
      BY <2>1
    <2> HIDE DEF r
    <2>3. 1 + r \in 1..n
      BY <2>1, <2>2
    <2>4. places[1 + r] \in Hosts
      BY <2>1, <2>3, <1>4, <1>5
    <2> QED BY <2>4 DEF r, n
  <1>7. \A c \in Clusters : I[c] = [base EXCEPT !.place = places[1 + (c % Len(places))]]
    BY DEF NewInfo
  <1>8. base \in Info /\ base.epoch = 0
    BY RemoteFacts DEF Info
  <1>9. DOMAIN I = Clusters /\ I = [c \in Clusters |-> I[c]]
    OBVIOUS
  <1> HIDE DEF base, I
  <1>10. \A c \in Clusters : I[c] \in Info /\ I[c].epoch = 0 /\ I[c].place \in Hosts
    <2> TAKE c \in Clusters
    <2> DEFINE p == places[1 + (c % Len(places))]
    <2>1. p \in Hosts /\ I[c] = [base EXCEPT !.place = p]
      BY <1>6, <1>7
    <2> HIDE DEF p
    <2> QED BY <2>1, <1>8 DEF Info
  <1>11. I \in [Clusters -> Info]
    BY <1>9, <1>10
  <1>12. s \in Manager /\ s.epoch = epoch /\ s.info = I /\ s.link = link /\ s.wire = wire
    BY <1>2, <1>11 DEF Manager
  <1> HIDE DEF s
  <1>13. Clusters \in SUBSET Clusters
    OBVIOUS
  <1>14. \A k \in Hosts : s.wire[k].state = "good" => s.link[k].up
    BY <1>1, <1>12
  <1>15. /\ Launch(s, Clusters) \in Manager /\ link' = s.link /\ epoch' >= epoch
         /\ \A c \in Clusters \ Clusters : info'[c] = s.info[c]
         /\ \A c \in Clusters : /\ info'[c].place = s.info[c].place
                                /\ info'[c].state \in {"live", "restarting", "failed"}
                                /\ info'[c].child => info'[c].state = "live"
                                /\ info'[c].epoch = s.info[c].epoch \/ info'[c].epoch <= epoch'
         /\ \A h \in Hosts : Longer(s.wire[h], wire'[h]) /\ Asked(Clusters, h, s.wire[h])
    BY <1>3, <1>12, <1>13, <1>14, LaunchStep
  <1>16. /\ epoch' \in 0..MaxEpoch /\ epoch' \in Nat
         /\ info' \in [Clusters -> Info] /\ wire' \in [Hosts -> Wire]
    BY <1>3, <1>15, RemoteFacts DEF Becomes, Manager
  <1>17. \A c \in Clusters : info'[c] \in Info /\ info'[c].place \in Hosts
             /\ (info'[c].epoch = 0 \/ info'[c].epoch <= epoch')
             /\ info'[c].state \in {"live", "restarting", "failed"}
             /\ (info'[c].child => info'[c].state = "live")
    BY <1>10, <1>12, <1>15, <1>16
  <1>18. \A c \in Clusters : Managed(c)'
    <2> TAKE c \in Clusters
    <2>1. 0 \in Nat /\ 0 <= epoch
      BY <1>1, RemoteFacts DEF RemoteTypeOK
    <2> QED BY <2>1, <1>1, <1>3, <1>15, <1>16, <1>17, LaunchedManaged
  <1>19. \A c \in Clusters : ~info[c].child
    BY <1>1, <1>3 DEF Managed
  <1>20. /\ Framed'
         /\ AllKnown => AllKnown'
         /\ \A h \in Hosts, c \in Clusters :
                Claims(h, c)' => Claims(h, c) \/ (c \in Clusters /\ h = info'[c].place)
    <2>1. {phase, phase'} \subseteq {"joining", "running", "stopping"}
      BY <1>3
    <2>2. link' = link /\ \A h \in Hosts : Longer(wire[h], wire'[h]) /\ Asked(Clusters, h, wire[h])
      BY <1>12, <1>15
    <2> QED BY <2>1, <2>2, <1>3, <1>13, <1>15, <1>16, <1>18, <1>19, LaunchKeeps
  <1>21. AllPlaced => AllPlaced'
    <2> HAVE AllPlaced
    <2>1. \A c \in Clusters, h \in Hosts : ~Claims(h, c)
      BY <1>3 DEF AllPlaced, Placed
    <2>2. \A c \in Clusters : /\ info'[c].place \in Hosts
                              /\ \A h \in Hosts : Claims(h, c) => h = info'[c].place
      BY <2>1, <1>17
    <2> QED BY <2>2, <1>3, <1>13, <1>20, PlacedLaunched
  <1> QED BY <1>20, <1>21 DEF Keeps

-----------------------------------------------------------------------------
(* The invariants.                                                         *)

\* Every step leaves the frame as it is.
LEMMA RemoteStep == ASSUME Framed, [RemoteNext]_remoteVars PROVE Keeps
  <1>1. CASE UNCHANGED remoteVars
    <2>1. Framed'
      BY <1>1 DEF remoteVars, Framed, RemoteTypeOK, Phased, Single, Managed, Worded, Opened, Fading, Elapsed
    <2>2. AllKnown => AllKnown'
      BY <1>1 DEF remoteVars, AllKnown, Known, Current
    <2>3. AllPlaced => AllPlaced'
      BY <1>1 DEF remoteVars, AllPlaced, Placed, Claims, RunsHere, Spawning
    <2> QED BY <2>1, <2>2, <2>3 DEF Keeps
  <1>2. CASE Places \/ Respawn \/ StopEnds \/ Falls \/ TakesOver \/ Listens \/ RemoteTick
    BY <1>2, PlacesKeeps, RespawnKeeps, StopEndsKeeps, FallsKeeps, TakesOverKeeps, ListensKeeps,
       RemoteTickKeeps
  <1>3. ASSUME NEW h \in Hosts,
               \/ Joins(h) \/ HostReceives(h) \/ CoordinatorReceives(h)
               \/ Closes(h) \/ HostLoses(h) \/ WatchdogFires(h)
               \/ HostLeaves(h) \/ Cut(h) \/ LosesMessages(h)
        PROVE  Keeps
    BY <1>3, JoinsKeeps, HostReceivesKeeps, CoordinatorReceivesKeeps, ClosesKeeps, HostLosesKeeps,
       CutKeeps, LosesMessagesKeeps
  <1>4. ASSUME NEW p \in procs, Ends(p) PROVE Keeps
    BY <1>4, EndsKeeps
  <1>5. ASSUME NEW c \in Clusters, StartTimesOut(c) \/ Restarts(c) \/ GraceEnds(c) \/ GivesUp(c)
        PROVE  Keeps
    BY <1>5, StartTimesOutKeeps, RestartsKeeps, GraceEndsKeeps, GivesUpKeeps
  <1> QED BY <1>1, <1>2, <1>3, <1>4, <1>5 DEF RemoteNext

\* Whatever the hosts, the network and the clocks do, the coordinator, the hosts and
\* the wires keep the frame.
THEOREM RemoteFramed == RemoteSpec => []Framed
  <1>1. RemoteInit => Framed
    BY RemoteStart
  <1>2. Framed /\ [RemoteNext]_remoteVars => Framed'
    BY RemoteStep DEF Keeps
  <1> QED BY <1>1, <1>2, PTL DEF RemoteSpec

\* The state of the coordinator, the hosts and the wires between them is well typed,
\* whatever the lease and however hastily a fleet is placed.
THEOREM RemoteTypesHold == RemoteSpec => []RemoteTypeOK
  <1>1. Framed => RemoteTypeOK
    BY DEF Framed
  <1> QED BY <1>1, RemoteFramed, PTL

\* The state is well typed and the coordinator knows every process that answers it:
\* an exit it hears of late, or of another process, is not taken for this one.
THEOREM RemoteInvHolds == ASSUME ~Hasty PROVE RemoteSpec => []RemoteInv
  <1> DEFINE I == Framed /\ AllKnown
  <1>1. RemoteInit => I
    BY RemoteStart
  <1>2. I /\ [RemoteNext]_remoteVars => I'
    BY RemoteStep DEF Keeps
  <1>3. I => RemoteInv
    <2> SUFFICES ASSUME Framed, AllKnown PROVE RemoteInv
      OBVIOUS
    <2>1. RemoteTypeOK
      BY DEF Framed
    <2>2. \A p \in procs : p.host \in Hosts
      BY <2>1 DEF RemoteTypeOK, Process
    <2> QED BY <2>1, <2>2 DEF RemoteInv, KnownProcess, AllKnown, Known, Current
  <1> HIDE DEF I
  <1> QED BY <1>1, <1>2, <1>3, PTL DEF RemoteSpec

\* A cluster never runs in two places, not even in a process that has been killed but
\* is not gone: neither when it moves away from a lost host, nor when it comes back to
\* it, nor when another coordinator takes over.
THEOREM OneHostHolds == ASSUME ~Hasty, Lease >= 3 PROVE RemoteSpec => []OneHost
  <1> DEFINE I == Framed /\ AllPlaced
  <1>1. RemoteInit => I
    BY RemoteStart
  <1>2. I /\ [RemoteNext]_remoteVars => I'
    BY RemoteStep DEF Keeps
  <1>3. I => OneHost
    <2> SUFFICES ASSUME Framed, AllPlaced, NEW p \in procs, NEW q \in procs, p.cluster = q.cluster
                 PROVE  p = q
      BY DEF OneHost
    <2>1. p.host \in Hosts /\ q.host \in Hosts /\ p.cluster \in Clusters
      BY DEF Framed, RemoteTypeOK, Process
    <2>2. Claims(p.host, p.cluster) /\ Claims(q.host, p.cluster)
      BY DEF Claims, RunsHere
    <2>3. p.host = q.host
      BY <2>1, <2>2 DEF AllPlaced, Placed
    <2> QED BY <2>3 DEF Framed, Single
  <1> HIDE DEF I
  <1> QED BY <1>1, <1>2, <1>3, PTL DEF RemoteSpec

=============================================================================
