-------------------------- MODULE SchedulerProofs --------------------------
(***************************************************************************)
(* Theorems about RequestScheduler for every set of requests, routes and   *)
(* buckets and every limit: types, exact counters, one request in flight   *)
(* per key and an entry for every busy key.                                *)
(*                                                                         *)
(* The promises of a key are a chain: each turn waits for the one before   *)
(* it.  Base says that the chain is well formed, whatever is aborted; it   *)
(* is enough for the types and the counters.  Slots adds that every key    *)
(* has one turn that may start, which needs that the last waiter of a key  *)
(* is not aborted while another runs.                                      *)
(***************************************************************************)
EXTENDS RequestScheduler, FiniteSetTheorems, WellFoundedInduction, TLAPS

-----------------------------------------------------------------------------
(* The invariant.                                                          *)

\* The turn of r is in a queue or holds its slot.
Active(r) == phase[r] \in {"queued", "checking", "running"}

\* Gate <<r, h>> was never used: r has not come so far, or was refused there.
Unused(r, h) == h > hop[r] \/ (h = hop[r] /\ phase[r] \in {"idle", "overloaded"})

\* Nobody refers to a gate that was never used.
Fresh ==
    \A r \in Requests, h \in 0..MAX_REMAPS : Unused(r, h) =>
        /\ previous[<<r, h>>] = None
        /\ <<r, h>> \notin opened \cup linked
        /\ \A g \in Gates : previous[g] # <<r, h>>

\* A request left a queue after its turn had come, and opened its gate.
Past ==
    \A r \in Requests, h \in 0..MAX_REMAPS : h < hop[r] =>
        <<r, h>> \in opened /\ MayStart(<<r, h>>)

\* What the phase of a request says of its gate.
Stage ==
    \A r \in Requests :
        /\ phase[r] = "idle" => hop[r] = 0
        /\ phase[r] \in {"checking", "moving"} => hop[r] < MAX_REMAPS
        /\ Active(r) => Gate(r) \notin opened \cup linked
        /\ phase[r] \in {"moving", "freed", "done"} => Gate(r) \in opened
        /\ phase[r] \in {"checking", "running", "moving", "freed", "done"} => MayStart(Gate(r))

\* A turn has at most one turn behind it.
Links == \A g, h \in Gates : previous[g] # None /\ previous[g] = previous[h] => g = h

\* The entry of a key is an active turn of that key with nobody behind it.
Tails ==
    \A k \in Keys : queues[k] # None =>
        /\ \E r \in Requests : Active(r) /\ key[r] = k /\ queues[k] = Gate(r)
        /\ \A g \in Gates : previous[g] # queues[k]

\* Turns that wait for one another are of one key.
SameKey ==
    \A r, s \in Requests :
        previous[Gate(s)] = Gate(r) /\ Gate(r) \notin opened => key[s] = key[r]

\* Turns wait for turns that came before them.
Ordered ==
    \E age \in [Gates -> Nat], now \in Nat :
        \A g \in Gates :
            /\ age[g] < now
            /\ \A f \in Gates : previous[g] = f => age[f] < age[g]

Base == /\ TypeOK /\ CountsWaiters
        /\ Fresh /\ Past /\ Stage /\ Links /\ Tails /\ SameKey /\ Ordered

\* The turn of r is one that others may have to wait for: it is active, or it was
\* aborted, has not opened its gate and has a turn behind it.
Busy(r) ==
    \/ Active(r)
    \/ /\ phase[r] = "aborted" /\ Gate(r) \notin opened
       /\ \E s \in Requests : previous[Gate(s)] = Gate(r)

\* Where a turn is busy, its key has an entry.
Entries == \A r \in Requests : Busy(r) => queues[key[r]] # None

\* Of the busy turns of a key, one may start.
OneMayStart ==
    \A r, s \in Requests :
        /\ Busy(r) /\ Busy(s) /\ key[r] = key[s]
        /\ MayStart(Gate(r)) /\ MayStart(Gate(s))
        => r = s

Slots == Entries /\ OneMayStart

-----------------------------------------------------------------------------
(* Gates.                                                                  *)

LEMMA NoneIsNoGate == \A g \in Gates : g # None
  <1> TAKE g \in Gates
  <1>1. PICK r \in Requests, h \in 0..MAX_REMAPS : g = <<r, h>>
    BY DEF Gates
  <1>2. <<r, h>> # <<>>
    OBVIOUS
  <1> QED BY <1>1, <1>2 DEF None

LEMMA GateTyped ==
    ASSUME TypeOK, NEW r \in Requests
    PROVE  Gate(r) \in Gates /\ hop[r] \in 0..MAX_REMAPS
  BY DEF TypeOK, Gate, Gates

\* A gate that is closed and that somebody waits for, or that is linked, is the
\* gate of a request's current turn.
LEMMA ClosedIsCurrent ==
    ASSUME Base, NEW g \in Gates, g \notin opened,
           g \in linked \/ \E f \in Gates : previous[f] = g
    PROVE  \E r \in Requests : /\ g = Gate(r)
                               /\ Active(r) \/ phase[r] = "aborted"
  <1>1. PICK r \in Requests, h \in 0..MAX_REMAPS : g = <<r, h>>
    BY DEF Gates
  <1>2. hop[r] \in 0..MAX_REMAPS /\ MAX_REMAPS \in Nat
    BY GateTyped, SchedulerAssumption DEF Base
  <1>3. ~(h < hop[r])
    BY <1>1 DEF Base, Past
  <1>4. ~Unused(r, h)
    BY <1>1 DEF Base, Fresh
  <1>5. h = hop[r] /\ phase[r] \notin {"idle", "overloaded"}
    BY <1>2, <1>3, <1>4 DEF Unused
  <1>6. g = Gate(r)
    BY <1>1, <1>5 DEF Gate
  <1>7. phase[r] \in Phases
    BY DEF Base, TypeOK
  <1>8. phase[r] \notin {"moving", "freed", "done"}
    BY <1>6 DEF Base, Stage
  <1> QED BY <1>5, <1>6, <1>7, <1>8 DEF Phases, Active

\* The gates of two requests differ.
LEMMA OwnGates ==
    ASSUME NEW r \in Requests, NEW s \in Requests, Gate(r) = Gate(s)
    PROVE  r = s
  BY DEF Gate

-----------------------------------------------------------------------------
(* Counting.                                                               *)

LEMMA WaitersFinite ==
    /\ IsFiniteSet({r \in Requests : Counted(r)})
    /\ \A k \in Keys : IsFiniteSet({r \in Requests : Counted(r) /\ key[r] = k})
  <1>1. ASSUME NEW S \in SUBSET Requests PROVE IsFiniteSet(S)
    BY SchedulerAssumption, FS_Subset
  <1> QED BY <1>1

\* A step that moves no request into or out of the waiting ones keeps the counters.
LEMMA CountsSame ==
    ASSUME CountsWaiters,
           \A s \in Requests : Counted(s)' <=> Counted(s),
           \A s \in Requests : Counted(s) => key'[s] = key[s],
           queued' = queued, waiting' = waiting
    PROVE  CountsWaiters'
  <1>1. {r \in Requests : Counted(r)}' = {r \in Requests : Counted(r)}
    OBVIOUS
  <1>2. ASSUME NEW k \in Keys
        PROVE {r \in Requests : Counted(r) /\ key[r] = k}'
                = {r \in Requests : Counted(r) /\ key[r] = k}
    OBVIOUS
  <1> QED BY <1>1, <1>2 DEF CountsWaiters

\* A request that comes to wait raises both counters.
LEMMA CountsMore ==
    ASSUME TypeOK, CountsWaiters, NEW r \in Requests, NEW k \in Keys,
           ~Counted(r), Counted(r)', key'[r] = k,
           \A s \in Requests \ {r} : (Counted(s)' <=> Counted(s)) /\ key'[s] = key[s],
           queued' = queued + 1,
           waiting' = [waiting EXCEPT ![k] = @ + 1]
    PROVE  CountsWaiters'
  <1> DEFINE W == {s \in Requests : Counted(s)}
             Wk(i) == {s \in Requests : Counted(s) /\ key[s] = i}
  <1>1. W' = W \cup {r} /\ r \notin W
    OBVIOUS
  <1>2. Wk(k)' = Wk(k) \cup {r} /\ r \notin Wk(k)
    OBVIOUS
  <1>3. ASSUME NEW i \in Keys, i # k PROVE Wk(i)' = Wk(i)
    BY <1>3
  <1>4. Cardinality(W') = Cardinality(W) + 1
    BY <1>1, WaitersFinite, FS_AddElement
  <1>5. Cardinality(Wk(k)') = Cardinality(Wk(k)) + 1
    BY <1>2, WaitersFinite, FS_AddElement
  <1>6. queued = Cardinality(W) /\ \A i \in Keys : waiting[i] = Cardinality(Wk(i))
    BY DEF CountsWaiters
  <1>7. waiting'[k] = waiting[k] + 1 /\ \A i \in Keys \ {k} : waiting'[i] = waiting[i]
    BY DEF TypeOK
  <1>8. queued' = Cardinality(W') /\ \A i \in Keys : waiting'[i] = Cardinality(Wk(i)')
    BY <1>3, <1>4, <1>5, <1>6, <1>7
  <1> QED BY <1>8 DEF CountsWaiters

\* One that stops waiting lowers them, and they were not zero.
LEMMA CountsLess ==
    ASSUME TypeOK, CountsWaiters, NEW r \in Requests,
           Counted(r), ~Counted(r)',
           \A s \in Requests \ {r} : Counted(s)' <=> Counted(s),
           key' = key,
           queued' = queued - 1,
           waiting' = [waiting EXCEPT ![key[r]] = @ - 1]
    PROVE  CountsWaiters' /\ queued > 0 /\ waiting[key[r]] > 0
  <1> DEFINE W == {s \in Requests : Counted(s)}
             Wk(i) == {s \in Requests : Counted(s) /\ key[s] = i}
             k == key[r]
  <1>0. k \in Keys
    BY DEF TypeOK
  <1>1. W' = W \ {r} /\ r \in W
    OBVIOUS
  <1>2. Wk(k)' = Wk(k) \ {r} /\ r \in Wk(k)
    BY <1>0
  <1>3. ASSUME NEW i \in Keys, i # k PROVE Wk(i)' = Wk(i)
    BY <1>3
  <1>4. Cardinality(W') = Cardinality(W) - 1 /\ Cardinality(W') \in Nat
    BY <1>1, WaitersFinite, FS_RemoveElement, FS_CardinalityType
  <1>5. Cardinality(Wk(k)') = Cardinality(Wk(k)) - 1 /\ Cardinality(Wk(k)') \in Nat
    BY <1>0, <1>2, WaitersFinite, FS_RemoveElement, FS_CardinalityType
  <1>6. queued = Cardinality(W) /\ \A i \in Keys : waiting[i] = Cardinality(Wk(i))
    BY DEF CountsWaiters
  <1>7. queued \in Nat /\ waiting[k] \in Nat
    BY <1>0, SchedulerAssumption DEF TypeOK
  <1>8. waiting'[k] = waiting[k] - 1 /\ \A i \in Keys \ {k} : waiting'[i] = waiting[i]
    BY <1>0 DEF TypeOK
  <1>9. queued' = Cardinality(W') /\ \A i \in Keys : waiting'[i] = Cardinality(Wk(i)')
    BY <1>0, <1>3, <1>4, <1>5, <1>6, <1>8
  <1>10. queued > 0 /\ waiting[k] > 0
    BY <1>0, <1>4, <1>5, <1>6, <1>7
  <1> QED BY <1>9, <1>10 DEF CountsWaiters

-----------------------------------------------------------------------------
(* Joining a queue.                                                        *)

\* Request r may join a queue with gate <<r, h>>.
MayJoin(r, h, k) ==
    /\ r \in Requests /\ k \in Keys /\ h \in 0..MAX_REMAPS
    /\ phase[r] \in {"idle", "moving"}
    /\ h = IF phase[r] = "idle" THEN hop[r] ELSE hop[r] + 1

\* The gate it joins with was never used; those before it are open.
LEMMA NewGate ==
    ASSUME Base, NEW r, NEW h, NEW k, MayJoin(r, h, k)
    PROVE  /\ <<r, h>> \in Gates
           /\ previous[<<r, h>>] = None
           /\ <<r, h>> \notin opened \cup linked
           /\ \A g \in Gates : previous[g] # <<r, h>>
           /\ \A s \in Requests \ {r} : Gate(s) # <<r, h>>
           /\ \A i \in 0..MAX_REMAPS : i < h => <<r, i>> \in opened /\ MayStart(<<r, i>>)
           /\ ~Active(r)
  <1>1. hop[r] \in 0..MAX_REMAPS /\ MAX_REMAPS \in Nat
    BY GateTyped, SchedulerAssumption DEF Base, MayJoin
  <1>2. Unused(r, h)
    BY <1>1 DEF MayJoin, Unused
  <1>3. /\ previous[<<r, h>>] = None
        /\ <<r, h>> \notin opened \cup linked
        /\ \A g \in Gates : previous[g] # <<r, h>>
    BY <1>2 DEF Base, Fresh, MayJoin
  <1>4. \A s \in Requests \ {r} : Gate(s) # <<r, h>>
    BY DEF Gate
  <1>5. ASSUME NEW i \in 0..MAX_REMAPS, i < h
        PROVE  <<r, i>> \in opened /\ MayStart(<<r, i>>)
    <2>1. CASE i < hop[r]
      BY <2>1 DEF Base, Past, MayJoin
    <2>2. CASE ~(i < hop[r])
      <3>1. i = hop[r] /\ phase[r] = "moving"
        BY <1>1, <1>5, <2>2 DEF MayJoin
      <3> QED BY <3>1 DEF Base, Stage, Gate, MayJoin
    <2> QED BY <2>1, <2>2
  <1>6. <<r, h>> \in Gates /\ ~Active(r)
    BY DEF MayJoin, Gates, Active
  <1> QED BY <1>3, <1>4, <1>5, <1>6

\* The last turn of a key, if there is one.
LEMMA TailIsActive ==
    ASSUME Base, NEW k \in Keys, queues[k] # None
    PROVE  \E s \in Requests : /\ Active(s) /\ key[s] = k /\ queues[k] = Gate(s)
                               /\ Gate(s) \in Gates
  BY GateTyped DEF Base, Tails

\* A request that is refused is nowhere.
LEMMA JoinRefused ==
    ASSUME Base, NEW r, NEW h, NEW k, MayJoin(r, h, k), JoinQueue(r, h, k), Full(k)
    PROVE  Base'
  <1> USE DEF MayJoin
  <1>1. /\ key' = [key EXCEPT ![r] = k]
        /\ hop' = [hop EXCEPT ![r] = h]
        /\ phase' = [phase EXCEPT ![r] = "overloaded"]
        /\ UNCHANGED <<queues, previous, queued, waiting, known, opened, linked>>
    BY DEF JoinQueue
  <1>2. TypeOK'
    BY <1>1 DEF Base, TypeOK, Phases
  <1>3. /\ \A s \in Requests \ {r} : /\ phase'[s] = phase[s] /\ hop'[s] = hop[s]
                                     /\ key'[s] = key[s] /\ Gate(s)' = Gate(s)
        /\ phase'[r] = "overloaded" /\ hop'[r] = h /\ key'[r] = k /\ Gate(r)' = <<r, h>>
    BY <1>1 DEF Base, TypeOK, Gate
  <1>4. hop[r] \in 0..MAX_REMAPS /\ MAX_REMAPS \in Nat
    BY GateTyped, SchedulerAssumption DEF Base
  <1>5. CountsWaiters'
    <2>1. ~Counted(r) /\ ~Counted(r)'
      BY <1>3 DEF Counted
    <2>2. \A s \in Requests : Counted(s)' <=> Counted(s)
      BY <1>1, <1>3, <2>1 DEF Counted
    <2> QED BY <1>1, <1>3, <2>1, <2>2, CountsSame DEF Base
  <1>6. Fresh'
    <2>1. \A s \in Requests, i \in 0..MAX_REMAPS : Unused(s, i)' => Unused(s, i)
      BY <1>3, <1>4 DEF Unused
    <2> QED BY <1>1, <2>1 DEF Base, Fresh
  <1>7. Past'
    <2>1. ASSUME NEW s \in Requests, NEW i \in 0..MAX_REMAPS, i < hop'[s]
          PROVE  <<s, i>> \in opened /\ MayStart(<<s, i>>)
      <3>1. CASE s = r
        BY <1>3, <2>1, <3>1, NewGate
      <3>2. CASE s # r
        BY <1>3, <2>1, <3>2 DEF Base, Past
      <3> QED BY <3>1, <3>2
    <2> QED BY <1>1, <2>1 DEF Past, MayStart
  <1>8. Stage'
    BY <1>1, <1>3 DEF Base, Stage, Active, MayStart
  <1>9. Links' /\ Ordered'
    BY <1>1 DEF Base, Links, Ordered
  <1>10. Tails'
    <2>1. \A s \in Requests : Active(s) => s # r
      BY DEF Active
    <2> QED BY <1>1, <1>3, <2>1 DEF Base, Tails, Active
  <1>11. SameKey'
    <2>1. ASSUME NEW a \in Requests, NEW b \in Requests,
                 previous[Gate(b)'] = Gate(a)', Gate(a)' \notin opened
          PROVE  key'[b] = key'[a]
      <3>0. Gate(a)' # None
        <4>1. Gate(a)' \in Gates
          BY <1>3, NewGate, GateTyped DEF Base
        <4> QED BY <4>1, NoneIsNoGate
      <3>1. b # r
        BY <1>3, <2>1, <3>0, NewGate
      <3>2. Gate(b)' = Gate(b) /\ Gate(b) \in Gates
        BY <1>3, <3>1, GateTyped DEF Base
      <3>3. a # r
        BY <1>3, <2>1, <3>2, NewGate
      <3> QED BY <1>3, <2>1, <3>1, <3>2, <3>3 DEF Base, SameKey
    <2> QED BY <1>1, <2>1 DEF SameKey
  <1> QED BY <1>2, <1>5, <1>6, <1>7, <1>8, <1>9, <1>10, <1>11 DEF Base

\* A request that joins is the new tail of its key.
LEMMA JoinAccepted ==
    ASSUME Base, NEW r, NEW h, NEW k, MayJoin(r, h, k), JoinQueue(r, h, k), ~Full(k)
    PROVE  Base'
  <1> USE DEF MayJoin
  <1> DEFINE new == <<r, h>>
  <1>1. /\ key' = [key EXCEPT ![r] = k]
        /\ hop' = [hop EXCEPT ![r] = h]
        /\ phase' = [phase EXCEPT ![r] = "queued"]
        /\ previous' = [previous EXCEPT ![new] = queues[k]]
        /\ queues' = [queues EXCEPT ![k] = new]
        /\ UNCHANGED <<known, opened, linked>>
    BY DEF JoinQueue
  <1>2. IF queues[k] = None THEN UNCHANGED <<queued, waiting>>
        ELSE /\ queued' = queued + 1
             /\ waiting' = [waiting EXCEPT ![k] = @ + 1]
    BY DEF JoinQueue
  <1>3. new \in Gates
    BY NewGate
  <1>4. /\ \A s \in Requests \ {r} : /\ phase'[s] = phase[s] /\ hop'[s] = hop[s]
                                     /\ key'[s] = key[s] /\ Gate(s)' = Gate(s)
        /\ phase'[r] = "queued" /\ hop'[r] = h /\ key'[r] = k /\ Gate(r)' = new
    BY <1>1 DEF Base, TypeOK, Gate
  <1>5. /\ previous'[new] = queues[k]
        /\ \A g \in Gates : g # new => previous'[g] = previous[g]
        /\ queues'[k] = new /\ \A i \in Keys \ {k} : queues'[i] = queues[i]
    BY <1>1, <1>3 DEF Base, TypeOK
  <1>6. hop[r] \in 0..MAX_REMAPS /\ MAX_REMAPS \in Nat
    BY GateTyped, SchedulerAssumption DEF Base
  <1>7. \A s \in Requests : Active(s) => s # r
    BY DEF Active
  <1>8. queues[k] # new /\ new # None
    BY <1>3, <1>7, TailIsActive, NewGate, NoneIsNoGate
  <1>9. CountsWaiters' /\ TypeOK'
    <2>1. \A s \in Requests \ {r} : Counted(s)' <=> Counted(s)
      <3>1. ASSUME NEW s \in Requests \ {r} PROVE previous'[Gate(s)'] = previous[Gate(s)]
        BY <1>4, <1>5, NewGate, GateTyped DEF Base
      <3> QED BY <1>4, <3>1 DEF Counted
    <2>2. ~Counted(r) /\ (Counted(r)' <=> queues[k] # None)
      BY <1>4, <1>5 DEF Counted
    <2>3. CountsWaiters'
      <3>1. CASE queues[k] = None
        BY <1>2, <1>4, <2>1, <2>2, <3>1, CountsSame DEF Base
      <3>2. CASE queues[k] # None
        BY <1>2, <1>4, <2>1, <2>2, <3>2, CountsMore DEF Base
      <3> QED BY <3>1, <3>2
    <2>4. queued' \in 0..MaxQueued /\ waiting' \in [Keys -> 0..MaxPerBucket]
      BY <1>2, SchedulerAssumption DEF Base, TypeOK, Full
    <2>5. /\ key' \in [Requests -> Keys] /\ hop' \in [Requests -> 0..MAX_REMAPS]
          /\ phase' \in [Requests -> Phases]
      BY <1>1 DEF Base, TypeOK, Phases
    <2>6. /\ queues' \in [Keys -> Gates \cup {None}]
          /\ previous' \in [Gates -> Gates \cup {None}]
      BY <1>1, <1>3 DEF Base, TypeOK
    <2> QED BY <1>1, <2>3, <2>4, <2>5, <2>6 DEF Base, TypeOK
  <1>10. Fresh'
    <2> SUFFICES ASSUME NEW s \in Requests, NEW i \in 0..MAX_REMAPS, Unused(s, i)'
                 PROVE  /\ previous'[<<s, i>>] = None
                        /\ <<s, i>> \notin opened \cup linked
                        /\ \A g \in Gates : previous'[g] # <<s, i>>
      BY <1>1 DEF Fresh
    <2>1. Unused(s, i) /\ <<s, i>> # new
      BY <1>4, <1>6 DEF Unused
    <2>2. <<s, i>> \in Gates
      BY DEF Gates
    <2>3. queues[k] # <<s, i>>
      <3>1. ASSUME NEW t \in Requests, Active(t), Gate(t) = <<s, i>> PROVE FALSE
        BY <2>1, <3>1, <1>6, GateTyped DEF Gate, Unused, Active, Base
      <3> QED BY <2>2, <3>1, TailIsActive, NoneIsNoGate
    <2> QED BY <1>5, <2>1, <2>2, <2>3 DEF Base, Fresh
  <1>11. Past'
    <2>1. ASSUME NEW s \in Requests, NEW i \in 0..MAX_REMAPS, i < hop'[s]
          PROVE  <<s, i>> \in opened /\ MayStart(<<s, i>>) /\ <<s, i>> # new
      <3>1. CASE s = r
        BY <1>4, <1>6, <2>1, <3>1, NewGate
      <3>2. CASE s # r
        BY <1>4, <2>1, <3>2 DEF Base, Past
      <3> QED BY <3>1, <3>2
    <2>2. ASSUME NEW s \in Requests, NEW i \in 0..MAX_REMAPS, i < hop'[s]
          PROVE  MayStart(<<s, i>>)'
      BY <1>1, <1>5, <2>1, <2>2 DEF MayStart, Gates
    <2> QED BY <1>1, <2>1, <2>2 DEF Past
  <1>12. Stage'
    <2>1. ASSUME NEW s \in Requests \ {r}
          PROVE  previous'[Gate(s)'] = previous[Gate(s)] /\ Gate(s)' = Gate(s)
      BY <1>4, <1>5, NewGate, GateTyped DEF Base
    <2> QED BY <1>1, <1>4, <2>1, NewGate DEF Base, Stage, Active, MayStart
  <1>13. Links'
    <2>1. \A g \in Gates : queues[k] # None => previous[g] # queues[k]
      BY DEF Base, Tails
    <2> QED BY <1>5, <2>1 DEF Base, Links
  <1>14. Tails'
    <2>1. \A g \in Gates : previous'[g] # new
      BY <1>5, <1>8, NewGate
    <2>2. /\ Active(r)' /\ key'[r] = k /\ queues'[k] = Gate(r)'
      BY <1>4, <1>5 DEF Active
    <2>3. ASSUME NEW i \in Keys, i # k, queues[i] # None
          PROVE  /\ \E s \in Requests : Active(s)' /\ key'[s] = i /\ queues[i] = Gate(s)'
                 /\ \A g \in Gates : previous'[g] # queues[i]
      <3>1. PICK s \in Requests : Active(s) /\ key[s] = i /\ queues[i] = Gate(s)
        BY <2>3, TailIsActive
      <3>2. Active(s)' /\ key'[s] = i /\ queues[i] = Gate(s)'
        BY <1>4, <1>7, <3>1 DEF Active
      <3>3. queues[k] # queues[i]
        BY <2>3, <3>1, TailIsActive, OwnGates
      <3> QED BY <1>5, <2>3, <3>2, <3>3 DEF Base, Tails
    <2> QED BY <1>5, <2>1, <2>2, <2>3 DEF Tails
  <1>15. SameKey'
    <2>1. ASSUME NEW a \in Requests, NEW b \in Requests,
                 previous'[Gate(b)'] = Gate(a)', Gate(a)' \notin opened
          PROVE  key'[b] = key'[a]
      <3>1. Gate(a)' \in Gates /\ Gate(a)' # None
        <4>1. Gate(a)' \in Gates
          BY <1>4, NewGate, GateTyped DEF Base
        <4> QED BY <4>1, NoneIsNoGate
      <3>2. CASE b = r
        <4>1. PICK s \in Requests : Active(s) /\ key[s] = k /\ queues[k] = Gate(s)
          BY <1>4, <1>5, <2>1, <3>1, <3>2, TailIsActive
        <4>2. s # r /\ Gate(s)' = Gate(a)'
          BY <1>4, <1>5, <1>7, <2>1, <3>2, <4>1
        <4>3. s = a
          BY <1>4, <1>8, <4>1, <4>2, OwnGates
        <4> QED BY <1>4, <3>2, <4>1, <4>2, <4>3
      <3>3. CASE b # r
        <4>1. Gate(b)' = Gate(b) /\ Gate(b) \in Gates /\ Gate(b) # new
          BY <1>4, <3>3, NewGate, GateTyped DEF Base
        <4>2. previous[Gate(b)] = Gate(a)'
          BY <1>5, <2>1, <4>1
        <4>3. a # r
          BY <1>4, <4>1, <4>2, NewGate
        <4> QED BY <1>4, <2>1, <3>3, <4>2, <4>3 DEF Base, SameKey
      <3> QED BY <3>2, <3>3
    <2> QED BY <1>1, <2>1 DEF SameKey
  <1>16. Ordered'
    <2>1. PICK age \in [Gates -> Nat], now \in Nat :
             \A g \in Gates : /\ age[g] < now
                              /\ \A f \in Gates : previous[g] = f => age[f] < age[g]
      BY DEF Base, Ordered
    <2> DEFINE later == [g \in Gates |-> IF g = new THEN now ELSE age[g]]
    <2>2. later \in [Gates -> Nat] /\ now + 1 \in Nat
      OBVIOUS
    <2>3. later[new] = now /\ \A g \in Gates : g # new => later[g] = age[g]
      BY <1>3
    <2> HIDE DEF later
    <2>4. \A g \in Gates : age[g] \in Nat /\ age[g] < now
      BY <2>1
    <2>5. ASSUME NEW g \in Gates PROVE later[g] < now + 1
      BY <2>3, <2>4
    <2>6. ASSUME NEW g \in Gates, NEW f \in Gates, previous'[g] = f
          PROVE  later[f] < later[g]
      <3>1. CASE g = new
        <4>1. f # new
          BY <1>5, <1>8, <2>6, <3>1
        <4> QED BY <2>3, <2>4, <3>1, <4>1
      <3>2. CASE g # new
        <4>1. previous[g] = f /\ f # new
          BY <1>5, <2>6, <3>2, NewGate
        <4> QED BY <2>1, <2>3, <3>2, <4>1
      <3> QED BY <3>1, <3>2
    <2> QED BY <2>2, <2>5, <2>6 DEF Ordered
  <1> QED BY <1>9, <1>10, <1>11, <1>12, <1>13, <1>14, <1>15, <1>16 DEF Base

-----------------------------------------------------------------------------
(* Leaving a queue or a slot.                                              *)

\* What a release does to the gates.
LEMMA Releases ==
    ASSUME TypeOK, NEW r \in Requests, NEW started \in BOOLEAN, Release(r, started)
    PROVE  /\ opened \subseteq opened' /\ opened' \subseteq opened \cup {Gate(r)}
           /\ linked' \subseteq linked \cup {Gate(r)}
           /\ started => Gate(r) \in opened'
           /\ opened' \in SUBSET Gates /\ linked' \in SUBSET Gates
           /\ queues' \in [Keys -> Gates \cup {None}]
           /\ \A k \in Keys : k # key[r] => queues'[k] = queues[k]
           /\ queues'[key[r]] = IF queues[key[r]] = Gate(r) THEN None ELSE queues[key[r]]
  <1>1. key[r] \in Keys /\ Gate(r) \in Gates
    BY GateTyped DEF TypeOK
  <1>2. queues' = [queues EXCEPT ![key[r]] = IF @ = Gate(r) THEN None ELSE @]
    BY DEF Release
  <1>3. /\ queues' \in [Keys -> Gates \cup {None}]
        /\ \A k \in Keys : k # key[r] => queues'[k] = queues[k]
        /\ queues'[key[r]] = IF queues[key[r]] = Gate(r) THEN None ELSE queues[key[r]]
    BY <1>1, <1>2 DEF TypeOK
  <1>4. \/ opened' = opened \cup {Gate(r)} /\ linked' = linked
        \/ ~started /\ linked' = linked \cup {Gate(r)} /\ opened' = opened
    BY DEF Release
  <1> QED BY <1>1, <1>3, <1>4 DEF TypeOK

\* An active request lets go of its gate: it gives its slot up, perhaps to move to
\* another key, or it was waiting and is aborted.
LEMMA LeaveKeepsChain ==
    ASSUME Base, NEW r \in Requests, Active(r),
           NEW started \in BOOLEAN, Release(r, started),
           started => MayStart(Gate(r)),
           NEW p, phase' = [phase EXCEPT ![r] = p],
           p \in IF started THEN {"moving", "freed", "done"} ELSE {"aborted"},
           p = "moving" => hop[r] < MAX_REMAPS,
           hop' = hop, previous' = previous,
           \A s \in Requests \ {r} : key'[s] = key[s],
           ~started => key' = key
    PROVE  Fresh' /\ Past' /\ Stage' /\ Links' /\ Tails' /\ SameKey' /\ Ordered'
  <1>1. /\ opened \subseteq opened' /\ opened' \subseteq opened \cup {Gate(r)}
        /\ linked' \subseteq linked \cup {Gate(r)}
        /\ started => Gate(r) \in opened'
        /\ \A k \in Keys : k # key[r] => queues'[k] = queues[k]
        /\ queues'[key[r]] = IF queues[key[r]] = Gate(r) THEN None ELSE queues[key[r]]
    BY Releases DEF Base
  <1>2. /\ phase'[r] = p /\ \A s \in Requests \ {r} : phase'[s] = phase[s]
        /\ \A s \in Requests : hop'[s] = hop[s] /\ Gate(s)' = Gate(s)
    BY DEF Base, TypeOK, Gate
  <1>3. \A s \in Requests \ {r} : Gate(s) # Gate(r)
    BY OwnGates
  <1>4. \A g \in Gates : MayStart(g) => MayStart(g)'
    BY <1>1 DEF MayStart
  <1>5. Fresh'
    <2>1. ASSUME NEW s \in Requests, NEW i \in 0..MAX_REMAPS, Unused(s, i)'
          PROVE  Unused(s, i) /\ <<s, i>> # Gate(r)
      <3>1. Unused(s, i)
        BY <1>2, <2>1 DEF Unused
      <3>2. <<s, i>> # Gate(r)
        BY <3>1, GateTyped, SchedulerAssumption DEF Base, Unused, Gate, Active
      <3> QED BY <3>1, <3>2
    <2> QED BY <1>1, <2>1 DEF Base, Fresh
  <1>6. Past'
    <2>1. \A s \in Requests, i \in 0..MAX_REMAPS : <<s, i>> \in Gates
      BY DEF Gates
    <2> QED BY <1>1, <1>2, <1>4, <2>1 DEF Base, Past
  <1>7. Stage'
    <2>1. ASSUME NEW s \in Requests, s # r
          PROVE  /\ phase'[s] = "idle" => hop[s] = 0
                 /\ phase'[s] \in {"checking", "moving"} => hop[s] < MAX_REMAPS
                 /\ Active(s)' => Gate(s) \notin opened' \cup linked'
                 /\ phase'[s] \in {"moving", "freed", "done"} => Gate(s) \in opened'
                 /\ phase'[s] \in {"checking", "running", "moving", "freed", "done"}
                      => MayStart(Gate(s))'
      <3>1. phase'[s] = phase[s] /\ Gate(s) # Gate(r) /\ (Active(s)' <=> Active(s))
        BY <1>2, <1>3, <2>1 DEF Active
      <3>2. MayStart(Gate(s)) => MayStart(Gate(s))'
        BY <1>1, <1>2 DEF MayStart
      <3> QED BY <1>1, <3>1, <3>2 DEF Base, Stage
    <2>2. /\ phase'[r] = "moving" => hop[r] < MAX_REMAPS
          /\ phase'[r] \in {"moving", "freed", "done"} => Gate(r) \in opened' /\ MayStart(Gate(r))'
          /\ phase'[r] \in {"moving", "freed", "done", "aborted"}
      <3>1. MayStart(Gate(r)) => MayStart(Gate(r))'
        BY <1>1, <1>2 DEF MayStart
      <3> QED BY <1>1, <1>2, <3>1
    <2> QED BY <1>2, <2>1, <2>2 DEF Stage, Active
  <1>8. Links' /\ Ordered'
    BY DEF Base, Links, Ordered
  <1>9. Tails'
    <2> SUFFICES ASSUME NEW k \in Keys, queues'[k] # None
                 PROVE  /\ \E s \in Requests : Active(s)' /\ key'[s] = k /\ queues'[k] = Gate(s)'
                        /\ \A g \in Gates : previous'[g] # queues'[k]
      BY DEF Tails
    <2>1. queues'[k] = queues[k] /\ queues[k] # None /\ (k = key[r] => queues[k] # Gate(r))
      BY <1>1
    <2>2. PICK s \in Requests : Active(s) /\ key[s] = k /\ queues[k] = Gate(s)
      BY <2>1, TailIsActive
    <2>3. s # r
      BY <2>1, <2>2
    <2>4. Active(s)' /\ key'[s] = k /\ queues'[k] = Gate(s)'
      BY <1>2, <2>1, <2>2, <2>3 DEF Active
    <2> QED BY <2>1, <2>4 DEF Base, Tails
  <1>10. SameKey'
    <2> SUFFICES ASSUME NEW a \in Requests, NEW b \in Requests,
                        previous[Gate(b)] = Gate(a), Gate(a) \notin opened'
                 PROVE  key'[b] = key'[a]
      BY <1>2 DEF SameKey
    <2>1. key[b] = key[a] /\ Gate(a) \notin opened
      BY <1>1 DEF Base, SameKey
    <2>2. CASE started
      <3>1. a # r
        BY <1>1, <2>2
      <3>2. b # r
        <4>1. Gate(a) # None
          BY GateTyped, NoneIsNoGate DEF Base
        <4> QED BY <2>1, <2>2, <4>1 DEF MayStart
      <3> QED BY <2>1, <3>1, <3>2
    <2>3. CASE ~started
      BY <2>1, <2>3
    <2> QED BY <2>2, <2>3
  <1> QED BY <1>5, <1>6, <1>7, <1>8, <1>9, <1>10

\* A turn that starts or is aborted is no longer counted.
LEMMA StopKeepsCounts ==
    ASSUME Base, NEW r \in Requests, phase[r] = "queued", StopWaiting(r),
           NEW p, p # "queued", phase' = [phase EXCEPT ![r] = p],
           key' = key, hop' = hop, previous' = previous
    PROVE  CountsWaiters' /\ queued' \in 0..MaxQueued /\ waiting' \in [Keys -> 0..MaxPerBucket]
  <1>1. phase'[r] = p /\ \A s \in Requests \ {r} : phase'[s] = phase[s]
    BY DEF Base, TypeOK
  <1>2. ~Counted(r)' /\ \A s \in Requests \ {r} : Counted(s)' <=> Counted(s)
    BY <1>1 DEF Counted, Gate
  <1>3. CASE Counted(r)
    <2>1. queued' = queued - 1 /\ waiting' = [waiting EXCEPT ![key[r]] = @ - 1]
      BY <1>3 DEF StopWaiting
    <2>2. CountsWaiters' /\ queued > 0 /\ waiting[key[r]] > 0
      BY <1>2, <1>3, <2>1, CountsLess DEF Base
    <2>3. queued \in 0..MaxQueued /\ waiting \in [Keys -> 0..MaxPerBucket] /\ key[r] \in Keys
      BY DEF Base, TypeOK
    <2>4. queued' \in 0..MaxQueued
      BY <2>1, <2>2, <2>3, SchedulerAssumption
    <2>5. waiting[key[r]] - 1 \in 0..MaxPerBucket
      BY <2>2, <2>3, SchedulerAssumption
    <2>6. waiting' \in [Keys -> 0..MaxPerBucket]
      BY <2>1, <2>3, <2>5
    <2> QED BY <2>2, <2>4, <2>6
  <1>4. CASE ~Counted(r)
    <2>1. queued' = queued /\ waiting' = waiting
      BY <1>4 DEF StopWaiting
    <2> QED BY <1>2, <1>4, <2>1, CountsSame DEF Base, TypeOK
  <1> QED BY <1>3, <1>4

-----------------------------------------------------------------------------
(* Base is inductive.                                                      *)

LEMMA BaseInit == Init => Base
  <1> SUFFICES ASSUME Init PROVE Base
    OBVIOUS
  <1> USE DEF Init
  <1>1. TypeOK
    BY SchedulerAssumption DEF TypeOK, Keys, Phases
  <1>2. CountsWaiters
    <2>1. {r \in Requests : Counted(r)} = {}
      BY DEF Counted
    <2>2. \A k \in Keys : {r \in Requests : Counted(r) /\ key[r] = k} = {}
      BY DEF Counted
    <2>3. queued = 0 /\ \A k \in Keys : waiting[k] = 0
      OBVIOUS
    <2> QED BY <2>1, <2>2, <2>3, FS_EmptySet DEF CountsWaiters
  <1>3. \A g, h \in Gates : previous[g] = None /\ previous[g] # h
    BY NoneIsNoGate
  <1>4. \A r \in Requests, h \in 0..MAX_REMAPS : <<r, h>> \in Gates
    BY DEF Gates
  <1>5. Fresh
    BY <1>3, <1>4 DEF Fresh
  <1>6. Past
    BY SchedulerAssumption DEF Past
  <1>7. Stage
    BY DEF Stage, Active
  <1>8. Links /\ Tails
    BY <1>3 DEF Links, Tails
  <1>9. SameKey
    BY <1>1, <1>3, GateTyped DEF SameKey
  <1>10. Ordered
    <2> DEFINE age == [g \in Gates |-> 0]
    <2>1. age \in [Gates -> Nat] /\ 1 \in Nat
      OBVIOUS
    <2>2. \A g \in Gates : age[g] < 1 /\ \A f \in Gates : previous[g] = f => age[f] < age[g]
      BY <1>3
    <2> HIDE DEF age
    <2> QED BY <2>1, <2>2 DEF Ordered
  <1> QED BY <1>1, <1>2, <1>5, <1>6, <1>7, <1>8, <1>9, <1>10 DEF Base

LEMMA ResolveTyped ==
    ASSUME NEW r \in Requests
    PROVE  Resolve(r) \in Keys
  BY SchedulerAssumption DEF Resolve, Keys

LEMMA SubmitKeepsBase ==
    ASSUME Base, NEW r \in Requests, Submit(r)
    PROVE  Base'
  <1>1. MayJoin(r, 0, Resolve(r)) /\ JoinQueue(r, 0, Resolve(r))
    BY ResolveTyped, SchedulerAssumption DEF Submit, MayJoin, Base, Stage
  <1> QED BY <1>1, JoinRefused, JoinAccepted, ResolveTyped

LEMMA MoveKeepsBase ==
    ASSUME Base, NEW r \in Requests, Move(r)
    PROVE  Base'
  <1>1. phase[r] = "moving" /\ hop[r] < MAX_REMAPS /\ hop[r] \in 0..MAX_REMAPS /\ key[r] \in Keys
    BY DEF Move, Base, Stage, TypeOK
  <1>2. hop[r] + 1 \in 0..MAX_REMAPS
    BY <1>1, SchedulerAssumption
  <1>3. MayJoin(r, hop[r] + 1, key[r]) /\ JoinQueue(r, hop[r] + 1, key[r])
    BY <1>1, <1>2 DEF Move, MayJoin
  <1> QED BY <1>1, <1>2, <1>3, JoinRefused, JoinAccepted

LEMMA StartKeepsBase ==
    ASSUME Base, NEW r \in Requests, Start(r)
    PROVE  Base'
  <1> DEFINE p == IF hop[r] < MAX_REMAPS THEN "checking" ELSE "running"
  <1>1. /\ phase[r] = "queued" /\ MayStart(Gate(r)) /\ StopWaiting(r)
        /\ phase' = [phase EXCEPT ![r] = p]
        /\ UNCHANGED <<known, hop, key, queues, previous, opened, linked>>
    BY DEF Start
  <1>2. p \in {"checking", "running"} /\ (p = "checking" => hop[r] < MAX_REMAPS)
    OBVIOUS
  <1> HIDE DEF p
  <1>3. CountsWaiters' /\ queued' \in 0..MaxQueued /\ waiting' \in [Keys -> 0..MaxPerBucket]
    BY <1>1, <1>2, StopKeepsCounts
  <1>4. TypeOK'
    BY <1>1, <1>2, <1>3 DEF Base, TypeOK, Phases
  <1>5. /\ phase'[r] = p /\ \A s \in Requests \ {r} : phase'[s] = phase[s]
        /\ \A s \in Requests : Gate(s)' = Gate(s) /\ (Active(s)' <=> Active(s))
        /\ \A s \in Requests, h \in 0..MAX_REMAPS : Unused(s, h)' <=> Unused(s, h)
        /\ \A g \in Gates : MayStart(g)' <=> MayStart(g)
    BY <1>1, <1>2 DEF Base, TypeOK, Gate, Active, Unused, MayStart
  <1>6. Fresh'
    BY <1>1, <1>5 DEF Base, Fresh
  <1>7. Past'
    BY <1>1 DEF Base, Past, MayStart
  <1>8. Stage'
    <2>1. \A s \in Requests : Gate(s) \in Gates
      BY GateTyped DEF Base
    <2>2. \A s \in Requests \ {r} :
            /\ phase'[s] = "idle" => hop'[s] = 0
            /\ phase'[s] \in {"checking", "moving"} => hop'[s] < MAX_REMAPS
            /\ phase'[s] \in {"moving", "freed", "done"} => Gate(s) \in opened
            /\ phase'[s] \in {"checking", "running", "moving", "freed", "done"}
                 => MayStart(Gate(s))
      BY <1>1, <1>5 DEF Base, Stage
    <2>3. \A s \in Requests : Active(s)' => Gate(s) \notin opened \cup linked
      BY <1>5 DEF Base, Stage
    <2> QED BY <1>1, <1>2, <1>5, <2>1, <2>2, <2>3 DEF Stage
  <1>9. Tails'
    BY <1>1, <1>5 DEF Base, Tails
  <1>10. Links' /\ Ordered' /\ SameKey'
    BY <1>1, <1>5 DEF Base, Links, Ordered, SameKey
  <1> QED BY <1>3, <1>4, <1>6, <1>7, <1>8, <1>9, <1>10 DEF Base

\* A request that leaves without having waited keeps the counters.
LEMMA LeaveKeepsCounts ==
    ASSUME Base, NEW r \in Requests, phase[r] # "queued",
           NEW p, p # "queued", phase' = [phase EXCEPT ![r] = p],
           \A s \in Requests \ {r} : key'[s] = key[s],
           hop' = hop, previous' = previous, queued' = queued, waiting' = waiting
    PROVE  CountsWaiters'
  <1>1. phase'[r] = p /\ \A s \in Requests \ {r} : phase'[s] = phase[s]
    BY DEF Base, TypeOK
  <1>2. /\ \A s \in Requests : Counted(s)' <=> Counted(s)
        /\ ~Counted(r)
    BY <1>1 DEF Counted, Gate
  <1> QED BY <1>2, CountsSame DEF Base

LEMMA CheckKeepsBase ==
    ASSUME Base, NEW r \in Requests, Check(r)
    PROVE  Base'
  <1>1. /\ phase[r] = "checking"
        /\ UNCHANGED <<known, hop, previous, queued, waiting>>
    BY DEF Check
  <1>2. MayStart(Gate(r)) /\ Active(r) /\ hop[r] < MAX_REMAPS
    BY <1>1 DEF Base, Stage, Active
  <1>3. CASE KeyIsCurrent(r)
    <2>1. phase' = [phase EXCEPT ![r] = "running"] /\ UNCHANGED <<key, queues, opened, linked>>
      BY <1>3 DEF Check
    <2>2. TypeOK'
      BY <1>1, <2>1 DEF Base, TypeOK, Phases
    <2>3. CountsWaiters'
      BY <1>1, <2>1, LeaveKeepsCounts
    <2>4. /\ phase'[r] = "running" /\ \A s \in Requests \ {r} : phase'[s] = phase[s]
          /\ \A s \in Requests : Gate(s)' = Gate(s) /\ (Active(s)' <=> Active(s))
          /\ \A s \in Requests, h \in 0..MAX_REMAPS : Unused(s, h)' <=> Unused(s, h)
      BY <1>1, <2>1 DEF Base, TypeOK, Gate, Active, Unused
    <2>5. Fresh' /\ Past'
      BY <1>1, <2>1, <2>4 DEF Base, Fresh, Past, MayStart
    <2>6. Stage'
      BY <1>1, <1>2, <2>1, <2>4 DEF Base, Stage, MayStart
    <2>7. Tails' /\ Links' /\ Ordered' /\ SameKey'
      BY <1>1, <2>1, <2>4 DEF Base, Tails, Links, Ordered, SameKey
    <2> QED BY <2>2, <2>3, <2>5, <2>6, <2>7 DEF Base
  <1>4. CASE ~KeyIsCurrent(r)
    <2>1. /\ phase' = [phase EXCEPT ![r] = "moving"]
          /\ key' = [key EXCEPT ![r] = Resolve(r)]
          /\ Release(r, TRUE)
      BY <1>4 DEF Check
    <2>2. \A s \in Requests \ {r} : key'[s] = key[s]
      BY <2>1 DEF Base, TypeOK
    <2>3. TypeOK'
      BY <1>1, <2>1, Releases, ResolveTyped DEF Base, TypeOK, Phases
    <2>4. CountsWaiters'
      BY <1>1, <2>1, <2>2, LeaveKeepsCounts
    <2>5. Fresh' /\ Past' /\ Stage' /\ Links' /\ Tails' /\ SameKey' /\ Ordered'
      BY <1>1, <1>2, <2>1, <2>2, LeaveKeepsChain
    <2> QED BY <2>3, <2>4, <2>5 DEF Base
  <1> QED BY <1>3, <1>4

\* A running request gives its slot up.
LEMMA FreeKeepsBase ==
    ASSUME Base, NEW r \in Requests, phase[r] = "running",
           NEW p \in {"freed", "done"}, phase' = [phase EXCEPT ![r] = p], Release(r, TRUE),
           UNCHANGED <<known, hop, key, previous, queued, waiting>>
    PROVE  Base'
  <1>1. MayStart(Gate(r)) /\ Active(r)
    BY DEF Base, Stage, Active
  <1>2. TypeOK'
    BY Releases DEF Base, TypeOK, Phases
  <1>3. CountsWaiters'
    BY LeaveKeepsCounts
  <1>4. Fresh' /\ Past' /\ Stage' /\ Links' /\ Tails' /\ SameKey' /\ Ordered'
    BY <1>1, LeaveKeepsChain
  <1> QED BY <1>2, <1>3, <1>4 DEF Base

LEMMA SettleKeepsBase ==
    ASSUME Base, NEW r \in Requests, Settle(r)
    PROVE  Base'
  <1>1. /\ phase[r] \in {"running", "freed"}
        /\ phase' = [phase EXCEPT ![r] = "done"]
        /\ UNCHANGED <<known, hop, key, previous, queued, waiting>>
    BY DEF Settle
  <1>2. CASE phase[r] = "running"
    BY <1>1, <1>2, FreeKeepsBase DEF Settle
  <1>3. CASE phase[r] = "freed"
    <2>1. UNCHANGED <<queues, opened, linked>>
      BY <1>3 DEF Settle
    <2>2. TypeOK'
      BY <1>1, <2>1 DEF Base, TypeOK, Phases
    <2>3. CountsWaiters'
      BY <1>1, <2>1, LeaveKeepsCounts
    <2>4. /\ phase'[r] = "done" /\ \A s \in Requests \ {r} : phase'[s] = phase[s]
          /\ \A s \in Requests : Gate(s)' = Gate(s) /\ (Active(s)' <=> Active(s))
          /\ \A s \in Requests, h \in 0..MAX_REMAPS : Unused(s, h)' <=> Unused(s, h)
      BY <1>1, <1>3, <2>1 DEF Base, TypeOK, Gate, Active, Unused
    <2>5. Fresh' /\ Past'
      BY <1>1, <2>1, <2>4 DEF Base, Fresh, Past, MayStart
    <2>6. Stage'
      BY <1>1, <1>3, <2>1, <2>4 DEF Base, Stage, MayStart
    <2>7. Tails' /\ Links' /\ Ordered' /\ SameKey'
      BY <1>1, <2>1, <2>4 DEF Base, Tails, Links, Ordered, SameKey
    <2> QED BY <2>2, <2>3, <2>5, <2>6, <2>7 DEF Base
  <1> QED BY <1>1, <1>2, <1>3

LEMMA AbortKeepsBase ==
    ASSUME Base, NEW r \in Requests, Abort(r)
    PROVE  Base'
  <1>1. /\ phase[r] = "queued" /\ phase' = [phase EXCEPT ![r] = "aborted"]
        /\ StopWaiting(r) /\ Release(r, FALSE)
        /\ UNCHANGED <<known, hop, key, previous>>
    BY DEF Abort
  <1>2. CountsWaiters' /\ queued' \in 0..MaxQueued /\ waiting' \in [Keys -> 0..MaxPerBucket]
    BY <1>1, StopKeepsCounts
  <1>3. TypeOK'
    BY <1>1, <1>2, Releases DEF Base, TypeOK, Phases
  <1>4. Fresh' /\ Past' /\ Stage' /\ Links' /\ Tails' /\ SameKey' /\ Ordered'
    BY <1>1, LeaveKeepsChain DEF Active
  <1> QED BY <1>2, <1>3, <1>4 DEF Base

\* A linked gate that opens is that of an aborted request.
LEMMA FollowedIsAborted ==
    ASSUME Base, NEW g \in Gates, Follow(g)
    PROVE  \E r \in Requests : g = Gate(r) /\ phase[r] = "aborted"
  <1>1. g \in linked /\ g \notin opened
    BY DEF Follow
  <1>2. g \in linked \/ \E f \in Gates : previous[f] = g
    BY <1>1
  <1>3. PICK r \in Requests : g = Gate(r) /\ (Active(r) \/ phase[r] = "aborted")
    BY <1>1, <1>2, ClosedIsCurrent
  <1> QED BY <1>1, <1>3 DEF Base, Stage

LEMMA FollowKeepsBase ==
    ASSUME Base, NEW g \in Gates, Follow(g)
    PROVE  Base'
  <1>1. /\ g \in linked /\ opened' = opened \cup {g}
        /\ UNCHANGED <<known, phase, hop, key, queues, previous, linked, queued, waiting>>
    BY DEF Follow
  <1>2. TypeOK'
    BY <1>1 DEF Base, TypeOK
  <1>3. CountsWaiters'
    <2>1. \A s \in Requests : Counted(s)' <=> Counted(s)
      BY <1>1 DEF Counted, Gate
    <2> QED BY <1>1, <2>1, CountsSame DEF Base
  <1>4. /\ \A s \in Requests : Gate(s)' = Gate(s) /\ (Active(s)' <=> Active(s))
        /\ \A s \in Requests, h \in 0..MAX_REMAPS : Unused(s, h)' <=> Unused(s, h)
        /\ \A f \in Gates : MayStart(f) => MayStart(f)'
    BY <1>1 DEF Gate, Active, Unused, MayStart
  <1>5. Fresh'
    BY <1>1, <1>4 DEF Base, Fresh
  <1>6. Past'
    <2>1. \A s \in Requests, h \in 0..MAX_REMAPS : <<s, h>> \in Gates
      BY DEF Gates
    <2> QED BY <1>1, <1>4, <2>1 DEF Base, Past
  <1>7. Stage'
    <2>1. \A s \in Requests : Gate(s) \in Gates
      BY GateTyped DEF Base
    <2> QED BY <1>1, <1>4, <2>1 DEF Base, Stage
  <1>8. Tails' /\ Links' /\ Ordered' /\ SameKey'
    BY <1>1, <1>4 DEF Base, Tails, Links, Ordered, SameKey
  <1> QED BY <1>2, <1>3, <1>5, <1>6, <1>7, <1>8 DEF Base

LEMMA BaseStep == Base /\ [Next]_vars => Base'
  <1> SUFFICES ASSUME Base, [Next]_vars PROVE Base'
    OBVIOUS
  <1>1. ASSUME NEW r \in Requests, Submit(r) PROVE Base'
    BY <1>1, SubmitKeepsBase
  <1>2. ASSUME NEW r \in Requests, Advance(r) PROVE Base'
    BY <1>2, StartKeepsBase, CheckKeepsBase, MoveKeepsBase, SettleKeepsBase DEF Advance
  <1>3. ASSUME NEW r \in Requests, FreeEarly(r) PROVE Base'
    BY <1>3, FreeKeepsBase DEF FreeEarly
  <1>4. ASSUME NEW r \in Requests, Abort(r) PROVE Base'
    BY <1>4, AbortKeepsBase
  <1>5. ASSUME NEW g \in Gates, Follow(g) PROVE Base'
    BY <1>5, FollowKeepsBase
  <1>6. ASSUME UNCHANGED <<phase, hop, key, queues, previous, opened, linked, queued, waiting>>,
               known' \in SUBSET Routes
        PROVE  Base'
    <2>1. /\ \A s \in Requests : /\ Gate(s)' = Gate(s) /\ (Active(s)' <=> Active(s))
                                 /\ Counted(s)' <=> Counted(s)
          /\ \A s \in Requests, h \in 0..MAX_REMAPS : Unused(s, h)' <=> Unused(s, h)
      BY <1>6 DEF Gate, Active, Unused, Counted
    <2>2. CountsWaiters'
      BY <1>6, <2>1, CountsSame DEF Base
    <2>3. TypeOK' /\ Fresh' /\ Past' /\ Stage'
      BY <1>6, <2>1 DEF Base, TypeOK, Fresh, Past, Stage, MayStart
    <2>4. Tails' /\ Links' /\ Ordered' /\ SameKey'
      BY <1>6, <2>1 DEF Base, Tails, Links, Ordered, SameKey
    <2> QED BY <2>2, <2>3, <2>4 DEF Base
  <1>7. ASSUME NEW r \in Requests, Learn(r) PROVE Base'
    BY <1>6, <1>7, SchedulerAssumption DEF Learn, Base, TypeOK
  <1>8. ASSUME UNCHANGED vars PROVE Base'
    BY <1>6, <1>8 DEF vars, Base, TypeOK
  <1> QED BY <1>1, <1>2, <1>3, <1>4, <1>5, <1>7, <1>8 DEF Next

-----------------------------------------------------------------------------
(* Slots is inductive when no last waiter is aborted while another runs.   *)

\* A set of numbers that is not empty has a least one.
LEMMA Smallest ==
    ASSUME NEW T \in SUBSET Nat, T # {}
    PROVE  \E x \in T : \A y \in T : x <= y
  <1>1. PICK x \in T : \A y \in T : <<y, x>> \notin OpToRel(<, Nat)
    BY NatLessThanWellFounded, WFMin
  <1>2. \A y \in T : ~(y < x)
    BY <1>1 DEF OpToRel
  <1>3. x \in T /\ \A y \in T : x <= y
    BY <1>2
  <1> QED BY <1>3

\* Nobody else of a key is busy when its last turn may start.
LEMMA TailIsAlone ==
    ASSUME Base, OneMayStart, NEW t \in Requests, NEW u \in Requests,
           Active(t), MayStart(Gate(t)), queues[key[t]] = Gate(t),
           Busy(u), key[u] = key[t]
    PROVE  u = t
  <1> DEFINE Others == {s \in Requests : s # t /\ Busy(s) /\ key[s] = key[t]}
  <1>1. PICK age \in [Gates -> Nat], now \in Nat :
           \A g \in Gates : /\ age[g] < now
                            /\ \A f \in Gates : previous[g] = f => age[f] < age[g]
    BY DEF Base, Ordered
  <1>2. Busy(t) /\ key[t] \in Keys
    BY DEF Busy, Base, TypeOK
  <1>3. \A s \in Requests : Gate(s) \in Gates
    BY GateTyped DEF Base
  <1>4. ASSUME NEW s \in Others
        PROVE  \E v \in Others : age[Gate(v)] < age[Gate(s)]
    <2>1. ~MayStart(Gate(s))
      BY <1>2 DEF OneMayStart
    <2>2. previous[Gate(s)] \in Gates /\ previous[Gate(s)] \notin opened
      BY <1>3, <2>1 DEF MayStart, Base, TypeOK
    <2>3. \E f \in Gates : previous[f] = previous[Gate(s)]
      BY <1>3
    <2>4. PICK v \in Requests : previous[Gate(s)] = Gate(v) /\ (Active(v) \/ phase[v] = "aborted")
      BY <2>2, <2>3, ClosedIsCurrent
    <2>5. Busy(v)
      BY <2>2, <2>4 DEF Busy
    <2>6. key[v] = key[s]
      BY <2>2, <2>4 DEF Base, SameKey
    <2>7. v # t
      <3>1. queues[key[t]] # None
        BY <1>3, NoneIsNoGate
      <3> QED BY <1>2, <1>3, <2>4, <3>1 DEF Base, Tails
    <2>8. age[Gate(v)] < age[Gate(s)]
      BY <1>1, <1>3, <2>4
    <2> QED BY <2>5, <2>6, <2>7, <2>8
  <1>5. SUFFICES ASSUME u \in Others PROVE FALSE
    OBVIOUS
  <1> DEFINE T == {age[Gate(s)] : s \in Others}
  <1>6. T \in SUBSET Nat /\ T # {}
    BY <1>3, <1>5
  <1>7. PICK x \in T : \A y \in T : x <= y
    <2> HIDE DEF T
    <2> QED BY <1>6, Smallest
  <1>8. PICK s \in Others : x = age[Gate(s)]
    BY <1>7
  <1>9. PICK v \in Others : age[Gate(v)] < age[Gate(s)]
    BY <1>4
  <1>10. age[Gate(v)] \in T /\ age[Gate(v)] \in Nat /\ x \in Nat
    BY <1>3, <1>6, <1>7
  <1> QED BY <1>7, <1>8, <1>9, <1>10

\* Opening the gate of the turn that may start passes the slot to the turn behind it.
LEMMA OpeningPasses ==
    ASSUME Base, OneMayStart, NEW r \in Requests, MayStart(Gate(r)),
           Gate(r) \notin opened, Active(r) \/ phase[r] = "aborted",
           opened' = opened \cup {Gate(r)},
           \A s \in Requests : Gate(s)' = Gate(s),
           previous' = previous,
           \A s \in Requests : Busy(s)' => s # r /\ Busy(s) /\ key'[s] = key[s]
    PROVE  OneMayStart'
  <1>1. ASSUME NEW a \in Requests, NEW b \in Requests, Busy(a), Busy(b), key[a] = key[b],
               a # r, MayStart(Gate(a)), previous[Gate(b)] = Gate(r)
        PROVE  FALSE
    <2>1. key[b] = key[r]
      BY <1>1 DEF Base, SameKey
    <2>2. Busy(r)
      BY <1>1 DEF Busy
    <2> QED BY <1>1, <2>1, <2>2 DEF OneMayStart
  <1>2. ASSUME NEW a \in Requests, NEW b \in Requests,
               Busy(a), Busy(b), key[a] = key[b], a # r, b # r,
               MayStart(Gate(a)) \/ previous[Gate(a)] = Gate(r),
               MayStart(Gate(b)) \/ previous[Gate(b)] = Gate(r)
        PROVE  a = b
    <2>1. CASE MayStart(Gate(a)) /\ MayStart(Gate(b))
      BY <1>2, <2>1 DEF OneMayStart
    <2>2. CASE MayStart(Gate(a)) /\ previous[Gate(b)] = Gate(r)
      BY <1>1, <1>2, <2>2
    <2>3. CASE MayStart(Gate(b)) /\ previous[Gate(a)] = Gate(r)
      BY <1>1, <1>2, <2>3
    <2>4. CASE previous[Gate(a)] = Gate(r) /\ previous[Gate(b)] = Gate(r)
      <3>1. Gate(r) # None /\ Gate(a) \in Gates /\ Gate(b) \in Gates
        BY GateTyped, NoneIsNoGate DEF Base
      <3>2. Gate(a) = Gate(b)
        BY <2>4, <3>1 DEF Base, Links
      <3> QED BY <3>2, OwnGates
    <2> QED BY <1>2, <2>1, <2>2, <2>3, <2>4
  <1>3. ASSUME NEW s \in Requests, MayStart(Gate(s))'
        PROVE  MayStart(Gate(s)) \/ previous[Gate(s)] = Gate(r)
    BY <1>3 DEF MayStart
  <1> QED BY <1>2, <1>3 DEF OneMayStart

\* Where no gate opens and nobody comes, nothing is passed.
LEMMA NothingPasses ==
    ASSUME OneMayStart, opened' = opened, previous' = previous,
           \A s \in Requests : Gate(s)' = Gate(s),
           \A s \in Requests : Busy(s)' => Busy(s) /\ key'[s] = key[s]
    PROVE  OneMayStart'
  <1>1. \A s \in Requests : MayStart(Gate(s))' => MayStart(Gate(s))
    BY DEF MayStart
  <1> QED BY <1>1 DEF OneMayStart

\* The key of a turn that leaves keeps its entry while another turn is busy.
LEMMA LeaveKeepsSlots ==
    ASSUME Base, Slots, NEW r \in Requests, Active(r),
           NEW started \in BOOLEAN, Release(r, started),
           MayStart(Gate(r)) \/ (~started /\ queues[key[r]] # Gate(r)),
           started => MayStart(Gate(r)),
           NEW p, phase' = [phase EXCEPT ![r] = p],
           p \in IF started THEN {"moving", "freed", "done"} ELSE {"aborted"},
           hop' = hop, previous' = previous,
           \A s \in Requests \ {r} : key'[s] = key[s],
           ~started => key' = key
    PROVE  Slots'
  <1>1. /\ opened \subseteq opened' /\ opened' \subseteq opened \cup {Gate(r)}
        /\ started => Gate(r) \in opened'
        /\ \A k \in Keys : k # key[r] => queues'[k] = queues[k]
        /\ queues'[key[r]] = IF queues[key[r]] = Gate(r) THEN None ELSE queues[key[r]]
    BY Releases DEF Base
  <1>2. /\ phase'[r] = p /\ \A s \in Requests \ {r} : phase'[s] = phase[s]
        /\ \A s \in Requests : Gate(s)' = Gate(s)
        /\ \A s \in Requests : key[s] \in Keys
    BY DEF Base, TypeOK, Gate
  <1>3. Busy(r)
    BY DEF Busy
  <1>4. ASSUME NEW s \in Requests, s # r, Busy(s)' PROVE Busy(s) /\ key'[s] = key[s]
    BY <1>1, <1>2, <1>4 DEF Busy, Active
  <1>5. ASSUME Busy(r)' PROVE ~started /\ key' = key /\ Gate(r) \notin opened'
    BY <1>1, <1>2, <1>5 DEF Busy, Active
  <1>6. Entries'
    <2> SUFFICES ASSUME NEW s \in Requests, Busy(s)' PROVE queues'[key'[s]] # None
      BY DEF Entries
    <2>1. key'[s] = key[s] /\ Busy(s) /\ queues[key[s]] # None
      BY <1>3, <1>4, <1>5 DEF Slots, Entries
    <2>2. CASE key[s] # key[r] \/ queues[key[r]] # Gate(r)
      BY <1>1, <1>2, <2>1, <2>2
    <2>3. CASE key[s] = key[r] /\ queues[key[r]] = Gate(r)
      <3>1. MayStart(Gate(r))
        BY <2>3
      <3>2. s = r
        BY <2>1, <2>3, <3>1, TailIsAlone DEF Slots
      <3>3. PICK v \in Requests : previous[Gate(v)] = Gate(r)
        BY <1>2, <3>2 DEF Busy, Active
      <3>4. Gate(v) \in Gates /\ Gate(r) # None
        BY GateTyped, NoneIsNoGate DEF Base
      <3> QED BY <1>2, <2>3, <3>3, <3>4 DEF Base, Tails
    <2> QED BY <2>2, <2>3
  <1>7. OneMayStart'
    <2>1. CASE opened' = opened
      BY <1>2, <1>3, <1>4, <1>5, <2>1, NothingPasses DEF Slots
    <2>2. CASE opened' # opened
      <3>1. opened' = opened \cup {Gate(r)} /\ Gate(r) \notin opened
        BY <1>1, <2>2
      <3>2. MayStart(Gate(r))
        BY <2>2 DEF Release, MayStart
      <3> QED BY <1>2, <1>4, <1>5, <3>1, <3>2, OpeningPasses DEF Slots
    <2> QED BY <2>1, <2>2
  <1> QED BY <1>6, <1>7 DEF Slots

\* A request that joins may start only if nobody of its key is busy.
LEMMA JoinKeepsSlots ==
    ASSUME Base, Slots, NEW r, NEW h, NEW k, MayJoin(r, h, k), JoinQueue(r, h, k)
    PROVE  Slots'
  <1> USE DEF MayJoin
  <1> DEFINE new == <<r, h>>
  <1>1. /\ key' = [key EXCEPT ![r] = k] /\ hop' = [hop EXCEPT ![r] = h]
        /\ opened' = opened
        /\ phase' = [phase EXCEPT ![r] = IF Full(k) THEN "overloaded" ELSE "queued"]
        /\ Full(k) => previous' = previous /\ queues' = queues
        /\ ~Full(k) => /\ previous' = [previous EXCEPT ![new] = queues[k]]
                       /\ queues' = [queues EXCEPT ![k] = new]
    BY DEF JoinQueue
  <1>2. /\ \A s \in Requests \ {r} : /\ phase'[s] = phase[s] /\ key'[s] = key[s]
                                     /\ Gate(s)' = Gate(s)
        /\ phase'[r] = (IF Full(k) THEN "overloaded" ELSE "queued")
        /\ key'[r] = k /\ Gate(r)' = new
    BY <1>1 DEF Base, TypeOK, Gate
  <1>3. new \in Gates /\ new # None
    BY NewGate, NoneIsNoGate
  <1>4. /\ \A g \in Gates : g # new => previous'[g] = previous[g]
        /\ Full(k) => previous'[new] = None
        /\ ~Full(k) => previous'[new] = queues[k] /\ queues'[k] = new
        /\ \A i \in Keys \ {k} : queues'[i] = queues[i]
        /\ queues[k] # None => queues'[k] # None
    BY <1>1, <1>3, NewGate DEF Base, TypeOK
  <1>5. \A s \in Requests : Gate(s) \in Gates
    BY GateTyped DEF Base
  <1>6. ASSUME NEW s \in Requests, s # r
        PROVE  MayStart(Gate(s))' <=> MayStart(Gate(s))
    BY <1>1, <1>2, <1>4, <1>5, <1>6, NewGate DEF MayStart
  <1>7. ASSUME NEW s \in Requests, s # r, Busy(s)' PROVE Busy(s)
    <2>1. CASE Active(s)'
      BY <1>2, <1>7, <2>1 DEF Active, Busy
    <2>2. CASE ~Active(s)'
      <3>1. phase[s] = "aborted" /\ Gate(s) \notin opened
        BY <1>1, <1>2, <1>7, <2>2 DEF Busy
      <3>2. PICK v \in Requests : previous'[Gate(v)'] = Gate(s)
        BY <1>2, <1>7, <2>2 DEF Busy
      <3>3. CASE v = r
        <4>1. queues[k] = Gate(s) /\ queues[k] # None
          BY <1>2, <1>4, <1>5, <3>2, <3>3, NoneIsNoGate
        <4>2. Active(s)
          BY <4>1, TailIsActive, OwnGates
        <4> QED BY <4>2 DEF Busy
      <3>4. CASE v # r
        <4>1. previous[Gate(v)] = Gate(s)
          BY <1>2, <1>4, <1>5, <3>2, <3>4, NewGate
        <4> QED BY <3>1, <4>1 DEF Busy
      <3> QED BY <3>3, <3>4
    <2> QED BY <2>1, <2>2
  <1>8. Entries'
    <2> SUFFICES ASSUME NEW s \in Requests, Busy(s)' PROVE queues'[key'[s]] # None
      BY DEF Entries
    <2>1. CASE s = r
      <3>1. ~Full(k)
        BY <1>2, <2>1 DEF Busy, Active
      <3> QED BY <1>2, <1>3, <1>4, <2>1, <3>1
    <2>2. CASE s # r
      <3>1. queues[key[s]] # None /\ key'[s] = key[s] /\ key[s] \in Keys
        BY <1>2, <1>7, <2>2 DEF Slots, Entries, Base, TypeOK
      <3> QED BY <1>4, <3>1
    <2> QED BY <2>1, <2>2
  <1>9. ASSUME NEW s \in Requests, s # r, Busy(s)', key'[s] = k, Busy(r)', MayStart(Gate(r))'
        PROVE  FALSE
    <2>1. ~Full(k)
      BY <1>2, <1>9 DEF Busy, Active
    <2>2. queues[k] # None
      BY <1>2, <1>7, <1>9 DEF Slots, Entries
    <2>3. queues[k] \notin opened
      BY <2>2, TailIsActive DEF Base, Stage
    <2> QED BY <1>1, <1>2, <1>4, <1>9, <2>1, <2>2, <2>3 DEF MayStart
  <1>10. OneMayStart'
    <2> SUFFICES ASSUME NEW a \in Requests, NEW b \in Requests, Busy(a)', Busy(b)',
                        key'[a] = key'[b], MayStart(Gate(a))', MayStart(Gate(b))'
                 PROVE  a = b
      BY DEF OneMayStart
    <2>1. CASE a # r /\ b # r
      <3>1. Busy(a) /\ Busy(b) /\ key[a] = key[b]
        BY <1>2, <1>7, <2>1
      <3>2. MayStart(Gate(a)) /\ MayStart(Gate(b))
        BY <1>6, <2>1
      <3> QED BY <3>1, <3>2 DEF Slots, OneMayStart
    <2>2. CASE a = r \/ b = r
      BY <1>2, <1>9, <2>2
    <2> QED BY <2>1, <2>2
  <1> QED BY <1>8, <1>10 DEF Slots

\* Steps that open no gate, enter nobody and leave the entries alone.
LEMMA QuietKeepsSlots ==
    ASSUME Slots, opened' = opened, previous' = previous, queues' = queues,
           \A s \in Requests : Gate(s)' = Gate(s),
           \A s \in Requests : Busy(s)' => Busy(s) /\ key'[s] = key[s]
    PROVE  Slots'
  <1>1. OneMayStart'
    BY NothingPasses DEF Slots
  <1>2. Entries'
    BY DEF Slots, Entries
  <1> QED BY <1>1, <1>2 DEF Slots

\* A step that only moves r from one phase to another keeps the slots, unless r
\* becomes active or aborted by it.
LEMMA PhaseKeepsSlots ==
    ASSUME Base, Slots, NEW r \in Requests, NEW p, phase' = [phase EXCEPT ![r] = p],
           p \in {"checking", "running", "done"},
           Active(r) \/ p = "done",
           UNCHANGED <<hop, key, queues, previous, opened>>
    PROVE  Slots'
  <1>1. /\ phase'[r] = p /\ \A s \in Requests \ {r} : phase'[s] = phase[s]
        /\ \A s \in Requests : Gate(s)' = Gate(s)
    BY DEF Base, TypeOK, Gate
  <1>2. ASSUME NEW s \in Requests, Busy(s)' PROVE Busy(s) /\ key'[s] = key[s]
    BY <1>1, <1>2 DEF Busy, Active
  <1> QED BY <1>1, <1>2, QuietKeepsSlots

LEMMA FollowKeepsSlots ==
    ASSUME Base, Slots, NEW g \in Gates, Follow(g)
    PROVE  Slots'
  <1>1. PICK r \in Requests : g = Gate(r) /\ phase[r] = "aborted"
    BY FollowedIsAborted
  <1>2. /\ Gate(r) \notin opened /\ MayStart(Gate(r)) /\ opened' = opened \cup {Gate(r)}
        /\ UNCHANGED <<phase, hop, key, queues, previous>>
    BY <1>1 DEF Follow
  <1>3. \A s \in Requests : Gate(s)' = Gate(s) /\ (Active(s)' <=> Active(s))
    BY <1>2 DEF Gate, Active
  <1>4. ASSUME NEW s \in Requests, Busy(s)' PROVE Busy(s) /\ s # r
    BY <1>1, <1>2, <1>3, <1>4 DEF Busy, Active
  <1>5. OneMayStart'
    BY <1>1, <1>2, <1>3, <1>4, OpeningPasses DEF Slots
  <1>6. Entries'
    BY <1>2, <1>4 DEF Slots, Entries
  <1> QED BY <1>5, <1>6 DEF Slots

LEMMA SlotsInit == Init => Slots
  BY DEF Init, Slots, Entries, OneMayStart, Busy, Active

LEMMA SlotsStep == ~TailAborts /\ Base /\ Slots /\ [Next]_vars => Slots'
  <1> SUFFICES ASSUME ~TailAborts, Base, Slots, [Next]_vars PROVE Slots'
    OBVIOUS
  <1>1. ASSUME NEW r \in Requests, Submit(r) PROVE Slots'
    <2>1. MayJoin(r, 0, Resolve(r)) /\ JoinQueue(r, 0, Resolve(r))
      BY <1>1, ResolveTyped, SchedulerAssumption DEF Submit, MayJoin, Base, Stage
    <2> QED BY <2>1, JoinKeepsSlots
  <1>2. ASSUME NEW r \in Requests, Move(r) PROVE Slots'
    <2>1. phase[r] = "moving" /\ hop[r] < MAX_REMAPS /\ hop[r] \in 0..MAX_REMAPS /\ key[r] \in Keys
      BY <1>2 DEF Move, Base, Stage, TypeOK
    <2>2. hop[r] + 1 \in 0..MAX_REMAPS
      BY <2>1, SchedulerAssumption
    <2>3. MayJoin(r, hop[r] + 1, key[r]) /\ JoinQueue(r, hop[r] + 1, key[r])
      BY <1>2, <2>1, <2>2 DEF Move, MayJoin
    <2> QED BY <2>3, JoinKeepsSlots
  <1>3. ASSUME NEW r \in Requests, Start(r) PROVE Slots'
    <2>1. Active(r) /\ UNCHANGED <<hop, key, queues, previous, opened>>
      BY <1>3 DEF Start, Active
    <2>2. PICK p \in {"checking", "running"} : phase' = [phase EXCEPT ![r] = p]
      BY <1>3 DEF Start
    <2> QED BY <2>1, <2>2, PhaseKeepsSlots
  <1>4. ASSUME NEW r \in Requests, phase[r] \in {"checking", "running"}, Release(r, TRUE),
               NEW p \in {"moving", "freed", "done"}, phase' = [phase EXCEPT ![r] = p],
               hop' = hop, previous' = previous, \A s \in Requests \ {r} : key'[s] = key[s]
        PROVE  Slots'
    <2>1. Active(r) /\ MayStart(Gate(r))
      BY <1>4 DEF Active, Base, Stage
    <2> QED BY <1>4, <2>1, LeaveKeepsSlots
  <1>5. ASSUME NEW r \in Requests, Check(r) PROVE Slots'
    <2>1. phase[r] = "checking" /\ hop' = hop /\ previous' = previous
      BY <1>5 DEF Check
    <2>2. CASE KeyIsCurrent(r)
      <3>1. phase' = [phase EXCEPT ![r] = "running"] /\ UNCHANGED <<key, queues, opened>>
        BY <1>5, <2>2 DEF Check
      <3> QED BY <2>1, <3>1, PhaseKeepsSlots DEF Active
    <2>3. CASE ~KeyIsCurrent(r)
      <3>1. /\ phase' = [phase EXCEPT ![r] = "moving"] /\ Release(r, TRUE)
            /\ \A s \in Requests \ {r} : key'[s] = key[s]
        BY <1>5, <2>3 DEF Check, Base, TypeOK
      <3> QED BY <1>4, <2>1, <3>1
    <2> QED BY <2>2, <2>3
  <1>6. ASSUME NEW r \in Requests, FreeEarly(r) PROVE Slots'
    BY <1>4, <1>6 DEF FreeEarly
  <1>7. ASSUME NEW r \in Requests, Settle(r) PROVE Slots'
    <2>1. /\ phase[r] \in {"running", "freed"} /\ phase' = [phase EXCEPT ![r] = "done"]
          /\ hop' = hop /\ previous' = previous /\ key' = key
      BY <1>7 DEF Settle
    <2>2. CASE phase[r] = "running"
      BY <1>4, <1>7, <2>1, <2>2 DEF Settle
    <2>3. CASE phase[r] = "freed"
      <3>1. UNCHANGED <<queues, opened>>
        BY <1>7, <2>3 DEF Settle
      <3> QED BY <2>1, <3>1, PhaseKeepsSlots
    <2> QED BY <2>1, <2>2, <2>3
  <1>8. ASSUME NEW r \in Requests, Abort(r) PROVE Slots'
    <2>1. /\ phase[r] = "queued" /\ phase' = [phase EXCEPT ![r] = "aborted"]
          /\ Release(r, FALSE) /\ hop' = hop /\ previous' = previous /\ key' = key
          /\ queues[key[r]] # Gate(r) \/ MayStart(Gate(r))
      BY <1>8 DEF Abort
    <2> QED BY <2>1, LeaveKeepsSlots DEF Active
  <1>9. ASSUME NEW g \in Gates, Follow(g) PROVE Slots'
    BY <1>9, FollowKeepsSlots
  <1>10. ASSUME UNCHANGED <<phase, hop, key, queues, previous, opened>> PROVE Slots'
    <2>1. \A s \in Requests : Gate(s)' = Gate(s) /\ (Busy(s)' => Busy(s))
      BY <1>10 DEF Gate, Busy, Active
    <2> QED BY <1>10, <2>1, QuietKeepsSlots
  <1>11. ASSUME NEW r \in Requests, Learn(r) PROVE Slots'
    BY <1>10, <1>11 DEF Learn
  <1>12. ASSUME UNCHANGED vars PROVE Slots'
    BY <1>10, <1>12 DEF vars
  <1> QED BY <1>1, <1>2, <1>3, <1>5, <1>6, <1>7, <1>8, <1>9, <1>11, <1>12 DEF Next, Advance

-----------------------------------------------------------------------------
(* Keys.                                                                   *)

\* A request queues under its route or under the bucket a response has revealed, and
\* under the bucket once it has moved.
RightKey ==
    \A r \in Requests :
        \/ RouteOf[r] \in known /\ key[r] = BucketOf[RouteOf[r]]
        \/ key[r] = RouteOf[r] /\ hop[r] = 0 /\ phase[r] # "moving"

LEMMA RightKeyStep == Base /\ RightKey /\ [Next]_vars => RightKey'
  <1> SUFFICES ASSUME Base, RightKey, [Next]_vars PROVE RightKey'
    OBVIOUS
  <1>0. /\ phase \in [Requests -> Phases] /\ hop \in [Requests -> 0..MAX_REMAPS]
        /\ key \in [Requests -> Keys]
    BY DEF Base, TypeOK
  <1>1. ASSUME NEW r \in Requests, NEW h, NEW k, JoinQueue(r, h, k),
               \/ RouteOf[r] \in known /\ k = BucketOf[RouteOf[r]]
               \/ k = RouteOf[r] /\ h = 0
        PROVE  RightKey'
    <2>1. /\ key' = [key EXCEPT ![r] = k] /\ hop' = [hop EXCEPT ![r] = h] /\ known' = known
          /\ \E p \in {"overloaded", "queued"} : phase' = [phase EXCEPT ![r] = p]
      BY <1>1 DEF JoinQueue
    <2>2. /\ \A s \in Requests \ {r} : phase'[s] = phase[s] /\ key'[s] = key[s] /\ hop'[s] = hop[s]
          /\ phase'[r] # "moving" /\ key'[r] = k /\ hop'[r] = h
      BY <1>0, <2>1
    <2> QED BY <1>1, <2>1, <2>2 DEF RightKey
  <1>2. ASSUME NEW r \in Requests, Submit(r) PROVE RightKey'
    BY <1>1, <1>2 DEF Submit, Resolve
  <1>3. ASSUME NEW r \in Requests, Move(r) PROVE RightKey'
    <2>1. RouteOf[r] \in known /\ key[r] = BucketOf[RouteOf[r]] /\ JoinQueue(r, hop[r] + 1, key[r])
      BY <1>3 DEF Move, RightKey
    <2> QED BY <1>1, <2>1
  <1>4. ASSUME NEW r \in Requests, Check(r) PROVE RightKey'
    <2>1. CASE KeyIsCurrent(r)
      <3>1. /\ phase' = [phase EXCEPT ![r] = "running"] /\ UNCHANGED <<known, hop, key>>
        BY <1>4, <2>1 DEF Check
      <3>2. \A s \in Requests : phase'[s] = phase[s] \/ phase'[s] = "running"
        BY <1>0, <3>1
      <3> QED BY <3>1, <3>2 DEF RightKey
    <2>2. CASE ~KeyIsCurrent(r)
      <3>1. /\ phase' = [phase EXCEPT ![r] = "moving"] /\ known' = known /\ hop' = hop
            /\ key' = [key EXCEPT ![r] = Resolve(r)]
        BY <1>4, <2>2 DEF Check
      <3>2. /\ \A s \in Requests \ {r} : phase'[s] = phase[s] /\ key'[s] = key[s]
            /\ key'[r] = Resolve(r)
        BY <1>0, <3>1
      <3>3. RouteOf[r] \in known /\ Resolve(r) = BucketOf[RouteOf[r]]
        BY <2>2 DEF RightKey, KeyIsCurrent, Resolve
      <3> QED BY <3>1, <3>2, <3>3 DEF RightKey
    <2> QED BY <2>1, <2>2
  <1>5. ASSUME UNCHANGED <<hop, key>>, known \subseteq known',
               \A s \in Requests : phase'[s] = phase[s] \/ phase'[s] # "moving"
        PROVE  RightKey'
    BY <1>5 DEF RightKey
  <1>6. ASSUME NEW r \in Requests, Start(r) \/ Settle(r) \/ FreeEarly(r) \/ Abort(r)
        PROVE  RightKey'
    <2>1. UNCHANGED <<hop, key, known>>
      BY <1>6 DEF Start, Settle, FreeEarly, Abort
    <2>2. PICK p \in {"checking", "running", "done", "freed", "aborted"} :
             phase' = [phase EXCEPT ![r] = p]
      BY <1>6 DEF Start, Settle, FreeEarly, Abort
    <2> QED BY <1>0, <1>5, <2>1, <2>2
  <1>7. ASSUME NEW r \in Requests, Learn(r) PROVE RightKey'
    BY <1>5, <1>7 DEF Learn
  <1>8. ASSUME NEW g \in Gates, Follow(g) PROVE RightKey'
    BY <1>5, <1>8 DEF Follow
  <1>9. ASSUME UNCHANGED vars PROVE RightKey'
    BY <1>5, <1>9 DEF vars
  <1> QED BY <1>2, <1>3, <1>4, <1>6, <1>7, <1>8, <1>9 DEF Next, Advance

-----------------------------------------------------------------------------
(* Theorems.                                                               *)

\* The scheduler keeps to its types: no counter leaves its range and no gate refers to
\* a turn that cannot exist, whatever is aborted.
THEOREM TypeCorrect == Spec => []TypeOK
  <1>1. Base => TypeOK
    BY DEF Base
  <1> QED BY BaseInit, BaseStep, <1>1, PTL DEF Spec

\* #queued and #waiting are the numbers of requests that wait, on every path by which
\* a wait ends (scheduler.ts:137-146), whatever is aborted: the limits on queued
\* requests neither leak nor go negative.
THEOREM CountersExact == Spec => []CountsWaiters
  <1>1. Base => CountsWaiters
    BY DEF Base
  <1> QED BY BaseInit, BaseStep, <1>1, PTL DEF Spec

\* One request per key is in flight (scheduler.ts:14), through any sequence of joins,
\* moves, early releases and aborts in which the last waiter of a key is not aborted
\* while another request of the key runs.
THEOREM SlotsAreExclusive == ~TailAborts => (Spec => []OneInFlight)
  <1> SUFFICES ASSUME ~TailAborts PROVE Spec => []OneInFlight
    OBVIOUS
  <1>1. Base /\ Slots => OneInFlight
    BY DEF Base, Stage, Slots, OneMayStart, Busy, Active, OneInFlight, Holds
  <1>2. Init => Base /\ Slots
    BY BaseInit, SlotsInit
  <1>3. Base /\ Slots /\ [Next]_vars => (Base /\ Slots)'
    BY BaseStep, SlotsStep
  <1> QED BY <1>1, <1>2, <1>3, PTL DEF Spec

\* The invariant of the run: on top of the types and the counters, a key has an entry
\* exactly while somebody queues for it or holds it.
THEOREM Invariant == ~TailAborts => (Spec => []Inv)
  <1> SUFFICES ASSUME ~TailAborts PROVE Spec => []Inv
    OBVIOUS
  <1>1. Base /\ Slots => Inv
    <2> SUFFICES ASSUME Base, Slots PROVE EntryWhileBusy
      BY DEF Inv, Base
    <2>1. \A r \in Requests : Active(r) <=> phase[r] = "queued" \/ Holds(r)
      BY DEF Active, Holds
    <2> QED BY <2>1 DEF EntryWhileBusy, Base, Tails, Slots, Entries, Busy
  <1>2. Init => Base /\ Slots
    BY BaseInit, SlotsInit
  <1>3. Base /\ Slots /\ [Next]_vars => (Base /\ Slots)'
    BY BaseStep, SlotsStep
  <1> QED BY <1>1, <1>2, <1>3, PTL DEF Spec

\* A task runs under the key that its route resolves to when it starts, although the
\* last hop trusts the key it queued under (scheduler.ts:71-72): one move is enough.
THEOREM KeysAreCurrent == MAX_REMAPS # 0 => (Spec => RunsOnItsKey)
  <1> SUFFICES ASSUME MAX_REMAPS # 0 PROVE Spec => RunsOnItsKey
    OBVIOUS
  <1> DEFINE Runs(r) == phase[r] # "running" /\ phase'[r] = "running" => key'[r] = Resolve(r)
  <1>1. ASSUME Base, RightKey, [Next]_vars PROVE \A r \in Requests : Runs(r)
    <2>0. phase \in [Requests -> Phases] /\ hop \in [Requests -> 0..MAX_REMAPS]
      BY <1>1 DEF Base, TypeOK
    <2>1. ASSUME NEW s \in Requests, Start(s) PROVE \A r \in Requests : Runs(r)
      <3> SUFFICES ASSUME NEW r \in Requests, phase[r] # "running", phase'[r] = "running"
                   PROVE  key'[r] = Resolve(r)
        OBVIOUS
      <3>1. r = s /\ ~(hop[s] < MAX_REMAPS) /\ key' = key
        BY <2>0, <2>1 DEF Start
      <3>2. hop[r] # 0
        BY <2>0, <3>1, SchedulerAssumption
      <3> QED BY <1>1, <3>1, <3>2 DEF RightKey, Resolve
    <2>2. ASSUME NEW s \in Requests, Check(s) PROVE \A r \in Requests : Runs(r)
      <3> SUFFICES ASSUME NEW r \in Requests, phase[r] # "running", phase'[r] = "running"
                   PROVE  key'[r] = Resolve(r)
        OBVIOUS
      <3>1. r = s /\ KeyIsCurrent(s) /\ key' = key
        BY <2>0, <2>2 DEF Check
      <3> QED BY <3>1 DEF KeyIsCurrent
    <2>3. ASSUME NEW s \in Requests, NEW p \in Phases \ {"running"}, phase' = [phase EXCEPT ![s] = p]
          PROVE  \A r \in Requests : Runs(r)
      BY <2>0, <2>3
    <2>4. ASSUME NEW s \in Requests,
                 Submit(s) \/ Move(s) \/ Settle(s) \/ FreeEarly(s) \/ Abort(s)
          PROVE  \A r \in Requests : Runs(r)
      <3>1. \E p \in Phases \ {"running"} : phase' = [phase EXCEPT ![s] = p]
        BY <2>4 DEF Submit, Move, JoinQueue, Settle, FreeEarly, Abort, Phases
      <3> QED BY <2>3, <3>1
    <2>5. ASSUME UNCHANGED phase PROVE \A r \in Requests : Runs(r)
      BY <2>5
    <2>6. ASSUME NEW s \in Requests, Learn(s) PROVE \A r \in Requests : Runs(r)
      BY <2>5, <2>6 DEF Learn
    <2>7. ASSUME NEW g \in Gates, Follow(g) PROVE \A r \in Requests : Runs(r)
      BY <2>5, <2>7 DEF Follow
    <2>8. ASSUME UNCHANGED vars PROVE \A r \in Requests : Runs(r)
      BY <2>5, <2>8 DEF vars
    <2> HIDE DEF Runs
    <2> QED BY <1>1, <2>1, <2>2, <2>4, <2>6, <2>7, <2>8 DEF Next, Advance
  <1>2. Init => Base /\ RightKey
    BY BaseInit DEF Init, RightKey
  <1>3. Base /\ RightKey /\ [Next]_vars => (Base /\ RightKey)'
    BY BaseStep, RightKeyStep
  <1>4. Base /\ RightKey /\ [Next]_vars
          => [\A r \in Requests : phase[r] # "running" /\ phase'[r] = "running"
                                    => key'[r] = Resolve(r)]_vars
    BY <1>1
  <1> QED BY <1>2, <1>3, <1>4, PTL DEF Spec, RunsOnItsKey

=============================================================================
