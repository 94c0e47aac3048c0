---------------------------- MODULE ClusterProofs ----------------------------
(***************************************************************************)
(* Theorems about ClusterManager for every number of clusters, shards,     *)
(* restarts and faults.                                                    *)
(***************************************************************************)
EXTENDS ClusterManager, SequenceTheorems, FiniteSetTheorems, WellFoundedInduction, TLAPS

-----------------------------------------------------------------------------
(* The invariant, of one value of the manager.                             *)

\* The process serves, and nobody has told it to end.
Runs(p, n) == p.procs[n].state = "running" /\ p.procs[n].told = "run"
Gone(p, n) == p.procs[n].state = "gone"
Up == {"starting", "ready", "stopping"}

\* Nothing of a fleet is left that could serve or come back.
Quiet(p) ==
    /\ \A c \in Clusters : p.info[c].state \in {"unknown", "stopped"}
    /\ \A n \in Pid(p) : ~Runs(p, n)
    /\ p.timers = {} /\ p.up = {} /\ p.start \in {"none", "leading", "gateway"}

\* Whoever is named has been forked, for the cluster that names it.
Refs(p) ==
    /\ \A c \in Clusters : p.info[c].pid # 0 =>
           p.info[c].pid \in Pid(p) /\ p.procs[p.info[c].pid].cluster = c
    /\ \A c \in Clusters : p.info[c].state = "unknown" => p.info[c] = Unknown
    /\ p.next \in Clusters /\ p.awaited \subseteq Pid(p)
    /\ \A t \in p.timers : t.start = p.starts

\* What the manager thinks of its processes, but for those of the clusters S,
\* whose processes have just ended.
Alive(p, S) ==
    /\ \A c \in Clusters : p.info[c].state \in {"failed", "restarting"} =>
           p.info[c].pid = 0 \/ Gone(p, p.info[c].pid)
    /\ \A c \in p.up : /\ p.info[c].pid # 0 /\ ~Gone(p, p.info[c].pid)
                       /\ p.info[c].state \in Up
    /\ \A c \in Clusters : p.info[c].state \in Up =>
           \/ c \in p.up
           \/ c \in S /\ (p.info[c].pid = 0 \/ Gone(p, p.info[c].pid))
    /\ \A n \in Pid(p) : Runs(p, n) =>
           Current(p, n) /\ Live(p.info[p.procs[n].cluster].state)

\* A fleet is planned when nothing is left of the last one.
Phased(p) ==
    /\ p.start \in {"leading", "gateway"} => Quiet(p)
    /\ p.start = "none" /\ p.stop = "none" =>
           Quiet(p) \/ \E c \in Clusters : p.info[c].state = "failed"
    /\ p.stop # "none" => p.start = "none" /\ p.timers = {} /\ (~p.stopping => Quiet(p))
    /\ p.stop = "killing" =>
           /\ \A n \in Pid(p) : ~Runs(p, n)
           /\ \A c \in p.up : p.info[c].pid \in p.awaited
    /\ p.stopping => p.stop # "none"
    /\ "spawn" \in p.waiters <=> p.start = "waiting"

\* A shard has one owner, once the cluster it is planned for was launched: those
\* from k on are not.
Owned(p, k) ==
    /\ \A s \in Shards, c \in Clusters : s \in p.info[c].shards <=> p.owner[s] = c
    /\ p.start = "launching" =>
           \A c \in Clusters : c >= k =>
               /\ p.info[c] = Unknown
               /\ \A s \in Shards : Plan[s] = c => p.owner[s] = NoCluster

\* A process serves its cluster's shards, and shards of a cluster that failed, if
\* it was the one that was asked to take them.
Held(p) ==
    \A n \in Pid(p) : Runs(p, n) => \A s \in p.procs[n].shards :
        \/ s \in p.info[p.procs[n].cluster].shards
        \/ \E f \in Clusters : /\ s \in p.info[f].shards /\ p.info[f].state = "failed"
                               /\ p.assigned[f] \in {0, n}
Apart(p) ==
    \A n, k \in Pid(p) :
        n # k /\ Runs(p, n) /\ Runs(p, k) => p.procs[n].shards \cap p.procs[k].shards = {}

\* Whoever was asked can answer.
CanAnswer(p, n, S) ==
    /\ n \in Pid(p) /\ Current(p, n) /\ p.info[p.procs[n].cluster].state \in Up
    /\ ~Gone(p, n) \/ p.procs[n].cluster \in S
Asked(p, S) ==
    /\ \A a \in Asks : \A n \in p.asked[a] : CanAnswer(p, n, S)
    /\ \A c \in Clusters : p.assigned[c] # 0 =>
           CanAnswer(p, p.assigned[c], S) /\ p.info[c].state = "failed"

Good(p, k, S) ==
    /\ p \in Manager /\ Len(p.procs) <= MaxProcs
    /\ Refs(p) /\ Alive(p, S) /\ Phased(p) /\ Owned(p, k) /\ Held(p) /\ Apart(p) /\ Asked(p, S)

-----------------------------------------------------------------------------
(* Frames, and what the application wants.                                 *)

Framed == \A f \in frames : f.pid \in Pid(m) /\ ~Gone(m, f.pid)
Counted == m.starts <= Len(m.procs) + faults

IInv == Good(m, m.next, {}) /\ Framed /\ Counted /\ TypeOK

-----------------------------------------------------------------------------
(* Types.                                                                  *)

LEMMA Constants ==
    /\ LastCluster \in Nat /\ MaxRestarts \in Nat /\ MaxProcs \in Nat
    /\ MaxFaults \in Nat /\ MaxCommands \in Nat /\ IsFiniteSet(Shards)
    /\ Plan \in [Shards -> Clusters] /\ NoCluster \notin Clusters /\ 0 \in Clusters
    /\ \A c \in Clusters : c \in Nat
  BY ClusterAssumption DEF ClusterAssumption, Clusters, NoCluster

LEMMA Fields ==
    ASSUME NEW p \in Manager
    PROVE  /\ p.info \in [Clusters -> Info] /\ p.owner \in [Shards -> Clusters \cup {NoCluster}]
           /\ p.up \subseteq Clusters /\ p.timers \subseteq Timer
           /\ p.crashes \in [Clusters -> 0..MaxRestarts]
           /\ p.asked \in [Asks -> SUBSET Pids] /\ p.assigned \in [Clusters -> 0..MaxProcs]
           /\ p.procs \in Seq(Process) /\ p.awaited \subseteq Pids
           /\ p.waiters \subseteq {"spawn", "user"}
           /\ p.stopping \in BOOLEAN /\ p.queued \in BOOLEAN /\ p.resigns \in BOOLEAN
           /\ p.leading \in BOOLEAN
           /\ Pid(p) = 1..Len(p.procs) /\ Len(p.procs) \in Nat
           /\ \A n \in Pid(p) : p.procs[n] \in Process
  BY LenProperties, ElementOfSeq DEF Manager, Pid

-----------------------------------------------------------------------------
(* Steps that leave the processes, and whose they are, as they were.       *)

\* The fleet is the same; requests may be settled.
Same(p, q) ==
    /\ q.procs = p.procs /\ q.info = p.info /\ q.up = p.up /\ q.owner = p.owner
    /\ q.start = "launching" => p.start = "launching"
    /\ \A a \in Asks : q.asked[a] \subseteq p.asked[a]
    /\ \A c \in Clusters : q.assigned[c] \in {0, p.assigned[c]}

LEMMA SameKeeps ==
    ASSUME NEW p, NEW k, NEW S, Good(p, k, S), NEW q \in Manager, Same(p, q),
           q.next \in Clusters, q.awaited \subseteq Pid(p),
           \A t \in q.timers : t.start = q.starts
    PROVE  /\ Len(q.procs) <= MaxProcs
           /\ Refs(q) /\ Alive(q, S) /\ Owned(q, k) /\ Held(q) /\ Apart(q) /\ Asked(q, S)
  <1>1. Len(q.procs) <= MaxProcs /\ Pid(q) = Pid(p) /\ q.procs = p.procs /\ q.info = p.info
    BY DEF Good, Same, Pid
  <1>2. Refs(q)
    BY <1>1 DEF Good, Refs
  <1>3. Alive(q, S)
    BY <1>1 DEF Good, Same, Alive, Runs, Gone, Current
  <1>4. Owned(q, k)
    BY <1>1 DEF Good, Same, Owned
  <1>5. Held(q) /\ Apart(q)
    <2>1. \A c \in Clusters, n \in Pid(p) : p.assigned[c] \in {0, n} => q.assigned[c] \in {0, n}
      BY Zenon DEF Same
    <2> QED BY <1>1, <2>1 DEF Good, Held, Apart, Runs
  <1>6. Asked(q, S)
    BY <1>1 DEF Good, Same, Asked, CanAnswer, Gone, Current
  <1> QED BY <1>1, <1>2, <1>3, <1>4, <1>5, <1>6

\* The start and the stop under way are the same, too.
LEMMA StandingKeeps ==
    ASSUME NEW p, NEW k, NEW S, Good(p, k, S), NEW q \in Manager, Same(p, q),
           q.next \in Clusters, q.awaited = p.awaited, q.timers = p.timers,
           q.starts = p.starts, q.start = p.start, q.stop = p.stop, q.stopping = p.stopping,
           "spawn" \in q.waiters <=> "spawn" \in p.waiters
    PROVE  Good(q, k, S)
  <1>1. q.awaited \subseteq Pid(p) /\ \A t \in q.timers : t.start = q.starts
    BY DEF Good, Refs
  <1>2. Phased(q)
    BY DEF Good, Phased, Quiet, Same, Pid, Runs
  <1> QED BY <1>1, <1>2, SameKeeps DEF Good

LEMMA SpawnKeeps ==
    ASSUME NEW p, NEW k, NEW S, Good(p, k, S),
           p.stop = "none" /\ p.start = "none" => Quiet(p)
    PROVE  Good(Spawn(p), k, S) /\ Spawn(p).next = p.next
  <1> DEFINE q == Spawn(p)
  <1>1. CASE p.stop = "none" /\ p.start = "none"
    <2>1. PICK x \in {"leading", "gateway"} : q = [p EXCEPT !.start = x]
      BY <1>1 DEF Spawn
    <2>2. q \in Manager /\ q.start = x
      BY <2>1 DEF Good, Manager
    <2>3. /\ q.procs = p.procs /\ q.info = p.info /\ q.up = p.up /\ q.timers = p.timers
          /\ q.next = p.next /\ q.awaited = p.awaited /\ q.starts = p.starts
          /\ q.stop = p.stop /\ q.stopping = p.stopping /\ q.waiters = p.waiters
          /\ q.owner = p.owner /\ q.assigned = p.assigned /\ q.asked = p.asked
      BY <2>1 DEF Good, Manager
    <2>4. Same(p, q) /\ q.next \in Clusters /\ q.awaited \subseteq Pid(p)
          /\ \A t \in q.timers : t.start = q.starts
      BY <2>2, <2>3 DEF Good, Refs, Same
    <2>5. Phased(q)
      BY <1>1, <2>2, <2>3 DEF Good, Phased, Quiet, Pid, Runs
    <2> QED BY <2>2, <2>3, <2>4, <2>5, SameKeeps DEF Good
  <1>2. CASE ~(p.stop = "none" /\ p.start = "none")
    <2>1. q = p \/ q = [p EXCEPT !.queued = TRUE]
      BY <1>2 DEF Spawn
    <2>2. q \in Manager
      <3>1. p \in Manager
        BY DEF Good
      <3>2. [p EXCEPT !.queued = TRUE] \in Manager
        BY <3>1 DEF Manager
      <3> QED BY <2>1, <3>1, <3>2
    <2>3. /\ q.procs = p.procs /\ q.info = p.info /\ q.up = p.up /\ q.timers = p.timers
          /\ q.next = p.next /\ q.awaited = p.awaited /\ q.starts = p.starts
          /\ q.start = p.start /\ q.stop = p.stop /\ q.stopping = p.stopping
          /\ q.waiters = p.waiters
          /\ q.owner = p.owner /\ q.assigned = p.assigned /\ q.asked = p.asked
      BY <2>1 DEF Good, Manager
    <2> QED BY <2>2, <2>3, StandingKeeps DEF Good, Same, Refs
  <1> QED BY <1>1, <1>2

\* What #halt leaves of a manager.
LEMMA HaltIs ==
    ASSUME NEW p \in Manager
    PROVE  LET q == Halt(p) IN
           /\ q \in Manager
           /\ q.procs = p.procs /\ q.info = p.info /\ q.up = p.up /\ q.owner = p.owner
           /\ q.starts = p.starts /\ q.awaited = p.awaited /\ q.stop = p.stop
           /\ q.stopping = p.stopping /\ q.queued = p.queued /\ q.resigns = p.resigns
           /\ q.leading = p.leading /\ q.scaling = p.scaling /\ q.allReady = p.allReady
           /\ q.start = "none" /\ q.next = 0 /\ q.timers = {} /\ q.waiters = {}
           /\ q.asked = [a \in Asks |-> {}] /\ q.assigned = [c \in Clusters |-> 0]
  <1> DEFINE asked == [a \in Asks |-> {}]  assigned == [c \in Clusters |-> 0]
  <1>1. asked \in [Asks -> SUBSET Pids] /\ assigned \in [Clusters -> 0..MaxProcs]
    BY Constants
  <1>2. 0 \in 0..LastCluster + 1
    BY Constants
  <1>3. Halt(p) = [p EXCEPT !.asked = asked, !.assigned = assigned, !.start = "none",
                            !.next = 0, !.waiters = {}, !.timers = {}]
    BY DEF Halt, CloseTracker, Manager
  <1> HIDE DEF asked, assigned
  <1>4. Halt(p) \in Manager
    <2>1. [p EXCEPT !.asked = asked, !.assigned = assigned] \in Manager
      BY <1>1 DEF Manager
    <2>2. \A q \in Manager : [q EXCEPT !.start = "none", !.next = 0, !.waiters = {},
                                        !.timers = {}] \in Manager
      BY <1>2 DEF Manager
    <2>3. Halt(p) = [[p EXCEPT !.asked = asked, !.assigned = assigned] EXCEPT
                        !.start = "none", !.next = 0, !.waiters = {}, !.timers = {}]
      BY Zenon, <1>3 DEF Manager
    <2> QED BY <2>1, <2>2, <2>3
  <1>5. LET q == Halt(p) IN
           /\ q.procs = p.procs /\ q.info = p.info /\ q.up = p.up /\ q.owner = p.owner
           /\ q.starts = p.starts /\ q.awaited = p.awaited /\ q.stop = p.stop
           /\ q.stopping = p.stopping /\ q.queued = p.queued /\ q.resigns = p.resigns
           /\ q.leading = p.leading /\ q.scaling = p.scaling /\ q.allReady = p.allReady
           /\ q.start = "none" /\ q.next = 0 /\ q.timers = {} /\ q.waiters = {}
           /\ q.asked = asked /\ q.assigned = assigned
    BY <1>3 DEF Manager
  <1> QED BY <1>4, <1>5 DEF asked, assigned

LEMMA ShutdownKeeps ==
    ASSUME NEW p, NEW k, NEW S, Good(p, k, S), NEW r \in BOOLEAN
    PROVE  /\ Good(Shutdown(p, r), k, S)
           /\ Shutdown(p, r).procs = p.procs /\ Shutdown(p, r).starts = p.starts
           /\ Shutdown(p, r).stop # "none"
  <1> DEFINE q == Shutdown(p, r)  h == Halt(p)
  <1>1. CASE p.stop # "none"
    BY <1>1 DEF Shutdown
  <1>2. CASE p.stop = "none"
    <2>1. q = [h EXCEPT !.stopping = TRUE, !.stop = "draining", !.resigns = r]
      BY <1>2 DEF Shutdown
    <2>2. /\ h \in Manager
          /\ h.procs = p.procs /\ h.info = p.info /\ h.up = p.up /\ h.owner = p.owner
          /\ h.starts = p.starts /\ h.awaited = p.awaited
          /\ h.start = "none" /\ h.next = 0 /\ h.timers = {} /\ h.waiters = {}
          /\ h.asked = [a \in Asks |-> {}] /\ h.assigned = [c \in Clusters |-> 0]
      BY HaltIs DEF Good
    <2> HIDE DEF h
    <2> HIDE DEF q
    <2>3. q \in Manager /\ q.stopping = TRUE /\ q.stop = "draining"
      <3>1. h \in Manager
        BY <2>2
      <3> QED BY <2>1, <3>1 DEF Manager
    <2>4. /\ q.procs = p.procs /\ q.info = p.info /\ q.up = p.up /\ q.owner = p.owner
          /\ q.starts = p.starts /\ q.awaited = p.awaited
          /\ q.start = "none" /\ q.next = 0 /\ q.timers = {} /\ q.waiters = {}
          /\ q.asked = [a \in Asks |-> {}] /\ q.assigned = [c \in Clusters |-> 0]
      BY <2>1, <2>2 DEF Manager
    <2>5. Phased(q)
      BY <2>3, <2>4 DEF Phased
    <2>6. Same(p, q) /\ q.next \in Clusters /\ q.awaited \subseteq Pid(p)
      BY <2>4, Constants DEF Good, Refs, Same
    <2> QED BY <2>3, <2>4, <2>5, <2>6, SameKeeps DEF Good, q
  <1> QED BY <1>1, <1>2

LEMMA RespawnKeeps ==
    ASSUME NEW p, NEW k, NEW S, Good(p, k, S)
    PROVE  /\ Good(Respawn(p), k, S)
           /\ Respawn(p).procs = p.procs /\ Respawn(p).starts = p.starts
           /\ Respawn(p).stop # "none"
  <1> DEFINE q == Respawn(p)  h == Shutdown(p, FALSE)
  <1>1. q = [h EXCEPT !.queued = TRUE, !.crashes = [c \in Clusters |-> 0]]
    BY DEF Respawn
  <1>2. Good(h, k, S) /\ h.procs = p.procs /\ h.starts = p.starts /\ h.stop # "none"
    BY ShutdownKeeps
  <1> HIDE DEF h
  <1>3. q \in Manager
    <2> DEFINE z == [c \in Clusters |-> 0]
    <2>1. z \in [Clusters -> 0..MaxRestarts] /\ h \in Manager
      BY <1>2, Constants DEF Good
    <2> HIDE DEF z
    <2>2. [h EXCEPT !.queued = TRUE, !.crashes = z] \in Manager
      BY <2>1 DEF Manager
    <2> QED BY <1>1, <2>2 DEF z
  <1>4. /\ q.procs = h.procs /\ q.info = h.info /\ q.up = h.up /\ q.timers = h.timers
        /\ q.next = h.next /\ q.awaited = h.awaited /\ q.starts = h.starts
        /\ q.start = h.start /\ q.stop = h.stop /\ q.stopping = h.stopping
        /\ q.waiters = h.waiters
        /\ q.owner = h.owner /\ q.assigned = h.assigned /\ q.asked = h.asked
    BY <1>1, <1>2 DEF Good, Manager
  <1>5. Same(h, q) /\ q.next \in Clusters
    BY <1>2, <1>4 DEF Good, Refs, Same
  <1> QED BY <1>2, <1>3, <1>4, <1>5, StandingKeeps

-----------------------------------------------------------------------------
(* Readiness and requests.                                                 *)

LEMMA CheckReadyKeeps ==
    ASSUME NEW p, NEW k, NEW S, Good(p, k, S)
    PROVE  LET q == CheckReady(p) IN
           /\ Good(q, k, S) /\ Same(p, q) /\ q.stop = p.stop /\ q.next = p.next
           /\ q.starts = p.starts /\ q.stopping = p.stopping /\ q.timers = p.timers
  <1> DEFINE q == CheckReady(p)
  <1>1. CASE ~IsReady(p)
    BY <1>1 DEF CheckReady, Same
  <1>2. CASE IsReady(p)
    <2>1. q = [p EXCEPT !.waiters = {}, !.allReady = TRUE,
                        !.start = IF "spawn" \in p.waiters THEN "done" ELSE p.start]
      BY <1>2 DEF CheckReady, Good, Manager
    <2>2. q \in Manager
      BY <2>1 DEF Good, Manager
    <2>3. /\ q.procs = p.procs /\ q.info = p.info /\ q.up = p.up /\ q.timers = p.timers
          /\ q.next = p.next /\ q.awaited = p.awaited /\ q.starts = p.starts
          /\ q.stop = p.stop /\ q.stopping = p.stopping /\ q.waiters = {}
          /\ q.owner = p.owner /\ q.assigned = p.assigned /\ q.asked = p.asked
          /\ q.start = IF "spawn" \in p.waiters THEN "done" ELSE p.start
      BY <2>1 DEF Good, Manager
    <2>4. Same(p, q) /\ q.next \in Clusters /\ q.awaited \subseteq Pid(p)
          /\ \A t \in q.timers : t.start = q.starts
      BY <2>2, <2>3 DEF Good, Refs, Same
    <2>5. Phased(q)
      BY <2>2, <2>3 DEF Good, Phased, Quiet, Pid, Runs
    <2> QED BY <2>2, <2>3, <2>4, <2>5, SameKeeps DEF Good
  <1> QED BY <1>1, <1>2

LEMMA RejectReadyKeeps ==
    ASSUME NEW p, NEW k, NEW S, Good(p, k, S), NEW c \in Clusters, p.info[c].state = "failed"
    PROVE  LET q == RejectReady(p, c) IN
           /\ Good(q, k, S) /\ Same(p, q) /\ q.stop = p.stop /\ q.next = p.next
           /\ q.starts = p.starts /\ q.stopping = p.stopping /\ q.timers = p.timers
           /\ p.start # "waiting" => q.start = p.start
           /\ q.waiters \subseteq p.waiters
           /\ p.info[c].shards # {} => q.waiters = {}
  <1> DEFINE q == RejectReady(p, c)
  <1>1. CASE p.info[c].shards = {}
    BY <1>1 DEF RejectReady, Same
  <1>2. CASE p.info[c].shards # {}
    <2>1. q = [p EXCEPT !.waiters = {},
                        !.start = IF "spawn" \in p.waiters THEN "none" ELSE p.start]
      BY <1>2 DEF RejectReady, Good, Manager
    <2>2. q \in Manager
      BY <2>1 DEF Good, Manager
    <2>3. /\ q.procs = p.procs /\ q.info = p.info /\ q.up = p.up /\ q.timers = p.timers
          /\ q.next = p.next /\ q.awaited = p.awaited /\ q.starts = p.starts
          /\ q.stop = p.stop /\ q.stopping = p.stopping /\ q.waiters = {}
          /\ q.owner = p.owner /\ q.assigned = p.assigned /\ q.asked = p.asked
          /\ q.start = IF "spawn" \in p.waiters THEN "none" ELSE p.start
      BY <2>1 DEF Good, Manager
    <2>4. Same(p, q) /\ q.next \in Clusters /\ q.awaited \subseteq Pid(p)
          /\ \A t \in q.timers : t.start = q.starts
      BY <2>2, <2>3 DEF Good, Refs, Same
    <2>5. Phased(q)
      BY <2>2, <2>3 DEF Good, Phased, Quiet, Pid, Runs
    <2>6. p.start # "waiting" => q.start = p.start
      BY <2>3 DEF Good, Phased
    <2> QED BY <2>2, <2>3, <2>4, <2>5, <2>6, SameKeeps DEF Good
  <1> QED BY <1>1, <1>2

LEMMA AssignFailsKeeps ==
    ASSUME NEW p, NEW k, NEW S, Good(p, k, S), NEW failed \in SUBSET Clusters,
           \A f \in failed : p.info[f].state = "failed"
    PROVE  LET q == AssignFails(p, failed) IN
           /\ Good(q, k, S) /\ Same(p, q) /\ q.stop = p.stop /\ q.next = p.next
           /\ q.starts = p.starts /\ q.stopping = p.stopping /\ q.timers = p.timers
           /\ q.assigned = [f \in Clusters |-> IF f \in failed THEN 0 ELSE p.assigned[f]]
           /\ q.asked = p.asked /\ q.waiters \subseteq p.waiters
           /\ (\E f \in failed : p.info[f].shards # {}) => q.waiters = {}
  <1> DEFINE q == AssignFails(p, failed)
             reported == {f \in failed : p.info[f].shards # {}}
             z == [f \in Clusters |-> IF f \in failed THEN 0 ELSE p.assigned[f]]
             h == [p EXCEPT !.assigned = z]
             Only(r) == r.assigned = z /\ r.asked = p.asked
  <1>1. q = IF reported = {} THEN h ELSE RejectReady(h, CHOOSE f \in reported : TRUE)
    BY DEF AssignFails, Good, Manager
  <1>2. h \in Manager
    <2>1. z \in [Clusters -> 0..MaxProcs] /\ p \in Manager
      BY Constants, Fields DEF Good
    <2> HIDE DEF z
    <2> QED BY <2>1 DEF Manager
  <1>3. /\ h.procs = p.procs /\ h.info = p.info /\ h.up = p.up /\ h.timers = p.timers
        /\ h.next = p.next /\ h.awaited = p.awaited /\ h.starts = p.starts
        /\ h.stop = p.stop /\ h.stopping = p.stopping /\ h.waiters = p.waiters
        /\ h.owner = p.owner /\ h.start = p.start /\ Only(h)
    BY DEF Good, Manager
  <1> HIDE DEF h
  <1>4. Good(h, k, S) /\ Same(p, h)
    <2>1. Same(p, h) /\ h.next \in Clusters
      BY <1>3, Fields DEF Good, Refs, Same
    <2> QED BY <2>1, <1>2, <1>3, StandingKeeps
  <1>5. CASE reported = {}
    BY <1>1, <1>3, <1>4, <1>5
  <1>6. CASE reported # {}
    <2>1. PICK f \in reported : q = RejectReady(h, f)
      BY <1>1, <1>6
    <2>2. f \in Clusters /\ h.info[f].state = "failed" /\ h.info[f].shards # {}
      BY <1>3, <2>1
    <2>3. Only(q)
      BY <1>2, <1>3, <2>1 DEF RejectReady, Manager
    <2>4. /\ Good(q, k, S) /\ Same(h, q) /\ q.stop = h.stop /\ q.next = h.next
          /\ q.starts = h.starts /\ q.stopping = h.stopping /\ q.timers = h.timers
          /\ q.waiters = {}
      BY <1>4, <2>1, <2>2, RejectReadyKeeps
    <2>5. Same(p, q)
      BY <1>4, <2>4 DEF Same
    <2> QED BY <1>3, <2>3, <2>4, <2>5
  <1> QED BY <1>5, <1>6

LEMMA FailOwnerKeeps ==
    ASSUME NEW p, NEW k, NEW S, Good(p, k, S), NEW c \in Clusters
    PROVE  LET q == FailOwner(p, c) IN
           /\ Good(q, k, S) /\ Same(p, q) /\ q.stop = p.stop /\ q.next = p.next
           /\ q.starts = p.starts /\ q.stopping = p.stopping /\ q.timers = p.timers
           /\ q.waiters \subseteq p.waiters
           /\ \A a \in Asks : q.asked[a] \cap PidsOf(p, c) = {}
           /\ \A f \in Clusters : q.assigned[f] \notin PidsOf(p, c)
  <1> DEFINE z == [a \in Asks |-> p.asked[a] \ PidsOf(p, c)]
             h == [p EXCEPT !.asked = z]
             failed == AwaitAssign(p, c)
             q == FailOwner(p, c)
  <1>1. q = AssignFails(h, failed)
    BY DEF FailOwner, Good, Manager
  <1>2. z \in [Asks -> SUBSET Pids]
    BY Fields DEF Good
  <1>3. h \in Manager
    <2> HIDE DEF z
    <2> QED BY <1>2 DEF Good, Manager
  <1>4. /\ h.procs = p.procs /\ h.info = p.info /\ h.up = p.up /\ h.timers = p.timers
        /\ h.next = p.next /\ h.awaited = p.awaited /\ h.starts = p.starts
        /\ h.stop = p.stop /\ h.stopping = p.stopping /\ h.waiters = p.waiters
        /\ h.owner = p.owner /\ h.start = p.start /\ h.assigned = p.assigned /\ h.asked = z
    BY DEF Good, Manager
  <1> HIDE DEF h
  <1>5. Good(h, k, S) /\ Same(p, h)
    <2>1. Same(p, h) /\ h.next \in Clusters
      BY <1>4 DEF Good, Refs, Same
    <2> QED BY <2>1, <1>3, <1>4, StandingKeeps
  <1>6. failed \in SUBSET Clusters /\ \A f \in failed : h.info[f].state = "failed"
    <2>1. \A f \in failed : f \in Clusters /\ p.assigned[f] \in PidsOf(p, c)
      BY DEF AwaitAssign
    <2>2. 0 \notin PidsOf(p, c)
      BY Fields DEF PidsOf, Good, Pid
    <2>3. \A f \in failed : p.info[f].state = "failed"
      BY <2>1, <2>2 DEF Good, Asked
    <2> QED BY <1>4, <2>1, <2>3
  <1> HIDE DEF failed, q, z
  <1>7. /\ Good(q, k, S) /\ Same(h, q) /\ q.stop = h.stop /\ q.next = h.next
        /\ q.starts = h.starts /\ q.stopping = h.stopping /\ q.timers = h.timers
        /\ q.assigned = [f \in Clusters |-> IF f \in failed THEN 0 ELSE h.assigned[f]]
        /\ q.asked = h.asked /\ q.waiters \subseteq h.waiters
    BY <1>1, <1>5, <1>6, AssignFailsKeeps
  <1>8. Same(p, q)
    BY <1>5, <1>7 DEF Same
  <1>9. \A a \in Asks : q.asked[a] \cap PidsOf(p, c) = {}
    BY <1>4, <1>7 DEF z
  <1>10. \A f \in Clusters : q.assigned[f] \notin PidsOf(p, c)
    <2>1. 0 \notin PidsOf(p, c)
      BY Fields DEF PidsOf, Good, Pid
    <2> QED BY <1>4, <1>7, <2>1 DEF failed, AwaitAssign
  <1> QED BY <1>4, <1>7, <1>8, <1>9, <1>10 DEF q

-----------------------------------------------------------------------------
(* Steps of processes, and signals to them.                                *)

\* Nothing but processes changes, and none of them begins to run or to be gone.
Tamed(p, q) ==
    /\ q.info = p.info /\ q.up = p.up /\ q.owner = p.owner /\ q.timers = p.timers
    /\ q.next = p.next /\ q.awaited = p.awaited /\ q.starts = p.starts
    /\ q.start = p.start /\ q.stop = p.stop /\ q.stopping = p.stopping
    /\ q.waiters = p.waiters /\ q.assigned = p.assigned /\ q.asked = p.asked
    /\ Len(q.procs) = Len(p.procs) /\ Pid(q) = Pid(p)
    /\ \A n \in Pid(p) :
           /\ q.procs[n].cluster = p.procs[n].cluster /\ q.procs[n].shards = p.procs[n].shards
           /\ Gone(q, n) <=> Gone(p, n)
           /\ Runs(q, n) => Runs(p, n)

LEMMA TamedKeeps ==
    ASSUME NEW p, NEW k, NEW S, Good(p, k, S), NEW q \in Manager, Tamed(p, q)
    PROVE  Good(q, k, S)
  <1>0. \A c \in Clusters : p.info[c].pid # 0 => p.info[c].pid \in Pid(p)
    BY DEF Good, Refs
  <1>1. Refs(q) /\ Owned(q, k)
    BY DEF Good, Tamed, Refs, Owned
  <1>5. Alive(q, S)
    <2>1. \A n \in Pid(q) : Runs(q, n) =>
              Current(q, n) /\ Live(q.info[q.procs[n].cluster].state)
      BY DEF Good, Tamed, Alive, Current
    <2>2. \A c \in Clusters : q.info[c].state \in {"failed", "restarting"} =>
              q.info[c].pid = 0 \/ Gone(q, q.info[c].pid)
      BY <1>0 DEF Good, Tamed, Alive
    <2>3. \A c \in q.up : /\ q.info[c].pid # 0 /\ ~Gone(q, q.info[c].pid)
                         /\ q.info[c].state \in Up
      <3>1. p.up \subseteq Clusters
        BY Fields DEF Good
      <3> QED BY <1>0, <3>1 DEF Good, Tamed, Alive
    <2>4. \A c \in Clusters : q.info[c].state \in Up =>
           \/ c \in q.up
           \/ c \in S /\ (q.info[c].pid = 0 \/ Gone(q, q.info[c].pid))
      BY <1>0 DEF Good, Tamed, Alive
    <2> QED BY <2>1, <2>2, <2>3, <2>4 DEF Alive
  <1>2. Held(q) /\ Apart(q)
    BY DEF Good, Tamed, Held, Apart
  <1>3. Asked(q, S)
    <2>1. \A n : CanAnswer(p, n, S) => CanAnswer(q, n, S)
      BY DEF Tamed, CanAnswer, Current
    <2> QED BY <2>1 DEF Good, Tamed, Asked
  <1>4. Phased(q)
    BY DEF Good, Tamed, Phased, Quiet
  <1> QED BY <1>1, <1>2, <1>3, <1>4, <1>5 DEF Good, Tamed

\* One process becomes another value of its own.
LEMMA Alter ==
    ASSUME NEW p \in Manager, NEW n \in Pid(p), NEW x \in Process
    PROVE  LET q == [p EXCEPT !.procs[n] = x] IN
           /\ q \in Manager /\ q.procs \in Seq(Process)
           /\ q.info = p.info /\ q.up = p.up /\ q.owner = p.owner /\ q.timers = p.timers
           /\ q.next = p.next /\ q.awaited = p.awaited /\ q.starts = p.starts
           /\ q.start = p.start /\ q.stop = p.stop /\ q.stopping = p.stopping
           /\ q.waiters = p.waiters /\ q.assigned = p.assigned /\ q.asked = p.asked
           /\ Len(q.procs) = Len(p.procs) /\ Pid(q) = Pid(p)
           /\ \A i \in Pid(p) : q.procs[i] = IF i = n THEN x ELSE p.procs[i]
  <1> DEFINE z == [p.procs EXCEPT ![n] = x]
  <1>1. p.procs \in Seq(Process) /\ Pid(p) = 1..Len(p.procs)
    BY Fields
  <1>2. /\ z \in Seq(Process) /\ Len(z) = Len(p.procs)
        /\ \A i \in 1..Len(p.procs) : z[i] = IF i = n THEN x ELSE p.procs[i]
    BY <1>1, ExceptSeq
  <1>3. DOMAIN z = Pid(p)
    BY DEF Pid
  <1> HIDE DEF z
  <1>4. [p EXCEPT !.procs[n] = x] = [p EXCEPT !.procs = z]
    BY DEF Manager, z
  <1>5. [p EXCEPT !.procs = z] \in Manager
    BY <1>2 DEF Manager
  <1>6. LET q == [p EXCEPT !.procs = z] IN
           /\ q.info = p.info /\ q.up = p.up /\ q.owner = p.owner /\ q.timers = p.timers
           /\ q.next = p.next /\ q.awaited = p.awaited /\ q.starts = p.starts
           /\ q.start = p.start /\ q.stop = p.stop /\ q.stopping = p.stopping
           /\ q.waiters = p.waiters /\ q.assigned = p.assigned /\ q.asked = p.asked
           /\ q.procs = z
    BY DEF Manager
  <1> QED BY <1>1, <1>2, <1>3, <1>4, <1>5, <1>6 DEF Pid

LEMMA DiesKeeps ==
    ASSUME NEW p, NEW k, NEW S, Good(p, k, S), NEW n \in Pid(p), p.procs[n].state = "running"
    PROVE  LET q == [p EXCEPT !.procs[n].state = "dead"] IN Good(q, k, S) /\ Tamed(p, q)
  <1> DEFINE x == [p.procs[n] EXCEPT !.state = "dead"]
             q == [p EXCEPT !.procs[n] = x]
  <1>1. p.procs[n] \in Process
    BY Fields DEF Good
  <1>2. /\ x \in Process /\ x.cluster = p.procs[n].cluster /\ x.shards = p.procs[n].shards
        /\ x.state = "dead"
    BY <1>1 DEF Process
  <1>3. [p EXCEPT !.procs[n].state = "dead"] = q
    BY DEF Good, Manager
  <1> HIDE DEF x
  <1>4. q \in Manager /\ Tamed(p, q)
    BY <1>2, Alter DEF Good, Tamed, Gone, Runs
  <1> QED BY <1>3, <1>4, TamedKeeps

LEMMA ToldKeeps ==
    ASSUME NEW p, NEW k, NEW S, Good(p, k, S), NEW n \in Pid(p), NEW t \in {"term", "kill"}
    PROVE  LET q == [p EXCEPT !.procs[n].told = t] IN Good(q, k, S) /\ Tamed(p, q)
  <1> DEFINE x == [p.procs[n] EXCEPT !.told = t]
             q == [p EXCEPT !.procs[n] = x]
  <1>1. p.procs[n] \in Process
    BY Fields DEF Good
  <1>2. /\ x \in Process /\ x.cluster = p.procs[n].cluster /\ x.shards = p.procs[n].shards
        /\ x.state = p.procs[n].state /\ x.told = t
    BY <1>1 DEF Process
  <1>3. [p EXCEPT !.procs[n].told = t] = q
    BY DEF Good, Manager
  <1> HIDE DEF x
  <1>4. q \in Manager /\ Tamed(p, q)
    BY <1>2, Alter DEF Good, Tamed, Gone, Runs
  <1> QED BY <1>3, <1>4, TamedKeeps

\* A signal reaches the current processes of the clusters it is for.
LEMMA SignalIs ==
    ASSUME NEW p \in Manager, NEW clusters \in SUBSET Clusters, NEW t \in {"term", "kill"}
    PROVE  LET q == Signal(p, clusters, t) IN
           /\ q \in Manager /\ Tamed(p, q)
           /\ q.leading = p.leading /\ q.queued = p.queued /\ q.resigns = p.resigns
           /\ q.allReady = p.allReady
           /\ \A n \in Pid(p) : Runs(q, n) => \A c \in clusters : p.info[c].pid # n
  <1> DEFINE z == [n \in DOMAIN p.procs |->
                     IF p.procs[n].state = "running" /\ \E c \in clusters : p.info[c].pid = n
                     THEN [p.procs[n] EXCEPT !.told = t] ELSE p.procs[n]]
             q == Signal(p, clusters, t)
  <1>1. /\ p.procs \in Seq(Process) /\ Pid(p) = 1..Len(p.procs) /\ Len(p.procs) \in Nat
        /\ \A n \in Pid(p) : p.procs[n] \in Process
    BY Fields
  <1>2. \A n \in Pid(p) :
            /\ z[n] \in Process /\ z[n].cluster = p.procs[n].cluster
            /\ z[n].shards = p.procs[n].shards /\ z[n].state = p.procs[n].state
            /\ z[n].told = IF p.procs[n].state = "running" /\ \E c \in clusters : p.info[c].pid = n
                           THEN t ELSE p.procs[n].told
    BY <1>1 DEF Process, Pid
  <1>3. q = [p EXCEPT !.procs = z]
    BY DEF Signal, Manager
  <1>4. DOMAIN z = 1..Len(p.procs)
    BY <1>1 DEF Pid
  <1>5. z \in [1..Len(p.procs) -> Process]
    <2>1. z = [n \in 1..Len(p.procs) |-> z[n]]
      BY <1>4
    <2> QED BY <1>1, <1>2, <2>1
  <1>6. z \in Seq(Process) /\ Len(z) = Len(p.procs)
    <2>1. z \in Seq(Process)
      <3>1. Seq(Process) = UNION {[1..n -> Process] : n \in Nat}
        BY SeqDef
      <3>2. z \in UNION {[1..n -> Process] : n \in Nat}
        BY <1>1, <1>5, Zenon
      <3> QED BY <3>1, <3>2, Zenon
    <2>2. DOMAIN z = 1..Len(z) /\ Len(z) \in Nat
      BY <2>1, LenProperties
    <2> QED BY <1>1, <1>4, <2>1, <2>2
  <1> HIDE DEF z
  <1>7. [p EXCEPT !.procs = z] \in Manager
    BY <1>6 DEF Manager
  <1>8. LET r == [p EXCEPT !.procs = z] IN
           /\ r.info = p.info /\ r.up = p.up /\ r.owner = p.owner /\ r.timers = p.timers
           /\ r.next = p.next /\ r.awaited = p.awaited /\ r.starts = p.starts
           /\ r.start = p.start /\ r.stop = p.stop /\ r.stopping = p.stopping
           /\ r.waiters = p.waiters /\ r.assigned = p.assigned /\ r.asked = p.asked
           /\ r.leading = p.leading /\ r.queued = p.queued /\ r.resigns = p.resigns
           /\ r.allReady = p.allReady /\ r.procs = z
    BY DEF Manager
  <1>9. q.procs = z /\ Pid(q) = Pid(p)
    BY <1>1, <1>3, <1>4, <1>8 DEF Pid
  <1>10. Tamed(p, q)
    BY <1>2, <1>3, <1>6, <1>8, <1>9 DEF Tamed, Gone, Runs
  <1>11. \A n \in Pid(p) : Runs(q, n) => \A c \in clusters : p.info[c].pid # n
    BY <1>2, <1>9 DEF Runs
  <1> QED BY <1>3, <1>7, <1>8, <1>10, <1>11

-----------------------------------------------------------------------------
(* A cluster whose process has ended, or could not be forked.              *)

\* A set of numbers that is not empty has a least one.
LEMMA Smallest ==
    ASSUME NEW T \in SUBSET Nat, T # {}
    PROVE  \E x \in T : \A y \in T : x <= y
  <1>1. PICK x \in T : \A y \in T : <<y, x>> \notin OpToRel(<, Nat)
    BY NatLessThanWellFounded, WFMin
  <1>2. \A y \in T : ~(y < x)
    BY <1>1 DEF OpToRel
  <1>3. x \in T /\ \A y \in T : x <= y
    BY <1>2
  <1> QED BY <1>3

\* Whoever is asked to take shards is ready.
LEMMA TakerIsReady ==
    ASSUME NEW p \in Manager, Takers(p) # {}
    PROVE  Taker(p) \in Takers(p)
  <1> DEFINE Size(c) == Cardinality(p.info[c].shards)
             Sizes == {Size(c) : c \in Takers(p)}
  <1>1. \A c \in Takers(p) : c \in Nat /\ Size(c) \in Nat
    <2>1. SUFFICES ASSUME NEW c \in Takers(p) PROVE c \in Nat /\ Size(c) \in Nat
      OBVIOUS
    <2>2. c \in Clusters /\ p.info[c].shards \subseteq Shards
      BY Fields DEF Takers, Info
    <2>3. IsFiniteSet(p.info[c].shards)
      BY <2>2, Constants, FS_Subset
    <2> QED BY <2>2, <2>3, Constants, FS_CardinalityType
  <1>2. Sizes \in SUBSET Nat /\ Sizes # {}
    BY <1>1
  <1>3. PICK s \in Sizes : \A x \in Sizes : s <= x
    <2> HIDE DEF Sizes
    <2> QED BY <1>2, Smallest
  <1> DEFINE Least == {c \in Takers(p) : Size(c) = s}
  <1>4. Least \in SUBSET Nat /\ Least # {}
    BY <1>1, <1>3
  <1>5. PICK c \in Least : \A d \in Least : c <= d
    <2> HIDE DEF Least
    <2> QED BY <1>4, Smallest
  <1>6. c \in Takers(p) /\ \A d \in Takers(p) : Size(c) < Size(d) \/ (Size(c) = Size(d) /\ c <= d)
    <2>1. SUFFICES ASSUME NEW d \in Takers(p), ~(Size(c) < Size(d))
                   PROVE  Size(c) = Size(d) /\ c <= d
      BY <1>5
    <2>2. Size(c) = s /\ s <= Size(d) /\ Size(d) \in Nat /\ s \in Nat
      BY <1>1, <1>3, <1>5
    <2>3. Size(c) = Size(d)
      BY <2>1, <2>2
    <2> QED BY <1>5, <2>2, <2>3
  <1> QED BY <1>6 DEF Taker

Untold(p, c) ==
    /\ \A a \in Asks : \A n \in p.asked[a] : p.procs[n].cluster # c
    /\ \A f \in Clusters : p.assigned[f] # 0 => p.procs[p.assigned[f]].cluster # c

\* Cluster c is to be recovered, or forked.
Fallen(p, k, c) ==
    /\ Good(p, k, {c})
    /\ p.info[c].state \in {"starting", "ready", "restarting"}
    /\ p.info[c].pid = 0 \/ Gone(p, p.info[c].pid)
    /\ c \notin p.up /\ p.stop = "none" /\ Untold(p, c)
    /\ p.start = "launching" => ~(c >= k)

Unserved(p, c) ==
    \A n \in Pid(p) : Runs(p, n) =>
        /\ p.procs[n].cluster # c
        /\ p.procs[n].shards \cap p.info[c].shards = {}

LEMMA FallenIsUnserved ==
    ASSUME NEW p, NEW k, NEW c \in Clusters, Fallen(p, k, c)
    PROVE  Unserved(p, c) /\ p.assigned[c] = 0
  <1>1. p.assigned[c] = 0
    BY DEF Fallen, Good, Asked
  <1>2. ASSUME NEW n \in Pid(p), Runs(p, n) PROVE p.procs[n].cluster # c
    <2>1. Current(p, n) /\ n # 0
      BY <1>2, Fields DEF Fallen, Good, Alive
    <2> QED BY <1>2, <2>1 DEF Fallen, Current, Runs, Gone
  <1>3. ASSUME NEW n \in Pid(p), Runs(p, n), NEW s \in p.procs[n].shards, s \in p.info[c].shards
        PROVE  FALSE
    <2>1. p.procs[n].cluster \in Clusters /\ s \in Shards /\ p.info[c].state # "failed"
      BY <1>3, Fields DEF Fallen, Good, Process
    <2>2. p.owner[s] = c
      BY <1>3, <2>1 DEF Fallen, Good, Owned
    <2>3. \A f \in Clusters : s \in p.info[f].shards => f = c
      BY <2>1, <2>2 DEF Fallen, Good, Owned
    <2> QED BY <1>2, <1>3, <2>1, <2>3 DEF Fallen, Good, Held
  <1> QED BY <1>1, <1>2, <1>3 DEF Unserved

\* It fails for good, or is to be restarted.
LEMMA FallsKeeps ==
    ASSUME NEW p, NEW k, NEW c \in Clusters, Fallen(p, k, c), NEW x \in {"failed", "restarting"},
           NEW q \in Manager,
           q.info = [p.info EXCEPT ![c].state = x],
           q.procs = p.procs, q.up = p.up, q.owner = p.owner, q.next = p.next,
           q.awaited = p.awaited, q.starts = p.starts, q.start = p.start, q.stop = p.stop,
           q.stopping = p.stopping, q.waiters = p.waiters, q.assigned = p.assigned,
           q.asked = p.asked, \A t \in q.timers : t.start = p.starts
    PROVE  Good(q, k, {})
  <1>1. /\ q.info \in [Clusters -> Info] /\ p.info \in [Clusters -> Info]
        /\ \A d \in Clusters : /\ q.info[d].pid = p.info[d].pid
                               /\ q.info[d].shards = p.info[d].shards
                               /\ q.info[d].state = IF d = c THEN x ELSE p.info[d].state
    <2>1. p.info \in [Clusters -> Info] /\ q.info \in [Clusters -> Info]
      BY Fields DEF Fallen, Good
    <2> QED BY <2>1 DEF Info
  <1>2. Pid(q) = Pid(p) /\ \A n \in Pid(p) : p.procs[n].cluster \in Clusters
    BY Fields DEF Fallen, Good, Pid, Process
  <1>3. Refs(q)
    <2>1. \A d \in Clusters : q.info[d].state = "unknown" => q.info[d] = Unknown
      <3>1. \A d \in Clusters \ {c} : q.info[d] = p.info[d]
        BY <1>1
      <3> QED BY <1>1, <3>1 DEF Fallen, Good, Refs
    <2> QED BY <1>1, <1>2, <2>1 DEF Fallen, Good, Refs
  <1>4. Alive(q, {})
    <2>1. \A d \in Clusters : q.info[d].state \in {"failed", "restarting"} =>
              q.info[d].pid = 0 \/ Gone(q, q.info[d].pid)
      BY <1>1 DEF Fallen, Good, Alive, Gone
    <2>2. \A d \in q.up : /\ q.info[d].pid # 0 /\ ~Gone(q, q.info[d].pid)
                          /\ q.info[d].state \in Up
      <3>1. p.up \subseteq Clusters \ {c}
        BY Fields DEF Fallen, Good
      <3> QED BY <1>1, <3>1 DEF Fallen, Good, Alive, Gone
    <2>3. \A d \in Clusters : q.info[d].state \in Up => d \in q.up
      BY <1>1 DEF Fallen, Good, Alive, Up
    <2>4. \A n \in Pid(q) : Runs(q, n) =>
              Current(q, n) /\ Live(q.info[q.procs[n].cluster].state)
      BY <1>1, <1>2, FallenIsUnserved DEF Fallen, Good, Alive, Runs, Current, Unserved
    <2> QED BY <2>1, <2>2, <2>3, <2>4 DEF Alive
  <1>5. Phased(q)
    <2>1. ~Quiet(p)
      BY DEF Fallen, Quiet
    <2>2. q.start \notin {"leading", "gateway"} /\ q.stop = "none" /\ ~q.stopping
      BY <2>1, Fields DEF Fallen, Good, Phased
    <2>3. q.start = "none" => \E d \in Clusters : q.info[d].state = "failed"
      <3>1. q.start = "none" => \E d \in Clusters : p.info[d].state = "failed"
        BY <2>1 DEF Fallen, Good, Phased
      <3> QED BY <1>1, <3>1 DEF Fallen
    <2> QED BY <2>2, <2>3 DEF Fallen, Good, Phased
  <1>6. Owned(q, k)
    <2>1. \A d \in Clusters : d >= k /\ q.start = "launching" => d # c
      BY DEF Fallen
    <2>2. \A d \in Clusters \ {c} : q.info[d] = p.info[d]
      BY <1>1
    <2> QED BY <1>1, <2>1, <2>2 DEF Fallen, Good, Owned
  <1>7. Held(q) /\ Apart(q)
    <2>1. \A f \in Clusters : p.info[f].state = "failed" => q.info[f].state = "failed"
      BY <1>1 DEF Fallen
    <2> QED BY <1>1, <1>2, <2>1 DEF Fallen, Good, Held, Apart, Runs
  <1>8. Asked(q, {})
    <2>1. ASSUME NEW n, CanAnswer(p, n, {c}), p.procs[n].cluster # c PROVE CanAnswer(q, n, {})
      BY <1>1, <1>2, <2>1 DEF CanAnswer, Current, Gone
    <2>2. \A f \in Clusters : p.info[f].state = "failed" => q.info[f].state = "failed"
      BY Zenon, <1>1 DEF Fallen
    <2> QED BY <2>1, <2>2 DEF Fallen, Good, Asked, Untold
  <1> QED BY <1>2, <1>3, <1>4, <1>5, <1>6, <1>7, <1>8 DEF Fallen, Good

\* A ready cluster is asked to take the shards of one that failed.
LEMMA ReassignKeeps ==
    ASSUME NEW p, NEW k, Good(p, k, {}), NEW c \in Clusters, p.info[c].state = "failed",
           Unserved(p, c), p.start \notin {"leading", "gateway"}
    PROVE  LET q == Reassign(p, c) IN
           /\ Good(q, k, {}) /\ q.procs = p.procs /\ q.next = p.next /\ q.starts = p.starts
           /\ q.stop = p.stop
           /\ p.start # "waiting" => q.start = p.start
  <1> DEFINE q == Reassign(p, c)
  <1>1. CASE Takers(p) = {} \/ ~Reaches(p, Taker(p))
    <2>1. q = RejectReady(p, c)
      BY <1>1 DEF Reassign
    <2> QED BY <2>1, RejectReadyKeeps DEF Same
  <1>2. CASE ~(Takers(p) = {} \/ ~Reaches(p, Taker(p)))
    <2> DEFINE d == Taker(p)  n == p.info[d].pid  z == [p.assigned EXCEPT ![c] = n]
    <2>1. q = [p EXCEPT !.assigned = z]
      BY <1>2 DEF Reassign, Good, Manager
    <2>2. d \in Clusters /\ p.info[d].state = "ready" /\ n # 0
      BY <1>2, TakerIsReady DEF Good, Takers, Reaches
    <2>3. n \in Pid(p) /\ p.procs[n].cluster = d /\ ~Gone(p, n)
      <3>1. n \in Pid(p) /\ p.procs[n].cluster = d
        BY <2>2 DEF Good, Refs
      <3>2. d \in p.up
        BY <2>2 DEF Good, Alive, Up
      <3> QED BY <3>1, <3>2 DEF Good, Alive
    <2>4. CanAnswer(p, n, {})
      BY <2>2, <2>3 DEF CanAnswer, Current, Up
    <2>5. z \in [Clusters -> 0..MaxProcs]
      <3>1. n \in 0..MaxProcs
        BY <2>3, Fields, Constants DEF Good
      <3> QED BY <3>1, Fields DEF Good
    <2>6. \A f \in Clusters : z[f] = IF f = c THEN n ELSE p.assigned[f]
      BY Fields DEF Good
    <2> HIDE DEF d, n, z, q
    <2>7. q \in Manager
      BY <2>1, <2>5 DEF Good, Manager
    <2>8. /\ q.procs = p.procs /\ q.info = p.info /\ q.up = p.up /\ q.timers = p.timers
          /\ q.next = p.next /\ q.awaited = p.awaited /\ q.starts = p.starts
          /\ q.start = p.start /\ q.stop = p.stop /\ q.stopping = p.stopping
          /\ q.waiters = p.waiters /\ q.owner = p.owner /\ q.asked = p.asked /\ q.assigned = z
      BY <2>1 DEF Good, Manager
    <2>9. Pid(q) = Pid(p) /\ \A i \in Pid(p) : p.procs[i].cluster \in Clusters
      BY <2>8, Fields DEF Good, Pid, Process
    <2>10. Refs(q) /\ Owned(q, k)
      BY <2>8, <2>9 DEF Good, Refs, Owned
    <2>11. Alive(q, {})
      BY <2>8, <2>9 DEF Good, Alive, Runs, Gone, Current
    <2>12. Phased(q)
      BY <2>8, <2>9 DEF Good, Phased, Quiet, Runs
    <2>13. Apart(q)
      BY <2>8, <2>9 DEF Good, Apart, Runs
    <2>14. Held(q)
      <3>1. SUFFICES ASSUME NEW i \in Pid(p), Runs(p, i), NEW s \in p.procs[i].shards,
                            s \notin p.info[p.procs[i].cluster].shards
                     PROVE  \E f \in Clusters : /\ s \in p.info[f].shards
                                                /\ p.info[f].state = "failed"
                                                /\ z[f] \in {0, i}
        BY <2>8, <2>9 DEF Held, Runs
      <3>2. PICK f \in Clusters : /\ s \in p.info[f].shards /\ p.info[f].state = "failed"
                                  /\ p.assigned[f] \in {0, i}
        BY <3>1 DEF Good, Held
      <3>3. f # c
        BY <3>1, <3>2 DEF Unserved
      <3> QED BY <2>6, <3>2, <3>3
    <2>15. Asked(q, {})
      <3>1. \A i : CanAnswer(p, i, {}) => CanAnswer(q, i, {})
        BY <2>8, <2>9 DEF CanAnswer, Current, Gone
      <3> QED BY <2>4, <2>6, <2>8, <3>1 DEF Good, Asked
    <2> QED BY <2>7, <2>8, <2>10, <2>11, <2>12, <2>13, <2>14, <2>15 DEF Good, q
  <1> QED BY <1>1, <1>2

LEMMA RecoverKeeps ==
    ASSUME NEW p, NEW k, NEW c \in Clusters, Fallen(p, k, c)
    PROVE  LET q == Recover(p, c) IN
           /\ Good(q, k, {}) /\ q.procs = p.procs /\ q.next = p.next /\ q.starts = p.starts
           /\ q.stop = "none"
           /\ p.start # "waiting" => q.start = p.start
  <1> DEFINE q == Recover(p, c)
  <1>0. /\ p \in Manager /\ p.crashes \in [Clusters -> 0..MaxRestarts]
        /\ p.info \in [Clusters -> Info] /\ p.timers \in SUBSET Timer
        /\ \A t \in p.timers : t.start = p.starts
    BY Fields DEF Fallen, Good, Refs
  <1>1. CASE p.crashes[c] >= MaxRestarts
    <2> DEFINE y == [p.crashes EXCEPT ![c] = 0]  z == [p.info EXCEPT ![c].state = "failed"]
               h == [p EXCEPT !.crashes = y, !.info = z]
    <2>1. q = IF Reassigns THEN Reassign(h, c) ELSE RejectReady(h, c)
      BY <1>0, <1>1 DEF Recover, Manager
    <2>2. y \in [Clusters -> 0..MaxRestarts] /\ z \in [Clusters -> Info]
      BY <1>0, Constants DEF Info, States
    <2>3. z[c].state = "failed" /\ z[c].shards = p.info[c].shards
      BY <1>0 DEF Info
    <2> HIDE DEF y, q
    <2>4. h \in Manager
      <3> HIDE DEF z
      <3> QED BY <1>0, <2>2 DEF Manager
    <2>5. /\ h.procs = p.procs /\ h.info = z /\ h.up = p.up /\ h.timers = p.timers
          /\ h.next = p.next /\ h.awaited = p.awaited /\ h.starts = p.starts
          /\ h.start = p.start /\ h.stop = p.stop /\ h.stopping = p.stopping
          /\ h.waiters = p.waiters /\ h.owner = p.owner /\ h.asked = p.asked
          /\ h.assigned = p.assigned
      BY <1>0 DEF Manager
    <2> HIDE DEF h
    <2>6. Good(h, k, {})
      BY <1>0, <2>4, <2>5, FallsKeeps
    <2>7. Unserved(h, c)
      BY <2>3, <2>5, FallenIsUnserved DEF Unserved, Pid, Runs
    <2>8. h.start \notin {"leading", "gateway"} /\ h.stop = "none"
      BY <2>5 DEF Fallen, Good, Phased, Quiet
    <2>11. h.info[c].state = "failed"
      BY <2>3, <2>5
    <2> HIDE DEF z
    <2>9. LET r == Reassign(h, c) IN
           /\ Good(r, k, {}) /\ r.procs = h.procs /\ r.next = h.next /\ r.starts = h.starts
           /\ r.stop = h.stop
           /\ h.start # "waiting" => r.start = h.start
      BY <2>6, <2>7, <2>8, <2>11, ReassignKeeps
    <2>10. LET r == RejectReady(h, c) IN
           /\ Good(r, k, {}) /\ r.procs = h.procs /\ r.next = h.next /\ r.starts = h.starts
           /\ r.stop = h.stop
           /\ h.start # "waiting" => r.start = h.start
      BY <2>6, <2>11, RejectReadyKeeps DEF Same
    <2> QED BY <2>1, <2>5, <2>8, <2>9, <2>10 DEF q
  <1>2. CASE ~(p.crashes[c] >= MaxRestarts)
    <2> DEFINE y == [p.crashes EXCEPT ![c] = @ + 1]  z == [p.info EXCEPT ![c].state = "restarting"]
               w == p.timers \cup {[cluster |-> c, start |-> p.starts]}
    <2>1. q = [p EXCEPT !.crashes = y, !.info = z, !.timers = w]
      BY <1>0, <1>2 DEF Recover, Manager
    <2>2. /\ y \in [Clusters -> 0..MaxRestarts] /\ z \in [Clusters -> Info]
          /\ w \in SUBSET Timer
      <3>1. p.crashes[c] + 1 \in 0..MaxRestarts
        BY <1>0, <1>2, Constants
      <3>2. p.starts \in 0..MaxProcs + MaxFaults
        BY <1>0 DEF Manager
      <3> QED BY <1>0, <3>1, <3>2 DEF Info, States, Timer
    <2>3. \A t \in w : t.start = p.starts
      BY <1>0
    <2> HIDE DEF y, w, q
    <2>4. q \in Manager
      <3> HIDE DEF z
      <3> QED BY <1>0, <2>1, <2>2 DEF Manager
    <2>5. /\ q.procs = p.procs /\ q.info = z /\ q.up = p.up /\ q.timers = w
          /\ q.next = p.next /\ q.awaited = p.awaited /\ q.starts = p.starts
          /\ q.start = p.start /\ q.stop = p.stop /\ q.stopping = p.stopping
          /\ q.waiters = p.waiters /\ q.owner = p.owner /\ q.asked = p.asked
          /\ q.assigned = p.assigned
      BY <1>0, <2>1 DEF Manager
    <2>6. Good(q, k, {})
      BY <2>3, <2>4, <2>5, FallsKeeps
    <2> QED BY <2>5, <2>6 DEF Fallen, q
  <1> QED BY <1>1, <1>2

\* What is left of the cluster does not matter for who can serve its shards.
LEMMA FallenAlike ==
    ASSUME NEW p, NEW k, NEW c \in Clusters, Fallen(p, k, c), NEW q \in Manager,
           q.info = [p.info EXCEPT ![c].pid = 0],
           q.procs = p.procs, q.up = p.up, q.owner = p.owner, q.next = p.next,
           q.awaited = p.awaited, q.starts = p.starts, q.start = p.start, q.stop = p.stop,
           q.stopping = p.stopping, q.waiters = p.waiters, q.assigned = p.assigned,
           q.asked = p.asked, q.timers = p.timers
    PROVE  Fallen(q, k, c)
  <1>1. /\ q.info \in [Clusters -> Info] /\ p.info \in [Clusters -> Info]
        /\ \A d \in Clusters : /\ q.info[d].pid = IF d = c THEN 0 ELSE p.info[d].pid
                               /\ q.info[d].shards = p.info[d].shards
                               /\ q.info[d].state = p.info[d].state
    <2>1. p.info \in [Clusters -> Info] /\ q.info \in [Clusters -> Info]
      BY Fields DEF Fallen, Good
    <2> QED BY <2>1 DEF Info
  <1>2. Pid(q) = Pid(p) /\ \A n \in Pid(p) : p.procs[n].cluster \in Clusters /\ n # 0
    BY Fields DEF Fallen, Good, Pid, Process
  <1>3. Refs(q)
    <2>1. \A d \in Clusters : q.info[d].state = "unknown" => q.info[d] = Unknown
      <3>1. \A d \in Clusters \ {c} : q.info[d] = p.info[d]
        BY <1>1
      <3> QED BY <1>1, <3>1 DEF Fallen, Good, Refs
    <2> QED BY <1>1, <1>2, <2>1 DEF Fallen, Good, Refs
  <1>4. Alive(q, {c})
    <2>1. \A d \in Clusters : q.info[d].state \in {"failed", "restarting"} =>
              q.info[d].pid = 0 \/ Gone(q, q.info[d].pid)
      BY <1>1 DEF Fallen, Good, Alive, Gone
    <2>2. \A d \in q.up : /\ q.info[d].pid # 0 /\ ~Gone(q, q.info[d].pid)
                          /\ q.info[d].state \in Up
      <3>1. p.up \subseteq Clusters \ {c}
        BY Fields DEF Fallen, Good
      <3> QED BY <1>1, <3>1 DEF Fallen, Good, Alive, Gone
    <2>3. \A d \in Clusters : q.info[d].state \in Up =>
           \/ d \in q.up
           \/ d \in {c} /\ (q.info[d].pid = 0 \/ Gone(q, q.info[d].pid))
      BY <1>1 DEF Fallen, Good, Alive
    <2>4. \A n \in Pid(q) : Runs(q, n) =>
              Current(q, n) /\ Live(q.info[q.procs[n].cluster].state)
      BY <1>1, <1>2, FallenIsUnserved DEF Fallen, Good, Alive, Runs, Current, Unserved
    <2> QED BY <2>1, <2>2, <2>3, <2>4 DEF Alive
  <1>5. Phased(q)
    BY <1>1, <1>2 DEF Fallen, Good, Phased, Quiet, Runs
  <1>6. Owned(q, k)
    <2>1. \A d \in Clusters : d >= k /\ q.start = "launching" => d # c
      BY DEF Fallen
    <2>2. \A d \in Clusters \ {c} : q.info[d] = p.info[d]
      BY <1>1
    <2> QED BY <1>1, <2>1, <2>2 DEF Fallen, Good, Owned
  <1>7. Held(q) /\ Apart(q)
    BY <1>1, <1>2 DEF Fallen, Good, Held, Apart, Runs
  <1>8. Asked(q, {c}) /\ Untold(q, c)
    <2>1. ASSUME NEW n, CanAnswer(p, n, {c}), p.procs[n].cluster # c PROVE CanAnswer(q, n, {c})
      BY <1>1, <1>2, <2>1 DEF CanAnswer, Current, Gone
    <2>2. Asked(p, {c}) /\ Untold(p, c)
      BY DEF Fallen, Good
    <2>3. Asked(q, {c})
      BY <1>1, <2>1, <2>2 DEF Asked, Untold
    <2>4. Untold(q, c)
      BY <2>2 DEF Untold
    <2> QED BY <2>3, <2>4
  <1> QED BY <1>1, <1>2, <1>3, <1>4, <1>5, <1>6, <1>7, <1>8 DEF Fallen, Good

LEMMA ForkKeeps ==
    ASSUME NEW p, NEW k, NEW c \in Clusters, Fallen(p, k, c), Len(p.procs) < MaxProcs
    PROVE  LET q == Fork(p, c, p.info[c].shards) IN
           /\ Good(q, k, {}) /\ q.next = p.next /\ q.starts = p.starts /\ q.stop = p.stop
           /\ q.start = p.start /\ Len(q.procs) = Len(p.procs) + 1
           /\ \A n \in Pid(p) : n \in Pid(q) /\ q.procs[n] = p.procs[n]
  <1> DEFINE q == Fork(p, c, p.info[c].shards)
             l == Len(p.procs)
             x == [cluster |-> c, shards |-> p.info[c].shards, told |-> "run", state |-> "running"]
             y == [state |-> "starting", pid |-> l + 1, shards |-> p.info[c].shards]
             w == Append(p.procs, x)
             z == [p.info EXCEPT ![c] = y]
  <1>0. /\ p \in Manager /\ p.info \in [Clusters -> Info] /\ p.procs \in Seq(Process)
        /\ l \in Nat /\ Pid(p) = 1..l /\ l < MaxProcs /\ MaxProcs \in Nat
        /\ \A n \in Pid(p) : p.procs[n].cluster \in Clusters /\ n # 0
        /\ p.up \subseteq Clusters
    <2>1. p \in Manager /\ l < MaxProcs /\ MaxProcs \in Nat
      BY Constants DEF Fallen, Good
    <2>2. /\ p.info \in [Clusters -> Info] /\ p.procs \in Seq(Process) /\ p.up \subseteq Clusters
          /\ l \in Nat /\ Pid(p) = 1..l /\ \A n \in Pid(p) : p.procs[n] \in Process
      BY <2>1, Fields
    <2> QED BY <2>1, <2>2 DEF Process
  <1>1. q = [p EXCEPT !.procs = w, !.info = z, !.up = p.up \cup {c}, !.allReady = FALSE]
    BY <1>0 DEF Fork, Manager
  <1>2. x \in Process /\ y \in Info /\ z \in [Clusters -> Info]
    <2>1. p.info[c].shards \subseteq Shards
      BY <1>0 DEF Info
    <2> QED BY <1>0, <2>1 DEF Process, Info, States
  <1>3. /\ w \in Seq(Process) /\ Len(w) = l + 1
        /\ \A n \in 1..l : w[n] = p.procs[n]
        /\ w[l + 1] = x
    BY <1>0, <1>2, AppendProperties
  <1>4. \A d \in Clusters : z[d] = IF d = c THEN y ELSE p.info[d]
    BY <1>0
  <1>5. DOMAIN w = 1..l + 1
    BY <1>0, <1>3, LenProperties
  <1> HIDE DEF z, w, q
  <1>6. q \in Manager
    <2> DEFINE h == [p EXCEPT !.procs = w, !.info = z]
    <2>1. h \in Manager
      BY <1>0, <1>2, <1>3 DEF Manager
    <2>2. h.up = p.up /\ q = [h EXCEPT !.up = p.up \cup {c}, !.allReady = FALSE]
      BY <1>0, <1>1 DEF Manager
    <2> HIDE DEF h
    <2>3. p.up \cup {c} \in SUBSET Clusters
      BY <1>0
    <2> QED BY <2>1, <2>2, <2>3 DEF Manager
  <1>7. /\ q.procs = w /\ q.info = z /\ q.up = p.up \cup {c} /\ q.timers = p.timers
        /\ q.next = p.next /\ q.awaited = p.awaited /\ q.starts = p.starts
        /\ q.start = p.start /\ q.stop = p.stop /\ q.stopping = p.stopping
        /\ q.waiters = p.waiters /\ q.owner = p.owner /\ q.asked = p.asked
        /\ q.assigned = p.assigned
    BY <1>0, <1>1 DEF Manager
  <1>8. Pid(q) = Pid(p) \cup {l + 1} /\ l + 1 \notin Pid(p)
    BY <1>0, <1>5, <1>7 DEF Pid
  <1>9. \A n \in Pid(p) : q.procs[n] = p.procs[n]
    BY <1>0, <1>3, <1>7
  <1>10. q.procs[l + 1] = x
    BY <1>3, <1>7
  <1>11. \A d \in Clusters \ {c} : q.info[d] = p.info[d]
    BY <1>4, <1>7
  <1>12. q.info[c] = y
    BY <1>4, <1>7
  <1>13. \A n \in Pid(p) : Runs(q, n) <=> Runs(p, n)
    BY <1>9 DEF Runs
  <1>14. \A n \in Pid(p) : Gone(q, n) <=> Gone(p, n)
    BY <1>9 DEF Gone
  <1>15. Unserved(p, c) /\ p.assigned[c] = 0
    BY FallenIsUnserved
  <1>16. \A d \in Clusters : p.info[d].pid # 0 => p.info[d].pid \in Pid(p)
    BY DEF Fallen, Good, Refs
  <1> HIDE DEF l
  <1>17. Refs(q)
    <2>1. \A d \in Clusters : q.info[d].pid # 0 =>
              q.info[d].pid \in Pid(q) /\ q.procs[q.info[d].pid].cluster = d
      BY <1>8, <1>9, <1>10, <1>11, <1>12, <1>16 DEF Fallen, Good, Refs
    <2>2. \A d \in Clusters : q.info[d].state = "unknown" => q.info[d] = Unknown
      BY <1>11, <1>12 DEF Fallen, Good, Refs
    <2> QED BY <1>7, <1>8, <2>1, <2>2 DEF Fallen, Good, Refs
  <1>18. Alive(q, {})
    <2>1. \A d \in Clusters : q.info[d].state \in {"failed", "restarting"} =>
              q.info[d].pid = 0 \/ Gone(q, q.info[d].pid)
      BY <1>11, <1>12, <1>14, <1>16 DEF Fallen, Good, Alive
    <2>2. \A d \in q.up : /\ q.info[d].pid # 0 /\ ~Gone(q, q.info[d].pid)
                          /\ q.info[d].state \in Up
      <3>1. \A d \in p.up : d \in Clusters \ {c}
        BY <1>0 DEF Fallen
      <3>2. ASSUME NEW d \in p.up
            PROVE  /\ q.info[d].pid # 0 /\ ~Gone(q, q.info[d].pid)
                   /\ q.info[d].state \in Up
        BY <1>11, <1>14, <1>16, <3>1 DEF Fallen, Good, Alive
      <3>3. q.info[c].pid # 0 /\ ~Gone(q, q.info[c].pid) /\ q.info[c].state \in Up
        BY <1>0, <1>10, <1>12 DEF Gone, Up, l
      <3> QED BY <1>7, <3>2, <3>3
    <2>3. \A d \in Clusters : q.info[d].state \in Up => d \in q.up
      BY <1>7, <1>11 DEF Fallen, Good, Alive
    <2>4. \A n \in Pid(q) : Runs(q, n) =>
              Current(q, n) /\ Live(q.info[q.procs[n].cluster].state)
      <3>1. ASSUME NEW n \in Pid(p), Runs(q, n)
            PROVE  Current(q, n) /\ Live(q.info[q.procs[n].cluster].state)
        <4>1. Runs(p, n) /\ p.procs[n].cluster \in Clusters \ {c}
          BY <1>0, <1>13, <1>15, <3>1 DEF Unserved
        <4> QED BY <1>9, <1>11, <4>1 DEF Fallen, Good, Alive, Current
      <3>2. Current(q, l + 1) /\ Live(q.info[q.procs[l + 1].cluster].state)
        BY <1>10, <1>12 DEF Current, Live
      <3> QED BY <1>8, <3>1, <3>2
    <2> QED BY <2>1, <2>2, <2>3, <2>4 DEF Alive
  <1>19. Phased(q)
    <2>1. ~Quiet(p) /\ ~p.stopping
      BY DEF Fallen, Good, Quiet, Phased
    <2>2. (\E d \in Clusters : p.info[d].state = "failed") =>
              \E d \in Clusters : q.info[d].state = "failed"
      BY <1>11 DEF Fallen
    <2> QED BY <1>7, <2>1, <2>2 DEF Fallen, Good, Phased
  <1>20. Owned(q, k)
    <2>1. \A d \in Clusters : d >= k /\ q.start = "launching" => d # c
      BY <1>7 DEF Fallen
    <2>2. \A d \in Clusters : q.info[d].shards = p.info[d].shards
      BY <1>11, <1>12
    <2> QED BY <1>7, <1>11, <2>1, <2>2 DEF Fallen, Good, Owned
  <1>21. Held(q)
    <2>1. SUFFICES ASSUME NEW n \in Pid(q), Runs(q, n), NEW s \in q.procs[n].shards
                   PROVE  \/ s \in q.info[q.procs[n].cluster].shards
                          \/ \E f \in Clusters : /\ s \in q.info[f].shards
                                                 /\ q.info[f].state = "failed"
                                                 /\ q.assigned[f] \in {0, n}
      BY DEF Held
    <2>2. CASE n = l + 1
      BY <1>10, <1>12, <2>1, <2>2
    <2>3. CASE n \in Pid(p)
      <3>1. Runs(p, n) /\ s \in p.procs[n].shards /\ p.procs[n].cluster \in Clusters \ {c}
        BY <1>0, <1>9, <1>13, <1>15, <2>1, <2>3 DEF Unserved
      <3>2. CASE s \in p.info[p.procs[n].cluster].shards
        BY <1>9, <1>11, <2>3, <3>1, <3>2
      <3>3. CASE \E f \in Clusters : /\ s \in p.info[f].shards
                                     /\ p.info[f].state = "failed"
                                     /\ p.assigned[f] \in {0, n}
        <4>1. PICK f \in Clusters : /\ s \in p.info[f].shards
                                    /\ p.info[f].state = "failed"
                                    /\ p.assigned[f] \in {0, n}
          BY <3>3
        <4>2. f # c
          BY <4>1 DEF Fallen
        <4> QED BY <1>7, <1>11, <4>1, <4>2
      <3> QED BY <2>3, <3>1, <3>2, <3>3 DEF Fallen, Good, Held
    <2> QED BY <1>8, <2>1, <2>2, <2>3
  <1>22. Apart(q)
    <2>1. \A n, i \in Pid(p) :
            n # i /\ Runs(q, n) /\ Runs(q, i) => q.procs[n].shards \cap q.procs[i].shards = {}
      BY <1>9, <1>13 DEF Fallen, Good, Apart
    <2>2. \A n \in Pid(p) : Runs(q, n) => q.procs[n].shards \cap q.procs[l + 1].shards = {}
      BY <1>9, <1>10, <1>13, <1>15 DEF Unserved
    <2> QED BY <1>8, <2>1, <2>2 DEF Apart
  <1>23. Asked(q, {})
    <2>1. ASSUME NEW n, CanAnswer(p, n, {c}), p.procs[n].cluster # c PROVE CanAnswer(q, n, {})
      <3>1. n \in Pid(p) /\ p.procs[n].cluster \in Clusters \ {c}
        BY <1>0, <2>1 DEF CanAnswer
      <3> QED BY <1>8, <1>9, <1>11, <1>14, <2>1, <3>1 DEF CanAnswer, Current
    <2>2. \A f \in Clusters : p.info[f].state = "failed" => q.info[f].state = "failed"
      BY <1>11 DEF Fallen
    <2> QED BY <1>7, <2>1, <2>2 DEF Fallen, Good, Asked, Untold
  <1>24. Len(q.procs) = l + 1
    BY <1>3, <1>7
  <1>25. l + 1 <= MaxProcs
    BY <1>0
  <1> QED BY Zenon, <1>6, <1>7, <1>8, <1>9, <1>17, <1>18, <1>19, <1>20, <1>21, <1>22, <1>23, <1>24,
             <1>25 DEF Good, q, l

-----------------------------------------------------------------------------
(* A cluster is launched again, or for the first time.                     *)

\* The processes of p are processes of q, as they were.
Grown(p, q) ==
    /\ Len(p.procs) <= Len(q.procs)
    /\ \A n \in Pid(p) : n \in Pid(q) /\ q.procs[n] = p.procs[n]

\* A process was forked for a cluster, or its fork has failed and is dealt with.
Launched(p, q, k, throws) ==
    /\ Good(q, k, {}) /\ q.next = p.next /\ q.starts = p.starts /\ q.stop = "none"
    /\ p.start # "waiting" => q.start = p.start
    /\ ~throws => Len(q.procs) = Len(p.procs) + 1
    /\ Grown(p, q)

LEMMA LaunchOrRecoverKeeps ==
    ASSUME NEW p, NEW k, NEW c \in Clusters, Fallen(p, k, c), NEW throws \in BOOLEAN,
           ~throws => Len(p.procs) < MaxProcs
    PROVE  Launched(p, LaunchOrRecover(p, c, p.info[c].shards, throws), k, throws)
  <1>0. /\ p \in Manager /\ p.info \in [Clusters -> Info] /\ p.up \subseteq Clusters
        /\ c \notin p.up /\ p.stop = "none" /\ Len(p.procs) \in Nat
    BY Fields DEF Fallen, Good
  <1>1. CASE ~throws
    <2> DEFINE q == Fork(p, c, p.info[c].shards)
    <2>1. /\ Good(q, k, {}) /\ q.next = p.next /\ q.starts = p.starts /\ q.stop = p.stop
          /\ q.start = p.start /\ Len(q.procs) = Len(p.procs) + 1
          /\ \A n \in Pid(p) : n \in Pid(q) /\ q.procs[n] = p.procs[n]
      BY <1>1, ForkKeeps
    <2>2. LaunchOrRecover(p, c, p.info[c].shards, throws) = q
      BY <1>1 DEF LaunchOrRecover
    <2> HIDE DEF q
    <2> QED BY <1>0, <2>1, <2>2 DEF Launched, Grown
  <1>2. CASE throws
    <2> DEFINE z == [p.info EXCEPT ![c].pid = 0]
               h == [p EXCEPT !.info = z, !.allReady = FALSE]
    <2>1. p.info[c].state # "unknown" /\ p.info[c] \in Info
      BY <1>0 DEF Fallen
    <2>2. [state |-> p.info[c].state, pid |-> 0, shards |-> p.info[c].shards]
            = [p.info[c] EXCEPT !.pid = 0]
      BY <2>1 DEF Info
    <2>3. p.up \ {c} = p.up
      BY <1>0
    <2>4. LaunchOrRecover(p, c, p.info[c].shards, throws) = Recover(h, c)
      <3>1. [p EXCEPT !.info[c] = [state |-> IF @.state = "unknown" THEN "starting" ELSE @.state,
                                   pid |-> 0, shards |-> p.info[c].shards],
                      !.up = @ \ {c}, !.allReady = FALSE] = h
        BY <1>0, <2>1, <2>2, <2>3 DEF Manager
      <3> HIDE DEF h
      <3> QED BY <1>2, <3>1 DEF LaunchOrRecover
    <2>5. z \in [Clusters -> Info]
      <3>1. 0 \in 0..MaxProcs
        BY Constants
      <3>2. [p.info[c] EXCEPT !.pid = 0] \in Info
        BY <2>1, <3>1 DEF Info
      <3> QED BY <1>0, <3>2
    <2>6. h \in Manager
      <3> HIDE DEF z
      <3> QED BY <1>0, <2>5 DEF Manager
    <2>7. /\ h.procs = p.procs /\ h.info = z /\ h.up = p.up /\ h.owner = p.owner /\ h.next = p.next
          /\ h.awaited = p.awaited /\ h.starts = p.starts /\ h.start = p.start /\ h.stop = p.stop
          /\ h.stopping = p.stopping /\ h.waiters = p.waiters /\ h.assigned = p.assigned
          /\ h.asked = p.asked /\ h.timers = p.timers
      BY <1>0 DEF Manager
    <2> HIDE DEF h
    <2>8. Fallen(h, k, c)
      BY <2>6, <2>7, FallenAlike
    <2> DEFINE q == Recover(h, c)
    <2>9. /\ Good(q, k, {}) /\ q.procs = h.procs /\ q.next = h.next /\ q.starts = h.starts
          /\ q.stop = "none"
          /\ h.start # "waiting" => q.start = h.start
      BY <2>8, RecoverKeeps
    <2> HIDE DEF q, z
    <2>10. Launched(p, q, k, throws)
      BY <1>0, <1>2, <2>7, <2>9 DEF Launched, Grown, Pid
    <2> QED BY <2>4, <2>10 DEF q
  <1> QED BY <1>1, <1>2

\* The timer of a cluster that is to be restarted.
LEMMA RestartFiresKeeps ==
    ASSUME NEW p, NEW k, Good(p, k, {}), NEW t \in p.timers, NEW throws \in BOOLEAN,
           ~throws => Len(p.procs) < MaxProcs
    PROVE  LET q == RestartFires(p, t, throws) IN
           Good(q, k, {}) /\ q.next = p.next /\ q.starts = p.starts /\ Grown(p, q)
  <1> DEFINE h == [p EXCEPT !.timers = @ \ {t}]  c == t.cluster
  <1>0. /\ p \in Manager /\ p.info \in [Clusters -> Info] /\ p.timers \subseteq Timer
        /\ c \in Clusters /\ Len(p.procs) \in Nat /\ p.stopping \in BOOLEAN
    BY Fields DEF Good, Timer
  <1>1. h \in Manager
    BY <1>0 DEF Manager
  <1>2. /\ h.procs = p.procs /\ h.info = p.info /\ h.up = p.up /\ h.owner = p.owner
        /\ h.next = p.next /\ h.awaited = p.awaited /\ h.starts = p.starts /\ h.start = p.start
        /\ h.stop = p.stop /\ h.stopping = p.stopping /\ h.waiters = p.waiters
        /\ h.assigned = p.assigned /\ h.asked = p.asked /\ h.timers = p.timers \ {t}
    BY <1>0 DEF Manager
  <1>3. p.stop = "none" /\ ~p.stopping /\ t.start = p.starts
    BY DEF Good, Phased, Refs
  <1>4. RestartFires(p, t, throws) = IF p.info[c].state # "restarting" THEN h
                                     ELSE LaunchOrRecover(h, c, h.info[c].shards, throws)
    BY <1>2, <1>3 DEF RestartFires
  <1> HIDE DEF h
  <1>5. Good(h, k, {})
    <2>1. Same(p, h) /\ h.next \in Clusters /\ h.awaited \subseteq Pid(p)
          /\ \A u \in h.timers : u.start = h.starts
      BY <1>2, Fields DEF Good, Refs, Same
    <2>2. Phased(h)
      BY <1>2, <1>3 DEF Good, Phased, Quiet, Runs, Pid
    <2> QED BY <1>1, <2>1, <2>2, SameKeeps DEF Good
  <1>6. CASE p.info[c].state # "restarting"
    BY <1>0, <1>2, <1>4, <1>5, <1>6 DEF Grown, Pid
  <1>7. CASE p.info[c].state = "restarting"
    <2>1. Fallen(h, k, c)
      <3>1. h.info[c].state = "restarting" /\ h.stop = "none"
        BY <1>2, <1>3, <1>7
      <3>2. h.info[c].pid = 0 \/ Gone(h, h.info[c].pid)
        BY <1>0, <1>5, <3>1 DEF Good, Alive
      <3>3. c \notin h.up
        BY <1>5, <3>1 DEF Good, Alive, Up
      <3>4. Untold(h, c)
        BY <1>5, <3>1 DEF Good, Asked, CanAnswer, Untold, Up
      <3>5. h.start = "launching" => ~(c >= k)
        BY <1>0, <1>5, <3>1 DEF Good, Owned, Unknown
      <3>6. Alive(h, {c}) /\ Asked(h, {c})
        BY <1>5 DEF Good, Alive, Asked, CanAnswer
      <3> QED BY <1>5, <3>1, <3>2, <3>3, <3>4, <3>5, <3>6 DEF Fallen, Good
    <2> DEFINE q == LaunchOrRecover(h, c, h.info[c].shards, throws)
    <2>2. ~throws => Len(h.procs) < MaxProcs
      BY <1>2
    <2>3. Launched(h, q, k, throws)
      BY <1>0, <2>1, <2>2, LaunchOrRecoverKeeps
    <2>4. RestartFires(p, t, throws) = q
      BY <1>4, <1>7
    <2> HIDE DEF q
    <2> QED BY <1>2, <2>3, <2>4 DEF Launched, Grown, Pid
  <1> QED BY <1>6, <1>7

LEMMA PlanFleetKeeps ==
    ASSUME NEW p, NEW k, Good(p, k, {}), p.start = "gateway", p.starts < MaxProcs + MaxFaults
    PROVE  LET q == PlanFleet(p) IN
           /\ Good(q, 0, {}) /\ q.next = 0 /\ q.starts = p.starts + 1
           /\ q.start = "launching" /\ q.procs = p.procs
  <1> DEFINE q == PlanFleet(p)  z == [c \in Clusters |-> Unknown]
             w == [s \in Shards |-> NoCluster]
  <1>0. /\ p \in Manager /\ p.starts \in 0..MaxProcs + MaxFaults
        /\ \A n \in Pid(p) : p.procs[n].cluster \in Clusters
    BY Fields DEF Good, Manager, Process
  <1>1. Quiet(p) /\ p.stop = "none" /\ ~p.stopping
    BY DEF Good, Phased
  <1>2. p.starts + 1 \in 0..MaxProcs + MaxFaults /\ 0 \in 0..LastCluster + 1
    BY <1>0, Constants
  <1>3. z \in [Clusters -> Info] /\ w \in [Shards -> Clusters \cup {NoCluster}]
    BY Constants DEF Unknown, Info, States
  <1>4. \A c \in Clusters : z[c] = Unknown
    OBVIOUS
  <1>5. \A s \in Shards : w[s] = NoCluster
    OBVIOUS
  <1>6. q = [p EXCEPT !.start = "launching", !.next = 0, !.starts = p.starts + 1, !.info = z,
                      !.owner = w]
    BY <1>0 DEF PlanFleet, Manager
  <1> HIDE DEF z, w, q
  <1>7. q \in Manager
    <2> DEFINE h == [p EXCEPT !.info = z, !.owner = w]
    <2>1. h \in Manager
      BY <1>0, <1>3 DEF Manager
    <2>2. q = [h EXCEPT !.start = "launching", !.next = 0, !.starts = p.starts + 1]
      BY <1>0, <1>6 DEF Manager
    <2> HIDE DEF h
    <2> QED BY <1>2, <2>1, <2>2 DEF Manager
  <1>8. /\ q.procs = p.procs /\ q.info = z /\ q.up = p.up /\ q.owner = w
        /\ q.next = 0 /\ q.awaited = p.awaited /\ q.starts = p.starts + 1
        /\ q.start = "launching" /\ q.stop = p.stop /\ q.stopping = p.stopping
        /\ q.waiters = p.waiters /\ q.assigned = p.assigned /\ q.asked = p.asked
        /\ q.timers = p.timers
    BY <1>0, <1>6 DEF Manager
  <1>9. Pid(q) = Pid(p) /\ \A n \in Pid(p) : ~Runs(q, n) /\ ~Runs(p, n)
    BY <1>1, <1>8 DEF Pid, Runs, Quiet
  <1>10. Refs(q)
    BY <1>1, <1>4, <1>8, <1>9, Constants DEF Good, Refs, Quiet, Unknown
  <1>11. Alive(q, {})
    BY <1>1, <1>4, <1>8, <1>9 DEF Alive, Quiet, Unknown, Up
  <1>12. Phased(q)
    BY <1>1, <1>8 DEF Good, Phased
  <1>13. Owned(q, 0)
    <2>1. \A s \in Shards, c \in Clusters : s \in q.info[c].shards <=> q.owner[s] = c
      BY <1>4, <1>5, <1>8, Constants DEF Unknown
    <2> QED BY <1>4, <1>5, <1>8, <2>1 DEF Owned
  <1>14. Held(q) /\ Apart(q)
    BY <1>9 DEF Held, Apart
  <1>15. Asked(q, {})
    <2>1. \A n : ~CanAnswer(p, n, {})
      BY <1>0, <1>1 DEF CanAnswer, Quiet, Up
    <2> QED BY <1>8, <2>1 DEF Good, Asked
  <1> QED BY <1>7, <1>8, <1>10, <1>11, <1>12, <1>13, <1>14, <1>15 DEF Good, q

LEMMA LaunchNextKeeps ==
    ASSUME NEW p, Good(p, p.next, {}), p.start = "launching", NEW throws \in BOOLEAN,
           ~throws => Len(p.procs) < MaxProcs
    PROVE  LET q == LaunchNext(p, throws) IN
           /\ Good(q, q.next, {}) /\ q.starts = p.starts /\ Grown(p, q)
           /\ ~throws => Len(q.procs) = Len(p.procs) + 1
  <1> DEFINE c == p.next  mine == {s \in Shards : Plan[s] = c}
             w == [s \in Shards |-> IF s \in mine THEN c ELSE p.owner[s]]
             y == [state |-> "starting", pid |-> 0, shards |-> mine]
             z == [p.info EXCEPT ![c] = y]
             a == [p EXCEPT !.owner = w]
             b == [p EXCEPT !.owner = w, !.info = z]
             q == LaunchOrRecover(b, c, mine, throws)
  <1>0. /\ p \in Manager /\ p.info \in [Clusters -> Info] /\ c \in Clusters
        /\ p.owner \in [Shards -> Clusters \cup {NoCluster}] /\ p.up \subseteq Clusters
        /\ \A n \in Pid(p) : p.procs[n].cluster \in Clusters /\ n # 0
    BY Fields DEF Good, Refs, Process
  <1>1. p.info[c] = Unknown /\ p.info[c].state = "unknown" /\ p.info[c].shards = {}
    BY <1>0, Constants DEF Good, Owned, Unknown
  <1>2. \A s \in mine : p.owner[s] = NoCluster
    BY <1>0, Constants DEF Good, Owned
  <1>3. w \in [Shards -> Clusters \cup {NoCluster}] /\ z \in [Clusters -> Info]
    BY <1>0, Constants DEF Info, States
  <1>4. \A s \in Shards : w[s] = IF s \in mine THEN c ELSE p.owner[s]
    OBVIOUS
  <1>5. \A d \in Clusters : z[d] = IF d = c THEN y ELSE p.info[d]
    BY <1>0
  <1>6. LaunchOrRecover(a, c, mine, throws) = q
    <2> DEFINE P == Append(p.procs, [cluster |-> c, shards |-> mine, told |-> "run",
                                     state |-> "running"])
               I(v) == [p.info EXCEPT ![c] = v]
    <2>1. \A v : [z EXCEPT ![c] = v] = I(v)
      BY <1>0
    <2>2. a.info = p.info /\ a.procs = p.procs /\ a.up = p.up
      BY <1>0 DEF Manager
    <2>3. b.info = z /\ b.procs = p.procs /\ b.up = p.up
      BY <1>0 DEF Manager
    <2>4. \A x1, x2, x3 : [a EXCEPT !.procs = x1, !.info = x2, !.up = x3, !.allReady = FALSE]
                         = [b EXCEPT !.procs = x1, !.info = x2, !.up = x3, !.allReady = FALSE]
      <3> HIDE DEF w, z
      <3> QED BY <1>0 DEF Manager
    <2>5. \A x2, x3 : [a EXCEPT !.info = x2, !.up = x3, !.allReady = FALSE]
                     = [b EXCEPT !.info = x2, !.up = x3, !.allReady = FALSE]
      <3> HIDE DEF w, z
      <3> QED BY <1>0 DEF Manager
    <2>6. z[c].state = "starting"
      BY <1>0
    <2>7. a \in Manager /\ b \in Manager
      <3> HIDE DEF w, z
      <3> QED BY <1>0, <1>3 DEF Manager
    <2> HIDE DEF a, b, z
    <2>8. Fork(a, c, mine) = Fork(b, c, mine)
      <3> DEFINE F == [state |-> "starting", pid |-> Len(p.procs) + 1, shards |-> mine]
      <3>1. Fork(a, c, mine) = [a EXCEPT !.procs = P, !.info = I(F), !.up = p.up \cup {c},
                                         !.allReady = FALSE]
        BY <2>2, <2>7 DEF Fork, Manager
      <3>2. Fork(b, c, mine) = [b EXCEPT !.procs = P, !.info = [z EXCEPT ![c] = F],
                                         !.up = p.up \cup {c}, !.allReady = FALSE]
        BY <2>3, <2>7 DEF Fork, Manager
      <3> HIDE DEF P, I, F
      <3> QED BY <2>1, <2>4, <3>1, <3>2
    <2>9. [a EXCEPT !.info[c] = [state |-> IF @.state = "unknown" THEN "starting" ELSE @.state,
                                 pid |-> 0, shards |-> mine],
                    !.up = @ \ {c}, !.allReady = FALSE]
        = [b EXCEPT !.info[c] = [state |-> IF @.state = "unknown" THEN "starting" ELSE @.state,
                                 pid |-> 0, shards |-> mine],
                    !.up = @ \ {c}, !.allReady = FALSE]
      <3>1. [a EXCEPT !.info[c] = [state |-> IF @.state = "unknown" THEN "starting" ELSE @.state,
                                   pid |-> 0, shards |-> mine],
                      !.up = @ \ {c}, !.allReady = FALSE]
          = [a EXCEPT !.info = I(y), !.up = p.up \ {c}, !.allReady = FALSE]
        BY Zenon, <1>1, <2>2, <2>7 DEF Manager
      <3>2. [b EXCEPT !.info[c] = [state |-> IF @.state = "unknown" THEN "starting" ELSE @.state,
                                   pid |-> 0, shards |-> mine],
                      !.up = @ \ {c}, !.allReady = FALSE]
          = [b EXCEPT !.info = [z EXCEPT ![c] = y], !.up = p.up \ {c}, !.allReady = FALSE]
        BY <2>3, <2>6, <2>7 DEF Manager
      <3> HIDE DEF I, y
      <3> QED BY <2>1, <2>5, <3>1, <3>2
    <2> QED BY <2>8, <2>9 DEF LaunchOrRecover
  <1>7. LaunchNext(p, throws) =
            IF c < LastCluster THEN [q EXCEPT !.next = @ + 1]
            ELSE IF WaitForReady /\ ~IsReady(q)
                 THEN [q EXCEPT !.next = 0, !.start = "waiting", !.waiters = @ \cup {"spawn"}]
                 ELSE [q EXCEPT !.next = 0, !.start = "done"]
    <2>1. [p EXCEPT !.owner = [s \in Shards |-> IF s \in mine THEN c ELSE @[s]]] = a
      BY <1>0 DEF Manager
    <2> HIDE DEF a, b, mine
    <2> QED BY <1>6, <2>1 DEF LaunchNext, mine
  <1>8. b \in Manager
    <2> HIDE DEF w, z
    <2> QED BY <1>0, <1>3 DEF Manager
  <1>9. /\ b.procs = p.procs /\ b.info = z /\ b.up = p.up /\ b.owner = w /\ b.next = p.next
        /\ b.awaited = p.awaited /\ b.starts = p.starts /\ b.start = p.start /\ b.stop = p.stop
        /\ b.stopping = p.stopping /\ b.waiters = p.waiters /\ b.assigned = p.assigned
        /\ b.asked = p.asked /\ b.timers = p.timers
    BY <1>0 DEF Manager
  <1>30. /\ y.state = "starting" /\ y.pid = 0 /\ y.shards = mine /\ mine \subseteq Shards
         /\ \A s \in Shards : s \in mine <=> Plan[s] = c
    OBVIOUS
  <1> HIDE DEF w, z, b, y, mine
  <1>10. p.stop = "none" /\ ~p.stopping
    BY DEF Good, Phased
  <1>11. Pid(b) = Pid(p) /\ \A n \in Pid(p) : Runs(b, n) <=> Runs(p, n)
    BY <1>9 DEF Pid, Runs
  <1>12. \A n \in Pid(p) : Runs(p, n) => p.procs[n].cluster # c
    BY <1>1 DEF Good, Alive, Live
  <1>13. Refs(b)
    <2>1. \A d \in Clusters : b.info[d].pid # 0 => p.info[d].pid = b.info[d].pid
      BY <1>30, <1>5, <1>9
    <2>2. \A d \in Clusters : b.info[d].state = "unknown" => b.info[d] = Unknown
      BY <1>30, <1>5, <1>9 DEF Good, Refs
    <2> QED BY <1>9, <1>11, <2>1, <2>2 DEF Good, Refs
  <1>14. Alive(b, {c})
    <2>1. \A d \in Clusters : b.info[d].state \in {"failed", "restarting"} =>
              b.info[d].pid = 0 \/ Gone(b, b.info[d].pid)
      BY <1>30, <1>5, <1>9 DEF Good, Alive, Gone
    <2>2. c \notin p.up
      BY <1>1 DEF Good, Alive, Up
    <2>3. \A d \in b.up : /\ b.info[d].pid # 0 /\ ~Gone(b, b.info[d].pid)
                          /\ b.info[d].state \in Up
      <3>1. \A d \in p.up : d \in Clusters \ {c}
        BY <1>0, <2>2
      <3> QED BY <1>30, <1>5, <1>9, <3>1 DEF Good, Alive, Gone
    <2>4. \A d \in Clusters : b.info[d].state \in Up =>
           \/ d \in b.up
           \/ d \in {c} /\ (b.info[d].pid = 0 \/ Gone(b, b.info[d].pid))
      BY <1>30, <1>5, <1>9 DEF Good, Alive
    <2>5. \A n \in Pid(b) : Runs(b, n) =>
              Current(b, n) /\ Live(b.info[b.procs[n].cluster].state)
      BY <1>30, <1>0, <1>5, <1>9, <1>11, <1>12 DEF Good, Alive, Current
    <2> QED BY <2>1, <2>3, <2>4, <2>5 DEF Alive
  <1>15. Phased(b)
    BY <1>9, <1>10 DEF Good, Phased
  <1>16. Owned(b, c + 1)
    <2>1. \A s \in Shards, d \in Clusters : s \in b.info[d].shards <=> b.owner[s] = d
      <3>1. SUFFICES ASSUME NEW s \in Shards, NEW d \in Clusters
                     PROVE  s \in b.info[d].shards <=> b.owner[s] = d
        OBVIOUS
      <3>2. s \in p.info[d].shards <=> p.owner[s] = d
        BY DEF Good, Owned
      <3> QED BY <1>30, <1>1, <1>2, <1>4, <1>5, <1>9, <3>2, Constants
    <2>2. \A d \in Clusters : d >= c + 1 => d >= c /\ d # c
      BY <1>0, Constants
    <2>3. \A d \in Clusters : d >= c + 1 =>
               /\ b.info[d] = Unknown
               /\ \A s \in Shards : Plan[s] = d => b.owner[s] = NoCluster
      BY <1>30, <1>4, <1>5, <1>9, <2>2 DEF Good, Owned
    <2> QED BY <2>1, <2>3 DEF Owned
  <1>17. Held(b) /\ Apart(b)
    <2>1. \A f \in Clusters : p.info[f].state = "failed" => b.info[f] = p.info[f]
      BY <1>30, <1>1, <1>5, <1>9
    <2>2. \A n \in Pid(p) : Runs(p, n) => b.info[p.procs[n].cluster] = p.info[p.procs[n].cluster]
      BY <1>30, <1>0, <1>5, <1>9, <1>12
    <2>3. Held(b)
      BY <1>9, <1>11, <2>1, <2>2 DEF Good, Held
    <2>4. Apart(b)
      BY <1>9, <1>11 DEF Good, Apart
    <2> QED BY <2>3, <2>4
  <1>18. Asked(b, {c}) /\ Untold(b, c)
    <2>1. \A n : CanAnswer(p, n, {}) => p.procs[n].cluster # c /\ CanAnswer(b, n, {c})
      BY <1>30, <1>0, <1>1, <1>5, <1>9, <1>11 DEF CanAnswer, Current, Gone, Up
    <2>2. \A f \in Clusters : p.info[f].state = "failed" => b.info[f].state = "failed"
      BY <1>30, <1>1, <1>5, <1>9
    <2>3. Asked(b, {c})
      BY <1>9, <2>1, <2>2 DEF Good, Asked
    <2>4. Untold(b, c)
      BY <1>9, <2>1 DEF Good, Asked, Untold
    <2> QED BY <2>3, <2>4
  <1>19. Fallen(b, c + 1, c) /\ b.info[c].shards = mine
    <2>1. b.info[c] = y
      BY <1>0, <1>5, <1>9
    <2>2. c \notin b.up
      BY <1>1, <1>9 DEF Good, Alive, Up
    <2>3. ~(c >= c + 1)
      BY <1>0, Constants
    <2> QED BY <1>30, <1>8, <1>9, <1>10, <1>13, <1>14, <1>15, <1>16, <1>17, <1>18, <2>1, <2>2, <2>3
            DEF Fallen, Good
  <1>20. /\ Good(q, c + 1, {}) /\ q.next = c /\ q.starts = p.starts /\ q.stop = "none"
         /\ q.start = "launching" /\ Grown(p, q)
         /\ ~throws => Len(q.procs) = Len(p.procs) + 1
    <2>1. ~throws => Len(b.procs) < MaxProcs
      BY <1>9
    <2>2. Launched(b, LaunchOrRecover(b, c, b.info[c].shards, throws), c + 1, throws)
      BY <1>0, <1>19, <2>1, LaunchOrRecoverKeeps
    <2>3. Launched(b, q, c + 1, throws)
      BY <1>19, <2>2
    <2> HIDE DEF q
    <2> QED BY <1>9, <1>11, <2>3 DEF Launched, Grown
  <1> HIDE DEF q, a
  <1>21. ASSUME NEW j \in Clusters, NEW x, NEW v, NEW r, r \in Manager,
                r.next = j, r.start = x, r.waiters = v,
                r.procs = q.procs, r.info = q.info, r.up = q.up, r.owner = q.owner,
                r.awaited = q.awaited, r.starts = q.starts, r.stop = q.stop,
                r.stopping = q.stopping, r.assigned = q.assigned, r.asked = q.asked,
                r.timers = q.timers,
                x \in {"launching", "waiting", "done"}, x = "launching" => j = c + 1,
                "spawn" \in v <=> x = "waiting"
         PROVE  Good(r, j, {})
    <2>1. Same(q, r)
      BY <1>20, <1>21, Fields DEF Good, Same
    <2>2. r.awaited \subseteq Pid(q) /\ \A t \in r.timers : t.start = r.starts
      BY <1>20, <1>21 DEF Good, Refs
    <2>3. /\ Len(r.procs) <= MaxProcs
          /\ Refs(r) /\ Alive(r, {}) /\ Owned(r, c + 1) /\ Held(r) /\ Apart(r) /\ Asked(r, {})
      BY <1>20, <1>21, <2>1, <2>2, SameKeeps
    <2>4. Owned(r, j)
      BY <1>21, <2>3 DEF Owned
    <2>5. Phased(r)
      BY <1>20, <1>21 DEF Good, Phased
    <2> QED BY <1>21, <2>3, <2>4, <2>5 DEF Good
  <1>22. q \in Manager
    BY <1>20 DEF Good
  <1>23. CASE c < LastCluster
    <2> DEFINE r == [q EXCEPT !.next = c + 1]
    <2>1. LaunchNext(p, throws) = r
      BY <1>7, <1>20, <1>23
    <2>2. c + 1 \in Clusters /\ c + 1 \in 0..LastCluster + 1
      BY <1>0, <1>23, Constants DEF Clusters
    <2>3. r \in Manager
      BY <1>22, <2>2 DEF Manager
    <2>4. /\ r.next = c + 1 /\ r.start = q.start /\ r.waiters = q.waiters
          /\ r.procs = q.procs /\ r.info = q.info /\ r.up = q.up /\ r.owner = q.owner
          /\ r.awaited = q.awaited /\ r.starts = q.starts /\ r.stop = q.stop
          /\ r.stopping = q.stopping /\ r.assigned = q.assigned /\ r.asked = q.asked
          /\ r.timers = q.timers
      BY <1>22 DEF Manager
    <2> HIDE DEF r
    <2>5. "spawn" \notin q.waiters
      BY <1>20 DEF Good, Phased
    <2>6. Good(r, c + 1, {})
      BY <1>20, <1>21, <2>2, <2>3, <2>4, <2>5
    <2> QED BY <1>20, <2>1, <2>4, <2>6 DEF Grown, Pid
  <1>24. CASE ~(c < LastCluster)
    <2> DEFINE wait == WaitForReady /\ ~IsReady(q)
               x == IF wait THEN "waiting" ELSE "done"
               v == IF wait THEN q.waiters \cup {"spawn"} ELSE q.waiters
               r == [q EXCEPT !.next = 0, !.start = x, !.waiters = v]
    <2>1. LaunchNext(p, throws) = r
      <3>1. CASE wait
        <4>1. r = [q EXCEPT !.next = 0, !.start = "waiting", !.waiters = q.waiters \cup {"spawn"}]
          BY <3>1
        <4> HIDE DEF r
        <4> QED BY <1>7, <1>24, <3>1, <4>1
      <3>2. CASE ~wait
        <4>1. r = [q EXCEPT !.next = 0, !.start = "done"]
          BY <1>22, <3>2 DEF Manager
        <4> HIDE DEF r
        <4> QED BY <1>7, <1>24, <3>2, <4>1
      <3> QED BY <3>1, <3>2
    <2>2. "spawn" \notin q.waiters /\ q.waiters \subseteq {"spawn", "user"}
      BY <1>20, Fields DEF Good, Phased
    <2>3. x \in {"waiting", "done"} /\ v \subseteq {"spawn", "user"} /\ ("spawn" \in v <=> x = "waiting")
      BY <2>2
    <2> HIDE DEF x, v, wait
    <2>4. r \in Manager
      <3>1. 0 \in 0..LastCluster + 1
        BY Constants
      <3> QED BY <1>22, <2>3, <3>1 DEF Manager
    <2>5. /\ r.next = 0 /\ r.start = x /\ r.waiters = v
          /\ r.procs = q.procs /\ r.info = q.info /\ r.up = q.up /\ r.owner = q.owner
          /\ r.awaited = q.awaited /\ r.starts = q.starts /\ r.stop = q.stop
          /\ r.stopping = q.stopping /\ r.assigned = q.assigned /\ r.asked = q.asked
          /\ r.timers = q.timers
      BY <1>22 DEF Manager
    <2> HIDE DEF r
    <2>6. Good(r, 0, {})
      BY <1>21, <2>3, <2>4, <2>5, Constants
    <2> QED BY <1>20, <2>1, <2>5, <2>6 DEF Grown, Pid
  <1> QED BY <1>23, <1>24

-----------------------------------------------------------------------------
(* A process has exited.                                                   *)

\* A cluster whose process has ended on purpose is stopped.
LEMMA StopsKeeps ==
    ASSUME NEW p, NEW k, NEW c \in Clusters, Good(p, k, {c}), Untold(p, c), c \notin p.up,
           p.info[c].state \in Up \cup {"stopped"},
           p.info[c].pid = 0 \/ Gone(p, p.info[c].pid)
    PROVE  Good([p EXCEPT !.info[c].state = "stopped"], k, {})
  <1> DEFINE z == [p.info EXCEPT ![c].state = "stopped"]
             q == [p EXCEPT !.info = z]
  <1>0. /\ p \in Manager /\ p.info \in [Clusters -> Info] /\ p.up \subseteq Clusters
        /\ \A n \in Pid(p) : p.procs[n].cluster \in Clusters /\ n # 0
    BY Fields DEF Good, Process
  <1>1. [p EXCEPT !.info[c].state = "stopped"] = q
    BY <1>0 DEF Manager
  <1>2. z \in [Clusters -> Info]
    <2>1. [p.info[c] EXCEPT !.state = "stopped"] \in Info
      BY <1>0 DEF Info, States
    <2> QED BY <1>0, <2>1
  <1>3. \A d \in Clusters : /\ z[d].pid = p.info[d].pid /\ z[d].shards = p.info[d].shards
                            /\ z[d].state = IF d = c THEN "stopped" ELSE p.info[d].state
                            /\ d # c => z[d] = p.info[d]
    BY <1>0 DEF Info
  <1> HIDE DEF z
  <1>4. q \in Manager
    BY <1>0, <1>2 DEF Manager
  <1>5. /\ q.procs = p.procs /\ q.info = z /\ q.up = p.up /\ q.owner = p.owner /\ q.next = p.next
        /\ q.awaited = p.awaited /\ q.starts = p.starts /\ q.start = p.start /\ q.stop = p.stop
        /\ q.stopping = p.stopping /\ q.waiters = p.waiters /\ q.assigned = p.assigned
        /\ q.asked = p.asked /\ q.timers = p.timers
    BY <1>0 DEF Manager
  <1> HIDE DEF q
  <1>6. /\ Pid(q) = Pid(p)
        /\ \A n \in Pid(p) : Runs(q, n) <=> Runs(p, n)
        /\ \A n \in Pid(p) : Gone(q, n) <=> Gone(p, n)
    BY <1>5 DEF Pid, Runs, Gone
  <1>7. \A n \in Pid(p) : Runs(p, n) => p.procs[n].cluster # c
    BY <1>0 DEF Good, Alive, Current, Runs, Gone
  <1>8. Refs(q)
    BY <1>3, <1>5, <1>6 DEF Good, Refs
  <1>9. Alive(q, {})
    <2>1. \A d \in Clusters : q.info[d].state \in {"failed", "restarting"} =>
              q.info[d].pid = 0 \/ Gone(q, q.info[d].pid)
      BY <1>3, <1>5 DEF Good, Alive, Gone
    <2>2. \A d \in q.up : /\ q.info[d].pid # 0 /\ ~Gone(q, q.info[d].pid)
                          /\ q.info[d].state \in Up
      <3>1. \A d \in p.up : d \in Clusters \ {c}
        BY <1>0
      <3> QED BY <1>3, <1>5, <3>1 DEF Good, Alive, Gone
    <2>3. \A d \in Clusters : q.info[d].state \in Up => d \in q.up
      BY <1>3, <1>5 DEF Good, Alive, Up
    <2>4. \A n \in Pid(q) : Runs(q, n) =>
              Current(q, n) /\ Live(q.info[q.procs[n].cluster].state)
      BY <1>0, <1>3, <1>5, <1>6, <1>7 DEF Good, Alive, Current
    <2> QED BY <2>1, <2>2, <2>3, <2>4 DEF Alive
  <1>10. Phased(q)
    <2>1. Quiet(p) => Quiet(q)
      BY <1>3, <1>5, <1>6 DEF Quiet
    <2>2. (\E d \in Clusters : p.info[d].state = "failed") =>
              \E d \in Clusters : q.info[d].state = "failed"
      BY <1>3, <1>5 DEF Up
    <2>3. Phased(p)
      BY DEF Good
    <2>4. /\ q.start \in {"leading", "gateway"} => Quiet(q)
          /\ q.start = "none" /\ q.stop = "none" =>
                 Quiet(q) \/ \E d \in Clusters : q.info[d].state = "failed"
      BY <1>5, <2>1, <2>2, <2>3 DEF Phased
    <2>5. q.stop # "none" => q.start = "none" /\ q.timers = {} /\ (~q.stopping => Quiet(q))
      BY <1>5, <2>1, <2>3 DEF Phased
    <2>6. q.stop = "killing" => \A n \in Pid(q) : ~Runs(q, n)
      BY <1>5, <1>6, <2>3 DEF Phased
    <2>7. q.stop = "killing" => \A d \in q.up : q.info[d].pid \in q.awaited
      BY <1>0, <1>3, <1>5, <2>3 DEF Phased
    <2> QED BY <1>5, <2>3, <2>4, <2>5, <2>6, <2>7 DEF Phased
  <1>11. Owned(q, k)
    <2>1. \A d \in Clusters : d >= k /\ q.start = "launching" => d # c
      BY <1>5 DEF Good, Owned, Unknown, Up
    <2> QED BY <1>3, <1>5, <2>1 DEF Good, Owned
  <1>12. Held(q) /\ Apart(q)
    <2>1. \A f \in Clusters : p.info[f].state = "failed" => q.info[f] = p.info[f]
      BY <1>3, <1>5 DEF Up
    <2>2. \A n \in Pid(p) : q.info[p.procs[n].cluster].shards = p.info[p.procs[n].cluster].shards
      BY <1>0, <1>3, <1>5
    <2>3. Held(q)
      BY <1>5, <1>6, <2>1, <2>2 DEF Good, Held
    <2>4. Apart(q)
      BY <1>5, <1>6 DEF Good, Apart
    <2> QED BY <2>3, <2>4
  <1>13. Asked(q, {})
    <2>1. ASSUME NEW n, CanAnswer(p, n, {c}), p.procs[n].cluster # c PROVE CanAnswer(q, n, {})
      BY <1>0, <1>3, <1>5, <1>6, <2>1 DEF CanAnswer, Current
    <2>2. \A f \in Clusters : p.info[f].state = "failed" => q.info[f].state = "failed"
      BY <1>3, <1>5 DEF Up
    <2> QED BY <1>5, <2>1, <2>2 DEF Good, Asked, Untold
  <1> QED BY <1>1, <1>4, <1>5, <1>8, <1>9, <1>10, <1>11, <1>12, <1>13 DEF Good

\* What failOwner does: requests are settled, and whoever waits may be told.
Reported(p, c) == {f \in AwaitAssign(p, c) : p.info[f].shards # {}}
Settled(p, c) ==
    [p EXCEPT !.asked = [a \in Asks |-> p.asked[a] \ PidsOf(p, c)],
              !.assigned = [f \in Clusters |-> IF f \in AwaitAssign(p, c) THEN 0
                                              ELSE p.assigned[f]]]

LEMMA FailOwnerIs ==
    ASSUME NEW p \in Manager, NEW c \in Clusters
    PROVE  FailOwner(p, c) =
               IF Reported(p, c) = {} THEN Settled(p, c)
               ELSE RejectReady(Settled(p, c), CHOOSE f \in Reported(p, c) : TRUE)
  <1> DEFINE z == [a \in Asks |-> p.asked[a] \ PidsOf(p, c)]
             h == [p EXCEPT !.asked = z]
             F == AwaitAssign(p, c)
             w == [f \in Clusters |-> IF f \in F THEN 0 ELSE h.assigned[f]]
             R == {f \in F : h.info[f].shards # {}}
  <1>1. FailOwner(p, c) = AssignFails(h, F)
    BY DEF FailOwner, Manager
  <1>2. h \in Manager
    <2>1. z \in [Asks -> SUBSET Pids]
      BY Fields
    <2> HIDE DEF z
    <2> QED BY <2>1 DEF Manager
  <1>3. h.info = p.info /\ h.assigned = p.assigned
    BY DEF Manager
  <1>4. [h EXCEPT !.assigned = w] = Settled(p, c)
    <2>1. w = [f \in Clusters |-> IF f \in F THEN 0 ELSE p.assigned[f]]
      BY <1>3
    <2> QED BY <2>1 DEF Settled, Manager
  <1>5. R = Reported(p, c)
    BY <1>3 DEF Reported
  <1> HIDE DEF F, h
  <1>6. AssignFails(h, F) = IF R = {} THEN [h EXCEPT !.assigned = w]
                            ELSE RejectReady([h EXCEPT !.assigned = w], CHOOSE f \in R : TRUE)
    BY <1>2 DEF AssignFails, Manager
  <1> HIDE DEF R
  <1> QED BY <1>1, <1>4, <1>5, <1>6

\* It leaves the list of clusters alone, and does not depend on it.
Parted(p, U) == [p EXCEPT !.up = U, !.allReady = FALSE]

LEMMA FailOwnerCommutes ==
    ASSUME NEW p \in Manager, NEW c \in Clusters, NEW U \in SUBSET Clusters
    PROVE  /\ FailOwner(p, c).up = p.up
           /\ Parted(FailOwner(p, c), U) = FailOwner(Parted(p, U), c)
  <1> DEFINE h == Parted(p, U)
             a == Settled(p, c)
             b == Settled(h, c)
             R == Reported(p, c)
             f == CHOOSE g \in R : TRUE
             With(q) == Parted(q, U)
  <1>1. /\ h.procs = p.procs /\ h.info = p.info /\ h.asked = p.asked /\ h.assigned = p.assigned
        /\ h \in Manager
    BY DEF Manager, Parted
  <1>2. AwaitAssign(h, c) = AwaitAssign(p, c) /\ PidsOf(h, c) = PidsOf(p, c) /\ Reported(h, c) = R
    BY <1>1 DEF AwaitAssign, PidsOf, Reported
  <1>3. a \in Manager
    <2> DEFINE z == [x \in Asks |-> p.asked[x] \ PidsOf(p, c)]
               w == [g \in Clusters |-> IF g \in AwaitAssign(p, c) THEN 0 ELSE p.assigned[g]]
    <2>1. z \in [Asks -> SUBSET Pids] /\ w \in [Clusters -> 0..MaxProcs]
      BY Fields, Constants
    <2> HIDE DEF z, w
    <2>2. [p EXCEPT !.asked = z, !.assigned = w] \in Manager
      BY <2>1 DEF Manager, Parted
    <2> QED BY <2>2 DEF Settled, z, w
  <1>4. b = With(a)
    <2> DEFINE z == [x \in Asks |-> p.asked[x] \ PidsOf(p, c)]
               w == [g \in Clusters |-> IF g \in AwaitAssign(p, c) THEN 0 ELSE p.assigned[g]]
    <2>1. b = [h EXCEPT !.asked = z, !.assigned = w]
      <3> HIDE DEF h
      <3> QED BY <1>1, <1>2 DEF Settled
    <2>2. a = [p EXCEPT !.asked = z, !.assigned = w]
      BY DEF Settled
    <2> HIDE DEF z, w, a, b
    <2> QED BY <2>1, <2>2 DEF Manager, Parted
  <1>5. a.info = p.info /\ a.waiters = p.waiters /\ a.up = p.up
    BY DEF Settled, Manager
  <1> HIDE DEF a, b, h, R, f
  <1>6. With(a).info = a.info /\ With(a).waiters = a.waiters
    BY <1>3 DEF Manager, Parted
  <1>7. With(RejectReady(a, f)) = RejectReady(With(a), f) /\ RejectReady(a, f).up = a.up
    <2>1. CASE p.info[f].shards = {}
      BY <1>5, <1>6, <2>1 DEF RejectReady
    <2>2. CASE p.info[f].shards # {}
      <3> DEFINE x == IF "spawn" \in a.waiters THEN "none" ELSE a.start
                 y == With(a)
      <3>1. RejectReady(a, f) = [a EXCEPT !.waiters = {}, !.start = x]
        BY <1>3, <1>5, <2>2 DEF RejectReady, Manager
      <3>2. y.start = a.start /\ y.info = a.info /\ y.waiters = a.waiters
        BY <1>3 DEF Manager, Parted
      <3>3. y \in Manager
        BY <1>3 DEF Manager, Parted
      <3>4. RejectReady(y, f) = [y EXCEPT !.waiters = {}, !.start = x]
        <4> HIDE DEF y
        <4> QED BY <1>5, <2>2, <3>2, <3>3 DEF RejectReady, Manager
      <3> HIDE DEF x
      <3>5. RejectReady(a, f).up = a.up
        BY <1>3, <3>1 DEF Manager
      <3>6. Parted([a EXCEPT !.waiters = {}, !.start = x], U)
              = [Parted(a, U) EXCEPT !.waiters = {}, !.start = x]
        BY <1>3 DEF Manager, Parted
      <3> QED BY <3>1, <3>4, <3>5, <3>6
    <2> QED BY <2>1, <2>2
  <1>8. FailOwner(p, c) = IF R = {} THEN a ELSE RejectReady(a, f)
    BY FailOwnerIs DEF a, R, f
  <1>9. FailOwner(h, c) = IF R = {} THEN b ELSE RejectReady(b, f)
    BY <1>1, <1>2, FailOwnerIs DEF b, f
  <1> QED BY <1>4, <1>5, <1>7, <1>8, <1>9 DEF h

LEMMA OnExitKeeps ==
    ASSUME NEW p, NEW k, Good(p, k, {}), NEW n \in Pid(p), p.procs[n].state = "dead"
    PROVE  LET q == OnExit(p, n) IN
           /\ Good(q, k, {}) /\ q.next = p.next /\ q.starts = p.starts
           /\ Len(q.procs) = Len(p.procs) /\ Pid(q) = Pid(p)
           /\ \A i \in Pid(p) : i # n => q.procs[i] = p.procs[i]
  <1> DEFINE c == p.procs[n].cluster
             x == [p.procs[n] EXCEPT !.state = "gone"]
             g == [p EXCEPT !.procs[n] = x]
             h == [p EXCEPT !.procs[n].state = "gone", !.awaited = @ \ {n}]
             U == p.up \ {c}
             b == Parted(h, U)
             r == [FailOwner(h, c) EXCEPT !.up = @ \ {c}, !.allReady = FALSE]
  <1>0. /\ p \in Manager /\ p.info \in [Clusters -> Info] /\ p.up \subseteq Clusters
        /\ p.procs[n] \in Process /\ c \in Clusters /\ p.awaited \subseteq Pids
        /\ \A i \in Pid(p) : p.procs[i].cluster \in Clusters /\ i # 0
    BY Fields DEF Good, Process
  <1>1. /\ x \in Process /\ x.cluster = c /\ x.shards = p.procs[n].shards /\ x.state = "gone"
    BY <1>0 DEF Process
  <1> HIDE DEF x
  <1>2. /\ g \in Manager
        /\ g.info = p.info /\ g.up = p.up /\ g.owner = p.owner /\ g.timers = p.timers
        /\ g.next = p.next /\ g.awaited = p.awaited /\ g.starts = p.starts
        /\ g.start = p.start /\ g.stop = p.stop /\ g.stopping = p.stopping
        /\ g.waiters = p.waiters /\ g.assigned = p.assigned /\ g.asked = p.asked
        /\ Len(g.procs) = Len(p.procs) /\ Pid(g) = Pid(p)
        /\ \A i \in Pid(p) : g.procs[i] = IF i = n THEN x ELSE p.procs[i]
    BY <1>0, <1>1, Alter
  <1>3. h = [g EXCEPT !.awaited = p.awaited \ {n}]
    BY <1>0 DEF Manager, x
  <1> HIDE DEF g, h
  <1>4. h \in Manager
    BY <1>0, <1>2, <1>3 DEF Manager
  <1>5. /\ h.info = p.info /\ h.up = p.up /\ h.owner = p.owner /\ h.timers = p.timers
        /\ h.next = p.next /\ h.awaited = p.awaited \ {n} /\ h.starts = p.starts
        /\ h.start = p.start /\ h.stop = p.stop /\ h.stopping = p.stopping
        /\ h.waiters = p.waiters /\ h.assigned = p.assigned /\ h.asked = p.asked
        /\ h.procs = g.procs
    BY <1>2, <1>3 DEF Manager
  <1>6. /\ Len(h.procs) = Len(p.procs) /\ Pid(h) = Pid(p)
        /\ \A i \in Pid(p) : i # n => h.procs[i] = p.procs[i]
        /\ h.procs[n] = x
    BY <1>2, <1>5 DEF Pid
  <1>7. /\ \A i \in Pid(p) : h.procs[i].cluster = p.procs[i].cluster
        /\ \A i \in Pid(p) : h.procs[i].shards = p.procs[i].shards
        /\ \A i \in Pid(p) : Gone(h, i) <=> Gone(p, i) \/ i = n
        /\ \A i \in Pid(p) : Runs(h, i) => Runs(p, i)
    BY <1>1, <1>6 DEF Gone, Runs
  <1>8. \A d \in Clusters : p.info[d].pid # 0 => p.info[d].pid \in Pid(p)
    BY DEF Good, Refs
  <1>9. \A d \in Clusters : p.info[d].pid = n => d = c
    BY <1>0 DEF Good, Refs
  <1>10. ASSUME NEW q \in Manager, NEW S, q.procs = h.procs, q.info = h.info,
                q.owner = h.owner, q.timers = h.timers, q.next = h.next,
                q.awaited = h.awaited, q.starts = h.starts, q.start = h.start,
                q.stop = h.stop, q.stopping = h.stopping, q.waiters = h.waiters,
                q.assigned = h.assigned, q.asked = h.asked,
                \/ q.up = p.up /\ S = {} /\ ~Current(p, n)
                \/ q.up = p.up \ {c} /\ S = {c} /\ Current(p, n)
         PROVE  Good(q, k, S)
    <2>1. Pid(q) = Pid(p) /\ Len(q.procs) <= MaxProcs
      BY <1>6, <1>10 DEF Good, Pid
    <2>2. /\ \A i \in Pid(p) : Gone(q, i) <=> Gone(p, i) \/ i = n
          /\ \A i \in Pid(p) : Runs(q, i) => Runs(p, i)
      BY <1>7, <1>10 DEF Gone, Runs
    <2>3. \A d \in p.up : d \in Clusters /\ (d \in q.up => p.info[d].pid # n)
      BY <1>0, <1>9, <1>10 DEF Current
    <2>4. q.up \subseteq p.up
      BY <1>10
    <2>5. Refs(q)
      BY <1>5, <1>7, <1>10, <2>1 DEF Good, Refs
    <2>6. Alive(q, S)
      <3>1. \A d \in Clusters : q.info[d].state \in {"failed", "restarting"} =>
                q.info[d].pid = 0 \/ Gone(q, q.info[d].pid)
        BY <1>5, <1>8, <1>10, <2>2 DEF Good, Alive
      <3>2. \A d \in q.up : /\ q.info[d].pid # 0 /\ ~Gone(q, q.info[d].pid)
                            /\ q.info[d].state \in Up
        BY <1>5, <1>8, <1>10, <2>2, <2>3, <2>4 DEF Good, Alive
      <3>3. \A d \in Clusters : q.info[d].state \in Up =>
             \/ d \in q.up
             \/ d \in S /\ (q.info[d].pid = 0 \/ Gone(q, q.info[d].pid))
        <4>1. \A d \in Clusters : p.info[d].state \in Up => d \in p.up
          BY DEF Good, Alive
        <4>2. Current(p, n) => Gone(q, p.info[c].pid)
          BY <2>2 DEF Current
        <4> QED BY <1>5, <1>10, <4>1, <4>2
      <3>4. \A i \in Pid(q) : Runs(q, i) =>
                Current(q, i) /\ Live(q.info[q.procs[i].cluster].state)
        BY <1>5, <1>7, <1>10, <2>1, <2>2 DEF Good, Alive, Current
      <3> QED BY <3>1, <3>2, <3>3, <3>4 DEF Alive
    <2>7. Phased(q)
      <3>1. Quiet(p) => Quiet(q)
        BY <1>5, <1>10, <2>1, <2>2, <2>4 DEF Quiet
      <3>2. p.stop = "killing" => \A d \in q.up : q.info[d].pid \in q.awaited
        BY <1>5, <1>10, <2>3, <2>4 DEF Good, Phased
      <3>3. p.stop = "killing" => \A i \in Pid(q) : ~Runs(q, i)
        BY <2>1, <2>2 DEF Good, Phased
      <3>4. Phased(p)
        BY DEF Good
      <3> QED BY <1>5, <1>10, <3>1, <3>2, <3>3, <3>4 DEF Phased
    <2>8. Owned(q, k)
      BY <1>5, <1>10 DEF Good, Owned
    <2>9. Held(q) /\ Apart(q)
      <3>1. Held(q)
        BY <1>5, <1>7, <1>10, <2>1, <2>2 DEF Good, Held
      <3>2. Apart(q)
        BY <1>5, <1>7, <1>10, <2>1, <2>2 DEF Good, Apart
      <3> QED BY <3>1, <3>2
    <2>10. Asked(q, S)
      <3>1. \A i : CanAnswer(p, i, {}) => CanAnswer(q, i, S)
        BY <1>5, <1>7, <1>10, <2>1, <2>2 DEF CanAnswer, Current
      <3> QED BY <1>5, <1>10, <3>1 DEF Good, Asked
    <2> QED BY <1>10, <2>1, <2>5, <2>6, <2>7, <2>8, <2>9, <2>10 DEF Good
  <1>11. CASE ~Current(p, n)
    <2>1. OnExit(p, n) = h
      BY <1>11 DEF OnExit, h
    <2>2. Good(h, k, {})
      BY <1>4, <1>5, <1>10, <1>11
    <2> QED BY <1>5, <1>6, <2>1, <2>2
  <1>12. CASE Current(p, n)
    <2>1. OnExit(p, n) = IF Expected(p, c) THEN [r EXCEPT !.info[c].state = "stopped"]
                         ELSE Recover(r, c)
      BY <1>12 DEF OnExit, h
    <2>2. b \in Manager
      <3>1. U \in SUBSET Clusters
        BY <1>0
      <3> HIDE DEF U
      <3> QED BY <1>4, <3>1 DEF Manager, Parted
    <2>3. /\ b.procs = h.procs /\ b.info = h.info /\ b.up = U
          /\ b.owner = h.owner /\ b.timers = h.timers /\ b.next = h.next
          /\ b.awaited = h.awaited /\ b.starts = h.starts /\ b.start = h.start
          /\ b.stop = h.stop /\ b.stopping = h.stopping /\ b.waiters = h.waiters
          /\ b.assigned = h.assigned /\ b.asked = h.asked
      BY <1>4 DEF Manager, Parted
    <2>4. Good(b, k, {c})
      BY <1>10, <1>12, <2>2, <2>3
    <2>5. r = FailOwner(b, c)
      <3>1. U \in SUBSET Clusters
        BY <1>0
      <3> HIDE DEF U
      <3>2. FailOwner(h, c).up = p.up
        BY <1>0, <1>4, <1>5, <3>1, FailOwnerCommutes
      <3>3. Parted(FailOwner(h, c), U) = FailOwner(b, c)
        BY <1>0, <1>4, <3>1, FailOwnerCommutes
      <3> QED BY <3>2, <3>3 DEF U, Parted
    <2>6. /\ Good(r, k, {c}) /\ Same(b, r) /\ r.stop = b.stop /\ r.next = b.next
          /\ r.starts = b.starts /\ r.stopping = b.stopping
          /\ \A a \in Asks : r.asked[a] \cap PidsOf(b, c) = {}
          /\ \A f \in Clusters : r.assigned[f] \notin PidsOf(b, c)
      <3> HIDE DEF b, r
      <3> QED BY <1>0, <2>4, <2>5, FailOwnerKeeps
    <2> HIDE DEF b, r
    <2>7. /\ r.procs = h.procs /\ r.info = p.info /\ r.up = U /\ r.stop = p.stop
          /\ r.next = p.next /\ r.starts = p.starts /\ r.stopping = p.stopping
      BY <1>5, <2>3, <2>6 DEF Same
    <2>8. Untold(r, c)
      <3>1. \A i \in PidsOf(b, c) : i \in DOMAIN b.procs
        BY DEF PidsOf
      <3>2. \A i \in Pid(r) : r.procs[i].cluster = c => i \in PidsOf(b, c)
        BY <2>3, <2>7 DEF PidsOf, Pid
      <3>3. \A a \in Asks : \A i \in r.asked[a] : i \in Pid(r)
        BY <2>6 DEF Good, Asked, CanAnswer
      <3>4. \A f \in Clusters : r.assigned[f] # 0 => r.assigned[f] \in Pid(r)
        BY <2>6 DEF Good, Asked, CanAnswer
      <3> QED BY <2>6, <3>2, <3>3, <3>4 DEF Untold
    <2>9. r.info[c].pid = n /\ Gone(r, n) /\ c \notin r.up
      BY <1>1, <1>6, <1>12, <2>7 DEF Current, Gone
    <2>10. p.info[c].state \in Up \cup {"stopped"}
      <3>1. p.info[c].state # "unknown"
        BY <1>0, <1>12 DEF Good, Refs, Current, Unknown
      <3>2. p.info[c].state \notin {"failed", "restarting"}
        BY <1>0, <1>12 DEF Good, Alive, Current, Gone
      <3>3. p.info[c].state \in States
        BY <1>0 DEF Info
      <3> QED BY <3>1, <3>2, <3>3 DEF States, Up
    <2>11. CASE Expected(p, c)
      <3> DEFINE q == [r EXCEPT !.info[c].state = "stopped"]
      <3>1. Good(q, k, {})
        BY <1>0, <2>6, <2>7, <2>8, <2>9, <2>10, StopsKeeps
      <3>2. q.next = r.next /\ q.starts = r.starts /\ q.procs = r.procs
        BY <2>6 DEF Good, Manager
      <3> HIDE DEF q
      <3>3. OnExit(p, n) = q
        BY <2>1, <2>11 DEF q
      <3> QED BY <1>6, <2>7, <3>1, <3>2, <3>3 DEF Pid
    <2>12. CASE ~Expected(p, c)
      <3>1. p.info[c].state \in {"starting", "ready", "restarting"} /\ ~p.stopping
        BY <2>10, <2>12 DEF Expected, Up
      <3>2. r.stop = "none"
        BY <1>0, <2>7, <3>1 DEF Good, Phased, Quiet
      <3>3. r.start = "launching" => ~(c >= k)
        BY <1>0, <2>6, <2>7, <3>1 DEF Good, Owned, Unknown
      <3>4. Fallen(r, k, c)
        BY <2>6, <2>7, <2>8, <2>9, <3>1, <3>2, <3>3 DEF Fallen
      <3> DEFINE q == Recover(r, c)
      <3>5. Good(q, k, {}) /\ q.procs = r.procs /\ q.next = r.next /\ q.starts = r.starts
        BY <1>0, <3>4, RecoverKeeps
      <3> HIDE DEF q
      <3>6. OnExit(p, n) = q
        BY <2>1, <2>12 DEF q
      <3> QED BY <1>6, <2>7, <3>5, <3>6 DEF Pid
    <2> QED BY <2>11, <2>12
  <1> QED BY <1>11, <1>12

-----------------------------------------------------------------------------
(* Answers of processes.                                                   *)

LEMMA OnReadyKeeps ==
    ASSUME NEW p, NEW k, Good(p, k, {}), NEW n \in Pid(p), NEW shards, ~Gone(p, n),
           Current(p, n) => p.info[p.procs[n].cluster].state # "stopped"
    PROVE  LET q == OnReady(p, n, shards) IN
           Good(q, k, {}) /\ q.procs = p.procs /\ q.next = p.next /\ q.starts = p.starts
  <1> DEFINE c == p.procs[n].cluster
             z == [p.info EXCEPT ![c].state = "ready"]
             q == [p EXCEPT !.info = z]
  <1>0. /\ p \in Manager /\ p.info \in [Clusters -> Info] /\ c \in Clusters
        /\ \A i \in Pid(p) : p.procs[i].cluster \in Clusters /\ i # 0
    BY Fields DEF Good, Process
  <1>1. CASE ~Current(p, n) \/ ~(shards \subseteq p.info[c].shards)
    BY <1>1 DEF OnReady
  <1>2. CASE ~(~Current(p, n) \/ ~(shards \subseteq p.info[c].shards))
    <2>1. OnReady(p, n, shards) = CheckReady(q)
      <3>1. [p EXCEPT !.info[c].state = "ready"] = q
        BY <1>0 DEF Manager
      <3> HIDE DEF q
      <3> QED BY <1>2, <3>1 DEF OnReady
    <2>2. p.info[c].state \in Up
      <3>1. p.info[c].state # "unknown"
        BY <1>0, <1>2 DEF Good, Refs, Current, Unknown
      <3>2. p.info[c].state \notin {"failed", "restarting"}
        BY <1>0, <1>2 DEF Good, Alive, Current
      <3>3. p.info[c].state \in States
        BY <1>0 DEF Info
      <3> QED BY <1>2, <3>1, <3>2, <3>3 DEF States, Up
    <2>3. z \in [Clusters -> Info]
      <3>1. [p.info[c] EXCEPT !.state = "ready"] \in Info
        BY <1>0 DEF Info, States
      <3> QED BY <1>0, <3>1
    <2>4. \A d \in Clusters : /\ z[d].pid = p.info[d].pid /\ z[d].shards = p.info[d].shards
                              /\ z[d].state = IF d = c THEN "ready" ELSE p.info[d].state
                              /\ d # c => z[d] = p.info[d]
      BY <1>0 DEF Info
    <2> HIDE DEF z
    <2>5. q \in Manager
      BY <1>0, <2>3 DEF Manager
    <2>6. /\ q.procs = p.procs /\ q.info = z /\ q.up = p.up /\ q.owner = p.owner
          /\ q.next = p.next /\ q.awaited = p.awaited /\ q.starts = p.starts
          /\ q.start = p.start /\ q.stop = p.stop /\ q.stopping = p.stopping
          /\ q.waiters = p.waiters /\ q.assigned = p.assigned /\ q.asked = p.asked
          /\ q.timers = p.timers
      BY <1>0 DEF Manager
    <2> HIDE DEF q
    <2>7. /\ Pid(q) = Pid(p)
          /\ \A i \in Pid(p) : Runs(q, i) <=> Runs(p, i)
          /\ \A i \in Pid(p) : Gone(q, i) <=> Gone(p, i)
      BY <2>6 DEF Pid, Runs, Gone
    <2>8. Refs(q)
      BY <2>4, <2>6, <2>7 DEF Good, Refs
    <2>9. Alive(q, {})
      <3>1. \A d \in Clusters : q.info[d].state \in {"failed", "restarting"} =>
                q.info[d].pid = 0 \/ Gone(q, q.info[d].pid)
        BY <2>4, <2>6 DEF Good, Alive, Gone
      <3>2. \A d \in q.up : /\ q.info[d].pid # 0 /\ ~Gone(q, q.info[d].pid)
                            /\ q.info[d].state \in Up
        <4>1. p.up \subseteq Clusters
          BY <1>0, Fields
        <4> QED BY <2>4, <2>6, <4>1 DEF Good, Alive, Gone, Up
      <3>3. \A d \in Clusters : q.info[d].state \in Up => d \in q.up
        BY <2>2, <2>4, <2>6 DEF Good, Alive
      <3>4. \A i \in Pid(q) : Runs(q, i) =>
                Current(q, i) /\ Live(q.info[q.procs[i].cluster].state)
        BY <1>0, <2>4, <2>6, <2>7 DEF Good, Alive, Current, Live
      <3> QED BY <3>1, <3>2, <3>3, <3>4 DEF Alive
    <2>10. Phased(q)
      <3>1. ~Quiet(p)
        BY <1>0, <2>2 DEF Quiet, Up
      <3>2. (\E d \in Clusters : p.info[d].state = "failed") =>
                \E d \in Clusters : q.info[d].state = "failed"
        BY <2>2, <2>4, <2>6 DEF Up
      <3>3. Phased(p)
        BY DEF Good
      <3>4. q.start \notin {"leading", "gateway"} /\ (q.stop # "none" => q.stopping)
        BY <2>6, <3>1, <3>3 DEF Phased
      <3>5. q.stop = "killing" => /\ \A i \in Pid(q) : ~Runs(q, i)
                                  /\ \A d \in q.up : q.info[d].pid \in q.awaited
        <4>1. p.up \subseteq Clusters
          BY <1>0, Fields
        <4> QED BY <2>4, <2>6, <2>7, <3>3, <4>1 DEF Phased
      <3> QED BY <2>6, <3>1, <3>2, <3>3, <3>4, <3>5 DEF Phased
    <2>11. Owned(q, k)
      <3>1. \A d \in Clusters : d >= k /\ q.start = "launching" => d # c
        BY <2>2, <2>6 DEF Good, Owned, Unknown, Up
      <3> QED BY <2>4, <2>6, <3>1 DEF Good, Owned
    <2>12. Held(q) /\ Apart(q)
      <3>1. \A f \in Clusters : p.info[f].state = "failed" => q.info[f] = p.info[f]
        BY <2>2, <2>4, <2>6 DEF Up
      <3>2. \A i \in Pid(p) : q.info[p.procs[i].cluster].shards = p.info[p.procs[i].cluster].shards
        BY <1>0, <2>4, <2>6
      <3>3. Held(q)
        BY <2>6, <2>7, <3>1, <3>2 DEF Good, Held
      <3>4. Apart(q)
        BY <2>6, <2>7 DEF Good, Apart
      <3> QED BY <3>3, <3>4
    <2>13. Asked(q, {})
      <3>1. ASSUME NEW i, CanAnswer(p, i, {}) PROVE CanAnswer(q, i, {})
        BY <1>0, <2>4, <2>6, <2>7, <3>1 DEF CanAnswer, Current, Up
      <3>2. \A f \in Clusters : p.info[f].state = "failed" => q.info[f].state = "failed"
        BY <2>2, <2>4, <2>6 DEF Up
      <3> QED BY <2>6, <3>1, <3>2 DEF Good, Asked
    <2>14. Good(q, k, {})
      BY <2>5, <2>6, <2>8, <2>9, <2>10, <2>11, <2>12, <2>13 DEF Good
    <2>15. LET r == CheckReady(q) IN
           /\ Good(r, k, {}) /\ Same(q, r) /\ r.next = q.next /\ r.starts = q.starts
      BY <2>14, CheckReadyKeeps
    <2> QED BY <2>1, <2>6, <2>15 DEF Same
  <1> QED BY <1>1, <1>2

\* The shards of c are those of the cluster that was asked to take them.
Moved(p, c, q) ==
    LET n == p.assigned[c]
        t == p.procs[n].cluster
        mine == p.info[c].shards IN
        /\ q \in Manager
        /\ n \in Pid(p) /\ Current(p, n) /\ p.info[t].state \in Up /\ ~Gone(p, n)
        /\ t \in Clusters /\ t # c
        /\ q.procs = p.procs /\ q.up = p.up
        /\ q.next = p.next /\ q.awaited = p.awaited /\ q.starts = p.starts
        /\ q.start = p.start /\ q.stop = p.stop /\ q.stopping = p.stopping
        /\ q.waiters = p.waiters /\ q.asked = p.asked /\ q.timers = p.timers
        /\ q.leading = p.leading /\ q.queued = p.queued /\ q.resigns = p.resigns
        /\ q.allReady = p.allReady
        /\ \A d \in Clusters : q.assigned[d] = IF d = c THEN 0 ELSE p.assigned[d]
        /\ \A s \in Shards : q.owner[s] = IF s \in mine THEN t ELSE p.owner[s]
        /\ \A d \in Clusters :
               /\ q.info[d].pid = p.info[d].pid /\ q.info[d].state = p.info[d].state
               /\ q.info[d].shards = IF d = c THEN {}
                                     ELSE IF d = t THEN p.info[t].shards \cup mine
                                     ELSE p.info[d].shards
               /\ d # c /\ d # t => q.info[d] = p.info[d]

\* The shards of a cluster that failed are moved to the one that runs them now.
LEMMA MoveShardsIs ==
    ASSUME NEW p, NEW k, Good(p, k, {}), NEW c \in Clusters, p.assigned[c] # 0,
           p.info[c].state = "failed"
    PROVE  Moved(p, c, MoveShards(p, c, p.procs[p.assigned[c]].cluster))
  <1> DEFINE n == p.assigned[c]
             t == p.procs[n].cluster
             mine == p.info[c].shards
             y == [p.assigned EXCEPT ![c] = 0]
             z == [[p.info EXCEPT ![t].shards = @ \cup mine] EXCEPT ![c].shards = {}]
             w == [s \in Shards |-> IF s \in mine THEN t ELSE p.owner[s]]
             q == [p EXCEPT !.assigned = y, !.info = z, !.owner = w]
  <1>0. /\ p \in Manager /\ p.info \in [Clusters -> Info] /\ p.up \subseteq Clusters
        /\ p.assigned \in [Clusters -> 0..MaxProcs]
        /\ p.owner \in [Shards -> Clusters \cup {NoCluster}]
        /\ \A i \in Pid(p) : p.procs[i].cluster \in Clusters /\ i # 0
        /\ \A i \in Pid(p) : p.procs[i].shards \subseteq Shards
    <2>1. p \in Manager
      BY DEF Good
    <2> QED BY <2>1, Fields DEF Process
  <1>1. /\ n \in Pid(p) /\ Current(p, n) /\ p.info[t].state \in Up /\ ~Gone(p, n)
        /\ t \in Clusters /\ t # c
    <2>1. CanAnswer(p, n, {})
      BY Zenon DEF Good, Asked
    <2> QED BY <1>0, <2>1 DEF CanAnswer, Up
  <1>2. MoveShards(p, c, t) = q
    <2>1. [[p EXCEPT !.assigned = y, !.info = [p.info EXCEPT ![t].shards = @ \cup mine]]
              EXCEPT !.info[c].shards = {}, !.owner = w] = q
      <3> HIDE DEF y, w
      <3> QED BY Zenon, <1>0 DEF Manager
    <2>2. [p.info EXCEPT ![t].shards = @ \cup mine][c].shards = mine
      BY Zenon, <1>0, <1>1
    <2> QED BY Zenon, <1>0, <2>1, <2>2 DEF MoveShards, Manager
  <1>3. /\ y \in [Clusters -> 0..MaxProcs] /\ z \in [Clusters -> Info]
        /\ w \in [Shards -> Clusters \cup {NoCluster}]
    <2>1. y \in [Clusters -> 0..MaxProcs]
      BY <1>0, Constants
    <2>2. z \in [Clusters -> Info]
      <3>1. \A d \in Clusters : p.info[d] \in Info /\ p.info[d].shards \subseteq Shards
        BY <1>0 DEF Info
      <3>2. [p.info[t] EXCEPT !.shards = @ \cup mine] \in Info
        BY <1>1, <3>1 DEF Info
      <3>3. [p.info[c] EXCEPT !.shards = {}] \in Info
        BY Zenon, <3>1 DEF Info
      <3>4. z = [[p.info EXCEPT ![t] = [p.info[t] EXCEPT !.shards = @ \cup mine]]
                    EXCEPT ![c] = [p.info[c] EXCEPT !.shards = {}]]
        BY <1>0, <1>1
      <3> HIDE DEF z, t, mine
      <3> QED BY Zenon, <1>0, <1>1, <3>2, <3>3, <3>4
    <2>3. w \in [Shards -> Clusters \cup {NoCluster}]
      BY <1>0, <1>1
    <2> QED BY <2>1, <2>2, <2>3
  <1>4. /\ \A d \in Clusters : y[d] = IF d = c THEN 0 ELSE p.assigned[d]
        /\ \A s \in Shards : w[s] = IF s \in mine THEN t ELSE p.owner[s]
    BY Zenon, <1>0
  <1>5. \A d \in Clusters :
            /\ z[d].pid = p.info[d].pid /\ z[d].state = p.info[d].state
            /\ z[d].shards = IF d = c THEN {} ELSE IF d = t THEN p.info[t].shards \cup mine
                             ELSE p.info[d].shards
            /\ d # c /\ d # t => z[d] = p.info[d]
    BY Zenon, <1>0, <1>1 DEF Info
  <1> HIDE DEF y, z, w
  <1>6. q \in Manager
    BY <1>0, <1>3 DEF Manager
  <1>7. /\ q.procs = p.procs /\ q.info = z /\ q.up = p.up /\ q.owner = w
        /\ q.next = p.next /\ q.awaited = p.awaited /\ q.starts = p.starts
        /\ q.start = p.start /\ q.stop = p.stop /\ q.stopping = p.stopping
        /\ q.waiters = p.waiters /\ q.assigned = y /\ q.asked = p.asked
        /\ q.timers = p.timers /\ q.leading = p.leading /\ q.queued = p.queued
        /\ q.resigns = p.resigns /\ q.allReady = p.allReady
    BY <1>0 DEF Manager
  <1> HIDE DEF q
  <1>8. Moved(p, c, q)
    BY Zenon, <1>1, <1>4, <1>5, <1>6, <1>7 DEF Moved
  <1> QED BY <1>2, <1>8

LEMMA MoveShardsKeeps ==
    ASSUME NEW p, NEW k, Good(p, k, {}), NEW c \in Clusters, p.assigned[c] # 0,
           p.info[c].state = "failed"
    PROVE  LET q == MoveShards(p, c, p.procs[p.assigned[c]].cluster) IN
           Good(q, k, {}) /\ q.procs = p.procs /\ q.next = p.next /\ q.starts = p.starts
  <1> DEFINE n == p.assigned[c]
             t == p.procs[n].cluster
             mine == p.info[c].shards
             q == MoveShards(p, c, t)
             y == q.assigned  z == q.info  w == q.owner
  <1>0. /\ p \in Manager /\ p.up \subseteq Clusters
        /\ \A i \in Pid(p) : p.procs[i].cluster \in Clusters /\ i # 0
    <2>1. p \in Manager
      BY DEF Good
    <2> QED BY <2>1, Fields DEF Process
  <1>2. Moved(p, c, q)
    BY MoveShardsIs
  <1>17. n = p.assigned[c] /\ t = p.procs[n].cluster /\ mine = p.info[c].shards
    BY Zenon
  <1> HIDE DEF q
  <1>1. /\ n \in Pid(p) /\ Current(p, n) /\ p.info[t].state \in Up /\ ~Gone(p, n)
        /\ t \in Clusters /\ t # c
    BY Zenon, <1>2 DEF Moved
  <1>4. /\ \A d \in Clusters : y[d] = IF d = c THEN 0 ELSE p.assigned[d]
        /\ \A s \in Shards : w[s] = IF s \in mine THEN t ELSE p.owner[s]
    BY Zenon, <1>2 DEF Moved
  <1>5. \A d \in Clusters :
            /\ z[d].pid = p.info[d].pid /\ z[d].state = p.info[d].state
            /\ z[d].shards = IF d = c THEN {} ELSE IF d = t THEN p.info[t].shards \cup mine
                             ELSE p.info[d].shards
            /\ d # c /\ d # t => z[d] = p.info[d]
    BY Zenon, <1>2 DEF Moved
  <1>7. /\ q \in Manager /\ q.procs = p.procs /\ q.info = z /\ q.up = p.up /\ q.owner = w
        /\ q.next = p.next /\ q.awaited = p.awaited /\ q.starts = p.starts
        /\ q.start = p.start /\ q.stop = p.stop /\ q.stopping = p.stopping
        /\ q.waiters = p.waiters /\ q.assigned = y /\ q.asked = p.asked
        /\ q.timers = p.timers
    BY <1>2 DEF Moved
  <1> HIDE DEF y, z, w, n, t, mine
  <1>8. /\ Pid(q) = Pid(p)
        /\ \A i \in Pid(p) : Runs(q, i) <=> Runs(p, i)
        /\ \A i \in Pid(p) : Gone(q, i) <=> Gone(p, i)
    BY <1>7 DEF Pid, Runs, Gone
  <1>9. p.info[c].state # "unknown" /\ p.info[t].state # "unknown" /\ p.info[t].state # "failed"
    BY <1>1 DEF Up
  <1>10. Refs(q)
    BY <1>5, <1>7, <1>8, <1>9 DEF Good, Refs
  <1>11. Alive(q, {})
    <2>1. \A d \in Clusters : q.info[d].state \in {"failed", "restarting"} =>
              q.info[d].pid = 0 \/ Gone(q, q.info[d].pid)
      BY <1>5, <1>7 DEF Good, Alive, Gone
    <2>2. \A d \in q.up : /\ q.info[d].pid # 0 /\ ~Gone(q, q.info[d].pid)
                          /\ q.info[d].state \in Up
      BY <1>0, <1>5, <1>7 DEF Good, Alive, Gone
    <2>3. \A d \in Clusters : q.info[d].state \in Up => d \in q.up
      BY <1>5, <1>7 DEF Good, Alive
    <2>4. \A i \in Pid(q) : Runs(q, i) =>
              Current(q, i) /\ Live(q.info[q.procs[i].cluster].state)
      BY <1>0, <1>5, <1>7, <1>8 DEF Good, Alive, Current
    <2> QED BY <2>1, <2>2, <2>3, <2>4 DEF Alive
  <1>12. Phased(q)
    <2>1. ~Quiet(p)
      BY DEF Quiet
    <2>2. \E d \in Clusters : q.info[d].state = "failed"
      BY <1>5, <1>7
    <2>3. Phased(p)
      BY DEF Good
    <2>4. q.start \notin {"leading", "gateway"} /\ (q.stop # "none" => q.stopping)
      BY <1>7, <2>1, <2>3 DEF Phased
    <2>5. q.stop = "killing" => /\ \A i \in Pid(q) : ~Runs(q, i)
                                /\ \A d \in q.up : q.info[d].pid \in q.awaited
      BY <1>0, <1>5, <1>7, <1>8, <2>3 DEF Phased
    <2> QED BY <1>7, <2>2, <2>3, <2>4, <2>5 DEF Phased
  <1>13. Owned(q, k)
    <2>1. \A s \in Shards, d \in Clusters : s \in q.info[d].shards <=> q.owner[s] = d
      <3>1. SUFFICES ASSUME NEW s \in Shards, NEW d \in Clusters
                     PROVE  s \in q.info[d].shards <=> q.owner[s] = d
        OBVIOUS
      <3>2. /\ s \in p.info[d].shards <=> p.owner[s] = d
            /\ s \in p.info[c].shards <=> p.owner[s] = c
            /\ s \in p.info[t].shards <=> p.owner[s] = t
        BY <1>1 DEF Good, Owned
      <3>3. w[s] = IF s \in mine THEN t ELSE p.owner[s]
        BY <1>4
      <3>4. CASE d = c
        <4>1. z[d].shards = {}
          BY Zenon, <1>5, <3>4
        <4> QED BY <1>1, <1>7, <1>17, <3>2, <3>3, <3>4, <4>1
      <3>5. CASE d = t
        <4>1. z[d].shards = p.info[t].shards \cup mine
          BY <1>1, <1>5, <3>5
        <4> QED BY <1>1, <1>7, <1>17, <3>2, <3>3, <3>5, <4>1
      <3>6. CASE d # c /\ d # t
        <4>1. z[d].shards = p.info[d].shards
          BY <1>5, <3>6
        <4> QED BY <1>1, <1>7, <1>17, <3>2, <3>3, <3>6, <4>1
      <3> QED BY <3>4, <3>5, <3>6
    <2>2. ASSUME q.start = "launching", NEW d \in Clusters, d >= k
          PROVE  /\ q.info[d] = Unknown
                 /\ \A s \in Shards : Plan[s] = d => q.owner[s] = NoCluster
      <3>1. p.info[d] = Unknown /\ \A s \in Shards : Plan[s] = d => p.owner[s] = NoCluster
        BY <1>7, <2>2 DEF Good, Owned
      <3>2. d # c /\ d # t
        BY <1>9, <3>1 DEF Unknown
      <3>3. \A s \in Shards : Plan[s] = d => s \notin mine
        BY <1>17, <3>1, Constants DEF Good, Owned
      <3>4. q.info[d] = Unknown
        BY <1>5, <1>7, <3>1, <3>2
      <3>5. \A s \in Shards : Plan[s] = d => q.owner[s] = NoCluster
        BY <1>4, <1>7, <3>1, <3>3
      <3> QED BY <3>4, <3>5
    <2> QED BY <2>1, <2>2 DEF Owned
  <1>14. Held(q)
    <2>1. SUFFICES ASSUME NEW i \in Pid(p), Runs(p, i), NEW s \in p.procs[i].shards
                   PROVE  \/ s \in z[p.procs[i].cluster].shards
                          \/ \E f \in Clusters : /\ s \in z[f].shards /\ z[f].state = "failed"
                                                 /\ y[f] \in {0, i}
      BY <1>7, <1>8 DEF Held
    <2>2. p.procs[i].cluster \in Clusters \ {c}
      BY <1>0, <2>1 DEF Good, Alive, Live
    <2>3. CASE s \in p.info[p.procs[i].cluster].shards
      BY <1>5, <2>2, <2>3
    <2>4. CASE s \notin p.info[p.procs[i].cluster].shards
      <3>1. PICK f \in Clusters : /\ s \in p.info[f].shards /\ p.info[f].state = "failed"
                                  /\ p.assigned[f] \in {0, i}
        BY Zenon, <2>1, <2>4 DEF Good, Held
      <3>2. CASE f = c
        <4>1. i = n
          BY <1>17, <3>1, <3>2
        <4> QED BY <1>1, <1>5, <1>17, <3>1, <3>2, <4>1
      <3>3. CASE f # c
        BY <1>4, <1>5, <1>9, <3>1, <3>3
      <3> QED BY <3>2, <3>3
    <2> QED BY <2>3, <2>4
  <1>15. Apart(q)
    BY <1>7, <1>8 DEF Good, Apart
  <1>16. Asked(q, {})
    <2>1. ASSUME NEW i, CanAnswer(p, i, {}) PROVE CanAnswer(q, i, {})
      BY <1>0, <1>5, <1>7, <1>8, <2>1 DEF CanAnswer, Current
    <2> QED BY <1>4, <1>5, <1>7, <2>1 DEF Good, Asked
  <1> QED BY <1>17, <1>7, <1>10, <1>11, <1>12, <1>13, <1>14, <1>15, <1>16 DEF Good, q

\* The process that was asked to take the shards starts them.
LEMMA TakesKeeps ==
    ASSUME NEW p, NEW k, Good(p, k, {}), NEW c \in Clusters, p.assigned[c] # 0
    PROVE  LET q == [p EXCEPT !.procs[p.assigned[c]].shards = @ \cup p.info[c].shards] IN
           /\ Good(q, k, {}) /\ q.next = p.next /\ q.starts = p.starts
           /\ Pid(q) = Pid(p) /\ Len(q.procs) = Len(p.procs)
           /\ \A i \in Pid(p) : q.procs[i].state = p.procs[i].state
  <1> DEFINE n == p.assigned[c]
             mine == p.info[c].shards
             x == [p.procs[n] EXCEPT !.shards = @ \cup mine]
             q == [p EXCEPT !.procs[n] = x]
  <1>0. /\ p \in Manager /\ mine \subseteq Shards
        /\ \A i \in Pid(p) : p.procs[i] \in Process
        /\ \A i \in Pid(p) : p.procs[i].cluster \in Clusters /\ i # 0
        /\ \A i \in Pid(p) : p.procs[i].shards \subseteq Shards
    <2>1. p \in Manager
      BY DEF Good
    <2>2. p.info \in [Clusters -> Info]
      BY <2>1, Fields
    <2> QED BY <2>1, <2>2, Fields DEF Process, Info
  <1>1. n \in Pid(p) /\ p.info[c].state = "failed"
    BY DEF Good, Asked, CanAnswer
  <1>2. /\ x \in Process /\ x.cluster = p.procs[n].cluster /\ x.shards = p.procs[n].shards \cup mine
        /\ x.state = p.procs[n].state /\ x.told = p.procs[n].told
    BY <1>0, <1>1 DEF Process
  <1>3. [p EXCEPT !.procs[n].shards = @ \cup mine] = q
    BY <1>0 DEF Manager
  <1> HIDE DEF x
  <1>4. /\ q \in Manager
        /\ q.info = p.info /\ q.up = p.up /\ q.owner = p.owner /\ q.timers = p.timers
        /\ q.next = p.next /\ q.awaited = p.awaited /\ q.starts = p.starts
        /\ q.start = p.start /\ q.stop = p.stop /\ q.stopping = p.stopping
        /\ q.waiters = p.waiters /\ q.assigned = p.assigned /\ q.asked = p.asked
        /\ Len(q.procs) = Len(p.procs) /\ Pid(q) = Pid(p)
        /\ \A i \in Pid(p) : q.procs[i] = IF i = n THEN x ELSE p.procs[i]
    BY <1>0, <1>1, <1>2, Alter
  <1> HIDE DEF q
  <1>5. \A i \in Pid(p) : /\ q.procs[i].cluster = p.procs[i].cluster
                          /\ q.procs[i].state = p.procs[i].state
                          /\ q.procs[i].told = p.procs[i].told
                          /\ i # n => q.procs[i].shards = p.procs[i].shards
    BY <1>2, <1>4
  <1>6. q.procs[n].shards = p.procs[n].shards \cup mine
    BY <1>1, <1>2, <1>4
  <1>7. /\ \A i \in Pid(p) : Runs(q, i) <=> Runs(p, i)
        /\ \A i \in Pid(p) : Gone(q, i) <=> Gone(p, i)
    BY <1>5 DEF Runs, Gone
  <1>8. \A d \in Clusters : p.info[d].pid # 0 => p.info[d].pid \in Pid(p)
    BY DEF Good, Refs
  <1>9. Refs(q) /\ Owned(q, k)
    BY <1>4, <1>5 DEF Good, Refs, Owned
  <1>10. Alive(q, {})
    <2>1. \A d \in p.up : d \in Clusters
      BY <1>0, Fields
    <2>2. \A i \in Pid(q) : Runs(q, i) =>
              Current(q, i) /\ Live(q.info[q.procs[i].cluster].state)
      BY <1>4, <1>5, <1>7 DEF Good, Alive, Current
    <2> QED BY <1>4, <1>7, <1>8, <2>1, <2>2 DEF Good, Alive
  <1>11. Phased(q)
    <2>1. Quiet(p) => Quiet(q)
      BY <1>4, <1>7 DEF Quiet
    <2>2. Phased(p)
      BY DEF Good
    <2> QED BY <1>4, <1>7, <2>1, <2>2 DEF Phased
  <1>12. Held(q)
    <2>1. \A i \in Pid(p) : Runs(p, i) => \A s \in p.procs[i].shards :
        \/ s \in p.info[p.procs[i].cluster].shards
        \/ \E f \in Clusters : /\ s \in p.info[f].shards /\ p.info[f].state = "failed"
                               /\ p.assigned[f] \in {0, i}
      BY DEF Good, Held
    <2>2. \A s \in mine : \E f \in Clusters : /\ s \in p.info[f].shards
                                              /\ p.info[f].state = "failed"
                                              /\ p.assigned[f] \in {0, n}
      BY <1>1
    <2> HIDE DEF n, mine
    <2> QED BY <1>4, <1>5, <1>6, <1>7, <2>1, <2>2 DEF Held
  <1>13. Apart(q)
    <2>1. ASSUME NEW i \in Pid(p), i # n, Runs(p, i), NEW s \in p.procs[i].shards, s \in mine
          PROVE  FALSE
      <3>0. s \in Shards
        BY <1>0, <2>1
      <3>1. p.owner[s] = c
        BY <2>1, <3>0 DEF Good, Owned
      <3>2. \A f \in Clusters : s \in p.info[f].shards => f = c
        BY <3>0, <3>1 DEF Good, Owned
      <3>3. p.procs[i].cluster \in Clusters \ {c}
        BY <1>0, <1>1, <2>1 DEF Good, Alive, Live
      <3> QED BY <2>1, <3>2, <3>3 DEF Good, Held
    <2>2. \A i, j \in Pid(p) :
            i # j /\ Runs(p, i) /\ Runs(p, j) => p.procs[i].shards \cap p.procs[j].shards = {}
      BY DEF Good, Apart
    <2> HIDE DEF n, mine
    <2> QED BY <1>4, <1>5, <1>6, <1>7, <2>1, <2>2 DEF Apart
  <1>14. Asked(q, {})
    <2>1. ASSUME NEW i, CanAnswer(p, i, {}) PROVE CanAnswer(q, i, {})
      BY <1>4, <1>5, <1>7, <2>1 DEF CanAnswer, Current
    <2> QED BY <1>4, <2>1 DEF Good, Asked
  <1> QED BY <1>3, <1>4, <1>5, <1>9, <1>10, <1>11, <1>12, <1>13, <1>14 DEF Good

-----------------------------------------------------------------------------
(* Requests, and the end of a fleet.                                       *)

LEMMA SendAskKeeps ==
    ASSUME NEW p, NEW k, Good(p, k, {}), NEW a \in Asks, NEW clusters \in SUBSET Clusters
    PROVE  LET q == SendAsk(p, a, clusters) IN
           Good(q, k, {}) /\ q.procs = p.procs /\ q.next = p.next /\ q.starts = p.starts
  <1> DEFINE x == {p.info[c].pid : c \in {d \in clusters : Reaches(p, d)}}
             z == [p.asked EXCEPT ![a] = x]
             q == [p EXCEPT !.asked = z]
  <1>0. /\ p \in Manager /\ p.info \in [Clusters -> Info] /\ p.asked \in [Asks -> SUBSET Pids]
        /\ Pid(p) \subseteq Pids
    <2>1. p \in Manager /\ Len(p.procs) <= MaxProcs
      BY DEF Good
    <2> QED BY <2>1, Fields, Constants DEF Pids
  <1>1. SendAsk(p, a, clusters) = q
    BY <1>0 DEF SendAsk, Manager
  <1>2. \A n \in x : CanAnswer(p, n, {})
    <2>1. SUFFICES ASSUME NEW c \in clusters, Reaches(p, c) PROVE CanAnswer(p, p.info[c].pid, {})
      OBVIOUS
    <2>2. c \in Clusters /\ p.info[c].pid # 0 /\ p.info[c].state \in Up
      BY <2>1 DEF Reaches, Live, Up
    <2>3. c \in p.up
      BY <2>2 DEF Good, Alive
    <2>4. p.info[c].pid \in Pid(p) /\ p.procs[p.info[c].pid].cluster = c
      BY <2>2 DEF Good, Refs
    <2>5. ~Gone(p, p.info[c].pid)
      BY <2>3 DEF Good, Alive
    <2> QED BY <2>2, <2>4, <2>5 DEF CanAnswer, Current
  <1>3. x \in SUBSET Pids
    BY <1>0, <1>2 DEF CanAnswer
  <1> HIDE DEF x
  <1>4. z \in [Asks -> SUBSET Pids] /\ \A b \in Asks : z[b] = IF b = a THEN x ELSE p.asked[b]
    BY <1>0, <1>3
  <1> HIDE DEF z
  <1>5. q \in Manager
    BY <1>0, <1>4 DEF Manager
  <1>6. /\ q.procs = p.procs /\ q.info = p.info /\ q.up = p.up /\ q.owner = p.owner
        /\ q.next = p.next /\ q.awaited = p.awaited /\ q.starts = p.starts
        /\ q.start = p.start /\ q.stop = p.stop /\ q.stopping = p.stopping
        /\ q.waiters = p.waiters /\ q.assigned = p.assigned /\ q.asked = z
        /\ q.timers = p.timers
    BY <1>0 DEF Manager
  <1> HIDE DEF q
  <1>7. /\ Pid(q) = Pid(p)
        /\ \A i : Runs(q, i) <=> Runs(p, i)
        /\ \A i : Gone(q, i) <=> Gone(p, i)
        /\ \A i : CanAnswer(p, i, {}) => CanAnswer(q, i, {})
    BY <1>6 DEF Pid, Runs, Gone, CanAnswer, Current
  <1>8. Refs(q) /\ Owned(q, k)
    BY <1>6, <1>7 DEF Good, Refs, Owned
  <1>9. Alive(q, {})
    BY <1>6, <1>7 DEF Good, Alive, Current
  <1>10. Held(q) /\ Apart(q)
    BY <1>6, <1>7 DEF Good, Held, Apart
  <1>11. Phased(q)
    BY <1>6, <1>7 DEF Good, Phased, Quiet
  <1>12. Asked(q, {})
    <2>1. \A b \in Asks : \A n \in z[b] : CanAnswer(p, n, {})
      BY <1>2, <1>4 DEF Good, Asked
    <2> QED BY <1>6, <1>7, <2>1 DEF Good, Asked
  <1> QED BY <1>1, <1>5, <1>6, <1>8, <1>9, <1>10, <1>11, <1>12 DEF Good

\* Every cluster is stopped, and no process is left that nobody has told to end.
LEMMA StoppedKeeps ==
    ASSUME NEW p, NEW k, NEW j, Good(p, k, {}), NEW q \in Manager,
           q.info = [c \in Clusters |-> IF p.info[c].state # "unknown"
                                        THEN [p.info[c] EXCEPT !.state = "stopped"]
                                        ELSE p.info[c]],
           Len(q.procs) = Len(p.procs), Pid(q) = Pid(p),
           \A n \in Pid(p) : q.procs[n].cluster = p.procs[n].cluster,
           \A n \in Pid(p) : ~Runs(q, n),
           q.up = {}, q.timers = {}, q.start = "none", q.stopping = FALSE, q.owner = p.owner,
           q.next \in Clusters, q.awaited \subseteq Pid(p), "spawn" \notin q.waiters,
           \A a \in Asks : q.asked[a] = {}, \A c \in Clusters : q.assigned[c] = 0
    PROVE  Good(q, j, {}) /\ Quiet(q)
  <1>1. p.info \in [Clusters -> Info]
    BY Fields DEF Good
  <1>2. \A c \in Clusters :
            /\ q.info[c].pid = p.info[c].pid /\ q.info[c].shards = p.info[c].shards
            /\ q.info[c].state \in {"unknown", "stopped"}
            /\ q.info[c].state = "unknown" => q.info[c] = p.info[c]
    BY <1>1 DEF Info
  <1>3. Refs(q)
    BY <1>2 DEF Good, Refs
  <1>4. Quiet(q) /\ Alive(q, {})
    BY <1>2 DEF Quiet, Alive, Up
  <1>5. Phased(q)
    BY <1>4 DEF Phased
  <1>6. Owned(q, j)
    BY <1>2 DEF Good, Owned
  <1>7. Held(q) /\ Apart(q) /\ Asked(q, {})
    BY DEF Held, Apart, Asked
  <1>8. Len(q.procs) <= MaxProcs
    BY DEF Good
  <1> QED BY <1>3, <1>4, <1>5, <1>6, <1>7, <1>8 DEF Good

\* What Stopped makes of the clusters.
StoppedInfo(p) ==
    [c \in Clusters |-> IF p.info[c].state # "unknown"
                        THEN [p.info[c] EXCEPT !.state = "stopped"] ELSE p.info[c]]

LEMMA StoppedIs ==
    ASSUME NEW p \in Manager
    PROVE  /\ Stopped(p) = [p EXCEPT !.info = StoppedInfo(p), !.up = {}]
           /\ StoppedInfo(p) \in [Clusters -> Info]
  <1>1. p.info \in [Clusters -> Info]
    BY Fields
  <1>2. [c \in Clusters |-> IF c \in Known(p) THEN [p.info[c] EXCEPT !.state = "stopped"]
                            ELSE p.info[c]] = StoppedInfo(p)
    BY DEF Known, StoppedInfo
  <1>3. Stopped(p) = [p EXCEPT !.info = StoppedInfo(p), !.up = {}]
    BY <1>2 DEF Stopped, Manager
  <1>4. \A c \in Clusters : p.info[c] \in Info /\ [p.info[c] EXCEPT !.state = "stopped"] \in Info
    BY <1>1 DEF Info, States
  <1>5. StoppedInfo(p) \in [Clusters -> Info]
    BY <1>4 DEF StoppedInfo
  <1> QED BY <1>3, <1>5

\* killAll and #standDown, up to what they start anew.
Silenced(p, t) ==
    [Stopped(Signal(Halt(p), Known(p), t)) EXCEPT !.leading = FALSE, !.stopping = FALSE]

LEMMA SilencedKeeps ==
    ASSUME NEW p, NEW k, Good(p, k, {}), NEW t \in {"term", "kill"}
    PROVE  LET q == Silenced(p, t) IN
           /\ Good(q, 0, {}) /\ Quiet(q) /\ q.next = 0 /\ q.starts = p.starts
           /\ q.stop = p.stop /\ q.queued = p.queued /\ q.leading = FALSE /\ q.start = "none"
           /\ q.allReady = p.allReady
           /\ Len(q.procs) = Len(p.procs) /\ Pid(q) = Pid(p)
           /\ \A n \in Pid(p) : Gone(q, n) => Gone(p, n)
  <1> DEFINE h == Halt(p)  g == Signal(h, Known(p), t)  q == Silenced(p, t)
  <1>0. p \in Manager /\ Known(p) \in SUBSET Clusters /\ p.info \in [Clusters -> Info]
        /\ \A n \in Pid(p) : p.procs[n].cluster \in Clusters
    <2>1. p \in Manager
      BY DEF Good
    <2> QED BY <2>1, Fields DEF Known, Process
  <1>1. /\ h \in Manager
        /\ h.procs = p.procs /\ h.info = p.info /\ h.owner = p.owner /\ h.starts = p.starts
        /\ h.awaited = p.awaited /\ h.stop = p.stop /\ h.queued = p.queued
        /\ h.start = "none" /\ h.next = 0 /\ h.timers = {} /\ h.waiters = {}
        /\ h.asked = [a \in Asks |-> {}] /\ h.assigned = [c \in Clusters |-> 0]
        /\ h.allReady = p.allReady
    BY <1>0, HaltIs
  <1> HIDE DEF h
  <1>2. /\ g \in Manager /\ Tamed(h, g) /\ g.queued = h.queued /\ g.allReady = h.allReady
        /\ \A n \in Pid(h) : Runs(g, n) => \A c \in Known(p) : h.info[c].pid # n
    BY <1>0, <1>1, SignalIs
  <1> HIDE DEF g
  <1>3. /\ g.info = p.info /\ g.owner = p.owner /\ g.starts = p.starts
        /\ g.awaited = p.awaited /\ g.stop = p.stop /\ g.queued = p.queued
        /\ g.start = "none" /\ g.next = 0 /\ g.timers = {} /\ g.waiters = {}
        /\ g.asked = h.asked /\ g.assigned = h.assigned /\ g.allReady = p.allReady
        /\ Pid(g) = Pid(p) /\ Len(g.procs) = Len(p.procs)
        /\ \A n \in Pid(p) : g.procs[n].cluster = p.procs[n].cluster
        /\ \A n \in Pid(p) : Gone(g, n) <=> Gone(p, n)
        /\ \A n \in Pid(p) : Runs(g, n) => Runs(p, n)
    BY <1>1, <1>2 DEF Tamed, Pid, Gone, Runs
  <1>4. \A n \in Pid(p) : ~Runs(g, n)
    <2>1. SUFFICES ASSUME NEW n \in Pid(p), Runs(g, n) PROVE FALSE
      OBVIOUS
    <2>2. Current(p, n) /\ Live(p.info[p.procs[n].cluster].state)
      BY <1>3, <2>1 DEF Good, Alive
    <2>3. p.procs[n].cluster \in Known(p)
      BY <1>0, <2>2 DEF Known, Live
    <2>4. Pid(h) = Pid(p)
      BY <1>1 DEF Pid
    <2> QED BY <1>1, <1>2, <2>1, <2>2, <2>3, <2>4 DEF Current
  <1> DEFINE z == StoppedInfo(g)
  <1>5. Stopped(g) = [g EXCEPT !.info = z, !.up = {}] /\ z \in [Clusters -> Info]
    BY <1>2, StoppedIs
  <1>6. z = StoppedInfo(p)
    BY <1>3 DEF StoppedInfo
  <1> HIDE DEF z
  <1>7. q = [g EXCEPT !.info = z, !.up = {}, !.leading = FALSE, !.stopping = FALSE]
    BY <1>2, <1>5 DEF Manager, Silenced, g, h
  <1> HIDE DEF q
  <1>8. q \in Manager
    BY <1>2, <1>5, <1>7 DEF Manager
  <1>9. /\ q.procs = g.procs /\ q.info = z /\ q.up = {} /\ q.owner = p.owner /\ q.starts = p.starts
        /\ q.awaited = p.awaited /\ q.stop = p.stop /\ q.queued = p.queued
        /\ q.start = "none" /\ q.next = 0 /\ q.timers = {} /\ q.waiters = {}
        /\ q.asked = h.asked /\ q.assigned = h.assigned
        /\ q.leading = FALSE /\ q.stopping = FALSE /\ q.allReady = p.allReady
    BY <1>2, <1>3, <1>7 DEF Manager
  <1>10. /\ Pid(q) = Pid(p) /\ Len(q.procs) = Len(p.procs)
         /\ \A n \in Pid(p) : q.procs[n].cluster = p.procs[n].cluster
         /\ \A n \in Pid(p) : Gone(q, n) <=> Gone(p, n)
         /\ \A n \in Pid(p) : ~Runs(q, n)
    BY <1>3, <1>4, <1>9 DEF Pid, Gone, Runs
  <1>11. q.awaited \subseteq Pid(p)
    BY <1>9 DEF Good, Refs
  <1>12. Good(q, 0, {}) /\ Quiet(q)
    <2>1. q.info = [c \in Clusters |-> IF p.info[c].state # "unknown"
                                       THEN [p.info[c] EXCEPT !.state = "stopped"]
                                       ELSE p.info[c]]
      BY <1>6, <1>9 DEF StoppedInfo
    <2>2. (\A a \in Asks : q.asked[a] = {}) /\ \A c \in Clusters : q.assigned[c] = 0
      BY <1>1, <1>9
    <2> QED BY <1>8, <1>9, <1>10, <1>11, <2>1, <2>2, Constants, StoppedKeeps
  <1> QED BY <1>9, <1>10, <1>12 DEF q

\* #shutdown: the live clusters are told to end, and their exits are awaited.
LEMMA EndClustersKeeps ==
    ASSUME NEW p, NEW k, Good(p, k, {}), p.stop = "draining"
    PROVE  LET q == EndClusters(p) IN
           /\ Good(q, k, {}) /\ q.next = p.next /\ q.starts = p.starts
           /\ Len(q.procs) = Len(p.procs) /\ Pid(q) = Pid(p)
           /\ \A n \in Pid(p) : Gone(q, n) => Gone(p, n)
           /\ q.stop = "killing" /\ q.start = p.start /\ q.waiters = p.waiters
           /\ q.assigned = p.assigned /\ q.timers = p.timers /\ q.leading = p.leading
           /\ q.queued = p.queued /\ q.resigns = p.resigns /\ q.allReady = p.allReady
           /\ \A c \in Clusters : q.info[c].state # "stopping" => q.info[c] = p.info[c]
  <1> DEFINE g == Signal(p, p.up, "term")  q == EndClusters(p)
             z == [c \in Clusters |-> IF c \in p.up THEN [p.info[c] EXCEPT !.state = "stopping"]
                                      ELSE p.info[c]]
             w == {p.info[c].pid : c \in p.up} \cap {n \in DOMAIN p.procs : p.procs[n].state # "gone"}
  <1>0. p \in Manager /\ p.up \in SUBSET Clusters /\ p.info \in [Clusters -> Info]
        /\ \A n \in Pid(p) : p.procs[n].cluster \in Clusters /\ n \in Pids
    <2>1. p \in Manager /\ Len(p.procs) <= MaxProcs
      BY DEF Good
    <2> QED BY <2>1, Fields, Constants DEF Process, Pids
  <1>1. /\ g \in Manager /\ Tamed(p, g)
        /\ \A n \in Pid(p) : Runs(g, n) => \A c \in p.up : p.info[c].pid # n
        /\ g.leading = p.leading /\ g.queued = p.queued /\ g.resigns = p.resigns
        /\ g.allReady = p.allReady
    BY <1>0, SignalIs
  <1>2. g.info = p.info
    BY <1>1 DEF Tamed
  <1>3. q = [g EXCEPT !.stop = "killing", !.awaited = w, !.info = z]
    <2> HIDE DEF g
    <2> QED BY <1>1, <1>2 DEF EndClusters, g, Manager
  <1> HIDE DEF g
  <1>4. z \in [Clusters -> Info] /\ w \in SUBSET Pids
    <2>1. \A c \in Clusters : p.info[c] \in Info /\ [p.info[c] EXCEPT !.state = "stopping"] \in Info
      BY <1>0 DEF Info, States
    <2>2. w \subseteq Pid(p)
      BY DEF Pid
    <2> QED BY <1>0, <2>1, <2>2
  <1>5. \A c \in Clusters :
            /\ z[c].pid = p.info[c].pid /\ z[c].shards = p.info[c].shards
            /\ z[c].state = IF c \in p.up THEN "stopping" ELSE p.info[c].state
            /\ c \notin p.up => z[c] = p.info[c]
    BY <1>0 DEF Info
  <1>6. \A c \in p.up : p.info[c].pid \in w
    <2>1. SUFFICES ASSUME NEW c \in p.up PROVE p.info[c].pid \in w
      OBVIOUS
    <2>2. c \in Clusters /\ p.info[c].pid # 0 /\ ~Gone(p, p.info[c].pid)
      BY <1>0 DEF Good, Alive
    <2>3. p.info[c].pid \in Pid(p)
      BY <2>2 DEF Good, Refs
    <2> QED BY <2>2, <2>3 DEF Gone, Pid
  <1>7. w \subseteq Pid(p)
    BY DEF Pid
  <1> HIDE DEF z, w, q
  <1>8. q \in Manager
    BY <1>1, <1>3, <1>4 DEF Manager
  <1>9. /\ q.procs = g.procs /\ q.info = z /\ q.up = p.up /\ q.owner = p.owner
        /\ q.next = p.next /\ q.awaited = w /\ q.starts = p.starts
        /\ q.start = p.start /\ q.stop = "killing" /\ q.stopping = p.stopping
        /\ q.waiters = p.waiters /\ q.assigned = p.assigned /\ q.asked = p.asked
        /\ q.timers = p.timers /\ q.leading = p.leading /\ q.queued = p.queued
        /\ q.resigns = p.resigns /\ q.allReady = p.allReady
    BY <1>1, <1>3 DEF Manager, Tamed
  <1>10. /\ Pid(q) = Pid(p) /\ Len(q.procs) = Len(p.procs)
         /\ \A n \in Pid(p) : q.procs[n].cluster = p.procs[n].cluster
         /\ \A n \in Pid(p) : q.procs[n].shards = p.procs[n].shards
         /\ \A n \in Pid(p) : Gone(q, n) <=> Gone(p, n)
         /\ \A n \in Pid(p) : Runs(q, n) => Runs(g, n) /\ Runs(p, n)
    BY <1>1, <1>9 DEF Tamed, Pid, Gone, Runs
  <1>11. \A n \in Pid(p) : ~Runs(q, n)
    <2>1. SUFFICES ASSUME NEW n \in Pid(p), Runs(q, n) PROVE FALSE
      OBVIOUS
    <2>2. Current(p, n) /\ p.info[p.procs[n].cluster].state \in Up
      BY <1>10, <2>1 DEF Good, Alive, Live, Up
    <2>3. p.procs[n].cluster \in p.up
      BY <1>0, <2>2 DEF Good, Alive
    <2> QED BY <1>1, <1>10, <2>1, <2>2, <2>3 DEF Current
  <1>12. \A c \in Clusters : p.info[c].pid # 0 => p.info[c].pid \in Pid(p)
    BY DEF Good, Refs
  <1>13. Refs(q)
    BY <1>0, <1>5, <1>7, <1>9, <1>10 DEF Good, Refs
  <1>14. Alive(q, {})
    <2>1. \A c \in Clusters : q.info[c].state \in {"failed", "restarting"} =>
              q.info[c].pid = 0 \/ Gone(q, q.info[c].pid)
      BY <1>5, <1>9, <1>10, <1>12 DEF Good, Alive
    <2>2. \A c \in q.up : /\ q.info[c].pid # 0 /\ ~Gone(q, q.info[c].pid)
                         /\ q.info[c].state \in Up
      BY <1>0, <1>5, <1>9, <1>10, <1>12 DEF Good, Alive, Up
    <2>3. \A c \in Clusters : q.info[c].state \in Up => c \in q.up
      BY <1>5, <1>9 DEF Good, Alive
    <2> QED BY <1>10, <1>11, <2>1, <2>2, <2>3 DEF Alive
  <1>15. Phased(q)
    <2>1. Quiet(p) => Quiet(q)
      BY <1>0, <1>5, <1>9, <1>10, <1>11 DEF Quiet
    <2>2. p.start = "none" /\ p.timers = {} /\ (~p.stopping => Quiet(p))
      BY DEF Good, Phased
    <2>3. \A c \in q.up : q.info[c].pid \in q.awaited
      BY <1>0, <1>5, <1>6, <1>9
    <2>4. "spawn" \notin q.waiters
      BY <1>9, <2>2 DEF Good, Phased
    <2> QED BY <1>9, <1>10, <1>11, <2>1, <2>2, <2>3, <2>4 DEF Phased
  <1>16. Owned(q, k)
    <2>1. q.start = "none"
      BY <1>9 DEF Good, Phased
    <2> QED BY <1>5, <1>9, <2>1 DEF Good, Owned
  <1>17. Held(q) /\ Apart(q)
    BY <1>10, <1>11 DEF Held, Apart
  <1>18. Asked(q, {})
    <2>1. ASSUME NEW i, CanAnswer(p, i, {}) PROVE CanAnswer(q, i, {})
      BY <1>0, <1>5, <1>9, <1>10, <2>1 DEF CanAnswer, Current, Up
    <2>2. \A f \in Clusters : p.info[f].state = "failed" => f \notin p.up
      BY DEF Good, Alive, Up
    <2>3. \A f \in Clusters : p.info[f].state = "failed" => q.info[f].state = "failed"
      BY <1>5, <1>9, <2>2
    <2> QED BY <1>9, <2>1, <2>3 DEF Good, Asked
  <1>19. Len(q.procs) <= MaxProcs
    BY <1>10 DEF Good
  <1>20. \A c \in Clusters : q.info[c].state # "stopping" => q.info[c] = p.info[c]
    BY <1>5, <1>9
  <1> QED BY <1>8, <1>9, <1>10, <1>20, <1>13, <1>14, <1>15, <1>16, <1>17, <1>18, <1>19 DEF Good, q

\* The end of #shutdown, and the start that waited for it.
LEMMA EndShutdownKeeps ==
    ASSUME NEW p, NEW k, Good(p, k, {}), p.stop = "killing", p.awaited = {}
    PROVE  LET q == EndShutdown(p) IN
           /\ Good(q, q.next, {}) /\ q.starts = p.starts /\ q.procs = p.procs
           /\ \E g : /\ q = IF p.queued THEN Spawn(g) ELSE g
                     /\ Good(g, g.next, {}) /\ Quiet(g) /\ g.stop = "none" /\ ~g.queued
                     /\ g.start = "none"
                     /\ g.leading => p.leading /\ ~p.resigns
                     /\ g.allReady => p.allReady
  <1> DEFINE z == StoppedInfo(p)
             l == IF p.resigns THEN FALSE ELSE p.leading
             g == [p EXCEPT !.info = z, !.up = {}, !.stop = "none", !.awaited = {},
                            !.start = "none", !.leading = l, !.stopping = FALSE, !.queued = FALSE]
  <1>0. p \in Manager /\ p.info \in [Clusters -> Info] /\ p.leading \in BOOLEAN
        /\ \A n \in Pid(p) : p.procs[n].cluster \in Clusters
    <2>1. p \in Manager
      BY DEF Good
    <2> QED BY <2>1, Fields DEF Process
  <1>1. z \in [Clusters -> Info] /\ Stopped(p) = [p EXCEPT !.info = z, !.up = {}]
    BY <1>0, StoppedIs
  <1>2. l \in BOOLEAN
    BY <1>0
  <1>3. EndShutdown(p) = IF p.queued THEN Spawn(g) ELSE g
    <2>1. [Stopped(p) EXCEPT !.stop = "none", !.awaited = {}, !.start = "none",
                             !.leading = IF p.resigns THEN FALSE ELSE @,
                             !.stopping = FALSE, !.queued = FALSE] = g
      <3> HIDE DEF z
      <3> QED BY <1>0, <1>1 DEF Manager
    <2> HIDE DEF g
    <2> QED BY <2>1 DEF EndShutdown
  <1>12. l => p.leading /\ ~p.resigns
    OBVIOUS
  <1> HIDE DEF l
  <1>4. g \in Manager
    <2> DEFINE h == [p EXCEPT !.info = z, !.up = {}, !.stop = "none", !.awaited = {}]
    <2> HIDE DEF z
    <2>1. h \in Manager
      BY <1>0, <1>1 DEF Manager
    <2>2. g = [h EXCEPT !.start = "none", !.leading = l, !.stopping = FALSE, !.queued = FALSE]
      BY <1>0 DEF Manager
    <2> HIDE DEF h, g
    <2> QED BY <1>2, <2>1, <2>2 DEF Manager
  <1>5. /\ g.procs = p.procs /\ g.info = z /\ g.up = {} /\ g.owner = p.owner
        /\ g.next = p.next /\ g.awaited = {} /\ g.starts = p.starts
        /\ g.start = "none" /\ g.stop = "none" /\ g.stopping = FALSE
        /\ g.waiters = p.waiters /\ g.assigned = p.assigned /\ g.asked = p.asked
        /\ g.timers = p.timers /\ ~g.queued /\ g.leading = l /\ g.allReady = p.allReady
    <2> HIDE DEF z
    <2> QED BY <1>0 DEF Manager
  <1> HIDE DEF g
  <1>6. p.up = {}
    <2>1. \A c \in p.up : p.info[c].pid \in p.awaited
      BY DEF Good, Phased
    <2> QED BY <2>1
  <1>7. \A n : ~CanAnswer(p, n, {})
    BY <1>0, <1>6 DEF Good, Alive, CanAnswer
  <1>8. p.start = "none" /\ p.timers = {} /\ \A n \in Pid(p) : ~Runs(p, n)
    BY DEF Good, Phased
  <1>9. Good(g, g.next, {}) /\ Quiet(g)
    <2>1. (\A a \in Asks : g.asked[a] = {}) /\ \A c \in Clusters : g.assigned[c] = 0
      BY <1>5, <1>7 DEF Good, Asked
    <2>2. /\ Pid(g) = Pid(p) /\ Len(g.procs) = Len(p.procs)
          /\ \A n \in Pid(p) : g.procs[n].cluster = p.procs[n].cluster
          /\ \A n \in Pid(p) : ~Runs(g, n)
      BY <1>5, <1>8 DEF Pid, Runs
    <2>3. g.next \in Clusters /\ "spawn" \notin g.waiters /\ g.timers = {} /\ g.awaited \subseteq Pid(p)
      BY <1>5, <1>8 DEF Good, Refs, Phased
    <2>4. g.info = [c \in Clusters |-> IF p.info[c].state # "unknown"
                                       THEN [p.info[c] EXCEPT !.state = "stopped"]
                                       ELSE p.info[c]]
      BY <1>5 DEF StoppedInfo
    <2> QED BY <1>4, <1>5, <2>1, <2>2, <2>3, <2>4, StoppedKeeps
  <1>10. Good(Spawn(g), g.next, {}) /\ Spawn(g).next = g.next
    BY <1>9, SpawnKeeps
  <1>11. Spawn(g).starts = g.starts /\ Spawn(g).procs = g.procs
    BY <1>4 DEF Spawn, Manager
  <1> QED BY <1>3, <1>5, <1>9, <1>10, <1>11, <1>12

-----------------------------------------------------------------------------
(* The steps of the manager.                                               *)

\* Without these, a fleet is planned while processes of the last one run.
Sane == Races \cap {"again", "ready"} = {}

\* No process goes away, and none is gone that was not.
Onward(p, q) ==
    /\ Len(p.procs) <= Len(q.procs)
    /\ \A n \in Pid(p) : n \in Pid(q) /\ (Gone(q, n) => Gone(p, n))

\* What a step does to the manager, but for an exit and the start of a fleet.
Kept == Good(m', m'.next, {}) /\ Onward(m, m') /\ m'.starts = m.starts

LEMMA OnwardFacts ==
    ASSUME NEW p \in Manager, NEW q
    PROVE  /\ q.procs = p.procs => Onward(p, q)
           /\ Grown(p, q) => Onward(p, q)
           /\ Tamed(p, q) => Onward(p, q)
           /\ Len(q.procs) = Len(p.procs) /\ Pid(q) = Pid(p)
                /\ (\A n \in Pid(p) : Gone(q, n) => Gone(p, n)) => Onward(p, q)
  <1>1. Len(p.procs) \in Nat
    BY Fields
  <1>2. q.procs = p.procs => Onward(p, q)
    BY <1>1 DEF Onward, Pid, Gone
  <1>3. Grown(p, q) => Onward(p, q)
    BY DEF Onward, Grown, Gone
  <1>4. Tamed(p, q) => Onward(p, q)
    BY <1>1 DEF Onward, Tamed
  <1>5. Len(q.procs) = Len(p.procs) /\ Pid(q) = Pid(p)
          /\ (\A n \in Pid(p) : Gone(q, n) => Gone(p, n)) => Onward(p, q)
    BY <1>1 DEF Onward
  <1> QED BY <1>2, <1>3, <1>4, <1>5

\* Which cluster is launched next matters while clusters are launched.
LEMMA NextIsFree ==
    ASSUME NEW p, NEW k, NEW j, Good(p, k, {}), p.start # "launching" \/ k = j
    PROVE  Good(p, j, {})
  BY DEF Good, Owned

LEMMA SpawnStep ==
    ASSUME Sane, Good(m, m.next, {}), CallSpawn
    PROVE  Kept
  <1>1. m' = Spawn(m) /\ m \in Manager
    BY DEF CallSpawn, Good
  <1>2. ~\E c \in Clusters : m.info[c].state = "failed"
    BY DEF CallSpawn, Allows, Sane
  <1>3. Good(Spawn(m), m.next, {}) /\ Spawn(m).next = m.next
    BY <1>2, SpawnKeeps DEF Good, Phased
  <1>4. Spawn(m).starts = m.starts /\ Spawn(m).procs = m.procs
    BY <1>1 DEF Spawn, Manager
  <1> QED BY <1>1, <1>3, <1>4, OnwardFacts DEF Kept

LEMMA ShutdownStep ==
    ASSUME Good(m, m.next, {}), CallShutdown
    PROVE  Kept
  <1> DEFINE q == Shutdown(m, TRUE)
  <1>1. m' = q /\ m \in Manager
    BY DEF CallShutdown, Good
  <1>2. Good(q, m.next, {}) /\ q.procs = m.procs /\ q.starts = m.starts /\ q.stop # "none"
    BY ShutdownKeeps
  <1> HIDE DEF q
  <1>3. Good(q, q.next, {})
    BY <1>2, NextIsFree DEF Good, Phased
  <1> QED BY <1>1, <1>2, <1>3, OnwardFacts DEF Kept

LEMMA RespawnIs ==
    ASSUME NEW p, Good(p, p.next, {})
    PROVE  LET q == Respawn(p) IN
           Good(q, q.next, {}) /\ q.procs = p.procs /\ q.starts = p.starts
  <1> DEFINE q == Respawn(p)
  <1>1. Good(q, p.next, {}) /\ q.procs = p.procs /\ q.starts = p.starts /\ q.stop # "none"
    BY RespawnKeeps
  <1> HIDE DEF q
  <1>2. Good(q, q.next, {})
    BY <1>1, NextIsFree DEF Good, Phased
  <1> QED BY <1>1, <1>2 DEF q

LEMMA RespawnStep ==
    ASSUME Good(m, m.next, {}), CallRespawn
    PROVE  Kept
  <1>1. m' = Respawn(m) /\ m \in Manager
    BY DEF CallRespawn, Good
  <1> QED BY <1>1, RespawnIs, OnwardFacts DEF Kept

LEMMA KillStep ==
    ASSUME Good(m, m.next, {}), CallKill
    PROVE  Kept
  <1> DEFINE q == Silenced(m, "term")
  <1>1. m' = q /\ m \in Manager
    BY DEF CallKill, KillAll, Silenced, Good
  <1>2. /\ Good(q, 0, {}) /\ q.next = 0 /\ q.starts = m.starts
        /\ Len(q.procs) = Len(m.procs) /\ Pid(q) = Pid(m)
        /\ \A n \in Pid(m) : Gone(q, n) => Gone(m, n)
    BY SilencedKeeps
  <1> HIDE DEF q
  <1>3. Onward(m, q)
    BY <1>1, <1>2, OnwardFacts
  <1> QED BY <1>1, <1>2, <1>3 DEF Kept

LEMMA LoseLockStep ==
    ASSUME Good(m, m.next, {}), LoseLock
    PROVE  Kept
  <1> DEFINE q == Silenced(m, "kill")
  <1>1. m' = Spawn(q) /\ m \in Manager
    BY DEF LoseLock, StandDown, Silenced, Good
  <1>2. /\ Good(q, 0, {}) /\ Quiet(q) /\ q.next = 0 /\ q.starts = m.starts
        /\ Len(q.procs) = Len(m.procs) /\ Pid(q) = Pid(m)
        /\ \A n \in Pid(m) : Gone(q, n) => Gone(m, n)
    BY SilencedKeeps
  <1> HIDE DEF q
  <1>3. Good(Spawn(q), 0, {}) /\ Spawn(q).next = 0
    BY <1>2, SpawnKeeps
  <1>4. Spawn(q).starts = q.starts /\ Spawn(q).procs = q.procs
    BY <1>2 DEF Spawn, Good, Manager
  <1>5. Onward(m, Spawn(q))
    <2>1. Pid(Spawn(q)) = Pid(m) /\ \A n \in Pid(m) : Gone(Spawn(q), n) => Gone(m, n)
      BY <1>2, <1>4 DEF Pid, Gone
    <2> QED BY <1>1, <1>2, <1>4, <2>1, OnwardFacts
  <1> QED BY <1>1, <1>2, <1>3, <1>4, <1>5 DEF Kept

\* Steps that leave the fleet, its start and its stop alone.
LEMMA StandingStep ==
    ASSUME Good(m, m.next, {}), m' \in Manager, Same(m, m'), m'.next = m.next,
           m'.awaited = m.awaited, m'.timers = m.timers, m'.starts = m.starts,
           m'.start = m.start, m'.stop = m.stop, m'.stopping = m.stopping,
           "spawn" \in m'.waiters <=> "spawn" \in m.waiters
    PROVE  Kept
  <1>1. m.next \in Clusters
    BY DEF Good, Refs
  <1>2. Good(m', m.next, {})
    BY <1>1, StandingKeeps
  <1>3. m'.procs = m.procs /\ m \in Manager
    BY DEF Same, Good
  <1> QED BY <1>2, <1>3, OnwardFacts DEF Kept

LEMMA SmallSteps ==
    ASSUME Good(m, m.next, {}),
           \/ CallReady \/ ScaleAsks
           \/ \E c \in Clusters : Forgives(c)
           \/ \E a \in Asks : RequestTimesOut(a)
           \/ \E a \in Asks, n \in Pids : Answers(a, n)
    PROVE  Kept
  <1>0. m \in Manager
    BY DEF Good
  <1>1. CASE CallReady
    <2>1. m' = [m EXCEPT !.waiters = m.waiters \cup {"user"}]
      BY <1>0, <1>1 DEF CallReady, Manager
    <2>2. m' \in Manager
      BY <1>0, <2>1 DEF Manager
    <2>3. /\ m'.procs = m.procs /\ m'.info = m.info /\ m'.up = m.up /\ m'.owner = m.owner
          /\ m'.next = m.next /\ m'.awaited = m.awaited /\ m'.timers = m.timers
          /\ m'.starts = m.starts /\ m'.start = m.start /\ m'.stop = m.stop
          /\ m'.stopping = m.stopping /\ m'.asked = m.asked /\ m'.assigned = m.assigned
          /\ m'.waiters = m.waiters \cup {"user"}
      BY <1>0, <2>1 DEF Manager
    <2> QED BY <2>2, <2>3, StandingStep DEF Same
  <1>2. CASE ScaleAsks
    <2>1. m' = [m EXCEPT !.scaling = TRUE]
      BY <1>2 DEF ScaleAsks
    <2>2. m' \in Manager
      BY <1>0, <2>1 DEF Manager
    <2>3. /\ m'.procs = m.procs /\ m'.info = m.info /\ m'.up = m.up /\ m'.owner = m.owner
          /\ m'.next = m.next /\ m'.awaited = m.awaited /\ m'.timers = m.timers
          /\ m'.starts = m.starts /\ m'.start = m.start /\ m'.stop = m.stop
          /\ m'.stopping = m.stopping /\ m'.asked = m.asked /\ m'.assigned = m.assigned
          /\ m'.waiters = m.waiters
      BY <1>0, <2>1 DEF Manager
    <2> QED BY <2>2, <2>3, StandingStep DEF Same
  <1>3. ASSUME NEW c \in Clusters, Forgives(c) PROVE Kept
    <2> DEFINE z == [m.crashes EXCEPT ![c] = 0]
    <2>1. m' = [m EXCEPT !.crashes = z]
      BY <1>0, <1>3 DEF Forgives, Manager
    <2>2. z \in [Clusters -> 0..MaxRestarts]
      BY <1>0, Fields, Constants
    <2> HIDE DEF z
    <2>3. m' \in Manager
      BY <1>0, <2>1, <2>2 DEF Manager
    <2>4. /\ m'.procs = m.procs /\ m'.info = m.info /\ m'.up = m.up /\ m'.owner = m.owner
          /\ m'.next = m.next /\ m'.awaited = m.awaited /\ m'.timers = m.timers
          /\ m'.starts = m.starts /\ m'.start = m.start /\ m'.stop = m.stop
          /\ m'.stopping = m.stopping /\ m'.asked = m.asked /\ m'.assigned = m.assigned
          /\ m'.waiters = m.waiters
      BY <1>0, <2>1 DEF Manager
    <2> QED BY <2>3, <2>4, StandingStep DEF Same
  <1>4. ASSUME NEW a \in Asks, NEW x \in SUBSET m.asked[a],
               m' = [m EXCEPT !.asked = [m.asked EXCEPT ![a] = x]]
        PROVE  Kept
    <2> DEFINE z == [m.asked EXCEPT ![a] = x]
    <2>1. m.asked \in [Asks -> SUBSET Pids]
      BY <1>0, Fields
    <2>2. z \in [Asks -> SUBSET Pids] /\ \A b \in Asks : z[b] \subseteq m.asked[b]
      BY <2>1
    <2>3. m' = [m EXCEPT !.asked = z]
      BY <1>4
    <2> HIDE DEF z
    <2>4. m' \in Manager
      BY <1>0, <2>2, <2>3 DEF Manager
    <2>5. /\ m'.procs = m.procs /\ m'.info = m.info /\ m'.up = m.up /\ m'.owner = m.owner
          /\ m'.next = m.next /\ m'.awaited = m.awaited /\ m'.timers = m.timers
          /\ m'.starts = m.starts /\ m'.start = m.start /\ m'.stop = m.stop
          /\ m'.stopping = m.stopping /\ m'.asked = z /\ m'.assigned = m.assigned
          /\ m'.waiters = m.waiters
      BY <1>0, <2>3 DEF Manager
    <2> QED BY <2>2, <2>4, <2>5, StandingStep DEF Same
  <1>5. ASSUME NEW a \in Asks, RequestTimesOut(a) PROVE Kept
    <2>1. m' = [m EXCEPT !.asked = [m.asked EXCEPT ![a] = {}]]
      BY <1>0, <1>5 DEF RequestTimesOut, Manager
    <2> QED BY <1>4, <2>1
  <1>6. ASSUME NEW a \in Asks, NEW n \in Pids, Answers(a, n) PROVE Kept
    <2>1. CASE Current(m, n)
      <3>1. m' = [m EXCEPT !.asked = [m.asked EXCEPT ![a] = m.asked[a] \ {n}]]
        BY <1>0, <1>6, <2>1 DEF Answers, Manager
      <3> QED BY <1>4, <3>1
    <2>2. CASE ~Current(m, n)
      <3>1. m' = m
        BY <1>6, <2>2 DEF Answers
      <3> QED BY <1>0, <3>1, StandingStep DEF Same
    <2> QED BY <2>1, <2>2
  <1> QED BY <1>1, <1>2, <1>3, <1>5, <1>6

LEMMA ScaleAnswersStep ==
    ASSUME Good(m, m.next, {}), ScaleAnswers
    PROVE  Kept
  <1> DEFINE q == Respawn(m)
  <1>1. m' = [q EXCEPT !.scaling = FALSE] /\ m \in Manager
    BY DEF ScaleAnswers, Good
  <1>2. Good(q, q.next, {}) /\ q.procs = m.procs /\ q.starts = m.starts
    BY RespawnIs
  <1> HIDE DEF q
  <1>3. q \in Manager
    BY <1>2 DEF Good
  <1>4. m' \in Manager
    BY <1>1, <1>3 DEF Manager
  <1>5. /\ m'.procs = q.procs /\ m'.info = q.info /\ m'.up = q.up /\ m'.owner = q.owner
        /\ m'.next = q.next /\ m'.awaited = q.awaited /\ m'.timers = q.timers
        /\ m'.starts = q.starts /\ m'.start = q.start /\ m'.stop = q.stop
        /\ m'.stopping = q.stopping /\ m'.asked = q.asked /\ m'.assigned = q.assigned
        /\ m'.waiters = q.waiters
    BY <1>1, <1>3 DEF Manager
  <1>6. q.next \in Clusters /\ Same(q, m')
    BY <1>2, <1>5 DEF Good, Refs, Same
  <1>7. Good(m', q.next, {})
    BY <1>2, <1>4, <1>5, <1>6, StandingKeeps
  <1> QED BY <1>1, <1>2, <1>5, <1>7, OnwardFacts DEF Kept

LEMMA AskStep ==
    ASSUME Good(m, m.next, {}), NEW a \in Asks, CallAsk(a)
    PROVE  Kept
  <1>1. PICK clusters \in SUBSET Clusters : m' = SendAsk(m, a, clusters)
    BY DEF CallAsk
  <1>2. m \in Manager
    BY DEF Good
  <1> QED BY <1>1, <1>2, SendAskKeeps, OnwardFacts DEF Kept

\* A start that goes on, or fails, before anything is launched.
LEMMA EarlySteps ==
    ASSUME Good(m, m.next, {}), Lead \/ GatewayFails
    PROVE  Kept
  <1> DEFINE x == m'.start
  <1>0. m \in Manager /\ Quiet(m) /\ m.stop = "none" /\ m.start \in {"leading", "gateway"}
    BY DEF Good, Phased, Lead, GatewayFails
  <1> DEFINE Kin(q) ==
                 /\ q \in Manager /\ q.start \in {"none", "gateway"}
                 /\ q.procs = m.procs /\ q.info = m.info /\ q.up = m.up /\ q.owner = m.owner
                 /\ q.next = m.next /\ q.awaited = m.awaited /\ q.timers = m.timers
                 /\ q.starts = m.starts /\ q.stop = m.stop
                 /\ q.stopping = m.stopping /\ q.asked = m.asked /\ q.assigned = m.assigned
                 /\ q.waiters = m.waiters
  <1>1. Kin(m')
    <2>1. Kin([m EXCEPT !.leading = TRUE, !.start = "gateway"])
      BY <1>0 DEF Manager
    <2>2. Kin([m EXCEPT !.start = "none"])
      BY <1>0 DEF Manager
    <2> HIDE DEF Kin
    <2> QED BY <2>1, <2>2 DEF Lead, GatewayFails
  <1>2. m' \in Manager /\ x \in {"none", "gateway"}
    BY <1>1
  <1>3. /\ m'.procs = m.procs /\ m'.info = m.info /\ m'.up = m.up /\ m'.owner = m.owner
        /\ m'.next = m.next /\ m'.awaited = m.awaited /\ m'.timers = m.timers
        /\ m'.starts = m.starts /\ m'.stop = m.stop
        /\ m'.stopping = m.stopping /\ m'.asked = m.asked /\ m'.assigned = m.assigned
        /\ m'.waiters = m.waiters
    BY <1>1
  <1> HIDE DEF x
  <1>4. Same(m, m') /\ m'.next \in Clusters /\ m'.awaited \subseteq Pid(m)
        /\ \A t \in m'.timers : t.start = m'.starts
    BY <1>2, <1>3 DEF Good, Refs, Same, x
  <1>5. Phased(m')
    BY <1>0, <1>2, <1>3 DEF Good, Phased, Quiet, Pid, Runs, x
  <1>6. Good(m', m.next, {})
    BY <1>2, <1>4, <1>5, SameKeeps DEF Good
  <1> QED BY <1>0, <1>3, <1>6, OnwardFacts DEF Kept

LEMMA AnswerSteps ==
    ASSUME Sane, Good(m, m.next, {}), Framed,
           \/ \E f \in frames : ReadyArrives(f)
           \/ \E c \in Clusters : TakerStarts(c) \/ TakerConfirms(c) \/ TakerFails(c)
    PROVE  Kept
  <1>0. m \in Manager
    BY DEF Good
  <1>1. ASSUME NEW f \in frames, ReadyArrives(f) PROVE Kept
    <2>1. f.pid \in Pid(m) /\ ~Gone(m, f.pid) /\ m' = OnReady(m, f.pid, f.shards)
      BY Zenon, <1>1 DEF Framed, ReadyArrives
    <2>2. Current(m, f.pid) => m.info[m.procs[f.pid].cluster].state # "stopped"
      BY <1>1 DEF ReadyArrives, Allows, Sane
    <2> QED BY <1>0, <2>1, <2>2, OnReadyKeeps, OnwardFacts DEF Kept
  <1>2. ASSUME NEW c \in Clusters, TakerStarts(c) PROVE Kept
    <2> DEFINE q == [m EXCEPT !.procs[m.assigned[c]].shards = @ \cup m.info[c].shards]
    <2>1. m.assigned[c] # 0 /\ m' = q
      BY <1>2 DEF TakerStarts
    <2>2. /\ Good(q, m.next, {}) /\ q.next = m.next /\ q.starts = m.starts
          /\ Pid(q) = Pid(m) /\ Len(q.procs) = Len(m.procs)
          /\ \A i \in Pid(m) : q.procs[i].state = m.procs[i].state
      BY <2>1, TakesKeeps
    <2> HIDE DEF q
    <2>3. Onward(m, q)
      BY <1>0, <2>2, OnwardFacts DEF Gone
    <2> QED BY <2>1, <2>2, <2>3 DEF Kept
  <1>3. ASSUME NEW c \in Clusters, TakerConfirms(c) PROVE Kept
    <2>1. m.assigned[c] # 0 /\ m.info[c].state = "failed"
      BY <1>3 DEF TakerConfirms, Good, Asked
    <2>2. CASE m.stopping
      <3> DEFINE z == [m.assigned EXCEPT ![c] = 0]
      <3>1. m' = [m EXCEPT !.assigned = z]
        BY <1>0, <1>3, <2>2 DEF TakerConfirms, Manager
      <3>2. m.assigned \in [Clusters -> 0..MaxProcs]
        BY <1>0, Fields
      <3>3. z \in [Clusters -> 0..MaxProcs] /\ \A d \in Clusters : z[d] \in {0, m.assigned[d]}
        BY <3>2, Constants
      <3> HIDE DEF z
      <3>4. m' \in Manager
        BY <1>0, <3>1, <3>3 DEF Manager
      <3>5. /\ m'.procs = m.procs /\ m'.info = m.info /\ m'.up = m.up /\ m'.owner = m.owner
            /\ m'.next = m.next /\ m'.awaited = m.awaited /\ m'.timers = m.timers
            /\ m'.starts = m.starts /\ m'.start = m.start /\ m'.stop = m.stop
            /\ m'.stopping = m.stopping /\ m'.asked = m.asked /\ m'.assigned = z
            /\ m'.waiters = m.waiters
        BY <1>0, <3>1 DEF Manager
      <3> QED BY <3>3, <3>4, <3>5, StandingStep DEF Same
    <2>3. CASE ~m.stopping
      <3> DEFINE q == MoveShards(m, c, m.procs[m.assigned[c]].cluster)  r == CheckReady(q)
      <3>1. m' = r
        BY <1>3, <2>1, <2>3 DEF TakerConfirms
      <3>2. Good(q, m.next, {}) /\ q.procs = m.procs /\ q.next = m.next /\ q.starts = m.starts
        BY <2>1, MoveShardsKeeps
      <3> HIDE DEF q
      <3>3. Good(r, m.next, {}) /\ Same(q, r) /\ r.next = q.next /\ r.starts = q.starts
        BY <3>2, CheckReadyKeeps
      <3> HIDE DEF r
      <3> QED BY <1>0, <3>1, <3>2, <3>3, OnwardFacts DEF Kept, Same
    <2> QED BY <2>2, <2>3
  <1>4. ASSUME NEW c \in Clusters, TakerFails(c) PROVE Kept
    <2>1. m' = AssignFails(m, {c}) /\ m.info[c].state = "failed"
      BY <1>4 DEF TakerFails, Good, Asked
    <2>2. {c} \in SUBSET Clusters /\ \A f \in {c} : m.info[f].state = "failed"
      BY <2>1
    <2> DEFINE q == AssignFails(m, {c})
    <2>3. Good(q, m.next, {}) /\ Same(m, q) /\ q.next = m.next /\ q.starts = m.starts
      BY <2>2, AssignFailsKeeps
    <2> HIDE DEF q
    <2> QED BY <1>0, <2>1, <2>3, OnwardFacts DEF Kept, Same, q
  <1> QED BY <1>1, <1>2, <1>3, <1>4

LEMMA ProcessSteps ==
    ASSUME Good(m, m.next, {}),
           \/ \E n \in Pids : Dies(n) \/ GraceEnds(n)
           \/ \E c \in Clusters : StartTimesOut(c)
           \/ Drains
    PROVE  Kept
  <1>0. m \in Manager
    BY DEF Good
  <1>1. ASSUME Tamed(m, m'), Good(m', m.next, {}) PROVE Kept
    BY <1>0, <1>1, OnwardFacts DEF Kept, Tamed
  <1>2. ASSUME NEW n \in Pids, Dies(n) PROVE Kept
    <2>1. /\ n \in Pid(m) /\ m.procs[n].state = "running"
          /\ m' = [m EXCEPT !.procs[n].state = "dead"]
      BY <1>2 DEF Dies
    <2> QED BY <1>1, <2>1, DiesKeeps
  <1>3. ASSUME NEW n \in Pids, GraceEnds(n) PROVE Kept
    <2>1. n \in Pid(m) /\ m' = [m EXCEPT !.procs[n].told = "kill"]
      BY <1>3 DEF GraceEnds, Good, Refs
    <2> QED BY <1>1, <2>1, ToldKeeps
  <1>4. ASSUME NEW c \in Clusters, StartTimesOut(c) PROVE Kept
    <2> DEFINE q == Signal(m, {c}, "kill")
    <2>1. m' = q
      BY <1>4 DEF StartTimesOut
    <2>2. q \in Manager /\ Tamed(m, q)
      BY <1>0, SignalIs
    <2> HIDE DEF q
    <2>3. Good(q, m.next, {})
      BY <2>2, TamedKeeps
    <2> QED BY <1>1, <2>1, <2>2, <2>3
  <1>5. CASE Drains
    <2> DEFINE q == EndClusters(m)
    <2>1. m.stop = "draining" /\ m' = q
      BY <1>5 DEF Drains
    <2>2. /\ Good(q, m.next, {}) /\ q.next = m.next /\ q.starts = m.starts
          /\ Len(q.procs) = Len(m.procs) /\ Pid(q) = Pid(m)
          /\ \A n \in Pid(m) : Gone(q, n) => Gone(m, n)
      BY <2>1, EndClustersKeeps
    <2> HIDE DEF q
    <2>3. Onward(m, q)
      BY <1>0, <2>2, OnwardFacts
    <2> QED BY <2>1, <2>2, <2>3 DEF Kept
  <1> QED BY <1>2, <1>3, <1>4, <1>5

LEMMA ShutdownEndsStep ==
    ASSUME Good(m, m.next, {}), ShutdownEnds
    PROVE  Kept
  <1> DEFINE q == EndShutdown(m)
  <1>1. m' = q /\ m \in Manager
    BY DEF ShutdownEnds, Good
  <1>2. Good(q, q.next, {}) /\ q.starts = m.starts /\ q.procs = m.procs
    BY EndShutdownKeeps DEF ShutdownEnds
  <1> HIDE DEF q
  <1> QED BY <1>1, <1>2, OnwardFacts DEF Kept

LEMMA RestartsStep ==
    ASSUME Good(m, m.next, {}), NEW t \in m.timers, Restarts(t)
    PROVE  Kept
  <1>1. PICK throws \in BOOLEAN : Forks(throws) /\ m' = RestartFires(m, t, throws)
    BY DEF Restarts
  <1>2. ~throws => Len(m.procs) < MaxProcs
    BY <1>1 DEF Forks, Room
  <1> DEFINE q == RestartFires(m, t, throws)
  <1>3. Good(q, m.next, {}) /\ q.next = m.next /\ q.starts = m.starts /\ Grown(m, q)
    BY <1>2, RestartFiresKeeps
  <1> HIDE DEF q
  <1>4. m \in Manager /\ m' = q
    BY <1>1 DEF Good, q
  <1> QED BY <1>3, <1>4, OnwardFacts DEF Kept

\* A cluster is launched; with the first one the fleet is planned.
LEMMA LaunchSteps ==
    ASSUME Good(m, m.next, {}), TypeOK, Counted, GatewayAnswers \/ SpawnsNext
    PROVE  /\ Good(m', m'.next, {}) /\ Onward(m, m')
           /\ m'.starts <= Len(m'.procs) + faults'
  <1>0. /\ m \in Manager /\ m.starts \in Nat /\ Len(m.procs) \in Nat /\ faults \in 0..MaxFaults
        /\ MaxProcs \in Nat /\ MaxFaults \in Nat /\ Len(m.procs) <= MaxProcs
        /\ m.starts <= Len(m.procs) + faults
    <2>1. m \in Manager /\ Len(m.procs) <= MaxProcs
      BY DEF Good
    <2> QED BY <2>1, Fields, Constants DEF Manager, TypeOK, Counted
  <1>1. ASSUME NEW p, Good(p, p.next, {}), p.start = "launching", p.procs = m.procs,
               NEW throws \in BOOLEAN, Forks(throws), m' = LaunchNext(p, throws)
        PROVE  /\ Good(m', m'.next, {}) /\ m'.starts = p.starts /\ Onward(m, m')
               /\ Len(m'.procs) \in Nat
               /\ Len(m'.procs) + faults' >= Len(m.procs) + faults + 1
    <2> DEFINE q == LaunchNext(p, throws)
    <2>1. ~throws => Len(p.procs) < MaxProcs
      BY <1>1 DEF Forks, Room
    <2>2. /\ Good(q, q.next, {}) /\ q.starts = p.starts /\ Grown(p, q)
          /\ ~throws => Len(q.procs) = Len(p.procs) + 1
      BY <1>1, <2>1, LaunchNextKeeps
    <2>3. m' = q
      BY <1>1
    <2> HIDE DEF q
    <2>4. Grown(m, q)
      BY <1>1, <2>2 DEF Grown, Pid
    <2>5. Len(q.procs) \in Nat
      BY <2>2, Fields DEF Good
    <2>6. throws => faults' = faults + 1
      BY <1>1 DEF Forks, Fault
    <2>7. ~throws => faults' = faults
      BY <1>1 DEF Forks
    <2> QED BY <1>0, <1>1, <2>2, <2>3, <2>4, <2>5, <2>6, <2>7, OnwardFacts DEF Grown
  <1>2. CASE GatewayAnswers
    <2>1. PICK throws \in BOOLEAN : Forks(throws) /\ m' = LaunchNext(PlanFleet(m), throws)
      BY <1>2 DEF GatewayAnswers
    <2>2. m.starts < MaxProcs + MaxFaults
      <3>1. CASE throws
        <4>1. faults < MaxFaults
          BY <2>1, <3>1 DEF Forks, Fault
        <4> QED BY <1>0, <4>1
      <3>2. CASE ~throws
        <4>1. Len(m.procs) < MaxProcs
          BY <2>1, <3>2 DEF Forks, Room
        <4> QED BY <1>0, <4>1
      <3> QED BY <3>1, <3>2
    <2> DEFINE p == PlanFleet(m)
    <2>3. /\ Good(p, 0, {}) /\ p.next = 0 /\ p.starts = m.starts + 1
          /\ p.start = "launching" /\ p.procs = m.procs
      BY <1>2, <2>2, PlanFleetKeeps DEF GatewayAnswers
    <2>4. m' = LaunchNext(p, throws)
      BY <2>1
    <2> HIDE DEF p
    <2>5. /\ Good(m', m'.next, {}) /\ m'.starts = p.starts /\ Onward(m, m')
          /\ Len(m'.procs) \in Nat /\ Len(m'.procs) + faults' >= Len(m.procs) + faults + 1
      BY <1>1, <2>1, <2>3, <2>4
    <2>6. faults' \in Nat
      BY <1>0, <2>1 DEF Forks, Fault
    <2> QED BY <1>0, <2>3, <2>5, <2>6
  <1>3. CASE SpawnsNext
    <2>1. PICK throws \in BOOLEAN : Forks(throws) /\ m' = LaunchNext(m, throws)
      BY <1>3 DEF SpawnsNext
    <2>2. m.start = "launching"
      BY <1>3 DEF SpawnsNext
    <2>3. /\ Good(m', m'.next, {}) /\ m'.starts = m.starts /\ Onward(m, m')
          /\ Len(m'.procs) \in Nat /\ Len(m'.procs) + faults' >= Len(m.procs) + faults + 1
      BY <1>1, <2>1, <2>2
    <2>4. faults' \in Nat
      BY <1>0, <2>1 DEF Forks, Fault
    <2> QED BY <1>0, <2>3, <2>4
  <1> QED BY <1>2, <1>3

\* Only an exit lets a process be gone, and takes its frames along.
LEMMA ExitStep ==
    ASSUME Good(m, m.next, {}), Framed, NEW n \in Pids, Exits(n)
    PROVE  /\ Good(m', m'.next, {}) /\ m'.starts = m.starts /\ Len(m'.procs) = Len(m.procs)
           /\ Framed'
  <1> DEFINE q == OnExit(m, n)
  <1>1. n \in Pid(m) /\ m.procs[n].state = "dead" /\ m' = q /\ frames' = {f \in frames : f.pid # n}
    BY DEF Exits
  <1>2. /\ Good(q, m.next, {}) /\ q.next = m.next /\ q.starts = m.starts
        /\ Len(q.procs) = Len(m.procs) /\ Pid(q) = Pid(m)
        /\ \A i \in Pid(m) : i # n => q.procs[i] = m.procs[i]
    BY <1>1, OnExitKeeps
  <1> HIDE DEF q
  <1>3. \A f \in frames : f.pid # n => f.pid \in Pid(m') /\ ~Gone(m', f.pid)
    BY <1>1, <1>2 DEF Framed, Gone
  <1>4. Framed'
    BY <1>1, <1>3 DEF Framed
  <1> QED BY <1>1, <1>2, <1>4

\* Every other step keeps the manager and its processes going.
LEMMA KeptSteps ==
    ASSUME Sane, Good(m, m.next, {}), Framed,
           \/ CallSpawn \/ CallShutdown \/ CallKill \/ CallRespawn \/ CallReady
           \/ Lead \/ LoseLock \/ GatewayFails
           \/ ScaleAsks \/ ScaleAnswers \/ Drains \/ ShutdownEnds
           \/ \E a \in Asks : CallAsk(a) \/ RequestTimesOut(a)
           \/ \E a \in Asks, n \in Pids : Answers(a, n)
           \/ \E n \in Pids : Dies(n) \/ GraceEnds(n)
           \/ \E f \in frames : ReadyArrives(f)
           \/ \E t \in m.timers : Restarts(t)
           \/ \E c \in Clusters : \/ StartTimesOut(c) \/ Forgives(c)
                                 \/ TakerStarts(c) \/ TakerConfirms(c) \/ TakerFails(c)
    PROVE  Kept
  BY SpawnStep, ShutdownStep, KillStep, RespawnStep, LoseLockStep, SmallSteps, ScaleAnswersStep,
     AskStep, EarlySteps, AnswerSteps, ProcessSteps, ShutdownEndsStep, RestartsStep

\* What a step does to the frames, and to the counters.
LEMMA StepTypes ==
    ASSUME Good(m, m.next, {}), TypeOK, Next
    PROVE  /\ frames' \subseteq [pid: Pids, shards: SUBSET Shards]
           /\ wanted' \in BOOLEAN /\ commands' \in 0..MaxCommands
           /\ faults' \in 0..MaxFaults /\ faults' >= faults
  <1>1. faults \in 0..MaxFaults /\ commands \in 0..MaxCommands /\ wanted \in BOOLEAN
        /\ frames \subseteq [pid: Pids, shards: SUBSET Shards]
        /\ MaxFaults \in Nat /\ MaxCommands \in Nat
    BY Constants DEF TypeOK
  <1>2. Fault => faults' \in 0..MaxFaults /\ faults' >= faults
    BY <1>1 DEF Fault
  <1>3. Command => commands' \in 0..MaxCommands
    BY <1>1 DEF Command
  <1>4. faults' = faults => faults' \in 0..MaxFaults /\ faults' >= faults
    BY <1>1
  <1>5. \A throws \in BOOLEAN : Forks(throws) => faults' \in 0..MaxFaults /\ faults' >= faults
    BY <1>2, <1>4 DEF Forks
  <1>6. ASSUME NEW n \in Pids, WorkerReady(n)
        PROVE  frames' \subseteq [pid: Pids, shards: SUBSET Shards]
    <2>1. n \in Pid(m) /\ frames' = frames \cup {[pid |-> n, shards |-> m.procs[n].shards]}
      BY <1>6 DEF WorkerReady
    <2>2. m.procs[n].shards \in SUBSET Shards
      BY <2>1, Fields DEF Good, Process
    <2> QED BY <1>1, <2>1, <2>2
  <1>7. ASSUME \/ CallSpawn \/ CallShutdown \/ CallKill \/ CallRespawn \/ CallReady
               \/ Lead \/ LoseLock \/ GatewayAnswers \/ GatewayFails \/ SpawnsNext
               \/ ScaleAsks \/ ScaleAnswers \/ Drains \/ ShutdownEnds
        PROVE  /\ frames' = frames /\ wanted' \in BOOLEAN /\ commands' \in 0..MaxCommands
               /\ faults' \in 0..MaxFaults /\ faults' >= faults
    BY Zenon, <1>1, <1>2, <1>3, <1>4, <1>5, <1>7
       DEF CallSpawn, CallShutdown, CallKill, CallRespawn, CallReady, Lead, LoseLock,
           GatewayAnswers, GatewayFails, SpawnsNext, ScaleAsks, ScaleAnswers, Drains, ShutdownEnds
  <1>8. ASSUME \/ \E a \in Asks : CallAsk(a) \/ RequestTimesOut(a)
               \/ \E a \in Asks, n \in Pids : Answers(a, n)
               \/ \E t \in m.timers : Restarts(t)
               \/ \E c \in Clusters : \/ StartTimesOut(c) \/ Forgives(c)
                                     \/ TakerStarts(c) \/ TakerConfirms(c) \/ TakerFails(c)
        PROVE  /\ frames' = frames /\ wanted' = wanted /\ commands' \in 0..MaxCommands
               /\ faults' \in 0..MaxFaults /\ faults' >= faults
    BY <1>1, <1>2, <1>3, <1>4, <1>5, <1>8
       DEF CallAsk, RequestTimesOut, Answers, Restarts, StartTimesOut, Forgives, TakerStarts,
           TakerConfirms, TakerFails
  <1>9. ASSUME \/ \E n \in Pids : WorkerReady(n) \/ Dies(n) \/ Exits(n) \/ GraceEnds(n)
               \/ \E f \in frames : ReadyArrives(f)
        PROVE  /\ frames' \subseteq [pid: Pids, shards: SUBSET Shards]
               /\ wanted' = wanted /\ commands' = commands
               /\ faults' \in 0..MaxFaults /\ faults' >= faults
    BY <1>1, <1>2, <1>4, <1>6, <1>9 DEF WorkerReady, Dies, Exits, GraceEnds, ReadyArrives
  <1> QED BY <1>1, <1>7, <1>8, <1>9 DEF Next

LEMMA InitHolds == Init => IInv
  <1> SUFFICES ASSUME Init PROVE IInv
    OBVIOUS
  <1> DEFINE z == [c \in Clusters |-> Unknown]  w == [s \in Shards |-> NoCluster]
             y == [c \in Clusters |-> 0]  x == [a \in Asks |-> {}]
  <1>1. /\ z \in [Clusters -> Info] /\ w \in [Shards -> Clusters \cup {NoCluster}]
        /\ y \in [Clusters -> 0..MaxProcs] /\ y \in [Clusters -> 0..MaxRestarts]
        /\ x \in [Asks -> SUBSET Pids]
    BY Constants DEF Unknown, Info, States
  <1>2. \A c \in Clusters : z[c] = Unknown /\ y[c] = 0
    OBVIOUS
  <1>3. (\A s \in Shards : w[s] = NoCluster) /\ \A a \in Asks : x[a] = {}
    OBVIOUS
  <1>4. << >> \in Seq(Process) /\ Len(<< >>) = 0 /\ DOMAIN << >> = {}
    BY EmptySeq, LenProperties
  <1> HIDE DEF z, w, x, y
  <1>5. m = [start |-> "none", next |-> 0, starts |-> 0, stopping |-> FALSE,
             stop |-> "none", resigns |-> FALSE, awaited |-> {}, queued |-> FALSE,
             leading |-> FALSE, scaling |-> FALSE, info |-> z, owner |-> w,
             up |-> {}, timers |-> {}, crashes |-> y,
             waiters |-> {}, allReady |-> FALSE, asked |-> x, assigned |-> y, procs |-> <<>>]
    BY DEF Init, x, y, z, w
  <1>6. m \in Manager
    <2>1. 0 \in 0..LastCluster + 1 /\ 0 \in 0..MaxProcs + MaxFaults
      BY Constants
    <2> QED BY <1>1, <1>4, <1>5, <2>1 DEF Manager
  <1>7. Pid(m) = {} /\ Len(m.procs) = 0
    BY <1>4, <1>5 DEF Pid
  <1>8. /\ \A c \in Clusters : m.info[c] = Unknown /\ m.info[c].state = "unknown"
                                /\ m.info[c].pid = 0 /\ m.info[c].shards = {}
        /\ m.next = 0 /\ m.awaited = {} /\ m.timers = {} /\ m.up = {}
        /\ m.start = "none" /\ m.stop = "none" /\ m.waiters = {} /\ ~m.stopping
    <2>1. Unknown.state = "unknown" /\ Unknown.pid = 0 /\ Unknown.shards = {}
      BY DEF Unknown
    <2> QED BY <1>2, <1>5, <2>1
  <1>15. Refs(m)
    <2>1. 0 \in Clusters
      BY Constants DEF Clusters
    <2> QED BY <1>7, <1>8, <2>1 DEF Refs
  <1>16. Alive(m, {}) /\ Held(m) /\ Apart(m)
    BY <1>7, <1>8 DEF Alive, Held, Apart, Up
  <1>9. Quiet(m)
    BY <1>7, <1>8 DEF Quiet
  <1>17. Phased(m)
    BY <1>8, <1>9 DEF Phased
  <1>10. Owned(m, m.next)
    BY <1>2, <1>3, <1>5, Constants DEF Owned, Unknown
  <1>11. Asked(m, {})
    BY <1>2, <1>3, <1>5 DEF Asked
  <1>12. Good(m, m.next, {})
    BY <1>6, <1>7, <1>15, <1>16, <1>17, <1>10, <1>11, Constants DEF Good
  <1>13. Framed /\ Counted
    BY <1>5, <1>7 DEF Init, Framed, Counted
  <1>14. TypeOK
    <2>1. 0 \in 0..MaxFaults /\ 0 \in 0..MaxCommands /\ 0 <= MaxProcs
      BY Constants
    <2>2. frames = {} /\ wanted = FALSE /\ faults = 0 /\ commands = 0
      BY DEF Init
    <2> QED BY <1>6, <1>7, <2>1, <2>2 DEF TypeOK
  <1> QED BY <1>12, <1>13, <1>14 DEF IInv

LEMMA StepHolds ==
    ASSUME Sane, IInv, [Next]_vars
    PROVE  IInv'
  <1>0. Good(m, m.next, {}) /\ Framed /\ Counted /\ TypeOK
    BY DEF IInv
  <1>1. CASE UNCHANGED vars
    <2>1. m' = m /\ frames' = frames /\ wanted' = wanted /\ faults' = faults
          /\ commands' = commands
      BY <1>1 DEF vars
    <2>2. Good(m', m'.next, {})
      BY <1>0, <2>1
    <2>3. Framed' /\ Counted'
      BY <1>0, <2>1 DEF Framed, Counted
    <2>4. TypeOK'
      BY <1>0, <2>1 DEF TypeOK
    <2> QED BY <2>2, <2>3, <2>4 DEF IInv
  <1>2. ASSUME Good(m', m'.next, {}), Framed', Counted', Next PROVE IInv'
    BY <1>0, <1>2, StepTypes DEF IInv, Good, TypeOK
  <1>3. Next => faults' \in Nat /\ faults \in Nat /\ faults' >= faults
    <2>1. faults \in 0..MaxFaults /\ MaxFaults \in Nat
      BY <1>0, Constants DEF TypeOK
    <2>2. Next => faults' \in 0..MaxFaults /\ faults' >= faults
      BY <1>0, StepTypes
    <2> QED BY <2>1, <2>2
  <1>4. m \in Manager /\ Len(m.procs) \in Nat /\ m.starts \in Nat
    BY <1>0, Fields DEF Good, Manager
  <1>5. ASSUME Onward(m, m'), frames' \subseteq frames PROVE Framed'
    BY <1>0, <1>5 DEF Framed, Onward
  <1>6. ASSUME Kept, Next, frames' \subseteq frames PROVE IInv'
    <2>1. Len(m'.procs) \in Nat
      BY <1>6, Fields DEF Kept, Good
    <2>2. Counted'
      BY <1>0, <1>3, <1>4, <1>6, <2>1 DEF Kept, Onward, Counted
    <2> QED BY <1>2, <1>5, <1>6, <2>2 DEF Kept
  <1>7. ASSUME NEW n \in Pids, WorkerReady(n) PROVE IInv'
    <2>1. n \in Pid(m) /\ ~Gone(m, n) /\ m' = m /\ faults' = faults
          /\ frames' = frames \cup {[pid |-> n, shards |-> m.procs[n].shards]}
      BY <1>7 DEF WorkerReady, Gone
    <2>2. Framed'
      BY <1>0, <2>1 DEF Framed
    <2>3. Good(m', m'.next, {}) /\ Counted'
      BY <1>0, <2>1 DEF Counted
    <2> QED BY <1>2, <1>7, <2>2, <2>3 DEF Next
  <1>8. ASSUME NEW n \in Pids, Exits(n) PROVE IInv'
    <2>1. /\ Good(m', m'.next, {}) /\ m'.starts = m.starts /\ Len(m'.procs) = Len(m.procs)
          /\ Framed'
      BY <1>0, <1>8, ExitStep
    <2>2. Next
      BY <1>8 DEF Next
    <2>3. Counted'
      BY <1>0, <1>3, <1>4, <2>1, <2>2 DEF Counted
    <2> QED BY <1>2, <2>1, <2>2, <2>3
  <1>9. CASE GatewayAnswers \/ SpawnsNext
    <2>1. Next /\ frames' = frames
      BY <1>9 DEF Next, GatewayAnswers, SpawnsNext
    <2>2. Good(m', m'.next, {}) /\ Onward(m, m') /\ Counted'
      BY <1>0, <1>9, LaunchSteps DEF Counted
    <2> QED BY <1>2, <1>5, <2>1, <2>2
  <1>10. ASSUME \/ CallSpawn \/ CallShutdown \/ CallKill \/ CallRespawn \/ CallReady
                \/ Lead \/ LoseLock \/ GatewayFails
                \/ ScaleAsks \/ ScaleAnswers \/ Drains \/ ShutdownEnds
                \/ \E a \in Asks : CallAsk(a) \/ RequestTimesOut(a)
                \/ \E a \in Asks, n \in Pids : Answers(a, n)
                \/ \E n \in Pids : Dies(n) \/ GraceEnds(n)
                \/ \E f \in frames : ReadyArrives(f)
                \/ \E t \in m.timers : Restarts(t)
                \/ \E c \in Clusters : \/ StartTimesOut(c) \/ Forgives(c)
                                      \/ TakerStarts(c) \/ TakerConfirms(c) \/ TakerFails(c)
         PROVE  IInv'
    <2>1. Kept
      BY <1>0, <1>10, KeptSteps
    <2>2. Next
      BY Zenon, <1>10 DEF Next
    <2>3. frames' \subseteq frames
      BY <1>10
         DEF CallSpawn, CallShutdown, CallKill, CallRespawn, CallReady, Lead, LoseLock,
             GatewayFails, ScaleAsks, ScaleAnswers, Drains, ShutdownEnds,
             CallAsk, RequestTimesOut, Answers, Restarts, StartTimesOut, Forgives, TakerStarts,
             TakerConfirms, TakerFails, Dies, GraceEnds, ReadyArrives
    <2> QED BY <1>6, <2>1, <2>2, <2>3
  <1>11. CASE Next
    BY <1>7, <1>8, <1>9, <1>10, <1>11 DEF Next
  <1> QED BY <1>1, <1>11

-----------------------------------------------------------------------------
(* The theorems.                                                           *)

\* The inductive invariant holds throughout.
THEOREM Invariant ==
    ASSUME Sane
    PROVE  Spec => []IInv
  <1>1. Init => IInv
    BY InitHolds
  <1>2. IInv /\ [Next]_vars => IInv'
    BY StepHolds
  <1> QED BY <1>1, <1>2, PTL DEF Spec

\* The state of the manager is always well typed, and its counters within their bounds.
THEOREM TypesHold ==
    ASSUME Sane
    PROVE  Spec => []TypeOK
  <1>1. IInv => TypeOK
    BY DEF IInv
  <1> QED BY <1>1, Invariant, PTL

\* No shard runs in two processes that nobody has told to end.
THEOREM OneProcessHolds ==
    ASSUME Sane
    PROVE  Spec => []OneProcess
  <1>1. IInv => OneProcess
    BY DEF IInv, Good, Apart, OneProcess, Runs
  <1> QED BY <1>1, Invariant, PTL

\* The list of the shards of each cluster and the map of their owners agree.
THEOREM OwnersAgreeHolds ==
    ASSUME Sane
    PROVE  Spec => []OwnersAgree
  <1>1. IInv => OwnersAgree
    BY DEF IInv, Good, Owned, OwnersAgree
  <1> QED BY <1>1, Invariant, PTL

\* Whoever is asked, for shards or for anything else, can still answer.
THEOREM AskedCanAnswerHolds ==
    ASSUME Sane
    PROVE  Spec => []AskedCanAnswer
  <1>1. IInv => AskedCanAnswer
    BY DEF IInv, Good, Asked, CanAnswer, AskedCanAnswer, Gone
  <1> QED BY <1>1, Invariant, PTL

-----------------------------------------------------------------------------
(* What the steps do to who waits, to the timers and to requests.          *)

\* What the exits of processes leave as it was: whoever waits may be told.
Steady(p, q) ==
    /\ q.owner = p.owner /\ q.starts = p.starts /\ q.stop = p.stop /\ q.next = p.next
    /\ q.stopping = p.stopping /\ q.leading = p.leading /\ q.queued = p.queued
    /\ q.resigns = p.resigns
    /\ q.start = p.start \/ (p.start = "waiting" /\ q.start = "none")
    /\ q.allReady => p.allReady
    /\ q.waiters \subseteq p.waiters

\* Requests are settled.
Eased(p, q) ==
    /\ Steady(p, q) /\ q.info = p.info /\ q.timers = p.timers /\ Len(q.procs) = Len(p.procs)
    /\ \A c \in Clusters : q.assigned[c] \in {0, p.assigned[c]}
    /\ \A c \in Clusters : Hopeless(q, c) => Hopeless(p, c) \/ q.waiters = {}

\* Cluster c comes to one of the states X.
Turned(p, q, c, X) ==
    /\ Steady(p, q) /\ p.timers \subseteq q.timers
    /\ \A d \in Clusters \ {c} : q.info[d] = p.info[d] /\ q.assigned[d] = p.assigned[d]
    /\ q.info[c].state \in X /\ q.info[c].pid \in {p.info[c].pid, 0, Len(p.procs) + 1}
    /\ q.info[c].state = "restarting" => \E t \in q.timers : t.cluster = c
    /\ Hopeless(q, c) => q.waiters = {}
    /\ (\A d \in Clusters \ {c} : p.info[d].state # "ready") => q.assigned[c] = p.assigned[c]

\* Somebody who started the fleet waits only while the start does.
Awaited(p) == "spawn" \in p.waiters => p.start = "waiting"

LEMMA RejectReadyEases ==
    ASSUME NEW p \in Manager, Awaited(p), NEW c
    PROVE  LET q == RejectReady(p, c) IN
           /\ Eased(p, q) /\ Awaited(q) /\ q \in Manager
           /\ q.assigned = p.assigned /\ q.allReady = p.allReady
           /\ p.info[c].shards # {} => q.waiters = {}
  <1> DEFINE q == RejectReady(p, c)
  <1>1. CASE p.info[c].shards = {}
    <2>1. q = p
      BY <1>1 DEF RejectReady
    <2> QED BY <1>1, <2>1 DEF Eased, Steady
  <1>2. CASE p.info[c].shards # {}
    <2> DEFINE x == IF "spawn" \in p.waiters THEN "none" ELSE p.start
    <2>1. q = [p EXCEPT !.waiters = {}, !.start = x]
      BY <1>2 DEF RejectReady, Manager
    <2>2. x = p.start \/ (p.start = "waiting" /\ x = "none")
      BY DEF Awaited
    <2> HIDE DEF x, q
    <2>3. /\ q.info = p.info /\ q.timers = p.timers /\ q.owner = p.owner /\ q.starts = p.starts
          /\ q.stop = p.stop /\ q.next = p.next /\ q.stopping = p.stopping
          /\ q.leading = p.leading /\ q.queued = p.queued /\ q.resigns = p.resigns
          /\ q.procs = p.procs /\ q.start = x /\ q.allReady = p.allReady /\ q.waiters = {} /\ q.assigned = p.assigned
      BY <2>1 DEF Manager
    <2>4. q \in Manager
      BY <2>1, <2>2 DEF Manager
    <2>5. Eased(p, q)
      BY <2>2, <2>3 DEF Eased, Steady
    <2> QED BY <2>3, <2>4, <2>5 DEF Awaited, q
  <1> QED BY <1>1, <1>2

LEMMA AssignFailsEases ==
    ASSUME NEW p \in Manager, Awaited(p), NEW failed \in SUBSET Clusters
    PROVE  LET q == AssignFails(p, failed) IN Eased(p, q) /\ Awaited(q) /\ q \in Manager
  <1> DEFINE q == AssignFails(p, failed)
             reported == {f \in failed : p.info[f].shards # {}}
             z == [f \in Clusters |-> IF f \in failed THEN 0 ELSE p.assigned[f]]
             h == [p EXCEPT !.assigned = z]
  <1>1. q = IF reported = {} THEN h ELSE RejectReady(h, CHOOSE f \in reported : TRUE)
    BY DEF AssignFails, Manager
  <1>2. /\ z \in [Clusters -> 0..MaxProcs]
        /\ \A f \in Clusters : z[f] = IF f \in failed THEN 0 ELSE p.assigned[f]
    BY Constants, Fields
  <1> HIDE DEF z
  <1>3. h \in Manager
    BY <1>2 DEF Manager
  <1>4. /\ h.info = p.info /\ h.timers = p.timers /\ h.owner = p.owner /\ h.starts = p.starts
        /\ h.stop = p.stop /\ h.next = p.next /\ h.stopping = p.stopping
        /\ h.leading = p.leading /\ h.queued = p.queued /\ h.resigns = p.resigns
        /\ h.procs = p.procs /\ h.start = p.start /\ h.allReady = p.allReady /\ h.waiters = p.waiters
        /\ h.assigned = z
    BY DEF Manager
  <1> HIDE DEF h, q
  <1>5. \A c \in Clusters : z[c] \in {0, p.assigned[c]}
    BY <1>2
  <1>6. CASE reported = {}
    <2>1. q = h
      BY <1>1, <1>6
    <2>2. \A c \in Clusters : Hopeless(h, c) => Hopeless(p, c)
      BY <1>2, <1>4, <1>6 DEF Hopeless
    <2> QED BY <1>3, <1>4, <1>5, <2>1, <2>2 DEF Eased, Steady, Awaited, q
  <1>7. CASE reported # {}
    <2>1. PICK f \in reported : q = RejectReady(h, f)
      BY <1>1, <1>7
    <2>2. Awaited(h) /\ h.info[f].shards # {}
      BY <1>4, <2>1 DEF Awaited
    <2>3. Eased(h, q) /\ Awaited(q) /\ q \in Manager /\ q.waiters = {} /\ q.assigned = h.assigned
      BY <1>3, <2>1, <2>2, RejectReadyEases
    <2>4. Eased(p, q)
      BY <1>4, <1>5, <2>3 DEF Eased, Steady
    <2> QED BY <2>3, <2>4 DEF q
  <1> QED BY <1>6, <1>7

LEMMA FailOwnerEases ==
    ASSUME NEW p \in Manager, Awaited(p), NEW c \in Clusters
    PROVE  LET q == FailOwner(p, c) IN Eased(p, q) /\ Awaited(q) /\ q \in Manager
  <1> DEFINE z == [a \in Asks |-> p.asked[a] \ PidsOf(p, c)]
             h == [p EXCEPT !.asked = z]
             failed == AwaitAssign(p, c)
             q == AssignFails(h, failed)
  <1>1. FailOwner(p, c) = q
    BY DEF FailOwner, Manager
  <1>2. z \in [Asks -> SUBSET Pids] /\ failed \in SUBSET Clusters
    BY Fields DEF AwaitAssign
  <1> HIDE DEF z, failed
  <1>3. h \in Manager
    BY <1>2 DEF Manager
  <1>4. /\ h.info = p.info /\ h.timers = p.timers /\ h.owner = p.owner /\ h.starts = p.starts
        /\ h.stop = p.stop /\ h.next = p.next /\ h.stopping = p.stopping
        /\ h.leading = p.leading /\ h.queued = p.queued /\ h.resigns = p.resigns
        /\ h.procs = p.procs /\ h.start = p.start /\ h.allReady = p.allReady /\ h.waiters = p.waiters
        /\ h.assigned = p.assigned
    BY DEF Manager
  <1> HIDE DEF h
  <1>5. Eased(h, q) /\ Awaited(q) /\ q \in Manager
    BY <1>2, <1>3, <1>4, AssignFailsEases DEF Awaited
  <1> HIDE DEF q
  <1>6. Eased(p, q)
    BY <1>4, <1>5 DEF Eased, Steady, Hopeless
  <1> QED BY <1>1, <1>5, <1>6

LEMMA ReassignEases ==
    ASSUME NEW p \in Manager, Awaited(p), NEW c \in Clusters, p.info[c].state = "failed"
    PROVE  LET q == Reassign(p, c) IN
           /\ q \in Manager /\ Steady(p, q) /\ q.info = p.info /\ q.timers = p.timers
           /\ \A d \in Clusters \ {c} : q.assigned[d] = p.assigned[d]
           /\ Hopeless(q, c) => q.waiters = {}
           /\ (\A d \in Clusters \ {c} : p.info[d].state # "ready") => q.assigned[c] = p.assigned[c]
  <1> DEFINE q == Reassign(p, c)
  <1>1. CASE Takers(p) = {} \/ ~Reaches(p, Taker(p))
    <2>1. q = RejectReady(p, c)
      BY <1>1 DEF Reassign
    <2>2. q \in Manager /\ Eased(p, q) /\ q.assigned = p.assigned /\ (p.info[c].shards # {} => q.waiters = {})
      BY <2>1, RejectReadyEases
    <2> HIDE DEF q
    <2> QED BY <2>2 DEF Eased, Hopeless, q
  <1>2. CASE ~(Takers(p) = {} \/ ~Reaches(p, Taker(p)))
    <2> DEFINE n == p.info[Taker(p)].pid  z == [p.assigned EXCEPT ![c] = n]
    <2>1. q = [p EXCEPT !.assigned = z]
      BY <1>2 DEF Reassign, Manager
    <2>2. n # 0 /\ \E d \in Clusters \ {c} : p.info[d].state = "ready"
      BY <1>2 DEF Reaches, Takers
    <2>3. \A f \in Clusters : z[f] = IF f = c THEN n ELSE p.assigned[f]
      BY Fields
    <2>5. n \in 0..MaxProcs
      BY <1>2, TakerIsReady, Fields DEF Takers, Info
    <2> HIDE DEF n
    <2>6. z \in [Clusters -> 0..MaxProcs]
      BY <2>5, Fields
    <2> HIDE DEF z, q
    <2>7. q \in Manager
      BY <2>1, <2>6 DEF Manager
    <2>4. /\ q.info = p.info /\ q.timers = p.timers /\ q.owner = p.owner /\ q.starts = p.starts
          /\ q.stop = p.stop /\ q.next = p.next /\ q.stopping = p.stopping
          /\ q.leading = p.leading /\ q.queued = p.queued /\ q.resigns = p.resigns
          /\ q.start = p.start /\ q.allReady = p.allReady /\ q.waiters = p.waiters
          /\ q.assigned = z
      BY <2>1 DEF Manager
    <2> QED BY <2>2, <2>3, <2>4, <2>7 DEF Steady, Hopeless, q
  <1> QED BY <1>1, <1>2

LEMMA RecoverTurns ==
    ASSUME NEW p \in Manager, Awaited(p), NEW c \in Clusters
    PROVE  Turned(p, Recover(p, c), c, {"failed", "restarting"}) /\ Recover(p, c) \in Manager
  <1> DEFINE q == Recover(p, c)
  <1>0. /\ p.crashes \in [Clusters -> 0..MaxRestarts] /\ p.info \in [Clusters -> Info]
        /\ p.timers \in SUBSET Timer
    BY Fields
  <1>1. CASE p.crashes[c] >= MaxRestarts
    <2> DEFINE y == [p.crashes EXCEPT ![c] = 0]  z == [p.info EXCEPT ![c].state = "failed"]
               h == [p EXCEPT !.crashes = y, !.info = z]
    <2>1. q = IF Reassigns THEN Reassign(h, c) ELSE RejectReady(h, c)
      BY <1>0, <1>1 DEF Recover, Manager
    <2>2. y \in [Clusters -> 0..MaxRestarts] /\ z \in [Clusters -> Info]
      BY <1>0, Constants DEF Info, States
    <2>3. /\ z[c].state = "failed" /\ z[c].pid = p.info[c].pid
          /\ \A d \in Clusters \ {c} : z[d] = p.info[d]
      BY <1>0 DEF Info
    <2> HIDE DEF y, q, z
    <2>4. h \in Manager
      BY <2>2 DEF Manager
    <2>5. /\ h.info = z /\ h.timers = p.timers /\ h.owner = p.owner /\ h.starts = p.starts
          /\ h.stop = p.stop /\ h.next = p.next /\ h.stopping = p.stopping
          /\ h.leading = p.leading /\ h.queued = p.queued /\ h.resigns = p.resigns
          /\ h.start = p.start /\ h.allReady = p.allReady /\ h.waiters = p.waiters
          /\ h.assigned = p.assigned
      BY DEF Manager
    <2> HIDE DEF h
    <2>6. Awaited(h) /\ h.info[c].state = "failed"
      BY <2>3, <2>5 DEF Awaited
    <2>7. LET r == RejectReady(h, c) IN
           /\ r \in Manager /\ Eased(h, r) /\ r.assigned = h.assigned
           /\ h.info[c].shards # {} => r.waiters = {}
      BY <2>4, <2>6, RejectReadyEases
    <2>8. LET r == Reassign(h, c) IN
           /\ r \in Manager /\ Steady(h, r) /\ r.info = h.info /\ r.timers = h.timers
           /\ \A d \in Clusters \ {c} : r.assigned[d] = h.assigned[d]
           /\ Hopeless(r, c) => r.waiters = {}
           /\ (\A d \in Clusters \ {c} : h.info[d].state # "ready") => r.assigned[c] = h.assigned[c]
      BY <2>4, <2>6, ReassignEases
    <2>9. /\ q \in Manager /\ Steady(h, q) /\ q.info = h.info /\ q.timers = h.timers
          /\ \A d \in Clusters \ {c} : q.assigned[d] = h.assigned[d]
          /\ Hopeless(q, c) => q.waiters = {}
          /\ (\A d \in Clusters \ {c} : h.info[d].state # "ready") => q.assigned[c] = h.assigned[c]
      <3>1. CASE Reassigns
        BY <2>1, <2>8, <3>1
      <3>2. CASE ~Reassigns
        BY <2>1, <2>7, <3>2 DEF Eased, Hopeless
      <3> QED BY <3>1, <3>2
    <2>10. Steady(p, q)
      BY <2>5, <2>9 DEF Steady
    <2> QED BY <2>3, <2>5, <2>9, <2>10 DEF Turned, q
  <1>2. CASE ~(p.crashes[c] >= MaxRestarts)
    <2> DEFINE y == [p.crashes EXCEPT ![c] = @ + 1]  z == [p.info EXCEPT ![c].state = "restarting"]
               t == [cluster |-> c, start |-> p.starts]
               w == p.timers \cup {t}
    <2>1. q = [p EXCEPT !.crashes = y, !.info = z, !.timers = w]
      BY <1>0, <1>2 DEF Recover, Manager
    <2>2. /\ z[c].state = "restarting" /\ z[c].pid = p.info[c].pid
          /\ \A d \in Clusters \ {c} : z[d] = p.info[d]
      BY <1>0 DEF Info
    <2>3. t \in w /\ t.cluster = c /\ p.timers \subseteq w
      OBVIOUS
    <2>5. /\ y \in [Clusters -> 0..MaxRestarts] /\ z \in [Clusters -> Info] /\ w \in SUBSET Timer
      <3>1. p.crashes[c] + 1 \in 0..MaxRestarts
        BY <1>0, <1>2, Constants
      <3>2. y \in [Clusters -> 0..MaxRestarts]
        BY <1>0, <3>1
      <3>3. z \in [Clusters -> Info]
        BY <1>0 DEF Info, States
      <3>4. t \in Timer
        BY DEF Timer, Manager
      <3>5. w \in SUBSET Timer
        BY <1>0, <3>4
      <3> QED BY <3>2, <3>3, <3>5
    <2> HIDE DEF y, z, t, w, q
    <2>4. /\ q.info = z /\ q.timers = w /\ q.owner = p.owner /\ q.starts = p.starts
          /\ q.stop = p.stop /\ q.next = p.next /\ q.stopping = p.stopping
          /\ q.leading = p.leading /\ q.queued = p.queued /\ q.resigns = p.resigns
          /\ q.start = p.start /\ q.allReady = p.allReady /\ q.waiters = p.waiters
          /\ q.assigned = p.assigned
      BY <2>1 DEF Manager
    <2>6. q \in Manager
      BY <2>1, <2>5 DEF Manager
    <2> QED BY <2>2, <2>3, <2>4, <2>6 DEF Turned, Steady, Hopeless, q
  <1> QED BY <1>1, <1>2

LEMMA LaunchTurns ==
    ASSUME NEW p \in Manager, Awaited(p), NEW c \in Clusters, NEW S \in SUBSET Shards,
           NEW throws \in BOOLEAN, ~throws => Len(p.procs) < MaxProcs
    PROVE  LET q == LaunchOrRecover(p, c, S, throws) IN
           Turned(p, q, c, {"starting", "failed", "restarting"}) /\ ~q.allReady /\ q \in Manager
  <1> DEFINE q == LaunchOrRecover(p, c, S, throws)
  <1>0. p.info \in [Clusters -> Info] /\ p.up \in SUBSET Clusters
    BY Fields
  <1>1. CASE ~throws
    <2> DEFINE y == [state |-> "starting", pid |-> Len(p.procs) + 1, shards |-> S]
               z == [p.info EXCEPT ![c] = y]
               x == Append(p.procs, [cluster |-> c, shards |-> S, told |-> "run",
                                     state |-> "running"])
               u == p.up \cup {c}
    <2>4. u \in SUBSET Clusters /\ x \in Seq(Process) /\ z \in [Clusters -> Info]
      <3>1. Len(p.procs) + 1 \in 0..MaxProcs
        BY <1>1, Fields, Constants
      <3>2. y \in Info
        BY <3>1 DEF Info, States
      <3> DEFINE e == [cluster |-> c, shards |-> S, told |-> "run", state |-> "running"]
      <3>3. e \in Process
        BY DEF Process
      <3> HIDE DEF y, e
      <3>4. Append(p.procs, e) \in Seq(Process)
        BY <3>3, Fields, AppendProperties
      <3> QED BY <1>0, <3>2, <3>4 DEF e
    <2>1. q = [p EXCEPT !.procs = x, !.info = z, !.up = u, !.allReady = FALSE]
      BY <1>1 DEF LaunchOrRecover, Fork, Manager
    <2>2. /\ z[c].state = "starting" /\ z[c].pid = Len(p.procs) + 1
          /\ \A d \in Clusters \ {c} : z[d] = p.info[d]
      BY <1>0
    <2> HIDE DEF x, y, z, u, q
    <2>3. /\ q.info = z /\ q.timers = p.timers /\ q.owner = p.owner /\ q.starts = p.starts
          /\ q.stop = p.stop /\ q.next = p.next /\ q.stopping = p.stopping
          /\ q.leading = p.leading /\ q.queued = p.queued /\ q.resigns = p.resigns
          /\ q.start = p.start /\ q.allReady = FALSE /\ q.waiters = p.waiters
          /\ q.assigned = p.assigned
      BY <2>1 DEF Manager
    <2>5. q \in Manager
      BY <2>1, <2>4 DEF Manager
    <2> QED BY <2>2, <2>3, <2>5 DEF Turned, Steady, Hopeless, q
  <1>2. CASE throws
    <2> DEFINE s == IF p.info[c].state = "unknown" THEN "starting" ELSE p.info[c].state
               y == [state |-> s, pid |-> 0, shards |-> S]
               z == [p.info EXCEPT ![c] = y]
               u == p.up \ {c}
               h == [p EXCEPT !.info = z, !.up = u, !.allReady = FALSE]
    <2>1. q = Recover(h, c)
      BY <1>2 DEF LaunchOrRecover, Manager
    <2>2. z \in [Clusters -> Info] /\ u \in SUBSET Clusters
      BY <1>0, Constants DEF Info, States
    <2>3. /\ z[c].pid = 0 /\ \A d \in Clusters \ {c} : z[d] = p.info[d]
      BY <1>0
    <2> HIDE DEF s, y, z, u, q
    <2>4. h \in Manager
      BY <2>2 DEF Manager
    <2>5. /\ h.info = z /\ h.timers = p.timers /\ h.owner = p.owner /\ h.starts = p.starts
          /\ h.stop = p.stop /\ h.next = p.next /\ h.stopping = p.stopping
          /\ h.leading = p.leading /\ h.queued = p.queued /\ h.resigns = p.resigns
          /\ h.start = p.start /\ h.allReady = FALSE /\ h.waiters = p.waiters
          /\ h.assigned = p.assigned /\ h.procs = p.procs
      BY DEF Manager
    <2> HIDE DEF h
    <2>6. Awaited(h)
      BY <2>5 DEF Awaited
    <2>7. Turned(h, q, c, {"failed", "restarting"}) /\ q \in Manager
      BY <2>1, <2>4, <2>6, RecoverTurns
    <2>8. ~q.allReady
      BY <2>5, <2>7 DEF Turned, Steady
    <2>9. Steady(p, q)
      BY <2>5, <2>7, <2>8 DEF Turned, Steady
    <2> QED BY <2>3, <2>5, <2>7, <2>8, <2>9 DEF Turned, Steady, q
  <1> QED BY <1>1, <1>2

-----------------------------------------------------------------------------
(* The second invariant: who waits, and what is still to come.             *)

Every(p) == \A s \in Shards : p.owner[s] # NoCluster

\* A cluster that is to be restarted has its timer; that of S has just fired.
Timed(p, S) ==
    p.stop = "none" => \A c \in Clusters \ S :
        p.info[c].state = "restarting" => \E t \in p.timers : t.cluster = c

\* Nobody is asked to take shards during a stop.
Unasked(p) == p.stop # "none" => \A c \in Clusters : p.assigned[c] = 0

\* A stop that no start waits for gives the lock back, if it is held.
Resigning(p) == p.stop # "none" /\ ~p.queued => p.resigns \/ ~p.leading

\* Nobody waits for a cluster that failed for good.
Hopeful(p) == p.waiters # {} => \A c \in Clusters : ~Hopeless(p, c)

\* The shards of the clusters that were launched have owners, and none is ready
\* before all are launched.
Placed(p, k) ==
    /\ p.start = "launching" =>
           /\ \A s \in Shards : Plan[s] < k => p.owner[s] # NoCluster
           /\ \A c \in Clusters : p.info[c].state # "ready" /\ p.assigned[c] = 0
    /\ \/ p.start \in {"waiting", "done"}
       \/ p.start = "none" /\ p.stop = "none" /\ \E c \in Clusters : p.info[c].state = "failed"
       => Every(p)
Unheard(p, F) ==
    p.start = "launching" => \A f \in F, c \in Clusters : p.info[c].pid # f.pid

Fine(p, k, S, F) ==
    /\ Timed(p, S) /\ Unasked(p) /\ Resigning(p)
    /\ ~Allows("late") => Hopeful(p)
    /\ ~Allows("gap") => Placed(p, k) /\ Unheard(p, F)

\* Requests that are settled change nothing.
LEMMA EasedKeeps ==
    ASSUME NEW p, NEW k, NEW S, NEW F, Fine(p, k, S, F), NEW q, Eased(p, q),
           NEW G \in SUBSET F
    PROVE  Fine(q, k, S, G)
  <1>1. Timed(q, S)
    BY DEF Fine, Eased, Steady, Timed
  <1>2. Unasked(q)
    BY DEF Fine, Eased, Steady, Unasked
  <1>3. Resigning(q)
    BY DEF Fine, Eased, Steady, Resigning
  <1>4. ~Allows("late") => Hopeful(q)
    BY DEF Fine, Eased, Steady, Hopeful
  <1>5. ~Allows("gap") => Placed(q, k)
    BY DEF Fine, Eased, Steady, Placed, Every
  <1>6. ~Allows("gap") => Unheard(q, G)
    BY DEF Fine, Eased, Steady, Unheard
  <1> QED BY <1>1, <1>2, <1>3, <1>4, <1>5, <1>6 DEF Fine

\* A cluster that fails, starts or is to be restarted does not, either.
LEMMA TurnedKeeps ==
    ASSUME NEW p \in Manager, NEW k, NEW c \in Clusters, NEW F, Fine(p, k, {c}, F), NEW q,
           NEW X \in SUBSET {"starting", "failed", "restarting"}, Turned(p, q, c, X),
           p.stop = "none", NEW G \in SUBSET F,
           \A f \in F : f.pid \in 1..Len(p.procs),
           ~Allows("gap") /\ p.start = "none" => Every(p)
    PROVE  Fine(q, k, {}, G)
  <1>1. Timed(q, {})
    BY DEF Fine, Turned, Steady, Timed
  <1>2. q.stop = "none"
    BY DEF Turned, Steady
  <1>3. Unasked(q) /\ Resigning(q)
    BY <1>2 DEF Unasked, Resigning
  <1>4. ~Allows("late") => Hopeful(q)
    BY DEF Fine, Turned, Steady, Hopeful, Hopeless
  <1>5. ASSUME ~Allows("gap") PROVE Placed(q, k)
    <2>1. CASE p.start = "launching"
      <3>1. q.start = "launching" /\ q.owner = p.owner
        BY <2>1 DEF Turned, Steady
      <3>2. \A d \in Clusters : q.assigned[d] = 0 /\ q.info[d].state # "ready"
        BY <1>5, <2>1 DEF Fine, Placed, Turned
      <3> QED BY <1>5, <2>1, <3>1, <3>2 DEF Fine, Placed
    <2>2. CASE p.start # "launching"
      <3>1. q.start = p.start \/ (p.start = "waiting" /\ q.start = "none")
        BY DEF Turned, Steady
      <3>2. q.owner = p.owner
        BY DEF Turned, Steady
      <3>3. p.start \in {"waiting", "done", "none"} => Every(q)
        BY <1>5, <3>2 DEF Fine, Placed, Every
      <3> QED BY <2>2, <3>1, <3>3 DEF Placed
    <2> QED BY <2>1, <2>2
  <1>6. ASSUME ~Allows("gap") PROVE Unheard(q, G)
    <2>1. SUFFICES ASSUME q.start = "launching", NEW f \in G, NEW d \in Clusters
                   PROVE  q.info[d].pid # f.pid
      BY DEF Unheard
    <2>2. p.start = "launching" /\ f \in F
      BY <2>1 DEF Turned, Steady
    <2>3. p.info[d].pid # f.pid
      BY <1>6, <2>2 DEF Fine, Unheard
    <2>4. f.pid # 0 /\ f.pid # Len(p.procs) + 1
      <3>1. f.pid \in 1..Len(p.procs) /\ Len(p.procs) \in Nat
        BY <2>2, Fields
      <3> QED BY <3>1
    <2>5. CASE d = c
      BY <2>3, <2>4, <2>5 DEF Turned
    <2>6. CASE d # c
      BY <2>3, <2>6 DEF Turned
    <2> QED BY <2>5, <2>6
  <1> QED BY <1>1, <1>3, <1>4, <1>5, <1>6 DEF Fine

\* Nothing is under way: a stop has cleared it all, or the fleet is quiet.
AtRest(p) ==
    /\ p.start \in {"none", "leading", "gateway"}
    /\ \A c \in Clusters : p.assigned[c] = 0
    /\ \/ p.stop # "none" /\ p.waiters = {}
       \/ \A c \in Clusters : p.info[c].state \in {"unknown", "stopped"}

LEMMA AtRestIsFine ==
    ASSUME NEW p, NEW k, NEW S, NEW F, AtRest(p), Resigning(p)
    PROVE  Fine(p, k, S, F)
  <1>1. Timed(p, S) /\ Unasked(p)
    BY DEF AtRest, Timed, Unasked
  <1>2. Hopeful(p)
    BY DEF AtRest, Hopeful, Hopeless
  <1>3. Placed(p, k) /\ Unheard(p, F)
    BY DEF AtRest, Placed, Unheard
  <1> QED BY <1>1, <1>2, <1>3 DEF Fine

LEMMA QuietRests ==
    ASSUME NEW p, NEW k, Good(p, k, {}), Quiet(p)
    PROVE  AtRest(p)
  BY DEF Good, Asked, CanAnswer, Quiet, AtRest, Up

\* Only the start, its lock, or the stop are other ones.
Like(p, q) ==
    /\ q.info = p.info /\ q.timers = p.timers /\ q.owner = p.owner /\ q.stop = p.stop
    /\ q.waiters = p.waiters /\ q.assigned = p.assigned /\ q.allReady = p.allReady
    /\ \/ q.start = p.start /\ q.next = p.next
       \/ q.start \in {"leading", "gateway"}
       \/ q.start = "none" /\ \A c \in Clusters : p.info[c].state # "failed"

LEMMA LikeKeeps ==
    ASSUME NEW p, NEW k, NEW S, NEW F, Fine(p, k, S, F), NEW q, Like(p, q), Resigning(q),
           NEW G \in SUBSET F
    PROVE  Fine(q, k, S, G)
  <1>1. Timed(q, S) /\ Unasked(q)
    BY DEF Fine, Like, Timed, Unasked
  <1>2. ~Allows("late") => Hopeful(q)
    BY DEF Fine, Like, Hopeful, Hopeless
  <1>3. ~Allows("gap") => Placed(q, k)
    BY DEF Fine, Like, Placed, Every
  <1>4. ~Allows("gap") => Unheard(q, G)
    BY DEF Fine, Like, Unheard
  <1> QED BY <1>1, <1>2, <1>3, <1>4 DEF Fine

-----------------------------------------------------------------------------
(* Launches, restarts and exits.                                           *)

\* A fleet is planned: nobody is asked for anything, and no cluster has a process.
LEMMA PlanFleetIsFine ==
    ASSUME NEW p, NEW k, Good(p, k, {}), p.start = "gateway", NEW F,
           \A f \in F : f.pid \in Pid(p)
    PROVE  LET q == PlanFleet(p) IN Fine(q, 0, {}, F) /\ q.allReady = p.allReady
  <1> DEFINE q == PlanFleet(p)  z == [c \in Clusters |-> Unknown]
  <1>1. p \in Manager /\ Quiet(p) /\ p.stop = "none"
    BY DEF Good, Phased
  <1>2. /\ q.info = z /\ q.timers = p.timers /\ q.stop = p.stop /\ q.start = "launching"
        /\ q.assigned = p.assigned /\ q.waiters = p.waiters /\ q.allReady = p.allReady
    BY <1>1 DEF PlanFleet, Manager
  <1>3. \A c \in Clusters : z[c].state = "unknown" /\ z[c].pid = 0
    BY DEF Unknown
  <1> HIDE DEF q, z
  <1>4. \A c \in Clusters : p.assigned[c] = 0
    BY <1>1 DEF Good, Asked, Quiet
  <1>5. \A s \in Shards : ~(Plan[s] < 0)
    BY Constants
  <1>6. \A f \in F : f.pid # 0
    BY <1>1, Fields
  <1>7. Timed(q, {}) /\ Unasked(q) /\ Resigning(q)
    BY <1>1, <1>2, <1>3 DEF Timed, Unasked, Resigning
  <1>8. Hopeful(q)
    BY <1>2, <1>3 DEF Hopeful, Hopeless
  <1>9. Placed(q, 0)
    BY <1>2, <1>3, <1>4, <1>5 DEF Placed
  <1>10. Unheard(q, F)
    BY <1>2, <1>3, <1>6 DEF Unheard
  <1> QED BY <1>2, <1>7, <1>8, <1>9, <1>10 DEF Fine, q

LEMMA LaunchNextIsFine ==
    ASSUME NEW p, Good(p, p.next, {}), p.start = "launching", NEW throws \in BOOLEAN,
           ~throws => Len(p.procs) < MaxProcs, NEW F, Fine(p, p.next, {}, F), \A f \in F : f.pid \in Pid(p),
           NEW G \in SUBSET F, InTime(LaunchNext(p, throws))
    PROVE  LET q == LaunchNext(p, throws) IN
           Fine(q, q.next, {}, G) /\ (q.allReady => p.allReady)
  <1> DEFINE c == p.next  mine == {s \in Shards : Plan[s] = c}
             w == [s \in Shards |-> IF s \in mine THEN c ELSE p.owner[s]]
             a == [p EXCEPT !.owner = w]
             q == LaunchOrRecover(a, c, mine, throws)
  <1>0. /\ p \in Manager /\ c \in Clusters
        /\ p.owner \in [Shards -> Clusters \cup {NoCluster}]
    BY Fields DEF Good, Refs
  <1>1. LaunchNext(p, throws) =
            IF c < LastCluster THEN [q EXCEPT !.next = @ + 1]
            ELSE IF WaitForReady /\ ~IsReady(q)
                 THEN [q EXCEPT !.next = 0, !.start = "waiting", !.waiters = @ \cup {"spawn"}]
                 ELSE [q EXCEPT !.next = 0, !.start = "done"]
    <2>1. [p EXCEPT !.owner = [s \in Shards |-> IF s \in mine THEN c ELSE @[s]]] = a
      BY <1>0 DEF Manager
    <2> HIDE DEF a, mine
    <2> QED BY <2>1 DEF LaunchNext, mine
  <1>2. w \in [Shards -> Clusters \cup {NoCluster}] /\ mine \in SUBSET Shards
    BY <1>0
  <1>3. \A s \in Shards : w[s] = IF Plan[s] = c THEN c ELSE p.owner[s]
    OBVIOUS
  <1> HIDE DEF w, mine
  <1>4. a \in Manager
    BY <1>0, <1>2 DEF Manager
  <1>5. /\ a.info = p.info /\ a.timers = p.timers /\ a.owner = w /\ a.starts = p.starts
        /\ a.stop = p.stop /\ a.next = p.next /\ a.stopping = p.stopping
        /\ a.leading = p.leading /\ a.queued = p.queued /\ a.resigns = p.resigns
        /\ a.start = p.start /\ a.allReady = p.allReady /\ a.waiters = p.waiters
        /\ a.assigned = p.assigned /\ a.procs = p.procs
    BY <1>0 DEF Manager
  <1>6. p.stop = "none" /\ "spawn" \notin p.waiters
    BY DEF Good, Phased
  <1> HIDE DEF a
  <1>7. Turned(a, q, c, {"starting", "failed", "restarting"}) /\ ~q.allReady /\ q \in Manager
    <2>1. Awaited(a) /\ (~throws => Len(a.procs) < MaxProcs)
      BY <1>5, <1>6 DEF Awaited
    <2> QED BY <1>0, <1>2, <1>4, <2>1, LaunchTurns
  <1>8. Fine(a, c + 1, {c}, F)
    <2>1. Timed(a, {c}) /\ Unasked(a) /\ Resigning(a)
      BY <1>5 DEF Fine, Timed, Unasked, Resigning
    <2>2. ~Allows("late") => Hopeful(a)
      BY <1>5 DEF Fine, Hopeful, Hopeless
    <2>3. ~Allows("gap") => Unheard(a, F)
      BY <1>5 DEF Fine, Unheard
    <2>4. ~Allows("gap") => Placed(a, c + 1)
      <3>1. \A s \in Shards : Plan[s] < c + 1 => Plan[s] < c \/ Plan[s] = c
        BY <1>0, Constants
      <3>2. \A s \in Shards : Plan[s] < c /\ ~Allows("gap") => p.owner[s] # NoCluster
        BY DEF Fine, Placed
      <3>3. \A s \in Shards : Plan[s] < c + 1 /\ ~Allows("gap") => a.owner[s] # NoCluster
        BY <1>0, <1>3, <1>5, <3>1, <3>2, Constants
      <3> QED BY <1>5, <3>3 DEF Fine, Placed
    <2> QED BY <2>1, <2>2, <2>3, <2>4 DEF Fine
  <1>9. Fine(q, c + 1, {}, G) /\ q.start = "launching" /\ q.stop = "none"
    <2>1. \A f \in F : f.pid \in 1..Len(a.procs)
      BY <1>0, <1>5, Fields
    <2>2. Fine(q, c + 1, {}, G)
      <3> HIDE DEF q
      <3> QED BY <1>0, <1>4, <1>5, <1>6, <1>7, <1>8, <2>1, TurnedKeeps
    <2>3. q.start = "launching" /\ q.stop = "none"
      BY <1>5, <1>6, <1>7 DEF Turned, Steady
    <2> QED BY <2>2, <2>3
  <1>10. q \in Manager /\ q.next = c
    BY <1>5, <1>7 DEF Turned, Steady
  <1> HIDE DEF q
  <1>11. CASE c < LastCluster
    <2> DEFINE r == [q EXCEPT !.next = c + 1]
    <2>1. LaunchNext(p, throws) = r
      BY <1>1, <1>10, <1>11
    <2>2. /\ r.next = c + 1 /\ r.start = q.start /\ r.waiters = q.waiters /\ r.info = q.info
          /\ r.owner = q.owner /\ r.stop = q.stop /\ r.assigned = q.assigned
          /\ r.timers = q.timers /\ r.allReady = q.allReady
      BY <1>10 DEF Manager
    <2> HIDE DEF r
    <2>3. Timed(r, {}) /\ Unasked(r) /\ Resigning(r)
      BY <1>9, <2>2 DEF Fine, Timed, Unasked, Resigning
    <2>4. ~Allows("late") => Hopeful(r)
      BY <1>9, <2>2 DEF Fine, Hopeful, Hopeless
    <2>5. ~Allows("gap") => Placed(r, c + 1) /\ Unheard(r, G)
      BY <1>9, <2>2 DEF Fine, Placed, Every, Unheard
    <2> QED BY <1>7, <2>1, <2>2, <2>3, <2>4, <2>5 DEF Fine
  <1>12. CASE ~(c < LastCluster)
    <2> DEFINE x == LaunchNext(p, throws).start
               v == LaunchNext(p, throws).waiters
               r == LaunchNext(p, throws)
    <2>1. /\ x \in {"waiting", "done"} /\ (x = "done" => v = q.waiters)
          /\ r.next = 0 /\ r.info = q.info
          /\ r.owner = q.owner /\ r.stop = q.stop /\ r.assigned = q.assigned
          /\ r.timers = q.timers /\ r.allReady = q.allReady
      <3>1. CASE WaitForReady /\ ~IsReady(q)
        <4>1. r = [q EXCEPT !.next = 0, !.start = "waiting", !.waiters = @ \cup {"spawn"}]
          BY <1>1, <1>12, <3>1
        <4> QED BY <1>10, <4>1 DEF Manager
      <3>2. CASE ~(WaitForReady /\ ~IsReady(q))
        <4>1. r = [q EXCEPT !.next = 0, !.start = "done"]
          BY <1>1, <1>12, <3>2
        <4> QED BY <1>10, <4>1 DEF Manager
      <3> QED BY <3>1, <3>2
    <2>2. r.start = x /\ r.waiters = v /\ InTime(r)
      OBVIOUS
    <2> HIDE DEF x, v, r
    <2>3. Timed(r, {}) /\ Unasked(r) /\ Resigning(r)
      BY <1>9, <2>1, <2>2 DEF Fine, Timed, Unasked, Resigning
    <2>4. ~Allows("late") => Hopeful(r)
      <3>1. ASSUME ~Allows("late"), x = "waiting" PROVE Hopeful(r)
        BY <2>2, <3>1 DEF InTime, Hopeful
      <3>2. ASSUME ~Allows("late"), x = "done" PROVE Hopeful(r)
        BY <1>9, <2>1, <2>2, <3>2 DEF Fine, Hopeful, Hopeless
      <3> QED BY <2>1, <3>1, <3>2
    <2>5. ~Allows("gap") => Placed(r, r.next) /\ Unheard(r, G)
      <3>1. \A s \in Shards : Plan[s] < c + 1
        BY <1>0, <1>12, Constants DEF Clusters
      <3>2. ~Allows("gap") => Every(r)
        BY <1>9, <2>1, <3>1 DEF Fine, Placed, Every
      <3> QED BY <2>1, <2>2, <3>2 DEF Placed, Unheard
    <2> QED BY <1>7, <2>1, <2>3, <2>4, <2>5 DEF Fine, r
  <1> QED BY <1>11, <1>12

LEMMA RestartIsFine ==
    ASSUME NEW p, NEW k, Good(p, k, {}), NEW t \in p.timers, NEW throws \in BOOLEAN,
           ~throws => Len(p.procs) < MaxProcs, NEW F, Fine(p, k, {}, F),
           \A f \in F : f.pid \in Pid(p), NEW G \in SUBSET F
    PROVE  LET q == RestartFires(p, t, throws) IN
           Fine(q, k, {}, G) /\ (q.allReady => p.allReady)
  <1> DEFINE h == [p EXCEPT !.timers = @ \ {t}]  c == t.cluster
  <1>0. /\ p \in Manager /\ p.info \in [Clusters -> Info] /\ p.timers \subseteq Timer
        /\ c \in Clusters /\ p.info[c].shards \in SUBSET Shards
    BY Fields DEF Good, Timer, Info
  <1>1. h \in Manager
    BY <1>0 DEF Manager
  <1>2. /\ h.procs = p.procs /\ h.info = p.info /\ h.owner = p.owner /\ h.queued = p.queued
        /\ h.resigns = p.resigns /\ h.leading = p.leading /\ h.start = p.start
        /\ h.stop = p.stop /\ h.waiters = p.waiters /\ h.allReady = p.allReady
        /\ h.assigned = p.assigned /\ h.timers = p.timers \ {t}
    BY <1>0 DEF Manager
  <1>3. p.stop = "none" /\ ~p.stopping /\ t.start = p.starts /\ Awaited(p)
    BY DEF Good, Phased, Refs, Awaited
  <1>4. RestartFires(p, t, throws) = IF p.info[c].state # "restarting" THEN h
                                     ELSE LaunchOrRecover(h, c, h.info[c].shards, throws)
    BY <1>2, <1>3 DEF RestartFires
  <1> HIDE DEF h
  <1>5. Fine(h, k, {c}, F)
    <2>1. Timed(h, {c})
      BY <1>2 DEF Fine, Timed
    <2>2. Unasked(h) /\ Resigning(h)
      BY <1>2, <1>3 DEF Unasked, Resigning
    <2>3. ~Allows("late") => Hopeful(h)
      BY <1>2 DEF Fine, Hopeful, Hopeless
    <2>4. ~Allows("gap") => Placed(h, k) /\ Unheard(h, F)
      BY <1>2 DEF Fine, Placed, Every, Unheard
    <2> QED BY <2>1, <2>2, <2>3, <2>4 DEF Fine
  <1>6. CASE p.info[c].state # "restarting"
    <2>1. Timed(h, {})
      BY <1>2, <1>5, <1>6 DEF Fine, Timed
    <2>2. Unheard(h, F) => Unheard(h, G)
      BY DEF Unheard
    <2> QED BY <1>2, <1>4, <1>5, <1>6, <2>1, <2>2 DEF Fine
  <1>7. CASE p.info[c].state = "restarting"
    <2> DEFINE q == LaunchOrRecover(h, c, h.info[c].shards, throws)
               X == {"starting", "failed", "restarting"}
    <2>1. Turned(h, q, c, X) /\ ~q.allReady
      <3>1. Awaited(h) /\ h.info[c].shards \in SUBSET Shards
        BY <1>0, <1>2, <1>3 DEF Awaited
      <3>2. ~throws => Len(h.procs) < MaxProcs
        BY <1>2
      <3> QED BY <1>0, <1>1, <3>1, <3>2, LaunchTurns
    <2>2. RestartFires(p, t, throws) = q
      BY <1>4, <1>7
    <2>3. ~Allows("gap") /\ h.start = "none" => Every(h)
      BY <1>2, <1>3 DEF Good, Phased, Quiet, Fine, Placed, Every
    <2>4. \A f \in F : f.pid \in 1..Len(h.procs)
      BY <1>0, <1>2, Fields
    <2> HIDE DEF q
    <2>5. Fine(q, k, {}, G)
      BY <1>0, <1>1, <1>2, <1>3, <1>5, <2>1, <2>3, <2>4, TurnedKeeps
    <2> QED BY <2>1, <2>2, <2>5
  <1> QED BY <1>6, <1>7

LEMMA OnExitIsFine ==
    ASSUME NEW p, NEW k, Good(p, k, {}), NEW n \in Pid(p), NEW F, Fine(p, k, {}, F),
           \A f \in F : f.pid \in Pid(p), NEW G \in SUBSET F
    PROVE  LET q == OnExit(p, n) IN
           Fine(q, k, {}, G) /\ (q.allReady => p.allReady)
  <1> DEFINE c == p.procs[n].cluster
             x == [p.procs[n] EXCEPT !.state = "gone"]
             g == [p EXCEPT !.procs[n] = x]
             h == [p EXCEPT !.procs[n].state = "gone", !.awaited = @ \ {n}]
             U == p.up \ {c}
             b == Parted(h, U)
             r == [FailOwner(h, c) EXCEPT !.up = @ \ {c}, !.allReady = FALSE]
  <1>0. /\ p \in Manager /\ p.info \in [Clusters -> Info] /\ p.up \subseteq Clusters
        /\ p.procs[n] \in Process /\ c \in Clusters /\ p.awaited \subseteq Pids
        /\ \A i \in Pid(p) : i # 0
    BY Fields DEF Good, Process
  <1>1. x \in Process
    BY <1>0 DEF Process
  <1>2. g \in Manager /\ Len(g.procs) = Len(p.procs)
    <2> HIDE DEF x
    <2> QED BY <1>0, <1>1, Alter
  <1>3. h = [g EXCEPT !.awaited = p.awaited \ {n}]
    BY <1>0 DEF Manager
  <1>4. h \in Manager
    <2> HIDE DEF g, h
    <2> QED BY <1>0, <1>2, <1>3 DEF Manager
  <1>5. /\ h.info = p.info /\ h.timers = p.timers /\ h.owner = p.owner /\ h.starts = p.starts
        /\ h.stop = p.stop /\ h.next = p.next /\ h.stopping = p.stopping
        /\ h.leading = p.leading /\ h.queued = p.queued /\ h.resigns = p.resigns
        /\ h.start = p.start /\ h.allReady = p.allReady /\ h.waiters = p.waiters
        /\ h.assigned = p.assigned /\ h.up = p.up
    BY <1>0 DEF Manager
  <1>14. Len(h.procs) = Len(p.procs)
    <2>1. h.procs = g.procs
      BY <1>0, <1>3 DEF Manager
    <2> QED BY <1>2, <2>1
  <1> HIDE DEF x, g, h
  <1>6. Eased(p, h)
    BY <1>5, <1>14 DEF Eased, Steady, Hopeless
  <1>7. CASE ~Current(p, n)
    <2>1. OnExit(p, n) = h
      BY <1>7 DEF OnExit, h
    <2> QED BY <1>5, <1>6, <2>1, EasedKeeps
  <1>8. CASE Current(p, n)
    <2>1. OnExit(p, n) = IF Expected(p, c) THEN [r EXCEPT !.info[c].state = "stopped"]
                         ELSE Recover(r, c)
      BY <1>8 DEF OnExit, h
    <2>2. U \in SUBSET Clusters
      BY <1>0
    <2>3. r = FailOwner(b, c)
      <3> HIDE DEF U
      <3>1. FailOwner(h, c).up = p.up /\ Parted(FailOwner(h, c), U) = FailOwner(b, c)
        BY <1>0, <1>4, <1>5, <2>2, FailOwnerCommutes
      <3> QED BY <3>1 DEF U, Parted
    <2> HIDE DEF U
    <2>4. b \in Manager
      BY <1>4, <2>2 DEF Manager, Parted
    <2>5. /\ b.info = p.info /\ b.timers = p.timers /\ b.owner = p.owner /\ b.starts = p.starts
          /\ b.stop = p.stop /\ b.next = p.next /\ b.stopping = p.stopping
          /\ b.leading = p.leading /\ b.queued = p.queued /\ b.resigns = p.resigns
          /\ b.start = p.start /\ ~b.allReady /\ b.waiters = p.waiters
          /\ b.assigned = p.assigned /\ b.procs = h.procs
      BY <1>4, <1>5 DEF Manager, Parted
    <2>6. Awaited(b)
      BY <2>5 DEF Good, Phased, Awaited
    <2> HIDE DEF b, r
    <2>7. Eased(b, r) /\ Awaited(r) /\ r \in Manager
      BY <1>0, <2>3, <2>4, <2>6, FailOwnerEases
    <2>8. Eased(p, r) /\ ~r.allReady
      BY <1>14, <2>5, <2>7 DEF Eased, Steady, Hopeless
    <2>9. Fine(r, k, {}, F) /\ r.info = p.info /\ r.stop = p.stop
      BY <2>8, EasedKeeps DEF Eased, Steady
    <2>10. CASE Expected(p, c)
      <3> DEFINE z == [r.info EXCEPT ![c].state = "stopped"]  q == [r EXCEPT !.info = z]
      <3>1. OnExit(p, n) = q
        <4>1. [r EXCEPT !.info[c].state = "stopped"] = q
          BY <2>7 DEF Manager
        <4> HIDE DEF q
        <4> QED BY <2>1, <2>10, <4>1
      <3>2. /\ z[c].state = "stopped" /\ z[c].pid = r.info[c].pid
            /\ \A d \in Clusters \ {c} : z[d] = r.info[d]
        BY <1>0, <2>9 DEF Info
      <3> HIDE DEF z
      <3>3. /\ q.info = z /\ q.timers = r.timers /\ q.owner = r.owner
            /\ q.stop = r.stop /\ q.leading = r.leading /\ q.queued = r.queued
            /\ q.resigns = r.resigns /\ q.start = r.start /\ q.waiters = r.waiters
            /\ q.assigned = r.assigned /\ q.allReady = r.allReady
        BY <2>7 DEF Manager
      <3> HIDE DEF q
      <3>4. Timed(q, {})
        BY <2>9, <3>2, <3>3 DEF Fine, Timed
      <3>5. Unasked(q) /\ Resigning(q)
        BY <2>9, <3>3 DEF Fine, Unasked, Resigning
      <3>6. ~Allows("late") => Hopeful(q)
        BY <2>9, <3>2, <3>3 DEF Fine, Hopeful, Hopeless
      <3>7. ~Allows("gap") => Placed(q, k)
        BY <2>9, <3>2, <3>3 DEF Fine, Placed, Every
      <3>8. ~Allows("gap") => Unheard(q, G)
        BY <2>9, <3>2, <3>3 DEF Fine, Unheard
      <3> QED BY <2>8, <3>1, <3>3, <3>4, <3>5, <3>6, <3>7, <3>8 DEF Fine
    <2>11. CASE ~Expected(p, c)
      <3> DEFINE q == Recover(r, c)
      <3>1. OnExit(p, n) = q
        BY <2>1, <2>11
      <3>2. Turned(r, q, c, {"failed", "restarting"})
        BY <1>0, <2>7, RecoverTurns
      <3> HIDE DEF q
      <3>3. ~Quiet(p) /\ ~p.stopping
        <4>1. p.info[c].state # "unknown"
          BY <1>0, <1>8 DEF Good, Refs, Current, Unknown
        <4> QED BY <1>0, <2>11, <4>1 DEF Expected, Quiet
      <3>4. r.stop = "none"
        BY <2>9, <3>3 DEF Good, Phased
      <3>5. ~Allows("gap") /\ r.start = "none" => Every(r)
        <4>1. ASSUME ~Allows("gap"), r.start = "none" PROVE Every(p)
          <5>1. p.start = "waiting" \/ p.start = "none"
            BY <2>8, <4>1 DEF Eased, Steady
          <5>2. p.start = "none" => \E d \in Clusters : p.info[d].state = "failed"
            BY <2>9, <3>3, <3>4 DEF Good, Phased
          <5> QED BY <2>9, <3>4, <4>1, <5>1, <5>2 DEF Fine, Placed
        <4> QED BY <2>8, <4>1 DEF Eased, Steady, Every
      <3>6. \A f \in F : f.pid \in 1..Len(r.procs)
        <4>1. Len(r.procs) = Len(p.procs)
          BY <2>8 DEF Eased
        <4> QED BY <1>0, <4>1, Fields
      <3>7. Fine(r, k, {c}, F)
        BY <2>9 DEF Fine, Timed
      <3>8. Fine(q, k, {}, G)
        BY <1>0, <2>7, <3>2, <3>4, <3>5, <3>6, <3>7, TurnedKeeps
      <3>9. ~q.allReady
        BY <2>8, <3>2 DEF Turned, Steady
      <3> QED BY <3>1, <3>8, <3>9
    <2> QED BY <2>10, <2>11
  <1> QED BY <1>7, <1>8

-----------------------------------------------------------------------------
(* Readiness.                                                              *)

\* Every shard has an owner that is ready.
Served(q) == \A s \in Shards : q.owner[s] # NoCluster /\ q.info[q.owner[s]].state = "ready"

LEMMA ReadyIsServed ==
    ASSUME NEW q, Every(q), IsReady(q), q.owner \in [Shards -> Clusters \cup {NoCluster}],
           \A s \in Shards, c \in Clusters : s \in q.info[c].shards <=> q.owner[s] = c,
           \A c \in Clusters : q.info[c].state = "unknown" => q.info[c].shards = {}
    PROVE  Served(q)
  <1>1. SUFFICES ASSUME NEW s \in Shards
                 PROVE  q.owner[s] # NoCluster /\ q.info[q.owner[s]].state = "ready"
    BY DEF Served
  <1>2. q.owner[s] \in Clusters /\ q.owner[s] # NoCluster
    BY DEF Every
  <1>3. s \in q.info[q.owner[s]].shards
    BY <1>2
  <1> QED BY <1>2, <1>3 DEF IsReady

\* A fleet that is neither quiet nor being launched has been launched.
LEMMA LaunchedIsOwned ==
    ASSUME NEW p, NEW k, Phased(p), ~Quiet(p), ~p.stopping, p.start # "launching",
           p \in Manager, Placed(p, k)
    PROVE  Every(p)
  <1>1. p.stop = "none" /\ p.start \in {"none", "waiting", "done"}
    BY DEF Phased, Manager
  <1> QED BY <1>1 DEF Phased, Placed

LEMMA CheckReadyIsFine ==
    ASSUME NEW p \in Manager, NEW k, NEW F, Fine(p, k, {}, F), Awaited(p), NEW G \in SUBSET F
    PROVE  LET q == CheckReady(p) IN
           /\ Fine(q, k, {}, G)
           /\ q.info = p.info /\ q.owner = p.owner
           /\ q.allReady => p.allReady \/ IsReady(p)
  <1> DEFINE q == CheckReady(p)
             x == IF "spawn" \in p.waiters THEN "done" ELSE p.start
  <1>1. CASE ~IsReady(p)
    <2>1. q = p
      BY <1>1 DEF CheckReady
    <2>2. Unheard(p, F) => Unheard(p, G)
      BY DEF Unheard
    <2> HIDE DEF q
    <2> QED BY <2>1, <2>2 DEF Fine, q
  <1>2. CASE IsReady(p)
    <2>1. q = [p EXCEPT !.waiters = {}, !.allReady = TRUE, !.start = x]
      BY <1>2 DEF CheckReady, Manager
    <2>2. x = p.start \/ (p.start = "waiting" /\ x = "done")
      BY DEF Awaited
    <2> HIDE DEF q, x
    <2>3. /\ q.info = p.info /\ q.timers = p.timers /\ q.owner = p.owner
          /\ q.stop = p.stop /\ q.leading = p.leading /\ q.queued = p.queued
          /\ q.resigns = p.resigns /\ q.start = x /\ q.waiters = {}
          /\ q.assigned = p.assigned
      BY <2>1 DEF Manager
    <2>4. Timed(q, {}) /\ Unasked(q) /\ Resigning(q)
      BY <2>3 DEF Fine, Timed, Unasked, Resigning
    <2>5. Hopeful(q)
      BY <2>3 DEF Hopeful
    <2>6. ~Allows("gap") => Placed(q, k)
      BY <2>2, <2>3 DEF Fine, Placed, Every
    <2>7. ~Allows("gap") => Unheard(q, G)
      BY <2>2, <2>3 DEF Fine, Unheard
    <2> QED BY <1>2, <2>3, <2>4, <2>5, <2>6, <2>7 DEF Fine, q
  <1> QED BY <1>1, <1>2

\* A cluster becomes ready; not while the fleet is launched, but for the gap.
LEMMA OnReadyIsFine ==
    ASSUME NEW p, NEW k, Good(p, k, {}), NEW n \in Pid(p), NEW shards, ~Gone(p, n),
           Current(p, n) => p.info[p.procs[n].cluster].state # "stopped",
           NEW F, Fine(p, k, {}, F), \E f \in F : f.pid = n, NEW G \in SUBSET F
    PROVE  LET q == OnReady(p, n, shards) IN
           /\ Fine(q, k, {}, G)
           /\ ~Allows("gap") /\ ~p.allReady /\ q.allReady /\ ~p.stopping => Served(q)
  <1> DEFINE c == p.procs[n].cluster
             z == [p.info EXCEPT ![c].state = "ready"]
             h == [p EXCEPT !.info = z]
             q == CheckReady(h)
  <1>0. /\ p \in Manager /\ p.info \in [Clusters -> Info] /\ c \in Clusters
        /\ p.owner \in [Shards -> Clusters \cup {NoCluster}] /\ n # 0
    BY Fields DEF Good, Process
  <1>1. CASE ~Current(p, n) \/ ~(shards \subseteq p.info[c].shards)
    <2>1. OnReady(p, n, shards) = p
      BY <1>1 DEF OnReady
    <2>2. Unheard(p, F) => Unheard(p, G)
      BY DEF Unheard
    <2> QED BY <2>1, <2>2 DEF Fine
  <1>2. CASE ~(~Current(p, n) \/ ~(shards \subseteq p.info[c].shards))
    <2>1. OnReady(p, n, shards) = q
      <3>1. [p EXCEPT !.info[c].state = "ready"] = h
        BY <1>0 DEF Manager
      <3> HIDE DEF h
      <3> QED BY <1>2, <3>1 DEF OnReady
    <2>2. p.info[c].pid = n /\ p.info[c].state # "stopped"
      BY <1>2 DEF Current
    <2>3. p.info[c].state # "unknown" /\ ~Quiet(p)
      BY <1>0, <2>2 DEF Good, Refs, Unknown, Quiet
    <2>4. z \in [Clusters -> Info]
      <3>1. [p.info[c] EXCEPT !.state = "ready"] \in Info
        BY <1>0 DEF Info, States
      <3> QED BY <1>0, <3>1
    <2>5. \A d \in Clusters : /\ z[d].pid = p.info[d].pid /\ z[d].shards = p.info[d].shards
                              /\ z[d].state = IF d = c THEN "ready" ELSE p.info[d].state
                              /\ d # c => z[d] = p.info[d]
      BY <1>0 DEF Info
    <2> HIDE DEF z
    <2>6. h \in Manager
      BY <1>0, <2>4 DEF Manager
    <2>7. /\ h.info = z /\ h.timers = p.timers /\ h.owner = p.owner
          /\ h.stop = p.stop /\ h.leading = p.leading /\ h.queued = p.queued
          /\ h.resigns = p.resigns /\ h.start = p.start /\ h.waiters = p.waiters
          /\ h.assigned = p.assigned /\ h.allReady = p.allReady
      BY <1>0 DEF Manager
    <2> HIDE DEF h
    <2>8. ~Allows("gap") => p.start # "launching"
      BY <1>0, <2>2 DEF Fine, Unheard
    <2>9. ~Allows("gap") /\ ~p.stopping => Every(p)
      BY <1>0, <2>3, <2>8, LaunchedIsOwned DEF Good, Fine
    <2>10. Fine(h, k, {}, F)
      <3>1. Timed(h, {})
        BY <2>5, <2>7 DEF Fine, Timed
      <3>2. Unasked(h) /\ Resigning(h)
        BY <2>7 DEF Fine, Unasked, Resigning
      <3>3. ~Allows("late") => Hopeful(h)
        BY <2>5, <2>7 DEF Fine, Hopeful, Hopeless
      <3>4. ~Allows("gap") => Placed(h, k) /\ Unheard(h, F)
        BY <2>5, <2>7, <2>8 DEF Fine, Placed, Every, Unheard
      <3> QED BY <3>1, <3>2, <3>3, <3>4 DEF Fine
    <2>11. Awaited(h)
      BY <2>7 DEF Good, Phased, Awaited
    <2>12. /\ Fine(q, k, {}, G)
           /\ q.info = h.info /\ q.owner = h.owner
           /\ q.allReady => h.allReady \/ IsReady(h)
      BY <2>6, <2>10, <2>11, CheckReadyIsFine
    <2>13. IsReady(h) /\ Every(h) => Served(h)
      <3>1. \A d \in Clusters : h.info[d].state = "unknown" => h.info[d].shards = {}
        BY <2>5, <2>7 DEF Good, Refs, Unknown
      <3>2. \A s \in Shards, d \in Clusters : s \in h.info[d].shards <=> h.owner[s] = d
        BY <2>5, <2>7 DEF Good, Owned
      <3> QED BY <1>0, <2>7, <3>1, <3>2, ReadyIsServed
    <2> HIDE DEF q
    <2>14. Served(h) => Served(q)
      BY <2>12 DEF Served
    <2>15. Every(p) => Every(h)
      BY Zenon, <2>7 DEF Every
    <2> QED BY <2>1, <2>7, <2>9, <2>12, <2>13, <2>14, <2>15
  <1> QED BY <1>1, <1>2

\* Shards are moved, and the cluster that failed has none any more.
LEMMA MovedIsFine ==
    ASSUME NEW p, NEW k, Good(p, k, {}), NEW c \in Clusters, p.assigned[c] # 0,
           NEW F, Fine(p, k, {}, F), NEW G \in SUBSET F
    PROVE  LET q == CheckReady(MoveShards(p, c, p.procs[p.assigned[c]].cluster)) IN
           /\ Fine(q, k, {}, G) /\ ~p.stopping
           /\ ~Allows("gap") /\ ~p.allReady /\ q.allReady => Served(q)
  <1> DEFINE h == MoveShards(p, c, p.procs[p.assigned[c]].cluster)  q == CheckReady(h)
             t == p.procs[p.assigned[c]].cluster
  <1>0. p \in Manager /\ p.info[c].state = "failed"
    BY DEF Good, Asked
  <1>1. Moved(p, c, h) /\ Good(h, k, {})
    BY <1>0, MoveShardsIs, MoveShardsKeeps
  <1>2. p.stop = "none" /\ ~p.stopping
    BY DEF Fine, Unasked, Good, Phased
  <1>3. ~Quiet(p)
    BY <1>0 DEF Quiet
  <1>4. ~Allows("gap") => p.start # "launching"
    BY DEF Fine, Placed
  <1>5. ~Allows("gap") => Every(p)
    BY Zenon, <1>0, <1>2, <1>3, <1>4, LaunchedIsOwned DEF Good, Fine
  <1> HIDE DEF h
  <1>6. /\ t \in Clusters /\ t # c /\ p.info[t].state \in Up
        /\ h.start = p.start /\ h.stop = p.stop /\ h.timers = p.timers /\ h.waiters = p.waiters
        /\ h.leading = p.leading /\ h.queued = p.queued /\ h.resigns = p.resigns
        /\ h.allReady = p.allReady
        /\ \A d \in Clusters : h.assigned[d] = IF d = c THEN 0 ELSE p.assigned[d]
        /\ \A s \in Shards : h.owner[s] = IF s \in p.info[c].shards THEN t ELSE p.owner[s]
    BY Zenon, <1>1 DEF Moved
  <1>7. /\ h.info[c].shards = {}
        /\ \A d \in Clusters : h.info[d].pid = p.info[d].pid /\ h.info[d].state = p.info[d].state
        /\ \A d \in Clusters : d # c /\ d # t => h.info[d].shards = p.info[d].shards
    BY <1>1 DEF Moved
  <1> HIDE DEF t
  <1>8. Fine(h, k, {}, F)
    <2>1. Timed(h, {})
      BY <1>6, <1>7 DEF Fine, Timed
    <2>2. Unasked(h) /\ Resigning(h)
      BY <1>6 DEF Fine, Unasked, Resigning
    <2>3. ~Allows("late") => Hopeful(h)
      BY <1>6, <1>7 DEF Fine, Hopeful, Hopeless, Up
    <2>4. Every(p) => Every(h)
      BY <1>6, Constants DEF Every
    <2>5. ~Allows("gap") => Placed(h, k) /\ Unheard(h, F)
      BY <1>4, <1>5, <1>6, <1>7, <2>4 DEF Placed, Unheard
    <2> QED BY <2>1, <2>2, <2>3, <2>5 DEF Fine
  <1>9. h \in Manager /\ Awaited(h)
    BY <1>1 DEF Good, Phased, Awaited
  <1>10. /\ Fine(q, k, {}, G)
         /\ q.info = h.info /\ q.owner = h.owner
         /\ q.allReady => h.allReady \/ IsReady(h)
    BY <1>8, <1>9, CheckReadyIsFine
  <1>11. IsReady(h) /\ Every(h) => Served(h)
    <2>1. h.owner \in [Shards -> Clusters \cup {NoCluster}]
      BY <1>9, Fields
    <2>2. \A d \in Clusters : h.info[d].state = "unknown" => h.info[d].shards = {}
      BY <1>1 DEF Good, Refs, Unknown
    <2>3. \A s \in Shards, d \in Clusters : s \in h.info[d].shards <=> h.owner[s] = d
      BY <1>1 DEF Good, Owned
    <2> QED BY <2>1, <2>2, <2>3, ReadyIsServed
  <1>12. Every(p) => Every(h)
    BY <1>6, Constants DEF Every
  <1> HIDE DEF q
  <1>13. Served(h) => Served(q)
    BY <1>10 DEF Served
  <1> QED BY <1>2, <1>5, <1>6, <1>10, <1>11, <1>12, <1>13 DEF h, q

-----------------------------------------------------------------------------
(* The second invariant is kept.                                           *)

\* What every step does: the fleet is announced only when it is served.
Carried ==
    /\ Fine(m', m'.next, {}, frames')
    /\ ~Allows("gap") /\ ~m.allReady /\ m'.allReady /\ ~m.stopping => Served(m')

Firm == Good(m, m.next, {}) /\ Framed /\ Fine(m, m.next, {}, frames)

LEMMA EasedCarries ==
    ASSUME Firm, Eased(m, m'), frames' \subseteq frames
    PROVE  Carried
  <1>1. Fine(m', m.next, {}, frames')
    BY EasedKeeps DEF Firm
  <1> QED BY <1>1 DEF Eased, Steady, Carried

LEMMA LikeCarries ==
    ASSUME Firm, Like(m, m'), Resigning(m'), frames' \subseteq frames
    PROVE  Carried
  <1>1. Fine(m', m.next, {}, frames')
    BY LikeKeeps DEF Firm
  <1>2. m.next # m'.next => m'.start # "launching"
    BY DEF Like
  <1>3. Fine(m', m'.next, {}, frames')
    BY <1>1, <1>2 DEF Fine, Placed
  <1> QED BY <1>3 DEF Like, Carried

LEMMA RestCarries ==
    ASSUME AtRest(m'), Resigning(m'), m'.allReady => m.allReady
    PROVE  Carried
  BY AtRestIsFine DEF Carried

\* What spawn() does.
LEMMA SpawnIsLike ==
    ASSUME NEW p \in Manager
    PROVE  LET q == Spawn(p) IN
           /\ Like(p, q) /\ q.resigns = p.resigns /\ q.leading = p.leading
           /\ p.stop = "none" => q.queued = p.queued
           /\ p.queued => q.queued
  <1>1. CASE p.stop # "none"
    <2>1. Spawn(p) = [p EXCEPT !.queued = TRUE]
      BY <1>1 DEF Spawn
    <2> QED BY <1>1, <2>1 DEF Like, Manager
  <1>2. CASE p.stop = "none" /\ p.start # "none"
    <2>1. Spawn(p) = p
      BY <1>2 DEF Spawn
    <2> QED BY <1>2, <2>1 DEF Like
  <1>3. CASE p.stop = "none" /\ p.start = "none"
    <2>1. PICK x \in {"leading", "gateway"} : Spawn(p) = [p EXCEPT !.start = x]
      BY <1>3 DEF Spawn
    <2> QED BY <1>3, <2>1 DEF Like, Manager
  <1> QED BY <1>1, <1>2, <1>3

\* What a stop does, and a respawn.
LEMMA ShutdownIs ==
    ASSUME NEW p \in Manager, NEW r \in BOOLEAN, p.stop = "none"
    PROVE  LET q == Shutdown(p, r) IN
           /\ q \in Manager /\ AtRest(q) /\ q.allReady = p.allReady /\ q.resigns = r
           /\ q.queued = p.queued /\ q.leading = p.leading /\ q.stop = "draining"
           /\ q.start = "none" /\ q.timers = {}
  <1> DEFINE h == Halt(p)  q == Shutdown(p, r)
  <1>1. /\ h \in Manager /\ h.start = "none" /\ h.waiters = {} /\ h.allReady = p.allReady
        /\ h.assigned = [c \in Clusters |-> 0] /\ h.queued = p.queued /\ h.leading = p.leading
        /\ h.timers = {}
    BY HaltIs
  <1>2. q = [h EXCEPT !.stopping = TRUE, !.stop = "draining", !.resigns = r]
    BY DEF Shutdown
  <1> HIDE DEF h, q
  <1>3. /\ q.start = h.start /\ q.waiters = h.waiters /\ q.allReady = h.allReady
        /\ q.assigned = h.assigned /\ q.queued = h.queued /\ q.leading = h.leading
        /\ q.resigns = r /\ q.stop = "draining" /\ q.timers = h.timers
    BY <1>1, <1>2 DEF Manager
  <1>4. q \in Manager
    BY <1>1, <1>2 DEF Manager
  <1> QED BY <1>1, <1>3, <1>4 DEF AtRest, q

LEMMA RespawnDoes ==
    ASSUME NEW p \in Manager
    PROVE  LET q == Respawn(p) IN
           /\ q.queued /\ q.allReady = p.allReady /\ q.stop # "none"
           /\ p.stop = "none" => AtRest(q)
           /\ p.stop # "none" => Like(p, q)
           /\ q \in Manager
  <1> DEFINE h == Shutdown(p, FALSE)  z == [c \in Clusters |-> 0]  q == Respawn(p)
  <1>1. p.stop = "none" => /\ h \in Manager /\ AtRest(h) /\ h.allReady = p.allReady
                           /\ h.stop = "draining"
    BY ShutdownIs
  <1>2. p.stop # "none" => h = p
    BY DEF Shutdown
  <1>3. h \in Manager
    BY <1>1, <1>2
  <1>4. q = [h EXCEPT !.queued = TRUE, !.crashes = z]
    BY <1>3 DEF Respawn, Manager
  <1>5. z \in [Clusters -> 0..MaxRestarts]
    BY Constants
  <1> HIDE DEF h, q, z
  <1>6. /\ q.info = h.info /\ q.timers = h.timers /\ q.owner = h.owner /\ q.stop = h.stop
        /\ q.waiters = h.waiters /\ q.assigned = h.assigned /\ q.allReady = h.allReady
        /\ q.start = h.start /\ q.next = h.next /\ q.queued
    BY <1>3, <1>4 DEF Manager
  <1>7. q \in Manager
    BY <1>3, <1>4, <1>5 DEF Manager
  <1>8. p.stop = "none" => AtRest(q)
    BY <1>1, <1>6 DEF AtRest
  <1>9. p.stop # "none" => Like(p, q)
    BY <1>2, <1>6 DEF Like
  <1> QED BY <1>1, <1>2, <1>6, <1>7, <1>8, <1>9 DEF q

\* Calls.
LEMMA CallsCarry ==
    ASSUME Sane, Firm, CallSpawn \/ CallShutdown \/ CallKill \/ CallRespawn \/ ScaleAnswers
    PROVE  Carried
  <1>0. m \in Manager /\ Resigning(m) /\ frames' = frames
    BY DEF Firm, Good, Fine, CallSpawn, CallShutdown, CallKill, CallRespawn, ScaleAnswers
  <1>1. CASE CallSpawn
    <2> DEFINE q == Spawn(m)
    <2>1. m' = q
      BY <1>1 DEF CallSpawn
    <2>2. /\ Like(m, q) /\ q.resigns = m.resigns /\ q.leading = m.leading
          /\ m.queued => q.queued
      BY <1>0, SpawnIsLike
    <2> HIDE DEF q
    <2>3. Resigning(q)
      BY <1>0, <2>2 DEF Resigning, Like
    <2> QED BY <1>0, <2>1, <2>2, <2>3, LikeCarries
  <1>2. CASE CallShutdown
    <2> DEFINE q == Shutdown(m, TRUE)
    <2>1. m' = q
      BY <1>2 DEF CallShutdown
    <2>2. CASE m.stop = "none"
      <3>1. AtRest(q) /\ q.allReady = m.allReady /\ q.resigns = TRUE
        BY <1>0, <2>2, ShutdownIs
      <3> HIDE DEF q
      <3>2. Resigning(q)
        BY <3>1 DEF Resigning
      <3> QED BY <2>1, <3>1, <3>2, RestCarries
    <2>3. CASE m.stop # "none"
      <3>1. q = m
        BY <2>3 DEF Shutdown
      <3>2. Like(m, q)
        BY <3>1 DEF Like
      <3> HIDE DEF q
      <3> QED BY <1>0, <2>1, <3>1, <3>2, LikeCarries
    <2> QED BY <2>2, <2>3
  <1>3. CASE CallKill
    <2> DEFINE q == Silenced(m, "term")
    <2>1. m' = q
      BY <1>3 DEF CallKill, KillAll, Silenced
    <2>2. Good(q, 0, {}) /\ Quiet(q) /\ q.leading = FALSE /\ q.allReady = m.allReady
      BY SilencedKeeps DEF Firm
    <2> HIDE DEF q
    <2>3. AtRest(q) /\ Resigning(q)
      BY <2>2, QuietRests DEF Resigning
    <2> QED BY <2>1, <2>2, <2>3, RestCarries
  <1>4. ASSUME NEW h, m' = h, LET q == Respawn(m) IN
               /\ h.info = q.info /\ h.timers = q.timers /\ h.owner = q.owner
               /\ h.stop = q.stop /\ h.waiters = q.waiters /\ h.assigned = q.assigned
               /\ h.allReady = q.allReady /\ h.start = q.start /\ h.next = q.next
               /\ h.queued
        PROVE  Carried
    <2> DEFINE q == Respawn(m)
    <2>1. /\ q.allReady = m.allReady
          /\ m.stop = "none" => AtRest(q)
          /\ m.stop # "none" => Like(m, q)
      BY <1>0, RespawnDoes
    <2> HIDE DEF q
    <2>2. /\ h.info = q.info /\ h.timers = q.timers /\ h.owner = q.owner
          /\ h.stop = q.stop /\ h.waiters = q.waiters /\ h.assigned = q.assigned
          /\ h.allReady = q.allReady /\ h.start = q.start /\ h.next = q.next
          /\ h.queued
      BY <1>4 DEF q
    <2>3. Resigning(h)
      BY <2>2 DEF Resigning
    <2>4. CASE m.stop = "none"
      <3>1. AtRest(h)
        BY <2>1, <2>2, <2>4 DEF AtRest
      <3> QED BY <1>4, <2>1, <2>2, <2>3, <3>1, RestCarries
    <2>5. CASE m.stop # "none"
      <3>1. Like(m, h)
        BY <2>1, <2>2, <2>5 DEF Like
      <3> QED BY <1>0, <1>4, <2>3, <3>1, LikeCarries
    <2> QED BY <2>4, <2>5
  <1>5. CASE CallRespawn
    <2>1. m' = Respawn(m)
      BY <1>5 DEF CallRespawn
    <2>2. Respawn(m).queued
      BY <1>0, RespawnDoes
    <2> QED BY <1>4, <2>1, <2>2
  <1>6. CASE ScaleAnswers
    <2> DEFINE q == Respawn(m)
    <2>1. m' = [q EXCEPT !.scaling = FALSE]
      BY <1>6 DEF ScaleAnswers
    <2>2. q \in Manager /\ q.queued
      BY <1>0, RespawnDoes
    <2> HIDE DEF q
    <2>3. /\ m'.info = q.info /\ m'.timers = q.timers /\ m'.owner = q.owner
          /\ m'.stop = q.stop /\ m'.waiters = q.waiters /\ m'.assigned = q.assigned
          /\ m'.allReady = q.allReady /\ m'.start = q.start /\ m'.next = q.next
          /\ m'.queued
      BY <2>1, <2>2 DEF Manager
    <2> QED BY <1>4, <2>3 DEF q
  <1> QED BY <1>1, <1>2, <1>3, <1>5, <1>6

\* Nothing that the second invariant speaks of is another.
Alike(p, q) ==
    /\ q.owner = p.owner /\ q.starts = p.starts /\ q.stop = p.stop /\ q.next = p.next
    /\ q.stopping = p.stopping /\ q.leading = p.leading /\ q.queued = p.queued
    /\ q.resigns = p.resigns /\ q.start = p.start /\ q.allReady = p.allReady
    /\ q.waiters = p.waiters /\ q.info = p.info /\ q.timers = p.timers
    /\ q.assigned = p.assigned

LEMMA AlikeEases ==
    ASSUME NEW p, NEW q, Alike(p, q), Len(q.procs) = Len(p.procs)
    PROVE  Eased(p, q)
  BY DEF Alike, Eased, Steady, Hopeless

AlikeStep == Alike(m, m') /\ Len(m'.procs) = Len(m.procs) /\ frames' = frames

\* Steps that leave the fleet, its start and its stop alone.
LEMMA StandingIsAlike ==
    ASSUME Good(m, m.next, {}),
           \/ ScaleAsks
           \/ \E c \in Clusters : Forgives(c) \/ StartTimesOut(c) \/ TakerStarts(c)
           \/ \E a \in Asks : CallAsk(a) \/ RequestTimesOut(a)
           \/ \E a \in Asks, n \in Pids : Answers(a, n)
           \/ \E n \in Pids : Dies(n) \/ GraceEnds(n)
    PROVE  AlikeStep
  <1>0. m \in Manager /\ Good(m, m.next, {})
    BY DEF Good
  <1>1. ASSUME Alike(m, m'), Len(m'.procs) = Len(m.procs), frames' = frames
        PROVE  AlikeStep
    BY <1>1 DEF AlikeStep
  <1>2. CASE ScaleAsks
    <2>1. m' = [m EXCEPT !.scaling = TRUE] /\ frames' = frames
      BY <1>2 DEF ScaleAsks
    <2>2. Alike(m, m') /\ m'.procs = m.procs
      BY <1>0, <2>1 DEF Alike, Manager
    <2> QED BY <1>1, <2>1, <2>2
  <1>3. ASSUME NEW c \in Clusters, Forgives(c) PROVE AlikeStep
    <2>1. m' = [m EXCEPT !.crashes[c] = 0] /\ frames' = frames
      BY <1>3 DEF Forgives
    <2>2. Alike(m, m') /\ m'.procs = m.procs
      BY <1>0, <2>1 DEF Alike, Manager
    <2> QED BY <1>1, <2>1, <2>2
  <1>4. ASSUME NEW x, m' = [m EXCEPT !.asked = x], frames' = frames PROVE AlikeStep
    <2>2. Alike(m, m') /\ m'.procs = m.procs
      BY <1>0, <1>4 DEF Alike, Manager
    <2> QED BY <1>1, <1>4, <2>2
  <1>5. ASSUME NEW a \in Asks, CallAsk(a) PROVE AlikeStep
    <2>1. PICK y : m' = [m EXCEPT !.asked[a] = y]
      BY <1>5 DEF CallAsk, SendAsk
    <2>2. m' = [m EXCEPT !.asked = [m.asked EXCEPT ![a] = y]] /\ frames' = frames
      BY <1>0, <1>5, <2>1 DEF CallAsk, Manager
    <2> QED BY <1>4, <2>2
  <1>6. ASSUME NEW a \in Asks, RequestTimesOut(a) PROVE AlikeStep
    <2>1. m' = [m EXCEPT !.asked = [m.asked EXCEPT ![a] = {}]] /\ frames' = frames
      BY <1>0, <1>6 DEF RequestTimesOut, Manager
    <2> QED BY <1>4, <2>1
  <1>7. ASSUME NEW a \in Asks, NEW n \in Pids, Answers(a, n) PROVE AlikeStep
    <2>1. CASE Current(m, n)
      <3>1. m' = [m EXCEPT !.asked = [m.asked EXCEPT ![a] = m.asked[a] \ {n}]]
            /\ frames' = frames
        BY <1>0, <1>7, <2>1 DEF Answers, Manager
      <3> QED BY <1>4, <3>1
    <2>2. CASE ~Current(m, n)
      <3>1. m' = m /\ frames' = frames
        BY <1>7, <2>2 DEF Answers
      <3>2. Alike(m, m') /\ m'.procs = m.procs
        BY <3>1 DEF Alike
      <3> QED BY <1>1, <3>1, <3>2
    <2> QED BY <2>1, <2>2
  <1>8. ASSUME NEW n \in Pids, Dies(n) PROVE AlikeStep
    <2>1. /\ n \in Pid(m) /\ m.procs[n].state = "running" /\ frames' = frames
          /\ m' = [m EXCEPT !.procs[n].state = "dead"]
      BY <1>8 DEF Dies
    <2>2. Len(m'.procs) = Len(m.procs)
      BY <1>0, <2>1, DiesKeeps DEF Tamed
    <2>3. Alike(m, m')
      BY <1>0, <2>1 DEF Alike, Manager
    <2> QED BY <1>1, <2>1, <2>2, <2>3
  <1>9. ASSUME NEW n \in Pids, GraceEnds(n) PROVE AlikeStep
    <2>1. n \in Pid(m) /\ m' = [m EXCEPT !.procs[n].told = "kill"] /\ frames' = frames
      BY <1>0, <1>9 DEF GraceEnds, Good, Refs
    <2>2. Len(m'.procs) = Len(m.procs)
      BY <1>0, <2>1, ToldKeeps DEF Tamed
    <2>3. Alike(m, m')
      BY <1>0, <2>1 DEF Alike, Manager
    <2> QED BY <1>1, <2>1, <2>2, <2>3
  <1>10. ASSUME NEW c \in Clusters, StartTimesOut(c) PROVE AlikeStep
    <2>1. m' = Signal(m, {c}, "kill") /\ frames' = frames
      BY <1>10 DEF StartTimesOut
    <2>2. Len(m'.procs) = Len(m.procs)
      <3>1. Tamed(m, Signal(m, {c}, "kill"))
        BY <1>0, SignalIs
      <3> QED BY <2>1, <3>1 DEF Tamed
    <2>3. Alike(m, m')
      BY <1>0, <2>1 DEF Alike, Signal, Manager
    <2> QED BY <1>1, <2>1, <2>2, <2>3
  <1>11. ASSUME NEW c \in Clusters, TakerStarts(c) PROVE AlikeStep
    <2>1. /\ m.assigned[c] # 0 /\ frames' = frames
          /\ m' = [m EXCEPT !.procs[m.assigned[c]].shards = @ \cup m.info[c].shards]
      BY <1>11 DEF TakerStarts
    <2>2. Len(m'.procs) = Len(m.procs)
      BY <1>0, <2>1, TakesKeeps
    <2>3. Alike(m, m')
      BY <1>0, <2>1 DEF Alike, Manager
    <2> QED BY <1>1, <2>1, <2>2, <2>3
  <1> QED BY <1>2, <1>3, <1>5, <1>6, <1>7, <1>8, <1>9, <1>10, <1>11

LEMMA StandingCarries ==
    ASSUME Firm, AlikeStep
    PROVE  Carried
  BY AlikeEases, EasedCarries DEF AlikeStep

\* A reassignment that fails, or one that a stop has made void.
LEMMA TakerCarries ==
    ASSUME Firm, NEW c \in Clusters, TakerFails(c) \/ TakerConfirms(c)
    PROVE  Carried
  <1>0. m \in Manager /\ Good(m, m.next, {}) /\ Awaited(m) /\ frames' = frames
    BY DEF Firm, Good, Phased, Awaited, TakerFails, TakerConfirms
  <1>1. CASE TakerFails(c)
    <2> DEFINE q == AssignFails(m, {c})
    <2>1. m' = q
      BY <1>1 DEF TakerFails
    <2>2. Eased(m, q)
      BY <1>0, AssignFailsEases
    <2> HIDE DEF q
    <2> QED BY <1>0, <2>1, <2>2, EasedCarries
  <1>2. CASE TakerConfirms(c)
    <2> DEFINE q == CheckReady(MoveShards(m, c, m.procs[m.assigned[c]].cluster))
    <2>1. m.assigned[c] # 0 /\ m.info[c].state = "failed"
      BY <1>0, <1>2 DEF TakerConfirms, Good, Asked
    <2>2. /\ Fine(q, m.next, {}, frames) /\ ~m.stopping
          /\ ~Allows("gap") /\ ~m.allReady /\ q.allReady => Served(q)
      BY <1>0, <2>1, MovedIsFine DEF Firm
    <2>3. m' = q
      BY <1>2, <2>1, <2>2 DEF TakerConfirms
    <2>4. m'.next = m.next
      <3> DEFINE h == MoveShards(m, c, m.procs[m.assigned[c]].cluster)
      <3>1. Good(h, m.next, {}) /\ h.next = m.next
        BY <1>0, <2>1, MoveShardsKeeps
      <3>2. m' = CheckReady(h)
        BY <2>3
      <3> HIDE DEF h, q
      <3>3. m'.next = h.next
        BY <3>1, <3>2, CheckReadyKeeps
      <3> QED BY <3>1, <3>3
    <2> HIDE DEF q
    <2> QED BY <1>0, <2>2, <2>3, <2>4 DEF Carried
  <1> QED BY <1>1, <1>2

\* A worker becomes ready, is heard of, or exits.
LEMMA WorkersCarry ==
    ASSUME Sane, Firm,
           \/ \E n \in Pids : WorkerReady(n) \/ Exits(n)
           \/ \E f \in frames : ReadyArrives(f)
    PROVE  Carried
  <1>0. /\ m \in Manager /\ Good(m, m.next, {}) /\ Fine(m, m.next, {}, frames)
        /\ \A f \in frames : f.pid \in Pid(m) /\ ~Gone(m, f.pid)
    BY DEF Firm, Good, Framed
  <1>1. ASSUME NEW n \in Pids, WorkerReady(n) PROVE Carried
    <2>1. m' = m
      BY <1>1 DEF WorkerReady
    <2>2. ~Allows("gap") => Unheard(m, frames')
      BY <1>1 DEF WorkerReady, Unheard
    <2>3. Fine(m, m.next, {}, frames')
      BY <1>0, <2>2 DEF Fine
    <2> QED BY <2>1, <2>3 DEF Carried
  <1>2. ASSUME NEW n \in Pids, Exits(n) PROVE Carried
    <2> DEFINE q == OnExit(m, n)
    <2>1. n \in Pid(m) /\ m.procs[n].state = "dead" /\ m' = q /\ frames' \in SUBSET frames
      BY <1>2 DEF Exits
    <2>2. Fine(q, m.next, {}, frames') /\ (q.allReady => m.allReady)
      BY <1>0, <2>1, OnExitIsFine
    <2>3. q.next = m.next
      BY <1>0, <2>1, OnExitKeeps
    <2> HIDE DEF q
    <2> QED BY <2>1, <2>2, <2>3 DEF Carried
  <1>3. ASSUME NEW f \in frames, ReadyArrives(f) PROVE Carried
    <2> DEFINE q == OnReady(m, f.pid, f.shards)
    <2>1. /\ f.pid \in Pid(m) /\ ~Gone(m, f.pid) /\ m' = q /\ frames' \in SUBSET frames
          /\ Current(m, f.pid) => m.info[m.procs[f.pid].cluster].state # "stopped"
      BY <1>0, <1>3 DEF ReadyArrives, Allows, Sane
    <2>2. /\ Fine(q, m.next, {}, frames')
          /\ ~Allows("gap") /\ ~m.allReady /\ q.allReady /\ ~m.stopping => Served(q)
      BY <1>0, <2>1, OnReadyIsFine
    <2>3. q.next = m.next
      BY <1>0, <2>1, OnReadyKeeps
    <2> HIDE DEF q
    <2> QED BY <2>1, <2>2, <2>3 DEF Carried
  <1> QED BY <1>1, <1>2, <1>3

LEMMA LikeRests ==
    ASSUME NEW p, AtRest(p), NEW q, Like(p, q)
    PROVE  AtRest(q)
  BY DEF AtRest, Like

\* Somebody begins to wait, a start goes on or fails, and a stop goes on or ends.
LEMMA StartsAndStopsCarry ==
    ASSUME Firm, CallReady \/ Lead \/ GatewayFails \/ LoseLock \/ Drains \/ ShutdownEnds
    PROVE  Carried
  <1>0. m \in Manager /\ Good(m, m.next, {}) /\ Fine(m, m.next, {}, frames) /\ frames' = frames
    BY DEF Firm, Good, CallReady, Lead, GatewayFails, LoseLock, Drains, ShutdownEnds
  <1>1. CASE CallReady
    <2>1. m' = [m EXCEPT !.waiters = m.waiters \cup {"user"}]
      BY <1>0, <1>1 DEF CallReady, Manager
    <2>2. /\ m'.info = m.info /\ m'.timers = m.timers /\ m'.owner = m.owner
          /\ m'.stop = m.stop /\ m'.assigned = m.assigned /\ m'.allReady = m.allReady
          /\ m'.start = m.start /\ m'.next = m.next /\ m'.queued = m.queued
          /\ m'.resigns = m.resigns /\ m'.leading = m.leading
      BY <1>0, <2>1 DEF Manager
    <2>3. Timed(m', {}) /\ Unasked(m') /\ Resigning(m')
      BY <1>0, <2>2 DEF Fine, Timed, Unasked, Resigning
    <2>4. ~Allows("late") => Hopeful(m')
      BY <1>1, <2>2 DEF CallReady, Hopeful, Hopeless
    <2>5. ~Allows("gap") => Placed(m', m'.next) /\ Unheard(m', frames')
      BY <1>0, <2>2 DEF Fine, Placed, Unheard, Every
    <2> QED BY <2>2, <2>3, <2>4, <2>5 DEF Fine, Carried
  <1>2. CASE Lead \/ GatewayFails
    <2>1. /\ m.start \in {"leading", "gateway"} /\ Quiet(m) /\ m.stop = "none"
          /\ \A c \in Clusters : m.info[c].state # "failed"
      BY <1>0, <1>2 DEF Good, Phased, Quiet, Lead, GatewayFails
    <2>2. Like(m, m')
      <3>1. CASE Lead
        <4>1. m' = [m EXCEPT !.leading = TRUE, !.start = "gateway"]
          BY <3>1 DEF Lead
        <4> QED BY <1>0, <4>1 DEF Like, Manager
      <3>2. CASE GatewayFails
        <4>1. m' = [m EXCEPT !.start = "none"]
          BY <3>2 DEF GatewayFails
        <4> QED BY <1>0, <2>1, <4>1 DEF Like, Manager
      <3> QED BY <1>2, <3>1, <3>2
    <2>3. Resigning(m')
      BY <2>1, <2>2 DEF Like, Resigning
    <2> QED BY <1>0, <2>2, <2>3, LikeCarries
  <1>3. CASE LoseLock
    <2> DEFINE g == Silenced(m, "kill")  q == Spawn(g)
    <2>1. m' = q
      BY <1>3 DEF LoseLock, StandDown, Silenced
    <2>2. Good(g, 0, {}) /\ Quiet(g) /\ g.leading = FALSE /\ g.allReady = m.allReady
      BY <1>0, SilencedKeeps
    <2> HIDE DEF g
    <2>3. AtRest(g) /\ g \in Manager
      BY <2>2, QuietRests DEF Good
    <2>4. Like(g, q) /\ q.leading = g.leading
      BY <2>3, SpawnIsLike
    <2> HIDE DEF q
    <2>5. AtRest(q) /\ Resigning(q) /\ q.allReady = m.allReady
      <3>1. AtRest(q) /\ q.allReady = g.allReady
        BY <2>3, <2>4, LikeRests DEF Like
      <3>2. ~q.leading
        BY <2>2, <2>4
      <3> QED BY <2>2, <3>1, <3>2 DEF Resigning
    <2> QED BY <2>1, <2>5, RestCarries
  <1>4. CASE Drains
    <2> DEFINE q == EndClusters(m)
    <2>1. m.stop = "draining" /\ m' = q /\ m.start = "none"
      BY <1>0, <1>4 DEF Drains, Good, Phased
    <2>2. /\ q.next = m.next
          /\ q.stop = "killing" /\ q.start = m.start /\ q.waiters = m.waiters
          /\ q.assigned = m.assigned /\ q.timers = m.timers /\ q.leading = m.leading
          /\ q.queued = m.queued /\ q.resigns = m.resigns /\ q.allReady = m.allReady
          /\ \A c \in Clusters : q.info[c].state # "stopping" => q.info[c] = m.info[c]
      BY <1>0, <2>1, EndClustersKeeps
    <2> HIDE DEF q
    <2>3. Timed(q, {}) /\ Unasked(q) /\ Resigning(q)
      BY <1>0, <2>1, <2>2 DEF Fine, Timed, Unasked, Resigning
    <2>4. ~Allows("late") => Hopeful(q)
      BY <1>0, <2>2 DEF Fine, Hopeful, Hopeless
    <2>5. Placed(q, q.next) /\ Unheard(q, frames')
      BY <2>1, <2>2 DEF Placed, Unheard
    <2> QED BY <2>1, <2>2, <2>3, <2>4, <2>5 DEF Fine, Carried
  <1>5. CASE ShutdownEnds
    <2>1. PICK g : /\ m' = IF m.queued THEN Spawn(g) ELSE g
                   /\ Good(g, g.next, {}) /\ Quiet(g) /\ g.stop = "none"
                   /\ g.allReady => m.allReady
      BY <1>0, <1>5, EndShutdownKeeps DEF ShutdownEnds
    <2>2. AtRest(g) /\ g \in Manager
      BY <2>1, QuietRests DEF Good
    <2>3. Like(g, Spawn(g)) /\ Like(g, g)
      BY <2>2, SpawnIsLike DEF Like
    <2>4. Like(g, m')
      BY <2>1, <2>3
    <2>5. AtRest(m') /\ Resigning(m') /\ (m'.allReady => m.allReady)
      BY <2>1, <2>2, <2>4, LikeRests DEF Like, Resigning
    <2> QED BY <2>5, RestCarries
  <1> QED BY <1>1, <1>2, <1>3, <1>4, <1>5

\* A cluster is launched, for the first time or again.
LEMMA LaunchesCarry ==
    ASSUME Firm, TypeOK, Counted,
           GatewayAnswers \/ SpawnsNext \/ \E t \in m.timers : Restarts(t)
    PROVE  Carried
  <1>0. /\ m \in Manager /\ Good(m, m.next, {}) /\ Fine(m, m.next, {}, frames)
        /\ \A f \in frames : f.pid \in Pid(m)
        /\ frames' = frames
    BY DEF Firm, Good, Framed, GatewayAnswers, SpawnsNext, Restarts
  <1>1. ASSUME NEW p, Good(p, p.next, {}), p.start = "launching", p.procs = m.procs,
               Fine(p, p.next, {}, frames), p.allReady = m.allReady,
               NEW throws \in BOOLEAN, Forks(throws), m' = LaunchNext(p, throws), InTime(m')
        PROVE  Carried
    <2> DEFINE q == LaunchNext(p, throws)
    <2>1. (~throws => Len(p.procs) < MaxProcs) /\ \A f \in frames : f.pid \in Pid(p)
      BY <1>0, <1>1 DEF Forks, Room, Pid
    <2>2. InTime(q)
      BY <1>1
    <2>3. Fine(q, q.next, {}, frames) /\ (q.allReady => p.allReady)
      BY <1>1, <2>1, <2>2, LaunchNextIsFine
    <2>4. m' = q
      BY <1>1
    <2> HIDE DEF q
    <2> QED BY <1>0, <1>1, <2>3, <2>4 DEF Carried
  <1>2. CASE GatewayAnswers
    <2>1. PICK throws \in BOOLEAN : Forks(throws) /\ m' = LaunchNext(PlanFleet(m), throws)
      BY <1>2 DEF GatewayAnswers
    <2>2. m.starts < MaxProcs + MaxFaults
      <3>0. /\ m.starts \in Nat /\ Len(m.procs) \in Nat /\ faults \in 0..MaxFaults
            /\ MaxProcs \in Nat /\ MaxFaults \in Nat /\ Len(m.procs) <= MaxProcs
            /\ m.starts <= Len(m.procs) + faults
        <4>1. m \in Manager /\ Len(m.procs) <= MaxProcs
          BY DEF Firm, Good
        <4> QED BY <4>1, Fields, Constants DEF Manager, TypeOK, Counted
      <3>1. CASE throws
        <4>1. faults < MaxFaults
          BY <2>1, <3>1 DEF Forks, Fault
        <4> QED BY <3>0, <4>1
      <3>2. CASE ~throws
        <4>1. Len(m.procs) < MaxProcs
          BY <2>1, <3>2 DEF Forks, Room
        <4> QED BY <3>0, <4>1
      <3> QED BY <3>1, <3>2
    <2> DEFINE p == PlanFleet(m)
    <2>3. m.start = "gateway" /\ InTime(m')
      BY <1>2 DEF GatewayAnswers
    <2>4. Good(p, 0, {}) /\ p.next = 0 /\ p.start = "launching" /\ p.procs = m.procs
      BY <1>0, <2>2, <2>3, PlanFleetKeeps
    <2>5. Fine(p, 0, {}, frames) /\ p.allReady = m.allReady
      BY <1>0, <2>3, PlanFleetIsFine
    <2>6. m' = LaunchNext(p, throws)
      BY <2>1
    <2> HIDE DEF p
    <2> QED BY <1>1, <2>1, <2>3, <2>4, <2>5, <2>6
  <1>3. CASE SpawnsNext
    <2>1. PICK throws \in BOOLEAN : Forks(throws) /\ m' = LaunchNext(m, throws)
      BY <1>3 DEF SpawnsNext
    <2>2. m.start = "launching" /\ InTime(m')
      BY <1>3 DEF SpawnsNext
    <2> QED BY <1>0, <1>1, <2>1, <2>2
  <1>4. ASSUME NEW t \in m.timers, Restarts(t) PROVE Carried
    <2>1. PICK throws \in BOOLEAN : Forks(throws) /\ m' = RestartFires(m, t, throws)
      BY <1>4 DEF Restarts
    <2> DEFINE q == RestartFires(m, t, throws)
    <2>2. ~throws => Len(m.procs) < MaxProcs
      BY <2>1 DEF Forks, Room
    <2>3. Fine(q, m.next, {}, frames) /\ (q.allReady => m.allReady)
      BY <1>0, <2>2, RestartIsFine
    <2>4. q.next = m.next
      BY <1>0, <2>2, RestartFiresKeeps
    <2>5. m' = q
      BY <2>1
    <2> HIDE DEF q
    <2> QED BY <1>0, <2>3, <2>4, <2>5 DEF Carried
  <1> QED BY <1>2, <1>3, <1>4

LEMMA NextCarries ==
    ASSUME Sane, IInv, Fine(m, m.next, {}, frames), Next
    PROVE  Carried
  <1>1. Firm /\ TypeOK /\ Counted
    BY DEF IInv, Firm
  <1>2. ASSUME CallSpawn \/ CallShutdown \/ CallKill \/ CallRespawn \/ ScaleAnswers
        PROVE  Carried
    BY <1>1, <1>2, CallsCarry
  <1>3. ASSUME CallReady \/ Lead \/ GatewayFails \/ LoseLock \/ Drains \/ ShutdownEnds
        PROVE  Carried
    BY <1>1, <1>3, StartsAndStopsCarry
  <1>4. ASSUME GatewayAnswers \/ SpawnsNext \/ \E t \in m.timers : Restarts(t)
        PROVE  Carried
    BY <1>1, <1>4, LaunchesCarry
  <1>5. ASSUME \/ ScaleAsks
               \/ \E c \in Clusters : Forgives(c) \/ StartTimesOut(c) \/ TakerStarts(c)
               \/ \E a \in Asks : CallAsk(a) \/ RequestTimesOut(a)
               \/ \E a \in Asks, n \in Pids : Answers(a, n)
               \/ \E n \in Pids : Dies(n) \/ GraceEnds(n)
        PROVE  Carried
    <2>1. AlikeStep
      BY <1>1, <1>5, StandingIsAlike DEF Firm
    <2> QED BY <1>1, <2>1, StandingCarries
  <1>6. ASSUME \/ \E n \in Pids : WorkerReady(n) \/ Exits(n)
               \/ \E f \in frames : ReadyArrives(f)
        PROVE  Carried
    BY <1>1, <1>6, WorkersCarry
  <1>7. ASSUME \E c \in Clusters : TakerFails(c) \/ TakerConfirms(c)
        PROVE  Carried
    BY <1>1, <1>7, TakerCarries
  <1> QED BY <1>2, <1>3, <1>4, <1>5, <1>6, <1>7 DEF Next

LEMMA RestIsCarried ==
    ASSUME Fine(m, m.next, {}, frames), UNCHANGED vars
    PROVE  Fine(m', m'.next, {}, frames')
  <1>1. m' = m /\ frames' = frames
    BY DEF vars
  <1> QED BY <1>1

LEMMA InitIsFine ==
    ASSUME Init
    PROVE  Fine(m, m.next, {}, frames)
  <1>1. Good(m, m.next, {})
    BY InitHolds DEF IInv
  <1>2. Quiet(m) /\ m.stop = "none"
    <2>1. m.start = "none" /\ m.stop = "none" /\ m.info = [c \in Clusters |-> Unknown]
      BY DEF Init
    <2>2. \A c \in Clusters : m.info[c].state = "unknown"
      BY <2>1 DEF Unknown
    <2> QED BY <1>1, <2>1, <2>2 DEF Good, Phased
  <1>3. AtRest(m) /\ Resigning(m)
    BY <1>1, <1>2, QuietRests DEF Resigning
  <1> QED BY <1>3, AtRestIsFine

-----------------------------------------------------------------------------
(* Nothing is launched that is not wanted.                                 *)

Willing == Races \cap {"scale", "lock", "stop"} = {}

\* Nothing is under way that could start a fleet, or bring one back.
Unwanted(p) ==
    /\ p.start = "none" /\ p.timers = {} /\ ~p.queued
    /\ p.stop = "none" =>
           ~p.leading /\ \A c \in Clusters : p.info[c].state # "failed"

\* What a step does while no fleet is wanted.
Abides == Len(m'.procs) = Len(m.procs) /\ (~wanted' => Unwanted(m'))

\* What a worker tells a manager that starts nothing.
LEMMA ReadyIsUnwanted ==
    ASSUME NEW p, NEW k, Good(p, k, {}), Unwanted(p), NEW n \in Pid(p), NEW shards
    PROVE  Unwanted(OnReady(p, n, shards))
  <1> DEFINE c == p.procs[n].cluster
             z == [p.info EXCEPT ![c].state = "ready"]
             h == [p EXCEPT !.info = z]
             q == CheckReady(h)
  <1>0. /\ p \in Manager /\ p.info \in [Clusters -> Info] /\ c \in Clusters
        /\ "spawn" \notin p.waiters
    BY Fields DEF Good, Process, Phased, Unwanted
  <1>1. CASE ~Current(p, n) \/ ~(shards \subseteq p.info[c].shards)
    BY <1>1 DEF OnReady
  <1>2. CASE ~(~Current(p, n) \/ ~(shards \subseteq p.info[c].shards))
    <2>1. OnReady(p, n, shards) = q
      BY <1>0, <1>2 DEF OnReady, Manager
    <2>2. \A d \in Clusters : z[d].state \in {p.info[d].state, "ready"}
      BY <1>0 DEF Info
    <2> HIDE DEF z
    <2>3. /\ h.info = z /\ h.start = p.start /\ h.timers = p.timers /\ h.queued = p.queued
          /\ h.stop = p.stop /\ h.leading = p.leading /\ h.waiters = p.waiters
      BY <1>0 DEF Manager
    <2>4. /\ q.info = h.info /\ q.start = h.start /\ q.timers = h.timers
          /\ q.queued = h.queued /\ q.stop = h.stop /\ q.leading = h.leading
      <3>1. CASE IsReady(h)
        <4>1. q = [h EXCEPT !.waiters = {}, !.allReady = TRUE, !.start = h.start]
          BY <1>0, <2>3, <3>1 DEF CheckReady, Manager
        <4> HIDE DEF q
        <4> QED BY <1>0, <2>3, <4>1 DEF Manager
      <3>2. CASE ~IsReady(h)
        <4>1. q = h
          BY <3>2 DEF CheckReady
        <4> QED BY <4>1
      <3> QED BY <3>1, <3>2
    <2> HIDE DEF q, h
    <2> QED BY <2>1, <2>2, <2>3, <2>4 DEF Unwanted
  <1> QED BY <1>1, <1>2

\* While nothing is wanted, every exit is expected.
LEMMA ExitIsUnwanted ==
    ASSUME NEW p, NEW k, Good(p, k, {}), Unwanted(p), NEW n \in Pid(p)
    PROVE  Unwanted(OnExit(p, n))
  <1> DEFINE c == p.procs[n].cluster
             x == [p.procs[n] EXCEPT !.state = "gone"]
             y == [p.procs EXCEPT ![n] = x]
             h == [p EXCEPT !.procs = y, !.awaited = p.awaited \ {n}]
             f == FailOwner(h, c)
             u == f.up \ {c}
  <1>0. /\ p \in Manager /\ p.info \in [Clusters -> Info] /\ c \in Clusters
        /\ p.procs[n] \in Process /\ p.awaited \subseteq Pids /\ n # 0
    BY Fields DEF Good, Process
  <1>1. y \in Seq(Process)
    <2>1. x \in Process
      BY <1>0 DEF Process
    <2> HIDE DEF x
    <2> QED BY <1>0, <2>1, Fields, ExceptSeq DEF Pid
  <1> HIDE DEF y
  <1>2. h \in Manager
    BY <1>0, <1>1 DEF Manager
  <1>3. [p EXCEPT !.procs[n].state = "gone", !.awaited = @ \ {n}] = h
    BY <1>0 DEF Manager, y
  <1>4. /\ h.info = p.info /\ h.start = p.start /\ h.timers = p.timers
        /\ h.queued = p.queued /\ h.stop = p.stop /\ h.leading = p.leading
        /\ h.waiters = p.waiters
    BY <1>0 DEF Manager
  <1> HIDE DEF h
  <1>5. CASE ~Current(p, n)
    <2>1. OnExit(p, n) = h
      BY <1>3, <1>5 DEF OnExit
    <2> QED BY <1>4, <2>1 DEF Unwanted
  <1>6. CASE Current(p, n)
    <2>1. Expected(p, c)
      <3>1. CASE p.stopping
        BY <3>1 DEF Expected
      <3>2. CASE ~p.stopping
        <4>1. Quiet(p)
          BY <3>2 DEF Good, Phased, Unwanted
        <4>2. p.info[c].state # "unknown"
          BY <1>0, <1>6 DEF Good, Refs, Current, Unknown
        <4> QED BY <1>0, <4>1, <4>2 DEF Quiet, Expected
      <3> QED BY <3>1, <3>2
    <2>2. Eased(h, f) /\ f \in Manager
      <3>1. Awaited(h)
        BY Zenon, <1>4 DEF Awaited, Good, Phased
      <3> QED BY <1>0, <1>2, <3>1, FailOwnerEases
    <2>3. OnExit(p, n) = [[f EXCEPT !.up = u, !.allReady = FALSE] EXCEPT !.info[c].state = "stopped"]
      BY <1>3, <1>6, <2>1, <2>2 DEF OnExit, Manager
    <2>4. OnExit(p, n) = [f EXCEPT !.up = u, !.allReady = FALSE,
                                   !.info = [f.info EXCEPT ![c].state = "stopped"]]
      BY <2>2, <2>3 DEF Manager
    <2> DEFINE q == OnExit(p, n)  z == [f.info EXCEPT ![c].state = "stopped"]
    <2>5. \A d \in Clusters : z[d].state \in {f.info[d].state, "stopped"}
      BY <2>2, Fields DEF Info
    <2> HIDE DEF f, q, z, u
    <2>6. /\ q.info = z /\ q.start = f.start /\ q.timers = f.timers /\ q.queued = f.queued
          /\ q.stop = f.stop /\ q.leading = f.leading
      BY <2>2, <2>4 DEF Manager, q, z
    <2>7. /\ f.info = h.info /\ f.timers = h.timers /\ f.queued = h.queued
          /\ f.stop = h.stop /\ f.leading = h.leading /\ f.start \in {h.start, "none"}
      BY <2>2 DEF Eased, Steady
    <2>8. Unwanted(q)
      BY <1>4, <2>5, <2>6, <2>7 DEF Unwanted
    <2> QED BY <2>8 DEF q
  <1> QED BY <1>5, <1>6

\* A stop clears what could start a fleet, unless it was asked during a respawn.
LEMMA StopsAreUnwanted ==
    ASSUME Willing, Good(m, m.next, {}), CallShutdown \/ CallKill
    PROVE  Unwanted(m')
  <1>0. m \in Manager /\ ~m.queued
    BY DEF Good, CallShutdown, CallKill, Allows, Willing
  <1>1. CASE CallShutdown
    <2>1. CASE m.stop = "none"
      <3> DEFINE q == Shutdown(m, TRUE)
      <3>1. /\ q.queued = m.queued /\ q.stop = "draining" /\ q.start = "none"
            /\ q.timers = {}
        BY <1>0, <2>1, ShutdownIs
      <3>2. m' = q
        BY <1>1 DEF CallShutdown
      <3> HIDE DEF q
      <3> QED BY <1>0, <3>1, <3>2 DEF Unwanted
    <2>2. CASE m.stop # "none"
      <3>1. m' = m
        BY <1>1, <2>2 DEF CallShutdown, Shutdown
      <3> QED BY <1>0, <2>2, <3>1 DEF Good, Phased, Unwanted
    <2> QED BY <2>1, <2>2
  <1>2. CASE CallKill
    <2> DEFINE q == Silenced(m, "term")
    <2>1. Quiet(q) /\ q.queued = m.queued /\ q.leading = FALSE /\ q.start = "none"
      BY SilencedKeeps
    <2>2. m' = q
      BY <1>2 DEF CallKill, KillAll, Silenced
    <2> HIDE DEF q
    <2> QED BY <1>0, <2>1, <2>2 DEF Quiet, Unwanted
  <1> QED BY <1>1, <1>2

LEMMA CallsAbide ==
    ASSUME Willing, Firm, ~wanted, Unwanted(m),
           CallSpawn \/ CallShutdown \/ CallKill \/ CallRespawn \/ ScaleAnswers
    PROVE  Abides
  <1>0. m \in Manager /\ Good(m, m.next, {})
    BY DEF Firm, Good
  <1>1. CASE CallSpawn
    <2>1. m' = Spawn(m) /\ wanted' = TRUE
      BY <1>1 DEF CallSpawn
    <2>2. m'.procs = m.procs
      BY <1>0, <2>1 DEF Spawn, Manager
    <2> QED BY <2>1, <2>2 DEF Abides
  <1>2. CASE CallRespawn
    <2>1. m' = Respawn(m) /\ wanted' = TRUE
      BY <1>2 DEF CallRespawn
    <2>2. m'.procs = m.procs
      BY <1>0, <2>1, RespawnIs
    <2> QED BY <2>1, <2>2 DEF Abides
  <1>3. CASE ScaleAnswers
    BY <1>3 DEF ScaleAnswers, Allows, Willing
  <1>4. CASE CallShutdown \/ CallKill
    <2>1. Len(m'.procs) = Len(m.procs)
      <3>1. CASE CallShutdown
        BY <1>0, <3>1, ShutdownKeeps DEF CallShutdown
      <3>2. CASE CallKill
        <4> DEFINE q == Silenced(m, "term")
        <4>1. Len(q.procs) = Len(m.procs)
          BY <1>0, SilencedKeeps
        <4>2. m' = q
          BY <3>2 DEF CallKill, KillAll, Silenced
        <4> HIDE DEF q
        <4> QED BY <4>1, <4>2
      <3> QED BY <1>4, <3>1, <3>2
    <2>2. Unwanted(m')
      BY <1>0, <1>4, StopsAreUnwanted
    <2> QED BY <2>1, <2>2 DEF Abides
  <1> QED BY <1>1, <1>2, <1>3, <1>4

\* While no fleet is wanted, nothing is launched, and nothing becomes wanted.
LEMMA NextAbides ==
    ASSUME Sane, Willing, IInv, Fine(m, m.next, {}, frames), ~wanted, Unwanted(m), Next
    PROVE  Abides
  <1>0. m \in Manager /\ Good(m, m.next, {}) /\ Firm /\ Framed
    BY DEF IInv, Good, Firm
  <1>1. \A c \in Clusters : m.assigned[c] = 0
    BY <1>0 DEF Firm, Fine, Unasked, Unwanted, Good, Asked
  <1>2. m.start = "none" /\ m.timers = {} /\ ~m.queued
    BY DEF Unwanted
  <1>3. CASE CallSpawn \/ CallShutdown \/ CallKill \/ CallRespawn \/ ScaleAnswers
    BY <1>0, <1>3, CallsAbide
  <1>4. CASE Lead \/ GatewayAnswers \/ GatewayFails \/ SpawnsNext
    BY <1>2, <1>4 DEF Lead, GatewayAnswers, GatewayFails, SpawnsNext
  <1>5. CASE LoseLock
    BY <1>5 DEF LoseLock, Allows, Willing, Unwanted
  <1>6. CASE \E t \in m.timers : Restarts(t)
    BY <1>2, <1>6
  <1>7. CASE \E c \in Clusters : TakerConfirms(c) \/ TakerFails(c)
    BY <1>1, <1>7 DEF TakerConfirms, TakerFails
  <1>8. CASE CallReady
    <2>1. m' = [m EXCEPT !.waiters = m.waiters \cup {"user"}]
      BY <1>0, <1>8 DEF CallReady, Manager
    <2>2. /\ m'.info = m.info /\ m'.timers = m.timers /\ m'.stop = m.stop
          /\ m'.start = m.start /\ m'.queued = m.queued /\ m'.leading = m.leading
          /\ m'.procs = m.procs
      BY <1>0, <2>1 DEF Manager
    <2> QED BY <2>2 DEF Unwanted, Abides
  <1>9. CASE Drains
    <2> DEFINE q == EndClusters(m)
    <2>1. m.stop = "draining" /\ m' = q
      BY <1>9 DEF Drains
    <2>2. /\ Len(q.procs) = Len(m.procs) /\ q.stop = "killing" /\ q.start = m.start
          /\ q.timers = m.timers /\ q.queued = m.queued
      BY <1>0, <2>1, EndClustersKeeps
    <2> HIDE DEF q
    <2> QED BY <1>2, <2>1, <2>2 DEF Unwanted, Abides
  <1>10. CASE ShutdownEnds
    <2>1. m.stop # "none" /\ m'.procs = m.procs
      BY <1>0, <1>10, EndShutdownKeeps DEF ShutdownEnds
    <2>2. PICK g : /\ m' = IF m.queued THEN Spawn(g) ELSE g
                   /\ Good(g, g.next, {}) /\ Quiet(g) /\ g.stop = "none" /\ ~g.queued
                   /\ g.start = "none"
                   /\ g.leading => m.leading /\ ~m.resigns
      BY <1>0, <1>10, EndShutdownKeeps DEF ShutdownEnds
    <2>3. ~g.leading
      BY <1>0, <1>2, <2>1, <2>2 DEF Firm, Fine, Resigning
    <2>4. Unwanted(g)
      BY <2>2, <2>3 DEF Quiet, Unwanted
    <2> QED BY <1>2, <2>1, <2>2, <2>4 DEF Abides
  <1>11. ASSUME \/ ScaleAsks
                \/ \E c \in Clusters : Forgives(c) \/ StartTimesOut(c) \/ TakerStarts(c)
                \/ \E a \in Asks : CallAsk(a) \/ RequestTimesOut(a)
                \/ \E a \in Asks, n \in Pids : Answers(a, n)
                \/ \E n \in Pids : Dies(n) \/ GraceEnds(n)
         PROVE  Abides
    <2>1. AlikeStep
      BY <1>0, <1>11, StandingIsAlike
    <2> QED BY <2>1 DEF AlikeStep, Alike, Unwanted, Abides
  <1>12. ASSUME NEW n \in Pids, WorkerReady(n) PROVE Abides
    BY <1>12 DEF WorkerReady, Abides
  <1>13. ASSUME NEW n \in Pids, Exits(n) PROVE Abides
    <2> DEFINE q == OnExit(m, n)
    <2>1. n \in Pid(m) /\ m.procs[n].state = "dead" /\ m' = q
      BY <1>13 DEF Exits
    <2>2. Unwanted(q)
      BY <1>0, <2>1, ExitIsUnwanted
    <2>3. Len(q.procs) = Len(m.procs)
      BY <1>0, <2>1, OnExitKeeps
    <2> HIDE DEF q
    <2> QED BY <2>1, <2>2, <2>3 DEF Abides
  <1>14. ASSUME NEW f \in frames, ReadyArrives(f) PROVE Abides
    <2> DEFINE q == OnReady(m, f.pid, f.shards)
    <2>1. /\ f.pid \in Pid(m) /\ ~Gone(m, f.pid) /\ m' = q
          /\ Current(m, f.pid) => m.info[m.procs[f.pid].cluster].state # "stopped"
      BY <1>0, <1>14 DEF Framed, ReadyArrives, Allows, Sane
    <2>2. Unwanted(q)
      BY <1>0, <2>1, ReadyIsUnwanted
    <2>3. q.procs = m.procs
      BY <1>0, <2>1, OnReadyKeeps
    <2> HIDE DEF q
    <2> QED BY <2>1, <2>2, <2>3 DEF Abides
  <1> QED BY <1>3, <1>4, <1>5, <1>6, <1>7, <1>8, <1>9, <1>10, <1>11, <1>12, <1>13, <1>14
          DEF Next

-----------------------------------------------------------------------------
(* Theorems of the second invariant.                                       *)

FInv == IInv /\ Fine(m, m.next, {}, frames)
WInv == FInv /\ (~wanted => Unwanted(m))

LEMMA FineHolds ==
    ASSUME Sane
    PROVE  Spec => []FInv
  <1>1. Init => FInv
    BY InitHolds, InitIsFine DEF FInv
  <1>2. FInv /\ [Next]_vars => FInv'
    <2> SUFFICES ASSUME FInv, [Next]_vars PROVE FInv'
      OBVIOUS
    <2>1. IInv'
      BY StepHolds DEF FInv
    <2>2. CASE Next
      BY <2>1, <2>2, NextCarries DEF FInv, Carried
    <2>3. CASE UNCHANGED vars
      BY <2>1, <2>3, RestIsCarried DEF FInv
    <2> QED BY <2>2, <2>3
  <1> QED BY <1>1, <1>2, PTL DEF Spec

\* A cluster that is to be restarted has its timer, and nobody waits for one that
\* failed for good, unless somebody may begin to wait after that ("late").
THEOREM NobodyWaitsHolds ==
    ASSUME Sane, ~Allows("late")
    PROVE  Spec => []NobodyWaitsInVain
  <1>1. FInv => NobodyWaitsInVain
    BY DEF FInv, IInv, Good, Refs, Fine, Timed, Hopeful, NobodyWaitsInVain
  <1> QED BY <1>1, FineHolds, PTL

\* The manager's invariant: its state is well typed, the owners of the shards agree,
\* whoever was asked can answer, and nobody waits in vain.
THEOREM InvHolds ==
    ASSUME Sane, ~Allows("late")
    PROVE  Spec => []Inv
  <1>1. TypeOK /\ OwnersAgree /\ AskedCanAnswer /\ NobodyWaitsInVain => Inv
    BY DEF Inv
  <1> QED BY <1>1, TypesHold, OwnersAgreeHolds, AskedCanAnswerHolds, NobodyWaitsHolds, PTL

\* The fleet is announced ready, outside a stop, only when every shard has an owner
\* that is, unless a cluster is heard of while others are still to be launched ("gap").
THEOREM ReadyMeansServedHolds ==
    ASSUME Sane, ~Allows("gap")
    PROVE  Spec => ReadyMeansServed
  <1>1. FInv /\ [Next]_vars =>
            [~m.allReady /\ m'.allReady /\ ~m.stopping =>
                \A s \in Shards : m'.owner[s] # NoCluster
                                  /\ m'.info[m'.owner[s]].state = "ready"]_vars
    <2> SUFFICES ASSUME FInv, Next, ~m.allReady, m'.allReady, ~m.stopping
                 PROVE  \A s \in Shards : m'.owner[s] # NoCluster
                                          /\ m'.info[m'.owner[s]].state = "ready"
      OBVIOUS
    <2>1. Carried
      BY NextCarries DEF FInv
    <2>2. Served(m')
      BY <2>1 DEF Carried
    <2> QED BY <2>2 DEF Served
  <1> QED BY <1>1, FineHolds, PTL DEF Spec, ReadyMeansServed

\* A deliberate stop is final: nothing is forked until the application asks for a
\* fleet again, unless a check of the shard count is answered after the stop, the
\* lock is lost during it, or it was asked while a respawn was under way.
THEOREM StopsForGoodHolds ==
    ASSUME Sane, Willing
    PROVE  Spec => StopsForGood
  <1>1. Init => WInv
    <2> SUFFICES ASSUME Init PROVE WInv
      OBVIOUS
    <2>1. FInv
      BY InitHolds, InitIsFine DEF FInv
    <2>2. m.info = [c \in Clusters |-> Unknown] /\ Unknown.state = "unknown"
      BY DEF Init, Unknown
    <2>3. \A c \in Clusters : m.info[c].state # "failed"
      BY <2>2
    <2>4. m.start = "none" /\ m.timers = {} /\ ~m.queued /\ ~m.leading
      BY DEF Init
    <2> QED BY <2>1, <2>3, <2>4 DEF Unwanted, WInv
  <1>2. WInv /\ [Next]_vars => WInv'
    <2> SUFFICES ASSUME WInv, [Next]_vars PROVE WInv'
      OBVIOUS
    <2>1. FInv'
      <3>1. IInv'
        BY StepHolds DEF FInv, WInv
      <3>2. CASE Next
        BY <3>1, <3>2, NextCarries DEF FInv, WInv, Carried
      <3>3. CASE UNCHANGED vars
        BY <3>1, <3>3, RestIsCarried DEF FInv, WInv
      <3> QED BY <3>2, <3>3
    <2>2. CASE UNCHANGED vars
      BY <2>1, <2>2 DEF WInv, vars
    <2>3. CASE Next /\ ~wanted
      BY <2>1, <2>3, NextAbides DEF WInv, FInv, Abides
    <2>4. CASE Next /\ wanted
      <3>1. ASSUME ~wanted' PROVE CallShutdown \/ CallKill
        BY <2>4, <3>1 DEF Next, CallSpawn, CallRespawn, CallReady, Lead, LoseLock,
           GatewayAnswers, GatewayFails, SpawnsNext, ScaleAsks, ScaleAnswers, Drains,
           ShutdownEnds, CallAsk, RequestTimesOut, Answers, WorkerReady, Dies, Exits,
           GraceEnds, ReadyArrives, Restarts, StartTimesOut, Forgives, TakerStarts,
           TakerConfirms, TakerFails
      <3>2. Good(m, m.next, {})
        BY DEF WInv, FInv, IInv
      <3>3. ~wanted' => Unwanted(m')
        BY <3>1, <3>2, StopsAreUnwanted
      <3> QED BY Zenon, <2>1, <3>3 DEF WInv
    <2> QED BY <2>2, <2>3, <2>4
  <1>3. WInv /\ [Next]_vars => [Len(m'.procs) > Len(m.procs) => wanted]_vars
    <2> SUFFICES ASSUME WInv, Next, ~wanted
                 PROVE  ~(Len(m'.procs) > Len(m.procs))
      OBVIOUS
    <2>1. Len(m'.procs) = Len(m.procs)
      BY NextAbides DEF WInv, FInv, Abides
    <2>2. Len(m.procs) \in Nat
      BY Fields DEF WInv, FInv, IInv, Good
    <2> QED BY <2>1, <2>2
  <1> QED BY <1>1, <1>2, <1>3, PTL DEF Spec, StopsForGood

=============================================================================
