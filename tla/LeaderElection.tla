--------------------------- MODULE LeaderElection ---------------------------
(***************************************************************************)
(* Leadership between coordinators: RedisLeaderLock (packages/sharding/    *)
(* src/leader.ts) and the methods of ClusterManager that take, renew, lose *)
(* and give back the lock (cluster.ts: #lead, #startRenewing, #standDown,  *)
(* #resign, killAll, #shutdown).                                           *)
(*                                                                         *)
(* Time advances in ticks of a quarter of the lock's lifetime, the         *)
(* interval of the renewals; a timer fires within the tick it is due in.   *)
(* Redis carries out the commands of one coordinator in the order they     *)
(* were sent; the answers may come in any order, too late or never.        *)
(* A coordinator that crashes comes back with another token.               *)
(***************************************************************************)
EXTENDS Integers, SequencesExt

CONSTANTS
    Coordinators, Nobody,
    Quarter,        \* ticks of a quarter of leader.ttl
    SpawnsOver,     \* spawn() may be called while a command of a start that
                    \* killAll() ended is still under way
    MaxCalls,       \* bound: commands under way at a time
    MaxCommands     \* bound: spawn(), killAll(), shutdownAll() and crashes

ASSUME LeaderAssumption ==
    /\ Quarter \in Nat \ {0} /\ MaxCalls \in Nat /\ MaxCommands \in Nat
    /\ SpawnsOver \in BOOLEAN /\ Nobody \notin Coordinators

VARIABLES
    lock,       \* the key in Redis: its holder, Nobody once that has crashed,
                \* and the ticks left
    calls,      \* the commands under way, oldest first
    start,      \* #start, up to the launch of the fleet
    stops,      \* #stopping, while #shutdown waits for a start to end
    leading,
    since,      \* ticks since #lastRenew
    timer,      \* ticks to the next renewal; none while negative
    renewing,
    commands

vars == <<lock, calls, start, stops, leading, since, timer, renewing, commands>>

Ttl == 4 * Quarter

\* by: who waits for the answer; stale: for a start that is over.
Call == [kind: {"acquire", "release"}, by: {"lead", "renew", "nobody"},
         stale: BOOLEAN, age: 0..Ttl, done: BOOLEAN, held: BOOLEAN]

TypeOK ==
    /\ lock \in [holder: Coordinators \cup {Nobody}, left: 0..Ttl]
    /\ calls \in [Coordinators -> Seq(Call)]
    /\ start \in [Coordinators -> {"none", "asking", "resting", "leading"}]
    /\ stops \in [Coordinators -> BOOLEAN]
    /\ leading \in [Coordinators -> BOOLEAN]
    /\ since \in [Coordinators -> 0..Ttl]
    /\ timer \in [Coordinators -> -1..Quarter]
    /\ renewing \in [Coordinators -> BOOLEAN]
    /\ commands \in 0..MaxCommands

Init ==
    /\ lock = [holder |-> Nobody, left |-> 0]
    /\ calls = [k \in Coordinators |-> <<>>]
    /\ start = [k \in Coordinators |-> "none"]
    /\ stops = [k \in Coordinators |-> FALSE]
    /\ leading = [k \in Coordinators |-> FALSE]
    /\ since = [k \in Coordinators |-> 0]
    /\ timer = [k \in Coordinators |-> -1]
    /\ renewing = [k \in Coordinators |-> FALSE]
    /\ commands = 0

-----------------------------------------------------------------------------
\* Commands to Redis.

Sent(kind, by) == [kind |-> kind, by |-> by, stale |-> FALSE, age |-> 0,
                   done |-> FALSE, held |-> FALSE]

\* A start that a stop made stale still waits for its answer.
Staled(queue) ==
    [i \in DOMAIN queue |-> [queue[i] EXCEPT !.stale = @ \/ queue[i].by = "lead"]]

\* A new term has no use for the renewals of the one before.
NewTerm(queue) ==
    [i \in DOMAIN queue |-> IF queue[i].by = "renew" THEN [queue[i] EXCEPT !.by = "nobody"]
                            ELSE queue[i]]

StartOut(k) == \E i \in DOMAIN calls[k] : calls[k][i].by = "lead"

\* The first command that Redis has not carried out.
NextCall(k) ==
    CHOOSE i \in DOMAIN calls[k] :
        ~calls[k][i].done /\ \A j \in 1..i - 1 : calls[k][j].done

Free(k) == lock.holder = k \/ lock.left = 0

\* The scripts ACQUIRE and RELEASE.
Executes(k) ==
    /\ \E i \in DOMAIN calls[k] : ~calls[k][i].done
    /\ LET i == NextCall(k) IN
        /\ calls' = [calls EXCEPT ![k][i] = [@ EXCEPT !.done = TRUE, !.held = Free(k)]]
        /\ lock' = IF calls[k][i].kind = "acquire"
                   THEN IF Free(k) THEN [holder |-> k, left |-> Ttl] ELSE lock
                   ELSE IF lock.holder = k THEN [holder |-> Nobody, left |-> 0] ELSE lock
    /\ UNCHANGED <<start, stops, leading, since, timer, renewing, commands>>

-----------------------------------------------------------------------------
\* What the coordinator does.

Command == commands < MaxCommands /\ commands' = commands + 1
CanSend(k) == Len(calls[k]) < MaxCalls

\* #lead, once more around its loop.
Ask(k, queue) ==
    /\ start' = [start EXCEPT ![k] = "asking"]
    /\ calls' = [calls EXCEPT ![k] = Append(queue, Sent("acquire", "lead"))]

Idle(k) ==
    /\ timer' = [timer EXCEPT ![k] = -1]
    /\ leading' = [leading EXCEPT ![k] = FALSE]

CallSpawn(k) ==
    /\ Command /\ CanSend(k)
    /\ start[k] = "none" /\ ~leading[k] /\ ~stops[k]
    /\ SpawnsOver \/ ~StartOut(k)
    /\ Ask(k, calls[k])
    /\ UNCHANGED <<lock, stops, leading, since, timer, renewing>>

\* #resign: the lock is given back, after what was sent before.
Resign(k, queue) ==
    /\ Idle(k)
    /\ calls' = [calls EXCEPT ![k] = IF leading[k]
                                     THEN Append(queue, Sent("release", "nobody")) ELSE queue]

\* killAll().
CallKill(k) ==
    /\ Command /\ CanSend(k)
    /\ start' = [start EXCEPT ![k] = "none"]
    /\ Resign(k, Staled(calls[k]))
    /\ UNCHANGED <<lock, stops, since, renewing>>

\* shutdownAll(): #halt, and the wait for a start that is now stale.
CallShutdown(k) ==
    /\ Command /\ ~stops[k]
    /\ stops' = [stops EXCEPT ![k] = TRUE]
    /\ start' = [start EXCEPT ![k] = "none"]
    /\ calls' = [calls EXCEPT ![k] = Staled(@)]
    /\ UNCHANGED <<lock, leading, since, timer, renewing>>

\* #shutdown, its end.
ShutdownEnds(k) ==
    /\ stops[k] /\ ~StartOut(k) /\ CanSend(k)
    /\ stops' = [stops EXCEPT ![k] = FALSE]
    /\ Resign(k, calls[k])
    /\ UNCHANGED <<lock, start, since, renewing, commands>>

Crashes(k) ==
    /\ Command
    /\ calls' = [calls EXCEPT ![k] = <<>>]
    /\ start' = [start EXCEPT ![k] = "none"]
    /\ stops' = [stops EXCEPT ![k] = FALSE]
    /\ Idle(k)
    /\ renewing' = [renewing EXCEPT ![k] = FALSE]
    /\ lock' = IF lock.holder = k THEN [lock EXCEPT !.holder = Nobody] ELSE lock
    /\ UNCHANGED since

\* #lead: the answer to a start that is stale, which gives the lock back.
StaleAnswer(k, call, queue) ==
    /\ call.by = "lead" /\ call.stale
    /\ calls' = [calls EXCEPT ![k] = IF call.held
                                     THEN Append(queue, Sent("release", "nobody")) ELSE queue]
    /\ UNCHANGED <<start, leading, since, timer, renewing>>

\* Mutant: the lock is renewed every half of its lifetime.
LeadSlowly(k, queue, age) ==
    /\ start' = [start EXCEPT ![k] = "leading"]
    /\ leading' = [leading EXCEPT ![k] = TRUE]
    /\ since' = [since EXCEPT ![k] = age]
    /\ timer' = [timer EXCEPT ![k] = 2 * Quarter]
    /\ renewing' = [renewing EXCEPT ![k] = FALSE]
    /\ calls' = [calls EXCEPT ![k] = NewTerm(queue)]

\* Mutant: a renewal of an earlier term blocks those of this one.
LeadKeepsRenewing(k, queue, age) ==
    /\ start' = [start EXCEPT ![k] = "leading"]
    /\ leading' = [leading EXCEPT ![k] = TRUE]
    /\ since' = [since EXCEPT ![k] = age]
    /\ timer' = [timer EXCEPT ![k] = Quarter]
    /\ calls' = [calls EXCEPT ![k] = NewTerm(queue)]
    /\ UNCHANGED renewing

\* #startRenewing, in a term that counts from the time given.
Lead(k, queue, age) ==
    /\ start' = [start EXCEPT ![k] = "leading"]
    /\ leading' = [leading EXCEPT ![k] = TRUE]
    /\ since' = [since EXCEPT ![k] = age]
    /\ timer' = [timer EXCEPT ![k] = Quarter]
    /\ renewing' = [renewing EXCEPT ![k] = FALSE]
    /\ calls' = [calls EXCEPT ![k] = NewTerm(queue)]

Rest(k, queue) ==
    /\ start' = [start EXCEPT ![k] = "resting"]
    /\ calls' = [calls EXCEPT ![k] = queue]
    /\ UNCHANGED <<leading, since, timer, renewing>>

\* Mutant: the first renewal is due from the answer.
LeadAnswerFromNow(k, call, queue) ==
    /\ call.by = "lead" /\ ~call.stale
    /\ IF call.held THEN Lead(k, queue, 0) ELSE Rest(k, queue)

\* #lead: the answer, and #startRenewing.
LeadAnswer(k, call, queue) ==
    /\ call.by = "lead" /\ ~call.stale
    /\ IF call.held THEN Lead(k, queue, call.age) ELSE Rest(k, queue)

\* #standDown: what is killed, and the lock asked for again; during a stop the
\* new start waits for its end, and is left out here.
StandDown(k, queue) ==
    /\ Idle(k)
    /\ IF stops[k]
       THEN /\ start' = [start EXCEPT ![k] = "none"]
            /\ calls' = [calls EXCEPT ![k] = queue]
       ELSE Ask(k, queue)

\* #startRenewing: the answer to a renewal of this term.
RenewAnswer(k, call, queue) ==
    /\ call.by = "renew"
    /\ renewing' = [renewing EXCEPT ![k] = FALSE]
    /\ IF leading[k] /\ ~call.held
       THEN StandDown(k, queue) /\ UNCHANGED since
       ELSE /\ calls' = [calls EXCEPT ![k] = queue]
            /\ since' = [since EXCEPT ![k] = IF leading[k] THEN call.age ELSE @]
            /\ UNCHANGED <<start, leading, timer>>

Answers(k) ==
    /\ \E i \in DOMAIN calls[k] :
        LET call == calls[k][i]
            queue == RemoveAt(calls[k], i) IN
        /\ call.done
        /\ \/ StaleAnswer(k, call, queue)
           \/ LeadAnswer(k, call, queue)
           \/ RenewAnswer(k, call, queue)
           \/ /\ call.by = "nobody"
              /\ calls' = [calls EXCEPT ![k] = queue]
              /\ UNCHANGED <<start, leading, since, timer, renewing>>
    /\ UNCHANGED <<lock, stops, commands>>

\* withTimeout: half the lifetime for #lead, a quarter for a renewal.
Late(call) ==
    \/ call.by = "lead" /\ call.age >= 2 * Quarter
    \/ call.by = "renew" /\ call.age >= Quarter

TimesOut(k) ==
    /\ \E i \in DOMAIN calls[k] : Late(calls[k][i])
    /\ LET i == CHOOSE i \in DOMAIN calls[k] : Late(calls[k][i])
           call == calls[k][i] IN
        /\ calls' = [calls EXCEPT ![k][i] = [@ EXCEPT !.by = "nobody"]]
        /\ start' = IF call.by = "lead" /\ ~call.stale
                    THEN [start EXCEPT ![k] = "resting"] ELSE start
        /\ renewing' = IF call.by = "renew" THEN [renewing EXCEPT ![k] = FALSE] ELSE renewing
    /\ UNCHANGED <<lock, stops, leading, since, timer, commands>>

\* #lead, after its pause.
AsksAgain(k) ==
    /\ start[k] = "resting" /\ CanSend(k)
    /\ Ask(k, calls[k])
    /\ UNCHANGED <<lock, stops, leading, since, timer, renewing, commands>>

\* Mutant: the leader stands down when the lock has lapsed.
TooOldAtTtl(k) == since[k] >= 4 * Quarter

\* More than half the lifetime since #lastRenew.
TooOld(k) == since[k] >= 2 * Quarter

\* The timer of #startRenewing.  Within the tick in which half the lifetime
\* ends, it may come before or after that moment.
TimerFires(k) ==
    /\ timer[k] = 0
    /\ \/ /\ TooOld(k)
          /\ StandDown(k, calls[k])
          /\ UNCHANGED renewing
       \/ /\ ~TooOld(k) \/ since[k] = 2 * Quarter
          /\ timer' = [timer EXCEPT ![k] = Quarter]
          /\ IF renewing[k] \/ ~CanSend(k)
             THEN UNCHANGED <<calls, renewing>>
             ELSE /\ calls' = [calls EXCEPT ![k] = Append(@, Sent("acquire", "renew"))]
                  /\ renewing' = [renewing EXCEPT ![k] = TRUE]
          /\ UNCHANGED <<start, leading>>
    /\ UNCHANGED <<lock, stops, since, commands>>

\* A command or its answer is lost, once nobody waits for it any more.
Loses(k) ==
    /\ \E i \in DOMAIN calls[k] :
        /\ calls[k][i].by = "nobody" /\ ~calls[k][i].done
        /\ calls' = [calls EXCEPT ![k] = RemoveAt(@, i)]
    /\ UNCHANGED <<lock, start, stops, leading, since, timer, renewing, commands>>

Due ==
    \E k \in Coordinators :
        timer[k] = 0 \/ \E i \in DOMAIN calls[k] : Late(calls[k][i])

Older(n) == IF n < Ttl THEN n + 1 ELSE n

Tick ==
    /\ ~Due
    /\ lock' = IF lock.left <= 1 THEN [holder |-> Nobody, left |-> 0]
               ELSE [lock EXCEPT !.left = @ - 1]
    /\ calls' = [k \in Coordinators |-> [i \in DOMAIN calls[k] |->
                    [calls[k][i] EXCEPT !.age = Older(@)]]]
    /\ since' = [k \in Coordinators |-> IF leading[k] THEN Older(since[k]) ELSE 0]
    /\ timer' = [k \in Coordinators |-> IF timer[k] > 0 THEN timer[k] - 1 ELSE timer[k]]
    /\ UNCHANGED <<start, stops, leading, renewing, commands>>

Next ==
    \/ Tick
    \/ \E k \in Coordinators :
        \/ CallSpawn(k) \/ CallKill(k) \/ CallShutdown(k) \/ ShutdownEnds(k) \/ Crashes(k)
        \/ Executes(k) \/ Answers(k) \/ TimesOut(k) \/ Loses(k)
        \/ AsksAgain(k) \/ TimerFires(k)

Spec == Init /\ [][Next]_vars

-----------------------------------------------------------------------------
(***************************************************************************)
(* Properties.                                                             *)
(***************************************************************************)

\* Only the holder of the lock leads, so there is one leader at most: a leader
\* that cannot renew stands down before the lock lapses, and no release that
\* is still under way takes the lock from the leader it belongs to now.
OnlyHolderLeads ==
    \A k \in Coordinators : leading[k] => lock.holder = k

\* A leader stands down "by 3/4 of ttl at the latest" after it sent the last
\* command that got it the lock (#startRenewing), a quarter before the lock can
\* lapse: the time its clusters have to be gone.
StandsDownInTime ==
    \A k \in Coordinators : leading[k] => since[k] <= 3 * Quarter

\* "A renewal of an earlier term that settles late (or never) must neither block
\* nor end this one" (#startRenewing): while a leader holds its renewals back,
\* one of this term is under way.
RenewalIsOfThisTerm ==
    \A k \in Coordinators :
        leading[k] /\ renewing[k] => \E i \in DOMAIN calls[k] : calls[k][i].by = "renew"

\* The state is well typed, a leader stands down before its lock lapses, and a renewal is
\* of the term it was sent in.
Inv == TypeOK /\ StandsDownInTime /\ RenewalIsOfThisTerm

=============================================================================
