----------------------------- MODULE ClientCache -----------------------------
(***************************************************************************)
(* The caches of a Client for one guild: what the Gateway's events and the *)
(* answers of REST calls leave in them.  Events arrive in Discord's order; *)
(* an answer shows the state at the moment Discord served the call and may *)
(* arrive any number of events later.  A resource has a version that       *)
(* Discord raises with every change, its deletion included; a cache holds  *)
(* the version it was last given, 0 when it holds none.                    *)
(*                                                                         *)
(* The code guards a fetch with a flag that a write to the same key raises *)
(* while the request is out (Manager.fetchOnce).  Some paths miss the      *)
(* flag; Races names those a run lets happen.                              *)
(***************************************************************************)
EXTENDS Naturals, Sequences

CONSTANTS
    Resources,   \* the guild and what belongs to it
    KindOf,      \* the kind of each
    Author,      \* the member who writes the messages
    Races,       \* orders of events that a run lets happen
    MaxVersion,  \* versions of one resource
    MaxChanges,  \* changes that Discord makes
    MaxFetches,  \* fetches of the program
    MaxWrites    \* its edits and removals

Kinds == {"guild", "channel", "role", "member", "emoji", "plain", "message"}
AllRaces == {"emoji", "message", "plain", "left", "write", "outage"}

Of(kind) == {r \in Resources : KindOf[r] = kind}

ASSUME ResourcesAssumption ==
    /\ KindOf \in [Resources -> Kinds]
    /\ \E g \in Resources : \A r \in Resources : KindOf[r] = "guild" <=> r = g
    /\ \E c \in Resources : \A r \in Resources : KindOf[r] = "channel" <=> r = c
    /\ Author \in Of("member")
ASSUME BoundsAssumption ==
    /\ Races \subseteq AllRaces
    /\ MaxVersion \in Nat \ {0}
    /\ MaxChanges \in Nat
    /\ MaxFetches \in Nat
    /\ MaxWrites \in Nat

TheGuild == CHOOSE r \in Resources : KindOf[r] = "guild"
Inside == Resources \ {TheGuild}
\* What a GUILD_CREATE carries, and what the managers of one guild hold.
Carried == Inside \ (Of("plain") \cup Of("message"))
PerGuild == Of("role") \cup Of("member") \cup Of("emoji") \cup Of("plain")

VARIABLES
    truth,    \* Discord: the version of each resource, and whether it exists
    out,      \* the guild is unavailable: Discord sends none of its events
    wire,     \* dispatches on their way to the client, in order
    box,      \* what the client holds: its caches, fetches and one write
    heard,    \* the latest version an event told of (for the properties)
    changes, fetches, writes

vars == <<truth, out, wire, box, heard, changes, fetches, writes>>

Versions == 0..MaxVersion
Events == {"guild", "left", "outage", "list", "put", "update", "gone"}
NoFlight == [at |-> "none", v |-> 0, dirty |-> FALSE]
NoWrite == [op |-> "none", what |-> TheGuild, at |-> "none", v |-> 0]
Flight == [at : {"none", "asked", "answered"}, v : Versions, dirty : BOOLEAN]
Write == [op : {"none", "edit", "remove"}, what : Resources,
          at : {"none", "asked", "answered"}, v : Versions]

TypeOK ==
    /\ truth \in [Resources -> [v : Versions, alive : BOOLEAN]]
    /\ out \in BOOLEAN
    /\ \A i \in DOMAIN wire :
          /\ wire[i].type \in Events
          /\ wire[i].live \subseteq DOMAIN wire[i].news
          /\ \A r \in DOMAIN wire[i].news : r \in Resources /\ wire[i].news[r] \in Versions
    /\ box \in [cache : [Resources -> Versions], flight : [Resources -> Flight], write : Write]
    /\ \A r \in Resources : box.flight[r].at = "none" => box.flight[r] = NoFlight
    /\ heard \in [Resources -> Versions]
    /\ changes \in 0..MaxChanges
    /\ fetches \in 0..MaxFetches
    /\ writes \in 0..MaxWrites

-----------------------------------------------------------------------------
(* The managers.                                                           *)

Soils(b, r) ==
    IF b.flight[r].at = "none" THEN b.flight[r] ELSE [b.flight[r] EXCEPT !.dirty = TRUE]

\* Stores the versions of `news`, each marking the fetch of its key.
Puts(b, news) ==
    [b EXCEPT
       !.cache = [r \in Resources |-> IF r \in DOMAIN news THEN news[r] ELSE b.cache[r]],
       !.flight = [r \in Resources |-> IF r \in DOMAIN news THEN Soils(b, r) ELSE b.flight[r]]]

\* Copies the fields into the cached instance, which marks nothing.
Assigns(b, news) ==
    [b EXCEPT !.cache = [r \in Resources |-> IF r \in DOMAIN news THEN news[r] ELSE b.cache[r]]]

Only(news, S) == [r \in DOMAIN news \cap S |-> news[r]]

\* upsert(): the emoji manager assigns to a cached emoji and does not store it again.
Upserts(b, news) ==
    LET cached == {r \in Of("emoji") : b.cache[r] # 0} IN
    Assigns(Puts(b, Only(news, Resources \ cached)), Only(news, cached))

Deletes(b, S) ==
    [b EXCEPT
       !.cache = [r \in Resources |-> IF r \in S THEN 0 ELSE b.cache[r]],
       !.flight = [r \in Resources |-> IF r \in S THEN Soils(b, r) ELSE b.flight[r]]]

\* A manager leaves the map that held it; what it is still waiting for is stored
\* in an object that nobody reaches.
Drops(b, S) ==
    [b EXCEPT
       !.cache = [r \in Resources |-> IF r \in S THEN 0 ELSE b.cache[r]],
       !.flight = [r \in Resources |-> IF r \in S THEN NoFlight ELSE b.flight[r]],
       !.write = IF @.what \in S THEN NoWrite ELSE @]

GuildGone(b) == b.cache[TheGuild] = 0

DeletesChannel(b, S) == IF S = {} THEN b ELSE Drops(Deletes(b, S), Of("message"))

LeavesGuildOnly(b) == Drops(Deletes(b, {TheGuild}), PerGuild)

\* GuildManager.delete and deleteGuildChannels, which walks the cached channels.
LeavesGuild(b) ==
    DeletesChannel(Drops(Deletes(b, {TheGuild}), PerGuild),
                   {r \in Of("channel") : b.cache[r] # 0})

-----------------------------------------------------------------------------
(* The dispatches.                                                         *)

SyncsPresentEmojis(b, e) == Upserts(b, Only(e.news, e.live))

\* A full list of emojis: those that are cached and not in it are deleted.
SyncsEmojis(b, e) ==
    Upserts(Deletes(b, {r \in DOMAIN e.news \ e.live : b.cache[r] # 0}), Only(e.news, e.live))

\* Members are kept only for a guild that is cached.
TakesMembers(b, news) ==
    Upserts(b, IF GuildGone(b) THEN Only(news, Resources \ Of("member")) ELSE news)

\* A message that is edited replaces the cached one; one that is not cached stays so.
TakesUpdate(b, news) == Puts(b, Only(news, {r \in Resources : b.cache[r] # 0}))

Handled(b, e) ==
    CASE e.type = "guild"  -> Upserts(b, Only(e.news, e.live))
      [] e.type = "left"   -> LeavesGuild(b)
      [] e.type = "outage" -> b
      [] e.type = "list"   -> SyncsEmojis(b, e)
      [] e.type = "put"    -> TakesMembers(b, e.news)
      [] e.type = "update" -> TakesUpdate(b, e.news)
      [] e.type = "gone"   -> IF DOMAIN e.news \subseteq Of("channel")
                              THEN DeletesChannel(b, DOMAIN e.news)
                              ELSE Deletes(b, DOMAIN e.news)

-----------------------------------------------------------------------------
(* Discord.                                                                *)

Visible(r) == truth[r].alive /\ truth[TheGuild].alive
Change == changes < MaxChanges /\ changes' = changes + 1
Raced(tag) == tag \in Races

\* The dispatch that tells of resource r, once its truth is t.
Dispatch(r, t) ==
    LET full == [x \in Of("emoji") |-> t[x].v]
        author == IF t[Author].alive THEN {r, Author} ELSE {r}
    IN IF KindOf[r] = "emoji"
       THEN [type |-> "list", news |-> full, live |-> {x \in Of("emoji") : t[x].alive}]
       ELSE IF ~t[r].alive THEN [type |-> "gone", news |-> [x \in {r} |-> t[x].v], live |-> {}]
       ELSE IF KindOf[r] # "message" THEN [type |-> "put", news |-> [x \in {r} |-> t[x].v], live |-> {r}]
       ELSE IF truth[r].alive THEN [type |-> "update", news |-> [x \in {r} |-> t[x].v], live |-> {r}]
       ELSE [type |-> "put", news |-> [x \in author |-> t[x].v], live |-> author]

Snapshot(t) ==
    LET live == {TheGuild} \cup {r \in Carried : t[r].alive} IN
    [type |-> "guild", news |-> [r \in live |-> t[r].v], live |-> live]

\* Discord gives r another version, and tells of it while the guild is available.
\* What an outage hides is told at its end, deletions and plain resources excepted.
Becomes(r, alive) ==
    /\ truth[r].v < MaxVersion
    /\ out /\ (~alive \/ r \notin Carried \cup {TheGuild}) => Raced("outage")
    /\ truth' = [truth EXCEPT ![r] = [v |-> @.v + 1, alive |-> alive]]
    /\ wire' = IF out THEN wire ELSE Append(wire, Dispatch(r, truth'))

Changes(r) == Change /\ Visible(r) /\ Becomes(r, TRUE) /\ UNCHANGED <<out, box, heard, fetches, writes>>

\* A member may come back; every other identifier is used once.
Appears(r) ==
    /\ Change
    /\ r \in Inside /\ ~truth[r].alive /\ truth[TheGuild].alive
    /\ truth[r].v = 0 \/ KindOf[r] = "member"
    /\ KindOf[r] = "message" => \A c \in Of("channel") : truth[c].alive
    /\ Becomes(r, TRUE)
    /\ UNCHANGED <<out, box, heard, fetches, writes>>

\* A channel goes with its messages, which nothing tells of.
Vanishes(r) ==
    /\ r \in Inside /\ Visible(r)
    /\ KindOf[r] = "channel" => \A m \in Of("message") : ~truth[m].alive
    /\ Becomes(r, FALSE)

Deleted(r) == Change /\ Vanishes(r) /\ UNCHANGED <<out, box, heard, fetches, writes>>

Sends(e) == wire' = Append(wire, e)

\* The bot is removed from the guild, and may be invited again.
BotLeaves ==
    /\ Change
    /\ truth[TheGuild].alive /\ ~out /\ truth[TheGuild].v < MaxVersion
    /\ truth' = [truth EXCEPT ![TheGuild] = [v |-> @.v + 1, alive |-> FALSE]]
    /\ Sends([type |-> "left", news |-> [r \in {TheGuild} |-> truth'[r].v], live |-> {}])
    /\ UNCHANGED <<out, box, heard, fetches, writes>>

BotJoins ==
    /\ Change
    /\ ~truth[TheGuild].alive /\ truth[TheGuild].v < MaxVersion
    /\ truth' = [truth EXCEPT ![TheGuild] = [v |-> @.v + 1, alive |-> TRUE]]
    /\ Sends(Snapshot(truth'))
    /\ UNCHANGED <<out, box, heard, fetches, writes>>

\* The guild is unavailable for a while, or the session is replaced by a new one.
Outage ==
    /\ Change
    /\ truth[TheGuild].alive /\ ~out
    /\ out' = TRUE
    /\ Sends([type |-> "outage", news |-> [r \in {} |-> 0], live |-> {}])
    /\ UNCHANGED <<truth, box, heard, fetches, writes>>

OutageEnds ==
    /\ out
    /\ out' = FALSE
    /\ Sends(Snapshot(truth))
    /\ UNCHANGED <<truth, box, heard, changes, fetches, writes>>

\* Discord serves a fetch with what it holds; 0 stands for an error.
Serves(r) ==
    /\ box.flight[r].at = "asked"
    /\ box' = [box EXCEPT !.flight[r].at = "answered",
                          !.flight[r].v = IF Visible(r) THEN truth[r].v ELSE 0]
    /\ UNCHANGED <<truth, out, wire, heard, changes, fetches, writes>>

\* Discord makes the change that the program asked for, or refuses it.
Obeys ==
    /\ box.write.at = "asked"
    /\ LET r == box.write.what IN
       \/ /\ Visible(r)
          /\ IF box.write.op = "edit" THEN Becomes(r, TRUE) ELSE Vanishes(r)
          /\ box' = [box EXCEPT !.write.at = "answered", !.write.v = truth'[r].v]
       \/ /\ ~Visible(r) \/ truth[r].v = MaxVersion
          /\ box' = [box EXCEPT !.write = NoWrite]
          /\ UNCHANGED <<truth, wire>>
    /\ UNCHANGED <<out, heard, changes, fetches, writes>>

-----------------------------------------------------------------------------
(* The client.                                                             *)

Out(r) == box.flight[r].at # "none"

\* The answer of a fetch that is on its way shows r as it was before the event.
Overtakes(e, r) ==
    /\ r \in DOMAIN e.news
    /\ box.flight[r].at = "answered" /\ box.flight[r].v \in 1..(e.news[r] - 1)

\* An event that overtakes an answer without raising the flag of its fetch.
Unmarked(e) ==
    \/ /\ ~Raced("emoji") /\ e.type \in {"list", "guild"}
       /\ \E r \in Of("emoji") : Overtakes(e, r)
    \/ /\ ~Raced("message") /\ e.type = "update"
       /\ \E r \in Of("message") : box.cache[r] = 0 /\ Overtakes(e, r)
    \/ /\ ~Raced("plain")
       /\ \E r \in Of("plain") : Overtakes(e, r)
    \/ /\ ~Raced("left") /\ e.type = "left"
       /\ \E r \in Of("channel") : (box.cache[r] = 0 /\ Out(r)) \/ box.write.what = r
    \/ /\ ~Raced("write") /\ box.write.at = "answered"
       /\ box.write.what \in DOMAIN e.news
       /\ e.news[box.write.what] > box.write.v

Receives ==
    /\ wire # <<>>
    /\ LET e == Head(wire) IN
       /\ ~Unmarked(e)
       /\ box' = Handled(box, e)
       /\ heard' = [r \in Resources |-> IF r \in DOMAIN e.news THEN e.news[r] ELSE heard[r]]
    /\ wire' = Tail(wire)
    /\ UNCHANGED <<truth, out, changes, fetches, writes>>

\* fetch(): a fetch of the same key that is still out is shared.
Fetch(r) ==
    /\ fetches < MaxFetches /\ fetches' = fetches + 1
    /\ box' = IF Out(r) THEN box ELSE [box EXCEPT !.flight[r] = [NoFlight EXCEPT !.at = "asked"]]
    /\ UNCHANGED <<truth, out, wire, heard, changes, writes>>

StoresAnyway(f, kind) == f.v # 0

\* Whether the answer of a fetch is stored: the plain managers keep no flag.
Stores(f, kind) == f.v # 0 /\ (f.dirty => kind = "plain")

Answers(r) ==
    LET f == box.flight[r]
        settled == [box EXCEPT !.flight[r] = NoFlight]
    IN /\ f.at = "answered"
       /\ box' = IF Stores(f, KindOf[r])
                 THEN Upserts(settled, [x \in {r} |-> f.v])
                 ELSE settled
       /\ UNCHANGED <<truth, out, wire, heard, changes, fetches, writes>>

\* edit() and remove(): the guild itself is only edited.
Writes(r, op) ==
    /\ writes < MaxWrites /\ writes' = writes + 1
    /\ box.write = NoWrite
    /\ op = "remove" => r # TheGuild
    /\ box' = [box EXCEPT !.write = [op |-> op, what |-> r, at |-> "asked", v |-> 0]]
    /\ UNCHANGED <<truth, out, wire, heard, changes, fetches>>

\* The answer of an edit is upserted, that of a removal deletes the key.
Written ==
    LET w == box.write
        settled == [box EXCEPT !.write = NoWrite]
    IN /\ w.at = "answered"
       /\ heard[w.what] > w.v => Raced("write")
       /\ box' = IF w.op = "edit" THEN Upserts(settled, [x \in {w.what} |-> w.v])
                 ELSE IF KindOf[w.what] = "channel" THEN DeletesChannel(settled, {w.what})
                 ELSE Deletes(settled, {w.what})
       /\ UNCHANGED <<truth, out, wire, heard, changes, fetches, writes>>

-----------------------------------------------------------------------------
\* The client has identified; its guild is on its way, and there may be messages
\* that were sent before.
Init ==
    /\ \E older \in SUBSET Of("message") :
          truth = [r \in Resources |->
                     IF r \in Carried \cup {TheGuild} \cup older THEN [v |-> 1, alive |-> TRUE]
                                                               ELSE [v |-> 0, alive |-> FALSE]]
    /\ out = FALSE
    /\ wire = <<Snapshot(truth)>>
    /\ box = [cache |-> [r \in Resources |-> 0],
              flight |-> [r \in Resources |-> NoFlight], write |-> NoWrite]
    /\ heard = [r \in Resources |-> 0]
    /\ changes = 0
    /\ fetches = 0
    /\ writes = 0

Discord ==
    \/ \E r \in Resources : Changes(r) \/ Appears(r) \/ Deleted(r) \/ Serves(r)
    \/ BotLeaves \/ BotJoins \/ Outage \/ OutageEnds \/ Obeys

Next ==
    \/ Discord
    \/ Receives
    \/ \E r \in Resources : Fetch(r) \/ Answers(r)
    \/ \E r \in Resources, op \in {"edit", "remove"} : Writes(r, op)
    \/ Written

Spec == Init /\ [][Next]_vars

-----------------------------------------------------------------------------
(* What the caches promise.                                                *)

\* A cached resource is never older than what the Gateway has told of it, so the
\* answer of a fetch neither overwrites a newer state nor brings back what an
\* event deleted (managers/src/base.ts:46-52).
NeverOlder == \A r \in Resources : box.cache[r] # 0 => box.cache[r] >= heard[r]

\* Nothing is on its way that could still change a cache.
Quiet ==
    /\ ~out
    /\ wire = <<>>
    /\ box.write = NoWrite
    /\ \A r \in Resources : ~Out(r)

\* Once everything has arrived, the caches show what Discord holds: no resource
\* that is gone, none at an older version, and none missing of those that the
\* Gateway tells of in full (managers/src/guild.ts:105-140, "kept in sync by the
\* Gateway").
Mirrors ==
    Quiet => \A r \in Resources :
               /\ box.cache[r] # 0 => Visible(r) /\ box.cache[r] = truth[r].v
               /\ Visible(r) /\ r \in Carried \cup {TheGuild} => box.cache[r] # 0

\* Once a client has heard that the bot left its guild, nothing of that guild is in
\* a cache, and no answer brings any of it back (core/src/index.ts:1306-1312,
\* "Members of a guild the bot has left are not kept").
LeftIsForgotten ==
    wire = <<>> /\ ~truth[TheGuild].alive
        => \A r \in Resources : box.cache[r] = 0

\* The state is well typed, a key with no fetch has no flag, and a guild the bot has
\* left is forgotten.
Inv == TypeOK /\ LeftIsForgotten

=============================================================================
