---------------------------- MODULE CacheProofs ----------------------------
(***************************************************************************)
(* Theorems about ClientCache for every set of resources, every number of  *)
(* versions and every bound.  A cached resource is never older than what   *)
(* the Gateway has told of it, if the paths that miss the flag of a fetch  *)
(* are not raced (Guarded).  If none of the orders that the code leaves    *)
(* unguarded happens (Strict), the caches come to hold what Discord holds, *)
(* and nothing of a guild that the bot has left: the second half of the    *)
(* module follows what Discord holds along the wire to the caches.         *)
(***************************************************************************)
EXTENDS ClientCache, SequenceTheorems, TLAPS

-----------------------------------------------------------------------------
(* The invariant.                                                          *)

Fetches == {f \in Flight : f.at = "none" => f = NoFlight}
Boxes == [cache : [Resources -> Versions], flight : [Resources -> Fetches], write : Write]
News == UNION {[D -> Versions] : D \in SUBSET Resources}
Told == [type : Events, live : SUBSET Resources, news : News]

Truths == [Resources -> [v : Versions, alive : BOOLEAN]]

\* What a dispatch of each type tells of.
WellFormed(e) ==
    /\ e.live \subseteq DOMAIN e.news
    /\ e.type \in {"put", "gone"} => DOMAIN e.news \cap Of("emoji") = {}
    /\ e.type = "list" => DOMAIN e.news \subseteq Of("emoji")
    /\ e.type = "update" => DOMAIN e.news \subseteq Of("message")
    /\ e.type = "outage" => DOMAIN e.news = {}
    /\ e.type = "left" => DOMAIN e.news = {TheGuild}
    /\ e.type = "gone" => TheGuild \notin DOMAIN e.news
    /\ e.type = "guild" => TheGuild \in DOMAIN e.news /\ e.live = DOMAIN e.news
    /\ TheGuild \in DOMAIN e.news => e.news[TheGuild] # 0

Formed(w) == \A i \in 1..Len(w) : WellFormed(w[i])

\* The client holds the guild, of version g now, once it has received what comes
\* before the i-th dispatch of w.
Guilded(w, g, i) ==
    \/ g # 0 /\ \A k \in 1..i - 1 : w[k].type # "left"
    \/ \E j \in 1..i - 1 : w[j].type = "guild" /\ \A k \in j + 1..i - 1 : w[k].type # "left"

TellsOfMember(e) == e.type = "put" /\ DOMAIN e.news \cap Of("member") # {}

Placed(w, g, alive) ==
    /\ \A i \in 1..Len(w) : TellsOfMember(w[i]) => Guilded(w, g, i)
    /\ alive => Guilded(w, g, Len(w) + 1)

\* What is told of a resource grows, up to what Discord holds.
Rises(w, h, t) ==
    /\ \A r \in Resources : h[r] <= t[r].v
    /\ \A i \in 1..Len(w) : \A r \in DOMAIN w[i].news :
          h[r] <= w[i].news[r] /\ w[i].news[r] <= t[r].v
    /\ \A i, j \in 1..Len(w) :
          i < j => \A r \in DOMAIN w[i].news \cap DOMAIN w[j].news : w[i].news[r] <= w[j].news[r]

\* A fetch whose answer will be stored.
WillStore(f, kind) == f.at = "answered" /\ f.v # 0 /\ (f.dirty => kind = "plain")

\* What is cached of r, and what will be, is no older than version h.
FreshAt(c, f, kind, h) == (c # 0 => c >= h) /\ (WillStore(f, kind) => f.v >= h)

Fresh(b, h) == \A r \in Resources : FreshAt(b.cache[r], b.flight[r], KindOf[r], h[r])

Sane(w) ==
    /\ w.at # "none" => w.op # "none"
    /\ w.at = "answered" => w.v # 0
    /\ w.op = "remove" => w.what # TheGuild

IInv ==
    /\ TypeOK
    /\ wire \in Seq(Told) /\ Formed(wire)
    /\ truth[TheGuild].v # 0
    /\ Placed(wire, box.cache[TheGuild], truth[TheGuild].alive)
    /\ Rises(wire, heard, truth)
    /\ Fresh(box, heard)
    /\ Sane(box.write)

-----------------------------------------------------------------------------
(* The wire.                                                               *)

LEMMA Guild ==
    /\ TheGuild \in Resources /\ KindOf[TheGuild] = "guild"
    /\ Author \in Resources /\ KindOf[Author] = "member"
    /\ KindOf \in [Resources -> Kinds]
  <1>2. PICK r \in Resources : KindOf[r] = "guild"
    BY ResourcesAssumption DEF Of
  <1>3. TheGuild \in Resources /\ KindOf[TheGuild] = "guild"
    BY <1>2 DEF TheGuild
  <1> QED BY <1>3, ResourcesAssumption DEF Of

LEMMA VersionsNat ==
    /\ MaxVersion \in Nat /\ Versions \subseteq Nat /\ 0 \in Versions
    /\ \A v \in Versions : v < MaxVersion => v + 1 \in Versions /\ v + 1 # 0
  BY BoundsAssumption DEF Versions

LEMMA NewsOf ==
    ASSUME NEW n \in News
    PROVE  DOMAIN n \subseteq Resources /\ \A r \in DOMAIN n : n[r] \in Versions
  <1>1. PICK D \in SUBSET Resources : n \in [D -> Versions]
    BY DEF News
  <1> QED BY <1>1

LEMMA MakesNews ==
    ASSUME NEW D \in SUBSET Resources, NEW n \in [D -> Versions]
    PROVE  n \in News
  BY DEF News

LEMMA ToldOf ==
    ASSUME NEW w \in Seq(Told), NEW i \in 1..Len(w)
    PROVE  /\ w[i] \in Told /\ w[i].type \in Events /\ w[i].live \subseteq Resources
           /\ w[i].news \in News /\ DOMAIN w[i].news \subseteq Resources
           /\ \A r \in DOMAIN w[i].news : w[i].news[r] \in Versions
  <1>1. w[i] \in Told
    BY ElementOfSeq
  <1>2. w[i].type \in Events /\ w[i].live \subseteq Resources /\ w[i].news \in News
    BY <1>1 DEF Told
  <1> QED BY <1>1, <1>2, NewsOf

LEMMA WireTyped ==
    ASSUME NEW w \in Seq(Told), Formed(w)
    PROVE  \A i \in DOMAIN w :
              /\ w[i].type \in Events
              /\ w[i].live \subseteq DOMAIN w[i].news
              /\ \A r \in DOMAIN w[i].news : r \in Resources /\ w[i].news[r] \in Versions
  <1> SUFFICES ASSUME NEW i \in 1..Len(w)
               PROVE  /\ w[i].type \in Events
                      /\ w[i].live \subseteq DOMAIN w[i].news
                      /\ \A r \in DOMAIN w[i].news : r \in Resources /\ w[i].news[r] \in Versions
    BY LenProperties
  <1>1. WellFormed(w[i])
    BY DEF Formed
  <1> QED BY <1>1, ToldOf DEF WellFormed

\* TypeOK, part by part.
Small ==
    /\ out \in BOOLEAN
    /\ changes \in 0..MaxChanges
    /\ fetches \in 0..MaxFetches
    /\ writes \in 0..MaxWrites

LEMMA BoxTyped ==
    ASSUME NEW b
    PROVE  b \in Boxes <=>
              /\ b \in [cache : [Resources -> Versions], flight : [Resources -> Flight], write : Write]
              /\ \A r \in Resources : b.flight[r].at = "none" => b.flight[r] = NoFlight
  <1> DEFINE f == b.flight
  <1>1. ASSUME NEW x
        PROVE  x \in [Resources -> Fetches] <=>
                  /\ x \in [Resources -> Flight]
                  /\ \A r \in Resources : x[r].at = "none" => x[r] = NoFlight
    BY DEF Fetches
  <1>2. b \in Boxes => b \in [cache : [Resources -> Versions], flight : [Resources -> Flight], write : Write]
    BY <1>1 DEF Boxes
  <1>3. b \in Boxes => \A r \in Resources : f[r].at = "none" => f[r] = NoFlight
    <2>1. b \in Boxes => f \in [Resources -> Fetches]
      BY DEF Boxes
    <2> HIDE DEF f
    <2> QED BY <1>1, <2>1
  <1>4. ASSUME b \in [cache : [Resources -> Versions], flight : [Resources -> Flight], write : Write],
               \A r \in Resources : f[r].at = "none" => f[r] = NoFlight
        PROVE  b \in Boxes
    <2>1. f \in [Resources -> Flight]
      BY <1>4
    <2> HIDE DEF f
    <2>2. f \in [Resources -> Fetches]
      BY <1>1, <1>4, <2>1
    <2> QED BY <1>4, <2>2 DEF Boxes, f
  <1> QED BY <1>2, <1>3, <1>4

LEMMA Typed ==
    ASSUME TypeOK
    PROVE  truth \in Truths /\ box \in Boxes /\ heard \in [Resources -> Versions] /\ Small
  BY BoxTyped DEF TypeOK, Small, Truths

LEMMA TypedNext ==
    ASSUME wire' \in Seq(Told), Formed(wire'), truth' \in Truths, box' \in Boxes,
           heard' \in [Resources -> Versions], Small'
    PROVE  TypeOK'
  BY BoxTyped, WireTyped DEF TypeOK, Small, Truths

\* A dispatch that tells of what Discord holds now joins the others.
LEMMA Appended ==
    ASSUME NEW w \in Seq(Told), Formed(w), NEW g, NEW a \in BOOLEAN, Placed(w, g, a),
           NEW h \in [Resources -> Versions],
           NEW t \in Truths, Rises(w, h, t),
           NEW u \in Truths,
           \A r \in Resources : t[r].v <= u[r].v,
           NEW e \in Told, WellFormed(e), \A r \in DOMAIN e.news : e.news[r] = u[r].v,
           TellsOfMember(e) => a, NEW c \in BOOLEAN,
           c => e.type = "guild" \/ (a /\ e.type # "left")
    PROVE  /\ Append(w, e) \in Seq(Told) /\ Formed(Append(w, e))
           /\ Placed(Append(w, e), g, c) /\ Rises(Append(w, e), h, u)
  <1> DEFINE x == Append(w, e)
             n == Len(w)
  <1>1. /\ n \in Nat /\ x \in Seq(Told) /\ Len(x) = n + 1
        /\ \A i \in 1..n : x[i] = w[i]
        /\ x[n + 1] = e
    BY LenProperties, AppendProperties
  <1> HIDE DEF x, n
  <1>2. Formed(x)
    <2> SUFFICES ASSUME NEW i \in 1..n + 1 PROVE WellFormed(x[i])
      BY <1>1 DEF Formed
    <2>1. CASE i = n + 1
      BY <1>1, <2>1
    <2>2. CASE i \in 1..n
      BY <1>1, <2>2 DEF Formed, n
    <2> QED BY <1>1, <2>1, <2>2
  <1>3. \A i \in 1..n + 1 : Guilded(w, g, i) => Guilded(x, g, i)
    <2> SUFFICES ASSUME NEW i \in 1..n + 1, Guilded(w, g, i) PROVE Guilded(x, g, i)
      OBVIOUS
    <2>1. \A k \in 1..i - 1 : x[k] = w[k]
      BY <1>1
    <2>2. CASE g # 0 /\ \A k \in 1..i - 1 : w[k].type # "left"
      BY <2>1, <2>2 DEF Guilded
    <2>3. ASSUME NEW j \in 1..i - 1, w[j].type = "guild", \A k \in j + 1..i - 1 : w[k].type # "left"
          PROVE  Guilded(x, g, i)
      <3>1. x[j].type = "guild" /\ \A k \in j + 1..i - 1 : x[k].type # "left"
        BY <1>1, <2>1, <2>3
      <3> QED BY <3>1 DEF Guilded
    <2> QED BY <2>2, <2>3 DEF Guilded
  <1>4. a => Guilded(x, g, n + 1)
    BY <1>1, <1>3 DEF Placed, n
  <1>5. Placed(x, g, c)
    <2>1. ASSUME NEW i \in 1..n + 1, TellsOfMember(x[i]) PROVE Guilded(x, g, i)
      <3>1. CASE i = n + 1
        BY <1>1, <1>4, <2>1, <3>1
      <3>2. CASE i \in 1..n
        BY <1>1, <1>3, <2>1, <3>2 DEF Placed, n
      <3> QED BY <1>1, <3>1, <3>2
    <2>2. ASSUME c PROVE Guilded(x, g, n + 2)
      <3>1. CASE e.type = "guild"
        <4>1. n + 1 \in 1..(n + 2) - 1 /\ \A k \in (n + 1) + 1..(n + 2) - 1 : FALSE
          BY <1>1
        <4> QED BY <1>1, <3>1, <4>1 DEF Guilded
      <3>2. CASE a /\ e.type # "left"
        <4>1. Guilded(x, g, n + 1)
          BY <1>4, <3>2
        <4>2. CASE g # 0 /\ \A k \in 1..(n + 1) - 1 : x[k].type # "left"
          <5>1. \A k \in 1..(n + 2) - 1 : x[k].type # "left"
            BY <1>1, <3>2, <4>2
          <5> QED BY <4>2, <5>1 DEF Guilded
        <4>3. ASSUME NEW j \in 1..(n + 1) - 1, x[j].type = "guild",
                     \A k \in j + 1..(n + 1) - 1 : x[k].type # "left"
              PROVE  Guilded(x, g, n + 2)
          <5>1. j \in 1..(n + 2) - 1 /\ \A k \in j + 1..(n + 2) - 1 : x[k].type # "left"
            BY <1>1, <3>2, <4>3
          <5> QED BY <4>3, <5>1 DEF Guilded
        <4> QED BY <4>1, <4>2, <4>3 DEF Guilded
      <3> QED BY <2>2, <3>1, <3>2
    <2>3. Len(x) + 1 = n + 2
      BY <1>1
    <2> QED BY <1>1, <2>1, <2>2, <2>3 DEF Placed
  <1>6. Rises(x, h, u)
    <2>0. \A r \in Resources : h[r] \in Nat /\ t[r].v \in Nat /\ u[r].v \in Nat /\ t[r].v <= u[r].v
      BY VersionsNat DEF Truths
    <2>1. \A r \in Resources : h[r] <= u[r].v
      <3>1. \A r \in Resources : h[r] <= t[r].v
        BY DEF Rises
      <3>2. \A k, l, m \in Nat : k <= l /\ l <= m => k <= m
        OBVIOUS
      <3> QED BY <2>0, <3>1, <3>2
    <2>2. \A i \in 1..n : \A r \in DOMAIN w[i].news :
             /\ r \in Resources /\ w[i].news[r] \in Nat
             /\ h[r] <= w[i].news[r] /\ w[i].news[r] <= u[r].v
      <3> SUFFICES ASSUME NEW i \in 1..n, NEW r \in DOMAIN w[i].news
                   PROVE  /\ r \in Resources /\ w[i].news[r] \in Nat
                          /\ h[r] <= w[i].news[r] /\ w[i].news[r] <= u[r].v
        OBVIOUS
      <3>1. r \in Resources /\ w[i].news[r] \in Nat
        BY ToldOf, VersionsNat DEF n
      <3>2. h[r] <= w[i].news[r] /\ w[i].news[r] <= t[r].v
        BY DEF Rises, n
      <3> QED BY <2>0, <3>1, <3>2
    <2>3. \A r \in DOMAIN e.news : r \in Resources /\ e.news[r] = u[r].v
      BY NewsOf DEF Told
    <2>4. ASSUME NEW i \in 1..n + 1, NEW r \in DOMAIN x[i].news
          PROVE  h[r] <= x[i].news[r] /\ x[i].news[r] <= u[r].v
      <3>1. CASE i = n + 1
        BY <1>1, <2>0, <2>1, <2>3, <2>4, <3>1
      <3>2. CASE i \in 1..n
        BY <1>1, <2>2, <2>4, <3>2
      <3> QED BY <1>1, <3>1, <3>2
    <2>5. ASSUME NEW i \in 1..n + 1, NEW j \in 1..n + 1, i < j,
                 NEW r \in DOMAIN x[i].news \cap DOMAIN x[j].news
          PROVE  x[i].news[r] <= x[j].news[r]
      <3>1. i \in 1..n
        BY <1>1, <2>5
      <3>2. CASE j = n + 1
        BY <1>1, <2>2, <2>3, <2>5, <3>1, <3>2
      <3>3. CASE j \in 1..n
        BY <1>1, <2>5, <3>1, <3>3 DEF Rises, n
      <3> QED BY <1>1, <3>2, <3>3
    <2> QED BY <1>1, <2>1, <2>4, <2>5 DEF Rises
  <1> QED BY <1>1, <1>2, <1>5, <1>6 DEF x

\* During an outage Discord changes and tells nothing of it.
LEMMA Untold ==
    ASSUME NEW w \in Seq(Told),
           NEW h \in [Resources -> Versions],
           NEW t \in Truths, Rises(w, h, t),
           NEW u \in Truths,
           \A r \in Resources : t[r].v <= u[r].v
    PROVE  Rises(w, h, u)
  <1>1. \A r \in Resources : h[r] \in Nat /\ t[r].v \in Nat /\ u[r].v \in Nat /\ t[r].v <= u[r].v
    BY VersionsNat DEF Truths
  <1>2. ASSUME NEW i \in 1..Len(w), NEW r \in DOMAIN w[i].news
        PROVE  h[r] <= w[i].news[r] /\ w[i].news[r] <= u[r].v
    <2>1. r \in Resources /\ w[i].news[r] \in Nat
      BY ToldOf, VersionsNat
    <2>2. h[r] <= w[i].news[r] /\ w[i].news[r] <= t[r].v
      BY DEF Rises
    <2> QED BY <1>1, <2>1, <2>2
  <1> QED BY <1>1, <1>2 DEF Rises

\* What the client has heard once it has received e.
Hears(h, e) == [r \in Resources |-> IF r \in DOMAIN e.news THEN e.news[r] ELSE h[r]]

\* The first dispatch is received, and the client holds version c of the guild then.
LEMMA Received ==
    ASSUME NEW w \in Seq(Told), w # <<>>, Formed(w), NEW g, NEW a \in BOOLEAN, Placed(w, g, a),
           NEW h \in [Resources -> Versions],
           NEW t \in Truths, Rises(w, h, t),
           NEW c, Head(w).type = "guild" => c # 0, g # 0 /\ Head(w).type # "left" => c # 0
    PROVE  /\ Head(w) \in Told /\ WellFormed(Head(w))
           /\ TellsOfMember(Head(w)) => g # 0
           /\ Tail(w) \in Seq(Told) /\ Formed(Tail(w))
           /\ Placed(Tail(w), c, a) /\ Rises(Tail(w), Hears(h, Head(w)), t)
           /\ Hears(h, Head(w)) \in [Resources -> Versions]
           /\ \A r \in DOMAIN Head(w).news : h[r] <= Head(w).news[r]
  <1> DEFINE x == Tail(w)
             e == Head(w)
             n == Len(w) - 1
             k == Hears(h, e)
  <1>1. /\ n \in Nat /\ Len(w) = n + 1 /\ e = w[1] /\ e \in Told
        /\ x \in Seq(Told) /\ Len(x) = n
        /\ \A i \in 1..n : x[i] = w[i + 1]
    <2>1. /\ e \in Told /\ x \in Seq(Told) /\ Len(x) = Len(w) - 1
          /\ \A i \in 1..Len(x) : x[i] = w[i + 1]
      BY HeadTailProperties
    <2>2. Len(w) \in Nat \ {0}
      BY EmptySeq
    <2> QED BY <2>1, <2>2
  <1> HIDE DEF x, e, n
  <1>2. WellFormed(e) /\ \A i \in 1..n : i + 1 \in 1..Len(w) /\ WellFormed(w[i + 1])
    BY <1>1 DEF Formed
  <1>3. Formed(x)
    BY <1>1, <1>2 DEF Formed
  <1>4. TellsOfMember(e) => g # 0
    BY <1>1 DEF Placed, Guilded
  <1>5. \A i \in 1..n + 1 : Guilded(w, g, i + 1) => Guilded(x, c, i)
    <2> SUFFICES ASSUME NEW i \in 1..n + 1, Guilded(w, g, i + 1) PROVE Guilded(x, c, i)
      OBVIOUS
    <2>1. \A m \in 1..i - 1 : x[m] = w[m + 1] /\ m + 1 \in 1..(i + 1) - 1
      BY <1>1
    <2>2. CASE g # 0 /\ \A m \in 1..(i + 1) - 1 : w[m].type # "left"
      <3>1. e.type # "left"
        BY <1>1, <2>2
      <3>2. c # 0
        BY <2>2, <3>1 DEF e
      <3>3. \A m \in 1..i - 1 : x[m].type # "left"
        BY <2>1, <2>2
      <3> QED BY <3>2, <3>3 DEF Guilded
    <2>3. ASSUME NEW j \in 1..(i + 1) - 1, w[j].type = "guild",
                 \A m \in j + 1..(i + 1) - 1 : w[m].type # "left"
          PROVE  Guilded(x, c, i)
      <3>1. CASE j = 1
        <4>1. c # 0
          BY <1>1, <2>3, <3>1 DEF e
        <4>2. \A m \in 1..i - 1 : x[m].type # "left"
          BY <2>1, <2>3, <3>1
        <4> QED BY <4>1, <4>2 DEF Guilded
      <3>2. CASE j # 1
        <4>1. j - 1 \in 1..i - 1 /\ x[j - 1].type = "guild"
          BY <1>1, <2>3, <3>2
        <4>2. \A m \in (j - 1) + 1..i - 1 : x[m].type # "left"
          <5> SUFFICES ASSUME NEW m \in (j - 1) + 1..i - 1 PROVE x[m].type # "left"
            OBVIOUS
          <5>1. m \in 1..i - 1 /\ m + 1 \in j + 1..(i + 1) - 1
            BY <1>1
          <5> QED BY <2>1, <2>3, <5>1
        <4> QED BY <4>1, <4>2 DEF Guilded
      <3> QED BY <3>1, <3>2
    <2> QED BY <2>2, <2>3 DEF Guilded
  <1>6. Placed(x, c, a)
    <2>1. ASSUME NEW i \in 1..n, TellsOfMember(x[i]) PROVE Guilded(x, c, i)
      <3>1. Guilded(w, g, i + 1)
        BY <1>1, <1>2, <2>1 DEF Placed
      <3> QED BY <1>1, <1>5, <3>1
    <2>2. a => Guilded(x, c, n + 1)
      BY <1>1, <1>5 DEF Placed
    <2> QED BY <1>1, <2>1, <2>2 DEF Placed
  <1>7. /\ k \in [Resources -> Versions]
        /\ \A r \in DOMAIN e.news : r \in Resources /\ e.news[r] \in Nat /\ k[r] = e.news[r]
        /\ \A r \in Resources : k[r] \in Nat /\ (r \in DOMAIN e.news \/ k[r] = h[r])
    <2>1. e.news \in News
      BY <1>1 DEF Told
    <2> QED BY <2>1, NewsOf, VersionsNat DEF Hears
  <1>8. /\ \A r \in Resources : h[r] \in Nat /\ t[r].v \in Nat
        /\ \A i \in 1..n : \A r \in DOMAIN x[i].news : r \in Resources /\ x[i].news[r] \in Nat
    BY <1>1, ToldOf, VersionsNat DEF Truths
  <1> HIDE DEF k
  <1>9. /\ \A r \in DOMAIN e.news : h[r] <= e.news[r] /\ e.news[r] <= t[r].v
        /\ \A i \in 1..n : \A r \in DOMAIN x[i].news :
              h[r] <= x[i].news[r] /\ x[i].news[r] <= t[r].v
        /\ \A i \in 1..n : \A r \in DOMAIN e.news \cap DOMAIN x[i].news : e.news[r] <= x[i].news[r]
    <2>1. \A r \in DOMAIN e.news : h[r] <= e.news[r] /\ e.news[r] <= t[r].v
      <3>1. 1 \in 1..Len(w)
        BY <1>1
      <3> QED BY <1>1, <3>1 DEF Rises
    <2>2. ASSUME NEW i \in 1..n
          PROVE  /\ \A r \in DOMAIN x[i].news : h[r] <= x[i].news[r] /\ x[i].news[r] <= t[r].v
                 /\ \A r \in DOMAIN e.news \cap DOMAIN x[i].news : e.news[r] <= x[i].news[r]
      <3>1. x[i] = w[i + 1] /\ i + 1 \in 1..Len(w) /\ 1 \in 1..Len(w) /\ 1 < i + 1
        BY <1>1
      <3> QED BY <1>1, <3>1 DEF Rises
    <2> QED BY <2>1, <2>2
  <1>10. Rises(x, k, t)
    <2>1. \A r \in Resources : k[r] <= t[r].v
      BY <1>7, <1>9 DEF Rises
    <2>2. \A i \in 1..n : \A r \in DOMAIN x[i].news : k[r] <= x[i].news[r] /\ x[i].news[r] <= t[r].v
      BY <1>7, <1>8, <1>9
    <2>3. ASSUME NEW i \in 1..n, NEW j \in 1..n, i < j,
                 NEW r \in DOMAIN x[i].news \cap DOMAIN x[j].news
          PROVE  x[i].news[r] <= x[j].news[r]
      <3>1. /\ x[i] = w[i + 1] /\ x[j] = w[j + 1] /\ i + 1 < j + 1
            /\ i + 1 \in 1..Len(w) /\ j + 1 \in 1..Len(w)
        BY <1>1, <2>3
      <3> QED BY <2>3, <3>1 DEF Rises
    <2> QED BY <1>1, <2>1, <2>2, <2>3 DEF Rises
  <1> QED BY <1>1, <1>2, <1>3, <1>4, <1>6, <1>7, <1>9, <1>10 DEF x, e, k

-----------------------------------------------------------------------------
(* The managers.                                                           *)

\* What becomes of the fetch f of a key that is not written, and of one that is.
Kept(f, g) == g.at = "none" \/ (g.at = f.at /\ g.v = f.v /\ (f.dirty => g.dirty))
Soiled(f, g) == g.at = "none" \/ (g.at = f.at /\ g.v = f.v /\ (g.at # "none" => g.dirty))

LEMMA BoxParts ==
    ASSUME NEW b \in Boxes
    PROVE  /\ b.cache \in [Resources -> Versions] /\ b.flight \in [Resources -> Fetches]
           /\ b.write \in Write
           /\ \A r \in Resources :
                 b.cache[r] \in Versions /\ b.flight[r] \in Fetches /\ Kept(b.flight[r], b.flight[r])
  BY DEF Boxes, Kept

LEMMA FlightParts ==
    /\ NoFlight \in Fetches /\ NoFlight.at = "none"
    /\ \A f \in Fetches : f.at \in {"none", "asked", "answered"} /\ f.v \in Versions /\ f.dirty \in BOOLEAN
  BY VersionsNat DEF NoFlight, Flight, Fetches

LEMMA SoilsFlight ==
    ASSUME NEW b \in Boxes, NEW r \in Resources
    PROVE  /\ Soils(b, r) \in Fetches /\ Soiled(b.flight[r], Soils(b, r))
           /\ Kept(b.flight[r], Soils(b, r))
  <1> DEFINE f == b.flight[r]
  <1>1. f \in Fetches
    BY BoxParts
  <1>2. Soils(b, r) = IF f.at = "none" THEN f ELSE [f EXCEPT !.dirty = TRUE]
    BY DEF Soils
  <1> HIDE DEF f
  <1>3. [f EXCEPT !.dirty = TRUE] \in Flight /\ [f EXCEPT !.dirty = TRUE].dirty
        /\ [f EXCEPT !.dirty = TRUE].at = f.at /\ [f EXCEPT !.dirty = TRUE].v = f.v
    BY <1>1 DEF Flight, Fetches
  <1>4. Soils(b, r) \in Fetches /\ Soiled(f, Soils(b, r)) /\ Kept(f, Soils(b, r))
    BY <1>1, <1>2, <1>3 DEF Soiled, Kept, Fetches
  <1> QED BY <1>4 DEF f

LEMMA PutsBox ==
    ASSUME NEW b \in Boxes, NEW n \in News
    PROVE  LET d == Puts(b, n) IN
           /\ d \in Boxes /\ d.write = b.write
           /\ \A r \in Resources :
                 /\ d.cache[r] = IF r \in DOMAIN n THEN n[r] ELSE b.cache[r]
                 /\ d.flight[r] = IF r \in DOMAIN n THEN Soils(b, r) ELSE b.flight[r]
  <1> DEFINE c == [r \in Resources |-> IF r \in DOMAIN n THEN n[r] ELSE b.cache[r]]
             f == [r \in Resources |-> IF r \in DOMAIN n THEN Soils(b, r) ELSE b.flight[r]]
             d == Puts(b, n)
  <1>1. c \in [Resources -> Versions] /\ f \in [Resources -> Fetches]
    BY BoxParts, NewsOf, SoilsFlight
  <1>2. \A r \in Resources :
           /\ c[r] = IF r \in DOMAIN n THEN n[r] ELSE b.cache[r]
           /\ f[r] = IF r \in DOMAIN n THEN Soils(b, r) ELSE b.flight[r]
    OBVIOUS
  <1>3. d = [b EXCEPT !.cache = c, !.flight = f]
    BY DEF Puts
  <1> HIDE DEF c, f, d
  <1>4. d \in Boxes /\ d.cache = c /\ d.flight = f /\ d.write = b.write
    BY <1>1, <1>3 DEF Boxes
  <1>5. /\ d \in Boxes /\ d.write = b.write
        /\ \A r \in Resources :
              /\ d.cache[r] = IF r \in DOMAIN n THEN n[r] ELSE b.cache[r]
              /\ d.flight[r] = IF r \in DOMAIN n THEN Soils(b, r) ELSE b.flight[r]
    BY <1>2, <1>4
  <1> QED BY <1>5 DEF d

LEMMA AssignsBox ==
    ASSUME NEW b \in Boxes, NEW n \in News
    PROVE  LET d == Assigns(b, n) IN
           /\ d \in Boxes /\ d.write = b.write /\ d.flight = b.flight
           /\ \A r \in Resources : d.cache[r] = IF r \in DOMAIN n THEN n[r] ELSE b.cache[r]
  <1> DEFINE c == [r \in Resources |-> IF r \in DOMAIN n THEN n[r] ELSE b.cache[r]]
             d == Assigns(b, n)
  <1>1. c \in [Resources -> Versions]
    BY BoxParts, NewsOf
  <1>2. \A r \in Resources : c[r] = IF r \in DOMAIN n THEN n[r] ELSE b.cache[r]
    OBVIOUS
  <1>3. d = [b EXCEPT !.cache = c]
    BY DEF Assigns
  <1> HIDE DEF c, d
  <1>4. d \in Boxes /\ d.cache = c /\ d.flight = b.flight /\ d.write = b.write
    BY <1>1, <1>3 DEF Boxes
  <1>5. /\ d \in Boxes /\ d.write = b.write /\ d.flight = b.flight
        /\ \A r \in Resources : d.cache[r] = IF r \in DOMAIN n THEN n[r] ELSE b.cache[r]
    BY <1>2, <1>4
  <1> QED BY <1>5 DEF d

LEMMA OnlyNews ==
    ASSUME NEW n \in News, NEW S
    PROVE  /\ Only(n, S) \in News /\ DOMAIN Only(n, S) = DOMAIN n \cap S
           /\ \A r \in DOMAIN n \cap S : Only(n, S)[r] = n[r]
  <1>1. DOMAIN n \subseteq Resources /\ \A r \in DOMAIN n : n[r] \in Versions
    BY NewsOf
  <1>2. Only(n, S) \in [DOMAIN n \cap S -> Versions]
    BY <1>1 DEF Only
  <1>3. Only(n, S) \in News
    BY <1>1, <1>2, MakesNews
  <1> QED BY <1>3 DEF Only

LEMMA UpsertsBox ==
    ASSUME NEW b \in Boxes, NEW n \in News
    PROVE  LET d == Upserts(b, n) IN
           /\ d \in Boxes /\ d.write = b.write
           /\ \A r \in Resources :
                 /\ d.cache[r] = IF r \in DOMAIN n THEN n[r] ELSE b.cache[r]
                 /\ d.flight[r] = IF r \in DOMAIN n /\ (KindOf[r] # "emoji" \/ b.cache[r] = 0)
                                  THEN Soils(b, r) ELSE b.flight[r]
  <1> DEFINE C == {r \in Of("emoji") : b.cache[r] # 0}
             m == Only(n, Resources \ C)
             k == Only(n, C)
             x == Puts(b, m)
             d == Upserts(b, n)
  <1>1. DOMAIN n \subseteq Resources
    BY NewsOf
  <1>2. \A r \in Resources : r \in C <=> KindOf[r] = "emoji" /\ b.cache[r] # 0
    BY DEF Of
  <1>3. d = Assigns(x, k)
    BY DEF Upserts
  <1> HIDE DEF C
  <1>4. /\ m \in News /\ k \in News
        /\ DOMAIN m = DOMAIN n \ C /\ \A r \in DOMAIN n \ C : m[r] = n[r]
        /\ DOMAIN k = DOMAIN n \cap C /\ \A r \in DOMAIN n \cap C : k[r] = n[r]
    <2>1. m \in News /\ k \in News
      BY OnlyNews
    <2>2. DOMAIN m = DOMAIN n \cap (Resources \ C)
          /\ \A r \in DOMAIN n \cap (Resources \ C) : m[r] = n[r]
      BY OnlyNews
    <2>3. DOMAIN k = DOMAIN n \cap C /\ \A r \in DOMAIN n \cap C : k[r] = n[r]
      BY OnlyNews
    <2>4. DOMAIN n \cap (Resources \ C) = DOMAIN n \ C
      BY <1>1
    <2> QED BY <2>1, <2>2, <2>3, <2>4
  <1> HIDE DEF m, k
  <1>5. /\ x \in Boxes /\ x.write = b.write
        /\ \A r \in Resources :
              /\ x.cache[r] = IF r \in DOMAIN m THEN m[r] ELSE b.cache[r]
              /\ x.flight[r] = IF r \in DOMAIN m THEN Soils(b, r) ELSE b.flight[r]
    BY <1>4, PutsBox
  <1> HIDE DEF x, d
  <1>6. /\ d \in Boxes /\ d.write = x.write /\ d.flight = x.flight
        /\ \A r \in Resources : d.cache[r] = IF r \in DOMAIN k THEN k[r] ELSE x.cache[r]
    BY <1>3, <1>4, <1>5, AssignsBox
  <1>7. \A r \in Resources :
           /\ d.cache[r] = IF r \in DOMAIN n THEN n[r] ELSE b.cache[r]
           /\ d.flight[r] = IF r \in DOMAIN n /\ (KindOf[r] # "emoji" \/ b.cache[r] = 0)
                            THEN Soils(b, r) ELSE b.flight[r]
    BY <1>2, <1>4, <1>5, <1>6
  <1>8. /\ d \in Boxes /\ d.write = b.write
        /\ \A r \in Resources :
              /\ d.cache[r] = IF r \in DOMAIN n THEN n[r] ELSE b.cache[r]
              /\ d.flight[r] = IF r \in DOMAIN n /\ (KindOf[r] # "emoji" \/ b.cache[r] = 0)
                               THEN Soils(b, r) ELSE b.flight[r]
    BY <1>5, <1>6, <1>7
  <1> QED BY <1>8 DEF d

LEMMA DeletesBox ==
    ASSUME NEW b \in Boxes, NEW S
    PROVE  LET d == Deletes(b, S) IN
           /\ d \in Boxes /\ d.write = b.write
           /\ \A r \in Resources :
                 /\ d.cache[r] = IF r \in S THEN 0 ELSE b.cache[r]
                 /\ d.flight[r] = IF r \in S THEN Soils(b, r) ELSE b.flight[r]
  <1> DEFINE c == [r \in Resources |-> IF r \in S THEN 0 ELSE b.cache[r]]
             f == [r \in Resources |-> IF r \in S THEN Soils(b, r) ELSE b.flight[r]]
             d == Deletes(b, S)
  <1>1. c \in [Resources -> Versions] /\ f \in [Resources -> Fetches]
    BY BoxParts, VersionsNat, SoilsFlight
  <1>2. \A r \in Resources :
           /\ c[r] = IF r \in S THEN 0 ELSE b.cache[r]
           /\ f[r] = IF r \in S THEN Soils(b, r) ELSE b.flight[r]
    OBVIOUS
  <1>3. d = [b EXCEPT !.cache = c, !.flight = f]
    BY DEF Deletes
  <1> HIDE DEF c, f, d
  <1>4. d \in Boxes /\ d.cache = c /\ d.flight = f /\ d.write = b.write
    BY <1>1, <1>3 DEF Boxes
  <1>5. /\ d \in Boxes /\ d.write = b.write
        /\ \A r \in Resources :
              /\ d.cache[r] = IF r \in S THEN 0 ELSE b.cache[r]
              /\ d.flight[r] = IF r \in S THEN Soils(b, r) ELSE b.flight[r]
    BY <1>2, <1>4
  <1> QED BY <1>5 DEF d

LEMMA NoWriteTyped == NoWrite \in Write /\ NoWrite.at = "none" /\ NoWrite.op = "none"
  BY Guild, VersionsNat DEF NoWrite, Write

LEMMA DropsBox ==
    ASSUME NEW b \in Boxes, NEW S
    PROVE  LET d == Drops(b, S) IN
           /\ d \in Boxes /\ d.write \in {b.write, NoWrite}
           /\ \A r \in Resources :
                 /\ d.cache[r] = IF r \in S THEN 0 ELSE b.cache[r]
                 /\ d.flight[r] = IF r \in S THEN NoFlight ELSE b.flight[r]
  <1> DEFINE c == [r \in Resources |-> IF r \in S THEN 0 ELSE b.cache[r]]
             f == [r \in Resources |-> IF r \in S THEN NoFlight ELSE b.flight[r]]
             w == IF b.write.what \in S THEN NoWrite ELSE b.write
             d == Drops(b, S)
  <1>1. c \in [Resources -> Versions] /\ f \in [Resources -> Fetches] /\ w \in Write
    BY BoxParts, VersionsNat, FlightParts, NoWriteTyped
  <1>2. /\ w \in {b.write, NoWrite}
        /\ \A r \in Resources :
              /\ c[r] = IF r \in S THEN 0 ELSE b.cache[r]
              /\ f[r] = IF r \in S THEN NoFlight ELSE b.flight[r]
    OBVIOUS
  <1>3. d = [b EXCEPT !.cache = c, !.flight = f, !.write = w]
    BY DEF Drops
  <1> HIDE DEF c, f, d, w
  <1>4. d \in Boxes /\ d.cache = c /\ d.flight = f /\ d.write = w
    BY <1>1, <1>3 DEF Boxes
  <1>5. /\ d \in Boxes /\ d.write \in {b.write, NoWrite}
        /\ \A r \in Resources :
              /\ d.cache[r] = IF r \in S THEN 0 ELSE b.cache[r]
              /\ d.flight[r] = IF r \in S THEN NoFlight ELSE b.flight[r]
    BY <1>2, <1>4
  <1> QED BY <1>5 DEF d

\* A box that has lost some of what the other held.
Loses(b, c) ==
    /\ c \in Boxes /\ c.write \in {b.write, NoWrite}
    /\ \A r \in Resources : c.cache[r] \in {b.cache[r], 0} /\ Kept(b.flight[r], c.flight[r])

\* The keys of S are gone from it.
Loss(b, c, S) ==
    Loses(b, c) /\ \A r \in Resources \cap S : c.cache[r] = 0 /\ Soiled(b.flight[r], c.flight[r])

LEMMA LosesMore ==
    ASSUME NEW b \in Boxes, NEW c, NEW d, NEW S, Loss(b, c, S), Loses(c, d)
    PROVE  Loss(b, d, S)
  <1>1. \A r \in Resources : /\ d.cache[r] \in {b.cache[r], 0}
                             /\ r \in S => d.cache[r] = 0
    BY DEF Loss, Loses
  <1>2. \A r \in Resources : Kept(b.flight[r], d.flight[r])
    BY DEF Loss, Loses, Kept
  <1>3. \A r \in Resources \cap S : Soiled(b.flight[r], d.flight[r])
    BY DEF Loss, Loses, Kept, Soiled
  <1> QED BY <1>1, <1>2, <1>3 DEF Loss, Loses

LEMMA DeletesLoss ==
    ASSUME NEW b \in Boxes, NEW S
    PROVE  Loss(b, Deletes(b, S), S)
  <1> DEFINE d == Deletes(b, S)
  <1>1. /\ d \in Boxes /\ d.write = b.write
        /\ \A r \in Resources :
              /\ d.cache[r] = IF r \in S THEN 0 ELSE b.cache[r]
              /\ d.flight[r] = IF r \in S THEN Soils(b, r) ELSE b.flight[r]
    BY DeletesBox
  <1> HIDE DEF d
  <1>2. Loss(b, d, S)
    BY <1>1, SoilsFlight, BoxParts DEF Loss, Loses
  <1> QED BY <1>2 DEF d

LEMMA DropsLoss ==
    ASSUME NEW b \in Boxes, NEW S
    PROVE  Loses(b, Drops(b, S))
  <1> DEFINE d == Drops(b, S)
  <1>1. /\ d \in Boxes /\ d.write \in {b.write, NoWrite}
        /\ \A r \in Resources :
              /\ d.cache[r] = IF r \in S THEN 0 ELSE b.cache[r]
              /\ d.flight[r] = IF r \in S THEN NoFlight ELSE b.flight[r]
    BY DropsBox
  <1> HIDE DEF d
  <1>2. Loses(b, d)
    BY <1>1, FlightParts, BoxParts DEF Loses, Kept
  <1> QED BY <1>2 DEF d

LEMMA DeletesChannelLoss ==
    ASSUME NEW b \in Boxes, NEW S
    PROVE  Loss(b, DeletesChannel(b, S), S)
  <1>1. CASE S = {}
    BY <1>1, BoxParts DEF DeletesChannel, Loss, Loses
  <1>2. CASE S # {}
    <2> DEFINE c == Deletes(b, S)
    <2>1. Loss(b, c, S) /\ c \in Boxes
      BY DeletesLoss DEF Loss, Loses
    <2>2. DeletesChannel(b, S) = Drops(c, Of("message"))
      BY <1>2 DEF DeletesChannel
    <2> HIDE DEF c
    <2> QED BY <2>1, <2>2, DropsLoss, LosesMore
  <1> QED BY <1>1, <1>2

LEMMA DeletesSpares ==
    ASSUME NEW b \in Boxes, NEW S, TheGuild \notin S
    PROVE  /\ Deletes(b, S).cache[TheGuild] = b.cache[TheGuild]
           /\ DeletesChannel(b, S).cache[TheGuild] = b.cache[TheGuild]
  <1>1. TheGuild \in Resources /\ TheGuild \notin Of("message")
    BY Guild DEF Of
  <1>2. Deletes(b, S) \in Boxes /\ Deletes(b, S).cache[TheGuild] = b.cache[TheGuild]
    BY <1>1, DeletesBox
  <1>3. Drops(Deletes(b, S), Of("message")).cache[TheGuild] = Deletes(b, S).cache[TheGuild]
    BY <1>1, <1>2, DropsBox
  <1> QED BY <1>2, <1>3 DEF DeletesChannel

LEMMA LeavesGuildLoss ==
    ASSUME NEW b \in Boxes
    PROVE  Loss(b, LeavesGuild(b), {TheGuild})
  <1> DEFINE c == Deletes(b, {TheGuild})
             d == Drops(c, PerGuild)
             S == {r \in Of("channel") : b.cache[r] # 0}
  <1>1. Loss(b, c, {TheGuild}) /\ c \in Boxes
    BY DeletesLoss DEF Loss, Loses
  <1> HIDE DEF c
  <1>2. Loses(c, d) /\ d \in Boxes
    BY <1>1, DropsLoss DEF Loses
  <1>3. LeavesGuild(b) = DeletesChannel(d, S)
    BY DEF LeavesGuild, c
  <1> HIDE DEF d, S
  <1>4. Loses(d, DeletesChannel(d, S))
    BY <1>2, DeletesChannelLoss DEF Loss
  <1>5. Loss(b, d, {TheGuild})
    BY <1>1, <1>2, LosesMore
  <1> QED BY <1>3, <1>4, <1>5, LosesMore

-----------------------------------------------------------------------------
(* A dispatch is handled.                                                  *)

\* The two paths that write a key and not the flag of its fetch.
Unflagged(b, e, r) ==
    \/ KindOf[r] = "emoji" /\ e.type \in {"list", "guild"}
    \/ KindOf[r] = "message" /\ e.type = "update" /\ b.cache[r] = 0

\* What e may do to the key r.
Takes(b, c, e, r) ==
    IF r \in DOMAIN e.news
    THEN /\ c.cache[r] \in {e.news[r], 0}
         /\ \/ Soiled(b.flight[r], c.flight[r])
            \/ Kept(b.flight[r], c.flight[r]) /\ Unflagged(b, e, r)
    ELSE c.cache[r] \in {b.cache[r], 0} /\ Kept(b.flight[r], c.flight[r])

Takings(b, c, e) ==
    /\ c \in Boxes /\ c.write \in {b.write, NoWrite}
    /\ \A r \in Resources : Takes(b, c, e, r)
    /\ e.type = "guild" => c.cache[TheGuild] # 0
    /\ b.cache[TheGuild] # 0 /\ e.type # "left" => c.cache[TheGuild] # 0

LEMMA HandledTakes ==
    ASSUME NEW b \in Boxes, NEW e \in Told, WellFormed(e),
           TellsOfMember(e) => b.cache[TheGuild] # 0
    PROVE  Takings(b, Handled(b, e), e)
  <1> DEFINE n == e.news
             c == Handled(b, e)
  <1>1. e.type \in Events /\ n \in News /\ DOMAIN n \subseteq Resources
    BY NewsOf DEF Told
  <1>2. TheGuild \in Resources /\ KindOf[TheGuild] = "guild"
    BY Guild
  <1>3. CASE e.type = "guild"
    <2>1. Only(n, e.live) \in News /\ DOMAIN Only(n, e.live) = DOMAIN n
          /\ \A r \in DOMAIN n : Only(n, e.live)[r] = n[r]
      <3>1. DOMAIN n \cap e.live = DOMAIN n
        BY <1>3 DEF WellFormed
      <3>2. Only(n, e.live) \in News /\ DOMAIN Only(n, e.live) = DOMAIN n \cap e.live
            /\ \A r \in DOMAIN n \cap e.live : Only(n, e.live)[r] = n[r]
        BY <1>1, OnlyNews
      <3> HIDE DEF n
      <3> QED BY <3>1, <3>2
    <2> DEFINE m == Only(n, e.live)
    <2>2. c = Upserts(b, m)
      BY <1>3 DEF Handled
    <2> HIDE DEF m, c
    <2>3. /\ c \in Boxes /\ c.write = b.write
          /\ \A r \in Resources :
                /\ c.cache[r] = IF r \in DOMAIN n THEN n[r] ELSE b.cache[r]
                /\ c.flight[r] = IF r \in DOMAIN n /\ (KindOf[r] # "emoji" \/ b.cache[r] = 0)
                                 THEN Soils(b, r) ELSE b.flight[r]
      BY <2>1, <2>2, UpsertsBox DEF m
    <2>4. \A r \in Resources : Takes(b, c, e, r)
      BY <1>3, <2>3, SoilsFlight, BoxParts DEF Takes, Unflagged
    <2>5. c.cache[TheGuild] # 0
      BY <1>2, <1>3, <2>3 DEF WellFormed
    <2> QED BY <2>3, <2>4, <2>5 DEF Takings, c
  <1>4. CASE e.type = "left"
    <2>1. c = LeavesGuild(b)
      BY <1>4 DEF Handled
    <2> HIDE DEF c
    <2>2. Loss(b, c, {TheGuild}) /\ DOMAIN n = {TheGuild}
      BY <1>4, <2>1, LeavesGuildLoss DEF WellFormed
    <2>3. \A r \in Resources : Takes(b, c, e, r)
      BY <2>2 DEF Takes, Loss, Loses
    <2> QED BY <1>4, <2>2, <2>3 DEF Takings, Loss, Loses, c
  <1>5. CASE e.type = "outage"
    <2>1. c = b /\ DOMAIN n = {}
      BY <1>5 DEF Handled, WellFormed
    <2>2. \A r \in Resources : Takes(b, b, e, r)
      BY <2>1, BoxParts DEF Takes
    <2> HIDE DEF c
    <2> QED BY <1>5, <2>1, <2>2 DEF Takings, c
  <1>6. CASE e.type = "list"
    <2> DEFINE S == {r \in DOMAIN n \ e.live : b.cache[r] # 0}
               d == Deletes(b, S)
               m == Only(n, e.live)
    <2>1. c = Upserts(d, m)
      BY <1>6 DEF Handled, SyncsEmojis
    <2>2. \A r \in Resources : r \in S <=> r \in DOMAIN n /\ r \notin e.live /\ b.cache[r] # 0
      OBVIOUS
    <2>3. m \in News /\ DOMAIN m = DOMAIN n \cap e.live
          /\ \A r \in DOMAIN n \cap e.live : m[r] = n[r]
      BY <1>1, OnlyNews
    <2> HIDE DEF S, m
    <2>4. /\ d \in Boxes /\ d.write = b.write
          /\ \A r \in Resources :
                /\ d.cache[r] = IF r \in S THEN 0 ELSE b.cache[r]
                /\ d.flight[r] = IF r \in S THEN Soils(b, r) ELSE b.flight[r]
      BY DeletesBox
    <2> HIDE DEF d, c
    <2>5. /\ c \in Boxes /\ c.write = d.write
          /\ \A r \in Resources :
                /\ c.cache[r] = IF r \in DOMAIN m THEN m[r] ELSE d.cache[r]
                /\ c.flight[r] = IF r \in DOMAIN m /\ (KindOf[r] # "emoji" \/ d.cache[r] = 0)
                                 THEN Soils(d, r) ELSE d.flight[r]
      BY <2>1, <2>3, <2>4, UpsertsBox
    <2>6. \A r \in DOMAIN n : KindOf[r] = "emoji"
      BY <1>6 DEF WellFormed, Of
    <2>7. \A r \in Resources : Kept(b.flight[r], c.flight[r])
      <3> SUFFICES ASSUME NEW r \in Resources PROVE Kept(b.flight[r], c.flight[r])
        OBVIOUS
      <3>1. Kept(b.flight[r], d.flight[r])
        BY <2>4, SoilsFlight, BoxParts
      <3>2. Kept(d.flight[r], c.flight[r])
        BY <2>4, <2>5, SoilsFlight, BoxParts
      <3> QED BY <3>1, <3>2 DEF Kept
    <2>8. \A r \in Resources : Takes(b, c, e, r)
      <3> SUFFICES ASSUME NEW r \in Resources PROVE Takes(b, c, e, r)
        OBVIOUS
      <3>1. CASE r \in DOMAIN n
        <4>1. Unflagged(b, e, r)
          BY <1>6, <2>6, <3>1 DEF Unflagged
        <4>2. c.cache[r] \in {n[r], 0}
          BY <2>2, <2>3, <2>4, <2>5, <3>1
        <4> QED BY <2>7, <3>1, <4>1, <4>2 DEF Takes
      <3>2. CASE r \notin DOMAIN n
        BY <2>2, <2>3, <2>4, <2>5, <2>7, <3>2 DEF Takes
      <3> QED BY <3>1, <3>2
    <2>9. c.cache[TheGuild] = b.cache[TheGuild]
      BY <1>2, <2>2, <2>3, <2>4, <2>5, <2>6
    <2> QED BY <1>6, <2>4, <2>5, <2>8, <2>9 DEF Takings, c
  <1>7. CASE e.type = "put"
    <2> DEFINE m == IF GuildGone(b) THEN Only(n, Resources \ Of("member")) ELSE n
    <2>1. c = Upserts(b, m)
      BY <1>7 DEF Handled, TakesMembers
    <2>2. m \in News /\ DOMAIN m = DOMAIN n /\ \A r \in DOMAIN n : m[r] = n[r]
      <3>1. CASE ~GuildGone(b)
        BY <1>1, <3>1
      <3>2. CASE GuildGone(b)
        <4>1. DOMAIN n \cap Of("member") = {}
          BY <1>7, <3>2 DEF TellsOfMember, GuildGone
        <4>2. DOMAIN n \cap (Resources \ Of("member")) = DOMAIN n
          BY <1>1, <4>1
        <4>3. /\ Only(n, Resources \ Of("member")) \in News
              /\ DOMAIN Only(n, Resources \ Of("member")) = DOMAIN n \cap (Resources \ Of("member"))
              /\ \A r \in DOMAIN n \cap (Resources \ Of("member")) :
                    Only(n, Resources \ Of("member"))[r] = n[r]
          BY <1>1, OnlyNews
        <4> QED BY <3>2, <4>2, <4>3
      <3> QED BY <3>1, <3>2
    <2> HIDE DEF m, c
    <2>3. /\ c \in Boxes /\ c.write = b.write
          /\ \A r \in Resources :
                /\ c.cache[r] = IF r \in DOMAIN n THEN n[r] ELSE b.cache[r]
                /\ c.flight[r] = IF r \in DOMAIN n /\ (KindOf[r] # "emoji" \/ b.cache[r] = 0)
                                 THEN Soils(b, r) ELSE b.flight[r]
      BY <2>1, <2>2, UpsertsBox
    <2>4. \A r \in DOMAIN n : KindOf[r] # "emoji"
      BY <1>1, <1>7 DEF WellFormed, Of
    <2>5. \A r \in Resources : Takes(b, c, e, r)
      BY <2>3, <2>4, SoilsFlight, BoxParts DEF Takes
    <2>6. b.cache[TheGuild] # 0 => c.cache[TheGuild] # 0
      BY <1>2, <2>3 DEF WellFormed
    <2> QED BY <1>7, <2>3, <2>5, <2>6 DEF Takings, c
  <1>8. CASE e.type = "update"
    <2> DEFINE S == {r \in Resources : b.cache[r] # 0}
               m == Only(n, S)
    <2>1. c = Puts(b, m)
      BY <1>8 DEF Handled, TakesUpdate
    <2>2. /\ m \in News /\ DOMAIN m = DOMAIN n \cap S
          /\ \A r \in DOMAIN n \cap S : m[r] = n[r]
          /\ \A r \in Resources : r \in S <=> b.cache[r] # 0
      BY <1>1, OnlyNews
    <2> HIDE DEF S, m, c
    <2>3. /\ c \in Boxes /\ c.write = b.write
          /\ \A r \in Resources :
                /\ c.cache[r] = IF r \in DOMAIN m THEN m[r] ELSE b.cache[r]
                /\ c.flight[r] = IF r \in DOMAIN m THEN Soils(b, r) ELSE b.flight[r]
      BY <2>1, <2>2, PutsBox
    <2>4. \A r \in DOMAIN n : KindOf[r] = "message"
      BY <1>1, <1>8 DEF WellFormed, Of
    <2>5. \A r \in Resources : Takes(b, c, e, r)
      <3> SUFFICES ASSUME NEW r \in Resources PROVE Takes(b, c, e, r)
        OBVIOUS
      <3>1. CASE r \in DOMAIN n /\ b.cache[r] # 0
        BY <2>2, <2>3, <3>1, SoilsFlight DEF Takes
      <3>2. CASE r \in DOMAIN n /\ b.cache[r] = 0
        BY <1>8, <2>2, <2>3, <2>4, <3>2, BoxParts DEF Takes, Unflagged
      <3>3. CASE r \notin DOMAIN n
        BY <2>2, <2>3, <3>3, BoxParts DEF Takes
      <3> QED BY <3>1, <3>2, <3>3
    <2>6. c.cache[TheGuild] = b.cache[TheGuild]
      BY <1>2, <2>2, <2>3, <2>4
    <2> QED BY <1>8, <2>3, <2>5, <2>6 DEF Takings, c
  <1>9. CASE e.type = "gone"
    <2>1. Loss(b, c, DOMAIN n)
      <3>1. CASE DOMAIN n \subseteq Of("channel")
        BY <1>9, <3>1, DeletesChannelLoss DEF Handled
      <3>2. CASE ~(DOMAIN n \subseteq Of("channel"))
        BY <1>9, <3>2, DeletesLoss DEF Handled
      <3> QED BY <3>1, <3>2
    <2>2. c.cache[TheGuild] = b.cache[TheGuild]
      <3>1. TheGuild \notin DOMAIN n
        BY <1>9 DEF WellFormed
      <3> QED BY <1>9, <3>1, DeletesSpares DEF Handled
    <2> HIDE DEF c
    <2>3. \A r \in Resources : Takes(b, c, e, r)
      BY <2>1 DEF Takes, Loss, Loses
    <2> QED BY <1>9, <2>1, <2>2, <2>3 DEF Takings, Loss, Loses, c
  <1> QED BY <1>1, <1>3, <1>4, <1>5, <1>6, <1>7, <1>8, <1>9 DEF Events

\* If no answer is overtaken on one of the paths that miss the flag, all stays fresh.
LEMMA TakingsFresh ==
    ASSUME NEW b \in Boxes, NEW c, NEW e \in Told, Takings(b, c, e),
           NEW h \in [Resources -> Versions], Fresh(b, h),
           \A r \in DOMAIN e.news : h[r] <= e.news[r],
           \A r \in DOMAIN e.news :
              KindOf[r] = "plain" \/ Unflagged(b, e, r)
                 => ~(b.flight[r].at = "answered" /\ b.flight[r].v \in 1..(e.news[r] - 1))
    PROVE  Fresh(c, Hears(h, e))
  <1> SUFFICES ASSUME NEW r \in Resources
               PROVE  FreshAt(c.cache[r], c.flight[r], KindOf[r], Hears(h, e)[r])
    BY DEF Fresh
  <1> DEFINE f == b.flight[r]
             g == c.flight[r]
             v == e.news[r]
  <1>1. /\ f \in Fetches /\ g \in Fetches /\ f.v \in Nat /\ g.v \in Nat
        /\ b.cache[r] \in Nat /\ h[r] \in Nat /\ c.cache[r] \in Nat
    <2>1. c \in Boxes
      BY DEF Takings
    <2> QED BY <2>1, BoxParts, FlightParts, VersionsNat
  <1>2. FreshAt(b.cache[r], f, KindOf[r], h[r]) /\ Takes(b, c, e, r)
    BY DEF Fresh, Takings
  <1>3. CASE r \notin DOMAIN e.news
    <2>1. Hears(h, e)[r] = h[r]
      BY <1>3 DEF Hears
    <2>2. c.cache[r] \in {b.cache[r], 0} /\ Kept(f, g)
      BY <1>2, <1>3 DEF Takes
    <2> QED BY <1>1, <1>2, <2>1, <2>2 DEF FreshAt, WillStore, Kept
  <1>4. CASE r \in DOMAIN e.news
    <2>1. Hears(h, e)[r] = v /\ v \in Nat
      BY <1>4, NewsOf, VersionsNat DEF Hears, Told
    <2>2. c.cache[r] \in {v, 0}
      BY <1>2, <1>4 DEF Takes
    <2>3. ASSUME WillStore(g, KindOf[r]) PROVE g.v >= v
      <3>1. g.at = "answered" /\ g.v # 0 /\ (g.dirty => KindOf[r] = "plain")
        BY <2>3 DEF WillStore
      <3>2. Soiled(f, g) \/ (Kept(f, g) /\ Unflagged(b, e, r))
        BY <1>2, <1>4 DEF Takes
      <3>3. f.at = "answered" /\ f.v = g.v /\ (KindOf[r] = "plain" \/ Unflagged(b, e, r))
        BY <3>1, <3>2 DEF Soiled, Kept
      <3>4. ~(f.v \in 1..(v - 1))
        BY <1>4, <3>3
      <3> QED BY <1>1, <2>1, <3>1, <3>3, <3>4
    <2> HIDE DEF g
    <2>4. c.cache[r] # 0 => c.cache[r] >= v
      BY <2>1, <2>2
    <2> QED BY <2>1, <2>3, <2>4 DEF FreshAt, g
  <1> QED BY <1>3, <1>4

-----------------------------------------------------------------------------
(* The steps of the client.                                                *)

Guarded == Races \cap {"emoji", "message", "plain", "write"} = {}

LEMMA ReceivesStep ==
    ASSUME IInv, Guarded, Receives
    PROVE  IInv'
  <1> DEFINE e == Head(wire)
             c == Handled(box, e)
             a == truth[TheGuild].alive
             g == box.cache[TheGuild]
  <1>1. /\ wire # <<>> /\ ~Unmarked(e) /\ box' = c /\ wire' = Tail(wire)
        /\ heard' = Hears(heard, e)
        /\ UNCHANGED <<truth, out, changes, fetches, writes>>
    BY DEF Receives, Hears
  <1>2. /\ wire \in Seq(Told) /\ Formed(wire) /\ Placed(wire, g, a)
        /\ Rises(wire, heard, truth) /\ Fresh(box, heard) /\ Sane(box.write)
    BY DEF IInv
  <1>3. /\ heard \in [Resources -> Versions] /\ box \in Boxes
        /\ truth \in Truths /\ a \in BOOLEAN /\ Small
    BY Guild, Typed DEF IInv, Truths
  <1> HIDE DEF c, a, g, e
  <1>4. e \in Told /\ WellFormed(e) /\ (TellsOfMember(e) => g # 0)
    <2>1. e \in Told /\ wire[1] = e /\ 1 \in 1..Len(wire)
      BY <1>1, <1>2, HeadTailProperties, EmptySeq DEF e
    <2> QED BY <1>2, <2>1 DEF Formed, Placed, Guilded
  <1>5. Takings(box, c, e)
    BY <1>3, <1>4, HandledTakes DEF c, g
  <1>6. /\ e.type = "guild" => c.cache[TheGuild] # 0
        /\ g # 0 /\ e.type # "left" => c.cache[TheGuild] # 0
        /\ c \in Boxes /\ c.write \in {box.write, NoWrite}
    BY <1>5 DEF Takings, g
  <1> DEFINE k == c.cache[TheGuild]
  <1> HIDE DEF k
  <1>7. /\ wire' \in Seq(Told) /\ Formed(wire') /\ Placed(wire', k, a)
        /\ Rises(wire', heard', truth) /\ heard' \in [Resources -> Versions]
        /\ \A r \in DOMAIN e.news : heard[r] <= e.news[r]
    <2>1. /\ Head(wire).type = "guild" => k # 0
          /\ g # 0 /\ Head(wire).type # "left" => k # 0
      BY <1>6 DEF e, k
    <2>2. /\ Tail(wire) \in Seq(Told) /\ Formed(Tail(wire))
          /\ Placed(Tail(wire), k, a) /\ Rises(Tail(wire), Hears(heard, Head(wire)), truth)
          /\ Hears(heard, Head(wire)) \in [Resources -> Versions]
          /\ \A r \in DOMAIN Head(wire).news : heard[r] <= Head(wire).news[r]
      <3>1. /\ wire \in Seq(Told) /\ wire # <<>> /\ Formed(wire) /\ Placed(wire, g, a)
            /\ heard \in [Resources -> Versions] /\ truth \in Truths /\ a \in BOOLEAN
            /\ Rises(wire, heard, truth)
        BY <1>1, <1>2, <1>3
      <3> QED BY <2>1, <3>1, Received
    <2> QED BY <1>1, <2>2 DEF e
  <1>8. Fresh(c, heard')
    <2>1. ASSUME NEW r \in DOMAIN e.news, KindOf[r] = "plain" \/ Unflagged(box, e, r)
          PROVE  ~(box.flight[r].at = "answered" /\ box.flight[r].v \in 1..(e.news[r] - 1))
      <3>1. r \in Resources
        BY <1>4, NewsOf DEF Told
      <3>2. ~Raced("plain") /\ ~Raced("emoji") /\ ~Raced("message")
        BY DEF Guarded, Raced
      <3> QED BY <1>1, <2>1, <3>1, <3>2 DEF Unmarked, Overtakes, Unflagged, Of
    <2> QED BY <1>1, <1>2, <1>3, <1>4, <1>5, <1>7, <2>1, TakingsFresh
  <1>9. Sane(c.write)
    BY <1>2, <1>6, NoWriteTyped DEF Sane
  <1>10. TypeOK'
    BY <1>1, <1>3, <1>6, <1>7, TypedNext DEF Small
  <1> QED BY <1>1, <1>2, <1>7, <1>8, <1>9, <1>10 DEF IInv, a, k

\* A step of the client alone, which leaves the wire and what it has heard.
LEMMA BoxStep ==
    ASSUME IInv, box' \in Boxes, Fresh(box', heard), Sane(box'.write),
           box.cache[TheGuild] # 0 => box'.cache[TheGuild] # 0,
           UNCHANGED <<truth, out, wire, heard, changes>>,
           fetches' \in 0..MaxFetches, writes' \in 0..MaxWrites
    PROVE  IInv'
  <1>1. TypeOK'
    BY Typed, TypedNext DEF IInv, Small
  <1>2. Placed(wire, box'.cache[TheGuild], truth[TheGuild].alive)
    BY DEF IInv, Placed, Guilded
  <1> QED BY <1>1, <1>2 DEF IInv

\* A fetch g takes the place of the one for r.
Reflown(b, r, g) == [b EXCEPT !.flight[r] = g]

LEMMA Flies ==
    ASSUME NEW b \in Boxes, NEW r \in Resources, NEW g \in Fetches,
           NEW h \in [Resources -> Versions], Fresh(b, h), WillStore(g, KindOf[r]) => g.v >= h[r],
           NEW d, d = Reflown(b, r, g)
    PROVE  d \in Boxes /\ Fresh(d, h) /\ d.cache = b.cache /\ d.write = b.write
  <1> DEFINE f == [b.flight EXCEPT ![r] = g]
  <1>1. b.flight \in [Resources -> Fetches]
    BY BoxParts
  <1>2. f \in [Resources -> Fetches] /\ \A q \in Resources : f[q] = IF q = r THEN g ELSE b.flight[q]
    BY <1>1
  <1> HIDE DEF f
  <1>3. d = [b EXCEPT !.flight = f]
    BY DEF f, Boxes, Reflown
  <1>4. d \in Boxes /\ d.cache = b.cache /\ d.write = b.write /\ d.flight = f
    BY <1>2, <1>3 DEF Boxes
  <1>5. Fresh(d, h)
    BY <1>2, <1>4 DEF Fresh, FreshAt
  <1> QED BY <1>4, <1>5

LEMMA FetchStep ==
    ASSUME IInv, NEW r \in Resources, Fetch(r)
    PROVE  IInv'
  <1>1. /\ fetches' \in 0..MaxFetches /\ writes' \in 0..MaxWrites
        /\ UNCHANGED <<truth, out, wire, heard, changes>>
    BY BoundsAssumption DEF Fetch, IInv, TypeOK
  <1>2. box \in Boxes /\ heard \in [Resources -> Versions] /\ Fresh(box, heard) /\ Sane(box.write)
    BY Typed DEF IInv
  <1>3. CASE Out(r)
    <2>1. box' = box
      BY <1>3 DEF Fetch
    <2> QED BY <1>1, <1>2, <2>1, BoxStep
  <1>4. CASE ~Out(r)
    <2> DEFINE g == [NoFlight EXCEPT !.at = "asked"]
    <2>1. g \in Fetches /\ g.at = "asked"
      BY VersionsNat DEF NoFlight, Flight, Fetches
    <2>2. box' = Reflown(box, r, g)
      BY <1>4 DEF Fetch, Reflown
    <2> HIDE DEF g
    <2>4. WillStore(g, KindOf[r]) => g.v >= heard[r]
      BY <2>1 DEF WillStore
    <2>3. box' \in Boxes /\ Fresh(box', heard) /\ box'.cache = box.cache /\ box'.write = box.write
      BY <1>2, <2>1, <2>2, <2>4, Flies
    <2> QED BY <1>1, <1>2, <2>3, BoxStep
  <1> QED BY <1>3, <1>4

LEMMA ServesStep ==
    ASSUME IInv, NEW r \in Resources, Serves(r)
    PROVE  IInv'
  <1> DEFINE f == box.flight[r]
             v == IF Visible(r) THEN truth[r].v ELSE 0
             g == [f EXCEPT !.at = "answered", !.v = v]
  <1>1. /\ fetches' \in 0..MaxFetches /\ writes' \in 0..MaxWrites
        /\ UNCHANGED <<truth, out, wire, heard, changes>>
    BY DEF Serves, IInv, TypeOK
  <1>2. /\ box \in Boxes /\ heard \in [Resources -> Versions] /\ truth \in Truths
        /\ Fresh(box, heard) /\ Sane(box.write)
    BY Typed DEF IInv
  <1>3. v \in Versions /\ (v # 0 => v >= heard[r])
    BY <1>2, VersionsNat DEF IInv, Rises, Truths
  <1>4. f \in Fetches /\ f \in Flight
    BY <1>2, BoxParts DEF Fetches
  <1> HIDE DEF v, f
  <1>5. g \in Fetches /\ g.at = "answered" /\ g.v = v
    BY <1>3, <1>4 DEF Fetches, Flight, NoFlight
  <1>7. box' = Reflown(box, r, g)
    BY <1>2 DEF Serves, Reflown, Boxes, v, f
  <1> HIDE DEF g
  <1>8. box' \in Boxes /\ Fresh(box', heard) /\ box'.cache = box.cache /\ box'.write = box.write
    <2>1. WillStore(g, KindOf[r]) => g.v >= heard[r]
      BY <1>3, <1>5 DEF WillStore
    <2> QED BY <1>2, <1>5, <1>7, <2>1, Flies
  <1> QED BY <1>1, <1>2, <1>8, BoxStep

\* An answer, of a fetch or of an edit, that is no older than what was heard is kept.
News1(r, v) == [x \in {r} |-> v]

LEMMA UpsertsFresh ==
    ASSUME NEW b \in Boxes, NEW h \in [Resources -> Versions], Fresh(b, h),
           NEW r \in Resources, NEW v \in Versions, v >= h[r], v # 0,
           NEW d, d = Upserts(b, News1(r, v))
    PROVE  /\ d \in Boxes /\ Fresh(d, h) /\ d.write = b.write
           /\ b.cache[TheGuild] # 0 => d.cache[TheGuild] # 0
  <1> DEFINE n == News1(r, v)
  <1>1. n \in News /\ DOMAIN n = {r} /\ n[r] = v
    BY MakesNews DEF News1
  <1> HIDE DEF n
  <1>2. /\ d \in Boxes /\ d.write = b.write
        /\ \A q \in Resources :
              /\ d.cache[q] = IF q = r THEN v ELSE b.cache[q]
              /\ d.flight[q] \in {Soils(b, q), b.flight[q]}
    <2>1. /\ d \in Boxes /\ d.write = b.write
          /\ \A q \in Resources :
                /\ d.cache[q] = IF q \in DOMAIN n THEN n[q] ELSE b.cache[q]
                /\ d.flight[q] = IF q \in DOMAIN n /\ (KindOf[q] # "emoji" \/ b.cache[q] = 0)
                                 THEN Soils(b, q) ELSE b.flight[q]
      BY <1>1, UpsertsBox DEF n
    <2> QED BY <1>1, <2>1
  <1>3. \A q \in Resources : Kept(b.flight[q], d.flight[q])
    BY <1>2, SoilsFlight, BoxParts
  <1>4. Fresh(d, h)
    <2> SUFFICES ASSUME NEW q \in Resources
                 PROVE  FreshAt(d.cache[q], d.flight[q], KindOf[q], h[q])
      BY DEF Fresh
    <2>1. FreshAt(b.cache[q], b.flight[q], KindOf[q], h[q])
      BY DEF Fresh
    <2>2. WillStore(d.flight[q], KindOf[q]) => d.flight[q].v >= h[q]
      BY <1>3, <2>1 DEF FreshAt, WillStore, Kept
    <2>3. d.cache[q] # 0 => d.cache[q] >= h[q]
      BY <1>2, <2>1 DEF FreshAt
    <2> QED BY <2>2, <2>3 DEF FreshAt
  <1>5. b.cache[TheGuild] # 0 => d.cache[TheGuild] # 0
    BY <1>2, Guild
  <1> QED BY <1>2, <1>4, <1>5

LEMMA AnswersStep ==
    ASSUME IInv, NEW r \in Resources, Answers(r)
    PROVE  IInv'
  <1> DEFINE f == box.flight[r]
             b == [box EXCEPT !.flight[r] = NoFlight]
  <1>1. /\ fetches' \in 0..MaxFetches /\ writes' \in 0..MaxWrites
        /\ UNCHANGED <<truth, out, wire, heard, changes>>
    BY DEF Answers, IInv, TypeOK
  <1>2. box \in Boxes /\ heard \in [Resources -> Versions] /\ Fresh(box, heard) /\ Sane(box.write)
    BY Typed DEF IInv
  <1>3. f.v \in Versions /\ FreshAt(box.cache[r], f, KindOf[r], heard[r])
    BY <1>2, BoxParts, FlightParts DEF Fresh
  <1>4. /\ f.at = "answered"
        /\ box' = IF Stores(f, KindOf[r]) THEN Upserts(b, News1(r, f.v)) ELSE b
    BY DEF Answers, News1
  <1>5. b \in Boxes /\ Fresh(b, heard) /\ b.cache = box.cache /\ b.write = box.write
    <2>1. b = Reflown(box, r, NoFlight)
      BY DEF Reflown
    <2>2. NoFlight \in Fetches /\ (WillStore(NoFlight, KindOf[r]) => NoFlight.v >= heard[r])
      BY FlightParts DEF WillStore
    <2> HIDE DEF b
    <2> QED BY <1>2, <2>1, <2>2, Flies
  <1> HIDE DEF b, f
  <1>6. CASE Stores(f, KindOf[r])
    <2>1. f.v # 0 /\ f.v >= heard[r]
      BY <1>3, <1>4, <1>6 DEF Stores, FreshAt, WillStore
    <2>2. /\ box' \in Boxes /\ Fresh(box', heard) /\ box'.write = b.write
          /\ b.cache[TheGuild] # 0 => box'.cache[TheGuild] # 0
      BY <1>2, <1>3, <1>4, <1>5, <1>6, <2>1, UpsertsFresh
    <2> QED BY <1>1, <1>2, <1>5, <2>2, BoxStep
  <1>7. CASE ~Stores(f, KindOf[r])
    <2>1. box' = b
      BY <1>4, <1>7
    <2> QED BY <1>1, <1>2, <1>5, <2>1, BoxStep
  <1> QED BY <1>6, <1>7

\* The write of a box is replaced.
LEMMA Rewrites ==
    ASSUME NEW b \in Boxes, NEW h, Fresh(b, h), NEW w \in Write, NEW d, d = [b EXCEPT !.write = w]
    PROVE  /\ d \in Boxes /\ Fresh(d, h) /\ d.write = w
           /\ d.cache = b.cache /\ d.flight = b.flight
  <1>1. d \in Boxes /\ d.write = w /\ d.cache = b.cache /\ d.flight = b.flight
    BY DEF Boxes
  <1> QED BY <1>1 DEF Fresh

LEMMA WritesStep ==
    ASSUME IInv, NEW r \in Resources, NEW op \in {"edit", "remove"}, Writes(r, op)
    PROVE  IInv'
  <1> DEFINE w == [op |-> op, what |-> r, at |-> "asked", v |-> 0]
  <1>1. /\ fetches' \in 0..MaxFetches /\ writes' \in 0..MaxWrites
        /\ UNCHANGED <<truth, out, wire, heard, changes>>
    BY BoundsAssumption DEF Writes, IInv, TypeOK
  <1>2. box \in Boxes /\ heard \in [Resources -> Versions] /\ Fresh(box, heard)
    BY Typed DEF IInv
  <1>3. w \in Write /\ Sane(w)
    BY VersionsNat DEF Write, Sane, Writes
  <1>4. box' = [box EXCEPT !.write = w]
    BY DEF Writes
  <1> HIDE DEF w
  <1>5. box' \in Boxes /\ Fresh(box', heard) /\ box'.write = w /\ box'.cache = box.cache
    BY <1>2, <1>3, <1>4, Rewrites
  <1> QED BY <1>1, <1>3, <1>5, BoxStep

LEMMA LossFresh ==
    ASSUME NEW b \in Boxes, NEW c, Loses(b, c), NEW h, Fresh(b, h)
    PROVE  Fresh(c, h)
  <1> SUFFICES ASSUME NEW r \in Resources
               PROVE  FreshAt(c.cache[r], c.flight[r], KindOf[r], h[r])
    BY DEF Fresh
  <1>1. FreshAt(b.cache[r], b.flight[r], KindOf[r], h[r])
    BY DEF Fresh
  <1>2. c.cache[r] \in {b.cache[r], 0} /\ Kept(b.flight[r], c.flight[r])
    BY DEF Loses
  <1> QED BY <1>1, <1>2 DEF FreshAt, WillStore, Kept

LEMMA WrittenStep ==
    ASSUME IInv, Guarded, Written
    PROVE  IInv'
  <1> DEFINE w == box.write
             r == w.what
             b == [box EXCEPT !.write = NoWrite]
  <1>1. /\ fetches' \in 0..MaxFetches /\ writes' \in 0..MaxWrites
        /\ UNCHANGED <<truth, out, wire, heard, changes>>
    BY DEF Written, IInv, TypeOK
  <1>2. box \in Boxes /\ heard \in [Resources -> Versions] /\ Fresh(box, heard) /\ Sane(w)
    BY Typed DEF IInv
  <1>3. w \in Write /\ r \in Resources /\ w.v \in Versions /\ heard[r] \in Nat /\ w.v \in Nat
    BY <1>2, BoxParts, VersionsNat DEF Write
  <1>4. b \in Boxes /\ Fresh(b, heard) /\ b.write = NoWrite /\ b.cache = box.cache
    BY <1>2, NoWriteTyped, Rewrites
  <1>5. /\ w.at = "answered" /\ (heard[r] > w.v => Raced("write"))
        /\ box' = IF w.op = "edit" THEN Upserts(b, News1(r, w.v))
                  ELSE IF KindOf[r] = "channel" THEN DeletesChannel(b, {r})
                  ELSE Deletes(b, {r})
    BY DEF Written, News1
  <1>6. w.v # 0 /\ w.v >= heard[r] /\ w.op \in {"edit", "remove"}
    BY <1>2, <1>3, <1>5 DEF Sane, Guarded, Raced, Write
  <1> HIDE DEF b, w
  <1>8. CASE w.op = "edit"
    <2>1. box' = Upserts(b, News1(r, w.v))
      BY <1>5, <1>8
    <2> HIDE DEF r
    <2>2. /\ box' \in Boxes /\ Fresh(box', heard) /\ box'.write = b.write
          /\ b.cache[TheGuild] # 0 => box'.cache[TheGuild] # 0
      BY <1>2, <1>3, <1>4, <1>6, <2>1, UpsertsFresh
    <2> QED BY <1>1, <1>4, <2>2, NoWriteTyped, BoxStep DEF Sane
  <1>9. CASE w.op = "remove"
    <2>1. Loss(b, box', {r})
      BY <1>4, <1>5, <1>9, DeletesLoss, DeletesChannelLoss
    <2>2. box' \in Boxes /\ box'.write = NoWrite /\ Fresh(box', heard)
      BY <1>4, <2>1, LossFresh DEF Loss, Loses
    <2>3. r # TheGuild
      BY <1>2, <1>9 DEF Sane
    <2>4. box'.cache[TheGuild] = b.cache[TheGuild]
      BY <1>4, <1>5, <1>9, <2>3, DeletesSpares
    <2> QED BY <1>1, <1>4, <2>2, <2>4, NoWriteTyped, BoxStep DEF Sane
  <1> QED BY <1>6, <1>8, <1>9

-----------------------------------------------------------------------------
(* The steps of Discord.                                                   *)

\* A dispatch that tells of D.
Says(type, D, t, live) == [type |-> type, news |-> [x \in D |-> t[x].v], live |-> live]

Tells(e, type, D, t, live) ==
    /\ e \in Told /\ e.type = type /\ e.live = live /\ DOMAIN e.news = D
    /\ \A x \in D : e.news[x] = t[x].v

LEMMA SaysTold ==
    ASSUME NEW type \in Events, NEW D \in SUBSET Resources, NEW t \in Truths,
           NEW live \in SUBSET D
    PROVE  Tells(Says(type, D, t, live), type, D, t, live)
  <1> DEFINE n == [x \in D |-> t[x].v]
             e == [type |-> type, news |-> n, live |-> live]
  <1>1. n \in [D -> Versions]
    BY DEF Truths
  <1>2. n \in News
    BY <1>1, MakesNews
  <1>3. DOMAIN n = D /\ \A x \in D : n[x] = t[x].v
    OBVIOUS
  <1>4. Says(type, D, t, live) = e
    BY DEF Says
  <1> HIDE DEF n
  <1>5. e \in Told /\ e.type = type /\ e.live = live /\ e.news = n
    BY <1>2 DEF Told
  <1> QED BY <1>3, <1>4, <1>5 DEF Tells

\* What tells of r is well formed and true.
LEMMA DispatchTells ==
    ASSUME NEW r \in Resources, NEW t \in Truths, t[r].v # 0, r = TheGuild => t[r].alive
    PROVE  /\ Dispatch(r, t) \in Told /\ WellFormed(Dispatch(r, t))
           /\ Dispatch(r, t).type # "left"
           /\ \A x \in DOMAIN Dispatch(r, t).news : Dispatch(r, t).news[x] = t[x].v
  <1> DEFINE e == Dispatch(r, t)
             E == Of("emoji")
             L == {x \in E : t[x].alive}
             A == IF t[Author].alive THEN {r, Author} ELSE {r}
  <1>1. /\ E \in SUBSET Resources /\ L \in SUBSET E /\ A \in SUBSET Resources /\ {r} \in SUBSET Resources
        /\ Author # TheGuild /\ Author \notin E /\ TheGuild \notin E
        /\ (r \in E <=> KindOf[r] = "emoji")
    BY Guild DEF Of
  <1>2. CASE KindOf[r] = "emoji"
    <2>1. e = Says("list", E, t, L)
      BY <1>2 DEF Dispatch, Says
    <2> HIDE DEF e, E, L
    <2>2. Tells(e, "list", E, t, L)
      BY <1>1, <2>1, SaysTold DEF Events
    <2> QED BY <1>1, <2>2 DEF WellFormed, Tells, e, E
  <1>3. CASE KindOf[r] # "emoji" /\ ~t[r].alive
    <2>1. e = Says("gone", {r}, t, {})
      BY <1>3 DEF Dispatch, Says
    <2> HIDE DEF e, E
    <2>2. Tells(e, "gone", {r}, t, {})
      BY <1>1, <2>1, SaysTold DEF Events
    <2> QED BY <1>1, <1>3, <2>2 DEF WellFormed, Tells, e, E
  <1>4. CASE KindOf[r] # "emoji" /\ t[r].alive /\ KindOf[r] # "message"
    <2>1. e = Says("put", {r}, t, {r})
      BY <1>4 DEF Dispatch, Says
    <2> HIDE DEF e, E
    <2>2. Tells(e, "put", {r}, t, {r})
      BY <1>1, <2>1, SaysTold DEF Events
    <2> QED BY <1>1, <1>4, <2>2 DEF WellFormed, Tells, e, E
  <1>5. CASE KindOf[r] = "message" /\ t[r].alive /\ truth[r].alive
    <2>1. e = Says("update", {r}, t, {r})
      BY <1>5 DEF Dispatch, Says
    <2> HIDE DEF e, E
    <2>2. Tells(e, "update", {r}, t, {r})
      BY <1>1, <2>1, SaysTold DEF Events
    <2>3. r \in Of("message") /\ r # TheGuild
      BY <1>5, Guild DEF Of
    <2> QED BY <1>1, <1>5, <2>2, <2>3 DEF WellFormed, Tells, e, E
  <1>6. CASE KindOf[r] = "message" /\ t[r].alive /\ ~truth[r].alive
    <2>1. e = Says("put", A, t, A)
      BY <1>6 DEF Dispatch, Says
    <2>2. A \cap E = {} /\ TheGuild \notin A
      BY <1>1, <1>6, Guild
    <2> HIDE DEF e, E, A
    <2>3. Tells(e, "put", A, t, A)
      BY <1>1, <2>1, SaysTold DEF Events
    <2> QED BY <2>2, <2>3 DEF WellFormed, Tells, e, E
  <1> QED BY <1>2, <1>3, <1>4, <1>5, <1>6

\* All of the state that a step of Discord may change, but for the box.
World ==
    /\ wire \in Seq(Told) /\ Formed(wire) /\ truth \in Truths /\ truth[TheGuild].v # 0
    /\ Placed(wire, box.cache[TheGuild], truth[TheGuild].alive)
    /\ Rises(wire, heard, truth)

LEMMA WorldOf ==
    /\ IInv => /\ World /\ Small /\ box \in Boxes /\ heard \in [Resources -> Versions]
               /\ Fresh(box, heard) /\ Sane(box.write)
    /\ /\ World' /\ Small' /\ box' \in Boxes /\ heard' \in [Resources -> Versions]
       /\ Fresh(box', heard') /\ Sane(box'.write)
       => IInv'
  <1>1. IInv => /\ World /\ Small /\ box \in Boxes /\ heard \in [Resources -> Versions]
                /\ Fresh(box, heard) /\ Sane(box.write)
    BY Typed DEF IInv, World
  <1>2. ASSUME World', Small', box' \in Boxes, heard' \in [Resources -> Versions],
               Fresh(box', heard'), Sane(box'.write)
        PROVE  IInv'
    BY <1>2, TypedNext DEF World, IInv
  <1> QED BY <1>1, <1>2

\* What Discord says joins the wire.
LEMMA SaidStep ==
    ASSUME World, heard \in [Resources -> Versions], heard' = heard,
           box'.cache = box.cache, truth' \in Truths, truth'[TheGuild].v # 0,
           \A r \in Resources : truth[r].v <= truth'[r].v,
           NEW e \in Told, WellFormed(e), wire' = Append(wire, e),
           \A r \in DOMAIN e.news : e.news[r] = truth'[r].v,
           TellsOfMember(e) => truth[TheGuild].alive,
           truth'[TheGuild].alive
               => e.type = "guild" \/ (truth[TheGuild].alive /\ e.type # "left")
    PROVE  World'
  <1>1. truth[TheGuild].alive \in BOOLEAN /\ truth'[TheGuild].alive \in BOOLEAN
    BY Guild DEF World, Truths
  <1>2. /\ Append(wire, e) \in Seq(Told) /\ Formed(Append(wire, e))
        /\ Placed(Append(wire, e), box.cache[TheGuild], truth'[TheGuild].alive)
        /\ Rises(Append(wire, e), heard, truth')
    BY <1>1, Appended DEF World
  <1> QED BY <1>2 DEF World

LEMMA BecomesStep ==
    ASSUME World, NEW r \in Resources, NEW alive \in BOOLEAN, Becomes(r, alive),
           heard \in [Resources -> Versions], heard' = heard, box'.cache = box.cache,
           truth[TheGuild].alive, r = TheGuild => alive
    PROVE  World' /\ truth'[r].v # 0 /\ truth' \in Truths
  <1> DEFINE x == [v |-> truth[r].v + 1, alive |-> alive]
             e == Dispatch(r, truth')
  <1>1. truth \in Truths /\ truth[r].v \in Versions /\ truth[r].v < MaxVersion
    BY DEF World, Truths, Becomes
  <1>2. x \in [v : Versions, alive : BOOLEAN] /\ x.v # 0 /\ x.v >= truth[r].v /\ x.alive = alive
    <2>1. truth[r].v \in Nat /\ truth[r].v + 1 \in Versions /\ truth[r].v + 1 # 0
      BY <1>1, VersionsNat
    <2> QED BY <2>1
  <1>3. truth' = [truth EXCEPT ![r] = x]
    BY <1>1 DEF Becomes
  <1> HIDE DEF x
  <1>4. /\ truth' \in Truths /\ truth'[r] = x /\ truth'[TheGuild].v # 0
        /\ \A q \in Resources : truth[q].v <= truth'[q].v
        /\ truth'[TheGuild].alive
    <2>1. truth' \in Truths /\ \A q \in Resources : truth'[q] = IF q = r THEN x ELSE truth[q]
      BY <1>1, <1>2, <1>3 DEF Truths
    <2>2. \A q \in Resources : truth[q].v \in Nat
      BY <1>1, VersionsNat DEF Truths
    <2> QED BY <1>2, <2>1, <2>2, Guild DEF World
  <1>5. CASE out
    <2>1. wire' = wire
      BY <1>5 DEF Becomes
    <2>2. Rises(wire, heard, truth')
      BY <1>1, <1>4, Untold DEF World
    <2>3. truth[TheGuild].alive = truth'[TheGuild].alive
      BY <1>1, <1>4, Guild DEF Truths
    <2> QED BY <1>2, <1>4, <2>1, <2>2, <2>3 DEF World
  <1>6. CASE ~out
    <2>1. wire' = Append(wire, e)
      BY <1>6 DEF Becomes
    <2>2. truth'[r].v # 0 /\ (r = TheGuild => truth'[r].alive)
      BY <1>2, <1>4
    <2> HIDE DEF e
    <2>3. /\ e \in Told /\ WellFormed(e) /\ e.type # "left"
          /\ \A q \in DOMAIN e.news : e.news[q] = truth'[q].v
      BY <1>4, <2>2, DispatchTells DEF e
    <2> QED BY <1>4, <2>1, <2>2, <2>3, SaidStep
  <1> QED BY <1>5, <1>6

LEMMA SnapshotTells ==
    ASSUME NEW t \in Truths, t[TheGuild].v # 0
    PROVE  /\ Snapshot(t) \in Told /\ WellFormed(Snapshot(t)) /\ Snapshot(t).type = "guild"
           /\ \A x \in DOMAIN Snapshot(t).news : Snapshot(t).news[x] = t[x].v
  <1> DEFINE L == {TheGuild} \cup {r \in Carried : t[r].alive}
             e == Snapshot(t)
  <1>1. L \in SUBSET Resources /\ L \in SUBSET L /\ TheGuild \in L
    BY Guild DEF Carried, Inside
  <1>2. e = Says("guild", L, t, L)
    BY DEF Snapshot, Says
  <1> HIDE DEF L, e
  <1>3. Tells(e, "guild", L, t, L)
    BY <1>1, <1>2, SaysTold DEF Events
  <1> QED BY <1>1, <1>3 DEF Tells, WellFormed, e

\* A step that leaves the box and what the client has heard.
LEMMA DiscordStep ==
    ASSUME IInv, World', UNCHANGED <<box, heard>>, Small'
    PROVE  IInv'
  BY WorldOf

LEMMA TruthStep ==
    ASSUME IInv, NEW r \in Resources, Changes(r) \/ Appears(r) \/ Deleted(r)
    PROVE  IInv'
  <1>1. /\ truth[TheGuild].alive /\ UNCHANGED <<out, box, heard, fetches, writes>>
        /\ changes < MaxChanges /\ changes' = changes + 1
        /\ \E alive \in BOOLEAN : Becomes(r, alive) /\ (r = TheGuild => alive)
    BY DEF Changes, Appears, Deleted, Vanishes, Visible, Change, Inside
  <1>2. PICK alive \in BOOLEAN : Becomes(r, alive) /\ (r = TheGuild => alive)
    BY <1>1
  <1>3. World /\ heard \in [Resources -> Versions] /\ Small
    BY WorldOf
  <1>4. World'
    BY <1>1, <1>2, <1>3, BecomesStep
  <1>5. Small'
    BY <1>1, <1>3, BoundsAssumption DEF Small
  <1> QED BY <1>1, <1>4, <1>5, DiscordStep

LEMMA BotStep ==
    ASSUME IInv, BotLeaves \/ BotJoins
    PROVE  IInv'
  <1>1. /\ truth[TheGuild].v < MaxVersion /\ UNCHANGED <<out, box, heard, fetches, writes>>
        /\ changes < MaxChanges /\ changes' = changes + 1
    BY DEF BotLeaves, BotJoins, Change
  <1>2. World /\ heard \in [Resources -> Versions] /\ Small /\ truth \in Truths
    BY WorldOf DEF World
  <1>3. PICK alive \in BOOLEAN :
           /\ truth' = [truth EXCEPT ![TheGuild] = [v |-> truth[TheGuild].v + 1, alive |-> alive]]
           /\ \/ ~alive /\ wire' = Append(wire, Says("left", {TheGuild}, truth', {}))
              \/ alive /\ wire' = Append(wire, Snapshot(truth'))
    BY <1>2 DEF BotLeaves, BotJoins, Sends, Says, Truths
  <1> DEFINE y == [v |-> truth[TheGuild].v + 1, alive |-> alive]
  <1>4. y \in [v : Versions, alive : BOOLEAN] /\ y.v # 0 /\ y.v >= truth[TheGuild].v /\ y.alive = alive
    <2>1. truth[TheGuild].v \in Versions
      BY <1>2, Guild DEF Truths
    <2>2. /\ truth[TheGuild].v \in Nat /\ truth[TheGuild].v + 1 \in Versions
          /\ truth[TheGuild].v + 1 # 0
      BY <1>1, <2>1, VersionsNat
    <2> QED BY <2>2
  <1>5. truth' = [truth EXCEPT ![TheGuild] = y]
    BY <1>3
  <1> HIDE DEF y
  <1>6. /\ truth' \in Truths /\ truth'[TheGuild] = y /\ truth'[TheGuild].v # 0
        /\ \A q \in Resources : truth[q].v <= truth'[q].v
    <2>1. truth' \in Truths /\ \A q \in Resources : truth'[q] = IF q = TheGuild THEN y ELSE truth[q]
      BY <1>2, <1>4, <1>5, Guild DEF Truths
    <2>2. \A q \in Resources : truth[q].v \in Nat
      BY <1>2, VersionsNat DEF Truths
    <2> QED BY <1>4, <2>1, <2>2, Guild
  <1>7. CASE ~alive
    <2> DEFINE d == Says("left", {TheGuild}, truth', {})
    <2>1. wire' = Append(wire, d)
      BY <1>3, <1>7
    <2>2. {TheGuild} \in SUBSET Resources /\ {} \in SUBSET {TheGuild}
      BY Guild
    <2>3. Tells(d, "left", {TheGuild}, truth', {})
      BY <1>6, <2>2, SaysTold DEF Events
    <2> HIDE DEF d
    <2>4. d \in Told /\ WellFormed(d) /\ d.type = "left" /\ \A q \in DOMAIN d.news : d.news[q] = truth'[q].v
      BY <1>6, <2>3 DEF Tells, WellFormed
    <2>5. ~TellsOfMember(d) /\ ~truth'[TheGuild].alive
      BY <1>4, <1>6, <1>7, <2>4 DEF TellsOfMember
    <2>6. World'
      BY <1>1, <1>2, <1>6, <2>1, <2>4, <2>5, SaidStep
    <2>7. Small'
      BY <1>1, <1>2, BoundsAssumption DEF Small
    <2> QED BY <1>1, <2>6, <2>7, DiscordStep
  <1>8. CASE alive
    <2> DEFINE d == Snapshot(truth')
    <2>1. wire' = Append(wire, d)
      BY <1>3, <1>8
    <2>2. d \in Told /\ WellFormed(d) /\ d.type = "guild" /\ \A q \in DOMAIN d.news : d.news[q] = truth'[q].v
      BY <1>6, SnapshotTells
    <2> HIDE DEF d
    <2>3. ~TellsOfMember(d)
      BY <2>2 DEF TellsOfMember
    <2>4. World'
      BY <1>1, <1>2, <1>6, <2>1, <2>2, <2>3, SaidStep
    <2>5. Small'
      BY <1>1, <1>2, BoundsAssumption DEF Small
    <2> QED BY <1>1, <2>4, <2>5, DiscordStep
  <1> QED BY <1>7, <1>8

LEMMA OutageStep ==
    ASSUME IInv, Outage \/ OutageEnds
    PROVE  IInv'
  <1>1. UNCHANGED <<truth, box, heard, fetches, writes>> /\ World
        /\ heard \in [Resources -> Versions] /\ truth \in Truths /\ truth[TheGuild].v # 0
    BY WorldOf DEF Outage, OutageEnds, World
  <1>2. Small'
    <2>1. Small
      BY WorldOf
    <2>2. out' \in BOOLEAN
      <3>1. out' = TRUE \/ out' = FALSE
        BY DEF Outage, OutageEnds
      <3> QED BY <3>1, Zenon
    <2>3. changes' = changes \/ (changes < MaxChanges /\ changes' = changes + 1)
      BY DEF Outage, OutageEnds, Change
    <2>4. changes \in 0..MaxChanges /\ MaxChanges \in Nat
      BY <2>1, BoundsAssumption DEF Small
    <2>5. changes' \in 0..MaxChanges
      BY <2>3, <2>4
    <2> QED BY <1>1, <2>1, <2>2, <2>5 DEF Small
  <1>3. \A q \in Resources : truth[q].v <= truth'[q].v
    <2>1. truth' = truth
      BY <1>1
    <2>2. \A q \in Resources : truth[q].v \in Versions
      BY <1>1 DEF Truths
    <2>3. \A q \in Resources : truth[q].v \in Nat
      BY <2>2, VersionsNat
    <2>4. \A q \in Resources : truth[q].v <= truth[q].v
      <3>1. \A n \in Nat : n <= n
        OBVIOUS
      <3> QED BY <2>3, <3>1
    <2> QED BY <2>1, <2>4
  <1>4. CASE Outage
    <2> DEFINE d == Says("outage", {}, truth, {})
    <2>1. wire' = Append(wire, d) /\ truth[TheGuild].alive
      BY <1>4 DEF Outage, Sends, Says
    <2>2. Tells(d, "outage", {}, truth, {})
      BY <1>1, SaysTold DEF Events
    <2> HIDE DEF d
    <2>3. d \in Told /\ WellFormed(d) /\ d.type = "outage" /\ \A q \in DOMAIN d.news : d.news[q] = truth'[q].v
      BY <2>2 DEF Tells, WellFormed
    <2>4. World'
      BY <1>1, <1>3, <2>1, <2>3, SaidStep
    <2> QED BY <1>1, <1>2, <2>4, DiscordStep
  <1>5. CASE OutageEnds
    <2> DEFINE d == Snapshot(truth)
    <2>1. wire' = Append(wire, d)
      BY <1>5 DEF OutageEnds, Sends
    <2>2. d \in Told /\ WellFormed(d) /\ d.type = "guild" /\ \A q \in DOMAIN d.news : d.news[q] = truth[q].v
      BY <1>1, SnapshotTells
    <2> HIDE DEF d
    <2>3. ~TellsOfMember(d) /\ \A q \in DOMAIN d.news : d.news[q] = truth'[q].v
      BY <1>1, <2>2 DEF TellsOfMember
    <2>4. World'
      BY <1>1, <1>3, <2>1, <2>2, <2>3, SaidStep
    <2> QED BY <1>1, <1>2, <2>4, DiscordStep
  <1> QED BY <1>4, <1>5

LEMMA ObeysStep ==
    ASSUME IInv, Obeys
    PROVE  IInv'
  <1> DEFINE w == box.write
             r == w.what
  <1>1. UNCHANGED <<out, heard, changes, fetches, writes>> /\ w.at = "asked"
    BY DEF Obeys
  <1>2. /\ World /\ Small /\ box \in Boxes /\ heard \in [Resources -> Versions]
        /\ Fresh(box, heard) /\ Sane(w)
    BY WorldOf
  <1>3. w \in Write /\ r \in Resources /\ Small'
    BY <1>1, <1>2, BoxParts DEF Write, Small
  <1>4. CASE box' = [box EXCEPT !.write = NoWrite] /\ UNCHANGED <<truth, wire>>
    <2>1. box' \in Boxes /\ Fresh(box', heard) /\ box'.write = NoWrite /\ box'.cache = box.cache
      BY <1>2, <1>4, NoWriteTyped, Rewrites
    <2>2. /\ UNCHANGED <<truth, out, wire, heard, changes>> /\ Sane(box'.write)
          /\ fetches' \in 0..MaxFetches /\ writes' \in 0..MaxWrites
      BY <1>1, <1>2, <1>4, <2>1, NoWriteTyped DEF Small, Sane
    <2> QED BY <2>1, <2>2, BoxStep
  <1>5. CASE /\ Visible(r)
             /\ IF w.op = "edit" THEN Becomes(r, TRUE) ELSE Vanishes(r)
             /\ box' = [box EXCEPT !.write.at = "answered", !.write.v = truth'[r].v]
    <2>1. truth[TheGuild].alive
      BY <1>5 DEF Visible
    <2>2. PICK alive \in BOOLEAN : Becomes(r, alive) /\ (r = TheGuild => alive)
      <3>1. CASE w.op = "edit"
        BY <1>5, <3>1
      <3>2. CASE w.op # "edit"
        BY <1>5, <3>2 DEF Vanishes, Inside
      <3> QED BY <3>1, <3>2
    <2> DEFINE y == [w EXCEPT !.at = "answered", !.v = truth'[r].v]
    <2>3. box' = [box EXCEPT !.write = y]
      BY <1>2, <1>5 DEF Boxes
    <2>4. box'.cache = box.cache
      BY <1>2, <2>3 DEF Boxes
    <2>5. World' /\ truth'[r].v # 0 /\ truth' \in Truths
      <3> HIDE DEF r
      <3> QED BY <1>1, <1>2, <1>3, <2>1, <2>2, <2>4, BecomesStep
    <2> DEFINE v == truth'[r].v
    <2>6. v \in Versions /\ v # 0
      BY <1>3, <2>5 DEF Truths
    <2> HIDE DEF v, w
    <2>7. y \in Write /\ y.at = "answered" /\ y.v = v /\ y.op = w.op /\ y.what = w.what
      BY <1>3, <2>6 DEF Write, v
    <2>8. Sane(y)
      BY <1>1, <1>2, <2>6, <2>7 DEF Sane
    <2> HIDE DEF y
    <2>9. box' \in Boxes /\ Fresh(box', heard) /\ box'.write = y
      BY <1>2, <2>3, <2>7, Rewrites
    <2> QED BY <1>1, <1>2, <1>3, <2>5, <2>8, <2>9, WorldOf
  <1> QED BY <1>4, <1>5 DEF Obeys

-----------------------------------------------------------------------------
(* Never older.                                                            *)

LEMMA InitIInv == Init => IInv
  <1> SUFFICES ASSUME Init PROVE IInv
    OBVIOUS
  <1> DEFINE e == Snapshot(truth)
  <1>1. truth \in Truths /\ truth[TheGuild].v # 0
    <2>1. 0 \in Versions /\ 1 \in Versions
      BY BoundsAssumption DEF Versions
    <2>2. PICK older \in SUBSET Of("message") :
             truth = [r \in Resources |->
                        IF r \in Carried \cup {TheGuild} \cup older THEN [v |-> 1, alive |-> TRUE]
                                                                  ELSE [v |-> 0, alive |-> FALSE]]
      BY DEF Init
    <2> QED BY <2>1, <2>2, Guild DEF Truths
  <1>2. e \in Told /\ WellFormed(e) /\ e.type = "guild" /\ \A x \in DOMAIN e.news : e.news[x] = truth[x].v
    BY <1>1, SnapshotTells
  <1>3. wire = <<e>>
    BY DEF Init
  <1> HIDE DEF e
  <1>4. wire \in Seq(Told) /\ Len(wire) = 1 /\ wire[1] = e
    BY <1>2, <1>3
  <1>5. \A r \in Resources : heard[r] = 0 /\ box.cache[r] = 0 /\ box.flight[r] = NoFlight
    BY DEF Init
  <1>6. /\ box \in Boxes /\ heard \in [Resources -> Versions] /\ box.write = NoWrite
        /\ Small
    <2> DEFINE c == [r \in Resources |-> 0]
               f == [r \in Resources |-> NoFlight]
    <2>1. c \in [Resources -> Versions]
      BY VersionsNat
    <2>2. NoFlight \in Fetches
      BY VersionsNat DEF NoFlight, Flight, Fetches
    <2>3. f \in [Resources -> Fetches]
      BY <2>2
    <2>4. heard = c /\ box = [cache |-> c, flight |-> f, write |-> NoWrite]
      BY DEF Init
    <2> HIDE DEF c, f
    <2>5. NoWrite \in Write
      BY NoWriteTyped
    <2>6. Small
      <3>1. out \in BOOLEAN
        BY DEF Init
      <3>2. changes = 0 /\ fetches = 0 /\ writes = 0
        BY DEF Init
      <3>3. changes \in 0..MaxChanges /\ fetches \in 0..MaxFetches /\ writes \in 0..MaxWrites
        BY <3>2, BoundsAssumption
      <3> QED BY <3>1, <3>3 DEF Small
    <2> QED BY <2>1, <2>3, <2>4, <2>5, <2>6 DEF Boxes
  <1>7. Formed(wire)
    BY <1>2, <1>4 DEF Formed
  <1>8. Placed(wire, box.cache[TheGuild], truth[TheGuild].alive)
    <2>1. Guilded(wire, box.cache[TheGuild], 2)
      BY <1>2, <1>4 DEF Guilded
    <2>2. ~TellsOfMember(e)
      BY <1>2 DEF TellsOfMember
    <2> QED BY <1>4, <2>1, <2>2 DEF Placed
  <1>9. Rises(wire, heard, truth)
    <2>1. \A r \in Resources : truth[r].v \in Nat
      BY <1>1, VersionsNat DEF Truths
    <2>2. DOMAIN e.news \subseteq Resources
      BY <1>2, NewsOf DEF Told
    <2> QED BY <1>2, <1>4, <1>5, <2>1, <2>2 DEF Rises
  <1>10. Fresh(box, heard) /\ Sane(box.write)
    BY <1>5, <1>6, NoWriteTyped, FlightParts DEF Fresh, FreshAt, WillStore, Sane
  <1>11. TypeOK
    <2>1. \A i \in DOMAIN wire :
             /\ wire[i].type \in Events
             /\ wire[i].live \subseteq DOMAIN wire[i].news
             /\ \A r \in DOMAIN wire[i].news : r \in Resources /\ wire[i].news[r] \in Versions
      BY <1>4, <1>7, WireTyped
    <2> QED BY <1>1, <1>6, <2>1, BoxTyped DEF TypeOK, Small, Truths
  <1> QED BY <1>1, <1>4, <1>7, <1>8, <1>9, <1>10, <1>11 DEF IInv

LEMMA NextIInv ==
    ASSUME IInv, Guarded, [Next]_vars
    PROVE  IInv'
  <1>1. CASE UNCHANGED vars
    <2>1. World' /\ Small' /\ UNCHANGED <<box, heard>>
      BY <1>1, WorldOf DEF vars, World, Small
    <2> QED BY <2>1, DiscordStep
  <1>2. CASE Discord
    BY <1>2, TruthStep, ServesStep, BotStep, OutageStep, ObeysStep DEF Discord
  <1>3. CASE Receives
    BY <1>3, ReceivesStep
  <1>4. CASE \E r \in Resources : Fetch(r) \/ Answers(r)
    BY <1>4, FetchStep, AnswersStep
  <1>5. CASE \E r \in Resources, op \in {"edit", "remove"} : Writes(r, op)
    BY <1>5, WritesStep
  <1>6. CASE Written
    BY <1>6, WrittenStep
  <1> QED BY <1>1, <1>2, <1>3, <1>4, <1>5, <1>6 DEF Next

LEMMA SpecIInv ==
    ASSUME Guarded
    PROVE  Spec => []IInv
  <1>1. IInv /\ [Next]_vars => IInv'
    BY NextIInv
  <1> QED BY InitIInv, <1>1, PTL DEF Spec

\* A cached resource is never older than what the Gateway has told of it: the answer of a
\* fetch neither overwrites newer state nor brings back what an event deleted
\* (Manager.fetchOnce).
THEOREM CacheNeverOlder ==
    ASSUME Guarded
    PROVE  Spec => []NeverOlder
  <1>1. IInv => NeverOlder
    BY DEF IInv, Fresh, FreshAt, NeverOlder
  <1> QED BY <1>1, SpecIInv, PTL

\* The state is well typed, and a key with no fetch has no flag.
THEOREM TypeCorrect ==
    ASSUME Guarded
    PROVE  Spec => []TypeOK
  <1>1. IInv => TypeOK
    BY DEF IInv
  <1> QED BY <1>1, SpecIInv, PTL

-----------------------------------------------------------------------------
(* What is told, cached and answered, against what Discord holds.          *)

\* Version v of a resource whose truth is t was one that existed, and one at which it ended.
Real(v, t) == v <= t.v /\ (v = t.v => t.alive)
Ended(v, t) == v <= t.v /\ (v = t.v => ~t.alive)

\* A dispatch shows what it tells of, unless it tells of an end.
Exact(e) ==
    /\ e.type \in {"guild", "put", "update"} => e.live = DOMAIN e.news
    /\ e.type \in {"left", "gone", "outage"} => e.live = {}

TrueEvent(e, t) ==
    /\ Exact(e)
    /\ \A r \in e.live : e.news[r] # 0 /\ Real(e.news[r], t[r])
    /\ \A r \in DOMAIN e.news \ e.live : Ended(e.news[r], t[r])

TrueWire(w, t) == \A i \in 1..Len(w) : TrueEvent(w[i], t)

RealBox(b, t) ==
    \A r \in Resources :
        /\ b.cache[r] # 0 => Real(b.cache[r], t[r])
        /\ b.flight[r].at = "answered" /\ b.flight[r].v # 0 => Real(b.flight[r].v, t[r])

\* What a write has changed is not yet heard of, or is the last that was.
RealWrite(w, t, h) ==
    w.at = "answered" =>
        /\ h[w.what] <= w.v
        /\ w.op = "edit" => Real(w.v, t[w.what])
        /\ w.op = "remove" => Ended(w.v, t[w.what])

Sound(t, o) ==
    /\ o => t[TheGuild].alive
    /\ \A r \in Resources : t[r].alive => t[r].v # 0
    /\ \A c \in Of("channel"), m \in Of("message") : t[m].alive => t[c].alive

\* The client has heard of r's truth or will; a message from before it was there is
\* never told of, and an outage ends with what is alive.
TellsOf(w, h, t, o, r) ==
    \/ h[r] = t[r].v
    \/ \E i \in 1..Len(w) : r \in DOMAIN w[i].news /\ w[i].news[r] = t[r].v
    \/ o /\ t[r].alive /\ r \in Carried \cup {TheGuild}
    \/ /\ h[r] = 0 /\ t[r].v = 1 /\ t[r].alive /\ r \in Of("message")
       /\ \A i \in 1..Len(w) : r \notin DOMAIN w[i].news
TellsAll(w, h, t, o) == \A r \in Resources : TellsOf(w, h, t, o, r)

\* The client, that holds version c of r, holds r once it has received what comes
\* before the n-th dispatch of w.
Brought(w, c, r, n) ==
    \/ c # 0 /\ \A k \in 1..n - 1 : w[k].type # "left"
    \/ \E j \in 1..n - 1 : /\ r \in w[j].live /\ w[j].type # "update"
                           /\ \A k \in j + 1..n - 1 : w[k].type # "left"

\* Where the wire ends, or where the bot has left.
End(w, t) == IF t[TheGuild].alive THEN Len(w) + 1 ELSE Len(w)
Held(w, b, t, o) ==
    ~o /\ (t[TheGuild].alive \/ w # <<>>) =>
       \A r \in Carried : t[r].alive => Brought(w, b.cache[r], r, End(w, t))

\* Nothing is cached and nothing will be.
Bare(b) ==
    /\ \A r \in Resources : b.cache[r] = 0 /\ ~WillStore(b.flight[r], KindOf[r])
    /\ ~(b.write.at = "answered" /\ b.write.op = "edit")
Departed(w, b, t) ==
    ~t[TheGuild].alive =>
        IF w = <<>> THEN Bare(b)
        ELSE w[Len(w)].type = "left" /\ w[Len(w)].news[TheGuild] = t[TheGuild].v

\* What Discord and the wire say.
Record ==
    /\ Sound(truth, out)
    /\ TrueWire(wire, truth)
    /\ TellsAll(wire, heard, truth, out)
    /\ Held(wire, box, truth, out)

JInv ==
    /\ IInv
    /\ Record
    /\ RealBox(box, truth)
    /\ RealWrite(box.write, truth, heard)
    /\ Departed(wire, box, truth)

\* None of the orders that the code does not guard against.
Strict == Races = {}

-----------------------------------------------------------------------------
(* Truth grows.                                                            *)

Grows(t, u) == \A r \in Resources : u[r] = t[r] \/ t[r].v < u[r].v

LEMMA GrowsReal ==
    ASSUME NEW t \in Truths, NEW u \in Truths, Grows(t, u), NEW r \in Resources, NEW v \in Versions
    PROVE  /\ Real(v, t[r]) => Real(v, u[r])
           /\ Ended(v, t[r]) => Ended(v, u[r])
  <1>1. t[r].v \in Nat /\ u[r].v \in Nat /\ v \in Nat
    BY VersionsNat DEF Truths
  <1>2. CASE u[r] = t[r]
    BY <1>2
  <1>3. CASE t[r].v < u[r].v
    BY <1>1, <1>3 DEF Real, Ended
  <1> QED BY <1>2, <1>3 DEF Grows

LEMMA GrowsWire ==
    ASSUME NEW t \in Truths, NEW u \in Truths, Grows(t, u),
           NEW w \in Seq(Told), Formed(w), TrueWire(w, t)
    PROVE  TrueWire(w, u)
  <1> SUFFICES ASSUME NEW i \in 1..Len(w) PROVE TrueEvent(w[i], u)
    BY DEF TrueWire
  <1>1. TrueEvent(w[i], t) /\ WellFormed(w[i])
    BY DEF TrueWire, Formed
  <1>2. \A r \in DOMAIN w[i].news : r \in Resources /\ w[i].news[r] \in Versions
    BY ToldOf
  <1>3. w[i].live \subseteq DOMAIN w[i].news
    BY <1>1 DEF WellFormed
  <1>4. \A r \in w[i].live : w[i].news[r] # 0 /\ Real(w[i].news[r], u[r])
    BY <1>1, <1>2, <1>3, GrowsReal DEF TrueEvent
  <1>5. \A r \in DOMAIN w[i].news \ w[i].live : Ended(w[i].news[r], u[r])
    BY <1>1, <1>2, GrowsReal DEF TrueEvent
  <1> QED BY <1>1, <1>4, <1>5 DEF TrueEvent

LEMMA GrowsBox ==
    ASSUME NEW t \in Truths, NEW u \in Truths, Grows(t, u), NEW b \in Boxes, RealBox(b, t)
    PROVE  RealBox(b, u)
  <1> SUFFICES ASSUME NEW r \in Resources
               PROVE  /\ b.cache[r] # 0 => Real(b.cache[r], u[r])
                      /\ b.flight[r].at = "answered" /\ b.flight[r].v # 0 => Real(b.flight[r].v, u[r])
    BY DEF RealBox
  <1>1. b.cache[r] \in Versions /\ b.flight[r].v \in Versions
    BY BoxParts, FlightParts
  <1>2. /\ b.cache[r] # 0 => Real(b.cache[r], t[r])
        /\ b.flight[r].at = "answered" /\ b.flight[r].v # 0 => Real(b.flight[r].v, t[r])
    BY DEF RealBox
  <1> QED BY <1>1, <1>2, GrowsReal

LEMMA GrowsWrite ==
    ASSUME NEW t \in Truths, NEW u \in Truths, Grows(t, u), NEW w \in Write, NEW h, RealWrite(w, t, h)
    PROVE  RealWrite(w, u, h)
  <1>1. w.what \in Resources /\ w.v \in Versions
    BY DEF Write
  <1> QED BY <1>1, GrowsReal DEF RealWrite

-----------------------------------------------------------------------------
(* A dispatch joins the others.                                            *)

LEMMA Joins ==
    ASSUME NEW w \in Seq(Told), NEW e \in Told
    PROVE  /\ Len(w) \in Nat /\ Append(w, e) \in Seq(Told) /\ Len(Append(w, e)) = Len(w) + 1
           /\ Append(w, e) # <<>>
           /\ \A i \in 1..Len(w) : Append(w, e)[i] = w[i]
           /\ Append(w, e)[Len(w) + 1] = e
  BY LenProperties, AppendProperties

LEMMA TrueJoins ==
    ASSUME NEW t \in Truths, NEW u \in Truths, Grows(t, u),
           NEW w \in Seq(Told), Formed(w), TrueWire(w, t),
           NEW e \in Told, TrueEvent(e, u)
    PROVE  TrueWire(Append(w, e), u)
  <1>1. TrueWire(w, u)
    BY GrowsWire
  <1> DEFINE x == Append(w, e)
  <1>2. /\ Len(w) \in Nat /\ Len(x) = Len(w) + 1
        /\ \A i \in 1..Len(w) : x[i] = w[i]
        /\ x[Len(w) + 1] = e
    BY Joins
  <1> HIDE DEF x
  <1>3. ASSUME NEW i \in 1..Len(x) PROVE TrueEvent(x[i], u)
    <2>1. CASE i = Len(w) + 1
      BY <1>2, <2>1
    <2>2. CASE i \in 1..Len(w)
      BY <1>1, <1>2, <2>2 DEF TrueWire
    <2> QED BY <1>2, <2>1, <2>2
  <1>4. TrueWire(x, u)
    BY <1>3 DEF TrueWire
  <1> QED BY <1>4 DEF x

\* Dispatch e tells of what has changed, and of what has not if an outage ends with it.
Covers(e, t, u, o, p) ==
    /\ \A r \in DOMAIN e.news : e.news[r] = u[r].v
    /\ \A r \in Resources : u[r] = t[r] \/ r \in DOMAIN e.news
    /\ \A r \in Carried \cup {TheGuild} : o /\ t[r].alive => p \/ r \in DOMAIN e.news

LEMMA TellsJoins ==
    ASSUME NEW t \in Truths, NEW u \in Truths,
           NEW w \in Seq(Told), NEW h, NEW o, NEW p, TellsAll(w, h, t, o),
           NEW e \in Told, Covers(e, t, u, o, p)
    PROVE  TellsAll(Append(w, e), h, u, p)
  <1> DEFINE x == Append(w, e)
  <1>1. /\ Len(w) \in Nat /\ Len(x) = Len(w) + 1
        /\ \A i \in 1..Len(w) : x[i] = w[i]
        /\ x[Len(w) + 1] = e
    BY Joins
  <1> HIDE DEF x
  <1>2. ASSUME NEW r \in Resources PROVE TellsOf(x, h, u, p, r)
    <2>1. CASE r \in DOMAIN e.news
      <3>1. Len(w) + 1 \in 1..Len(x) /\ x[Len(w) + 1].news[r] = u[r].v
        BY <1>1, <2>1 DEF Covers
      <3> QED BY <1>1, <2>1, <3>1 DEF TellsOf
    <2>2. CASE r \notin DOMAIN e.news
      <3>1. u[r] = t[r] /\ TellsOf(w, h, t, o, r)
        BY <2>2 DEF TellsAll, Covers
      <3>2. CASE h[r] = t[r].v
        BY <3>1, <3>2 DEF TellsOf
      <3>3. ASSUME NEW i \in 1..Len(w), r \in DOMAIN w[i].news, w[i].news[r] = t[r].v
            PROVE  TellsOf(x, h, u, p, r)
        <4>1. i \in 1..Len(x) /\ x[i] = w[i]
          BY <1>1
        <4> QED BY <3>1, <3>3, <4>1 DEF TellsOf
      <3>4. CASE o /\ t[r].alive /\ r \in Carried \cup {TheGuild}
        BY <2>2, <3>1, <3>4 DEF TellsOf, Covers
      <3>5. CASE /\ h[r] = 0 /\ t[r].v = 1 /\ t[r].alive /\ r \in Of("message")
                 /\ \A i \in 1..Len(w) : r \notin DOMAIN w[i].news
        <4>1. \A i \in 1..Len(x) : r \notin DOMAIN x[i].news
          BY <1>1, <2>2, <3>5
        <4> QED BY <3>1, <3>5, <4>1 DEF TellsOf
      <3> QED BY <3>1, <3>2, <3>3, <3>4, <3>5 DEF TellsOf
    <2> QED BY <2>1, <2>2
  <1>3. TellsAll(x, h, u, p)
    BY <1>2 DEF TellsAll
  <1> QED BY <1>3 DEF x

\* What Discord keeps to itself during an outage.
LEMMA TellsLater ==
    ASSUME NEW t \in Truths, NEW u \in Truths, NEW w, NEW h, TellsAll(w, h, t, TRUE),
           \A r \in Resources : u[r] = t[r] \/ (u[r].alive /\ r \in Carried \cup {TheGuild})
    PROVE  TellsAll(w, h, u, TRUE)
  <1> SUFFICES ASSUME NEW r \in Resources PROVE TellsOf(w, h, u, TRUE, r)
    BY DEF TellsAll
  <1>1. CASE u[r] = t[r]
    BY <1>1 DEF TellsAll, TellsOf
  <1>2. CASE u[r].alive /\ r \in Carried \cup {TheGuild}
    BY <1>2 DEF TellsOf
  <1> QED BY <1>1, <1>2

LEMMA BroughtJoins ==
    ASSUME NEW w \in Seq(Told), NEW c, NEW r, NEW e \in Told
    PROVE  /\ Brought(w, c, r, Len(w) + 1) => Brought(Append(w, e), c, r, Len(w) + 1)
           /\ Brought(w, c, r, Len(w) + 1) /\ e.type # "left" => Brought(Append(w, e), c, r, Len(w) + 2)
           /\ r \in e.live /\ e.type # "update" => Brought(Append(w, e), c, r, Len(w) + 2)
  <1> DEFINE x == Append(w, e)
             n == Len(w)
  <1>1. /\ n \in Nat /\ Len(x) = n + 1
        /\ \A i \in 1..n : x[i] = w[i]
        /\ x[n + 1] = e
    BY Joins
  <1> HIDE DEF x, n
  <1>2. /\ (n + 1) - 1 = n /\ (n + 2) - 1 = n + 1
        /\ 1..(n + 1) - 1 = 1..n /\ 1..(n + 2) - 1 = 1..n + 1
    BY <1>1
  <1>4. r \in e.live /\ e.type # "update" => Brought(x, c, r, n + 2)
    <2>1. n + 1 \in 1..n + 1 /\ \A k \in (n + 1) + 1..n + 1 : FALSE
      BY <1>1
    <2> QED BY <1>1, <1>2, <2>1 DEF Brought
  <1>3. ASSUME c # 0, \A k \in 1..n : w[k].type # "left"
        PROVE  Brought(x, c, r, n + 1) /\ (e.type # "left" => Brought(x, c, r, n + 2))
    <2>1. \A k \in 1..n : x[k].type # "left"
      BY <1>1, <1>3
    <2>2. e.type # "left" => \A k \in 1..n + 1 : x[k].type # "left"
      BY <1>1, <2>1
    <2>3. Brought(x, c, r, n + 1) /\ (e.type # "left" => Brought(x, c, r, n + 2))
      BY <1>2, <1>3, <2>1, <2>2 DEF Brought
    <2> QED BY <2>3
  <1>5. ASSUME NEW j \in 1..n, r \in w[j].live, w[j].type # "update",
               \A k \in j + 1..n : w[k].type # "left"
        PROVE  Brought(x, c, r, n + 1) /\ (e.type # "left" => Brought(x, c, r, n + 2))
    <2>1. j \in 1..n + 1 /\ r \in x[j].live /\ x[j].type # "update"
      BY <1>1, <1>5
    <2>2. \A k \in j + 1..n : x[k].type # "left"
      BY <1>1, <1>5
    <2>3. e.type # "left" => \A k \in j + 1..n + 1 : x[k].type # "left"
      BY <1>1, <2>2
    <2>4. Brought(x, c, r, n + 1)
      BY <1>2, <2>1, <2>2 DEF Brought
    <2>5. e.type # "left" => Brought(x, c, r, n + 2)
      BY <1>2, <2>1, <2>3 DEF Brought
    <2> QED BY <2>4, <2>5
  <1> QED BY <1>2, <1>3, <1>4, <1>5 DEF Brought, x, n

-----------------------------------------------------------------------------
(* What a dispatch leaves in the caches.                                   *)

LEMMA Sorts ==
    /\ \E c \in Of("channel") : c \in Carried
    /\ \A r \in Carried : /\ r \in Resources /\ r # TheGuild /\ r \notin Of("message")
                          /\ r \notin Of("plain")
    /\ \A r \in Resources : \/ r = TheGuild
                            \/ r \in PerGuild
                            \/ r \in Of("channel") /\ r \in Carried
                            \/ r \in Of("message")
    /\ TheGuild \notin PerGuild \cup Of("channel") \cup Of("message")
    /\ Of("channel") \cap PerGuild = {} /\ Of("message") \cap PerGuild = {}
    /\ Of("channel") \cap Of("message") = {}
  <1>1. \A r \in Resources : KindOf[r] = "guild" => r = TheGuild
    BY ResourcesAssumption, Guild DEF Of
  <1>2. \E c \in Resources : KindOf[c] = "channel"
    BY ResourcesAssumption DEF Of
  <1>3. \A r : r \in Carried <=> /\ r \in Resources /\ r # TheGuild
                                 /\ KindOf[r] # "plain" /\ KindOf[r] # "message"
    BY DEF Carried, Inside, Of
  <1>4. \A r : r \in PerGuild <=> r \in Resources /\ KindOf[r] \in {"role", "member", "emoji", "plain"}
    BY DEF PerGuild, Of
  <1>5. \A r, k : r \in Of(k) <=> r \in Resources /\ KindOf[r] = k
    BY DEF Of
  <1>6. \A r \in Resources : KindOf[r] \in {"guild", "channel", "role", "member", "emoji", "plain", "message"}
    BY ResourcesAssumption DEF Kinds
  <1>7. KindOf[TheGuild] = "guild"
    BY Guild
  <1>8. \A r \in Resources : \/ r = TheGuild
                             \/ r \in PerGuild
                             \/ r \in Of("channel") /\ r \in Carried
                             \/ r \in Of("message")
    BY <1>1, <1>3, <1>4, <1>5, <1>6, <1>7
  <1>9. \E c \in Of("channel") : c \in Carried
    BY <1>2, <1>3, <1>5, <1>7
  <1>10. \A r \in Carried : /\ r \in Resources /\ r # TheGuild /\ r \notin Of("message")
                            /\ r \notin Of("plain")
    BY <1>3, <1>5
  <1>11. /\ TheGuild \notin PerGuild \cup Of("channel") \cup Of("message")
         /\ Of("channel") \cap PerGuild = {} /\ Of("message") \cap PerGuild = {}
         /\ Of("channel") \cap Of("message") = {}
    BY <1>4, <1>5, <1>7
  <1> QED BY <1>8, <1>9, <1>10, <1>11

\* Only messages go with a channel.
LEMMA DeletesOnly ==
    ASSUME NEW b \in Boxes, NEW S, NEW r \in Carried, r \notin S
    PROVE  Deletes(b, S).cache[r] = b.cache[r] /\ DeletesChannel(b, S).cache[r] = b.cache[r]
  <1>1. r \in Resources /\ r \notin Of("message")
    BY Sorts
  <1>2. Deletes(b, S) \in Boxes /\ Deletes(b, S).cache[r] = b.cache[r]
    BY <1>1, DeletesBox
  <1>3. Drops(Deletes(b, S), Of("message")).cache[r] = Deletes(b, S).cache[r]
    BY <1>1, <1>2, DropsBox
  <1> QED BY <1>2, <1>3 DEF DeletesChannel

\* What c holds of r once e is handled, if b held it before.
Gives(b, c, e) ==
    \A r \in Resources :
        /\ r \in DOMAIN e.news => c.cache[r] = 0 \/ (r \in e.live /\ c.cache[r] = e.news[r])
        /\ r \in e.live /\ e.type # "update" => c.cache[r] = e.news[r]
        /\ r \notin DOMAIN e.news /\ r \in Carried /\ e.type # "left" => c.cache[r] = b.cache[r]

LEMMA HandledGives ==
    ASSUME NEW b \in Boxes, NEW e \in Told, WellFormed(e), Exact(e),
           TellsOfMember(e) => b.cache[TheGuild] # 0
    PROVE  Gives(b, Handled(b, e), e)
  <1> DEFINE n == e.news
             c == Handled(b, e)
  <1>1. e.type \in Events /\ n \in News /\ DOMAIN n \subseteq Resources /\ e.live \subseteq DOMAIN n
    BY NewsOf DEF Told, WellFormed
  <1>3. CASE e.type = "guild"
    <2> DEFINE m == Only(n, e.live)
    <2>1. m \in News /\ DOMAIN m = DOMAIN n /\ \A r \in DOMAIN n : m[r] = n[r]
      <3>1. DOMAIN n \cap e.live = DOMAIN n
        BY <1>3 DEF WellFormed
      <3>2. m \in News /\ DOMAIN m = DOMAIN n \cap e.live
            /\ \A r \in DOMAIN n \cap e.live : m[r] = n[r]
        BY <1>1, OnlyNews
      <3> HIDE DEF n
      <3> QED BY <3>1, <3>2
    <2>2. c = Upserts(b, m)
      BY <1>3 DEF Handled
    <2> HIDE DEF m, c
    <2>3. \A r \in Resources : c.cache[r] = IF r \in DOMAIN m THEN m[r] ELSE b.cache[r]
      BY <2>1, <2>2, UpsertsBox
    <2>4. e.live = DOMAIN n
      BY <1>3 DEF WellFormed
    <2> QED BY <2>1, <2>3, <2>4 DEF Gives, c
  <1>4. CASE e.type = "left"
    <2>1. c = LeavesGuild(b)
      BY <1>4 DEF Handled
    <2> HIDE DEF c
    <2>2. Loss(b, c, {TheGuild}) /\ DOMAIN n = {TheGuild} /\ e.live = {}
      BY <1>4, <2>1, LeavesGuildLoss DEF WellFormed, Exact
    <2> QED BY <1>4, <2>2 DEF Gives, Loss, c
  <1>5. CASE e.type = "outage"
    <2>1. c = b /\ DOMAIN n = {} /\ e.live = {}
      BY <1>5 DEF Handled, WellFormed, Exact
    <2> HIDE DEF c
    <2> QED BY <2>1 DEF Gives, c
  <1>6. CASE e.type = "list"
    <2> DEFINE S == {r \in DOMAIN n \ e.live : b.cache[r] # 0}
               d == Deletes(b, S)
               m == Only(n, e.live)
    <2>1. c = Upserts(d, m)
      BY <1>6 DEF Handled, SyncsEmojis
    <2>2. \A r \in Resources : r \in S <=> r \in DOMAIN n /\ r \notin e.live /\ b.cache[r] # 0
      OBVIOUS
    <2>3. m \in News /\ DOMAIN m = DOMAIN n \cap e.live
          /\ \A r \in DOMAIN n \cap e.live : m[r] = n[r]
      BY <1>1, OnlyNews
    <2> HIDE DEF S, m
    <2>4. /\ d \in Boxes
          /\ \A r \in Resources : d.cache[r] = IF r \in S THEN 0 ELSE b.cache[r]
      BY DeletesBox
    <2> HIDE DEF d, c
    <2>5. /\ c \in Boxes /\ c.write = d.write
          /\ \A r \in Resources :
                /\ c.cache[r] = IF r \in DOMAIN m THEN m[r] ELSE d.cache[r]
                /\ c.flight[r] = IF r \in DOMAIN m /\ (KindOf[r] # "emoji" \/ d.cache[r] = 0)
                                 THEN Soils(d, r) ELSE d.flight[r]
      BY <2>1, <2>3, <2>4, UpsertsBox
    <2>6. \A r \in Resources :
             c.cache[r] = IF r \in e.live THEN n[r] ELSE IF r \in DOMAIN n THEN 0 ELSE b.cache[r]
      BY <1>1, <2>2, <2>3, <2>4, <2>5
    <2> QED BY <1>1, <2>6 DEF Gives, c
  <1>7. CASE e.type = "put"
    <2> DEFINE m == IF GuildGone(b) THEN Only(n, Resources \ Of("member")) ELSE n
    <2>1. c = Upserts(b, m)
      BY <1>7 DEF Handled, TakesMembers
    <2>2. m \in News /\ DOMAIN m = DOMAIN n /\ \A r \in DOMAIN n : m[r] = n[r]
      <3>1. CASE ~GuildGone(b)
        BY <1>1, <3>1
      <3>2. CASE GuildGone(b)
        <4>1. DOMAIN n \cap Of("member") = {}
          BY <1>7, <3>2 DEF TellsOfMember, GuildGone
        <4>2. DOMAIN n \cap (Resources \ Of("member")) = DOMAIN n
          BY <1>1, <4>1
        <4>3. /\ Only(n, Resources \ Of("member")) \in News
              /\ DOMAIN Only(n, Resources \ Of("member")) = DOMAIN n \cap (Resources \ Of("member"))
              /\ \A r \in DOMAIN n \cap (Resources \ Of("member")) :
                    Only(n, Resources \ Of("member"))[r] = n[r]
          BY <1>1, OnlyNews
        <4> QED BY <3>2, <4>2, <4>3
      <3> QED BY <3>1, <3>2
    <2> HIDE DEF m, c
    <2>3. \A r \in Resources : c.cache[r] = IF r \in DOMAIN m THEN m[r] ELSE b.cache[r]
      BY <2>1, <2>2, UpsertsBox
    <2>4. e.live = DOMAIN n
      BY <1>7 DEF Exact
    <2> QED BY <2>2, <2>3, <2>4 DEF Gives, c
  <1>8. CASE e.type = "update"
    <2> DEFINE S == {r \in Resources : b.cache[r] # 0}
               m == Only(n, S)
    <2>1. c = Puts(b, m)
      BY <1>8 DEF Handled, TakesUpdate
    <2>2. /\ m \in News /\ DOMAIN m = DOMAIN n \cap S
          /\ \A r \in DOMAIN n \cap S : m[r] = n[r]
          /\ \A r \in Resources : r \in S <=> b.cache[r] # 0
      BY <1>1, OnlyNews
    <2> HIDE DEF S, m, c
    <2>3. \A r \in Resources : c.cache[r] = IF r \in DOMAIN m THEN m[r] ELSE b.cache[r]
      BY <2>1, <2>2, PutsBox
    <2>4. e.live = DOMAIN n
      BY <1>8 DEF Exact
    <2> QED BY <1>8, <2>2, <2>3, <2>4 DEF Gives, c
  <1>9. CASE e.type = "gone"
    <2>1. Loss(b, c, DOMAIN n) /\ \A r \in Carried : r \notin DOMAIN n => c.cache[r] = b.cache[r]
      <3>1. CASE DOMAIN n \subseteq Of("channel")
        BY <1>9, <3>1, DeletesChannelLoss, DeletesOnly DEF Handled
      <3>2. CASE ~(DOMAIN n \subseteq Of("channel"))
        BY <1>9, <3>2, DeletesLoss, DeletesOnly DEF Handled
      <3> QED BY <3>1, <3>2
    <2>2. e.live = {}
      BY <1>9 DEF Exact
    <2> HIDE DEF c
    <2> QED BY <2>1, <2>2 DEF Gives, Loss, c
  <1> QED BY <1>1, <1>3, <1>4, <1>5, <1>6, <1>7, <1>8, <1>9 DEF Events

LEMMA DropsWrite ==
    ASSUME NEW b \in Boxes, NEW S
    PROVE  Drops(b, S).write = IF b.write.what \in S THEN NoWrite ELSE b.write
  BY DEF Drops, Boxes

\* What is left of a guild that the bot has left.
LEMMA LeavesBox ==
    ASSUME NEW b \in Boxes, NEW c, c = LeavesGuild(b)
    PROVE  /\ c \in Boxes /\ c.write \in {b.write, NoWrite}
           /\ \A r \in {TheGuild} \cup PerGuild \cup Of("channel") : c.cache[r] = 0
           /\ \A r \in PerGuild : c.flight[r] = NoFlight
           /\ Soiled(b.flight[TheGuild], c.flight[TheGuild])
           /\ \A r \in Of("channel") : \/ Soiled(b.flight[r], c.flight[r])
                                       \/ b.cache[r] = 0 /\ c.flight[r] = b.flight[r]
           /\ b.write.what \in PerGuild => c.write = NoWrite
           /\ (\E x \in Of("channel") : b.cache[x] # 0) =>
                 /\ \A r \in Of("message") : c.cache[r] = 0 /\ c.flight[r] = NoFlight
                 /\ b.write.what \in Of("message") => c.write = NoWrite
  <1> DEFINE d == Deletes(b, {TheGuild})
             f == Drops(d, PerGuild)
             S == {r \in Of("channel") : b.cache[r] # 0}
             g == Deletes(f, S)
             k == Drops(g, Of("message"))
  <1>0. /\ \A r \in PerGuild \cup Of("channel") \cup Of("message") \cup {TheGuild} : r \in Resources
        /\ \A r : r \in S <=> r \in Of("channel") /\ b.cache[r] # 0
    BY Guild DEF PerGuild, Of
  <1>1. /\ d \in Boxes /\ d.write = b.write
        /\ \A r \in Resources : /\ d.cache[r] = IF r = TheGuild THEN 0 ELSE b.cache[r]
                                /\ d.flight[r] = IF r = TheGuild THEN Soils(b, r) ELSE b.flight[r]
    BY DeletesBox
  <1> HIDE DEF d
  <1>2. /\ f \in Boxes /\ f.write = IF b.write.what \in PerGuild THEN NoWrite ELSE b.write
        /\ \A r \in Resources : /\ f.cache[r] = IF r \in PerGuild THEN 0 ELSE d.cache[r]
                                /\ f.flight[r] = IF r \in PerGuild THEN NoFlight ELSE d.flight[r]
    BY <1>1, DropsBox, DropsWrite
  <1>3. c = DeletesChannel(f, S)
    BY DEF LeavesGuild, d
  <1> HIDE DEF f, S
  <1>4. /\ g \in Boxes /\ g.write = f.write
        /\ \A r \in Resources : /\ g.cache[r] = IF r \in S THEN 0 ELSE f.cache[r]
                                /\ g.flight[r] = IF r \in S THEN Soils(f, r) ELSE f.flight[r]
    BY <1>2, DeletesBox
  <1> HIDE DEF g
  <1>5. /\ k \in Boxes /\ k.write = IF g.write.what \in Of("message") THEN NoWrite ELSE g.write
        /\ \A r \in Resources : /\ k.cache[r] = IF r \in Of("message") THEN 0 ELSE g.cache[r]
                                /\ k.flight[r] = IF r \in Of("message") THEN NoFlight ELSE g.flight[r]
    BY <1>4, DropsBox, DropsWrite
  <1>6. c = IF S = {} THEN f ELSE k
    BY <1>3 DEF DeletesChannel, g
  <1> HIDE DEF k
  <1>7. \A r \in Resources : Soiled(b.flight[r], Soils(b, r)) /\ Soiled(f.flight[r], Soils(f, r))
    BY <1>2, SoilsFlight
  <1>8. CASE S = {}
    BY <1>0, <1>1, <1>2, <1>6, <1>7, <1>8, Sorts
  <1>9. CASE S # {}
    <2>1. c = k /\ c \in Boxes /\ c.write \in {b.write, NoWrite}
      BY <1>2, <1>4, <1>5, <1>6, <1>9
    <2>2. \A r \in {TheGuild} \cup PerGuild \cup Of("channel") : c.cache[r] = 0
      <3> SUFFICES ASSUME NEW r \in {TheGuild} \cup PerGuild \cup Of("channel")
                   PROVE  c.cache[r] = 0
        OBVIOUS
      <3>1. r \in Resources /\ c.cache[r] = IF r \in Of("message") THEN 0 ELSE g.cache[r]
        BY <1>0, <1>5, <2>1
      <3>2. g.cache[r] = IF r \in S THEN 0 ELSE f.cache[r]
        BY <1>4, <3>1
      <3>3. f.cache[r] = IF r \in PerGuild \/ r = TheGuild THEN 0 ELSE b.cache[r]
        BY <1>1, <1>2, <3>1
      <3> QED BY <1>0, <3>1, <3>2, <3>3
    <2>3. \A r \in PerGuild : c.flight[r] = NoFlight
      <3> SUFFICES ASSUME NEW r \in PerGuild PROVE c.flight[r] = NoFlight
        OBVIOUS
      <3>1. r \in Resources /\ r \notin S /\ r \notin Of("message")
        BY <1>0, Sorts
      <3> QED BY <1>2, <1>4, <1>5, <2>1, <3>1
    <2>4. Soiled(b.flight[TheGuild], c.flight[TheGuild])
      <3>1. TheGuild \in Resources /\ TheGuild \notin S /\ TheGuild \notin Of("message")
            /\ TheGuild \notin PerGuild
        BY <1>0, Guild, Sorts
      <3>2. c.flight[TheGuild] = Soils(b, TheGuild)
        BY <1>1, <1>2, <1>4, <1>5, <2>1, <3>1
      <3> QED BY <1>7, <3>1, <3>2
    <2>5. \A r \in Of("channel") : \/ Soiled(b.flight[r], c.flight[r])
                                   \/ b.cache[r] = 0 /\ c.flight[r] = b.flight[r]
      <3> SUFFICES ASSUME NEW r \in Of("channel")
                   PROVE  \/ Soiled(b.flight[r], c.flight[r])
                          \/ b.cache[r] = 0 /\ c.flight[r] = b.flight[r]
        OBVIOUS
      <3>1. r \in Resources /\ r # TheGuild /\ r \notin Of("message") /\ r \notin PerGuild
        BY <1>0, Sorts
      <3>2. f.flight[r] = b.flight[r]
        BY <1>1, <1>2, <3>1
      <3>3. c.flight[r] = IF r \in S THEN Soils(f, r) ELSE f.flight[r]
        BY <1>4, <1>5, <2>1, <3>1
      <3> QED BY <1>0, <1>7, <3>1, <3>2, <3>3
    <2>6. \A r \in Of("message") : c.cache[r] = 0 /\ c.flight[r] = NoFlight
      BY <1>0, <1>5, <2>1
    <2>7. /\ b.write.what \in PerGuild => c.write = NoWrite
          /\ b.write.what \in Of("message") => c.write = NoWrite
      BY <1>2, <1>4, <1>5, <2>1
    <2> QED BY <2>1, <2>2, <2>3, <2>4, <2>5, <2>6, <2>7
  <1> QED BY <1>8, <1>9

-----------------------------------------------------------------------------
(* The first dispatch is received.                                         *)

LEMMA Beheads ==
    ASSUME NEW w \in Seq(Told), w # <<>>
    PROVE  /\ Len(Tail(w)) \in Nat /\ Len(w) = Len(Tail(w)) + 1 /\ Head(w) = w[1]
           /\ Head(w) \in Told /\ Tail(w) \in Seq(Told) /\ 1 \in 1..Len(w)
           /\ \A i \in 1..Len(Tail(w)) : Tail(w)[i] = w[i + 1] /\ i + 1 \in 1..Len(w)
           /\ (Tail(w) = <<>>) <=> (Len(Tail(w)) = 0)
  <1>1. /\ Head(w) \in Told /\ Tail(w) \in Seq(Told) /\ Len(Tail(w)) = Len(w) - 1
        /\ \A i \in 1..Len(Tail(w)) : Tail(w)[i] = w[i + 1]
    BY HeadTailProperties
  <1>2. Len(w) \in Nat \ {0} /\ ((Tail(w) = <<>>) <=> (Len(Tail(w)) = 0))
    BY <1>1, EmptySeq
  <1> QED BY <1>1, <1>2

LEMMA TrueTail ==
    ASSUME NEW w \in Seq(Told), w # <<>>, NEW t, TrueWire(w, t)
    PROVE  TrueEvent(Head(w), t) /\ TrueWire(Tail(w), t)
  BY Beheads DEF TrueWire

LEMMA TellsReceived ==
    ASSUME NEW w \in Seq(Told), w # <<>>, NEW t \in Truths, NEW h \in [Resources -> Versions],
           NEW o, TellsAll(w, h, t, o), Rises(w, h, t)
    PROVE  TellsAll(Tail(w), Hears(h, Head(w)), t, o)
  <1> DEFINE x == Tail(w)
             e == Head(w)
             k == Hears(h, e)
  <1> SUFFICES ASSUME NEW r \in Resources PROVE TellsOf(x, k, t, o, r)
    BY DEF TellsAll
  <1>1. /\ Len(x) \in Nat /\ Len(w) = Len(x) + 1 /\ e = w[1] /\ 1 \in 1..Len(w) /\ e \in Told
        /\ \A i \in 1..Len(x) : x[i] = w[i + 1] /\ i + 1 \in 1..Len(w)
    BY Beheads
  <1>2. k[r] = IF r \in DOMAIN e.news THEN e.news[r] ELSE h[r]
    BY DEF Hears
  <1> HIDE DEF x, e, k
  <1>3. TellsOf(w, h, t, o, r)
    BY DEF TellsAll
  <1>4. CASE h[r] = t[r].v
    <2>1. CASE r \in DOMAIN e.news
      <3>1. h[r] <= e.news[r] /\ e.news[r] <= t[r].v
        BY <1>1, <2>1 DEF Rises
      <3>2. e.news[r] \in Nat /\ t[r].v \in Nat
        BY <1>1, <2>1, NewsOf, VersionsNat DEF Told, Truths
      <3> QED BY <1>2, <1>4, <2>1, <3>1, <3>2 DEF TellsOf
    <2>2. CASE r \notin DOMAIN e.news
      BY <1>2, <1>4, <2>2 DEF TellsOf
    <2> QED BY <2>1, <2>2
  <1>5. ASSUME NEW i \in 1..Len(w), r \in DOMAIN w[i].news, w[i].news[r] = t[r].v
        PROVE  TellsOf(x, k, t, o, r)
    <2>1. CASE i = 1
      BY <1>1, <1>2, <1>5, <2>1 DEF TellsOf
    <2>2. CASE i # 1
      <3>1. i - 1 \in 1..Len(x) /\ (i - 1) + 1 = i
        BY <1>1, <2>2
      <3>2. x[i - 1] = w[i]
        BY <1>1, <3>1
      <3> QED BY <1>5, <3>1, <3>2 DEF TellsOf
    <2> QED BY <2>1, <2>2
  <1>6. CASE o /\ t[r].alive /\ r \in Carried \cup {TheGuild}
    BY <1>6 DEF TellsOf
  <1>7. CASE /\ h[r] = 0 /\ t[r].v = 1 /\ t[r].alive /\ r \in Of("message")
             /\ \A i \in 1..Len(w) : r \notin DOMAIN w[i].news
    <2>1. k[r] = 0
      BY <1>1, <1>2, <1>7
    <2>2. \A i \in 1..Len(x) : r \notin DOMAIN x[i].news
      BY <1>1, <1>7
    <2> QED BY <1>7, <2>1, <2>2 DEF TellsOf
  <1> QED BY <1>3, <1>4, <1>5, <1>6, <1>7 DEF TellsOf

\* Where the wire ends in a departure.
Ends(w, t) == ~t[TheGuild].alive /\ w # <<>> => w[Len(w)].type = "left"

\* What has lost its place in a cache and lives is told of again.
LEMMA ComesAgain ==
    ASSUME NEW w \in Seq(Told), Formed(w), NEW t \in Truths, TrueWire(w, t), NEW h, NEW c,
           NEW r \in Carried, t[r].alive, h[r] # t[r].v, TellsOf(w, h, t, FALSE, r),
           t[TheGuild].alive \/ w # <<>>, Ends(w, t),
           \A k \in 1..End(w, t) - 1 : w[k].type # "left"
    PROVE  Brought(w, c, r, End(w, t))
  <1> DEFINE m == End(w, t)
  <1>1. r \notin Of("message") /\ Len(w) \in Nat
    BY Sorts, LenProperties
  <1>2. PICK i \in 1..Len(w) : r \in DOMAIN w[i].news /\ w[i].news[r] = t[r].v
    BY <1>1 DEF TellsOf
  <1>3. TrueEvent(w[i], t) /\ WellFormed(w[i])
    BY DEF TrueWire, Formed
  <1>4. r \in w[i].live
    BY <1>2, <1>3 DEF TrueEvent, Ended
  <1>5. w[i].type # "update" /\ w[i].type # "left"
    BY <1>1, <1>2, <1>3, <1>4 DEF WellFormed, TrueEvent, Exact
  <1>6. m \in Nat /\ i \in 1..m - 1
    <2>1. CASE t[TheGuild].alive
      BY <1>1, <2>1 DEF End
    <2>2. CASE ~t[TheGuild].alive
      <3>1. w[Len(w)].type = "left" /\ m = Len(w)
        BY <2>2 DEF Ends, End
      <3>2. i # Len(w)
        BY <1>5, <3>1
      <3> QED BY <1>1, <3>1, <3>2
    <2> QED BY <2>1, <2>2
  <1> HIDE DEF m
  <1>7. \A k \in i + 1..m - 1 : w[k].type # "left"
    BY <1>6 DEF m
  <1>8. Brought(w, c, r, m)
    BY <1>4, <1>5, <1>6, <1>7 DEF Brought
  <1> QED BY <1>8 DEF m

\* A box that loses only what is told of again.
LEMMA HeldLoses ==
    ASSUME NEW w \in Seq(Told), Formed(w), NEW t \in Truths, TrueWire(w, t), NEW h, NEW o,
           TellsAll(w, h, t, o), Ends(w, t), NEW b, NEW c, Held(w, b, t, o),
           \A r \in Carried : t[r].alive /\ b.cache[r] # 0 /\ c.cache[r] = 0 => h[r] # t[r].v
    PROVE  Held(w, c, t, o)
  <1> SUFFICES ASSUME ~o, t[TheGuild].alive \/ w # <<>>, NEW r \in Carried, t[r].alive
               PROVE  Brought(w, c.cache[r], r, End(w, t))
    BY DEF Held
  <1>1. Brought(w, b.cache[r], r, End(w, t)) /\ TellsOf(w, h, t, FALSE, r)
    <2>1. Brought(w, b.cache[r], r, End(w, t)) /\ TellsOf(w, h, t, o, r)
      BY Sorts DEF Held, TellsAll
    <2> QED BY <2>1 DEF TellsOf
  <1>2. CASE b.cache[r] # 0 /\ c.cache[r] = 0 /\ \A k \in 1..End(w, t) - 1 : w[k].type # "left"
    BY <1>1, <1>2, ComesAgain
  <1>3. CASE c.cache[r] # 0 /\ \A k \in 1..End(w, t) - 1 : w[k].type # "left"
    BY <1>3 DEF Brought
  <1> QED BY <1>1, <1>2, <1>3 DEF Brought

LEMMA HeldReceived ==
    ASSUME NEW w \in Seq(Told), w # <<>>, Formed(w), NEW t \in Truths, TrueWire(w, t),
           NEW h, NEW o, TellsAll(Tail(w), Hears(h, Head(w)), t, o), Ends(w, t),
           NEW b, NEW c, Gives(b, c, Head(w)), Held(w, b, t, o)
    PROVE  Held(Tail(w), c, t, o)
  <1> DEFINE x == Tail(w)
             e == Head(w)
             n == Len(x)
             m == End(x, t)
             l == Hears(h, e)
  <1> SUFFICES ASSUME ~o, t[TheGuild].alive \/ x # <<>>, NEW r \in Carried, t[r].alive
               PROVE  Brought(x, c.cache[r], r, m)
    BY DEF Held
  <1>1. /\ n \in Nat /\ Len(w) = n + 1 /\ e = w[1] /\ 1 \in 1..Len(w) /\ e \in Told
        /\ x \in Seq(Told) /\ ((x = <<>>) <=> (n = 0))
        /\ \A i \in 1..n : x[i] = w[i + 1] /\ i + 1 \in 1..Len(w)
    BY Beheads
  <1>2. r \in Resources /\ r \notin Of("message")
    BY Sorts
  <1>3. /\ m \in Nat /\ m >= 1 /\ m <= n + 1 /\ End(w, t) = m + 1
    BY <1>1 DEF End
  <1>4. /\ TrueEvent(e, t) /\ WellFormed(e)
        /\ TrueWire(x, t) /\ Formed(x)
    <2>1. TrueEvent(e, t) /\ TrueWire(x, t)
      BY TrueTail
    <2> QED BY <1>1, <2>1 DEF Formed
  <1>5. Gives(b, c, e) /\ l[r] = (IF r \in DOMAIN e.news THEN e.news[r] ELSE h[r])
        /\ TellsOf(x, l, t, o, r)
    BY <1>2 DEF Hears, TellsAll
  <1>6. Ends(x, t)
    BY <1>1 DEF Ends
  <1>7. Brought(w, b.cache[r], r, m + 1)
    BY <1>3 DEF Held
  <1> HIDE DEF x, e, n, m, l
  <1>8. \A k \in 1..m - 1 : x[k] = w[k + 1] /\ k + 1 \in 1..(m + 1) - 1
    BY <1>1, <1>3
  <1>9. r \in e.live /\ e.type # "update" => c.cache[r] # 0
    BY <1>2, <1>4, <1>5 DEF Gives, TrueEvent
  <1>10. ASSUME NEW j \in 1..(m + 1) - 1, r \in w[j].live, w[j].type # "update",
                \A k \in j + 1..(m + 1) - 1 : w[k].type # "left"
         PROVE  Brought(x, c.cache[r], r, m)
    <2>1. CASE j = 1
      <3>1. c.cache[r] # 0
        BY <1>1, <1>9, <1>10, <2>1
      <3>2. \A k \in 1..m - 1 : x[k].type # "left"
        BY <1>3, <1>8, <1>10, <2>1
      <3> QED BY <3>1, <3>2 DEF Brought
    <2>2. CASE j # 1
      <3>1. j - 1 \in 1..m - 1 /\ (j - 1) + 1 = j
        BY <1>3, <2>2
      <3>2. x[j - 1] = w[j]
        BY <1>8, <3>1
      <3>3. \A k \in (j - 1) + 1..m - 1 : x[k].type # "left"
        <4> SUFFICES ASSUME NEW k \in (j - 1) + 1..m - 1 PROVE x[k].type # "left"
          OBVIOUS
        <4>1. k \in 1..m - 1 /\ k + 1 \in j + 1..(m + 1) - 1
          BY <1>3, <3>1
        <4> QED BY <1>8, <1>10, <4>1
      <3> QED BY <1>10, <3>1, <3>2, <3>3 DEF Brought
    <2> QED BY <2>1, <2>2
  <1>11. ASSUME b.cache[r] # 0, \A k \in 1..(m + 1) - 1 : w[k].type # "left"
         PROVE  Brought(x, c.cache[r], r, m)
    <2>1. \A k \in 1..m - 1 : x[k].type # "left"
      BY <1>8, <1>11
    <2>2. e.type # "left"
      BY <1>1, <1>3, <1>11
    <2>3. CASE r \notin DOMAIN e.news
      <3>1. c.cache[r] = b.cache[r]
        BY <1>2, <1>5, <2>2, <2>3 DEF Gives
      <3> QED BY <1>11, <2>1, <3>1 DEF Brought
    <2>4. CASE r \in e.live
      <3>1. e.type # "update"
        BY <1>2, <1>4, <2>4 DEF WellFormed
      <3> QED BY <1>9, <2>1, <2>4, <3>1 DEF Brought
    <2>5. CASE r \in DOMAIN e.news /\ r \notin e.live
      <3>1. l[r] # t[r].v
        BY <1>4, <1>5, <2>5 DEF TrueEvent, Ended
      <3>2. TellsOf(x, l, t, FALSE, r)
        BY <1>5 DEF TellsOf
      <3>3. \A k \in 1..End(x, t) - 1 : x[k].type # "left"
        BY <2>1 DEF m
      <3>4. Brought(x, c.cache[r], r, End(x, t))
        <4>1. t[TheGuild].alive \/ x # <<>>
          BY DEF x
        <4> QED BY <1>1, <1>4, <1>6, <3>1, <3>2, <3>3, <4>1, ComesAgain
      <3> QED BY <3>4 DEF m
    <2> QED BY <2>3, <2>4, <2>5
  <1> QED BY <1>7, <1>10, <1>11 DEF Brought

\* The caches show what was.
LEMMA RealReceived ==
    ASSUME NEW b \in Boxes, NEW c, NEW e \in Told, Takings(b, c, e), Gives(b, c, e),
           NEW t, TrueEvent(e, t), RealBox(b, t)
    PROVE  RealBox(c, t)
  <1> SUFFICES ASSUME NEW r \in Resources
               PROVE  /\ c.cache[r] # 0 => Real(c.cache[r], t[r])
                      /\ c.flight[r].at = "answered" /\ c.flight[r].v # 0 => Real(c.flight[r].v, t[r])
    BY DEF RealBox
  <1>1. /\ b.cache[r] # 0 => Real(b.cache[r], t[r])
        /\ b.flight[r].at = "answered" /\ b.flight[r].v # 0 => Real(b.flight[r].v, t[r])
    BY DEF RealBox
  <1>2. Takes(b, c, e, r)
    BY DEF Takings
  <1>3. c.cache[r] # 0 => Real(c.cache[r], t[r])
    BY <1>1, <1>2 DEF Takes, Gives, TrueEvent
  <1>4. Soiled(b.flight[r], c.flight[r]) \/ Kept(b.flight[r], c.flight[r])
    BY <1>2 DEF Takes
  <1> QED BY <1>1, <1>3, <1>4 DEF Soiled, Kept

LEMMA StrictGuards ==
    ASSUME Strict
    PROVE  Guarded /\ \A tag : ~Raced(tag)
  BY DEF Strict, Guarded, Raced

LEMMA JParts ==
    ASSUME JInv
    PROVE  /\ IInv /\ Record /\ RealBox(box, truth) /\ RealWrite(box.write, truth, heard)
           /\ Departed(wire, box, truth)
           /\ Sound(truth, out) /\ TrueWire(wire, truth) /\ TellsAll(wire, heard, truth, out)
           /\ Held(wire, box, truth, out)
           /\ wire \in Seq(Told) /\ Formed(wire) /\ truth \in Truths /\ box \in Boxes
           /\ heard \in [Resources -> Versions] /\ Rises(wire, heard, truth)
           /\ Fresh(box, heard) /\ Sane(box.write) /\ Ends(wire, truth)
           /\ Placed(wire, box.cache[TheGuild], truth[TheGuild].alive)
  <1>1. IInv /\ Record /\ Departed(wire, box, truth)
    BY DEF JInv
  <1>2. Ends(wire, truth)
    BY <1>1 DEF Departed, Ends
  <1>3. truth \in Truths /\ box \in Boxes /\ heard \in [Resources -> Versions]
    BY <1>1, Typed DEF IInv
  <1> QED BY <1>1, <1>2, <1>3 DEF JInv, IInv, Record

\* The last that the client hears of a guild that the bot has left is that it left.
LEMMA LeftBare ==
    ASSUME JInv, Strict, Receives, ~truth[TheGuild].alive, Tail(wire) = <<>>
    PROVE  Bare(box')
  <1> DEFINE e == Head(wire)
             c == box'
             w == box.write
  <1>1. /\ IInv /\ RealBox(box, truth) /\ RealWrite(w, truth, heard) /\ Fresh(box, heard)
        /\ Sound(truth, out) /\ TellsAll(wire, heard, truth, out) /\ Held(wire, box, truth, out)
        /\ wire \in Seq(Told) /\ Formed(wire) /\ truth \in Truths /\ box \in Boxes
        /\ heard \in [Resources -> Versions] /\ Departed(wire, box, truth)
    BY JParts
  <1>2. wire # <<>> /\ ~Unmarked(e) /\ c = Handled(box, e)
    BY DEF Receives
  <1>3. Len(wire) = 1 /\ e = wire[1] /\ e.type = "left" /\ e.news[TheGuild] = truth[TheGuild].v
    <2>1. Len(Tail(wire)) = 0
      BY <1>1, <1>2, Beheads
    <2>2. Len(wire) = 1 /\ e = wire[1]
      BY <1>1, <1>2, <2>1, Beheads
    <2> QED BY <1>1, <1>2, <2>2 DEF Departed
  <1> HIDE DEF e
  <1>4. DOMAIN e.news = {TheGuild} /\ e \in Told
    <2>1. WellFormed(e) /\ e \in Told
      BY <1>1, <1>2, <1>3, Beheads DEF Formed
    <2> QED BY <1>3, <2>1 DEF WellFormed
  <1>5. c = LeavesGuild(box)
    BY <1>2, <1>3 DEF Handled
  <1> HIDE DEF c, w
  <1>6. /\ c \in Boxes /\ c.write \in {w, NoWrite}
        /\ \A r \in {TheGuild} \cup PerGuild \cup Of("channel") : c.cache[r] = 0
        /\ \A r \in PerGuild : c.flight[r] = NoFlight
        /\ Soiled(box.flight[TheGuild], c.flight[TheGuild])
        /\ \A r \in Of("channel") : \/ Soiled(box.flight[r], c.flight[r])
                                    \/ box.cache[r] = 0 /\ c.flight[r] = box.flight[r]
        /\ w.what \in PerGuild => c.write = NoWrite
        /\ (\E x \in Of("channel") : box.cache[x] # 0) =>
              /\ \A r \in Of("message") : c.cache[r] = 0 /\ c.flight[r] = NoFlight
              /\ w.what \in Of("message") => c.write = NoWrite
    BY <1>1, <1>5, LeavesBox DEF w
  <1>7. \A r \in Resources : c.cache[r] \in {box.cache[r], 0} /\ Kept(box.flight[r], c.flight[r])
    BY <1>1, <1>5, LeavesGuildLoss DEF Loss, Loses
  <1>8. /\ \A r \in Of("channel") : ~(box.cache[r] = 0 /\ Out(r)) /\ w.what # r
        /\ w.at = "answered" /\ w.what = TheGuild => ~(e.news[TheGuild] > w.v)
    BY <1>2, <1>3, <1>4, StrictGuards DEF Unmarked, w
  <1>9. w \in Write /\ w.what \in Resources /\ w.v \in Nat /\ NoFlight.at = "none" /\ NoWrite.at = "none"
    BY <1>1, BoxParts, FlightParts, NoWriteTyped, VersionsNat DEF Write, w
  \* A message that is gone was told of, if it is not dropped with its channel.
  <1>10. ASSUME \A x \in Of("channel") : box.cache[x] = 0, NEW r \in Of("message")
         PROVE  ~truth[r].alive /\ heard[r] = truth[r].v /\ r \in Resources
    <2>1. PICK x \in Of("channel") : x \in Carried
      BY Sorts
    <2>2. ~truth[x].alive
      <3> SUFFICES ASSUME truth[x].alive PROVE FALSE
        OBVIOUS
      <3>1. Brought(wire, box.cache[x], x, End(wire, truth)) /\ End(wire, truth) = 1
        BY <1>1, <1>2, <1>3, <2>1 DEF Held, Sound, End
      <3> QED BY <1>10, <3>1 DEF Brought
    <2>3. ~truth[r].alive /\ r \in Resources
      BY <1>1, <2>2 DEF Sound, Of
    <2>4. r # TheGuild /\ TellsOf(wire, heard, truth, out, r)
      BY <1>1, <2>3, Sorts DEF TellsAll
    <2>5. \A i \in 1..Len(wire) : r \notin DOMAIN wire[i].news
      BY <1>3, <1>4, <2>4
    <2> QED BY <2>3, <2>4, <2>5 DEF TellsOf
  <1>11. ASSUME NEW r \in Resources PROVE c.cache[r] = 0 /\ ~WillStore(c.flight[r], KindOf[r])
    <2>1. CASE r \in PerGuild
      BY <1>6, <1>9, <2>1 DEF WillStore
    <2>2. CASE r = TheGuild
      BY <1>6, <2>2, Guild DEF WillStore, Soiled
    <2>3. CASE r \in Of("channel")
      <3>1. KindOf[r] = "channel"
        BY <2>3 DEF Of
      <3> QED BY <1>6, <1>8, <2>3, <3>1 DEF WillStore, Soiled, Out
    <2>4. CASE r \in Of("message")
      <3>1. CASE \E x \in Of("channel") : box.cache[x] # 0
        BY <1>6, <1>9, <2>4, <3>1 DEF WillStore
      <3>2. CASE \A x \in Of("channel") : box.cache[x] = 0
        <4>1. ~truth[r].alive /\ heard[r] = truth[r].v
          BY <1>10, <2>4, <3>2
        <4>2. FreshAt(box.cache[r], box.flight[r], KindOf[r], heard[r])
          BY <1>1 DEF Fresh
        <4>3. /\ box.cache[r] # 0 => Real(box.cache[r], truth[r])
              /\ box.flight[r].at = "answered" /\ box.flight[r].v # 0 => Real(box.flight[r].v, truth[r])
          BY <1>1 DEF RealBox
        <4>4. box.cache[r] \in Nat /\ box.flight[r].v \in Nat /\ truth[r].v \in Nat
          BY <1>1, BoxParts, FlightParts, VersionsNat DEF Truths
        <4>5. box.cache[r] = 0
          BY <4>1, <4>2, <4>3, <4>4 DEF FreshAt, Real
        <4>6. ~WillStore(box.flight[r], KindOf[r])
          BY <4>1, <4>2, <4>3, <4>4 DEF FreshAt, WillStore, Real
        <4> QED BY <1>7, <4>5, <4>6 DEF WillStore, Kept
      <3> QED BY <3>1, <3>2
    <2> QED BY <2>1, <2>2, <2>3, <2>4, Sorts
  <1>12. ASSUME c.write.at = "answered", c.write.op = "edit" PROVE FALSE
    <2>1. c.write = w /\ c.write # NoWrite
      BY <1>6, <1>9, <1>12
    <2>2. heard[w.what] <= w.v /\ Real(w.v, truth[w.what])
      BY <1>1, <1>12, <2>1 DEF RealWrite
    <2>3. truth[w.what].v \in Nat
      BY <1>1, <1>9, VersionsNat DEF Truths
    <2>4. CASE w.what = TheGuild
      BY <1>3, <1>8, <1>9, <1>12, <2>1, <2>2, <2>3, <2>4 DEF Real
    <2>5. CASE w.what \in PerGuild
      BY <1>6, <2>1, <2>5
    <2>6. CASE w.what \in Of("channel")
      BY <1>8, <2>6
    <2>7. CASE w.what \in Of("message")
      <3>1. \A x \in Of("channel") : box.cache[x] = 0
        BY <1>6, <2>1, <2>7
      <3>2. ~truth[w.what].alive /\ heard[w.what] = truth[w.what].v
        BY <1>10, <2>7, <3>1
      <3> QED BY <1>9, <2>2, <2>3, <3>2 DEF Real
    <2> QED BY <1>9, <2>4, <2>5, <2>6, <2>7, Sorts
  <1> QED BY <1>11, <1>12 DEF Bare, c

LEMMA ReceivesTrue ==
    ASSUME JInv, Strict, Receives
    PROVE  JInv'
  <1> DEFINE e == Head(wire)
             c == box'
             w == box.write
  <1>1. /\ IInv /\ RealBox(box, truth) /\ RealWrite(w, truth, heard)
        /\ Sound(truth, out) /\ TrueWire(wire, truth)
        /\ TellsAll(wire, heard, truth, out) /\ Held(wire, box, truth, out)
        /\ wire \in Seq(Told) /\ Formed(wire) /\ truth \in Truths /\ box \in Boxes
        /\ heard \in [Resources -> Versions] /\ Departed(wire, box, truth)
        /\ Rises(wire, heard, truth) /\ Ends(wire, truth)
        /\ Placed(wire, box.cache[TheGuild], truth[TheGuild].alive)
    BY JParts
  <1>2. /\ wire # <<>> /\ ~Unmarked(e) /\ c = Handled(box, e) /\ wire' = Tail(wire)
        /\ heard' = Hears(heard, e) /\ UNCHANGED <<truth, out>>
    BY DEF Receives, Hears
  <1>3. IInv'
    BY <1>1, StrictGuards, ReceivesStep
  <1> HIDE DEF c
  <1>4. e \in Told /\ WellFormed(e) /\ TrueEvent(e, truth) /\ TrueWire(wire', truth)
        /\ (TellsOfMember(e) => box.cache[TheGuild] # 0)
    <2>1. e \in Told /\ wire[1] = e /\ 1 \in 1..Len(wire)
      BY <1>1, <1>2, Beheads
    <2>2. WellFormed(e) /\ (TellsOfMember(e) => box.cache[TheGuild] # 0)
      BY <1>1, <2>1 DEF Formed, Placed, Guilded
    <2> QED BY <1>1, <1>2, <2>1, <2>2, TrueTail
  <1>5. Takings(box, c, e) /\ Gives(box, c, e)
    BY <1>1, <1>2, <1>4, HandledTakes, HandledGives DEF TrueEvent
  <1>6. TellsAll(wire', heard', truth, out)
    BY <1>1, <1>2, TellsReceived
  <1>7. Held(wire', c, truth, out)
    <2>1. TellsAll(Tail(wire), Hears(heard, Head(wire)), truth, out)
      BY <1>2, <1>6
    <2>2. Gives(box, c, Head(wire))
      BY <1>5
    <2>3. Held(Tail(wire), c, truth, out)
      <3> HIDE DEF e
      <3> QED BY <1>1, <1>2, <2>1, <2>2, HeldReceived
    <2> QED BY <1>2, <2>3
  <1> HIDE DEF e
  <1>8. RealBox(c, truth)
    BY <1>1, <1>4, <1>5, RealReceived
  <1>9. RealWrite(c.write, truth, heard')
    <2> SUFFICES ASSUME c.write.at = "answered" PROVE RealWrite(c.write, truth, heard')
      BY DEF RealWrite
    <2>1. c.write = w /\ w.at = "answered"
      BY <1>5, NoWriteTyped DEF Takings
    <2>2. w.what \in DOMAIN e.news => ~(e.news[w.what] > w.v)
      BY <1>2, <2>1, StrictGuards DEF Unmarked
    <2>3. w.what \in Resources /\ w.v \in Nat
      BY <1>1, BoxParts, VersionsNat DEF Write
    <2>4. w.what \in DOMAIN e.news => e.news[w.what] \in Nat
      BY <1>4, NewsOf, VersionsNat DEF Told
    <2>5. heard'[w.what] = IF w.what \in DOMAIN e.news THEN e.news[w.what] ELSE heard[w.what]
      BY <1>2, <2>3 DEF Hears
    <2> HIDE DEF w
    <2>6. heard'[w.what] <= w.v
      BY <1>1, <2>1, <2>2, <2>3, <2>4, <2>5 DEF RealWrite
    <2> QED BY <1>1, <2>1, <2>6 DEF RealWrite
  <1>10. Departed(wire', c, truth)
    <2> SUFFICES ASSUME ~truth[TheGuild].alive PROVE Departed(wire', c, truth)
      BY DEF Departed
    <2>1. CASE wire' = <<>>
      <3>1. Bare(c)
        BY <1>2, <2>1, LeftBare DEF c
      <3> QED BY <2>1, <3>1 DEF Departed
    <2>2. CASE wire' # <<>>
      <3>1. /\ wire' = Tail(wire) /\ Len(wire') \in Nat /\ Len(wire') # 0 /\ Len(wire) = Len(wire') + 1
            /\ \A i \in 1..Len(wire') : wire'[i] = wire[i + 1]
        BY <1>1, <1>2, <2>2, Beheads
      <3>2. wire'[Len(wire')] = wire[Len(wire)]
        <4>0. \A n \in Nat : n # 0 => n \in 1..n
          OBVIOUS
        <4>1. Len(wire') \in 1..Len(wire')
          BY <3>1, <4>0, Zenon
        <4> QED BY <3>1, <4>1
      <3> QED BY <1>1, <1>2, <2>2, <3>2 DEF Departed
    <2> QED BY <2>1, <2>2
  <1>11. /\ Sound(truth, out)' /\ TrueWire(wire, truth)' /\ TellsAll(wire, heard, truth, out)'
         /\ Held(wire, box, truth, out)' /\ RealBox(box, truth)' /\ Departed(wire, box, truth)'
         /\ RealWrite(box.write, truth, heard)'
    BY <1>1, <1>2, <1>4, <1>6, <1>7, <1>8, <1>9, <1>10 DEF c
  <1> QED BY <1>3, <1>11 DEF JInv, Record

-----------------------------------------------------------------------------
(* The client on its own.                                                  *)

LEMMA ClientTrue ==
    ASSUME JInv, IInv', UNCHANGED <<truth, out, wire, heard>>,
           RealBox(box', truth), RealWrite(box'.write, truth, heard),
           ~truth[TheGuild].alive /\ Bare(box) => Bare(box'),
           \A r \in Carried : truth[r].alive /\ box.cache[r] # 0 /\ box'.cache[r] = 0
                                 => heard[r] # truth[r].v
    PROVE  JInv'
  <1>1. /\ IInv /\ RealBox(box, truth)
        /\ Sound(truth, out) /\ TrueWire(wire, truth)
        /\ TellsAll(wire, heard, truth, out) /\ Held(wire, box, truth, out)
        /\ wire \in Seq(Told) /\ Formed(wire) /\ truth \in Truths /\ box \in Boxes
        /\ Departed(wire, box, truth) /\ Ends(wire, truth)
    BY JParts
  <1>2. Held(wire, box', truth, out)
    BY <1>1, HeldLoses
  <1>3. Departed(wire, box', truth)
    BY <1>1 DEF Departed
  <1>4. /\ Sound(truth, out)' /\ TrueWire(wire, truth)' /\ TellsAll(wire, heard, truth, out)'
        /\ Held(wire, box, truth, out)' /\ RealBox(box, truth)' /\ Departed(wire, box, truth)'
        /\ RealWrite(box.write, truth, heard)'
    BY <1>1, <1>2, <1>3
  <1> QED BY <1>4 DEF JInv, Record

LEMMA ReflownParts ==
    ASSUME NEW b \in Boxes, NEW r \in Resources, NEW g \in Fetches, NEW d, d = Reflown(b, r, g)
    PROVE  /\ d \in Boxes /\ d.cache = b.cache /\ d.write = b.write
           /\ \A q \in Resources : d.flight[q] = IF q = r THEN g ELSE b.flight[q]
  <1> DEFINE f == [b.flight EXCEPT ![r] = g]
  <1>1. b.flight \in [Resources -> Fetches]
    BY BoxParts
  <1>2. f \in [Resources -> Fetches] /\ \A q \in Resources : f[q] = IF q = r THEN g ELSE b.flight[q]
    BY <1>1
  <1> HIDE DEF f
  <1>3. d = [b EXCEPT !.flight = f]
    BY DEF f, Boxes, Reflown
  <1>4. d \in Boxes /\ d.cache = b.cache /\ d.write = b.write /\ d.flight = f
    BY <1>2, <1>3 DEF Boxes
  <1> QED BY <1>2, <1>4

\* A fetch takes the place of another, and shows what is true.
LEMMA ReflownTrue ==
    ASSUME NEW b \in Boxes, NEW r \in Resources, NEW g \in Fetches, NEW d, d = Reflown(b, r, g),
           NEW t, RealBox(b, t), g.at = "answered" /\ g.v # 0 => Real(g.v, t[r])
    PROVE  /\ RealBox(d, t)
           /\ Bare(b) /\ ~WillStore(g, KindOf[r]) => Bare(d)
  <1>1. /\ d \in Boxes /\ d.cache = b.cache /\ d.write = b.write
        /\ \A q \in Resources : d.flight[q] = IF q = r THEN g ELSE b.flight[q]
    BY ReflownParts
  <1>2. RealBox(d, t)
    BY <1>1 DEF RealBox
  <1>3. Bare(b) /\ ~WillStore(g, KindOf[r]) => Bare(d)
    BY <1>1 DEF Bare
  <1> QED BY <1>2, <1>3

LEMMA FetchTrue ==
    ASSUME JInv, NEW r \in Resources, Fetch(r)
    PROVE  JInv'
  <1>1. /\ IInv /\ RealBox(box, truth) /\ RealWrite(box.write, truth, heard) /\ box \in Boxes
    BY JParts
  <1>2. UNCHANGED <<truth, out, wire, heard>> /\ IInv'
    BY <1>1, FetchStep DEF Fetch
  <1>3. CASE Out(r)
    <2>1. box' = box
      BY <1>3 DEF Fetch
    <2> QED BY <1>1, <1>2, <2>1, ClientTrue
  <1>4. CASE ~Out(r)
    <2> DEFINE g == [NoFlight EXCEPT !.at = "asked"]
    <2>1. g \in Fetches /\ g.at = "asked"
      BY VersionsNat DEF NoFlight, Flight, Fetches
    <2>2. box' = Reflown(box, r, g)
      BY <1>4 DEF Fetch, Reflown
    <2> HIDE DEF g
    <2>3. box'.cache = box.cache /\ box'.write = box.write
      BY <1>1, <2>1, <2>2, ReflownParts
    <2>4. RealBox(box', truth) /\ (Bare(box) => Bare(box'))
      BY <1>1, <2>1, <2>2, ReflownTrue DEF WillStore
    <2> QED BY <1>1, <1>2, <2>3, <2>4, ClientTrue
  <1> QED BY <1>3, <1>4

LEMMA ServesTrue ==
    ASSUME JInv, NEW r \in Resources, Serves(r)
    PROVE  JInv'
  <1> DEFINE f == box.flight[r]
             v == IF Visible(r) THEN truth[r].v ELSE 0
             g == [f EXCEPT !.at = "answered", !.v = v]
  <1>1. /\ IInv /\ RealBox(box, truth) /\ RealWrite(box.write, truth, heard) /\ box \in Boxes
        /\ truth \in Truths
    BY JParts
  <1>2. UNCHANGED <<truth, out, wire, heard>> /\ IInv'
    BY <1>1, ServesStep DEF Serves
  <1>3. v \in Versions /\ (v # 0 => Real(v, truth[r]) /\ truth[TheGuild].alive)
    <2>1. truth[r].v \in Versions /\ truth[r].v \in Nat /\ 0 \in Versions
      BY <1>1, VersionsNat DEF Truths
    <2> QED BY <2>1 DEF Visible, Real
  <1>4. f \in Fetches /\ f \in Flight
    BY <1>1, BoxParts DEF Fetches
  <1> HIDE DEF v, f
  <1>5. g \in Fetches /\ g.at = "answered" /\ g.v = v
    BY <1>3, <1>4 DEF Fetches, Flight, NoFlight
  <1>7. box' = Reflown(box, r, g)
    BY <1>1 DEF Serves, Reflown, Boxes, v, f
  <1> HIDE DEF g
  <1>8. box'.cache = box.cache /\ box'.write = box.write
    BY <1>1, <1>5, <1>7, ReflownParts
  <1>9. RealBox(box', truth) /\ (Bare(box) /\ ~WillStore(g, KindOf[r]) => Bare(box'))
    BY <1>1, <1>3, <1>5, <1>7, ReflownTrue
  <1>10. ~truth[TheGuild].alive /\ Bare(box) => Bare(box')
    BY <1>3, <1>5, <1>9 DEF WillStore
  <1> QED BY <1>1, <1>2, <1>8, <1>9, <1>10, ClientTrue

LEMMA UpsertsTrue ==
    ASSUME NEW b \in Boxes, NEW r \in Resources, NEW v \in Versions, v # 0,
           NEW d, d = Upserts(b, News1(r, v)), NEW t, RealBox(b, t), Real(v, t[r])
    PROVE  /\ RealBox(d, t) /\ d.write = b.write
           /\ \A q \in Resources : b.cache[q] # 0 => d.cache[q] # 0
  <1> DEFINE n == News1(r, v)
  <1>1. n \in News /\ DOMAIN n = {r} /\ n[r] = v
    BY MakesNews DEF News1
  <1> HIDE DEF n
  <1>2. /\ d.write = b.write
        /\ \A q \in Resources :
              /\ d.cache[q] = IF q = r THEN v ELSE b.cache[q]
              /\ d.flight[q] \in {Soils(b, q), b.flight[q]}
    <2>1. /\ d \in Boxes /\ d.write = b.write
          /\ \A q \in Resources :
                /\ d.cache[q] = IF q \in DOMAIN n THEN n[q] ELSE b.cache[q]
                /\ d.flight[q] = IF q \in DOMAIN n /\ (KindOf[q] # "emoji" \/ b.cache[q] = 0)
                                 THEN Soils(b, q) ELSE b.flight[q]
      BY <1>1, UpsertsBox DEF n
    <2> QED BY <1>1, <2>1
  <1>3. \A q \in Resources : Kept(b.flight[q], d.flight[q])
    BY <1>2, SoilsFlight, BoxParts
  <1>4. RealBox(d, t)
    BY <1>2, <1>3 DEF RealBox, Kept
  <1> QED BY <1>2, <1>4

LEMMA AnswersTrue ==
    ASSUME JInv, NEW r \in Resources, Answers(r)
    PROVE  JInv'
  <1> DEFINE f == box.flight[r]
             b == [box EXCEPT !.flight[r] = NoFlight]
  <1>1. /\ IInv /\ RealBox(box, truth) /\ RealWrite(box.write, truth, heard) /\ box \in Boxes
    BY JParts
  <1>2. UNCHANGED <<truth, out, wire, heard>> /\ IInv'
    BY <1>1, AnswersStep DEF Answers
  <1>3. /\ f.at = "answered" /\ f.v \in Versions
        /\ box' = IF Stores(f, KindOf[r]) THEN Upserts(b, News1(r, f.v)) ELSE b
    BY <1>1, BoxParts, FlightParts DEF Answers, News1
  <1>4. b \in Boxes /\ b.cache = box.cache /\ b.write = box.write /\ RealBox(b, truth)
        /\ (Bare(box) => Bare(b))
    <2>1. b = Reflown(box, r, NoFlight)
      BY DEF Reflown
    <2>2. NoFlight \in Fetches /\ NoFlight.at = "none"
      BY FlightParts
    <2> HIDE DEF b
    <2> QED BY <1>1, <2>1, <2>2, ReflownParts, ReflownTrue DEF WillStore
  <1> HIDE DEF b
  <1>5. CASE Stores(f, KindOf[r])
    <2>1. f.v # 0 /\ WillStore(f, KindOf[r])
      BY <1>3, <1>5 DEF Stores, WillStore
    <2>2. Real(f.v, truth[r]) /\ ~Bare(box)
      BY <1>1, <1>3, <2>1 DEF RealBox, Bare
    <2> HIDE DEF f
    <2>3. /\ RealBox(box', truth) /\ box'.write = b.write
          /\ \A q \in Resources : b.cache[q] # 0 => box'.cache[q] # 0
      BY <1>3, <1>4, <1>5, <2>1, <2>2, UpsertsTrue
    <2>4. \A q \in Carried : box.cache[q] # 0 => box'.cache[q] # 0
      BY <1>4, <2>3, Sorts
    <2> QED BY <1>1, <1>2, <1>4, <2>2, <2>3, <2>4, ClientTrue
  <1>6. CASE ~Stores(f, KindOf[r])
    <2>1. box' = b
      BY <1>3, <1>6
    <2> QED BY <1>1, <1>2, <1>4, <2>1, ClientTrue
  <1> QED BY <1>5, <1>6

\* A box with another write.
LEMMA RewritesTrue ==
    ASSUME NEW b \in Boxes, NEW w \in Write, NEW d, d = [b EXCEPT !.write = w],
           NEW t, RealBox(b, t)
    PROVE  /\ d \in Boxes /\ d.cache = b.cache /\ d.flight = b.flight /\ d.write = w
           /\ RealBox(d, t)
           /\ Bare(b) /\ ~(w.at = "answered" /\ w.op = "edit") => Bare(d)
  <1>1. d \in Boxes /\ d.write = w /\ d.cache = b.cache /\ d.flight = b.flight
    BY DEF Boxes
  <1> QED BY <1>1 DEF RealBox, Bare

LEMMA WritesTrue ==
    ASSUME JInv, NEW r \in Resources, NEW op \in {"edit", "remove"}, Writes(r, op)
    PROVE  JInv'
  <1> DEFINE w == [op |-> op, what |-> r, at |-> "asked", v |-> 0]
  <1>1. IInv /\ RealBox(box, truth) /\ box \in Boxes
    BY JParts
  <1>2. UNCHANGED <<truth, out, wire, heard>> /\ IInv'
    BY <1>1, WritesStep DEF Writes
  <1>3. w \in Write /\ w.at = "asked"
    BY VersionsNat DEF Write
  <1>4. box' = [box EXCEPT !.write = w]
    BY DEF Writes
  <1> HIDE DEF w
  <1>5. /\ box'.cache = box.cache /\ box'.write = w /\ RealBox(box', truth)
        /\ (Bare(box) => Bare(box'))
    BY <1>1, <1>3, <1>4, RewritesTrue
  <1>6. RealWrite(box'.write, truth, heard)
    BY <1>3, <1>5 DEF RealWrite
  <1> QED BY <1>1, <1>2, <1>5, <1>6, ClientTrue

LEMMA LosesTrue ==
    ASSUME NEW b \in Boxes, NEW c, Loses(b, c), NEW t, RealBox(b, t)
    PROVE  RealBox(c, t) /\ (Bare(b) => Bare(c))
  <1>1. \A r \in Resources : c.cache[r] \in {b.cache[r], 0} /\ Kept(b.flight[r], c.flight[r])
    BY DEF Loses
  <1>2. RealBox(c, t)
    BY <1>1 DEF RealBox, Kept
  <1>3. Bare(b) => Bare(c)
    BY <1>1, NoWriteTyped DEF Bare, WillStore, Kept, Loses
  <1> QED BY <1>2, <1>3

LEMMA WrittenTrue ==
    ASSUME JInv, Strict, Written
    PROVE  JInv'
  <1> DEFINE w == box.write
             r == w.what
             b == [box EXCEPT !.write = NoWrite]
  <1>1. /\ IInv /\ RealBox(box, truth) /\ RealWrite(w, truth, heard) /\ box \in Boxes
        /\ Sane(w) /\ truth \in Truths /\ heard \in [Resources -> Versions]
    BY JParts
  <1>2. UNCHANGED <<truth, out, wire, heard>> /\ IInv'
    BY <1>1, WrittenStep, StrictGuards DEF Written
  <1>3. w \in Write /\ r \in Resources /\ w.v \in Versions /\ w.v \in Nat
        /\ w.op \in {"none", "edit", "remove"}
    BY <1>1, BoxParts, VersionsNat DEF Write
  <1>4. /\ b \in Boxes /\ b.write = NoWrite /\ b.cache = box.cache /\ RealBox(b, truth)
        /\ (Bare(box) => Bare(b))
    BY <1>1, NoWriteTyped, RewritesTrue
  <1>5. /\ w.at = "answered"
        /\ box' = IF w.op = "edit" THEN Upserts(b, News1(r, w.v))
                  ELSE IF KindOf[r] = "channel" THEN DeletesChannel(b, {r})
                  ELSE Deletes(b, {r})
    BY DEF Written, News1
  <1> HIDE DEF b, w
  <1>6. w.v # 0 /\ w.op \in {"edit", "remove"}
    BY <1>1, <1>3, <1>5 DEF Sane
  <1>7. ASSUME box'.write = NoWrite PROVE RealWrite(box'.write, truth, heard)
    BY <1>7, NoWriteTyped DEF RealWrite
  <1>8. CASE w.op = "edit"
    <2>1. box' = Upserts(b, News1(r, w.v)) /\ Real(w.v, truth[r])
      BY <1>1, <1>5, <1>8 DEF RealWrite
    <2>2. ~Bare(box)
      BY <1>5, <1>8 DEF Bare, w
    <2> HIDE DEF r
    <2>3. /\ RealBox(box', truth) /\ box'.write = b.write
          /\ \A q \in Resources : b.cache[q] # 0 => box'.cache[q] # 0
      BY <1>3, <1>4, <1>6, <2>1, UpsertsTrue
    <2>4. \A q \in Carried : box.cache[q] # 0 => box'.cache[q] # 0
      BY <1>4, <2>3, Sorts
    <2> QED BY <1>1, <1>2, <1>4, <1>7, <2>2, <2>3, <2>4, ClientTrue
  <1>9. CASE w.op = "remove"
    <2>1. Loss(b, box', {r})
      BY <1>4, <1>5, <1>9, DeletesLoss, DeletesChannelLoss
    <2>2. box'.write = NoWrite /\ RealBox(box', truth) /\ (Bare(box) => Bare(box'))
      BY <1>4, <2>1, LosesTrue DEF Loss, Loses
    <2>3. heard[r] <= w.v /\ Ended(w.v, truth[r])
      BY <1>1, <1>5, <1>9 DEF RealWrite
    <2>4. truth[r].v \in Nat /\ heard[r] \in Nat
      BY <1>1, <1>3, VersionsNat DEF Truths
    <2>5. \A q \in Carried : truth[q].alive /\ box.cache[q] # 0 /\ box'.cache[q] = 0
                                => heard[q] # truth[q].v
      <3> SUFFICES ASSUME NEW q \in Carried, truth[q].alive, box.cache[q] # 0, box'.cache[q] = 0
                   PROVE  heard[q] # truth[q].v
        OBVIOUS
      <3>1. q = r
        BY <1>4, <1>5, <1>9, DeletesOnly
      <3> HIDE DEF r
      <3> QED BY <1>3, <2>3, <2>4, <3>1 DEF Ended
    <2> QED BY <1>1, <1>2, <1>7, <2>2, <2>5, ClientTrue
  <1> QED BY <1>6, <1>8, <1>9

-----------------------------------------------------------------------------
(* What Discord says is true.                                              *)

\* What dispatch e, said as t becomes u, leaves of the client's caches.
Keeps(e, t, u, o, p) ==
    /\ ~p /\ u[TheGuild].alive =>
          \A r \in Carried : u[r].alive =>
             \/ r \in e.live /\ e.type # "update"
             \/ ~o /\ t[TheGuild].alive /\ t[r].alive /\ e.type # "left"
    /\ ~u[TheGuild].alive =>
          /\ ~o /\ t[TheGuild].alive
          /\ \A r \in Carried : u[r].alive => t[r].alive

LEMMA HeldJoins ==
    ASSUME NEW w \in Seq(Told), NEW t \in Truths, NEW u \in Truths, NEW o, NEW p,
           NEW b, Held(w, b, t, o), NEW e \in Told, Keeps(e, t, u, o, p)
    PROVE  \A c : c.cache = b.cache => Held(Append(w, e), c, u, p)
  <1> DEFINE x == Append(w, e)
             n == Len(w)
  <1> SUFFICES ASSUME ~p, NEW r \in Carried, u[r].alive
               PROVE  Brought(x, b.cache[r], r, End(x, u))
    BY DEF Held
  <1>1. n \in Nat /\ Len(x) = n + 1 /\ (n + 1) + 1 = n + 2
    BY Joins
  <1>2. /\ Brought(w, b.cache[r], r, n + 1) => Brought(x, b.cache[r], r, n + 1)
        /\ Brought(w, b.cache[r], r, n + 1) /\ e.type # "left" => Brought(x, b.cache[r], r, n + 2)
        /\ r \in e.live /\ e.type # "update" => Brought(x, b.cache[r], r, n + 2)
    BY BroughtJoins
  <1>3. ~o /\ t[TheGuild].alive /\ t[r].alive => Brought(w, b.cache[r], r, n + 1)
    BY DEF Held, End
  <1> HIDE DEF x
  <1>4. CASE u[TheGuild].alive
    <2>1. End(x, u) = n + 2
      BY <1>1, <1>4 DEF End
    <2> QED BY <1>2, <1>3, <1>4, <2>1 DEF Keeps
  <1>5. CASE ~u[TheGuild].alive
    <2>1. End(x, u) = n + 1
      BY <1>1, <1>5 DEF End
    <2> QED BY <1>2, <1>3, <1>5, <2>1 DEF Keeps
  <1> QED BY <1>4, <1>5

\* The record stays true with dispatch e.
LEMMA RecordSaid ==
    ASSUME JInv, truth' \in Truths, Grows(truth, truth'), Sound(truth', out'),
           heard' = heard, box'.cache = box.cache,
           NEW e \in Told, TrueEvent(e, truth'), wire' = Append(wire, e),
           Covers(e, truth, truth', out, out'), Keeps(e, truth, truth', out, out')
    PROVE  Record'
  <1>1. /\ TrueWire(wire, truth) /\ TellsAll(wire, heard, truth, out)
        /\ Held(wire, box, truth, out)
        /\ wire \in Seq(Told) /\ Formed(wire) /\ truth \in Truths
    BY JParts
  <1>2. TrueWire(Append(wire, e), truth')
    BY <1>1, TrueJoins
  <1>3. TellsAll(Append(wire, e), heard, truth', out')
    BY <1>1, TellsJoins
  <1>4. Held(Append(wire, e), box', truth', out')
    <2>1. \A c : c.cache = box.cache => Held(Append(wire, e), c, truth', out')
      BY <1>1, HeldJoins
    <2> QED BY <2>1
  <1> QED BY <1>2, <1>3, <1>4 DEF Record

\* A dispatch of one form, about D.
LEMMA TrueSays ==
    ASSUME NEW type \in Events, NEW D \in SUBSET Resources, NEW t \in Truths,
           NEW live \in SUBSET D, NEW e, Tells(e, type, D, t, live),
           type \in {"guild", "put", "update"} => live = D,
           type \in {"left", "gone", "outage"} => live = {},
           \A r \in live : t[r].v # 0 /\ t[r].alive,
           \A r \in D \ live : ~t[r].alive
    PROVE  TrueEvent(e, t)
  <1>1. Exact(e)
    BY DEF Exact, Tells
  <1>2. \A r \in Resources : t[r].v <= t[r].v
    <2>1. \A r \in Resources : t[r].v \in Nat
      BY VersionsNat DEF Truths
    <2>2. \A n \in Nat : n <= n
      OBVIOUS
    <2> QED BY <2>1, <2>2
  <1>3. \A r \in live : e.news[r] = t[r].v /\ t[r].v <= t[r].v
    BY <1>2 DEF Tells
  <1>4. \A r \in D \ live : e.news[r] = t[r].v /\ t[r].v <= t[r].v
    BY <1>2 DEF Tells
  <1>5. \A r \in e.live : e.news[r] # 0 /\ Real(e.news[r], t[r])
    BY <1>3 DEF Real, Tells
  <1>6. \A r \in DOMAIN e.news \ e.live : Ended(e.news[r], t[r])
    BY <1>4 DEF Ended, Tells
  <1> QED BY <1>1, <1>5, <1>6 DEF TrueEvent

LEMMA DispatchTrue ==
    ASSUME NEW r \in Resources, NEW t \in Truths, NEW o, Sound(t, o)
    PROVE  /\ TrueEvent(Dispatch(r, t), t) /\ r \in DOMAIN Dispatch(r, t).news
           /\ r \in Carried /\ t[r].alive
                 => r \in Dispatch(r, t).live /\ Dispatch(r, t).type # "update"
  <1> DEFINE e == Dispatch(r, t)
             E == Of("emoji")
             L == {x \in E : t[x].alive}
             A == IF t[Author].alive THEN {r, Author} ELSE {r}
  <1>1. /\ E \in SUBSET Resources /\ L \in SUBSET E /\ A \in SUBSET Resources /\ {r} \in SUBSET Resources
        /\ (r \in E <=> KindOf[r] = "emoji") /\ r \in A
    BY Guild DEF Of
  <1>2. /\ \A x \in Resources : t[x].alive => t[x].v # 0
        /\ r \in Carried => KindOf[r] # "message"
    BY Sorts DEF Sound, Of
  <1>3. CASE KindOf[r] = "emoji"
    <2>1. e = Says("list", E, t, L)
      BY <1>3 DEF Dispatch, Says
    <2>2. /\ \A x \in L : t[x].v # 0 /\ t[x].alive
          /\ \A x \in E \ L : ~t[x].alive
          /\ r \in E /\ (t[r].alive => r \in L)
      BY <1>1, <1>2, <1>3
    <2> HIDE DEF e, E, L
    <2>3. Tells(e, "list", E, t, L)
      BY <1>1, <2>1, SaysTold DEF Events
    <2>4. TrueEvent(e, t)
      BY <1>1, <2>2, <2>3, TrueSays DEF Events
    <2> QED BY <2>2, <2>3, <2>4 DEF Tells, e
  <1>4. CASE KindOf[r] # "emoji" /\ ~t[r].alive
    <2>1. e = Says("gone", {r}, t, {})
      BY <1>4 DEF Dispatch, Says
    <2> HIDE DEF e
    <2>2. Tells(e, "gone", {r}, t, {})
      BY <1>1, <2>1, SaysTold DEF Events
    <2>3. TrueEvent(e, t)
      BY <1>1, <1>4, <2>2, TrueSays DEF Events
    <2> QED BY <1>4, <2>2, <2>3 DEF Tells, e
  <1>5. CASE KindOf[r] # "emoji" /\ t[r].alive /\ KindOf[r] # "message"
    <2>1. e = Says("put", {r}, t, {r})
      BY <1>5 DEF Dispatch, Says
    <2> HIDE DEF e
    <2>2. Tells(e, "put", {r}, t, {r})
      BY <1>1, <2>1, SaysTold DEF Events
    <2>3. TrueEvent(e, t)
      BY <1>1, <1>2, <1>5, <2>2, TrueSays DEF Events
    <2> QED BY <2>2, <2>3 DEF Tells, e
  <1>6. CASE KindOf[r] = "message" /\ t[r].alive /\ truth[r].alive
    <2>1. e = Says("update", {r}, t, {r})
      BY <1>6 DEF Dispatch, Says
    <2> HIDE DEF e
    <2>2. Tells(e, "update", {r}, t, {r})
      BY <1>1, <2>1, SaysTold DEF Events
    <2>3. TrueEvent(e, t)
      BY <1>1, <1>2, <1>6, <2>2, TrueSays DEF Events
    <2> QED BY <1>2, <1>6, <2>2, <2>3 DEF Tells, e
  <1>7. CASE KindOf[r] = "message" /\ t[r].alive /\ ~truth[r].alive
    <2>1. e = Says("put", A, t, A)
      BY <1>7 DEF Dispatch, Says
    <2>2. \A x \in A : t[x].v # 0 /\ t[x].alive
      BY <1>2, <1>7, Guild
    <2> HIDE DEF e, A
    <2>3. Tells(e, "put", A, t, A)
      BY <1>1, <2>1, SaysTold DEF Events
    <2>4. TrueEvent(e, t)
      BY <1>1, <2>2, <2>3, TrueSays DEF Events
    <2> QED BY <1>1, <1>2, <1>7, <2>3, <2>4 DEF Tells, e
  <1> QED BY <1>3, <1>4, <1>5, <1>6, <1>7

LEMMA SnapshotTrue ==
    ASSUME NEW t \in Truths, NEW o, Sound(t, o), t[TheGuild].alive
    PROVE  /\ TrueEvent(Snapshot(t), t) /\ Snapshot(t).type = "guild"
           /\ TheGuild \in DOMAIN Snapshot(t).news
           /\ \A r \in Carried : t[r].alive =>
                 r \in DOMAIN Snapshot(t).news /\ r \in Snapshot(t).live
  <1> DEFINE L == {TheGuild} \cup {r \in Carried : t[r].alive}
             e == Snapshot(t)
  <1>1. L \in SUBSET Resources /\ L \in SUBSET L
    BY Guild DEF Carried, Inside
  <1>2. e = Says("guild", L, t, L)
    BY DEF Snapshot, Says
  <1>3. /\ \A r \in L : t[r].v # 0 /\ t[r].alive
        /\ TheGuild \in L /\ \A r \in Carried : t[r].alive => r \in L
    BY <1>1 DEF Sound
  <1> HIDE DEF L, e
  <1>4. Tells(e, "guild", L, t, L)
    BY <1>1, <1>2, SaysTold DEF Events
  <1>5. TrueEvent(e, t)
    BY <1>1, <1>3, <1>4, TrueSays DEF Events
  <1> QED BY <1>3, <1>4, <1>5 DEF Tells, e

-----------------------------------------------------------------------------
(* The truth after a step of Discord.                                      *)

Turned(t, r, a) == [t EXCEPT ![r] = [v |-> t[r].v + 1, alive |-> a]]

LEMMA Turns ==
    ASSUME NEW t \in Truths, NEW r \in Resources, NEW a \in BOOLEAN, t[r].v < MaxVersion,
           NEW u, u = Turned(t, r, a)
    PROVE  /\ u \in Truths /\ Grows(t, u)
           /\ u[r].v = t[r].v + 1 /\ u[r].v # 0 /\ u[r].alive = a /\ t[r].v \in Nat
           /\ \A q \in Resources : q # r => u[q] = t[q]
  <1> DEFINE x == [v |-> t[r].v + 1, alive |-> a]
  <1>1. t[r].v \in Versions /\ t[r].v \in Nat
    BY VersionsNat DEF Truths
  <1>2. t[r].v + 1 \in Versions /\ t[r].v + 1 # 0 /\ t[r].v < t[r].v + 1
    BY <1>1, VersionsNat
  <1>3. x \in [v : Versions, alive : BOOLEAN] /\ x.v = t[r].v + 1 /\ x.alive = a
    BY <1>2
  <1>4. u = [t EXCEPT ![r] = x]
    BY DEF Turned
  <1> HIDE DEF x
  <1>5. u \in Truths /\ \A q \in Resources : u[q] = IF q = r THEN x ELSE t[q]
    BY <1>3, <1>4 DEF Truths
  <1>6. Grows(t, u)
    BY <1>2, <1>3, <1>5 DEF Grows
  <1> QED BY <1>1, <1>2, <1>3, <1>5, <1>6

\* A version that Discord may give r: nothing outlives its channel.
Fits(r, alive) ==
    /\ truth[TheGuild].alive /\ (r = TheGuild => alive)
    /\ ~alive /\ r \in Of("channel") => \A m \in Of("message") : ~truth[m].alive
    /\ alive /\ r \in Of("message") => \A c \in Of("channel") : truth[c].alive

LEMMA BecomesTrue ==
    ASSUME JInv, Strict, NEW r \in Resources, NEW alive \in BOOLEAN, Becomes(r, alive),
           Fits(r, alive), out' = out, heard' = heard, box'.cache = box.cache
    PROVE  /\ Record' /\ truth' \in Truths /\ Grows(truth, truth')
           /\ truth'[r].v = truth[r].v + 1 /\ truth'[r].alive = alive
           /\ truth'[TheGuild].alive
  <1>1. /\ truth \in Truths /\ Sound(truth, out) /\ TrueWire(wire, truth)
        /\ TellsAll(wire, heard, truth, out) /\ Held(wire, box, truth, out)
        /\ wire \in Seq(Told) /\ Formed(wire)
    BY JParts
  <1>2. /\ truth[r].v < MaxVersion
        /\ truth' = Turned(truth, r, alive)
        /\ out => alive /\ r \in Carried \cup {TheGuild}
        /\ wire' = IF out THEN wire ELSE Append(wire, Dispatch(r, truth'))
    BY <1>1, StrictGuards DEF Becomes, Turned, Truths
  <1>3. /\ truth' \in Truths /\ Grows(truth, truth')
        /\ truth'[r].v = truth[r].v + 1 /\ truth'[r].v # 0 /\ truth'[r].alive = alive
        /\ \A q \in Resources : q # r => truth'[q] = truth[q]
    BY <1>1, <1>2, Turns
  <1>4. truth'[TheGuild].alive
    BY <1>3, Guild DEF Fits
  <1>5. Sound(truth', out')
    <2>1. \A q \in Resources : truth'[q].alive => truth'[q].v # 0
      BY <1>1, <1>3 DEF Sound
    <2>2. ASSUME NEW c \in Of("channel"), NEW m \in Of("message"), truth'[m].alive
          PROVE  truth'[c].alive
      <3>1. c \in Resources /\ m \in Resources /\ c # m
        BY Sorts DEF Of
      <3>2. CASE m = r
        BY <1>3, <2>2, <3>1, <3>2 DEF Fits
      <3>3. CASE c = r
        BY <1>3, <2>2, <3>1, <3>3 DEF Fits
      <3>4. CASE c # r /\ m # r
        BY <1>1, <1>3, <2>2, <3>1, <3>4 DEF Sound
      <3> QED BY <3>2, <3>3, <3>4
    <2> QED BY <1>4, <2>1, <2>2 DEF Sound
  <1>6. CASE out
    <2>1. wire' = wire /\ alive /\ r \in Carried \cup {TheGuild}
      BY <1>2, <1>6
    <2>2. TrueWire(wire, truth')
      BY <1>1, <1>3, GrowsWire
    <2>3. TellsAll(wire, heard, truth', TRUE)
      <3>1. TellsAll(wire, heard, truth, TRUE)
        BY <1>1, <1>6 DEF TellsAll, TellsOf
      <3>2. \A q \in Resources : \/ truth'[q] = truth[q]
                                 \/ truth'[q].alive /\ q \in Carried \cup {TheGuild}
        BY <1>3, <2>1
      <3> QED BY <1>1, <1>3, <3>1, <3>2, TellsLater
    <2>4. TellsAll(wire, heard, truth', out')
      BY <1>6, <2>3 DEF TellsAll, TellsOf
    <2>5. Held(wire', box', truth', out')
      BY <1>6 DEF Held
    <2> QED BY <1>3, <1>4, <1>5, <2>1, <2>2, <2>4, <2>5 DEF Record
  <1>7. CASE ~out
    <2> DEFINE e == Dispatch(r, truth')
    <2>1. wire' = Append(wire, e)
      BY <1>2, <1>7
    <2>2. r = TheGuild => truth'[r].alive
      BY <1>3 DEF Fits
    <2>3. e \in Told /\ e.type # "left" /\ \A q \in DOMAIN e.news : e.news[q] = truth'[q].v
      BY <1>3, <2>2, DispatchTells
    <2>4. /\ TrueEvent(e, truth') /\ r \in DOMAIN e.news
          /\ r \in Carried /\ truth'[r].alive => r \in e.live /\ e.type # "update"
      BY <1>3, <1>5, DispatchTrue
    <2> HIDE DEF e
    <2>5. Keeps(e, truth, truth', out, out')
      BY <1>3, <1>4, <1>7, <2>3, <2>4, Sorts DEF Fits, Keeps
    <2>6. Covers(e, truth, truth', out, out')
      BY <1>3, <1>7, <2>3, <2>4 DEF Covers
    <2>7. Record'
      BY <1>3, <1>4, <1>5, <1>7, <2>1, <2>3, <2>4, <2>5, <2>6, RecordSaid
    <2> QED BY <1>3, <1>4, <2>7
  <1> QED BY <1>6, <1>7

LEMMA WorldTrue ==
    ASSUME JInv, IInv', Record', truth' \in Truths, Grows(truth, truth'),
           UNCHANGED <<box, heard>>, Departed(wire', box', truth')
    PROVE  JInv'
  <1>1. /\ truth \in Truths /\ box \in Boxes
        /\ RealBox(box, truth) /\ RealWrite(box.write, truth, heard)
    BY JParts
  <1>2. box.write \in Write
    BY <1>1, BoxParts
  <1>3. RealBox(box, truth') /\ RealWrite(box.write, truth', heard)
    BY <1>1, <1>2, GrowsBox, GrowsWrite
  <1>4. RealBox(box', truth') /\ RealWrite(box'.write, truth', heard')
    BY <1>3
  <1> QED BY <1>4 DEF JInv

LEMMA ChangesFits ==
    ASSUME JInv, NEW r \in Resources, Visible(r)
    PROVE  Fits(r, TRUE)
  BY JParts DEF Fits, Visible, Sound

LEMMA VanishesFits ==
    ASSUME NEW r \in Resources, Vanishes(r)
    PROVE  Fits(r, FALSE) /\ Becomes(r, FALSE)
  BY DEF Fits, Vanishes, Visible, Inside, Of

LEMMA TruthTrue ==
    ASSUME JInv, Strict, NEW r \in Resources, Changes(r) \/ Appears(r) \/ Deleted(r)
    PROVE  JInv'
  <1>1. UNCHANGED <<out, box, heard>> /\ IInv'
    BY JParts, TruthStep DEF Changes, Appears, Deleted
  <1>2. PICK alive \in BOOLEAN : Becomes(r, alive) /\ Fits(r, alive)
    <2>1. CASE Changes(r)
      BY <2>1, ChangesFits DEF Changes
    <2>2. CASE Appears(r)
      BY <2>2 DEF Appears, Fits, Inside, Of
    <2>3. CASE Deleted(r)
      BY <2>3, VanishesFits DEF Deleted
    <2> QED BY <2>1, <2>2, <2>3
  <1>3. /\ Record' /\ truth' \in Truths /\ Grows(truth, truth')
        /\ truth'[TheGuild].alive
    BY <1>1, <1>2, BecomesTrue
  <1>4. Departed(wire', box', truth')
    BY <1>3 DEF Departed
  <1> QED BY <1>1, <1>3, <1>4, WorldTrue

LEMMA BotTrue ==
    ASSUME JInv, Strict, BotLeaves \/ BotJoins
    PROVE  JInv'
  <1>1. /\ UNCHANGED <<out, box, heard>> /\ IInv' /\ truth[TheGuild].v < MaxVersion
    BY JParts, BotStep DEF BotLeaves, BotJoins
  <1>2. /\ truth \in Truths /\ Sound(truth, out) /\ wire \in Seq(Told)
        /\ TheGuild \in Resources /\ TheGuild \notin Of("channel") /\ TheGuild \notin Of("message")
        /\ \A q \in Carried : q \in Resources /\ q # TheGuild
    BY JParts, Guild, Sorts
  <1>3. ASSUME NEW a \in BOOLEAN, truth' = Turned(truth, TheGuild, a), ~out
        PROVE  /\ truth' \in Truths /\ Grows(truth, truth') /\ truth'[TheGuild].v # 0
               /\ truth'[TheGuild].alive = a
               /\ \A q \in Resources : q # TheGuild => truth'[q] = truth[q]
               /\ Sound(truth', out')
    <2>1. /\ truth' \in Truths /\ Grows(truth, truth') /\ truth'[TheGuild].v # 0
          /\ truth'[TheGuild].alive = a
          /\ \A q \in Resources : q # TheGuild => truth'[q] = truth[q]
      BY <1>1, <1>2, <1>3, Turns
    <2>2. Sound(truth', out')
      <3>1. \A q \in Resources : truth'[q].alive => truth'[q].v # 0
        BY <1>2, <2>1 DEF Sound
      <3>2. ASSUME NEW c \in Of("channel"), NEW m \in Of("message"), truth'[m].alive
            PROVE  truth'[c].alive
        BY <1>2, <2>1, <3>2 DEF Sound, Of
      <3> QED BY <1>1, <1>3, <3>1, <3>2 DEF Sound
    <2> QED BY <2>1, <2>2
  <1>4. CASE BotLeaves
    <2>1. /\ truth' = Turned(truth, TheGuild, FALSE) /\ ~out /\ truth[TheGuild].alive
          /\ wire' = Append(wire, Says("left", {TheGuild}, truth', {}))
      BY <1>2, <1>4 DEF BotLeaves, Sends, Says, Turned, Truths
    <2>2. /\ truth' \in Truths /\ Grows(truth, truth') /\ ~truth'[TheGuild].alive
          /\ \A q \in Resources : q # TheGuild => truth'[q] = truth[q]
          /\ Sound(truth', out')
      BY <1>3, <2>1
    <2> DEFINE e == Says("left", {TheGuild}, truth', {})
    <2>3. wire' = Append(wire, e)
      BY <2>1
    <2>4. Tells(e, "left", {TheGuild}, truth', {})
      BY <1>2, <2>2, SaysTold DEF Events
    <2> HIDE DEF e
    <2>5. TrueEvent(e, truth')
      BY <1>2, <2>2, <2>4, TrueSays DEF Events
    <2>6. /\ e \in Told /\ e.type = "left" /\ DOMAIN e.news = {TheGuild}
          /\ e.news[TheGuild] = truth'[TheGuild].v
      BY <2>4 DEF Tells
    <2>7. Covers(e, truth, truth', out, out') /\ Keeps(e, truth, truth', out, out')
      BY <1>2, <2>1, <2>2, <2>6 DEF Covers, Keeps
    <2>8. Record'
      BY <1>1, <2>2, <2>3, <2>5, <2>6, <2>7, RecordSaid
    <2>9. Departed(wire', box', truth')
      <3>1. wire' # <<>> /\ Len(wire') = Len(wire) + 1 /\ wire'[Len(wire) + 1] = e
        BY <1>2, <2>3, <2>6, Joins
      <3> QED BY <2>6, <3>1 DEF Departed
    <2> QED BY <1>1, <2>2, <2>8, <2>9, WorldTrue
  <1>5. CASE BotJoins
    <2>1. /\ truth' = Turned(truth, TheGuild, TRUE) /\ ~truth[TheGuild].alive
          /\ wire' = Append(wire, Snapshot(truth'))
      BY <1>2, <1>5 DEF BotJoins, Sends, Turned, Truths
    <2>2. ~out
      BY <1>2, <2>1 DEF Sound
    <2>3. /\ truth' \in Truths /\ Grows(truth, truth') /\ truth'[TheGuild].alive
          /\ truth'[TheGuild].v # 0
          /\ \A q \in Resources : q # TheGuild => truth'[q] = truth[q]
          /\ Sound(truth', out')
      BY <1>3, <2>1, <2>2
    <2> DEFINE e == Snapshot(truth')
    <2>4. wire' = Append(wire, e)
      BY <2>1
    <2>5. e \in Told /\ \A q \in DOMAIN e.news : e.news[q] = truth'[q].v
      BY <2>3, SnapshotTells
    <2>6. /\ TrueEvent(e, truth') /\ e.type = "guild" /\ TheGuild \in DOMAIN e.news
          /\ \A q \in Carried : truth'[q].alive => q \in DOMAIN e.news /\ q \in e.live
      BY <2>3, SnapshotTrue
    <2> HIDE DEF e
    <2>7. Covers(e, truth, truth', out, out') /\ Keeps(e, truth, truth', out, out')
      BY <1>2, <2>2, <2>3, <2>5, <2>6 DEF Covers, Keeps
    <2>8. Record'
      BY <1>1, <2>3, <2>4, <2>5, <2>6, <2>7, RecordSaid
    <2>9. Departed(wire', box', truth')
      BY <2>3 DEF Departed
    <2> QED BY <1>1, <2>3, <2>8, <2>9, WorldTrue
  <1> QED BY <1>4, <1>5

LEMMA OutageTrue ==
    ASSUME JInv, Outage \/ OutageEnds
    PROVE  JInv'
  <1>1. /\ UNCHANGED <<truth, box, heard>> /\ IInv'
    BY JParts, OutageStep DEF Outage, OutageEnds
  <1>2. /\ truth \in Truths /\ Sound(truth, out) /\ IInv /\ truth[TheGuild].v # 0
        /\ TheGuild \in Resources
    BY JParts, Guild DEF IInv
  <1>3. truth[TheGuild].alive
    BY <1>2 DEF Outage, OutageEnds, Sound
  <1>4. /\ truth' \in Truths /\ Grows(truth, truth') /\ Sound(truth', out') /\ truth' = truth
        /\ Departed(wire', box', truth')
    BY <1>1, <1>2, <1>3 DEF Grows, Sound, Departed
  <1>5. CASE Outage
    <2> DEFINE e == Says("outage", {}, truth, {})
    <2>1. wire' = Append(wire, e) /\ ~out /\ out'
      BY <1>5 DEF Outage, Sends, Says
    <2>2. Tells(e, "outage", {}, truth, {})
      BY <1>2, SaysTold DEF Events
    <2> HIDE DEF e
    <2>3. TrueEvent(e, truth') /\ e \in Told /\ DOMAIN e.news = {}
      BY <1>2, <1>4, <2>2, TrueSays DEF Events, Tells
    <2>4. Covers(e, truth, truth', out, out') /\ Keeps(e, truth, truth', out, out')
      BY <1>3, <1>4, <2>1, <2>3 DEF Covers, Keeps
    <2>5. Record'
      BY <1>1, <1>4, <2>1, <2>3, <2>4, RecordSaid
    <2> QED BY <1>1, <1>4, <2>5, WorldTrue
  <1>6. CASE OutageEnds
    <2> DEFINE e == Snapshot(truth)
    <2>1. wire' = Append(wire, e) /\ ~out'
      BY <1>6 DEF OutageEnds, Sends
    <2>2. e \in Told /\ \A q \in DOMAIN e.news : e.news[q] = truth[q].v
      BY <1>2, SnapshotTells
    <2>3. /\ TrueEvent(e, truth) /\ e.type = "guild" /\ TheGuild \in DOMAIN e.news
          /\ \A q \in Carried : truth[q].alive => q \in DOMAIN e.news /\ q \in e.live
      BY <1>2, <1>3, SnapshotTrue
    <2> HIDE DEF e
    <2>4. TrueEvent(e, truth')
      BY <1>4, <2>3
    <2>5. Covers(e, truth, truth', out, out') /\ Keeps(e, truth, truth', out, out')
      BY <1>3, <1>4, <2>2, <2>3 DEF Covers, Keeps
    <2>6. Record'
      BY <1>1, <1>4, <2>1, <2>2, <2>4, <2>5, RecordSaid
    <2> QED BY <1>1, <1>4, <2>6, WorldTrue
  <1> QED BY <1>5, <1>6

LEMMA ObeysTrue ==
    ASSUME JInv, Strict, Obeys
    PROVE  JInv'
  <1> DEFINE w == box.write
             r == w.what
  <1>1. UNCHANGED <<out, heard>> /\ w.at = "asked" /\ IInv'
    BY JParts, ObeysStep DEF Obeys
  <1>2. /\ RealBox(box, truth) /\ box \in Boxes /\ truth \in Truths /\ Sane(w)
        /\ heard \in [Resources -> Versions] /\ Rises(wire, heard, truth)
    BY JParts
  <1>3. w \in Write /\ r \in Resources /\ w.op \in {"edit", "remove"}
    BY <1>1, <1>2, BoxParts DEF Write, Sane
  <1>4. CASE box' = [box EXCEPT !.write = NoWrite] /\ UNCHANGED <<truth, wire>>
    <2>1. /\ box'.cache = box.cache /\ box'.write = NoWrite /\ RealBox(box', truth)
          /\ (Bare(box) => Bare(box'))
      BY <1>2, <1>4, NoWriteTyped, RewritesTrue
    <2>2. RealWrite(box'.write, truth, heard)
      BY <2>1, NoWriteTyped DEF RealWrite
    <2> QED BY <1>1, <1>4, <2>1, <2>2, ClientTrue
  <1>5. CASE /\ Visible(r)
             /\ IF w.op = "edit" THEN Becomes(r, TRUE) ELSE Vanishes(r)
             /\ box' = [box EXCEPT !.write.at = "answered", !.write.v = truth'[r].v]
    <2> DEFINE y == [w EXCEPT !.at = "answered", !.v = truth'[r].v]
    <2>1. PICK alive \in BOOLEAN : /\ Becomes(r, alive) /\ Fits(r, alive)
                                   /\ alive = (w.op = "edit")
      <3>1. CASE w.op = "edit"
        <4> HIDE DEF r
        <4> QED BY <1>3, <1>5, <3>1, ChangesFits
      <3>2. CASE w.op # "edit"
        <4> HIDE DEF r
        <4> QED BY <1>3, <1>5, <3>2, VanishesFits
      <3> QED BY <3>1, <3>2
    <2>2. box' = [box EXCEPT !.write = y]
      BY <1>2, <1>5 DEF Boxes
    <2>3. box'.cache = box.cache
      BY <1>2, <2>2 DEF Boxes
    <2>4. /\ Record' /\ truth' \in Truths /\ Grows(truth, truth')
          /\ truth'[r].v = truth[r].v + 1 /\ truth'[r].alive = alive
          /\ truth'[TheGuild].alive
      <3> HIDE DEF r
      <3> QED BY <1>1, <1>3, <2>1, <2>3, BecomesTrue
    <2> DEFINE v == truth'[r].v
    <2>5. v \in Versions /\ v \in Nat /\ heard[r] \in Nat /\ heard[r] <= v
      <3>1. v \in Versions /\ v \in Nat /\ heard[r] \in Nat /\ truth[r].v \in Nat
        BY <1>2, <1>3, <2>4, VersionsNat DEF Truths
      <3>2. heard[r] <= truth[r].v
        BY <1>2, <1>3 DEF Rises
      <3>3. v = truth[r].v + 1
        BY <2>4
      <3> HIDE DEF v, r, w
      <3> QED BY <3>1, <3>2, <3>3
    <2>6. v <= truth'[r].v
      <3> HIDE DEF r
      <3> QED BY <2>5
    <2>7. y \in Write /\ y.at = "answered" /\ y.v = v /\ y.op = w.op /\ y.what = r
      <3> HIDE DEF w
      <3> QED BY <1>3, <2>5 DEF Write
    <2> HIDE DEF y
    <2>8. RealWrite(y, truth', heard)
      <3>1. y.op = "edit" => Real(y.v, truth'[y.what])
        BY <2>1, <2>4, <2>6, <2>7 DEF Real
      <3>2. y.op = "remove" => Ended(y.v, truth'[y.what])
        BY <2>1, <2>4, <2>6, <2>7 DEF Ended
      <3> QED BY <2>5, <2>7, <3>1, <3>2 DEF RealWrite
    <2>9. RealBox(box, truth')
      BY <1>2, <2>4, GrowsBox
    <2>10. RealBox(box', truth') /\ box'.write = y
      BY <1>2, <2>2, <2>7, <2>9, RewritesTrue
    <2>11. Departed(wire', box', truth') /\ RealWrite(box'.write, truth', heard')
      BY <1>1, <2>4, <2>8, <2>10 DEF Departed
    <2> QED BY <1>1, <2>4, <2>10, <2>11 DEF JInv
  <1> QED BY <1>4, <1>5 DEF Obeys

-----------------------------------------------------------------------------
(* What the caches mirror.                                                 *)

LEMMA InitTrue == Init => JInv
  <1> SUFFICES ASSUME Init PROVE JInv
    OBVIOUS
  <1> DEFINE e == Snapshot(truth)
  <1>1. IInv
    BY InitIInv
  <1>2. PICK older \in SUBSET Of("message") :
           truth = [r \in Resources |->
                      IF r \in Carried \cup {TheGuild} \cup older THEN [v |-> 1, alive |-> TRUE]
                                                                ELSE [v |-> 0, alive |-> FALSE]]
    BY DEF Init
  <1>3. /\ truth \in Truths /\ TheGuild \in Resources /\ Carried \subseteq Resources
        /\ Of("message") \subseteq Resources /\ box \in Boxes
    BY <1>1, Guild, Typed DEF IInv, Carried, Inside, Of
  <1>4. /\ \A r \in Carried \cup {TheGuild} : truth[r].v = 1 /\ truth[r].alive
        /\ \A r \in Resources : \/ truth[r].v = 1 /\ truth[r].alive
                                \/ truth[r].v = 0 /\ ~truth[r].alive
    BY <1>2, <1>3
  <1>5. \A r \in Resources : r \in Carried \cup {TheGuild} \/ r \in Of("message") \/ truth[r].v = 0
    BY <1>2, <1>3
  <1>6. ~out /\ wire = <<e>> /\ \A r \in Resources : heard[r] = 0
    BY DEF Init
  <1>7. /\ \A r \in Resources : box.cache[r] = 0 /\ box.flight[r] = NoFlight
        /\ box.write = NoWrite /\ NoFlight.at = "none" /\ NoWrite.at = "none"
    BY NoWriteTyped, FlightParts DEF Init
  <1>8. Sound(truth, out)
    <2>1. ASSUME NEW c \in Of("channel") PROVE c \in Carried
      BY Sorts, ResourcesAssumption DEF Of
    <2>2. \A r \in Resources : truth[r].alive => truth[r].v # 0
      BY <1>4
    <2> QED BY <1>4, <1>6, <2>1, <2>2 DEF Sound
  <1>9. /\ TrueEvent(e, truth) /\ e.type = "guild" /\ TheGuild \in DOMAIN e.news
        /\ \A r \in Carried : truth[r].alive => r \in DOMAIN e.news /\ r \in e.live
    BY <1>3, <1>4, <1>8, SnapshotTrue
  <1>10. e \in Told /\ \A r \in DOMAIN e.news : e.news[r] = truth[r].v
    BY <1>3, <1>4, SnapshotTells
  <1>11. DOMAIN e.news \cap Of("message") = {}
    <2>1. DOMAIN e.news = {TheGuild} \cup {r \in Carried : truth[r].alive}
      BY DEF Snapshot
    <2> QED BY <2>1, Sorts
  <1> HIDE DEF e
  <1>12. Len(wire) = 1 /\ wire[1] = e /\ wire # <<>>
    BY <1>6, <1>10
  <1>13. TrueWire(wire, truth)
    BY <1>9, <1>12 DEF TrueWire
  <1>14. ASSUME NEW r \in Resources PROVE TellsOf(wire, heard, truth, out, r)
    <2>1. CASE r \in Carried \cup {TheGuild}
      <3>1. 1 \in 1..Len(wire) /\ r \in DOMAIN wire[1].news /\ wire[1].news[r] = truth[r].v
        BY <1>4, <1>9, <1>10, <1>12, <2>1
      <3> QED BY <3>1 DEF TellsOf
    <2>2. CASE truth[r].v = 0
      BY <1>6, <2>2 DEF TellsOf
    <2>3. CASE r \in Of("message") /\ truth[r].v = 1 /\ truth[r].alive
      <3>1. \A i \in 1..Len(wire) : r \notin DOMAIN wire[i].news
        BY <1>11, <1>12, <2>3
      <3> QED BY <1>6, <2>3, <3>1 DEF TellsOf
    <2> QED BY <1>4, <1>5, <2>1, <2>2, <2>3
  <1>15. Held(wire, box, truth, out)
    <2> SUFFICES ASSUME NEW r \in Carried PROVE Brought(wire, box.cache[r], r, End(wire, truth))
      BY DEF Held
    <2>1. End(wire, truth) = 2 /\ 1 \in 1..2 - 1 /\ \A k \in 1 + 1..2 - 1 : FALSE
      BY <1>4, <1>12 DEF End
    <2> QED BY <1>4, <1>9, <1>12, <2>1 DEF Brought
  <1>16. Record
    BY <1>8, <1>13, <1>14, <1>15 DEF Record, TellsAll
  <1>17. RealBox(box, truth) /\ RealWrite(box.write, truth, heard) /\ Departed(wire, box, truth)
    BY <1>4, <1>7 DEF RealBox, RealWrite, Departed
  <1> QED BY <1>1, <1>16, <1>17 DEF JInv

LEMMA NextTrue ==
    ASSUME JInv, Strict, [Next]_vars
    PROVE  JInv'
  <1>1. CASE UNCHANGED vars
    BY <1>1 DEF JInv, IInv, TypeOK, Record, vars
  <1>2. CASE Discord
    BY <1>2, TruthTrue, ServesTrue, BotTrue, OutageTrue, ObeysTrue DEF Discord
  <1>3. CASE Receives
    BY <1>3, ReceivesTrue
  <1>4. CASE \E r \in Resources : Fetch(r) \/ Answers(r)
    BY <1>4, FetchTrue, AnswersTrue
  <1>5. CASE \E r \in Resources, op \in {"edit", "remove"} : Writes(r, op)
    BY <1>5, WritesTrue
  <1>6. CASE Written
    BY <1>6, WrittenTrue
  <1> QED BY <1>1, <1>2, <1>3, <1>4, <1>5, <1>6 DEF Next

LEMMA SpecTrue ==
    ASSUME Strict
    PROVE  Spec => []JInv
  <1>1. JInv /\ [Next]_vars => JInv'
    BY NextTrue
  <1> QED BY InitTrue, <1>1, PTL DEF Spec

\* The state is well typed, a key with no fetch has no flag, and of a guild that the bot
\* has left nothing is in a cache once the client has heard of it, nor comes back with an
\* answer (Client.handleDispatch, GUILD_DELETE).
THEOREM InvHolds ==
    ASSUME Strict
    PROVE  Spec => []Inv
  <1>1. JInv => Inv
    <2> SUFFICES ASSUME JInv PROVE Inv
      OBVIOUS
    <2>1. TypeOK /\ Departed(wire, box, truth)
      BY DEF JInv, IInv
    <2>2. LeftIsForgotten
      BY <2>1 DEF Departed, Bare, LeftIsForgotten
    <2> QED BY <2>1, <2>2 DEF Inv
  <1> QED BY <1>1, SpecTrue, PTL

\* Once nothing is on its way, the caches hold what Discord holds, at its version: nothing
\* that is gone, and all that the Gateway tells of in full (the managers' events).
THEOREM CachesMirror ==
    ASSUME Strict
    PROVE  Spec => []Mirrors
  <1>1. JInv => Mirrors
    <2> SUFFICES ASSUME JInv, Quiet, NEW r \in Resources
                 PROVE  /\ box.cache[r] # 0 => Visible(r) /\ box.cache[r] = truth[r].v
                        /\ Visible(r) /\ r \in Carried \cup {TheGuild} => box.cache[r] # 0
      BY DEF Mirrors
    <2>1. /\ ~out /\ wire = <<>> /\ Len(wire) = 0
      BY DEF Quiet
    <2>2. /\ RealBox(box, truth) /\ TellsAll(wire, heard, truth, out) /\ Held(wire, box, truth, out)
          /\ Departed(wire, box, truth) /\ Fresh(box, heard) /\ truth \in Truths
          /\ heard \in [Resources -> Versions] /\ box \in Boxes
          /\ Placed(wire, box.cache[TheGuild], truth[TheGuild].alive)
      BY JParts
    <2>3. CASE ~truth[TheGuild].alive
      BY <2>1, <2>2, <2>3 DEF Departed, Bare, Visible
    <2>4. CASE truth[TheGuild].alive
      <3>1. ASSUME box.cache[r] # 0 PROVE truth[r].alive /\ box.cache[r] = truth[r].v
        <4>1. box.cache[r] \in Nat /\ heard[r] \in Nat /\ truth[r].v \in Nat
          BY <2>2, BoxParts, VersionsNat DEF Truths
        <4>2. Real(box.cache[r], truth[r]) /\ box.cache[r] >= heard[r]
          BY <2>2, <3>1 DEF RealBox, Fresh, FreshAt
        <4>3. heard[r] = truth[r].v \/ (heard[r] = 0 /\ truth[r].v = 1 /\ truth[r].alive)
          BY <2>1, <2>2 DEF TellsAll, TellsOf
        <4>4. box.cache[r] = truth[r].v
          BY <3>1, <4>1, <4>2, <4>3 DEF Real
        <4> QED BY <4>2, <4>4 DEF Real
      <3>2. ASSUME r \in Carried, truth[r].alive PROVE box.cache[r] # 0
        <4>1. Brought(wire, box.cache[r], r, 1)
          BY <2>1, <2>2, <2>4, <3>2 DEF Held, End
        <4> QED BY <4>1 DEF Brought
      <3>3. ASSUME r = TheGuild PROVE box.cache[r] # 0
        <4>1. Guilded(wire, box.cache[r], 1)
          BY <2>1, <2>2, <2>4, <3>3 DEF Placed
        <4> QED BY <4>1 DEF Guilded
      <3> QED BY <2>4, <3>1, <3>2, <3>3 DEF Visible
    <2> QED BY <2>3, <2>4
  <1> QED BY <1>1, SpecTrue, PTL

=============================================================================
