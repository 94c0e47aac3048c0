------------------------- MODULE MCRequestScheduler -------------------------
(* A small instance: four requests on two routes, which turn out to share a  *)
(* bucket; only a response reveals it.                                       *)
EXTENDS RequestScheduler, TLC

MCRouteOf == "r1" :> "a" @@ "r2" :> "a" @@ "r3" :> "b" @@ "r4" :> "a"
MCBucketOf == "a" :> "h" @@ "b" :> "h"
=============================================================================
