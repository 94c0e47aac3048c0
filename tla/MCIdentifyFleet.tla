-------------------------- MODULE MCIdentifyFleet --------------------------
(* Three shards on two rate-limit keys: shards 0 and 2 share a key and are   *)
(* in different clusters, shard 1 shares its cluster with shard 0.           *)
EXTENDS IdentifyFleet, TLC

MCOwnerOf == 0 :> "A" @@ 1 :> "A" @@ 2 :> "B"
=============================================================================
