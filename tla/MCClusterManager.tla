-------------------------- MODULE MCClusterManager --------------------------
\* A small instance of ClusterManager: a shard for each cluster.
EXTENDS ClusterManager

MCPlan == [s \in Shards |-> s]

=============================================================================
