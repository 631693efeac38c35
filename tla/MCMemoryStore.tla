---------------------------- MODULE MCMemoryStore ----------------------------
(* Two snapshots of one workload, two calls of Stop, and a store with and  *)
(* without a TTL.                                                          *)
EXTENDS MemoryStore

MCWorkloadOf == [p \in Puts |-> "web"]
==============================================================================
