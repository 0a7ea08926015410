--------------------------- MODULE MCMemoryStore ----------------------------
(* Three keys for two places, two records, a clock that outlives two TTLs. *)
EXTENDS MemoryStore
CONSTANTS k1, k2, k3, a, b
=============================================================================
