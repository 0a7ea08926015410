---------------------------- MODULE VolatileMap -----------------------------
(***************************************************************************)
(* The MappingStore protocol (app/storage/base.py) as its callers may rely *)
(* on it: a map whose operations take effect at one instant, put_if_absent *)
(* included, and which may forget any record at any time.                  *)
(***************************************************************************)
CONSTANTS Keys, Records, None

VARIABLES
    held,       \* the record of each key, or None
    response    \* the last operation and what it returned

vars == <<held, response>>

Response(operation, k, result) == [operation |-> operation, key |-> k, result |-> result]

Init ==
    /\ held = [k \in Keys |-> None]
    /\ response = None

(* Every key of lost is forgotten. *)
Without(map, lost) == [k \in Keys |-> IF k \in lost THEN None ELSE map[k]]

Get(k) ==
    /\ response' = Response("get", k, held[k])
    /\ UNCHANGED held

Put(k, rec) ==
    /\ response' = Response("put", k, None)
    /\ \E lost \in SUBSET (Keys \ {k}) :
          held' = Without([held EXCEPT ![k] = rec], lost)

PutIfAbsent(k, rec) ==
    /\ response' = Response("put_if_absent", k, held[k] = None)
    /\ IF held[k] # None
       THEN UNCHANGED held
       ELSE \E lost \in SUBSET (Keys \ {k}) :
               held' = Without([held EXCEPT ![k] = rec], lost)

Forget ==
    /\ \E lost \in SUBSET Keys : held' = Without(held, lost)
    /\ UNCHANGED response

Next ==
    \/ \E k \in Keys : Get(k)
    \/ \E k \in Keys, rec \in Records : Put(k, rec) \/ PutIfAbsent(k, rec)
    \/ Forget

Spec == Init /\ [][Next]_vars
=============================================================================
