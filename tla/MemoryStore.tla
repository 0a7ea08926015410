---------------------------- MODULE MemoryStore -----------------------------
(***************************************************************************)
(* app/storage/memory.py: the in-process store with a TTL and a bound on   *)
(* the number of records.  No operation suspends, so each is atomic in its *)
(* event loop.  The OrderedDict _data is the pair of entry (what it maps a *)
(* key to) and order (the keys, oldest first); the clock only moves        *)
(* forward (time.monotonic).  Encryption is out of this picture: the codec *)
(* returns the record it was given for the same key.                       *)
(***************************************************************************)
EXTENDS Naturals, Sequences, FiniteSets, SequencesExt

CONSTANTS
    Keys, Records, None,
    Ttl,         \* ttl_seconds
    MaxItems,    \* max_items
    MaxTime      \* bound on the clock

ASSUME StoreAssumption ==
    /\ Ttl \in Nat /\ MaxItems \in Nat \ {0} /\ MaxTime \in Nat
    /\ None \notin Records
    /\ None \notin [expires: 0 .. MaxTime + Ttl, record: Records]

VARIABLES
    now,        \* time.monotonic()
    entry,      \* _data: expiry and record of each key, or None
    order,      \* the order of _data
    response,   \* the last operation and its result
    since       \* history: for each key, the other keys written after it

vars == <<now, entry, order, response, since>>

Response(operation, k, result) == [operation |-> operation, key |-> k, result |-> result]
Stored == {k \in Keys : entry[k] # None}

Init ==
    /\ now = 0
    /\ entry = [k \in Keys |-> None]
    /\ order = <<>>
    /\ response = None
    /\ since = [k \in Keys |-> {}]

-----------------------------------------------------------------------------
Expired(k) == entry[k] # None /\ entry[k].expires < now

(* What get answers: an expired entry counts as absent. *)
Lookup(k) == IF entry[k] = None \/ Expired(k) THEN None ELSE entry[k].record

(* MUTANT of MovedToEnd: a rewritten key is listed twice. *)
AppendedAgain(s, k) == Append(s, k)

(* OrderedDict.move_to_end, for a key that is there or is new. *)
MovedToEnd(s, k) == Append(RemoveFirst(s, k), k)

(* MUTANT of Excess: one key too many goes. *)
ExcessOneMore(s) == IF Len(s) >= MaxItems THEN Len(s) - MaxItems + 1 ELSE 0

(* How many rounds of popitem(last=False) there are. *)
Excess(s) == IF Len(s) > MaxItems THEN Len(s) - MaxItems ELSE 0

(* put on the order o: the key goes to the end, then the oldest keys go. *)
Write(k, rec, o) ==
    LET moved == MovedToEnd(o, k)
        gone  == {moved[i] : i \in 1 .. Excess(moved)}
    IN  /\ entry' = [j \in Keys |->
                       IF j \in gone THEN None
                       ELSE IF j = k THEN [expires |-> now + Ttl, record |-> rec]
                       ELSE entry[j]]
        /\ order' = SubSeq(moved, Excess(moved) + 1, Len(moved))
        /\ since' = [j \in Keys |-> IF j = k THEN {} ELSE since[j] \cup {k}]

(* get drops an entry that it finds expired, and leaves the order alone    *)
(* when it finds a live one.                                               *)
Get(k) ==
    /\ response' = Response("get", k, Lookup(k))
    /\ IF Expired(k)
       THEN /\ entry' = [entry EXCEPT ![k] = None]
            /\ order' = RemoveFirst(order, k)
       ELSE UNCHANGED <<entry, order>>
    /\ UNCHANGED <<now, since>>

Put(k, rec) ==
    /\ response' = Response("put", k, None)
    /\ Write(k, rec, order)
    /\ UNCHANGED now

(* MUTANT of PutIfAbsent: an expired entry blocks the key. *)
PutIfNoEntry(k, rec) ==
    /\ response' = Response("put_if_absent", k, entry[k] = None)
    /\ IF entry[k] # None THEN UNCHANGED <<entry, order, since>>
                          ELSE Write(k, rec, order)
    /\ UNCHANGED now

(* put_if_absent: get, and put when it found nothing. *)
PutIfAbsent(k, rec) ==
    /\ response' = Response("put_if_absent", k, Lookup(k) = None)
    /\ IF Lookup(k) # None
       THEN UNCHANGED <<entry, order, since>>
       ELSE Write(k, rec, RemoveFirst(order, k))
    /\ UNCHANGED now

Close ==
    /\ entry' = [k \in Keys |-> None]
    /\ order' = <<>>
    /\ since' = [k \in Keys |-> {}]
    /\ UNCHANGED <<now, response>>

Tick ==
    /\ now < MaxTime
    /\ now' = now + 1
    /\ UNCHANGED <<entry, order, response, since>>

Next ==
    \/ \E k \in Keys : Get(k)
    \/ \E k \in Keys, rec \in Records : Put(k, rec) \/ PutIfAbsent(k, rec)
    \/ Close
    \/ Tick

Spec == Init /\ [][Next]_vars

-----------------------------------------------------------------------------
Results == Records \cup {None} \cup BOOLEAN

(* Types, and the representation: order lists each stored key once and     *)
(* never more than max_items of them.                                      *)
TypeOK ==
    /\ now \in 0 .. MaxTime
    /\ entry \in [Keys -> [expires: 0 .. MaxTime + Ttl, record: Records] \cup {None}]
    /\ Range(order) = Stored /\ Len(order) = Cardinality(Stored)
    /\ Len(order) <= MaxItems
    /\ response = None \/ response.result \in Results

(* A record that was written can be read back until its TTL has passed or  *)
(* max_items other keys have been written since: expired entries that      *)
(* still take up room never cost a live record its place earlier.  A key   *)
(* never written, or closed away, promises nothing.                        *)
Retained ==
    [][\A k \in Keys :
          Lookup(k) # None =>
             \/ Lookup(k)' # None
             \/ now' > entry[k].expires
             \/ Cardinality(since'[k]) >= MaxItems
             \/ order' = <<>>]_vars

(* The TTL and the bound are invisible but for forgetting: the store keeps *)
(* the contract of the protocol, with the operations atomic and every      *)
(* answered record the last one written.                                   *)
Contract == INSTANCE VolatileMap WITH held <- [k \in Keys |-> Lookup(k)]
ContractKept == Contract!Spec
=============================================================================
