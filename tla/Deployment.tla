----------------------------- MODULE Deployment -----------------------------
(***************************************************************************)
(* The life of the service around its requests: scripts/entrypoint.sh, the *)
(* lifespan of app/main.py, RecordCodec, and the containers of             *)
(* docker-compose.yml.  Containers and workers start, die and start again  *)
(* while Redis keeps what they wrote, so the secrets that one worker       *)
(* masks and encrypts with must be those of the worker that reads.         *)
(***************************************************************************)
EXTENDS PolicyConfig

CONSTANTS
    Containers,     \* of the api, that share Redis
    MaxWorkers,     \* bound on WORKERS
    Ids,            \* payload_id
    Records,        \* MappingRecord
    Malformed,      \* a secret that is not base64 of 32 bytes
    Environments,   \* .env and systems.yaml that a deployment may have
    MaxStarts       \* bound on the starts of a container

ASSUME DeploymentAssumption ==
    /\ MaxWorkers \in Nat \ {0} /\ MaxStarts \in Nat
    /\ \A e \in Environments : e.workers \in 1 .. MaxWorkers

(* A secret that is generated is one. *)
ASSUME SecretAssumption ==
    \A name \in {"key", "token", "process", "chat"}, c \in Containers,
       n \in 0 .. MaxStarts, w \in 0 .. MaxWorkers :
          <<"generated", name, c, n, w>> # None

VARIABLES
    env,        \* of all containers
    starts,     \* how often a container has started
    exported,   \* what its entrypoint exports: the secrets
    running,    \* its workers: what lifespan has built
    redis,      \* blobs by payload_id
    memory      \* and those of each worker's MemoryStore

vars == <<env, starts, exported, running, redis, memory>>

Workers == 1 .. MaxWorkers
Empty   == [id \in Ids |-> None]

-----------------------------------------------------------------------------
(* RecordCodec: AES-GCM, whose tag fails for any other key or payload_id.  *)
(* by is history: the container that wrote it, and its start.              *)
Encode(key, id, record, by) == [key |-> key, id |-> id, record |-> record, by |-> by]

Decode(key, id, blob) == IF blob.key = key /\ blob.id = id THEN blob.record ELSE "InvalidTag"

(* decode_key: base64 of 32 bytes, or nothing. *)
DecodesKey(raw) == raw # Malformed

-----------------------------------------------------------------------------
(* gen_key of the entrypoint and os.urandom of _secret: one is not like    *)
(* another.  (w is 0 for the entrypoint.)                                  *)
Generated(name, c, w) == <<"generated", name, c, starts[c], w>>

(* MUTANT of Exported: the entrypoint forgets to export what it generates. *)
NotExported(c) == [key |-> env.key, token |-> env.token]

(* MUTANT of Exported: it overwrites what is set. *)
AlwaysGenerated(c) == [key |-> Generated("key", c, 0), token |-> Generated("token", c, 0)]

Exported(c) ==
    [key   |-> IF env.key = None THEN Generated("key", c, 0) ELSE env.key,
     token |-> IF env.token = None THEN Generated("token", c, 0) ELSE env.token]

(* One worker, unless the store is shared. *)
WorkersOf == IF env.backend # "redis" THEN {1} ELSE 1 .. env.workers

(* _secret: of no secret, a random one. *)
Secret(raw, name, c, w) == IF raw = None THEN Generated(name, c, w) ELSE raw

(* lifespan: the codec, the maskers of Processor and ChatProxy, the rules. *)
Built(c, w) ==
    [codec    |-> Secret(exported[c].key, "key", c, w),
     process  |-> Secret(exported[c].token, "process", c, w),
     chat     |-> Secret(exported[c].token, "chat", c, w),
     policies |-> ParsePolicies(env.config)]

-----------------------------------------------------------------------------
Init ==
    /\ env \in Environments
    /\ starts = [c \in Containers |-> 0]
    /\ exported = [c \in Containers |-> None]
    /\ running = [c \in Containers |-> [w \in Workers |-> None]]
    /\ redis = Empty
    /\ memory = [c \in Containers |-> [w \in Workers |-> Empty]]

(* The entrypoint, up to uvicorn; also when docker restarts a container. *)
StartContainer(c) ==
    /\ exported[c] = None /\ starts[c] < MaxStarts
    /\ starts' = [starts EXCEPT ![c] = @ + 1]
    /\ exported' = [exported EXCEPT ![c] = Exported(c)]
    /\ UNCHANGED <<env, running, redis, memory>>

(* uvicorn starts its workers, and again those that have died.  A secret   *)
(* or a configuration that cannot be read ends the start of a worker.      *)
StartWorker(c, w) ==
    /\ exported[c] # None /\ w \in WorkersOf /\ running[c][w] = None
    /\ DecodesKey(exported[c].key) /\ DecodesKey(exported[c].token)
    /\ ParsePolicies(env.config) # None
    /\ running' = [running EXCEPT ![c][w] = Built(c, w)]
    /\ UNCHANGED <<env, starts, exported, redis, memory>>

(* A worker's memory goes with it: so does what close() clears. *)
StopWorker(c, w) ==
    /\ running[c][w] # None
    /\ running' = [running EXCEPT ![c][w] = None]
    /\ memory' = [memory EXCEPT ![c][w] = Empty]
    /\ UNCHANGED <<env, starts, exported, redis>>

StopContainer(c) ==
    /\ exported[c] # None
    /\ exported' = [exported EXCEPT ![c] = None]
    /\ running' = [running EXCEPT ![c] = [w \in Workers |-> None]]
    /\ memory' = [memory EXCEPT ![c] = [w \in Workers |-> Empty]]
    /\ UNCHANGED <<env, starts, redis>>

-----------------------------------------------------------------------------
(* put, and put_if_absent where nothing is: on Redis or, with the memory   *)
(* backend or in a failover, in the worker's memory (build_store).         *)
WriteRedis(c, w, id, record) ==
    /\ running[c][w] # None /\ env.backend = "redis"
    /\ redis' = [redis EXCEPT ![id] = Encode(running[c][w].codec, id, record, <<c, starts[c]>>)]
    /\ UNCHANGED <<env, starts, exported, running, memory>>

WriteMemory(c, w, id, record) ==
    /\ running[c][w] # None
    /\ memory' = [memory EXCEPT ![c][w][id] =
                    Encode(running[c][w].codec, id, record, <<c, starts[c]>>)]
    /\ UNCHANGED <<env, starts, exported, running, redis>>

(* The TTL of a record, volatile-ttl, a restart of Redis: nothing is on    *)
(* disk.                                                                   *)
LoseRedis ==
    /\ \E kept \in SUBSET Ids : redis' = [id \in Ids |-> IF id \in kept THEN redis[id] ELSE None]
    /\ redis' # redis
    /\ UNCHANGED <<env, starts, exported, running, memory>>

LoseMemory(c, w, id) ==
    /\ memory[c][w][id] # None
    /\ memory' = [memory EXCEPT ![c][w][id] = None]
    /\ UNCHANGED <<env, starts, exported, running, redis>>

Next ==
    \/ \E c \in Containers : StartContainer(c) \/ StopContainer(c)
    \/ \E c \in Containers, w \in Workers :
          \/ StartWorker(c, w) \/ StopWorker(c, w)
          \/ \E id \in Ids, record \in Records : WriteRedis(c, w, id, record) \/ WriteMemory(c, w, id, record)
          \/ \E id \in Ids : LoseMemory(c, w, id)
    \/ LoseRedis

Spec == Init /\ [][Next]_vars
-----------------------------------------------------------------------------
(* All workers of a container encrypt with one key and make one token of a *)
(* value, in /process and in /chat, whenever they were started and whether *)
(* or not .env has the secrets: a request may go to any of them.           *)
SecretsShared ==
    \A c \in Containers : \A v, w \in {u \in Workers : running[c][u] # None} :
       /\ running[c][v].codec = running[c][w].codec
       /\ running[c][v].process = running[c][w].chat

(* What has been stored is found and read by whichever worker is asked for *)
(* it.  A record in Redis is readable whoever wrote it - or, if no key is  *)
(* configured, at least those that the worker's own container has written  *)
(* since it started; the others end the request in 500.  Without Redis the *)
(* workers of a container have one memory: there is only one.              *)
RedisReadable(c, w) ==
    \A id \in Ids :
       redis[id] # None =>
          \/ Decode(running[c][w].codec, id, redis[id]) = redis[id].record
          \/ env.key = None /\ redis[id].by # <<c, starts[c]>>

OneMemory(c, w) ==
    \A v \in Workers, id \in Ids :
       memory[c][v][id] # None =>
          /\ memory[c][w][id] = memory[c][v][id]
          /\ Decode(running[c][w].codec, id, memory[c][w][id]) = memory[c][w][id].record

RecordsReadable ==
    \A c \in Containers : \A w \in {u \in Workers : running[c][u] # None} :
       IF env.backend = "redis" THEN RedisReadable(c, w) ELSE OneMemory(c, w)

(* "ошибка в имени типа или стратегии не даст сервису запуститься с        *)
(* неверными правилами" (policy.py:5): a worker that runs has a default    *)
(* system, and every type that its systems name is one that is detected,   *)
(* with a rule that can be applied.                                        *)
NamedTypes(policy) ==
    policy.pd_types \cup DOMAIN policy.rules \cup DOMAIN policy.combinations
       \cup UNION Range(policy.combinations)

OnlyValidPolicies ==
    \A c \in Containers, w \in Workers :
       running[c][w] # None =>
          LET registry == running[c][w].policies
          IN  /\ registry.default_system \in DOMAIN registry.systems
              /\ \A policy \in Range(registry.systems) :
                    /\ NamedTypes(policy) \subseteq Types
                    /\ \A t \in Types : RuleFor(policy, t).strategy \in Strategies
=============================================================================
