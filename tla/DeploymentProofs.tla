-------------------------- MODULE DeploymentProofs --------------------------
(***************************************************************************)
(* For any number of containers, workers, restarts and records, and every  *)
(* environment: the workers of a container share their secrets, records    *)
(* are readable, and only valid policies are in force.                     *)
(***************************************************************************)
EXTENDS Deployment, TLAPS

(* The key that a container has at its n-th start: by is <<container, n>>. *)
KeyAt(by) ==
    IF env.key = None THEN <<"generated", "key", by[1], by[2] - 1, 0>> ELSE env.key

(* The variables are functions of the containers, workers and ids. *)
Shape ==
    /\ env \in Environments
    /\ starts \in [Containers -> 0 .. MaxStarts]
    /\ DOMAIN exported = Containers
    /\ DOMAIN running = Containers /\ \A c \in Containers : DOMAIN running[c] = Workers
    /\ DOMAIN redis = Ids
    /\ DOMAIN memory = Containers
    /\ \A c \in Containers : /\ DOMAIN memory[c] = Workers
                             /\ \A w \in Workers : DOMAIN memory[c][w] = Ids

(* What a container exports is set, and its key is that of its last start. *)
ExportedSet ==
    \A c \in Containers :
       exported[c] # None => /\ exported[c].key # None
                             /\ exported[c].token # None
                             /\ exported[c].key = KeyAt(<<c, starts[c]>>)

(* A worker runs on what its container exports and on accepted policies. *)
WorkerBuilt(c, w) ==
    /\ exported[c] # None
    /\ w \in WorkersOf
    /\ running[c][w].codec = exported[c].key
    /\ running[c][w].process = exported[c].token
    /\ running[c][w].chat = exported[c].token
    /\ running[c][w].policies = ParsePolicies(env.config)
    /\ ParsePolicies(env.config) # None

WorkersBuilt ==
    \A c \in Containers, w \in Workers : running[c][w] # None => WorkerBuilt(c, w)

(* A blob in Redis was made for its id, with the key of the start that     *)
(* made it.                                                                *)
RedisMade ==
    \A id \in Ids :
       redis[id] # None => redis[id].id = id /\ redis[id].key = KeyAt(redis[id].by)

(* A blob in a memory was made for its id by the worker that holds it.     *)
MemoryMade ==
    \A c \in Containers, w \in Workers, id \in Ids :
       memory[c][w][id] # None => /\ running[c][w] # None
                                  /\ memory[c][w][id].id = id
                                  /\ memory[c][w][id].key = running[c][w].codec

DInv == Shape /\ ExportedSet /\ WorkersBuilt /\ RedisMade /\ MemoryMade

-----------------------------------------------------------------------------
LEMMA InitInv == Init => DInv
<1> SUFFICES ASSUME Init PROVE DInv
  OBVIOUS
<1> USE DeploymentAssumption DEF Init
<1>1. Shape
  BY DEF Shape, Empty
<1>2. ExportedSet /\ WorkersBuilt /\ RedisMade /\ MemoryMade
  BY DEF ExportedSet, WorkersBuilt, RedisMade, MemoryMade, Empty
<1> QED
  BY <1>1, <1>2 DEF DInv

(* What an entrypoint exports. *)
LEMMA ExportedKey ==
    ASSUME DInv, NEW c \in Containers, starts[c] < MaxStarts
    PROVE  /\ Exported(c).key # None
           /\ Exported(c).token # None
           /\ Exported(c).key = KeyAt(<<c, starts[c] + 1>>)
<1>1. starts[c] \in 0 .. MaxStarts /\ MaxStarts \in Nat /\ MaxWorkers \in Nat
  BY DeploymentAssumption DEF DInv, Shape
<1>2. /\ Generated("key", c, 0) # None
      /\ Generated("token", c, 0) # None
  BY <1>1, SecretAssumption DEF Generated
<1>3. Generated("key", c, 0) = <<"generated", "key", c, (starts[c] + 1) - 1, 0>>
  BY <1>1 DEF Generated
<1> QED
  BY <1>2, <1>3 DEF Exported, KeyAt

LEMMA StartContainerInv ==
    ASSUME DInv, NEW c \in Containers, StartContainer(c)
    PROVE  DInv'
<1> USE DEF DInv
<1>1. Shape'
  <2>1. starts' \in [Containers -> 0 .. MaxStarts]
    <3>1. starts[c] + 1 \in 0 .. MaxStarts
      BY DeploymentAssumption DEF Shape, StartContainer
    <3> QED
      BY <3>1 DEF Shape, StartContainer
  <2> QED
    BY <2>1 DEF Shape, StartContainer, Workers
<1>2. ExportedSet'
  <2> SUFFICES ASSUME NEW d \in Containers, exported'[d] # None
               PROVE  /\ exported'[d].key # None
                      /\ exported'[d].token # None
                      /\ exported'[d].key = KeyAt(<<d, starts[d]>>)'
    BY DEF ExportedSet
  <2>1. CASE d = c
    <3>1. exported'[d] = Exported(c) /\ starts'[d] = starts[c] + 1 /\ env' = env
      BY <2>1 DEF Shape, StartContainer
    <3>2. starts[c] < MaxStarts
      BY DEF StartContainer
    <3> QED
      BY <2>1, <3>1, <3>2, ExportedKey DEF KeyAt
  <2>2. CASE d # c
    BY <2>2 DEF Shape, StartContainer, ExportedSet, KeyAt
  <2> QED
    BY <2>1, <2>2
<1>3. WorkersBuilt'
  <2> SUFFICES ASSUME NEW d \in Containers, NEW w \in Workers, running'[d][w] # None
               PROVE  WorkerBuilt(d, w)'
    BY DEF WorkersBuilt, Workers
  <2>1. WorkerBuilt(d, w) /\ d # c
    BY DEF WorkersBuilt, WorkerBuilt, StartContainer
  <2>2. exported'[d] = exported[d]
    BY <2>1 DEF Shape, StartContainer
  <2> QED
    BY <2>1, <2>2 DEF WorkerBuilt, WorkersOf, StartContainer
<1>4. RedisMade' /\ MemoryMade'
  BY DEF StartContainer, RedisMade, MemoryMade, KeyAt, Workers
<1> QED
  BY <1>1, <1>2, <1>3, <1>4

LEMMA StartWorkerInv ==
    ASSUME DInv, NEW c \in Containers, NEW w \in Workers, StartWorker(c, w)
    PROVE  DInv'
<1> USE DEF DInv
<1>1. Shape'
  BY DEF Shape, StartWorker, Workers
<1>2. ExportedSet' /\ RedisMade'
  BY DEF StartWorker, ExportedSet, RedisMade, KeyAt
<1>3. ASSUME NEW d \in Containers, NEW v \in Workers, <<d, v>> # <<c, w>>
      PROVE  running'[d][v] = running[d][v]
  BY <1>3 DEF Shape, StartWorker
<1>4. running'[c][w] = Built(c, w)
  BY DEF Shape, StartWorker
<1>5. WorkersBuilt'
  <2> SUFFICES ASSUME NEW d \in Containers, NEW v \in Workers, running'[d][v] # None
               PROVE  WorkerBuilt(d, v)'
    BY DEF WorkersBuilt, Workers
  <2>1. CASE <<d, v>> = <<c, w>>
    <3>1. /\ running'[c][w].codec = exported[c].key
          /\ running'[c][w].process = exported[c].token
          /\ running'[c][w].chat = exported[c].token
          /\ running'[c][w].policies = ParsePolicies(env.config)
      <4>1. exported[c].key # None /\ exported[c].token # None
        BY DEF StartWorker, ExportedSet
      <4>2. Built(c, w) = [codec    |-> exported[c].key,
                           process  |-> exported[c].token,
                           chat     |-> exported[c].token,
                           policies |-> ParsePolicies(env.config)]
        BY <4>1 DEF Built, Secret
      <4> QED
        BY <1>4, <4>2
    <3> QED
      BY <2>1, <3>1 DEF StartWorker, WorkerBuilt, WorkersOf
  <2>2. CASE <<d, v>> # <<c, w>>
    BY <1>3, <2>2 DEF StartWorker, WorkersBuilt, WorkerBuilt, WorkersOf
  <2> QED
    BY <2>1, <2>2
<1>6. MemoryMade'
  <2> SUFFICES ASSUME NEW d \in Containers, NEW v \in Workers, NEW id \in Ids,
                      memory'[d][v][id] # None
               PROVE  /\ running'[d][v] # None
                      /\ memory'[d][v][id].id = id
                      /\ memory'[d][v][id].key = running'[d][v].codec
    BY DEF MemoryMade, Workers
  <2>1. memory'[d][v][id] = memory[d][v][id] /\ running[d][v] # None
    BY DEF StartWorker, MemoryMade
  <2>2. <<d, v>> # <<c, w>>
    BY <2>1 DEF StartWorker
  <2> QED
    BY <1>3, <2>1, <2>2 DEF MemoryMade
<1> QED
  BY <1>1, <1>2, <1>5, <1>6

LEMMA StopWorkerInv ==
    ASSUME DInv, NEW c \in Containers, NEW w \in Workers, StopWorker(c, w)
    PROVE  DInv'
<1> USE DEF DInv
<1>1. Shape'
  BY DEF Shape, StopWorker, Workers, Empty
<1>2. ExportedSet' /\ RedisMade'
  BY DEF StopWorker, ExportedSet, RedisMade, KeyAt
<1>3. ASSUME NEW d \in Containers, NEW v \in Workers
      PROVE  /\ running'[d][v] \in {None, running[d][v]}
             /\ running'[d][v] # running[d][v] => memory'[d][v] = Empty
             /\ memory'[d][v] \in {Empty, memory[d][v]}
  <2>1. CASE d = c /\ v = w
    BY <2>1 DEF Shape, StopWorker
  <2>2. CASE ~(d = c /\ v = w)
    BY <2>2 DEF Shape, StopWorker
  <2> QED
    BY <2>1, <2>2
<1>4. WorkersBuilt'
  BY <1>3 DEF StopWorker, WorkersBuilt, WorkerBuilt, WorkersOf, Workers
<1>5. MemoryMade'
  <2> SUFFICES ASSUME NEW d \in Containers, NEW v \in Workers, NEW id \in Ids,
                      memory'[d][v][id] # None
               PROVE  /\ running'[d][v] # None
                      /\ memory'[d][v][id].id = id
                      /\ memory'[d][v][id].key = running'[d][v].codec
    BY DEF MemoryMade, Workers
  <2>1. memory'[d][v] # Empty
    BY DEF Empty
  <2>2. memory'[d][v] = memory[d][v] /\ running'[d][v] = running[d][v]
    BY <1>3, <2>1
  <2> QED
    BY <2>2 DEF MemoryMade
<1> QED
  BY <1>1, <1>2, <1>4, <1>5

LEMMA StopContainerInv ==
    ASSUME DInv, NEW c \in Containers, StopContainer(c)
    PROVE  DInv'
<1> USE DEF DInv
<1>1. Shape'
  BY DEF Shape, StopContainer, Workers, Empty
<1>2. ASSUME NEW d \in Containers, d # c
      PROVE  exported'[d] = exported[d] /\ running'[d] = running[d] /\ memory'[d] = memory[d]
  BY <1>2 DEF Shape, StopContainer
<1>3. /\ exported'[c] = None
      /\ \A w \in Workers : running'[c][w] = None /\ \A id \in Ids : memory'[c][w][id] = None
  BY DEF Shape, StopContainer, Empty
<1>4. ExportedSet' /\ RedisMade'
  BY <1>2, <1>3 DEF StopContainer, ExportedSet, RedisMade, KeyAt
<1>5. WorkersBuilt'
  BY <1>2, <1>3 DEF StopContainer, WorkersBuilt, WorkerBuilt, WorkersOf, Workers
<1>6. MemoryMade'
  BY <1>2, <1>3 DEF MemoryMade, Workers
<1> QED
  BY <1>1, <1>4, <1>5, <1>6

LEMMA WriteRedisInv ==
    ASSUME DInv, NEW c \in Containers, NEW w \in Workers, NEW id \in Ids, NEW record \in Records,
           WriteRedis(c, w, id, record)
    PROVE  DInv'
<1> USE DEF DInv
<1> DEFINE blob == Encode(running[c][w].codec, id, record, <<c, starts[c]>>)
<1>1. Shape'
  BY DEF Shape, WriteRedis, Workers
<1>2. ExportedSet' /\ WorkersBuilt' /\ MemoryMade'
  BY DEF WriteRedis, ExportedSet, KeyAt, WorkersBuilt, WorkerBuilt, WorkersOf, MemoryMade, Workers
<1>3. running[c][w].codec = KeyAt(<<c, starts[c]>>)
  BY DEF WriteRedis, WorkersBuilt, WorkerBuilt, ExportedSet
<1>4. blob.id = id /\ blob.key = KeyAt(blob.by)
  BY <1>3 DEF Encode
<1>5. redis' = [redis EXCEPT ![id] = blob] /\ env' = env
  BY DEF WriteRedis
<1>6. RedisMade'
  <2> HIDE DEF blob
  <2> SUFFICES ASSUME NEW i \in Ids, redis'[i] # None
               PROVE  redis'[i].id = i /\ redis'[i].key = KeyAt(redis[i].by)'
    BY DEF RedisMade
  <2>1. CASE i = id
    <3>1. redis'[i] = blob
      BY <1>5, <2>1 DEF Shape
    <3> QED
      BY <1>4, <1>5, <2>1, <3>1 DEF KeyAt
  <2>2. CASE i # id
    BY <1>5, <2>2 DEF Shape, RedisMade, KeyAt
  <2> QED
    BY <2>1, <2>2
<1> QED
  BY <1>1, <1>2, <1>6

LEMMA WriteMemoryInv ==
    ASSUME DInv, NEW c \in Containers, NEW w \in Workers, NEW id \in Ids, NEW record \in Records,
           WriteMemory(c, w, id, record)
    PROVE  DInv'
<1> USE DEF DInv
<1> DEFINE blob == Encode(running[c][w].codec, id, record, <<c, starts[c]>>)
<1>1. Shape'
  BY DEF Shape, WriteMemory, Workers
<1>2. ExportedSet' /\ WorkersBuilt' /\ RedisMade'
  BY DEF WriteMemory, ExportedSet, KeyAt, WorkersBuilt, WorkerBuilt, WorkersOf, RedisMade, Workers
<1>3. blob.id = id /\ blob.key = running[c][w].codec
  BY DEF Encode
<1>4. memory' = [memory EXCEPT ![c][w][id] = blob] /\ running' = running
  BY DEF WriteMemory
<1>5. MemoryMade'
  <2> HIDE DEF blob
  <2> SUFFICES ASSUME NEW d \in Containers, NEW v \in Workers, NEW i \in Ids,
                      memory'[d][v][i] # None
               PROVE  /\ running'[d][v] # None
                      /\ memory'[d][v][i].id = i
                      /\ memory'[d][v][i].key = running'[d][v].codec
    BY DEF MemoryMade, Workers
  <2>1. CASE d = c /\ v = w /\ i = id
    <3>1. memory'[d][v][i] = blob
      BY <1>4, <2>1 DEF Shape
    <3> QED
      BY <1>3, <1>4, <2>1, <3>1 DEF WriteMemory
  <2>2. CASE ~(d = c /\ v = w /\ i = id)
    <3>1. memory'[d][v][i] = memory[d][v][i]
      BY <1>4, <2>2 DEF Shape
    <3> QED
      BY <1>4, <3>1 DEF MemoryMade
  <2> QED
    BY <2>1, <2>2
<1> QED
  BY <1>1, <1>2, <1>5

LEMMA LoseRedisInv == DInv /\ LoseRedis => DInv'
<1> SUFFICES ASSUME DInv, LoseRedis PROVE DInv'
  OBVIOUS
<1> USE DEF DInv
<1>1. PICK kept \in SUBSET Ids : redis' = [id \in Ids |-> IF id \in kept THEN redis[id] ELSE None]
  BY DEF LoseRedis
<1>2. Shape'
  BY <1>1 DEF Shape, LoseRedis, Workers
<1>3. ExportedSet' /\ WorkersBuilt' /\ MemoryMade'
  BY DEF LoseRedis, ExportedSet, KeyAt, WorkersBuilt, WorkerBuilt, WorkersOf, MemoryMade, Workers
<1>4. RedisMade'
  BY <1>1 DEF LoseRedis, RedisMade, KeyAt
<1> QED
  BY <1>2, <1>3, <1>4

LEMMA LoseMemoryInv ==
    ASSUME DInv, NEW c \in Containers, NEW w \in Workers, NEW id \in Ids, LoseMemory(c, w, id)
    PROVE  DInv'
<1> USE DEF DInv
<1>1. Shape'
  BY DEF Shape, LoseMemory, Workers
<1>2. ExportedSet' /\ WorkersBuilt' /\ RedisMade'
  BY DEF LoseMemory, ExportedSet, KeyAt, WorkersBuilt, WorkerBuilt, WorkersOf, RedisMade, Workers
<1>3. ASSUME NEW d \in Containers, NEW v \in Workers, NEW i \in Ids
      PROVE  memory'[d][v][i] \in {None, memory[d][v][i]}
  <2>1. CASE d = c /\ v = w /\ i = id
    BY <2>1 DEF Shape, LoseMemory
  <2>2. CASE ~(d = c /\ v = w /\ i = id)
    BY <2>2 DEF Shape, LoseMemory
  <2> QED
    BY <2>1, <2>2
<1>4. MemoryMade'
  BY <1>3 DEF LoseMemory, MemoryMade, Workers
<1> QED
  BY <1>1, <1>2, <1>4

LEMMA Inductive == DInv /\ [Next]_vars => DInv'
<1> SUFFICES ASSUME DInv, [Next]_vars PROVE DInv'
  OBVIOUS
<1>1. CASE \E c \in Containers : StartContainer(c) \/ StopContainer(c)
  BY <1>1, StartContainerInv, StopContainerInv
<1>2. CASE \E c \in Containers, w \in Workers : StartWorker(c, w) \/ StopWorker(c, w)
  BY <1>2, StartWorkerInv, StopWorkerInv
<1>3. CASE \E c \in Containers, w \in Workers, id \in Ids, record \in Records :
              WriteRedis(c, w, id, record) \/ WriteMemory(c, w, id, record)
  BY <1>3, WriteRedisInv, WriteMemoryInv
<1>4. CASE \E c \in Containers, w \in Workers, id \in Ids : LoseMemory(c, w, id)
  BY <1>4, LoseMemoryInv
<1>5. CASE LoseRedis
  BY <1>5, LoseRedisInv
<1>6. CASE UNCHANGED vars
  BY <1>6 DEF vars, DInv, Shape, ExportedSet, KeyAt, WorkersBuilt, WorkerBuilt, WorkersOf,
              RedisMade, MemoryMade, Workers
<1> QED
  BY <1>1, <1>2, <1>3, <1>4, <1>5, <1>6 DEF Next

LEMMA DInvCorrect == Spec => []DInv
<1> QED
  BY InitInv, Inductive, PTL DEF Spec

-----------------------------------------------------------------------------
(* Every worker of a container has the secrets that its container exports: *)
(* one key for the records, one for the tokens of /process and /chat       *)
(* (main.py, lifespan; entrypoint.sh).                                     *)
THEOREM SecretsCorrect == Spec => []SecretsShared
<1>1. DInv => SecretsShared
  BY DEF DInv, WorkersBuilt, WorkerBuilt, SecretsShared
<1> QED
  BY <1>1, DInvCorrect, PTL

LEMMA RedisIsReadable ==
    ASSUME DInv, NEW c \in Containers, NEW w \in Workers, running[c][w] # None
    PROVE  RedisReadable(c, w)
<1> SUFFICES ASSUME NEW id \in Ids, redis[id] # None,
                    env.key # None \/ redis[id].by = <<c, starts[c]>>
             PROVE  Decode(running[c][w].codec, id, redis[id]) = redis[id].record
  BY DEF RedisReadable
<1>1. running[c][w].codec = KeyAt(<<c, starts[c]>>)
  BY DEF DInv, WorkersBuilt, WorkerBuilt, ExportedSet
<1>2. redis[id].id = id /\ redis[id].key = KeyAt(redis[id].by)
  BY DEF DInv, RedisMade
<1>3. KeyAt(redis[id].by) = KeyAt(<<c, starts[c]>>)
  BY DEF KeyAt
<1> QED
  BY <1>1, <1>2, <1>3 DEF Decode

LEMMA MemoryIsOne ==
    ASSUME DInv, NEW c \in Containers, NEW w \in Workers, running[c][w] # None,
           env.backend # "redis"
    PROVE  OneMemory(c, w)
<1> SUFFICES ASSUME NEW v \in Workers, NEW id \in Ids, memory[c][v][id] # None
             PROVE  /\ memory[c][w][id] = memory[c][v][id]
                    /\ Decode(running[c][w].codec, id, memory[c][w][id]) = memory[c][w][id].record
  BY DEF OneMemory
<1>1. v \in WorkersOf /\ w \in WorkersOf
  BY DEF DInv, MemoryMade, WorkersBuilt, WorkerBuilt
<1>2. v = w
  BY <1>1 DEF WorkersOf
<1> QED
  BY <1>2 DEF DInv, MemoryMade, Decode

(* Whatever starts, stops and is lost, and in whichever order: what a      *)
(* worker finds it can decrypt, but for records of another container or an *)
(* earlier start where no key is configured (codec.py, decode).            *)
THEOREM ReadableCorrect == Spec => []RecordsReadable
<1>1. DInv => RecordsReadable
  BY RedisIsReadable, MemoryIsOne DEF RecordsReadable
<1> QED
  BY <1>1, DInvCorrect, PTL

-----------------------------------------------------------------------------
LEMMA RuleMade ==
    ASSUME NEW raw, RulesAccepted(raw)
    PROVE  /\ DOMAIN RulesOf(raw) \subseteq Types
           /\ \A t \in DOMAIN RulesOf(raw) : RulesOf(raw)[t].strategy \in Strategies
BY DEF RulesAccepted, RuleAccepted, RulesOf

(* A system that is accepted names only known types and applicable rules.  *)
LEMMA PolicyValid ==
    ASSUME NEW base, NEW spec,
           DOMAIN base \subseteq Types,
           \A t \in DOMAIN base : base[t].strategy \in Strategies,
           SystemAccepted(spec)
    PROVE  LET policy == SystemPolicy(base, spec)
           IN  /\ NamedTypes(policy) \subseteq Types
               /\ \A t \in Types : RuleFor(policy, t).strategy \in Strategies
<1> DEFINE policy == SystemPolicy(base, spec)
           own    == RulesOf(spec.masking)
<1>1. /\ DOMAIN own \subseteq Types
      /\ \A t \in DOMAIN own : own[t].strategy \in Strategies
  BY RuleMade DEF SystemAccepted
<1>2. /\ DOMAIN policy.rules = DOMAIN base \cup DOMAIN own
      /\ \A t \in DOMAIN policy.rules : policy.rules[t] = IF t \in DOMAIN own THEN own[t] ELSE base[t]
  BY DEF SystemPolicy
<1>3. policy.pd_types \subseteq Types
  BY DEF SystemPolicy, SystemAccepted
<1>4. /\ policy.combinations = spec.require_combination
      /\ DOMAIN policy.combinations \subseteq Types
      /\ \A s \in Range(policy.combinations) : s \subseteq Types
  BY DEF SystemPolicy, SystemAccepted, Range
<1>5. DOMAIN policy.rules \subseteq Types /\ \A t \in DOMAIN policy.rules : policy.rules[t].strategy \in Strategies
  BY <1>1, <1>2
<1> HIDE DEF policy
<1>6. NamedTypes(policy) \subseteq Types
  BY <1>3, <1>4, <1>5 DEF NamedTypes
<1>7. MaskRule([strategy |-> None, keep |-> None]).strategy \in Strategies
  BY StrategiesAssumption DEF MaskRule, OrDefault
<1>8. \A t \in Types : RuleFor(policy, t).strategy \in Strategies
  BY <1>5, <1>7 DEF RuleFor
<1> QED
  BY <1>6, <1>8 DEF policy

LEMMA RegistryValid ==
    ASSUME NEW data, ParsePolicies(data) # None
    PROVE  LET registry == ParsePolicies(data)
           IN  /\ registry.default_system \in DOMAIN registry.systems
               /\ \A policy \in Range(registry.systems) :
                     /\ NamedTypes(policy) \subseteq Types
                     /\ \A t \in Types : RuleFor(policy, t).strategy \in Strategies
<1> DEFINE base    == RulesOf(data.masking)
           default == OrDefault(data.default_system, "default")
           systems == [s \in DOMAIN data.systems |-> SystemPolicy(base, data.systems[s])]
<1>1. /\ RulesAccepted(data.masking)
      /\ \A s \in DOMAIN data.systems : SystemAccepted(data.systems[s])
      /\ default \in DOMAIN data.systems
      /\ ParsePolicies(data) = [default_system |-> default, systems |-> systems]
  BY DEF ParsePolicies
<1>2. /\ DOMAIN base \subseteq Types
      /\ \A t \in DOMAIN base : base[t].strategy \in Strategies
  BY <1>1, RuleMade
<1> HIDE DEF base, default
<1>3. ASSUME NEW policy \in Range(systems)
      PROVE  /\ NamedTypes(policy) \subseteq Types
             /\ \A t \in Types : RuleFor(policy, t).strategy \in Strategies
  <2>1. PICK s \in DOMAIN data.systems : policy = SystemPolicy(base, data.systems[s])
    BY <1>3 DEF Range
  <2> QED
    BY <1>1, <1>2, <2>1, PolicyValid
<1> QED
  BY <1>1, <1>3

(* No worker runs with a policy that names an unknown type, a strategy     *)
(* there is none of, or a default system that is not there (policy.py).    *)
THEOREM PoliciesCorrect == Spec => []OnlyValidPolicies
<1>1. DInv => OnlyValidPolicies
  <2> SUFFICES ASSUME DInv, NEW c \in Containers, NEW w \in Workers, running[c][w] # None
               PROVE  LET registry == running[c][w].policies
                      IN  /\ registry.default_system \in DOMAIN registry.systems
                          /\ \A policy \in Range(registry.systems) :
                                /\ NamedTypes(policy) \subseteq Types
                                /\ \A t \in Types : RuleFor(policy, t).strategy \in Strategies
    BY DEF OnlyValidPolicies
  <2>1. running[c][w].policies = ParsePolicies(env.config) /\ ParsePolicies(env.config) # None
    BY DEF DInv, WorkersBuilt, WorkerBuilt
  <2> QED
    BY <2>1, RegistryValid
<1> QED
  BY <1>1, DInvCorrect, PTL
=============================================================================
