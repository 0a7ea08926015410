---------------------------- MODULE MCDeployment ----------------------------
(* Two containers of two workers; deployments with and without Redis and   *)
(* secrets, and configurations with a mistake in each place of the YAML.   *)
EXTENDS Deployment, TLC

CONSTANT Configured    \* one that .env sets

MCTypes      == {"fio", "pin", "card_number"}
MCStrategies == {"full", "token"}

Rule(strategy) == [strategy |-> strategy, keep |-> None]
NoRules        == <<>>
System(types, rules, combinations) ==
    [enabled |-> None, pd_types |-> types, unmask |-> None, masking |-> rules,
     require_combination |-> combinations]

Bot == System({"fio", "pin", "card_number"}, "fio" :> Rule("token"), "pin" :> {"card_number"})
Config(default, bot) ==
    [default_system |-> default, masking |-> "fio" :> Rule(None),
     systems |-> ("default" :> System(None, NoRules, NoRules)) @@ ("bot" :> bot)]

GoodConfig == Config(None, Bot)
BadConfigs == {
    Config("legacy", Bot),
    Config(None, [Bot EXCEPT !.pd_types = {"fio", "pni"}]),
    Config(None, [Bot EXCEPT !.masking = "fio" :> Rule("tokens")]),
    Config(None, [Bot EXCEPT !.masking = "foi" :> Rule("token")]),
    Config(None, [Bot EXCEPT !.require_combination = "pin" :> {"card"}])}

Environment(backend, key, token, config) ==
    [backend |-> backend, key |-> key, token |-> token, workers |-> MaxWorkers, config |-> config]

MCEnvironments ==
    {Environment(b, k, t, GoodConfig) :
        b \in {"redis", "memory"}, k \in {None, Configured, Malformed}, t \in {None, Configured}}
    \cup {Environment("redis", Configured, Configured, c) : c \in BadConfigs}
=============================================================================
