----------------------------- MODULE MCMasking ------------------------------
(* Texts of up to four characters with up to two entities. *)
EXTENDS Masking

Rule(strategy, start, end) == [strategy |-> strategy, start |-> start, end |-> end]
MCRules == {Rule("full", 0, 0), Rule("partial", 1, 0), Rule("partial", 1, 1),
            Rule("initials", 0, 0), Rule("email", 0, 0), Rule("synthetic", 0, 0),
            Rule("token", 0, 0), Rule("redact", 0, 0)}
=============================================================================
