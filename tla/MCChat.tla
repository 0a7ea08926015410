------------------------------- MODULE MCChat -------------------------------
(* Two calls at once, two messages that share a person, and the kinds of   *)
(* systems of config/systems.yaml: llm-demo (tokens), default (stars),     *)
(* analytics (no unmasking), legacy-crm (disabled).                        *)
EXTENDS ChatProxy, TLC

CONSTANTS c1, c2

MCMessages   == {"ann", "ann and bob", "odd", "huge"}
MCTooLong    == {"huge"}
MCSystems    == {"llm-demo", "default", "analytics", "legacy-crm"}
MCEnabled    == MCSystems \ {"legacy-crm"}
MCUnmaskers  == MCSystems \ {"analytics"}
MCValues     == {"Ann", "Bob"}
MCDataOf(m, s) ==
    CASE m = "ann" -> {"Ann"} [] m = "ann and bob" -> {"Ann", "Bob"} [] OTHER -> {}
MCLabelOf(v, s) == IF s = "llm-demo" THEN v ELSE "***"
MCRedetected == {<<"odd", s>> : s \in MCSystems}

Symmetric == Permutations({c1, c2})
=============================================================================
