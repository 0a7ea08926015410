----------------------------- MODULE MCProcess ------------------------------
(* Small values for the constants of ProcessProperties. *)
EXTENDS ProcessProperties, TLC

CONSTANTS id1, id2, r1, r2, r3, w1, w2

(* Three systems: two that may unmask and mask differently, one that may   *)
(* not, as default, support-bot and analytics do; and a disabled one.      *)
MCSystems   == {"default", "bot", "analytics", "legacy"}
MCEnabled   == {"default", "bot", "analytics"}
MCUnmaskers == {"default", "bot", "legacy"}
TwoSystems  == {"default", "analytics"}
OneSystem   == {"default"}

Text(form, of, by) == [form |-> form, of |-> of, by |-> by]
Plain(o)    == Text("text", o, "")        \* a client's text about o
Mask(o, s)  == Text("mask", o, s)         \* its mask
Said(o, s)  == Text("reply", o, s)        \* an LLM reply with labels of the mask
Told(o)     == Text("restored", o, "")    \* that reply with the labels replaced
Chatter     == Text("chatter", "", "")    \* a text without personal data

Subjects == {"ann", "bob"}
MCTexts  == {Text(f, o, "") : f \in {"text", "restored"}, o \in Subjects}
               \cup {Text(f, o, s) : f \in {"mask", "reply"}, o \in Subjects,
                                     s \in MCSystems}
               \cup {Chatter}
(* The texts that can occur when there is one text and TwoSystems. *)
AnnsTexts == {t \in MCTexts : t.of = "ann" /\ t.by \in {""} \cup TwoSystems}
Fragment(o, s) == <<o, s>>
MCFragmentSets == {{}} \cup {{Fragment(o, s)} : o \in Subjects, s \in MCSystems}

HasData(t) == t.form \in {"text", "restored"}
MCMaskOf(t, s) ==
    CASE t.form = "text"     -> Mask(t.of, s)
      [] t.form = "restored" -> Said(t.of, s)
      [] OTHER               -> t
MCFragmentsOf(t, s) == IF HasData(t) THEN {Fragment(t.of, s)} ELSE {}
MCUnmaskFragments(t, f) ==
    IF Fragment(t.of, t.by) \in f
    THEN [text |-> IF t.form = "mask" THEN Plain(t.of) ELSE Told(t.of),
          replaced |-> TRUE]
    ELSE [text |-> t, replaced |-> FALSE]

(* What comes back under the same payload_id after a mask was answered.    *)
MaskAndReply(t)  == IF t.form = "mask" THEN {t, Said(t.of, t.by)} ELSE {t}
NoEcho(t)        == {}
WithChatter(t)   == MaskAndReply(t) \cup {Chatter}

OneText  == {<<id1, Plain("ann")>>}
TwoTexts == {<<id1, Plain("ann")>>, <<id1, Plain("bob")>>}
(* Under the second key a client submits what is a mask under the first.   *)
MixedKeys == {<<id1, Plain("ann")>>, <<id2, Mask("ann", "default")>>}

Symmetric == Permutations({r1, r2, r3}) \cup Permutations({w1, w2})
=============================================================================
