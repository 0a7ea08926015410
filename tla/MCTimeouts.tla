----------------------------- MODULE MCTimeouts -----------------------------
(* MCProcess for clients that use a payload_id for one text: the constants *)
(* meet the discipline that the theorems of TimeoutProofs suppose.         *)
EXTENDS MCProcess

ASSUME ClientsAreDisciplined == OneTextDiscipline
=============================================================================
