---------------------------- MODULE MCAdmission -----------------------------
EXTENDS WorkerAdmission, TLC
CONSTANTS q1, q2, q3, q4, p1, p2
Symmetric == Permutations({q1, q2, q3, q4}) \cup Permutations({p1, p2})
=============================================================================
