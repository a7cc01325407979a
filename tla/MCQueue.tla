------------------------------ MODULE MCQueue -------------------------------
(* Instances of Queue for TLC. *)
EXTENDS Queue, TLC

CONSTANTS s1, s2

OneServer == [t \in TASK |-> {s1}]
Articles2 == [t \in TASK |-> IF t \in ARTICLE THEN {s1, s2} ELSE {s1}]

LimitOne == [s \in SERVER |-> 1]
LimitTwo == [s \in SERVER |-> 2]

SymmetricUploads == Permutations(UPLOAD)
=============================================================================
