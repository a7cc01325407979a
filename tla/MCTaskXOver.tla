---------------------------- MODULE MCTaskXOver -----------------------------
(* Instances of TaskXOver for TLC: a server with two connections, and one   *)
(* with compressed answers and a single connection.  The later article of   *)
(* each looks too old for DAYS, the first of one is corrupt, and that of    *)
(* the other too long.                                                      *)
EXTENDS TaskXOver

CONSTANTS s1, s2, a, b, c

Connections == [x \in CONN |-> IF x = c THEN s2 ELSE s1]
OneAndTwo == [s \in SERVER |-> IF s = s1 THEN 1 ELSE 2]
Misdated == SERVER \X {2}
Incomplete == {<<s1, 1>>}
TooLong == {<<s2, 1>>}
AllFirst == <<{"ALL", "DAYS"}, {"NEW", "SAMPLE"}>>
=============================================================================
