----------------------------- MODULE MCUploads ------------------------------
(* Instances of Uploads for TLC: a file of two parts and one of a single    *)
(* part, uploaded together.                                                 *)
EXTENDS Uploads

CONSTANTS f1, f2, m

TwoAndOne == [f \in FILE |-> IF f = f1 THEN 2 ELSE 1]
OwnNames == [f \in FILE |-> f]
WholeFiles == [f \in FILE |-> {1..Total[f]}]
=============================================================================
