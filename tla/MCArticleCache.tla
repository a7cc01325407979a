--------------------------- MODULE MCArticleCache ---------------------------
(* Instances of ArticleCache for TLC.  Two articles share a part, as a post *)
(* that is displayed while it is being saved does; the cache holds any two  *)
(* of the small parts but not everything.                                   *)
EXTENDS ArticleCache

CONSTANTS show, save

PartsShared == [t \in TASK |-> IF t = show THEN {1} ELSE {1, 2}]
Sizes == [m \in MID |-> IF m = 2 THEN 2 ELSE 1]
=============================================================================
