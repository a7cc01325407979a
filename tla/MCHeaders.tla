----------------------------- MODULE MCHeaders ------------------------------
(* Instances of Headers for TLC. *)
EXTENDS Headers

\* The second and the last header are parts of one post.
TwoParts == [m \in MID |-> IF m = 4 THEN 2 ELSE m]
PartCount == [p \in MID |-> IF p = 2 THEN 2 ELSE 1]

\* A thread of three, the last of which comes with all of its References,
\* with one left out, or with wrong ones that close a circle.
Replies == <<{<<>>}, {<<1>>}, {<<1>>, <<1, 2>>, <<2, 1>>}, {<<1>>}>>

CompleteOnes == {<<"complete", "ARTICLES">>, <<"complete", "THREADS">>}
NoFilter == {<<"none", "ARTICLES">>}
=============================================================================
