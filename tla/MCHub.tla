------------------------------- MODULE MCHub -------------------------------
EXTENDS Hub

CONSTANTS c1, p1, p2, r1, k1, w1, w2

(* One cast, two prompts, a rite and an await of it.                       *)
OfOne == [x \in {p1, p2, r1, k1} |-> c1]
OfPrompts == [x \in {p1, p2} |-> c1]
=============================================================================
