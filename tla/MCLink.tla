------------------------------- MODULE MCLink -------------------------------
EXTENDS Link, TLC

CONSTANTS c1, p1, s1, s2, e1, k1

MCOf == [x \in Id |-> c1]
MCConns == c1 :> 2
=============================================================================
