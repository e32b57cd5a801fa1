--------------------------- MODULE MCCodingPool ---------------------------
EXTENDS CodingPool, TLC

CONSTANTS c1, c2, r1, r2, r3, r4

MCCast == {c1, c2}
MCRequest == {r1, r2, r3, r4}
MCOwner == (r1 :> c1) @@ (r2 :> c1) @@ (r3 :> c2) @@ (r4 :> c2)
MCLimit == {1, 2, NoLimit}
=============================================================================
