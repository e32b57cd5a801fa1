----------------------------- MODULE MCCircle -----------------------------
EXTENDS Circle, TLC

CONSTANTS a, b, d, h

(* One parent, a child it may await.                                       *)
ParentAndChild == {<<a, b>>}
===========================================================================
