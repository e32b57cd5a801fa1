-------------------------- MODULE MCCircleRestart --------------------------
EXTENDS CircleRestart, TLC

CONSTANTS a, b, d, h

(* No cast awaits another.                                                 *)
Alone == {}

(* One parent, a child it may await.                                       *)
ParentAndChild == {<<a, b>>}
============================================================================
