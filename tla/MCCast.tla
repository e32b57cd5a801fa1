------------------------------- MODULE MCCast -------------------------------
EXTENDS Cast

(* One queued by this cast, one queued by that one, one typed elsewhere.   *)
Family == [child |-> Root, grandchild |-> "child", stranger |-> None]
=============================================================================
