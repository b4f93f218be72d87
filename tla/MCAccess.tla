------------------------------ MODULE MCAccess ------------------------------
(* Access on a small instance for TLC: two machines of the same name.       *)
EXTENDS Access, TLC

CONSTANTS m1, m2, h1, h2, n1, cap1

MCNameOf == m1 :> n1 @@ m2 :> n1
MCScope == {[hosts |-> {AnyHost}, caps |-> {cap1}], [hosts |-> {h1}, caps |-> {cap1}]}
=============================================================================
