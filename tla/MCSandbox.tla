------------------------------ MODULE MCSandbox ------------------------------
(* Sandbox on a small instance for TLC: a registered and an executor task.  *)
EXTENDS Sandbox

CONSTANTS t1, t2

MCDispatch == {[task |-> t1, capability |-> "registered"],
               [task |-> t2, capability |-> "executor"]}
=============================================================================
