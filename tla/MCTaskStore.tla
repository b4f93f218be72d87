---------------------------- MODULE MCTaskStore ----------------------------
(* TaskStore on a small instance for TLC.                                   *)
EXTENDS TaskStore, TLC

CONSTANTS t1, t2, h1, alice, bob, build, k1

\* An executor round with an idempotency key, a registered task without, and
\* an observation of another client.
MCSubmission == {
    [actor |-> alice, host |-> h1, capability |-> "executor", target |-> build, key |-> k1],
    [actor |-> alice, host |-> h1, capability |-> "registered", target |-> build, key |-> NoKey],
    [actor |-> bob, host |-> h1, capability |-> "observation", target |-> build, key |-> NoKey]}

MCSymmetry == Permutations(Task)
=============================================================================
