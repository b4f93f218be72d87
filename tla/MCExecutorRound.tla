--------------------------- MODULE MCExecutorRound ---------------------------
(* ExecutorRound on a small instance for TLC.                               *)
EXTENDS ExecutorRound

CONSTANTS t1, t2, h1, alice, build, k1, c1, c2

Ask(capability, key) ==
    [actor |-> alice, host |-> h1, capability |-> capability, target |-> build, key |-> key]

\* A round with an idempotency key, submitted by either call.
MCSubmission == {Ask("executor", k1)}
=============================================================================
