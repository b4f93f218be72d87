------------------------------- MODULE MCRelay -------------------------------
(* Relay on small instances for TLC.                                        *)
EXTENDS Relay, TLC

CONSTANTS t1, t2, h1, alice, bob, build, k1

Ask(actor, capability, key) ==
    [actor |-> actor, host |-> h1, capability |-> capability, target |-> build, key |-> key]

\* An executor round and an observation.
Mixed == {Ask(alice, "executor", NoKey), Ask(alice, "observation", NoKey)}
\* Observations.
Observations == {Ask(alice, "observation", NoKey)}
\* Executor rounds without a key.
Rounds == {Ask(alice, "executor", NoKey)}

MCSymmetry == Permutations(Task)
=============================================================================
