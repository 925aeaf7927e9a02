----------------------------- MODULE MCLiveness -----------------------------
(* A TLC instance of what must come to an end: the calls of the serving chain *)
(* and the shadow jobs that they leave behind.  A behaviour exercises one of  *)
(* them, the other rests in an initial state, where no fairness asks it to    *)
(* move.                                                                      *)
EXTENDS MCServingChain

CONSTANTS j1, j2, Keys, shadowMaxInFlight

VARIABLES component,
          jobSource, stored, shadowFlights, jobPc, kind, cachedFrame, sourceValue,
          filling, expired, abandoned, clientReads, reply, held, outcome

\* Two jobs, each with a key of its own, compete for the slots.
KeyOf == CHOOSE f \in [{j1, j2} -> Keys] : f[j1] # f[j2]

Shadow == INSTANCE ShadowValidation WITH
    Jobs <- {j1, j2}, keyOf <- KeyOf, source <- jobSource, pc <- jobPc

shadowVars ==
    <<jobSource, stored, shadowFlights, jobPc, kind, cachedFrame, sourceValue,
      filling, expired, abandoned, clientReads, reply, held, outcome>>

LiveInit ==
    /\ component \in {"chain", "shadow"}
    /\ Init /\ Shadow!Init
    /\ component = "chain" => stored = [k \in Keys |-> None]

LiveNext ==
    \/ component = "chain" /\ Next /\ UNCHANGED <<component, shadowVars>>
    \/ component = "shadow" /\ Shadow!Next /\ UNCHANGED <<component, vars>>

LiveSpec ==
    /\ LiveInit /\ [][LiveNext]_<<component, vars, shadowVars>>
    /\ Fairness /\ Shadow!Fairness

\* Every admitted shadow job reports a verdict, and one that shares its
\* caller's source call gives its slot back (ShadowValidation,
\* runShadowValidation).
EveryJobEnds == Shadow!EveryJobEnds
=============================================================================
