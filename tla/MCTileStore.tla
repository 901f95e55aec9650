----------------------------- MODULE MCTileStore -----------------------------
(***************************************************************************)
(* The two caches at their limit: the two tiles of a kind do not fit       *)
(* together, and a third one of imagery not even alone.                    *)
(***************************************************************************)
EXTENDS TileStore

CONSTANTS I1, I2, I3, E1, E2, Visual, Other

MCSize(k) == CASE k \in {I1, E1} -> 1 [] k \in {I2, E2} -> 2 [] k = I3 -> 3
MCLimit(kind) == 2
MCStripe(k) == IF k \in {E1, E2} THEN 1 ELSE 2

Job(op, tiles) == [op |-> op, tiles |-> tiles]
MCMosaicJobs(t) == {Job("mosaic", <<E1, E2>>), Job("offset", <<E1>>)}
MCJobs(t) ==
    MCMosaicJobs(t) \cup {Job("imagery", <<I1>>),
                          Job("imagery", <<IF t = Other THEN I3 ELSE I2>>)}

=============================================================================
