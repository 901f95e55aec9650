-------------------------- MODULE MCVisualPipeline --------------------------
(***************************************************************************)
(* Small instances of VisualPipeline: two centres far from each other.     *)
(***************************************************************************)
EXTENDS VisualPipeline

MCPlaces == {"west", "east"}
MCFar(p, q) == p # q

\* With an eager timer, three requests show every way it can strike; a patient
\* one gets as many as the faults can call for.
MCRequests(e) == IF e THEN 3 ELSE 5
TwoRequests(e) == 2

=============================================================================
