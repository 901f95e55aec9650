------------------------ MODULE MCCollisionPipeline ------------------------
(***************************************************************************)
(* A small instance of CollisionPipeline: three tiles in a row, of which   *)
(* only the outer two are far from each other.                             *)
(***************************************************************************)
EXTENDS CollisionPipeline

MCPlaces == 0..2
MCFar(p, q) == p - q >= 2 \/ q - p >= 2

=============================================================================
