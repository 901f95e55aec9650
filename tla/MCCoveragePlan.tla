--------------------------- MODULE MCCoveragePlan ---------------------------
(***************************************************************************)
(* Inner rectangles of one or two by one or two tiles at the corners, the  *)
(* edges and the centre of a map of 16 by 16 tiles.                        *)
(***************************************************************************)
EXTENDS CoveragePlan

MCInnerRects ==
    {[minX |-> x, minY |-> y, maxX |-> x + w, maxY |-> y + h] :
        x \in {0, 7, 14}, y \in {6, 8}, w \in 0..1, h \in 0..1}

=============================================================================
