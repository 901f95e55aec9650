---------------------------- MODULE CoveragePlan ----------------------------
(***************************************************************************)
(* The partition of the outer terrain into pages: planTerrainCoverage, and *)
(* the vertices BuildOuterCoverage puts on the edges of the pages.         *)
(*                                                                         *)
(* Tiles of an outer rectangle are divided until the tiles of the inner    *)
(* rectangle and a ring around it have the finest zoom, then until         *)
(* neighbours differ by one zoom at most.  The code keeps the leaves in a  *)
(* vector and divides the first pair it finds out of balance; here they    *)
(* are a set and any pair will do.                                         *)
(***************************************************************************)
EXTENDS Integers, Sequences, FiniteSets, FiniteSetsExt, SequencesExt

CONSTANTS
    FineZoom,      \* zoom of the inner rectangle
    InnerRects,    \* inner rectangles [minX, minY, maxX, maxY] to plan for
    OuterZooms,    \* zooms of the outer rectangle
    Margins,       \* how many tiles more than it must the outer rectangle has on each side
    Limits,        \* values of maxPages
    NearCells,     \* cells along the edge of a page of the finest zoom
    CoarseCells    \* cells along the edge of any other page

\* 1 << n.  A function, which can be reasoned about, unlike the operator ^.
TwoTo[n \in Nat] == IF n = 0 THEN 1 ELSE 2 * TwoTo[n - 1]

ASSUME ConstantsAssumption ==
    /\ FineZoom \in Nat /\ OuterZooms \subseteq 0..FineZoom
    /\ Margins \subseteq Nat /\ Limits \subseteq Nat \ {0}
    /\ CoarseCells \in Nat \ {0} /\ NearCells \in Nat /\ CoarseCells <= NearCells
    /\ InnerRects \subseteq [minX : Nat, minY : Nat, maxX : Nat, maxY : Nat]
    /\ \A r \in InnerRects :
          /\ r.minX <= r.maxX /\ r.maxX < TwoTo[FineZoom]
          /\ r.minY <= r.maxY /\ r.maxY < TwoTo[FineZoom]

VARIABLES
    inner, outer, limit,       \* the arguments, the outer rectangle as its tiles
    phase,                     \* "divide", "balance", "done" or "refused"
    pending,                   \* the stack of tiles to look at
    leaves                     \* plan.leaves

vars == <<inner, outer, limit, phase, pending, leaves>>

-----------------------------------------------------------------------------
(***************************************************************************)
(* Tiles and boxes.  A box covers the tiles of the finest zoom from (x0,   *)
(* y0) up to, not including, (x1, y1).                                     *)
(***************************************************************************)
Low(a, b) == IF a < b THEN a ELSE b
High(a, b) == IF a > b THEN a ELSE b

Scale(z) == TwoTo[FineZoom - z]

Box(t) == [x0 |-> t.x * Scale(t.z), y0 |-> t.y * Scale(t.z),
           x1 |-> (t.x + 1) * Scale(t.z), y1 |-> (t.y + 1) * Scale(t.z)]

Intersects(a, b) == a.x0 < b.x1 /\ b.x0 < a.x1 /\ a.y0 < b.y1 /\ b.y0 < a.y1

\* Box a lies within box b.
Within(a, b) == b.x0 <= a.x0 /\ a.x1 <= b.x1 /\ b.y0 <= a.y0 /\ a.y1 <= b.y1

\* The tiles of the finest zoom in a box, as boxes.
Points(box) == {[x0 |-> x, y0 |-> y, x1 |-> x + 1, y1 |-> y + 1] :
                   x \in box.x0..(box.x1 - 1), y \in box.y0..(box.y1 - 1)}

Protected == [x0 |-> inner.minX, y0 |-> inner.minY, x1 |-> inner.maxX + 1, y1 |-> inner.maxY + 1]

\* One tile more on each side, within the map.
Halo == [x0 |-> High(0, Protected.x0 - 1), y0 |-> High(0, Protected.y0 - 1),
         x1 |-> Low(TwoTo[FineZoom], Protected.x1 + 1),
         y1 |-> Low(TwoTo[FineZoom], Protected.y1 + 1)]

\* The tiles of an outer rectangle: those that contain the inner one and a tile
\* around it, and a margin.
Roots(rect, z, margin) ==
    LET span(min, max) ==
            High(0, (High(0, min - 1) \div Scale(z)) - margin)
              ..Low(TwoTo[z] - 1, (Low(TwoTo[FineZoom] - 1, max + 1) \div Scale(z)) + margin)
    IN  {[x |-> x, y |-> y, z |-> z, inner |-> FALSE] :
            x \in span(rect.minX, rect.maxX), y \in span(rect.minY, rect.maxY)}

Child(t, dx, dy) == [x |-> 2 * t.x + dx, y |-> 2 * t.y + dy, z |-> t.z + 1, inner |-> FALSE]

Children(t) == {Child(t, dx, dy) : dx \in 0..1, dy \in 0..1}

\* The side of a on which b lies: 0 west, 1 east, 2 north, 3 south, -1 none.
AdjacentSide(a, b) ==
    LET p == Box(a)
        q == Box(b)
        overlapX == High(p.x0, q.x0) < Low(p.x1, q.x1)
        overlapY == High(p.y0, q.y0) < Low(p.y1, q.y1)
    IN  CASE p.x0 = q.x1 /\ overlapY -> 0
          [] p.x1 = q.x0 /\ overlapY -> 1
          [] p.y0 = q.y1 /\ overlapX -> 2
          [] p.y1 = q.y0 /\ overlapX -> 3
          [] OTHER -> -1

Init ==
    /\ inner \in InnerRects /\ limit \in Limits
    /\ \E z \in OuterZooms, margin \in Margins : outer = Roots(inner, z, margin)
    /\ phase = "divide"
    /\ pending = SetToSeq(outer)
    /\ leaves = {}

-----------------------------------------------------------------------------
Divides(t) == t.z < FineZoom /\ Intersects(Box(t), Halo)

IsInner(t) == t.z = FineZoom /\ Intersects(Box(t), Protected)

\* One turn of the loop over the stack; the limit is checked at its end.
Divide ==
    /\ phase = "divide" /\ pending # <<>>
    /\ LET tile == Last(pending) IN
       IF Divides(tile)
       THEN /\ pending' = Front(pending) \o SetToSeq(Children(tile))
            /\ UNCHANGED leaves
       ELSE /\ pending' = Front(pending)
            /\ leaves' = leaves \cup {[tile EXCEPT !.inner = IsInner(tile)]}
    /\ phase' = IF Len(pending') + Cardinality(leaves') > limit THEN "refused" ELSE phase
    /\ UNCHANGED <<inner, outer, limit>>

Divided ==
    /\ phase = "divide" /\ pending = <<>>
    /\ phase' = "balance"
    /\ UNCHANGED <<inner, outer, limit, pending, leaves>>

Balanced(a, b) == a.z - b.z <= 1 /\ b.z - a.z <= 1

\* The leaves that are out of balance with a finer neighbour.
TooCoarse ==
    {a \in leaves : \E b \in leaves : a.z < b.z /\ ~Balanced(a, b) /\ AdjacentSide(a, b) >= 0}

\* Mutant: the leaf that is divided is not counted off.
Exceeds == Cardinality(leaves) > limit
Refuses == Cardinality(leaves) + 3 > limit

\* Mutant: the divided leaf stays.
SplitKeeping ==
    /\ phase = "balance" /\ TooCoarse # {} /\ ~Refuses
    /\ \E t \in TooCoarse : leaves' = leaves \cup Children(t)
    /\ UNCHANGED <<inner, outer, limit, phase, pending>>

Split ==
    /\ phase = "balance" /\ TooCoarse # {} /\ ~Refuses
    /\ \E t \in TooCoarse : leaves' = (leaves \ {t}) \cup Children(t)
    /\ UNCHANGED <<inner, outer, limit, phase, pending>>

\* The plan is ready, or balancing it would exceed the limit.
Finish ==
    /\ phase = "balance" /\ (TooCoarse = {} \/ Refuses)
    /\ phase' = IF TooCoarse = {} THEN "done" ELSE "refused"
    /\ UNCHANGED <<inner, outer, limit, pending, leaves>>

Stop == phase \in {"done", "refused"} /\ UNCHANGED vars

Next == Divide \/ Divided \/ Split \/ Finish \/ Stop

Spec == Init /\ [][Next]_vars /\ WF_vars(Divide \/ Divided \/ Split \/ Finish)

-----------------------------------------------------------------------------
(***************************************************************************)
(* The vertices on the edges of the pages, in units so small that every    *)
(* grid of the plan falls on whole numbers.                                *)
(***************************************************************************)
Cells(t) == IF t.z = FineZoom THEN NearCells ELSE CoarseCells

\* Where the edge of a page begins and ends, along the axis of that edge.
Along(t, side) ==
    LET unit == NearCells * CoarseCells IN
    IF side < 2 THEN (Box(t).y0 * unit)..(Box(t).y1 * unit)
                ELSE (Box(t).x0 * unit)..(Box(t).x1 * unit)

\* The vertices of the regular grid on an edge.
GridPoints(t, side) ==
    LET unit == NearCells * CoarseCells
        from == unit * (IF side < 2 THEN Box(t).y0 ELSE Box(t).x0)
    IN  {from + p * ((Scale(t.z) * unit) \div Cells(t)) : p \in 0..Cells(t)}

Neighbors(t, side) == {n \in leaves : AdjacentSide(t, n) = side}

\* coarserNeighbors, which has room for one leaf per side.
CoarserNeighbors(t, side) == {n \in Neighbors(t, side) : n.z < t.z}

\* Mutant: a coarse page ignores the vertices of its finer neighbours.
EdgePointsFine(t, side) ==
    IF t.inner THEN GridPoints(t, side)
    ELSE GridPoints(t, side)
            \cup UNION {GridPoints(n, side) \cap Along(t, side) : n \in CoarserNeighbors(t, side)}

\* What stitchCoverageBoundary puts on an edge: the page's own grid, and the
\* grid points of its coarser and of its finer neighbours.  The meshes of the
\* inner rectangle are taken as they are.
EdgePoints(t, side) ==
    IF t.inner THEN GridPoints(t, side)
    ELSE GridPoints(t, side)
            \cup UNION {GridPoints(n, side) \cap Along(t, side) :
                           n \in {m \in Neighbors(t, side) : m.z # t.z}}

-----------------------------------------------------------------------------
(***************************************************************************)
(* Properties.                                                             *)
(***************************************************************************)
Tile(z) == [x : 0..(TwoTo[z] - 1), y : 0..(TwoTo[z] - 1), z : {z}, inner : BOOLEAN]

TypeOK ==
    /\ inner \in InnerRects /\ limit \in Limits
    /\ \E z \in OuterZooms, margin \in Margins : outer = Roots(inner, z, margin)
    /\ phase \in {"divide", "balance", "done", "refused"}
    /\ \A t \in leaves \cup ToSet(pending) : \E z \in 0..FineZoom : t \in Tile(z)

\* The tiles at hand cover the outer rectangle exactly once at every step: no two
\* pages overlap, none sticks out and the terrain has no holes.
CoversOnce ==
    LET tiles == leaves \cup ToSet(pending) IN
    /\ \A a, b \in tiles : a # b => ~Intersects(Box(a), Box(b))
    /\ \A t \in tiles : \E r \in outer : Within(Box(t), Box(r))
    /\ \A r \in outer : \A p \in Points(Box(r)) :
          \E t \in tiles : Within(p, Box(t))

\* The pages of the inner rectangle are leaves of the finest zoom, all of them
\* and no others are marked inner, and balancing leaves them alone; so is the
\* ring around them.
InnerKept ==
    phase \in {"balance", "done"} =>
        /\ \A l \in leaves : l.inner <=> Intersects(Box(l), Protected)
        /\ \A l \in leaves : Intersects(Box(l), Halo) => l.z = FineZoom

\* "A balanced partition has at most one coarser neighbor along any leaf edge",
\* so an array with one entry per side can hold them.
OneCoarserNeighbor ==
    phase = "done" =>
        \A l \in leaves, side \in 0..3 :
            /\ Cardinality(CoarserNeighbors(l, side)) <= 1
            /\ \A n \in Neighbors(l, side) : l.z - n.z <= 1

\* Two pages that meet have the same vertices along the part of the edge they
\* share: the terrain has no cracks, not even at the inner rectangle.
EdgesMatch ==
    phase = "done" =>
        \A a, b \in leaves :
            LET side == AdjacentSide(a, b)
                back == AdjacentSide(b, a)
            IN  side >= 0 =>
                  LET shared == Along(a, side) \cap Along(b, back)
                  IN  EdgePoints(a, side) \cap shared = EdgePoints(b, back) \cap shared

\* A plan never has more pages than allowed.
WithinLimit == phase \in {"balance", "done"} => Cardinality(leaves) <= limit

\* At every step the plan is a partition of the outer rectangle, within the page
\* limit, that leaves the inner rectangle as it is.
PartitionKept == TypeOK /\ CoversOnce /\ InnerKept /\ WithinLimit

\* A finished plan can be stitched without cracks.
SeamsMatch == OneCoarserNeighbor /\ EdgesMatch

\* Balancing comes to an end.
Ends == <>(phase \in {"done", "refused"})

=============================================================================
