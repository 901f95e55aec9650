--------------------------- MODULE CoverageProofs ---------------------------
(***************************************************************************)
(* Proofs about CoveragePlan, for every map, every inner rectangle and     *)
(* every page limit.                                                       *)
(*                                                                         *)
(* A tile is the disjoint union of its children (ChildBoxes, ChildrenApart *)
(* and ChildrenCover); everything else is bookkeeping: which tiles are on  *)
(* the stack, which are leaves, and that no tile is there twice.           *)
(***************************************************************************)
EXTENDS CoveragePlan, FiniteSetTheorems, SequenceTheorems, WellFoundedInduction, TLAPS

-----------------------------------------------------------------------------
(***************************************************************************)
(* Powers of two.  What the recursive definition of TwoTo computes follows *)
(* by least counterexample, since every set of numbers has a least one.    *)
(***************************************************************************)
\* Every set of numbers that is not empty has a least one.
LEMMA LeastNumber ==
    ASSUME NEW T \in SUBSET Nat, T # {}
    PROVE  \E n \in T : \A m \in T : n <= m
<1> DEFINE Below == {p \in Nat \X Nat : p[1] < p[2]}
<1>1. IsWellFoundedOn(Below, Nat)
  BY NatLessThanWellFounded DEF OpToRel
<1>2. \A x, y \in Nat : x < y => <<x, y>> \in Below
  OBVIOUS
<1> HIDE DEF Below
<1>3. PICK x \in T : \A y \in T : <<y, x>> \notin Below
  BY <1>1, WFMin
<1>4. ASSUME NEW y \in T PROVE x <= y
  <2>1. x \in Nat /\ y \in Nat /\ ~(y < x)
    BY <1>2, <1>3
  <2>2. QED
    BY <2>1
<1>5. QED
  BY <1>4

\* The first powers, up to the n-th.
Powers(n, f) ==
    /\ DOMAIN f = 0..n /\ f[0] = 1
    /\ \A i \in 1..n : f[i] = 2 * f[i - 1]

\* As many as one likes can be listed,
LEMMA PowersExist == \A n \in Nat : \E f : Powers(n, f)
<1> DEFINE Bad == {n \in Nat : ~\E f : Powers(n, f)}
<1> SUFFICES ASSUME Bad # {} PROVE FALSE
  OBVIOUS
<1>1. PICK n \in Bad : \A m \in Bad : n <= m
  BY LeastNumber
<1>2. CASE n = 0
  <2>1. Powers(0, [i \in 0..0 |-> 1])
    BY DEF Powers
  <2>2. QED
    BY <1>1, <1>2, <2>1
<1>3. CASE n # 0
  <2>1. n \in Nat /\ n - 1 \in Nat /\ n - 1 \notin Bad
    BY <1>1, <1>3
  <2>2. PICK f : Powers(n - 1, f)
    BY <2>1
  <2> DEFINE g == [i \in 0..n |-> IF i = n THEN 2 * f[n - 1] ELSE f[i]]
  <2>3. DOMAIN g = 0..n /\ g[0] = 1
    BY <1>3, <2>1, <2>2 DEF Powers
  <2>4. ASSUME NEW i \in 1..n PROVE g[i] = 2 * g[i - 1]
    <3>1. i \in 0..n /\ i - 1 \in 0..n /\ i - 1 # n
      BY <2>1
    <3>2. CASE i = n
      BY <3>1, <3>2
    <3>3. CASE i # n
      <4>1. i \in 1..(n - 1)
        BY <2>1, <3>3
      <4>2. f[i] = 2 * f[i - 1]
        BY <2>2, <4>1 DEF Powers
      <4>3. QED
        BY <3>1, <3>3, <4>2
    <3>4. QED
      BY <3>2, <3>3
  <2> HIDE DEF g
  <2>5. Powers(n, g)
    BY <2>3, <2>4 DEF Powers
  <2>6. QED
    BY <1>1, <2>5
<1>4. QED
  BY <1>2, <1>3

\* in one way only.
LEMMA PowersAgree ==
    ASSUME NEW n \in Nat, NEW m \in Nat, NEW f, NEW g, Powers(n, f), Powers(m, g), n <= m
    PROVE  \A i \in 0..n : f[i] = g[i]
<1> DEFINE Bad == {i \in 0..n : f[i] # g[i]}
<1> SUFFICES ASSUME Bad # {} PROVE FALSE
  OBVIOUS
<1>1. PICK i \in Bad : \A j \in Bad : i <= j
  <2>1. Bad \in SUBSET Nat
    OBVIOUS
  <2> HIDE DEF Bad
  <2>2. QED
    BY <2>1, LeastNumber
<1>2. i \in 0..n /\ f[i] # g[i]
  BY <1>1
<1>3. i # 0
  BY <1>2 DEF Powers
<1>4. i \in 1..n /\ i \in 1..m /\ i - 1 \in 0..n /\ ~(i <= i - 1)
  BY <1>2, <1>3
<1>5. f[i - 1] = g[i - 1]
  BY <1>1, <1>4
<1>6. f[i] = 2 * f[i - 1] /\ g[i] = 2 * g[i - 1]
  BY <1>4 DEF Powers
<1>7. QED
  BY <1>2, <1>5, <1>6

\* So TwoTo is what its definition says.
LEMMA TwoToDef == TwoTo[0] = 1 /\ \A n \in Nat \ {0} : TwoTo[n] = 2 * TwoTo[n - 1]
<1> DEFINE first(n) == CHOOSE f : Powers(n, f)
           all == [n \in Nat |-> first(n)[n]]
           Loop(h) == h = [n \in Nat |-> IF n = 0 THEN 1 ELSE 2 * h[n - 1]]
<1>1. \A n \in Nat : Powers(n, first(n))
  BY PowersExist
<1> HIDE DEF first
<1>2. all[0] = 1
  BY <1>1 DEF Powers
<1>3. ASSUME NEW n \in Nat \ {0} PROVE all[n] = 2 * all[n - 1]
  <2>1. n \in Nat /\ n - 1 \in Nat /\ n - 1 <= n /\ n \in 1..n /\ n - 1 \in 0..(n - 1)
    OBVIOUS
  <2>2. first(n)[n] = 2 * first(n)[n - 1]
    BY <1>1, <2>1 DEF Powers
  <2>3. first(n - 1)[n - 1] = first(n)[n - 1]
    BY <1>1, <2>1, PowersAgree
  <2>4. QED
    BY <2>1, <2>2, <2>3
<1>4. Loop(all)
  <2>1. all = [n \in Nat |-> all[n]]
    OBVIOUS
  <2>2. \A n \in Nat : all[n] = IF n = 0 THEN 1 ELSE 2 * all[n - 1]
    BY <1>2, <1>3
  <2> HIDE DEF all
  <2>3. QED
    BY <2>1, <2>2
<1> HIDE DEF all
<1>5. TwoTo = CHOOSE h : Loop(h)
  BY DEF TwoTo
<1>6. Loop(TwoTo)
  BY <1>4, <1>5
<1>7. QED
  BY <1>6

\* Powers are positive numbers,
LEMMA PowersPositive == \A n \in Nat : TwoTo[n] \in Nat \ {0}
<1> DEFINE Bad == {n \in Nat : TwoTo[n] \notin Nat \ {0}}
<1> SUFFICES ASSUME Bad # {} PROVE FALSE
  OBVIOUS
<1>1. PICK n \in Bad : \A m \in Bad : n <= m
  BY LeastNumber
<1>2. n # 0
  BY <1>1, TwoToDef
<1>3. n \in Nat \ {0} /\ n - 1 \in Nat /\ ~(n <= n - 1)
  BY <1>1, <1>2
<1>4. TwoTo[n - 1] \in Nat \ {0} /\ TwoTo[n] = 2 * TwoTo[n - 1]
  BY <1>1, <1>3, TwoToDef
<1>5. QED
  BY <1>1, <1>4

\* and exponents add up.
LEMMA PowersAdd == \A n, m \in Nat : TwoTo[n] * TwoTo[m] = TwoTo[n + m]
<1> SUFFICES ASSUME NEW m \in Nat
             PROVE  \A n \in Nat : TwoTo[n] * TwoTo[m] = TwoTo[n + m]
  OBVIOUS
<1> DEFINE Bad == {n \in Nat : TwoTo[n] * TwoTo[m] # TwoTo[n + m]}
<1> SUFFICES ASSUME Bad # {} PROVE FALSE
  OBVIOUS
<1>1. PICK n \in Bad : \A k \in Bad : n <= k
  BY LeastNumber
<1>2. TwoTo[m] \in Nat \ {0}
  BY PowersPositive
<1>3. n # 0
  <2>1. TwoTo[0] = 1 /\ 0 + m = m
    BY TwoToDef
  <2>2. 1 * TwoTo[m] = TwoTo[m]
    BY <1>2
  <2>3. QED
    BY <1>1, <2>1, <2>2
<1>4. n \in Nat \ {0} /\ n - 1 \in Nat /\ ~(n <= n - 1)
  BY <1>1, <1>3
<1>5. TwoTo[n - 1] * TwoTo[m] = TwoTo[(n - 1) + m]
  BY <1>1, <1>4
<1>6. TwoTo[n] = 2 * TwoTo[n - 1]
  BY <1>4, TwoToDef
<1>7. TwoTo[n + m] = 2 * TwoTo[(n - 1) + m]
  <2>1. n + m \in Nat \ {0} /\ (n + m) - 1 = (n - 1) + m
    BY <1>4
  <2>2. QED
    BY <2>1, TwoToDef
<1>8. (2 * TwoTo[n - 1]) * TwoTo[m] = 2 * (TwoTo[n - 1] * TwoTo[m])
  <2>1. TwoTo[n - 1] \in Nat
    BY <1>4, PowersPositive
  <2>2. QED
    BY <1>2, <2>1
<1>9. QED
  BY <1>1, <1>5, <1>6, <1>7, <1>8

\* The arithmetic of tiles: the edge of the map, and of a tile in finest tiles.
LEMMA PowersOfTwo ==
    \A z \in 0..FineZoom : /\ TwoTo[z] \in Nat \ {0}
                          /\ TwoTo[z + 1] = 2 * TwoTo[z]
                          /\ TwoTo[z] * TwoTo[FineZoom - z] = TwoTo[FineZoom]
<1> TAKE z \in 0..FineZoom
<1>1. z \in Nat /\ FineZoom - z \in Nat /\ z + (FineZoom - z) = FineZoom
  BY ConstantsAssumption
<1>2. TwoTo[z] \in Nat \ {0} /\ TwoTo[z] * TwoTo[FineZoom - z] = TwoTo[z + (FineZoom - z)]
  BY <1>1, PowersPositive, PowersAdd
<1>3. z + 1 \in Nat \ {0} /\ (z + 1) - 1 = z
  BY <1>1
<1>4. TwoTo[z + 1] = 2 * TwoTo[z]
  BY <1>3, TwoToDef
<1>5. QED
  BY <1>1, <1>2, <1>4

-----------------------------------------------------------------------------
(***************************************************************************)
(* Tiles and boxes.                                                        *)
(***************************************************************************)
AllTiles == UNION {Tile(z) : z \in 0..FineZoom}

\* A tile of the type.
LEMMA TileFields ==
    ASSUME NEW t \in AllTiles
    PROVE  /\ t.z \in 0..FineZoom /\ t.inner \in BOOLEAN
           /\ t.x \in 0..(TwoTo[t.z] - 1) /\ t.y \in 0..(TwoTo[t.z] - 1)
           /\ t = [x |-> t.x, y |-> t.y, z |-> t.z, inner |-> t.inner]
BY ConstantsAssumption DEF AllTiles, Tile

\* The edge of a tile in tiles of the finest zoom.
LEMMA Scales ==
    ASSUME NEW z \in 0..FineZoom
    PROVE  /\ Scale(z) \in Nat \ {0}
           /\ z < FineZoom => Scale(z) = 2 * Scale(z + 1)
<1>1. FineZoom \in Nat
  BY ConstantsAssumption
<1>2. FineZoom - z \in 0..FineZoom
  BY <1>1
<1>3. ASSUME z < FineZoom
      PROVE  Scale(z) = 2 * Scale(z + 1)
  <2>1. FineZoom - (z + 1) \in 0..FineZoom /\ (FineZoom - (z + 1)) + 1 = FineZoom - z
    BY <1>1, <1>3
  <2> QED
    BY <2>1, PowersOfTwo DEF Scale
<1> QED
  BY <1>2, <1>3, PowersOfTwo DEF Scale

\* Boxes are squares with the edge of their zoom.
LEMMA Boxes ==
    ASSUME NEW t \in AllTiles
    PROVE  /\ Box(t).x0 \in Int /\ Box(t).y0 \in Int /\ Box(t).x1 \in Int /\ Box(t).y1 \in Int
           /\ Box(t).x1 = Box(t).x0 + Scale(t.z) /\ Box(t).y1 = Box(t).y0 + Scale(t.z)
           /\ Box(t).x0 < Box(t).x1 /\ Box(t).y0 < Box(t).y1
<1>1. t.z \in 0..FineZoom /\ t.x \in Int /\ t.y \in Int
  BY TileFields, PowersOfTwo
<1>2. Scale(t.z) \in Nat \ {0}
  BY <1>1, Scales
<1> DEFINE s == Scale(t.z)
<1>3. /\ t.x * s \in Int /\ t.y * s \in Int
      /\ (t.x + 1) * s = t.x * s + s /\ (t.y + 1) * s = t.y * s + s
  BY <1>1, <1>2
<1>4. /\ Box(t).x0 = t.x * s /\ Box(t).y0 = t.y * s
      /\ Box(t).x1 = (t.x + 1) * s /\ Box(t).y1 = (t.y + 1) * s
  BY DEF Box
<1> HIDE DEF s
<1>5. s \in Nat \ {0}
  BY <1>2 DEF s
<1>6. t.x * s + s \in Int /\ t.x * s < t.x * s + s /\ t.y * s + s \in Int /\ t.y * s < t.y * s + s
  BY <1>3, <1>5
<1> QED
  BY <1>3, <1>4, <1>6 DEF s

\* Doubling a number or a scale places a tile alike.
LEMMA Distribute ==
    ASSUME NEW a \in Int, NEW b \in Int, NEW d \in 0..1
    PROVE  (2 * a + d) * b = a * (2 * b) + d * b
<1>1. CASE d = 0
  <2>1. (2 * a) * b = a * (2 * b)
    OBVIOUS
  <2> QED
    BY <1>1, <2>1
<1>2. CASE d = 1
  <2>1. (2 * a + 1) * b = (2 * a) * b + b
    OBVIOUS
  <2>2. (2 * a) * b = a * (2 * b)
    OBVIOUS
  <2> QED
    BY <1>2, <2>1, <2>2
<1> QED
  BY <1>1, <1>2

\* A tile that is not of the finest zoom has children, each a quarter of it.
LEMMA ChildBoxes ==
    ASSUME NEW t \in AllTiles, t.z < FineZoom, NEW dx \in 0..1, NEW dy \in 0..1
    PROVE  LET c == Child(t, dx, dy)
               s == Scale(t.z + 1)
           IN  /\ c \in AllTiles
               /\ Box(c).x0 = Box(t).x0 + dx * s /\ Box(c).x1 = Box(c).x0 + s
               /\ Box(c).y0 = Box(t).y0 + dy * s /\ Box(c).y1 = Box(c).y0 + s
               /\ Box(t).x1 = Box(t).x0 + 2 * s /\ Box(t).y1 = Box(t).y0 + 2 * s
               /\ s \in Nat \ {0}
<1> DEFINE c == Child(t, dx, dy)
           s == Scale(t.z + 1)
<1>1. /\ t.z \in 0..FineZoom /\ t.z + 1 \in 0..FineZoom /\ FineZoom \in Nat
      /\ t.x \in 0..(TwoTo[t.z] - 1) /\ t.y \in 0..(TwoTo[t.z] - 1)
  BY TileFields, ConstantsAssumption
<1>2. TwoTo[t.z] \in Nat \ {0} /\ TwoTo[t.z + 1] = 2 * TwoTo[t.z]
  BY <1>1, PowersOfTwo
<1>3. 2 * t.x + dx \in 0..(TwoTo[t.z + 1] - 1) /\ 2 * t.y + dy \in 0..(TwoTo[t.z + 1] - 1)
  BY <1>1, <1>2
<1>4. c \in AllTiles
  BY <1>1, <1>3 DEF Child, AllTiles, Tile
<1>5. s \in Nat \ {0} /\ Scale(t.z) = 2 * s
  BY <1>1, Scales
<1>6. /\ Box(c).x0 = (2 * t.x + dx) * s /\ Box(c).y0 = (2 * t.y + dy) * s
      /\ Box(t).x0 = t.x * Scale(t.z) /\ Box(t).y0 = t.y * Scale(t.z)
  BY DEF Box, Child
<1>7. /\ Box(t).x1 = Box(t).x0 + Scale(t.z) /\ Box(t).y1 = Box(t).y0 + Scale(t.z)
      /\ Box(c).x1 = Box(c).x0 + Scale(c.z) /\ Box(c).y1 = Box(c).y0 + Scale(c.z)
  BY <1>4, Boxes
<1>8. c.z = t.z + 1
  BY DEF Child
<1> HIDE DEF c, s
<1>9. t.x \in Int /\ t.y \in Int
  BY <1>1, <1>2
<1>10. /\ (2 * t.x + dx) * s = t.x * (2 * s) + dx * s
       /\ (2 * t.y + dy) * s = t.y * (2 * s) + dy * s
  BY <1>1, <1>5, <1>9, Distribute
<1>11. Scale(c.z) = s
  BY <1>8 DEF s
<1>12. /\ c \in AllTiles /\ s \in Nat \ {0}
       /\ Box(c).x0 = Box(t).x0 + dx * s /\ Box(c).x1 = Box(c).x0 + s
       /\ Box(c).y0 = Box(t).y0 + dy * s /\ Box(c).y1 = Box(c).y0 + s
       /\ Box(t).x1 = Box(t).x0 + 2 * s /\ Box(t).y1 = Box(t).y0 + 2 * s
  BY <1>4, <1>5, <1>6, <1>7, <1>10, <1>11
<1> QED
  BY <1>12 DEF c, s

\* The children by their position.
LEMMA ChildRecords ==
    ASSUME NEW t, NEW a \in 0..1, NEW b \in 0..1
    PROVE  Child(t, a, b) \in Children(t)
BY DEF Children

\* The children lie within the tile.
LEMMA ChildrenWithin ==
    ASSUME NEW t \in AllTiles, t.z < FineZoom, NEW c \in Children(t)
    PROVE  /\ c \in AllTiles /\ ~c.inner /\ c.z = t.z + 1
           /\ Within(Box(c), Box(t))
<1>1. PICK dx \in 0..1, dy \in 0..1 : c = Child(t, dx, dy)
  BY DEF Children
<1> DEFINE s == Scale(t.z + 1)
<1>2. /\ c \in AllTiles
      /\ Box(c).x0 = Box(t).x0 + dx * s /\ Box(c).x1 = Box(c).x0 + s
      /\ Box(c).y0 = Box(t).y0 + dy * s /\ Box(c).y1 = Box(c).y0 + s
      /\ Box(t).x1 = Box(t).x0 + 2 * s /\ Box(t).y1 = Box(t).y0 + 2 * s
      /\ s \in Nat \ {0}
  BY <1>1, ChildBoxes
<1>3. Box(t).x0 \in Int /\ Box(t).y0 \in Int
  BY Boxes
<1> HIDE DEF s
<1>4. dx * s \in 0..s /\ dy * s \in 0..s
  <2>1. dx \in {0, 1} /\ dy \in {0, 1}
    OBVIOUS
  <2> QED
    BY <2>1, <1>2
<1>5. Within(Box(c), Box(t))
  BY <1>2, <1>3, <1>4 DEF Within
<1> QED
  BY <1>1, <1>2, <1>5 DEF Child

\* They do not overlap.
LEMMA ChildrenApart ==
    ASSUME NEW t \in AllTiles, t.z < FineZoom, NEW c \in Children(t), NEW d \in Children(t),
           c # d
    PROVE  ~Intersects(Box(c), Box(d))
<1>1. PICK cx \in 0..1, cy \in 0..1 : c = Child(t, cx, cy)
  BY DEF Children
<1>2. PICK ex \in 0..1, ey \in 0..1 : d = Child(t, ex, ey)
  BY DEF Children
<1> DEFINE s == Scale(t.z + 1)
<1>3. /\ Box(c).x0 = Box(t).x0 + cx * s /\ Box(c).x1 = Box(c).x0 + s
      /\ Box(c).y0 = Box(t).y0 + cy * s /\ Box(c).y1 = Box(c).y0 + s
      /\ s \in Nat \ {0}
  BY <1>1, ChildBoxes
<1>4. /\ Box(d).x0 = Box(t).x0 + ex * s /\ Box(d).x1 = Box(d).x0 + s
      /\ Box(d).y0 = Box(t).y0 + ey * s /\ Box(d).y1 = Box(d).y0 + s
  BY <1>2, ChildBoxes
<1>5. Box(t).x0 \in Int /\ Box(t).y0 \in Int
  BY Boxes
<1>6. cx # ex \/ cy # ey
  BY <1>1, <1>2
<1> HIDE DEF s
<1>7. cx \in {0, 1} /\ cy \in {0, 1} /\ ex \in {0, 1} /\ ey \in {0, 1}
  OBVIOUS
<1>8. /\ 0 * s = 0 /\ 1 * s = s
  BY <1>3
<1>9. CASE cx # ex
  <2>1. Box(c).x1 <= Box(d).x0 \/ Box(d).x1 <= Box(c).x0
    BY <1>3, <1>4, <1>5, <1>7, <1>8, <1>9
  <2>2. Box(c).x0 \in Int /\ Box(c).x1 \in Int /\ Box(d).x0 \in Int /\ Box(d).x1 \in Int
    BY <1>3, <1>4, <1>5, <1>7, <1>8
  <2> QED
    BY <2>1, <2>2 DEF Intersects
<1>10. CASE cy # ey
  <2>1. Box(c).y1 <= Box(d).y0 \/ Box(d).y1 <= Box(c).y0
    BY <1>3, <1>4, <1>5, <1>7, <1>8, <1>10
  <2>2. Box(c).y0 \in Int /\ Box(c).y1 \in Int /\ Box(d).y0 \in Int /\ Box(d).y1 \in Int
    BY <1>3, <1>4, <1>5, <1>7, <1>8
  <2> QED
    BY <2>1, <2>2 DEF Intersects
<1> QED
  BY <1>6, <1>9, <1>10

\* They cover the tile.
LEMMA ChildrenCover ==
    ASSUME NEW t \in AllTiles, t.z < FineZoom, NEW x \in Int, NEW y \in Int,
           Within([x0 |-> x, y0 |-> y, x1 |-> x + 1, y1 |-> y + 1], Box(t))
    PROVE  \E c \in Children(t) :
              Within([x0 |-> x, y0 |-> y, x1 |-> x + 1, y1 |-> y + 1], Box(c))
<1> DEFINE s == Scale(t.z + 1)
           dx == IF x < Box(t).x0 + s THEN 0 ELSE 1
           dy == IF y < Box(t).y0 + s THEN 0 ELSE 1
           c == Child(t, dx, dy)
<1>1. dx \in 0..1 /\ dy \in 0..1
  OBVIOUS
<1>2. c \in Children(t)
  <2> HIDE DEF dx, dy
  <2> QED
    BY <1>1, ChildRecords
<1>3. /\ Box(c).x0 = Box(t).x0 + dx * s /\ Box(c).x1 = Box(c).x0 + s
      /\ Box(c).y0 = Box(t).y0 + dy * s /\ Box(c).y1 = Box(c).y0 + s
      /\ Box(t).x1 = Box(t).x0 + 2 * s /\ Box(t).y1 = Box(t).y0 + 2 * s
      /\ s \in Nat \ {0}
  <2> HIDE DEF dx, dy
  <2> QED
    BY <1>1, ChildBoxes
<1>4. Box(t).x0 \in Int /\ Box(t).y0 \in Int
  BY Boxes
<1>5. /\ Box(t).x0 <= x /\ x + 1 <= Box(t).x1 /\ Box(t).y0 <= y /\ y + 1 <= Box(t).y1
  BY DEF Within
<1> HIDE DEF c, s
<1>6. Box(c).x0 <= x /\ x + 1 <= Box(c).x1 /\ Box(c).y0 <= y /\ y + 1 <= Box(c).y1
  <2>1. 0 * s = 0 /\ 1 * s = s
    BY <1>3
  <2>2. Box(c).x0 <= x /\ x + 1 <= Box(c).x1
    BY <1>3, <1>4, <1>5, <2>1
  <2>3. Box(c).y0 <= y /\ y + 1 <= Box(c).y1
    BY <1>3, <1>4, <1>5, <2>1
  <2> QED
    BY <2>2, <2>3
<1> QED
  BY <1>2, <1>6 DEF Within

-----------------------------------------------------------------------------
(***************************************************************************)
(* Boxes within boxes.                                                     *)
(***************************************************************************)
IsBox(b) == b.x0 \in Int /\ b.y0 \in Int /\ b.x1 \in Int /\ b.y1 \in Int

\* What meets a part of a box meets the box.
LEMMA PartMeets ==
    ASSUME NEW a, NEW b, NEW c, IsBox(a), IsBox(b), IsBox(c), Within(a, b)
    PROVE  /\ Intersects(a, c) => Intersects(b, c)
           /\ Intersects(c, a) => Intersects(c, b)
BY DEF IsBox, Within, Intersects

\* A box within a box within a third lies within the third.
LEMMA WithinTransitive ==
    ASSUME NEW a, NEW b, NEW c, IsBox(a), IsBox(b), IsBox(c), Within(a, b), Within(b, c)
    PROVE  Within(a, c)
BY DEF IsBox, Within

\* No tile is empty.
LEMMA TilesAreBoxes == \A t \in AllTiles : IsBox(Box(t))
BY Boxes DEF IsBox

\* The inner rectangle lies within the ring around it.
LEMMA ProtectedWithinHalo ==
    ASSUME inner \in InnerRects
    PROVE  IsBox(Protected) /\ IsBox(Halo) /\ Within(Protected, Halo)
<1>1. /\ inner.minX \in Nat /\ inner.minY \in Nat /\ inner.maxX \in Nat /\ inner.maxY \in Nat
      /\ inner.maxX < TwoTo[FineZoom] /\ inner.maxY < TwoTo[FineZoom]
  BY ConstantsAssumption
<1>2. TwoTo[FineZoom] \in Nat
  BY ConstantsAssumption, PowersOfTwo
<1> QED
  BY <1>1, <1>2 DEF Protected, Halo, High, Low, IsBox, Within

-----------------------------------------------------------------------------
(***************************************************************************)
(* Sets as sequences.                                                      *)
(***************************************************************************)
\* SetToSeq lists every element once.
LEMMA Listed ==
    ASSUME NEW S, IsFiniteSet(S)
    PROVE  /\ SetToSeq(S) \in [1..Cardinality(S) -> S] /\ Cardinality(S) \in Nat
           /\ \A i, j \in 1..Cardinality(S) : SetToSeq(S)[i] = SetToSeq(S)[j] => i = j
           /\ \A e \in S : \E i \in 1..Cardinality(S) : SetToSeq(S)[i] = e
<1> DEFINE n == Cardinality(S)
<1>1. n \in Nat /\ ExistsBijection(1..n, S)
  BY FS_CardinalityType
<1>2. \E f \in [1..n -> S] : IsInjective(f)
  BY <1>1 DEF ExistsBijection, Bijection, Injection
<1>3. SetToSeq(S) \in [1..n -> S] /\ IsInjective(SetToSeq(S))
  BY <1>2 DEF SetToSeq
<1>4. SetToSeq(S) \in Injection(1..n, S)
  BY <1>3 DEF Injection
<1>5. IsFiniteSet(1..n) /\ Cardinality(1..n) = n
  BY <1>1, FS_Interval
<1>6. SetToSeq(S) \in Surjection(1..n, S)
  BY <1>4, <1>5, FS_Injection
<1> QED
  BY <1>1, <1>3, <1>6 DEF IsInjective, Surjection

\* SetToSeq(S) is a sequence over S of the length of S.
LEMMA ListedSeq ==
    ASSUME NEW S, IsFiniteSet(S)
    PROVE  /\ SetToSeq(S) \in Seq(S) /\ Len(SetToSeq(S)) = Cardinality(S)
           /\ ToSet(SetToSeq(S)) = S
<1>1. SetToSeq(S) \in [1..Cardinality(S) -> S] /\ Cardinality(S) \in Nat
  BY Listed
<1>2. SetToSeq(S) \in Seq(S)
  BY <1>1, SeqDef
<1>3. DOMAIN SetToSeq(S) = 1..Cardinality(S) /\ DOMAIN SetToSeq(S) = 1..Len(SetToSeq(S))
  BY <1>1, <1>2, LenProperties
<1>4. Len(SetToSeq(S)) \in Nat
  BY <1>2, LenProperties
<1>5. Len(SetToSeq(S)) = Cardinality(S)
  BY <1>1, <1>3, <1>4
<1>6. ToSet(SetToSeq(S)) = S
  BY <1>1, <1>3, Listed DEF ToSet
<1> QED
  BY <1>2, <1>5, <1>6

\* The last element and what is left without it.
LEMMA Popped ==
    ASSUME NEW S, NEW stack \in Seq(S), stack # <<>>
    PROVE  /\ Len(stack) \in Nat \ {0} /\ Last(stack) = stack[Len(stack)] /\ Last(stack) \in S
           /\ Front(stack) \in Seq(S) /\ Len(Front(stack)) = Len(stack) - 1
           /\ \A i \in 1..(Len(stack) - 1) : Front(stack)[i] = stack[i]
           /\ ToSet(stack) = ToSet(Front(stack)) \cup {Last(stack)}
<1>1. Len(stack) \in Nat \ {0} /\ \A i \in 1..Len(stack) : stack[i] \in S
  BY EmptySeq, LenProperties, ElementOfSeq
<1>2. /\ Front(stack) \in Seq(S) /\ Len(Front(stack)) = Len(stack) - 1
      /\ \A i \in 1..(Len(stack) - 1) : Front(stack)[i] = stack[i]
  <2>1. \A i \in 1..(Len(stack) - 1) : stack[i] \in S
    BY <1>1
  <2>2. /\ SubSeq(stack, 1, Len(stack) - 1) \in Seq(S)
        /\ Len(SubSeq(stack, 1, Len(stack) - 1)) =
              IF 1 <= Len(stack) - 1 THEN Len(stack) - 1 - 1 + 1 ELSE 0
        /\ \A i \in 1..(Len(stack) - 1 - 1 + 1) :
              SubSeq(stack, 1, Len(stack) - 1)[i] = stack[1 + i - 1]
    BY <1>1, <2>1, SubSeqProperties
  <2>3. ASSUME NEW i \in 1..(Len(stack) - 1)
        PROVE  SubSeq(stack, 1, Len(stack) - 1)[i] = stack[i]
    <3>1. 1 + i - 1 = i /\ i \in 1..(Len(stack) - 1 - 1 + 1)
      BY <1>1
    <3>2. SubSeq(stack, 1, Len(stack) - 1)[i] = stack[1 + i - 1]
      BY <2>2, <3>1
    <3> QED
      BY <3>1, <3>2
  <2>4. Len(SubSeq(stack, 1, Len(stack) - 1)) = Len(stack) - 1
    <3>1. \A n \in Nat \ {0} : (IF 1 <= n - 1 THEN n - 1 - 1 + 1 ELSE 0) = n - 1
      OBVIOUS
    <3>2. (IF 1 <= Len(stack) - 1 THEN Len(stack) - 1 - 1 + 1 ELSE 0) = Len(stack) - 1
      BY <1>1, <3>1
    <3>3. Len(SubSeq(stack, 1, Len(stack) - 1)) =
              IF 1 <= Len(stack) - 1 THEN Len(stack) - 1 - 1 + 1 ELSE 0
      BY <2>2
    <3> QED
      BY <3>2, <3>3
  <2> QED
    BY <2>2, <2>3, <2>4 DEF Front
<1>3. DOMAIN stack = 1..Len(stack) /\ DOMAIN Front(stack) = 1..(Len(stack) - 1)
  BY <1>2, LenProperties
<1>4. ToSet(stack) = ToSet(Front(stack)) \cup {stack[Len(stack)]}
  <2>1. 1..Len(stack) = (1..(Len(stack) - 1)) \cup {Len(stack)}
    BY <1>1
  <2>2. ASSUME NEW e
        PROVE  e \in ToSet(stack) <=> e \in ToSet(Front(stack)) \/ e = stack[Len(stack)]
    <3>1. e \in ToSet(stack) <=> \E i \in 1..Len(stack) : e = stack[i]
      BY <1>3 DEF ToSet
    <3>2. e \in ToSet(Front(stack)) <=> \E i \in 1..(Len(stack) - 1) : e = Front(stack)[i]
      BY <1>3 DEF ToSet
    <3> QED
      BY <1>2, <2>1, <3>1, <3>2
  <2> QED
    BY <2>2
<1> QED
  BY <1>1, <1>2, <1>4 DEF Last

\* A concatenation has the elements of both sequences.
LEMMA Joined ==
    ASSUME NEW S, NEW s \in Seq(S), NEW t \in Seq(S)
    PROVE  ToSet(s \o t) = ToSet(s) \cup ToSet(t)
<1>1. ToSet(s \o t) = Range(s \o t) /\ ToSet(s) = Range(s) /\ ToSet(t) = Range(t)
  BY DEF ToSet, Range
<1> QED
  BY <1>1, RangeConcatenation

-----------------------------------------------------------------------------
\* The four children as a list.
LEMMA ChildrenFinite ==
    ASSUME NEW t
    PROVE  IsFiniteSet(Children(t)) /\ Cardinality(Children(t)) \in 0..4
<1> DEFINE A == {Child(t, 0, 0)}  B == A \cup {Child(t, 0, 1)}  C == B \cup {Child(t, 1, 0)}
           D == C \cup {Child(t, 1, 1)}
<1>1. Children(t) = D
  <2>1. 0..1 = {0, 1}
    OBVIOUS
  <2> QED
    BY <2>1 DEF Children
<1>2. IsFiniteSet(A) /\ Cardinality(A) = 1
  BY FS_Singleton
<1> HIDE DEF A
<1>3. IsFiniteSet(B) /\ Cardinality(B) \in 0..2
  BY <1>2, FS_AddElement
<1> HIDE DEF B
<1>4. IsFiniteSet(C) /\ Cardinality(C) \in 0..3
  BY <1>3, FS_AddElement
<1> HIDE DEF C
<1>5. IsFiniteSet(D) /\ Cardinality(D) \in 0..4
  BY <1>4, FS_AddElement
<1> QED
  BY <1>1, <1>5

-----------------------------------------------------------------------------
(***************************************************************************)
(* The outer rectangle.                                                    *)
(***************************************************************************)
\* Multiples grow with the factor.
LEMMA Steps ==
    ASSUME NEW i \in Nat, NEW j \in Nat, NEW n \in Nat, i < j
    PROVE  (i + 1) * n <= j * n /\ (i + 1) * n \in Int /\ j * n \in Int
OBVIOUS

\* The tiles the planning starts from are finite in number and do not overlap.
LEMMA RootTiles ==
    ASSUME NEW rect \in InnerRects, NEW z \in OuterZooms, NEW margin \in Margins
    PROVE  /\ Roots(rect, z, margin) \subseteq AllTiles /\ IsFiniteSet(Roots(rect, z, margin))
           /\ \A a, b \in Roots(rect, z, margin) : a # b => ~Intersects(Box(a), Box(b))
<1>1. /\ z \in 0..FineZoom /\ FineZoom \in Nat /\ margin \in Nat
      /\ rect.minX \in Nat /\ rect.minY \in Nat /\ rect.maxX \in Nat /\ rect.maxY \in Nat
  BY ConstantsAssumption
<1>2. TwoTo[z] \in Nat \ {0} /\ TwoTo[FineZoom] \in Nat \ {0} /\ Scale(z) \in Nat \ {0}
  BY <1>1, Scales, PowersOfTwo
<1> DEFINE low(min) == High(0, (High(0, min - 1) \div Scale(z)) - margin)
           high(max) ==
              Low(TwoTo[z] - 1, (Low(TwoTo[FineZoom] - 1, max + 1) \div Scale(z)) + margin)
           Side == 0..(TwoTo[z] - 1)
<1>3. ASSUME NEW min \in Nat, NEW max \in Nat
      PROVE  low(min)..high(max) \subseteq Side
  <2>1. High(0, min - 1) \in Nat /\ Low(TwoTo[FineZoom] - 1, max + 1) \in Nat
    BY <1>2 DEF High, Low
  <2>2. /\ (High(0, min - 1) \div Scale(z)) \in Int
        /\ (Low(TwoTo[FineZoom] - 1, max + 1) \div Scale(z)) \in Int
    BY <1>2, <2>1
  <2>3. low(min) \in Nat
    BY <1>1, <2>2 DEF High
  <2>4. high(max) \in Int /\ high(max) <= TwoTo[z] - 1
    BY <1>1, <1>2, <2>2 DEF Low
  <2> HIDE DEF low, high
  <2> QED
    BY <1>2, <2>3, <2>4
<1> DEFINE T(x, y) == [x |-> x, y |-> y, z |-> z, inner |-> FALSE]
           Square == {T(x, y) : x \in Side, y \in Side}
<1>4. Roots(rect, z, margin) \subseteq Square
  <2>1. Roots(rect, z, margin) =
          {T(x, y) : x \in low(rect.minX)..high(rect.maxX), y \in low(rect.minY)..high(rect.maxY)}
    BY DEF Roots
  <2>2. /\ low(rect.minX)..high(rect.maxX) \subseteq Side
        /\ low(rect.minY)..high(rect.maxY) \subseteq Side
    BY <1>1, <1>3
  <2> HIDE DEF low, high, Side, T
  <2> QED
    BY <2>1, <2>2
<1>5. ASSUME NEW t \in Square
      PROVE  t \in AllTiles
  <2>1. PICK x \in Side, y \in Side : t = T(x, y)
    OBVIOUS
  <2> QED
    BY <1>1, <2>1 DEF AllTiles, Tile
<1>6. IsFiniteSet(Square)
  <2> DEFINE f == [p \in Side \X Side |-> T(p[1], p[2])]
  <2>1. IsFiniteSet(Side)
    <3>1. 0 \in Int /\ TwoTo[z] - 1 \in Int
      BY <1>2
    <3> QED
      BY <3>1, FS_Interval
  <2> HIDE DEF Side, T
  <2>2. IsFiniteSet(Side \X Side)
    BY <2>1, FS_Product
  <2>3. ASSUME NEW x \in Side, NEW y \in Side
        PROVE  <<x, y>> \in Side \X Side /\ f[<<x, y>>] = T(x, y)
    OBVIOUS
  <2>4. ASSUME NEW p \in Side \X Side
        PROVE  f[p] \in Square
    <3>1. p[1] \in Side /\ p[2] \in Side
      OBVIOUS
    <3> QED
      BY <3>1
  <2>5. ASSUME NEW t \in Square
        PROVE  \E p \in Side \X Side : f[p] = t
    <3>1. PICK x \in Side, y \in Side : t = T(x, y)
      OBVIOUS
    <3>2. <<x, y>> \in Side \X Side /\ f[<<x, y>>] = t
      BY <2>3, <3>1
    <3> HIDE DEF f
    <3> QED
      BY <3>2
  <2>6. f \in [Side \X Side -> Square]
    BY <2>4
  <2> HIDE DEF f, Square
  <2>7. f \in Surjection(Side \X Side, Square)
    BY <2>5, <2>6, Zenon DEF Surjection
  <2> QED
    BY <2>2, <2>7, FS_Surjection
<1>7. ASSUME NEW a \in Square, NEW b \in Square, a # b
      PROVE  ~Intersects(Box(a), Box(b))
  <2>1. PICK ax \in Side, ay \in Side : a = T(ax, ay)
    OBVIOUS
  <2>2. PICK bx \in Side, by \in Side : b = T(bx, by)
    OBVIOUS
  <2> DEFINE s == Scale(z)
  <2>3. /\ Box(a) = [x0 |-> ax * s, y0 |-> ay * s, x1 |-> (ax + 1) * s, y1 |-> (ay + 1) * s]
        /\ Box(b) = [x0 |-> bx * s, y0 |-> by * s, x1 |-> (bx + 1) * s, y1 |-> (by + 1) * s]
    BY <2>1, <2>2 DEF Box
  <2>4. ax # bx \/ ay # by
    <3> HIDE DEF T, Square
    <3> QED
      BY <1>7, <2>1, <2>2
  <2>5. ax \in Nat /\ ay \in Nat /\ bx \in Nat /\ by \in Nat /\ s \in Nat \ {0}
    BY <1>2
  <2> HIDE DEF s
  <2>6. ASSUME NEW m \in Nat, NEW n \in Nat, m # n
        PROVE  ~(m * s < (n + 1) * s /\ n * s < (m + 1) * s)
    <3>1. ASSUME NEW i \in Nat, NEW j \in Nat, i < j
          PROVE  (i + 1) * s <= j * s /\ (i + 1) * s \in Int /\ j * s \in Int
      BY <2>5, <3>1, Steps
    <3>2. CASE m < n
      BY <3>1, <3>2
    <3>3. CASE n < m
      BY <3>1, <3>3
    <3> QED
      BY <2>6, <3>2, <3>3
  <2> QED
    BY <2>3, <2>4, <2>5, <2>6 DEF Intersects
<1> HIDE DEF Square
<1> QED
  BY <1>4, <1>5, <1>6, <1>7, FS_Subset

-----------------------------------------------------------------------------
(***************************************************************************)
(* The inductive invariant.                                                *)
(***************************************************************************)
Types ==
    /\ inner \in InnerRects /\ limit \in Limits
    /\ \E z \in OuterZooms, margin \in Margins : outer = Roots(inner, z, margin)
    /\ phase \in {"divide", "balance", "done", "refused"}
    /\ pending \in Seq(AllTiles)
    /\ leaves \subseteq AllTiles /\ IsFiniteSet(leaves)
    /\ phase \in {"balance", "done"} => pending = <<>>

\* No two tiles overlap, be they leaves or on the stack.
Apart ==
    /\ \A a, b \in leaves : a # b => ~Intersects(Box(a), Box(b))
    /\ \A i, j \in 1..Len(pending) : i # j => ~Intersects(Box(pending[i]), Box(pending[j]))
    /\ \A a \in leaves, i \in 1..Len(pending) : ~Intersects(Box(a), Box(pending[i]))

AtHand == leaves \cup ToSet(pending)

Inside == \A t \in AtHand : \E r \in outer : Within(Box(t), Box(r))

Point(x, y) == [x0 |-> x, y0 |-> y, x1 |-> x + 1, y1 |-> y + 1]

Covered ==
    \A r \in outer, x \in Int, y \in Int :
        Within(Point(x, y), Box(r)) => \E t \in AtHand : Within(Point(x, y), Box(t))

\* The leaves of the inner rectangle are marked, and only they; nothing coarse is
\* left in the ring around it.
Marked ==
    \A l \in leaves : /\ l.inner <=> Intersects(Box(l), Protected)
                      /\ Intersects(Box(l), Halo) => l.z = FineZoom

Counted == phase # "refused" => Cardinality(leaves) <= limit

IInv == Types /\ Apart /\ Inside /\ Covered /\ Marked /\ Counted

-----------------------------------------------------------------------------
(***************************************************************************)
(* A step from the tiles at hand to those after it, as sets.               *)
(***************************************************************************)
\* The outer rectangle consists of tiles.
LEMMA OuterTiles ==
    ASSUME Types
    PROVE  \A r \in outer : r \in AllTiles
BY RootTiles DEF Types

\* A tile that keeps its box is still inside, and covers what it covered.
LEMMA SameCover ==
    ASSUME Inside, Covered, outer' = outer,
           \A t \in AtHand' : \E u \in AtHand : Box(t) = Box(u),
           \A u \in AtHand : \E t \in AtHand' : Box(t) = Box(u)
    PROVE  Inside' /\ Covered'
<1>1. Inside'
  BY DEF Inside
<1>2. Covered'
  <2> SUFFICES ASSUME NEW r \in outer, NEW x \in Int, NEW y \in Int, Within(Point(x, y), Box(r))
               PROVE  \E t \in AtHand' : Within(Point(x, y), Box(t))
    BY DEF Covered
  <2>1. PICK u \in AtHand : Within(Point(x, y), Box(u))
    BY DEF Covered
  <2>2. PICK t \in AtHand' : Box(t) = Box(u)
    OBVIOUS
  <2> QED
    BY <2>1, <2>2
<1> QED
  BY <1>1, <1>2

\* A tile gives way to its children.
LEMMA ChildrenCoverAgain ==
    ASSUME Types, Inside, Covered, outer' = outer,
           NEW t \in AtHand, t \in AllTiles, t.z < FineZoom, AtHand \subseteq AllTiles,
           AtHand' \subseteq AtHand \cup Children(t),
           (AtHand \ {t}) \cup Children(t) \subseteq AtHand'
    PROVE  Inside' /\ Covered'
<1>1. Inside'
  <2> SUFFICES ASSUME NEW u \in AtHand'
               PROVE  \E r \in outer : Within(Box(u), Box(r))
    BY DEF Inside
  <2>1. CASE u \in AtHand
    BY <2>1 DEF Inside
  <2>2. CASE u \in Children(t)
    <3>1. PICK r \in outer : Within(Box(t), Box(r))
      BY DEF Inside
    <3>2. Within(Box(u), Box(t)) /\ u \in AllTiles
      BY <2>2, ChildrenWithin
    <3>3. r \in AllTiles
      BY OuterTiles
    <3> QED
      BY <3>1, <3>2, <3>3, TilesAreBoxes, WithinTransitive
  <2> QED
    BY <2>1, <2>2
<1>2. Covered'
  <2> SUFFICES ASSUME NEW r \in outer, NEW x \in Int, NEW y \in Int, Within(Point(x, y), Box(r))
               PROVE  \E u \in AtHand' : Within(Point(x, y), Box(u))
    BY DEF Covered
  <2>1. PICK u \in AtHand : Within(Point(x, y), Box(u))
    BY DEF Covered
  <2>2. CASE u # t
    BY <2>1, <2>2
  <2>3. CASE u = t
    <3>1. \E c \in Children(t) : Within(Point(x, y), Box(c))
      BY <2>1, <2>3, ChildrenCover DEF Point
    <3> QED
      BY <3>1
  <2> QED
    BY <2>2, <2>3
<1> QED
  BY <1>1, <1>2

-----------------------------------------------------------------------------
\* Only the stack holds tiles at first.
LEMMA InitInv == Init => IInv
<1> SUFFICES ASSUME Init PROVE IInv
  OBVIOUS
<1>1. PICK z \in OuterZooms, margin \in Margins : outer = Roots(inner, z, margin)
  BY DEF Init
<1>2. /\ inner \in InnerRects /\ limit \in Limits /\ phase = "divide"
      /\ pending = SetToSeq(outer) /\ leaves = {}
  BY DEF Init
<1>3. /\ outer \subseteq AllTiles /\ IsFiniteSet(outer)
      /\ \A a, b \in outer : a # b => ~Intersects(Box(a), Box(b))
  BY <1>1, <1>2, RootTiles
<1>4. /\ pending \in Seq(outer) /\ ToSet(pending) = outer
      /\ Len(pending) = Cardinality(outer)
  BY <1>2, <1>3, ListedSeq
<1>5. Types
  BY <1>1, <1>2, <1>3, <1>4, FS_EmptySet, SeqMonotonic DEF Types
<1>6. Apart
  <2>1. ASSUME NEW i \in 1..Len(pending), NEW j \in 1..Len(pending), i # j
        PROVE  ~Intersects(Box(pending[i]), Box(pending[j]))
    <3>1. pending[i] # pending[j] /\ pending[i] \in outer /\ pending[j] \in outer
      BY <1>2, <1>3, <1>4, <2>1, Listed
    <3> QED
      BY <1>3, <3>1
  <2> QED
    BY <1>2, <2>1 DEF Apart
<1>7. AtHand = outer
  BY <1>2, <1>4 DEF AtHand
<1>8. Inside
  BY <1>3, <1>7, TilesAreBoxes DEF Inside, Within, IsBox
<1>9. Covered
  BY <1>7 DEF Covered
<1>10. Marked /\ Counted
  BY <1>2, FS_EmptySet, ConstantsAssumption DEF Marked, Counted
<1> QED
  BY <1>5, <1>6, <1>8, <1>9, <1>10 DEF IInv

-----------------------------------------------------------------------------
(***************************************************************************)
(* Divide.                                                                 *)
(***************************************************************************)
\* The stack when its last tile gives way to its children.
LEMMA DividedStack ==
    ASSUME IInv, pending # <<>>, Last(pending).z < FineZoom,
           pending' = Front(pending) \o SetToSeq(Children(Last(pending)))
    PROVE  LET t == Last(pending)
               n == Len(pending)
           IN  /\ pending' \in Seq(AllTiles) /\ t \in AllTiles /\ n \in Nat \ {0} /\ t = pending[n]
               /\ ToSet(pending') = ToSet(Front(pending)) \cup Children(t)
               /\ ToSet(pending) = ToSet(Front(pending)) \cup {t}
               /\ \A i \in 1..Len(pending') :
                     \/ i \in 1..(n - 1) /\ pending'[i] = pending[i]
                     \/ i > n - 1 /\ pending'[i] \in Children(t)
               /\ \A i, j \in 1..Len(pending') :
                     i > n - 1 /\ j > n - 1 /\ i # j => pending'[i] # pending'[j]
<1> DEFINE t == Last(pending)
           n == Len(pending)
           q == SetToSeq(Children(t))
           f == Front(pending)
<1>1. pending \in Seq(AllTiles)
  BY DEF IInv, Types
<1>2. /\ n \in Nat \ {0} /\ t = pending[n] /\ t \in AllTiles
      /\ f \in Seq(AllTiles) /\ Len(f) = n - 1
      /\ \A i \in 1..(n - 1) : f[i] = pending[i]
      /\ ToSet(pending) = ToSet(f) \cup {t}
  BY <1>1, Popped
<1>3. Children(t) \subseteq AllTiles /\ IsFiniteSet(Children(t))
  BY <1>2, ChildrenWithin, ChildrenFinite
<1>4. /\ q \in Seq(Children(t)) /\ Len(q) = Cardinality(Children(t)) /\ ToSet(q) = Children(t)
      /\ Len(q) \in Nat
      /\ \A i, j \in 1..Len(q) : q[i] = q[j] => i = j
      /\ \A i \in 1..Len(q) : q[i] \in Children(t)
  BY <1>3, Listed, ListedSeq, ElementOfSeq
<1>5. q \in Seq(AllTiles)
  BY <1>3, <1>4, SeqMonotonic
<1>6. pending' = f \o q
  OBVIOUS
<1> HIDE DEF t, n, q, f
<1>7. /\ f \o q \in Seq(AllTiles) /\ Len(f \o q) = Len(f) + Len(q)
      /\ \A i \in 1..(Len(f) + Len(q)) :
            (f \o q)[i] = IF i <= Len(f) THEN f[i] ELSE q[i - Len(f)]
  BY <1>2, <1>5, ConcatProperties
<1>8. ToSet(pending') = ToSet(f) \cup Children(t)
  BY <1>2, <1>4, <1>5, <1>6, Joined
<1>9. Len(pending') = (n - 1) + Len(q)
  BY <1>2, <1>6, <1>7
<1>10. ASSUME NEW i \in 1..Len(pending')
       PROVE  \/ i \in 1..(n - 1) /\ pending'[i] = pending[i]
              \/ /\ i > n - 1 /\ i - (n - 1) \in 1..Len(q)
                 /\ pending'[i] = q[i - (n - 1)] /\ pending'[i] \in Children(t)
  <2>1. CASE i <= n - 1
    BY <1>2, <1>4, <1>6, <1>7, <1>9, <2>1
  <2>2. CASE i > n - 1
    <3>1. i - (n - 1) \in 1..Len(q)
      BY <1>2, <1>4, <1>9, <2>2
    <3>2. pending'[i] = q[i - (n - 1)]
      BY <1>2, <1>4, <1>6, <1>7, <1>9, <2>2
    <3> QED
      BY <1>4, <2>2, <3>1, <3>2
  <2> QED
    BY <1>2, <1>4, <1>9, <2>1, <2>2
<1>11. ASSUME NEW i \in 1..Len(pending'), NEW j \in 1..Len(pending'), i > n - 1, j > n - 1, i # j
       PROVE  pending'[i] # pending'[j]
  <2>1. /\ i - (n - 1) \in 1..Len(q) /\ pending'[i] = q[i - (n - 1)]
        /\ j - (n - 1) \in 1..Len(q) /\ pending'[j] = q[j - (n - 1)]
    BY <1>2, <1>4, <1>9, <1>10, <1>11
  <2>2. i - (n - 1) # j - (n - 1)
    BY <1>2, <1>4, <1>9, <1>11
  <2> QED
    BY <1>4, <2>1, <2>2
<1> QED
  BY <1>2, <1>6, <1>7, <1>8, <1>10, <1>11 DEF t, n, f

\* Dividing a tile on the stack makes no two tiles overlap.
LEMMA DivideApart ==
    ASSUME IInv, pending # <<>>, Last(pending).z < FineZoom,
           pending' = Front(pending) \o SetToSeq(Children(Last(pending))), leaves' = leaves
    PROVE  Apart'
<1> DEFINE t == Last(pending)
           n == Len(pending)
<1>1. /\ pending' \in Seq(AllTiles) /\ t \in AllTiles /\ n \in Nat \ {0} /\ t = pending[n]
      /\ \A i \in 1..Len(pending') :
            \/ i \in 1..(n - 1) /\ pending'[i] = pending[i]
            \/ i > n - 1 /\ pending'[i] \in Children(t)
      /\ \A i, j \in 1..Len(pending') :
            i > n - 1 /\ j > n - 1 /\ i # j => pending'[i] # pending'[j]
  BY DividedStack
<1>2. pending \in Seq(AllTiles) /\ leaves \subseteq AllTiles
  BY DEF IInv, Types
<1>3. Apart /\ t.z < FineZoom
  BY DEF IInv
<1> HIDE DEF t, n
<1>4. ASSUME NEW c \in Children(t), NEW u \in AllTiles, ~Intersects(Box(u), Box(t))
      PROVE  ~Intersects(Box(u), Box(c)) /\ ~Intersects(Box(c), Box(u))
  <2>1. c \in AllTiles /\ Within(Box(c), Box(t))
    BY <1>1, <1>3, ChildrenWithin
  <2>2. ~Intersects(Box(u), Box(c))
    BY <1>1, <1>4, <2>1, TilesAreBoxes, PartMeets
  <2> QED
    BY <2>2 DEF Intersects
<1>5. ASSUME NEW i \in 1..Len(pending'), NEW j \in 1..Len(pending'), i # j
      PROVE  ~Intersects(Box(pending'[i]), Box(pending'[j]))
  <2>1. \A k \in 1..(n - 1) : k \in 1..Len(pending) /\ k # n /\ n \in 1..Len(pending)
    BY <1>1 DEF n
  <2>2. \A k \in 1..(n - 1) : pending[k] \in AllTiles /\ ~Intersects(Box(pending[k]), Box(t))
    BY <1>1, <1>2, <1>3, <2>1, ElementOfSeq DEF Apart
  <2>3. CASE i \in 1..(n - 1) /\ pending'[i] = pending[i] /\ j \in 1..(n - 1) /\ pending'[j] = pending[j]
    BY <1>3, <1>5, <2>1, <2>3 DEF Apart
  <2>4. CASE i \in 1..(n - 1) /\ pending'[i] = pending[i] /\ j > n - 1 /\ pending'[j] \in Children(t)
    BY <1>4, <2>2, <2>4
  <2>5. CASE i > n - 1 /\ pending'[i] \in Children(t) /\ j \in 1..(n - 1) /\ pending'[j] = pending[j]
    BY <1>4, <2>2, <2>5
  <2>6. CASE i > n - 1 /\ pending'[i] \in Children(t) /\ j > n - 1 /\ pending'[j] \in Children(t)
    <3>1. pending'[i] # pending'[j]
      BY <1>1, <1>5, <2>6
    <3> QED
      BY <1>1, <1>3, <2>6, <3>1, ChildrenApart
  <2> QED
    BY <1>1, <2>3, <2>4, <2>5, <2>6
<1>6. ASSUME NEW a \in leaves, NEW i \in 1..Len(pending')
      PROVE  ~Intersects(Box(a), Box(pending'[i]))
  <2>1. n \in 1..Len(pending)
    BY <1>1 DEF n
  <2>2. CASE i \in 1..(n - 1) /\ pending'[i] = pending[i]
    <3>1. i \in 1..Len(pending)
      BY <1>1, <2>2 DEF n
    <3> QED
      BY <1>3, <2>2, <3>1 DEF Apart
  <2>3. CASE i > n - 1 /\ pending'[i] \in Children(t)
    <3>1. ~Intersects(Box(a), Box(t)) /\ a \in AllTiles
      BY <1>1, <1>2, <1>3, <2>1 DEF Apart
    <3> QED
      BY <1>4, <2>3, <3>1
  <2> QED
    BY <1>1, <2>2, <2>3
<1> QED
  BY <1>3, <1>5, <1>6 DEF Apart

\* A tile that is divided leaves its children on the stack.
LEMMA DivideTile ==
    ASSUME IInv, pending # <<>>, Divides(Last(pending)),
           pending' = Front(pending) \o SetToSeq(Children(Last(pending))),
           UNCHANGED <<inner, outer, limit, leaves>>
    PROVE  /\ pending' \in Seq(AllTiles) /\ leaves' \subseteq AllTiles /\ IsFiniteSet(leaves')
           /\ Apart' /\ Inside' /\ Covered' /\ Marked'
<1> DEFINE t == Last(pending)
<1>1. t.z < FineZoom
  BY DEF Divides
<1>2. /\ pending' \in Seq(AllTiles) /\ t \in AllTiles
      /\ ToSet(pending') = ToSet(Front(pending)) \cup Children(t)
      /\ ToSet(pending) = ToSet(Front(pending)) \cup {t}
  BY <1>1, DividedStack
<1>3. Apart'
  BY <1>1, DivideApart
<1>4. Types /\ Inside /\ Covered /\ Marked
  BY DEF IInv
<1>5. AtHand \subseteq AllTiles
  <2>1. pending \in Seq(AllTiles) /\ leaves \subseteq AllTiles
    BY <1>4 DEF Types
  <2>2. ToSet(pending) \subseteq AllTiles
    BY <2>1, RangeOfSeq DEF ToSet, Range
  <2> QED
    BY <2>1, <2>2 DEF AtHand
<1>6. Inside' /\ Covered'
  <2> HIDE DEF t
  <2>1. t \in AtHand /\ t.z < FineZoom
    BY <1>1, <1>2 DEF AtHand, t
  <2>2. /\ AtHand' \subseteq AtHand \cup Children(t)
        /\ (AtHand \ {t}) \cup Children(t) \subseteq AtHand'
    BY <1>2 DEF AtHand
  <2> QED
    BY <1>2, <1>4, <1>5, <2>1, <2>2, ChildrenCoverAgain
<1>7. Marked'
  BY <1>4 DEF Marked, Protected, Halo
<1> QED
  BY <1>2, <1>3, <1>4, <1>6, <1>7 DEF Types

\* A tile that is not divided becomes a leaf.
LEMMA KeepTile ==
    ASSUME IInv, pending # <<>>, ~Divides(Last(pending)),
           pending' = Front(pending),
           leaves' = leaves \cup {[Last(pending) EXCEPT !.inner = IsInner(Last(pending))]},
           UNCHANGED <<inner, outer, limit>>
    PROVE  /\ pending' \in Seq(AllTiles) /\ leaves' \subseteq AllTiles /\ IsFiniteSet(leaves')
           /\ Apart' /\ Inside' /\ Covered' /\ Marked'
<1> DEFINE t == Last(pending)
           l == [t EXCEPT !.inner = IsInner(t)]
           n == Len(pending)
<1>1. /\ pending \in Seq(AllTiles) /\ leaves \subseteq AllTiles /\ IsFiniteSet(leaves)
      /\ Apart /\ Inside /\ Covered /\ Marked /\ inner \in InnerRects
  BY DEF IInv, Types
<1>2. /\ n \in Nat \ {0} /\ t = pending[n] /\ t \in AllTiles
      /\ Front(pending) \in Seq(AllTiles) /\ Len(Front(pending)) = n - 1
      /\ \A i \in 1..(n - 1) : Front(pending)[i] = pending[i]
      /\ ToSet(pending) = ToSet(Front(pending)) \cup {t}
  BY <1>1, Popped
<1> HIDE DEF t, n
<1>3. /\ t.z \in 0..FineZoom
      /\ t = [x |-> t.x, y |-> t.y, z |-> t.z, inner |-> t.inner]
      /\ IsInner(t) \in BOOLEAN
  BY <1>2, TileFields DEF IsInner, Intersects
<1>4. /\ l.x = t.x /\ l.y = t.y /\ l.z = t.z /\ l.inner = IsInner(t)
      /\ l \in AllTiles
  BY <1>2, <1>3 DEF AllTiles, Tile
<1>5. Box(l) = Box(t)
  BY <1>4 DEF Box
<1>6. leaves' = leaves \cup {l} /\ pending' = Front(pending)
  BY DEF t
<1> HIDE DEF l
<1>7. Apart'
  <2>1. \A i \in 1..Len(pending') :
           i \in 1..n /\ i # n /\ pending'[i] = pending[i] /\ n \in 1..n
    BY <1>2, <1>6
  <2>2. \A a \in leaves : ~Intersects(Box(a), Box(t)) /\ ~Intersects(Box(t), Box(a))
    BY <1>1, <1>2 DEF Apart, Intersects, n
  <2>3. \A i \in 1..Len(pending') : ~Intersects(Box(l), Box(pending'[i]))
    <3>1. ASSUME NEW i \in 1..Len(pending')
          PROVE  ~Intersects(Box(pending[n]), Box(pending[i]))
      BY <1>1, <1>2, <2>1 DEF Apart, n
    <3> QED
      BY <1>2, <1>5, <2>1, <3>1
  <2>4. \A a, b \in leaves' : a # b => ~Intersects(Box(a), Box(b))
    BY <1>1, <1>5, <1>6, <2>2 DEF Apart
  <2>5. \A i, j \in 1..Len(pending') : i # j => ~Intersects(Box(pending'[i]), Box(pending'[j]))
    BY <1>1, <2>1 DEF Apart, n
  <2>6. \A a \in leaves', i \in 1..Len(pending') : ~Intersects(Box(a), Box(pending'[i]))
    BY <1>1, <1>6, <2>1, <2>3 DEF Apart, n
  <2> QED
    BY <2>4, <2>5, <2>6 DEF Apart
<1>8. Inside' /\ Covered'
  <2>1. t \in AtHand /\ l \in AtHand'
    BY <1>2, <1>6 DEF AtHand
  <2>2. AtHand' \subseteq AtHand \cup {l} /\ AtHand \subseteq AtHand' \cup {t}
    BY <1>2, <1>6 DEF AtHand
  <2> QED
    BY <1>1, <1>5, <2>1, <2>2, SameCover
<1>9. Marked'
  <2>1. Protected' = Protected /\ Halo' = Halo
    BY DEF Protected, Halo
  <2>2. /\ l.inner <=> Intersects(Box(l), Protected)
        /\ Intersects(Box(l), Halo) => l.z = FineZoom
    <3>1. Intersects(Box(t), Halo) => t.z = FineZoom
      BY <1>3, ConstantsAssumption DEF Divides, t
    <3>2. Intersects(Box(t), Protected) => Intersects(Box(t), Halo)
      BY <1>1, <1>2, ProtectedWithinHalo, TilesAreBoxes, PartMeets
    <3> QED
      BY <1>4, <1>5, <3>1, <3>2 DEF IsInner
  <2> QED
    BY <1>1, <1>6, <2>1, <2>2 DEF Marked
<1>10. leaves' \subseteq AllTiles /\ IsFiniteSet(leaves')
  BY <1>1, <1>4, <1>6, FS_AddElement
<1> QED
  BY <1>2, <1>6, <1>7, <1>8, <1>9, <1>10

\* A turn of the loop over the stack keeps the strengthening.
LEMMA DivideInv == IInv /\ Divide => IInv'
<1> SUFFICES ASSUME IInv, Divide PROVE IInv'
  OBVIOUS
<1>1. pending # <<>> /\ phase = "divide" /\ UNCHANGED <<inner, outer, limit>>
  BY DEF Divide
<1>2. /\ pending' \in Seq(AllTiles) /\ leaves' \subseteq AllTiles /\ IsFiniteSet(leaves')
      /\ Apart' /\ Inside' /\ Covered' /\ Marked'
  <2>1. CASE Divides(Last(pending))
    BY <1>1, <2>1, DivideTile DEF Divide
  <2>2. CASE ~Divides(Last(pending))
    BY <1>1, <2>2, KeepTile DEF Divide
  <2> QED
    BY <2>1, <2>2
<1>3. phase' = IF Len(pending') + Cardinality(leaves') > limit THEN "refused" ELSE phase
  BY DEF Divide
<1>4. Types'
  BY <1>1, <1>2, <1>3 DEF IInv, Types
<1>5. Counted'
  <2>1. Len(pending') \in Nat /\ Cardinality(leaves') \in Nat /\ limit \in Nat
    BY <1>2, LenProperties, FS_CardinalityType, ConstantsAssumption DEF IInv, Types
  <2> QED
    BY <1>1, <1>3, <2>1 DEF Counted
<1> QED
  BY <1>2, <1>4, <1>5 DEF IInv

-----------------------------------------------------------------------------
(***************************************************************************)
(* Split, and the other steps.                                             *)
(***************************************************************************)
\* A leaf that is split has a finer neighbour, so it lies outside the ring around
\* the inner rectangle, and so do its children.
LEMMA SplitLeaf ==
    ASSUME IInv, phase = "balance", NEW t \in TooCoarse, ~Refuses,
           leaves' = (leaves \ {t}) \cup Children(t),
           UNCHANGED <<inner, outer, limit, phase, pending>>
    PROVE  IInv'
<1>1. /\ leaves \subseteq AllTiles /\ IsFiniteSet(leaves) /\ inner \in InnerRects /\ limit \in Nat
      /\ pending = <<>> /\ Types /\ Apart /\ Inside /\ Covered /\ Marked
  BY ConstantsAssumption DEF IInv, Types
<1>2. t \in leaves /\ t \in AllTiles /\ t.z < FineZoom
  <2>1. PICK b \in leaves : t.z < b.z
    BY DEF TooCoarse
  <2>2. t \in leaves
    BY DEF TooCoarse
  <2> QED
    BY <1>1, <2>1, <2>2, TileFields, ConstantsAssumption
<1>3. \A c \in Children(t) : /\ c \in AllTiles /\ ~c.inner /\ IsBox(Box(c))
                             /\ Within(Box(c), Box(t))
  BY <1>2, ChildrenWithin, TilesAreBoxes
<1>4. IsBox(Box(t)) /\ Len(pending) = 0
  BY <1>1, <1>2, TilesAreBoxes, EmptySeq
<1>5. Types'
  <2>1. IsFiniteSet(leaves \ {t}) /\ IsFiniteSet(Children(t))
    BY <1>1, FS_RemoveElement, ChildrenFinite
  <2>2. IsFiniteSet(leaves')
    BY <2>1, FS_Union
  <2> QED
    BY <1>1, <1>3, <2>2 DEF Types
<1>6. Apart'
  <2>1. ASSUME NEW a \in leaves, a # t, NEW c \in Children(t)
        PROVE  ~Intersects(Box(a), Box(c)) /\ ~Intersects(Box(c), Box(a))
    <3>1. ~Intersects(Box(t), Box(a)) /\ IsBox(Box(a))
      BY <1>1, <1>2, <2>1, TilesAreBoxes DEF Apart
    <3>2. ~Intersects(Box(c), Box(a))
      BY <1>3, <1>4, <3>1, PartMeets
    <3> QED
      BY <3>2 DEF Intersects
  <2>2. \A c, d \in Children(t) : c # d => ~Intersects(Box(c), Box(d))
    BY <1>2, ChildrenApart
  <2>3. \A a, b \in leaves' : a # b => ~Intersects(Box(a), Box(b))
    BY <1>1, <2>1, <2>2 DEF Apart
  <2> QED
    BY <1>4, <2>3 DEF Apart
<1>7. Inside' /\ Covered'
  <2>1. AtHand = leaves /\ AtHand' = leaves'
    BY <1>1 DEF AtHand, ToSet
  <2>2. /\ AtHand' \subseteq AtHand \cup Children(t)
        /\ (AtHand \ {t}) \cup Children(t) \subseteq AtHand'
    BY <2>1
  <2> QED
    BY <1>1, <1>2, <2>1, <2>2, ChildrenCoverAgain
<1>8. Marked'
  <2>1. Protected' = Protected /\ Halo' = Halo
    BY DEF Protected, Halo
  <2>2. ASSUME NEW c \in Children(t)
        PROVE  ~Intersects(Box(c), Halo) /\ ~Intersects(Box(c), Protected)
    <3>1. ~Intersects(Box(t), Halo)
      BY <1>1, <1>2, TileFields, ConstantsAssumption DEF Marked
    <3>2. ~Intersects(Box(c), Halo)
      BY <1>1, <1>3, <1>4, <3>1, ProtectedWithinHalo, PartMeets
    <3> QED
      BY <1>1, <1>3, <3>2, ProtectedWithinHalo, PartMeets
  <2> QED
    BY <1>1, <1>3, <2>1, <2>2 DEF Marked
<1>9. Counted'
  <2>1. /\ Cardinality(leaves) \in Nat /\ IsFiniteSet(leaves \ {t})
        /\ Cardinality(leaves \ {t}) = Cardinality(leaves) - 1
    BY <1>1, <1>2, FS_RemoveElement, FS_CardinalityType
  <2>2. IsFiniteSet(Children(t)) /\ Cardinality(Children(t)) \in 0..4
    BY ChildrenFinite
  <2>3. Cardinality((leaves \ {t}) \cap Children(t)) \in Nat
    BY <2>1, FS_Subset, FS_CardinalityType
  <2>4. Cardinality(leaves') = Cardinality(leaves \ {t}) + Cardinality(Children(t))
                                 - Cardinality((leaves \ {t}) \cap Children(t))
    BY <2>1, <2>2, FS_Union
  <2>5. Cardinality(leaves) + 3 <= limit
    BY <1>1, <2>1 DEF Refuses
  <2> QED
    BY <1>1, <2>1, <2>2, <2>3, <2>4, <2>5 DEF Counted
<1> QED
  BY <1>5, <1>6, <1>7, <1>8, <1>9 DEF IInv

\* Changing the phase only is harmless.
LEMMA PhaseInv ==
    ASSUME IInv, UNCHANGED <<inner, outer, limit, pending, leaves>>,
           \/ phase' = phase
           \/ phase = "divide" /\ pending = <<>> /\ phase' = "balance"
           \/ phase = "balance" /\ phase' \in {"done", "refused"}
    PROVE  IInv'
<1>1. Types'
  BY DEF IInv, Types
<1>2. Apart' /\ Marked' /\ Counted'
  BY DEF IInv, Apart, Marked, Counted, Protected, Halo
<1>3. AtHand' = AtHand
  BY DEF AtHand
<1>4. Inside' /\ Covered'
  BY <1>3 DEF IInv, Inside, Covered
<1> QED
  BY <1>1, <1>2, <1>4 DEF IInv

\* Every step keeps the strengthening.
LEMMA InvStep == IInv /\ [Next]_vars => IInv'
<1> SUFFICES ASSUME IInv, [Next]_vars PROVE IInv'
  OBVIOUS
<1>1. CASE Divide
  BY <1>1, DivideInv
<1>2. CASE Divided
  BY <1>2, PhaseInv DEF Divided
<1>3. CASE Split
  <2>1. PICK t \in TooCoarse : leaves' = (leaves \ {t}) \cup Children(t)
    BY <1>3 DEF Split
  <2> QED
    BY <1>3, <2>1, SplitLeaf DEF Split
<1>4. CASE Finish
  BY <1>4, PhaseInv DEF Finish
<1>5. CASE UNCHANGED vars
  BY <1>5, PhaseInv DEF vars
<1>6. CASE Stop
  BY <1>5, <1>6 DEF Stop
<1> QED
  BY <1>1, <1>2, <1>3, <1>4, <1>5, <1>6 DEF Next

\* The strengthening holds of every plan.
THEOREM InvHolds == Spec => []IInv
BY InitInv, InvStep, PTL DEF Spec

\* At every step of planTerrainCoverage the plan is a partition of the outer
\* rectangle without holes or overlaps, within the page limit, with the inner
\* rectangle untouched: for every map, every rectangle and every limit.
THEOREM PartitionIsKept == Spec => []PartitionKept
<1>1. IInv => PartitionKept
  <2> SUFFICES ASSUME IInv PROVE PartitionKept
    OBVIOUS
  <2>1. /\ pending \in Seq(AllTiles) /\ leaves \subseteq AllTiles
        /\ Types /\ Apart /\ Inside /\ Covered /\ Marked /\ Counted
    BY DEF IInv, Types
  <2>2. ToSet(pending) \subseteq AllTiles
    BY <2>1, RangeOfSeq DEF ToSet, Range
  <2>3. TypeOK
    BY <2>1, <2>2 DEF Types, TypeOK, AllTiles
  <2>4. CoversOnce
    <3>1. \A a, b \in AtHand : a # b => ~Intersects(Box(a), Box(b))
      <4>1. \A t \in ToSet(pending) : \E i \in 1..Len(pending) : t = pending[i]
        BY <2>1, LenProperties DEF ToSet
      <4>2. \A a \in leaves, t \in ToSet(pending) :
               ~Intersects(Box(a), Box(t)) /\ ~Intersects(Box(t), Box(a))
        BY <2>1, <4>1 DEF Apart, Intersects
      <4>3. \A t, u \in ToSet(pending) : t # u => ~Intersects(Box(t), Box(u))
        BY <2>1, <4>1 DEF Apart
      <4> QED
        BY <2>1, <4>2, <4>3 DEF AtHand, Apart
    <3>2. ASSUME NEW r \in outer, NEW p \in Points(Box(r))
          PROVE  \E t \in AtHand : Within(p, Box(t))
      <4>1. IsBox(Box(r))
        BY <2>1, OuterTiles, TilesAreBoxes
      <4>2. PICK x \in Box(r).x0..(Box(r).x1 - 1), y \in Box(r).y0..(Box(r).y1 - 1) :
               p = Point(x, y)
        BY DEF Points, Point
      <4>3. x \in Int /\ y \in Int /\ Within(Point(x, y), Box(r))
        BY <4>1, <4>2 DEF IsBox, Within, Point
      <4> QED
        BY <2>1, <4>2, <4>3 DEF Covered
    <3> QED
      BY <2>1, <3>1, <3>2 DEF CoversOnce, AtHand, Inside
  <2>5. InnerKept
    BY <2>1 DEF InnerKept, Marked
  <2>6. WithinLimit
    BY <2>1 DEF WithinLimit, Counted
  <2> QED
    BY <2>3, <2>4, <2>5, <2>6 DEF PartitionKept
<1> QED
  BY <1>1, InvHolds, PTL

-----------------------------------------------------------------------------
(***************************************************************************)
(* Pages that meet.  Lo and Hi are the ends of an edge along its axis.     *)
(***************************************************************************)
Lo(t, side) == IF side < 2 THEN Box(t).y0 ELSE Box(t).x0
Hi(t, side) == IF side < 2 THEN Box(t).y1 ELSE Box(t).x1

Opposite(side) == CASE side = 0 -> 1 [] side = 1 -> 0 [] side = 2 -> 3 [] side = 3 -> 2

\* Two edges overlap along their axis.
Overlap(a, b, side) == Lo(a, side) < Hi(b, side) /\ Lo(b, side) < Hi(a, side)

\* The sides on which a page can lie.
LEMMA Sides ==
    ASSUME NEW a \in AllTiles, NEW b \in AllTiles
    PROVE  /\ AdjacentSide(a, b) \in {-1, 0, 1, 2, 3}
           /\ AdjacentSide(a, b) = 0 <=> Box(a).x0 = Box(b).x1 /\ Overlap(a, b, 0)
           /\ AdjacentSide(a, b) = 1 <=> Box(a).x1 = Box(b).x0 /\ Overlap(a, b, 1)
           /\ AdjacentSide(a, b) = 2 <=> Box(a).y0 = Box(b).y1 /\ Overlap(a, b, 2)
           /\ AdjacentSide(a, b) = 3 <=> Box(a).y1 = Box(b).y0 /\ Overlap(a, b, 3)
<1> DEFINE p == Box(a)
           q == Box(b)
<1>1. /\ p.x0 \in Int /\ p.x1 \in Int /\ p.y0 \in Int /\ p.y1 \in Int
      /\ q.x0 \in Int /\ q.x1 \in Int /\ q.y0 \in Int /\ q.y1 \in Int
      /\ p.x0 < p.x1 /\ p.y0 < p.y1 /\ q.x0 < q.x1 /\ q.y0 < q.y1
  BY Boxes
<1>2. /\ High(p.x0, q.x0) < Low(p.x1, q.x1) <=> p.x0 < q.x1 /\ q.x0 < p.x1
      /\ High(p.y0, q.y0) < Low(p.y1, q.y1) <=> p.y0 < q.y1 /\ q.y0 < p.y1
  <2> HIDE DEF p, q
  <2> QED
    BY <1>1 DEF High, Low
<1> DEFINE X == p.x0 < q.x1 /\ q.x0 < p.x1
           Y == p.y0 < q.y1 /\ q.y0 < p.y1
           West == p.x0 = q.x1 /\ Y
           East == p.x1 = q.x0 /\ Y
           North == p.y0 = q.y1 /\ X
           South == p.y1 = q.y0 /\ X
<1>3. AdjacentSide(a, b) = CASE West -> 0 [] East -> 1 [] North -> 2 [] South -> 3 [] OTHER -> -1
  BY <1>2 DEF AdjacentSide
<1>4. /\ Overlap(a, b, 0) = Y /\ Overlap(a, b, 1) = Y
      /\ Overlap(a, b, 2) = X /\ Overlap(a, b, 3) = X
  BY DEF Overlap, Lo, Hi
<1>5. /\ ~(West /\ East) /\ ~(West /\ North) /\ ~(West /\ South)
      /\ ~(East /\ North) /\ ~(East /\ South) /\ ~(North /\ South)
  <2> HIDE DEF p, q
  <2> QED
    BY <1>1
<1>6. /\ AdjacentSide(a, b) \in {-1, 0, 1, 2, 3}
      /\ AdjacentSide(a, b) = 0 <=> West
      /\ AdjacentSide(a, b) = 1 <=> East
      /\ AdjacentSide(a, b) = 2 <=> North
      /\ AdjacentSide(a, b) = 3 <=> South
  <2> HIDE DEF West, East, North, South
  <2> QED
    BY <1>3, <1>5
<1> QED
  BY <1>4, <1>6

\* What lies on one side has the page on the opposite side; the edges overlap.
LEMMA Backs ==
    ASSUME NEW a \in AllTiles, NEW b \in AllTiles, NEW side \in 0..3, AdjacentSide(a, b) = side
    PROVE  /\ AdjacentSide(b, a) = Opposite(side) /\ Opposite(side) \in 0..3
           /\ (Opposite(side) < 2) = (side < 2)
           /\ Overlap(a, b, side)
<1>1. CASE side = 0
  BY <1>1, Sides DEF Overlap, Lo, Hi, Opposite
<1>2. CASE side = 1
  BY <1>2, Sides DEF Overlap, Lo, Hi, Opposite
<1>3. CASE side = 2
  BY <1>3, Sides DEF Overlap, Lo, Hi, Opposite
<1>4. CASE side = 3
  BY <1>4, Sides DEF Overlap, Lo, Hi, Opposite
<1> QED
  BY <1>1, <1>2, <1>3, <1>4

\* Two pages on the same side of a third whose edges overlap intersect.
LEMMA SameSideMeet ==
    ASSUME NEW a \in AllTiles, NEW b \in AllTiles, NEW n \in AllTiles, NEW side \in 0..3,
           AdjacentSide(a, b) = side, AdjacentSide(a, n) = side, Overlap(b, n, side)
    PROVE  Intersects(Box(b), Box(n))
<1>1. CASE side = 0
  BY <1>1, Sides, Boxes DEF Overlap, Lo, Hi, Intersects
<1>2. CASE side = 1
  BY <1>2, Sides, Boxes DEF Overlap, Lo, Hi, Intersects
<1>3. CASE side = 2
  BY <1>3, Sides, Boxes DEF Overlap, Lo, Hi, Intersects
<1>4. CASE side = 3
  BY <1>4, Sides, Boxes DEF Overlap, Lo, Hi, Intersects
<1> QED
  BY <1>1, <1>2, <1>3, <1>4

\* A tile begins at a multiple of its size.
LEMMA Aligned ==
    ASSUME NEW t \in AllTiles, NEW side \in 0..3
    PROVE  /\ \E k \in Nat : Lo(t, side) = k * Scale(t.z) /\ Hi(t, side) = (k + 1) * Scale(t.z)
           /\ Lo(t, side) \in Int /\ Hi(t, side) \in Int
           /\ Lo(t, side) < Hi(t, side) /\ Hi(t, side) = Lo(t, side) + Scale(t.z)
<1>1. /\ Lo(t, side) \in Int /\ Hi(t, side) \in Int
      /\ Lo(t, side) < Hi(t, side) /\ Hi(t, side) = Lo(t, side) + Scale(t.z)
  BY Boxes DEF Lo, Hi
<1>2. t.x \in Nat /\ t.y \in Nat
  BY TileFields, PowersOfTwo
<1>3. \E k \in Nat : Lo(t, side) = k * Scale(t.z) /\ Hi(t, side) = (k + 1) * Scale(t.z)
  BY <1>2 DEF Lo, Hi, Box
<1> QED
  BY <1>1, <1>3

\* What orders the multiples of a number orders the factors.
LEMMA Multiples ==
    ASSUME NEW m \in Nat, NEW n \in Nat, NEW s \in Nat, m * s < n * s
    PROVE  m < n
<1> SUFFICES ASSUME n <= m PROVE FALSE
  OBVIOUS
<1>1. CASE n = m
  BY <1>1
<1>2. CASE n < m
  <2>1. (n + 1) * s <= m * s /\ (n + 1) * s = n * s + s
    BY <1>2, Steps
  <2>2. m * s \in Nat /\ n * s \in Nat
    OBVIOUS
  <2> QED
    BY <2>1, <2>2
<1> QED
  BY <1>1, <1>2

\* The edge of a page lies within one it overlaps of the same zoom or the next
\* coarser one.
LEMMA Nested ==
    ASSUME NEW a \in AllTiles, NEW b \in AllTiles, NEW side \in 0..3,
           Overlap(a, b, side), b.z = a.z \/ b.z + 1 = a.z
    PROVE  /\ Lo(b, side) <= Lo(a, side) /\ Hi(a, side) <= Hi(b, side)
           /\ b.z = a.z => Lo(b, side) = Lo(a, side)
<1> DEFINE s == Scale(a.z)
<1>1. PICK k \in Nat : Lo(a, side) = k * s /\ Hi(a, side) = (k + 1) * s
  BY Aligned
<1>2. PICK m \in Nat : Lo(b, side) = m * Scale(b.z) /\ Hi(b, side) = (m + 1) * Scale(b.z)
  BY Aligned
<1>3. s \in Nat \ {0} /\ a.z \in 0..FineZoom /\ b.z \in 0..FineZoom /\ FineZoom \in Nat
  BY TileFields, Scales, ConstantsAssumption
<1>4. k * s < (m + 1) * Scale(b.z) /\ m * Scale(b.z) < (k + 1) * s
  BY <1>1, <1>2 DEF Overlap
<1>5. CASE b.z = a.z
  <2>1. k < m + 1 /\ m < k + 1
    <3>1. k * s < (m + 1) * s /\ m * s < (k + 1) * s
      BY <1>4, <1>5
    <3> QED
      BY <1>3, <3>1, Multiples
  <2>2. k = m
    BY <2>1
  <2> QED
    BY <1>1, <1>2, <1>3, <1>5, <2>2, Aligned
<1>6. CASE b.z + 1 = a.z
  <2>1. Scale(b.z) = 2 * s
    BY <1>3, <1>6, Scales
  <2> HIDE DEF s
  <2>2. (m + 1) * (2 * s) = (2 * m + 2) * s /\ m * (2 * s) = (2 * m) * s
    BY <1>3
  <2>3. k < 2 * m + 2 /\ 2 * m < k + 1
    <3>1. k * s < (2 * m + 2) * s /\ (2 * m) * s < (k + 1) * s
      BY <1>4, <2>1, <2>2
    <3>2. 2 * m + 2 \in Nat /\ 2 * m \in Nat /\ k + 1 \in Nat /\ s \in Nat
      BY <1>3
    <3> QED
      BY <3>1, <3>2, Multiples
  <2>4. (2 * m) * s <= k * s
    <3>1. CASE 2 * m = k
      BY <1>3, <3>1
    <3>2. CASE 2 * m < k
      <4>1. (2 * m + 1) * s <= k * s /\ (2 * m + 1) * s = (2 * m) * s + s
        BY <1>3, <3>2, Steps
      <4>2. (2 * m) * s \in Nat /\ k * s \in Nat
        BY <1>3
      <4> QED
        BY <1>3, <4>1, <4>2
    <3> QED
      BY <2>3, <3>1, <3>2
  <2>5. (k + 1) * s <= (2 * m + 2) * s
    <3>1. (k + 1) * s <= (2 * m + 2) * s
      BY <1>3, <2>3, Steps
    <3> QED
      BY <3>1
  <2>6. b.z # a.z
    BY <1>3, <1>6
  <2> QED
    BY <1>1, <1>2, <2>1, <2>2, <2>4, <2>5, <2>6
<1> QED
  BY <1>5, <1>6

-----------------------------------------------------------------------------
(***************************************************************************)
(* The vertices on an edge.                                                *)
(***************************************************************************)
Unit == NearCells * CoarseCells

\* Division undoes multiplication.
LEMMA Quotient ==
    ASSUME NEW q \in Nat, NEW c \in Nat \ {0}
    PROVE  (q * c) \div c = q
OBVIOUS

\* The cells of a page divide its edge evenly.
LEMMA Spacing ==
    ASSUME NEW t \in AllTiles
    PROVE  LET d == (Scale(t.z) * Unit) \div Cells(t)
           IN  /\ d \in Nat /\ Cells(t) \in Nat \ {0} /\ Cells(t) * d = Scale(t.z) * Unit
               /\ Unit \in Nat
<1> DEFINE s == Scale(t.z)
<1>1. s \in Nat \ {0} /\ NearCells \in Nat \ {0} /\ CoarseCells \in Nat \ {0}
  BY TileFields, Scales, ConstantsAssumption
<1> HIDE DEF s
<1>2. Unit \in Nat
  BY <1>1 DEF Unit
<1>3. CASE t.z = FineZoom
  <2>1. s * Unit = (s * CoarseCells) * NearCells /\ s * CoarseCells \in Nat
    BY <1>1 DEF Unit
  <2>2. (s * Unit) \div NearCells = s * CoarseCells
    BY <1>1, <2>1, Quotient
  <2>3. NearCells * (s * CoarseCells) = s * Unit
    BY <1>1 DEF Unit
  <2> QED
    BY <1>1, <1>2, <1>3, <2>1, <2>2, <2>3 DEF Cells, s
<1>4. CASE t.z # FineZoom
  <2>1. s * Unit = (s * NearCells) * CoarseCells /\ s * NearCells \in Nat
    BY <1>1 DEF Unit
  <2>2. (s * Unit) \div CoarseCells = s * NearCells
    BY <1>1, <2>1, Quotient
  <2>3. CoarseCells * (s * NearCells) = s * Unit
    BY <1>1 DEF Unit
  <2> QED
    BY <1>1, <1>2, <1>4, <2>1, <2>2, <2>3 DEF Cells, s
<1> QED
  BY <1>3, <1>4

\* Grid points lie on the edge, and its ends are among them.
LEMMA GridOnEdge ==
    ASSUME NEW t \in AllTiles, NEW side \in 0..3
    PROVE  /\ Along(t, side) = (Lo(t, side) * Unit)..(Hi(t, side) * Unit)
           /\ Lo(t, side) * Unit \in Int /\ Hi(t, side) * Unit \in Int
           /\ GridPoints(t, side) \subseteq Along(t, side)
           /\ Lo(t, side) * Unit \in GridPoints(t, side)
           /\ Hi(t, side) * Unit \in GridPoints(t, side)
<1> DEFINE d == (Scale(t.z) * Unit) \div Cells(t)
           from == Unit * Lo(t, side)
           c == Cells(t)
<1>1. /\ d \in Nat /\ c \in Nat \ {0} /\ c * d = Scale(t.z) * Unit /\ Unit \in Nat
  BY Spacing
<1>2. /\ Lo(t, side) \in Int /\ Hi(t, side) \in Int /\ Scale(t.z) \in Nat \ {0}
      /\ Hi(t, side) = Lo(t, side) + Scale(t.z)
  BY Aligned, TileFields, Scales
<1>3. Along(t, side) = (Lo(t, side) * Unit)..(Hi(t, side) * Unit)
  BY DEF Along, Lo, Hi, Unit
<1>4. GridPoints(t, side) = {from + p * d : p \in 0..c}
  BY DEF GridPoints, Lo, Unit
<1> HIDE DEF d, c
<1>5. /\ Lo(t, side) * Unit = from /\ from \in Int
      /\ Hi(t, side) * Unit = from + c * d /\ c * d \in Nat
  <2>1. (Lo(t, side) + Scale(t.z)) * Unit = Unit * Lo(t, side) + Scale(t.z) * Unit
    BY <1>1, <1>2
  <2> QED
    BY <1>1, <1>2, <2>1
<1> HIDE DEF from
<1>6. ASSUME NEW p \in 0..c
      PROVE  from + p * d \in from..(from + c * d)
  <2>1. p * d \in Nat /\ p * d <= c * d
    <3>1. CASE p = c
      BY <1>1, <3>1
    <3>2. CASE p < c
      <4>1. (p + 1) * d <= c * d /\ (p + 1) * d = p * d + d /\ p * d \in Nat
        BY <1>1, <3>2, Steps
      <4> QED
        BY <1>1, <1>5, <4>1
    <3> QED
      BY <1>1, <3>1, <3>2
  <2> QED
    BY <1>5, <2>1
<1>7. from + 0 * d = from /\ 0 \in 0..c /\ c \in 0..c
  BY <1>1, <1>5
<1> QED
  BY <1>3, <1>4, <1>5, <1>6, <1>7

\* The grid depends only on where the edge is and on the zoom.
LEMMA SameGrid ==
    ASSUME NEW a \in AllTiles, NEW b \in AllTiles, NEW side \in 0..3, NEW back \in 0..3,
           (side < 2) = (back < 2), a.z = b.z, Lo(a, side) = Lo(b, side)
    PROVE  GridPoints(a, side) = GridPoints(b, back)
BY DEF GridPoints, Lo, Cells

\* Opposite sides have one axis, so edges and grids are the same on both.
LEMMA SameAxis ==
    ASSUME NEW t, NEW side \in 0..3, NEW back \in 0..3, (side < 2) = (back < 2)
    PROVE  /\ Lo(t, side) = Lo(t, back) /\ Hi(t, side) = Hi(t, back)
           /\ Along(t, side) = Along(t, back) /\ GridPoints(t, side) = GridPoints(t, back)
BY DEF Lo, Hi, Along, GridPoints

-----------------------------------------------------------------------------
(***************************************************************************)
(* A finished plan.                                                        *)
(***************************************************************************)
Finished == phase = "done" => TooCoarse = {}

\* A finished plan is balanced.
LEMMA FinishedHolds == Spec => []Finished
<1>1. Init => Finished
  BY DEF Init, Finished
<1>2. Finished /\ [Next]_vars => Finished'
  BY DEF Finished, Next, Divide, Divided, Split, Finish, Stop, vars, TooCoarse
<1> QED
  BY <1>1, <1>2, PTL DEF Spec

\* What is known of two leaves of a finished plan that meet.
LEMMA Meeting ==
    ASSUME IInv, Finished, phase = "done", NEW a \in leaves, NEW b \in leaves,
           NEW side \in 0..3, AdjacentSide(a, b) = side
    PROVE  /\ a \in AllTiles /\ b \in AllTiles /\ Overlap(a, b, side)
           /\ a.z \in Int /\ b.z \in Int
           /\ b.z = a.z \/ b.z + 1 = a.z \/ a.z + 1 = b.z
<1>1. a \in AllTiles /\ b \in AllTiles
  BY DEF IInv, Types
<1>2. a.z \in Int /\ b.z \in Int
  BY <1>1, TileFields, ConstantsAssumption
<1>3. Overlap(a, b, side) /\ AdjacentSide(b, a) >= 0 /\ AdjacentSide(a, b) >= 0
  BY <1>1, Backs
<1>4. a.z < b.z => Balanced(a, b)
  BY <1>3 DEF Finished, TooCoarse
<1>5. b.z < a.z => Balanced(b, a)
  BY <1>3 DEF Finished, TooCoarse
<1> QED
  BY <1>1, <1>2, <1>3, <1>4, <1>5 DEF Balanced

\* A neighbour that is not finer fills the side.
LEMMA OnlyNeighbor ==
    ASSUME IInv, Finished, phase = "done", NEW a \in leaves, NEW b \in leaves,
           NEW side \in 0..3, AdjacentSide(a, b) = side, b.z <= a.z
    PROVE  Neighbors(a, side) = {b}
<1>1. /\ a \in AllTiles /\ b \in AllTiles /\ Overlap(a, b, side)
      /\ b.z = a.z \/ b.z + 1 = a.z
  BY Meeting
<1>2. Lo(b, side) <= Lo(a, side) /\ Hi(a, side) <= Hi(b, side)
  BY <1>1, Nested
<1>3. ASSUME NEW n \in Neighbors(a, side)
      PROVE  n = b
  <2>1. n \in leaves /\ AdjacentSide(a, n) = side
    BY <1>3 DEF Neighbors
  <2>2. n \in AllTiles /\ Overlap(a, n, side)
    BY <2>1, Meeting
  <2>3. Overlap(b, n, side)
    BY <1>1, <1>2, <2>2, Aligned DEF Overlap
  <2>4. Intersects(Box(b), Box(n))
    BY <1>1, <2>1, <2>2, <2>3, SameSideMeet
  <2> QED
    BY <2>1, <2>4 DEF IInv, Apart
<1> QED
  BY <1>3 DEF Neighbors

\* Next to a page of the inner rectangle every page has the finest zoom: it lies in
\* the ring around.
LEMMA InnerNeighbor ==
    ASSUME IInv, NEW a \in leaves, NEW b \in leaves, NEW side \in 0..3,
           AdjacentSide(a, b) = side, a.inner
    PROVE  a.z = FineZoom /\ b.z = FineZoom
<1>1. /\ a \in AllTiles /\ b \in AllTiles /\ inner \in InnerRects /\ Marked
  BY DEF IInv, Types
<1>2. Intersects(Box(a), Protected)
  BY <1>1 DEF Marked
<1>3. Intersects(Box(a), Halo)
  BY <1>1, <1>2, ProtectedWithinHalo, TilesAreBoxes, PartMeets
<1>4. a.z = FineZoom
  BY <1>1, <1>3 DEF Marked
<1>5. Scale(a.z) = 1
  <2>1. FineZoom - FineZoom = 0
    BY ConstantsAssumption
  <2> QED
    BY <1>4, <2>1, TwoToDef DEF Scale
<1>6. /\ inner.minX \in Nat /\ inner.minY \in Nat /\ inner.maxX \in Nat /\ inner.maxY \in Nat
      /\ inner.maxX < TwoTo[FineZoom] /\ inner.maxY < TwoTo[FineZoom] /\ TwoTo[FineZoom] \in Nat
  BY <1>1, ConstantsAssumption, PowersOfTwo
<1>7. /\ 0 <= Box(b).x0 /\ Box(b).x1 <= TwoTo[FineZoom]
      /\ 0 <= Box(b).y0 /\ Box(b).y1 <= TwoTo[FineZoom]
  <2> DEFINE s == Scale(b.z)
             m == TwoTo[b.z]
  <2>1. b.z \in 0..FineZoom /\ b.x \in 0..(m - 1) /\ b.y \in 0..(m - 1) /\ m \in Nat \ {0}
    BY <1>1, TileFields, PowersOfTwo
  <2>2. s \in Nat \ {0} /\ m * s = TwoTo[FineZoom]
    BY <2>1, Scales, PowersOfTwo DEF Scale
  <2>3. /\ Box(b).x0 = b.x * s /\ Box(b).x1 = (b.x + 1) * s
        /\ Box(b).y0 = b.y * s /\ Box(b).y1 = (b.y + 1) * s
    BY DEF Box
  <2> HIDE DEF s, m
  <2>4. b.x \in Nat /\ b.y \in Nat /\ b.x < m /\ b.y < m
    BY <2>1
  <2>5. (b.x + 1) * s <= m * s /\ (b.y + 1) * s <= m * s
    BY <2>1, <2>2, <2>4, Steps
  <2>6. b.x * s \in Nat /\ b.y * s \in Nat
    BY <2>2, <2>4
  <2> QED
    BY <2>2, <2>3, <2>5, <2>6
<1>8. /\ Box(a).x0 \in Int /\ Box(a).y0 \in Int
      /\ Box(a).x1 = Box(a).x0 + 1 /\ Box(a).y1 = Box(a).y0 + 1
      /\ Box(b).x0 \in Int /\ Box(b).y0 \in Int /\ Box(b).x1 \in Int /\ Box(b).y1 \in Int
      /\ Box(b).x0 < Box(b).x1 /\ Box(b).y0 < Box(b).y1
  BY <1>1, <1>5, Boxes
<1>9. /\ inner.minX <= Box(a).x0 /\ Box(a).x1 <= inner.maxX + 1
      /\ inner.minY <= Box(a).y0 /\ Box(a).y1 <= inner.maxY + 1
  BY <1>2, <1>6, <1>8 DEF Intersects, Protected
<1>10. Intersects(Box(b), Halo)
  <2>1. CASE side = 0
    <3>1. Box(a).x0 = Box(b).x1 /\ Overlap(a, b, 0)
      BY <1>1, <2>1, Sides
    <3> QED
      BY <1>6, <1>7, <1>8, <1>9, <3>1 DEF Overlap, Lo, Hi, Intersects, Halo, Protected, High, Low
  <2>2. CASE side = 1
    <3>1. Box(a).x1 = Box(b).x0 /\ Overlap(a, b, 1)
      BY <1>1, <2>2, Sides
    <3> QED
      BY <1>6, <1>7, <1>8, <1>9, <3>1 DEF Overlap, Lo, Hi, Intersects, Halo, Protected, High, Low
  <2>3. CASE side = 2
    <3>1. Box(a).y0 = Box(b).y1 /\ Overlap(a, b, 2)
      BY <1>1, <2>3, Sides
    <3> QED
      BY <1>6, <1>7, <1>8, <1>9, <3>1 DEF Overlap, Lo, Hi, Intersects, Halo, Protected, High, Low
  <2>4. CASE side = 3
    <3>1. Box(a).y1 = Box(b).y0 /\ Overlap(a, b, 3)
      BY <1>1, <2>4, Sides
    <3> QED
      BY <1>6, <1>7, <1>8, <1>9, <3>1 DEF Overlap, Lo, Hi, Intersects, Halo, Protected, High, Low
  <2> QED
    BY <2>1, <2>2, <2>3, <2>4
<1> QED
  BY <1>1, <1>4, <1>10 DEF Marked

\* What lies between two edges lies between their images.
LEMMA Scaled ==
    ASSUME NEW m \in Int, NEW n \in Int, NEW u \in Nat, m <= n
    PROVE  m * u <= n * u
<1>1. n * u = m * u + (n - m) * u
  OBVIOUS
<1>2. (n - m) * u \in Nat /\ m * u \in Int
  OBVIOUS
<1> QED
  BY <1>1, <1>2

\* An array with one entry per side holds the coarser neighbours.
LEMMA OneCoarser ==
    ASSUME IInv, Finished
    PROVE  OneCoarserNeighbor
<1> SUFFICES ASSUME phase = "done", NEW l \in leaves, NEW side \in 0..3
             PROVE  /\ Cardinality(CoarserNeighbors(l, side)) <= 1
                    /\ \A n \in Neighbors(l, side) : l.z - n.z <= 1
  BY DEF OneCoarserNeighbor
<1>1. ASSUME NEW n \in Neighbors(l, side)
      PROVE  l.z - n.z <= 1
  <2>1. n \in leaves /\ AdjacentSide(l, n) = side
    BY <1>1 DEF Neighbors
  <2> QED
    BY <2>1, Meeting
<1>2. CASE CoarserNeighbors(l, side) = {}
  <2>1. Cardinality(CoarserNeighbors(l, side)) = 0
    BY <1>2, FS_EmptySet
  <2> QED
    BY <1>1, <2>1
<1>3. CASE CoarserNeighbors(l, side) # {}
  <2>1. PICK n : n \in CoarserNeighbors(l, side)
    BY <1>3
  <2>2. n \in leaves /\ AdjacentSide(l, n) = side /\ n.z < l.z
    BY <2>1 DEF CoarserNeighbors, Neighbors
  <2>3. l.z \in Int /\ n.z \in Int
    BY <2>2, Meeting
  <2>4. Neighbors(l, side) = {n}
    BY <2>2, <2>3, OnlyNeighbor
  <2>5. CoarserNeighbors(l, side) = {n}
    BY <2>1, <2>4 DEF CoarserNeighbors
  <2>6. Cardinality(CoarserNeighbors(l, side)) = 1
    BY <2>5, FS_Singleton
  <2> QED
    BY <1>1, <2>6
<1> QED
  BY <1>1, <1>2, <1>3

\* Where the edges of two pages are, on the side of the one and the other.
LEMMA EdgeToEdge ==
    ASSUME IInv, Finished, phase = "done", NEW a \in leaves, NEW b \in leaves,
           NEW side \in 0..3, AdjacentSide(a, b) = side
    PROVE  LET back == Opposite(side)
           IN  /\ back \in 0..3 /\ AdjacentSide(b, a) = back
               /\ GridPoints(a, side) = GridPoints(a, back) /\ Along(a, side) = Along(a, back)
               /\ GridPoints(b, side) = GridPoints(b, back) /\ Along(b, side) = Along(b, back)
<1> DEFINE back == Opposite(side)
<1>1. a \in AllTiles /\ b \in AllTiles
  BY Meeting
<1>2. AdjacentSide(b, a) = back /\ back \in 0..3 /\ (side < 2) = (back < 2)
  BY <1>1, Backs
<1> HIDE DEF back
<1>3. /\ GridPoints(a, side) = GridPoints(a, back) /\ Along(a, side) = Along(a, back)
      /\ GridPoints(b, side) = GridPoints(b, back) /\ Along(b, side) = Along(b, back)
  BY <1>2, SameAxis
<1> QED
  BY <1>2, <1>3 DEF back

\* Between pages of one zoom both edges have the vertices of the same grid.
LEMMA EqualSeam ==
    ASSUME IInv, Finished, phase = "done", NEW a \in leaves, NEW b \in leaves,
           NEW side \in 0..3, AdjacentSide(a, b) = side, a.z = b.z
    PROVE  EdgePoints(a, side) = EdgePoints(b, Opposite(side))
<1> DEFINE back == Opposite(side)
<1>1. /\ a \in AllTiles /\ b \in AllTiles /\ Overlap(a, b, side) /\ a.z \in Int /\ b.z \in Int
  BY Meeting
<1>2. /\ back \in 0..3 /\ AdjacentSide(b, a) = back
      /\ GridPoints(b, side) = GridPoints(b, back)
  BY EdgeToEdge
<1> HIDE DEF back
<1>3. Neighbors(a, side) = {b}
  BY <1>1, OnlyNeighbor
<1>4. Neighbors(b, back) = {a}
  BY <1>1, <1>2, OnlyNeighbor
<1>5. EdgePoints(a, side) = GridPoints(a, side)
  BY <1>3 DEF EdgePoints
<1>6. EdgePoints(b, back) = GridPoints(b, back)
  BY <1>4 DEF EdgePoints
<1>7. Lo(a, side) = Lo(b, side)
  BY <1>1, Nested
<1>8. GridPoints(a, side) = GridPoints(b, side)
  BY <1>1, <1>7, SameGrid
<1> QED
  BY <1>2, <1>5, <1>6, <1>8 DEF back

\* Between a page and a coarser one each edge has the vertices of both grids: other
\* finer neighbours of the coarse page add no more than the ends of the edge.
LEMMA FinerSeam ==
    ASSUME IInv, Finished, phase = "done", NEW a \in leaves, NEW b \in leaves,
           NEW side \in 0..3, AdjacentSide(a, b) = side, b.z + 1 = a.z
    PROVE  LET back == Opposite(side)
               shared == Along(a, side) \cap Along(b, back)
           IN  EdgePoints(a, side) \cap shared = EdgePoints(b, back) \cap shared
<1> DEFINE back == Opposite(side)
           shared == Along(a, side) \cap Along(b, back)
<1>1. /\ a \in AllTiles /\ b \in AllTiles /\ Overlap(a, b, side) /\ a.z \in Int /\ b.z \in Int
  BY Meeting
<1>2. /\ back \in 0..3 /\ AdjacentSide(b, a) = back
      /\ GridPoints(a, side) = GridPoints(a, back) /\ Along(a, side) = Along(a, back)
      /\ GridPoints(b, side) = GridPoints(b, back) /\ Along(b, side) = Along(b, back)
  BY EdgeToEdge
<1>3. (side < 2) = (back < 2)
  BY <1>1, Backs
<1> HIDE DEF back
<1>4. a.z # b.z /\ b.z <= a.z
  BY <1>1
<1>5. ~a.inner /\ ~b.inner
  <2>1. ~a.inner
    BY <1>4, InnerNeighbor
  <2>2. ~b.inner
    BY <1>2, <1>4, InnerNeighbor
  <2> QED
    BY <2>1, <2>2
<1>6. /\ Unit \in Nat
      /\ Lo(a, side) \in Int /\ Hi(a, side) \in Int /\ Lo(b, side) \in Int /\ Hi(b, side) \in Int
  BY <1>1, Spacing, Aligned
<1>7. shared = Along(a, side)
  <2>1. Lo(b, side) <= Lo(a, side) /\ Hi(a, side) <= Hi(b, side)
    BY <1>1, Nested
  <2>2. Lo(b, side) * Unit <= Lo(a, side) * Unit /\ Hi(a, side) * Unit <= Hi(b, side) * Unit
    BY <1>6, <2>1, Scaled
  <2>3. Along(a, side) \subseteq Along(b, side)
    <3>1. /\ Along(a, side) = (Lo(a, side) * Unit)..(Hi(a, side) * Unit)
          /\ Along(b, side) = (Lo(b, side) * Unit)..(Hi(b, side) * Unit)
          /\ Lo(a, side) * Unit \in Int /\ Hi(a, side) * Unit \in Int
          /\ Lo(b, side) * Unit \in Int /\ Hi(b, side) * Unit \in Int
      BY <1>1, GridOnEdge
    <3> DEFINE u == Lo(a, side) * Unit  v == Hi(a, side) * Unit
               w == Lo(b, side) * Unit  x == Hi(b, side) * Unit
    <3>2. u \in Int /\ v \in Int /\ w \in Int /\ x \in Int /\ w <= u /\ v <= x
      BY <2>2, <3>1
    <3> HIDE DEF u, v, w, x
    <3>3. u..v \subseteq w..x
      BY <3>2
    <3> QED
      BY <3>1, <3>3 DEF u, v, w, x
  <2> QED
    BY <1>2, <2>3
<1>8. EdgePoints(a, side) = GridPoints(a, side) \cup (GridPoints(b, side) \cap Along(a, side))
  <2>1. Neighbors(a, side) = {b}
    BY <1>4, OnlyNeighbor
  <2>2. {m \in Neighbors(a, side) : m.z # a.z} = {b}
    BY <1>4, <2>1
  <2> QED
    BY <1>5, <2>2 DEF EdgePoints
<1>9. EdgePoints(b, back) = GridPoints(b, back)
          \cup UNION {GridPoints(n, back) \cap Along(b, back) :
                         n \in {m \in Neighbors(b, back) : m.z # b.z}}
  BY <1>5 DEF EdgePoints
<1>10. GridPoints(a, side) \subseteq Along(a, side)
  BY <1>1, GridOnEdge
<1>11. ASSUME NEW x \in EdgePoints(a, side)
       PROVE  x \in EdgePoints(b, back)
  <2>1. CASE x \in GridPoints(a, side)
    <3>1. a \in {m \in Neighbors(b, back) : m.z # b.z}
      BY <1>2, <1>4 DEF Neighbors
    <3>2. x \in GridPoints(a, back) \cap Along(b, back)
      BY <1>2, <1>7, <1>10, <2>1
    <3> QED
      BY <1>9, <3>1, <3>2
  <2>2. CASE x \in GridPoints(b, side)
    BY <1>2, <1>9, <2>2
  <2> QED
    BY <1>8, <1>11, <2>1, <2>2
<1>12. ASSUME NEW x \in EdgePoints(b, back), x \in Along(a, side)
       PROVE  x \in EdgePoints(a, side)
  <2>1. CASE x \in GridPoints(b, back)
    BY <1>2, <1>8, <1>12, <2>1
  <2>2. ASSUME NEW n \in Neighbors(b, back), x \in GridPoints(n, back)
        PROVE  x \in GridPoints(a, side)
    <3>1. n \in leaves /\ AdjacentSide(b, n) = back
      BY <2>2 DEF Neighbors
    <3>2. CASE n = a
      BY <1>2, <2>2, <3>2
    <3>3. CASE n # a
      <4>1. n \in AllTiles
        BY <1>2, <3>1, Meeting
      <4>2. ~Overlap(a, n, back)
        BY <1>1, <1>2, <3>1, <3>3, <4>1, SameSideMeet DEF IInv, Apart
      <4>3. /\ Lo(a, back) = Lo(a, side) /\ Hi(a, back) = Hi(a, side)
            /\ Lo(n, back) \in Int /\ Hi(n, back) \in Int
        BY <1>2, <1>3, <4>1, SameAxis, Aligned
      <4>4. Hi(n, back) <= Lo(a, side) \/ Hi(a, side) <= Lo(n, back)
        BY <1>6, <4>2, <4>3 DEF Overlap
      <4>5. x \in (Lo(n, back) * Unit)..(Hi(n, back) * Unit)
        BY <1>2, <2>2, <4>1, GridOnEdge
      <4>6. x \in (Lo(a, side) * Unit)..(Hi(a, side) * Unit)
        BY <1>1, <1>12, GridOnEdge
      <4>7. /\ Lo(n, back) * Unit \in Int /\ Hi(n, back) * Unit \in Int
            /\ Lo(a, side) * Unit \in Int /\ Hi(a, side) * Unit \in Int
            /\ Lo(a, side) * Unit \in GridPoints(a, side)
            /\ Hi(a, side) * Unit \in GridPoints(a, side)
        BY <1>1, <1>2, <4>1, GridOnEdge
      <4>8. CASE Hi(n, back) <= Lo(a, side)
        <5>1. Hi(n, back) * Unit <= Lo(a, side) * Unit
          BY <1>6, <4>3, <4>8, Scaled
        <5>2. x = Lo(a, side) * Unit
          BY <4>5, <4>6, <4>7, <5>1
        <5> QED
          BY <4>7, <5>2
      <4>9. CASE Hi(a, side) <= Lo(n, back)
        <5>1. Hi(a, side) * Unit <= Lo(n, back) * Unit
          BY <1>6, <4>3, <4>9, Scaled
        <5>2. x = Hi(a, side) * Unit
          BY <4>5, <4>6, <4>7, <5>1
        <5> QED
          BY <4>7, <5>2
      <4> QED
        BY <4>4, <4>8, <4>9
    <3> QED
      BY <3>2, <3>3
  <2> QED
    BY <1>8, <1>9, <1>12, <2>1, <2>2
<1>13. EdgePoints(a, side) \cap shared = EdgePoints(b, back) \cap shared
  BY <1>7, <1>11, <1>12
<1> QED
  BY <1>13 DEF back

\* The vertices of two pages that meet agree where their edges run side by side.
LEMMA NoCracks ==
    ASSUME IInv, Finished
    PROVE  EdgesMatch
<1> SUFFICES ASSUME phase = "done", NEW a \in leaves, NEW b \in leaves, AdjacentSide(a, b) >= 0
             PROVE  LET side == AdjacentSide(a, b)
                        back == AdjacentSide(b, a)
                        shared == Along(a, side) \cap Along(b, back)
                    IN  EdgePoints(a, side) \cap shared = EdgePoints(b, back) \cap shared
  BY DEF EdgesMatch
<1> DEFINE side == AdjacentSide(a, b)
           back == AdjacentSide(b, a)
           shared == Along(a, side) \cap Along(b, back)
<1>1. a \in AllTiles /\ b \in AllTiles
  BY DEF IInv, Types
<1>2. side \in 0..3
  BY <1>1, Sides
<1>3. back = Opposite(side) /\ back \in 0..3 /\ side = Opposite(back)
  BY <1>1, <1>2, Backs DEF Opposite
<1>4. b.z = a.z \/ b.z + 1 = a.z \/ a.z + 1 = b.z
  BY <1>2, Meeting
<1> HIDE DEF side, back
<1>5. AdjacentSide(a, b) = side /\ AdjacentSide(b, a) = back
  BY DEF side, back
<1>6. EdgePoints(a, side) \cap shared = EdgePoints(b, back) \cap shared
  <2>1. CASE a.z = b.z
    <3>1. EdgePoints(a, side) = EdgePoints(b, back)
      BY <1>2, <1>3, <1>5, <2>1, EqualSeam
    <3> QED
      BY <3>1
  <2>2. CASE b.z + 1 = a.z
    BY <1>2, <1>3, <1>5, <2>2, FinerSeam
  <2>3. CASE a.z + 1 = b.z
    <3>1. LET common == Along(b, back) \cap Along(a, side)
          IN  EdgePoints(b, back) \cap common = EdgePoints(a, side) \cap common
      BY <1>3, <1>5, <2>3, FinerSeam
    <3>2. shared = Along(b, back) \cap Along(a, side)
      OBVIOUS
    <3> QED
      BY <3>1, <3>2
  <2> QED
    BY <1>4, <2>1, <2>2, <2>3
<1> QED
  BY <1>6 DEF side, back

\* A finished plan can be stitched without cracks (EmitOuterMesh and
\* stitchCoverageBoundary), for every map, inner rectangle, margin and limit.
THEOREM SeamsAreTight == Spec => []SeamsMatch
<1>1. IInv /\ Finished => SeamsMatch
  BY OneCoarser, NoCracks DEF SeamsMatch
<1> QED
  BY <1>1, InvHolds, FinishedHolds, PTL

-----------------------------------------------------------------------------
(***************************************************************************)
(* The planning ends.  Both loops are bounded by the limit on pages, which *)
(* is looked at after each turn: tiles only become more, a turn that makes *)
(* no new ones takes one off the stack, and the phases follow one another. *)
(***************************************************************************)
Held == Cardinality(leaves) + Len(pending)

Room == limit + Cardinality(outer) + 3

PhasesLeft == CASE phase = "divide" -> 2 [] phase = "balance" -> 1 [] OTHER -> 0

\* What is left to do, at most.
Work == 2 * (Room - Held) + Len(pending) + PhasesLeft

Roomy ==
    /\ phase = "divide" => Held <= limit + Cardinality(outer)
    /\ Held <= Room

\* The numbers the work is measured in.
LEMMA WorkTypes ==
    ASSUME IInv
    PROVE  /\ Cardinality(leaves) \in Nat /\ Len(pending) \in Nat /\ limit \in Nat
           /\ Cardinality(outer) \in Nat /\ IsFiniteSet(outer)
           /\ Held \in Nat /\ Room \in Nat
<1>1. Cardinality(leaves) \in Nat /\ Len(pending) \in Nat /\ limit \in Nat
  BY FS_CardinalityType, LenProperties, ConstantsAssumption DEF IInv, Types
<1>2. IsFiniteSet(outer)
  BY RootTiles DEF IInv, Types
<1>3. Cardinality(outer) \in Nat
  BY <1>2, FS_CardinalityType
<1>4. QED
  BY <1>1, <1>2, <1>3 DEF Held, Room

\* A tile overlaps with itself.
LEMMA SelfMeets ==
    ASSUME NEW t \in AllTiles
    PROVE  Intersects(Box(t), Box(t))
BY Boxes DEF Intersects

\* There are two at least: Child(t, 0, 0) and Child(t, 1, 0) differ.
LEMMA ManyChildren ==
    ASSUME NEW t \in AllTiles
    PROVE  IsFiniteSet(Children(t)) /\ Cardinality(Children(t)) \in 2..4
<1> DEFINE a == Child(t, 0, 0)
           b == Child(t, 1, 0)
<1>1. a \in Children(t) /\ b \in Children(t)
  BY DEF Children
<1>2. a # b
  <2>1. t.x \in Int
    BY TileFields, PowersOfTwo
  <2>2. a.x = 2 * t.x + 0 /\ b.x = 2 * t.x + 1
    BY DEF Child
  <2>3. QED
    BY <2>1, <2>2
<1> HIDE DEF a, b
<1>3. IsFiniteSet({a}) /\ Cardinality({a}) = 1
  BY FS_Singleton
<1>4. Cardinality({a} \cup {b}) = 2
  BY <1>2, <1>3, FS_AddElement
<1>5. IsFiniteSet(Children(t)) /\ Cardinality(Children(t)) \in 0..4
  BY ChildrenFinite
<1>6. Cardinality({a} \cup {b}) <= Cardinality(Children(t))
  BY <1>1, <1>5, FS_Subset
<1>7. QED
  BY <1>4, <1>5, <1>6

\* A turn of the loop over the stack: more tiles, or one less on the stack.
LEMMA DivideCounts ==
    ASSUME IInv, Divide
    PROVE  \/ \E c \in 2..4 : Len(pending') = Len(pending) - 1 + c
                              /\ Cardinality(leaves') = Cardinality(leaves)
           \/ /\ Len(pending') = Len(pending) - 1
              /\ Cardinality(leaves') = Cardinality(leaves) + 1
<1> DEFINE t == Last(pending)
           n == Len(pending)
<1>1. /\ pending \in Seq(AllTiles) /\ pending # <<>>
      /\ leaves \subseteq AllTiles /\ IsFiniteSet(leaves)
  BY DEF IInv, Types, Divide
<1>2. /\ n \in Nat \ {0} /\ t = pending[n] /\ t \in AllTiles
      /\ Front(pending) \in Seq(AllTiles) /\ Len(Front(pending)) = n - 1
  BY <1>1, Popped
<1>3. CASE Divides(t)
  <2>1. pending' = Front(pending) \o SetToSeq(Children(t)) /\ leaves' = leaves
    BY <1>3 DEF Divide
  <2>2. IsFiniteSet(Children(t)) /\ Cardinality(Children(t)) \in 2..4
    BY <1>2, ManyChildren
  <2>3. t.z < FineZoom
    BY <1>3 DEF Divides
  <2> HIDE DEF t
  <2>4. Children(t) \subseteq AllTiles
    BY <1>2, <2>3, ChildrenWithin
  <2>5. /\ SetToSeq(Children(t)) \in Seq(AllTiles)
        /\ Len(SetToSeq(Children(t))) = Cardinality(Children(t))
    BY <2>2, <2>4, ListedSeq, SeqMonotonic
  <2>6. Len(pending') = (n - 1) + Cardinality(Children(t))
    BY <1>2, <2>1, <2>5, ConcatProperties
  <2>7. QED
    BY <1>2, <2>1, <2>2, <2>6
<1>4. CASE ~Divides(t)
  <2> DEFINE l == [t EXCEPT !.inner = IsInner(t)]
  <2>1. pending' = Front(pending) /\ leaves' = leaves \cup {l}
    BY <1>4 DEF Divide
  <2>2. l \notin leaves
    <3>1. \A a \in leaves : ~Intersects(Box(a), Box(t))
      BY <1>2 DEF IInv, Apart
    <3>2. l.x = t.x /\ l.y = t.y /\ l.z = t.z
      BY <1>2, TileFields
    <3>3. Box(l) = Box(t)
      BY <3>2 DEF Box
    <3> HIDE DEF t, l
    <3>4. QED
      BY <1>2, <3>1, <3>3, SelfMeets
  <2> HIDE DEF l
  <2>3. Cardinality(leaves') = Cardinality(leaves) + 1
    BY <1>1, <2>1, <2>2, FS_AddElement
  <2>4. QED
    BY <1>2, <2>1, <2>3
<1>5. QED
  BY <1>3, <1>4

\* A leaf that is split makes way for several.
LEMMA SplitCounts ==
    ASSUME IInv, Split
    PROVE  \E c \in 2..4 : Cardinality(leaves') = Cardinality(leaves) - 1 + c
<1>1. PICK t \in TooCoarse : leaves' = (leaves \ {t}) \cup Children(t)
  BY DEF Split
<1>2. leaves \subseteq AllTiles /\ IsFiniteSet(leaves)
  BY DEF IInv, Types
<1>3. t \in leaves /\ t \in AllTiles /\ t.z < FineZoom
  <2>1. PICK b \in leaves : t.z < b.z
    BY DEF TooCoarse
  <2>2. t \in leaves
    BY DEF TooCoarse
  <2>3. QED
    BY <1>2, <2>1, <2>2, TileFields, ConstantsAssumption
<1>4. IsFiniteSet(Children(t)) /\ Cardinality(Children(t)) \in 2..4
  BY <1>3, ManyChildren
<1>5. (leaves \ {t}) \cap Children(t) = {}
  <2> SUFFICES ASSUME NEW c \in Children(t), c \in leaves, c # t PROVE FALSE
    OBVIOUS
  <2>1. c \in AllTiles /\ IsBox(Box(c)) /\ IsBox(Box(t)) /\ Within(Box(c), Box(t))
    BY <1>3, ChildrenWithin, TilesAreBoxes
  <2>2. ~Intersects(Box(t), Box(c))
    BY <1>3 DEF IInv, Apart
  <2>3. ~Intersects(Box(c), Box(c))
    BY <2>1, <2>2, PartMeets
  <2>4. QED
    BY <2>1, <2>3, SelfMeets
<1>6. /\ IsFiniteSet(leaves \ {t}) /\ Cardinality(leaves \ {t}) = Cardinality(leaves) - 1
      /\ Cardinality(leaves) \in Nat
  BY <1>2, <1>3, FS_RemoveElement, FS_CardinalityType
<1>7. Cardinality(leaves') = Cardinality(leaves \ {t}) + Cardinality(Children(t)) - Cardinality({})
  BY <1>1, <1>4, <1>5, <1>6, FS_Union
<1>8. Cardinality({}) = 0
  BY FS_EmptySet
<1>9. QED
  BY <1>4, <1>6, <1>7, <1>8

\* The limit is looked at after each turn, so there is room for what a turn adds.
LEMMA RoomyStep == IInv /\ IInv' /\ Roomy /\ [Next]_vars => Roomy'
<1> SUFFICES ASSUME IInv, IInv', Roomy, [Next]_vars PROVE Roomy'
  OBVIOUS
<1>1. /\ Cardinality(leaves) \in Nat /\ Len(pending) \in Nat /\ limit \in Nat
      /\ Cardinality(outer) \in Nat
  BY WorkTypes
<1>2. CASE Divide
  <2>1. phase = "divide" /\ limit' = limit /\ outer' = outer
    BY <1>2 DEF Divide
  <2>2. Cardinality(leaves) + Len(pending) <= limit + Cardinality(outer)
    BY <2>1 DEF Roomy, Held
  <2>3. Cardinality(leaves') + Len(pending') <= limit + Cardinality(outer) + 3
    BY <1>1, <1>2, <2>2, DivideCounts
  <2>4. phase' = "divide" => Len(pending') + Cardinality(leaves') <= limit
    <3>1. phase' = IF Len(pending') + Cardinality(leaves') > limit THEN "refused" ELSE phase
      BY <1>2 DEF Divide
    <3>2. Len(pending') \in Nat /\ Cardinality(leaves') \in Nat
      BY <1>1, <1>2, DivideCounts
    <3>3. QED
      BY <1>1, <3>1, <3>2
  <2>5. Len(pending') \in Nat /\ Cardinality(leaves') \in Nat
    BY <1>1, <1>2, DivideCounts
  <2>6. QED
    BY <1>1, <2>1, <2>3, <2>4, <2>5 DEF Roomy, Held, Room
<1>3. CASE Divided \/ Finish
  BY <1>3 DEF Divided, Finish, Roomy, Held, Room
<1>4. CASE Split
  <2>1. /\ phase = "balance" /\ phase' = phase /\ pending' = pending
        /\ limit' = limit /\ outer' = outer /\ ~(Cardinality(leaves) + 3 > limit)
    BY <1>4 DEF Split, Refuses
  <2>2. Len(pending) = 0
    BY <2>1, EmptySeq DEF IInv, Types
  <2>3. Cardinality(leaves') <= Cardinality(leaves) + 3 /\ Cardinality(leaves') \in Nat
    BY <1>1, <1>4, SplitCounts
  <2>4. QED
    BY <1>1, <2>1, <2>2, <2>3 DEF Roomy, Held, Room
<1>5. CASE UNCHANGED vars
  BY <1>5 DEF vars, Roomy, Held, Room
<1>6. QED
  BY <1>2, <1>3, <1>4, <1>5 DEF Next, Stop

\* The planning starts from the outer rectangle.
LEMMA RoomyInit == Init => Roomy
<1> SUFFICES ASSUME Init PROVE Roomy
  OBVIOUS
<1>1. IInv
  BY InitInv
<1>2. /\ Cardinality(outer) \in Nat /\ limit \in Nat /\ IsFiniteSet(outer)
  BY <1>1, WorkTypes
<1>3. Len(pending) = Cardinality(outer) /\ leaves = {}
  BY <1>2, ListedSeq DEF Init
<1>4. Cardinality(leaves) = 0
  BY <1>3, FS_EmptySet
<1>5. QED
  BY <1>2, <1>3, <1>4 DEF Roomy, Held, Room

\* There is always less to do after a step than before.
LEMMA WorkStep == IInv /\ IInv' /\ Roomy /\ [Next]_vars => [Work' < Work]_vars
<1> SUFFICES ASSUME IInv, IInv', Roomy, [Next]_vars, vars' # vars PROVE Work' < Work
  OBVIOUS
<1>1. /\ Cardinality(leaves) \in Nat /\ Len(pending) \in Nat
      /\ limit \in Nat /\ Cardinality(outer) \in Nat
  BY WorkTypes
<1>2. CASE Divide
  <2>1. /\ phase = "divide" /\ phase' \in {"divide", "refused"}
        /\ limit' = limit /\ outer' = outer
    BY <1>2 DEF Divide
  <2>2. PhasesLeft = 2 /\ PhasesLeft' \in 0..2
    BY <2>1 DEF PhasesLeft
  <2> DEFINE p == Len(pending)  q == Len(pending')
             l == Cardinality(leaves)  m == Cardinality(leaves')
             room == limit + Cardinality(outer) + 3
  <2>3. /\ Work = 2 * (room - (l + p)) + p + 2
        /\ Work' = 2 * (room - (m + q)) + q + PhasesLeft'
    BY <2>1, <2>2 DEF Work, Room, Held
  <2>4. p \in Nat /\ l \in Nat /\ room \in Nat
    BY <1>1
  <2>5. \/ \E c \in 2..4 : q = p - 1 + c /\ m = l
        \/ q = p - 1 /\ m = l + 1
    BY <1>2, DivideCounts
  <2> HIDE DEF p, q, l, m, room
  <2>6. QED
    BY <2>2, <2>3, <2>4, <2>5
<1>3. CASE Divided
  <2>1. PhasesLeft = 2 /\ PhasesLeft' = 1
    BY <1>3 DEF Divided, PhasesLeft
  <2>2. QED
    BY <1>1, <1>3, <2>1 DEF Divided, Work, Room, Held
<1>4. CASE Finish
  <2>1. PhasesLeft = 1 /\ PhasesLeft' = 0
    BY <1>4 DEF Finish, PhasesLeft
  <2>2. QED
    BY <1>1, <1>4, <2>1 DEF Finish, Work, Room, Held
<1>5. CASE Split
  <2>1. /\ PhasesLeft = 1 /\ PhasesLeft' = 1
        /\ limit' = limit /\ outer' = outer /\ pending' = pending
    BY <1>5 DEF Split, PhasesLeft
  <2>2. PICK c \in 2..4 : Cardinality(leaves') = Cardinality(leaves) - 1 + c
    BY <1>5, SplitCounts
  <2> DEFINE p == Len(pending)  l == Cardinality(leaves)
             room == limit + Cardinality(outer) + 3
  <2>3. /\ Work = 2 * (room - (l + p)) + p + 1
        /\ Work' = 2 * (room - ((l - 1 + c) + p)) + p + 1
    BY <2>1, <2>2 DEF Work, Room, Held
  <2>4. p \in Nat /\ l \in Nat /\ room \in Nat
    BY <1>1
  <2> HIDE DEF p, l, room
  <2>5. QED
    BY <2>3, <2>4
<1>6. QED
  BY <1>2, <1>3, <1>4, <1>5 DEF Next, Stop

(***************************************************************************)
(* planTerrainCoverage ends after at most 2 * limit + 8 turns more than it *)
(* has roots, whatever it is asked for: what is left to do is a natural    *)
(* number that every step makes smaller (TerrainCoverage.hh:172-226).      *)
(***************************************************************************)
THEOREM PlanningEnds == Spec => [](Work \in Nat) /\ [][Work' < Work]_vars
<1>1. Init => IInv /\ Roomy
  BY InitInv, RoomyInit
<1>2. IInv /\ Roomy /\ [Next]_vars => (IInv /\ Roomy)'
  BY InvStep, RoomyStep
<1>3. IInv /\ Roomy /\ [Next]_vars => [Work' < Work]_vars
  BY InvStep, WorkStep
<1>4. IInv /\ Roomy => Work \in Nat
  BY WorkTypes DEF Roomy, Work, PhasesLeft
<1>5. QED
  BY <1>1, <1>2, <1>3, <1>4, PTL DEF Spec
=============================================================================
