------------------------------ MODULE GpuProofs ------------------------------
(***************************************************************************)
(* Proofs about GpuResources: over every number of pages, levels of detail *)
(* and generations, and whatever calls the driver refuses, the reference   *)
(* counts are exact, nothing that is held is deleted, nothing is leaked,   *)
(* nothing is shown twice, and a teardown releases everything.             *)
(*                                                                         *)
(* The argument is a balance: the counter of a resource is what the pages  *)
(* outside (`out`) hold of it, and the deferred queues.  Every operation   *)
(* on a page keeps the balance with the page's share taken out and put     *)
(* back; loops over pages keep it by induction on the set of pages done.   *)
(***************************************************************************)
EXTENDS GpuResources, FiniteSetTheorems, WellFoundedInduction, SequenceTheorems, TLAPS

-----------------------------------------------------------------------------
(***************************************************************************)
(* Loops.  The folds are recursive functions; what they compute is shown   *)
(* by least counterexample, since every set of numbers has a least one.    *)
(***************************************************************************)
\* Every set of numbers that is not empty has a least one.
LEMMA LeastNumber ==
    ASSUME NEW T \in SUBSET Nat, T # {}
    PROVE  \E n \in T : \A m \in T : n <= m
<1> DEFINE Below == {p \in Nat \X Nat : p[1] < p[2]}
<1>1. IsWellFoundedOn(Below, Nat)
  BY NatLessThanWellFounded DEF OpToRel
<1>2. \A x, y \in Nat : x < y => <<x, y>> \in Below
  OBVIOUS
<1> HIDE DEF Below
<1>3. PICK x \in T : \A y \in T : <<y, x>> \notin Below
  BY <1>1, WFMin
<1>4. ASSUME NEW y \in T PROVE x <= y
  <2>1. x \in Nat /\ y \in Nat /\ ~(y < x)
    BY <1>2, <1>3
  <2>2. QED
    BY <2>1
<1>5. QED
  BY <1>4

\* What holds of the empty set, and of a set once it holds of the set without
\* some element, holds of a finite set.
LEMMA LoopInduction ==
    ASSUME NEW D, IsFiniteSet(D), NEW P, {} \in P,
           \A s \in SUBSET D : s # {} => \E x \in s : s \ {x} \in P => s \in P
    PROVE  D \in P
<1> SUFFICES ASSUME D \notin P PROVE FALSE
  OBVIOUS
<1> DEFINE Failing == {n \in Nat : \E s \in SUBSET D : s \notin P /\ Cardinality(s) = n}
<1>1. Failing \in SUBSET Nat
  OBVIOUS
<1>2. Failing # {}
  BY FS_CardinalityType
<1>3. PICK n \in Failing : \A m \in Failing : n <= m
  BY <1>1, <1>2, LeastNumber
<1>4. PICK s \in SUBSET D : s \notin P /\ Cardinality(s) = n
  BY <1>3
<1>5. PICK x \in s : s \ {x} \in P => s \in P
  BY <1>4
<1>6. IsFiniteSet(s)
  BY FS_Subset
<1>7. IsFiniteSet(s \ {x}) /\ Cardinality(s \ {x}) = Cardinality(s) - 1
  BY <1>6, FS_RemoveElement
<1>8. Cardinality(s \ {x}) \in Nat /\ n \in Nat
  BY <1>7, FS_CardinalityType
<1>9. n - 1 \in Failing
  BY <1>4, <1>5, <1>7, <1>8
<1>10. QED
  BY <1>3, <1>8, <1>9

\* Loops over a finite set: c says which element comes last, F what it adds.
Orders(c, D) == \A s \in SUBSET D : s # {} => c[s] \in s
Loops(h, D, base, F, c) ==
    \A s \in SUBSET D : h[s] = IF s = {} THEN base ELSE F[<<c[s], h[s \ {c[s]}]>>]

\* A loop over a finite set computes something.
LEMMA LoopExists ==
    ASSUME NEW D, IsFiniteSet(D), NEW G, NEW base \in G, NEW F \in [D \X G -> G],
           NEW c, Orders(c, D)
    PROVE  \E h \in [SUBSET D -> G] : Loops(h, D, base, F, c)
<1> DEFINE Small(n) == {s \in SUBSET D : Cardinality(s) <= n}
           Computes(h, n) == \A s \in Small(n) :
              h[s] = IF s = {} THEN base ELSE F[<<c[s], h[s \ {c[s]}]>>]
           Bad == {n \in Nat : ~ \E h \in [SUBSET D -> G] : Computes(h, n)}
<1>1. \A s \in SUBSET D : IsFiniteSet(s) /\ Cardinality(s) \in Nat
  BY FS_Subset, FS_CardinalityType
<1>2. \A s \in SUBSET D : s # {} =>
         /\ s \ {c[s]} \in SUBSET D /\ c[s] \in D
         /\ Cardinality(s \ {c[s]}) = Cardinality(s) - 1
  BY <1>1, FS_RemoveElement DEF Orders
<1>3. Bad = {}
  <2> SUFFICES ASSUME Bad # {} PROVE FALSE
    OBVIOUS
  <2>1. PICK n \in Bad : \A m \in Bad : n <= m
    BY LeastNumber
  <2>2. CASE n = 0
    <3> DEFINE h == [s \in SUBSET D |-> base]
    <3>1. h \in [SUBSET D -> G]
      OBVIOUS
    <3>2. \A s \in Small(0) : s = {}
      BY <1>1, FS_EmptySet
    <3>3. Computes(h, 0)
      BY <3>2
    <3>4. QED
      BY <2>1, <2>2, <3>1, <3>3
  <2>3. CASE n # 0
    <3>1. n - 1 \in Nat /\ n - 1 \notin Bad
      <4>1. n \in Nat
        BY <2>1
      <4> HIDE DEF Bad
      <4>2. QED
        BY <2>1, <2>3, <4>1
    <3>2. PICK h \in [SUBSET D -> G] : Computes(h, n - 1)
      BY <3>1
    <3> DEFINE k == [s \in SUBSET D |->
                       IF s = {} THEN base ELSE F[<<c[s], h[s \ {c[s]}]>>]]
    <3>3. k \in [SUBSET D -> G]
      BY <1>2
    <3>4. \A s \in Small(n - 1) : k[s] = h[s]
      BY <3>2
    <3>5. ASSUME NEW s \in Small(n), s # {}
          PROVE  k[s] = F[<<c[s], k[s \ {c[s]}]>>]
      <4>1. s \ {c[s]} \in Small(n - 1)
        BY <1>1, <1>2, <3>1, <3>5
      <4>2. QED
        BY <3>4, <3>5, <4>1
    <3>6. Computes(k, n)
      BY <3>5
    <3> HIDE DEF k, Computes
    <3>7. QED
      BY <2>1, <3>3, <3>6
  <2>4. QED
    BY <2>2, <2>3
<1>4. Cardinality(D) \in Nat
  BY FS_CardinalityType
<1>5. PICK h \in [SUBSET D -> G] : Computes(h, Cardinality(D))
  BY <1>3, <1>4
<1>6. SUBSET D \subseteq Small(Cardinality(D))
  BY FS_Subset
<1>7. QED
  BY <1>5, <1>6 DEF Loops

-----------------------------------------------------------------------------
(***************************************************************************)
(* Names and numbers.                                                      *)
(***************************************************************************)
GpuStates ==
    [refs : [Resources -> Nat], loaded : SUBSET Resources, late : SUBSET Resources,
     latePages : Seq(PageSlots), lateMaterials : Seq(Textures)]

\* A name tells a mesh from a texture, and both from no name.
LEMMA Names ==
    /\ Meshes \subseteq Resources /\ Textures \subseteq Resources
    /\ \A r \in Meshes : r[1] = "mesh" /\ r # None
    /\ \A r \in Textures : r[1] = "texture" /\ r # None
    /\ Meshes \cap Textures = {}
<1>1. \A r \in Meshes : r[1] = "mesh"
  BY DEF Meshes, MeshOf
<1>2. \A r \in Textures : r[1] = "texture"
  BY DEF Textures, TextureOf
<1>3. None[1] = "none"
  BY DEF None
<1>4. QED
  BY <1>1, <1>2, <1>3 DEF Resources

\* Whether a page counts among the holders of a resource.
One(p, r) == IF HoldsIt(p, r) THEN 1 ELSE 0

\* A set has as many elements as without one of them, and one.
LEMMA CountSplit ==
    ASSUME NEW H, IsFiniteSet(H), NEW x
    PROVE  /\ Cardinality(H) \in Nat /\ Cardinality(H \ {x}) \in Nat
           /\ Cardinality(H) = Cardinality(H \ {x}) + IF x \in H THEN 1 ELSE 0
<1>1. Cardinality(H) \in Nat
  BY FS_CardinalityType
<1>2. CASE x \in H
  <2>1. IsFiniteSet(H \ {x}) /\ Cardinality(H \ {x}) = Cardinality(H) - 1
    BY <1>2, FS_RemoveElement
  <2>2. Cardinality(H \ {x}) \in Nat
    BY <2>1, FS_CardinalityType
  <2>3. QED
    BY <1>1, <1>2, <2>1, <2>2
<1>3. CASE x \notin H
  <2>1. H \ {x} = H
    BY <1>3
  <2>2. QED
    BY <1>1, <1>3, <2>1
<1>4. QED
  BY <1>2, <1>3

\* The pages among some that hold a resource.
Among(pages, S, r) == Cardinality({k \in S : HoldsIt(pages[k], r)})

\* They are counted page by page.
LEMMA AmongSplit ==
    ASSUME NEW pages, NEW S, IsFiniteSet(S), NEW x \in S, NEW r
    PROVE  /\ Among(pages, S, r) \in Nat /\ Among(pages, S \ {x}, r) \in Nat
           /\ Among(pages, S, r) = Among(pages, S \ {x}, r) + One(pages[x], r)
<1> DEFINE H == {k \in S : HoldsIt(pages[k], r)}
<1>1. IsFiniteSet(H)
  BY FS_Subset
<1>2. H \ {x} = {k \in S \ {x} : HoldsIt(pages[k], r)}
  OBVIOUS
<1>3. x \in H <=> HoldsIt(pages[x], r)
  OBVIOUS
<1>4. Among(pages, S, r) = Cardinality(H) /\ Among(pages, S \ {x}, r) = Cardinality(H \ {x})
  BY <1>2 DEF Among
<1> HIDE DEF H
<1>5. QED
  BY <1>1, <1>3, <1>4, CountSplit DEF One

\* Holders are counted by numbers.
LEMMA AmongTypes ==
    ASSUME NEW pages, NEW S, IsFiniteSet(S), NEW r
    PROVE  Among(pages, S, r) \in Nat
<1>1. IsFiniteSet({k \in S : HoldsIt(pages[k], r)})
  BY FS_Subset
<1>2. QED
  BY <1>1, FS_CardinalityType DEF Among

\* None holds it in no page.
LEMMA AmongNone ==
    ASSUME NEW pages, NEW r PROVE Among(pages, {}, r) = 0
<1>1. {k \in {} : HoldsIt(pages[k], r)} = {}
  OBVIOUS
<1>2. QED
  BY <1>1, FS_EmptySet DEF Among

\* The count depends on the pages only.
LEMMA AmongSame ==
    ASSUME NEW f, NEW g, NEW S, NEW r, \A k \in S : HoldsIt(f[k], r) <=> HoldsIt(g[k], r)
    PROVE  Among(f, S, r) = Among(g, S, r)
<1>1. {k \in S : HoldsIt(f[k], r)} = {k \in S : HoldsIt(g[k], r)}
  OBVIOUS
<1>2. QED
  BY <1>1 DEF Among

\* A sequence has finitely many places.
LEMMA SeqFinite ==
    ASSUME NEW S, NEW s \in Seq(S)
    PROVE  IsFiniteSet(DOMAIN s) /\ DOMAIN s = 1..Len(s) /\ Len(s) \in Nat
<1>1. DOMAIN s = 1..Len(s) /\ Len(s) \in Nat
  OBVIOUS
<1>2. QED
  BY <1>1, FS_Interval

\* The places of a sequence grown by one.
LEMMA AppendSplit ==
    ASSUME NEW S, NEW s \in Seq(S), NEW x \in S
    PROVE  /\ Append(s, x) \in Seq(S)
           /\ DOMAIN Append(s, x) \ {Len(s) + 1} = DOMAIN s
           /\ Len(s) + 1 \in DOMAIN Append(s, x)
           /\ Append(s, x)[Len(s) + 1] = x
           /\ \A k \in DOMAIN s : Append(s, x)[k] = s[k]
<1> DEFINE t == Append(s, x)
           n == Len(s) + 1
<1>1. t \in Seq(S) /\ Len(t) = n /\ t[n] = x /\ \A k \in 1..Len(s) : t[k] = s[k]
  BY AppendProperties
<1>2. DOMAIN s = 1..Len(s) /\ Len(s) \in Nat
  OBVIOUS
<1>3. DOMAIN t = 1..n
  BY <1>1
<1>4. 1..n \ {n} = 1..Len(s) /\ n \in 1..n
  BY <1>2
<1>5. QED
  BY <1>1, <1>2, <1>3, <1>4

\* A page deferred counts as a holder.
LEMMA DeferPage ==
    ASSUME NEW s \in Seq(PageSlots), NEW p \in PageSlots, NEW r
    PROVE  /\ HoldersAmong(s, r) \in Nat
           /\ HoldersAmong(Append(s, p), r) = HoldersAmong(s, r) + One(p, r)
<1> DEFINE t == Append(s, p)
           n == Len(s) + 1
<1>1. /\ t \in Seq(PageSlots) /\ DOMAIN t \ {n} = DOMAIN s /\ n \in DOMAIN t /\ t[n] = p
      /\ \A k \in DOMAIN s : t[k] = s[k]
  <2>1. t \in Seq(PageSlots)
    BY AppendSplit
  <2>2. DOMAIN t \ {n} = DOMAIN s
    BY AppendSplit
  <2>3. n \in DOMAIN t
    BY AppendSplit
  <2>4. t[n] = p
    BY AppendSplit
  <2>5. \A k \in DOMAIN s : t[k] = s[k]
    BY AppendSplit
  <2>6. QED
    BY <2>1, <2>2, <2>3, <2>4, <2>5
<1>2. \A k \in DOMAIN s : t[k] = s[k]
  BY <1>1
<1> HIDE DEF t, n
<1>3. IsFiniteSet(DOMAIN t) /\ IsFiniteSet(DOMAIN s)
  BY <1>1, SeqFinite
<1>4. Among(t, DOMAIN t, r) = Among(t, DOMAIN s, r) + One(p, r)
  BY <1>1, <1>3, AmongSplit
<1>5. Among(t, DOMAIN s, r) = Among(s, DOMAIN s, r)
  BY <1>2, AmongSame
<1>6. Among(s, DOMAIN s, r) \in Nat
  BY <1>3, AmongTypes
<1>7. QED
  BY <1>4, <1>5, <1>6 DEF HoldersAmong, Among, t

\* So does a material deferred.
LEMMA DeferMaterial ==
    ASSUME NEW g \in GpuStates, NEW tex \in Textures, NEW r
    PROVE  /\ Unbound(g, r) \in Nat
           /\ Unbound([g EXCEPT !.lateMaterials = Append(@, tex)], r)
                = Unbound(g, r) + IF tex = r THEN 1 ELSE 0
<1> DEFINE s == g.lateMaterials
           t == Append(s, tex)
           n == Len(s) + 1
           H == {i \in DOMAIN t : t[i] = r}
<1>1. s \in Seq(Textures) /\ [g EXCEPT !.lateMaterials = Append(@, tex)].lateMaterials = t
  BY DEF GpuStates
<1>2. t \in Seq(Textures) /\ DOMAIN t \ {n} = DOMAIN s /\ n \in DOMAIN t /\ t[n] = tex
  BY <1>1, AppendSplit
<1>3. \A k \in DOMAIN s : t[k] = s[k]
  BY <1>1, AppendSplit
<1>4. IsFiniteSet(DOMAIN t)
  BY <1>2, SeqFinite
<1>5. Unbound([g EXCEPT !.lateMaterials = Append(@, tex)], r) = Cardinality(H)
  BY <1>1 DEF Unbound
<1>6. H \ {n} = {i \in DOMAIN s : s[i] = r} /\ IsFiniteSet(H) /\ (n \in H <=> tex = r)
  <2> HIDE DEF t, n, s
  <2>1. QED
    BY <1>2, <1>3, <1>4, FS_Subset
<1>7. Unbound(g, r) = Cardinality(H \ {n})
  BY <1>6 DEF Unbound
<1> HIDE DEF H, n
<1>8. QED
  BY <1>5, <1>6, <1>7, CountSplit

-----------------------------------------------------------------------------
(***************************************************************************)
(* Balance.  `out` is how often the pages of the slots hold a resource.    *)
(* `but` are resources the engine may have loaded for nobody.              *)
(***************************************************************************)
Shares == [Resources -> Nat]

BalancedBut(g, out, but) ==
    /\ g \in GpuStates /\ out \in Shares
    /\ g.late \subseteq g.loaded
    /\ \A r \in Resources :
          g.refs[r] = out[r] + HoldersAmong(g.latePages, r) + Unbound(g, r)
    /\ \A r \in Resources : g.refs[r] > 0 => r \in g.loaded
    /\ \A r \in g.loaded \ but : g.refs[r] = 0 => r \in g.late
    /\ \A i \in DOMAIN g.latePages : ~g.latePages[i].shown
Balanced(g, out) == BalancedBut(g, out, {})

\* Once more, and as often as a page holds it more.
Give(out, r) == [out EXCEPT ![r] = @ + 1]
Plus(out, p) == [r \in Resources |-> out[r] + One(p, r)]

\* The queues of a state.
SameQueues(g, h) == g.latePages = h.latePages /\ g.lateMaterials = h.lateMaterials

\* The holders in the queues are counted.
LEMMA QueueTypes ==
    ASSUME NEW g \in GpuStates, NEW r
    PROVE  /\ HoldersAmong(g.latePages, r) \in Nat /\ Unbound(g, r) \in Nat
           /\ \A h : SameQueues(h, g) => Unbound(h, r) = Unbound(g, r)
<1>1. g.latePages \in Seq(PageSlots) /\ g.lateMaterials \in Seq(Textures)
  BY DEF GpuStates
<1>2. IsFiniteSet(DOMAIN g.latePages) /\ IsFiniteSet(DOMAIN g.lateMaterials)
  BY <1>1, SeqFinite
<1>3. HoldersAmong(g.latePages, r) = Among(g.latePages, DOMAIN g.latePages, r)
  BY DEF HoldersAmong, Among
<1>4. IsFiniteSet({i \in DOMAIN g.lateMaterials : g.lateMaterials[i] = r})
  BY <1>2, FS_Subset
<1>5. Unbound(g, r) \in Nat
  BY <1>4, FS_CardinalityType DEF Unbound
<1>6. QED
  BY <1>2, <1>3, <1>5, AmongTypes DEF Unbound, SameQueues

\* Acquire gives a reference to the one who asks.
LEMMA AcquireBalanced ==
    ASSUME NEW g, NEW out, NEW r \in Resources, Balanced(g, out)
    PROVE  Balanced(Acquire(g, r), Give(out, r)) /\ SameQueues(Acquire(g, r), g)
<1> DEFINE h == Acquire(g, r)
<1>1. /\ h.refs = [g.refs EXCEPT ![r] = @ + 1] /\ h.loaded = g.loaded \cup {r}
      /\ h.late = g.late \ {r} /\ SameQueues(h, g)
  BY DEF Acquire, Balanced, BalancedBut, GpuStates, SameQueues
<1>2. g.refs \in [Resources -> Nat] /\ out \in Shares
  BY DEF Balanced, BalancedBut, GpuStates
<1>3. h \in GpuStates
  <2>1. g \in GpuStates /\ [g.refs EXCEPT ![r] = @ + 1] \in [Resources -> Nat]
    BY <1>2 DEF Balanced, BalancedBut
  <2>2. g.loaded \cup {r} \in SUBSET Resources /\ g.late \ {r} \in SUBSET Resources
    BY <2>1 DEF GpuStates
  <2>3. QED
    BY <2>1, <2>2 DEF Acquire, GpuStates
<1> HIDE DEF h
<1>4. Give(out, r) \in Shares /\ Give(out, r)[r] = out[r] + 1
      /\ \A q \in Resources \ {r} : Give(out, r)[q] = out[q]
  BY <1>2 DEF Give, Shares
<1>5. ASSUME NEW q \in Resources
      PROVE  h.refs[q] = Give(out, r)[q] + HoldersAmong(h.latePages, q) + Unbound(h, q)
  <2>1. HoldersAmong(h.latePages, q) = HoldersAmong(g.latePages, q)
        /\ Unbound(h, q) = Unbound(g, q)
        /\ HoldersAmong(g.latePages, q) \in Nat /\ Unbound(g, q) \in Nat
    BY <1>1, QueueTypes DEF Balanced, BalancedBut, SameQueues
  <2>2. g.refs[q] = out[q] + HoldersAmong(g.latePages, q) + Unbound(g, q)
    BY DEF Balanced, BalancedBut
  <2>3. out[q] \in Nat
    BY <1>2 DEF Shares
  <2>4. CASE q = r
    BY <1>1, <1>2, <1>4, <2>1, <2>2, <2>3, <2>4
  <2>5. CASE q # r
    BY <1>1, <1>2, <1>4, <2>1, <2>2, <2>3, <2>5
  <2>6. QED
    BY <2>4, <2>5
<1>6. \A q \in Resources : h.refs[q] > 0 => q \in h.loaded
  BY <1>1, <1>2 DEF Balanced, BalancedBut
<1>7. \A q \in h.loaded : h.refs[q] = 0 => q \in h.late
  BY <1>1, <1>2 DEF Balanced, BalancedBut, GpuStates
<1>8. h.late \subseteq h.loaded /\ \A i \in DOMAIN h.latePages : ~h.latePages[i].shown
  BY <1>1 DEF Balanced, BalancedBut, SameQueues
<1>9. QED
  BY <1>1, <1>3, <1>4, <1>5, <1>6, <1>7, <1>8 DEF Balanced, BalancedBut, h

\* Free deletes what nobody holds, now or later.
LEMMA FreeBalanced ==
    ASSUME NEW g, NEW out, NEW r \in Resources, BalancedBut(g, out, {r}), g.refs[r] = 0
    PROVE  Balanced(Free(g, r), out) /\ SameQueues(Free(g, r), g)
<1> DEFINE h == Free(g, r)
<1>1. /\ h.refs = g.refs /\ SameQueues(h, g) /\ h \in GpuStates
      /\ \/ r \in g.loaded /\ h.loaded = g.loaded /\ h.late = g.late \cup {r}
         \/ h.loaded = g.loaded \ {r} /\ h.late = g.late \ {r}
  BY DEF Free, BalancedBut, GpuStates, SameQueues
<1> HIDE DEF h
<1>2. \A q \in Resources :
         h.refs[q] = out[q] + HoldersAmong(h.latePages, q) + Unbound(h, q)
  BY <1>1, QueueTypes DEF BalancedBut, SameQueues
<1>3. \A q \in Resources : h.refs[q] > 0 => q \in h.loaded
  BY <1>1 DEF BalancedBut
<1>4. \A q \in h.loaded : h.refs[q] = 0 => q \in h.late
  BY <1>1 DEF BalancedBut
<1>5. QED
  BY <1>1, <1>2, <1>3, <1>4 DEF Balanced, BalancedBut, SameQueues, h

\* Release takes back one reference, and frees the resource with the last one.
LEMMA ReleaseBalanced ==
    ASSUME NEW g, NEW out \in Shares, NEW r \in Resources, Balanced(g, Give(out, r))
    PROVE  Balanced(Release(g, r), out) /\ SameQueues(Release(g, r), g)
<1>1. g \in GpuStates /\ g.refs \in [Resources -> Nat]
  BY DEF Balanced, BalancedBut, GpuStates
<1>2. Give(out, r)[r] = out[r] + 1 /\ \A q \in Resources \ {r} : Give(out, r)[q] = out[q]
  BY DEF Give, Shares
<1>3. \A q \in Resources :
        /\ HoldersAmong(g.latePages, q) \in Nat /\ Unbound(g, q) \in Nat /\ out[q] \in Nat
        /\ g.refs[q] = Give(out, r)[q] + HoldersAmong(g.latePages, q) + Unbound(g, q)
  BY <1>1, QueueTypes DEF Balanced, BalancedBut, Shares
<1>4. g.refs[r] = out[r] + 1 + HoldersAmong(g.latePages, r) + Unbound(g, r)
  BY <1>2, <1>3
<1> DEFINE h == [g EXCEPT !.refs[r] = @ - 1]
<1>5. g.refs[r] - 1 \in Nat
  BY <1>3, <1>4
<1>6. /\ h.refs = [g.refs EXCEPT ![r] = @ - 1] /\ h \in GpuStates
      /\ h.loaded = g.loaded /\ h.late = g.late /\ SameQueues(h, g)
  BY <1>1, <1>5 DEF GpuStates, SameQueues
<1> HIDE DEF h
<1>7. ASSUME NEW q \in Resources
      PROVE  h.refs[q] = out[q] + HoldersAmong(h.latePages, q) + Unbound(h, q)
  <2>1. HoldersAmong(h.latePages, q) = HoldersAmong(g.latePages, q)
        /\ Unbound(h, q) = Unbound(g, q)
    BY <1>1, <1>6, QueueTypes DEF SameQueues
  <2>2. CASE q = r
    BY <1>1, <1>3, <1>4, <1>6, <2>1, <2>2
  <2>3. CASE q # r
    BY <1>1, <1>2, <1>3, <1>6, <2>1, <2>3
  <2>4. QED
    BY <2>2, <2>3
<1>8. /\ \A q \in Resources : h.refs[q] > 0 => q \in h.loaded
      /\ \A q \in h.loaded \ {r} : h.refs[q] = 0 => q \in h.late
  <2>0. g.loaded \subseteq Resources /\ g.refs[r] > 0
    BY <1>1, <1>3, <1>4 DEF GpuStates
  <2>1. r \in g.loaded
    BY <2>0 DEF Balanced, BalancedBut
  <2>2. \A q \in Resources \ {r} : h.refs[q] = g.refs[q]
    BY <1>1, <1>6
  <2>3. QED
    BY <1>6, <2>0, <2>1, <2>2 DEF Balanced, BalancedBut
<1>9. BalancedBut(h, out, {r})
  BY <1>6, <1>7, <1>8 DEF Balanced, BalancedBut, SameQueues
<1>10. CASE g.refs[r] > 1
  <2>1. Release(g, r) = h
    BY <1>10 DEF Release, h
  <2>2. h.refs[r] # 0
    BY <1>1, <1>6, <1>10
  <2>3. QED
    BY <1>6, <1>9, <2>1, <2>2 DEF Balanced, BalancedBut
<1>11. CASE g.refs[r] = 1
  <2>1. h = [g EXCEPT !.refs[r] = 0]
    <3>1. g.refs[r] - 1 = 0
      BY <1>11
    <3>2. QED
      BY <3>1 DEF h
  <2>2. Release(g, r) = Free(h, r)
    <3>1. ~(g.refs[r] > 1)
      BY <1>11
    <3> DEFINE z == [g EXCEPT !.refs[r] = 0]
    <3>2. Release(g, r) = Free(z, r)
      BY <1>11, <3>1 DEF Release
    <3>3. QED
      BY <2>1, <3>2
  <2>3. h.refs[r] = 0
    BY <1>1, <1>6, <1>11
  <2>4. Balanced(Free(h, r), out) /\ SameQueues(Free(h, r), h)
    BY <1>9, <2>3, FreeBalanced
  <2>5. QED
    BY <1>6, <2>2, <2>4 DEF SameQueues
<1>12. QED
  BY <1>1, <1>3, <1>4, <1>10, <1>11

-----------------------------------------------------------------------------
(***************************************************************************)
(* Pages.                                                                  *)
(***************************************************************************)
\* A page holds its mesh, if it has a geometry, and its texture.
LEMMA PageTypes ==
    ASSUME NEW p \in PageSlots
    PROVE  /\ p.mesh \in Meshes \cup {None} /\ p.tex \in Textures \cup {None}
           /\ p.srcMesh \in Meshes /\ p.srcTex \in Textures
           /\ p.geometry \in BOOLEAN /\ p.resident \in BOOLEAN /\ p.shown \in BOOLEAN
           /\ p.warming \in BOOLEAN /\ p.offscreen \in 0..OffscreenFrames
BY DEF PageSlots

\* Shares are counted page by page.
LEMMA PlusTypes ==
    ASSUME NEW out \in Shares, NEW p
    PROVE  Plus(out, p) \in Shares /\ \A r \in Resources : Plus(out, p)[r] = out[r] + One(p, r)
BY DEF Plus, Shares, One

\* A page without geometry and texture holds nothing.
LEMMA BareHoldsNothing ==
    ASSUME NEW out \in Shares, NEW p, ~p.geometry, p.tex = None
    PROVE  Plus(out, p) = out
<1>1. \A r \in Resources : One(p, r) = 0
  BY Names DEF One, HoldsIt, Resources
<1>2. out = [r \in Resources |-> out[r]] /\ \A r \in Resources : out[r] \in Nat
  BY DEF Shares
<1>3. \A r \in Resources : out[r] + One(p, r) = out[r]
  BY <1>1, <1>2
<1>4. [r \in Resources |-> out[r] + One(p, r)] = [r \in Resources |-> out[r]]
  BY <1>3
<1>5. QED
  BY <1>2, <1>4 DEF Plus

\* Pages that hold the same count the same.
LEMMA SamePlus ==
    ASSUME NEW out, NEW p, NEW q, \A r \in Resources : HoldsIt(p, r) <=> HoldsIt(q, r)
    PROVE  Plus(out, p) = Plus(out, q)
<1>1. \A r \in Resources : One(p, r) = One(q, r)
  BY DEF One
<1>2. QED
  BY <1>1 DEF Plus

\* A geometry and a texture are given one by one.
LEMMA PlusMesh ==
    ASSUME NEW out \in Shares, NEW p, NEW q, p.geometry, p.mesh \in Meshes,
           ~q.geometry, q.tex = p.tex, p.tex \in Textures \cup {None}
    PROVE  Plus(out, p) = Give(Plus(out, q), p.mesh)
<1>1. p.mesh \in Resources /\ p.mesh \notin Textures /\ p.mesh # None
  BY Names
<1>2. One(q, p.mesh) = 0 /\ One(p, p.mesh) = 1
  BY <1>1 DEF One, HoldsIt
<1>3. \A r \in Resources \ {p.mesh} : One(p, r) = One(q, r)
  BY DEF One, HoldsIt
<1>4. Plus(out, q) \in Shares /\ Plus(out, p) \in Shares
  BY PlusTypes
<1>5. Plus(out, p)[p.mesh] = Plus(out, q)[p.mesh] + 1
  BY <1>1, <1>2, PlusTypes DEF Shares
<1>6. \A r \in Resources \ {p.mesh} : Plus(out, p)[r] = Plus(out, q)[r]
  BY <1>3, PlusTypes
<1>7. QED
  BY <1>1, <1>4, <1>5, <1>6 DEF Give, Shares

\* A texture beside a geometry, or without one.
LEMMA PlusTexture ==
    ASSUME NEW out \in Shares, NEW p, NEW q, p.tex \in Textures, q.tex = None,
           p.geometry <=> q.geometry, p.mesh = q.mesh, p.mesh \in Meshes \cup {None}
    PROVE  Plus(out, p) = Give(Plus(out, q), p.tex)
<1>1. p.tex \in Resources /\ p.tex \notin Meshes /\ p.tex # None
  BY Names
<1>2. One(q, p.tex) = 0 /\ One(p, p.tex) = 1
  BY <1>1 DEF One, HoldsIt
<1>3. \A r \in Resources \ {p.tex} : One(p, r) = One(q, r)
  BY Names DEF One, HoldsIt, Resources
<1>4. Plus(out, q) \in Shares /\ Plus(out, p) \in Shares
  BY PlusTypes
<1>5. Plus(out, p)[p.tex] = Plus(out, q)[p.tex] + 1
  BY <1>1, <1>2, PlusTypes DEF Shares
<1>6. \A r \in Resources \ {p.tex} : Plus(out, p)[r] = Plus(out, q)[r]
  BY <1>3, PlusTypes
<1>7. QED
  BY <1>1, <1>4, <1>5, <1>6 DEF Give, Shares

\* A page without reference may have an engine mesh of its own.
Loose(p) == IF p.geometry THEN {} ELSE {p.mesh}
Meshless(p) == [p EXCEPT !.mesh = None, !.geometry = FALSE]

\* ReleaseMesh takes the page's mesh from it.
LEMMA ReleaseMeshBalanced ==
    ASSUME NEW g, NEW out \in Shares, NEW p \in PageSlots,
           BalancedBut(g, Plus(out, p), Loose(p))
    PROVE  /\ Balanced(ReleaseMesh(g, p), Plus(out, Meshless(p)))
           /\ SameQueues(ReleaseMesh(g, p), g)
<1> DEFINE q == Meshless(p)
<1>1. q.mesh = None /\ q.geometry = FALSE /\ q.tex = p.tex
  BY DEF Meshless, PageSlots
<1>2. Plus(out, q) \in Shares
  BY PlusTypes
<1> HIDE DEF q
<1>3. CASE p.geometry /\ p.mesh # None
  <2>1. Balanced(g, Plus(out, p))
    BY <1>3 DEF Loose, Balanced
  <2>2. p.mesh \in Meshes /\ p.mesh \in Resources
    BY <1>3, PageTypes, Names
  <2>3. Plus(out, p) = Give(Plus(out, q), p.mesh)
    BY <1>1, <1>3, <2>2, PageTypes, PlusMesh
  <2>4. ReleaseMesh(g, p) = Release(g, p.mesh)
    BY <1>3 DEF ReleaseMesh
  <2>5. QED
    BY <1>2, <2>1, <2>2, <2>3, <2>4, ReleaseBalanced DEF q
<1>4. CASE p.mesh = None
  <2>1. ReleaseMesh(g, p) = g
    BY <1>4 DEF ReleaseMesh
  <2>2. \A r \in Resources : HoldsIt(p, r) <=> HoldsIt(q, r)
    BY <1>1, <1>4, Names DEF HoldsIt, Resources
  <2>3. Plus(out, p) = Plus(out, q)
    BY <2>2, SamePlus
  <2>4. g.loaded \subseteq Resources /\ None \notin Resources
    BY Names DEF BalancedBut, GpuStates, Resources
  <2>5. Balanced(g, Plus(out, p))
    BY <1>4, <2>4 DEF Loose, Balanced, BalancedBut
  <2>6. QED
    BY <2>1, <2>3, <2>5 DEF SameQueues, q
<1>5. CASE ~p.geometry /\ p.mesh # None
  <2>1. p.mesh \in Meshes /\ p.mesh \in Resources
    BY <1>5, PageTypes, Names
  <2>2. \A r \in Resources : HoldsIt(p, r) <=> HoldsIt(q, r)
    BY <1>1, <1>5 DEF HoldsIt
  <2>3. Plus(out, p) = Plus(out, q)
    BY <2>2, SamePlus
  <2>4. BalancedBut(g, Plus(out, q), {p.mesh})
    BY <1>5, <2>3 DEF Loose
  <2>5. CASE g.refs[p.mesh] # 0
    <3>1. ReleaseMesh(g, p) = g
      BY <1>5, <2>5 DEF ReleaseMesh
    <3>2. Balanced(g, Plus(out, q))
      BY <2>4, <2>5 DEF Balanced, BalancedBut
    <3>3. QED
      BY <3>1, <3>2 DEF SameQueues, q
  <2>6. CASE g.refs[p.mesh] = 0
    <3>1. ReleaseMesh(g, p) = Free(g, p.mesh)
      BY <1>5, <2>6 DEF ReleaseMesh
    <3>2. QED
      BY <2>1, <2>4, <2>6, <3>1, FreeBalanced DEF q
  <2>7. QED
    BY <2>5, <2>6
<1>6. QED
  BY <1>3, <1>4, <1>5

\* DropMaterial takes the reference from its owner, or leaves it in the queue.
LEMMA DropMaterialBalanced ==
    ASSUME NEW g, NEW out \in Shares, NEW tex \in Textures, Balanced(g, Give(out, tex))
    PROVE  /\ Balanced(DropMaterial(g, tex), out)
           /\ DropMaterial(g, tex).latePages = g.latePages
           /\ "unbind" \notin refusing => SameQueues(DropMaterial(g, tex), g)
<1>1. tex # None /\ tex \in Resources
  BY Names
<1>2. CASE "unbind" \notin refusing
  <2>1. DropMaterial(g, tex) = Release(g, tex)
    BY <1>1, <1>2 DEF DropMaterial
  <2>2. QED
    BY <1>1, <2>1, ReleaseBalanced DEF SameQueues
<1>3. CASE "unbind" \in refusing
  <2> DEFINE h == [g EXCEPT !.lateMaterials = Append(@, tex)]
  <2>1. DropMaterial(g, tex) = h
    BY <1>1, <1>3 DEF DropMaterial
  <2>2. g \in GpuStates
    BY DEF Balanced, BalancedBut
  <2>3. Append(g.lateMaterials, tex) \in Seq(Textures)
    BY <2>2 DEF GpuStates
  <2>4. /\ h \in GpuStates /\ h.refs = g.refs /\ h.loaded = g.loaded /\ h.late = g.late
        /\ h.latePages = g.latePages
    BY <2>2, <2>3 DEF GpuStates
  <2>5. \A r : Unbound(h, r) = Unbound(g, r) + (IF tex = r THEN 1 ELSE 0)
    BY <2>2, DeferMaterial
  <2> HIDE DEF h
  <2>6. Give(out, tex)[tex] = out[tex] + 1
        /\ \A r \in Resources \ {tex} : Give(out, tex)[r] = out[r]
    BY <1>1 DEF Give, Shares
  <2>7. ASSUME NEW r \in Resources
        PROVE  h.refs[r] = out[r] + HoldersAmong(h.latePages, r) + Unbound(h, r)
    <3>1. HoldersAmong(g.latePages, r) \in Nat /\ Unbound(g, r) \in Nat /\ out[r] \in Nat
      BY <2>2, QueueTypes DEF Shares
    <3>2. g.refs[r] = Give(out, tex)[r] + HoldersAmong(g.latePages, r) + Unbound(g, r)
      BY DEF Balanced, BalancedBut
    <3>3. CASE r = tex
      BY <2>4, <2>5, <2>6, <3>1, <3>2, <3>3
    <3>4. CASE r # tex
      BY <2>4, <2>5, <2>6, <3>1, <3>2, <3>4
    <3>5. QED
      BY <3>3, <3>4
  <2>8. Balanced(h, out)
    BY <2>4, <2>7 DEF Balanced, BalancedBut
  <2>9. QED
    BY <1>3, <2>1, <2>4, <2>8
<1>4. QED
  BY <1>2, <1>3

\* What became of a page: a page again, that holds what it holds, and is
\* not on screen unless it is to be.
Fine(w, out, visible) ==
    /\ w.page \in PageSlots /\ Balanced(w.gpu, Plus(out, w.page))
    /\ w.page.shown => visible

\* UnloadPageGpu keeps the balance, whatever of a page there is.
LEMMA UnloadBalanced ==
    ASSUME NEW g, NEW out \in Shares, NEW p \in PageSlots,
           BalancedBut(g, Plus(out, p), Loose(p))
    PROVE  LET w == Unload(g, p) IN
           /\ Fine(w, out, FALSE) /\ ~w.page.resident
           /\ Stuck(p) => w.gpu = g
           /\ ~Stuck(p) => ~w.page.geometry /\ w.page.tex = None /\ w.page.mesh = None
           /\ w.page.srcMesh = p.srcMesh /\ w.page.srcTex = p.srcTex
           /\ w.page.warming = p.warming
           /\ w.gpu.latePages = g.latePages
           /\ "unbind" \notin refusing => SameQueues(w.gpu, g)
<1> DEFINE w == Unload(g, p)
<1>1. CASE Stuck(p)
  <2>1. w.gpu = g /\ w.page = Hidden(p)
    BY <1>1 DEF Unload
  <2>2. /\ Hidden(p) \in PageSlots /\ ~Hidden(p).shown /\ ~Hidden(p).resident
        /\ Hidden(p).geometry = p.geometry /\ Hidden(p).mesh = p.mesh
        /\ Hidden(p).tex = p.tex /\ Hidden(p).srcMesh = p.srcMesh
        /\ Hidden(p).srcTex = p.srcTex /\ Hidden(p).warming = p.warming
    BY DEF Hidden, PageSlots
  <2>3. Plus(out, Hidden(p)) = Plus(out, p)
    BY <2>2, SamePlus DEF HoldsIt
  <2>4. Balanced(g, Plus(out, p))
    BY <1>1 DEF Stuck, Loose, Balanced
  <2> HIDE DEF w
  <2>5. QED
    BY <1>1, <2>1, <2>2, <2>3, <2>4 DEF Fine, SameQueues, w
<1>2. CASE ~Stuck(p)
  <2> DEFINE q == Meshless(p)
             h == ReleaseMesh(g, p)
  <2>1. w.gpu = DropMaterial(h, p.tex) /\ w.page = Bare(p)
    BY <1>2 DEF Unload
  <2>2. /\ Bare(p) \in PageSlots /\ ~Bare(p).shown /\ ~Bare(p).resident
        /\ ~Bare(p).geometry /\ Bare(p).mesh = None
        /\ Bare(p).tex = None /\ Bare(p).srcMesh = p.srcMesh
        /\ Bare(p).srcTex = p.srcTex /\ Bare(p).warming = p.warming
    BY DEF Bare, Hidden, PageSlots
  <2>3. q.tex = p.tex /\ q.geometry = FALSE /\ q.mesh = None
    BY DEF Meshless, PageSlots
  <2>4. Balanced(h, Plus(out, q)) /\ SameQueues(h, g)
    BY ReleaseMeshBalanced
  <2>5. Plus(out, Bare(p)) = out
    BY <2>2, BareHoldsNothing
  <2> HIDE DEF w, q, h
  <2>6. CASE p.tex = None
    <3>1. DropMaterial(h, p.tex) = h
      BY <2>6 DEF DropMaterial
    <3>2. Plus(out, q) = out
      BY <2>3, <2>6, BareHoldsNothing
    <3>3. QED
      BY <1>2, <2>1, <2>2, <2>4, <2>5, <3>1, <3>2 DEF Fine, SameQueues, w
  <2>7. CASE p.tex # None
    <3>1. p.tex \in Textures
      BY <2>7, PageTypes
    <3>2. Plus(out, q) = Give(Plus(out, Bare(p)), p.tex)
      BY <2>2, <2>3, <3>1, PlusTexture
    <3>3. Balanced(h, Give(out, p.tex))
      BY <2>4, <2>5, <3>2
    <3>4. /\ Balanced(DropMaterial(h, p.tex), out)
          /\ DropMaterial(h, p.tex).latePages = h.latePages
          /\ "unbind" \notin refusing => SameQueues(DropMaterial(h, p.tex), h)
      BY <3>1, <3>3, DropMaterialBalanced
    <3>5. QED
      BY <1>2, <2>1, <2>2, <2>4, <2>5, <3>4 DEF Fine, SameQueues, w
  <2>8. QED
    BY <2>6, <2>7
<1>3. QED
  BY <1>1, <1>2

\* DestroyPage takes a page out of its slot, or leaves it in the queue.
LEMMA DestroyPageBalanced ==
    ASSUME NEW g, NEW out \in Shares, NEW p \in PageSlots, Balanced(g, Plus(out, p))
    PROVE  /\ Balanced(DestroyPage(g, p), out)
           /\ refusing = {} => SameQueues(DestroyPage(g, p), g)
<1>1. BalancedBut(g, Plus(out, p), Loose(p))
  BY DEF Balanced, BalancedBut
<1>2. CASE Stuck(p)
  <2> DEFINE q == Hidden(p)
             h == [g EXCEPT !.latePages = Append(@, q)]
  <2>1. DestroyPage(g, p) = h
    BY <1>2 DEF DestroyPage
  <2>2. q \in PageSlots /\ ~q.shown /\ \A r : HoldsIt(q, r) <=> HoldsIt(p, r)
    BY DEF Hidden, PageSlots, HoldsIt
  <2> HIDE DEF q
  <2>3. g \in GpuStates
    BY DEF Balanced, BalancedBut
  <2>4. /\ Append(g.latePages, q) \in Seq(PageSlots)
        /\ \A i \in DOMAIN Append(g.latePages, q) : ~Append(g.latePages, q)[i].shown
    <3>1. g.latePages \in Seq(PageSlots)
      BY <2>3 DEF GpuStates
    <3>2. \A i \in DOMAIN g.latePages : ~g.latePages[i].shown
      BY DEF Balanced, BalancedBut
    <3> DEFINE s == g.latePages
               t == Append(s, q)
               n == Len(s) + 1
    <3>3. t \in Seq(PageSlots) /\ t[n] = q
      BY <2>2, <3>1, AppendSplit
    <3>4. DOMAIN t \ {n} = DOMAIN s
      BY <2>2, <3>1, AppendSplit
    <3>5. \A k \in DOMAIN s : t[k] = s[k]
      BY <2>2, <3>1, AppendSplit
    <3> HIDE DEF t, n
    <3>6. \A i \in DOMAIN t : ~t[i].shown
      BY <2>2, <3>2, <3>3, <3>4, <3>5
    <3>7. QED
      BY <3>3, <3>6 DEF t
  <2>5. /\ h \in GpuStates /\ h.refs = g.refs /\ h.loaded = g.loaded /\ h.late = g.late
        /\ h.latePages = Append(g.latePages, q) /\ h.lateMaterials = g.lateMaterials
    BY <2>3, <2>4 DEF GpuStates
  <2> HIDE DEF h
  <2>6. ASSUME NEW r \in Resources
        PROVE  h.refs[r] = out[r] + HoldersAmong(h.latePages, r) + Unbound(h, r)
    <3>1. g.latePages \in Seq(PageSlots)
      BY <2>3 DEF GpuStates
    <3>2. HoldersAmong(h.latePages, r) = HoldersAmong(g.latePages, r) + One(p, r)
      BY <2>2, <2>5, <3>1, DeferPage DEF One
    <3>3. HoldersAmong(g.latePages, r) \in Nat /\ Unbound(g, r) \in Nat /\ out[r] \in Nat
      BY <2>3, QueueTypes DEF Shares
    <3>4. Unbound(h, r) = Unbound(g, r)
      BY <2>5 DEF Unbound
    <3>5. g.refs[r] = (out[r] + One(p, r)) + HoldersAmong(g.latePages, r) + Unbound(g, r)
      BY PlusTypes DEF Balanced, BalancedBut
    <3>6. One(p, r) \in {0, 1}
      BY DEF One
    <3>7. h.refs[r] = g.refs[r]
      BY <2>5
    <3> HIDE DEF h
    <3>8. \A a, b, c, d \in Nat : (a + b) + c + d = a + (c + b) + d
      OBVIOUS
    <3>9. h.refs[r] = out[r] + (HoldersAmong(g.latePages, r) + One(p, r)) + Unbound(g, r)
      BY <3>3, <3>5, <3>6, <3>7, <3>8
    <3>10. QED
      BY <3>2, <3>4, <3>9
  <2>7. Balanced(h, out)
    BY <2>4, <2>5, <2>6 DEF Balanced, BalancedBut
  <2>8. QED
    BY <1>2, <2>1, <2>7 DEF Stuck
<1>3. CASE ~Stuck(p)
  <2> DEFINE w == Unload(g, p)
  <2>1. DestroyPage(g, p) = w.gpu
    BY <1>3 DEF DestroyPage
  <2>2. /\ Fine(w, out, FALSE) /\ ~w.page.geometry /\ w.page.tex = None
        /\ "unbind" \notin refusing => SameQueues(w.gpu, g)
    BY <1>1, <1>3, UnloadBalanced
  <2> HIDE DEF w
  <2>3. Plus(out, w.page) = out
    BY <2>2, BareHoldsNothing
  <2>4. QED
    BY <2>1, <2>2, <2>3 DEF Fine
<1>4. QED
  BY <1>2, <1>3

-----------------------------------------------------------------------------
(***************************************************************************)
(* Slots and queues, page by page.                                         *)
(***************************************************************************)
\* What a slot's pages hold besides.
PlusAll(out, pages, S) == [r \in Resources |-> out[r] + Among(pages, S, r)]

\* Shares with those of some pages are shares.
LEMMA PlusAllTypes ==
    ASSUME NEW out \in Shares, NEW pages, NEW S, IsFiniteSet(S)
    PROVE  PlusAll(out, pages, S) \in Shares
BY AmongTypes DEF PlusAll, Shares

\* One page more.
LEMMA PlusAllSplit ==
    ASSUME NEW out \in Shares, NEW pages, NEW S, IsFiniteSet(S), NEW x \in S
    PROVE  PlusAll(out, pages, S) = Plus(PlusAll(out, pages, S \ {x}), pages[x])
<1>1. IsFiniteSet(S \ {x})
  BY FS_Subset
<1>2. \A r \in Resources : PlusAll(out, pages, S)[r]
                             = PlusAll(out, pages, S \ {x})[r] + One(pages[x], r)
  <2> TAKE r \in Resources
  <2>1. Among(pages, S, r) = Among(pages, S \ {x}, r) + One(pages[x], r)
        /\ Among(pages, S \ {x}, r) \in Nat
    BY AmongSplit
  <2>2. out[r] \in Nat /\ One(pages[x], r) \in Nat
    BY DEF Shares, One
  <2>3. QED
    BY <2>1, <2>2 DEF PlusAll
<1>3. QED
  BY <1>2 DEF Plus, PlusAll

\* No page more.
LEMMA PlusAllNone ==
    ASSUME NEW out \in Shares, NEW pages
    PROVE  PlusAll(out, pages, {}) = out
<1>1. \A r \in Resources : out[r] + Among(pages, {}, r) = out[r]
  BY AmongNone DEF Shares
<1>2. QED
  BY <1>1 DEF PlusAll, Shares

\* Releases end in states, balanced or not.
LEMMA ReleaseTypes ==
    ASSUME NEW g \in GpuStates, NEW r \in Resources
    PROVE  Free(g, r) \in GpuStates /\ Release(g, r) \in GpuStates
<1>1. \A h \in GpuStates : Free(h, r) \in GpuStates
  BY DEF Free, GpuStates
<1>2. g.refs \in [Resources -> Nat] /\ g.refs[r] \in Nat
  BY DEF GpuStates
<1>3. ASSUME NEW n \in Nat PROVE [g EXCEPT !.refs[r] = n] \in GpuStates
  <2>1. [g.refs EXCEPT ![r] = n] \in [Resources -> Nat]
    BY <1>2
  <2>2. QED
    BY <2>1 DEF GpuStates
<1>4. CASE g.refs[r] > 1
  <2>1. g.refs[r] - 1 \in Nat
    BY <1>2, <1>4
  <2>2. QED
    BY <1>1, <1>3, <1>4, <2>1 DEF Release
<1>5. CASE g.refs[r] = 1
  <2>1. ~(g.refs[r] > 1) /\ [g EXCEPT !.refs[r] = 0] \in GpuStates
    BY <1>3, <1>5
  <2>2. QED
    BY <1>1, <1>5, <2>1 DEF Release
<1>6. CASE ~(g.refs[r] > 1) /\ g.refs[r] # 1
  BY <1>1, <1>6 DEF Release
<1>7. QED
  BY <1>4, <1>5, <1>6

\* A destroyed page leaves a state, balanced or not.
LEMMA DestroyPageTypes ==
    ASSUME NEW g \in GpuStates, NEW p \in PageSlots
    PROVE  DestroyPage(g, p) \in GpuStates
<1>1. CASE Stuck(p)
  <2>1. Hidden(p) \in PageSlots
    BY DEF Hidden, PageSlots
  <2>2. Append(g.latePages, Hidden(p)) \in Seq(PageSlots)
    BY <2>1 DEF GpuStates
  <2>3. QED
    BY <1>1, <2>2 DEF DestroyPage, GpuStates
<1>2. CASE ~Stuck(p)
  <2> DEFINE h == ReleaseMesh(g, p)
  <2>1. h \in GpuStates
    <3>1. p.mesh = None \/ p.mesh \in Resources
      BY PageTypes, Names
    <3>2. QED
      BY <3>1, ReleaseTypes DEF ReleaseMesh
  <2> HIDE DEF h
  <2>2. DropMaterial(h, p.tex) \in GpuStates
    <3>1. p.tex = None \/ (p.tex \in Resources /\ p.tex \in Textures)
      BY PageTypes, Names
    <3>2. p.tex \in Textures => Append(h.lateMaterials, p.tex) \in Seq(Textures)
      BY <2>1 DEF GpuStates
    <3>3. p.tex \in Textures => [h EXCEPT !.lateMaterials = Append(@, p.tex)] \in GpuStates
      BY <2>1, <3>2 DEF GpuStates
    <3>4. QED
      BY <2>1, <3>1, <3>3, ReleaseTypes DEF DropMaterial
  <2>3. QED
    BY <1>2, <2>2 DEF DestroyPage, Unload, h
<1>3. QED
  BY <1>1, <1>2

\* A loop that destroys pages one by one.
Destroys(h, pages, g) ==
    /\ h[{}] = g
    /\ \A s \in SUBSET DOMAIN pages : s # {} =>
          \E k \in s : h[s] = DestroyPage(h[s \ {k}], pages[k])

\* The loop of DestroySlot.
LEMMA DestroySlotLoop ==
    ASSUME NEW g \in GpuStates, NEW slot, IsFiniteSet(DOMAIN slot.pages),
           \A k \in DOMAIN slot.pages : slot.pages[k] \in PageSlots
    PROVE  \E h : Destroys(h, slot.pages, g) /\ h[DOMAIN slot.pages] = DestroySlot(g, slot)
<1> DEFINE D == DOMAIN slot.pages
           c == [s \in SUBSET D |-> CHOOSE k \in s : TRUE]
           F == [x \in D \X GpuStates |-> DestroyPage(x[2], slot.pages[x[1]])]
           Body(h) == [s \in SUBSET D |-> IF s = {} THEN g
                         ELSE DestroyPage(h[s \ {CHOOSE k \in s : TRUE}],
                                          slot.pages[CHOOSE k \in s : TRUE])]
           loop == CHOOSE h : h = Body(h)
<1>1. DestroySlot(g, slot) = loop[D]
  BY DEF DestroySlot, FoldFunction, FoldFunctionOnSet, MapThenFoldSet
<1>2. F \in [D \X GpuStates -> GpuStates]
  BY DestroyPageTypes
<1>3. \A s \in SUBSET D : s # {} => c[s] \in s /\ c[s] = CHOOSE k \in s : TRUE
  OBVIOUS
<1>0. IsFiniteSet(D)
  OBVIOUS
<1> HIDE DEF c, F, D
<1>4. PICK h \in [SUBSET D -> GpuStates] : Loops(h, D, g, F, c)
  <2>1. Orders(c, D)
    BY <1>3 DEF Orders
  <2>2. g \in GpuStates
    OBVIOUS
  <2>3. QED
    BY <1>0, <1>2, <2>1, <2>2, LoopExists
<1>5. ASSUME NEW s \in SUBSET D, s # {}
      PROVE  h[s] = DestroyPage(h[s \ {CHOOSE k \in s : TRUE}],
                                slot.pages[CHOOSE k \in s : TRUE])
  <2>1. h[s \ {c[s]}] \in GpuStates /\ c[s] \in D
    BY <1>3, <1>5
  <2>2. F[<<c[s], h[s \ {c[s]}]>>] = DestroyPage(h[s \ {c[s]}], slot.pages[c[s]])
    BY <2>1 DEF F
  <2>3. QED
    BY <1>3, <1>4, <1>5, <2>2 DEF Loops
<1>6. h = Body(h)
  BY <1>4, <1>5 DEF Loops
<1>7. loop = Body(loop)
  BY <1>6
<1> HIDE DEF loop
<1>8. /\ loop[{}] = g
      /\ \A s \in SUBSET D : s # {} =>
           loop[s] = DestroyPage(loop[s \ {CHOOSE k \in s : TRUE}],
                                 slot.pages[CHOOSE k \in s : TRUE])
  BY <1>7
<1>9. \A s \in SUBSET D : s # {} => (CHOOSE k \in s : TRUE) \in s
  BY <1>3
<1>10. \A s \in SUBSET D : s # {} =>
          \E k \in s : loop[s] = DestroyPage(loop[s \ {k}], slot.pages[k])
  BY <1>8, <1>9
<1>11. Destroys(loop, slot.pages, g) /\ loop[D] = DestroySlot(g, slot)
  BY <1>1, <1>8, <1>10 DEF Destroys, D
<1>12. QED
  BY <1>11 DEF D

\* What pages some of which are destroyed still hold.
LEMMA LeftOver ==
    ASSUME NEW out \in Shares, NEW pages, NEW D, IsFiniteSet(D), NEW s \in SUBSET D, NEW k \in s
    PROVE  /\ PlusAll(out, pages, D \ (s \ {k})) = Plus(PlusAll(out, pages, D \ s), pages[k])
           /\ PlusAll(out, pages, D \ s) \in Shares
<1>1. IsFiniteSet(D \ (s \ {k})) /\ IsFiniteSet(D \ s)
  BY FS_Subset
<1>2. k \in D \ (s \ {k}) /\ (D \ (s \ {k})) \ {k} = D \ s
  OBVIOUS
<1>3. PlusAll(out, pages, D \ (s \ {k})) =
        Plus(PlusAll(out, pages, (D \ (s \ {k})) \ {k}), pages[k])
  BY <1>1, <1>2, PlusAllSplit
<1>4. QED
  BY <1>1, <1>2, <1>3, PlusAllTypes

\* A loop that destroys pages one by one gives back what they hold.
LEMMA DestroyedBalanced ==
    ASSUME NEW pages, NEW out \in Shares, IsFiniteSet(DOMAIN pages),
           \A k \in DOMAIN pages : pages[k] \in PageSlots,
           NEW g, Balanced(g, PlusAll(out, pages, DOMAIN pages)),
           NEW h, Destroys(h, pages, g)
    PROVE  /\ Balanced(h[DOMAIN pages], out)
           /\ refusing = {} => SameQueues(h[DOMAIN pages], g)
<1> DEFINE D == DOMAIN pages
           Good(s) == /\ Balanced(h[s], PlusAll(out, pages, D \ s))
                      /\ refusing = {} => SameQueues(h[s], g)
           P == {s \in SUBSET D : Good(s)}
<1>1. {} \in P
  <2>1. D \ {} = D
    OBVIOUS
  <2>2. QED
    BY <2>1 DEF SameQueues, Destroys
<1>2. ASSUME NEW s \in SUBSET D, s # {}
      PROVE  \E k \in s : s \ {k} \in P => s \in P
  <2>1. PICK k \in s : h[s] = DestroyPage(h[s \ {k}], pages[k])
    BY <1>2 DEF Destroys
  <2>2. ASSUME s \ {k} \in P PROVE Good(s)
    <3>1. /\ PlusAll(out, pages, D \ (s \ {k})) = Plus(PlusAll(out, pages, D \ s), pages[k])
          /\ PlusAll(out, pages, D \ s) \in Shares
      <4> HIDE DEF D
      <4>1. QED
        BY LeftOver DEF D
    <3>2. Balanced(h[s \ {k}], Plus(PlusAll(out, pages, D \ s), pages[k]))
      BY <2>2, <3>1
    <3>3. pages[k] \in PageSlots
      OBVIOUS
    <3>4. /\ Balanced(h[s], PlusAll(out, pages, D \ s))
          /\ refusing = {} => SameQueues(h[s], h[s \ {k}])
      BY <2>1, <3>1, <3>2, <3>3, DestroyPageBalanced
    <3>5. QED
      BY <2>2, <3>4 DEF SameQueues
  <2>3. QED
    BY <2>2
<1>3. IsFiniteSet(D)
  OBVIOUS
<1>4. D \in P
  <2> HIDE DEF P, D
  <2>1. QED
    BY <1>1, <1>2, <1>3, LoopInduction
<1>5. D \ D = {}
  OBVIOUS
<1>6. QED
  BY <1>4, <1>5, PlusAllNone

\* DestroySlot gives back what the pages of the slot hold.
LEMMA DestroySlotBalanced ==
    ASSUME NEW g, NEW out \in Shares, NEW slot, IsFiniteSet(DOMAIN slot.pages),
           \A k \in DOMAIN slot.pages : slot.pages[k] \in PageSlots,
           Balanced(g, PlusAll(out, slot.pages, DOMAIN slot.pages))
    PROVE  /\ Balanced(DestroySlot(g, slot), out)
           /\ refusing = {} => SameQueues(DestroySlot(g, slot), g)
<1>1. g \in GpuStates
  BY DEF Balanced, BalancedBut
<1>2. PICK h : Destroys(h, slot.pages, g) /\ h[DOMAIN slot.pages] = DestroySlot(g, slot)
  BY <1>1, DestroySlotLoop
<1>3. QED
  BY <1>2, DestroyedBalanced

\* The last place of a set of places of a sequence.
LEMMA LastPlace ==
    ASSUME NEW n \in Nat, NEW s \in SUBSET (1..n), s # {}
    PROVE  Max(s) \in s
<1> DEFINE Bounds == {m \in Nat : \A y \in s : y <= m}
<1>1. n \in Bounds
  OBVIOUS
<1>2. PICK m \in Bounds : \A b \in Bounds : m <= b
  BY <1>1, LeastNumber
<1>3. m \in s
  <2> SUFFICES ASSUME m \notin s PROVE FALSE
    OBVIOUS
  <2>1. PICK y \in s : TRUE
    OBVIOUS
  <2>2. m \in Nat /\ \A x \in s : x \in Nat /\ x <= m /\ x # m /\ x >= 1
    BY <1>2
  <2>3. m - 1 \in Nat /\ \A x \in s : x <= m - 1
    BY <2>1, <2>2
  <2>4. m - 1 \in Bounds /\ ~(m <= m - 1)
    BY <2>2, <2>3
  <2>5. QED
    BY <1>2, <2>4
<1>4. \A y \in s : m >= y
  BY <1>2, <1>3
<1>5. QED
  BY <1>3, <1>4 DEF Max

\* The loop of DrainDeferredPageReleases.
LEMMA DrainPagesLoop ==
    ASSUME NEW g \in GpuStates
    PROVE  \E h : /\ Destroys(h, g.latePages, [g EXCEPT !.latePages = <<>>])
                  /\ h[DOMAIN g.latePages] = DrainPages(g)
<1> DEFINE D == DOMAIN g.latePages
           base == [g EXCEPT !.latePages = <<>>]
           c == [s \in SUBSET D |-> Max(s)]
           F == [x \in D \X GpuStates |-> DestroyPage(x[2], g.latePages[x[1]])]
           Body(h) == [s \in SUBSET D |-> IF s = {} THEN base
                         ELSE DestroyPage(h[s \ {Max(s)}], g.latePages[Max(s)])]
           loop == CHOOSE h : h = Body(h)
<1>1. DrainPages(g) = loop[D]
  BY DEF DrainPages, FoldLeft, MapThenFoldSet
<1>2. g.latePages \in Seq(PageSlots) /\ \A k \in D : g.latePages[k] \in PageSlots
  BY DEF GpuStates
<1>3. IsFiniteSet(D) /\ D = 1..Len(g.latePages) /\ Len(g.latePages) \in Nat
  BY <1>2, SeqFinite
<1>4. F \in [D \X GpuStates -> GpuStates]
  BY <1>2, DestroyPageTypes
<1>5. base \in GpuStates
  <2>1. <<>> \in Seq(PageSlots)
    OBVIOUS
  <2>2. QED
    BY <2>1 DEF GpuStates
<1> HIDE DEF D, base, F
<1>6. \A s \in SUBSET D : s # {} => c[s] \in s /\ c[s] = Max(s)
  BY <1>3, LastPlace
<1> HIDE DEF c
<1>7. PICK h \in [SUBSET D -> GpuStates] : Loops(h, D, base, F, c)
  <2>1. Orders(c, D)
    BY <1>6 DEF Orders
  <2>2. QED
    BY <1>3, <1>4, <1>5, <2>1, LoopExists
<1>8. ASSUME NEW s \in SUBSET D, s # {}
      PROVE  h[s] = DestroyPage(h[s \ {Max(s)}], g.latePages[Max(s)])
  <2>1. h[s \ {c[s]}] \in GpuStates /\ c[s] \in D
    BY <1>6, <1>8
  <2>2. F[<<c[s], h[s \ {c[s]}]>>] = DestroyPage(h[s \ {c[s]}], g.latePages[c[s]])
    BY <2>1 DEF F
  <2>3. QED
    BY <1>6, <1>7, <1>8, <2>2 DEF Loops
<1>9. h = Body(h)
  BY <1>7, <1>8 DEF Loops
<1>10. loop = Body(loop)
  BY <1>9
<1> HIDE DEF loop
<1>11. /\ loop[{}] = base
       /\ \A s \in SUBSET D : s # {} =>
            loop[s] = DestroyPage(loop[s \ {Max(s)}], g.latePages[Max(s)])
  BY <1>10
<1>12. \A s \in SUBSET D : s # {} => Max(s) \in s
  BY <1>6
<1>13. \A s \in SUBSET D : s # {} =>
          \E k \in s : loop[s] = DestroyPage(loop[s \ {k}], g.latePages[k])
  BY <1>11, <1>12
<1>14. Destroys(loop, g.latePages, base) /\ loop[D] = DrainPages(g)
  BY <1>1, <1>11, <1>13 DEF Destroys, D
<1>15. QED
  BY <1>14 DEF D, base

\* DrainDeferredPageReleases keeps the balance: a page whose geometry still
\* cannot be destroyed goes back to the queue.
LEMMA DrainPagesBalanced ==
    ASSUME NEW g, NEW out, Balanced(g, out)
    PROVE  /\ Balanced(DrainPages(g), out)
           /\ refusing = {} => /\ DrainPages(g).latePages = <<>>
                               /\ DrainPages(g).lateMaterials = g.lateMaterials
<1> DEFINE pages == g.latePages
           base == [g EXCEPT !.latePages = <<>>]
<1>1. g \in GpuStates /\ pages \in Seq(PageSlots) /\ out \in Shares
  BY DEF Balanced, BalancedBut, GpuStates
<1>2. /\ base \in GpuStates /\ base.latePages = <<>> /\ base.lateMaterials = g.lateMaterials
      /\ base.refs = g.refs /\ base.loaded = g.loaded /\ base.late = g.late
  <2>1. <<>> \in Seq(PageSlots)
    OBVIOUS
  <2>2. QED
    BY <1>1, <2>1 DEF GpuStates
<1>3. IsFiniteSet(DOMAIN pages) /\ \A k \in DOMAIN pages : pages[k] \in PageSlots
  BY <1>1, SeqFinite
<1> HIDE DEF pages, base
<1>4. PlusAll(out, pages, DOMAIN pages) \in Shares
  BY <1>1, <1>3, PlusAllTypes
<1>5. ASSUME NEW r \in Resources
      PROVE  base.refs[r] = PlusAll(out, pages, DOMAIN pages)[r]
                               + HoldersAmong(base.latePages, r) + Unbound(base, r)
  <2>1. HoldersAmong(base.latePages, r) = 0
    <3>1. DOMAIN <<>> = {}
      OBVIOUS
    <3>2. QED
      BY <1>2, <3>1, AmongNone DEF HoldersAmong, Among
  <2>2. Unbound(base, r) = Unbound(g, r) /\ Unbound(g, r) \in Nat
    BY <1>1, <1>2, QueueTypes DEF Unbound
  <2>3. g.refs[r] = out[r] + Among(pages, DOMAIN pages, r) + Unbound(g, r)
    BY DEF Balanced, BalancedBut, HoldersAmong, Among, pages
  <2>4. Among(pages, DOMAIN pages, r) \in Nat /\ out[r] \in Nat
    BY <1>1, <1>3, AmongTypes DEF Shares
  <2>5. PlusAll(out, pages, DOMAIN pages)[r] = out[r] + Among(pages, DOMAIN pages, r)
    BY DEF PlusAll
  <2>6. QED
    BY <1>2, <2>1, <2>2, <2>3, <2>4, <2>5
<1>6. Balanced(base, PlusAll(out, pages, DOMAIN pages))
  <2>1. \A i \in DOMAIN base.latePages : ~base.latePages[i].shown
    BY <1>2
  <2>2. QED
    BY <1>2, <1>4, <1>5, <2>1 DEF Balanced, BalancedBut
<1>7. PICK h : Destroys(h, pages, base) /\ h[DOMAIN pages] = DrainPages(g)
  BY <1>1, DrainPagesLoop DEF pages, base
<1>8. /\ Balanced(h[DOMAIN pages], out)
      /\ refusing = {} => SameQueues(h[DOMAIN pages], base)
  BY <1>1, <1>3, <1>6, <1>7, DestroyedBalanced
<1>9. QED
  BY <1>2, <1>7, <1>8 DEF SameQueues

\* A loop that releases textures one by one.
Releases(h, queue, g) ==
    /\ h[{}] = g
    /\ \A s \in SUBSET DOMAIN queue : s # {} =>
          \E i \in s : h[s] = Release(h[s \ {i}], queue[i])

\* The loop of DrainDeferredTextureReleases.
LEMMA DrainMaterialsLoop ==
    ASSUME NEW g \in GpuStates, "unbind" \notin refusing
    PROVE  \E h : /\ Releases(h, g.lateMaterials, [g EXCEPT !.lateMaterials = <<>>])
                  /\ h[DOMAIN g.lateMaterials] = DrainMaterials(g)
<1> DEFINE D == DOMAIN g.lateMaterials
           base == [g EXCEPT !.lateMaterials = <<>>]
           c == [s \in SUBSET D |-> Max(s)]
           F == [x \in D \X GpuStates |-> Release(x[2], g.lateMaterials[x[1]])]
           Body(h) == [s \in SUBSET D |-> IF s = {} THEN base
                         ELSE Release(h[s \ {Max(s)}], g.lateMaterials[Max(s)])]
           loop == CHOOSE h : h = Body(h)
<1>1. DrainMaterials(g) = loop[D]
  BY DEF DrainMaterials, FoldLeft, MapThenFoldSet
<1>2. g.lateMaterials \in Seq(Textures) /\ \A i \in D : g.lateMaterials[i] \in Resources
  BY Names DEF GpuStates
<1>3. IsFiniteSet(D) /\ D = 1..Len(g.lateMaterials) /\ Len(g.lateMaterials) \in Nat
  BY <1>2, SeqFinite
<1>4. F \in [D \X GpuStates -> GpuStates]
  BY <1>2, ReleaseTypes
<1>5. base \in GpuStates
  <2>1. <<>> \in Seq(Textures)
    OBVIOUS
  <2>2. QED
    BY <2>1 DEF GpuStates
<1> HIDE DEF D, base, F
<1>6. \A s \in SUBSET D : s # {} => c[s] \in s /\ c[s] = Max(s)
  BY <1>3, LastPlace
<1> HIDE DEF c
<1>7. PICK h \in [SUBSET D -> GpuStates] : Loops(h, D, base, F, c)
  <2>1. Orders(c, D)
    BY <1>6 DEF Orders
  <2>2. QED
    BY <1>3, <1>4, <1>5, <2>1, LoopExists
<1>8. ASSUME NEW s \in SUBSET D, s # {}
      PROVE  h[s] = Release(h[s \ {Max(s)}], g.lateMaterials[Max(s)])
  <2>1. h[s \ {c[s]}] \in GpuStates /\ c[s] \in D
    BY <1>6, <1>8
  <2>2. F[<<c[s], h[s \ {c[s]}]>>] = Release(h[s \ {c[s]}], g.lateMaterials[c[s]])
    BY <2>1 DEF F
  <2>3. QED
    BY <1>6, <1>7, <1>8, <2>2 DEF Loops
<1>9. h = Body(h)
  BY <1>7, <1>8 DEF Loops
<1>10. loop = Body(loop)
  BY <1>9
<1> HIDE DEF loop
<1>11. /\ loop[{}] = base
       /\ \A s \in SUBSET D : s # {} =>
            loop[s] = Release(loop[s \ {Max(s)}], g.lateMaterials[Max(s)])
  BY <1>10
<1>12. \A s \in SUBSET D : s # {} => Max(s) \in s
  BY <1>6
<1>13. \A s \in SUBSET D : s # {} =>
          \E i \in s : loop[s] = Release(loop[s \ {i}], g.lateMaterials[i])
  BY <1>11, <1>12
<1>14. Releases(loop, g.lateMaterials, base) /\ loop[D] = DrainMaterials(g)
  BY <1>1, <1>11, <1>13 DEF Releases, D
<1>15. QED
  BY <1>14 DEF D, base

\* How often some materials of a queue hold a texture.
Bound(queue, S, r) == Cardinality({i \in S : queue[i] = r})
PlusBound(out, queue, S) == [r \in Resources |-> out[r] + Bound(queue, S, r)]

\* Shares with those of bound materials are shares, of none the same.
LEMMA PlusBoundTypes ==
    ASSUME NEW out \in Shares, NEW queue, NEW S, IsFiniteSet(S)
    PROVE  PlusBound(out, queue, S) \in Shares /\ PlusBound(out, queue, {}) = out
<1>1. \A r \in Resources : Bound(queue, S, r) \in Nat
  <2> TAKE r \in Resources
  <2>1. IsFiniteSet({i \in S : queue[i] = r})
    BY FS_Subset
  <2>2. QED
    BY <2>1, FS_CardinalityType DEF Bound
<1>2. \A r \in Resources : Bound(queue, {}, r) = 0
  <2> TAKE r \in Resources
  <2>1. {i \in {} : queue[i] = r} = {}
    OBVIOUS
  <2>2. QED
    BY <2>1, FS_EmptySet DEF Bound
<1>3. \A r \in Resources : out[r] + Bound(queue, {}, r) = out[r]
  BY <1>2 DEF Shares
<1>4. QED
  BY <1>1, <1>3 DEF PlusBound, Shares

\* One material more.
LEMMA PlusBoundSplit ==
    ASSUME NEW out \in Shares, NEW queue, NEW S, IsFiniteSet(S), NEW i \in S,
           queue[i] \in Resources
    PROVE  PlusBound(out, queue, S) = Give(PlusBound(out, queue, S \ {i}), queue[i])
<1>1. \A r \in Resources :
         /\ Bound(queue, S \ {i}, r) \in Nat
         /\ Bound(queue, S, r) = Bound(queue, S \ {i}, r) + IF queue[i] = r THEN 1 ELSE 0
  <2> TAKE r \in Resources
  <2> DEFINE H == {j \in S : queue[j] = r}
  <2>1. IsFiniteSet(H) /\ H \ {i} = {j \in S \ {i} : queue[j] = r} /\ (i \in H <=> queue[i] = r)
    BY FS_Subset
  <2>2. Bound(queue, S, r) = Cardinality(H) /\ Bound(queue, S \ {i}, r) = Cardinality(H \ {i})
    BY <2>1 DEF Bound
  <2> HIDE DEF H
  <2>3. QED
    BY <2>1, <2>2, CountSplit
<1>2. PlusBound(out, queue, S \ {i}) \in Shares /\ PlusBound(out, queue, S) \in Shares
  BY FS_Subset, PlusBoundTypes
<1>3. \A r \in Resources : PlusBound(out, queue, S)[r] = PlusBound(out, queue, S \ {i})[r]
                             + IF queue[i] = r THEN 1 ELSE 0
  BY <1>1 DEF PlusBound, Shares
<1>4. QED
  BY <1>2, <1>3 DEF Give, Shares

\* DrainDeferredTextureReleases keeps the balance.
LEMMA DrainMaterialsBalanced ==
    ASSUME NEW g, NEW out, Balanced(g, out)
    PROVE  /\ Balanced(DrainMaterials(g), out)
           /\ DrainMaterials(g).latePages = g.latePages
           /\ "unbind" \notin refusing => DrainMaterials(g).lateMaterials = <<>>
<1>1. CASE "unbind" \in refusing
  BY <1>1 DEF DrainMaterials
<1>2. CASE "unbind" \notin refusing
  <2> DEFINE queue == g.lateMaterials
             base == [g EXCEPT !.lateMaterials = <<>>]
             D == DOMAIN queue
             Good(h, s) == /\ Balanced(h[s], PlusBound(out, queue, D \ s))
                           /\ SameQueues(h[s], base)
  <2>1. g \in GpuStates /\ queue \in Seq(Textures) /\ out \in Shares
    BY DEF Balanced, BalancedBut, GpuStates
  <2>2. /\ base \in GpuStates /\ base.lateMaterials = <<>> /\ base.latePages = g.latePages
        /\ base.refs = g.refs /\ base.loaded = g.loaded /\ base.late = g.late
    <3>1. <<>> \in Seq(Textures)
      OBVIOUS
    <3>2. QED
      BY <2>1, <3>1 DEF GpuStates
  <2>3. IsFiniteSet(D) /\ \A i \in D : queue[i] \in Resources
    BY <2>1, SeqFinite, Names
  <2>4. \E h : Releases(h, queue, base) /\ h[D] = DrainMaterials(g)
    BY <1>2, <2>1, DrainMaterialsLoop
  <2> HIDE DEF queue, base, D
  <2>5. PICK h : Releases(h, queue, base) /\ h[D] = DrainMaterials(g)
    BY <2>4
  <2>6. ASSUME NEW r \in Resources
        PROVE  base.refs[r] = PlusBound(out, queue, D)[r]
                                 + HoldersAmong(base.latePages, r) + Unbound(base, r)
    <3>1. Unbound(base, r) = 0
      <4>1. {i \in DOMAIN <<>> : <<>>[i] = r} = {}
        OBVIOUS
      <4>2. QED
        BY <2>2, <4>1, FS_EmptySet DEF Unbound
    <3>2. Unbound(g, r) = Bound(queue, D, r) /\ Unbound(g, r) \in Nat
      BY <2>1, QueueTypes DEF Unbound, Bound, queue, D
    <3>3. g.refs[r] = out[r] + HoldersAmong(g.latePages, r) + Unbound(g, r)
      BY DEF Balanced, BalancedBut
    <3>4. HoldersAmong(g.latePages, r) \in Nat /\ out[r] \in Nat
      BY <2>1, QueueTypes DEF Shares
    <3>5. PlusBound(out, queue, D)[r] = out[r] + Bound(queue, D, r)
      BY DEF PlusBound
    <3>6. QED
      BY <2>2, <3>1, <3>2, <3>3, <3>4, <3>5
  <2>7. Balanced(base, PlusBound(out, queue, D))
    <3>1. PlusBound(out, queue, D) \in Shares
      BY <2>1, <2>3, PlusBoundTypes
    <3>2. QED
      BY <2>2, <2>6, <3>1 DEF Balanced, BalancedBut
  <2> DEFINE P == {s \in SUBSET D : Good(h, s)}
  <2>8. {} \in P
    <3>1. D \ {} = D
      OBVIOUS
    <3>2. QED
      BY <2>5, <2>7, <3>1 DEF SameQueues, Releases
  <2>9. ASSUME NEW s \in SUBSET D, s # {}
        PROVE  \E i \in s : s \ {i} \in P => s \in P
    <3>1. PICK i \in s : h[s] = Release(h[s \ {i}], queue[i])
      BY <2>5, <2>9 DEF Releases, D
    <3>2. ASSUME s \ {i} \in P PROVE Good(h, s)
      <4>1. IsFiniteSet(D \ (s \ {i})) /\ IsFiniteSet(D \ s)
        BY <2>3, FS_Subset
      <4>2. i \in D \ (s \ {i}) /\ (D \ (s \ {i})) \ {i} = D \ s
        OBVIOUS
      <4>3. PlusBound(out, queue, D \ (s \ {i})) =
              Give(PlusBound(out, queue, (D \ (s \ {i})) \ {i}), queue[i])
        <5> DEFINE S == D \ (s \ {i})
        <5>1. IsFiniteSet(S) /\ i \in S /\ queue[i] \in Resources /\ out \in Shares
          BY <2>1, <2>3, <4>1, <4>2
        <5> HIDE DEF S
        <5>2. PlusBound(out, queue, S) = Give(PlusBound(out, queue, S \ {i}), queue[i])
          BY <5>1, PlusBoundSplit
        <5>3. QED
          BY <5>2 DEF S
      <4>4. Balanced(h[s \ {i}], Give(PlusBound(out, queue, D \ s), queue[i]))
        BY <3>2, <4>2, <4>3
      <4>5. PlusBound(out, queue, D \ s) \in Shares /\ queue[i] \in Resources
        BY <2>1, <2>3, <4>1, PlusBoundTypes
      <4> DEFINE before == h[s \ {i}]
                 share == PlusBound(out, queue, D \ s)
                 texture == queue[i]
      <4> HIDE DEF before, share, texture
      <4>6. Balanced(Release(before, texture), share)
            /\ SameQueues(Release(before, texture), before)
        BY <4>4, <4>5, ReleaseBalanced DEF before, share, texture
      <4>7. QED
        BY <3>1, <3>2, <4>6 DEF SameQueues, before, share, texture
    <3>3. QED
      BY <3>2
  <2>10. D \in P
    <3> HIDE DEF P
    <3>1. QED
      BY <2>3, <2>8, <2>9, LoopInduction
  <2>11. PlusBound(out, queue, D \ D) = out
    <3>1. D \ D = {}
      OBVIOUS
    <3>2. QED
      BY <2>1, <2>3, <3>1, PlusBoundTypes
  <2>12. QED
    BY <2>2, <2>5, <2>10, <2>11 DEF SameQueues
<1>3. QED
  BY <1>1, <1>2

\* The deletions deferred, when they are allowed.
LEMMA DrainDeletesBalanced ==
    ASSUME NEW g, NEW out, Balanced(g, out)
    PROVE  Balanced(DrainDeletes(g), out) /\ SameQueues(DrainDeletes(g), g)
           /\ DrainDeletes(g).refs = g.refs
<1> DEFINE h == DrainDeletes(g)
           gone == {r \in g.late : g.refs[r] = 0 /\ r[1] \notin refusing}
<1>1. g \in GpuStates /\ gone \subseteq g.late
  BY DEF Balanced, BalancedBut
<1>2. /\ h \in GpuStates /\ h.refs = g.refs /\ h.loaded = g.loaded \ gone
      /\ h.late = g.late \ gone /\ SameQueues(h, g)
  BY <1>1 DEF DrainDeletes, GpuStates, SameQueues
<1> HIDE DEF h
<1>3. \A r \in Resources : h.refs[r] = out[r] + HoldersAmong(h.latePages, r) + Unbound(h, r)
  BY <1>1, <1>2, QueueTypes DEF Balanced, BalancedBut, SameQueues
<1>4. \A r \in Resources : h.refs[r] > 0 => r \in h.loaded
  BY <1>1, <1>2 DEF Balanced, BalancedBut, GpuStates
<1>5. \A r \in h.loaded : h.refs[r] = 0 => r \in h.late
  BY <1>2 DEF Balanced, BalancedBut
<1>6. h.late \subseteq h.loaded /\ \A i \in DOMAIN h.latePages : ~h.latePages[i].shown
  BY <1>2 DEF Balanced, BalancedBut, SameQueues
<1>7. QED
  BY <1>2, <1>3, <1>4, <1>5, <1>6 DEF Balanced, BalancedBut, h

\* The deferred queues, one after the other.
LEMMA DrainAllBalanced ==
    ASSUME NEW g, NEW out, Balanced(g, out)
    PROVE  /\ Balanced(DrainAll(g), out)
           /\ refusing = {} => /\ DrainAll(g).latePages = <<>>
                               /\ DrainAll(g).lateMaterials = <<>>
<1> DEFINE h == DrainPages(g)
           k == DrainMaterials(h)
<1>1. Balanced(h, out) /\ (refusing = {} => h.latePages = <<>>)
  BY DrainPagesBalanced
<1> HIDE DEF h
<1>2. /\ Balanced(k, out) /\ k.latePages = h.latePages
      /\ refusing = {} => k.lateMaterials = <<>>
  BY <1>1, DrainMaterialsBalanced
<1> HIDE DEF k
<1>3. Balanced(DrainDeletes(k), out) /\ SameQueues(DrainDeletes(k), k)
  BY <1>2, DrainDeletesBalanced
<1>4. QED
  BY <1>1, <1>2, <1>3 DEF DrainAll, SameQueues, h, k

-----------------------------------------------------------------------------
(***************************************************************************)
(* Pages made resident, retextured and observed.                           *)
(***************************************************************************)
\* A page with its share in the balance.
HasShare(g, out, p) == p \in PageSlots /\ out \in Shares /\ Balanced(g, Plus(out, p))

\* Whatever step of MakePageResident fails, nothing is lost.
LEMMA LoadBalanced ==
    ASSUME NEW g, NEW out, NEW p, NEW visible \in BOOLEAN,
           HasShare(g, out, p), ~p.geometry, p.tex = None, p.mesh = None, ~p.shown
    PROVE  Fine(Load(g, p, visible), out, visible)
<1>1. p \in PageSlots /\ out \in Shares /\ Balanced(g, out)
  BY BareHoldsNothing DEF HasShare
<1>2. p.srcMesh \in Meshes /\ p.srcTex \in Textures
      /\ p.srcMesh \in Resources /\ p.srcTex \in Resources
  BY <1>1, PageTypes, Names
<1>3. CASE "import" \in refusing
  <2> DEFINE w == Imported(g, p)
  <2>1. g \in GpuStates
    BY <1>1 DEF Balanced, BalancedBut
  <2>2. /\ w.page \in PageSlots /\ w.page.mesh = p.srcMesh /\ w.page.geometry = FALSE
        /\ w.page.tex = None
    BY <1>1, <1>2 DEF Imported, PageSlots
  <2>3. /\ w.gpu \in GpuStates /\ w.gpu.loaded = g.loaded \cup {p.srcMesh}
        /\ w.gpu.refs = g.refs /\ w.gpu.late = g.late /\ SameQueues(w.gpu, g)
    BY <1>2, <2>1 DEF Imported, GpuStates, SameQueues
  <2> HIDE DEF w
  <2>4. \A r \in Resources :
           w.gpu.refs[r] = out[r] + HoldersAmong(w.gpu.latePages, r) + Unbound(w.gpu, r)
    BY <1>1, <2>1, <2>3, QueueTypes DEF Balanced, BalancedBut, SameQueues
  <2>5. BalancedBut(w.gpu, out, {p.srcMesh})
    BY <1>1, <2>3, <2>4 DEF Balanced, BalancedBut, SameQueues
  <2>6. Plus(out, w.page) = out /\ Loose(w.page) = {p.srcMesh}
    BY <1>1, <2>2, BareHoldsNothing DEF Loose
  <2>7. Fine(Unload(w.gpu, w.page), out, FALSE)
    BY <1>1, <2>2, <2>5, <2>6, UnloadBalanced
  <2>8. Load(g, p, visible) = Unload(w.gpu, w.page)
    BY <1>3 DEF Load, w
  <2>9. QED
    BY <2>7, <2>8 DEF Fine
<1>4. CASE "import" \notin refusing
  <2> DEFINE w == Placed(g, p)
             v == Textured(g, p)
  <2>1. /\ w.page \in PageSlots /\ w.page.mesh = p.srcMesh /\ w.page.geometry = TRUE
        /\ w.page.tex = None /\ w.gpu = Acquire(g, p.srcMesh)
        /\ w.page.shown = p.shown /\ w.page.srcTex = p.srcTex
    BY <1>1, <1>2 DEF Placed, PageSlots
  <2>2. v.page = [w.page EXCEPT !.tex = p.srcTex] /\ v.gpu = Acquire(w.gpu, p.srcTex)
    BY DEF Textured
  <2> HIDE DEF w
  <2>3. v.page \in PageSlots /\ v.page.mesh = p.srcMesh /\ v.page.geometry = TRUE
        /\ v.page.tex = p.srcTex /\ v.page.shown = p.shown
    BY <1>2, <2>1, <2>2 DEF PageSlots
  <2> HIDE DEF v
  <2>4. Balanced(w.gpu, Plus(out, w.page))
    <3>1. Plus(out, w.page) = Give(Plus(out, p), p.srcMesh)
      BY <1>1, <1>2, <2>1, PlusMesh
    <3>2. Plus(out, p) = out
      BY <1>1, BareHoldsNothing
    <3>3. QED
      BY <1>1, <1>2, <2>1, <3>1, <3>2, AcquireBalanced
  <2>5. Balanced(v.gpu, Plus(out, v.page))
    <3>1. Plus(out, v.page) = Give(Plus(out, w.page), p.srcTex)
      BY <1>1, <1>2, <2>1, <2>3, PlusTexture
    <3>2. QED
      BY <1>2, <2>2, <2>4, <3>1, AcquireBalanced
  <2>6. Loose(w.page) = {} /\ Loose(v.page) = {}
    BY <2>1, <2>3 DEF Loose
  <2>7. CASE "create" \in refusing
    <3>1. Load(g, p, visible) = Unload(w.gpu, w.page)
      BY <1>4, <2>7 DEF Load, w
    <3>2. BalancedBut(w.gpu, Plus(out, w.page), Loose(w.page))
      BY <2>4, <2>6 DEF Balanced
    <3>3. Fine(Unload(w.gpu, w.page), out, FALSE)
      BY <1>1, <2>1, <3>2, UnloadBalanced
    <3>4. QED
      BY <3>1, <3>3 DEF Fine
  <2>8. CASE "create" \notin refusing /\ "upload" \in refusing
    <3>1. refusing \cap {"import", "create"} = {}
      BY <1>4, <2>8
    <3>2. Load(g, p, visible) = Unload(v.gpu, v.page)
      BY <1>4, <2>8, <3>1 DEF Load, v
    <3>3. BalancedBut(v.gpu, Plus(out, v.page), Loose(v.page))
      BY <2>5, <2>6 DEF Balanced
    <3>4. Fine(Unload(v.gpu, v.page), out, FALSE)
      BY <1>1, <2>3, <3>3, UnloadBalanced
    <3>5. QED
      BY <3>2, <3>4 DEF Fine
  <2>9. CASE "create" \notin refusing /\ "upload" \notin refusing
    <3> DEFINE u == Load(g, p, visible)
    <3>1. u = [v EXCEPT !.page.resident = TRUE, !.page.shown = visible, !.page.offscreen = 0]
      BY <1>4, <2>9 DEF Load, v
    <3>2. v = [gpu |-> v.gpu, page |-> v.page]
      BY DEF v, Textured
    <3>3. /\ u.gpu = v.gpu
          /\ u.page = [v.page EXCEPT !.resident = TRUE, !.shown = visible, !.offscreen = 0]
      BY <3>1, <3>2
    <3> HIDE DEF u
    <3>4. 0 \in 0..OffscreenFrames
      BY ConstantsAssumption
    <3>5. /\ u.page \in PageSlots /\ u.page.shown = visible
          /\ u.page.mesh = v.page.mesh /\ u.page.tex = v.page.tex
          /\ u.page.geometry = v.page.geometry
      BY <2>3, <3>3, <3>4 DEF PageSlots
    <3>6. Plus(out, u.page) = Plus(out, v.page)
      BY <3>5, SamePlus DEF HoldsIt
    <3>7. QED
      BY <2>5, <3>3, <3>5, <3>6 DEF Fine, u
  <2>10. QED
    BY <2>7, <2>8, <2>9
<1>5. QED
  BY <1>3, <1>4

\* MakePageResident keeps the balance, whether or not the page becomes resident.
LEMMA MakeResidentBalanced ==
    ASSUME NEW g, NEW out, NEW p, NEW visible \in BOOLEAN, HasShare(g, out, p)
    PROVE  Fine(MakeResident(g, p, visible), out, visible)
<1>1. p \in PageSlots /\ out \in Shares
      /\ BalancedBut(g, Plus(out, p), Loose(p))
  BY DEF HasShare, Balanced, BalancedBut
<1>2. CASE p.resident
  <2> DEFINE q == [p EXCEPT !.shown = visible]
  <2>1. MakeResident(g, p, visible) = [gpu |-> g, page |-> q]
    BY <1>2 DEF MakeResident
  <2>2. q \in PageSlots /\ q.shown = visible /\ \A r : HoldsIt(q, r) <=> HoldsIt(p, r)
    BY <1>1 DEF PageSlots, HoldsIt
  <2> HIDE DEF q
  <2>3. Plus(out, q) = Plus(out, p)
    BY <2>2, SamePlus
  <2>4. QED
    BY <2>1, <2>2, <2>3 DEF Fine, HasShare
<1>3. CASE ~p.resident /\ Stuck(p)
  <2>1. MakeResident(g, p, visible) = Unload(g, p)
    BY <1>3 DEF MakeResident
  <2>2. Fine(Unload(g, p), out, FALSE)
    BY <1>1, UnloadBalanced
  <2>3. QED
    BY <2>1, <2>2 DEF Fine
<1>4. CASE ~p.resident /\ ~Stuck(p)
  <2> DEFINE w == Unload(g, p)
  <2>1. MakeResident(g, p, visible) = Load(w.gpu, w.page, visible)
    BY <1>4 DEF MakeResident
  <2>2. /\ Fine(w, out, FALSE)
        /\ ~w.page.geometry /\ w.page.tex = None /\ w.page.mesh = None
    BY <1>1, <1>4, UnloadBalanced
  <2> HIDE DEF w
  <2>3. HasShare(w.gpu, out, w.page) /\ ~w.page.shown
    BY <1>1, <2>2 DEF Fine, HasShare
  <2>4. QED
    BY <2>1, <2>2, <2>3, LoadBalanced
<1>5. QED
  BY <1>2, <1>3, <1>4

\* Gifts come in any order.
LEMMA GiveGive ==
    ASSUME NEW out \in Shares, NEW a \in Resources, NEW b \in Resources
    PROVE  /\ Give(Give(out, a), b) = Give(Give(out, b), a)
           /\ Give(out, a) \in Shares
<1>1. \A x \in Resources : Give(out, x) \in Shares
  BY DEF Give, Shares
<1>2. \A x, y \in Resources : Give(Give(out, x), y) \in Shares
  BY <1>1 DEF Give, Shares
<1>3. ASSUME NEW r \in Resources
      PROVE  Give(Give(out, a), b)[r] = Give(Give(out, b), a)[r]
  <2>1. out[r] \in Nat
    BY DEF Shares
  <2>2. \A s \in Shares, x \in Resources :
           Give(s, x)[r] = s[r] + IF x = r THEN 1 ELSE 0
    BY DEF Give, Shares
  <2>3. Give(Give(out, a), b)[r] = (out[r] + IF a = r THEN 1 ELSE 0) + IF b = r THEN 1 ELSE 0
    BY <1>1, <2>2
  <2>4. Give(Give(out, b), a)[r] = (out[r] + IF b = r THEN 1 ELSE 0) + IF a = r THEN 1 ELSE 0
    BY <1>1, <2>2
  <2>5. QED
    BY <2>1, <2>3, <2>4
<1>4. QED
  BY <1>1, <1>2, <1>3 DEF Shares

\* A new material in place of the old one keeps the balance, and so does one
\* that fails half-way.
LEMMA RetexturedBalanced ==
    ASSUME NEW g, NEW out, NEW p, NEW tex \in Textures, HasShare(g, out, p)
    PROVE  /\ Fine(Retextured(g, p, tex), out, p.shown)
           /\ Retextured(g, p, tex).page.shown = p.shown
<1> DEFINE w == Retextured(g, p, tex)
<1>1. p \in PageSlots /\ out \in Shares /\ Balanced(g, Plus(out, p))
      /\ Plus(out, p) \in Shares
  BY PlusTypes DEF HasShare
<1>2. tex \in Resources
  BY Names
<1>3. CASE ~p.resident
  <2> DEFINE q == [p EXCEPT !.srcTex = tex]
  <2>1. w = [gpu |-> g, page |-> q]
    BY <1>3 DEF Retextured
  <2>2. q \in PageSlots /\ q.shown = p.shown /\ \A r : HoldsIt(q, r) <=> HoldsIt(p, r)
    BY <1>1 DEF PageSlots, HoldsIt
  <2> HIDE DEF q
  <2>3. Plus(out, q) = Plus(out, p)
    BY <2>2, SamePlus
  <2>4. QED
    BY <1>1, <2>1, <2>2, <2>3 DEF Fine
<1>4. CASE p.resident /\ "create" \in refusing
  <2>1. w = [gpu |-> g, page |-> p]
    BY <1>4 DEF Retextured
  <2>2. QED
    BY <1>1, <2>1 DEF Fine
<1> DEFINE h == Acquire(g, tex)
<1>5. Balanced(h, Give(Plus(out, p), tex))
  BY <1>1, <1>2, AcquireBalanced
<1> HIDE DEF h
<1>6. CASE p.resident /\ "create" \notin refusing /\ "upload" \in refusing
  <2>1. w = [gpu |-> DropMaterial(h, tex), page |-> p]
    BY <1>6 DEF Retextured, h
  <2>2. Balanced(DropMaterial(h, tex), Plus(out, p))
    BY <1>1, <1>5, DropMaterialBalanced
  <2>3. QED
    BY <1>1, <2>1, <2>2 DEF Fine
<1>7. CASE p.resident /\ "create" \notin refusing /\ "upload" \notin refusing
  <2> DEFINE q == [p EXCEPT !.srcTex = tex, !.tex = tex]
             n == [p EXCEPT !.tex = None]
  <2>1. w = [gpu |-> DropMaterial(h, p.tex), page |-> q]
    BY <1>7 DEF Retextured, h
  <2>2. /\ q \in PageSlots /\ q.shown = p.shown /\ q.tex = tex
        /\ q.geometry = p.geometry /\ q.mesh = p.mesh
    BY <1>1 DEF PageSlots
  <2>3. n.tex = None /\ n.geometry = p.geometry /\ n.mesh = p.mesh
    BY <1>1 DEF PageSlots
  <2>4. p.mesh \in Meshes \cup {None} /\ p.tex \in Textures \cup {None}
    BY <1>1, PageTypes
  <2> HIDE DEF q, n
  <2>5. Plus(out, q) = Give(Plus(out, n), tex)
    BY <1>1, <2>2, <2>3, <2>4, PlusTexture
  <2>6. CASE p.tex = None
    <3>1. Plus(out, p) = Plus(out, n)
      BY <2>3, <2>6, SamePlus DEF HoldsIt
    <3>2. DropMaterial(h, p.tex) = h
      BY <2>6 DEF DropMaterial
    <3>3. QED
      BY <1>5, <2>1, <2>2, <2>5, <3>1, <3>2 DEF Fine
  <2>7. CASE p.tex \in Textures
    <3>1. Plus(out, p) = Give(Plus(out, n), p.tex)
      BY <1>1, <2>3, <2>4, <2>7, PlusTexture
    <3>2. Plus(out, n) \in Shares /\ p.tex \in Resources
      BY <1>1, <2>7, PlusTypes, Names
    <3>3. Give(Plus(out, p), tex) = Give(Plus(out, q), p.tex)
      BY <1>2, <2>5, <3>1, <3>2, GiveGive
    <3>4. Plus(out, q) \in Shares
      BY <1>1, PlusTypes
    <3>5. Balanced(h, Give(Plus(out, q), p.tex))
      BY <1>5, <3>3
    <3>6. Balanced(DropMaterial(h, p.tex), Plus(out, q))
      BY <2>7, <3>4, <3>5, DropMaterialBalanced
    <3>7. QED
      BY <2>1, <2>2, <3>6 DEF Fine
  <2>8. QED
    BY <2>4, <2>6, <2>7
<1>8. QED
  BY <1>3, <1>4, <1>6, <1>7

\* A page that is observed, whatever the cameras see of it, keeps the balance.
LEMMA ObservedBalanced ==
    ASSUME NEW g, NEW out, NEW p, NEW observation, HasShare(g, out, p)
    PROVE  Fine(Observed(g, p, observation), out, TRUE)
<1> DEFINE w == Observed(g, p, observation)
<1>1. p \in PageSlots /\ out \in Shares /\ Balanced(g, Plus(out, p)) /\ OffscreenFrames \in Nat
  BY ConstantsAssumption DEF HasShare
<1>2. ASSUME NEW n \in 0..OffscreenFrames
      PROVE  LET q == [p EXCEPT !.offscreen = n] IN
             HasShare(g, out, q) /\ Fine([gpu |-> g, page |-> q], out, TRUE)
  <2> DEFINE q == [p EXCEPT !.offscreen = n]
  <2>1. q \in PageSlots /\ \A r : HoldsIt(q, r) <=> HoldsIt(p, r)
    BY <1>1 DEF PageSlots, HoldsIt
  <2> HIDE DEF q
  <2>2. Plus(out, q) = Plus(out, p)
    BY <2>1, SamePlus
  <2>3. HasShare(g, out, q) /\ Fine([gpu |-> g, page |-> q], out, TRUE)
    BY <1>1, <2>1, <2>2 DEF Fine, HasShare
  <2>4. QED
    BY <2>3 DEF q
<1>3. CASE p.warming
  <2>1. w = [gpu |-> g, page |-> p]
    BY <1>3 DEF Observed
  <2>2. QED
    BY <1>1, <2>1 DEF Fine
<1>4. CASE ~p.warming /\ (observation = "visible" \/ (observation = "unknown" /\ ~p.resident))
  <2> DEFINE q == [p EXCEPT !.offscreen = 0]
  <2>1. w = MakeResident(g, q, TRUE)
    BY <1>4 DEF Observed
  <2>0. 0 \in 0..OffscreenFrames
    BY <1>1
  <2>2. HasShare(g, out, q)
    BY <1>2, <2>0
  <2> HIDE DEF q
  <2>3. QED
    BY <2>1, <2>2, MakeResidentBalanced
<1>5. CASE ~p.warming /\ observation = "unknown" /\ p.resident
  <2>1. w = [gpu |-> g, page |-> [p EXCEPT !.offscreen = 0]]
    BY <1>5 DEF Observed
  <2>2. 0 \in 0..OffscreenFrames
    BY <1>1
  <2>3. QED
    BY <1>2, <2>1, <2>2
<1>6. CASE ~p.warming /\ observation # "visible" /\ observation # "unknown"
  <2> DEFINE frames == Min({OffscreenFrames, p.offscreen + 1})
             q == [p EXCEPT !.offscreen = frames]
  <2>1. w = IF frames = OffscreenFrames THEN Unload(g, q) ELSE [gpu |-> g, page |-> q]
    BY <1>6 DEF Observed
  <2>2. frames \in 0..OffscreenFrames
    <3>1. p.offscreen \in 0..OffscreenFrames
      BY <1>1, PageTypes
    <3>2. frames \in {OffscreenFrames, p.offscreen + 1} /\ frames <= OffscreenFrames
      <4> DEFINE m == IF p.offscreen + 1 <= OffscreenFrames THEN p.offscreen + 1
                      ELSE OffscreenFrames
      <4>1. m \in {OffscreenFrames, p.offscreen + 1}
            /\ \A y \in {OffscreenFrames, p.offscreen + 1} : m <= y
        BY <1>1, <3>1
      <4>2. QED
        BY <4>1 DEF Min
    <3>3. QED
      BY <1>1, <3>1, <3>2
  <2>3. HasShare(g, out, q) /\ Fine([gpu |-> g, page |-> q], out, TRUE)
    BY <1>2, <2>2
  <2> HIDE DEF frames, q
  <2>4. BalancedBut(g, Plus(out, q), Loose(q)) /\ q \in PageSlots
    BY <2>3 DEF HasShare, Balanced, BalancedBut
  <2>5. Fine(Unload(g, q), out, FALSE)
    BY <1>1, <2>4, UnloadBalanced
  <2>6. QED
    BY <2>1, <2>3, <2>5 DEF Fine
<1>7. QED
  BY <1>3, <1>4, <1>5, <1>6

-----------------------------------------------------------------------------
(***************************************************************************)
(* Slots.                                                                  *)
(***************************************************************************)
\* A slot's pages when one of them changes.
LEMMA OneChanged ==
    ASSUME NEW out \in Shares, NEW D, IsFiniteSet(D), NEW pages \in [D -> PageSlots],
           NEW k \in D, NEW new \in [D -> PageSlots],
           \A j \in D \ {k} : new[j] = pages[j]
    PROVE  /\ PlusAll(out, pages, D \ {k}) \in Shares
           /\ PlusAll(out, pages, D) = Plus(PlusAll(out, pages, D \ {k}), pages[k])
           /\ PlusAll(out, new, D) = Plus(PlusAll(out, pages, D \ {k}), new[k])
<1>1. IsFiniteSet(D \ {k})
  BY FS_Subset
<1>3. \A r \in Resources : Among(new, D \ {k}, r) = Among(pages, D \ {k}, r)
  BY AmongSame
<1>4. PlusAll(out, new, D \ {k}) = PlusAll(out, pages, D \ {k})
  BY <1>3 DEF PlusAll
<1>5. PlusAll(out, new, D) = Plus(PlusAll(out, new, D \ {k}), new[k])
  BY PlusAllSplit
<1>6. QED
  BY <1>1, <1>4, <1>5, PlusAllSplit, PlusAllTypes

\* A slot's pages when there is one more.
LEMMA OneMore ==
    ASSUME NEW out \in Shares, NEW D, IsFiniteSet(D), NEW pages \in [D -> PageSlots],
           NEW k, k \notin D, NEW p \in PageSlots
    PROVE  LET new == [j \in D \cup {k} |-> IF j = k THEN p ELSE pages[j]] IN
           /\ new \in [D \cup {k} -> PageSlots]
           /\ IsFiniteSet(D \cup {k})
           /\ PlusAll(out, new, D \cup {k}) = Plus(PlusAll(out, pages, D), p)
           /\ new[k] = p /\ \A j \in D : new[j] = pages[j]
<1> DEFINE new == [j \in D \cup {k} |-> IF j = k THEN p ELSE pages[j]]
           E == D \cup {k}
<1>1. new \in [E -> PageSlots] /\ new[k] = p /\ \A j \in D : new[j] = pages[j]
  OBVIOUS
<1>2. IsFiniteSet(E) /\ k \in E /\ E \ {k} = D
  BY FS_AddElement
<1> HIDE DEF new, E
<1>3. \A r \in Resources : Among(new, D, r) = Among(pages, D, r)
  BY <1>1, AmongSame
<1>4. PlusAll(out, new, D) = PlusAll(out, pages, D)
  BY <1>3 DEF PlusAll
<1>5. PlusAll(out, new, E) = Plus(PlusAll(out, new, E \ {k}), new[k])
  BY <1>2, PlusAllSplit
<1>6. QED
  BY <1>1, <1>2, <1>4, <1>5 DEF new, E

\* UpdateActivePageResidency keeps the balance over all pages.
LEMMA ObserveAllBalanced ==
    ASSUME NEW out \in Shares, IsFiniteSet(DOMAIN active.pages), NEW seen,
           active.pages \in [DOMAIN active.pages -> PageSlots],
           Balanced(gpu, PlusAll(out, active.pages, DOMAIN active.pages))
    PROVE  LET w == ObserveAll(seen) IN
           /\ w.pages \in [DOMAIN active.pages -> PageSlots]
           /\ Balanced(w.gpu, PlusAll(out, w.pages, DOMAIN active.pages))
<1> DEFINE D == DOMAIN active.pages
           All == [gpu : GpuStates, pages : [D -> PageSlots]]
           G == {w \in All : Balanced(w.gpu, PlusAll(out, w.pages, D))}
           Step(k, w) ==
              [gpu |-> Observed(w.gpu, w.pages[k], seen[k]).gpu,
               pages |-> [w.pages EXCEPT ![k] = Observed(w.gpu, w.pages[k], seen[k]).page]]
           base == [gpu |-> gpu, pages |-> active.pages]
           c == [s \in SUBSET D |-> CHOOSE k \in s : TRUE]
           F == [x \in D \X G |-> Step(x[1], x[2])]
           Body(h) == [s \in SUBSET D |-> IF s = {} THEN base
                         ELSE Step(CHOOSE k \in s : TRUE, h[s \ {CHOOSE k \in s : TRUE}])]
           loop == CHOOSE h : h = Body(h)
<1>1. ObserveAll(seen) = loop[D]
  BY DEF ObserveAll, FoldSet, MapThenFoldSet
<1>2. base \in G
  BY DEF Balanced, BalancedBut
<1>3. ASSUME NEW k \in D, NEW w \in G PROVE Step(k, w) \in G
  <2> DEFINE v == Observed(w.gpu, w.pages[k], seen[k])
             rest == PlusAll(out, w.pages, D \ {k})
             new == [w.pages EXCEPT ![k] = v.page]
  <2>0. IsFiniteSet(D) /\ w.pages \in [D -> PageSlots] /\ w.pages[k] \in PageSlots
        /\ Balanced(w.gpu, PlusAll(out, w.pages, D))
    OBVIOUS
  <2> HIDE DEF D, G, All
  <2>1. rest \in Shares /\ PlusAll(out, w.pages, D) = Plus(rest, w.pages[k])
    BY <2>0, PlusAllSplit, PlusAllTypes, FS_Subset
  <2>2. HasShare(w.gpu, rest, w.pages[k])
    BY <2>0, <2>1 DEF HasShare
  <2> HIDE DEF rest
  <2>3. Fine(v, rest, TRUE)
    BY <2>2, ObservedBalanced
  <2> HIDE DEF v
  <2>4. v.page \in PageSlots /\ Balanced(v.gpu, Plus(rest, v.page))
    BY <2>3 DEF Fine
  <2>5. new \in [D -> PageSlots] /\ PlusAll(out, new, D) = Plus(rest, v.page)
    <3>1. new \in [D -> PageSlots] /\ new[k] = v.page /\ \A j \in D \ {k} : new[j] = w.pages[j]
      BY <2>0, <2>4
    <3> HIDE DEF new
    <3>2. QED
      BY <2>0, <3>1, OneChanged DEF rest
  <2>6. v.gpu \in GpuStates
    BY <2>4 DEF Balanced, BalancedBut
  <2>7. Step(k, w) = [gpu |-> v.gpu, pages |-> new]
    BY DEF v
  <2> HIDE DEF new, Step
  <2>8. QED
    BY <2>4, <2>5, <2>6, <2>7 DEF G, All
<1>4. IsFiniteSet(D)
  OBVIOUS
<1>5. \A s \in SUBSET D : s # {} => c[s] \in s /\ c[s] = CHOOSE k \in s : TRUE
  OBVIOUS
<1> HIDE DEF c, D, G, base, Step
<1>6. F \in [D \X G -> G]
  BY <1>3
<1> HIDE DEF F
<1>7. PICK h \in [SUBSET D -> G] : Loops(h, D, base, F, c)
  <2>1. Orders(c, D)
    BY <1>5 DEF Orders
  <2>2. QED
    BY <1>2, <1>4, <1>6, <2>1, LoopExists
<1>8. ASSUME NEW s \in SUBSET D, s # {}
      PROVE  h[s] = Step(CHOOSE k \in s : TRUE, h[s \ {CHOOSE k \in s : TRUE}])
  <2>1. h[s \ {c[s]}] \in G /\ c[s] \in D
    BY <1>5, <1>8
  <2>2. F[<<c[s], h[s \ {c[s]}]>>] = Step(c[s], h[s \ {c[s]}])
    BY <2>1 DEF F
  <2>3. QED
    BY <1>5, <1>7, <1>8, <2>2 DEF Loops
<1>9. h = Body(h)
  BY <1>7, <1>8 DEF Loops
<1>10. loop = Body(loop)
  BY <1>9
<1> HIDE DEF loop
<1> DEFINE P == {s \in SUBSET D : loop[s] \in G}
<1>11. {} \in P
  BY <1>2, <1>10
<1>12. ASSUME NEW s \in SUBSET D, s # {}
       PROVE  \E k \in s : s \ {k} \in P => s \in P
  <2> DEFINE k == CHOOSE k \in s : TRUE
  <2>1. k \in s /\ k \in D
    BY <1>12
  <2>2. loop[s] = Step(k, loop[s \ {k}])
    BY <1>10, <1>12
  <2> HIDE DEF k
  <2>3. QED
    BY <1>3, <2>1, <2>2
<1>13. D \in P
  <2> HIDE DEF P
  <2>1. QED
    BY <1>4, <1>11, <1>12, LoopInduction
<1>14. loop[D] \in G
  BY <1>13
<1>15. QED
  BY <1>1, <1>14 DEF G, D

\* The snapshots are sequences of different pages.
LEMMA SnapshotTypes ==
    ASSUME NEW gen \in DOMAIN Snapshots, NEW rev \in DOMAIN Snapshots[gen]
    PROVE  /\ Snapshots[gen][rev] \in Seq(Pages) /\ IsInjective(Snapshots[gen][rev])
           /\ gen \in Nat /\ rev \in Nat
<1>1. Snapshots \in Seq(Seq(Seq(Pages) \ {<<>>}))
  BY ConstantsAssumption
<1>2. Snapshots[gen] \in Seq(Seq(Pages) \ {<<>>}) /\ gen \in Nat
  BY <1>1
<1>3. Snapshots[gen][rev] \in Seq(Pages) /\ rev \in Nat
  BY <1>2
<1>4. QED
  BY <1>2, <1>3, ConstantsAssumption

\* The loop of Missing: the pages come in their order.
Keeps(h, snapshot, uploaded) ==
    /\ h[{}] = <<>>
    /\ \A s \in SUBSET DOMAIN snapshot : s # {} =>
          \E i \in s : h[s] = IF snapshot[i] \in uploaded THEN h[s \ {i}]
                              ELSE Append(h[s \ {i}], snapshot[i])

\* Missing computes such a loop.
LEMMA MissingLoop ==
    ASSUME NEW snapshot \in Seq(Pages), NEW uploaded
    PROVE  \E h : Keeps(h, snapshot, uploaded)
                  /\ h[DOMAIN snapshot] = Missing(snapshot, uploaded)
<1> DEFINE D == DOMAIN snapshot
           G == Seq(Pages)
           Step(i, left) == IF snapshot[i] \in uploaded THEN left ELSE Append(left, snapshot[i])
           c == [s \in SUBSET D |-> Max(s)]
           F == [x \in D \X G |-> Step(x[1], x[2])]
           Body(h) == [s \in SUBSET D |-> IF s = {} THEN <<>>
                         ELSE Step(Max(s), h[s \ {Max(s)}])]
           loop == CHOOSE h : h = Body(h)
<1>1. Missing(snapshot, uploaded) = loop[D]
  BY DEF Missing, FoldLeft, MapThenFoldSet
<1>2. IsFiniteSet(D) /\ D = 1..Len(snapshot) /\ Len(snapshot) \in Nat
      /\ \A i \in D : snapshot[i] \in Pages
  BY SeqFinite
<1>3. F \in [D \X G -> G] /\ <<>> \in G
  <2>1. \A i \in D, left \in G : Step(i, left) \in G
    BY <1>2
  <2> HIDE DEF Step
  <2>2. QED
    BY <2>1
<1> HIDE DEF D, F, G, Step
<1>4. \A s \in SUBSET D : s # {} => c[s] \in s /\ c[s] = Max(s)
  BY <1>2, LastPlace
<1> HIDE DEF c
<1>5. PICK h \in [SUBSET D -> G] : Loops(h, D, <<>>, F, c)
  <2>1. Orders(c, D)
    BY <1>4 DEF Orders
  <2>2. QED
    BY <1>2, <1>3, <2>1, LoopExists
<1>6. ASSUME NEW s \in SUBSET D, s # {}
      PROVE  h[s] = Step(Max(s), h[s \ {Max(s)}])
  <2>1. h[s \ {c[s]}] \in G /\ c[s] \in D
    BY <1>4, <1>6
  <2>2. F[<<c[s], h[s \ {c[s]}]>>] = Step(c[s], h[s \ {c[s]}])
    BY <2>1 DEF F
  <2>3. QED
    BY <1>4, <1>5, <1>6, <2>2 DEF Loops
<1>7. h = Body(h)
  BY <1>5, <1>6 DEF Loops
<1>8. loop = Body(loop)
  BY <1>7
<1> HIDE DEF loop
<1>9. /\ loop[{}] = <<>>
      /\ \A s \in SUBSET D : s # {} => loop[s] = Step(Max(s), loop[s \ {Max(s)}])
  BY <1>8
<1>10. \A s \in SUBSET D : s # {} => Max(s) \in s
  BY <1>4
<1>11. \A s \in SUBSET D : s # {} => \E i \in s : loop[s] = Step(i, loop[s \ {i}])
  BY <1>9, <1>10
<1>12. Keeps(loop, snapshot, uploaded) /\ loop[D] = Missing(snapshot, uploaded)
  BY <1>1, <1>9, <1>11 DEF Keeps, D, Step
<1>13. QED
  BY <1>12 DEF D

\* One page more, that was not there.
LEMMA AppendOnce ==
    ASSUME NEW s \in Seq(Pages), IsInjective(s), NEW x \in Pages, x \notin ToSet(s)
    PROVE  /\ Append(s, x) \in Seq(Pages) /\ IsInjective(Append(s, x))
           /\ ToSet(Append(s, x)) = ToSet(s) \cup {x}
<1> DEFINE t == Append(s, x)
           n == Len(s) + 1
<1>1. t \in Seq(Pages) /\ DOMAIN t \ {n} = DOMAIN s /\ n \in DOMAIN t
  BY AppendSplit
<1>2. t[n] = x /\ \A k \in DOMAIN s : t[k] = s[k]
  BY AppendSplit
<1> HIDE DEF t, n
<1>3. IsInjective(t)
  BY <1>1, <1>2 DEF IsInjective, ToSet
<1>4. ToSet(t) = ToSet(s) \cup {x}
  BY <1>1, <1>2 DEF ToSet
<1>5. QED
  BY <1>1, <1>3, <1>4 DEF t

\* What is missing: pages of the snapshot that are not uploaded, each once.
LEMMA MissingPages ==
    ASSUME NEW snapshot \in Seq(Pages), IsInjective(snapshot), NEW uploaded
    PROVE  LET left == Missing(snapshot, uploaded) IN
           /\ left \in Seq(Pages) /\ IsInjective(left)
           /\ ToSet(left) = ToSet(snapshot) \ uploaded
<1> DEFINE D == DOMAIN snapshot
           Left(s) == {snapshot[i] : i \in s} \ uploaded
<1>1. PICK h : Keeps(h, snapshot, uploaded) /\ h[D] = Missing(snapshot, uploaded)
  BY MissingLoop
<1> DEFINE Good(s) == h[s] \in Seq(Pages) /\ IsInjective(h[s]) /\ ToSet(h[s]) = Left(s)
           P == {s \in SUBSET D : Good(s)}
<1>2. IsFiniteSet(D) /\ \A i \in D : snapshot[i] \in Pages
  BY SeqFinite
<1>3. {} \in P
  <2>1. h[{}] = <<>> /\ DOMAIN <<>> = {} /\ <<>> \in Seq(Pages)
    BY <1>1 DEF Keeps
  <2>2. IsInjective(<<>>) /\ ToSet(<<>>) = {} /\ Left({}) = {}
    BY <2>1 DEF IsInjective, ToSet
  <2> HIDE DEF Left
  <2>3. Good({})
    BY <2>1, <2>2
  <2>4. QED
    BY <2>3
<1>4. ASSUME NEW s \in SUBSET D, s # {}
      PROVE  \E i \in s : s \ {i} \in P => s \in P
  <2>1. PICK i \in s : h[s] = IF snapshot[i] \in uploaded THEN h[s \ {i}]
                              ELSE Append(h[s \ {i}], snapshot[i])
    BY <1>1, <1>4 DEF Keeps
  <2>2. ASSUME s \ {i} \in P PROVE Good(s)
    <3>1. i \in D /\ snapshot[i] \in Pages /\ snapshot[i] \notin Left(s \ {i})
      BY <1>2 DEF IsInjective
    <3>2. CASE snapshot[i] \in uploaded
      BY <2>1, <2>2, <3>2
    <3>3. CASE snapshot[i] \notin uploaded
      <4> DEFINE old == h[s \ {i}]
                 page == snapshot[i]
      <4>1. old \in Seq(Pages) /\ IsInjective(old) /\ ToSet(old) = Left(s \ {i})
        BY <2>2
      <4>2. page \in Pages /\ page \notin ToSet(old) /\ h[s] = Append(old, page)
        BY <2>1, <3>1, <3>3, <4>1
      <4>3. Left(s) = Left(s \ {i}) \cup {page}
        BY <3>1, <3>3
      <4> HIDE DEF old, page, Left
      <4>4. /\ Append(old, page) \in Seq(Pages) /\ IsInjective(Append(old, page))
            /\ ToSet(Append(old, page)) = ToSet(old) \cup {page}
        BY <4>1, <4>2, AppendOnce
      <4>5. ToSet(Append(old, page)) = Left(s)
        BY <4>1, <4>3, <4>4
      <4>6. h[s] \in Seq(Pages) /\ IsInjective(h[s]) /\ ToSet(h[s]) = Left(s)
        BY <4>2, <4>4, <4>5
      <4>7. QED
        BY <4>6
    <3>4. QED
      BY <3>2, <3>3
  <2>3. QED
    BY <2>2
<1>5. D \in P
  <2> HIDE DEF P, D
  <2>1. QED
    BY <1>2, <1>3, <1>4, LoopInduction
<1>6. QED
  BY <1>1, <1>5 DEF ToSet

-----------------------------------------------------------------------------
(***************************************************************************)
(* The inductive invariant.                                                *)
(***************************************************************************)
Maps == UNION {[S -> PageSlots] : S \in SUBSET Pages}

\* A slot: its pages, and those it still has to upload, none of them twice.
GoodSlot(slot) ==
    /\ slot \in [gen : Nat, rev : Nat, pages : Maps, left : Seq(Pages),
                 warming : BOOLEAN, grows : BOOLEAN]
    /\ IsFiniteSet(DOMAIN slot.pages)
    /\ IsInjective(slot.left)
    /\ ToSet(slot.left) \cap DOMAIN slot.pages = {}
    /\ slot.left # <<>> => slot.gen \in DOMAIN Snapshots

\* A snapshot that was published, or none.
GoodSnapshot(s) ==
    /\ s \in [gen : Nat, rev : Nat, initial : BOOLEAN]
    /\ s # NoSnapshot => s.gen \in DOMAIN Snapshots /\ s.rev \in DOMAIN Snapshots[s.gen]

\* What the pages of two and of three slots hold.
Pair(s, t) == [r \in Resources |-> HoldersAmong(s.pages, r) + HoldersAmong(t.pages, r)]
Owned(a, s, t) ==
    [r \in Resources |-> HoldersAmong(a.pages, r) + HoldersAmong(s.pages, r)
                         + HoldersAmong(t.pages, r)]

Unseen(slot) == \A k \in DOMAIN slot.pages : ~slot.pages[k].shown

SlotsOK == GoodSlot(active) /\ GoodSlot(staging) /\ GoodSlot(retired)

\* Everything is well formed, the references are those of the slots and the
\* queues, and neither the replacement nor the replaced terrain is on screen.
\* The replaced terrain is gone before there can be another.
GpuInv ==
    /\ rpc \in Phases \cup {"down"}
    /\ SlotsOK
    /\ GoodSnapshot(pendingSnapshot) /\ GoodSnapshot(published)
    /\ refusing \in SUBSET Kinds /\ refusals \in 0..MaxRefusals
    /\ Balanced(gpu, Owned(active, staging, retired))
    /\ Unseen(staging) /\ Unseen(retired)
    /\ rpc \in {"stage", "upload", "grow", "texture", "swap", "down"} => retired = NoSlot

\* A slot's pages have finitely many places on the ground.
LEMMA SlotTypes ==
    ASSUME NEW slot, GoodSlot(slot)
    PROVE  /\ IsFiniteSet(DOMAIN slot.pages) /\ DOMAIN slot.pages \subseteq Pages
           /\ slot.pages \in [DOMAIN slot.pages -> PageSlots]
           /\ \A k \in DOMAIN slot.pages : slot.pages[k] \in PageSlots
           /\ \A r \in Resources : HoldersAmong(slot.pages, r) \in Nat
           /\ slot.left \in Seq(Pages) /\ slot.gen \in Nat /\ slot.rev \in Nat
           /\ slot.warming \in BOOLEAN /\ slot.grows \in BOOLEAN
<1>1. slot.pages \in Maps
  BY DEF GoodSlot
<1>2. PICK S \in SUBSET Pages : slot.pages \in [S -> PageSlots]
  BY <1>1 DEF Maps
<1>3. \A r \in Resources : HoldersAmong(slot.pages, r) \in Nat
  <2>1. \A r : HoldersAmong(slot.pages, r) = Among(slot.pages, DOMAIN slot.pages, r)
    BY DEF HoldersAmong, Among
  <2>2. QED
    BY <2>1, AmongTypes DEF GoodSlot
<1>4. QED
  BY <1>2, <1>3 DEF GoodSlot

\* What the slots hold, seen from each of them.
LEMMA OwnedSplit ==
    ASSUME NEW a, NEW s, NEW t, GoodSlot(a), GoodSlot(s), GoodSlot(t)
    PROVE  /\ Pair(s, t) \in Shares /\ Pair(a, t) \in Shares /\ Pair(a, s) \in Shares
           /\ Owned(a, s, t) \in Shares
           /\ Owned(a, s, t) = PlusAll(Pair(s, t), a.pages, DOMAIN a.pages)
           /\ Owned(a, s, t) = PlusAll(Pair(a, t), s.pages, DOMAIN s.pages)
           /\ Owned(a, s, t) = PlusAll(Pair(a, s), t.pages, DOMAIN t.pages)
<1>1. \A r \in Resources : /\ HoldersAmong(a.pages, r) \in Nat
                           /\ HoldersAmong(s.pages, r) \in Nat
                           /\ HoldersAmong(t.pages, r) \in Nat
  BY SlotTypes
<1>2. \A pages, r : HoldersAmong(pages, r) = Among(pages, DOMAIN pages, r)
  BY DEF HoldersAmong, Among
<1>3. \A r \in Resources :
        /\ Pair(s, t)[r] = HoldersAmong(s.pages, r) + HoldersAmong(t.pages, r)
        /\ Pair(a, t)[r] = HoldersAmong(a.pages, r) + HoldersAmong(t.pages, r)
        /\ Pair(a, s)[r] = HoldersAmong(a.pages, r) + HoldersAmong(s.pages, r)
  BY DEF Pair
<1>4. /\ Pair(s, t) \in Shares /\ Pair(a, t) \in Shares /\ Pair(a, s) \in Shares
      /\ Owned(a, s, t) \in Shares
  BY <1>1 DEF Pair, Owned, Shares
<1>5. \A r \in Resources :
        /\ Owned(a, s, t)[r] = PlusAll(Pair(s, t), a.pages, DOMAIN a.pages)[r]
        /\ Owned(a, s, t)[r] = PlusAll(Pair(a, t), s.pages, DOMAIN s.pages)[r]
        /\ Owned(a, s, t)[r] = PlusAll(Pair(a, s), t.pages, DOMAIN t.pages)[r]
  <2> TAKE r \in Resources
  <2>1. /\ Owned(a, s, t)[r] = HoldersAmong(a.pages, r) + HoldersAmong(s.pages, r)
                                 + HoldersAmong(t.pages, r)
        /\ PlusAll(Pair(s, t), a.pages, DOMAIN a.pages)[r]
             = Pair(s, t)[r] + HoldersAmong(a.pages, r)
        /\ PlusAll(Pair(a, t), s.pages, DOMAIN s.pages)[r]
             = Pair(a, t)[r] + HoldersAmong(s.pages, r)
        /\ PlusAll(Pair(a, s), t.pages, DOMAIN t.pages)[r]
             = Pair(a, s)[r] + HoldersAmong(t.pages, r)
    BY <1>2 DEF Owned, PlusAll
  <2>2. QED
    BY <1>1, <1>3, <2>1
<1>6. /\ PlusAll(Pair(s, t), a.pages, DOMAIN a.pages) \in Shares
      /\ PlusAll(Pair(a, t), s.pages, DOMAIN s.pages) \in Shares
      /\ PlusAll(Pair(a, s), t.pages, DOMAIN t.pages) \in Shares
  BY <1>4, SlotTypes, PlusAllTypes
<1>7. QED
  BY <1>4, <1>5, <1>6 DEF Shares

\* An empty slot holds nothing.
LEMMA NoSlotHoldsNothing ==
    /\ GoodSlot(NoSlot) /\ Unseen(NoSlot)
    /\ \A a, s, t : GoodSlot(a) /\ GoodSlot(s) /\ GoodSlot(t) =>
          /\ Owned(NoSlot, s, t) = Pair(s, t) /\ Owned(a, NoSlot, t) = Pair(a, t)
          /\ Owned(a, s, NoSlot) = Pair(a, s)
<1>1. DOMAIN NoSlot.pages = {} /\ NoSlot.left = <<>>
  BY DEF NoSlot
<1>2. GoodSlot(NoSlot)
  <2>1. [p \in {} |-> None] \in [{} -> PageSlots]
    OBVIOUS
  <2>2. [p \in {} |-> None] \in Maps
    <3>1. {} \in SUBSET Pages
      OBVIOUS
    <3>2. QED
      BY <2>1, <3>1 DEF Maps
  <2>3. <<>> \in Seq(Pages)
    OBVIOUS
  <2>4. NoSlot \in [gen : Nat, rev : Nat, pages : Maps, left : Seq(Pages),
                    warming : BOOLEAN, grows : BOOLEAN]
    BY <2>2, <2>3 DEF NoSlot
  <2>5. IsInjective(NoSlot.left)
    BY <1>1 DEF IsInjective
  <2>6. QED
    BY <1>1, <2>4, <2>5, FS_EmptySet DEF GoodSlot
<1>3. \A r : HoldersAmong(NoSlot.pages, r) = 0
  BY <1>1, AmongNone DEF HoldersAmong, Among
<1>4. ASSUME NEW a, NEW s, NEW t, GoodSlot(a), GoodSlot(s), GoodSlot(t)
      PROVE  /\ Owned(NoSlot, s, t) = Pair(s, t) /\ Owned(a, NoSlot, t) = Pair(a, t)
             /\ Owned(a, s, NoSlot) = Pair(a, s)
  <2>1. \A r \in Resources : /\ HoldersAmong(a.pages, r) \in Nat
                             /\ HoldersAmong(s.pages, r) \in Nat
                             /\ HoldersAmong(t.pages, r) \in Nat
    BY <1>4, SlotTypes
  <2>2. \A r \in Resources :
          /\ 0 + HoldersAmong(s.pages, r) + HoldersAmong(t.pages, r)
               = HoldersAmong(s.pages, r) + HoldersAmong(t.pages, r)
          /\ HoldersAmong(a.pages, r) + 0 + HoldersAmong(t.pages, r)
               = HoldersAmong(a.pages, r) + HoldersAmong(t.pages, r)
          /\ HoldersAmong(a.pages, r) + HoldersAmong(s.pages, r) + 0
               = HoldersAmong(a.pages, r) + HoldersAmong(s.pages, r)
    BY <2>1
  <2>3. QED
    BY <1>3, <2>2 DEF Owned, Pair
<1>5. QED
  BY <1>1, <1>2, <1>4 DEF Unseen

\* Pages that hold the same, and are pages.
Alike(pages, old) ==
    /\ pages \in [DOMAIN old -> PageSlots]
    /\ \A k \in DOMAIN old, r \in Resources : HoldsIt(pages[k], r) <=> HoldsIt(old[k], r)

\* A slot whose pages change without a change of what they hold.
LEMMA AlikeSlot ==
    ASSUME NEW slot, GoodSlot(slot), NEW pages, Alike(pages, slot.pages)
    PROVE  /\ GoodSlot([slot EXCEPT !.pages = pages])
           /\ \A r \in Resources : HoldersAmong(pages, r) = HoldersAmong(slot.pages, r)
<1>1. DOMAIN pages = DOMAIN slot.pages /\ DOMAIN slot.pages \in SUBSET Pages
  BY SlotTypes DEF Alike
<1>2. pages \in Maps
  BY <1>1 DEF Maps, Alike
<1>3. GoodSlot([slot EXCEPT !.pages = pages])
  BY <1>1, <1>2 DEF GoodSlot
<1>4. ASSUME NEW r \in Resources
      PROVE  HoldersAmong(pages, r) = HoldersAmong(slot.pages, r)
  <2>1. Among(pages, DOMAIN slot.pages, r) = Among(slot.pages, DOMAIN slot.pages, r)
    BY AmongSame DEF Alike
  <2>2. QED
    BY <1>1, <2>1 DEF Among, HoldersAmong
<1>5. QED
  BY <1>3, <1>4

\* The staging slot, superseded or failed.
LEMMA DestroyStaging ==
    ASSUME NEW g, NEW a, NEW s, NEW t, GoodSlot(a), GoodSlot(s), GoodSlot(t),
           Balanced(g, Owned(a, s, t))
    PROVE  Balanced(DestroySlot(g, s), Owned(a, NoSlot, t))
<1>1. /\ Pair(a, t) \in Shares /\ Owned(a, s, t) = PlusAll(Pair(a, t), s.pages, DOMAIN s.pages)
  BY OwnedSplit
<1>2. IsFiniteSet(DOMAIN s.pages) /\ \A k \in DOMAIN s.pages : s.pages[k] \in PageSlots
  BY SlotTypes
<1>3. Balanced(DestroySlot(g, s), Pair(a, t))
  BY <1>1, <1>2, DestroySlotBalanced
<1>4. QED
  BY <1>3, NoSlotHoldsNothing

\* The retired slot, in OnPreRender and OnPostRender.
LEMMA DestroyRetired ==
    ASSUME NEW g, NEW a, NEW s, NEW t, GoodSlot(a), GoodSlot(s), GoodSlot(t),
           Balanced(g, Owned(a, s, t))
    PROVE  Balanced(DestroySlot(g, t), Owned(a, s, NoSlot))
<1>1. /\ Pair(a, s) \in Shares /\ Owned(a, s, t) = PlusAll(Pair(a, s), t.pages, DOMAIN t.pages)
  BY OwnedSplit
<1>2. IsFiniteSet(DOMAIN t.pages) /\ \A k \in DOMAIN t.pages : t.pages[k] \in PageSlots
  BY SlotTypes
<1>3. Balanced(DestroySlot(g, t), Pair(a, s))
  BY <1>1, <1>2, DestroySlotBalanced
<1>4. QED
  BY <1>3, NoSlotHoldsNothing

\* The active slot, in a teardown.
LEMMA DestroyActive ==
    ASSUME NEW g, NEW a, NEW s, NEW t, GoodSlot(a), GoodSlot(s), GoodSlot(t),
           Balanced(g, Owned(a, s, t))
    PROVE  Balanced(DestroySlot(g, a), Owned(NoSlot, s, t))
<1>1. /\ Pair(s, t) \in Shares /\ Owned(a, s, t) = PlusAll(Pair(s, t), a.pages, DOMAIN a.pages)
  BY OwnedSplit
<1>2. IsFiniteSet(DOMAIN a.pages) /\ \A k \in DOMAIN a.pages : a.pages[k] \in PageSlots
  BY SlotTypes
<1>3. Balanced(DestroySlot(g, a), Pair(s, t))
  BY <1>1, <1>2, DestroySlotBalanced
<1>4. QED
  BY <1>3, NoSlotHoldsNothing

\* A new slot has everything to upload.
LEMMA NewSlotGood ==
    ASSUME NEW s, GoodSnapshot(s), s # NoSnapshot, NEW grows \in BOOLEAN
    PROVE  /\ GoodSlot(NewSlot(s, grows)) /\ Unseen(NewSlot(s, grows))
           /\ NewSlot(s, grows).pages = NoSlot.pages /\ NewSlot(s, grows).gen = s.gen
<1> DEFINE n == NewSlot(s, grows)
<1>1. s.gen \in DOMAIN Snapshots /\ s.rev \in DOMAIN Snapshots[s.gen]
  BY DEF GoodSnapshot
<1>2. /\ Snapshots[s.gen][s.rev] \in Seq(Pages) /\ IsInjective(Snapshots[s.gen][s.rev])
      /\ s.gen \in Nat /\ s.rev \in Nat
  <2> DEFINE gen == s.gen
             rev == s.rev
  <2> HIDE DEF gen, rev
  <2>1. gen \in DOMAIN Snapshots /\ rev \in DOMAIN Snapshots[gen]
    BY <1>1 DEF gen, rev
  <2>2. /\ Snapshots[gen][rev] \in Seq(Pages) /\ IsInjective(Snapshots[gen][rev])
        /\ gen \in Nat /\ rev \in Nat
    BY <2>1, SnapshotTypes
  <2>3. QED
    BY <2>2 DEF gen, rev
<1>3. /\ n.gen = s.gen /\ n.rev = s.rev /\ n.pages = NoSlot.pages
      /\ n.left = Snapshots[s.gen][s.rev] /\ n.warming = TRUE /\ n.grows = grows
  BY DEF NewSlot, NoSlot
<1>4. n \in [gen : Nat, rev : Nat, pages : Maps, left : Seq(Pages),
            warming : BOOLEAN, grows : BOOLEAN]
  <2>1. NoSlot \in [gen : Nat, rev : Nat, pages : Maps, left : Seq(Pages),
                    warming : BOOLEAN, grows : BOOLEAN]
    BY NoSlotHoldsNothing DEF GoodSlot
  <2>2. QED
    BY <1>2, <2>1 DEF NewSlot
<1>5. NoSlot.pages \in Maps /\ DOMAIN NoSlot.pages = {} /\ IsFiniteSet(DOMAIN NoSlot.pages)
  <2>1. GoodSlot(NoSlot)
    BY NoSlotHoldsNothing
  <2>2. QED
    BY <2>1 DEF GoodSlot, NoSlot
<1> HIDE DEF n
<1>6. GoodSlot(n)
  BY <1>1, <1>2, <1>3, <1>4, <1>5 DEF GoodSlot
<1>7. Unseen(n)
  BY <1>3, <1>5 DEF Unseen
<1>8. QED
  BY <1>3, <1>6, <1>7 DEF n

\* A new page is a page, without GPU state.
LEMMA NewPageTypes ==
    ASSUME NEW page \in Pages, NEW level \in Levels(page), NEW slot, GoodSlot(slot),
           slot.left # <<>>, GoodSlot(active)
    PROVE  LET p == NewPage(page, level, slot) IN
           p \in PageSlots /\ ~p.geometry /\ p.tex = None
<1> DEFINE visible == {active.pages[k].srcTex : k \in DOMAIN active.pages \cap {page}}
           finer == {t \in visible : Level(t) > level}
           tex == IF finer = {} THEN TextureOf(page, level) ELSE CHOOSE t \in finer : TRUE
<1>1. visible \subseteq Textures
  BY SlotTypes, PageTypes
<1>2. TextureOf(page, level) \in Textures
  BY DEF Textures
<1>3. tex \in Textures
  BY <1>1, <1>2
<1>4. MeshOf(page, slot.gen) \in Meshes
  BY DEF Meshes, GoodSlot
<1>5. slot.grows \in BOOLEAN /\ 0 \in 0..OffscreenFrames
  BY SlotTypes, ConstantsAssumption
<1>6. NewPage(page, level, slot) =
        [srcMesh |-> MeshOf(page, slot.gen), srcTex |-> tex,
         mesh |-> None, geometry |-> FALSE, tex |-> None, resident |-> FALSE,
         shown |-> FALSE, offscreen |-> 0, warming |-> slot.grows]
  BY DEF NewPage
<1> HIDE DEF tex
<1>7. QED
  BY <1>3, <1>4, <1>5, <1>6 DEF PageSlots

\* Making a new page resident: the page has its share, or holds nothing.
LEMMA NewPageBalanced ==
    ASSUME NEW g, NEW out \in Shares, Balanced(g, out),
           NEW p \in PageSlots, ~p.geometry, p.tex = None
    PROVE  LET w == MakeResident(g, p, FALSE) IN
           /\ w.page \in PageSlots /\ Balanced(w.gpu, Plus(out, w.page)) /\ ~w.page.shown
           /\ Balanced(DestroyPage(w.gpu, w.page), out)
<1>1. HasShare(g, out, p)
  BY BareHoldsNothing DEF HasShare
<1> DEFINE w == MakeResident(g, p, FALSE)
<1>2. Fine(w, out, FALSE)
  BY <1>1, MakeResidentBalanced
<1> HIDE DEF w
<1>3. w.page \in PageSlots /\ Balanced(w.gpu, Plus(out, w.page)) /\ ~w.page.shown
  BY <1>2 DEF Fine
<1>4. Balanced(DestroyPage(w.gpu, w.page), out)
  BY <1>3, DestroyPageBalanced
<1>5. QED
  BY <1>3, <1>4 DEF w

\* The page at the head of what is left is new; with it the slot is a slot.
LEMMA WithGood ==
    ASSUME NEW slot, GoodSlot(slot), slot.left # <<>>, NEW p \in PageSlots
    PROVE  LET page == Head(slot.left)
               new == With(slot, page, p)
           IN /\ page \in Pages /\ page \notin DOMAIN slot.pages
              /\ GoodSlot(new) /\ DOMAIN new.pages = DOMAIN slot.pages \cup {page}
              /\ new.pages[page] = p
              /\ \A k \in DOMAIN slot.pages : new.pages[k] = slot.pages[k]
              /\ \A out \in Shares :
                    PlusAll(out, new.pages, DOMAIN new.pages)
                      = Plus(PlusAll(out, slot.pages, DOMAIN slot.pages), p)
<1> DEFINE page == Head(slot.left)
           new == With(slot, page, p)
           D == DOMAIN slot.pages
           pages == [k \in D \cup {page} |-> IF k = page THEN p ELSE slot.pages[k]]
<1>1. /\ slot.left \in Seq(Pages) /\ IsFiniteSet(D) /\ D \subseteq Pages
      /\ slot.pages \in [D -> PageSlots]
  BY SlotTypes
<1>2. page \in Pages /\ page \in ToSet(slot.left) /\ Tail(slot.left) \in Seq(Pages)
  BY <1>1 DEF ToSet
<1>3. page \notin D
  BY <1>2 DEF GoodSlot
<1>4. IsInjective(Tail(slot.left)) /\ ToSet(Tail(slot.left)) \subseteq ToSet(slot.left) \ {page}
  <2> DEFINE s == slot.left
             t == Tail(s)
  <2>1. /\ Len(s) \in Nat /\ Len(s) # 0 /\ Len(t) = Len(s) - 1
        /\ DOMAIN t = 1..Len(t) /\ DOMAIN s = 1..Len(s)
        /\ \A i \in 1..Len(t) : t[i] = s[i + 1] /\ i + 1 \in DOMAIN s /\ i + 1 # 1
        /\ 1 \in DOMAIN s /\ page = s[1]
    BY <1>1
  <2>2. IsInjective(s)
    BY DEF GoodSlot
  <2> HIDE DEF s, t, page
  <2>3. \A i, j \in DOMAIN t : i + 1 = j + 1 => i = j
    BY <2>1
  <2>4. IsInjective(t)
    BY <2>1, <2>2, <2>3 DEF IsInjective
  <2>5. \A i \in DOMAIN t : t[i] \in ToSet(s) /\ t[i] # page
    BY <2>1, <2>2 DEF IsInjective, ToSet
  <2>6. ToSet(t) \subseteq ToSet(s) \ {page}
    BY <2>5 DEF ToSet
  <2>7. QED
    BY <2>4, <2>6 DEF s, t
<1>5. new = [slot EXCEPT !.pages = pages, !.left = Tail(slot.left)]
  BY DEF With
<1>6. new.pages = pages /\ new.left = Tail(slot.left) /\ new.gen = slot.gen
  BY <1>5 DEF GoodSlot
<1>7. \A out \in Shares :
        /\ pages \in [D \cup {page} -> PageSlots] /\ IsFiniteSet(D \cup {page})
        /\ PlusAll(out, pages, D \cup {page}) = Plus(PlusAll(out, slot.pages, D), p)
        /\ pages[page] = p /\ \A j \in D : pages[j] = slot.pages[j]
  <2> DEFINE old == slot.pages
  <2>1. IsFiniteSet(D) /\ old \in [D -> PageSlots] /\ page \notin D
    BY <1>1, <1>3
  <2> HIDE DEF D, page, old
  <2>2. ASSUME NEW out \in Shares
        PROVE  LET more == [k \in D \cup {page} |-> IF k = page THEN p ELSE old[k]] IN
               /\ more \in [D \cup {page} -> PageSlots] /\ IsFiniteSet(D \cup {page})
               /\ PlusAll(out, more, D \cup {page}) = Plus(PlusAll(out, old, D), p)
               /\ more[page] = p /\ \A j \in D : more[j] = old[j]
    BY <2>1, OneMore
  <2>3. QED
    BY <2>2 DEF old
<1>8. pages \in [D \cup {page} -> PageSlots] /\ IsFiniteSet(D \cup {page})
  BY <1>1, <1>2, FS_AddElement
<1>9. pages \in Maps
  <2>1. D \cup {page} \in SUBSET Pages
    BY <1>1, <1>2
  <2> HIDE DEF pages, D, page
  <2>2. QED
    BY <1>8, <2>1 DEF Maps
<1>10. pages[page] = p /\ \A j \in D : pages[j] = slot.pages[j]
  BY <1>3
<1> HIDE DEF page, pages, D
<1>11. DOMAIN pages = D \cup {page}
  BY <1>8
<1>12. GoodSlot(new)
  <2>1. new \in [gen : Nat, rev : Nat, pages : Maps, left : Seq(Pages),
                 warming : BOOLEAN, grows : BOOLEAN]
    BY <1>2, <1>5, <1>9 DEF GoodSlot
  <2>2. ToSet(new.left) \cap DOMAIN new.pages = {}
    BY <1>4, <1>6, <1>11 DEF GoodSlot, D
  <2> HIDE DEF new
  <2>3. QED
    BY <1>4, <1>6, <1>8, <1>11, <2>1, <2>2 DEF GoodSlot
<1> HIDE DEF new
<1>13. QED
  BY <1>2, <1>3, <1>6, <1>7, <1>10, <1>11, <1>12 DEF new, page, D

-----------------------------------------------------------------------------
(***************************************************************************)
(* The steps of a frame.                                                   *)
(***************************************************************************)
\* A state in which every part of the invariant holds again.
LEMMA Assemble ==
    ASSUME rpc' \in Phases \cup {"down"},
           GoodSlot(active'), GoodSlot(staging'), GoodSlot(retired'),
           GoodSnapshot(pendingSnapshot'), GoodSnapshot(published'),
           refusing' \in SUBSET Kinds, refusals' \in 0..MaxRefusals,
           Balanced(gpu', Owned(active', staging', retired')),
           Unseen(staging'), Unseen(retired'),
           rpc' \in {"stage", "upload", "grow", "texture", "swap", "down"} => retired' = NoSlot
    PROVE  GpuInv'
BY DEF GpuInv, SlotsOK

\* Nothing is held and nothing is loaded at first.
LEMMA GpuInvInit ==
    ASSUME Init PROVE GpuInv
<1>1. GoodSlot(NoSlot) /\ Unseen(NoSlot)
  BY NoSlotHoldsNothing
<1>2. GoodSnapshot(NoSnapshot)
  BY DEF GoodSnapshot, NoSnapshot
<1>3. Balanced(EmptyGpu, Owned(NoSlot, NoSlot, NoSlot))
  <2> DEFINE g == EmptyGpu
  <2>1. /\ g.refs = [r \in Resources |-> 0] /\ g.loaded = {} /\ g.late = {}
        /\ g.latePages = <<>> /\ g.lateMaterials = <<>> /\ g \in GpuStates
    BY DEF EmptyGpu, GpuStates
  <2> HIDE DEF g
  <2>2. DOMAIN NoSlot.pages = {} /\ DOMAIN <<>> = {}
    BY DEF NoSlot
  <2>3. \A r : HoldersAmong(NoSlot.pages, r) = 0 /\ HoldersAmong(g.latePages, r) = 0
    BY <2>1, <2>2, AmongNone DEF HoldersAmong, Among
  <2>4. ASSUME NEW r PROVE Unbound(g, r) = 0
    <3>1. {i \in DOMAIN g.lateMaterials : g.lateMaterials[i] = r} = {}
      BY <2>1, <2>2
    <3>2. QED
      BY <3>1, FS_EmptySet DEF Unbound
  <2>5. Owned(NoSlot, NoSlot, NoSlot) \in Shares
        /\ \A r \in Resources : Owned(NoSlot, NoSlot, NoSlot)[r] = 0
    BY <2>3 DEF Owned, Shares
  <2>6. QED
    BY <2>1, <2>2, <2>3, <2>4, <2>5 DEF Balanced, BalancedBut, g
<1>4. 0 \in 0..MaxRefusals
  BY ConstantsAssumption
<1>5. QED
  BY <1>1, <1>2, <1>3, <1>4 DEF Init, GpuInv, SlotsOK, Phases

\* OnPreRender releases what was deferred, then the replaced terrain.
LEMMA DrainStep ==
    ASSUME GpuInv, Drain PROVE GpuInv'
<1>1. Balanced(DrainAll(gpu), Owned(active, staging, retired))
  BY DrainAllBalanced DEF GpuInv
<1>2. Balanced(gpu', Owned(active, staging, NoSlot))
  <2> DEFINE g == DrainAll(gpu)
  <2>1. Balanced(g, Owned(active, staging, retired)) /\ gpu' = DestroySlot(g, retired)
    BY <1>1 DEF Drain
  <2> HIDE DEF g
  <2>2. QED
    BY <2>1, DestroyRetired DEF GpuInv, SlotsOK
<1>3. /\ rpc' = "stage" /\ retired' = NoSlot
      /\ UNCHANGED <<active, staging, pendingSnapshot, published, refusing, refusals>>
  BY DEF Drain, Turn, DriverFrame, driverVars
<1>4. QED
  BY <1>2, <1>3, NoSlotHoldsNothing, Assemble DEF GpuInv, SlotsOK, Phases

\* OnPostRender destroys the replaced terrain.
LEMMA PostRenderStep ==
    ASSUME GpuInv, PostRender PROVE GpuInv'
<1>1. Balanced(gpu', Owned(active, staging, NoSlot))
  BY DestroyRetired DEF GpuInv, SlotsOK, PostRender
<1>2. /\ rpc' = "drain" /\ retired' = NoSlot
      /\ UNCHANGED <<active, staging, pendingSnapshot, published, refusing, refusals>>
  BY DEF PostRender, Turn, DriverFrame, driverVars
<1>3. QED
  BY <1>1, <1>2, NoSlotHoldsNothing, Assemble DEF GpuInv, SlotsOK, Phases

\* A slot that grows in place gets what it has not got.
LEMMA AdoptStep ==
    ASSUME GpuInv, Adopt PROVE GpuInv'
<1> DEFINE slot == IF active = NoSlot THEN NewSlot(pendingSnapshot, TRUE) ELSE active
           snapshot == Snapshots[pendingSnapshot.gen][pendingSnapshot.rev]
           left == Missing(snapshot, DOMAIN slot.pages)
<1>1. /\ rpc = "stage" /\ rpc' = "upload" /\ pendingSnapshot # NoSnapshot
      /\ active' = [slot EXCEPT !.rev = pendingSnapshot.rev, !.left = left]
      /\ pendingSnapshot' = NoSnapshot
      /\ UNCHANGED <<staging, retired, gpu, published, refusing, refusals>>
      /\ active = NoSlot \/ active.gen = pendingSnapshot.gen
  BY DEF Adopt, Turn, Appends, DriverFrame, driverVars
<1>2. GoodSnapshot(pendingSnapshot) /\ GoodSlot(active)
      /\ pendingSnapshot.gen \in DOMAIN Snapshots
      /\ pendingSnapshot.rev \in DOMAIN Snapshots[pendingSnapshot.gen]
      /\ pendingSnapshot.rev \in Nat
  BY <1>1 DEF GpuInv, SlotsOK, GoodSnapshot
<1>3. GoodSlot(slot) /\ slot.pages = active.pages /\ slot.gen = pendingSnapshot.gen
  <2>1. CASE active = NoSlot
    BY <1>1, <1>2, <2>1, NewSlotGood
  <2>2. CASE active # NoSlot
    BY <1>1, <1>2, <2>2
  <2>3. QED
    BY <2>1, <2>2
<1>4. left \in Seq(Pages) /\ IsInjective(left) /\ ToSet(left) = ToSet(snapshot) \ DOMAIN slot.pages
  <2> DEFINE gen == pendingSnapshot.gen
             rev == pendingSnapshot.rev
  <2>1. gen \in DOMAIN Snapshots /\ rev \in DOMAIN Snapshots[gen] /\ snapshot = Snapshots[gen][rev]
    BY <1>2
  <2> HIDE DEF gen, rev, snapshot, slot
  <2>2. snapshot \in Seq(Pages) /\ IsInjective(snapshot)
    BY <2>1, SnapshotTypes
  <2>3. QED
    BY <2>2, MissingPages
<1> HIDE DEF left, snapshot, slot
<1>5. active'.pages = active.pages /\ active'.left = left /\ active'.gen = slot.gen
  BY <1>1, <1>3 DEF GoodSlot
<1>6. GoodSlot(active')
  <2>1. active' \in [gen : Nat, rev : Nat, pages : Maps, left : Seq(Pages),
                    warming : BOOLEAN, grows : BOOLEAN]
    BY <1>1, <1>2, <1>3, <1>4 DEF GoodSlot
  <2>2. QED
    BY <1>2, <1>3, <1>4, <1>5, <2>1 DEF GoodSlot
<1>7. Owned(active', staging, retired) = Owned(active, staging, retired)
  BY <1>5 DEF Owned
<1>8. GoodSnapshot(NoSnapshot)
  BY DEF GoodSnapshot, NoSnapshot
<1>9. QED
  BY <1>1, <1>6, <1>7, <1>8, Assemble DEF GpuInv, SlotsOK, Phases

\* A superseded replacement is destroyed.
LEMMA StageStep ==
    ASSUME GpuInv, Stage PROVE GpuInv'
<1>1. /\ rpc = "stage" /\ rpc' = "upload"
      /\ UNCHANGED <<active, retired, published, refusing, refusals>>
  BY DEF Stage, Turn, DriverFrame, driverVars
<1>2. CASE UNCHANGED <<gpu, staging, pendingSnapshot>>
  BY <1>1, <1>2, Assemble DEF GpuInv, SlotsOK, Phases
<1>3. CASE /\ Newer(pendingSnapshot, IF staging = NoSlot THEN active ELSE staging)
           /\ gpu' = DestroySlot(gpu, staging)
           /\ staging' = NewSlot(pendingSnapshot, FALSE)
           /\ pendingSnapshot' = NoSnapshot
  <2>1. pendingSnapshot # NoSnapshot
    <3> DEFINE slot == IF staging = NoSlot THEN active ELSE staging
    <3>1. GoodSlot(slot) /\ Newer(pendingSnapshot, slot)
      BY <1>3 DEF GpuInv, SlotsOK
    <3> HIDE DEF slot
    <3>2. slot.gen \in Nat /\ slot.rev \in Nat
      BY <3>1, SlotTypes
    <3>3. NoSnapshot.gen = 0 /\ NoSnapshot.rev = 0
      BY DEF NoSnapshot
    <3>4. QED
      BY <3>1, <3>2, <3>3 DEF Newer
  <2>2. /\ GoodSlot(staging') /\ Unseen(staging') /\ staging'.pages = NoSlot.pages
    BY <1>3, <2>1, NewSlotGood DEF GpuInv
  <2>3. Balanced(gpu', Owned(active, NoSlot, retired))
    BY <1>3, DestroyStaging DEF GpuInv, SlotsOK
  <2>4. Owned(active, NoSlot, retired) = Owned(active, staging', retired)
    BY <2>2 DEF Owned
  <2>5. GoodSnapshot(NoSnapshot)
    BY DEF GoodSnapshot, NoSnapshot
  <2>6. QED
    BY <1>1, <1>3, <2>2, <2>3, <2>4, <2>5, Assemble DEF GpuInv, SlotsOK, Phases
<1>4. QED
  BY <1>2, <1>3 DEF Stage

\* A page that fails takes the replacement with it, others leave it hidden.
LEMMA UploadStagingStep ==
    ASSUME GpuInv, UploadStaging PROVE GpuInv'
<1>1. /\ rpc = "upload" /\ rpc' = "grow"
      /\ UNCHANGED <<active, retired, pendingSnapshot, published, refusing, refusals>>
  BY DEF UploadStaging, Turn, DriverFrame, driverVars
<1>2. CASE UNCHANGED <<gpu, staging>>
  BY <1>1, <1>2, Assemble DEF GpuInv, SlotsOK, Phases
<1>3. CASE staging.left # <<>>
  <2> DEFINE page == Head(staging.left)
  <2>1. PICK level \in Levels(page) :
          LET w == MakeResident(gpu, NewPage(page, level, staging), FALSE) IN
          IF w.page.resident
          THEN gpu' = w.gpu /\ staging' = With(staging, page, w.page)
          ELSE /\ gpu' = DestroySlot(DestroyPage(w.gpu, w.page), staging)
               /\ staging' = NoSlot
    BY <1>3 DEF UploadStaging
  <2> DEFINE p == NewPage(page, level, staging)
             w == MakeResident(gpu, p, FALSE)
             out == Owned(active, staging, retired)
             rest == Pair(active, retired)
  <2>2. /\ GoodSlot(active) /\ GoodSlot(staging) /\ GoodSlot(retired)
        /\ Balanced(gpu, out) /\ Unseen(staging)
    BY DEF GpuInv, SlotsOK
  <2>3. page \in Pages
    <3>1. staging.left \in Seq(Pages)
      BY <2>2 DEF GoodSlot
    <3>2. QED
      BY <1>3, <3>1
  <2>4. p \in PageSlots /\ ~p.geometry /\ p.tex = None
    <3> HIDE DEF page
    <3>1. QED
      BY <1>3, <2>2, <2>3, NewPageTypes
  <2>5. /\ rest \in Shares /\ out \in Shares
        /\ out = PlusAll(rest, staging.pages, DOMAIN staging.pages)
    BY <2>2, OwnedSplit
  <2> HIDE DEF out, p
  <2>6. /\ w.page \in PageSlots /\ Balanced(w.gpu, Plus(out, w.page)) /\ ~w.page.shown
        /\ Balanced(DestroyPage(w.gpu, w.page), out)
    BY <2>2, <2>4, <2>5, NewPageBalanced
  <2>7. CASE w.page.resident
    <3> DEFINE new == With(staging, page, w.page)
    <3>1. gpu' = w.gpu /\ staging' = new
      BY <2>1, <2>7 DEF p
    <3> HIDE DEF w
    <3>2. /\ page \notin DOMAIN staging.pages
          /\ GoodSlot(new) /\ DOMAIN new.pages = DOMAIN staging.pages \cup {page}
          /\ new.pages[page] = w.page
          /\ \A k \in DOMAIN staging.pages : new.pages[k] = staging.pages[k]
          /\ PlusAll(rest, new.pages, DOMAIN new.pages)
               = Plus(PlusAll(rest, staging.pages, DOMAIN staging.pages), w.page)
      BY <1>3, <2>2, <2>5, <2>6, WithGood
    <3> HIDE DEF new, page
    <3>3. Unseen(new)
      BY <2>2, <2>6, <3>2 DEF Unseen
    <3>4. Owned(active, new, retired) = Plus(out, w.page)
      BY <2>2, <2>5, <3>2, OwnedSplit
    <3>5. QED
      BY <1>1, <2>6, <3>1, <3>2, <3>3, <3>4, Assemble DEF GpuInv, SlotsOK, Phases
  <2>8. CASE ~w.page.resident
    <3>1. gpu' = DestroySlot(DestroyPage(w.gpu, w.page), staging) /\ staging' = NoSlot
      BY <2>1, <2>8 DEF p
    <3> DEFINE g == DestroyPage(w.gpu, w.page)
    <3>2. Balanced(g, Owned(active, staging, retired)) /\ gpu' = DestroySlot(g, staging)
      BY <2>6, <3>1 DEF out
    <3> HIDE DEF g
    <3>3. Balanced(gpu', Owned(active, NoSlot, retired))
      BY <2>2, <3>2, DestroyStaging
    <3>4. QED
      BY <1>1, <3>1, <3>3, NoSlotHoldsNothing, Assemble DEF GpuInv, SlotsOK, Phases
  <2>9. QED
    BY <2>7, <2>8
<1>4. QED
  BY <1>2, <1>3 DEF UploadStaging

\* Pages that appear hold what they held.
LEMMA RevealedSlot ==
    ASSUME NEW slot, GoodSlot(slot)
    PROVE  LET revealed == [slot EXCEPT !.pages = [k \in DOMAIN @ |-> Reveal(@[k])]] IN
           /\ GoodSlot(revealed) /\ revealed.left = slot.left
           /\ \A s, t : Owned(revealed, s, t) = Owned(slot, s, t)
<1> DEFINE pages == [k \in DOMAIN slot.pages |-> Reveal(slot.pages[k])]
           revealed == [slot EXCEPT !.pages = pages]
<1>1. \A k \in DOMAIN slot.pages : slot.pages[k] \in PageSlots
  BY SlotTypes
<1>2. \A p \in PageSlots : Reveal(p) \in PageSlots
                           /\ \A r : HoldsIt(Reveal(p), r) <=> HoldsIt(p, r)
  BY DEF Reveal, PageSlots, HoldsIt
<1>3. Alike(pages, slot.pages)
  BY <1>1, <1>2 DEF Alike
<1>4. revealed.pages = pages /\ revealed.left = slot.left
  BY DEF GoodSlot
<1>5. /\ GoodSlot(revealed)
      /\ \A r \in Resources : HoldersAmong(pages, r) = HoldersAmong(slot.pages, r)
  BY <1>3, AlikeSlot
<1>6. \A s, t : Owned(revealed, s, t) = Owned(slot, s, t)
  BY <1>4, <1>5 DEF Owned
<1>7. QED
  BY <1>4, <1>5, <1>6

\* A page that fails ends the growth, and holds nothing any more.
LEMMA GrowStep ==
    ASSUME GpuInv, Grow PROVE GpuInv'
<1> DEFINE revealed == [active EXCEPT !.pages = [k \in DOMAIN @ |-> Reveal(@[k])]]
<1>1. /\ rpc = "grow" /\ rpc' = "texture"
      /\ UNCHANGED <<staging, retired, pendingSnapshot, published, refusing, refusals>>
  BY DEF Grow, Turn, DriverFrame, driverVars
<1>2. /\ GoodSlot(active) /\ GoodSlot(staging) /\ GoodSlot(retired)
      /\ Balanced(gpu, Owned(active, staging, retired))
  BY DEF GpuInv, SlotsOK
<1>3. /\ GoodSlot(revealed) /\ revealed.left = active.left
      /\ Owned(revealed, staging, retired) = Owned(active, staging, retired)
  BY <1>2, RevealedSlot
<1>4. CASE gpu' = gpu /\ active' = (IF active.grows THEN revealed ELSE active)
  <2> HIDE DEF revealed
  <2>1. CASE active' = active
    BY <1>1, <1>4, <2>1, Assemble DEF GpuInv, SlotsOK, Phases
  <2>2. CASE active' = revealed
    BY <1>1, <1>3, <1>4, <2>2, Assemble DEF GpuInv, SlotsOK, Phases
  <2>3. QED
    BY <1>4, <2>1, <2>2
<1>5. CASE ~(active.left = <<>> \/ staging # NoSlot)
  <2> DEFINE page == Head(active.left)
  <2>1. PICK level \in Levels(page) :
          LET w == MakeResident(gpu, NewPage(page, level, active), FALSE) IN
          IF w.page.resident
          THEN gpu' = w.gpu /\ active' = With(revealed, page, w.page)
          ELSE gpu' = DestroyPage(w.gpu, w.page) /\ active' = [revealed EXCEPT !.left = <<>>]
    BY <1>5 DEF Grow
  <2> DEFINE p == NewPage(page, level, active)
             w == MakeResident(gpu, p, FALSE)
             out == Owned(active, staging, retired)
             rest == Pair(staging, retired)
  <2> HIDE DEF revealed
  <2>2. page \in Pages
    <3>1. active.left \in Seq(Pages)
      BY <1>2 DEF GoodSlot
    <3>2. QED
      BY <1>5, <3>1
  <2>3. p \in PageSlots /\ ~p.geometry /\ p.tex = None
    <3> HIDE DEF page
    <3>1. QED
      BY <1>2, <1>5, <2>2, NewPageTypes
  <2>4. /\ rest \in Shares /\ out \in Shares
        /\ out = PlusAll(rest, revealed.pages, DOMAIN revealed.pages)
    BY <1>2, <1>3, OwnedSplit
  <2> HIDE DEF out, p
  <2>5. Balanced(gpu, out)
    BY <1>2 DEF out
  <2>6. /\ w.page \in PageSlots /\ Balanced(w.gpu, Plus(out, w.page)) /\ ~w.page.shown
        /\ Balanced(DestroyPage(w.gpu, w.page), out)
    BY <2>3, <2>4, <2>5, NewPageBalanced
  <2>7. CASE w.page.resident
    <3> DEFINE new == With(revealed, page, w.page)
    <3>1. gpu' = w.gpu /\ active' = new
      BY <2>1, <2>7 DEF p
    <3> HIDE DEF w
    <3>2. page = Head(revealed.left) /\ revealed.left # <<>>
      BY <1>3, <1>5
    <3>3. /\ GoodSlot(new)
          /\ PlusAll(rest, new.pages, DOMAIN new.pages)
               = Plus(PlusAll(rest, revealed.pages, DOMAIN revealed.pages), w.page)
      BY <1>3, <2>4, <2>6, <3>2, WithGood
    <3> HIDE DEF new
    <3>4. Owned(new, staging, retired) = Plus(out, w.page)
      BY <1>2, <2>4, <3>3, OwnedSplit
    <3>5. QED
      BY <1>1, <2>6, <3>1, <3>3, <3>4, Assemble DEF GpuInv, SlotsOK, Phases
  <2>8. CASE ~w.page.resident
    <3> DEFINE new == [revealed EXCEPT !.left = <<>>]
    <3>1. gpu' = DestroyPage(w.gpu, w.page) /\ active' = new
      BY <2>1, <2>8 DEF p
    <3>2. new.left = <<>> /\ new.pages = revealed.pages /\ <<>> \in Seq(Pages)
          /\ IsInjective(<<>>) /\ ToSet(<<>>) = {}
      BY <1>3 DEF GoodSlot, IsInjective, ToSet
    <3>3. GoodSlot(new)
      BY <1>3, <3>2 DEF GoodSlot
    <3> HIDE DEF new
    <3>4. Owned(new, staging, retired) = out
      BY <1>3, <3>2 DEF Owned, out
    <3>5. Balanced(gpu', out)
      BY <2>6, <3>1
    <3>6. QED
      BY <1>1, <3>1, <3>3, <3>4, <3>5, Assemble DEF GpuInv, SlotsOK, Phases
  <2>9. QED
    BY <2>7, <2>8
<1>6. QED
  BY <1>4, <1>5 DEF Grow

\* One page of a slot changes.
LEMMA ChangedSlot ==
    ASSUME NEW slot, GoodSlot(slot), NEW page \in DOMAIN slot.pages, NEW p \in PageSlots
    PROVE  LET changed == [slot EXCEPT !.pages[page] = p]
               D == DOMAIN slot.pages
           IN /\ GoodSlot(changed) /\ DOMAIN changed.pages = D
              /\ changed.pages = [slot.pages EXCEPT ![page] = p]
              /\ changed.pages[page] = p
              /\ \A k \in D \ {page} : changed.pages[k] = slot.pages[k]
              /\ \A out \in Shares :
                   /\ PlusAll(out, slot.pages, D \ {page}) \in Shares
                   /\ PlusAll(out, slot.pages, D)
                        = Plus(PlusAll(out, slot.pages, D \ {page}), slot.pages[page])
                   /\ PlusAll(out, changed.pages, D)
                        = Plus(PlusAll(out, slot.pages, D \ {page}), p)
<1> DEFINE changed == [slot EXCEPT !.pages[page] = p]
           D == DOMAIN slot.pages
           old == slot.pages
           new == [old EXCEPT ![page] = p]
<1>1. IsFiniteSet(D) /\ D \subseteq Pages /\ old \in [D -> PageSlots] /\ page \in D
  BY SlotTypes
<1>2. changed = [slot EXCEPT !.pages = new]
  OBVIOUS
<1>3. changed.pages = new /\ changed.left = slot.left /\ changed.gen = slot.gen
  BY <1>2 DEF GoodSlot
<1> HIDE DEF D, old
<1>4. \A out \in Shares :
        /\ PlusAll(out, old, D \ {page}) \in Shares
        /\ PlusAll(out, old, D) = Plus(PlusAll(out, old, D \ {page}), old[page])
        /\ PlusAll(out, new, D) = Plus(PlusAll(out, old, D \ {page}), p)
  <2>1. new \in [D -> PageSlots] /\ new[page] = p /\ \A k \in D \ {page} : new[k] = old[k]
    BY <1>1
  <2> HIDE DEF new
  <2>2. QED
    BY <1>1, <2>1, OneChanged
<1>5. new \in [D -> PageSlots] /\ new[page] = p /\ \A k \in D \ {page} : new[k] = old[k]
  BY <1>1
<1> HIDE DEF new
<1>6. DOMAIN new = D /\ new \in Maps
  BY <1>1, <1>5 DEF Maps
<1>7. GoodSlot(changed)
  <2>1. changed \in [gen : Nat, rev : Nat, pages : Maps, left : Seq(Pages),
                     warming : BOOLEAN, grows : BOOLEAN]
    BY <1>2, <1>6 DEF GoodSlot
  <2> HIDE DEF changed
  <2>2. QED
    BY <1>1, <1>3, <1>6, <2>1 DEF GoodSlot, D, old
<1> HIDE DEF changed
<1>8. QED
  BY <1>3, <1>4, <1>5, <1>6, <1>7 DEF changed, D, old, new

\* The new material has its reference before the old one gives up its own.
LEMMA ApplyTextureStep ==
    ASSUME GpuInv, ApplyTexture PROVE GpuInv'
<1>1. /\ rpc = "texture" /\ rpc' = "swap"
      /\ UNCHANGED <<retired, pendingSnapshot, published, refusing, refusals>>
  BY DEF ApplyTexture, Turn, DriverFrame, driverVars
<1>2. CASE UNCHANGED <<active, staging, gpu>>
  BY <1>1, <1>2, Assemble DEF GpuInv, SlotsOK, Phases
<1>3. ASSUME NEW gen \in 1..published.gen, NEW tex \in Textures, Refined(Receiver(gen), tex)
      PROVE  GpuInv'
  <2> DEFINE slot == Receiver(gen)
             page == tex[2]
             old == slot.pages[page]
             w == Retextured(gpu, old, tex)
             changed == [slot EXCEPT !.pages[page] = w.page]
             D == DOMAIN slot.pages
  <2>1. /\ page \in DOMAIN slot.pages /\ gpu' = w.gpu
        /\ staging' = IF slot = staging THEN changed ELSE staging
        /\ active' = IF slot = staging THEN active ELSE changed
    BY <1>3 DEF Refined
  <2>2. /\ GoodSlot(active) /\ GoodSlot(staging) /\ GoodSlot(retired)
        /\ Balanced(gpu, Owned(active, staging, retired)) /\ Unseen(staging)
    BY DEF GpuInv, SlotsOK
  <2>3. slot = staging \/ slot = active
    <3>1. slot \in {staging, active, NoSlot}
      BY DEF Receiver
    <3>2. DOMAIN NoSlot.pages = {}
      BY DEF NoSlot
    <3>3. QED
      BY <2>1, <3>1, <3>2
  <2> DEFINE rest == IF slot = staging THEN Pair(active, retired) ELSE Pair(staging, retired)
             share == PlusAll(rest, slot.pages, D \ {page})
  <2>4. rest \in Shares /\ GoodSlot(slot) /\ Balanced(gpu, PlusAll(rest, slot.pages, D))
        /\ old \in PageSlots
    BY <2>1, <2>2, <2>3, OwnedSplit, SlotTypes
  <2> HIDE DEF slot, page
  <2>5. /\ share \in Shares
        /\ PlusAll(rest, slot.pages, D) = Plus(share, old)
    <3>1. IsFiniteSet(D) /\ IsFiniteSet(D \ {page}) /\ page \in D
      BY <2>1, <2>4, SlotTypes, FS_Subset
    <3> HIDE DEF D, rest
    <3>2. QED
      BY <2>4, <3>1, PlusAllSplit, PlusAllTypes
  <2>6. HasShare(gpu, share, old)
    BY <2>4, <2>5 DEF HasShare
  <2> HIDE DEF rest, share, old
  <2>7. Fine(w, share, old.shown) /\ w.page.shown = old.shown
    BY <2>6, RetexturedBalanced
  <2> HIDE DEF w
  <2>8. w.page \in PageSlots /\ Balanced(w.gpu, Plus(share, w.page))
    BY <2>7 DEF Fine
  <2>9. /\ GoodSlot(changed) /\ DOMAIN changed.pages = D
        /\ changed.pages[page] = w.page
        /\ \A k \in D \ {page} : changed.pages[k] = slot.pages[k]
        /\ PlusAll(rest, changed.pages, D) = Plus(share, w.page)
    BY <2>1, <2>4, <2>8, ChangedSlot DEF share
  <2> HIDE DEF changed
  <2>10. Balanced(gpu', PlusAll(rest, changed.pages, DOMAIN changed.pages))
    BY <2>1, <2>8, <2>9
  <2>11. CASE slot = staging
    <3>1. Owned(active, changed, retired)
            = PlusAll(rest, changed.pages, DOMAIN changed.pages)
      BY <2>2, <2>9, <2>11, OwnedSplit DEF rest
    <3>2. Unseen(changed)
      BY <2>1, <2>2, <2>7, <2>9, <2>11 DEF Unseen, old
    <3>3. staging' = changed /\ active' = active
      BY <2>1, <2>11
    <3>4. QED
      BY <1>1, <2>2, <2>9, <2>10, <3>1, <3>2, <3>3, Assemble DEF GpuInv, SlotsOK, Phases
  <2>12. CASE slot # staging
    <3>1. Owned(changed, staging, retired)
            = PlusAll(rest, changed.pages, DOMAIN changed.pages)
      BY <2>2, <2>9, <2>12, OwnedSplit DEF rest
    <3>2. staging' = staging /\ active' = changed
      BY <2>1, <2>12
    <3>3. QED
      BY <1>1, <2>2, <2>9, <2>10, <3>1, <3>2, Assemble DEF GpuInv, SlotsOK, Phases
  <2>13. QED
    BY <2>11, <2>12
<1>4. QED
  BY <1>2, <1>3 DEF ApplyTexture

\* What becomes visible or hidden holds what it held.
LEMMA VisibleSlot ==
    ASSUME NEW slot, GoodSlot(slot), NEW visible \in BOOLEAN
    PROVE  LET new == SetVisible(slot, visible) IN
           /\ GoodSlot(new) /\ (~visible => Unseen(new))
           /\ \A r \in Resources : HoldersAmong(new.pages, r) = HoldersAmong(slot.pages, r)
<1> DEFINE pages == [k \in DOMAIN slot.pages |-> [slot.pages[k] EXCEPT !.shown = visible]]
           new == [slot EXCEPT !.pages = pages]
<1>1. \A k \in DOMAIN slot.pages : slot.pages[k] \in PageSlots
  BY SlotTypes
<1>2. \A p \in PageSlots : LET q == [p EXCEPT !.shown = visible] IN
         q \in PageSlots /\ q.shown = visible /\ \A r : HoldsIt(q, r) <=> HoldsIt(p, r)
  BY DEF PageSlots, HoldsIt
<1>3. Alike(pages, slot.pages) /\ \A k \in DOMAIN pages : pages[k].shown = visible
  BY <1>1, <1>2 DEF Alike
<1>4. new.pages = pages /\ SetVisible(slot, visible) = new
  BY DEF GoodSlot, SetVisible
<1> HIDE DEF pages
<1>5. /\ GoodSlot(new)
      /\ \A r \in Resources : HoldersAmong(pages, r) = HoldersAmong(slot.pages, r)
  BY <1>3, AlikeSlot
<1> HIDE DEF new
<1>6. QED
  BY <1>3, <1>4, <1>5 DEF Unseen

\* The replaced terrain is hidden when the replacement appears.
LEMMA SwapStep ==
    ASSUME GpuInv, Swap PROVE GpuInv'
<1>1. /\ rpc = "swap" /\ rpc' = "view"
      /\ UNCHANGED <<gpu, pendingSnapshot, published, refusing, refusals>>
  BY DEF Swap, Turn, DriverFrame, driverVars
<1>2. CASE UNCHANGED slotVars
  BY <1>1, <1>2, Assemble DEF GpuInv, SlotsOK, Phases, slotVars
<1>3. CASE staging' = [staging EXCEPT !.warming = FALSE] /\ UNCHANGED <<active, retired>>
  <2>1. GoodSlot(staging) /\ Unseen(staging)
    BY DEF GpuInv, SlotsOK
  <2>2. staging'.pages = staging.pages /\ GoodSlot(staging')
    BY <1>3, <2>1 DEF GoodSlot
  <2>3. Owned(active, staging', retired) = Owned(active, staging, retired) /\ Unseen(staging')
    BY <2>1, <2>2 DEF Owned, Unseen
  <2>4. QED
    BY <1>1, <1>3, <2>2, <2>3, Assemble DEF GpuInv, SlotsOK, Phases
<1>4. CASE /\ retired' = SetVisible(active, FALSE)
           /\ active' = SetVisible(staging, TRUE)
           /\ staging' = NoSlot
  <2>1. GoodSlot(active) /\ GoodSlot(staging) /\ retired = NoSlot
    BY <1>1 DEF GpuInv, SlotsOK
  <2>2. /\ GoodSlot(retired') /\ Unseen(retired')
        /\ \A r \in Resources : HoldersAmong(retired'.pages, r) = HoldersAmong(active.pages, r)
    BY <1>4, <2>1, VisibleSlot
  <2>3. /\ GoodSlot(active')
        /\ \A r \in Resources : HoldersAmong(active'.pages, r) = HoldersAmong(staging.pages, r)
    BY <1>4, <2>1, VisibleSlot
  <2>4. Owned(active', NoSlot, retired') = Owned(active, staging, NoSlot)
    <3>1. Owned(active', NoSlot, retired') = Pair(active', retired')
          /\ Owned(active, staging, NoSlot) = Pair(active, staging)
      BY <2>1, <2>2, <2>3, NoSlotHoldsNothing
    <3>2. \A r \in Resources : HoldersAmong(active.pages, r) \in Nat
                               /\ HoldersAmong(staging.pages, r) \in Nat
      BY <2>1, SlotTypes
    <3>3. \A r \in Resources :
            HoldersAmong(active'.pages, r) + HoldersAmong(retired'.pages, r)
              = HoldersAmong(active.pages, r) + HoldersAmong(staging.pages, r)
      BY <2>2, <2>3, <3>2
    <3>4. QED
      BY <3>1, <3>3 DEF Pair
  <2>5. QED
    BY <1>1, <1>4, <2>1, <2>2, <2>3, <2>4, NoSlotHoldsNothing, Assemble
       DEF GpuInv, SlotsOK, Phases
<1>5. QED
  BY <1>2, <1>3, <1>4 DEF Swap

\* Pages are evicted and brought back.
LEMMA ResidencyStep ==
    ASSUME GpuInv, Residency PROVE GpuInv'
<1>1. /\ rpc' \in {"post", "drain"}
      /\ UNCHANGED <<staging, retired, pendingSnapshot, published, refusing, refusals>>
  BY DEF Residency, Turn, driverVars
<1>2. PICK seen : gpu' = ObserveAll(seen).gpu
                  /\ active' = [active EXCEPT !.pages = ObserveAll(seen).pages]
  BY DEF Residency
<1> DEFINE D == DOMAIN active.pages
           rest == Pair(staging, retired)
           w == ObserveAll(seen)
<1>3. /\ GoodSlot(active) /\ GoodSlot(staging) /\ GoodSlot(retired)
      /\ Balanced(gpu, Owned(active, staging, retired))
  BY DEF GpuInv, SlotsOK
<1>4. /\ IsFiniteSet(D) /\ D \subseteq Pages /\ active.pages \in [D -> PageSlots]
      /\ rest \in Shares /\ Balanced(gpu, PlusAll(rest, active.pages, D))
  BY <1>3, SlotTypes, OwnedSplit
<1> HIDE DEF rest
<1>5. w.pages \in [D -> PageSlots] /\ Balanced(w.gpu, PlusAll(rest, w.pages, D))
  BY <1>4, ObserveAllBalanced
<1>6. active' = [active EXCEPT !.pages = w.pages] /\ gpu' = w.gpu
  BY <1>2
<1> HIDE DEF w, D
<1>7. DOMAIN w.pages = D /\ w.pages \in Maps
  BY <1>4, <1>5 DEF Maps
<1>8. active'.pages = w.pages /\ GoodSlot(active')
  <2>1. active' \in [gen : Nat, rev : Nat, pages : Maps, left : Seq(Pages),
                    warming : BOOLEAN, grows : BOOLEAN]
    BY <1>3, <1>6, <1>7 DEF GoodSlot
  <2>2. active'.pages = w.pages /\ active'.left = active.left /\ active'.gen = active.gen
    BY <1>3, <1>6 DEF GoodSlot
  <2>3. QED
    BY <1>3, <1>4, <1>7, <2>1, <2>2 DEF GoodSlot, D
<1>9. Owned(active', staging, retired) = PlusAll(rest, w.pages, D)
  BY <1>3, <1>7, <1>8, OwnedSplit DEF rest
<1>10. "post" \notin {"stage", "upload", "grow", "texture", "swap", "down"}
       /\ "drain" \notin {"stage", "upload", "grow", "texture", "swap", "down"}
       /\ "post" \in Phases /\ "drain" \in Phases
  BY DEF Phases
<1>11. QED
  BY <1>1, <1>5, <1>6, <1>8, <1>9, <1>10, Assemble DEF GpuInv, SlotsOK

\* What is deferred and not refused is deleted.
LEMMA NothingDeferred ==
    ASSUME NEW g, NEW out, Balanced(g, out), refusing = {}
    PROVE  \A r \in DrainAll(g).late : DrainAll(g).refs[r] # 0
<1> DEFINE k == DrainMaterials(DrainPages(g))
<1>1. Balanced(k, out)
  BY DrainPagesBalanced, DrainMaterialsBalanced
<1>2. DrainAll(g) = DrainDeletes(k)
  BY DEF DrainAll
<1> HIDE DEF k
<1>3. k \in GpuStates
  BY <1>1 DEF Balanced, BalancedBut
<1>4. /\ DrainDeletes(k).late = k.late \ {r \in k.late : k.refs[r] = 0 /\ r[1] \notin refusing}
      /\ DrainDeletes(k).refs = k.refs
  BY <1>3 DEF DrainDeletes, GpuStates
<1>5. QED
  BY <1>2, <1>4

\* What a teardown leaves: the queues, and nothing when nothing is refused.
LEMMA TeardownStep ==
    ASSUME GpuInv, Teardown
    PROVE  /\ GpuInv'
           /\ refusing = {} =>
                /\ gpu'.loaded = {} /\ gpu'.latePages = <<>> /\ gpu'.lateMaterials = <<>>
                /\ \A r \in Resources : gpu'.refs[r] = 0
<1>1. /\ rpc' = "down" /\ active' = NoSlot /\ staging' = NoSlot /\ retired' = NoSlot
      /\ pendingSnapshot' = NoSnapshot /\ UNCHANGED <<published, refusing, refusals>>
      /\ gpu' = DrainAll(DestroySlot(DestroySlot(DestroySlot(gpu, retired), staging), active))
  BY DEF Teardown, DriverFrame, driverVars
<1> DEFINE f == DestroySlot(gpu, retired)
           g == DestroySlot(f, staging)
           h == DestroySlot(g, active)
           none == Owned(NoSlot, NoSlot, NoSlot)
<1>2. GoodSlot(active) /\ GoodSlot(staging) /\ GoodSlot(retired) /\ GoodSlot(NoSlot)
      /\ Unseen(NoSlot) /\ Balanced(gpu, Owned(active, staging, retired))
  BY NoSlotHoldsNothing DEF GpuInv, SlotsOK
<1>3. Balanced(f, Owned(active, staging, NoSlot))
  BY <1>2, DestroyRetired
<1> HIDE DEF f
<1>4. Balanced(g, Owned(active, NoSlot, NoSlot))
  BY <1>2, <1>3, DestroyStaging
<1> HIDE DEF g
<1>5. Balanced(h, none)
  BY <1>2, <1>4, DestroyActive
<1>6. gpu' = DrainAll(h)
  BY <1>1 DEF f, g
<1> HIDE DEF h
<1>7. /\ Balanced(gpu', none)
      /\ refusing = {} => gpu'.latePages = <<>> /\ gpu'.lateMaterials = <<>>
                          /\ \A r \in gpu'.late : gpu'.refs[r] # 0
  BY <1>5, <1>6, DrainAllBalanced, NothingDeferred
<1>8. GpuInv'
  <2>1. GoodSnapshot(NoSnapshot)
    BY DEF GoodSnapshot, NoSnapshot
  <2>2. QED
    BY <1>1, <1>2, <1>7, <2>1, Assemble DEF GpuInv
<1>9. ASSUME refusing = {}
      PROVE  /\ gpu'.loaded = {} /\ gpu'.latePages = <<>> /\ gpu'.lateMaterials = <<>>
             /\ \A r \in Resources : gpu'.refs[r] = 0
  <2> DEFINE k == gpu'
  <2>1. /\ Balanced(k, none) /\ k.latePages = <<>> /\ k.lateMaterials = <<>>
        /\ \A r \in k.late : k.refs[r] # 0
    BY <1>7, <1>9
  <2> HIDE DEF k
  <2>2. DOMAIN NoSlot.pages = {} /\ DOMAIN <<>> = {}
    BY DEF NoSlot
  <2>3. \A r : HoldersAmong(NoSlot.pages, r) = 0 /\ HoldersAmong(k.latePages, r) = 0
    BY <2>1, <2>2, AmongNone DEF HoldersAmong, Among
  <2>4. ASSUME NEW r PROVE Unbound(k, r) = 0
    <3>1. {i \in DOMAIN k.lateMaterials : k.lateMaterials[i] = r} = {}
      BY <2>1, <2>2
    <3>2. QED
      BY <3>1, FS_EmptySet DEF Unbound
  <2>5. \A r \in Resources : none[r] = 0
    BY <2>3 DEF Owned
  <2> HIDE DEF none
  <2>6. \A r \in Resources : k.refs[r] = 0
    BY <2>1, <2>3, <2>4, <2>5 DEF Balanced, BalancedBut
  <2>7. k.loaded = {}
    BY <2>1, <2>6 DEF Balanced, BalancedBut, GpuStates
  <2>8. QED
    BY <2>1, <2>6, <2>7 DEF k
<1>10. QED
  BY <1>8, <1>9

\* The workers queue snapshots that there are; the driver changes its mind.
LEMMA PublishStep ==
    ASSUME GpuInv, Publish PROVE GpuInv'
<1>1. PICK gen \in {published.gen, published.gen + 1}, initial \in BOOLEAN :
         LET more == gen = published.gen
             rev == IF more THEN published.rev + 1 ELSE 1
         IN /\ gen \in DOMAIN Snapshots /\ rev \in DOMAIN Snapshots[gen]
            /\ more => initial = published.initial
            /\ published' = [gen |-> gen, rev |-> rev, initial |-> initial]
  BY DEF Publish
<1>2. published.gen \in Nat /\ published.rev \in Nat
  BY DEF GpuInv, GoodSnapshot
<1>3. GoodSnapshot(published')
  BY <1>1, <1>2 DEF GoodSnapshot
<1>4. pendingSnapshot' = published' /\ UNCHANGED <<rpc, active, staging, retired, gpu, refusing, refusals>>
  BY DEF Publish, slotVars, driverVars
<1>5. QED
  BY <1>3, <1>4, Assemble DEF GpuInv, SlotsOK

\* The driver refuses calls, or takes them again.
LEMMA DriverStep ==
    ASSUME GpuInv, Refuse \/ Relent PROVE GpuInv'
<1>1. UNCHANGED <<rpc, active, staging, retired, pendingSnapshot, published, gpu>>
  BY DEF Refuse, Relent, slotVars
<1>2. refusing' \in SUBSET Kinds
  BY DEF Refuse, Relent
<1>3. refusals' \in 0..MaxRefusals
  <2>1. refusals \in 0..MaxRefusals /\ MaxRefusals \in Nat
    BY ConstantsAssumption DEF GpuInv
  <2>2. QED
    BY <2>1 DEF Refuse, Relent
<1>4. QED
  BY <1>1, <1>2, <1>3, Assemble DEF GpuInv, SlotsOK

\* No step disturbs the invariant.
LEMMA GpuInvStep ==
    ASSUME GpuInv, [Next]_vars PROVE GpuInv'
<1>1. CASE UNCHANGED vars
  BY <1>1, Assemble DEF vars, slotVars, driverVars, GpuInv, SlotsOK
<1>2. CASE Next
  BY <1>2, DrainStep, AdoptStep, StageStep, UploadStagingStep, GrowStep, ApplyTextureStep,
     SwapStep, ResidencyStep, PostRenderStep, TeardownStep, PublishStep, DriverStep
     DEF Next, RenderStep
<1>3. QED
  BY <1>1, <1>2

\* The invariant holds from the first frame to the teardown.
THEOREM GpuInvHolds == Spec => []GpuInv
<1>1. Init => GpuInv
  BY GpuInvInit
<1>2. GpuInv /\ [Next]_vars => GpuInv'
  BY GpuInvStep
<1>3. QED
  BY <1>1, <1>2, PTL DEF Spec

-----------------------------------------------------------------------------
(***************************************************************************)
(* What the renderer promises.                                             *)
(***************************************************************************)
\* What the balance counts is what holds a resource.
LEMMA HoldersCounted ==
    ASSUME GpuInv, NEW r \in Resources
    PROVE  Holders(r) = gpu.refs[r] /\ gpu.refs[r] \in Nat
<1>1. gpu.refs[r] = Owned(active, staging, retired)[r] + HoldersAmong(gpu.latePages, r)
                      + Unbound(gpu, r)
  BY DEF GpuInv, Balanced, BalancedBut
<1>2. gpu \in GpuStates /\ gpu.refs[r] \in Nat
  BY DEF GpuInv, Balanced, BalancedBut, GpuStates
<1>3. QED
  BY <1>1, <1>2 DEF Holders, Owned

\* However pages are evicted, brought back, refined, swapped and destroyed, and
\* whatever call of it fails, the reference counts are those of the holders:
\* for every number of pages, levels and generations.
THEOREM CountsAreExact == Spec => []CountsMatchHolders
<1>1. GpuInv => CountsMatchHolders
  <2> SUFFICES ASSUME GpuInv PROVE CountsMatchHolders
    OBVIOUS
  <2>1. gpu \in GpuStates /\ gpu.late \subseteq gpu.loaded
    BY DEF GpuInv, Balanced, BalancedBut
  <2>2. \A slot \in {active, staging, retired} : GoodSlot(slot)
    BY DEF GpuInv, SlotsOK
  <2>3. \A slot \in {active, staging, retired} :
          /\ DOMAIN slot.pages \subseteq Pages
          /\ ToSet(slot.left) \subseteq Pages \ DOMAIN slot.pages
          /\ \A k \in DOMAIN slot.pages : slot.pages[k] \in PageSlots
    <3> TAKE slot \in {active, staging, retired}
    <3>1. GoodSlot(slot)
      BY <2>2
    <3>2. /\ DOMAIN slot.pages \subseteq Pages /\ slot.left \in Seq(Pages)
          /\ \A k \in DOMAIN slot.pages : slot.pages[k] \in PageSlots
      BY <3>1, SlotTypes
    <3>3. ToSet(slot.left) \subseteq Pages \ DOMAIN slot.pages
      BY <3>1, <3>2 DEF GoodSlot, ToSet
    <3>4. QED
      BY <3>2, <3>3
  <2>4. /\ gpu.loaded \subseteq Resources /\ gpu.refs \in [Resources -> Nat]
        /\ gpu.latePages \in Seq(PageSlots) /\ gpu.lateMaterials \in Seq(Textures)
    BY <2>1 DEF GpuStates
  <2>5. TypeOK
    BY <2>1, <2>3, <2>4 DEF TypeOK, GpuInv
  <2>6. QED
    BY <2>5, HoldersCounted DEF CountsMatchHolders
<1>2. QED
  BY <1>1, GpuInvHolds, PTL

\* Nothing that anybody holds is deleted, and nothing that nobody holds is
\* forgotten in the engine.
THEOREM NothingIsDeletedOrLeaks == Spec => []LoadedWhileHeld
<1>1. GpuInv => LoadedWhileHeld
  <2> SUFFICES ASSUME GpuInv PROVE LoadedWhileHeld
    OBVIOUS
  <2>1. /\ gpu.loaded \subseteq Resources
        /\ \A r \in Resources : gpu.refs[r] > 0 => r \in gpu.loaded
        /\ \A r \in gpu.loaded : gpu.refs[r] = 0 => r \in gpu.late
    BY DEF GpuInv, Balanced, BalancedBut, GpuStates
  <2>2. HeldIsLoaded
    BY <2>1, HoldersCounted DEF HeldIsLoaded
  <2>3. NothingLeaks
    <3>1. \A r \in gpu.loaded : gpu.refs[r] > 0 \/ gpu.refs[r] = 0
      BY <2>1, HoldersCounted
    <3>2. QED
      BY <2>1, <3>1, HoldersCounted DEF NothingLeaks
  <2>4. QED
    BY <2>2, <2>3 DEF LoadedWhileHeld
<1>2. QED
  BY <1>1, GpuInvHolds, PTL

\* Neither the replacement nor the replaced terrain is ever on screen beside
\* the visible one, nor a page that waits for its destruction.
THEOREM PlacesAreShownOnce == Spec => []ShownOnce
<1>1. GpuInv => ShownOnce
  BY DEF GpuInv, Unseen, Balanced, BalancedBut, ShownOnce
<1>2. QED
  BY <1>1, GpuInvHolds, PTL

\* A teardown the driver does not obstruct empties the engine, with whatever
\* had been deferred until then.
THEOREM TeardownLeavesNothing == Spec => TeardownReleases
<1> DEFINE Released == rpc' = "down" /\ refusing = {} =>
              /\ gpu'.loaded = {} /\ gpu'.latePages = <<>> /\ gpu'.lateMaterials = <<>>
              /\ \A r \in Resources : gpu'.refs[r] = 0
<1>1. ASSUME GpuInv, Next, rpc' = "down" PROVE Teardown
  <2>1. ~RenderStep
    BY <1>1 DEF RenderStep, Drain, Adopt, Stage, UploadStaging, Grow, ApplyTexture, Swap,
       Residency, PostRender, Turn
  <2>2. ~Publish /\ ~Refuse /\ ~Relent
    BY <1>1 DEF Publish, Refuse, Relent
  <2>3. QED
    BY <1>1, <2>1, <2>2 DEF Next
<1>2. GpuInv /\ [Next]_vars => [Released]_vars
  BY <1>1, TeardownStep
<1>3. QED
  BY <1>2, GpuInvHolds, PTL DEF Spec, TeardownReleases

===============================================================================
