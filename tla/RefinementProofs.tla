-------------------------- MODULE RefinementProofs --------------------------
(***************************************************************************)
(* Proofs about TextureRefinement, for every set of pages, every number of *)
(* levels and every bound.                                                 *)
(*                                                                         *)
(* The generations the threads work on are ordered (InOrder); a            *)
(* replacement is at least as fine as what it replaces (ReplacementFiner); *)
(* and what a request, the worker or a snapshot takes for refined is on    *)
(* screen or on its way there (Conserved).                                 *)
(***************************************************************************)
EXTENDS TextureRefinement, FiniteSetTheorems, TLAPS

-----------------------------------------------------------------------------
(***************************************************************************)
(* Type correctness.                                                       *)
(***************************************************************************)
\* The finer of two levels of every page.
LEMMA FinerTypes ==
    ASSUME NEW d \in Details, NEW e \in Details
    PROVE  /\ Finer(d, e) \in Details
           /\ \A p \in Pages : /\ Finer(d, e)[p] = IF d[p] > e[p] THEN d[p] ELSE e[p]
                               /\ Finer(d, e)[p] >= d[p] /\ Finer(d, e)[p] >= e[p]
<1>1. Finer(d, e) = [p \in Pages |-> IF d[p] > e[p] THEN d[p] ELSE e[p]]
  BY DEF Finer
<1>2. \A p \in Pages : d[p] \in 0..Target /\ e[p] \in 0..Target
  BY DEF Details
<1>3. QED
  BY <1>1, <1>2, ConstantsAssumption DEF Details

\* Without any level.
LEMMA CoarseTypes == /\ Coarse \in Details /\ \A p \in Pages : Coarse[p] = 0
                     /\ NoTerrain \in Terrain /\ NoUpdate \in Updates /\ NoSlot \in Slots
BY ConstantsAssumption DEF Coarse, Details, NoTerrain, NoUpdate, NoSlot, Terrain, Updates, Slots

\* A batch with its level is a picture.
LEMMA AtLevelTypes ==
    ASSUME TypeOK, NEW S
    PROVE  AtLevel(S) \in Details
BY ConstantsAssumption DEF TypeOK, AtLevel, Details

\* MergePendingTexture keeps updates updates.
LEMMA MergedTypes ==
    ASSUME TypeOK, NEW u \in Updates
    PROVE  Merged(u) \in Updates
<1>1. u.detail \in Details /\ pendingTexture.detail \in Details
  BY DEF TypeOK, Updates, Terrain
<1>2. Finer(u.detail, pendingTexture.detail) \in Details
  BY <1>1, FinerTypes
<1>3. [u EXCEPT !.detail = Finer(u.detail, pendingTexture.detail)] \in Updates
  BY <1>2 DEF Updates, Terrain
<1>4. QED
  BY <1>3 DEF Merged, TypeOK

\* Textures of an update that are taken over leave a slot a slot.
LEMMA AppliedTypes ==
    ASSUME TypeOK, NEW slot \in Slots, NEW S, NEW refused
    PROVE  /\ Applied(slot, S, refused) \in Slots
           /\ Applied(slot, S, refused).gen = slot.gen
           /\ Applied(slot, S, refused).left = slot.left
           /\ \A p \in Pages :
                 /\ Applied(slot, S, refused).detail[p] >= slot.detail[p]
                 /\ p \in S \ refused =>
                       Applied(slot, S, refused).detail[p] >= pendingTexture.detail[p]
<1> DEFINE taken == [p \in Pages |-> IF p \in S \ refused THEN pendingTexture.detail[p] ELSE 0]
<1>1. taken \in Details /\ slot.detail \in Details
  BY ConstantsAssumption DEF TypeOK, Updates, Terrain, Details, Slots
<1>2. /\ Finer(slot.detail, taken) \in Details
      /\ \A p \in Pages : /\ Finer(slot.detail, taken)[p] >= slot.detail[p]
                          /\ Finer(slot.detail, taken)[p] >= taken[p]
  BY <1>1, FinerTypes
<1>3. Applied(slot, S, refused) = [slot EXCEPT !.detail = Finer(slot.detail, taken)]
  BY DEF Applied
<1> HIDE DEF taken
<1>4. \A p \in S \ refused : p \in Pages => taken[p] = pendingTexture.detail[p]
  BY DEF taken
<1>5. QED
  BY <1>2, <1>3, <1>4 DEF Slots

\* So do the textures a new page takes over from the visible one.
LEMMA CreatedTypes ==
    ASSUME TypeOK, NEW S
    PROVE  /\ Created(S) \in Details
           /\ \A p \in Pages : /\ Created(S)[p] >= staging.detail[p]
                               /\ p \in S => Created(S)[p] >= active.detail[p]
                               /\ p \notin S => Created(S)[p] = staging.detail[p]
<1>1. /\ \A p \in Pages : active.detail[p] \in 0..Target /\ staging.detail[p] \in 0..Target
  BY DEF TypeOK, Slots, Details
<1>2. QED
  BY <1>1, ConstantsAssumption DEF Created, Details

\* How many textures are refused.
LEMMA RefusedCount ==
    ASSUME NEW refused \in SUBSET Pages
    PROVE  Cardinality(refused) \in Nat /\ (Cardinality(refused) = 0 => refused = {})
<1>1. IsFiniteSet(refused)
  BY ConstantsAssumption, FS_Subset
<1>2. QED
  BY <1>1, FS_CardinalityType, FS_EmptySet

\* The threads around the refinement worker.
LEMMA VisualTypes == TypeOK /\ (Recenter \/ Publish \/ HandOver) => TypeOK'
<1> SUFFICES ASSUME TypeOK, Recenter \/ Publish \/ HandOver PROVE TypeOK'
  OBVIOUS
<1> USE ConstantsAssumption, CoarseTypes
<1>1. CASE Recenter
  BY <1>1 DEF TypeOK, Recenter, workVars, slotVars
<1>2. CASE Publish
  <2>1. published' \in Terrain
    BY <1>2 DEF Publish, TypeOK, Terrain
  <2>2. QED
    BY <1>2, <2>1 DEF TypeOK, Publish, workVars, slotVars
<1>3. CASE HandOver
  <2>1. handed' \in 0..MaxGenerations
    BY <1>3 DEF HandOver, TypeOK, Terrain
  <2>2. QED
    BY <1>3, <2>1 DEF TypeOK, HandOver, workVars, slotVars
<1>4. QED
  BY <1>1, <1>2, <1>3

\* The refinement worker.
LEMMA RefineTypes == TypeOK /\ RefineStep => TypeOK'
<1> SUFFICES ASSUME TypeOK, RefineStep PROVE TypeOK'
  OBVIOUS
<1> USE ConstantsAssumption, CoarseTypes
<1>1. CASE Take
  BY <1>1 DEF TypeOK, Take, WorkFrame, visualVars, slotVars
<1>2. CASE NextLevel
  BY <1>2 DEF TypeOK, NextLevel, Candidates, WorkFrame, visualVars, slotVars
<1>3. CASE BuildBatch
  <2>1. todo' \subseteq Pages /\ update' \subseteq Pages
    BY <1>3 DEF BuildBatch, TypeOK
  <2>2. outages' \in 0..MaxOutages
    BY <1>3 DEF BuildBatch, TypeOK
  <2>3. QED
    BY <1>3, <2>1, <2>2 DEF TypeOK, BuildBatch, WorkFrame, visualVars, slotVars
<1>4. CASE KeepBatch
  BY <1>4 DEF TypeOK, KeepBatch, WorkFrame, visualVars, slotVars
<1>5. CASE ApplyBatch
  <2>1. AtLevel(update) \in Details /\ job.detail \in Details /\ final \in Details
    BY AtLevelTypes DEF TypeOK, Terrain
  <2>2. Finer(job.detail, AtLevel(update)) \in Details /\ Finer(final, AtLevel(update)) \in Details
    BY <2>1, FinerTypes
  <2>3. job' \in Terrain /\ final' \in Details
    BY <1>5, <2>1, <2>2 DEF ApplyBatch, TypeOK, Terrain
  <2>4. [gen |-> job.gen, detail |-> AtLevel(update)] \in Updates
    BY <2>1 DEF TypeOK, Terrain, Updates
  <2>5. pendingTexture' \in Updates
    BY <1>5, <2>4, MergedTypes DEF ApplyBatch, TypeOK
  <2>6. QED
    BY <1>5, <2>3, <2>5 DEF TypeOK, ApplyBatch, WorkFrame, visualVars, slotVars
<1>6. CASE Preempted
  BY <1>6 DEF TypeOK, Preempted, WorkFrame, visualVars, slotVars
<1>7. CASE EndLevels
  <2>1. [gen |-> job.gen, detail |-> final] \in Updates
    BY DEF TypeOK, Terrain, Updates
  <2>2. pendingTexture' \in Updates
    BY <1>7, <2>1, MergedTypes DEF EndLevels
  <2>3. QED
    BY <1>7, <2>2 DEF TypeOK, EndLevels, WorkFrame, visualVars, slotVars
<1>8. CASE Retry
  BY <1>8 DEF TypeOK, Retry, WorkFrame, visualVars, slotVars
<1>9. QED
  BY <1>1, <1>2, <1>3, <1>4, <1>5, <1>6, <1>7, <1>8 DEF RefineStep

\* The render thread.
LEMMA RenderTypes == TypeOK /\ RenderStep => TypeOK'
<1> SUFFICES ASSUME TypeOK, RenderStep PROVE TypeOK'
  OBVIOUS
<1> USE ConstantsAssumption, CoarseTypes
<1>1. CASE Stage
  <2>1. [gen |-> pendingSnapshot.gen, detail |-> pendingSnapshot.detail,
         left |-> Pages, warm |-> TRUE] \in Slots
    BY DEF TypeOK, Terrain, Slots
  <2>2. staging' \in Slots /\ pendingSnapshot' \in Terrain
    BY <1>1, <2>1 DEF Stage, TypeOK
  <2>3. QED
    BY <1>1, <2>2 DEF TypeOK, Stage, Turn, RenderFrame, visualVars, workVars
<1>2. CASE Upload
  <2>1. staging' \in Slots
    <3>1. CASE staging.left = {}
      BY <1>2, <3>1 DEF Upload, TypeOK
    <3>2. CASE staging.left # {}
      <4>1. PICK S \in SUBSET staging.left \ {{}} :
               staging' = [staging EXCEPT !.detail = Created(S), !.left = @ \ S]
        BY <1>2, <3>2 DEF Upload
      <4>2. Created(S) \in Details
        BY CreatedTypes
      <4>3. QED
        BY <4>1, <4>2 DEF TypeOK, Slots
    <3>3. QED
      BY <3>1, <3>2
  <2>2. QED
    BY <1>2, <2>1 DEF TypeOK, Upload, Turn, RenderFrame, visualVars, workVars
<1>3. CASE ApplyTexture
  <2>1. CASE pendingTexture = NoUpdate \/ staging.left # {}
    BY <1>3, <2>1 DEF TypeOK, ApplyTexture, Turn, RenderFrame, visualVars, workVars, slotVars
  <2>2. CASE ~(pendingTexture = NoUpdate \/ staging.left # {})
    <3> DEFINE to == Receiver(pendingTexture.gen)
               Rest(S) == [p \in Pages |-> IF p \in S THEN 0 ELSE pendingTexture.detail[p]]
    <3>1. PICK S \in SUBSET InUpdate(pendingTexture) \ {{}}, refused \in SUBSET Pages :
            /\ rejects + Cardinality(refused) <= MaxRejects
            /\ rejects' = rejects + Cardinality(refused)
            /\ active' = IF to = "active" THEN Applied(active, S, refused) ELSE active
            /\ staging' = IF to = "staging" THEN Applied(staging, S, refused) ELSE staging
            /\ deferred' = [gen |-> IF to = "staging" THEN staging.gen ELSE pendingTexture.gen,
                            detail |-> Rest(S)]
            /\ pendingTexture' = NoUpdate
      BY <1>3, <2>2 DEF ApplyTexture
    <3> HIDE DEF to
    <3>2. active' \in Slots /\ staging' \in Slots
      BY <3>1, AppliedTypes DEF TypeOK
    <3>3. rejects' \in 0..MaxRejects
      BY <3>1, RefusedCount DEF TypeOK
    <3>4. Rest(S) \in Details
      BY DEF TypeOK, Updates, Terrain, Details
    <3>5. deferred' \in Updates
      BY <3>1, <3>4 DEF TypeOK, Slots, Updates, Terrain
    <3>6. QED
      BY <1>3, <3>1, <3>2, <3>3, <3>5
         DEF TypeOK, ApplyTexture, Turn, RenderFrame, visualVars, workVars
  <2>3. QED
    BY <2>1, <2>2
<1>4. CASE Defer
  <2>1. pendingTexture' \in Updates
    BY <1>4, MergedTypes DEF Defer, TypeOK
  <2>2. QED
    BY <1>4, <2>1 DEF TypeOK, Defer, Turn, RenderFrame, visualVars, workVars, slotVars
<1>5. CASE Swap
  <2>1. staging' \in Slots /\ active' \in Slots
    BY <1>5 DEF Swap, TypeOK, Slots, slotVars
  <2>2. QED
    BY <1>5, <2>1 DEF TypeOK, Swap, Turn, RenderFrame, visualVars, workVars
<1>6. QED
  BY <1>1, <1>2, <1>3, <1>4, <1>5 DEF RenderStep

\* Every action of the system.
LEMMA TypeStep == TypeOK /\ [Next]_vars => TypeOK'
<1> SUFFICES ASSUME TypeOK, [Next]_vars PROVE TypeOK'
  OBVIOUS
<1>1. CASE UNCHANGED vars
  BY <1>1 DEF TypeOK, vars, visualVars, workVars, slotVars
<1>2. QED
  BY <1>1, VisualTypes, RefineTypes, RenderTypes DEF Next, VisualStep

\* The types hold at the start.
LEMMA TypeInit == Init => TypeOK
BY CoarseTypes, ConstantsAssumption DEF Init, TypeOK

\* Levels, generations and places in the code keep their ranges
\* (TerrainRuntime.cc:478-668, GzTerrainRenderer.cc:862-985).
THEOREM TypeCorrect == Spec => []TypeOK
<1>1. QED
  BY TypeInit, TypeStep, PTL DEF Spec

-----------------------------------------------------------------------------
(***************************************************************************)
(* The order of the generations.                                           *)
(***************************************************************************)
\* A generation is handed over once it is visible, and staged once published.
Handing ==
    /\ request.gen <= handed /\ job.gen <= handed /\ handed <= active.gen
    /\ active.gen <= published.gen /\ published.gen <= latest
    /\ request.gen = 0 => request = NoTerrain

Replacing ==
    /\ pendingSnapshot = NoTerrain \/ pendingSnapshot = published
    /\ staging = NoSlot \/ (staging.gen > active.gen /\ staging.gen <= published.gen)

\* Updates have a generation, and none of the future.
Updating ==
    /\ pendingTexture.gen <= latest /\ deferred.gen <= latest
    /\ pendingTexture.gen = 0 => pendingTexture = NoUpdate
    /\ deferred.gen = 0 => deferred = NoUpdate
    /\ rpc # "defer" => deferred = NoUpdate
    /\ wpc # "idle" => job.gen > 0
    /\ wpc \in {"idle", "backoff"} => final = Coarse

InOrder == Handing /\ Replacing /\ Updating


\* MergePendingTexture takes an update of the newest generation, or none.
LEMMA MergedInOrder ==
    ASSUME TypeOK, InOrder, NEW u \in Updates, u.gen <= latest, u.gen > 0
    PROVE  /\ Merged(u).gen <= latest
           /\ Merged(u).gen = 0 => Merged(u) = NoUpdate
<1>1. Merged(u) \in {pendingTexture, u,
                     [u EXCEPT !.detail = Finer(u.detail, pendingTexture.detail)]}
  BY DEF Merged
<1>2. [u EXCEPT !.detail = Finer(u.detail, pendingTexture.detail)].gen = u.gen
  BY DEF Updates, Terrain
<1>3. Merged(u).gen = u.gen \/ Merged(u) = pendingTexture
  BY <1>1, <1>2
<1>4. u.gen \in Nat /\ latest \in Nat
  BY ConstantsAssumption DEF TypeOK, Updates, Terrain
<1>5. QED
  BY <1>3, <1>4 DEF InOrder, Updating

\* Nothing to put back leaves the queue alone.
LEMMA MergedNothing == Merged(NoUpdate) = pendingTexture
BY CoarseTypes DEF Merged, InUpdate, NoUpdate, NoTerrain

\* The visual worker publishes in order: what it hands over is newer than all
\* before.
LEMMA OrderVisual ==
    TypeOK /\ InOrder /\ (Recenter \/ Publish \/ HandOver) => InOrder'
<1> SUFFICES ASSUME TypeOK, InOrder, Recenter \/ Publish \/ HandOver PROVE InOrder'
  OBVIOUS
<1> USE ConstantsAssumption
<1>0. /\ latest \in Nat /\ handed \in Nat /\ published.gen \in Nat /\ request.gen \in Nat
      /\ job.gen \in Nat /\ active.gen \in Nat /\ staging.gen \in Nat
      /\ pendingTexture.gen \in Nat /\ deferred.gen \in Nat
  BY DEF TypeOK, Terrain, Updates, Slots
<1>1. CASE Recenter
  BY <1>0, <1>1 DEF InOrder, Handing, Replacing, Updating, Recenter, workVars, slotVars
<1>2. CASE Publish
  <2>1. published'.gen = latest
    BY <1>2 DEF Publish
  <2>2. QED
    BY <1>0, <1>2, <2>1, CoarseTypes
       DEF InOrder, Handing, Replacing, Updating, Publish, workVars, slotVars, NoUpdate, NoTerrain
<1>3. CASE HandOver
  BY <1>0, <1>3 DEF InOrder, Handing, Replacing, Updating, HandOver, workVars, slotVars
<1>4. QED
  BY <1>1, <1>2, <1>3

\* The refinement worker only follows: it never works for a generation not
\* published.
LEMMA OrderRefine == TypeOK /\ InOrder /\ RefineStep => InOrder'
<1> SUFFICES ASSUME TypeOK, InOrder, RefineStep PROVE InOrder'
  OBVIOUS
<1> USE ConstantsAssumption
<1>0. /\ latest \in Nat /\ handed \in Nat /\ published.gen \in Nat /\ request.gen \in Nat
      /\ job.gen \in Nat /\ active.gen \in Nat /\ staging.gen \in Nat
      /\ pendingTexture.gen \in Nat /\ deferred.gen \in Nat
      /\ NoTerrain.gen = 0
  BY DEF TypeOK, Terrain, Updates, Slots, NoTerrain
<1>1. WorkFrame
  BY DEF RefineStep, Take, NextLevel, BuildBatch, KeepBatch, ApplyBatch, Preempted,
         EndLevels, Retry
<1>2. UNCHANGED <<latest, published, handed, pendingSnapshot, rpc, active, staging, deferred>>
  BY <1>1 DEF WorkFrame, visualVars, slotVars
<1>3. Handing'
  <2>1. /\ request'.gen \in {0, request.gen, job.gen}
        /\ job'.gen \in {0, request.gen, job.gen}
    <3>1. CASE ApplyBatch
      BY <1>0, <3>1 DEF ApplyBatch, TypeOK, Terrain
    <3>2. CASE Take \/ NextLevel \/ BuildBatch \/ KeepBatch
      BY <1>0, <3>2 DEF Take, NextLevel, BuildBatch, KeepBatch
    <3>3. CASE Preempted \/ EndLevels \/ Retry
      BY <1>0, <3>3 DEF Preempted, EndLevels, Retry
    <3>4. QED
      BY <3>1, <3>2, <3>3 DEF RefineStep
  <2>2. QED
    <3>1. request' \in {request, NoTerrain} \/ (request' = job /\ job.gen > 0)
      BY <1>0 DEF RefineStep, Take, NextLevel, BuildBatch, KeepBatch, ApplyBatch, Preempted,
                  EndLevels, Retry, InOrder, Updating
    <3>2. QED
      BY <1>0, <1>2, <2>1, <3>1 DEF InOrder, Handing
<1>4. Replacing'
  BY <1>2 DEF InOrder, Replacing
<1>5. Updating'
  <2>1. CASE Take
    <3>1. request.gen > 0
      BY <1>0, <2>1, CoarseTypes DEF Take, InOrder, Handing, Replacing
    <3>2. QED
      BY <1>0, <1>2, <2>1, <3>1 DEF InOrder, Updating, Take
  <2>2. CASE NextLevel \/ BuildBatch \/ KeepBatch
    BY <1>0, <1>2, <2>2 DEF InOrder, Updating, NextLevel, BuildBatch, KeepBatch
  <2>3. CASE ApplyBatch
    <3>1. job.gen > 0 /\ job.gen <= latest /\ job'.gen = job.gen
      BY <1>0, <2>3 DEF ApplyBatch, InOrder, Handing, Updating, TypeOK, Terrain
    <3>2. [gen |-> job.gen, detail |-> AtLevel(update)] \in Updates
      BY AtLevelTypes DEF TypeOK, Terrain, Updates
    <3>3. pendingTexture'.gen <= latest /\ (pendingTexture'.gen = 0 => pendingTexture' = NoUpdate)
      BY <2>3, <3>1, <3>2, MergedInOrder DEF ApplyBatch, InOrder, Updating
    <3>4. QED
      BY <1>0, <1>2, <2>3, <3>1, <3>3 DEF InOrder, Updating, ApplyBatch
  <2>4. CASE Preempted \/ Retry
    BY <1>0, <1>2, <2>4 DEF InOrder, Updating, Preempted, Retry
  <2>5. CASE EndLevels
    <3>1. job.gen > 0 /\ job.gen <= latest
      BY <1>0, <2>5 DEF EndLevels, InOrder, Handing, Updating
    <3>2. [gen |-> job.gen, detail |-> final] \in Updates
      BY DEF TypeOK, Terrain, Updates
    <3>3. pendingTexture'.gen <= latest /\ (pendingTexture'.gen = 0 => pendingTexture' = NoUpdate)
      BY <2>5, <3>1, <3>2, MergedInOrder DEF EndLevels
    <3>4. QED
      BY <1>0, <1>2, <2>5, <3>1, <3>3 DEF InOrder, Updating, EndLevels
  <2>6. QED
    BY <2>1, <2>2, <2>3, <2>4, <2>5 DEF RefineStep
<1>6. QED
  BY <1>3, <1>4, <1>5 DEF InOrder

\* The render thread takes over terrains and updates in the order they came.
LEMMA OrderRender == TypeOK /\ InOrder /\ RenderStep => InOrder'
<1> SUFFICES ASSUME TypeOK, InOrder, RenderStep PROVE InOrder'
  OBVIOUS
<1> USE ConstantsAssumption
<1>0. /\ latest \in Nat /\ handed \in Nat /\ published.gen \in Nat /\ request.gen \in Nat
      /\ job.gen \in Nat /\ active.gen \in Nat /\ staging.gen \in Nat
      /\ pendingTexture.gen \in Nat /\ deferred.gen \in Nat
      /\ pendingSnapshot.gen \in Nat /\ NoTerrain.gen = 0 /\ NoSlot.gen = 0
  BY DEF TypeOK, Terrain, Updates, Slots, NoTerrain, NoSlot
<1>1. RenderFrame
  BY DEF RenderStep, Stage, Upload, ApplyTexture, Defer, Swap
<1>2. UNCHANGED <<latest, published, handed, request, wpc, job, final>>
  BY <1>1 DEF RenderFrame, visualVars, workVars
<1>3. CASE Stage
  BY <1>0, <1>2, <1>3 DEF InOrder, Handing, Replacing, Updating, Stage, Turn
<1>4. CASE Upload
  <2>1. staging' = staging \/ (staging.left # {} /\ staging'.gen = staging.gen)
    BY <1>4 DEF Upload, TypeOK, Slots
  <2>2. staging' = NoSlot \/ (staging'.gen > active.gen /\ staging'.gen <= published.gen)
    BY <1>0, <2>1 DEF InOrder, Replacing, NoSlot
  <2>3. QED
    BY <1>0, <1>2, <1>4, <2>2 DEF InOrder, Handing, Replacing, Updating, Upload, Turn
<1>5. CASE ApplyTexture
  <2>1. CASE pendingTexture = NoUpdate \/ staging.left # {}
    BY <1>0, <1>2, <1>5, <2>1
       DEF InOrder, Handing, Replacing, Updating, ApplyTexture, Turn, slotVars
  <2>2. CASE ~(pendingTexture = NoUpdate \/ staging.left # {})
    <3>1. PICK S, refused :
            /\ active' = IF Receiver(pendingTexture.gen) = "active"
                         THEN Applied(active, S, refused) ELSE active
            /\ staging' = IF Receiver(pendingTexture.gen) = "staging"
                          THEN Applied(staging, S, refused) ELSE staging
            /\ deferred'.gen = IF Receiver(pendingTexture.gen) = "staging" THEN staging.gen
                               ELSE pendingTexture.gen
            /\ pendingTexture' = NoUpdate
      BY <1>5, <2>2 DEF ApplyTexture
    <3>2. /\ Applied(active, S, refused).gen = active.gen
          /\ Applied(staging, S, refused).gen = staging.gen
      BY AppliedTypes DEF TypeOK
    <3>3. pendingTexture.gen > 0
      BY <1>0, <2>2 DEF InOrder, Updating
    <3>4. Receiver(pendingTexture.gen) = "staging" => staging # NoSlot
      BY <1>0, <3>3 DEF Receiver
    <3>5. Handing'
      BY <1>2, <3>1, <3>2 DEF InOrder, Handing
    <3>6. Replacing'
      BY <1>2, <1>5, <3>1, <3>2, <3>4 DEF InOrder, Replacing, ApplyTexture
    <3>7. deferred'.gen > 0 /\ deferred'.gen <= latest
      BY <1>0, <3>1, <3>3, <3>4 DEF InOrder, Updating, Replacing, Handing
    <3>8. Updating'
      BY <1>0, <1>2, <1>5, <3>1, <3>7 DEF InOrder, Updating, ApplyTexture, Turn, NoUpdate
    <3>9. QED
      BY <3>5, <3>6, <3>8 DEF InOrder
  <2>3. QED
    BY <2>1, <2>2
<1>6. CASE Defer
  <2>1. pendingTexture'.gen <= latest /\ (pendingTexture'.gen = 0 => pendingTexture' = NoUpdate)
    <3>1. CASE deferred.gen > 0
      BY <1>6, <3>1, MergedInOrder DEF Defer, InOrder, Updating, TypeOK
    <3>2. CASE deferred.gen = 0
      BY <1>6, <3>2, MergedNothing DEF Defer, InOrder, Updating
    <3>3. QED
      BY <1>0, <3>1, <3>2
  <2>2. QED
    BY <1>0, <1>2, <1>6, <2>1
       DEF InOrder, Handing, Replacing, Updating, Defer, Turn, slotVars, NoUpdate
<1>7. CASE Swap
  <2>1. \/ UNCHANGED <<active, staging>>
        \/ UNCHANGED active /\ staging # NoSlot /\ staging'.gen = staging.gen
        \/ staging # NoSlot /\ active' = staging /\ staging' = NoSlot
    BY <1>7 DEF Swap, slotVars, TypeOK, Slots
  <2>2. Handing' /\ Replacing'
    BY <1>0, <1>2, <1>7, <2>1 DEF InOrder, Handing, Replacing, Swap
  <2>3. Updating'
    BY <1>0, <1>2, <1>7 DEF InOrder, Updating, Swap, Turn
  <2>4. QED
    BY <2>2, <2>3 DEF InOrder
<1>8. QED
  BY <1>3, <1>4, <1>5, <1>6, <1>7 DEF RenderStep

\* The order is preserved by every step.
LEMMA OrderStep == TypeOK /\ InOrder /\ [Next]_vars => InOrder'
<1> SUFFICES ASSUME TypeOK, InOrder, [Next]_vars PROVE InOrder'
  OBVIOUS
<1>1. CASE UNCHANGED vars
  BY <1>1 DEF InOrder, Handing, Replacing, Updating, vars, visualVars, workVars, slotVars
<1>2. QED
  BY <1>1, OrderVisual, OrderRefine, OrderRender DEF Next, VisualStep

\* The order holds at the start.
LEMMA OrderInit == Init => InOrder
BY ConstantsAssumption
   DEF Init, InOrder, Handing, Replacing, Updating, NoTerrain, NoUpdate, NoSlot

-----------------------------------------------------------------------------
(***************************************************************************)
(* Detail.                                                                 *)
(***************************************************************************)
\* A replacement has at least the detail of what it replaces, where it is uploaded.
ReplacementFiner ==
    staging # NoSlot =>
        \A p \in Pages \ staging.left : staging.detail[p] >= active.detail[p]

\* The snapshot of the visual worker, once uploaded, is on screen or staged.
SnapshotArrives ==
    /\ published.gen = active.gen =>
          \A p \in Pages : published.detail[p] <= active.detail[p]
    /\ published.gen = staging.gen =>
          \A p \in Pages : published.detail[p] <= staging.detail[p]

\* A level of a page is on screen or on its way there.
Arriving(p, l) ==
    \/ l <= active.detail[p]
    \/ pendingTexture.gen = latest /\ l <= pendingTexture.detail[p]
    \/ deferred.gen = latest /\ l <= deferred.detail[p]

\* What a request for the terrain on screen takes for refined; the worker may
\* have collected it.
RequestArrives ==
    request.gen # 0 /\ request.gen = latest /\ active.gen = latest /\ rejects = 0 =>
        \A p \in Pages : Arriving(p, request.detail[p])

JobArrives ==
    job.gen # 0 /\ job.gen = latest /\ active.gen = latest /\ rejects = 0 =>
        \A p \in Pages : Arriving(p, job.detail[p]) \/ job.detail[p] <= final[p]

Conserved == SnapshotArrives /\ RequestArrives /\ JobArrives

\* The replacement and the visible terrain while a part of an update goes to one of
\* them, and what of it is left for the next frame.
LEMMA ApplyDetail ==
    ASSUME TypeOK, InOrder, ApplyTexture
    PROVE  \/ UNCHANGED <<active, staging, pendingTexture, deferred, rejects>>
           \/ /\ staging.left = {} /\ pendingTexture' = NoUpdate
              /\ active'.gen = active.gen /\ staging'.gen = staging.gen
              /\ \/ active' = active /\ staging # NoSlot /\ staging'.left = {}
                    /\ \A p \in Pages : staging'.detail[p] >= staging.detail[p]
                 \/ staging' = staging /\ staging = NoSlot
                    /\ \A p \in Pages : active'.detail[p] >= active.detail[p]
                 \/ active' = active /\ staging' = staging
              /\ active.gen = latest /\ pendingTexture.gen = latest /\ rejects' = 0 =>
                    /\ deferred'.gen = latest
                    /\ \A p \in Pages : \/ pendingTexture.detail[p] <= active'.detail[p]
                                        \/ pendingTexture.detail[p] <= deferred'.detail[p]
<1> USE ConstantsAssumption
<1>0. /\ latest \in Nat /\ active.gen \in Nat /\ staging.gen \in Nat
      /\ pendingTexture.gen \in Nat /\ rejects \in Nat /\ NoSlot.gen = 0
      /\ \A p \in Pages : /\ pendingTexture.detail[p] \in Nat
                          /\ active.detail[p] \in Nat /\ staging.detail[p] \in Nat
  BY DEF TypeOK, Terrain, Updates, Slots, NoSlot, Details
<1>1. CASE pendingTexture = NoUpdate \/ staging.left # {}
  BY <1>1 DEF ApplyTexture, slotVars
<1>2. CASE ~(pendingTexture = NoUpdate \/ staging.left # {})
  <2> DEFINE to == Receiver(pendingTexture.gen)
  <2>1. PICK S \in SUBSET InUpdate(pendingTexture) \ {{}}, refused \in SUBSET Pages :
          /\ rejects' = rejects + Cardinality(refused)
          /\ active' = IF to = "active" THEN Applied(active, S, refused) ELSE active
          /\ staging' = IF to = "staging" THEN Applied(staging, S, refused) ELSE staging
          /\ deferred' = [gen |-> IF to = "staging" THEN staging.gen ELSE pendingTexture.gen,
                          detail |-> [p \in Pages |-> IF p \in S THEN 0
                                                      ELSE pendingTexture.detail[p]]]
          /\ pendingTexture' = NoUpdate
    BY <1>2 DEF ApplyTexture
  <2>2. pendingTexture.gen > 0
    BY <1>0, <1>2 DEF InOrder, Updating
  <2>3. to \in {"staging", "active", "nobody"}
    BY DEF Receiver
  <2>4. to = "staging" => staging # NoSlot
    BY <1>0, <2>2 DEF Receiver
  <2>5. to = "active" => staging = NoSlot
    BY DEF Receiver
  <2>6. /\ Applied(active, S, refused).gen = active.gen
        /\ Applied(staging, S, refused).gen = staging.gen
        /\ Applied(staging, S, refused).left = staging.left
        /\ \A p \in Pages :
             /\ Applied(active, S, refused).detail[p] >= active.detail[p]
             /\ Applied(staging, S, refused).detail[p] >= staging.detail[p]
             /\ p \in S \ refused =>
                   Applied(active, S, refused).detail[p] >= pendingTexture.detail[p]
             /\ Applied(active, S, refused).detail[p] \in Nat
    BY AppliedTypes DEF TypeOK, Slots, Details
  <2>7. ASSUME active.gen = latest, pendingTexture.gen = latest, rejects' = 0
        PROVE  /\ deferred'.gen = latest
               /\ \A p \in Pages : \/ pendingTexture.detail[p] <= active'.detail[p]
                                   \/ pendingTexture.detail[p] <= deferred'.detail[p]
    <3>1. refused = {}
      BY <1>0, <2>1, <2>7, RefusedCount
    <3>2. staging = NoSlot
      BY <1>0, <2>7 DEF InOrder, Handing, Replacing, TypeOK, Terrain
    <3>3. to = "active"
      BY <1>0, <2>2, <2>7, <3>2 DEF Receiver
    <3>4. ASSUME NEW p \in Pages, p \in S
          PROVE  pendingTexture.detail[p] <= active'.detail[p]
      BY <1>0, <2>1, <2>6, <3>1, <3>3, <3>4
    <3>5. ASSUME NEW p \in Pages, p \notin S
          PROVE  pendingTexture.detail[p] <= deferred'.detail[p]
      BY <1>0, <2>1, <3>5
    <3>6. deferred'.gen = latest
      BY <2>1, <2>7, <3>3
    <3>7. QED
      BY <3>4, <3>5, <3>6
  <2>8. /\ staging.left = {} /\ pendingTexture' = NoUpdate
        /\ active'.gen = active.gen /\ staging'.gen = staging.gen
    BY <1>2, <2>1, <2>6
  <2>9. CASE to = "staging"
    BY <1>2, <2>1, <2>4, <2>6, <2>7, <2>8, <2>9
  <2>10. CASE to = "active"
    BY <2>1, <2>5, <2>6, <2>7, <2>8, <2>10
  <2>11. CASE to = "nobody"
    BY <2>1, <2>7, <2>8, <2>11
  <2>12. QED
    BY <2>3, <2>9, <2>10, <2>11
<1>3. QED
  BY <1>1, <1>2

\* A replacement is staged without a page, takes the finer textures of the visible
\* terrain page by page, and receives the updates from then on.
LEMMA FinerStep ==
    TypeOK /\ InOrder /\ ReplacementFiner /\ [Next]_vars => ReplacementFiner'
<1> SUFFICES ASSUME TypeOK, InOrder, ReplacementFiner, [Next]_vars PROVE ReplacementFiner'
  OBVIOUS
<1>0. \A p \in Pages : active.detail[p] \in Nat /\ staging.detail[p] \in Nat
  BY ConstantsAssumption DEF TypeOK, Slots, Details
<1>1. CASE UNCHANGED <<active, staging>>
  BY <1>1 DEF ReplacementFiner
<1>2. CASE Stage
  BY <1>1, <1>2 DEF ReplacementFiner, Stage
<1>3. CASE Upload
  <2>1. CASE staging.left = {}
    BY <1>1, <1>3, <2>1 DEF Upload
  <2>2. CASE staging.left # {}
    <3>1. PICK S \in SUBSET staging.left \ {{}} :
             staging' = [staging EXCEPT !.detail = Created(S), !.left = @ \ S]
      BY <1>3, <2>2 DEF Upload
    <3>2. staging'.detail = Created(S) /\ staging'.left = staging.left \ S /\ active' = active
      BY <1>3, <3>1 DEF Upload, TypeOK, Slots
    <3>3. staging # NoSlot
      BY <2>2 DEF NoSlot
    <3>4. ASSUME NEW p \in Pages \ staging'.left
          PROVE  staging'.detail[p] >= active'.detail[p]
      <4>1. CASE p \in S
        BY <3>2, <4>1, CreatedTypes
      <4>2. CASE p \notin S
        BY <3>2, <3>3, <4>2, CreatedTypes DEF ReplacementFiner
      <4>3. QED
        BY <4>1, <4>2
    <3>5. QED
      BY <3>4 DEF ReplacementFiner
  <2>3. QED
    BY <2>1, <2>2
<1>4. CASE ApplyTexture
  <2>1. CASE staging' = NoSlot
    BY <2>1 DEF ReplacementFiner
  <2>2. CASE staging' # NoSlot
    <3>1. CASE staging = NoSlot
      BY <1>4, <2>2, <3>1, <1>1, ApplyDetail
    <3>2. CASE staging # NoSlot /\ active' = active /\ staging.left = {} /\ staging'.left = {}
               /\ \A p \in Pages : staging'.detail[p] >= staging.detail[p]
      <4>1. TypeOK'
        BY TypeStep
      <4>2. \A p \in Pages : staging'.detail[p] \in Nat
        BY <4>1, ConstantsAssumption DEF TypeOK, Slots, Details
      <4>3. QED
        BY <1>0, <3>2, <4>2 DEF ReplacementFiner
    <3>3. QED
      BY <1>1, <1>4, <3>1, <3>2, ApplyDetail
  <2>3. QED
    BY <2>1, <2>2
<1>5. CASE Defer
  BY <1>1, <1>5 DEF Defer, slotVars
<1>6. CASE Swap
  <2>1. CASE staging.warm
    <3>1. /\ staging'.detail = staging.detail /\ staging'.left = staging.left
          /\ staging # NoSlot /\ active' = active
       \/ UNCHANGED <<active, staging>>
      BY <1>6, <2>1 DEF Swap, slotVars, TypeOK, Slots
    <3>2. QED
      BY <1>1, <3>1 DEF ReplacementFiner
  <2>2. CASE ~staging.warm
    BY <1>1, <1>6, <2>2 DEF Swap, slotVars, ReplacementFiner
  <2>3. QED
    BY <2>1, <2>2
<1>7. CASE Recenter \/ VisualStep
  BY <1>1, <1>7 DEF Recenter, VisualStep, Publish, HandOver, slotVars
<1>8. CASE RefineStep
  BY <1>1, <1>8 DEF RefineStep, Take, NextLevel, BuildBatch, KeepBatch, ApplyBatch, Preempted,
                    EndLevels, Retry, WorkFrame, slotVars
<1>9. CASE UNCHANGED vars
  BY <1>1, <1>9 DEF vars, slotVars
<1>10. QED
  BY <1>2, <1>3, <1>4, <1>5, <1>6, <1>7, <1>8, <1>9 DEF Next, RenderStep

\* A replacement is at least as fine as what it replaces in every reachable
\* state.
LEMMA FinerHolds == Spec => [](TypeOK /\ InOrder /\ ReplacementFiner)
<1>1. Init => TypeOK /\ InOrder /\ ReplacementFiner
  BY TypeInit, OrderInit DEF Init, ReplacementFiner
<1>2. TypeOK /\ InOrder /\ ReplacementFiner /\ [Next]_vars
        => (TypeOK /\ InOrder /\ ReplacementFiner)'
  BY TypeStep, OrderStep, FinerStep
<1>3. QED
  BY <1>1, <1>2, PTL DEF Spec

\* No step takes detail from a page on screen.
LEMMA DetailStep ==
    ASSUME TypeOK, InOrder, ReplacementFiner, [Next]_vars
    PROVE  \A p \in Pages : active'.detail[p] >= active.detail[p]
<1>0. \A p \in Pages : active.detail[p] \in Nat
  BY ConstantsAssumption DEF TypeOK, Slots, Details
<1>1. CASE UNCHANGED active
  BY <1>0, <1>1
<1>2. CASE ApplyTexture
  BY <1>1, <1>2, ApplyDetail
<1>3. CASE Swap
  BY <1>1, <1>3 DEF Swap, slotVars, ReplacementFiner
<1>4. CASE Recenter \/ VisualStep
  BY <1>1, <1>4 DEF Recenter, VisualStep, Publish, HandOver, slotVars
<1>5. CASE RefineStep
  BY <1>1, <1>5 DEF RefineStep, Take, NextLevel, BuildBatch, KeepBatch, ApplyBatch, Preempted,
                    EndLevels, Retry, WorkFrame, slotVars
<1>6. CASE Stage \/ Upload \/ Defer
  BY <1>1, <1>6 DEF Stage, Upload, Defer, slotVars
<1>7. CASE UNCHANGED vars
  BY <1>1, <1>7 DEF vars, slotVars
<1>8. QED
  BY <1>2, <1>3, <1>4, <1>5, <1>6, <1>7 DEF Next, RenderStep

\* A page that stays in view never loses detail on screen: neither to a texture
\* update nor to a replacement that was built before the page was refined
\* (GzTerrainRenderer.cc:862-985, 1041-1058).
THEOREM DetailIsKept == Spec => DetailKept
<1>1. TypeOK /\ InOrder /\ ReplacementFiner /\ [Next]_vars
        => [active # NoSlot => \A p \in Pages : active'.detail[p] >= active.detail[p]]_vars
  BY DetailStep
<1>2. QED
  BY <1>1, FinerHolds, PTL DEF Spec, DetailKept

-----------------------------------------------------------------------------
(***************************************************************************)
(* No update is lost.                                                      *)
(***************************************************************************)
\* Levels are numbers.
LEMMA Numbers ==
    ASSUME TypeOK
    PROVE  /\ \A p \in Pages :
                /\ active.detail[p] \in Nat /\ staging.detail[p] \in Nat
                /\ published.detail[p] \in Nat /\ pendingSnapshot.detail[p] \in Nat
                /\ request.detail[p] \in Nat /\ job.detail[p] \in Nat /\ final[p] \in Nat
                /\ pendingTexture.detail[p] \in Nat /\ deferred.detail[p] \in Nat
           /\ latest \in Nat /\ handed \in Nat /\ published.gen \in Nat
           /\ request.gen \in Nat /\ job.gen \in Nat /\ active.gen \in Nat
           /\ staging.gen \in Nat /\ pendingTexture.gen \in Nat /\ deferred.gen \in Nat
           /\ rejects \in Nat /\ pendingSnapshot.gen \in Nat
BY ConstantsAssumption DEF TypeOK, Terrain, Updates, Slots, Details

\* A snapshot reaches the screen with the detail it was published with.
LEMMA SnapshotStep ==
    TypeOK /\ InOrder /\ SnapshotArrives /\ [Next]_vars => SnapshotArrives'
<1> SUFFICES ASSUME TypeOK, InOrder, SnapshotArrives, [Next]_vars PROVE SnapshotArrives'
  OBVIOUS
<1> USE Numbers
<1>1. TypeOK'
  BY TypeStep
<1>2. \A p \in Pages : active'.detail[p] \in Nat /\ staging'.detail[p] \in Nat
  BY <1>1, ConstantsAssumption DEF TypeOK, Slots, Details
<1>3. CASE UNCHANGED <<published, active, staging>>
  BY <1>3 DEF SnapshotArrives
<1>4. CASE Publish
  <2>1. published'.gen = latest /\ active' = active /\ staging' = staging
    BY <1>4 DEF Publish, slotVars
  <2>2. active.gen < latest /\ staging.gen < latest
    BY <1>4 DEF Publish, InOrder, Handing, Replacing, NoSlot
  <2>3. QED
    BY <2>1, <2>2 DEF SnapshotArrives
<1>5. CASE Stage
  <2>1. CASE pendingSnapshot.gen > staging.gen /\ pendingSnapshot.gen > active.gen
    <3>1. staging'.detail = pendingSnapshot.detail /\ active' = active /\ published' = published
      BY <1>5, <2>1 DEF Stage, RenderFrame, visualVars
    <3>2. pendingSnapshot = published
      BY <2>1 DEF InOrder, Replacing, NoTerrain
    <3>3. QED
      BY <3>1, <3>2 DEF SnapshotArrives
  <2>2. QED
    BY <1>3, <1>5, <2>1 DEF Stage, RenderFrame, visualVars
<1>6. CASE Upload
  <2>1. CASE staging.left # {}
    <3>1. PICK S \in SUBSET staging.left \ {{}} :
             staging' = [staging EXCEPT !.detail = Created(S), !.left = @ \ S]
      BY <1>6, <2>1 DEF Upload
    <3>2. /\ staging'.gen = staging.gen /\ staging'.detail = Created(S)
          /\ active' = active /\ published' = published
      BY <1>6, <3>1 DEF Upload, RenderFrame, visualVars, TypeOK, Slots
    <3>3. \A p \in Pages : staging'.detail[p] >= staging.detail[p]
      BY <3>2, CreatedTypes
    <3>4. QED
      BY <1>2, <3>2, <3>3 DEF SnapshotArrives
  <2>2. QED
    BY <1>3, <1>6, <2>1 DEF Upload, RenderFrame, visualVars
<1>7. CASE ApplyTexture
  <2>1. published' = published /\ active'.gen = active.gen /\ staging'.gen = staging.gen
    BY <1>7, ApplyDetail DEF ApplyTexture, RenderFrame, visualVars
  <2>2. \A p \in Pages : /\ active'.detail[p] >= active.detail[p]
                         /\ staging'.detail[p] >= staging.detail[p]
    BY <1>7, ApplyDetail
  <2>3. QED
    BY <1>2, <2>1, <2>2 DEF SnapshotArrives
<1>8. CASE Swap
  <2>1. /\ published' = published
        /\ \/ UNCHANGED <<active, staging>>
           \/ active' = active /\ staging'.gen = staging.gen /\ staging'.detail = staging.detail
           \/ staging # NoSlot /\ active' = staging /\ staging' = NoSlot
    BY <1>8 DEF Swap, slotVars, RenderFrame, visualVars, TypeOK, Slots
  <2>2. CASE staging # NoSlot /\ active' = staging /\ staging' = NoSlot
    <3>1. published'.gen # staging'.gen
      BY <2>1, <2>2 DEF InOrder, Replacing, NoSlot
    <3>2. QED
      BY <2>1, <2>2, <3>1 DEF SnapshotArrives
  <2>3. CASE active' = active /\ staging'.gen = staging.gen /\ staging'.detail = staging.detail
    BY <2>1, <2>3 DEF SnapshotArrives
  <2>4. QED
    BY <1>3, <2>1, <2>2, <2>3
<1>9. CASE Recenter \/ HandOver \/ RefineStep \/ Defer \/ UNCHANGED vars
  BY <1>3, <1>9 DEF Recenter, HandOver, Defer, RenderFrame, visualVars, slotVars, vars,
       RefineStep, Take, NextLevel, BuildBatch, KeepBatch, ApplyBatch, Preempted,
       EndLevels, Retry, WorkFrame
<1>10. QED
  BY <1>4, <1>5, <1>6, <1>7, <1>8, <1>9 DEF Next, VisualStep, RenderStep

\* MergePendingTexture keeps what the newest generation has in the queue and what
\* is added for it.
LEMMA MergedArrives ==
    ASSUME TypeOK, InOrder, NEW u \in Updates, u.gen <= latest, NEW p \in Pages
    PROVE  /\ pendingTexture.gen = latest =>
                 Merged(u).gen = latest /\ Merged(u).detail[p] >= pendingTexture.detail[p]
           /\ u.gen = latest =>
                 \/ u.detail[p] = 0
                 \/ Merged(u).gen = latest /\ Merged(u).detail[p] >= u.detail[p]
<1> USE Numbers
<1>0. /\ u.gen \in Nat /\ u.detail[p] \in Nat
      /\ u.detail \in Details /\ pendingTexture.detail \in Details
  BY ConstantsAssumption DEF Updates, Terrain, Details, TypeOK
<1>1. CASE InUpdate(u) = {}
  <2>1. u.detail[p] = 0
    BY <1>0, <1>1 DEF InUpdate
  <2>2. QED
    <3>1. Merged(u) = pendingTexture
      BY <1>1 DEF Merged
    <3>2. QED
      BY <2>1, <3>1
<1>2. CASE InUpdate(u) # {} /\ u.gen > pendingTexture.gen
  <2>1. Merged(u) = u
    BY <1>0, <1>2 DEF Merged
  <2>2. pendingTexture.gen # latest
    BY <1>0, <1>2
  <2>3. QED
    BY <1>0, <2>1, <2>2
<1>3. CASE InUpdate(u) # {} /\ u.gen < pendingTexture.gen
  <2>1. Merged(u) = pendingTexture
    BY <1>0, <1>3 DEF Merged
  <2>2. u.gen # latest
    BY <1>0, <1>3 DEF InOrder, Updating
  <2>3. QED
    BY <2>1, <2>2
<1>4. CASE InUpdate(u) # {} /\ u.gen = pendingTexture.gen
  <2> DEFINE both == Finer(u.detail, pendingTexture.detail)
  <2>1. Merged(u) = [u EXCEPT !.detail = both]
    BY <1>0, <1>4 DEF Merged
  <2>2. both[p] >= u.detail[p] /\ both[p] >= pendingTexture.detail[p]
    BY <1>0, FinerTypes
  <2> HIDE DEF both
  <2>3. Merged(u).gen = u.gen /\ Merged(u).detail = both
    BY <2>1 DEF Updates, Terrain
  <2>4. QED
    BY <1>4, <2>2, <2>3
<1>5. QED
  BY <1>0, <1>1, <1>2, <1>3, <1>4

\* What is on its way stays on its way or arrives.
LEMMA ArrivingStep ==
    ASSUME TypeOK, InOrder, ReplacementFiner, [Next]_vars,
           latest' = latest, active.gen = latest, latest # 0, rejects' = 0,
           NEW p \in Pages, NEW l \in Nat, Arriving(p, l)
    PROVE  Arriving(p, l)'
<1> USE Numbers
<1>0. active'.detail[p] >= active.detail[p] /\ active'.detail[p] \in Nat
  <2>1. TypeOK'
    BY TypeStep
  <2>2. QED
    BY <2>1, DetailStep, ConstantsAssumption DEF TypeOK, Slots, Details
<1>1. CASE UNCHANGED <<pendingTexture, deferred>>
  BY <1>0, <1>1 DEF Arriving
<1>2. CASE Publish
  <2>1. FALSE
    BY <1>2 DEF Publish, InOrder, Handing
  <2>2. QED
    BY <2>1
<1>3. CASE ApplyBatch \/ EndLevels
  <2>1. PICK u \in Updates : u.gen <= latest /\ pendingTexture' \in {pendingTexture, Merged(u)}
    <3>1. [gen |-> job.gen, detail |-> AtLevel(update)] \in Updates
      BY AtLevelTypes DEF TypeOK, Terrain, Updates
    <3>2. [gen |-> job.gen, detail |-> final] \in Updates
      BY DEF TypeOK, Terrain, Updates
    <3>3. job.gen <= latest
      BY DEF InOrder, Handing
    <3>4. QED
      BY <1>3, <3>1, <3>2, <3>3 DEF ApplyBatch, EndLevels
  <2>2. deferred' = deferred
    BY <1>3 DEF ApplyBatch, EndLevels, WorkFrame
  <2>3. \/ pendingTexture' = pendingTexture
        \/ pendingTexture.gen = latest =>
              pendingTexture'.gen = latest /\ pendingTexture'.detail[p] >= pendingTexture.detail[p]
    BY <2>1, MergedArrives
  <2>4. TypeOK'
    BY TypeStep
  <2>5. pendingTexture'.detail[p] \in Nat
    BY <2>4, ConstantsAssumption DEF TypeOK, Updates, Terrain, Details
  <2>6. QED
    BY <1>0, <2>2, <2>3, <2>5 DEF Arriving
<1>4. CASE ApplyTexture
  <2>1. CASE UNCHANGED <<active, staging, pendingTexture, deferred, rejects>>
    BY <1>1, <2>1
  <2>2. CASE pendingTexture.gen = latest => 
               /\ deferred'.gen = latest
               /\ \/ pendingTexture.detail[p] <= active'.detail[p]
                  \/ pendingTexture.detail[p] <= deferred'.detail[p]
    <3>1. deferred = NoUpdate
      BY <1>4 DEF ApplyTexture, Turn, InOrder, Updating
    <3>2. deferred.gen # latest
      BY <3>1 DEF NoUpdate, NoTerrain
    <3>3. TypeOK'
      BY TypeStep
    <3>4. deferred'.detail[p] \in Nat
      BY <3>3, ConstantsAssumption DEF TypeOK, Updates, Terrain, Details
    <3>5. QED
      BY <1>0, <2>2, <3>2, <3>4 DEF Arriving
  <2>3. QED
    BY <1>4, <2>1, <2>2, ApplyDetail
<1>5. CASE Defer
  <2>1. pendingTexture' = Merged(deferred) /\ deferred \in Updates /\ deferred.gen <= latest
    BY <1>5 DEF Defer, TypeOK, InOrder, Updating
  <2>2. /\ pendingTexture.gen = latest =>
             pendingTexture'.gen = latest /\ pendingTexture'.detail[p] >= pendingTexture.detail[p]
        /\ deferred.gen = latest =>
             \/ deferred.detail[p] = 0
             \/ pendingTexture'.gen = latest /\ pendingTexture'.detail[p] >= deferred.detail[p]
    BY <2>1, MergedArrives
  <2>3. TypeOK'
    BY TypeStep
  <2>4. pendingTexture'.detail[p] \in Nat
    BY <2>3, ConstantsAssumption DEF TypeOK, Updates, Terrain, Details
  <2>5. QED
    BY <1>0, <2>2, <2>4 DEF Arriving
<1>6. CASE \/ Recenter \/ HandOver \/ Stage \/ Upload \/ Swap \/ UNCHANGED vars
           \/ Take \/ NextLevel \/ BuildBatch \/ KeepBatch \/ Preempted \/ Retry
  BY <1>1, <1>6 DEF Recenter, HandOver, Stage, Upload, Swap, vars, slotVars, RenderFrame,
       Take, NextLevel, BuildBatch, KeepBatch, Preempted, Retry, WorkFrame, workVars, visualVars
<1>7. QED
  BY <1>2, <1>3, <1>4, <1>5, <1>6 DEF Next, VisualStep, RenderStep, RefineStep

\* Textures that were refused stay counted.
LEMMA RejectsGrow ==
    ASSUME TypeOK, [Next]_vars, rejects' = 0
    PROVE  rejects = 0
<1>1. CASE ApplyTexture
  <2>1. \/ rejects' = rejects
        \/ \E refused \in SUBSET Pages : rejects' = rejects + Cardinality(refused)
    BY <1>1 DEF ApplyTexture
  <2>2. QED
    BY <2>1, RefusedCount, Numbers
<1>2. CASE Stage \/ Upload \/ Defer \/ Swap \/ UNCHANGED vars
  BY <1>2 DEF Stage, Upload, Defer, Swap, vars
<1>3. CASE Recenter \/ VisualStep \/ RefineStep
  BY <1>3 DEF Recenter, VisualStep, Publish, HandOver, RefineStep, Take, NextLevel, BuildBatch,
              KeepBatch, ApplyBatch, Preempted, EndLevels, Retry, WorkFrame
<1>4. QED
  BY <1>1, <1>2, <1>3 DEF Next, RenderStep

\* Only the simulation thread asks for a newer generation, which is not on screen.
LEMMA LatestStays ==
    ASSUME TypeOK, InOrder, [Next]_vars, active'.gen = latest'
    PROVE  latest' = latest
<1>1. CASE Recenter
  BY <1>1, Numbers DEF Recenter, slotVars, InOrder, Handing
<1>2. CASE VisualStep \/ RenderStep \/ UNCHANGED vars
  BY <1>2 DEF VisualStep, Publish, HandOver, RenderStep, Stage, Upload, ApplyTexture, Defer,
              Swap, RenderFrame, visualVars, vars
<1>3. CASE RefineStep
  BY <1>3 DEF RefineStep, Take, NextLevel, BuildBatch, KeepBatch, ApplyBatch, Preempted,
              EndLevels, Retry, WorkFrame, visualVars
<1>4. QED
  BY <1>1, <1>2, <1>3 DEF Next

\* What a waiting request takes for refined stays on screen or on its way
\* there.
LEMMA RequestStep ==
    TypeOK /\ InOrder /\ ReplacementFiner /\ Conserved /\ [Next]_vars => RequestArrives'
<1> SUFFICES ASSUME TypeOK, InOrder, ReplacementFiner, Conserved, [Next]_vars,
                    request'.gen # 0, request'.gen = latest', active'.gen = latest', rejects' = 0,
                    NEW p \in Pages
             PROVE  Arriving(p, request.detail[p])'
  BY DEF RequestArrives
<1> USE Numbers
<1>1. rejects = 0 /\ latest' = latest
  BY RejectsGrow, LatestStays
<1>2. CASE request' = request
  <2>1. active.gen = latest
    BY <1>1, <1>2 DEF InOrder, Handing
  <2>2. Arriving(p, request.detail[p])
    BY <1>1, <1>2, <2>1 DEF Conserved, RequestArrives
  <2>3. QED
    BY <1>1, <1>2, <2>1, <2>2, ArrivingStep DEF Arriving
<1>3. CASE HandOver
  <2>1. request' = published \/ request' = request
    BY <1>3 DEF HandOver
  <2>2. published.detail[p] <= active.detail[p] /\ active' = active
    BY <1>3 DEF HandOver, Conserved, SnapshotArrives, slotVars
  <2>3. QED
    BY <1>2, <2>1, <2>2 DEF Arriving
<1>4. CASE Take
  BY <1>4 DEF Take, NoTerrain
<1>5. CASE Retry
  <2>1. request' = job \/ request' = request
    BY <1>5 DEF Retry
  <2>2. CASE request' = job
    <3>1. UNCHANGED <<latest, active, pendingTexture, deferred, rejects>>
      BY <1>5 DEF Retry, WorkFrame, visualVars, slotVars
    <3>2. final[p] = 0
      BY <1>5, CoarseTypes DEF Retry, InOrder, Updating
    <3>3. Arriving(p, job.detail[p]) \/ job.detail[p] <= final[p]
      BY <2>2, <3>1 DEF Conserved, JobArrives
    <3>4. Arriving(p, job.detail[p])
      BY <3>2, <3>3 DEF Arriving
    <3>5. QED
      BY <2>2, <3>1, <3>4 DEF Arriving
  <2>3. QED
    BY <1>2, <2>1, <2>2
<1>6. CASE RefineStep /\ ~Take /\ ~Retry
  BY <1>2, <1>6 DEF RefineStep, NextLevel, BuildBatch, KeepBatch, ApplyBatch, Preempted, EndLevels
<1>7. CASE Recenter \/ Publish \/ RenderStep \/ UNCHANGED vars
  BY <1>2, <1>7 DEF Recenter, Publish, RenderStep, Stage, Upload, ApplyTexture, Defer, Swap,
                    RenderFrame, vars
<1>8. QED
  BY <1>3, <1>4, <1>5, <1>6, <1>7 DEF Next, VisualStep

\* What the worker takes for refined stays on screen or on its way there.
LEMMA JobStep ==
    TypeOK /\ InOrder /\ ReplacementFiner /\ Conserved /\ [Next]_vars => JobArrives'
<1> SUFFICES ASSUME TypeOK, InOrder, ReplacementFiner, Conserved, [Next]_vars,
                    job'.gen # 0, job'.gen = latest', active'.gen = latest', rejects' = 0,
                    NEW p \in Pages
             PROVE  Arriving(p, job.detail[p])' \/ (job.detail[p] <= final[p])'
  BY DEF JobArrives
<1> USE Numbers
<1>1. rejects = 0 /\ latest' = latest
  BY RejectsGrow, LatestStays
<1>2. ASSUME job.gen = job'.gen
      PROVE  /\ active.gen = latest /\ latest # 0
             /\ Arriving(p, job.detail[p]) \/ job.detail[p] <= final[p]
  BY <1>1, <1>2 DEF InOrder, Handing, Conserved, JobArrives
<1>3. CASE job' = job /\ final' = final
  BY <1>1, <1>2, <1>3, ArrivingStep DEF Arriving
<1>4. CASE Take
  <2>1. job' = request /\ UNCHANGED <<latest, active, pendingTexture, deferred, rejects>>
    BY <1>4 DEF Take, WorkFrame, visualVars, slotVars
  <2>2. Arriving(p, request.detail[p])
    BY <2>1 DEF Conserved, RequestArrives
  <2>3. QED
    BY <2>1, <2>2 DEF Arriving
<1>5. CASE ApplyBatch
  <2> DEFINE new == AtLevel(update)
  <2>1. new \in Details /\ job.detail \in Details /\ final \in Details
    BY AtLevelTypes DEF TypeOK, Terrain
  <2>2. new[p] \in Nat
    BY <2>1, ConstantsAssumption DEF Details
  <2>3. job'.gen = job.gen /\ job'.detail = Finer(job.detail, new)
    BY <1>5 DEF ApplyBatch, TypeOK, Terrain
  <2>4. active' = active
    BY <1>5 DEF ApplyBatch, WorkFrame, slotVars
  <2>5. job'.detail[p] = job.detail[p] \/ job'.detail[p] = new[p]
    BY <2>1, <2>3, FinerTypes
  <2>6. CASE eager
    <3>1. final' = final /\ pendingTexture' = Merged([gen |-> job.gen, detail |-> new])
      BY <1>5, <2>6 DEF ApplyBatch
    <3>2. [gen |-> job.gen, detail |-> new] \in Updates
      BY <2>1 DEF TypeOK, Terrain, Updates
    <3>3. new[p] = 0 \/ (pendingTexture'.gen = latest /\ pendingTexture'.detail[p] >= new[p])
      BY <1>1, <2>3, <3>1, <3>2, MergedArrives
    <3>4. TypeOK'
      BY TypeStep
    <3>5. pendingTexture'.detail[p] \in Nat
      BY <3>4, ConstantsAssumption DEF TypeOK, Updates, Terrain, Details
    <3>6. CASE job'.detail[p] = new[p]
      BY <1>1, <2>2, <2>4, <3>3, <3>5, <3>6 DEF Arriving
    <3>7. CASE job'.detail[p] = job.detail[p]
      BY <1>1, <1>2, <2>3, <3>1, <3>7, ArrivingStep DEF Arriving
    <3>8. QED
      BY <2>5, <3>6, <3>7
  <2>7. CASE ~eager
    <3>1. final' = Finer(final, new)
      BY <1>5, <2>7 DEF ApplyBatch
    <3>2. final'[p] >= final[p] /\ final'[p] >= new[p]
      BY <2>1, <3>1, FinerTypes
    <3>3. TypeOK'
      BY TypeStep
    <3>4. final'[p] \in Nat
      BY <3>3, ConstantsAssumption DEF TypeOK, Details
    <3>5. CASE job'.detail[p] = new[p]
      BY <2>2, <3>2, <3>4, <3>5
    <3>6. CASE job'.detail[p] = job.detail[p]
      BY <1>1, <1>2, <2>3, <3>2, <3>4, <3>6, ArrivingStep DEF Arriving
    <3>7. QED
      BY <2>5, <3>5, <3>6
  <2>8. QED
    BY <2>6, <2>7
<1>6. CASE EndLevels
  <2>1. /\ job' = job /\ active' = active
        /\ pendingTexture' = Merged([gen |-> job.gen, detail |-> final])
    BY <1>6 DEF EndLevels, WorkFrame, slotVars
  <2>2. [gen |-> job.gen, detail |-> final] \in Updates
    BY DEF TypeOK, Terrain, Updates
  <2>3. final[p] = 0 \/ (pendingTexture'.gen = latest /\ pendingTexture'.detail[p] >= final[p])
    BY <1>1, <2>1, <2>2, MergedArrives
  <2>4. TypeOK'
    BY TypeStep
  <2>5. pendingTexture'.detail[p] \in Nat
    BY <2>4, ConstantsAssumption DEF TypeOK, Updates, Terrain, Details
  <2>6. CASE job.detail[p] <= final[p]
    BY <1>1, <2>1, <2>3, <2>5, <2>6 DEF Arriving
  <2>7. CASE Arriving(p, job.detail[p])
    BY <1>1, <1>2, <2>1, <2>7, ArrivingStep DEF Arriving
  <2>8. QED
    BY <1>2, <2>1, <2>6, <2>7
<1>7. CASE Preempted \/ Retry
  BY <1>7 DEF Preempted, Retry, NoTerrain
<1>8. CASE NextLevel \/ BuildBatch \/ KeepBatch
  BY <1>3, <1>8 DEF NextLevel, BuildBatch, KeepBatch
<1>9. CASE Recenter \/ VisualStep \/ RenderStep \/ UNCHANGED vars
  BY <1>3, <1>9 DEF Recenter, VisualStep, Publish, HandOver, RenderStep, Stage, Upload,
                    ApplyTexture, Defer, Swap, RenderFrame, workVars, vars
<1>10. QED
  BY <1>4, <1>5, <1>6, <1>7, <1>8, <1>9 DEF Next, RefineStep

\* What is taken for refined is on screen or on its way in every reachable
\* state.
LEMMA ConservedHolds == Spec => [](TypeOK /\ InOrder /\ Conserved)
<1> DEFINE Inv == TypeOK /\ InOrder /\ ReplacementFiner /\ Conserved
<1>1. Init => Conserved
  <2>1. \A p \in Pages : 0 <= 0 /\ Coarse[p] = 0
    BY CoarseTypes
  <2>2. QED
    BY <2>1 DEF Init, Conserved, SnapshotArrives, RequestArrives, JobArrives, NoTerrain, NoSlot
<1>2. Init => Inv
  BY <1>1, TypeInit, OrderInit DEF Init, ReplacementFiner
<1>3. Inv /\ [Next]_vars => Inv'
  BY TypeStep, OrderStep, FinerStep, SnapshotStep, RequestStep, JobStep DEF Conserved
<1>4. QED
  BY <1>2, <1>3, PTL DEF Spec

\* What the refinement worker takes for refined in the terrain on screen is on screen,
\* collected, queued or deferred: no texture update is lost between the threads
\* (TerrainRuntime.cc:478-668, GzTerrainRenderer.cc:862-985).
THEOREM UpdatesAreConserved == Spec => []NothingLost
<1>1. TypeOK /\ InOrder /\ Conserved => UpdatesConserved
  <2> SUFFICES ASSUME TypeOK, InOrder, Conserved,
                      job.gen # 0, job.gen = latest, active.gen = latest, rejects = 0,
                      NEW p \in Pages
               PROVE  job.detail[p] <= Finer(Finer(active.detail, final),
                                   Finer(IF pendingTexture.gen = latest
                                         THEN pendingTexture.detail ELSE Coarse,
                                         IF deferred.gen = latest
                                         THEN deferred.detail ELSE Coarse))[p]
    BY DEF UpdatesConserved
  <2> DEFINE queued == IF pendingTexture.gen = latest THEN pendingTexture.detail ELSE Coarse
             later == IF deferred.gen = latest THEN deferred.detail ELSE Coarse
             near == Finer(active.detail, final)
             far == Finer(queued, later)
  <2>1. active.detail \in Details /\ final \in Details /\ queued \in Details /\ later \in Details
    BY CoarseTypes DEF TypeOK, Slots, Updates, Terrain
  <2>2. near \in Details /\ near[p] >= active.detail[p] /\ near[p] >= final[p]
    BY <2>1, FinerTypes
  <2>3. far \in Details /\ far[p] >= queued[p] /\ far[p] >= later[p]
    BY <2>1, FinerTypes
  <2>4. /\ pendingTexture.gen = latest => queued[p] = pendingTexture.detail[p]
        /\ deferred.gen = latest => later[p] = deferred.detail[p]
    OBVIOUS
  <2> HIDE DEF queued, later, near, far
  <2>5. Finer(near, far)[p] >= near[p] /\ Finer(near, far)[p] >= far[p]
        /\ Finer(near, far) \in Details
    BY <2>2, <2>3, FinerTypes
  <2>6. Finer(near, far)[p] \in Nat /\ near[p] \in Nat /\ far[p] \in Nat
    BY <2>2, <2>3, <2>5, ConstantsAssumption DEF Details
  <2>7. Arriving(p, job.detail[p]) \/ job.detail[p] <= final[p]
    BY DEF Conserved, JobArrives
  <2>8. job.detail[p] <= Finer(near, far)[p]
    BY <2>2, <2>3, <2>4, <2>5, <2>6, <2>7, Numbers DEF Arriving
  <2>9. QED
    BY <2>8 DEF near, far, queued, later
<1>2. QED
  BY <1>1, ConservedHolds, PTL DEF NothingLost

=============================================================================
