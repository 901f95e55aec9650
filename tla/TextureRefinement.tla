------------------------- MODULE TextureRefinement -------------------------
(***************************************************************************)
(* The detail of the pictures on the pages.  Terrain becomes visible with  *)
(* coarse imagery; the refinement worker then fetches finer imagery level  *)
(* by level and queues texture updates, and the render thread applies them *)
(* a few pages per frame.  Meanwhile the aircraft moves on, and a new      *)
(* generation of the terrain is uploaded page by page into the staging     *)
(* slot and swapped in.                                                    *)
(*                                                                         *)
(* Pages are those of the places that stay in view, so every generation    *)
(* has them; their detail is a level up to Target.  How a generation is    *)
(* built and published is VisualPipeline's subject: here it appears with   *)
(* any detail, and each revision of a generation is one of its own.        *)
(***************************************************************************)
EXTENDS Integers, FiniteSets

CONSTANTS
    Pages,           \* geographic pages, the same in every generation
    Target,          \* TargetZoomForPage, as a level above the coarsest
    MaxGenerations,  \* bound: generations of the terrain
    MaxOutages,      \* bound: batches for which imagery is missing
    MaxRejects       \* bound: textures the graphics driver refuses

ASSUME ConstantsAssumption ==
    /\ Pages # {} /\ IsFiniteSet(Pages)
    /\ Target \in Nat \ {0}
    /\ MaxGenerations \in Nat \ {0} /\ MaxOutages \in Nat /\ MaxRejects \in Nat

VARIABLES
    eager,             \* cfg.visualProgressiveUploads, which never changes
    latest,            \* latestVisualGeneration_
    published,         \* the visual worker's snapshot: its generation and detail
    handed,            \* the newest generation handed to the refinement worker
    request,           \* refineRequest_
    wpc,               \* the refinement worker's place in refinementWorker
    job,               \* its snapshot: generation and pageZoom
    level, todo,       \* the level it is at and the pages it has left there
    update,            \* the pages of the batch it has just built
    final,             \* finalPageUpdates
    pendingSnapshot,   \* the renderer's queues
    pendingTexture,
    rpc,               \* the render thread's place in OnPreRender
    active, staging,   \* the slots; `left` are the pages still to upload
    deferred,          \* the part of an update left for the next frame
    outages, rejects   \* bounds

visualVars == <<latest, published, handed>>
workVars   == <<wpc, job, level, todo, update, final>>
slotVars   == <<active, staging>>
vars == <<eager, visualVars, request, workVars, pendingSnapshot, pendingTexture, rpc, slotVars,
          deferred, outages, rejects>>

Details == [Pages -> 0..Target]
Coarse == [p \in Pages |-> 0]

\* Snapshots and requests; generation 0 stands for none.
Terrain == [gen : 0..MaxGenerations, detail : Details]
NoTerrain == [gen |-> 0, detail |-> Coarse]

\* Texture updates: level 0 stands for a page that is not in the update.
Updates == Terrain
NoUpdate == NoTerrain
InUpdate(u) == {p \in Pages : u.detail[p] > 0}

Slots == [gen : 0..MaxGenerations, detail : Details, left : SUBSET Pages, warm : BOOLEAN]
NoSlot == [gen |-> 0, detail |-> Coarse, left |-> {}, warm |-> FALSE]

Finer(d, e) == [p \in Pages |-> IF d[p] > e[p] THEN d[p] ELSE e[p]]

Init ==
    /\ eager \in BOOLEAN
    /\ latest = 0 /\ published = NoTerrain /\ handed = 0
    /\ request = NoTerrain
    /\ wpc = "idle" /\ job = NoTerrain /\ level = 0 /\ todo = {}
    /\ update = {} /\ final = Coarse
    /\ pendingSnapshot = NoTerrain /\ pendingTexture = NoUpdate
    /\ rpc = "stage" /\ active = NoSlot /\ staging = NoSlot /\ deferred = NoUpdate
    /\ outages = 0 /\ rejects = 0

-----------------------------------------------------------------------------
(***************************************************************************)
(* The visual worker and the simulation thread, seen from here.            *)
(***************************************************************************)
Recenter ==
    /\ latest < MaxGenerations
    /\ latest' = latest + 1
    /\ UNCHANGED <<eager, published, handed, request, workVars, pendingSnapshot, pendingTexture,
                   rpc, slotVars, deferred, outages, rejects>>

\* QueueSnapshot discards queued textures of older generations.
Publish ==
    /\ published.gen < latest
    /\ \E d \in Details : published' = [gen |-> latest, detail |-> d]
    /\ pendingSnapshot' = published'
    /\ pendingTexture' = IF pendingTexture.gen < latest THEN NoUpdate ELSE pendingTexture
    /\ UNCHANGED <<eager, latest, handed, request, workVars, rpc, slotVars, deferred, outages,
                   rejects>>

\* queueRefinement, once the generation is active.
HandOver ==
    /\ handed < published.gen /\ published.gen = latest /\ active.gen = published.gen
    /\ handed' = published.gen
    /\ request' = IF published.gen >= request.gen THEN published ELSE request
    /\ UNCHANGED <<eager, latest, published, workVars, pendingSnapshot, pendingTexture, rpc,
                   slotVars, deferred, outages, rejects>>

VisualStep == Publish \/ HandOver

-----------------------------------------------------------------------------
(***************************************************************************)
(* The refinement worker.                                                  *)
(***************************************************************************)
Stale == job.gen # latest \/ active.gen # job.gen

WorkFrame == UNCHANGED <<eager, visualVars, pendingSnapshot, rpc, slotVars, deferred, rejects>>

Candidates(l) == {p \in Pages : job.detail[p] < l}

Take ==
    /\ wpc = "idle" /\ request # NoTerrain
    /\ job' = request /\ request' = NoTerrain
    /\ level' = 0 /\ todo' = {} /\ final' = Coarse
    /\ wpc' = "batch"
    /\ UNCHANGED <<update, pendingTexture, outages>> /\ WorkFrame

\* The next level, unless the request was superseded.
NextLevel ==
    /\ wpc = "batch" /\ todo = {} /\ level < Target /\ ~Stale
    /\ level' = level + 1
    /\ todo' = Candidates(level + 1)
    /\ UNCHANGED <<wpc, job, update, final, request, pendingTexture, outages>> /\ WorkFrame

\* BuildTextureStage: pages whose imagery is incomplete keep what they have.
BuildBatch ==
    /\ wpc = "batch" /\ todo # {} /\ ~Stale
    /\ \E batch \in SUBSET todo \ {{}} :
          /\ todo' = todo \ batch
          /\ \/ update' = batch /\ UNCHANGED outages
             \/ /\ outages < MaxOutages /\ outages' = outages + 1
                /\ update' \in SUBSET batch \ {batch}
    /\ wpc' = "built"
    /\ UNCHANGED <<job, level, final, request, pendingTexture>> /\ WorkFrame

\* Looked at once more before the update is used.
KeepBatch ==
    /\ wpc = "built" /\ ~Stale
    /\ wpc' = "apply"
    /\ UNCHANGED <<job, level, todo, update, final, request, pendingTexture, outages>>
    /\ WorkFrame

\* MergePendingTexture: the newest generation wins, then the finest level.
Merged(u) ==
    CASE InUpdate(u) = {} -> pendingTexture
      [] InUpdate(u) # {} /\ u.gen > pendingTexture.gen -> u
      [] InUpdate(u) # {} /\ u.gen < pendingTexture.gen -> pendingTexture
      [] OTHER -> [u EXCEPT !.detail = Finer(u.detail, pendingTexture.detail)]

AtLevel(S) == [p \in Pages |-> IF p \in S THEN level ELSE 0]

\* The snapshot and pageZoom remember the finer pages; the update is queued at
\* once or collected until the end.
ApplyBatch ==
    /\ wpc = "apply"
    /\ job' = [job EXCEPT !.detail = Finer(@, AtLevel(update))]
    /\ IF eager
       THEN /\ pendingTexture' = Merged([gen |-> job.gen, detail |-> AtLevel(update)])
            /\ UNCHANGED final
       ELSE final' = Finer(final, AtLevel(update)) /\ UNCHANGED pendingTexture
    /\ update' = {} /\ wpc' = "batch"
    /\ UNCHANGED <<level, todo, request, outages>> /\ WorkFrame

Preempted ==
    /\ wpc \in {"batch", "built"} /\ Stale
    /\ wpc' = "idle" /\ job' = NoTerrain
    /\ level' = 0 /\ todo' = {} /\ update' = {} /\ final' = Coarse
    /\ UNCHANGED <<request, pendingTexture, outages>> /\ WorkFrame

\* All levels are done; what was collected is queued in one update.
EndLevels ==
    /\ wpc = "batch" /\ todo = {} /\ level = Target /\ ~Stale
    /\ pendingTexture' = Merged([gen |-> job.gen, detail |-> final])
    /\ final' = Coarse
    /\ wpc' = "backoff"
    /\ UNCHANGED <<job, level, todo, update, request, outages>> /\ WorkFrame

\* Mutant: a refinement with gaps is abandoned until the next generation.
RetryNever ==
    /\ wpc = "backoff"
    /\ UNCHANGED request
    /\ wpc' = "idle" /\ job' = NoTerrain /\ level' = 0
    /\ UNCHANGED <<todo, update, final, pendingTexture, outages>> /\ WorkFrame

\* Pages are left: after the delay the worker asks for itself, unless there is
\* a new request.
Retry ==
    /\ wpc = "backoff"
    /\ request' = IF Candidates(Target) # {} /\ ~Stale /\ request = NoTerrain
                  THEN job ELSE request
    /\ wpc' = "idle" /\ job' = NoTerrain /\ level' = 0
    /\ UNCHANGED <<todo, update, final, pendingTexture, outages>> /\ WorkFrame

RefineStep ==
    \/ Take \/ NextLevel \/ BuildBatch \/ KeepBatch \/ ApplyBatch \/ Preempted
    \/ EndLevels \/ Retry

-----------------------------------------------------------------------------
(***************************************************************************)
(* The render thread, OnPreRender.                                         *)
(***************************************************************************)
RenderFrame == UNCHANGED <<eager, visualVars, request, workVars, outages>>
Turn(from, to) == rpc = from /\ rpc' = to

\* A newer snapshot replaces what is staged or is staged.
Stage ==
    /\ Turn("stage", "upload")
    /\ IF pendingSnapshot.gen > staging.gen /\ pendingSnapshot.gen > active.gen
       THEN /\ staging' = [gen |-> pendingSnapshot.gen, detail |-> pendingSnapshot.detail,
                           left |-> Pages, warm |-> TRUE]
            /\ pendingSnapshot' = NoTerrain
       ELSE UNCHANGED <<staging, pendingSnapshot>>
    /\ UNCHANGED <<active, pendingTexture, deferred, rejects>> /\ RenderFrame

\* CreatePage: the finer of the snapshot's imagery and the visible page's.
Created(S) ==
    [p \in Pages |-> IF p \in S /\ active.detail[p] > staging.detail[p]
                     THEN active.detail[p] ELSE staging.detail[p]]

Upload ==
    /\ Turn("upload", "texture")
    /\ IF staging.left = {}
       THEN UNCHANGED staging
       ELSE \E S \in SUBSET staging.left \ {{}} :
              staging' = [staging EXCEPT !.detail = Created(S), !.left = @ \ S]
    /\ UNCHANGED <<active, pendingSnapshot, pendingTexture, deferred, rejects>> /\ RenderFrame

\* Mutant: an update for the visible generation is applied to it even when its
\* replacement is already uploaded.
ReceiverActive(g) ==
    CASE staging.gen = g -> "staging"
      [] staging.gen # g /\ active.gen = g -> "active"
      [] OTHER -> "nobody"
\* Which slot takes an update; the visible slot's goes to its replacement.
Receiver(g) ==
    CASE staging.gen = g -> "staging"
      [] staging.gen # g /\ active.gen = g -> IF staging = NoSlot THEN "active" ELSE "staging"
      [] OTHER -> "nobody"

\* Some pages of the update take their texture, one of them may be refused, the
\* rest is deferred.
Applied(slot, S, refused) ==
    [slot EXCEPT !.detail =
        Finer(@, [p \in Pages |-> IF p \in S \ refused THEN pendingTexture.detail[p] ELSE 0])]

\* ApplyPendingTexture takes the queued update out of the queue.
ApplyTexture ==
    /\ Turn("texture", "defer")
    /\ IF pendingTexture = NoUpdate \/ staging.left # {}
       THEN UNCHANGED <<slotVars, pendingTexture, deferred, rejects>>
       ELSE \E S \in SUBSET InUpdate(pendingTexture) \ {{}}, refused \in SUBSET Pages :
              LET to == Receiver(pendingTexture.gen) IN
              /\ refused \subseteq S /\ rejects + Cardinality(refused) <= MaxRejects
              /\ to = "nobody" => S = InUpdate(pendingTexture) /\ refused = {}
              /\ rejects' = rejects + Cardinality(refused)
              /\ active' = IF to = "active" THEN Applied(active, S, refused) ELSE active
              /\ staging' = IF to = "staging" THEN Applied(staging, S, refused) ELSE staging
              /\ deferred' = [gen |-> IF to = "staging" THEN staging.gen ELSE pendingTexture.gen,
                              detail |-> [p \in Pages |-> IF p \in S THEN 0
                                                          ELSE pendingTexture.detail[p]]]
              /\ pendingTexture' = NoUpdate
    /\ UNCHANGED pendingSnapshot /\ RenderFrame

\* Mutant: what is deferred replaces what the worker queued meanwhile.
DeferOver ==
    /\ Turn("defer", "swap")
    /\ pendingTexture' = IF InUpdate(deferred) = {} THEN pendingTexture ELSE deferred
    /\ deferred' = NoUpdate
    /\ UNCHANGED <<slotVars, pendingSnapshot, rejects>> /\ RenderFrame

\* The rest goes back to the queue, where a newer update may have arrived.
Defer ==
    /\ Turn("defer", "swap")
    /\ pendingTexture' = Merged(deferred)
    /\ deferred' = NoUpdate
    /\ UNCHANGED <<slotVars, pendingSnapshot, rejects>> /\ RenderFrame

Swap ==
    /\ Turn("swap", "stage")
    /\ IF staging = NoSlot \/ staging.left # {}
       THEN UNCHANGED slotVars
       ELSE IF staging.warm
       THEN staging' = [staging EXCEPT !.warm = FALSE] /\ UNCHANGED active
       ELSE active' = staging /\ staging' = NoSlot
    /\ UNCHANGED <<pendingSnapshot, pendingTexture, deferred, rejects>> /\ RenderFrame

RenderStep == Stage \/ Upload \/ ApplyTexture \/ Defer \/ Swap

-----------------------------------------------------------------------------
Next == Recenter \/ VisualStep \/ RefineStep \/ RenderStep

Spec == Init /\ [][Next]_vars

\* All three threads run; the visual worker delivers every generation.
FairSpec == Spec /\ WF_vars(VisualStep) /\ WF_vars(RefineStep) /\ WF_vars(RenderStep)

-----------------------------------------------------------------------------
(***************************************************************************)
(* Properties.                                                             *)
(***************************************************************************)
TypeOK ==
    /\ eager \in BOOLEAN
    /\ latest \in 0..MaxGenerations /\ handed \in 0..MaxGenerations
    /\ published \in Terrain /\ request \in Terrain /\ job \in Terrain
    /\ wpc \in {"idle", "batch", "built", "apply", "backoff"}
    /\ level \in 0..Target /\ todo \subseteq Pages /\ update \subseteq Pages
    /\ final \in Details
    /\ pendingSnapshot \in Terrain /\ pendingTexture \in Updates /\ deferred \in Updates
    /\ rpc \in {"stage", "upload", "texture", "defer", "swap"}
    /\ active \in Slots /\ staging \in Slots
    /\ outages \in 0..MaxOutages /\ rejects \in 0..MaxRejects

\* A page that stays in view never loses detail, not even when its terrain is
\* replaced by one that was built before the page was refined.
DetailKept ==
    [][active # NoSlot => \A p \in Pages : active'.detail[p] >= active.detail[p]]_vars

\* What the refinement worker takes for refined in the terrain on screen is on
\* screen or on its way there: no update is lost between the threads.  (A
\* texture the driver refuses is lost; the next generation brings it back.)
UpdatesConserved ==
    job.gen # 0 /\ job.gen = latest /\ active.gen = latest /\ rejects = 0 =>
        \A p \in Pages :
            job.detail[p] <= Finer(Finer(active.detail, final),
                                   Finer(IF pendingTexture.gen = latest
                                         THEN pendingTexture.detail ELSE Coarse,
                                         IF deferred.gen = latest
                                         THEN deferred.detail ELSE Coarse))[p]

\* The same on states of the right type.
NothingLost == TypeOK /\ UpdatesConserved

\* "A stationary aircraft must recover after an outage too": when no more
\* terrain is asked for, every page gets its full detail in the end, unless the
\* driver refused a texture.
DetailArrives ==
    <>[](latest > 0 /\ rejects = 0 => \A p \in Pages : active.detail[p] = Target)

=============================================================================
