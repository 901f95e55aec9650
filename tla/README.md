# Verification of the dynamic terrain plugin

TLA+ modules about the plugin in `src/`: the download service, the tile store,
the collision pipeline, the visual pipeline with its renderer slots and GPU
resources, imagery refinement, the outer coverage plan and the GUI preview.
TLC checks them on small instances; TLAPS proves their safety properties, and
one refinement, for every value of the parameters. `PROJECT.json` names the
source lines of each definition.

## 1. The system

The plugin streams geographic tiles around an aircraft in a Gazebo simulation.
It runs in five kinds of threads: Gazebo's simulation thread (`PreUpdate`), its
render thread (`OnPreRender`), and the runtime's collision, visual and
refinement workers. All workers fetch tiles through one download service with
a thread of its own. They talk through slots of length one (a new entry replaces
the old one), atomics for the newest generation, and a retry time per pipeline.
The GUI is a process of its own that polls a copy of the terrain.

| Component | State it keeps | Operations | Interacts with | Module |
|---|---|---|---|---|
| Download service (`core/DownloadCache.cc`, `DownloadRetry.hh`) | task map, transfers, host counters and HTTP/2 hosts, lock files, validation stamps, one `Batch` per call | `Ensure` (submit, wait, withdraw), worker passes (order, validate, lock, start, retry, deliver), `Stop`, `InvalidateValidation` | called by the tile store; curl, disk, other processes | `DownloadCache`, abstract: `DownloadService` |
| Tile store (`core/TileStore.cc`) | two LRU caches of decoded rasters, striped mutexes, alignment offset per zoom | `LoadImagery`, `LoadElevationRaster`, `BuildElevationMosaic`, `OriginAlignmentOffset`, repair of damaged files | called by all workers; download service, disk | `TileStore` |
| Collision pipeline (`DynamicTerrainSystem.cc`, `TerrainRuntime.cc`) | request slot, newest generation, result slot, retry time; current and retiring entity, overlap deadline, safety ground | `PreUpdate`, `updateCollisionRequest`, `collisionWorker`, `PollCollision` | Gazebo entities, collision builder | `CollisionPipeline` |
| Visual pipeline (`TerrainRuntime.cc`) | request slot, newest generation, retry time, snapshot under construction | `updateVisualRequest`, `visualWorker`, `publish` and its wait | terrain builder, renderer | `VisualPipeline` |
| Renderer slots (`GzTerrainRenderer.cc`) | pending snapshot and texture, active and staging slot, acknowledgement atomics | `OnPreRender`, `QueueSnapshot`, `QueueTexture` | GPU, the two workers | `VisualPipeline`, `TextureRefinement` |
| GPU resources (`GzTerrainRenderer.cc`, `Ogre2ResourceCleanup.cc`) | reference counts by name, four deferred queues, a page's offscreen count | upload, release, eviction and restore, `ProcessDeferred*`, `OnRenderTeardown` | graphics engine | `GpuResources` |
| Imagery refinement (`TerrainRuntime.cc`, `TerrainBuilder.cc`) | refine request, the zoom of every page, updates not yet applied | `refinementWorker`, `BuildTextureStage`, `ApplyTextureUpdate`, `ApplyPendingTexture` | renderer | `TextureRefinement` |
| Outer coverage plan (`TerrainCoverage.hh`, `TerrainBuilder.cc`) | a quadtree partition | `planTerrainCoverage`, edge vertices | terrain builder | `CoveragePlan` |
| GUI preview (`gui/GuiTerrain.cc`, `gui/DynamicTerrainGui.cc`) | source: copy of the snapshot, revision; viewer: manifest, page cache, what it queued and sent | `SetSnapshot`, `ApplyTexture`, manifest and page requests, `Poll`, the hand-over in `OnPreRender` | both workers, transport, a renderer of its own | `GuiPreview` |
| Terrain builder caches | page-texture and outer-mesh caches, pins | build, evict | tile store | results only |
| Runtime lifecycle, model configuration registry, SDF options, projection, image checks | little or none | | | not modelled |

### What is hard

* Slots of length one and generation counters are written by one thread and
  read by another in an order no test controls. A superseded build still
  delivers a result, and a request may be taken before it is known to be the
  newest.
* Retry timers are armed by whoever failed, the superseded generation included.
* The renderer's acknowledgement is several atomics, stored and read one after
  the other, and races the worker's activation timeout.
* Gazebo removes entities later than it was asked to, and not while paused.
* Several calls share a transfer while any of them gives up, another process
  publishes the file, or the service stops.
* Texture updates meet the swap of the terrain they were made for.
* Meshes and textures are counted by name over three slots and four deferred
  queues, while the driver refuses any call in the middle of an upload, an
  eviction, a swap or a release.
* Two workers decode the same tile, find its file damaged and repair it, while
  each runs into what the other has just done.
* The GUI pulls a snapshot page by page while the source changes under it.
* Pages of different size meet along an edge: a vertex on one side only is a
  crack.

`PROJECT.json` lists each such hazard at its line with the properties that
cover it, or the reason why none does.

## 2. Modules

### DownloadCache, DownloadService, DownloadProofs

One action per critical section. The mutex is explicit where the worker holds
it over several steps (`worker` in `"pass"` or `"locking"`); callers' short
sections are single actions. `StartCall` .. `ReturnComplete` are `Ensure`;
`BeginPass` .. `EndPass` are the scheduling loop, one task per step in the
order `Before` (priority, then sequence); `StartCached`, `StartFailed`,
`StartLocking`, `LockBusy`, `FoundAfterLock`, `CopyLocal`, `BeginTransfer` and
`TransferRefused` are the branches of `start`; `Perform` and `Transfer*` are
curl and the reading of its messages; `Drain` is the end of the worker. `file`
and `stamp` abstract a path to "usable or not" and the recorded size and mtime
to "matches or not". HTTP status codes and back-off lengths appear as the
branch they select.

`DownloadService` is what `Ensure` promises: every tile asked for is answered
once, "usable" only for a usable file or one a recorded check vouches for,
"withdrawn" only to a caller that gave up or a service that stops. The
refinement mapping (`Service`, `ImplementsService`) ends `DownloadCache`; TLC
checks it on a small instance, `DownloadProofs` proves it for all.

### TileStore, TileStoreProofs

A worker's call is a job: one imagery tile, a mosaic of elevation tiles, or the
alignment offset. `EnsureMosaic` and `FetchMissing` are the download service
as `DownloadService` describes it, in one step. `Peek`, `Hit`, `Miss`,
`Decode`, `Repair`, `Redecode` are one load under its striped mutex;
`InsertImagery` and `InsertElevation` the two LRU caches with their byte
counters, which differ in the code. `Recall` and `Align` are
`OriginAlignmentOffset`. A raster is its tile; sizes are numbers. Outside
causes (offline, superseded requests, files damaged by somebody else) are
recorded in `excused`, so that `FailureHasCause` can ask whether a failed load
had one.

### CollisionPipeline, CollisionProofs

`PreUpdate` is cut into the functions it calls, in their order: `EnsureSafety`,
`Bind` (or `WaitForModel`), `Retire`, `Apply` (`PollCollision` and
`applyCollisionResult`), `UpdateSafety`, `Update` (`updateCollisionRequest`),
then `Iterate`, in which Gazebo executes removals, time passes, the aircraft
moves and pause may change. `Take`, `BuildSucceeds`, `BuildCancelled` and
`BuildFails` are the worker. Simplifications:

* `Post` writes the request slot and `latest` in one step. The code stores the
  latter afterwards; the only reader in between is the worker, whose comparison
  gives the same verdict for the request it may just have taken.
* The safety ground leaves the world at once. Gazebo defers this removal like
  any other, so the model has less ground than the program.
* `updatePeriodSec`, a missing tracked model and `enableCollision=false` only
  skip updates and are left out.

### VisualPipeline, VisualProofs

Simulation thread (`UpdateVisual`, and `StoreLatest` as a step of its own),
visual worker (`Take`, `Look` for `hadActiveTerrain`, `Bootstrap*`, `Progress`
and `QueuePartial` for partial snapshots, `Prepare*`, `Publish`, `Outer*`) and
render thread (`Adopt`, `Stage`, `UploadStep`, `GrowStep`, `Swap`: the stages
of `OnPreRender` in order). The pages of a generation are built in a fixed
order, so a set of pages is the length of a prefix; a snapshot is a generation,
a revision, a number of pages and the flag `progressiveInitial`.

Atomics tell the other threads what is on screen: centre, generation, revision
and a flag. Each store is an action of its own (`StoreCenter`,
`StoreGeneration`, `StoreActive`, `StoreRevision`, in the order of the code,
which differs between a growing terrain and a swap), and so is each read of the
worker: `ReadGeneration` and `ReadRevision` in the loop of `awaitActivation`,
`ConfirmGeneration` and `Activated` or `Timeout` after it. Any thread may run
between two of them. Stores and reads take effect in program order; the
language would let the relaxed load of the generation move behind that of the
revision (GzTerrainRenderer.cc:176, 181), x86 does not. The three coordinates
are one value, but a reader in the middle of a swap may find any distance
(`CenterFar`). `revisionOf` and `misled` are history: of which generation the
acknowledged revision is, and whether a worker has taken the revision of
another generation for its own. The code cannot tell; section 3 says what
follows.

A growing upload may fail at any page of a frame, the first one included
(`Broken`): what was uploaded stays, be it nothing, the slot stops growing, and
only the worker's timeout notices.

The variable `eager` chooses the timing: when TRUE the retry timer may be due
at any time; when FALSE only while no request waits or is served, which is a
`retryDelaySec` longer than a build. Safety holds for both, `Settles` only
without it: `visualWorker` arms the timer also when a build is cancelled by a
newer request (TerrainRuntime.cc:215), so with a build longer than
`retryDelaySec` each retry may cancel the build before it. No document promises
progress there, so no run asks for it; the collision pipeline has the same
pattern (TerrainRuntime.cc:761-768), hence the assumption on `RetryTicks` in its
`Settles`. Warm-ups take their default of one frame.

### GpuResources, GpuProofs

The render thread's frame in eight phases, each a function of `OnPreRender` or
`OnPostRender`. A page slot holds a mesh, a geometry, a material and a texture;
names tell which generations share a mesh (`MeshOf`) and which level a texture
has. Every call of the engine has a kind; the kinds in `refusing` fail, and
the code's error paths say what then stays behind: a page whose geometry could
not be destroyed (`latePages`), a material that could not be unbound
(`lateMaterials`), a resource that could not be deleted (`late`). `DrainPages`,
`DrainMaterials` and `DrainDeletes` are the retries at the start of a frame,
`Residency` the frustum eviction, `Teardown` the end. Camera geometry becomes a
free choice of which pages are seen.

### TextureRefinement, RefinementProofs

The pages of places that stay in view, with detail levels. `Recenter`,
`Publish` and `HandOver` are what the visual pipeline contributes; `Take` ..
`Retry` the refinement worker; `Stage`, `Upload`, `ApplyTexture`, `Defer` and
`Swap` the render thread. Both settings of `visualProgressiveUploads` are
explored (`eager`). Every coverage revision counts as a generation. A texture
the driver refuses is lost until the next generation, as in the code; the
properties that this would break say `rejects = 0`.

### CoveragePlan, CoverageProofs

`planTerrainCoverage` step by step: `Divide` around the inner rectangle and its
ring, `Split` a leaf that is too coarse for a neighbour (any such pair; the code
takes the first it finds), `Finish`, or refuse when the limit is exceeded.
Leaves are a set instead of a vector. `EdgePoints` are the vertices
`BuildOuterCoverage` and `stitchCoverageBoundary` put on an edge, as positions
along it; triangulation inside a page is left out.

### GuiPreview, GuiProofs

Source and viewer. `SetSnapshot` and `ApplyTexture` are the callbacks of the
two workers; each raises `revision`. `ReadManifest`, `PullPage`, `Assemble`,
`PollFails`, `PullFails` and `NothingNew` are the branches of `Poll`; `Queue`
is `queueGuiSnapshot`, which hands on only what changed; `PreRender` the
hand-over to the renderer; `Invalidate` a scene graph that is thrown away. A
page is its place, the generation that names its mesh and the level that names
its texture, since the program compares names too.

## 3. Runs

Conjunctions of named parts are checked as one property where the parts share
a purpose:
`BatchesAccounted` = `TypeOK`, `PendingIsOwned`, `FinishedCounts`;
`AllAccounted` = that, `TransfersAccounted`, `QueueBounded`;
`RemovalsComplete` = `RetirementCompletes`, `SafetyRetires`;
`AcknowledgedIsVisible` = `TypeOK`, `AcknowledgedPages`, `ScreenOccupied`;
`PartitionKept` = `TypeOK`, `CoversOnce`, `InnerKept`, `WithinLimit`;
`SeamsMatch` = `OneCoarserNeighbor`, `EdgesMatch`;
`NothingLost` = `TypeOK`, `UpdatesConserved`;
`LoadedWhileHeld` = `HeldIsLoaded`, `NothingLeaks`;
`ViewConsistent` = `SentIsShown`, `LostIsBlank`.

| Run | Asks | Bounds, and why they are enough |
|---|---|---|
| `download` | bookkeeping of tasks, subscribers, handles, windows and locks; cancellation; shutdown; refinement of `DownloadService` | two calls of different priority; one asks for a tile twice and for a second tile the other wants too, which another process may fetch; one retry, concurrency 2 with `perHost` 1, a queue of 2, one foreign lock, disk damage: shared, full and contended cases all occur |
| `download_hung` | every call returns if transfers end; cancelled calls and `Stop()` return even if none does; the queue limit; two sources for one tile | two tiles compete for one queue place and one transfer; no retries, no other processes; only thread fairness |
| `tile_store` | caches consistent and within their limits; no failure without a cause | two workers, three imagery tiles and two elevation tiles; caches of 2 bytes, tiles of 1, 2 and 3: what fits together, alone and not at all; one fragile file of each kind |
| `origin_offset` (violation) | terrain at the origin is aligned to Z = 0 | the same with two elevation tiles; only superseded requests |
| `collision` | order, memory, ground, tracking, swaps; settling | three tiles of which the outer two are far apart, two moves, one failed build, one refusal; `RetryTicks` 4 exceeds build, overlap and removal |
| `visual` | no request lost, truthful acknowledgement, whole replacements, no regress; complete terrain in the end | two near pages and one outer, one move, one failed build or slow activation, one failed upload; three requests with an eager timer, five (as many as the faults can call for) without |
| `visual_retained` (violation) | "Complete terrain remains visible during later replacements." | one failure, two requests |
| `visual_misled` (violation) | "Failed staging never releases the last complete active generation. The runtime retries later" | two near pages, two requests, no move; one failed build or slow activation, one failed upload |
| `gpu` | exact reference counts, no use after free, no leak, no place shown twice; recovery; clean teardown | a near page with two levels and an outer page whose mesh is shared; growth and a second generation; any two kinds of calls refused at once, in one period |
| `refinement` | no update lost, no detail lost, full detail in the end | two pages, two levels, two generations, one outage, one refused texture |
| `coverage` | partition, balance, seams, limit, termination | 16 by 16 tiles, inner rectangles of 1 or 2 tiles a side at corners, edges and centre; margins 0 and 1, limits that do and do not suffice |
| `gui` | no mixed snapshot; what is shown is what was sent, blank after a loss; detail kept; catches up | two places, two levels, two generations, two texture updates, three lost requests (the number after which the viewer gives up), one invalidation |

Every property of a passing run is broken by a mutated definition of the
module, named in `PROJECT.json`; the mutated forms (`...Unarmed`, `...Always`
and so on) stand before the definition they change.

The download runs and `gpu` switch deadlock checking off because the service
stops for good (`Stop`, `Join`) and the render thread is torn down. In the
other models the simulation, the render loop or a terminal stutter goes on for
ever.

### What the three violations show

* `origin_offset`: `OriginAlignmentOffset` stores the offset per zoom for the
  rest of the process, also when the raster at the origin was missing and it
  fell back to the reference height (TileStore.cc:574-578). A visual build
  asks for the offset first (TerrainBuilder.cc:425), so a request superseded
  while that tile downloads is enough; the terrain stays off by the height of
  the ground at the origin, against README.md:181.
* `visual_misled`: a swap stores `activeGeneration_` and then
  `activeCoverageRevision_` (GzTerrainRenderer.cc:1060-1061), `awaitActivation`
  reads them one after the other (TerrainRuntime.cc:389-391), and revisions
  count from the same start in every generation. Terrain of generation 1 has
  reached a high revision, but late, so that generation 2 still found an empty
  screen and publishes partial snapshots. One of them is swapped in; between
  the two stores the worker reads generation 2 with the revision of generation
  1, takes the full revision it has just queued for active and goes idle. If
  the upload of that revision then fails, no retry is armed and nobody serves
  the request, against the comment at GzTerrainRenderer.cc:768: a stationary
  aircraft keeps the partial terrain. `NothingForgotten` and `Settles` hold
  unless a worker was misled in this way, and say so.
* `visual_retained`: the first terrain becomes visible only after its
  activation timeout. The retry's worker had read `hadActiveTerrain` while the
  screen was empty (TerrainRuntime.cc:193), so it publishes partial snapshots.
  They are staged, and one page replaces the complete terrain, against
  README.md:17. `ReplacementsWhole` and `PictureNeverRegresses` say what does
  hold: a terrain whose worker saw the screen occupied appears whole, and no
  older generation comes back.

### Fairness

* Downloads: the worker never blocks longer than its 25 ms poll (weak). A call
  needs the mutex, which the worker gives up for each wait or poll; it can get
  it again and again but not at every moment (strong). `EnvironmentFairness`
  (transfers end within `CURLOPT_TIMEOUT_MS`, back-offs expire, foreign locks
  are released) is a premise of `EnsureReturns` only. It leaves out a server
  that answers with a `Retry-After` in the distant future: then `CancelReturns`
  and `StopReturns` are what remains.
* Tile store: each worker runs (weak). `Begin` is included: the pipelines keep
  asking.
* Collision: both threads run; the simulation is not paused for ever and a
  model configuration appears again and again until it is bound (strong for
  `Iterate(FALSE)` and `Bind`).
* Visual and refinement: each of the threads runs (weak), and the wait for an
  activation ends (weak on `Deadline`, its time limit). Nothing is assumed of
  data or GPU; their failures are bounded in number.
* GPU: Gazebo goes on rendering until teardown (weak, on the phases of a
  frame). That the driver relents is a premise of `Recovers`.
* GUI: the viewer polls and renders (weak). Losses are bounded in number; that
  the network works again is what this bound says.

## 4. Proofs

All theorems hold for any values of the constants that satisfy the assumptions
of the module (`ConstantsAssumption`): any numbers of calls, workers, tiles,
pages and generations, any limits and delays, and any bounds.

| Module | Theorem | Statement |
|---|---|---|
| `DownloadProofs` | `InvHolds` | `Spec => []IInv` |
| | `BatchesAreAccounted`, `TransfersAreAccounted`, `AllAreAccounted` | `BatchesAccounted`, `TransfersAccounted`, `AllAccounted` |
| | `ShutdownIsClean` | `Spec => []ShutdownClean` |
| | `CancelsAreIsolated`, `WindowIsRespected` | `CancelIsolated`, `WindowRespected` |
| | `ServiceIsImplemented` | `Spec => ImplementsService` |
| `CollisionProofs` | `TypeCorrect`, `OrderHolds`, `NothingIsForgotten` | `TypeOK`, `GenerationsOrdered`, `NothingForgotten` |
| | `PatchesAreTracked`, `GroundHolds`, `SwapsMakeBeforeBreak` | `PatchesTracked`, `GroundAlways`, `MakeBeforeBreak` |
| `VisualProofs` | `InvHolds` | `Spec => []IInv` |
| | `AnswersAreTrue`, `RequestsAreServed` | `AcknowledgedIsVisible`, `NothingForgotten` |
| | `ReplacementsAreWhole`, `PictureAdvances` | `ReplacementsWhole`, `PictureNeverRegresses` |
| `GpuProofs` | `GpuInvHolds` | `Spec => []GpuInv` |
| | `CountsAreExact`, `NothingIsDeletedOrLeaks` | `CountsMatchHolders`, `LoadedWhileHeld` |
| | `PlacesAreShownOnce`, `TeardownLeavesNothing` | `ShownOnce`, `TeardownReleases` |
| `RefinementProofs` | `TypeCorrect`, `DetailIsKept`, `UpdatesAreConserved` | `TypeOK`, `DetailKept`, `NothingLost` |
| `CoverageProofs` | `InvHolds`, `PartitionIsKept` | `IInv`, `PartitionKept` |
| | `SeamsAreTight` | `SeamsMatch` |
| | `PlanningEnds` | `Work` is a natural number and decreases with every step |
| `TileStoreProofs` | `CachesAreConsistent`, `FailuresAreExcused` | `CacheConsistent`, `FailureHasCause` |
| `GuiProofs` | `SnapshotsAreWhole`, `SourceKeepsDetail` | `AssembledWhole`, `DetailKept` |
| | `ViewIsConsistent` | `Spec => []ViewConsistent` |

### Downloads

The properties are not inductive: whether a transfer may start depends on what
the worker found out under the mutex earlier in the same pass. The invariant
has a part for each owner of state. `Accounts` relates task map, handles, host
counters and file locks. `Place` says what the worker may rely on at each point
of a pass: the keys it still has to look at are tasks without a transfer, and
the room it found before it took the file lock is still there, since nobody
else starts transfers. `Slots` says of each result slot of a call whether it is
not reached, open or answered, and who will answer an open one: a task, without
exception. So when the worker leaves, and with it the last task, no submitted
tile is open (`ShutdownIsClean`). There is one
lemma per action and part. Cardinalities move by one element at a time, so the
lemmas of the library about finite sets suffice.

For the refinement, each step maps to a step of `DownloadService` or a
stutter. What needs the invariant is that an answer is fair: "usable" is given
while the file is good or its stamp matches, "withdrawn" only to a call that
gave up or after `Stop`.

### Collision

1. `TypeOK` is inductive; one lemma per action and `TypeStep`. Timers are the
   delicate part.
2. `GenerationsOrdered` is inductive over `TypeOK`: generations decrease
   strictly along request slot, worker, result slot and world. A new request
   has the highest generation (`PostOrdered`); a result that is stored is newer
   than the one it replaces (`StoreOrdered`).
3. `NothingForgotten` is inductive over the first two. The order shows that an
   outdated result that is thrown away was not the newest, so the newest is
   still upstream.
4. `PatchesTracked` and `GroundAlways` are not inductive: whether a removal
   leaves ground behind depends on which entity was asked to go and when.
   `WorldConsistent` is the strengthening: only the predecessor is up for
   removal, only after the overlap; handles and entities agree; the safety
   ground was given up only for a patch.

### Visual pipeline

A snapshot travels from the worker (`built`) through the queue (`pending`) into
a slot (`staging`, `active`). `Ordered`: generations reach the worker in order
and nothing on the way is newer than what it serves. `Monotone`: within a
generation a later revision never has fewer pages. `Dominates`: the worker is
ahead of everything it has sent.

Since the atomics are stored and read one by one, the invariant says for each
point between two stores what has been stored and what not. `NamesOK`:
generation and centre are never newer than the terrain on screen, and equal to
it except within the stores. `RevisionOK`: the revision is of the generation on
screen, or of an older one while a swap is being stored. `AwaitOK`: a
generation the worker has read stays on screen between its two reads, because
nothing newer than the worker's has been sent. So a revision of its own
generation that is not older than what it published means that those pages are
visible, and any other revision is recorded in `misled`. `Whole` adds that a
snapshot of a worker that saw the screen occupied has all pages wherever it is.

### GPU resources

The heart of the inductive invariant `GpuInv` is `Balanced(gpu, out)`: the
counter of a resource is what the pages outside hold of it (`out`) plus what
the two deferred queues hold; counted resources are in the engine, and engine
resources without a reference are marked to be deleted. It is relative to `out` because an
operation works on one page, while the others are of no concern to it: each
lemma says that the balance with the page's share (`Plus`) becomes the balance
with the share of what became of the page (`Fine`), or without it. While
`MakePageResident` has an imported mesh and no reference yet, and while a
resource is about to be freed, one resource is excepted (`BalancedBut`).
`GpuInv` adds that the replaced terrain is gone before there can be another,
that the pages a slot still has to upload are not among those it has, and that
neither replacement nor replaced terrain is on screen.

Destroying a slot, draining a queue, observing all pages and picking the
missing pages are folds. A fold is a recursive function over the subsets of a
finite set, and what it computes is shown in two steps. `LoopExists`: such a
function exists, so that the `CHOOSE` in the fold's definition finds one.
`LoopInduction`: what holds of the empty set, and of a set once it holds of
the set without some element, holds of the whole. Both are proved by least
counterexample: the library says that `<` on the naturals is well founded, so
a set of numbers that is not empty has a least one (`LeastNumber`). Since this
is a statement about sets, no induction theorem with an operator parameter is
needed.

### Refinement

`InOrder` (of what is handed over, replaced and updated) orders the generations
the threads work on. `ReplacementFiner`: the pages a replacement has uploaded
are at least as fine as those on screen. Each page takes over the finer picture
when it is created (`Created`), and from then on an update for the visible
terrain goes to the replacement (`Receiver`). `DetailIsKept` follows.
`Conserved` follows each level from the worker's `final` over the queue and the
deferred rest to the screen, also when an update is merged into a queued one or
preempted by a swap.

### Coverage

A tile is the disjoint union of its children (`ChildBoxes`, `ChildrenApart`,
`ChildrenCover`). The invariant says that the tiles at hand, on the stack and
among the leaves, do not overlap (`Apart`, also between two entries of the
stack), lie in the outer rectangle (`Inside`), cover it point by point
(`Covered`), that inner pages and the ring have the finest zoom and the right
marks (`Marked`), and that the limit is respected (`Counted`).

For the seams, in a finished plan the zooms of neighbours differ by one at most.
A tile begins at a multiple of its size (`Aligned`), so the edge of a page lies
within that of a neighbour that is as coarse or coarser (`Nested`), which is
then the only one on that side (`OnlyNeighbor`). Between equal pages the grids
agree (`EqualSeam`). Between a page and a coarser one both edges get both grids,
and the other fine neighbours of the coarse page add the ends of the edge at
most, which are grid points anyway (`FinerSeam`). The inner rectangle, whose
meshes are not stitched, has neighbours of its own zoom only, thanks to the
ring (`InnerNeighbor`).

`PlanningEnds` is what `Ends` says without its fairness: every turn either adds
tiles, and the limit is looked at after each (`Roomy`), or takes one off the
stack, or goes on to the next phase. So `Work`, which counts each tile that
there is still room for twice and each one on the stack once, decreases. That
tiles really become more needs the invariant: children and new leaves are
apart from all others, so none is there already.

The prover has no theory of exponentiation, so the module defines `1 << n` as a
recursive function (`TwoTo`). That the function exists, that its values are
positive and that exponents add up (`TwoToDef`, `PowersPositive`, `PowersAdd`)
is proved by least counterexample, as the folds above.

### Tile store

`CallsOK` says what a call is. `Repairing` is the heart of `FailuresAreExcused`:
a worker that found a file damaged relies, from taking back the recorded check
until it decodes again, on the file being good, or on an excuse; other workers
that download or validate the same file meanwhile cannot turn this around.

`CachesAreConsistent` has a sequential and a concurrent half. Sequentially
(`CachesOK`), the byte counter is the sum of the sizes of the cached tiles, a
fold over a set; that the order of summing does not matter is again proved by
least counterexample, by counting bytes (`SumIsCount`). Moving a hit to the
front permutes the list, inserting adds one tile and its size, and each turn
of the eviction loop drops the last tile and its size until the rest fits
(`RoomMade`); of elevation the newest tile stays (`NewestStays`). Concurrently,
the mutex of the cache is given up between the miss and the insertion, so
other workers insert in between, and imagery is inserted without looking again
(TileStore.cc:370-380). What keeps a tile from being listed twice is the
striped mutex, held from the miss to the insertion: no two workers hold the
same stripe (`Exclusive`), so an imagery tile that was missing when its stripe
was taken still is (`Fresh`).

### GUI

`Pulling` says where a pull stands: revisions are numbered (`Numbered`) and the
pages pulled are those of the manifest that was read (`PulledOK`), because the
source refuses a page of a revision it no longer has. The places in a snapshot
differ (`PlacesDiffer`), so that taking over the finest known texture of each
place never makes one coarser.

`ViewIsConsistent` is about what `queueGuiSnapshot` leaves out: a snapshot whose
generation, coverage and number of pages are those of the one sent before is
not handed over again, and textures only where they became finer. That is
right only as long as equal numbers mean equal meshes, although the viewer
numbers generations by itself and keeps a number when the meshes it pulled are
the same or the source's coverage grew. `Upstream`: source, manifest and
assembled terrain are each at least as far as the next, in the source's
numbers. `Downstream`: assembled, handed-over, sent and shown terrain are each
at least as far as the next in the viewer's numbers, and equally far only with
the same meshes (`Follows`). The link is that meshes tell the generation they
are of (`Signed`): every snapshot has a page of its own generation, so equal
meshes are of the same generation and, as the source never goes back, the
later one has at least the coverage. What is shown then has, page by page, the
level that was sent or a finer one (`DeltasSuffice`). `ConstantsAssumption`
accordingly says that a snapshot has a near page: the bootstrap publishes only
after it has added one (TerrainBuilder.cc:655-660), and near meshes are
named after their generation (TerrainBuilder.cc:611).

### Only model-checked

Everything temporal under fairness: `EnsureReturns`, `CancelReturns`,
`StopReturns`, `RemovalsComplete`, both `Settles`, `Recovers` of the GPU model,
`DetailArrives`, `CatchesUp` and `Ends`; TLAPS cannot reason about fairness. The
three violations are counterexamples of TLC. Every invariant and every action
property that a passing run checks is also proved.

## 5. Not modelled

* Terrain builder: page-texture and outer-mesh caches with their pins and
  eviction, mesh geometry, skirts. `VisualPipeline` sees how far a build got.
  A gray page of the bootstrap that is counted at `bootstrapZoom` although its
  imagery failed (TerrainBuilder.cc:258, 596) is below the models' levels.
* Start and stop of the runtime: flags, notifications and joins of three
  threads. A stopping worker behaves like a superseded one; the download
  service's part, whose calls a worker might wait for, is modelled
  (`StopReturns`).
* The heightmap file of a collision patch, which is rewritten in place while
  Gazebo may read the previous one (CollisionTerrain.cc:14): the physics
  engine's reading times are not in the source.
* GUI: encoding of pages, discovery of the service, a restart of the source
  whose revisions collide with the old ones (DynamicTerrainGui.cc:151). The
  viewer never sends again a snapshot its renderer could not upload
  (DynamicTerrainGui.cc:82): its renderer is assumed to succeed, and the
  failures of the same renderer class are the subject of `GpuResources`.
* Renderer: `visualFrustumEviction=false` (it skips `Residency`), the cache of
  decoded images, and a texture refused by the driver, which the worker counts
  as refined (GzTerrainRenderer.cc:890; `TextureRefinement` has it as
  `rejects`). The queue of unbound materials grows by one with each eviction
  while the driver refuses to unbind; `MaxLate` bounds it in the model.
* Tile store: the mutex of a tile is held while it is downloaded
  (TileStore.cc:428), which delays others but blocks nobody for ever;
  interpolation of heights, and the providers `flat` and `none`.
* Option parsing, projection, image and JPEG checks: sequential
  floating-point or byte code without shared state.
* The calls of the Ogre2 cleanup into the engine, and the model registry: the
  models see their verdicts.

## 6. Order of work

Built in order of importance: downloads, collision, visual pipeline, coverage,
refinement, GPU resources, tile store, GUI preview; the proofs followed the
runs, each invariant checked by TLC first.

Worth adding, in this order:

1. The builder's page-texture and outer-mesh caches: a pinned entry is never
   evicted, pins are balanced over failed and superseded builds.
2. `Stop()` of the runtime over its three workers and their waits.
3. Measures like `Work` for what else TLC checks on an instance only: the
   recovery of `GpuResources` once the driver relents, the retries of
   `DownloadCache`.
