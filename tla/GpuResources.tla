----------------------------- MODULE GpuResources -----------------------------
(***************************************************************************)
(* GPU resources of the terrain pages, as the render thread handles them.  *)
(*                                                                         *)
(* A page needs a mesh and a texture of the graphics engine.  Their names  *)
(* are shared: the pages of the visible terrain, of its hidden replacement *)
(* and of the terrain being retired may use the same ones, so they are     *)
(* counted by name and deleted with the last reference.  Pages out of      *)
(* every camera's view are evicted and brought back.  The engine may       *)
(* refuse any call; what could not be released is released later, by one   *)
(* of four deferred queues.                                                *)
(*                                                                         *)
(* OnPreRender is split where the driver's mood may change.  One page is   *)
(* uploaded a frame and one page refined by an update; warm-ups take the   *)
(* default of one frame.                                                   *)
(***************************************************************************)
EXTENDS Integers, Sequences, FiniteSets, SequencesExt

CONSTANTS
    Pages,           \* geographic pages
    Resident,        \* those whose mesh keeps its name over generations (outer pages)
    Levels(_),       \* levels of detail of a page's texture
    OffscreenFrames, \* cfg.visualOffscreenFrames
    Snapshots,       \* bound: the page sequences of each generation's revisions
    MaxLate,         \* bound: materials that wait to be unbound, for more evictions
    MaxAtOnce,       \* bound: kinds of calls refused at once
    MaxRefusals      \* bound: how often the driver starts to refuse something

ASSUME ConstantsAssumption ==
    /\ Pages # {} /\ Resident \subseteq Pages
    /\ \A p \in Pages : Levels(p) \subseteq Nat /\ Levels(p) # {}
    /\ OffscreenFrames \in Nat \ {0}
    /\ MaxLate \in Nat /\ MaxAtOnce \in Nat /\ MaxRefusals \in Nat
    /\ Snapshots \in Seq(Seq(Seq(Pages) \ {<<>>}))
    /\ \A gen \in DOMAIN Snapshots : \A r \in DOMAIN Snapshots[gen] :
          /\ IsInjective(Snapshots[gen][r])
          /\ \A q \in 1..r : IsPrefix(Snapshots[gen][q], Snapshots[gen][r])

\* What the driver may refuse: to import a mesh, to create a visual or a
\* material, to take a texture; to destroy a geometry, to unbind a texture, to
\* delete a mesh or a texture.
Kinds == {"import", "create", "upload", "geometry", "unbind", "mesh", "texture"}

\* Names of engine resources.  None stands for an empty name.
None == <<"none">>
MeshOf(page, gen) == <<"mesh", page, IF page \in Resident THEN 0 ELSE gen>>
TextureOf(page, level) == <<"texture", page, level>>
Meshes == {MeshOf(page, gen) : page \in Pages, gen \in DOMAIN Snapshots}
Textures == UNION {{TextureOf(page, level) : level \in Levels(page)} : page \in Pages}
Resources == Meshes \cup Textures
Level(texture) == texture[3]

VARIABLES
    rpc,              \* the render thread's place in a frame, "down" after teardown
    active, staging, retired,     \* the slots
    pendingSnapshot,  \* pendingSnapshot_
    published,        \* history: the snapshot queued last
    gpu,              \* reference counters, engine and deferred queues
    refusing,         \* what the driver refuses at present
    refusals          \* bound

slotVars == <<active, staging, retired>>
driverVars == <<refusing, refusals>>
vars == <<rpc, slotVars, pendingSnapshot, published, gpu, driverVars>>

\* A PageSlot.  A geometry comes with visual, submesh and mesh reference, `tex`
\* with a material bound to it and a texture reference.
PageSlots == [srcMesh : Meshes, srcTex : Textures, mesh : Meshes \cup {None},
              geometry : BOOLEAN, tex : Textures \cup {None}, resident : BOOLEAN,
              shown : BOOLEAN, offscreen : 0..OffscreenFrames, warming : BOOLEAN]

\* A Slot: `left` are the pages still to upload, `grows` is progressiveInitial.
NoSlot == [gen |-> 0, rev |-> 0, pages |-> [p \in {} |-> None],
           left |-> <<>>, warming |-> FALSE, grows |-> FALSE]
NewSlot(s, grows) ==
    [NoSlot EXCEPT !.gen = s.gen, !.rev = s.rev, !.left = Snapshots[s.gen][s.rev],
                   !.warming = TRUE, !.grows = grows]

NoSnapshot == [gen |-> 0, rev |-> 0, initial |-> FALSE]

EmptyGpu == [refs |-> [r \in Resources |-> 0], loaded |-> {}, late |-> {},
             latePages |-> <<>>, lateMaterials |-> <<>>]

Init ==
    /\ rpc = "drain"
    /\ active = NoSlot /\ staging = NoSlot /\ retired = NoSlot
    /\ pendingSnapshot = NoSnapshot
    /\ published = NoSnapshot
    /\ gpu = EmptyGpu
    /\ refusing = {} /\ refusals = 0

-----------------------------------------------------------------------------
(***************************************************************************)
(* Counted resources.                                                      *)
(***************************************************************************)
\* Acquire, and the engine loads the resource if it has not.
Acquire(g, r) ==
    [g EXCEPT !.refs[r] = @ + 1, !.loaded = @ \cup {r}, !.late = @ \ {r}]

\* Delete a resource without references; a refused deletion is deferred.
Free(g, r) ==
    IF r \in g.loaded /\ r[1] \in refusing
    THEN [g EXCEPT !.late = @ \cup {r}]
    ELSE [g EXCEPT !.loaded = @ \ {r}, !.late = @ \ {r}]

Release(g, r) ==
    CASE g.refs[r] > 1 -> [g EXCEPT !.refs[r] = @ - 1]
      [] g.refs[r] = 1 -> Free([g EXCEPT !.refs[r] = 0], r)
      [] OTHER -> g

\* Mutant: a page that failed before it had its reference deletes the mesh.
ReleaseMeshAnyway(g, p) ==
    CASE p.mesh = None -> g
      [] p.mesh # None /\ p.geometry -> Release(g, p.mesh)
      [] OTHER -> Free(g, p.mesh)
\* A page that failed before it had its reference leaves a mesh others use.
ReleaseMesh(g, p) ==
    CASE p.mesh = None -> g
      [] p.mesh # None /\ p.geometry -> Release(g, p.mesh)
      [] OTHER -> IF g.refs[p.mesh] # 0 THEN g ELSE Free(g, p.mesh)

\* Mutant: the reference is given up although the texture is still bound.
DropMaterialEarly(g, tex) ==
    IF tex = None THEN g
    ELSE IF "unbind" \in refusing
    THEN Release([g EXCEPT !.lateMaterials = Append(@, tex)], tex)
    ELSE Release(g, tex)
\* DestroyPageMaterial: a material that cannot be unbound keeps its reference.
DropMaterial(g, tex) ==
    IF tex = None THEN g
    ELSE IF "unbind" \in refusing
    THEN [g EXCEPT !.lateMaterials = Append(@, tex)]
    ELSE Release(g, tex)

-----------------------------------------------------------------------------
(***************************************************************************)
(* Pages.                                                                  *)
(***************************************************************************)
Hidden(p) == [p EXCEPT !.resident = FALSE, !.shown = FALSE]
Bare(p) == [Hidden(p) EXCEPT !.mesh = None, !.geometry = FALSE, !.tex = None]
Stuck(p) == p.geometry /\ "geometry" \in refusing

\* UnloadPageGpu.  Everything stays when the geometry cannot be destroyed.
Unload(g, p) ==
    IF Stuck(p) THEN [gpu |-> g, page |-> Hidden(p)]
    ELSE [gpu |-> DropMaterial(ReleaseMesh(g, p), p.tex), page |-> Bare(p)]

DestroyPage(g, p) ==
    IF Stuck(p) THEN [g EXCEPT !.latePages = Append(@, Hidden(p))]
    ELSE Unload(g, p).gpu

DestroySlot(g, slot) ==
    FoldFunction(LAMBDA p, h : DestroyPage(h, p), g, slot.pages)

\* The steps of MakePageResident on a page without GPU state.
Imported(g, p) ==
    [gpu |-> [g EXCEPT !.loaded = @ \cup {p.srcMesh}], page |-> [p EXCEPT !.mesh = p.srcMesh]]
Placed(g, p) ==
    [gpu |-> Acquire(g, p.srcMesh),
     page |-> [p EXCEPT !.mesh = p.srcMesh, !.geometry = TRUE]]
Textured(g, p) ==
    LET placed == Placed(g, p) IN
    [gpu |-> Acquire(placed.gpu, p.srcTex), page |-> [placed.page EXCEPT !.tex = p.srcTex]]

\* Whatever step fails, what the earlier ones made is unloaded.
Load(g, p, visible) ==
    LET undone(w) == Unload(w.gpu, w.page)
        done == Textured(g, p)
    IN CASE "import" \in refusing -> undone(Imported(g, p))
         [] "import" \notin refusing /\ "create" \in refusing -> undone(Placed(g, p))
         [] refusing \cap {"import", "create"} = {} /\ "upload" \in refusing -> undone(done)
         [] OTHER -> [done EXCEPT !.page.resident = TRUE, !.page.shown = visible,
                                  !.page.offscreen = 0]

MakeResident(g, p, visible) ==
    CASE p.resident -> [gpu |-> g, page |-> [p EXCEPT !.shown = visible]]
      [] ~p.resident /\ Stuck(p) -> Unload(g, p)
      [] OTHER -> LET w == Unload(g, p) IN Load(w.gpu, w.page, visible)

\* CreatePage: the finer of the snapshot's texture and the visible page's.
NewPage(page, level, slot) ==
    LET visible == {active.pages[k].srcTex : k \in DOMAIN active.pages \cap {page}}
        finer == {t \in visible : Level(t) > level}
    IN [srcMesh |-> MeshOf(page, slot.gen),
        srcTex |-> IF finer = {} THEN TextureOf(page, level) ELSE CHOOSE t \in finer : TRUE,
        mesh |-> None, geometry |-> FALSE, tex |-> None, resident |-> FALSE,
        shown |-> FALSE, offscreen |-> 0, warming |-> slot.grows]

-----------------------------------------------------------------------------
(***************************************************************************)
(* Deferred queues.                                                        *)
(***************************************************************************)
DrainPages(g) ==
    FoldLeft(DestroyPage, [g EXCEPT !.latePages = <<>>], g.latePages)

DrainMaterials(g) ==
    IF "unbind" \in refusing THEN g
    ELSE FoldLeft(Release, [g EXCEPT !.lateMaterials = <<>>], g.lateMaterials)

DrainDeletes(g) ==
    LET gone == {r \in g.late : g.refs[r] = 0 /\ r[1] \notin refusing} IN
    [g EXCEPT !.loaded = @ \ gone, !.late = @ \ gone]

\* Mutant: a material that could not be unbound is never tried again.
DrainTwo(g) == DrainDeletes(DrainPages(g))
\* Each queue feeds the next.
DrainAll(g) == DrainDeletes(DrainMaterials(DrainPages(g)))

-----------------------------------------------------------------------------
(***************************************************************************)
(* A frame: OnPreRender, then perhaps OnPostRender.                        *)
(***************************************************************************)
Turn(from, to) == rpc = from /\ rpc' = to
DriverFrame == UNCHANGED <<published, driverVars>>

Drain ==
    /\ Turn("drain", "stage")
    /\ gpu' = DestroySlot(DrainAll(gpu), retired)
    /\ retired' = NoSlot
    /\ UNCHANGED <<active, staging, pendingSnapshot>> /\ DriverFrame

\* A cumulative snapshot of the first terrain goes on growing in place.
Appends ==
    /\ staging = NoSlot /\ pendingSnapshot # NoSnapshot /\ pendingSnapshot.initial
    /\ \/ active = NoSlot
       \/ active.grows /\ active.gen = pendingSnapshot.gen /\ pendingSnapshot.rev >= active.rev

Newer(s, slot) == s.gen > slot.gen \/ (s.gen = slot.gen /\ s.rev > slot.rev)

\* The pages of a snapshot that a slot has not got.
Missing(snapshot, uploaded) ==
    FoldLeft(LAMBDA left, page : IF page \in uploaded THEN left ELSE Append(left, page),
             <<>>, snapshot)

Adopt ==
    LET slot == IF active = NoSlot THEN NewSlot(pendingSnapshot, TRUE) ELSE active IN
    /\ Turn("stage", "upload") /\ Appends
    /\ active' = [slot EXCEPT !.rev = pendingSnapshot.rev,
             !.left = Missing(Snapshots[pendingSnapshot.gen][pendingSnapshot.rev],
                              DOMAIN slot.pages)]
    /\ pendingSnapshot' = NoSnapshot
    /\ UNCHANGED <<staging, retired, gpu>> /\ DriverFrame

\* A newer snapshot is staged and supersedes what is staged.
Stage ==
    /\ Turn("stage", "upload") /\ ~Appends
    /\ IF /\ Newer(pendingSnapshot, IF staging = NoSlot THEN active ELSE staging)
          /\ ~(pendingSnapshot.initial /\ staging = NoSlot
               /\ active.grows /\ active.gen = pendingSnapshot.gen)
       THEN /\ gpu' = DestroySlot(gpu, staging)
            /\ staging' = NewSlot(pendingSnapshot, FALSE)
            /\ pendingSnapshot' = NoSnapshot
       ELSE UNCHANGED <<gpu, staging, pendingSnapshot>>
    /\ UNCHANGED <<active, retired>> /\ DriverFrame

With(slot, page, p) ==
    [slot EXCEPT !.pages = [k \in DOMAIN @ \cup {page} |-> IF k = page THEN p ELSE @[k]],
                 !.left = Tail(@)]

\* AdvanceStagingUpload: a page that fails takes the slot with it.
UploadStaging ==
    /\ Turn("upload", "grow")
    /\ IF staging.left = <<>> THEN UNCHANGED <<gpu, staging>>
       ELSE LET page == Head(staging.left) IN
            \E level \in Levels(page) :
              LET w == MakeResident(gpu, NewPage(page, level, staging), FALSE) IN
              IF w.page.resident
              THEN gpu' = w.gpu /\ staging' = With(staging, page, w.page)
              ELSE /\ gpu' = DestroySlot(DestroyPage(w.gpu, w.page), staging)
                   /\ staging' = NoSlot
    /\ UNCHANGED <<active, retired, pendingSnapshot>> /\ DriverFrame

\* AdvanceProgressiveUpload: a page that fails ends the growth, its
\* predecessors stay; pages uploaded in an earlier frame appear.
Reveal(p) == [p EXCEPT !.warming = FALSE, !.shown = p.shown \/ (p.warming /\ p.geometry)]

Grow ==
    LET revealed == [active EXCEPT !.pages = [k \in DOMAIN @ |-> Reveal(@[k])]] IN
    /\ Turn("grow", "texture")
    /\ IF active.left = <<>> \/ staging # NoSlot
       THEN active' = (IF active.grows THEN revealed ELSE active) /\ UNCHANGED gpu
       ELSE LET page == Head(active.left) IN
            \E level \in Levels(page) :
              LET w == MakeResident(gpu, NewPage(page, level, active), FALSE) IN
              IF w.page.resident
              THEN gpu' = w.gpu /\ active' = With(revealed, page, w.page)
              ELSE gpu' = DestroyPage(w.gpu, w.page) /\ active' = [revealed EXCEPT !.left = <<>>]
    /\ UNCHANGED <<staging, retired, pendingSnapshot>> /\ DriverFrame

\* Which slot takes an update of a generation.
Receiver(gen) ==
    CASE staging.gen = gen -> staging
      [] staging.gen # gen /\ active.gen = gen -> IF staging # NoSlot THEN staging ELSE active
      [] OTHER -> NoSlot

\* ApplyPendingTexture on one page: without GPU state only the source changes;
\* otherwise a new material takes the place of the old one.
Retextured(g, p, tex) ==
    CASE ~p.resident -> [gpu |-> g, page |-> [p EXCEPT !.srcTex = tex]]
      [] p.resident /\ "create" \in refusing -> [gpu |-> g, page |-> p]
      [] p.resident /\ "create" \notin refusing /\ "upload" \in refusing ->
            [gpu |-> DropMaterial(Acquire(g, tex), tex), page |-> p]
      [] OTHER -> [gpu |-> DropMaterial(Acquire(g, tex), p.tex),
                   page |-> [p EXCEPT !.srcTex = tex, !.tex = tex]]

Refined(slot, tex) ==
    LET page == tex[2]
        w == Retextured(gpu, slot.pages[page], tex)
        changed == [slot EXCEPT !.pages[page] = w.page]
    IN /\ page \in DOMAIN slot.pages /\ Level(tex) > Level(slot.pages[page].srcTex)
       /\ Len(w.gpu.lateMaterials) <= MaxLate
       /\ gpu' = w.gpu
       /\ staging' = IF slot = staging THEN changed ELSE staging
       /\ active' = IF slot = staging THEN active ELSE changed

\* There may be an update of any generation, with a texture that is refused
\* (page unknown, not finer) or taken.
ApplyTexture ==
    /\ Turn("texture", "swap")
    /\ \/ UNCHANGED <<active, staging, gpu>>
       \/ /\ staging.left = <<>> /\ (active.grows => active.left = <<>>)
          /\ \E gen \in 1..published.gen, tex \in Textures : Refined(Receiver(gen), tex)
    /\ UNCHANGED <<retired, pendingSnapshot>> /\ DriverFrame

\* A page of a complete slot has a visual.
SetVisible(slot, visible) ==
    [slot EXCEPT !.pages = [k \in DOMAIN slot.pages |->
                               [slot.pages[k] EXCEPT !.shown = visible]]]

\* Mutant: the replaced terrain stays visible until it is destroyed.
SwapShowing ==
    /\ Turn("swap", "view")
    /\ IF staging = NoSlot \/ staging.left # <<>>
       THEN UNCHANGED slotVars
       ELSE IF staging.warming
       THEN staging' = [staging EXCEPT !.warming = FALSE] /\ UNCHANGED <<active, retired>>
       ELSE /\ retired' = active
            /\ active' = SetVisible(staging, TRUE)
            /\ staging' = NoSlot
    /\ UNCHANGED <<pendingSnapshot, gpu>> /\ DriverFrame
\* After the warm-up the replacement takes the place of the visible terrain.
Swap ==
    /\ Turn("swap", "view")
    /\ IF staging = NoSlot \/ staging.left # <<>>
       THEN UNCHANGED slotVars
       ELSE IF staging.warming
       THEN staging' = [staging EXCEPT !.warming = FALSE] /\ UNCHANGED <<active, retired>>
       ELSE /\ retired' = SetVisible(active, FALSE)
            /\ active' = SetVisible(staging, TRUE)
            /\ staging' = NoSlot
    /\ UNCHANGED <<pendingSnapshot, gpu>> /\ DriverFrame

\* UpdateActivePageResidency on one page.
Observed(g, p, observation) ==
    CASE p.warming -> [gpu |-> g, page |-> p]
      [] ~p.warming /\ (observation = "visible" \/ (observation = "unknown" /\ ~p.resident)) ->
            MakeResident(g, [p EXCEPT !.offscreen = 0], TRUE)
      [] ~p.warming /\ observation = "unknown" /\ p.resident ->
            [gpu |-> g, page |-> [p EXCEPT !.offscreen = 0]]
      [] OTHER ->
            LET frames == Min({OffscreenFrames, p.offscreen + 1})
                counted == [p EXCEPT !.offscreen = frames]
            IN IF frames = OffscreenFrames THEN Unload(g, counted)
               ELSE [gpu |-> g, page |-> counted]

ObserveAll(seen) ==
    LET observe(k, w) ==
            LET v == Observed(w.gpu, w.pages[k], seen[k]) IN
            [gpu |-> v.gpu, pages |-> [w.pages EXCEPT ![k] = v.page]]
    IN FoldSet(observe, [gpu |-> gpu, pages |-> active.pages], DOMAIN active.pages)

\* Mutant: with an incomplete set of cameras eviction merely stops.
ResidencyPausing ==
    /\ \E next \in {"post", "drain"} : Turn("view", next)
    /\ \/ \E seen \in [Pages -> {"visible", "unknown", "offscreen"}] :
            LET w == ObserveAll(seen) IN
            /\ Len(w.gpu.lateMaterials) <= MaxLate \/ w.gpu = gpu
            /\ gpu' = w.gpu /\ active' = [active EXCEPT !.pages = w.pages]
       \/ /\ active' = [active EXCEPT !.pages = [k \in DOMAIN active.pages |->
                                        [active.pages[k] EXCEPT !.offscreen = 0]]]
          /\ UNCHANGED gpu
    /\ UNCHANGED <<staging, retired, pendingSnapshot, published, driverVars>>
\* With an incomplete set of cameras everything counts as seen.
Residency ==
    /\ \E next \in {"post", "drain"} : Turn("view", next)
    /\ \E seen \in [Pages -> {"visible", "unknown", "offscreen"}] :
         LET w == ObserveAll(seen) IN
         /\ Len(w.gpu.lateMaterials) <= MaxLate \/ w.gpu = gpu
         /\ gpu' = w.gpu /\ active' = [active EXCEPT !.pages = w.pages]
    /\ UNCHANGED <<staging, retired, pendingSnapshot, published, driverVars>>

PostRender ==
    /\ Turn("post", "drain")
    /\ gpu' = DestroySlot(gpu, retired)
    /\ retired' = NoSlot
    /\ UNCHANGED <<active, staging, pendingSnapshot>> /\ DriverFrame

RenderStep ==
    \/ Drain \/ Adopt \/ Stage \/ UploadStaging \/ Grow \/ ApplyTexture \/ Swap
    \/ Residency \/ PostRender

\* OnRenderTeardown, between frames.
Teardown ==
    /\ rpc \in {"drain", "post"} /\ rpc' = "down"
    /\ gpu' = DrainAll(DestroySlot(DestroySlot(DestroySlot(gpu, retired), staging), active))
    /\ active' = NoSlot /\ staging' = NoSlot /\ retired' = NoSlot
    /\ pendingSnapshot' = NoSnapshot
    /\ DriverFrame

-----------------------------------------------------------------------------
(***************************************************************************)
(* The workers that queue terrain, and the driver.                         *)
(***************************************************************************)
\* QueueSnapshot: a new generation or more coverage of the last one.  The queue is
\* read at "stage" only, so that nothing is lost by filling it there.
Publish ==
    /\ rpc = "stage"
    /\ \E gen \in {published.gen, published.gen + 1}, initial \in BOOLEAN :
         LET more == gen = published.gen
             rev == IF more THEN published.rev + 1 ELSE 1
         IN /\ gen \in DOMAIN Snapshots /\ rev \in DOMAIN Snapshots[gen]
            /\ more => initial = published.initial
            /\ published' = [gen |-> gen, rev |-> rev, initial |-> initial]
    /\ pendingSnapshot' = published'
    /\ UNCHANGED <<rpc, slotVars, gpu, driverVars>>

Refuse ==
    /\ rpc # "down" /\ refusals < MaxRefusals
    /\ \E kinds \in SUBSET Kinds : Cardinality(kinds) <= MaxAtOnce /\ refusing' = kinds
    /\ refusals' = refusals + 1
    /\ UNCHANGED <<rpc, slotVars, pendingSnapshot, published, gpu>>

Relent ==
    /\ rpc # "down" /\ refusing # {}
    /\ refusing' = {}
    /\ UNCHANGED <<rpc, slotVars, pendingSnapshot, published, gpu, refusals>>

Next == RenderStep \/ Teardown \/ Publish \/ Refuse \/ Relent

Spec == Init /\ [][Next]_vars

\* Gazebo goes on rendering frames: until teardown the render thread moves on.
\* (RenderStep is what moves it; said this way, TLC need not look for a step.)
Phases == {"drain", "stage", "upload", "grow", "texture", "swap", "view", "post"}
FairSpec == Spec /\ WF_rpc(rpc # "down" /\ rpc' \in Phases \ {rpc})

-----------------------------------------------------------------------------
(***************************************************************************)
(* Properties.                                                             *)
(***************************************************************************)
TypeOK ==
    /\ rpc \in Phases \cup {"down"}
    /\ \A slot \in {active, staging, retired} :
         /\ DOMAIN slot.pages \subseteq Pages
         /\ ToSet(slot.left) \subseteq Pages \ DOMAIN slot.pages
         /\ \A k \in DOMAIN slot.pages : slot.pages[k] \in PageSlots
    /\ gpu.loaded \subseteq Resources /\ gpu.late \subseteq gpu.loaded
    /\ gpu.refs \in [Resources -> Nat]
    /\ gpu.latePages \in Seq(PageSlots) /\ gpu.lateMaterials \in Seq(Textures)
    /\ refusing \subseteq Kinds /\ refusals \in 0..MaxRefusals

\* Those who hold a resource: pages of the three slots, pages whose destruction
\* is deferred, materials that could not be unbound.
HoldsIt(p, r) == (p.geometry /\ p.mesh = r) \/ p.tex = r
HoldersAmong(pages, r) == Cardinality({k \in DOMAIN pages : HoldsIt(pages[k], r)})
Unbound(g, r) == Cardinality({i \in DOMAIN g.lateMaterials : g.lateMaterials[i] = r})
Holders(r) ==
    HoldersAmong(active.pages, r) + HoldersAmong(staging.pages, r)
    + HoldersAmong(retired.pages, r) + HoldersAmong(gpu.latePages, r) + Unbound(gpu, r)

\* The reference counts are exact: over evictions, refinements, swaps and
\* failures in the middle of any of them, no reference is lost or kept twice.
CountsMatchHolders == TypeOK /\ \A r \in Resources : gpu.refs[r] = Holders(r)

\* No use after free: what anybody holds is in the engine, although its name is
\* shared with terrain that is destroyed.
HeldIsLoaded == \A r \in Resources : Holders(r) > 0 => r \in gpu.loaded

\* No leak: what nobody holds has left the engine or is to be deleted.
NothingLeaks == \A r \in gpu.loaded : Holders(r) > 0 \/ r \in gpu.late

\* What the engine holds is what somebody holds or is still to be deleted.
LoadedWhileHeld == HeldIsLoaded /\ NothingLeaks

\* A place on the ground is on screen once: never both the replaced page and
\* its replacement, and nothing that is about to be destroyed.
ShownOnce ==
    /\ \A k \in DOMAIN staging.pages : ~staging.pages[k].shown
    /\ \A k \in DOMAIN retired.pages : ~retired.pages[k].shown
    /\ \A i \in DOMAIN gpu.latePages : ~gpu.latePages[i].shown

\* When the driver refuses nothing any more, everything deferred is released in
\* the end, and every page of the terrain that some camera may see is on screen
\* again, also when it had been evicted or half loaded.
Recovers ==
    <>[](refusing = {} /\ rpc # "down")
        => <>[](/\ gpu.latePages = <<>> /\ gpu.lateMaterials = <<>> /\ gpu.late = {}
                /\ \A k \in DOMAIN active.pages :
                      active.pages[k].shown \/ active.pages[k].offscreen > 0)

\* A teardown the driver does not obstruct leaves nothing in the engine, whatever
\* could not be released before.
TeardownReleases ==
    [][rpc' = "down" /\ refusing = {} =>
        /\ gpu'.loaded = {} /\ gpu'.latePages = <<>> /\ gpu'.lateMaterials = <<>>
        /\ \A r \in Resources : gpu'.refs[r] = 0]_vars

===============================================================================
