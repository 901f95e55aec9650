------------------------------ MODULE GuiPreview ------------------------------
(***************************************************************************)
(* The preview of the terrain in the GUI, a process of its own.            *)
(*                                                                         *)
(* GuiTerrainSource, in the simulation, holds a copy of the newest         *)
(* snapshot.  Its revision counts every change: a snapshot of the visual   *)
(* worker, textures of the refinement worker.  DynamicTerrainGui polls: it *)
(* asks for the manifest, pulls the pages it has not got one by one, and   *)
(* leaves the snapshot for the render thread, which hands it to a renderer *)
(* of its own: what has changed only, when the terrain is the same.        *)
(*                                                                         *)
(* A page is what the manifest says of it: its place, the generation that  *)
(* names its mesh, the level that names its texture.                       *)
(***************************************************************************)
EXTENDS Integers, Sequences, FiniteSets, SequencesExt

CONSTANTS
    Places,          \* geographic pages
    Resident,        \* those whose mesh keeps its name over generations
    Levels,          \* levels of detail of a texture
    Snapshots,       \* bound: the places of each generation's revisions
    MaxUpdates,      \* bound: changes of textures
    MaxLosses,       \* bound: requests lost
    MaxInvalidations \* bound: invalidations of the scene graph

ASSUME ConstantsAssumption ==
    /\ Resident \subseteq Places /\ Levels \subseteq Nat \ {0}
    /\ Snapshots \in Seq(Seq(Seq(Places) \ {<<>>}))
    /\ \A gen \in DOMAIN Snapshots : \A r \in DOMAIN Snapshots[gen] :
          /\ IsInjective(Snapshots[gen][r])
          /\ ~(Range(Snapshots[gen][r]) \subseteq Resident)  \* there is a near page
    /\ MaxUpdates \in Nat /\ MaxLosses \in Nat /\ MaxInvalidations \in Nat

Pages == [place : Places, mesh : 0..Len(Snapshots), level : Levels]
MeshGen(place, gen) == IF place \in Resident THEN 0 ELSE gen

\* A terrain: of the source (`gen` is its generation), or assembled by the
\* viewer (`gen` is a number of the viewer's own).
NoTerrain == [gen |-> 0, cov |-> 0, pages |-> <<>>]

VARIABLES
    source,     \* state_->snapshot
    revision,   \* state_->revision
    pc,         \* Poll: "sleep" or "pull"
    manifest,   \* the manifest being pulled, with its revision
    got,        \* the pages pulled
    cache,      \* pages kept from earlier pulls
    previous,   \* the snapshot assembled last
    previousRevision, \* its revision, 0 when cleared
    sourceGen,  \* sourceGeneration
    generation, \* the viewer's generation counter
    failures,   \* failed polls in a row, at most 3
    pending,    \* pending_
    clear,      \* clear_
    refresh,    \* refresh_
    sent,       \* render_->sent
    shown,      \* what the viewer's renderer shows
    updates, losses, invalidations   \* bounds

sourceVars == <<source, revision, updates>>
pollVars == <<pc, manifest, got, cache, previous, previousRevision, sourceGen,
              generation, failures>>
renderVars == <<sent, shown, invalidations>>
vars == <<sourceVars, pollVars, pending, clear, refresh, renderVars, losses>>

NoManifest == [revision |-> 0, gen |-> 0, cov |-> 0, pages |-> <<>>]

Init ==
    /\ source = NoTerrain /\ revision = 0 /\ updates = 0
    /\ pc = "sleep" /\ manifest = NoManifest /\ got = <<>> /\ cache = {}
    /\ previous = NoTerrain /\ previousRevision = 0
    /\ sourceGen = 0 /\ generation = 0 /\ failures = 0
    /\ pending = NoTerrain /\ clear = FALSE /\ refresh = FALSE
    /\ sent = NoTerrain /\ shown = NoTerrain
    /\ invalidations = 0 /\ losses = 0

Newer(s, t) == s.gen > t.gen \/ (s.gen = t.gen /\ s.cov > t.cov)
\* The level of a place among some pages, 0 without the place.
LevelOf(pages, place) ==
    IF \E p \in Range(pages) : p.place = place
    THEN (CHOOSE p \in Range(pages) : p.place = place).level
    ELSE 0

-----------------------------------------------------------------------------
(***************************************************************************)
(* GuiTerrainSource.                                                       *)
(***************************************************************************)
\* Mutant: a snapshot replaces what the refinement has sent.
Plain(page) == page
\* A page keeps its finer texture.
KeepFiner(page) ==
    [page EXCEPT !.level = IF LevelOf(source.pages, page.place) > @
                           THEN LevelOf(source.pages, page.place) ELSE @]

\* SetSnapshot, with a snapshot not older than the source's: the visual worker
\* publishes the revisions of a generation in order, and no generation again.
SetSnapshot ==
    \E gen \in {source.gen, source.gen + 1} :
      LET cov == IF gen = source.gen THEN source.cov + 1 ELSE 1 IN
      /\ gen \in DOMAIN Snapshots /\ cov \in DOMAIN Snapshots[gen]
      /\ \E level \in [Places -> Levels] :
           LET places == Snapshots[gen][cov]
               page(i) == [place |-> places[i], mesh |-> MeshGen(places[i], gen),
                           level |-> level[places[i]]]
           IN source' = [gen |-> gen, cov |-> cov,
                         pages |-> [i \in DOMAIN places |-> KeepFiner(page(i))]]
      /\ revision' = revision + 1
      /\ UNCHANGED <<updates, pollVars, pending, clear, refresh, renderVars, losses>>

\* ApplyTexture on one page: only of this generation, never coarser.
ApplyTexture ==
    /\ updates < MaxUpdates /\ updates' = updates + 1
    /\ \E i \in DOMAIN source.pages, level \in Levels :
         /\ level >= source.pages[i].level
         /\ source' = [source EXCEPT !.pages[i].level = level]
    /\ revision' = revision + 1
    /\ UNCHANGED <<pollVars, pending, clear, refresh, renderVars, losses>>

\* The reply to a request for a page.
Served(i) == IF manifest.revision = revision /\ i <= Len(source.pages)
             THEN {source.pages[i]} ELSE {}

-----------------------------------------------------------------------------
(***************************************************************************)
(* Poll.                                                                   *)
(***************************************************************************)
\* Mutant: textures are not told apart.
CacheKeyMesh(page) == <<page.place, page.mesh>>
CacheKey(page) == <<page.place, page.mesh, page.level>>

Cached(page) == {p \in cache : CacheKey(p) = CacheKey(page)}

\* The end of a poll: the worker sleeps a second.
Sleep == pc' = "sleep" /\ manifest' = NoManifest /\ got' = <<>>

\* An exception: the third failure in a row empties the view.  `known` is the
\* revision the viewer takes itself to be at.
Failed(known) ==
    /\ failures' = IF failures = 3 THEN 3 ELSE failures + 1
    /\ IF failures' = 3
       THEN /\ clear' = TRUE /\ pending' = NoTerrain
            /\ previous' = NoTerrain /\ cache' = {} /\ previousRevision' = 0
       ELSE previousRevision' = known /\ UNCHANGED <<clear, pending, previous, cache>>
    /\ Sleep
    /\ UNCHANGED <<sourceGen, generation, sourceVars, renderVars>>

Lost == losses < MaxLosses /\ losses' = losses + 1

Known == IF refresh THEN 0 ELSE previousRevision

\* No answer, or a source without terrain.
PollFails ==
    /\ pc = "sleep"
    /\ Lost \/ (source = NoTerrain /\ UNCHANGED losses)
    /\ refresh' = FALSE
    /\ Failed(Known)

\* The manifest names a revision the viewer has got.
NothingNew ==
    /\ pc = "sleep" /\ source # NoTerrain /\ Known = revision
    /\ failures' = 0 /\ refresh' = FALSE
    /\ UNCHANGED <<sourceVars, pc, manifest, got, cache, previous, previousRevision,
                   sourceGen, generation, pending, clear, renderVars, losses>>

\* A manifest to be pulled.  Cached pages that are not in it are dropped.
ReadManifest ==
    /\ pc = "sleep" /\ source # NoTerrain /\ Known # revision
    /\ pc' = "pull"
    /\ manifest' = [revision |-> revision, gen |-> source.gen, cov |-> source.cov,
                    pages |-> source.pages]
    /\ cache' = {p \in cache : \E page \in Range(source.pages) : CacheKey(p) = CacheKey(page)}
    /\ previousRevision' = Known
    /\ failures' = 0 /\ refresh' = FALSE
    /\ UNCHANGED <<sourceVars, got, previous, sourceGen, generation, pending, clear,
                   renderVars, losses>>

\* The page to pull next.
Wanted == manifest.pages[Len(got) + 1]

PullPage ==
    /\ pc = "pull" /\ Len(got) < Len(manifest.pages)
    /\ LET page == IF Cached(Wanted) # {} THEN Cached(Wanted) ELSE Served(Len(got) + 1) IN
       /\ page # {} /\ (Cached(Wanted) = {} => page = {Wanted})
       /\ got' = Append(got, CHOOSE p \in page : TRUE)
       /\ cache' = cache \cup page
    /\ UNCHANGED <<sourceVars, pc, manifest, previous, previousRevision, sourceGen,
                   generation, failures, pending, clear, refresh, renderVars, losses>>

\* The source has moved on, or does not answer.
PullFails ==
    /\ pc = "pull" /\ Len(got) < Len(manifest.pages) /\ Cached(Wanted) = {}
    /\ Lost \/ (Served(Len(got) + 1) # {Wanted} /\ UNCHANGED losses)
    /\ Failed(previousRevision) /\ UNCHANGED refresh

\* More coverage of the source's generation.
Expanded ==
    /\ previous # NoTerrain
    /\ sourceGen = manifest.gen /\ manifest.cov > previous.cov
MeshesOf(pages) == [i \in DOMAIN pages |-> <<pages[i].place, pages[i].mesh>>]

\* Mutant: as many pages are taken for the same pages.
AsMany == previous # NoTerrain /\ Len(previous.pages) = Len(manifest.pages)
SameGeometry == previous # NoTerrain /\ MeshesOf(previous.pages) = MeshesOf(manifest.pages)

Assemble ==
    /\ pc = "pull" /\ Len(got) = Len(manifest.pages)
    /\ LET kept == SameGeometry \/ Expanded
           gen == IF kept THEN previous.gen ELSE generation + 1
       IN /\ generation' = IF kept THEN generation ELSE gen
          /\ previous' = [gen |-> gen, cov |-> manifest.cov, pages |-> got]
    /\ pending' = previous'
    /\ previousRevision' = manifest.revision /\ sourceGen' = manifest.gen
    /\ Sleep
    /\ UNCHANGED <<sourceVars, cache, failures, clear, refresh, renderVars, losses>>

PollStep == PollFails \/ NothingNew \/ ReadManifest \/ PullPage \/ PullFails \/ Assemble

-----------------------------------------------------------------------------
(***************************************************************************)
(* The render thread of the GUI.                                           *)
(***************************************************************************)
\* The renderer takes newer terrain; a page it shows already keeps its texture
\* and a page of another generation the finer one.
Rendered(s, t) ==
    [s EXCEPT !.pages = [i \in DOMAIN s.pages |->
        LET old == LevelOf(t.pages, s.pages[i].place) IN
        [s.pages[i] EXCEPT !.level = IF old # 0 /\ (s.gen = t.gen \/ old > @) THEN old ELSE @]]]

\* The texture updates of queueGuiSnapshot, for terrain of the same generation.
WithDeltas(s, t, old) ==
    IF old.gen # s.gen THEN t
    ELSE [t EXCEPT !.pages = [i \in DOMAIN t.pages |->
        LET new == LevelOf(s.pages, t.pages[i].place)
            was == LevelOf(old.pages, t.pages[i].place) IN
        [t.pages[i] EXCEPT !.level = IF was # 0 /\ new > was THEN new ELSE @]]]

\* queueGuiSnapshot, and the renderer's work on it.
Queue(s, t, old) ==
    LET queued == \/ old.gen # s.gen \/ old.cov # s.cov
                  \/ Len(old.pages) # Len(s.pages)
    IN WithDeltas(s, IF queued /\ Newer(s, t) THEN Rendered(s, t) ELSE t, old)

\* eventFilter on PreRender.
PreRender ==
    /\ clear \/ pending # NoTerrain
    /\ LET left == IF clear THEN NoTerrain ELSE sent
           view == IF clear THEN NoTerrain ELSE shown
       IN IF pending = NoTerrain
          THEN sent' = left /\ shown' = view
          ELSE sent' = pending /\ shown' = Queue(pending, view, left)
    /\ pending' = NoTerrain /\ clear' = FALSE
    /\ UNCHANGED <<sourceVars, pollVars, refresh, invalidations, losses>>

\* Mutant: the poller is not told that the renderer is gone.
InvalidateSilently ==
    /\ invalidations < MaxInvalidations /\ invalidations' = invalidations + 1
    /\ sent' = NoTerrain /\ shown' = NoTerrain
    /\ UNCHANGED <<sourceVars, pollVars, pending, clear, refresh, losses>>
\* sceneGraphInvalidated.
Invalidate ==
    /\ invalidations < MaxInvalidations /\ invalidations' = invalidations + 1
    /\ sent' = NoTerrain /\ shown' = NoTerrain
    /\ refresh' = TRUE
    /\ UNCHANGED <<sourceVars, pollVars, pending, clear, losses>>

-----------------------------------------------------------------------------
Next == SetSnapshot \/ ApplyTexture \/ PollStep \/ PreRender \/ Invalidate

Spec == Init /\ [][Next]_vars

\* The viewer polls and the GUI renders.
Fairness == WF_vars(PollStep) /\ WF_vars(PreRender)

FairSpec == Spec /\ Fairness

-----------------------------------------------------------------------------
Terrains == [gen : Nat, cov : Nat, pages : Seq(Pages)]

TypeOK ==
    /\ {source, previous, pending, sent, shown} \subseteq Terrains
    /\ manifest.pages \in Seq(Pages) /\ got \in Seq(Pages) /\ cache \subseteq Pages
    /\ pc \in {"sleep", "pull"} /\ failures \in 0..3
    /\ revision \in Nat /\ previousRevision \in 0..revision
    /\ generation \in Nat /\ clear \in BOOLEAN /\ refresh \in BOOLEAN

\* A snapshot is never mixed from two revisions of the source, although its pages
\* are pulled one by one while the workers go on (DynamicTerrainGui.cc:166-200).
AssembledWhole ==
    /\ TypeOK
    /\ pc = "pull" => IsPrefix(got, manifest.pages)

\* What the render thread has been given is what its renderer shows: the changes
\* queueGuiSnapshot picks out suffice (GuiTerrain.cc:13-46).
SentIsShown ==
    /\ MeshesOf(shown.pages) = MeshesOf(sent.pages)
    /\ \A i \in DOMAIN sent.pages : shown.pages[i].level >= sent.pages[i].level

\* Once the source is given up and the view emptied, no terrain of it comes back
\* from the hand-over (DynamicTerrainGui.cc:209-218).
LostIsBlank ==
    previous = NoTerrain /\ ~clear => pending = NoTerrain /\ sent = NoTerrain

ViewConsistent == SentIsShown /\ LostIsBlank

\* What the preview may pull of a page never gets coarser, although the visual
\* worker publishes snapshots it began before the refinement's updates
\* (GuiTerrain.cc:201-242).
DetailKept ==
    [][\A i \in DOMAIN source.pages, j \in DOMAIN source'.pages :
          source.pages[i].place = source'.pages[j].place =>
             source.pages[i].level <= source'.pages[j].level]_source

\* When the source no longer changes and answers, the viewer comes to show its
\* terrain in full detail, whatever was lost and invalidated before.
CatchesUp ==
    <>[](/\ MeshesOf(shown.pages) = MeshesOf(source.pages)
         /\ \A i \in DOMAIN source.pages : shown.pages[i].level >= source.pages[i].level)

=============================================================================
