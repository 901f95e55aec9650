--------------------------- MODULE VisualPipeline ---------------------------
(***************************************************************************)
(* Visual terrain around the aircraft: from a request of the simulation    *)
(* thread, through the visual worker that builds pages, to the render      *)
(* thread that uploads and shows them.                                     *)
(*                                                                         *)
(* The first terrain grows in place: the worker publishes a cumulative     *)
(* snapshot after every page.  A replacement is built completely, uploaded *)
(* into a hidden staging slot and swapped in at once (A/B).  The three     *)
(* threads share a request slot, a snapshot queue of length one and the    *)
(* renderer's acknowledgement: hasActive, activeGeneration,                *)
(* activeCoverageRevision and the active centre.  Each of these atomics is *)
(* stored in a step of its own and, in program order, read in a step of    *)
(* its own, so that a reader can see one already stored and the next not.  *)
(*                                                                         *)
(* The pages of a generation are built in a fixed order, the near ones     *)
(* first, so a set of pages is the length of a prefix of that order.       *)
(* Warm-ups take the default of one frame.  A timer that may be due at any *)
(* time stands for the wall-clock delays.                                  *)
(***************************************************************************)
EXTENDS Integers, FiniteSets, Sequences

CONSTANTS
    Places,          \* snapped centres the aircraft can be at
    Nowhere,         \* no centre
    Far(_, _),       \* visualRecenterDistanceM between two centres
    NearPages,       \* pages of the near terrain
    OuterPages,      \* pages of the outer terrain, 0 when visualOuterRadiusM is 0
    Progressive,     \* renderer_->SupportsProgressiveInitial()
    MaxRequests(_),  \* bound: requests of the simulation thread, by `eager`
    MaxMoves,        \* bound: changes of place
    MaxFailures,     \* bound: builds that lack data, activations that are slow
    MaxGpuFailures   \* bound: uploads that throw

ASSUME ConstantsAssumption ==
    /\ Places # {} /\ Nowhere \notin Places
    /\ \A p, q \in Places : Far(p, q) \in BOOLEAN
    /\ NearPages \in Nat \ {0} /\ OuterPages \in Nat
    /\ Progressive \in BOOLEAN 
    /\ \A e \in BOOLEAN : MaxRequests(e) \in Nat
    /\ MaxMoves \in Nat
    /\ MaxFailures \in Nat /\ MaxGpuFailures \in Nat

AllPages == NearPages + OuterPages

VARIABLES
    eager,             \* retryDelaySec may run out while a request is served
    place,             \* where the aircraft is
    spc,               \* simulation thread: "update", or "store" before latestVisualGeneration_
    center,            \* lastVisualRequestedCenter_
    centerOf,          \* the centre each generation was requested for
    request,           \* visualRequest_: its generation, or 0
    latest,            \* latestVisualGeneration_
    retry,             \* visualRetryAfterMs_ is set
    wpc,               \* the visual worker's place in visualWorker
    gen,               \* request.generation of the worker, 0 when it is idle
    had,               \* hadActiveTerrain
    built,             \* the worker's snapshot
    pending,           \* pendingSnapshot_
    rpc,               \* the render thread's place in OnPreRender
    active, staging,   \* active_ and staging_
    hasActive, activeGen, activeRev,    \* the renderer's acknowledgement
    activeCenter,      \* the generation whose centre is in activeCenterX_, Y_ and Z_
    sawTerrain,        \* history: generations whose worker found terrain on screen
    revisionOf,        \* history: the generation activeRev is a revision of
    misled,            \* history: a worker took the revision of another generation for its own
    moves, failures, gpuFailures        \* bounds

simVars    == <<eager, place, spc, center, centerOf, moves>>
workVars   == <<wpc, gen, had, built, sawTerrain>>
ackVars    == <<hasActive, activeGen, activeRev, activeCenter, revisionOf>>
renderVars == <<rpc, active, staging, ackVars, gpuFailures>>
vars == <<simVars, request, latest, retry, workVars, misled, pending, renderVars, failures>>

Requested == Len(centerOf)

\* A TerrainSnapshot: `initial` is progressiveInitial.
Snapshots == [gen : Nat, rev : Nat, pages : 0..AllPages, initial : BOOLEAN]
NoSnapshot == [gen |-> 0, rev |-> 0, pages |-> 0, initial |-> FALSE]

\* A Slot of the renderer: `target` is the page count of the snapshot it is
\* uploading (0 when uploading is reset), `cursor` its uploadCursor, `grows` its
\* progressiveInitial.
Slots == [gen : Nat, rev : Nat, pages : 0..AllPages, visible : 0..AllPages,
          target : 0..AllPages, cursor : 0..AllPages, warm : 0..1, grows : BOOLEAN]
NoSlot == [gen |-> 0, rev |-> 0, pages |-> 0, visible |-> 0, target |-> 0, cursor |-> 0,
           warm |-> 0, grows |-> FALSE]

\* CreateSlot.
NewSlot(s) == [gen |-> s.gen, rev |-> s.rev, pages |-> 0, visible |-> 0,
               target |-> s.pages, cursor |-> 0, warm |-> 1, grows |-> FALSE]

Init ==
    /\ eager \in BOOLEAN
    /\ place \in Places /\ spc = "update" /\ center = Nowhere /\ centerOf = <<>>
    /\ request = 0 /\ latest = 0 /\ retry = FALSE
    /\ wpc = "idle" /\ gen = 0 /\ had = FALSE /\ built = NoSnapshot
    /\ pending = NoSnapshot
    /\ rpc = "adopt" /\ active = NoSlot /\ staging = NoSlot
    /\ hasActive = FALSE /\ activeGen = 0 /\ activeRev = 0 /\ activeCenter = 0
    /\ sawTerrain = {} /\ revisionOf = 0 /\ misled = FALSE
    /\ moves = 0 /\ failures = 0 /\ gpuFailures = 0

-----------------------------------------------------------------------------
(***************************************************************************)
(* The simulation thread: updateVisualRequest.                             *)
(***************************************************************************)
Move ==
    /\ moves < MaxMoves
    /\ \E p \in Places \ {place} : place' = p
    /\ moves' = moves + 1
    /\ UNCHANGED <<eager, spc, center, centerOf, request, latest, retry, workVars, misled,
                   pending, renderVars, failures>>

\* Coordinates read while a swap stores them are a mixture of two centres, which
\* may be anywhere; a growing terrain stores its own again.
CenterFar == rpc = "center" \/ Far(centerOf[activeCenter], place)

\* Without terrain on screen only the very first request needs no retry.
Recenter ==
    IF hasActive
    THEN CenterFar /\ center # place
    ELSE center = Nowhere

\* A due retry forces the request; the slot is written before the latest
\* generation is.
RetryDue == retry /\ (eager \/ (gen = 0 /\ request = 0))

UpdateVisual ==
    /\ spc = "update" /\ Requested < MaxRequests(eager)
    /\ \/ RetryDue /\ retry' = FALSE
       \/ Recenter /\ UNCHANGED retry
    /\ request' = Requested + 1
    /\ center' = place
    /\ centerOf' = Append(centerOf, place)
    /\ spc' = "store"
    /\ UNCHANGED <<eager, place, moves, latest, workVars, misled, pending, renderVars, failures>>

StoreLatest ==
    /\ spc = "store"
    /\ latest' = Requested
    /\ spc' = "update"
    /\ UNCHANGED <<eager, place, center, centerOf, moves, request, retry, workVars, misled,
                   pending, renderVars, failures>>

SimStep == UpdateVisual \/ StoreLatest

-----------------------------------------------------------------------------
(***************************************************************************)
(* The visual worker: visualWorker and the builder it calls.               *)
(***************************************************************************)
Stale == gen < latest

WorkFrame == UNCHANGED <<simVars, latest, renderVars, misled>>

Take ==
    /\ wpc = "idle" /\ request # 0
    /\ gen' = request /\ request' = 0
    /\ wpc' = "look"
    /\ UNCHANGED <<had, built, sawTerrain, retry, pending, failures>> /\ WorkFrame

\* hadActiveTerrain is read once, for everything that follows.
Look ==
    /\ wpc = "look"
    /\ had' = hasActive
    /\ sawTerrain' = IF hasActive THEN sawTerrain \cup {gen} ELSE sawTerrain
    /\ built' = [gen |-> gen, rev |-> 0, pages |-> 0, initial |-> ~hasActive /\ Progressive]
    /\ wpc' = "bootstrap"
    /\ UNCHANGED <<gen, request, retry, pending, failures>> /\ WorkFrame

\* The worker gives the request up.
Quit(arm) ==
    /\ wpc' = "idle" /\ gen' = 0 /\ had' = FALSE /\ built' = NoSnapshot
    /\ retry' = (retry \/ arm)
    /\ UNCHANGED <<request, sawTerrain, pending>> /\ WorkFrame

Unavailable == failures < MaxFailures /\ failures' = failures + 1

\* BuildBootstrap fails, for lack of data or because it is cancelled: the
\* retry timer is set in either case.
BootstrapFails ==
    /\ \/ wpc = "bootstrap" /\ (built.initial => built.pages < NearPages)
       \/ wpc = "progress" /\ Stale
    /\ \/ Stale /\ UNCHANGED failures
       \/ Unavailable
    /\ Quit(TRUE)

\* One more near page, in a build that publishes its progress.
BootstrapPage ==
    /\ wpc = "bootstrap" /\ built.initial /\ built.pages < NearPages
    /\ built' = [built EXCEPT !.rev = @ + 1, !.pages = @ + 1]
    /\ wpc' = "progress"
    /\ UNCHANGED <<gen, had, sawTerrain, request, retry, pending, failures>> /\ WorkFrame

\* QueueSnapshot keeps the newer of the queued and the arriving snapshot.
Newest(s) ==
    IF s.gen > pending.gen \/ (s.gen = pending.gen /\ s.rev >= pending.rev) THEN s ELSE pending

\* The progress callback: it saw the request current when it was called, and
\* queues the partial snapshot.
Progress ==
    /\ wpc \in {"progress", "outerprogress"}
    /\ ~Stale
    /\ wpc' = IF wpc = "progress" THEN "queue" ELSE "outerqueue"
    /\ UNCHANGED <<gen, had, built, sawTerrain, request, retry, pending, failures>>
    /\ WorkFrame

QueuePartial ==
    /\ wpc \in {"queue", "outerqueue"}
    /\ pending' = Newest(built)
    /\ wpc' = IF wpc = "queue" THEN "bootstrap" ELSE "outer"
    /\ UNCHANGED <<gen, had, built, sawTerrain, request, retry, failures>> /\ WorkFrame

\* The near terrain is built.  A replacement goes on to its outer terrain and
\* its imagery before it is published, the first terrain is published at once.
BootstrapDone ==
    /\ wpc = "bootstrap" /\ ~Stale
    /\ built.initial => built.pages = NearPages
    /\ built' = [built EXCEPT !.pages = NearPages]
    /\ wpc' = IF had THEN "prepare" ELSE "publish"
    /\ UNCHANGED <<gen, had, sawTerrain, request, retry, pending, failures>> /\ WorkFrame

\* Superseded when the build returns.
BootstrapStale ==
    /\ wpc = "bootstrap" /\ Stale
    /\ built.initial => built.pages = NearPages
    /\ Quit(FALSE)
    /\ UNCHANGED failures

\* Mutant: a replacement is published without its outer terrain.
PrepareNear ==
    /\ wpc = "prepare" /\ ~Stale
    /\ wpc' = "publish"
    /\ UNCHANGED <<gen, had, built, sawTerrain, request, retry, pending, failures>>
    /\ WorkFrame

\* A replacement: the base imagery, the outer terrain and its imagery, each of
\* which can be incomplete.
Prepare ==
    /\ wpc = "prepare" /\ ~Stale
    /\ built' = IF OuterPages = 0 THEN built
                ELSE [built EXCEPT !.rev = 1, !.pages = AllPages]
    /\ wpc' = "publish"
    /\ UNCHANGED <<gen, had, sawTerrain, request, retry, pending, failures>> /\ WorkFrame

\* Mutant: the request is given up without a retry.
PrepareFailsUnarmed ==
    /\ wpc = "prepare" /\ Unavailable
    /\ Quit(FALSE)

PrepareFails ==
    /\ wpc = "prepare" /\ Unavailable
    /\ Quit(TRUE)

PrepareStale ==
    /\ wpc = "prepare" /\ Stale
    /\ Quit(FALSE)
    /\ UNCHANGED failures

\* publish: queue the snapshot and wait until the renderer acknowledges it.
Publish ==
    /\ wpc = "publish" /\ ~Stale
    /\ pending' = Newest(built)
    /\ wpc' = "await"
    /\ UNCHANGED <<gen, had, built, sawTerrain, request, retry, failures>> /\ WorkFrame

\* awaitActivation: a pass of the loop reads the generation, then the revision.
ReadGeneration ==
    /\ wpc = "await" /\ ~Stale /\ activeGen = gen
    /\ wpc' = "awaitrevision"
    /\ UNCHANGED <<gen, had, built, sawTerrain, request, retry, pending, failures>>
    /\ WorkFrame

ReadRevision ==
    /\ wpc = "awaitrevision"
    /\ wpc' = IF activeRev >= built.rev THEN "confirm" ELSE "await"
    /\ UNCHANGED <<gen, had, built, sawTerrain, request, retry, pending, failures>>
    /\ WorkFrame

\* The renderer has nothing left to upload or to acknowledge.
RendererIdle ==
    /\ pending = NoSnapshot /\ staging = NoSlot /\ active.target = 0
    /\ rpc \notin {"center", "generation", "revision"}

\* visualActivationTimeoutSec is over: the renderer is slow, or has failed.
Deadline ==
    /\ \/ wpc = "await" /\ ~Stale
       \/ wpc = "awaitrevision" /\ activeRev < built.rev
    /\ IF RendererIdle THEN UNCHANGED failures ELSE Unavailable
    /\ wpc' = "confirm"
    /\ UNCHANGED <<gen, had, built, sawTerrain, request, retry, pending>>
    /\ WorkFrame

\* Both are read once more when the loop is left.
ConfirmGeneration ==
    /\ wpc = "confirm" /\ ~Stale /\ activeGen = gen
    /\ wpc' = "confirmrevision"
    /\ UNCHANGED <<gen, had, built, sawTerrain, request, retry, pending, failures>>
    /\ WorkFrame

\* The first terrain goes on with its outer part.
Activated ==
    /\ wpc = "confirmrevision" /\ activeRev >= built.rev
    /\ misled' = (misled \/ revisionOf # gen)
    /\ IF ~had /\ built.pages < AllPages
       THEN wpc' = "outer" /\ UNCHANGED <<gen, had, built, retry>>
       ELSE wpc' = "idle" /\ gen' = 0 /\ had' = FALSE /\ built' = NoSnapshot /\ UNCHANGED retry
    /\ UNCHANGED <<sawTerrain, request, pending, failures, simVars, latest, renderVars>>

NotActive ==
    \/ wpc = "confirm" /\ ~Stale /\ activeGen # gen
    \/ wpc = "confirmrevision" /\ activeRev < built.rev

\* Mutant: a timeout is only logged.
TimeoutUnarmed == NotActive /\ Quit(FALSE) /\ UNCHANGED failures

Timeout == NotActive /\ Quit(TRUE) /\ UNCHANGED failures

PublishStale ==
    /\ wpc \in {"publish", "await", "confirm"} /\ Stale
    /\ Quit(FALSE)
    /\ UNCHANGED failures

\* BuildOuterCoverage after the first terrain is active: page by page with
\* progress, in one piece without.
OuterPage ==
    /\ wpc = "outer" /\ built.initial /\ built.pages < AllPages
    /\ built' = [built EXCEPT !.rev = @ + 1, !.pages = @ + 1]
    /\ wpc' = "outerprogress"
    /\ UNCHANGED <<gen, had, sawTerrain, request, retry, pending, failures>> /\ WorkFrame

\* The finished coverage is published as a revision of its own.
OuterComplete ==
    /\ wpc = "outer" /\ built.initial /\ built.pages = AllPages /\ built.rev = AllPages
    /\ built' = [built EXCEPT !.rev = @ + 1]
    /\ wpc' = "outerprogress"
    /\ UNCHANGED <<gen, had, sawTerrain, request, retry, pending, failures>> /\ WorkFrame

OuterDone ==
    /\ wpc = "outer"
    /\ built.initial => built.rev > AllPages
    /\ built' = IF built.initial THEN built ELSE [built EXCEPT !.rev = 1, !.pages = AllPages]
    /\ wpc' = "publish"
    /\ UNCHANGED <<gen, had, sawTerrain, request, retry, pending, failures>> /\ WorkFrame

OuterFails ==
    /\ \/ wpc = "outer" /\ (built.initial => built.pages < AllPages)
       \/ wpc = "outerprogress" /\ Stale
    /\ \/ Stale /\ UNCHANGED failures
       \/ Unavailable
    /\ Quit(~Stale)

WorkerStep ==
    \/ Take \/ Look \/ BootstrapPage \/ Progress \/ QueuePartial \/ BootstrapDone
    \/ BootstrapStale \/ BootstrapFails \/ Prepare \/ PrepareFails \/ PrepareStale
    \/ Publish \/ ReadGeneration \/ ReadRevision \/ Deadline \/ ConfirmGeneration
    \/ Activated \/ Timeout \/ PublishStale
    \/ OuterPage \/ OuterComplete \/ OuterDone \/ OuterFails

-----------------------------------------------------------------------------
(***************************************************************************)
(* The render thread: OnPreRender, cut where it locks the queue.           *)
(***************************************************************************)
RenderFrame == UNCHANGED <<simVars, request, latest, retry, workVars, misled, failures>>
Turn(from, to) == rpc = from /\ rpc' = to

\* A snapshot of the generation that is growing, or of the first one.
Appends ==
    /\ pending.initial
    /\ \/ active = NoSlot
       \/ active.grows /\ active.gen = pending.gen

\* Mutant: the new target starts a new slot.
AdoptAnew ==
    /\ Turn("adopt", "stage")
    /\ IF staging = NoSlot /\ Appends /\ (active = NoSlot \/ pending.rev >= active.rev)
       THEN /\ active' = [NewSlot(pending) EXCEPT !.grows = TRUE]
            /\ pending' = NoSnapshot
       ELSE UNCHANGED <<active, pending>>
    /\ UNCHANGED <<staging, ackVars, gpuFailures>> /\ RenderFrame

\* AdoptProgressiveSnapshot: the visible slot gets a new target.
Adopt ==
    /\ Turn("adopt", "stage")
    /\ IF staging = NoSlot /\ Appends /\ (active = NoSlot \/ pending.rev >= active.rev)
       THEN /\ active' = [(IF active = NoSlot THEN NewSlot(pending) ELSE active)
                          EXCEPT !.grows = TRUE, !.rev = pending.rev, !.target = pending.pages,
                                 !.cursor = 0]
            /\ pending' = NoSnapshot
       ELSE UNCHANGED <<active, pending>>
    /\ UNCHANGED <<staging, ackVars, gpuFailures>> /\ RenderFrame

Newer(s, slot) == s.gen > slot.gen \/ (s.gen = slot.gen /\ s.rev > slot.rev)

\* A newer snapshot replaces what is being staged; otherwise a snapshot that
\* cannot be appended is staged.
Stage ==
    /\ Turn("stage", "upload")
    /\ IF pending # NoSnapshot
            /\ IF staging # NoSlot
               THEN Newer(pending, staging)
               ELSE ~Appends /\ (active = NoSlot \/ Newer(pending, active))
       THEN staging' = NewSlot(pending) /\ pending' = NoSnapshot
       ELSE UNCHANGED <<staging, pending>>
    /\ UNCHANGED <<active, ackVars, gpuFailures>> /\ RenderFrame

Uploading(slot) == slot.target # 0

\* A frame's worth of pages.
Uploads(slot) ==
    {[slot EXCEPT !.pages = n] :
        n \in {m \in slot.pages..slot.target : m > slot.pages \/ m = slot.target}}

\* AdvanceStagingUpload.
UploadStaging ==
    IF Uploading(staging)
    THEN \/ /\ \E s \in Uploads(staging) :
                  staging' = IF s.pages = s.target THEN [s EXCEPT !.target = 0] ELSE s
            /\ UNCHANGED gpuFailures
         \/ /\ gpuFailures < MaxGpuFailures
            /\ staging' = NoSlot
            /\ gpuFailures' = gpuFailures + 1
    ELSE UNCHANGED <<staging, gpuFailures>>

\* AdvanceProgressiveUpload: pages that are there already are skipped; it waits
\* while something is staged.  A page that throws ends the upload.
Grown ==
    IF ~Uploading(active) \/ staging # NoSlot THEN {active}
    ELSE {[s EXCEPT !.cursor = s.pages] : s \in Uploads(active)}
Broken ==
    IF ~Uploading(active) \/ staging # NoSlot \/ gpuFailures = MaxGpuFailures THEN {}
    ELSE {[active EXCEPT !.pages = n, !.target = 0] : n \in active.pages..(active.target - 1)}

UploadStep ==
    /\ Turn("upload", "grow")
    /\ UploadStaging
    /\ UNCHANGED <<active, ackVars, pending>> /\ RenderFrame

\* The pages uploaded before this frame are warm and become visible.
Reveal(slot) == active' = [slot EXCEPT !.visible = active.pages]

GrowStep ==
    /\ rpc = "grow"
    /\ IF ~active.grows
       THEN rpc' = "swap" /\ UNCHANGED <<active, gpuFailures>>
       ELSE /\ rpc' = IF active.pages > active.visible THEN "showcenter" ELSE "showrevision"
            /\ \/ /\ \E slot \in Grown : Reveal(slot)
                  /\ UNCHANGED gpuFailures
               \/ /\ \E slot \in Broken : Reveal(slot)
                  /\ gpuFailures' = gpuFailures + 1
    /\ UNCHANGED <<staging, pending, ackVars>> /\ RenderFrame

\* The staged pages are shown and the active ones hidden in one frame, one
\* frame after the last upload.
Swap ==
    /\ rpc = "swap"
    /\ IF staging = NoSlot \/ Uploading(staging)
       THEN rpc' = "adopt" /\ UNCHANGED <<staging, active>>
       ELSE IF staging.warm > 0
       THEN staging' = [staging EXCEPT !.warm = 0] /\ rpc' = "adopt" /\ UNCHANGED active
       ELSE /\ active' = [staging EXCEPT !.visible = staging.pages]
            /\ staging' = NoSlot
            /\ rpc' = "center"
    /\ UNCHANGED <<pending, gpuFailures, ackVars>> /\ RenderFrame

StoreFrame == UNCHANGED <<staging, pending, gpuFailures>> /\ RenderFrame

StoreCenter ==
    /\ Turn("showcenter", "showgeneration") \/ Turn("center", "generation")
    /\ activeCenter' = active.gen
    /\ UNCHANGED <<active, hasActive, activeGen, activeRev, revisionOf>> /\ StoreFrame

StoreGeneration ==
    /\ Turn("showgeneration", "showactive") \/ Turn("generation", "revision")
    /\ activeGen' = active.gen
    /\ UNCHANGED <<active, hasActive, activeCenter, activeRev, revisionOf>> /\ StoreFrame

StoreActive ==
    /\ Turn("showactive", "showrevision") \/ Turn("active", "adopt")
    /\ hasActive' = TRUE
    /\ UNCHANGED <<active, activeGen, activeCenter, activeRev, revisionOf>> /\ StoreFrame

\* Mutant: a revision is acknowledged as soon as its pages are uploaded.
Uploaded(slot) == Uploading(slot) /\ slot.cursor = slot.target
\* A revision is acknowledged when its pages are uploaded and all are visible.
Shown(slot) == Uploading(slot) /\ slot.cursor = slot.target /\ slot.visible = slot.pages

StoreRevision ==
    /\ \/ /\ Turn("showrevision", "swap")
          /\ IF Shown(active)
             THEN /\ active' = [active EXCEPT !.target = 0]
                  /\ activeRev' = active.rev /\ revisionOf' = active.gen
             ELSE UNCHANGED <<active, activeRev, revisionOf>>
       \/ /\ Turn("revision", "active")
          /\ activeRev' = active.rev /\ revisionOf' = active.gen
          /\ UNCHANGED active
    /\ UNCHANGED <<hasActive, activeGen, activeCenter>> /\ StoreFrame

RenderStep ==
    \/ Adopt \/ Stage \/ UploadStep \/ GrowStep \/ Swap
    \/ StoreCenter \/ StoreGeneration \/ StoreActive \/ StoreRevision

-----------------------------------------------------------------------------
Next == Move \/ SimStep \/ WorkerStep \/ RenderStep

Spec == Init /\ [][Next]_vars

\* All three threads run, and so does the clock of the activation timeout.
Fairness ==
    /\ WF_vars(SimStep) /\ WF_vars(WorkerStep) /\ WF_vars(RenderStep)
    /\ WF_vars(Deadline)

FairSpec == Spec /\ Fairness

-----------------------------------------------------------------------------
(***************************************************************************)
(* Properties.                                                             *)
(***************************************************************************)

\* Every variable keeps its type, and no slot more pages than there are.
TypeOK ==
    /\ place \in Places /\ spc \in {"update", "store"}
    /\ center \in Places \cup {Nowhere} /\ centerOf \in Seq(Places)
    /\ request \in Nat /\ latest \in Nat /\ retry \in BOOLEAN
    /\ wpc \in {"idle", "look", "bootstrap", "progress", "queue", "prepare", "publish",
                "await", "awaitrevision", "confirm", "confirmrevision", "outer", "outerprogress", "outerqueue"}
    /\ gen \in Nat /\ had \in BOOLEAN
    /\ built \in Snapshots /\ pending \in Snapshots
    /\ rpc \in {"adopt", "stage", "upload", "grow", "showcenter", "showgeneration", "showactive",
                "showrevision", "swap", "center", "generation", "revision", "active"}
    /\ active \in Slots /\ staging \in Slots
    /\ hasActive \in BOOLEAN /\ activeGen \in Nat /\ activeRev \in Nat
    /\ activeCenter \in Nat /\ revisionOf \in Nat
    /\ sawTerrain \subseteq Nat /\ misled \in BOOLEAN
    /\ moves \in 0..MaxMoves /\ failures \in 0..MaxFailures
    /\ gpuFailures \in 0..MaxGpuFailures

\* The newest request is never forgotten: it waits, is being served, is shown
\* completely, or the retry timer will ask again.  Only a worker that was misled
\* can leave it in another state (RetriesLater).
NothingForgotten ==
    Requested > 0 /\ ~misled =>
        \/ Requested \in {request, gen}
        \/ retry
        \/ active.gen = Requested /\ active.visible = AllPages

\* Once the worker has read its generation, that generation is and stays on
\* screen; a revision of it that is not older than the one it published says that
\* all pages of what it published are visible.
AcknowledgedPages ==
    wpc = "confirmrevision" =>
        /\ active.gen = gen /\ active.visible > 0
        /\ activeRev >= built.rev /\ revisionOf = gen => active.visible >= built.pages

\* A terrain whose worker found the screen occupied is only ever shown whole,
\* with its outer part.
ReplacementsWhole ==
    active.gen \in sawTerrain => active.visible = AllPages

\* Once there is terrain on screen there always is, and never of an older
\* generation than the acknowledgement names; between two frames it names the
\* generation and the revision that are on screen.
ScreenOccupied ==
    hasActive =>
        /\ active.visible > 0 /\ activeGen <= active.gen
        /\ rpc = "adopt" => activeGen = active.gen /\ activeCenter = active.gen
                           /\ activeRev <= active.rev

\* The atomics through which the render thread tells the other threads what is on
\* screen tell the truth, in every interleaving of their stores and reads.
AcknowledgedIsVisible == TypeOK /\ AcknowledgedPages /\ ScreenOccupied

\* The picture never goes back to an older generation nor loses a page of the
\* generation it shows.
PictureNeverRegresses ==
    [][\/ active'.gen > active.gen
       \/ active'.gen = active.gen /\ active'.visible >= active.visible]_vars

\* "Complete terrain remains visible during later replacements."
CompleteRemains ==
    [][active.visible = AllPages => active'.visible = AllPages]_vars

\* "Failed staging never releases the last complete active generation.  The runtime
\* retries later": when an upload fails, the newest request is still being served,
\* or a retry or a newer request is on its way.
RetriesLater ==
    [][staging # NoSlot /\ staging' = NoSlot /\ UNCHANGED active =>
          Requested \in {request, gen} \/ retry]_vars

\* Terrain for the place where the aircraft stays is on screen in the end,
\* complete, through failures of builds, uploads and activations, unless a retry
\* comes before the build it retries is over or a worker was misled.
Settles ==
    ~eager => \/ <>misled
              \/ <>[](/\ hasActive /\ active.visible = AllPages
                      /\ ~Far(centerOf[active.gen], place))

=============================================================================
