------------------------- MODULE CollisionPipeline -------------------------
(***************************************************************************)
(* Collision terrain under the aircraft.  The simulation thread runs       *)
(* PreUpdate once per iteration: it keeps a safety ground until real       *)
(* terrain is live, posts collision requests, polls results and swaps      *)
(* collision entities make-before-break.  The collision worker builds one  *)
(* patch at a time; a newer request cancels the build in progress.  Gazebo *)
(* executes removal requests at the end of an iteration.                   *)
(*                                                                         *)
(* One iteration is cut into the functions PreUpdate calls, so the worker  *)
(* interleaves between them.  Time is counted in iterations: `left` and    *)
(* `retry` are wall-clock, `overlap` and `readyFor` simulation time, which *)
(* stands still while the simulation is paused.                            *)
(***************************************************************************)
EXTENDS Integers, FiniteSets

CONSTANTS
    Places,          \* tiles the aircraft can be over
    Nowhere,         \* no tile: nothing requested yet
    Far(_, _),       \* the distance that calls for a new patch
    SafetyGround,    \* cfg.startupSafetyGround of the bound model
    BuildTicks,      \* longest build of a patch
    RetryTicks,      \* cfg.retryDelaySec
    OverlapTicks,    \* the 0.10 s both patches stay in the world
    SafetyTicks,     \* cfg.startupSafetyRemoveDelaySec
    MaxMoves,        \* bound: changes of tile or of altitude
    MaxFailures,     \* bound: builds that fail for lack of data
    MaxRefusals      \* bound: patches or grounds Gazebo refuses to create

ASSUME ConstantsAssumption ==
    /\ Places # {} /\ Nowhere \notin Places
    /\ \A p, q \in Places : Far(p, q) \in BOOLEAN
    /\ SafetyGround \in BOOLEAN
    /\ BuildTicks \in Nat \ {0} /\ RetryTicks \in Nat \ {0}
    /\ OverlapTicks \in Nat \ {0} /\ SafetyTicks \in Nat \ {0}
    /\ MaxMoves \in Nat /\ MaxFailures \in Nat /\ MaxRefusals \in Nat

None == 0
Off == -1

VARIABLES
    pc,             \* the function of PreUpdate the simulation thread is at
    paused,         \* info.paused
    configured,     \* a model configuration is bound
    place, low,     \* the aircraft: its tile, and whether it is below the safety top
    latest,         \* collisionGeneration_ and latestCollisionGeneration_
    center,         \* lastCollisionRequestedCenter_
    request,        \* collisionRequest_: its generation, or None
    building,       \* generation the worker builds, or None
    left,           \* iterations the build still takes at most
    result,         \* collisionResult_: [generation, patch]
    retry,          \* collisionRetryAfterMs_: Off or iterations until it is due
    current,        \* currentCollisionEntity_: the generation of its patch
    retiring,       \* retiringCollisionEntity_
    overlap,        \* simulation time until retireCollisionAtSimTime_
    patches,        \* patch entities in the world
    removals,       \* patch entities Gazebo was asked to remove
    safety,         \* the safety ground: "none", "live" or "removed"
    safetyEntity,   \* its entity is in the world
    readyFor,       \* realTerrainReadySince_: Off or time since
    centerOf,       \* history: the tile each generation was requested for
    refused,        \* history: generations whose patch Gazebo refused
    moves, failures, refusals   \* bounds

simVars    == <<pc, paused, configured>>
craftVars  == <<place, low>>
askVars    == <<latest, center, request, centerOf>>
buildVars  == <<building, left>>
patchVars  == <<current, retiring, overlap, patches, removals>>
safetyVars == <<safety, safetyEntity, readyFor>>
vars == <<simVars, craftVars, askVars, buildVars, result, retry, patchVars, safetyVars,
          refused, moves, failures, refusals>>

NoResult == [generation |-> None, patch |-> FALSE]

Init ==
    /\ pc = "ensure" /\ paused \in BOOLEAN /\ configured = FALSE
    /\ place \in Places /\ low = FALSE
    /\ latest = 0 /\ center = Nowhere /\ request = None
    /\ building = None /\ left = 0
    /\ result = NoResult /\ retry = Off
    /\ current = None /\ retiring = None /\ overlap = 0
    /\ patches = {} /\ removals = {}
    /\ safety = "none" /\ safetyEntity = FALSE /\ readyFor = Off
    /\ centerOf = <<>>
    /\ refused = {}
    /\ moves = 0 /\ failures = 0 /\ refusals = 0

-----------------------------------------------------------------------------
(***************************************************************************)
(* The simulation thread.                                                  *)
(***************************************************************************)
Goto(from, to) == pc = from /\ pc' = to

\* ensureStartupSafetyGround: tried in every iteration until it succeeds, with
\* the default configuration (safety ground on) before a model is bound.
EnsureSafety ==
    /\ Goto("ensure", IF configured THEN "retire" ELSE "bind")
    /\ IF safety = "none" /\ (SafetyGround \/ ~configured)
       THEN \/ /\ safety' = "live" /\ safetyEntity' = TRUE
               /\ UNCHANGED refusals
            \/ /\ refusals < MaxRefusals
               /\ refusals' = refusals + 1
               /\ UNCHANGED <<safety, safetyEntity>>
       ELSE UNCHANGED <<safety, safetyEntity, refusals>>
    /\ UNCHANGED <<paused, configured, craftVars, askVars, buildVars, result, retry,
                   patchVars, readyFor, refused, moves, failures>>

\* A new request for the aircraft's tile.
Post ==
    /\ latest' = latest + 1
    /\ request' = latest + 1
    /\ center' = place
    /\ centerOf' = [g \in 1..(latest + 1) |-> IF g = latest + 1 THEN place ELSE centerOf[g]]

\* tryBindModelConfiguration: a model that wants no safety ground gets it
\* removed; a model that preloads forces the first request.
Bind ==
    /\ Goto("bind", "retire")
    /\ configured' = TRUE
    /\ IF ~SafetyGround /\ safety = "live"
       THEN safety' = "removed" /\ safetyEntity' = FALSE
       ELSE UNCHANGED <<safety, safetyEntity>>
    /\ Post \/ UNCHANGED askVars
    /\ UNCHANGED <<paused, craftVars, buildVars, result, retry, patchVars, readyFor,
                   refused, moves, failures, refusals>>

\* No model carries the configuration yet.
WaitForModel ==
    /\ Goto("bind", "gazebo")
    /\ UNCHANGED <<paused, configured, craftVars, askVars, buildVars, result, retry,
                   patchVars, safetyVars, refused, moves, failures, refusals>>

\* Mutant: removal is requested without waiting for the overlap.
RetireAtOnce ==
    /\ Goto("retire", "apply")
    /\ \/ /\ retiring = None
          /\ UNCHANGED patchVars
       \/ /\ retiring # None /\ retiring \notin patches
          /\ retiring' = None /\ overlap' = 0
          /\ UNCHANGED <<current, patches, removals>>
       \/ /\ retiring \in patches
          /\ removals' = removals \cup {retiring}
          /\ UNCHANGED <<current, retiring, overlap, patches>>
    /\ UNCHANGED <<paused, configured, craftVars, askVars, buildVars, result, retry,
                   safetyVars, refused, moves, failures, refusals>>

\* retireOldCollision.
Retire ==
    /\ Goto("retire", "apply")
    /\ \/ /\ retiring = None
          /\ UNCHANGED patchVars
       \/ /\ retiring # None /\ retiring \notin patches
          /\ retiring' = None /\ overlap' = 0
          /\ UNCHANGED <<current, patches, removals>>
       \/ /\ retiring \in patches /\ overlap > 0
          /\ UNCHANGED patchVars
       \/ /\ retiring \in patches /\ overlap = 0
          /\ removals' = removals \cup {retiring}
          /\ UNCHANGED <<current, retiring, overlap, patches>>
    /\ UNCHANGED <<paused, configured, craftVars, askVars, buildVars, result, retry,
                   safetyVars, refused, moves, failures, refusals>>

\* Mutant: a failed build is logged and nothing else.
PollFailureUnarmed ==
    /\ result # NoResult /\ ~result.patch
    /\ UNCHANGED <<retry, current, retiring, overlap, patches, refused, refusals>>

\* Mutant: the delay is added to that of a timer which is armed already.
PollFailureExtending ==
    /\ result # NoResult /\ ~result.patch
    /\ retry' = RetryTicks + (IF retry = Off THEN 0 ELSE retry)
    /\ UNCHANGED <<current, retiring, overlap, patches, refused, refusals>>

\* PollCollision takes the result out of its slot.  A failure arms the retry
\* timer, whichever generation failed.
PollFailure ==
    /\ result # NoResult /\ ~result.patch
    /\ retry' = RetryTicks
    /\ UNCHANGED <<current, retiring, overlap, patches, refused, refusals>>

\* With terrain in the world a result that is no longer wanted is dropped.
Outdated == current # None /\ result.generation < latest

PollOutdated ==
    /\ result.patch /\ Outdated
    /\ UNCHANGED <<retry, current, retiring, overlap, patches, refused, refusals>>

\* The new patch is created before the old one is scheduled for removal.
Install ==
    /\ result.patch /\ ~Outdated
    /\ patches' = patches \cup {result.generation}
    /\ current' = result.generation
    /\ IF current # None
       THEN retiring' = current /\ overlap' = OverlapTicks
       ELSE UNCHANGED <<retiring, overlap>>
    /\ UNCHANGED <<retry, refused, refusals>>

\* The SDF does not parse or CreateEntities fails: the patch is given up.
InstallRefused ==
    /\ result.patch /\ ~Outdated
    /\ refusals < MaxRefusals
    /\ refusals' = refusals + 1
    /\ refused' = refused \cup {result.generation}
    /\ UNCHANGED <<retry, current, retiring, overlap, patches>>

\* Mutant: results are applied while a patch is still retiring.
ApplyAlways ==
    /\ Goto("apply", "safety")
    /\ \/ /\ PollFailure \/ PollOutdated \/ Install \/ InstallRefused
          /\ result' = NoResult
       \/ /\ result = NoResult
          /\ UNCHANGED <<result, retry, current, retiring, overlap, patches, refused, refusals>>
    /\ UNCHANGED <<paused, configured, craftVars, askVars, buildVars, removals, safetyVars,
                   moves, failures>>

\* applyCollisionResult; the slot is not polled while a patch is retiring.
Apply ==
    /\ Goto("apply", "safety")
    /\ \/ /\ retiring = None
          /\ PollFailure \/ PollOutdated \/ Install \/ InstallRefused
          /\ result' = NoResult
       \/ /\ retiring # None \/ result = NoResult
          /\ UNCHANGED <<result, retry, current, retiring, overlap, patches, refused, refusals>>
    /\ UNCHANGED <<paused, configured, craftVars, askVars, buildVars, removals, safetyVars,
                   moves, failures>>

\* Mutant: the altitude is checked, the terrain is not.
AboveTop == ~low
\* updateStartupSafetyGround.
TerrainReady == current # None /\ ~low

\* Mutant: the delay starts again in every iteration.
UpdateSafetyRestarting ==
    /\ Goto("safety", "update")
    /\ IF ~SafetyGround \/ safety # "live" \/ ~TerrainReady \/ readyFor < SafetyTicks
       THEN readyFor' = 0 /\ UNCHANGED <<safety, safetyEntity>>
       ELSE safety' = "removed" /\ safetyEntity' = FALSE /\ UNCHANGED readyFor
    /\ UNCHANGED <<paused, configured, craftVars, askVars, buildVars, result, retry,
                   patchVars, refused, moves, failures, refusals>>

UpdateSafety ==
    /\ Goto("safety", "update")
    /\ IF ~SafetyGround \/ safety # "live"
       THEN UNCHANGED safetyVars
       ELSE IF ~TerrainReady
       THEN readyFor' = Off /\ UNCHANGED <<safety, safetyEntity>>
       ELSE IF readyFor = Off
       THEN readyFor' = 0 /\ UNCHANGED <<safety, safetyEntity>>
       ELSE IF readyFor < SafetyTicks
       THEN UNCHANGED safetyVars
       ELSE safety' = "removed" /\ safetyEntity' = FALSE /\ UNCHANGED readyFor
    /\ UNCHANGED <<paused, configured, craftVars, askVars, buildVars, result, retry,
                   patchVars, refused, moves, failures, refusals>>

\* updateCollisionRequest, not reached while paused: a due retry forces a
\* request, otherwise the aircraft has to have moved far enough.
RetryDue == retry = 0

\* Mutant: the due timer is cleared but does not force the request.
UpdateUnforced ==
    /\ Goto("update", "gazebo")
    /\ IF paused
       THEN UNCHANGED <<askVars, retry>>
       ELSE /\ retry' = IF RetryDue THEN Off ELSE retry
            /\ IF center = Nowhere \/ Far(center, place) THEN Post ELSE UNCHANGED askVars
    /\ UNCHANGED <<paused, configured, craftVars, buildVars, result, patchVars, safetyVars,
                   refused, moves, failures, refusals>>

Update ==
    /\ Goto("update", "gazebo")
    /\ IF paused
       THEN UNCHANGED <<askVars, retry>>
       ELSE /\ retry' = IF RetryDue THEN Off ELSE retry
            /\ IF RetryDue \/ center = Nowhere \/ Far(center, place)
               THEN Post
               ELSE UNCHANGED askVars
    /\ UNCHANGED <<paused, configured, craftVars, buildVars, result, patchVars, safetyVars,
                   refused, moves, failures, refusals>>

(***************************************************************************)
(* The end of an iteration: Gazebo removes the entities it was asked to    *)
(* remove, unless it is paused and defers that; time advances; the         *)
(* aircraft flies on.  The worker is never later than its deadline and     *)
(* takes a request within the iteration that posted it.                    *)
(***************************************************************************)
OnTime ==
    /\ building # None => left > 0
    /\ building = None => request = None

Countdown(n) == IF n > 0 THEN n - 1 ELSE n

Fly ==
    \/ UNCHANGED <<craftVars, moves>>
    \/ /\ moves < MaxMoves
       /\ moves' = moves + 1
       /\ place' \in Places /\ low' \in BOOLEAN

Iterate(pause) ==
    /\ Goto("gazebo", "ensure")
    /\ OnTime
    /\ paused' = pause
    /\ left' = Countdown(left) /\ retry' = Countdown(retry)
    /\ IF paused
       THEN UNCHANGED <<overlap, readyFor>>
       ELSE /\ overlap' = Countdown(overlap)
            /\ readyFor' = IF readyFor = Off THEN Off
                           ELSE IF readyFor < SafetyTicks THEN readyFor + 1 ELSE readyFor
    /\ \/ patches' = patches \ removals /\ removals' = {}
       \/ paused /\ UNCHANGED <<patches, removals>>
    /\ Fly
    /\ UNCHANGED <<configured, askVars, building, result, current, retiring, safety,
                   safetyEntity, refused, failures, refusals>>

SimStep ==
    \/ EnsureSafety \/ Bind \/ WaitForModel \/ Retire \/ Apply \/ UpdateSafety \/ Update
    \/ \E pause \in BOOLEAN : Iterate(pause)

-----------------------------------------------------------------------------
(***************************************************************************)
(* The collision worker.                                                   *)
(***************************************************************************)
\* Mutant: the request stays in its slot.
TakeCopy ==
    /\ building = None /\ request # None
    /\ building' = request /\ left' = BuildTicks
    /\ UNCHANGED <<simVars, craftVars, askVars, result, retry, patchVars,
                   safetyVars, refused, moves, failures, refusals>>

Take ==
    /\ building = None /\ request # None
    /\ building' = request /\ left' = BuildTicks
    /\ request' = None
    /\ UNCHANGED <<simVars, craftVars, latest, center, centerOf, result, retry, patchVars,
                   safetyVars, refused, moves, failures, refusals>>

\* A result replaces an unread one of an earlier generation.
Store(patch) ==
    /\ building # None
    /\ result' = IF result = NoResult \/ building >= result.generation
                 THEN [generation |-> building, patch |-> patch]
                 ELSE result
    /\ building' = None /\ left' = 0
    /\ UNCHANGED <<simVars, craftVars, askVars, retry, patchVars, safetyVars, refused,
                   moves, refusals>>

Superseded == building < latest

BuildSucceeds == Store(TRUE) /\ UNCHANGED failures

\* The build notices that it is superseded and gives up.
BuildCancelled == Superseded /\ Store(FALSE) /\ UNCHANGED failures

\* Elevation data is missing.
BuildFails ==
    /\ failures < MaxFailures
    /\ Store(FALSE)
    /\ failures' = failures + 1

WorkerStep == Take \/ BuildSucceeds \/ BuildCancelled \/ BuildFails

Next == SimStep \/ WorkerStep

Spec == Init /\ [][Next]_vars

(***************************************************************************)
(* Fairness: both threads run, the simulation is not paused forever and a  *)
(* model with a terrain configuration appears.                             *)
(***************************************************************************)
Fairness ==
    /\ WF_vars(SimStep) /\ WF_vars(WorkerStep)
    /\ SF_vars(Iterate(FALSE)) /\ SF_vars(Bind)

FairSpec == Spec /\ Fairness

-----------------------------------------------------------------------------
(***************************************************************************)
(* Properties.                                                             *)
(***************************************************************************)

\* Every variable keeps its type.  In particular no timer is ever set to more than
\* its delay from now, however often and in whatever order it is armed.
TypeOK ==
    /\ pc \in {"ensure", "bind", "retire", "apply", "safety", "update", "gazebo"}
    /\ paused \in BOOLEAN /\ configured \in BOOLEAN /\ low \in BOOLEAN
    /\ place \in Places /\ center \in Places \cup {Nowhere}
    /\ latest \in Nat /\ request \in Nat /\ building \in Nat /\ left \in 0..BuildTicks
    /\ result \in [generation : Nat, patch : BOOLEAN]
    /\ retry \in {Off} \cup 0..RetryTicks
    /\ current \in Nat /\ retiring \in Nat /\ overlap \in 0..OverlapTicks
    /\ patches \subseteq Nat /\ removals \subseteq Nat
    /\ safety \in {"none", "live", "removed"} /\ safetyEntity \in BOOLEAN
    /\ readyFor \in {Off} \cup 0..SafetyTicks
    /\ centerOf \in [1..latest -> Places]
    /\ refused \subseteq Nat
    /\ moves \in 0..MaxMoves /\ failures \in 0..MaxFailures /\ refusals \in 0..MaxRefusals

\* The generations in flight are ordered: whatever the interleaving, a later
\* stage never holds a newer generation than an earlier one, and the request
\* slot only ever holds the newest.
GenerationsOrdered ==
    /\ request # None => request = latest
    /\ building <= latest
    /\ building # None /\ request # None => building < request
    /\ result.generation <= latest
    /\ result # NoResult /\ request # None => result.generation < request
    /\ result # NoResult /\ building # None => result.generation < building
    /\ current <= latest
    /\ current # None /\ request # None => current < request
    /\ current # None /\ building # None => current < building
    /\ current # None /\ result # NoResult => current < result.generation

\* The newest request is never forgotten: it waits, is being built, sits in the
\* result slot or is in the world, or the retry timer will ask again.  (The one
\* loss the code accepts is a patch Gazebo refuses to create.)
NothingForgotten ==
    latest > 0 =>
        latest \in {request, building, result.generation, current} \cup refused
            \/ retry # Off

\* There is ground to stand on from the first safety ground, or without one
\* from the first patch, for ever: no swap, retirement or removal opens a gap.
GroundAlways ==
    (current # None \/ (safety # "none" /\ (SafetyGround \/ ~configured)))
        => safetyEntity \/ patches \ removals # {}

\* The world holds the active patch and at most its predecessor, and no patch
\* the plugin has lost track of.
PatchesTracked ==
    /\ patches \subseteq {current, retiring} \ {None}
    /\ current # None => current \in patches
    /\ current \notin removals

\* What the plugin's handles and the world agree on, and what makes the
\* properties above inductive: only the predecessor is ever up for removal, and
\* only after the overlap; the safety ground is given up only for terrain.
WorldConsistent ==
    /\ retiring # None => retiring < current
    /\ removals \subseteq patches \cap ({retiring} \ {None})
    /\ removals # {} => overlap = 0
    /\ patches \subseteq {current, retiring} \ {None}
    /\ current # None => current \in patches
    /\ safetyEntity <=> safety = "live"
    /\ safety = "removed" /\ (SafetyGround \/ ~configured) => current # None
    /\ result.generation = None => result = NoResult

\* A patch leaves the world only when its successor has been in it for the
\* overlap time.
MakeBeforeBreak ==
    [][\A g \in patches \ patches' :
        current \in patches /\ current > g /\ overlap = 0]_vars

\* The predecessor is always gone eventually, so that polling resumes.
RetirementCompletes == retiring # None ~> retiring = None

\* When the aircraft stays where it is, terrain for its place is in the world
\* in the end, through outages and supersessions, unless Gazebo refused it.
\* This needs RetryTicks to exceed a build, an overlap and a removal.
Settles ==
    <>[](\/ current # None /\ ~Far(centerOf[current], place)
         \/ latest \in refused)

\* The safety ground goes away once there is terrain and the aircraft stays
\* above it.
SafetyRetires ==
    <>[](SafetyGround /\ current # None /\ ~low) => <>[](~safetyEntity)

\* Whatever the plugin puts up for removal, and whatever it should put up,
\* leaves the world: superseded patches, so that polling resumes, and the
\* safety ground.
RemovalsComplete == RetirementCompletes /\ SafetyRetires

=============================================================================
