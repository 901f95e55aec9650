-------------------------- MODULE CollisionProofs --------------------------
(***************************************************************************)
(* Proofs about CollisionPipeline, for every set of tiles, every notion of *)
(* distance and every value of the delays and bounds.                      *)
(*                                                                         *)
(* TypeOK is inductive by itself; so is GenerationsOrdered on top of it.   *)
(* WorldConsistent and NothingForgotten need that order, and the           *)
(* properties of the ground follow from WorldConsistent.                   *)
(***************************************************************************)
EXTENDS CollisionPipeline, TLAPS

-----------------------------------------------------------------------------
(***************************************************************************)
(* Type correctness.                                                       *)
(***************************************************************************)

\* A new request has the next generation and remembers the aircraft's tile.
LEMMA PostTypes ==
    ASSUME TypeOK, Post
    PROVE  /\ latest' \in Nat /\ request' \in Nat
           /\ center' \in Places
           /\ centerOf' \in [1..latest' -> Places]
<1>1. latest' = latest + 1 /\ request' = latest + 1 /\ center' = place
  BY DEF Post
<1>2. latest \in Nat /\ place \in Places /\ centerOf \in [1..latest -> Places]
  BY DEF TypeOK
<1>3. ASSUME NEW g \in 1..(latest + 1)
      PROVE  (IF g = latest + 1 THEN place ELSE centerOf[g]) \in Places
  BY <1>2
<1>4. centerOf' \in [1..(latest + 1) -> Places]
  BY <1>3 DEF Post
<1>5. QED
  BY <1>1, <1>2, <1>4

\* A timer that runs down stays within its range.
LEMMA CountdownTypes ==
    ASSUME NEW m \in Nat, NEW n \in 0..m
    PROVE  Countdown(n) \in 0..m
BY DEF Countdown

\* Creating, or failing to create, the safety ground.
LEMMA EnsureSafetyTypes == TypeOK /\ EnsureSafety => TypeOK'
<1> SUFFICES ASSUME TypeOK, EnsureSafety PROVE TypeOK'
  OBVIOUS
<1>1. refusals' \in 0..MaxRefusals
  BY ConstantsAssumption DEF TypeOK, EnsureSafety
<1>2. safety' \in {"none", "live", "removed"}
  BY DEF TypeOK, EnsureSafety
<1>3. safetyEntity' \in BOOLEAN
  BY DEF TypeOK, EnsureSafety
<1>4. pc' \in {"bind", "retire"}
  BY DEF EnsureSafety, Goto
<1>5. UNCHANGED <<paused, configured, craftVars, askVars, buildVars, result, retry,
                  patchVars, readyFor, refused, moves, failures>>
  BY DEF EnsureSafety
<1>6. QED
  BY <1>1, <1>2, <1>3, <1>4, <1>5 DEF TypeOK, craftVars, askVars, buildVars, patchVars

\* Binding the model's configuration.
LEMMA BindTypes == TypeOK /\ Bind => TypeOK'
<1> SUFFICES ASSUME TypeOK, Bind PROVE TypeOK'
  OBVIOUS
<1>1. /\ latest' \in Nat /\ request' \in Nat
      /\ center' \in Places \cup {Nowhere}
      /\ centerOf' \in [1..latest' -> Places]
  <2>1. CASE Post
    BY <2>1, PostTypes
  <2>2. CASE UNCHANGED askVars
    BY <2>2 DEF TypeOK, askVars
  <2>3. QED
    BY <2>1, <2>2 DEF Bind
<1>2. safety' \in {"none", "live", "removed"} /\ safetyEntity' \in BOOLEAN
  BY DEF TypeOK, Bind
<1>3. pc' = "retire" /\ configured' = TRUE
  BY DEF Bind, Goto
<1>4. UNCHANGED <<paused, craftVars, buildVars, result, retry, patchVars, readyFor,
                  refused, moves, failures, refusals>>
  BY DEF Bind
<1>5. QED
  BY <1>1, <1>2, <1>3, <1>4 DEF TypeOK, craftVars, buildVars, patchVars

\* Retiring the predecessor.
LEMMA RetireTypes == TypeOK /\ Retire => TypeOK'
<1> SUFFICES ASSUME TypeOK, Retire PROVE TypeOK'
  OBVIOUS
<1>1. /\ current' = current /\ patches' = patches
      /\ retiring' \in {retiring, 0} /\ overlap' \in {overlap, 0}
      /\ removals' \in {removals, removals \cup {retiring}}
  BY DEF Retire, patchVars, None
<1>2. pc' = "apply"
  BY DEF Retire, Goto
<1>3. UNCHANGED <<paused, configured, craftVars, askVars, buildVars, result, retry,
                  safetyVars, refused, moves, failures, refusals>>
  BY DEF Retire
<1>4. QED
  BY <1>1, <1>2, <1>3, ConstantsAssumption
  DEF TypeOK, craftVars, askVars, buildVars, safetyVars

\* Applying a result.
LEMMA ApplyTypes == TypeOK /\ Apply => TypeOK'
<1> SUFFICES ASSUME TypeOK, Apply PROVE TypeOK'
  OBVIOUS
<1> USE DEF Apply, PollFailure, PollOutdated, Install, InstallRefused
<1>1. result.generation \in Nat
  BY DEF TypeOK
<1>2. result' \in [generation : Nat, patch : BOOLEAN]
  <2>1. result' = NoResult \/ result' = result
    OBVIOUS
  <2>2. NoResult \in [generation : Nat, patch : BOOLEAN]
    BY DEF NoResult, None
  <2>3. QED
    BY <2>1, <2>2 DEF TypeOK
<1>3. retry' \in {Off} \cup 0..RetryTicks
  <2>1. retry' = RetryTicks \/ retry' = retry
    OBVIOUS
  <2>2. QED
    BY <2>1, ConstantsAssumption DEF TypeOK
<1>4. current' \in Nat /\ retiring' \in Nat
  BY <1>1 DEF TypeOK
<1>5. overlap' \in 0..OverlapTicks
  BY ConstantsAssumption DEF TypeOK
<1>6. patches' \subseteq Nat
  BY <1>1 DEF TypeOK
<1>7. refused' \subseteq Nat
  BY <1>1 DEF TypeOK
<1>8. refusals' \in 0..MaxRefusals
  BY ConstantsAssumption DEF TypeOK
<1>9. pc' = "safety"
  BY DEF Goto
<1>10. UNCHANGED <<paused, configured, craftVars, askVars, buildVars, removals, safetyVars,
                   moves, failures>>
  OBVIOUS
<1>11. QED
  BY <1>2, <1>3, <1>4, <1>5, <1>6, <1>7, <1>8, <1>9, <1>10
  DEF TypeOK, craftVars, askVars, buildVars, safetyVars

\* Giving up the safety ground.
LEMMA UpdateSafetyTypes == TypeOK /\ UpdateSafety => TypeOK'
<1> SUFFICES ASSUME TypeOK, UpdateSafety PROVE TypeOK'
  OBVIOUS
<1>1. safety' \in {"none", "live", "removed"}
  BY DEF TypeOK, UpdateSafety, safetyVars
<1>2. safetyEntity' \in BOOLEAN
  BY DEF TypeOK, UpdateSafety, safetyVars
<1>3. readyFor' \in {Off} \cup 0..SafetyTicks
  BY ConstantsAssumption DEF TypeOK, UpdateSafety, safetyVars
<1>4. pc' = "update"
  BY DEF UpdateSafety, Goto
<1>5. UNCHANGED <<paused, configured, craftVars, askVars, buildVars, result, retry,
                  patchVars, refused, moves, failures, refusals>>
  BY DEF UpdateSafety
<1>6. QED
  BY <1>1, <1>2, <1>3, <1>4, <1>5 DEF TypeOK, craftVars, askVars, buildVars, patchVars

\* Asking for a patch.
LEMMA UpdateTypes == TypeOK /\ Update => TypeOK'
<1> SUFFICES ASSUME TypeOK, Update PROVE TypeOK'
  OBVIOUS
<1>1. /\ latest' \in Nat /\ request' \in Nat
      /\ center' \in Places \cup {Nowhere}
      /\ centerOf' \in [1..latest' -> Places]
  <2>1. CASE Post
    BY <2>1, PostTypes
  <2>2. CASE UNCHANGED askVars
    BY <2>2 DEF TypeOK, askVars
  <2>3. QED
    BY <2>1, <2>2 DEF Update
<1>2. retry' \in {Off} \cup 0..RetryTicks
  BY DEF Update, TypeOK
<1>3. pc' = "gazebo"
  BY DEF Update, Goto
<1>4. UNCHANGED <<paused, configured, craftVars, buildVars, result, patchVars, safetyVars,
                  refused, moves, failures, refusals>>
  BY DEF Update
<1>5. QED
  BY <1>1, <1>2, <1>3, <1>4 DEF TypeOK, craftVars, buildVars, patchVars, safetyVars

\* The end of an iteration.
LEMMA IterateTypes ==
    ASSUME TypeOK, NEW pause \in BOOLEAN, Iterate(pause)
    PROVE  TypeOK'
<1>1. left' \in 0..BuildTicks
  BY CountdownTypes, ConstantsAssumption DEF TypeOK, Iterate
<1>2. retry' \in {Off} \cup 0..RetryTicks
  <2>1. retry' = Countdown(retry)
    BY DEF Iterate
  <2>2. QED
    BY <2>1, ConstantsAssumption DEF TypeOK, Countdown, Off
<1>3. overlap' \in 0..OverlapTicks
  <2>1. overlap' = overlap \/ overlap' = Countdown(overlap)
    BY DEF Iterate
  <2>2. QED
    BY <2>1, CountdownTypes, ConstantsAssumption DEF TypeOK
<1>4. readyFor' \in {Off} \cup 0..SafetyTicks
  <2>1. \/ readyFor' = Off \/ readyFor' = readyFor
        \/ readyFor < SafetyTicks /\ readyFor' = readyFor + 1
    BY DEF Iterate
  <2>2. QED
    BY <2>1, ConstantsAssumption DEF TypeOK, Off
<1>5. place' \in Places /\ low' \in BOOLEAN
  BY DEF TypeOK, Iterate, Fly, craftVars
<1>6. moves' \in 0..MaxMoves
  BY ConstantsAssumption DEF TypeOK, Iterate, Fly
<1>7. /\ pc' = "ensure" /\ paused' = pause
      /\ patches' \subseteq Nat /\ removals' \subseteq Nat
  BY DEF TypeOK, Iterate, Goto
<1>8. UNCHANGED <<configured, askVars, building, result, current, retiring, safety,
                  safetyEntity, refused, failures, refusals>>
  BY DEF Iterate
<1>9. QED
  BY <1>1, <1>2, <1>3, <1>4, <1>5, <1>6, <1>7, <1>8 DEF TypeOK, askVars

\* Storing a result.
LEMMA StoreTypes ==
    ASSUME TypeOK, NEW patch \in BOOLEAN, Store(patch), failures' \in 0..MaxFailures
    PROVE  TypeOK'
<1>1. result' \in [generation : Nat, patch : BOOLEAN]
  BY DEF Store, TypeOK
<1>2. building' = 0 /\ left' = 0
  BY DEF Store, None
<1>3. UNCHANGED <<simVars, craftVars, askVars, retry, patchVars, safetyVars, refused,
                  moves, refusals>>
  BY DEF Store
<1>4. 0 \in Nat /\ 0 \in 0..BuildTicks
  BY ConstantsAssumption
<1>5. QED
  BY <1>1, <1>2, <1>3, <1>4
  DEF TypeOK, simVars, craftVars, askVars, patchVars, safetyVars

\* Every step of either thread keeps every variable in its type.
LEMMA TypeStep == TypeOK /\ [Next]_vars => TypeOK'
<1> SUFFICES ASSUME TypeOK, [Next]_vars PROVE TypeOK'
  OBVIOUS
<1>1. CASE WaitForModel
  BY <1>1 DEF TypeOK, WaitForModel, Goto, craftVars, askVars, buildVars, patchVars, safetyVars
<1>2. ASSUME NEW pause \in BOOLEAN, Iterate(pause) PROVE TypeOK'
  BY <1>2, IterateTypes
<1>3. CASE Take
  BY <1>3, ConstantsAssumption
  DEF TypeOK, Take, simVars, craftVars, patchVars, safetyVars, None
<1>4. CASE BuildSucceeds
  BY <1>4, StoreTypes DEF BuildSucceeds, TypeOK
<1>5. CASE BuildCancelled
  BY <1>5, StoreTypes DEF BuildCancelled, TypeOK
<1>6. CASE BuildFails
  <2>1. failures' \in 0..MaxFailures
    BY <1>6, ConstantsAssumption DEF BuildFails, TypeOK
  <2>2. QED
    BY <1>6, <2>1, StoreTypes DEF BuildFails
<1>7. CASE UNCHANGED vars
  BY <1>7 DEF TypeOK, vars, simVars, craftVars, askVars, buildVars, patchVars, safetyVars
<1>8. QED
  BY <1>1, <1>2, <1>3, <1>4, <1>5, <1>6, <1>7, EnsureSafetyTypes, BindTypes, RetireTypes,
     ApplyTypes, UpdateSafetyTypes, UpdateTypes
  DEF Next, SimStep, WorkerStep

\* The initial states are typed.
LEMMA TypeInit == Init => TypeOK
<1> SUFFICES ASSUME Init PROVE TypeOK
  OBVIOUS
<1>1. centerOf \in [1..latest -> Places]
  BY DEF Init
<1>2. result \in [generation : Nat, patch : BOOLEAN]
  BY DEF Init, NoResult, None
<1>3. /\ latest \in Nat /\ request \in Nat /\ building \in Nat /\ left \in 0..BuildTicks
      /\ current \in Nat /\ retiring \in Nat /\ overlap \in 0..OverlapTicks
      /\ moves \in 0..MaxMoves /\ failures \in 0..MaxFailures /\ refusals \in 0..MaxRefusals
  BY ConstantsAssumption DEF Init, None
<1>4. QED
  BY <1>1, <1>2, <1>3 DEF Init, TypeOK, Off

\* TypeOK holds in every reachable state.
THEOREM TypeCorrect == Spec => []TypeOK
BY TypeInit, TypeStep, PTL DEF Spec

-----------------------------------------------------------------------------
(***************************************************************************)
(* The order of the generations in flight.                                 *)
(***************************************************************************)

\* Only the generations matter: a step that leaves them alone keeps the order.
LEMMA OrderFrame ==
    ASSUME GenerationsOrdered, UNCHANGED <<latest, request, building, result, current>>
    PROVE  GenerationsOrdered'
BY DEF GenerationsOrdered

\* A new request is newer than everything in flight.
LEMMA PostOrdered ==
    ASSUME TypeOK, GenerationsOrdered, Post, UNCHANGED <<building, result, current>>
    PROVE  GenerationsOrdered'
BY DEF TypeOK, GenerationsOrdered, Post, None

\* A result keeps the place of its build.
LEMMA StoreOrdered ==
    ASSUME TypeOK, GenerationsOrdered, NEW patch \in BOOLEAN, Store(patch)
    PROVE  GenerationsOrdered'
<1>1. /\ building # None /\ building' = None
      /\ UNCHANGED <<latest, request, current>>
  BY DEF Store, askVars, patchVars
<1>2. CASE result' = result
  BY <1>1, <1>2 DEF TypeOK, GenerationsOrdered, None
<1>3. CASE result' = [generation |-> building, patch |-> patch]
  BY <1>1, <1>3 DEF TypeOK, GenerationsOrdered, None
<1>4. QED
  BY <1>2, <1>3 DEF Store

\* No interleaving of the two threads disturbs the order.
LEMMA OrderStep == TypeOK /\ GenerationsOrdered /\ [Next]_vars => GenerationsOrdered'
<1> SUFFICES ASSUME TypeOK, GenerationsOrdered, [Next]_vars PROVE GenerationsOrdered'
  OBVIOUS
<1> USE DEF askVars, buildVars, patchVars
<1>1. CASE EnsureSafety
  BY <1>1, OrderFrame DEF EnsureSafety
<1>2. CASE Bind
  BY <1>2, OrderFrame, PostOrdered DEF Bind
<1>3. CASE WaitForModel
  BY <1>3, OrderFrame DEF WaitForModel
<1>4. CASE Retire
  <2>1. UNCHANGED <<latest, request, building, result, current>>
    BY <1>4 DEF Retire
  <2>2. QED
    BY <2>1, OrderFrame
<1>5. CASE Apply
  <2>1. UNCHANGED <<latest, request, building>>
    BY <1>5 DEF Apply
  <2>2. \/ UNCHANGED <<result, current>>
        \/ result' = NoResult /\ result # NoResult /\ UNCHANGED current
        \/ result' = NoResult /\ result # NoResult /\ current' = result.generation
    BY <1>5 DEF Apply, PollFailure, PollOutdated, Install, InstallRefused, NoResult
  <2>3. QED
    BY <2>1, <2>2 DEF TypeOK, GenerationsOrdered, NoResult, None
<1>6. CASE UpdateSafety
  BY <1>6, OrderFrame DEF UpdateSafety
<1>7. CASE Update
  BY <1>7, OrderFrame, PostOrdered DEF Update
<1>8. ASSUME NEW pause \in BOOLEAN, Iterate(pause) PROVE GenerationsOrdered'
  BY <1>8, OrderFrame DEF Iterate
<1>9. CASE Take
  BY <1>9 DEF TypeOK, GenerationsOrdered, Take, None
<1>10. CASE BuildSucceeds \/ BuildCancelled \/ BuildFails
  BY <1>10, StoreOrdered DEF BuildSucceeds, BuildCancelled, BuildFails
<1>11. CASE UNCHANGED vars
  BY <1>11, OrderFrame DEF vars
<1>12. QED
  BY <1>1, <1>2, <1>3, <1>4, <1>5, <1>6, <1>7, <1>8, <1>9, <1>10, <1>11
  DEF Next, SimStep, WorkerStep

\* Whatever the interleaving of the simulation thread and the worker, a later
\* stage never holds a newer generation than an earlier one.
THEOREM OrderHolds == Spec => []GenerationsOrdered
<1>1. Init => GenerationsOrdered
  BY DEF Init, GenerationsOrdered, NoResult, None
<1>2. QED
  BY <1>1, OrderStep, TypeCorrect, PTL DEF Spec

-----------------------------------------------------------------------------
(***************************************************************************)
(* The newest request is never forgotten.                                  *)
(***************************************************************************)

\* Storing a result never loses the newest generation to an older one.
LEMMA StoreRemembers ==
    ASSUME TypeOK, GenerationsOrdered, NothingForgotten,
           NEW patch \in BOOLEAN, Store(patch)
    PROVE  NothingForgotten'
<1>1. building # None /\ UNCHANGED <<latest, request, current, refused, retry>>
  BY DEF Store, askVars, patchVars
<1>2. CASE building = latest
  <2>1. result'.generation = building
    BY <1>2 DEF Store, TypeOK, GenerationsOrdered
  <2>2. QED
    BY <1>1, <1>2, <2>1 DEF NothingForgotten
<1>3. CASE building # latest
  <2>1. result.generation = latest /\ latest > 0 => result' = result
    BY <1>3 DEF Store, TypeOK, GenerationsOrdered, NoResult, None
  <2>2. QED
    BY <1>1, <1>3, <2>1 DEF NothingForgotten
<1>4. QED
  BY <1>2, <1>3

\* Every step that takes the newest generation out of one stage puts it into
\* the next or arms the retry timer.
LEMMA RememberStep ==
    TypeOK /\ GenerationsOrdered /\ NothingForgotten /\ [Next]_vars => NothingForgotten'
<1> SUFFICES ASSUME TypeOK, GenerationsOrdered, NothingForgotten, [Next]_vars
             PROVE  NothingForgotten'
  OBVIOUS
<1> USE DEF askVars, buildVars, patchVars
<1>1. CASE UNCHANGED <<latest, request, building, result, current, refused, retry>>
  BY <1>1 DEF NothingForgotten
<1>2. CASE Post
  BY <1>2 DEF Post, NothingForgotten
<1>3. CASE Apply
  <2>1. UNCHANGED <<latest, request, building>>
    BY <1>3 DEF Apply
  <2>2. CASE PollFailure
    <3>1. RetryTicks # Off
      BY ConstantsAssumption DEF Off
    <3>2. QED
      BY <2>2, <3>1 DEF PollFailure, NothingForgotten
  <2>3. CASE PollOutdated /\ result' = NoResult
    BY <2>1, <2>3 DEF PollOutdated, Outdated, NothingForgotten, TypeOK, GenerationsOrdered
  <2>4. CASE Install /\ result' = NoResult
    <3>1. current = None \/ result.generation = latest
      BY <2>4 DEF Install, Outdated, TypeOK, GenerationsOrdered
    <3>2. current' = result.generation /\ UNCHANGED <<retry, refused>>
      BY <2>4 DEF Install
    <3>3. QED
      BY <2>1, <3>1, <3>2 DEF NothingForgotten, None
  <2>5. CASE InstallRefused
    BY <2>1, <2>5 DEF InstallRefused, NothingForgotten
  <2>6. CASE UNCHANGED <<result, retry, current, refused>>
    BY <2>1, <2>6 DEF NothingForgotten
  <2>7. QED
    BY <1>3, <2>2, <2>3, <2>4, <2>5, <2>6 DEF Apply
<1>4. CASE Update
  <2>1. Post \/ UNCHANGED <<latest, request, retry>>
    BY <1>4 DEF Update
  <2>2. UNCHANGED <<building, result, current, refused>>
    BY <1>4 DEF Update
  <2>3. QED
    BY <2>1, <2>2, <1>1, <1>2
<1>5. ASSUME NEW pause \in BOOLEAN, Iterate(pause) PROVE NothingForgotten'
  <2>1. retry # Off => retry' # Off
    BY <1>5 DEF Iterate, Countdown, TypeOK, Off
  <2>2. UNCHANGED <<latest, request, building, result, current, refused>>
    BY <1>5 DEF Iterate
  <2>3. QED
    BY <2>1, <2>2 DEF NothingForgotten
<1>6. CASE Take
  BY <1>6 DEF Take, NothingForgotten, TypeOK, GenerationsOrdered, None
<1>7. CASE BuildSucceeds \/ BuildCancelled \/ BuildFails
  BY <1>7, StoreRemembers DEF BuildSucceeds, BuildCancelled, BuildFails
<1>8. CASE EnsureSafety \/ WaitForModel \/ Retire \/ UpdateSafety
  BY <1>8, <1>1 DEF EnsureSafety, WaitForModel, Retire, UpdateSafety
<1>9. CASE Bind
  BY <1>9, <1>1, <1>2 DEF Bind
<1>10. CASE UNCHANGED vars
  BY <1>10, <1>1 DEF vars
<1>11. QED
  BY <1>3, <1>4, <1>5, <1>6, <1>7, <1>8, <1>9, <1>10 DEF Next, SimStep, WorkerStep

\* The newest collision request waits, is built, is stored, is in the world,
\* was refused by Gazebo, or the retry timer runs.
THEOREM NothingIsForgotten == Spec => []NothingForgotten
<1>1. Init => NothingForgotten
  BY DEF Init, NothingForgotten
<1>2. QED
  BY <1>1, RememberStep, OrderHolds, TypeCorrect, PTL DEF Spec

-----------------------------------------------------------------------------
(***************************************************************************)
(* The patches in the world and the safety ground.                         *)
(***************************************************************************)

\* The steps that touch neither the patches nor the safety ground, and leave
\* the result alone or replace it by a later generation.
LEMMA WorldFrame ==
    ASSUME WorldConsistent,
           UNCHANGED <<current, retiring, overlap, patches, removals, safety, safetyEntity,
                       configured>>,
           result' = result \/ result'.generation # None
    PROVE  WorldConsistent'
BY DEF WorldConsistent

\* The patches stay consistent through creation, overlap and removal, and the
\* safety ground is never given up without one.
LEMMA WorldStep ==
    TypeOK /\ GenerationsOrdered /\ WorldConsistent /\ [Next]_vars => WorldConsistent'
<1> SUFFICES ASSUME TypeOK, GenerationsOrdered, WorldConsistent, [Next]_vars
             PROVE  WorldConsistent'
  OBVIOUS
<1> USE DEF askVars, buildVars, patchVars, safetyVars, simVars
<1>1. CASE EnsureSafety
  BY <1>1 DEF EnsureSafety, WorldConsistent
<1>2. CASE Bind
  BY <1>2 DEF Bind, WorldConsistent
<1>3. CASE WaitForModel
  BY <1>3, WorldFrame DEF WaitForModel
<1>4. CASE Retire
  <2>1. UNCHANGED <<current, patches, safety, safetyEntity, configured, result>>
    BY <1>4 DEF Retire
  <2>2. CASE UNCHANGED <<retiring, overlap, removals>>
    BY <2>1, <2>2, WorldFrame
  <2>3. CASE retiring \notin patches /\ retiring' = None /\ overlap' = 0 /\ removals' = removals
    BY <2>1, <2>3 DEF WorldConsistent, None
  <2>4. CASE /\ retiring \in patches /\ overlap = 0 /\ removals' = removals \cup {retiring}
             /\ UNCHANGED <<retiring, overlap>>
    BY <2>1, <2>4 DEF WorldConsistent, None
  <2>5. QED
    BY <1>4, <2>2, <2>3, <2>4 DEF Retire
<1>5. CASE Apply
  <2>1. UNCHANGED <<removals, safety, safetyEntity, configured>>
    BY <1>5 DEF Apply
  <2>2. CASE /\ result' = result \/ result' = NoResult
             /\ UNCHANGED <<current, retiring, overlap, patches>>
    BY <2>1, <2>2 DEF WorldConsistent, NoResult
  <2>3. CASE retiring = None /\ Install /\ result' = NoResult
    <3>1. result.generation # None /\ result # NoResult
      BY <2>3 DEF Install, WorldConsistent, NoResult
    <3>2. current # None => current < result.generation
      BY <3>1 DEF GenerationsOrdered
    <3>3. removals = {} /\ patches \subseteq {current} \ {None}
      BY <2>3 DEF WorldConsistent
    <3>4. current' = result.generation /\ patches' = patches \cup {result.generation}
      BY <2>3 DEF Install
    <3>5. CASE current = None
      BY <2>1, <2>3, <3>1, <3>3, <3>4, <3>5 DEF Install, WorldConsistent, NoResult
    <3>6. CASE current # None
      BY <2>1, <2>3, <3>1, <3>2, <3>3, <3>4, <3>6 DEF Install, WorldConsistent, NoResult
    <3>7. QED
      BY <3>5, <3>6
  <2>4. QED
    BY <1>5, <2>2, <2>3 DEF Apply, PollFailure, PollOutdated, InstallRefused
<1>6. CASE UpdateSafety
  BY <1>6 DEF UpdateSafety, TerrainReady, WorldConsistent
<1>7. CASE Update
  BY <1>7, WorldFrame DEF Update
<1>8. ASSUME NEW pause \in BOOLEAN, Iterate(pause) PROVE WorldConsistent'
  <2>1. UNCHANGED <<current, retiring, safety, safetyEntity, configured, result>>
    BY <1>8 DEF Iterate
  <2>2. overlap = 0 => overlap' = 0
    BY <1>8 DEF Iterate, Countdown
  <2>3. \/ patches' = patches \ removals /\ removals' = {}
        \/ UNCHANGED <<patches, removals>>
    BY <1>8 DEF Iterate
  <2>4. current # None => current \notin removals
    BY DEF TypeOK, WorldConsistent
  <2>5. QED
    BY <2>1, <2>2, <2>3, <2>4 DEF WorldConsistent
<1>9. CASE Take
  BY <1>9, WorldFrame DEF Take
<1>10. CASE BuildSucceeds \/ BuildCancelled \/ BuildFails
  BY <1>10, WorldFrame DEF BuildSucceeds, BuildCancelled, BuildFails, Store
<1>11. CASE UNCHANGED vars
  BY <1>11, WorldFrame DEF vars
<1>12. QED
  BY <1>1, <1>2, <1>3, <1>4, <1>5, <1>6, <1>7, <1>8, <1>9, <1>10, <1>11
  DEF Next, SimStep, WorkerStep

\* The plugin's handles and the world agree in every reachable state.
THEOREM WorldHolds == Spec => []WorldConsistent
<1>1. Init => WorldConsistent
  BY DEF Init, WorldConsistent, NoResult, None
<1>2. QED
  BY <1>1, WorldStep, OrderHolds, TypeCorrect, PTL DEF Spec

\* The world holds the active patch and at most its predecessor.
THEOREM PatchesAreTracked == Spec => []PatchesTracked
<1>1. TypeOK /\ WorldConsistent => PatchesTracked
  BY DEF TypeOK, WorldConsistent, PatchesTracked, None
<1>2. QED
  BY <1>1, WorldHolds, TypeCorrect, PTL

\* There is ground from the first safety ground, or the first patch, for ever.
THEOREM GroundHolds == Spec => []GroundAlways
<1>1. TypeOK /\ WorldConsistent => GroundAlways
  <2> SUFFICES ASSUME TypeOK, WorldConsistent,
                      \/ current # None
                      \/ safety # "none" /\ (SafetyGround \/ ~configured)
               PROVE  safetyEntity \/ patches \ removals # {}
    BY DEF GroundAlways
  <2>1. CASE current # None
    BY <2>1 DEF TypeOK, WorldConsistent
  <2>2. CASE current = None
    BY <2>2 DEF TypeOK, WorldConsistent
  <2>3. QED
    BY <2>1, <2>2
<1>2. QED
  BY <1>1, WorldHolds, TypeCorrect, PTL

\* A patch leaves the world only after its successor has been in it for the
\* overlap time.
THEOREM SwapsMakeBeforeBreak == Spec => MakeBeforeBreak
<1>1. TypeOK /\ WorldConsistent /\ [Next]_vars =>
        [\A g \in patches \ patches' :
            current \in patches /\ current > g /\ overlap = 0]_vars
  <2> SUFFICES ASSUME TypeOK, WorldConsistent, Next, NEW g \in patches \ patches'
               PROVE  current \in patches /\ current > g /\ overlap = 0
    OBVIOUS
  <2> USE DEF buildVars, patchVars
  <2>1. g \in removals
    <3>1. CASE EnsureSafety \/ Bind \/ WaitForModel \/ Retire \/ UpdateSafety \/ Update
      BY <3>1 DEF EnsureSafety, Bind, WaitForModel, Retire, UpdateSafety, Update
    <3>2. CASE Apply
      BY <3>2 DEF Apply, PollFailure, PollOutdated, Install, InstallRefused
    <3>3. ASSUME NEW pause \in BOOLEAN, Iterate(pause) PROVE g \in removals
      BY <3>3 DEF Iterate
    <3>4. CASE WorkerStep
      BY <3>4 DEF WorkerStep, Take, BuildSucceeds, BuildCancelled, BuildFails, Store
    <3>5. QED
      BY <3>1, <3>2, <3>3, <3>4 DEF Next, SimStep
  <2>2. QED
    BY <2>1 DEF TypeOK, WorldConsistent, None
<1>2. QED
  BY <1>1, WorldHolds, TypeCorrect, PTL DEF Spec, MakeBeforeBreak

=============================================================================
