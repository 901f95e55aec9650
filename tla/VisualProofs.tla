---------------------------- MODULE VisualProofs ----------------------------
(***************************************************************************)
(* Proofs about VisualPipeline, for any places, any numbers of pages, with *)
(* and without progressive growth, and for every bound.                    *)
(*                                                                         *)
(* The argument is about what travels between the threads.  A snapshot     *)
(* goes from the worker (`built`) through the queue (`pending`) into a     *)
(* slot (`staging`, `active`).  Within a generation a later revision never *)
(* has fewer pages (Monotone), the worker is ahead of everything it has    *)
(* sent (Dominates), and generations reach the worker in order (Ordered).  *)
(* The acknowledgement is stored in several steps: it names what is on     *)
(* screen but for the steps that store it (NamesOK), a generation the      *)
(* worker has read stays on screen (AwaitOK), and a revision of it that is *)
(* not older than the worker's is the worker's, with all of its pages      *)
(* visible (RevisionOK).                                                   *)
(***************************************************************************)
EXTENDS VisualPipeline, TLAPS

-----------------------------------------------------------------------------
(***************************************************************************)
(* The inductive invariant.                                                *)
(***************************************************************************)
\* The generations on their way to the screen.
Shipped == {pending.gen, staging.gen, active.gen}

\* Nothing is newer than the newest request, and nothing but a waiting request
\* is newer than the one the worker serves.
Ordered ==
    /\ request \in {0, Requested} /\ latest <= Requested
    /\ \A g \in Shipped \cup sawTerrain \cup {gen} :
          /\ g <= Requested
          /\ request # 0 => g < request
    /\ gen # 0 => \A g \in Shipped \cup sawTerrain : g <= gen
    /\ wpc = "look" => \A g \in Shipped \cup sawTerrain : g < gen
    /\ gen = 0 <=> wpc = "idle"
    /\ 0 \notin sawTerrain

\* The worker has looked at the screen and has something built.
Building == wpc \notin {"idle", "look"}

\* Nothing of the worker's generation has been handed over.
Unpublished == wpc = "prepare" \/ (wpc = "bootstrap" /\ (~built.initial \/ built.rev = 0))

\* Publishing and awaiting the activation.
Publishing == {"publish", "await", "awaitrevision", "confirm", "confirmrevision"}

\* What the worker has built, at each place of visualWorker: a terrain that grows
\* is built where there was none on screen, with a revision for every page; any
\* other is complete near the aircraft at revision 0 and complete at revision 1.
WorkerOK ==
    Building =>
        /\ built.gen = gen
        /\ had <=> gen \in sawTerrain
        /\ built.initial => ~had /\ built.rev >= built.pages
        /\ wpc \in {"bootstrap", "progress", "queue"} /\ built.initial =>
              built.pages <= NearPages
        /\ ~built.initial /\ (wpc = "bootstrap" \/ built.pages < AllPages) => built.rev = 0
        /\ wpc = "prepare" => had
        /\ wpc # "bootstrap" => built.pages > 0
        /\ wpc \in {"progress", "queue", "outerprogress", "outerqueue"} => built.initial
        /\ wpc = "outer" => ~had /\ (built.initial \/ built.pages < AllPages)
        /\ wpc = "prepare" => built.pages = NearPages
        /\ had /\ wpc \in Publishing => built.pages = AllPages
        /\ Unpublished => gen \notin Shipped

\* The pages of the snapshot a slot holds, uploaded or not.
Size(slot) == IF slot.target # 0 THEN slot.target ELSE slot.pages

\* The queued snapshot is a real one.
PendingOK == pending # NoSnapshot =>
    /\ pending.gen > 0 /\ pending.pages > 0
    /\ pending.initial => pending.rev > 0

\* What is staged is newer than what is shown and has no fewer pages.
StagingOK == staging # NoSlot =>
    /\ staging.gen > 0 /\ Size(staging) > 0 /\ staging.pages <= Size(staging)
    /\ staging.cursor = 0 /\ ~staging.grows
    /\ Newer(staging, active)
    /\ staging.gen = active.gen => Size(staging) >= Size(active)

\* Visible pages are uploaded, uploaded ones belong to the snapshot.
ActiveOK ==
    /\ active # NoSlot => active.gen > 0
    /\ active.visible <= active.pages /\ active.pages <= Size(active)
    /\ active.target # 0 /\ active.cursor # 0 => active.cursor = active.pages
    /\ active.grows => active.rev > 0
    /\ ~active.grows => active.target = 0

\* A later revision of a generation has no fewer pages.
Monotone ==
    /\ pending.gen = active.gen /\ pending.rev >= active.rev => pending.pages >= Size(active)
    /\ pending.gen = staging.gen /\ pending.rev >= staging.rev => pending.pages >= Size(staging)

\* The worker is not behind anything it has sent; of its newest revision it knows
\* the pages.
Dominates ==
    Building =>
        /\ pending.gen = gen =>
             /\ pending.rev <= built.rev /\ pending.pages <= built.pages
             /\ pending.rev = built.rev => pending.pages = built.pages
        /\ staging.gen = gen =>
             /\ staging.rev <= built.rev /\ Size(staging) <= built.pages
             /\ staging.rev = built.rev => Size(staging) = built.pages
        /\ active.gen = gen =>
             /\ active.rev <= built.rev /\ Size(active) <= built.pages
             /\ active.rev = built.rev /\ active.target # 0 => active.target = built.pages

\* The renderer stores its acknowledgement: after it has revealed pages of a
\* growing terrain (show...), or after it has swapped.
Storing == rpc \in {"showcenter", "showgeneration", "showactive",
                    "center", "generation", "revision", "active"}

\* A terrain is swapped in and its revision is not stored yet.
Replacing == rpc \in {"center", "generation", "revision"}

\* The generation and the centre that are stored are those on screen, but for the
\* steps in which the renderer stores them.
NamesOK ==
    /\ activeGen <= active.gen
    /\ hasActive \/ activeGen # 0 \/ Storing => active.visible > 0
    /\ rpc \in {"showgeneration", "generation"} => activeCenter = active.gen
    /\ active.visible > 0 /\ rpc \notin {"showcenter", "showgeneration", "center", "generation"} =>
          activeGen = active.gen /\ activeCenter = active.gen

\* The revision that is stored, and what it means to the worker.
RevisionOK ==
    /\ revisionOf <= active.gen
    /\ Replacing \/ revisionOf \in {0, active.gen}
    /\ revisionOf = 0 => activeRev = 0
    /\ revisionOf = active.gen => activeRev <= active.rev
    /\ Building /\ revisionOf = gen /\ activeRev = built.rev => active.visible >= built.pages
    /\ Building /\ Replacing /\ active.gen = gen /\ active.rev = built.rev =>
          active.visible >= built.pages

\* The generation the worker has read is still on screen.
AwaitOK == wpc \in {"awaitrevision", "confirmrevision"} => active.gen = gen /\ active.visible > 0

\* A terrain whose worker found the screen occupied travels whole.
Whole ==
    /\ pending.gen \in sawTerrain => ~pending.initial /\ pending.pages = AllPages
    /\ staging.gen \in sawTerrain => Size(staging) = AllPages
    /\ active.gen \in sawTerrain => active.visible = AllPages

IInv == /\ TypeOK /\ Ordered /\ WorkerOK /\ PendingOK /\ StagingOK /\ ActiveOK /\ Monotone
        /\ Dominates /\ NamesOK /\ RevisionOK /\ AwaitOK /\ Whole /\ NothingForgotten

-----------------------------------------------------------------------------
\* The numbers a proof compares.
LEMMA Numbers ==
    ASSUME TypeOK
    PROVE  /\ Requested \in Nat /\ request \in Nat /\ latest \in Nat /\ gen \in Nat
           /\ AllPages \in Nat \ {0} /\ NearPages \in Nat \ {0} /\ NearPages <= AllPages
           /\ built.gen \in Nat /\ built.rev \in Nat /\ built.pages \in 0..AllPages
           /\ pending.gen \in Nat /\ pending.rev \in Nat /\ pending.pages \in 0..AllPages
           /\ staging.gen \in Nat /\ staging.rev \in Nat /\ Size(staging) \in 0..AllPages
           /\ staging.pages \in 0..AllPages /\ staging.target \in 0..AllPages
           /\ active.gen \in Nat /\ active.rev \in Nat /\ Size(active) \in 0..AllPages
           /\ active.pages \in 0..AllPages /\ active.target \in 0..AllPages
           /\ active.visible \in 0..AllPages /\ active.cursor \in 0..AllPages
           /\ activeGen \in Nat /\ activeRev \in Nat /\ activeCenter \in Nat /\ revisionOf \in Nat
<1>1. Requested \in Nat /\ request \in Nat /\ latest \in Nat /\ gen \in Nat
      /\ activeGen \in Nat /\ activeRev \in Nat /\ activeCenter \in Nat /\ revisionOf \in Nat
  BY DEF TypeOK, Requested
<1>2. AllPages \in Nat \ {0} /\ NearPages \in Nat \ {0} /\ NearPages <= AllPages
  BY ConstantsAssumption DEF AllPages
<1>3. \A s \in Snapshots : s.gen \in Nat /\ s.rev \in Nat /\ s.pages \in 0..AllPages
  BY DEF Snapshots
<1>4. \A s \in Slots : /\ s.gen \in Nat /\ s.rev \in Nat /\ Size(s) \in 0..AllPages
                       /\ s.pages \in 0..AllPages /\ s.target \in 0..AllPages
                       /\ s.visible \in 0..AllPages /\ s.cursor \in 0..AllPages
  BY DEF Slots, Size
<1>5. built \in Snapshots /\ pending \in Snapshots /\ active \in Slots /\ staging \in Slots
  BY DEF TypeOK
<1>6. QED
  BY <1>1, <1>2, <1>3, <1>4, <1>5

\* No snapshot and no slot are typed as such.
LEMMA NoneTypes == NoSnapshot \in Snapshots /\ NoSlot \in Slots
<1>1. 0 \in 0..AllPages /\ 0 \in 0..1
  BY ConstantsAssumption DEF AllPages
<1>2. QED
  BY <1>1 DEF NoSnapshot, NoSlot, Snapshots, Slots

\* Nothing but the worker's own variables changes.
Unmoved ==
    /\ UNCHANGED <<place, spc, center, centerOf, moves, request, latest, sawTerrain, pending, rpc,
                   active, staging, hasActive, activeGen, activeRev, activeCenter, revisionOf,
                   gpuFailures>>
    /\ misled' \in {misled, TRUE}

\* Then what is between the worker and the screen stays as it is.
LEMMA UnmovedKeeps ==
    ASSUME IInv, Unmoved
    PROVE  PendingOK' /\ StagingOK' /\ ActiveOK' /\ Monotone' /\ Whole' /\ NamesOK'
<1>1. UNCHANGED <<sawTerrain, pending, active, staging>>
  BY DEF Unmoved
<1>2. PendingOK' /\ ActiveOK' /\ Monotone' /\ Whole'
  BY <1>1 DEF IInv, PendingOK, ActiveOK, Monotone, Whole, Size
<1>3. StagingOK'
  BY <1>1 DEF IInv, StagingOK, Size, Newer
<1>4. NamesOK'
  BY DEF IInv, Unmoved, NamesOK, Storing
<1>5. QED
  BY <1>2, <1>3, <1>4

\* The worker goes on with its request: what it has built only grows, or none of
\* it has been published.
LEMMA BuildingKeeps ==
    ASSUME IInv, Unmoved, UNCHANGED <<gen, had, retry>>, failures' \in 0..MaxFailures,
           Building, Building', wpc' \in {"bootstrap", "progress", "queue", "prepare", "publish",
                "await", "awaitrevision", "confirm", "confirmrevision", "outer", "outerprogress",
                "outerqueue"},
           wpc' \in {"awaitrevision", "confirmrevision"} => active.gen = gen /\ active.visible > 0,
           built' \in Snapshots, WorkerOK',
           \/ gen \notin Shipped
           \/ built' = built
           \/ built'.rev > built.rev /\ built'.pages >= built.pages
    PROVE  IInv'
<1>1. TypeOK'
  <2>1. retry' \in BOOLEAN /\ had' \in BOOLEAN /\ hasActive' \in BOOLEAN /\ misled' \in BOOLEAN
    BY DEF Unmoved, IInv, TypeOK
  <2>2. QED
    BY <2>1 DEF Unmoved, IInv, TypeOK
<1>2. Ordered'
  BY DEF Unmoved, IInv, Ordered, Shipped, Requested, Building
<1>3. PendingOK' /\ StagingOK' /\ ActiveOK' /\ Monotone' /\ Whole' /\ NamesOK'
  BY UnmovedKeeps
<1>4. TypeOK /\ TypeOK' /\ UNCHANGED <<pending, staging, active, gen>>
  BY <1>1 DEF IInv, Unmoved
<1>5. Dominates'
  <2>1. /\ built.rev \in Nat /\ built.pages \in Nat /\ built'.rev \in Nat /\ built'.pages \in Nat
        /\ pending.rev \in Nat /\ pending.pages \in Nat /\ staging.rev \in Nat
        /\ Size(staging) \in Nat /\ active.rev \in Nat /\ Size(active) \in Nat
    BY <1>4, Numbers DEF Snapshots
  <2>2. Dominates
    BY DEF IInv
  <2>3. Size(staging)' = Size(staging) /\ Size(active)' = Size(active)
    BY <1>4 DEF Size
  <2>4. QED
    BY <1>4, <2>1, <2>2, <2>3 DEF Dominates, Shipped, Size
<1>6. RevisionOK' /\ AwaitOK'
  <2>1. /\ built.rev \in Nat /\ built'.rev \in Nat /\ active.rev \in Nat /\ activeRev \in Nat
        /\ revisionOf \in Nat /\ active.gen \in Nat /\ gen \in Nat /\ gen # 0
    BY <1>4, Numbers DEF Snapshots, Building, IInv, Ordered
  <2>2. RevisionOK /\ Dominates
    BY DEF IInv
  <2>3. UNCHANGED <<activeRev, revisionOf, active, rpc>>
    BY DEF Unmoved
  <2>4. \A g \in Shipped : g <= gen
    BY <2>1 DEF IInv, Ordered
  <2>5. Building /\ revisionOf = gen => active.gen = gen /\ activeRev <= built.rev
    BY <2>1, <2>2, <2>4 DEF RevisionOK, Dominates, Shipped
  <2>6. Building /\ revisionOf = gen /\ activeRev = built'.rev => active.visible >= built'.pages
    BY <2>1, <2>2, <2>5 DEF RevisionOK, Shipped
  <2>7. Building /\ Replacing /\ active.gen = gen /\ active.rev = built'.rev =>
           active.visible >= built'.pages
    BY <2>1, <2>2 DEF RevisionOK, Dominates, Shipped
  <2>8. RevisionOK'
    BY <1>4, <2>2, <2>3, <2>6, <2>7 DEF RevisionOK, Replacing
  <2>9. AwaitOK'
    BY <1>4 DEF AwaitOK
  <2>10. QED
    BY <2>8, <2>9
<1>7. NothingForgotten'
  <2>1. misled' \in {misled, TRUE}
    BY DEF Unmoved
  <2>2. QED
    BY <2>1 DEF Unmoved, IInv, NothingForgotten, Requested
<1>8. QED
  BY <1>1, <1>2, <1>3, <1>5, <1>6, <1>7 DEF IInv

\* The worker is done with its request, which is not the newest, is shown whole
\* or is to be retried.
LEMMA QuittingKeeps ==
    ASSUME IInv, Unmoved, wpc' = "idle", gen' = 0, had' = FALSE, built' = NoSnapshot,
           retry' \in BOOLEAN, retry => retry', failures' \in 0..MaxFailures,
           misled' \/ retry' \/ gen # Requested
              \/ (active.gen = Requested /\ active.visible = AllPages)
    PROVE  IInv'
<1>1. TypeOK'
  <2>1. hasActive' \in BOOLEAN /\ misled' \in BOOLEAN
    BY DEF Unmoved, IInv, TypeOK
  <2>2. QED
    BY <2>1, NoneTypes DEF Unmoved, IInv, TypeOK
<1>2. Ordered'
  <2>1. Requested \in Nat /\ request \in Nat
    BY Numbers DEF IInv
  <2>2. QED
    BY <2>1 DEF Unmoved, IInv, Ordered, Shipped, Requested
<1>3. PendingOK' /\ StagingOK' /\ ActiveOK' /\ Monotone' /\ Whole' /\ NamesOK'
  BY UnmovedKeeps
<1>4. ~Building'
  BY DEF Building
<1>5. RevisionOK' /\ AwaitOK' /\ Dominates' /\ WorkerOK'
  BY <1>4 DEF Unmoved, IInv, RevisionOK, Replacing, AwaitOK, Dominates, WorkerOK
<1>6. NothingForgotten'
  <2>1. misled' \in {misled, TRUE}
    BY DEF Unmoved
  <2>2. QED
    BY <2>1 DEF Unmoved, IInv, NothingForgotten, Requested
<1>7. QED
  BY <1>1, <1>2, <1>3, <1>5, <1>6 DEF IInv

-----------------------------------------------------------------------------
(***************************************************************************)
(* The worker's steps.                                                     *)
(***************************************************************************)
\* What every step of the worker leaves alone.
LEMMA WorkerFrame ==
    ASSUME WorkFrame, UNCHANGED <<sawTerrain, request, pending>>
    PROVE  Unmoved
BY DEF WorkFrame, simVars, renderVars, ackVars, Unmoved

\* One more near page is a revision nobody has seen.
LEMMA BootstrapPageKeeps == IInv /\ BootstrapPage => IInv'
<1> SUFFICES ASSUME IInv, BootstrapPage PROVE IInv'
  OBVIOUS
<1>1. Unmoved /\ UNCHANGED <<gen, had, retry, failures>> /\ wpc = "bootstrap" /\ wpc' = "progress"
  BY WorkerFrame DEF BootstrapPage
<1>2. TypeOK /\ WorkerOK /\ built \in Snapshots
  BY DEF IInv, TypeOK
<1>3. PICK n, m : /\ n = built.rev + 1 /\ m = built.pages + 1
                  /\ built' = [built EXCEPT !.rev = n, !.pages = m]
  BY DEF BootstrapPage
<1>4. /\ built.initial /\ built.pages < NearPages /\ NearPages <= AllPages
      /\ NearPages \in Nat /\ AllPages \in Nat /\ built.pages \in Nat /\ built.rev \in Nat
  BY <1>2, Numbers DEF BootstrapPage
<1>5. /\ built' \in Snapshots /\ built'.rev = built.rev + 1 /\ built'.pages = built.pages + 1
      /\ built'.initial = built.initial /\ built'.gen = built.gen
  <2>1. n \in Nat /\ m \in 0..AllPages
    BY <1>3, <1>4
  <2>2. /\ built' \in Snapshots /\ built'.rev = n /\ built'.pages = m
        /\ built'.initial = built.initial /\ built'.gen = built.gen
    BY <1>2, <1>3, <2>1 DEF Snapshots
  <2>3. QED
    BY <1>3, <2>2
<1>6. Building /\ Building'
  BY <1>1 DEF Building
<1>7. WorkerOK'
  BY <1>1, <1>2, <1>4, <1>5, <1>6 DEF WorkerOK, Publishing, Unpublished, Unmoved
<1>8. failures' \in 0..MaxFailures
  BY <1>1, <1>2 DEF TypeOK
<1>9. QED
  BY <1>1, <1>4, <1>5, <1>6, <1>7, <1>8, BuildingKeeps

\* Looking at the request once more changes nothing built.
LEMMA ProgressKeeps == IInv /\ Progress => IInv'
<1> SUFFICES ASSUME IInv, Progress PROVE IInv'
  OBVIOUS
<1>1. Unmoved /\ UNCHANGED <<gen, had, built, retry, failures>>
  BY WorkerFrame DEF Progress
<1>2. /\ wpc \in {"progress", "outerprogress"}
      /\ wpc' = IF wpc = "progress" THEN "queue" ELSE "outerqueue"
  BY DEF Progress
<1>3. TypeOK /\ WorkerOK /\ built \in Snapshots
  BY DEF IInv, TypeOK
<1>4. Building /\ Building'
  BY <1>2 DEF Building
<1>5. WorkerOK'
  BY <1>1, <1>2, <1>3, <1>4 DEF WorkerOK, Publishing, Unpublished, Unmoved
<1>6. failures' \in 0..MaxFailures
  BY <1>1, <1>3 DEF TypeOK
<1>7. QED
  BY <1>1, <1>2, <1>3, <1>4, <1>5, <1>6, BuildingKeeps

\* The near terrain is done: a growing one was, any other has not been published.
LEMMA BootstrapDoneKeeps == IInv /\ BootstrapDone => IInv'
<1> SUFFICES ASSUME IInv, BootstrapDone PROVE IInv'
  OBVIOUS
<1>1. Unmoved /\ UNCHANGED <<gen, had, retry, failures>>
  BY WorkerFrame DEF BootstrapDone
<1>2. wpc = "bootstrap" /\ wpc' = IF had THEN "prepare" ELSE "publish"
  BY DEF BootstrapDone
<1>3. TypeOK /\ WorkerOK /\ built \in Snapshots
  BY DEF IInv, TypeOK
<1>4. /\ built.initial => built.pages = NearPages
      /\ built' = [built EXCEPT !.pages = NearPages]
      /\ NearPages \in Nat \ {0} /\ AllPages \in Nat /\ NearPages <= AllPages
      /\ built.rev \in Nat /\ built.pages \in Nat
  BY <1>3, Numbers DEF BootstrapDone
<1>5. /\ built' \in Snapshots /\ built'.rev = built.rev /\ built'.pages = NearPages
      /\ built'.initial = built.initial /\ built'.gen = built.gen
      /\ built.initial => built' = built
  BY <1>3, <1>4 DEF Snapshots
<1>6. Building /\ Building'
  BY <1>2 DEF Building
<1>7. ~built.initial => gen \notin Shipped
  BY <1>2, <1>3, <1>6 DEF WorkerOK, Publishing, Unpublished
<1>8. Shipped' = Shipped
  BY <1>1 DEF Unmoved, Shipped
<1>9. had => ~built.initial
  BY <1>3, <1>6 DEF WorkerOK, Publishing
<1>10. ~built.initial => built.rev = 0
  BY <1>2, <1>3, <1>6 DEF WorkerOK, Publishing
<1>11. WorkerOK'
  <2>1. CASE had
    BY <1>1, <1>2, <1>3, <1>4, <1>5, <1>6, <1>7, <1>8, <1>9, <1>10, <2>1
    DEF WorkerOK, Publishing, Unpublished, Unmoved
  <2>2. CASE ~had
    BY <1>1, <1>2, <1>3, <1>4, <1>5, <1>6, <1>7, <1>8, <1>9, <1>10, <2>2
    DEF WorkerOK, Publishing, Unpublished, Unmoved
  <2>3. QED
    BY <2>1, <2>2
<1>12. failures' \in 0..MaxFailures
  BY <1>1, <1>3 DEF TypeOK
<1>13. QED
  BY <1>1, <1>2, <1>5, <1>6, <1>7, <1>11, <1>12, BuildingKeeps

\* The outer terrain of a replacement joins it before it is published.
LEMMA PrepareKeeps == IInv /\ Prepare => IInv'
<1> SUFFICES ASSUME IInv, Prepare PROVE IInv'
  OBVIOUS
<1>1. Unmoved /\ UNCHANGED <<gen, had, retry, failures>> /\ wpc = "prepare" /\ wpc' = "publish"
  BY WorkerFrame DEF Prepare
<1>2. TypeOK /\ WorkerOK /\ built \in Snapshots
  BY DEF IInv, TypeOK
<1>3. built' = IF OuterPages = 0 THEN built ELSE [built EXCEPT !.rev = 1, !.pages = AllPages]
  BY DEF Prepare
<1>4. Building /\ Building'
  BY <1>1 DEF Building
<1>5. had /\ ~built.initial /\ built.pages = NearPages /\ gen \notin Shipped
  BY <1>1, <1>2, <1>4 DEF WorkerOK, Publishing, Unpublished
<1>6. AllPages \in Nat \ {0} /\ (OuterPages = 0 => NearPages = AllPages)
  BY ConstantsAssumption DEF AllPages
<1>7. /\ built' \in Snapshots /\ built'.pages = AllPages
      /\ built'.initial = built.initial /\ built'.gen = built.gen
  <2>1. AllPages \in 0..AllPages /\ 1 \in Nat
    BY <1>6
  <2>2. CASE OuterPages = 0
    BY <1>2, <1>3, <1>5, <1>6, <2>2
  <2>3. CASE OuterPages # 0
    BY <1>2, <1>3, <2>1, <2>3 DEF Snapshots
  <2>4. QED
    BY <2>2, <2>3
<1>8. WorkerOK'
  BY <1>1, <1>2, <1>4, <1>5, <1>6, <1>7 DEF WorkerOK, Publishing, Unpublished, Unmoved
<1>9. failures' \in 0..MaxFailures
  BY <1>1, <1>2 DEF TypeOK
<1>10. QED
  BY <1>1, <1>4, <1>5, <1>7, <1>8, <1>9, BuildingKeeps

\* One more outer page is a revision nobody has seen.
LEMMA OuterPageKeeps == IInv /\ OuterPage => IInv'
<1> SUFFICES ASSUME IInv, OuterPage PROVE IInv'
  OBVIOUS
<1>1. Unmoved /\ UNCHANGED <<gen, had, retry, failures>> /\ wpc = "outer" /\ wpc' = "outerprogress"
  BY WorkerFrame DEF OuterPage
<1>2. TypeOK /\ WorkerOK /\ built \in Snapshots
  BY DEF IInv, TypeOK
<1>3. PICK n, m : /\ n = built.rev + 1 /\ m = built.pages + 1
                  /\ built' = [built EXCEPT !.rev = n, !.pages = m]
  BY DEF OuterPage
<1>4. /\ built.initial /\ built.pages < AllPages
      /\ AllPages \in Nat /\ built.pages \in Nat /\ built.rev \in Nat
  BY <1>2, Numbers DEF OuterPage
<1>5. /\ built' \in Snapshots /\ built'.rev = built.rev + 1 /\ built'.pages = built.pages + 1
      /\ built'.initial = built.initial /\ built'.gen = built.gen
  <2>1. n \in Nat /\ m \in 0..AllPages
    BY <1>3, <1>4
  <2>2. /\ built' \in Snapshots /\ built'.rev = n /\ built'.pages = m
        /\ built'.initial = built.initial /\ built'.gen = built.gen
    BY <1>2, <1>3, <2>1 DEF Snapshots
  <2>3. QED
    BY <1>3, <2>2
<1>6. Building /\ Building'
  BY <1>1 DEF Building
<1>7. WorkerOK'
  BY <1>1, <1>2, <1>4, <1>5, <1>6 DEF WorkerOK, Publishing, Unpublished, Unmoved
<1>8. failures' \in 0..MaxFailures
  BY <1>1, <1>2 DEF TypeOK
<1>9. QED
  BY <1>1, <1>4, <1>5, <1>6, <1>7, <1>8, BuildingKeeps

\* The finished coverage is a revision of its own.
LEMMA OuterCompleteKeeps == IInv /\ OuterComplete => IInv'
<1> SUFFICES ASSUME IInv, OuterComplete PROVE IInv'
  OBVIOUS
<1>1. Unmoved /\ UNCHANGED <<gen, had, retry, failures>> /\ wpc = "outer" /\ wpc' = "outerprogress"
  BY WorkerFrame DEF OuterComplete
<1>2. TypeOK /\ WorkerOK /\ built \in Snapshots
  BY DEF IInv, TypeOK
<1>3. PICK n : n = built.rev + 1 /\ built' = [built EXCEPT !.rev = n]
  BY DEF OuterComplete
<1>4. /\ built.initial /\ built.pages = AllPages /\ built.rev = AllPages
      /\ AllPages \in Nat \ {0}
  BY <1>2, Numbers DEF OuterComplete
<1>5. /\ built' \in Snapshots /\ built'.rev = built.rev + 1 /\ built'.pages = built.pages
      /\ built'.initial = built.initial /\ built'.gen = built.gen
  <2>1. n \in Nat
    BY <1>3, <1>4
  <2>2. /\ built' \in Snapshots /\ built'.rev = n /\ built'.pages = built.pages
        /\ built'.initial = built.initial /\ built'.gen = built.gen
    BY <1>2, <1>3, <2>1 DEF Snapshots
  <2>3. QED
    BY <1>3, <2>2
<1>6. Building /\ Building'
  BY <1>1 DEF Building
<1>7. WorkerOK'
  BY <1>1, <1>2, <1>4, <1>5, <1>6 DEF WorkerOK, Publishing, Unpublished, Unmoved
<1>8. failures' \in 0..MaxFailures
  BY <1>1, <1>2 DEF TypeOK
<1>9. QED
  BY <1>1, <1>4, <1>5, <1>6, <1>7, <1>8, BuildingKeeps

\* The outer terrain of a first terrain comes with a new revision, unless it grew.
LEMMA OuterDoneKeeps == IInv /\ OuterDone => IInv'
<1> SUFFICES ASSUME IInv, OuterDone PROVE IInv'
  OBVIOUS
<1>1. Unmoved /\ UNCHANGED <<gen, had, retry, failures>> /\ wpc = "outer" /\ wpc' = "publish"
  BY WorkerFrame DEF OuterDone
<1>2. TypeOK /\ WorkerOK /\ built \in Snapshots
  BY DEF IInv, TypeOK
<1>3. Building /\ Building'
  BY <1>1 DEF Building
<1>4. failures' \in 0..MaxFailures
  BY <1>1, <1>2 DEF TypeOK
<1>5. CASE built.initial
  <2>1. built' = built
    BY <1>5 DEF OuterDone
  <2>2. WorkerOK'
    BY <1>1, <1>2, <1>3, <1>5, <2>1 DEF WorkerOK, Publishing, Unpublished, Unmoved
  <2>3. QED
    BY <1>1, <1>2, <1>3, <1>4, <2>1, <2>2, BuildingKeeps
<1>6. CASE ~built.initial
  <2>1. built' = [built EXCEPT !.rev = 1, !.pages = AllPages]
    BY <1>6 DEF OuterDone
  <2>2. AllPages \in Nat \ {0} /\ AllPages \in 0..AllPages /\ 1 \in Nat /\ built.pages \in Nat
    BY <1>2, Numbers
  <2>3. /\ built' \in Snapshots /\ built'.rev = 1 /\ built'.pages = AllPages
        /\ built'.initial = built.initial /\ built'.gen = built.gen
    BY <1>2, <2>1, <2>2 DEF Snapshots
  <2>4. ~had /\ built.rev = 0 /\ built.pages < AllPages
    BY <1>1, <1>2, <1>3, <1>6 DEF WorkerOK, Publishing
  <2>5. WorkerOK'
    BY <1>1, <1>2, <1>3, <1>6, <2>2, <2>3, <2>4 DEF WorkerOK, Publishing, Unpublished, Unmoved
  <2>6. QED
    BY <1>1, <1>3, <1>4, <2>2, <2>3, <2>4, <2>5, BuildingKeeps
<1>7. QED
  BY <1>5, <1>6

\* The newest request is not the one the worker gives up for another.
LEMMA StaleIsOld == IInv /\ Stale => gen # Requested
BY Numbers DEF IInv, Ordered, Stale

\* A request is given up with a retry, or when it is not the newest.
LEMMA QuitKeeps ==
    ASSUME IInv, NEW arm \in BOOLEAN, Quit(arm), failures' \in 0..MaxFailures,
           arm \/ gen # Requested
    PROVE  IInv'
<1>1. Unmoved
  BY WorkerFrame DEF Quit
<1>2. wpc' = "idle" /\ gen' = 0 /\ had' = FALSE /\ built' = NoSnapshot /\ retry' = (retry \/ arm)
  BY DEF Quit
<1>3. retry \in BOOLEAN
  BY DEF IInv, TypeOK
<1>4. retry' \in BOOLEAN /\ (retry => retry') /\ (arm => retry')
  BY <1>2, <1>3
<1>5. QED
  BY <1>1, <1>2, <1>4, QuittingKeeps

\* The bound on failures is kept.
LEMMA FailuresTypes ==
    ASSUME IInv, Unavailable \/ UNCHANGED failures
    PROVE  failures' \in 0..MaxFailures
BY ConstantsAssumption DEF IInv, TypeOK, Unavailable

\* Every way in which the worker gives a request up arms the retry or leaves an old one.
LEMMA GivingUpKeeps ==
    IInv /\ (\/ BootstrapFails \/ BootstrapStale \/ PrepareFails \/ PrepareStale
             \/ Timeout \/ PublishStale \/ OuterFails) => IInv'
<1> SUFFICES ASSUME IInv,
                    \/ BootstrapFails \/ BootstrapStale \/ PrepareFails \/ PrepareStale
                    \/ Timeout \/ PublishStale \/ OuterFails
             PROVE  IInv'
  OBVIOUS
<1>1. failures' \in 0..MaxFailures
  BY FailuresTypes
  DEF BootstrapFails, BootstrapStale, PrepareFails, PrepareStale, Timeout, PublishStale, OuterFails
<1>2. \/ Quit(TRUE)
      \/ Stale /\ Quit(FALSE)
      \/ Quit(~Stale)
  BY DEF BootstrapFails, BootstrapStale, PrepareFails, PrepareStale, Timeout, PublishStale, OuterFails
<1>3. CASE Quit(TRUE)
  BY <1>1, <1>3, QuitKeeps
<1>4. CASE Stale /\ Quit(FALSE)
  BY <1>1, <1>4, StaleIsOld, QuitKeeps
<1>5. CASE Quit(~Stale)
  <2>1. (~Stale) \in BOOLEAN /\ (~Stale \/ gen # Requested)
    BY StaleIsOld
  <2>2. QED
    BY <1>1, <1>5, <2>1, QuitKeeps
<1>6. QED
  BY <1>2, <1>3, <1>4, <1>5

\* The renderer's answer: a revision of the worker's own generation that is not
\* older than the published one says that the published pages are visible.
LEMMA AnswerIsVisible ==
    ASSUME IInv, wpc = "confirmrevision", activeRev >= built.rev, revisionOf = gen
    PROVE  active.visible >= built.pages
<1>1. Building /\ gen # 0 /\ active.gen = gen
  BY DEF Building, IInv, Ordered, AwaitOK
<1>2. activeRev <= active.rev /\ active.rev <= built.rev
  BY <1>1 DEF IInv, RevisionOK, Dominates
<1>3. activeRev = built.rev
  BY <1>2, Numbers DEF IInv
<1>4. QED
  BY <1>1, <1>3 DEF IInv, RevisionOK

\* The worker reads the acknowledgement; a generation it finds stays on screen.
LEMMA AwaitingKeeps ==
    IInv /\ (ReadGeneration \/ ReadRevision \/ Deadline \/ ConfirmGeneration) => IInv'
<1> SUFFICES ASSUME IInv, ReadGeneration \/ ReadRevision \/ Deadline \/ ConfirmGeneration
             PROVE  IInv'
  OBVIOUS
<1>1. Unmoved /\ UNCHANGED <<gen, had, built, retry>>
  BY WorkerFrame DEF ReadGeneration, ReadRevision, Deadline, ConfirmGeneration
<1>2. /\ wpc \in {"await", "awaitrevision", "confirm"}
      /\ wpc' \in {"await", "awaitrevision", "confirm", "confirmrevision"}
      /\ wpc' \in {"awaitrevision", "confirmrevision"} => activeGen = gen
  BY DEF ReadGeneration, ReadRevision, Deadline, ConfirmGeneration
<1>3. Building /\ Building' /\ gen # 0
  BY <1>2 DEF Building, IInv, Ordered
<1>4. TypeOK /\ WorkerOK /\ built \in Snapshots
  BY DEF IInv, TypeOK
<1>5. activeGen = gen => active.gen = gen /\ active.visible > 0
  <2>1. gen \in Nat /\ active.gen \in Nat /\ activeGen \in Nat /\ active.gen <= gen
    BY <1>3, <1>4, Numbers DEF IInv, Ordered, Shipped
  <2>2. QED
    BY <1>3, <2>1 DEF IInv, NamesOK
<1>6. WorkerOK'
  BY <1>1, <1>2, <1>3, <1>4 DEF WorkerOK, Publishing, Unpublished, Unmoved
<1>7. failures' \in 0..MaxFailures
  BY FailuresTypes DEF ReadGeneration, ReadRevision, Deadline, ConfirmGeneration
<1>8. QED
  BY <1>1, <1>2, <1>3, <1>4, <1>5, <1>6, <1>7, BuildingKeeps

\* Work on an acknowledged terrain ends when all of its pages are visible, or with
\* a worker that was misled.
LEMMA ActivatedKeeps == IInv /\ Activated => IInv'
<1> SUFFICES ASSUME IInv, Activated PROVE IInv'
  OBVIOUS
<1>1. /\ UNCHANGED failures /\ wpc = "confirmrevision"
      /\ misled' = (misled \/ revisionOf # gen)
  BY DEF Activated
<1>2. Unmoved
  <2>1. misled \in BOOLEAN
    BY DEF IInv, TypeOK
  <2>2. misled' \in {misled, TRUE}
    BY <1>1, <2>1
  <2>3. QED
    BY <2>2 DEF Activated, Unmoved, simVars, renderVars, ackVars
<1>3. TypeOK /\ WorkerOK /\ built \in Snapshots /\ failures' \in 0..MaxFailures
  BY <1>1 DEF IInv, TypeOK
<1>4. Building
  BY <1>1 DEF Building
<1>5. CASE ~had /\ built.pages < AllPages
  <2>1. wpc' = "outer" /\ UNCHANGED <<gen, had, built, retry>>
    BY <1>5 DEF Activated
  <2>2. Building'
    BY <2>1 DEF Building
  <2>3. WorkerOK'
    BY <1>1, <1>2, <1>3, <1>4, <1>5, <2>1 DEF WorkerOK, Publishing, Unpublished, Unmoved
  <2>4. QED
    BY <1>2, <1>3, <1>4, <2>1, <2>2, <2>3, BuildingKeeps
<1>6. CASE ~(~had /\ built.pages < AllPages)
  <2>1. wpc' = "idle" /\ gen' = 0 /\ had' = FALSE /\ built' = NoSnapshot /\ retry' = retry
    BY <1>6 DEF Activated
  <2>2. built.pages = AllPages
    <3>1. had => built.pages = AllPages
      BY <1>1, <1>3, <1>4 DEF WorkerOK, Publishing
    <3>2. QED
      BY <1>3, <1>6, <3>1, Numbers
  <2>3. ~misled' => active.gen = gen /\ active.visible = AllPages
    <3>1. ~misled' => revisionOf = gen
      BY <1>1
    <3>2. active.gen = gen /\ activeRev >= built.rev
      BY <1>1 DEF Activated, IInv, AwaitOK
    <3>3. revisionOf = gen => active.visible >= built.pages
      BY <1>1, <3>2, AnswerIsVisible
    <3>4. QED
      BY <1>3, <2>2, <3>1, <3>2, <3>3, Numbers
  <2>4. retry' \in BOOLEAN
    BY <1>3, <2>1 DEF TypeOK
  <2>5. QED
    BY <1>2, <1>3, <2>1, <2>3, <2>4, QuittingKeeps
<1>7. QED
  BY <1>5, <1>6

\* A request that is taken is newer than everything on its way.
LEMMA TakeKeeps == IInv /\ Take => IInv'
<1> SUFFICES ASSUME IInv, Take PROVE IInv'
  OBVIOUS
<1>1. /\ UNCHANGED <<place, spc, center, centerOf, moves, latest, sawTerrain, pending, rpc, active,
                     staging, hasActive, activeGen, activeRev, activeCenter, revisionOf, gpuFailures,
                     had, built, retry, failures>>
      /\ misled' = misled
      /\ wpc = "idle" /\ request # 0 /\ gen' = request /\ request' = 0 /\ wpc' = "look"
  BY DEF Take, WorkFrame, simVars, renderVars, ackVars
<1>2. TypeOK'
  <2>1. retry' \in BOOLEAN /\ had' \in BOOLEAN /\ hasActive' \in BOOLEAN /\ misled' \in BOOLEAN
    BY <1>1 DEF IInv, TypeOK
  <2>2. QED
    BY <1>1, <2>1 DEF IInv, TypeOK
<1>3. Ordered'
  <2>1. Requested \in Nat /\ request \in Nat
    BY Numbers DEF IInv
  <2>2. QED
    BY <1>1, <2>1 DEF IInv, Ordered, Shipped, Requested
<1>4. ~Building /\ ~Building'
  BY <1>1 DEF Building
<1>5. PendingOK' /\ ActiveOK' /\ Monotone' /\ Whole' /\ Dominates' /\ WorkerOK'
  BY <1>1, <1>4 DEF IInv, PendingOK, ActiveOK, Monotone, Whole, Size, Dominates, WorkerOK
<1>6. NamesOK' /\ RevisionOK' /\ AwaitOK'
  BY <1>1, <1>4 DEF IInv, NamesOK, Storing, RevisionOK, Replacing, AwaitOK
<1>7. StagingOK'
  BY <1>1 DEF IInv, StagingOK, Size, Newer
<1>8. NothingForgotten'
  BY <1>1 DEF IInv, NothingForgotten, Requested, Ordered
<1>9. QED
  BY <1>2, <1>3, <1>5, <1>7, <1>8, <1>6 DEF IInv

\* Whether the screen was occupied is recorded before anything is published.
LEMMA LookKeeps == IInv /\ Look => IInv'
<1> SUFFICES ASSUME IInv, Look PROVE IInv'
  OBVIOUS
<1>1. /\ UNCHANGED <<place, spc, center, centerOf, moves, request, latest, pending, rpc, active,
                     staging, hasActive, activeGen, activeRev, activeCenter, revisionOf, gpuFailures,
                     gen, retry, failures>>
      /\ misled' = misled
      /\ wpc = "look" /\ wpc' = "bootstrap"
  BY DEF Look, WorkFrame, simVars, renderVars, ackVars
<1>2. /\ had' = hasActive
      /\ sawTerrain' = IF hasActive THEN sawTerrain \cup {gen} ELSE sawTerrain
      /\ built' = [gen |-> gen, rev |-> 0, pages |-> 0, initial |-> ~hasActive /\ Progressive]
  BY DEF Look
<1>3. /\ gen # 0 /\ gen \notin sawTerrain /\ gen \notin Shipped /\ gen <= Requested
      /\ (request # 0 => gen < request)
  <2>1. gen \in Nat /\ Requested \in Nat
    BY Numbers DEF IInv
  <2>2. QED
    BY <1>1, <2>1 DEF IInv, Ordered
<1>4. built' \in Snapshots /\ built'.gen = gen /\ built'.rev = 0 /\ built'.pages = 0
      /\ (built'.initial <=> (~hasActive /\ Progressive))
  <2>1. gen \in Nat /\ 0 \in Nat /\ 0 \in 0..AllPages
    BY Numbers DEF IInv
  <2>2. (~hasActive /\ Progressive) \in BOOLEAN
    OBVIOUS
  <2>3. QED
    BY <1>2, <2>1, <2>2 DEF Snapshots
<1>5. TypeOK'
  <2>1. retry' \in BOOLEAN /\ had' \in BOOLEAN /\ hasActive' \in BOOLEAN /\ misled' \in BOOLEAN
    BY <1>1, <1>2 DEF IInv, TypeOK
  <2>2. sawTerrain' \subseteq Nat
    BY <1>2 DEF IInv, TypeOK
  <2>3. QED
    BY <1>1, <1>4, <2>1, <2>2 DEF IInv, TypeOK
<1>6. Ordered'
  <2>1. Shipped' = Shipped /\ sawTerrain' \subseteq sawTerrain \cup {gen} /\ Requested' = Requested
    BY <1>1, <1>2 DEF Shipped, Requested
  <2>2. \A g \in Shipped \cup sawTerrain : g <= gen
    BY <1>3 DEF IInv, Ordered
  <2>3. gen <= gen
    BY Numbers DEF IInv
  <2>4. QED
    BY <1>1, <1>3, <2>1, <2>2, <2>3 DEF IInv, Ordered
<1>7. Building' /\ ~Building
  BY <1>1 DEF Building
<1>8. Shipped' = Shipped /\ had' = hasActive /\ (hasActive <=> gen \in sawTerrain')
  BY <1>1, <1>2, <1>3 DEF Shipped
<1>9. WorkerOK'
  <2>1. NearPages \in Nat /\ 0 <= NearPages
    BY Numbers DEF IInv
  <2>2. QED
    BY <1>1, <1>3, <1>4, <1>7, <1>8, <2>1 DEF WorkerOK, Publishing, Unpublished
<1>10. PendingOK' /\ ActiveOK' /\ Monotone'
  BY <1>1 DEF IInv, PendingOK, ActiveOK, Monotone, Size
<1>11. StagingOK'
  BY <1>1 DEF IInv, StagingOK, Size, Newer
<1>12. Dominates'
  BY <1>1, <1>3 DEF Dominates, Shipped
<1>13. NamesOK' /\ RevisionOK' /\ AwaitOK'
  <2>1. NamesOK' /\ AwaitOK'
    BY <1>1 DEF IInv, NamesOK, Storing, AwaitOK
  <2>2. active.gen # gen /\ active.gen <= gen /\ active.gen \in Nat /\ gen \in Nat
        /\ revisionOf \in Nat
    BY <1>3, Numbers DEF IInv, Ordered, Shipped
  <2>3. revisionOf # gen
    BY <2>2 DEF IInv, RevisionOK
  <2>4. QED
    BY <1>1, <2>1, <2>2, <2>3 DEF IInv, RevisionOK, Replacing
<1>14. Whole'
  BY <1>1, <1>2, <1>3 DEF IInv, Whole, Shipped, Size
<1>15. NothingForgotten'
  BY <1>1 DEF IInv, NothingForgotten, Requested
<1>16. QED
  BY <1>5, <1>6, <1>9, <1>10, <1>11, <1>12, <1>13, <1>14, <1>15 DEF IInv

\* The worker hands over what it has built.
LEMMA PublishingKeeps ==
    ASSUME IInv, Building, pending' = Newest(built),
           UNCHANGED <<place, spc, center, centerOf, moves, request, latest, sawTerrain, rpc, active,
                       staging, hasActive, activeGen, activeRev, activeCenter, revisionOf,
                       gpuFailures, gen, had, built, retry, failures>>,
           misled' = misled,
           wpc' \in {"bootstrap", "outer", "await"}, built.pages > 0,
           built.initial => built.rev > 0, had => built.pages = AllPages,
           WorkerOK'
    PROVE  IInv'
<1>1. pending' = built \/ pending' = pending
  BY DEF Newest
<1>2. TypeOK /\ WorkerOK /\ built.gen = gen /\ gen # 0 /\ Building'
  BY DEF IInv, WorkerOK, Ordered, Building
<1>3. TypeOK'
  <2>1. retry' \in BOOLEAN /\ had' \in BOOLEAN /\ hasActive' \in BOOLEAN /\ misled' \in BOOLEAN
    BY DEF IInv, TypeOK
  <2>2. pending' \in Snapshots
    BY <1>1 DEF IInv, TypeOK
  <2>3. QED
    BY <2>1, <2>2 DEF IInv, TypeOK
<1>4. Ordered'
  <2>1. Shipped' \subseteq Shipped \cup {gen} /\ Requested' = Requested
    BY <1>1, <1>2 DEF Shipped, Requested
  <2>2. gen <= gen
    BY <1>2, Numbers
  <2>3. QED
    BY <1>2, <2>1, <2>2 DEF IInv, Ordered, Building
<1>5. NamesOK' /\ RevisionOK' /\ AwaitOK'
  BY <1>2 DEF IInv, NamesOK, Storing, RevisionOK, Replacing, AwaitOK
<1>6. CASE pending' = pending
  <2>1. PendingOK' /\ ActiveOK' /\ Monotone' /\ Whole' /\ Dominates'
    BY <1>2, <1>6 DEF IInv, PendingOK, ActiveOK, Monotone, Whole, Size, Dominates
  <2>2. StagingOK'
    BY <1>6 DEF IInv, StagingOK, Size, Newer
  <2>3. NothingForgotten'
    BY DEF IInv, NothingForgotten, Requested
  <2>4. QED
    BY <1>3, <1>4, <1>5, <2>1, <2>2, <2>3 DEF IInv
<1>7. CASE pending' = built
  <2>1. /\ built.rev \in Nat /\ built.pages \in Nat /\ gen \in Nat
    BY <1>2, Numbers
  <2>2. PendingOK'
    BY <1>2, <1>7, <2>1 DEF PendingOK
  <2>3. StagingOK' /\ ActiveOK'
    BY DEF IInv, StagingOK, ActiveOK, Size, Newer
  <2>4. Monotone'
    BY <1>2, <1>7 DEF IInv, Dominates, Monotone, Size
  <2>5. Dominates'
    BY <1>2, <1>7, <2>1 DEF IInv, Dominates, Size
  <2>6. Whole'
    BY <1>2, <1>7 DEF IInv, Whole, Size, WorkerOK
  <2>7. NothingForgotten'
    BY DEF IInv, NothingForgotten, Requested
  <2>8. QED
    BY <1>3, <1>4, <1>5, <2>2, <2>3, <2>4, <2>5, <2>6, <2>7 DEF IInv
<1>8. QED
  BY <1>1, <1>6, <1>7

\* Partial terrain is handed over only while it grows.
LEMMA QueuePartialKeeps == IInv /\ QueuePartial => IInv'
<1> SUFFICES ASSUME IInv, QueuePartial PROVE IInv'
  OBVIOUS
<1>1. UNCHANGED <<place, spc, center, centerOf, moves, request, latest, sawTerrain, rpc, active,
                  staging, hasActive, activeGen, activeRev, activeCenter, revisionOf, gpuFailures,
                  gen, had, built, retry, failures>>
      /\ misled' = misled
  BY DEF QueuePartial, WorkFrame, simVars, renderVars, ackVars
<1>2. /\ wpc \in {"queue", "outerqueue"} /\ pending' = Newest(built)
      /\ wpc' = IF wpc = "queue" THEN "bootstrap" ELSE "outer"
  BY DEF QueuePartial
<1>3. Building /\ Building' /\ TypeOK /\ WorkerOK
  BY <1>2 DEF Building, IInv
<1>4. /\ built.initial /\ ~had /\ built.pages > 0 /\ built.rev >= built.pages /\ built.gen = gen
      /\ built.rev \in Nat /\ built.pages \in Nat
  BY <1>2, <1>3, Numbers DEF WorkerOK, Publishing
<1>5. built.rev > 0
  BY <1>4
<1>6. wpc = "queue" => built.pages <= NearPages
  BY <1>3, <1>4 DEF WorkerOK, Publishing
<1>7. WorkerOK'
  BY <1>1, <1>2, <1>3, <1>4, <1>5, <1>6 DEF WorkerOK, Publishing, Unpublished
<1>8. QED
  BY <1>1, <1>2, <1>3, <1>4, <1>5, <1>7, PublishingKeeps

\* A replacement is handed over whole.
LEMMA PublishKeeps == IInv /\ Publish => IInv'
<1> SUFFICES ASSUME IInv, Publish PROVE IInv'
  OBVIOUS
<1>1. UNCHANGED <<place, spc, center, centerOf, moves, request, latest, sawTerrain, rpc, active,
                  staging, hasActive, activeGen, activeRev, activeCenter, revisionOf, gpuFailures,
                  gen, had, built, retry, failures>>
      /\ misled' = misled
  BY DEF Publish, WorkFrame, simVars, renderVars, ackVars
<1>2. wpc = "publish" /\ pending' = Newest(built) /\ wpc' = "await"
  BY DEF Publish
<1>3. Building /\ Building' /\ TypeOK /\ WorkerOK
  BY <1>2 DEF Building, IInv
<1>4. /\ built.pages > 0 /\ (had => built.pages = AllPages)
      /\ (built.initial => built.rev >= built.pages)
      /\ built.rev \in Nat /\ built.pages \in Nat
  BY <1>2, <1>3, Numbers DEF WorkerOK, Publishing
<1>5. built.initial => built.rev > 0
  BY <1>4
<1>6. WorkerOK'
  BY <1>1, <1>2, <1>3 DEF WorkerOK, Publishing, Unpublished
<1>7. QED
  BY <1>1, <1>2, <1>3, <1>4, <1>5, <1>6, PublishingKeeps

\* Every step of the worker keeps the invariant.
LEMMA WorkerStepKeeps == IInv /\ WorkerStep => IInv'
BY BootstrapPageKeeps, ProgressKeeps, BootstrapDoneKeeps, PrepareKeeps, OuterPageKeeps,
   OuterCompleteKeeps, OuterDoneKeeps, GivingUpKeeps, AwaitingKeeps, ActivatedKeeps, TakeKeeps,
   LookKeeps,
   QueuePartialKeeps, PublishKeeps
DEF WorkerStep

-----------------------------------------------------------------------------
(***************************************************************************)
(* The simulation thread's steps.                                          *)
(***************************************************************************)
\* What a step of the simulation thread must show.
LEMMA SimKeeps ==
    ASSUME IInv, UNCHANGED <<workVars, misled, pending, renderVars, failures>>,
           TypeOK', Ordered', NothingForgotten'
    PROVE  IInv'
<1>1. UNCHANGED <<wpc, gen, had, built, sawTerrain, pending, rpc, active, staging, hasActive,
                  activeGen, activeRev, activeCenter, revisionOf>>
  BY DEF workVars, renderVars, ackVars
<1>2. PendingOK' /\ ActiveOK' /\ Monotone' /\ Whole' /\ Dominates'
  BY <1>1 DEF IInv, PendingOK, ActiveOK, Monotone, Whole, Size, Dominates, Building
<1>3. NamesOK' /\ RevisionOK' /\ AwaitOK'
  BY <1>1 DEF IInv, NamesOK, Storing, RevisionOK, Replacing, AwaitOK, Building
<1>4. StagingOK'
  BY <1>1 DEF IInv, StagingOK, Size, Newer
<1>5. WorkerOK'
  <2>1. Shipped' = Shipped /\ Building' = Building /\ Unpublished' = Unpublished
    BY <1>1 DEF Shipped, Building, Unpublished
  <2>2. QED
    BY <1>1, <2>1 DEF IInv, WorkerOK, Publishing
<1>6. QED
  BY <1>2, <1>4, <1>5, <1>3 DEF IInv

\* Types without what the simulation thread changes.
LEMMA SimTypes ==
    ASSUME IInv, UNCHANGED <<workVars, misled, pending, renderVars, failures>>,
           place' \in Places, spc' \in {"update", "store"}, center' \in Places \cup {Nowhere},
           centerOf' \in Seq(Places), request' \in Nat, latest' \in Nat, retry' \in BOOLEAN,
           moves' \in 0..MaxMoves
    PROVE  TypeOK'
<1>1. had' \in BOOLEAN /\ hasActive' \in BOOLEAN /\ misled' \in BOOLEAN
  BY DEF IInv, TypeOK, workVars, renderVars, ackVars
<1>2. QED
  BY <1>1 DEF IInv, TypeOK, workVars, renderVars, ackVars

\* The aircraft moves.
LEMMA MoveKeeps == IInv /\ Move => IInv'
<1> SUFFICES ASSUME IInv, Move PROVE IInv'
  OBVIOUS
<1>1. UNCHANGED <<workVars, misled, pending, renderVars, failures>>
  BY DEF Move
<1>2. UNCHANGED <<spc, center, centerOf, request, latest, retry, wpc, gen, sawTerrain, pending,
                  staging, active>>
  BY DEF Move, workVars, renderVars
<1>3. TypeOK'
  <2>1. place' \in Places /\ moves' \in 0..MaxMoves
    BY ConstantsAssumption DEF Move, IInv, TypeOK
  <2>2. retry' \in BOOLEAN
    BY <1>2 DEF IInv, TypeOK
  <2>3. QED
    BY <1>1, <1>2, <2>1, <2>2, SimTypes DEF IInv, TypeOK
<1>4. Ordered'
  BY <1>2 DEF IInv, Ordered, Shipped, Requested
<1>5. NothingForgotten'
  BY <1>1, <1>2 DEF IInv, NothingForgotten, Requested
<1>6. QED
  BY <1>1, <1>3, <1>4, <1>5, SimKeeps

\* A new request is newer than everything.
LEMMA UpdateVisualKeeps == IInv /\ UpdateVisual => IInv'
<1> SUFFICES ASSUME IInv, UpdateVisual PROVE IInv'
  OBVIOUS
<1>1. UNCHANGED <<workVars, misled, pending, renderVars, failures>>
  BY DEF UpdateVisual
<1>2. UNCHANGED <<place, moves, latest, wpc, gen, sawTerrain, pending, staging, active>>
  BY DEF UpdateVisual, workVars, renderVars
<1>3. /\ request' = Requested + 1 /\ center' = place /\ centerOf' = Append(centerOf, place)
      /\ spc' = "store" /\ (retry' = FALSE \/ retry' = retry)
  BY DEF UpdateVisual
<1>4. place \in Places /\ centerOf \in Seq(Places) /\ Requested \in Nat
  BY Numbers DEF IInv, TypeOK
<1>5. centerOf' \in Seq(Places) /\ Requested' = Requested + 1
  BY <1>3, <1>4 DEF Requested
<1>6. TypeOK'
  <2>1. retry' \in BOOLEAN
    BY <1>3 DEF IInv, TypeOK
  <2>2. latest' \in Nat /\ moves' \in 0..MaxMoves /\ request' \in Nat
    BY <1>2, <1>3, <1>4 DEF IInv, TypeOK
  <2>3. QED
    BY <1>1, <1>2, <1>3, <1>4, <1>5, <2>1, <2>2, SimTypes
<1>7. Ordered'
  <2>1. \A g \in Shipped \cup sawTerrain \cup {gen} : g \in Nat /\ g <= Requested
    BY Numbers DEF IInv, Ordered, Shipped, TypeOK
  <2>2. Shipped' = Shipped /\ latest \in Nat
    BY <1>2, Numbers DEF Shipped, IInv
  <2>3. \A g \in Shipped' \cup sawTerrain' \cup {gen'} : g <= Requested + 1 /\ g < Requested + 1
    BY <1>2, <1>4, <2>1, <2>2
  <2>4. latest' <= Requested'
    BY <1>2, <1>4, <1>5, <2>2 DEF IInv, Ordered
  <2>5. QED
    BY <1>2, <1>3, <1>5, <2>2, <2>3, <2>4 DEF IInv, Ordered
<1>8. NothingForgotten'
  BY <1>3, <1>5 DEF NothingForgotten
<1>9. QED
  BY <1>1, <1>6, <1>7, <1>8, SimKeeps

\* The latest generation is stored after its request.
LEMMA StoreLatestKeeps == IInv /\ StoreLatest => IInv'
<1> SUFFICES ASSUME IInv, StoreLatest PROVE IInv'
  OBVIOUS
<1>1. UNCHANGED <<workVars, misled, pending, renderVars, failures>>
  BY DEF StoreLatest
<1>2. /\ latest' = Requested /\ spc' = "update"
      /\ UNCHANGED <<place, center, centerOf, moves, request, retry, wpc, gen, sawTerrain, pending,
                     staging, active>>
  BY DEF StoreLatest, workVars, renderVars
<1>3. Requested \in Nat /\ Requested' = Requested
  BY <1>2, Numbers DEF IInv, Requested
<1>4. TypeOK'
  <2>1. retry' \in BOOLEAN
    BY <1>2 DEF IInv, TypeOK
  <2>2. QED
    BY <1>1, <1>2, <1>3, <2>1, SimTypes DEF IInv, TypeOK
<1>5. Ordered'
  BY <1>2, <1>3 DEF IInv, Ordered, Shipped
<1>6. NothingForgotten'
  BY <1>1, <1>2, <1>3 DEF IInv, NothingForgotten
<1>7. QED
  BY <1>1, <1>4, <1>5, <1>6, SimKeeps

-----------------------------------------------------------------------------
(***************************************************************************)
(* The render thread's steps.                                              *)
(***************************************************************************)
\* The picture gets newer or fuller.
Advances ==
    \/ active'.gen > active.gen
    \/ active'.gen = active.gen /\ active'.visible >= active.visible

\* The places of the render thread.
Rendering == {"adopt", "stage", "upload", "grow", "showcenter", "showgeneration", "showactive",
              "showrevision", "swap", "center", "generation", "revision", "active"}

\* The places at which the names it has stored are those of what is on screen.
Settled == {"adopt", "stage", "upload", "grow", "showrevision", "swap"}

\* What a step of the render thread must show.
LEMMA ScreenKeeps ==
    ASSUME IInv, RenderFrame, Shipped' \subseteq Shipped \cup {0},
           rpc' \in Rendering,
           pending' \in Snapshots, active' \in Slots, staging' \in Slots,
           hasActive' \in BOOLEAN, activeGen' \in Nat, activeRev' \in Nat,
           activeCenter' \in Nat, revisionOf' \in Nat, gpuFailures' \in 0..MaxGpuFailures,
           PendingOK', StagingOK', ActiveOK', Monotone', Dominates', NamesOK', RevisionOK',
           Whole', Advances
    PROVE  IInv'
<1>1. UNCHANGED <<place, spc, center, centerOf, moves, request, latest, wpc, gen, built,
                  sawTerrain, failures>>
      /\ retry' = retry /\ had' = had /\ misled' = misled
  BY DEF RenderFrame, simVars, workVars
<1>2. TypeOK'
  <2>1. retry' \in BOOLEAN /\ had' \in BOOLEAN /\ misled' \in BOOLEAN
    BY <1>1 DEF IInv, TypeOK
  <2>2. QED
    BY <1>1, <2>1 DEF IInv, TypeOK, Rendering
<1>3. Ordered'
  <2>1. gen \in Nat /\ request \in Nat /\ Requested \in Nat /\ Requested' = Requested
    BY <1>1, Numbers DEF IInv, Requested
  <2>2. \A g \in Shipped' : g = 0 \/ g \in Shipped
    OBVIOUS
  <2>3. QED
    BY <1>1, <2>1, <2>2 DEF IInv, Ordered
<1>4. WorkerOK'
  <2>1. Building' = Building /\ Unpublished' = Unpublished
    BY <1>1 DEF Building, Unpublished
  <2>2. Building => gen # 0
    BY DEF Building, IInv, Ordered
  <2>3. QED
    BY <1>1, <2>1, <2>2 DEF IInv, WorkerOK, Publishing
<1>5. NothingForgotten'
  <2>1. Requested \in Nat /\ Requested' = Requested /\ active'.gen <= Requested /\ active'.gen \in Nat
        /\ active.gen \in Nat
    <3>1. active'.gen \in Shipped' /\ Requested' = Requested
      BY <1>1 DEF Shipped, Requested
    <3>2. QED
      BY <1>2, <1>3, <3>1, Numbers DEF IInv, Ordered, Slots
  <2>2. active.gen = Requested /\ active.visible = AllPages =>
           active'.gen = Requested /\ active'.visible = AllPages
    <3>1. active'.visible \in 0..AllPages /\ AllPages \in Nat
      BY Numbers DEF IInv, Slots
    <3>2. QED
      BY <2>1, <3>1 DEF Advances
  <2>3. QED
    BY <1>1, <2>1, <2>2 DEF IInv, NothingForgotten
<1>6. AwaitOK'
  <2> SUFFICES ASSUME wpc \in {"awaitrevision", "confirmrevision"}
               PROVE  active'.gen = gen /\ active'.visible > 0
    BY <1>1 DEF AwaitOK
  <2>1. active.gen = gen /\ active.visible > 0
    BY DEF IInv, AwaitOK
  <2>2. active'.gen \in Nat /\ active'.visible \in Nat /\ gen \in Nat /\ active.visible \in Nat
    BY Numbers DEF IInv, Slots
  <2>3. active'.gen <= gen
    <3>1. gen # 0
      BY DEF IInv, Ordered
    <3>2. QED
      BY <1>1, <1>3, <3>1 DEF Ordered, Shipped
  <2>4. QED
    BY <2>1, <2>2, <2>3 DEF Advances
<1>7. QED
  BY <1>2, <1>3, <1>4, <1>5, <1>6 DEF IInv

\* Away from its stores the acknowledgement stays as true as it is.
LEMMA SettledKeeps ==
    ASSUME IInv, rpc \in Settled, rpc' \in Settled, UNCHANGED <<active, ackVars, gen, built, wpc>>
    PROVE  /\ NamesOK' /\ RevisionOK' /\ rpc' \in Rendering /\ hasActive' \in BOOLEAN
           /\ activeGen' \in Nat /\ activeRev' \in Nat
           /\ activeCenter' \in Nat /\ revisionOf' \in Nat
<1>1. UNCHANGED <<hasActive, activeGen, activeRev, activeCenter, revisionOf>>
  BY DEF ackVars
<1>2. NamesOK'
  BY <1>1 DEF IInv, NamesOK, Storing, Settled
<1>3. RevisionOK'
  BY <1>1 DEF IInv, RevisionOK, Replacing, Settled, Building
<1>4. QED
  BY <1>1, <1>2, <1>3 DEF Settled, Rendering, IInv, TypeOK

\* A step of the render thread that only goes on to its next part.
LEMMA TurnKeeps ==
    ASSUME IInv, RenderFrame, rpc \in Settled, rpc' \in Settled,
           UNCHANGED <<pending, active, staging, ackVars>>,
           gpuFailures' \in 0..MaxGpuFailures
    PROVE  IInv' /\ Advances
<1>1. UNCHANGED <<gen, built, sawTerrain, wpc>>
  BY DEF RenderFrame, workVars
<1>2. PendingOK' /\ ActiveOK' /\ Monotone' /\ Whole' /\ Dominates'
  BY <1>1 DEF IInv, PendingOK, ActiveOK, Monotone, Whole, Size, Dominates, Building
<1>3. StagingOK'
  BY DEF IInv, StagingOK, Size, Newer
<1>4. Shipped' = Shipped
  BY DEF Shipped
<1>5. Advances
  BY Numbers DEF Advances, IInv
<1>6. /\ NamesOK' /\ RevisionOK' /\ rpc' \in Rendering /\ hasActive' \in BOOLEAN
      /\ activeGen' \in Nat /\ activeRev' \in Nat /\ activeCenter' \in Nat /\ revisionOf' \in Nat
  BY <1>1, SettledKeeps
<1>7. QED
  BY <1>2, <1>3, <1>4, <1>5, <1>6, ScreenKeeps DEF IInv, TypeOK

\* A new slot is a slot.
LEMMA NewSlotTypes ==
    ASSUME NEW s \in Snapshots
    PROVE  NewSlot(s) \in Slots
<1>1. 0 \in 0..AllPages /\ 1 \in 0..1
  BY ConstantsAssumption DEF AllPages
<1>2. QED
  BY <1>1 DEF NewSlot, Slots, Snapshots

\* The visible slot takes a new target of its own generation, never a smaller one.
LEMMA AdoptKeeps == IInv /\ Adopt => IInv' /\ Advances
<1> SUFFICES ASSUME IInv, Adopt PROVE IInv' /\ Advances
  OBVIOUS
<1>1. /\ RenderFrame /\ rpc = "adopt" /\ rpc' = "stage"
      /\ UNCHANGED <<staging, ackVars, gpuFailures>>
  BY DEF Adopt, Turn
<1>2. UNCHANGED <<gen, built, sawTerrain, wpc>>
  BY <1>1 DEF RenderFrame, workVars
<1>3. /\ gpuFailures' \in 0..MaxGpuFailures /\ hasActive' \in BOOLEAN
      /\ UNCHANGED <<hasActive, activeGen, activeRev, activeCenter, revisionOf>>
      /\ rpc \in Settled /\ rpc' \in Settled
  BY <1>1 DEF IInv, TypeOK, ackVars, Settled
<1> DEFINE fits == staging = NoSlot /\ Appends /\ (active = NoSlot \/ pending.rev >= active.rev)
<1>4. CASE ~fits
  <2>1. UNCHANGED <<active, pending>>
    BY <1>4 DEF Adopt
  <2>2. QED
    BY <1>1, <1>3, <2>1, TurnKeeps
<1>5. CASE fits
  <2> DEFINE base == IF active = NoSlot THEN NewSlot(pending) ELSE active
  <2>1. /\ active' = [base EXCEPT !.grows = TRUE, !.rev = pending.rev, !.target = pending.pages,
                                  !.cursor = 0]
        /\ pending' = NoSnapshot
    BY <1>5 DEF Adopt
  <2>2. pending \in Snapshots /\ active \in Slots /\ pending.rev \in Nat
        /\ pending.pages \in 0..AllPages /\ base \in Slots
    BY NewSlotTypes, Numbers DEF IInv, TypeOK
  <2>3. /\ base.gen = pending.gen
        /\ base.pages = active.pages /\ base.visible = active.visible
    BY <1>5 DEF Appends, NewSlot, NoSlot
  <2>4. /\ active' \in Slots /\ active'.gen = pending.gen /\ active'.rev = pending.rev
        /\ active'.target = pending.pages /\ active'.pages = active.pages
        /\ active'.visible = active.visible /\ active'.cursor = 0 /\ active'.grows
    <3> HIDE DEF base
    <3>1. 0 \in 0..AllPages
      BY Numbers DEF IInv
    <3>2. PICK n, m : /\ n = pending.rev /\ m = pending.pages
                      /\ active' = [base EXCEPT !.grows = TRUE, !.rev = n, !.target = m, !.cursor = 0]
      BY <2>1
    <3>3. n \in Nat /\ m \in 0..AllPages
      BY <2>2, <3>2
    <3>4. active' \in Slots
      BY <2>2, <3>1, <3>2, <3>3 DEF Slots
    <3>5. /\ active'.gen = base.gen /\ active'.rev = n /\ active'.target = m
          /\ active'.pages = base.pages /\ active'.visible = base.visible
          /\ active'.cursor = 0 /\ active'.grows = TRUE
      BY <2>2, <3>2 DEF Slots
    <3>6. QED
      BY <2>3, <3>2, <3>4, <3>5
  <2> HIDE DEF base
  <2>5. pending.initial /\ pending # NoSnapshot
    BY <1>5 DEF Appends, NoSnapshot
  <2>6. pending.gen > 0 /\ pending.pages > 0 /\ pending.rev > 0
    BY <2>5 DEF IInv, PendingOK
  <2>7. /\ active.gen \in Nat /\ active.pages \in Nat /\ active.visible \in Nat
        /\ active.rev \in Nat /\ Size(active) \in Nat /\ activeRev \in Nat /\ pending.gen \in Nat
    BY Numbers DEF IInv
  <2>8. Size(active') = pending.pages /\ active.pages <= pending.pages
    <3>1. Size(active') = pending.pages
      BY <2>4, <2>6 DEF Size
    <3>2. CASE active = NoSlot
      BY <2>2, <3>1, <3>2 DEF NoSlot
    <3>3. CASE active # NoSlot
      <4>1. pending.gen = active.gen /\ pending.rev >= active.rev
        BY <1>5, <3>3 DEF Appends
      <4>2. pending.pages >= Size(active) /\ active.pages <= Size(active)
        BY <4>1 DEF IInv, Monotone, ActiveOK
      <4>3. QED
        BY <2>2, <2>7, <3>1, <4>2
    <3>4. QED
      BY <3>2, <3>3
  <2>9. active = NoSlot \/ (active.gen = pending.gen /\ pending.rev >= active.rev)
    BY <1>5 DEF Appends
  <2>10. staging = NoSlot /\ staging' = NoSlot
    BY <1>1, <1>5
  <2>11. PendingOK'
    BY <2>1 DEF PendingOK
  <2>12. StagingOK'
    BY <2>10 DEF StagingOK
  <2>13. ActiveOK'
    BY <2>4, <2>6, <2>7, <2>8 DEF IInv, ActiveOK
  <2>14. Monotone'
    BY <2>1, <2>4, <2>6, <2>10 DEF Monotone, Size, NoSnapshot, NoSlot
  <2>15. Dominates'
    <3>1. CASE Building
      <4>1. gen # 0
        BY <3>1 DEF Building, IInv, Ordered
      <4>2. pending'.gen # gen /\ staging'.gen # gen
        BY <2>1, <2>10, <4>1 DEF NoSnapshot, NoSlot
      <4>3. active'.gen = gen =>
              /\ active'.rev <= built.rev /\ Size(active') <= built.pages
              /\ active'.rev = built.rev => active'.target = built.pages
        BY <2>4, <2>8, <3>1 DEF IInv, Dominates
      <4>4. QED
        BY <1>2, <4>2, <4>3 DEF Dominates, Size
    <3>2. CASE ~Building
      BY <1>2, <3>2 DEF Dominates, Building
    <3>3. QED
      BY <3>1, <3>2
  <2>16. NamesOK' /\ RevisionOK'
    <3>1. /\ revisionOf \in Nat /\ activeGen \in Nat /\ activeCenter \in Nat
      BY Numbers DEF IInv
    <3>2. NamesOK /\ RevisionOK /\ ~Replacing
      BY <1>1 DEF IInv, Replacing
    <3>3. CASE active = NoSlot
      <4>1. active.visible = 0 /\ active.gen = 0
        BY <3>3 DEF NoSlot
      <4>2. activeGen = 0 /\ ~hasActive /\ revisionOf = 0 /\ activeRev = 0
        BY <2>7, <3>1, <3>2, <4>1 DEF NamesOK, RevisionOK
      <4>3. NamesOK'
        <5>1. activeGen' = 0 /\ ~hasActive' /\ ~Storing' /\ active'.visible = 0
          BY <1>1, <1>3, <2>4, <4>1, <4>2 DEF Storing
        <5>2. activeGen' <= active'.gen
          BY <2>4, <2>7, <5>1
        <5>3. QED
          BY <1>1, <5>1, <5>2 DEF NamesOK
      <4>4. Building => gen # 0
        BY DEF Building, IInv, Ordered
      <4>5. RevisionOK'
        <5>1. revisionOf' = 0 /\ activeRev' = 0 /\ ~Replacing' /\ UNCHANGED <<gen, wpc>>
          BY <1>1, <1>2, <1>3, <4>2 DEF Replacing
        <5>2. /\ revisionOf' <= active'.gen /\ active'.gen # 0
          BY <2>4, <2>6, <2>7, <5>1
        <5>3. QED
          BY <4>4, <5>1, <5>2 DEF RevisionOK, Building
      <4>6. QED
        BY <4>3, <4>5
    <3>4. CASE active # NoSlot
      <4>1. active'.gen = active.gen /\ active'.visible = active.visible
            /\ active'.rev >= active.rev /\ active'.rev \in Nat
        BY <2>2, <2>4, <2>9, <3>4
      <4>2. NamesOK'
        BY <1>1, <1>3, <3>2, <4>1 DEF NamesOK, Storing
      <4>3. RevisionOK'
        BY <1>1, <1>2, <1>3, <2>7, <3>2, <4>1 DEF RevisionOK, Replacing, Building
      <4>4. QED
        BY <4>2, <4>3
    <3>5. QED
      BY <3>3, <3>4
  <2>17. Whole'
    <3>1. pending.gen \notin sawTerrain /\ 0 \notin sawTerrain
      BY <2>5 DEF IInv, Whole, Ordered
    <3>2. pending'.gen = 0 /\ staging'.gen = 0
      BY <2>1, <2>10 DEF NoSnapshot, NoSlot
    <3>3. QED
      BY <1>2, <2>4, <3>1, <3>2 DEF Whole
  <2>18. Advances
    BY <2>4, <2>6, <2>7, <2>9 DEF Advances, NoSlot
  <2>19. Shipped' \subseteq Shipped \cup {0}
    BY <2>1, <2>4, <2>10 DEF Shipped, NoSnapshot
  <2>20. /\ pending' \in Snapshots /\ staging' \in Slots /\ activeGen' \in Nat /\ activeRev' \in Nat
         /\ activeCenter' \in Nat /\ revisionOf' \in Nat /\ rpc' \in Rendering
    BY <1>1, <1>3, <2>1, <2>10, NoneTypes DEF IInv, TypeOK, Rendering
  <2>21. QED
    BY <1>1, <1>3, <2>4, <2>11, <2>12, <2>13, <2>14, <2>15, <2>16, <2>17, <2>18, <2>19, <2>20,
       ScreenKeeps
<1>6. QED
  BY <1>4, <1>5

\* What is staged is newer than what is staged or shown.
LEMMA StageKeeps == IInv /\ Stage => IInv' /\ Advances
<1> SUFFICES ASSUME IInv, Stage PROVE IInv' /\ Advances
  OBVIOUS
<1>1. /\ RenderFrame /\ rpc = "stage" /\ rpc' = "upload"
      /\ UNCHANGED <<active, ackVars, gpuFailures>>
  BY DEF Stage, Turn
<1>2. UNCHANGED <<gen, built, sawTerrain, wpc>>
  BY <1>1 DEF RenderFrame, workVars
<1>3. /\ gpuFailures' \in 0..MaxGpuFailures /\ rpc \in Settled /\ rpc' \in Settled
  BY <1>1 DEF IInv, TypeOK, Settled
<1> DEFINE takes == /\ pending # NoSnapshot
                    /\ IF staging # NoSlot
                       THEN Newer(pending, staging)
                       ELSE ~Appends /\ (active = NoSlot \/ Newer(pending, active))
<1>4. CASE ~takes
  <2>1. UNCHANGED <<staging, pending>>
    BY <1>4 DEF Stage
  <2>2. QED
    BY <1>1, <1>3, <2>1, TurnKeeps
<1>5. CASE takes
  <2>1. staging' = NewSlot(pending) /\ pending' = NoSnapshot
    BY <1>5 DEF Stage
  <2>2. /\ pending.gen > 0 /\ pending.pages > 0
    BY <1>5 DEF IInv, PendingOK
  <2>3. /\ pending.gen \in Nat /\ pending.rev \in Nat /\ pending.pages \in 0..AllPages
        /\ active.gen \in Nat /\ active.rev \in Nat /\ staging.gen \in Nat /\ staging.rev \in Nat
        /\ Size(active) \in Nat /\ active.visible \in Nat
    BY Numbers DEF IInv
  <2>4. /\ staging'.gen = pending.gen /\ staging'.rev = pending.rev /\ staging'.pages = 0
        /\ staging'.target = pending.pages /\ staging'.cursor = 0 /\ ~staging'.grows
        /\ Size(staging') = pending.pages
    BY <2>1, <2>2 DEF NewSlot, Size
  <2>5. Newer(pending, active)
    <3>1. CASE staging # NoSlot
      <4>1. Newer(pending, staging) /\ Newer(staging, active)
        BY <1>5, <3>1 DEF IInv, StagingOK
      <4>2. QED
        BY <2>3, <4>1 DEF Newer
    <3>2. CASE staging = NoSlot
      BY <1>5, <2>2, <2>3, <3>2 DEF Newer, NoSlot
    <3>3. QED
      BY <3>1, <3>2
  <2>6. pending.gen = active.gen => pending.pages >= Size(active)
    BY <2>3, <2>5 DEF Newer, IInv, Monotone
  <2>7. PendingOK'
    BY <2>1 DEF PendingOK
  <2>8. StagingOK'
    BY <1>1, <2>2, <2>3, <2>4, <2>5, <2>6 DEF StagingOK, Newer, Size
  <2>9. ActiveOK'
    BY <1>1 DEF IInv, ActiveOK, Size
  <2>10. Monotone'
    <3>1. pending'.gen = 0 /\ staging'.gen # 0
      BY <2>1, <2>2, <2>4 DEF NoSnapshot
    <3>2. active.gen = 0 => Size(active) = 0
      <4>1. active.gen = 0 => active = NoSlot
        BY <2>3 DEF IInv, ActiveOK
      <4>2. QED
        BY <4>1 DEF Size, NoSlot
    <3>3. pending'.pages = 0 /\ Size(active)' = Size(active) /\ active' = active
      BY <1>1, <2>1 DEF NoSnapshot, Size
    <3>4. QED
      BY <3>1, <3>2, <3>3 DEF Monotone
  <2>11. Dominates'
    <3>1. CASE Building
      <4>1. gen # 0 /\ pending'.gen # gen
        BY <2>1, <3>1 DEF Building, IInv, Ordered, NoSnapshot
      <4>2. QED
        BY <1>1, <1>2, <2>4, <3>1, <4>1 DEF IInv, Dominates, Size
    <3>2. CASE ~Building
      BY <1>2, <3>2 DEF Dominates, Building
    <3>3. QED
      BY <3>1, <3>2
  <2>12. /\ NamesOK' /\ RevisionOK' /\ rpc' \in Rendering /\ hasActive' \in BOOLEAN
         /\ activeGen' \in Nat /\ activeRev' \in Nat /\ activeCenter' \in Nat /\ revisionOf' \in Nat
    BY <1>1, <1>2, <1>3, SettledKeeps
  <2>13. Whole'
    <3>1. 0 \notin sawTerrain /\ pending'.gen = 0
      BY <2>1 DEF IInv, Ordered, NoSnapshot
    <3>2. QED
      BY <1>1, <1>2, <2>4, <3>1 DEF IInv, Whole, Size
  <2>14. Advances
    BY <1>1, <2>3 DEF Advances
  <2>15. Shipped' \subseteq Shipped \cup {0}
    BY <1>1, <2>1, <2>4 DEF Shipped, NoSnapshot
  <2>16. pending' \in Snapshots /\ staging' \in Slots /\ active' \in Slots
    BY <1>1, <2>1, NoneTypes, NewSlotTypes DEF IInv, TypeOK
  <2>17. QED
    BY <1>1, <1>3, <2>7, <2>8, <2>9, <2>10, <2>11, <2>12, <2>13, <2>14, <2>15, <2>16, ScreenKeeps
<1>6. QED
  BY <1>4, <1>5

\* The staged slot goes on with its upload, or is given up.
LEMMA StagingKeeps ==
    ASSUME IInv, RenderFrame, rpc \in Settled, rpc' \in Settled,
           UNCHANGED <<pending, active, ackVars>>,
           gpuFailures' \in 0..MaxGpuFailures, staging' \in Slots,
           \/ staging' = NoSlot
           \/ /\ staging # NoSlot
              /\ staging'.gen = staging.gen /\ staging'.rev = staging.rev
              /\ staging'.cursor = staging.cursor /\ staging'.grows = staging.grows
              /\ Size(staging') = Size(staging) /\ staging'.pages <= Size(staging)
    PROVE  IInv' /\ Advances
<1>1. UNCHANGED <<gen, built, sawTerrain, wpc>>
  BY DEF RenderFrame, workVars
<1>2. PendingOK' /\ ActiveOK'
  BY DEF IInv, PendingOK, ActiveOK, Size
<1>3. Advances
  BY Numbers DEF Advances, IInv
<1>4. /\ NamesOK' /\ RevisionOK' /\ rpc' \in Rendering /\ hasActive' \in BOOLEAN
      /\ activeGen' \in Nat /\ activeRev' \in Nat /\ activeCenter' \in Nat /\ revisionOf' \in Nat
  BY <1>1, SettledKeeps
<1>5. CASE staging' = NoSlot
  <2>1. /\ staging'.gen = 0 /\ Size(staging') = 0 /\ 0 \notin sawTerrain
        /\ pending.pages \in Nat /\ (Building => gen # 0)
    BY <1>5, Numbers DEF NoSlot, Size, IInv, Ordered, Building
  <2>2. StagingOK'
    BY <1>5 DEF StagingOK
  <2>3. Monotone'
    BY <2>1 DEF IInv, Monotone, Size
  <2>4. Dominates'
    BY <1>1, <2>1 DEF IInv, Dominates, Size, Building
  <2>5. Whole'
    BY <1>1, <2>1 DEF IInv, Whole, Size
  <2>6. Shipped' \subseteq Shipped \cup {0}
    BY <2>1 DEF Shipped
  <2>7. QED
    BY <1>2, <1>3, <1>4, <2>2, <2>3, <2>4, <2>5, <2>6, ScreenKeeps DEF IInv, TypeOK
<1>6. CASE staging' # NoSlot
  <2>1. /\ staging # NoSlot
        /\ staging'.gen = staging.gen /\ staging'.rev = staging.rev
        /\ staging'.cursor = staging.cursor /\ staging'.grows = staging.grows
        /\ Size(staging') = Size(staging) /\ staging'.pages <= Size(staging)
    BY <1>6
  <2>2. StagingOK'
    BY <2>1 DEF IInv, StagingOK, Size, Newer
  <2>3. Monotone'
    BY <2>1 DEF IInv, Monotone, Size
  <2>4. Dominates'
    BY <1>1, <2>1 DEF IInv, Dominates, Size, Building
  <2>5. Whole'
    BY <1>1, <2>1 DEF IInv, Whole, Size
  <2>6. Shipped' \subseteq Shipped \cup {0}
    BY <2>1 DEF Shipped
  <2>7. QED
    BY <1>2, <1>3, <1>4, <2>2, <2>3, <2>4, <2>5, <2>6, ScreenKeeps DEF IInv, TypeOK
<1>7. QED
  BY <1>5, <1>6

\* The upload of the staged slot.
LEMMA UploadStepKeeps == IInv /\ UploadStep => IInv' /\ Advances
<1> SUFFICES ASSUME IInv, UploadStep PROVE IInv' /\ Advances
  OBVIOUS
<1>1. /\ RenderFrame /\ rpc \in Settled /\ rpc' \in Settled /\ UploadStaging
      /\ UNCHANGED <<pending, active, ackVars>>
  BY DEF UploadStep, Turn, Settled
<1>2. /\ gpuFailures \in 0..MaxGpuFailures /\ MaxGpuFailures \in Nat /\ staging \in Slots
      /\ staging.pages \in Nat /\ staging.target \in 0..AllPages /\ AllPages \in Nat
  BY Numbers, ConstantsAssumption DEF IInv, TypeOK
<1>3. CASE ~Uploading(staging)
  BY <1>1, <1>2, <1>3, TurnKeeps DEF UploadStaging
<1>4. ASSUME Uploading(staging), UNCHANGED gpuFailures, NEW s \in Uploads(staging),
             staging' = IF s.pages = s.target THEN [s EXCEPT !.target = 0] ELSE s
      PROVE  IInv' /\ Advances
  <2>1. PICK n \in staging.pages..staging.target : s = [staging EXCEPT !.pages = n]
    BY <1>4 DEF Uploads
  <2>2. n \in 0..AllPages /\ 0 \in 0..AllPages /\ n <= staging.target
    BY <1>2, <2>1
  <2>3. /\ s \in Slots /\ s.pages = n /\ s.target = staging.target /\ s.gen = staging.gen
        /\ s.rev = staging.rev /\ s.cursor = staging.cursor /\ s.grows = staging.grows
    BY <1>2, <2>1, <2>2 DEF Slots
  <2>4. staging.target # 0 /\ Size(staging) = staging.target /\ staging # NoSlot
    BY <1>4 DEF Uploading, Size, NoSlot
  <2>5. CASE n = staging.target
    <3>1. staging' = [s EXCEPT !.target = 0]
      BY <1>4, <2>3, <2>5
    <3>2. /\ staging' \in Slots /\ staging'.pages = n /\ staging'.target = 0
          /\ staging'.gen = staging.gen /\ staging'.rev = staging.rev
          /\ staging'.cursor = staging.cursor /\ staging'.grows = staging.grows
      BY <2>2, <2>3, <3>1 DEF Slots
    <3>3. Size(staging') = Size(staging)
      BY <2>4, <2>5, <3>2 DEF Size
    <3>4. QED
      BY <1>1, <1>2, <1>4, <2>2, <2>4, <3>2, <3>3, StagingKeeps
  <2>6. CASE n # staging.target
    <3>1. staging' = s
      BY <1>4, <2>3, <2>6
    <3>2. Size(staging') = Size(staging)
      BY <2>3, <2>4, <3>1 DEF Size
    <3>3. QED
      BY <1>1, <1>2, <1>4, <2>2, <2>3, <2>4, <3>1, <3>2, StagingKeeps
  <2>7. QED
    BY <2>5, <2>6
<1>5. ASSUME staging' = NoSlot, gpuFailures < MaxGpuFailures, gpuFailures' = gpuFailures + 1
      PROVE  IInv' /\ Advances
  <2>1. gpuFailures' \in 0..MaxGpuFailures /\ staging' \in Slots
    BY <1>2, <1>5, NoneTypes
  <2>2. QED
    BY <1>1, <1>5, <2>1, StagingKeeps
<1>6. QED
  BY <1>1, <1>3, <1>4, <1>5 DEF UploadStaging

\* The visible slot goes on with its upload, and what was warm is revealed.
LEMMA RevealKeeps ==
    ASSUME IInv, RenderFrame, rpc = "grow",
           rpc' = IF active.pages > active.visible THEN "showcenter" ELSE "showrevision",
           UNCHANGED <<pending, staging, ackVars>>, gpuFailures' \in 0..MaxGpuFailures,
           NEW slot \in Slots, Reveal(slot),
           active.grows, slot.grows, slot.gen = active.gen, slot.rev = active.rev,
           active.pages <= slot.pages, slot.pages <= Size(active),
           slot.target \in {active.target, 0},
           slot.target # 0 /\ slot.cursor # 0 => slot.cursor = slot.pages
    PROVE  IInv' /\ Advances
<1>1. /\ UNCHANGED <<gen, built, sawTerrain, wpc>>
      /\ UNCHANGED <<hasActive, activeGen, activeRev, activeCenter, revisionOf>>
  BY DEF RenderFrame, workVars, ackVars
<1>2. /\ active.gen \in Nat /\ active.rev \in Nat /\ active.pages \in 0..AllPages
      /\ active.visible \in Nat /\ active.target \in Nat /\ Size(active) \in Nat
      /\ slot.pages \in 0..AllPages /\ slot.target \in 0..AllPages /\ slot.gen \in Nat
      /\ slot.rev \in Nat /\ AllPages \in Nat /\ activeRev \in Nat /\ built.rev \in Nat
      /\ pending.pages \in Nat /\ Size(staging) \in Nat /\ built.pages \in Nat
  BY Numbers DEF IInv, Slots
<1>3. active' = [slot EXCEPT !.visible = active.pages]
  BY DEF Reveal
<1>4. /\ active' \in Slots /\ active'.gen = active.gen /\ active'.rev = active.rev
      /\ active'.pages = slot.pages /\ active'.visible = active.pages
      /\ active'.target = slot.target /\ active'.cursor = slot.cursor /\ active'.grows = slot.grows
  BY <1>2, <1>3 DEF Slots
<1>5. active.visible <= active.pages /\ active.pages <= Size(active) /\ active.rev > 0
      /\ active.gen > 0 /\ active # NoSlot
  <2>1. active # NoSlot
    BY DEF NoSlot
  <2>2. QED
    BY <2>1 DEF IInv, ActiveOK
<1>6. Size(active') <= Size(active) /\ slot.pages <= Size(active') /\ Size(active') \in Nat
  BY <1>2, <1>4 DEF Size
<1>7. PendingOK'
  BY DEF IInv, PendingOK
<1>8. StagingOK'
  <2>1. staging # NoSlot => Newer(staging, active')
    BY <1>4 DEF IInv, StagingOK, Newer
  <2>2. staging # NoSlot /\ staging.gen = active.gen => Size(staging) >= Size(active')
    BY <1>2, <1>6 DEF IInv, StagingOK
  <2>3. QED
    BY <1>4, <2>1, <2>2 DEF IInv, StagingOK, Newer, Size
<1>9. ActiveOK'
  <2>1. active'.target # 0 /\ active'.cursor # 0 => active'.cursor = active'.pages
    BY <1>4
  <2>2. QED
    BY <1>4, <1>5, <1>6, <2>1 DEF ActiveOK, Size
<1>10. Monotone'
  <2>1. pending.gen = active.gen /\ pending.rev >= active.rev => pending.pages >= Size(active')
    BY <1>2, <1>6 DEF IInv, Monotone
  <2>2. QED
    BY <1>4, <2>1 DEF IInv, Monotone, Size
<1>11. Dominates'
  <2>1. CASE Building
    <3>1. active.gen = gen => active.rev <= built.rev /\ Size(active') <= built.pages
      BY <1>2, <1>6, <2>1 DEF IInv, Dominates
    <3>2. active.gen = gen /\ active.rev = built.rev /\ slot.target # 0 => slot.target = built.pages
      BY <2>1 DEF IInv, Dominates
    <3>3. QED
      BY <1>1, <1>4, <2>1, <3>1, <3>2 DEF IInv, Dominates, Size
  <2>2. CASE ~Building
    BY <1>1, <2>2 DEF Dominates, Building
  <2>3. QED
    BY <2>1, <2>2
<1>12. NamesOK'
  <2>1. CASE active.pages > active.visible
    BY <1>1, <1>2, <1>4, <2>1 DEF IInv, NamesOK, Storing
  <2>2. CASE ~(active.pages > active.visible)
    <3>1. active'.visible = active.visible /\ rpc' = "showrevision"
      BY <1>2, <1>4, <1>5, <2>2
    <3>2. QED
      BY <1>1, <1>4, <3>1 DEF IInv, NamesOK, Storing
  <2>3. QED
    BY <2>1, <2>2
<1>13. RevisionOK'
  <2>1. ~Replacing /\ ~Replacing'
    BY DEF Replacing
  <2>2. Building /\ revisionOf = gen /\ activeRev = built.rev => active.pages >= built.pages
    BY <1>2, <1>5 DEF IInv, RevisionOK
  <2>3. QED
    BY <1>1, <1>4, <2>1, <2>2 DEF IInv, RevisionOK, Building
<1>14. Whole'
  <2>1. active.gen \in sawTerrain => active.pages = AllPages
    BY <1>2, <1>5 DEF IInv, Whole
  <2>2. QED
    BY <1>1, <1>4, <2>1 DEF IInv, Whole, Size
<1>15. Advances
  BY <1>4, <1>5 DEF Advances
<1>16. Shipped' = Shipped
  BY <1>4 DEF Shipped
<1>17. hasActive' \in BOOLEAN /\ rpc' \in Rendering
  BY <1>1 DEF IInv, TypeOK, Rendering
<1>18. QED
  BY <1>1, <1>4, <1>7, <1>8, <1>9, <1>10, <1>11, <1>12, <1>13, <1>14, <1>15, <1>16, <1>17,
     ScreenKeeps
  DEF IInv, TypeOK

\* The upload of the visible slot: a frame's worth of pages, or a page that throws.
LEMMA GrowStepKeeps == IInv /\ GrowStep => IInv' /\ Advances
<1> SUFFICES ASSUME IInv, GrowStep PROVE IInv' /\ Advances
  OBVIOUS
<1>1. RenderFrame /\ rpc = "grow" /\ UNCHANGED <<pending, staging, ackVars>>
  BY DEF GrowStep
<1>2. /\ gpuFailures \in 0..MaxGpuFailures /\ MaxGpuFailures \in Nat /\ active \in Slots
      /\ active.pages \in 0..AllPages /\ active.target \in 0..AllPages /\ AllPages \in Nat
      /\ Size(active) \in Nat
  BY Numbers, ConstantsAssumption DEF IInv, TypeOK
<1>3. /\ active.pages <= Size(active) /\ (Uploading(active) => Size(active) = active.target)
      /\ active.target # 0 /\ active.cursor # 0 => active.cursor = active.pages
  BY DEF IInv, ActiveOK, Size, Uploading
<1>4. CASE ~active.grows
  <2>1. UNCHANGED <<active, gpuFailures>> /\ rpc' = "swap"
    BY <1>4 DEF GrowStep
  <2>2. QED
    BY <1>1, <1>2, <2>1, TurnKeeps DEF Settled
<1>5. ASSUME active.grows, UNCHANGED gpuFailures, NEW slot \in Grown, Reveal(slot),
             rpc' = IF active.pages > active.visible THEN "showcenter" ELSE "showrevision"
      PROVE  IInv' /\ Advances
  <2>1. /\ slot \in Slots /\ slot.gen = active.gen /\ slot.rev = active.rev /\ slot.grows
        /\ active.pages <= slot.pages /\ slot.pages <= Size(active) /\ slot.target = active.target
        /\ slot.target # 0 /\ slot.cursor # 0 => slot.cursor = slot.pages
    <3>1. CASE slot = active
      BY <1>2, <1>3, <1>5, <3>1
    <3>2. CASE slot # active
      <4>1. PICK s \in Uploads(active) : slot = [s EXCEPT !.cursor = s.pages]
        BY <1>5, <3>2 DEF Grown
      <4>2. Uploading(active)
        BY <1>5, <3>2 DEF Grown
      <4>3. PICK n \in active.pages..active.target : s = [active EXCEPT !.pages = n]
        BY <4>1 DEF Uploads
      <4>4. n \in 0..AllPages /\ active.pages <= n /\ n <= active.target
        BY <1>2, <4>3
      <4>5. s \in Slots /\ s.pages = n
        BY <1>2, <4>3, <4>4 DEF Slots
      <4>6. slot = [s EXCEPT !.cursor = n]
        BY <4>1, <4>5
      <4>7. /\ slot \in Slots /\ slot.gen = active.gen /\ slot.rev = active.rev
            /\ slot.grows = active.grows /\ slot.pages = n /\ slot.target = active.target
            /\ slot.cursor = n
        BY <1>2, <4>3, <4>4, <4>5, <4>6 DEF Slots
      <4>8. QED
        BY <1>3, <1>5, <4>2, <4>4, <4>7
    <3>3. QED
      BY <3>1, <3>2
  <2>2. QED
    BY <1>1, <1>2, <1>5, <2>1, RevealKeeps
<1>6. ASSUME active.grows, gpuFailures' = gpuFailures + 1, NEW slot \in Broken, Reveal(slot),
             rpc' = IF active.pages > active.visible THEN "showcenter" ELSE "showrevision"
      PROVE  IInv' /\ Advances
  <2>1. Uploading(active) /\ gpuFailures # MaxGpuFailures
    BY <1>6 DEF Broken
  <2>2. PICK n \in active.pages..(active.target - 1) :
               slot = [active EXCEPT !.pages = n, !.target = 0]
    BY <1>6, <2>1 DEF Broken
  <2>3. n \in 0..AllPages /\ active.pages <= n /\ n <= active.target
    BY <1>2, <2>2
  <2>4. /\ slot \in Slots /\ slot.gen = active.gen /\ slot.rev = active.rev
        /\ slot.grows = active.grows /\ slot.pages = n /\ slot.target = 0
    <3>1. 0 \in 0..AllPages
      BY <1>2
    <3>2. QED
      BY <1>2, <2>2, <2>3, <3>1 DEF Slots
  <2>5. gpuFailures' \in 0..MaxGpuFailures
    BY <1>2, <1>6, <2>1
  <2>6. n <= Size(active)
    BY <1>3, <2>1, <2>3
  <2>7. QED
    BY <1>1, <1>6, <2>3, <2>4, <2>5, <2>6, RevealKeeps
<1>7. CASE active.grows
  BY <1>1, <1>5, <1>6, <1>7 DEF GrowStep
<1>8. QED
  BY <1>4, <1>7

\* The staged slot becomes the visible one in one step.
LEMMA SwapKeeps == IInv /\ Swap => IInv' /\ Advances
<1> SUFFICES ASSUME IInv, Swap PROVE IInv' /\ Advances
  OBVIOUS
<1>1. /\ RenderFrame /\ rpc = "swap" /\ UNCHANGED <<pending, gpuFailures, ackVars>>
  BY DEF Swap
<1>2. /\ gpuFailures' \in 0..MaxGpuFailures /\ staging \in Slots /\ AllPages \in Nat
      /\ staging.gen \in Nat /\ staging.rev \in Nat /\ staging.pages \in 0..AllPages
      /\ active.visible \in Nat /\ active.pages \in Nat /\ Size(active) \in Nat
      /\ active.gen \in Nat /\ pending.pages \in Nat /\ built.pages \in Nat
  BY <1>1, Numbers DEF IInv, TypeOK
<1>3. CASE staging = NoSlot \/ Uploading(staging)
  <2>1. UNCHANGED <<staging, active>> /\ rpc' = "adopt"
    BY <1>3 DEF Swap
  <2>2. QED
    BY <1>1, <1>2, <2>1, TurnKeeps DEF Settled
<1>4. CASE ~(staging = NoSlot \/ Uploading(staging)) /\ staging.warm > 0
  <2>1. staging' = [staging EXCEPT !.warm = 0] /\ UNCHANGED active /\ rpc' = "adopt"
    BY <1>4 DEF Swap
  <2>2. 0 \in 0..1
    OBVIOUS
  <2>3. /\ staging' \in Slots /\ staging'.gen = staging.gen /\ staging'.rev = staging.rev
        /\ staging'.cursor = staging.cursor /\ staging'.grows = staging.grows
        /\ staging'.pages = staging.pages /\ staging'.target = staging.target
    BY <1>2, <2>1, <2>2 DEF Slots
  <2>4. Size(staging') = Size(staging) /\ staging'.pages <= Size(staging)
    BY <1>4, <2>3 DEF Size, IInv, StagingOK
  <2>5. QED
    BY <1>1, <1>2, <1>4, <2>1, <2>3, <2>4, StagingKeeps DEF Settled
<1>5. CASE ~(staging = NoSlot \/ Uploading(staging)) /\ ~(staging.warm > 0)
  <2>1. /\ active' = [staging EXCEPT !.visible = staging.pages] /\ staging' = NoSlot
        /\ rpc' = "center"
    BY <1>5 DEF Swap
  <2>2. /\ staging # NoSlot /\ staging.target = 0 /\ Size(staging) = staging.pages
    BY <1>5 DEF Uploading, Size
  <2>3. /\ active' \in Slots /\ active'.gen = staging.gen /\ active'.rev = staging.rev
        /\ active'.pages = staging.pages /\ active'.visible = staging.pages
        /\ active'.target = 0 /\ active'.cursor = staging.cursor /\ active'.grows = staging.grows
    BY <1>2, <2>1, <2>2 DEF Slots
  <2>4. /\ staging.gen > 0 /\ staging.pages > 0 /\ staging.cursor = 0 /\ ~staging.grows
        /\ Newer(staging, active)
        /\ staging.gen = active.gen => staging.pages >= Size(active)
    BY <2>2 DEF IInv, StagingOK
  <2>5. Size(active') = staging.pages
    BY <2>3 DEF Size
  <2>6. PendingOK'
    BY <1>1 DEF IInv, PendingOK
  <2>7. StagingOK'
    BY <2>1 DEF StagingOK
  <2>8. ActiveOK'
    <3>1. staging.pages <= staging.pages
      BY <1>2
    <3>2. QED
      BY <2>3, <2>4, <2>5, <3>1 DEF ActiveOK, Size
  <2>9. UNCHANGED <<gen, built, sawTerrain, wpc>>
    BY <1>1 DEF RenderFrame, workVars
  <2>10. Monotone'
    <3>1. Size(staging') = 0
      BY <2>1 DEF Size, NoSlot
    <3>2. QED
      BY <1>1, <1>2, <2>2, <2>3, <2>5, <3>1 DEF IInv, Monotone, Size
  <2>11. Dominates'
    <3>1. Building => gen # 0
      BY DEF Building, IInv, Ordered
    <3>2. staging'.gen = 0
      BY <2>1 DEF NoSlot
    <3>3. QED
      BY <1>1, <2>2, <2>3, <2>5, <2>9, <3>1, <3>2 DEF IInv, Dominates, Size, Building
  <2>12. NamesOK' /\ RevisionOK'
    <3>1. /\ UNCHANGED <<hasActive, activeGen, activeRev, activeCenter, revisionOf>>
          /\ activeGen \in Nat /\ activeRev \in Nat /\ revisionOf \in Nat /\ gen \in Nat
          /\ active.rev \in Nat /\ built.rev \in Nat
      BY <1>1, Numbers DEF ackVars, IInv
    <3>2. NamesOK /\ RevisionOK /\ ~Replacing /\ Replacing'
      BY <1>1, <2>1 DEF IInv, Replacing
    <3>3. active.gen <= staging.gen /\ (active.gen = staging.gen => active.rev <= staging.rev)
      BY <1>2, <2>4, <3>1 DEF Newer
    <3>4. NamesOK'
      BY <1>2, <2>1, <2>3, <2>4, <3>1, <3>2, <3>3 DEF NamesOK
    <3>5. revisionOf <= active.gen
      BY <3>2 DEF RevisionOK
    <3>6. revisionOf = staging.gen => activeRev <= staging.rev
      BY <1>2, <3>1, <3>2, <3>3, <3>5 DEF RevisionOK
    <3>7. Building /\ revisionOf = gen /\ activeRev = built.rev => staging.pages >= built.pages
      <4> SUFFICES ASSUME Building, revisionOf = gen, activeRev = built.rev
                   PROVE  staging.pages >= built.pages
        OBVIOUS
      <4>1. active.visible >= built.pages /\ gen # 0
        BY <3>2 DEF RevisionOK, Building, IInv, Ordered
      <4>2. staging.gen <= gen
        BY <4>1 DEF IInv, Ordered, Shipped
      <4>3. staging.gen = active.gen
        BY <1>2, <3>1, <3>3, <3>5, <4>2
      <4>4. staging.pages >= Size(active)
        BY <2>4, <4>3
      <4>5. active.visible <= active.pages /\ active.pages <= Size(active)
        BY DEF IInv, ActiveOK
      <4>6. QED
        BY <1>2, <4>1, <4>4, <4>5
    <3>8. Building /\ staging.gen = gen /\ staging.rev = built.rev => staging.pages >= built.pages
      BY <1>2, <2>2 DEF IInv, Dominates
    <3>9. revisionOf <= staging.gen
      BY <1>2, <3>1, <3>3, <3>5
    <3>10. RevisionOK'
      BY <2>3, <2>9, <3>1, <3>2, <3>6, <3>7, <3>8, <3>9 DEF RevisionOK, Building
    <3>11. QED
      BY <3>4, <3>10
  <2>13. Whole'
    <3>1. 0 \notin sawTerrain /\ staging'.gen = 0
      BY <2>1 DEF IInv, Ordered, NoSlot
    <3>2. QED
      BY <1>1, <2>2, <2>3, <2>9, <3>1 DEF IInv, Whole, Size
  <2>14. Advances
    <3>1. active.visible <= active.pages /\ active.pages <= Size(active)
      BY DEF IInv, ActiveOK
    <3>2. QED
      BY <1>2, <2>3, <2>4, <3>1 DEF Advances, Newer
  <2>15. Shipped' \subseteq Shipped \cup {0}
    BY <1>1, <2>1, <2>3 DEF Shipped, NoSlot
  <2>16. /\ pending' \in Snapshots /\ staging' \in Slots
         /\ hasActive' \in BOOLEAN /\ activeGen' \in Nat /\ activeRev' \in Nat
         /\ activeCenter' \in Nat /\ revisionOf' \in Nat /\ rpc' \in Rendering
    BY <1>1, <1>2, <2>1, NoneTypes DEF IInv, TypeOK, ackVars, Rendering
  <2>17. QED
    BY <1>1, <1>2, <2>3, <2>6, <2>7, <2>8, <2>10, <2>11, <2>12, <2>13, <2>14, <2>15, <2>16, ScreenKeeps
<1>6. QED
  BY <1>3, <1>4, <1>5

\* A step that stores part of the acknowledgement shows nothing else; the upload it
\* acknowledges is over.
LEMMA StoreKeeps ==
    ASSUME IInv, StoreFrame, rpc' \in Rendering,
           \/ active' = active
           \/ active.pages = active.target /\ active' = [active EXCEPT !.target = 0],
           hasActive' \in BOOLEAN, activeGen' \in Nat, activeRev' \in Nat,
           activeCenter' \in Nat, revisionOf' \in Nat, NamesOK', RevisionOK'
    PROVE  IInv' /\ Advances
<1>1. /\ RenderFrame /\ UNCHANGED <<staging, pending, gpuFailures, gen, built, sawTerrain, wpc>>
  BY DEF StoreFrame, RenderFrame, workVars
<1>2. /\ active' \in Slots /\ active'.gen = active.gen /\ active'.rev = active.rev
      /\ active'.pages = active.pages /\ active'.visible = active.visible
      /\ active'.cursor = active.cursor /\ active'.grows = active.grows
      /\ active'.target \in {active.target, 0} /\ Size(active') = Size(active)
  <2>1. active \in Slots /\ 0 \in 0..AllPages
    BY Numbers DEF IInv, TypeOK
  <2>2. CASE active' = active
    BY <2>1, <2>2
  <2>3. CASE active.pages = active.target /\ active' = [active EXCEPT !.target = 0]
    BY <2>1, <2>3 DEF Slots, Size
  <2>4. QED
    BY <2>2, <2>3
<1>3. PendingOK'
  BY <1>1 DEF IInv, PendingOK
<1>4. StagingOK'
  BY <1>1, <1>2 DEF IInv, StagingOK, Newer, Size
<1>5. ActiveOK'
  <2>1. active' # NoSlot => active.gen > 0
    <3>1. CASE active = NoSlot
      <4>1. active.pages = 0 /\ active.target = 0
        BY <3>1 DEF NoSlot
      <4>2. active' = active
        BY <1>2, <3>1, <4>1 DEF NoSlot
      <4>3. QED
        BY <3>1, <4>2
    <3>2. CASE active # NoSlot
      BY <3>2 DEF IInv, ActiveOK
    <3>3. QED
      BY <3>1, <3>2
  <2>2. QED
    BY <1>2, <2>1 DEF IInv, ActiveOK
<1>6. Monotone' /\ Whole'
  BY <1>1, <1>2 DEF IInv, Monotone, Whole, Size
<1>7. Dominates'
  BY <1>1, <1>2 DEF IInv, Dominates, Building, Size
<1>8. Advances
  BY <1>2, Numbers DEF IInv, Advances
<1>9. Shipped' = Shipped
  BY <1>1, <1>2 DEF Shipped
<1>10. QED
  BY <1>1, <1>2, <1>3, <1>4, <1>5, <1>6, <1>7, <1>8, <1>9, ScreenKeeps DEF IInv, TypeOK

\* The centre is stored first.
LEMMA StoreCenterKeeps == IInv /\ StoreCenter => IInv' /\ Advances
<1> SUFFICES ASSUME IInv, StoreCenter PROVE IInv' /\ Advances
  OBVIOUS
<1>1. /\ \/ rpc = "showcenter" /\ rpc' = "showgeneration"
         \/ rpc = "center" /\ rpc' = "generation"
      /\ activeCenter' = active.gen /\ StoreFrame
      /\ UNCHANGED <<active, hasActive, activeGen, activeRev, revisionOf>>
  BY DEF StoreCenter, Turn
<1>2. UNCHANGED <<gen, built, wpc>>
  BY <1>1 DEF StoreFrame, RenderFrame, workVars
<1>3. NamesOK'
  BY <1>1 DEF IInv, NamesOK, Storing
<1>4. RevisionOK'
  BY <1>1, <1>2 DEF IInv, RevisionOK, Replacing, Building
<1>5. rpc' \in Rendering /\ activeCenter' \in Nat /\ hasActive' \in BOOLEAN
  BY <1>1, Numbers DEF IInv, TypeOK, Rendering
<1>6. QED
  BY <1>1, <1>3, <1>4, <1>5, StoreKeeps DEF IInv, TypeOK

\* Then the generation, and the names are right.
LEMMA StoreGenerationKeeps == IInv /\ StoreGeneration => IInv' /\ Advances
<1> SUFFICES ASSUME IInv, StoreGeneration PROVE IInv' /\ Advances
  OBVIOUS
<1>1. /\ \/ rpc = "showgeneration" /\ rpc' = "showactive"
         \/ rpc = "generation" /\ rpc' = "revision"
      /\ activeGen' = active.gen /\ StoreFrame
      /\ UNCHANGED <<active, hasActive, activeCenter, activeRev, revisionOf>>
  BY DEF StoreGeneration, Turn
<1>2. UNCHANGED <<gen, built, wpc>> /\ active.gen \in Nat
  BY <1>1, Numbers DEF StoreFrame, RenderFrame, workVars, IInv
<1>3. NamesOK'
  BY <1>1, <1>2 DEF IInv, NamesOK, Storing
<1>4. RevisionOK'
  BY <1>1, <1>2 DEF IInv, RevisionOK, Replacing, Building
<1>5. rpc' \in Rendering /\ activeGen' \in Nat /\ hasActive' \in BOOLEAN
  BY <1>1, <1>2 DEF IInv, TypeOK, Rendering
<1>6. QED
  BY <1>1, <1>3, <1>4, <1>5, StoreKeeps DEF IInv, TypeOK

\* Then the flag.
LEMMA StoreActiveKeeps == IInv /\ StoreActive => IInv' /\ Advances
<1> SUFFICES ASSUME IInv, StoreActive PROVE IInv' /\ Advances
  OBVIOUS
<1>1. /\ \/ rpc = "showactive" /\ rpc' = "showrevision"
         \/ rpc = "active" /\ rpc' = "adopt"
      /\ hasActive' = TRUE /\ StoreFrame
      /\ UNCHANGED <<active, activeGen, activeCenter, activeRev, revisionOf>>
  BY DEF StoreActive, Turn
<1>2. UNCHANGED <<gen, built, wpc>>
  BY <1>1 DEF StoreFrame, RenderFrame, workVars
<1>3. NamesOK'
  BY <1>1 DEF IInv, NamesOK, Storing
<1>4. RevisionOK'
  BY <1>1, <1>2 DEF IInv, RevisionOK, Replacing, Building
<1>5. rpc' \in Rendering /\ hasActive' \in BOOLEAN
  BY <1>1 DEF Rendering
<1>6. QED
  BY <1>1, <1>3, <1>4, <1>5, StoreKeeps DEF IInv, TypeOK

\* The revision of a growing terrain is stored when all of its pages are visible,
\* that of a replacement after the swap.
LEMMA StoreRevisionKeeps == IInv /\ StoreRevision => IInv' /\ Advances
<1> SUFFICES ASSUME IInv, StoreRevision PROVE IInv' /\ Advances
  OBVIOUS
<1>1. StoreFrame /\ UNCHANGED <<hasActive, activeGen, activeCenter>>
  BY DEF StoreRevision
<1>2. /\ UNCHANGED <<gen, built, wpc>> /\ hasActive' \in BOOLEAN
      /\ active.gen \in Nat /\ active.rev \in Nat /\ activeGen' \in Nat /\ activeCenter' \in Nat
      /\ activeRev \in Nat /\ revisionOf \in Nat
  BY <1>1, Numbers DEF StoreFrame, RenderFrame, workVars, IInv, TypeOK
<1>3. CASE rpc = "showrevision" /\ rpc' = "swap" /\ ~Shown(active)
  <2>1. UNCHANGED <<active, activeRev, revisionOf>>
    BY <1>3 DEF StoreRevision, Turn
  <2>2. RenderFrame /\ UNCHANGED <<pending, staging, ackVars>> /\ gpuFailures' \in 0..MaxGpuFailures
    BY <1>1, <2>1 DEF StoreFrame, ackVars, IInv, TypeOK
  <2>3. QED
    BY <1>3, <2>1, <2>2, TurnKeeps DEF Settled
<1>4. CASE rpc = "showrevision" /\ rpc' = "swap" /\ Shown(active)
  <2>1. /\ active' = [active EXCEPT !.target = 0]
        /\ activeRev' = active.rev /\ revisionOf' = active.gen
    BY <1>4 DEF StoreRevision, Turn
  <2>2. /\ active.target # 0 /\ active.visible = active.pages /\ active.pages = active.target
    <3>1. active.target # 0 /\ active.cursor = active.target /\ active.visible = active.pages
      BY <1>4 DEF Shown, Uploading
    <3>2. QED
      BY <3>1 DEF IInv, ActiveOK
  <2>3. /\ active'.gen = active.gen /\ active'.rev = active.rev /\ active'.visible = active.visible
    BY <2>1 DEF IInv, TypeOK, Slots
  <2>4. active.gen > 0
    BY <2>2 DEF IInv, ActiveOK, NoSlot
  <2>5. NamesOK'
    BY <1>1, <1>4, <2>3 DEF IInv, NamesOK, Storing
  <2>6. Building /\ active.gen = gen /\ active.rev = built.rev => active.visible >= built.pages
    <3>1. active.target \in Nat /\ built.pages \in Nat
      BY Numbers DEF IInv
    <3>2. QED
      BY <2>2, <3>1 DEF IInv, Dominates
  <2>7. RevisionOK'
    BY <1>2, <1>4, <2>1, <2>3, <2>4, <2>6 DEF RevisionOK, Replacing, Building
  <2>8. rpc' \in Rendering /\ activeRev' \in Nat /\ revisionOf' \in Nat
    BY <1>2, <1>4, <2>1 DEF Rendering
  <2>9. QED
    BY <1>1, <1>2, <2>1, <2>2, <2>5, <2>7, <2>8, StoreKeeps
<1>5. CASE rpc = "revision" /\ rpc' = "active"
  <2>1. UNCHANGED active /\ activeRev' = active.rev /\ revisionOf' = active.gen
    BY <1>5 DEF StoreRevision, Turn
  <2>2. active.visible > 0
    BY <1>5 DEF IInv, NamesOK, Storing
  <2>3. active.gen > 0
    BY <2>2 DEF IInv, ActiveOK, NoSlot
  <2>4. NamesOK'
    BY <1>1, <1>5, <2>1 DEF IInv, NamesOK, Storing
  <2>5. Building /\ active.gen = gen /\ active.rev = built.rev => active.visible >= built.pages
    BY <1>5 DEF IInv, RevisionOK, Replacing
  <2>6. RevisionOK'
    BY <1>2, <1>5, <2>1, <2>3, <2>5 DEF RevisionOK, Replacing, Building
  <2>7. rpc' \in Rendering /\ activeRev' \in Nat /\ revisionOf' \in Nat
    BY <1>2, <1>5, <2>1 DEF Rendering
  <2>8. QED
    BY <1>1, <1>2, <2>1, <2>4, <2>6, <2>7, StoreKeeps
<1>6. QED
  BY <1>3, <1>4, <1>5 DEF StoreRevision, Turn

\* Every step of the render thread keeps the invariant and advances the picture.
LEMMA RenderStepKeeps == IInv /\ RenderStep => IInv' /\ Advances
BY AdoptKeeps, StageKeeps, UploadStepKeeps, GrowStepKeeps, SwapKeeps, StoreCenterKeeps,
   StoreGenerationKeeps, StoreActiveKeeps, StoreRevisionKeeps DEF RenderStep

-----------------------------------------------------------------------------
(***************************************************************************)
(* The theorems.                                                           *)
(***************************************************************************)
\* The invariant holds at the start.
LEMMA InvInit == Init => IInv
<1> SUFFICES ASSUME Init PROVE IInv
  OBVIOUS
<1>1. /\ centerOf = <<>> /\ request = 0 /\ latest = 0 /\ wpc = "idle" /\ gen = 0
      /\ built = NoSnapshot /\ pending = NoSnapshot /\ active = NoSlot /\ staging = NoSlot
      /\ activeGen = 0 /\ activeRev = 0 /\ sawTerrain = {} /\ rpc = "adopt"
      /\ hasActive = FALSE /\ activeCenter = 0 /\ revisionOf = 0 /\ misled = FALSE
  BY DEF Init
<1>2. Requested = 0
  BY <1>1 DEF Requested
<1>3. NoSlot.gen = 0 /\ Size(NoSlot) = 0 /\ NoSlot.pages = 0 /\ NoSlot.visible = 0
      /\ NoSlot.rev = 0 /\ NoSlot.target = 0 /\ NoSlot.cursor = 0 /\ ~NoSlot.grows
      /\ NoSnapshot.gen = 0 /\ NoSnapshot.rev = 0 /\ NoSnapshot.pages = 0
  BY DEF NoSlot, NoSnapshot, Size
<1>4. TypeOK
  <2>1. retry \in BOOLEAN /\ had \in BOOLEAN /\ hasActive \in BOOLEAN
    BY DEF Init
  <2>2. /\ place \in Places /\ spc \in {"update", "store"} /\ center \in Places \cup {Nowhere}
        /\ centerOf \in Seq(Places)
        /\ moves \in 0..MaxMoves /\ failures \in 0..MaxFailures /\ gpuFailures \in 0..MaxGpuFailures
    BY ConstantsAssumption DEF Init
  <2>3. QED
    BY <1>1, <2>1, <2>2, NoneTypes DEF TypeOK
<1>5. Ordered
  BY <1>1, <1>2, <1>3 DEF Ordered, Shipped
<1>6. WorkerOK /\ Dominates
  BY <1>1 DEF WorkerOK, Publishing, Dominates, Building
<1>7. PendingOK /\ StagingOK
  BY <1>1 DEF PendingOK, StagingOK
<1>8. ActiveOK /\ Monotone
  BY <1>1, <1>3 DEF ActiveOK, Monotone
<1>9. NamesOK /\ RevisionOK /\ AwaitOK /\ Whole /\ NothingForgotten
  BY <1>1, <1>2, <1>3
  DEF NamesOK, Storing, RevisionOK, Replacing, AwaitOK, Whole, NothingForgotten, Building
<1>10. QED
  BY <1>4, <1>5, <1>6, <1>7, <1>8, <1>9 DEF IInv

\* Every step keeps the invariant.
LEMMA InvStep == IInv /\ [Next]_vars => IInv'
<1> SUFFICES ASSUME IInv, [Next]_vars PROVE IInv'
  OBVIOUS
<1>1. CASE Move
  BY <1>1, MoveKeeps
<1>2. CASE SimStep
  BY <1>2, UpdateVisualKeeps, StoreLatestKeeps DEF SimStep
<1>3. CASE WorkerStep
  BY <1>3, WorkerStepKeeps
<1>4. CASE RenderStep
  BY <1>4, RenderStepKeeps
<1>5. CASE UNCHANGED vars
  <2>1. UNCHANGED <<workVars, misled, pending, renderVars, failures>>
    BY <1>5 DEF vars
  <2>2. UNCHANGED <<place, spc, center, centerOf, moves, request, latest, retry, wpc, gen,
                    sawTerrain, pending, staging, active>>
    BY <1>5 DEF vars, simVars, workVars, renderVars
  <2>3. retry' \in BOOLEAN
    BY <2>2 DEF IInv, TypeOK
  <2>4. TypeOK'
    BY <2>1, <2>2, <2>3, SimTypes DEF IInv, TypeOK
  <2>5. Ordered' /\ NothingForgotten'
    BY <2>1, <2>2 DEF IInv, Ordered, Shipped, NothingForgotten, Requested
  <2>6. QED
    BY <2>1, <2>4, <2>5, SimKeeps
<1>6. QED
  BY <1>1, <1>2, <1>3, <1>4, <1>5 DEF Next

(***************************************************************************)
(* The invariant, with the types of all variables (TypeOK), holds in every *)
(* reachable state.                                                        *)
(***************************************************************************)
THEOREM InvHolds == Spec => []IInv
BY InvInit, InvStep, PTL DEF Spec

(***************************************************************************)
(* The acknowledgement tells the truth in every interleaving of its stores *)
(* with the worker's reads: a generation read in awaitActivation is and    *)
(* stays on screen, and a revision of it that is not older than the        *)
(* published one says that all published pages are visible                 *)
(* (TerrainRuntime.cc:389-391, GzTerrainRenderer.cc:731-745 and            *)
(* 1053-1062).  It does not say that the revision read is one of the       *)
(* generation read, which can be false.                                    *)
(***************************************************************************)
THEOREM AnswersAreTrue == Spec => []AcknowledgedIsVisible
<1>1. IInv => AcknowledgedIsVisible
  <2> SUFFICES ASSUME IInv PROVE AcknowledgedIsVisible
    OBVIOUS
  <2>1. AcknowledgedPages
    BY AnswerIsVisible DEF IInv, AwaitOK, AcknowledgedPages
  <2>2. ScreenOccupied
    <3>1. rpc = "adopt" /\ hasActive => activeRev <= active.rev
      <4>1. ~Replacing \/ rpc # "adopt"
        BY DEF Replacing
      <4>2. active.rev \in Nat
        BY Numbers DEF IInv
      <4>3. QED
        BY <4>1, <4>2 DEF IInv, RevisionOK
    <3>2. QED
      BY <3>1 DEF IInv, NamesOK, ScreenOccupied
  <2>3. QED
    BY <2>1, <2>2 DEF IInv, AcknowledgedIsVisible
<1>2. QED
  BY <1>1, InvHolds, PTL

(***************************************************************************)
(* Unless a worker was misled, the newest request is waiting, being        *)
(* served, shown completely, or will be asked for again: no failure and no *)
(* supersession on the way through visualWorker drops it.                  *)
(***************************************************************************)
THEOREM RequestsAreServed == Spec => []NothingForgotten
<1>1. IInv => NothingForgotten
  BY DEF IInv
<1>2. QED
  BY <1>1, InvHolds, PTL

(***************************************************************************)
(* Terrain whose worker found other terrain on screen is shown with all of *)
(* its pages or not at all (hadActiveTerrain, TerrainRuntime.cc:193).      *)
(***************************************************************************)
THEOREM ReplacementsAreWhole == Spec => []ReplacementsWhole
<1>1. IInv => ReplacementsWhole
  BY DEF IInv, Whole, ReplacementsWhole
<1>2. QED
  BY <1>1, InvHolds, PTL

\* Only the render thread changes the picture, and only forward.
LEMMA PictureStep == IInv /\ [Next]_vars => [Advances]_vars
<1> SUFFICES ASSUME IInv, Next PROVE Advances
  OBVIOUS
<1>1. CASE RenderStep
  BY <1>1, RenderStepKeeps
<1>2. CASE UNCHANGED active
  BY <1>2, Numbers DEF Advances, IInv
<1>3. Move \/ SimStep \/ WorkerStep => UNCHANGED active
  BY DEF Move, SimStep, UpdateVisual, StoreLatest, renderVars, WorkerStep, WorkFrame, Quit,
         Take, Look, BootstrapPage, Progress, QueuePartial, BootstrapDone, BootstrapStale,
         BootstrapFails, Prepare, PrepareFails, PrepareStale, Publish, ReadGeneration,
         ReadRevision, Deadline, ConfirmGeneration, Activated, Timeout, PublishStale,
         OuterPage, OuterComplete, OuterDone, OuterFails
<1>4. QED
  BY <1>1, <1>2, <1>3 DEF Next

(***************************************************************************)
(* The picture never goes back to an older generation and never loses a    *)
(* page of the one it shows, in whatever order snapshots, growth and swaps *)
(* come (GzTerrainRenderer.cc:1013).                                       *)
(***************************************************************************)
THEOREM PictureAdvances == Spec => PictureNeverRegresses
<1>1. Spec => [][Advances]_vars
  BY InvHolds, PictureStep, PTL DEF Spec
<1>2. QED
  BY <1>1 DEF PictureNeverRegresses, Advances
=============================================================================
