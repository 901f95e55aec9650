------------------------------ MODULE GuiProofs ------------------------------
(***************************************************************************)
(* Proofs about GuiPreview, for every set of places, every list of         *)
(* snapshots and every bound.                                              *)
(*                                                                         *)
(* The pages pulled so far are those of the manifest, although the source  *)
(* goes on (PulledOK); the places of a snapshot differ (PlacesDiffer), so  *)
(* that taking over the finer texture of a place never loses detail; each  *)
(* of source, manifest, assembled and sent terrain is at least as far as   *)
(* the next one (Upstream, Downstream), so that the changes picked out for *)
(* the renderer suffice.                                                   *)
(***************************************************************************)
EXTENDS GuiPreview, SequenceTheorems, TLAPS

-----------------------------------------------------------------------------
(***************************************************************************)
(* Type correctness.                                                       *)
(***************************************************************************)
\* An empty terrain is a terrain.
LEMMA NoTerrainTypes == /\ NoTerrain \in Terrains
                        /\ <<>> \in Seq(Pages)
BY DEF NoTerrain, Terrains

\* The level of a place is one of the levels, or none.
LEMMA LevelOfTypes ==
    ASSUME NEW pages \in Seq(Pages), NEW place
    PROVE  LevelOf(pages, place) \in Levels \cup {0}
<1>1. Range(pages) \subseteq Pages
  BY DEF Range
<1>2. CASE \E p \in Range(pages) : p.place = place
  <2>1. (CHOOSE p \in Range(pages) : p.place = place) \in Range(pages)
    BY <1>2
  <2>2. QED
    BY <1>1, <1>2, <2>1 DEF LevelOf, Pages
<1>3. CASE ~\E p \in Range(pages) : p.place = place
  BY <1>3 DEF LevelOf
<1>4. QED
  BY <1>2, <1>3

\* The page of a place that has only one.
LEMMA LevelOfPlace ==
    ASSUME NEW pages \in Seq(Pages), NEW i \in DOMAIN pages,
           \A j \in DOMAIN pages : pages[j].place = pages[i].place => j = i
    PROVE  LevelOf(pages, pages[i].place) = pages[i].level
<1> DEFINE place == pages[i].place
<1>1. pages[i] \in Range(pages)
  BY DEF Range
<1>2. \A p \in Range(pages) : p.place = place => p = pages[i]
  BY DEF Range
<1>3. (CHOOSE p \in Range(pages) : p.place = place) = pages[i]
  BY <1>1, <1>2
<1>4. QED
  BY <1>1, <1>3 DEF LevelOf

\* The parts of a page of a terrain.
LEMMA PageTypes ==
    ASSUME NEW pages \in Seq(Pages), NEW i \in DOMAIN pages
    PROVE  pages[i].place \in Places /\ pages[i].level \in Levels
<1>1. pages[i] \in Pages
  OBVIOUS
<1>2. QED
  BY <1>1 DEF Pages

\* Changing the levels of the pages keeps them pages.
LEMMA RelevelTypes ==
    ASSUME NEW pages \in Seq(Pages), NEW level \in [DOMAIN pages -> Levels]
    PROVE  [i \in DOMAIN pages |-> [pages[i] EXCEPT !.level = level[i]]] \in Seq(Pages)
<1>1. pages \in [1..Len(pages) -> Pages] /\ Len(pages) \in Nat /\ DOMAIN pages = 1..Len(pages)
  OBVIOUS
<1>2. \A i \in DOMAIN pages : [pages[i] EXCEPT !.level = level[i]] \in Pages
  BY <1>1 DEF Pages
<1> DEFINE new == [i \in DOMAIN pages |-> [pages[i] EXCEPT !.level = level[i]]]
<1>3. new \in [1..Len(pages) -> Pages]
  BY <1>1, <1>2
<1> HIDE DEF new
<1>4. new \in Seq(Pages)
  BY <1>1, <1>3, SeqDef
<1>5. QED
  BY <1>4 DEF new

\* What the renderer makes of a snapshot is a terrain.
LEMMA RenderedTypes ==
    ASSUME NEW s \in Terrains, NEW t \in Terrains
    PROVE  Rendered(s, t) \in Terrains
<1> DEFINE level == [i \in DOMAIN s.pages |->
              LET old == LevelOf(t.pages, s.pages[i].place) IN
              IF old # 0 /\ (s.gen = t.gen \/ old > s.pages[i].level) THEN old
              ELSE s.pages[i].level]
           new == [i \in DOMAIN s.pages |-> [s.pages[i] EXCEPT !.level = level[i]]]
<1>1. s.pages \in Seq(Pages) /\ t.pages \in Seq(Pages)
  BY DEF Terrains
<1>2. \A i \in DOMAIN s.pages : s.pages[i].level \in Levels
  BY <1>1, PageTypes
<1>3. level \in [DOMAIN s.pages -> Levels]
  BY <1>1, <1>2, LevelOfTypes
<1>4. new \in Seq(Pages)
  BY <1>1, <1>3, RelevelTypes
<1>5. Rendered(s, t) = [s EXCEPT !.pages = new]
  BY DEF Rendered
<1> HIDE DEF new
<1>6. QED
  BY <1>4, <1>5 DEF Terrains

\* A terrain that takes over the textures that changed is a terrain.
LEMMA WithDeltasTypes ==
    ASSUME NEW s \in Terrains, NEW t \in Terrains, NEW old \in Terrains
    PROVE  WithDeltas(s, t, old) \in Terrains
<1> DEFINE level == [i \in DOMAIN t.pages |->
              LET new == LevelOf(s.pages, t.pages[i].place)
                  was == LevelOf(old.pages, t.pages[i].place)
              IN IF was # 0 /\ new > was THEN new ELSE t.pages[i].level]
           pages == [i \in DOMAIN t.pages |-> [t.pages[i] EXCEPT !.level = level[i]]]
<1>1. s.pages \in Seq(Pages) /\ t.pages \in Seq(Pages) /\ old.pages \in Seq(Pages)
  BY DEF Terrains
<1>2. \A i \in DOMAIN t.pages : t.pages[i].level \in Levels
  BY <1>1, PageTypes
<1>3. \A place : /\ LevelOf(s.pages, place) \in Levels \cup {0}
                 /\ LevelOf(old.pages, place) \in Levels \cup {0}
  BY <1>1, LevelOfTypes
<1>4. \A n, m \in Levels \cup {0} : m # 0 /\ n > m => n \in Levels
  BY ConstantsAssumption
<1>5. level \in [DOMAIN t.pages -> Levels]
  BY <1>2, <1>3, <1>4
<1>6. pages \in Seq(Pages)
  BY <1>1, <1>5, RelevelTypes
<1>7. WithDeltas(s, t, old) = IF old.gen # s.gen THEN t ELSE [t EXCEPT !.pages = pages]
  BY DEF WithDeltas
<1> HIDE DEF pages
<1>8. QED
  BY <1>6, <1>7 DEF Terrains

\* What the poller queues for the renderer is a terrain.
LEMMA QueueTypes ==
    ASSUME NEW s \in Terrains, NEW t \in Terrains, NEW old \in Terrains
    PROVE  Queue(s, t, old) \in Terrains
<1> DEFINE queued == \/ old.gen # s.gen \/ old.cov # s.cov
                     \/ Len(old.pages) # Len(s.pages)
           view == IF queued /\ Newer(s, t) THEN Rendered(s, t) ELSE t
<1>1. view \in Terrains
  BY RenderedTypes
<1>2. Queue(s, t, old) = WithDeltas(s, view, old)
  BY DEF Queue
<1> HIDE DEF view
<1>3. QED
  BY <1>1, <1>2, WithDeltasTypes

-----------------------------------------------------------------------------
(***************************************************************************)
(* Types, with what has been pulled: the numbers of the source and of the  *)
(* manifest are naturals, the viewer knows no revision that is not yet.    *)
(***************************************************************************)
Numbered ==
    /\ TypeOK
    /\ manifest.revision \in 0..revision
    /\ manifest.gen \in Nat /\ manifest.cov \in Nat
    /\ sourceGen \in Nat

\* Published terrain.
LEMMA PublishedTypes ==
    ASSUME TypeOK, NEW gen \in DOMAIN Snapshots, NEW cov \in DOMAIN Snapshots[gen],
           NEW level \in [Places -> Levels]
    PROVE  LET places == Snapshots[gen][cov]
               page(i) == [place |-> places[i], mesh |-> MeshGen(places[i], gen),
                           level |-> level[places[i]]]
           IN [i \in DOMAIN places |-> KeepFiner(page(i))] \in Seq(Pages)
<1> DEFINE places == Snapshots[gen][cov]
           page(i) == [place |-> places[i], mesh |-> MeshGen(places[i], gen),
                       level |-> level[places[i]]]
           new == [i \in DOMAIN places |-> KeepFiner(page(i))]
<1>1. places \in Seq(Places) /\ gen \in 1..Len(Snapshots)
  BY ConstantsAssumption
<1> HIDE DEF places
<1>2. source.pages \in Seq(Pages)
  BY DEF TypeOK, Terrains
<1>3. \A i \in DOMAIN places : page(i) \in Pages
  <2> TAKE i \in DOMAIN places
  <2>1. places[i] \in Places
    BY <1>1
  <2>2. MeshGen(places[i], gen) \in 0..Len(Snapshots)
    BY <1>1, ConstantsAssumption DEF MeshGen
  <2>3. QED
    BY <2>1, <2>2 DEF Pages
<1>4. \A p \in Pages : KeepFiner(p) \in Pages
  <2> TAKE p \in Pages
  <2>1. LevelOf(source.pages, p.place) \in Levels \cup {0}
    BY <1>2, LevelOfTypes
  <2>2. p.level \in Levels /\ Levels \subseteq Nat \ {0}
    BY ConstantsAssumption DEF Pages
  <2>3. QED
    BY <2>1, <2>2 DEF KeepFiner, Pages
<1>5. \A i \in DOMAIN places : KeepFiner(page(i)) \in Pages
  BY <1>3, <1>4
<1> HIDE DEF page
<1>6. DOMAIN places = 1..Len(places) /\ Len(places) \in Nat
  BY <1>1
<1>7. new \in [1..Len(places) -> Pages]
  BY <1>5, <1>6
<1> HIDE DEF new
<1>8. new \in Seq(Pages)
  BY <1>6, <1>7, SeqDef
<1>9. QED
  BY <1>8 DEF new, places, page

\* The types and revisions hold at the start.
LEMMA NumberedInit == Init => Numbered
<1> SUFFICES ASSUME Init PROVE Numbered
  OBVIOUS
<1>1. {source, previous, pending, sent, shown} \subseteq Terrains
  BY NoTerrainTypes DEF Init
<1>2. /\ manifest.pages = <<>> /\ manifest.gen = 0 /\ manifest.cov = 0
      /\ manifest.revision = 0 /\ got = <<>> /\ cache = {}
  BY DEF Init, NoManifest
<1>3. clear \in BOOLEAN /\ refresh \in BOOLEAN
  BY DEF Init
<1>4. /\ revision = 0 /\ previousRevision = 0 /\ sourceGen = 0 /\ generation = 0
      /\ failures = 0 /\ pc = "sleep"
  BY DEF Init
<1>5. QED
  BY <1>1, <1>2, <1>3, <1>4, NoTerrainTypes DEF Numbered, TypeOK

\* A new snapshot of the source keeps types and revisions.
LEMMA SetSnapshotTypes == Numbered /\ SetSnapshot => Numbered'
<1> SUFFICES ASSUME Numbered, SetSnapshot PROVE Numbered'
  OBVIOUS
<1>1. PICK gen \in {source.gen, source.gen + 1} :
        /\ gen \in DOMAIN Snapshots
        /\ LET cov == IF gen = source.gen THEN source.cov + 1 ELSE 1 IN
           /\ cov \in DOMAIN Snapshots[gen]
           /\ \E level \in [Places -> Levels] :
               LET places == Snapshots[gen][cov]
                   page(i) == [place |-> places[i], mesh |-> MeshGen(places[i], gen),
                               level |-> level[places[i]]]
               IN source' = [gen |-> gen, cov |-> cov,
                             pages |-> [i \in DOMAIN places |-> KeepFiner(page(i))]]
  BY DEF SetSnapshot
<1>2. PICK cov, new : new \in Seq(Pages) /\ cov \in Nat
                      /\ source' = [gen |-> gen, cov |-> cov, pages |-> new]
  <2> DEFINE cov == IF gen = source.gen THEN source.cov + 1 ELSE 1
  <2>1. source.cov \in Nat
    BY DEF Numbered, TypeOK, Terrains
  <2>2. cov \in Nat /\ cov \in DOMAIN Snapshots[gen]
    BY <1>1, <2>1
  <2> HIDE DEF cov
  <2>3. PICK level \in [Places -> Levels] :
          LET places == Snapshots[gen][cov]
              page(i) == [place |-> places[i], mesh |-> MeshGen(places[i], gen),
                          level |-> level[places[i]]]
          IN source' = [gen |-> gen, cov |-> cov,
                        pages |-> [i \in DOMAIN places |-> KeepFiner(page(i))]]
    BY <1>1 DEF cov
  <2>4. LET places == Snapshots[gen][cov]
            page(i) == [place |-> places[i], mesh |-> MeshGen(places[i], gen),
                        level |-> level[places[i]]]
        IN [i \in DOMAIN places |-> KeepFiner(page(i))] \in Seq(Pages)
    BY <1>1, <2>2, PublishedTypes DEF Numbered
  <2>5. QED
    BY <2>2, <2>3, <2>4
<1>3. gen \in Nat
  BY DEF Numbered, TypeOK, Terrains
<1>4. source' \in Terrains
  BY <1>2, <1>3 DEF Terrains
<1>5. revision' = revision + 1
  BY DEF SetSnapshot
<1>6. QED
  BY <1>4, <1>5 DEF SetSnapshot, Numbered, TypeOK, pollVars, renderVars

\* So does a texture update of the source,
LEMMA ApplyTextureTypes == Numbered /\ ApplyTexture => Numbered'
<1> SUFFICES ASSUME Numbered, ApplyTexture PROVE Numbered'
  OBVIOUS
<1>1. PICK i \in DOMAIN source.pages, level \in Levels :
        source' = [source EXCEPT !.pages[i].level = level]
  BY DEF ApplyTexture
<1>2. source.pages \in Seq(Pages) /\ source \in Terrains
  BY DEF Numbered, TypeOK, Terrains
<1> DEFINE new == [source.pages EXCEPT ![i] = [source.pages[i] EXCEPT !.level = level]]
<1>3. source.pages[i] \in Pages
  BY <1>2
<1>4. [source.pages[i] EXCEPT !.level = level] \in Pages
  BY <1>3 DEF Pages
<1>5. new \in Seq(Pages)
  BY <1>2, <1>4
<1>6. source' = [source EXCEPT !.pages = new]
  BY <1>1
<1> HIDE DEF new
<1>7. source' \in Terrains
  BY <1>2, <1>5, <1>6 DEF Terrains
<1>8. revision' = revision + 1
  BY DEF ApplyTexture
<1>9. QED
  BY <1>7, <1>8 DEF ApplyTexture, Numbered, TypeOK, pollVars, renderVars

\* and a request that fails.
LEMMA FailedTypes ==
    ASSUME Numbered, NEW known \in 0..revision, Failed(known), UNCHANGED <<source, revision>>,
           refresh' \in BOOLEAN
    PROVE  Numbered'
<1>1. revision \in Nat /\ failures' \in 0..3
  BY DEF Failed, Numbered, TypeOK
<1>2. /\ {source', previous', pending', sent', shown'} \subseteq Terrains
      /\ cache' \subseteq Pages /\ clear' \in BOOLEAN /\ previousRevision' \in 0..revision'
  <2>1. {source', sent', shown'} \subseteq Terrains
    BY DEF Failed, Numbered, TypeOK, renderVars
  <2>2. CASE failures' = 3
    <3>1. clear' \in BOOLEAN
      BY <2>2 DEF Failed
    <3>2. previous' = NoTerrain /\ pending' = NoTerrain /\ cache' = {}
          /\ previousRevision' = 0 /\ revision' = revision
      BY <2>2 DEF Failed
    <3>3. QED
      BY <1>1, <2>1, <3>1, <3>2, NoTerrainTypes
  <2>3. CASE failures' # 3
    <3>1. clear' \in BOOLEAN
      BY <2>3 DEF Failed, Numbered, TypeOK
    <3>2. previous' = previous /\ pending' = pending /\ cache' = cache
          /\ previousRevision' = known
      BY <2>3 DEF Failed
    <3>3. QED
      BY <2>1, <3>1, <3>2 DEF Numbered, TypeOK
  <2>4. QED
    BY <2>2, <2>3
<1>3. manifest' = NoManifest /\ got' = <<>> /\ pc' = "sleep"
  BY DEF Failed, Sleep
<1>4. QED
  BY <1>1, <1>2, <1>3, NoTerrainTypes DEF Failed, Numbered, TypeOK, NoManifest

-----------------------------------------------------------------------------
(***************************************************************************)
(* The pages pulled so far are the manifest's first pages: a cached page   *)
(* with the key of the wanted one is that page, and a served one is taken  *)
(* only when it is.                                                        *)
(***************************************************************************)
PulledOK ==
    /\ Len(got) <= Len(manifest.pages)
    /\ \A i \in 1..Len(got) : got[i] = manifest.pages[i]

Pulling == Numbered /\ PulledOK

\* Nothing pulled is a beginning of everything.
LEMMA NothingPulled ==
    ASSUME manifest.pages \in Seq(Pages), got = <<>>
    PROVE  PulledOK
<1>1. Len(got) = 0 /\ Len(manifest.pages) \in Nat
  OBVIOUS
<1>2. QED
  BY <1>1 DEF PulledOK

\* After a failed request nothing is pulled any more.
LEMMA FailedPulling ==
    ASSUME Numbered, NEW known \in 0..revision, Failed(known), UNCHANGED <<source, revision>>,
           refresh' \in BOOLEAN
    PROVE  Pulling'
<1>1. Numbered'
  BY FailedTypes
<1>2. manifest'.pages = <<>> /\ got' = <<>>
  BY DEF Failed, Sleep, NoManifest
<1>3. Len(<<>>) = 0
  OBVIOUS
<1>4. PulledOK'
  BY <1>2, <1>3 DEF PulledOK
<1>5. QED
  BY <1>1, <1>4 DEF Pulling

\* The revision the poller knows is one the source has published.
LEMMA KnownRevision == Numbered => Known \in 0..revision
BY DEF Numbered, TypeOK, Known

\* The source cannot be asked for a manifest: the pull ends.
LEMMA PollFailsPulls == Pulling /\ PollFails => Pulling'
<1> SUFFICES ASSUME Pulling, PollFails PROVE Pulling'
  OBVIOUS
<1>1. Known \in 0..revision /\ Failed(Known) /\ UNCHANGED <<source, revision>>
  BY KnownRevision DEF Pulling, PollFails, Failed, sourceVars
<1>2. refresh' \in BOOLEAN
  BY DEF PollFails
<1>3. QED
  BY <1>1, <1>2, FailedPulling DEF Pulling

\* A page cannot be pulled: the pull ends.
LEMMA PullFailsPulls == Pulling /\ PullFails => Pulling'
<1> SUFFICES ASSUME Pulling, PullFails PROVE Pulling'
  OBVIOUS
<1>1. Failed(previousRevision) /\ UNCHANGED <<source, revision>>
  BY DEF PullFails, Failed, sourceVars
<1>2. previousRevision \in 0..revision /\ refresh' \in BOOLEAN
  BY DEF PullFails, Pulling, Numbered, TypeOK
<1>3. QED
  BY <1>1, <1>2, FailedPulling DEF Pulling

\* The source has nothing new: no pull begins.
LEMMA NothingNewPulls == Pulling /\ NothingNew => Pulling'
<1> SUFFICES ASSUME Pulling, NothingNew PROVE Pulling'
  OBVIOUS
<1>1. clear' \in BOOLEAN /\ refresh' \in BOOLEAN
  BY DEF NothingNew, Pulling, Numbered, TypeOK
<1>2. failures' = 0
      /\ UNCHANGED <<source, revision, pc, manifest, got, cache, previous, previousRevision,
                     sourceGen, generation, pending, sent, shown>>
  BY DEF NothingNew, sourceVars, renderVars
<1>3. QED
  BY <1>1, <1>2 DEF Pulling, Numbered, TypeOK, PulledOK

\* A manifest is read: a pull begins with no page.
LEMMA ReadManifestPulls == Pulling /\ got = <<>> /\ ReadManifest => Pulling'
<1> SUFFICES ASSUME Pulling, got = <<>>, ReadManifest PROVE Pulling'
  OBVIOUS
<1>1. /\ manifest' = [revision |-> revision, gen |-> source.gen, cov |-> source.cov,
                      pages |-> source.pages]
      /\ previousRevision' = Known /\ cache' \subseteq cache /\ got' = got
      /\ UNCHANGED <<source, revision>>
  BY DEF ReadManifest, sourceVars
<1>2. source \in Terrains /\ revision \in Nat
  BY DEF Pulling, Numbered, TypeOK
<1>3. /\ manifest'.revision = revision' /\ manifest'.gen \in Nat /\ manifest'.cov \in Nat
      /\ manifest'.pages \in Seq(Pages)
  BY <1>1, <1>2 DEF Terrains
<1>4. previousRevision' \in 0..revision'
  BY <1>1, KnownRevision DEF Pulling
<1>5. revision' \in 0..revision'
  BY <1>1, <1>2
<1>6. Numbered'
  <2>1. clear' \in BOOLEAN /\ refresh' \in BOOLEAN
    BY DEF ReadManifest, Pulling, Numbered, TypeOK
  <2>2. /\ pc' = "pull" /\ failures' = 0
        /\ UNCHANGED <<previous, sourceGen, generation, pending, sent, shown>>
    BY DEF ReadManifest, renderVars
  <2>3. QED
    BY <1>1, <1>3, <1>4, <1>5, <2>1, <2>2 DEF Pulling, Numbered, TypeOK
<1>7. Len(got') = 0 /\ Len(manifest'.pages) \in Nat
  BY <1>1, <1>3
<1>8. PulledOK'
  BY <1>7 DEF PulledOK
<1>9. QED
  BY <1>6, <1>8 DEF Pulling

\* The next page is pulled: the one the manifest names, or the pull ends.
LEMMA PullPagePulls == Pulling /\ PullPage => Pulling'
<1> SUFFICES ASSUME Pulling, PullPage PROVE Pulling'
  OBVIOUS
<1>1. /\ manifest.pages \in Seq(Pages) /\ got \in Seq(Pages) /\ cache \subseteq Pages
      /\ Len(got) < Len(manifest.pages) /\ Len(got) \in Nat /\ Len(manifest.pages) \in Nat
  BY DEF Pulling, Numbered, TypeOK, PullPage
<1>2. Wanted \in Pages
  BY <1>1 DEF Wanted
<1>3. Cached(Wanted) \subseteq {Wanted}
  <2>1. \A p \in Pages : CacheKey(p) = CacheKey(Wanted) => p = Wanted
    BY <1>2 DEF CacheKey, Pages
  <2>2. QED
    BY <1>1, <2>1 DEF Cached
<1>4. got' = Append(got, Wanted) /\ cache' = cache \cup {Wanted}
  <2> DEFINE page == IF Cached(Wanted) # {} THEN Cached(Wanted) ELSE Served(Len(got) + 1)
  <2>1. /\ page # {} /\ (Cached(Wanted) = {} => page = {Wanted})
        /\ got' = Append(got, CHOOSE p \in page : TRUE) /\ cache' = cache \cup page
    BY DEF PullPage
  <2>2. page = {Wanted}
    BY <1>3, <2>1
  <2> HIDE DEF page
  <2>3. (CHOOSE p \in {Wanted} : TRUE) = Wanted
    OBVIOUS
  <2>4. QED
    BY <2>1, <2>2, <2>3
<1>5. /\ got' \in Seq(Pages) /\ Len(got') = Len(got) + 1
      /\ \A i \in 1..Len(got) : got'[i] = got[i]
      /\ got'[Len(got) + 1] = Wanted
  BY <1>1, <1>2, <1>4, AppendProperties
<1>6. manifest' = manifest
  BY DEF PullPage
<1>7. PulledOK'
  <2>1. Len(got') <= Len(manifest.pages)
    BY <1>1, <1>5
  <2>2. \A i \in 1..Len(got') : got'[i] = manifest.pages[i]
    BY <1>1, <1>5 DEF Wanted, Pulling, PulledOK
  <2>3. QED
    BY <1>6, <2>1, <2>2 DEF PulledOK
<1>8. Numbered'
  BY <1>2, <1>4, <1>5 DEF PullPage, Pulling, Numbered, TypeOK, sourceVars, renderVars
<1>9. QED
  BY <1>7, <1>8 DEF Pulling

\* All pages are there: the snapshot is queued and the pull is over.
LEMMA AssemblePulls == Pulling /\ Assemble => Pulling'
<1> SUFFICES ASSUME Pulling, Assemble PROVE Pulling'
  OBVIOUS
<1>1. PICK gen : /\ previous' = [gen |-> gen, cov |-> manifest.cov, pages |-> got]
                 /\ gen \in {previous.gen, generation + 1}
                 /\ generation' \in {generation, gen}
                 /\ generation' # generation => gen = generation + 1
  <2> DEFINE gen == IF SameGeometry \/ Expanded THEN previous.gen ELSE generation + 1
  <2>1. /\ previous' = [gen |-> gen, cov |-> manifest.cov, pages |-> got]
        /\ generation' = IF SameGeometry \/ Expanded THEN generation ELSE gen
    BY DEF Assemble
  <2>2. QED
    BY <2>1
<1>2. previous.gen \in Nat /\ generation \in Nat /\ manifest.cov \in Nat /\ got \in Seq(Pages)
  BY DEF Pulling, Numbered, TypeOK, Terrains
<1>3. previous' \in Terrains /\ generation' \in Nat
  BY <1>1, <1>2 DEF Terrains
<1>4. /\ manifest' = NoManifest /\ got' = <<>> /\ pc' = "sleep"
      /\ pending' = previous' /\ previousRevision' = manifest.revision
      /\ sourceGen' = manifest.gen
      /\ UNCHANGED <<source, revision, cache, failures, clear, refresh, sent, shown>>
  BY DEF Assemble, Sleep, sourceVars, renderVars
<1>5. /\ manifest'.pages = <<>> /\ manifest'.gen = 0 /\ manifest'.cov = 0
      /\ manifest'.revision = 0
  BY <1>4 DEF NoManifest
<1>6. previousRevision' \in 0..revision' /\ sourceGen' \in Nat /\ 0 \in 0..revision'
  BY <1>4 DEF Pulling, Numbered, TypeOK
<1>7. Numbered'
  BY <1>3, <1>4, <1>5, <1>6, NoTerrainTypes DEF Pulling, Numbered, TypeOK
<1>8. Len(<<>>) = 0
  OBVIOUS
<1>9. PulledOK'
  BY <1>4, <1>5, <1>8 DEF PulledOK
<1>10. QED
  BY <1>7, <1>9 DEF Pulling

\* The render thread takes the queued snapshot and leaves the pull alone.
LEMMA PreRenderPulls == Pulling /\ PreRender => Pulling'
<1> SUFFICES ASSUME Pulling, PreRender PROVE Pulling'
  OBVIOUS
<1>1. {pending, sent, shown, NoTerrain} \subseteq Terrains
  BY NoTerrainTypes DEF Pulling, Numbered, TypeOK
<1>2. sent' \in Terrains /\ shown' \in Terrains
  <2> DEFINE left == IF clear THEN NoTerrain ELSE sent
             view == IF clear THEN NoTerrain ELSE shown
  <2>1. IF pending = NoTerrain
        THEN sent' = left /\ shown' = view
        ELSE sent' = pending /\ shown' = Queue(pending, view, left)
    BY DEF PreRender
  <2>2. left \in Terrains /\ view \in Terrains
    BY <1>1
  <2> HIDE DEF left, view
  <2>3. QED
    BY <1>1, <2>1, <2>2, QueueTypes
<1>3. QED
  BY <1>1, <1>2 DEF PreRender, Pulling, Numbered, TypeOK, PulledOK, sourceVars, pollVars

\* So does the loss of the scene graph.
LEMMA InvalidatePulls == Pulling /\ Invalidate => Pulling'
BY NoTerrainTypes DEF Invalidate, Pulling, Numbered, TypeOK, PulledOK, sourceVars, pollVars

\* A sleeping viewer has pulled nothing.
Idle == pc = "sleep" => got = <<>>

\* Every step keeps what has been pulled.
LEMMA PullingStep == Pulling /\ Idle /\ [Next]_vars => Pulling' /\ Idle'
<1> SUFFICES ASSUME Pulling, Idle, [Next]_vars PROVE Pulling' /\ Idle'
  OBVIOUS
<1>1. CASE SetSnapshot
  <2>1. Numbered'
    BY <1>1, SetSnapshotTypes DEF Pulling
  <2>2. QED
    BY <1>1, <2>1 DEF SetSnapshot, pollVars, Pulling, PulledOK, Idle
<1>2. CASE ApplyTexture
  <2>1. Numbered'
    BY <1>2, ApplyTextureTypes DEF Pulling
  <2>2. QED
    BY <1>2, <2>1 DEF ApplyTexture, pollVars, Pulling, PulledOK, Idle
<1>3. CASE PollFails
  BY <1>3, PollFailsPulls DEF PollFails, Failed, Sleep, Idle
<1>4. CASE NothingNew
  BY <1>4, NothingNewPulls DEF NothingNew, Idle
<1>5. CASE ReadManifest
  BY <1>5, ReadManifestPulls DEF ReadManifest, Idle
<1>6. CASE PullPage
  BY <1>6, PullPagePulls DEF PullPage, Idle
<1>7. CASE PullFails
  BY <1>7, PullFailsPulls DEF PullFails, Failed, Sleep, Idle
<1>8. CASE Assemble
  BY <1>8, AssemblePulls DEF Assemble, Sleep, Idle
<1>9. CASE PreRender
  BY <1>9, PreRenderPulls DEF PreRender, pollVars, Idle
<1>10. CASE Invalidate
  BY <1>10, InvalidatePulls DEF Invalidate, pollVars, Idle
<1>11. CASE UNCHANGED vars
  <2>1. /\ clear' = clear /\ refresh' = refresh
        /\ UNCHANGED <<source, revision, pc, manifest, got, cache, previous, previousRevision,
                       sourceGen, generation, failures, pending, sent, shown>>
    BY <1>11 DEF vars, sourceVars, pollVars, renderVars
  <2>2. clear' \in BOOLEAN /\ refresh' \in BOOLEAN
    BY <2>1 DEF Pulling, Numbered, TypeOK
  <2>3. QED
    BY <2>1, <2>2 DEF Pulling, Numbered, TypeOK, PulledOK, Idle
<1>12. QED
  BY <1>1, <1>2, <1>3, <1>4, <1>5, <1>6, <1>7, <1>8, <1>9, <1>10, <1>11 DEF Next, PollStep

\* Nothing is pulled at the start.
LEMMA PullingInit == Init => Pulling /\ Idle
<1> SUFFICES ASSUME Init PROVE Pulling /\ Idle
  OBVIOUS
<1>1. Numbered
  BY NumberedInit
<1>2. got = <<>> /\ manifest.pages = <<>>
  BY DEF Init, NoManifest
<1>3. PulledOK
  BY <1>2, NoTerrainTypes, NothingPulled
<1>4. QED
  BY <1>1, <1>2, <1>3 DEF Pulling, Idle

\* A beginning, as the property states it.
LEMMA PulledIsPrefix == Pulling => AssembledWhole
<1> SUFFICES ASSUME Pulling PROVE IsPrefix(got, manifest.pages)
  BY DEF Pulling, Numbered, AssembledWhole
<1> DEFINE n == Len(got)
           all == manifest.pages
<1>1. got \in Seq(Pages) /\ all \in Seq(Pages) /\ n \in Nat /\ Len(all) \in Nat /\ n <= Len(all)
  BY DEF Pulling, Numbered, TypeOK, PulledOK
<1>2. \A i \in 1..n : got[i] = all[i]
  BY DEF Pulling, PulledOK
<1> HIDE DEF n, all
<1>3. SubSeq(got, 1, n) = [i \in 1..n |-> got[i]] /\ SubSeq(all, 1, n) = [i \in 1..n |-> all[i]]
  BY <1>1
<1>4. SubSeq(got, 1, n) = SubSeq(all, 1, n)
  BY <1>2, <1>3
<1>5. QED
  BY <1>1, <1>4 DEF IsPrefix, n, all

(***************************************************************************)
(* What is assembled is a revision of the source, whole: while pages are   *)
(* pulled one by one and the workers publish, the pages pulled are those   *)
(* of one manifest (DynamicTerrainGui.cc:166-200).                         *)
(***************************************************************************)
THEOREM SnapshotsAreWhole == Spec => []AssembledWhole
<1>1. Init => Pulling /\ Idle
  BY PullingInit
<1>2. Pulling /\ Idle /\ [Next]_vars => (Pulling /\ Idle)'
  BY PullingStep
<1>3. Pulling => AssembledWhole
  BY PulledIsPrefix
<1>4. QED
  BY <1>1, <1>2, <1>3, PTL DEF Spec

-----------------------------------------------------------------------------
(***************************************************************************)
(* Detail.  The pages of the source are at places that differ, so the      *)
(* level of a place is the level of its page.                              *)
(***************************************************************************)
PlacesDiffer ==
    \A i, j \in DOMAIN source.pages :
       source.pages[i].place = source.pages[j].place => i = j

\* What SetSnapshot makes of the pages of a snapshot.
Published(gen, cov) ==
    LET places == Snapshots[gen][cov] IN
    /\ source'.gen = gen /\ source'.cov = cov
    /\ gen > source.gen \/ (gen = source.gen /\ cov > source.cov)
    /\ DOMAIN source'.pages = DOMAIN places
    /\ \A j \in DOMAIN places :
          /\ source'.pages[j].place = places[j]
          /\ source'.pages[j].mesh = MeshGen(places[j], gen)
          /\ LevelOf(source.pages, places[j]) <= source'.pages[j].level

\* It publishes the next coverage of the generation or the next generation.
LEMMA PublishedPages ==
    ASSUME Numbered, SetSnapshot
    PROVE  \E gen \in DOMAIN Snapshots : \E cov \in DOMAIN Snapshots[gen] : Published(gen, cov)
<1>1. PICK gen \in {source.gen, source.gen + 1} :
        /\ gen \in DOMAIN Snapshots
        /\ LET cov == IF gen = source.gen THEN source.cov + 1 ELSE 1 IN
           /\ cov \in DOMAIN Snapshots[gen]
           /\ \E level \in [Places -> Levels] :
               LET places == Snapshots[gen][cov]
                   page(i) == [place |-> places[i], mesh |-> MeshGen(places[i], gen),
                               level |-> level[places[i]]]
               IN source' = [gen |-> gen, cov |-> cov,
                             pages |-> [i \in DOMAIN places |-> KeepFiner(page(i))]]
  BY DEF SetSnapshot
<1>2. PICK cov \in DOMAIN Snapshots[gen] :
        /\ cov = IF gen = source.gen THEN source.cov + 1 ELSE 1
        /\ \E level \in [Places -> Levels] :
               LET places == Snapshots[gen][cov]
                   page(i) == [place |-> places[i], mesh |-> MeshGen(places[i], gen),
                               level |-> level[places[i]]]
               IN source' = [gen |-> gen, cov |-> cov,
                             pages |-> [i \in DOMAIN places |-> KeepFiner(page(i))]]
  BY <1>1
<1>3. PICK level \in [Places -> Levels] :
               LET places == Snapshots[gen][cov]
                   page(i) == [place |-> places[i], mesh |-> MeshGen(places[i], gen),
                               level |-> level[places[i]]]
               IN source' = [gen |-> gen, cov |-> cov,
                             pages |-> [i \in DOMAIN places |-> KeepFiner(page(i))]]
  BY <1>2
<1> DEFINE places == Snapshots[gen][cov]
           page(i) == [place |-> places[i], mesh |-> MeshGen(places[i], gen),
                       level |-> level[places[i]]]
<1>4. /\ DOMAIN source'.pages = DOMAIN places
      /\ source'.gen = gen /\ source'.cov = cov
      /\ \A j \in DOMAIN places : source'.pages[j] = KeepFiner(page(j))
  BY <1>3
<1>5. places \in Seq(Places)
  BY <1>1, ConstantsAssumption
<1> HIDE DEF places
<1>6. source.pages \in Seq(Pages) /\ source.gen \in Nat /\ source.cov \in Nat
  BY DEF Numbered, TypeOK, Terrains
<1>7. \A j \in DOMAIN places :
         /\ source'.pages[j].place = places[j]
         /\ source'.pages[j].mesh = MeshGen(places[j], gen)
         /\ LevelOf(source.pages, places[j]) <= source'.pages[j].level
  <2> TAKE j \in DOMAIN places
  <2>1. source'.pages[j] = [page(j) EXCEPT !.level =
           IF LevelOf(source.pages, places[j]) > page(j).level
           THEN LevelOf(source.pages, places[j]) ELSE page(j).level]
    BY <1>4 DEF KeepFiner
  <2>2. Levels \cup {0} \subseteq Nat
    BY ConstantsAssumption
  <2>3. LevelOf(source.pages, places[j]) \in Levels \cup {0}
    BY <1>6, LevelOfTypes
  <2>4. places[j] \in Places
    BY <1>5
  <2>5. page(j).level \in Levels
    BY <2>4
  <2>6. QED
    BY <2>1, <2>2, <2>3, <2>5
<1>8. gen > source.gen \/ (gen = source.gen /\ cov > source.cov)
  BY <1>2, <1>6
<1>9. Published(gen, cov)
  BY <1>4, <1>7, <1>8 DEF Published, places
<1>10. QED
  BY <1>1, <1>9

\* Its places differ, and none gets coarser.
LEMMA SnapshotPages ==
    ASSUME Numbered, SetSnapshot
    PROVE  /\ PlacesDiffer'
           /\ \A j \in DOMAIN source'.pages :
                LevelOf(source.pages, source'.pages[j].place) <= source'.pages[j].level
<1>1. PICK gen \in DOMAIN Snapshots : \E cov \in DOMAIN Snapshots[gen] : Published(gen, cov)
  BY PublishedPages
<1>2. PICK cov \in DOMAIN Snapshots[gen] : Published(gen, cov)
  BY <1>1
<1> DEFINE places == Snapshots[gen][cov]
<1>3. IsInjective(places)
  BY ConstantsAssumption
<1>4. /\ DOMAIN source'.pages = DOMAIN places
      /\ \A j \in DOMAIN places :
            /\ source'.pages[j].place = places[j]
            /\ LevelOf(source.pages, places[j]) <= source'.pages[j].level
  BY <1>2 DEF Published
<1> HIDE DEF places
<1>5. PlacesDiffer'
  BY <1>3, <1>4 DEF PlacesDiffer, IsInjective
<1>6. QED
  BY <1>4, <1>5

\* A place in two successive snapshots keeps its level or gets a finer one.
LEMMA SetSnapshotKeeps ==
    ASSUME Numbered, PlacesDiffer, SetSnapshot,
           NEW i \in DOMAIN source.pages, NEW j \in DOMAIN source'.pages,
           source.pages[i].place = source'.pages[j].place
    PROVE  source.pages[i].level <= source'.pages[j].level
<1>1. source.pages \in Seq(Pages)
  BY DEF Numbered, TypeOK, Terrains
<1>2. LevelOf(source.pages, source.pages[i].place) = source.pages[i].level
  BY <1>1, LevelOfPlace DEF PlacesDiffer
<1>3. QED
  BY <1>2, SnapshotPages

\* An update changes the level of one page, upwards.
LEMMA UpdatedPages ==
    ASSUME Numbered, ApplyTexture
    PROVE  /\ source'.gen = source.gen /\ source'.cov = source.cov
           /\ DOMAIN source'.pages = DOMAIN source.pages
           /\ \A j \in DOMAIN source.pages :
                /\ source'.pages[j].place = source.pages[j].place
                /\ source'.pages[j].mesh = source.pages[j].mesh
                /\ source.pages[j].level <= source'.pages[j].level
<1>1. PICK i \in DOMAIN source.pages, level \in Levels :
        /\ level >= source.pages[i].level
        /\ source' = [source EXCEPT !.pages[i].level = level]
  BY DEF ApplyTexture
<1>2. source.pages \in Seq(Pages) /\ source \in Terrains
  BY DEF Numbered, TypeOK, Terrains
<1> DEFINE new == [source.pages EXCEPT ![i] = [source.pages[i] EXCEPT !.level = level]]
<1>3. source'.pages = new /\ source'.gen = source.gen /\ source'.cov = source.cov
  BY <1>1, <1>2 DEF Terrains
<1>4. \A j \in DOMAIN source.pages : source.pages[j] \in Pages
  BY <1>2
<1>5. \A j \in DOMAIN source.pages :
         /\ new[j].place = source.pages[j].place
         /\ new[j].mesh = source.pages[j].mesh
         /\ source.pages[j].level <= new[j].level
  <2> TAKE j \in DOMAIN source.pages
  <2>1. source.pages[j] \in Pages /\ source.pages[j].level \in Nat
    BY <1>4, ConstantsAssumption DEF Pages
  <2>2. new[j] = IF j = i THEN [source.pages[i] EXCEPT !.level = level] ELSE source.pages[j]
    OBVIOUS
  <2>3. CASE j = i
    BY <1>1, <2>1, <2>2, <2>3 DEF Pages
  <2>4. CASE j # i
    BY <2>1, <2>2, <2>4
  <2>5. QED
    BY <2>3, <2>4
<1>6. DOMAIN new = DOMAIN source.pages
  OBVIOUS
<1> HIDE DEF new
<1>7. QED
  BY <1>3, <1>5, <1>6

\* The places of the source go on to differ, whatever changes it.
LEMMA PlacesStep == Numbered /\ PlacesDiffer /\ [Next]_vars => PlacesDiffer'
<1> SUFFICES ASSUME Numbered, PlacesDiffer, [Next]_vars PROVE PlacesDiffer'
  OBVIOUS
<1>1. CASE SetSnapshot
  BY <1>1, SnapshotPages
<1>2. CASE ApplyTexture
  BY <1>2, UpdatedPages DEF PlacesDiffer
<1>3. CASE UNCHANGED source
  BY <1>3 DEF PlacesDiffer
<1>4. QED
  BY <1>1, <1>2, <1>3
  DEF Next, PollStep, PollFails, NothingNew, ReadManifest, PullPage, PullFails, Failed,
      Assemble, PreRender, Invalidate, vars, sourceVars

\* No place at the start.
LEMMA PlacesInit == Init => PlacesDiffer
BY DEF Init, PlacesDiffer, NoTerrain

Kept ==
    \A i \in DOMAIN source.pages, j \in DOMAIN source'.pages :
       source.pages[i].place = source'.pages[j].place =>
          source.pages[i].level <= source'.pages[j].level

\* No step takes detail from a place of the source that stays.
LEMMA KeptStep == Numbered /\ PlacesDiffer /\ [Next]_vars => [Kept]_source
<1> SUFFICES ASSUME Numbered, PlacesDiffer, [Next]_vars, source' # source PROVE Kept
  OBVIOUS
<1>1. CASE SetSnapshot
  BY <1>1, SetSnapshotKeeps DEF Kept
<1>2. CASE ApplyTexture
  BY <1>2, UpdatedPages DEF PlacesDiffer, Kept
<1>3. QED
  BY <1>1, <1>2
  DEF Next, PollStep, PollFails, NothingNew, ReadManifest, PullPage, PullFails, Failed,
      Assemble, PreRender, Invalidate, vars, sourceVars

(***************************************************************************)
(* The texture of a place never gets coarser in the source: neither by an  *)
(* update of the refinement nor by a snapshot begun before it              *)
(* (GuiTerrain.cc:201-242).                                                *)
(***************************************************************************)
THEOREM SourceKeepsDetail == Spec => DetailKept
<1>1. Init => (Pulling /\ Idle) /\ PlacesDiffer
  BY PullingInit, PlacesInit
<1>2. (Pulling /\ Idle) /\ PlacesDiffer /\ [Next]_vars => ((Pulling /\ Idle) /\ PlacesDiffer)'
  BY PullingStep, PlacesStep DEF Pulling
<1>3. (Pulling /\ Idle) /\ PlacesDiffer /\ [Next]_vars => [Kept]_source
  BY KeptStep DEF Pulling
<1>4. Spec => [][Kept]_source
  BY <1>1, <1>2, <1>3, PTL DEF Spec
<1>5. QED
  BY <1>4 DEF DetailKept, Kept

-----------------------------------------------------------------------------
(***************************************************************************)
(* The view.  Terrain goes from the source to the poller, from there to    *)
(* the render thread and to its renderer.  Each is at least as far as the  *)
(* next one, by generation and coverage, and of two that are equally far   *)
(* the meshes are the same: that is why queueGuiSnapshot may leave out     *)
(* what it leaves out.                                                     *)
(***************************************************************************)
AtLeast(gen, cov, thanGen, thanCov) == gen > thanGen \/ (gen = thanGen /\ cov >= thanCov)

Follows(s, t) ==
    \/ s.gen > t.gen
    \/ s.gen = t.gen /\ s.cov > t.cov
    \/ s.gen = t.gen /\ s.cov = t.cov /\ MeshesOf(s.pages) = MeshesOf(t.pages)

Distinct(pages) == \A i, j \in DOMAIN pages : pages[i].place = pages[j].place => i = j

\* The generation of a terrain can be told from the names of its meshes.
Signed(gen, pages) ==
    /\ gen # 0 /\ Distinct(pages)
    /\ \A i \in DOMAIN pages : pages[i].mesh \in {0, gen}
    /\ \E i \in DOMAIN pages : pages[i].mesh = gen

Upstream ==
    /\ source # NoTerrain => Signed(source.gen, source.pages)
    /\ pc = "pull" =>
          /\ Signed(manifest.gen, manifest.pages)
          /\ AtLeast(source.gen, source.cov, manifest.gen, manifest.cov)
    /\ previous # NoTerrain =>
          /\ Signed(sourceGen, previous.pages)
          /\ AtLeast(source.gen, source.cov, sourceGen, previous.cov)
    /\ pc = "pull" /\ previous # NoTerrain =>
          AtLeast(manifest.gen, manifest.cov, sourceGen, previous.cov)

Downstream ==
    /\ previous # NoTerrain => previous.gen # 0
    /\ previous.gen <= generation
    /\ pending \in {NoTerrain, previous}
    /\ ~clear => Follows(previous, sent)
    /\ previous = NoTerrain /\ ~clear => sent = NoTerrain
    /\ shown.gen = sent.gen /\ shown.cov = sent.cov
    /\ Distinct(sent.pages) /\ SentIsShown

\* What the render thread was given, and what is shown for it.
Shows(t, s) ==
    /\ t.gen = s.gen /\ t.cov = s.cov
    /\ MeshesOf(t.pages) = MeshesOf(s.pages)
    /\ \A i \in DOMAIN s.pages : t.pages[i].level >= s.pages[i].level

\* Levels, and the lack of one, are numbers.
LEMMA LevelNumbers == Levels \subseteq Nat /\ Levels \cup {0} \subseteq Nat
BY ConstantsAssumption

\* Equal meshes, page by page.
LEMMA MeshesSame ==
    ASSUME NEW a, NEW b
    PROVE  MeshesOf(a) = MeshesOf(b) <=>
              /\ DOMAIN a = DOMAIN b
              /\ \A i \in DOMAIN b : a[i].place = b[i].place /\ a[i].mesh = b[i].mesh
<1>1. DOMAIN MeshesOf(a) = DOMAIN a /\ DOMAIN MeshesOf(b) = DOMAIN b
  BY DEF MeshesOf
<1>2. /\ \A i \in DOMAIN a : MeshesOf(a)[i] = <<a[i].place, a[i].mesh>>
      /\ \A i \in DOMAIN b : MeshesOf(b)[i] = <<b[i].place, b[i].mesh>>
  BY DEF MeshesOf
<1>3. ASSUME MeshesOf(a) = MeshesOf(b), NEW i \in DOMAIN b
      PROVE  a[i].place = b[i].place /\ a[i].mesh = b[i].mesh
  <2>1. <<a[i].place, a[i].mesh>> = <<b[i].place, b[i].mesh>>
    BY <1>1, <1>2, <1>3
  <2>2. QED
    BY <2>1
<1>4. ASSUME DOMAIN a = DOMAIN b,
             \A i \in DOMAIN b : a[i].place = b[i].place /\ a[i].mesh = b[i].mesh
      PROVE  MeshesOf(a) = MeshesOf(b)
  BY <1>4 DEF MeshesOf
<1>5. MeshesOf(a) = MeshesOf(b) => DOMAIN a = DOMAIN b
  BY <1>1
<1>6. QED
  BY <1>3, <1>4, <1>5

\* The level of a page at a place of its own.
LEMMA LevelOfPage ==
    ASSUME NEW pages \in Seq(Pages), Distinct(pages), NEW i \in DOMAIN pages
    PROVE  LevelOf(pages, pages[i].place) = pages[i].level
BY LevelOfPlace DEF Distinct

\* A place that no page is at has no level.
LEMMA LevelOfNone ==
    ASSUME NEW pages, NEW place, \A i \in DOMAIN pages : pages[i].place # place
    PROVE  LevelOf(pages, place) = 0
BY DEF LevelOf, Range

\* What is shown has a level where what was given has one, as fine or finer.
LEMMA LevelsShown ==
    ASSUME NEW s \in Terrains, NEW t \in Terrains, Shows(t, s), Distinct(s.pages), NEW place
    PROVE  /\ LevelOf(t.pages, place) >= LevelOf(s.pages, place)
           /\ LevelOf(t.pages, place) = 0 <=> LevelOf(s.pages, place) = 0
<1>1. s.pages \in Seq(Pages) /\ t.pages \in Seq(Pages)
  BY DEF Terrains
<1>2. /\ DOMAIN t.pages = DOMAIN s.pages
      /\ \A i \in DOMAIN s.pages : t.pages[i].place = s.pages[i].place
  BY MeshesSame DEF Shows
<1>3. Distinct(t.pages)
  BY <1>2 DEF Distinct
<1>4. CASE \E i \in DOMAIN s.pages : s.pages[i].place = place
  <2>1. PICK i \in DOMAIN s.pages : s.pages[i].place = place
    BY <1>4
  <2>2. LevelOf(s.pages, place) = s.pages[i].level
    BY <1>1, <2>1, LevelOfPage
  <2>3. LevelOf(t.pages, place) = t.pages[i].level
    <3>1. i \in DOMAIN t.pages /\ t.pages[i].place = place
      BY <1>2, <2>1
    <3>2. LevelOf(t.pages, t.pages[i].place) = t.pages[i].level
      BY <1>1, <1>3, <3>1, LevelOfPage
    <3>3. QED
      BY <3>1, <3>2
  <2>4. s.pages[i].level \in Levels /\ t.pages[i].level \in Levels
    BY <1>1, <1>2, PageTypes
  <2>5. t.pages[i].level >= s.pages[i].level
    BY DEF Shows
  <2>6. QED
    BY <2>2, <2>3, <2>4, <2>5, ConstantsAssumption
<1>5. CASE \A i \in DOMAIN s.pages : s.pages[i].place # place
  <2>1. LevelOf(s.pages, place) = 0
    BY <1>5, LevelOfNone
  <2>2. \A i \in DOMAIN t.pages : t.pages[i].place # place
    BY <1>2, <1>5
  <2>3. LevelOf(t.pages, place) = 0
    BY <2>2, LevelOfNone
  <2>4. QED
    BY <2>1, <2>3
<1>6. QED
  BY <1>4, <1>5

\* The pages that the renderer takes over: those of the snapshot, some finer.
LEMMA RenderedPages ==
    ASSUME NEW s \in Terrains, NEW t
    PROVE  /\ Rendered(s, t).gen = s.gen /\ Rendered(s, t).cov = s.cov
           /\ DOMAIN Rendered(s, t).pages = DOMAIN s.pages
           /\ \A i \in DOMAIN s.pages :
                /\ Rendered(s, t).pages[i].place = s.pages[i].place
                /\ Rendered(s, t).pages[i].mesh = s.pages[i].mesh
                /\ LET old == LevelOf(t.pages, s.pages[i].place) IN
                   Rendered(s, t).pages[i].level =
                      IF old # 0 /\ (s.gen = t.gen \/ old > s.pages[i].level) THEN old
                      ELSE s.pages[i].level
<1> DEFINE level(i) == LET old == LevelOf(t.pages, s.pages[i].place) IN
                       IF old # 0 /\ (s.gen = t.gen \/ old > s.pages[i].level) THEN old
                       ELSE s.pages[i].level
           new == [i \in DOMAIN s.pages |-> [s.pages[i] EXCEPT !.level = level(i)]]
<1>1. Rendered(s, t) = [s EXCEPT !.pages = new]
  BY DEF Rendered
<1>2. \A i \in DOMAIN s.pages : s.pages[i] \in Pages
  BY DEF Terrains
<1> HIDE DEF level
<1>3. \A i \in DOMAIN s.pages : /\ new[i].place = s.pages[i].place
                                /\ new[i].mesh = s.pages[i].mesh
                                /\ new[i].level = level(i)
  BY <1>2 DEF Pages
<1>4. DOMAIN new = DOMAIN s.pages
  OBVIOUS
<1> HIDE DEF new
<1>5. /\ Rendered(s, t).gen = s.gen /\ Rendered(s, t).cov = s.cov
      /\ Rendered(s, t).pages = new
  BY <1>1 DEF Terrains
<1>6. QED
  BY <1>3, <1>4, <1>5 DEF level

\* The pages after an update of their textures.
LEMMA DeltaPages ==
    ASSUME NEW s, NEW t \in Terrains, NEW old
    PROVE  LET r == WithDeltas(s, t, old) IN
           /\ r.gen = t.gen /\ r.cov = t.cov
           /\ DOMAIN r.pages = DOMAIN t.pages
           /\ \A i \in DOMAIN t.pages :
                /\ r.pages[i].place = t.pages[i].place
                /\ r.pages[i].mesh = t.pages[i].mesh
                /\ LET new == LevelOf(s.pages, t.pages[i].place)
                       was == LevelOf(old.pages, t.pages[i].place) IN
                   r.pages[i].level = IF old.gen = s.gen /\ was # 0 /\ new > was THEN new
                                      ELSE t.pages[i].level
<1> DEFINE level(i) == LET new == LevelOf(s.pages, t.pages[i].place)
                           was == LevelOf(old.pages, t.pages[i].place) IN
                       IF was # 0 /\ new > was THEN new ELSE t.pages[i].level
           pages == [i \in DOMAIN t.pages |-> [t.pages[i] EXCEPT !.level = level(i)]]
           r == WithDeltas(s, t, old)
<1>1. CASE old.gen # s.gen
  <2>1. r = t
    BY <1>1 DEF WithDeltas
  <2>2. QED
    BY <1>1, <2>1
<1>2. CASE old.gen = s.gen
  <2>1. r = [t EXCEPT !.pages = pages]
    BY <1>2 DEF WithDeltas
  <2>2. \A i \in DOMAIN t.pages : t.pages[i] \in Pages
    BY DEF Terrains
  <2> HIDE DEF level
  <2>3. \A i \in DOMAIN t.pages : /\ pages[i].place = t.pages[i].place
                                  /\ pages[i].mesh = t.pages[i].mesh
                                  /\ pages[i].level = level(i)
    BY <2>2 DEF Pages
  <2>4. DOMAIN pages = DOMAIN t.pages
    OBVIOUS
  <2> HIDE DEF pages, r
  <2>5. r.gen = t.gen /\ r.cov = t.cov /\ r.pages = pages
    BY <2>1 DEF Terrains
  <2>6. QED
    BY <1>2, <2>3, <2>4, <2>5 DEF level, r
<1>3. QED
  BY <1>1, <1>2

\* Terrain of another generation: the renderer takes it as it is, or finer.
LEMMA QueueShowsNew ==
    ASSUME NEW s \in Terrains, NEW t \in Terrains, NEW old \in Terrains,
           Shows(t, old), s.gen > old.gen
    PROVE  Shows(Queue(s, t, old), s)
<1>1. t.gen = old.gen /\ s.gen \in Nat /\ old.gen \in Nat
  BY DEF Shows, Terrains
<1>2. Newer(s, t) /\ s.gen # t.gen /\ old.gen # s.gen
  BY <1>1 DEF Newer
<1> DEFINE r == Rendered(s, t)
<1>3. Queue(s, t, old) = r
  BY <1>2 DEF Queue, WithDeltas
<1>4. /\ r.gen = s.gen /\ r.cov = s.cov /\ DOMAIN r.pages = DOMAIN s.pages
      /\ \A i \in DOMAIN s.pages :
            /\ r.pages[i].place = s.pages[i].place /\ r.pages[i].mesh = s.pages[i].mesh
            /\ LET o == LevelOf(t.pages, s.pages[i].place) IN
               r.pages[i].level = IF o # 0 /\ (s.gen = t.gen \/ o > s.pages[i].level) THEN o
                                  ELSE s.pages[i].level
  BY RenderedPages
<1> HIDE DEF r
<1>5. MeshesOf(r.pages) = MeshesOf(s.pages)
  BY <1>4, MeshesSame
<1>6. ASSUME NEW i \in DOMAIN s.pages
      PROVE  r.pages[i].level >= s.pages[i].level
  <2> DEFINE o == LevelOf(t.pages, s.pages[i].place)
  <2>1. r.pages[i].level = IF o # 0 /\ o > s.pages[i].level THEN o ELSE s.pages[i].level
    BY <1>2, <1>4
  <2>2. s.pages[i].level \in Nat /\ o \in Nat
    <3>1. s.pages \in Seq(Pages) /\ t.pages \in Seq(Pages)
      BY DEF Terrains
    <3>2. s.pages[i].level \in Levels /\ o \in Levels \cup {0}
      BY <3>1, PageTypes, LevelOfTypes
    <3>3. QED
      BY <3>2, LevelNumbers
  <2> HIDE DEF o
  <2>3. QED
    BY <2>1, <2>2
<1>7. QED
  BY <1>3, <1>4, <1>5, <1>6 DEF Shows

\* Terrain of the same generation: the pages shown already keep their textures, so
\* that the difference to what was given before is what they lack.
LEMMA DeltasSuffice ==
    ASSUME NEW s \in Terrains, NEW t \in Terrains, NEW old \in Terrains, NEW view \in Terrains,
           Shows(t, old), Distinct(s.pages), Distinct(old.pages), old.gen = s.gen,
           view.gen = s.gen, view.cov = s.cov, MeshesOf(view.pages) = MeshesOf(s.pages),
           \A i \in DOMAIN s.pages :
              LET o == LevelOf(t.pages, s.pages[i].place) IN
              view.pages[i].level = IF o # 0 THEN o ELSE s.pages[i].level
    PROVE  Shows(WithDeltas(s, view, old), s)
<1> DEFINE r == WithDeltas(s, view, old)
<1>1. /\ DOMAIN view.pages = DOMAIN s.pages
      /\ \A i \in DOMAIN s.pages : /\ view.pages[i].place = s.pages[i].place
                                   /\ view.pages[i].mesh = s.pages[i].mesh
  BY MeshesSame
<1>2. /\ r.gen = view.gen /\ r.cov = view.cov /\ DOMAIN r.pages = DOMAIN view.pages
      /\ \A i \in DOMAIN view.pages :
            /\ r.pages[i].place = view.pages[i].place /\ r.pages[i].mesh = view.pages[i].mesh
            /\ LET new == LevelOf(s.pages, view.pages[i].place)
                   was == LevelOf(old.pages, view.pages[i].place) IN
               r.pages[i].level = IF old.gen = s.gen /\ was # 0 /\ new > was THEN new
                                  ELSE view.pages[i].level
  BY DeltaPages
<1> HIDE DEF r
<1>3. MeshesOf(r.pages) = MeshesOf(s.pages)
  <2>1. \A i \in DOMAIN s.pages : /\ r.pages[i].place = s.pages[i].place
                                 /\ r.pages[i].mesh = s.pages[i].mesh
    BY <1>1, <1>2
  <2>2. QED
    BY <1>1, <1>2, <2>1, MeshesSame
<1>4. ASSUME NEW i \in DOMAIN s.pages
      PROVE  r.pages[i].level >= s.pages[i].level
  <2> DEFINE o == LevelOf(t.pages, s.pages[i].place)
             was == LevelOf(old.pages, s.pages[i].place)
             level == s.pages[i].level
  <2>1. s.pages \in Seq(Pages) /\ t.pages \in Seq(Pages) /\ old.pages \in Seq(Pages)
    BY DEF Terrains
  <2>2. LevelOf(s.pages, s.pages[i].place) = level
    BY <2>1, LevelOfPage
  <2>3. level \in Nat /\ o \in Nat /\ was \in Nat
    <3>1. level \in Levels /\ o \in Levels \cup {0} /\ was \in Levels \cup {0}
      BY <2>1, PageTypes, LevelOfTypes
    <3>2. QED
      BY <3>1, LevelNumbers
  <2>4. o >= was /\ (o = 0 <=> was = 0)
    BY LevelsShown
  <2>5. view.pages[i].level = IF o # 0 THEN o ELSE level
    OBVIOUS
  <2>6. r.pages[i].level = IF was # 0 /\ level > was THEN level ELSE view.pages[i].level
    BY <1>1, <1>2, <2>2
  <2> HIDE DEF o, was, level
  <2>7. r.pages[i].level >= level
    BY <2>3, <2>4, <2>5, <2>6
  <2>8. QED
    BY <2>7 DEF level
<1>5. QED
  BY <1>2, <1>3, <1>4 DEF Shows, r

\* Whatever of the same generation follows is shown.
LEMMA QueueShowsMore ==
    ASSUME NEW s \in Terrains, NEW t \in Terrains, NEW old \in Terrains,
           Shows(t, old), Distinct(s.pages), Distinct(old.pages), Follows(s, old),
           s.gen = old.gen
    PROVE  Shows(Queue(s, t, old), s)
<1> DEFINE queued == \/ old.gen # s.gen \/ old.cov # s.cov
                     \/ Len(old.pages) # Len(s.pages)
           view == IF queued /\ Newer(s, t) THEN Rendered(s, t) ELSE t
<1>1. Queue(s, t, old) = WithDeltas(s, view, old)
  BY DEF Queue
<1>2. view \in Terrains
  BY RenderedTypes
<1>3. /\ s.gen \in Nat /\ old.gen \in Nat /\ s.cov \in Nat /\ old.cov \in Nat
      /\ t.gen = old.gen /\ t.cov = old.cov
  BY DEF Terrains, Shows
<1>4. /\ view.gen = s.gen /\ view.cov = s.cov /\ MeshesOf(view.pages) = MeshesOf(s.pages)
      /\ \A i \in DOMAIN s.pages :
            LET o == LevelOf(t.pages, s.pages[i].place) IN
            view.pages[i].level = IF o # 0 THEN o ELSE s.pages[i].level
  <2>1. CASE queued /\ Newer(s, t)
    <3>1. view = Rendered(s, t)
      BY <2>1
    <3> HIDE DEF view
    <3>2. /\ view.gen = s.gen /\ view.cov = s.cov /\ DOMAIN view.pages = DOMAIN s.pages
          /\ \A i \in DOMAIN s.pages :
                /\ view.pages[i].place = s.pages[i].place
                /\ view.pages[i].mesh = s.pages[i].mesh
                /\ LET o == LevelOf(t.pages, s.pages[i].place) IN
                   view.pages[i].level = IF o # 0 /\ (s.gen = t.gen \/ o > s.pages[i].level)
                                         THEN o ELSE s.pages[i].level
      BY <3>1, RenderedPages
    <3>3. MeshesOf(view.pages) = MeshesOf(s.pages)
      BY <3>2, MeshesSame
    <3>4. s.gen = t.gen
      BY <1>3
    <3>5. QED
      BY <3>2, <3>3, <3>4
  <2>2. CASE ~(queued /\ Newer(s, t))
    <3>1. view = t
      BY <2>2
    <3> HIDE DEF view
    <3>2. s.cov = old.cov /\ MeshesOf(s.pages) = MeshesOf(old.pages)
      BY <1>3, <2>2 DEF Newer, Follows
    <3>3. MeshesOf(t.pages) = MeshesOf(s.pages)
      BY <3>2 DEF Shows
    <3>4. /\ DOMAIN t.pages = DOMAIN s.pages
          /\ \A i \in DOMAIN s.pages : t.pages[i].place = s.pages[i].place
      BY <3>3, MeshesSame
    <3>5. ASSUME NEW i \in DOMAIN s.pages
          PROVE  LevelOf(t.pages, s.pages[i].place) = t.pages[i].level /\ t.pages[i].level # 0
      <4>1. t.pages \in Seq(Pages) /\ Distinct(t.pages)
        BY <3>4 DEF Terrains, Distinct
      <4>2. LevelOf(t.pages, t.pages[i].place) = t.pages[i].level /\ t.pages[i].level \in Levels
        BY <3>4, <4>1, LevelOfPage, PageTypes
      <4>3. QED
        BY <3>4, <4>2, ConstantsAssumption
    <3>6. QED
      BY <1>3, <3>1, <3>2, <3>3, <3>5
  <2>3. QED
    BY <2>1, <2>2
<1> HIDE DEF view
<1>5. QED
  BY <1>1, <1>2, <1>4, DeltasSuffice

\* queueGuiSnapshot picks out enough.
LEMMA QueueShows ==
    ASSUME NEW s \in Terrains, NEW t \in Terrains, NEW old \in Terrains,
           Shows(t, old), Distinct(s.pages), Distinct(old.pages), Follows(s, old)
    PROVE  Shows(Queue(s, t, old), s)
<1>1. s.gen > old.gen \/ s.gen = old.gen
  BY DEF Follows
<1>2. QED
  BY <1>1, QueueShowsNew, QueueShowsMore


\* At least as far, over two steps.
LEMMA AtLeastOver ==
    ASSUME NEW a \in Nat, NEW b \in Nat, NEW c \in Nat, NEW d \in Nat, NEW e \in Nat, NEW f \in Nat,
           AtLeast(a, b, c, d), AtLeast(c, d, e, f)
    PROVE  AtLeast(a, b, e, f)
BY DEF AtLeast

\* Pages with the same places and meshes are signed alike.
LEMMA SignedSame ==
    ASSUME NEW gen, NEW a, NEW b, Signed(gen, b), DOMAIN a = DOMAIN b,
           \A i \in DOMAIN b : a[i].place = b[i].place /\ a[i].mesh = b[i].mesh
    PROVE  Signed(gen, a)
BY DEF Signed, Distinct

\* A snapshot is signed: its near pages are of its own generation.
LEMMA PublishedSigned ==
    ASSUME NEW gen \in DOMAIN Snapshots, NEW cov \in DOMAIN Snapshots[gen], Published(gen, cov)
    PROVE  Signed(source'.gen, source'.pages)
<1> DEFINE places == Snapshots[gen][cov]
<1>1. IsInjective(places) /\ ~(Range(places) \subseteq Resident)
  BY ConstantsAssumption
<1>2. gen # 0
  BY ConstantsAssumption
<1>3. /\ source'.gen = gen /\ DOMAIN source'.pages = DOMAIN places
      /\ \A j \in DOMAIN places : /\ source'.pages[j].place = places[j]
                                  /\ source'.pages[j].mesh = MeshGen(places[j], gen)
  BY DEF Published
<1> HIDE DEF places
<1>4. \A i, j \in DOMAIN places : places[i] = places[j] => i = j
  BY <1>1 DEF IsInjective
<1>5. PICK near \in DOMAIN places : places[near] \notin Resident
  BY <1>1 DEF Range
<1>6. Distinct(source'.pages)
  BY <1>3, <1>4 DEF Distinct
<1>7. /\ \A j \in DOMAIN places : source'.pages[j].mesh \in {0, gen}
      /\ source'.pages[near].mesh = gen
  BY <1>3, <1>5 DEF MeshGen
<1>8. QED
  BY <1>2, <1>3, <1>5, <1>6, <1>7 DEF Signed

\* The source never goes back, and what it has is signed.
LEMMA SourceGrows ==
    ASSUME Numbered, Upstream, SetSnapshot \/ ApplyTexture
    PROVE  /\ Signed(source'.gen, source'.pages)
           /\ AtLeast(source'.gen, source'.cov, source.gen, source.cov)
<1>1. CASE SetSnapshot
  <2>1. PICK gen \in DOMAIN Snapshots : \E cov \in DOMAIN Snapshots[gen] : Published(gen, cov)
    BY <1>1, PublishedPages
  <2>2. PICK cov \in DOMAIN Snapshots[gen] : Published(gen, cov)
    BY <2>1
  <2>3. Signed(source'.gen, source'.pages)
    BY <2>2, PublishedSigned
  <2>4. cov \in Nat /\ gen \in Nat /\ source.cov \in Nat
    <3>1. Snapshots[gen] \in Seq(Seq(Places) \ {<<>>})
      BY ConstantsAssumption
    <3>2. DOMAIN Snapshots[gen] = 1..Len(Snapshots[gen]) /\ cov \in Nat
      BY <3>1
    <3>3. gen \in Nat
      BY ConstantsAssumption
    <3>4. QED
      BY <3>2, <3>3 DEF Numbered, TypeOK, Terrains
  <2>5. AtLeast(source'.gen, source'.cov, source.gen, source.cov)
    BY <2>2, <2>4 DEF Published, AtLeast
  <2>6. QED
    BY <2>3, <2>5
<1>2. CASE ApplyTexture
  <2>1. source # NoTerrain
    <3>1. DOMAIN source.pages # {}
      BY <1>2 DEF ApplyTexture
    <3>2. DOMAIN <<>> = {}
      OBVIOUS
    <3>3. QED
      BY <3>1, <3>2 DEF NoTerrain
  <2>2. Signed(source.gen, source.pages)
    BY <2>1 DEF Upstream
  <2>3. Signed(source.gen, source'.pages)
    BY <1>2, <2>2, UpdatedPages, SignedSame
  <2>4. source.cov \in Nat /\ source'.gen = source.gen /\ source'.cov = source.cov
    BY <1>2, UpdatedPages DEF Numbered, TypeOK, Terrains
  <2>5. QED
    BY <2>3, <2>4 DEF AtLeast
<1>3. QED
  BY <1>1, <1>2

\* What is pulled and what was assembled stay behind the source when it changes.
LEMMA SourceUpstream ==
    ASSUME Numbered, Numbered', Upstream, SetSnapshot \/ ApplyTexture
    PROVE  Upstream'
<1>1. /\ Signed(source'.gen, source'.pages)
      /\ AtLeast(source'.gen, source'.cov, source.gen, source.cov)
  BY SourceGrows
<1>2. UNCHANGED <<pc, manifest, previous, sourceGen>>
  BY DEF SetSnapshot, ApplyTexture, pollVars
<1>3. /\ source.gen \in Nat /\ source.cov \in Nat /\ source'.gen \in Nat /\ source'.cov \in Nat
      /\ manifest.gen \in Nat /\ manifest.cov \in Nat /\ sourceGen \in Nat /\ previous.cov \in Nat
  BY DEF Numbered, TypeOK, Terrains
<1>4. pc = "pull" => AtLeast(source'.gen, source'.cov, manifest.gen, manifest.cov)
  BY <1>1, <1>3, AtLeastOver DEF Upstream
<1>5. previous # NoTerrain => AtLeast(source'.gen, source'.cov, sourceGen, previous.cov)
  BY <1>1, <1>3, AtLeastOver DEF Upstream
<1>6. QED
  BY <1>1, <1>2, <1>4, <1>5 DEF Upstream

\* A manifest is the source's, which is ahead of what was assembled.
LEMMA ReadUpstream ==
    ASSUME Numbered, Upstream, ReadManifest
    PROVE  Upstream'
<1>1. /\ manifest' = [revision |-> revision, gen |-> source.gen, cov |-> source.cov,
                      pages |-> source.pages]
      /\ source # NoTerrain
      /\ UNCHANGED <<source, previous, sourceGen>>
  BY DEF ReadManifest, sourceVars
<1>2. manifest'.gen = source.gen /\ manifest'.cov = source.cov /\ manifest'.pages = source.pages
  BY <1>1
<1>3. AtLeast(source.gen, source.cov, source.gen, source.cov)
  BY DEF AtLeast, Numbered, TypeOK, Terrains
<1>4. QED
  BY <1>1, <1>2, <1>3 DEF Upstream

\* A failed poll has no manifest any more and may have no terrain.
LEMMA FailedUpstream ==
    ASSUME Upstream, NEW known, Failed(known)
    PROVE  Upstream'
<1>1. pc' = "sleep" /\ UNCHANGED <<source, sourceGen>>
  BY DEF Failed, Sleep, sourceVars
<1>2. previous' \in {NoTerrain, previous}
  BY DEF Failed
<1>3. QED
  BY <1>1, <1>2 DEF Upstream

\* All pages have been pulled.
LEMMA GotAll ==
    ASSUME Pulling, Len(got) = Len(manifest.pages)
    PROVE  got = manifest.pages
<1>1. got \in Seq(Pages) /\ manifest.pages \in Seq(Pages)
  BY DEF Pulling, Numbered, TypeOK
<1>2. \A i \in 1..Len(got) : got[i] = manifest.pages[i]
  BY DEF Pulling, PulledOK
<1>3. QED
  BY <1>1, <1>2, SeqEqual

\* What is assembled is the manifest, of a generation of the viewer's.
LEMMA Assembled ==
    ASSUME Pulling, Assemble
    PROVE  /\ previous'.cov = manifest.cov /\ previous'.pages = manifest.pages
           /\ IF SameGeometry \/ Expanded
              THEN previous'.gen = previous.gen /\ generation' = generation
              ELSE previous'.gen = generation + 1 /\ generation' = generation + 1
           /\ pending' = previous' /\ sourceGen' = manifest.gen /\ pc' = "sleep" /\ pc = "pull"
           /\ UNCHANGED <<source, clear, sent, shown>>
<1> DEFINE kept == SameGeometry \/ Expanded
           gen == IF kept THEN previous.gen ELSE generation + 1
<1>1. /\ generation' = IF kept THEN generation ELSE gen
      /\ previous' = [gen |-> gen, cov |-> manifest.cov, pages |-> got]
  BY DEF Assemble
<1>2. got = manifest.pages
  BY GotAll DEF Assemble
<1>3. /\ previous'.cov = manifest.cov /\ previous'.pages = manifest.pages /\ previous'.gen = gen
      /\ generation' = IF kept THEN generation ELSE gen
  BY <1>1, <1>2
<1>4. /\ pending' = previous' /\ sourceGen' = manifest.gen /\ pc' = "sleep" /\ pc = "pull"
      /\ UNCHANGED <<source, clear, sent, shown>>
  BY DEF Assemble, Sleep, sourceVars, renderVars
<1>5. QED
  BY <1>3, <1>4

\* What is assembled is signed, like the manifest.
LEMMA AssembleUpstream ==
    ASSUME Pulling, Upstream, Assemble
    PROVE  Upstream'
BY Assembled DEF Upstream

\* The source stays ahead of the poller.
LEMMA UpstreamStep == Pulling /\ Pulling' /\ Upstream /\ [Next]_vars => Upstream'
<1> SUFFICES ASSUME Pulling, Pulling', Upstream, [Next]_vars PROVE Upstream'
  OBVIOUS
<1>1. CASE SetSnapshot \/ ApplyTexture
  BY <1>1, SourceUpstream DEF Pulling
<1>2. CASE PollFails \/ PullFails
  BY <1>2, FailedUpstream DEF PollFails, PullFails
<1>3. CASE ReadManifest
  BY <1>3, ReadUpstream DEF Pulling
<1>4. CASE Assemble
  BY <1>4, AssembleUpstream
<1>5. CASE UNCHANGED <<source, pc, manifest, previous, sourceGen>>
  BY <1>5 DEF Upstream
<1>6. QED
  BY <1>1, <1>2, <1>3, <1>4, <1>5
  DEF Next, PollStep, NothingNew, PullPage, PreRender, Invalidate, vars, sourceVars, pollVars

\* Terrain follows nothing, and itself.
LEMMA FollowsNothing ==
    ASSUME NEW s \in Terrains, s # NoTerrain => s.gen # 0
    PROVE  Follows(s, NoTerrain) /\ Follows(s, s)
<1>1. s.gen \in Nat /\ NoTerrain.gen = 0
  BY DEF Terrains, NoTerrain
<1>2. CASE s = NoTerrain
  BY <1>2 DEF Follows
<1>3. CASE s # NoTerrain
  BY <1>1, <1>3 DEF Follows
<1>4. QED
  BY <1>2, <1>3 DEF Follows

\* What follows, over two steps.
LEMMA FollowsOver ==
    ASSUME NEW s \in Terrains, NEW t \in Terrains, NEW u \in Terrains, Follows(s, t), Follows(t, u)
    PROVE  Follows(s, u)
<1>1. /\ s.gen \in Nat /\ t.gen \in Nat /\ u.gen \in Nat
      /\ s.cov \in Nat /\ t.cov \in Nat /\ u.cov \in Nat
  BY DEF Terrains
<1>2. QED
  BY <1>1 DEF Follows

\* Nothing shows nothing.
LEMMA NothingShown == Shows(NoTerrain, NoTerrain) /\ Distinct(NoTerrain.pages)
<1>1. NoTerrain.pages = <<>> /\ DOMAIN <<>> = {}
  BY DEF NoTerrain
<1>2. QED
  BY <1>1 DEF Shows, Distinct

\* The same meshes are of the same generation of the source.
LEMMA SameMeshesSameGen ==
    ASSUME NEW gen, NEW than, NEW a, NEW b,
           Signed(gen, a), Signed(than, b), MeshesOf(b) = MeshesOf(a)
    PROVE  than = gen
<1>1. DOMAIN b = DOMAIN a /\ \A i \in DOMAIN a : b[i].mesh = a[i].mesh
  BY MeshesSame
<1>2. QED
  BY <1>1 DEF Signed

\* What is assembled follows what was.
LEMMA AssembledFollows ==
    ASSUME Pulling, Pulling', Upstream, Downstream, Assemble
    PROVE  Follows(previous', previous) /\ previous'.gen # 0 /\ previous'.gen <= generation'
<1>1. /\ previous.gen \in Nat /\ previous.cov \in Nat /\ generation \in Nat
      /\ manifest.gen \in Nat /\ manifest.cov \in Nat /\ sourceGen \in Nat
  BY DEF Pulling, Numbered, TypeOK, Terrains
<1>2. /\ previous # NoTerrain => previous.gen # 0
      /\ previous.gen <= generation
  BY DEF Downstream
<1>3. /\ previous'.cov = manifest.cov /\ previous'.pages = manifest.pages
      /\ IF SameGeometry \/ Expanded
         THEN previous'.gen = previous.gen /\ generation' = generation
         ELSE previous'.gen = generation + 1 /\ generation' = generation + 1
      /\ pc = "pull"
  BY Assembled
<1>4. CASE ~(SameGeometry \/ Expanded)
  BY <1>1, <1>2, <1>3, <1>4 DEF Follows
<1>5. CASE Expanded
  BY <1>1, <1>2, <1>3, <1>5 DEF Expanded, Follows
<1>6. CASE SameGeometry
  <2>1. previous # NoTerrain /\ MeshesOf(previous.pages) = MeshesOf(manifest.pages)
    BY <1>6 DEF SameGeometry
  <2>2. /\ Signed(manifest.gen, manifest.pages) /\ Signed(sourceGen, previous.pages)
        /\ AtLeast(manifest.gen, manifest.cov, sourceGen, previous.cov)
    BY <1>3, <2>1 DEF Upstream
  <2>3. sourceGen = manifest.gen
    BY <2>1, <2>2, SameMeshesSameGen
  <2>4. manifest.cov >= previous.cov
    BY <1>1, <2>2, <2>3 DEF AtLeast
  <2>5. previous'.gen = previous.gen /\ generation' = generation
    BY <1>3, <1>6
  <2>6. previous'.cov > previous.cov \/ previous'.cov = previous.cov
    BY <1>1, <1>3, <2>4
  <2>7. QED
    BY <1>2, <1>3, <2>1, <2>5, <2>6 DEF Follows
<1>7. QED
  BY <1>4, <1>5, <1>6

\* The shown terrain, in one formula.
LEMMA DownstreamParts ==
    Downstream <=>
    /\ previous # NoTerrain => previous.gen # 0
    /\ previous.gen <= generation
    /\ pending \in {NoTerrain, previous}
    /\ ~clear => Follows(previous, sent)
    /\ previous = NoTerrain /\ ~clear => sent = NoTerrain
    /\ Distinct(sent.pages) /\ Shows(shown, sent)
BY DEF Downstream, Shows, SentIsShown

\* The assembled terrain is handed over; what is shown stays behind it.
LEMMA AssembleDownstream ==
    ASSUME Pulling, Pulling', Upstream, Downstream, Assemble
    PROVE  Downstream'
<1>1. pending' = previous' /\ clear' = clear /\ sent' = sent /\ shown' = shown
  BY Assembled
<1>2. Follows(previous', previous) /\ previous'.gen # 0 /\ previous'.gen <= generation'
  BY AssembledFollows
<1>3. previous \in Terrains /\ previous' \in Terrains /\ sent \in Terrains
  BY DEF Pulling, Numbered, TypeOK
<1>4. ~clear => Follows(previous', sent)
  BY <1>2, <1>3, FollowsOver DEF Downstream
<1>5. previous' # NoTerrain
  BY <1>2 DEF NoTerrain
<1>6. QED
  BY <1>1, <1>2, <1>4, <1>5 DEF Downstream, SentIsShown

\* The view is to be emptied before anything else, or nothing changes.
LEMMA FailedDownstream ==
    ASSUME Pulling, Downstream, NEW known, Failed(known)
    PROVE  Downstream'
<1>1. UNCHANGED <<generation, sent, shown>>
  BY DEF Failed, renderVars
<1>2. CASE failures' = 3
  <2>1. clear' = TRUE /\ pending' = NoTerrain /\ previous' = NoTerrain
    BY <1>2 DEF Failed
  <2>2. NoTerrain.gen = 0 /\ 0 <= generation
    BY DEF NoTerrain, Pulling, Numbered, TypeOK
  <2>3. QED
    BY <1>1, <2>1, <2>2 DEF Downstream, SentIsShown
<1>3. CASE failures' # 3
  <2>1. UNCHANGED <<clear, pending, previous>>
    BY <1>3 DEF Failed
  <2>2. QED
    BY <1>1, <2>1 DEF Downstream, SentIsShown
<1>4. QED
  BY <1>2, <1>3

\* What the render thread starts from: what was sent is shown, and followed.
LEMMA ViewToRender ==
    ASSUME Pulling, Downstream
    PROVE  LET left == IF clear THEN NoTerrain ELSE sent
               view == IF clear THEN NoTerrain ELSE shown
           IN /\ left \in Terrains /\ view \in Terrains
              /\ Shows(view, left) /\ Distinct(left.pages)
              /\ Follows(previous, left)
              /\ previous = NoTerrain => left = NoTerrain
<1>1. {previous, sent, shown, NoTerrain} \subseteq Terrains
  BY NoTerrainTypes DEF Pulling, Numbered, TypeOK
<1>2. CASE clear
  <2>1. Follows(previous, NoTerrain)
    BY <1>1, FollowsNothing DEF Downstream
  <2>2. QED
    BY <1>1, <1>2, <2>1, NothingShown
<1>3. CASE ~clear
  BY <1>1, <1>3, DownstreamParts
<1>4. QED
  BY <1>2, <1>3

\* The render thread shows what it is given.
LEMMA PreRenderDownstream ==
    ASSUME Pulling, Upstream, Downstream, PreRender
    PROVE  Downstream'
<1> DEFINE left == IF clear THEN NoTerrain ELSE sent
           view == IF clear THEN NoTerrain ELSE shown
<1>1. /\ IF pending = NoTerrain
         THEN sent' = left /\ shown' = view
         ELSE sent' = pending /\ shown' = Queue(pending, view, left)
      /\ pending' = NoTerrain /\ clear' = FALSE
      /\ UNCHANGED <<previous, generation>>
  BY DEF PreRender, pollVars
<1>2. /\ left \in Terrains /\ view \in Terrains
      /\ Shows(view, left) /\ Distinct(left.pages)
      /\ Follows(previous, left)
      /\ previous = NoTerrain => left = NoTerrain
  BY ViewToRender
<1> HIDE DEF left, view
<1>3. /\ Follows(previous, sent')
      /\ previous = NoTerrain => sent' = NoTerrain
      /\ Distinct(sent'.pages) /\ Shows(shown', sent')
  <2>1. CASE pending = NoTerrain
    BY <1>1, <1>2, <2>1
  <2>2. CASE pending # NoTerrain
    <3>1. previous # NoTerrain /\ sent' = previous /\ shown' = Queue(previous, view, left)
      BY <1>1, <2>2 DEF Downstream
    <3>2. previous \in Terrains /\ Distinct(previous.pages)
      BY <3>1 DEF Upstream, Signed, Pulling, Numbered, TypeOK
    <3>3. Follows(previous, previous)
      BY <3>2, FollowsNothing DEF Downstream
    <3>4. Shows(Queue(previous, view, left), previous)
      BY <1>2, <3>2, QueueShows
    <3>5. QED
      BY <3>1, <3>2, <3>3, <3>4
  <2>3. QED
    BY <2>1, <2>2
<1>4. /\ previous' # NoTerrain => previous'.gen # 0
      /\ previous'.gen <= generation'
      /\ pending' \in {NoTerrain, previous'}
  BY <1>1 DEF Downstream
<1>5. QED
  BY <1>1, <1>3, <1>4 DEF Downstream, Shows, SentIsShown

\* After the loss of the scene graph nothing is sent and nothing shown.
LEMMA InvalidateDownstream ==
    ASSUME Pulling, Downstream, Invalidate
    PROVE  Downstream'
<1>1. /\ sent' = NoTerrain /\ shown' = NoTerrain
      /\ UNCHANGED <<previous, generation, pending, clear>>
  BY DEF Invalidate, pollVars
<1>2. Follows(previous, NoTerrain)
  BY FollowsNothing DEF Downstream, Pulling, Numbered, TypeOK
<1>3. QED
  BY <1>1, <1>2, NothingShown DEF Downstream, Shows, SentIsShown

\* What is sent is shown, and behind what the poller has.
LEMMA DownstreamStep == Pulling /\ Pulling' /\ Upstream /\ Downstream /\ [Next]_vars => Downstream'
<1> SUFFICES ASSUME Pulling, Pulling', Upstream, Downstream, [Next]_vars PROVE Downstream'
  OBVIOUS
<1>1. CASE PollFails \/ PullFails
  BY <1>1, FailedDownstream DEF PollFails, PullFails
<1>2. CASE Assemble
  BY <1>2, AssembleDownstream
<1>3. CASE PreRender
  BY <1>3, PreRenderDownstream
<1>4. CASE Invalidate
  BY <1>4, InvalidateDownstream
<1>5. CASE UNCHANGED <<previous, generation, pending, clear, sent, shown>>
  BY <1>5 DEF Downstream, SentIsShown
<1>6. QED
  BY <1>1, <1>2, <1>3, <1>4, <1>5
  DEF Next, PollStep, SetSnapshot, ApplyTexture, NothingNew, ReadManifest, PullPage,
      vars, pollVars, renderVars

\* There is no terrain at the start.
LEMMA ViewInit == Init => Upstream /\ Downstream
<1> SUFFICES ASSUME Init PROVE Upstream /\ Downstream
  OBVIOUS
<1>1. Upstream
  BY DEF Init, Upstream
<1>2. NoTerrain.gen = 0 /\ Follows(NoTerrain, NoTerrain)
  BY DEF NoTerrain, Follows
<1>3. Downstream
  BY <1>2, NothingShown DEF Init, Downstream, Shows, SentIsShown
<1>4. QED
  BY <1>1, <1>3

(***************************************************************************)
(* What the render thread was given is what its renderer shows, although   *)
(* only the changes reach it (GuiTerrain.cc:13-46), and after the source   *)
(* was given up nothing comes back from the hand-over                      *)
(* (DynamicTerrainGui.cc:209-218).                                         *)
(***************************************************************************)
THEOREM ViewIsConsistent == Spec => []ViewConsistent
<1> DEFINE Inv == (Pulling /\ Idle) /\ Upstream /\ Downstream
<1>1. Init => Inv
  BY PullingInit, ViewInit
<1>2. Inv /\ [Next]_vars => Inv'
  BY PullingStep, UpstreamStep, DownstreamStep
<1>3. Inv => ViewConsistent
  BY DEF Downstream, ViewConsistent, LostIsBlank
<1>4. QED
  BY <1>1, <1>2, <1>3, PTL DEF Spec
=============================================================================
