------------------------------ MODULE TileStore ------------------------------
(***************************************************************************)
(* Decoded rasters of the tiles on disk, kept in two LRU caches (imagery   *)
(* and elevation), and the vertical offset of the terrain at the origin.   *)
(* Three workers ask for rasters: the visual terrain, the collision        *)
(* terrain and the refinement of textures.                                 *)
(*                                                                         *)
(* A file is decoded under one of the mutexes of its kind, the one its key *)
(* hashes to; the caches have a mutex of their own, held for one step of   *)
(* the model at a time.  A file that cannot be decoded is downloaded       *)
(* again, although an earlier check vouches for it.  Ensure is one step:   *)
(* what it promises is the subject of DownloadCache.                       *)
(***************************************************************************)
EXTENDS Integers, Sequences, FiniteSets, SequencesExt, FiniteSetsExt

CONSTANTS
    Workers,      \* threads
    Imagery,      \* imagery tiles
    Elevation,    \* elevation tiles
    Origins,      \* those at the geographic origin, one a zoom level
    Jobs(_),      \* what a worker asks for
    Stripe(_),    \* the mutex of a tile
    Size(_),      \* bytes of a decoded tile
    Limit(_),     \* bytes of a cache: decodedImageryCacheMb, decodedDemCacheMb
    Fragile,      \* bound: tiles whose file something outside may damage
    Faults        \* bound: what else goes wrong, of {"offline", "cancel"}

Tiles == Imagery \cup Elevation
KindOf(k) == IF k \in Imagery THEN "imagery" ELSE "elevation"
AllOf(kind) == IF kind = "imagery" THEN Imagery ELSE Elevation
AllJobs == UNION {Jobs(t) : t \in Workers}
NoJob == [op |-> "none", tiles |-> <<>>]

ASSUME ConstantsAssumption ==
    /\ Imagery \cap Elevation = {} /\ Origins \subseteq Elevation
    /\ \A k \in Tiles : Size(k) \in Nat \ {0}
    /\ \A kind \in {"imagery", "elevation"} : Limit(kind) \in Nat
    /\ AllJobs \subseteq [op : {"imagery", "mosaic", "offset"}, tiles : Seq(Tiles) \ {<<>>}]
    /\ \A job \in AllJobs :
          \/ job.op = "imagery" /\ job.tiles \in Seq(Imagery) /\ Len(job.tiles) = 1
          \/ job.op = "mosaic" /\ job.tiles \in Seq(Elevation)
          \/ job.op = "offset" /\ job.tiles \in Seq(Origins) /\ Len(job.tiles) = 1
    /\ Fragile \subseteq Tiles /\ Faults \subseteq {"offline", "cancel"}

VARIABLES
    file,       \* the files on disk
    vouched,    \* tiles whose file a recorded check vouches for
    memory,     \* imageryMemory_ and demMemory_
    lru,        \* imageryLru_ and demLru_, with their positions
    bytes,      \* imageryMemoryBytes_ and demMemoryBytes_
    offset,     \* originOffsets_: how the offset of a zoom level came about
    pc,         \* where a worker is
    job,        \* its call, with the tiles still to load
    found,      \* the call has got what it asked for
    cancelled,  \* workers whose request is superseded (ScopedDownloadContext)
    excused     \* history: workers whose call met a fault

disk == <<file, vouched>>
caches == <<memory, lru, bytes>>
vars == <<disk, caches, offset, pc, job, found, cancelled, excused>>

Init ==
    /\ file \in [Tiles -> {"missing", "good", "damaged"}]
    /\ \A k \in Tiles \ Fragile : file[k] # "damaged"
    /\ vouched = {}
    /\ memory = {}
    /\ lru = [kind \in {"imagery", "elevation"} |-> <<>>]
    /\ bytes = [kind \in {"imagery", "elevation"} |-> 0]
    /\ offset = [o \in Origins |-> "none"]
    /\ pc = [t \in Workers |-> "idle"]
    /\ job = [t \in Workers |-> NoJob]
    /\ found = [t \in Workers |-> FALSE]
    /\ cancelled = {} /\ excused = {}

Goto(t, place) == pc' = [pc EXCEPT ![t] = place]
At(t, place) == pc[t] = place

\* The tile being loaded.
Tile(t) == Head(job[t].tiles)

\* The call is over.
Done(t) ==
    /\ Goto(t, "idle") /\ job' = [job EXCEPT ![t] = NoJob]
    /\ found' = [found EXCEPT ![t] = FALSE]
    /\ cancelled' = cancelled \ {t} /\ excused' = excused \ {t}

\* A load ends with a raster or without.
Return(t, raster) == Goto(t, "return") /\ found' = [found EXCEPT ![t] = raster]

-----------------------------------------------------------------------------
(***************************************************************************)
(* Ensure and the files.                                                   *)
(***************************************************************************)
\* validFile: the content is checked unless a stamp vouches for the file.
Ready(k) == file[k] = "good" \/ (file[k] = "damaged" /\ k \in vouched)

\* Some of the tiles that are not ready are downloaded.
Stored(tiles, got) ==
    /\ file' = [k \in Tiles |-> IF k \in got THEN "good" ELSE file[k]]
    /\ vouched' = (vouched \ {k \in tiles : ~Ready(k)}) \cup {k \in tiles : Ready(k)}

\* Ensure on some tiles.  `missed` are those it gives up, for want of a network
\* or because the request is superseded.
Fetch(t, tiles, missed) ==
    LET lacking == {k \in tiles : ~Ready(k)} IN
    /\ missed \subseteq lacking
    /\ missed # {} => "offline" \in Faults \/ t \in cancelled
    /\ Stored(tiles, lacking \ missed)
    /\ excused' = IF missed = {} THEN excused ELSE excused \cup {t}

-----------------------------------------------------------------------------
(***************************************************************************)
(* The caches.                                                             *)
(***************************************************************************)
\* imageryLruPos_ and demLruPos_ tell where a tile is in its list.
Place(list, k) == CHOOSE i \in DOMAIN list : list[i] = k
ToFront(list, k) == <<k>> \o (IF k \in Range(list) THEN RemoveAt(list, Place(list, k)) ELSE list)
SumOfSizes(S) == FoldSet(LAMBDA k, sum : sum + Size(k), 0, S)

Touch(k) ==
    /\ lru' = [lru EXCEPT ![KindOf(k)] = ToFront(@, k)]
    /\ UNCHANGED <<memory, bytes>>

\* The longest part of the list that leaves `room`, least recently used out first.
Kept(list, weight, room) ==
    CHOOSE n \in 0..Len(list) :
       /\ weight - SumOfSizes({list[i] : i \in n + 1..Len(list)}) <= room \/ n = 0
       /\ \A m \in n + 1..Len(list) :
             weight - SumOfSizes({list[i] : i \in m + 1..Len(list)}) > room

\* LoadImagery makes room, then inserts, whatever the list holds already.
InsertImagery(k) ==
    LET list == lru["imagery"]
        n == Kept(list, bytes["imagery"], Limit("imagery") - Size(k))
        out == {list[i] : i \in n + 1..Len(list)}
    IN /\ lru' = [lru EXCEPT !["imagery"] = <<k>> \o SubSeq(list, 1, n)]
       /\ memory' = (memory \ out) \cup {k}
       /\ bytes' = [bytes EXCEPT !["imagery"] = @ + Size(k) - SumOfSizes(out)]

\* TouchDemLru and EvictDemLruIfNeeded: the newest raster always stays.
InsertElevation(k) ==
    LET list == ToFront(lru["elevation"], k)
        weight == bytes["elevation"] + (IF k \in Range(lru["elevation"]) THEN 0 ELSE Size(k))
        n == Max({1, Kept(list, weight, Limit("elevation"))})
        out == {list[i] : i \in n + 1..Len(list)}
    IN /\ lru' = [lru EXCEPT !["elevation"] = SubSeq(list, 1, n)]
       /\ memory' = (memory \ out) \cup {k}
       /\ bytes' = [bytes EXCEPT !["elevation"] = weight - SumOfSizes(out)]

Insert(k) ==
    IF Size(k) > Limit(KindOf(k)) THEN UNCHANGED caches
    ELSE IF k \in Imagery THEN InsertImagery(k) ELSE InsertElevation(k)

-----------------------------------------------------------------------------
(***************************************************************************)
(* LoadImagery and LoadElevationRaster.                                    *)
(***************************************************************************)
HoldsStripe(t) == pc[t] \in {"fetch", "decode", "repair", "redecode"}

\* Mutant: files are decoded without a mutex.
NoStripe(t) == TRUE
StripeFree(t) ==
    \A u \in Workers : ~(/\ HoldsStripe(u) /\ KindOf(Tile(u)) = KindOf(Tile(t))
                         /\ Stripe(Tile(u)) = Stripe(Tile(t)))

\* Elevation is looked up before the mutex is taken.
Peek(t) ==
    /\ At(t, "peek")
    /\ IF Tile(t) \in memory
       THEN Touch(Tile(t)) /\ Return(t, TRUE)
       ELSE Goto(t, "lock") /\ UNCHANGED <<caches, found>>
    /\ UNCHANGED <<disk, offset, job, cancelled, excused>>

\* The second lookup, under the mutex; it does not touch the elevation list.
Hit(t) ==
    /\ At(t, "lock") /\ StripeFree(t) /\ Tile(t) \in memory
    /\ IF Tile(t) \in Imagery THEN Touch(Tile(t)) ELSE UNCHANGED caches
    /\ Return(t, TRUE)
    /\ UNCHANGED <<disk, offset, job, cancelled, excused>>

\* LoadImagery leaves it at that without a file; elevation is downloaded.
Miss(t) ==
    /\ At(t, "lock") /\ StripeFree(t) /\ Tile(t) \notin memory
    /\ LET there == file[Tile(t)] # "missing" IN
       IF Tile(t) \in Imagery
       THEN IF there /\ t \notin cancelled
            THEN Goto(t, "decode") /\ UNCHANGED <<found, excused>>
            ELSE Return(t, FALSE) /\ excused' = excused \cup {t}
       ELSE /\ Goto(t, IF there THEN "decode" ELSE "fetch")
            /\ UNCHANGED <<found, excused>>
    /\ UNCHANGED <<disk, caches, offset, job, cancelled>>

FetchMissing(t) ==
    /\ At(t, "fetch")
    /\ \E missed \in SUBSET {Tile(t)} :
         /\ Fetch(t, {Tile(t)}, missed)
         /\ IF missed = {} THEN Goto(t, "decode") /\ UNCHANGED found ELSE Return(t, FALSE)
    /\ UNCHANGED <<caches, offset, job, cancelled>>

\* Mutant: the repair trusts the check that let the damaged file pass.
DecodeTrusting(t) ==
    /\ At(t, "decode")
    /\ CASE file[Tile(t)] = "good" -> Insert(Tile(t)) /\ Return(t, TRUE) /\ UNCHANGED vouched
         [] file[Tile(t)] # "good" /\ (Tile(t) \in Imagery \/ t \notin cancelled) ->
               Goto(t, "repair") /\ UNCHANGED <<vouched, caches, found>>
         [] OTHER -> Return(t, FALSE) /\ UNCHANGED <<caches, vouched>>
    /\ UNCHANGED <<file, offset, job, cancelled, excused>>
\* A file that cannot be decoded loses its stamp (InvalidateValidation); a
\* cancelled elevation build does not care.
Decode(t) ==
    /\ At(t, "decode")
    /\ CASE file[Tile(t)] = "good" -> Insert(Tile(t)) /\ Return(t, TRUE) /\ UNCHANGED vouched
         [] file[Tile(t)] # "good" /\ (Tile(t) \in Imagery \/ t \notin cancelled) ->
               /\ vouched' = vouched \ {Tile(t)}
               /\ Goto(t, "repair") /\ UNCHANGED <<caches, found>>
         [] OTHER -> Return(t, FALSE) /\ UNCHANGED <<caches, vouched>>
    /\ UNCHANGED <<file, offset, job, cancelled, excused>>

Repair(t) ==
    /\ At(t, "repair")
    /\ \E missed \in SUBSET {Tile(t)} :
         /\ Fetch(t, {Tile(t)}, missed)
         /\ IF missed = {} THEN Goto(t, "redecode") /\ UNCHANGED found ELSE Return(t, FALSE)
    /\ UNCHANGED <<caches, offset, job, cancelled>>

Redecode(t) ==
    /\ At(t, "redecode")
    /\ IF file[Tile(t)] = "good" THEN Insert(Tile(t)) ELSE UNCHANGED caches
    /\ Return(t, file[Tile(t)] = "good")
    /\ UNCHANGED <<disk, offset, job, cancelled, excused>>

-----------------------------------------------------------------------------
(***************************************************************************)
(* The calls: LoadImagery, BuildElevationMosaic, OriginAlignmentOffset.    *)
(***************************************************************************)
\* The request may be superseded before the call, or during it.
Begin(t) ==
    /\ At(t, "idle")
    /\ \E j \in Jobs(t) :
         /\ job' = [job EXCEPT ![t] = j]
         /\ Goto(t, CASE j.op = "imagery" -> "lock"
                      [] j.op = "mosaic" -> "ensure"
                      [] j.op = "offset" -> "recall")
    /\ UNCHANGED <<disk, caches, offset, found, cancelled, excused>>

Cancel(t) ==
    /\ "cancel" \in Faults /\ ~At(t, "idle") /\ t \notin cancelled
    /\ cancelled' = cancelled \cup {t} /\ excused' = excused \cup {t}
    /\ UNCHANGED <<disk, caches, offset, pc, job, found>>

\* A mosaic needs all its tiles; those withdrawn show when they are loaded.
EnsureMosaic(t) ==
    /\ At(t, "ensure")
    /\ \E missed \in SUBSET Range(job[t].tiles) :
         /\ Fetch(t, Range(job[t].tiles), missed)
         /\ missed = {} \/ t \in cancelled
    /\ Goto(t, "peek")
    /\ UNCHANGED <<caches, offset, job, found, cancelled>>

EnsureMosaicFails(t) ==
    /\ At(t, "ensure") /\ "offline" \in Faults
    /\ \E got \in SUBSET Range(job[t].tiles) :
         Stored(Range(job[t].tiles), {k \in got : ~Ready(k)})
    /\ \E k \in Range(job[t].tiles) : ~Ready(k)'
    /\ Done(t)
    /\ UNCHANGED <<caches, offset>>

\* OriginAlignmentOffset: an offset computed once is kept.
Recall(t) ==
    /\ At(t, "recall")
    /\ IF offset[Tile(t)] = "none"
       THEN Goto(t, "peek") /\ UNCHANGED <<job, found, cancelled, excused>>
       ELSE Done(t)
    /\ UNCHANGED <<disk, caches, offset>>

\* RawElevation takes the reference height for a raster it cannot get.
Align(t) ==
    /\ At(t, "return") /\ job[t].op = "offset"
    /\ offset' = [offset EXCEPT ![Tile(t)] = IF found[t] THEN "aligned" ELSE "reference"]
    /\ Done(t)
    /\ UNCHANGED <<disk, caches>>

NextTile(t) ==
    /\ At(t, "return") /\ job[t].op # "offset"
    /\ IF found[t] /\ Len(job[t].tiles) > 1
       THEN /\ job' = [job EXCEPT ![t].tiles = Tail(@)] /\ Goto(t, "peek")
            /\ found' = [found EXCEPT ![t] = FALSE]
            /\ UNCHANGED <<cancelled, excused>>
       ELSE Done(t)
    /\ UNCHANGED <<disk, caches, offset>>

WorkerStep(t) ==
    \/ Begin(t) \/ EnsureMosaic(t) \/ EnsureMosaicFails(t) \/ Recall(t)
    \/ Peek(t) \/ Hit(t) \/ Miss(t) \/ FetchMissing(t)
    \/ Decode(t) \/ Repair(t) \/ Redecode(t)
    \/ Align(t) \/ NextTile(t)

-----------------------------------------------------------------------------
(***************************************************************************)
(* Around the store.                                                       *)
(***************************************************************************)
\* Something outside damages or deletes a file, perhaps unnoticed by its stamp.
Damage(k) ==
    /\ file[k] = "good"
    /\ \/ file' = [file EXCEPT ![k] = "damaged"] /\ vouched' \in {vouched, vouched \ {k}}
       \/ file' = [file EXCEPT ![k] = "missing"] /\ vouched' = vouched \ {k}
    /\ excused' = excused \cup {t \in Workers : k \in Range(job[t].tiles)}
    /\ UNCHANGED <<caches, offset, pc, job, found, cancelled>>

Next ==
    \/ \E t \in Workers : WorkerStep(t) \/ Cancel(t)
    \/ \E k \in Fragile : Damage(k)

Spec == Init /\ [][Next]_vars

\* The workers run.
Fairness == \A t \in Workers : WF_vars(WorkerStep(t))

FairSpec == Spec /\ Fairness

-----------------------------------------------------------------------------
TypeOK ==
    /\ file \in [Tiles -> {"missing", "good", "damaged"}]
    /\ vouched \subseteq Tiles /\ memory \subseteq Tiles
    /\ \A kind \in DOMAIN lru : lru[kind] \in Seq(AllOf(kind)) /\ bytes[kind] \in Nat
    /\ offset \in [Origins -> {"none", "aligned", "reference"}]
    /\ pc \in [Workers -> {"idle", "ensure", "recall", "peek", "lock", "fetch",
                           "decode", "repair", "redecode", "return"}]
    /\ found \in [Workers -> BOOLEAN]
    /\ cancelled \subseteq Workers /\ excused \subseteq Workers

\* The cache map, its list and its byte counter agree and respect the limit, with
\* several workers loading the same tile at once (TileStore.cc:342-466).
CacheConsistent ==
    /\ TypeOK
    /\ \A kind \in {"imagery", "elevation"} :
          /\ IsInjective(lru[kind])
          /\ Range(lru[kind]) = memory \cap AllOf(kind)
          /\ bytes[kind] = SumOfSizes(memory \cap AllOf(kind))
          /\ bytes[kind] <= Limit(kind)

\* A load ends without a raster only for a reason that arose during the call: its
\* request was superseded, a download failed, an imagery file was not there or a
\* file was damaged meanwhile.  A damaged file an earlier check vouches for is no
\* reason: it is repaired (TileStore.cc:359-364, 442-446).
FailureHasCause ==
    \A t \in Workers : At(t, "return") /\ ~found[t] => t \in excused

\* README.md:181: "By default, terrain at the geographic origin is aligned to local
\* Z = 0."  With nothing but superseded requests, the terrain ends up aligned.
OriginAligned == <>[](\A o \in Origins : offset[o] # "reference")

=============================================================================
