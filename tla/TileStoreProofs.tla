--------------------------- MODULE TileStoreProofs ---------------------------
(***************************************************************************)
(* Proofs about TileStore, for every set of workers and tiles, every job   *)
(* and every size and limit of the caches.                                 *)
(*                                                                         *)
(* A worker that repairs a file must not be misled by what other workers   *)
(* find out about the same file meanwhile: Repairing says what it relies   *)
(* on until it decodes the file again.                                     *)
(*                                                                         *)
(* The caches stay consistent because the mutex of a stripe is held from   *)
(* the miss to the insertion; the weight of a set of rasters is the number *)
(* of its bytes, which makes the order of a sum immaterial.                *)
(***************************************************************************)
EXTENDS TileStore, SequenceTheorems, FiniteSetTheorems, WellFoundedInduction, TLAPS

-----------------------------------------------------------------------------
(***************************************************************************)
(* What a call is.                                                         *)
(***************************************************************************)
Calls == [op : {"imagery", "mosaic", "offset"}, tiles : Seq(Tiles) \ {<<>>}]

\* A worker has a call unless it is idle.
CallsOK ==
    /\ pc \in [Workers -> {"idle", "ensure", "recall", "peek", "lock", "fetch",
                           "decode", "repair", "redecode", "return"}]
    /\ found \in [Workers -> BOOLEAN]
    /\ job \in [Workers -> Calls \cup {NoJob}]
    /\ \A t \in Workers : pc[t] # "idle" => job[t] \in Calls

\* The tile being loaded is one of the call's.
LEMMA TileOfCall ==
    ASSUME CallsOK, NEW t \in Workers, pc[t] # "idle"
    PROVE  Tile(t) \in Tiles /\ Tile(t) \in Range(job[t].tiles)
<1>1. job[t].tiles \in Seq(Tiles) /\ job[t].tiles # <<>>
  BY DEF CallsOK, Calls
<1>2. 1 \in DOMAIN job[t].tiles /\ Head(job[t].tiles) = job[t].tiles[1]
  BY <1>1
<1>3. QED
  BY <1>1, <1>2 DEF Tile, Range

\* The calls of the workers are preserved by every step.
LEMMA CallsStep == CallsOK /\ [Next]_vars => CallsOK'
<1> SUFFICES ASSUME CallsOK, [Next]_vars PROVE CallsOK'
  OBVIOUS
<1>1. ASSUME NEW t \in Workers, Begin(t)
      PROVE  CallsOK'
  <2>1. PICK j \in Jobs(t) :
          /\ job' = [job EXCEPT ![t] = j]
          /\ Goto(t, CASE j.op = "imagery" -> "lock"
                       [] j.op = "mosaic" -> "ensure"
                       [] j.op = "offset" -> "recall")
    BY <1>1 DEF Begin
  <2>2. j \in Calls
    BY ConstantsAssumption DEF AllJobs, Calls
  <2>3. j.op \in {"imagery", "mosaic", "offset"}
    BY <2>2 DEF Calls
  <2>4. pc' = [pc EXCEPT ![t] = "lock"] \/ pc' = [pc EXCEPT ![t] = "ensure"]
           \/ pc' = [pc EXCEPT ![t] = "recall"]
    BY <2>1, <2>3 DEF Goto
  <2>5. found' = found
    BY <1>1 DEF Begin
  <2>6. QED
    BY <2>1, <2>2, <2>4, <2>5 DEF CallsOK
<1>2. ASSUME NEW t \in Workers, Done(t)
      PROVE  CallsOK'
  BY <1>2 DEF CallsOK, Done, Goto
<1>3. ASSUME NEW t \in Workers, At(t, "return"), found[t], Len(job[t].tiles) > 1,
             job' = [job EXCEPT ![t].tiles = Tail(@)], Goto(t, "peek"),
             found' = [found EXCEPT ![t] = FALSE]
      PROVE  CallsOK'
  <2>1. job[t] \in Calls
    BY <1>3 DEF CallsOK, At
  <2>2. Tail(job[t].tiles) \in Seq(Tiles) /\ Tail(job[t].tiles) # <<>>
    <3> DEFINE list == job[t].tiles
    <3>1. list \in Seq(Tiles) /\ Len(list) > 1 /\ list # <<>>
      BY <1>3, <2>1 DEF Calls
    <3> HIDE DEF list
    <3>2. Tail(list) \in Seq(Tiles) /\ Len(Tail(list)) = Len(list) - 1
      BY <3>1, HeadTailProperties
    <3>3. Len(list) \in Nat /\ Len(Tail(list)) # 0
      BY <3>1, <3>2
    <3>4. Len(<<>>) = 0
      OBVIOUS
    <3>5. Tail(list) # <<>>
      BY <3>3, <3>4
    <3>6. QED
      BY <3>2, <3>5 DEF list
  <2>3. [job[t] EXCEPT !.tiles = Tail(@)] \in Calls
    BY <2>1, <2>2 DEF Calls
  <2>4. PICK c \in Calls : job' = [job EXCEPT ![t] = c]
    BY <1>3, <2>3
  <2>5. pc' = [pc EXCEPT ![t] = "peek"] /\ found' = [found EXCEPT ![t] = FALSE]
    BY <1>3 DEF Goto
  <2>6. QED
    BY <2>4, <2>5 DEF CallsOK
<1>4. ASSUME NEW t \in Workers, NextTile(t)
      PROVE  CallsOK'
  BY <1>2, <1>3, <1>4 DEF NextTile
<1>5. ASSUME NEW t \in Workers, Align(t) \/ EnsureMosaicFails(t)
      PROVE  CallsOK'
  BY <1>2, <1>5 DEF Align, EnsureMosaicFails
<1>6. ASSUME NEW t \in Workers, Recall(t)
      PROVE  CallsOK'
  BY <1>2, <1>6 DEF Recall, CallsOK, Goto, At
<1>7. ASSUME NEW t \in Workers, NEW place, pc[t] # "idle", job' = job,
             place \in {"peek", "lock", "fetch", "decode", "repair", "redecode"},
             Goto(t, place), found' = found
      PROVE  CallsOK'
  BY <1>7 DEF CallsOK, Goto
<1>8. ASSUME NEW t \in Workers, NEW raster \in BOOLEAN, pc[t] # "idle", job' = job,
             Return(t, raster)
      PROVE  CallsOK'
  BY <1>8 DEF CallsOK, Return, Goto
<1>9. ASSUME NEW t \in Workers, Peek(t) \/ Hit(t)
      PROVE  CallsOK'
  BY <1>7, <1>8, <1>9 DEF Peek, Hit, At
<1>10. ASSUME NEW t \in Workers, Miss(t)
       PROVE  CallsOK'
  <2>1. \/ Return(t, FALSE) \/ (Goto(t, "fetch") /\ found' = found)
        \/ (Goto(t, "decode") /\ found' = found)
    BY <1>10 DEF Miss
  <2>2. QED
    BY <1>7, <1>8, <1>10, <2>1 DEF Miss, At
<1>11. ASSUME NEW t \in Workers, FetchMissing(t) \/ Decode(t) \/ Repair(t) \/ EnsureMosaic(t)
       PROVE  CallsOK'
  <2>1. \/ Return(t, FALSE) \/ Return(t, TRUE)
        \/ \E place \in {"peek", "decode", "repair", "redecode"} : Goto(t, place) /\ found' = found
    BY <1>11 DEF FetchMissing, Decode, Repair, EnsureMosaic
  <2>2. QED
    BY <1>7, <1>8, <1>11, <2>1 DEF FetchMissing, Decode, Repair, EnsureMosaic, At
<1>12. ASSUME NEW t \in Workers, Redecode(t)
       PROVE  CallsOK'
  BY <1>8, <1>12 DEF Redecode, At
<1>13. ASSUME NEW t \in Workers, Cancel(t)
       PROVE  CallsOK'
  BY <1>13 DEF Cancel, CallsOK
<1>14. ASSUME NEW k \in Fragile, Damage(k)
       PROVE  CallsOK'
  BY <1>14 DEF Damage, CallsOK
<1>15. CASE UNCHANGED vars
  BY <1>15 DEF vars, CallsOK
<1>16. QED
  BY <1>1, <1>4, <1>5, <1>6, <1>9, <1>10, <1>11, <1>12, <1>13, <1>14, <1>15
     DEF Next, WorkerStep

\* They hold at the start.
LEMMA CallsInit == Init => CallsOK
BY DEF Init, CallsOK, NoJob

-----------------------------------------------------------------------------
(***************************************************************************)
(* Why a load fails.                                                       *)
(***************************************************************************)
FilesOK == file \in [Tiles -> {"missing", "good", "damaged"}]

\* A worker that repairs a file relies on nothing vouching for it until it is
\* downloaded, and on the download being good.
Relies(t) ==
    t \notin excused =>
        /\ At(t, "repair") => ~(file[Tile(t)] = "damaged" /\ Tile(t) \in vouched)
        /\ At(t, "redecode") => file[Tile(t)] = "good"
        /\ At(t, "return") => found[t]

Repairing ==
    /\ FilesOK
    /\ cancelled \subseteq excused
    /\ \A t \in Workers : Relies(t)

\* Nobody vouches for a damaged file, and good files stay good.
Harmless ==
    \A k \in Tiles : /\ file[k] = "good" => file'[k] = "good"
                     /\ file'[k] = "damaged" /\ k \in vouched' =>
                           file[k] = "damaged" /\ k \in vouched

\* What Ensure fetches becomes good and only good files are vouched for anew.
LEMMA StoredHarmless ==
    ASSUME FilesOK, NEW tiles \in SUBSET Tiles, NEW got, Stored(tiles, got)
    PROVE  FilesOK' /\ Harmless
<1>1. file' = [k \in Tiles |-> IF k \in got THEN "good" ELSE file[k]]
  BY DEF Stored
<1>2. vouched' \subseteq vouched \cup {k \in tiles : Ready(k)}
  BY DEF Stored
<1>3. FilesOK'
  BY <1>1 DEF FilesOK
<1>4. ASSUME NEW k \in Tiles, file'[k] = "damaged", k \in vouched'
      PROVE  file[k] = "damaged" /\ k \in vouched
  <2>1. file[k] = "damaged"
    BY <1>1, <1>4
  <2>2. Ready(k) => k \in vouched
    BY <2>1 DEF Ready
  <2>3. QED
    BY <1>2, <1>4, <2>1, <2>2
<1>5. QED
  BY <1>1, <1>3, <1>4 DEF Harmless

\* A worker is not concerned by another one's step.
LEMMA OthersRely ==
    ASSUME CallsOK, Repairing, Harmless, NEW u \in Workers,
           pc'[u] = pc[u], job'[u] = job[u], found'[u] = found[u],
           u \in excused => u \in excused'
    PROVE  Relies(u)'
<1>1. CASE pc[u] = "idle"
  BY <1>1 DEF Relies, At
<1>2. CASE pc[u] # "idle"
  <2>1. Tile(u) \in Tiles /\ Tile(u)' = Tile(u)
    BY <1>2, TileOfCall DEF Tile
  <2>2. QED
    BY <2>1 DEF Relies, At, Harmless, Repairing
<1>3. QED
  BY <1>1, <1>2

\* A step of one worker that leaves the others alone.
LEMMA OneWorker ==
    ASSUME CallsOK, Repairing, Harmless, FilesOK', NEW t \in Workers,
           \A u \in Workers \ {t} :
              /\ pc'[u] = pc[u] /\ job'[u] = job[u] /\ found'[u] = found[u]
              /\ u \in excused => u \in excused',
           cancelled' \subseteq excused',
           Relies(t)'
    PROVE  Repairing'
<1>1. \A u \in Workers \ {t} : Relies(u)'
  BY OthersRely
<1>2. \A u \in Workers : Relies(u)'
  BY <1>1 DEF Relies
<1>3. QED
  BY <1>2 DEF Repairing

\* Ensure on the tile being loaded: a failure is excused, success makes a file the
\* worker relies on good.
LEMMA FetchFacts ==
    ASSUME CallsOK, Repairing, NEW t \in Workers, pc[t] # "idle",
           NEW missed \in SUBSET {Tile(t)}, Fetch(t, {Tile(t)}, missed)
    PROVE  /\ Harmless /\ FilesOK'
           /\ excused \subseteq excused'
           /\ missed # {} => t \in excused'
           /\ missed = {} /\ ~(file[Tile(t)] = "damaged" /\ Tile(t) \in vouched) =>
                 file'[Tile(t)] = "good"
<1>1. Tile(t) \in Tiles
  BY TileOfCall
<1>2. Harmless /\ FilesOK'
  BY <1>1, StoredHarmless DEF Fetch, Repairing
<1>3. ASSUME missed = {}, ~(file[Tile(t)] = "damaged" /\ Tile(t) \in vouched)
      PROVE  file'[Tile(t)] = "good"
  <2>1. file' = [k \in Tiles |-> IF k \in {j \in {Tile(t)} : ~Ready(j)} \ missed
                                THEN "good" ELSE file[k]]
    BY DEF Fetch, Stored
  <2>2. CASE Ready(Tile(t))
    BY <1>1, <1>3, <2>1, <2>2 DEF Ready
  <2>3. CASE ~Ready(Tile(t))
    BY <1>1, <1>3, <2>1, <2>3
  <2>4. QED
    BY <2>2, <2>3
<1>4. excused \subseteq excused' /\ (missed # {} => t \in excused')
  BY DEF Fetch
<1>5. QED
  BY <1>2, <1>3, <1>4

\* The repair of damaged files is preserved by every step.
LEMMA RepairingStep == CallsOK /\ Repairing /\ [Next]_vars => Repairing'
<1> SUFFICES ASSUME CallsOK, Repairing, [Next]_vars PROVE Repairing'
  OBVIOUS
<1>0. /\ UNCHANGED disk => Harmless /\ FilesOK'
      /\ file' = file /\ vouched' \subseteq vouched => Harmless /\ FilesOK'
  BY DEF disk, Harmless, Repairing, FilesOK
<1>1. ASSUME NEW t \in Workers, Done(t), Harmless, FilesOK'
      PROVE  Repairing'
  <2>1. /\ pc' = [pc EXCEPT ![t] = "idle"] /\ job' = [job EXCEPT ![t] = NoJob]
        /\ found' = [found EXCEPT ![t] = FALSE]
        /\ cancelled' = cancelled \ {t} /\ excused' = excused \ {t}
    BY <1>1 DEF Done, Goto
  <2>2. Relies(t)'
    BY <2>1 DEF Relies, At, CallsOK
  <2>3. cancelled' \subseteq excused'
    BY <2>1 DEF Repairing
  <2>4. QED
    BY <1>1, <2>1, <2>2, <2>3, OneWorker DEF CallsOK
<1>2. ASSUME NEW t \in Workers, NEW place, Goto(t, place),
             place \notin {"repair", "redecode", "return"},
             \A u \in Workers \ {t} : job'[u] = job[u] /\ found'[u] = found[u],
             excused' = excused, cancelled' = cancelled, Harmless, FilesOK'
      PROVE  Repairing'
  <2>1. pc' = [pc EXCEPT ![t] = place]
    BY <1>2 DEF Goto
  <2>2. Relies(t)'
    BY <1>2, <2>1 DEF Relies, At, CallsOK
  <2>3. cancelled' \subseteq excused'
    BY <1>2 DEF Repairing
  <2>4. QED
    BY <1>2, <2>1, <2>2, <2>3, OneWorker DEF CallsOK
<1>3. ASSUME NEW t \in Workers, NEW raster \in BOOLEAN, Return(t, raster),
             raster \/ t \in excused', job' = job, excused \subseteq excused',
             cancelled' = cancelled, Harmless, FilesOK'
      PROVE  Repairing'
  <2>1. pc' = [pc EXCEPT ![t] = "return"] /\ found' = [found EXCEPT ![t] = raster]
    BY <1>3 DEF Return, Goto
  <2>2. Relies(t)'
    BY <1>3, <2>1 DEF Relies, At, CallsOK
  <2>3. cancelled' \subseteq excused'
    BY <1>3 DEF Repairing
  <2>4. QED
    BY <1>3, <2>1, <2>2, <2>3, OneWorker DEF CallsOK
<1>4. ASSUME NEW t \in Workers, Begin(t)
      PROVE  Repairing'
  <2>1. PICK j \in Jobs(t) :
          /\ job' = [job EXCEPT ![t] = j]
          /\ Goto(t, CASE j.op = "imagery" -> "lock"
                       [] j.op = "mosaic" -> "ensure"
                       [] j.op = "offset" -> "recall")
    BY <1>4 DEF Begin
  <2>2. j.op \in {"imagery", "mosaic", "offset"}
    BY ConstantsAssumption DEF AllJobs
  <2>3. Goto(t, "lock") \/ Goto(t, "ensure") \/ Goto(t, "recall")
    BY <2>1, <2>2
  <2>4. \A u \in Workers \ {t} : job'[u] = job[u] /\ found'[u] = found[u]
    BY <1>4, <2>1 DEF Begin, CallsOK
  <2>5. UNCHANGED <<disk, excused, cancelled>>
    BY <1>4 DEF Begin
  <2>6. QED
    BY <1>0, <1>2, <2>3, <2>4, <2>5
<1>5. ASSUME NEW t \in Workers, NextTile(t)
      PROVE  Repairing'
  <2>1. UNCHANGED disk
    BY <1>5 DEF NextTile
  <2>2. CASE Done(t)
    BY <1>0, <1>1, <2>1, <2>2
  <2>3. CASE /\ job' = [job EXCEPT ![t].tiles = Tail(@)] /\ Goto(t, "peek")
             /\ found' = [found EXCEPT ![t] = FALSE]
             /\ UNCHANGED <<cancelled, excused>>
    <3>1. \A u \in Workers \ {t} : job'[u] = job[u] /\ found'[u] = found[u]
      BY <2>3 DEF CallsOK
    <3>2. QED
      BY <1>0, <1>2, <2>1, <2>3, <3>1
  <2>4. QED
    BY <1>5, <2>2, <2>3 DEF NextTile
<1>6. ASSUME NEW t \in Workers, Align(t)
      PROVE  Repairing'
  BY <1>0, <1>1, <1>6 DEF Align
<1>7. ASSUME NEW t \in Workers, Recall(t)
      PROVE  Repairing'
  BY <1>0, <1>1, <1>2, <1>7 DEF Recall
<1>8. ASSUME NEW t \in Workers, EnsureMosaicFails(t)
      PROVE  Repairing'
  <2>1. Range(job[t].tiles) \subseteq Tiles
    <3>1. job[t].tiles \in Seq(Tiles)
      BY <1>8 DEF EnsureMosaicFails, At, CallsOK, Calls
    <3>2. QED
      BY <3>1 DEF Range
  <2>2. PICK got : Stored(Range(job[t].tiles), got)
    BY <1>8 DEF EnsureMosaicFails
  <2>3. Harmless /\ FilesOK'
    BY <2>1, <2>2, StoredHarmless DEF Repairing
  <2>4. QED
    BY <1>1, <1>8, <2>3 DEF EnsureMosaicFails
<1>9. ASSUME NEW t \in Workers, EnsureMosaic(t)
      PROVE  Repairing'
  <2>1. Range(job[t].tiles) \subseteq Tiles
    <3>1. job[t].tiles \in Seq(Tiles)
      BY <1>9 DEF EnsureMosaic, At, CallsOK, Calls
    <3>2. QED
      BY <3>1 DEF Range
  <2>2. PICK missed : Fetch(t, Range(job[t].tiles), missed)
    BY <1>9 DEF EnsureMosaic
  <2>3. Harmless /\ FilesOK'
    BY <2>1, <2>2, StoredHarmless DEF Repairing, Fetch
  <2>4. /\ pc' = [pc EXCEPT ![t] = "peek"] /\ job' = job /\ found' = found
        /\ cancelled' = cancelled
    BY <1>9 DEF EnsureMosaic, Goto
  <2>5. excused \subseteq excused'
    BY <2>2 DEF Fetch
  <2>6. Relies(t)'
    BY <2>4 DEF Relies, At, CallsOK
  <2>7. cancelled' \subseteq excused'
    BY <2>4, <2>5 DEF Repairing
  <2>8. QED
    BY <2>3, <2>4, <2>5, <2>6, <2>7, OneWorker DEF CallsOK
<1>10. ASSUME NEW t \in Workers, Peek(t) \/ Hit(t)
       PROVE  Repairing'
  BY <1>0, <1>2, <1>3, <1>10 DEF Peek, Hit
<1>11. ASSUME NEW t \in Workers, Miss(t)
       PROVE  Repairing'
  <2>1. /\ UNCHANGED disk /\ job' = job /\ cancelled' = cancelled
        /\ \/ Return(t, FALSE) /\ excused' = excused \cup {t}
           \/ Goto(t, "fetch") /\ UNCHANGED <<found, excused>>
           \/ Goto(t, "decode") /\ UNCHANGED <<found, excused>>
    BY <1>11 DEF Miss
  <2>2. QED
    BY <1>0, <1>2, <1>3, <2>1
<1>12. ASSUME NEW t \in Workers, FetchMissing(t)
       PROVE  Repairing'
  <2>1. PICK missed \in SUBSET {Tile(t)} :
          /\ Fetch(t, {Tile(t)}, missed)
          /\ IF missed = {} THEN Goto(t, "decode") /\ UNCHANGED found ELSE Return(t, FALSE)
    BY <1>12 DEF FetchMissing
  <2>2. pc[t] # "idle" /\ job' = job /\ cancelled' = cancelled
    BY <1>12 DEF FetchMissing, At
  <2>3. /\ Harmless /\ FilesOK' /\ excused \subseteq excused'
        /\ missed # {} => t \in excused'
    BY <2>1, <2>2, FetchFacts
  <2>4. CASE missed = {}
    <3>1. excused' = excused
      BY <2>1, <2>4 DEF Fetch
    <3>2. QED
      BY <1>2, <2>1, <2>2, <2>3, <2>4, <3>1
  <2>5. CASE missed # {}
    BY <1>3, <2>1, <2>2, <2>3, <2>5
  <2>6. QED
    BY <2>4, <2>5
<1>13. ASSUME NEW t \in Workers, Decode(t)
       PROVE  Repairing'
  <2>1. job' = job /\ cancelled' = cancelled /\ excused' = excused /\ file' = file
    BY <1>13 DEF Decode
  <2>2. CASE Return(t, TRUE) /\ UNCHANGED vouched
    BY <1>0, <1>3, <2>1, <2>2 DEF disk
  <2>3. CASE Return(t, FALSE) /\ UNCHANGED vouched /\ t \in cancelled
    BY <1>0, <1>3, <2>1, <2>3 DEF disk, Repairing
  <2>4. CASE vouched' = vouched \ {Tile(t)} /\ Goto(t, "repair") /\ UNCHANGED found
    <3>1. Harmless /\ FilesOK'
      BY <1>0, <2>1, <2>4
    <3>2. pc' = [pc EXCEPT ![t] = "repair"]
      BY <2>4 DEF Goto
    <3>3. Tile(t)' = Tile(t)
      BY <2>1 DEF Tile
    <3>4. Relies(t)'
      BY <2>4, <3>2, <3>3 DEF Relies, At, CallsOK
    <3>5. cancelled' \subseteq excused'
      BY <2>1 DEF Repairing
    <3>6. QED
      BY <2>1, <2>4, <3>1, <3>2, <3>4, <3>5, OneWorker DEF CallsOK
  <2>5. QED
    BY <1>13, <2>2, <2>3, <2>4 DEF Decode
<1>14. ASSUME NEW t \in Workers, Repair(t)
       PROVE  Repairing'
  <2>1. PICK missed \in SUBSET {Tile(t)} :
          /\ Fetch(t, {Tile(t)}, missed)
          /\ IF missed = {} THEN Goto(t, "redecode") /\ UNCHANGED found ELSE Return(t, FALSE)
    BY <1>14 DEF Repair
  <2>2. pc[t] = "repair" /\ job' = job /\ cancelled' = cancelled
    BY <1>14 DEF Repair, At
  <2>3. /\ Harmless /\ FilesOK' /\ excused \subseteq excused'
        /\ missed # {} => t \in excused'
        /\ missed = {} /\ ~(file[Tile(t)] = "damaged" /\ Tile(t) \in vouched) =>
              file'[Tile(t)] = "good"
    BY <2>1, <2>2, FetchFacts
  <2>4. CASE missed = {}
    <3>1. pc' = [pc EXCEPT ![t] = "redecode"] /\ found' = found
      BY <2>1, <2>4 DEF Goto
    <3>2. Tile(t)' = Tile(t)
      BY <2>2 DEF Tile
    <3>3. Relies(t)'
      BY <2>2, <2>3, <2>4, <3>1, <3>2 DEF Relies, At, CallsOK, Repairing
    <3>4. cancelled' \subseteq excused'
      BY <2>2, <2>3 DEF Repairing
    <3>5. QED
      BY <2>2, <2>3, <3>1, <3>3, <3>4, OneWorker DEF CallsOK
  <2>5. CASE missed # {}
    BY <1>3, <2>1, <2>2, <2>3, <2>5
  <2>6. QED
    BY <2>4, <2>5
<1>15. ASSUME NEW t \in Workers, Redecode(t)
       PROVE  Repairing'
  <2>1. /\ UNCHANGED disk /\ job' = job /\ cancelled' = cancelled /\ excused' = excused
        /\ Return(t, file[Tile(t)] = "good")
    BY <1>15 DEF Redecode
  <2>2. file[Tile(t)] = "good" \/ t \in excused
    BY <1>15 DEF Redecode, Repairing, Relies
  <2>3. QED
    BY <1>0, <1>3, <2>1, <2>2
<1>16. ASSUME NEW t \in Workers, Cancel(t)
       PROVE  Repairing'
  <2>1. /\ UNCHANGED <<disk, pc, job, found>>
        /\ cancelled' = cancelled \cup {t} /\ excused' = excused \cup {t}
    BY <1>16 DEF Cancel
  <2>2. \A u \in Workers : Relies(u)'
    BY <1>0, <2>1, OthersRely
  <2>3. QED
    BY <1>0, <2>1, <2>2 DEF Repairing
<1>17. ASSUME NEW k \in Fragile, Damage(k)
       PROVE  Repairing'
  <2>1. /\ UNCHANGED <<pc, job, found, cancelled>>
        /\ vouched' \subseteq vouched
        /\ \A j \in Tiles \ {k} : file'[j] = file[j]
        /\ FilesOK'
        /\ excused' = excused \cup {t \in Workers : k \in Range(job[t].tiles)}
    BY <1>17, ConstantsAssumption DEF Damage, FilesOK, Repairing
  <2>2. ASSUME NEW u \in Workers
        PROVE  Relies(u)'
    <3>1. CASE pc[u] = "idle"
      BY <2>1, <3>1 DEF Relies, At
    <3>2. CASE pc[u] # "idle"
      <4>1. Tile(u) \in Tiles /\ Tile(u) \in Range(job[u].tiles) /\ Tile(u)' = Tile(u)
        BY <2>1, <3>2, TileOfCall DEF Tile
      <4>2. u \in excused' \/ Tile(u) # k
        BY <2>1, <4>1
      <4>3. u \in excused => u \in excused'
        BY <2>1
      <4>4. Tile(u) # k => file'[Tile(u)] = file[Tile(u)]
        BY <2>1, <4>1
      <4>5. QED
        BY <2>1, <4>1, <4>2, <4>3, <4>4 DEF Relies, At, Repairing
    <3>3. QED
      BY <3>1, <3>2
  <2>3. QED
    BY <2>1, <2>2 DEF Repairing
<1>18. CASE UNCHANGED vars
  <2>1. UNCHANGED <<disk, pc, job, found, cancelled, excused>>
    BY <1>18 DEF vars
  <2>2. \A u \in Workers : Relies(u)'
    BY <1>0, <2>1, OthersRely
  <2>3. QED
    BY <1>0, <2>1, <2>2 DEF Repairing
<1>19. QED
  BY <1>4, <1>5, <1>6, <1>7, <1>8, <1>9, <1>10, <1>11, <1>12, <1>13, <1>14, <1>15, <1>16,
     <1>17, <1>18 DEF Next, WorkerStep

\* A load ends without a raster only for a reason that arose during the call, whatever
\* the other workers find out and download meanwhile (TileStore.cc:342-466).
THEOREM FailuresAreExcused == Spec => []FailureHasCause
<1>1. Init => CallsOK /\ Repairing
  BY CallsInit DEF Init, Repairing, FilesOK, Relies, At
<1>2. CallsOK /\ Repairing /\ [Next]_vars => (CallsOK /\ Repairing)'
  BY CallsStep, RepairingStep
<1>3. Repairing => FailureHasCause
  BY DEF Repairing, Relies, FailureHasCause
<1>4. QED
  BY <1>1, <1>2, <1>3, PTL DEF Spec

-----------------------------------------------------------------------------
(***************************************************************************)
(* The weight of a set of rasters: their bytes, counted.                   *)
(***************************************************************************)
\* Every set of numbers that is not empty has a least one.
LEMMA LeastNumber ==
    ASSUME NEW T \in SUBSET Nat, T # {}
    PROVE  \E n \in T : \A m \in T : n <= m
<1> DEFINE Below == {p \in Nat \X Nat : p[1] < p[2]}
<1>1. IsWellFoundedOn(Below, Nat)
  BY NatLessThanWellFounded DEF OpToRel
<1>2. \A x, y \in Nat : x < y => <<x, y>> \in Below
  OBVIOUS
<1> HIDE DEF Below
<1>3. PICK x \in T : \A y \in T : <<y, x>> \notin Below
  BY <1>1, WFMin
<1>4. ASSUME NEW y \in T PROVE x <= y
  <2>1. x \in Nat /\ y \in Nat /\ ~(y < x)
    BY <1>2, <1>3
  <2>2. QED
    BY <2>1
<1>5. QED
  BY <1>4

\* What holds of the empty set, and of a set once it holds of the set without
\* some element, holds of a finite set.
LEMMA LoopInduction ==
    ASSUME NEW D, IsFiniteSet(D), NEW P, {} \in P,
           \A s \in SUBSET D : s # {} => \E x \in s : s \ {x} \in P => s \in P
    PROVE  D \in P
<1> SUFFICES ASSUME D \notin P PROVE FALSE
  OBVIOUS
<1> DEFINE Failing == {n \in Nat : \E s \in SUBSET D : s \notin P /\ Cardinality(s) = n}
<1>1. Failing \in SUBSET Nat
  OBVIOUS
<1>2. Failing # {}
  BY FS_CardinalityType
<1>3. PICK n \in Failing : \A m \in Failing : n <= m
  BY <1>1, <1>2, LeastNumber
<1>4. PICK s \in SUBSET D : s \notin P /\ Cardinality(s) = n
  BY <1>3
<1>5. PICK x \in s : s \ {x} \in P => s \in P
  BY <1>4
<1>6. IsFiniteSet(s)
  BY FS_Subset
<1>7. IsFiniteSet(s \ {x}) /\ Cardinality(s \ {x}) = Cardinality(s) - 1
  BY <1>6, FS_RemoveElement
<1>8. Cardinality(s \ {x}) \in Nat /\ n \in Nat
  BY <1>7, FS_CardinalityType
<1>9. n - 1 \in Failing
  BY <1>4, <1>5, <1>7, <1>8
<1>10. QED
  BY <1>3, <1>8, <1>9

\* The bytes of some tiles, each with its tile.
BytesOf(S) == {b \in S \X Nat : b[2] \in 1..Size(b[1])}

\* One tile has as many as its size says.
LEMMA BytesOfTile ==
    ASSUME NEW k \in Tiles
    PROVE  IsFiniteSet(BytesOf({k})) /\ Cardinality(BytesOf({k})) = Size(k)
<1>1. Size(k) \in Nat /\ Size(k) > 0
  BY ConstantsAssumption
<1>2. BytesOf({k}) = {k} \X (1..Size(k))
  BY <1>1 DEF BytesOf
<1>3. IsFiniteSet({k}) /\ Cardinality({k}) = 1
  BY FS_Singleton
<1>4. IsFiniteSet(1..Size(k)) /\ Cardinality(1..Size(k)) = Size(k)
  BY <1>1, FS_Interval
<1>5. /\ IsFiniteSet({k} \X (1..Size(k)))
      /\ Cardinality({k} \X (1..Size(k))) = Cardinality({k}) * Cardinality(1..Size(k))
  BY <1>3, <1>4, FS_Product
<1>6. \A n \in Nat : 1 * n = n
  OBVIOUS
<1>7. Cardinality({k} \X (1..Size(k))) = Size(k)
  BY <1>1, <1>3, <1>4, <1>5, <1>6
<1>8. QED
  BY <1>2, <1>5, <1>7

\* One tile more, and as many bytes more.
LEMMA BytesOfMore ==
    ASSUME NEW s \in SUBSET Tiles, NEW k \in s, IsFiniteSet(BytesOf(s \ {k}))
    PROVE  /\ IsFiniteSet(BytesOf(s))
           /\ Cardinality(BytesOf(s)) = Cardinality(BytesOf(s \ {k})) + Size(k)
<1>1. IsFiniteSet(BytesOf({k})) /\ Cardinality(BytesOf({k})) = Size(k)
  BY BytesOfTile
<1>2. BytesOf(s) = BytesOf(s \ {k}) \cup BytesOf({k})
  BY DEF BytesOf
<1>3. BytesOf(s \ {k}) \cap BytesOf({k}) = {}
  BY DEF BytesOf
<1>4. /\ IsFiniteSet(BytesOf(s \ {k}) \cup BytesOf({k}))
      /\ Cardinality(BytesOf(s \ {k}) \cup BytesOf({k}))
           = Cardinality(BytesOf(s \ {k})) + Cardinality(BytesOf({k})) - Cardinality({})
  BY <1>1, <1>3, FS_Union
<1>5. Cardinality({}) = 0
  BY FS_EmptySet
<1>6. Cardinality(BytesOf(s \ {k})) \in Nat /\ Size(k) \in Nat
  BY FS_CardinalityType, ConstantsAssumption
<1>7. QED
  BY <1>1, <1>2, <1>4, <1>5, <1>6

\* Finitely many tiles have finitely many bytes.
LEMMA BytesOfFinite ==
    ASSUME NEW D \in SUBSET Tiles, IsFiniteSet(D)
    PROVE  IsFiniteSet(BytesOf(D))
<1> DEFINE P == {s \in SUBSET D : IsFiniteSet(BytesOf(s))}
<1>1. {} \in P
  <2>1. BytesOf({}) = {}
    BY DEF BytesOf
  <2>2. QED
    BY <2>1, FS_EmptySet
<1>2. ASSUME NEW s \in SUBSET D, s # {}
      PROVE  \E x \in s : s \ {x} \in P => s \in P
  <2>1. PICK x \in s : TRUE
    BY <1>2
  <2>2. s \ {x} \in P => s \in P
    BY BytesOfMore
  <2>3. QED
    BY <2>2
<1> HIDE DEF P
<1>3. D \in P
  BY <1>1, <1>2, LoopInduction
<1>4. QED
  BY <1>3 DEF P

\* The sum of the sizes is the number of bytes, in whatever order it is taken.
LEMMA SumIsCount ==
    ASSUME NEW D \in SUBSET Tiles, IsFiniteSet(D)
    PROVE  SumOfSizes(D) = Cardinality(BytesOf(D))
<1> DEFINE Body(h) == [s \in SUBSET D |-> IF s = {} THEN 0
                         ELSE h[s \ {CHOOSE k \in s : TRUE}] + Size(CHOOSE k \in s : TRUE)]
           loop == CHOOSE h : h = Body(h)
           count == [s \in SUBSET D |-> Cardinality(BytesOf(s))]
           P == {s \in SUBSET D : loop[s] = count[s]}
<1>1. SumOfSizes(D) = loop[D]
  BY DEF SumOfSizes, FoldSet, MapThenFoldSet
<1>2. \A s \in SUBSET D : s # {} => (CHOOSE k \in s : TRUE) \in s
  OBVIOUS
<1>3. BytesOf({}) = {}
  BY DEF BytesOf
<1>4. count[{}] = 0
  BY <1>3, FS_EmptySet
<1>5. ASSUME NEW s \in SUBSET D, NEW k \in s
      PROVE  count[s] = count[s \ {k}] + Size(k)
  <2>1. IsFiniteSet(s \ {k}) /\ s \ {k} \in SUBSET D
    BY FS_Subset
  <2>2. IsFiniteSet(BytesOf(s \ {k}))
    BY <2>1, BytesOfFinite
  <2>3. QED
    BY <2>1, <2>2, BytesOfMore
<1> HIDE DEF loop
<1>6. count = Body(count)
  <2>1. \A s \in SUBSET D : s # {} =>
           count[s] = count[s \ {CHOOSE k \in s : TRUE}] + Size(CHOOSE k \in s : TRUE)
    BY <1>2, <1>5
  <2>2. DOMAIN count = SUBSET D /\ count = [s \in SUBSET D |-> count[s]]
    OBVIOUS
  <2> HIDE DEF count
  <2>3. QED
    BY <1>4, <2>1, <2>2
<1> HIDE DEF count
<1>7. loop = Body(loop)
  BY <1>6 DEF loop
<1>8. /\ loop[{}] = 0
      /\ \A s \in SUBSET D : s # {} =>
           loop[s] = loop[s \ {CHOOSE k \in s : TRUE}] + Size(CHOOSE k \in s : TRUE)
  BY <1>7
<1>9. {} \in P
  BY <1>4, <1>8
<1>10. ASSUME NEW s \in SUBSET D, s # {}
       PROVE  \E k \in s : s \ {k} \in P => s \in P
  <2>1. (CHOOSE k \in s : TRUE) \in s
    BY <1>2, <1>10
  <2>2. PICK k \in s : loop[s] = loop[s \ {k}] + Size(k)
    BY <1>8, <1>10, <2>1
  <2>3. s \ {k} \in P => s \in P
    BY <1>5, <2>2
  <2>4. QED
    BY <2>3
<1> HIDE DEF P
<1>11. D \in P
  BY <1>9, <1>10, LoopInduction
<1>12. QED
  BY <1>1, <1>11 DEF P, count

\* What some tiles weigh without some of them.
LEMMA WeightMinus ==
    ASSUME NEW S \in SUBSET Tiles, IsFiniteSet(S), NEW O \in SUBSET S
    PROVE  /\ SumOfSizes(S) \in Nat /\ SumOfSizes(O) \in Nat /\ SumOfSizes(S \ O) \in Nat
           /\ SumOfSizes(S \ O) = SumOfSizes(S) - SumOfSizes(O)
<1>1. IsFiniteSet(O) /\ IsFiniteSet(S \ O) /\ O \in SUBSET Tiles /\ S \ O \in SUBSET Tiles
  BY FS_Subset
<1>2. /\ SumOfSizes(S) = Cardinality(BytesOf(S)) /\ SumOfSizes(O) = Cardinality(BytesOf(O))
      /\ SumOfSizes(S \ O) = Cardinality(BytesOf(S \ O))
  BY <1>1, SumIsCount
<1>3. IsFiniteSet(BytesOf(S)) /\ IsFiniteSet(BytesOf(O)) /\ IsFiniteSet(BytesOf(S \ O))
  BY <1>1, BytesOfFinite
<1>4. BytesOf(S \ O) = BytesOf(S) \ BytesOf(O) /\ BytesOf(S) \cap BytesOf(O) = BytesOf(O)
  BY DEF BytesOf
<1>5. Cardinality(BytesOf(S) \ BytesOf(O))
        = Cardinality(BytesOf(S)) - Cardinality(BytesOf(S) \cap BytesOf(O))
  BY <1>3, FS_Difference
<1>6. /\ Cardinality(BytesOf(S)) \in Nat /\ Cardinality(BytesOf(O)) \in Nat
      /\ Cardinality(BytesOf(S \ O)) \in Nat
  BY <1>3, FS_CardinalityType
<1>7. QED
  BY <1>2, <1>4, <1>5, <1>6

\* What some tiles weigh with one more.
LEMMA WeightPlus ==
    ASSUME NEW S \in SUBSET Tiles, IsFiniteSet(S), NEW k \in Tiles \ S
    PROVE  SumOfSizes(S \cup {k}) = SumOfSizes(S) + Size(k) /\ IsFiniteSet(S \cup {k})
<1>1. IsFiniteSet(S \cup {k}) /\ S \cup {k} \in SUBSET Tiles
  BY FS_AddElement
<1>2. (S \cup {k}) \ {k} = S
  OBVIOUS
<1>3. IsFiniteSet(BytesOf(S))
  BY BytesOfFinite
<1>4. Cardinality(BytesOf(S \cup {k})) = Cardinality(BytesOf(S)) + Size(k)
  BY <1>1, <1>2, <1>3, BytesOfMore
<1>5. QED
  BY <1>1, <1>4, SumIsCount

-----------------------------------------------------------------------------
(***************************************************************************)
(* Lists in which a tile occurs once.                                      *)
(***************************************************************************)
\* Once(list, S): what the list of a cache is.
Once(list, S) == list \in Seq(S) /\ IsInjective(list)

\* The tiles behind the first n.
Out(list, n) == {list[i] : i \in n + 1..Len(list)}

\* A list has finitely many tiles.
LEMMA RangeFinite ==
    ASSUME NEW S, NEW list, Once(list, S)
    PROVE  IsFiniteSet(Range(list)) /\ Range(list) \in SUBSET S
<1>1. list \in Seq(S) /\ Len(list) \in Nat /\ DOMAIN list = 1..Len(list)
  BY DEF Once
<1>2. Range(list) \in SUBSET S
  BY <1>1 DEF Range
<1>3. list \in Injection(1..Len(list), Range(list))
  BY <1>1 DEF Injection, Range, Once
<1>4. IsFiniteSet(1..Len(list))
  BY <1>1, FS_Interval
<1>5. list \in Surjection(1..Len(list), Range(list))
  BY <1>1 DEF Surjection, Range
<1>6. IsFiniteSet(Range(list))
  BY <1>4, <1>5, FS_Surjection
<1>7. QED
  BY <1>2, <1>6

\* A tile put in front of a list it is not in.
LEMMA ConsOnce ==
    ASSUME NEW S, NEW list, Once(list, S), NEW k \in S, k \notin Range(list)
    PROVE  /\ Once(<<k>> \o list, S)
           /\ Range(<<k>> \o list) = Range(list) \cup {k}
           /\ Len(<<k>> \o list) = Len(list) + 1 /\ (<<k>> \o list)[1] = k
<1> DEFINE new == <<k>> \o list
<1>1. list \in Seq(S) /\ Len(list) \in Nat /\ DOMAIN list = 1..Len(list)
  BY DEF Once
<1>2. <<k>> \in Seq(S) /\ Len(<<k>>) = 1 /\ <<k>>[1] = k
  OBVIOUS
<1>3. /\ new \in Seq(S) /\ Len(new) = 1 + Len(list)
      /\ \A i \in 1..1 + Len(list) : new[i] = IF i <= 1 THEN <<k>>[i] ELSE list[i - 1]
  BY <1>1, <1>2, ConcatProperties
<1> HIDE DEF new
<1>4. DOMAIN new = 1..1 + Len(list) /\ new[1] = k
  BY <1>1, <1>2, <1>3
<1>5. \A i \in 1..1 + Len(list) : i # 1 => i - 1 \in 1..Len(list) /\ new[i] = list[i - 1]
  BY <1>1, <1>3
<1>6. \A i \in 1..Len(list) : i + 1 \in 1..1 + Len(list) /\ new[i + 1] = list[i]
  BY <1>1, <1>3
<1>7. \A i \in 1..Len(list) : list[i] # k
  BY <1>1 DEF Range
<1>8. IsInjective(new)
  <2> SUFFICES ASSUME NEW a \in 1..1 + Len(list), NEW b \in 1..1 + Len(list), new[a] = new[b]
               PROVE  a = b
    BY <1>4 DEF IsInjective
  <2>1. CASE a = 1 \/ b = 1
    BY <1>4, <1>5, <1>7, <2>1
  <2>2. CASE a # 1 /\ b # 1
    <3>1. a - 1 \in DOMAIN list /\ b - 1 \in DOMAIN list /\ list[a - 1] = list[b - 1]
      BY <1>1, <1>5, <2>2
    <3>2. a - 1 = b - 1
      BY <3>1 DEF Once, IsInjective
    <3>3. QED
      BY <1>1, <3>2
  <2>3. QED
    BY <2>1, <2>2
<1>9. Range(new) = Range(list) \cup {k}
  <2>1. ASSUME NEW x \in Range(new) PROVE x \in Range(list) \cup {k}
    BY <1>1, <1>4, <1>5, <2>1 DEF Range
  <2>2. ASSUME NEW x \in Range(list) PROVE x \in Range(new)
    BY <1>1, <1>4, <1>6, <2>2 DEF Range
  <2>3. k \in Range(new)
    BY <1>1, <1>4 DEF Range
  <2>4. QED
    BY <2>1, <2>2, <2>3
<1>10. QED
  BY <1>1, <1>3, <1>4, <1>8, <1>9 DEF Once, new

\* The first n of a list.
LEMMA FirstOnce ==
    ASSUME NEW S, NEW list, Once(list, S), NEW n \in 0..Len(list)
    PROVE  /\ Once(SubSeq(list, 1, n), S)
           /\ Out(list, n) \in SUBSET Range(list)
           /\ Range(SubSeq(list, 1, n)) = Range(list) \ Out(list, n)
<1> DEFINE new == SubSeq(list, 1, n)
<1>1. list \in Seq(S) /\ Len(list) \in Nat /\ DOMAIN list = 1..Len(list) /\ n \in Nat
  BY DEF Once
<1>2. \A i \in 1..n : list[i] \in S /\ i \in 1..Len(list)
  BY <1>1
<1>3. /\ new \in Seq(S) /\ Len(new) = (IF 1 <= n THEN n - 1 + 1 ELSE 0)
      /\ \A i \in 1..n - 1 + 1 : new[i] = list[1 + i - 1]
  BY <1>1, <1>2, SubSeqProperties
<1> HIDE DEF new
<1>4. DOMAIN new = 1..n /\ \A i \in 1..n : new[i] = list[i]
  BY <1>1, <1>3
<1>5. IsInjective(new)
  BY <1>1, <1>2, <1>4 DEF IsInjective, Once
<1>6. Out(list, n) \in SUBSET Range(list)
  BY <1>1 DEF Out, Range
<1>7. ASSUME NEW x \in Range(new) PROVE x \in Range(list) \ Out(list, n)
  <2>1. PICK i \in 1..n : x = list[i]
    BY <1>4 DEF Range
  <2>2. x \in Range(list)
    BY <1>1, <1>2, <2>1 DEF Range
  <2>3. \A j \in n + 1..Len(list) : list[j] # list[i]
    BY <1>1, <1>2, <2>1 DEF Once, IsInjective
  <2>4. QED
    BY <2>1, <2>2, <2>3 DEF Out
<1>8. ASSUME NEW x \in Range(list) \ Out(list, n) PROVE x \in Range(new)
  <2>1. PICK i \in 1..Len(list) : x = list[i]
    BY <1>1 DEF Range
  <2>2. i \in 1..n
    BY <1>1, <1>8, <2>1 DEF Out
  <2>3. QED
    BY <1>4, <2>1, <2>2 DEF Range
<1>9. QED
  BY <1>3, <1>5, <1>6, <1>7, <1>8 DEF Once, new

\* A list without one of its tiles.
LEMMA WithoutOnce ==
    ASSUME NEW S, NEW list, Once(list, S), NEW k \in Range(list)
    PROVE  /\ Once(RemoveAt(list, Place(list, k)), S)
           /\ Range(RemoveAt(list, Place(list, k))) = Range(list) \ {k}
<1> DEFINE p == Place(list, k)
           before == SubSeq(list, 1, p - 1)
           after == SubSeq(list, p + 1, Len(list))
           new == before \o after
<1>1. list \in Seq(S) /\ Len(list) \in Nat /\ DOMAIN list = 1..Len(list)
  BY DEF Once
<1>2. p \in 1..Len(list) /\ list[p] = k
  BY <1>1 DEF Range, Place
<1>3. RemoveAt(list, p) = new
  BY DEF RemoveAt
<1> HIDE DEF p
<1>4. /\ before \in Seq(S) /\ Len(before) = p - 1
      /\ \A i \in 1..p - 1 : before[i] = list[i]
  <2>1. \A i \in 1..p - 1 : list[i] \in S
    BY <1>1, <1>2
  <2>2. /\ before \in Seq(S) /\ Len(before) = (IF 1 <= p - 1 THEN p - 1 - 1 + 1 ELSE 0)
        /\ \A i \in 1..p - 1 - 1 + 1 : before[i] = list[1 + i - 1]
    BY <1>1, <1>2, <2>1, SubSeqProperties
  <2> HIDE DEF before
  <2>3. QED
    BY <1>1, <1>2, <2>2
<1>5. /\ after \in Seq(S) /\ Len(after) = Len(list) - p
      /\ \A i \in 1..Len(list) - p : after[i] = list[p + i]
  <2>1. \A i \in p + 1..Len(list) : list[i] \in S
    BY <1>1, <1>2
  <2>2. /\ after \in Seq(S)
        /\ Len(after) = (IF p + 1 <= Len(list) THEN Len(list) - (p + 1) + 1 ELSE 0)
        /\ \A i \in 1..Len(list) - (p + 1) + 1 : after[i] = list[p + 1 + i - 1]
    BY <1>1, <1>2, <2>1, SubSeqProperties
  <2> HIDE DEF after
  <2>3. Len(after) = Len(list) - p
    <3>1. p \in Int /\ Len(list) \in Int /\ p <= Len(list)
      BY <1>1, <1>2
    <3>2. CASE p + 1 <= Len(list)
      <4>1. Len(after) = Len(list) - (p + 1) + 1
        BY <2>2, <3>2
      <4>2. QED
        BY <3>1, <4>1
    <3>3. CASE ~(p + 1 <= Len(list))
      <4>1. Len(after) = 0
        BY <2>2, <3>3
      <4>2. p = Len(list)
        BY <3>1, <3>3
      <4>3. QED
        BY <3>1, <4>1, <4>2
    <3>4. QED
      BY <3>2, <3>3
  <2>4. \A i \in 1..Len(list) - p : i \in 1..Len(list) - (p + 1) + 1 /\ p + 1 + i - 1 = p + i
    BY <1>1, <1>2
  <2>5. \A i \in 1..Len(list) - p : after[i] = list[p + i]
    <3> TAKE i \in 1..Len(list) - p
    <3>1. after[i] = list[p + 1 + i - 1]
      BY <2>2, <2>4
    <3>2. QED
      BY <2>4, <3>1
  <2>6. QED
    BY <2>2, <2>3, <2>5
<1> HIDE DEF before, after
<1>6. /\ new \in Seq(S) /\ Len(new) = Len(before) + Len(after)
      /\ \A i \in 1..Len(before) + Len(after) : new[i] =
            IF i <= Len(before) THEN before[i] ELSE after[i - Len(before)]
  BY <1>4, <1>5, ConcatProperties
<1> HIDE DEF new
<1>7. Len(new) = Len(list) - 1 /\ DOMAIN new = 1..Len(list) - 1
  BY <1>1, <1>2, <1>4, <1>5, <1>6
<1>8. \A i \in 1..Len(list) - 1 : new[i] = IF i < p THEN list[i] ELSE list[i + 1]
  <2> TAKE i \in 1..Len(list) - 1
  <2>1. CASE i < p
    <3>1. i \in 1..p - 1 /\ i <= Len(before) /\ i \in 1..Len(before) + Len(after)
      BY <1>1, <1>2, <1>4, <1>5, <2>1
    <3>2. QED
      BY <1>4, <1>6, <2>1, <3>1
  <2>2. CASE ~(i < p)
    <3>1. /\ ~(i <= Len(before)) /\ i \in 1..Len(before) + Len(after)
          /\ i - Len(before) \in 1..Len(list) - p /\ p + (i - Len(before)) = i + 1
      BY <1>1, <1>2, <1>4, <1>5, <2>2
    <3>2. QED
      BY <1>5, <1>6, <2>2, <3>1
  <2>3. QED
    BY <2>1, <2>2
<1>9. ASSUME NEW a \in 1..Len(list), NEW b \in 1..Len(list), list[a] = list[b]
      PROVE  a = b
  BY <1>1, <1>9 DEF Once, IsInjective
<1>10. IsInjective(new)
  <2> SUFFICES ASSUME NEW a \in 1..Len(list) - 1, NEW b \in 1..Len(list) - 1, new[a] = new[b]
               PROVE  a = b
    BY <1>7 DEF IsInjective
  <2>1. a \in 1..Len(list) /\ a + 1 \in 1..Len(list) /\ b \in 1..Len(list) /\ b + 1 \in 1..Len(list)
    BY <1>1
  <2>2. QED
    BY <1>1, <1>2, <1>8, <1>9, <2>1
<1>11. ASSUME NEW x \in Range(new) PROVE x \in Range(list) \ {k}
  <2>1. PICK i \in 1..Len(list) - 1 : x = new[i]
    BY <1>7 DEF Range
  <2>2. PICK j \in 1..Len(list) : x = list[j] /\ j # p
    BY <1>1, <1>2, <1>8, <2>1
  <2>3. QED
    BY <1>1, <1>2, <1>9, <2>2 DEF Range
<1>12. ASSUME NEW x \in Range(list) \ {k} PROVE x \in Range(new)
  <2>1. PICK j \in 1..Len(list) : x = list[j]
    BY <1>1 DEF Range
  <2>2. j # p
    BY <1>2, <1>12, <2>1
  <2>3. CASE j < p
    <3>1. j \in 1..Len(list) - 1 /\ new[j] = list[j]
      BY <1>1, <1>2, <1>8, <2>3
    <3>2. QED
      BY <1>7, <2>1, <3>1 DEF Range
  <2>4. CASE ~(j < p)
    <3>1. j - 1 \in 1..Len(list) - 1 /\ ~(j - 1 < p) /\ j - 1 + 1 = j
      BY <1>1, <1>2, <2>2, <2>4
    <3>2. new[j - 1] = list[j]
      BY <1>8, <3>1
    <3>3. QED
      BY <1>7, <2>1, <3>1, <3>2 DEF Range
  <2>5. QED
    BY <2>3, <2>4
<1>13. Once(new, S) /\ Range(new) = Range(list) \ {k}
  BY <1>6, <1>10, <1>11, <1>12 DEF Once
<1>14. QED
  BY <1>3, <1>13 DEF p

\* A tile moved to the front.
LEMMA ToFrontOnce ==
    ASSUME NEW S, NEW list, Once(list, S), NEW k \in S
    PROVE  /\ Once(ToFront(list, k), S)
           /\ Range(ToFront(list, k)) = Range(list) \cup {k}
           /\ Len(ToFront(list, k)) >= 1 /\ ToFront(list, k)[1] = k
<1>1. CASE k \in Range(list)
  <2> DEFINE rest == RemoveAt(list, Place(list, k))
  <2>1. Once(rest, S) /\ Range(rest) = Range(list) \ {k}
    BY <1>1, WithoutOnce
  <2>2. ToFront(list, k) = <<k>> \o rest
    BY <1>1 DEF ToFront
  <2> HIDE DEF rest
  <2>3. /\ Once(<<k>> \o rest, S) /\ Range(<<k>> \o rest) = Range(rest) \cup {k}
        /\ Len(<<k>> \o rest) = Len(rest) + 1 /\ (<<k>> \o rest)[1] = k
    BY <2>1, ConsOnce
  <2>4. Len(rest) \in Nat
    BY <2>1 DEF Once
  <2>5. QED
    BY <1>1, <2>1, <2>2, <2>3, <2>4
<1>2. CASE k \notin Range(list)
  <2>1. ToFront(list, k) = <<k>> \o list
    BY <1>2 DEF ToFront
  <2>2. /\ Once(<<k>> \o list, S) /\ Range(<<k>> \o list) = Range(list) \cup {k}
        /\ Len(<<k>> \o list) = Len(list) + 1 /\ (<<k>> \o list)[1] = k
    BY <1>2, ConsOnce
  <2>3. Len(list) \in Nat
    BY DEF Once
  <2>4. QED
    BY <2>1, <2>2, <2>3
<1>3. QED
  BY <1>1, <1>2

\* How much of a list is kept, and that it leaves the room asked for.
LEMMA KeptFacts ==
    ASSUME NEW S \in SUBSET Tiles, NEW list, Once(list, S), NEW weight \in Int, NEW room \in Int
    PROVE  LET n == Kept(list, weight, room) IN
           /\ n \in 0..Len(list)
           /\ weight - SumOfSizes(Out(list, n)) <= room \/ n = 0
<1> DEFINE Fits(m) == weight - SumOfSizes({list[i] : i \in m + 1..Len(list)}) <= room
           Spare == {d \in Nat : d <= Len(list) /\ (Fits(Len(list) - d) \/ d = Len(list))}
<1>1. Len(list) \in Nat
  BY DEF Once
<1> HIDE DEF Fits
<1>2. Len(list) \in Spare
  BY <1>1
<1>3. PICK d \in Spare : \A e \in Spare : d <= e
  BY <1>2, LeastNumber
<1>4. d \in Nat /\ d <= Len(list) /\ (Fits(Len(list) - d) \/ d = Len(list))
  BY <1>3
<1> DEFINE best == Len(list) - d
<1>5. best \in 0..Len(list) /\ (Fits(best) \/ best = 0)
  BY <1>1, <1>4
<1>6. ASSUME NEW m \in best + 1..Len(list) PROVE ~Fits(m)
  <2> SUFFICES ASSUME Fits(m) PROVE FALSE
    OBVIOUS
  <2>1. Len(list) - m \in Nat /\ Len(list) - m < d /\ Len(list) - (Len(list) - m) = m
    BY <1>1, <1>4
  <2>2. Len(list) - m \in Spare
    BY <1>1, <1>4, <2>1
  <2>3. QED
    BY <1>3, <1>4, <2>1, <2>2
<1> HIDE DEF best, Spare
<1>7. ASSUME NEW m \in best + 1..Len(list)
      PROVE  weight - SumOfSizes({list[i] : i \in m + 1..Len(list)}) > room
  <2>1. m \in 0..Len(list)
    BY <1>1, <1>5
  <2>2. Out(list, m) \in SUBSET Range(list)
    BY <2>1, FirstOnce
  <2>3. SumOfSizes(Out(list, m)) \in Nat
    <3>1. IsFiniteSet(Range(list)) /\ Range(list) \in SUBSET Tiles
      BY RangeFinite
    <3>2. QED
      BY <2>2, <3>1, WeightMinus
  <2>4. ~(weight - SumOfSizes(Out(list, m)) <= room)
    BY <1>6 DEF Fits, Out
  <2>5. weight - SumOfSizes(Out(list, m)) > room
    BY <2>3, <2>4
  <2>6. QED
    BY <2>5 DEF Out
<1>8. \E n \in 0..Len(list) :
         /\ weight - SumOfSizes({list[i] : i \in n + 1..Len(list)}) <= room \/ n = 0
         /\ \A m \in n + 1..Len(list) :
               weight - SumOfSizes({list[i] : i \in m + 1..Len(list)}) > room
  BY <1>5, <1>7 DEF Fits
<1>9. QED
  BY <1>8 DEF Kept, Out

-----------------------------------------------------------------------------
(***************************************************************************)
(* A cache within its limit.                                               *)
(***************************************************************************)
Cache(list, weight, S, limit) ==
    /\ Once(list, S)
    /\ weight = SumOfSizes(Range(list)) /\ weight <= limit

\* One tile alone weighs what its size is.
LEMMA WeightOfOne ==
    ASSUME NEW k \in Tiles
    PROVE  SumOfSizes({k}) = Size(k)
<1>1. IsFiniteSet({}) /\ {} \in SUBSET Tiles /\ {} \cup {k} = {k} /\ k \in Tiles \ {}
  BY FS_EmptySet
<1>2. SumOfSizes({} \cup {k}) = SumOfSizes({}) + Size(k)
  BY <1>1, WeightPlus
<1>3. BytesOf({}) = {}
  BY DEF BytesOf
<1>4. SumOfSizes({}) = 0
  BY <1>1, <1>3, SumIsCount, FS_EmptySet
<1>5. Size(k) \in Nat
  BY ConstantsAssumption
<1>6. QED
  BY <1>1, <1>2, <1>4, <1>5

\* LoadImagery makes room for a tile that is not in the cache.
LEMMA RoomMade ==
    ASSUME NEW S \in SUBSET Tiles, NEW list, NEW weight, NEW limit \in Nat,
           Cache(list, weight, S, limit), NEW k \in S, k \notin Range(list), Size(k) <= limit
    PROVE  LET n == Kept(list, weight, limit - Size(k)) IN
           /\ Cache(<<k>> \o SubSeq(list, 1, n), weight + Size(k) - SumOfSizes(Out(list, n)), S, limit)
           /\ Range(<<k>> \o SubSeq(list, 1, n)) = (Range(list) \ Out(list, n)) \cup {k}
           /\ Out(list, n) \in SUBSET Range(list)
<1> DEFINE n == Kept(list, weight, limit - Size(k))
           out == Out(list, n)
           rest == SubSeq(list, 1, n)
<1>1. Once(list, S) /\ weight = SumOfSizes(Range(list)) /\ weight <= limit
  BY DEF Cache
<1>2. IsFiniteSet(Range(list)) /\ Range(list) \in SUBSET Tiles
  BY <1>1, RangeFinite
<1>3. weight \in Nat /\ Size(k) \in Nat /\ limit - Size(k) \in Int
  <2>1. weight \in Nat
    BY <1>1, <1>2, WeightMinus
  <2>2. Size(k) \in Nat
    BY ConstantsAssumption
  <2>3. QED
    BY <2>1, <2>2
<1>4. n \in 0..Len(list) /\ (weight - SumOfSizes(out) <= limit - Size(k) \/ n = 0)
  BY <1>1, <1>3, KeptFacts
<1> HIDE DEF n
<1>5. Once(rest, S) /\ out \in SUBSET Range(list) /\ Range(rest) = Range(list) \ out
  BY <1>1, <1>4, FirstOnce
<1>6. n = 0 => out = Range(list)
  BY <1>1 DEF Out, Range, Once
<1> HIDE DEF out, rest
<1>7. /\ SumOfSizes(out) \in Nat /\ SumOfSizes(Range(rest)) \in Nat
      /\ SumOfSizes(Range(rest)) = weight - SumOfSizes(out)
  BY <1>1, <1>2, <1>5, WeightMinus
<1>8. k \notin Range(rest)
  BY <1>5
<1>9. Once(<<k>> \o rest, S) /\ Range(<<k>> \o rest) = Range(rest) \cup {k}
  BY <1>5, <1>8, ConsOnce
<1>10. SumOfSizes(Range(rest) \cup {k}) = SumOfSizes(Range(rest)) + Size(k)
  <2>1. IsFiniteSet(Range(rest)) /\ Range(rest) \in SUBSET Tiles /\ k \in Tiles \ Range(rest)
    BY <1>5, <1>8, RangeFinite
  <2>2. QED
    BY <2>1, WeightPlus
<1>11. weight + Size(k) - SumOfSizes(out) = SumOfSizes(Range(<<k>> \o rest))
  <2>1. SumOfSizes(Range(<<k>> \o rest)) = SumOfSizes(Range(rest)) + Size(k)
    BY <1>9, <1>10
  <2> DEFINE sum == SumOfSizes(Range(<<k>> \o rest))
             gone == SumOfSizes(out)
  <2>2. sum = weight - gone + Size(k) /\ gone \in Nat
    BY <1>7, <2>1
  <2> HIDE DEF sum, gone
  <2>3. weight + Size(k) - gone = sum
    BY <1>3, <2>2
  <2>4. QED
    BY <2>3 DEF sum, gone
<1>12. weight + Size(k) - SumOfSizes(out) <= limit
  <2>1. CASE n = 0
    BY <1>1, <1>3, <1>6, <2>1
  <2>2. CASE n # 0
    BY <1>3, <1>4, <1>7, <2>2
  <2>3. QED
    BY <2>1, <2>2
<1>13. Cache(<<k>> \o rest, weight + Size(k) - SumOfSizes(out), S, limit)
  BY <1>9, <1>11, <1>12 DEF Cache
<1>14. Range(<<k>> \o rest) = (Range(list) \ out) \cup {k}
  BY <1>5, <1>9
<1>15. QED
  BY <1>5, <1>13, <1>14 DEF n, out, rest

\* EvictDemLruIfNeeded keeps the newest raster whatever it weighs.
LEMMA NewestStays ==
    ASSUME NEW S \in SUBSET Tiles, NEW list, Once(list, S), NEW weight, NEW limit \in Nat,
           weight = SumOfSizes(Range(list)), Len(list) >= 1, Size(list[1]) <= limit
    PROVE  LET n == Max({1, Kept(list, weight, limit)}) IN
           /\ Cache(SubSeq(list, 1, n), weight - SumOfSizes(Out(list, n)), S, limit)
           /\ Range(SubSeq(list, 1, n)) = Range(list) \ Out(list, n)
           /\ Out(list, n) \in SUBSET Range(list) /\ list[1] \notin Out(list, n)
<1> DEFINE kept == Kept(list, weight, limit)
           n == Max({1, kept})
           out == Out(list, n)
           rest == SubSeq(list, 1, n)
<1>1. IsFiniteSet(Range(list)) /\ Range(list) \in SUBSET Tiles
  BY RangeFinite
<1>2. list \in Seq(S) /\ Len(list) \in Nat /\ DOMAIN list = 1..Len(list) /\ list[1] \in S
  BY DEF Once
<1>3. weight \in Nat /\ Size(list[1]) \in Nat
  BY <1>1, <1>2, WeightMinus, ConstantsAssumption
<1>4. kept \in 0..Len(list) /\ (weight - SumOfSizes(Out(list, kept)) <= limit \/ kept = 0)
  BY <1>3, KeptFacts
<1> HIDE DEF kept
<1>5. n = IF kept = 0 THEN 1 ELSE kept
  <2>1. kept \in Nat
    BY <1>2, <1>4
  <2>2. CASE kept = 0
    <3>1. 1 \in {1, kept} /\ (\A y \in {1, kept} : 1 >= y)
          /\ \A x \in {1, kept} : (\A y \in {1, kept} : x >= y) => x = 1
      BY <2>2
    <3>2. QED
      BY <2>2, <3>1 DEF Max
  <2>3. CASE kept # 0
    <3>1. kept \in {1, kept} /\ (\A y \in {1, kept} : kept >= y)
          /\ \A x \in {1, kept} : (\A y \in {1, kept} : x >= y) => x = kept
      BY <2>1, <2>3
    <3>2. QED
      BY <2>3, <3>1 DEF Max
  <2>4. QED
    BY <2>2, <2>3
<1> HIDE DEF n
<1>6. n \in 1..Len(list) /\ n \in 0..Len(list)
  BY <1>2, <1>4, <1>5
<1>7. Once(rest, S) /\ out \in SUBSET Range(list) /\ Range(rest) = Range(list) \ out
  BY <1>6, FirstOnce
<1>8. list[1] \notin out
  BY <1>2, <1>6 DEF Out, Once, IsInjective
<1>9. n = 1 => Range(list) \ out = {list[1]}
  <2> SUFFICES ASSUME n = 1 PROVE Range(list) \ out = {list[1]}
    OBVIOUS
  <2>1. ASSUME NEW x \in Range(list), x # list[1] PROVE x \in out
    <3>1. PICK i \in 1..Len(list) : x = list[i]
      BY <1>2 DEF Range
    <3>2. i \in n + 1..Len(list)
      BY <1>2, <2>1, <3>1
    <3>3. QED
      BY <3>1, <3>2 DEF Out
  <2>2. list[1] \in Range(list)
    BY <1>2 DEF Range
  <2> HIDE DEF out
  <2>3. QED
    BY <1>8, <2>1, <2>2
<1> HIDE DEF out, rest
<1>10. /\ SumOfSizes(out) \in Nat /\ SumOfSizes(Range(rest)) \in Nat
       /\ SumOfSizes(Range(rest)) = weight - SumOfSizes(out)
  BY <1>1, <1>7, WeightMinus
<1>11. weight - SumOfSizes(out) <= limit
  <2>1. CASE kept = 0
    <3>1. SumOfSizes(Range(rest)) = Size(list[1])
      BY <1>2, <1>5, <1>7, <1>9, <2>1, WeightOfOne
    <3>2. QED
      BY <1>10, <3>1
  <2>2. CASE kept # 0
    BY <1>4, <1>5, <2>2 DEF out
  <2>3. QED
    BY <2>1, <2>2
<1>12. Cache(rest, weight - SumOfSizes(out), S, limit)
  BY <1>7, <1>10, <1>11 DEF Cache
<1>13. QED
  BY <1>7, <1>8, <1>12 DEF rest, out, n, kept

-----------------------------------------------------------------------------
(***************************************************************************)
(* The two caches.                                                         *)
(***************************************************************************)
Kinds == {"imagery", "elevation"}

CacheOf(kind) ==
    /\ Cache(lru[kind], bytes[kind], AllOf(kind), Limit(kind))
    /\ Range(lru[kind]) = memory \cap AllOf(kind)

CachesOK ==
    /\ memory \in SUBSET Tiles
    /\ lru \in [Kinds -> Seq(Tiles)] /\ bytes \in [Kinds -> Nat]
    /\ \A kind \in Kinds : CacheOf(kind)

\* One kind of cache changes, the other one does not.
LEMMA OneCache ==
    ASSUME CachesOK, NEW kind \in Kinds, NEW list, NEW weight, NEW tiles \in SUBSET Tiles,
           Cache(list, weight, AllOf(kind), Limit(kind)),
           lru' = [lru EXCEPT ![kind] = list], bytes' = [bytes EXCEPT ![kind] = weight],
           memory' = tiles, Range(list) = tiles \cap AllOf(kind),
           tiles \ AllOf(kind) = memory \ AllOf(kind)
    PROVE  CachesOK'
<1>1. AllOf(kind) \in SUBSET Tiles
  BY DEF AllOf, Tiles
<1>2. list \in Seq(Tiles)
  BY <1>1 DEF Cache, Once
<1>3. weight \in Nat
  <2>1. IsFiniteSet(Range(list)) /\ Range(list) \in SUBSET Tiles
    BY <1>1, RangeFinite DEF Cache
  <2>2. QED
    BY <2>1, WeightMinus DEF Cache
<1>4. lru' \in [Kinds -> Seq(Tiles)] /\ bytes' \in [Kinds -> Nat]
  BY <1>2, <1>3 DEF CachesOK
<1>5. lru'[kind] = list /\ bytes'[kind] = weight
  BY DEF CachesOK
<1>6. CacheOf(kind)'
  BY <1>5 DEF CacheOf
<1>7. ASSUME NEW other \in Kinds, other # kind PROVE CacheOf(other)'
  <2>1. lru'[other] = lru[other] /\ bytes'[other] = bytes[other]
    BY <1>7 DEF CachesOK
  <2>2. AllOf(other) \cap AllOf(kind) = {}
    BY <1>7, ConstantsAssumption DEF AllOf, Kinds
  <2>3. tiles \cap AllOf(other) = memory \cap AllOf(other)
    BY <2>2
  <2>4. CacheOf(other)
    BY DEF CachesOK
  <2>5. QED
    BY <2>1, <2>3, <2>4 DEF CacheOf
<1>8. QED
  BY <1>4, <1>6, <1>7 DEF CachesOK

\* A tile in memory is touched.
LEMMA TouchCaches ==
    ASSUME CachesOK, NEW k \in memory, Touch(k)
    PROVE  CachesOK' /\ memory' = memory
<1> DEFINE kind == KindOf(k)
           list == ToFront(lru[kind], k)
<1>1. k \in Tiles /\ kind \in Kinds /\ k \in AllOf(kind) /\ AllOf(kind) \in SUBSET Tiles
  BY DEF CachesOK, KindOf, AllOf, Tiles, Kinds
<1>2. CacheOf(kind)
  BY <1>1 DEF CachesOK
<1>3. lru' = [lru EXCEPT ![kind] = list] /\ memory' = memory /\ bytes' = bytes
  BY DEF Touch
<1> HIDE DEF kind
<1>4. Once(list, AllOf(kind)) /\ Range(list) = Range(lru[kind]) \cup {k}
  BY <1>1, <1>2, ToFrontOnce DEF CacheOf, Cache
<1> HIDE DEF list
<1>5. Range(list) = Range(lru[kind]) /\ Range(list) = memory \cap AllOf(kind)
  BY <1>1, <1>2, <1>4 DEF CacheOf
<1>6. Cache(list, bytes[kind], AllOf(kind), Limit(kind))
  BY <1>2, <1>4, <1>5 DEF CacheOf, Cache
<1>7. bytes' = [bytes EXCEPT ![kind] = bytes[kind]]
  BY <1>1, <1>3 DEF CachesOK
<1>8. memory \in SUBSET Tiles
  BY DEF CachesOK
<1>9. QED
  BY <1>1, <1>3, <1>5, <1>6, <1>7, <1>8, OneCache

\* An imagery tile is inserted, which no other worker has inserted meanwhile.
LEMMA InsertImageryCaches ==
    ASSUME CachesOK, NEW k \in Imagery, k \notin memory, Size(k) <= Limit("imagery"),
           InsertImagery(k)
    PROVE  CachesOK' /\ memory' \in SUBSET (memory \cup {k})
<1> DEFINE list == lru["imagery"]
           weight == bytes["imagery"]
           limit == Limit("imagery")
           n == Kept(list, weight, limit - Size(k))
           out == Out(list, n)
           new == <<k>> \o SubSeq(list, 1, n)
           total == weight + Size(k) - SumOfSizes(out)
<1>1. /\ lru' = [lru EXCEPT !["imagery"] = new] /\ memory' = (memory \ out) \cup {k}
      /\ bytes' = [bytes EXCEPT !["imagery"] = total]
  BY DEF InsertImagery, Out
<1>2. CacheOf("imagery") /\ "imagery" \in Kinds /\ AllOf("imagery") = Imagery
  BY DEF CachesOK, Kinds, AllOf
<1>3. Cache(list, weight, Imagery, limit) /\ Range(list) = memory \cap Imagery
  BY <1>2 DEF CacheOf
<1>4. limit \in Nat /\ Imagery \in SUBSET Tiles /\ k \notin Range(list)
  BY <1>3, ConstantsAssumption DEF Tiles
<1> HIDE DEF list, weight
<1>5. /\ Cache(new, total, Imagery, limit)
      /\ Range(new) = (Range(list) \ out) \cup {k} /\ out \in SUBSET Range(list)
  BY <1>3, <1>4, RoomMade
<1> HIDE DEF new, total, out, n
<1>6. memory' \in SUBSET Tiles /\ memory' \in SUBSET (memory \cup {k})
  BY <1>1, <1>4 DEF CachesOK
<1>7. memory' \ Imagery = memory \ Imagery /\ Range(new) = memory' \cap Imagery
  BY <1>1, <1>3, <1>5
<1>8. CachesOK'
  BY <1>1, <1>2, <1>5, <1>6, <1>7, OneCache
<1>9. QED
  BY <1>6, <1>8

\* An elevation tile is inserted, perhaps once more.
LEMMA InsertElevationCaches ==
    ASSUME CachesOK, NEW k \in Elevation, Size(k) <= Limit("elevation"), InsertElevation(k)
    PROVE  CachesOK' /\ memory' \in SUBSET (memory \cup {k})
<1> DEFINE old == lru["elevation"]
           list == ToFront(old, k)
           weight == bytes["elevation"] + (IF k \in Range(old) THEN 0 ELSE Size(k))
           limit == Limit("elevation")
           n == Max({1, Kept(list, weight, limit)})
           out == Out(list, n)
           new == SubSeq(list, 1, n)
           total == weight - SumOfSizes(out)
<1>1. /\ lru' = [lru EXCEPT !["elevation"] = new] /\ memory' = (memory \ out) \cup {k}
      /\ bytes' = [bytes EXCEPT !["elevation"] = total]
  BY DEF InsertElevation, Out
<1>2. CacheOf("elevation") /\ "elevation" \in Kinds /\ AllOf("elevation") = Elevation
  BY DEF CachesOK, Kinds, AllOf
<1>3. /\ Cache(old, bytes["elevation"], Elevation, limit)
      /\ Range(old) = memory \cap Elevation
  BY <1>2 DEF CacheOf
<1>4. limit \in Nat /\ Elevation \in SUBSET Tiles /\ Size(k) \in Nat
  BY ConstantsAssumption DEF Tiles
<1> HIDE DEF old
<1>5. /\ Once(list, Elevation) /\ Range(list) = Range(old) \cup {k}
      /\ Len(list) >= 1 /\ list[1] = k
  BY <1>3, ToFrontOnce DEF Cache
<1> HIDE DEF list
<1>6. weight = SumOfSizes(Range(list))
  <2>1. bytes["elevation"] = SumOfSizes(Range(old)) /\ bytes["elevation"] \in Nat
    BY <1>2, <1>3 DEF Cache, CachesOK
  <2>2. CASE k \in Range(old)
    <3>1. Range(list) = Range(old)
      BY <1>5, <2>2
    <3>2. QED
      BY <2>1, <2>2, <3>1
  <2>3. CASE k \notin Range(old)
    <3>1. IsFiniteSet(Range(old)) /\ Range(old) \in SUBSET Tiles /\ k \in Tiles \ Range(old)
      BY <1>3, <1>4, <2>3, RangeFinite DEF Cache
    <3>2. SumOfSizes(Range(old) \cup {k}) = SumOfSizes(Range(old)) + Size(k)
      BY <3>1, WeightPlus
    <3>3. QED
      BY <1>5, <2>1, <2>3, <3>2
  <2>4. QED
    BY <2>2, <2>3
<1> HIDE DEF weight
<1>7. /\ Cache(new, total, Elevation, limit)
      /\ Range(new) = Range(list) \ out /\ out \in SUBSET Range(list) /\ k \notin out
  BY <1>4, <1>5, <1>6, NewestStays
<1> HIDE DEF new, total, out, n
<1>8. memory' \in SUBSET Tiles /\ memory' \in SUBSET (memory \cup {k})
  BY <1>1, <1>4 DEF CachesOK
<1>9. memory' \ Elevation = memory \ Elevation /\ Range(new) = memory' \cap Elevation
  BY <1>1, <1>3, <1>5, <1>7
<1>10. CachesOK'
  BY <1>1, <1>2, <1>7, <1>8, <1>9, OneCache
<1>11. QED
  BY <1>8, <1>10

-----------------------------------------------------------------------------
(***************************************************************************)
(* Workers and the caches.  Imagery is inserted without a look at what the *)
(* cache holds by then; that no other worker has inserted the tile since   *)
(* it was missed follows from the mutex of its stripe, held all the time.  *)
(***************************************************************************)
Exclusive ==
    \A t, u \in Workers :
       t # u /\ HoldsStripe(t) /\ HoldsStripe(u) =>
          ~(KindOf(Tile(t)) = KindOf(Tile(u)) /\ Stripe(Tile(t)) = Stripe(Tile(u)))

Fresh == \A t \in Workers : HoldsStripe(t) /\ Tile(t) \in Imagery => Tile(t) \notin memory

Loading == CachesOK /\ Exclusive /\ Fresh

\* Nobody takes a mutex, and what is inserted concerns no one who holds one.
LEMMA NobodyLocks ==
    ASSUME Loading, CachesOK',
           \A u \in Workers : HoldsStripe(u)' => HoldsStripe(u) /\ job'[u] = job[u],
           \A u \in Workers :
              HoldsStripe(u)' /\ Tile(u) \in Imagery => Tile(u) \notin memory' \ memory
    PROVE  Loading'
<1>1. \A u \in Workers : HoldsStripe(u)' => HoldsStripe(u) /\ Tile(u)' = Tile(u)
  BY DEF Tile
<1>2. Exclusive
  BY DEF Loading
<1>3. Fresh
  BY DEF Loading
<1>4. Exclusive'
  <2> SUFFICES ASSUME NEW t \in Workers, NEW u \in Workers, t # u, HoldsStripe(t)', HoldsStripe(u)'
               PROVE  ~(KindOf(Tile(t)') = KindOf(Tile(u)') /\ Stripe(Tile(t)') = Stripe(Tile(u)'))
    BY DEF Exclusive, KindOf
  <2>1. HoldsStripe(t) /\ Tile(t)' = Tile(t) /\ HoldsStripe(u) /\ Tile(u)' = Tile(u)
    BY <1>1
  <2>2. QED
    BY <1>2, <2>1 DEF Exclusive
<1>5. Fresh'
  <2> SUFFICES ASSUME NEW t \in Workers, HoldsStripe(t)', Tile(t)' \in Imagery
               PROVE  Tile(t)' \notin memory'
    BY DEF Fresh
  <2>1. HoldsStripe(t) /\ Tile(t)' = Tile(t)
    BY <1>1
  <2>2. QED
    BY <1>3, <2>1 DEF Fresh
<1>6. QED
  BY <1>4, <1>5 DEF Loading

\* One worker moves on without a mutex, or with the one it holds.
LEMMA WorkerMoves ==
    ASSUME CallsOK, Loading, CachesOK', memory' \in SUBSET memory, NEW t \in Workers,
           \A u \in Workers \ {t} : pc'[u] = pc[u] /\ job'[u] = job[u],
           HoldsStripe(t)' => HoldsStripe(t) /\ job'[t] = job[t]
    PROVE  Loading'
<1>1. \A u \in Workers : HoldsStripe(u)' => HoldsStripe(u) /\ job'[u] = job[u]
  BY DEF HoldsStripe
<1>2. QED
  BY <1>1, NobodyLocks

\* The caches depend on nothing else.
LEMMA CachesSame ==
    ASSUME CachesOK, UNCHANGED caches
    PROVE  CachesOK' /\ memory' \in SUBSET memory
BY DEF CachesOK, CacheOf, caches

\* A worker inserts the tile it has decoded.
LEMMA WorkerInserts ==
    ASSUME CallsOK, Loading, NEW t \in Workers, HoldsStripe(t), Insert(Tile(t)),
           \A u \in Workers \ {t} : pc'[u] = pc[u] /\ job'[u] = job[u], ~HoldsStripe(t)'
    PROVE  Loading'
<1>1. CachesOK /\ Exclusive /\ Fresh
  BY DEF Loading
<1>2. Tile(t) \in Tiles
  BY TileOfCall DEF HoldsStripe
<1>3. CachesOK' /\ memory' \in SUBSET (memory \cup {Tile(t)})
  <2>1. CASE Size(Tile(t)) > Limit(KindOf(Tile(t)))
    BY <1>1, <2>1, CachesSame DEF Insert
  <2>2. CASE ~(Size(Tile(t)) > Limit(KindOf(Tile(t))))
    <3>1. Size(Tile(t)) \in Nat /\ Limit(KindOf(Tile(t))) \in Nat
      BY <1>2, ConstantsAssumption DEF KindOf
    <3>2. Size(Tile(t)) <= Limit(KindOf(Tile(t)))
      BY <2>2, <3>1
    <3>3. CASE Tile(t) \in Imagery
      <4>1. Tile(t) \notin memory /\ InsertImagery(Tile(t)) /\ Size(Tile(t)) <= Limit("imagery")
        BY <1>1, <2>2, <3>2, <3>3 DEF Fresh, Insert, KindOf
      <4>2. QED
        BY <1>1, <3>3, <4>1, InsertImageryCaches
    <3>4. CASE Tile(t) \notin Imagery
      <4>1. /\ Tile(t) \in Elevation /\ InsertElevation(Tile(t))
            /\ Size(Tile(t)) <= Limit("elevation")
        BY <1>2, <2>2, <3>2, <3>4 DEF Insert, KindOf, Tiles
      <4>2. QED
        BY <1>1, <4>1, InsertElevationCaches
    <3>5. QED
      BY <3>3, <3>4
  <2>3. QED
    BY <2>1, <2>2
<1>4. \A u \in Workers : HoldsStripe(u)' => u # t /\ HoldsStripe(u) /\ job'[u] = job[u]
  BY DEF HoldsStripe
<1>5. ASSUME NEW u \in Workers, HoldsStripe(u)', Tile(u) = Tile(t)
      PROVE  FALSE
  BY <1>1, <1>4, <1>5 DEF Exclusive
<1>6. QED
  BY <1>3, <1>4, <1>5, NobodyLocks

\* A worker that misses a tile takes the mutex of its stripe.
LEMMA WorkerLocks ==
    ASSUME CallsOK, Loading, NEW t \in Workers, StripeFree(t), Tile(t) \notin memory,
           UNCHANGED caches, job' = job,
           \A u \in Workers \ {t} : pc'[u] = pc[u]
    PROVE  Loading'
<1>1. CachesOK /\ Exclusive /\ Fresh
  BY DEF Loading
<1>2. CachesOK' /\ memory' = memory
  BY <1>1, CachesSame DEF caches
<1>3. \A u \in Workers : Tile(u)' = Tile(u)
  BY DEF Tile
<1>4. \A u \in Workers \ {t} : HoldsStripe(u)' => HoldsStripe(u)
  BY DEF HoldsStripe
<1>5. Fresh'
  BY <1>1, <1>2, <1>3, <1>4 DEF Fresh
<1>6. ASSUME NEW u \in Workers \ {t}, HoldsStripe(u)
      PROVE  ~(KindOf(Tile(u)) = KindOf(Tile(t)) /\ Stripe(Tile(u)) = Stripe(Tile(t)))
  BY <1>6 DEF StripeFree
<1>7. Exclusive'
  <2> SUFFICES ASSUME NEW a \in Workers, NEW b \in Workers, a # b, HoldsStripe(a)', HoldsStripe(b)'
               PROVE  ~(KindOf(Tile(a)) = KindOf(Tile(b)) /\ Stripe(Tile(a)) = Stripe(Tile(b)))
    BY <1>3 DEF Exclusive, KindOf
  <2>1. CASE a = t
    BY <1>4, <1>6, <2>1
  <2>2. CASE b = t
    BY <1>4, <1>6, <2>2
  <2>3. CASE a # t /\ b # t
    BY <1>1, <1>4, <2>3 DEF Exclusive
  <2>4. QED
    BY <2>1, <2>2, <2>3
<1>8. QED
  BY <1>2, <1>5, <1>7 DEF Loading

\* The caches and the mutexes are preserved by every step.
LEMMA LoadingStep == CallsOK /\ Loading /\ [Next]_vars => Loading'
<1> SUFFICES ASSUME CallsOK, Loading, [Next]_vars PROVE Loading'
  OBVIOUS
<1>0. CachesOK
  BY DEF Loading
<1>1. UNCHANGED caches => CachesOK' /\ memory' \in SUBSET memory
  BY <1>0, CachesSame
<1>2. ASSUME NEW t \in Workers, UNCHANGED caches,
             \A u \in Workers \ {t} : pc'[u] = pc[u] /\ job'[u] = job[u],
             HoldsStripe(t)' => HoldsStripe(t) /\ job'[t] = job[t]
      PROVE  Loading'
  BY <1>1, <1>2, WorkerMoves
<1>3. ASSUME NEW t \in Workers, Done(t), UNCHANGED caches
      PROVE  Loading'
  <2>1. pc' = [pc EXCEPT ![t] = "idle"] /\ job' = [job EXCEPT ![t] = NoJob]
    BY <1>3 DEF Done, Goto
  <2>2. \A u \in Workers \ {t} : pc'[u] = pc[u] /\ job'[u] = job[u]
    BY <2>1 DEF CallsOK
  <2>3. ~HoldsStripe(t)'
    BY <2>1 DEF CallsOK, HoldsStripe
  <2>4. QED
    BY <1>2, <1>3, <2>2, <2>3
<1>4. ASSUME NEW t \in Workers, NEW place, Goto(t, place), UNCHANGED <<caches, job>>,
             place \in {"peek", "lock", "return"} \/ HoldsStripe(t)
      PROVE  Loading'
  <2>1. pc' = [pc EXCEPT ![t] = place] /\ job' = job
    BY <1>4 DEF Goto
  <2>2. \A u \in Workers \ {t} : pc'[u] = pc[u] /\ job'[u] = job[u]
    BY <2>1 DEF CallsOK
  <2>3. HoldsStripe(t)' => HoldsStripe(t) /\ job'[t] = job[t]
    BY <1>4, <2>1 DEF CallsOK, HoldsStripe
  <2>4. QED
    BY <1>2, <1>4, <2>2, <2>3
<1>5. ASSUME NEW t \in Workers, Begin(t)
      PROVE  Loading'
  <2>1. PICK j \in Jobs(t) :
          /\ job' = [job EXCEPT ![t] = j]
          /\ Goto(t, CASE j.op = "imagery" -> "lock"
                       [] j.op = "mosaic" -> "ensure"
                       [] j.op = "offset" -> "recall")
    BY <1>5 DEF Begin
  <2>2. j.op \in {"imagery", "mosaic", "offset"}
    BY ConstantsAssumption DEF AllJobs
  <2>3. pc' = [pc EXCEPT ![t] = "lock"] \/ pc' = [pc EXCEPT ![t] = "ensure"]
           \/ pc' = [pc EXCEPT ![t] = "recall"]
    BY <2>1, <2>2 DEF Goto
  <2>4. \A u \in Workers \ {t} : pc'[u] = pc[u] /\ job'[u] = job[u]
    BY <2>1, <2>3 DEF CallsOK
  <2>5. ~HoldsStripe(t)'
    BY <2>3 DEF CallsOK, HoldsStripe
  <2>6. UNCHANGED caches
    BY <1>5 DEF Begin
  <2>7. QED
    BY <1>2, <2>4, <2>5, <2>6
<1>6. ASSUME NEW t \in Workers, NextTile(t)
      PROVE  Loading'
  <2>1. UNCHANGED caches
    BY <1>6 DEF NextTile
  <2>2. CASE job' = [job EXCEPT ![t].tiles = Tail(@)] /\ Goto(t, "peek")
    <3>1. pc' = [pc EXCEPT ![t] = "peek"]
      BY <2>2 DEF Goto
    <3>2. \A u \in Workers \ {t} : pc'[u] = pc[u] /\ job'[u] = job[u]
      BY <2>2, <3>1 DEF CallsOK
    <3>3. ~HoldsStripe(t)'
      BY <3>1 DEF CallsOK, HoldsStripe
    <3>4. QED
      BY <1>2, <2>1, <3>2, <3>3
  <2>3. QED
    BY <1>3, <1>6, <2>1, <2>2 DEF NextTile
<1>7. ASSUME NEW t \in Workers, Align(t) \/ EnsureMosaicFails(t)
      PROVE  Loading'
  BY <1>3, <1>7 DEF Align, EnsureMosaicFails
<1>8. ASSUME NEW t \in Workers, Recall(t)
      PROVE  Loading'
  BY <1>3, <1>4, <1>8 DEF Recall
<1>9. ASSUME NEW t \in Workers, EnsureMosaic(t)
      PROVE  Loading'
  BY <1>4, <1>9 DEF EnsureMosaic
<1>10. ASSUME NEW t \in Workers, Peek(t) \/ Hit(t)
       PROVE  Loading'
  <2>1. job' = job /\ (pc' = [pc EXCEPT ![t] = "return"] \/ pc' = [pc EXCEPT ![t] = "lock"])
    BY <1>10 DEF Peek, Hit, Goto, Return
  <2>2. \A u \in Workers \ {t} : pc'[u] = pc[u] /\ job'[u] = job[u]
    BY <2>1 DEF CallsOK
  <2>3. ~HoldsStripe(t)'
    BY <2>1 DEF CallsOK, HoldsStripe
  <2>4. UNCHANGED caches \/ (Tile(t) \in memory /\ Touch(Tile(t)))
    BY <1>10 DEF Peek, Hit
  <2>5. CachesOK' /\ memory' \in SUBSET memory
    BY <1>0, <1>1, <2>4, TouchCaches
  <2>6. QED
    BY <2>2, <2>3, <2>5, WorkerMoves
<1>11. ASSUME NEW t \in Workers, Miss(t)
       PROVE  Loading'
  <2>1. StripeFree(t) /\ Tile(t) \notin memory /\ UNCHANGED caches /\ job' = job
    BY <1>11 DEF Miss
  <2>2. \E place : Goto(t, place)
    BY <1>11 DEF Miss, Return
  <2>3. \A u \in Workers \ {t} : pc'[u] = pc[u]
    BY <2>2 DEF Goto, CallsOK
  <2>4. QED
    BY <2>1, <2>3, WorkerLocks
<1>12. ASSUME NEW t \in Workers, FetchMissing(t) \/ Repair(t)
       PROVE  Loading'
  <2>1. UNCHANGED <<caches, job>> /\ HoldsStripe(t)
    BY <1>12 DEF FetchMissing, Repair, At, HoldsStripe
  <2>2. \E place : Goto(t, place)
    BY <1>12 DEF FetchMissing, Repair, Return
  <2>3. QED
    BY <1>4, <2>1, <2>2
<1>13. ASSUME NEW t \in Workers, Decode(t) \/ Redecode(t)
       PROVE  Loading'
  <2>1. HoldsStripe(t) /\ job' = job
    BY <1>13 DEF Decode, Redecode, At, HoldsStripe
  <2>2. (Insert(Tile(t)) /\ Goto(t, "return")) \/ (UNCHANGED caches /\ \E place : Goto(t, place))
    BY <1>13 DEF Decode, Redecode, Return
  <2>3. CASE UNCHANGED caches /\ \E place : Goto(t, place)
    BY <1>4, <2>1, <2>3
  <2>4. CASE Insert(Tile(t)) /\ Goto(t, "return")
    <3>1. pc' = [pc EXCEPT ![t] = "return"]
      BY <2>4 DEF Goto
    <3>2. \A u \in Workers \ {t} : pc'[u] = pc[u] /\ job'[u] = job[u]
      BY <2>1, <3>1 DEF CallsOK
    <3>3. ~HoldsStripe(t)'
      BY <3>1 DEF CallsOK, HoldsStripe
    <3>4. QED
      BY <2>1, <2>4, <3>2, <3>3, WorkerInserts
  <2>5. QED
    BY <2>2, <2>3, <2>4
<1>14. ASSUME UNCHANGED <<caches, pc, job>>
       PROVE  Loading'
  <2>1. \A u \in Workers : HoldsStripe(u)' => HoldsStripe(u) /\ job'[u] = job[u]
    BY <1>14 DEF HoldsStripe
  <2>2. CachesOK' /\ memory' \in SUBSET memory
    BY <1>1, <1>14
  <2>3. QED
    BY <2>1, <2>2, NobodyLocks
<1>15. ASSUME NEW t \in Workers, Cancel(t)
       PROVE  Loading'
  BY <1>14, <1>15 DEF Cancel
<1>16. ASSUME NEW k \in Fragile, Damage(k)
       PROVE  Loading'
  BY <1>14, <1>16 DEF Damage
<1>17. CASE UNCHANGED vars
  BY <1>14, <1>17 DEF vars
<1>18. QED
  BY <1>5, <1>6, <1>7, <1>8, <1>9, <1>10, <1>11, <1>12, <1>13, <1>15, <1>16, <1>17
     DEF Next, WorkerStep

\* The caches are empty at the start.
LEMMA LoadingInit == Init => Loading
<1> SUFFICES ASSUME Init PROVE Loading
  OBVIOUS
<1>1. memory = {} /\ lru = [kind \in Kinds |-> <<>>] /\ bytes = [kind \in Kinds |-> 0]
  BY DEF Init, Kinds
<1>2. lru \in [Kinds -> Seq(Tiles)] /\ bytes \in [Kinds -> Nat]
  BY <1>1
<1>3. ASSUME NEW kind \in Kinds PROVE CacheOf(kind)
  <2>1. lru[kind] = <<>> /\ bytes[kind] = 0
    BY <1>1
  <2>2. Once(<<>>, AllOf(kind)) /\ Range(<<>>) = {}
    BY DEF Once, Range, IsInjective
  <2>3. SumOfSizes({}) = 0
    <3>1. BytesOf({}) = {}
      BY DEF BytesOf
    <3>2. QED
      BY <3>1, SumIsCount, FS_EmptySet
  <2>4. Limit(kind) \in Nat
    BY ConstantsAssumption DEF Kinds
  <2>5. Cache(<<>>, 0, AllOf(kind), Limit(kind))
    BY <2>2, <2>3, <2>4 DEF Cache
  <2>6. memory \cap AllOf(kind) = {} /\ Range(lru[kind]) = {}
    BY <1>1, <2>1, <2>2
  <2>7. QED
    BY <2>1, <2>5, <2>6 DEF CacheOf
<1>4. \A t \in Workers : ~HoldsStripe(t)
  BY DEF Init, HoldsStripe
<1>5. QED
  BY <1>1, <1>2, <1>3, <1>4 DEF Loading, CachesOK, Exclusive, Fresh

-----------------------------------------------------------------------------
(***************************************************************************)
(* The rest of the types, and the theorem.                                 *)
(***************************************************************************)
Sorts ==
    /\ vouched \in SUBSET Tiles
    /\ offset \in [Origins -> {"none", "aligned", "reference"}]
    /\ cancelled \in SUBSET Workers /\ excused \in SUBSET Workers

\* They are preserved by every step.
LEMMA SortsStep == CallsOK /\ Sorts /\ [Next]_vars => Sorts'
<1> SUFFICES ASSUME CallsOK, Sorts, [Next]_vars PROVE Sorts'
  OBVIOUS
<1>1. ASSUME NEW t \in Workers, Done(t), UNCHANGED <<disk, offset>>
      PROVE  Sorts'
  BY <1>1 DEF Sorts, Done, disk
<1>2. ASSUME NEW t \in Workers, NEW tiles \in SUBSET Tiles, NEW got, Stored(tiles, got)
      PROVE  vouched' \in SUBSET Tiles
  BY <1>2 DEF Stored, Sorts
<1>3. ASSUME NEW t \in Workers, NEW tiles \in SUBSET Tiles, NEW missed, Fetch(t, tiles, missed),
             UNCHANGED <<offset, cancelled>>
      PROVE  Sorts'
  <2>1. vouched' \in SUBSET Tiles
    BY <1>2, <1>3 DEF Fetch
  <2>2. excused' \in SUBSET Workers
    BY <1>3 DEF Fetch, Sorts
  <2>3. QED
    BY <1>3, <2>1, <2>2 DEF Sorts
<1>4. ASSUME NEW t \in Workers, At(t, "ensure")
      PROVE  Range(job[t].tiles) \in SUBSET Tiles
  <2>1. job[t].tiles \in Seq(Tiles)
    BY <1>4 DEF At, CallsOK, Calls
  <2>2. QED
    BY <2>1 DEF Range
<1>5. ASSUME NEW t \in Workers, Begin(t) \/ Peek(t) \/ Hit(t) \/ Redecode(t)
      PROVE  Sorts'
  BY <1>5 DEF Sorts, Begin, Peek, Hit, Redecode, disk
<1>6. ASSUME NEW t \in Workers, EnsureMosaic(t)
      PROVE  Sorts'
  BY <1>3, <1>4, <1>6 DEF EnsureMosaic
<1>7. ASSUME NEW t \in Workers, EnsureMosaicFails(t)
      PROVE  Sorts'
  <2>1. PICK got : Stored(Range(job[t].tiles), got)
    BY <1>7 DEF EnsureMosaicFails
  <2>2. vouched' \in SUBSET Tiles
    BY <1>2, <1>4, <1>7, <2>1 DEF EnsureMosaicFails
  <2>3. cancelled' \in SUBSET Workers /\ excused' \in SUBSET Workers /\ offset' = offset
    BY <1>7 DEF EnsureMosaicFails, Done, Sorts
  <2>4. QED
    BY <2>2, <2>3 DEF Sorts
<1>8. ASSUME NEW t \in Workers, Recall(t)
      PROVE  Sorts'
  BY <1>8 DEF Recall, Done, Sorts, disk
<1>9. ASSUME NEW t \in Workers, Miss(t)
      PROVE  Sorts'
  BY <1>9 DEF Miss, Sorts, disk
<1>10. ASSUME NEW t \in Workers, FetchMissing(t) \/ Repair(t)
       PROVE  Sorts'
  <2>1. {Tile(t)} \in SUBSET Tiles
    BY <1>10, TileOfCall DEF FetchMissing, Repair, At
  <2>2. PICK missed : Fetch(t, {Tile(t)}, missed)
    BY <1>10 DEF FetchMissing, Repair
  <2>3. UNCHANGED <<offset, cancelled>>
    BY <1>10 DEF FetchMissing, Repair
  <2>4. QED
    BY <1>3, <2>1, <2>2, <2>3
<1>11. ASSUME NEW t \in Workers, Decode(t)
       PROVE  Sorts'
  <2>1. vouched' = vouched \/ vouched' = vouched \ {Tile(t)}
    BY <1>11 DEF Decode
  <2>2. QED
    BY <1>11, <2>1 DEF Decode, Sorts
<1>12. ASSUME NEW t \in Workers, Align(t)
       PROVE  Sorts'
  <2>1. offset' \in [Origins -> {"none", "aligned", "reference"}]
    BY <1>12 DEF Align, Sorts
  <2>2. vouched' = vouched /\ cancelled' \in SUBSET Workers /\ excused' \in SUBSET Workers
    BY <1>12 DEF Align, Done, Sorts, disk
  <2>3. QED
    BY <2>1, <2>2 DEF Sorts
<1>13. ASSUME NEW t \in Workers, NextTile(t)
       PROVE  Sorts'
  BY <1>13 DEF NextTile, Done, Sorts, disk
<1>14. ASSUME NEW t \in Workers, Cancel(t)
       PROVE  Sorts'
  BY <1>14 DEF Cancel, Sorts, disk
<1>15. ASSUME NEW k \in Fragile, Damage(k)
       PROVE  Sorts'
  BY <1>15 DEF Damage, Sorts
<1>16. CASE UNCHANGED vars
  BY <1>16 DEF vars, disk, Sorts
<1>17. QED
  BY <1>5, <1>6, <1>7, <1>8, <1>9, <1>10, <1>11, <1>12, <1>13, <1>14, <1>15, <1>16
     DEF Next, WorkerStep

\* The limits are respected and nothing is counted twice or forgotten, however
\* workers that load the same tiles follow one another (TileStore.cc:342-466).
THEOREM CachesAreConsistent == Spec => []CacheConsistent
<1> DEFINE IInv == CallsOK /\ Repairing /\ Loading /\ Sorts
<1>1. Init => IInv
  <2>1. Init => Repairing /\ Sorts
    BY DEF Init, Repairing, FilesOK, Relies, At, Sorts
  <2>2. QED
    BY <2>1, CallsInit, LoadingInit
<1>2. IInv /\ [Next]_vars => IInv'
  BY CallsStep, RepairingStep, LoadingStep, SortsStep
<1>3. IInv => CacheConsistent
  <2> SUFFICES ASSUME IInv PROVE CacheConsistent
    OBVIOUS
  <2>1. CachesOK
    BY DEF Loading
  <2>2. ASSUME NEW kind \in Kinds
        PROVE  /\ lru[kind] \in Seq(AllOf(kind)) /\ IsInjective(lru[kind])
               /\ Range(lru[kind]) = memory \cap AllOf(kind)
               /\ bytes[kind] = SumOfSizes(memory \cap AllOf(kind))
               /\ bytes[kind] <= Limit(kind) /\ bytes[kind] \in Nat
    <3>1. CacheOf(kind)
      BY <2>1 DEF CachesOK
    <3>2. Range(lru[kind]) = memory \cap AllOf(kind)
      BY <3>1 DEF CacheOf
    <3>3. bytes[kind] = SumOfSizes(memory \cap AllOf(kind)) /\ bytes[kind] <= Limit(kind)
      BY <3>1, <3>2 DEF CacheOf, Cache
    <3>4. lru[kind] \in Seq(AllOf(kind)) /\ IsInjective(lru[kind])
      BY <3>1 DEF CacheOf, Cache, Once
    <3>5. bytes[kind] \in Nat
      BY <2>1 DEF CachesOK
    <3>6. QED
      BY <3>2, <3>3, <3>4, <3>5
  <2>3. DOMAIN lru = Kinds /\ memory \subseteq Tiles
    BY <2>1 DEF CachesOK
  <2>4. TypeOK
    <3>1. \A kind \in DOMAIN lru : lru[kind] \in Seq(AllOf(kind)) /\ bytes[kind] \in Nat
      BY <2>2, <2>3
    <3>2. QED
      BY <2>3, <3>1 DEF TypeOK, CallsOK, Repairing, FilesOK, Sorts
  <2>5. QED
    BY <2>2, <2>4 DEF CacheConsistent, Kinds
<1>4. QED
  BY <1>1, <1>2, <1>3, PTL DEF Spec

=============================================================================
