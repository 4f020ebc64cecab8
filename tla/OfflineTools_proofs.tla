------------------------ MODULE OfflineTools_proofs ------------------------
(***************************************************************************)
(* The theorems about the offline tools, for any client, plan, faults,     *)
(* threads and parts of a tile.  What a step of one tool does is in the    *)
(* modules MapExtract_proofs, MoveMapBuild_proofs and VmapAssemble_proofs; *)
(* here the tools run one after the other.                                 *)
(***************************************************************************)
EXTENDS OfflineTools, MapExtract_proofs, MoveMapBuild_proofs, VmapAssemble_proofs,
        FiniteSetTheorems, WellFoundedInduction, TLAPS

\* One tool runs at a time.
OneInv == ~(MapRunning /\ Building)

PlanInv == plan \in Seq(Commands)

\* The command lines of the generator.
Args == {c.args : c \in {c \in Commands : c.tool = "move-map-gen"}}

\* None of them names a map twice.
MapsNamedOnce == \A args \in Args : NamedOnce(args)

-----------------------------------------------------------------------------
(* Facts of the library that the tools rest on *)

(* The pools: a set of workers that one more joins, or one leaves. *)
LEMMA PoolsCounted == PoolFacts
  <1>1. ASSUME NEW S, NEW x, IsFiniteSet(S)
        PROVE  /\ Cardinality(S) \in Nat /\ IsFiniteSet(S \cup {x}) /\ IsFiniteSet(S \ {x})
               /\ Cardinality(S \cup {x}) \in {Cardinality(S), Cardinality(S) + 1}
               /\ Cardinality(S \ {x}) \in {Cardinality(S), Cardinality(S) - 1}
    BY <1>1, FS_AddElement, FS_RemoveElement, FS_CardinalityType
  <1> QED
    BY <1>1, FS_EmptySet DEF PoolFacts

(* The lists of the tools: their elements are finitely many, and of the places *)
(* that have a property one is the first.                                      *)
LEMMA ListsCounted == ListFacts
  <1>Least.
      ASSUME NEW T \in SUBSET Nat, T # {}
      PROVE  \E x \in T : \A y \in T : x <= y
    <2> USE <1>Least
    <2> DEFINE R == OpToRel(<, Nat)
    <2>1. IsWellFoundedOn(R, Nat)
      BY NatLessThanWellFounded, Zenon
    <2>2. \A x, y \in Nat : y < x => <<y, x>> \in R
      BY DEF OpToRel
    <2> HIDE DEF R
    <2>3. PICK x \in T : \A y \in T : ~(<<y, x>> \in R)
      BY <2>1, WFMin, Zenon
    <2>4. \A y \in T : ~(y < x)
      BY <2>2, <2>3, Zenon
    <2>5. \A y \in T : x <= y
      BY <2>4
    <2> QED
      BY <2>5
  <1>Elements.
      ASSUME NEW S, NEW n \in Nat, NEW f \in [1 .. n -> S],
             \A x \in S : \E i \in 1 .. n : f[i] = x
      PROVE  IsFiniteSet(S)
    <2> USE <1>Elements
    <2>1. f \in Surjection(1 .. n, S)
      BY DEF Surjection
    <2> QED
      BY <2>1, FS_NatSurjection, SMTT(30) DEF ExistsSurjection
  <1> QED
    BY <1>Least, <1>Elements, Zenon DEF ListFacts

(* The spawns of a map, and those of them below one. *)
LEMMA SpawnsCounted == SubsetFacts
  BY FS_CardinalityType, FS_Subset, SMTT(30) DEF SubsetFacts

(* The tiles of a map: their largest coordinate, and their number. *)
LEMMA TilesCounted == TileFacts
  <1>Greatest.
      ASSUME NEW T \in SUBSET (0 .. 99), T # {}
      PROVE  \E x \in T : \A y \in T : y <= x
    <2> USE <1>Greatest
    <2> DEFINE U == {99 - n : n \in T}
    <2>1. U \in SUBSET Nat /\ U # {}
      <3>1. \A n \in T : 99 - n \in Nat
        OBVIOUS
      <3> QED
        BY <3>1, Zenon
    <2>2. PICK x \in U : \A y \in U : x <= y
      BY <2>1, ListsCounted, Zenon DEF ListFacts
    <2>3. PICK n \in T : x = 99 - n
      OBVIOUS
    <2>4. \A m \in T : 99 - n <= 99 - m
      BY <2>2, <2>3, Zenon
    <2>5. \A m \in T : m \in 0 .. 99
      OBVIOUS
    <2>6. \A m \in T : m <= n
      BY <2>4, <2>5, SMTT(30)
    <2> QED
      BY <2>6, SMTT(30)
  <1>SizeByTile.
      ASSUME NEW S \in SUBSET ((0 .. 99) \X (0 .. 99)), NEW id, NEW F \in SUBSET ({id} \X S)
      PROVE  Cardinality(S) \in Nat /\ Cardinality(F) <= Cardinality(S)
    <2> USE <1>SizeByTile
    <2>1. 0 \in Int /\ 99 \in Int
      OBVIOUS
    <2>2. IsFiniteSet(0 .. 99)
      BY <2>1, FS_Interval, Zenon
    <2>3. IsFiniteSet((0 .. 99) \X (0 .. 99))
      BY <2>2, FS_Product, SMTT(30)
    <2>4. IsFiniteSet(S)
      BY <2>3, FS_Subset, SMTT(30)
    <2>5. IsFiniteSet({id}) /\ Cardinality({id}) = 1
      BY FS_Singleton, Zenon
    <2>6. IsFiniteSet({id} \X S) /\ Cardinality({id} \X S) = Cardinality({id}) * Cardinality(S)
      BY <2>4, <2>5, FS_Product, SMTT(30)
    <2>7. Cardinality(F) <= Cardinality({id} \X S)
      BY <2>6, FS_Subset, SMTT(30)
    <2>8. Cardinality(S) \in Nat
      BY <2>4, FS_CardinalityType, SMTT(30)
    <2> QED
      BY <2>5, <2>6, <2>7, <2>8, SMTT(30)
  <1> QED
    BY <1>Greatest, <1>SizeByTile, Zenon DEF TileFacts

-----------------------------------------------------------------------------
(* The steps of each tool *)

LEMMA PlanNext ==
    ASSUME PlanInv, [Next]_vars
    PROVE  PlanInv'
  <1>1. CASE Start
    BY <1>1 DEF Start, PlanInv
  <1>2. CASE plan' = plan
    BY <1>2 DEF PlanInv
  <1> QED
    BY <1>1, <1>2, SMTT(30) DEF Next, Step, Fault, vars

LEMMA ExtractorSteps ==
    ASSUME [Next]_vars
    PROVE  /\ client' = client
           /\ \/ UNCHANGED mapVars
              \/ /\ UNCHANGED buildVars
                 /\ \/ ~Busy /\ \E mask : StartMap(mask)
                    \/ MapStep \/ MapFault
  <1>1. CASE Start
    BY <1>1, Zenon DEF Start
  <1>2. CASE Step
    BY <1>2, Zenon DEF Step
  <1>3. CASE Fault
    BY <1>3, Zenon DEF Fault
  <1>4. CASE UNCHANGED vars
    BY <1>4, Zenon DEF vars
  <1> QED
    BY <1>1, <1>2, <1>3, <1>4, Zenon DEF Next

LEMMA ExtractorRuns ==
    ASSUME [Next]_vars
    PROVE  client' = client /\ MapRuns
  BY ExtractorSteps, Zenon DEF MapRuns

LEMMA GeneratorSteps ==
    ASSUME PlanInv, [Next]_vars
    PROVE  \/ UNCHANGED buildVars
           \/ /\ maps' = maps /\ mx' = mx
              /\ \/ ~Busy /\ \E args \in Args : StartBuild(args)
                 \/ Runs({})
  <1>1. CASE Start
    <2>1. CASE /\ Head(plan).tool = "move-map-gen" /\ StartBuild(Head(plan).args)
               /\ UNCHANGED mapVars /\ plan # <<>> /\ ~Busy
      <3>1. Head(plan) \in Commands
        BY <2>1, SMTT(30) DEF PlanInv
      <3>2. Head(plan).args \in Args
        BY <2>1, <3>1, SMTT(30) DEF Args
      <3> QED
        BY <2>1, <3>2, Zenon DEF mapVars
    <2> QED
      BY <1>1, <2>1, Zenon DEF Start
  <1>2. CASE Step
    <2>1. CASE BuildStep /\ UNCHANGED mapVars
      BY <2>1, Zenon DEF BuildStep, Runs, mapVars
    <2> QED
      BY <1>2, <2>1, Zenon DEF Step
  <1>3. CASE Fault
    <2>1. CASE KillBuild /\ UNCHANGED mapVars
      BY <2>1, Zenon DEF Runs, mapVars
    <2> QED
      BY <1>3, <2>1, Zenon DEF Fault
  <1>4. CASE UNCHANGED vars
    BY <1>4, Zenon DEF vars
  <1> QED
    BY <1>1, <1>2, <1>3, <1>4, Zenon DEF Next

LEMMA GeneratorRuns ==
    ASSUME PlanInv, [Next]_vars
    PROVE  Runs(Args)
  <1>1. CASE UNCHANGED buildVars
    BY <1>1, Zenon DEF Runs
  <1>2. CASE \E args \in Args : StartBuild(args)
    BY <1>2, Zenon DEF Runs
  <1>3. CASE Runs({})
    BY <1>3, Zenon DEF Runs
  <1> QED
    BY <1>1, <1>2, <1>3, GeneratorSteps, Zenon

LEMMA OneNext ==
    ASSUME HoldInv, PlanInv, OneInv, [Next]_vars
    PROVE  OneInv'
  <1>1. CASE mx' = mx /\ ((~Busy /\ \E args \in Args : StartBuild(args)) \/ Runs({}))
    <2>1. MapRunning' <=> MapRunning
      BY <1>1, SMTT(30) DEF MapRunning
    <2>2. CASE ~Busy
      BY <2>1, <2>2, SMTT(30) DEF OneInv, Busy
    <2>3. CASE Runs({})
      <3>1. Building' => Building
        BY <2>3, BuildingBefore, SMTT(30)
      <3> QED
        BY <2>1, <3>1, SMTT(30) DEF OneInv
    <2> QED
      BY <1>1, <2>2, <2>3, SMTT(30)
  <1>2. CASE UNCHANGED buildVars
    <2>1. Building' <=> Building
      BY <1>2 DEF Building, buildVars
    <2>2. CASE UNCHANGED mapVars
      BY <2>1, <2>2, SMTT(30) DEF OneInv, MapRunning, mapVars
    <2>3. CASE ~Busy
      BY <2>1, <2>3, SMTT(30) DEF OneInv, Busy
    <2>4. CASE MapStep \/ MapFault
      BY <2>1, <2>4, ExtractorWorks, SMTT(30) DEF OneInv
    <2> QED
      BY <2>2, <2>3, <2>4, ExtractorSteps, SMTT(30)
  <1> QED
    BY <1>1, <1>2, GeneratorSteps, SMTT(30)

(* The .map files stay as the generator found them. *)
LEMMA FilesStay ==
    ASSUME HoldInv, PlanInv, OneInv, [Next]_vars, Building'
    PROVE  maps' = maps
  <1>1. CASE ~UNCHANGED buildVars
    BY <1>1, GeneratorSteps, SMTT(30)
  <1>2. CASE UNCHANGED buildVars
    <2>1. Building
      BY <1>2 DEF Building, buildVars
    <2>2. ~MapRunning /\ Busy
      BY <2>1 DEF OneInv, Busy
    <2> QED
      BY <2>2, ExtractorSteps, ExtractorWorks, SMTT(30) DEF mapVars
  <1> QED
    BY <1>1, <1>2, SMTT(30)

(* The states that the tools start in. *)
LEMMA Starts ==
    ASSUME Init
    PROVE  /\ HoldInv /\ PoolInv /\ TryInv /\ TilesInv /\ FitInv /\ OutputInv
           /\ MapInv /\ DbcInv /\ CameraInv /\ ConvertInv
           /\ ThreadsInv /\ StatesInv /\ OneInv /\ PlanInv /\ faults = 0
           /\ ExInv /\ DirInv /\ CountedInv /\ OrderInv /\ VmapInv
  <1>1. /\ BuildInit /\ MapInit /\ ExtractInit /\ AssembleInit /\ ClientInit
        /\ plan \in Plans[client] /\ faults = 0
    BY Zenon DEF Init
  <1>2. /\ HoldInv /\ PoolInv /\ TryInv /\ TilesInv /\ FitInv /\ OutputInv
        /\ ThreadsInv /\ StatesInv /\ ~Building
    BY <1>1, BuildStarts, Zenon
  <1>3. MapInv /\ DbcInv /\ CameraInv /\ ConvertInv
    BY <1>1, MapStarts, ZenonT(40)
  <1>4. OneInv /\ PlanInv
    BY <1>1, <1>2, PlansAssumption, SMTT(30) DEF OneInv, ClientInit, PlanInv
  <1>5. ExInv /\ DirInv /\ CountedInv /\ OrderInv /\ VmapInv
    BY <1>1, PoolsCounted, VmapStarts, Zenon
  <1> QED
    BY <1>1, <1>2, <1>3, <1>4, <1>5, Zenon

-----------------------------------------------------------------------------
(* What the map extractor leaves *)

(* A map extraction that reports success has left the files of all its        *)
(* sections whole: however the workers of the pool interleave, wherever       *)
(* earlier runs were stopped and whatever they left half-written, no error of *)
(* a worker is lost, no tile, locale or file is passed over, and only cameras *)
(* that the run found there stay as they were.                                *)
THEOREM MapsAreWhole == Spec => []ExtractedMapsAreWhole
  <1> DEFINE Inv == MapInv /\ DbcInv /\ CameraInv /\ ConvertInv
  <1>1. Init => Inv
    BY Starts, Zenon
  <1>2. Inv /\ [Next]_vars => Inv'
    BY PoolsCounted, ExtractorRuns, ExtractorNext, Zenon
  <1>3. Inv => ExtractedMapsAreWhole
    <2> SUFFICES ASSUME DbcInv, CameraInv, ConvertInv, mx.phase = "done"
                 PROVE  ExtractedMapsAreWhole
      BY Zenon DEF ExtractedMapsAreWhole
    <2>1. /\ "dbc" \in mx.mask =>
                \A i \in DOMAIN client.locales : \A k \in DOMAIN client.locales[i].dbc :
                   DbcFile(i, k) \in DOMAIN dbc /\ dbc[DbcFile(i, k)] = "whole"
          /\ "camera" \in mx.mask =>
                \A i \in DOMAIN CameraFiles :
                   /\ CameraFiles[i] \in DOMAIN cameras
                   /\ CameraFiles[i] \notin mx.found => cameras[CameraFiles[i]] = "whole"
      BY DoneIsWhole, Zenon
    <2>2. ASSUME "map" \in mx.mask, NEW m \in Range(client.maps), m.wdt = "ok",
                 NEW i \in AdtTiles(m)
          PROVE  /\ <<m.id, m.tiles[i].tile>> \in DOMAIN maps
                 /\ maps[<<m.id, m.tiles[i].tile>>] = "whole"
      <3>1. PICK j \in DOMAIN client.maps : m = client.maps[j]
        BY <2>2, Zenon DEF Range
      <3> QED
        BY <2>2, <3>1, DoneIsWhole, Zenon
    <2> QED
      BY <2>1, <2>2, Zenon DEF ExtractedMapsAreWhole
  <1> HIDE DEF Inv
  <1> QED
    BY <1>1, <1>2, <1>3, PTL DEF Spec

-----------------------------------------------------------------------------
(* What the model extractor and the assembler leave *)

LEMMA VmapSteps ==
    ASSUME [Next]_vars
    PROVE  VmapRuns
  <1>1. CASE Start
    BY <1>1, Zenon DEF Start, Busy, VmapRuns, ExtractRuns
  <1>2. CASE Step
    BY <1>2, Zenon DEF Step, VmapRuns, ExtractRuns
  <1>3. CASE Fault
    BY <1>3, Zenon DEF Fault, VmapRuns, ExtractRuns
  <1>4. CASE UNCHANGED vars
    BY <1>4, Zenon DEF vars, VmapRuns, ExtractRuns
  <1> QED
    BY <1>1, <1>2, <1>3, <1>4, Zenon DEF Next

LEMMA VmapKept ==
    ASSUME ExInv, DirInv, VmapInv, [Next]_vars
    PROVE  /\ ExInv' /\ DirInv' /\ VmapInv'
           /\ CountedInv => CountedInv'
           /\ GlobalsComeFirst => GlobalsComeFirst' /\ (OrderInv => OrderInv')
  <1>1. VmapRuns /\ ExtractRuns
    BY VmapSteps, Zenon DEF VmapRuns, ExtractRuns
  <1>2. client' = client
    BY ExtractorSteps
  <1>3. GlobalsComeFirst' <=> GlobalsComeFirst
    <2>1. Jobs' = Jobs
      BY <1>2 DEF Jobs
    <2> QED
      BY <2>1 DEF GlobalsComeFirst, IsList, GLOBAL_TILE
  <1> QED
    BY <1>1, <1>2, <1>3, PoolsCounted, ExNext, DirNext, VmapNext, OrderNext, Zenon

(* An entry of a file belongs to a map, in whose tree or tile it is. *)
LEMMA OnDisk ==
    ASSUME NEW e \in TileEntriesOnDisk \cup TreeEntriesOnDisk
    PROVE  \/ \E k \in DOMAIN vmaps.tiles : k[1] = e[1] /\ e[2] \in vmaps.tiles[k]
           \/ e[1] \in DOMAIN vmaps.trees /\ e[2] \in vmaps.trees[e[1]].gobj
  BY SMTT(30) DEF TileEntriesOnDisk, TreeEntriesOnDisk

(* The number that the assembler writes behind a spawn, in a tile or in the  *)
(* tree, is the place of that spawn among the objects of the map's tree,     *)
(* whatever records share an id, whatever spawns were removed because their  *)
(* model is missing or has no bounds, and whatever an earlier run left in    *)
(* the directory: no file is older than the dir_bin it was made from.        *)
THEOREM IndicesName == Spec => []IndexNamesTheSpawn
  <1> DEFINE Inv == ExInv /\ DirInv /\ VmapInv
  <1>1. Init => Inv
    BY Starts, Zenon
  <1>2. Inv /\ [Next]_vars => Inv'
    BY VmapKept, Zenon
  <1>3. Inv => IndexNamesTheSpawn
    <2> SUFFICES ASSUME DirInv, VmapInv, vmaps # None,
                        NEW e \in TileEntriesOnDisk \cup TreeEntriesOnDisk
                 PROVE  /\ e[1] \in DOMAIN vmaps.trees
                        /\ e[2].idx + 1 \in DOMAIN vmaps.trees[e[1]].objects
                        /\ vmaps.trees[e[1]].objects[e[2].idx + 1] = e[2].id
      BY Zenon DEF IndexNamesTheSpawn
    <2>1. PICK map, x : map = e[1] /\ x = e[2]
      OBVIOUS
    <2>2. \/ \E k \in DOMAIN vmaps.tiles : k[1] = map /\ x \in vmaps.tiles[k]
          \/ map \in DOMAIN vmaps.trees /\ x \in vmaps.trees[map].gobj
      BY <2>1, OnDisk, SMTT(30)
    <2>3. DiskInv
      BY DEF VmapInv
    <2>4. /\ map \in DOMAIN vmaps.trees /\ x.idx + 1 \in DOMAIN vmaps.trees[map].objects
          /\ vmaps.trees[map].objects[x.idx + 1] = x.id
      BY <2>2, <2>3, ListsCounted, SpawnsCounted, EntryIndex, SMTT(30)
    <2> QED
      BY <2>1, <2>4, SMTT(30)
  <1> HIDE DEF Inv
  <1> QED
    BY <1>1, <1>2, <1>3, PTL DEF Spec

(* When the assembler is done, every model that a spawn on disk or the list  *)
(* of game objects names is a whole .vmo, or its write failed in this run:   *)
(* no worker of the pool is lost or still writing, and a raw file that a     *)
(* stopped extractor left unfinished is either never recorded or readable,   *)
(* but for a WMO with a group that lacks its liquid, or one that lost groups *)
(* and whose file was cut between its two counts.                            *)
THEOREM ModelsConverted == Spec => []PlacedModelsAreConverted
  <1> DEFINE Inv == ExInv /\ DirInv /\ VmapInv /\ CountedInv
  <1>1. Init => Inv
    BY Starts, Zenon
  <1>2. Inv /\ [Next]_vars => Inv'
    BY VmapKept, Zenon
  <1>3. Inv => PlacedModelsAreConverted
    <2> SUFFICES ASSUME DirInv, VmapInv, CountedInv, as.phase = "done"
                 PROVE  PlacedModelsAreConverted
      BY Zenon DEF PlacedModelsAreConverted
    <2>1. ASSUME NEW e \in TileEntriesOnDisk \cup TreeEntriesOnDisk
          PROVE  \/ Converted(e[2].name) \/ e[2].name \in as.unwritten
                 \/ Unreadable(e[2].name)
      <3>1. PICK map, x : map = e[1] /\ x = e[2]
        OBVIOUS
      <3>2. \/ \E k \in DOMAIN vmaps.tiles : k[1] = map /\ x \in vmaps.tiles[k]
            \/ map \in DOMAIN vmaps.trees /\ x \in vmaps.trees[map].gobj
        BY <2>1, <3>1, OnDisk
      <3>3. Converted(x.name) \/ x.name \in as.unwritten \/ Unreadable(x.name)
        BY <3>2, ListsCounted, SpawnsCounted, EntryConverted
      <3> QED
        BY <3>1, <3>3
    <2>2. ASSUME NEW f \in IF vmaps.list = None THEN {} ELSE vmaps.list
          PROVE  Converted(f) \/ f \in as.unwritten
      BY <2>2, ListConverted
    <2> QED
      BY <2>1, <2>2, Zenon DEF PlacedModelsAreConverted, Converted, Unreadable
  <1> HIDE DEF Inv
  <1> QED
    BY <1>1, <1>2, <1>3, PTL DEF Spec

(* After a complete assembly the file of every tile, or the tree for the     *)
(* global tile, holds the ids recorded for it and no other, and under an id  *)
(* that stands for one thing in its map that thing, if its model can be      *)
(* read: the record that stands for an id drops nothing else.  As the global *)
(* WMO of a map comes before its tiles, no spawn of it gets into a tile.     *)
THEOREM AssembledTiles == Spec /\ GlobalsComeFirst => []AssembledAsRecorded
  <1> DEFINE Inv == ExInv /\ DirInv /\ VmapInv /\ OrderInv /\ GlobalsComeFirst
  <1>1. Init /\ GlobalsComeFirst => Inv
    BY Starts, Zenon
  <1>2. Inv /\ [Next]_vars => Inv'
    BY VmapKept, ZenonT(40)
  <1>3. Inv => AssembledAsRecorded
    <2> SUFFICES ASSUME DirInv, VmapInv, OrderInv, as.phase = "done", NEW q \in Records
                 PROVE  LET k    == <<q.map, q.tile>>
                            due  == {r \in Records : r.map = k[1] /\ r.tile = k[2]}
                            file == IF k[2] = GLOBAL_TILE THEN vmaps.trees[k[1]].gobj
                                    ELSE IF k \in DOMAIN vmaps.tiles THEN vmaps.tiles[k] ELSE {}
                        IN  /\ {e.id : e \in file} \subseteq {r.id : r \in due}
                            /\ \A r \in {r \in due : OwnId(r)} :
                                  {e.of : e \in {e \in file : e.id = r.id}}
                                     = IF Usable(r) THEN {r.of} ELSE {}
                            /\ k[2] = GLOBAL_TILE => k \notin DOMAIN vmaps.tiles
      BY SMTT(30) DEF AssembledAsRecorded
    <2>1. dir_bin # None /\ Records = Range(dir_bin.recs)
      BY DEF Records
    <2>2. PICK map, tile, k, file :
             /\ map = q.map /\ tile = q.tile /\ k = <<map, tile>>
             /\ file = IF tile = GLOBAL_TILE THEN vmaps.trees[map].gobj
                       ELSE IF k \in DOMAIN vmaps.tiles THEN vmaps.tiles[k] ELSE {}
      OBVIOUS
    <2>3. k[1] = map /\ k[2] = tile
      BY <2>2
    <2>4. q \in RecordsOf(map) /\ RecordsOf(map) = {r \in Records : r.map = map}
      BY <2>1, <2>2 DEF RecordsOf
    <2>5. Stands(map, tile, file) /\ (tile = GLOBAL_TILE => k \notin DOMAIN vmaps.tiles)
      BY <2>2, <2>4, ListsCounted, SpawnsCounted, AssembledTile, SMTT(30)
    <2>6. ASSUME NEW r \in Records, OwnId(r) PROVE Alone(r)
      BY <2>1, <2>6, Zenon DEF OwnId, Alone, RecordsOf
    <2>7. {e.id : e \in file} \subseteq {r.id : r \in {r \in Records : r.map = map /\ r.tile = tile}}
      BY <2>4, <2>5, SMTT(30) DEF Stands
    <2>8. ASSUME NEW r \in Records, r.map = map, r.tile = tile, OwnId(r)
          PROVE  {e.of : e \in {e \in file : e.id = r.id}} = IF Usable(r) THEN {r.of} ELSE {}
      <3>1. r \in RecordsOf(map) /\ Alone(r)
        BY <2>4, <2>6, <2>8, SMTT(30)
      <3> QED
        BY <2>5, <2>8, <3>1, Zenon DEF Stands, Under, Usable
    <2> QED
      BY <2>2, <2>3, <2>5, <2>7, <2>8, SMTT(30)
  <1> HIDE DEF Inv
  <1> QED
    BY <1>1, <1>2, <1>3, PTL DEF Spec

-----------------------------------------------------------------------------
(* The movement-map generator *)

LEMMA GeneratorNext ==
    ASSUME HoldInv, PoolInv, OutputInv, PlanInv, [Next]_vars
    PROVE  HoldInv' /\ PoolInv' /\ OutputInv' /\ PlanInv'
  BY GeneratorRuns, HoldNext, PoolNext, OutputNext, PlanNext, Zenon

LEMMA TerrainFiles ==
    ASSUME MapInv, maps # None
    PROVE  DOMAIN maps \subseteq TileKeys
  BY TilesOfClient, SMTT(30) DEF MapInv, FilesInv

(* However the stages of Recast and Detour fail and the workers interleave, a *)
(* worker of the generator frees only what it holds, and leaves nothing       *)
(* behind unless the merged mesh or its detail could not be allocated.        *)
THEOREM MeshesReturned == Spec => []WorkersReturnTheirMeshes
  <1> DEFINE Inv == HoldInv /\ PlanInv
  <1>1. Init => Inv
    BY Starts, Zenon
  <1>2. Inv /\ [Next]_vars => Inv'
    BY GeneratorRuns, HoldNext, PlanNext, Zenon
  <1>3. Inv => WorkersReturnTheirMeshes
    BY ZenonT(40) DEF HoldInv, WorkersReturnTheirMeshes
  <1> HIDE DEF Inv
  <1> QED
    BY <1>1, <1>2, <1>3, PTL DEF Spec

(* A run of the generator over all maps that has no map left has tried every *)
(* tile with a .map file, unless the .mmap of its map could not be written:  *)
(* no file is missed by discover_tiles, whatever the names and whichever     *)
(* workers fail, and no worker is lost.                                      *)
THEOREM TerrainTilesTried == Spec => []EveryTerrainTileIsTried
  <1> DEFINE Inv == HoldInv /\ MapInv /\ OneInv /\ PlanInv /\ TryInv
  <1>1. Init => Inv
    BY Starts, Zenon
  <1>2. Inv /\ [Next]_vars => Inv'
    <2> SUFFICES ASSUME Inv, [Next]_vars PROVE Inv'
      OBVIOUS
    <2>1. HoldInv' /\ MapInv' /\ OneInv' /\ PlanInv'
      BY GeneratorRuns, HoldNext, PoolsCounted, ExtractorRuns, ExtractorNext, OneNext, PlanNext, Zenon
    <2>2. TryInv'
      <3>1. CASE ~Building'
        BY <3>1, Zenon DEF TryInv
      <3>2. CASE Building'
        BY <3>2, FilesStay, GeneratorRuns, TerrainFiles, TryNext, Zenon
      <3> QED
        BY <3>1, <3>2, SMTT(30)
    <2> QED
      BY <2>1, <2>2, SMTT(30)
  <1>3. Inv => EveryTerrainTileIsTried
    <2> SUFFICES ASSUME MapInv, TryInv, gen.phase = "maps", gen.todo = {}, gen.all,
                        NEW k \in DOMAIN maps, k[1] \notin SkippedMaps
                 PROVE  k \in gen.tried \/ k[1] \in gen.unwritten
      BY Zenon DEF EveryTerrainTileIsTried
    <2>1. maps # None /\ k[1] \in DOMAIN gen.tiles /\ k[2] \in gen.tiles[k[1]]
      BY DEF TryInv, Building
    <2>2. k = <<k[1], k[2]>>
      <3>1. k \in TileKeys
        BY <2>1, TerrainFiles, SMTT(30)
      <3> QED
        BY <3>1 DEF TileKeys
    <2>3. <<k[1], k[2]>> \in gen.tried \/ k[1] \in gen.unwritten
      BY <2>1 DEF TryInv, Building
    <2> QED
      BY <2>2, <2>3, SMTT(30)
  <1> HIDE DEF Inv
  <1> QED
    BY <1>1, <1>2, <1>3, PTL DEF Spec

(* When no command line names a map twice, the tiles a run of the generator   *)
(* has written lie in the mesh its .mmap on disk describes, each in a place   *)
(* of its own, and are no more than the mesh has room for: no later step of   *)
(* the run writes the .mmap again, and build_nav_mesh's origin and count suit *)
(* every tile that discover_tiles can find.                                   *)
THEOREM TilesFit ==
    ASSUME MapsNamedOnce
    PROVE  Spec => []TilesFitTheirMesh
  <1> DEFINE Inv == /\ HoldInv /\ PoolInv /\ MapInv /\ TilesInv /\ OutputInv /\ PlanInv
                    /\ FitInv
  <1>1. Init => Inv
    BY Starts, Zenon
  <1>2. Inv /\ [Next]_vars => Inv'
    <2> SUFFICES ASSUME Inv, [Next]_vars PROVE Inv'
      OBVIOUS
    <2>1. HoldInv' /\ PoolInv' /\ OutputInv' /\ PlanInv' /\ MapInv'
      BY GeneratorNext, PoolsCounted, ExtractorRuns, ExtractorNext, Zenon
    <2>2. TilesInv'
      BY GeneratorRuns, TerrainFiles, TilesNext, Zenon
    <2>3. FitInv'
      BY GeneratorRuns, FitNext, Zenon DEF MapsNamedOnce
    <2> QED
      BY <2>1, <2>2, <2>3, SMTT(30)
  <1>3. Inv => TilesFitTheirMesh
    BY TilesCounted, PlacedTilesFit, ZenonT(40) DEF TilesFitTheirMesh
  <1> HIDE DEF Inv
  <1> QED
    BY <1>1, <1>2, <1>3, PTL DEF Spec

-----------------------------------------------------------------------------
(* Types *)

LEMMA WithinThreads ==
    ASSUME NEW n \in Nat, NEW limit \in {1, Threads}, n <= limit
    PROVE  n <= Threads
  BY ThreadsAssumption

LEMMA FaultsNext ==
    ASSUME faults \in 0 .. MaxFaults, [Next]_vars
    PROVE  faults' \in 0 .. MaxFaults
  <1>1. CASE Fault
    BY <1>1, FaultsAssumption, SMTT(30) DEF Fault
  <1>2. CASE faults' = faults
    BY <1>2, SMTT(30)
  <1> QED
    BY <1>1, <1>2, ZenonT(40) DEF Next, Start, Step, vars

(* No pool runs more workers than it was built with, and every file that the *)
(* tools leave is in a state that its readers know, however the tools        *)
(* interleave with kills and failed writes.                                  *)
THEOREM TypesCorrect == Spec => []TypeOK
  <1> DEFINE Inv == /\ MapInv /\ ExInv /\ DirInv /\ VmapInv
                    /\ HoldInv /\ PoolInv /\ OutputInv /\ PlanInv /\ ThreadsInv /\ StatesInv
                    /\ faults \in 0 .. MaxFaults
  <1>1. Init => Inv
    <2>1. 0 \in 0 .. MaxFaults
      BY FaultsAssumption
    <2> QED
      BY <2>1, Starts, ZenonT(40)
  <1>2. Inv /\ [Next]_vars => Inv'
    <2> SUFFICES ASSUME Inv, [Next]_vars PROVE Inv'
      OBVIOUS
    <2>1. MapInv' /\ ExInv' /\ DirInv' /\ VmapInv'
      BY PoolsCounted, ExtractorRuns, ExtractorNext, VmapKept, Zenon
    <2>2. HoldInv' /\ PoolInv' /\ OutputInv' /\ PlanInv'
      BY GeneratorNext, Zenon
    <2>3. ThreadsInv' /\ StatesInv'
      BY GeneratorRuns, PoolsCounted, ThreadsNext, StatesNext, Zenon
    <2>4. faults' \in 0 .. MaxFaults
      BY FaultsNext, Zenon
    <2> QED
      BY <2>1, <2>2, <2>3, <2>4, SMTT(30)
  <1>3. Inv => TypeOK
    <2> SUFFICES ASSUME Inv PROVE TypeOK
      OBVIOUS
    <2>1. Cardinality({}) = 0 /\ \A x : Cardinality({x}) = 1
      BY FS_EmptySet, FS_Singleton, Zenon
    <2>2. 0 <= Threads /\ 1 <= Threads /\ Threads \in Nat
      BY ThreadsAssumption, SMTT(30)
    <2>3. /\ \A d \in {dbc, cameras} : \A f \in DOMAIN d : d[f] \in FileStates
          /\ maps # None => \A f \in DOMAIN maps : maps[f] \in FileStates
      BY DEF MapInv, FilesInv
    <2>4. buildings # None => \A f \in DOMAIN buildings :
              buildings[f] \in {"stub", "headed", "grouped", "counted", "whole"}
      BY Zenon DEF ExInv, RawStages
    <2>5. mmaps # None => \A f \in DOMAIN mmaps.tiles : mmaps.tiles[f].state \in FileStates
      BY Zenon DEF StatesInv
    <2>6. MapRunning => Cardinality(mx.busy) <= Threads
      BY <2>1, <2>2, Zenon DEF MapRunning, MapInv
    <2>7. Cardinality(as.busy) <= Threads
      <3>1. CASE as.phase = "convert"
        <4>1. /\ as.limit \in {1, Threads} /\ Cardinality(as.busy) <= as.limit
              /\ Cardinality(as.busy) \in Nat
          BY <3>1, FS_CardinalityType, Zenon DEF VmapInv, AsInv
        <4> QED
          BY <4>1, WithinThreads, Zenon
      <3>2. CASE as.phase # "convert"
        BY <2>1, <2>2, <3>2, Zenon DEF VmapInv, AsInv
      <3> QED
        BY <3>1, <3>2, ZenonT(40)
    <2>8. Cardinality(DOMAIN gen.busy) <= Threads
      <3>1. CASE gen.phase = "tiles"
        <4>1. /\ gen.limit \in {1, Threads} /\ Cardinality(DOMAIN gen.busy) <= gen.limit
              /\ Cardinality(DOMAIN gen.busy) \in Nat
          BY <3>1, FS_CardinalityType, SMTT(30) DEF ThreadsInv
        <4> QED
          BY <4>1, WithinThreads, ZenonT(40)
      <3>2. CASE gen.phase # "tiles"
        BY <2>1, <2>2, <3>2, SMTT(30) DEF PoolInv
      <3> QED
        BY <3>1, <3>2, SMTT(30)
    <2> QED
      BY <2>3, <2>4, <2>5, <2>6, <2>7, <2>8, Zenon DEF TypeOK
  <1> HIDE DEF Inv
  <1> QED
    BY <1>1, <1>2, <1>3, PTL DEF Spec
=============================================================================
