---------------------------- MODULE OfflineTools ----------------------------
(***************************************************************************)
(* The four offline tools as an operator runs them, one after the other on *)
(* one working directory, each reading what the ones before it left there: *)
(* the map extractor (MapExtract), the model extractor (VmapExtract), the  *)
(* model assembler (VmapAssemble) and the movement-map generator           *)
(* (MoveMapBuild).  At any step a tool may be killed, or a write may fail; *)
(* the operator goes on with the next one of the plan, which may be the    *)
(* same again.                                                             *)
(***************************************************************************)
EXTENDS MapExtract, VmapAssemble, MoveMapBuild

CONSTANTS
    Plans,     \* client -> sequences of command lines: records tool and args
    MaxFaults  \* bound on the kills and failed writes of a behaviour

Commands == UNION {{p[i] : i \in DOMAIN p} : p \in UNION {Plans[c] : c \in Clients}}

ASSUME FaultsAssumption == MaxFaults \in Nat
ASSUME PlansAssumption == \A c \in Clients : Plans[c] \subseteq Seq(Commands)

VARIABLES plan, faults

vars == <<client, mapVars, extractVars, assembleVars, buildVars, plan, faults>>

Init ==
    /\ ClientInit /\ MapInit /\ ExtractInit /\ AssembleInit /\ BuildInit
    /\ plan \in Plans[client]
    /\ faults = 0

Busy == MapRunning \/ Extracting \/ Assembling \/ Building

\* main: the command line chooses the tool.
Start ==
    /\ ~Busy
    /\ plan # <<>>
    /\ plan' = Tail(plan)
    /\ LET command == Head(plan)
       IN  \/ /\ command.tool = "map-dbc"
              /\ StartMap(command.args)
              /\ UNCHANGED <<extractVars, assembleVars, buildVars>>
           \/ /\ command.tool = "vmap-extract"
              /\ StartExtract
              /\ UNCHANGED <<mapVars, assembleVars, buildVars>>
           \/ /\ command.tool = "vmap-assemble"
              /\ StartAssemble
              /\ UNCHANGED <<mapVars, extractVars, buildVars>>
           \/ /\ command.tool = "move-map-gen"
              /\ StartBuild(command.args)
              /\ UNCHANGED <<mapVars, extractVars, assembleVars>>
    /\ UNCHANGED <<client, faults>>

Step ==
    /\ \/ MapStep      /\ UNCHANGED <<extractVars, assembleVars, buildVars>>
       \/ ExtractStep  /\ UNCHANGED <<mapVars, assembleVars, buildVars>>
       \/ AssembleStep /\ UNCHANGED <<mapVars, extractVars, buildVars>>
       \/ BuildStep    /\ UNCHANGED <<mapVars, extractVars, assembleVars>>
    /\ UNCHANGED <<client, plan, faults>>

\* A kill, or a failed write.  (The generator's own writes may always fail.)
Fault ==
    /\ faults < MaxFaults
    /\ faults' = faults + 1
    /\ \/ MapFault      /\ UNCHANGED <<extractVars, assembleVars, buildVars>>
       \/ StopExtract   /\ UNCHANGED <<mapVars, assembleVars, buildVars>>
       \/ AssembleFault /\ UNCHANGED <<mapVars, extractVars, buildVars>>
       \/ KillBuild     /\ UNCHANGED <<mapVars, extractVars, assembleVars>>
    /\ UNCHANGED <<client, plan>>

Next == Start \/ Step \/ Fault

\* A started tool is scheduled, and so are the workers of its pool.
Spec == Init /\ [][Next]_vars /\ WF_vars(Step)

-----------------------------------------------------------------------------

\* The shape of what the tools leave on disk; no pool runs more workers than
\* it was built with.
TypeOK ==
    /\ \A d \in {dbc, cameras} : \A f \in DOMAIN d : d[f] \in FileStates
    /\ maps # None => \A f \in DOMAIN maps : maps[f] \in FileStates
    /\ buildings # None => \A f \in DOMAIN buildings :
          buildings[f] \in {"stub", "headed", "grouped", "counted", "whole"}
    /\ mmaps # None => \A f \in DOMAIN mmaps.tiles :
          mmaps.tiles[f].state \in FileStates
    /\ MapRunning => Cardinality(mx.busy) <= Threads
    /\ Cardinality(as.busy) <= Threads /\ Cardinality(DOMAIN gen.busy) <= Threads
    /\ faults \in 0 .. MaxFaults

\* A map extraction that reports success has left every file of its sections
\* whole: all tiles of every map whose WDT can be read (extract_maps returns
\* the error of any worker, and an interrupted file is written anew), the DBC
\* files of every locale, and the cameras, but for those it found there, which
\* extract_camera_files leaves as an earlier run left them.
ExtractedMapsAreWhole ==
    mx.phase = "done" /\ ~Busy /\ client.locales # <<>> =>
        /\ "dbc" \in mx.mask =>
              \A i \in DOMAIN client.locales : \A k \in DOMAIN client.locales[i].dbc :
                 /\ DbcFile(i, k) \in DOMAIN dbc
                 /\ dbc[DbcFile(i, k)] = "whole"
        /\ "camera" \in mx.mask =>
              \A i \in DOMAIN CameraFiles :
                 /\ CameraFiles[i] \in DOMAIN cameras
                 /\ CameraFiles[i] \notin mx.found => cameras[CameraFiles[i]] = "whole"
        /\ "map" \in mx.mask =>
              \A m \in Range(client.maps) : m.wdt = "ok" =>
                 \A i \in AdtTiles(m) : /\ <<m.id, m.tiles[i].tile>> \in DOMAIN maps
                                        /\ maps[<<m.id, m.tiles[i].tile>>] = "whole"

Records == IF dir_bin = None THEN {} ELSE Range(dir_bin.recs)

\* The number the client gives a placement: for an M2, the index of its name.
ClientId(r) == IF r.of.what = "m2" THEN r.of.ref ELSE r.of.uid

IsDoodad(r) == r.of.what = "doodad"

\* Placements have one id in dir_bin just when the client gives them one number: a
\* WMO instance keeps its id in every tile it stands in, also after a fault and a
\* new run, and shares it with no other WMO instance (with an M2 it does when its
\* unique id is the index of that M2's name).  No doodad shares the id of a
\* placement, nor of a doodad of another WMO instance, nor of another doodad of
\* its instance in the same tile.  In another tile it may: extract_doodad_set
\* numbers only the doodads whose model file exists by then.
OneIdPerInstance ==
    \A r, s \in Records :
        IF ~IsDoodad(r) /\ ~IsDoodad(s) THEN (r.id = s.id) = (ClientId(r) = ClientId(s))
        ELSE r.id = s.id =>
                /\ IsDoodad(r) /\ IsDoodad(s) /\ r.of.uid = s.of.uid
                /\ r.map = s.map /\ r.tile = s.tile => r.of.ref = s.of.ref

\* What a tile of the client calls for, by what the files of its models hold:
\* every solid M2, every WMO with triangles that is not destroyable, and the
\* doodads of its set that its written groups refer to and that were extracted
\* under the name they are looked up by.
DoodadsDue(w, p) ==
    IF p.set >= Len(Wmo[w].sets) THEN {}
    ELSE {r \in UNION {g.refs : g \in Range(Written(w))} :
            LET first == Wmo[w].sets[p.set + 1].start
                model == Wmo[w].doodads[r + 1]
            IN  /\ first <= r /\ r < first + Wmo[w].sets[p.set + 1].count
                /\ Model[model] = "solid" /\ FixedName[model] = model}

Recorded(j, what, uid, ref) ==
    \E r \in Records : /\ r.map = j.map /\ r.tile = j.tile
                       /\ r.of = [what |-> what, uid |-> uid, ref |-> ref]

\* A run of the model extractor that ends without error has recorded every
\* instance of every tile it read, except the WMO instances whose file an
\* earlier, stopped run left without its counts, and the doodads of the WMO
\* files it found from such a run (extract_single_wmo returns at once for an
\* existing file).
ExtractedModelsAreRecorded ==
    ex.phase = "done" /\ ~Busy =>
        \A j \in {Jobs[i] : i \in {i \in DOMAIN Jobs : Jobs[i].adt = "root"}} :
            /\ \A p \in Range(j.m2s) :
                  p.name_id < Len(j.models) /\ Model[j.models[p.name_id + 1]] = "solid"
                     => Recorded(j, "m2", p.uid, p.name_id)
            /\ \A p \in {p \in Range(j.placements) : p.name_id < Len(j.wmos)} :
                  LET w == j.wmos[p.name_id + 1]
                  IN  Wmo[w].opens =>
                        /\ Triangles(w) > 0 /\ ~p.destroyable =>
                              \/ Recorded(j, "wmo", p.uid, 0)
                              \/ faults > 0 /\ buildings[w] # "whole"
                        /\ \A r \in DoodadsDue(w, p) :
                              \/ Recorded(j, "doodad", p.uid, r)
                              \/ faults > 0 /\ w \notin DOMAIN ex.wmo_doodads

TileEntriesOnDisk == UNION {{<<k[1], e>> : e \in vmaps.tiles[k]} : k \in DOMAIN vmaps.tiles}
TreeEntriesOnDisk == UNION {{<<m, e>> : e \in vmaps.trees[m].gobj} : m \in DOMAIN vmaps.trees}

\* The index written behind a spawn, in a tile or in the tree, is the place of
\* that spawn among the objects of the map's tree, also when spawns were
\* removed because their model is missing or has no bounds.
IndexNamesTheSpawn ==
    vmaps # None =>
        \A e \in TileEntriesOnDisk \cup TreeEntriesOnDisk :
            /\ e[1] \in DOMAIN vmaps.trees
            /\ e[2].idx + 1 \in DOMAIN vmaps.trees[e[1]].objects
            /\ vmaps.trees[e[1]].objects[e[2].idx + 1] = e[2].id

\* The id of r stands for one thing in its map.
OwnId(r) == \A s \in Records : s.map = r.map /\ s.id = r.id =>
                                 s.of = r.of /\ s.name = r.name /\ s.world = r.world

Usable(r) == r.m2 => read_raw_model_ok(r.name)

\* After a complete assembly the file of every tile, or the tree for the global
\* tile, holds the ids recorded for it and no other, and under an id that stands
\* for one thing in its map exactly that thing, when its model can be read.  (Of
\* the records that share an id, M2 placements of one name, a WMO and an M2, or
\* two doodads of one WMO in two tiles, the assembler keeps the first.)  The
\* spawns of the global tile are in no tile's file.
AssembledAsRecorded ==
    as.phase = "done" /\ ~Busy =>
        \A k \in {<<r.map, r.tile>> : r \in Records} :
            LET due  == {r \in Records : r.map = k[1] /\ r.tile = k[2]}
                file == IF k[2] = GLOBAL_TILE THEN vmaps.trees[k[1]].gobj
                        ELSE IF k \in DOMAIN vmaps.tiles THEN vmaps.tiles[k] ELSE {}
            IN  /\ {e.id : e \in file} \subseteq {r.id : r \in due}
                /\ \A r \in {r \in due : OwnId(r)} :
                      {e.of : e \in {e \in file : e.id = r.id}} = IF Usable(r) THEN {r.of} ELSE {}
                /\ k[2] = GLOBAL_TILE => k \notin DOMAIN vmaps.tiles

\* Every model that a placed spawn or the game-object list names is on disk as
\* a whole .vmo when the assembler is done, also one whose raw file a stopped
\* extractor left unfinished, unless its write was seen to fail in this run, or it
\* is a WMO whose instances were recorded of a file that does not parse: one with
\* a group flagged for liquid it does not have, or one that lost groups and whose
\* writer was stopped between its two counts.
PlacedModelsAreConverted ==
    as.phase = "done" /\ ~Busy =>
        \A f \in {e[2].name : e \in TileEntriesOnDisk \cup TreeEntriesOnDisk}
                    \cup (IF vmaps.list = None THEN {} ELSE vmaps.list) :
            \/ f \in DOMAIN vmaps.vmos /\ vmaps.vmos[f] = "whole"
            \/ f \in as.unwritten
            \/ /\ f \in DOMAIN Wmo
               /\ \/ \E i \in DOMAIN Written(f) : Written(f)[i].hollow
                  \/ buildings[f] = "counted" /\ Len(Written(f)) # Len(Wmo[f].groups)

\* However the stages of Recast and Detour fail, a worker frees only what it
\* holds, and it returns with nothing left unless the merged mesh or its detail
\* could not be allocated (those two early returns forget the meshes of the
\* parts).
WorkersReturnTheirMeshes == ~gen.misfreed /\ gen.leaked \subseteq gen.unmerged

\* The tiles a run has found for a map and written have places in the mesh that
\* its .mmap on disk describes: not negative, each its own, and no more than
\* max_tiles.  (A tile that only the command line names may lie outside.)
TilesFitTheirMesh ==
    \A id \in {k[1] : k \in gen.fresh} :
        LET mine == {k \in gen.fresh : k[1] = id /\ k[2] \in gen.tiles[id]}
        IN  /\ mmaps.params[id] # None
            /\ Cardinality(mine) <= mmaps.params[id].max_tiles
            /\ \A k \in mine : /\ mmaps.tiles[k].at[1] >= 0 /\ mmaps.tiles[k].at[2] >= 0
                               /\ \A l \in mine : mmaps.tiles[k].at = mmaps.tiles[l].at => k = l

\* A run over all maps that has no map left has tried every tile that has a
\* .map file, unless the .mmap of its map could not be written, which leaves all
\* tiles of the map out.  (Files that another tool adds later are not meant.)
EveryTerrainTileIsTried ==
    gen.phase = "maps" /\ gen.todo = {} /\ gen.all =>
        \A k \in DOMAIN maps : k[1] \notin SkippedMaps =>
            k \in gen.tried \/ k[1] \in gen.unwritten

\* A tool that was started ends, with or without error.
ToolsFinish == Busy ~> ~Busy
=============================================================================
