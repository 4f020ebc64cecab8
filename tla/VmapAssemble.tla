---------------------------- MODULE VmapAssemble ----------------------------
(***************************************************************************)
(* The model assembler (vmap_assemble.rs).  It reads what the extractor    *)
(* left in Buildings, whole or not, and writes for every map the tree of   *)
(* its spawns (.vmtree) and the spawns of each tile (.vmtile), then the    *)
(* game-object list, then every model that was spawned or listed (.vmo),   *)
(* the last in a pool of worker threads.  A kill or an error inside the    *)
(* write of a tree or a tile counts as one behind it: the next run writes  *)
(* them anew.                                                              *)
(***************************************************************************)
EXTENDS VmapExtract

VARIABLE as  \* the memory of the process

assembleVars == <<vmaps, as>>

IdleAssemble(how) == [phase |-> how, maps |-> {}, map |-> None, spawns |-> {},
                      models |-> {}, todo |-> {}, busy |-> {}, limit |-> 0,
                      unwritten |-> {}]

Assembling == as.phase \in {"maps", "tree", "tiles", "convert"}

AssembleInit ==
    /\ vmaps = None
    /\ as = IdleAssemble("idle")

-----------------------------------------------------------------------------

\* read_raw_model: the groups the header announces are all there, and a group that
\* is flagged for liquid has its LIQU chunk.
GroupsIn(w) == IF buildings[w] \in {"grouped", "counted", "whole"} THEN Written(w) ELSE <<>>

Announced(w) == IF buildings[w] = "whole" THEN Len(Written(w)) ELSE Len(Wmo[w].groups)

read_raw_model_ok(f) ==
    /\ f \in DOMAIN buildings
    /\ IF f \notin DOMAIN Wmo THEN buildings[f] = "whole"
       ELSE /\ buildings[f] # "stub"
            /\ Len(GroupsIn(f)) = Announced(f)
            /\ \A i \in DOMAIN GroupsIn(f) : ~GroupsIn(f)[i].hollow

\* calculate_transformed_bound: an M2 with a vertex.
HasBound(f) == read_raw_model_ok(f) /\ Model[f] = "solid"

\* unique_entries: the first record of an id stands for all of the map; those
\* without raw file or, for an M2, without bounds are removed.
RecordsOf(map) == {r \in Range(dir_bin.recs) : r.map = map}

Firsts(map) ==
    {dir_bin.recs[i] : i \in {i \in DOMAIN dir_bin.recs :
        /\ dir_bin.recs[i].map = map
        /\ \A k \in 1 .. i - 1 : dir_bin.recs[k].map = map =>
                                    dir_bin.recs[k].id # dir_bin.recs[i].id}}

UniqueEntries(map) ==
    {s \in Firsts(map) : s.name \in DOMAIN buildings /\ (s.m2 => HasBound(s.name))}

\* A mutant: numbered from 1.
node_index_FromOne(spawns, id) == Cardinality({s \in spawns : s.id < id}) + 1

\* build_map_bih: the spawns are numbered from 0 in the order of their ids.
node_index(spawns, id) == Cardinality({s \in spawns : s.id < id})

\* The ids of the objects that the nodes of the tree refer to by number.
Objects(spawns) ==
    [i \in 1 .. Cardinality(spawns) |->
        CHOOSE id \in {s.id : s \in spawns} :
            Cardinality({s \in spawns : s.id < id}) = i - 1]

\* A spawn as write_to leaves it, followed by its index.
Entry(spawns, r) ==
    LET s == CHOOSE s \in spawns : s.id = r.id
    IN  [id |-> r.id, name |-> s.name, of |-> s.of, idx |-> node_index(spawns, r.id)]

\* What write_map_files writes for the records of a tile whose spawn is wanted.
EntriesOf(map, tile, spawns, wanted) ==
    {Entry(spawns, r) : r \in {r \in RecordsOf(map) :
                                 r.tile = tile /\ \E s \in wanted : s.id = r.id}}

\* write_map_files, the tree: the spawns of tile 65, 65 follow the nodes.
TreeFile(map, spawns) ==
    LET global == EntriesOf(map, GLOBAL_TILE, spawns, spawns)
    IN  [is_tiled |-> global = {}, objects |-> Objects(spawns), gobj |-> global]

\* A mutant: the world spawns are written like the others.
TileFile_WithWorld(map, tile, spawns) == EntriesOf(map, tile, spawns, spawns)

\* write_map_files, the tiles: world spawns stay out, an empty tile has no file.
TileFile(map, tile, spawns) ==
    EntriesOf(map, tile, spawns, {s \in spawns : ~s.world})

TilesWithFile(map, spawns) ==
    {t \in {r.tile : r \in RecordsOf(map)} : TileFile(map, t, spawns) # {}}

pack_tile_id(t) == t[1] * 2 ^ 16 + t[2]

-----------------------------------------------------------------------------

\* The raw directory must exist; then the output directory does.  A record cut
\* short is an error unless the cut falls where read_map_spawns looks for the
\* end of the file (in the map id, or before the flags).
StartAssemble ==
    /\ ~Assembling
    /\ IF buildings = None THEN as' = IdleAssemble("failed") /\ UNCHANGED vmaps
       ELSE /\ vmaps' = IF vmaps # None THEN vmaps
                        ELSE [trees |-> <<>>, tiles |-> <<>>, list |-> None, vmos |-> <<>>]
            /\ \/ /\ dir_bin # None => dir_bin.torn
                  /\ as' = IdleAssemble("failed")
               \/ /\ dir_bin # None
                  /\ as' = [IdleAssemble("maps") EXCEPT
                              !.maps = {r.map : r \in Range(dir_bin.recs)}]

\* The bounds of the spawns of the next map, in the order of the ids.
Calculate ==
    /\ as.phase = "maps"
    /\ \E map \in as.maps :
          /\ \A other \in as.maps : map <= other
          /\ as' = [as EXCEPT !.phase = "tree", !.map = map, !.spawns = UniqueEntries(map),
                              !.models = @ \cup {s.name : s \in UniqueEntries(map)}]
    /\ UNCHANGED vmaps

WriteTree ==
    /\ as.phase = "tree"
    /\ vmaps' = [vmaps EXCEPT !.trees = Put(@, as.map, TreeFile(as.map, as.spawns))]
    /\ as' = [as EXCEPT !.phase = "tiles", !.todo = TilesWithFile(as.map, as.spawns)]

\* The next tile in the order of the packed ids.
WriteVmtile ==
    /\ as.phase = "tiles"
    /\ \E t \in as.todo :
          /\ \A u \in as.todo : pack_tile_id(t) <= pack_tile_id(u)
          /\ vmaps' = [vmaps EXCEPT !.tiles = Put(@, <<as.map, t>>,
                                                  TileFile(as.map, t, as.spawns))]
          /\ as' = [as EXCEPT !.todo = @ \ {t}]

MapDone ==
    /\ as.phase = "tiles"
    /\ as.todo = {}
    /\ as' = [as EXCEPT !.phase = "maps", !.maps = @ \ {as.map}, !.map = None, !.spawns = {}]
    /\ UNCHANGED vmaps

\* export_gameobject_models: a list cut short ends the run, unless the cut
\* falls in the display id; a model that cannot be read is left out.  Then the
\* pool is made; without one the models are converted one by one.
ListedModels == IF gobj_list = None THEN {}
                ELSE {f \in Range(gobj_list.names) : read_raw_model_ok(f)}

ExportList ==
    /\ as.phase = "maps"
    /\ as.maps = {}
    /\ IF gobj_list = None THEN UNCHANGED vmaps
       ELSE vmaps' = [vmaps EXCEPT !.list = ListedModels]
    /\ \/ /\ gobj_list # None /\ gobj_list.torn
          /\ as' = IdleAssemble("failed")
       \/ \E limit \in {1, Threads} :
             as' = [as EXCEPT !.phase = "convert", !.models = @ \cup ListedModels,
                              !.todo = as.models \cup ListedModels, !.limit = limit]

\* A mutant: every model at once.
BeginConvert_NoLimit(f) ==
    /\ as.phase = "convert"
    /\ f \in as.todo
    /\ IF read_raw_model_ok(f)
       THEN /\ vmaps' = [vmaps EXCEPT !.vmos = Put(@, f, "partial")]
            /\ as' = [as EXCEPT !.todo = @ \ {f}, !.busy = @ \cup {f}]
       ELSE as' = [as EXCEPT !.todo = @ \ {f}] /\ UNCHANGED vmaps

\* convert_raw_file: the output is created only when the input could be read;
\* an error is logged and the model left out.
BeginConvert(f) ==
    /\ as.phase = "convert"
    /\ f \in as.todo
    /\ Cardinality(as.busy) < as.limit
    /\ IF read_raw_model_ok(f)
       THEN /\ vmaps' = [vmaps EXCEPT !.vmos = Put(@, f, "partial")]
            /\ as' = [as EXCEPT !.todo = @ \ {f}, !.busy = @ \cup {f}]
       ELSE as' = [as EXCEPT !.todo = @ \ {f}] /\ UNCHANGED vmaps

\* The output is written, or an error, logged like the others, cuts it short; or
\* it cannot be created.
EndConvert(f, state) ==
    /\ f \in as.busy
    /\ vmaps' = [vmaps EXCEPT !.vmos[f] = state]
    /\ as' = [as EXCEPT !.busy = @ \ {f},
                        !.unwritten = IF state = "whole" THEN @ ELSE @ \cup {f}]

CreateFails(f) ==
    /\ as.phase = "convert"
    /\ f \in as.todo
    /\ Cardinality(as.busy) < as.limit
    /\ read_raw_model_ok(f)
    /\ as' = [as EXCEPT !.todo = @ \ {f}, !.unwritten = @ \cup {f}]
    /\ UNCHANGED vmaps

\* A mutant: the workers that are still converting are not waited for.
AssembleDone_Early ==
    /\ as.phase = "convert"
    /\ as.todo = {}
    /\ as' = [as EXCEPT !.phase = "done"]
    /\ UNCHANGED vmaps

AssembleDone ==
    /\ as.phase = "convert"
    /\ as.todo = {}
    /\ as.busy = {}
    /\ as' = [as EXCEPT !.phase = "done"]
    /\ UNCHANGED vmaps

\* The process is killed, or it ends with the error of a write of a tree, a tile
\* or the list.
StopAssemble ==
    /\ Assembling
    /\ as' = IdleAssemble("stopped")
    /\ UNCHANGED vmaps

AssembleStep ==
    \/ Calculate \/ WriteTree \/ WriteVmtile \/ MapDone \/ ExportList \/ AssembleDone
    \/ as.phase = "convert" /\ \E f \in as.todo : BeginConvert(f)
    \/ \E f \in as.busy : EndConvert(f, "whole")

AssembleFault ==
    \/ StopAssemble
    \/ as.phase = "convert" /\ \E f \in as.todo : CreateFails(f)
    \/ \E f \in as.busy : EndConvert(f, "partial")
=============================================================================
