---------------------------- MODULE VmapExtract -----------------------------
(***************************************************************************)
(* The model extractor (vmap_extract.rs): the root WMO files of the        *)
(* client's archives, then the placements of every map, then the models    *)
(* of the game objects.  It writes one raw file per model to the Buildings *)
(* directory, every placement to dir_bin, and the list of game objects.    *)
(* One process, one thread; each action is one write, which may fail and   *)
(* end the process or be the last before it is killed.  A raw file goes    *)
(* through the stages                                                      *)
(*   "stub"     created, shorter than the 12 bytes of its counts           *)
(*   "headed"   header written: the vertex count of an M2, 0 for a WMO     *)
(*   "grouped"  every group of the WMO written                             *)
(*   "counted"  the number of triangles of the WMO patched at offset 8     *)
(*   "whole"    for a WMO, the number of groups patched at offset 12 too   *)
(***************************************************************************)
EXTENDS WorkDir, Integers, Sequences, FiniteSets, Functions

CONSTANTS
    Wmo,        \* name -> opens, modn (model names), doodads (model names),
                \* sets (start, count) and groups (kept, tris, refs and hollow:
                \* flagged for liquid by an MLIQ chunk without vertices)
    Model,      \* name -> "solid", "flat" (no vertices), "empty" (no triangles),
                \* "bad" (no whole header) or "missing"
    FixedName   \* name in MODN -> name extract_doodad_set looks for

\* No WMO is among the models it names: their names end in .m2, .mdx or .mdl.
ASSUME ModelsAreNoWmos ==
    \A w \in DOMAIN Wmo :
        IsList(Wmo[w].modn) /\ \A i \in DOMAIN Wmo[w].modn : Wmo[w].modn[i] # w

VARIABLE ex  \* the memory of the process

extractVars == <<buildings, dir_bin, gobj_list, ex>>

GLOBAL_TILE == <<65, 65>>

IdleExtract(how) ==
    [phase |-> how, at |-> 1, step |-> "next", wmo |-> None, todo |-> <<>>,
     ids |-> <<>>, wmo_doodads |-> <<>>, out |-> <<>>, doodad_id |-> 0]

Extracting == ex.phase \in {"wmos", "maps", "gobjs"}

ExtractInit ==
    /\ buildings = None
    /\ dir_bin = None
    /\ gobj_list = None
    /\ ex = IdleExtract("idle")

WithFile(name, stage) == [n \in DOMAIN buildings \cup {name} |->
                             IF n = name THEN stage ELSE buildings[n]]

\* The lists of ss, one after the other.
InTurn(ss) ==
    MapThenFoldSet(\o, <<>>, LAMBDA i : ss[i],
                   LAMBDA S : CHOOSE i \in S : \A j \in S : i <= j, DOMAIN ss)

\* The orders in which a hash set can give its elements.
Orders(S) == Bijection(1 .. Cardinality(S), S)

-----------------------------------------------------------------------------

\* The groups of a WMO that are written: the others do not open or are
\* skipped by should_skip, and leave the count of groups.
Written(w) == SelectSeq(Wmo[w].groups, LAMBDA g : g.kept)

Triangles(w) == SumFunction([i \in DOMAIN Written(w) |-> Written(w)[i].tris])

\* read_model_vertex_count, on a file of at least 12 bytes: the number at offset
\* 8, of triangles in the file of a WMO and of vertices in that of an M2.
read_model_vertex_count(s) ==
    IF s.what = "wmo"
    THEN IF buildings[s.name] \in {"counted", "whole"} THEN Triangles(s.name) ELSE 0
    ELSE IF Model[s.name] = "solid" THEN 1 ELSE 0

\* The next free number, unless the key has one.
generate(ids, key) == IF \E i \in DOMAIN ids : ids[i] = key THEN ids
                      ELSE Append(ids, key)

IdOf(ids, key) == CHOOSE i \in DOMAIN ids : ids[i] = key

-----------------------------------------------------------------------------

\* A mutant: the last reference of the set is left out.
extract_doodad_set_Short(w, p) ==
    IF w \notin DOMAIN ex.wmo_doodads \/ p.set >= Len(Wmo[w].sets) THEN <<>>
    ELSE LET set  == Wmo[w].sets[p.set + 1]
             refs == SelectSeq(ex.wmo_doodads[w],
                               LAMBDA r : r \in set.start .. set.start + set.count - 2)
         IN  [i \in DOMAIN refs |->
                [what |-> "doodad", name |-> FixedName[Wmo[w].doodads[refs[i] + 1]],
                 client_id |-> p.uid, skip |-> FALSE, uid |-> p.uid, ref |-> refs[i]]]

\* The references of the chosen set, in the order of the hash set.
extract_doodad_set(w, p) ==
    IF w \notin DOMAIN ex.wmo_doodads \/ p.set >= Len(Wmo[w].sets) THEN <<>>
    ELSE LET set  == Wmo[w].sets[p.set + 1]
             refs == SelectSeq(ex.wmo_doodads[w],
                               LAMBDA r : r \in set.start .. set.start + set.count - 1)
         IN  [i \in DOMAIN refs |->
                [what |-> "doodad", name |-> FixedName[Wmo[w].doodads[refs[i] + 1]],
                 client_id |-> p.uid, skip |-> FALSE, uid |-> p.uid, ref |-> refs[i]]]

\* A WMO placement and the doodads of its set; the flag of a destroyable
\* building keeps the WMO out, not its doodads.
WmoPlacement(names, p) ==
    IF p.name_id >= Len(names) THEN <<>>
    ELSE <<[what |-> "wmo", name |-> names[p.name_id + 1], client_id |-> p.uid,
            skip |-> p.destroyable, uid |-> p.uid, ref |-> 0]>>
            \o extract_doodad_set(names[p.name_id + 1], p)

\* An M2 placement: its id is the index of its name in the tile.
M2Placement(names, p) ==
    IF p.name_id >= Len(names) THEN <<>>
    ELSE <<[what |-> "m2", name |-> names[p.name_id + 1], client_id |-> p.name_id,
            skip |-> FALSE, uid |-> p.uid, ref |-> p.name_id]>>

\* The spawns parse_adt_tile and parse_wdt_global_wmo try to write.
JobSpawns(j) ==
    InTurn([i \in DOMAIN j.m2s |-> M2Placement(j.models, j.m2s[i])])
        \o InTurn([i \in DOMAIN j.placements |->
                          WmoPlacement(j.wmos, j.placements[i])])

\* parse_maps: the global WMO of a readable WDT, then the tiles in its order,
\* which the WDT lists or, when it cannot be read, which have a file.
JobsOf(c) ==
    LET Global(m) == IF m.wdt # "ok" \/ m.modf = None THEN <<>>
                     ELSE <<[map |-> m.id, tile |-> GLOBAL_TILE, adt |-> "root",
                             models |-> <<>>, m2s |-> <<>>,
                             wmos |-> m.modf.wmos, placements |-> m.modf.placements]>>
        Tiles(m)  == SelectSeq(m.tiles, LAMBDA t : /\ t.adt # None
                                                   /\ m.wdt = "ok" => t.has_adt)
        Job(m, t) == [map |-> m.id, tile |-> t.tile, adt |-> t.adt,
                      models |-> t.models, m2s |-> t.m2s,
                      wmos |-> t.wmos, placements |-> t.placements]
        OfMap(m)  == Global(m) \o [i \in DOMAIN Tiles(m) |-> Job(m, Tiles(m)[i])]
    IN  InTurn([i \in DOMAIN c.maps |-> OfMap(c.maps[i])])

Jobs == JobsOf(client)

-----------------------------------------------------------------------------

\* A mutant: a dir_bin of an earlier run is appended to.
StartExtract_Appends ==
    /\ ~Extracting
    /\ ex' = IdleExtract("wmos")
    /\ buildings' = IF buildings = None THEN <<>> ELSE buildings
    /\ UNCHANGED <<dir_bin, gobj_list>>

\* run_vmap_extract up to extract_wmos.
StartExtract ==
    /\ ~Extracting
    /\ IF dir_bin # None
       THEN ex' = IdleExtract("failed") /\ UNCHANGED buildings
       ELSE /\ ex' = IdleExtract("wmos")
            /\ buildings' = IF buildings = None THEN <<>> ELSE buildings
    /\ UNCHANGED <<dir_bin, gobj_list>>

\* extract_single_wmo: nothing to do for a file that exists or a root that
\* does not open; else WmoRoot::open first extracts the models of MODN.
WmoNeedsWork(w) == w \in DOMAIN Wmo /\ w \notin DOMAIN buildings /\ Wmo[w].opens

BeginWmo(w) == ex' = [ex EXCEPT !.step = "models", !.wmo = w, !.todo = Wmo[w].modn]

NextWmo ==
    /\ ex.phase = "wmos"
    /\ ex.step = "next"
    /\ IF ex.at > Len(client.wmos)
       THEN ex' = [ex EXCEPT !.phase = "maps", !.at = 1]
       ELSE IF WmoNeedsWork(client.wmos[ex.at]) THEN BeginWmo(client.wmos[ex.at])
       ELSE ex' = [ex EXCEPT !.at = @ + 1]
    /\ UNCHANGED <<buildings, dir_bin, gobj_list>>

\* extract_single_model, of the first model of the list, up to File::create;
\* a header that cannot be read ends the run.
NextModel ==
    /\ Extracting
    /\ ex.step = "models"
    /\ ex.todo # <<>>
    /\ LET f == Head(ex.todo)
       IN  IF f \in DOMAIN buildings \/ Model[f] \in {"missing", "empty"}
           THEN ex' = [ex EXCEPT !.todo = Tail(@)] /\ UNCHANGED buildings
           ELSE IF Model[f] = "bad"
           THEN ex' = IdleExtract("failed") /\ UNCHANGED buildings
           ELSE ex' = [ex EXCEPT !.step = "m2"] /\ buildings' = WithFile(f, "stub")
    /\ UNCHANGED <<dir_bin, gobj_list>>

WriteModel ==
    /\ ex.step = "m2"
    /\ LET f == Head(ex.todo)
       IN  IF buildings[f] = "stub"
           THEN buildings' = WithFile(f, "headed") /\ UNCHANGED ex
           ELSE /\ buildings' = WithFile(f, "whole")
                /\ ex' = [ex EXCEPT !.step = "models", !.todo = Tail(@)]
    /\ UNCHANGED <<dir_bin, gobj_list>>

\* extract_single_wmo from File::create on.  The references kept are those of
\* the written groups whose model was extracted; the file's doodads are known
\* to the rest of the run only when the last count is patched.
Valid(w, r) == r < Len(Wmo[w].doodads) /\ Wmo[w].doodads[r + 1] \in DOMAIN buildings

References(w) ==
    {r \in UNION {Written(w)[i].refs : i \in DOMAIN Written(w)} : Valid(w, r)}

CreateWmo ==
    /\ ex.step = "models"
    /\ ex.todo = <<>>
    /\ ex.wmo # None
    /\ buildings' = WithFile(ex.wmo, "stub")
    /\ ex' = [ex EXCEPT !.step = "wmo"]
    /\ UNCHANGED <<dir_bin, gobj_list>>

NextStage(stage) == CASE stage = "stub"    -> "headed"
                      [] stage = "headed"  -> "grouped"
                      [] stage = "grouped" -> "counted"
                      [] stage = "counted" -> "whole"

WriteWmo ==
    /\ ex.step = "wmo"
    /\ LET w == ex.wmo
           stage == NextStage(buildings[w])
       IN  /\ buildings' = WithFile(w, stage)
           /\ IF stage # "whole" THEN UNCHANGED ex
              ELSE \E order \in Orders(References(w)) :
                      ex' = [ex EXCEPT
                               !.wmo_doodads = [n \in DOMAIN @ \cup {w} |->
                                                  IF n = w THEN order ELSE @[n]],
                               !.step = IF ex.phase = "gobjs" THEN "list" ELSE "next",
                               !.wmo = None,
                               !.at = IF ex.phase = "gobjs" THEN @ ELSE @ + 1]
    /\ UNCHANGED <<dir_bin, gobj_list>>

-----------------------------------------------------------------------------

\* parse_maps, the next tile: one whose ADT lacks MVER, or is not a root, is
\* passed over; another error ends the run.  extract_gameobject_models
\* follows the last, with a new list.
NextTile ==
    /\ ex.phase = "maps"
    /\ ex.step = "next"
    /\ IF ex.at > Len(Jobs)
       THEN /\ ex' = [ex EXCEPT !.phase = "gobjs", !.at = 1]
            /\ gobj_list' = [names |-> <<>>, torn |-> FALSE]
       ELSE /\ ex' = CASE Jobs[ex.at].adt = "root" ->
                            [ex EXCEPT !.step = "models", !.todo = Jobs[ex.at].models]
                       [] Jobs[ex.at].adt \in {"split", "no_mver"} ->
                            [ex EXCEPT !.at = @ + 1]
                       [] OTHER -> IdleExtract("failed")
            /\ UNCHANGED gobj_list
    /\ UNCHANGED <<buildings, dir_bin>>

OpenDirBin ==
    /\ ex.phase = "maps"
    /\ ex.step = "models"
    /\ ex.todo = <<>>
    /\ dir_bin' = IF dir_bin = None THEN [recs |-> <<>>, torn |-> FALSE] ELSE dir_bin
    /\ ex' = [ex EXCEPT !.step = "records", !.out = JobSpawns(Jobs[ex.at])]
    /\ UNCHANGED <<buildings, gobj_list>>

\* write_model_instance, write_wmo_instance and the loop of extract_doodad_set.
\* A model without file or without vertices is not placed; a file too short for
\* its counts ends the run; a doodad is numbered when it is placed.
Absent(s) == s.skip \/ s.name \notin DOMAIN buildings

Unplaceable(s) == Absent(s) \/ (buildings[s.name] # "stub" /\ read_model_vertex_count(s) = 0)

Key(s) == <<s.client_id, IF s.what = "doodad" THEN ex.doodad_id + 1 ELSE 0>>

Record(s, ids) ==
    [map |-> Jobs[ex.at].map, tile |-> Jobs[ex.at].tile,
     world |-> Jobs[ex.at].tile = GLOBAL_TILE, m2 |-> s.what # "wmo", name |-> s.name,
     id |-> IdOf(ids, Key(s)), of |-> [what |-> s.what, uid |-> s.uid, ref |-> s.ref]]

WriteSpawn ==
    /\ ex.step = "records"
    /\ ex.out # <<>>
    /\ LET s   == Head(ex.out)
           ids == generate(ex.ids, Key(s))
       IN  IF Unplaceable(s)
           THEN /\ ex' = [ex EXCEPT !.out = Tail(@),
                                    !.doodad_id = IF s.what = "wmo" THEN 0 ELSE @]
                /\ UNCHANGED dir_bin
           ELSE IF buildings[s.name] = "stub"
           THEN ex' = IdleExtract("failed") /\ UNCHANGED dir_bin
           ELSE /\ ex' = [ex EXCEPT !.out = Tail(@), !.ids = ids, !.doodad_id = Key(s)[2]]
                /\ dir_bin' = [dir_bin EXCEPT !.recs = Append(@, Record(s, ids))]
    /\ UNCHANGED <<buildings, gobj_list>>

TileDone ==
    /\ ex.step = "records"
    /\ ex.out = <<>>
    /\ ex' = [ex EXCEPT !.step = "next", !.at = @ + 1]
    /\ UNCHANGED <<buildings, dir_bin, gobj_list>>

-----------------------------------------------------------------------------

\* extract_gameobject_models: a WMO is listed whatever became of it, a model
\* when its file exists; another name (.mdl, or too short) is passed over.
NextDisplay ==
    /\ ex.phase = "gobjs"
    /\ ex.step = "next"
    /\ IF ex.at > Len(client.displays)
       THEN ex' = [ex EXCEPT !.phase = "done"]
       ELSE LET f == client.displays[ex.at]
            IN  IF f \in DOMAIN Model
                THEN ex' = [ex EXCEPT !.step = "models", !.todo = <<f>>]
                ELSE IF f \notin DOMAIN Wmo THEN ex' = [ex EXCEPT !.at = @ + 1]
                ELSE IF WmoNeedsWork(f) THEN BeginWmo(f)
                ELSE ex' = [ex EXCEPT !.step = "list"]
    /\ UNCHANGED <<buildings, dir_bin, gobj_list>>

DisplayModelDone ==
    /\ ex.phase = "gobjs"
    /\ ex.step = "models"
    /\ ex.todo = <<>>
    /\ ex.wmo = None
    /\ ex' = IF client.displays[ex.at] \in DOMAIN buildings THEN [ex EXCEPT !.step = "list"]
             ELSE [ex EXCEPT !.step = "next", !.at = @ + 1]
    /\ UNCHANGED <<buildings, dir_bin, gobj_list>>

WriteDisplay ==
    /\ ex.step = "list"
    /\ gobj_list' = [gobj_list EXCEPT !.names = Append(@, client.displays[ex.at])]
    /\ ex' = [ex EXCEPT !.step = "next", !.at = @ + 1]
    /\ UNCHANGED <<buildings, dir_bin>>

\* The process is killed, or a write fails and ends it; the record it was writing
\* may be cut short.
StopExtract ==
    /\ Extracting
    /\ ex' = IdleExtract("stopped")
    /\ dir_bin' \in IF ex.step = "records" /\ ex.out # <<>> /\ ~Unplaceable(Head(ex.out))
                    THEN {dir_bin, [dir_bin EXCEPT !.torn = TRUE]} ELSE {dir_bin}
    /\ gobj_list' \in IF ex.step = "list"
                      THEN {gobj_list, [gobj_list EXCEPT !.torn = TRUE]} ELSE {gobj_list}
    /\ UNCHANGED buildings

ExtractStep ==
    \/ NextWmo \/ NextModel \/ WriteModel \/ CreateWmo \/ WriteWmo
    \/ NextTile \/ OpenDirBin \/ WriteSpawn \/ TileDone
    \/ NextDisplay \/ DisplayModelDone \/ WriteDisplay
=============================================================================
