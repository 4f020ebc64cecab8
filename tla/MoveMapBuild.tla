---------------------------- MODULE MoveMapBuild ----------------------------
(***************************************************************************)
(* The movement-map generator (movemap_gen.rs): it finds the tiles to      *)
(* build from the names of the files in maps and vmaps, then for every map *)
(* writes the parameters of its mesh (.mmap) and builds its tiles          *)
(* (.mmtile) in a pool of workers.  A worker makes a Recast mesh for each  *)
(* part of the tile, merges them and lets Detour make the tile.  What      *)
(* Recast and Detour compute is a choice among their outcomes; the objects *)
(* the worker holds of them are its state.                                 *)
(***************************************************************************)
EXTENDS WorkDir, Integers, FiniteSets

CONSTANTS
    SubTiles,    \* TILES_PER_MAP * TILES_PER_MAP, the parts of a tile
    SkippedMaps  \* the maps the command line leaves out

ASSUME PartsAssumption == SubTiles \in Nat
ASSUME NoneIsNoMesh == None \notin [orig : (0 .. 99) \X (0 .. 99), max_tiles : Nat]

VARIABLE gen  \* the memory of the process

buildVars == <<mmaps, gen>>

IdleBuild(how) ==
    [phase |-> how, tiles |-> <<>>, todo |-> {}, map |-> None, orig |-> None,
     single |-> None, all |-> FALSE, left |-> {}, busy |-> <<>>, limit |-> 0,
     fresh |-> {}, tried |-> {}, unwritten |-> {}, misfreed |-> FALSE, leaked |-> {},
     unmerged |-> {}]

Building == gen.phase \in {"maps", "tiles"}

BuildInit == /\ mmaps = None
             /\ gen = IdleBuild("idle")

-----------------------------------------------------------------------------

\* The name extract_maps gives a tile (MMMYYXX.map), by the numbers read at the
\* start, at [3..5] and at [5..7].
MapName(k) == [map |-> k[1], at3 |-> k[2][2], at5 |-> k[2][1]]

\* A mutant: the row read as the column.
MapTiles_Swapped(names) == {<<n.at3, n.at5>> : n \in names}

MapTiles(names) == {<<n.at5, n.at3>> : n \in names}

\* The maps of the names in maps and of the trees in vmaps, with their tiles.  The
\* .vmtile names add none: write_map_files calls them MMM_XX_YY and discover_tiles
\* reads [3..5] and [6..8], which start with an underscore and are no numbers.
discover_tiles ==
    LET names == {MapName(k) : k \in DOMAIN maps}
    IN  [id \in {n.map : n \in names} \cup DOMAIN vmaps.trees |->
            MapTiles({n \in names : n.map = id})]

\* build_nav_mesh: the origin is the far corner of the largest coordinates.
Largest(S, i) == CHOOSE n \in {t[i] : t \in S} : \A t \in S : t[i] <= n

\* A mutant: the origin of the near corner.
build_nav_mesh_Near(tiles) ==
    LET Smallest(i) == CHOOSE n \in {t[i] : t \in tiles} : \A t \in tiles : n <= t[i]
    IN  [orig |-> <<Smallest(1), Smallest(2)>>, max_tiles |-> Cardinality(tiles)]

build_nav_mesh(tiles) == [orig |-> <<Largest(tiles, 1), Largest(tiles, 2)>>,
                          max_tiles |-> Cardinality(tiles)]

\* Where the tile lies in the mesh: the centre of the tile from the origin, in
\* tiles, (2n + 1) / 2 cut towards zero.
Cut(n) == IF n >= 0 THEN n ELSE n + 1

NavTile(orig, t) == <<Cut(orig[1] - t[1]), Cut(orig[2] - t[2])>>

-----------------------------------------------------------------------------

(* build_common_tile_recast: the stages that can fail, the object each     *)
(* makes, and what is freed when it fails and when it succeeds.            *)
Stages ==
    <<[makes |-> {"solid"}, fails |-> {"solid"},        ok |-> {}],
      [makes |-> {"chf"},   fails |-> {"solid", "chf"}, ok |-> {"solid"}],
      [makes |-> {},        fails |-> {"chf"},          ok |-> {}],  \* erode
      [makes |-> {},        fails |-> {"chf"},          ok |-> {}],  \* distance field
      [makes |-> {},        fails |-> {"chf"},          ok |-> {}],  \* regions
      [makes |-> {"cset"},  fails |-> {"chf", "cset"},  ok |-> {}],
      [makes |-> {"pmesh"}, fails |-> {"chf", "cset", "pmesh"}, ok |-> {}],
      [makes |-> {"dmesh"}, fails |-> {"chf", "cset", "pmesh", "dmesh"},
                            ok |-> {"chf", "cset"}]>>

\* The objects held when stage i is reached, and after all of them.
Made(i)   == UNION {Stages[k].makes : k \in 1 .. i - 1}
Freed(i)  == UNION {Stages[k].ok : k \in 1 .. i - 1}
HeldAt(i) == Made(i) \ Freed(i)

\* A mutant: a stage that fails frees only its own object.
build_common_tile_recast_OwnOnly(i, allocated) ==
    IF i = 0 THEN [held |-> HeldAt(Len(Stages) + 1), misfreed |-> FALSE]
    ELSE [held |-> HeldAt(i), misfreed |-> FALSE]

\* The run that fails at stage i (0: none does), whose object was or was not
\* allocated.  Freeing the null pointer of the latter does nothing.
build_common_tile_recast(i, allocated) ==
    IF i = 0 THEN [held |-> HeldAt(Len(Stages) + 1), misfreed |-> FALSE]
    ELSE LET held == HeldAt(i) \cup (IF allocated THEN Stages[i].makes ELSE {})
         IN  [held |-> held \ Stages[i].fails,
              misfreed |-> ~(Stages[i].fails \subseteq held \cup Stages[i].makes)]

\* Worker w frees S; one that returns leaves what it still holds behind.
Free(g, t, S) == [g EXCEPT !.busy[t].held = @ \ S,
                           !.misfreed = @ \/ ~(S \subseteq g.busy[t].held)]

Return(g, t) == [g EXCEPT !.busy = [k \in DOMAIN g.busy \ {t} |-> g.busy[k]],
                          !.leaked = IF g.busy[t].held = {} THEN @
                                      ELSE @ \cup {<<g.map, t>>}]

Ctx == <<0, "ctx">>
MergedPoly == <<0, "pmesh">>
MergedDetail == <<0, "dmesh">>
NavData == <<0, "nav">>

-----------------------------------------------------------------------------

\* build_maps: the maps of the command line in its order, or all in theirs.
InOrder(ids) == IF ids # <<>> THEN {<<i, ids[i]>> : i \in DOMAIN ids}
                ELSE {<<id, id>> : id \in DOMAIN discover_tiles}

\* run_movemap_gen: both input directories must exist; the command line names
\* one tile and its map, some maps, or nothing, for all that were found.
StartBuild(args) ==
    /\ ~Building
    /\ IF maps = None \/ vmaps = None
       THEN gen' = IdleBuild("failed") /\ UNCHANGED mmaps
       ELSE /\ mmaps' = IF mmaps = None THEN [params |-> <<>>, tiles |-> <<>>] ELSE mmaps
            /\ gen' = IF args.tile # None /\ args.ids = <<>> THEN IdleBuild("failed")
                      ELSE [IdleBuild("maps") EXCEPT
                         !.tiles = discover_tiles, !.single = args.tile,
                         !.all = args.tile = None /\ args.ids = <<>>,
                         !.todo = IF args.tile # None THEN {<<1, args.ids[1]>>}
                                  ELSE {p \in InOrder(args.ids) : p[2] \notin SkippedMaps}]

\* build_map and build_single_tile up to the workers: nothing is built for a
\* map without tiles, or whose .mmap cannot be created or written.
NextBuild ==
    /\ gen.phase = "maps"
    /\ \E p \in gen.todo : (\A q \in gen.todo : p[1] <= q[1]) /\
       LET id    == p[2]
           rest  == [gen EXCEPT !.todo = @ \ {p}]
           tiles == IF id \in DOMAIN gen.tiles THEN gen.tiles[id] ELSE {}
           nav   == build_nav_mesh(tiles)
       IN  IF tiles = {} THEN gen' = rest /\ UNCHANGED mmaps
           ELSE \/ /\ gen' = [rest EXCEPT !.unwritten = @ \cup {id}]
                   /\ mmaps' \in {mmaps, [mmaps EXCEPT !.params = Put(@, id, None)]}
                \/ \E limit \in {1, Threads} :
                      /\ mmaps' = [mmaps EXCEPT !.params = Put(@, id, nav)]
                      /\ gen' = [rest EXCEPT
                                   !.phase = "tiles", !.map = id, !.orig = nav.orig,
                                   !.left = IF gen.single = None THEN tiles
                                            ELSE {gen.single},
                                   !.limit = limit]

\* build_tile_worker: no geometry, or no Recast context, and there is no tile.
TakeTile(t) ==
    /\ gen.phase = "tiles"
    /\ t \in gen.left
    /\ Cardinality(DOMAIN gen.busy) < gen.limit
    /\ LET g == [gen EXCEPT !.left = @ \ {t}, !.tried = @ \cup {<<gen.map, t>>}]
       IN  \/ gen' = g
           \/ gen' = [g EXCEPT !.busy = Put(@, t, [k |-> 1, file |-> FALSE, held |-> {Ctx}])]
    /\ UNCHANGED mmaps

\* What a part that failed still holds is lost (negative): it returns nothing.
BuildSubTile(t) ==
    /\ gen.busy[t].k <= SubTiles
    /\ \E i \in 0 .. Len(Stages), allocated \in BOOLEAN :
          LET k == gen.busy[t].k
              r == build_common_tile_recast(i, allocated)
          IN  gen' = [gen EXCEPT !.busy[t].k = k + 1,
                                 !.busy[t].held = @ \cup {<<IF i = 0 THEN k ELSE -k, o>> :
                                                          o \in r.held},
                                 !.misfreed = @ \/ r.misfreed]
    /\ UNCHANGED mmaps

\* The merge: no part has a mesh; the merged mesh, or its detail, cannot be
\* allocated; or both can, and the parts are freed.
Meshes(t) == {o \in gen.busy[t].held : o[1] > 0}

MergeMeshes(t) ==
    /\ gen.busy[t].k = SubTiles + 1
    /\ IF Meshes(t) = {} THEN gen' = Return(Free(gen, t, {Ctx}), t)
       ELSE \/ \E got \in {{}, {MergedPoly}} :
                  gen' = Return(Free([gen EXCEPT !.unmerged = @ \cup {<<gen.map, t>>},
                                                 !.busy[t].held = @ \cup got],
                                     t, got \cup {Ctx}), t)
            \/ gen' = Free([gen EXCEPT !.busy[t].k = SubTiles + 2,
                                       !.busy[t].held = @ \cup {MergedPoly, MergedDetail}],
                           t, Meshes(t))
    /\ UNCHANGED mmaps

Cleanup(g, t) == Return(Free(g, t, {MergedPoly, MergedDetail, Ctx}), t)

\* Detour refuses the mesh, or the file cannot be created, or it is.
CreateTile(t) ==
    /\ gen.busy[t].k = SubTiles + 2
    /\ ~gen.busy[t].file
    /\ LET made == [gen EXCEPT !.busy[t].held = @ \cup {NavData}]
       IN  \/ gen' = Cleanup(gen, t) /\ UNCHANGED mmaps
           \/ gen' = Cleanup(Free(made, t, {NavData}), t) /\ UNCHANGED mmaps
           \/ /\ mmaps' = [mmaps EXCEPT !.tiles = Put(@, <<gen.map, t>>,
                              [at |-> NavTile(gen.orig, t), state |-> "partial"])]
              /\ gen' = [made EXCEPT !.busy[t].file = TRUE]

\* A write that fails is not noticed.
WriteTile(t) ==
    /\ gen.busy[t].file
    /\ \E state \in {"partial", "whole"} :
          mmaps' = [mmaps EXCEPT !.tiles[<<gen.map, t>>].state = state]
    /\ gen' = Cleanup(Free([gen EXCEPT !.fresh = @ \cup {<<gen.map, t>>}], t, {NavData}), t)

\* A mutant: waits for as many tiles as the map has.
MapBuilt_Counts ==
    /\ gen.phase = "tiles"
    /\ {k \in gen.fresh : k[1] = gen.map} = {gen.map} \X gen.tiles[gen.map]
    /\ gen' = [gen EXCEPT !.phase = "maps"]
    /\ UNCHANGED mmaps

\* The scope of the pool ends with its last worker; then the next map.
MapBuilt ==
    /\ gen.phase = "tiles"
    /\ gen.left = {}
    /\ gen.busy = <<>>
    /\ gen' = [gen EXCEPT !.phase = "maps"]
    /\ UNCHANGED mmaps

BuildDone ==
    /\ gen.phase = "maps"
    /\ gen.todo = {}
    /\ gen' = [gen EXCEPT !.phase = "done"]
    /\ UNCHANGED mmaps

KillBuild ==
    /\ Building
    /\ gen' = IdleBuild("stopped")
    /\ UNCHANGED mmaps

Worker(t) == BuildSubTile(t) \/ MergeMeshes(t) \/ CreateTile(t) \/ WriteTile(t)

BuildStep ==
    \/ NextBuild \/ MapBuilt \/ BuildDone
    \/ \E t \in gen.left : TakeTile(t)
    \/ \E t \in DOMAIN gen.busy : Worker(t)
=============================================================================
