---------------------------- MODULE Conversions -----------------------------
(***************************************************************************)
(* The data conversions of the offline tools, from the client's files to   *)
(* what the next tool makes of them:                                       *)
(*   a terrain tile, through its .map file (module MapFile), to the mesh   *)
(*   of the movement-map generator (module TerrainBuilder), with its       *)
(*   neighbours, and the groups of a model instance added to it;           *)
(*   a model, through its raw file, to the assembler (module RawModel);    *)
(*   boxes of spawns, groups or triangles to a tree (module Bih).          *)
(* Each behaviour takes one job through the tools that handle it.          *)
(***************************************************************************)
EXTENDS TerrainBuilder, RawModel

CONSTANTS
    TileInputs,  \* records adt, near (the neighbours' ADT or None), areas, cfg,
                 \* skip_liquid and model (None, or group, is_m2 and at)
    WmoInputs,   \* records root (id, wide and groups) and precise
    M2Inputs,    \* records indices and verts
    BoxInputs    \* records boxes and leaf_size

VARIABLES step, job, out

vars == <<step, job, out>>

TX == 32
TY == 32
Here   == <<TX, TY>>
Nearby == {<<TX + 1, TY>>, <<TX - 1, TY>>, <<TX, TY + 1>>, <<TX, TY - 1>>}

Init == /\ out = <<>>
        /\ \/ step = "adt"   /\ job \in TileInputs
           \/ step = "wmo"   /\ job \in WmoInputs
           \/ step = "m2"    /\ job \in M2Inputs
           \/ step = "boxes" /\ job \in BoxInputs

ConvertAdt ==
    /\ step = "adt"
    /\ step' = "map"
    /\ out' = [file |-> convert_adt(job.adt, job.areas, job.cfg),
               near |-> IF job.near = None THEN None
                        ELSE convert_adt(job.near, job.areas, job.cfg)]
    /\ UNCHANGED job

LoadMap ==
    /\ step = "map"
    /\ step' = "mesh"
    /\ out' = load_map([t \in {Here} \cup Nearby |-> IF t = Here THEN out.file
                                                     ELSE out.near],
                       job.skip_liquid, TX, TY)
    /\ UNCHANGED job

\* The model instance of the tile, if any, then clean_vertices on both meshes.
FinishMesh ==
    /\ step = "mesh"
    /\ step' = "clean"
    /\ LET mesh == IF job.model = None THEN out
                   ELSE load_vmap_group(out, job.model.group, job.model.is_m2,
                                        job.model.at)
       IN  out' = [terrain |-> out,
                   solid  |-> clean_vertices(mesh.solid_verts, mesh.solid_tris),
                   liquid |-> clean_vertices(mesh.liquid_verts, mesh.liquid_tris)]
    /\ UNCHANGED job

WriteRawModel ==
    /\ step \in {"wmo", "m2"}
    /\ step' = "raw"
    /\ out' = [kind |-> step,
               file |-> IF step = "wmo" THEN extract_single_wmo(job.root, job.precise)
                        ELSE extract_single_model(job)]
    /\ UNCHANGED job

ReadRawModel ==
    /\ step = "raw"
    /\ out.file # Missing
    /\ step' = "model"
    /\ out' = [kind |-> out.kind, model |-> read_raw_model(out.file)]
    /\ UNCHANGED job

BuildTree ==
    /\ step = "boxes"
    /\ step' = "tree"
    /\ out' = Build(job.boxes, job.leaf_size)
    /\ UNCHANGED job

Next == \/ ConvertAdt \/ LoadMap \/ FinishMesh
        \/ WriteRawModel \/ ReadRawModel
        \/ BuildTree

Spec == Init /\ [][Next]_vars

-----------------------------------------------------------------------------
(* Reference definitions, from the client's tile alone.                      *)

\* World position of row r and column c (in half squares) of the tile at t.
Place(t, r, c, h) == <<-((t[1] - 32) * 2 * V8_SIZE + c), h,
                       -((t[2] - 32) * 2 * V8_SIZE + r)>>

Ground(adt) == Limited(adt, job.cfg)
Flat(adt) == Ground(adt).min = Ground(adt).max

\* The four triangles of ground of square s, as sets of positions, by side.
SquareGround(t, g, s) ==
    LET corner(dr, dc) == Place(t, 2 * (s[1] + dr), 2 * (s[2] + dc),
                                g.v9[<<s[1] + dr, s[2] + dc>>])
        centre == Place(t, 2 * s[1] + 1, 2 * s[2] + 1, g.v8[s])
    IN  [north |-> {corner(0, 0), corner(0, 1), centre},
         east  |-> {corner(0, 1), corner(1, 1), centre},
         south |-> {corner(1, 0), corner(1, 1), centre},
         west  |-> {corner(0, 0), corner(1, 0), centre}]

Holed(adt, s) ==
    \E b \in Holes(adt)[CellOf(s)] :
        /\ Local(CellOf(s), s)[1] \in {2 * (b \div 4), 2 * (b \div 4) + 1}
        /\ Local(CellOf(s), s)[2] \in {2 * (b % 4), 2 * (b % 4) + 1}

\* One type of liquid all over the job.
OneLiquid(l) == \A p, q \in Cells : /\ l.entry[p] = l.entry[q]
                                    /\ l.flags[p] = l.flags[q]

Deep(adt, s) == /\ ~job.skip_liquid
                /\ ~OneLiquid(Liquid(adt))
                /\ "deep" \in Liquid(adt).flags[CellOf(s)]

\* The squares of the tile at t that share a side with the job's tile.
Touching(t) ==
    {s \in Squares :
        \/ t = Here
        \/ t[1] = TX + 1 /\ s[2] = 0
        \/ t[1] = TX - 1 /\ s[2] = V8_SIZE - 1
        \/ t[2] = TY + 1 /\ s[1] = 0
        \/ t[2] = TY - 1 /\ s[1] = V8_SIZE - 1}

GroundOf(t, adt) ==
    IF adt = None THEN {}
    ELSE LET g   == Ground(adt)
             dry == {s \in Touching(t) : ~Holed(adt, s) /\ ~Deep(adt, s)}
         IN  IF Flat(adt) THEN {}
             ELSE UNION {Range(SquareGround(t, g, s)) : s \in dry}

\* The byte where a section of the .map file starts.
Position(file, name) ==
    LET i == CHOOSE j \in DOMAIN file.written : file.written[j].name = name
    IN  MapThenSumSet(LAMBDA j : file.written[j].size, 1 .. i - 1)

Positions(verts, tris) ==
    [k \in DOMAIN tris |-> [m \in 1 .. 3 |-> verts[tris[k][m] + 1]]]

\* The LiquidType rows for the client's liquid number n: water, ocean, magma, slime.
SurfaceTypes(n) == CASE n % 4 = 0 -> {1, 2, 41} [] n % 4 = 1 -> {2}
                     [] n % 4 = 2 -> {3} [] n % 4 = 3 -> {4, 21}

InTile(p) ==    \* a triangle within the job's own tile
    \A m \in 1 .. 3 : p[m][1] \in -2 * V8_SIZE .. 0 /\ p[m][3] \in -2 * V8_SIZE .. 0

FacesUp(p) == (p[2][1] - p[1][1]) * (p[3][3] - p[1][3])
              - (p[3][1] - p[1][1]) * (p[2][3] - p[1][3]) < 0

-----------------------------------------------------------------------------
(* Properties.                                                               *)

\* The offsets in the header of a .map file are where write_map_file puts the
\* sections, whatever the sizes of the packed payloads; 0 stands for no liquid.
OffsetsPointAtSections ==
    step = "map" =>
        /\ out.file.area_map_offset = Position(out.file, "area")
        /\ out.file.height_map_offset = Position(out.file, "height")
        /\ out.file.holes_offset = Position(out.file, "holes")
        /\ IF out.file.liquid = None THEN out.file.liquid_map_offset = 0
           ELSE out.file.liquid_map_offset = Position(out.file, "liquid")

\* The heights that the generator reads back are those of the client to a tenth
\* of a yard, in every packing that build_height_header chooses.
HeightsRoundTrip ==
    step = "map" =>
        LET g == Ground(job.adt)
            h == out.file.height
        IN  IF h.format = "no_height" THEN Flat(job.adt)
            ELSE Heights(h, h.v9) = g.v9 /\ Heights(h, h.v8) = g.v8

\* The ground of the mesh is exactly the client's ground: four triangles around
\* the centre of every square of the tile and of every neighbouring square that
\* touches it, facing up, without the holes and the deep water.  A tile that gives
\* neither ground nor liquid of its own is not joined to its neighbours: load_map
\* reads them only after a portion that left triangles in the mesh.
GroundIsTheClients ==
    step = "mesh" =>
        LET own  == GroundOf(Here, job.adt)
            near == UNION {GroundOf(t, job.near) : t \in Nearby}
            all  == Range(Positions(out.solid_verts, out.solid_tris))
            wet  == \E p \in Range(Positions(out.liquid_verts, out.liquid_tris)) : InTile(p)
        IN  /\ {Range(p) : p \in all} =
                 IF own # {} \/ wet THEN own \cup near ELSE {}
            /\ \A p \in all : FacesUp(p)

\* Where the client shows liquid that is not deep, in a tile with more than one
\* type of liquid, both halves of the square are liquid of the right area, facing
\* up, unless the ground there lies above it; and liquid is nowhere but in a square with a
\* shown square at one of its corners, or in the last row or column, whose outer
\* heights convert_adt never marks as missing.
LiquidIsTheClients ==
    step = "mesh" /\ ~job.skip_liquid /\ ~OneLiquid(Liquid(job.adt))
                  /\ job.cfg.min_height = INVALID_MAP_LIQ_HEIGHT =>
        LET l == Liquid(job.adt)
            g == Ground(job.adt)
            pos == Positions(out.liquid_verts, out.liquid_tris)
            at(s) == {Place(Here, 2 * (s[1] + d[1]), 2 * (s[2] + d[2]), 0) :
                          d \in (0 .. 1) \X (0 .. 1)}
            level(p) == {[p[m] EXCEPT ![2] = 0] : m \in 1 .. 3}
            within(s) == {k \in DOMAIN pos : level(pos[k]) \subseteq at(s)}
            over(s) == /\ ~Holed(job.adt, s) /\ ~Flat(job.adt)
                       /\ \E sides \in {{"north", "east"}, {"south", "west"}} :
                            \A side \in sides :
                              \A v \in SquareGround(Here, g, s)[side] :
                                v[2] > l.height[s]
            area(s) == LiquidArea(l.flags[CellOf(s)])
        IN  \A s \in Squares :
                /\ s \in l.show /\ area(s) \in {"water", "magma_slime"} =>
                     Cardinality(within(s)) = 2 \/ over(s)
                /\ \A k \in within(s) : out.liquid_type[k] = area(s) /\ FacesUp(pos[k])
                /\ within(s) # {} =>
                     \/ \E d \in (0 .. 1) \X (0 .. 1) :
                            <<s[1] + d[1], s[2] + d[2]>> \in l.show
                     \/ s[1] = V8_SIZE - 1 \/ s[2] = V8_SIZE - 1

\* The mesh that recast gets, with unused vertices dropped, is the terrain's,
\* triangle by triangle, followed by the model instance: its triangles, and two
\* triangles facing up over every tile of its liquid that is not marked empty, at
\* the heights of that tile's corners.
FinishedMeshIsTerrainAndModel ==
    step = "clean" =>
        LET solid  == Positions(out.solid.verts, out.solid.tris)
            liquid == Positions(out.liquid.verts, out.liquid.tris)
            ground == Positions(out.terrain.solid_verts, out.terrain.solid_tris)
            water  == Positions(out.terrain.liquid_verts, out.terrain.liquid_tris)
            used(c) == UNION {Range(c.tris[k]) : k \in DOMAIN c.tris}
            added(all, old) == {Range(all[k]) : k \in Len(old) + 1 .. Len(all)}
            g == job.model.group
            l == g.liquid
            corner(x, y) == VmapVertex(job.model.at,
                                <<x, y, l.heights[y * (l.tiles_x + 1) + x + 1]>>)
            halves(x, y) == {{corner(x, y), corner(x, y + 1), corner(x + 1, y + 1)},
                             {corner(x, y), corner(x + 1, y), corner(x + 1, y + 1)}}
        IN  /\ \A c \in {out.solid, out.liquid} :
                 c.tris # <<>> => used(c) = {k - 1 : k \in DOMAIN c.verts}
            /\ IsPrefix(ground, solid) /\ IsPrefix(water, liquid)
            /\ added(solid, ground) =
                 IF job.model = None THEN {}
                 ELSE {{VmapVertex(job.model.at, g.vertices[i + 1]) : i \in Range(t)} :
                          t \in Range(g.triangles)}
            /\ added(liquid, water) =
                 IF job.model = None \/ l = None THEN {}
                 ELSE UNION {halves(t[1], t[2]) :
                          t \in {t \in (0 .. l.tiles_x - 1) \X (0 .. l.tiles_y - 1) :
                                   l.flags[t[1] + t[2] * l.tiles_x + 1] % 16 # 15}}
            /\ \A k \in Len(water) + 1 .. Len(liquid) : FacesUp(liquid[k])

\* The assembler reads from the raw file of a WMO what the extractor was given:
\* every group that is not skipped, with the faces that collide (all of them in
\* the precise mode) over the same vertices, no other vertex being kept, and its
\* liquid: size, heights, tiles and a type of the kind the client names, in the
\* header or in the first tile that is shown.  It reads nothing exactly when a
\* group has an MLIQ chunk without vertices, which sets the flag of a liquid but
\* writes none.
WmoSurvivesTheRawFile ==
    step = "model" /\ out.kind = "wmo" =>
        LET given == SelectSeq(job.root.groups,
                        LAMBDA g : IF g = Missing THEN FALSE ELSE ~should_skip(g))
            faces(g) == SelectSeq(g.faces,
                            LAMBDA f : job.precise \/ IsCollision(f.flags))
            shape(verts, corners) == [m \in 1 .. 3 |-> verts[corners[m] + 1]]
            got == out.model.groups
            empty(g) == IF g.liquid = Missing THEN FALSE ELSE g.liquid.heights = <<>>
            number(l) == IF job.root.wide THEN l.type - 1 ELSE l.type
            shown(l) == SelectSeq(l.bytes, LAMBDA b : b % 16 # 15)
            named(l) == IF job.root.wide /\ l.type < 0 THEN {0}
                        ELSE IF number(l) \in 0 .. 14 THEN SurfaceTypes(number(l))
                        ELSE IF shown(l) = <<>> THEN {0}
                        ELSE SurfaceTypes(shown(l)[1] % 16)
        IN  /\ (out.model = Missing) = (\E k \in DOMAIN given : empty(given[k]))
            /\ out.model # Missing => Len(got) = Len(given)
            /\ out.model # Missing => \A k \in DOMAIN given :
                /\ got[k].id = given[k].id
                /\ LET used == UNION {Range(t) : t \in Range(got[k].triangles)}
                       kept == {n - 1 : n \in DOMAIN got[k].vertices}
                   IN  used \subseteq kept /\ (~job.precise => used = kept)
                /\ [n \in DOMAIN got[k].triangles |->
                        shape(got[k].vertices, got[k].triangles[n])] =
                   [n \in DOMAIN faces(given[k]) |->
                        shape(given[k].verts, faces(given[k])[n].corners)]
                /\ (given[k].liquid = Missing) = (got[k].liquid = Missing)
                /\ given[k].liquid # Missing =>
                     /\ got[k].liquid.heights = given[k].liquid.heights
                     /\ got[k].liquid.flags = given[k].liquid.bytes
                     /\ got[k].liquid.tiles_x = given[k].liquid.xtiles
                     /\ got[k].liquid.tiles_y = given[k].liquid.ytiles
                     /\ got[k].liquid.type \in named(given[k].liquid)

\* From the raw file of an M2 model the assembler reads its triangles, each turned
\* round, over the same vertices.
M2SurvivesTheRawFile ==
    step = "model" /\ out.kind = "m2" =>
        /\ out.model # Missing
        /\ Len(out.model.groups) = 1
        /\ out.model.groups[1].vertices = job.verts
        /\ out.model.groups[1].triangles =
             [k \in 1 .. Len(job.indices) \div 3 |->
                <<job.indices[3 * k - 2], job.indices[3 * k], job.indices[3 * k - 1]>>]

\* The leaves of the tree share out the objects, each object in one leaf, and a
\* query with any box reaches every object whose box it touches: no clip plane of
\* an inner node cuts off an object below it.
TreeFindsEveryObject ==
    step = "tree" =>
        LET n == Len(job.boxes)
            leaf(at) == LET l == out.tree[at + 1] IN l.first .. l.first + l.count - 1
            leaves == Leaves(out.tree, 0)
            touch(a, b) == \A x \in 1 .. 3 : a.min[x] <= b.max[x] /\ b.min[x] <= a.max[x]
        IN  /\ Range(out.indices) = 0 .. n - 1
            /\ UNION {leaf(at) : at \in leaves} = 0 .. n - 1
            /\ \A a, b \in leaves : a # b => leaf(a) \cap leaf(b) = {}
            /\ \A q, k \in 1 .. n :
                 touch(job.boxes[q], job.boxes[out.indices[k] + 1]) =>
                     k - 1 \in Reached(out.tree, 0, job.boxes[q])

=============================================================================
