--------------------------- MODULE TerrainBuilder ---------------------------
(***************************************************************************)
(* The movement-map generator's reading of .map files and models:          *)
(* load_map, load_map_portion and load_vmap of extractors' movemap_gen.rs, *)
(* with the index arithmetic of its helpers, and clean_vertices.           *)
(*                                                                         *)
(* A mesh has the vertices and triangles of the ground (solid) and of the  *)
(* liquid; a vertex is <<x, height, y>> in half squares and tenths of a    *)
(* yard, a triangle three indices (from 0) into the vertices.              *)
(***************************************************************************)
EXTENDS MapFile, SequencesExt

V8_SIZE    == ADT_GRID_SIZE
V9_SIZE    == ADT_GRID_SIZE + 1
V8_SIZE_SQ == V8_SIZE * V8_SIZE
V9_SIZE_SQ == V9_SIZE * V9_SIZE

INVALID_MAP_LIQ_HEIGHT     == -5000
INVALID_MAP_LIQ_HEIGHT_MAX == 50000

EmptyMesh == [solid_verts |-> <<>>, solid_tris |-> <<>>,
              liquid_verts |-> <<>>, liquid_tris |-> <<>>, liquid_type |-> <<>>]

\* First square, end and increment of the squares of a portion of a tile.
get_loop_vars(portion) ==
    CASE portion = "entire" -> <<0, V8_SIZE_SQ, 1>>
      [] portion = "top"    -> <<0, V8_SIZE, 1>>
      [] portion = "left"   -> <<0, V8_SIZE_SQ - V8_SIZE + 1, V8_SIZE>>
      [] portion = "right"  -> <<V8_SIZE - 1, V8_SIZE_SQ, V8_SIZE>>
      [] portion = "bottom" -> <<V8_SIZE_SQ - V8_SIZE, V8_SIZE_SQ, 1>>

\* The squares of a portion in the order of the loops over it.
Visited(portion) ==
    LET l == get_loop_vars(portion)
    IN  [k \in 1 .. (l[2] - l[1] + l[3] - 1) \div l[3] |-> l[1] + (k - 1) * l[3]]

\* World position of vertex index i of a grid with size vertices per row.
GridCoord(i, size, half, tx, ty, h) ==
    <<-((tx - 32) * 2 * V8_SIZE + 2 * (i % size) + half), h,
      -((ty - 32) * 2 * V8_SIZE + 2 * (i \div size) + half)>>

get_height_coord(i, grid, tx, ty, v) ==
    LET size == IF grid = "V9" THEN V9_SIZE ELSE V8_SIZE
    IN  GridCoord(i, size, IF grid = "V9" THEN 0 ELSE 1, tx, ty,
                  v[<<i \div size, i % size>>])

\* Indices of the corners of a triangle of a square: four around the centre for
\* the ground, two for the liquid.
get_height_triangle(square, spot, liquid) ==
    LET sq     == square + square \div V8_SIZE
        centre == V9_SIZE_SQ + square
    IN  CASE ~liquid /\ spot = "top"    -> <<sq, sq + 1, centre>>
          [] ~liquid /\ spot = "left"   -> <<sq, centre, sq + V9_SIZE>>
          [] ~liquid /\ spot = "right"  -> <<sq + 1, sq + V9_SIZE + 1, centre>>
          [] ~liquid /\ spot = "bottom" -> <<centre, sq + V9_SIZE + 1, sq + V9_SIZE>>
          [] liquid /\ spot = "top"     -> <<sq, sq + 1, sq + V9_SIZE + 1>>
          [] liquid /\ spot = "bottom"  -> <<sq, sq + V9_SIZE + 1, sq + V9_SIZE>>

SquareCell(square) == CellOf(<<square \div V8_SIZE, square % V8_SIZE>>)

is_hole_Transposed(square, holes) ==    \* faulty: row and column change places
    LET row == (square \div V8_SIZE) % ADT_CELL_SIZE
        col == square % ADT_CELL_SIZE
    IN  4 * (col \div 2) + row \div 2 \in holes[SquareCell(square)]

\* The low-resolution holes are bits of 2 by 2 squares of the cell: one bit is
\* left by the two masks of HOLETAB_H and HOLETAB_V.
is_hole(square, holes) ==
    LET row == (square \div V8_SIZE) % ADT_CELL_SIZE
        col == square % ADT_CELL_SIZE
    IN  4 * (row \div 2) + col \div 2 \in holes[SquareCell(square)]

get_liquid_type(square, liquid_flags) == liquid_flags[SquareCell(square)]

\* The area that a triangle of liquid of these flags becomes, "deep" when neither
\* ground nor liquid is used, None when there is no liquid.
LiquidArea(flags) ==
    IF "deep" \in flags THEN "deep"
    ELSE IF flags \cap {"water", "ocean"} # {} THEN "water"
    ELSE IF flags \cap {"magma", "slime"} # {} THEN "magma_slime"
    ELSE None
-----------------------------------------------------------------------------
(* Loading a portion of the tile at tx, ty from its file.                    *)

HaveTerrain(file) == file.height.format # "no_height"
HaveLiquid(file, skip_liquid) == file.liquid # None /\ ~skip_liquid

\* A height of the file: steps above the lowest, to the nearest tenth of a yard.
Unpack(p, h) ==
    LET steps == Steps(h.format)
    IN  h.grid_height
        + (p * (h.grid_max_height - h.grid_height) + steps \div 2) \div steps

Heights(h, f) ==
    IF h.format = "float" THEN f ELSE [i \in DOMAIN f |-> Unpack(f[i], h)]

TerrainVerts(file, tx, ty) ==
    LET v9 == Heights(file.height, file.height.v9)
        v8 == Heights(file.height, file.height.v8)
    IN  [i \in 1 .. V9_SIZE_SQ |-> get_height_coord(i - 1, "V9", tx, ty, v9)]
        \o [i \in 1 .. V8_SIZE_SQ |-> get_height_coord(i - 1, "V8", tx, ty, v8)]

\* Vertices outside the rectangle of the file are dummies; without heights all
\* are at the level of the header.
LiquidVerts(file, tx, ty) ==
    LET q == file.liquid
        height(r, c) ==
            IF "no_height" \in q.flags THEN q.liquid_level
            ELSE IF \/ r < q.offset_y \/ r >= q.offset_y + q.height
                    \/ c < q.offset_x \/ c >= q.offset_x + q.width
            THEN INVALID_MAP_LIQ_HEIGHT
            ELSE q.map[(r - q.offset_y) * q.width + (c - q.offset_x) + 1]
    IN  [i \in 1 .. V9_SIZE_SQ |->
            GridCoord(i - 1, V9_SIZE, 0, tx, ty,
                      height((i - 1) \div V9_SIZE, (i - 1) % V9_SIZE))]

Shifted(t, count) == <<t[3] + count, t[2] + count, t[1] + count>>

ValidHeight_AcceptsDummies(h) == h < INVALID_MAP_LIQ_HEIGHT_MAX    \* faulty

ValidHeight(h) == h # INVALID_MAP_LIQ_HEIGHT /\ h < INVALID_MAP_LIQ_HEIGHT_MAX

SumOf(S, v) == MapThenSumSet(LAMBDA i : v[i + 1][2], S)

\* The mesh with a portion of a tile added.  Each square is decided in two halves:
\* the first with the top liquid triangle and the top and right ground triangles,
\* the second with the bottom one and the left and bottom ones.
Portion(mesh, file, skip_liquid, portion, tx, ty) ==
    LET terrain == HaveTerrain(file)
        liquid  == HaveLiquid(file, skip_liquid)
        typed   == liquid /\ "no_type" \notin file.liquid.flags
        sverts  == IF terrain THEN mesh.solid_verts \o TerrainVerts(file, tx, ty)
                   ELSE mesh.solid_verts
        lverts  == IF liquid THEN mesh.liquid_verts \o LiquidVerts(file, tx, ty)
                   ELSE mesh.liquid_verts
        scount  == Len(mesh.solid_verts)
        lcount  == Len(mesh.liquid_verts)
        order   == Visited(portion)
        halves  == 1 .. 2 * Len(order)
        square(n) == order[(n + 1) \div 2]
        ltri == [n \in halves |->
            Shifted(get_height_triangle(square(n),
                        IF n % 2 = 1 THEN "top" ELSE "bottom", TRUE), lcount)]
        ttris == [n \in halves |->
            LET spots == IF n % 2 = 1 THEN <<"top", "right">> ELSE <<"left", "bottom">>
            IN  [k \in 1 .. 2 |->
                    Shifted(get_height_triangle(square(n), spots[k], FALSE), scount)]]
        area == [n \in halves |->
            IF typed THEN LiquidArea(get_liquid_type(square(n), file.liquid.cell_flags))
            ELSE None]
        valid == [n \in halves |->
            IF typed THEN {i \in Range(ltri[n]) : ValidHeight(lverts[i + 1][2])}
            ELSE {}]
        wet == {n \in halves : area[n] \in {"water", "magma_slime"}}
        \* a missing height is the mean of the first half that has some height
        patches(i) == {n \in wet : /\ i \in Range(ltri[n])
                                   /\ Cardinality(valid[n]) \in 1 .. 2}
        patched == [k \in DOMAIN lverts |->
            LET N == IF ValidHeight(lverts[k][2]) THEN {} ELSE patches(k - 1)
                n == Min(N)
            IN  IF N = {} THEN lverts[k]
                ELSE [lverts[k] EXCEPT
                        ![2] = SumOf(valid[n], lverts) \div Cardinality(valid[n])]]
        use_terrain == {n \in halves : /\ terrain /\ area[n] # "deep"
                                       /\ ~is_hole(square(n), file.holes)}
        above(n) ==   \* the ground is nowhere below the liquid
            Min({sverts[i + 1][2] : i \in Range(ttris[n][1]) \cup Range(ttris[n][2])}
                \cup {INVALID_MAP_LIQ_HEIGHT_MAX})
            > Max({patched[i + 1][2] : i \in Range(ltri[n])}
                  \cup {INVALID_MAP_LIQ_HEIGHT})
        use_liquid == {n \in wet : /\ valid[n] # {}
                                   /\ ~(n \in use_terrain /\ above(n))}
        inOrder  == [n \in halves |-> n]
        wetOrder == SelectSeq(inOrder, LAMBDA n : n \in use_liquid)
        dryOrder == SelectSeq(inOrder, LAMBDA n : n \in use_terrain)
    IN  [solid_verts  |-> sverts,
         liquid_verts |-> patched,
         solid_tris   |-> mesh.solid_tris \o
             [k \in 1 .. 2 * Len(dryOrder) |->
                 ttris[dryOrder[(k + 1) \div 2]][2 - (k % 2)]],
         liquid_tris  |-> mesh.liquid_tris \o
             [k \in DOMAIN wetOrder |-> ltri[wetOrder[k]]],
         liquid_type  |-> mesh.liquid_type \o
             [k \in DOMAIN wetOrder |-> area[wetOrder[k]]]]

load_map_portion(mesh, file, skip_liquid, portion, tx, ty) ==
    IF file = None \/ ~(HaveTerrain(file) \/ HaveLiquid(file, skip_liquid))
    THEN mesh
    ELSE Portion(mesh, file, skip_liquid, portion, tx, ty)

\* The tile, and if it has any geometry the rows and columns of its neighbours
\* that touch it.  files maps a tile to its file, None when there is none.
load_map(files, skip_liquid, tx, ty) ==
    LET at == [entire |-> <<tx, ty>>, left |-> <<tx + 1, ty>>, right |-> <<tx - 1, ty>>,
               top |-> <<tx, ty + 1>>, bottom |-> <<tx, ty - 1>>]
        nothing(mesh) == mesh.solid_tris = <<>> /\ mesh.liquid_tris = <<>>
        add(mesh, portion) ==
            IF portion # "entire" /\ nothing(mesh) THEN mesh
            ELSE load_map_portion(mesh, files[at[portion]], skip_liquid, portion,
                                  at[portion][1], at[portion][2])
    IN  FoldLeft(add, EmptyMesh, <<"entire", "left", "right", "top", "bottom">>)

-----------------------------------------------------------------------------
(* load_vmap: the groups of a model instance, after the rotation.  A group   *)
(* has vertices, triangles and liquid (None, or tiles_x, tiles_y, type,      *)
(* heights and flags); at is the position of the instance.                   *)

VmapVertex(at, v) == <<-(v[2] + at[2]), v[3] + at[3], -(v[1] + at[1])>>

VmapLiquidVerts_ByColumn(l, at) ==    \* faulty: heights taken column by column too
    [k \in 1 .. (l.tiles_x + 1) * (l.tiles_y + 1) |->
        VmapVertex(at, <<(k - 1) \div (l.tiles_y + 1), (k - 1) % (l.tiles_y + 1),
                         l.heights[k]>>)]

\* Corners of the liquid, column by column; heights are stored row by row.
VmapLiquidVerts(l, at) ==
    LET verts_y == l.tiles_y + 1
    IN  [k \in 1 .. (l.tiles_x + 1) * verts_y |->
            LET x == (k - 1) \div verts_y
                y == (k - 1) % verts_y
            IN  VmapVertex(at, <<x, y, l.heights[y * (l.tiles_x + 1) + x + 1]>>)]

\* Two triangles for each tile of the liquid that is not marked empty.
VmapLiquidTris(l, offset) ==
    LET tile(k) == <<(k - 1) \div l.tiles_y, (k - 1) % l.tiles_y>>
        shown   == SelectSeq([k \in 1 .. l.tiles_x * l.tiles_y |-> tile(k)],
                     LAMBDA t : l.flags[t[1] + t[2] * l.tiles_x + 1] % 16 # 15)
        square(t) == t[1] * l.tiles_y + t[2]
        idx1(t) == square(t) + t[1] + offset
        idx2(t) == square(t) + 1 + t[1] + offset
        idx3(t) == square(t) + l.tiles_y + 2 + t[1] + offset
        idx4(t) == square(t) + l.tiles_y + 1 + t[1] + offset
    IN  [k \in 1 .. 2 * Len(shown) |->
            LET t == shown[(k + 1) \div 2]
            IN  IF k % 2 = 1 THEN <<idx2(t), idx1(t), idx3(t)>>
                ELSE <<idx3(t), idx1(t), idx4(t)>>]

load_vmap_group(mesh, g, is_m2, at) ==
    LET sat == Len(mesh.solid_verts)
        lat == Len(mesh.liquid_verts)
        tri(t) == IF is_m2 THEN Shifted(t, sat)
                  ELSE <<t[1] + sat, t[2] + sat, t[3] + sat>>
        ltris == IF g.liquid = None THEN <<>> ELSE VmapLiquidTris(g.liquid, lat)
        area  == IF g.liquid = None THEN None
                 ELSE IF g.liquid.type % 4 \in {0, 1} THEN "water" ELSE "magma_slime"
    IN  [solid_verts  |-> mesh.solid_verts
                          \o [k \in DOMAIN g.vertices |-> VmapVertex(at, g.vertices[k])],
         solid_tris   |-> mesh.solid_tris
                          \o [k \in DOMAIN g.triangles |-> tri(g.triangles[k])],
         liquid_verts |-> IF g.liquid = None THEN mesh.liquid_verts
                          ELSE mesh.liquid_verts \o VmapLiquidVerts(g.liquid, at),
         liquid_tris  |-> mesh.liquid_tris \o ltris,
         liquid_type  |-> mesh.liquid_type \o [k \in DOMAIN ltris |-> area]]

-----------------------------------------------------------------------------
\* The vertices that some triangle uses, renumbered in their order.
clean_vertices(verts, tris) ==
    LET used  == UNION {Range(tris[k]) : k \in DOMAIN tris}
        order == SelectSeq([k \in DOMAIN verts |-> k - 1], LAMBDA i : i \in used)
        new   == [i \in used |-> (CHOOSE k \in DOMAIN order : order[k] = i) - 1]
    IN  IF tris = <<>> THEN [verts |-> verts, tris |-> tris]
        ELSE [verts |-> [k \in DOMAIN order |-> verts[order[k] + 1]],
              tris  |-> [k \in DOMAIN tris |-> [m \in 1 .. 3 |-> new[tris[k][m]]]]]

=============================================================================
