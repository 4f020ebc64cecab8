------------------------------ MODULE MapFile ------------------------------
(***************************************************************************)
(* The conversion of one terrain tile of the client (an ADT file) to a     *)
(* .map file: convert_adt of extractors/src/map_dbc.rs and the functions   *)
(* it calls.  The module is a set of operators; a tile is a value.         *)
(*                                                                         *)
(* Heights are integers, in tenths of a yard; squares and vertices of the  *)
(* tile are pairs <<row, column>>.  A tile has ADT_CELLS_PER_GRID cells in *)
(* each direction and a cell ADT_CELL_SIZE squares (16 and 8 in the code). *)
(***************************************************************************)
EXTENDS Integers, Sequences, FiniteSets, FiniteSetsExt, Functions

CONSTANTS ADT_CELLS_PER_GRID, ADT_CELL_SIZE,
          None    \* an absent chunk, instance, section or file

ASSUME GridAssumption ==
    /\ ADT_CELLS_PER_GRID \in Nat \ {0}
    /\ ADT_CELL_SIZE \in Nat \ {0} /\ ADT_CELL_SIZE % 2 = 0

ADT_GRID_SIZE == ADT_CELLS_PER_GRID * ADT_CELL_SIZE

Cells    == (0 .. ADT_CELLS_PER_GRID - 1) \X (0 .. ADT_CELLS_PER_GRID - 1)
Squares  == (0 .. ADT_GRID_SIZE - 1) \X (0 .. ADT_GRID_SIZE - 1)   \* V8
Vertices == (0 .. ADT_GRID_SIZE) \X (0 .. ADT_GRID_SIZE)           \* V9

\* The constants of the file format, in tenths of a yard where a height.
FLOAT_TO_INT8_LIMIT  == 20
FLOAT_TO_INT16_LIMIT == 20480
NO_AREA              == 65535
GRID_MAP_FILE_HEADER_SIZE   == 40
GRID_MAP_AREA_HEADER_SIZE   == 8
GRID_MAP_HEIGHT_HEADER_SIZE == 16
GRID_MAP_LIQUID_HEADER_SIZE == 16

idx_cell(p) == p[1] * ADT_CELLS_PER_GRID + p[2]

CellOf(s) == <<s[1] \div ADT_CELL_SIZE, s[2] \div ADT_CELL_SIZE>>

\* The vertices of the rectangle of h by w squares of cell p that starts at
\* row yo and column xo of the cell.
Corners(p, yo, xo, h, w) ==
    {<<p[1] * ADT_CELL_SIZE + yo + y, p[2] * ADT_CELL_SIZE + xo + x>> :
        y \in 0 .. h, x \in 0 .. w}

CellCorners(p) == Corners(p, 0, 0, ADT_CELL_SIZE, ADT_CELL_SIZE)

\* Row and column of v counted from the first square of cell p.
Local(p, v) == <<v[1] - p[1] * ADT_CELL_SIZE, v[2] - p[2] * ADT_CELL_SIZE>>

\* The cells are visited row by row: the last one that writes a shared vertex
\* decides its value.
LastVisited(W) == CHOOSE p \in W : \A q \in W : idx_cell(q) <= idx_cell(p)

-----------------------------------------------------------------------------
(* Reading the ADT.  adt.cells is the sequence of its MCNK chunks, with      *)
(*   area, holes (a set of bit numbers), base, heights (None or outer and    *)
(*   inner), c_flag (a set of liquid names) and mclq (None, or the squares   *)
(*   shown, the deep ones among them and the heights; a chunk of at most 8   *)
(*   bytes is None);                                                         *)
(* adt.water maps a cell to its first MH2O instance (None when it has none). *)

Chunks(adt) == {p \in Cells : idx_cell(p) < Len(adt.cells)}
Chunk(adt, p) == adt.cells[idx_cell(p) + 1]

\* The area flag of each cell; areas is the table of AreaTable.dbc.
AreaFlags(adt, areas) ==
    [p \in Cells |->
        IF p \in Chunks(adt) /\ Chunk(adt, p).area \in (DOMAIN areas) \ {0}
        THEN areas[Chunk(adt, p).area]
        ELSE NO_AREA]

Holes(adt) ==
    [p \in Cells |-> IF p \in Chunks(adt) THEN Chunk(adt, p).holes ELSE {}]

\* Heights at the corners of the squares and at their centres: the base height
\* of the chunk plus its own height there, if it has any.
V9(adt) ==
    [v \in Vertices |->
        LET W == {p \in Chunks(adt) : v \in CellCorners(p)}
            p == LastVisited(W)
            c == Chunk(adt, p)
        IN  IF W = {} THEN 0
            ELSE c.base + (IF c.heights = None THEN 0
                           ELSE c.heights.outer[Local(p, v)])]

V8(adt) ==
    [s \in Squares |->
        LET p == CellOf(s)
            c == Chunk(adt, p)
        IN  IF p \notin Chunks(adt) THEN 0
            ELSE c.base + (IF c.heights = None THEN 0
                           ELSE c.heights.inner[Local(p, s)])]

WithLiquid(adt) == {p \in Chunks(adt) : Chunk(adt, p).mclq # None}

\* Liquid of the MCLQ chunks: entry and flags per cell, the squares where it
\* is shown, and the heights of all corners of a cell with liquid.
MclqEntry(adt, p) ==
    LET f == IF p \in WithLiquid(adt) THEN Chunk(adt, p).c_flag ELSE {}
    IN  IF "magma" \in f THEN 3
        ELSE IF "ocean" \in f THEN 2
        ELSE IF "water" \in f THEN 1 ELSE 0

MclqFlags(adt, p) ==
    IF p \notin WithLiquid(adt) THEN {}
    ELSE Chunk(adt, p).c_flag
         \cup (IF Chunk(adt, p).mclq.deep = {} THEN {} ELSE {"deep"})

MclqShow(adt) ==
    {s \in Squares : /\ CellOf(s) \in WithLiquid(adt)
                     /\ Local(CellOf(s), s) \in Chunk(adt, CellOf(s)).mclq.show}

WaterCells(adt) == {p \in Cells : adt.water # None /\ adt.water[p] # None}

\* The squares of an MH2O instance, shown where the bitmap has a bit set; the
\* bits are consumed row by row of the instance's rectangle.
Mh2oShow(adt) ==
    UNION {LET w == adt.water[p]
           IN  {<<p[1] * ADT_CELL_SIZE + w.y_offset + y,
                  p[2] * ADT_CELL_SIZE + w.x_offset + x>> :
                    <<y, x>> \in {r \in (0 .. w.height - 1) \X (0 .. w.width - 1) :
                                    w.show = None
                                    \/ r[1] * w.width + r[2] \in w.show}}
           : p \in WaterCells(adt)}

\* An ocean without vertex data is deep.
Mh2oFlags(adt, p) ==
    IF p \notin WaterCells(adt) THEN {}
    ELSE LET w == adt.water[p]
         IN  ({w.kind} \cap {"water", "ocean", "magma", "slime"})
             \cup (IF w.kind = "ocean" /\ w.vdata = None THEN {"deep"} ELSE {})

vertex_height(w, r) ==
    IF w.vdata = None \/ r \notin DOMAIN w.vdata THEN w.min_height_level
    ELSE w.vdata[r]

\* The liquid arrays after both passes of convert_adt.
Liquid(adt) ==
    [entry  |-> [p \in Cells |-> IF p \in WaterCells(adt)
                                 THEN adt.water[p].entry ELSE MclqEntry(adt, p)],
     flags  |-> [p \in Cells |-> MclqFlags(adt, p) \cup Mh2oFlags(adt, p)],
     show   |-> MclqShow(adt) \cup Mh2oShow(adt),
     height |-> [v \in Vertices |->
        LET inst(p) == adt.water[p]
            M == {p \in WithLiquid(adt) : v \in CellCorners(p)}
            W == {p \in WaterCells(adt) :
                    v \in Corners(p, inst(p).y_offset, inst(p).x_offset,
                                  inst(p).height, inst(p).width)}
            p == LastVisited(W)
            q == LastVisited(M)
        IN  CASE W # {} -> vertex_height(inst(p),
                              <<Local(p, v)[1] - inst(p).y_offset,
                                Local(p, v)[2] - inst(p).x_offset>>)
              [] W = {} /\ M # {} -> Chunk(adt, q).mclq.height[Local(q, v)]
              [] OTHER -> 0]]

-----------------------------------------------------------------------------
(* The sections of the file.  cfg holds the command line: min_height,        *)
(* allow_height_limit and allow_float_to_int.                                *)

Values(f) == {f[i] : i \in DOMAIN f}

compute_height_range(v8, v9) ==
    LET S == Values(v8) \cup Values(v9)
    IN  [min |-> Min(S \cup {200000}), max |-> Max(S \cup {-200000})]

AtLeast(f, m) == [i \in DOMAIN f |-> Max({f[i], m})]    \* clamp_heights

\* Heights after the limit of the command line, with their range.
Limited(adt, cfg) ==
    LET v8 == V8(adt)
        v9 == V9(adt)
        r  == compute_height_range(v8, v9)
    IN  IF cfg.allow_height_limit /\ r.min < cfg.min_height
        THEN [v8  |-> AtLeast(v8, cfg.min_height),
              v9  |-> AtLeast(v9, cfg.min_height),
              min |-> cfg.min_height,
              max |-> Max({r.max, cfg.min_height})]
        ELSE [v8 |-> v8, v9 |-> v9, min |-> r.min, max |-> r.max]

build_area_header(area_flags) ==
    LET first == area_flags[<<0, 0>>]
    IN  IF \E p \in Cells : area_flags[p] # first
        THEN [flags |-> {}, grid_area |-> 0, payload |-> area_flags]
        ELSE [flags |-> {"no_area"}, grid_area |-> first, payload |-> <<>>]

\* A height as a number of steps above the lowest: v - min, times the steps per
\* yard, plus one half, truncated.
Pack(v, min, diff, steps) == ((v - min) * steps + diff \div 2) \div diff

HeightFormat_NoInt16(diff, cfg) ==    \* faulty: one byte for every range
    IF diff = 0 \/ (cfg.allow_float_to_int /\ diff < 1) THEN "no_height"
    ELSE IF cfg.allow_float_to_int /\ diff < FLOAT_TO_INT16_LIMIT THEN "int8"
    ELSE "float"

HeightFormat(diff, cfg) ==
    IF diff = 0 \/ (cfg.allow_float_to_int /\ diff < 1) THEN "no_height"
    ELSE IF cfg.allow_float_to_int /\ diff < FLOAT_TO_INT8_LIMIT THEN "int8"
    ELSE IF cfg.allow_float_to_int /\ diff < FLOAT_TO_INT16_LIMIT THEN "int16"
    ELSE "float"

Steps(format) == IF format = "int8" THEN 255 ELSE 65535

build_height_header(h, cfg) ==
    LET diff   == h.max - h.min
        format == HeightFormat(diff, cfg)
        pack(f) == [i \in DOMAIN f |->
                        IF format = "float" THEN f[i]
                        ELSE Pack(f[i], h.min, diff, Steps(format))]
    IN  [format |-> format, grid_height |-> h.min, grid_max_height |-> h.max,
         v9 |-> IF format = "no_height" THEN <<>> ELSE pack(h.v9),
         v8 |-> IF format = "no_height" THEN <<>> ELSE pack(h.v8)]

\* None when every cell has the first cell's entry and no liquid.  Otherwise the
\* rectangle of vertices around the squares shown, with the height limit in the
\* place of the first corner of each square that is not shown.
build_liquid_header(l, cfg) ==
    LET first_entry == l.entry[<<0, 0>>]
        first_flag  == l.flags[<<0, 0>>]
        full_type   == \E p \in Cells : \/ l.entry[p] # first_entry
                                        \/ l.flags[p] # first_flag
        rows  == {s[1] : s \in l.show}
        cols  == {s[2] : s \in l.show}
        min_y == IF l.show = {} THEN 0 ELSE Min(rows)
        min_x == IF l.show = {} THEN 0 ELSE Min(cols)
        max_y == IF l.show = {} THEN 0 ELSE Max(rows)
        max_x == IF l.show = {} THEN 0 ELSE Max(cols)
        height == [v \in Vertices |-> IF v \in Squares \ l.show
                                      THEN cfg.min_height ELSE l.height[v]]
        max_height == Max({height[s] : s \in l.show} \cup {-200000})
        min_height == Min({height[s] : s \in Squares} \cup {200000})
        diff   == max_height - min_height
        flat   == diff = 0 \/ (cfg.allow_float_to_int /\ diff < 1)
        rows_written == max_y - min_y + 2
        width        == max_x - min_x + 2
    IN  IF first_flag = {} /\ ~full_type THEN None
        ELSE [flags |-> (IF flat THEN {"no_height"} ELSE {})
                        \cup (IF full_type THEN {} ELSE {"no_type"}),
              liquid_type  |-> IF full_type THEN 0 ELSE first_entry,
              liquid_flags |-> IF full_type THEN {} ELSE first_flag,
              liquid_level |-> min_height,
              offset_y |-> min_y, height |-> rows_written,
              offset_x |-> min_x, width  |-> width,
              entry |-> IF full_type THEN l.entry ELSE <<>>,
              cell_flags |-> IF full_type THEN l.flags ELSE <<>>,
              map |-> IF flat THEN <<>>
                      ELSE [k \in 1 .. rows_written * width |->
                              height[<<min_y + (k - 1) \div width,
                                       min_x + ((k - 1) % width)>>]]]

\* Sizes in bytes of the payloads.
AreaPayload(a) == 2 * Cardinality(DOMAIN a.payload)
HeightPayload(h) ==
    (Cardinality(DOMAIN h.v9) + Cardinality(DOMAIN h.v8))
    * (CASE h.format = "int8" -> 1 [] h.format = "int16" -> 2 [] OTHER -> 4)
LiquidPayload(q) == 3 * Cardinality(DOMAIN q.entry) + 4 * Cardinality(DOMAIN q.map)

write_map_file_HolesFirst(area, height, liquid) ==    \* faulty: holes before the liquid
    <<[name |-> "header", size |-> 40], [name |-> "area", size |-> 8 + AreaPayload(area)],
      [name |-> "height", size |-> 16 + HeightPayload(height)],
      [name |-> "holes", size |-> 2 * Cardinality(Cells)],
      [name |-> "liquid", size |-> 0]>>

\* The order and the sizes in which write_map_file writes the file, field by field.
write_map_file(area, height, liquid) ==
    <<[name |-> "header", size |-> 10 * 4],
      [name |-> "area",   size |-> 4 + 2 + 2 + AreaPayload(area)],
      [name |-> "height", size |-> 4 + 4 + 4 + 4 + HeightPayload(height)]>>
    \o (IF liquid = None THEN <<>>
        ELSE <<[name |-> "liquid",
                size |-> 4 + 1 + 1 + 2 + 1 + 1 + 1 + 1 + 4 + LiquidPayload(liquid)]>>)
    \o <<[name |-> "holes", size |-> 2 * Cardinality(Cells)]>>

convert_adt(adt, areas, cfg) ==
    LET area   == build_area_header(AreaFlags(adt, areas))
        height == build_height_header(Limited(adt, cfg), cfg)
        liquid == build_liquid_header(Liquid(adt), cfg)
        area_map_size     == GRID_MAP_AREA_HEADER_SIZE + AreaPayload(area)
        height_map_offset == GRID_MAP_FILE_HEADER_SIZE + area_map_size
        height_map_size   == GRID_MAP_HEIGHT_HEADER_SIZE + HeightPayload(height)
        after_heights     == height_map_offset + height_map_size
    IN  [area |-> area, height |-> height, liquid |-> liquid, holes |-> Holes(adt),
         written |-> write_map_file(area, height, liquid),
         area_map_offset   |-> GRID_MAP_FILE_HEADER_SIZE,
         height_map_offset |-> height_map_offset,
         liquid_map_offset |-> IF liquid = None THEN 0 ELSE after_heights,
         holes_offset      |-> IF liquid = None THEN after_heights
                               ELSE after_heights + GRID_MAP_LIQUID_HEADER_SIZE
                                    + LiquidPayload(liquid)]

=============================================================================
