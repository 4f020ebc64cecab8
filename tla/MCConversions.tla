--------------------------- MODULE MCConversions ---------------------------
(* Tiles of 2 by 2 cells of 4 by 4 squares that combine a few kinds of cell, *)
(* which differ in heights, holes and liquid; models of up to two groups;    *)
(* up to four boxes.                                                         *)
EXTENDS Conversions

CellCornersAt == (0 .. ADT_CELL_SIZE) \X (0 .. ADT_CELL_SIZE)
CellSquares == (0 .. ADT_CELL_SIZE - 1) \X (0 .. ADT_CELL_SIZE - 1)

Slope(dy, dx) == [outer |-> [r \in CellCornersAt |-> dy * r[1] + dx * r[2]],
                  inner |-> [r \in CellSquares |-> dy * r[1] + dx * r[2] + 1]]

Land(area, base, holes, heights) ==
    [area |-> area, holes |-> holes, base |-> base, heights |-> heights,
     c_flag |-> {}, mclq |-> None]

Wet(cell, c_flag, show, deep, level) ==
    [cell EXCEPT !.c_flag = c_flag,
                 !.mclq = [show |-> show, deep |-> deep,
                           height |-> [r \in CellCornersAt |-> level + 2 * r[2]]]]

plain  == Land(1, 0, {}, None)
gentle == Land(1, 4, {0, 5}, Slope(1, 2))
steep  == Land(2, -300, {1}, Slope(100, 40))
high   == Land(3, 12000, {}, Slope(0, 2500))
pond   == Wet(plain, {"water"}, {<<0, 0>>, <<1, 2>>, <<3, 3>>}, {}, 20)
sunken == Wet(gentle, {"magma"}, CellSquares, {}, -100)
ocean  == Wet(gentle, {"ocean"}, CellSquares, {<<2, 2>>}, 40)

CellKinds == {plain, gentle, steep, high, pond, sunken, ocean}

\* One MH2O instance that covers part of its cell.
Pool == [entry |-> 5, kind |-> "slime", y_offset |-> 1, x_offset |-> 1,
         height |-> 2, width |-> 3, show |-> {0, 2, 4},
         vdata |-> None, min_height_level |-> 60]

Adts ==
    LET With(p) == [q \in Cells |-> IF q = p THEN Pool ELSE None]
    IN  {[cells |-> <<a, b>> \o s, water |-> None] :
            a \in CellKinds, b \in CellKinds, s \in {<<plain, sunken>>, <<pond, gentle>>}}
        \cup {[cells |-> <<a, b, plain>>, water |-> With(p)] :
                a \in CellKinds, b \in {gentle, ocean}, p \in {<<0, 1>>, <<1, 1>>}}

Near == [cells |-> <<gentle, sunken, pond, gentle>>, water |-> None]

Default   == [min_height |-> -5000, allow_height_limit |-> TRUE,
              allow_float_to_int |-> TRUE]
Unpacked  == [Default EXCEPT !.allow_float_to_int = FALSE]
Shallow   == [Default EXCEPT !.min_height = -200]

\* A model instance with a platform and a basin of 2 by 3 tiles of liquid.
Basin == [group |-> [vertices  |-> <<<<0, 0, 5>>, <<2, 0, 5>>, <<0, 2, 5>>, <<2, 2, 7>>>>,
                     triangles |-> <<<<0, 1, 2>>, <<1, 3, 2>>>>,
                     liquid    |-> [tiles_x |-> 2, tiles_y |-> 3, type |-> 3,
                                    heights |-> [k \in 1 .. 12 |-> 10 + k * k],
                                    flags   |-> <<0, 15, 4, 6, 79, 1>>]],
          is_m2 |-> FALSE, at |-> <<3, 1, 40>>]
Crate == [group |-> [Basin.group EXCEPT !.liquid = None], is_m2 |-> TRUE, at |-> <<0, 0, 0>>]

mcTileInputs ==
    {[adt |-> a, near |-> Near, areas |-> [i \in 0 .. 2 |-> 10 * i],
      cfg |-> Default, skip_liquid |-> FALSE, model |-> None] : a \in Adts}
    \cup
    {[adt |-> [cells |-> <<a, b, gentle, sunken>>, water |-> None],
      near |-> n, areas |-> [i \in 0 .. 2 |-> 10 * i], cfg |-> c, skip_liquid |-> s,
      model |-> o] :
        a \in CellKinds, b \in {pond}, n \in {None, Near},
        c \in {Default, Unpacked, Shallow}, s \in BOOLEAN, o \in {None, Basin}}
    \cup
    {[adt |-> [cells |-> <<a, a, a, a>>, water |-> None], near |-> Near,
      areas |-> [i \in 0 .. 2 |-> 10 * i], cfg |-> Default, skip_liquid |-> FALSE,
      model |-> Crate] : a \in CellKinds}

-----------------------------------------------------------------------------
\* Groups of a WMO with up to three faces over four vertices.
Render == {"render"}
Detail == {"render", "detail"}
Solid  == {"collision"}

Shapes == {<<>>, <<<<0, 1, 2>>>>, <<<<0, 1, 3>>, <<1, 3, 2>>>>,
           <<<<2, 3, 1>>, <<0, 1, 2>>, <<3, 2, 0>>>>}

Liquids ==
    {Missing,
     [xverts |-> 2, yverts |-> 2, xtiles |-> 1, ytiles |-> 1, type |-> 15,
      heights |-> <<7, 8, 9, 10>>, bytes |-> <<2>>],
     [xverts |-> 3, yverts |-> 2, xtiles |-> 2, ytiles |-> 1, type |-> 3,
      heights |-> <<1, 2, 3, 4, 5, 6>>, bytes |-> <<15, 0>>],
     [xverts |-> 2, yverts |-> 2, xtiles |-> 1, ytiles |-> 1, type |-> -1,
      heights |-> <<7, 8, 9, 10>>, bytes |-> <<6>>],
     [xverts |-> 0, yverts |-> 0, xtiles |-> 0, ytiles |-> 0, type |-> 0,
      heights |-> <<>>, bytes |-> <<>>]}

WmoGroups ==
    {[id |-> 7, mogp |-> m, faces |-> [k \in DOMAIN s |-> [flags |-> f[k], corners |-> s[k]]],
      verts |-> <<11, 12, 13, 14>>, batches |-> IF f[1] = Solid THEN <<>> ELSE <<3>>,
      liquid |-> l] :
        m \in {{}, {"ocean"}, {"lod"}}, s \in Shapes, l \in Liquids,
        f \in {<<Solid, Detail, Render>>, <<Detail, Render, Solid>>}}

mcWmoInputs ==
    LET Second == CHOOSE g \in WmoGroups : g.mogp = {} /\ Len(g.faces) = 2 /\ g.liquid = Missing
    IN  {[root |-> [id |-> 1, wide |-> w, groups |-> <<g, Missing, Second>>], precise |-> p] :
            g \in WmoGroups, w \in BOOLEAN, p \in BOOLEAN}

mcM2Inputs == {[indices |-> i, verts |-> <<21, 22, 23, 24>>] :
                  i \in {<<>>, <<0, 1, 2>>, <<3, 1, 0, 2, 1, 3>>}}

-----------------------------------------------------------------------------
Box(a, b) == [min |-> a, max |-> b]

Boxes == {Box(<<0, 0, 0>>, <<64, 64, 64>>), Box(<<0, 0, 0>>, <<8, 8, 8>>),
          Box(<<900, 0, 16>>, <<964, 32, 32>>), Box(<<880, 8, 0>>, <<1024, 16, 8>>),
          Box(<<512, 300, 0>>, <<512, 300, 0>>), Box(<<-700, 700, 4>>, <<-640, 764, 9>>)}

mcBoxInputs ==
    {[boxes |-> b, leaf_size |-> n] :
        b \in UNION {[1 .. k -> Boxes] : k \in 0 .. 4}, n \in {1}}
    \cup {[boxes |-> b, leaf_size |-> 3] : b \in [1 .. 4 -> Boxes]}

=============================================================================
