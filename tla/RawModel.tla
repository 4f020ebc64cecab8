------------------------------ MODULE RawModel ------------------------------
(***************************************************************************)
(* Models on their way through the tools: written from the client's WMO    *)
(* groups and M2 files to raw files by extractors/src/vmap_extract.rs,     *)
(* read back by extractors/src/vmap_assemble.rs.                           *)
(*                                                                         *)
(* A file is a sequence of numbers: tags are the negative numbers below,   *)
(* vertices are natural numbers that stand for their three coordinates.    *)
(* A client group has                                                      *)
(*   faces   sequence of [flags, corners] (MOPY and MOVI),                 *)
(*   verts   sequence of vertices (MOVT),  batches  sequence (MOBA),       *)
(*   liquid  Missing or [xverts, yverts, xtiles, ytiles, type, heights,    *)
(*           bytes] (MLIQ),                                                *)
(*   mogp    set of flags and name,  refs  set of doodad references.       *)
(***************************************************************************)
EXTENDS Bih

CONSTANT Missing    \* an absent file, group or liquid

GRP  == -1
INDX == -2
VERT == -3
LIQU == -4
EOF  == -9      \* what a read past the end finds

At(s, i) == IF i \in DOMAIN s THEN s[i] ELSE EOF

Flatten(seqs) ==    \* concatenation of a sequence of sequences
    FoldLeft(LAMBDA a, b : a \o b, <<>>, seqs)

-----------------------------------------------------------------------------
(* vmap_extract: writing raw files.                                          *)

should_skip(group) == group.mogp \cap {"unreachable", "lod", "antiportal"} # {}

IsCollision(flags) ==
    "collision" \in flags \/ ("render" \in flags /\ "detail" \notin flags)

\* The new number of vertex i when the vertices of order are kept.
Renumber_Identity(order, i) == i    \* faulty: the old number
Renumber(order, i) == (CHOOSE k \in DOMAIN order : order[k] = i) - 1

\* The faces and vertices that are written: all of them in the precise mode,
\* else the faces that collide, with their vertices renumbered in order.
WrittenMesh(group, precise) ==
    LET faces == IF precise THEN group.faces
                 ELSE SelectSeq(group.faces, LAMBDA f : IsCollision(f.flags))
        used  == UNION {{f.corners[m] : m \in 1 .. 3} : f \in ToSet(faces)}
        order == SelectSeq([k \in DOMAIN group.verts |-> k - 1],
                           LAMBDA i : precise \/ i \in used)
    IN  [indices |-> Flatten([k \in DOMAIN faces |->
                        [m \in 1 .. 3 |-> Renumber(order, faces[k].corners[m])]]),
         verts   |-> [k \in DOMAIN order |-> group.verts[order[k] + 1]]]

\* The LiquidType entry of a group's liquid; wide is flag 4 of the root.  With that
\* flag a negative type becomes a large u32, which is kept, and is negative again
\* when it is written as an i16.
LiquidEntry(group, wide) ==
    LET l     == group.liquid
        own   == IF wide THEN l.type
                 ELSE IF l.type = 15 \/ l.type < 0 THEN 0 ELSE l.type + 1
        shown == SelectSeq(l.bytes, LAMBDA b : b % 16 # 15)
        entry == IF own = 0 /\ shown # <<>> THEN (shown[1] % 16) + 1 ELSE own
    IN  IF entry <= 0 \/ entry >= 21 THEN entry
        ELSE CASE (entry - 1) % 4 = 0 -> IF "ocean" \in group.mogp THEN 2
                                         ELSE IF "coilfang" \in group.mogp THEN 41
                                         ELSE 1
               [] (entry - 1) % 4 = 3 -> IF "stratholme" \in group.mogp THEN 21 ELSE 4
               [] OTHER -> ((entry - 1) % 4) + 1

LiquidTokens(group, wide) ==
    LET l == group.liquid
    IN  IF l = Missing THEN <<>>
        ELSE IF l.heights = <<>> THEN <<>>
        ELSE <<LIQU, 32 + 8 * Len(l.heights) + Len(l.bytes),
               l.xverts, l.yverts, l.xtiles, l.ytiles, LiquidEntry(group, wide)>>
             \o l.heights \o l.bytes

write_group(group, precise, wide) ==
    LET mesh == WrittenMesh(group, precise)
    IN  <<group.id, IF group.liquid = Missing THEN 0 ELSE 1,
          GRP, 4 * Len(group.batches) + 4, Len(group.batches)>> \o group.batches
        \o <<INDX, 4 + 2 * Len(mesh.indices), Len(mesh.indices)>> \o mesh.indices
        \o <<VERT, 4 + 12 * Len(mesh.verts), Len(mesh.verts)>> \o mesh.verts
        \o LiquidTokens(group, wide)

\* A root file: the header, a group after the other, and at the end the counts of
\* triangles and of groups written over those of the header.  A group that cannot
\* be opened is Missing.
extract_single_wmo(root, precise) ==
    LET written == SelectSeq(root.groups,
                             LAMBDA g : IF g = Missing THEN FALSE ELSE ~should_skip(g))
        triangles == FoldLeft(LAMBDA n, g : n + Len(WrittenMesh(g, precise).indices) \div 3,
                              0, written)
    IN  <<triangles, Len(written), root.id>>
        \o Flatten([k \in DOMAIN written |-> write_group(written[k], precise, root.wide)])

\* The second and third corner of every triangle change places.
Turned_FirstTwo(indices) ==    \* faulty: the first and second do
    [k \in DOMAIN indices |-> IF k % 3 = 1 THEN indices[k + 1]
                              ELSE IF k % 3 = 2 THEN indices[k - 1] ELSE indices[k]]
Turned(indices) ==
    [k \in DOMAIN indices |-> IF k % 3 = 2 /\ k < Len(indices) THEN indices[k + 1]
                              ELSE IF k % 3 = 0 THEN indices[k - 1] ELSE indices[k]]

\* An M2 model without collision triangles gives no file.  The two changes of the
\* coordinates cancel out.
extract_single_model(m2) ==
    LET n == Len(m2.indices)
    IN  IF n = 0 THEN Missing
        ELSE <<Len(m2.verts), 1, 0, 0, 0, GRP, 8, 1, n, INDX, 4 + 2 * n, n>>
             \o Turned(m2.indices)
             \o <<VERT, 4 + 12 * Len(m2.verts), Len(m2.verts)>> \o m2.verts

-----------------------------------------------------------------------------
(* vmap_assemble: reading them.                                              *)

Slice(s, i, n) == [k \in 1 .. n |-> At(s, i + k - 1)]

\* The group at position i: the group and the position after it, or Missing when a
\* tag is not where it should be.
read_raw_group(s, i) ==
    LET grp      == i + 2
        branches == At(s, grp + 2)
        indx     == grp + 3 + branches
        n        == At(s, indx + 2)
        vert     == indx + 3 + n
        nverts   == At(s, vert + 2)
        liqu     == vert + 3 + nverts
        flagged  == At(s, i + 1) = 1
        heights  == At(s, liqu + 2) * At(s, liqu + 3)
        bytes    == At(s, liqu + 4) * At(s, liqu + 5)
        end      == IF flagged THEN liqu + 7 + heights + bytes ELSE liqu
    IN  IF \/ At(s, grp) # GRP \/ At(s, indx) # INDX \/ At(s, vert) # VERT
           \/ flagged /\ At(s, liqu) # LIQU
           \/ end > Len(s) + 1
        THEN Missing
        ELSE [next |-> end,
              group |-> [id |-> At(s, i),
                         triangles |-> [k \in 1 .. n \div 3 |->
                                          Slice(s, indx + 3 * k, 3)],
                         vertices |-> Slice(s, vert + 3, nverts),
                         liquid |-> IF ~flagged THEN Missing
                                    ELSE [tiles_x |-> At(s, liqu + 4),
                                          tiles_y |-> At(s, liqu + 5),
                                          type    |-> Max({At(s, liqu + 6), 0}),
                                          heights |-> Slice(s, liqu + 7, heights),
                                          flags   |-> Slice(s, liqu + 7 + heights, bytes)]]]

\* All groups of the file, or Missing after the first that cannot be read.
RECURSIVE Groups(_, _, _)
Groups(s, i, count) ==
    LET g    == read_raw_group(s, i)
        rest == Groups(s, g.next, count - 1)
    IN  IF count = 0 THEN <<>>
        ELSE IF g = Missing THEN Missing
        ELSE IF rest = Missing THEN Missing ELSE <<g.group>> \o rest

read_raw_model(s) ==
    LET groups == Groups(s, 4, At(s, 2))
    IN  IF groups = Missing THEN Missing ELSE [root |-> At(s, 3), groups |-> groups]

=============================================================================
