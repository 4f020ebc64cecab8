-------------------------------- MODULE Bih --------------------------------
(***************************************************************************)
(* The bounding interval hierarchy that the model assembler writes for the *)
(* spawns of a map, the groups of a model and the triangles of a group:    *)
(* Bih of extractors/src/vmap_assemble.rs.                                 *)
(*                                                                         *)
(* A box is [min, max] of two triples of integers.  The tree is a sequence *)
(* of nodes, three words each in the code; a node index counts nodes from  *)
(* 0.  The code stops when two splits differ by less than 10^-6: here that *)
(* is less than one unit, so coordinates stand for multiples of it.        *)
(***************************************************************************)
EXTENDS Integers, Sequences, SequencesExt, FiniteSets, FiniteSetsExt, TLC

Infinity       == 1000000
NaN            == 2 * Infinity    \* prev_clip or prev_split without a value
MAX_STACK_SIZE == 64

Leaf(left, right) == [kind |-> "leaf", first |-> left, count |-> right - left + 1]
Dummy == [kind |-> "dummy"]
Inner_Swapped(axis, child, l, r) ==    \* faulty: clip planes change places
    [kind |-> "inner", axis |-> axis, child |-> child, clip_l |-> r, clip_r |-> l]
Inner(axis, child, l, r) ==
    [kind |-> "inner", axis |-> axis, child |-> child, clip_l |-> l, clip_r |-> r]
Bvh2(axis, child, l, r) ==
    [kind |-> "bvh2", axis |-> axis, child |-> child, clip_l |-> l, clip_r |-> r]

SetNode(tree, at, node) == [tree EXCEPT ![at + 1] = node]

\* AaBox::merge over the boxes of a sequence.
MergeAll(boxes) ==
    [min |-> [a \in 1 .. 3 |-> Min({boxes[k].min[a] : k \in DOMAIN boxes})],
     max |-> [a \in 1 .. 3 |-> Max({boxes[k].max[a] : k \in DOMAIN boxes})]]

LongestAxis(box) ==
    LET d == [a \in 1 .. 3 |-> box.max[a] - box.min[a]]
    IN  IF d[1] >= d[2] /\ d[1] >= d[3] THEN 1
        ELSE IF d[2] >= d[3] THEN 2 ELSE 3

\* The objects whose centre is beyond the split swap to the end.
RECURSIVE Partition(_, _, _, _, _, _)
Partition(boxes, indices, i, right, axis, split) ==
    LET box == boxes[indices[i + 1] + 1]
    IN  IF i > right THEN [indices |-> indices, right |-> right]
        ELSE IF box.min[axis] + box.max[axis] <= 2 * split
        THEN Partition(boxes, indices, i + 1, right, axis, split)
        ELSE Partition(boxes,
                       [indices EXCEPT ![i + 1] = indices[right + 1],
                                       ![right + 1] = indices[i + 1]],
                       i, right - 1, axis, split)

\* One call of subdivide is a sequence of rounds of its loop: c has the fixed
\* parameters (boxes, max_prims, left, right_orig, depth), r the variables of the
\* loop and bih the tree and the indices, which all calls share.
RECURSIVE Subdivide(_, _, _, _, _, _, _), Round(_, _, _), Children(_, _, _)
Subdivide(c, bih, left, right, grid_box, node_box, at) ==
    IF right - left + 1 <= c.max_prims \/ c.depth >= MAX_STACK_SIZE
    THEN [bih EXCEPT !.tree = SetNode(@, at, Leaf(left, right))]
    ELSE Round([c EXCEPT !.left = left, !.right_orig = right], bih,
               [axis |-> 0, split |-> NaN, prev_clip |-> NaN, was_left |-> TRUE,
                grid_box |-> grid_box, node_box |-> node_box, at |-> at])

Round(c, bih, r) ==
    LET axis    == LongestAxis(r.grid_box)
        split   == (r.grid_box.min[axis] + r.grid_box.max[axis]) \div 2
        p       == Partition(c.boxes, bih.indices, c.left, c.right_orig, axis, split)
        new     == [bih EXCEPT !.indices = p.indices]
        box(k)  == c.boxes[p.indices[k + 1] + 1]
        clip_l  == Max({box(k).max[axis] : k \in c.left .. p.right} \cup {-Infinity})
        clip_r  == Min({box(k).min[axis] : k \in p.right + 1 .. c.right_orig}
                       \cup {Infinity})
        node_l  == Min({box(k).min[axis] : k \in c.left .. c.right_orig})
        node_r  == Max({box(k).max[axis] : k \in c.left .. c.right_orig})
        lo      == r.node_box.min[axis]
        hi      == r.node_box.max[axis]
        same    == r.axis = axis /\ r.split # NaN /\ r.split = split
        leaf    == [new EXCEPT !.tree = SetNode(@, r.at, Leaf(c.left, c.right_orig))]
        next    == Len(bih.tree)
        r2      == [r EXCEPT !.axis = axis, !.split = split]
    IN  CASE node_l > lo /\ node_r < hi /\ 13 * (node_r - node_l) < 10 * (hi - lo) ->
               Subdivide([c EXCEPT !.depth = @ + 1],
                         [new EXCEPT !.tree = Append(
                             SetNode(@, r.at, Bvh2(axis, next, node_l, node_r)), Dummy)],
                         c.left, c.right_orig, r.grid_box,
                         [r.node_box EXCEPT !.min[axis] = node_l, !.max[axis] = node_r],
                         next)
          [] OTHER ->
               IF p.right = c.right_orig THEN         \* all left
                    IF same THEN leaf
                    ELSE Round(c, new,
                               [r2 EXCEPT !.grid_box.max[axis] = split,
                                          !.prev_clip = IF clip_l <= split THEN clip_l ELSE NaN,
                                          !.was_left = IF clip_l <= split THEN TRUE ELSE @])
               ELSE IF c.left > p.right THEN          \* all right
                    IF same THEN leaf
                    ELSE Round(c, new,
                               [r2 EXCEPT !.grid_box.min[axis] = split,
                                          !.prev_clip = IF clip_r >= split THEN clip_r ELSE NaN,
                                          !.was_left = IF clip_r >= split THEN FALSE ELSE @])
               ELSE                                   \* actual split
                    LET cut == r.axis # 0 /\ r.prev_clip # NaN
                        clipped == IF r.was_left
                                   THEN Inner(r.axis, next, r.prev_clip, Infinity)
                                   ELSE Inner(r.axis, next - 1, -Infinity, r.prev_clip)
                    IN  Children(c,
                            IF cut THEN [new EXCEPT !.tree =
                                            Append(SetNode(@, r.at, clipped), Dummy)]
                            ELSE new,
                            [r2 EXCEPT !.at = IF cut THEN next ELSE @]
                            @@ [right |-> p.right, clip_l |-> clip_l, clip_r |-> clip_r])

\* The two children after a split, both with objects; the right one follows the
\* left one.
Children(c, bih, s) ==
    LET next == Len(bih.tree)
        deep == [c EXCEPT !.depth = @ + 1]
        tree == SetNode(bih.tree, s.at, Inner(s.axis, next, s.clip_l, s.clip_r))
                \o <<Dummy, Dummy>>
        one  == Subdivide(deep, [bih EXCEPT !.tree = tree], c.left, s.right,
                          [s.grid_box EXCEPT !.max[s.axis] = s.split],
                          [s.node_box EXCEPT !.max[s.axis] = s.clip_l], next)
    IN  Subdivide(deep, one, s.right + 1, c.right_orig,
                  [s.grid_box EXCEPT !.min[s.axis] = s.split],
                  [s.node_box EXCEPT !.min[s.axis] = s.clip_r], next + 1)

\* Bih::build; without primitives the tree is one leaf of no object.
Build(boxes, leaf_size) ==
    IF boxes = <<>> THEN [tree |-> <<Leaf(0, -1)>>, indices |-> <<>>]
    ELSE Subdivide([boxes |-> boxes, max_prims |-> leaf_size,
                    left |-> 0, right_orig |-> 0, depth |-> 1],
                   [tree |-> <<Dummy>>, indices |-> [k \in 1 .. Len(boxes) |-> k - 1]],
                   0, Len(boxes) - 1, MergeAll(boxes), MergeAll(boxes), 0)

-----------------------------------------------------------------------------
(* Reading the tree back, the way a query descends it: the children of node  *)
(* k are child (up to clip_l) and child + 1 (from clip_r), a bvh2 node has   *)
(* one child, and an infinite clip closes a side.                            *)

\* The positions of objects that a query for the box reaches.
RECURSIVE Reached(_, _, _)
Reached(tree, at, box) ==
    LET n == tree[at + 1]
    IN  CASE n.kind = "leaf" -> n.first .. n.first + n.count - 1
          [] n.kind = "bvh2" ->
               IF box.max[n.axis] >= n.clip_l /\ box.min[n.axis] <= n.clip_r
               THEN Reached(tree, n.child, box) ELSE {}
          [] n.kind = "inner" ->
               (IF box.min[n.axis] <= n.clip_l THEN Reached(tree, n.child, box) ELSE {})
               \cup (IF box.max[n.axis] >= n.clip_r
                     THEN Reached(tree, n.child + 1, box) ELSE {})
          [] OTHER -> {}

\* The leaves of the tree from a node on.
RECURSIVE Leaves(_, _)
Leaves(tree, at) ==
    LET n == tree[at + 1]
    IN  CASE n.kind = "leaf"  -> {at}
          [] n.kind = "bvh2"  -> Leaves(tree, n.child)
          [] n.kind = "inner" ->
               (IF n.clip_l = -Infinity THEN {} ELSE Leaves(tree, n.child))
               \cup (IF n.clip_r = Infinity THEN {} ELSE Leaves(tree, n.child + 1))
          [] OTHER -> {}

=============================================================================
