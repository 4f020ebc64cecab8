------------------------ MODULE MoveMapBuild_proofs -------------------------
(***************************************************************************)
(* The movement-map generator on its own, for any number of threads and of  *)
(* parts of a tile: what each of its steps does, and what it preserves.     *)
(* OfflineTools_proofs puts it together with the other tools.               *)
(*                                                                          *)
(* The invariants are on what its workers hold, on the tiles it found and   *)
(* tried, and on the files it has written.                                  *)
(***************************************************************************)
EXTENDS MoveMapBuild, SetFacts, TLAPS

\* The records that the processes keep, by their fields.
BuildFields == {"phase", "tiles", "todo", "map", "orig", "single", "all", "left", "busy",
                "limit", "fresh", "tried", "unwritten", "misfreed", "leaked", "unmerged"}
IsBuild(g) == DOMAIN g = BuildFields /\ g = [x \in BuildFields |-> g[x]]

Workers == [k : 1 .. SubTiles + 2, file : BOOLEAN,
            held : SUBSET (Int \X {"ctx", "pmesh", "dmesh", "nav"})]

\* Up to the merge a worker holds the context and meshes of parts that
\* succeeded; from then on the merged mesh, and the tile of an open file.
Holding(w) ==
    /\ w.k <= SubTiles + 1 =>
          ~w.file /\ Ctx \in w.held /\ \A o \in w.held : o = Ctx \/ o[1] > 0
    /\ w.k = SubTiles + 2 =>
          w.held = {Ctx, MergedPoly, MergedDetail} \cup (IF w.file THEN {NavData} ELSE {})

HoldInv ==
    /\ IsBuild(gen)
    /\ gen.misfreed = FALSE
    /\ gen.leaked \subseteq gen.unmerged
    /\ \A t \in DOMAIN gen.busy : gen.busy[t] \in Workers /\ Holding(gen.busy[t])

\* Workers run only inside the scope of the pool.
PoolInv == gen.phase # "tiles" => DOMAIN gen.busy = {}

\* There are no more of them than the pool has threads.
ThreadsInv ==
    gen.phase = "tiles" => /\ gen.limit \in {1, Threads} /\ IsFiniteSet(DOMAIN gen.busy)
                           /\ Cardinality(DOMAIN gen.busy) <= gen.limit

\* What the generator read from the names.
TilesInv == \A id \in DOMAIN gen.tiles : gen.tiles[id] \subseteq (0 .. 99) \X (0 .. 99)

\* The output directory, once there is one.
IsOutput(d) == DOMAIN d = {"params", "tiles"} /\ d = [x \in {"params", "tiles"} |-> d[x]]
OutputInv == mmaps # None \/ Building \/ gen.fresh # {} => IsOutput(mmaps)

\* The tiles in it are partial or whole.
StatesInv ==
    mmaps # None \/ Building \/ gen.fresh # {} =>
        \A k \in DOMAIN mmaps.tiles :
            "state" \in DOMAIN mmaps.tiles[k] /\ mmaps.tiles[k].state \in FileStates

\* A map whose parameters this run has written, and will not write again.
MeshWritten(id) ==
    /\ id \in DOMAIN gen.tiles /\ gen.tiles[id] # {}
    /\ id \in DOMAIN mmaps.params /\ mmaps.params[id] = build_nav_mesh(gen.tiles[id])
    /\ \A p \in gen.todo : p[2] # id

\* A file of this run with its place in the mesh.
Placed(k) ==
    /\ k \in DOMAIN mmaps.tiles
    /\ "at" \in DOMAIN mmaps.tiles[k]
    /\ mmaps.tiles[k].at = NavTile(build_nav_mesh(gen.tiles[k[1]]).orig, k[2])

FitInv ==
    /\ \A p, q \in gen.todo : p[2] = q[2] => p = q
    /\ gen.phase = "tiles" =>
          MeshWritten(gen.map) /\ gen.orig = build_nav_mesh(gen.tiles[gen.map]).orig
    /\ \A k \in gen.fresh : k = <<k[1], k[2]>> /\ MeshWritten(k[1]) /\ Placed(k)
    /\ \A t \in DOMAIN gen.busy : gen.busy[t].file => Placed(<<gen.map, t>>)

\* Where a run over all maps is with each map.
TryInv ==
    gen.all /\ Building =>
        /\ gen.single = None /\ maps # None
        /\ \A k \in DOMAIN maps : k[1] \in DOMAIN gen.tiles /\ k[2] \in gen.tiles[k[1]]
        /\ \A id \in DOMAIN gen.tiles \ SkippedMaps :
              \/ \E p \in gen.todo : p[2] = id
              \/ id \in gen.unwritten
              \/ \A t \in gen.tiles[id] :
                    <<id, t>> \in gen.tried \/ (gen.phase = "tiles" /\ gen.map = id /\ t \in gen.left)

-----------------------------------------------------------------------------
(* The tiles of a map fit its mesh *)

(* Tiles with their places are tiles that fit. *)
LEMMA PlacedTilesFit ==
    ASSUME TileFacts, TilesInv, FitInv, NEW j \in gen.fresh
    PROVE  LET id   == j[1]
               mine == {k \in gen.fresh : k[1] = id /\ k[2] \in gen.tiles[id]}
           IN  /\ mmaps.params[id] # None
               /\ Cardinality(mine) <= mmaps.params[id].max_tiles
               /\ \A k \in mine :
                     /\ mmaps.tiles[k].at[1] >= 0 /\ mmaps.tiles[k].at[2] >= 0
                     /\ \A l \in mine : mmaps.tiles[k].at = mmaps.tiles[l].at => k = l
  \* build_nav_mesh: the origin is at or beyond every tile.
  <1>MeshFacts.
      ASSUME NEW T \in SUBSET ((0 .. 99) \X (0 .. 99)), T # {}
      PROVE  LET nav == build_nav_mesh(T)
             IN  /\ nav.orig[1] \in 0 .. 99 /\ nav.orig[2] \in 0 .. 99
                 /\ \A t \in T : t[1] <= nav.orig[1] /\ t[2] <= nav.orig[2]
                 /\ nav.max_tiles = Cardinality(T) /\ nav # None
    <2> USE <1>MeshFacts
    <2>1. ASSUME NEW i \in {1, 2}
          PROVE  Largest(T, i) \in 0 .. 99 /\ \A t \in T : t[i] <= Largest(T, i)
      <3> DEFINE U == {t[i] : t \in T}
      <3>1. U \in SUBSET (0 .. 99) /\ U # {}
        OBVIOUS
      <3>2. \E x \in U : \A y \in U : y <= x
        BY <3>1, Zenon DEF TileFacts
      <3>3. \E x \in U : \A t \in T : t[i] <= x
        BY <3>2
      <3>4. Largest(T, i) \in U /\ \A t \in T : t[i] <= Largest(T, i)
        BY <3>3 DEF Largest
      <3> QED
        BY <3>1, <3>4
    <2> DEFINE nav == build_nav_mesh(T)
    <2>2. nav.orig = <<Largest(T, 1), Largest(T, 2)>> /\ nav.max_tiles = Cardinality(T)
          /\ nav = [orig |-> nav.orig, max_tiles |-> nav.max_tiles]
      BY DEF build_nav_mesh
    <2>3. Cardinality(T) \in Nat
      BY Zenon DEF TileFacts
    <2> HIDE DEF nav
    <2>4. Largest(T, 1) \in 0 .. 99 /\ Largest(T, 2) \in 0 .. 99
      BY <2>1
    <2>5. nav # None
      BY <2>2, <2>3, <2>4, NoneIsNoMesh
    <2>6. \A t \in T : t[1] <= Largest(T, 1) /\ t[2] <= Largest(T, 2)
      BY <2>1
    <2>7. nav.orig[1] = Largest(T, 1) /\ nav.orig[2] = Largest(T, 2)
      BY <2>2
    <2> QED
      BY <2>2, <2>4, <2>5, <2>6, <2>7 DEF nav
  \* Tiles at or before the origin have places of their own.
  <1>PlacesApart.
      ASSUME NEW orig, orig[1] \in 0 .. 99, orig[2] \in 0 .. 99,
             NEW t \in (0 .. 99) \X (0 .. 99), NEW u \in (0 .. 99) \X (0 .. 99),
             t[1] <= orig[1], t[2] <= orig[2], u[1] <= orig[1], u[2] <= orig[2]
      PROVE  /\ NavTile(orig, t)[1] >= 0 /\ NavTile(orig, t)[2] >= 0
             /\ NavTile(orig, t) = NavTile(orig, u) => t = u
    <2> USE <1>PlacesApart
    <2>1. \A a, n \in 0 .. 99 : n <= a => Cut(a - n) = a - n
      BY DEF Cut
    <2>2. PICK a \in 0 .. 99, b \in 0 .. 99 : orig[1] = a /\ orig[2] = b
      BY Zenon
    <2>3. PICK x \in 0 .. 99, y \in 0 .. 99 : t = <<x, y>>
      <3>1. t[1] \in 0 .. 99 /\ t[2] \in 0 .. 99 /\ t = <<t[1], t[2]>>
        OBVIOUS
      <3> QED
        BY <3>1, Zenon
    <2>4. PICK v \in 0 .. 99, w \in 0 .. 99 : u = <<v, w>>
      <3>1. u[1] \in 0 .. 99 /\ u[2] \in 0 .. 99 /\ u = <<u[1], u[2]>>
        OBVIOUS
      <3> QED
        BY <3>1, Zenon
    <2>5. x <= a /\ y <= b /\ v <= a /\ w <= b
      BY <2>2, <2>3, <2>4
    <2>6. NavTile(orig, t) = <<a - x, b - y>>
      BY <2>1, <2>2, <2>3, <2>5, Zenon DEF NavTile
    <2>7. NavTile(orig, u) = <<a - v, b - w>>
      BY <2>1, <2>2, <2>4, <2>5, Zenon DEF NavTile
    <2>8. a - x >= 0 /\ b - y >= 0
      BY <2>2, <2>3, <2>5
    <2>9. a - x = a - v /\ b - y = b - w => x = v /\ y = w
      BY <2>2, <2>3, <2>4
    <2> QED
      BY <2>3, <2>4, <2>6, <2>7, <2>8, <2>9
  <1> DEFINE id   == j[1]
             T    == gen.tiles[id]
             nav  == build_nav_mesh(T)
             mine == {k \in gen.fresh : k[1] = id /\ k[2] \in T}
  <1>1. MeshWritten(id)
    BY DEF FitInv
  <1>2. T \in SUBSET ((0 .. 99) \X (0 .. 99)) /\ T # {} /\ mmaps.params[id] = nav
    BY <1>1 DEF MeshWritten, TilesInv
  <1>3. \A k \in mine : /\ k = <<id, k[2]>> /\ k[2] \in T
                        /\ mmaps.tiles[k].at = NavTile(nav.orig, k[2])
    BY DEF FitInv, Placed
  <1> HIDE DEF id, T, mine
  <1>4. mine \in SUBSET ({id} \X T)
    BY <1>3
  <1>5. Cardinality(mine) <= Cardinality(T)
    BY <1>2, <1>4, Zenon DEF TileFacts
  <1>6. /\ nav.orig[1] \in 0 .. 99 /\ nav.orig[2] \in 0 .. 99
        /\ \A t \in T : t[1] <= nav.orig[1] /\ t[2] <= nav.orig[2]
        /\ nav.max_tiles = Cardinality(T) /\ nav # None
    BY <1>2, <1>MeshFacts, Zenon
  <1> HIDE DEF nav
  <1>7. ASSUME NEW k \in mine, NEW l \in mine
        PROVE  /\ mmaps.tiles[k].at[1] >= 0 /\ mmaps.tiles[k].at[2] >= 0
               /\ mmaps.tiles[k].at = mmaps.tiles[l].at => k = l
    <2>1. k[2] \in T /\ l[2] \in T /\ k = <<id, k[2]>> /\ l = <<id, l[2]>>
          /\ mmaps.tiles[k].at = NavTile(nav.orig, k[2])
          /\ mmaps.tiles[l].at = NavTile(nav.orig, l[2])
      BY <1>3
    <2>2. /\ k[2] \in (0 .. 99) \X (0 .. 99) /\ l[2] \in (0 .. 99) \X (0 .. 99)
          /\ k[2][1] <= nav.orig[1] /\ k[2][2] <= nav.orig[2]
          /\ l[2][1] <= nav.orig[1] /\ l[2][2] <= nav.orig[2]
      BY <1>2, <1>6, <2>1
    <2>3. /\ NavTile(nav.orig, k[2])[1] >= 0 /\ NavTile(nav.orig, k[2])[2] >= 0
          /\ NavTile(nav.orig, k[2]) = NavTile(nav.orig, l[2]) => k[2] = l[2]
      BY <1>6, <2>2, <1>PlacesApart, Zenon
    <2> QED
      BY <2>1, <2>3
  <1>8. mmaps.params[id] # None /\ Cardinality(mine) <= mmaps.params[id].max_tiles
    BY <1>2, <1>5, <1>6
  <1> QED
    BY <1>7, <1>8 DEF id, T, mine

-----------------------------------------------------------------------------
(* The names of the terrain files *)

(* What discover_tiles reads from the names: every .map file is found, under *)
(* its map, and all that is found are pairs of two-digit numbers.            *)
LEMMA TilesFound ==
    ASSUME DOMAIN maps \subseteq TileKeys
    PROVE  /\ \A k \in DOMAIN maps :
                 k[1] \in DOMAIN discover_tiles /\ k[2] \in discover_tiles[k[1]]
           /\ \A id \in DOMAIN discover_tiles :
                 discover_tiles[id] \subseteq (0 .. 99) \X (0 .. 99)
  <1> DEFINE names  == {MapName(k) : k \in DOMAIN maps}
             Of(id) == {n \in names : n.map = id}
             ids    == {n.map : n \in names} \cup DOMAIN vmaps.trees
  <1>1. discover_tiles = [id \in ids |-> MapTiles(Of(id))]
    BY DEF discover_tiles
  \* The name of a .map file gives back its map and its tile.
  <1>2. \A k \in DOMAIN maps :
           LET n == MapName(k)
           IN  /\ n \in names /\ n.map = k[1] /\ <<n.at5, n.at3>> = k[2]
               /\ <<n.at5, n.at3>> \in (0 .. 99) \X (0 .. 99)
    <2> SUFFICES ASSUME NEW k \in DOMAIN maps
                 PROVE  LET n == MapName(k)
                        IN  /\ n \in names /\ n.map = k[1] /\ <<n.at5, n.at3>> = k[2]
                            /\ <<n.at5, n.at3>> \in (0 .. 99) \X (0 .. 99)
      OBVIOUS
    <2>1. k[2] \in (0 .. 63) \X (0 .. 63)
      BY DEF TileKeys, TileCoords
    <2>2. k[2] = <<k[2][1], k[2][2]>> /\ k[2][1] \in 0 .. 99 /\ k[2][2] \in 0 .. 99
      BY <2>1
    <2>3. MapName(k).map = k[1] /\ MapName(k).at3 = k[2][2] /\ MapName(k).at5 = k[2][1]
      BY DEF MapName
    <2> QED
      BY <2>2, <2>3
  <1>3. \A n \in names : <<n.at5, n.at3>> \in (0 .. 99) \X (0 .. 99)
    BY <1>2
  <1> HIDE DEF names
  <1>4. ASSUME NEW k \in DOMAIN maps
        PROVE  k[1] \in DOMAIN discover_tiles /\ k[2] \in discover_tiles[k[1]]
    <2>1. k[1] \in ids
      BY <1>2
    <2>2. k[2] \in MapTiles(Of(k[1]))
      BY <1>2 DEF MapTiles
    <2> HIDE DEF Of, ids
    <2> QED
      BY <1>1, <2>1, <2>2
  <1>5. ASSUME NEW id \in DOMAIN discover_tiles
        PROVE  discover_tiles[id] \subseteq (0 .. 99) \X (0 .. 99)
    <2>1. MapTiles(Of(id)) \subseteq (0 .. 99) \X (0 .. 99)
      BY <1>3 DEF MapTiles
    <2> HIDE DEF Of, ids
    <2> QED
      BY <1>1, <2>1
  <1> QED
    BY <1>4, <1>5, Zenon

-----------------------------------------------------------------------------
(* What a part of a tile leaves behind *)

(* However the stages of a part fail, it frees what it made, and only that; a *)
(* part that succeeds holds its two meshes.                                   *)
LEMMA PartLeavesNothing ==
    \A i \in 0 .. Len(Stages), allocated \in BOOLEAN :
        /\ build_common_tile_recast(i, allocated).misfreed = FALSE
        /\ build_common_tile_recast(i, allocated).held \subseteq {"pmesh", "dmesh"}
        /\ i # 0 => build_common_tile_recast(i, allocated).held = {}
  <1>StageAfter.
      ASSUME NEW i \in Nat \ {0}
      PROVE  /\ Made(i + 1) = Made(i) \cup Stages[i].makes
             /\ Freed(i + 1) = Freed(i) \cup Stages[i].ok
    <2> USE <1>StageAfter
    <2>1. 1 .. (i + 1) - 1 = (1 .. i - 1) \cup {i}
      OBVIOUS
    <2> QED
      BY <2>1, Zenon DEF Made, Freed
  <1>FirstStage. Made(1) = {} /\ Freed(1) = {}
    BY DEF Made, Freed
  <1>StageList.
      /\ Len(Stages) = 8
      /\ Stages[1].makes = {"solid"} /\ Stages[1].ok = {} /\ Stages[1].fails = {"solid"}
      /\ Stages[2].makes = {"chf"} /\ Stages[2].ok = {"solid"} /\ Stages[2].fails = {"solid", "chf"}
      /\ \A i \in {3, 4, 5} : Stages[i].makes = {} /\ Stages[i].ok = {} /\ Stages[i].fails = {"chf"}
      /\ Stages[6].makes = {"cset"} /\ Stages[6].ok = {} /\ Stages[6].fails = {"chf", "cset"}
      /\ Stages[7].makes = {"pmesh"} /\ Stages[7].ok = {}
      /\ Stages[7].fails = {"chf", "cset", "pmesh"}
      /\ Stages[8].makes = {"dmesh"} /\ Stages[8].ok = {"chf", "cset"}
      /\ Stages[8].fails = {"chf", "cset", "pmesh", "dmesh"}
    BY DEF Stages
  \* What build_common_tile_recast holds when it reaches each of its stages.
  <1>HeldAtStages.
      /\ HeldAt(1) = {} /\ HeldAt(2) = {"solid"}
      /\ \A i \in {3, 4, 5, 6} : HeldAt(i) = {"chf"}
      /\ HeldAt(7) = {"chf", "cset"} /\ HeldAt(8) = {"chf", "cset", "pmesh"}
      /\ HeldAt(9) = {"pmesh", "dmesh"}
    <2>1. Made(2) = {"solid"} /\ Freed(2) = {}
      BY <1>FirstStage, <1>StageAfter, <1>StageList
    <2>2. Made(3) = {"solid", "chf"} /\ Freed(3) = {"solid"}
      BY <2>1, <1>StageAfter, <1>StageList
    <2>3. Made(4) = {"solid", "chf"} /\ Freed(4) = {"solid"}
      BY <2>2, <1>StageAfter, <1>StageList
    <2>4. Made(5) = {"solid", "chf"} /\ Freed(5) = {"solid"}
      BY <2>3, <1>StageAfter, <1>StageList
    <2>5. Made(6) = {"solid", "chf"} /\ Freed(6) = {"solid"}
      BY <2>4, <1>StageAfter, <1>StageList, SMTT(30)
    <2>6. Made(7) = {"solid", "chf", "cset"} /\ Freed(7) = {"solid"}
      BY <2>5, <1>StageAfter, <1>StageList
    <2>7. Made(8) = {"solid", "chf", "cset", "pmesh"} /\ Freed(8) = {"solid"}
      BY <2>6, <1>StageAfter, <1>StageList, SMTT(30)
    <2>8. Made(9) = {"solid", "chf", "cset", "pmesh", "dmesh"} /\ Freed(9) = {"solid", "chf", "cset"}
      BY <2>7, <1>StageAfter, <1>StageList, SMTT(30)
    <2> QED
      BY <1>FirstStage, <2>1, <2>2, <2>3, <2>4, <2>5, <2>6, <2>7, <2>8 DEF HeldAt
  \* A part that fails at any stage, its object allocated or not, has freed all
  \* it held and nothing else; one that succeeds holds its two meshes.
  <1>Part.
      ASSUME NEW i \in 0 .. Len(Stages), NEW allocated \in BOOLEAN
      PROVE  /\ build_common_tile_recast(i, allocated).misfreed = FALSE
             /\ build_common_tile_recast(i, allocated).held \subseteq {"pmesh", "dmesh"}
             /\ i # 0 => build_common_tile_recast(i, allocated).held = {}
    <2> USE <1>Part
    <2> DEFINE r == build_common_tile_recast(i, allocated)
               held == HeldAt(i) \cup (IF allocated THEN Stages[i].makes ELSE {})
    <2>1. CASE i = 0
      <3>1. Len(Stages) + 1 = 9
        BY <1>StageList
      <3>2. r = [held |-> HeldAt(9), misfreed |-> FALSE]
        BY <2>1, <3>1, Zenon DEF build_common_tile_recast
      <3>3. r.held = {"pmesh", "dmesh"} /\ r.misfreed = FALSE
        BY <3>2, <1>HeldAtStages
      <3> QED
        BY <2>1, <3>3, Zenon
    <2>2. CASE i # 0
      <3>1. r.held = held \ Stages[i].fails
            /\ r.misfreed = ~(Stages[i].fails \subseteq held \cup Stages[i].makes)
        BY <2>2 DEF build_common_tile_recast
      <3>2. held \subseteq Stages[i].fails /\ Stages[i].fails \subseteq HeldAt(i) \cup Stages[i].makes
        <4>1. i \in {1, 2, 6, 7, 8} \cup {3, 4, 5}
          BY <2>2, <1>StageList
        <4> QED
          BY <4>1, <1>StageList, <1>HeldAtStages
      <3> QED
        BY <2>2, <3>1, <3>2, Zenon
    <2> QED
      BY <2>1, <2>2, Zenon
  <1> QED
    BY <1>Part, Zenon

-----------------------------------------------------------------------------
(* What a step of a worker does to the run *)

\* All but the workers, their objects and their files.
SameRun(g, h) ==
    /\ h.phase = g.phase /\ h.tiles = g.tiles /\ h.todo = g.todo /\ h.map = g.map
    /\ h.orig = g.orig /\ h.single = g.single /\ h.all = g.all /\ h.left = g.left
    /\ h.limit = g.limit /\ h.tried = g.tried /\ h.unwritten = g.unwritten

\* Worker t has come to w.
WorksOn(g, h, t, w) ==
    /\ DOMAIN h.busy = DOMAIN g.busy
    /\ h.busy[t] = w
    /\ \A u \in DOMAIN g.busy : u # t => h.busy[u] = g.busy[u]

\* Worker t has returned.
Leaves(g, h, t) ==
    /\ DOMAIN h.busy = DOMAIN g.busy \ {t}
    /\ \A u \in DOMAIN h.busy : h.busy[u] = g.busy[u]

\* The rest of the run stays, nothing is freed that is not held and only an
\* early return leaks.
Sound ==
    /\ IsBuild(gen') /\ SameRun(gen, gen')
    /\ gen'.misfreed = FALSE /\ gen'.leaked \subseteq gen'.unmerged

\* The worker goes on, with or without a file.
GoesOn(t, file) ==
    \E w \in Workers : Holding(w) /\ w.file = file /\ WorksOn(gen, gen', t, w)

(* The objects of a worker by their kinds. *)
LEMMA Kinds ==
    /\ MergedPoly \in Int \X {"ctx", "pmesh", "dmesh", "nav"}
    /\ MergedDetail \in Int \X {"ctx", "pmesh", "dmesh", "nav"}
    /\ Ctx \in Int \X {"ctx", "pmesh", "dmesh", "nav"}
    /\ NavData \in Int \X {"ctx", "pmesh", "dmesh", "nav"}
    /\ \A o \in {Ctx, MergedPoly, MergedDetail, NavData} : ~(o[1] > 0)
    /\ NavData \notin {Ctx, MergedPoly, MergedDetail}
  BY DEF Ctx, MergedPoly, MergedDetail, NavData

(* What a step of a worker does: it goes on or returns, and frees only what it *)
(* holds; the output directory changes when it opens or ends its file.         *)
LEMMA WorkerEffect ==
    ASSUME HoldInv, NEW tile \in DOMAIN gen.busy, Worker(tile)
    PROVE  /\ Sound
           /\ \/ /\ GoesOn(tile, FALSE) \/ Leaves(gen, gen', tile)
                 /\ gen'.fresh = gen.fresh /\ mmaps' = mmaps
              \/ /\ GoesOn(tile, TRUE) /\ gen'.fresh = gen.fresh
                 /\ mmaps' = [mmaps EXCEPT !.tiles = Put(@, <<gen.map, tile>>,
                                [at |-> NavTile(gen.orig, tile), state |-> "partial"])]
              \/ /\ Leaves(gen, gen', tile) /\ gen.busy[tile].file
                 /\ gen'.fresh = gen.fresh \cup {<<gen.map, tile>>}
                 /\ \E state \in FileStates :
                       mmaps' = [mmaps EXCEPT !.tiles[<<gen.map, tile>>].state = state]
  <1>FreeEffect.
      ASSUME NEW g, IsBuild(g), NEW t \in DOMAIN g.busy, g.busy[t] \in Workers, NEW S
      PROVE  LET h == Free(g, t, S)
                 w == g.busy[t]
             IN  /\ IsBuild(h) /\ SameRun(g, h)
                 /\ h.leaked = g.leaked /\ h.unmerged = g.unmerged /\ h.fresh = g.fresh
                 /\ h.misfreed = (g.misfreed \/ ~(S \subseteq w.held))
                 /\ WorksOn(g, h, t, [k |-> w.k, file |-> w.file, held |-> w.held \ S])
    <2> USE <1>FreeEffect
    <2> DEFINE h == Free(g, t, S)
    <2>1. IsBuild(h)
      BY Zenon DEF Free, IsBuild
    <2>2. SameRun(g, h) /\ h.leaked = g.leaked /\ h.unmerged = g.unmerged /\ h.fresh = g.fresh
      BY DEF Free, IsBuild, BuildFields, SameRun
    <2>3. h.misfreed = (g.misfreed \/ ~(S \subseteq g.busy[t].held))
      BY DEF Free, IsBuild, BuildFields
    <2>4. WorksOn(g, h, t, [k |-> g.busy[t].k, file |-> g.busy[t].file, held |-> g.busy[t].held \ S])
      BY Zenon DEF Free, IsBuild, BuildFields, Workers, WorksOn
    <2> QED
      BY <2>1, <2>2, <2>3, <2>4
  <1>ReturnEffect.
      ASSUME NEW g, IsBuild(g), NEW t \in DOMAIN g.busy
      PROVE  LET h == Return(g, t)
             IN  /\ IsBuild(h) /\ SameRun(g, h)
                 /\ h.unmerged = g.unmerged /\ h.fresh = g.fresh /\ h.misfreed = g.misfreed
                 /\ h.leaked = IF g.busy[t].held = {} THEN g.leaked
                               ELSE g.leaked \cup {<<g.map, t>>}
                 /\ Leaves(g, h, t)
    <2> USE <1>ReturnEffect
    <2> DEFINE h == Return(g, t)
    <2>1. IsBuild(h)
      BY Zenon DEF Return, IsBuild
    <2>2. /\ SameRun(g, h) /\ h.unmerged = g.unmerged /\ h.fresh = g.fresh
          /\ h.misfreed = g.misfreed
      BY DEF Return, IsBuild, BuildFields, SameRun
    <2>3. h.leaked = IF g.busy[t].held = {} THEN g.leaked ELSE g.leaked \cup {<<g.map, t>>}
      BY DEF Return, IsBuild, BuildFields
    <2>4. Leaves(g, h, t)
      BY DEF Return, IsBuild, BuildFields, Leaves
    <2> QED
      BY <2>1, <2>2, <2>3, <2>4
  \* A worker that frees S and returns.
  <1>FreeAndReturn.
      ASSUME NEW g, IsBuild(g), NEW t \in DOMAIN g.busy, g.busy[t] \in Workers, NEW S,
             g.misfreed = FALSE, S \subseteq g.busy[t].held
      PROVE  LET h == Return(Free(g, t, S), t)
             IN  /\ IsBuild(h) /\ SameRun(g, h) /\ Leaves(g, h, t)
                 /\ h.misfreed = FALSE /\ h.unmerged = g.unmerged /\ h.fresh = g.fresh
                 /\ h.leaked \subseteq g.leaked \cup {<<g.map, t>>}
                 /\ g.busy[t].held \subseteq S => h.leaked = g.leaked
    <2> USE <1>FreeAndReturn
    <2> DEFINE f == Free(g, t, S)
               h == Return(f, t)
    <2>0. /\ IsBuild(f) /\ SameRun(g, f)
          /\ f.leaked = g.leaked /\ f.unmerged = g.unmerged /\ f.fresh = g.fresh
          /\ f.misfreed = (g.misfreed \/ ~(S \subseteq g.busy[t].held))
          /\ WorksOn(g, f, t, [k |-> g.busy[t].k, file |-> g.busy[t].file,
                               held |-> g.busy[t].held \ S])
      BY <1>FreeEffect, Zenon
    <2>1. /\ IsBuild(f) /\ SameRun(g, f) /\ f.leaked = g.leaked /\ f.unmerged = g.unmerged
          /\ f.fresh = g.fresh /\ f.misfreed = FALSE
          /\ DOMAIN f.busy = DOMAIN g.busy /\ f.busy[t].held = g.busy[t].held \ S
          /\ \A u \in DOMAIN g.busy : u # t => f.busy[u] = g.busy[u]
      <3> HIDE DEF f
      <3>1. f.misfreed = FALSE
        BY <2>0, Zenon
      <3>2. /\ DOMAIN f.busy = DOMAIN g.busy /\ f.busy[t].held = g.busy[t].held \ S
            /\ \A u \in DOMAIN g.busy : u # t => f.busy[u] = g.busy[u]
        BY <2>0 DEF WorksOn
      <3> QED
        BY <2>0, <3>1, <3>2
    <2> HIDE DEF f
    <2>2. /\ IsBuild(h) /\ SameRun(f, h) /\ Leaves(f, h, t)
          /\ h.unmerged = f.unmerged /\ h.fresh = f.fresh /\ h.misfreed = f.misfreed
          /\ h.leaked = IF f.busy[t].held = {} THEN f.leaked ELSE f.leaked \cup {<<f.map, t>>}
      BY <2>1, <1>ReturnEffect, Zenon
    <2>3. SameRun(g, h) /\ f.map = g.map
      BY <2>1, <2>2, Zenon DEF SameRun
    <2>4. Leaves(g, h, t)
      BY <2>1, <2>2 DEF Leaves
    <2> QED
      BY <2>1, <2>2, <2>3, <2>4, Zenon DEF f
  <1>SubTileEffect.
      ASSUME NEW t \in DOMAIN gen.busy, BuildSubTile(t)
      PROVE  Sound /\ GoesOn(t, FALSE) /\ gen'.fresh = gen.fresh /\ mmaps' = mmaps
    <2> USE <1>SubTileEffect
    <2> DEFINE w == gen.busy[t]
    <2>1. PICK i \in 0 .. Len(Stages), allocated \in BOOLEAN :
            LET r == build_common_tile_recast(i, allocated)
            IN  gen' = [gen EXCEPT !.busy[t].k = w.k + 1,
                                   !.busy[t].held = @ \cup {<<IF i = 0 THEN w.k ELSE -w.k, o>> :
                                                            o \in r.held},
                                   !.misfreed = @ \/ r.misfreed]
      BY Zenon DEF BuildSubTile
    <2> DEFINE r == build_common_tile_recast(i, allocated)
               new == {<<IF i = 0 THEN w.k ELSE -w.k, o>> : o \in r.held}
               v == [k |-> w.k + 1, file |-> w.file, held |-> w.held \cup new]
    <2>2. w \in Workers /\ Holding(w) /\ IsBuild(gen) /\ w.k \in 1 .. SubTiles
          /\ gen.misfreed = FALSE /\ gen.leaked \subseteq gen.unmerged
      BY PartsAssumption DEF HoldInv, BuildSubTile, Workers
    <2>3. r.misfreed = FALSE /\ new \subseteq (1 .. SubTiles) \X {"pmesh", "dmesh"}
      <3>1. r.misfreed = FALSE /\ r.held \subseteq {"pmesh", "dmesh"} /\ (i # 0 => r.held = {})
        BY PartLeavesNothing, Zenon
      <3> HIDE DEF r
      <3> QED
        BY <2>2, <3>1
    <2> HIDE DEF r, new
    <2>4. gen' = [gen EXCEPT !.busy[t].k = w.k + 1, !.busy[t].held = @ \cup new,
                             !.misfreed = @ \/ r.misfreed]
      BY <2>1 DEF r, new
    <2>5. IsBuild(gen')
      BY <2>2, <2>4, Zenon DEF IsBuild
    <2>6. /\ SameRun(gen, gen') /\ gen'.leaked = gen.leaked /\ gen'.unmerged = gen.unmerged
          /\ gen'.fresh = gen.fresh
      BY <2>2, <2>4 DEF IsBuild, BuildFields, SameRun
    <2>7. gen'.misfreed = FALSE
      BY <2>2, <2>3, <2>4, Zenon DEF IsBuild, BuildFields
    <2>8. WorksOn(gen, gen', t, v)
      BY <2>2, <2>4, Zenon DEF IsBuild, BuildFields, Workers, WorksOn
    <2>9. v \in Workers /\ Holding(v) /\ v.file = FALSE
      <3>1. w.file = FALSE
        BY <2>2, PartsAssumption DEF Holding, Workers
      <3>2. v \in Workers
        BY <2>2, <2>3, PartsAssumption DEF Workers
      <3>3. \A o \in new : o[1] > 0
        BY <2>3
      <3>4. v.k <= SubTiles + 1 /\ v.k # SubTiles + 2
        BY <2>2, PartsAssumption
      <3>5. Ctx \in w.held /\ \A o \in w.held : o = Ctx \/ o[1] > 0
        BY <2>2, PartsAssumption DEF Holding
      <3> QED
        BY <3>1, <3>2, <3>3, <3>4, <3>5 DEF Holding
    <2>10. GoesOn(t, FALSE)
      BY <2>8, <2>9, Zenon DEF GoesOn
    <2>11. mmaps' = mmaps
      BY DEF BuildSubTile
    <2> QED
      BY <2>2, <2>5, <2>6, <2>7, <2>10, <2>11, Zenon DEF Sound
  <1>MergeEffect.
      ASSUME NEW t \in DOMAIN gen.busy, MergeMeshes(t)
      PROVE  /\ Sound /\ gen'.fresh = gen.fresh /\ mmaps' = mmaps
             /\ GoesOn(t, FALSE) \/ Leaves(gen, gen', t)
    <2> USE <1>MergeEffect
    <2> DEFINE w == gen.busy[t]
    <2>1. w \in Workers /\ Holding(w) /\ IsBuild(gen) /\ w.k = SubTiles + 1
          /\ gen.misfreed = FALSE /\ gen.leaked \subseteq gen.unmerged
      BY DEF HoldInv, MergeMeshes
    <2>2. w.file = FALSE /\ Ctx \in w.held /\ \A o \in w.held : o = Ctx \/ o[1] > 0
      BY <2>1, PartsAssumption DEF Holding, Workers
    <2>3. mmaps' = mmaps
      BY DEF MergeMeshes
    <2>4. CASE Meshes(t) = {} /\ gen' = Return(Free(gen, t, {Ctx}), t)
      <3>1. w.held \subseteq {Ctx}
        BY <2>2, <2>4 DEF Meshes
      <3> QED
        BY <2>1, <2>2, <2>3, <2>4, <3>1, <1>FreeAndReturn, ZenonT(40) DEF Sound
    <2>5. CASE \E got \in {{}, {MergedPoly}} :
                  gen' = Return(Free([gen EXCEPT !.unmerged = @ \cup {<<gen.map, t>>},
                                                 !.busy[t].held = @ \cup got],
                                     t, got \cup {Ctx}), t)
      <3>0. PICK got \in {{}, {MergedPoly}} :
                  gen' = Return(Free([gen EXCEPT !.unmerged = @ \cup {<<gen.map, t>>},
                                                 !.busy[t].held = @ \cup got],
                                     t, got \cup {Ctx}), t)
        BY <2>5, Zenon
      <3> DEFINE g == [gen EXCEPT !.unmerged = @ \cup {<<gen.map, t>>},
                                  !.busy[t].held = @ \cup got]
      <3>1. IsBuild(g)
        BY <2>1, Zenon DEF IsBuild
      <3>2. /\ SameRun(gen, g) /\ g.leaked = gen.leaked /\ g.misfreed = FALSE
            /\ g.unmerged = gen.unmerged \cup {<<gen.map, t>>} /\ g.fresh = gen.fresh
        BY <2>1 DEF IsBuild, BuildFields, SameRun
      <3>3. WorksOn(gen, g, t, [k |-> w.k, file |-> w.file, held |-> w.held \cup got])
        BY <2>1 DEF IsBuild, BuildFields, Workers, WorksOn
      <3>4. g.busy[t] \in Workers /\ got \cup {Ctx} \subseteq g.busy[t].held
        BY <2>1, <2>2, <3>3, Kinds DEF WorksOn, Workers
      <3> HIDE DEF g
      <3> DEFINE S == got \cup {Ctx}
      <3>5. gen' = Return(Free(g, t, S), t) /\ S \subseteq g.busy[t].held
        BY <3>0, <3>4 DEF g
      <3> HIDE DEF S
      <3>6. t \in DOMAIN g.busy /\ g.busy[t] \in Workers /\ g.misfreed = FALSE
        BY <3>2, <3>3, <3>4 DEF WorksOn
      <3>7. /\ IsBuild(gen') /\ SameRun(g, gen') /\ Leaves(g, gen', t)
            /\ gen'.misfreed = FALSE /\ gen'.unmerged = g.unmerged /\ gen'.fresh = g.fresh
            /\ gen'.leaked \subseteq g.leaked \cup {<<g.map, t>>}
        BY <3>1, <3>5, <3>6, <1>FreeAndReturn, Zenon
      <3>8. SameRun(gen, gen') /\ gen'.leaked \subseteq gen'.unmerged
        BY <2>1, <3>2, <3>7 DEF SameRun
      <3>9. Leaves(gen, gen', t)
        BY <3>3, <3>7 DEF Leaves, WorksOn
      <3> QED
        BY <2>3, <3>2, <3>7, <3>8, <3>9 DEF Sound
    <2>6. CASE gen' = Free([gen EXCEPT !.busy[t].k = SubTiles + 2,
                                       !.busy[t].held = @ \cup {MergedPoly, MergedDetail}],
                           t, Meshes(t))
      <3> DEFINE g == [gen EXCEPT !.busy[t].k = SubTiles + 2,
                                  !.busy[t].held = @ \cup {MergedPoly, MergedDetail}]
                 v == [k |-> SubTiles + 2, file |-> FALSE,
                       held |-> (w.held \cup {MergedPoly, MergedDetail}) \ Meshes(t)]
      <3>1. IsBuild(g)
        BY <2>1, Zenon DEF IsBuild
      <3>2. /\ SameRun(gen, g) /\ g.leaked = gen.leaked /\ g.misfreed = FALSE
            /\ g.unmerged = gen.unmerged /\ g.fresh = gen.fresh
        BY <2>1 DEF IsBuild, BuildFields, SameRun
      <3>3. WorksOn(gen, g, t, [k |-> SubTiles + 2, file |-> w.file,
                                held |-> w.held \cup {MergedPoly, MergedDetail}])
        BY <2>1, Zenon DEF IsBuild, BuildFields, Workers, WorksOn
      <3>4. g.busy[t] \in Workers /\ Meshes(t) \subseteq g.busy[t].held /\ t \in DOMAIN g.busy
        BY <2>1, <3>3, Kinds, PartsAssumption DEF WorksOn, Workers, Meshes
      <3> HIDE DEF g
      <3>5. gen' = Free(g, t, Meshes(t))
        BY <2>6 DEF g
      <3>6. /\ IsBuild(gen') /\ SameRun(g, gen')
            /\ gen'.leaked = g.leaked /\ gen'.unmerged = g.unmerged /\ gen'.fresh = g.fresh
            /\ gen'.misfreed = (g.misfreed \/ ~(Meshes(t) \subseteq g.busy[t].held))
            /\ WorksOn(g, gen', t, [k |-> g.busy[t].k, file |-> g.busy[t].file,
                                    held |-> g.busy[t].held \ Meshes(t)])
        BY <3>1, <3>4, <3>5, <1>FreeEffect, Zenon
      <3>7. gen'.misfreed = FALSE
        BY <3>2, <3>4, <3>6, Zenon
      <3>8. SameRun(gen, gen') /\ gen'.leaked \subseteq gen'.unmerged /\ gen'.fresh = gen.fresh
        BY <2>1, <3>2, <3>6, Zenon DEF SameRun
      <3>9. WorksOn(gen, gen', t, v)
        <4>1. g.busy[t].k = SubTiles + 2 /\ g.busy[t].file = FALSE
              /\ g.busy[t].held = w.held \cup {MergedPoly, MergedDetail}
          BY <2>2, <3>3 DEF WorksOn
        <4> QED
          BY <3>3, <3>6, <4>1, Zenon DEF WorksOn
      <3>10. v.held = {Ctx, MergedPoly, MergedDetail}
        BY <2>2, Kinds DEF Meshes
      <3>11. v \in Workers
        BY <3>10, Kinds, PartsAssumption DEF Workers
      <3>12. Holding(v)
        BY <3>10, PartsAssumption DEF Holding
      <3> QED
        BY <2>3, <3>6, <3>7, <3>8, <3>9, <3>11, <3>12, Zenon DEF Sound, GoesOn
    <2> QED
      BY <2>4, <2>5, <2>6, Zenon DEF MergeMeshes
  \* The end of a worker that holds a merged mesh and no tile.
  <1>CleanupEffect.
      ASSUME NEW g, IsBuild(g), NEW t \in DOMAIN g.busy, g.busy[t] \in Workers,
             g.busy[t].held = {Ctx, MergedPoly, MergedDetail}, g.misfreed = FALSE
      PROVE  LET h == Cleanup(g, t)
             IN  /\ IsBuild(h) /\ SameRun(g, h) /\ Leaves(g, h, t)
                 /\ h.misfreed = FALSE /\ h.unmerged = g.unmerged /\ h.fresh = g.fresh
                 /\ h.leaked = g.leaked
    <2> USE <1>CleanupEffect
    <2> DEFINE S == {MergedPoly, MergedDetail, Ctx}
               h == Return(Free(g, t, S), t)
    <2>1. S \subseteq g.busy[t].held /\ g.busy[t].held \subseteq S
      OBVIOUS
    <2> HIDE DEF S
    <2>2. /\ IsBuild(h) /\ SameRun(g, h) /\ Leaves(g, h, t)
          /\ h.misfreed = FALSE /\ h.unmerged = g.unmerged /\ h.fresh = g.fresh
          /\ h.leaked = g.leaked
      BY <2>1, <1>FreeAndReturn, Zenon
    <2>3. Cleanup(g, t) = h
      BY DEF Cleanup, S
    <2> QED
      BY <2>2, <2>3
  \* A worker that has its tile made by Detour, and one that frees it again.
  <1>TileFreed.
      ASSUME NEW g, IsBuild(g), NEW t \in DOMAIN g.busy, g.busy[t] \in Workers,
             g.busy[t].held = {Ctx, MergedPoly, MergedDetail, NavData},
             g.misfreed = FALSE
      PROVE  LET h == Cleanup(Free(g, t, {NavData}), t)
             IN  /\ IsBuild(h) /\ SameRun(g, h) /\ Leaves(g, h, t)
                 /\ h.misfreed = FALSE /\ h.unmerged = g.unmerged /\ h.fresh = g.fresh
                 /\ h.leaked = g.leaked
    <2> USE <1>TileFreed
    <2> DEFINE f == Free(g, t, {NavData})
               w == g.busy[t]
               h == Cleanup(f, t)
    <2>1. /\ IsBuild(f) /\ SameRun(g, f)
          /\ f.leaked = g.leaked /\ f.unmerged = g.unmerged /\ f.fresh = g.fresh
          /\ f.misfreed = (g.misfreed \/ ~({NavData} \subseteq w.held))
          /\ WorksOn(g, f, t, [k |-> w.k, file |-> w.file, held |-> w.held \ {NavData}])
      BY <1>FreeEffect, Zenon
    <2> HIDE DEF f
    <2>2. f.misfreed = FALSE
      BY <2>1, Zenon
    <2>3. /\ t \in DOMAIN f.busy /\ f.busy[t] \in Workers
          /\ f.busy[t].held = {Ctx, MergedPoly, MergedDetail}
      <3>1. w.held \ {NavData} = {Ctx, MergedPoly, MergedDetail}
        BY Kinds
      <3> QED
        BY <2>1, <3>1 DEF WorksOn, Workers
    <2>4. /\ IsBuild(h) /\ SameRun(f, h) /\ Leaves(f, h, t)
          /\ h.misfreed = FALSE /\ h.unmerged = f.unmerged /\ h.fresh = f.fresh
          /\ h.leaked = f.leaked
      BY <2>1, <2>2, <2>3, <1>CleanupEffect, Zenon
    <2>5. SameRun(g, h)
      BY <2>1, <2>4, Zenon DEF SameRun
    <2>6. Leaves(g, h, t)
      BY <2>1, <2>4, Zenon DEF Leaves, WorksOn
    <2> QED
      BY <2>1, <2>4, <2>5, <2>6, Zenon DEF f
  <1>CreateEffect.
      ASSUME NEW t \in DOMAIN gen.busy, CreateTile(t)
      PROVE  /\ Sound /\ gen'.fresh = gen.fresh
             /\ \/ Leaves(gen, gen', t) /\ mmaps' = mmaps
                \/ /\ GoesOn(t, TRUE)
                   /\ mmaps' = [mmaps EXCEPT !.tiles = Put(@, <<gen.map, t>>,
                                  [at |-> NavTile(gen.orig, t), state |-> "partial"])]
    <2> USE <1>CreateEffect
    <2> DEFINE w == gen.busy[t]
               made == [gen EXCEPT !.busy[t].held = @ \cup {NavData}]
               full == {Ctx, MergedPoly, MergedDetail, NavData}
    <2>1. w \in Workers /\ IsBuild(gen) /\ w.k = SubTiles + 2 /\ w.file = FALSE
          /\ gen.misfreed = FALSE /\ gen.leaked \subseteq gen.unmerged
      BY DEF HoldInv, CreateTile, Workers
    <2>2. w.held = {Ctx, MergedPoly, MergedDetail}
      BY <2>1, PartsAssumption DEF HoldInv, Holding
    <2>3. IsBuild(made)
      BY <2>1, SMTT(30) DEF IsBuild
    <2>4. /\ SameRun(gen, made) /\ made.leaked = gen.leaked /\ made.unmerged = gen.unmerged
          /\ made.fresh = gen.fresh /\ made.misfreed = FALSE
      BY <2>1 DEF IsBuild, BuildFields, SameRun
    <2>5. WorksOn(gen, made, t, [k |-> w.k, file |-> FALSE, held |-> full])
      <3>1. w.held \cup {NavData} = full
        BY <2>2
      <3>2. WorksOn(gen, made, t, [k |-> w.k, file |-> w.file, held |-> w.held \cup {NavData}])
        BY <2>1, Zenon DEF IsBuild, BuildFields, Workers, WorksOn
      <3> QED
        BY <2>1, <3>1, <3>2, Zenon
    <2>6. made.busy[t] \in Workers /\ made.busy[t].held = full /\ t \in DOMAIN made.busy
      BY <2>1, <2>5, Kinds DEF WorksOn, Workers
    <2>7. CASE gen' = Cleanup(gen, t) /\ UNCHANGED mmaps
      BY <2>1, <2>2, <2>7, <1>CleanupEffect, Zenon DEF Sound
    <2> HIDE DEF made
    <2>8. CASE gen' = Cleanup(Free(made, t, {NavData}), t) /\ UNCHANGED mmaps
      <3>1. /\ IsBuild(gen') /\ SameRun(made, gen') /\ Leaves(made, gen', t)
            /\ gen'.misfreed = FALSE /\ gen'.unmerged = made.unmerged /\ gen'.fresh = made.fresh
            /\ gen'.leaked = made.leaked
        BY <2>3, <2>4, <2>6, <2>8, <1>TileFreed, Zenon
      <3>2. SameRun(gen, gen')
        BY <2>4, <3>1 DEF SameRun
      <3>3. Leaves(gen, gen', t)
        BY <2>5, <3>1 DEF Leaves, WorksOn
      <3> QED
        BY <2>1, <2>4, <2>8, <3>1, <3>2, <3>3, Zenon DEF Sound
    <2>9. CASE /\ gen' = [made EXCEPT !.busy[t].file = TRUE]
               /\ mmaps' = [mmaps EXCEPT !.tiles = Put(@, <<gen.map, t>>,
                              [at |-> NavTile(gen.orig, t), state |-> "partial"])]
      <3> DEFINE v == [k |-> w.k, file |-> TRUE, held |-> full]
      <3>1. IsBuild(gen')
        BY <2>3, <2>9, Zenon DEF IsBuild
      <3>2. /\ SameRun(made, gen') /\ gen'.leaked = made.leaked /\ gen'.unmerged = made.unmerged
            /\ gen'.fresh = made.fresh /\ gen'.misfreed = made.misfreed
        BY <2>3, <2>9 DEF IsBuild, BuildFields, SameRun
      <3>3. WorksOn(gen, gen', t, v)
        <4>1. WorksOn(made, gen', t, [k |-> made.busy[t].k, file |-> TRUE,
                                      held |-> made.busy[t].held])
          BY <2>3, <2>6, <2>9, Zenon DEF IsBuild, BuildFields, Workers, WorksOn
        <4>2. made.busy[t].k = w.k /\ made.busy[t].held = full
          BY <2>5 DEF WorksOn
        <4> QED
          BY <2>5, <4>1, <4>2 DEF WorksOn
      <3>4. SameRun(gen, gen')
        BY <2>4, <3>2 DEF SameRun
      <3>5. v \in Workers /\ Holding(v)
        BY <2>1, Kinds, PartsAssumption DEF Workers, Holding
      <3>6. GoesOn(t, TRUE)
        BY <3>3, <3>5 DEF GoesOn
      <3>7. Sound /\ gen'.fresh = gen.fresh
        BY <2>1, <2>4, <3>1, <3>2, <3>4, Zenon DEF Sound
      <3> QED
        BY <2>9, <3>6, <3>7, Zenon
    <2> QED
      BY <2>7, <2>8, <2>9, Zenon DEF CreateTile, made
  <1>WriteEffect.
      ASSUME NEW t \in DOMAIN gen.busy, WriteTile(t)
      PROVE  /\ Sound /\ Leaves(gen, gen', t)
             /\ gen'.fresh = gen.fresh \cup {<<gen.map, t>>}
             /\ \E state \in FileStates :
                   mmaps' = [mmaps EXCEPT !.tiles[<<gen.map, t>>].state = state]
    <2> USE <1>WriteEffect
    <2> DEFINE w == gen.busy[t]
               g == [gen EXCEPT !.fresh = @ \cup {<<gen.map, t>>}]
    <2>1. w \in Workers /\ Holding(w) /\ IsBuild(gen) /\ w.file = TRUE
          /\ gen.misfreed = FALSE /\ gen.leaked \subseteq gen.unmerged
      BY DEF HoldInv, WriteTile, Workers
    <2>2. w.held = {Ctx, MergedPoly, MergedDetail, NavData}
      <3>1. w.k = SubTiles + 2
        BY <2>1, PartsAssumption DEF Workers, Holding
      <3> QED
        BY <2>1, <3>1 DEF Holding
    <2>3. IsBuild(g)
      BY <2>1 DEF IsBuild
    <2>4. /\ SameRun(gen, g) /\ g.leaked = gen.leaked /\ g.unmerged = gen.unmerged
          /\ g.fresh = gen.fresh \cup {<<gen.map, t>>} /\ g.misfreed = FALSE /\ g.busy = gen.busy
      BY <2>1 DEF IsBuild, BuildFields, SameRun
    <2>5. gen' = Cleanup(Free(g, t, {NavData}), t)
      BY DEF WriteTile
    <2> HIDE DEF g
    <2>6. /\ IsBuild(gen') /\ SameRun(g, gen') /\ Leaves(g, gen', t)
          /\ gen'.misfreed = FALSE /\ gen'.unmerged = g.unmerged /\ gen'.fresh = g.fresh
          /\ gen'.leaked = g.leaked
      BY <2>1, <2>2, <2>3, <2>4, <2>5, <1>TileFreed, Zenon
    <2>7. SameRun(gen, gen')
      BY <2>4, <2>6 DEF SameRun
    <2>8. Leaves(gen, gen', t)
      BY <2>4, <2>6 DEF Leaves
    <2>9. \E state \in FileStates :
                   mmaps' = [mmaps EXCEPT !.tiles[<<gen.map, t>>].state = state]
      BY Zenon DEF WriteTile, FileStates
    <2> QED
      BY <2>1, <2>4, <2>6, <2>7, <2>8, <2>9, Zenon DEF Sound
  <1>file. WriteTile(tile) => gen.busy[tile].file
    BY Zenon DEF WriteTile
  <1> QED
    BY <1>SubTileEffect, <1>MergeEffect, <1>CreateEffect, <1>WriteEffect, <1>file, Zenon DEF Worker

-----------------------------------------------------------------------------
(* What the other steps do to the run *)

LEMMA IdleFields ==
    ASSUME NEW how
    PROVE  LET g == IdleBuild(how)
           IN  /\ IsBuild(g) /\ g.phase = how /\ DOMAIN g.tiles = {} /\ g.todo = {}
               /\ g.all = FALSE /\ DOMAIN g.busy = {} /\ g.fresh = {} /\ g.tried = {}
               /\ g.unwritten = {} /\ g.misfreed = FALSE /\ g.leaked = {} /\ g.unmerged = {}
  <1>1. IsBuild(IdleBuild(how))
    BY Zenon DEF IsBuild, IdleBuild, BuildFields
  <1> DEFINE g == IdleBuild(how)
  <1>2. /\ g.phase = how /\ g.tiles = <<>> /\ g.todo = {} /\ g.busy = <<>> /\ g.fresh = {}
        /\ g.tried = {} /\ g.unwritten = {} /\ g.leaked = {} /\ g.unmerged = {}
    BY DEF IdleBuild
  <1>3. g.all = FALSE /\ g.misfreed = FALSE
    BY DEF IdleBuild
  <1>4. DOMAIN <<>> = {}
    OBVIOUS
  <1> HIDE DEF g
  <1> QED
    BY <1>1, <1>2, <1>3, <1>4, Zenon DEF g

\* A run that has neither worked nor written yet.
Blank(g) ==
    /\ IsBuild(g) /\ DOMAIN g.busy = {} /\ g.fresh = {} /\ g.tried = {} /\ g.unwritten = {}
    /\ g.misfreed = FALSE /\ g.leaked = {}

\* A run without input, or that was cut short.
Void(g) == Blank(g) /\ g.phase \notin {"maps", "tiles"} /\ DOMAIN g.tiles = {} /\ g.todo = {}

LEMMA StartEffect ==
    ASSUME NEW args, StartBuild(args)
    PROVE  \/ Void(gen') /\ mmaps' = mmaps
           \/ /\ Void(gen')
              /\ mmaps = None /\ mmaps' = [params |-> <<>>, tiles |-> <<>>]
           \/ /\ Blank(gen') /\ gen'.phase = "maps" /\ maps # None /\ vmaps # None
              /\ gen'.tiles = discover_tiles /\ gen'.single = args.tile
              /\ gen'.all = (args.tile = None /\ args.ids = <<>>)
              /\ gen'.todo = IF args.tile # None THEN {<<1, args.ids[1]>>}
                             ELSE {p \in InOrder(args.ids) : p[2] \notin SkippedMaps}
              /\ \/ mmaps # None /\ mmaps' = mmaps
                 \/ mmaps' = [params |-> <<>>, tiles |-> <<>>]
  <1>1. \A how \in {"failed"} : Void(IdleBuild(how))
    BY IdleFields, Zenon DEF Void, Blank
  <1>2. CASE gen' = IdleBuild("failed")
    BY <1>1, <1>2 DEF StartBuild
  <1>3. CASE gen' # IdleBuild("failed")
    <2> DEFINE todo == IF args.tile # None THEN {<<1, args.ids[1]>>}
                       ELSE {p \in InOrder(args.ids) : p[2] \notin SkippedMaps}
               all == args.tile = None /\ args.ids = <<>>
    <2>1. gen' = [IdleBuild("maps") EXCEPT !.tiles = discover_tiles, !.single = args.tile,
                                           !.all = all, !.todo = todo]
          /\ maps # None /\ vmaps # None
          /\ mmaps' = IF mmaps = None THEN [params |-> <<>>, tiles |-> <<>>] ELSE mmaps
      BY <1>3 DEF StartBuild
    <2> HIDE DEF todo, all
    <2> DEFINE g == IdleBuild("maps")
    <2>2. IsBuild(g) /\ g.phase = "maps" /\ DOMAIN g.busy = {} /\ g.fresh = {} /\ g.tried = {}
          /\ g.unwritten = {} /\ g.misfreed = FALSE /\ g.leaked = {}
      BY IdleFields, Zenon
    <2> HIDE DEF g
    <2>3. gen' = [g EXCEPT !.tiles = discover_tiles, !.single = args.tile,
                           !.all = all, !.todo = todo]
      BY <2>1 DEF g
    <2>4. IsBuild(gen')
      BY <2>2, <2>3, Zenon DEF IsBuild
    <2>5. /\ gen'.phase = g.phase /\ gen'.busy = g.busy /\ gen'.fresh = g.fresh
          /\ gen'.tried = g.tried /\ gen'.unwritten = g.unwritten /\ gen'.misfreed = g.misfreed
          /\ gen'.leaked = g.leaked
          /\ gen'.tiles = discover_tiles /\ gen'.single = args.tile /\ gen'.todo = todo
      BY <2>2, <2>3 DEF IsBuild, BuildFields
    <2>6. gen'.all = all
      BY <2>2, <2>3 DEF IsBuild, BuildFields
    <2> QED
      BY <2>1, <2>2, <2>4, <2>5, <2>6 DEF Blank, todo, all
  <1> QED
    BY <1>2, <1>3

(* The next map of the run: it has no tiles, its parameters are not written, *)
(* or they are and its workers start.                                        *)
LEMMA NextBuildEffect ==
    ASSUME IsBuild(gen), NextBuild
    PROVE  \E p \in gen.todo :
             LET id    == p[2]
                 tiles == IF id \in DOMAIN gen.tiles THEN gen.tiles[id] ELSE {}
             IN  /\ gen.phase = "maps"
                 /\ IsBuild(gen') /\ gen'.todo = gen.todo \ {p}
                 /\ gen'.tiles = gen.tiles /\ gen'.all = gen.all /\ gen'.single = gen.single
                 /\ gen'.busy = gen.busy /\ gen'.fresh = gen.fresh /\ gen'.tried = gen.tried
                 /\ gen'.misfreed = gen.misfreed /\ gen'.leaked = gen.leaked
                 /\ gen'.unmerged = gen.unmerged
                 /\ \/ /\ tiles = {} /\ gen'.phase = "maps" /\ gen'.unwritten = gen.unwritten
                       /\ mmaps' = mmaps
                    \/ /\ gen'.phase = "maps" /\ gen'.unwritten = gen.unwritten \cup {id}
                       /\ mmaps' \in {mmaps, [mmaps EXCEPT !.params = Put(@, id, None)]}
                    \/ /\ tiles # {} /\ gen'.phase = "tiles" /\ gen'.map = id
                       /\ gen'.orig = build_nav_mesh(tiles).orig
                       /\ gen'.left = IF gen.single = None THEN tiles ELSE {gen.single}
                       /\ gen'.unwritten = gen.unwritten /\ gen'.limit \in {1, Threads}
                       /\ mmaps' = [mmaps EXCEPT !.params = Put(@, id, build_nav_mesh(tiles))]
  <1>1. PICK p \in gen.todo :
          LET id    == p[2]
              rest  == [gen EXCEPT !.todo = @ \ {p}]
              tiles == IF id \in DOMAIN gen.tiles THEN gen.tiles[id] ELSE {}
              nav   == build_nav_mesh(tiles)
          IN  IF tiles = {} THEN gen' = rest /\ UNCHANGED mmaps
              ELSE \/ /\ gen' = [rest EXCEPT !.unwritten = @ \cup {id}]
                      /\ mmaps' \in {mmaps, [mmaps EXCEPT !.params = Put(@, id, None)]}
                   \/ \E limit \in {1, Threads} :
                         /\ mmaps' = [mmaps EXCEPT !.params = Put(@, id, nav)]
                         /\ gen' = [rest EXCEPT
                                      !.phase = "tiles", !.map = id, !.orig = nav.orig,
                                      !.left = IF gen.single = None THEN tiles
                                               ELSE {gen.single},
                                      !.limit = limit]
    BY Zenon DEF NextBuild
  <1> DEFINE id    == p[2]
             rest  == [gen EXCEPT !.todo = @ \ {p}]
             tiles == IF id \in DOMAIN gen.tiles THEN gen.tiles[id] ELSE {}
             nav   == build_nav_mesh(tiles)
             left  == IF gen.single = None THEN tiles ELSE {gen.single}
  <1>2. gen.phase = "maps"
    BY DEF NextBuild
  <1>3. IsBuild(rest)
    BY DEF IsBuild
  <1>4. /\ rest.todo = gen.todo \ {p} /\ rest.phase = gen.phase
        /\ rest.tiles = gen.tiles /\ rest.all = gen.all /\ rest.single = gen.single
        /\ rest.busy = gen.busy /\ rest.fresh = gen.fresh /\ rest.tried = gen.tried
        /\ rest.misfreed = gen.misfreed /\ rest.leaked = gen.leaked
        /\ rest.unmerged = gen.unmerged /\ rest.unwritten = gen.unwritten
    BY DEF IsBuild, BuildFields
  <1>5. \/ tiles = {} /\ gen' = rest /\ mmaps' = mmaps
        \/ /\ gen' = [rest EXCEPT !.unwritten = @ \cup {id}]
           /\ mmaps' \in {mmaps, [mmaps EXCEPT !.params = Put(@, id, None)]}
        \/ /\ tiles # {}
           /\ mmaps' = [mmaps EXCEPT !.params = Put(@, id, nav)]
           /\ \E limit \in {1, Threads} :
                 gen' = [rest EXCEPT !.phase = "tiles", !.map = id, !.orig = nav.orig,
                                     !.left = left, !.limit = limit]
    BY <1>1, Zenon
  <1> HIDE DEF rest, id, tiles, nav, left
  <1>6. CASE tiles = {} /\ gen' = rest /\ mmaps' = mmaps
    BY <1>2, <1>3, <1>4, <1>6 DEF id, tiles
  <1>7. CASE /\ gen' = [rest EXCEPT !.unwritten = @ \cup {id}]
             /\ mmaps' \in {mmaps, [mmaps EXCEPT !.params = Put(@, id, None)]}
    <2>1. IsBuild(gen')
      BY <1>3, <1>7 DEF IsBuild
    <2>2. /\ gen'.todo = rest.todo /\ gen'.phase = rest.phase
          /\ gen'.tiles = rest.tiles /\ gen'.all = rest.all /\ gen'.single = rest.single
          /\ gen'.busy = rest.busy /\ gen'.fresh = rest.fresh /\ gen'.tried = rest.tried
          /\ gen'.misfreed = rest.misfreed /\ gen'.leaked = rest.leaked
          /\ gen'.unmerged = rest.unmerged /\ gen'.unwritten = rest.unwritten \cup {id}
      BY <1>3, <1>7 DEF IsBuild, BuildFields
    <2> QED
      BY <1>2, <1>4, <1>7, <2>1, <2>2 DEF id, tiles
  <1>8. CASE /\ tiles # {}
             /\ mmaps' = [mmaps EXCEPT !.params = Put(@, id, nav)]
             /\ \E limit \in {1, Threads} :
                   gen' = [rest EXCEPT !.phase = "tiles", !.map = id, !.orig = nav.orig,
                                       !.left = left, !.limit = limit]
    <2>0. PICK limit \in {1, Threads} :
             gen' = [rest EXCEPT !.phase = "tiles", !.map = id, !.orig = nav.orig,
                                 !.left = left, !.limit = limit]
      BY <1>8, Zenon
    <2>1. IsBuild(gen')
      BY <1>3, <2>0, Zenon DEF IsBuild
    <2>2. /\ gen'.todo = rest.todo /\ gen'.phase = "tiles" /\ gen'.map = id
          /\ gen'.orig = nav.orig /\ gen'.left = left /\ gen'.limit = limit
          /\ gen'.tiles = rest.tiles /\ gen'.all = rest.all /\ gen'.single = rest.single
          /\ gen'.busy = rest.busy /\ gen'.fresh = rest.fresh /\ gen'.tried = rest.tried
          /\ gen'.misfreed = rest.misfreed /\ gen'.leaked = rest.leaked
          /\ gen'.unmerged = rest.unmerged /\ gen'.unwritten = rest.unwritten
      BY <1>3, <2>0 DEF IsBuild, BuildFields
    <2>3. gen'.limit \in {1, Threads}
      BY <2>2
    <2>4. gen'.todo = gen.todo \ {p} /\ gen.phase = "maps"
      BY <1>2, <1>4, <2>2
    <2>5. /\ gen'.tiles = gen.tiles /\ gen'.all = gen.all /\ gen'.single = gen.single
          /\ gen'.busy = gen.busy /\ gen'.fresh = gen.fresh /\ gen'.tried = gen.tried
          /\ gen'.misfreed = gen.misfreed /\ gen'.leaked = gen.leaked
          /\ gen'.unmerged = gen.unmerged /\ gen'.unwritten = gen.unwritten
      BY <1>4, <2>2
    <2>6. tiles # {} /\ mmaps' = [mmaps EXCEPT !.params = Put(@, id, nav)]
      BY <1>8, Zenon
    <2> QED
      BY <2>1, <2>2, <2>3, <2>4, <2>5, <2>6, Zenon DEF id, tiles, nav, left
  <1> QED
    BY <1>5, <1>6, <1>7, <1>8, Zenon

LEMMA TakeEffect ==
    ASSUME IsBuild(gen), NEW t, TakeTile(t)
    PROVE  /\ gen.phase = "tiles" /\ t \in gen.left /\ mmaps' = mmaps
           /\ IsBuild(gen') /\ gen'.left = gen.left \ {t}
           /\ gen'.tried = gen.tried \cup {<<gen.map, t>>}
           /\ gen'.phase = gen.phase /\ gen'.tiles = gen.tiles /\ gen'.todo = gen.todo
           /\ gen'.map = gen.map /\ gen'.orig = gen.orig /\ gen'.single = gen.single
           /\ gen'.all = gen.all /\ gen'.fresh = gen.fresh /\ gen'.unwritten = gen.unwritten
           /\ gen'.misfreed = gen.misfreed /\ gen'.leaked = gen.leaked
           /\ gen'.unmerged = gen.unmerged /\ gen'.limit = gen.limit
           /\ Cardinality(DOMAIN gen.busy) < gen.limit
           /\ gen'.busy \in {gen.busy,
                             Put(gen.busy, t, [k |-> 1, file |-> FALSE, held |-> {Ctx}])}
  <1> DEFINE new == Put(gen.busy, t, [k |-> 1, file |-> FALSE, held |-> {Ctx}])
             left == gen.left \ {t}
             tried == gen.tried \cup {<<gen.map, t>>}
  <1>1. /\ gen.phase = "tiles" /\ t \in gen.left /\ mmaps' = mmaps
        /\ Cardinality(DOMAIN gen.busy) < gen.limit
    BY DEF TakeTile
  <1>2. \/ gen' = [gen EXCEPT !.left = left, !.tried = tried]
        \/ gen' = [gen EXCEPT !.left = left, !.tried = tried, !.busy = new]
    BY DEF TakeTile, IsBuild, BuildFields
  <1> HIDE DEF new, left, tried
  <1>3. IsBuild(gen')
    BY <1>2, Zenon DEF IsBuild
  <1>4. /\ gen'.left = left /\ gen'.tried = tried
        /\ gen'.phase = gen.phase /\ gen'.tiles = gen.tiles /\ gen'.todo = gen.todo
        /\ gen'.map = gen.map /\ gen'.orig = gen.orig /\ gen'.single = gen.single
        /\ gen'.all = gen.all /\ gen'.fresh = gen.fresh /\ gen'.unwritten = gen.unwritten
        /\ gen'.misfreed = gen.misfreed /\ gen'.leaked = gen.leaked
        /\ gen'.unmerged = gen.unmerged /\ gen'.busy \in {gen.busy, new}
        /\ gen'.limit = gen.limit
    BY <1>2, ZenonT(40) DEF IsBuild, BuildFields
  <1> QED
    BY <1>1, <1>3, <1>4, Zenon DEF new, left, tried

(* The end of a map, and of the run. *)
LEMMA PhaseEffect ==
    ASSUME IsBuild(gen), MapBuilt \/ BuildDone
    PROVE  /\ IsBuild(gen') /\ mmaps' = mmaps
           /\ \/ gen.phase = "tiles" /\ gen.left = {} /\ gen'.phase = "maps"
              \/ gen.phase = "maps" /\ gen'.phase = "done"
           /\ gen'.busy = gen.busy /\ (gen.phase = "tiles" => DOMAIN gen.busy = {})
           /\ gen'.tiles = gen.tiles /\ gen'.todo = gen.todo /\ gen'.single = gen.single
           /\ gen'.all = gen.all /\ gen'.fresh = gen.fresh /\ gen'.tried = gen.tried
           /\ gen'.unwritten = gen.unwritten /\ gen'.misfreed = gen.misfreed
           /\ gen'.leaked = gen.leaked /\ gen'.unmerged = gen.unmerged
  <1>1. PICK to \in {"maps", "done"} : gen' = [gen EXCEPT !.phase = to]
    BY DEF MapBuilt, BuildDone
  <1>2. IsBuild(gen')
    BY <1>1 DEF IsBuild
  <1>3. /\ gen'.busy = gen.busy
        /\ gen'.tiles = gen.tiles /\ gen'.todo = gen.todo /\ gen'.single = gen.single
        /\ gen'.all = gen.all /\ gen'.fresh = gen.fresh /\ gen'.tried = gen.tried
        /\ gen'.unwritten = gen.unwritten /\ gen'.misfreed = gen.misfreed
        /\ gen'.leaked = gen.leaked /\ gen'.unmerged = gen.unmerged
    BY <1>1 DEF IsBuild, BuildFields
  <1>4. /\ \/ gen.phase = "tiles" /\ gen.left = {} /\ gen'.phase = "maps"
           \/ gen.phase = "maps" /\ gen'.phase = "done"
        /\ mmaps' = mmaps /\ (gen.phase = "tiles" => DOMAIN gen.busy = {})
    BY DEF MapBuilt, BuildDone, IsBuild, BuildFields
  <1> QED
    BY <1>2, <1>3, <1>4

LEMMA KillEffect ==
    ASSUME KillBuild
    PROVE  Void(gen') /\ mmaps' = mmaps
  <1>1. \A how \in {"stopped"} : Void(IdleBuild(how))
    BY IdleFields, Zenon DEF Void, Blank
  <1> QED
    BY <1>1 DEF KillBuild

-----------------------------------------------------------------------------
(* What the workers hold *)

\* A step of the generator, started with a command line of A, or none of it.
Runs(A) ==
    \/ UNCHANGED buildVars
    \/ \E args \in A : StartBuild(args)
    \/ NextBuild \/ MapBuilt \/ BuildDone \/ KillBuild
    \/ \E t \in gen.left : TakeTile(t)
    \/ \E t \in DOMAIN gen.busy : Worker(t)

LEMMA HoldNext ==
    ASSUME HoldInv, NEW A, Runs(A)
    PROVE  HoldInv'
  <1>WorkerStep.
      ASSUME NEW t \in DOMAIN gen.busy, Worker(t)
      PROVE  HoldInv'
    <2> USE <1>WorkerStep
    <2>1. Sound /\ \/ \E file : GoesOn(t, file)
                   \/ Leaves(gen, gen', t)
      BY WorkerEffect, Zenon
    <2>2. CASE \E file : GoesOn(t, file)
      <3>1. PICK w \in Workers : Holding(w) /\ WorksOn(gen, gen', t, w)
        BY <2>2 DEF GoesOn
      <3>2. \A u \in DOMAIN gen'.busy : gen'.busy[u] \in Workers /\ Holding(gen'.busy[u])
        BY <3>1 DEF WorksOn, HoldInv
      <3> QED
        BY <2>1, <3>2 DEF HoldInv, Sound
    <2>3. CASE Leaves(gen, gen', t)
      <3>1. \A u \in DOMAIN gen'.busy : gen'.busy[u] \in Workers /\ Holding(gen'.busy[u])
        BY <2>3 DEF Leaves, HoldInv
      <3> QED
        BY <2>1, <3>1 DEF HoldInv, Sound
    <2> QED
      BY <2>1, <2>2, <2>3
  <1>1. CASE UNCHANGED buildVars
    BY <1>1 DEF HoldInv, buildVars
  <1>2. ASSUME NEW args, StartBuild(args)
        PROVE  HoldInv'
    BY <1>2, StartEffect, Zenon DEF HoldInv, Void, Blank
  <1>3. CASE NextBuild
    BY <1>3, NextBuildEffect DEF HoldInv
  <1>4. CASE MapBuilt \/ BuildDone
    BY <1>4, PhaseEffect DEF HoldInv
  <1>5. ASSUME NEW t, TakeTile(t)
        PROVE  HoldInv'
    <2> DEFINE new == [k |-> 1, file |-> FALSE, held |-> {Ctx}]
    <2>1. new \in Workers
      BY PartsAssumption, Kinds DEF Workers
    <2>2. Holding(new)
      BY PartsAssumption DEF Holding
    <2> HIDE DEF new
    <2>3. /\ IsBuild(gen') /\ gen'.misfreed = gen.misfreed /\ gen'.leaked = gen.leaked
          /\ gen'.unmerged = gen.unmerged /\ gen'.busy \in {gen.busy, Put(gen.busy, t, new)}
      BY <1>5, TakeEffect, Zenon DEF HoldInv, new
    <2>4. \A u \in DOMAIN gen'.busy : gen'.busy[u] \in {gen.busy[u], new}
                                      /\ (gen'.busy[u] # new => u \in DOMAIN gen.busy)
      BY <2>3 DEF Put
    <2>5. \A u \in DOMAIN gen'.busy : gen'.busy[u] \in Workers /\ Holding(gen'.busy[u])
      BY <2>1, <2>2, <2>4 DEF HoldInv
    <2> QED
      BY <2>3, <2>5 DEF HoldInv
  <1>6. ASSUME NEW t \in DOMAIN gen.busy, Worker(t)
        PROVE  HoldInv'
    BY <1>6, <1>WorkerStep
  <1>7. CASE KillBuild
    BY <1>7, KillEffect, Zenon DEF HoldInv, Void, Blank
  <1> QED
    BY <1>1, <1>2, <1>3, <1>4, <1>5, <1>6, <1>7 DEF Runs

(* A run goes on, or starts. *)
LEMMA BuildingBefore ==
    ASSUME HoldInv, NEW A, Runs(A), Building', ~Building
    PROVE  \E args \in A : StartBuild(args)
  <1>1. gen.phase \notin {"maps", "tiles"}
    BY DEF Building
  <1>2. ~UNCHANGED buildVars
    BY DEF buildVars, Building
  <1>3. ~(NextBuild \/ MapBuilt \/ BuildDone \/ KillBuild) /\ ~\E t \in gen.left : TakeTile(t)
    BY <1>1, Zenon DEF NextBuild, MapBuilt, BuildDone, KillBuild, TakeTile, Building
  <1>4. ASSUME NEW t \in DOMAIN gen.busy, Worker(t)
        PROVE  FALSE
    <2>1. Sound
      BY <1>4, WorkerEffect, Zenon
    <2> QED
      BY <1>1, <2>1 DEF Sound, SameRun, Building
  <1> QED
    BY <1>2, <1>3, <1>4 DEF Runs
-----------------------------------------------------------------------------
(* No terrain tile is passed over *)

LEMMA PoolNext ==
    ASSUME HoldInv, PoolInv, NEW A, Runs(A)
    PROVE  PoolInv'
  <1>0. IsBuild(gen)
    BY DEF HoldInv
  <1>1. CASE UNCHANGED buildVars
    BY <1>1 DEF PoolInv, buildVars
  <1>2. ASSUME NEW args, StartBuild(args)
        PROVE  PoolInv'
    BY <1>2, StartEffect, Zenon DEF PoolInv, Void, Blank
  <1>3. CASE NextBuild
    BY <1>0, <1>3, NextBuildEffect DEF PoolInv
  <1>4. CASE MapBuilt \/ BuildDone
    BY <1>0, <1>4, PhaseEffect DEF PoolInv
  <1>5. ASSUME NEW t, TakeTile(t)
        PROVE  PoolInv'
    BY <1>0, <1>5, TakeEffect, Zenon DEF PoolInv
  <1>6. ASSUME NEW t \in DOMAIN gen.busy, Worker(t)
        PROVE  PoolInv'
    <2>1. Sound
      BY <1>6, WorkerEffect, Zenon
    <2> QED
      BY <1>6, <2>1 DEF PoolInv, Sound, SameRun
  <1>7. CASE KillBuild
    BY <1>7, KillEffect DEF PoolInv, Void, Blank
  <1> QED
    BY <1>1, <1>2, <1>3, <1>4, <1>5, <1>6, <1>7 DEF Runs

LEMMA TryNext ==
    ASSUME HoldInv, TryInv, NEW A, Runs(A), maps' = maps,
           maps # None => DOMAIN maps \subseteq TileKeys
    PROVE  TryInv'
  <1> SUFFICES ASSUME gen'.all, Building' PROVE TryInv'
    BY DEF TryInv
  <1>0. IsBuild(gen)
    BY DEF HoldInv
  <1>1. CASE UNCHANGED buildVars
    <2>1. gen' = gen /\ Building
      BY <1>1 DEF buildVars, Building
    <2> QED
      BY <2>1 DEF TryInv
  <1>2. ASSUME NEW args, StartBuild(args)
        PROVE  TryInv'
    <2>1. /\ maps # None /\ gen'.tiles = discover_tiles /\ gen'.single = args.tile
          /\ gen'.all = (args.tile = None /\ args.ids = <<>>)
          /\ gen'.todo = IF args.tile # None THEN {<<1, args.ids[1]>>}
                         ELSE {p \in InOrder(args.ids) : p[2] \notin SkippedMaps}
      BY <1>2, StartEffect, Zenon DEF Void, Building
    <2>2. args.tile = None /\ args.ids = <<>>
      BY <2>1, Zenon
    <2>3. gen'.todo = {p \in {<<id, id>> : id \in DOMAIN gen'.tiles} : p[2] \notin SkippedMaps}
      BY <2>1, <2>2 DEF InOrder
    <2>4. \A id \in DOMAIN gen'.tiles \ SkippedMaps : \E p \in gen'.todo : p[2] = id
      <3> SUFFICES ASSUME NEW id \in DOMAIN gen'.tiles \ SkippedMaps
                   PROVE  \E p \in gen'.todo : p[2] = id
        OBVIOUS
      <3>1. <<id, id>> \in gen'.todo
        BY <2>3
      <3> QED
        BY <3>1
    <2>5. \A k \in DOMAIN maps' : k[1] \in DOMAIN gen'.tiles /\ k[2] \in gen'.tiles[k[1]]
      BY <1>2, <2>1, TilesFound
    <2> QED
      BY <1>2, <2>1, <2>2, <2>4, <2>5 DEF TryInv
  <1>3. CASE NextBuild
    <2>1. PICK p \in gen.todo :
            LET id    == p[2]
                tiles == IF id \in DOMAIN gen.tiles THEN gen.tiles[id] ELSE {}
            IN  /\ gen.phase = "maps" /\ gen'.todo = gen.todo \ {p}
                /\ gen'.tiles = gen.tiles /\ gen'.all = gen.all /\ gen'.single = gen.single
                /\ gen'.tried = gen.tried
                /\ \/ tiles = {} /\ gen'.unwritten = gen.unwritten
                   \/ gen'.unwritten = gen.unwritten \cup {id}
                   \/ /\ gen'.phase = "tiles" /\ gen'.map = id
                      /\ gen'.left = IF gen.single = None THEN tiles ELSE {gen.single}
                      /\ gen'.unwritten = gen.unwritten
      BY <1>0, <1>3, NextBuildEffect, Zenon
    <2> DEFINE Done(id) == \A t \in gen'.tiles[id] :
                  <<id, t>> \in gen'.tried
                     \/ (gen'.phase = "tiles" /\ gen'.map = id /\ t \in gen'.left)
    <2>2. gen.all /\ Building
      BY <2>1 DEF Building
    <2>3. gen'.single = None /\ maps' # None
          /\ \A k \in DOMAIN maps' : k[1] \in DOMAIN gen'.tiles /\ k[2] \in gen'.tiles[k[1]]
      BY <1>3, <2>1, <2>2 DEF TryInv
    <2>4. ASSUME NEW id \in DOMAIN gen'.tiles \ SkippedMaps
          PROVE  (\E q \in gen'.todo : q[2] = id) \/ id \in gen'.unwritten \/ Done(id)
      <3>1. \/ \E q \in gen.todo : q[2] = id
            \/ id \in gen.unwritten
            \/ \A t \in gen.tiles[id] : <<id, t>> \in gen.tried
        BY <2>1, <2>2, <2>4 DEF TryInv
      <3>2. CASE id = p[2]
        BY <2>1, <2>3, <2>4, <3>2
      <3>3. CASE id # p[2]
        BY <2>1, <3>1, <3>3
      <3> QED
        BY <3>2, <3>3
    <2> QED
      BY <2>3, <2>4 DEF TryInv
  <1>4. CASE MapBuilt \/ BuildDone
    <2>1. /\ \/ gen.phase = "tiles" /\ gen.left = {} /\ gen'.phase = "maps"
             \/ gen.phase = "maps" /\ gen'.phase = "done"
          /\ gen'.tiles = gen.tiles /\ gen'.todo = gen.todo /\ gen'.single = gen.single
          /\ gen'.all = gen.all /\ gen'.tried = gen.tried /\ gen'.unwritten = gen.unwritten
      BY <1>0, <1>4, PhaseEffect, Zenon
    <2>2. gen.all /\ Building
      BY <2>1 DEF Building
    <2> QED
      BY <1>4, <2>1, <2>2 DEF TryInv
  <1>5. ASSUME NEW t, TakeTile(t)
        PROVE  TryInv'
    <2>1. /\ gen.phase = "tiles" /\ gen'.left = gen.left \ {t}
          /\ gen'.tried = gen.tried \cup {<<gen.map, t>>}
          /\ gen'.phase = gen.phase /\ gen'.tiles = gen.tiles /\ gen'.todo = gen.todo
          /\ gen'.map = gen.map /\ gen'.single = gen.single
          /\ gen'.all = gen.all /\ gen'.unwritten = gen.unwritten
      BY <1>0, <1>5, TakeEffect, Zenon
    <2>2. gen.all /\ Building
      BY <2>1 DEF Building
    <2> QED
      BY <1>5, <2>1, <2>2 DEF TryInv
  <1>6. ASSUME NEW t \in DOMAIN gen.busy, Worker(t)
        PROVE  TryInv'
    <2>1. Sound
      BY <1>6, WorkerEffect, Zenon
    <2>2. /\ Building /\ gen.all /\ gen'.single = gen.single /\ gen'.tiles = gen.tiles
          /\ gen'.todo = gen.todo /\ gen'.unwritten = gen.unwritten /\ gen'.tried = gen.tried
          /\ gen'.phase = gen.phase /\ gen'.map = gen.map /\ gen'.left = gen.left
      BY <2>1 DEF Sound, SameRun, Building
    <2> QED
      BY <1>6, <2>2 DEF TryInv
  <1>7. CASE KillBuild
    BY <1>7, KillEffect DEF Void, Building
  <1> QED
    BY <1>1, <1>2, <1>3, <1>4, <1>5, <1>6, <1>7 DEF Runs
-----------------------------------------------------------------------------
(* The files of a run *)

LEMMA OutputFields ==
    ASSUME NEW d, IsOutput(d), NEW v
    PROVE  /\ IsOutput([d EXCEPT !.params = v]) /\ [d EXCEPT !.params = v].params = v
           /\ [d EXCEPT !.params = v].tiles = d.tiles
           /\ IsOutput([d EXCEPT !.tiles = v]) /\ [d EXCEPT !.tiles = v].tiles = v
           /\ [d EXCEPT !.tiles = v].params = d.params
  BY DEF IsOutput

LEMMA TilesNext ==
    ASSUME HoldInv, TilesInv, NEW A, Runs(A),
           maps # None => DOMAIN maps \subseteq TileKeys
    PROVE  TilesInv'
  <1>0. IsBuild(gen)
    BY DEF HoldInv
  <1>1. CASE gen'.tiles = gen.tiles
    BY <1>1 DEF TilesInv
  <1>2. ASSUME NEW args, StartBuild(args)
        PROVE  TilesInv'
    <2>1. DOMAIN gen'.tiles = {} \/ (maps # None /\ gen'.tiles = discover_tiles)
      BY <1>2, StartEffect, Zenon DEF Void
    <2> QED
      BY <2>1, TilesFound DEF TilesInv
  <1>3. CASE NextBuild
    BY <1>0, <1>1, <1>3, NextBuildEffect
  <1>4. CASE MapBuilt \/ BuildDone
    BY <1>0, <1>1, <1>4, PhaseEffect
  <1>5. ASSUME NEW t, TakeTile(t)
        PROVE  TilesInv'
    BY <1>0, <1>1, <1>5, TakeEffect
  <1>6. ASSUME NEW t \in DOMAIN gen.busy, Worker(t)
        PROVE  TilesInv'
    <2>1. Sound
      BY <1>6, WorkerEffect, Zenon
    <2> QED
      BY <1>1, <2>1 DEF Sound, SameRun
  <1>7. CASE KillBuild
    BY <1>7, KillEffect DEF TilesInv, Void
  <1>8. CASE UNCHANGED buildVars
    BY <1>1, <1>8 DEF buildVars
  <1> QED
    BY <1>2, <1>3, <1>4, <1>5, <1>6, <1>7, <1>8 DEF Runs

\* The run keeps its maps, and the output directory its parameters and files.
Keeps == /\ gen'.tiles = gen.tiles /\ gen'.todo \subseteq gen.todo
         /\ mmaps'.params = mmaps.params /\ mmaps'.tiles = mmaps.tiles

LEMMA OutputNext ==
    ASSUME HoldInv, PoolInv, OutputInv, NEW A, Runs(A)
    PROVE  OutputInv'
  <1>0. IsBuild(gen)
    BY DEF HoldInv
  <1>1. CASE UNCHANGED buildVars
    BY <1>1 DEF OutputInv, Building, buildVars
  <1>2. ASSUME NEW args, StartBuild(args)
        PROVE  OutputInv'
    <2>1. IsOutput([params |-> <<>>, tiles |-> <<>>])
      BY DEF IsOutput
    <2>2. CASE mmaps' = [params |-> <<>>, tiles |-> <<>>]
      BY <2>1, <2>2 DEF OutputInv
    <2>3. CASE mmaps' = mmaps /\ mmaps # None
      BY <2>3 DEF OutputInv
    <2>4. CASE mmaps' = mmaps /\ Void(gen')
      BY <2>4 DEF OutputInv, Void, Blank, Building
    <2> QED
      BY <1>2, <2>2, <2>3, <2>4, StartEffect, Zenon
  <1>3. CASE IsOutput(mmaps')
    BY <1>3 DEF OutputInv
  <1>4. CASE NextBuild
    <2>1. IsOutput(mmaps)
      BY <1>4 DEF NextBuild, OutputInv, Building
    <2>2. PICK v : mmaps' \in {mmaps, [mmaps EXCEPT !.params = v]}
      BY <1>0, <1>4, NextBuildEffect
    <2>3. IsOutput([mmaps EXCEPT !.params = v])
      BY <2>1, OutputFields, Zenon
    <2> QED
      BY <1>3, <2>1, <2>2, <2>3
  <1>5. CASE MapBuilt \/ BuildDone
    BY <1>0, <1>3, <1>5, PhaseEffect, Zenon DEF OutputInv, Building
  <1>6. ASSUME NEW t, TakeTile(t)
        PROVE  OutputInv'
    BY <1>0, <1>3, <1>6, TakeEffect, Zenon DEF OutputInv, Building
  <1>7. ASSUME NEW t \in DOMAIN gen.busy, Worker(t)
        PROVE  OutputInv'
    <2>1. IsOutput(mmaps)
      BY <1>7 DEF PoolInv, OutputInv, Building
    <2>2. PICK v : mmaps' \in {mmaps, [mmaps EXCEPT !.tiles = v]}
      BY <1>7, WorkerEffect, Zenon
    <2>3. IsOutput([mmaps EXCEPT !.tiles = v])
      BY <2>1, OutputFields, Zenon
    <2> QED
      BY <1>3, <2>1, <2>2, <2>3
  <1>8. CASE KillBuild
    BY <1>8, KillEffect DEF OutputInv, Void, Blank, Building
  <1> QED
    BY <1>1, <1>2, <1>4, <1>5, <1>6, <1>7, <1>8 DEF Runs

(* The pool runs no more workers than it has threads. *)
LEMMA ThreadsNext ==
    ASSUME PoolFacts, HoldInv, PoolInv, ThreadsInv, NEW A, Runs(A)
    PROVE  ThreadsInv'
  <1>WorkersInPool.
      ASSUME NEW busy, IsFiniteSet(busy), NEW limit \in {1, Threads}, NEW t
      PROVE  /\ Cardinality({}) <= limit
             /\ Cardinality(busy) < limit =>
                   IsFiniteSet(busy \cup {t}) /\ Cardinality(busy \cup {t}) <= limit
             /\ Cardinality(busy) <= limit =>
                   IsFiniteSet(busy \ {t}) /\ Cardinality(busy \ {t}) <= limit
    <2> USE <1>WorkersInPool
    <2>1. limit \in Nat
      BY ThreadsAssumption
    <2>2. /\ Cardinality(busy) \in Nat /\ Cardinality({}) = 0
          /\ IsFiniteSet(busy \cup {t}) /\ IsFiniteSet(busy \ {t})
          /\ Cardinality(busy \cup {t}) \in {Cardinality(busy), Cardinality(busy) + 1}
          /\ Cardinality(busy \ {t}) \in {Cardinality(busy), Cardinality(busy) - 1}
      BY Zenon DEF PoolFacts
    <2> QED
      BY <2>1, <2>2
  <1>0. IsBuild(gen)
    BY DEF HoldInv
  <1>1. CASE UNCHANGED buildVars
    BY <1>1 DEF ThreadsInv, buildVars
  <1>2. ASSUME NEW args, StartBuild(args)
        PROVE  ThreadsInv'
    <2>1. gen'.phase # "tiles"
      BY <1>2, StartEffect, Zenon DEF Void
    <2> QED
      BY <2>1 DEF ThreadsInv
  <1>3. CASE NextBuild
    <2>1. gen'.phase = "tiles" => gen'.limit \in {1, Threads} /\ DOMAIN gen'.busy = {}
      BY <1>0, <1>3, NextBuildEffect DEF PoolInv
    <2>2. IsFiniteSet({}) /\ (gen'.phase = "tiles" => Cardinality({}) <= gen'.limit)
      BY <2>1, <1>WorkersInPool, Zenon DEF PoolFacts
    <2> QED
      BY <2>1, <2>2 DEF ThreadsInv
  <1>4. CASE MapBuilt \/ BuildDone
    BY <1>0, <1>4, PhaseEffect DEF ThreadsInv
  <1>5. ASSUME NEW t, TakeTile(t)
        PROVE  ThreadsInv'
    <2>1. /\ gen.phase = "tiles" /\ gen'.limit = gen.limit
          /\ Cardinality(DOMAIN gen.busy) < gen.limit
          /\ gen'.busy \in {gen.busy, Put(gen.busy, t, [k |-> 1, file |-> FALSE, held |-> {Ctx}])}
      BY <1>0, <1>5, TakeEffect, Zenon
    <2>2. DOMAIN gen'.busy \in {DOMAIN gen.busy, DOMAIN gen.busy \cup {t}}
      BY <2>1 DEF Put
    <2>3. /\ gen.limit \in {1, Threads} /\ IsFiniteSet(DOMAIN gen.busy)
          /\ Cardinality(DOMAIN gen.busy) <= gen.limit
      BY <2>1 DEF ThreadsInv
    <2>4. /\ IsFiniteSet(DOMAIN gen.busy \cup {t})
          /\ Cardinality(DOMAIN gen.busy \cup {t}) <= gen.limit
      BY <2>1, <2>3, <1>WorkersInPool, Zenon
    <2>5. IsFiniteSet(DOMAIN gen'.busy) /\ Cardinality(DOMAIN gen'.busy) <= gen'.limit
      BY <2>1, <2>2, <2>3, <2>4
    <2> QED
      BY <2>1, <2>3, <2>5 DEF ThreadsInv
  <1>6. ASSUME NEW t \in DOMAIN gen.busy, Worker(t)
        PROVE  ThreadsInv'
    <2>1. Sound /\ DOMAIN gen'.busy \in {DOMAIN gen.busy, DOMAIN gen.busy \ {t}}
      BY <1>6, WorkerEffect, Zenon
         DEF Worker, Leaves, GoesOn, WorksOn
    <2>2. gen'.phase = gen.phase /\ gen'.limit = gen.limit /\ gen.phase = "tiles"
      BY <1>6, <2>1 DEF Sound, SameRun, PoolInv
    <2>3. /\ gen.limit \in {1, Threads} /\ IsFiniteSet(DOMAIN gen.busy)
          /\ Cardinality(DOMAIN gen.busy) <= gen.limit
      BY <2>2 DEF ThreadsInv
    <2>4. /\ IsFiniteSet(DOMAIN gen.busy \ {t})
          /\ Cardinality(DOMAIN gen.busy \ {t}) <= gen.limit
      BY <2>3, <1>WorkersInPool, Zenon
    <2>5. IsFiniteSet(DOMAIN gen'.busy) /\ Cardinality(DOMAIN gen'.busy) <= gen'.limit
      BY <2>1, <2>2, <2>3, <2>4
    <2> QED
      BY <2>2, <2>3, <2>5 DEF ThreadsInv
  <1>7. CASE KillBuild
    BY <1>7, KillEffect DEF ThreadsInv, Void, Blank
  <1> QED
    BY <1>1, <1>2, <1>3, <1>4, <1>5, <1>6, <1>7 DEF Runs

(* A tile on disk stays partial or whole. *)
LEMMA StatesNext ==
    ASSUME HoldInv, PoolInv, OutputInv, StatesInv, NEW A, Runs(A)
    PROVE  StatesInv'
  <1>0. IsBuild(gen)
    BY DEF HoldInv
  <1>1. CASE UNCHANGED buildVars
    BY <1>1 DEF StatesInv, Building, buildVars
  <1>2. ASSUME NEW args, StartBuild(args)
        PROVE  StatesInv'
    <2>1. CASE mmaps' = [params |-> <<>>, tiles |-> <<>>]
      BY <2>1 DEF StatesInv
    <2>2. CASE mmaps' = mmaps /\ mmaps # None
      BY <2>2 DEF StatesInv
    <2>3. CASE mmaps' = mmaps /\ Void(gen')
      BY <2>3 DEF StatesInv, Void, Blank, Building
    <2> QED
      BY <1>2, <2>1, <2>2, <2>3, StartEffect, Zenon
  <1>3. CASE (mmaps # None \/ Building \/ gen.fresh # {}) /\ mmaps'.tiles = mmaps.tiles
    BY <1>3 DEF StatesInv
  <1>4. CASE NextBuild
    <2>1. IsOutput(mmaps) /\ Building
      BY <1>4 DEF NextBuild, OutputInv, Building
    <2>2. PICK v : mmaps' \in {mmaps, [mmaps EXCEPT !.params = v]}
      BY <1>0, <1>4, NextBuildEffect
    <2>3. [mmaps EXCEPT !.params = v].tiles = mmaps.tiles
      BY <2>1, OutputFields, Zenon
    <2> QED
      BY <1>3, <2>1, <2>2, <2>3, Zenon
  <1>5. CASE MapBuilt \/ BuildDone
    BY <1>0, <1>3, <1>5, PhaseEffect, SMTT(30) DEF Building
  <1>6. ASSUME NEW t, TakeTile(t)
        PROVE  StatesInv'
    BY <1>0, <1>3, <1>6, TakeEffect DEF Building
  <1>7. ASSUME NEW t \in DOMAIN gen.busy, Worker(t)
        PROVE  StatesInv'
    <2>1. Building /\ IsOutput(mmaps)
      BY <1>7 DEF PoolInv, OutputInv, Building
    <2>2. PICK k, at : k = <<gen.map, t>> /\ at = NavTile(gen.orig, t)
      BY Zenon
    <2>3. \/ mmaps' = mmaps
          \/ mmaps' = [mmaps EXCEPT !.tiles = Put(@, k, [at |-> at, state |-> "partial"])]
          \/ \E state \in FileStates : mmaps' = [mmaps EXCEPT !.tiles[k].state = state]
      BY <1>7, <2>2, WorkerEffect, Zenon
    <2>4. CASE mmaps' = mmaps
      BY <1>3, <2>1, <2>4
    <2>5. CASE mmaps' = [mmaps EXCEPT !.tiles = Put(@, k, [at |-> at, state |-> "partial"])]
      <3>1. PICK new, tiles : /\ new = [at |-> at, state |-> "partial"]
                              /\ tiles = Put(mmaps.tiles, k, new)
        BY Zenon
      <3>2. "state" \in DOMAIN new /\ new.state \in FileStates
        BY <3>1 DEF FileStates
      <3>3. mmaps'.tiles = tiles
        <4>1. mmaps' = [mmaps EXCEPT !.tiles = tiles]
          BY <2>5, <3>1
        <4> QED
          BY <2>1, <4>1, OutputFields, Zenon
      <3>4. \A l \in DOMAIN tiles : tiles[l] = new \/ (l \in DOMAIN mmaps.tiles /\ tiles[l] = mmaps.tiles[l])
        BY <3>1 DEF Put
      <3> QED
        BY <2>1, <3>2, <3>3, <3>4 DEF StatesInv
    <2>6. ASSUME NEW state \in FileStates, mmaps' = [mmaps EXCEPT !.tiles[k].state = state]
          PROVE  StatesInv'
      <3>1. PICK tiles : tiles = [mmaps.tiles EXCEPT ![k].state = state]
        BY Zenon
      <3>2. mmaps'.tiles = tiles
        <4>1. mmaps' = [mmaps EXCEPT !.tiles = tiles]
          BY <2>6, <3>1
        <4> QED
          BY <2>1, <4>1, OutputFields, ZenonT(40)
      <3>3. ASSUME NEW l \in DOMAIN tiles
            PROVE  "state" \in DOMAIN tiles[l] /\ tiles[l].state \in FileStates
        <4>1. PICK old : old = mmaps.tiles[l]
          OBVIOUS
        <4>2. l \in DOMAIN mmaps.tiles /\ "state" \in DOMAIN old /\ old.state \in FileStates
          BY <2>1, <3>1, <3>3, <4>1 DEF StatesInv
        <4>3. tiles[l] \in {old, [old EXCEPT !.state = state]}
          BY <3>1, <4>1, <4>2
        <4> QED
          BY <4>2, <4>3
      <3> QED
        BY <3>2, <3>3 DEF StatesInv
    <2> QED
      BY <2>3, <2>4, <2>5, <2>6
  <1>8. CASE KillBuild
    BY <1>8, KillEffect DEF StatesInv, Void, Blank, Building
  <1> QED
    BY <1>1, <1>2, <1>4, <1>5, <1>6, <1>7, <1>8 DEF Runs

\* The command line names no map twice.
NamedOnce(args) == \A i, j \in DOMAIN args.ids : args.ids[i] = args.ids[j] => i = j

LEMMA FitNext ==
    ASSUME HoldInv, PoolInv, OutputInv, FitInv,
           NEW A, \A args \in A : NamedOnce(args), Runs(A)
    PROVE  FitInv'
  <1>KeptFiles.
      ASSUME Keeps
      PROVE  /\ \A id : MeshWritten(id) => MeshWritten(id)'
             /\ \A k : Placed(k) => Placed(k)'
    BY <1>KeptFiles DEF Keeps, MeshWritten, Placed
  \* The maps of a run, each once.
  <1>StartedOnce.
      ASSUME NEW args, StartBuild(args), NamedOnce(args)
      PROVE  \A p, q \in gen'.todo : p[2] = q[2] => p = q
    <2> USE <1>StartedOnce
    <2>1. \/ gen'.todo = {}
          \/ gen'.todo = {<<1, args.ids[1]>>}
          \/ gen'.todo \subseteq InOrder(args.ids)
      BY StartEffect, Zenon DEF Void
    <2>2. \A p, q \in InOrder(args.ids) : p[2] = q[2] => p = q
      BY DEF InOrder, NamedOnce
    <2> QED
      BY <2>1, <2>2
  <1>NextBuildFits.
      ASSUME NextBuild
      PROVE  FitInv'
    <2> USE <1>NextBuildFits
    <2>0. IsBuild(gen) /\ IsOutput(mmaps) /\ DOMAIN gen.busy = {}
      BY DEF HoldInv, NextBuild, OutputInv, PoolInv, Building
    <2>1. PICK p \in gen.todo :
            LET id    == p[2]
                tiles == IF id \in DOMAIN gen.tiles THEN gen.tiles[id] ELSE {}
            IN  /\ gen'.todo = gen.todo \ {p} /\ gen'.tiles = gen.tiles
                /\ gen'.busy = gen.busy /\ gen'.fresh = gen.fresh
                /\ \/ gen'.phase = "maps" /\ mmaps' = mmaps
                   \/ /\ gen'.phase = "maps"
                      /\ mmaps' = [mmaps EXCEPT !.params = Put(@, id, None)]
                   \/ /\ tiles # {} /\ gen'.phase = "tiles" /\ gen'.map = id
                      /\ gen'.orig = build_nav_mesh(tiles).orig
                      /\ mmaps' = [mmaps EXCEPT !.params = Put(@, id, build_nav_mesh(tiles))]
      BY <2>0, NextBuildEffect
    <2> DEFINE id    == p[2]
               tiles == IF id \in DOMAIN gen.tiles THEN gen.tiles[id] ELSE {}
    <2>2. \A q, r \in gen'.todo : q[2] = r[2] => q = r
      BY <2>1 DEF FitInv
    <2>3. \A q \in gen'.todo : q[2] # id
      BY <2>1 DEF FitInv
    <2>4. \/ mmaps'.params = mmaps.params /\ gen'.phase = "maps"
          \/ mmaps'.params = Put(mmaps.params, id, None) /\ gen'.phase = "maps"
          \/ /\ tiles # {} /\ gen'.map = id /\ gen'.orig = build_nav_mesh(tiles).orig
             /\ mmaps'.params = Put(mmaps.params, id, build_nav_mesh(tiles))
      BY <2>0, <2>1 DEF IsOutput
    <2>5. mmaps'.tiles = mmaps.tiles
      BY <2>0, <2>1 DEF IsOutput
    <2>6. ASSUME NEW k \in gen.fresh
          PROVE  k = <<k[1], k[2]>> /\ MeshWritten(k[1])' /\ Placed(k)'
      <3>1. k = <<k[1], k[2]>> /\ MeshWritten(k[1]) /\ Placed(k)
        BY <2>6 DEF FitInv
      <3>2. k[1] # id
        BY <2>1, <3>1 DEF MeshWritten
      <3>3. k[1] \in DOMAIN mmaps'.params /\ mmaps'.params[k[1]] = mmaps.params[k[1]]
        BY <2>4, <3>1, <3>2 DEF MeshWritten, Put
      <3> QED
        BY <2>1, <2>5, <3>1, <3>3 DEF MeshWritten, Placed
    <2>7. gen'.phase = "tiles" =>
            MeshWritten(gen.map)' /\ gen'.orig = build_nav_mesh(gen.tiles[gen.map]).orig'
      <3> SUFFICES ASSUME gen'.phase = "tiles"
                   PROVE  MeshWritten(gen.map)' /\ gen'.orig = build_nav_mesh(gen'.tiles[gen'.map]).orig
        BY SMTT(30) DEF build_nav_mesh, Largest
      <3>1. /\ tiles # {} /\ gen'.map = id /\ gen'.orig = build_nav_mesh(tiles).orig
            /\ mmaps'.params = Put(mmaps.params, id, build_nav_mesh(tiles))
        BY <2>4
      <3>2. id \in DOMAIN gen'.tiles /\ gen'.tiles[id] = tiles
        BY <2>1, <3>1, SMTT(30)
      <3> HIDE DEF tiles, id
      <3>3. id \in DOMAIN mmaps'.params /\ mmaps'.params[id] = build_nav_mesh(tiles)
        BY <3>1 DEF Put
      <3> QED
        BY <2>3, <3>1, <3>2, <3>3 DEF MeshWritten
    <2> QED
      BY <2>0, <2>1, <2>2, <2>6, <2>7 DEF FitInv
  \* A step of a worker that leaves the maps of the run alone.
  <1>WorkerFits.
      ASSUME NEW t \in DOMAIN gen.busy, Worker(t)
      PROVE  FitInv'
    <2> USE <1>WorkerFits
    <2> DEFINE key == <<gen.map, t>>
    <2>0. /\ IsOutput(mmaps) /\ gen.phase = "tiles"
          /\ MeshWritten(gen.map) /\ gen.orig = build_nav_mesh(gen.tiles[gen.map]).orig
      BY DEF PoolInv, OutputInv, Building, FitInv
    <2>1. Sound
      BY WorkerEffect, Zenon
    <2>2. /\ gen'.phase = gen.phase /\ gen'.tiles = gen.tiles /\ gen'.todo = gen.todo
          /\ gen'.map = gen.map /\ gen'.orig = gen.orig
      BY <2>1 DEF Sound, SameRun
    <2>3. ASSUME mmaps'.params = mmaps.params,
                 \A k : Placed(k) => Placed(k)',
                 \A k \in gen'.fresh : k \in gen.fresh \/ (k = key /\ Placed(key)'),
                 \A u \in DOMAIN gen'.busy : gen'.busy[u].file =>
                    \/ u \in DOMAIN gen.busy /\ gen.busy[u].file
                    \/ u = t /\ Placed(key)'
          PROVE  FitInv'
      <3>1. \A id : MeshWritten(id) => MeshWritten(id)'
        BY <2>2, <2>3, Zenon DEF MeshWritten
      <3>2. gen'.phase = "tiles" =>
               MeshWritten(gen.map)' /\ gen'.orig = build_nav_mesh(gen'.tiles[gen'.map]).orig
        BY <2>0, <2>2, <3>1
      <3>3. ASSUME NEW k \in gen'.fresh
            PROVE  k = <<k[1], k[2]>> /\ MeshWritten(k[1])' /\ Placed(k)'
        <4>1. CASE k \in gen.fresh
          BY <2>3, <3>1, <4>1, SMTT(30) DEF FitInv
        <4>2. CASE k = key /\ Placed(key)'
          <5>1. key = <<key[1], key[2]>> /\ key[1] = gen.map
            OBVIOUS
          <5> QED
            BY <2>0, <2>2, <3>1, <4>2, <5>1
        <4> QED
          BY <2>3, <3>3, <4>1, <4>2
      <3>4. \A u \in DOMAIN gen'.busy : gen'.busy[u].file => Placed(<<gen.map, u>>)'
        BY <2>2, <2>3 DEF FitInv
      <3>5. \A p, q \in gen'.todo : p[2] = q[2] => p = q
        BY <2>2, SMTT(30) DEF FitInv
      <3> QED
        BY <3>2, <3>3, <3>4, <3>5, SMTT(30) DEF FitInv, build_nav_mesh, Largest
    <2>4. ASSUME GoesOn(t, FALSE) \/ Leaves(gen, gen', t), gen'.fresh = gen.fresh, mmaps' = mmaps
          PROVE  FitInv'
      <3>1. \A u \in DOMAIN gen'.busy : gen'.busy[u].file => u \in DOMAIN gen.busy /\ gen.busy[u].file
        BY <2>4, SMTT(30) DEF GoesOn, WorksOn, Leaves
      <3>2. \A k : Placed(k) => Placed(k)'
        BY <2>2, <2>4 DEF Placed
      <3> QED
        BY <2>3, <2>4, <3>1, <3>2
    <2>5. CASE GoesOn(t, TRUE) /\ gen'.fresh = gen.fresh
               /\ mmaps' = [mmaps EXCEPT !.tiles = Put(@, key,
                              [at |-> NavTile(gen.orig, t), state |-> "partial"])]
      <3> DEFINE file == [at |-> NavTile(gen.orig, t), state |-> "partial"]
      <3>1. mmaps'.params = mmaps.params /\ mmaps'.tiles = Put(mmaps.tiles, key, file)
        BY <2>0, <2>5, SMTT(30) DEF IsOutput
      <3>2. "at" \in DOMAIN file /\ file.at = NavTile(build_nav_mesh(gen.tiles[gen.map]).orig, t)
        BY <2>0
      <3> HIDE DEF file
      <3>3. Placed(key)'
        BY <2>2, <3>1, <3>2, SMTT(30) DEF Placed, Put
      <3>4. ASSUME NEW k, Placed(k)
            PROVE  Placed(k)'
        BY <2>2, <3>1, <3>3, <3>4 DEF Placed, Put
      <3>5. \A u \in DOMAIN gen'.busy : gen'.busy[u].file =>
               (u \in DOMAIN gen.busy /\ gen.busy[u].file) \/ u = t
        BY <2>5 DEF GoesOn, WorksOn
      <3> QED
        BY <2>3, <2>5, <3>1, <3>3, <3>4, <3>5, Zenon
    <2>6. CASE /\ Leaves(gen, gen', t) /\ gen.busy[t].file
               /\ gen'.fresh = gen.fresh \cup {key}
               /\ \E state \in FileStates :
                     mmaps' = [mmaps EXCEPT !.tiles[key].state = state]
      <3>1. PICK state : mmaps' = [mmaps EXCEPT !.tiles[key].state = state]
        BY <2>6, Zenon
      <3>2. Placed(key)
        BY <2>6 DEF FitInv
      <3>3. /\ mmaps'.params = mmaps.params
            /\ mmaps'.tiles = [mmaps.tiles EXCEPT ![key].state = state]
        BY <2>0, <3>1, SMTT(30) DEF IsOutput
      <3>4. ASSUME NEW k, Placed(k)
            PROVE  Placed(k)'
        <4>1. /\ k \in DOMAIN mmaps'.tiles
              /\ DOMAIN mmaps'.tiles[k] = DOMAIN mmaps.tiles[k]
              /\ mmaps'.tiles[k].at = mmaps.tiles[k].at
          BY <3>3, <3>4 DEF Placed
        <4> QED
          BY <2>2, <3>4, <4>1 DEF Placed
      <3>5. \A u \in DOMAIN gen'.busy : gen'.busy[u].file => u \in DOMAIN gen.busy /\ gen.busy[u].file
        BY <2>6 DEF Leaves
      <3>6. \A k \in gen'.fresh : k \in gen.fresh \/ (k = key /\ Placed(key)')
        BY <2>2, <2>6, <3>2, <3>4
      <3> HIDE DEF key
      <3> QED
        BY <2>3, <3>3, <3>4, <3>5, <3>6
    <2> QED
      BY <2>4, <2>5, <2>6, WorkerEffect, Zenon
  <1>0. IsBuild(gen)
    BY DEF HoldInv
  <1>1. CASE UNCHANGED buildVars
    <2>1. gen' = gen /\ Keeps
      BY <1>1 DEF buildVars, Keeps
    <2>2. gen'.phase = "tiles" =>
             MeshWritten(gen.map)' /\ gen'.orig = build_nav_mesh(gen'.tiles[gen'.map]).orig
      BY <2>1, <1>KeptFiles DEF FitInv
    <2>3. \A u \in DOMAIN gen'.busy : gen'.busy[u].file => Placed(<<gen.map, u>>)'
      BY <2>1, <1>KeptFiles DEF FitInv
    <2> QED
      BY <2>1, <2>2, <2>3, <1>KeptFiles, SMTT(30) DEF FitInv, build_nav_mesh, Largest
  <1>2. ASSUME NEW args \in A, StartBuild(args)
        PROVE  FitInv'
    <2>1. \A p, q \in gen'.todo : p[2] = q[2] => p = q
      BY <1>2, <1>StartedOnce
    <2>2. gen'.phase # "tiles" /\ gen'.fresh = {} /\ DOMAIN gen'.busy = {}
      BY <1>2, StartEffect, Zenon DEF Void, Blank
    <2> QED
      BY <2>1, <2>2 DEF FitInv
  <1>3. CASE NextBuild
    BY <1>3, <1>NextBuildFits
  <1>4. CASE MapBuilt \/ BuildDone
    <2>1. /\ gen'.phase # "tiles" /\ gen'.busy = gen.busy /\ DOMAIN gen.busy = {}
          /\ gen'.tiles = gen.tiles /\ gen'.todo = gen.todo /\ gen'.fresh = gen.fresh
          /\ mmaps' = mmaps
      BY <1>0, <1>4, PhaseEffect DEF PoolInv
    <2>2. Keeps
      BY <2>1, SMTT(30) DEF Keeps
    <2> QED
      BY <2>1, <2>2, <1>KeptFiles DEF FitInv
  <1>5. ASSUME NEW t, TakeTile(t)
        PROVE  FitInv'
    <2>1. /\ gen'.phase = gen.phase /\ gen'.tiles = gen.tiles /\ gen'.todo = gen.todo
          /\ gen'.map = gen.map /\ gen'.orig = gen.orig /\ gen'.fresh = gen.fresh
          /\ gen'.busy \in {gen.busy,
                            Put(gen.busy, t, [k |-> 1, file |-> FALSE, held |-> {Ctx}])}
          /\ mmaps' = mmaps
      BY <1>0, <1>5, TakeEffect, Zenon
    <2>2. \A u \in DOMAIN gen'.busy : gen'.busy[u].file => u \in DOMAIN gen.busy /\ gen.busy[u].file
      BY <2>1 DEF Put
    <2>3. Keeps
      BY <2>1 DEF Keeps
    <2>4. gen'.phase = "tiles" =>
             MeshWritten(gen.map)' /\ gen'.orig = build_nav_mesh(gen'.tiles[gen'.map]).orig
      BY <2>1, <2>3, <1>KeptFiles DEF FitInv
    <2>5. \A u \in DOMAIN gen'.busy : gen'.busy[u].file => Placed(<<gen.map, u>>)'
      BY <2>1, <2>2, <2>3, <1>KeptFiles DEF FitInv
    <2>6. \A k \in gen'.fresh : k = <<k[1], k[2]>> /\ MeshWritten(k[1])' /\ Placed(k)'
      BY <2>1, <2>3, <1>KeptFiles DEF FitInv
    <2> QED
      BY <2>1, <2>4, <2>5, <2>6, SMTT(30) DEF FitInv, build_nav_mesh, Largest
  <1>6. ASSUME NEW t \in DOMAIN gen.busy, Worker(t)
        PROVE  FitInv'
    BY <1>6, <1>WorkerFits
  <1>7. CASE KillBuild
    BY <1>7, KillEffect DEF FitInv, Void, Blank
  <1> QED
    BY <1>1, <1>2, <1>3, <1>4, <1>5, <1>6, <1>7 DEF Runs

LEMMA BuildStarts ==
    ASSUME BuildInit
    PROVE  /\ HoldInv /\ PoolInv /\ TryInv /\ TilesInv /\ FitInv /\ OutputInv
           /\ ThreadsInv /\ StatesInv /\ ~Building
  <1>1. gen = IdleBuild("idle") /\ mmaps = None
    BY DEF BuildInit
  <1>2. /\ IsBuild(gen) /\ gen.phase = "idle" /\ DOMAIN gen.tiles = {} /\ gen.todo = {}
        /\ gen.all = FALSE /\ DOMAIN gen.busy = {} /\ gen.fresh = {} /\ gen.misfreed = FALSE
        /\ gen.leaked = {} /\ gen.unmerged = {}
    BY <1>1, IdleFields, Zenon
  <1>3. ~Building
    BY <1>2 DEF Building
  <1>4. HoldInv /\ PoolInv /\ TilesInv
    BY <1>2, Zenon DEF HoldInv, PoolInv, TilesInv
  <1>5. TryInv
    BY <1>3 DEF TryInv
  <1>6. FitInv /\ OutputInv /\ ThreadsInv /\ StatesInv
    BY <1>1, <1>2, <1>3 DEF FitInv, OutputInv, ThreadsInv, StatesInv
  <1> QED
    BY <1>3, <1>4, <1>5, <1>6
=============================================================================
