------------------------- MODULE MapExtract_proofs --------------------------
(***************************************************************************)
(* The map extractor on its own, for any client and any number of threads:  *)
(* what each of its steps does, and what it preserves.  OfflineTools_proofs *)
(* puts it together with the other tools.                                   *)
(*                                                                          *)
(* The files are named after records of Map.dbc and tiles of their WDT, the *)
(* pool runs no more workers than it has threads, and what a run has passed *)
(* in its lists is whole on disk, or being written again, however its       *)
(* workers interleave and wherever it stops.                                *)
(***************************************************************************)
EXTENDS MapExtract, SetFacts, TLAPS

\* The record that the process keeps, by its fields.
MapFields == {"phase", "mask", "locale", "at", "todo", "busy", "errors", "pool", "found"}
IsMap(m) == DOMAIN m = MapFields /\ m = [x \in MapFields |-> m[x]]

\* What the extractor leaves on disk: files that are partial or whole, the
\* .map files named after tiles of the client.
FilesInv ==
    /\ dbc \in [DOMAIN dbc -> FileStates] /\ cameras \in [DOMAIN cameras -> FileStates]
    /\ maps # None => maps \in [DOMAIN maps -> FileStates] /\ DOMAIN maps \subseteq TilesOf(client)

\* The extractor works on files of the client, enters a section with no file
\* open, and has no more of them open than it has threads.
MapInv ==
    /\ client \in Clients
    /\ IsMap(mx)
    /\ mx.at \in Nat \ {0} /\ mx.locale \in Nat \ {0}
    /\ mx.phase = "dbc" /\ mx.busy # {} =>
          /\ mx.locale \in DOMAIN client.locales
          /\ mx.at \in DOMAIN client.locales[mx.locale].dbc
          /\ mx.busy = {DbcFile(mx.locale, mx.at)}
    /\ mx.phase = "camera" /\ mx.busy # {} =>
          mx.at \in DOMAIN CameraFiles /\ mx.busy = {CameraFiles[mx.at]}
    /\ mx.phase = "map" => mx.busy = {}
    /\ mx.phase = "convert" =>
          /\ maps # None
          /\ mx.at \in DOMAIN client.maps
          /\ mx.todo \cup mx.busy \subseteq DOMAIN client.maps[mx.at].tiles
          /\ IsFiniteSet(mx.busy) /\ Cardinality(mx.busy) <= Threads
    /\ FilesInv

\* A DBC file that the run has come past is whole, or being written again.
DbcOnDisk(f) == f \in DOMAIN dbc /\ (dbc[f] = "whole" \/ (mx.phase = "dbc" /\ f \in mx.busy))
PastDbc(i, k) ==
    \/ mx.phase = "dbc" /\ (i < mx.locale \/ (i = mx.locale /\ k < mx.at))
    \/ "dbc" \in mx.mask /\ mx.phase \in {"camera", "map", "convert", "done"}
DbcInv ==
    \A i \in DOMAIN client.locales : \A k \in DOMAIN client.locales[i].dbc :
        PastDbc(i, k) => DbcOnDisk(DbcFile(i, k))

\* A camera file that the run has come past is whole, or was there before, or is
\* being written.
CameraOnDisk(f) ==
    /\ f \in DOMAIN cameras
    /\ cameras[f] = "whole" \/ f \in mx.found \/ (mx.phase = "camera" /\ f \in mx.busy)
PastCamera(k) ==
    \/ mx.phase = "camera" /\ k < mx.at
    \/ "camera" \in mx.mask /\ mx.phase \in {"map", "convert", "done"}
CameraInv == \A k \in DOMAIN CameraFiles : PastCamera(k) => CameraOnDisk(CameraFiles[k])

\* Unless a tile of the map the run is at has failed: the tiles of a map that it
\* has come past are whole, or being written again for another record of the
\* map; those of the map it is at are left to do, or as the others.
TileOnDisk(t) ==
    /\ t \in DOMAIN maps
    /\ \/ maps[t] = "whole"
       \/ mx.phase = "convert" /\ \E i \in mx.busy : TileFileOf(i) = t
PastMap(j) ==
    \/ mx.phase \in {"map", "convert"} /\ j < mx.at
    \/ "map" \in mx.mask /\ mx.phase = "done"
Failing == mx.phase = "convert" /\ mx.errors # {}
ConvertInv ==
    /\ \A j \in DOMAIN client.maps :
          PastMap(j) /\ client.maps[j].wdt = "ok" /\ ~Failing =>
             \A i \in AdtTiles(client.maps[j]) :
                maps # None /\ TileOnDisk(<<client.maps[j].id, client.maps[j].tiles[i].tile>>)
    /\ mx.phase = "convert" /\ ~Failing =>
          \A i \in AdtTiles(client.maps[mx.at]) : i \in mx.todo \/ TileOnDisk(TileFileOf(i))

LEMMA IdleMapFields ==
    ASSUME NEW how
    PROVE  LET m == IdleMap(how)
           IN  /\ IsMap(m) /\ m.phase = how /\ m.mask = {} /\ m.at = 1 /\ m.locale = 1
               /\ m.busy = {} /\ m.todo = {}
  <1>1. IsMap(IdleMap(how))
    BY Zenon DEF IsMap, IdleMap, MapFields
  <1> QED
    BY <1>1 DEF IdleMap

\* The section a run with this mask enters from position i on.
Section(mask, i) ==
    IF i <= 1 /\ "dbc" \in mask THEN "dbc"
    ELSE IF i <= 2 /\ "camera" \in mask THEN "camera"
    ELSE IF "map" \in mask THEN "map" ELSE "done"

\* The extractor has ended with an error, or was killed.
Stopped(m) == /\ IsMap(m) /\ m.phase \in {"failed", "stopped"} /\ m.at = 1 /\ m.locale = 1
              /\ m.busy = {}

\* The extractor is at the first file of a section, with none open.
AtSection(m, mask, i) == /\ IsMap(m) /\ m.mask = mask /\ m.phase = Section(mask, i)
                         /\ m.at = 1 /\ m.locale \in Nat \ {0} /\ m.busy = {}

\* A step of the map extractor, or none of it.
MapRuns == UNCHANGED mapVars \/ (\E mask : StartMap(mask)) \/ MapStep \/ MapFault

LEMMA ExtractorWorks ==
    ASSUME MapStep \/ MapFault
    PROVE  MapRunning
  BY Zenon DEF MapStep, WriteDbc, WriteCamera, NextMap, MapConverted, BeginTile, EndTile,
               MapFault, StopMap, MapRunning

LEMMA TilesOfClient ==
    ASSUME client \in Clients
    PROVE  /\ TilesOf(client) \subseteq TileKeys
           /\ \A j \in DOMAIN client.maps : \A i \in DOMAIN client.maps[j].tiles :
                 <<client.maps[j].id, client.maps[j].tiles[i].tile>> \in TilesOf(client)
  <1>1. ASSUME NEW t \in TilesOf(client)
        PROVE  t \in TileKeys
    <2>1. PICK m \in {client.maps[j] : j \in DOMAIN client.maps} :
             \E k \in DOMAIN m.tiles : t = <<m.id, m.tiles[k].tile>>
      BY <1>1, Zenon DEF TilesOf
    <2>2. PICK k \in DOMAIN m.tiles : t = <<m.id, m.tiles[k].tile>>
      BY <2>1
    <2>3. PICK j \in DOMAIN client.maps : m = client.maps[j]
      BY <2>1
    <2>4. client.maps[j].id \in MapIds /\ client.maps[j].tiles[k].tile \in TileCoords
      BY <2>2, <2>3, ClientsFit, Zenon
    <2> QED
      BY <2>2, <2>3, <2>4, Zenon DEF TileKeys
  <1>2. ASSUME NEW j \in DOMAIN client.maps, NEW i \in DOMAIN client.maps[j].tiles
        PROVE  <<client.maps[j].id, client.maps[j].tiles[i].tile>> \in TilesOf(client)
    <2> DEFINE m == client.maps[j]
    <2>1. m \in {client.maps[k] : k \in DOMAIN client.maps}
      OBVIOUS
    <2>2. <<m.id, m.tiles[i].tile>> \in {<<m.id, m.tiles[k].tile>> : k \in DOMAIN m.tiles}
      OBVIOUS
    <2> HIDE DEF m
    <2>3. <<m.id, m.tiles[i].tile>> \in TilesOf(client)
      BY <2>1, <2>2, Zenon DEF TilesOf
    <2> QED
      BY <2>3 DEF m
  <1> QED
    BY <1>1, <1>2

(* A step of the extractor, or of another program, keeps what MapInv says, and *)
(* so it does what is known of the files of each section.  First what each     *)
(* action of the extractor does, then one step for each part of the invariant. *)
LEMMA ExtractorNext ==
    ASSUME PoolFacts, MapInv, client' = client, MapRuns
    PROVE  /\ MapInv'
           /\ DbcInv => DbcInv'
           /\ CameraInv => CameraInv'
           /\ ConvertInv => ConvertInv'
  <1>ListDomain.
      ASSUME NEW s, IsList(s)
      PROVE  Len(s) \in Nat /\ DOMAIN s = 1 .. Len(s)
    BY <1>ListDomain DEF IsList
  <1>ClientLists.
      ASSUME client \in Clients
      PROVE  /\ Len(client.locales) \in Nat /\ DOMAIN client.locales = 1 .. Len(client.locales)
             /\ \A i \in DOMAIN client.locales :
                   LET files == client.locales[i].dbc
                   IN  Len(files) \in Nat /\ DOMAIN files = 1 .. Len(files)
             /\ Len(CameraFiles) \in Nat /\ DOMAIN CameraFiles = 1 .. Len(CameraFiles)
             /\ Len(client.maps) \in Nat /\ DOMAIN client.maps = 1 .. Len(client.maps)
    <2> USE <1>ClientLists
    <2>1. /\ IsList(client.locales) /\ \A i \in DOMAIN client.locales : IsList(client.locales[i].dbc)
          /\ client.cameras # None => IsList(client.cameras)
          /\ IsList(client.maps)
      BY ClientsFit
    <2>2. CASE client.cameras = None
      <3>1. CameraFiles = <<>>
        BY <2>2 DEF CameraFiles
      <3> QED
        BY <2>1, <3>1, <1>ListDomain
    <2>3. CASE client.cameras # None
      <3>1. CameraFiles = client.cameras
        BY <2>3 DEF CameraFiles
      <3> QED
        BY <2>1, <2>3, <3>1, <1>ListDomain
    <2> QED
      BY <2>2, <2>3
  <1>EnterEffect.
      ASSUME NEW m, IsMap(m), NEW i \in 1 .. 3
      PROVE  LET e == Enter(m, i)
             IN  /\ IsMap(e) /\ e.at = 1 /\ e.busy = m.busy /\ e.mask = m.mask
                 /\ e.locale = m.locale /\ e.found = m.found /\ e.phase = Section(m.mask, i)
    <2> USE <1>EnterEffect
    <2> DEFINE left == {k \in i .. Len(Sections) : Sections[k] \in m.mask}
               to   == IF left = {} THEN "done"
                       ELSE Sections[CHOOSE k \in left : \A n \in left : k <= n]
               e    == [m EXCEPT !.at = 1, !.phase = to]
    <2>1. to = Section(m.mask, i)
      <3>1. Len(Sections) = 3 /\ Sections[1] = "dbc" /\ Sections[2] = "camera" /\ Sections[3] = "map"
        BY DEF Sections
      <3>2. /\ left \subseteq 1 .. 3
            /\ 1 \in left <=> i <= 1 /\ "dbc" \in m.mask
            /\ 2 \in left <=> i <= 2 /\ "camera" \in m.mask
            /\ 3 \in left <=> "map" \in m.mask
        BY <3>1
      <3> HIDE DEF left
      <3>3. CASE left = {}
        BY <3>2, <3>3 DEF Section
      <3>4. ASSUME NEW k \in left, \A n \in left : k <= n
            PROVE  (CHOOSE x \in left : \A n \in left : x <= n) = k
        <4>1. \A x \in left : (\A n \in left : x <= n) => x = k
          BY <3>2, <3>4
        <4> QED
          BY <3>4, <4>1
      <3>5. CASE 1 \in left
        <4>1. (CHOOSE x \in left : \A n \in left : x <= n) = 1
          BY <3>2, <3>4, <3>5
        <4> QED
          BY <3>1, <3>2, <3>5, <4>1, Zenon DEF Section
      <3>6. CASE 1 \notin left /\ 2 \in left
        <4>1. (CHOOSE x \in left : \A n \in left : x <= n) = 2
          BY <3>2, <3>4, <3>6
        <4> QED
          BY <3>1, <3>2, <3>6, <4>1, Zenon DEF Section
      <3>7. CASE 1 \notin left /\ 2 \notin left /\ 3 \in left
        <4>1. (CHOOSE x \in left : \A n \in left : x <= n) = 3
          BY <3>2, <3>4, <3>7
        <4> QED
          BY <3>1, <3>2, <3>7, <4>1, Zenon DEF Section
      <3> QED
        BY <3>2, <3>3, <3>5, <3>6, <3>7
    <2> HIDE DEF to
    <2>2. IsMap(e)
      BY Zenon DEF IsMap
    <2>3. /\ e.at = 1 /\ e.busy = m.busy /\ e.mask = m.mask /\ e.locale = m.locale
          /\ e.found = m.found /\ e.phase = to
      BY DEF IsMap, MapFields
    <2>4. Enter(m, i) = e
      BY DEF Enter, to
    <2> QED
      BY <2>1, <2>2, <2>3, <2>4
  <1>StartMapEffect.
      ASSUME NEW mask, StartMap(mask)
      PROVE  /\ dbc' = dbc /\ cameras' = cameras /\ maps' = maps
             /\ IsMap(mx') /\ mx'.at = 1 /\ mx'.locale = 1 /\ mx'.busy = {}
             /\ \/ mx'.mask = {} /\ mx'.phase = "done"
                \/ mx'.phase = Section(mx'.mask, 1)
    <2> USE <1>StartMapEffect
    <2> DEFINE idle == IdleMap("idle")
               m    == [idle EXCEPT !.mask = mask]
    <2>1. IsMap(idle) /\ idle.busy = {} /\ idle.locale = 1
      BY IdleMapFields
    <2>2. mx' \in {IdleMap("done"), Enter(m, 1)} /\ dbc' = dbc /\ cameras' = cameras /\ maps' = maps
      BY DEF StartMap
    <2> HIDE DEF idle
    <2>3. IsMap(m)
      BY <2>1, Zenon DEF IsMap
    <2>4. m.busy = {} /\ m.locale = 1
      BY <2>1 DEF IsMap, MapFields
    <2> HIDE DEF m
    <2>5. CASE mx' = Enter(m, 1)
      BY <2>2, <2>3, <2>4, <2>5, <1>EnterEffect
    <2>6. CASE mx' = IdleMap("done")
      BY <2>2, <2>6, IdleMapFields
    <2> QED
      BY <2>2, <2>5, <2>6
  <1>WriteDbcEffect.
      ASSUME WriteDbc
      PROVE  /\ cameras' = cameras /\ maps' = maps /\ mx.phase = "dbc"
             /\ \/ /\ ~(mx.locale \in DOMAIN client.locales) /\ dbc' = dbc
                   /\ mx.busy = {} /\ AtSection(mx', mx.mask, 2)
                \/ LET f == DbcFile(mx.locale, mx.at)
                       files == DOMAIN client.locales[mx.locale].dbc
                   IN  /\ mx.locale \in DOMAIN client.locales
                       /\ IsMap(mx') /\ mx'.phase = "dbc" /\ mx'.mask = mx.mask
                       /\ \/ /\ mx.at \notin files /\ mx.busy = {} /\ dbc' = dbc
                             /\ mx'.locale = mx.locale + 1 /\ mx'.at = 1 /\ mx'.busy = {}
                          \/ /\ mx.at \in files /\ mx.busy = {} /\ dbc' = Put(dbc, f, "partial")
                             /\ mx'.locale = mx.locale /\ mx'.at = mx.at /\ mx'.busy = {f}
                          \/ /\ mx.at \in files /\ mx.busy = {f} /\ dbc' = Put(dbc, f, "whole")
                             /\ mx'.locale = mx.locale /\ mx'.at = mx.at + 1 /\ mx'.busy = {}
    <2> USE <1>WriteDbcEffect
    <2>0. /\ IsMap(mx) /\ client \in Clients /\ mx.at \in Nat \ {0} /\ mx.locale \in Nat \ {0}
          /\ mx.busy # {} => /\ mx.locale \in DOMAIN client.locales
                             /\ mx.at \in DOMAIN client.locales[mx.locale].dbc
                             /\ mx.busy = {DbcFile(mx.locale, mx.at)}
          /\ mx.phase = "dbc" /\ cameras' = cameras /\ maps' = maps
      BY DEF MapInv, WriteDbc
    <2> USE <2>0
    <2> DEFINE files == client.locales[mx.locale].dbc
               f     == DbcFile(mx.locale, mx.at)
    <2>1. CASE mx.locale > Len(client.locales)
      <3>1. mx' = Enter(mx, 2) /\ dbc' = dbc
        BY <2>1 DEF WriteDbc
      <3>2. mx.locale \notin DOMAIN client.locales
        BY <2>1, <1>ClientLists
      <3>3. AtSection(mx', mx.mask, 2)
        BY <3>1, <3>2, <1>EnterEffect DEF AtSection
      <3> QED
        BY <3>1, <3>2, <3>3
    <2>2. CASE ~(mx.locale > Len(client.locales))
      <3>1. mx.locale \in DOMAIN client.locales
        BY <2>2, <1>ClientLists
      <3>2. mx.at \in DOMAIN files <=> ~(mx.at > Len(files))
        BY <3>1, <1>ClientLists
      <3>3. CASE mx.at > Len(files)
        <4>1. mx' = [mx EXCEPT !.locale = @ + 1, !.at = 1] /\ dbc' = dbc
          BY <2>2, <3>3 DEF WriteDbc
        <4>2. IsMap(mx')
          BY <4>1, Zenon DEF IsMap
        <4>3. /\ mx'.phase = "dbc" /\ mx'.mask = mx.mask /\ mx'.locale = mx.locale + 1
              /\ mx'.at = 1 /\ mx'.busy = mx.busy
          BY <4>1, Zenon DEF IsMap, MapFields
        <4> QED
          BY <3>1, <3>2, <3>3, <4>1, <4>2, <4>3
      <3>4. CASE ~(mx.at > Len(files)) /\ mx.busy = {}
        <4>1. mx' = [mx EXCEPT !.busy = {f}] /\ dbc' = Put(dbc, f, "partial")
          BY <2>2, <3>4 DEF WriteDbc
        <4> HIDE DEF f
        <4>2. IsMap(mx')
          BY <4>1, Zenon DEF IsMap
        <4>3. /\ mx'.phase = "dbc" /\ mx'.mask = mx.mask /\ mx'.locale = mx.locale
              /\ mx'.at = mx.at /\ mx'.busy = {f}
          BY <4>1, Zenon DEF IsMap, MapFields
        <4> QED
          BY <3>1, <3>2, <3>4, <4>1, <4>2, <4>3 DEF f
      <3>5. CASE ~(mx.at > Len(files)) /\ mx.busy # {}
        <4>1. mx' = [mx EXCEPT !.busy = {}, !.at = @ + 1] /\ dbc' = Put(dbc, f, "whole")
          BY <2>2, <3>5 DEF WriteDbc
        <4>2. IsMap(mx')
          BY <4>1, Zenon DEF IsMap
        <4>3. /\ mx'.phase = "dbc" /\ mx'.mask = mx.mask /\ mx'.locale = mx.locale
              /\ mx'.at = mx.at + 1 /\ mx'.busy = {}
          BY <4>1, Zenon DEF IsMap, MapFields
        <4> QED
          BY <3>1, <3>2, <3>5, <4>1, <4>2, <4>3
      <3> QED
        BY <3>3, <3>4, <3>5
    <2> QED
      BY <2>1, <2>2
  <1>WriteCameraEffect.
      ASSUME WriteCamera
      PROVE  /\ dbc' = dbc /\ maps' = maps /\ mx.phase = "camera"
             /\ \/ /\ mx.at \notin DOMAIN CameraFiles /\ cameras' = cameras
                   /\ mx.busy = {} /\ AtSection(mx', mx.mask, 3) /\ mx'.found = mx.found
                \/ LET f == CameraFiles[mx.at]
                   IN  /\ mx.at \in DOMAIN CameraFiles
                       /\ IsMap(mx') /\ mx'.phase = "camera" /\ mx'.mask = mx.mask
                       /\ mx'.locale = mx.locale
                       /\ \/ /\ mx.busy = {} /\ f \in DOMAIN cameras /\ cameras' = cameras
                             /\ mx'.at = mx.at + 1 /\ mx'.busy = {} /\ mx'.found = mx.found \cup {f}
                          \/ /\ mx.busy = {} /\ cameras' = Put(cameras, f, "partial")
                             /\ mx'.at = mx.at /\ mx'.busy = {f} /\ mx'.found = mx.found
                          \/ /\ mx.busy = {f} /\ cameras' = Put(cameras, f, "whole")
                             /\ mx'.at = mx.at + 1 /\ mx'.busy = {} /\ mx'.found = mx.found
    <2> USE <1>WriteCameraEffect
    <2>0. /\ IsMap(mx) /\ client \in Clients /\ mx.at \in Nat \ {0} /\ mx.locale \in Nat \ {0}
          /\ mx.busy # {} => mx.at \in DOMAIN CameraFiles /\ mx.busy = {CameraFiles[mx.at]}
          /\ mx.phase = "camera" /\ dbc' = dbc /\ maps' = maps
      BY DEF MapInv, WriteCamera
    <2> USE <2>0
    <2> DEFINE f == CameraFiles[mx.at]
    <2>1. mx.at \in DOMAIN CameraFiles <=> ~(mx.at > Len(CameraFiles))
      BY <1>ClientLists
    <2>2. CASE mx.at > Len(CameraFiles)
      <3>1. mx' = Enter(mx, 3) /\ cameras' = cameras
        BY <2>2 DEF WriteCamera
      <3>2. AtSection(mx', mx.mask, 3) /\ mx'.found = mx.found
        BY <2>1, <2>2, <3>1, <1>EnterEffect DEF AtSection
      <3> QED
        BY <2>1, <2>2, <3>1, <3>2
    <2>3. CASE ~(mx.at > Len(CameraFiles))
      <3>1. \/ /\ mx' = [mx EXCEPT !.busy = {}, !.at = @ + 1]
               /\ mx.busy = {f} /\ cameras' = Put(cameras, f, "whole")
            \/ /\ mx' = [mx EXCEPT !.at = @ + 1, !.found = @ \cup {f}]
               /\ mx.busy = {} /\ f \in DOMAIN cameras /\ cameras' = cameras
            \/ /\ mx' = [mx EXCEPT !.busy = {f}]
               /\ mx.busy = {} /\ cameras' = Put(cameras, f, "partial")
        BY <2>3 DEF WriteCamera
      <3> HIDE DEF f
      <3>2. IsMap(mx')
        BY <3>1, Zenon DEF IsMap
      <3>3. mx'.phase = "camera" /\ mx'.mask = mx.mask /\ mx'.locale = mx.locale
        BY <3>1, Zenon DEF IsMap, MapFields
      <3>4. \/ /\ mx.busy = {} /\ f \in DOMAIN cameras /\ cameras' = cameras
               /\ mx'.at = mx.at + 1 /\ mx'.busy = {} /\ mx'.found = mx.found \cup {f}
            \/ /\ mx.busy = {} /\ cameras' = Put(cameras, f, "partial")
               /\ mx'.at = mx.at /\ mx'.busy = {f} /\ mx'.found = mx.found
            \/ /\ mx.busy = {f} /\ cameras' = Put(cameras, f, "whole")
               /\ mx'.at = mx.at + 1 /\ mx'.busy = {} /\ mx'.found = mx.found
        BY <3>1, Zenon DEF IsMap, MapFields
      <3> QED
        BY <2>1, <2>3, <3>2, <3>3, <3>4 DEF f
    <2> QED
      BY <2>2, <2>3
  <1>NextMapEffect.
      ASSUME NextMap
      PROVE  /\ dbc' = dbc /\ cameras' = cameras /\ mx.phase = "map" /\ mx.busy = {}
             /\ maps' = IF maps = None THEN <<>> ELSE maps
             /\ \/ Stopped(mx')
                \/ /\ IsMap(mx') /\ mx'.mask = mx.mask /\ mx'.locale = mx.locale /\ mx'.busy = {} /\ mx'.found = mx.found
                   /\ \/ /\ mx.at \notin DOMAIN client.maps
                         /\ mx'.phase = "done" /\ mx'.at = mx.at
                      \/ LET m == client.maps[mx.at]
                         IN  /\ mx.at \in DOMAIN client.maps
                             /\ \/ /\ m.wdt # "ok" \/ AdtTiles(m) = {}
                                   /\ mx'.phase = "map" /\ mx'.at = mx.at + 1
                                \/ /\ mx'.phase = "convert" /\ mx'.at = mx.at
                                   /\ mx'.todo = AdtTiles(m)
    <2> USE <1>NextMapEffect
    <2>0. /\ IsMap(mx) /\ client \in Clients /\ mx.at \in Nat \ {0} /\ mx.locale \in Nat \ {0}
          /\ mx.phase = "map" /\ mx.busy = {} /\ dbc' = dbc /\ cameras' = cameras
          /\ maps' = IF maps = None THEN <<>> ELSE maps
      BY DEF MapInv, NextMap
    <2> USE <2>0
    <2> DEFINE m == client.maps[mx.at]
    <2>1. mx.at \in DOMAIN client.maps <=> ~(mx.at > Len(client.maps))
      BY <1>ClientLists
    <2>2. CASE mx.at > Len(client.maps)
      <3>1. mx' = [mx EXCEPT !.phase = "done"]
        BY <2>2 DEF NextMap
      <3>2. IsMap(mx')
        BY <3>1, Zenon DEF IsMap
      <3>3. /\ mx'.mask = mx.mask /\ mx'.locale = mx.locale /\ mx'.busy = {} /\ mx'.found = mx.found
            /\ mx'.phase = "done" /\ mx'.at = mx.at
        BY <3>1, Zenon DEF IsMap, MapFields
      <3> QED
        BY <2>1, <2>2, <3>2, <3>3
    <2>3. CASE ~(mx.at > Len(client.maps))
      <3>1. \/ mx' = IdleMap("failed")
            \/ \E pool : /\ mx' = [mx EXCEPT !.at = @ + 1, !.pool = pool]
                         /\ m.wdt \in {None, "no_mver"} \/ AdtTiles(m) = {}
            \/ \E pool : mx' = [mx EXCEPT !.phase = "convert", !.pool = pool, !.todo = AdtTiles(m)]
        BY <2>3, Zenon DEF NextMap
      <3>2. ASSUME mx' = IdleMap("failed")
            PROVE  Stopped(mx')
        BY <3>2, IdleMapFields DEF Stopped
      <3> HIDE DEF m
      <3>3. ASSUME NEW pool, mx' = [mx EXCEPT !.at = @ + 1, !.pool = pool],
                   m.wdt \in {None, "no_mver"} \/ AdtTiles(m) = {}
            PROVE  /\ IsMap(mx') /\ mx'.mask = mx.mask /\ mx'.locale = mx.locale /\ mx'.busy = {} /\ mx'.found = mx.found
                   /\ mx'.phase = "map" /\ mx'.at = mx.at + 1
                   /\ m.wdt # "ok" \/ AdtTiles(m) = {}
        <4>1. IsMap(mx')
          BY <3>3, Zenon DEF IsMap
        <4>2. /\ mx'.mask = mx.mask /\ mx'.locale = mx.locale /\ mx'.busy = {} /\ mx'.found = mx.found
              /\ mx'.phase = "map" /\ mx'.at = mx.at + 1
          BY <3>3, Zenon DEF IsMap, MapFields
        <4>3. m.wdt # "ok" \/ AdtTiles(m) = {}
          BY <3>3, NoneIsNoWdt
        <4> QED
          BY <4>1, <4>2, <4>3
      <3>4. ASSUME NEW pool,
                   mx' = [mx EXCEPT !.phase = "convert", !.pool = pool, !.todo = AdtTiles(m)]
            PROVE  /\ IsMap(mx') /\ mx'.mask = mx.mask /\ mx'.locale = mx.locale /\ mx'.busy = {} /\ mx'.found = mx.found
                   /\ mx'.phase = "convert" /\ mx'.at = mx.at /\ mx'.todo = AdtTiles(m)
        <4>1. IsMap(mx')
          BY <3>4, Zenon DEF IsMap
        <4>2. /\ mx'.mask = mx.mask /\ mx'.locale = mx.locale /\ mx'.busy = {} /\ mx'.found = mx.found
              /\ mx'.phase = "convert" /\ mx'.at = mx.at /\ mx'.todo = AdtTiles(m)
          BY <3>4, Zenon DEF IsMap, MapFields
        <4> QED
          BY <4>1, <4>2
      <3>5. \/ Stopped(mx')
            \/ /\ IsMap(mx') /\ mx'.mask = mx.mask /\ mx'.locale = mx.locale /\ mx'.busy = {} /\ mx'.found = mx.found
               /\ \/ /\ m.wdt # "ok" \/ AdtTiles(m) = {}
                     /\ mx'.phase = "map" /\ mx'.at = mx.at + 1
                  \/ mx'.phase = "convert" /\ mx'.at = mx.at /\ mx'.todo = AdtTiles(m)
        BY <3>1, <3>2, <3>3, <3>4, Zenon
      <3> QED
        BY <2>1, <2>3, <3>5 DEF m
    <2> QED
      BY <2>2, <2>3
  <1>BeginTileEffect.
      ASSUME NEW i, BeginTile(i)
      PROVE  /\ dbc' = dbc /\ cameras' = cameras /\ mx.phase = "convert" /\ i \in mx.todo
             /\ IsMap(mx') /\ mx'.phase = "convert" /\ mx'.at = mx.at /\ mx'.mask = mx.mask
             /\ mx'.locale = mx.locale /\ mx'.found = mx.found
             /\ \/ /\ mx'.todo \subseteq mx.todo /\ mx'.busy = mx.busy
                   /\ mx'.errors # {} /\ maps' = maps
                \/ /\ mx'.todo = mx.todo \ {i} /\ mx'.busy = mx.busy \cup {i}
                   /\ mx'.errors = mx.errors /\ maps' = Put(maps, TileFileOf(i), "partial")
                   /\ Cardinality(mx.busy) < Threads \/ mx.busy = {}
    <2> USE <1>BeginTileEffect
    <2>0. /\ IsMap(mx) /\ mx.phase = "convert" /\ i \in mx.todo
          /\ dbc' = dbc /\ cameras' = cameras
      BY DEF MapInv, BeginTile
    <2> USE <2>0
    <2>1. CASE client.maps[mx.at].tiles[i].adt # "root"
      <3>1. PICK todo : /\ mx' = [mx EXCEPT !.errors = @ \cup {i}, !.todo = todo]
                        /\ todo \subseteq mx.todo /\ maps' = maps
        <4> DEFINE todo == IF mx.pool THEN mx.todo \ {i} ELSE {}
        <4>1. mx' = [mx EXCEPT !.errors = @ \cup {i}, !.todo = todo] /\ maps' = maps
          BY <2>1, Zenon DEF BeginTile
        <4>2. todo \subseteq mx.todo
          OBVIOUS
        <4> HIDE DEF todo
        <4> QED
          BY <4>1, <4>2, Zenon
      <3>2. IsMap(mx')
        BY <3>1, Zenon DEF IsMap
      <3>3. /\ mx'.phase = "convert" /\ mx'.at = mx.at /\ mx'.mask = mx.mask
            /\ mx'.locale = mx.locale /\ mx'.found = mx.found /\ mx'.busy = mx.busy
            /\ mx'.todo = todo /\ mx'.errors = mx.errors \cup {i}
        BY <3>1, Zenon DEF IsMap, MapFields
      <3> QED
        BY <3>1, <3>2, <3>3
    <2>2. CASE client.maps[mx.at].tiles[i].adt = "root"
      <3>1. /\ mx' = [mx EXCEPT !.todo = @ \ {i}, !.busy = @ \cup {i}]
            /\ maps' = Put(maps, TileFileOf(i), "partial")
            /\ Cardinality(mx.busy) < Threads \/ mx.busy = {}
        BY <2>2, Zenon DEF BeginTile
      <3>2. IsMap(mx')
        BY <3>1, Zenon DEF IsMap
      <3>3. /\ mx'.phase = "convert" /\ mx'.at = mx.at /\ mx'.mask = mx.mask
            /\ mx'.locale = mx.locale /\ mx'.found = mx.found /\ mx'.busy = mx.busy \cup {i}
            /\ mx'.todo = mx.todo \ {i} /\ mx'.errors = mx.errors
        BY <3>1, Zenon DEF IsMap, MapFields
      <3> QED
        BY <3>1, <3>2, <3>3
    <2> QED
      BY <2>1, <2>2
  <1>EndTileEffect.
      ASSUME NEW i, NEW s \in FileStates, EndTile(i, s)
      PROVE  /\ dbc' = dbc /\ cameras' = cameras /\ mx.phase = "convert" /\ i \in mx.busy
             /\ IsMap(mx') /\ mx'.phase = "convert" /\ mx'.at = mx.at /\ mx'.mask = mx.mask
             /\ mx'.locale = mx.locale /\ mx'.found = mx.found /\ mx'.todo \subseteq mx.todo
             /\ mx'.busy = mx.busy \ {i} /\ maps' = Put(maps, TileFileOf(i), s)
             /\ \/ s = "whole" /\ mx'.todo = mx.todo /\ mx'.errors = mx.errors
                \/ mx'.errors # {}
    <2> USE <1>EndTileEffect
    <2>0. /\ IsMap(mx) /\ mx.phase = "convert" /\ i \in mx.busy
          /\ dbc' = dbc /\ cameras' = cameras /\ maps' = Put(maps, TileFileOf(i), s)
      BY DEF MapInv, EndTile
    <2>1. CASE s = "whole"
      <3>1. mx' = [mx EXCEPT !.busy = @ \ {i}]
        BY <2>1 DEF EndTile
      <3>2. IsMap(mx')
        BY <2>0, <3>1, Zenon DEF IsMap
      <3>3. /\ mx'.phase = "convert" /\ mx'.at = mx.at /\ mx'.mask = mx.mask
            /\ mx'.locale = mx.locale /\ mx'.found = mx.found /\ mx'.busy = mx.busy \ {i}
            /\ mx'.todo = mx.todo /\ mx'.errors = mx.errors
        BY <2>0, <3>1, Zenon DEF IsMap, MapFields
      <3> QED
        BY <2>0, <2>1, <3>2, <3>3
    <2>2. CASE s # "whole"
      <3>1. PICK todo : /\ mx' = [mx EXCEPT !.busy = @ \ {i}, !.errors = @ \cup {i}, !.todo = todo]
                        /\ todo \subseteq mx.todo
        <4> DEFINE todo == IF mx.pool THEN mx.todo ELSE {}
        <4>1. mx' = [mx EXCEPT !.busy = @ \ {i}, !.errors = @ \cup {i}, !.todo = todo]
          BY <2>2, Zenon DEF EndTile
        <4>2. todo \subseteq mx.todo
          OBVIOUS
        <4> HIDE DEF todo
        <4> QED
          BY <4>1, <4>2, Zenon
      <3>2. IsMap(mx')
        BY <2>0, <3>1, Zenon DEF IsMap
      <3>3. /\ mx'.phase = "convert" /\ mx'.at = mx.at /\ mx'.mask = mx.mask
            /\ mx'.locale = mx.locale /\ mx'.found = mx.found /\ mx'.busy = mx.busy \ {i}
            /\ mx'.todo = todo /\ mx'.errors = mx.errors \cup {i}
        BY <2>0, <3>1, Zenon DEF IsMap, MapFields
      <3> QED
        BY <2>0, <3>1, <3>2, <3>3
    <2> QED
      BY <2>1, <2>2
  <1>MapConvertedEffect.
      ASSUME MapConverted
      PROVE  /\ dbc' = dbc /\ cameras' = cameras /\ maps' = maps
             /\ mx.phase = "convert" /\ mx.todo = {} /\ mx.busy = {}
             /\ \/ Stopped(mx')
                \/ /\ mx.errors = {} /\ IsMap(mx') /\ mx'.phase = "map" /\ mx'.at = mx.at + 1
                   /\ mx'.mask = mx.mask /\ mx'.locale = mx.locale /\ mx'.found = mx.found /\ mx'.busy = {}
    <2> USE <1>MapConvertedEffect
    <2>0. /\ IsMap(mx) /\ mx.phase = "convert" /\ mx.todo = {} /\ mx.busy = {}
          /\ dbc' = dbc /\ cameras' = cameras /\ maps' = maps
      BY DEF MapInv, MapConverted
    <2>1. CASE mx.errors # {}
      <3>1. mx' = IdleMap("failed")
        BY <2>1 DEF MapConverted
      <3> QED
        BY <2>0, <3>1, IdleMapFields DEF Stopped
    <2>2. CASE mx.errors = {}
      <3>1. mx' = [mx EXCEPT !.phase = "map", !.at = @ + 1]
        BY <2>2 DEF MapConverted
      <3>2. IsMap(mx')
        BY <2>0, <3>1, Zenon DEF IsMap
      <3>3. /\ mx'.phase = "map" /\ mx'.at = mx.at + 1 /\ mx'.mask = mx.mask
            /\ mx'.locale = mx.locale /\ mx'.found = mx.found /\ mx'.busy = mx.busy
        BY <2>0, <3>1, Zenon DEF IsMap, MapFields
      <3> QED
        BY <2>0, <2>2, <3>2, <3>3
    <2> QED
      BY <2>1, <2>2
  <1>StopMapEffect.
      ASSUME StopMap
      PROVE  dbc' = dbc /\ cameras' = cameras /\ maps' = maps /\ Stopped(mx')
    <2> USE <1>StopMapEffect
    <2>1. dbc' = dbc /\ cameras' = cameras /\ maps' = maps /\ mx' = IdleMap("stopped")
      BY DEF StopMap
    <2> QED
      BY <2>1, IdleMapFields DEF Stopped
  \* A directory of .map files is there.
  <1>DirectoryIsThere.
      ASSUME client \in Clients, NEW d, d \in [DOMAIN d -> FileStates],
             DOMAIN d \subseteq TilesOf(client)
      PROVE  d # None
    BY <1>DirectoryIsThere, NoneIsNoDirectory, Zenon
  <1>PutTile.
      ASSUME mx.phase = "convert", NEW i \in mx.todo \cup mx.busy,
             NEW s \in FileStates, maps' = Put(maps, TileFileOf(i), s)
      PROVE  /\ maps' \in [DOMAIN maps' -> FileStates] /\ maps' # None
             /\ DOMAIN maps' \subseteq TilesOf(client)
             /\ DOMAIN maps' = DOMAIN maps \cup {TileFileOf(i)} /\ maps'[TileFileOf(i)] = s
             /\ \A t \in DOMAIN maps : t # TileFileOf(i) => maps'[t] = maps[t]
    <2> USE <1>PutTile
    <2>1. /\ maps \in [DOMAIN maps -> FileStates] /\ DOMAIN maps \subseteq TilesOf(client)
          /\ client \in Clients /\ mx.at \in DOMAIN client.maps
          /\ i \in DOMAIN client.maps[mx.at].tiles
      BY DEF MapInv, FilesInv
    <2>2. TileFileOf(i) \in TilesOf(client)
      BY <2>1, TilesOfClient, Zenon DEF TileFileOf
    <2>3. /\ maps' \in [DOMAIN maps' -> FileStates]
          /\ DOMAIN maps' = DOMAIN maps \cup {TileFileOf(i)} /\ maps'[TileFileOf(i)] = s
          /\ \A t \in DOMAIN maps : t # TileFileOf(i) => maps'[t] = maps[t]
      BY <2>1 DEF Put
    <2>4. DOMAIN maps' \subseteq TilesOf(client)
      BY <2>1, <2>2, <2>3
    <2>5. maps' # None
      BY <2>1, <2>3, <2>4, <1>DirectoryIsThere
    <2> QED
      BY <2>3, <2>4, <2>5
  \* A run with no file open, and not converting, satisfies the invariant.
  <1>QuietMap.
      ASSUME IsMap(mx'), mx'.at \in Nat \ {0},
             mx'.locale \in Nat \ {0}, mx'.busy = {}, mx'.phase # "convert", FilesInv'
      PROVE  MapInv'
    BY <1>QuietMap DEF MapInv
  <1>MapNext.
      MapInv'
    <2>0. /\ client \in Clients /\ IsMap(mx) /\ mx.at \in Nat \ {0} /\ mx.locale \in Nat \ {0}
          /\ FilesInv
      BY DEF MapInv
    <2> USE <2>0
    <2>1. ASSUME dbc' = dbc, cameras' = cameras, maps' = maps
          PROVE  FilesInv'
      BY <2>1 DEF FilesInv
    <2>2. CASE UNCHANGED mapVars
      <3>1. dbc' = dbc /\ cameras' = cameras /\ maps' = maps /\ mx' = mx
        BY <2>2 DEF mapVars
      <3> QED
        BY <2>1, <3>1 DEF MapInv, DbcFile, CameraFiles
    <2>3. ASSUME NEW mask, StartMap(mask)
          PROVE  MapInv'
      <3>1. FilesInv' /\ IsMap(mx') /\ mx'.at = 1 /\ mx'.locale = 1 /\ mx'.busy = {}
        BY <2>1, <2>3, <1>StartMapEffect
      <3>2. mx'.phase # "convert"
        BY <2>3, <1>StartMapEffect DEF Section
      <3> QED
        BY <3>1, <3>2, <1>QuietMap
    <2>4. ASSUME NEW i, AtSection(mx', mx.mask, i)
          PROVE  /\ IsMap(mx') /\ mx'.at = 1 /\ mx'.locale \in Nat \ {0} /\ mx'.busy = {}
                 /\ mx'.phase # "convert"
      BY <2>4 DEF AtSection, Section
    <2>5. CASE WriteDbc
      <3> DEFINE f     == DbcFile(mx.locale, mx.at)
                 files == DOMAIN client.locales[mx.locale].dbc
      <3>1. cameras' = cameras /\ maps' = maps
        BY <2>5, <1>WriteDbcEffect
      <3>2. FilesInv'
        <4>1. dbc' = dbc \/ \E s \in FileStates : dbc' = Put(dbc, f, s)
          BY <2>5, <1>WriteDbcEffect DEF FileStates
        <4>2. dbc' \in [DOMAIN dbc' -> FileStates]
          BY <4>1 DEF FilesInv, Put
        <4> QED
          BY <3>1, <4>2 DEF FilesInv
      <3>3. \/ AtSection(mx', mx.mask, 2)
            \/ /\ IsMap(mx') /\ mx'.phase = "dbc" /\ mx.locale \in DOMAIN client.locales
               /\ \/ mx'.busy = {} /\ mx'.at \in Nat \ {0} /\ mx'.locale \in Nat \ {0}
                  \/ /\ mx'.busy = {f} /\ mx'.at = mx.at /\ mx'.locale = mx.locale
                     /\ mx.at \in files
        BY <2>5, <1>WriteDbcEffect
      <3>4. CASE mx'.busy = {} /\ mx'.phase = "dbc"
        BY <3>2, <3>3, <3>4, <1>QuietMap DEF AtSection
      <3>5. CASE AtSection(mx', mx.mask, 2)
        BY <2>4, <3>2, <3>5, <1>QuietMap
      <3>6. CASE /\ IsMap(mx') /\ mx'.phase = "dbc" /\ mx.locale \in DOMAIN client.locales
                 /\ mx'.busy = {f} /\ mx'.at = mx.at /\ mx'.locale = mx.locale /\ mx.at \in files
        BY <3>2, <3>6 DEF MapInv, DbcFile
      <3> QED
        BY <3>3, <3>4, <3>5, <3>6
    <2>6. CASE WriteCamera
      <3> DEFINE f == CameraFiles[mx.at]
      <3>1. dbc' = dbc /\ maps' = maps
        BY <2>6, <1>WriteCameraEffect
      <3>2. FilesInv'
        <4>1. cameras' = cameras \/ \E s \in FileStates : cameras' = Put(cameras, f, s)
          BY <2>6, <1>WriteCameraEffect DEF FileStates
        <4>2. cameras' \in [DOMAIN cameras' -> FileStates]
          BY <4>1 DEF FilesInv, Put
        <4> QED
          BY <3>1, <4>2 DEF FilesInv
      <3>3. \/ AtSection(mx', mx.mask, 3)
            \/ /\ IsMap(mx') /\ mx'.phase = "camera" /\ mx'.locale = mx.locale
               /\ \/ mx'.busy = {} /\ mx'.at \in Nat \ {0}
                  \/ mx'.busy = {f} /\ mx'.at = mx.at /\ mx.at \in DOMAIN CameraFiles
        BY <2>6, <1>WriteCameraEffect
      <3>4. CASE mx'.busy = {} /\ mx'.phase = "camera"
        BY <3>2, <3>3, <3>4, <1>QuietMap DEF AtSection
      <3>5. CASE AtSection(mx', mx.mask, 3)
        BY <2>4, <3>2, <3>5, <1>QuietMap
      <3>6. CASE /\ IsMap(mx') /\ mx'.phase = "camera" /\ mx'.locale = mx.locale
                 /\ mx'.busy = {f} /\ mx'.at = mx.at /\ mx.at \in DOMAIN CameraFiles
        BY <3>2, <3>6 DEF MapInv, CameraFiles
      <3> QED
        BY <3>3, <3>4, <3>5, <3>6
    <2>7. CASE NextMap
      <3>1. dbc' = dbc /\ cameras' = cameras /\ maps' = IF maps = None THEN <<>> ELSE maps
        BY <2>7, <1>NextMapEffect
      <3>2. FilesInv' /\ maps' # None
        <4>1. CASE maps = None
          <5>1. maps' = <<>>
            BY <3>1, <4>1
          <5>2. maps' \in [DOMAIN maps' -> FileStates] /\ DOMAIN maps' \subseteq TilesOf(client)
            BY <5>1
          <5>3. maps' # None
            BY <5>2, <1>DirectoryIsThere
          <5> QED
            BY <3>1, <5>2, <5>3 DEF FilesInv
        <4>2. CASE maps # None
          BY <3>1, <4>2 DEF FilesInv
        <4> QED
          BY <4>1, <4>2
      <3>3. CASE Stopped(mx')
        BY <3>2, <3>3, <1>QuietMap DEF Stopped
      <3>4. CASE /\ IsMap(mx') /\ mx'.locale = mx.locale /\ mx'.busy = {}
                 /\ mx'.phase \in {"map", "done"} /\ mx'.at \in {mx.at, mx.at + 1}
        BY <3>2, <3>4, <1>QuietMap
      <3>5. CASE /\ IsMap(mx') /\ mx'.locale = mx.locale /\ mx'.busy = {}
                 /\ mx'.phase = "convert" /\ mx'.at = mx.at /\ mx.at \in DOMAIN client.maps
                 /\ mx'.todo = AdtTiles(client.maps[mx.at])
        <4>1. mx'.todo \cup mx'.busy \subseteq DOMAIN client.maps[mx.at].tiles
          BY <3>5 DEF AdtTiles
        <4>2. IsFiniteSet(mx'.busy) /\ Cardinality(mx'.busy) <= Threads
          BY <3>5, ThreadsAssumption DEF PoolFacts
        <4> QED
          BY <3>2, <3>5, <4>1, <4>2, SMTT(30) DEF MapInv
      <3> QED
        BY <2>7, <3>3, <3>4, <3>5, <1>NextMapEffect
    <2>8. ASSUME NEW i, BeginTile(i)
          PROVE  MapInv'
      <3>0. /\ mx.phase = "convert" /\ i \in mx.todo /\ maps # None
            /\ mx.at \in DOMAIN client.maps
            /\ mx.todo \cup mx.busy \subseteq DOMAIN client.maps[mx.at].tiles
            /\ IsFiniteSet(mx.busy) /\ Cardinality(mx.busy) <= Threads
        BY <2>8, <1>BeginTileEffect DEF MapInv
      <3>1. /\ dbc' = dbc /\ cameras' = cameras
            /\ IsMap(mx') /\ mx'.phase = "convert" /\ mx'.at = mx.at /\ mx'.locale = mx.locale
        BY <2>8, <1>BeginTileEffect
      <3>2. \/ mx'.todo \subseteq mx.todo /\ mx'.busy = mx.busy /\ maps' = maps
            \/ /\ mx'.todo \subseteq mx.todo /\ mx'.busy = mx.busy \cup {i}
               /\ maps' = Put(maps, TileFileOf(i), "partial")
               /\ Cardinality(mx.busy) < Threads \/ mx.busy = {}
        BY <2>8, <1>BeginTileEffect
      <3>3. IsFiniteSet(mx'.busy) /\ Cardinality(mx'.busy) <= Threads
        <4>1. /\ Cardinality(mx.busy) \in Nat /\ IsFiniteSet(mx.busy \cup {i})
              /\ Cardinality(mx.busy \cup {i}) \in {Cardinality(mx.busy), Cardinality(mx.busy) + 1}
          BY <3>0, Zenon DEF PoolFacts
        <4>2. mx.busy = {} => Cardinality(mx.busy) = 0
          BY DEF PoolFacts
        <4>3. CASE mx'.busy = mx.busy
          BY <3>0, <4>3
        <4>4. CASE mx'.busy = mx.busy \cup {i} /\ (Cardinality(mx.busy) < Threads \/ mx.busy = {})
          BY <4>1, <4>2, <4>4, ThreadsAssumption
        <4> QED
          BY <3>2, <4>3, <4>4
      <3>4. FilesInv' /\ maps' # None
        <4>1. CASE maps' = maps
          BY <3>0, <3>1, <4>1 DEF FilesInv
        <4>2. CASE maps' = Put(maps, TileFileOf(i), "partial")
          BY <3>0, <3>1, <4>2, <1>PutTile, Zenon DEF FilesInv, FileStates
        <4> QED
          BY <3>2, <4>1, <4>2
      <3> QED
        BY <3>0, <3>1, <3>2, <3>3, <3>4 DEF MapInv
    <2>9. ASSUME NEW i, NEW s \in FileStates, EndTile(i, s)
          PROVE  MapInv'
      <3>0. /\ mx.phase = "convert" /\ i \in mx.busy /\ maps # None
            /\ mx.at \in DOMAIN client.maps
            /\ mx.todo \cup mx.busy \subseteq DOMAIN client.maps[mx.at].tiles
            /\ IsFiniteSet(mx.busy) /\ Cardinality(mx.busy) <= Threads
        BY <2>9, <1>EndTileEffect DEF MapInv
      <3>1. /\ dbc' = dbc /\ cameras' = cameras
            /\ IsMap(mx') /\ mx'.phase = "convert" /\ mx'.at = mx.at /\ mx'.locale = mx.locale
            /\ mx'.todo \subseteq mx.todo /\ mx'.busy = mx.busy \ {i}
            /\ maps' = Put(maps, TileFileOf(i), s)
        BY <2>9, <1>EndTileEffect
      <3>2. IsFiniteSet(mx'.busy) /\ Cardinality(mx'.busy) <= Threads
        <4>1. /\ Cardinality(mx.busy) \in Nat /\ IsFiniteSet(mx.busy \ {i})
              /\ Cardinality(mx.busy \ {i}) \in {Cardinality(mx.busy), Cardinality(mx.busy) - 1}
          BY <3>0, Zenon DEF PoolFacts
        <4> QED
          BY <3>0, <3>1, <4>1, ThreadsAssumption
      <3>3. FilesInv' /\ maps' # None
        BY <3>0, <3>1, <1>PutTile, Zenon DEF FilesInv, FileStates
      <3> QED
        BY <3>0, <3>1, <3>2, <3>3 DEF MapInv
    <2>10. CASE MapConverted
      <3>1. FilesInv'
        BY <2>1, <2>10, <1>MapConvertedEffect
      <3>2. CASE Stopped(mx')
        BY <3>1, <3>2, <1>QuietMap DEF Stopped
      <3>3. CASE /\ IsMap(mx') /\ mx'.phase = "map" /\ mx'.at = mx.at + 1
                 /\ mx'.locale = mx.locale /\ mx'.busy = {}
        BY <3>1, <3>3, <1>QuietMap
      <3> QED
        BY <2>10, <3>2, <3>3, <1>MapConvertedEffect
    <2>11. CASE StopMap
      BY <2>1, <2>11, <1>StopMapEffect, <1>QuietMap DEF Stopped
    <2> QED
      BY <2>2, <2>3, <2>5, <2>6, <2>7, <2>8, <2>9, <2>10, <2>11 DEF MapRuns, MapStep, MapFault, FileStates
  <1>DbcNext.
      ASSUME DbcInv
      PROVE  DbcInv'
    <2> USE <1>DbcNext
    <2> SUFFICES ASSUME NEW i \in DOMAIN client.locales, NEW k \in DOMAIN client.locales[i].dbc,
                        PastDbc(i, k)'
                 PROVE  DbcOnDisk(DbcFile(i, k))'
      BY DEF DbcInv
    <2> DEFINE g == DbcFile(i, k)
    <2>0. /\ client \in Clients /\ IsMap(mx) /\ mx.at \in Nat \ {0} /\ mx.locale \in Nat \ {0}
          /\ dbc \in [DOMAIN dbc -> FileStates]
      BY DEF MapInv, FilesInv
    <2>1. i \in Nat \ {0} /\ k \in Nat \ {0} /\ g' = g
      BY <2>0, <1>ClientLists DEF DbcFile
    <2>2. PastDbc(i, k) => g \in DOMAIN dbc /\ (dbc[g] = "whole" \/ (mx.phase = "dbc" /\ g \in mx.busy))
      BY DEF DbcInv, DbcOnDisk
    <2>3. ASSUME g \in DOMAIN dbc', dbc'[g] = "whole" \/ (mx'.phase = "dbc" /\ g \in mx'.busy)
          PROVE  DbcOnDisk(DbcFile(i, k))'
      BY <2>1, <2>3, Zenon DEF DbcOnDisk
    <2>4. \/ mx'.phase = "dbc" /\ (i < mx'.locale \/ (i = mx'.locale /\ k < mx'.at))
          \/ "dbc" \in mx'.mask /\ mx'.phase \in {"camera", "map", "convert", "done"}
      BY DEF PastDbc
    <2> HIDE DEF g
    <2>5. ASSUME dbc' = dbc, PastDbc(i, k), mx.phase # "dbc" \/ mx.busy = {}
          PROVE  DbcOnDisk(DbcFile(i, k))'
      BY <2>2, <2>3, <2>5
    <2>6. ASSUME dbc' = dbc, mx'.mask = mx.mask, mx.phase \in {"camera", "map", "convert"},
                 mx'.phase # "dbc"
          PROVE  DbcOnDisk(DbcFile(i, k))'
      <3>1. PastDbc(i, k)
        BY <2>4, <2>6 DEF PastDbc
      <3> QED
        BY <2>5, <2>6, <3>1
    <2>7. CASE UNCHANGED mapVars
      <3>1. dbc' = dbc /\ mx' = mx
        BY <2>7 DEF mapVars
      <3>2. PastDbc(i, k)
        BY <2>4, <3>1 DEF PastDbc
      <3> QED
        BY <2>2, <2>3, <3>1, <3>2
    <2>8. ASSUME NEW mask, StartMap(mask)
          PROVE  FALSE
      BY <2>1, <2>4, <2>8, <1>StartMapEffect, SMTT(30) DEF Section
    <2>9. CASE WriteDbc
      <3> DEFINE f     == DbcFile(mx.locale, mx.at)
                 files == DOMAIN client.locales[mx.locale].dbc
      <3>0. mx.phase = "dbc"
        BY <2>9, <1>WriteDbcEffect
      <3>1. CASE /\ ~(mx.locale \in DOMAIN client.locales) /\ dbc' = dbc /\ mx.busy = {}
        <4>1. i < mx.locale
          BY <2>0, <3>1, <1>ClientLists
        <4>2. PastDbc(i, k)
          BY <3>0, <4>1 DEF PastDbc
        <4> QED
          BY <2>5, <3>1, <4>2
      <3>2. CASE /\ mx.locale \in DOMAIN client.locales /\ mx'.phase = "dbc"
                 /\ mx.at \notin files /\ mx.busy = {} /\ dbc' = dbc
                 /\ mx'.locale = mx.locale + 1 /\ mx'.at = 1
        <4>1. i < mx.locale \/ i = mx.locale
          BY <2>0, <2>1, <2>4, <3>2
        <4>2. i = mx.locale => k < mx.at
          BY <2>0, <3>2, <1>ClientLists, SMTT(30)
        <4>3. PastDbc(i, k)
          BY <3>0, <4>1, <4>2 DEF PastDbc
        <4> QED
          BY <2>5, <3>2, <4>3
      <3>3. CASE /\ mx'.phase = "dbc" /\ mx.busy = {} /\ dbc' = Put(dbc, f, "partial")
                 /\ mx'.locale = mx.locale /\ mx'.at = mx.at /\ mx'.busy = {f}
        <4>1. PastDbc(i, k)
          BY <2>4, <3>0, <3>3 DEF PastDbc
        <4>2. /\ g \in DOMAIN dbc'
              /\ g = f => g \in mx'.busy
              /\ g # f => dbc'[g] = dbc[g]
          BY <2>2, <3>3, <4>1 DEF Put
        <4> QED
          BY <2>2, <2>3, <3>3, <4>1, <4>2
      <3>4. CASE /\ mx'.phase = "dbc" /\ mx.busy = {f} /\ dbc' = Put(dbc, f, "whole")
                 /\ mx'.locale = mx.locale /\ mx'.at = mx.at + 1 /\ mx'.busy = {}
        <4>1. f \in DOMAIN dbc' /\ dbc'[f] = "whole"
          BY <3>4 DEF Put
        <4>2. CASE g = f
          BY <2>3, <4>1, <4>2
        <4>3. CASE g # f
          <5>1. i # mx.locale \/ k # mx.at
            BY <4>3 DEF g
          <5>2. PastDbc(i, k)
            BY <2>0, <2>1, <2>4, <3>0, <3>4, <5>1 DEF PastDbc
          <5>3. g \in DOMAIN dbc' /\ dbc'[g] = dbc[g]
            BY <2>2, <3>4, <4>3, <5>2 DEF Put
          <5> QED
            BY <2>2, <2>3, <3>4, <4>3, <5>2, <5>3
        <4> QED
          BY <4>2, <4>3
      <3> QED
        BY <2>9, <3>1, <3>2, <3>3, <3>4, <1>WriteDbcEffect, SMTT(30)
    <2>10. CASE WriteCamera
      BY <2>6, <2>10, <1>WriteCameraEffect DEF AtSection, Section
    <2>11. ASSUME Stopped(mx')
           PROVE  FALSE
      BY <2>4, <2>11 DEF Stopped
    <2>12. CASE NextMap
      BY <2>6, <2>11, <2>12, <1>NextMapEffect
    <2>13. ASSUME NEW n, NEW s \in FileStates, BeginTile(n) \/ EndTile(n, s)
           PROVE  DbcOnDisk(DbcFile(i, k))'
      BY <2>6, <2>13, <1>BeginTileEffect, <1>EndTileEffect
    <2>14. CASE MapConverted
      BY <2>6, <2>11, <2>14, <1>MapConvertedEffect
    <2>15. CASE StopMap
      BY <2>11, <2>15, <1>StopMapEffect, SMTT(30)
    <2> QED
      BY <2>7, <2>8, <2>9, <2>10, <2>12, <2>13, <2>14, <2>15 DEF MapRuns, MapStep, MapFault, FileStates
  <1>CameraNext.
      ASSUME CameraInv
      PROVE  CameraInv'
    <2> USE <1>CameraNext
    <2>0. /\ client \in Clients /\ IsMap(mx) /\ mx.at \in Nat \ {0}
          /\ CameraFiles' = CameraFiles
      BY DEF MapInv, CameraFiles
    <2> SUFFICES ASSUME NEW k \in DOMAIN CameraFiles, PastCamera(k)'
                 PROVE  CameraOnDisk(CameraFiles[k])'
      BY <2>0 DEF CameraInv
    <2>g. PICK g : g = CameraFiles[k]
      OBVIOUS
    <2>1. k \in Nat \ {0}
      BY <2>0, <1>ClientLists
    <2>2. PastCamera(k) =>
             /\ g \in DOMAIN cameras
             /\ cameras[g] = "whole" \/ g \in mx.found \/ (mx.phase = "camera" /\ g \in mx.busy)
      BY <2>g DEF CameraInv, CameraOnDisk
    <2>3. \/ mx'.phase = "camera" /\ k < mx'.at
          \/ "camera" \in mx'.mask /\ mx'.phase \in {"map", "convert", "done"}
      BY DEF PastCamera
    <2>4. ASSUME g \in DOMAIN cameras',
                 cameras'[g] = "whole" \/ g \in mx'.found \/ (mx'.phase = "camera" /\ g \in mx'.busy)
          PROVE  CameraOnDisk(CameraFiles[k])'
      BY <2>g, <2>0, <2>4, Zenon DEF CameraOnDisk
    <2>5. ASSUME cameras' = cameras, mx'.found = mx.found, PastCamera(k),
                 mx.phase # "camera" \/ mx.busy = {}
          PROVE  CameraOnDisk(CameraFiles[k])'
      BY <2>2, <2>4, <2>5
    <2>6. ASSUME cameras' = cameras, mx'.mask = mx.mask, mx'.found = mx.found,
                 mx.phase \in {"map", "convert"}, mx'.phase # "camera"
          PROVE  CameraOnDisk(CameraFiles[k])'
      <3>1. PastCamera(k)
        BY <2>3, <2>6 DEF PastCamera
      <3> QED
        BY <2>5, <2>6, <3>1
    <2>7. CASE UNCHANGED mapVars
      <3>1. cameras' = cameras /\ mx' = mx
        BY <2>7 DEF mapVars
      <3>2. PastCamera(k)
        BY <2>3, <3>1 DEF PastCamera
      <3> QED
        BY <2>2, <2>4, <3>1, <3>2
    <2>8. ASSUME NEW mask, StartMap(mask)
          PROVE  FALSE
      BY <2>1, <2>3, <2>8, <1>StartMapEffect DEF Section
    <2>9. ASSUME WriteDbc
          PROVE  FALSE
      BY <2>1, <2>3, <2>9, <1>WriteDbcEffect DEF AtSection, Section
    <2>10. CASE WriteCamera
      <3>f. PICK f : f = CameraFiles[mx.at]
        OBVIOUS
      <3>0. mx.phase = "camera"
        BY <2>10, <1>WriteCameraEffect
      <3>1. CASE mx.at \notin DOMAIN CameraFiles /\ cameras' = cameras /\ mx.busy = {}
                 /\ mx'.found = mx.found
        <4>1. k < mx.at
          BY <2>0, <3>1, <1>ClientLists
        <4>2. PastCamera(k)
          BY <3>0, <4>1 DEF PastCamera
        <4> QED
          BY <2>5, <3>1, <4>2
      <3>2. ASSUME mx'.at = mx.at \/ k # mx.at, mx'.at \in {mx.at, mx.at + 1}, mx'.phase = "camera"
            PROVE  PastCamera(k)
        BY <2>0, <2>1, <2>3, <3>0, <3>2 DEF PastCamera
      <3>3. CASE /\ mx.busy = {} /\ f \in DOMAIN cameras /\ cameras' = cameras
                 /\ mx'.phase = "camera" /\ mx'.at = mx.at + 1 /\ mx'.found = mx.found \cup {f}
        <4>1. CASE g = f
          BY <2>4, <3>3, <4>1
        <4>2. CASE g # f
          <5>1. PastCamera(k)
            BY <2>g, <3>f, <3>2, <3>3, <4>2
          <5> QED
            BY <2>2, <2>4, <3>3, <5>1
        <4> QED
          BY <4>1, <4>2
      <3>4. CASE /\ mx.busy = {} /\ cameras' = Put(cameras, f, "partial")
                 /\ mx'.phase = "camera" /\ mx'.at = mx.at /\ mx'.busy = {f} /\ mx'.found = mx.found
        <4>1. PastCamera(k)
          BY <3>2, <3>4
        <4>2. /\ g \in DOMAIN cameras'
              /\ g = f => g \in mx'.busy
              /\ g # f => cameras'[g] = cameras[g]
          BY <2>2, <3>4, <4>1 DEF Put
        <4> QED
          BY <2>2, <2>4, <3>4, <4>1, <4>2
      <3>5. CASE /\ mx.busy = {f} /\ cameras' = Put(cameras, f, "whole")
                 /\ mx'.phase = "camera" /\ mx'.at = mx.at + 1 /\ mx'.found = mx.found
        <4>1. f \in DOMAIN cameras' /\ cameras'[f] = "whole"
          BY <3>5 DEF Put
        <4>2. CASE g = f
          BY <2>4, <4>1, <4>2
        <4>3. CASE g # f
          <5>1. PastCamera(k)
            BY <2>g, <3>f, <3>2, <3>5, <4>3
          <5>2. g \in DOMAIN cameras' /\ cameras'[g] = cameras[g]
            BY <2>2, <3>5, <4>3, <5>1 DEF Put
          <5> QED
            BY <2>2, <2>4, <3>5, <4>3, <5>1, <5>2
        <4> QED
          BY <4>2, <4>3
      <3> QED
        BY <2>10, <3>f, <3>1, <3>3, <3>4, <3>5, <1>WriteCameraEffect
    <2>11. ASSUME Stopped(mx')
           PROVE  FALSE
      BY <2>3, <2>11 DEF Stopped
    <2>12. CASE NextMap
      BY <2>6, <2>11, <2>12, <1>NextMapEffect
    <2>13. ASSUME NEW n, NEW s \in FileStates, BeginTile(n) \/ EndTile(n, s)
           PROVE  CameraOnDisk(CameraFiles[k])'
      BY <2>6, <2>13, <1>BeginTileEffect, <1>EndTileEffect
    <2>14. CASE MapConverted
      BY <2>6, <2>11, <2>14, <1>MapConvertedEffect
    <2>15. CASE StopMap
      BY <2>11, <2>15, <1>StopMapEffect
    <2> QED
      BY <2>7, <2>8, <2>9, <2>10, <2>12, <2>13, <2>14, <2>15 DEF MapRuns, MapStep, MapFault, FileStates
  \* A tile that is on disk stays there while the pool works.
  <1>TilesStay.
      ASSUME NEW n, NEW s \in FileStates, BeginTile(n) \/ EndTile(n, s),
             NEW t, TileOnDisk(t), mx'.errors = {}
      PROVE  TileOnDisk(t)'
    <2> USE <1>TilesStay
    <2>0. mx.phase = "convert" /\ mx'.phase = "convert" /\ mx'.at = mx.at
      BY <1>BeginTileEffect, <1>EndTileEffect
    <2>1. \A i : TileFileOf(i)' = TileFileOf(i)
      BY <2>0 DEF TileFileOf
    <2>2. t \in DOMAIN maps /\ (maps[t] = "whole" \/ \E i \in mx.busy : TileFileOf(i) = t)
      BY DEF TileOnDisk
    <2>3. ASSUME t \in DOMAIN maps',
                 maps'[t] = "whole" \/ \E i \in mx'.busy : TileFileOf(i) = t
          PROVE  TileOnDisk(t)'
      BY <2>0, <2>1, <2>3, Zenon DEF TileOnDisk
    <2>4. CASE maps' = maps /\ mx'.busy = mx.busy
      BY <2>2, <2>3, <2>4
    <2>5. CASE /\ maps' = Put(maps, TileFileOf(n), "partial") /\ mx'.busy = mx.busy \cup {n}
      <3>1. t \in DOMAIN maps' /\ (t # TileFileOf(n) => maps'[t] = maps[t])
        BY <2>2, <2>5 DEF Put
      <3> QED
        BY <2>2, <2>3, <2>5, <3>1
    <2>6. CASE maps' = Put(maps, TileFileOf(n), "whole") /\ mx'.busy = mx.busy \ {n}
      <3>1. /\ t \in DOMAIN maps'
            /\ t # TileFileOf(n) => maps'[t] = maps[t]
            /\ t = TileFileOf(n) => maps'[t] = "whole"
        BY <2>2, <2>6 DEF Put
      <3> QED
        BY <2>2, <2>3, <2>6, <3>1
    <2> QED
      BY <2>4, <2>5, <2>6, <1>BeginTileEffect, <1>EndTileEffect, SMTT(30)
  \* The tiles of the maps before the one the run is at.
  <1>PastTilesNext.
      ASSUME ConvertInv, NEW j \in DOMAIN client.maps, PastMap(j)', client.maps[j].wdt = "ok",
             ~Failing',
             NEW i \in AdtTiles(client.maps[j])
      PROVE  LET t == <<client.maps[j].id, client.maps[j].tiles[i].tile>>
             IN  maps' # None /\ TileOnDisk(t)'
    <2> USE <1>PastTilesNext
    <2>t. PICK t : t = <<client.maps[j].id, client.maps[j].tiles[i].tile>>
      BY Zenon
    <2>0. client \in Clients /\ IsMap(mx) /\ mx.at \in Nat \ {0} /\ j \in Nat \ {0}
      BY <1>ClientLists DEF MapInv
    <2>1. PastMap(j) /\ ~Failing => maps # None /\ TileOnDisk(t)
      BY <2>t DEF ConvertInv
    <2>2. \/ mx'.phase \in {"map", "convert"} /\ j < mx'.at
          \/ "map" \in mx'.mask /\ mx'.phase = "done"
      BY DEF PastMap
    <2>3. mx.phase = "convert" => maps # None
      BY DEF MapInv
    <2>4. mx.phase = "convert" /\ j = mx.at => TileFileOf(i) = t
      BY <2>t DEF TileFileOf
    <2>5. ASSUME maps' = maps, maps # None, TileOnDisk(t), mx.phase # "convert" \/ mx.busy = {}
          PROVE  maps' # None /\ TileOnDisk(t)'
      <3>1. t \in DOMAIN maps' /\ maps'[t] = "whole" /\ maps' # None
        BY <2>5, SMTT(30) DEF TileOnDisk
      <3> QED
        BY <3>1 DEF TileOnDisk
    <2>6. ASSUME UNCHANGED mapVars
          PROVE  maps' # None /\ TileOnDisk(t)'
      <3>1. maps' = maps /\ mx' = mx
        BY <2>6 DEF mapVars
      <3>2. maps # None /\ TileOnDisk(t)
        BY <2>1, <2>2, <3>1 DEF PastMap, Failing
      <3> QED
        BY <3>1, <3>2 DEF TileOnDisk, TileFileOf
    <2>7. ASSUME NEW mask, StartMap(mask)
          PROVE  FALSE
      BY <2>0, <2>2, <2>7, <1>StartMapEffect, SMTT(30) DEF Section
    <2>8. ASSUME WriteDbc \/ WriteCamera
          PROVE  FALSE
      BY <2>0, <2>2, <2>8, <1>WriteDbcEffect, <1>WriteCameraEffect DEF AtSection, Section
    <2>9. ASSUME Stopped(mx')
          PROVE  FALSE
      BY <2>2, <2>9 DEF Stopped
    <2>10. ASSUME NextMap
           PROVE  maps' # None /\ TileOnDisk(t)'
      <3>1. j < mx.at
        <4>1. CASE mx.at \notin DOMAIN client.maps
          BY <2>0, <4>1, <1>ClientLists
        <4>2. CASE mx'.phase \in {"map", "convert"} /\ mx'.at = mx.at
          BY <2>2, <4>2
        <4>3. CASE /\ mx'.phase = "map" /\ mx'.at = mx.at + 1
                   /\ client.maps[mx.at].wdt # "ok" \/ AdtTiles(client.maps[mx.at]) = {}
          BY <2>0, <2>2, <4>3
        <4> QED
          BY <2>9, <2>10, <4>1, <4>2, <4>3, <1>NextMapEffect
      <3>2. mx.phase = "map" /\ maps' = IF maps = None THEN <<>> ELSE maps
        BY <2>10, <1>NextMapEffect
      <3>3. maps # None /\ TileOnDisk(t)
        BY <2>1, <3>1, <3>2, SMTT(30) DEF PastMap, Failing
      <3> QED
        BY <2>5, <3>2, <3>3
    <2>11. ASSUME NEW n, NEW s \in FileStates, BeginTile(n) \/ EndTile(n, s)
           PROVE  maps' # None /\ TileOnDisk(t)'
      <3>0. mx'.phase = "convert" /\ mx'.errors = {}
        BY <2>11, <1>BeginTileEffect, <1>EndTileEffect, SMTT(30) DEF Failing
      <3>1. mx.phase = "convert" /\ mx'.at = mx.at /\ mx.errors = {}
        BY <2>11, <3>0, <1>BeginTileEffect, <1>EndTileEffect
      <3>2. TileOnDisk(t)
        BY <2>1, <2>2, <3>0, <3>1 DEF PastMap, Failing
      <3>3. maps' # None
        <4>1. \/ maps' = maps
              \/ /\ n \in mx.todo \cup mx.busy
                 /\ \E st \in FileStates : maps' = Put(maps, TileFileOf(n), st)
          BY <2>11, <1>BeginTileEffect, <1>EndTileEffect, SMTT(30) DEF FileStates
        <4> QED
          BY <2>3, <3>1, <4>1, <1>PutTile, Zenon
      <3> QED
        BY <2>11, <3>0, <3>2, <3>3, <1>TilesStay
    <2>12. ASSUME MapConverted
           PROVE  maps' # None /\ TileOnDisk(t)'
      <3>1. /\ maps' = maps /\ mx.phase = "convert" /\ mx.todo = {} /\ mx.busy = {} /\ mx.errors = {}
            /\ mx'.phase = "map" /\ mx'.at = mx.at + 1
        BY <2>9, <2>12, <1>MapConvertedEffect, SMTT(30)
      <3>2. CASE j < mx.at
        BY <2>1, <2>5, <3>1, <3>2 DEF PastMap, Failing
      <3>3. CASE j = mx.at
        <4>1. TileOnDisk(TileFileOf(i))
          BY <3>1, <3>3 DEF ConvertInv, Failing
        <4> QED
          BY <2>3, <2>4, <2>5, <3>1, <3>3, <4>1, SMTT(30)
      <3> QED
        BY <2>0, <2>2, <3>1, <3>2, <3>3, SMTT(30)
    <2>13. ASSUME StopMap
           PROVE  FALSE
      BY <2>9, <2>13, <1>StopMapEffect
    <2>14. maps' # None /\ TileOnDisk(t)'
      BY <2>6, <2>7, <2>8, <2>10, <2>11, <2>12, <2>13 DEF MapRuns, MapStep, MapFault, FileStates
    <2> QED
      BY <2>t, <2>14, Zenon DEF TileOnDisk
  \* The tiles of the map the run is at.
  <1>PoolTilesNext.
      ASSUME ConvertInv, mx'.phase = "convert", mx'.errors = {}, NEW i \in AdtTiles(client.maps[mx'.at])
      PROVE  i \in mx'.todo \/ TileOnDisk(TileFileOf(i))'
    <2> USE <1>PoolTilesNext
    <2>1. mx.phase = "convert" /\ mx.errors = {} =>
            \A k \in AdtTiles(client.maps[mx.at]) : k \in mx.todo \/ TileOnDisk(TileFileOf(k))
      BY DEF ConvertInv, Failing
    <2>2. CASE UNCHANGED mapVars
      <3>1. maps' = maps /\ mx' = mx
        BY <2>2 DEF mapVars
      <3> QED
        BY <2>1, <3>1, Zenon DEF TileOnDisk, TileFileOf
    <2>3. ASSUME NEW mask, StartMap(mask)
          PROVE  FALSE
      BY <2>3, <1>StartMapEffect DEF Section
    <2>4. ASSUME WriteDbc \/ WriteCamera \/ MapConverted \/ StopMap
          PROVE  FALSE
      BY <2>4, <1>WriteDbcEffect, <1>WriteCameraEffect, <1>MapConvertedEffect, <1>StopMapEffect, Zenon
         DEF AtSection, Section, Stopped
    <2>5. CASE NextMap
      BY <2>5, <1>NextMapEffect, SMTT(30) DEF Stopped
    <2>6. ASSUME NEW n, NEW s \in FileStates, BeginTile(n) \/ EndTile(n, s)
          PROVE  i \in mx'.todo \/ TileOnDisk(TileFileOf(i))'
      <3>0. mx.phase = "convert" /\ mx'.at = mx.at /\ mx.errors = {}
        BY <2>6, <1>BeginTileEffect, <1>EndTileEffect
      <3>1. TileFileOf(i)' = TileFileOf(i)
        BY <3>0 DEF TileFileOf
      <3>2. CASE TileOnDisk(TileFileOf(i))
        <4> DEFINE t == TileFileOf(i)
        <4>1. TileOnDisk(t)
          BY <3>2
        <4>2. t' = t
          BY <3>1
        <4> HIDE DEF t
        <4>3. t \in DOMAIN maps' /\ (maps'[t] = "whole" \/ \E b \in mx'.busy : TileFileOf(b)' = t)
          <5>1. \A x : TileOnDisk(x) =>
                   x \in DOMAIN maps' /\ (maps'[x] = "whole" \/ \E b \in mx'.busy : TileFileOf(b)' = x)
            BY <2>6, <1>TilesStay DEF TileOnDisk
          <5> QED
            BY <4>1, <5>1
        <4> QED
          BY <4>2, <4>3, Zenon DEF TileOnDisk, t
      <3>3. CASE i \in mx.todo /\ i \notin mx'.todo
        <4>1. i = n /\ i \in mx'.busy /\ maps' = Put(maps, TileFileOf(i), "partial")
          BY <2>6, <3>3, <1>BeginTileEffect, <1>EndTileEffect
        <4>2. TileFileOf(i) \in DOMAIN maps'
          BY <4>1 DEF Put
        <4> QED
          BY <3>1, <4>1, <4>2, Zenon DEF TileOnDisk
      <3> QED
        BY <2>1, <3>0, <3>2, <3>3
    <2> QED
      BY <2>2, <2>3, <2>4, <2>5, <2>6 DEF MapRuns, MapStep, MapFault, FileStates
  <1>ConvertNext.
      ASSUME ConvertInv
      PROVE  ConvertInv'
    BY <1>ConvertNext, <1>PastTilesNext, <1>PoolTilesNext, Zenon DEF ConvertInv, Failing
  <1> QED
    BY <1>MapNext, <1>DbcNext, <1>CameraNext, <1>ConvertNext, Zenon

LEMMA MapStarts ==
    ASSUME ClientInit, MapInit
    PROVE  MapInv /\ DbcInv /\ CameraInv /\ ConvertInv
  <1>1. /\ IsMap(mx) /\ mx.phase = "idle" /\ mx.at = 1 /\ mx.locale = 1 /\ mx.busy = {}
        /\ mx.mask = {} /\ dbc = <<>> /\ cameras = <<>> /\ maps = None /\ client \in Clients
    BY IdleMapFields DEF MapInit, ClientInit
  <1>2. MapInv
    BY <1>1 DEF MapInv, FilesInv
  <1>3. DbcInv /\ CameraInv /\ ConvertInv
    BY <1>1 DEF DbcInv, PastDbc, CameraInv, PastCamera, ConvertInv, PastMap
  <1> QED
    BY <1>2, <1>3

\* What a run that is done has come past.
LEMMA DoneIsWhole ==
    ASSUME DbcInv, CameraInv, ConvertInv, mx.phase = "done"
    PROVE  /\ "dbc" \in mx.mask =>
                 \A i \in DOMAIN client.locales : \A k \in DOMAIN client.locales[i].dbc :
                    DbcFile(i, k) \in DOMAIN dbc /\ dbc[DbcFile(i, k)] = "whole"
           /\ "camera" \in mx.mask =>
                 \A i \in DOMAIN CameraFiles :
                    /\ CameraFiles[i] \in DOMAIN cameras
                    /\ CameraFiles[i] \notin mx.found => cameras[CameraFiles[i]] = "whole"
           /\ "map" \in mx.mask =>
                 \A j \in DOMAIN client.maps : client.maps[j].wdt = "ok" =>
                    \A i \in AdtTiles(client.maps[j]) :
                       LET t == <<client.maps[j].id, client.maps[j].tiles[i].tile>>
                       IN  t \in DOMAIN maps /\ maps[t] = "whole"
  <1>1. ASSUME "dbc" \in mx.mask, NEW i \in DOMAIN client.locales,
               NEW k \in DOMAIN client.locales[i].dbc
        PROVE  DbcFile(i, k) \in DOMAIN dbc /\ dbc[DbcFile(i, k)] = "whole"
    BY <1>1 DEF DbcInv, PastDbc, DbcOnDisk
  <1>2. ASSUME "camera" \in mx.mask, NEW i \in DOMAIN CameraFiles
        PROVE  /\ CameraFiles[i] \in DOMAIN cameras
               /\ CameraFiles[i] \notin mx.found => cameras[CameraFiles[i]] = "whole"
    BY <1>2 DEF CameraInv, PastCamera, CameraOnDisk
  <1>3. ASSUME "map" \in mx.mask, NEW j \in DOMAIN client.maps, client.maps[j].wdt = "ok",
               NEW i \in AdtTiles(client.maps[j])
        PROVE  LET t == <<client.maps[j].id, client.maps[j].tiles[i].tile>>
               IN  t \in DOMAIN maps /\ maps[t] = "whole"
    BY <1>3 DEF ConvertInv, Failing, PastMap, TileOnDisk
  <1> QED
    BY <1>1, <1>2, <1>3, Zenon
=============================================================================
