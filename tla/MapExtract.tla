----------------------------- MODULE MapExtract -----------------------------
(***************************************************************************)
(* The map, DBC and camera extractor (map_dbc.rs): for every locale its    *)
(* DBC files, then the camera files that are not there yet, then for every *)
(* map the ADT files its WDT lists, read one after the other and converted *)
(* to .map files by a pool of workers.  A file is "partial" from its       *)
(* creation to its last write.                                             *)
(***************************************************************************)
EXTENDS WorkDir, Integers, FiniteSets

VARIABLE mx  \* the memory of the process

mapVars == <<dbc, cameras, maps, mx>>

Sections == <<"dbc", "camera", "map">>

IdleMap(how) == [phase |-> how, mask |-> {}, locale |-> 1, at |-> 1, todo |-> {},
                 busy |-> {}, errors |-> {}, pool |-> TRUE, found |-> {}]

MapRunning == mx.phase \in {"dbc", "camera", "map", "convert"}

MapInit == /\ dbc = <<>>
           /\ cameras = <<>>
           /\ maps = None
           /\ mx = IdleMap("idle")

\* The next selected section from position i on, at its first file.
Enter(m, i) ==
    LET left == {k \in i .. Len(Sections) : Sections[k] \in m.mask}
    IN  [m EXCEPT !.at = 1,
                  !.phase = IF left = {} THEN "done"
                            ELSE Sections[CHOOSE k \in left : \A n \in left : k <= n]]

\* The first locale's files go to dbc itself, another's to its own directory.
DbcFile(i, k) == <<IF i = 1 THEN "dbc" ELSE client.locales[i].name,
                   client.locales[i].dbc[k]>>

CameraFiles == IF client.cameras = None THEN <<>> ELSE client.cameras

\* The places of the tiles whose ADT file phase 1 can read.
AdtTiles(m) == {i \in DOMAIN m.tiles : m.tiles[i].has_adt /\ m.tiles[i].adt # None}

-----------------------------------------------------------------------------

\* run_map_dbc: the mask names at least one section; a client without locale
\* ends the run.
StartMap(mask) ==
    /\ ~MapRunning
    /\ mask # {} /\ mask \subseteq {Sections[i] : i \in DOMAIN Sections}
    /\ mx' = IF client.locales = <<>> THEN IdleMap("done")
             ELSE Enter([IdleMap("idle") EXCEPT !.mask = mask], 1)
    /\ UNCHANGED <<dbc, cameras, maps>>

\* extract_dbc_files for one locale after the other, one file: created, then
\* written.
WriteDbc ==
    /\ mx.phase = "dbc"
    /\ IF mx.locale > Len(client.locales) THEN mx' = Enter(mx, 2) /\ UNCHANGED dbc
       ELSE IF mx.at > Len(client.locales[mx.locale].dbc)
       THEN mx' = [mx EXCEPT !.locale = @ + 1, !.at = 1] /\ UNCHANGED dbc
       ELSE LET f == DbcFile(mx.locale, mx.at)
            IN  IF mx.busy = {}
                THEN /\ dbc' = Put(dbc, f, "partial")
                     /\ mx' = [mx EXCEPT !.busy = {f}]
                ELSE /\ dbc' = Put(dbc, f, "whole")
                     /\ mx' = [mx EXCEPT !.busy = {}, !.at = @ + 1]
    /\ UNCHANGED <<cameras, maps>>

\* extract_camera_files, one file: one that exists is left as it is (found, a
\* history variable, has those).
WriteCamera ==
    /\ mx.phase = "camera"
    /\ IF mx.at > Len(CameraFiles) THEN mx' = Enter(mx, 3) /\ UNCHANGED cameras
       ELSE LET f == CameraFiles[mx.at]
            IN  IF mx.busy # {}
                THEN /\ cameras' = Put(cameras, f, "whole")
                     /\ mx' = [mx EXCEPT !.busy = {}, !.at = @ + 1]
                ELSE IF f \in DOMAIN cameras
                THEN mx' = [mx EXCEPT !.at = @ + 1, !.found = @ \cup {f}] /\ UNCHANGED cameras
                ELSE /\ cameras' = Put(cameras, f, "partial")
                     /\ mx' = [mx EXCEPT !.busy = {f}]
    /\ UNCHANGED <<dbc, maps>>

\* extract_maps: before the first map the pool is built, or cannot be; then
\* phase 1 of the next map.
NextMap ==
    /\ mx.phase = "map"
    /\ maps' = IF maps = None THEN <<>> ELSE maps
    /\ \E pool \in IF mx.at = 1 THEN BOOLEAN ELSE {mx.pool} :
          IF mx.at > Len(client.maps) THEN mx' = [mx EXCEPT !.phase = "done"]
          ELSE LET m == client.maps[mx.at]
               IN  IF m.wdt = "bad" THEN mx' = IdleMap("failed")
                   ELSE IF m.wdt \in {None, "no_mver"} \/ AdtTiles(m) = {}
                   THEN mx' = [mx EXCEPT !.at = @ + 1, !.pool = pool]
                   ELSE mx' = [mx EXCEPT !.phase = "convert", !.pool = pool,
                                         !.todo = AdtTiles(m)]
    /\ UNCHANGED <<dbc, cameras>>

\* Phase 2: with a pool, up to Threads tiles at once, in any order; without
\* one, in order and up to the first error.  convert_adt fails on an ADT that
\* is not a whole root before it creates the file.
TileFileOf(i) == <<client.maps[mx.at].id, client.maps[mx.at].tiles[i].tile>>

BeginTile(i) ==
    /\ mx.phase = "convert"
    /\ i \in mx.todo
    /\ IF mx.pool THEN Cardinality(mx.busy) < Threads
       ELSE mx.busy = {} /\ \A k \in mx.todo : i <= k
    /\ IF client.maps[mx.at].tiles[i].adt # "root"
       THEN /\ mx' = [mx EXCEPT !.errors = @ \cup {i},
                                !.todo = IF mx.pool THEN @ \ {i} ELSE {}]
            /\ UNCHANGED maps
       ELSE /\ mx' = [mx EXCEPT !.todo = @ \ {i}, !.busy = @ \cup {i}]
            /\ maps' = Put(maps, TileFileOf(i), "partial")
    /\ UNCHANGED <<dbc, cameras>>

\* The file is written, or an error cuts it short.
EndTile(i, state) ==
    /\ mx.phase = "convert"
    /\ i \in mx.busy
    /\ maps' = Put(maps, TileFileOf(i), state)
    /\ mx' = IF state = "whole" THEN [mx EXCEPT !.busy = @ \ {i}]
             ELSE [mx EXCEPT !.busy = @ \ {i}, !.errors = @ \cup {i},
                             !.todo = IF mx.pool THEN @ ELSE {}]
    /\ UNCHANGED <<dbc, cameras>>

\* A mutant: the errors of the workers are only logged.
MapConverted_DropsErrors ==
    /\ mx.phase = "convert"
    /\ mx.todo = {} /\ mx.busy = {}
    /\ mx' = [mx EXCEPT !.phase = "map", !.at = @ + 1]
    /\ UNCHANGED <<dbc, cameras, maps>>

\* The first error of the map is returned once all of its tiles are through.
MapConverted ==
    /\ mx.phase = "convert"
    /\ mx.todo = {} /\ mx.busy = {}
    /\ mx' = IF mx.errors # {} THEN IdleMap("failed")
             ELSE [mx EXCEPT !.phase = "map", !.at = @ + 1]
    /\ UNCHANGED <<dbc, cameras, maps>>

\* The process is killed, or the write of a DBC or camera file fails and ends it:
\* a file that was being written stays as it is.
StopMap ==
    /\ MapRunning
    /\ mx' = IdleMap("stopped")
    /\ UNCHANGED <<dbc, cameras, maps>>

MapStep ==
    \/ WriteDbc \/ WriteCamera \/ NextMap \/ MapConverted
    \/ mx.phase = "convert" /\ \E i \in mx.todo : BeginTile(i)
    \/ mx.phase = "convert" /\ \E i \in mx.busy : EndTile(i, "whole")

MapFault ==
    \/ StopMap
    \/ mx.phase = "convert" /\ \E i \in mx.busy : EndTile(i, "partial")
=============================================================================
