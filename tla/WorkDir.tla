------------------------------ MODULE WorkDir -------------------------------
(***************************************************************************)
(* The working directory of the offline tools: the files each of them      *)
(* leaves there for the ones after it.  A directory is None until a tool   *)
(* has made it, then a function from file names to what the file holds.    *)
(***************************************************************************)
EXTENDS GameClient

VARIABLES
    dbc,        \* (directory, file) -> state
    cameras,    \* file -> state
    maps,       \* None, or (map, tile) -> state
    buildings,  \* None, or raw file name -> stage
    dir_bin,    \* None, or the records written and whether the last is torn
    gobj_list,  \* None, or the names written and whether the last is torn
    vmaps,      \* None, or trees, tiles, list and vmos of the directory
    mmaps       \* None, or params (None for a torn file) and tiles of the directory

\* The names of the .map files: three digits, and two of each coordinate.
TileKeys == MapIds \X TileCoords

\* A file that a tool writes in one go, once it is created.
FileStates == {"partial", "whole"}

\* The tiles the client has, by the names of their .map files.
TilesOf(c) == UNION {{<<m.id, m.tiles[k].tile>> : k \in DOMAIN m.tiles} :
                        m \in {c.maps[i] : i \in DOMAIN c.maps}}

ASSUME NoneIsNoDirectory ==
    \A c \in Clients : \A S \in SUBSET TilesOf(c) : None \notin [S -> FileStates]

\* A directory with one file written, or created.
Put(dir, name, state) == [n \in DOMAIN dir \cup {name} |->
                             IF n = name THEN state ELSE dir[n]]
=============================================================================
