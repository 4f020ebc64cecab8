----------------------------- MODULE GameClient -----------------------------
(***************************************************************************)
(* The client installation the offline tools read: what their archive      *)
(* reader (MpqManager) finds in it.  It does not change while they run.    *)
(***************************************************************************)
EXTENDS Naturals, Sequences

CONSTANTS
    Clients,  \* the installations: records
              \*   locales   the locales, each with the names of its DBC files
              \*   cameras   None, or the files CinematicCamera.dbc names, of
              \*             those the archives have
              \*   maps      the records of Map.dbc: id, wdt ("ok", "no_mver",
              \*             "bad" or None), modf (None or the global WMO) and
              \*             tiles (tile, has_adt, adt and its placements)
              \*   wmos      the names of the root WMO files, in order
              \*   displays  the names in GameObjectDisplayInfo.dbc, in order
    Threads,  \* the size of the worker pools
    None

\* Map ids have at most three digits, as the names of all files do; a WDT has
\* 64 by 64 tiles.
MapIds == 0 .. 999
TileCoords == (0 .. 63) \X (0 .. 63)

IsList(s) == s \in Seq({s[i] : i \in DOMAIN s})

ASSUME ClientsFit ==
    \A c \in Clients :
        /\ IsList(c.locales) /\ \A i \in DOMAIN c.locales : IsList(c.locales[i].dbc)
        /\ c.cameras # None => IsList(c.cameras)
        /\ IsList(c.maps)
        /\ \A i \in DOMAIN c.maps :
              /\ c.maps[i].id \in MapIds
              /\ \A k \in DOMAIN c.maps[i].tiles :
                    c.maps[i].tiles[k].tile \in TileCoords

ASSUME ThreadsAssumption == Threads \in Nat \ {0}
ASSUME NoneIsNoWdt == None # "ok"

VARIABLE client

ClientInit == client \in Clients
=============================================================================
