--------------------------- MODULE MCOfflineTools ---------------------------
(* A keep that stands in two tiles, with a banner whose model only the       *)
(* second tile extracts under the name it is looked up by; a hut whose       *)
(* unique id is the index of a tree's name; a map that is one global keep;   *)
(* a map whose WDT has no MVER.  The second client has an ADT that is not a  *)
(* root and a WMO only a game object names, the third a WDT and an ADT that  *)
(* cannot be read, the last little to extract (with a pond whose liquid has  *)
(* no vertices) and something for the generator.                             *)
EXTENDS OfflineTools

\* The banner's file name is not the one extract_doodad_set looks for.
MCModel == [crate |-> "solid", banner |-> "solid", tree |-> "solid",
            film |-> "flat", cloud |-> "empty", gone |-> "missing", rotten |-> "bad", Banner |-> "solid"]
MCFixedName == [m \in DOMAIN MCModel |-> IF m = "banner" THEN "Banner" ELSE m]

MCWmo ==
    [hut  |-> [opens |-> TRUE, modn |-> <<"banner", "cloud">>, doodads |-> <<"banner", "cloud">>,
               sets |-> <<[start |-> 0, count |-> 2]>>,
               groups |-> <<[kept |-> TRUE, tris |-> 1, refs |-> {0, 1, 9}, hollow |-> FALSE]>>],
     keep |-> [opens |-> TRUE, modn |-> <<"crate", "banner">>, doodads |-> <<"banner", "crate">>,
               sets |-> <<[start |-> 0, count |-> 2], [start |-> 1, count |-> 1]>>,
               groups |-> <<[kept |-> TRUE,  tris |-> 2, refs |-> {0, 1}, hollow |-> FALSE],
                            [kept |-> FALSE, tris |-> 1, refs |-> {}, hollow |-> FALSE]>>],
     pond |-> [opens |-> TRUE, modn |-> <<>>, doodads |-> <<>>, sets |-> <<>>,
               groups |-> <<[kept |-> TRUE, tris |-> 1, refs |-> {}, hollow |-> TRUE]>>],
     lost |-> [opens |-> FALSE, modn |-> <<>>, doodads |-> <<>>, sets |-> <<>>,
               groups |-> <<>>]]

At(name_id, uid, set) == [name_id |-> name_id, uid |-> uid, set |-> set, destroyable |-> FALSE]

Tile(x, y, adt, m2s, placements) ==
    [tile |-> <<x, y>>, has_adt |-> TRUE, adt |-> adt,
     models |-> <<"tree", "film">>, m2s |-> m2s,
     wmos |-> <<"keep", "hut">>, placements |-> placements]

Tree(uid) == [name_id |-> 0, uid |-> uid]

West  == Tile(32, 48, "root", <<Tree(500), Tree(501), [name_id |-> 7, uid |-> 502]>>,
              <<At(0, 700, 0)>>)
East  == [Tile(33, 48, "root", <<[name_id |-> 1, uid |-> 503]>>,
              <<At(0, 700, 0), [At(1, 701, 0) EXCEPT !.destroyable = TRUE], At(1, 0, 0),
                At(7, 702, 0)>>) EXCEPT !.models = Append(@, "Banner")]
North == Tile(33, 49, None, <<>>, <<>>)
Hidden == [Tile(1, 2, "root", <<>>, <<At(1, 900, 0)>>) EXCEPT !.has_adt = FALSE]

Land(tiles) == [id |-> 1, wdt |-> "ok", modf |-> None, tiles |-> tiles]
Cave == [id |-> 2, wdt |-> "ok", tiles |-> <<>>,
         modf |-> [wmos |-> <<"keep">>, placements |-> <<At(0, 800, 0), At(0, 801, 5)>>]]
Isle == [id |-> 3, wdt |-> "no_mver", modf |-> None, tiles |-> <<Hidden>>]
Void == [id |-> 4, wdt |-> "bad", modf |-> None, tiles |-> <<>>]
Sky  == [id |-> 5, wdt |-> None, modf |-> None, tiles |-> <<>>]

Locale(name, files) == [name |-> name, dbc |-> files]

Good == [locales |-> <<Locale("enUS", <<"Map">>), Locale("deDE", <<"Map">>)>>,
         cameras |-> <<"fly">>, wmos |-> <<"hut", "keep">>,
         displays |-> <<"film", "keep", "lost", "gone", "mdl">>,
         maps |-> <<Land(<<West, East, North>>), Cave, Isle, Sky>>]
Bad  == [locales |-> <<Locale("enUS", <<>>)>>, cameras |-> None, wmos |-> <<>>,
         displays |-> <<"hut", "rotten">>,
         maps |-> <<Land(<<[West EXCEPT !.adt = "split"], [North EXCEPT !.adt = "root"]>>)>>]
Plain == [locales |-> <<Locale("enUS", <<>>)>>, cameras |-> None, wmos |-> <<"hut", "pond">>,
          displays |-> <<>>,
          maps |-> <<Land(<<[West EXCEPT !.m2s = <<Tree(500)>>, !.placements = <<>>],
                            [East EXCEPT !.placements = <<>>, !.models = West.models]>>),
                     [Cave EXCEPT !.modf.wmos = <<"pond">>],
                     [Isle EXCEPT !.wdt = "ok",
                                  !.tiles = <<[Hidden EXCEPT !.has_adt = TRUE]>>]>>]

Worse == [Bad EXCEPT !.maps = <<[Void EXCEPT !.tiles = <<[East EXCEPT !.adt = "bad"]>>]>>]

MCClients == {Good, Bad, Worse, Plain}

Maps(sections) == [tool |-> "map-dbc", args |-> sections]
All     == {"dbc", "camera", "map"}
Extract == [tool |-> "vmap-extract"]
Assemble == [tool |-> "vmap-assemble"]
Generate(tile, ids) == [tool |-> "move-map-gen", args |-> [tile |-> tile, ids |-> ids]]
Everything == Generate(None, <<>>)

MCPlans == [c \in MCClients |->
    IF c = Good THEN {<<Maps(All), Maps(All)>>, <<Extract, Extract, Assemble>>}
    ELSE IF c \in {Bad, Worse} THEN {<<Assemble, Maps(All), Extract, Assemble>>}
    ELSE {<<Extract, Assemble, Assemble>>,
          <<Everything, Extract, Assemble, Maps({"map"}), Everything>>,
          <<Extract, Assemble, Maps({"map"}), Generate(<<33, 49>>, <<1>>),
            Generate(<<33, 48>>, <<1>>), Generate(<<33, 48>>, <<>>), Generate(None, <<3, 9>>)>>}]
=============================================================================
