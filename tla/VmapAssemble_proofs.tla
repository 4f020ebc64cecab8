------------------------ MODULE VmapAssemble_proofs ------------------------
(***************************************************************************)
(* For any client, models and number of threads: what the model extractor  *)
(* leaves in Buildings and in dir_bin, wherever it is stopped, and what the *)
(* assembler makes of it.                                                  *)
(***************************************************************************)
EXTENDS VmapAssemble, SetFacts, TLAPS

\* The record that the extractor keeps, by its fields.
ExFields == {"phase", "at", "step", "wmo", "todo", "ids", "wmo_doodads", "out", "doodad_id"}
IsEx(e) == DOMAIN e = ExFields /\ e = [x \in ExFields |-> e[x]]

RawStages == {"stub", "headed", "grouped", "counted", "whole"}

\* A list that does not name this file.
Others(list, w) == IsList(list) /\ \A i \in DOMAIN list : list[i] # w

\* Outside a run no file is open; the file of a model is open between its
\* creation and its last write, that of a WMO is created once its models are
\* extracted.
ExInv ==
    /\ IsEx(ex)
    /\ ~Extracting => ex.step = "next"
    /\ ex.phase = "maps" \/ ex.step \in {"next", "records", "list"} => ex.wmo = None
    /\ ex.step = "m2" => /\ Head(ex.todo) \in DOMAIN buildings
                         /\ buildings[Head(ex.todo)] \in {"stub", "headed"}
    /\ ex.step = "wmo" => /\ ex.wmo \in DOMAIN buildings
                          /\ buildings[ex.wmo] \in RawStages \ {"whole"}
    /\ ex.step \in {"models", "m2"} /\ ex.wmo # None =>
          ex.wmo \notin DOMAIN buildings /\ Others(ex.todo, ex.wmo)
    /\ Extracting => IsList(ex.ids)
    /\ buildings # None \/ Extracting => \A f \in DOMAIN buildings : buildings[f] \in RawStages

\* A raw file whose number of triangles is there.
HasCount(f) == f \in DOMAIN buildings /\ buildings[f] \in {"counted", "whole"}

\* What is recorded has its raw file: that of a WMO has its number of triangles,
\* that of a model has vertices.
RecordOk(r) ==
    /\ r.id \in Nat
    /\ r.world <=> r.tile = GLOBAL_TILE
    /\ r.m2 <=> r.of.what # "wmo"
    /\ r.name \in DOMAIN buildings
    /\ r.m2 => Model[r.name] = "solid"
    /\ ~r.m2 => HasCount(r.name)
DirInv ==
    dir_bin # None \/ ex.step = "records" =>
        /\ dir_bin = [recs |-> dir_bin.recs, torn |-> dir_bin.torn]
        /\ IsList(dir_bin.recs)
        /\ \A i \in DOMAIN dir_bin.recs : RecordOk(dir_bin.recs[i])

\* Only the file of a WMO has a count of triangles to be written.
CountedInv ==
    /\ ex.wmo # None => ex.wmo \in DOMAIN Wmo
    /\ ex.step = "wmo" => ex.wmo # None
    /\ buildings # None \/ Extracting =>
          \A f \in DOMAIN buildings : buildings[f] = "counted" => f \in DOMAIN Wmo

\* A step that the extractor may take, or one of another tool.
ExtractRuns == UNCHANGED extractVars \/ StartExtract \/ ExtractStep \/ StopExtract

\* An extraction has begun to record and has ended: no later run changes what
\* it left.
Sealed == buildings # None /\ dir_bin # None /\ ~Extracting

-----------------------------------------------------------------------------
(* The extractor *)

LEMMA IdleEx ==
    ASSUME NEW how
    PROVE  LET e == IdleExtract(how)
           IN  /\ IsEx(e) /\ e.phase = how /\ e.step = "next" /\ e.wmo = None
               /\ IsList(e.ids)
  <1>1. IsEx(IdleExtract(how))
    BY Zenon DEF IsEx, IdleExtract, ExFields
  <1>2. IsList(<<>>)
    BY DEF IsList
  <1>3. IdleExtract(how).phase = how /\ IdleExtract(how).step = "next"
        /\ IdleExtract(how).wmo = None /\ IdleExtract(how).ids = <<>>
    BY DEF IdleExtract
  <1> QED
    BY <1>1, <1>2, <1>3, Zenon

LEMMA FunctionIsSeq ==
    ASSUME NEW S, NEW n \in Nat, NEW f \in [1 .. n -> S]
    PROVE  f \in Seq(S)
  OBVIOUS

LEMMA SeqIsList ==
    ASSUME NEW S, NEW s \in Seq(S)
    PROVE  IsList(s) /\ Len(s) \in Nat /\ DOMAIN s = 1 .. Len(s)
  <1>1. Len(s) \in Nat /\ DOMAIN s = 1 .. Len(s) /\ s \in [1 .. Len(s) -> S]
    OBVIOUS
  <1>2. s \in [1 .. Len(s) -> {s[i] : i \in DOMAIN s}]
    BY <1>1
  <1>3. s \in Seq({s[i] : i \in DOMAIN s})
    BY <1>1, <1>2, FunctionIsSeq
  <1> QED
    BY <1>1, <1>3 DEF IsList

(* A tail of the list does not name the file either. *)
LEMMA OthersTail ==
    ASSUME NEW list, NEW w, Others(list, w), list # <<>>
    PROVE  Head(list) # w /\ Others(Tail(list), w)
  <1> DEFINE S == {list[i] : i \in DOMAIN list}
  <1>1. list \in Seq(S) /\ Head(list) = list[1] /\ 1 \in DOMAIN list
    BY DEF Others, IsList
  <1>2. Tail(list) \in Seq(S) /\ \A i \in DOMAIN Tail(list) :
             i + 1 \in DOMAIN list /\ Tail(list)[i] = list[i + 1]
    BY <1>1
  <1> QED
    BY <1>1, <1>2, SeqIsList, Zenon DEF Others

LEMMA ListAppend ==
    ASSUME NEW s, IsList(s), NEW e
    PROVE  /\ IsList(Append(s, e)) /\ Len(s) \in Nat /\ DOMAIN s = 1 .. Len(s)
           /\ DOMAIN Append(s, e) = 1 .. Len(s) + 1
           /\ \A i \in DOMAIN s : Append(s, e)[i] = s[i]
           /\ Append(s, e)[Len(s) + 1] = e
  <1> DEFINE S == {s[i] : i \in DOMAIN s} \cup {e}
  <1>1. s \in Seq({s[i] : i \in DOMAIN s})
    BY DEF IsList
  <1>2. Append(s, e) \in Seq(S) /\ s \in Seq(S)
    BY <1>1
  <1>3. IsList(Append(s, e))
    BY <1>2, SeqIsList, Zenon
  <1> QED
    BY <1>2, <1>3

(* A step that writes no raw file. *)
LEMMA QuietEx ==
    ASSUME ExInv, Extracting, buildings' = buildings, IsEx(ex'), IsList(ex'.ids),
           ex'.step \in {"next", "models", "records", "list"}, ex.step # "wmo",
           ~Extracting' => ex'.step = "next",
           ex'.phase = "maps" \/ ex'.step # "models" => ex'.wmo = None,
           ex'.wmo \in {ex.wmo, None} \/ ex'.wmo \in DOMAIN Wmo,
           ex'.step = "models" /\ ex'.wmo # None =>
               ex'.wmo \notin DOMAIN buildings /\ Others(ex'.todo, ex'.wmo)
    PROVE  ExInv' /\ (CountedInv => CountedInv')
  <1>1. ex'.step # "m2" /\ ex'.step # "wmo"
    OBVIOUS
  <1>2. \A f \in DOMAIN buildings : buildings[f] \in RawStages
    BY Zenon DEF ExInv
  <1>3. ExInv'
    BY <1>1, <1>2, Zenon DEF ExInv
  <1>4. CountedInv => CountedInv'
    BY <1>1 DEF CountedInv
  <1> QED
    BY <1>3, <1>4

(* The steps of a run are steps of a running extractor. *)
LEMMA StepsRun ==
    ASSUME ExInv, ExtractStep \/ StopExtract
    PROVE  Extracting /\ IsEx(ex) /\ IsList(ex.ids)
  <1>1. Extracting
    <2>1. CASE ex.step # "next"
      BY <2>1, Zenon DEF ExInv
    <2>2. CASE ex.step = "next"
      <3>1. ex.step \notin {"models", "m2", "wmo", "records", "list"}
        BY <2>2
      <3>2. NextWmo \/ NextTile \/ NextDisplay \/ StopExtract
        BY <3>1, Zenon DEF ExtractStep, NextModel, WriteModel, CreateWmo, WriteWmo, OpenDirBin,
                           WriteSpawn, TileDone, DisplayModelDone, WriteDisplay
      <3> QED
        BY <3>2 DEF Extracting, NextWmo, NextTile, NextDisplay, StopExtract
    <2> QED
      BY <2>1, <2>2
  <1> QED
    BY <1>1, Zenon DEF ExInv

LEMMA BeginWmoEx ==
    ASSUME ExInv, Extracting, ex.phase # "maps", ex.step = "next", NEW w, WmoNeedsWork(w),
           BeginWmo(w), buildings' = buildings
    PROVE  ExInv' /\ (CountedInv => CountedInv')
  <1>1. IsEx(ex) /\ IsList(ex.ids)
    BY Zenon DEF ExInv
  <1>2. ex' = [ex EXCEPT !.step = "models", !.wmo = w, !.todo = Wmo[w].modn]
    BY DEF BeginWmo
  <1>3. IsEx(ex')
    BY <1>1, <1>2, Zenon DEF IsEx
  <1>4. /\ ex'.step = "models" /\ ex'.wmo = w /\ ex'.todo = Wmo[w].modn
        /\ ex'.phase = ex.phase /\ ex'.ids = ex.ids
    BY <1>1, <1>2, Zenon DEF IsEx, ExFields
  <1>5. w \in DOMAIN Wmo /\ w \notin DOMAIN buildings /\ Others(Wmo[w].modn, w)
    BY ModelsAreNoWmos DEF WmoNeedsWork, Others
  <1>6. Extracting'
    BY <1>4 DEF Extracting
  <1> QED
    BY <1>1, <1>3, <1>4, <1>5, <1>6, QuietEx

LEMMA NextWmoEx ==
    ASSUME ExInv, NextWmo
    PROVE  ExInv' /\ (CountedInv => CountedInv')
  <1>0. ExtractStep
    BY Zenon DEF ExtractStep
  <1>1. Extracting /\ IsEx(ex) /\ IsList(ex.ids) /\ ex.phase = "wmos" /\ ex.step = "next"
        /\ buildings' = buildings /\ ex.wmo = None
    BY <1>0, StepsRun, Zenon DEF NextWmo, ExInv
  <1>2. CASE WmoNeedsWork(client.wmos[ex.at]) /\ BeginWmo(client.wmos[ex.at])
    BY <1>1, <1>2, BeginWmoEx
  <1>3. ASSUME NEW phase \in {"wmos", "maps"}, NEW at, ex' = [ex EXCEPT !.phase = phase, !.at = at]
        PROVE  ExInv' /\ (CountedInv => CountedInv')
    <2>1. IsEx(ex')
      BY <1>1, <1>3, Zenon DEF IsEx
    <2>2. /\ ex'.step = "next" /\ ex'.wmo = None /\ ex'.phase = phase /\ ex'.ids = ex.ids
      BY <1>1, <1>3, Zenon DEF IsEx, ExFields
    <2>3. Extracting'
      BY <2>2 DEF Extracting
    <2> QED
      BY <1>1, <2>1, <2>2, <2>3, QuietEx
  <1>4. CASE ex' = [ex EXCEPT !.at = @ + 1]
    <2>1. ex' = [ex EXCEPT !.phase = "wmos", !.at = ex.at + 1]
      BY <1>1, <1>4, Zenon DEF IsEx, ExFields
    <2> QED
      BY <1>3, <2>1, Zenon
  <1>5. CASE ex' = [ex EXCEPT !.phase = "maps", !.at = 1]
    BY <1>3, <1>5, Zenon
  <1> QED
    BY <1>2, <1>4, <1>5, Zenon DEF NextWmo

\* What no step takes away: files, and the number of triangles of a WMO.
Grows == DOMAIN buildings \subseteq DOMAIN buildings' /\ \A f : HasCount(f) => HasCount(f)'

LEMMA FailedEx ==
    ASSUME ExInv, Extracting, ex.step # "wmo", buildings' = buildings, NEW how,
           how \notin {"wmos", "maps", "gobjs"}, ex' = IdleExtract(how)
    PROVE  ExInv' /\ (CountedInv => CountedInv')
  <1>1. /\ IsEx(ex') /\ ex'.phase = how /\ ex'.step = "next" /\ ex'.wmo = None
        /\ IsList(ex'.ids)
    BY IdleEx
  <1> QED
    BY <1>1, QuietEx

LEMMA NextModelEx ==
    ASSUME ExInv, NextModel
    PROVE  ExInv' /\ (CountedInv => CountedInv') /\ Grows
  <1> DEFINE f == Head(ex.todo)
  <1>0. ExtractStep
    BY Zenon DEF ExtractStep
  <1>1. Extracting /\ IsEx(ex) /\ IsList(ex.ids) /\ ex.step = "models" /\ ex.todo # <<>>
    BY <1>0, StepsRun, Zenon DEF NextModel
  <1>2. /\ ex.phase = "maps" => ex.wmo = None
        /\ ex.wmo # None => ex.wmo \notin DOMAIN buildings /\ Others(ex.todo, ex.wmo)
        /\ \A g \in DOMAIN buildings : buildings[g] \in RawStages
    BY <1>1 DEF ExInv
  <1>3. ex.wmo # None => f # ex.wmo /\ Others(Tail(ex.todo), ex.wmo)
    BY <1>1, <1>2, OthersTail
  <1>4. CASE ex' = [ex EXCEPT !.todo = Tail(@)] /\ buildings' = buildings
    <2>1. IsEx(ex')
      BY <1>1, <1>4, Zenon DEF IsEx
    <2>2. /\ ex'.step = "models" /\ ex'.wmo = ex.wmo /\ ex'.phase = ex.phase
          /\ ex'.ids = ex.ids /\ ex'.todo = Tail(ex.todo)
      BY <1>1, <1>4, Zenon DEF IsEx, ExFields
    <2>3. Extracting'
      BY <1>1, <2>2 DEF Extracting
    <2> QED
      BY <1>1, <1>2, <1>3, <1>4, <2>1, <2>2, <2>3, QuietEx DEF Grows, HasCount
  <1>5. CASE ex' = IdleExtract("failed") /\ buildings' = buildings
    BY <1>1, <1>5, FailedEx DEF Grows, HasCount
  <1>6. CASE f \notin DOMAIN buildings /\ ex' = [ex EXCEPT !.step = "m2"]
             /\ buildings' = WithFile(f, "stub")
    <2>1. IsEx(ex')
      BY <1>1, <1>6, Zenon DEF IsEx
    <2>2. /\ ex'.step = "m2" /\ ex'.wmo = ex.wmo /\ ex'.phase = ex.phase
          /\ ex'.ids = ex.ids /\ ex'.todo = ex.todo
      BY <1>1, <1>6, Zenon DEF IsEx, ExFields
    <2>3. Extracting'
      BY <1>1, <2>2 DEF Extracting
    <2>4. PICK file : file = f
      OBVIOUS
    <2>5. /\ DOMAIN buildings' = DOMAIN buildings \cup {file} /\ buildings'[file] = "stub"
          /\ \A g \in DOMAIN buildings : g # file => buildings'[g] = buildings[g]
          /\ file \notin DOMAIN buildings
      BY <1>6, <2>4 DEF WithFile
    <2>6. Head(ex'.todo) = file
      BY <2>2, <2>4
    <2>7. \A g \in DOMAIN buildings' : buildings'[g] \in RawStages
      BY <1>2, <2>5 DEF RawStages
    <2>8. ex'.wmo # None => ex'.wmo \notin DOMAIN buildings' /\ Others(ex'.todo, ex'.wmo)
      BY <1>2, <1>3, <2>2, <2>4, <2>5
    <2> HIDE DEF f
    <2>9. ExInv'
      BY <1>1, <1>2, <2>1, <2>2, <2>3, <2>5, <2>6, <2>7, <2>8 DEF ExInv
    <2>10. CountedInv => CountedInv'
      BY <1>1, <2>2, <2>5 DEF CountedInv
    <2>11. Grows
      BY <2>5 DEF Grows, HasCount
    <2> QED
      BY <2>9, <2>10, <2>11
  <1> QED
    BY <1>4, <1>5, <1>6, Zenon DEF NextModel

LEMMA WriteModelEx ==
    ASSUME ExInv, WriteModel
    PROVE  ExInv' /\ (CountedInv => CountedInv') /\ Grows
  <1>0. ExtractStep
    BY Zenon DEF ExtractStep
  <1>1. Extracting /\ IsEx(ex) /\ IsList(ex.ids) /\ ex.step = "m2"
    BY <1>0, StepsRun, Zenon DEF WriteModel
  <1>2. PICK f : f = Head(ex.todo)
    OBVIOUS
  <1>3. /\ ex.phase = "maps" => ex.wmo = None
        /\ ex.wmo # None => ex.wmo \notin DOMAIN buildings /\ Others(ex.todo, ex.wmo)
        /\ \A g \in DOMAIN buildings : buildings[g] \in RawStages
        /\ f \in DOMAIN buildings /\ buildings[f] \in {"stub", "headed"}
    BY <1>1, <1>2 DEF ExInv
  <1>4. CASE buildings' = WithFile(f, "headed") /\ ex' = ex
    <2>1. /\ DOMAIN buildings' = DOMAIN buildings /\ buildings'[f] = "headed"
          /\ \A g \in DOMAIN buildings : g # f => buildings'[g] = buildings[g]
      BY <1>3, <1>4 DEF WithFile
    <2>2. \A g \in DOMAIN buildings' : buildings'[g] \in RawStages
      BY <1>3, <2>1 DEF RawStages
    <2>3. ExInv'
      BY <1>1, <1>2, <1>3, <1>4, <2>1, <2>2 DEF ExInv, Extracting
    <2>4. CountedInv => CountedInv'
      BY <1>1, <1>3, <1>4, <2>1 DEF CountedInv
    <2>5. Grows
      BY <1>3, <2>1 DEF Grows, HasCount
    <2> QED
      BY <2>3, <2>4, <2>5
  <1>5. CASE /\ buildings' = WithFile(f, "whole")
             /\ ex' = [ex EXCEPT !.step = "models", !.todo = Tail(@)]
    <2>1. IsEx(ex')
      BY <1>1, <1>5, Zenon DEF IsEx
    <2>2. /\ ex'.step = "models" /\ ex'.wmo = ex.wmo /\ ex'.phase = ex.phase
          /\ ex'.ids = ex.ids /\ ex'.todo = Tail(ex.todo)
      BY <1>1, <1>5, Zenon DEF IsEx, ExFields
    <2>3. Extracting'
      BY <1>1, <2>2 DEF Extracting
    <2>4. /\ DOMAIN buildings' = DOMAIN buildings /\ buildings'[f] = "whole"
          /\ \A g \in DOMAIN buildings : g # f => buildings'[g] = buildings[g]
      BY <1>3, <1>5 DEF WithFile
    <2>5. \A g \in DOMAIN buildings' : buildings'[g] \in RawStages
      BY <1>3, <2>4 DEF RawStages
    <2>6. ex'.wmo # None => ex'.wmo \notin DOMAIN buildings' /\ Others(ex'.todo, ex'.wmo)
      <3>1. ASSUME ex.wmo # None PROVE Others(Tail(ex.todo), ex.wmo)
        <4>1. CASE ex.todo # <<>>
          BY <1>3, <3>1, <4>1, OthersTail
        <4>2. CASE ex.todo = <<>>
          BY <1>3, <3>1, <4>2 DEF Others, IsList
        <4> QED
          BY <4>1, <4>2
      <3> QED
        BY <1>3, <2>2, <2>4, <3>1
    <2>7. ExInv'
      BY <1>1, <1>3, <2>1, <2>2, <2>3, <2>5, <2>6 DEF ExInv
    <2>8. CountedInv => CountedInv'
      BY <1>1, <1>3, <2>2, <2>4 DEF CountedInv
    <2>9. Grows
      BY <1>3, <2>4 DEF Grows, HasCount
    <2> QED
      BY <2>7, <2>8, <2>9
  <1> QED
    BY <1>2, <1>4, <1>5, Zenon DEF WriteModel

LEMMA CreateWmoEx ==
    ASSUME ExInv, CreateWmo
    PROVE  ExInv' /\ (CountedInv => CountedInv') /\ Grows
  <1>0. ExtractStep
    BY Zenon DEF ExtractStep
  <1>1. Extracting /\ IsEx(ex) /\ IsList(ex.ids) /\ ex.step = "models" /\ ex.wmo # None
    BY <1>0, StepsRun, Zenon DEF CreateWmo
  <1>2. /\ ex.phase # "maps" /\ ex.wmo \notin DOMAIN buildings
        /\ \A g \in DOMAIN buildings : buildings[g] \in RawStages
    BY <1>1 DEF ExInv
  <1>3. PICK w : w = ex.wmo
    OBVIOUS
  <1>4. buildings' = WithFile(w, "stub") /\ ex' = [ex EXCEPT !.step = "wmo"]
    BY <1>3, Zenon DEF CreateWmo
  <1>5. IsEx(ex')
    BY <1>1, <1>4, Zenon DEF IsEx
  <1>6. ex'.step = "wmo" /\ ex'.wmo = w /\ ex'.phase = ex.phase /\ ex'.ids = ex.ids
    BY <1>1, <1>3, <1>4, Zenon DEF IsEx, ExFields
  <1>7. Extracting'
    BY <1>1, <1>6 DEF Extracting
  <1>8. /\ DOMAIN buildings' = DOMAIN buildings \cup {w} /\ buildings'[w] = "stub"
        /\ \A g \in DOMAIN buildings : g # w /\ buildings'[g] = buildings[g]
    BY <1>2, <1>3, <1>4 DEF WithFile
  <1>9. \A g \in DOMAIN buildings' : buildings'[g] \in RawStages
    BY <1>2, <1>8 DEF RawStages
  <1>10. ExInv'
    BY <1>1, <1>2, <1>5, <1>6, <1>7, <1>8, <1>9 DEF ExInv, RawStages
  <1>11. CountedInv => CountedInv'
    BY <1>1, <1>3, <1>6, <1>8 DEF CountedInv
  <1>12. Grows
    BY <1>8 DEF Grows, HasCount
  <1> QED
    BY <1>10, <1>11, <1>12

LEMMA WriteWmoEx ==
    ASSUME ExInv, WriteWmo
    PROVE  ExInv' /\ (CountedInv => CountedInv') /\ Grows
  <1>0. ExtractStep
    BY Zenon DEF ExtractStep
  <1>1. Extracting /\ IsEx(ex) /\ IsList(ex.ids) /\ ex.step = "wmo"
    BY <1>0, StepsRun, Zenon DEF WriteWmo
  <1>2. PICK w, stage : w = ex.wmo /\ stage = NextStage(buildings[w])
    OBVIOUS
  <1>3. /\ ex.phase # "maps" \/ w = None
        /\ w \in DOMAIN buildings /\ buildings[w] \in RawStages \ {"whole"}
        /\ \A g \in DOMAIN buildings : buildings[g] \in RawStages
    BY <1>1, <1>2 DEF ExInv
  <1>4. /\ stage \in RawStages
        /\ stage = "whole" <=> buildings[w] = "counted"
    BY <1>2, <1>3 DEF NextStage, RawStages
  <1>5. buildings' = WithFile(w, stage)
    BY <1>2, Zenon DEF WriteWmo
  <1>6. /\ DOMAIN buildings' = DOMAIN buildings /\ buildings'[w] = stage
        /\ \A g \in DOMAIN buildings : g # w => buildings'[g] = buildings[g]
    BY <1>3, <1>5 DEF WithFile
  <1>7. \A g \in DOMAIN buildings' : buildings'[g] \in RawStages
    BY <1>3, <1>4, <1>6
  <1>8. Grows
    BY <1>3, <1>4, <1>6 DEF Grows, HasCount
  <1>9. CASE stage # "whole" /\ ex' = ex
    <2>1. ExInv'
      BY <1>1, <1>2, <1>3, <1>4, <1>6, <1>7, <1>9 DEF ExInv, Extracting
    <2>2. CountedInv => CountedInv'
      BY <1>1, <1>2, <1>6, <1>9 DEF CountedInv
    <2> QED
      BY <1>8, <2>1, <2>2
  <1>10. ASSUME stage = "whole", NEW doodads, NEW at, NEW step \in {"list", "next"},
                ex' = [ex EXCEPT !.wmo_doodads = doodads, !.step = step, !.wmo = None, !.at = at]
         PROVE  ExInv' /\ (CountedInv => CountedInv') /\ Grows
    <2>1. IsEx(ex')
      BY <1>1, <1>10, Zenon DEF IsEx
    <2>2. ex'.step = step /\ ex'.wmo = None /\ ex'.phase = ex.phase /\ ex'.ids = ex.ids
      BY <1>1, <1>10, Zenon DEF IsEx, ExFields
    <2>3. Extracting'
      BY <1>1, <2>2 DEF Extracting
    <2>4. ExInv'
      BY <1>1, <1>7, <1>10, <2>1, <2>2, <2>3 DEF ExInv
    <2>5. CountedInv => CountedInv'
      BY <1>1, <1>2, <1>6, <1>10, <2>2 DEF CountedInv
    <2> QED
      BY <1>8, <2>4, <2>5
  <1>11. CASE /\ ~(NextStage(buildings[ex.wmo]) # "whole")
              /\ \E order \in Orders(References(ex.wmo)) :
                    ex' = [ex EXCEPT
                             !.wmo_doodads = [n \in DOMAIN @ \cup {ex.wmo} |->
                                                IF n = ex.wmo THEN order ELSE @[n]],
                             !.step = IF ex.phase = "gobjs" THEN "list" ELSE "next",
                             !.wmo = None,
                             !.at = IF ex.phase = "gobjs" THEN @ ELSE @ + 1]
    <2>1. PICK doodads, at, step :
             /\ step \in {"list", "next"}
             /\ ex' = [ex EXCEPT !.wmo_doodads = doodads, !.step = step, !.wmo = None, !.at = at]
      BY <1>11, Zenon
    <2> QED
      BY <1>2, <1>10, <1>11, <2>1, Zenon
  <1> QED
    <2>1. CASE NextStage(buildings[ex.wmo]) # "whole" /\ UNCHANGED ex
      BY <1>2, <1>9, <2>1
    <2> QED
      BY <1>11, <2>1, Zenon DEF WriteWmo

LEMMA NextTileEx ==
    ASSUME ExInv, NextTile
    PROVE  ExInv' /\ (CountedInv => CountedInv')
  <1>0. ExtractStep
    BY Zenon DEF ExtractStep
  <1>1. /\ Extracting /\ IsEx(ex) /\ IsList(ex.ids) /\ ex.phase = "maps" /\ ex.step = "next"
        /\ buildings' = buildings /\ ex.wmo = None
    BY <1>0, StepsRun, Zenon DEF NextTile, ExInv
  <1>2. CASE ex' = IdleExtract("failed")
    BY <1>1, <1>2, FailedEx
  <1>3. ASSUME NEW phase \in {"maps", "gobjs"}, NEW at, NEW step \in {"next", "models"}, NEW todo,
               ex' = [ex EXCEPT !.phase = phase, !.at = at, !.step = step, !.todo = todo]
        PROVE  ExInv' /\ (CountedInv => CountedInv')
    <2>1. IsEx(ex')
      BY <1>1, <1>3, Zenon DEF IsEx
    <2>2. ex'.step = step /\ ex'.wmo = None /\ ex'.phase = phase /\ ex'.ids = ex.ids
      BY <1>1, <1>3, Zenon DEF IsEx, ExFields
    <2>3. Extracting'
      BY <2>2 DEF Extracting
    <2> QED
      BY <1>1, <2>1, <2>2, <2>3, QuietEx
  <1>4. \/ ex' = [ex EXCEPT !.phase = "gobjs", !.at = 1]
        \/ ex' = [ex EXCEPT !.step = "models", !.todo = Jobs[ex.at].models]
        \/ ex' = [ex EXCEPT !.at = @ + 1]
        \/ ex' = IdleExtract("failed")
    BY DEF NextTile
  <1>5. CASE ex' = [ex EXCEPT !.phase = "gobjs", !.at = 1]
    <2>1. ex' = [ex EXCEPT !.phase = "gobjs", !.at = 1, !.step = "next", !.todo = ex.todo]
      BY <1>1, <1>5, Zenon DEF IsEx, ExFields
    <2> QED
      BY <1>3, <2>1, Zenon
  <1>6. CASE ex' = [ex EXCEPT !.step = "models", !.todo = Jobs[ex.at].models]
    <2>1. PICK todo : todo = Jobs[ex.at].models
      OBVIOUS
    <2>2. ex' = [ex EXCEPT !.phase = "maps", !.at = ex.at, !.step = "models", !.todo = todo]
      BY <1>1, <1>6, <2>1, Zenon DEF IsEx, ExFields
    <2> QED
      BY <1>3, <2>2, Zenon
  <1>7. CASE ex' = [ex EXCEPT !.at = @ + 1]
    <2>1. ex' = [ex EXCEPT !.phase = "maps", !.at = ex.at + 1, !.step = "next", !.todo = ex.todo]
      BY <1>1, <1>7, Zenon DEF IsEx, ExFields
    <2> QED
      BY <1>3, <2>1, Zenon
  <1> QED
    BY <1>2, <1>4, <1>5, <1>6, <1>7

LEMMA OpenDirBinEx ==
    ASSUME ExInv, OpenDirBin
    PROVE  /\ ExInv' /\ (CountedInv => CountedInv')
           /\ ex'.step = "records" /\ ex.step = "models" /\ buildings' = buildings
  <1>0. ExtractStep
    BY Zenon DEF ExtractStep
  <1>1. /\ Extracting /\ IsEx(ex) /\ IsList(ex.ids) /\ ex.phase = "maps" /\ ex.step = "models"
        /\ buildings' = buildings /\ ex.wmo = None
    BY <1>0, StepsRun, Zenon DEF OpenDirBin, ExInv
  <1>2. PICK out : ex' = [ex EXCEPT !.step = "records", !.out = out]
    BY Zenon DEF OpenDirBin
  <1>3. IsEx(ex')
    BY <1>1, <1>2, Zenon DEF IsEx
  <1>4. ex'.step = "records" /\ ex'.wmo = None /\ ex'.phase = "maps" /\ ex'.ids = ex.ids
    BY <1>1, <1>2, Zenon DEF IsEx, ExFields
  <1>5. Extracting'
    BY <1>4 DEF Extracting
  <1> QED
    BY <1>1, <1>3, <1>4, <1>5, QuietEx

LEMMA GenerateIs ==
    ASSUME NEW ids, IsList(ids), NEW key
    PROVE  IsList(generate(ids, key)) /\ IdOf(generate(ids, key), key) \in Nat
  <1>1. CASE \E i \in DOMAIN ids : ids[i] = key
    <2>1. generate(ids, key) = ids
      BY <1>1 DEF generate
    <2>2. DOMAIN ids \subseteq Nat
      BY SeqIsList DEF IsList
    <2>3. IdOf(ids, key) \in DOMAIN ids
      BY <1>1 DEF IdOf
    <2> QED
      BY <2>1, <2>2, <2>3
  <1>2. CASE ~\E i \in DOMAIN ids : ids[i] = key
    <2>1. generate(ids, key) = Append(ids, key)
      BY <1>2 DEF generate
    <2>2. PICK more : more = Append(ids, key)
      BY Zenon
    <2>3. IsList(more) /\ DOMAIN more \subseteq Nat /\ \E i \in DOMAIN more : more[i] = key
      BY <2>2, ListAppend
    <2>4. IdOf(more, key) \in DOMAIN more
      BY <2>3 DEF IdOf
    <2> QED
      BY <2>1, <2>2, <2>3, <2>4
  <1> QED
    BY <1>1, <1>2

(* What write_spawn does with the first placement of the tile that is left. *)
LEMMA WriteSpawnEffect ==
    ASSUME ExInv, WriteSpawn
    PROVE  /\ ExInv' /\ (CountedInv => CountedInv') /\ buildings' = buildings
           /\ ex.step = "records"
           /\ \/ dir_bin' = dir_bin
              \/ \E s, ids : /\ ids = generate(ex.ids, Key(s)) /\ ~Unplaceable(s)
                             /\ buildings[s.name] # "stub"
                             /\ dir_bin' = [dir_bin EXCEPT !.recs = Append(@, Record(s, ids))]
  <1>0. ExtractStep
    BY Zenon DEF ExtractStep
  <1>1. /\ Extracting /\ IsEx(ex) /\ IsList(ex.ids) /\ ex.step = "records"
        /\ buildings' = buildings /\ ex.wmo = None
    BY <1>0, StepsRun, Zenon DEF WriteSpawn, ExInv
  <1>2. CASE ex' = IdleExtract("failed") /\ dir_bin' = dir_bin
    BY <1>1, <1>2, FailedEx
  <1>3. ASSUME NEW out, NEW ids, IsList(ids), NEW number,
               ex' = [ex EXCEPT !.out = out, !.ids = ids, !.doodad_id = number]
        PROVE  ExInv' /\ (CountedInv => CountedInv')
    <2>1. IsEx(ex')
      BY <1>1, <1>3, Zenon DEF IsEx
    <2>2. ex'.step = "records" /\ ex'.wmo = None /\ ex'.phase = ex.phase /\ ex'.ids = ids
      BY <1>1, <1>3, Zenon DEF IsEx, ExFields
    <2>3. Extracting'
      BY <1>1, <2>2 DEF Extracting
    <2> QED
      BY <1>1, <1>3, <2>1, <2>2, <2>3, QuietEx
  <1>4. PICK s, ids : s = Head(ex.out) /\ ids = generate(ex.ids, Key(s))
    OBVIOUS
  <1>5. IsList(ids)
    BY <1>1, <1>4, GenerateIs
  <1>6. CASE /\ dir_bin' = dir_bin
             /\ ex' = [ex EXCEPT !.out = Tail(@), !.doodad_id = IF s.what = "wmo" THEN 0 ELSE @]
    <2>1. PICK out, number : out = Tail(ex.out)
                             /\ number = IF s.what = "wmo" THEN 0 ELSE ex.doodad_id
      BY Zenon
    <2>2. ex' = [ex EXCEPT !.out = out, !.ids = ex.ids, !.doodad_id = number]
      BY <1>1, <1>6, <2>1, ZenonT(40) DEF IsEx, ExFields
    <2>3. ExInv' /\ (CountedInv => CountedInv')
      BY <1>1, <1>3, <2>2
    <2> QED
      BY <1>1, <1>6, <2>3
  <1>7. CASE /\ ~Unplaceable(s) /\ buildings[s.name] # "stub"
             /\ ex' = [ex EXCEPT !.out = Tail(@), !.ids = ids, !.doodad_id = Key(s)[2]]
             /\ dir_bin' = [dir_bin EXCEPT !.recs = Append(@, Record(s, ids))]
    <2>1. PICK out, number : ex' = [ex EXCEPT !.out = out, !.ids = ids, !.doodad_id = number]
      BY <1>7, Zenon
    <2>2. ExInv' /\ (CountedInv => CountedInv')
      BY <1>3, <1>5, <2>1, Zenon
    <2> QED
      BY <1>1, <1>4, <1>7, <2>2, Zenon
  <1> QED
    BY <1>1, <1>2, <1>4, <1>6, <1>7 DEF WriteSpawn

LEMMA TileDoneEx ==
    ASSUME ExInv, TileDone \/ WriteDisplay
    PROVE  ExInv' /\ (CountedInv => CountedInv') /\ buildings' = buildings /\ dir_bin' = dir_bin
  <1>0. ExtractStep
    BY Zenon DEF ExtractStep
  <1>1. /\ Extracting /\ IsEx(ex) /\ IsList(ex.ids) /\ ex.step \in {"records", "list"}
        /\ buildings' = buildings /\ dir_bin' = dir_bin
        /\ ex' = [ex EXCEPT !.step = "next", !.at = @ + 1]
    BY <1>0, StepsRun DEF TileDone, WriteDisplay
  <1>2. ex.wmo = None /\ ex.step # "wmo"
    BY <1>1 DEF ExInv
  <1>3. IsEx(ex')
    BY <1>1, Zenon DEF IsEx
  <1>4. ex'.step = "next" /\ ex'.wmo = None /\ ex'.phase = ex.phase /\ ex'.ids = ex.ids
    BY <1>1, <1>2, Zenon DEF IsEx, ExFields
  <1> QED
    BY <1>1, <1>2, <1>3, <1>4, QuietEx

LEMMA DisplayEx ==
    ASSUME ExInv, NextDisplay \/ DisplayModelDone
    PROVE  ExInv' /\ (CountedInv => CountedInv') /\ buildings' = buildings /\ dir_bin' = dir_bin
  <1>0. ExtractStep
    BY Zenon DEF ExtractStep
  <1>1. /\ Extracting /\ IsEx(ex) /\ IsList(ex.ids) /\ ex.phase = "gobjs"
        /\ buildings' = buildings /\ dir_bin' = dir_bin /\ ex.step \in {"next", "models"}
        /\ NextDisplay => ex.step = "next"
    BY <1>0, StepsRun DEF NextDisplay, DisplayModelDone
  <1>2. ex.wmo = None /\ ex.step # "wmo"
    BY <1>1 DEF ExInv, NextDisplay, DisplayModelDone
  <1>3. ASSUME NEW w, NextDisplay, WmoNeedsWork(w), BeginWmo(w)
        PROVE  ExInv' /\ (CountedInv => CountedInv')
    BY <1>1, <1>3, BeginWmoEx
  <1>4. ASSUME NEW phase \in {"gobjs", "done"}, NEW at, NEW step \in {"next", "models", "list"},
               NEW todo, phase = "done" => step = "next",
               ex' = [ex EXCEPT !.phase = phase, !.at = at, !.step = step, !.todo = todo]
        PROVE  ExInv' /\ (CountedInv => CountedInv')
    <2>1. IsEx(ex')
      BY <1>1, <1>4, Zenon DEF IsEx
    <2>2. ex'.step = step /\ ex'.wmo = None /\ ex'.phase = phase /\ ex'.ids = ex.ids
      BY <1>1, <1>2, <1>4, Zenon DEF IsEx, ExFields
    <2>3. ~Extracting' => ex'.step = "next"
      BY <1>4, <2>2 DEF Extracting
    <2> QED
      BY <1>1, <1>2, <2>1, <2>2, <2>3, QuietEx
  <1>5. CASE NextDisplay
    <2>1. CASE ex' = [ex EXCEPT !.phase = "done"]
      <3>1. PICK at, todo : at = ex.at /\ todo = ex.todo
        OBVIOUS
      <3>2. ex' = [ex EXCEPT !.phase = "done", !.at = at, !.step = "next", !.todo = todo]
        BY <1>1, <1>5, <2>1, <3>1, Zenon DEF IsEx, ExFields
      <3> QED
        BY <1>1, <1>4, <3>2, Zenon
    <2>2. ASSUME NEW f, ex' = [ex EXCEPT !.step = "models", !.todo = <<f>>]
          PROVE  ExInv' /\ (CountedInv => CountedInv')
      <3>1. PICK todo : todo = <<f>>
        BY Zenon
      <3>2. ex' = [ex EXCEPT !.phase = "gobjs", !.at = ex.at, !.step = "models", !.todo = todo]
        BY <1>1, <2>2, <3>1, Zenon DEF IsEx, ExFields
      <3> QED
        BY <1>1, <1>4, <3>2, Zenon
    <2>3. CASE ex' = [ex EXCEPT !.at = @ + 1]
      <3>1. PICK at, todo : at = ex.at + 1 /\ todo = ex.todo
        OBVIOUS
      <3>2. ex' = [ex EXCEPT !.phase = "gobjs", !.at = at, !.step = "next", !.todo = todo]
        BY <1>1, <1>5, <2>3, <3>1, Zenon DEF IsEx, ExFields
      <3> QED
        BY <1>1, <1>4, <3>2, Zenon
    <2>4. CASE ex' = [ex EXCEPT !.step = "list"]
      <3>1. PICK at, todo : at = ex.at /\ todo = ex.todo
        OBVIOUS
      <3>2. ex' = [ex EXCEPT !.phase = "gobjs", !.at = at, !.step = "list", !.todo = todo]
        BY <1>1, <2>4, <3>1, Zenon DEF IsEx, ExFields
      <3> QED
        BY <1>1, <1>4, <3>2, Zenon
    <2> QED
      BY <1>1, <1>3, <1>5, <2>1, <2>2, <2>3, <2>4, Zenon DEF NextDisplay
  <1>6. CASE DisplayModelDone
    <2>1. CASE ex' = [ex EXCEPT !.step = "next", !.at = @ + 1]
      <3>1. PICK at, todo : at = ex.at + 1 /\ todo = ex.todo
        OBVIOUS
      <3>2. ex' = [ex EXCEPT !.phase = "gobjs", !.at = at, !.step = "next", !.todo = todo]
        BY <1>1, <2>1, <3>1, Zenon DEF IsEx, ExFields
      <3> QED
        BY <1>1, <1>4, <3>2, Zenon
    <2>2. CASE ex' = [ex EXCEPT !.step = "list"]
      <3>1. PICK at, todo : at = ex.at /\ todo = ex.todo
        OBVIOUS
      <3>2. ex' = [ex EXCEPT !.phase = "gobjs", !.at = at, !.step = "list", !.todo = todo]
        BY <1>1, <2>2, <3>1, Zenon DEF IsEx, ExFields
      <3> QED
        BY <1>1, <1>4, <3>2, Zenon
    <2> QED
      BY <1>1, <1>6, <2>1, <2>2, Zenon DEF DisplayModelDone
  <1> QED
    BY <1>1, <1>5, <1>6

LEMMA StartExtractEx ==
    ASSUME ExInv, StartExtract
    PROVE  /\ ExInv' /\ (CountedInv => CountedInv')
           /\ dir_bin' = dir_bin /\ gobj_list' = gobj_list /\ ex'.step = "next"
           /\ dir_bin # None => buildings' = buildings /\ ~Extracting'
  <1>1. /\ ~Extracting /\ ex.step = "next" /\ dir_bin' = dir_bin /\ gobj_list' = gobj_list
        /\ buildings # None => \A f \in DOMAIN buildings : buildings[f] \in RawStages
    BY Zenon DEF ExInv, StartExtract
  <1>2. CASE dir_bin # None
    <2>1. ex' = IdleExtract("failed") /\ buildings' = buildings
      BY <1>2 DEF StartExtract
    <2>2. IsEx(ex') /\ ex'.phase = "failed" /\ ex'.step = "next" /\ ex'.wmo = None
      BY <2>1, IdleEx
    <2>3. ~Extracting'
      BY <2>2 DEF Extracting
    <2>4. ExInv'
      BY <1>1, <2>1, <2>2, <2>3 DEF ExInv
    <2>5. CountedInv => CountedInv'
      BY <1>1, <2>1, <2>2, <2>3 DEF CountedInv
    <2> QED
      BY <1>1, <2>1, <2>2, <2>3, <2>4, <2>5
  <1>3. CASE dir_bin = None
    <2>1. ex' = IdleExtract("wmos") /\ buildings' = IF buildings = None THEN <<>> ELSE buildings
      BY <1>3 DEF StartExtract
    <2>2. /\ IsEx(ex') /\ ex'.phase = "wmos" /\ ex'.step = "next" /\ ex'.wmo = None
          /\ IsList(ex'.ids)
      BY <2>1, IdleEx
    <2>3. \A f \in DOMAIN buildings' : buildings # None /\ buildings' = buildings
      BY <2>1
    <2>4. ExInv'
      BY <1>1, <2>2, <2>3 DEF ExInv
    <2>5. CountedInv => CountedInv'
      BY <1>1, <2>2, <2>3 DEF CountedInv
    <2> QED
      BY <1>1, <1>3, <2>2, <2>4, <2>5
  <1> QED
    BY <1>2, <1>3

LEMMA StopExtractEx ==
    ASSUME ExInv, StopExtract
    PROVE  /\ ExInv' /\ (CountedInv => CountedInv')
           /\ buildings' = buildings /\ ex'.step = "next" /\ ex'.phase = "stopped"
           /\ \/ dir_bin' = dir_bin
              \/ ex.step = "records" /\ dir_bin' = [dir_bin EXCEPT !.torn = TRUE]
  <1>1. /\ ex' = IdleExtract("stopped") /\ buildings' = buildings /\ Extracting
        /\ \A f \in DOMAIN buildings : buildings[f] \in RawStages
        /\ \/ dir_bin' = dir_bin
           \/ ex.step = "records" /\ dir_bin' = [dir_bin EXCEPT !.torn = TRUE]
    BY DEF StopExtract, ExInv
  <1>2. IsEx(ex') /\ ex'.phase = "stopped" /\ ex'.step = "next" /\ ex'.wmo = None
    BY <1>1, IdleEx
  <1>3. ~Extracting'
    BY <1>2 DEF Extracting
  <1>4. ExInv'
    BY <1>1, <1>2, <1>3 DEF ExInv
  <1>5. CountedInv => CountedInv'
    BY <1>1, <1>2, <1>3 DEF CountedInv
  <1> QED
    BY <1>1, <1>2, <1>4, <1>5

(* The steps that do not record. *)
LEMMA NoRecord ==
    ASSUME ExInv, ExtractStep, ~OpenDirBin, ~WriteSpawn
    PROVE  dir_bin' = dir_bin /\ ex'.step # "records"
  <1>1. IsEx(ex)
    BY Zenon DEF ExInv
  <1>2. ASSUME NEW how, ex' = IdleExtract(how) PROVE ex'.step # "records"
    BY <1>2 DEF IdleExtract
  <1>3. CASE NextWmo
    <2>1. ex.step = "next" /\ dir_bin' = dir_bin
      BY <1>3 DEF NextWmo
    <2>2. \/ ex' = [ex EXCEPT !.phase = "maps", !.at = 1]
          \/ \E w : ex' = [ex EXCEPT !.step = "models", !.wmo = w, !.todo = Wmo[w].modn]
          \/ ex' = [ex EXCEPT !.at = @ + 1]
      BY <1>3, Zenon DEF NextWmo, BeginWmo
    <2> QED
      BY <1>1, <2>1, <2>2, Zenon DEF IsEx, ExFields
  <1>4. CASE NextModel
    BY <1>1, <1>2, <1>4 DEF NextModel, IsEx, ExFields
  <1>5. CASE WriteModel
    BY <1>1, <1>5, Zenon DEF WriteModel, IsEx, ExFields
  <1>6. CASE CreateWmo
    BY <1>1, <1>6 DEF CreateWmo, IsEx, ExFields
  <1>7. CASE WriteWmo
    <2>1. ex.step = "wmo" /\ dir_bin' = dir_bin
      BY <1>7, Zenon DEF WriteWmo
    <2>2. \/ ex' = ex
          \/ \E doodads, at, step :
                /\ step \in {"list", "next"}
                /\ ex' = [ex EXCEPT !.wmo_doodads = doodads, !.step = step, !.wmo = None, !.at = at]
      BY <1>7, Zenon DEF WriteWmo
    <2> QED
      BY <1>1, <2>1, <2>2, Zenon DEF IsEx, ExFields
  <1>8. CASE NextTile
    BY <1>1, <1>2, <1>8, Zenon DEF NextTile, IsEx, ExFields
  <1>9. CASE TileDone \/ WriteDisplay
    BY <1>1, <1>9, Zenon DEF TileDone, WriteDisplay, IsEx, ExFields
  <1>10. CASE NextDisplay
    <2>1. ex.step = "next" /\ dir_bin' = dir_bin
      BY <1>10 DEF NextDisplay
    <2>2. \/ ex' = [ex EXCEPT !.phase = "done"]
          \/ \E f : ex' = [ex EXCEPT !.step = "models", !.todo = <<f>>]
          \/ ex' = [ex EXCEPT !.at = @ + 1]
          \/ \E w : ex' = [ex EXCEPT !.step = "models", !.wmo = w, !.todo = Wmo[w].modn]
          \/ ex' = [ex EXCEPT !.step = "list"]
      BY <1>10, Zenon DEF NextDisplay, BeginWmo
    <2> QED
      BY <1>1, <2>1, <2>2, Zenon DEF IsEx, ExFields
  <1>11. CASE DisplayModelDone
    BY <1>1, <1>11 DEF DisplayModelDone, IsEx, ExFields
  <1> QED
    BY <1>3, <1>4, <1>5, <1>6, <1>7, <1>8, <1>9, <1>10, <1>11, Zenon DEF ExtractStep

(* What a step of a run keeps. *)
LEMMA StepEx ==
    ASSUME ExInv, ExtractStep
    PROVE  ExInv' /\ (CountedInv => CountedInv') /\ Grows
  <1>1. buildings' = buildings => Grows
    BY DEF Grows, HasCount
  <1>2. CASE NextWmo
    BY <1>1, <1>2, NextWmoEx, Zenon DEF NextWmo
  <1>3. CASE NextModel
    BY <1>3, NextModelEx
  <1>4. CASE WriteModel
    BY <1>4, WriteModelEx
  <1>5. CASE CreateWmo
    BY <1>5, CreateWmoEx
  <1>6. CASE WriteWmo
    BY <1>6, WriteWmoEx
  <1>7. CASE NextTile
    BY <1>1, <1>7, NextTileEx, Zenon DEF NextTile
  <1>8. CASE OpenDirBin
    BY <1>1, <1>8, OpenDirBinEx
  <1>9. CASE WriteSpawn
    BY <1>1, <1>9, WriteSpawnEffect
  <1>10. CASE TileDone \/ WriteDisplay
    BY <1>1, <1>10, TileDoneEx
  <1>11. CASE NextDisplay \/ DisplayModelDone
    BY <1>1, <1>11, DisplayEx
  <1> QED
    BY <1>2, <1>3, <1>4, <1>5, <1>6, <1>7, <1>8, <1>9, <1>10, <1>11, Zenon DEF ExtractStep

LEMMA ExNext ==
    ASSUME ExInv, ExtractRuns
    PROVE  ExInv' /\ (CountedInv => CountedInv')
  <1>1. CASE UNCHANGED extractVars
    BY <1>1 DEF ExInv, CountedInv, extractVars, Extracting
  <1> QED
    BY <1>1, StartExtractEx, StepEx, StopExtractEx, Zenon DEF ExtractRuns

(* Once an extraction that recorded something has ended, a later run fails *)
(* at once.                                                                *)
LEMMA SealedStays ==
    ASSUME ExInv, Sealed, ExtractRuns
    PROVE  /\ Sealed' /\ buildings' = buildings /\ dir_bin' = dir_bin
           /\ gobj_list' = gobj_list
  <1>1. CASE UNCHANGED extractVars
    BY <1>1 DEF Sealed, extractVars, Extracting
  <1>2. CASE StartExtract
    BY <1>2, StartExtractEx DEF Sealed
  <1>3. ~(ExtractStep \/ StopExtract)
    BY StepsRun DEF Sealed
  <1> QED
    BY <1>1, <1>2, <1>3 DEF ExtractRuns

(* What is recorded keeps its raw file. *)
LEMMA RecordStays ==
    ASSUME Grows, NEW r, RecordOk(r)
    PROVE  RecordOk(r)'
  BY Zenon DEF RecordOk, Grows

LEMMA NewRecord ==
    ASSUME ExInv, IsList(ex.ids), NEW s, NEW ids, ids = generate(ex.ids, Key(s)),
           ~Unplaceable(s), buildings[s.name] # "stub"
    PROVE  RecordOk(Record(s, ids))
  <1>1. s.name \in DOMAIN buildings /\ read_model_vertex_count(s) # 0
    BY Zenon DEF Unplaceable, Absent
  <1>2. s.what = "wmo" => HasCount(s.name)
    BY <1>1 DEF read_model_vertex_count, HasCount
  <1>3. s.what # "wmo" => Model[s.name] = "solid"
    BY <1>1 DEF read_model_vertex_count
  <1>4. PICK id \in Nat : id = IdOf(ids, Key(s))
    BY GenerateIs
  <1>5. PICK tile, map : tile = Jobs[ex.at].tile /\ map = Jobs[ex.at].map
    OBVIOUS
  <1>6. PICK r : r = Record(s, ids)
    OBVIOUS
  <1>7. r = [map |-> map, tile |-> tile, world |-> tile = GLOBAL_TILE, m2 |-> s.what # "wmo",
             name |-> s.name, id |-> id, of |-> [what |-> s.what, uid |-> s.uid, ref |-> s.ref]]
    BY <1>4, <1>5, <1>6 DEF Record
  <1>8. r.name = s.name /\ r.id = id /\ r.tile = tile /\ r.of.what = s.what
    BY <1>7
  <1>9. r.world = (tile = GLOBAL_TILE) /\ r.m2 = (s.what # "wmo")
    BY <1>7, Zenon
  <1>10. r.world <=> r.tile = GLOBAL_TILE
    BY <1>8, <1>9, Zenon
  <1>11. r.m2 <=> r.of.what # "wmo"
    BY <1>8, <1>9, Zenon
  <1>12. r.m2 <=> s.what # "wmo"
    BY <1>9, Zenon
  <1>13. RecordOk(r)
    BY <1>1, <1>2, <1>3, <1>4, <1>8, <1>10, <1>11, <1>12, Zenon DEF RecordOk
  <1> QED
    BY <1>6, <1>13

LEMMA DirNext ==
    ASSUME ExInv, DirInv, ExtractRuns
    PROVE  DirInv'
  <1>1. ASSUME NEW more, NEW torn, IsList(more), \A i \in DOMAIN more : RecordOk(more[i]),
               Grows, dir_bin' = [recs |-> more, torn |-> torn]
        PROVE  DirInv'
    <2>1. dir_bin'.recs = more /\ dir_bin'.torn = torn
      BY <1>1
    <2>2. ASSUME NEW i \in DOMAIN more PROVE RecordOk(more[i])'
      <3>1. PICK r : r = more[i] /\ RecordOk(r)
        BY <1>1, <2>2
      <3>2. RecordOk(r)'
        BY <1>1, <3>1, RecordStays
      <3> QED
        BY <3>1, <3>2 DEF RecordOk
    <2>3. \A i \in DOMAIN dir_bin'.recs : RecordOk(dir_bin.recs[i])'
      BY <2>1, <2>2 DEF RecordOk
    <2> QED
      BY <1>1, <2>1, <2>3 DEF DirInv
  <1>2. ASSUME dir_bin # None \/ ex.step = "records"
        PROVE  \E recs, torn : /\ dir_bin = [recs |-> recs, torn |-> torn] /\ IsList(recs)
                               /\ \A i \in DOMAIN recs : RecordOk(recs[i])
    BY <1>2, Zenon DEF DirInv
  <1>3. ASSUME dir_bin' = dir_bin, Grows, ex'.step = "records" => ex.step = "records"
        PROVE  DirInv'
    <2>1. CASE dir_bin # None \/ ex.step = "records"
      <3>1. PICK recs, torn : /\ dir_bin = [recs |-> recs, torn |-> torn] /\ IsList(recs)
                              /\ \A i \in DOMAIN recs : RecordOk(recs[i])
        BY <1>2, <2>1
      <3> QED
        BY <1>1, <1>3, <3>1
    <2>2. CASE ~(dir_bin # None \/ ex.step = "records")
      BY <1>3, <2>2 DEF DirInv
    <2> QED
      BY <2>1, <2>2
  <1>4. CASE UNCHANGED extractVars
    BY <1>3, <1>4 DEF extractVars, Grows, HasCount
  <1>5. CASE StartExtract
    <2>1. CASE dir_bin = None
      BY <1>5, <2>1, StartExtractEx DEF DirInv
    <2>2. CASE dir_bin # None
      BY <1>3, <1>5, <2>2, StartExtractEx DEF Grows, HasCount
    <2> QED
      BY <2>1, <2>2
  <1>6. CASE ExtractStep /\ ~OpenDirBin /\ ~WriteSpawn
    BY <1>3, <1>6, NoRecord, StepEx
  <1>7. CASE OpenDirBin
    <2>1. Grows
      BY <1>7, OpenDirBinEx DEF Grows, HasCount
    <2>2. CASE dir_bin = None
      <3>1. dir_bin' = [recs |-> <<>>, torn |-> FALSE]
        BY <1>7, <2>2, Zenon DEF OpenDirBin
      <3>2. IsList(<<>>) /\ DOMAIN <<>> = {}
        BY DEF IsList
      <3>3. PICK none : none = <<>>
        OBVIOUS
      <3> QED
        BY <1>1, <2>1, <3>1, <3>2, <3>3
    <2>3. CASE dir_bin # None
      <3>1. dir_bin' = dir_bin
        BY <1>7, <2>3, Zenon DEF OpenDirBin
      <3>2. PICK recs, torn : /\ dir_bin = [recs |-> recs, torn |-> torn] /\ IsList(recs)
                              /\ \A i \in DOMAIN recs : RecordOk(recs[i])
        BY <1>2, <2>3
      <3> QED
        BY <1>1, <2>1, <3>1, <3>2
    <2> QED
      BY <2>2, <2>3
  <1>8. CASE WriteSpawn
    <2>1. Grows /\ ex.step = "records"
      BY <1>8, WriteSpawnEffect DEF Grows, HasCount
    <2>2. CASE dir_bin' = dir_bin
      BY <1>3, <2>1, <2>2
    <2>3. ASSUME NEW s, NEW ids, ids = generate(ex.ids, Key(s)), ~Unplaceable(s),
                 buildings[s.name] # "stub",
                 dir_bin' = [dir_bin EXCEPT !.recs = Append(@, Record(s, ids))]
          PROVE  DirInv'
      <3>1. PICK recs, torn : /\ dir_bin = [recs |-> recs, torn |-> torn] /\ IsList(recs)
                              /\ \A i \in DOMAIN recs : RecordOk(recs[i])
        BY <1>2, <2>1
      <3>2. IsList(ex.ids)
        BY <1>8, StepsRun, Zenon DEF ExtractStep
      <3>3. PICK r : r = Record(s, ids) /\ RecordOk(r)
        BY <2>3, <3>2, NewRecord
      <3>4. PICK more : more = Append(recs, r)
        BY Zenon
      <3>5. dir_bin' = [recs |-> more, torn |-> torn]
        BY <2>3, <3>1, <3>3, <3>4, Zenon
      <3>6. IsList(more) /\ \A i \in DOMAIN more : RecordOk(more[i])
        <4>1. /\ IsList(more) /\ Len(recs) \in Nat /\ DOMAIN recs = 1 .. Len(recs)
              /\ DOMAIN more = 1 .. Len(recs) + 1
              /\ \A i \in DOMAIN recs : more[i] = recs[i]
              /\ more[Len(recs) + 1] = r
          BY <3>1, <3>4, ListAppend
        <4>2. \A i \in DOMAIN more : i \in DOMAIN recs \/ i = Len(recs) + 1
          BY <4>1
        <4> QED
          BY <3>1, <3>3, <4>1, <4>2
      <3> QED
        BY <1>1, <2>1, <3>1, <3>5, <3>6
    <2> QED
      BY <1>8, <2>2, <2>3, WriteSpawnEffect
  <1>9. CASE StopExtract
    <2>1. Grows /\ ex'.step # "records"
      BY <1>9, StopExtractEx DEF Grows, HasCount
    <2>2. CASE dir_bin' = dir_bin
      BY <1>3, <2>1, <2>2
    <2>3. CASE ex.step = "records" /\ dir_bin' = [dir_bin EXCEPT !.torn = TRUE]
      <3>1. PICK recs, torn : /\ dir_bin = [recs |-> recs, torn |-> torn] /\ IsList(recs)
                              /\ \A i \in DOMAIN recs : RecordOk(recs[i])
        BY <1>2, <2>3
      <3>2. dir_bin' = [recs |-> recs, torn |-> TRUE]
        BY <2>3, <3>1, Zenon
      <3> QED
        BY <1>1, <2>1, <3>1, <3>2
    <2> QED
      BY <1>9, <2>2, <2>3, StopExtractEx
  <1> QED
    BY <1>4, <1>5, <1>6, <1>7, <1>8, <1>9 DEF ExtractRuns

-----------------------------------------------------------------------------
(* The order of the records *)

\* The global WMO of a map comes before its tiles.
GlobalsComeFirst ==
    /\ IsList(Jobs)
    /\ \A k \in DOMAIN Jobs : \A j \in 1 .. k :
          Jobs[j].map = Jobs[k].map /\ Jobs[k].tile = GLOBAL_TILE => Jobs[j].tile = GLOBAL_TILE

\* The records are those of the tiles up to the one at hand, and so those of the
\* global tile of a map come before all others of it.
OfJob(r, j) == r.map = Jobs[j].map /\ (r.world <=> Jobs[j].tile = GLOBAL_TILE)
HasRecords == dir_bin # None \/ ex.step = "records"
OrderInv ==
    /\ ex.phase = "wmos" => dir_bin = None
    /\ ex.step = "records" => ex.phase = "maps"
    /\ ex.phase = "maps" => ex.at \in Nat \ {0} /\ (ex.step # "next" => ex.at \in DOMAIN Jobs)
    /\ ex.phase = "maps" /\ HasRecords =>
          \A i \in DOMAIN dir_bin.recs : \E j \in 1 .. ex.at : OfJob(dir_bin.recs[i], j)
    /\ HasRecords =>
          \A i, k \in DOMAIN dir_bin.recs :
             i < k /\ dir_bin.recs[i].map = dir_bin.recs[k].map /\ dir_bin.recs[k].world =>
                dir_bin.recs[i].world

(* Where the steps that do not record lead. *)
LEMMA WhereTo ==
    ASSUME ExInv, ExtractStep, ~OpenDirBin, ~WriteSpawn
    PROVE  \/ ex'.phase \notin {"wmos", "maps"}
           \/ ex.phase = "wmos" /\ ex'.phase = "wmos"
           \/ ex.phase = "wmos" /\ ex'.phase = "maps" /\ ex'.at = 1 /\ ex'.step = "next"
           \/ /\ ex.phase = "maps" /\ ex'.phase = "maps"
              /\ \/ ex'.at = ex.at /\ (ex.step = "next" => ~(ex.at > Len(Jobs)))
                 \/ ex'.at = ex.at + 1 /\ ex'.step = "next"
  <1>1. IsEx(ex) /\ Extracting
    BY StepsRun
  <1>2. ASSUME NEW how \in {"failed", "done"}, ex' = IdleExtract(how)
        PROVE  ex'.phase \notin {"wmos", "maps"}
    BY <1>2 DEF IdleExtract
  <1>3. CASE NextWmo
    <2>1. ex.step = "next" /\ ex.phase = "wmos"
      BY <1>3 DEF NextWmo
    <2>2. \/ ex' = [ex EXCEPT !.phase = "maps", !.at = 1]
          \/ \E w : ex' = [ex EXCEPT !.step = "models", !.wmo = w, !.todo = Wmo[w].modn]
          \/ ex' = [ex EXCEPT !.at = @ + 1]
      BY <1>3, Zenon DEF NextWmo, BeginWmo
    <2> QED
      BY <1>1, <2>1, <2>2, Zenon DEF IsEx, ExFields
  <1>4. ASSUME ex.step # "next", ex'.phase = ex.phase, ex'.at = ex.at
        PROVE  \/ ex'.phase \notin {"wmos", "maps"}
               \/ ex.phase = "wmos" /\ ex'.phase = "wmos"
               \/ /\ ex.phase = "maps" /\ ex'.phase = "maps"
                  /\ ex'.at = ex.at /\ (ex.step = "next" => ~(ex.at > Len(Jobs)))
    BY <1>4, Zenon
  <1>5. CASE NextModel
    <2>1. /\ ex.step # "next"
          /\ \/ ex' = IdleExtract("failed")
             \/ ex' = [ex EXCEPT !.todo = Tail(@)] \/ ex' = [ex EXCEPT !.step = "m2"]
      BY <1>5 DEF NextModel
    <2>2. CASE ex' = [ex EXCEPT !.todo = Tail(@)] \/ ex' = [ex EXCEPT !.step = "m2"]
      <3>1. ex'.phase = ex.phase /\ ex'.at = ex.at
        BY <1>1, <2>2, Zenon DEF IsEx, ExFields
      <3> QED
        BY <1>4, <2>1, <3>1, Zenon
    <2>3. CASE ex' = IdleExtract("failed")
      BY <1>2, <2>3
    <2> QED
      BY <2>1, <2>2, <2>3
  <1>6. CASE WriteModel \/ CreateWmo
    <2>1. ex.step # "next" /\ (ex' = ex \/ ex' = [ex EXCEPT !.step = "wmo"]
             \/ ex' = [ex EXCEPT !.step = "models", !.todo = Tail(@)])
      BY <1>6 DEF WriteModel, CreateWmo
    <2>2. ex'.phase = ex.phase /\ ex'.at = ex.at
      BY <1>1, <2>1, Zenon DEF IsEx, ExFields
    <2> QED
      BY <1>4, <2>1, <2>2, Zenon
  <1>7. CASE WriteWmo
    <2>1. ex.step = "wmo" /\ ex.step # "next"
      BY <1>7 DEF WriteWmo
    <2>2. PICK at, step : /\ at = IF ex.phase = "gobjs" THEN ex.at ELSE ex.at + 1
                          /\ step = IF ex.phase = "gobjs" THEN "list" ELSE "next"
      BY Zenon
    <2>3. CASE ex' = ex
      BY <1>4, <2>1, <2>3
    <2>4. CASE \E order \in Orders(References(ex.wmo)) :
                  ex' = [ex EXCEPT
                           !.wmo_doodads = [n \in DOMAIN @ \cup {ex.wmo} |->
                                              IF n = ex.wmo THEN order ELSE @[n]],
                           !.step = IF ex.phase = "gobjs" THEN "list" ELSE "next",
                           !.wmo = None,
                           !.at = IF ex.phase = "gobjs" THEN @ ELSE @ + 1]
      <3>1. PICK doodads :
               ex' = [ex EXCEPT !.wmo_doodads = doodads, !.step = step, !.wmo = None, !.at = at]
        BY <2>2, <2>4, Zenon
      <3>2. ex'.phase = ex.phase /\ ex'.step = step /\ ex'.at = at
        BY <1>1, <3>1, Zenon DEF IsEx, ExFields
      <3> QED
        BY <1>1, <2>2, <3>2 DEF Extracting
    <2> QED
      BY <1>7, <2>3, <2>4, ZenonT(40) DEF WriteWmo
  <1>8. CASE NextTile
    <2>1. /\ ex.phase = "maps" /\ ex.step = "next"
          /\ \/ ex' = [ex EXCEPT !.phase = "gobjs", !.at = 1]
             \/ /\ ~(ex.at > Len(Jobs))
                /\ ex' = [ex EXCEPT !.step = "models", !.todo = Jobs[ex.at].models]
             \/ ex' = [ex EXCEPT !.at = @ + 1]
             \/ ex' = IdleExtract("failed")
      BY <1>8 DEF NextTile
    <2>2. \/ ex'.phase = "gobjs"
          \/ ex'.phase = "maps" /\ ~(ex.at > Len(Jobs)) /\ ex'.at = ex.at
          \/ ex'.phase = "maps" /\ ex'.step = "next" /\ ex'.at = ex.at + 1
          \/ ex' = IdleExtract("failed")
      BY <1>1, <2>1, Zenon DEF IsEx, ExFields
    <2> QED
      BY <1>2, <2>1, <2>2
  <1>9. CASE TileDone \/ WriteDisplay
    <2>1. ex' = [ex EXCEPT !.step = "next", !.at = @ + 1]
      BY <1>9, Zenon DEF TileDone, WriteDisplay
    <2>2. ex'.phase = ex.phase /\ ex'.step = "next" /\ ex'.at = ex.at + 1
      BY <1>1, <2>1, Zenon DEF IsEx, ExFields
    <2> QED
      BY <1>1, <2>2 DEF Extracting
  <1>10. CASE NextDisplay \/ DisplayModelDone
    <2>1. ex.phase = "gobjs"
      BY <1>10, Zenon DEF NextDisplay, DisplayModelDone
    <2>2. \/ ex' = [ex EXCEPT !.phase = "done"]
          \/ \E f : ex' = [ex EXCEPT !.step = "models", !.todo = <<f>>]
          \/ ex' = [ex EXCEPT !.at = @ + 1]
          \/ \E w : ex' = [ex EXCEPT !.step = "models", !.wmo = w, !.todo = Wmo[w].modn]
          \/ ex' = [ex EXCEPT !.step = "list"]
          \/ ex' = [ex EXCEPT !.step = "next", !.at = @ + 1]
      BY <1>10, Zenon DEF NextDisplay, DisplayModelDone, BeginWmo
    <2>3. ex'.phase \in {"gobjs", "done"}
      BY <1>1, <2>1, <2>2, Zenon DEF IsEx, ExFields
    <2> QED
      BY <2>3
  <1> QED
    BY <1>3, <1>5, <1>6, <1>7, <1>8, <1>9, <1>10, Zenon DEF ExtractStep

(* A step that leaves the records, or begins them. *)
LEMMA SameRecords ==
    ASSUME OrderInv, client' = client,
           HasRecords' => \/ HasRecords /\ dir_bin'.recs = dir_bin.recs
                          \/ dir_bin'.recs = <<>>,
           ex'.phase = "wmos" => dir_bin' = None,
           ex'.step = "records" => ex'.phase = "maps",
           ex'.phase = "maps" => /\ ex'.at \in Nat \ {0} /\ (ex'.step # "next" => ex'.at \in DOMAIN Jobs)
                                 /\ \/ ~HasRecords'
                                    \/ dir_bin'.recs = <<>>
                                    \/ ex.phase = "maps" /\ ex'.at \in {ex.at, ex.at + 1}
    PROVE  OrderInv'
  <1>1. Jobs' = Jobs /\ \A r, j : OfJob(r, j)' <=> OfJob(r, j)
    <2>1. Jobs' = Jobs
      BY DEF Jobs
    <2> QED
      BY <2>1 DEF OfJob, GLOBAL_TILE
  <1>2. dir_bin'.recs = <<>> => DOMAIN dir_bin'.recs = {}
    OBVIOUS
  <1>3. ASSUME ex'.phase = "maps", HasRecords', NEW i \in DOMAIN dir_bin'.recs
        PROVE  \E j \in 1 .. ex'.at : OfJob(dir_bin'.recs[i], j)
    <2>1. /\ HasRecords /\ dir_bin'.recs = dir_bin.recs
          /\ ex.phase = "maps" /\ ex'.at \in {ex.at, ex.at + 1} /\ ex.at \in Nat
      BY <1>2, <1>3 DEF OrderInv
    <2>2. PICK j \in 1 .. ex.at : OfJob(dir_bin.recs[i], j)
      BY <1>3, <2>1 DEF OrderInv
    <2>3. j \in 1 .. ex'.at
      BY <2>1
    <2> QED
      BY <2>1, <2>2, <2>3
  <1>4. ASSUME HasRecords'
        PROVE  \A i, k \in DOMAIN dir_bin'.recs :
                 /\ i < k /\ dir_bin'.recs[i].map = dir_bin'.recs[k].map
                 /\ dir_bin'.recs[k].world
                 => dir_bin'.recs[i].world
    BY <1>2, <1>4 DEF OrderInv
  <1> QED
    BY <1>1, <1>3, <1>4 DEF OrderInv

(* The record of a placement stands behind those of the tiles before. *)
LEMMA WriteSpawnOrder ==
    ASSUME ExInv, DirInv, OrderInv, GlobalsComeFirst, client' = client, WriteSpawn
    PROVE  OrderInv'
  <1>1. /\ IsEx(ex) /\ ex.step = "records" /\ ex.phase = "maps" /\ HasRecords
        /\ ex.at \in Nat \ {0} /\ ex.at \in DOMAIN Jobs
    BY DEF WriteSpawn, ExInv, OrderInv, HasRecords
  <1>2. PICK s, ids : s = Head(ex.out) /\ ids = generate(ex.ids, Key(s))
    OBVIOUS
  <1>3. CASE dir_bin' = dir_bin /\ ex' = IdleExtract("failed")
    <2>1. ex'.phase = "failed" /\ ex'.step = "next"
      BY <1>3, IdleEx
    <2> QED
      BY <1>1, <1>3, <2>1, SameRecords
  <1>4. ASSUME NEW out, NEW more, NEW number,
               ex' = [ex EXCEPT !.out = out, !.ids = more, !.doodad_id = number]
        PROVE  ex'.step = "records" /\ ex'.phase = "maps" /\ ex'.at = ex.at
    BY <1>1, <1>4, Zenon DEF IsEx, ExFields
  <1>5. CASE /\ dir_bin' = dir_bin
             /\ ex' = [ex EXCEPT !.out = Tail(@), !.doodad_id = IF s.what = "wmo" THEN 0 ELSE @]
    <2>1. ex'.step = "records" /\ ex'.phase = "maps" /\ ex'.at = ex.at
      BY <1>1, <1>5, Zenon DEF IsEx, ExFields
    <2> QED
      BY <1>1, <1>5, <2>1, SameRecords
  <1>6. CASE /\ ex' = [ex EXCEPT !.out = Tail(@), !.ids = ids, !.doodad_id = Key(s)[2]]
             /\ dir_bin' = [dir_bin EXCEPT !.recs = Append(@, Record(s, ids))]
    <2>1. ex'.step = "records" /\ ex'.phase = "maps" /\ ex'.at = ex.at
      BY <1>4, <1>6, Zenon
    <2>2. PICK recs, torn : dir_bin = [recs |-> recs, torn |-> torn] /\ IsList(recs)
      BY <1>1 DEF DirInv
    <2>3. PICK r : r = Record(s, ids)
      OBVIOUS
    <2>4. OfJob(r, ex.at)
      <3>1. PICK name, m2, id, of, world :
               /\ world = (Jobs[ex.at].tile = GLOBAL_TILE)
               /\ r = [map |-> Jobs[ex.at].map, tile |-> Jobs[ex.at].tile, world |-> world,
                       m2 |-> m2, name |-> name, id |-> id, of |-> of]
        BY <2>3, ZenonT(40) DEF Record
      <3>2. r.map = Jobs[ex.at].map /\ r.world = world
        BY <3>1
      <3> QED
        BY <3>1, <3>2, Zenon DEF OfJob
    <2>5. PICK more : more = Append(recs, r)
      BY Zenon
    <2>6. dir_bin' = [recs |-> more, torn |-> torn]
      BY <1>6, <2>2, <2>3, <2>5, Zenon
    <2>7. dir_bin'.recs = more /\ dir_bin.recs = recs
      BY <2>2, <2>6
    <2>8. /\ Len(recs) \in Nat /\ DOMAIN recs = 1 .. Len(recs)
          /\ DOMAIN more = 1 .. Len(recs) + 1
          /\ \A i \in DOMAIN recs : more[i] = recs[i]
          /\ more[Len(recs) + 1] = r
      BY <2>2, <2>5, ListAppend
    <2>9. \A i \in DOMAIN more : \/ i \in DOMAIN recs /\ more[i] = recs[i]
                                 \/ i = Len(recs) + 1 /\ more[i] = r
      BY <2>8
    <2>10. \A i \in DOMAIN recs : \E j \in 1 .. ex.at : OfJob(recs[i], j)
      BY <1>1, <2>7 DEF OrderInv
    <2>11. \A i \in DOMAIN more : \E j \in 1 .. ex.at : OfJob(more[i], j)
      BY <1>1, <2>4, <2>9, <2>10
    <2>12. ASSUME NEW i \in DOMAIN more, NEW k \in DOMAIN more, i < k,
                  more[i].map = more[k].map, more[k].world
           PROVE  more[i].world
      <3>1. CASE k \in DOMAIN recs
        <4>1. i \in DOMAIN recs /\ more[i] = recs[i] /\ more[k] = recs[k]
          BY <2>8, <2>12, <3>1
        <4> QED
          BY <1>1, <2>7, <2>12, <3>1, <4>1 DEF OrderInv
      <3>2. CASE k \notin DOMAIN recs
        <4>1. more[k] = r
          BY <2>9, <3>2
        <4>2. PICK j \in 1 .. ex.at : OfJob(more[i], j)
          BY <2>11
        <4>3. Jobs[j].map = Jobs[ex.at].map /\ Jobs[ex.at].tile = GLOBAL_TILE
          BY <2>4, <2>12, <4>1, <4>2 DEF OfJob
        <4>4. Jobs[j].tile = GLOBAL_TILE
          BY <1>1, <4>3 DEF GlobalsComeFirst
        <4> QED
          BY <4>2, <4>4, Zenon DEF OfJob
      <3> QED
        BY <3>1, <3>2
    <2>13. Jobs' = Jobs
      BY DEF Jobs
    <2>14. \A x, j : OfJob(x, j)' <=> OfJob(x, j)
      BY <2>13 DEF OfJob, GLOBAL_TILE
    <2> QED
      BY <1>1, <2>1, <2>7, <2>11, <2>12, <2>13, <2>14 DEF OrderInv
  <1> QED
    BY <1>2, <1>3, <1>5, <1>6 DEF WriteSpawn

LEMMA OrderNext ==
    ASSUME ExInv, DirInv, OrderInv, GlobalsComeFirst, client' = client, ExtractRuns
    PROVE  OrderInv'
  <1>1. CASE UNCHANGED extractVars
    BY <1>1, SameRecords DEF extractVars, OrderInv, HasRecords
  <1>2. CASE StartExtract
    <2>1. dir_bin' = dir_bin /\ ex'.step = "next"
      BY <1>2, StartExtractEx
    <2>2. ex'.phase = "failed" \/ (ex'.phase = "wmos" /\ dir_bin = None)
      <3>1. ex' = IdleExtract("failed") \/ (ex' = IdleExtract("wmos") /\ dir_bin = None)
        BY <1>2, Zenon DEF StartExtract
      <3> QED
        BY <3>1, IdleEx
    <2> QED
      BY <2>1, <2>2, SameRecords DEF HasRecords
  <1>3. CASE StopExtract
    <2>1. ex'.step = "next" /\ ex'.phase = "stopped"
      BY <1>3, StopExtractEx
    <2>2. HasRecords' => HasRecords /\ dir_bin'.recs = dir_bin.recs
      <3>1. CASE ex.step = "records" /\ dir_bin' = [dir_bin EXCEPT !.torn = TRUE]
        <4>1. PICK recs, torn : dir_bin = [recs |-> recs, torn |-> torn]
          BY <3>1 DEF DirInv
        <4>2. dir_bin' = [recs |-> recs, torn |-> TRUE]
          BY <3>1, <4>1, Zenon
        <4>3. dir_bin'.recs = dir_bin.recs
          BY <4>1, <4>2
        <4> QED
          BY <3>1, <4>3 DEF HasRecords
      <3> QED
        BY <1>3, <2>1, <3>1, StopExtractEx DEF HasRecords
    <2> QED
      BY <2>1, <2>2, SameRecords
  <1>4. CASE ExtractStep /\ ~OpenDirBin /\ ~WriteSpawn
    <2>1. dir_bin' = dir_bin /\ ex'.step # "records"
      BY <1>4, NoRecord
    <2>2. HasRecords' => dir_bin # None /\ HasRecords /\ dir_bin'.recs = dir_bin.recs
      BY <2>1 DEF HasRecords
    <2>3. CASE ex'.phase \notin {"wmos", "maps"}
      BY <2>1, <2>2, <2>3, SameRecords, SMTT(30)
    <2>4. CASE ex.phase = "wmos" /\ ex'.phase = "wmos"
      BY <2>1, <2>2, <2>4, SameRecords, SMTT(30) DEF OrderInv
    <2>5. CASE ex.phase = "wmos" /\ ex'.phase = "maps" /\ ex'.at = 1 /\ ex'.step = "next"
      BY <2>1, <2>2, <2>5, SameRecords, SMTT(30) DEF OrderInv
    <2>6. CASE /\ ex.phase = "maps" /\ ex'.phase = "maps" /\ ex'.at = ex.at
               /\ ex.step = "next" => ~(ex.at > Len(Jobs))
      <3>1. ex.at \in DOMAIN Jobs /\ ex.at \in Nat \ {0}
        <4>1. ex.at \in Nat \ {0} /\ (ex.step # "next" => ex.at \in DOMAIN Jobs)
          BY <2>6 DEF OrderInv
        <4>2. Len(Jobs) \in Nat /\ DOMAIN Jobs = 1 .. Len(Jobs)
          BY SeqIsList DEF GlobalsComeFirst, IsList
        <4> QED
          BY <2>6, <4>1, <4>2, SMTT(30)
      <3> QED
        BY <2>1, <2>2, <2>6, <3>1, SameRecords
    <2>7. CASE ex.phase = "maps" /\ ex'.phase = "maps" /\ ex'.at = ex.at + 1 /\ ex'.step = "next"
      <3>1. ex'.at \in Nat \ {0}
        BY <2>7 DEF OrderInv
      <3> QED
        BY <2>1, <2>2, <2>7, <3>1, SameRecords
    <2> QED
      BY <1>4, <2>3, <2>4, <2>5, <2>6, <2>7, WhereTo
  <1>5. CASE OpenDirBin
    <2>1. IsEx(ex) /\ ex.phase = "maps" /\ ex.step = "models"
      BY <1>5 DEF OpenDirBin, ExInv
    <2>2. PICK out : ex' = [ex EXCEPT !.step = "records", !.out = out]
      BY <1>5, Zenon DEF OpenDirBin
    <2>3. ex'.step = "records" /\ ex'.phase = "maps" /\ ex'.at = ex.at
      BY <2>1, <2>2, Zenon DEF IsEx, ExFields
    <2>4. ex.at \in Nat \ {0} /\ ex.at \in DOMAIN Jobs
      BY <2>1 DEF OrderInv
    <2>5. CASE dir_bin = None
      <3>1. dir_bin' = [recs |-> <<>>, torn |-> FALSE]
        BY <1>5, <2>5, Zenon DEF OpenDirBin
      <3>2. dir_bin'.recs = <<>>
        BY <3>1
      <3> QED
        BY <2>3, <2>4, <3>2, SameRecords
    <2>6. CASE dir_bin # None
      <3>1. dir_bin' = dir_bin /\ HasRecords
        BY <1>5, <2>6, Zenon DEF OpenDirBin, HasRecords
      <3> QED
        BY <2>1, <2>3, <2>4, <3>1, SameRecords
    <2> QED
      BY <2>5, <2>6
  <1>6. CASE WriteSpawn
    BY <1>6, WriteSpawnOrder
  <1> QED
    BY <1>1, <1>2, <1>3, <1>4, <1>5, <1>6, SMTT(30) DEF ExtractRuns

-----------------------------------------------------------------------------
(* The numbers of the spawns *)

LEMMA FiniteList ==
    ASSUME ListFacts, NEW s, IsList(s)
    PROVE  IsFiniteSet({s[i] : i \in DOMAIN s})
  <1> DEFINE S == {s[i] : i \in DOMAIN s}
  <1>1. Len(s) \in Nat /\ s \in [1 .. Len(s) -> S] /\ \A x \in S : \E i \in 1 .. Len(s) : s[i] = x
    BY DEF IsList
  <1> HIDE DEF S
  <1>2. IsFiniteSet(S)
    BY <1>1, Zenon DEF ListFacts
  <1> QED
    BY <1>2 DEF S

(* The number that build_map_bih gives a spawn is its place among the objects *)
(* of the tree, whatever the ids: more spawns lie below a greater id.         *)
LEMMA IndexOfObject ==
    ASSUME SubsetFacts, NEW S, IsFiniteSet(S), \A x \in S : x.id \in Nat, NEW s \in S
    PROVE  /\ node_index(S, s.id) + 1 \in DOMAIN Objects(S)
           /\ Objects(S)[node_index(S, s.id) + 1] = s.id
  <1> DEFINE Below(id) == {x \in S : x.id < id}
             n(id) == Cardinality(Below(id))
             ids == {x.id : x \in S}
  <1>1. \A id : IsFiniteSet(Below(id)) /\ n(id) \in Nat
    BY DEF SubsetFacts
  <1>2. n(s.id) < Cardinality(S)
    <2>1. s \notin Below(s.id)
      OBVIOUS
    <2>2. Below(s.id) \in SUBSET S /\ Below(s.id) # S
      BY <2>1
    <2> HIDE DEF Below
    <2>3. Cardinality(Below(s.id)) <= Cardinality(S) /\ Cardinality(Below(s.id)) # Cardinality(S)
      BY <2>2, Zenon DEF SubsetFacts
    <2> QED
      BY <1>1, <2>3 DEF SubsetFacts
  <1>3. ASSUME NEW a \in S, NEW b \in S, a.id < b.id PROVE n(a.id) < n(b.id)
    <2>1. a \in Below(b.id) /\ a \notin Below(a.id)
      BY <1>3
    <2>2. Below(a.id) \in SUBSET Below(b.id)
      BY <1>3
    <2>3. Below(a.id) # Below(b.id) /\ IsFiniteSet(Below(b.id))
      BY <1>1, <2>1
    <2> HIDE DEF Below
    <2>4. /\ Cardinality(Below(a.id)) <= Cardinality(Below(b.id))
          /\ Cardinality(Below(a.id)) # Cardinality(Below(b.id))
      BY <2>2, <2>3, Zenon DEF SubsetFacts
    <2> QED
      BY <1>1, <2>4
  <1>4. ASSUME NEW id \in ids, n(id) = n(s.id) PROVE id = s.id
    <2> HIDE DEF n
    <2>1. PICK x \in S : x.id = id
      OBVIOUS
    <2>2. x.id < s.id \/ s.id < x.id \/ x.id = s.id
      OBVIOUS
    <2>3. ~(n(x.id) < n(s.id)) /\ ~(n(s.id) < n(x.id))
      <3>1. n(s.id) \in Nat /\ n(x.id) = n(s.id)
        BY <1>1, <1>4, <2>1, Zenon
      <3> QED
        BY <3>1
    <2> QED
      BY <1>3, <2>1, <2>2, <2>3
  <1>5. n(s.id) + 1 \in 1 .. Cardinality(S) /\ n(s.id) \in Nat
    <2>1. Cardinality(S) \in Nat
      BY Zenon DEF SubsetFacts
    <2>2. n(s.id) \in Nat
      BY <1>1, Zenon
    <2> HIDE DEF n
    <2> QED
      BY <1>2, <2>1, <2>2
  <1>6. node_index(S, s.id) = n(s.id)
    BY DEF node_index
  <1>7. Objects(S)[n(s.id) + 1] = CHOOSE id \in ids : n(id) = (n(s.id) + 1) - 1
    BY <1>5, Zenon DEF Objects
  <1>8. (n(s.id) + 1) - 1 = n(s.id)
    BY <1>5
  <1>9. DOMAIN Objects(S) = 1 .. Cardinality(S)
    BY DEF Objects
  <1>10. s.id \in ids
    OBVIOUS
  <1> HIDE DEF n, ids
  <1>11. (CHOOSE id \in ids : n(id) = n(s.id)) = s.id
    BY <1>4, <1>10
  <1> QED
    BY <1>5, <1>6, <1>7, <1>8, <1>9, <1>11

-----------------------------------------------------------------------------
(* The assembler *)

AsFields == {"phase", "maps", "map", "spawns", "models", "todo", "busy", "limit", "unwritten"}
IsAs(a) == DOMAIN a = AsFields /\ a = [x \in AsFields |-> a[x]]

VmapFields == {"trees", "tiles", "list", "vmos"}
IsVmaps(v) == DOMAIN v = VmapFields /\ v = [x \in VmapFields |-> v[x]]

Active == Assembling \/ as.phase = "done"

\* What the assembler makes of a map, as long as Buildings stays as it is.
AllMaps == {r.map : r \in Range(dir_bin.recs)}
NamesOf(m) == {s.name : s \in UniqueEntries(m)}
TreeOf(m) == TreeFile(m, UniqueEntries(m))
TileOf(m, t) == TileFile(m, t, UniqueEntries(m))
TilesOfMap(m) == TilesWithFile(m, UniqueEntries(m))

\* The assembler works on what an extraction has left for good, map by map, and
\* has no more models open than its pool has threads.
AsInv ==
    /\ IsAs(as)
    /\ Active => Sealed
    /\ vmaps # None \/ Active => IsVmaps(vmaps)
    /\ as.phase \in {"tree", "tiles"} => as.map \in as.maps /\ as.spawns = UniqueEntries(as.map)
    /\ as.phase \in {"convert", "done"} => as.maps = {}
    /\ as.phase # "convert" => as.busy = {}
    /\ as.phase = "convert" => as.limit \in {1, Threads} /\ Cardinality(as.busy) <= as.limit
    /\ IsFiniteSet(as.busy)

\* The maps that a run has come past have all their files, and the names of
\* their models are known.
MapMade(m) == /\ m \in DOMAIN vmaps.trees /\ NamesOf(m) \subseteq as.models
           /\ \A t \in TilesOfMap(m) : <<m, t>> \in DOMAIN vmaps.tiles
MadeInv ==
    /\ Active => \A m \in AllMaps \ as.maps : MapMade(m)
    /\ as.phase \in {"tree", "tiles"} => NamesOf(as.map) \subseteq as.models
    /\ as.phase = "tiles" => /\ as.map \in DOMAIN vmaps.trees
                             /\ as.todo \subseteq TilesOfMap(as.map)
                             /\ \A t \in TilesOfMap(as.map) \ as.todo :
                                   <<as.map, t>> \in DOMAIN vmaps.tiles

\* Every file on disk, of this run or of an earlier one, is what the assembler
\* makes of what the extraction left.
DiskInv ==
    vmaps # None \/ Active =>
        /\ \A m \in DOMAIN vmaps.trees : Sealed /\ vmaps.trees[m] = TreeOf(m)
        /\ \A k \in DOMAIN vmaps.tiles :
              /\ Sealed /\ k[1] \in DOMAIN vmaps.trees
              /\ vmaps.tiles[k] = TileOf(k[1], k[2]) /\ vmaps.tiles[k] # {}
        /\ vmaps.list # None => Sealed /\ vmaps.list = ListedModels

\* A model that is wanted waits, is being converted, cannot be read, is
\* converted, or could not be written.
Converted(f) == f \in DOMAIN vmaps.vmos /\ vmaps.vmos[f] = "whole"
VmoInv ==
    /\ as.phase \in {"convert", "done"} =>
          /\ ListedModels \subseteq as.models
          /\ as.busy \subseteq DOMAIN vmaps.vmos
          /\ \A f \in as.models :
                \/ f \in as.todo \/ f \in as.busy \/ ~read_raw_model_ok(f)
                \/ Converted(f) \/ f \in as.unwritten
    /\ as.phase = "done" => as.todo = {}

VmapInv == AsInv /\ MadeInv /\ DiskInv /\ VmoInv

\* A step of either tool, of which one runs at a time.
VmapRuns ==
    \/ UNCHANGED assembleVars /\ ExtractRuns
    \/ /\ UNCHANGED extractVars
       /\ (StartAssemble /\ ~Extracting) \/ AssembleStep \/ AssembleFault

LEMMA Frozen ==
    ASSUME buildings' = buildings, dir_bin' = dir_bin, gobj_list' = gobj_list
    PROVE  /\ AllMaps' = AllMaps /\ ListedModels' = ListedModels
           /\ \A f : read_raw_model_ok(f)' <=> read_raw_model_ok(f)
           /\ \A m : /\ UniqueEntries(m)' = UniqueEntries(m) /\ NamesOf(m)' = NamesOf(m)
                     /\ TreeOf(m)' = TreeOf(m) /\ TilesOfMap(m)' = TilesOfMap(m)
           /\ \A m, t : TileOf(m, t)' = TileOf(m, t)
  <1>1. AllMaps' = AllMaps
    BY DEF AllMaps
  <1>2. \A f : read_raw_model_ok(f)' <=> read_raw_model_ok(f)
    BY DEF read_raw_model_ok, GroupsIn, Announced
  <1>3. ListedModels' = ListedModels
    BY <1>2 DEF ListedModels
  <1>4. \A m : UniqueEntries(m)' = UniqueEntries(m)
    <2>1. \A m : Firsts(m)' = Firsts(m)
      BY DEF Firsts
    <2>2. \A f : HasBound(f)' <=> HasBound(f)
      BY <1>2 DEF HasBound
    <2> QED
      BY <2>1, <2>2 DEF UniqueEntries
  <1>5. \A m : NamesOf(m)' = NamesOf(m)
    BY <1>4, SMTT(30) DEF NamesOf
  <1>6. ASSUME NEW m PROVE TreeOf(m)' = TreeOf(m)
    <2>1. UniqueEntries(m)' = UniqueEntries(m)
      BY <1>4
    <2> QED
      BY <2>1 DEF TreeOf, TreeFile, Objects, EntriesOf, RecordsOf, Entry, node_index, GLOBAL_TILE
  <1>7. ASSUME NEW m, NEW t PROVE TileOf(m, t)' = TileOf(m, t)
    <2>1. UniqueEntries(m)' = UniqueEntries(m)
      BY <1>4
    <2> QED
      BY <2>1 DEF TileOf, TileFile, EntriesOf, RecordsOf, Entry, node_index
  <1>8. ASSUME NEW m PROVE TilesOfMap(m)' = TilesOfMap(m)
    <2>1. TilesOfMap(m) = {t \in {r.tile : r \in RecordsOf(m)} : TileOf(m, t) # {}}
      BY DEF TilesOfMap, TilesWithFile, TileOf
    <2>2. TilesOfMap(m)' = {t \in {r.tile : r \in RecordsOf(m)'} : TileOf(m, t)' # {}}
      BY DEF TilesOfMap, TilesWithFile, TileOf
    <2>3. RecordsOf(m)' = RecordsOf(m)
      BY DEF RecordsOf
    <2> QED
      BY <1>7, <2>1, <2>2, <2>3
  <1> QED
    BY <1>1, <1>2, <1>3, <1>4, <1>5, <1>6, <1>7, <1>8

LEMMA Unchanged ==
    ASSUME UNCHANGED extractVars
    PROVE  /\ buildings' = buildings /\ dir_bin' = dir_bin /\ gobj_list' = gobj_list
           /\ Sealed' <=> Sealed
  BY DEF extractVars, Sealed, Extracting

(* The steps of the extractor leave what an assembler works on. *)
LEMMA ExtractKeepsVmap ==
    ASSUME ExInv, VmapInv, UNCHANGED assembleVars, ExtractRuns
    PROVE  VmapInv'
  <1>1. as' = as /\ vmaps' = vmaps /\ (Active' <=> Active) /\ IsAs(as)
    BY DEF assembleVars, Active, Assembling, VmapInv, AsInv
  <1>2. CASE Sealed
    <2>1. Sealed' /\ buildings' = buildings /\ dir_bin' = dir_bin /\ gobj_list' = gobj_list
      BY <1>2, SealedStays
    <2>2. /\ AllMaps' = AllMaps /\ ListedModels' = ListedModels
          /\ \A f : read_raw_model_ok(f)' <=> read_raw_model_ok(f)
          /\ \A m : /\ UniqueEntries(m)' = UniqueEntries(m) /\ NamesOf(m)' = NamesOf(m)
                    /\ TreeOf(m)' = TreeOf(m) /\ TilesOfMap(m)' = TilesOfMap(m)
          /\ \A m, t : TileOf(m, t)' = TileOf(m, t)
      BY <2>1, Frozen
    <2>3. AsInv'
      BY <1>1, <2>1, <2>2, Zenon DEF VmapInv, AsInv
    <2>4. MadeInv'
      BY <1>1, <2>2, Zenon DEF VmapInv, MadeInv, MapMade
    <2>5. DiskInv'
      BY <1>1, <2>1, <2>2 DEF VmapInv, DiskInv
    <2>6. VmoInv'
      BY <1>1, <2>2, Zenon DEF VmapInv, VmoInv, Converted
    <2> QED
      BY <2>3, <2>4, <2>5, <2>6 DEF VmapInv
  <1>3. CASE ~Sealed
    <2>1. ~Active
      BY <1>3 DEF VmapInv, AsInv
    <2>2. as.phase \notin {"maps", "tree", "tiles", "convert", "done"}
      BY <2>1, Zenon DEF Active, Assembling
    <2>3. AsInv'
      BY <1>1, <2>1, <2>2, Zenon DEF VmapInv, AsInv
    <2>4. MadeInv'
      BY <1>1, <2>1, <2>2, Zenon DEF MadeInv
    <2>5. DiskInv'
      BY <1>1, <1>3, <2>1 DEF VmapInv, DiskInv
    <2>6. VmoInv'
      BY <1>1, <2>2, Zenon DEF VmoInv
    <2> QED
      BY <2>3, <2>4, <2>5, <2>6 DEF VmapInv
  <1> QED
    BY <1>2, <1>3

LEMMA IdleAs ==
    ASSUME NEW how
    PROVE  LET a == IdleAssemble(how)
           IN  /\ IsAs(a) /\ a.phase = how /\ a.maps = {} /\ a.models = {} /\ a.todo = {}
               /\ a.busy = {}
  <1>1. IsAs(IdleAssemble(how))
    BY Zenon DEF IsAs, IdleAssemble, AsFields
  <1> QED
    BY <1>1, Zenon DEF IdleAssemble

(* A run that ends early, or never begins. *)
LEMMA NotActive ==
    ASSUME PoolFacts, NEW how \in {"idle", "failed", "stopped"}, as' = IdleAssemble(how),
           vmaps' # None => IsVmaps(vmaps'), DiskInv'
    PROVE  VmapInv'
  <1>1. IsAs(as') /\ as'.phase = how /\ as'.busy = {}
    BY IdleAs
  <1>2. ~Active'
    BY <1>1 DEF Active, Assembling
  <1>3. IsFiniteSet({})
    BY DEF PoolFacts
  <1>4. AsInv'
    BY <1>1, <1>2, <1>3, SMTT(30) DEF AsInv
  <1>5. MadeInv' /\ VmoInv'
    BY <1>1, <1>2 DEF MadeInv, VmoInv
  <1> QED
    BY <1>4, <1>5 DEF VmapInv

(* A step that writes no file. *)
LEMMA SameDisk ==
    ASSUME DiskInv, UNCHANGED extractVars, vmaps' = vmaps, Active => Sealed,
           vmaps' # None \/ Active' => vmaps # None \/ Active
    PROVE  DiskInv'
  <1>1. Sealed' <=> Sealed
    BY Unchanged
  <1>2. /\ ListedModels' = ListedModels
        /\ \A m : TreeOf(m)' = TreeOf(m)
        /\ \A m, t : TileOf(m, t)' = TileOf(m, t)
    BY Unchanged, Frozen
  <1> QED
    BY <1>1, <1>2 DEF DiskInv

LEMMA StopAssembleVmap ==
    ASSUME PoolFacts, VmapInv, UNCHANGED extractVars, StopAssemble
    PROVE  VmapInv'
  <1>1. as' = IdleAssemble("stopped") /\ vmaps' = vmaps /\ Active
    BY DEF StopAssemble, Active
  <1>2. IsVmaps(vmaps) /\ DiskInv /\ Sealed
    BY <1>1 DEF VmapInv, AsInv
  <1>3. DiskInv'
    BY <1>1, <1>2, SameDisk
  <1> QED
    BY <1>1, <1>2, <1>3, NotActive

LEMMA StartAssembleVmap ==
    ASSUME PoolFacts, VmapInv, UNCHANGED extractVars, StartAssemble, ~Extracting
    PROVE  VmapInv'
  <1> DEFINE new == [trees |-> <<>>, tiles |-> <<>>, list |-> None, vmos |-> <<>>]
  <1>1. /\ AsInv /\ DiskInv /\ (vmaps # None => IsVmaps(vmaps)) /\ (Active => Sealed)
    BY Zenon DEF VmapInv, AsInv
  <1>2. CASE buildings = None
    <2>1. as' = IdleAssemble("failed") /\ vmaps' = vmaps
      BY <1>2 DEF StartAssemble
    <2>2. ~Active'
      BY <2>1, IdleAs DEF Active, Assembling
    <2>3. DiskInv'
      BY <1>1, <2>1, <2>2, SameDisk
    <2> QED
      BY <1>1, <2>1, <2>3, NotActive
  <1>3. CASE buildings # None
    <2>1. vmaps' = IF vmaps # None THEN vmaps ELSE new
      BY <1>3, Zenon DEF StartAssemble
    <2>2. DiskInv' /\ IsVmaps(vmaps')
      <3>1. CASE vmaps # None
        BY <1>1, <2>1, <3>1, SameDisk
      <3>2. CASE vmaps = None
        <4>1. vmaps' = new
          BY <2>1, <3>2
        <4>2. IsVmaps(vmaps')
          BY <4>1, Zenon DEF IsVmaps, VmapFields
        <4>3. DOMAIN vmaps'.trees = {} /\ DOMAIN vmaps'.tiles = {} /\ vmaps'.list = None
          BY <4>1
        <4>4. DiskInv'
          BY <4>3 DEF DiskInv
        <4> QED
          BY <4>2, <4>4
      <3> QED
        BY <3>1, <3>2
    <2>3. CASE as' = IdleAssemble("failed")
      BY <2>2, <2>3, NotActive
    <2>4. CASE /\ dir_bin # None
               /\ as' = [IdleAssemble("maps") EXCEPT !.maps = {r.map : r \in Range(dir_bin.recs)}]
      <3>1. PICK idle : idle = IdleAssemble("maps")
        OBVIOUS
      <3>2. IsAs(idle) /\ idle.phase = "maps" /\ idle.busy = {}
        BY <3>1, IdleAs
      <3>3. as' = [idle EXCEPT !.maps = AllMaps]
        BY <2>4, <3>1, Zenon DEF AllMaps
      <3>4. IsAs(as')
        BY <3>2, <3>3, Zenon DEF IsAs
      <3>5. as'.phase = "maps" /\ as'.maps = AllMaps /\ as'.busy = {}
        BY <3>2, <3>3, Zenon DEF IsAs, AsFields
      <3>6. AllMaps' = AllMaps
        BY Unchanged, Frozen
      <3>7. Sealed'
        BY <1>3, <2>4, Unchanged DEF Sealed
      <3>8. IsFiniteSet({})
        BY DEF PoolFacts
      <3>9. AsInv'
        BY <2>2, <3>4, <3>5, <3>7, <3>8 DEF AsInv
      <3>10. MadeInv' /\ VmoInv'
        BY <3>5, <3>6 DEF MadeInv, VmoInv
      <3> QED
        BY <2>2, <3>9, <3>10 DEF VmapInv
    <2> QED
      BY <1>3, <2>3, <2>4, Zenon DEF StartAssemble
  <1> QED
    BY <1>2, <1>3

LEMMA CalculateVmap ==
    ASSUME VmapInv, UNCHANGED extractVars, Calculate
    PROVE  VmapInv'
  <1>1. /\ AsInv /\ MadeInv /\ DiskInv /\ as.phase = "maps" /\ Active /\ vmaps' = vmaps
        /\ IsAs(as) /\ Sealed /\ IsVmaps(vmaps) /\ as.busy = {} /\ IsFiniteSet(as.busy)
    BY Zenon DEF VmapInv, AsInv, Calculate, Active, Assembling
  <1>2. PICK map \in as.maps :
           as' = [as EXCEPT !.phase = "tree", !.map = map, !.spawns = UniqueEntries(map),
                            !.models = @ \cup NamesOf(map)]
    BY Zenon DEF Calculate, NamesOf
  <1>3. IsAs(as')
    BY <1>1, <1>2, Zenon DEF IsAs
  <1>4. /\ as'.phase = "tree" /\ as'.map = map /\ as'.spawns = UniqueEntries(map)
        /\ as'.maps = as.maps /\ as'.models = as.models \cup NamesOf(map)
        /\ as'.busy = as.busy
    BY <1>1, <1>2, Zenon DEF IsAs, AsFields
  <1>5. Active' /\ Sealed'
    BY <1>1, <1>4, Unchanged DEF Active, Assembling
  <1>6. /\ AllMaps' = AllMaps
        /\ \A m : /\ UniqueEntries(m)' = UniqueEntries(m) /\ NamesOf(m)' = NamesOf(m)
                  /\ TilesOfMap(m)' = TilesOfMap(m)
    BY Unchanged, Frozen
  <1>7. AsInv'
    <2>1. UniqueEntries(as.map)' = UniqueEntries(map)
      BY <1>4, <1>6, SMTT(30) DEF UniqueEntries
    <2> QED
      BY <1>1, <1>3, <1>4, <1>5, <2>1, Zenon DEF AsInv
  <1>8. NamesOf(as.map)' = NamesOf(map)
    BY <1>4, <1>6 DEF NamesOf, UniqueEntries
  <1>9. \A m : MapMade(m) => MapMade(m)'
    BY <1>1, <1>4, <1>6, Zenon DEF MapMade
  <1>10. MadeInv'
    BY <1>1, <1>4, <1>6, <1>8, <1>9, Zenon DEF MadeInv
  <1>11. DiskInv'
    BY <1>1, SameDisk
  <1>12. VmoInv'
    BY <1>4 DEF VmoInv
  <1> QED
    BY <1>7, <1>10, <1>11, <1>12 DEF VmapInv

LEMMA WriteTreeVmap ==
    ASSUME VmapInv, UNCHANGED extractVars, WriteTree
    PROVE  VmapInv'
  <1>1. /\ AsInv /\ MadeInv /\ DiskInv /\ as.phase = "tree" /\ Active
        /\ IsAs(as) /\ Sealed /\ IsVmaps(vmaps) /\ as.busy = {} /\ IsFiniteSet(as.busy)
        /\ as.map \in as.maps /\ as.spawns = UniqueEntries(as.map)
    BY Zenon DEF VmapInv, AsInv, WriteTree, Active, Assembling
  <1>2. PICK map, trees, todo, tree : /\ map = as.map /\ tree = TreeOf(map)
                                      /\ trees = Put(vmaps.trees, map, tree)
                                      /\ todo = TilesOfMap(map)
    BY Zenon
  <1>3. /\ as' = [as EXCEPT !.phase = "tiles", !.todo = todo]
        /\ vmaps' = [vmaps EXCEPT !.trees = trees]
    BY <1>1, <1>2 DEF WriteTree, TreeOf, TilesOfMap
  <1>4. IsAs(as') /\ IsVmaps(vmaps')
    BY <1>1, <1>3, Zenon DEF IsAs, IsVmaps
  <1>5. /\ as'.phase = "tiles" /\ as'.map = map /\ as'.spawns = as.spawns /\ as'.todo = todo
        /\ as'.maps = as.maps /\ as'.models = as.models /\ as'.busy = as.busy
    BY <1>1, <1>2, <1>3, Zenon DEF IsAs, AsFields
  <1>6. /\ vmaps'.trees = trees /\ vmaps'.tiles = vmaps.tiles /\ vmaps'.list = vmaps.list
    BY <1>1, <1>3, Zenon DEF IsVmaps, VmapFields
  <1>7. /\ DOMAIN trees = DOMAIN vmaps.trees \cup {map} /\ trees[map] = tree
        /\ \A m \in DOMAIN vmaps.trees : m # map => trees[m] = vmaps.trees[m]
    BY <1>2, Zenon DEF Put
  <1>8. Active' /\ Sealed'
    BY <1>1, <1>5, Unchanged DEF Active, Assembling
  <1>9. /\ AllMaps' = AllMaps /\ ListedModels' = ListedModels
        /\ \A m : /\ UniqueEntries(m)' = UniqueEntries(m) /\ NamesOf(m)' = NamesOf(m)
                  /\ TilesOfMap(m)' = TilesOfMap(m) /\ TreeOf(m)' = TreeOf(m)
        /\ \A m, t : TileOf(m, t)' = TileOf(m, t)
    BY Unchanged, Frozen
  <1>10. AsInv'
    <2>1. UniqueEntries(as.map)' = UniqueEntries(map)
      BY <1>5, <1>9 DEF UniqueEntries
    <2> QED
      BY <1>1, <1>2, <1>4, <1>5, <1>8, <2>1, Zenon DEF AsInv
  <1>11. MadeInv'
    <2>1. NamesOf(as.map)' = NamesOf(map)
      BY <1>5, <1>9, Zenon DEF NamesOf, UniqueEntries
    <2>2. TilesOfMap(as.map)' = TilesOfMap(map)
      BY <1>5, <1>9 DEF TilesOfMap
    <2>3. \A m : MapMade(m) => MapMade(m)'
      BY <1>5, <1>6, <1>7, <1>9, Zenon DEF MapMade
    <2> QED
      BY <1>1, <1>2, <1>5, <1>6, <1>7, <1>9, <2>1, <2>2, <2>3, Zenon DEF MadeInv
  <1>12. DiskInv'
    BY <1>1, <1>2, <1>6, <1>7, <1>8, <1>9, Zenon DEF DiskInv
  <1>13. VmoInv'
    BY <1>5, Zenon DEF VmoInv
  <1> QED
    BY <1>10, <1>11, <1>12, <1>13 DEF VmapInv

LEMMA WriteVmtileVmap ==
    ASSUME VmapInv, UNCHANGED extractVars, WriteVmtile
    PROVE  VmapInv'
  <1>1. /\ AsInv /\ MadeInv /\ DiskInv /\ as.phase = "tiles" /\ Active
        /\ IsAs(as) /\ Sealed /\ IsVmaps(vmaps) /\ as.busy = {} /\ IsFiniteSet(as.busy)
        /\ as.map \in as.maps /\ as.spawns = UniqueEntries(as.map)
        /\ as.map \in DOMAIN vmaps.trees /\ as.todo \subseteq TilesOfMap(as.map)
    BY Zenon DEF VmapInv, AsInv, MadeInv, WriteVmtile, Active, Assembling
  <1>2. PICK map : map = as.map
    BY Zenon
  <1>3. PICK t \in as.todo :
           /\ vmaps' = [vmaps EXCEPT !.tiles = Put(@, <<map, t>>, TileOf(map, t))]
           /\ as' = [as EXCEPT !.todo = @ \ {t}]
    BY <1>1, <1>2, Zenon DEF WriteVmtile, TileOf
  <1>4. PICK tiles, tile : tile = TileOf(map, t) /\ tiles = Put(vmaps.tiles, <<map, t>>, tile)
    OBVIOUS
  <1>5. vmaps' = [vmaps EXCEPT !.tiles = tiles]
    BY <1>3, <1>4
  <1>6. IsAs(as') /\ IsVmaps(vmaps')
    BY <1>1, <1>3, <1>5, Zenon DEF IsAs, IsVmaps
  <1>7. /\ as'.phase = "tiles" /\ as'.map = map /\ as'.spawns = as.spawns
        /\ as'.todo = as.todo \ {t} /\ as'.maps = as.maps /\ as'.models = as.models
        /\ as'.busy = as.busy
    BY <1>1, <1>2, <1>3, Zenon DEF IsAs, AsFields
  <1>8. /\ vmaps'.trees = vmaps.trees /\ vmaps'.tiles = tiles /\ vmaps'.list = vmaps.list
    BY <1>1, <1>5, Zenon DEF IsVmaps, VmapFields
  <1>9. /\ DOMAIN tiles = DOMAIN vmaps.tiles \cup {<<map, t>>} /\ tiles[<<map, t>>] = tile
        /\ \A k \in DOMAIN vmaps.tiles : k # <<map, t>> => tiles[k] = vmaps.tiles[k]
    BY <1>4, SMTT(30) DEF Put
  <1>10. Active' /\ Sealed'
    BY <1>1, <1>7, Unchanged, SMTT(30) DEF Active, Assembling
  <1>11. /\ AllMaps' = AllMaps /\ ListedModels' = ListedModels
         /\ \A m : /\ UniqueEntries(m)' = UniqueEntries(m) /\ NamesOf(m)' = NamesOf(m)
                   /\ TilesOfMap(m)' = TilesOfMap(m) /\ TreeOf(m)' = TreeOf(m)
         /\ \A m, u : TileOf(m, u)' = TileOf(m, u)
    BY Unchanged, Frozen
  <1>12. AsInv'
    <2>1. UniqueEntries(as.map)' = UniqueEntries(map)
      BY <1>7, <1>11, Zenon DEF UniqueEntries
    <2> QED
      BY <1>1, <1>2, <1>6, <1>7, <1>10, <2>1, Zenon DEF AsInv
  <1>13. MadeInv'
    <2>1. NamesOf(as.map)' = NamesOf(map)
      BY <1>7, <1>11, SMTT(30) DEF NamesOf, UniqueEntries
    <2>2. TilesOfMap(as.map)' = TilesOfMap(map)
      BY <1>7, <1>11 DEF TilesOfMap
    <2>3. \A m : MapMade(m) => MapMade(m)'
      BY <1>7, <1>8, <1>9, <1>11, Zenon DEF MapMade
    <2>4. \A u \in TilesOfMap(map) \ (as.todo \ {t}) : <<map, u>> \in DOMAIN tiles
      BY <1>1, <1>2, <1>9, Zenon DEF MadeInv
    <2> QED
      BY <1>1, <1>2, <1>7, <1>8, <1>11, <2>1, <2>2, <2>3, <2>4, Zenon DEF MadeInv
  <1>14. DiskInv'
    <2>1. tile # {}
      BY <1>1, <1>2, <1>3, <1>4, Zenon DEF TilesOfMap, TilesWithFile, TileOf
    <2>2. ASSUME NEW k \in DOMAIN tiles
          PROVE  /\ k[1] \in DOMAIN vmaps.trees /\ tiles[k] = TileOf(k[1], k[2])
                 /\ tiles[k] # {}
      <3>1. CASE k = <<map, t>>
        <4>1. k[1] = map /\ k[2] = t /\ tiles[k] = tile
          BY <1>9, <3>1
        <4> QED
          BY <1>1, <1>2, <1>4, <2>1, <4>1, Zenon
      <3>2. CASE k # <<map, t>>
        <4>1. k \in DOMAIN vmaps.tiles /\ tiles[k] = vmaps.tiles[k]
          BY <1>9, <3>2
        <4> QED
          BY <1>1, <4>1 DEF DiskInv
      <3> QED
        BY <3>1, <3>2
    <2> QED
      BY <1>1, <1>8, <1>10, <1>11, <2>2, Zenon DEF DiskInv
  <1>15. VmoInv'
    BY <1>7 DEF VmoInv
  <1> QED
    BY <1>12, <1>13, <1>14, <1>15 DEF VmapInv

LEMMA MapDoneVmap ==
    ASSUME VmapInv, UNCHANGED extractVars, MapDone
    PROVE  VmapInv'
  <1>1. /\ AsInv /\ MadeInv /\ DiskInv /\ as.phase = "tiles" /\ Active /\ as.todo = {}
        /\ IsAs(as) /\ Sealed /\ IsVmaps(vmaps) /\ as.busy = {} /\ IsFiniteSet(as.busy)
        /\ vmaps' = vmaps /\ MapMade(as.map)
        /\ as' = [as EXCEPT !.phase = "maps", !.maps = @ \ {as.map}, !.map = None, !.spawns = {}]
    BY Zenon DEF VmapInv, AsInv, MadeInv, MapMade, MapDone, Active, Assembling
  <1>2. IsAs(as')
    BY <1>1, Zenon DEF IsAs
  <1>3. /\ as'.phase = "maps" /\ as'.maps = as.maps \ {as.map} /\ as'.models = as.models
        /\ as'.busy = as.busy
    BY <1>1, Zenon DEF IsAs, AsFields
  <1>4. Active' /\ Sealed'
    BY <1>1, <1>3, Unchanged DEF Active, Assembling
  <1>5. AllMaps' = AllMaps
        /\ \A m : NamesOf(m)' = NamesOf(m) /\ TilesOfMap(m)' = TilesOfMap(m)
    BY Unchanged, Frozen
  <1>6. AsInv'
    BY <1>1, <1>2, <1>3, <1>4, Zenon DEF AsInv
  <1>7. \A m : MapMade(m) => MapMade(m)'
    BY <1>1, <1>3, <1>5, Zenon DEF MapMade
  <1>8. MadeInv'
    BY <1>1, <1>3, <1>5, <1>7, Zenon DEF MadeInv
  <1>9. DiskInv'
    BY <1>1, SameDisk
  <1>10. VmoInv'
    BY <1>3 DEF VmoInv
  <1> QED
    BY <1>6, <1>8, <1>9, <1>10 DEF VmapInv

(* The conversion leaves the trees, the tiles and the list. *)
LEMMA SameTrees ==
    ASSUME AsInv, MadeInv, DiskInv, UNCHANGED extractVars, Active, as.maps = {},
           vmaps'.trees = vmaps.trees, vmaps'.tiles = vmaps.tiles,
           vmaps'.list \in {vmaps.list, ListedModels}, as'.maps = {},
           as.models \subseteq as'.models, as'.phase \in {"convert", "done"}
    PROVE  MadeInv' /\ DiskInv' /\ Active' /\ Sealed'
  <1>1. /\ AllMaps' = AllMaps /\ ListedModels' = ListedModels
        /\ \A m : /\ NamesOf(m)' = NamesOf(m) /\ TilesOfMap(m)' = TilesOfMap(m)
                  /\ TreeOf(m)' = TreeOf(m)
        /\ \A m, t : TileOf(m, t)' = TileOf(m, t)
    BY Unchanged, Frozen
  <1>2. Sealed /\ Sealed' /\ Active'
    BY Unchanged, Zenon DEF AsInv, Active, Assembling
  <1>3. \A m : MapMade(m) => MapMade(m)'
    BY <1>1, Zenon DEF MapMade
  <1>4. MadeInv'
    BY <1>1, <1>3, SMTT(30) DEF MadeInv
  <1>5. DiskInv'
    BY <1>1, <1>2 DEF DiskInv
  <1> QED
    BY <1>2, <1>4, <1>5, SMTT(30)

LEMMA ExportListVmap ==
    ASSUME PoolFacts, VmapInv, UNCHANGED extractVars, ExportList
    PROVE  VmapInv'
  <1>1. /\ AsInv /\ MadeInv /\ DiskInv /\ as.phase = "maps" /\ Active /\ as.maps = {}
        /\ IsAs(as) /\ Sealed /\ IsVmaps(vmaps) /\ as.busy = {} /\ IsFiniteSet(as.busy)
    BY Zenon DEF VmapInv, AsInv, ExportList, Active, Assembling
  <1>2. PICK listed : listed = ListedModels
    OBVIOUS
  <1>3. /\ IsVmaps(vmaps') /\ vmaps'.trees = vmaps.trees /\ vmaps'.tiles = vmaps.tiles
        /\ vmaps'.list \in {vmaps.list, ListedModels}
    <2>1. CASE vmaps' = vmaps
      BY <1>1, <2>1
    <2>2. CASE vmaps' = [vmaps EXCEPT !.list = listed]
      <3>1. IsVmaps(vmaps')
        BY <1>1, <2>2, Zenon DEF IsVmaps
      <3>2. vmaps'.trees = vmaps.trees /\ vmaps'.tiles = vmaps.tiles /\ vmaps'.list = listed
        BY <1>1, <2>2, Zenon DEF IsVmaps, VmapFields
      <3> QED
        BY <1>2, <3>1, <3>2
    <2> QED
      BY <1>2, <2>1, <2>2, Zenon DEF ExportList
  <1>4. ListedModels' = ListedModels /\ \A f : read_raw_model_ok(f)' <=> read_raw_model_ok(f)
    BY Unchanged, Frozen
  <1>5. CASE as' = IdleAssemble("failed")
    <2>1. DiskInv'
      <3>1. /\ \A m : TreeOf(m)' = TreeOf(m)
            /\ \A m, t : TileOf(m, t)' = TileOf(m, t)
            /\ Sealed'
        BY <1>1, Unchanged, Frozen
      <3> QED
        BY <1>1, <1>3, <1>4, <3>1, SMTT(30) DEF DiskInv
    <2> QED
      BY <1>3, <1>5, <2>1, NotActive, SMTT(30)
  <1>6. ASSUME NEW limit \in {1, Threads},
               as' = [as EXCEPT !.phase = "convert", !.models = @ \cup ListedModels,
                                !.todo = as.models \cup ListedModels, !.limit = limit]
        PROVE  VmapInv'
    <2>1. as' = [as EXCEPT !.phase = "convert", !.models = @ \cup listed,
                           !.todo = as.models \cup listed, !.limit = limit]
      BY <1>2, <1>6
    <2>2. IsAs(as')
      BY <1>1, <2>1, Zenon DEF IsAs
    <2>3. /\ as'.phase = "convert" /\ as'.models = as.models \cup listed
          /\ as'.todo = as.models \cup listed /\ as'.limit = limit /\ as'.maps = as.maps
          /\ as'.busy = as.busy
      BY <1>1, <2>1, Zenon DEF IsAs, AsFields
    <2>4. MadeInv' /\ DiskInv' /\ Active' /\ Sealed'
      BY <1>1, <1>3, <2>3, SameTrees, Zenon
    <2>5. Cardinality(as'.busy) <= as'.limit
      <3>1. as'.busy = {} /\ Cardinality({}) = 0
        BY <1>1, <2>3, Zenon DEF PoolFacts
      <3>2. 0 <= limit
        BY <1>6, ThreadsAssumption
      <3> QED
        BY <2>3, <3>1, <3>2
    <2>6. AsInv'
      BY <1>1, <1>3, <1>6, <2>2, <2>3, <2>4, <2>5, Zenon DEF AsInv
    <2>7. VmoInv'
      BY <1>1, <1>2, <1>4, <2>3, Zenon DEF VmoInv
    <2> QED
      BY <2>4, <2>6, <2>7 DEF VmapInv
  <1> QED
    BY <1>5, <1>6, Zenon DEF ExportList

(* A thread of the pool takes up a model, or is done with it. *)
LEMMA PoolBound ==
    ASSUME PoolFacts, NEW busy, IsFiniteSet(busy), NEW limit \in {1, Threads}, NEW f
    PROVE  /\ Cardinality(busy) < limit =>
                 IsFiniteSet(busy \cup {f}) /\ Cardinality(busy \cup {f}) <= limit
           /\ Cardinality(busy) <= limit =>
                 IsFiniteSet(busy \ {f}) /\ Cardinality(busy \ {f}) <= limit
  <1>1. limit \in Nat
    BY ThreadsAssumption
  <1>2. /\ Cardinality(busy) \in Nat
        /\ IsFiniteSet(busy \cup {f}) /\ IsFiniteSet(busy \ {f})
        /\ Cardinality(busy \cup {f}) \in {Cardinality(busy), Cardinality(busy) + 1}
        /\ Cardinality(busy \ {f}) \in {Cardinality(busy), Cardinality(busy) - 1}
    BY Zenon DEF PoolFacts
  <1> QED
    BY <1>1, <1>2

LEMMA BeginConvertVmap ==
    ASSUME PoolFacts, VmapInv, UNCHANGED extractVars, NEW f, BeginConvert(f)
    PROVE  VmapInv'
  <1>1. /\ AsInv /\ MadeInv /\ DiskInv /\ VmoInv /\ as.phase = "convert" /\ Active
        /\ as.maps = {} /\ IsAs(as) /\ Sealed /\ IsVmaps(vmaps) /\ IsFiniteSet(as.busy)
        /\ f \in as.todo /\ Cardinality(as.busy) < as.limit /\ as.limit \in {1, Threads}
        /\ Cardinality(as.busy) <= as.limit
    BY Zenon DEF VmapInv, AsInv, BeginConvert, Active, Assembling
  <1>2. ListedModels' = ListedModels /\ \A g : read_raw_model_ok(g)' <=> read_raw_model_ok(g)
    BY Unchanged, Frozen
  <1>3. CASE read_raw_model_ok(f)
    <2>1. PICK vmos : vmos = Put(vmaps.vmos, f, "partial")
      OBVIOUS
    <2>2. /\ vmaps' = [vmaps EXCEPT !.vmos = vmos]
          /\ as' = [as EXCEPT !.todo = @ \ {f}, !.busy = @ \cup {f}]
      BY <1>3, <2>1 DEF BeginConvert
    <2>3. IsVmaps(vmaps') /\ IsAs(as')
      BY <1>1, <2>2, Zenon DEF IsVmaps, IsAs
    <2>4. /\ vmaps'.trees = vmaps.trees /\ vmaps'.tiles = vmaps.tiles
          /\ vmaps'.list = vmaps.list /\ vmaps'.vmos = vmos
      BY <1>1, <2>2, Zenon DEF IsVmaps, VmapFields
    <2>5. /\ as'.phase = "convert" /\ as'.maps = {} /\ as'.models = as.models
          /\ as'.todo = as.todo \ {f} /\ as'.busy = as.busy \cup {f} /\ as'.limit = as.limit
          /\ as'.unwritten = as.unwritten
      BY <1>1, <2>2, Zenon DEF IsAs, AsFields
    <2>6. /\ DOMAIN vmos = DOMAIN vmaps.vmos \cup {f}
          /\ \A g \in DOMAIN vmaps.vmos : g # f => vmos[g] = vmaps.vmos[g]
      BY <2>1, SMTT(30) DEF Put
    <2>7. MadeInv' /\ DiskInv' /\ Active' /\ Sealed'
      BY <1>1, <2>4, <2>5, SameTrees
    <2>8. IsFiniteSet(as'.busy) /\ Cardinality(as'.busy) <= as'.limit
      <3>1. IsFiniteSet(as.busy \cup {f}) /\ Cardinality(as.busy \cup {f}) <= as.limit
        BY <1>1, PoolBound, Zenon
      <3> QED
        BY <2>5, <3>1, Zenon
    <2>9. AsInv'
      BY <1>1, <2>3, <2>5, <2>7, <2>8, Zenon DEF AsInv
    <2>10. VmoInv'
      BY <1>1, <1>2, <2>4, <2>5, <2>6, Zenon DEF VmoInv, Converted
    <2> QED
      BY <2>7, <2>9, <2>10 DEF VmapInv
  <1>4. CASE ~read_raw_model_ok(f)
    <2>1. vmaps' = vmaps /\ as' = [as EXCEPT !.todo = @ \ {f}]
      BY <1>4, Zenon DEF BeginConvert
    <2>2. IsAs(as')
      BY <1>1, <2>1, Zenon DEF IsAs
    <2>3. /\ as'.phase = "convert" /\ as'.maps = {} /\ as'.models = as.models
          /\ as'.todo = as.todo \ {f} /\ as'.busy = as.busy /\ as'.limit = as.limit
          /\ as'.unwritten = as.unwritten
      BY <1>1, <2>1, Zenon DEF IsAs, AsFields
    <2>4. MadeInv' /\ DiskInv' /\ Active' /\ Sealed'
      BY <1>1, <2>1, <2>3, SameTrees, Zenon
    <2>5. AsInv'
      BY <1>1, <2>1, <2>2, <2>3, <2>4, Zenon DEF AsInv
    <2>6. VmoInv'
      BY <1>1, <1>2, <1>4, <2>1, <2>3, Zenon DEF VmoInv, Converted
    <2> QED
      BY <2>4, <2>5, <2>6 DEF VmapInv
  <1> QED
    BY <1>3, <1>4

LEMMA EndConvertVmap ==
    ASSUME PoolFacts, VmapInv, UNCHANGED extractVars, NEW f \in as.busy,
           NEW state \in FileStates, EndConvert(f, state)
    PROVE  VmapInv'
  <1>1. /\ AsInv /\ MadeInv /\ DiskInv /\ VmoInv /\ as.phase = "convert" /\ Active
        /\ as.maps = {} /\ IsAs(as) /\ Sealed /\ IsVmaps(vmaps) /\ IsFiniteSet(as.busy)
        /\ as.limit \in {1, Threads} /\ Cardinality(as.busy) <= as.limit
        /\ f \in DOMAIN vmaps.vmos
    BY Zenon DEF VmapInv, AsInv, VmoInv, Active, Assembling
  <1>2. ListedModels' = ListedModels /\ \A g : read_raw_model_ok(g)' <=> read_raw_model_ok(g)
    BY Unchanged, Frozen, Zenon
  <1>3. PICK vmos, unwritten :
           /\ vmos = [vmaps.vmos EXCEPT ![f] = state]
           /\ unwritten = IF state = "whole" THEN as.unwritten ELSE as.unwritten \cup {f}
    BY Zenon
  <1>4. /\ vmaps' = [vmaps EXCEPT !.vmos = vmos]
        /\ as' = [as EXCEPT !.busy = @ \ {f}, !.unwritten = unwritten]
    BY <1>3, Zenon DEF EndConvert
  <1>5. IsVmaps(vmaps') /\ IsAs(as')
    BY <1>1, <1>4, Zenon DEF IsVmaps, IsAs
  <1>6. /\ vmaps'.trees = vmaps.trees /\ vmaps'.tiles = vmaps.tiles
        /\ vmaps'.list = vmaps.list /\ vmaps'.vmos = vmos
    BY <1>1, <1>4, Zenon DEF IsVmaps, VmapFields
  <1>7. /\ as'.phase = "convert" /\ as'.maps = {} /\ as'.models = as.models
        /\ as'.todo = as.todo /\ as'.busy = as.busy \ {f} /\ as'.limit = as.limit
        /\ as'.unwritten = unwritten
    BY <1>1, <1>4, Zenon DEF IsAs, AsFields
  <1>8. /\ DOMAIN vmos = DOMAIN vmaps.vmos /\ (vmos[f] = "whole" \/ f \in unwritten)
        /\ as.unwritten \subseteq unwritten
        /\ \A g \in DOMAIN vmaps.vmos : g # f => vmos[g] = vmaps.vmos[g]
    BY <1>1, <1>3
  <1>9. MadeInv' /\ DiskInv' /\ Active' /\ Sealed'
    BY <1>1, <1>6, <1>7, SameTrees
  <1>10. IsFiniteSet(as'.busy) /\ Cardinality(as'.busy) <= as'.limit
    <2>1. IsFiniteSet(as.busy \ {f}) /\ Cardinality(as.busy \ {f}) <= as.limit
      BY <1>1, PoolBound, Zenon
    <2> QED
      BY <1>7, <2>1, Zenon
  <1>11. AsInv'
    BY <1>1, <1>5, <1>7, <1>9, <1>10, Zenon DEF AsInv
  <1>12. VmoInv'
    BY <1>1, <1>2, <1>6, <1>7, <1>8, Zenon DEF VmoInv, Converted
  <1> QED
    BY <1>9, <1>11, <1>12 DEF VmapInv

LEMMA CreateFailsVmap ==
    ASSUME VmapInv, UNCHANGED extractVars, NEW f, CreateFails(f)
    PROVE  VmapInv'
  <1>1. /\ AsInv /\ MadeInv /\ DiskInv /\ VmoInv /\ as.phase = "convert" /\ Active
        /\ as.maps = {} /\ IsAs(as) /\ Sealed /\ IsVmaps(vmaps) /\ vmaps' = vmaps
        /\ as' = [as EXCEPT !.todo = @ \ {f}, !.unwritten = @ \cup {f}]
    BY Zenon DEF VmapInv, AsInv, CreateFails, Active, Assembling
  <1>2. ListedModels' = ListedModels /\ \A g : read_raw_model_ok(g)' <=> read_raw_model_ok(g)
    BY Unchanged, Frozen
  <1>3. IsAs(as')
    BY <1>1, Zenon DEF IsAs
  <1>4. /\ as'.phase = "convert" /\ as'.maps = {} /\ as'.models = as.models
        /\ as'.todo = as.todo \ {f} /\ as'.busy = as.busy /\ as'.limit = as.limit
        /\ as'.unwritten = as.unwritten \cup {f}
    BY <1>1, Zenon DEF IsAs, AsFields
  <1>5. MadeInv' /\ DiskInv' /\ Active' /\ Sealed'
    BY <1>1, <1>4, SameTrees, Zenon
  <1>6. AsInv'
    BY <1>1, <1>3, <1>4, <1>5, Zenon DEF AsInv
  <1>7. VmoInv'
    BY <1>1, <1>2, <1>4, Zenon DEF VmoInv, Converted
  <1> QED
    BY <1>5, <1>6, <1>7 DEF VmapInv

LEMMA AssembleDoneVmap ==
    ASSUME VmapInv, UNCHANGED extractVars, AssembleDone
    PROVE  VmapInv'
  <1>1. /\ AsInv /\ MadeInv /\ DiskInv /\ VmoInv /\ as.phase = "convert" /\ Active
        /\ as.maps = {} /\ IsAs(as) /\ Sealed /\ IsVmaps(vmaps) /\ IsFiniteSet(as.busy)
        /\ as.todo = {} /\ as.busy = {} /\ vmaps' = vmaps
        /\ as' = [as EXCEPT !.phase = "done"]
    BY Zenon DEF VmapInv, AsInv, AssembleDone, Active, Assembling
  <1>2. ListedModels' = ListedModels /\ \A g : read_raw_model_ok(g)' <=> read_raw_model_ok(g)
    BY Unchanged, Frozen
  <1>3. IsAs(as')
    BY <1>1, Zenon DEF IsAs
  <1>4. /\ as'.phase = "done" /\ as'.maps = {} /\ as'.models = as.models
        /\ as'.todo = {} /\ as'.busy = {} /\ as'.unwritten = as.unwritten
    BY <1>1, Zenon DEF IsAs, AsFields
  <1>5. MadeInv' /\ DiskInv' /\ Active' /\ Sealed'
    BY <1>1, <1>4, SameTrees, Zenon
  <1>6. AsInv'
    BY <1>1, <1>3, <1>4, <1>5, Zenon DEF AsInv
  <1>7. VmoInv'
    BY <1>1, <1>2, <1>4, Zenon DEF VmoInv, Converted
  <1> QED
    BY <1>5, <1>6, <1>7 DEF VmapInv

(* VmapInv is inductive. *)
LEMMA VmapNext ==
    ASSUME PoolFacts, ExInv, VmapInv, VmapRuns
    PROVE  VmapInv'
  <1>1. CASE UNCHANGED assembleVars /\ ExtractRuns
    BY <1>1, ExtractKeepsVmap
  <1>2. CASE UNCHANGED extractVars /\ StartAssemble /\ ~Extracting
    BY <1>2, StartAssembleVmap
  <1>3. CASE UNCHANGED extractVars /\ AssembleStep
    BY <1>3, CalculateVmap, WriteTreeVmap, WriteVmtileVmap, MapDoneVmap, ExportListVmap, Zenon,
       BeginConvertVmap, EndConvertVmap, AssembleDoneVmap DEF AssembleStep, FileStates
  <1>4. CASE UNCHANGED extractVars /\ AssembleFault
    BY <1>4, StopAssembleVmap, CreateFailsVmap, EndConvertVmap, Zenon
       DEF AssembleFault, FileStates
  <1> QED
    BY <1>1, <1>2, <1>3, <1>4 DEF VmapRuns

LEMMA VmapStarts ==
    ASSUME PoolFacts, ExtractInit, AssembleInit
    PROVE  ExInv /\ DirInv /\ CountedInv /\ OrderInv /\ VmapInv
  <1>1. /\ buildings = None /\ dir_bin = None /\ vmaps = None
        /\ ex = IdleExtract("idle") /\ as = IdleAssemble("idle")
    BY DEF ExtractInit, AssembleInit
  <1>2. IsEx(ex) /\ ex.phase = "idle" /\ ex.step = "next" /\ ex.wmo = None
    BY <1>1, IdleEx
  <1>3. IsAs(as) /\ as.phase = "idle" /\ as.busy = {} /\ IsFiniteSet({})
    BY <1>1, IdleAs, Zenon DEF PoolFacts
  <1>4. ~Extracting /\ ~Active
    BY <1>2, <1>3, SMTT(30) DEF Extracting, Active, Assembling
  <1>5. ExInv
    BY <1>1, <1>2, <1>4, SMTT(30) DEF ExInv
  <1>6. DirInv /\ CountedInv /\ OrderInv
    BY <1>1, <1>2, <1>4, SMTT(30) DEF DirInv, CountedInv, OrderInv, HasRecords
  <1>7. AsInv
    BY <1>1, <1>3, <1>4 DEF AsInv
  <1>8. MadeInv /\ DiskInv /\ VmoInv
    BY <1>1, <1>3, <1>4 DEF MadeInv, DiskInv, VmoInv
  <1> QED
    BY <1>5, <1>6, <1>7, <1>8 DEF VmapInv

-----------------------------------------------------------------------------
(* What the assembler leaves *)

(* The spawns of a map are records of it. *)
LEMMA SpawnsAreRecords ==
    ASSUME ListFacts, SubsetFacts, DirInv, dir_bin # None, NEW map
    PROVE  /\ IsFiniteSet(UniqueEntries(map)) /\ UniqueEntries(map) \subseteq RecordsOf(map)
           /\ \A s \in RecordsOf(map) : s.map = map /\ RecordOk(s)
           /\ \A s \in UniqueEntries(map) : s.m2 => HasBound(s.name)
  <1>1. IsList(dir_bin.recs) /\ \A i \in DOMAIN dir_bin.recs : RecordOk(dir_bin.recs[i])
    BY SMTT(30) DEF DirInv
  <1>2. IsFiniteSet({dir_bin.recs[i] : i \in DOMAIN dir_bin.recs})
    BY <1>1, FiniteList
  <1>3. Firsts(map) \subseteq RecordsOf(map)
    BY DEF Firsts, RecordsOf, Range
  <1>4. RecordsOf(map) \subseteq {dir_bin.recs[i] : i \in DOMAIN dir_bin.recs}
    BY DEF RecordsOf, Range
  <1>5. UniqueEntries(map) \subseteq Firsts(map)
        /\ \A s \in UniqueEntries(map) : s.m2 => HasBound(s.name)
    BY Zenon DEF UniqueEntries
  <1>6. \A s \in RecordsOf(map) : s.map = map /\ RecordOk(s)
    BY <1>1, <1>4 DEF RecordsOf
  <1>7. IsFiniteSet(UniqueEntries(map))
    <2>1. UniqueEntries(map) \in SUBSET {dir_bin.recs[i] : i \in DOMAIN dir_bin.recs}
      BY <1>3, <1>4, <1>5, SMTT(30)
    <2> QED
      BY <1>2, <2>1, Zenon DEF SubsetFacts
  <1> QED
    BY <1>3, <1>5, <1>6, <1>7

(* What is written for a record: the spawn that stands for its id. *)
LEMMA EntryIs ==
    ASSUME NEW map, NEW tile, NEW S, NEW wanted \in SUBSET S,
           NEW e \in EntriesOf(map, tile, S, wanted)
    PROVE  \E r \in RecordsOf(map), s \in S, w \in wanted :
              /\ r.tile = tile /\ s.id = r.id /\ w.id = r.id
              /\ e.id = s.id /\ e.name = s.name /\ e.of = s.of /\ e.idx = node_index(S, s.id)
  <1>1. PICK r \in RecordsOf(map) : /\ r.tile = tile /\ \E w \in wanted : w.id = r.id
                                    /\ e = Entry(S, r)
    BY DEF EntriesOf
  <1>2. PICK w \in wanted : w.id = r.id
    BY <1>1
  <1>3. PICK s : s = CHOOSE x \in S : x.id = r.id
    OBVIOUS
  <1>4. s \in S /\ s.id = r.id
    BY <1>2, <1>3
  <1>5. PICK idx : idx = node_index(S, r.id)
    BY SMTT(30)
  <1>6. e = [id |-> r.id, name |-> s.name, of |-> s.of, idx |-> idx]
    BY <1>1, <1>3, <1>5, SMTT(30) DEF Entry
  <1>7. e.id = s.id /\ e.name = s.name /\ e.of = s.of /\ e.idx = node_index(S, s.id)
    BY <1>4, <1>5, <1>6
  <1> QED
    BY <1>1, <1>2, <1>4, <1>7

LEMMA TreeIs ==
    ASSUME NEW map
    PROVE  /\ TreeOf(map).objects = Objects(UniqueEntries(map))
           /\ TreeOf(map).gobj = EntriesOf(map, GLOBAL_TILE, UniqueEntries(map), UniqueEntries(map))
  <1>1. PICK objects, global, tiled :
           /\ objects = Objects(UniqueEntries(map))
           /\ global = EntriesOf(map, GLOBAL_TILE, UniqueEntries(map), UniqueEntries(map))
           /\ tiled = (global = {})
    OBVIOUS
  <1>2. TreeOf(map) = [is_tiled |-> tiled, objects |-> objects, gobj |-> global]
    BY <1>1, Zenon DEF TreeOf, TreeFile
  <1> QED
    BY <1>1, <1>2

(* An entry of a file, of a tile or of the tree. *)
LEMMA DiskEntry ==
    ASSUME DirInv, DiskInv, vmaps # None \/ Active, NEW map, NEW e,
           \/ \E k \in DOMAIN vmaps.tiles : k[1] = map /\ e \in vmaps.tiles[k]
           \/ map \in DOMAIN vmaps.trees /\ e \in vmaps.trees[map].gobj
    PROVE  /\ Sealed /\ map \in DOMAIN vmaps.trees /\ vmaps.trees[map] = TreeOf(map)
           /\ \E s \in UniqueEntries(map) :
                 e.id = s.id /\ e.name = s.name /\ e.idx = node_index(UniqueEntries(map), s.id)
  <1>1. Sealed /\ map \in DOMAIN vmaps.trees /\ vmaps.trees[map] = TreeOf(map)
    BY DEF DiskInv
  <1>2. PICK S : S = UniqueEntries(map)
    OBVIOUS
  <1>3. \E tile : \E wanted \in SUBSET S : e \in EntriesOf(map, tile, S, wanted)
    <2>1. CASE e \in vmaps.trees[map].gobj
      BY <1>1, <1>2, <2>1, TreeIs, SMTT(30)
    <2>2. ASSUME NEW k \in DOMAIN vmaps.tiles, k[1] = map, e \in vmaps.tiles[k]
          PROVE  \E tile : \E wanted \in SUBSET S : e \in EntriesOf(map, tile, S, wanted)
      <3>1. e \in TileOf(map, k[2])
        BY <2>2 DEF DiskInv
      <3>2. e \in EntriesOf(map, k[2], S, {s \in S : ~s.world})
        BY <1>2, <3>1, Zenon DEF TileOf, TileFile
      <3>3. {s \in S : ~s.world} \in SUBSET S
        BY Zenon
      <3> QED
        BY <3>2, <3>3
    <2> QED
      BY <2>1, <2>2, SMTT(30)
  <1>4. PICK s \in S : e.id = s.id /\ e.name = s.name /\ e.idx = node_index(S, s.id)
    BY <1>3, EntryIs, SMTT(30)
  <1> QED
    BY <1>1, <1>2, <1>4

(* The index behind a spawn is its place among the objects of the tree. *)
LEMMA EntryIndex ==
    ASSUME ListFacts, SubsetFacts, DirInv, DiskInv, vmaps # None \/ Active, NEW map, NEW e,
           \/ \E k \in DOMAIN vmaps.tiles : k[1] = map /\ e \in vmaps.tiles[k]
           \/ map \in DOMAIN vmaps.trees /\ e \in vmaps.trees[map].gobj
    PROVE  /\ map \in DOMAIN vmaps.trees
           /\ e.idx + 1 \in DOMAIN vmaps.trees[map].objects
           /\ vmaps.trees[map].objects[e.idx + 1] = e.id
  <1>1. /\ Sealed /\ map \in DOMAIN vmaps.trees
        /\ vmaps.trees[map].objects = Objects(UniqueEntries(map))
    BY DiskEntry, TreeIs, SMTT(30)
  <1>2. PICK S : S = UniqueEntries(map)
    BY SMTT(30)
  <1>3. PICK s \in S : e.id = s.id /\ e.idx = node_index(S, s.id)
    BY <1>2, DiskEntry, SMTT(30)
  <1>4. IsFiniteSet(S) /\ \A x \in S : x.id \in Nat
    BY <1>1, <1>2, SpawnsAreRecords, SMTT(30) DEF Sealed, RecordOk
  <1>5. /\ node_index(S, s.id) + 1 \in DOMAIN Objects(S)
        /\ Objects(S)[node_index(S, s.id) + 1] = s.id
    BY <1>4, IndexOfObject
  <1> QED
    BY <1>1, <1>2, <1>3, <1>5, SMTT(30)

\* What the counts of the raw file of a WMO, or a group of it, keep from being
\* read.
Unreadable(f) ==
    /\ f \in DOMAIN Wmo
    /\ \/ \E i \in DOMAIN Written(f) : Written(f)[i].hollow
       \/ buildings[f] = "counted" /\ Len(Written(f)) # Len(Wmo[f].groups)

(* A model that a spawn names is converted when the assembler is done, or the *)
(* run could not write it, or it is a WMO whose raw file cannot be read.      *)
LEMMA EntryConverted ==
    ASSUME ListFacts, SubsetFacts, DirInv, CountedInv, VmapInv, as.phase = "done", NEW map, NEW e,
           \/ \E k \in DOMAIN vmaps.tiles : k[1] = map /\ e \in vmaps.tiles[k]
           \/ map \in DOMAIN vmaps.trees /\ e \in vmaps.trees[map].gobj
    PROVE  Converted(e.name) \/ e.name \in as.unwritten \/ Unreadable(e.name)
  <1>1. /\ Active /\ DiskInv /\ MadeInv /\ as.maps = {} /\ as.busy = {} /\ as.todo = {}
        /\ \A f \in as.models : ~read_raw_model_ok(f) \/ Converted(f) \/ f \in as.unwritten
    BY Zenon DEF VmapInv, AsInv, VmoInv, Active
  <1>2. PICK s \in UniqueEntries(map) : e.name = s.name
    BY <1>1, DiskEntry, SMTT(30)
  <1>3. Sealed
    BY <1>1, DiskEntry
  <1>4. /\ s \in RecordsOf(map) /\ s.map = map /\ RecordOk(s) /\ (s.m2 => HasBound(s.name))
    BY <1>2, <1>3, SpawnsAreRecords, ZenonT(40) DEF Sealed
  <1>5. map \in AllMaps /\ s.name \in NamesOf(map)
    BY <1>2, <1>4 DEF AllMaps, RecordsOf, NamesOf
  <1>6. s.name \in as.models
    BY <1>1, <1>5, Zenon DEF MadeInv, MapMade
  <1>7. CASE s.m2
    BY <1>1, <1>2, <1>4, <1>6, <1>7, Zenon DEF HasBound
  <1>8. CASE ~s.m2
    <2>1. PICK f : f = s.name
      OBVIOUS
    <2>2. f \in DOMAIN buildings /\ buildings[f] \in {"counted", "whole"}
      BY <1>4, <1>8, <2>1, Zenon DEF RecordOk, HasCount
    <2>3. buildings[f] = "counted" => f \in DOMAIN Wmo
      BY <1>3, <2>2, SMTT(30) DEF CountedInv, Sealed
    <2>4. ~read_raw_model_ok(f) => Unreadable(f)
      BY <2>2, <2>3 DEF read_raw_model_ok, GroupsIn, Announced, Unreadable
    <2> QED
      BY <1>1, <1>2, <1>6, <2>1, <2>4, Zenon
  <1> QED
    BY <1>7, <1>8, Zenon

LEMMA ListConverted ==
    ASSUME VmapInv, as.phase = "done", vmaps.list # None, NEW f \in vmaps.list
    PROVE  Converted(f) \/ f \in as.unwritten
  <1>1. /\ Active /\ as.busy = {} /\ as.todo = {} /\ ListedModels \subseteq as.models
        /\ \A g \in as.models : ~read_raw_model_ok(g) \/ Converted(g) \/ g \in as.unwritten
    BY Zenon DEF VmapInv, AsInv, VmoInv, Active
  <1>2. f \in ListedModels
    BY <1>1 DEF VmapInv, DiskInv
  <1>3. read_raw_model_ok(f)
    BY <1>2 DEF ListedModels
  <1> QED
    BY <1>1, <1>2, <1>3, Zenon

(* The first record of the id of a record. *)
LEMMA FirstRecord ==
    ASSUME ListFacts, DirInv, dir_bin # None, NEW map, NEW r \in RecordsOf(map)
    PROVE  \E s \in Firsts(map) : s.id = r.id
  <1> DEFINE recs == dir_bin.recs
             T == {i \in DOMAIN recs : recs[i].map = map /\ recs[i].id = r.id}
  <1>1. IsList(recs) /\ DOMAIN recs \subseteq Nat
    BY DEF DirInv, IsList
  <1>2. T \subseteq Nat /\ T # {}
    BY <1>1 DEF RecordsOf, Range
  <1> HIDE DEF T
  <1>3. PICK i \in T : \A k \in T : i <= k
    BY <1>2, Zenon DEF ListFacts
  <1>4. i \in Nat
    BY <1>2, <1>3
  <1>5. ASSUME NEW k \in 1 .. i - 1 PROVE k \notin T
    <2>1. k \in Nat /\ ~(i <= k)
      BY <1>4
    <2> QED
      BY <1>3, <2>1
  <1>6. Len(recs) \in Nat /\ DOMAIN recs = 1 .. Len(recs)
    BY <1>1, SMTT(30) DEF IsList
  <1>7. \A k \in 1 .. i - 1 : recs[k].map = map => recs[k].id # recs[i].id
    BY <1>3, <1>4, <1>5, <1>6, SMTT(30) DEF T
  <1>8. recs[i] \in Firsts(map) /\ recs[i].id = r.id
    BY <1>3, <1>7, SMTT(30) DEF Firsts, T
  <1> QED
    BY <1>8

\* The id of a record stands for one thing in its map.
Alone(r) == \A s \in RecordsOf(r.map) : s.id = r.id => /\ s.of = r.of /\ s.name = r.name
                                                       /\ s.world = r.world

\* What a file holds under an id.
Under(file, id) == {e.of : e \in {e \in file : e.id = id}}

\* A file holds the ids recorded for a tile and no other, and under an id that
\* stands for one thing that thing, unless its model cannot be read.
Stands(map, tile, file) ==
    /\ \A e \in file : \E r \in RecordsOf(map) : r.tile = tile /\ r.id = e.id
    /\ \A r \in RecordsOf(map) : r.tile = tile /\ Alone(r) =>
          Under(file, r.id) = IF r.m2 => read_raw_model_ok(r.name) THEN {r.of} ELSE {}

LEMMA EntriesStand ==
    ASSUME ListFacts, SubsetFacts, DirInv, dir_bin # None,
           NEW map, NEW tile, NEW S, NEW wanted,
           S = UniqueEntries(map),
           \/ wanted = S
           \/ tile # GLOBAL_TILE /\ wanted = {s \in S : ~s.world}
    PROVE  Stands(map, tile, EntriesOf(map, tile, S, wanted))
  <1> DEFINE file == EntriesOf(map, tile, S, wanted)
             Read(r) == r.m2 => read_raw_model_ok(r.name)
  <1>1. /\ S \subseteq RecordsOf(map)
        /\ \A s \in RecordsOf(map) : s.map = map /\ RecordOk(s)
        /\ \A s \in S : s.m2 => HasBound(s.name)
    BY SpawnsAreRecords, Zenon
  <1>2. wanted \subseteq S
    BY ZenonT(40)
  <1>3. ASSUME NEW e \in file
        PROVE  \E r \in RecordsOf(map), s \in S :
                  r.tile = tile /\ s.id = r.id /\ e.id = r.id /\ e.of = s.of
    BY <1>2, <1>3, EntryIs
  <1>4. ASSUME NEW r \in RecordsOf(map), r.tile = tile, Alone(r), NEW e \in file, e.id = r.id
        PROVE  e.of = r.of /\ Read(r)
    <2>1. PICK s \in S : s.id = r.id /\ e.of = s.of
      BY <1>3, <1>4, SMTT(30)
    <2>2. s \in RecordsOf(r.map)
      BY <1>1, <1>4, <2>1
    <2>3. s.of = r.of /\ s.name = r.name
      BY <1>4, <2>1, <2>2, Zenon DEF Alone
    <2>4. r.m2 => s.m2
      BY <1>1, <1>4, <2>1, <2>3, Zenon DEF RecordOk
    <2> QED
      BY <1>1, <2>1, <2>3, <2>4, Zenon DEF HasBound
  <1>5. ASSUME NEW r \in RecordsOf(map), r.tile = tile, Alone(r), Read(r)
        PROVE  \E e \in file : e.id = r.id
    <2>1. RecordOk(r) /\ r.map = map
      BY <1>1, <1>5, Zenon
    <2>2. PICK s \in Firsts(map) : s.id = r.id
      BY <1>5, FirstRecord
    <2>3. s \in RecordsOf(map)
      BY <2>2 DEF Firsts, RecordsOf, Range
    <2>4. s.of = r.of /\ s.name = r.name /\ s.world = r.world /\ RecordOk(s)
      BY <1>1, <1>5, <2>1, <2>2, <2>3, Zenon DEF Alone
    <2>5. s.m2 => HasBound(s.name)
      BY <1>5, <2>1, <2>4, Zenon DEF RecordOk, HasBound
    <2>6. s \in S
      BY <2>2, <2>4, <2>5, Zenon DEF UniqueEntries, RecordOk
    <2>7. s \in wanted
      BY <1>5, <2>1, <2>4, <2>6, Zenon DEF RecordOk
    <2>8. PICK e : e = Entry(S, r)
      OBVIOUS
    <2>9. e \in file
      BY <1>5, <2>2, <2>7, <2>8 DEF EntriesOf
    <2>10. e.id = r.id
      <3>1. PICK name, of, idx : e = [id |-> r.id, name |-> name, of |-> of, idx |-> idx]
        BY <2>8, ZenonT(40) DEF Entry
      <3> QED
        BY <3>1, SMTT(30)
    <2> QED
      BY <2>9, <2>10
  <1> HIDE DEF file, Read
  <1>6. ASSUME NEW r \in RecordsOf(map), r.tile = tile, Alone(r)
        PROVE  Under(file, r.id) = IF Read(r) THEN {r.of} ELSE {}
    BY <1>4, <1>5, <1>6, SMTT(30) DEF Under
  <1> QED
    BY <1>3, <1>6 DEF file, Read, Stands

(* Of the records of an id, one of the global tile is the first: an entry of  *)
(* the global tile is of a world spawn.                                       *)
LEMMA GlobalStays ==
    ASSUME ListFacts, SubsetFacts, DirInv, OrderInv, dir_bin # None, NEW map,
           NEW e \in TileOf(map, GLOBAL_TILE)
    PROVE  FALSE
  <1>1. PICK S, wanted : S = UniqueEntries(map) /\ wanted = {s \in S : ~s.world}
    BY Zenon
  <1>2. e \in EntriesOf(map, GLOBAL_TILE, S, wanted)
    BY <1>1, Zenon DEF TileOf, TileFile
  <1>3. wanted \subseteq S /\ S \subseteq Firsts(map) /\ \A w \in wanted : ~w.world
    BY <1>1, ZenonT(40) DEF UniqueEntries
  <1>4. PICK r \in RecordsOf(map), w \in wanted : r.tile = GLOBAL_TILE /\ w.id = r.id
    BY <1>2, <1>3, EntryIs
  <1>5. r.world /\ ~w.world /\ w \in Firsts(map)
    BY <1>3, <1>4, SpawnsAreRecords, Zenon DEF RecordOk
  <1>6. PICK recs : recs = dir_bin.recs
    OBVIOUS
  <1>7. IsList(recs) /\ DOMAIN recs \subseteq Nat \ {0}
    BY <1>6, SeqIsList, SMTT(30) DEF DirInv, IsList
  <1>8. PICK i \in DOMAIN recs :
           /\ recs[i] = w /\ recs[i].map = map
           /\ \A k \in 1 .. i - 1 : recs[k].map = map => recs[k].id # recs[i].id
    BY <1>5, <1>6 DEF Firsts
  <1>9. PICK k \in DOMAIN recs : recs[k] = r /\ r.map = map
    BY <1>4, <1>6 DEF RecordsOf, Range
  <1>10. i \in Nat /\ k \in Nat /\ k # 0
    BY <1>7
  <1>11. ~(k < i)
    BY <1>4, <1>8, <1>9, <1>10, SMTT(30)
  <1>12. i < k
    BY <1>5, <1>8, <1>9, <1>10, <1>11, SMTT(30)
  <1> QED
    BY <1>5, <1>6, <1>8, <1>9, <1>12 DEF OrderInv, HasRecords

(* After a complete assembly, what the file of a tile holds. *)
LEMMA AssembledTile ==
    ASSUME ListFacts, SubsetFacts, DirInv, VmapInv, as.phase = "done", NEW map, NEW tile,
           NEW q \in RecordsOf(map), q.tile = tile
    PROVE  LET file == IF tile = GLOBAL_TILE THEN vmaps.trees[map].gobj
                       ELSE IF <<map, tile>> \in DOMAIN vmaps.tiles
                       THEN vmaps.tiles[<<map, tile>>] ELSE {}
           IN  /\ Stands(map, tile, file)
               /\ OrderInv /\ tile = GLOBAL_TILE => <<map, tile>> \notin DOMAIN vmaps.tiles
  <1>1. /\ Active /\ DiskInv /\ MadeInv /\ as.maps = {} /\ Sealed /\ dir_bin # None
    BY Zenon DEF VmapInv, AsInv, Active, Sealed
  <1>2. map \in AllMaps
    BY SMTT(30) DEF RecordsOf, AllMaps
  <1>3. MapMade(map)
    BY <1>1, <1>2 DEF MadeInv
  <1>4. PICK S, wanted : S = UniqueEntries(map) /\ wanted = {s \in S : ~s.world}
    BY Zenon
  <1>5. TileOf(map, tile) = EntriesOf(map, tile, S, wanted)
    BY <1>4, Zenon DEF TileOf, TileFile
  <1>6. <<map, tile>> \in DOMAIN vmaps.tiles =>
           vmaps.tiles[<<map, tile>>] = TileOf(map, tile) /\ TileOf(map, tile) # {}
    <2>1. PICK k : k = <<map, tile>>
      BY Zenon
    <2>2. k[1] = map /\ k[2] = tile
      BY <2>1, SMTT(30)
    <2> QED
      BY <1>1, <2>1, <2>2 DEF DiskInv
  <1>7. <<map, tile>> \notin DOMAIN vmaps.tiles => TileOf(map, tile) = {}
    <2>1. tile \in TilesOfMap(map) => <<map, tile>> \in DOMAIN vmaps.tiles
      BY <1>3, Zenon DEF MapMade
    <2>2. TileOf(map, tile) # {} => tile \in TilesOfMap(map)
      BY ZenonT(40) DEF TileOf, TilesOfMap, TilesWithFile
    <2> QED
      BY <2>1, <2>2
  <1>8. CASE tile # GLOBAL_TILE
    <2>1. Stands(map, tile, EntriesOf(map, tile, S, wanted))
      BY <1>1, <1>4, <1>8, EntriesStand, SMTT(30)
    <2>2. Stands(map, tile, IF <<map, tile>> \in DOMAIN vmaps.tiles
                            THEN vmaps.tiles[<<map, tile>>] ELSE {})
      BY <1>5, <1>6, <1>7, <2>1, SMTT(30)
    <2> QED
      BY <1>8, <2>2, SMTT(30)
  <1>9. CASE tile = GLOBAL_TILE
    <2>1. vmaps.trees[map].gobj = EntriesOf(map, tile, S, S)
      BY <1>1, <1>3, <1>4, <1>9, TreeIs, SMTT(30) DEF DiskInv, MapMade
    <2>2. Stands(map, tile, EntriesOf(map, tile, S, S))
      BY <1>1, <1>4, EntriesStand
    <2>3. OrderInv => <<map, tile>> \notin DOMAIN vmaps.tiles
      BY <1>1, <1>6, <1>9, GlobalStays
    <2> QED
      BY <1>9, <2>1, <2>2, <2>3, SMTT(30)
  <1> QED
    BY <1>8, <1>9
=============================================================================
