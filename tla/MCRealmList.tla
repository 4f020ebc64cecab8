----------------------------- MODULE MCRealmList -----------------------------
(* Instances of RealmList for TLC. *)
EXTENDS RealmList

CONSTANTS r1, h1, h2, low, high

MCOneRealm == {r1}
MCOneHandler == {h1}
MCTwoHandlers == {h1, h2}
MCOnePopulation == {low}
MCPopulations == {low, high}
=============================================================================
