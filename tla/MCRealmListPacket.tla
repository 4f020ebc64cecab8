------------------------- MODULE MCRealmListPacket -------------------------
(* Instances of RealmListPacket for TLC. *)
EXTENDS RealmListPacket

CONSTANTS r1, r2

MCRealms == {r1, r2}
MCBuilds == {6141, 7000, 8606}

\* Every pair of realms over three security levels, two sets of builds and two
\* sets of flags.
MCEntries == [allowed : {0, 1, 3}, builds : {{8606}, {6141, 7000}},
              flags : {{}, {"SPECIFYBUILD"}}]
MCLists == [MCRealms -> MCEntries] \cup [{r1} -> MCEntries]
=============================================================================
