------------------------ MODULE MCConnectionTracker ------------------------
(***************************************************************************)
(* The accept loop for TLC: four connections from two addresses, so that    *)
(* either limit can be reached while the other still has room.              *)
(***************************************************************************)
EXTENDS ConnectionTracker
CONSTANTS c1, c2, c3, c4, ip1, ip2

MCConns == {c1, c2, c3, c4}
MCThreeConns == {c1, c2, c3}
MCIPs == {ip1, ip2}
=============================================================================
