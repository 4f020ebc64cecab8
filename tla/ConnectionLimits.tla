------------------------- MODULE ConnectionLimits -------------------------
(***************************************************************************)
(* What the connection tracker of realmd promises: a pool of connection    *)
(* slots.  A connection holds at most one slot, it is given one only while  *)
(* both limits leave room (a limit of 0 is no limit), and it gives it back. *)
(* Nothing is said here of counters, locks, tasks or guards: those are      *)
(* ConnectionTracker, which is shown to implement this module.              *)
(***************************************************************************)
EXTENDS Naturals, FiniteSets

CONSTANTS Conns,      \* connections
          IPs,        \* client addresses
          MaxPerIp,   \* MaxConnectionsPerIP
          MaxTotal    \* MaxConnections

VARIABLE slots        \* the address of every connection that holds a slot

HoldersAt(s, ip) == {c \in DOMAIN s : s[c] = ip}

\* Is there room for one more connection from ip?
RoomFor(s, ip) ==
    /\ MaxTotal = 0 \/ Cardinality(DOMAIN s) < MaxTotal
    /\ MaxPerIp = 0 \/ Cardinality(HoldersAt(s, ip)) < MaxPerIp

Init == slots = [c \in {} |-> {}]

Take(c, ip) ==
    /\ c \notin DOMAIN slots
    /\ RoomFor(slots, ip)
    /\ slots' = [d \in DOMAIN slots \cup {c} |-> IF d = c THEN ip ELSE slots[d]]

GiveBack(c) ==
    /\ c \in DOMAIN slots
    /\ slots' = [d \in DOMAIN slots \ {c} |-> slots[d]]

Next == \E c \in Conns : GiveBack(c) \/ \E ip \in IPs : Take(c, ip)

Spec == Init /\ [][Next]_slots
=============================================================================
