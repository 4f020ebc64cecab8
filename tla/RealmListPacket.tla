--------------------------- MODULE RealmListPacket ---------------------------
(***************************************************************************)
(* The realm list packet (load_realm_list of auth_socket.rs) and the two     *)
(* security levels it is built from: gmlevel, read from the account for      *)
(* every request, and account_security_level, which the session keeps from   *)
(* its logon challenge and which a reconnect leaves at SEC_PLAYER.           *)
(*                                                                          *)
(* Of an entry the model keeps what decides whether a client may join.       *)
(***************************************************************************)
EXTENDS Naturals, FiniteSets

CONSTANTS RealmNames,
          Snapshots,     \* the lists update_realms may have made
          Builds         \* client builds

VARIABLES realms_snapshot,   \* the copied realm list
          gmlevel,           \* account.gmlevel in the database
          accountLevel,      \* account_security_level of the session
          build,
          packet

packetVars == <<realms_snapshot, gmlevel, accountLevel, build, packet>>

SEC_PLAYER == 0
SEC_ADMINISTRATOR == 3
Levels == SEC_PLAYER..SEC_ADMINISTRATOR

Flags == {"OFFLINE", "SPECIFYBUILD"}
Realm == [allowed : Levels, builds : SUBSET Nat, flags : SUBSET Flags]

ASSUME ListsTyped ==
    \A list \in Snapshots :
        DOMAIN list \subseteq RealmNames /\ \A r \in DOMAIN list : list[r] \in Realm

Legacy(b) == b \in {5875, 6005, 6141}

\* find_build_info(b) is some
Supported(b) ==
    b >= 13930 \/ b \in {12340, 11723, 11403, 11159, 10505, 9947, 8606, 6141, 6005, 5875}

\* The realms the packet counts.
Eligible(list, level) == {r \in DOMAIN list : list[r].allowed <= level}

\* The number the packet announces, cut to the width of its field.
EligibleCount(list, level, b) ==
    Cardinality(Eligible(list, level)) % (IF Legacy(b) THEN 256 ELSE 65536)

\* Faulty variant: realms for staff are listed for everybody.
Listed_All(list, level) == DOMAIN list

\* The realms the loop does not skip.
Listed(list, level) ==
    {r \in DOMAIN list : ~(level = SEC_PLAYER /\ list[r].allowed > SEC_PLAYER)}

\* Faulty variant: only the build decides.
LegacyEntry_BuildOnly(realm, level, b) ==
    [flags |-> realm.flags \cup (IF b \in realm.builds THEN {} ELSE {"OFFLINE"}),
     lock |-> FALSE, version |-> FALSE]

\* 1.12 clients know no lock byte and no version block (the name carries the
\* version instead).
LegacyEntry(realm, level, b) ==
    [flags |-> realm.flags \cup (IF b \in realm.builds /\ realm.allowed <= level
                                 THEN {} ELSE {"OFFLINE"}),
     lock |-> FALSE, version |-> FALSE]

TbcEntry(realm, level, b) ==
    LET ok_build == b \in realm.builds
        flags == (realm.flags \cup (IF ok_build THEN {} ELSE {"OFFLINE"}))
                   \ (IF ok_build /\ Supported(b) THEN {} ELSE {"SPECIFYBUILD"})
    IN  [flags |-> flags, lock |-> realm.allowed > level, version |-> "SPECIFYBUILD" \in flags]

LoadRealmList(list, level, b, accLevel) ==
    [count |-> EligibleCount(list, level, b),
     entries |-> [r \in Listed(list, level) |->
                    IF Legacy(b) THEN LegacyEntry(list[r], accLevel, b)
                                 ELSE TbcEntry(list[r], accLevel, b)]]

NoPacket == [count |-> 0, entries |-> [r \in {} |-> {}]]
-----------------------------------------------------------------------------
\* An authenticated session: by logon it knows the level of the account at
\* that time, by reconnect it has the initial value.
PacketInit ==
    /\ realms_snapshot \in Snapshots
    /\ gmlevel \in Levels
    /\ accountLevel \in {SEC_PLAYER, gmlevel}
    /\ build \in Builds
    /\ packet = NoPacket

\* handle_realm_list
HandleRealmList ==
    /\ packet' = LoadRealmList(realms_snapshot, gmlevel, build, accountLevel)
    /\ UNCHANGED <<realms_snapshot, gmlevel, accountLevel, build>>

\* Another poll.
Refresh ==
    /\ realms_snapshot' \in Snapshots
    /\ packet' = NoPacket
    /\ UNCHANGED <<gmlevel, accountLevel, build>>

\* An administrator promotes or demotes the account.
SetGmLevel ==
    /\ gmlevel' \in Levels
    /\ packet' = NoPacket
    /\ UNCHANGED <<realms_snapshot, accountLevel, build>>

PacketNext == HandleRealmList \/ Refresh \/ SetGmLevel

PacketSpec == PacketInit /\ [][PacketNext]_packetVars
-----------------------------------------------------------------------------
Joinable(entry) == "OFFLINE" \notin entry.flags /\ ~entry.lock

\* A client can join a realm of the packet only if the realm supports its build
\* and the session's level reaches the realm's, in both formats and whatever
\* gmlevel has become since the logon.
JoinableIsAllowed ==
    \A r \in DOMAIN packet.entries :
        Joinable(packet.entries[r]) =>
            build \in realms_snapshot[r].builds /\ realms_snapshot[r].allowed <= accountLevel

\* A player (gmlevel 0) is sent no realm reserved for staff, and the number in
\* the packet is the number of entries that follow it.
PlayersPacket ==
    gmlevel = SEC_PLAYER =>
        /\ \A r \in DOMAIN packet.entries : realms_snapshot[r].allowed = SEC_PLAYER
        /\ packet.count = Cardinality(DOMAIN packet.entries)

\* The comments of load_realm_list: the count is the number of eligible realms,
\* and the loop skips the realms that require a higher security level.
CountMatchesEntries == packet.count = Cardinality(DOMAIN packet.entries)
=============================================================================
