CONSTANTS
    r1 = r1  r2 = r2
    RealmNames <- MCRealms
    Snapshots <- MCLists
    Builds <- MCBuilds
SPECIFICATION PacketSpec
INVARIANTS
    CountMatchesEntries
