------------------------------ MODULE RealmList ------------------------------
(***************************************************************************)
(* The realm list of realmd (realm_list.rs) as the realm list requests of    *)
(* many sessions drive it: each request takes the write lock, polls the      *)
(* realmlist table if the interval is over, then takes the read lock and     *)
(* copies the list.  The world servers write the table on their own, and a   *)
(* realm whose row stops changing is shown offline.                          *)
(*                                                                          *)
(* Of the realm flags only OFFLINE matters here; population stands for all   *)
(* that the heartbeat compares.  Reads and writes of the list happen under   *)
(* one tokio RwLock, which is granted in the order of the requests.          *)
(***************************************************************************)
EXTENDS Integers, Sequences

CONSTANTS Realms,          \* names of realms
          Populations,
          Handlers,        \* sessions that ask for the list
          UpdateInterval,  \* RealmsStateUpdateDelay
          StaleTimeout,    \* RealmStaleTimeout
          DbFaults,        \* may a poll fail?
          MaxTime          \* bound: the clock stops here

ASSUME IntervalsAreNat ==
    UpdateInterval \in Nat /\ StaleTimeout \in Nat /\ MaxTime \in Nat

ASSUME FaultsAreBoolean == DbFaults \in BOOLEAN

VARIABLES clock,
          realmlist,         \* table realmlist: the rows the query selects
          realms,            \* RealmList::realms
          next_update_time,  \* RealmList::next_update_time
          poll,              \* locals of the request that holds the write lock
          waiters,           \* requests waiting for the lock, in order
          pc,                \* what each request is at
          snapshot,          \* realms_snapshot of each request
          asked,             \* history: when each request had the write lock
          wrote,             \* history: realms written since the last poll
          heard,             \* history: the last poll that met such a write
          polled,            \* history: the last poll that succeeded
          failed,            \* history: has a poll failed?
          gone               \* history: realms that were once not in the table

vars == <<clock, realmlist, realms, next_update_time, poll, waiters, pc, snapshot,
          asked, wrote, heard, polled, failed, gone>>
world == <<clock, realmlist>>
history == <<wrote, heard, polled, failed>>

Times == 0..MaxTime
Row == [population : Populations, offline : BOOLEAN]
Entry == [population : Populations, offline : BOOLEAN, prev_offline : BOOLEAN,
          last_seen_alive : Times]
NoRow == [population |-> "none"]
NoPoll == [by |-> "none"]

\* An empty list is a function that is NoRow everywhere.
Empty == [r \in Realms |-> NoRow]
Lists == [Realms -> Entry \cup {NoRow}]
-----------------------------------------------------------------------------
(* One poll: update_realms *)

\* What the previous poll left to compare with; a realm it did not know has
\* changed.
DataChanged(row, old) ==
    old = NoRow \/ row.population # old.population \/ row.offline # old.prev_offline

\* Faulty variant: the time of the poll before is stored.
LastSeenAlive_Behind(row, old, now) ==
    IF DataChanged(row, old) THEN now - UpdateInterval ELSE old.last_seen_alive

LastSeenAlive(row, old, now) ==
    IF DataChanged(row, old) THEN now ELSE old.last_seen_alive

\* No updates for too long: the realm is shown offline although its row says
\* that it is online.
Stale(now, alive) == StaleTimeout > 0 /\ now - alive > StaleTimeout

\* Faulty variant: the overridden flag is what the next poll compares with.
MakeEntry_SavesOverride(row, old, now) ==
    LET alive == LastSeenAlive(row, old, now)
        off == row.offline \/ Stale(now, alive)
    IN  [population |-> row.population, offline |-> off, prev_offline |-> off,
         last_seen_alive |-> alive]

MakeEntry(row, old, now) ==
    LET alive == LastSeenAlive(row, old, now)
    IN  [population |-> row.population,
         offline |-> row.offline \/ Stale(now, alive),
         prev_offline |-> row.offline,
         last_seen_alive |-> alive]

UpdateRealms(table, old, now) ==
    [r \in Realms |-> IF table[r] = NoRow THEN NoRow ELSE MakeEntry(table[r], old[r], now)]

\* initialize() has polled once; with no realm main() gives up.  It leaves
\* next_update_time at zero.
Init ==
    /\ clock = 0
    /\ realmlist \in [Realms -> Row \cup {NoRow}]
    /\ realmlist # Empty
    /\ realms = UpdateRealms(realmlist, Empty, 0)
    /\ next_update_time = 0
    /\ poll = NoPoll
    /\ waiters = <<>>
    /\ pc = [h \in Handlers |-> "idle"]
    /\ snapshot = [h \in Handlers |-> Empty]
    /\ asked = [h \in Handlers |-> 0]
    /\ wrote = {}
    /\ heard = [r \in Realms |-> 0]
    /\ polled = 0
    /\ failed = FALSE
    /\ gone = {r \in Realms : realmlist[r] = NoRow}
-----------------------------------------------------------------------------
(* A realm list request: handle_realm_list, update_if_needed *)

\* The request asks for the write lock.
Request(h) ==
    /\ pc[h] = "idle"
    /\ pc' = [pc EXCEPT ![h] = "write"]
    /\ waiters' = Append(waiters, h)
    /\ UNCHANGED <<world, realms, next_update_time, poll, snapshot, asked, history, gone>>

\* It gives up the write lock and asks for the read lock.
ThenRead(h, queue) ==
    /\ pc' = [pc EXCEPT ![h] = "read"]
    /\ waiters' = Append(queue, h)

Granted(h) == poll = NoPoll /\ waiters # <<>> /\ Head(waiters) = h

\* Faulty variant: the interval has to be over by a second.
UpToDate_OneLate == UpdateInterval = 0 \/ next_update_time >= clock

UpToDate == UpdateInterval = 0 \/ next_update_time > clock

\* The write lock is granted and no poll is due.
SkipUpdate(h) ==
    /\ Granted(h) /\ pc[h] = "write"
    /\ UpToDate
    /\ asked' = [asked EXCEPT ![h] = clock]
    /\ ThenRead(h, Tail(waiters))
    /\ UNCHANGED <<world, realms, next_update_time, poll, snapshot, history, gone>>

\* A poll is due: the list is copied and cleared, and the query sent.  The lock
\* is held across the query.
StartUpdate(h) ==
    /\ Granted(h) /\ pc[h] = "write"
    /\ ~UpToDate
    /\ asked' = [asked EXCEPT ![h] = clock]
    /\ next_update_time' = clock + UpdateInterval
    /\ poll' = [by |-> h, now |-> clock, old |-> realms]
    /\ realms' = Empty
    /\ pc' = [pc EXCEPT ![h] = "query"]
    /\ waiters' = Tail(waiters)
    /\ UNCHANGED <<world, snapshot, history, gone>>

\* The rows arrive; now is the time before the query.
QueryDone(h) ==
    /\ pc[h] = "query"
    /\ realms' = UpdateRealms(realmlist, poll.old, poll.now)
    /\ poll' = NoPoll
    /\ ThenRead(h, waiters)
    /\ wrote' = {}
    /\ heard' = [r \in Realms |-> IF r \in wrote THEN poll.now ELSE heard[r]]
    /\ polled' = poll.now
    /\ UNCHANGED <<world, next_update_time, snapshot, asked, failed, gone>>

\* Faulty variant: an error leaves the handler with the lock held.
QueryFails_KeepsLock(h) ==
    /\ DbFaults
    /\ pc[h] = "query"
    /\ pc' = [pc EXCEPT ![h] = "idle"]
    /\ UNCHANGED <<world, realms, next_update_time, poll, waiters, snapshot, asked, history, gone>>

\* The query fails: it is logged, and the list stays empty.
QueryFails(h) ==
    /\ DbFaults
    /\ pc[h] = "query"
    /\ poll' = NoPoll
    /\ ThenRead(h, waiters)
    /\ failed' = TRUE
    /\ UNCHANGED <<world, realms, next_update_time, snapshot, asked, wrote, heard, polled, gone>>

\* Faulty variant: the list is copied without waiting for the writer.
TakeSnapshot_NoLock(h) ==
    /\ waiters # <<>> /\ Head(waiters) = h /\ pc[h] = "read"
    /\ snapshot' = [snapshot EXCEPT ![h] = realms]
    /\ pc' = [pc EXCEPT ![h] = "load"]
    /\ waiters' = Tail(waiters)
    /\ UNCHANGED <<world, realms, next_update_time, poll, asked, history, gone>>

\* The read lock is granted: the list is copied.
TakeSnapshot(h) ==
    /\ Granted(h) /\ pc[h] = "read"
    /\ snapshot' = [snapshot EXCEPT ![h] = realms]
    /\ pc' = [pc EXCEPT ![h] = "load"]
    /\ waiters' = Tail(waiters)
    /\ UNCHANGED <<world, realms, next_update_time, poll, asked, history, gone>>

\* The packet is built from the copy and written, or the write fails.
Reply(h) ==
    /\ pc[h] = "load"
    /\ pc' = [pc EXCEPT ![h] = "idle"]
    /\ snapshot' = [snapshot EXCEPT ![h] = Empty]
    /\ asked' = [asked EXCEPT ![h] = 0]
    /\ UNCHANGED <<world, realms, next_update_time, poll, waiters, history, gone>>
-----------------------------------------------------------------------------
(* The outside world *)

Tick ==
    /\ clock < MaxTime
    /\ clock' = clock + 1
    /\ UNCHANGED <<realmlist, realms, next_update_time, poll, waiters, pc, snapshot, asked,
                   history, gone>>

\* A world server writes its row, be it with the values that are there; an
\* administrator removes one.
WriteRow(r, row) ==
    /\ realmlist' = [realmlist EXCEPT ![r] = row]
    /\ wrote' = wrote \cup {r}
    /\ gone' = IF row = NoRow THEN gone \cup {r} ELSE gone
    /\ UNCHANGED <<clock, realms, next_update_time, poll, waiters, pc, snapshot, asked, heard,
                   polled, failed>>

Step(h) ==
    \/ SkipUpdate(h) \/ StartUpdate(h) \/ QueryDone(h) \/ QueryFails(h)
    \/ TakeSnapshot(h) \/ Reply(h)

Next ==
    \/ \E h \in Handlers : Request(h) \/ Step(h)
    \/ Tick
    \/ \E r \in Realms : \E row \in Row \cup {NoRow} : WriteRow(r, row)

Spec == Init /\ [][Next]_vars

\* The lock is granted, the database answers, the handler is scheduled.
FairSpec == Spec /\ \A h \in Handlers : WF_vars(Step(h))
-----------------------------------------------------------------------------
TypeOK ==
    /\ clock \in Times
    /\ realmlist \in [Realms -> Row \cup {NoRow}]
    /\ realms \in Lists
    /\ next_update_time \in 0..(MaxTime + UpdateInterval)
    /\ \/ poll = NoPoll
       \/ poll \in [by : Handlers, now : Times, old : Lists]
    /\ waiters \in Seq(Handlers)
    /\ pc \in [Handlers -> {"idle", "write", "query", "read", "load"}]
    /\ snapshot \in [Handlers -> Lists]
    /\ asked \in [Handlers -> Times]
    /\ wrote \subseteq Realms
    /\ heard \in [Realms -> Times]
    /\ polled \in Times
    /\ failed \in BOOLEAN
    /\ gone \subseteq Realms

\* The list is cleared and refilled while other sessions ask for it; under the
\* lock none of them gets a list that misses a realm which has been in the
\* table all the time, as long as no poll has failed.
NoHoleInAnswers ==
    ~failed =>
        \A h \in Handlers, r \in Realms :
            pc[h] = "load" /\ r \notin gone => snapshot[h][r] # NoRow

\* When a session copies the list, the last poll is less than the interval
\* before the session had the write lock: no answer is older than
\* RealmsStateUpdateDelay, whoever polled, as long as no poll has failed.
AnswerIsFresh ==
    [][\A h \in Handlers :
          TakeSnapshot(h) /\ UpdateInterval > 0 /\ ~failed
              => asked[h] < polled + UpdateInterval]_vars

\* realmd.conf on RealmStaleTimeout: a realm is listed as online only if, within
\* the timeout before the last poll, some poll met a write of its row.  Once a
\* world server has stopped writing, the realm goes offline and stays so.
SilentRealmIsOffline ==
    \A r \in Realms :
        realms[r] # NoRow /\ ~realms[r].offline /\ StaleTimeout > 0
            => polled - heard[r] <= StaleTimeout

\* The same over any number of polls that all succeed: what a poll saves for
\* the next one is enough to keep a silent realm offline.
SilentStaysOffline == ~failed => SilentRealmIsOffline

\* Every session that asks for the list gets an answer, also when polls fail.
RequestIsAnswered == \A h \in Handlers : pc[h] # "idle" ~> pc[h] = "idle"

\* realmd.conf on RealmStaleTimeout: a world server that updates its row again
\* is shown as online at the next poll (when the row says that it is online).
RecoveredIsOnline ==
    [][\A h \in Handlers, r \in Realms :
          QueryDone(h) /\ r \in wrote /\ realmlist[r] # NoRow /\ ~realmlist[r].offline
              => ~realms'[r].offline]_vars
=============================================================================
