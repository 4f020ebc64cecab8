-------------------------- MODULE RealmList_proofs --------------------------
(***************************************************************************)
(* For any realms, sessions, intervals and any clock: the lock is held by    *)
(* one poll at a time and is never lost, a list that a session copies has    *)
(* no hole and is fresh, and a silent realm stays offline.                   *)
(*                                                                         *)
(* None of these is inductive as it stands, for a poll spans two steps: it   *)
(* clears the list, and while the query runs what the list said is only in   *)
(* the locals of the poll.  The invariants below therefore speak of Known,   *)
(* the list as the last poll left it, wherever it is.                        *)
(***************************************************************************)
EXTENDS RealmList, RealmListPacket, FiniteSetTheorems, TLAPS

Polling == poll # NoPoll
Known == IF Polling THEN poll.old ELSE realms

\* The poll that holds the write lock is the one request at its query, and
\* meanwhile the list is empty.
LockInv ==
    /\ Polling => pc[poll.by] = "query" /\ realms = Empty
    /\ \A h \in Handlers : pc[h] = "query" => Polling /\ poll.by = h

\* The queue of the lock holds the requests that wait for it, each of them once.
QueueOf(queue, at) ==
    /\ \A h \in Handlers :
          at[h] \in {"write", "read"} => \E i \in 1..Len(queue) : queue[i] = h
    /\ \A i \in 1..Len(queue) : at[queue[i]] \in {"write", "read"}
    /\ \A i, j \in 1..Len(queue) : queue[i] = queue[j] => i = j

QueueInv == QueueOf(waiters, pc)

\* A realm that has always been in the table is known, and is in every copy.
HoleInv ==
    /\ \A r \in Realms : r \notin gone => realmlist[r] # NoRow
    /\ ~failed => \A r \in Realms : r \notin gone =>
          /\ Known[r] # NoRow
          /\ \A h \in Handlers : pc[h] = "load" => snapshot[h][r] # NoRow

\* The order of the times.
TimeInv ==
    /\ polled <= clock
    /\ Polling => polled <= poll.now /\ poll.now <= clock
    /\ \A r \in Realms : heard[r] <= polled

\* A row that nobody has written since the last poll is the row that the poll
\* saved, so the next one will find it unchanged; a realm was seen alive no
\* later than a poll met a write; and the list shows what is stale offline.
SilentInv ==
    ~failed => \A r \in Realms :
        /\ r \notin wrote =>
              /\ Known[r] = NoRow <=> realmlist[r] = NoRow
              /\ Known[r] # NoRow =>
                    /\ Known[r].population = realmlist[r].population
                    /\ Known[r].prev_offline = realmlist[r].offline
        /\ Known[r] # NoRow => Known[r].last_seen_alive <= heard[r]
        /\ realms[r] # NoRow /\ ~realms[r].offline
              => ~Stale(polled, realms[r].last_seen_alive)

\* The next poll is due within the interval after the last one, and whoever
\* waits for the read lock had the write lock before that.
FreshInv ==
    UpdateInterval > 0 /\ ~failed =>
        /\ ~Polling => next_update_time <= polled + UpdateInterval
        /\ Polling => next_update_time = poll.now + UpdateInterval /\ asked[poll.by] = poll.now
        /\ \A h \in Handlers : pc[h] = "read" => asked[h] < polled + UpdateInterval

\* Whenever a request is under way, one of them can move: the one that holds
\* the lock is at its query, the head of the queue waits for a lock that nobody
\* holds, or one has its copy and replies.
LockNeverStuck ==
    (\E h \in Handlers : pc[h] # "idle") =>
        \/ \E h \in Handlers : pc[h] = "query" /\ poll # NoPoll /\ poll.by = h
        \/ \E h \in Handlers : Granted(h) /\ pc[h] \in {"write", "read"}
        \/ \E h \in Handlers : pc[h] = "load"
-----------------------------------------------------------------------------
(* What a poll makes of the table *)

(* No row, no entry and no poll is one of the values that stand for none. *)
LEMMA NoneIsNone ==
    /\ \A row \in Row : row # NoRow
    /\ \A e \in Entry : e # NoRow
    /\ \A p \in [by : Handlers, now : Times, old : Lists] : p # NoPoll
  BY DEF Row, Entry, NoRow, NoPoll

(* The entry that update_realms makes of one row. *)
LEMMA EntryOfRow ==
    ASSUME NEW row \in Row, NEW old \in Entry \cup {NoRow}, NEW now \in Times,
           NEW e, e = MakeEntry(row, old, now)
    PROVE  /\ e \in Entry
           /\ e.population = row.population
           /\ e.prev_offline = row.offline
           /\ e.last_seen_alive = LastSeenAlive(row, old, now)
           /\ ~e.offline => ~Stale(now, e.last_seen_alive)
  <1>1. LastSeenAlive(row, old, now) \in Times
    BY DEF LastSeenAlive, DataChanged, Entry
  <1>2. row.population \in Populations /\ row.offline \in BOOLEAN
    BY DEF Row
  <1>3. Stale(now, LastSeenAlive(row, old, now)) \in BOOLEAN
    BY DEF Stale
  <1> QED
    BY <1>1, <1>2, <1>3, Zenon DEF MakeEntry, Entry

(* A list that a poll makes has the realms of the table and no others. *)
LEMMA ListOfTable ==
    ASSUME NEW table \in [Realms -> Row \cup {NoRow}], NEW old \in Lists, NEW now \in Times
    PROVE  /\ UpdateRealms(table, old, now) \in Lists
           /\ \A r \in Realms : LET e == UpdateRealms(table, old, now)[r]
                                IN  /\ table[r] = NoRow => e = NoRow
                                    /\ table[r] # NoRow =>
                                          /\ table[r] \in Row /\ e \in Entry /\ e # NoRow
                                          /\ e = MakeEntry(table[r], old[r], now)
  <1>1. ASSUME NEW r \in Realms
        PROVE  LET e == UpdateRealms(table, old, now)[r]
               IN  /\ e \in Entry \cup {NoRow}
                   /\ table[r] = NoRow => e = NoRow
                   /\ table[r] # NoRow =>
                         /\ table[r] \in Row /\ e \in Entry /\ e # NoRow
                         /\ e = MakeEntry(table[r], old[r], now)
    <2>1. CASE table[r] = NoRow
      BY <2>1 DEF UpdateRealms
    <2>2. CASE table[r] # NoRow
      <3>1. table[r] \in Row /\ old[r] \in Entry \cup {NoRow}
        BY <2>2 DEF Lists
      <3>2. UpdateRealms(table, old, now)[r] = MakeEntry(table[r], old[r], now)
        BY <2>2 DEF UpdateRealms
      <3> QED
        BY <2>2, <3>1, <3>2, EntryOfRow, NoneIsNone
    <2> QED
      BY <2>1, <2>2
  <1>2. UpdateRealms(table, old, now)
          = [r \in Realms |-> UpdateRealms(table, old, now)[r]]
    BY DEF UpdateRealms
  <1> QED
    BY <1>1, <1>2 DEF Lists

LEMMA EmptyIsAList == Empty \in Lists /\ \A r \in Realms : Empty[r] = NoRow
  BY DEF Empty, Lists
-----------------------------------------------------------------------------
(* Types and the lock *)

(* The queue of the lock after a request has joined it. *)
LEMMA QueueJoined ==
    ASSUME NEW queue \in Seq(Handlers), NEW h \in Handlers
    PROVE  /\ Append(queue, h) \in Seq(Handlers)
           /\ Len(Append(queue, h)) = Len(queue) + 1
           /\ \A i \in 1 .. Len(queue) : Append(queue, h)[i] = queue[i]
           /\ Append(queue, h)[Len(queue) + 1] = h
  OBVIOUS

(* The queue of the lock after its first request has left it. *)
LEMMA QueueLeft ==
    ASSUME NEW queue \in Seq(Handlers), queue # <<>>
    PROVE  /\ Head(queue) \in Handlers /\ Head(queue) = queue[1]
           /\ Len(queue) \in Nat \ {0}
           /\ Tail(queue) \in Seq(Handlers) /\ Len(Tail(queue)) = Len(queue) - 1
           /\ \A i \in 1 .. Len(Tail(queue)) : Tail(queue)[i] = queue[i + 1]
  OBVIOUS

LEMMA TypeInit == Init => TypeOK
  <1> SUFFICES ASSUME Init PROVE TypeOK
    OBVIOUS
  <1>1. 0 \in Times /\ 0 \in 0..(MaxTime + UpdateInterval)
    BY IntervalsAreNat DEF Times
  <1>2. realms \in Lists
    BY <1>1, ListOfTable, EmptyIsAList DEF Init
  <1>3. waiters \in Seq(Handlers)
    BY DEF Init
  <1> QED
    BY <1>1, <1>2, <1>3, EmptyIsAList, Zenon DEF Init, TypeOK

(* Every request keeps the types, in particular every list a poll makes. *)
LEMMA TypeNext == TypeOK /\ LockInv /\ [Next]_vars => TypeOK'
  <1> SUFFICES ASSUME TypeOK, LockInv, [Next]_vars PROVE TypeOK'
    OBVIOUS
  <1> USE DEF TypeOK
  <1>1. ASSUME NEW h \in Handlers, Granted(h) PROVE Tail(waiters) \in Seq(Handlers)
    BY <1>1, QueueLeft DEF Granted
  <1>2. ASSUME NEW h \in Handlers, Request(h) PROVE TypeOK'
    BY <1>2, QueueJoined DEF Request, world, history
  <1>3. ASSUME NEW h \in Handlers, SkipUpdate(h) PROVE TypeOK'
    <2>1. waiters' \in Seq(Handlers)
      BY <1>1, <1>3, QueueJoined DEF SkipUpdate, ThenRead
    <2> QED
      BY <1>3, <2>1 DEF SkipUpdate, ThenRead, world, history
  <1>4. ASSUME NEW h \in Handlers, StartUpdate(h) PROVE TypeOK'
    <2>1. waiters' \in Seq(Handlers)
      BY <1>1, <1>4 DEF StartUpdate
    <2>2. next_update_time' \in 0..(MaxTime + UpdateInterval)
      BY <1>4, IntervalsAreNat DEF StartUpdate, Times
    <2>3. poll' \in [by : Handlers, now : Times, old : Lists]
      BY <1>4 DEF StartUpdate
    <2> QED
      BY <1>4, <2>1, <2>2, <2>3, EmptyIsAList DEF StartUpdate, world, history
  <1>5. ASSUME NEW h \in Handlers, QueryDone(h) PROVE TypeOK'
    <2>1. poll \in [by : Handlers, now : Times, old : Lists]
      BY <1>5 DEF QueryDone, LockInv, Polling
    <2>2. realms' \in Lists
      BY <1>5, <2>1, ListOfTable, Zenon DEF QueryDone
    <2>3. heard' \in [Realms -> Times] /\ polled' \in Times
      BY <1>5, <2>1 DEF QueryDone
    <2>4. waiters' \in Seq(Handlers)
      BY <1>5, QueueJoined DEF QueryDone, ThenRead
    <2> QED
      BY <1>5, <2>2, <2>3, <2>4 DEF QueryDone, ThenRead, world
  <1>6. ASSUME NEW h \in Handlers, QueryFails(h) PROVE TypeOK'
    BY <1>6, QueueJoined DEF QueryFails, ThenRead, world
  <1>7. ASSUME NEW h \in Handlers, TakeSnapshot(h) PROVE TypeOK'
    BY <1>1, <1>7 DEF TakeSnapshot, world, history
  <1>8. ASSUME NEW h \in Handlers, Reply(h) PROVE TypeOK'
    BY <1>8, EmptyIsAList, IntervalsAreNat DEF Reply, world, history, Times
  <1>9. CASE Tick
    BY <1>9, IntervalsAreNat DEF Tick, history, Times
  <1>10. ASSUME NEW r \in Realms, NEW row \in Row \cup {NoRow}, WriteRow(r, row) PROVE TypeOK'
    BY <1>10 DEF WriteRow
  <1>11. CASE UNCHANGED vars
    BY <1>11 DEF vars
  <1> QED
    BY <1>2, <1>3, <1>4, <1>5, <1>6, <1>7, <1>8, <1>9, <1>10, <1>11 DEF Next, Step

(* The write lock has one holder, the poll that waits for its rows. *)
LEMMA LockNext == TypeOK /\ LockInv /\ [Next]_vars => LockInv'
  <1> SUFFICES ASSUME TypeOK, LockInv, [Next]_vars PROVE LockInv'
    OBVIOUS
  <1> USE DEF TypeOK, LockInv, Polling
  <1>1. ASSUME NEW h \in Handlers, Request(h) PROVE LockInv'
    BY <1>1 DEF Request
  <1>2. ASSUME NEW h \in Handlers, SkipUpdate(h) PROVE LockInv'
    BY <1>2 DEF SkipUpdate, ThenRead, Granted
  <1>3. ASSUME NEW h \in Handlers, StartUpdate(h) PROVE LockInv'
    <2>1. poll' # NoPoll /\ poll'.by = h
      BY <1>3, Zenon DEF StartUpdate, NoPoll
    <2> QED
      BY <1>3, <2>1 DEF StartUpdate, Granted
  <1>4. ASSUME NEW h \in Handlers, QueryDone(h) PROVE LockInv'
    BY <1>4 DEF QueryDone, ThenRead
  <1>5. ASSUME NEW h \in Handlers, QueryFails(h) PROVE LockInv'
    BY <1>5 DEF QueryFails, ThenRead
  <1>6. ASSUME NEW h \in Handlers, TakeSnapshot(h) PROVE LockInv'
    BY <1>6 DEF TakeSnapshot, Granted
  <1>7. ASSUME NEW h \in Handlers, Reply(h) PROVE LockInv'
    BY <1>7 DEF Reply
  <1>8. CASE Tick
    BY <1>8 DEF Tick
  <1>9. ASSUME NEW r \in Realms, NEW row \in Row \cup {NoRow}, WriteRow(r, row) PROVE LockInv'
    BY <1>9 DEF WriteRow
  <1>10. CASE UNCHANGED vars
    BY <1>10 DEF vars
  <1> QED
    BY <1>1, <1>2, <1>3, <1>4, <1>5, <1>6, <1>7, <1>8, <1>9, <1>10 DEF Next, Step
-----------------------------------------------------------------------------
(* The requests under the lock *)

(* No step forgets that a poll has failed. *)
LEMMA FailureStays == [Next]_vars /\ failed => failed'
  BY Zenon DEF Next, Step, Request, SkipUpdate, StartUpdate, QueryDone, QueryFails, TakeSnapshot,
               Reply, Tick, WriteRow, history, vars

(* Known changes only when a poll has its rows or has failed: clearing the   *)
(* list moves it to the locals of the poll.                                  *)
LEMMA KnownStep ==
    ASSUME TypeOK, LockInv, [Next]_vars
    PROVE  \/ Known' = Known /\ wrote \subseteq wrote' /\ heard' = heard /\ polled' = polled
              /\ failed' = failed
           \/ failed'
           \/ \E h \in Handlers : QueryDone(h)
  <1> USE DEF Known, Polling
  <1>1. ASSUME NEW h \in Handlers, StartUpdate(h)
        PROVE  Known' = Known
    <2>1. poll' # NoPoll /\ poll'.old = realms
      BY <1>1 DEF StartUpdate, NoPoll
    <2> QED
      BY <1>1, <2>1 DEF StartUpdate, Granted
  <1>2. ASSUME NEW h \in Handlers, Request(h) \/ SkipUpdate(h) \/ TakeSnapshot(h) \/ Reply(h)
        PROVE  Known' = Known /\ UNCHANGED history
    BY <1>2, Zenon DEF Request, SkipUpdate, TakeSnapshot, Reply
  <1>3. ASSUME NEW h \in Handlers, QueryFails(h)
        PROVE  failed'
    BY <1>3 DEF QueryFails
  <1>4. ASSUME NEW r \in Realms, NEW row \in Row \cup {NoRow}, WriteRow(r, row)
        PROVE  /\ Known' = Known /\ wrote \subseteq wrote'
               /\ heard' = heard /\ polled' = polled /\ failed' = failed
    BY <1>4 DEF WriteRow
  <1>5. CASE Tick
    BY <1>5 DEF Tick, history
  <1>6. CASE UNCHANGED vars
    BY <1>6 DEF vars
  <1> QED
    BY <1>1, <1>2, <1>3, <1>4, <1>5, <1>6 DEF Next, Step, StartUpdate, history

(* A realm that has always been in the table: a poll that succeeds finds its *)
(* row, and nobody copies the list while it is cleared.                      *)
LEMMA HoleNext == TypeOK /\ LockInv /\ HoleInv /\ [Next]_vars => HoleInv'
  <1> SUFFICES ASSUME TypeOK, LockInv, HoleInv, [Next]_vars PROVE HoleInv'
    OBVIOUS
  <1>1. ASSUME NEW r \in Realms, r \notin gone'
        PROVE  r \notin gone /\ realmlist'[r] # NoRow
    <2>1. CASE \E q \in Realms : \E row \in Row \cup {NoRow} : WriteRow(q, row)
      <3>1. PICK q \in Realms, row \in Row \cup {NoRow} : WriteRow(q, row)
        BY <2>1
      <3>2. CASE row = NoRow
        BY <1>1, <3>1, <3>2 DEF WriteRow, HoleInv, TypeOK
      <3>3. CASE row # NoRow
        BY <1>1, <3>1, <3>3 DEF WriteRow, HoleInv, TypeOK
      <3> QED
        BY <3>2, <3>3
    <2>2. CASE UNCHANGED <<realmlist, gone>>
      BY <1>1, <2>2 DEF HoleInv
    <2> QED
      BY <2>1, <2>2 DEF Next, Step, Request, SkipUpdate, StartUpdate, QueryDone, QueryFails,
                        TakeSnapshot, Reply, Tick, world, vars
  <1>2. ASSUME ~failed', NEW r \in Realms, r \notin gone'
        PROVE  Known'[r] # NoRow
    <2>1. ~failed
      BY <1>2, FailureStays
    <2>2. CASE \E h \in Handlers : QueryDone(h)
      <3>1. PICK h \in Handlers : QueryDone(h)
        BY <2>2
      <3>2. poll \in [by : Handlers, now : Times, old : Lists]
        BY <3>1 DEF QueryDone, LockInv, Polling, TypeOK
      <3>3. Known' = UpdateRealms(realmlist, poll.old, poll.now)
        BY <3>1 DEF QueryDone, Known, Polling
      <3>4. realmlist[r] # NoRow
        BY <1>1, <1>2 DEF HoleInv
      <3>5. /\ poll.now \in Times /\ poll.old \in Lists
            /\ realmlist \in [Realms -> Row \cup {NoRow}]
        BY <3>2 DEF TypeOK
      <3>6. UpdateRealms(realmlist, poll.old, poll.now)[r] # NoRow
        BY <1>2, <3>4, <3>5, ListOfTable, Zenon
      <3> QED
        BY <3>3, <3>6
    <2>3. CASE Known' = Known
      BY <1>1, <1>2, <2>1, <2>3 DEF HoleInv
    <2> QED
      BY <1>2, <2>2, <2>3, KnownStep
  <1>3. ASSUME ~failed', NEW r \in Realms, r \notin gone', NEW h \in Handlers, pc'[h] = "load"
        PROVE  snapshot'[h][r] # NoRow
    <2>1. ~failed /\ r \notin gone
      BY <1>1, <1>3, FailureStays
    <2>2. CASE TakeSnapshot(h)
      <3>1. snapshot'[h] = Known
        BY <2>2 DEF TakeSnapshot, Granted, Known, Polling, TypeOK
      <3> QED
        BY <1>3, <2>1, <3>1 DEF HoleInv
    <2>3. CASE pc[h] = "load" /\ snapshot'[h] = snapshot[h]
      BY <1>3, <2>1, <2>3 DEF HoleInv
    <2> QED
      <3>1. ASSUME NEW g \in Handlers, Request(g) \/ Step(g)
            PROVE  TakeSnapshot(h) \/ (pc[h] = "load" /\ snapshot'[h] = snapshot[h])
        BY <1>3, <3>1 DEF Step, Request, SkipUpdate, StartUpdate, QueryDone, QueryFails,
                          TakeSnapshot, Reply, ThenRead, TypeOK
      <3>2. CASE Tick \/ UNCHANGED vars
               \/ \E q \in Realms : \E row \in Row \cup {NoRow} : WriteRow(q, row)
        BY <1>3, <2>3, <3>2 DEF Tick, WriteRow, vars
      <3> QED
        BY <2>2, <2>3, <3>1, <3>2 DEF Next
  <1> QED
    BY <1>1, <1>2, <1>3 DEF HoleInv

(* The clock never runs behind a poll, nor a poll behind the one before. *)
LEMMA TimeNext == TypeOK /\ LockInv /\ TimeInv /\ [Next]_vars => TimeInv'
  <1> SUFFICES ASSUME TypeOK, LockInv, TimeInv, [Next]_vars PROVE TimeInv'
    OBVIOUS
  <1> USE IntervalsAreNat DEF TimeInv, Polling, Times
  <1>1. ASSUME NEW h \in Handlers, StartUpdate(h) PROVE TimeInv'
    <2>1. poll' # NoPoll /\ poll'.now = clock
      BY <1>1 DEF StartUpdate, NoPoll
    <2> QED
      BY <1>1, <2>1 DEF StartUpdate, world, history, TypeOK
  <1>2. ASSUME NEW h \in Handlers, QueryDone(h) PROVE TimeInv'
    <2>1. Polling /\ poll.now \in Nat
      BY <1>2 DEF QueryDone, LockInv, TypeOK
    <2>2. \A r \in Realms : heard[r] \in Nat /\ heard[r] <= poll.now
      BY <2>1 DEF TypeOK
    <2>3. \A r \in Realms : heard'[r] <= polled'
      BY <1>2, <2>1, <2>2 DEF QueryDone
    <2> QED
      BY <1>2, <2>1, <2>3 DEF QueryDone, world
  <1>3. CASE Tick
    BY <1>3 DEF Tick, history, TypeOK
  <1>4. CASE \E h \in Handlers : \/ Request(h) \/ SkipUpdate(h) \/ QueryFails(h)
                                \/ TakeSnapshot(h) \/ Reply(h)
    BY <1>4 DEF Request, SkipUpdate, QueryFails, TakeSnapshot, Reply, world, history
  <1>5. CASE \E r \in Realms : \E row \in Row \cup {NoRow} : WriteRow(r, row)
    BY <1>5 DEF WriteRow
  <1>6. CASE UNCHANGED vars
    BY <1>6 DEF vars
  <1> QED
    BY <1>1, <1>2, <1>3, <1>4, <1>5, <1>6 DEF Next, Step

(* A silent realm: the next poll finds the row as it was saved and keeps the *)
(* time at which the realm was last seen alive, so it stays stale.           *)
LEMMA SilentNext ==
    TypeOK /\ LockInv /\ TimeInv /\ SilentInv /\ [Next]_vars => SilentInv'
  <1> SUFFICES ASSUME TypeOK, LockInv, TimeInv, SilentInv, [Next]_vars, ~failed',
                      NEW r \in Realms
               PROVE  /\ r \notin wrote' =>
                            /\ Known'[r] = NoRow <=> realmlist'[r] = NoRow
                            /\ Known'[r] # NoRow =>
                                  /\ Known'[r].population = realmlist'[r].population
                                  /\ Known'[r].prev_offline = realmlist'[r].offline
                      /\ Known'[r] # NoRow => Known'[r].last_seen_alive <= heard'[r]
                      /\ realms'[r] # NoRow /\ ~realms'[r].offline
                            => ~Stale(polled', realms'[r].last_seen_alive)
    BY DEF SilentInv, Stale
  <1>1. ~failed
    BY FailureStays
  <1>2. CASE \E h \in Handlers : QueryDone(h)
    <2>1. PICK h \in Handlers : QueryDone(h)
      BY <1>2
    <2> DEFINE old == poll.old
               now == poll.now
    <2>2. Polling /\ old \in Lists /\ now \in Times /\ Known = old
      BY <2>1 DEF QueryDone, LockInv, Polling, TypeOK, Known
    <2>3. Known' = UpdateRealms(realmlist, old, now) /\ realms' = Known'
      BY <2>1 DEF QueryDone, Known, Polling
    <2>4. /\ realmlist[r] = NoRow => Known'[r] = NoRow
          /\ realmlist[r] # NoRow => /\ realmlist[r] \in Row /\ Known'[r] # NoRow
                                     /\ Known'[r] = MakeEntry(realmlist[r], old[r], now)
      <3>1. realmlist \in [Realms -> Row \cup {NoRow}]
        BY DEF TypeOK
      <3> HIDE DEF old, now
      <3> QED
        BY <2>2, <2>3, <3>1, ListOfTable
    <2>5. CASE realmlist[r] = NoRow
      BY <2>1, <2>3, <2>5, <2>4 DEF QueryDone, world
    <2>6. CASE realmlist[r] # NoRow
      <3> DEFINE row == realmlist[r]
                 e == Known'[r]
      <3>1. row \in Row /\ old[r] \in Entry \cup {NoRow} /\ e # NoRow
            /\ e = MakeEntry(row, old[r], now)
        BY <2>2, <2>6, <2>4 DEF Lists
      <3>2. /\ e.population = row.population /\ e.prev_offline = row.offline
            /\ e.last_seen_alive = LastSeenAlive(row, old[r], now)
            /\ ~e.offline => ~Stale(now, e.last_seen_alive)
        BY <2>2, <3>1, EntryOfRow
      <3>3. realmlist'[r] = row /\ polled' = now
            /\ heard'[r] = IF r \in wrote THEN now ELSE heard[r]
        BY <2>1 DEF QueryDone, world
      <3>4. LastSeenAlive(row, old[r], now) <= heard'[r]
        <4>1. old[r] # NoRow => /\ old[r].last_seen_alive <= heard[r]
                                /\ old[r].last_seen_alive \in Nat
          BY <1>1, <2>2, <3>1 DEF SilentInv, Entry, Times
        <4>2. heard[r] <= now /\ heard[r] \in Nat /\ now \in Nat
          BY <2>2, IntervalsAreNat DEF TimeInv, TypeOK, Times
        <4>3. r \notin wrote => ~DataChanged(row, old[r])
          BY <1>1, <2>2, <2>6 DEF SilentInv, DataChanged
        <4>4. ~DataChanged(row, old[r]) => old[r] # NoRow
          BY DEF DataChanged
        <4> HIDE DEF row, now, old
        <4>5. CASE DataChanged(row, old[r])
          BY <3>3, <4>2, <4>3, <4>5 DEF LastSeenAlive
        <4>6. CASE ~DataChanged(row, old[r])
          <5>1. LastSeenAlive(row, old[r], now) = old[r].last_seen_alive
            BY <4>6 DEF LastSeenAlive
          <5> QED
            BY <3>3, <4>1, <4>2, <4>4, <4>6, <5>1
        <4> QED
          BY <4>5, <4>6
      <3> QED
        BY <2>3, <2>6, <3>1, <3>2, <3>3, <3>4, Zenon
    <2> QED
      BY <2>5, <2>6
  <1>3. CASE /\ Known' = Known /\ wrote \subseteq wrote' /\ heard' = heard /\ polled' = polled
    <2>1. r \notin wrote' => r \notin wrote /\ realmlist'[r] = realmlist[r]
      <3>1. realmlist' = realmlist \/ \E s \in Realms, row \in Row \cup {NoRow} : WriteRow(s, row)
        BY Zenon DEF Next, Step, Request, SkipUpdate, StartUpdate, QueryDone, QueryFails,
                     TakeSnapshot, Reply, Tick, world, vars
      <3>2. ASSUME NEW s \in Realms, NEW row \in Row \cup {NoRow}, WriteRow(s, row),
                   r \notin wrote'
            PROVE  realmlist'[r] = realmlist[r]
        BY <3>2 DEF WriteRow, TypeOK
      <3> QED
        BY <1>3, <3>1, <3>2, Zenon
    <2>2. realms' = realms \/ realms' = Empty \/ \E h \in Handlers : QueryDone(h)
      BY Zenon DEF Next, Step, Request, SkipUpdate, StartUpdate, QueryFails,
                   TakeSnapshot, Reply, Tick, WriteRow, vars
    <2>3. /\ r \notin wrote' =>
                /\ Known'[r] = NoRow <=> realmlist'[r] = NoRow
                /\ Known'[r] # NoRow =>
                      /\ Known'[r].population = realmlist'[r].population
                      /\ Known'[r].prev_offline = realmlist'[r].offline
          /\ Known'[r] # NoRow => Known'[r].last_seen_alive <= heard'[r]
      BY <1>1, <1>3, <2>1, Zenon DEF SilentInv
    <2>4. CASE realms' = realms
      BY <1>1, <1>3, <2>3, <2>4, Zenon DEF SilentInv
    <2>5. CASE realms' = Empty
      BY <2>3, <2>5, EmptyIsAList, Zenon
    <2> QED
      BY <1>2, <2>2, <2>4, <2>5, Zenon
  <1> QED
    BY <1>2, <1>3, KnownStep

(* A poll is due as soon as the interval after the last one is over.         *)
LEMMA FreshNext ==
    TypeOK /\ LockInv /\ TimeInv /\ FreshInv /\ [Next]_vars => FreshInv'
  <1> SUFFICES ASSUME TypeOK, LockInv, TimeInv, FreshInv, [Next]_vars,
                      UpdateInterval > 0, ~failed'
               PROVE  FreshInv'
    BY DEF FreshInv
  <1>1. ~failed
    BY FailureStays
  <1> USE <1>1, IntervalsAreNat DEF FreshInv, Polling, TypeOK, Times
  <1>2. ASSUME NEW h \in Handlers, Request(h) PROVE FreshInv'
    BY <1>2 DEF Request, history
  <1>3. ASSUME NEW h \in Handlers, SkipUpdate(h) PROVE FreshInv'
    BY <1>3 DEF SkipUpdate, UpToDate, ThenRead, Granted, history
  <1>4. ASSUME NEW h \in Handlers, StartUpdate(h) PROVE FreshInv'
    <2>1. poll' # NoPoll /\ poll'.now = clock /\ poll'.by = h
      BY <1>4, Zenon DEF StartUpdate, NoPoll
    <2> QED
      BY <1>4, <2>1 DEF StartUpdate, Granted, history
  <1>5. ASSUME NEW h \in Handlers, QueryDone(h) PROVE FreshInv'
    <2>1. Polling /\ poll.by = h /\ poll.now \in Nat /\ polled <= poll.now
      BY <1>5 DEF QueryDone, LockInv, TimeInv
    <2>2. poll' = NoPoll /\ polled' = poll.now /\ asked' = asked
          /\ next_update_time' = next_update_time
      BY <1>5 DEF QueryDone
    <2>3. \A g \in Handlers : pc'[g] = "read" => g = h \/ pc[g] = "read"
      BY <1>5 DEF QueryDone, ThenRead
    <2>4. \A g \in Handlers : pc[g] = "read" => asked[g] < poll.now + UpdateInterval
      BY <2>1
    <2>5. asked[h] < poll.now + UpdateInterval
      BY <2>1
    <2>6. next_update_time = poll.now + UpdateInterval
      BY <2>1
    <2> QED
      BY <2>2, <2>3, <2>4, <2>5, <2>6
  <1>6. ASSUME NEW h \in Handlers, QueryFails(h) PROVE FALSE
    BY <1>6 DEF QueryFails
  <1>7. ASSUME NEW h \in Handlers, TakeSnapshot(h) PROVE FreshInv'
    BY <1>7 DEF TakeSnapshot, history
  <1>8. ASSUME NEW h \in Handlers, Reply(h) PROVE FreshInv'
    BY <1>8 DEF Reply, LockInv, history
  <1>9. CASE Tick
    BY <1>9 DEF Tick, history
  <1>10. ASSUME NEW r \in Realms, NEW row \in Row \cup {NoRow}, WriteRow(r, row)
         PROVE  FreshInv'
    BY <1>10 DEF WriteRow
  <1>11. CASE UNCHANGED vars
    BY <1>11 DEF vars
  <1> QED
    BY <1>2, <1>3, <1>4, <1>5, <1>6, <1>7, <1>8, <1>9, <1>10, <1>11 DEF Next, Step
-----------------------------------------------------------------------------
(* The queue of the lock *)

Steps == {"idle", "write", "query", "read", "load"}

(* A request that waits for nothing joins the queue. *)
LEMMA Enqueue ==
    ASSUME NEW queue \in Seq(Handlers), NEW at \in [Handlers -> Steps], NEW h \in Handlers,
           NEW to \in {"write", "read"}, QueueOf(queue, at), at[h] \notin {"write", "read"}
    PROVE  QueueOf(Append(queue, h), [at EXCEPT ![h] = to])
  <1> DEFINE q == Append(queue, h)
             f == [at EXCEPT ![h] = to]
  <1>1. /\ Len(queue) \in Nat /\ Len(q) = Len(queue) + 1 /\ q[Len(queue) + 1] = h
        /\ \A i \in 1..Len(queue) : q[i] = queue[i] /\ queue[i] \in Handlers /\ queue[i] # h
    BY DEF QueueOf
  <1>2. f[h] = to /\ \A g \in Handlers : g # h => f[g] = at[g]
    OBVIOUS
  <1> HIDE DEF q, f
  <1>3. ASSUME NEW g \in Handlers, f[g] \in {"write", "read"}
        PROVE  \E i \in 1..Len(q) : q[i] = g
    <2>1. CASE g = h
      BY <1>1, <2>1
    <2>2. CASE g # h
      <3>1. PICK i \in 1..Len(queue) : queue[i] = g
        BY <1>2, <1>3, <2>2 DEF QueueOf
      <3>2. i \in 1..Len(q) /\ q[i] = g
        BY <1>1, <3>1
      <3> QED
        BY <3>2
    <2> QED
      BY <2>1, <2>2
  <1>4. ASSUME NEW i \in 1..Len(q) PROVE f[q[i]] \in {"write", "read"}
    BY <1>1, <1>2 DEF QueueOf
  <1>5. ASSUME NEW i \in 1..Len(q), NEW j \in 1..Len(q), q[i] = q[j] PROVE i = j
    BY <1>1, <1>5 DEF QueueOf
  <1>6. QueueOf(q, f)
    BY <1>3, <1>4, <1>5 DEF QueueOf
  <1> QED
    BY <1>6 DEF q, f

(* The request at the head of the queue leaves it. *)
LEMMA Dequeue ==
    ASSUME NEW queue \in Seq(Handlers), NEW at \in [Handlers -> Steps], NEW h \in Handlers,
           NEW to \in Steps \ {"write", "read"}, QueueOf(queue, at),
           queue # <<>>, Head(queue) = h
    PROVE  Tail(queue) \in Seq(Handlers) /\ QueueOf(Tail(queue), [at EXCEPT ![h] = to])
  <1> DEFINE q == Tail(queue)
             f == [at EXCEPT ![h] = to]
  <1>1. /\ q \in Seq(Handlers) /\ Len(queue) \in Nat /\ Len(queue) > 0
        /\ Len(q) = Len(queue) - 1 /\ queue[1] = h
        /\ \A i \in 1..Len(q) : q[i] = queue[i + 1] /\ q[i] \in Handlers
    BY QueueLeft
  <1>2. f[h] = to /\ \A g \in Handlers : g # h => f[g] = at[g]
    OBVIOUS
  <1> HIDE DEF q, f
  <1>3. ASSUME NEW g \in Handlers, f[g] \in {"write", "read"}
        PROVE  \E i \in 1..Len(q) : q[i] = g
    <2>1. g # h
      BY <1>2, <1>3 DEF Steps
    <2>2. PICK i \in 1..Len(queue) : queue[i] = g
      BY <1>2, <1>3, <2>1 DEF QueueOf
    <2>3. i - 1 \in 1..Len(q) /\ q[i - 1] = g
      BY <1>1, <2>1, <2>2
    <2> QED
      BY <2>3
  <1>4. ASSUME NEW i \in 1..Len(q) PROVE f[q[i]] \in {"write", "read"}
    <2>1. i + 1 \in 1..Len(queue) /\ 1 \in 1..Len(queue) /\ q[i] = queue[i + 1] /\ i + 1 # 1
      BY <1>1
    <2>2. q[i] # h /\ q[i] \in Handlers
      BY <1>1, <2>1 DEF QueueOf
    <2> QED
      BY <1>2, <2>1, <2>2 DEF QueueOf
  <1>5. ASSUME NEW i \in 1..Len(q), NEW j \in 1..Len(q), q[i] = q[j] PROVE i = j
    <2>1. i + 1 \in 1..Len(queue) /\ j + 1 \in 1..Len(queue) /\ queue[i + 1] = queue[j + 1]
      BY <1>1, <1>5
    <2>2. i + 1 = j + 1
      BY <2>1 DEF QueueOf
    <2> QED
      BY <2>2
  <1>6. QueueOf(q, f)
    BY <1>3, <1>4, <1>5 DEF QueueOf
  <1> QED
    BY <1>1, <1>6 DEF q, f

(* No request waits twice or is forgotten in the queue. *)
LEMMA QueueNext == TypeOK /\ QueueInv /\ [Next]_vars => QueueInv'
  <1> SUFFICES ASSUME TypeOK, QueueInv, [Next]_vars PROVE QueueInv'
    OBVIOUS
  <1>0. waiters \in Seq(Handlers) /\ pc \in [Handlers -> Steps]
    BY DEF TypeOK, Steps
  <1> USE <1>0 DEF QueueInv
  <1>1. ASSUME NEW h \in Handlers, Request(h) PROVE QueueInv'
    BY <1>1, Enqueue, Zenon DEF Request
  <1>2. ASSUME NEW h \in Handlers, SkipUpdate(h) PROVE QueueInv'
    <2> DEFINE f == [pc EXCEPT ![h] = "query"]
    <2>0. "query" \in Steps \ {"write", "read"} /\ waiters # <<>> /\ Head(waiters) = h
      BY <1>2 DEF SkipUpdate, Granted, Steps
    <2>1. Tail(waiters) \in Seq(Handlers) /\ QueueOf(Tail(waiters), f)
      BY <2>0, Dequeue, Zenon
    <2>2. f \in [Handlers -> Steps] /\ f[h] = "query"
      BY DEF Steps
    <2>3. pc' = [f EXCEPT ![h] = "read"] /\ waiters' = Append(Tail(waiters), h)
      BY <1>2 DEF SkipUpdate, ThenRead
    <2> HIDE DEF f
    <2> QED
      BY <2>1, <2>2, <2>3, Enqueue, Zenon
  <1>3. ASSUME NEW h \in Handlers, StartUpdate(h) PROVE QueueInv'
    BY <1>3, Dequeue, Zenon DEF StartUpdate, Granted, Steps
  <1>4. ASSUME NEW h \in Handlers, QueryDone(h) \/ QueryFails(h) PROVE QueueInv'
    BY <1>4, Enqueue, Zenon DEF QueryDone, QueryFails, ThenRead
  <1>5. ASSUME NEW h \in Handlers, TakeSnapshot(h) PROVE QueueInv'
    BY <1>5, Dequeue, Zenon DEF TakeSnapshot, Granted, Steps
  <1>6. ASSUME NEW h \in Handlers, Reply(h) PROVE QueueInv'
    <2>1. /\ waiters' = waiters /\ pc[h] = "load" /\ pc'[h] = "idle"
          /\ \A g \in Handlers : g # h => pc'[g] = pc[g]
      BY <1>6 DEF Reply
    <2>2. \A i \in 1..Len(waiters) : waiters[i] \in Handlers /\ waiters[i] # h
      BY <2>1 DEF QueueOf
    <2>3. \A g \in Handlers : pc'[g] \in {"write", "read"} => pc[g] \in {"write", "read"}
      BY <2>1
    <2> QED
      BY <2>1, <2>2, <2>3 DEF QueueOf
  <1>7. CASE UNCHANGED <<waiters, pc>>
    BY <1>7
  <1> QED
    BY <1>1, <1>2, <1>3, <1>4, <1>5, <1>6, <1>7 DEF Next, Step, Tick, WriteRow, vars
-----------------------------------------------------------------------------
(* The results *)

IInv ==
    TypeOK /\ LockInv /\ QueueInv /\ HoleInv /\ TimeInv /\ SilentInv /\ FreshInv

(* initialize() has polled at time zero, and nobody has asked yet. *)
LEMMA InitInv == Init => IInv
  <1> SUFFICES ASSUME Init PROVE IInv
    OBVIOUS
  <1>1. TypeOK /\ 0 \in Times
    BY TypeInit, IntervalsAreNat DEF Times
  <1>2. ~Polling /\ Known = realms /\ LockInv
    BY DEF Init, Polling, Known, LockInv
  <1>3. QueueInv
    <2>1. waiters = <<>> /\ Len(waiters) = 0
      BY DEF Init
    <2> QED
      BY <2>1 DEF Init, QueueInv, QueueOf
  <1>4. \A r \in Realms :
           /\ realmlist[r] = NoRow => realms[r] = NoRow
           /\ realmlist[r] # NoRow => /\ realmlist[r] \in Row /\ realms[r] # NoRow
                                      /\ realms[r] = MakeEntry(realmlist[r], NoRow, 0)
    BY <1>1, ListOfTable, EmptyIsAList, Zenon DEF Init
  <1>5. HoleInv
    BY <1>2, <1>4 DEF HoleInv, Init
  <1>6. TimeInv
    BY <1>2 DEF TimeInv, Init
  <1>7. SilentInv
    <2> SUFFICES ASSUME NEW r \in Realms, realmlist[r] # NoRow
                 PROVE  /\ realms[r].population = realmlist[r].population
                        /\ realms[r].prev_offline = realmlist[r].offline
                        /\ realms[r].last_seen_alive <= heard[r]
                        /\ ~realms[r].offline => ~Stale(polled, realms[r].last_seen_alive)
      BY <1>2, <1>4, Zenon DEF SilentInv
    <2>1. LastSeenAlive(realmlist[r], NoRow, 0) = 0
      BY DEF LastSeenAlive, DataChanged
    <2>2. /\ realms[r].population = realmlist[r].population
          /\ realms[r].prev_offline = realmlist[r].offline
          /\ realms[r].last_seen_alive = 0
          /\ ~realms[r].offline => ~Stale(0, realms[r].last_seen_alive)
      BY <1>1, <1>4, <2>1, EntryOfRow
    <2>3. heard[r] = 0 /\ polled = 0
      BY DEF Init
    <2> QED
      BY <2>2, <2>3
  <1>8. FreshInv
    BY <1>2, IntervalsAreNat DEF FreshInv, Init
  <1> QED
    BY <1>1, <1>2, <1>3, <1>5, <1>6, <1>7, <1>8 DEF IInv

LEMMA Invariance == Spec => []IInv
  <1>1. IInv /\ [Next]_vars => IInv'
    BY TypeNext, LockNext, QueueNext, HoleNext, TimeNext, SilentNext, FreshNext DEF IInv
  <1> QED
    BY <1>1, InitInv, PTL DEF Spec

(* The state of RealmList and of its requests keeps its types.               *)
THEOREM TypeCorrect == Spec => []TypeOK
  BY Invariance, PTL DEF IInv

(* However requests and polls interleave, a session gets no list that misses *)
(* a realm which has always been in the table.                               *)
THEOREM NoHoles == Spec => []NoHoleInAnswers
  <1>1. IInv => NoHoleInAnswers
    BY DEF IInv, HoleInv, NoHoleInAnswers
  <1> QED
    BY <1>1, Invariance, PTL

(* A realm whose row nobody has written for longer than RealmStaleTimeout is *)
(* listed as offline, over any number of polls that succeed.                 *)
THEOREM SilentRealms == Spec => []SilentStaysOffline
  <1>1. IInv => SilentStaysOffline
    <2> SUFFICES ASSUME IInv, ~failed, NEW r \in Realms,
                        realms[r] # NoRow, ~realms[r].offline, StaleTimeout > 0
                 PROVE  polled - heard[r] <= StaleTimeout
      BY DEF SilentStaysOffline, SilentRealmIsOffline
    <2>1. ~Polling
      BY EmptyIsAList DEF IInv, LockInv
    <2>2. Known = realms /\ realms[r] \in Entry
      BY <2>1 DEF Known, IInv, TypeOK, Lists
    <2> DEFINE alive == realms[r].last_seen_alive
    <2>3. alive <= heard[r] /\ ~Stale(polled, alive)
      BY <2>2 DEF IInv, SilentInv
    <2>4. alive \in Int /\ heard[r] \in Int /\ polled \in Int
      BY <2>2 DEF IInv, TypeOK, Entry, Times
    <2> QED
      BY <2>3, <2>4, IntervalsAreNat DEF Stale
  <1> QED
    BY <1>1, Invariance, PTL

(* What a session copies is the result of a poll less than the interval      *)
(* before it had the write lock, whoever polled.                             *)
THEOREM FreshAnswers == Spec => AnswerIsFresh
  <1>1. IInv /\ [Next]_vars =>
          [\A h \in Handlers :
              TakeSnapshot(h) /\ UpdateInterval > 0 /\ ~failed
                  => asked[h] < polled + UpdateInterval]_vars
    BY DEF IInv, FreshInv, TakeSnapshot
  <1> QED
    BY <1>1, Invariance, PTL DEF Spec, AnswerIsFresh

(* No request can be left behind the lock: it is never held by a request     *)
(* that is not at its query, and never free with a queue that cannot move.   *)
THEOREM LockIsNotLost == Spec => []LockNeverStuck
  <1>1. IInv => LockNeverStuck
    <2> SUFFICES ASSUME IInv, NEW h \in Handlers, pc[h] # "idle", poll = NoPoll,
                        pc[h] # "load"
                 PROVE  \E g \in Handlers : Granted(g) /\ pc[g] \in {"write", "read"}
      BY DEF IInv, LockInv, Polling, LockNeverStuck, TypeOK
    <2>1. pc[h] \in {"write", "read"}
      BY DEF IInv, LockInv, Polling, TypeOK
    <2>2. PICK i \in 1..Len(waiters) : waiters[i] = h
      BY <2>1 DEF IInv, QueueInv, QueueOf
    <2>3. /\ waiters # <<>> /\ 1 \in 1..Len(waiters)
          /\ Head(waiters) = waiters[1] /\ waiters[1] \in Handlers
      BY <2>2 DEF IInv, TypeOK
    <2>4. pc[waiters[1]] \in {"write", "read"}
      BY <2>3 DEF IInv, QueueInv, QueueOf
    <2> QED
      BY <2>3, <2>4 DEF Granted
  <1> QED
    BY <1>1, Invariance, PTL

-----------------------------------------------------------------------------
(* The packet: for any realms, any builds and any lists that update_realms   *)
(* may make, what a realm list packet lets a client join, and what a player  *)
(* is sent.                                                                  *)

\* The packet, when there is one, was made by load_realm_list from the list,
\* the build and the levels of now.
Current ==
    /\ realms_snapshot \in Snapshots
    /\ gmlevel \in Levels /\ accountLevel \in Levels
    /\ packet = NoPacket \/ packet = LoadRealmList(realms_snapshot, gmlevel, build, accountLevel)

(* A request makes the packet anew, and whatever changes its inputs drops it. *)
LEMMA PacketIsCurrent == PacketSpec => []Current
  <1>1. PacketInit => Current
    BY DEF PacketInit, Current, Levels, SEC_PLAYER, SEC_ADMINISTRATOR
  <1>2. Current /\ [PacketNext]_packetVars => Current'
    <2> SUFFICES ASSUME Current, [PacketNext]_packetVars PROVE Current'
      OBVIOUS
    <2> USE DEF Current
    <2>1. CASE HandleRealmList
      BY <2>1 DEF HandleRealmList
    <2>2. CASE Refresh
      BY <2>2 DEF Refresh
    <2>3. CASE SetGmLevel
      BY <2>3 DEF SetGmLevel
    <2>4. CASE UNCHANGED packetVars
      BY <2>4 DEF packetVars
    <2> QED
      BY <2>1, <2>2, <2>3, <2>4 DEF PacketNext
  <1> QED
    BY <1>1, <1>2, PTL DEF PacketSpec

(* An entry of either format that a client can join is of a realm that knows *)
(* the client's build and whose level the session reaches.                   *)
LEMMA JoinableEntry ==
    ASSUME NEW realm \in Realm, NEW level \in Levels, NEW b,
           NEW entry \in {LegacyEntry(realm, level, b), TbcEntry(realm, level, b)},
           Joinable(entry)
    PROVE  b \in realm.builds /\ realm.allowed <= level
  <1>1. realm.allowed \in Nat /\ level \in Nat
    BY DEF Realm, Levels, SEC_PLAYER, SEC_ADMINISTRATOR
  <1>2. CASE entry = LegacyEntry(realm, level, b)
    BY <1>2 DEF LegacyEntry, Joinable
  <1>3. CASE entry = TbcEntry(realm, level, b)
    <2>1. ~(realm.allowed > level) /\ "OFFLINE" \notin entry.flags
      BY <1>3, Zenon DEF TbcEntry, Joinable
    <2>2. b \notin realm.builds => "OFFLINE" \in entry.flags
      BY <1>3 DEF TbcEntry
    <2>3. realm.allowed <= level
      BY <1>1, <2>1
    <2> QED
      BY <2>1, <2>2, <2>3, Zenon
  <1> QED
    BY <1>2, <1>3

(* What load_realm_list writes: one entry for each realm that it does not    *)
(* skip, in the format of the build.                                         *)
LEMMA EntriesOfPacket ==
    ASSUME NEW list, NEW level, NEW b, NEW acc
    PROVE  LET e == LoadRealmList(list, level, b, acc).entries
           IN  /\ DOMAIN e = Listed(list, level)
               /\ \A r \in DOMAIN e :
                    e[r] \in {LegacyEntry(list[r], acc, b), TbcEntry(list[r], acc, b)}
  BY DEF LoadRealmList

(* Both formats, any list and any change of gmlevel: a realm that the client *)
(* can join supports its build and is open to the level of the session.      *)
THEOREM JoinableRealms == PacketSpec => []JoinableIsAllowed
  <1>1. Current => JoinableIsAllowed
    <2> SUFFICES ASSUME Current, NEW r \in DOMAIN packet.entries,
                        Joinable(packet.entries[r])
                 PROVE  /\ build \in realms_snapshot[r].builds
                        /\ realms_snapshot[r].allowed <= accountLevel
      BY DEF JoinableIsAllowed
    <2>1. packet = LoadRealmList(realms_snapshot, gmlevel, build, accountLevel)
      BY DEF Current, NoPacket
    <2>2. /\ r \in Listed(realms_snapshot, gmlevel)
          /\ packet.entries[r] \in {LegacyEntry(realms_snapshot[r], accountLevel, build),
                                    TbcEntry(realms_snapshot[r], accountLevel, build)}
      BY <2>1, EntriesOfPacket
    <2>3. realms_snapshot[r] \in Realm /\ accountLevel \in Levels
      BY <2>2, ListsTyped DEF Current, Listed
    <2> QED
      BY <2>2, <2>3, JoinableEntry
  <1> QED
    BY <1>1, PacketIsCurrent, PTL

(* Up to 255 realms, neither width of the count cuts anything off.           *)
LEMMA CountFits ==
    ASSUME NEW list, NEW level, NEW b,
           Cardinality(Eligible(list, level)) \in 0 .. 255
    PROVE  EligibleCount(list, level, b) = Cardinality(Eligible(list, level))
  <1> DEFINE n == Cardinality(Eligible(list, level))
  <1>1. CASE Legacy(b)
    <2>1. EligibleCount(list, level, b) = n % 256
      BY <1>1 DEF EligibleCount
    <2> QED
      BY <2>1
  <1>2. CASE ~Legacy(b)
    <2>1. EligibleCount(list, level, b) = n % 65536
      BY <1>2 DEF EligibleCount
    <2> QED
      BY <2>1
  <1> QED
    BY <1>1, <1>2

(* A player is sent no realm for staff, and the count that stands in the     *)
(* packet is the number of its entries, as long as the realms can be counted *)
(* in the one byte that 1.12 clients read.                                   *)
THEOREM PlayersPackets ==
    ASSUME IsFiniteSet(RealmNames), Cardinality(RealmNames) < 256
    PROVE  PacketSpec => []PlayersPacket
  <1>1. Current => PlayersPacket
    <2> SUFFICES ASSUME Current, gmlevel = SEC_PLAYER
                 PROVE  /\ \A r \in DOMAIN packet.entries : realms_snapshot[r].allowed = SEC_PLAYER
                        /\ packet.count = Cardinality(DOMAIN packet.entries)
      BY DEF PlayersPacket
    <2>1. CASE packet = NoPacket
      <3>1. packet.count = 0 /\ DOMAIN packet.entries = {}
        BY <2>1 DEF NoPacket
      <3> QED
        BY <3>1, FS_EmptySet
    <2>2. CASE packet = LoadRealmList(realms_snapshot, gmlevel, build, accountLevel)
      <3> DEFINE open == Eligible(realms_snapshot, gmlevel)
      <3>1. /\ DOMAIN realms_snapshot \subseteq RealmNames
            /\ \A r \in DOMAIN realms_snapshot : realms_snapshot[r] \in Realm
        BY ListsTyped DEF Current
      <3>2. \A r \in DOMAIN realms_snapshot : realms_snapshot[r].allowed \in Nat
        BY <3>1 DEF Realm, Levels, SEC_PLAYER, SEC_ADMINISTRATOR
      <3>3. open = Listed(realms_snapshot, gmlevel)
        BY <3>2 DEF Listed, SEC_PLAYER, Eligible
      <3>4. \A r \in open : realms_snapshot[r].allowed = SEC_PLAYER
        BY <3>2 DEF SEC_PLAYER, Eligible
      <3>5. Cardinality(open) \in 0 .. 255
        <4>1. open \subseteq RealmNames
          BY <3>1 DEF Eligible
        <4> HIDE DEF open
        <4>2. Cardinality(open) <= Cardinality(RealmNames) /\ IsFiniteSet(open)
          BY <4>1, FS_Subset
        <4>3. Cardinality(open) \in Nat /\ Cardinality(RealmNames) \in Nat
          BY <4>2, FS_CardinalityType
        <4> QED
          BY <4>2, <4>3
      <3>6. packet.count = Cardinality(open)
        <4>1. packet.count = EligibleCount(realms_snapshot, gmlevel, build)
          BY <2>2 DEF LoadRealmList
        <4> QED
          BY <3>5, <4>1, CountFits
      <3>7. DOMAIN packet.entries = open
        BY <2>2, <3>3, EntriesOfPacket
      <3> HIDE DEF open
      <3> QED
        BY <3>4, <3>6, <3>7
    <2> QED
      BY <2>1, <2>2 DEF Current
  <1> QED
    BY <1>1, PacketIsCurrent, PTL
=============================================================================
