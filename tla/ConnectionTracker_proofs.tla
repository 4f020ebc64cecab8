---------------------- MODULE ConnectionTracker_proofs ----------------------
(***************************************************************************)
(* For any number of connections and addresses and any limits: the counters *)
(* of the connection tracker are exact and the limits hold.                 *)
(***************************************************************************)
EXTENDS ConnectionTracker, FiniteSetTheorems, SequenceTheorems, TLAPS

(* Every set of open connections is finite, so it has a size. *)
LEMMA LiveFinite ==
    /\ IsFiniteSet(Live)
    /\ Cardinality(Live) \in Nat
    /\ \A ip : IsFiniteSet(LiveAt(ip)) /\ Cardinality(LiveAt(ip)) \in Nat
  <1>1. IsFiniteSet(Live)
    BY ConnsFinite, FS_Subset DEF Live
  <1>2. ASSUME NEW ip PROVE IsFiniteSet(LiveAt(ip))
    BY <1>1, FS_Subset DEF LiveAt
  <1> QED
    BY <1>1, <1>2, FS_CardinalityType

(* The data types are kept by every step of the accept loop and the tasks. *)
LEMMA TypeInductive == TypeOK /\ [Next]_vars => TypeOK'
  <1> SUFFICES ASSUME TypeOK, [Next]_vars PROVE TypeOK'
    OBVIOUS
  <1> USE DEF TypeOK, TaskStates
  <1>0. ASSUME NEW ip \in IPs, NEW n \in Nat
        PROVE /\ DOMAIN WithEntry(ip, n) \subseteq IPs
              /\ WithEntry(ip, n) \in [DOMAIN WithEntry(ip, n) -> Nat]
              /\ Count(ip) \in Nat
    BY DEF WithEntry, Count
  <1>1. ASSUME NEW c \in Conns, NEW ip \in IPs, Connect(c, ip) PROVE TypeOK'
    BY <1>1 DEF Connect
  <1>2. CASE Accept
    BY <1>2, HeadTailProperties, Zenon DEF Accept
  <1>3. CASE AcceptError
    <2>1. Head(backlog) \in Conns /\ Tail(backlog) \in Seq(Conns)
      BY <1>3, HeadTailProperties DEF AcceptError
    <2>2. task' \in [Conns -> TaskStates] /\ backlog' \in Seq(Conns)
      BY <1>3, <2>1, Zenon DEF AcceptError
    <2> QED
      BY <1>3, <2>2, Zenon DEF AcceptError
  <1>4. ASSUME NEW c \in Conns, Admit(c) PROVE TypeOK'
    <2>1. addr[c] \in IPs /\ Count(addr[c]) + 1 \in Nat
      BY <1>0
    <2>2. DOMAIN per_ip' \subseteq IPs /\ per_ip' \in [DOMAIN per_ip' -> Nat]
      <3>1. CASE MaxPerIp > 0
        BY <1>0, <1>4, <2>1, <3>1 DEF Admit, TryAdd
      <3>2. CASE ~(MaxPerIp > 0)
        BY <1>4, <3>2 DEF Admit, TryAdd
      <3> QED
        BY <3>1, <3>2
    <2> QED
      BY <1>4, <2>2 DEF Admit, TryAdd
  <1>5. ASSUME NEW c \in Conns, Reject(c) PROVE TypeOK'
    BY <1>0, <1>5 DEF Reject, TryAddFails, tracker
  <1>6. ASSUME NEW c \in Conns, Serve(c) PROVE TypeOK'
    BY <1>6 DEF Serve
  <1>7. ASSUME NEW ip \in IPs, Remove(ip)
        PROVE /\ DOMAIN per_ip' \subseteq IPs
              /\ per_ip' \in [DOMAIN per_ip' -> Nat]
              /\ total' \in Nat
    <2>1. CASE ip \notin DOMAIN per_ip
      BY <1>7, <2>1 DEF Remove
    <2>2. CASE ip \in DOMAIN per_ip /\ per_ip[ip] <= 1
      BY <1>7, <2>2 DEF Remove
    <2>3. CASE ip \in DOMAIN per_ip /\ ~(per_ip[ip] <= 1)
      <3>1. per_ip[ip] - 1 \in Nat
        BY <2>3
      <3> QED
        BY <1>0, <1>7, <2>3, <3>1 DEF Remove
    <2> QED
      BY <2>1, <2>2, <2>3
  <1>8. ASSUME NEW c \in Conns, Finish(c) PROVE TypeOK'
    BY <1>7, <1>8 DEF Finish
  <1>9. ASSUME NEW c \in Conns, DropTask(c) PROVE TypeOK'
    BY <1>7, <1>9 DEF DropTask, tracker
  <1>10. CASE Signal \/ Halt \/ PingTick \/ Pinged \/ UNCHANGED vars
    BY <1>10, Zenon DEF Signal, Halt, PingTick, Pinged, vars
  <1> QED
    BY <1>1, <1>2, <1>3, <1>4, <1>5, <1>6, <1>8, <1>9, <1>10 DEF Next

(* The queue of the listener stays free of duplicates. *)
LEMMA QueueInductive == TypeOK /\ QueueDistinct /\ [Next]_vars => QueueDistinct'
  <1> SUFFICES ASSUME TypeOK, QueueDistinct, [Next]_vars PROVE QueueDistinct'
    OBVIOUS
  <1> USE DEF TypeOK, QueueDistinct
  <1>1. ASSUME NEW c \in Conns, NEW ip \in IPs, Connect(c, ip) PROVE QueueDistinct'
    <2> DEFINE n == Len(backlog)
    <2>1. /\ Len(backlog') = n + 1
          /\ \A i \in 1..n : backlog'[i] = backlog[i]
          /\ backlog'[n + 1] = c
      BY <1>1, AppendProperties DEF Connect
    <2>2. n \in Nat /\ \A i \in 1..n : backlog[i] \in Conns /\ backlog[i] # c
      BY <1>1 DEF Connect
    <2>3. /\ task'[c] = "backlog"
          /\ \A d \in Conns : d # c => task'[d] = task[d]
      BY <1>1 DEF Connect
    <2>4. ASSUME NEW i \in 1..(n + 1)
          PROVE i \in 1..n \/ i = n + 1
      BY <2>2
    <2> QED
      BY <2>1, <2>2, <2>3, <2>4
  <1>2. ASSUME backlog # <<>>, backlog' = Tail(backlog), NEW s,
               task' = [task EXCEPT ![Head(backlog)] = s]
        PROVE QueueDistinct'
    <2>1. /\ Len(backlog) \in Nat
          /\ Len(backlog') = Len(backlog) - 1
          /\ \A i \in 1..Len(backlog') : backlog'[i] = backlog[i + 1]
      BY <1>2, HeadTailProperties
    <2>2. \A i \in 1..Len(backlog') : i + 1 \in 1..Len(backlog) /\ i + 1 # 1
      BY <2>1
    <2>3. Head(backlog) = backlog[1] /\ 1 \in 1..Len(backlog)
      BY <1>2
    <2>4. \A i \in 1..Len(backlog') :
             backlog'[i] \in Conns /\ backlog'[i] # Head(backlog)
      BY <2>1, <2>2, <2>3
    <2>5. \A d \in Conns : d # Head(backlog) => task'[d] = task[d]
      BY <1>2
    <2>6. \A i \in 1..Len(backlog') : task'[backlog'[i]] = "backlog"
      BY <2>1, <2>2, <2>4, <2>5
    <2>7. ASSUME NEW i \in 1..Len(backlog'), NEW j \in 1..Len(backlog'),
                 backlog'[i] = backlog'[j]
          PROVE i = j
      <3>1. i + 1 = j + 1
        BY <2>1, <2>2, <2>7
      <3> QED
        BY <2>1, <3>1
    <2> QED
      BY <2>6, <2>7
  <1>3. CASE Accept
    BY <1>2, <1>3, Zenon DEF Accept
  <1>4. CASE AcceptError
    BY <1>2, <1>4, Zenon DEF AcceptError
  <1>5. ASSUME NEW c \in Conns,
               Admit(c) \/ Reject(c) \/ Serve(c) \/ Finish(c) \/ DropTask(c)
        PROVE QueueDistinct'
    BY <1>5 DEF Admit, Reject, Serve, Finish, DropTask
  <1>6. CASE Signal \/ Halt \/ PingTick \/ Pinged \/ UNCHANGED vars
    BY <1>6 DEF Signal, Halt, PingTick, Pinged, vars
  <1> QED
    BY <1>1, <1>3, <1>4, <1>5, <1>6 DEF Next

(* A step that leaves the open connections and the tracker alone keeps the  *)
(* counters exact.                                                          *)
LEMMA CountersKept ==
    ASSUME CountersExact, Live' = Live, \A c \in Live : addr'[c] = addr[c],
           UNCHANGED tracker
    PROVE  CountersExact'
  <1>1. \A ip : LiveAt(ip)' = LiveAt(ip)
    BY DEF LiveAt
  <1>2. {addr'[c] : c \in Live'} = {addr[c] : c \in Live}
    OBVIOUS
  <1> QED
    BY <1>1, <1>2, Zenon DEF CountersExact, tracker

(* try_add counts a new connection in: both counters stay exact. *)
LEMMA CountersAdd ==
    ASSUME CountersExact, TypeOK, NEW c \in Conns, c \notin Live,
           TryAdd(addr[c]), Live' = Live \cup {c}, addr' = addr
    PROVE  CountersExact'
  <1> DEFINE ip == addr[c]
  <1>1. Cardinality(Live') = Cardinality(Live) + 1
    BY LiveFinite, FS_AddElement, Zenon
  <1>2. \A i : i # ip => LiveAt(i)' = LiveAt(i)
    BY DEF LiveAt
  <1>3. Cardinality(LiveAt(ip)') = Cardinality(LiveAt(ip)) + 1
    <2>1. LiveAt(ip)' = LiveAt(ip) \cup {c} /\ c \notin LiveAt(ip)
      BY DEF LiveAt
    <2> QED
      BY <2>1, LiveFinite, FS_AddElement, Zenon
  <1>4. {addr'[d] : d \in Live'} = {addr[d] : d \in Live} \cup {ip}
    OBVIOUS
  <1>5. total' = Cardinality(Live')
    BY <1>1 DEF TryAdd, CountersExact
  <1>6. CASE MaxPerIp > 0
    <2>1. per_ip' = WithEntry(ip, Count(ip) + 1)
      BY <1>6 DEF TryAdd
    <2>2. DOMAIN per_ip = {addr[d] : d \in Live}
      BY <1>6 DEF CountersExact
    <2>3. Count(ip) = Cardinality(LiveAt(ip))
      <3>1. CASE ip \in DOMAIN per_ip
        BY <3>1 DEF Count, CountersExact
      <3>2. CASE ip \notin DOMAIN per_ip
        <4>1. LiveAt(ip) = {}
          BY <2>2, <3>2 DEF LiveAt
        <4> QED
          BY <3>2, <4>1, FS_EmptySet DEF Count
      <3> QED
        BY <3>1, <3>2
    <2>4. DOMAIN per_ip' = {addr'[d] : d \in Live'}
      BY <1>4, <2>1, <2>2 DEF WithEntry
    <2>5. \A i \in DOMAIN per_ip' : per_ip'[i] = Cardinality(LiveAt(i)')
      BY <1>2, <1>3, <2>1, <2>3 DEF WithEntry, CountersExact
    <2> QED
      BY <1>5, <1>6, <2>4, <2>5 DEF CountersExact
  <1>7. CASE ~(MaxPerIp > 0)
    BY <1>5, <1>7 DEF CountersExact, TryAdd
  <1> QED
    BY <1>6, <1>7

(* A finite set without one of its elements, as remove sees the connections. *)
LEMMA OneFewer ==
    ASSUME NEW S, NEW x \in S, IsFiniteSet(S)
    PROVE  Cardinality(S \ {x}) = Cardinality(S) - 1 /\ Cardinality(S) # 0
  <1>1. Cardinality(S \ {x}) = Cardinality(S) - 1
    BY FS_RemoveElement
  <1>2. Cardinality(S) # 0
    BY FS_EmptySet
  <1> QED
    BY <1>1, <1>2

(* The guard's drop counts it out again, and an entry that would fall to 0   *)
(* leaves the map.                                                          *)
LEMMA CountersRemove ==
    ASSUME CountersExact, TypeOK, NEW c \in Live,
           Remove(addr[c]), Live' = Live \ {c}, addr' = addr
    PROVE  CountersExact'
  <1> DEFINE ip == addr[c]
  <1>0. c \in Conns
    BY DEF Live
  <1>1. /\ Cardinality(Live') = Cardinality(Live) - 1
        /\ Cardinality(Live) # 0
    BY LiveFinite, OneFewer
  <1>2. total' = Cardinality(Live')
    BY <1>1, LiveFinite DEF Remove, CountersExact
  <1>3. \A i : i # ip => LiveAt(i)' = LiveAt(i)
    BY DEF LiveAt
  <1>4. /\ LiveAt(ip)' = LiveAt(ip) \ {c}
        /\ c \in LiveAt(ip)
    BY DEF LiveAt
  <1>5. /\ Cardinality(LiveAt(ip)') = Cardinality(LiveAt(ip)) - 1
        /\ Cardinality(LiveAt(ip)) # 0
    <2>1. IsFiniteSet(LiveAt(ip))
      BY LiveFinite
    <2> QED
      BY <1>4, <2>1, OneFewer
  <1>6. CASE MaxPerIp > 0
    <2>1. DOMAIN per_ip = {addr[d] : d \in Live} /\ ip \in DOMAIN per_ip
      BY <1>6 DEF CountersExact
    <2>2. per_ip[ip] = Cardinality(LiveAt(ip))
      BY <2>1 DEF CountersExact
    <2>3. CASE per_ip[ip] <= 1
      <3>1. LiveAt(ip)' = {}
        <4>1. IsFiniteSet(LiveAt(ip)')
          BY <1>4, LiveFinite, FS_Subset
        <4>2. Cardinality(LiveAt(ip)) \in Nat
          BY LiveFinite
        <4>3. Cardinality(LiveAt(ip)') = 0
          BY <1>5, <2>2, <2>3, <4>2
        <4> QED
          BY <4>1, <4>3, FS_EmptySet
      <3>2. per_ip' = [i \in DOMAIN per_ip \ {ip} |-> per_ip[i]]
        BY <2>1, <2>3 DEF Remove
      <3>3. {addr'[d] : d \in Live'} = {addr[d] : d \in Live} \ {ip}
        BY <3>1 DEF LiveAt
      <3>4. DOMAIN per_ip' = {addr'[d] : d \in Live'}
        BY <2>1, <3>2, <3>3
      <3>5. \A i \in DOMAIN per_ip' : per_ip'[i] = Cardinality(LiveAt(i)')
        BY <1>3, <3>2 DEF CountersExact
      <3> QED
        BY <1>2, <1>6, <3>4, <3>5 DEF CountersExact
    <2>4. CASE ~(per_ip[ip] <= 1)
      <3>1. per_ip' = WithEntry(ip, per_ip[ip] - 1)
        BY <2>1, <2>4 DEF Remove
      <3>2. LiveAt(ip)' # {}
        <4>1. Cardinality(LiveAt(ip)') # 0
          BY <1>5, <2>2, <2>4, LiveFinite
        <4> QED
          BY <4>1, FS_EmptySet
      <3>3. {addr'[d] : d \in Live'} = {addr[d] : d \in Live}
        BY <3>2 DEF LiveAt
      <3>4. DOMAIN per_ip' = {addr'[d] : d \in Live'}
        BY <2>1, <3>1, <3>3 DEF WithEntry
      <3>5. \A i \in DOMAIN per_ip' : per_ip'[i] = Cardinality(LiveAt(i)')
        BY <1>3, <1>5, <2>2, <3>1 DEF WithEntry, CountersExact
      <3> QED
        BY <1>2, <1>6, <3>4, <3>5 DEF CountersExact
    <2> QED
      BY <2>3, <2>4
  <1>7. CASE ~(MaxPerIp > 0)
    BY <1>2, <1>7 DEF CountersExact, Remove
  <1> QED
    BY <1>6, <1>7

(* What each step does to the set of open connections: Admit adds one that   *)
(* was not open, Finish and DropTask take one out, the others change nothing. *)
LEMMA LiveSteps ==
    ASSUME TypeOK, QueueDistinct, [Next]_vars
    PROVE  \/ \E c \in Conns : /\ Admit(c)
                               /\ c \notin Live
                               /\ Live' = Live \cup {c}
           \/ \E c \in Live : /\ Finish(c) \/ DropTask(c)
                              /\ Live' = Live \ {c}
           \/ /\ Live' = Live
              /\ \A c \in Live : addr'[c] = addr[c]
              /\ \/ UNCHANGED tracker
                 \/ \E c \in Conns : Reject(c)
  <1> USE DEF TypeOK, Live, tracker
  <1>1. ASSUME NEW c \in Conns, NEW ip \in IPs, Connect(c, ip)
        PROVE Live' = Live /\ UNCHANGED tracker /\ \A d \in Live : addr'[d] = addr[d]
    BY <1>1 DEF Connect
  <1>2. CASE Accept \/ AcceptError
    <2>1. backlog # <<>> /\ 1 \in 1..Len(backlog) /\ Head(backlog) = backlog[1]
      BY <1>2 DEF Accept, AcceptError
    <2>2. Head(backlog) \in Conns /\ task[Head(backlog)] = "backlog"
      BY <2>1, HeadTailProperties DEF QueueDistinct
    <2>3. Live' = Live /\ UNCHANGED tracker /\ addr' = addr
      BY <1>2, <2>2 DEF Accept, AcceptError
    <2> QED
      BY <2>3
  <1>3. ASSUME NEW c \in Conns, Admit(c)
        PROVE c \notin Live /\ Live' = Live \cup {c}
    BY <1>3 DEF Admit
  <1>4. ASSUME NEW c \in Conns, Reject(c)
        PROVE Live' = Live /\ addr' = addr
    BY <1>4 DEF Reject
  <1>5. ASSUME NEW c \in Conns, Serve(c)
        PROVE Live' = Live /\ addr' = addr /\ UNCHANGED tracker
    BY <1>5 DEF Serve
  <1>6. ASSUME NEW c \in Conns, Finish(c)
        PROVE c \in Live /\ Live' = Live \ {c}
    BY <1>6 DEF Finish
  <1>7. ASSUME NEW c \in Conns, DropTask(c)
        PROVE \/ c \in Live /\ Live' = Live \ {c}
              \/ Live' = Live /\ addr' = addr /\ UNCHANGED tracker
    BY <1>7 DEF DropTask, TaskStates
  <1>8. CASE Signal \/ Halt \/ PingTick \/ Pinged \/ UNCHANGED vars
    BY <1>8 DEF Signal, Halt, PingTick, Pinged, vars
  <1> QED
    BY <1>1, <1>2, <1>3, <1>4, <1>5, <1>6, <1>7, <1>8 DEF Next

(* The counters are exact after every step of a running process. *)
LEMMA CountersInductive ==
    TypeOK /\ QueueDistinct /\ CountersMatchConnections /\ [Next]_vars
        => CountersMatchConnections'
  <1> SUFFICES ASSUME TypeOK, QueueDistinct, CountersMatchConnections, [Next]_vars,
                      main' # "halted"
               PROVE  CountersExact'
    BY DEF CountersMatchConnections
  <1>1. main # "halted" /\ ~\E c \in Conns : DropTask(c)
    BY DEF Next, Connect, Accept, AcceptError, Admit, Reject, Serve, Finish,
           Signal, Halt, DropTask, PingTick, Pinged, vars
  <1>2. CountersExact
    BY <1>1 DEF CountersMatchConnections
  <1>3. ASSUME NEW c \in Conns, Admit(c), c \notin Live, Live' = Live \cup {c}
        PROVE CountersExact'
    BY <1>2, <1>3, CountersAdd DEF Admit
  <1>4. ASSUME NEW c \in Live, Finish(c), Live' = Live \ {c}
        PROVE CountersExact'
    BY <1>2, <1>4, CountersRemove DEF Finish
  <1>5. ASSUME NEW c \in Conns, Reject(c), Live' = Live, \A d \in Live : addr'[d] = addr[d]
        PROVE UNCHANGED tracker
    <2>1. CASE TotalFull
      BY <1>5, <2>1 DEF Reject, TryAddFails
    <2>2. CASE ~TotalFull
      <3>1. addr[c] \in DOMAIN per_ip
        BY <1>5, <2>2, LimitsAreNat
        DEF Reject, TryAddFails, IpFull, Count
      <3>2. per_ip' = per_ip /\ total' = total
        BY <1>5, <2>2, <3>1
        DEF Reject, TryAddFails, WithEntry, Count, TypeOK
      <3> QED
        BY <3>2 DEF tracker
    <2> QED
      BY <2>1, <2>2
  <1>6. ASSUME Live' = Live, \A d \in Live : addr'[d] = addr[d], UNCHANGED tracker
        PROVE CountersExact'
    BY <1>2, <1>6, CountersKept
  <1>7. \A c \in Live : c \in Conns
    BY DEF Live
  <1> QED
    BY <1>1, <1>3, <1>4, <1>5, <1>6, <1>7, LiveSteps

(* Admission stops at both limits, whatever else is going on. *)
LEMMA LimitsInductive ==
    IInv /\ [Next]_vars => LimitsRespected'
  <1> SUFFICES ASSUME IInv, [Next]_vars PROVE LimitsRespected'
    OBVIOUS
  <1> USE DEF IInv
  <1>1. ASSUME NEW c \in Conns, Admit(c), c \notin Live, Live' = Live \cup {c}
        PROVE LimitsRespected'
    <2> DEFINE ip == addr[c]
    <2>1. addr' = addr /\ CountersExact /\ ~TotalFull /\ ~IpFull(ip)
      BY <1>1 DEF Admit, TryAdd, CountersMatchConnections
    <2>2. Cardinality(Live') = Cardinality(Live) + 1
      BY <1>1, LiveFinite, FS_AddElement
    <2>3. MaxTotal > 0 => Cardinality(Live') <= MaxTotal
      BY <2>1, <2>2, LimitsAreNat, LiveFinite DEF TotalFull, CountersExact
    <2>4. \A i : i # ip => LiveAt(i)' = LiveAt(i)
      BY <1>1, <2>1 DEF LiveAt
    <2>5. LiveAt(ip)' = LiveAt(ip) \cup {c} /\ c \notin LiveAt(ip)
      BY <1>1, <2>1 DEF LiveAt
    <2>6. Cardinality(LiveAt(ip)') = Cardinality(LiveAt(ip)) + 1
      BY <2>5, LiveFinite, FS_AddElement, Zenon
    <2>7. ASSUME MaxPerIp > 0 PROVE Cardinality(LiveAt(ip)') <= MaxPerIp
      <3>1. CASE ip \in DOMAIN per_ip
        <4>1. Cardinality(LiveAt(ip)) < MaxPerIp
          BY <2>1, <2>7, <3>1, LimitsAreNat, LiveFinite DEF IpFull, Count, CountersExact
        <4>2. Cardinality(LiveAt(ip)) \in Nat
          BY LiveFinite
        <4> QED
          BY <2>6, <4>1, <4>2, LimitsAreNat
      <3>2. CASE ip \notin DOMAIN per_ip
        <4>1. LiveAt(ip) = {}
          BY <2>1, <2>7, <3>2 DEF LiveAt, CountersExact
        <4>2. Cardinality(LiveAt(ip)) = 0
          BY <4>1, FS_EmptySet
        <4> QED
          BY <2>6, <2>7, <4>2, LimitsAreNat
      <3> QED
        BY <3>1, <3>2
    <2>8. ASSUME MaxPerIp > 0, NEW i \in IPs PROVE Cardinality(LiveAt(i)') <= MaxPerIp
      <3>1. CASE i = ip
        BY <2>1, <2>7, <2>8, <3>1 DEF LiveAt
      <3>2. CASE i # ip
        BY <2>4, <2>8, <3>2 DEF LimitsRespected
      <3> QED
        BY <3>1, <3>2
    <2> QED
      BY <2>3, <2>8 DEF LimitsRespected
  <1>2. ASSUME NEW c \in Live, Finish(c) \/ DropTask(c), Live' = Live \ {c}
        PROVE LimitsRespected'
    <2>1. addr' = addr
      BY <1>2 DEF Finish, DropTask
    <2>2. Cardinality(Live') <= Cardinality(Live) /\ Cardinality(Live') \in Nat
      BY <1>2, LiveFinite, FS_Subset, FS_CardinalityType
    <2>3. ASSUME NEW i PROVE /\ Cardinality(LiveAt(i)') <= Cardinality(LiveAt(i))
                             /\ Cardinality(LiveAt(i)') \in Nat
      <3>1. LiveAt(i)' \subseteq LiveAt(i)
        BY <1>2, <2>1 DEF LiveAt
      <3> QED
        BY <3>1, LiveFinite, FS_Subset, FS_CardinalityType
    <2> QED
      BY <2>2, <2>3, LiveFinite, LimitsAreNat DEF LimitsRespected
  <1>3. ASSUME Live' = Live, \A c \in Live : addr'[c] = addr[c]
        PROVE LimitsRespected'
    <2>1. \A i : LiveAt(i)' = LiveAt(i)
      BY <1>3 DEF LiveAt
    <2> QED
      BY <1>3, <2>1 DEF LimitsRespected
  <1> QED
    BY <1>1, <1>2, <1>3, LiveSteps

(* The strengthened invariant, by induction on the steps of the system. *)
THEOREM InductiveInvariant == Spec => []IInv
  <1>1. Init => IInv
    <2> SUFFICES ASSUME Init PROVE IInv
      OBVIOUS
    <2>1. Live = {} /\ \A ip : LiveAt(ip) = {}
      BY DEF Init, Live, LiveAt
    <2>2. TypeOK
      <3>1. per_ip = [i \in {} |-> 0] /\ DOMAIN per_ip = {}
        BY DEF Init
      <3>2. per_ip \in [DOMAIN per_ip -> Nat] /\ DOMAIN per_ip \subseteq IPs
        BY <3>1
      <3>3. task \in [Conns -> TaskStates] /\ backlog \in Seq(Conns)
        BY DEF Init, TaskStates
      <3> QED
        BY <3>2, <3>3, DescriptorsAreNat, Zenon DEF Init, TypeOK
    <2>3. QueueDistinct
      BY DEF Init, QueueDistinct
    <2>4. CountersMatchConnections
      BY <2>1, FS_EmptySet DEF Init, CountersMatchConnections, CountersExact
    <2>5. LimitsRespected
      BY <2>1, FS_EmptySet, LimitsAreNat DEF LimitsRespected
    <2> QED
      BY <2>2, <2>3, <2>4, <2>5 DEF IInv
  <1>2. IInv /\ [Next]_vars => IInv'
    BY TypeInductive, QueueInductive, CountersInductive, LimitsInductive DEF IInv
  <1> QED
    BY <1>1, <1>2, PTL DEF Spec

(* Whatever the interleaving of accepts, session ends and panics, the two    *)
(* counters of ConnectionTracker equal the numbers of open connections until *)
(* the process stops.                                                       *)
THEOREM CountersAreExact == Spec => []CountersMatchConnections
  <1>1. IInv => CountersMatchConnections
    BY DEF IInv
  <1> QED
    BY <1>1, InductiveInvariant, PTL

(* No more than MaxConnections connections, and no more than                 *)
(* MaxConnectionsPerIP from one address, are ever open.                     *)
THEOREM LimitsHold == Spec => []LimitsRespected
  <1>1. IInv => LimitsRespected
    BY DEF IInv
  <1> QED
    BY <1>1, InductiveInvariant, PTL

(* Every variable of the accept loop and the tracker keeps its type; in      *)
(* particular no counter leaves the naturals (remove() never has to saturate *)
(* below a count it did not make).                                          *)
THEOREM TypeCorrect == Spec => []TypeOK
  <1>1. IInv => TypeOK
    BY DEF IInv
  <1> QED
    BY <1>1, InductiveInvariant, PTL

(* What the per-IP counter says while the counters are exact: an address     *)
(* without an entry has no connection.                                      *)
LEMMA CountIsExact ==
    ASSUME TypeOK, CountersExact, MaxPerIp > 0, NEW ip
    PROVE  Count(ip) = Cardinality(LiveAt(ip))
  <1>1. CASE ip \in DOMAIN per_ip
    BY <1>1 DEF Count, CountersExact
  <1>2. CASE ip \notin DOMAIN per_ip
    <2>1. LiveAt(ip) = {}
      BY <1>2 DEF CountersExact, LiveAt
    <2> QED
      BY <1>2, <2>1, FS_EmptySet DEF Count
  <1> QED
    BY <1>1, <1>2

(* A client that try_add() turns away finds as many connections open as a    *)
(* limit allows: no session, however it ended, has left its slot behind.     *)
THEOREM NoLeakedSlots == Spec => RefusedOnlyAtALimit
  <1> DEFINE A == \A c \in Conns :
                     task[c] = "accepted" /\ task'[c] = "none" /\ main # "halted" =>
                        \/ MaxTotal > 0 /\ Cardinality(Live) >= MaxTotal
                        \/ MaxPerIp > 0 /\ Cardinality(LiveAt(addr[c])) >= MaxPerIp
  <1>1. IInv /\ [Next]_vars => A
    <2> SUFFICES ASSUME IInv, [Next]_vars, NEW c \in Conns,
                        task[c] = "accepted", task'[c] = "none", main # "halted"
                 PROVE  \/ MaxTotal > 0 /\ Cardinality(Live) >= MaxTotal
                        \/ MaxPerIp > 0 /\ Cardinality(LiveAt(addr[c])) >= MaxPerIp
      OBVIOUS
    <2>1. TypeOK /\ QueueDistinct /\ CountersExact
      BY DEF IInv, CountersMatchConnections
    <2>2. ~AcceptError
      <3> SUFFICES ASSUME AcceptError PROVE FALSE
        OBVIOUS
      <3>1. backlog # <<>> /\ 1 \in 1..Len(backlog) /\ Head(backlog) = backlog[1]
        BY <2>1 DEF AcceptError, TypeOK
      <3>2. Head(backlog) # c
        BY <2>1, <3>1 DEF QueueDistinct
      <3> QED
        BY <2>1, <3>2 DEF AcceptError, TypeOK
    <2>3. Reject(c)
      BY <2>1, <2>2 DEF Next, Connect, Accept, Admit, Reject, Serve, Finish, Signal, Halt,
            DropTask, PingTick, Pinged, vars, TypeOK
    <2>4. CASE TotalFull
      BY <2>1, <2>4 DEF TotalFull, CountersExact
    <2>5. CASE IpFull(addr[c])
      BY <2>1, <2>5, CountIsExact, LimitsAreNat DEF IpFull
    <2> QED
      BY <2>3, <2>4, <2>5 DEF Reject, TryAddFails
  <1> QED
    BY <1>1, InductiveInvariant, PTL DEF Spec, RefusedOnlyAtALimit

(* The abstract specification counts with the same operator. *)
LEMMA SameCardinality == \A S : Slots!Cardinality(S) = Cardinality(S)
  BY DEF Cardinality, Slots!Cardinality

(* The tracker implements the abstract pool of slots of ConnectionLimits.    *)
THEOREM Refinement == Spec => ImplementsLimits
  <1> DEFINE held == [c \in Live |-> addr[c]]
  <1>1. Init => Slots!Init
    BY DEF Init, Slots!Init, Live
  <1>2. IInv /\ [Next]_vars => [Slots!Next]_held
    <2> SUFFICES ASSUME IInv, [Next]_vars PROVE Slots!Next \/ UNCHANGED held
      OBVIOUS
    <2>0. TypeOK /\ QueueDistinct
      BY DEF IInv
    <2>1. ASSUME NEW c \in Conns, Admit(c), c \notin Live, Live' = Live \cup {c}
          PROVE Slots!Next
      <3>1. addr' = addr /\ addr[c] \in IPs /\ TryAdd(addr[c])
        BY <2>0, <2>1 DEF Admit, TypeOK
      <3>2. CountersExact
        BY <2>1 DEF IInv, CountersMatchConnections, Admit
      <3>3. Slots!HoldersAt(held, addr[c]) = LiveAt(addr[c])
        BY DEF Slots!HoldersAt, LiveAt
      <3>4. MaxTotal = 0 \/ Cardinality(DOMAIN held) < MaxTotal
        BY <3>1, <3>2, LiveFinite, LimitsAreNat DEF TryAdd, TotalFull, CountersExact
      <3>5. MaxPerIp = 0 \/ Cardinality(LiveAt(addr[c])) < MaxPerIp
        BY <2>0, <3>1, <3>2, CountIsExact, LiveFinite, LimitsAreNat DEF TryAdd, IpFull
      <3>6. Slots!RoomFor(held, addr[c])
        BY <3>3, <3>4, <3>5, SameCardinality DEF Slots!RoomFor
      <3>7. held' = [d \in DOMAIN held \cup {c} |-> IF d = c THEN addr[c] ELSE held[d]]
        BY <2>1, <3>1
      <3>8. \E ip \in IPs : Slots!Take(c, ip)
        BY <2>1, <3>1, <3>6, <3>7 DEF Slots!Take
      <3> QED
        BY <3>8 DEF Slots!Next
    <2>2. ASSUME NEW c \in Live, Finish(c) \/ DropTask(c), Live' = Live \ {c}
          PROVE Slots!Next
      <3>1. addr' = addr /\ c \in Conns
        BY <2>2 DEF Finish, DropTask, Live
      <3>2. Slots!GiveBack(c)
        BY <2>2, <3>1 DEF Slots!GiveBack
      <3> QED
        BY <3>1, <3>2 DEF Slots!Next
    <2>3. ASSUME Live' = Live, \A c \in Live : addr'[c] = addr[c]
          PROVE UNCHANGED held
      BY <2>3
    <2> QED
      BY <2>0, <2>1, <2>2, <2>3, LiveSteps
  <1> QED
    BY <1>1, <1>2, InductiveInvariant, PTL DEF Spec, ImplementsLimits, Slots!Spec
=============================================================================
