------------------------- MODULE ConnectionTracker -------------------------
(***************************************************************************)
(* The accept loop of realmd (main.rs), the ConnectionTracker behind its    *)
(* mutex, the ConnectionGuard every session task owns, the database ping    *)
(* task and the way the process is stopped.                                 *)
(*                                                                          *)
(* A connection runs through                                                *)
(*   none -> backlog -> accepted -> spawned -> serving -> none              *)
(* "accepted" is the stream in the hands of the accept loop, "spawned" a    *)
(* task that was registered with the tracker and not yet polled (it owns no *)
(* guard), "serving" a task inside handle_client.                           *)
(***************************************************************************)
EXTENDS Naturals, FiniteSets, Sequences

CONSTANTS Conns,      \* connections, reused once closed
          IPs,        \* client addresses
          MaxPerIp,   \* MaxConnectionsPerIP (0 = unlimited)
          MaxTotal,   \* MaxConnections (0 = unlimited)
          DescriptorLimits  \* how many client streams the process may hold open

ASSUME ConnsFinite == IsFiniteSet(Conns)
ASSUME LimitsAreNat == MaxPerIp \in Nat /\ MaxTotal \in Nat
ASSUME DescriptorsAreNat == DescriptorLimits \subseteq Nat

VARIABLES per_ip,     \* ConnectionTracker.per_ip: a map with the entries it has
          total,      \* ConnectionTracker.total
          task,       \* where each connection is
          addr,       \* peer address of each connection
          backlog,    \* the listener's queue, oldest first
          main,       \* the accept loop: "select", "admit" or "halted"
          notified,   \* the ctrl_c() future of this select is ready
          stop,       \* stop_event, set by the ctrlc handler
          pinger,     \* the database ping task
          nofile      \* the descriptors the system leaves for client streams

tracker == <<per_ip, total>>
vars == <<per_ip, total, task, addr, backlog, main, notified, stop, pinger,
          nofile>>

TaskStates == {"none", "backlog", "accepted", "spawned", "serving"}

\* Connections the tracker has counted in and not yet counted out.
Live == {c \in Conns : task[c] \in {"spawned", "serving"}}
LiveAt(ip) == {c \in Live : addr[c] = ip}

\* The streams the process holds, and whether accept() can open another.
Held == {c \in Conns : task[c] \in {"accepted", "spawned", "serving"}}
FreeDescriptor == Cardinality(Held) < nofile
-----------------------------------------------------------------------------
(* ConnectionTracker *)

Count(ip) == IF ip \in DOMAIN per_ip THEN per_ip[ip] ELSE 0

\* self.per_ip.entry(ip).or_insert(0), then the entry set to n
WithEntry(ip, n) ==
    [i \in DOMAIN per_ip \cup {ip} |-> IF i = ip THEN n ELSE per_ip[i]]

\* Faulty variant: one connection more than the limit.
TotalFull_OffByOne == MaxTotal > 0 /\ total > MaxTotal
TotalFull == MaxTotal > 0 /\ total >= MaxTotal

\* Faulty variant: one connection more than the limit.
IpFull_OffByOne(ip) == MaxPerIp > 0 /\ Count(ip) > MaxPerIp
IpFull(ip) == MaxPerIp > 0 /\ Count(ip) >= MaxPerIp

\* try_add returning true
TryAdd(ip) ==
    /\ ~TotalFull
    /\ ~IpFull(ip)
    /\ per_ip' = IF MaxPerIp > 0 THEN WithEntry(ip, Count(ip) + 1) ELSE per_ip
    /\ total' = total + 1

\* try_add returning false: the per-IP check leaves the entry it looked up
TryAddFails(ip) ==
    \/ /\ TotalFull
       /\ UNCHANGED tracker
    \/ /\ ~TotalFull
       /\ IpFull(ip)
       /\ per_ip' = WithEntry(ip, Count(ip))
       /\ UNCHANGED total

\* Faulty variant: an entry that falls to 0 stays in the map.
Remove_KeepsEntry(ip) ==
    /\ per_ip' = IF ip \notin DOMAIN per_ip THEN per_ip
                 ELSE WithEntry(ip, per_ip[ip] - 1)
    /\ total' = IF total = 0 THEN 0 ELSE total - 1

\* Faulty variant: counted out by handle_client and again by the guard.
Remove_Twice(ip) ==
    /\ per_ip' = [i \in DOMAIN per_ip \ {ip} |-> per_ip[i]]
    /\ total' = total - 2

Remove(ip) ==
    /\ per_ip' = IF ip \notin DOMAIN per_ip THEN per_ip
                 ELSE IF per_ip[ip] <= 1
                      THEN [i \in DOMAIN per_ip \ {ip} |-> per_ip[i]]
                      ELSE WithEntry(ip, per_ip[ip] - 1)
    /\ total' = IF total = 0 THEN 0 ELSE total - 1
-----------------------------------------------------------------------------
Init ==
    /\ per_ip = [i \in {} |-> 0]
    /\ total = 0
    /\ task = [c \in Conns |-> "none"]
    /\ addr \in [Conns -> IPs]
    /\ backlog = <<>>
    /\ main = "select"
    /\ notified = FALSE
    /\ stop = FALSE
    /\ pinger = "waiting"
    /\ nofile \in DescriptorLimits

\* A client connects and the kernel queues it on the listening socket.
Connect(c, ip) ==
    /\ task[c] = "none"
    /\ main # "halted"
    /\ task' = [task EXCEPT ![c] = "backlog"]
    /\ addr' = [addr EXCEPT ![c] = ip]
    /\ backlog' = Append(backlog, c)
    /\ UNCHANGED <<per_ip, total, main, notified, stop, pinger, nofile>>

\* accept() wins the select: the ctrl_c() future is dropped with whatever it
\* had been told, and the loop holds the stream.
Accept ==
    /\ main = "select"
    /\ backlog # <<>>
    /\ FreeDescriptor
    /\ task' = [task EXCEPT ![Head(backlog)] = "accepted"]
    /\ backlog' = Tail(backlog)
    /\ main' = "admit"
    /\ notified' = FALSE
    /\ UNCHANGED <<per_ip, total, addr, stop, pinger, nofile>>

\* accept() returns an error, which is only logged: the queued connection was
\* aborted, or no descriptor is left (EMFILE) and it stays queued.
AcceptError ==
    /\ main = "select"
    /\ backlog # <<>>
    /\ \/ /\ task' = [task EXCEPT ![Head(backlog)] = "none"]
          /\ backlog' = Tail(backlog)
       \/ ~FreeDescriptor /\ UNCHANGED <<task, backlog>>
    /\ notified' = FALSE
    /\ UNCHANGED <<per_ip, total, addr, main, stop, pinger, nofile>>

\* Within the limits: register, spawn the session task, select again.
Admit(c) ==
    /\ main = "admit"
    /\ task[c] = "accepted"
    /\ TryAdd(addr[c])
    /\ task' = [task EXCEPT ![c] = "spawned"]
    /\ main' = "select"
    /\ UNCHANGED <<addr, backlog, notified, stop, pinger, nofile>>

\* Faulty variant: the loop waits for a slot instead of turning the client away.
Reject_Waits(c) ==
    /\ main = "admit"
    /\ task[c] = "accepted"
    /\ TryAddFails(addr[c])
    /\ UNCHANGED <<task, addr, backlog, main, notified, stop, pinger, nofile>>

\* Over a limit: the stream is dropped.
Reject(c) ==
    /\ main = "admit"
    /\ task[c] = "accepted"
    /\ TryAddFails(addr[c])
    /\ task' = [task EXCEPT ![c] = "none"]
    /\ main' = "select"
    /\ UNCHANGED <<addr, backlog, notified, stop, pinger, nofile>>

\* The task is polled for the first time: the guard exists from here on.
Serve(c) ==
    /\ task[c] = "spawned"
    /\ main # "halted"
    /\ task' = [task EXCEPT ![c] = "serving"]
    /\ UNCHANGED <<per_ip, total, addr, backlog, main, notified, stop, pinger, nofile>>

\* Faulty variant: the session ends without a guard.
Finish_NoGuard(c) ==
    /\ task[c] = "serving"
    /\ main # "halted"
    /\ task' = [task EXCEPT ![c] = "none"]
    /\ UNCHANGED <<per_ip, total, addr, backlog, main, notified, stop, pinger, nofile>>

\* handle_client returned, or the task panicked: the guard is dropped.
Finish(c) ==
    /\ task[c] = "serving"
    /\ main # "halted"
    /\ Remove(addr[c])
    /\ task' = [task EXCEPT ![c] = "none"]
    /\ UNCHANGED <<addr, backlog, main, notified, stop, pinger, nofile>>

\* SIGINT.  The ctrlc handler sets stop_event; tokio tells the ctrl_c()
\* futures that exist, and there is one only while the loop is selecting.
Signal ==
    /\ main # "halted"
    /\ stop' = TRUE
    /\ notified' = (main = "select")
    /\ UNCHANGED <<per_ip, total, task, addr, backlog, main, pinger, nofile>>

\* ctrl_c() wins the select: the loop is left and main returns.
Halt ==
    /\ main = "select"
    /\ notified
    /\ main' = "halted"
    /\ UNCHANGED <<per_ip, total, task, addr, backlog, notified, stop, pinger, nofile>>

\* The runtime drops its tasks; one never polled has no guard to drop.
DropTask(c) ==
    /\ main = "halted"
    /\ task[c] # "none"
    /\ IF task[c] = "serving" THEN Remove(addr[c]) ELSE UNCHANGED tracker
    /\ task' = [task EXCEPT ![c] = "none"]
    /\ backlog' = <<>>
    /\ UNCHANGED <<addr, main, notified, stop, pinger, nofile>>

\* The ping task: tick, look at stop_event, ping (an error is only logged).
PingTick ==
    /\ pinger = "waiting"
    /\ main # "halted"
    /\ pinger' = IF stop THEN "stopped" ELSE "pinging"
    /\ UNCHANGED <<per_ip, total, task, addr, backlog, main, notified, stop, nofile>>

Pinged ==
    /\ pinger = "pinging"
    /\ main # "halted"
    /\ pinger' = "waiting"
    /\ UNCHANGED <<per_ip, total, task, addr, backlog, main, notified, stop, nofile>>

Next ==
    \/ \E c \in Conns, ip \in IPs : Connect(c, ip)
    \/ Accept \/ AcceptError
    \/ \E c \in Conns : Admit(c) \/ Reject(c) \/ Serve(c) \/ Finish(c) \/ DropTask(c)
    \/ Signal \/ Halt
    \/ PingTick \/ Pinged

Spec == Init /\ [][Next]_vars

\* tokio polls every runnable task: the accept loop when one of its branches
\* is ready, a spawned task, the ping task after its tick.  accept() may fail
\* each time it is polled, so long as there is a reason; nothing obliges a
\* client to leave, and with it to free a descriptor, or a user to press Ctrl-C.
Fairness ==
    /\ WF_vars(Accept \/ AcceptError)
    /\ WF_vars(Halt)
    /\ \A c \in Conns : WF_vars(Admit(c) \/ Reject(c)) /\ WF_vars(Serve(c))
    /\ WF_vars(PingTick) /\ WF_vars(Pinged)

FairSpec == Spec /\ Fairness
-----------------------------------------------------------------------------
TypeOK ==
    /\ DOMAIN per_ip \subseteq IPs
    /\ per_ip \in [DOMAIN per_ip -> Nat]
    /\ total \in Nat
    /\ task \in [Conns -> TaskStates]
    /\ addr \in [Conns -> IPs]
    /\ backlog \in Seq(Conns)
    /\ main \in {"select", "admit", "halted"}
    /\ notified \in BOOLEAN
    /\ stop \in BOOLEAN
    /\ pinger \in {"waiting", "pinging", "stopped"}
    /\ nofile \in Nat

CountersExact ==
    /\ total = Cardinality(Live)
    /\ DOMAIN per_ip = IF MaxPerIp > 0 THEN {addr[c] : c \in Live} ELSE {}
    /\ \A ip \in DOMAIN per_ip : per_ip[ip] = Cardinality(LiveAt(ip))

\* Until the process stops, the counters of the tracker are the numbers of
\* connections that are really open: the guards count every one out exactly
\* once, however sessions interleave with the accept loop, and per_ip keeps no
\* entry for an address without a connection (the map does not grow for ever).
CountersMatchConnections == main # "halted" => CountersExact

\* The limits of realmd.conf hold of the open connections themselves.
LimitsRespected ==
    /\ MaxTotal > 0 => Cardinality(Live) <= MaxTotal
    /\ MaxPerIp > 0 => \A ip \in IPs : Cardinality(LiveAt(ip)) <= MaxPerIp

\* What the two need to be inductive: the listener's queue holds each waiting
\* connection once, and none that is being served.
QueueDistinct ==
    /\ \A i \in 1..Len(backlog) : task[backlog[i]] = "backlog"
    /\ \A i, j \in 1..Len(backlog) : backlog[i] = backlog[j] => i = j

IInv == TypeOK /\ QueueDistinct /\ CountersMatchConnections /\ LimitsRespected

\* A client is turned away only when as many connections as a limit allows are
\* open at that moment: no slot is ever leaked by an earlier session.
RefusedOnlyAtALimit ==
    [][\A c \in Conns :
          task[c] = "accepted" /\ task'[c] = "none" /\ main # "halted" =>
             \/ MaxTotal > 0 /\ Cardinality(Live) >= MaxTotal
             \/ MaxPerIp > 0 /\ Cardinality(LiveAt(addr[c])) >= MaxPerIp]_vars

\* While the process does not run out of descriptors for good, every queued
\* client is answered (admitted, turned away or its connection found aborted)
\* or the process stops: a client over a limit is turned away at once and an
\* accept() that fails is tried again, so neither keeps those behind it waiting.
\* Sessions that hold every descriptor for ever do keep them waiting.
QueuedIsAnswered ==
    []<>(FreeDescriptor \/ main = "halted") =>
        \A c \in Conns : task[c] = "backlog" ~> task[c] # "backlog" \/ main = "halted"

\* Ctrl-C stops the server, as the start-up banner says.
CtrlCStops == stop ~> main = "halted"

\* The tracker implements the pool of slots: a slot is held from try_add to
\* the guard's drop.
Slots == INSTANCE ConnectionLimits WITH slots <- [c \in Live |-> addr[c]]
ImplementsLimits == Slots!Spec
=============================================================================
