----------------------------- MODULE AuthSocket -----------------------------
(***************************************************************************)
(* The authentication sessions of realmd (auth_socket.rs) over the login    *)
(* database they share: logon challenge and proof, wrong-password counting   *)
(* and automatic bans, automatic account creation, reconnect, realm list     *)
(* requests, and the ways a session ends.                                    *)
(*                                                                          *)
(* A handler is split at its awaits: between two steps of one session the    *)
(* others may run, and what a handler read before an await it uses after it. *)
(* pc is the await a session is at: "command" and "token" wait for the       *)
(* client, the send states for a write, the rest for the database.           *)
(***************************************************************************)
EXTENDS Naturals, FiniteSets

CONSTANTS Conns, IPs, Users, Passwords,
          Builds,          \* client builds that connect
          NamePassword,    \* the password equal to the user name
          Broken,          \* in place of a password: v or s is unreadable
          NoRow, NoIp,
          FarIp,           \* an address no client of the model connects from
          LongNames,       \* user names of more than 10 characters
          Existing,        \* account tables the server may start with
          AutoCreate,      \* AutoCreateAccounts
          StrictVersion,   \* StrictVersionCheck
          MaxWrong,        \* WrongPass.MaxCount
          BanTime,         \* WrongPass.BanTime
          BanAccount,      \* WrongPass.BanType
          DbFaults,        \* may a database operation fail?
          GmBans,          \* kinds of ban that game masters issue
          MaxKeys,         \* bound: session keys derived in a behaviour
          FailedCap        \* bound: wrong proofs counted for one account

VARIABLES account,         \* table account, one row per user name
          account_banned,  \* the active bans of each account, by kind
          ip_banned,       \* the active bans of each address, by kind
          account_logons,  \* table account_logons
          sess,            \* the local state of every session
          nkeys,           \* session keys derived so far
          issued,          \* history: keys each row has held
          vetted           \* history: keys of logons that the ban checks let through

db == <<account, account_banned, ip_banned, account_logons>>
vars == <<account, account_banned, ip_banned, account_logons, sess, nkeys, issued, vetted>>
history == <<issued, vetted>>

NoKey == 0
Keys == 1..MaxKeys
Row == [pw : Passwords \cup {Broken}, lockedIp : IPs \cup {NoIp, FarIp}, token : BOOLEAN,
        sessionkey : Keys \cup {NoKey}, failed_logins : 0..FailedCap]

ASSUME SettingsTyped ==
    /\ AutoCreate \in BOOLEAN /\ StrictVersion \in BOOLEAN
    /\ BanAccount \in BOOLEAN /\ DbFaults \in BOOLEAN
    /\ MaxWrong \in Nat /\ BanTime \in Nat /\ MaxKeys \in Nat /\ FailedCap \in Nat
    /\ NamePassword \in Passwords /\ Broken \notin Passwords
    /\ NoIp \notin IPs /\ FarIp \notin IPs \cup {NoIp} /\ NoRow \notin Row /\ Builds \subseteq Nat
    /\ GmBans \subseteq {"temporary", "permanent"}
    /\ Existing \subseteq [Users -> Row \cup {NoRow}]

\* realmd accepts finitely many connections.
ASSUME ConnsFinite == IsFiniteSet(Conns)

PCs == {"none", "command", "ipban", "account", "accban", "create", "requery", "send",
        "token", "store", "log", "sendproof", "sendfail", "count", "readcount", "ban",
        "reconkey", "sendrecon", "gmlevel"}
Statuses == {"Challenge", "LogonProof", "ReconProof", "Patch", "Authed", "Closed"}
BanKinds == {"temporary", "permanent"}

Commands == {"LogonChallenge", "LogonProof", "ReconnectChallenge", "ReconnectProof",
             "RealmList", "Xfer", "unknown"}

\* The status a command is accepted in (an unknown byte in none).
ExpectedStatus(cmd) ==
    CASE cmd \in {"LogonChallenge", "ReconnectChallenge"} -> "Challenge"
      [] cmd = "LogonProof" -> "LogonProof"
      [] cmd = "ReconnectProof" -> "ReconProof"
      [] cmd = "RealmList" -> "Authed"
      [] cmd = "Xfer" -> "Patch"
      [] OTHER -> "Closed"

\* find_build_info(build) is some
Supported(build) ==
    build >= 13930 \/ build \in {12340, 11723, 11403, 11159, 10505, 9947, 8606, 6141, 6005, 5875}

Session ==
    [pc : PCs, status : Statuses, ip : IPs \cup {NoIp}, user : Users \cup {NoRow},
     build : Builds \cup {0}, v : Passwords \cup {Broken}, token : BOOLEAN,
     k : Keys \cup {NoKey}, via : {"none", "logon", "reconnect"}, made : BOOLEAN,
     fault : BOOLEAN, acctClean : BOOLEAN, ipClean : BOOLEAN, old : SUBSET Keys]

\* The locals of handle_client, and what the properties remember of a session:
\* via (how it authenticates), made (it created its account), fault (one of its
\* database operations failed), acctClean and ipClean (its account, its address
\* was free of bans at some moment since its challenge arrived), old (the keys
\* its account no longer held when its reconnect challenge arrived).
NoSession ==
    [pc |-> "none", status |-> "Closed", ip |-> NoIp, user |-> NoRow, build |-> 0,
     v |-> Broken, token |-> FALSE, k |-> NoKey, via |-> "none", made |-> FALSE,
     fault |-> FALSE, acctClean |-> FALSE, ipClean |-> FALSE, old |-> {}]

At(c, pc) == sess[c].pc = pc
Goto(c, pc) == sess' = [sess EXCEPT ![c].pc = pc]
GotoFailed(c, pc) == sess' = [sess EXCEPT ![c].pc = pc, ![c].fault = TRUE]
Enter(c, pc, status) == sess' = [sess EXCEPT ![c].pc = pc, ![c].status = status]
EnterWith(c, pc, status, k) ==
    sess' = [sess EXCEPT ![c].pc = pc, ![c].status = status, ![c].k = k]
Close(c) == sess' = [sess EXCEPT ![c] = NoSession]

\* A handler returns Ok: the loop goes on unless it left the session closed.
Return(c) == IF sess[c].status = "Closed" THEN Close(c) ELSE Goto(c, "command")

KeysOf(row) == IF row = NoRow THEN {} ELSE {row.sessionkey} \ {NoKey}

Init ==
    /\ account \in Existing
    /\ account_banned = [u \in Users |-> {}]
    /\ ip_banned = [i \in IPs |-> {}]
    /\ account_logons = {}
    /\ sess = [c \in Conns |-> NoSession]
    /\ nkeys = 0
    /\ issued = [u \in Users |-> KeysOf(account[u])]
    /\ vetted = UNION {issued[u] : u \in Users}
-----------------------------------------------------------------------------
(* The session loop *)

Open(c, ip) ==
    /\ At(c, "none")
    /\ sess' = [sess EXCEPT ![c].pc = "command", ![c].status = "Challenge", ![c].ip = ip]
    /\ UNCHANGED <<db, nkeys, history>>

\* A read or a write times out or fails: handle_client returns.
Drop(c) ==
    /\ sess[c].pc \in {"command", "send", "sendfail", "sendproof", "sendrecon"}
    /\ Close(c)
    /\ UNCHANGED <<db, nkeys, history>>

\* A command that is unknown or out of place: handle_client returns.
Unexpected(c, cmd) ==
    /\ At(c, "command")
    /\ ExpectedStatus(cmd) # sess[c].status
    /\ Close(c)
    /\ UNCHANGED <<db, nkeys, history>>

\* The response is written and the handler returns.
Send(c) ==
    /\ At(c, "send")
    /\ Return(c)
    /\ UNCHANGED <<db, nkeys, history>>
-----------------------------------------------------------------------------
(* handle_logon_challenge *)

\* Header and body are read; a body that is too short or a name that is too
\* long is an error (Drop).
LogonChallenge(c, u, build) ==
    /\ At(c, "command")
    /\ sess[c].status = ExpectedStatus("LogonChallenge")
    /\ sess' = [sess EXCEPT ![c].pc = "ipban", ![c].status = "Closed",
                            ![c].user = u, ![c].build = build, ![c].via = "logon",
                            ![c].acctClean = account_banned[u] = {},
                            ![c].ipClean = ip_banned[sess[c].ip] = {}]
    /\ UNCHANGED <<db, nkeys, history>>

\* Faulty variant: temporary bans are overlooked.
CheckIpBan_PermanentOnly(c) ==
    /\ At(c, "ipban")
    /\ Goto(c, IF "permanent" \in ip_banned[sess[c].ip] THEN "send" ELSE "account")
    /\ UNCHANGED <<db, nkeys, history>>

\* A failing query is taken for "not banned".
CheckIpBan(c) ==
    /\ At(c, "ipban")
    /\ \/ ip_banned[sess[c].ip] # {} /\ Goto(c, "send")
       \/ ip_banned[sess[c].ip] = {} /\ Goto(c, "account")
       \/ DbFaults /\ GotoFailed(c, "account")
    /\ UNCHANGED <<db, nkeys, history>>

Locked(row, ip) == row.lockedIp # NoIp /\ row.lockedIp # ip

LookupAccount(c) ==
    LET row == account[sess[c].user] IN
    /\ At(c, "account")
    /\ \/ DbFaults /\ Close(c)
       \/ row = NoRow /\ Goto(c, IF AutoCreate THEN "create" ELSE "send")
       \/ /\ row # NoRow
          /\ Locked(row, sess[c].ip) \/ row.pw = Broken
          /\ Goto(c, "send")
       \/ /\ row # NoRow
          /\ ~Locked(row, sess[c].ip) /\ row.pw # Broken
          /\ sess' = [sess EXCEPT ![c].pc = "accban", ![c].v = row.pw, ![c].token = row.token]
    /\ UNCHANGED <<db, nkeys, history>>

\* Faulty variant: temporary bans are overlooked.
CheckAccountBan_PermanentOnly(c) ==
    LET banned == "permanent" \in account_banned[sess[c].user] IN
    /\ At(c, "accban")
    /\ \/ banned /\ Goto(c, "send")
       \/ ~banned /\ sess' = [sess EXCEPT ![c].pc = "send", ![c].status = "LogonProof"]
    /\ UNCHANGED <<db, nkeys, history>>

\* The challenge itself; again a failing query is taken for "not banned".
CheckAccountBan(c) ==
    LET banned == account_banned[sess[c].user] # {} IN
    /\ At(c, "accban")
    /\ \/ banned /\ Goto(c, "send")
       \/ ~banned /\ Enter(c, "send", "LogonProof")
       \/ DbFaults /\ sess' = [sess EXCEPT ![c].pc = "send", ![c].status = "LogonProof",
                                           ![c].fault = TRUE]
    /\ UNCHANGED <<db, nkeys, history>>

NewRow == [pw |-> NamePassword, lockedIp |-> NoIp, token |-> FALSE,
           sessionkey |-> NoKey, failed_logins |-> 0]

\* auto_create_account: the INSERT fails when the user name exists by now.
AutoCreateAccount(c) ==
    /\ At(c, "create")
    /\ \/ /\ account[sess[c].user] = NoRow
          /\ account' = [account EXCEPT ![sess[c].user] = NewRow]
          /\ sess' = [sess EXCEPT ![c].pc = "requery", ![c].made = TRUE]
       \/ /\ account[sess[c].user] # NoRow \/ DbFaults
          /\ Goto(c, "send")
          /\ UNCHANGED account
    /\ UNCHANGED <<account_banned, ip_banned, account_logons, nkeys, history>>

\* The new row is read back; its token is not looked at.
Requery(c) ==
    /\ At(c, "requery")
    /\ \/ DbFaults /\ Close(c)
       \/ sess' = [sess EXCEPT ![c].pc = "send", ![c].status = "LogonProof",
                               ![c].v = account[sess[c].user].pw]
    /\ UNCHANGED <<db, nkeys, history>>
-----------------------------------------------------------------------------
(* handle_logon_proof, handle_failed_login, verify_and_finalize *)

\* What verify_version lets a session with a right password go on to.
AfterVersionCheck == {"store"} \cup (IF StrictVersion THEN {"send"} ELSE {})

\* Bound: counting one more wrong proof keeps the counter within FailedCap.
MayFail(u) ==
    account[u].failed_logins
      + Cardinality({d \in Conns : sess[d].user = u /\ sess[d].pc \in {"sendfail", "count"}})
    < FailedCap

\* Faulty variant: the status is left alone, so a client may try again.
LogonProof_StaysOpen(c, p, flagged) ==
    /\ At(c, "command")
    /\ sess[c].status = "LogonProof"
    /\ \/ /\ p # sess[c].v
          /\ MayFail(sess[c].user)
          /\ sess' = [sess EXCEPT ![c].pc = "sendfail"]
          /\ UNCHANGED nkeys
       \/ /\ p = sess[c].v
          /\ nkeys < MaxKeys
          /\ nkeys' = nkeys + 1
          /\ sess' = [sess EXCEPT ![c].pc = "store", ![c].k = nkeys + 1]
    /\ UNCHANGED <<db, history>>

\* The proof is read and compared with what the verifier of the challenge
\* gives.  Right: go on to the authenticator, if the client or the account has
\* one and the build knows it, or to the version check.  A PIN is read with the
\* proof and not compared with anything.
LogonProof(c, p, flagged) ==
    /\ At(c, "command")
    /\ sess[c].status = ExpectedStatus("LogonProof")
    /\ \/ /\ ~Supported(sess[c].build)
          /\ Enter(c, "send", "Closed")
          /\ UNCHANGED nkeys
       \/ /\ Supported(sess[c].build)        \* A = 0 (mod N)
          /\ Close(c)
          /\ UNCHANGED nkeys
       \/ /\ Supported(sess[c].build)
          /\ p # sess[c].v
          /\ MayFail(sess[c].user)
          /\ Enter(c, "sendfail", "Closed")
          /\ UNCHANGED nkeys
       \/ /\ Supported(sess[c].build)
          /\ p = sess[c].v
          /\ nkeys < MaxKeys
          /\ nkeys' = nkeys + 1
          /\ \E next \in IF sess[c].build > 6141 /\ (flagged \/ sess[c].token)
                         THEN {"token"} ELSE AfterVersionCheck :
                EnterWith(c, next, "Closed", nkeys + 1)
    /\ UNCHANGED <<db, history>>

\* The authenticator digits arrive and match, or do not arrive or match.
AuthenticatorToken(c) ==
    /\ At(c, "token")
    /\ \E next \in AfterVersionCheck \cup {"send"} : Goto(c, next)
    /\ UNCHANGED <<db, nkeys, history>>

\* History: the ban checks of the session let it through rightly, or failed.
CameClean(s) == s.fault \/ (s.acctClean /\ s.ipClean)

\* Faulty variant: the client is answered before the key is stored.
StoreKey_AfterAnswer(c) ==
    /\ At(c, "store")
    /\ sess' = [sess EXCEPT ![c].pc = "command", ![c].status = "Authed"]
    /\ UNCHANGED <<db, nkeys, history>>

\* One UPDATE stores the key and clears the counter; its failure is ignored.
StoreKey(c) ==
    LET u == sess[c].user IN
    /\ At(c, "store")
    /\ \/ /\ account' = [account EXCEPT ![u].sessionkey = sess[c].k, ![u].failed_logins = 0]
          /\ issued' = [issued EXCEPT ![u] = @ \cup {sess[c].k}]
          /\ vetted' = IF CameClean(sess[c]) THEN vetted \cup {sess[c].k} ELSE vetted
          /\ Goto(c, "log")
       \/ /\ DbFaults
          /\ GotoFailed(c, "log")
          /\ UNCHANGED <<account, history>>
    /\ UNCHANGED <<account_banned, ip_banned, account_logons, nkeys>>

\* SELECT id and INSERT INTO account_logons; failures are ignored.
LogLogon(c) ==
    /\ At(c, "log")
    /\ \/ /\ account_logons' = account_logons \cup {<<sess[c].user, sess[c].k>>}
          /\ Goto(c, "sendproof")
       \/ /\ DbFaults
          /\ GotoFailed(c, "sendproof")
          /\ UNCHANGED account_logons
    /\ UNCHANGED <<account, account_banned, ip_banned, nkeys, history>>

SendProof(c) ==
    /\ At(c, "sendproof")
    /\ Enter(c, "command", "Authed")
    /\ UNCHANGED <<db, nkeys, history>>

\* The error response is written first; only then is the failure counted.
SendFailure(c) ==
    /\ At(c, "sendfail")
    /\ IF MaxWrong = 0 THEN Return(c) ELSE Goto(c, "count")
    /\ UNCHANGED <<db, nkeys, history>>

\* Faulty variant: one wrong proof counts twice.
CountFailure_Twice(c) ==
    /\ At(c, "count")
    /\ account' = [account EXCEPT ![sess[c].user].failed_logins = @ + 2]
    /\ Goto(c, "readcount")
    /\ UNCHANGED <<account_banned, ip_banned, account_logons, nkeys, history>>

CountFailure(c) ==
    LET u == sess[c].user IN
    /\ At(c, "count")
    /\ \/ /\ account' = [account EXCEPT ![u].failed_logins = @ + 1]
          /\ Goto(c, "readcount")
       \/ /\ DbFaults
          /\ GotoFailed(c, "readcount")
          /\ UNCHANGED account
    /\ UNCHANGED <<account_banned, ip_banned, account_logons, nkeys, history>>

\* Faulty variant: bans only when the counter is past the maximum.
ReadCount_OffByOne(c) ==
    /\ At(c, "readcount")
    /\ IF account[sess[c].user].failed_logins > MaxWrong THEN Goto(c, "ban") ELSE Return(c)
    /\ UNCHANGED <<db, nkeys, history>>

ReadCount(c) ==
    /\ At(c, "readcount")
    /\ \/ IF account[sess[c].user].failed_logins >= MaxWrong THEN Goto(c, "ban") ELSE Return(c)
       \/ DbFaults /\ Return(c)
    /\ UNCHANGED <<db, nkeys, history>>

BanKind == IF BanTime = 0 THEN "permanent" ELSE "temporary"

Ban(c) ==
    /\ At(c, "ban")
    /\ \/ IF BanAccount
          THEN /\ account_banned' = [account_banned EXCEPT ![sess[c].user] = @ \cup {BanKind}]
               /\ UNCHANGED ip_banned
          ELSE /\ ip_banned' = [ip_banned EXCEPT ![sess[c].ip] = @ \cup {BanKind}]
               /\ UNCHANGED account_banned
       \/ DbFaults /\ UNCHANGED <<account_banned, ip_banned>>
    /\ Return(c)
    /\ UNCHANGED <<account, account_logons, nkeys, history>>
-----------------------------------------------------------------------------
(* handle_reconnect_challenge, handle_reconnect_proof, handle_realm_list *)

\* Neither bans nor the IP lock are looked at on this path.
ReconnectChallenge(c, u, build) ==
    /\ At(c, "command")
    /\ sess[c].status = ExpectedStatus("ReconnectChallenge")
    /\ IF u \in LongNames
       THEN Close(c)
       ELSE sess' = [sess EXCEPT ![c].pc = "reconkey", ![c].status = "Closed",
                                 ![c].user = u, ![c].build = build, ![c].via = "reconnect",
                                 ![c].old = issued[u] \ KeysOf(account[u])]
    /\ UNCHANGED <<db, nkeys, history>>

\* Faulty variant: the key comes from a cache that logons do not refresh.
LoadKey_Cached(c) ==
    LET row == account[sess[c].user] IN
    /\ At(c, "reconkey")
    /\ \/ row = NoRow /\ Close(c)
       \/ /\ row # NoRow
          /\ \E k \in issued[sess[c].user] \cup {NoKey} : EnterWith(c, "send", "ReconProof", k)
    /\ UNCHANGED <<db, nkeys, history>>

LoadKey(c) ==
    LET row == account[sess[c].user] IN
    /\ At(c, "reconkey")
    /\ \/ (DbFaults \/ row = NoRow) /\ Close(c)
       \/ /\ row # NoRow
          /\ EnterWith(c, "send", "ReconProof", row.sessionkey)
    /\ UNCHANGED <<db, nkeys, history>>

\* The digest is compared with the one over the key read at the challenge.
ReconnectProof(c, matches) ==
    /\ At(c, "command")
    /\ sess[c].status = ExpectedStatus("ReconnectProof")
    /\ \/ (sess[c].k = NoKey \/ ~matches) /\ Close(c)
       \/ /\ sess[c].k # NoKey /\ matches
          /\ \E next \in {"sendrecon"} \cup (IF StrictVersion THEN {"send"} ELSE {}) :
                Enter(c, next, "Closed")
    /\ UNCHANGED <<db, nkeys, history>>

SendReconnect(c) ==
    /\ At(c, "sendrecon")
    /\ Enter(c, "command", "Authed")
    /\ UNCHANGED <<db, nkeys, history>>

RealmList(c) ==
    /\ At(c, "command")
    /\ sess[c].status = ExpectedStatus("RealmList")
    /\ Goto(c, "gmlevel")
    /\ UNCHANGED <<db, nkeys, history>>

\* The account's security level is read; the list itself is RealmList's.
ReadGmLevel(c) ==
    /\ At(c, "gmlevel")
    /\ \/ account[sess[c].user] # NoRow /\ Goto(c, "send")
       \/ (account[sess[c].user] = NoRow \/ DbFaults) /\ Close(c)
    /\ UNCHANGED <<db, nkeys, history>>
-----------------------------------------------------------------------------
(* The outside world: game masters ban accounts, and bans lapse. *)

GmBan(u, kind) ==
    /\ account[u] # NoRow
    /\ account_banned' = [account_banned EXCEPT ![u] = @ \cup {kind}]
    /\ UNCHANGED <<account, ip_banned, account_logons, sess, nkeys, history>>

AccountBanLapses(u) ==
    /\ "temporary" \in account_banned[u]
    /\ account_banned' = [account_banned EXCEPT ![u] = @ \ {"temporary"}]
    /\ sess' = [c \in Conns |-> IF sess[c].user = u /\ account_banned[u] = {"temporary"}
                                THEN [sess[c] EXCEPT !.acctClean = TRUE] ELSE sess[c]]
    /\ UNCHANGED <<account, ip_banned, account_logons, nkeys, history>>

IpBanLapses(i) ==
    /\ "temporary" \in ip_banned[i]
    /\ ip_banned' = [ip_banned EXCEPT ![i] = @ \ {"temporary"}]
    /\ sess' = [c \in Conns |-> IF sess[c].ip = i /\ ip_banned[i] = {"temporary"}
                                THEN [sess[c] EXCEPT !.ipClean = TRUE] ELSE sess[c]]
    /\ UNCHANGED <<account, account_banned, account_logons, nkeys, history>>

\* What the server does by itself once a command has been read.
Work(c) ==
    \/ CheckIpBan(c) \/ LookupAccount(c) \/ CheckAccountBan(c)
    \/ AutoCreateAccount(c) \/ Requery(c)
    \/ AuthenticatorToken(c) \/ StoreKey(c) \/ LogLogon(c)
    \/ CountFailure(c) \/ ReadCount(c) \/ Ban(c)
    \/ LoadKey(c) \/ ReadGmLevel(c)

Write(c) == Send(c) \/ SendProof(c) \/ SendFailure(c) \/ SendReconnect(c)

ClientStep(c) ==
    \/ \E ip \in IPs : Open(c, ip)
    \/ \E cmd \in Commands : Unexpected(c, cmd)
    \/ \E u \in Users, b \in Builds : LogonChallenge(c, u, b) \/ ReconnectChallenge(c, u, b)
    \/ \E p \in Passwords, f \in BOOLEAN : LogonProof(c, p, f)
    \/ \E m \in BOOLEAN : ReconnectProof(c, m)
    \/ RealmList(c)

Next ==
    \/ \E c \in Conns : ClientStep(c) \/ Work(c) \/ Write(c) \/ Drop(c)
    \/ \E u \in Users : AccountBanLapses(u) \/ \E kind \in GmBans : GmBan(u, kind)
    \/ \E i \in IPs : IpBanLapses(i)

Spec == Init /\ [][Next]_vars

\* The database answers, and every read and write of a session is under
\* timeout_duration, so a waiting session moves or is dropped.  No client has
\* to send anything.
FairSpec == Spec /\ \A c \in Conns : WF_vars(Work(c)) /\ WF_vars(Write(c) \/ Drop(c))
-----------------------------------------------------------------------------
TypeOK ==
    /\ account \in [Users -> Row \cup {NoRow}]
    /\ account_banned \in [Users -> SUBSET BanKinds]
    /\ ip_banned \in [IPs -> SUBSET BanKinds]
    /\ account_logons \subseteq Users \X Keys
    /\ sess \in [Conns -> Session]
    /\ nkeys \in 0..MaxKeys
    /\ issued \in [Users -> SUBSET Keys]
    /\ vetted \subseteq Keys

\* Unless one of its database writes failed, a client that was told of a
\* successful logon finds the key it negotiated in the account row and the
\* logon in account_logons, or a later logon has replaced the key: the writes
\* come before the answer, whatever other sessions do meanwhile.
SuccessIsOnRecord ==
    \A c \in Conns :
        sess[c].status = "Authed" /\ sess[c].via = "logon" /\ ~sess[c].fault =>
            /\ sess[c].k \in issued[sess[c].user]
            /\ <<sess[c].user, sess[c].k>> \in account_logons

\* A session is authenticated by reconnect only with a key that a logon stored
\* in that very account and that no other logon had replaced when the reconnect
\* challenge arrived: not with the empty key of an account nobody has logged on
\* to, and an old key is good only for the sessions that were challenged before
\* it was replaced.
ReconnectKeyIsCurrent ==
    \A c \in Conns :
        sess[c].status = "Authed" /\ sess[c].via = "reconnect" =>
            sess[c].k \in issued[sess[c].user] \ sess[c].old

\* A ban that was there before the client came keeps it out on both ways in.
\* A logon that gets past the challenge saw its account and its address free of
\* bans at some moment since the challenge arrived, or its ban query failed.  A
\* reconnect asks for no ban, but succeeds only with the key of a logon that
\* was let through like that.  (So a client that was let through before the ban
\* still finishes its logon and still reconnects.)
BannedStaysOut ==
    \A c \in Conns :
        /\ sess[c].status \in {"LogonProof", "Authed"} /\ sess[c].via = "logon" =>
              CameClean(sess[c])
        /\ sess[c].status = "Authed" /\ sess[c].via = "reconnect" =>
              sess[c].k \in vetted

\* An account whose counter has reached the maximum is banned, or a session
\* that counted a failure is still on its way to the ban: no interleaving of
\* UPDATE, SELECT and INSERT by several sessions loses it.  (Bans permanent,
\* of accounts, no failing writes.)
CounterLeadsToBan ==
    MaxWrong > 0 /\ BanAccount /\ BanTime = 0 /\ ~DbFaults =>
        \A u \in Users :
            account[u] # NoRow /\ account[u].failed_logins >= MaxWrong =>
                \/ account_banned[u] # {}
                \/ \E c \in Conns : sess[c].user = u /\ sess[c].pc \in {"readcount", "ban"}

\* The counter passes the maximum by no more than the sessions that were
\* already past the ban check: one wrong proof per challenge, and no challenge
\* after the ban.
GuessesBounded ==
    MaxWrong > 0 /\ BanAccount /\ BanTime = 0 /\ ~DbFaults =>
        \A u \in Users :
            account[u] # NoRow =>
                account[u].failed_logins <= MaxWrong + Cardinality(Conns) - 1

\* A session that is not authenticated comes to an end, or authenticates: no
\* client can hold a connection without a logon by keeping the server busy.
UnauthenticatedEnds ==
    \A c \in Conns :
        sess[c].pc # "none" /\ sess[c].status # "Authed"
            ~> sess[c].pc = "none" \/ sess[c].status = "Authed"

\* realmd.conf on AutoCreateAccounts: the password of the first logon becomes
\* the password of the account, so the session that made the account is not
\* told that its password is wrong.
FirstPasswordIsTheAccounts ==
    \A c \in Conns : sess[c].made => sess[c].pc # "sendfail"
=============================================================================
