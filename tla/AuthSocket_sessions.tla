------------------------ MODULE AuthSocket_sessions ------------------------
(***************************************************************************)
(* What holds of a session at each of its awaits, for any sessions,          *)
(* addresses, accounts and settings: which logon it is at and that its       *)
(* account exists; and that the tables keep their types and lose nothing.    *)
(* The first part says what every step does to the session that takes it:    *)
(* it closes, or moves to another await with another status and key, and     *)
(* remains who it was.                                                       *)
(*                                                                         *)
(* A handler is many steps long and every other session may run in between,  *)
(* so each property needs to be known at every await on the way to the       *)
(* status it speaks of.  The invariants say what holds at which await.       *)
(*                                                                         *)
(* The last part is about how a session comes to count a wrong proof.        *)
(***************************************************************************)
EXTENDS AuthSocket, TLAPS

SessTyped == sess \in [Conns -> Session]
OthersStay(c) == \A d \in Conns : d # c => sess'[d] = sess[d]

Closes(c) ==
    /\ SessTyped' /\ OthersStay(c)
    /\ sess'[c].pc = "none" /\ sess'[c].status = "Closed"

\* The session moves on to another await and remains who it was.
Moves(c, pc, st, k) ==
    /\ SessTyped' /\ OthersStay(c)
    /\ sess'[c].pc = pc /\ sess'[c].status = st /\ sess'[c].k = k
    /\ sess'[c].ip = sess[c].ip /\ sess'[c].user = sess[c].user /\ sess'[c].via = sess[c].via
    /\ sess'[c].old = sess[c].old
    /\ sess[c].fault => sess'[c].fault
    /\ sess[c].acctClean => sess'[c].acctClean
    /\ sess[c].ipClean => sess'[c].ipClean

\* A handler returns.
Returns(c) ==
    \/ sess[c].status = "Closed" /\ Closes(c)
    \/ sess[c].status # "Closed" /\ Moves(c, "command", sess[c].status, sess[c].k)

LEMMA NoSessionTyped == NoSession \in Session
  BY DEF NoSession, Session, PCs, Statuses, NoKey

LEMMA NamesTyped ==
    /\ {"none", "command", "ipban", "account", "accban", "create", "requery", "send",
        "token", "store", "log", "sendproof", "sendfail", "count", "readcount", "ban",
        "reconkey", "sendrecon", "gmlevel"} \subseteq PCs
    /\ {"Challenge", "LogonProof", "ReconProof", "Authed", "Closed"} \subseteq Statuses
  BY DEF PCs, Statuses

(* A session with one field set to another value of its type is a session. *)
LEMMA FieldTyped ==
    ASSUME NEW s \in Session
    PROVE  /\ \A x \in PCs : [s EXCEPT !.pc = x] \in Session
           /\ \A x \in Statuses : [s EXCEPT !.status = x] \in Session
           /\ \A x \in IPs \cup {NoIp} : [s EXCEPT !.ip = x] \in Session
           /\ \A x \in Users \cup {NoRow} : [s EXCEPT !.user = x] \in Session
           /\ \A x \in Builds \cup {0} : [s EXCEPT !.build = x] \in Session
           /\ \A x \in Passwords \cup {Broken} : [s EXCEPT !.v = x] \in Session
           /\ \A x \in BOOLEAN : [s EXCEPT !.token = x] \in Session
           /\ \A x \in Keys \cup {NoKey} : [s EXCEPT !.k = x] \in Session
           /\ \A x \in {"none", "logon", "reconnect"} : [s EXCEPT !.via = x] \in Session
           /\ \A x \in BOOLEAN : [s EXCEPT !.made = x] \in Session
           /\ \A x \in BOOLEAN : [s EXCEPT !.fault = x] \in Session
           /\ \A x \in BOOLEAN : [s EXCEPT !.acctClean = x] \in Session
           /\ \A x \in BOOLEAN : [s EXCEPT !.ipClean = x] \in Session
           /\ \A x \in SUBSET Keys : [s EXCEPT !.old = x] \in Session
  <1> USE DEF Session
  <1>1. \A x \in PCs : [s EXCEPT !.pc = x] \in Session
    OBVIOUS
  <1>2. \A x \in Statuses : [s EXCEPT !.status = x] \in Session
    OBVIOUS
  <1>3. \A x \in IPs \cup {NoIp} : [s EXCEPT !.ip = x] \in Session
    OBVIOUS
  <1>4. \A x \in Users \cup {NoRow} : [s EXCEPT !.user = x] \in Session
    OBVIOUS
  <1>5. \A x \in Builds \cup {0} : [s EXCEPT !.build = x] \in Session
    OBVIOUS
  <1>6. \A x \in Passwords \cup {Broken} : [s EXCEPT !.v = x] \in Session
    OBVIOUS
  <1>7. \A x \in BOOLEAN : [s EXCEPT !.token = x] \in Session
    OBVIOUS
  <1>8. \A x \in Keys \cup {NoKey} : [s EXCEPT !.k = x] \in Session
    OBVIOUS
  <1>9. \A x \in {"none", "logon", "reconnect"} : [s EXCEPT !.via = x] \in Session
    OBVIOUS
  <1>10. \A x \in BOOLEAN : [s EXCEPT !.made = x] \in Session
    OBVIOUS
  <1>11. \A x \in BOOLEAN : [s EXCEPT !.fault = x] \in Session
    OBVIOUS
  <1>12. \A x \in BOOLEAN : [s EXCEPT !.acctClean = x] \in Session
    OBVIOUS
  <1>13. \A x \in BOOLEAN : [s EXCEPT !.ipClean = x] \in Session
    OBVIOUS
  <1>14. \A x \in SUBSET Keys : [s EXCEPT !.old = x] \in Session
    OBVIOUS
  <1> HIDE DEF Session
  <1> QED
    BY <1>1, <1>2, <1>3, <1>4, <1>5, <1>6, <1>7, <1>8,
       <1>9, <1>10, <1>11, <1>12, <1>13, <1>14

LEMMA UpdateEffect ==
    ASSUME SessTyped, NEW c \in Conns, NEW s \in Session, sess' = [sess EXCEPT ![c] = s]
    PROVE  SessTyped' /\ OthersStay(c) /\ sess'[c] = s
  BY DEF SessTyped, OthersStay

LEMMA CloseEffect ==
    ASSUME SessTyped, NEW c \in Conns, Close(c)
    PROVE  Closes(c)
  <1>1. SessTyped' /\ OthersStay(c) /\ sess'[c] = NoSession
    BY NoSessionTyped DEF SessTyped, Close, OthersStay
  <1> QED
    BY <1>1 DEF Closes, NoSession

(* The updates of one session that the steps are made of. *)
LEMMA GotoEffect ==
    ASSUME SessTyped, NEW c \in Conns, NEW pc \in PCs, Goto(c, pc)
    PROVE  Moves(c, pc, sess[c].status, sess[c].k)
  <1> DEFINE s == [sess[c] EXCEPT !.pc = pc]
  <1>1. sess[c] \in Session
    BY DEF SessTyped
  <1>2. s \in Session
    BY <1>1, FieldTyped, Zenon
  <1>3. sess' = [sess EXCEPT ![c] = s]
    BY DEF SessTyped, Goto
  <1>4. /\ s.pc = pc /\ s.status = sess[c].status /\ s.k = sess[c].k
        /\ s.ip = sess[c].ip /\ s.user = sess[c].user /\ s.via = sess[c].via
        /\ s.old = sess[c].old
        /\ s.fault = sess[c].fault /\ s.acctClean = sess[c].acctClean /\ s.ipClean = sess[c].ipClean
    BY <1>1 DEF Session
  <1> HIDE DEF s
  <1>5. SessTyped' /\ OthersStay(c) /\ sess'[c] = s
    BY <1>2, <1>3, UpdateEffect, Zenon
  <1> QED
    BY <1>4, <1>5 DEF Moves

LEMMA GotoFailedEffect ==
    ASSUME SessTyped, NEW c \in Conns, NEW pc \in PCs, GotoFailed(c, pc)
    PROVE  Moves(c, pc, sess[c].status, sess[c].k) /\ sess'[c].fault
  <1> DEFINE s == [sess[c] EXCEPT !.pc = pc, !.fault = TRUE]
  <1>1. sess[c] \in Session
    BY DEF SessTyped
  <1>2. s \in Session
    BY <1>1, FieldTyped, Zenon
  <1>3. sess' = [sess EXCEPT ![c] = s]
    BY Zenon DEF SessTyped, GotoFailed
  <1>4. /\ s.pc = pc /\ s.status = sess[c].status /\ s.k = sess[c].k
        /\ s.ip = sess[c].ip /\ s.user = sess[c].user /\ s.via = sess[c].via
        /\ s.old = sess[c].old
        /\ s.fault /\ s.acctClean = sess[c].acctClean /\ s.ipClean = sess[c].ipClean
    BY <1>1 DEF Session
  <1> HIDE DEF s
  <1>5. SessTyped' /\ OthersStay(c) /\ sess'[c] = s
    BY <1>2, <1>3, UpdateEffect, Zenon
  <1> QED
    BY <1>4, <1>5 DEF Moves

LEMMA ReturnEffect ==
    ASSUME SessTyped, NEW c \in Conns, Return(c)
    PROVE  Returns(c)
  BY NamesTyped, CloseEffect, GotoEffect DEF Return, Returns

LEMMA EnterEffect ==
    ASSUME SessTyped, NEW c \in Conns, NEW pc \in PCs, NEW st \in Statuses,
           Enter(c, pc, st)
    PROVE  Moves(c, pc, st, sess[c].k)
  <1> DEFINE s == [sess[c] EXCEPT !.pc = pc, !.status = st]
  <1>1. sess[c] \in Session
    BY DEF SessTyped
  <1>2. s \in Session
    BY <1>1, FieldTyped, Zenon
  <1>3. sess' = [sess EXCEPT ![c] = s]
    BY Zenon DEF SessTyped, Enter
  <1>4. /\ s.pc = pc /\ s.status = st /\ s.k = sess[c].k
        /\ s.ip = sess[c].ip /\ s.user = sess[c].user /\ s.via = sess[c].via
        /\ s.old = sess[c].old
        /\ s.fault = sess[c].fault /\ s.acctClean = sess[c].acctClean /\ s.ipClean = sess[c].ipClean
    BY <1>1 DEF Session
  <1> HIDE DEF s
  <1>5. SessTyped' /\ OthersStay(c) /\ sess'[c] = s
    BY <1>2, <1>3, UpdateEffect, Zenon
  <1> QED
    BY <1>4, <1>5 DEF Moves

LEMMA EnterWithEffect ==
    ASSUME SessTyped, NEW c \in Conns, NEW pc \in PCs, NEW st \in Statuses,
           NEW k \in Keys \cup {NoKey},
           EnterWith(c, pc, st, k)
    PROVE  Moves(c, pc, st, k)
  <1> DEFINE s == [sess[c] EXCEPT !.pc = pc, !.status = st, !.k = k]
  <1>1. sess[c] \in Session
    BY DEF SessTyped
  <1>2. s \in Session
    BY <1>1, FieldTyped, Zenon
  <1>3. sess' = [sess EXCEPT ![c] = s]
    BY Zenon DEF SessTyped, EnterWith
  <1>4. /\ s.pc = pc /\ s.status = st /\ s.k = k
        /\ s.ip = sess[c].ip /\ s.user = sess[c].user /\ s.via = sess[c].via
        /\ s.old = sess[c].old
        /\ s.fault = sess[c].fault /\ s.acctClean = sess[c].acctClean /\ s.ipClean = sess[c].ipClean
    BY <1>1 DEF Session
  <1> HIDE DEF s
  <1>5. SessTyped' /\ OthersStay(c) /\ sess'[c] = s
    BY <1>2, <1>3, UpdateEffect, Zenon
  <1> QED
    BY <1>4, <1>5 DEF Moves

LEMMA RowTyped ==
    ASSUME NEW row \in Row
    PROVE  /\ row # NoRow
           /\ row.pw \in Passwords \cup {Broken} /\ row.token \in BOOLEAN
           /\ row.sessionkey \in Keys \cup {NoKey} /\ row.failed_logins \in 0..FailedCap
  <1>1. row # NoRow
    BY SettingsTyped
  <1>2. /\ row.pw \in Passwords \cup {Broken} /\ row.token \in BOOLEAN
        /\ row.sessionkey \in Keys \cup {NoKey} /\ row.failed_logins \in 0..FailedCap
    BY DEF Row
  <1> QED
    BY <1>1, <1>2

LEMMA NewRowTyped == NewRow \in Row
  BY SettingsTyped DEF Row, NewRow, NoKey
-----------------------------------------------------------------------------
(* The effect of every step on the session that takes it *)

LEMMA OpenStep ==
    ASSUME SessTyped, NEW c \in Conns, NEW ip \in IPs, Open(c, ip)
    PROVE  /\ SessTyped' /\ OthersStay(c)
           /\ sess'[c].pc = "command" /\ sess'[c].status = "Challenge" /\ sess'[c].ip = ip
  <1> DEFINE s == [sess[c] EXCEPT !.pc = "command", !.status = "Challenge", !.ip = ip]
  <1>1. sess[c] \in Session
    BY DEF SessTyped
  <1>2. s \in Session
    <2>1. "command" \in PCs /\ "Challenge" \in Statuses /\ ip \in IPs \cup {NoIp}
      BY NamesTyped
    <2> QED
      BY <1>1, <2>1, FieldTyped, Zenon
  <1>3. sess' = [sess EXCEPT ![c] = s]
    BY Zenon DEF SessTyped, Open
  <1>4. /\ s.pc = "command" /\ s.status = "Challenge" /\ s.ip = ip
    BY <1>1 DEF Session
  <1> HIDE DEF s
  <1>5. SessTyped' /\ OthersStay(c) /\ sess'[c] = s
    BY <1>2, <1>3, UpdateEffect, Zenon
  <1> QED
    BY <1>4, <1>5

LEMMA LogonChallengeStep ==
    ASSUME SessTyped, NEW c \in Conns, NEW u \in Users, NEW b \in Builds,
           LogonChallenge(c, u, b)
    PROVE  /\ SessTyped' /\ OthersStay(c)
           /\ sess'[c].pc = "ipban" /\ sess'[c].status = "Closed" /\ sess'[c].ip = sess[c].ip
           /\ sess'[c].user = u /\ sess'[c].via = "logon"
           /\ account_banned[u] = {} => sess'[c].acctClean
           /\ ip_banned[sess[c].ip] = {} => sess'[c].ipClean
  <1> DEFINE s == [sess[c] EXCEPT !.pc = "ipban", !.status = "Closed", !.user = u,
                                  !.build = b, !.via = "logon",
                                  !.acctClean = account_banned[u] = {},
                                  !.ipClean = ip_banned[sess[c].ip] = {}]
  <1>1. sess[c] \in Session
    BY DEF SessTyped
  <1>2. s \in Session
    <2>1. /\ "ipban" \in PCs /\ "Closed" \in Statuses
          /\ u \in Users \cup {NoRow} /\ b \in Builds \cup {0}
      BY NamesTyped
    <2>2. (account_banned[u] = {}) \in BOOLEAN /\ (ip_banned[sess[c].ip] = {}) \in BOOLEAN
      OBVIOUS
    <2>3. [sess[c] EXCEPT !.pc = "ipban", !.status = "Closed", !.user = u, !.build = b,
                          !.via = "logon"] \in Session
      BY <1>1, <2>1, FieldTyped, Zenon
    <2> QED
      BY <2>2, <2>3, FieldTyped, Zenon
  <1>3. sess' = [sess EXCEPT ![c] = s]
    BY Zenon DEF SessTyped, LogonChallenge
  <1>4. /\ s.pc = "ipban" /\ s.status = "Closed" /\ s.ip = sess[c].ip /\ s.user = u
        /\ s.via = "logon"
        /\ account_banned[u] = {} => s.acctClean
        /\ ip_banned[sess[c].ip] = {} => s.ipClean
    BY <1>1, Zenon DEF Session
  <1> HIDE DEF s
  <1>5. SessTyped' /\ OthersStay(c) /\ sess'[c] = s
    BY <1>2, <1>3, UpdateEffect, Zenon
  <1> QED
    BY <1>4, <1>5

LEMMA ReconnectChallengeStep ==
    ASSUME SessTyped, TypeOK, NEW c \in Conns, NEW u \in Users, NEW b \in Builds,
           ReconnectChallenge(c, u, b)
    PROVE  \/ Closes(c)
           \/ /\ SessTyped' /\ OthersStay(c)
              /\ sess'[c].pc = "reconkey" /\ sess'[c].status = "Closed" /\ sess'[c].ip = sess[c].ip
              /\ sess'[c].user = u /\ sess'[c].via = "reconnect"
              /\ sess'[c].old = issued[u] \ KeysOf(account[u])
  <1> DEFINE s == [sess[c] EXCEPT !.pc = "reconkey", !.status = "Closed", !.user = u,
                                  !.build = b, !.via = "reconnect",
                                  !.old = issued[u] \ KeysOf(account[u])]
  <1>0. CASE u \in LongNames
    BY <1>0, CloseEffect DEF ReconnectChallenge
  <1>1. sess[c] \in Session
    BY DEF SessTyped
  <1>2. s \in Session
    <2>1. /\ "reconkey" \in PCs /\ "Closed" \in Statuses
          /\ u \in Users \cup {NoRow} /\ b \in Builds \cup {0}
      BY NamesTyped
    <2>2. issued[u] \ KeysOf(account[u]) \in SUBSET Keys
      BY DEF TypeOK
    <2>3. [sess[c] EXCEPT !.pc = "reconkey", !.status = "Closed", !.user = u, !.build = b,
                          !.via = "reconnect"] \in Session
      BY <1>1, <2>1, FieldTyped, Zenon
    <2> QED
      BY <2>2, <2>3, FieldTyped, Zenon
  <1>3. u \notin LongNames => sess' = [sess EXCEPT ![c] = s]
    BY Zenon DEF SessTyped, ReconnectChallenge
  <1>4. /\ s.pc = "reconkey" /\ s.status = "Closed" /\ s.ip = sess[c].ip /\ s.user = u
        /\ s.via = "reconnect" /\ s.old = issued[u] \ KeysOf(account[u])
    BY <1>1 DEF Session
  <1> HIDE DEF s
  <1>5. u \notin LongNames => SessTyped' /\ OthersStay(c) /\ sess'[c] = s
    BY <1>2, <1>3, UpdateEffect
  <1> QED
    BY <1>0, <1>4, <1>5

LEMMA UnexpectedStep ==
    ASSUME SessTyped, NEW c \in Conns, NEW cmd, Unexpected(c, cmd)
    PROVE  Closes(c)
  BY CloseEffect DEF Unexpected

LEMMA DropStep ==
    ASSUME SessTyped, NEW c \in Conns, Drop(c)
    PROVE  Closes(c)
  BY CloseEffect DEF Drop

LEMMA SendStep ==
    ASSUME SessTyped, NEW c \in Conns, Send(c)
    PROVE  Returns(c)
  BY ReturnEffect DEF Send

LEMMA CheckIpBanStep ==
    ASSUME SessTyped, NEW c \in Conns, CheckIpBan(c)
    PROVE  \/ Moves(c, "send", sess[c].status, sess[c].k)
           \/ ip_banned[sess[c].ip] = {} /\ Moves(c, "account", sess[c].status, sess[c].k)
           \/ Moves(c, "account", sess[c].status, sess[c].k) /\ sess'[c].fault
  BY NamesTyped, GotoEffect, GotoFailedEffect DEF CheckIpBan

LEMMA LookupEffect ==
    ASSUME SessTyped, NEW c \in Conns, NEW v \in Passwords \cup {Broken}, NEW t \in BOOLEAN,
           sess' = [sess EXCEPT ![c].pc = "accban", ![c].v = v, ![c].token = t]
    PROVE  Moves(c, "accban", sess[c].status, sess[c].k)
  <1> DEFINE s == [sess[c] EXCEPT !.pc = "accban", !.v = v, !.token = t]
  <1>1. sess[c] \in Session
    BY DEF SessTyped
  <1>2. s \in Session
    <2>1. "accban" \in PCs
      BY NamesTyped
    <2> QED
      BY <1>1, <2>1, FieldTyped, Zenon
  <1>3. sess' = [sess EXCEPT ![c] = s]
    BY Zenon DEF SessTyped
  <1>4. /\ s.pc = "accban" /\ s.status = sess[c].status /\ s.k = sess[c].k
        /\ s.ip = sess[c].ip /\ s.user = sess[c].user /\ s.via = sess[c].via
        /\ s.old = sess[c].old
        /\ s.fault = sess[c].fault /\ s.acctClean = sess[c].acctClean /\ s.ipClean = sess[c].ipClean
    BY <1>1 DEF Session
  <1> HIDE DEF s
  <1>5. SessTyped' /\ OthersStay(c) /\ sess'[c] = s
    BY <1>2, <1>3, UpdateEffect, Zenon
  <1> QED
    BY <1>4, <1>5 DEF Moves

LEMMA LookupAccountStep ==
    ASSUME SessTyped, TypeOK, NEW c \in Conns, sess[c].user \in Users, LookupAccount(c)
    PROVE  \/ Closes(c)
           \/ Moves(c, "send", sess[c].status, sess[c].k)
           \/ account[sess[c].user] = NoRow /\ Moves(c, "create", sess[c].status, sess[c].k)
           \/ account[sess[c].user] # NoRow /\ Moves(c, "accban", sess[c].status, sess[c].k)
  <1> DEFINE row == account[sess[c].user]
  <1>1. CASE /\ row # NoRow
             /\ sess' = [sess EXCEPT ![c].pc = "accban", ![c].v = row.pw, ![c].token = row.token]
    <2>1. row \in Row
      BY <1>1 DEF TypeOK
    <2>2. row.pw \in Passwords \cup {Broken} /\ row.token \in BOOLEAN
      BY <2>1, RowTyped
    <2> QED
      BY <1>1, <2>2, LookupEffect, Zenon
  <1> QED
    BY <1>1, NamesTyped, CloseEffect, GotoEffect DEF LookupAccount

LEMMA BlindEffect ==
    ASSUME SessTyped, NEW c \in Conns,
           sess' = [sess EXCEPT ![c].pc = "send", ![c].status = "LogonProof", ![c].fault = TRUE]
    PROVE  Moves(c, "send", "LogonProof", sess[c].k) /\ sess'[c].fault
  <1> DEFINE s == [sess[c] EXCEPT !.pc = "send", !.status = "LogonProof",
                                  !.fault = TRUE]
  <1>1. sess[c] \in Session
    BY DEF SessTyped
  <1>2. s \in Session
    <2>1. "send" \in PCs /\ "LogonProof" \in Statuses
      BY NamesTyped
    <2> QED
      BY <1>1, <2>1, FieldTyped, Zenon
  <1>3. sess' = [sess EXCEPT ![c] = s]
    BY Zenon DEF SessTyped
  <1>4. /\ s.pc = "send" /\ s.status = "LogonProof" /\ s.k = sess[c].k
        /\ s.ip = sess[c].ip /\ s.user = sess[c].user /\ s.via = sess[c].via
        /\ s.old = sess[c].old
        /\ s.fault /\ s.acctClean = sess[c].acctClean /\ s.ipClean = sess[c].ipClean
    BY <1>1 DEF Session
  <1> HIDE DEF s
  <1>5. SessTyped' /\ OthersStay(c) /\ sess'[c] = s
    BY <1>2, <1>3, UpdateEffect, Zenon
  <1> QED
    BY <1>4, <1>5 DEF Moves

LEMMA CheckAccountBanStep ==
    ASSUME SessTyped, NEW c \in Conns, CheckAccountBan(c)
    PROVE  \/ Moves(c, "send", sess[c].status, sess[c].k)
           \/ account_banned[sess[c].user] = {} /\ Moves(c, "send", "LogonProof", sess[c].k)
           \/ DbFaults /\ Moves(c, "send", "LogonProof", sess[c].k) /\ sess'[c].fault
  BY NamesTyped, GotoEffect, EnterEffect, BlindEffect, Zenon DEF CheckAccountBan

LEMMA CreateEffect ==
    ASSUME SessTyped, NEW c \in Conns,
           sess' = [sess EXCEPT ![c].pc = "requery", ![c].made = TRUE]
    PROVE  Moves(c, "requery", sess[c].status, sess[c].k)
  <1> DEFINE s == [sess[c] EXCEPT !.pc = "requery", !.made = TRUE]
  <1>1. sess[c] \in Session
    BY DEF SessTyped
  <1>2. s \in Session
    <2>1. "requery" \in PCs
      BY NamesTyped
    <2> QED
      BY <1>1, <2>1, FieldTyped, Zenon
  <1>3. sess' = [sess EXCEPT ![c] = s]
    BY Zenon DEF SessTyped
  <1>4. /\ s.pc = "requery" /\ s.status = sess[c].status /\ s.k = sess[c].k
        /\ s.ip = sess[c].ip /\ s.user = sess[c].user /\ s.via = sess[c].via
        /\ s.old = sess[c].old
        /\ s.fault = sess[c].fault /\ s.acctClean = sess[c].acctClean /\ s.ipClean = sess[c].ipClean
    BY <1>1 DEF Session
  <1> HIDE DEF s
  <1>5. SessTyped' /\ OthersStay(c) /\ sess'[c] = s
    BY <1>2, <1>3, UpdateEffect, Zenon
  <1> QED
    BY <1>4, <1>5 DEF Moves

LEMMA AutoCreateAccountStep ==
    ASSUME SessTyped, NEW c \in Conns, AutoCreateAccount(c)
    PROVE  \/ account' = account /\ Moves(c, "send", sess[c].status, sess[c].k)
           \/ /\ account[sess[c].user] = NoRow
              /\ account' = [account EXCEPT ![sess[c].user] = NewRow]
              /\ Moves(c, "requery", sess[c].status, sess[c].k)
  BY NamesTyped, GotoEffect, CreateEffect DEF AutoCreateAccount

LEMMA RequeryEffect ==
    ASSUME SessTyped, NEW c \in Conns, NEW v \in Passwords \cup {Broken},
           sess' = [sess EXCEPT ![c].pc = "send", ![c].status = "LogonProof", ![c].v = v]
    PROVE  Moves(c, "send", "LogonProof", sess[c].k)
  <1> DEFINE s == [sess[c] EXCEPT !.pc = "send", !.status = "LogonProof", !.v = v]
  <1>1. sess[c] \in Session
    BY DEF SessTyped
  <1>2. s \in Session
    <2>1. "send" \in PCs /\ "LogonProof" \in Statuses
      BY NamesTyped
    <2> QED
      BY <1>1, <2>1, FieldTyped, Zenon
  <1>3. sess' = [sess EXCEPT ![c] = s]
    BY Zenon DEF SessTyped
  <1>4. /\ s.pc = "send" /\ s.status = "LogonProof" /\ s.k = sess[c].k
        /\ s.ip = sess[c].ip /\ s.user = sess[c].user /\ s.via = sess[c].via
        /\ s.old = sess[c].old
        /\ s.fault = sess[c].fault /\ s.acctClean = sess[c].acctClean /\ s.ipClean = sess[c].ipClean
    BY <1>1 DEF Session
  <1> HIDE DEF s
  <1>5. SessTyped' /\ OthersStay(c) /\ sess'[c] = s
    BY <1>2, <1>3, UpdateEffect, Zenon
  <1> QED
    BY <1>4, <1>5 DEF Moves

LEMMA RequeryStep ==
    ASSUME SessTyped, NEW c \in Conns, account[sess[c].user] \in Row, Requery(c)
    PROVE  Closes(c) \/ Moves(c, "send", "LogonProof", sess[c].k)
  <1> DEFINE row == account[sess[c].user]
  <1>1. CASE sess' = [sess EXCEPT ![c].pc = "send", ![c].status = "LogonProof", ![c].v = row.pw]
    <2>1. row.pw \in Passwords \cup {Broken}
      BY RowTyped
    <2> QED
      BY <1>1, <2>1, RequeryEffect, Zenon
  <1> QED
    BY <1>1, CloseEffect DEF Requery

LEMMA LogonProofStep ==
    ASSUME SessTyped, TypeOK, NEW c \in Conns, NEW p, NEW f, LogonProof(c, p, f)
    PROVE  \/ nkeys' = nkeys /\ Closes(c)
           \/ nkeys' = nkeys /\ Moves(c, "send", "Closed", sess[c].k)
           \/ nkeys' = nkeys /\ MayFail(sess[c].user) /\ Moves(c, "sendfail", "Closed", sess[c].k)
           \/ /\ nkeys' = nkeys + 1 /\ nkeys' \in Keys
              /\ \E next \in {"send", "token", "store"} : Moves(c, next, "Closed", nkeys')
  <1> DEFINE N == IF sess[c].build > 6141 /\ (f \/ sess[c].token)
                  THEN {"token"} ELSE AfterVersionCheck
  <1>1. N \subseteq {"send", "token", "store"}
    BY DEF AfterVersionCheck
  <1>2. \/ nkeys' = nkeys /\ Enter(c, "send", "Closed")
        \/ nkeys' = nkeys /\ MayFail(sess[c].user) /\ Enter(c, "sendfail", "Closed")
        \/ nkeys' = nkeys /\ Close(c)
        \/ /\ nkeys < MaxKeys /\ nkeys' = nkeys + 1
           /\ \E next \in N : EnterWith(c, next, "Closed", nkeys + 1)
    BY DEF LogonProof
  <1> HIDE DEF N
  <1>3. CASE nkeys' = nkeys /\ Enter(c, "send", "Closed")
    BY <1>3, NamesTyped, EnterEffect
  <1>4. CASE nkeys' = nkeys /\ MayFail(sess[c].user) /\ Enter(c, "sendfail", "Closed")
    BY <1>4, NamesTyped, EnterEffect
  <1>5. CASE nkeys' = nkeys /\ Close(c)
    BY <1>5, CloseEffect
  <1>6. CASE /\ nkeys < MaxKeys /\ nkeys' = nkeys + 1
             /\ \E next \in N : EnterWith(c, next, "Closed", nkeys + 1)
    <2>1. PICK next \in {"send", "token", "store"} : EnterWith(c, next, "Closed", nkeys + 1)
      BY <1>1, <1>6
    <2>2. nkeys + 1 \in Keys
      BY <1>6, SettingsTyped DEF TypeOK, Keys
    <2>3. Moves(c, next, "Closed", nkeys + 1)
      BY <2>1, <2>2, NamesTyped, EnterWithEffect
    <2> QED
      BY <1>6, <2>2, <2>3
  <1> QED
    BY <1>2, <1>3, <1>4, <1>5, <1>6

LEMMA AuthenticatorTokenStep ==
    ASSUME SessTyped, NEW c \in Conns, AuthenticatorToken(c)
    PROVE  \E next \in {"send", "store"} : Moves(c, next, sess[c].status, sess[c].k)
  BY NamesTyped, GotoEffect DEF AuthenticatorToken, AfterVersionCheck

LEMMA StoreKeyStep ==
    ASSUME SessTyped, NEW c \in Conns, StoreKey(c)
    PROVE  LET u == sess[c].user
           IN  \/ /\ account' = [account EXCEPT ![u].sessionkey = sess[c].k,
                                              ![u].failed_logins = 0]
                  /\ issued' = [issued EXCEPT ![u] = @ \cup {sess[c].k}]
                  /\ vetted' = IF CameClean(sess[c]) THEN vetted \cup {sess[c].k} ELSE vetted
                  /\ Moves(c, "log", sess[c].status, sess[c].k)
               \/ /\ account' = account /\ issued' = issued /\ vetted' = vetted
                  /\ Moves(c, "log", sess[c].status, sess[c].k) /\ sess'[c].fault
  BY NamesTyped, GotoEffect, GotoFailedEffect, Zenon DEF StoreKey, history

LEMMA LogLogonStep ==
    ASSUME SessTyped, NEW c \in Conns, LogLogon(c)
    PROVE  \/ /\ account_logons' = account_logons \cup {<<sess[c].user, sess[c].k>>}
              /\ Moves(c, "sendproof", sess[c].status, sess[c].k)
           \/ /\ account_logons' = account_logons
              /\ Moves(c, "sendproof", sess[c].status, sess[c].k) /\ sess'[c].fault
  BY NamesTyped, GotoEffect, GotoFailedEffect DEF LogLogon

LEMMA SendProofStep ==
    ASSUME SessTyped, NEW c \in Conns, SendProof(c)
    PROVE  Moves(c, "command", "Authed", sess[c].k)
  BY NamesTyped, EnterEffect DEF SendProof

LEMMA SendFailureStep ==
    ASSUME SessTyped, NEW c \in Conns, SendFailure(c)
    PROVE  IF MaxWrong = 0 THEN Returns(c) ELSE Moves(c, "count", sess[c].status, sess[c].k)
  BY NamesTyped, GotoEffect, ReturnEffect DEF SendFailure

LEMMA CountFailureStep ==
    ASSUME SessTyped, NEW c \in Conns, CountFailure(c)
    PROVE  LET u == sess[c].user
           IN  \/ account' = [account EXCEPT ![u].failed_logins = @ + 1] /\ Moves(c, "readcount", sess[c].status, sess[c].k)
               \/ DbFaults /\ account' = account /\ Moves(c, "readcount", sess[c].status, sess[c].k)
  BY NamesTyped, GotoEffect, GotoFailedEffect DEF CountFailure

LEMMA ReadCountStep ==
    ASSUME SessTyped, NEW c \in Conns, ReadCount(c)
    PROVE  \/ Moves(c, "ban", sess[c].status, sess[c].k)
           \/ (account[sess[c].user].failed_logins >= MaxWrong => DbFaults) /\ Returns(c)
  BY NamesTyped, GotoEffect, ReturnEffect DEF ReadCount

LEMMA BanStep ==
    ASSUME SessTyped, NEW c \in Conns, Ban(c)
    PROVE  Returns(c)
  BY ReturnEffect DEF Ban

LEMMA LoadKeyStep ==
    ASSUME SessTyped, TypeOK, NEW c \in Conns, sess[c].user \in Users, LoadKey(c)
    PROVE  \/ Closes(c)
           \/ LET row == account[sess[c].user]
              IN  row \in Row /\ Moves(c, "send", "ReconProof", row.sessionkey)
  <1> DEFINE row == account[sess[c].user]
  <1>1. CASE row # NoRow /\ EnterWith(c, "send", "ReconProof", row.sessionkey)
    <2>1. row \in Row
      BY <1>1 DEF TypeOK
    <2>2. row.sessionkey \in Keys \cup {NoKey}
      BY <2>1, RowTyped
    <2>3. "send" \in PCs /\ "ReconProof" \in Statuses
      BY NamesTyped
    <2> QED
      BY <1>1, <2>1, <2>2, <2>3, EnterWithEffect
  <1> QED
    BY <1>1, CloseEffect DEF LoadKey

LEMMA ReconnectProofStep ==
    ASSUME SessTyped, NEW c \in Conns, NEW m, ReconnectProof(c, m)
    PROVE  \/ Closes(c)
           \/ /\ sess[c].k # NoKey
              /\ \E next \in {"sendrecon", "send"} : Moves(c, next, "Closed", sess[c].k)
  BY NamesTyped, CloseEffect, EnterEffect DEF ReconnectProof

LEMMA SendReconnectStep ==
    ASSUME SessTyped, NEW c \in Conns, SendReconnect(c)
    PROVE  Moves(c, "command", "Authed", sess[c].k)
  BY NamesTyped, EnterEffect DEF SendReconnect

LEMMA RealmListStep ==
    ASSUME SessTyped, NEW c \in Conns, RealmList(c)
    PROVE  Moves(c, "gmlevel", sess[c].status, sess[c].k)
  BY NamesTyped, GotoEffect DEF RealmList

LEMMA ReadGmLevelStep ==
    ASSUME SessTyped, NEW c \in Conns, ReadGmLevel(c)
    PROVE  Closes(c) \/ Moves(c, "send", sess[c].status, sess[c].k)
  BY NamesTyped, GotoEffect, CloseEffect DEF ReadGmLevel
-----------------------------------------------------------------------------
(* Where a session is when it takes a step, and the variables the step leaves *)
(* alone                                                                      *)

LEMMA OpenFrame ==
    ASSUME NEW c \in Conns, NEW ip, Open(c, ip)
    PROVE  /\ sess[c].pc = "none"
           /\ UNCHANGED <<account, account_banned, ip_banned, account_logons, nkeys, issued, vetted>>
  BY DEF Open, At, db, history

LEMMA UnexpectedFrame ==
    ASSUME NEW c \in Conns, NEW cmd, Unexpected(c, cmd)
    PROVE  /\ sess[c].pc = "command"
           /\ UNCHANGED <<account, account_banned, ip_banned, account_logons, nkeys, issued, vetted>>
  BY DEF Unexpected, At, db, history

LEMMA LogonChallengeFrame ==
    ASSUME NEW c \in Conns, NEW u, NEW b, LogonChallenge(c, u, b)
    PROVE  /\ sess[c].pc = "command" /\ sess[c].status = "Challenge"
           /\ UNCHANGED <<account, account_banned, ip_banned, account_logons, nkeys, issued, vetted>>
  BY Zenon DEF LogonChallenge, At, ExpectedStatus, db, history

LEMMA ReconnectChallengeFrame ==
    ASSUME NEW c \in Conns, NEW u, NEW b, ReconnectChallenge(c, u, b)
    PROVE  /\ sess[c].pc = "command" /\ sess[c].status = "Challenge"
           /\ UNCHANGED <<account, account_banned, ip_banned, account_logons, nkeys, issued, vetted>>
  BY DEF ReconnectChallenge, At, ExpectedStatus, db, history

LEMMA LogonProofFrame ==
    ASSUME NEW c \in Conns, NEW p, NEW f, LogonProof(c, p, f)
    PROVE  /\ sess[c].pc = "command" /\ sess[c].status = "LogonProof"
           /\ UNCHANGED <<account, account_banned, ip_banned, account_logons, issued, vetted>>
  BY DEF LogonProof, At, ExpectedStatus, db, history

LEMMA ReconnectProofFrame ==
    ASSUME NEW c \in Conns, NEW m, ReconnectProof(c, m)
    PROVE  /\ sess[c].pc = "command" /\ sess[c].status = "ReconProof"
           /\ UNCHANGED <<account, account_banned, ip_banned, account_logons, nkeys, issued, vetted>>
  BY DEF ReconnectProof, At, ExpectedStatus, db, history

LEMMA RealmListFrame ==
    ASSUME NEW c \in Conns, RealmList(c)
    PROVE  /\ sess[c].pc = "command" /\ sess[c].status = "Authed"
           /\ UNCHANGED <<account, account_banned, ip_banned, account_logons, nkeys, issued, vetted>>
  BY DEF RealmList, At, ExpectedStatus, db, history

LEMMA CheckIpBanFrame ==
    ASSUME NEW c \in Conns, CheckIpBan(c)
    PROVE  /\ sess[c].pc = "ipban"
           /\ UNCHANGED <<account, account_banned, ip_banned, account_logons, nkeys, issued, vetted>>
  BY DEF CheckIpBan, At, db, history

LEMMA LookupAccountFrame ==
    ASSUME NEW c \in Conns, LookupAccount(c)
    PROVE  /\ sess[c].pc = "account"
           /\ UNCHANGED <<account, account_banned, ip_banned, account_logons, nkeys, issued, vetted>>
  BY DEF LookupAccount, At, db, history

LEMMA CheckAccountBanFrame ==
    ASSUME NEW c \in Conns, CheckAccountBan(c)
    PROVE  /\ sess[c].pc = "accban"
           /\ UNCHANGED <<account, account_banned, ip_banned, account_logons, nkeys, issued, vetted>>
  BY DEF CheckAccountBan, At, db, history

LEMMA AutoCreateAccountFrame ==
    ASSUME NEW c \in Conns, AutoCreateAccount(c)
    PROVE  /\ sess[c].pc = "create"
           /\ UNCHANGED <<account_banned, ip_banned, account_logons, nkeys, issued, vetted>>
  BY DEF AutoCreateAccount, At, db, history

LEMMA RequeryFrame ==
    ASSUME NEW c \in Conns, Requery(c)
    PROVE  /\ sess[c].pc = "requery"
           /\ UNCHANGED <<account, account_banned, ip_banned, account_logons, nkeys, issued, vetted>>
  BY DEF Requery, At, db, history

LEMMA AuthenticatorTokenFrame ==
    ASSUME NEW c \in Conns, AuthenticatorToken(c)
    PROVE  /\ sess[c].pc = "token"
           /\ UNCHANGED <<account, account_banned, ip_banned, account_logons, nkeys, issued, vetted>>
  BY DEF AuthenticatorToken, At, db, history

LEMMA StoreKeyFrame ==
    ASSUME NEW c \in Conns, StoreKey(c)
    PROVE  /\ sess[c].pc = "store"
           /\ UNCHANGED <<account_banned, ip_banned, account_logons, nkeys>>
  BY DEF StoreKey, At, db, history

LEMMA LogLogonFrame ==
    ASSUME NEW c \in Conns, LogLogon(c)
    PROVE  /\ sess[c].pc = "log"
           /\ UNCHANGED <<account, account_banned, ip_banned, nkeys, issued, vetted>>
  BY DEF LogLogon, At, db, history

LEMMA CountFailureFrame ==
    ASSUME NEW c \in Conns, CountFailure(c)
    PROVE  /\ sess[c].pc = "count"
           /\ UNCHANGED <<account_banned, ip_banned, account_logons, nkeys, issued, vetted>>
  BY DEF CountFailure, At, db, history

LEMMA ReadCountFrame ==
    ASSUME NEW c \in Conns, ReadCount(c)
    PROVE  /\ sess[c].pc = "readcount"
           /\ UNCHANGED <<account, account_banned, ip_banned, account_logons, nkeys, issued, vetted>>
  BY DEF ReadCount, At, db, history

LEMMA BanFrame ==
    ASSUME NEW c \in Conns, Ban(c)
    PROVE  /\ sess[c].pc = "ban"
           /\ UNCHANGED <<account, account_logons, nkeys, issued, vetted>>
  BY DEF Ban, At, db, history

LEMMA LoadKeyFrame ==
    ASSUME NEW c \in Conns, LoadKey(c)
    PROVE  /\ sess[c].pc = "reconkey"
           /\ UNCHANGED <<account, account_banned, ip_banned, account_logons, nkeys, issued, vetted>>
  BY DEF LoadKey, At, db, history

LEMMA ReadGmLevelFrame ==
    ASSUME NEW c \in Conns, ReadGmLevel(c)
    PROVE  /\ sess[c].pc = "gmlevel"
           /\ UNCHANGED <<account, account_banned, ip_banned, account_logons, nkeys, issued, vetted>>
  BY DEF ReadGmLevel, At, db, history

LEMMA SendFrame ==
    ASSUME NEW c \in Conns, Send(c)
    PROVE  /\ sess[c].pc = "send"
           /\ UNCHANGED <<account, account_banned, ip_banned, account_logons, nkeys, issued, vetted>>
  BY DEF Send, At, db, history

LEMMA SendProofFrame ==
    ASSUME NEW c \in Conns, SendProof(c)
    PROVE  /\ sess[c].pc = "sendproof"
           /\ UNCHANGED <<account, account_banned, ip_banned, account_logons, nkeys, issued, vetted>>
  BY DEF SendProof, At, db, history

LEMMA SendFailureFrame ==
    ASSUME NEW c \in Conns, SendFailure(c)
    PROVE  /\ sess[c].pc = "sendfail"
           /\ UNCHANGED <<account, account_banned, ip_banned, account_logons, nkeys, issued, vetted>>
  BY DEF SendFailure, At, db, history

LEMMA SendReconnectFrame ==
    ASSUME NEW c \in Conns, SendReconnect(c)
    PROVE  /\ sess[c].pc = "sendrecon"
           /\ UNCHANGED <<account, account_banned, ip_banned, account_logons, nkeys, issued, vetted>>
  BY DEF SendReconnect, At, db, history

LEMMA DropFrame ==
    ASSUME NEW c \in Conns, Drop(c)
    PROVE  /\ sess[c].pc \in {"command", "send", "sendfail", "sendproof", "sendrecon"}
           /\ UNCHANGED <<account, account_banned, ip_banned, account_logons, nkeys, issued, vetted>>
  BY DEF Drop, db, history
-----------------------------------------------------------------------------
(* What holds of a session at each of its awaits *)

\* The awaits of a logon, in groups, and of a reconnect.
Challenging == {"ipban", "account", "accban", "create", "requery"}
Proving == {"token", "store", "log", "sendproof"}
Failing == {"sendfail", "count", "readcount", "ban"}
Reconnecting == {"reconkey", "sendrecon"}

\* Past the ban checks of the challenge.
Challenged(s) == s.pc \in Proving \/ s.status = "LogonProof"
Accepted(s) == s.status = "Authed" /\ s.via = "logon"

\* The status is Closed while a handler works on a challenge or a proof, and
\* the await tells which kind of logon the session is at.
Control(s) ==
    /\ s.status # "Closed" => s.pc \in {"command", "send", "gmlevel"}
    /\ s.status = "Challenge" => s.pc = "command"
    /\ s.pc = "gmlevel" => s.status = "Authed"
    /\ s.pc # "none" => s.ip \in IPs
    /\ s.pc \in Challenging \cup Proving \cup Failing \/ s.status = "LogonProof"
          => s.via = "logon" /\ s.user \in Users
    /\ s.pc \in Reconnecting \/ s.status = "ReconProof"
          => s.via = "reconnect" /\ s.user \in Users
    /\ s.status = "Authed" => s.via \in {"logon", "reconnect"} /\ s.user \in Users
    /\ s.pc \in Proving \/ Accepted(s) => s.k \in Keys
ControlInv == \A c \in Conns : Control(sess[c])

\* A session past the lookup has an account, for rows are never deleted.
HasRow(s) ==
    s.pc \in {"accban", "requery"} \cup Failing \/ Challenged(s) => account[s.user] # NoRow
RowInv ==
    /\ \A u \in Users : account[u] = NoRow => account_banned[u] = {}
    /\ \A c \in Conns : HasRow(sess[c])

\* The model's bound leaves room for the failure that a session is to count.
CountFits ==
    \A c \in Conns : sess[c].pc = "count" => account[sess[c].user].failed_logins < FailedCap
-----------------------------------------------------------------------------
(* The tables *)

\* Rows, issued keys and logged logons are never lost.
Grows ==
    /\ \A u \in Users : account[u] # NoRow => account'[u] # NoRow
    /\ \A u \in Users : issued[u] \subseteq issued'[u]
    /\ account_logons \subseteq account_logons'
    /\ vetted \subseteq vetted'

TablesTyped ==
    /\ account \in [Users -> Row \cup {NoRow}]
    /\ account_banned \in [Users -> SUBSET BanKinds]
    /\ ip_banned \in [IPs -> SUBSET BanKinds]
    /\ account_logons \subseteq Users \X Keys
    /\ nkeys \in 0..MaxKeys
    /\ issued \in [Users -> SUBSET Keys]
    /\ vetted \subseteq Keys

(* One wrong proof more is counted, or the counter is cleared. *)
LEMMA RowChanged ==
    ASSUME TablesTyped, NEW u \in Users, account[u] \in Row, NEW row \in Row,
           account' = [account EXCEPT ![u] = row]
    PROVE  /\ account' \in [Users -> Row \cup {NoRow}]
           /\ account'[u] = row
           /\ \A x \in Users : x # u => account'[x] = account[x]
           /\ \A x \in Users : account[x] # NoRow => account'[x] # NoRow
  BY RowTyped DEF TablesTyped

LEMMA StoredRow ==
    ASSUME NEW row \in Row, NEW k \in Keys
    PROVE  /\ [row EXCEPT !.sessionkey = k, !.failed_logins = 0] \in Row
           /\ [row EXCEPT !.sessionkey = k, !.failed_logins = 0].sessionkey = k
           /\ [row EXCEPT !.sessionkey = k, !.failed_logins = 0].failed_logins = 0
  <1>1. [row EXCEPT !.sessionkey = k] \in Row
    BY DEF Row
  <1>2. 0 \in 0..FailedCap
    BY SettingsTyped
  <1> QED
    BY <1>1, <1>2, Zenon DEF Row

LEMMA CountedRow ==
    ASSUME NEW row \in Row, row.failed_logins < FailedCap
    PROVE  /\ [row EXCEPT !.failed_logins = @ + 1] \in Row
           /\ [row EXCEPT !.failed_logins = @ + 1].failed_logins = row.failed_logins + 1
           /\ [row EXCEPT !.failed_logins = @ + 1].sessionkey = row.sessionkey
  <1>1. row.failed_logins + 1 \in 0..FailedCap
    BY SettingsTyped, RowTyped
  <1> QED
    BY <1>1 DEF Row

LEMMA StoreKeyTables ==
    ASSUME TypeOK, ControlInv, RowInv, NEW c \in Conns, StoreKey(c)
    PROVE  LET u == sess[c].user IN
           /\ u \in Users /\ sess[c].k \in Keys
           /\ \/ /\ account' \in [Users -> Row \cup {NoRow}]
                 /\ account[u] # NoRow /\ account'[u] # NoRow
                 /\ account'[u].sessionkey = sess[c].k /\ account'[u].failed_logins = 0
                 /\ \A x \in Users : x # u => account'[x] = account[x]
                 /\ issued' = [issued EXCEPT ![u] = @ \cup {sess[c].k}]
                 /\ vetted' = IF CameClean(sess[c]) THEN vetted \cup {sess[c].k} ELSE vetted
              \/ account' = account /\ issued' = issued /\ vetted' = vetted /\ DbFaults
  <1> DEFINE u == sess[c].user
             row == [account[u] EXCEPT !.sessionkey = sess[c].k, !.failed_logins = 0]
  <1>1. u \in Users /\ sess[c].k \in Keys
    BY DEF StoreKey, At, ControlInv, Control, Proving
  <1>2. account[u] \in Row
    BY <1>1 DEF StoreKey, At, RowInv, HasRow, Challenged, Proving, TypeOK
  <1>3. row \in Row /\ row.sessionkey = sess[c].k /\ row.failed_logins = 0
    BY <1>1, <1>2, StoredRow, Zenon
  <1>4. TablesTyped
    BY DEF TypeOK, TablesTyped
  <1>5. CASE /\ account' = [account EXCEPT ![u].sessionkey = sess[c].k, ![u].failed_logins = 0]
             /\ issued' = [issued EXCEPT ![u] = @ \cup {sess[c].k}]
             /\ vetted' = IF CameClean(sess[c]) THEN vetted \cup {sess[c].k} ELSE vetted
    <2>1. account' = [account EXCEPT ![u] = row]
      BY <1>1, <1>5, Zenon DEF TypeOK
    <2> HIDE DEF row
    <2> QED
      BY <1>1, <1>2, <1>3, <1>4, <1>5, <2>1, RowChanged, RowTyped, Zenon
  <1> QED
    BY <1>1, <1>5, Zenon DEF StoreKey, history

LEMMA CountFailureTables ==
    ASSUME TypeOK, ControlInv, RowInv, CountFits, NEW c \in Conns, CountFailure(c)
    PROVE  LET u == sess[c].user IN
           /\ u \in Users
           /\ \/ /\ account' \in [Users -> Row \cup {NoRow}]
                 /\ account[u] # NoRow /\ account'[u] # NoRow
                 /\ account'[u].sessionkey = account[u].sessionkey
                 /\ account'[u].failed_logins = account[u].failed_logins + 1
                 /\ \A x \in Users : x # u => account'[x] = account[x]
              \/ account' = account /\ DbFaults
  <1> DEFINE u == sess[c].user
             row == [account[u] EXCEPT !.failed_logins = @ + 1]
  <1>1. u \in Users
    BY DEF CountFailure, At, ControlInv, Control, Failing
  <1>2. account[u] \in Row
    BY <1>1 DEF CountFailure, At, RowInv, HasRow, Failing, TypeOK
  <1>3. account[u].failed_logins < FailedCap
    BY DEF CountFailure, At, CountFits
  <1>4. /\ row \in Row /\ row.sessionkey = account[u].sessionkey
        /\ row.failed_logins = account[u].failed_logins + 1
    BY <1>2, <1>3, CountedRow
  <1>5. TablesTyped
    BY DEF TypeOK, TablesTyped
  <1>6. CASE account' = [account EXCEPT ![u].failed_logins = @ + 1]
    <2>1. account' = [account EXCEPT ![u] = row]
      BY <1>1, <1>6 DEF TypeOK
    <2> HIDE DEF row
    <2> QED
      BY <1>1, <1>2, <1>4, <1>5, <2>1, RowChanged, RowTyped, Zenon
  <1> QED
    BY <1>1, <1>6 DEF CountFailure

LEMMA AutoCreateTables ==
    ASSUME TypeOK, ControlInv, NEW c \in Conns, AutoCreateAccount(c)
    PROVE  LET u == sess[c].user IN
           /\ u \in Users
           /\ \/ /\ account' \in [Users -> Row \cup {NoRow}]
                 /\ account[u] = NoRow /\ account'[u] = NewRow /\ NewRow # NoRow
                 /\ \A x \in Users : x # u => account'[x] = account[x]
              \/ account' = account
  <1>1. sess[c].user \in Users
    BY DEF AutoCreateAccount, At, ControlInv, Control, Challenging
  <1>2. NewRow \in Row /\ NewRow # NoRow
    BY NewRowTyped, RowTyped
  <1> QED
    BY <1>1, <1>2 DEF AutoCreateAccount, TypeOK
-----------------------------------------------------------------------------
(* The sessions *)

StepOf(c) == ClientStep(c) \/ Work(c) \/ Write(c) \/ Drop(c)

\* A session that takes no step may only be seen free of bans.
Keeps(d) ==
    /\ sess'[d].pc = sess[d].pc /\ sess'[d].status = sess[d].status /\ sess'[d].k = sess[d].k
    /\ sess'[d].ip = sess[d].ip /\ sess'[d].user = sess[d].user /\ sess'[d].via = sess[d].via
    /\ sess'[d].fault = sess[d].fault /\ sess'[d].old = sess[d].old
    /\ sess[d].acctClean => sess'[d].acctClean
    /\ sess[d].ipClean => sess'[d].ipClean

LEMMA SessionsTyped == TypeOK => SessTyped
  BY DEF TypeOK, SessTyped

(* What the handlers take for granted about the account they work on. *)
LEMMA AccountOfSession ==
    ASSUME TypeOK, ControlInv, RowInv, NEW c \in Conns
    PROVE  /\ sess[c].pc \in {"account", "reconkey"} => sess[c].user \in Users
           /\ sess[c].pc = "requery" => account[sess[c].user] \in Row
  <1>1. sess[c].pc \in {"account", "reconkey", "requery"} => sess[c].user \in Users
    BY DEF ControlInv, Control, Challenging, Reconnecting
  <1>2. sess[c].pc = "requery" => account[sess[c].user] # NoRow
    BY DEF RowInv, HasRow
  <1> QED
    BY <1>1, <1>2 DEF TypeOK

(* A step of one session leaves the others alone. *)
LEMMA OneSession ==
    ASSUME TypeOK, ControlInv, RowInv, NEW c \in Conns, StepOf(c)
    PROVE  SessTyped' /\ OthersStay(c)
  <1> USE SessionsTyped
  <1>1. CASE \E ip \in IPs : Open(c, ip)
    BY <1>1, OpenStep
  <1>2. CASE \E cmd \in Commands : Unexpected(c, cmd)
    BY <1>2, UnexpectedStep DEF Closes
  <1>3. CASE \E u \in Users, b \in Builds : LogonChallenge(c, u, b)
    BY <1>3, LogonChallengeStep
  <1>4. CASE \E u \in Users, b \in Builds : ReconnectChallenge(c, u, b)
    BY <1>4, ReconnectChallengeStep DEF Closes
  <1>5. CASE \E p \in Passwords, f \in BOOLEAN : LogonProof(c, p, f)
    BY <1>5, LogonProofStep DEF Closes, Moves
  <1>6. CASE \E m \in BOOLEAN : ReconnectProof(c, m)
    BY <1>6, ReconnectProofStep DEF Closes, Moves
  <1>7. CASE RealmList(c)
    BY <1>7, RealmListStep DEF Moves
  <1>8. CASE CheckIpBan(c)
    BY <1>8, CheckIpBanStep DEF Moves
  <1>9. CASE LookupAccount(c)
    BY <1>9, LookupAccountStep, AccountOfSession, LookupAccountFrame DEF Closes, Moves
  <1>10. CASE CheckAccountBan(c)
    BY <1>10, CheckAccountBanStep DEF Moves
  <1>11. CASE AutoCreateAccount(c)
    BY <1>11, AutoCreateAccountStep DEF Moves
  <1>12. CASE Requery(c)
    BY <1>12, RequeryStep, AccountOfSession, RequeryFrame DEF Closes, Moves
  <1>13. CASE AuthenticatorToken(c)
    BY <1>13, AuthenticatorTokenStep DEF Moves
  <1>14. CASE StoreKey(c)
    BY <1>14, StoreKeyStep, Zenon DEF Moves
  <1>15. CASE LogLogon(c)
    BY <1>15, LogLogonStep DEF Moves
  <1>16. CASE CountFailure(c)
    BY <1>16, CountFailureStep, Zenon DEF Moves
  <1>17. CASE ReadCount(c)
    BY <1>17, ReadCountStep DEF Closes, Moves, Returns
  <1>18. CASE Ban(c)
    BY <1>18, BanStep DEF Closes, Moves, Returns
  <1>19. CASE LoadKey(c)
    BY <1>19, LoadKeyStep, AccountOfSession, LoadKeyFrame DEF Closes, Moves
  <1>20. CASE ReadGmLevel(c)
    BY <1>20, ReadGmLevelStep DEF Closes, Moves
  <1>21. CASE Send(c)
    BY <1>21, SendStep DEF Closes, Moves, Returns
  <1>22. CASE SendProof(c)
    BY <1>22, SendProofStep DEF Moves
  <1>23. CASE SendFailure(c)
    BY <1>23, SendFailureStep DEF Closes, Moves, Returns
  <1>24. CASE SendReconnect(c)
    BY <1>24, SendReconnectStep DEF Moves
  <1>25. CASE Drop(c)
    BY <1>25, DropStep DEF Closes
  <1> QED
    BY <1>1, <1>2, <1>3, <1>4, <1>5, <1>6, <1>7, <1>8, <1>9, <1>10, <1>11, <1>12,
       <1>13, <1>14, <1>15, <1>16, <1>17, <1>18, <1>19, <1>20, <1>21, <1>22, <1>23,
       <1>24, <1>25
    DEF StepOf, ClientStep, Work, Write

LEMMA ControlStep ==
    ASSUME TypeOK, ControlInv, RowInv, NEW c \in Conns, StepOf(c)
    PROVE  Control(sess'[c])
  <1> USE SessionsTyped
  <1>0. Control(sess[c])
    BY DEF ControlInv
  <1> USE <1>0 DEF Control, Challenging, Proving, Failing, Reconnecting, Accepted
  <1>1. CASE \E ip \in IPs : Open(c, ip)
    BY <1>1, OpenStep, OpenFrame
  <1>2. CASE \E cmd \in Commands : Unexpected(c, cmd)
    BY <1>2, UnexpectedStep, UnexpectedFrame DEF Closes
  <1>3. CASE \E u \in Users, b \in Builds : LogonChallenge(c, u, b)
    BY <1>3, LogonChallengeStep, LogonChallengeFrame
  <1>4. CASE \E u \in Users, b \in Builds : ReconnectChallenge(c, u, b)
    BY <1>4, ReconnectChallengeStep, ReconnectChallengeFrame DEF Closes
  <1>5. CASE \E p \in Passwords, f \in BOOLEAN : LogonProof(c, p, f)
    BY <1>5, LogonProofStep, LogonProofFrame DEF Closes, Moves
  <1>6. CASE \E m \in BOOLEAN : ReconnectProof(c, m)
    BY <1>6, ReconnectProofStep, ReconnectProofFrame DEF Closes, Moves
  <1>7. CASE RealmList(c)
    BY <1>7, RealmListStep, RealmListFrame DEF Moves
  <1>8. CASE CheckIpBan(c)
    BY <1>8, CheckIpBanStep, CheckIpBanFrame DEF Moves
  <1>9. CASE LookupAccount(c)
    BY <1>9, LookupAccountStep, AccountOfSession, LookupAccountFrame, Zenon DEF Closes, Moves
  <1>10. CASE CheckAccountBan(c)
    BY <1>10, CheckAccountBanStep, CheckAccountBanFrame DEF Moves
  <1>11. CASE AutoCreateAccount(c)
    BY <1>11, AutoCreateAccountStep, AutoCreateAccountFrame, Zenon DEF Moves
  <1>12. CASE Requery(c)
    BY <1>12, RequeryStep, AccountOfSession, RequeryFrame DEF Closes, Moves
  <1>13. CASE AuthenticatorToken(c)
    BY <1>13, AuthenticatorTokenStep, AuthenticatorTokenFrame DEF Moves
  <1>14. CASE StoreKey(c)
    BY <1>14, StoreKeyStep, StoreKeyFrame, Zenon DEF Moves
  <1>15. CASE LogLogon(c)
    BY <1>15, LogLogonStep, LogLogonFrame DEF Moves
  <1>16. CASE CountFailure(c)
    BY <1>16, CountFailureStep, CountFailureFrame, Zenon DEF Moves
  <1>17. CASE ReadCount(c)
    BY <1>17, ReadCountStep, ReadCountFrame DEF Closes, Moves, Returns
  <1>18. CASE Ban(c)
    BY <1>18, BanStep, BanFrame DEF Closes, Moves, Returns
  <1>19. CASE LoadKey(c)
    BY <1>19, LoadKeyStep, AccountOfSession, LoadKeyFrame DEF Closes, Moves
  <1>20. CASE ReadGmLevel(c)
    BY <1>20, ReadGmLevelStep, ReadGmLevelFrame DEF Closes, Moves
  <1>21. CASE Send(c)
    BY <1>21, SendStep, SendFrame DEF Closes, Moves, Returns
  <1>22. CASE SendProof(c)
    BY <1>22, SendProofStep, SendProofFrame DEF Moves
  <1>23. CASE SendFailure(c)
    BY <1>23, SendFailureStep, SendFailureFrame DEF Closes, Moves, Returns
  <1>24. CASE SendReconnect(c)
    BY <1>24, SendReconnectStep, SendReconnectFrame DEF Moves
  <1>25. CASE Drop(c)
    BY <1>25, DropStep, DropFrame DEF Closes
  <1> QED
    BY <1>1, <1>2, <1>3, <1>4, <1>5, <1>6, <1>7, <1>8, <1>9, <1>10, <1>11, <1>12, Zenon,
       <1>13, <1>14, <1>15, <1>16, <1>17, <1>18, <1>19, <1>20, <1>21, <1>22, <1>23,
       <1>24, <1>25
    DEF StepOf, ClientStep, Work, Write

LEMMA AccountBanLapsesStep ==
    ASSUME TypeOK, NEW u \in Users, AccountBanLapses(u)
    PROVE  /\ SessTyped' /\ \A d \in Conns : Keeps(d)
           /\ \A d \in Conns : /\ sess[d].user = u /\ account_banned[u] = {"temporary"}
                               => sess'[d].acctClean
  <1>0. sess' = [c \in Conns |-> sess'[c]]
    BY DEF AccountBanLapses
  <1> SUFFICES ASSUME NEW d \in Conns
               PROVE  /\ sess'[d] \in Session /\ Keeps(d)
                      /\ sess[d].user = u /\ account_banned[u] = {"temporary"}
                            => sess'[d].acctClean
    BY <1>0 DEF SessTyped
  <1>1. sess[d] \in Session /\ TRUE \in BOOLEAN
    BY DEF TypeOK
  <1>2. sess'[d] = IF sess[d].user = u /\ account_banned[u] = {"temporary"}
                   THEN [sess[d] EXCEPT !.acctClean = TRUE] ELSE sess[d]
    BY DEF AccountBanLapses
  <1>3. [sess[d] EXCEPT !.acctClean = TRUE] \in Session
    BY <1>1, FieldTyped, Zenon
  <1> QED
    BY <1>1, <1>2, <1>3 DEF Keeps, Session

LEMMA IpBanLapsesStep ==
    ASSUME TypeOK, NEW i \in IPs, IpBanLapses(i)
    PROVE  /\ SessTyped' /\ \A d \in Conns : Keeps(d)
           /\ \A d \in Conns : /\ sess[d].ip = i /\ ip_banned[i] = {"temporary"}
                               => sess'[d].ipClean
  <1>0. sess' = [c \in Conns |-> sess'[c]]
    BY DEF IpBanLapses
  <1> SUFFICES ASSUME NEW d \in Conns
               PROVE  /\ sess'[d] \in Session /\ Keeps(d)
                      /\ sess[d].ip = i /\ ip_banned[i] = {"temporary"} => sess'[d].ipClean
    BY <1>0 DEF SessTyped
  <1>1. sess[d] \in Session /\ TRUE \in BOOLEAN
    BY DEF TypeOK
  <1>2. sess'[d] = IF sess[d].ip = i /\ ip_banned[i] = {"temporary"}
                   THEN [sess[d] EXCEPT !.ipClean = TRUE] ELSE sess[d]
    BY DEF IpBanLapses
  <1>3. [sess[d] EXCEPT !.ipClean = TRUE] \in Session
    BY <1>1, FieldTyped, Zenon
  <1> QED
    BY <1>1, <1>2, <1>3 DEF Keeps, Session

(* Every step is one of a session, and the others wait, or one of the outside *)
(* world, and all wait.                                                       *)
LEMMA WhoMoves ==
    ASSUME TypeOK, ControlInv, RowInv, [Next]_vars
    PROVE  /\ SessTyped'
           /\ \A d \in Conns : Keeps(d) \/ StepOf(d)
           /\ \A c, d \in Conns : StepOf(c) /\ d # c => Keeps(d)
  <1>1. ASSUME NEW c \in Conns, StepOf(c)
        PROVE  SessTyped' /\ \A d \in Conns : d # c => Keeps(d)
    BY <1>1, OneSession DEF OthersStay, Keeps
  <1>2. ASSUME NEW u \in Users, NEW kind \in GmBans, GmBan(u, kind)
        PROVE  SessTyped' /\ \A d \in Conns : Keeps(d)
    BY <1>2 DEF GmBan, TypeOK, SessTyped, Keeps
  <1>3. CASE UNCHANGED vars
    BY <1>3, <1>1 DEF vars, TypeOK, SessTyped, Keeps
  <1> QED
    BY <1>1, <1>2, <1>3, AccountBanLapsesStep, IpBanLapsesStep DEF Next, StepOf

LEMMA ControlNext ==
    ASSUME TypeOK, ControlInv, RowInv, [Next]_vars
    PROVE  ControlInv'
  <1> SUFFICES ASSUME NEW d \in Conns PROVE Control(sess'[d])
    BY DEF ControlInv
  <1>1. CASE StepOf(d)
    BY <1>1, ControlStep
  <1>2. CASE Keeps(d)
    BY <1>2 DEF ControlInv, Control, Keeps, Accepted
  <1> QED
    BY <1>1, <1>2, WhoMoves
-----------------------------------------------------------------------------
(* The tables keep their types and lose nothing *)

(* Five steps of a session write to the database. *)
LEMMA WhoWrites ==
    ASSUME NEW c \in Conns, StepOf(c)
    PROVE  \/ UNCHANGED <<db, nkeys, history>>
           \/ \E p \in Passwords, f \in BOOLEAN : LogonProof(c, p, f)
           \/ AutoCreateAccount(c) \/ StoreKey(c) \/ LogLogon(c) \/ CountFailure(c) \/ Ban(c)
  <1>1. \/ \E ip \in IPs : Open(c, ip)
        \/ \E cmd \in Commands : Unexpected(c, cmd)
        \/ \E u \in Users, b \in Builds : LogonChallenge(c, u, b)
        \/ \E u \in Users, b \in Builds : ReconnectChallenge(c, u, b)
        \/ \E m \in BOOLEAN : ReconnectProof(c, m)
        \/ RealmList(c) \/ Drop(c)
        => UNCHANGED <<db, nkeys, history>>
    BY OpenFrame, UnexpectedFrame, LogonChallengeFrame, ReconnectChallengeFrame,
       ReconnectProofFrame, RealmListFrame, DropFrame DEF db, history
  <1>2. \/ CheckIpBan(c) \/ LookupAccount(c) \/ CheckAccountBan(c) \/ Requery(c)
        \/ AuthenticatorToken(c) \/ ReadCount(c) \/ LoadKey(c) \/ ReadGmLevel(c)
        => UNCHANGED <<db, nkeys, history>>
    BY CheckIpBanFrame, LookupAccountFrame, CheckAccountBanFrame, RequeryFrame, Zenon,
       AuthenticatorTokenFrame, ReadCountFrame, LoadKeyFrame, ReadGmLevelFrame DEF db, history
  <1>3. Write(c) => UNCHANGED <<db, nkeys, history>>
    BY SendFrame, SendProofFrame, SendFailureFrame, SendReconnectFrame DEF Write, db, history
  <1> QED
    BY <1>1, <1>2, <1>3 DEF StepOf, ClientStep, Work

LEMMA TablesNext ==
    ASSUME TypeOK, ControlInv, RowInv, CountFits, [Next]_vars
    PROVE  TablesTyped' /\ Grows
  <1>0. TablesTyped
    BY DEF TypeOK, TablesTyped
  <1>1. CASE UNCHANGED <<db, nkeys, history>>
    BY <1>0, <1>1 DEF db, history, TablesTyped, Grows
  <1>2. ASSUME NEW c \in Conns, NEW p, NEW f, LogonProof(c, p, f)
        PROVE  TablesTyped' /\ Grows
    <2>1. nkeys' \in 0..MaxKeys
      BY <1>0, <1>2, LogonProofStep, SettingsTyped DEF Keys, TypeOK, SessTyped
    <2> QED
      BY <1>0, <1>2, <2>1, LogonProofFrame DEF TablesTyped, Grows
  <1>3. ASSUME NEW c \in Conns, AutoCreateAccount(c)
        PROVE  TablesTyped' /\ Grows
    BY <1>0, <1>3, AutoCreateTables, AutoCreateAccountFrame DEF TablesTyped, Grows
  <1>4. ASSUME NEW c \in Conns, StoreKey(c)
        PROVE  TablesTyped' /\ Grows
    <2>1. account' \in [Users -> Row \cup {NoRow}]
      BY <1>0, <1>4, StoreKeyTables DEF TablesTyped
    <2>2. \A u \in Users : account[u] # NoRow => account'[u] # NoRow
      BY <1>4, StoreKeyTables
    <2>3. issued' \in [Users -> SUBSET Keys] /\ \A u \in Users : issued[u] \subseteq issued'[u]
      BY <1>0, <1>4, StoreKeyTables DEF TablesTyped
    <2>4. vetted' \subseteq Keys /\ vetted \subseteq vetted'
      BY <1>0, <1>4, StoreKeyTables DEF TablesTyped
    <2> QED
      BY <1>0, <1>4, <2>1, <2>2, <2>3, <2>4, StoreKeyFrame DEF TablesTyped, Grows
  <1>5. ASSUME NEW c \in Conns, LogLogon(c)
        PROVE  TablesTyped' /\ Grows
    <2>1. sess[c].user \in Users /\ sess[c].k \in Keys
      BY <1>5, LogLogonFrame DEF ControlInv, Control, Proving
    <2>2. /\ account_logons' \subseteq Users \X Keys
          /\ account_logons \subseteq account_logons'
      BY <1>0, <1>5, <2>1 DEF LogLogon, TablesTyped
    <2> QED
      BY <1>0, <1>5, <2>2, LogLogonFrame DEF TablesTyped, Grows
  <1>6. ASSUME NEW c \in Conns, CountFailure(c)
        PROVE  TablesTyped' /\ Grows
    BY <1>0, <1>6, CountFailureTables, CountFailureFrame DEF TablesTyped, Grows
  <1>7. ASSUME NEW c \in Conns, Ban(c)
        PROVE  TablesTyped' /\ Grows
    <2>1. sess[c].user \in Users /\ sess[c].ip \in IPs /\ BanKind \in BanKinds
      BY <1>7, BanFrame DEF ControlInv, Control, Failing, BanKind, BanKinds
    <2>2. /\ account_banned' \in [Users -> SUBSET BanKinds]
          /\ ip_banned' \in [IPs -> SUBSET BanKinds]
      BY <1>0, <1>7, <2>1 DEF Ban, TablesTyped
    <2> QED
      BY <1>0, <1>7, <2>2, BanFrame DEF TablesTyped, Grows
  <1>8. ASSUME NEW u \in Users, AccountBanLapses(u) \/ \E kind \in GmBans : GmBan(u, kind)
        PROVE  TablesTyped' /\ Grows
    BY <1>0, <1>8, SettingsTyped DEF AccountBanLapses, GmBan, history, TablesTyped, Grows, BanKinds
  <1>9. ASSUME NEW i \in IPs, IpBanLapses(i)
        PROVE  TablesTyped' /\ Grows
    BY <1>0, <1>9 DEF IpBanLapses, history, TablesTyped, Grows
  <1>10. ASSUME NEW c \in Conns, StepOf(c)
         PROVE  TablesTyped' /\ Grows
    BY <1>1, <1>2, <1>3, <1>4, <1>5, <1>6, <1>7, <1>10, WhoWrites
  <1> QED
    BY <1>1, <1>8, <1>9, <1>10 DEF Next, StepOf, vars, db, history

LEMMA TypeNext ==
    ASSUME TypeOK, ControlInv, RowInv, CountFits, [Next]_vars
    PROVE  TypeOK'
  BY TablesNext, WhoMoves DEF TypeOK, TablesTyped, SessTyped
-----------------------------------------------------------------------------
(* Sessions past the lookup have an account *)

LEMMA HasRowStep ==
    ASSUME TypeOK, ControlInv, RowInv, Grows, NEW c \in Conns, StepOf(c)
    PROVE  HasRow(sess[c])'
  <1> USE SessionsTyped
  <1>0. /\ Control(sess[c]) /\ HasRow(sess[c])
        /\ sess[c].user \in Users /\ account[sess[c].user] # NoRow
              => account'[sess[c].user] # NoRow
    BY DEF ControlInv, RowInv, Grows
  <1> USE <1>0 DEF Control, HasRow, Challenged, Challenging, Proving, Failing
  <1>1. CASE \E ip \in IPs : Open(c, ip)
    BY <1>1, OpenStep, OpenFrame
  <1>2. CASE \E cmd \in Commands : Unexpected(c, cmd)
    BY <1>2, UnexpectedStep, UnexpectedFrame, Zenon DEF Closes
  <1>3. CASE \E u \in Users, b \in Builds : LogonChallenge(c, u, b)
    BY <1>3, LogonChallengeStep, LogonChallengeFrame, Zenon
  <1>4. CASE \E u \in Users, b \in Builds : ReconnectChallenge(c, u, b)
    BY <1>4, ReconnectChallengeStep, ReconnectChallengeFrame DEF Closes
  <1>5. CASE \E p \in Passwords, f \in BOOLEAN : LogonProof(c, p, f)
    BY <1>5, LogonProofStep, LogonProofFrame, Zenon DEF Closes, Moves
  <1>6. CASE \E m \in BOOLEAN : ReconnectProof(c, m)
    BY <1>6, ReconnectProofStep, ReconnectProofFrame, Zenon DEF Closes, Moves
  <1>7. CASE RealmList(c)
    BY <1>7, RealmListStep, RealmListFrame DEF Moves
  <1>8. CASE CheckIpBan(c)
    BY <1>8, CheckIpBanStep, CheckIpBanFrame, Zenon DEF Moves
  <1>9. CASE LookupAccount(c)
    BY <1>9, LookupAccountStep, AccountOfSession, LookupAccountFrame, Zenon DEF Closes, Moves
  <1>10. CASE CheckAccountBan(c)
    BY <1>10, CheckAccountBanStep, CheckAccountBanFrame, Zenon DEF Moves
  <1>11. CASE AutoCreateAccount(c)
    <2>1. account' = [account EXCEPT ![sess[c].user] = NewRow] => account'[sess[c].user] # NoRow
      BY <1>11, AutoCreateTables, NewRowTyped, RowTyped, Zenon DEF TypeOK
    <2>2. sess'[c].pc = "requery" => account'[sess[c].user] # NoRow
      BY <1>11, <2>1, AutoCreateAccountStep, Zenon DEF Moves
    <2> QED
      BY <1>11, <2>2, AutoCreateAccountStep, AutoCreateAccountFrame, Zenon DEF Moves
  <1>12. CASE Requery(c)
    BY <1>12, RequeryStep, AccountOfSession, RequeryFrame, Zenon DEF Closes, Moves
  <1>13. CASE AuthenticatorToken(c)
    BY <1>13, AuthenticatorTokenStep, AuthenticatorTokenFrame DEF Moves
  <1>14. CASE StoreKey(c)
    BY <1>14, StoreKeyStep, StoreKeyFrame, Zenon DEF Moves
  <1>15. CASE LogLogon(c)
    BY <1>15, LogLogonStep, LogLogonFrame DEF Moves
  <1>16. CASE CountFailure(c)
    BY <1>16, CountFailureStep, CountFailureFrame, Zenon DEF Moves
  <1>17. CASE ReadCount(c)
    BY <1>17, ReadCountStep, ReadCountFrame, Zenon DEF Closes, Moves, Returns
  <1>18. CASE Ban(c)
    BY <1>18, BanStep, BanFrame DEF Closes, Moves, Returns
  <1>19. CASE LoadKey(c)
    BY <1>19, LoadKeyStep, AccountOfSession, LoadKeyFrame, Zenon DEF Closes, Moves
  <1>20. CASE ReadGmLevel(c)
    BY <1>20, ReadGmLevelStep, ReadGmLevelFrame, Zenon DEF Closes, Moves
  <1>21. CASE Send(c)
    BY <1>21, SendStep, SendFrame, Zenon DEF Closes, Moves, Returns
  <1>22. CASE SendProof(c)
    BY <1>22, SendProofStep, SendProofFrame, Zenon DEF Moves
  <1>23. CASE SendFailure(c)
    BY <1>23, SendFailureStep, SendFailureFrame, Zenon DEF Closes, Moves, Returns
  <1>24. CASE SendReconnect(c)
    BY <1>24, SendReconnectStep, SendReconnectFrame DEF Moves
  <1>25. CASE Drop(c)
    BY <1>25, DropStep, DropFrame DEF Closes
  <1> QED
    BY <1>1, <1>2, <1>3, <1>4, <1>5, <1>6, <1>7, <1>8, <1>9, <1>10, <1>11, <1>12, Zenon,
       <1>13, <1>14, <1>15, <1>16, <1>17, <1>18, <1>19, <1>20, <1>21, <1>22, <1>23,
       <1>24, <1>25
    DEF StepOf, ClientStep, Work, Write

LEMMA RowNext ==
    ASSUME TypeOK, ControlInv, RowInv, CountFits, [Next]_vars
    PROVE  RowInv'
  <1>0. Grows /\ TablesTyped'
    BY TablesNext
  <1>1. ASSUME NEW d \in Conns
        PROVE  HasRow(sess[d])'
    <2>1. CASE StepOf(d)
      BY <1>0, <2>1, HasRowStep
    <2>2. CASE Keeps(d)
      <3>1. Control(sess[d]) /\ HasRow(sess[d])
        BY DEF ControlInv, RowInv
      <3> QED
        BY <1>0, <2>2, <3>1
        DEF Keeps, Grows, HasRow, Control, Challenged, Challenging, Proving, Failing
    <2> QED
      BY <2>1, <2>2, WhoMoves
  <1>2. ASSUME NEW u \in Users, account'[u] = NoRow
        PROVE  account_banned'[u] = {}
    <2>1. account[u] = NoRow /\ account_banned[u] = {}
      BY <1>0, <1>2 DEF Grows, RowInv
    <2>2. ASSUME NEW c \in Conns, Ban(c)
          PROVE  account_banned'[u] = {}
      <3>1. sess[c].user # u
        BY <2>1, <2>2, BanFrame DEF RowInv, HasRow, Failing
      <3> QED
        BY <2>1, <2>2, <3>1 DEF Ban, TypeOK
    <2>3. ASSUME NEW c \in Conns, StepOf(c)
          PROVE  account_banned'[u] = {}
      BY <2>1, <2>2, <2>3, WhoWrites, LogonProofFrame, AutoCreateAccountFrame, StoreKeyFrame,
         LogLogonFrame, CountFailureFrame DEF db
    <2>4. ASSUME NEW v \in Users, AccountBanLapses(v) \/ \E kind \in GmBans : GmBan(v, kind)
          PROVE  account_banned'[u] = {}
      BY <2>1, <2>4 DEF AccountBanLapses, GmBan, TypeOK
    <2>5. ASSUME NEW i \in IPs, IpBanLapses(i)
          PROVE  account_banned'[u] = {}
      BY <2>1, <2>5 DEF IpBanLapses
    <2> QED
      BY <2>1, <2>3, <2>4, <2>5 DEF Next, StepOf, vars
  <1> QED
    BY <1>1, <1>2 DEF RowInv

-----------------------------------------------------------------------------
(* Wrong proofs *)

(* How a session gets to, and away from, the awaits of a wrong proof. *)
LEMMA CountingStep ==
    ASSUME TypeOK, ControlInv, RowInv, NEW c \in Conns, StepOf(c)
    PROVE  /\ sess'[c].pc \in Failing \cup {"requery"} \/ sess'[c].status = "LogonProof"
                 => sess'[c].user = sess[c].user
           /\ sess'[c].pc = "sendfail" => /\ sess[c].status = "LogonProof"
                                          /\ MayFail(sess[c].user) /\ account' = account
           /\ sess'[c].pc = "count" => sess[c].pc = "sendfail"
           /\ sess'[c].pc = "readcount" => CountFailure(c)
           /\ sess[c].pc = "count" => CountFailure(c) /\ sess'[c].pc = "readcount"
           /\ sess'[c].pc = "ban" => sess[c].pc = "readcount"
           /\ sess'[c].pc = "requery" => account[sess[c].user] = NoRow
           /\ sess'[c].status = "LogonProof" =>
                 \/ sess[c].status = "LogonProof" \/ sess[c].pc = "requery"
                 \/ account_banned[sess[c].user] = {} \/ DbFaults
           /\ sess[c].pc = "readcount" =>
                 \/ sess'[c].pc = "ban" /\ sess'[c].user = sess[c].user
                 \/ DbFaults \/ ~(account[sess[c].user].failed_logins >= MaxWrong)
           /\ sess[c].pc = "ban" => Ban(c) /\ sess'[c].pc = "none" /\ sess'[c].status = "Closed"
  <1> USE SessionsTyped DEF Failing
  <1>1. CASE \E ip \in IPs : Open(c, ip)
    BY <1>1, OpenStep, OpenFrame, Zenon
  <1>2. CASE \E cmd \in Commands : Unexpected(c, cmd)
    BY <1>2, UnexpectedStep, UnexpectedFrame, Zenon DEF Closes
  <1>3. CASE \E u \in Users, b \in Builds : LogonChallenge(c, u, b)
    BY <1>3, LogonChallengeStep, LogonChallengeFrame, Zenon
  <1>4. CASE \E u \in Users, b \in Builds : ReconnectChallenge(c, u, b)
    BY <1>4, ReconnectChallengeStep, ReconnectChallengeFrame, Zenon DEF Closes
  <1>5. CASE \E p \in Passwords, f \in BOOLEAN : LogonProof(c, p, f)
    BY <1>5, LogonProofStep, LogonProofFrame, Zenon DEF Closes, Moves
  <1>6. CASE \E m \in BOOLEAN : ReconnectProof(c, m)
    BY <1>6, ReconnectProofStep, ReconnectProofFrame, Zenon DEF Closes, Moves
  <1>7. CASE RealmList(c)
    BY <1>7, RealmListStep, RealmListFrame, Zenon DEF Moves
  <1>8. CASE CheckIpBan(c)
    BY <1>8, CheckIpBanStep, CheckIpBanFrame, Zenon DEF Moves
  <1>9. CASE LookupAccount(c)
    BY <1>9, LookupAccountStep, AccountOfSession, LookupAccountFrame, Zenon DEF Closes, Moves
  <1>10. CASE CheckAccountBan(c)
    BY <1>10, CheckAccountBanStep, CheckAccountBanFrame, Zenon DEF Moves
  <1>11. CASE AutoCreateAccount(c)
    BY <1>11, AutoCreateAccountStep, AutoCreateAccountFrame, Zenon DEF Moves
  <1>12. CASE Requery(c)
    BY <1>12, RequeryStep, AccountOfSession, RequeryFrame, Zenon DEF Closes, Moves
  <1>13. CASE AuthenticatorToken(c)
    BY <1>13, AuthenticatorTokenStep, AuthenticatorTokenFrame DEF Moves
  <1>14. CASE StoreKey(c)
    BY <1>14, StoreKeyStep, StoreKeyFrame, Zenon DEF Moves
  <1>15. CASE LogLogon(c)
    BY <1>15, LogLogonStep, LogLogonFrame, Zenon DEF Moves
  <1>16. CASE CountFailure(c)
    BY <1>16, CountFailureStep, CountFailureFrame, Zenon DEF Moves
  <1>17. CASE ReadCount(c)
    BY <1>17, ReadCountStep, ReadCountFrame, Zenon DEF Closes, Moves, Returns
  <1>18. CASE Ban(c)
    <2>1. sess[c].pc = "ban" /\ sess[c].status = "Closed"
      BY <1>18, BanFrame DEF ControlInv, Control
    <2> QED
      BY <1>18, <2>1, BanStep, Zenon DEF Closes, Returns
  <1>19. CASE LoadKey(c)
    BY <1>19, LoadKeyStep, AccountOfSession, LoadKeyFrame, Zenon DEF Closes, Moves
  <1>20. CASE ReadGmLevel(c)
    BY <1>20, ReadGmLevelStep, ReadGmLevelFrame, Zenon DEF Closes, Moves
  <1>21. CASE Send(c)
    BY <1>21, SendStep, SendFrame, Zenon DEF Closes, Moves, Returns
  <1>22. CASE SendProof(c)
    BY <1>22, SendProofStep, SendProofFrame DEF Moves
  <1>23. CASE SendFailure(c)
    BY <1>23, SendFailureStep, SendFailureFrame, Zenon DEF Closes, Moves, Returns
  <1>24. CASE SendReconnect(c)
    BY <1>24, SendReconnectStep, SendReconnectFrame, Zenon DEF Moves
  <1>25. CASE Drop(c)
    BY <1>25, DropStep, DropFrame DEF Closes
  <1> QED
    BY <1>1, <1>2, <1>3, <1>4, <1>5, <1>6, <1>7, <1>8, <1>9, <1>10, <1>11, <1>12, Zenon,
       <1>13, <1>14, <1>15, <1>16, <1>17, <1>18, <1>19, <1>20, <1>21, <1>22, <1>23,
       <1>24, <1>25
    DEF StepOf, ClientStep, Work, Write

(* What a step of a session does to the counter of an account. *)
LEMMA CounterStep ==
    ASSUME TypeOK, ControlInv, RowInv, CountFits, NEW c \in Conns, StepOf(c), NEW u \in Users
    PROVE  \/ account'[u] = account[u]
           \/ /\ AutoCreateAccount(c) /\ sess[c].user = u
              /\ account[u] = NoRow /\ account'[u].failed_logins = 0
           \/ account[u] # NoRow /\ StoreKey(c) /\ account'[u].failed_logins = 0
           \/ /\ CountFailure(c) /\ sess[c].user = u /\ account[u] # NoRow
              /\ account'[u].failed_logins = account[u].failed_logins + 1
  <1>1. CASE AutoCreateAccount(c)
    <2>1. NewRow.failed_logins = 0
      BY DEF NewRow
    <2>2. CASE account' = account
      BY <2>2
    <2>3. CASE account' # account
      BY <1>1, <2>1, <2>3, AutoCreateTables, Zenon
    <2> QED
      BY <2>2, <2>3
  <1>2. CASE StoreKey(c)
    BY <1>2, StoreKeyTables, Zenon
  <1>3. CASE CountFailure(c)
    BY <1>3, CountFailureTables, Zenon
  <1>4. CASE account' = account
    BY <1>4
  <1> QED
    BY <1>1, <1>2, <1>3, <1>4, WhoWrites, LogonProofFrame, LogLogonFrame, BanFrame, Zenon DEF db
=============================================================================
