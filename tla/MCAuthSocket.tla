---------------------------- MODULE MCAuthSocket ----------------------------
(* Instances of AuthSocket for TLC. *)
EXTENDS AuthSocket, TLC

CONSTANTS c1, c2, c3, i1, ann, pName, pOther

MCTwoConns == {c1, c2}
MCThreeConns == {c1, c2, c3}
MCOneIp == {i1}
MCOneUser == {ann}
MCPasswords == {pName, pOther}

\* Interchangeable connections; used where no liveness is checked.
MCSymmetry == Permutations(Conns)

RowOf(pw, lockedIp, token) ==
    [pw |-> pw, lockedIp |-> lockedIp, token |-> token, sessionkey |-> NoKey,
     failed_logins |-> 0]

\* Every user has an account with a password of its own.
MCPlainRows == {[u \in Users |-> RowOf(pOther, NoIp, FALSE)]}

MCNoRows == {[u \in Users |-> NoRow]}

\* No account, one with an authenticator, one locked to another address, one
\* with unreadable v/s values.
MCAllRows ==
    {[u \in Users |-> row] :
        row \in {NoRow, RowOf(pOther, NoIp, TRUE), RowOf(pOther, FarIp, FALSE),
                 RowOf(Broken, NoIp, FALSE)}}

MCTbcBuild == {8606}
MCBuilds == {7000, 8606}
MCNoBans == {}
MCTemporary == {"temporary"}
MCNoNames == {}
=============================================================================
