------------------------------ MODULE MCAccess ------------------------------
(* A small instance of users, companies and sessions for TLC. *)
EXTENDS Access, TLC

CONSTANTS r0, r1, r2, r3, u1, u2, k1, k2

ASSUME SeedConstants == r0 \in Req /\ u1 \in User /\ k1 \in Company

RequestSymmetry == Permutations(Req \ {r0})

(* From an empty database, or from an administrator with MFA who has logged in
   and chosen its company. *)
Chief == [role |-> "ADMIN", mustChange |-> FALSE, mfa |-> TRUE, secret |-> TRUE, pending |-> FALSE]
Signed == [role |-> "ADMIN", mustChange |-> FALSE, mfa |-> TRUE, select |-> FALSE]

Seeded ==
    /\ user = [u \in User |-> IF u = u1 THEN Chief ELSE None]
    /\ company = [k \in Company |-> IF k = k1 THEN TRUE ELSE None]
    /\ member = [u \in User |-> [k \in Company |->
                   IF u = u1 /\ k = k1 THEN [role |-> "ADMIN", default |-> TRUE] ELSE None]]
    /\ session = [r \in Req |-> IF r = r0 THEN NewSession(u1, Signed, None) ELSE None]
    /\ redis = {} /\ memory = {} /\ consumed = FALSE /\ restarts = 0
    /\ tx = [r \in Req |-> Blank(IF r = r0 THEN "done" ELSE "idle")]

-----------------------------------------------------------------------------
(* History: whether two requests were ever in flight together, whether a
   restart or a closed connection cut one, the sessions that a logout ended,
   those that a change of credentials ended, and how many administrators were
   bootstrapped. *)
VARIABLES overlapped, cutoff, out, ended, founders

history == <<overlapped, cutoff, out, ended, founders>>

HistoryInit == (Init \/ Seeded) /\ overlapped = FALSE /\ cutoff = FALSE /\ out = {} /\ ended = {} /\ founders = 0

Ending(op, label) == {r \in Req : tx[r].op = op /\ tx[r].pc = label /\ tx'[r].pc = "done" /\ restarts' = restarts}

(* The users whose credentials a request has just finished changing. *)
Renewed ==
    {tx[r].u : r \in Ending("PASSWORD", "session") \cup Ending("MFA", "session")}
    \cup {tx[r].put.at : r \in {q \in Ending("ADMIN", "answer") :
                                  tx[q].put.of = "reset" /\ <<user, session>>' # <<user, session>>}}

HistoryNext ==
    /\ Next
    /\ overlapped' = (overlapped \/ Cardinality(InFlight') > 1)
    /\ cutoff' = (cutoff \/ (restarts' # restarts /\ InFlight # {}) \/ \E r \in Req : tx'[r].pc = "cut")
    /\ out' = out \cup {tx[r].s : r \in Ending("LOGOUT", "deny")}
    /\ ended' = ended \cup {s \in Sessions : session[s].user \in Renewed}
    /\ founders' = founders + Cardinality({r \in Req : /\ tx[r].op = "BOOTSTRAP" /\ tx[r].pc = "user"
                                                       /\ tx'[r].pc = "consume"})

HistorySpec == HistoryInit /\ [][HistoryNext]_<<vars, history>>

Serial == ~overlapped /\ ~cutoff

(* When requests come one at a time, a session has at most one successor, and
   a session that was there when its user's password, MFA or an administrator's
   reset went through is not good any more and has no successor that is
   (rotateRefreshSession, revokeAllActiveRefreshSessions). *)
SerialSessionsEnd ==
    Serial => /\ \A s, t \in Sessions : session[s].parent = session[t].parent /\ session[s].parent # None => s = t
              /\ \A s \in Live : s \notin ended /\ session[s].parent \notin ended \cup Live

(* Whatever other requests do meanwhile, a logout that went through leaves
   neither token of its session good as long as the process runs: the session
   is ended and its id on a deny list (revokeSessionByAccessToken,
   blacklistSessionId, rotateRefreshSession). *)
LogoutIsFinal == restarts = 0 => \A s \in out : Denied(s) /\ s \notin Live

(* When requests come one at a time, no user has two default companies and
   only the first administrator is bootstrapped, also after a restart has
   forgotten that the token was used. *)
SerialAccounts ==
    Serial => founders <= 1 /\ \A u \in User : Cardinality(DefaultsOf(u)) <= 1

-----------------------------------------------------------------------------
(* The inductive invariant behind LogoutIsFinal. *)
LogoutInv ==
    /\ AccessInv
    /\ \A s \in out : Over(s) /\ s \notin Live /\ (restarts = 0 => Denied(s))

(* What a request that runs alone concluded from its reads is still true. *)
Current(t) ==
    /\ t.op = "REFRESH" /\ t.pc = "session" => t.s \in Live
    /\ t.op \in {"PASSWORD", "MFA"} /\ t.pc = "session" => LiveOf(t.u) = {}
    /\ t.op = "BOOTSTRAP" /\ t.pc = "user" => Users = {}
    /\ t.op = "ADMIN" /\ t.pc \in {"read", "answer"} => t.u \in Users
    /\ t.pc = "answer" /\ t.put.of = "reset" => LiveOf(t.put.at) \subseteq t.put.sessions
    /\ t.pc = "answer" /\ t.put.of = "user" =>
          /\ t.put.to = None => t.put.at # t.u
          /\ t.put.to # None => DOMAIN t.put.in = {} \/ t.put.at \notin Users

(* The sessions, when requests come one at a time. *)
SessionsInOrder ==
    /\ \A s, t \in Sessions : session[s].parent = session[t].parent /\ session[s].parent # None => s = t
    /\ \A s \in Sessions : /\ session[s].parent \notin Live
                           /\ session[s].parent \in Sessions =>
                                 session[session[s].parent].user = session[s].user
    /\ \A s \in Live : s \notin ended /\ session[s].parent \notin ended

(* The accounts, when requests come one at a time. *)
AccountsInOrder ==
    /\ founders = 0 \/ (founders = 1 /\ Users # {})
    /\ \A u \in User : \A j, k \in DefaultsOf(u) : j = k

(* The inductive invariant behind SerialSessionsEnd and SerialAccounts. *)
SerialInv ==
    /\ AccessInv
    /\ IsFiniteSet(InFlight) /\ overlapped \in BOOLEAN /\ cutoff \in BOOLEAN
    /\ \A s \in ended : Over(s)
    /\ Serial => /\ \A p, q \in InFlight : p = q
                 /\ \A r \in Req : Current(tx[r])
                 /\ SessionsInOrder /\ AccountsInOrder
=============================================================================
