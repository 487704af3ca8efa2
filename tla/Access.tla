------------------------------- MODULE Access -------------------------------
(***************************************************************************)
(* Users, companies, memberships and login sessions, and the two routers   *)
(* that change them: /api/auth and /api/admin.                             *)
(*                                                                         *)
(* Requests to /api/auth have no transaction of their own: each statement  *)
(* commits by itself, apart from the few that are grouped.  Requests to    *)
(* /api/admin run in a transaction as in Ledger.  Passwords and TOTP codes *)
(* match or not; a session stands for its two tokens, which a session      *)
(* shares with no other.                                                   *)
(***************************************************************************)
EXTENDS Integers, FiniteSets

CONSTANTS
    Req,          \* requests; a request names the session it makes
    User,         \* users there may be
    Company,      \* companies there may be
    Restarts,     \* bound: restarts of the process
    Concurrency,  \* bound: requests in flight at once
    None

(* Of the roles, one that administers and requires MFA and one that does not. *)
Role == {"ADMIN", "ACCOUNTANT"}

Op == {"LOGIN", "REGISTER", "BOOTSTRAP", "REFRESH", "LOGOUT", "PASSWORD", "MFA", "COMPANY",
       "SWITCH", "ADMIN"}
Running  == {"auth", "read", "user", "company", "session", "revoke", "deny", "consume", "answer"}
Finished == {"done", "cut"}

UserRow    == [role : Role, mustChange : BOOLEAN, mfa : BOOLEAN, secret : BOOLEAN, pending : BOOLEAN]
Claim      == [role : Role, mustChange : BOOLEAN, mfa : BOOLEAN, select : BOOLEAN]
SessionRow == [user : User, live : BOOLEAN, claims : Claim, parent : Req \cup {None}]
Membership == [role : Role, default : BOOLEAN]

ASSUME AccessConstants ==
    /\ Restarts \in Nat /\ Concurrency \in Nat \ {0}
    /\ None \notin Req \cup User \cup Company \cup BOOLEAN
    /\ None \notin UserRow \cup Claim \cup SessionRow \cup Membership

VARIABLES
    user,      \* User rows
    company,   \* Company rows: whether active
    member,    \* UserCompanyMembership rows
    session,   \* RefreshSession rows with the claims of their access tokens
    redis,     \* session ids on the shared deny list
    memory,    \* session ids on the process's own deny list
    consumed,  \* bootstrapTokenConsumed
    restarts,  \* restarts so far
    tx         \* the requests

rows == <<user, company, member, session>>
vars == <<rows, redis, memory, consumed, restarts, tx>>

-----------------------------------------------------------------------------
InFlight  == {r \in Req : tx[r].pc \in Running}
Users     == {u \in User : user[u] # None}
Companies == {k \in Company : company[k] # None}
Sessions  == {s \in Req : session[s] # None}
Live      == {s \in Sessions : session[s].live}

(* The active companies of u, and those that are its default. *)
ActiveOf(u)   == {k \in Companies : company[k] /\ member[u][k] # None}
DefaultsOf(u) == {k \in Company : member[u][k] # None /\ member[u][k].default}

isMfaRequiredRole(role) == role = "ADMIN"

(* buildTokens: what the access token of a new session says. *)
Claims(u, select) ==
    [role |-> user[u].role, mustChange |-> user[u].mustChange, mfa |-> user[u].mfa, select |-> select]

NewSession(u, claims, parent) == [user |-> u, live |-> TRUE, claims |-> claims, parent |-> parent]

(* The middlewares in front of every router but /api/auth, for the company k:
   selection, membership, password change and MFA enrolment. *)
Admitted(s, k) ==
    LET c == session[s].claims
        u == session[s].user
    IN  /\ ~c.select /\ ~c.mustChange
        /\ u \in Users /\ k \in ActiveOf(u)
        /\ isMfaRequiredRole(member[u][k].role) => c.mfa

requireGlobalAdmin(s) == session[s].claims.role = "ADMIN"

Blank(label) == [op |-> "LOGIN", pc |-> label, s |-> None, u |-> None, k |-> None, claims |-> None, put |-> None]

Init ==
    /\ user = [u \in User |-> None]
    /\ company = [k \in Company |-> None]
    /\ member = [u \in User |-> [k \in Company |-> None]]
    /\ session = [r \in Req |-> None]
    /\ redis = {} /\ memory = {} /\ consumed = FALSE /\ restarts = 0
    /\ tx = [r \in Req |-> Blank("idle")]

Denials == <<redis, memory>>
Other   == <<Denials, consumed, restarts>>

Goto(r, t) == tx' = [tx EXCEPT ![r] = t]
Step(r, t) == Goto(r, t) /\ UNCHANGED <<rows, Other>>
End(r)     == tx' = [tx EXCEPT ![r] = Blank("done")]
Reject(r)  == End(r) /\ UNCHANGED <<rows, Other>>

At(r, op, label) == tx[r].op = op /\ tx[r].pc = label

Start(r, t) ==
    /\ tx[r].pc = "idle" /\ Cardinality(InFlight) < Concurrency
    /\ Step(r, t)

-----------------------------------------------------------------------------
(* The deny list: the shared one when it answers, else the process's own. *)

blacklistSessionId(s) ==
    \/ redis' = redis \cup {s} /\ UNCHANGED memory
    \/ memory' = memory \cup {s} /\ UNCHANGED redis

(* What isSessionIdBlacklisted may say: the shared list may not answer. *)
MayPass(s) == s \notin memory
Denied(s)  == s \in redis \cup memory

(* The rows that the staged change of an administrator has locked. *)
Busy(f, x)       == \E q \in InFlight : tx[q].put # None /\ tx[q].put.of = f /\ tx[q].put.at = x
BusyUser(u)      == Busy("user", u) \/ Busy("reset", u)
BusySessions(ss) == \E q \in InFlight : /\ tx[q].put # None /\ tx[q].put.of = "reset"
                                        /\ tx[q].put.sessions \cap ss # {}

-----------------------------------------------------------------------------
(* Requests to /api/auth arrive; what one asks for is chosen where it is read. *)

Login(r) == Start(r, Blank("read"))

Register(r) == Start(r, [Blank("user") EXCEPT !.op = "REGISTER"])

Bootstrap(r) == Start(r, [Blank("read") EXCEPT !.op = "BOOTSTRAP"])

(* With the refresh token of a session. *)
Refresh(r) == Start(r, [Blank("read") EXCEPT !.op = "REFRESH"])

Logout(r) == Start(r, [Blank("revoke") EXCEPT !.op = "LOGOUT"])

(* With the access token of a session. *)
ChangePassword(r) == Start(r, [Blank("auth") EXCEPT !.op = "PASSWORD"])

Mfa(r) == Start(r, [Blank("auth") EXCEPT !.op = "MFA"])

OwnCompany(r) == Start(r, [Blank("auth") EXCEPT !.op = "COMPANY"])

SwitchCompany(r) == Start(r, [Blank("auth") EXCEPT !.op = "SWITCH"])

-----------------------------------------------------------------------------
(* Login, registration, bootstrap. *)

(* The user is read and password and code compared; then the session. *)
ReadLogin(r) ==
    /\ At(r, "LOGIN", "read")
    /\ \/ \E u \in Users :
            /\ isMfaRequiredRole(user[u].role) /\ user[u].mfa => user[u].secret
            /\ Step(r, [tx[r] EXCEPT !.pc = "session", !.u = u, !.claims = Claims(u, TRUE)])
       \/ Reject(r)

(* The email is unique; the new user is an accountant. *)
RegisterUser(r) ==
    /\ At(r, "REGISTER", "user")
    /\ \/ \E u \in User \ Users :
            /\ user' = [user EXCEPT ![u] = [role |-> "ACCOUNTANT", mustChange |-> FALSE, mfa |-> FALSE,
                                           secret |-> FALSE, pending |-> FALSE]]
            /\ Goto(r, [tx[r] EXCEPT !.pc = "session", !.u = u,
                          !.claims = [role |-> "ACCOUNTANT", mustChange |-> FALSE, mfa |-> FALSE,
                                      select |-> TRUE]])
            /\ UNCHANGED <<company, member, session, Other>>
       \/ Reject(r)

MayBootstrap == ~consumed /\ Users = {}

(* validateBootstrapAdminAccess and the count of users. *)
ReadBootstrap(r) ==
    /\ At(r, "BOOTSTRAP", "read")
    /\ \/ MayBootstrap /\ Step(r, [tx[r] EXCEPT !.pc = "user"])
       \/ Reject(r)

(* The first active company, or the default one, made or revived. *)
BootstrapUser(r) ==
    /\ At(r, "BOOTSTRAP", "user")
    /\ \/ \E u \in User \ Users, k \in Company :
            /\ user' = [user EXCEPT ![u] = [role |-> "ADMIN", mustChange |-> TRUE, mfa |-> FALSE,
                                           secret |-> FALSE, pending |-> FALSE]]
            /\ (\E j \in Companies : company[j]) => company[k] = TRUE
            /\ company' = [company EXCEPT ![k] = TRUE]
            /\ member' = [member EXCEPT ![u][k] = [role |-> "ADMIN", default |-> TRUE]]
            /\ Goto(r, [tx[r] EXCEPT !.pc = "consume"])
            /\ UNCHANGED <<session, Other>>
       \/ Reject(r)

ConsumeToken(r) ==
    /\ At(r, "BOOTSTRAP", "consume")
    /\ consumed' = TRUE
    /\ End(r) /\ UNCHANGED <<rows, Denials, restarts>>

(* issueLoginSession, of the user as it was read; it fails when the user is
   gone. *)
IssueSession(r) ==
    /\ tx[r].pc = "session" /\ tx[r].op # "REFRESH"
    /\ IF tx[r].u \in Users
       THEN /\ session' = [session EXCEPT ![r] = NewSession(tx[r].u, tx[r].claims, None)]
            /\ End(r) /\ UNCHANGED <<user, company, member, Other>>
       ELSE Reject(r)

-----------------------------------------------------------------------------
(* Refresh and logout. *)

ReadSession(r) ==
    /\ At(r, "REFRESH", "read")
    /\ \/ \E s \in Live :
            /\ MayPass(s)
            /\ Step(r, [tx[r] EXCEPT !.pc = "session", !.s = s, !.u = session[s].user,
                          !.claims = Claims(session[s].user, session[s].claims.select)])
       \/ Reject(r)

(* rotateRefreshSession: one transaction ends the old session and makes the
   new one, whatever became of the old one since it was read. *)
Rotate(r) ==
    /\ At(r, "REFRESH", "session") /\ ~BusySessions({tx[r].s})
    /\ IF tx[r].s \in Sessions
       THEN /\ session' = [session EXCEPT ![tx[r].s].live = FALSE,
                                          ![r] = NewSession(tx[r].u, tx[r].claims, tx[r].s)]
            /\ End(r) /\ UNCHANGED <<user, company, member, Other>>
       ELSE Reject(r)

RevokeSession(r) ==
    /\ At(r, "LOGOUT", "revoke")
    /\ \E s \in Sessions :
         /\ ~BusySessions({s})
         /\ session' = [session EXCEPT ![s].live = FALSE]
         /\ Goto(r, [tx[r] EXCEPT !.pc = "deny", !.s = s])
    /\ UNCHANGED <<user, company, member, Other>>

(* Fault: logout ends the refresh session and leaves the access token. *)
FaultyDenySession(r) == At(r, "LOGOUT", "deny") /\ Reject(r)

DenySession(r) ==
    /\ At(r, "LOGOUT", "deny")
    /\ blacklistSessionId(tx[r].s)
    /\ End(r) /\ UNCHANGED <<rows, consumed, restarts>>

-----------------------------------------------------------------------------
(* Requests of a user about itself. *)

(* authenticate: the token is on no list that answers; what it says is kept. *)
Authenticate(r) ==
    /\ tx[r].pc = "auth" /\ tx[r].op # "ADMIN"
    /\ \/ \E s \in Sessions :
            /\ MayPass(s)
            /\ Step(r, [tx[r] EXCEPT !.pc = "read", !.s = s, !.u = session[s].user,
                                     !.claims = session[s].claims])
       \/ Reject(r)

(* The user with a new password: not the old one, and the old one given. *)
UpdatePassword(r) ==
    /\ At(r, "PASSWORD", "read") /\ ~BusyUser(tx[r].u)
    /\ \/ /\ tx[r].u \in Users
          /\ user' = [user EXCEPT ![tx[r].u].mustChange = FALSE]
          /\ Goto(r, [tx[r] EXCEPT !.pc = "revoke",
                        !.claims = [Claims(tx[r].u, tx[r].claims.select)
                                      EXCEPT !.mustChange = FALSE]])
          /\ UNCHANGED <<company, member, session, Other>>
       \/ Reject(r)

(* setup leaves a secret to be verified. *)
SetupMfa(r) ==
    /\ At(r, "MFA", "read") /\ tx[r].u \in Users /\ ~BusyUser(tx[r].u)
    /\ user' = [user EXCEPT ![tx[r].u].pending = TRUE]
    /\ End(r) /\ UNCHANGED <<company, member, session, Other>>

(* The user's MFA is switched and the new session will say so. *)
MfaTo(r, on) ==
    /\ user' = [user EXCEPT ![tx[r].u].mfa = on, ![tx[r].u].secret = on, ![tx[r].u].pending = FALSE]
    /\ Goto(r, [tx[r] EXCEPT !.pc = "revoke",
                  !.claims = [Claims(tx[r].u, tx[r].claims.select) EXCEPT !.mfa = on]])
    /\ UNCHANGED <<company, member, session, Other>>

(* verify and disable need a code, and a role that requires MFA keeps it. *)
VerifyMfa(r) ==
    /\ At(r, "MFA", "read") /\ tx[r].u \in Users /\ ~BusyUser(tx[r].u)
    /\ user[tx[r].u].pending /\ MfaTo(r, TRUE)

DisableMfa(r) ==
    /\ At(r, "MFA", "read") /\ tx[r].u \in Users /\ ~BusyUser(tx[r].u)
    /\ ~isMfaRequiredRole(tx[r].claims.role)
    /\ user[tx[r].u].mfa /\ user[tx[r].u].secret /\ MfaTo(r, FALSE)

(* The user is gone, the code wrong, or there is nothing to do. *)
RefuseMfa(r) == At(r, "MFA", "read") /\ Reject(r)

LiveOf(u) == {s \in Live : session[s].user = u}

Revoked(ss) ==
    [s \in Req |-> IF s \in Sessions \cap ss THEN [session[s] EXCEPT !.live = FALSE] ELSE session[s]]

(* Fault: only the session the request came with is ended. *)
FaultyRevokeAll(r) ==
    /\ tx[r].op \in {"PASSWORD", "MFA"} /\ tx[r].pc = "revoke" /\ ~BusySessions({tx[r].s})
    /\ session' = IF tx[r].s \in Sessions THEN [session EXCEPT ![tx[r].s].live = FALSE] ELSE session
    /\ Goto(r, [tx[r] EXCEPT !.pc = "session"])
    /\ UNCHANGED <<user, company, member, Other>>

(* revokeAllActiveRefreshSessions, then a new session for this user. *)
RevokeAll(r) ==
    /\ tx[r].op \in {"PASSWORD", "MFA"} /\ tx[r].pc = "revoke" /\ ~BusySessions(LiveOf(tx[r].u))
    /\ session' = Revoked(LiveOf(tx[r].u))
    /\ Goto(r, [tx[r] EXCEPT !.pc = "session"])
    /\ UNCHANGED <<user, company, member, Other>>

(* Fault: the old default is kept. *)
FaultyWithDefault(ms, k, m) == [ms EXCEPT ![k] = m]

(* The memberships of a user once m is its default at k. *)
WithDefault(ms, k, m) ==
    [j \in Company |-> IF j = k THEN m
                       ELSE IF ms[j] # None THEN [ms[j] EXCEPT !.default = FALSE] ELSE None]

(* A company of one's own, with the user's role, as default; the code of a
   company is unique. *)
CreateOwnCompany(r) ==
    /\ At(r, "COMPANY", "read")
    /\ \/ \E k \in Company \ Companies :
            /\ tx[r].u \in Users
            /\ company' = [company EXCEPT ![k] = TRUE]
            /\ member' = [member EXCEPT ![tx[r].u] =
                            WithDefault(@, k, [role |-> user[tx[r].u].role, default |-> TRUE])]
            /\ Goto(r, [tx[r] EXCEPT !.pc = "session", !.claims = Claims(tx[r].u, FALSE)])
            /\ UNCHANGED <<user, session, Other>>
       \/ Reject(r)

(* resolveUserCompanyAccessContext finds the company; it may become the
   default. *)
ReadSwitch(r) ==
    /\ At(r, "SWITCH", "read")
    /\ \/ \E k \in ActiveOf(tx[r].u) :
            /\ tx[r].u \in Users
            /\ \/ Step(r, [tx[r] EXCEPT !.pc = "company", !.k = k, !.claims = Claims(tx[r].u, FALSE)])
               \/ Step(r, [tx[r] EXCEPT !.pc = "session", !.claims = Claims(tx[r].u, FALSE)])
       \/ Reject(r)

WriteSwitch(r) ==
    /\ At(r, "SWITCH", "company")
    /\ IF tx[r].k \in ActiveOf(tx[r].u)
       THEN /\ member' = [member EXCEPT ![tx[r].u] =
                            WithDefault(@, tx[r].k, [@[tx[r].k] EXCEPT !.default = TRUE])]
            /\ Goto(r, [tx[r] EXCEPT !.pc = "session"])
            /\ UNCHANGED <<user, company, session, Other>>
       ELSE Reject(r)

-----------------------------------------------------------------------------
(* Requests to /api/admin: checked, staged, committed. *)

AdminRequest(r) == Start(r, [Blank("auth") EXCEPT !.op = "ADMIN"])

AdmitAdmin(r) ==
    /\ At(r, "ADMIN", "auth")
    /\ \/ \E s \in Sessions, k \in Company :
            /\ MayPass(s) /\ Admitted(s, k) /\ requireGlobalAdmin(s)
            /\ Step(r, [tx[r] EXCEPT !.pc = "read", !.s = s, !.u = session[s].user])
       \/ Reject(r)

(* What an administrator may do to the rows, as a change to be committed:
   tables that are not named stay. *)
Stage(r, change) == Step(r, [tx[r] EXCEPT !.pc = "answer", !.put = change])

CompanyTo(r, k, to) == ~Busy("company", k) /\ Stage(r, [of |-> "company", at |-> k, to |-> to])

CreateCompany(r) ==
    /\ At(r, "ADMIN", "read")
    /\ \E k \in Company \ Companies, active \in BOOLEAN : CompanyTo(r, k, active)

ToggleCompany(r) ==
    /\ At(r, "ADMIN", "read")
    /\ \E k \in Companies : CompanyTo(r, k, ~company[k])

DeleteCompany(r) ==
    /\ At(r, "ADMIN", "read")
    /\ \E k \in Companies : CompanyTo(r, k, None)

(* A user made by an administrator has the memberships that were given, one of
   them the default; MFA may be switched on before there is a secret. *)
CreateUser(r) ==
    /\ At(r, "ADMIN", "read")
    /\ \E u \in User \ Users, role \in Role, must \in BOOLEAN, mfa \in BOOLEAN,
         ks \in SUBSET {k \in Companies : company[k]} :
         \E first \in ks, roles \in [ks -> Role] :
            /\ ~BusyUser(u)
            /\ Stage(r, [of |-> "user", at |-> u,
                         to |-> [role |-> role, mustChange |-> must, mfa |-> mfa,
                                 secret |-> FALSE, pending |-> FALSE], in |-> roles, first |-> first])

UpdateUser(r) ==
    /\ At(r, "ADMIN", "read")
    /\ \E u \in Users, role \in Role, must \in BOOLEAN, mfa \in BOOLEAN :
         /\ ~BusyUser(u)
         /\ Stage(r, [of |-> "user", at |-> u, in |-> <<>>, first |-> None,
                      to |-> [user[u] EXCEPT !.role = role, !.mustChange = must, !.mfa = mfa]])

(* The password, and an end to the sessions there are. *)
ResetPassword(r) ==
    /\ At(r, "ADMIN", "read")
    /\ \E u \in Users : /\ ~BusyUser(u) /\ ~BusySessions(LiveOf(u))
                        /\ Stage(r, [of |-> "reset", at |-> u, sessions |-> LiveOf(u)])

(* Nobody deletes itself. *)
DeleteUser(r) ==
    /\ At(r, "ADMIN", "read")
    /\ \E u \in Users \ {tx[r].u} : /\ ~BusyUser(u)
                                    /\ Stage(r, [of |-> "user", at |-> u, to |-> None, in |-> <<>>, first |-> None])

MemberTo(r, u, k, to) ==
    ~Busy("member", u) /\ Stage(r, [of |-> "member", at |-> u, in |-> k, to |-> to])

CreateMember(r) ==
    /\ At(r, "ADMIN", "read")
    /\ \E u \in Users, k \in Companies, m \in Membership :
         company[k] /\ member[u][k] = None /\ MemberTo(r, u, k, m)

UpdateMember(r) ==
    /\ At(r, "ADMIN", "read")
    /\ \E u \in Users, k \in Companies, m \in Membership :
         member[u][k] # None /\ MemberTo(r, u, k, m)

DeleteMember(r) ==
    /\ At(r, "ADMIN", "read")
    /\ \E u \in Users, k \in Companies : member[u][k] # None /\ MemberTo(r, u, k, None)

(* Nothing to change, a row that is taken or missing, or a reference. *)
RefuseChange(r) == At(r, "ADMIN", "read") /\ Reject(r)

NoMembers == [k \in Company |-> None]

(* A change reaches the tables.  Memberships go with their company or user,
   sessions with their user. *)
ApplyCompany(p) ==
    /\ company' = [company EXCEPT ![p.at] = p.to]
    /\ member' = IF p.to # None THEN member
                 ELSE [u \in User |-> [member[u] EXCEPT ![p.at] = None]]
    /\ UNCHANGED <<user, session>>

ApplyUser(p) ==
    /\ user' = [user EXCEPT ![p.at] = p.to]
    /\ member' = IF p.to = None THEN [member EXCEPT ![p.at] = NoMembers]
                 ELSE [member EXCEPT ![p.at] = [k \in Company |->
                         IF k \in DOMAIN p.in THEN [role |-> p.in[k], default |-> k = p.first]
                                              ELSE @[k]]]
    /\ session' = IF p.to # None THEN session
                  ELSE [s \in Req |-> IF s \in Sessions /\ session[s].user = p.at
                                      THEN None ELSE session[s]]
    /\ UNCHANGED company

ApplyReset(p) ==
    /\ user' = [user EXCEPT ![p.at] = IF @ = None THEN None ELSE [@ EXCEPT !.mustChange = TRUE]]
    /\ session' = Revoked(p.sessions)
    /\ UNCHANGED <<company, member>>

ApplyMember(p) ==
    /\ member' = IF p.at \notin Users \/ p.in \notin Companies THEN member
                 ELSE IF p.to # None /\ p.to.default
                 THEN [member EXCEPT ![p.at] = WithDefault(@, p.in, p.to)]
                 ELSE [member EXCEPT ![p.at][p.in] = p.to]
    /\ UNCHANGED <<user, company, session>>

ClearDefaults(p) ==
    /\ member' = [member EXCEPT ![p.at] = [k \in Company |->
                     IF @[k] = None THEN None ELSE [@[k] EXCEPT !.default = FALSE]]]
    /\ UNCHANGED <<user, company, session>>

Apply(p) ==
    CASE p.of = "company" -> ApplyCompany(p)
      [] p.of = "user"    -> ApplyUser(p)
      [] p.of = "reset"   -> ApplyReset(p)
      [] p.of = "member"  -> ApplyMember(p)
      [] p.of = "clear"   -> ClearDefaults(p)

CommitChange(r) ==
    /\ At(r, "ADMIN", "answer")
    /\ Apply(tx[r].put) /\ End(r) /\ UNCHANGED Other

(* What the first statement of a change has written: the user without its
   memberships, the password without the sessions, the row the new default
   replaces only cleared. *)
FirstWrite(p) ==
    CASE p.of = "user"  -> [p EXCEPT !.in = <<>>]
      [] p.of = "reset" -> [p EXCEPT !.sessions = {}]
      [] p.of = "member" /\ p.to # None /\ p.to.default -> [of |-> "clear", at |-> p.at]
      [] OTHER          -> p

(* The connection closes before the answer: what was written up to then is
   committed. *)
Disconnect(r) ==
    /\ At(r, "ADMIN", "answer")
    /\ Apply(FirstWrite(tx[r].put))
    /\ tx' = [tx EXCEPT ![r] = Blank("cut")] /\ UNCHANGED Other

(* The transaction of an administrator's request fails or meets its limit. *)
Abort(r) == r \in InFlight /\ tx[r].op = "ADMIN" /\ Reject(r)

-----------------------------------------------------------------------------
(* The process stops and starts: requests stop where they are, and what was
   only in memory is gone. *)
Restart ==
    /\ restarts < Restarts
    /\ restarts' = restarts + 1
    /\ tx' = [r \in Req |-> IF r \in InFlight THEN Blank("done") ELSE tx[r]]
    /\ memory' = {} /\ consumed' = FALSE
    /\ UNCHANGED <<rows, redis>>

Arrive(r) ==
    \/ Login(r) \/ Register(r) \/ Bootstrap(r) \/ Refresh(r) \/ Logout(r) \/ ChangePassword(r)
    \/ Mfa(r) \/ OwnCompany(r) \/ SwitchCompany(r) \/ AdminRequest(r)

Handle(r) ==
    \/ ReadLogin(r) \/ RegisterUser(r) \/ ReadBootstrap(r) \/ BootstrapUser(r) \/ ConsumeToken(r)
    \/ IssueSession(r) \/ ReadSession(r) \/ Rotate(r) \/ RevokeSession(r) \/ DenySession(r)
    \/ Authenticate(r) \/ UpdatePassword(r) \/ SetupMfa(r) \/ VerifyMfa(r)
    \/ DisableMfa(r) \/ RefuseMfa(r) \/ RevokeAll(r)
    \/ CreateOwnCompany(r) \/ ReadSwitch(r) \/ WriteSwitch(r)
    \/ AdmitAdmin(r) \/ CreateCompany(r) \/ ToggleCompany(r) \/ DeleteCompany(r)
    \/ CreateUser(r) \/ UpdateUser(r) \/ ResetPassword(r) \/ DeleteUser(r)
    \/ CreateMember(r) \/ UpdateMember(r) \/ DeleteMember(r) \/ RefuseChange(r)
    \/ CommitChange(r) \/ Disconnect(r) \/ Abort(r)

Next == Restart \/ \E r \in Req : Arrive(r) \/ Handle(r)

Spec == Init /\ [][Next]_vars

-----------------------------------------------------------------------------
(* What the properties rest on, whatever interleaves. *)

(* The changes an administrator may have staged. *)
Roles  == UNION {[ks -> Role] : ks \in SUBSET Company}
Change == [of : {"company"}, at : Company, to : BOOLEAN \cup {None}]
          \cup [of : {"user"}, at : User, to : UserRow \cup {None}, in : Roles, first : Company \cup {None}]
          \cup [of : {"reset"}, at : User, sessions : SUBSET Req]
          \cup [of : {"member"}, at : User, in : Company, to : Membership \cup {None}]

Request == [op : Op, pc : {"idle"} \cup Running \cup Finished, s : Req \cup {None},
            u : User \cup {None}, k : Company \cup {None}, claims : Claim \cup {None},
            put : Change \cup {None}]

TypeOK ==
    /\ user \in [User -> UserRow \cup {None}]
    /\ company \in [Company -> BOOLEAN \cup {None}]
    /\ member \in [User -> [Company -> Membership \cup {None}]]
    /\ session \in [Req -> SessionRow \cup {None}]
    /\ restarts \in Nat
    /\ tx \in [Req -> Request]

(* A request that has made its session, or never will. *)
Over(s) == s \in Req /\ tx[s].pc \in Finished

(* What a handler has read by the step it is at; it has no session yet. *)
WellFormed(r, t) ==
    /\ t.pc = "auth" => t.op \in {"PASSWORD", "MFA", "COMPANY", "SWITCH", "ADMIN"}
    /\ t.pc = "read" /\ t.op \in {"PASSWORD", "MFA"} => t.u \in User /\ t.claims \in Claim
    /\ t.pc = "read" /\ t.op \in {"COMPANY", "SWITCH", "ADMIN"} => t.u \in User
    /\ t.pc = "company" => t.op = "SWITCH" /\ t.u \in User /\ t.k \in Company /\ t.claims \in Claim
    /\ t.pc = "revoke" => t.op \in {"LOGOUT", "PASSWORD", "MFA"}
    /\ t.pc = "revoke" /\ t.op # "LOGOUT" => t.u \in User /\ t.claims \in Claim
    /\ t.pc = "session" => t.u \in User /\ t.claims \in Claim
    /\ t.pc = "session" /\ t.op = "REFRESH" =>
          Over(t.s) /\ (t.s \in Sessions => session[t.s].user = t.u)
    /\ t.pc = "deny" => t.op = "LOGOUT" /\ Over(t.s) /\ t.s \notin Live
    /\ t.pc = "answer" => t.op = "ADMIN" /\ t.put \in Change /\ t.u \in User
    /\ t.pc \in Running \cup {"idle"} => session[r] = None

AccessInv ==
    /\ TypeOK
    /\ \A r \in Req : WellFormed(r, tx[r])
    /\ \A s \in Sessions : /\ session[s].user \in Users
                           /\ session[s].parent # None => Over(session[s].parent)
    /\ \A u \in User \ Users : member[u] = NoMembers
=============================================================================
