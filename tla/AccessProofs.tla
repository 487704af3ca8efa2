---------------------------- MODULE AccessProofs ----------------------------
(***************************************************************************)
(* Proofs about users, companies, memberships and login sessions, for any  *)
(* set of requests, users and companies, any number of restarts and of     *)
(* requests in flight, from an empty database or from the seeded one.      *)
(***************************************************************************)
EXTENDS MCAccess, SumProofs

USE DEF Role, Op, Running, Finished

-----------------------------------------------------------------------------
(* What a step may do to the rows. *)

(* No session is made or revived but those of new; sessions and memberships
   belong to users there are. *)
RowsStay(new) ==
    /\ user' \in [User -> UserRow \cup {None}]
    /\ company' \in [Company -> BOOLEAN \cup {None}]
    /\ member' \in [User -> [Company -> Membership \cup {None}]]
    /\ session' \in [Req -> SessionRow \cup {None}]
    /\ \A s \in Req \ new : session'[s] # None =>
          /\ session[s] # None
          /\ session'[s].user = session[s].user /\ session'[s].parent = session[s].parent
          /\ session'[s].live => session[s].live
    /\ \A s \in Req : session'[s] # None => user'[session'[s].user] # None
    /\ \A u \in User : user'[u] = None => member'[u] = NoMembers

(* A step of r that keeps the invariant: r moves to a sound state, only r's
   session may be new, and deny lists only grow. *)
Sound(r) ==
    /\ tx' = [tx EXCEPT ![r] = tx'[r]] /\ tx'[r] \in Request
    /\ tx[r].pc \notin Finished
    /\ WellFormed(r, tx[r])'
    /\ RowsStay({r})
    /\ session'[r] # None =>
          tx'[r].pc \in Finished /\ (session'[r].parent # None => Over(session'[r].parent))
    /\ restarts' = restarts /\ redis \subseteq redis' /\ memory \subseteq memory'
    /\ tx[r].pc = "deny" => tx[r].s \in redis' \cup memory'

(* The invariant, spelt out. *)
LEMMA Facts ==
    ASSUME AccessInv
    PROVE  /\ TypeOK
           /\ \A r \in Req : tx[r] \in Request /\ WellFormed(r, tx[r])
           /\ \A s \in Req : session[s] # None =>
                 /\ session[s] \in SessionRow /\ session[s].user \in User
                 /\ user[session[s].user] # None
                 /\ session[s].parent # None => Over(session[s].parent)
           /\ \A u \in User : user[u] = None => member[u] = NoMembers
  <1>1. TypeOK /\ session \in [Req -> SessionRow \cup {None}] /\ tx \in [Req -> Request]
    BY DEF AccessInv, TypeOK
  <1>2. \A s \in Req : session[s] # None => session[s] \in SessionRow
    BY <1>1
  <1>3. \A s \in Req : session[s] # None => session[s].user \in User
    BY <1>2 DEF SessionRow
  <1>4. \A s \in Req : session[s] # None =>
           user[session[s].user] # None /\ (session[s].parent # None => Over(session[s].parent))
    <2> SUFFICES ASSUME NEW s \in Req, session[s] # None
                 PROVE  user[session[s].user] # None /\ (session[s].parent # None => Over(session[s].parent))
      OBVIOUS
    <2>1. s \in Sessions
      BY DEF Sessions
    <2>2. session[s].user \in Users /\ (session[s].parent # None => Over(session[s].parent))
      BY <2>1 DEF AccessInv
    <2> QED BY <2>2 DEF Users
  <1>5. \A u \in User : user[u] = None => member[u] = NoMembers
    BY DEF AccessInv, Users
  <1>6. \A r \in Req : tx[r] \in Request /\ WellFormed(r, tx[r])
    BY <1>1 DEF AccessInv
  <1> QED BY <1>1, <1>2, <1>3, <1>4, <1>5, <1>6

(* A request that is over stays over, and one that runs alone moves. *)
LEMMA OverStays ==
    ASSUME AccessInv, NEW r \in Req, tx' = [tx EXCEPT ![r] = tx'[r]], tx[r].pc \notin Finished
    PROVE  /\ \A q \in Req \ {r} : tx'[q] = tx[q]
           /\ \A s : Over(s) => s # r /\ Over(s)'
  <1>1. \A q \in Req \ {r} : tx'[q] = tx[q]
    BY Facts DEF TypeOK
  <1> QED BY <1>1 DEF Over

(* A sound step keeps the invariant. *)
LEMMA SoundKeeps ==
    ASSUME AccessInv, NEW r \in Req, Sound(r)
    PROVE  AccessInv'
  <1>1. /\ \A q \in Req \ {r} : tx'[q] = tx[q]
        /\ \A s : Over(s) => s # r /\ Over(s)'
    BY OverStays DEF Sound
  <1>2. TypeOK'
    <2>1. tx' \in [Req -> Request]
      BY Facts DEF Sound, TypeOK
    <2> QED BY <2>1, Facts DEF Sound, RowsStay, TypeOK
  <1>3. ASSUME NEW q \in Req PROVE WellFormed(q, tx[q])'
    <2>1. CASE q = r
      BY <2>1 DEF Sound
    <2>2. CASE q # r
      <3>1. WellFormed(q, tx[q]) /\ tx'[q] = tx[q]
        BY <1>1, <2>2, Facts
      <3>2. \A s : Over(s) => /\ Over(s)'
                              /\ s \in Sessions' => s \in Sessions /\ session'[s].user = session[s].user
                              /\ s \notin Live => s \notin Live'
        BY <1>1 DEF Sound, RowsStay, Over, Sessions, Live
      <3>3. session[q] = None => session'[q] = None
        BY <2>2 DEF Sound, RowsStay
      <3> QED BY <3>1, <3>2, <3>3 DEF WellFormed
    <2> QED BY <2>1, <2>2
  <1>4. ASSUME NEW s \in Sessions'
        PROVE  session'[s].user \in Users' /\ (session'[s].parent # None => Over(session[s].parent)')
    <2>1. s \in Req /\ session'[s] # None /\ session'[s] \in SessionRow
      BY DEF Sessions, Sound, RowsStay
    <2>2. session'[s].user \in Users'
      BY <2>1 DEF Sound, RowsStay, Users, SessionRow
    <2>3. session'[s].parent # None => Over(session'[s].parent)
      <3>1. CASE s = r
        BY <2>1, <3>1 DEF Sound
      <3>2. CASE s # r
        BY <2>1, <3>2, Facts DEF Sound, RowsStay
      <3> QED BY <3>1, <3>2
    <2> QED BY <1>1, <2>2, <2>3
  <1>5. \A u \in User : u \notin Users' => member'[u] = NoMembers
    BY DEF Sound, RowsStay, Users
  <1>6. NoMembers' = NoMembers
    BY DEF NoMembers
  <1>7. \A u \in (User \ Users)' : (member[u] = NoMembers)'
    BY <1>5, <1>6
  <1> QED BY <1>2, <1>3, <1>4, <1>7 DEF AccessInv

-----------------------------------------------------------------------------
(* Steps that leave the rows alone. *)

(* Rows that do not change are kept. *)
LEMMA RowsSame ==
    ASSUME AccessInv, UNCHANGED rows
    PROVE  RowsStay({})
  BY Facts DEF RowsStay, rows, TypeOK

(* r moves to t, with the rows as RowsStay allows. *)
LEMMA MoveSound ==
    ASSUME AccessInv, NEW r \in Req, NEW t \in Request, tx' = [tx EXCEPT ![r] = t],
           tx[r].pc \notin Finished, tx[r].pc # "deny", RowsStay({}), WellFormed(r, t),
           UNCHANGED <<Denials, restarts>>
    PROVE  Sound(r)
  <1>1. tx'[r] = t /\ tx' = [tx EXCEPT ![r] = tx'[r]] /\ session[r] = None
    BY Facts DEF TypeOK, WellFormed, Request
  <1>2. \A s : Over(s) => s # r /\ Over(s)'
    BY <1>1, OverStays
  <1>3. session'[r] = None
    BY <1>1 DEF RowsStay
  <1>4. WellFormed(r, tx[r])'
    <2>1. \A s : Over(s) => /\ Over(s)'
                            /\ s \in Sessions' => s \in Sessions /\ session'[s].user = session[s].user
                            /\ s \notin Live => s \notin Live'
      BY <1>2 DEF RowsStay, Over, Sessions, Live
    <2> QED BY <1>1, <1>3, <2>1 DEF WellFormed
  <1>5. RowsStay({r})
    BY DEF RowsStay
  <1> QED BY <1>1, <1>3, <1>4, <1>5 DEF Sound, Denials

(* A step that moves only the request is sound. *)
LEMMA StepSound ==
    ASSUME AccessInv, NEW r \in Req, NEW t \in Request, Step(r, t),
           tx[r].pc \notin Finished, tx[r].pc # "deny", WellFormed(r, t)
    PROVE  Sound(r)
  BY RowsSame, MoveSound DEF Step, Goto, Other

(* A request that is over holds nothing. *)
LEMMA BlankFormed ==
    ASSUME AccessInv, NEW r \in Req, NEW label \in {"done", "cut"}
    PROVE  Blank(label) \in Request /\ WellFormed(r, Blank(label))
  BY DEF Blank, Request, WellFormed

(* A refusal writes nothing. *)
LEMMA RejectSound ==
    ASSUME AccessInv, NEW r \in Req, Reject(r), tx[r].pc \notin Finished, tx[r].pc # "deny"
    PROVE  Sound(r)
  BY RowsSame, MoveSound, BlankFormed DEF Reject, End, Other

(* A request starts with nothing read. *)
LEMMA ArriveSound ==
    ASSUME AccessInv, NEW r \in Req, Arrive(r)
    PROVE  Sound(r)
  <1>1. ASSUME NEW op \in Op, NEW label \in {"auth", "read", "user", "revoke"},
               label = "auth" => op \in {"PASSWORD", "MFA", "COMPANY", "SWITCH", "ADMIN"},
               label = "read" => op \in {"LOGIN", "BOOTSTRAP", "REFRESH"},
               label = "revoke" => op = "LOGOUT",
               Start(r, [Blank(label) EXCEPT !.op = op])
        PROVE  Sound(r)
    <2> DEFINE t == [Blank(label) EXCEPT !.op = op]
    <2>1. t \in Request
      BY DEF Blank, Request
    <2>2. tx[r].pc = "idle" /\ session[r] = None /\ Step(r, t)
      BY <1>1, Facts DEF Start, WellFormed
    <2>3. WellFormed(r, t)
      BY <1>1, <2>2 DEF Blank, WellFormed
    <2> HIDE DEF t
    <2> QED BY <2>1, <2>2, <2>3, StepSound
  <1>2. Blank("read") = [Blank("read") EXCEPT !.op = "LOGIN"]
    BY DEF Blank
  <1>3. Login(r) => Sound(r)
    BY <1>1, <1>2 DEF Login
  <1>4. Register(r) \/ Bootstrap(r) \/ Refresh(r) \/ Logout(r) => Sound(r)
    BY <1>1 DEF Register, Bootstrap, Refresh, Logout
  <1>5. ChangePassword(r) \/ Mfa(r) \/ OwnCompany(r) \/ SwitchCompany(r) \/ AdminRequest(r) => Sound(r)
    BY <1>1 DEF ChangePassword, Mfa, OwnCompany, SwitchCompany, AdminRequest
  <1> QED BY <1>3, <1>4, <1>5 DEF Arrive

-----------------------------------------------------------------------------
(* Steps that change rows and make no session. *)

(* The claims that go into a user's token (buildAuthClaims). *)
LEMMA ClaimsType ==
    ASSUME AccessInv, NEW u \in Users, NEW select \in BOOLEAN
    PROVE  user[u] \in UserRow /\ Claims(u, select) \in Claim
  <1>1. user[u] \in UserRow
    BY Facts DEF TypeOK, Users
  <1> QED BY <1>1 DEF Claims, Claim, UserRow

(* A user's row is made or changed. *)
LEMMA UserStays ==
    ASSUME AccessInv, NEW u \in User, NEW row \in UserRow, user' = [user EXCEPT ![u] = row],
           UNCHANGED <<company, member, session>>
    PROVE  RowsStay({})
  <1>1. row # None
    BY AccessConstants
  <1> QED BY <1>1, Facts DEF RowsStay, TypeOK

(* The memberships of a user there is are changed. *)
LEMMA MemberStays ==
    ASSUME AccessInv, NEW u \in Users, NEW ms \in [Company -> Membership \cup {None}],
           member' = [member EXCEPT ![u] = ms], company' \in [Company -> BOOLEAN \cup {None}],
           UNCHANGED <<user, session>>
    PROVE  RowsStay({})
  BY Facts DEF RowsStay, TypeOK, Users

(* Making one membership the default changes memberships only. *)
LEMMA WithDefaultType ==
    ASSUME NEW ms \in [Company -> Membership \cup {None}], NEW k \in Company, NEW m \in Membership
    PROVE  WithDefault(ms, k, m) \in [Company -> Membership \cup {None}]
  BY DEF WithDefault, Membership

(* Sessions are ended. *)
LEMMA RevokedStays ==
    ASSUME AccessInv, NEW ss, session' = Revoked(ss), user' \in [User -> UserRow \cup {None}],
           \A u \in User : user'[u] = None <=> user[u] = None, UNCHANGED <<company, member>>
    PROVE  RowsStay({})
  <1>1. \A s \in Req : session[s] # None =>
           /\ session[s] \in SessionRow
           /\ [session[s] EXCEPT !.live = FALSE] \in SessionRow
           /\ [session[s] EXCEPT !.live = FALSE].user = session[s].user
           /\ [session[s] EXCEPT !.live = FALSE].parent = session[s].parent
           /\ [session[s] EXCEPT !.live = FALSE].live = FALSE
    BY Facts DEF SessionRow
  <1>2. \A s \in Req : /\ session'[s] = session[s] \/ session'[s] = [session[s] EXCEPT !.live = FALSE]
                       /\ session[s] = None => session'[s] = None
    BY DEF Revoked, Sessions
  <1>3. session' \in [Req -> SessionRow \cup {None}]
    <2>1. \A s \in Req : session'[s] \in SessionRow \cup {None}
      BY <1>1, <1>2
    <2> QED BY <2>1 DEF Revoked
  <1>4. \A s \in Req : session'[s] # None =>
           /\ session[s] # None
           /\ session'[s].user = session[s].user /\ session'[s].parent = session[s].parent
           /\ session'[s].live => session[s].live
    BY <1>1, <1>2
  <1>5. \A s \in Req : session'[s] # None => user'[session'[s].user] # None
    BY <1>4, Facts
  <1> QED BY <1>3, <1>4, <1>5, Facts DEF RowsStay, TypeOK

(* Ending one session is ending a set of one. *)
LEMMA OneRevoked ==
    ASSUME AccessInv, NEW s \in Sessions
    PROVE  [session EXCEPT ![s].live = FALSE] = Revoked({s})
  BY Facts DEF Revoked, Sessions, TypeOK

-----------------------------------------------------------------------------
(* The changes of administrators. *)

Clear == [of : {"clear"}, at : User]

(* Every write of an administrator leaves sessions and memberships to
   users there are: deleting a user deletes both. *)
LEMMA ApplyStays ==
    ASSUME AccessInv, NEW p \in Change \cup Clear, Apply(p)
    PROVE  RowsStay({})
  <1>1. CASE p.of = "company"
    <2>1. p.at \in Company /\ p.to \in BOOLEAN \cup {None} /\ ApplyCompany(p)
      BY <1>1 DEF Change, Clear, Apply
    <2>2. member' \in [User -> [Company -> Membership \cup {None}]]
      BY <2>1, Facts DEF ApplyCompany, TypeOK
    <2>3. \A u \in User : member[u] = NoMembers => member'[u] = NoMembers
      BY <2>1, Facts DEF ApplyCompany, NoMembers, TypeOK
    <2>4. company' \in [Company -> BOOLEAN \cup {None}] /\ user' = user /\ session' = session
      BY <2>1, Facts DEF ApplyCompany, TypeOK
    <2> QED BY <2>2, <2>3, <2>4, Facts DEF RowsStay, TypeOK
  <1>2. CASE p.of = "user"
    <2>1. /\ p.at \in User /\ p.to \in UserRow \cup {None} /\ p.in \in Roles
          /\ p.first \in Company \cup {None} /\ ApplyUser(p)
      BY <1>2 DEF Change, Clear, Apply
    <2>2. CASE p.to = None
      <3>1. /\ user' = [user EXCEPT ![p.at] = None] /\ member' = [member EXCEPT ![p.at] = NoMembers]
            /\ session' = [s \in Req |-> IF s \in Sessions /\ session[s].user = p.at
                                         THEN None ELSE session[s]]
            /\ company' = company
        BY <2>1, <2>2 DEF ApplyUser
      <3>2. NoMembers \in [Company -> Membership \cup {None}]
        BY DEF NoMembers
      <3>3. \A s \in Req : session'[s] # None => session'[s] = session[s] /\ session[s].user # p.at
        BY <3>1 DEF Sessions
      <3>4. session' \in [Req -> SessionRow \cup {None}]
        BY <3>1, Facts DEF TypeOK
      <3>5. \A s \in Req : session'[s] # None => user'[session'[s].user] # None
        BY <2>1, <3>1, <3>3, Facts DEF TypeOK
      <3>6. \A u \in User : user'[u] = None => member'[u] = NoMembers
        BY <2>1, <3>1, <3>2, Facts DEF TypeOK
      <3> QED BY <2>1, <3>1, <3>2, <3>3, <3>4, <3>5, <3>6, Facts DEF RowsStay, TypeOK
    <2>3. CASE p.to # None
      <3> DEFINE ms == [k \in Company |-> IF k \in DOMAIN p.in
                                          THEN [role |-> p.in[k], default |-> k = p.first]
                                          ELSE member[p.at][k]]
      <3>1. /\ user' = [user EXCEPT ![p.at] = p.to] /\ member' = [member EXCEPT ![p.at] = ms]
            /\ session' = session /\ company' = company /\ p.to \in UserRow
        BY <2>1, <2>3 DEF ApplyUser
      <3>2. \A k \in DOMAIN p.in : p.in[k] \in Role
        BY <2>1 DEF Roles
      <3>3. \A k \in Company : (k = p.first) \in BOOLEAN /\ member[p.at][k] \in Membership \cup {None}
        BY <2>1, Facts DEF TypeOK
      <3>4. ms \in [Company -> Membership \cup {None}]
        BY <3>2, <3>3 DEF Membership
      <3> HIDE DEF ms
      <3>5. \A u \in User : user'[u] = None => user[u] = None /\ member'[u] = member[u]
        BY <2>1, <2>3, <3>1, Facts DEF TypeOK
      <3>6. \A u \in User : user[u] # None => user'[u] # None
        BY <2>1, <2>3, <3>1, Facts DEF TypeOK
      <3> QED BY <2>1, <3>1, <3>4, <3>5, <3>6, Facts DEF RowsStay, TypeOK
    <2> QED BY <2>2, <2>3
  <1>3. CASE p.of = "reset"
    <2>1. p.at \in User /\ p.sessions \subseteq Req /\ ApplyReset(p)
      BY <1>3 DEF Change, Clear, Apply
    <2> DEFINE row == IF user[p.at] = None THEN None ELSE [user[p.at] EXCEPT !.mustChange = TRUE]
    <2>2. user' = [user EXCEPT ![p.at] = row] /\ session' = Revoked(p.sessions)
          /\ UNCHANGED <<company, member>>
      BY <2>1 DEF ApplyReset
    <2>3. user[p.at] \in UserRow \cup {None}
      BY <2>1, Facts DEF TypeOK
    <2>4. user[p.at] # None => [user[p.at] EXCEPT !.mustChange = TRUE] \in UserRow
      BY <2>3 DEF UserRow
    <2>5. row \in UserRow \cup {None} /\ (row = None <=> user[p.at] = None)
      BY <2>4, AccessConstants
    <2> HIDE DEF row
    <2>6. /\ user' \in [User -> UserRow \cup {None}]
          /\ \A u \in User : user'[u] = None <=> user[u] = None
      BY <2>1, <2>2, <2>5, Facts DEF TypeOK
    <2> QED BY <2>2, <2>6, RevokedStays
  <1>4. CASE p.of = "member"
    <2>1. p.at \in User /\ p.in \in Company /\ p.to \in Membership \cup {None} /\ ApplyMember(p)
      BY <1>4 DEF Change, Clear, Apply
    <2>2. UNCHANGED <<user, company, session>>
      BY <2>1 DEF ApplyMember
    <2>3. CASE p.at \notin Users \/ p.in \notin Companies
      BY <2>1, <2>2, <2>3, RowsSame DEF ApplyMember, rows
    <2>4. CASE /\ p.at \in Users /\ p.in \in Companies
               /\ p.to # None /\ p.to.default
      <3>1. member[p.at] \in [Company -> Membership \cup {None}]
        BY <2>1, Facts DEF TypeOK
      <3>2. member' = [member EXCEPT ![p.at] = WithDefault(member[p.at], p.in, p.to)]
        BY <2>1, <2>4 DEF ApplyMember
      <3>3. WithDefault(member[p.at], p.in, p.to) \in [Company -> Membership \cup {None}]
        BY <2>1, <2>4, <3>1, WithDefaultType
      <3> QED BY <2>2, <2>4, <3>2, <3>3, MemberStays, Facts DEF TypeOK
    <2>5. CASE /\ p.at \in Users /\ p.in \in Companies
               /\ ~(p.to # None /\ p.to.default)
      <3>1. member' = [member EXCEPT ![p.at] = [member[p.at] EXCEPT ![p.in] = p.to]]
        BY <2>1, <2>5 DEF ApplyMember
      <3>2. [member[p.at] EXCEPT ![p.in] = p.to] \in [Company -> Membership \cup {None}]
        BY <2>1, Facts DEF TypeOK
      <3> QED BY <2>2, <2>5, <3>1, <3>2, MemberStays, Facts DEF TypeOK
    <2> QED BY <2>3, <2>4, <2>5
  <1>5. CASE p.of = "clear"
    <2>1. p.at \in User /\ ClearDefaults(p)
      BY <1>5 DEF Change, Clear, Apply
    <2> DEFINE ms == [k \in Company |-> IF member[p.at][k] = None THEN None
                                        ELSE [member[p.at][k] EXCEPT !.default = FALSE]]
    <2>2. /\ member' = [member EXCEPT ![p.at] = ms] /\ UNCHANGED <<user, company, session>>
      BY <2>1 DEF ClearDefaults
    <2>3. \A k \in Company : member[p.at][k] \in Membership \cup {None}
      BY <2>1, Facts DEF TypeOK
    <2>4. ms \in [Company -> Membership \cup {None}]
      BY <2>3 DEF Membership
    <2>5. member[p.at] = NoMembers => ms = NoMembers
      BY DEF NoMembers
    <2> HIDE DEF ms
    <2> QED BY <2>1, <2>2, <2>4, <2>5, Facts DEF RowsStay, TypeOK
  <1>6. p.of \in {"company", "user", "reset", "member", "clear"}
    BY DEF Change, Clear
  <1> QED BY <1>1, <1>2, <1>3, <1>4, <1>5, <1>6

(* What the first statement of a change writes is a change as well. *)
LEMMA FirstWriteType ==
    ASSUME NEW p \in Change
    PROVE  FirstWrite(p) \in Change \cup Clear
  <1>1. CASE p.of = "user"
    <2>1. p \in [of : {"user"}, at : User, to : UserRow \cup {None}, in : Roles, first : Company \cup {None}]
      BY <1>1 DEF Change
    <2>2. <<>> \in Roles
      <3>1. <<>> \in [{} -> Role] /\ {} \in SUBSET Company
        OBVIOUS
      <3> QED BY <3>1 DEF Roles
    <2>3. FirstWrite(p) = [p EXCEPT !.in = <<>>]
      BY <1>1 DEF FirstWrite
    <2> QED BY <2>1, <2>2, <2>3 DEF Change
  <1>2. CASE p.of = "reset"
    BY <1>2 DEF FirstWrite, Change
  <1>3. CASE p.of = "member"
    BY <1>3 DEF FirstWrite, Change, Clear
  <1>4. CASE p.of = "company"
    BY <1>4 DEF FirstWrite
  <1> QED BY <1>1, <1>2, <1>3, <1>4 DEF Change

-----------------------------------------------------------------------------
(* The handlers. *)

(* Login, registration and bootstrap up to the session. *)
LEMMA EntrySound ==
    ASSUME AccessInv, NEW r \in Req,
           ReadLogin(r) \/ RegisterUser(r) \/ ReadBootstrap(r) \/ BootstrapUser(r) \/ ConsumeToken(r)
    PROVE  Sound(r)
  <1>1. /\ tx[r] \in Request /\ WellFormed(r, tx[r])
        /\ tx[r].pc \in {"read", "user", "consume"} /\ tx[r].op \in {"LOGIN", "REGISTER", "BOOTSTRAP"}
    BY Facts DEF ReadLogin, RegisterUser, ReadBootstrap, BootstrapUser, ConsumeToken, At
  <1>2. Reject(r) => Sound(r)
    BY <1>1, RejectSound
  <1>3. ASSUME NEW t \in Request, t.op = tx[r].op, t.pc \in {"user", "consume"}
        PROVE  WellFormed(r, t)
    BY <1>1, <1>3 DEF WellFormed
  <1>4. ASSUME NEW t \in Request, t.op = tx[r].op, t.pc = "session", t.u \in User, t.claims \in Claim
        PROVE  WellFormed(r, t)
    BY <1>1, <1>4 DEF WellFormed
  <1>5. CASE ReadLogin(r) /\ ~Reject(r)
    <2>1. PICK u \in Users : Step(r, [tx[r] EXCEPT !.pc = "session", !.u = u, !.claims = Claims(u, TRUE)])
      BY <1>5 DEF ReadLogin
    <2>2. Claims(u, TRUE) \in Claim /\ u \in User
      BY ClaimsType DEF Users
    <2> DEFINE t == [tx[r] EXCEPT !.pc = "session", !.u = u, !.claims = Claims(u, TRUE)]
    <2>3. t \in Request /\ t.op = tx[r].op /\ t.pc = "session" /\ t.u \in User /\ t.claims \in Claim
      BY <1>1, <2>2 DEF Request
    <2>4. Step(r, t)
      BY <2>1
    <2> HIDE DEF t
    <2> QED BY <1>1, <1>4, <2>3, <2>4, StepSound
  <1>6. CASE RegisterUser(r) /\ ~Reject(r)
    <2> DEFINE row == [role |-> "ACCOUNTANT", mustChange |-> FALSE, mfa |-> FALSE,
                       secret |-> FALSE, pending |-> FALSE]
               c == [role |-> "ACCOUNTANT", mustChange |-> FALSE, mfa |-> FALSE, select |-> TRUE]
    <2>1. PICK u \in User \ Users :
             /\ user' = [user EXCEPT ![u] = row]
             /\ Goto(r, [tx[r] EXCEPT !.pc = "session", !.u = u, !.claims = c])
             /\ UNCHANGED <<company, member, session, Other>>
      BY <1>6 DEF RegisterUser
    <2>2. row \in UserRow /\ c \in Claim
      BY DEF UserRow, Claim
    <2> HIDE DEF row, c
    <2>3. RowsStay({})
      BY <2>1, <2>2, UserStays
    <2> DEFINE t == [tx[r] EXCEPT !.pc = "session", !.u = u, !.claims = c]
    <2>4. t \in Request /\ t.op = tx[r].op /\ t.pc = "session" /\ t.u \in User /\ t.claims \in Claim
      BY <1>1, <2>2 DEF Request
    <2>5. tx' = [tx EXCEPT ![r] = t]
      BY <2>1 DEF Goto
    <2> HIDE DEF t
    <2> QED BY <1>1, <1>4, <2>1, <2>3, <2>4, <2>5, MoveSound DEF Other
  <1>7. CASE ReadBootstrap(r) /\ ~Reject(r)
    <2> DEFINE t == [tx[r] EXCEPT !.pc = "user"]
    <2>1. t \in Request /\ t.op = tx[r].op /\ t.pc = "user"
      BY <1>1 DEF Request
    <2>2. Step(r, t)
      BY <1>7 DEF ReadBootstrap
    <2> HIDE DEF t
    <2> QED BY <1>1, <1>3, <2>1, <2>2, StepSound
  <1>8. CASE BootstrapUser(r) /\ ~Reject(r)
    <2> DEFINE row == [role |-> "ADMIN", mustChange |-> TRUE, mfa |-> FALSE,
                       secret |-> FALSE, pending |-> FALSE]
               m == [role |-> "ADMIN", default |-> TRUE]
    <2>1. PICK u \in User \ Users, k \in Company :
             /\ user' = [user EXCEPT ![u] = row]
             /\ company' = [company EXCEPT ![k] = TRUE]
             /\ member' = [member EXCEPT ![u][k] = m]
             /\ Goto(r, [tx[r] EXCEPT !.pc = "consume"])
             /\ UNCHANGED <<session, Other>>
      BY <1>8 DEF BootstrapUser
    <2>2. row \in UserRow /\ m \in Membership
      BY DEF UserRow, Membership
    <2> HIDE DEF row, m
    <2>3. row # None
      BY <2>2, AccessConstants
    <2>4. RowsStay({})
      <3>1. /\ user' \in [User -> UserRow \cup {None}]
            /\ company' \in [Company -> BOOLEAN \cup {None}]
            /\ session' = session
        BY <2>1, <2>2, Facts DEF TypeOK
      <3>2. member' = [member EXCEPT ![u] = [member[u] EXCEPT ![k] = m]]
        BY <2>1
      <3>3. [member[u] EXCEPT ![k] = m] \in [Company -> Membership \cup {None}]
        BY <2>1, <2>2, Facts DEF TypeOK
      <3>4. member' \in [User -> [Company -> Membership \cup {None}]]
        BY <3>2, <3>3, Facts DEF TypeOK
      <3>5. \A v \in User : user'[v] = None => user[v] = None /\ member'[v] = member[v]
        BY <2>1, <2>3, <3>2, Facts DEF TypeOK
      <3>6. \A v \in User : user[v] # None => user'[v] # None
        BY <2>1, <2>3, Facts DEF TypeOK
      <3> QED BY <3>1, <3>4, <3>5, <3>6, Facts DEF RowsStay, TypeOK
    <2> DEFINE t == [tx[r] EXCEPT !.pc = "consume"]
    <2>5. t \in Request /\ t.op = tx[r].op /\ t.pc = "consume" /\ tx' = [tx EXCEPT ![r] = t]
      BY <1>1, <2>1 DEF Request, Goto
    <2> HIDE DEF t
    <2> QED BY <1>1, <1>3, <2>1, <2>4, <2>5, MoveSound DEF Other
  <1>9. CASE ConsumeToken(r)
    BY <1>1, <1>9, BlankFormed, RowsSame, MoveSound DEF ConsumeToken, End
  <1> QED BY <1>2, <1>5, <1>6, <1>7, <1>8, <1>9

(* A session is made, for a user there is, or a refresh ends one and makes
   its successor. *)
LEMMA SessionSound ==
    ASSUME AccessInv, NEW r \in Req, IssueSession(r) \/ Rotate(r)
    PROVE  Sound(r)
  <1>1. /\ tx[r] \in Request /\ WellFormed(r, tx[r]) /\ tx[r].pc = "session"
        /\ tx[r].u \in User /\ tx[r].claims \in Claim /\ session[r] = None
    BY Facts DEF IssueSession, Rotate, At, WellFormed
  <1>2. Reject(r) => Sound(r)
    BY <1>1, RejectSound
  <1>3. ASSUME NEW parent \in Req \cup {None}, NEW ss, ss \subseteq Req \ {r},
               parent # None => Over(parent), user[tx[r].u] # None,
               session' = [Revoked(ss) EXCEPT ![r] = NewSession(tx[r].u, tx[r].claims, parent)],
               End(r), UNCHANGED <<user, company, member, Other>>
        PROVE  Sound(r)
    <2> DEFINE new == NewSession(tx[r].u, tx[r].claims, parent)
    <2>1. /\ tx'[r] = Blank("done") /\ tx' = [tx EXCEPT ![r] = tx'[r]]
          /\ Blank("done") \in Request /\ WellFormed(r, Blank("done"))
      BY <1>3, BlankFormed, Facts DEF End, TypeOK
    <2>2. WellFormed(r, tx[r])'
      BY <2>1 DEF WellFormed, Blank
    <2>3. new \in SessionRow /\ new.user = tx[r].u /\ new.parent = parent
      BY <1>1 DEF NewSession, SessionRow
    <2> HIDE DEF new
    <2>4. session'[r] = new /\ \A s \in Req \ {r} : session'[s] = Revoked(ss)[s]
      BY <1>3 DEF Revoked, new
    <2>5. \A s \in Req : session[s] # None =>
             /\ session[s] \in SessionRow
             /\ [session[s] EXCEPT !.live = FALSE] \in SessionRow
             /\ [session[s] EXCEPT !.live = FALSE].user = session[s].user
             /\ [session[s] EXCEPT !.live = FALSE].parent = session[s].parent
             /\ [session[s] EXCEPT !.live = FALSE].live = FALSE
      BY Facts DEF SessionRow
    <2>6. \A s \in Req \ {r} : /\ session'[s] = session[s] \/ session'[s] = [session[s] EXCEPT !.live = FALSE]
                               /\ session[s] = None => session'[s] = None
      BY <2>4 DEF Revoked, Sessions
    <2>7. session' \in [Req -> SessionRow \cup {None}]
      <3>1. \A s \in Req : session'[s] \in SessionRow \cup {None}
        BY <2>3, <2>4, <2>5, <2>6
      <3> QED BY <1>3, <3>1 DEF Revoked
    <2>8. \A s \in Req \ {r} : session'[s] # None =>
             /\ session[s] # None
             /\ session'[s].user = session[s].user /\ session'[s].parent = session[s].parent
             /\ session'[s].live => session[s].live
      BY <2>5, <2>6
    <2>9. \A s \in Req : session'[s] # None => user'[session'[s].user] # None
      BY <1>3, <2>3, <2>4, <2>8, Facts
    <2>10. RowsStay({r})
      BY <1>3, <2>7, <2>8, <2>9, Facts DEF RowsStay, TypeOK
    <2>11. tx'[r].pc \in Finished
      BY <2>1 DEF Blank
    <2> QED BY <1>1, <1>3, <2>1, <2>2, <2>3, <2>4, <2>10, <2>11 DEF Sound, Other, Denials
  <1>4. CASE IssueSession(r) /\ ~Reject(r)
    <2>1. /\ session' = [session EXCEPT ![r] = NewSession(tx[r].u, tx[r].claims, None)]
          /\ user[tx[r].u] # None /\ End(r) /\ UNCHANGED <<user, company, member, Other>>
      BY <1>4 DEF IssueSession, Users
    <2>2. session = Revoked({})
      BY Facts DEF Revoked, TypeOK
    <2> QED BY <1>3, <2>1, <2>2
  <1>5. CASE Rotate(r) /\ ~Reject(r)
    <2> DEFINE s == tx[r].s
               new == NewSession(tx[r].u, tx[r].claims, s)
    <2>1. /\ tx[r].op = "REFRESH" /\ s \in Sessions /\ End(r) /\ UNCHANGED <<user, company, member, Other>>
          /\ session' = [session EXCEPT ![s].live = FALSE, ![r] = new]
      BY <1>5 DEF Rotate, At
    <2>2. Over(s) /\ session[s].user = tx[r].u /\ s \in Req /\ s # r
      BY <1>1, <2>1 DEF WellFormed, Over
    <2>3. user[tx[r].u] # None
      BY <2>1, <2>2, Facts DEF Sessions
    <2>4. [session EXCEPT ![s].live = FALSE] = Revoked({s})
      BY <2>1, OneRevoked
    <2>5. session' = [Revoked({s}) EXCEPT ![r] = new]
      <3>1. session' = [[session EXCEPT ![s].live = FALSE] EXCEPT ![r] = new]
        BY <2>1
      <3> HIDE DEF new
      <3> QED BY <2>4, <3>1
    <2> DEFINE ss == {s}
    <2>6. ss \subseteq Req \ {r} /\ s \in Req \cup {None}
      BY <2>2
    <2>7. session' = [Revoked(ss) EXCEPT ![r] = NewSession(tx[r].u, tx[r].claims, s)]
      BY <2>5
    <2> HIDE DEF s, ss
    <2> QED BY <1>3, <2>1, <2>2, <2>3, <2>6, <2>7
  <1> QED BY <1>2, <1>4, <1>5 DEF IssueSession, Rotate

(* A refresh reads a session, a logout ends one and denies it. *)
LEMMA LogoutSound ==
    ASSUME AccessInv, NEW r \in Req, ReadSession(r) \/ RevokeSession(r) \/ DenySession(r)
    PROVE  Sound(r)
  <1>1. tx[r] \in Request /\ WellFormed(r, tx[r])
    BY Facts
  <1>2. tx[r].pc \in {"read", "revoke", "deny"} /\ session[r] = None
    BY <1>1 DEF ReadSession, RevokeSession, DenySession, At, WellFormed
  <1>3. \A s \in Sessions : s \in Req /\ s # r /\ Over(s) /\ session[s].user \in Users
    <2> SUFFICES ASSUME NEW s \in Sessions PROVE s \in Req /\ s # r /\ Over(s) /\ session[s].user \in Users
      OBVIOUS
    <2>1. s \in Req /\ session[s] # None /\ tx[s] \in Request /\ WellFormed(s, tx[s])
      BY Facts DEF Sessions
    <2>2. tx[s].pc \notin Running \cup {"idle"}
      BY <2>1 DEF WellFormed
    <2> QED BY <1>2, <2>1, <2>2, Facts DEF Request, Over, Users
  <1>4. CASE ReadSession(r)
    <2>1. Reject(r) => Sound(r)
      BY <1>4, RejectSound DEF ReadSession, At
    <2>2. ASSUME NEW s \in Live,
                 Step(r, [tx[r] EXCEPT !.pc = "session", !.s = s, !.u = session[s].user,
                            !.claims = Claims(session[s].user, session[s].claims.select)])
          PROVE  Sound(r)
      <3> DEFINE c == Claims(session[s].user, session[s].claims.select)
                 t == [tx[r] EXCEPT !.pc = "session", !.s = s, !.u = session[s].user, !.claims = c]
      <3>1. s \in Sessions /\ session[s] \in SessionRow
        BY Facts DEF Live, Sessions
      <3>2. session[s].claims.select \in BOOLEAN
        BY <3>1 DEF SessionRow, Claim
      <3>3. c \in Claim /\ session[s].user \in User
        BY <1>3, <3>1, <3>2, ClaimsType DEF Users
      <3> HIDE DEF c
      <3>4. /\ t \in Request /\ t.op = "REFRESH" /\ t.pc = "session" /\ t.s = s
            /\ t.u = session[s].user /\ t.u \in User /\ t.claims \in Claim
        BY <1>1, <1>3, <1>4, <3>1, <3>3 DEF Request, ReadSession, At
      <3>5. Step(r, t)
        BY <2>2 DEF c
      <3> HIDE DEF t
      <3>6. WellFormed(r, t)
        BY <1>2, <1>3, <3>1, <3>4 DEF WellFormed
      <3> QED BY <1>4, <3>4, <3>5, <3>6, StepSound DEF ReadSession, At
    <2> QED BY <1>4, <2>1, <2>2 DEF ReadSession
  <1>5. CASE RevokeSession(r)
    <2>1. PICK s \in Sessions : /\ session' = [session EXCEPT ![s].live = FALSE]
                                /\ Goto(r, [tx[r] EXCEPT !.pc = "deny", !.s = s])
      BY <1>5 DEF RevokeSession
    <2>2. session' = Revoked({s}) /\ UNCHANGED <<user, company, member, Other>>
      BY <1>5, <2>1, OneRevoked DEF RevokeSession
    <2>3. RowsStay({})
      BY <2>2, Facts, RevokedStays DEF TypeOK
    <2> DEFINE t == [tx[r] EXCEPT !.pc = "deny", !.s = s]
    <2>4. /\ t \in Request /\ t.op = "LOGOUT" /\ t.pc = "deny" /\ t.s = s
          /\ tx' = [tx EXCEPT ![r] = t]
      BY <1>1, <1>3, <1>5, <2>1 DEF Request, RevokeSession, At, Goto
    <2> HIDE DEF t
    <2>5. tx'[r] = t /\ tx' = [tx EXCEPT ![r] = tx'[r]] /\ session'[r] = None
      BY <1>2, <2>3, <2>4, Facts DEF TypeOK, RowsStay
    <2>6. Over(s)'
      BY <1>2, <1>3, <2>5, OverStays
    <2>7. s \notin Live'
      <3>1. session'[s] = [session[s] EXCEPT !.live = FALSE] /\ session[s] \in SessionRow
        BY <1>3, <2>2, Facts DEF Revoked, Sessions
      <3> QED BY <3>1 DEF Live, SessionRow
    <2>8. WellFormed(r, tx[r])'
      BY <2>4, <2>5, <2>6, <2>7 DEF WellFormed
    <2>9. RowsStay({r}) /\ tx[r].pc = "revoke"
      BY <1>5, <2>3 DEF RowsStay, RevokeSession, At
    <2> QED BY <2>2, <2>4, <2>5, <2>8, <2>9 DEF Sound, Other, Denials
  <1>6. CASE DenySession(r)
    <2>1. /\ tx' = [tx EXCEPT ![r] = Blank("done")] /\ UNCHANGED <<rows, restarts>>
          /\ redis \subseteq redis' /\ memory \subseteq memory' /\ tx[r].s \in redis' \cup memory'
          /\ tx[r].pc = "deny"
      BY <1>6 DEF DenySession, blacklistSessionId, End, At
    <2>2. Blank("done") \in Request /\ Blank("done").pc = "done"
      BY BlankFormed DEF Blank
    <2>3. tx'[r] = Blank("done") /\ tx' = [tx EXCEPT ![r] = tx'[r]] /\ session'[r] = None
      BY <1>2, <2>1, Facts DEF TypeOK, rows
    <2>4. WellFormed(r, tx[r])'
      BY <2>2, <2>3 DEF WellFormed
    <2>5. RowsStay({r})
      BY <2>1, RowsSame DEF RowsStay
    <2> QED BY <2>1, <2>2, <2>3, <2>4, <2>5 DEF Sound
  <1> QED BY <1>4, <1>5, <1>6

(* Requests of a user about itself. *)
LEMMA SelfSound ==
    ASSUME AccessInv, NEW r \in Req,
           \/ Authenticate(r) \/ UpdatePassword(r) \/ SetupMfa(r) \/ VerifyMfa(r)
           \/ DisableMfa(r) \/ RefuseMfa(r) \/ RevokeAll(r)
    PROVE  Sound(r)
  <1>1. /\ tx[r] \in Request /\ WellFormed(r, tx[r]) /\ tx[r].pc \in {"auth", "read", "revoke"}
        /\ tx[r].op \in {"PASSWORD", "MFA", "COMPANY", "SWITCH"}
        /\ tx[r].pc = "revoke" => tx[r].op \in {"PASSWORD", "MFA"}
        /\ session[r] = None
    BY Facts DEF Authenticate, UpdatePassword, SetupMfa, VerifyMfa, DisableMfa, RefuseMfa, RevokeAll,
                 At, WellFormed
  <1>2. Reject(r) => Sound(r)
    BY <1>1, RejectSound
  <1>3. ASSUME NEW t \in Request, t.op = tx[r].op, t.pc \in {"read", "revoke", "session"},
               t.pc = "revoke" => t.op \in {"PASSWORD", "MFA"}, t.u \in User, t.claims \in Claim
        PROVE  WellFormed(r, t)
    BY <1>1, <1>3 DEF WellFormed
  <1>4. CASE Authenticate(r) /\ ~Reject(r)
    <2>1. PICK s \in Sessions : Step(r, [tx[r] EXCEPT !.pc = "read", !.s = s, !.u = session[s].user,
                                                       !.claims = session[s].claims])
      BY <1>4 DEF Authenticate
    <2>2. s \in Req /\ session[s] \in SessionRow
      BY Facts DEF Sessions
    <2>3. session[s].user \in User /\ session[s].claims \in Claim
      BY <2>2 DEF SessionRow
    <2> DEFINE t == [tx[r] EXCEPT !.pc = "read", !.s = s, !.u = session[s].user,
                                  !.claims = session[s].claims]
    <2>4. t \in Request /\ t.op = tx[r].op /\ t.pc = "read" /\ t.u \in User /\ t.claims \in Claim
      BY <1>1, <2>2, <2>3 DEF Request
    <2>5. Step(r, t)
      BY <2>1
    <2> HIDE DEF t
    <2> QED BY <1>1, <1>3, <2>4, <2>5, StepSound
  <1>5. ASSUME tx[r].u \in Users, tx[r].op \in {"PASSWORD", "MFA"},
               NEW row \in UserRow, user' = [user EXCEPT ![tx[r].u] = row],
               NEW c \in Claim, Goto(r, [tx[r] EXCEPT !.pc = "revoke", !.claims = c]),
               UNCHANGED <<company, member, session, Other>>
        PROVE  Sound(r)
    <2>1. RowsStay({}) /\ tx[r].u \in User
      BY <1>5, UserStays DEF Users
    <2> DEFINE t == [tx[r] EXCEPT !.pc = "revoke", !.claims = c]
    <2>2. t \in Request /\ t.op = tx[r].op /\ t.pc = "revoke" /\ t.u \in User /\ t.claims \in Claim
      BY <1>1, <2>1 DEF Request
    <2>3. tx' = [tx EXCEPT ![r] = t]
      BY <1>5 DEF Goto
    <2> HIDE DEF t
    <2> QED BY <1>1, <1>3, <1>5, <2>1, <2>2, <2>3, MoveSound DEF Other
  <1>6. tx[r].pc = "read" /\ tx[r].op \in {"PASSWORD", "MFA"} => tx[r].claims \in Claim /\ tx[r].u \in User
    BY <1>1 DEF WellFormed
  <1>7. tx[r].claims \in Claim => tx[r].claims.select \in BOOLEAN
    BY DEF Claim
  <1>8. CASE UpdatePassword(r) /\ ~Reject(r)
    <2> DEFINE u == tx[r].u
               c == Claims(u, tx[r].claims.select)
    <2>1. /\ tx[r].op = "PASSWORD" /\ tx[r].pc = "read" /\ u \in Users
          /\ user' = [user EXCEPT ![u] = [user[u] EXCEPT !.mustChange = FALSE]]
          /\ Goto(r, [tx[r] EXCEPT !.pc = "revoke", !.claims = [c EXCEPT !.mustChange = FALSE]])
          /\ UNCHANGED <<company, member, session, Other>>
      BY <1>8 DEF UpdatePassword, At
    <2>2. user[u] \in UserRow /\ c \in Claim
      BY <1>6, <1>7, <2>1, ClaimsType
    <2> HIDE DEF c
    <2>3. [user[u] EXCEPT !.mustChange = FALSE] \in UserRow /\ [c EXCEPT !.mustChange = FALSE] \in Claim
      BY <2>2 DEF UserRow, Claim
    <2> QED BY <1>5, <2>1, <2>3
  <1>9. ASSUME NEW on \in BOOLEAN, MfaTo(r, on), tx[r].op = "MFA", tx[r].pc = "read", tx[r].u \in Users
        PROVE  Sound(r)
    <2> DEFINE u == tx[r].u
               c == Claims(u, tx[r].claims.select)
               row == [user[u] EXCEPT !.mfa = on, !.secret = on, !.pending = FALSE]
    <2>1. user[u] \in UserRow /\ c \in Claim
      BY <1>6, <1>7, <1>9, ClaimsType
    <2>2. user' = [user EXCEPT ![u] = row]
      BY <1>9, Facts DEF MfaTo, TypeOK, Users
    <2>3. /\ Goto(r, [tx[r] EXCEPT !.pc = "revoke", !.claims = [c EXCEPT !.mfa = on]])
          /\ UNCHANGED <<company, member, session, Other>>
      BY <1>9 DEF MfaTo
    <2> HIDE DEF c
    <2>4. row \in UserRow /\ [c EXCEPT !.mfa = on] \in Claim
      BY <2>1 DEF UserRow, Claim
    <2> HIDE DEF row
    <2> QED BY <1>5, <1>9, <2>2, <2>3, <2>4
  <1>10. CASE SetupMfa(r)
    <2> DEFINE u == tx[r].u
               row == [user[u] EXCEPT !.pending = TRUE]
    <2>1. /\ u \in Users /\ user' = [user EXCEPT ![u] = row]
          /\ End(r) /\ UNCHANGED <<company, member, session, Other>>
      BY <1>10 DEF SetupMfa
    <2>2. row \in UserRow /\ u \in User
      BY <2>1, Facts DEF TypeOK, Users, UserRow
    <2> HIDE DEF row
    <2>3. RowsStay({})
      BY <2>1, <2>2, UserStays
    <2> QED BY <1>1, <2>1, <2>3, BlankFormed, MoveSound DEF End, Other
  <1>11. CASE RevokeAll(r)
    <2>1. /\ session' = Revoked(LiveOf(tx[r].u)) /\ Goto(r, [tx[r] EXCEPT !.pc = "session"])
          /\ UNCHANGED <<user, company, member, Other>> /\ tx[r].pc = "revoke"
      BY <1>11 DEF RevokeAll
    <2>2. RowsStay({})
      BY <2>1, Facts, RevokedStays DEF TypeOK
    <2>3. tx[r].u \in User /\ tx[r].claims \in Claim
      BY <1>1, <2>1 DEF WellFormed
    <2> DEFINE t == [tx[r] EXCEPT !.pc = "session"]
    <2>4. /\ t \in Request /\ t.op = tx[r].op /\ t.pc = "session" /\ t.u \in User /\ t.claims \in Claim
          /\ tx' = [tx EXCEPT ![r] = t]
      BY <1>1, <2>1, <2>3 DEF Request, Goto
    <2> HIDE DEF t
    <2> QED BY <1>1, <1>3, <2>1, <2>2, <2>4, MoveSound DEF Other
  <1> QED BY <1>2, <1>4, <1>8, <1>9, <1>10, <1>11 DEF VerifyMfa, DisableMfa, RefuseMfa, At

(* A user makes a company of its own or chooses one. *)
LEMMA CompanySound ==
    ASSUME AccessInv, NEW r \in Req, CreateOwnCompany(r) \/ ReadSwitch(r) \/ WriteSwitch(r)
    PROVE  Sound(r)
  <1> DEFINE u == tx[r].u
             c == Claims(u, FALSE)
  <1>1. /\ tx[r] \in Request /\ WellFormed(r, tx[r]) /\ tx[r].pc \in {"read", "company"}
        /\ tx[r].op \in {"COMPANY", "SWITCH"} /\ (tx[r].pc = "company" => tx[r].op = "SWITCH")
    BY Facts DEF CreateOwnCompany, ReadSwitch, WriteSwitch, At
  <1>2. /\ tx[r].u \in User /\ session[r] = None
        /\ tx[r].pc = "company" => tx[r].k \in Company /\ tx[r].claims \in Claim
    BY <1>1 DEF WellFormed
  <1>3. Reject(r) => Sound(r)
    BY <1>1, RejectSound
  <1>4. ASSUME NEW t \in Request, t.op = tx[r].op, t.u \in User, t.claims \in Claim,
               t.pc = "session" \/ (t.pc = "company" /\ t.op = "SWITCH" /\ t.k \in Company)
        PROVE  WellFormed(r, t)
    BY <1>1, <1>2, <1>4 DEF WellFormed
  <1>5. u \in Users => c \in Claim /\ user[u] \in UserRow
    BY ClaimsType
  <1>6. member[u] \in [Company -> Membership \cup {None}] /\ company \in [Company -> BOOLEAN \cup {None}]
    BY <1>2, Facts DEF TypeOK
  <1>7. CASE CreateOwnCompany(r) /\ ~Reject(r)
    <2> DEFINE m == [role |-> user[u].role, default |-> TRUE]
    <2>1. PICK k \in Company \ Companies :
             /\ u \in Users /\ company' = [company EXCEPT ![k] = TRUE]
             /\ member' = [member EXCEPT ![u] = WithDefault(member[u], k, m)]
             /\ Goto(r, [tx[r] EXCEPT !.pc = "session", !.claims = c])
             /\ UNCHANGED <<user, session, Other>>
      BY <1>7 DEF CreateOwnCompany
    <2>2. m \in Membership
      BY <1>5, <2>1 DEF Membership, UserRow
    <2> HIDE DEF m
    <2>3. WithDefault(member[u], k, m) \in [Company -> Membership \cup {None}]
      BY <1>6, <2>2, WithDefaultType
    <2>4. company' \in [Company -> BOOLEAN \cup {None}]
      BY <1>6, <2>1
    <2>5. RowsStay({})
      BY <2>1, <2>3, <2>4, MemberStays
    <2> DEFINE t == [tx[r] EXCEPT !.pc = "session", !.claims = c]
    <2> HIDE DEF c
    <2>6. /\ t \in Request /\ t.op = tx[r].op /\ t.pc = "session" /\ t.u \in User /\ t.claims \in Claim
          /\ tx' = [tx EXCEPT ![r] = t]
      BY <1>1, <1>2, <1>5, <2>1 DEF Request, Goto
    <2> HIDE DEF t
    <2> QED BY <1>1, <1>4, <2>1, <2>5, <2>6, MoveSound DEF Other
  <1>8. CASE ReadSwitch(r) /\ ~Reject(r)
    <2>1. PICK k \in ActiveOf(u) :
             /\ u \in Users
             /\ \/ Step(r, [tx[r] EXCEPT !.pc = "company", !.k = k, !.claims = c])
                \/ Step(r, [tx[r] EXCEPT !.pc = "session", !.claims = c])
      BY <1>8 DEF ReadSwitch
    <2>2. tx[r].op = "SWITCH" /\ k \in Company
      BY <1>8 DEF ReadSwitch, At, ActiveOf, Companies
    <2> HIDE DEF c
    <2> DEFINE t1 == [tx[r] EXCEPT !.pc = "company", !.k = k, !.claims = c]
               t2 == [tx[r] EXCEPT !.pc = "session", !.claims = c]
    <2>3. /\ t1 \in Request /\ t1.op = tx[r].op /\ t1.u \in User /\ t1.claims \in Claim
          /\ t1.pc = "company" /\ t1.k \in Company
      BY <1>1, <1>2, <1>5, <2>1, <2>2 DEF Request
    <2>4. t2 \in Request /\ t2.op = tx[r].op /\ t2.u \in User /\ t2.claims \in Claim /\ t2.pc = "session"
      BY <1>1, <1>2, <1>5, <2>1 DEF Request
    <2>5. Step(r, t1) \/ Step(r, t2)
      BY <2>1
    <2> HIDE DEF t1, t2
    <2> QED BY <1>1, <1>4, <2>2, <2>3, <2>4, <2>5, StepSound
  <1>9. CASE WriteSwitch(r) /\ ~Reject(r)
    <2> DEFINE k == tx[r].k
               m == [member[u][k] EXCEPT !.default = TRUE]
    <2>1. /\ k \in ActiveOf(u) /\ tx[r].pc = "company"
          /\ member' = [member EXCEPT ![u] = WithDefault(member[u], k, m)]
          /\ Goto(r, [tx[r] EXCEPT !.pc = "session"])
          /\ UNCHANGED <<user, company, session, Other>>
      BY <1>9 DEF WriteSwitch, At
    <2>2. k \in Company /\ member[u][k] \in Membership
      BY <1>2, <1>6, <2>1 DEF ActiveOf, Companies
    <2>3. m \in Membership
      BY <2>2 DEF Membership
    <2> HIDE DEF m
    <2>4. u \in Users
      <3>1. member[u] # NoMembers
        BY <2>1, <2>2 DEF ActiveOf, NoMembers
      <3> QED BY <1>2, <3>1, Facts DEF Users
    <2>5. WithDefault(member[u], k, m) \in [Company -> Membership \cup {None}]
      BY <1>6, <2>2, <2>3, WithDefaultType
    <2>6. RowsStay({})
      BY <1>6, <2>1, <2>4, <2>5, MemberStays
    <2> DEFINE t == [tx[r] EXCEPT !.pc = "session"]
    <2>7. /\ t \in Request /\ t.op = tx[r].op /\ t.pc = "session" /\ t.u \in User /\ t.claims \in Claim
          /\ tx' = [tx EXCEPT ![r] = t]
      BY <1>1, <1>2, <2>1 DEF Request, Goto
    <2> HIDE DEF t
    <2> QED BY <1>1, <1>4, <2>1, <2>6, <2>7, MoveSound DEF Other
  <1> QED BY <1>3, <1>7, <1>8, <1>9 DEF WriteSwitch

(* A change is staged. *)
LEMMA StageSound ==
    ASSUME AccessInv, NEW r \in Req, At(r, "ADMIN", "read"), NEW change \in Change, Stage(r, change)
    PROVE  Sound(r)
  <1> DEFINE t == [tx[r] EXCEPT !.pc = "answer", !.put = change]
  <1>1. tx[r] \in Request /\ tx[r].u \in User /\ session[r] = None
    BY Facts DEF WellFormed, At
  <1>2. t \in Request /\ t.op = "ADMIN" /\ t.pc = "answer" /\ t.u \in User /\ t.put = change
    BY <1>1 DEF Request, At
  <1>3. Step(r, t)
    BY DEF Stage
  <1> HIDE DEF t
  <1>4. WellFormed(r, t)
    BY <1>1, <1>2 DEF WellFormed
  <1> QED BY <1>2, <1>3, <1>4, StepSound DEF At

(* A change that fits the tables as they were read: a reset names every live
   session, nobody deletes itself, and memberships come with a new user. *)
Fits(r, c) ==
    /\ c.of = "reset" => LiveOf(c.at) \subseteq c.sessions
    /\ c.of = "user" => /\ c.to = None => c.at # tx[r].u
                        /\ c.to # None => DOMAIN c.in = {} \/ c.at \notin Users

(* What administrators stage are changes that fit. *)
LEMMA StagedIsChange ==
    ASSUME AccessInv, NEW r \in Req,
           \/ CreateCompany(r) \/ ToggleCompany(r) \/ DeleteCompany(r)
           \/ CreateUser(r) \/ UpdateUser(r) \/ ResetPassword(r) \/ DeleteUser(r)
           \/ CreateMember(r) \/ UpdateMember(r) \/ DeleteMember(r)
    PROVE  At(r, "ADMIN", "read") /\ \E change \in Change : Stage(r, change) /\ Fits(r, change)
  <1>1. \A k \in Company, to \in BOOLEAN \cup {None} : [of |-> "company", at |-> k, to |-> to] \in Change
    BY DEF Change
  <1>2. \A u \in User, to \in UserRow \cup {None}, in \in Roles, first \in Company \cup {None} :
           [of |-> "user", at |-> u, to |-> to, in |-> in, first |-> first] \in Change
    BY DEF Change
  <1>3. \A u \in User, ss \in SUBSET Req : [of |-> "reset", at |-> u, sessions |-> ss] \in Change
    BY DEF Change
  <1>4. \A u \in User, k \in Company, to \in Membership \cup {None} :
           [of |-> "member", at |-> u, in |-> k, to |-> to] \in Change
    BY DEF Change
  <1>5. <<>> \in Roles /\ \A ks \in SUBSET Company : [ks -> Role] \subseteq Roles
    <2>1. <<>> \in [{} -> Role] /\ {} \in SUBSET Company
      OBVIOUS
    <2> QED BY <2>1 DEF Roles
  <1>6. \A k \in Companies : k \in Company /\ company[k] \in BOOLEAN /\ (~company[k]) \in BOOLEAN
    BY Facts DEF Companies, TypeOK
  <1>7. CASE CreateCompany(r) \/ ToggleCompany(r) \/ DeleteCompany(r)
    <2>1. PICK k \in Company, to \in BOOLEAN \cup {None} : CompanyTo(r, k, to)
      BY <1>6, <1>7 DEF CreateCompany, ToggleCompany, DeleteCompany
    <2> DEFINE change == [of |-> "company", at |-> k, to |-> to]
    <2>2. change \in Change /\ Fits(r, change) /\ Stage(r, change)
      BY <1>1, <2>1 DEF CompanyTo, Fits
    <2> QED BY <1>7, <2>2 DEF CreateCompany, ToggleCompany, DeleteCompany
  <1>8. CASE CreateUser(r)
    <2>1. PICK u \in User \ Users, role \in Role, must \in BOOLEAN, mfa \in BOOLEAN,
              ks \in SUBSET {k \in Companies : company[k]} :
            \E first \in ks, roles \in [ks -> Role] :
               Stage(r, [of |-> "user", at |-> u,
                         to |-> [role |-> role, mustChange |-> must, mfa |-> mfa,
                                 secret |-> FALSE, pending |-> FALSE], in |-> roles, first |-> first])
      BY <1>8 DEF CreateUser
    <2> DEFINE to == [role |-> role, mustChange |-> must, mfa |-> mfa, secret |-> FALSE, pending |-> FALSE]
    <2>2. to \in UserRow
      BY DEF UserRow
    <2>3. PICK first \in ks, roles \in [ks -> Role] :
            Stage(r, [of |-> "user", at |-> u, to |-> to, in |-> roles, first |-> first])
      BY <2>1
    <2> HIDE DEF to
    <2>4. first \in Company /\ ks \subseteq Company
      BY <1>6
    <2>5. roles \in Roles
      BY <1>5, <2>4
    <2>6. [of |-> "user", at |-> u, to |-> to, in |-> roles, first |-> first] \in Change
      BY <1>2, <2>2, <2>4, <2>5
    <2>7. Fits(r, [of |-> "user", at |-> u, to |-> to, in |-> roles, first |-> first])
      <3>1. to # None
        BY <2>2, AccessConstants
      <3> QED BY <3>1 DEF Fits
    <2> QED BY <1>8, <2>3, <2>6, <2>7 DEF CreateUser
  <1>9. CASE UpdateUser(r)
    <2>1. PICK u \in Users, role \in Role, must \in BOOLEAN, mfa \in BOOLEAN :
            Stage(r, [of |-> "user", at |-> u, in |-> <<>>, first |-> None,
                      to |-> [user[u] EXCEPT !.role = role, !.mustChange = must, !.mfa = mfa]])
      BY <1>9 DEF UpdateUser
    <2> DEFINE to == [user[u] EXCEPT !.role = role, !.mustChange = must, !.mfa = mfa]
    <2>2. u \in User /\ user[u] \in UserRow
      BY ClaimsType DEF Users
    <2>3. to \in UserRow
      BY <2>2 DEF UserRow
    <2> HIDE DEF to
    <2>4. Stage(r, [of |-> "user", at |-> u, to |-> to, in |-> <<>>, first |-> None])
      <3>1. [of |-> "user", at |-> u, in |-> <<>>, first |-> None, to |-> to]
              = [of |-> "user", at |-> u, to |-> to, in |-> <<>>, first |-> None]
        OBVIOUS
      <3> QED BY <2>1, <3>1 DEF to
    <2>5. [of |-> "user", at |-> u, to |-> to, in |-> <<>>, first |-> None] \in Change
      BY <1>2, <1>5, <2>2, <2>3
    <2>6. Fits(r, [of |-> "user", at |-> u, to |-> to, in |-> <<>>, first |-> None])
      <3>1. to # None /\ DOMAIN <<>> = {}
        BY <2>3, AccessConstants
      <3> QED BY <3>1 DEF Fits
    <2> QED BY <1>9, <2>4, <2>5, <2>6 DEF UpdateUser
  <1>10. CASE ResetPassword(r)
    <2>1. PICK u \in Users : Stage(r, [of |-> "reset", at |-> u, sessions |-> LiveOf(u)])
      BY <1>10 DEF ResetPassword
    <2>2. u \in User /\ LiveOf(u) \in SUBSET Req
      BY DEF Users, LiveOf, Live, Sessions
    <2>3. [of |-> "reset", at |-> u, sessions |-> LiveOf(u)] \in Change
      BY <1>3, <2>2
    <2>4. Fits(r, [of |-> "reset", at |-> u, sessions |-> LiveOf(u)])
      BY DEF Fits
    <2> QED BY <1>10, <2>1, <2>3, <2>4 DEF ResetPassword
  <1>11. CASE DeleteUser(r)
    <2>1. PICK u \in Users \ {tx[r].u} :
             Stage(r, [of |-> "user", at |-> u, to |-> None, in |-> <<>>, first |-> None])
      BY <1>11 DEF DeleteUser
    <2>2. [of |-> "user", at |-> u, to |-> None, in |-> <<>>, first |-> None] \in Change
      BY <1>2, <1>5 DEF Users
    <2>3. Fits(r, [of |-> "user", at |-> u, to |-> None, in |-> <<>>, first |-> None])
      BY DEF Fits
    <2> QED BY <1>11, <2>1, <2>2, <2>3 DEF DeleteUser
  <1>12. CASE CreateMember(r) \/ UpdateMember(r) \/ DeleteMember(r)
    <2>1. PICK u \in Users, k \in Companies, to \in Membership \cup {None} : MemberTo(r, u, k, to)
      BY <1>12 DEF CreateMember, UpdateMember, DeleteMember
    <2> DEFINE change == [of |-> "member", at |-> u, in |-> k, to |-> to]
    <2>2. change \in Change
      BY <1>4 DEF Users, Companies
    <2>3. Fits(r, change) /\ Stage(r, change)
      BY <2>1 DEF Fits, MemberTo
    <2> QED BY <1>12, <2>2, <2>3 DEF CreateMember, UpdateMember, DeleteMember
  <1> QED BY <1>7, <1>8, <1>9, <1>10, <1>11, <1>12

(* The steps of an administrator's request. *)
LEMMA AdminSound ==
    ASSUME AccessInv, NEW r \in Req,
           \/ AdmitAdmin(r) \/ CreateCompany(r) \/ ToggleCompany(r) \/ DeleteCompany(r)
           \/ CreateUser(r) \/ UpdateUser(r) \/ ResetPassword(r) \/ DeleteUser(r)
           \/ CreateMember(r) \/ UpdateMember(r) \/ DeleteMember(r) \/ RefuseChange(r)
           \/ CommitChange(r) \/ Disconnect(r) \/ Abort(r)
    PROVE  Sound(r)
  <1>1. tx[r] \in Request /\ WellFormed(r, tx[r])
    BY Facts
  <1>2. CASE AdmitAdmin(r)
    <2>1. Reject(r) => Sound(r)
      BY <1>2, RejectSound DEF AdmitAdmin, At
    <2>2. ASSUME NEW s \in Sessions, Step(r, [tx[r] EXCEPT !.pc = "read", !.s = s, !.u = session[s].user])
          PROVE  Sound(r)
      <3> DEFINE t == [tx[r] EXCEPT !.pc = "read", !.s = s, !.u = session[s].user]
      <3>1. s \in Req /\ session[s].user \in User /\ session[r] = None
        BY <1>1, <1>2, Facts DEF Sessions, AdmitAdmin, At, WellFormed
      <3>2. t \in Request /\ t.op = "ADMIN" /\ t.pc = "read" /\ t.u \in User
        BY <1>1, <1>2, <3>1 DEF Request, AdmitAdmin, At
      <3>3. Step(r, t)
        BY <2>2
      <3> HIDE DEF t
      <3>4. WellFormed(r, t)
        BY <3>1, <3>2 DEF WellFormed
      <3> QED BY <1>2, <3>2, <3>3, <3>4, StepSound DEF AdmitAdmin, At
    <2> QED BY <1>2, <2>1, <2>2 DEF AdmitAdmin
  <1>3. CASE RefuseChange(r)
    BY <1>3, RejectSound DEF RefuseChange, At
  <1>4. CASE Abort(r)
    <2>1. tx[r].pc \in Running /\ tx[r].op = "ADMIN" /\ Reject(r)
      BY <1>4 DEF Abort, InFlight
    <2>2. tx[r].pc # "deny"
      BY <1>1, <2>1 DEF WellFormed
    <2> QED BY <2>1, <2>2, RejectSound
  <1>5. CASE CommitChange(r) \/ Disconnect(r)
    <2>1. tx[r].pc = "answer" /\ tx[r].put \in Change
      BY <1>1, <1>5 DEF CommitChange, Disconnect, At, WellFormed
    <2>2. PICK p \in Change \cup Clear : Apply(p)
      BY <1>5, <2>1, FirstWriteType DEF CommitChange, Disconnect
    <2>3. RowsStay({})
      BY <2>2, ApplyStays
    <2>4. PICK label \in {"done", "cut"} : tx' = [tx EXCEPT ![r] = Blank(label)]
      BY <1>5 DEF CommitChange, Disconnect, End
    <2>5. UNCHANGED Other
      BY <1>5 DEF CommitChange, Disconnect
    <2> QED BY <2>1, <2>3, <2>4, <2>5, BlankFormed, MoveSound DEF Other
  <1> QED BY <1>2, <1>3, <1>4, <1>5, StagedIsChange, StageSound

(* Every step is a restart or a sound step of one request. *)
LEMMA StepKinds ==
    ASSUME AccessInv, Next
    PROVE  Restart \/ \E r \in Req : (Arrive(r) \/ Handle(r)) /\ Sound(r)
  BY ArriveSound, EntrySound, SessionSound, LogoutSound, SelfSound, CompanySound, AdminSound
     DEF Next, Handle

(* A restart stops the requests and leaves the rows. *)
LEMMA RestartKeeps ==
    ASSUME AccessInv, Restart
    PROVE  AccessInv' /\ (\A s : Over(s) => Over(s)') /\ restarts' # 0 /\ Live' = Live
  <1>1. /\ user' = user /\ company' = company /\ member' = member /\ session' = session
        /\ restarts' = restarts + 1 /\ restarts \in Nat
        /\ Live' = Live /\ Sessions' = Sessions /\ Users' = Users /\ NoMembers' = NoMembers
    BY Facts DEF Restart, rows, TypeOK, Live, Sessions, Users, NoMembers
  <1>2. \A r \in Req : /\ tx'[r] = Blank("done") \/ tx'[r] = tx[r]
                       /\ tx[r].pc \notin Running => tx'[r] = tx[r]
    BY DEF Restart, InFlight
  <1>3. Blank("done") \in Request /\ Blank("done").pc = "done"
    BY BlankFormed DEF Blank, Request
  <1>4. \A s : Over(s) => Over(s)'
    BY <1>2 DEF Over
  <1>5. TypeOK'
    <2>1. tx' \in [Req -> Request]
      <3>1. \A r \in Req : tx'[r] \in Request
        BY <1>2, <1>3, Facts
      <3> QED BY <3>1 DEF Restart
    <2> QED BY <1>1, <2>1, Facts DEF TypeOK
  <1>6. ASSUME NEW r \in Req PROVE WellFormed(r, tx[r])'
    <2>1. CASE tx'[r] = Blank("done")
      BY <1>3, <2>1 DEF WellFormed
    <2>2. CASE tx'[r] = tx[r]
      <3>1. WellFormed(r, tx[r])
        BY Facts
      <3> QED BY <1>1, <1>4, <2>2, <3>1 DEF WellFormed
    <2> QED BY <1>2, <2>1, <2>2
  <1>7. \A s \in Sessions' : /\ session'[s].user \in Users'
                             /\ session'[s].parent # None => Over(session[s].parent)'
    BY <1>1, <1>4 DEF AccessInv
  <1> QED BY <1>1, <1>4, <1>5, <1>6, <1>7 DEF AccessInv

-----------------------------------------------------------------------------
(* The theorems. *)

(* The empty and the seeded database satisfy the invariant. *)
LEMMA AccessStart ==
    ASSUME Init \/ Seeded
    PROVE  AccessInv
  <1>1. CASE Init
    <2>1. /\ \A r \in Req : tx[r] = Blank("idle") /\ session[r] = None
          /\ Sessions = {} /\ \A u \in User : member[u] = NoMembers
      BY <1>1 DEF Init, Sessions, NoMembers
    <2>2. Blank("idle") \in Request /\ Blank("idle").pc = "idle"
      BY DEF Blank, Request
    <2>3. TypeOK
      BY <1>1, <2>2 DEF Init, TypeOK
    <2>4. \A r \in Req : WellFormed(r, tx[r])
      BY <2>1, <2>2 DEF WellFormed
    <2> QED BY <2>1, <2>3, <2>4 DEF AccessInv
  <1>2. CASE Seeded
    <2> DEFINE row == NewSession(u1, Signed, None)
               m == [role |-> "ADMIN", default |-> TRUE]
    <2>1. Chief \in UserRow /\ Signed \in Claim /\ m \in Membership
      BY DEF Chief, Signed, UserRow, Claim, Membership
    <2>2. Chief # None
      BY <2>1, AccessConstants
    <2>3. row \in SessionRow /\ row.user = u1 /\ row.parent = None
      BY <2>1, SeedConstants DEF NewSession, SessionRow
    <2>4. \A label \in {"idle", "done"} : Blank(label) \in Request /\ Blank(label).pc = label
      BY DEF Blank, Request
    <2> HIDE DEF row, m
    <2>5. /\ user = [u \in User |-> IF u = u1 THEN Chief ELSE None]
          /\ company = [k \in Company |-> IF k = k1 THEN TRUE ELSE None]
          /\ member = [u \in User |-> [k \in Company |-> IF u = u1 /\ k = k1 THEN m ELSE None]]
          /\ session = [r \in Req |-> IF r = r0 THEN row ELSE None]
          /\ restarts = 0
          /\ tx = [r \in Req |-> Blank(IF r = r0 THEN "done" ELSE "idle")]
      BY <1>2 DEF Seeded, row, m
    <2>6. TypeOK
      BY <2>1, <2>3, <2>4, <2>5 DEF TypeOK
    <2>7. \A r \in Req : WellFormed(r, tx[r])
      BY <2>4, <2>5 DEF WellFormed
    <2>8. \A s \in Sessions : session[s].user \in Users /\ session[s].parent = None
      BY <2>2, <2>3, <2>5, SeedConstants DEF Sessions, Users
    <2>9. \A u \in User \ Users : member[u] = NoMembers
      BY <2>2, <2>5 DEF Users, NoMembers
    <2> QED BY <2>6, <2>7, <2>8, <2>9 DEF AccessInv
  <1> QED BY <1>1, <1>2

(* The invariant is inductive. *)
LEMMA AccessStep ==
    ASSUME AccessInv, [Next]_vars
    PROVE  AccessInv'
  <1>1. CASE Next
    BY <1>1, StepKinds, SoundKeeps, RestartKeeps
  <1>2. CASE UNCHANGED vars
    BY <1>2 DEF vars, rows, AccessInv, TypeOK, WellFormed, Over, Sessions, Live, Users, NoMembers
  <1> QED BY <1>1, <1>2

(* Whatever requests do at the same time and wherever the process restarts,
   sessions and memberships belong to users there are, a session is made only
   by a request that then is over, and a logout has ended its session before
   it denies it. *)
THEOREM AccessInvariance == Spec => []AccessInv
  <1>1. Init => AccessInv
    BY AccessStart
  <1>2. AccessInv /\ [Next]_vars => AccessInv'
    BY AccessStep
  <1> QED BY <1>1, <1>2, PTL DEF Spec

(* A session a logout ended stays ended and denied. *)
LEMMA LogoutStep ==
    ASSUME LogoutInv, [HistoryNext]_<<vars, history>>
    PROVE  LogoutInv'
  <1>1. CASE HistoryNext
    <2>1. AccessInv /\ Next
      BY <1>1 DEF LogoutInv, HistoryNext
    <2>2. CASE Restart
      <3>1. Ending("LOGOUT", "deny") = {}
        <4>1. restarts' # restarts
          BY <2>1, <2>2, Facts DEF Restart, TypeOK
        <4> QED BY <4>1 DEF Ending
      <3>2. out' = out
        BY <1>1, <3>1 DEF HistoryNext
      <3> QED BY <2>1, <2>2, <3>2, RestartKeeps DEF LogoutInv
    <2>3. ASSUME NEW r \in Req, Sound(r) PROVE LogoutInv'
      <3>1. AccessInv' /\ \A q \in Req \ {r} : tx'[q] = tx[q]
        BY <2>1, <2>3, SoundKeeps, OverStays DEF Sound
      <3>2. \A s : Over(s) => s # r /\ Over(s)'
        BY <2>1, <2>3, OverStays DEF Sound
      <3>3. \A q \in Ending("LOGOUT", "deny") : q = r /\ tx[r].pc = "deny"
        BY <3>1 DEF Ending
      <3>4. \A s \in out' : s \in out \/ (s = tx[r].s /\ tx[r].pc = "deny")
        BY <1>1, <3>3 DEF HistoryNext
      <3>5. tx[r].pc = "deny" => Over(tx[r].s) /\ tx[r].s \notin Live /\ tx[r].s \in redis' \cup memory'
        BY <2>1, <2>3, Facts DEF Sound, WellFormed
      <3>6. ASSUME NEW s \in out'
            PROVE  Over(s)' /\ s \notin Live' /\ (restarts' = 0 => s \in redis' \cup memory')
        <4>1. Over(s) /\ s \notin Live
          BY <3>4, <3>5 DEF LogoutInv
        <4>2. restarts' = 0 => s \in redis' \cup memory'
          BY <2>3, <3>4, <3>5 DEF LogoutInv, Denied, Sound
        <4>3. s \notin Live'
          BY <2>3, <3>2, <4>1 DEF Sound, RowsStay, Live, Sessions, Over
        <4> QED BY <3>2, <4>1, <4>2, <4>3
      <3> QED BY <3>1, <3>6 DEF LogoutInv, Denied
    <2> QED BY <2>1, <2>2, <2>3, StepKinds
  <1>2. CASE UNCHANGED <<vars, history>>
    <2>1. AccessInv'
      BY <1>2, AccessStep DEF LogoutInv
    <2> QED BY <1>2, <2>1 DEF LogoutInv, vars, rows, history, Over, Live, Sessions, Denied
  <1> QED BY <1>1, <1>2

(* LogoutIsFinal for every number of requests, users and companies: whatever
   refreshes, password changes, resets and deletions run meanwhile, no token of
   a session that a logout ended is good again before a restart. *)
THEOREM LogoutsAreFinal == HistorySpec => []LogoutIsFinal
  <1>1. HistoryInit => LogoutInv
    BY AccessStart DEF HistoryInit, LogoutInv
  <1>2. LogoutInv /\ [HistoryNext]_<<vars, history>> => LogoutInv'
    BY LogoutStep
  <1>3. LogoutInv => LogoutIsFinal
    BY DEF LogoutInv, LogoutIsFinal
  <1> QED BY <1>1, <1>2, <1>3, PTL DEF HistorySpec

-----------------------------------------------------------------------------
(* Requests that come one at a time. *)

(* No user has two default companies. *)
OneDefault == \A u \in User : \A j, k \in DefaultsOf(u) : j = k

(* What a request that runs alone may count on. *)
Alone(r) == AccessInv /\ Current(tx[r]) /\ OneDefault

(* What a step of such a request does beside being Sound: a session it makes
   has no parent or ends it, a reset ends the sessions it names, and users do
   not run out. *)
Order(r) ==
    /\ Current(tx[r])'
    /\ session'[r] # None =>
          \/ session'[r].parent = None
          \/ /\ tx[r].op = "REFRESH" /\ tx[r].pc = "session" /\ session'[r].parent = tx[r].s
             /\ tx[r].s \notin Live' /\ session'[r].user = tx[r].u
    /\ tx[r].pc = "answer" /\ tx[r].put.of = "reset" =>
          UNCHANGED <<user, session>> \/ \A s \in tx[r].put.sessions : s \notin Live'
    /\ OneDefault'
    /\ tx[r].op = "BOOTSTRAP" /\ tx'[r].pc = "consume" => Users' # {}
    /\ Users # {} => Users' # {}

(* Places where a request counts on nothing it has read. *)
Plain(t) ==
    /\ t.pc \notin {"answer", "consume"}
    /\ t.pc = "session" => t.op \notin {"REFRESH", "PASSWORD", "MFA"}
    /\ t.op = "BOOTSTRAP" => t.pc # "user"
    /\ t.op = "ADMIN" => t.pc # "read"

(* A request that counts on nothing it read cannot be out of date. *)
LEMMA PlainOrder ==
    ASSUME NEW r \in Req, Alone(r), Plain(tx'[r]), session'[r] = None, Users \subseteq Users', OneDefault',
           tx[r].pc = "answer" => UNCHANGED <<user, session>>
    PROVE  Order(r)
  <1>1. Current(tx[r])'
    BY DEF Plain, Current
  <1> QED BY <1>1 DEF Order, Plain

(* Rows that stay. *)
LEMMA RowsOrder ==
    ASSUME NEW r \in Req, Alone(r), tx[r].pc \notin Finished, UNCHANGED rows, tx'[r].pc # "consume",
           Current(tx[r])'
    PROVE  Order(r)
  <1>1. session[r] = None
    BY Facts DEF Alone, WellFormed, Request
  <1>2. Users' = Users /\ user' = user /\ session' = session
    BY DEF rows, Users
  <1>3. OneDefault'
    BY DEF Alone, OneDefault, DefaultsOf, rows
  <1> QED BY <1>1, <1>2, <1>3 DEF Order

(* A step that moves only the request keeps the rows in order. *)
LEMMA StepOrder ==
    ASSUME NEW r \in Req, Alone(r), tx[r].pc \notin Finished, NEW t \in Request, Step(r, t), t.pc # "consume",
           Current(t)
    PROVE  Order(r)
  <1>1. UNCHANGED rows /\ tx'[r] = t
    BY Facts DEF Step, Goto, Alone, TypeOK
  <1>2. Current(tx[r])'
    <2>1. Live' = Live /\ Users' = Users /\ \A u : LiveOf(u)' = LiveOf(u)
      BY <1>1 DEF rows, Live, Sessions, Users, LiveOf
    <2> QED BY <1>1, <2>1 DEF Current
  <1> QED BY <1>1, <1>2, RowsOrder

(* A request that ends without writing keeps the rows in order. *)
LEMMA EndOrder ==
    ASSUME NEW r \in Req, Alone(r), tx[r].pc \notin Finished, End(r), UNCHANGED rows
    PROVE  Order(r)
  <1>1. tx'[r] = Blank("done") /\ Blank("done").pc = "done"
    BY Facts DEF End, Alone, TypeOK, Blank
  <1>2. Current(tx[r])'
    BY <1>1 DEF Current
  <1> QED BY <1>1, <1>2, RowsOrder

(* A request arrives. *)
LEMMA ArriveOrder ==
    ASSUME NEW r \in Req, Alone(r), Arrive(r)
    PROVE  Order(r)
  <1>1. ASSUME NEW op \in Op, NEW label \in {"auth", "read", "user", "revoke"},
               op = "BOOTSTRAP" => label = "read", op = "ADMIN" => label = "auth",
               Start(r, [Blank(label) EXCEPT !.op = op])
        PROVE  Order(r)
    <2> DEFINE t == [Blank(label) EXCEPT !.op = op]
    <2>1. t \in Request /\ t.pc = label /\ t.op = op
      BY DEF Blank, Request
    <2>2. tx[r].pc = "idle" /\ Step(r, t)
      BY <1>1 DEF Start
    <2> HIDE DEF t
    <2>3. Current(t)
      BY <1>1, <2>1 DEF Current
    <2> QED BY <2>1, <2>2, <2>3, StepOrder
  <1>2. Blank("read") = [Blank("read") EXCEPT !.op = "LOGIN"]
    BY DEF Blank
  <1>3. Login(r) => Order(r)
    BY <1>1, <1>2 DEF Login
  <1>4. Register(r) \/ Bootstrap(r) \/ Refresh(r) \/ Logout(r) => Order(r)
    BY <1>1 DEF Register, Bootstrap, Refresh, Logout
  <1>5. ChangePassword(r) \/ Mfa(r) \/ OwnCompany(r) \/ SwitchCompany(r) \/ AdminRequest(r) => Order(r)
    BY <1>1 DEF ChangePassword, Mfa, OwnCompany, SwitchCompany, AdminRequest
  <1> QED BY <1>3, <1>4, <1>5 DEF Arrive

(* What leaves the memberships alone leaves the defaults alone. *)
LEMMA DefaultsSame ==
    ASSUME OneDefault, UNCHANGED member
    PROVE  OneDefault'
  BY DEF OneDefault, DefaultsOf

(* After a membership has become the default it is the only one. *)
LEMMA DefaultMoves ==
    ASSUME AccessInv, OneDefault, NEW u \in User, NEW k \in Company, NEW m \in Membership,
           member' = [member EXCEPT ![u] = WithDefault(member[u], k, m)]
    PROVE  OneDefault'
  <1>1. member \in [User -> [Company -> Membership \cup {None}]]
    BY Facts DEF TypeOK
  <1>2. member'[u] = WithDefault(member[u], k, m) /\ \A v \in User \ {u} : member'[v] = member[v]
    BY <1>1
  <1>3. \A j \in Company \ {k} : member'[u][j] = None \/ ~member'[u][j].default
    <2> SUFFICES ASSUME NEW j \in Company \ {k}, member'[u][j] # None
                 PROVE  ~member'[u][j].default
      OBVIOUS
    <2>1. member[u][j] \in Membership /\ member'[u][j] = [member[u][j] EXCEPT !.default = FALSE]
      BY <1>1, <1>2 DEF WithDefault
    <2> QED BY <2>1 DEF Membership
  <1>4. \A j \in DefaultsOf(u)' : j = k
    BY <1>3 DEF DefaultsOf
  <1>5. \A v \in User \ {u} : DefaultsOf(v)' = DefaultsOf(v)
    BY <1>2 DEF DefaultsOf
  <1> QED BY <1>4, <1>5 DEF OneDefault

(* Login, registration and bootstrap: only an empty database gets a founder. *)
LEMMA EntryOrder ==
    ASSUME NEW r \in Req, Alone(r),
           ReadLogin(r) \/ RegisterUser(r) \/ ReadBootstrap(r) \/ BootstrapUser(r) \/ ConsumeToken(r)
    PROVE  Order(r)
  <1>1. /\ AccessInv /\ tx[r] \in Request /\ WellFormed(r, tx[r]) /\ OneDefault
        /\ tx[r].pc \in {"read", "user", "consume"} /\ tx[r].op \in {"LOGIN", "REGISTER", "BOOTSTRAP"}
        /\ tx \in [Req -> Request]
    BY Facts DEF Alone, ReadLogin, RegisterUser, ReadBootstrap, BootstrapUser, ConsumeToken, At, TypeOK
  <1>2. session[r] = None
    BY <1>1 DEF WellFormed
  <1>3. Reject(r) => Order(r)
    BY <1>1, EndOrder DEF Reject
  <1>4. CASE ReadLogin(r) /\ ~Reject(r)
    <2>1. PICK u \in Users : Step(r, [tx[r] EXCEPT !.pc = "session", !.u = u, !.claims = Claims(u, TRUE)])
      BY <1>4 DEF ReadLogin
    <2>2. Claims(u, TRUE) \in Claim /\ u \in User /\ tx[r].op = "LOGIN"
      BY <1>1, <1>4, ClaimsType DEF Users, ReadLogin, At
    <2> DEFINE t == [tx[r] EXCEPT !.pc = "session", !.u = u, !.claims = Claims(u, TRUE)]
    <2>3. t \in Request /\ t.op = "LOGIN" /\ t.pc = "session" /\ Step(r, t)
      BY <1>1, <2>1, <2>2 DEF Request
    <2> HIDE DEF t
    <2>4. Current(t)
      BY <2>3 DEF Current
    <2> QED BY <1>1, <2>3, <2>4, StepOrder
  <1>5. CASE RegisterUser(r) /\ ~Reject(r)
    <2>1. PICK u \in User \ Users, row \in UserRow, c \in Claim :
             /\ user' = [user EXCEPT ![u] = row]
             /\ Goto(r, [tx[r] EXCEPT !.pc = "session", !.u = u, !.claims = c])
             /\ UNCHANGED <<company, member, session, Other>>
      <3>1. [role |-> "ACCOUNTANT", mustChange |-> FALSE, mfa |-> FALSE, secret |-> FALSE, pending |-> FALSE]
              \in UserRow
        BY DEF UserRow
      <3>2. [role |-> "ACCOUNTANT", mustChange |-> FALSE, mfa |-> FALSE, select |-> TRUE] \in Claim
        BY DEF Claim
      <3> QED BY <1>5, <3>1, <3>2 DEF RegisterUser
    <2>2. tx[r].op = "REGISTER" /\ tx[r].pc = "user"
      BY <1>5 DEF RegisterUser, At
    <2>3. tx'[r].pc = "session" /\ tx'[r].op = "REGISTER"
      BY <1>1, <2>1, <2>2 DEF Goto, Request
    <2>4. Users \subseteq Users'
      BY <1>1, <2>1, Facts, AccessConstants DEF Users, TypeOK
    <2>5. OneDefault' /\ session'[r] = None
      BY <1>1, <1>2, <2>1, DefaultsSame
    <2>6. Plain(tx'[r])
      BY <2>3 DEF Plain
    <2> QED BY <2>2, <2>4, <2>5, <2>6, PlainOrder
  <1>6. CASE ReadBootstrap(r) /\ ~Reject(r)
    <2> DEFINE t == [tx[r] EXCEPT !.pc = "user"]
    <2>1. t \in Request /\ t.op = "BOOTSTRAP" /\ t.pc = "user" /\ Users = {} /\ Step(r, t)
      BY <1>1, <1>6 DEF Request, ReadBootstrap, At, MayBootstrap
    <2> HIDE DEF t
    <2>2. Current(t)
      BY <2>1 DEF Current
    <2> QED BY <1>1, <2>1, <2>2, StepOrder
  <1>7. CASE BootstrapUser(r) /\ ~Reject(r)
    <2>1. PICK u \in User \ Users, k \in Company, row \in UserRow :
             /\ user' = [user EXCEPT ![u] = row]
             /\ member' = [member EXCEPT ![u][k] = [role |-> "ADMIN", default |-> TRUE]]
             /\ Goto(r, [tx[r] EXCEPT !.pc = "consume"])
             /\ session' = session
      <3>1. [role |-> "ADMIN", mustChange |-> TRUE, mfa |-> FALSE, secret |-> FALSE, pending |-> FALSE]
              \in UserRow
        BY DEF UserRow
      <3> QED BY <1>7, <3>1 DEF BootstrapUser
    <2>2. u \in Users' /\ tx[r].op = "BOOTSTRAP" /\ tx[r].pc = "user"
      BY <1>1, <1>7, <2>1, Facts, AccessConstants DEF Users, TypeOK, BootstrapUser, At
    <2>3. tx'[r].pc = "consume"
      BY <1>1, <2>1 DEF Goto, Request
    <2>4. OneDefault'
      <3>1. member[u] = NoMembers /\ member \in [User -> [Company -> Membership \cup {None}]]
        BY <1>1, Facts DEF Users, TypeOK
      <3>2. /\ \A v \in User \ {u} : member'[v] = member[v]
            /\ \A j \in Company \ {k} : member'[u][j] = None
        BY <2>1, <3>1 DEF NoMembers
      <3>3. \A j \in DefaultsOf(u)' : j = k
        BY <3>2 DEF DefaultsOf
      <3>4. \A v \in User \ {u} : DefaultsOf(v)' = DefaultsOf(v)
        BY <3>2 DEF DefaultsOf
      <3> QED BY <1>1, <3>3, <3>4 DEF OneDefault
    <2>5. Current(tx[r])'
      BY <2>3 DEF Current
    <2> QED BY <1>2, <2>1, <2>2, <2>3, <2>4, <2>5 DEF Order
  <1>8. CASE ConsumeToken(r)
    BY <1>1, <1>8, EndOrder DEF ConsumeToken
  <1> QED BY <1>3, <1>4, <1>5, <1>6, <1>7, <1>8

(* A session is issued or rotated: the rotated one was still live. *)
LEMMA SessionOrder ==
    ASSUME NEW r \in Req, Alone(r), IssueSession(r) \/ Rotate(r)
    PROVE  Order(r)
  <1>1. /\ AccessInv /\ tx[r] \in Request /\ tx[r].pc = "session" /\ OneDefault
        /\ tx \in [Req -> Request] /\ session \in [Req -> SessionRow \cup {None}]
    BY Facts DEF Alone, IssueSession, Rotate, At, TypeOK
  <1>2. Reject(r) => Order(r)
    BY <1>1, EndOrder DEF Reject
  <1>3. SUFFICES ASSUME ~Reject(r) PROVE Order(r)
    BY <1>2
  <1>4. End(r) /\ UNCHANGED <<user, company, member, Other>>
    BY <1>3 DEF IssueSession, Rotate
  <1>5. tx'[r] = Blank("done") /\ Blank("done").pc = "done"
    BY <1>1, <1>4 DEF End, Blank
  <1>6. Current(tx[r])' /\ OneDefault' /\ Users' = Users
    BY <1>1, <1>4, <1>5, DefaultsSame DEF Current, Users
  <1>7. CASE IssueSession(r)
    <2>1. session' = [session EXCEPT ![r] = NewSession(tx[r].u, tx[r].claims, None)]
      BY <1>3, <1>7 DEF IssueSession
    <2>2. session'[r].parent = None
      BY <1>1, <2>1 DEF NewSession
    <2> QED BY <1>1, <1>5, <1>6, <2>2 DEF Order
  <1>8. CASE Rotate(r)
    <2> DEFINE s == tx[r].s
    <2>1. /\ tx[r].op = "REFRESH" /\ s \in Sessions
          /\ session' = [session EXCEPT ![s].live = FALSE, ![r] = NewSession(tx[r].u, tx[r].claims, s)]
      BY <1>3, <1>8 DEF Rotate, At
    <2>2. s \in Req /\ s # r
      BY <1>1, <2>1, Facts DEF WellFormed, Over
    <2>3. session'[r] = NewSession(tx[r].u, tx[r].claims, s)
      BY <1>1, <2>1
    <2>4. session'[r].parent = s /\ session'[r].user = tx[r].u
      BY <2>3 DEF NewSession
    <2>5. s \notin Live'
      <3>1. session'[s] = [session[s] EXCEPT !.live = FALSE] /\ session[s] \in SessionRow
        BY <1>1, <2>1, <2>2 DEF Sessions
      <3> QED BY <3>1 DEF Live, SessionRow
    <2> QED BY <1>1, <1>5, <1>6, <2>1, <2>4, <2>5 DEF Order
  <1> QED BY <1>7, <1>8

(* Ended sessions are not live, and no session comes with them. *)
LEMMA RevokedNotLive ==
    ASSUME AccessInv, NEW ss, session' = Revoked(ss)
    PROVE  /\ \A s \in ss : s \notin Live'
           /\ Live' \subseteq Live
           /\ \A s \in Live' : session'[s].user = session[s].user
           /\ \A s \in Req : session[s] = None => session'[s] = None
  <1>1. \A s \in Req : session[s] # None =>
           /\ [session[s] EXCEPT !.live = FALSE].user = session[s].user
           /\ [session[s] EXCEPT !.live = FALSE].live = FALSE
    BY Facts DEF SessionRow
  <1>2. \A s \in Req : session'[s] = IF session[s] # None /\ s \in ss
                                     THEN [session[s] EXCEPT !.live = FALSE] ELSE session[s]
    BY DEF Revoked, Sessions
  <1> QED BY <1>1, <1>2 DEF Live, Sessions

(* Refresh reads a session; logout revokes and denies one. *)
LEMMA LogoutOrder ==
    ASSUME NEW r \in Req, Alone(r), ReadSession(r) \/ RevokeSession(r) \/ DenySession(r)
    PROVE  Order(r)
  <1>1. /\ AccessInv /\ tx[r] \in Request /\ OneDefault /\ tx[r].pc \in {"read", "revoke", "deny"}
        /\ tx \in [Req -> Request]
    BY Facts DEF Alone, ReadSession, RevokeSession, DenySession, At, TypeOK
  <1>2. session[r] = None
    BY <1>1, Facts DEF WellFormed
  <1>3. CASE ReadSession(r) /\ ~Reject(r)
    <2>1. PICK s \in Live :
             Step(r, [tx[r] EXCEPT !.pc = "session", !.s = s, !.u = session[s].user,
                        !.claims = Claims(session[s].user, session[s].claims.select)])
      BY <1>3 DEF ReadSession
    <2> DEFINE c == Claims(session[s].user, session[s].claims.select)
               t == [tx[r] EXCEPT !.pc = "session", !.s = s, !.u = session[s].user, !.claims = c]
    <2>2. s \in Req /\ session[s] \in SessionRow /\ session[s].user \in Users
      BY <1>1, Facts DEF Live, Sessions, Users
    <2>3. session[s].claims.select \in BOOLEAN /\ session[s].user \in User
      BY <2>2 DEF SessionRow, Claim
    <2>4. c \in Claim
      BY <1>1, <2>2, <2>3, ClaimsType
    <2> HIDE DEF c
    <2>5. t \in Request /\ t.op = "REFRESH" /\ t.pc = "session" /\ t.s = s
      BY <1>1, <1>3, <2>2, <2>3, <2>4 DEF Request, ReadSession, At
    <2>6. Step(r, t)
      BY <2>1 DEF c
    <2> HIDE DEF t
    <2>7. Current(t)
      BY <2>5 DEF Current
    <2> QED BY <1>1, <2>5, <2>6, <2>7, StepOrder
  <1>4. CASE RevokeSession(r)
    <2>1. PICK s \in Sessions : /\ session' = [session EXCEPT ![s].live = FALSE]
                                /\ Goto(r, [tx[r] EXCEPT !.pc = "deny", !.s = s])
      BY <1>4 DEF RevokeSession
    <2>2. session' = Revoked({s}) /\ UNCHANGED <<user, company, member>>
      BY <1>1, <1>4, <2>1, OneRevoked DEF RevokeSession
    <2>3. session'[r] = None
      BY <1>1, <1>2, <2>2, RevokedNotLive
    <2>4. tx'[r].pc = "deny" /\ tx'[r].op = "LOGOUT" /\ tx[r].pc = "revoke"
      BY <1>1, <1>4, <2>1 DEF Goto, Request, RevokeSession, At
    <2>5. Plain(tx'[r])
      BY <2>4 DEF Plain
    <2>6. OneDefault' /\ Users' = Users
      BY <1>1, <2>2, DefaultsSame DEF Users
    <2> QED BY <2>3, <2>4, <2>5, <2>6, PlainOrder
  <1>5. CASE DenySession(r)
    BY <1>1, <1>5, EndOrder DEF DenySession
  <1>6. Reject(r) => Order(r)
    BY <1>1, EndOrder DEF Reject
  <1> QED BY <1>3, <1>4, <1>5, <1>6

(* A user changes password or MFA and ends all sessions. *)
LEMMA SelfOrder ==
    ASSUME NEW r \in Req, Alone(r),
           \/ Authenticate(r) \/ UpdatePassword(r) \/ SetupMfa(r) \/ VerifyMfa(r)
           \/ DisableMfa(r) \/ RefuseMfa(r) \/ RevokeAll(r)
    PROVE  Order(r)
  <1>1. /\ AccessInv /\ OneDefault /\ tx[r] \in Request /\ tx[r].pc \in {"auth", "read", "revoke"}
        /\ tx[r].op # "ADMIN" /\ tx \in [Req -> Request] /\ user \in [User -> UserRow \cup {None}]
    BY Facts DEF Alone, Authenticate, UpdatePassword, SetupMfa, VerifyMfa, DisableMfa, RefuseMfa, RevokeAll,
                 At, TypeOK
  <1>2. session[r] = None
    BY <1>1, Facts DEF WellFormed
  <1>3. Reject(r) => Order(r)
    BY <1>1, EndOrder DEF Reject
  <1>4. CASE Authenticate(r) /\ ~Reject(r)
    <2>1. PICK s \in Sessions : Step(r, [tx[r] EXCEPT !.pc = "read", !.s = s, !.u = session[s].user,
                                                       !.claims = session[s].claims])
      BY <1>4 DEF Authenticate
    <2>2. s \in Req /\ session[s] \in SessionRow
      BY <1>1, Facts DEF Sessions
    <2>3. session[s].user \in User /\ session[s].claims \in Claim
      BY <2>2 DEF SessionRow
    <2> DEFINE t == [tx[r] EXCEPT !.pc = "read", !.s = s, !.u = session[s].user,
                                  !.claims = session[s].claims]
    <2>4. t \in Request /\ t.op = tx[r].op /\ t.pc = "read" /\ Step(r, t)
      BY <1>1, <2>1, <2>2, <2>3 DEF Request
    <2> HIDE DEF t
    <2>5. Current(t)
      BY <1>1, <2>4 DEF Current
    <2> QED BY <1>1, <2>4, <2>5, StepOrder
  <1>5. ASSUME NEW u \in Users, NEW row \in UserRow, user' = [user EXCEPT ![u] = row],
               UNCHANGED <<member, session>>, tx'[r].pc \in {"revoke", "done"}
        PROVE  Order(r)
    <2>1. Users \subseteq Users'
      BY <1>1, <1>5, AccessConstants DEF Users
    <2>2. OneDefault' /\ session'[r] = None
      BY <1>1, <1>2, <1>5, DefaultsSame
    <2>3. Plain(tx'[r])
      BY <1>5 DEF Plain
    <2> QED BY <1>1, <2>1, <2>2, <2>3, PlainOrder
  <1>6. \A u \in Users : user[u] \in UserRow
    BY <1>1 DEF Users
  <1>7. CASE UpdatePassword(r) /\ ~Reject(r)
    <2> DEFINE u == tx[r].u
    <2>1. /\ u \in Users /\ user' = [user EXCEPT ![u] = [user[u] EXCEPT !.mustChange = FALSE]]
          /\ Goto(r, [tx[r] EXCEPT !.pc = "revoke",
                        !.claims = [Claims(tx[r].u, tx[r].claims.select) EXCEPT !.mustChange = FALSE]])
          /\ UNCHANGED <<company, member, session, Other>>
      BY <1>7 DEF UpdatePassword
    <2>2. [user[u] EXCEPT !.mustChange = FALSE] \in UserRow
      BY <1>6, <2>1 DEF UserRow
    <2>3. tx'[r].pc = "revoke"
      BY <1>1, <2>1 DEF Goto, Request
    <2> QED BY <1>5, <2>1, <2>2, <2>3
  <1>8. ASSUME NEW on \in BOOLEAN, MfaTo(r, on), tx[r].u \in Users
        PROVE  Order(r)
    <2> DEFINE u == tx[r].u
               row == [user[u] EXCEPT !.mfa = on, !.secret = on, !.pending = FALSE]
    <2>1. user' = [user EXCEPT ![u] = row]
      BY <1>1, <1>8 DEF MfaTo, Users
    <2>2. row \in UserRow
      BY <1>6, <1>8 DEF UserRow
    <2> HIDE DEF row
    <2>3. tx'[r].pc = "revoke" /\ UNCHANGED <<member, session>>
      BY <1>1, <1>8 DEF MfaTo, Goto, Request
    <2> QED BY <1>5, <1>8, <2>1, <2>2, <2>3
  <1>9. CASE SetupMfa(r)
    <2> DEFINE u == tx[r].u
    <2>1. /\ u \in Users /\ user' = [user EXCEPT ![u] = [user[u] EXCEPT !.pending = TRUE]]
          /\ End(r) /\ UNCHANGED <<company, member, session, Other>>
      BY <1>9 DEF SetupMfa
    <2>2. [user[u] EXCEPT !.pending = TRUE] \in UserRow
      BY <1>6, <2>1 DEF UserRow
    <2>3. tx'[r].pc = "done"
      BY <1>1, <2>1 DEF End, Blank
    <2> QED BY <1>5, <2>1, <2>2, <2>3
  <1>10. CASE RevokeAll(r)
    <2> DEFINE u == tx[r].u
    <2>1. /\ session' = Revoked(LiveOf(u)) /\ Goto(r, [tx[r] EXCEPT !.pc = "session"])
          /\ UNCHANGED <<user, company, member>> /\ tx[r].op \in {"PASSWORD", "MFA"}
      BY <1>10 DEF RevokeAll
    <2>2. /\ \A s \in LiveOf(u) : s \notin Live'
          /\ Live' \subseteq Live
          /\ \A s \in Live' : session'[s].user = session[s].user
          /\ session'[r] = None
      BY <1>1, <1>2, <2>1, RevokedNotLive
    <2>3. tx'[r].pc = "session" /\ tx'[r].op = tx[r].op /\ tx'[r].u = u
      BY <1>1, <2>1 DEF Goto, Request
    <2>4. LiveOf(tx[r].u)' = {}
      BY <2>2, <2>3 DEF LiveOf
    <2>5. Current(tx[r])'
      BY <2>1, <2>3, <2>4 DEF Current
    <2>6. OneDefault' /\ Users' = Users
      BY <1>1, <2>1, DefaultsSame DEF Users
    <2> QED BY <1>1, <2>2, <2>3, <2>5, <2>6 DEF Order
  <1> QED BY <1>3, <1>4, <1>7, <1>8, <1>9, <1>10 DEF VerifyMfa, DisableMfa, RefuseMfa

(* A user makes or switches to a company: one default is left. *)
LEMMA CompanyOrder ==
    ASSUME NEW r \in Req, Alone(r), CreateOwnCompany(r) \/ ReadSwitch(r) \/ WriteSwitch(r)
    PROVE  Order(r)
  <1> DEFINE u == tx[r].u
             c == Claims(u, FALSE)
  <1>1. /\ AccessInv /\ OneDefault /\ tx[r] \in Request /\ tx[r].pc \in {"read", "company"}
        /\ tx[r].op \in {"COMPANY", "SWITCH"} /\ tx \in [Req -> Request]
        /\ member \in [User -> [Company -> Membership \cup {None}]]
    BY Facts DEF Alone, CreateOwnCompany, ReadSwitch, WriteSwitch, At, TypeOK
  <1>2. session[r] = None /\ u \in User
    BY <1>1, Facts DEF WellFormed
  <1>3. Reject(r) => Order(r)
    BY <1>1, EndOrder DEF Reject
  <1>4. u \in Users => c \in Claim /\ user[u] \in UserRow
    BY <1>1, ClaimsType
  <1>5. ASSUME NEW k \in Company, NEW m \in Membership, UNCHANGED <<user, session>>,
               member' = [member EXCEPT ![u] = WithDefault(member[u], k, m)], tx'[r].pc = "session",
               tx'[r].op \in {"COMPANY", "SWITCH"}
        PROVE  Order(r)
    <2>1. OneDefault'
      BY <1>1, <1>2, <1>5, DefaultMoves
    <2>2. Users' = Users /\ session'[r] = None
      BY <1>2, <1>5 DEF Users
    <2>3. Plain(tx'[r])
      BY <1>5 DEF Plain
    <2> QED BY <1>1, <2>1, <2>2, <2>3, PlainOrder
  <1>6. CASE CreateOwnCompany(r) /\ ~Reject(r)
    <2> DEFINE m == [role |-> user[u].role, default |-> TRUE]
    <2>1. PICK k \in Company \ Companies :
             /\ u \in Users
             /\ member' = [member EXCEPT ![u] = WithDefault(member[u], k, m)]
             /\ Goto(r, [tx[r] EXCEPT !.pc = "session", !.claims = c])
             /\ UNCHANGED <<user, session, Other>>
      BY <1>6 DEF CreateOwnCompany
    <2>2. m \in Membership
      BY <1>4, <2>1 DEF Membership, UserRow
    <2> HIDE DEF m, c
    <2>3. tx'[r].pc = "session" /\ tx'[r].op \in {"COMPANY", "SWITCH"}
      BY <1>1, <2>1 DEF Goto, Request
    <2> QED BY <1>5, <2>1, <2>2, <2>3
  <1>7. CASE ReadSwitch(r) /\ ~Reject(r)
    <2>1. PICK k \in ActiveOf(u) :
             /\ u \in Users
             /\ \/ Step(r, [tx[r] EXCEPT !.pc = "company", !.k = k, !.claims = c])
                \/ Step(r, [tx[r] EXCEPT !.pc = "session", !.claims = c])
      BY <1>7 DEF ReadSwitch
    <2>2. k \in Company
      BY DEF ActiveOf, Companies
    <2> HIDE DEF c
    <2> DEFINE t1 == [tx[r] EXCEPT !.pc = "company", !.k = k, !.claims = c]
               t2 == [tx[r] EXCEPT !.pc = "session", !.claims = c]
    <2>3. /\ t1 \in Request /\ t1.op = tx[r].op /\ t1.pc = "company"
          /\ t2 \in Request /\ t2.op = tx[r].op /\ t2.pc = "session"
          /\ Step(r, t1) \/ Step(r, t2)
      BY <1>1, <1>4, <2>1, <2>2 DEF Request
    <2> HIDE DEF t1, t2
    <2>4. Current(t1) /\ Current(t2)
      BY <1>1, <2>3 DEF Current
    <2> QED BY <1>1, <2>3, <2>4, StepOrder
  <1>8. CASE WriteSwitch(r) /\ ~Reject(r)
    <2> DEFINE k == tx[r].k
               m == [member[u][k] EXCEPT !.default = TRUE]
    <2>1. /\ k \in ActiveOf(u)
          /\ member' = [member EXCEPT ![u] = WithDefault(member[u], k, m)]
          /\ Goto(r, [tx[r] EXCEPT !.pc = "session"])
          /\ UNCHANGED <<user, company, session, Other>>
      BY <1>8 DEF WriteSwitch
    <2>2. k \in Company /\ member[u][k] \in Membership
      BY <1>1, <1>2, <2>1 DEF ActiveOf, Companies
    <2>3. m \in Membership
      BY <2>2 DEF Membership
    <2> HIDE DEF m
    <2>4. tx'[r].pc = "session" /\ tx'[r].op \in {"COMPANY", "SWITCH"}
      BY <1>1, <2>1 DEF Goto, Request
    <2> QED BY <1>5, <2>1, <2>2, <2>3, <2>4
  <1> QED BY <1>3, <1>6, <1>7, <1>8 DEF WriteSwitch

(* A change that fits reaches the tables. *)
LEMMA CommitOrder ==
    ASSUME NEW r \in Req, Alone(r), CommitChange(r)
    PROVE  Order(r)
  <1> DEFINE p == tx[r].put
  <1>1. /\ AccessInv /\ OneDefault /\ tx[r] \in Request /\ tx[r].pc = "answer" /\ tx[r].op = "ADMIN"
        /\ tx \in [Req -> Request] /\ member \in [User -> [Company -> Membership \cup {None}]]
        /\ user \in [User -> UserRow \cup {None}]
    BY Facts DEF Alone, CommitChange, At, TypeOK
  <1>2. session[r] = None /\ p \in Change /\ Apply(p) /\ tx[r].u \in Users /\ Fits(r, p)
    BY <1>1, Facts DEF Alone, WellFormed, CommitChange, Current, Fits
  <1>3. tx'[r] = Blank("done") /\ Blank("done").pc = "done"
    BY <1>1 DEF CommitChange, End, Blank
  <1>4. Current(tx[r])'
    BY <1>3 DEF Current
  <1>5. RowsStay({})
    BY <1>1, <1>2, ApplyStays
  <1>6. session'[r] = None
    BY <1>2, <1>5 DEF RowsStay
  <1> SUFFICES /\ p.of = "reset" => UNCHANGED <<user, session>> \/ \A s \in p.sessions : s \notin Live'
               /\ OneDefault' /\ tx[r].u \in Users'
    BY <1>1, <1>3, <1>4, <1>6 DEF Order
  <1>7. CASE p.of = "company"
    <2>1. p.at \in Company /\ ApplyCompany(p)
      BY <1>2, <1>7 DEF Change, Apply
    <2>2. Users' = Users
      BY <2>1 DEF ApplyCompany, Users
    <2>3. \A u \in User, k \in Company : member'[u][k] = member[u][k] \/ member'[u][k] = None
      BY <1>1, <2>1 DEF ApplyCompany
    <2>4. \A u \in User : DefaultsOf(u)' \subseteq DefaultsOf(u)
      BY <2>3 DEF DefaultsOf
    <2> QED BY <1>1, <1>2, <1>7, <2>2, <2>4 DEF OneDefault
  <1>8. CASE p.of = "user"
    <2>1. /\ p.at \in User /\ p.to \in UserRow \cup {None} /\ p.in \in Roles
          /\ p.first \in Company \cup {None} /\ ApplyUser(p)
      BY <1>2, <1>8 DEF Change, Apply
    <2>2. CASE p.to = None
      <3>1. user' = [user EXCEPT ![p.at] = None] /\ member' = [member EXCEPT ![p.at] = NoMembers]
        BY <2>1, <2>2 DEF ApplyUser
      <3>2. p.at # tx[r].u
        BY <1>2, <1>8, <2>2 DEF Fits
      <3>3. tx[r].u \in Users'
        BY <1>1, <1>2, <3>1, <3>2 DEF Users
      <3>4. \A u \in User, k \in Company : member'[u][k] = member[u][k] \/ member'[u][k] = None
        BY <1>1, <2>1, <3>1 DEF NoMembers
      <3>5. \A u \in User : DefaultsOf(u)' \subseteq DefaultsOf(u)
        BY <3>4 DEF DefaultsOf
      <3> QED BY <1>1, <1>8, <3>3, <3>5 DEF OneDefault
    <2>3. CASE p.to # None
      <3> DEFINE ms == [k \in Company |-> IF k \in DOMAIN p.in
                                          THEN [role |-> p.in[k], default |-> k = p.first]
                                          ELSE member[p.at][k]]
      <3>1. user' = [user EXCEPT ![p.at] = p.to] /\ member' = [member EXCEPT ![p.at] = ms]
        BY <2>1, <2>3 DEF ApplyUser
      <3>2. tx[r].u \in Users'
        BY <1>1, <1>2, <2>3, <3>1 DEF Users
      <3>3. member'[p.at] = ms /\ \A v \in User \ {p.at} : member'[v] = member[v]
        BY <1>1, <2>1, <3>1
      <3>4. PICK at \in User : at = p.at
        BY <2>1
      <3>5. \A j, k \in DefaultsOf(at)' : j = k
        <4>1. CASE DOMAIN p.in = {}
          <5>1. \A k \in Company : member'[p.at][k] = member[p.at][k]
            BY <3>3, <4>1
          <5>2. DefaultsOf(at)' = DefaultsOf(at)
            BY <3>4, <5>1 DEF DefaultsOf
          <5> QED BY <1>1, <5>2 DEF OneDefault
        <4>2. CASE p.at \notin Users
          <5>1. \A k \in Company : member[p.at][k] = None
            BY <1>1, <2>1, <4>2, Facts DEF Users, NoMembers
          <5>2. \A k \in DefaultsOf(at)' : k = p.first
            <6> SUFFICES ASSUME NEW k \in Company, member'[p.at][k] # None, member'[p.at][k].default
                         PROVE  k = p.first
              BY <3>4 DEF DefaultsOf
            <6>1. k \in DOMAIN p.in
              BY <3>3, <5>1
            <6> DEFINE d == k = p.first
            <6>2. member'[p.at][k] = [role |-> p.in[k], default |-> d]
              BY <3>3, <6>1
            <6> HIDE DEF d
            <6>3. d
              BY <6>2
            <6> QED BY <6>3 DEF d
          <5> QED BY <5>2
        <4> QED BY <1>2, <1>8, <2>3, <4>1, <4>2 DEF Fits
      <3>6. \A v \in User \ {at} : DefaultsOf(v)' = DefaultsOf(v)
        BY <3>3, <3>4 DEF DefaultsOf
      <3> QED BY <1>1, <1>8, <3>2, <3>5, <3>6 DEF OneDefault
    <2> QED BY <2>2, <2>3
  <1>9. CASE p.of = "reset"
    <2>1. p.at \in User /\ ApplyReset(p)
      BY <1>2, <1>9 DEF Change, Apply
    <2>2. session' = Revoked(p.sessions) /\ member' = member
      BY <2>1 DEF ApplyReset
    <2>3. \A s \in p.sessions : s \notin Live'
      BY <1>1, <2>2, RevokedNotLive
    <2>4. tx[r].u \in Users'
      <3>1. user[p.at] # None => [user[p.at] EXCEPT !.mustChange = TRUE] \in UserRow
        BY <1>1, <2>1 DEF UserRow
      <3>2. user[p.at] # None => [user[p.at] EXCEPT !.mustChange = TRUE] # None
        BY <3>1, AccessConstants
      <3> QED BY <1>1, <1>2, <2>1, <3>2 DEF ApplyReset, Users
    <2> QED BY <1>1, <2>2, <2>3, <2>4, DefaultsSame
  <1>10. CASE p.of = "member"
    <2>1. p.at \in User /\ p.in \in Company /\ p.to \in Membership \cup {None} /\ ApplyMember(p)
      BY <1>2, <1>10 DEF Change, Apply
    <2>2. Users' = Users
      BY <2>1 DEF ApplyMember, Users
    <2>3. OneDefault'
      <3>1. CASE member' = member
        BY <1>1, <3>1, DefaultsSame
      <3>2. CASE p.to # None /\ p.to.default /\ member' # member
        <4>1. member' = [member EXCEPT ![p.at] = WithDefault(member[p.at], p.in, p.to)]
          BY <2>1, <3>2 DEF ApplyMember
        <4> QED BY <1>1, <2>1, <3>2, <4>1, DefaultMoves
      <3>3. CASE ~(p.to # None /\ p.to.default) /\ member' # member
        <4>1. member' = [member EXCEPT ![p.at][p.in] = p.to]
          BY <2>1, <3>3 DEF ApplyMember
        <4>2. \A u \in User, k \in Company :
                 member'[u][k] = member[u][k] \/ (member'[u][k] = p.to /\ ~(p.to # None /\ p.to.default))
          BY <1>1, <2>1, <3>3, <4>1
        <4>3. \A u \in User : DefaultsOf(u)' \subseteq DefaultsOf(u)
          BY <4>2 DEF DefaultsOf
        <4> QED BY <1>1, <4>3 DEF OneDefault
      <3> QED BY <3>1, <3>2, <3>3
    <2> QED BY <1>2, <1>10, <2>2, <2>3
  <1>11. p.of \in {"company", "user", "reset", "member"}
    BY <1>2 DEF Change
  <1> QED BY <1>7, <1>8, <1>9, <1>10, <1>11

(* An administrator's request, unless its connection is cut. *)
LEMMA AdminOrder ==
    ASSUME NEW r \in Req, Alone(r), tx'[r].pc # "cut",
           \/ AdmitAdmin(r) \/ CreateCompany(r) \/ ToggleCompany(r) \/ DeleteCompany(r)
           \/ CreateUser(r) \/ UpdateUser(r) \/ ResetPassword(r) \/ DeleteUser(r)
           \/ CreateMember(r) \/ UpdateMember(r) \/ DeleteMember(r) \/ RefuseChange(r)
           \/ CommitChange(r) \/ Disconnect(r) \/ Abort(r)
    PROVE  Order(r)
  <1>1. AccessInv /\ tx[r] \in Request /\ tx \in [Req -> Request]
    BY Facts DEF Alone, TypeOK
  <1>2. tx[r].pc \notin Finished /\ Reject(r) => Order(r)
    BY <1>1, EndOrder DEF Reject
  <1>3. CASE AdmitAdmin(r)
    <2>1. tx[r].op = "ADMIN" /\ tx[r].pc = "auth"
      BY <1>3 DEF AdmitAdmin, At
    <2>2. ASSUME NEW s \in Sessions, Step(r, [tx[r] EXCEPT !.pc = "read", !.s = s, !.u = session[s].user])
          PROVE  Order(r)
      <3> DEFINE t == [tx[r] EXCEPT !.pc = "read", !.s = s, !.u = session[s].user]
      <3>1. s \in Req /\ session[s].user \in User /\ session[s].user \in Users
        BY <1>1, Facts DEF Sessions, Users
      <3>2. t \in Request /\ t.op = "ADMIN" /\ t.pc = "read" /\ t.u = session[s].user /\ Step(r, t)
        BY <1>1, <2>1, <2>2, <3>1 DEF Request
      <3> HIDE DEF t
      <3>3. Current(t)
        BY <3>1, <3>2 DEF Current
      <3> QED BY <1>1, <2>1, <3>2, <3>3, StepOrder
    <2> QED BY <1>2, <1>3, <2>1, <2>2 DEF AdmitAdmin
  <1>4. CASE RefuseChange(r) \/ Abort(r)
    BY <1>2, <1>4 DEF RefuseChange, At, Abort, InFlight
  <1>5. CASE Disconnect(r)
    <2>1. tx'[r] = Blank("cut")
      BY <1>1, <1>5 DEF Disconnect
    <2> QED BY <2>1 DEF Blank
  <1>6. ASSUME At(r, "ADMIN", "read"), NEW change \in Change, Stage(r, change), Fits(r, change)
        PROVE  Order(r)
    <2> DEFINE t == [tx[r] EXCEPT !.pc = "answer", !.put = change]
    <2>1. tx[r].op = "ADMIN" /\ tx[r].pc = "read" /\ tx[r].u \in Users
      BY <1>6 DEF At, Alone, Current
    <2>2. /\ t \in Request /\ t.op = "ADMIN" /\ t.pc = "answer" /\ t.u = tx[r].u /\ t.put = change
          /\ Step(r, t)
      BY <1>1, <1>6, <2>1 DEF Request, Stage
    <2> HIDE DEF t
    <2>3. Current(t)
      BY <1>6, <2>1, <2>2 DEF Current, Fits
    <2> QED BY <1>1, <2>1, <2>2, <2>3, StepOrder
  <1> QED BY <1>1, <1>3, <1>4, <1>5, <1>6, StagedIsChange, CommitOrder

(* Every step of a request that runs alone keeps the rows in order. *)
LEMMA StepInOrder ==
    ASSUME NEW r \in Req, Alone(r), Arrive(r) \/ Handle(r), tx'[r].pc # "cut"
    PROVE  Order(r)
  BY ArriveOrder, EntryOrder, SessionOrder, LogoutOrder, SelfOrder, CompanyOrder, AdminOrder DEF Handle

-----------------------------------------------------------------------------
(* The history of requests that come one at a time. *)

(* Whose credentials a step of r has finished changing. *)
LEMMA RenewedBy ==
    ASSUME NEW r \in Req, \A q \in Req \ {r} : tx'[q] = tx[q], NEW u \in Renewed
    PROVE  \/ tx[r].op \in {"PASSWORD", "MFA"} /\ tx[r].pc = "session" /\ u = tx[r].u
           \/ /\ tx[r].op = "ADMIN" /\ tx[r].pc = "answer" /\ tx[r].put.of = "reset" /\ u = tx[r].put.at
              /\ ~UNCHANGED <<user, session>>
  <1>1. \A op : \A q \in Ending(op, "session") : q = r /\ tx[r].op = op /\ tx[r].pc = "session"
    BY DEF Ending
  <1>2. \A q \in Ending("ADMIN", "answer") : q = r /\ tx[r].op = "ADMIN" /\ tx[r].pc = "answer"
    BY DEF Ending
  <1> QED BY <1>1, <1>2 DEF Renewed

(* Sessions stay in order: a session has one successor, and neither an ended
   session nor its successor is live. *)
LEMMA SessionsStayInOrder ==
    ASSUME NEW r \in Req, Alone(r), Sound(r), Order(r), SessionsInOrder, \A s \in ended : Over(s),
           ended' = ended \cup {s \in Sessions : session[s].user \in Renewed}
    PROVE  SessionsInOrder'
  <1>1. /\ AccessInv /\ tx[r] \in Request /\ WellFormed(r, tx[r]) /\ tx[r].pc \notin Finished
        /\ Current(tx[r]) /\ \A q \in Req \ {r} : tx'[q] = tx[q]
        /\ \A s : Over(s) => s \in Req /\ s # r
    BY Facts, OverStays DEF Alone, Sound, Over
  <1>2. session[r] = None /\ r \notin ended /\ r \notin ended' /\ None \notin ended'
    BY <1>1, AccessConstants DEF WellFormed, Request, Sessions
  <1>3. \A s \in Sessions' : s # r =>
           /\ s \in Sessions /\ session'[s].user = session[s].user
           /\ session'[s].parent = session[s].parent
           /\ session[s].parent # None => session[s].parent \in Req \ {r}
           /\ s \in Live' => s \in Live
    BY <1>1, Facts DEF Sound, RowsStay, Sessions, Live
  <1>4. \A s \in Live' : s # r => session'[s].user \notin Renewed
    <2> SUFFICES ASSUME NEW s \in Live', s # r, session'[s].user \in Renewed
                 PROVE  FALSE
      OBVIOUS
    <2>1. s \in Live /\ session[s].user = session'[s].user
      BY <1>3 DEF Live
    <2>2. CASE /\ tx[r].op \in {"PASSWORD", "MFA"} /\ tx[r].pc = "session"
               /\ session[s].user = tx[r].u
      <3>1. LiveOf(tx[r].u) = {}
        BY <1>1, <2>2 DEF Current
      <3> QED BY <2>1, <2>2, <3>1 DEF LiveOf
    <2>3. CASE /\ tx[r].pc = "answer" /\ tx[r].put.of = "reset" /\ session[s].user = tx[r].put.at
               /\ ~UNCHANGED <<user, session>>
      <3>1. LiveOf(tx[r].put.at) \subseteq tx[r].put.sessions
        BY <1>1, <2>3 DEF Current
      <3>2. s \in tx[r].put.sessions
        BY <2>1, <2>3, <3>1 DEF LiveOf
      <3> QED BY <2>3, <3>2 DEF Order
    <2> QED BY <1>1, <2>1, <2>2, <2>3, RenewedBy
  <1>5. r \in Sessions' =>
           \/ session'[r].parent = None
           \/ /\ session'[r].parent \in Live /\ session'[r].parent \notin Live'
              /\ session'[r].parent \in Req \ {r}
              /\ session[session'[r].parent].user = session'[r].user
              /\ Renewed = {}
    <2> SUFFICES ASSUME r \in Sessions', session'[r].parent # None
                 PROVE  /\ session'[r].parent \in Live /\ session'[r].parent \notin Live'
                        /\ session'[r].parent \in Req \ {r}
                        /\ session[session'[r].parent].user = session'[r].user
                        /\ Renewed = {}
      OBVIOUS
    <2>1. /\ tx[r].op = "REFRESH" /\ tx[r].pc = "session" /\ session'[r].parent = tx[r].s
          /\ tx[r].s \notin Live' /\ session'[r].user = tx[r].u
      BY DEF Order, Sessions
    <2>2. tx[r].s \in Live /\ Over(tx[r].s) /\ session[tx[r].s].user = tx[r].u
      BY <1>1, <2>1 DEF Current, WellFormed, Live
    <2>3. Renewed = {}
      BY <1>1, <2>1, RenewedBy
    <2> QED BY <1>1, <2>1, <2>2, <2>3
  <1>6. ASSUME NEW s \in Sessions', NEW t \in Sessions', session'[s].parent = session'[t].parent,
               session'[s].parent # None
        PROVE  s = t
    <2>1. CASE s # r /\ t # r
      BY <1>3, <1>6, <2>1 DEF SessionsInOrder
    <2>2. CASE s = r /\ t # r
      BY <1>3, <1>5, <1>6, <2>2 DEF SessionsInOrder
    <2>3. CASE s # r /\ t = r
      BY <1>3, <1>5, <1>6, <2>3 DEF SessionsInOrder
    <2> QED BY <2>1, <2>2, <2>3
  <1>7. ASSUME NEW s \in Sessions'
        PROVE  /\ session'[s].parent \notin Live'
               /\ session'[s].parent \in Sessions' => session'[session'[s].parent].user = session'[s].user
    <2>1. CASE s # r
      <3>1. session[s].parent \notin Live /\ session[s].parent # r
        BY <1>1, <1>3, <2>1, AccessConstants DEF SessionsInOrder
      <3>2. session[s].parent \notin Live'
        BY <1>3, <3>1 DEF Live
      <3>3. ASSUME session[s].parent \in Sessions'
            PROVE  session'[session[s].parent].user = session[s].user
        BY <1>3, <2>1, <3>1, <3>3 DEF SessionsInOrder
      <3> QED BY <1>3, <2>1, <3>2, <3>3
    <2>2. CASE s = r
      <3>1. None \notin Live' /\ None \notin Sessions'
        BY AccessConstants DEF Live, Sessions
      <3> QED BY <1>3, <1>5, <2>2, <3>1
    <2> QED BY <2>1, <2>2
  <1>8. ASSUME NEW s \in Live'
        PROVE  s \notin ended' /\ session'[s].parent \notin ended'
    <2>1. s \in Sessions'
      BY DEF Live
    <2>2. CASE s # r
      <3>1. /\ s \in Live /\ s \in Sessions /\ session[s].user \notin Renewed
            /\ s \notin ended /\ session[s].parent \notin ended
        BY <1>3, <1>4, <2>1, <2>2 DEF SessionsInOrder
      <3>2. session[s].parent \in Sessions => session[session[s].parent].user = session[s].user
        BY <3>1 DEF SessionsInOrder
      <3> QED BY <1>3, <2>1, <2>2, <3>1, <3>2
    <2>3. CASE s = r
      <3>1. CASE session'[r].parent = None
        BY <1>2, <2>3, <3>1
      <3>2. CASE session'[r].parent # None
        <4>1. session'[r].parent \in Live /\ Renewed = {}
          BY <1>5, <2>1, <2>3, <3>2
        <4> QED BY <1>2, <2>3, <4>1 DEF SessionsInOrder
      <3> QED BY <3>1, <3>2
    <2> QED BY <2>2, <2>3
  <1> QED BY <1>6, <1>7, <1>8 DEF SessionsInOrder

(* The serial invariant holds initially. *)
LEMMA SerialStart ==
    ASSUME HistoryInit
    PROVE  SerialInv
  <1>1. AccessInv
    BY AccessStart DEF HistoryInit
  <1>2. \A r \in Req : tx[r].pc \in {"idle", "done"}
    <2>1. \A label : Blank(label).pc = label
      BY DEF Blank
    <2>2. Init => \A r \in Req : tx[r] = Blank("idle")
      BY DEF Init
    <2>3. Seeded => \A r \in Req : tx[r] = Blank(IF r = r0 THEN "done" ELSE "idle")
      BY DEF Seeded
    <2> QED BY <2>1, <2>2, <2>3 DEF HistoryInit
  <1>3. InFlight = {} /\ \A r \in Req : Current(tx[r])
    BY <1>2 DEF InFlight, Current
  <1>4. IsFiniteSet(InFlight)
    BY <1>3, FS_EmptySet
  <1>5. \A s \in Sessions : s = r0 /\ session[s].parent = None
    <2>1. Init => Sessions = {}
      BY DEF Init, Sessions
    <2>2. Seeded => \A s \in Sessions : s = r0 /\ session[s] = NewSession(u1, Signed, None)
      BY DEF Seeded, Sessions
    <2>3. NewSession(u1, Signed, None).parent = None
      BY DEF NewSession
    <2> QED BY <2>1, <2>2, <2>3 DEF HistoryInit
  <1>6. SessionsInOrder
    <2>1. None \notin Sessions /\ Live \subseteq Sessions /\ ended = {}
      BY AccessConstants DEF Live, Sessions, HistoryInit
    <2> QED BY <1>5, <2>1 DEF SessionsInOrder
  <1>7. \A u \in User, k \in Company : member[u][k] = None \/ k = k1
    <2>1. Init => \A u \in User, k \in Company : member[u][k] = None
      BY DEF Init
    <2>2. Seeded => \A u \in User, k \in Company : member[u][k] = None \/ k = k1
      BY DEF Seeded
    <2> QED BY <2>1, <2>2 DEF HistoryInit
  <1>8. AccountsInOrder
    BY <1>7 DEF AccountsInOrder, DefaultsOf, HistoryInit
  <1> QED BY <1>1, <1>3, <1>4, <1>6, <1>8 DEF SerialInv, HistoryInit

(* A restart that cuts no request. *)
LEMMA SerialRestart ==
    ASSUME SerialInv, Restart, HistoryNext
    PROVE  SerialInv'
  <1>1. AccessInv /\ AccessInv' /\ \A s : Over(s) => Over(s)'
    BY RestartKeeps DEF SerialInv
  <1>2. restarts' # restarts
    BY <1>1, Facts DEF Restart, TypeOK
  <1>3. Ending("PASSWORD", "session") = {} /\ Ending("MFA", "session") = {} /\ Ending("ADMIN", "answer") = {}
    BY <1>2 DEF Ending
  <1>4. ended' = ended
    <2>1. Renewed = {}
      BY <1>3 DEF Renewed
    <2> QED BY <2>1 DEF HistoryNext
  <1>5. \A r \in Req : tx'[r].pc \notin Running
    BY DEF Restart, InFlight, Blank
  <1>6. InFlight' = {}
    BY <1>5 DEF InFlight
  <1>7. IsFiniteSet(InFlight')
    BY <1>6, FS_EmptySet
  <1>8. overlapped' \in BOOLEAN /\ cutoff' \in BOOLEAN
    BY DEF HistoryNext
  <1>9. ASSUME Serial'
        PROVE  /\ \A p, q \in InFlight' : p = q
               /\ \A r \in Req : Current(tx[r])'
               /\ SessionsInOrder' /\ AccountsInOrder'
    <2>1. Serial
      BY <1>9 DEF Serial, HistoryNext, SerialInv
    <2>2. \A r \in Req : Current(tx[r])'
      BY <1>5 DEF Current
    <2>3. UNCHANGED <<user, company, member, session>>
      BY DEF Restart, rows
    <2>4. Sessions' = Sessions /\ Live' = Live /\ Users' = Users
      BY <2>3 DEF Sessions, Live, Users
    <2>5. SessionsInOrder'
      BY <1>4, <2>1, <2>3, <2>4 DEF SerialInv, SessionsInOrder
    <2>6. {r \in Req : tx[r].op = "BOOTSTRAP" /\ tx[r].pc = "user" /\ tx'[r].pc = "consume"} = {}
      BY <1>5
    <2>7. founders' = founders
      <3>1. founders' = founders + Cardinality({})
        BY <2>6 DEF HistoryNext
      <3>2. founders \in Nat
        BY <2>1 DEF SerialInv, AccountsInOrder
      <3> QED BY <3>1, <3>2, FS_EmptySet
    <2>8. AccountsInOrder'
      BY <2>1, <2>3, <2>4, <2>7 DEF SerialInv, AccountsInOrder, DefaultsOf
    <2> QED BY <1>6, <2>2, <2>5, <2>8
  <1> QED BY <1>1, <1>4, <1>7, <1>8, <1>9 DEF SerialInv

(* A step of a request keeps the serial invariant. *)
LEMMA SerialStep ==
    ASSUME SerialInv, HistoryNext, NEW r \in Req, Arrive(r) \/ Handle(r), Sound(r)
    PROVE  SerialInv'
  <1>1. /\ AccessInv /\ AccessInv' /\ tx[r].pc \notin Finished
        /\ \A q \in Req \ {r} : tx'[q] = tx[q]
        /\ \A s : Over(s) => Over(s)'
    BY SoundKeeps, OverStays DEF SerialInv, Sound
  <1>2. \A s \in Sessions : Over(s)
    <2> SUFFICES ASSUME NEW s \in Sessions PROVE Over(s)
      OBVIOUS
    <2>1. s \in Req /\ session[s] # None /\ tx[s] \in Request /\ WellFormed(s, tx[s])
      BY <1>1, Facts DEF Sessions
    <2> QED BY <2>1 DEF WellFormed, Request, Over
  <1>3. \A s \in ended' : Over(s)'
    BY <1>1, <1>2 DEF SerialInv, HistoryNext
  <1>4. InFlight' \subseteq InFlight \cup {r}
    BY <1>1 DEF InFlight
  <1>5. IsFiniteSet(InFlight')
    BY <1>4, FS_AddElement, FS_Subset DEF SerialInv
  <1>6. overlapped' \in BOOLEAN /\ cutoff' \in BOOLEAN
    BY DEF HistoryNext
  <1>7. ASSUME Serial'
        PROVE  /\ \A p, q \in InFlight' : p = q
               /\ \A q \in Req : Current(tx[q])'
               /\ SessionsInOrder' /\ AccountsInOrder'
    <2>1. Serial /\ ~(Cardinality(InFlight') > 1) /\ tx'[r].pc # "cut"
      BY <1>7 DEF Serial, HistoryNext, SerialInv
    <2>2. \A p, q \in InFlight' : p = q
      BY <1>5, <2>1, AtMostOne
    <2>3. \A q \in Req \ {r} : tx[q].pc \notin Running
      <3> SUFFICES ASSUME NEW q \in Req \ {r}, tx[q].pc \in Running PROVE FALSE
        OBVIOUS
      <3>1. q \in InFlight /\ q \in InFlight'
        BY <1>1 DEF InFlight
      <3>2. CASE tx[r].pc \in Running
        BY <2>1, <3>1, <3>2 DEF SerialInv, InFlight
      <3>3. CASE tx[r].pc \notin Running
        <4>1. tx[r].pc = "idle"
          BY <1>1, <3>3, Facts DEF Request
        <4>2. Arrive(r)
          <5> SUFFICES ASSUME Handle(r) PROVE FALSE
            OBVIOUS
          <5>1. ~Abort(r) /\ ~IssueSession(r) /\ ~Authenticate(r) /\ ~RevokeAll(r)
            BY <4>1 DEF Abort, InFlight, IssueSession, Authenticate, RevokeAll
          <5>2. \A op, label : label # "idle" => ~At(r, op, label)
            BY <4>1 DEF At
          <5>3. /\ ~ReadLogin(r) /\ ~RegisterUser(r) /\ ~ReadBootstrap(r) /\ ~BootstrapUser(r)
                /\ ~ConsumeToken(r) /\ ~ReadSession(r) /\ ~Rotate(r) /\ ~RevokeSession(r) /\ ~DenySession(r)
            BY <5>2 DEF ReadLogin, RegisterUser, ReadBootstrap, BootstrapUser, ConsumeToken, ReadSession,
                        Rotate, RevokeSession, DenySession
          <5>4. /\ ~UpdatePassword(r) /\ ~SetupMfa(r) /\ ~VerifyMfa(r) /\ ~DisableMfa(r) /\ ~RefuseMfa(r)
                /\ ~CreateOwnCompany(r) /\ ~ReadSwitch(r) /\ ~WriteSwitch(r) /\ ~AdmitAdmin(r)
            BY <5>2 DEF UpdatePassword, SetupMfa, VerifyMfa, DisableMfa, RefuseMfa, CreateOwnCompany,
                        ReadSwitch, WriteSwitch, AdmitAdmin
          <5>5. /\ ~CreateCompany(r) /\ ~ToggleCompany(r) /\ ~DeleteCompany(r) /\ ~CreateUser(r)
                /\ ~UpdateUser(r) /\ ~ResetPassword(r) /\ ~DeleteUser(r) /\ ~CreateMember(r)
                /\ ~UpdateMember(r) /\ ~DeleteMember(r) /\ ~RefuseChange(r) /\ ~CommitChange(r)
                /\ ~Disconnect(r)
            BY <5>2 DEF CreateCompany, ToggleCompany, DeleteCompany, CreateUser, UpdateUser, ResetPassword,
                        DeleteUser, CreateMember, UpdateMember, DeleteMember, RefuseChange, CommitChange,
                        Disconnect
          <5> QED BY <5>1, <5>3, <5>4, <5>5 DEF Handle
        <4>3. PICK t : Start(r, t) /\ t.pc \in Running
          BY <4>2 DEF Arrive, Login, Register, Bootstrap, Refresh, Logout, ChangePassword, Mfa,
                      OwnCompany, SwitchCompany, AdminRequest, Blank
        <4>4. r \in InFlight'
          BY <1>1, <4>3, Facts DEF Start, Step, Goto, InFlight, TypeOK
        <4> QED BY <2>2, <3>1, <4>4
      <3> QED BY <3>2, <3>3
    <2>4. Alone(r)
      BY <1>1, <2>1 DEF Alone, SerialInv, AccountsInOrder, OneDefault
    <2>5. Order(r)
      BY <2>1, <2>4, StepInOrder
    <2>6. \A q \in Req : Current(tx[q])'
      <3> SUFFICES ASSUME NEW q \in Req, q # r PROVE Current(tx[q])'
        BY <2>5 DEF Order
      <3>1. tx'[q] = tx[q] /\ tx[q].pc \notin Running
        BY <1>1, <2>3
      <3> QED BY <3>1 DEF Current
    <2>7. SessionsInOrder'
      BY <2>1, <2>4, <2>5, SessionsStayInOrder DEF SerialInv, HistoryNext
    <2>8. AccountsInOrder'
      <3> DEFINE F == {q \in Req : tx[q].op = "BOOTSTRAP" /\ tx[q].pc = "user" /\ tx'[q].pc = "consume"}
      <3>1. founders' = founders + Cardinality(F)
        BY DEF HistoryNext
      <3>2. founders = 0 \/ (founders = 1 /\ Users # {})
        BY <2>1 DEF SerialInv, AccountsInOrder
      <3>3. (Users # {} => Users' # {}) /\ OneDefault'
        BY <2>5 DEF Order
      <3>4. CASE F = {}
        <4>1. Cardinality(F) = 0
          BY <3>4, FS_EmptySet
        <4> HIDE DEF F
        <4> QED BY <3>1, <3>2, <3>3, <4>1 DEF AccountsInOrder, OneDefault
      <3>5. CASE F # {}
        <4>1. F = {r} /\ tx[r].op = "BOOTSTRAP" /\ tx[r].pc = "user" /\ tx'[r].pc = "consume"
          BY <1>1, <3>5
        <4>2. Cardinality(F) = 1
          BY <4>1, FS_Singleton
        <4>3. Users = {} /\ Users' # {}
          BY <2>4, <2>5, <4>1 DEF Alone, Current, Order
        <4> HIDE DEF F
        <4> QED BY <3>1, <3>2, <3>3, <4>2, <4>3 DEF AccountsInOrder, OneDefault
      <3> QED BY <3>4, <3>5
    <2> QED BY <2>2, <2>6, <2>7, <2>8
  <1> QED BY <1>1, <1>3, <1>5, <1>6, <1>7 DEF SerialInv

(* When requests come one at a time, a request that has read a session, a user
   or the tables still finds them so when it writes, sessions follow one
   another, and no user has two default companies. *)
THEOREM SerialAccessInvariance == HistorySpec => []SerialInv
  <1>1. HistoryInit => SerialInv
    BY SerialStart
  <1>2. SerialInv /\ [HistoryNext]_<<vars, history>> => SerialInv'
    <2> SUFFICES ASSUME SerialInv, [HistoryNext]_<<vars, history>> PROVE SerialInv'
      OBVIOUS
    <2>1. CASE HistoryNext
      <3>1. AccessInv /\ Next
        BY <2>1 DEF SerialInv, HistoryNext
      <3> QED BY <2>1, <3>1, StepKinds, SerialRestart, SerialStep
    <2>2. CASE UNCHANGED <<vars, history>>
      <3>1. AccessInv'
        BY <2>2, AccessStep DEF SerialInv
      <3>2. /\ tx' = tx /\ user' = user /\ company' = company /\ member' = member /\ session' = session
            /\ overlapped' = overlapped /\ cutoff' = cutoff /\ ended' = ended /\ founders' = founders
        BY <2>2 DEF vars, rows, history
      <3>3. /\ InFlight' = InFlight /\ Sessions' = Sessions /\ Live' = Live /\ Users' = Users
            /\ \A u : LiveOf(u)' = LiveOf(u)
        BY <3>2 DEF InFlight, Sessions, Live, Users, LiveOf
      <3>4. SessionsInOrder' = SessionsInOrder /\ AccountsInOrder' = AccountsInOrder /\ Serial' = Serial
        BY <3>2, <3>3 DEF SessionsInOrder, AccountsInOrder, DefaultsOf, Serial
      <3>5. \A s : Over(s) => Over(s)'
        BY <3>2 DEF Over
      <3>6. \A r \in Req : Current(tx[r]) => Current(tx[r])'
        BY <3>2, <3>3 DEF Current
      <3> QED BY <3>1, <3>2, <3>3, <3>4, <3>5, <3>6 DEF SerialInv
    <2> QED BY <2>1, <2>2
  <1> QED BY <1>1, <1>2, PTL DEF HistorySpec

(* SerialSessionsEnd for every number of requests, users and companies: when
   requests come one at a time, a session has one successor, and a change of
   password or MFA and a reset end every session there was, with what it was
   refreshed into. *)
THEOREM SessionsEndInOrder == HistorySpec => []SerialSessionsEnd
  <1>1. SerialInv => SerialSessionsEnd
    BY DEF SerialInv, SerialSessionsEnd, SessionsInOrder, Live
  <1> QED BY <1>1, SerialAccessInvariance, PTL

(* SerialAccounts for every number of requests, users and companies: when
   requests come one at a time, one administrator at most is bootstrapped,
   whatever restarts forget, and no user has two default companies. *)
THEOREM AccountsStayInOrder == HistorySpec => []SerialAccounts
  <1>1. SerialInv => SerialAccounts
    <2> SUFFICES ASSUME SerialInv, Serial
                 PROVE  founders <= 1 /\ \A u \in User : Cardinality(DefaultsOf(u)) <= 1
      BY DEF SerialAccounts
    <2>1. AccountsInOrder
      BY DEF SerialInv
    <2>2. founders <= 1
      BY <2>1 DEF AccountsInOrder
    <2>3. ASSUME NEW u \in User PROVE Cardinality(DefaultsOf(u)) <= 1
      <3>1. CASE DefaultsOf(u) = {}
        BY <3>1, FS_EmptySet
      <3>2. CASE DefaultsOf(u) # {}
        <4>1. PICK k : DefaultsOf(u) = {k}
          BY <2>1, <3>2 DEF AccountsInOrder
        <4>2. Cardinality(DefaultsOf(u)) = 1
          BY <4>1, FS_Singleton
        <4> QED BY <4>2
      <3> QED BY <3>1, <3>2
    <2> QED BY <2>2, <2>3
  <1> QED BY <1>1, SerialAccessInvariance, PTL
=============================================================================
