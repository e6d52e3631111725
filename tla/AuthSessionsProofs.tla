------------------------- MODULE AuthSessionsProofs -------------------------
(***************************************************************************)
(* What staff authentication promises for every set of users and requests  *)
(* and every bound: types, that a reset's old sessions are doomed, that a  *)
(* full token lets in only the owner of a live session opened by a proved  *)
(* code, that a spent link is in no row, and that only its own user ends a *)
(* session.                                                                *)
(***************************************************************************)
EXTENDS AuthSessions, TLAPS

LEMMA IdleType == Idle \in Request
  BY DEF Idle, Request

LEMMA MoveTo ==
  ASSUME NEW q \in Request,
         NEW p \in {"idle", "matched", "create", "setup", "verify", "enable", "revoke",
                    "delete", "mail", "hash", "revokeAll"}
  PROVE  /\ [q EXCEPT !.pc = p] \in Request
         /\ [q EXCEPT !.pc = p].pc = p
         /\ [q EXCEPT !.pc = p].user = q.user
  BY DEF Request

LEMMA RevokedType ==
  ASSUME NEW row \in Session
  PROVE  /\ Revoked(row) \in Session
         /\ Revoked(row).state = "revoked"
         /\ Revoked(row).user = row.user
         /\ Revoked(row).factor = row.factor
         /\ Revoked(row).epoch = row.epoch
  BY DEF Session, Revoked

Made == [sessions : 0..MaxSessions, secrets : 0..MaxSecrets, links : 0..MaxLinks]

LEMMA MadeType ==
  ASSUME made \in Made
  PROVE  /\ \A n \in Sids : [made EXCEPT !.sessions = n] \in Made
         /\ \A n \in Secrets : [made EXCEPT !.secrets = n] \in Made
         /\ \A n \in Links : [made EXCEPT !.links = n] \in Made
  <1>1. Sids \subseteq 0..MaxSessions /\ Secrets \subseteq 0..MaxSecrets /\ Links \subseteq 0..MaxLinks
    BY BoundsAssumption DEF Sids, Secrets, Links
  <1> QED BY <1>1 DEF Made

(* A request that has left its first step acts for a user. *)
Acting == \A r \in Requests : req[r].pc \notin {"idle", "mail"} => req[r].user \in Users

(* A request that deletes a row, or changes a password, has found one to   *)
(* act on.                                                                 *)
Found == \A r \in Requests :
  /\ req[r].pc = "delete" => req[r].sid \in Sids
  /\ req[r].pc = "hash" => req[r].link \in Links

TypeInv == TypeOK /\ Acting /\ Found

(* Moving one request keeps all requests well formed. *)
LEMMA ReqUpdate ==
  ASSUME TypeInv, NEW r \in Requests, NEW q \in Request,
         q.pc \notin {"idle", "mail"} => q.user \in Users,
         q.pc = "delete" => q.sid \in Sids,
         q.pc = "hash" => q.link \in Links,
         req' = [req EXCEPT ![r] = q]
  PROVE  req' \in [Requests -> Request] /\ Acting' /\ Found'
  BY DEF TypeInv, TypeOK, Acting, Found

LEMMA ReqDone ==
  ASSUME TypeInv, NEW r \in Requests, Done(r)
  PROVE  req' \in [Requests -> Request] /\ Acting' /\ Found'
  <1>1. Idle.pc = "idle"
    BY DEF Idle
  <1> QED BY <1>1, IdleType, ReqUpdate DEF Done

LEMMA TypeInit == Init => TypeInv
  <1> SUFFICES ASSUME Init PROVE TypeInv
    OBVIOUS
  <1>1. session \in [Sids -> Session]
    BY DEF Init, Session
  <1>2. req \in [Requests -> Request]
    BY IdleType DEF Init
  <1>3. made \in [sessions : 0..MaxSessions, secrets : 0..MaxSecrets, links : 0..MaxLinks]
    BY BoundsAssumption DEF Init
  <1>4. Acting /\ Found
    BY DEF Init, Idle, Acting, Found
  <1> QED BY <1>1, <1>2, <1>3, <1>4 DEF Init, TypeInv, TypeOK

-----------------------------------------------------------------------------
(* One lemma per request, for the steps of that request. *)
LEMMA TypeLogin ==
  ASSUME TypeInv, NEW r \in Requests, Login(r)
  PROVE  TypeInv'
  <1> USE DEF TypeInv, database, history, Made
  <1>1. CASE DecideFull(r)
    <2> DEFINE q == [req[r] EXCEPT !.pc = "create"]
    <2>1. q \in Request /\ q.pc = "create" /\ q.user \in Users
      <3>1. req[r] \in Request /\ req[r].user \in Users
        BY <1>1 DEF DecideFull, TypeOK, Acting
      <3> QED BY <3>1, MoveTo
    <2>2. req' \in [Requests -> Request] /\ Acting' /\ Found'
      <3>1. req' = [req EXCEPT ![r] = q]
        BY <1>1 DEF DecideFull
      <3> QED BY <2>1, <3>1, ReqUpdate
    <2> QED BY <1>1, <2>2 DEF DecideFull, TypeOK
  <1>2. CASE DecidePending(r)
    <2>1. PendingToken(req[r].user, req[r].cred) \in Token
      BY <1>2 DEF DecidePending, PendingToken, Token, TypeOK, Acting, Request
    <2>2. req' \in [Requests -> Request] /\ Acting' /\ Found'
      BY <1>2, ReqDone DEF DecidePending
    <2> QED BY <1>2, <2>1, <2>2 DEF DecidePending, TypeOK
  <1>3. ASSUME NEW t \in tokens, DecideTrusted(r, t)
        PROVE  TypeInv'
    <2> DEFINE new == [t EXCEPT !.typ = "access", !.sub = req[r].user]
    <2>1. t \in [typ : {"access", "device_trust"}, sub : Users, sid : Sids, cred : Nat]
      BY <1>3 DEF DecideTrusted, TrustsDevice, TypeOK, Token
    <2>2. new \in Token
      BY <1>3, <2>1 DEF DecideTrusted, Token, Acting
    <2>3. req' \in [Requests -> Request] /\ Acting' /\ Found'
      BY <1>3, ReqDone DEF DecideTrusted
    <2> QED BY <1>3, <2>2, <2>3 DEF DecideTrusted, TypeOK
  <1>4. CASE CreateSession(r)
    <2> DEFINE q == req[r]
               s == made.sessions + 1
               typs == IF q.remember THEN {"access", "device_trust"} ELSE {"access"}
               row == [state |-> "live", user |-> q.user, trusted |-> q.remember,
                       cred |-> q.cred, epoch |-> password[q.user], factor |-> q.secret]
    <2>1. q \in Request /\ q.user \in Users /\ s \in Sids
      BY <1>4 DEF CreateSession, TypeOK, Acting
    <2>2. row \in Session
      BY <2>1 DEF Request, Session, TypeOK
    <2>3. session' \in [Sids -> Session]
      BY <1>4, <2>1, <2>2 DEF CreateSession, TypeOK
    <2>4. [typ : typs, sub : {q.user}, sid : {s}, cred : {q.cred}] \subseteq Token
      BY <2>1 DEF Token, Request
    <2>5. tokens' \subseteq Token
      BY <1>4, <2>4 DEF CreateSession, TypeOK
    <2>6. made' \in Made
      BY <1>4, <2>1, MadeType DEF CreateSession, TypeOK
    <2>7. req' \in [Requests -> Request] /\ Acting' /\ Found'
      BY <1>4, ReqDone DEF CreateSession
    <2> QED BY <1>4, <2>3, <2>5, <2>6, <2>7 DEF CreateSession, TypeOK
  <1> QED BY <1>1, <1>2, <1>3, <1>4 DEF Login

LEMMA TypeTwoFactor ==
  ASSUME TypeInv, NEW r \in Requests, TwoFactor(r)
  PROVE  TypeInv'
  <1> USE DEF TypeInv, database, history, Made
  <1>1. CASE SetupTwoFactor(r)
    <2>1. made.secrets + 1 \in Secrets /\ req[r].user \in Users
      BY <1>1 DEF SetupTwoFactor, Acting
    <2>2. secret' \in [Users -> Secrets \cup {0}]
      BY <1>1, <2>1 DEF SetupTwoFactor, TypeOK
    <2>3. made' \in Made
      BY <1>1, <2>1, MadeType DEF SetupTwoFactor, TypeOK
    <2>4. req' \in [Requests -> Request] /\ Acting' /\ Found'
      BY <1>1, ReqDone DEF SetupTwoFactor
    <2> QED BY <1>1, <2>2, <2>3, <2>4 DEF SetupTwoFactor, TypeOK
  <1>2. ASSUME NEW remember \in BOOLEAN, VerifyCode(r, remember)
        PROVE  TypeInv'
    <2> DEFINE u == req[r].user
               q == [req[r] EXCEPT !.pc = IF enabled[u] THEN "create" ELSE "enable",
                                   !.secret = secret[u],
                                   !.remember = remember]
    <2>1. u \in Users /\ req[r] \in Request /\ secret[u] \in Secrets
      BY <1>2 DEF VerifyCode, Acting, TypeOK
    <2>2. q \in Request /\ q.user = u /\ q.pc \in {"create", "enable"}
      BY <2>1 DEF Request
    <2>3. req' = [req EXCEPT ![r] = q]
      BY <1>2 DEF VerifyCode
    <2>4. req' \in [Requests -> Request] /\ Acting' /\ Found'
      BY <2>1, <2>2, <2>3, ReqUpdate
    <2>5. confirmed' \in [Users -> SUBSET Secrets]
      BY <1>2, <2>1 DEF VerifyCode, TypeOK
    <2> QED BY <1>2, <2>4, <2>5 DEF VerifyCode, TypeOK
  <1>3. CASE EnableTwoFactor(r)
    <2> DEFINE q == [req[r] EXCEPT !.pc = "create"]
    <2>1. q \in Request /\ q.pc = "create" /\ q.user \in Users
      <3>1. req[r] \in Request /\ req[r].user \in Users
        BY <1>3 DEF EnableTwoFactor, TypeOK, Acting
      <3> QED BY <3>1, MoveTo
    <2>2. req' \in [Requests -> Request] /\ Acting' /\ Found'
      <3>1. req' = [req EXCEPT ![r] = q]
        BY <1>3 DEF EnableTwoFactor
      <3> QED BY <2>1, <3>1, ReqUpdate
    <2>3. enabled' \in [Users -> BOOLEAN]
      BY <1>3 DEF EnableTwoFactor, TypeOK
    <2> QED BY <1>3, <2>2, <2>3 DEF EnableTwoFactor, TypeOK
  <1> QED BY <1>1, <1>2, <1>3 DEF TwoFactor

LEMMA TypeRevoke ==
  ASSUME TypeInv, NEW r \in Requests, Revoke(r)
  PROVE  TypeInv'
  <1> USE DEF TypeInv, database, history, Made
  <1>1. ASSUME NEW s \in Sids, RevokeFind(r, s)
        PROVE  TypeInv'
    <2> DEFINE q == [req[r] EXCEPT !.pc = "delete", !.sid = s]
    <2>1. req[r] \in Request /\ req[r].user \in Users
      BY <1>1 DEF RevokeFind, TypeOK, Acting
    <2>2. q \in Request /\ q.user \in Users /\ q.sid \in Sids /\ q.pc = "delete"
      BY <2>1 DEF Request
    <2>3. req' = [req EXCEPT ![r] = q]
      BY <1>1 DEF RevokeFind
    <2>4. req' \in [Requests -> Request] /\ Acting' /\ Found'
      BY <2>2, <2>3, ReqUpdate
    <2> QED BY <1>1, <2>4 DEF RevokeFind, TypeOK
  <1>2. CASE RevokeDelete(r)
    <2>1. req[r].sid \in Sids
      BY <1>2 DEF RevokeDelete, Found
    <2>2. Revoked(session[req[r].sid]) \in Session
      <3>1. session[req[r].sid] \in Session
        BY <2>1 DEF TypeOK
      <3> QED BY <3>1, RevokedType
    <2>3. session' \in [Sids -> Session]
      BY <1>2, <2>1, <2>2 DEF RevokeDelete, TypeOK
    <2>4. req' \in [Requests -> Request] /\ Acting' /\ Found'
      BY <1>2, ReqDone DEF RevokeDelete
    <2> QED BY <1>2, <2>3, <2>4 DEF RevokeDelete, TypeOK
  <1> QED BY <1>1, <1>2 DEF Revoke

LEMMA TypeReset ==
  ASSUME TypeInv, NEW r \in Requests, Reset(r)
  PROVE  TypeInv'
  <1> USE DEF TypeInv, database, history, Made
  <1>1. ASSUME NEW u \in Users, ForgotMail(r, u)
        PROVE  TypeInv'
    <2> DEFINE rest == [req[r] EXCEPT !.todo = req[r].todo \ {u}]
               q == IF req[r].todo = {u} THEN Idle ELSE rest
    <2>1. made.links + 1 \in Links /\ req[r] \in Request /\ req[r].pc = "mail"
      BY <1>1 DEF ForgotMail, TypeOK
    <2>2. rest \in Request /\ rest.pc = "mail"
      BY <2>1 DEF Request
    <2>3. q \in Request /\ q.pc \in {"idle", "mail"}
      BY <2>2, IdleType DEF Idle
    <2>4. req' = [req EXCEPT ![r] = q]
      BY <1>1 DEF ForgotMail
    <2>5. req' \in [Requests -> Request] /\ Acting' /\ Found'
      <3> HIDE DEF q
      <3> QED BY <2>3, <2>4, ReqUpdate
    <2>6. link' \in [Users -> Links \cup {0}] /\ made' \in Made
      BY <1>1, <2>1, MadeType DEF ForgotMail, TypeOK
    <2> QED BY <1>1, <2>5, <2>6 DEF ForgotMail, TypeOK
  <1>2. CASE ResetUpdate(r)
    <2> DEFINE q == [req[r] EXCEPT !.pc = "revokeAll"]
    <2>1. req[r] \in Request /\ req[r].user \in Users
      BY <1>2 DEF ResetUpdate, TypeOK, Acting
    <2>2. q \in Request /\ q.pc = "revokeAll" /\ q.user \in Users
      BY <2>1, MoveTo
    <2>3. req' = [req EXCEPT ![r] = q]
      BY <1>2 DEF ResetUpdate
    <2>4. req' \in [Requests -> Request] /\ Acting' /\ Found'
      BY <2>2, <2>3, ReqUpdate
    <2>5. password' \in [Users -> Nat]
      <3>1. password[req[r].user] + 1 \in Nat
        BY <2>1 DEF TypeOK
      <3> QED BY <1>2, <3>1 DEF ResetUpdate, TypeOK
    <2>6. link' \in [Users -> Links \cup {0}]
      BY <1>2 DEF ResetUpdate, LinkAfterReset, TypeOK
    <2>7. spent' \subseteq Links
      BY <1>2 DEF ResetUpdate, Found, TypeOK
    <2> QED BY <1>2, <2>4, <2>5, <2>6, <2>7 DEF ResetUpdate, TypeOK
  <1>3. CASE RevokeAll(r)
    <2>1. req[r].user \in Users
      BY <1>3 DEF RevokeAll, Acting
    <2>2. \A s \in Sids : session[s] \in Session /\ Revoked(session[s]) \in Session
      BY RevokedType DEF TypeOK
    <2>4. session' \in [Sids -> Session]
      BY <1>3, <2>2 DEF RevokeAll
    <2>5. req' \in [Requests -> Request] /\ Acting' /\ Found'
      BY <1>3, ReqDone DEF RevokeAll
    <2> QED BY <1>3, <2>4, <2>5 DEF RevokeAll, TypeOK
  <1> QED BY <1>1, <1>2, <1>3 DEF Reset

LEMMA TypeStart ==
  ASSUME TypeInv, NEW r \in Requests, Start(r)
  PROVE  TypeInv'
  <1> USE DEF TypeInv, database, history
  <1>1. ASSUME NEW u \in Users, LoginMatch(r, u)
        PROVE  TypeInv'
    <2> DEFINE q == [Idle EXCEPT !.pc = "matched", !.user = u, !.cred = password[u]]
    <2>1. q \in Request /\ q.user \in Users /\ q.pc = "matched"
      BY DEF Idle, Request, TypeOK
    <2>2. req' = [req EXCEPT ![r] = q]
      BY <1>1 DEF LoginMatch
    <2>3. req' \in [Requests -> Request] /\ Acting' /\ Found'
      BY <2>1, <2>2, ReqUpdate
    <2> QED BY <1>1, <2>3 DEF LoginMatch, TypeOK
  <1>2. ASSUME NEW t \in tokens, NEW route \in {"setup", "verify", "revoke"},
               Authenticate(r, t, route)
        PROVE  TypeInv'
    <2> DEFINE q == [Idle EXCEPT !.pc = route, !.user = t.sub, !.bearer = t.typ,
                                 !.cred = t.cred]
    <2>1. /\ t.sub \in Users /\ t.cred \in Nat
          /\ t.typ \in {"access", "device_trust", "pending_2fa"}
      BY DEF TypeOK, Token
    <2>2. q \in Request /\ q.user \in Users /\ q.pc \notin {"delete", "hash"}
      BY <2>1 DEF Idle, Request
    <2>3. req' = [req EXCEPT ![r] = q]
      BY <1>2 DEF Authenticate
    <2>4. req' \in [Requests -> Request] /\ Acting' /\ Found'
      BY <2>2, <2>3, ReqUpdate
    <2> QED BY <1>2, <2>4 DEF Authenticate, TypeOK
  <1>3. ASSUME NEW e \in Emails, ForgotRead(r, e)
        PROVE  TypeInv'
    <2> DEFINE q == [Idle EXCEPT !.pc = "mail", !.todo = {u \in Users : EmailOf[u] = e}]
    <2>1. q \in Request /\ q.pc = "mail"
      BY DEF Idle, Request
    <2>2. req' = [req EXCEPT ![r] = q]
      BY <1>3 DEF ForgotRead
    <2>3. req' \in [Requests -> Request] /\ Acting' /\ Found'
      BY <2>1, <2>2, ReqUpdate
    <2> QED BY <1>3, <2>3 DEF ForgotRead, TypeOK
  <1>4. ASSUME NEW u \in Users, ResetFind(r, u)
        PROVE  TypeInv'
    <2> DEFINE q == [Idle EXCEPT !.pc = "hash", !.user = u, !.link = link[u]]
    <2>1. q \in Request /\ q.user \in Users /\ q.pc = "hash" /\ q.link \in Links
      BY <1>4 DEF ResetFind, Idle, Request, TypeOK
    <2>2. req' = [req EXCEPT ![r] = q]
      BY <1>4 DEF ResetFind
    <2>3. req' \in [Requests -> Request] /\ Acting' /\ Found'
      BY <2>1, <2>2, ReqUpdate
    <2> QED BY <1>4, <2>3 DEF ResetFind, TypeOK
  <1> QED BY <1>1, <1>2, <1>3, <1>4 DEF Start

LEMMA TypeNext == TypeInv /\ [Next]_vars => TypeInv'
  <1> SUFFICES ASSUME TypeInv, [Next]_vars PROVE TypeInv'
    OBVIOUS
  <1>1. ASSUME NEW r \in Requests, Fail(r)
        PROVE  TypeInv'
    <2>1. req' \in [Requests -> Request] /\ Acting' /\ Found'
      BY <1>1, ReqDone DEF Fail
    <2>2. cut' \subseteq Users
      BY <1>1 DEF Fail, TypeInv, TypeOK, Acting
    <2> QED BY <1>1, <2>1, <2>2 DEF Fail, TypeInv, TypeOK, database
  <1>2. CASE UNCHANGED vars
    BY <1>2 DEF vars, TypeInv, TypeOK, Acting, Found
  <1> QED
    BY <1>1, <1>2, TypeStart, TypeLogin, TypeTwoFactor, TypeRevoke, TypeReset
    DEF Next, Step

(* TypeOK holds in every reachable state, whatever the requests do. *)
THEOREM TypeCorrect == Spec => []TypeOK
  <1>1. TypeInv => TypeOK
    BY DEF TypeInv
  <1> QED BY TypeInit, TypeNext, <1>1, PTL DEF Spec

-----------------------------------------------------------------------------
(* What a step may do to a session row: leave it, make it, or end it.      *)
LEMMA RowStep ==
  ASSUME TypeInv, [Next]_vars, NEW s \in Sids, session'[s] # session[s]
  PROVE  \/ /\ s = made.sessions + 1
            /\ \E r \in Requests : CreateSession(r)
         \/ /\ Live(s)
            /\ session'[s] = Revoked(session[s])
            /\ \E r \in Requests :
                 \/ req[r].pc = "delete" /\ req[r].sid = s
                 \/ req[r].pc = "revokeAll" /\ req[r].user = session[s].user
  <1> USE DEF TypeInv
  <1>1. CASE \E r \in Requests : CreateSession(r)
    BY <1>1 DEF CreateSession, TypeOK
  <1>2. ASSUME NEW r \in Requests, RevokeDelete(r)
        PROVE  /\ Live(s)
               /\ session'[s] = Revoked(session[s])
               /\ req[r].pc = "delete" /\ req[r].sid = s
    <2>1. s = req[r].sid
      BY <1>2 DEF RevokeDelete, TypeOK
    <2> QED BY <1>2, <2>1 DEF RevokeDelete, TypeOK
  <1>3. ASSUME NEW r \in Requests, RevokeAll(r)
        PROVE  /\ Live(s)
               /\ session'[s] = Revoked(session[s])
               /\ req[r].pc = "revokeAll" /\ req[r].user = session[s].user
    <2>1. RevokedByReset(s, req[r].user)
      BY <1>3 DEF RevokeAll
    <2> QED BY <1>3, <2>1 DEF RevokeAll, RevokedByReset
  <1>4. CASE UNCHANGED session
    BY <1>4
  <1> QED
    BY <1>1, <1>2, <1>3, <1>4
    DEF Next, Step, Start, Login, TwoFactor, Revoke, Reset, LoginMatch, Authenticate,
        ForgotRead, ResetFind, DecideFull, DecidePending, DecideTrusted, SetupTwoFactor,
        VerifyCode, EnableTwoFactor, RevokeFind, ForgotMail, ResetUpdate, Fail, vars,
        database

(* A request moves by its own steps only. *)
LEMMA ReqStep ==
  ASSUME TypeInv, [Next]_vars, NEW r \in Requests
  PROVE  req'[r] = req[r] \/ Start(r) \/ Step(r) \/ Fail(r)
  <1> USE DEF TypeInv
  <1>1. ASSUME NEW q \in Requests, q # r, Start(q)
        PROVE  req'[r] = req[r]
    BY <1>1 DEF Start, LoginMatch, Authenticate, ForgotRead, ResetFind, TypeOK
  <1>2. ASSUME NEW q \in Requests, q # r, Done(q)
        PROVE  req'[r] = req[r]
    BY <1>2 DEF Done, TypeOK
  <1>3. ASSUME NEW q \in Requests, q # r, Step(q)
        PROVE  req'[r] = req[r]
    <2>1. CASE Login(q)
      BY <1>2, <1>3, <2>1
         DEF Login, DecideFull, DecidePending, DecideTrusted, CreateSession, TypeOK
    <2>2. CASE TwoFactor(q)
      BY <1>2, <1>3, <2>2
         DEF TwoFactor, SetupTwoFactor, VerifyCode, EnableTwoFactor, TypeOK
    <2>3. CASE Revoke(q)
      BY <1>2, <1>3, <2>3 DEF Revoke, RevokeFind, RevokeDelete, TypeOK
    <2>4. CASE Reset(q)
      BY <1>2, <1>3, <2>4 DEF Reset, ForgotMail, ResetUpdate, RevokeAll, TypeOK
    <2> QED BY <1>3, <2>1, <2>2, <2>3, <2>4 DEF Step
  <1>4. ASSUME NEW q \in Requests, q # r, Fail(q)
        PROVE  req'[r] = req[r]
    BY <1>2, <1>4 DEF Fail
  <1>5. CASE UNCHANGED vars
    BY <1>5 DEF vars
  <1> QED BY <1>1, <1>3, <1>4, <1>5 DEF Next

(* Where the steps of a request lead. *)
LEMMA StartPc ==
  ASSUME TypeInv, NEW r \in Requests, Start(r)
  PROVE  \/ req'[r].pc \in {"matched", "mail", "hash"}
         \/ \E t \in tokens, route \in {"setup", "verify", "revoke"} : Authenticate(r, t, route)
  <1> USE DEF TypeInv
  <1>1. ASSUME NEW u \in Users, LoginMatch(r, u)
        PROVE  req'[r].pc = "matched"
    BY <1>1 DEF LoginMatch, Idle, TypeOK
  <1>2. ASSUME NEW e \in Emails, ForgotRead(r, e)
        PROVE  req'[r].pc = "mail"
    BY <1>2 DEF ForgotRead, Idle, TypeOK
  <1>3. ASSUME NEW u \in Users, ResetFind(r, u)
        PROVE  req'[r].pc = "hash"
    BY <1>3 DEF ResetFind, Idle, TypeOK
  <1> QED BY <1>1, <1>2, <1>3 DEF Start

LEMMA StepPc ==
  ASSUME TypeInv, NEW r \in Requests, Step(r)
  PROVE  \/ \E s \in Sids : RevokeFind(r, s)
         \/ req'[r].pc \in {"idle", "mail"}
         \/ req'[r].pc = "create" /\ (DecideFull(r) \/ EnableTwoFactor(r))
         \/ /\ req'[r].pc \in {"create", "enable"}
            /\ \E remember \in BOOLEAN : VerifyCode(r, remember)
         \/ req'[r].pc = "revokeAll" /\ ResetUpdate(r)
  <1> USE DEF TypeInv
  <1>1. req[r] \in Request /\ Idle.pc = "idle"
    BY DEF TypeOK, Idle
  <1>2. CASE Done(r)
    BY <1>1, <1>2 DEF Done, TypeOK
  <1>3. CASE DecideFull(r) \/ EnableTwoFactor(r)
    <2>1. req'[r] = [req[r] EXCEPT !.pc = "create"]
      BY <1>3 DEF DecideFull, EnableTwoFactor, TypeOK
    <2> QED BY <1>1, <1>3, <2>1, MoveTo
  <1>4. CASE ResetUpdate(r)
    <2>1. req'[r] = [req[r] EXCEPT !.pc = "revokeAll"]
      BY <1>4 DEF ResetUpdate, TypeOK
    <2> QED BY <1>1, <1>4, <2>1, MoveTo
  <1>5. ASSUME NEW u \in Users, ForgotMail(r, u)
        PROVE  req'[r].pc \in {"idle", "mail"}
    <2>1. \/ req'[r] = Idle
          \/ req'[r] = [req[r] EXCEPT !.todo = req[r].todo \ {u}]
      BY <1>5 DEF ForgotMail, TypeOK
    <2> QED BY <1>1, <1>5, <2>1 DEF ForgotMail, Request
  <1>6. ASSUME NEW remember \in BOOLEAN, VerifyCode(r, remember)
        PROVE  req'[r].pc \in {"create", "enable"}
    <2>1. req'[r] = [req[r] EXCEPT !.pc = IF enabled[req[r].user] THEN "create" ELSE "enable",
                                   !.secret = secret[req[r].user],
                                   !.remember = remember]
      BY <1>6 DEF VerifyCode, TypeOK
    <2> QED BY <1>1, <2>1 DEF Request
  <1> QED
    BY <1>2, <1>3, <1>4, <1>5, <1>6
    DEF Step, Login, TwoFactor, Revoke, Reset, DecidePending, DecideTrusted, CreateSession,
        SetupTwoFactor, RevokeDelete, RevokeAll

LEMMA MadeStep ==
  ASSUME TypeInv, [Next]_vars, made'.sessions # made.sessions
  PROVE  made'.sessions = made.sessions + 1
  BY DEF Next, Step, Start, Login, TwoFactor, Revoke, Reset, LoginMatch, Authenticate,
        ForgotRead, ResetFind, DecideFull, DecidePending, DecideTrusted, SetupTwoFactor,
        VerifyCode, EnableTwoFactor, RevokeFind, ForgotMail, ResetUpdate, Fail, vars,
        database, CreateSession, RevokeDelete, RevokeAll, TypeInv, TypeOK

(* Rows are numbered in the order they are made, and have an owner. *)
RowInv ==
  \A s \in Sids : session[s].state # "none" =>
    s <= made.sessions /\ session[s].user \in Users

LEMMA RowNext == TypeInv /\ RowInv /\ [Next]_vars => RowInv'
  <1> SUFFICES ASSUME TypeInv, RowInv, [Next]_vars,
                      NEW s \in Sids, session'[s].state # "none"
               PROVE  s <= made'.sessions /\ session'[s].user \in Users
    BY DEF RowInv
  <1>1. made.sessions \in Nat /\ s \in Nat /\ session[s] \in Session
    <2>1. made.sessions \in 0..MaxSessions /\ s \in 1..MaxSessions
      BY DEF TypeInv, TypeOK, Sids
    <2>2. session[s] \in Session
      BY DEF TypeInv, TypeOK
    <2> QED BY <2>1, <2>2
  <1>2. made'.sessions \in {made.sessions, made.sessions + 1}
    BY MadeStep
  <1>3. CASE session'[s] = session[s]
    BY <1>1, <1>2, <1>3 DEF RowInv
  <1>4. ASSUME s = made.sessions + 1, NEW r \in Requests, CreateSession(r)
        PROVE  s <= made'.sessions /\ session'[s].user \in Users
    <2>1. made'.sessions = s
      BY <1>4 DEF CreateSession, TypeInv, TypeOK
    <2>2. session'[s].user = req[r].user /\ req[r].user \in Users
      BY <1>4 DEF CreateSession, TypeInv, TypeOK, Acting
    <2> QED BY <1>1, <2>1, <2>2
  <1>5. CASE Live(s) /\ session'[s] = Revoked(session[s])
    <2>1. s <= made.sessions /\ session[s].user \in Users
      BY <1>5 DEF Live, RowInv
    <2>2. session'[s].user = session[s].user
      BY <1>1, <1>5, RevokedType
    <2> QED BY <1>1, <1>2, <2>1, <2>2
  <1> QED BY <1>3, <1>4, <1>5, RowStep

(* A row that exists keeps its owner and what was true when it was made. *)
LEMMA RowKept ==
  ASSUME TypeInv, RowInv, [Next]_vars, NEW s \in Sids, session[s].state # "none"
  PROVE  /\ session'[s].state # "none"
         /\ session'[s].user = session[s].user
         /\ session'[s].factor = session[s].factor
         /\ session'[s].epoch = session[s].epoch
         /\ Live(s)' => Live(s)
  <1>1. session[s] \in Session /\ made.sessions \in Nat /\ s <= made.sessions
    BY DEF TypeInv, TypeOK, RowInv
  <1>2. s # made.sessions + 1
    BY <1>1 DEF Sids
  <1>3. CASE session'[s] = session[s]
    BY <1>3 DEF Live
  <1>4. CASE Live(s) /\ session'[s] = Revoked(session[s])
    BY <1>1, <1>4, RevokedType
  <1> QED BY <1>2, <1>3, <1>4, RowStep

(* A row may be deleted by a full access token of its owner only. *)
OwnerInv ==
  \A r \in Requests :
    /\ req[r].pc = "revoke" => req[r].bearer = "access"
    /\ req[r].pc = "delete" => /\ req[r].bearer = "access"
                              /\ session[req[r].sid].state # "none"
                              /\ session[req[r].sid].user = req[r].user

LEMMA OwnerNext == TypeInv /\ RowInv /\ OwnerInv /\ [Next]_vars => OwnerInv'
  <1> SUFFICES ASSUME TypeInv, RowInv, OwnerInv, [Next]_vars, NEW r \in Requests
               PROVE  /\ req'[r].pc = "revoke" => req'[r].bearer = "access"
                      /\ req'[r].pc = "delete" =>
                           /\ req'[r].bearer = "access"
                           /\ session'[req'[r].sid].state # "none"
                           /\ session'[req'[r].sid].user = req'[r].user
    BY DEF OwnerInv
  <1>1. CASE req'[r] = req[r]
    <2>1. req[r].pc = "delete" => req[r].sid \in Sids
      BY DEF TypeInv, Found
    <2> QED BY <1>1, <2>1, RowKept DEF OwnerInv
  <1>2. CASE req'[r].pc \notin {"revoke", "delete"}
    BY <1>2
  <1>3. ASSUME NEW t \in tokens, NEW route \in {"setup", "verify", "revoke"},
               Authenticate(r, t, route)
        PROVE  req'[r].pc # "delete" /\ (req'[r].pc = "revoke" => req'[r].bearer = "access")
    <2>1. req'[r] = [Idle EXCEPT !.pc = route, !.user = t.sub, !.bearer = t.typ,
                                 !.cred = t.cred]
      BY <1>3 DEF Authenticate, TypeInv, TypeOK
    <2>2. req'[r].pc = route /\ req'[r].bearer = t.typ
      BY <2>1 DEF Idle
    <2>3. t.typ \in {"access", "device_trust", "pending_2fa"}
      BY DEF TypeInv, TypeOK, Token
    <2> QED BY <1>3, <2>2, <2>3 DEF Authenticate, Admits
  <1>4. ASSUME NEW s \in Sids, RevokeFind(r, s)
        PROVE  /\ req'[r].pc = "delete" /\ req'[r].bearer = "access"
               /\ session'[req'[r].sid].state # "none"
               /\ session'[req'[r].sid].user = req'[r].user
    <2>1. req'[r] = [req[r] EXCEPT !.pc = "delete", !.sid = s] /\ req[r] \in Request
      BY <1>4 DEF RevokeFind, TypeInv, TypeOK
    <2>2. /\ req'[r].pc = "delete" /\ req'[r].sid = s
          /\ req'[r].bearer = req[r].bearer /\ req'[r].user = req[r].user
      BY <2>1 DEF Request
    <2> QED BY <1>4, <2>2 DEF RevokeFind, MayRevoke, Live, OwnerInv, database
  <1>5. req'[r] = req[r] \/ Start(r) \/ Step(r) \/ Fail(r)
    BY ReqStep
  <1>6. CASE Start(r)
    <2>1. \/ req'[r].pc \in {"matched", "mail", "hash"}
          \/ \E t \in tokens, route \in {"setup", "verify", "revoke"} : Authenticate(r, t, route)
      BY <1>6, StartPc
    <2> QED BY <1>2, <1>3, <2>1
  <1>7. CASE Step(r)
    <2>1. CASE \E s \in Sids : RevokeFind(r, s)
      BY <1>4, <2>1
    <2>2. CASE ~ \E s \in Sids : RevokeFind(r, s)
      BY <1>2, <1>7, <2>2, StepPc
    <2> QED BY <2>1, <2>2
  <1>8. CASE Fail(r)
    BY <1>2, <1>8 DEF Fail, Done, Idle, TypeInv, TypeOK
  <1> QED BY <1>1, <1>5, <1>6, <1>7, <1>8

LEMMA RowsInit == Init => RowInv /\ OwnerInv
  BY DEF Init, RowInv, OwnerInv, Idle

LEMMA EndedStep ==
  TypeInv /\ RowInv /\ OwnerInv /\ [Next]_vars =>
    [\A s \in Sids : Live(s) /\ session'[s].state # "live" =>
       \E r \in Requests :
         /\ req[r].user = session[s].user
         /\ \/ req[r].pc = "delete" /\ req[r].bearer = "access" /\ req[r].sid = s
            \/ req[r].pc = "revokeAll"]_vars
  <1> SUFFICES ASSUME TypeInv, RowInv, OwnerInv, [Next]_vars,
                      NEW s \in Sids, Live(s), session'[s].state # "live"
               PROVE  \E r \in Requests :
                        /\ req[r].user = session[s].user
                        /\ \/ req[r].pc = "delete" /\ req[r].bearer = "access" /\ req[r].sid = s
                           \/ req[r].pc = "revokeAll"
    OBVIOUS
  <1>1. session'[s] # session[s]
    BY DEF Live
  <1>2. s # made.sessions + 1
    <2>1. s \in Nat /\ made.sessions \in Nat /\ s <= made.sessions
      <3>1. s \in 1..MaxSessions /\ made.sessions \in 0..MaxSessions
        BY DEF Sids, TypeInv, TypeOK
      <3> QED BY <3>1 DEF RowInv, Live
    <2> QED BY <2>1
  <1>3. \/ \E r \in Requests : req[r].pc = "delete" /\ req[r].sid = s
        \/ \E r \in Requests : req[r].pc = "revokeAll" /\ req[r].user = session[s].user
    BY <1>1, <1>2, RowStep
  <1> QED BY <1>3 DEF OwnerInv

(* Only its own user ends a session, for any number of users, sessions and *)
(* requests at work on them.                                               *)
THEOREM EndedByOwner == Spec => SessionEndedByOwner
  BY TypeInit, TypeNext, RowsInit, RowNext, OwnerNext, EndedStep, PTL
  DEF Spec, SessionEndedByOwner

(* A session that has ended: its tokens open no route, its device no login. *)
Ended(s) ==
  /\ session[s].state = "revoked"
  /\ \A t \in tokens : t.typ # "pending_2fa" /\ t.sid = s =>
       /\ \A route \in {"setup", "verify", "revoke"} : ~Admits(t, route)
       /\ \A u \in Users : ~TrustsDevice(t, u)

(* WHAT IS REVOKED STAYS REVOKED.  From the moment a session ends, no token *)
(* that names it is admitted and no device of its is trusted, tokens signed *)
(* later among them: no login, second factor or reset revives the row       *)
(* (TenantMiddleware, ActiveSessionsService.create and revoke).             *)
THEOREM EndedForGood ==
  ASSUME NEW s \in Sids
  PROVE  Spec => [](session[s].state = "revoked" => []Ended(s))
  <1>1. ASSUME TypeInv, RowInv, [Next]_vars, TypeInv', session[s].state = "revoked"
        PROVE  session'[s].state = "revoked"
    <2>1. session'[s].state \in {"none", "live", "revoked"}
      BY <1>1 DEF TypeInv, TypeOK, Session
    <2>2. session'[s].state # "none" /\ (Live(s)' => Live(s))
      BY <1>1, RowKept
    <2> QED BY <1>1, <2>1, <2>2 DEF Live
  <1>2. TypeInv /\ RowInv /\ [Next]_vars /\ TypeInv' =>
          (session[s].state = "revoked" => (session[s].state = "revoked")')
    BY <1>1
  <1>3. session[s].state = "revoked" => Ended(s)
    BY DEF Ended, Admits, TrustsDevice, Live
  <1> QED BY <1>2, <1>3, TypeInit, TypeNext, RowsInit, RowNext, PTL DEF Spec

-----------------------------------------------------------------------------
(* A step that changes a password is a reset that goes on to its           *)
(* deleteMany; a request leaves that point by deleting or by dying.        *)
LEMMA PasswordStep ==
  ASSUME TypeInv, [Next]_vars, NEW u \in Users
  PROVE  \/ password'[u] = password[u]
         \/ \E r \in Requests : req'[r].pc = "revokeAll" /\ req'[r].user = u
  <1> USE DEF TypeInv
  <1>1. ASSUME NEW r \in Requests, ResetUpdate(r), password'[u] # password[u]
        PROVE  req'[r].pc = "revokeAll" /\ req'[r].user = u
    <2>1. req[r].user = u /\ req[r] \in Request
      BY <1>1 DEF ResetUpdate, TypeOK
    <2>2. req'[r] = [req[r] EXCEPT !.pc = "revokeAll"]
      BY <1>1 DEF ResetUpdate, TypeOK
    <2> QED BY <2>1, <2>2, MoveTo
  <1>2. CASE UNCHANGED password
    BY <1>2
  <1> QED
    BY <1>1, <1>2
    DEF Next, Step, Start, Login, TwoFactor, Revoke, Reset, LoginMatch, Authenticate,
        ForgotRead, ResetFind, DecideFull, DecidePending, DecideTrusted, CreateSession,
        SetupTwoFactor, VerifyCode, EnableTwoFactor, RevokeFind, RevokeDelete, ForgotMail,
        RevokeAll, Fail, vars, database

LEMMA RevokingStep ==
  ASSUME TypeInv, [Next]_vars, NEW r \in Requests, req[r].pc = "revokeAll"
  PROVE  req'[r] = req[r] \/ RevokeAll(r) \/ Fail(r)
  <1>1. CASE Start(r)
    BY <1>1 DEF Start, LoginMatch, Authenticate, ForgotRead, ResetFind
  <1>2. CASE Step(r)
    BY <1>2 DEF Step, Login, TwoFactor, Revoke, Reset, DecideFull, DecidePending,
                DecideTrusted, CreateSession, SetupTwoFactor, VerifyCode, EnableTwoFactor,
                RevokeFind, RevokeDelete, ForgotMail, ResetUpdate
  <1> QED BY <1>1, <1>2, ReqStep

LEMMA CutStep ==
  ASSUME TypeInv, [Next]_vars, NEW u \in cut
  PROVE  u \in cut' \/ \E r \in Requests : RevokeAll(r) /\ req[r].user = u
  BY DEF Next, Step, Start, Login, TwoFactor, Revoke, Reset, LoginMatch, Authenticate,
        ForgotRead, ResetFind, DecideFull, DecidePending, DecideTrusted, CreateSession,
        SetupTwoFactor, VerifyCode, EnableTwoFactor, RevokeFind, RevokeDelete, ForgotMail,
        ResetUpdate, RevokeAll, Fail, vars, history

LEMMA DoomedNext ==
  TypeInv /\ RowInv /\ StaleSessionsDoomed /\ [Next]_vars => StaleSessionsDoomed'
  <1> SUFFICES ASSUME TypeInv, RowInv, StaleSessionsDoomed, [Next]_vars,
                      NEW s \in Sids, Stale(s)'
               PROVE  \/ session'[s].user \in cut'
                      \/ \E r \in Requests : /\ req'[r].pc = "revokeAll"
                                             /\ req'[r].user = session'[s].user
    BY DEF StaleSessionsDoomed
  <1> DEFINE owner == session[s].user
  <1>1. session'[s].state = "live" /\ session'[s].epoch < password'[session'[s].user]
    BY DEF Stale, Live
  <1>2. ASSUME NEW r \in Requests, CreateSession(r), s = made.sessions + 1
        PROVE  FALSE
    <2>1. /\ session'[s].user = req[r].user /\ session'[s].epoch = password[req[r].user]
          /\ password' = password
      BY <1>2 DEF CreateSession, TypeInv, TypeOK
    <2>2. req[r].user \in Users
      BY <1>2 DEF CreateSession, TypeInv, Acting
    <2>3. password[req[r].user] \in Nat
      BY <2>2 DEF TypeInv, TypeOK
    <2> QED BY <1>1, <2>1, <2>3
  <1>3. session'[s] = session[s]
    <2>1. session[s] \in Session
      BY DEF TypeInv, TypeOK
    <2>2. session'[s] # Revoked(session[s])
      BY <1>1, <2>1, RevokedType
    <2> QED BY <1>2, <2>2, RowStep
  <1>4. Live(s) /\ owner \in Users
    BY <1>1, <1>3 DEF Live, RowInv
  <1>5. ~ \E r \in Requests : RevokeAll(r) /\ req[r].user = owner
    <2> SUFFICES ASSUME NEW r \in Requests, RevokeAll(r), req[r].user = owner PROVE FALSE
      OBVIOUS
    <2>1. session'[s] = Revoked(session[s])
      BY <1>4 DEF RevokeAll, RevokedByReset
    <2>2. session'[s].state = "revoked"
      BY <2>1, RevokedType DEF TypeInv, TypeOK
    <2> QED BY <1>1, <2>2
  <1>6. CASE password'[owner] # password[owner]
    BY <1>3, <1>4, <1>6, PasswordStep
  <1>7. CASE password'[owner] = password[owner] /\ owner \in cut
    BY <1>3, <1>5, <1>7, CutStep
  <1>8. CASE password'[owner] = password[owner] /\ owner \notin cut
    <2>1. Stale(s)
      BY <1>1, <1>3, <1>4, <1>8 DEF Stale
    <2>2. PICK r \in Requests : req[r].pc = "revokeAll" /\ req[r].user = owner
      BY <1>8, <2>1 DEF StaleSessionsDoomed
    <2>3. CASE req'[r] = req[r]
      BY <1>3, <2>2, <2>3
    <2>4. CASE Fail(r)
      BY <1>3, <2>2, <2>4 DEF Fail
    <2> QED BY <1>5, <2>2, <2>3, <2>4, RevokingStep
  <1> QED BY <1>6, <1>7, <1>8

(* A session older than a password change is always on its way out, unless *)
(* a reset died half way: no interleaving of logins, verifications,        *)
(* revocations and other resets lets one slip through.                     *)
THEOREM OldSessionsDoomed == Spec => []StaleSessionsDoomed
  <1>1. Init => StaleSessionsDoomed
    BY DEF Init, StaleSessionsDoomed, Stale, Live
  <1> QED BY TypeInit, TypeNext, RowsInit, RowNext, DoomedNext, <1>1, PTL DEF Spec
-----------------------------------------------------------------------------
(* A proved secret stays proved. *)
LEMMA ConfirmedGrows ==
  ASSUME TypeInv, [Next]_vars, NEW u \in Users
  PROVE  confirmed[u] \subseteq confirmed'[u]
  <1>1. ASSUME NEW r \in Requests, NEW remember \in BOOLEAN, VerifyCode(r, remember)
        PROVE  confirmed[u] \subseteq confirmed'[u]
    BY <1>1 DEF VerifyCode, TypeInv, TypeOK
  <1>2. CASE UNCHANGED confirmed
    BY <1>2
  <1> QED
    BY <1>1, <1>2
    DEF Next, Step, Start, Login, TwoFactor, Revoke, Reset, LoginMatch, Authenticate,
        ForgotRead, ResetFind, DecideFull, DecidePending, DecideTrusted, CreateSession,
        SetupTwoFactor, EnableTwoFactor, RevokeFind, RevokeDelete, ForgotMail,
        ResetUpdate, RevokeAll, Fail, vars, history

(* A request about to open a session where a second factor is needed has    *)
(* proved a code, and so has the session of every access or device token.   *)
ReqFactor ==
  \A r \in Requests :
    \/ req[r].pc = "enable"
    \/ req[r].pc = "create" /\ req[r].user \in TwoFactorUsers
    => req[r].secret \in confirmed[req[r].user]

Backed(t) ==
  /\ session[t.sid].state # "none"
  /\ session[t.sid].user = t.sub
  /\ t.sub \in TwoFactorUsers => session[t.sid].factor \in confirmed[t.sub]

TokenFactor == \A t \in tokens : t.typ # "pending_2fa" => Backed(t)

FactorInv == ReqFactor /\ TokenFactor

LEMMA ReqFactorNext == TypeInv /\ ReqFactor /\ [Next]_vars => ReqFactor'
  <1> SUFFICES ASSUME TypeInv, ReqFactor, [Next]_vars, NEW r \in Requests,
                      \/ req'[r].pc = "enable"
                      \/ req'[r].pc = "create" /\ req'[r].user \in TwoFactorUsers
               PROVE  req'[r].secret \in confirmed'[req'[r].user]
    BY DEF ReqFactor
  <1>1. req[r] \in Request
    BY DEF TypeInv, TypeOK
  <1>2. CASE req'[r] = req[r]
    <2>1. req[r].user \in Users
      BY <1>2 DEF TypeInv, Acting
    <2> QED BY <1>2, <2>1, ConfirmedGrows DEF ReqFactor
  <1>3. CASE Start(r)
    <2>1. PICK t \in tokens, route \in {"setup", "verify", "revoke"} : Authenticate(r, t, route)
      BY <1>3, StartPc
    <2>2. req'[r].pc = route
      BY <2>1 DEF Authenticate, Idle, TypeInv, TypeOK
    <2> QED BY <2>2
  <1>4. CASE DecideFull(r)
    <2>1. req'[r] = [req[r] EXCEPT !.pc = "create"]
      BY <1>4 DEF DecideFull, TypeInv, TypeOK
    <2>2. req'[r].user = req[r].user /\ req'[r].pc = "create"
      BY <1>1, <2>1, MoveTo
    <2> QED BY <1>4, <2>2 DEF DecideFull
  <1>5. CASE EnableTwoFactor(r)
    <2>1. req'[r] = [req[r] EXCEPT !.pc = "create"]
      BY <1>5 DEF EnableTwoFactor, TypeInv, TypeOK
    <2>2. req'[r].user = req[r].user /\ req'[r].secret = req[r].secret
      BY <1>1, <2>1 DEF Request
    <2>3. req[r].user \in Users /\ req[r].secret \in confirmed[req[r].user]
      BY <1>5 DEF EnableTwoFactor, TypeInv, Acting, ReqFactor
    <2> QED BY <2>2, <2>3, ConfirmedGrows
  <1>6. ASSUME NEW remember \in BOOLEAN, VerifyCode(r, remember)
        PROVE  req'[r].secret \in confirmed'[req'[r].user]
    <2> DEFINE u == req[r].user
    <2>1. u \in Users
      BY <1>6 DEF VerifyCode, TypeInv, Acting
    <2>2. req'[r] = [req[r] EXCEPT !.pc = IF enabled[u] THEN "create" ELSE "enable",
                                   !.secret = secret[u], !.remember = remember]
      BY <1>6 DEF VerifyCode, TypeInv, TypeOK
    <2>3. req'[r].user = u /\ req'[r].secret = secret[u]
      BY <1>1, <2>2 DEF Request
    <2>4. secret[u] \in confirmed'[u]
      BY <1>6, <2>1 DEF VerifyCode, TypeInv, TypeOK
    <2> QED BY <2>3, <2>4
  <1>7. CASE Step(r)
    <2>1. \A s \in Sids : RevokeFind(r, s) => req'[r].pc = "delete"
      BY <1>1 DEF RevokeFind, TypeInv, TypeOK, Request
    <2> QED BY <1>4, <1>5, <1>6, <1>7, <2>1, StepPc
  <1>8. CASE Fail(r)
    BY <1>8 DEF Fail, Done, Idle, TypeInv, TypeOK
  <1> QED BY <1>2, <1>3, <1>7, <1>8, ReqStep

LEMMA TokenStep ==
  ASSUME TypeInv, [Next]_vars, NEW t \in tokens'
  PROVE  \/ t \in tokens
         \/ t.typ = "pending_2fa"
         \/ \E r \in Requests, d \in tokens :
              /\ DecideTrusted(r, d)
              /\ t = [d EXCEPT !.typ = "access", !.sub = req[r].user]
         \/ \E r \in Requests :
              /\ CreateSession(r)
              /\ t.sub = req[r].user /\ t.sid = made.sessions + 1
  <1>1. ASSUME NEW r \in Requests, DecidePending(r)
        PROVE  t \in tokens \/ t.typ = "pending_2fa"
    BY <1>1 DEF DecidePending, PendingToken
  <1>2. ASSUME NEW r \in Requests, NEW d \in tokens, DecideTrusted(r, d)
        PROVE  t \in tokens \/ t = [d EXCEPT !.typ = "access", !.sub = req[r].user]
    BY <1>2 DEF DecideTrusted
  <1>3. ASSUME NEW r \in Requests, CreateSession(r)
        PROVE  t \in tokens \/ (t.sub = req[r].user /\ t.sid = made.sessions + 1)
    BY <1>3 DEF CreateSession
  <1>4. CASE UNCHANGED tokens
    BY <1>4
  <1> QED
    BY <1>1, <1>2, <1>3, <1>4
    DEF Next, Step, Start, Login, TwoFactor, Revoke, Reset, LoginMatch, Authenticate,
        ForgotRead, ResetFind, DecideFull, SetupTwoFactor, VerifyCode, EnableTwoFactor,
        RevokeFind, RevokeDelete, ForgotMail, ResetUpdate, RevokeAll, Fail, vars

LEMMA TokenFactorNext ==
  TypeInv /\ RowInv /\ FactorInv /\ [Next]_vars => TokenFactor'
  <1> SUFFICES ASSUME TypeInv, RowInv, FactorInv, [Next]_vars,
                      NEW t \in tokens', t.typ # "pending_2fa"
               PROVE  Backed(t)'
    BY DEF TokenFactor
  <1>1. ASSUME NEW d \in tokens, d.typ # "pending_2fa"
        PROVE  d.sub \in Users /\ d.sid \in Sids /\ Backed(d)'
    <2>1. d.sub \in Users /\ d.sid \in Sids
      BY <1>1 DEF TypeInv, TypeOK, Token
    <2>2. Backed(d)
      BY <1>1 DEF FactorInv, TokenFactor
    <2> QED BY <2>1, <2>2, RowKept, ConfirmedGrows DEF Backed
  <1>2. CASE t \in tokens
    BY <1>1, <1>2
  <1>3. ASSUME NEW r \in Requests, NEW d \in tokens, DecideTrusted(r, d),
               t = [d EXCEPT !.typ = "access", !.sub = req[r].user]
        PROVE  Backed(t)'
    <2>1. d.typ = "device_trust" /\ d.sub = req[r].user
      BY <1>3 DEF DecideTrusted, TrustsDevice
    <2>2. t.sid = d.sid /\ t.sub = d.sub
      <3>1. d \in [typ : {"access", "device_trust"}, sub : Users, sid : Sids, cred : Nat]
        BY <2>1 DEF TypeInv, TypeOK, Token
      <3> QED BY <1>3, <2>1, <3>1
    <2>3. Backed(d)'
      BY <1>1, <2>1
    <2> QED BY <2>2, <2>3 DEF Backed
  <1>4. ASSUME NEW r \in Requests, CreateSession(r),
               t.sub = req[r].user, t.sid = made.sessions + 1
        PROVE  Backed(t)'
    <2>1. /\ session'[t.sid].state = "live" /\ session'[t.sid].user = t.sub
          /\ session'[t.sid].factor = req[r].secret /\ confirmed' = confirmed
      BY <1>4 DEF CreateSession, history, TypeInv, TypeOK
    <2>2. t.sub \in TwoFactorUsers => req[r].secret \in confirmed[t.sub]
      BY <1>4 DEF CreateSession, FactorInv, ReqFactor
    <2> QED BY <2>1, <2>2 DEF Backed
  <1> QED BY <1>2, <1>3, <1>4, TokenStep

(* Only authentication gives an idle request a bearer. *)
LEMMA AdmissionStep ==
  ASSUME TypeInv, [Next]_vars, NEW r \in Requests,
         req[r].pc = "idle", req[r].bearer = "none",
         req'[r].bearer \in {"access", "device_trust"}
  PROVE  \E t \in tokens, route \in {"setup", "verify", "revoke"} : Authenticate(r, t, route)
  <1>1. CASE Start(r)
    <2>1. ASSUME NEW u \in Users, LoginMatch(r, u)
          PROVE  req'[r].bearer = "none"
      BY <2>1 DEF LoginMatch, Idle, TypeInv, TypeOK
    <2>2. ASSUME NEW e \in Emails, ForgotRead(r, e)
          PROVE  req'[r].bearer = "none"
      BY <2>2 DEF ForgotRead, Idle, TypeInv, TypeOK
    <2>3. ASSUME NEW u \in Users, ResetFind(r, u)
          PROVE  req'[r].bearer = "none"
      BY <2>3 DEF ResetFind, Idle, TypeInv, TypeOK
    <2> QED BY <1>1, <2>1, <2>2, <2>3 DEF Start
  <1>2. CASE Step(r)
    BY <1>2 DEF Step, Login, TwoFactor, Revoke, Reset, DecideFull, DecidePending,
                DecideTrusted, CreateSession, SetupTwoFactor, VerifyCode, EnableTwoFactor,
                RevokeFind, RevokeDelete, ForgotMail, ResetUpdate, RevokeAll
  <1>3. CASE Fail(r)
    BY <1>3 DEF Fail
  <1>4. CASE req'[r] = req[r]
    BY <1>4
  <1> QED BY <1>1, <1>2, <1>3, <1>4, ReqStep

(* A request at rest is Idle: it carries nothing over from the one before.  *)
RestInv == \A r \in Requests : req[r].pc = "idle" => req[r].bearer = "none"

LEMMA RestNext == TypeInv /\ RestInv /\ [Next]_vars => RestInv'
  <1> SUFFICES ASSUME TypeInv, RestInv, [Next]_vars,
                      NEW r \in Requests, req'[r].pc = "idle"
               PROVE  req'[r].bearer = "none"
    BY DEF RestInv
  <1>0. req[r] \in Request
    BY DEF TypeInv, TypeOK
  <1>1. CASE req'[r] = req[r]
    BY <1>1 DEF RestInv
  <1>2. CASE req'[r] = Idle
    BY <1>2 DEF Idle
  <1>3. CASE Start(r)
    <2>1. PICK t \in tokens, route \in {"setup", "verify", "revoke"} : Authenticate(r, t, route)
      BY <1>3, StartPc
    <2>2. req'[r].pc = route
      BY <2>1 DEF Authenticate, Idle, TypeInv, TypeOK
    <2> QED BY <2>2
  <1>4. CASE Step(r)
    <2>1. \A s \in Sids : RevokeFind(r, s) => req'[r].pc = "delete"
      BY DEF RevokeFind, TypeInv, TypeOK, Request
    <2>2. \A u \in Users : ForgotMail(r, u) => req'[r] = Idle \/ req'[r].pc = "mail"
      BY DEF ForgotMail, TypeInv, TypeOK, Request
    <2>3. Done(r) => req'[r] = Idle
      BY DEF Done, TypeInv, TypeOK
    <2>4. DecideFull(r) \/ EnableTwoFactor(r) => req'[r].pc = "create"
      <3> SUFFICES ASSUME DecideFull(r) \/ EnableTwoFactor(r) PROVE req'[r].pc = "create"
        OBVIOUS
      <3>1. req'[r] = [req[r] EXCEPT !.pc = "create"]
        BY DEF DecideFull, EnableTwoFactor, TypeInv, TypeOK
      <3> QED BY <1>0, <3>1 DEF Request
    <2>5. \A remember \in BOOLEAN : VerifyCode(r, remember) => req'[r].pc # "idle"
      BY DEF VerifyCode, TypeInv, TypeOK, Request
    <2>6. ResetUpdate(r) => req'[r].pc = "revokeAll"
      <3> SUFFICES ASSUME ResetUpdate(r) PROVE req'[r].pc = "revokeAll"
        OBVIOUS
      <3>1. req'[r] = [req[r] EXCEPT !.pc = "revokeAll"]
        BY DEF ResetUpdate, TypeInv, TypeOK
      <3> QED BY <1>0, <3>1 DEF Request
    <2>7. CASE Login(r)
      BY <2>3, <2>4, <2>7, <1>2 DEF Login, DecidePending, DecideTrusted, CreateSession
    <2>8. CASE TwoFactor(r)
      BY <2>3, <2>4, <2>5, <2>8, <1>2 DEF TwoFactor, SetupTwoFactor
    <2>9. CASE Revoke(r)
      BY <2>1, <2>3, <2>9, <1>2 DEF Revoke, RevokeDelete
    <2>10. CASE Reset(r)
      BY <2>2, <2>3, <2>6, <2>10, <1>2 DEF Reset, RevokeAll
    <2> QED BY <1>4, <2>7, <2>8, <2>9, <2>10 DEF Step
  <1>5. CASE Fail(r)
    BY <1>2, <1>5 DEF Fail, Done, TypeInv, TypeOK
  <1> QED BY <1>1, <1>3, <1>4, <1>5, ReqStep

LEMMA AdmittedStep ==
  TypeInv /\ RestInv /\ FactorInv /\ [Next]_vars =>
    [\A r \in Requests :
       req[r].pc = "idle" /\ req'[r].bearer \in {"access", "device_trust"} =>
         \E t \in tokens :
           t.typ = req'[r].bearer /\ t.sub = req'[r].user /\ Backing(t)]_vars
  <1> SUFFICES ASSUME TypeInv, RestInv, FactorInv, [Next]_vars,
                      NEW r \in Requests, req[r].pc = "idle",
                      req'[r].bearer \in {"access", "device_trust"}
               PROVE  \E t \in tokens :
                        t.typ = req'[r].bearer /\ t.sub = req'[r].user /\ Backing(t)
    OBVIOUS
  <1>1. PICK t \in tokens, route \in {"setup", "verify", "revoke"} : Authenticate(r, t, route)
    <2>1. req[r].bearer = "none"
      BY DEF RestInv
    <2> QED BY <2>1, AdmissionStep
  <1>2. req'[r].bearer = t.typ /\ req'[r].user = t.sub
    BY <1>1 DEF Authenticate, Idle, TypeInv, TypeOK
  <1>3. Live(t.sid)
    BY <1>1, <1>2 DEF Authenticate, Admits
  <1>4. Backed(t)
    BY <1>2 DEF FactorInv, TokenFactor
  <1> QED BY <1>2, <1>3, <1>4 DEF Backing, Backed

(* For any number of users, devices and requests: a full token lets in only *)
(* the user of a live session, opened by a right code where one is needed.  *)
(* That its session is live is asked at the door; that it is the user's own *)
(* and rests on a code is an invariant of all tokens ever signed.           *)
THEOREM AdmissionsBacked == Spec => AdmittedByOwnSession
  <1>1. Init => FactorInv /\ RestInv
    BY DEF Init, FactorInv, ReqFactor, TokenFactor, RestInv, Idle
  <1>2. TypeInv /\ RowInv /\ FactorInv /\ [Next]_vars => FactorInv'
    BY ReqFactorNext, TokenFactorNext DEF FactorInv
  <1> QED
    BY <1>1, <1>2, TypeInit, TypeNext, RowsInit, RowNext, RestNext, AdmittedStep, PTL
    DEF Spec, AdmittedByOwnSession
-----------------------------------------------------------------------------
(* Links are numbered as they are made, belong to one user each, and a      *)
(* reset under way holds a link that nobody else does.                      *)
LinkInv ==
  /\ \A u \in Users : link[u] <= made.links
  /\ \A n \in spent : n <= made.links
  /\ \A u, v \in Users : link[u] # 0 /\ link[u] = link[v] => u = v
  /\ \A r \in Requests : req[r].pc = "hash" =>
       /\ req[r].link <= made.links
       /\ \A v \in Users : link[v] = req[r].link => v = req[r].user
  /\ SpentLinkIsDead

LEMMA LinkStep ==
  ASSUME TypeInv, [Next]_vars
  PROVE  \/ link' = link /\ spent' = spent /\ made'.links = made.links
         \/ \E r \in Requests, u \in Users : ForgotMail(r, u)
         \/ \E r \in Requests : ResetUpdate(r)
  <1> USE DEF database, history
  <1>1. ASSUME NEW r \in Requests, Start(r)
        PROVE  link' = link /\ spent' = spent /\ made'.links = made.links
    BY <1>1 DEF Start, LoginMatch, Authenticate, ForgotRead, ResetFind
  <1>2. ASSUME NEW r \in Requests, Login(r)
        PROVE  link' = link /\ spent' = spent /\ made'.links = made.links
    BY <1>2 DEF Login, DecideFull, DecidePending, DecideTrusted, CreateSession,
                TypeInv, TypeOK
  <1>3. ASSUME NEW r \in Requests, TwoFactor(r)
        PROVE  link' = link /\ spent' = spent /\ made'.links = made.links
    BY <1>3 DEF TwoFactor, SetupTwoFactor, VerifyCode, EnableTwoFactor, TypeInv, TypeOK
  <1>4. ASSUME NEW r \in Requests, Revoke(r) \/ RevokeAll(r) \/ Fail(r)
        PROVE  link' = link /\ spent' = spent /\ made'.links = made.links
    BY <1>4 DEF Revoke, RevokeFind, RevokeDelete, RevokeAll, Fail
  <1>5. CASE UNCHANGED vars
    BY <1>5 DEF vars
  <1> QED BY <1>1, <1>2, <1>3, <1>4, <1>5 DEF Next, Step, Reset

LEMMA HashStep ==
  ASSUME TypeInv, [Next]_vars, NEW r \in Requests, req'[r].pc = "hash"
  PROVE  req'[r] = req[r] \/ \E u \in Users : ResetFind(r, u)
  <1> USE DEF TypeInv
  <1>1. CASE Start(r)
    <2>1. ASSUME NEW u \in Users, LoginMatch(r, u)
          PROVE  FALSE
      BY <2>1 DEF LoginMatch, Idle, TypeOK
    <2>2. ASSUME NEW e \in Emails, ForgotRead(r, e)
          PROVE  FALSE
      BY <2>2 DEF ForgotRead, Idle, TypeOK
    <2>3. ASSUME NEW t \in tokens, NEW route \in {"setup", "verify", "revoke"},
                 Authenticate(r, t, route)
          PROVE  FALSE
      BY <2>3 DEF Authenticate, Idle, TypeOK
    <2> QED BY <1>1, <2>1, <2>2, <2>3 DEF Start
  <1>2. CASE Step(r)
    <2>1. \A s \in Sids : RevokeFind(r, s) => req'[r].pc = "delete"
      BY DEF RevokeFind, TypeOK, Request
    <2> QED BY <1>2, <2>1, StepPc
  <1>3. CASE Fail(r)
    BY <1>3 DEF Fail, Done, Idle, TypeOK
  <1> QED BY <1>1, <1>2, <1>3, ReqStep

LEMMA LinkNext == TypeInv /\ LinkInv /\ [Next]_vars => LinkInv'
  <1> SUFFICES ASSUME TypeInv, LinkInv, [Next]_vars
               PROVE  LinkInv'
    OBVIOUS
  <1> USE DEF TypeInv
  <1>1. /\ made.links \in Nat /\ Links \subseteq Nat \ {0} /\ spent \subseteq Nat \ {0}
        /\ \A u \in Users : link[u] \in Nat
    <2>1. made.links \in 0..MaxLinks /\ MaxLinks \in Nat
      BY BoundsAssumption DEF TypeOK
    <2> QED BY <2>1 DEF TypeOK, Links
  (* What a reset under way holds after the step it held before it, or it   *)
  (* has just found the link in its user's row.                             *)
  <1>2. ASSUME NEW r \in Requests, req'[r].pc = "hash"
        PROVE  \/ req'[r] = req[r]
               \/ /\ link' = link /\ made' = made
                  /\ req'[r].user \in Users /\ link[req'[r].user] # 0
                  /\ req'[r].link = link[req'[r].user]
    <2>1. ASSUME NEW u \in Users, ResetFind(r, u)
          PROVE  /\ link' = link /\ made' = made /\ req'[r].user = u
                 /\ req'[r].link = link[u] /\ link[u] # 0
      BY <2>1 DEF ResetFind, Idle, database, TypeOK
    <2> QED BY <1>2, <2>1, HashStep
  <1>3. CASE link' = link /\ spent' = spent /\ made'.links = made.links
    BY <1>2, <1>3 DEF LinkInv, SpentLinkIsDead
  <1>4. ASSUME NEW q \in Requests, NEW w \in Users, ForgotMail(q, w)
        PROVE  LinkInv'
    <2> DEFINE n == made.links + 1
    <2>1. link' = [link EXCEPT ![w] = n] /\ made'.links = n /\ spent' = spent
      BY <1>4 DEF ForgotMail, history, TypeOK
    <2>2. n \in Nat /\ n > made.links /\ n # 0
      BY <1>1
    <2>3. \A u \in Users : link'[u] = IF u = w THEN n ELSE link[u]
      BY <2>1 DEF TypeOK
    <2>4. \A r \in Requests : req'[r].pc = "hash" =>
            /\ req[r].pc = "hash" /\ req'[r] = req[r] /\ req[r].link \in Nat
            /\ req[r].link # n
      <3> SUFFICES ASSUME NEW r \in Requests, req'[r].pc = "hash"
                   PROVE  /\ req[r].pc = "hash" /\ req'[r] = req[r]
                          /\ req[r].link \in Nat /\ req[r].link # n
        OBVIOUS
      <3>1. made' # made
        BY <2>1, <2>2
      <3>2. req'[r] = req[r] /\ req[r].pc = "hash"
        BY <1>2, <3>1
      <3>3. req[r].link \in Links /\ req[r].link <= made.links
        BY <3>2 DEF LinkInv, Found
      <3>4. req[r].link \in Nat
        BY <1>1, <3>3
      <3>5. req[r].link # n
        BY <1>1, <3>3, <3>4
      <3> QED BY <3>2, <3>4, <3>5
    <2>5. \A u \in Users : link[u] <= made.links /\ link[u] # n
      BY <1>1, <2>2 DEF LinkInv
    <2>6. \A m \in spent : m <= made.links /\ m # n
      BY <1>1, <2>2 DEF LinkInv
    <2>7. \A u, v \in Users : link'[u] # 0 /\ link'[u] = link'[v] => u = v
      BY <2>3, <2>5 DEF LinkInv
    <2>8. SpentLinkIsDead'
      BY <2>1, <2>3, <2>6 DEF LinkInv, SpentLinkIsDead
    <2>9. /\ \A u \in Users : link'[u] <= made'.links
          /\ \A m \in spent' : m <= made'.links
      BY <1>1, <2>1, <2>2, <2>3, <2>5, <2>6
    <2>10. \A r \in Requests : req'[r].pc = "hash" =>
             /\ req'[r].link <= made'.links
             /\ \A v \in Users : link'[v] = req'[r].link => v = req'[r].user
      <3> SUFFICES ASSUME NEW r \in Requests, req'[r].pc = "hash"
                   PROVE  /\ req'[r].link <= made'.links
                          /\ \A v \in Users : link'[v] = req'[r].link => v = req'[r].user
        OBVIOUS
      <3>1. req'[r] = req[r] /\ req[r].link <= made.links /\ req[r].link \in Nat
        BY <2>4 DEF LinkInv
      <3>2. \A v \in Users : link[v] = req[r].link => v = req[r].user
        BY <2>4 DEF LinkInv
      <3>3. req[r].link # n
        BY <2>4
      <3> QED BY <1>1, <2>1, <2>3, <3>1, <3>2, <3>3
    <2> QED BY <2>7, <2>8, <2>9, <2>10 DEF LinkInv
  <1>5. ASSUME NEW q \in Requests, ResetUpdate(q)
        PROVE  LinkInv'
    <2> DEFINE w == req[q].user
    <2>1. /\ link' = [link EXCEPT ![w] = 0] /\ made' = made
          /\ spent' = spent \cup {req[q].link} /\ req[q].pc = "hash"
      BY <1>5 DEF ResetUpdate, LinkAfterReset
    <2>2. \A u \in Users : link'[u] = IF u = w THEN 0 ELSE link[u]
      BY <2>1 DEF TypeOK
    <2>3. w \in Users /\ req[q].link \in Nat \ {0} /\ req[q].link <= made.links
      BY <1>1, <2>1 DEF Acting, Found, LinkInv
    <2>4. \A v \in Users : link[v] = req[q].link => v = w
      BY <2>1 DEF LinkInv
    <2>5. SpentLinkIsDead'
      BY <1>1, <2>1, <2>2, <2>3, <2>4 DEF LinkInv, SpentLinkIsDead
    <2>6. \A r \in Requests : req'[r].pc = "hash" =>
            /\ req[r].pc = "hash" /\ req'[r] = req[r] /\ req[r].link # 0
      <3>1. req'[q].pc = "revokeAll"
        <4>1. req'[q] = [req[q] EXCEPT !.pc = "revokeAll"] /\ req[q] \in Request
          BY <1>5 DEF ResetUpdate, TypeOK
        <4> QED BY <4>1, MoveTo
      <3>2. \A r \in Requests : r # q => req'[r] = req[r]
        BY <1>5 DEF ResetUpdate, TypeOK
      <3> QED BY <1>1, <3>1, <3>2 DEF Found
    <2>7. \A r \in Requests : req'[r].pc = "hash" =>
            /\ req'[r].link <= made'.links
            /\ \A v \in Users : link'[v] = req'[r].link => v = req'[r].user
      BY <2>1, <2>2, <2>6 DEF LinkInv
    <2>8. /\ \A u \in Users : link'[u] <= made'.links
          /\ \A m \in spent' : m <= made'.links
          /\ \A u, v \in Users : link'[u] # 0 /\ link'[u] = link'[v] => u = v
      BY <1>1, <2>1, <2>2, <2>3 DEF LinkInv
    <2> QED BY <2>5, <2>7, <2>8 DEF LinkInv
  <1> QED BY <1>3, <1>4, <1>5, LinkStep

(* For any number of users, links and requests at work on them: a link that *)
(* changed a password is in no row any more.                                *)
THEOREM SpentLinksDead == Spec => []SpentLinkIsDead
  <1>1. Init => LinkInv
    BY BoundsAssumption DEF Init, LinkInv, SpentLinkIsDead, Idle
  <1>2. LinkInv => SpentLinkIsDead
    BY DEF LinkInv
  <1> QED BY <1>1, <1>2, TypeInit, TypeNext, LinkNext, PTL DEF Spec
=============================================================================
