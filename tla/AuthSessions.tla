---------------------------- MODULE AuthSessions ----------------------------
(***************************************************************************)
(* Staff authentication: AuthService (login, second factor, forgotten and  *)
(* reset passwords), ActiveSessionsService (revocation) and the part of    *)
(* TenantMiddleware that admits a bearer token.                            *)
(*                                                                         *)
(* A request runs until its next awaited database call: every action below *)
(* is one such call with the code that follows it, and other requests run  *)
(* in between.  What the database holds is shared; what a request has read *)
(* is kept in its own record.  Passwords, TOTP secrets and reset links are *)
(* numbered in the order they are made: a password is the number of times  *)
(* the user has reset it, and 0 is an absent secret or link.  A token, a   *)
(* link or a device's trust that has expired is one that no client         *)
(* presents any more, so expiry needs no action of its own.                *)
(***************************************************************************)
EXTENDS Naturals, FiniteSets

CONSTANTS
  Users,           \* the User rows, one per tenant and e-mail
  Emails,          \* addresses: one may belong to users of several tenants
  EmailOf,         \* the address of each user
  TwoFactorUsers,  \* users whose role is in tenant.enforceTwoFactorForRoles
  Requests,        \* the requests that run concurrently
  NoUser,          \* no user
  MaxSessions,     \* bound: ActiveSession rows ever created
  MaxSecrets,      \* bound: TOTP secrets ever generated
  MaxLinks         \* bound: reset links ever mailed

ASSUME UsersAssumption ==
  /\ TwoFactorUsers \subseteq Users
  /\ EmailOf \in [Users -> Emails]
  /\ NoUser \notin Users

ASSUME BoundsAssumption ==
  /\ MaxSessions \in Nat /\ MaxSecrets \in Nat /\ MaxLinks \in Nat

Sids == 1..MaxSessions
Secrets == 1..MaxSecrets
Links == 1..MaxLinks

VARIABLES
  password,   \* users.password_hash
  secret,     \* users.two_factor_secret
  enabled,    \* users.two_factor_enabled
  link,       \* users.password_reset_token_hash
  session,    \* active_sessions
  tokens,     \* the JWTs that clients hold
  req,        \* the requests in flight
  made,       \* how many sessions, secrets and links were made
  confirmed,  \* history: secrets each user has proved a code for
  spent,      \* history: links that have changed a password
  cut         \* history: users whose reset died before it revoked sessions

vars == <<password, secret, enabled, link, session, tokens, req, made, confirmed, spent, cut>>
database == <<password, secret, enabled, link, session>>
history == <<confirmed, spent, cut>>

(* A row, with what was true when it was made: the password its login had   *)
(* matched, the one in force, and the secret that was proved for it.        *)
Session == [state : {"none", "live", "revoked"},
            user : Users \cup {NoUser},
            trusted : BOOLEAN,             \* twoFactorTrustedUntil is set
            cred : Nat, epoch : Nat, factor : Secrets \cup {0}]

Token ==
  [typ : {"access", "device_trust"}, sub : Users, sid : Sids, cred : Nat]
    \cup [typ : {"pending_2fa"}, sub : Users, sid : {0}, cred : Nat]

Request ==
  [pc : {"idle", "matched", "create", "setup", "verify", "enable", "revoke",
         "delete", "mail", "hash", "revokeAll"},
   user : Users \cup {NoUser},    \* whom the request acts for
   bearer : {"none", "access", "device_trust", "pending_2fa"},
   cred : Nat,                    \* the password that was proved for it
   secret : Secrets \cup {0},     \* the secret its code was checked against
   remember : BOOLEAN,            \* dto.rememberDevice
   sid : Sids \cup {0},           \* the session it found
   link : Links \cup {0},         \* the link it presented
   todo : SUBSET Users]           \* candidates still to be mailed a link

Idle == [pc |-> "idle", user |-> NoUser, bearer |-> "none", cred |-> 0, secret |-> 0,
         remember |-> FALSE, sid |-> 0, link |-> 0, todo |-> {}]

Init ==
  /\ password = [u \in Users |-> 0]
  /\ secret = [u \in Users |-> 0]
  /\ enabled = [u \in Users |-> FALSE]
  /\ link = [u \in Users |-> 0]
  /\ session = [s \in Sids |-> [state |-> "none", user |-> NoUser, trusted |-> FALSE,
                                cred |-> 0, epoch |-> 0, factor |-> 0]]
  /\ tokens = {}
  /\ req = [r \in Requests |-> Idle]
  /\ made = [sessions |-> 0, secrets |-> 0, links |-> 0]
  /\ confirmed = [u \in Users |-> {}]
  /\ spent = {}
  /\ cut = {}

Live(s) == session[s].state = "live"

Revoked(row) == [row EXCEPT !.state = "revoked"]

(* The request answers, or throws. *)
Done(r) == req' = [req EXCEPT ![r] = Idle]

-----------------------------------------------------------------------------
(* login: the candidates are read and the password matches that of u.  A    *)
(* login that matches nobody changes nothing and is left out.               *)
LoginMatch(r, u) ==
  /\ req[r].pc = "idle"
  /\ req' = [req EXCEPT ![r] = [Idle EXCEPT !.pc = "matched", !.user = u,
                                            !.cred = password[u]]]
  /\ UNCHANGED <<database, tokens, made, history>>

(* login: the role needs no second factor. *)
DecideFull(r) ==
  /\ req[r].pc = "matched"
  /\ req[r].user \notin TwoFactorUsers
  /\ req' = [req EXCEPT ![r].pc = "create"]
  /\ UNCHANGED <<database, tokens, made, history>>

(* Plausible slip: the token is signed without a typ of its own. *)
PendingToken_Untyped(u, cred) == [typ |-> "access", sub |-> u, sid |-> 0, cred |-> cred]

PendingToken(u, cred) == [typ |-> "pending_2fa", sub |-> u, sid |-> 0, cred |-> cred]

(* login: the role needs one and the client shows no trusted device. *)
DecidePending(r) ==
  /\ req[r].pc = "matched"
  /\ req[r].user \in TwoFactorUsers
  /\ tokens' = tokens \cup {PendingToken(req[r].user, req[r].cred)}
  /\ Done(r)
  /\ UNCHANGED <<database, made, history>>

(* Plausible slip: whose device it is goes unchecked. *)
TrustsDevice_AnyUser(t, u) == t.typ = "device_trust" /\ Live(t.sid) /\ session[t.sid].trusted

(* checkTrustedDevice: the device token is the user's, and so is its row. *)
TrustsDevice(t, u) ==
  /\ t.typ = "device_trust"
  /\ t.sub = u
  /\ Live(t.sid)
  /\ session[t.sid].user = u
  /\ session[t.sid].trusted

(* login: a trusted device gets an access token for its session again. *)
DecideTrusted(r, t) ==
  /\ req[r].pc = "matched"
  /\ req[r].user \in TwoFactorUsers
  /\ TrustsDevice(t, req[r].user)
  /\ tokens' = tokens \cup {[t EXCEPT !.typ = "access", !.sub = req[r].user]}
  /\ Done(r)
  /\ UNCHANGED <<database, made, history>>

(* createSession, then the access token and, for a remembered device, the   *)
(* device token that name the new row.                                      *)
CreateSession(r) ==
  LET q == req[r]
      s == made.sessions + 1
      typs == IF q.remember THEN {"access", "device_trust"} ELSE {"access"}
  IN /\ q.pc = "create"
     /\ s \in Sids
     /\ session' = [session EXCEPT ![s] =
          [state |-> "live", user |-> q.user, trusted |-> q.remember, cred |-> q.cred,
           epoch |-> password[q.user], factor |-> q.secret]]
     /\ tokens' = tokens \cup
          [typ : typs, sub : {q.user}, sid : {s}, cred : {q.cred}]
     /\ made' = [made EXCEPT !.sessions = s]
     /\ Done(r)
     /\ UNCHANGED <<password, secret, enabled, link, history>>

-----------------------------------------------------------------------------
(* TenantMiddleware: a pending token opens the two second-factor routes     *)
(* only; any other token must name a session whose row still exists.  A     *)
(* device token carries no tenant, so the tenant-scoped revocation refuses. *)
Admits(t, route) ==
  /\ t.typ = "pending_2fa" => route \in {"setup", "verify"}
  /\ t.typ # "pending_2fa" => Live(t.sid)
  /\ t.typ = "device_trust" => route # "revoke"

Authenticate(r, t, route) ==
  /\ req[r].pc = "idle"
  /\ Admits(t, route)
  /\ req' = [req EXCEPT ![r] = [Idle EXCEPT !.pc = route, !.user = t.sub,
                                            !.bearer = t.typ, !.cred = t.cred]]
  /\ UNCHANGED <<database, tokens, made, history>>

(* setupTwoFactor: a new secret replaces the old one; enabled stays. *)
SetupTwoFactor(r) ==
  LET n == made.secrets + 1
  IN /\ req[r].pc = "setup"
     /\ n \in Secrets
     /\ secret' = [secret EXCEPT ![req[r].user] = n]
     /\ made' = [made EXCEPT !.secrets = n]
     /\ Done(r)
     /\ UNCHANGED <<password, enabled, link, session, tokens, history>>

(* verifyTwoFactor: read the user and check the code against the secret.    *)
VerifyCode(r, remember) ==
  LET u == req[r].user
  IN /\ req[r].pc = "verify"
     /\ secret[u] # 0
     /\ confirmed' = [confirmed EXCEPT ![u] = @ \cup {secret[u]}]
     /\ req' = [req EXCEPT ![r].pc = IF enabled[u] THEN "create" ELSE "enable",
                           ![r].secret = secret[u],
                           ![r].remember = remember]
     /\ UNCHANGED <<database, tokens, made, spent, cut>>

(* verifyTwoFactor: the first code that is right enables the factor. *)
EnableTwoFactor(r) ==
  /\ req[r].pc = "enable"
  /\ enabled' = [enabled EXCEPT ![req[r].user] = TRUE]
  /\ req' = [req EXCEPT ![r].pc = "create"]
  /\ UNCHANGED <<password, secret, link, session, tokens, made, history>>

(* Plausible slip: whose session it is goes unchecked. *)
MayRevoke_Any(r, s) == TRUE

MayRevoke(r, s) == session[s].user = req[r].user

(* ActiveSessionsService.revoke: find the row, check its owner ... *)
RevokeFind(r, s) ==
  /\ req[r].pc = "revoke"
  /\ Live(s)
  /\ MayRevoke(r, s)
  /\ req' = [req EXCEPT ![r].pc = "delete", ![r].sid = s]
  /\ UNCHANGED <<database, tokens, made, history>>

(* ... and delete it; a row that is gone by now makes delete throw. *)
RevokeDelete(r) ==
  /\ req[r].pc = "delete"
  /\ session' = [session EXCEPT ![req[r].sid] = IF Live(req[r].sid) THEN Revoked(@) ELSE @]
  /\ Done(r)
  /\ UNCHANGED <<password, secret, enabled, link, tokens, made, history>>

-----------------------------------------------------------------------------
(* forgotPassword: read the users with this address ... *)
ForgotRead(r, e) ==
  LET candidates == {u \in Users : EmailOf[u] = e}
  IN /\ req[r].pc = "idle"
     /\ candidates # {}
     /\ req' = [req EXCEPT ![r] = [Idle EXCEPT !.pc = "mail", !.todo = candidates]]
     /\ UNCHANGED <<database, tokens, made, history>>

(* ... and give each a link of its own, which replaces the one before. *)
ForgotMail(r, u) ==
  LET n == made.links + 1
  IN /\ req[r].pc = "mail"
     /\ u \in req[r].todo
     /\ n \in Links
     /\ link' = [link EXCEPT ![u] = n]
     /\ made' = [made EXCEPT !.links = n]
     /\ req' = [req EXCEPT ![r] = IF @.todo = {u} THEN Idle
                                  ELSE [req[r] EXCEPT !.todo = @ \ {u}]]
     /\ UNCHANGED <<password, secret, enabled, session, tokens, history>>

(* resetPassword: find the user by the link, then hash the new password.    *)
ResetFind(r, u) ==
  /\ req[r].pc = "idle"
  /\ link[u] # 0
  /\ req' = [req EXCEPT ![r] = [Idle EXCEPT !.pc = "hash", !.user = u, !.link = link[u]]]
  /\ UNCHANGED <<database, tokens, made, history>>

(* Plausible slip: the link stays valid until it expires. *)
LinkAfterReset_Kept(u) == link[u]

LinkAfterReset(u) == 0

(* resetPassword: the new password, and no link any more ... *)
ResetUpdate(r) ==
  LET u == req[r].user
  IN /\ req[r].pc = "hash"
     /\ password' = [password EXCEPT ![u] = @ + 1]
     /\ link' = [link EXCEPT ![u] = LinkAfterReset(u)]
     /\ spent' = spent \cup {req[r].link}
     /\ req' = [req EXCEPT ![r].pc = "revokeAll"]
     /\ UNCHANGED <<secret, enabled, session, tokens, made, confirmed, cut>>

(* Plausible slip: the reset only forgets the remembered devices. *)
RevokedByReset_Trusted(s, u) == Live(s) /\ session[s].user = u /\ session[s].trusted

RevokedByReset(s, u) == Live(s) /\ session[s].user = u

(* ... and deleteMany on the user's sessions. *)
RevokeAll(r) ==
  LET u == req[r].user
  IN /\ req[r].pc = "revokeAll"
     /\ session' = [s \in Sids |->
          IF RevokedByReset(s, u) THEN Revoked(session[s]) ELSE session[s]]
     /\ cut' = cut \ {u}
     /\ Done(r)
     /\ UNCHANGED <<password, secret, enabled, link, tokens, made, confirmed, spent>>

-----------------------------------------------------------------------------
(* The next call throws, or the process dies: the request is gone, what it  *)
(* has written stays.                                                       *)
Fail(r) ==
  /\ req[r].pc # "idle"
  /\ cut' = IF req[r].pc = "revokeAll" THEN cut \cup {req[r].user} ELSE cut
  /\ Done(r)
  /\ UNCHANGED <<database, tokens, made, confirmed, spent>>

Login(r) ==
  \/ DecideFull(r)
  \/ DecidePending(r)
  \/ \E t \in tokens : DecideTrusted(r, t)
  \/ CreateSession(r)

TwoFactor(r) ==
  \/ SetupTwoFactor(r)
  \/ \E remember \in BOOLEAN : VerifyCode(r, remember)
  \/ EnableTwoFactor(r)

Revoke(r) ==
  \/ \E s \in Sids : RevokeFind(r, s)
  \/ RevokeDelete(r)

Reset(r) ==
  \/ \E u \in Users : ForgotMail(r, u)
  \/ ResetUpdate(r)
  \/ RevokeAll(r)

Step(r) == Login(r) \/ TwoFactor(r) \/ Revoke(r) \/ Reset(r)

Start(r) ==
  \/ \E u \in Users : LoginMatch(r, u)
  \/ \E t \in tokens, route \in {"setup", "verify", "revoke"} : Authenticate(r, t, route)
  \/ \E e \in Emails : ForgotRead(r, e)
  \/ \E u \in Users : ResetFind(r, u)

Next == \E r \in Requests : Start(r) \/ Step(r) \/ Fail(r)

Spec == Init /\ [][Next]_vars

(* Node runs every request whose database call has answered. *)
FairSpec == Spec /\ \A r \in Requests : WF_vars(Step(r))

-----------------------------------------------------------------------------
TypeOK ==
  /\ password \in [Users -> Nat]
  /\ secret \in [Users -> Secrets \cup {0}]
  /\ enabled \in [Users -> BOOLEAN]
  /\ link \in [Users -> Links \cup {0}]
  /\ session \in [Sids -> Session]
  /\ tokens \subseteq Token
  /\ req \in [Requests -> Request]
  /\ made \in [sessions : 0..MaxSessions, secrets : 0..MaxSecrets, links : 0..MaxLinks]
  /\ confirmed \in [Users -> SUBSET Secrets]
  /\ spent \subseteq Links
  /\ cut \subseteq Users

(* A session older than the user's last password change.                    *)
Stale(s) == Live(s) /\ session[s].epoch < password[session[s].user]

(* A session row made before the password last changed survives only until  *)
(* the reset that changed it has run its deleteMany; if no reset is about   *)
(* to, one died in between (AuthService.resetPassword).                     *)
StaleSessionsDoomed ==
  \A s \in Sids : Stale(s) =>
    \/ session[s].user \in cut
    \/ \E r \in Requests : req[r].pc = "revokeAll" /\ req[r].user = session[s].user

(* A live session of the token's user, opened by a code where one is needed. *)
Backing(t) ==
  /\ Live(t.sid)
  /\ session[t.sid].user = t.sub
  /\ t.sub \in TwoFactorUsers => session[t.sid].factor \in confirmed[t.sub]

(* Whoever is let in with a full token acts for the user of a session whose *)
(* row is there at that moment; and where the role needs a second factor,   *)
(* that session was opened by a right code for a secret of that same user:  *)
(* neither somebody else's remembered device nor a revoked one will do      *)
(* (login, checkTrustedDevice, verifyTwoFactor and TenantMiddleware         *)
(* together).  Which secret it was is not said: setupTwoFactor replaces     *)
(* even an enabled one without asking for a code, so it may be one that the *)
(* holder of the password has just set.                                     *)
AdmittedByOwnSession ==
  [][\A r \in Requests :
       req[r].pc = "idle" /\ req'[r].bearer \in {"access", "device_trust"} =>
         \E t \in tokens :
           t.typ = req'[r].bearer /\ t.sub = req'[r].user /\ Backing(t)]_vars

(* A link that has changed a password is in no row any more, however the    *)
(* resets and the forgot-password requests for the user interleave.  A      *)
(* second reset that found the user by it before goes on all the same.      *)
SpentLinkIsDead == \A u \in Users : link[u] \notin spent

(* A session disappears only by its own user: by a revocation that came in  *)
(* with a full access token, or by that user's password reset; never by the *)
(* reset of somebody who shares the e-mail address, nor with a pending one. *)
SessionEndedByOwner ==
  [][\A s \in Sids : Live(s) /\ session'[s].state # "live" =>
       \E r \in Requests :
         /\ req[r].user = session[s].user
         /\ \/ req[r].pc = "delete" /\ req[r].bearer = "access" /\ req[r].sid = s
            \/ req[r].pc = "revokeAll"]_vars

(* Every session older than a password change does end, unless the reset    *)
(* died before its deleteMany.                                              *)
StaleSessionsEnd ==
  \A s \in Sids : Stale(s) ~> (~Live(s) \/ session[s].user \in cut)

(* What resetPassword's comment promises: a reset "shouldn't leave old      *)
(* sessions valid".  Once no reset of the user is at work, no session rests *)
(* on a password older than the present one.                                *)
NoSessionFromOldPassword ==
  \A s \in Sids : Live(s) /\ session[s].cred < password[session[s].user] =>
    \/ session[s].user \in cut
    \/ \E r \in Requests : req[r].pc = "revokeAll" /\ req[r].user = session[s].user
=============================================================================
