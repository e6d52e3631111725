------------------------------ MODULE RateLimit ------------------------------
(***************************************************************************)
(* The fixed-window counter of RateLimitService (Redis INCR, EXPIRE, DEL)  *)
(* as AuthService uses it: a login charges its e-mail and then its IP      *)
(* address, a matched password deletes the e-mail's counter, and a         *)
(* forgot-password request charges a counter of its own.                   *)
(*                                                                         *)
(* Each Redis command is one action, because each is awaited: other        *)
(* requests run between an INCR and the EXPIRE that follows it.  A counter *)
(* that is 0 is a key that does not exist, and a time-to-live that is 0 is *)
(* a key with no expiry.  A counter stops at one past its limit: the code  *)
(* only asks whether a value is 1 and whether it is within the limit.      *)
(***************************************************************************)
EXTENDS Naturals, FiniteSets

CONSTANTS
  Callers,      \* the requests that run concurrently
  EmailKeys,    \* login-email:<email>, the only keys that are ever reset
  IpKeys,       \* login-ip:<ip>
  ForgotKeys,   \* forgot-password:<email>
  NoKey,        \* an absent key
  LoginLimit,   \* LOGIN_LIMIT: 8 in the code
  ForgotLimit,  \* the 5 of forgotPassword
  Window,       \* LOGIN_WINDOW_SECONDS, in ticks
  MaxFailures   \* bound: how many requests die in the middle of a call

Keys == EmailKeys \cup IpKeys \cup ForgotKeys

ASSUME KeysAssumption ==
  /\ EmailKeys \cap IpKeys = {}
  /\ EmailKeys \cap ForgotKeys = {}
  /\ IpKeys \cap ForgotKeys = {}
  /\ NoKey \notin Keys

ASSUME BoundsAssumption ==
  /\ LoginLimit \in Nat \ {0}
  /\ ForgotLimit \in Nat \ {0}
  /\ Window \in Nat \ {0}
  /\ MaxFailures \in Nat

Limit(k) ==
  IF k \in EmailKeys THEN LoginLimit
  ELSE IF k \in IpKeys THEN 3 * LoginLimit
  ELSE ForgotLimit

VARIABLES
  count,     \* Redis: the value of each key, 0 when there is none
  ttl,       \* Redis: ticks until the key expires, 0 when it never does
  call,      \* what each request is doing
  admitted,  \* history: consume() calls answered true since the key was made
  orphaned,  \* history: keys whose EXPIRE was lost with its request
  failures   \* how many requests have died so far

vars == <<count, ttl, call, admitted, orphaned, failures>>

Call == [pc : {"idle", "incr", "expire", "check", "reset"},
         key : Keys \cup {NoKey},         \* the key being charged
         next : IpKeys \cup {NoKey},      \* the one to charge after it
         email : EmailKeys \cup {NoKey},  \* the key a matched password deletes
         ok : BOOLEAN]                    \* every consume() so far answered true

Idle == [pc |-> "idle", key |-> NoKey, next |-> NoKey, email |-> NoKey, ok |-> TRUE]

Init ==
  /\ count = [k \in Keys |-> 0]
  /\ ttl = [k \in Keys |-> 0]
  /\ call = [c \in Callers |-> Idle]
  /\ admitted = [k \in Keys |-> 0]
  /\ orphaned = {}
  /\ failures = 0

-----------------------------------------------------------------------------
(* AuthService.login: charge the e-mail, then the IP address if there is one. *)
StartLogin(c, e, i) ==
  /\ call[c].pc = "idle"
  /\ call' = [call EXCEPT ![c] =
       [pc |-> "incr", key |-> e, next |-> i, email |-> e, ok |-> TRUE]]
  /\ UNCHANGED <<count, ttl, admitted, orphaned, failures>>

StartForgot(c, f) ==
  /\ call[c].pc = "idle"
  /\ call' = [call EXCEPT ![c] =
       [pc |-> "incr", key |-> f, next |-> NoKey, email |-> NoKey, ok |-> TRUE]]
  /\ UNCHANGED <<count, ttl, admitted, orphaned, failures>>

(* The state of a request once consume() has answered ok for its key. *)
AfterConsume(cc, ok) ==
  IF cc.next # NoKey
  THEN [cc EXCEPT !.pc = "incr", !.key = cc.next, !.next = NoKey, !.ok = ok]
  ELSE IF ok /\ cc.email # NoKey
  THEN [cc EXCEPT !.pc = "check", !.key = NoKey, !.ok = ok]
  ELSE Idle

(* count <= limit, for the value INCR returned. *)
Within_PreviousValue(k, n) == n - 1 <= Limit(k)

Within(k, n) == n <= Limit(k)

(* Plausible slip: refresh the window on every hit instead of on the first. *)
FirstHit_EveryHit(n) == TRUE

(* Plausible slip: count from zero. *)
FirstHit_Zero(n) == n = 0

FirstHit(n) == n = 1

(* INCR, saturated at one past the limit. *)
Bumped(k) == IF count[k] > Limit(k) THEN count[k] ELSE count[k] + 1

(* consume: INCR.  The first hit goes on to EXPIRE before it returns. *)
Incr(c) ==
  LET k == call[c].key
      n == Bumped(k)
      ok == call[c].ok /\ Within(k, n)
  IN /\ call[c].pc = "incr"
     /\ count' = [count EXCEPT ![k] = n]
     /\ admitted' = [admitted EXCEPT ![k] = IF Within(k, n) THEN @ + 1 ELSE @]
     /\ call' = [call EXCEPT ![c] =
          IF FirstHit(n) THEN [@ EXCEPT !.pc = "expire", !.ok = ok]
          ELSE AfterConsume(@, ok)]
     /\ UNCHANGED <<ttl, orphaned, failures>>

(* Plausible slip: EXPIRE takes seconds, the caller gives milliseconds. *)
ExpireAfter_Milliseconds == 1000 * Window

ExpireAfter == Window

(* consume: EXPIRE, which does nothing to a key that is gone by now. *)
Expire(c) ==
  LET k == call[c].key
  IN /\ call[c].pc = "expire"
     /\ ttl' = [ttl EXCEPT ![k] = IF count[k] > 0 THEN ExpireAfter ELSE 0]
     /\ orphaned' = IF count[k] > 0 THEN orphaned \ {k} ELSE orphaned
     /\ call' = [call EXCEPT ![c] = AfterConsume(@, @.ok)]
     /\ UNCHANGED <<count, admitted, failures>>

(* AuthService.login: compare the password with the candidates' hashes. *)
CheckPassword(c) ==
  /\ call[c].pc = "check"
  /\ call' \in {[call EXCEPT ![c] = Idle],                \* no candidate matches
                [call EXCEPT ![c] = [@ EXCEPT !.pc = "reset"]]}
  /\ UNCHANGED <<count, ttl, admitted, orphaned, failures>>

(* reset: DEL, by a login whose password matched. *)
Reset(c) ==
  LET k == call[c].email
  IN /\ call[c].pc = "reset"
     /\ count' = [count EXCEPT ![k] = 0]
     /\ ttl' = [ttl EXCEPT ![k] = 0]
     /\ admitted' = [admitted EXCEPT ![k] = 0]
     /\ orphaned' = orphaned \ {k}
     /\ call' = [call EXCEPT ![c] = Idle]
     /\ UNCHANGED failures

(* Redis: a tick of the clock; a key whose time-to-live runs out is deleted. *)
Tick ==
  /\ \E k \in Keys : ttl[k] > 0
  /\ ttl' = [k \in Keys |-> IF ttl[k] > 0 THEN ttl[k] - 1 ELSE 0]
  /\ count' = [k \in Keys |-> IF ttl[k] = 1 THEN 0 ELSE count[k]]
  /\ admitted' = [k \in Keys |-> IF ttl[k] = 1 THEN 0 ELSE admitted[k]]
  /\ UNCHANGED <<call, orphaned, failures>>

(* The next Redis command rejects, or the process dies: the request is gone. *)
Fail(c) ==
  /\ call[c].pc # "idle"
  /\ failures < MaxFailures
  /\ failures' = failures + 1
  /\ orphaned' = IF call[c].pc = "expire" /\ count[call[c].key] > 0 /\ ttl[call[c].key] = 0
                 THEN orphaned \cup {call[c].key} ELSE orphaned
  /\ call' = [call EXCEPT ![c] = Idle]
  /\ UNCHANGED <<count, ttl, admitted>>

Step(c) == Incr(c) \/ Expire(c) \/ CheckPassword(c) \/ Reset(c)

Next ==
  \/ \E c \in Callers, e \in EmailKeys, i \in IpKeys \cup {NoKey} : StartLogin(c, e, i)
  \/ \E c \in Callers, f \in ForgotKeys : StartForgot(c, f)
  \/ \E c \in Callers : Step(c)
  \/ \E c \in Callers : Fail(c)
  \/ Tick

Spec == Init /\ [][Next]_vars

(* Redis keeps time, and Node runs every request whose command has answered. *)
FairSpec == Spec /\ WF_vars(Tick) /\ \A c \in Callers : WF_vars(Step(c))

-----------------------------------------------------------------------------
TypeOK ==
  /\ count \in [Keys -> Nat] /\ \A k \in Keys : count[k] <= Limit(k) + 1
  /\ ttl \in [Keys -> 0..Window]
  /\ call \in [Callers -> Call]
  /\ admitted \in [Keys -> Nat]
  /\ orphaned \in SUBSET Keys
  /\ failures \in 0..MaxFailures

(* A counter that would never expire has a request on its way to set its    *)
(* expiry, unless that request died between its INCR and its EXPIRE         *)
(* (RateLimitService.consume).                                              *)
TtlOwed ==
  \A k \in Keys : count[k] > 0 /\ ttl[k] = 0 =>
    \/ \E c \in Callers : call[c].pc = "expire" /\ call[c].key = k
    \/ k \in orphaned

(* However many requests race on a key, consume() answers true at most      *)
(* limit times between the moment the key is made and the moment it expires *)
(* or is deleted.                                                           *)
AdmittedWithinLimit == \A k \in Keys : admitted[k] <= Limit(k)

(* The window is fixed: hits on an IP or a forgot-password counter never    *)
(* push back the moment its window ends.  (An e-mail counter is left out: a *)
(* successful login may delete it between another login's INCR and EXPIRE,  *)
(* and that late EXPIRE then restarts the window of the next counter.)      *)
FixedWindow ==
  [][\A k \in Keys \ EmailKeys : ttl[k] > 0 => ttl'[k] <= ttl[k]]_vars

Blocked(k) == count[k] >= Limit(k)

(* A key that has used up its limit is admitted again when its window ends, *)
(* however often it is hit meanwhile, unless its EXPIRE was lost.           *)
BlockedReopensUnlessOrphaned ==
  \A k \in Keys : Blocked(k) ~> (~Blocked(k) \/ k \in orphaned)
=============================================================================
