--------------------------- MODULE RateLimitProofs ---------------------------
(***************************************************************************)
(* What RateLimit promises for every set of requests and keys and every    *)
(* limit: its type invariant, that a counter without an expiry is owed     *)
(* one, that no more than limit requests are admitted per window, and that *)
(* hits never push a window back.                                          *)
(***************************************************************************)
EXTENDS RateLimit, TLAPS

(* A request that has a counter to charge, or one to delete, names it. *)
KeyNamed ==
  \A c \in Callers :
    /\ call[c].pc \in {"incr", "expire"} => call[c].key # NoKey
    /\ call[c].pc \in {"check", "reset"} => call[c].email # NoKey

TypeInv == TypeOK /\ KeyNamed

LEMMA LimitType == \A k \in Keys : Limit(k) \in Nat \ {0}
  BY BoundsAssumption, KeysAssumption DEF Limit, Keys

LEMMA AfterConsumeType ==
  ASSUME NEW cc \in Call, NEW ok \in BOOLEAN
  PROVE  /\ AfterConsume(cc, ok) \in Call
         /\ AfterConsume(cc, ok).pc \in {"idle", "incr", "check"}
         /\ AfterConsume(cc, ok).pc = "incr" => AfterConsume(cc, ok).key # NoKey
         /\ AfterConsume(cc, ok).pc = "check" => AfterConsume(cc, ok).email # NoKey
  <1>1. CASE cc.next # NoKey
    BY <1>1, KeysAssumption DEF AfterConsume, Call, Keys
  <1>2. CASE cc.next = NoKey /\ ok /\ cc.email # NoKey
    BY <1>2 DEF AfterConsume, Call
  <1>3. CASE cc.next = NoKey /\ ~(ok /\ cc.email # NoKey)
    BY <1>3 DEF AfterConsume, Call, Idle
  <1> QED BY <1>1, <1>2, <1>3

LEMMA BumpedType ==
  ASSUME TypeOK, NEW k \in Keys
  PROVE  /\ Bumped(k) \in Nat \ {0}
         /\ Bumped(k) <= Limit(k) + 1
         /\ Bumped(k) >= count[k]
         /\ Bumped(k) = 1 => count[k] = 0
         /\ Bumped(k) <= Limit(k) => Bumped(k) = count[k] + 1
  BY LimitType DEF Bumped, TypeOK

-----------------------------------------------------------------------------
(* Setting the state of one request keeps the rest typed. *)
LEMMA CallUpdate ==
  ASSUME TypeInv, NEW c \in Callers, NEW cc \in Call,
         cc.pc \in {"incr", "expire"} => cc.key # NoKey,
         cc.pc \in {"check", "reset"} => cc.email # NoKey,
         call' = [call EXCEPT ![c] = cc]
  PROVE  /\ call' \in [Callers -> Call]
         /\ KeyNamed'
  BY DEF TypeInv, TypeOK, KeyNamed

LEMMA TypeInit == Init => TypeInv
  BY LimitType, BoundsAssumption
  DEF Init, TypeInv, TypeOK, KeyNamed, Call, Idle

LEMMA TypeNext == TypeInv /\ [Next]_vars => TypeInv'
  <1> SUFFICES ASSUME TypeInv, [Next]_vars PROVE TypeInv'
    OBVIOUS
  <1> USE DEF TypeInv
  <1>1. ASSUME NEW c \in Callers, NEW e \in EmailKeys, NEW i \in IpKeys \cup {NoKey},
               StartLogin(c, e, i)
        PROVE  TypeInv'
    <2> DEFINE cc == [pc |-> "incr", key |-> e, next |-> i, email |-> e, ok |-> TRUE]
    <2>1. cc \in Call /\ cc.key # NoKey
      BY KeysAssumption DEF Call, Keys
    <2>2. call' \in [Callers -> Call] /\ KeyNamed'
      BY <1>1, <2>1, CallUpdate DEF StartLogin
    <2> QED BY <1>1, <2>2 DEF StartLogin, TypeOK
  <1>2. ASSUME NEW c \in Callers, NEW f \in ForgotKeys, StartForgot(c, f)
        PROVE  TypeInv'
    <2> DEFINE cc == [pc |-> "incr", key |-> f, next |-> NoKey, email |-> NoKey, ok |-> TRUE]
    <2>1. cc \in Call /\ cc.key # NoKey
      BY KeysAssumption DEF Call, Keys
    <2>2. call' \in [Callers -> Call] /\ KeyNamed'
      BY <1>2, <2>1, CallUpdate DEF StartForgot
    <2> QED BY <1>2, <2>2 DEF StartForgot, TypeOK
  <1>3. ASSUME NEW c \in Callers, Incr(c)
        PROVE  TypeInv'
    <2> DEFINE k == call[c].key
               n == Bumped(k)
               okk == call[c].ok /\ Within(k, n)
               cc == IF FirstHit(n) THEN [call[c] EXCEPT !.pc = "expire", !.ok = okk]
                     ELSE AfterConsume(call[c], okk)
    <2>1. call[c] \in Call /\ k \in Keys /\ okk \in BOOLEAN
      BY <1>3 DEF Incr, TypeOK, KeyNamed, Call, Within
    <2>2. n \in Nat /\ n <= Limit(k) + 1
      BY <2>1, BumpedType
    <2>3. /\ AfterConsume(call[c], okk) \in Call
          /\ AfterConsume(call[c], okk).pc \in {"idle", "incr", "check"}
          /\ AfterConsume(call[c], okk).pc = "incr" => AfterConsume(call[c], okk).key # NoKey
          /\ AfterConsume(call[c], okk).pc = "check" => AfterConsume(call[c], okk).email # NoKey
      BY <2>1, AfterConsumeType
    <2>4. /\ [call[c] EXCEPT !.pc = "expire", !.ok = okk] \in Call
          /\ [call[c] EXCEPT !.pc = "expire", !.ok = okk].pc = "expire"
          /\ [call[c] EXCEPT !.pc = "expire", !.ok = okk].key # NoKey
      BY <2>1, KeysAssumption DEF Call
    <2>5. /\ cc \in Call
          /\ cc.pc \in {"incr", "expire"} => cc.key # NoKey
          /\ cc.pc \in {"check", "reset"} => cc.email # NoKey
      BY <2>3, <2>4
    <2>6. call' = [call EXCEPT ![c] = cc]
      BY <1>3 DEF Incr
    <2>7. call' \in [Callers -> Call] /\ KeyNamed'
      BY <2>5, <2>6, CallUpdate
    <2>8. count' \in [Keys -> Nat] /\ \A j \in Keys : count'[j] <= Limit(j) + 1
      BY <1>3, <2>2 DEF Incr, TypeOK
    <2>9. admitted' \in [Keys -> Nat]
      <3>1. (IF Within(k, n) THEN admitted[k] + 1 ELSE admitted[k]) \in Nat
        BY <2>1 DEF TypeOK
      <3> QED BY <1>3, <3>1 DEF Incr, TypeOK
    <2> QED BY <1>3, <2>7, <2>8, <2>9 DEF Incr, TypeOK
  <1>4. ASSUME NEW c \in Callers, Expire(c)
        PROVE  TypeInv'
    <2> DEFINE cc == AfterConsume(call[c], call[c].ok)
    <2>1. call[c] \in Call /\ call[c].ok \in BOOLEAN
      BY DEF TypeOK, Call
    <2>2. /\ cc \in Call
          /\ cc.pc \in {"idle", "incr", "check"}
          /\ cc.pc = "incr" => cc.key # NoKey
          /\ cc.pc = "check" => cc.email # NoKey
      BY <2>1, AfterConsumeType
    <2>3. call' = [call EXCEPT ![c] = cc]
      BY <1>4 DEF Expire
    <2>4. call' \in [Callers -> Call] /\ KeyNamed'
      BY <2>2, <2>3, CallUpdate
    <2>5. ttl' \in [Keys -> 0..Window]
      <3>1. Window \in 0..Window /\ 0 \in 0..Window
        BY BoundsAssumption
      <3>2. (IF count[call[c].key] > 0 THEN ExpireAfter ELSE 0) \in 0..Window
        BY <3>1 DEF ExpireAfter
      <3> QED BY <1>4, <3>2 DEF Expire, TypeOK
    <2>6. orphaned' \in SUBSET Keys
      BY <1>4 DEF Expire, TypeOK
    <2> QED BY <1>4, <2>4, <2>5, <2>6 DEF Expire, TypeOK
  <1>5. ASSUME NEW c \in Callers, CheckPassword(c)
        PROVE  TypeInv'
    <2> DEFINE matched == [call[c] EXCEPT !.pc = "reset"]
    <2>1. call' = [call EXCEPT ![c] = Idle] \/ call' = [call EXCEPT ![c] = matched]
      BY <1>5 DEF CheckPassword
    <2>2. Idle \in Call /\ Idle.pc = "idle"
      BY DEF Idle, Call
    <2>3. matched \in Call /\ matched.pc = "reset" /\ matched.email # NoKey
      BY <1>5 DEF CheckPassword, TypeOK, KeyNamed, Call
    <2>4. call' \in [Callers -> Call] /\ KeyNamed'
      <3>1. CASE call' = [call EXCEPT ![c] = Idle]
        BY <3>1, <2>2, CallUpdate
      <3>2. CASE call' = [call EXCEPT ![c] = matched]
        BY <3>2, <2>3, CallUpdate
      <3> QED BY <2>1, <3>1, <3>2
    <2> QED BY <1>5, <2>4 DEF CheckPassword, TypeOK
  <1>6. ASSUME NEW c \in Callers, Reset(c)
        PROVE  TypeInv'
    <2>1. Idle \in Call /\ Idle.pc = "idle"
      BY DEF Idle, Call
    <2>2. call' \in [Callers -> Call] /\ KeyNamed'
      BY <1>6, <2>1, CallUpdate DEF Reset
    <2>3. /\ count' \in [Keys -> Nat]
          /\ \A j \in Keys : count'[j] <= Limit(j) + 1
      <3>1. \A j \in Keys : 0 <= Limit(j) + 1
        BY LimitType
      <3> QED BY <1>6, <3>1 DEF Reset, TypeOK
    <2>4. ttl' \in [Keys -> 0..Window]
      <3>1. 0 \in 0..Window
        BY BoundsAssumption
      <3> QED BY <1>6, <3>1 DEF Reset, TypeOK
    <2>5. admitted' \in [Keys -> Nat] /\ orphaned' \in SUBSET Keys
      BY <1>6 DEF Reset, TypeOK
    <2> QED BY <1>6, <2>2, <2>3, <2>4, <2>5 DEF Reset, TypeOK
  <1>7. ASSUME NEW c \in Callers, Fail(c)
        PROVE  TypeInv'
    <2>1. Idle \in Call /\ Idle.pc = "idle"
      BY DEF Idle, Call
    <2>2. call' \in [Callers -> Call] /\ KeyNamed'
      BY <1>7, <2>1, CallUpdate DEF Fail
    <2>3. orphaned' \in SUBSET Keys
      BY <1>7 DEF Fail, TypeOK, KeyNamed, Call
    <2>4. failures' \in 0..MaxFailures
      BY <1>7, BoundsAssumption DEF Fail, TypeOK
    <2> QED BY <1>7, <2>2, <2>3, <2>4 DEF Fail, TypeOK
  <1>8. CASE Tick
    BY <1>8, LimitType, BoundsAssumption DEF Tick, TypeOK, KeyNamed
  <1>9. CASE UNCHANGED vars
    BY <1>9 DEF vars, TypeOK, KeyNamed
  <1> QED BY <1>1, <1>2, <1>3, <1>4, <1>5, <1>6, <1>7, <1>8, <1>9 DEF Next, Step

(* TypeOK holds in every reachable state, whatever the requests do. *)
THEOREM TypeCorrect == Spec => []TypeOK
  <1>1. TypeInv => TypeOK
    BY DEF TypeInv
  <1> QED BY TypeInit, TypeNext, <1>1, PTL DEF Spec

-----------------------------------------------------------------------------
(* Admissions never outrun the counter, so the counter's limit bounds them. *)
AdmittedInv == \A k \in Keys : admitted[k] <= count[k] /\ admitted[k] <= Limit(k)

LEMMA AdmittedNext == TypeInv /\ AdmittedInv /\ [Next]_vars => AdmittedInv'
  <1> SUFFICES ASSUME TypeInv, AdmittedInv, [Next]_vars PROVE AdmittedInv'
    OBVIOUS
  <1> USE DEF TypeInv
  <1>1. ASSUME NEW c \in Callers, Incr(c)
        PROVE  AdmittedInv'
    <2> DEFINE k == call[c].key
               n == Bumped(k)
    <2>1. k \in Keys
      BY <1>1 DEF Incr, TypeOK, KeyNamed, Call
    <2>2. n \in Nat /\ n >= count[k] /\ (n <= Limit(k) => n = count[k] + 1)
      BY <2>1, BumpedType
    <2>3. /\ \A j \in Keys : j # k => count'[j] = count[j] /\ admitted'[j] = admitted[j]
          /\ count'[k] = n
          /\ admitted'[k] = IF n <= Limit(k) THEN admitted[k] + 1 ELSE admitted[k]
      BY <1>1, <2>1 DEF Incr, Within, TypeOK
    <2>4. admitted'[k] <= count'[k] /\ admitted'[k] <= Limit(k)
      BY <2>1, <2>2, <2>3, LimitType DEF AdmittedInv, TypeOK
    <2> QED BY <2>3, <2>4 DEF AdmittedInv
  <1>2. ASSUME NEW c \in Callers, Reset(c)
        PROVE  AdmittedInv'
    <2>1. \A j \in Keys : \/ count'[j] = 0 /\ admitted'[j] = 0
                          \/ count'[j] = count[j] /\ admitted'[j] = admitted[j]
      BY <1>2 DEF Reset, TypeOK
    <2> QED BY <2>1, LimitType DEF AdmittedInv
  <1>3. CASE Tick
    <2>1. \A j \in Keys : \/ count'[j] = 0 /\ admitted'[j] = 0
                          \/ count'[j] = count[j] /\ admitted'[j] = admitted[j]
      BY <1>3 DEF Tick, TypeOK
    <2> QED BY <2>1, LimitType DEF AdmittedInv
  <1>4. CASE UNCHANGED <<count, admitted>>
    BY <1>4 DEF AdmittedInv
  <1> QED
    BY <1>1, <1>2, <1>3, <1>4
    DEF Next, Step, StartLogin, StartForgot, Expire, CheckPassword, Fail, vars

(* consume() answers true at most limit times per life of a counter,       *)
(* whatever the number of requests that race on it.                        *)
THEOREM LimitHolds == Spec => []AdmittedWithinLimit
  <1>1. Init => AdmittedInv
    BY LimitType DEF Init, AdmittedInv
  <1>2. AdmittedInv => AdmittedWithinLimit
    BY DEF AdmittedInv, AdmittedWithinLimit
  <1> QED BY TypeInit, TypeNext, AdmittedNext, <1>1, <1>2, PTL DEF Spec

-----------------------------------------------------------------------------
LEMMA TtlOwedNext == TypeInv /\ TtlOwed /\ [Next]_vars => TtlOwed'
  <1> SUFFICES ASSUME TypeInv, TtlOwed, [Next]_vars,
                      NEW k \in Keys, count'[k] > 0, ttl'[k] = 0
               PROVE  \/ \E c \in Callers : call'[c].pc = "expire" /\ call'[c].key = k
                      \/ k \in orphaned'
    BY DEF TtlOwed
  <1> DEFINE Owed == \E d \in Callers : call'[d].pc = "expire" /\ call'[d].key = k
  <1> USE DEF TypeInv
  <1>1. ASSUME NEW c \in Callers, NEW e \in EmailKeys, NEW i \in IpKeys \cup {NoKey},
               StartLogin(c, e, i)
        PROVE  Owed \/ k \in orphaned'
    BY <1>1 DEF StartLogin, TtlOwed, TypeOK
  <1>2. ASSUME NEW c \in Callers, NEW f \in ForgotKeys, StartForgot(c, f)
        PROVE  Owed \/ k \in orphaned'
    BY <1>2 DEF StartForgot, TtlOwed, TypeOK
  <1>3. ASSUME NEW c \in Callers, Incr(c)
        PROVE  Owed \/ k \in orphaned'
    <2>1. CASE Bumped(call[c].key) = 1 /\ call[c].key = k
      <3>1. call'[c] = [call[c] EXCEPT !.pc = "expire",
                                       !.ok = call[c].ok /\ Within(call[c].key, 1)]
        BY <1>3, <2>1 DEF Incr, FirstHit, TypeOK
      <3>2. call[c] \in Call
        BY DEF TypeOK
      <3>3. call'[c].pc = "expire" /\ call'[c].key = k
        BY <2>1, <3>1, <3>2 DEF Call
      <3> QED BY <3>3
    <2>2. CASE call[c].key # k
      <3>1. count[k] > 0 /\ ttl[k] = 0
        BY <1>3, <2>2 DEF Incr, TypeOK
      <3> QED BY <1>3, <3>1 DEF Incr, TtlOwed, TypeOK
    <2>3. CASE Bumped(call[c].key) # 1 /\ call[c].key = k
      <3>1. count[k] > 0 /\ ttl[k] = 0
        BY <1>3, <2>3, LimitType DEF Incr, TypeOK, Bumped
      <3> QED BY <1>3, <3>1 DEF Incr, TtlOwed, TypeOK
    <2> QED BY <2>1, <2>2, <2>3
  <1>4. ASSUME NEW c \in Callers, Expire(c)
        PROVE  Owed \/ k \in orphaned'
    <2>1. call[c].key # k
      BY <1>4, BoundsAssumption DEF Expire, ExpireAfter, TypeOK
    <2>2. count[k] > 0 /\ ttl[k] = 0
      BY <1>4, <2>1 DEF Expire, TypeOK
    <2> QED BY <1>4, <2>1, <2>2 DEF Expire, TtlOwed, TypeOK
  <1>5. ASSUME NEW c \in Callers, CheckPassword(c)
        PROVE  Owed \/ k \in orphaned'
    BY <1>5 DEF CheckPassword, TtlOwed, TypeOK
  <1>6. ASSUME NEW c \in Callers, Reset(c)
        PROVE  Owed \/ k \in orphaned'
    <2>1. call[c].email # k /\ count[k] > 0 /\ ttl[k] = 0
      BY <1>6 DEF Reset, TypeOK
    <2> QED BY <1>6, <2>1 DEF Reset, TtlOwed, TypeOK
  <1>7. ASSUME NEW c \in Callers, Fail(c)
        PROVE  Owed \/ k \in orphaned'
    BY <1>7 DEF Fail, TtlOwed, TypeOK
  <1>8. CASE Tick
    <2>1. count[k] > 0 /\ ttl[k] = 0
      BY <1>8 DEF Tick, TypeOK
    <2> QED BY <1>8, <2>1 DEF Tick, TtlOwed
  <1>9. CASE UNCHANGED vars
    BY <1>9 DEF vars, TtlOwed
  <1> QED BY <1>1, <1>2, <1>3, <1>4, <1>5, <1>6, <1>7, <1>8, <1>9 DEF Next, Step

(* A counter with no expiry is one whose request is about to set it, or    *)
(* one whose request died in between: there is no third way to lock a key. *)
THEOREM ExpiryOwed == Spec => []TtlOwed
  <1>1. Init => TtlOwed
    BY DEF Init, TtlOwed
  <1> QED BY TypeInit, TypeNext, TtlOwedNext, <1>1, PTL DEF Spec

-----------------------------------------------------------------------------
(* On a key that no login resets, an EXPIRE is still to come only from the *)
(* one request whose INCR made the key, and the key has no expiry yet.     *)
FirstHitPending ==
  \A k \in Keys \ EmailKeys : \A c \in Callers :
    call[c].pc = "expire" /\ call[c].key = k =>
      /\ count[k] > 0
      /\ ttl[k] = 0
      /\ \A d \in Callers : call[d].pc = "expire" /\ call[d].key = k => d = c

(* Only a key that exists has an expiry. *)
ExpiryOfExisting == \A k \in Keys : ttl[k] > 0 => count[k] > 0

LEMMA ExpiryOfExistingNext ==
  TypeInv /\ ExpiryOfExisting /\ [Next]_vars => ExpiryOfExisting'
  <1> SUFFICES ASSUME TypeInv, ExpiryOfExisting, [Next]_vars PROVE ExpiryOfExisting'
    OBVIOUS
  <1> USE DEF TypeInv, ExpiryOfExisting
  <1>1. ASSUME NEW c \in Callers, Incr(c)
        PROVE  ExpiryOfExisting'
    <2>1. call[c].key \in Keys
      BY <1>1 DEF Incr, TypeOK, KeyNamed, Call
    <2> QED BY <1>1, <2>1, BumpedType DEF Incr, TypeOK
  <1>2. ASSUME NEW c \in Callers, Expire(c)
        PROVE  ExpiryOfExisting'
    BY <1>2 DEF Expire, TypeOK
  <1>3. ASSUME NEW c \in Callers, Reset(c)
        PROVE  ExpiryOfExisting'
    BY <1>3 DEF Reset, TypeOK
  <1>4. CASE Tick
    BY <1>4 DEF Tick, TypeOK
  <1>5. CASE UNCHANGED <<count, ttl>>
    BY <1>5
  <1> QED
    BY <1>1, <1>2, <1>3, <1>4, <1>5
    DEF Next, Step, StartLogin, StartForgot, CheckPassword, Fail, vars

LEMMA FirstHitPendingNext ==
  TypeInv /\ ExpiryOfExisting /\ FirstHitPending /\ [Next]_vars => FirstHitPending'
  <1> SUFFICES ASSUME TypeInv, ExpiryOfExisting, FirstHitPending, [Next]_vars,
                      NEW k \in Keys \ EmailKeys, NEW c \in Callers,
                      call'[c].pc = "expire", call'[c].key = k
               PROVE  /\ count'[k] > 0
                      /\ ttl'[k] = 0
                      /\ \A d \in Callers : call'[d].pc = "expire" /\ call'[d].key = k => d = c
    BY DEF FirstHitPending
  <1> DEFINE Good == /\ count'[k] > 0
                     /\ ttl'[k] = 0
                     /\ \A d \in Callers : call'[d].pc = "expire" /\ call'[d].key = k => d = c
  <1> USE DEF TypeInv
  <1>1. ASSUME NEW b \in Callers, NEW e \in EmailKeys, NEW i \in IpKeys \cup {NoKey},
               StartLogin(b, e, i)
        PROVE  Good
    BY <1>1 DEF StartLogin, FirstHitPending, TypeOK
  <1>2. ASSUME NEW b \in Callers, NEW f \in ForgotKeys, StartForgot(b, f)
        PROVE  Good
    BY <1>2 DEF StartForgot, FirstHitPending, TypeOK
  <1>3. ASSUME NEW b \in Callers, Incr(b)
        PROVE  Good
    <2>1. call[b] \in Call /\ call[b].key \in Keys
      BY <1>3 DEF Incr, TypeOK, KeyNamed, Call
    <2>2. CASE Bumped(call[b].key) = 1
      <3>1. call'[b] = [call[b] EXCEPT !.pc = "expire",
                                       !.ok = call[b].ok /\ Within(call[b].key, 1)]
        BY <1>3, <2>2 DEF Incr, FirstHit, TypeOK
      <3>2. call'[b].pc = "expire" /\ call'[b].key = call[b].key
        BY <2>1, <3>1 DEF Call
      <3>3. count[call[b].key] = 0
        BY <2>1, <2>2, BumpedType
      <3>4. CASE call[b].key = k
        <4>1. \A d \in Callers : ~(call[d].pc = "expire" /\ call[d].key = k)
          BY <3>3, <3>4 DEF FirstHitPending
        <4>2. c = b
          BY <1>3, <4>1 DEF Incr, TypeOK
        <4>3. ttl[k] = 0 /\ count'[k] = 1
          BY <1>3, <2>2, <3>3, <3>4 DEF Incr, TypeOK, ExpiryOfExisting
        <4> QED BY <1>3, <4>1, <4>2, <4>3 DEF Incr, TypeOK
      <3>5. CASE call[b].key # k
        BY <1>3, <3>2, <3>5 DEF Incr, TypeOK, FirstHitPending
      <3> QED BY <3>4, <3>5
    <2>3. CASE Bumped(call[b].key) # 1
      <3>1. call'[b] = AfterConsume(call[b], call[b].ok /\ Within(call[b].key, Bumped(call[b].key)))
        BY <1>3, <2>3 DEF Incr, FirstHit, TypeOK
      <3>2. call'[b].pc # "expire"
        BY <2>1, <3>1, AfterConsumeType DEF Call, Within
      <3>3. c # b
        BY <3>2
      <3>4. count[k] > 0 /\ ttl[k] = 0
        BY <1>3, <3>3 DEF Incr, TypeOK, FirstHitPending
      <3>5. count'[k] > 0
        BY <1>3, <2>1, <3>4, BumpedType DEF Incr, TypeOK
      <3> QED BY <1>3, <3>2, <3>3, <3>4, <3>5 DEF Incr, TypeOK, FirstHitPending
    <2> QED BY <2>2, <2>3
  <1>4. ASSUME NEW b \in Callers, Expire(b)
        PROVE  Good
    <2>1. call[b].ok \in BOOLEAN /\ call[b] \in Call
      BY DEF TypeOK, Call
    <2>2. call'[b].pc # "expire"
      BY <1>4, <2>1, AfterConsumeType DEF Expire, TypeOK
    <2>3. c # b /\ call[c].pc = "expire" /\ call[c].key = k
      BY <1>4, <2>2 DEF Expire, TypeOK
    <2>4. call[b].key # k
      BY <1>4, <2>3 DEF Expire, FirstHitPending
    <2> QED BY <1>4, <2>2, <2>3, <2>4 DEF Expire, TypeOK, FirstHitPending
  <1>5. ASSUME NEW b \in Callers, CheckPassword(b)
        PROVE  Good
    <2>1. call'[b].pc # "expire"
      BY <1>5 DEF CheckPassword, TypeOK, Call, Idle
    <2>2. \A d \in Callers : d # b => call'[d] = call[d]
      BY <1>5 DEF CheckPassword, TypeOK
    <2> QED BY <1>5, <2>1, <2>2 DEF CheckPassword, FirstHitPending
  <1>6. ASSUME NEW b \in Callers, Reset(b)
        PROVE  Good
    <2>1. call[b] \in Call /\ call[b].pc = "reset"
      BY <1>6 DEF Reset, TypeOK
    <2>2. call[b].email # k
      <3>1. call[b].email \in EmailKeys \cup {NoKey}
        BY <2>1 DEF Call
      <3> QED BY <3>1, KeysAssumption
    <2>3. count'[k] = count[k] /\ ttl'[k] = ttl[k]
      <3>1. /\ count' = [count EXCEPT ![call[b].email] = 0]
            /\ ttl' = [ttl EXCEPT ![call[b].email] = 0]
        BY <1>6 DEF Reset
      <3>2. k \in Keys /\ count \in [Keys -> Nat] /\ ttl \in [Keys -> 0..Window]
        BY DEF TypeOK
      <3> QED BY <2>2, <3>1, <3>2
    <2>4. call'[b].pc # "expire" /\ \A d \in Callers : d # b => call'[d] = call[d]
      BY <1>6 DEF Reset, TypeOK, Idle
    <2> QED BY <2>3, <2>4 DEF FirstHitPending
  <1>7. ASSUME NEW b \in Callers, Fail(b)
        PROVE  Good
    BY <1>7 DEF Fail, FirstHitPending, TypeOK, Idle
  <1>8. CASE Tick
    BY <1>8 DEF Tick, FirstHitPending, TypeOK
  <1>9. CASE UNCHANGED vars
    BY <1>9 DEF vars, FirstHitPending
  <1> QED BY <1>1, <1>2, <1>3, <1>4, <1>5, <1>6, <1>7, <1>8, <1>9 DEF Next, Step

LEMMA WindowStep ==
  TypeInv /\ FirstHitPending /\ [Next]_vars =>
    [\A k \in Keys \ EmailKeys : ttl[k] > 0 => ttl'[k] <= ttl[k]]_vars
  <1> SUFFICES ASSUME TypeInv, FirstHitPending, [Next]_vars,
                      NEW k \in Keys \ EmailKeys, ttl[k] > 0
               PROVE  ttl'[k] <= ttl[k]
    OBVIOUS
  <1> USE DEF TypeInv
  <1>0. ttl[k] \in Nat
    BY BoundsAssumption DEF TypeOK
  <1>1. ASSUME NEW c \in Callers, Expire(c)
        PROVE  ttl'[k] <= ttl[k]
    <2>1. call[c].key # k
      BY <1>1 DEF Expire, FirstHitPending, TypeOK
    <2>2. ttl'[k] = ttl[k]
      BY <1>1, <2>1 DEF Expire, TypeOK
    <2> QED BY <1>0, <2>2
  <1>2. ASSUME NEW c \in Callers, Reset(c)
        PROVE  ttl'[k] <= ttl[k]
    <2>1. ttl'[k] = ttl[k] \/ ttl'[k] = 0
      BY <1>2 DEF Reset, TypeOK
    <2> QED BY <1>0, <2>1
  <1>3. CASE Tick
    BY <1>3 DEF Tick, TypeOK
  <1>4. CASE UNCHANGED ttl
    BY <1>4 DEF TypeOK
  <1> QED
    BY <1>1, <1>2, <1>3, <1>4
    DEF Next, Step, StartLogin, StartForgot, Incr, CheckPassword, Fail, vars

(* Hits on an IP or forgot-password counter never move the end of its      *)
(* window, for any number of requests racing on it.                        *)
THEOREM WindowFixed == Spec => FixedWindow
  <1>1. Init => ExpiryOfExisting /\ FirstHitPending
    BY DEF Init, ExpiryOfExisting, FirstHitPending, Idle
  <1> QED
    BY TypeInit, TypeNext, ExpiryOfExistingNext, FirstHitPendingNext, WindowStep, <1>1, PTL
    DEF Spec, FixedWindow
=============================================================================
