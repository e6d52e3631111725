----------------------- MODULE LifecycleHistoryProofs -----------------------
(***************************************************************************)
(* What transitionLifecycle keeps for any number of items and calls: types,*)
(* revisions numbered without gap or repetition, transitions that have a   *)
(* revision, no change of status without a row that explains it, and a     *)
(* history that implements RevisionLog.                                    *)
(***************************************************************************)
EXTENDS LifecycleHistory, FiniteSetTheorems, TLAPS

(* The steps of one call that the history depends on, and all the others.  *)
LEMMA Steps ==
  ASSUME [Next]_vars
  PROVE  \/ \E c \in Calls, i \in Items, to \in Targets : ReadItem(c, i, to)
         \/ \E c \in Calls : \/ ReadLatest(c) \/ CreateRevision(c)
                             \/ CreateTransition(c) \/ UpdateStatus(c)
                             \/ RevisionConflict(c) \/ Fail(c)
         \/ /\ UNCHANGED <<revisions, transitions, call>>
            /\ \/ UNCHANGED <<status, expired, todo>>
               \/ \E i \in Items : Expire(i) \/ CronArchive(i)
               \/ CronFind
               \/ \E left \in SUBSET todo : CronFail(left)
  BY DEF Next, Transition, Cron, Expire, CronFind, CronArchive, CronFail, vars

LEMMA VersionsOf ==
  \A i, v : v \in Versions(i) <=> \E r \in revisions : r.item = i /\ r.version = v
  BY DEF Versions

-----------------------------------------------------------------------------
(* A greatest version always exists, though revisions is any set: the       *)
(* number read by findMany is then a version of the item, or 0.             *)
HasLatest ==
  \A i \in Items : \E v \in Versions(i) \cup {0} : \A w \in Versions(i) \cup {0} : v >= w

Numbered == \A c \in Calls : call[c].pc = "revise" => call[c].version # 0

TypeInv == TypeOK /\ HasLatest /\ Numbered

LEMMA VersionsType ==
  ASSUME TypeOK, NEW i \in Items
  PROVE  Versions(i) \subseteq Nat \ {0}
  BY VersionsOf DEF TypeOK, Revision

LEMMA Latest ==
  ASSUME TypeInv, NEW i \in Items
  PROVE  /\ LatestVersion(i) \in Versions(i) \cup {0}
         /\ LatestVersion(i) \in Nat
         /\ \A w \in Versions(i) : LatestVersion(i) >= w
  <1>1. PICK v \in Versions(i) \cup {0} : \A w \in Versions(i) \cup {0} : v >= w
    BY DEF TypeInv, HasLatest
  <1>2. /\ LatestVersion(i) \in Versions(i) \cup {0}
        /\ \A w \in Versions(i) \cup {0} : LatestVersion(i) >= w
    BY <1>1 DEF LatestVersion, Max
  <1> QED BY <1>2, VersionsType DEF TypeInv

LEMMA TypeInit == Init => TypeInv
  <1> SUFFICES ASSUME Init PROVE TypeInv
    OBVIOUS
  <1>1. TypeOK
    BY DEF Init, TypeOK, Call, Statuses
  <1>2. \A i \in Items : Versions(i) = {}
    BY DEF Init, Versions
  <1>3. Numbered
    BY DEF Init, Numbered
  <1> QED BY <1>1, <1>2, <1>3 DEF TypeInv, HasLatest

(* What one revision more does to the versions of the items. *)
LEMMA OneMore ==
  ASSUME NEW c \in Calls, CreateRevision(c), NEW i
  PROVE  Versions(i)' = IF i = call[c].item THEN Versions(i) \cup {call[c].version}
                        ELSE Versions(i)
  <1> DEFINE new == [item |-> call[c].item, version |-> call[c].version,
                     snapshot |-> call[c].seen, by |-> c]
  <1>1. revisions' = revisions \cup {new}
    BY DEF CreateRevision
  <1>2. new.item = call[c].item /\ new.version = call[c].version
    OBVIOUS
  <1> QED BY <1>1, <1>2 DEF Versions

(* How a call moves: it reads an item, takes a number, or goes on. *)
LEMMA Moved ==
  ASSUME NEW k \in Call, NEW p \in {"record", "update", "done"}
  PROVE  LET m == [k EXCEPT !.pc = p]
         IN /\ m \in Call /\ m.pc = p /\ m.item = k.item
            /\ m.to = k.to /\ m.seen = k.seen /\ m.version = k.version
  BY DEF Call

LEMMA TookNumber ==
  ASSUME NEW k \in Call, NEW n \in Nat
  PROVE  LET m == [k EXCEPT !.pc = "revise", !.version = n]
         IN /\ m \in Call /\ m.pc = "revise" /\ m.item = k.item
            /\ m.to = k.to /\ m.seen = k.seen /\ m.version = n
  BY DEF Call

LEMMA CallStep ==
  ASSUME TypeInv, NEW c \in Calls,
         \/ ReadLatest(c) \/ RevisionConflict(c) \/ Fail(c)
         \/ CreateRevision(c) \/ CreateTransition(c) \/ UpdateStatus(c)
  PROVE  \E m \in Call :
           /\ call' = [call EXCEPT ![c] = m]
           /\ m.item = call[c].item /\ m.item \in Items
           /\ m.to = call[c].to /\ m.seen = call[c].seen
           /\ \/ /\ ReadLatest(c)
                 /\ m.pc = "revise" /\ m.version = LatestVersion(m.item) + 1
              \/ CreateRevision(c) /\ m.pc = "record"
              \/ CreateTransition(c) /\ m.pc = "update"
              \/ m.pc = "done"
  <1> USE DEF TypeInv
  <1>1. call[c] \in Call /\ (call[c].pc \notin {"start", "done"} => call[c].item \in Items)
    BY DEF TypeOK
  <1>2. call[c].item \in Items
    BY <1>1 DEF ReadLatest, RevisionConflict, Fail, CreateRevision, CreateTransition,
                UpdateStatus
  <1>3. CASE ReadLatest(c)
    <2> DEFINE n == LatestVersion(call[c].item) + 1
               m == [call[c] EXCEPT !.pc = "revise", !.version = n]
    <2>1. n \in Nat
      BY <1>2, Latest
    <2>2. call' = [call EXCEPT ![c] = m]
      BY <1>3 DEF ReadLatest
    <2>3. /\ m \in Call /\ m.pc = "revise" /\ m.item = call[c].item
          /\ m.to = call[c].to /\ m.seen = call[c].seen /\ m.version = n
      <3> HIDE DEF n
      <3> QED BY <1>1, <2>1, TookNumber
    <2> HIDE DEF m
    <2> QED BY <1>2, <1>3, <2>2, <2>3
  <1>4. ASSUME NEW p \in {"record", "update", "done"}, call' = [call EXCEPT ![c].pc = p],
               \/ CreateRevision(c) /\ p = "record"
               \/ CreateTransition(c) /\ p = "update"
               \/ p = "done"
        PROVE  \E m \in Call :
                 /\ call' = [call EXCEPT ![c] = m]
                 /\ m.item = call[c].item /\ m.item \in Items
                 /\ m.to = call[c].to /\ m.seen = call[c].seen
                 /\ \/ CreateRevision(c) /\ m.pc = "record"
                    \/ CreateTransition(c) /\ m.pc = "update"
                    \/ m.pc = "done"
    BY <1>1, <1>2, <1>4, Moved
  <1>5. CASE CreateRevision(c)
    BY <1>4, <1>5 DEF CreateRevision, AfterRevision
  <1>6. CASE CreateTransition(c)
    BY <1>4, <1>6 DEF CreateTransition
  <1>7. CASE RevisionConflict(c) \/ Fail(c) \/ UpdateStatus(c)
    BY <1>4, <1>7 DEF RevisionConflict, Fail, UpdateStatus, Finish
  <1> QED BY <1>3, <1>5, <1>6, <1>7

LEMMA CallsTyped ==
  ASSUME TypeInv, NEW c \in Calls, NEW m \in Call, m.item \in Items,
         m.pc = "revise" => m.version # 0,
         call' = [call EXCEPT ![c] = m]
  PROVE  /\ call' \in [Calls -> Call]
         /\ \A d \in Calls : call'[d].pc \notin {"start", "done"} => call'[d].item \in Items
         /\ Numbered'
  BY DEF TypeInv, TypeOK, Numbered

LEMMA TypeNext == TypeInv /\ [Next]_vars => TypeInv'
  <1> SUFFICES ASSUME TypeInv, [Next]_vars PROVE TypeInv'
    OBVIOUS
  <1> USE DEF TypeInv
  <1>1. ASSUME NEW c \in Calls, NEW i \in Items, NEW to \in Targets, ReadItem(c, i, to)
        PROVE  TypeInv'
    <2> DEFINE k == [pc |-> "read", item |-> i, to |-> to, seen |-> status[i], version |-> 0]
    <2>1. k \in Call /\ k.item \in Items /\ k.pc = "read"
      BY TargetsAssumption DEF TypeOK, Call
    <2>2. call' = [call EXCEPT ![c] = k]
      BY <1>1 DEF ReadItem
    <2>3. TypeOK' /\ Numbered'
      BY <1>1, <2>1, <2>2, CallsTyped DEF ReadItem, TypeOK
    <2> QED BY <1>1, <2>3 DEF ReadItem, HasLatest, Versions
  <1>2. ASSUME NEW c \in Calls,
               \/ ReadLatest(c) \/ RevisionConflict(c) \/ Fail(c)
               \/ CreateRevision(c) \/ CreateTransition(c) \/ UpdateStatus(c)
        PROVE  /\ call' \in [Calls -> Call]
               /\ \A d \in Calls : call'[d].pc \notin {"start", "done"} => call'[d].item \in Items
               /\ Numbered'
    <2>1. PICK m \in Call :
            /\ call' = [call EXCEPT ![c] = m]
            /\ m.item \in Items
            /\ \/ m.pc = "revise" /\ m.version = LatestVersion(m.item) + 1
               \/ m.pc \in {"record", "update", "done"}
      BY <1>2, CallStep
    <2>2. LatestVersion(m.item) \in Nat
      BY <2>1, Latest
    <2>3. m.pc = "revise" => m.version # 0
      BY <2>1, <2>2
    <2> QED BY <2>1, <2>3, CallsTyped
  <1>3. ASSUME NEW c \in Calls, ReadLatest(c) \/ RevisionConflict(c) \/ Fail(c)
        PROVE  TypeInv'
    <2>1. UNCHANGED <<status, revisions, transitions, expired, todo>>
      BY <1>3 DEF ReadLatest, RevisionConflict, Fail
    <2> QED BY <1>2, <1>3, <2>1 DEF TypeOK, HasLatest, Versions
  <1>4. ASSUME NEW c \in Calls, CreateRevision(c)
        PROVE  TypeInv'
    <2> DEFINE k == call[c]
               new == [item |-> k.item, version |-> k.version, snapshot |-> k.seen, by |-> c]
    <2>1. k \in Call /\ k.item \in Items /\ k.version \in Nat \ {0}
      BY <1>4 DEF CreateRevision, TypeOK, Call, Numbered
    <2>2. UNCHANGED <<status, transitions, expired, todo>> /\ revisions' = revisions \cup {new}
      BY <1>4 DEF CreateRevision
    <2>3. new \in Revision
      BY <2>1 DEF Revision, Call
    <2>4. TypeOK'
      BY <1>2, <1>4, <2>2, <2>3 DEF TypeOK
    <2>5. HasLatest'
      <3> SUFFICES ASSUME NEW i \in Items
                   PROVE  \E v \in Versions(i)' \cup {0} : \A w \in Versions(i)' \cup {0} : v >= w
        BY DEF HasLatest
      <3>1. PICK v \in Versions(i) \cup {0} : \A w \in Versions(i) \cup {0} : v >= w
        BY DEF HasLatest
      <3>2. v \in Nat /\ Versions(i) \subseteq Nat
        BY VersionsType
      <3>3. \/ Versions(i)' = Versions(i)
            \/ Versions(i)' = Versions(i) \cup {k.version}
        BY <1>4, OneMore
      <3>4. CASE k.version >= v
        BY <2>1, <3>1, <3>2, <3>3, <3>4
      <3>5. CASE v >= k.version
        BY <2>1, <3>1, <3>2, <3>3, <3>5
      <3> QED BY <2>1, <3>2, <3>4, <3>5
    <2> QED BY <1>2, <1>4, <2>4, <2>5
  <1>5. ASSUME NEW c \in Calls, CreateTransition(c)
        PROVE  TypeInv'
    <2> DEFINE k == call[c]
               new == [item |-> k.item, from |-> k.seen, to |-> k.to, by |-> c]
    <2>1. k \in Call /\ k.item \in Items
      BY <1>5 DEF CreateTransition, TypeOK
    <2>2. /\ UNCHANGED <<status, revisions, expired, todo>>
          /\ transitions' = transitions \cup {new}
      BY <1>5 DEF CreateTransition, FromStatus
    <2>3. new \in [item : Items, from : Statuses, to : Statuses, by : Calls]
      BY <2>1 DEF Call
    <2>4. TypeOK'
      BY <1>2, <1>5, <2>2, <2>3 DEF TypeOK
    <2> QED BY <1>2, <1>5, <2>2, <2>4 DEF HasLatest, Versions
  <1>6. ASSUME NEW c \in Calls, UpdateStatus(c)
        PROVE  TypeInv'
    <2>1. call[c].to \in Statuses
      BY DEF TypeOK, Call
    <2>2. /\ UNCHANGED <<revisions, transitions, expired, todo>>
          /\ status' = [status EXCEPT ![call[c].item] = call[c].to]
      BY <1>6 DEF UpdateStatus
    <2>3. TypeOK'
      BY <1>2, <1>6, <2>1, <2>2 DEF TypeOK
    <2> QED BY <1>2, <1>6, <2>2, <2>3 DEF HasLatest, Versions
  <1>7. CASE /\ UNCHANGED <<revisions, transitions, call>>
             /\ \/ UNCHANGED <<status, expired, todo>>
                \/ \E i \in Items : Expire(i) \/ CronArchive(i)
                \/ CronFind
                \/ \E left \in SUBSET todo : CronFail(left)
    <2>1. TypeOK'
      BY <1>7 DEF Expire, CronArchive, CronFind, CronFail, Due, TypeOK, Statuses
    <2> QED BY <1>7, <2>1 DEF HasLatest, Versions, Numbered
  <1> QED BY <1>1, <1>3, <1>4, <1>5, <1>6, <1>7, Steps

(* TypeOK holds in every reachable state, whatever the calls do. *)
THEOREM TypeCorrect == Spec => []TypeOK
  BY TypeInit, TypeNext, PTL DEF Spec, TypeInv
-----------------------------------------------------------------------------
(* Only CreateRevision touches the revisions. *)
LEMMA RevisionsStep ==
  ASSUME [Next]_vars
  PROVE  UNCHANGED revisions \/ \E c \in Calls : CreateRevision(c)
  BY Steps DEF ReadItem, ReadLatest, CreateTransition, UpdateStatus, RevisionConflict, Fail

LEMMA VersionsGrow ==
  ASSUME [Next]_vars, NEW i
  PROVE  Versions(i) \subseteq Versions(i)'
  <1>1. CASE UNCHANGED revisions
    BY <1>1 DEF Versions
  <1>2. CASE \E c \in Calls : CreateRevision(c)
    BY <1>2, OneMore
  <1> QED BY <1>1, <1>2, RevisionsStep

(* What a call is about after a step: the same as before, unless it has     *)
(* just read an item, or taken a number.                                    *)
LEMMA CallChange ==
  ASSUME TypeInv, [Next]_vars, NEW c \in Calls
  PROVE  \/ call'[c] = call[c]
         \/ call'[c].pc \in {"read", "done"}
         \/ /\ call'[c].item = call[c].item /\ call'[c].to = call[c].to
            /\ call'[c].seen = call[c].seen
            /\ \/ /\ ReadLatest(c) /\ call'[c].pc = "revise"
                  /\ call[c].item \in Items
                  /\ call'[c].version = LatestVersion(call[c].item) + 1
               \/ CreateRevision(c) /\ call'[c].pc = "record"
               \/ CreateTransition(c) /\ call'[c].pc = "update"
  <1> USE DEF TypeInv
  <1>1. ASSUME NEW d \in Calls, NEW i \in Items, NEW to \in Targets, ReadItem(d, i, to)
        PROVE  call'[c] = call[c] \/ call'[c].pc = "read"
    BY <1>1 DEF ReadItem, TypeOK
  <1>2. ASSUME NEW d \in Calls,
               \/ ReadLatest(d) \/ RevisionConflict(d) \/ Fail(d)
               \/ CreateRevision(d) \/ CreateTransition(d) \/ UpdateStatus(d),
               c # d
        PROVE  call'[c] = call[c]
    <2>1. PICK m \in Call : call' = [call EXCEPT ![d] = m]
      BY <1>2, CallStep
    <2> QED BY <1>2, <2>1 DEF TypeOK
  <1>3. CASE \/ ReadLatest(c) \/ RevisionConflict(c) \/ Fail(c)
             \/ CreateRevision(c) \/ CreateTransition(c) \/ UpdateStatus(c)
    <2>1. PICK m \in Call :
            /\ call' = [call EXCEPT ![c] = m]
            /\ m.item = call[c].item /\ m.item \in Items
            /\ m.to = call[c].to /\ m.seen = call[c].seen
            /\ \/ /\ ReadLatest(c)
                  /\ m.pc = "revise" /\ m.version = LatestVersion(m.item) + 1
               \/ CreateRevision(c) /\ m.pc = "record"
               \/ CreateTransition(c) /\ m.pc = "update"
               \/ m.pc = "done"
      BY <1>3, CallStep
    <2>2. call'[c] = m
      BY <2>1 DEF TypeOK
    <2> QED BY <2>1, <2>2
  <1> QED BY <1>1, <1>2, <1>3, Steps

(* A call about to make a revision holds the number after one that exists:  *)
(* all smaller ones are taken.                                              *)
NumbersBelowTaken ==
  \A c \in Calls : call[c].pc = "revise" =>
    \A v \in Nat \ {0} : v < call[c].version => v \in Versions(call[c].item)

(* VersionsContiguous, without intervals. *)
NoRepetition ==
  \A r, q \in revisions : r.item = q.item /\ r.version = q.version => r = q

NoGap ==
  \A r \in revisions : \A v \in Nat \ {0} : v <= r.version => v \in Versions(r.item)

LEMMA NumbersNext ==
  TypeInv /\ NoGap /\ NumbersBelowTaken /\ [Next]_vars => NumbersBelowTaken'
  <1> SUFFICES ASSUME TypeInv, NoGap, NumbersBelowTaken, [Next]_vars,
                      NEW c \in Calls, call'[c].pc = "revise",
                      NEW v \in Nat \ {0}, v < call'[c].version,
                      NEW i, i = call'[c].item
               PROVE  v \in Versions(i)'
    BY DEF NumbersBelowTaken, Versions
  <1>1. CASE call'[c] = call[c]
    <2>1. v \in Versions(i)
      BY <1>1 DEF NumbersBelowTaken
    <2> QED BY <2>1, VersionsGrow
  <1>2. CASE /\ call'[c].item = call[c].item /\ call[c].item \in Items
             /\ call'[c].version = LatestVersion(call[c].item) + 1
    <2>1. LatestVersion(i) \in Nat /\ LatestVersion(i) \in Versions(i) \cup {0}
      BY <1>2, Latest
    <2>2. call'[c].version = LatestVersion(i) + 1
      BY <1>2
    <2>3. v <= LatestVersion(i)
      BY <2>1, <2>2
    <2>4. LatestVersion(i) \in Versions(i)
      BY <2>1, <2>3
    <2>5. PICK r \in revisions : r.item = i /\ r.version = LatestVersion(i)
      BY <2>4, VersionsOf
    <2>6. v \in Versions(i)
      BY <2>3, <2>5 DEF NoGap
    <2> QED BY <2>6, VersionsGrow
  <1> QED BY <1>1, <1>2, CallChange

LEMMA ContiguousNext ==
  TypeInv /\ NoRepetition /\ NoGap /\ NumbersBelowTaken /\ [Next]_vars
    => NoRepetition' /\ NoGap'
  <1> SUFFICES ASSUME TypeInv, NoRepetition, NoGap, NumbersBelowTaken, [Next]_vars
               PROVE  NoRepetition' /\ NoGap'
    OBVIOUS
  <1>1. CASE UNCHANGED revisions
    BY <1>1 DEF NoRepetition, NoGap, Versions
  <1>2. ASSUME NEW c \in Calls, CreateRevision(c)
        PROVE  NoRepetition' /\ NoGap'
    <2> DEFINE k == call[c]
               new == [item |-> k.item, version |-> k.version, snapshot |-> k.seen, by |-> c]
    <2>1. /\ revisions' = revisions \cup {new} /\ k.pc = "revise"
          /\ k.version \notin Versions(k.item)
      BY <1>2 DEF CreateRevision, Taken
    <2>2. new.item = k.item /\ new.version = k.version
      OBVIOUS
    <2>3. k.version \in Nat
      BY DEF TypeInv, TypeOK, Call
    <2>4. \A q \in revisions : q.item = new.item => q.version # new.version
      BY <2>1, <2>2, VersionsOf
    <2>5. NoRepetition'
      <3> HIDE DEF new
      <3> QED BY <2>1, <2>4 DEF NoRepetition
    <2>6. NoGap'
      <3> SUFFICES ASSUME NEW r \in revisions', NEW v \in Nat \ {0}, v <= r.version
                   PROVE  v \in Versions(r.item)'
        BY DEF NoGap
      <3>1. CASE r \in revisions
        BY <3>1, VersionsGrow DEF NoGap
      <3>2. CASE r = new
        <4>1. r.item = k.item /\ r.version = k.version
          BY <3>2
        <4>2. v < k.version \/ v = k.version
          BY <2>3, <4>1
        <4>3. v < k.version => v \in Versions(r.item)
          BY <2>1, <4>1 DEF NumbersBelowTaken
        <4>4. Versions(r.item)' = Versions(r.item) \cup {k.version}
          BY <1>2, <4>1, OneMore
        <4> QED BY <4>2, <4>3, <4>4
      <3> QED BY <2>1, <3>1, <3>2
    <2> QED BY <2>5, <2>6
  <1> QED BY <1>1, <1>2, RevisionsStep

(* What keeps the numbers in order, whatever calls do. *)
Contiguous == TypeInv /\ NoRepetition /\ NoGap /\ NumbersBelowTaken

LEMMA ContiguousInit == Init => Contiguous
  BY TypeInit DEF Init, Contiguous, NoRepetition, NoGap, NumbersBelowTaken

LEMMA ContiguousStep == Contiguous /\ [Next]_vars => Contiguous'
  BY TypeNext, NumbersNext, ContiguousNext DEF Contiguous

(* The versions of every item are 1 to n, each once, for any number of      *)
(* items and of calls racing for them.                                      *)
THEOREM VersionsAreContiguous == Spec => []VersionsContiguous
  <1>1. Contiguous => VersionsContiguous
    <2> SUFFICES ASSUME Contiguous PROVE VersionsContiguous
      OBVIOUS
    <2>1. \A r \in revisions : 1..r.version \subseteq Versions(r.item)
      BY DEF Contiguous, NoGap, TypeInv, TypeOK, Revision
    <2> QED BY <2>1 DEF VersionsContiguous, Contiguous, NoRepetition
  <1> QED BY <1>1, ContiguousInit, ContiguousStep, PTL DEF Spec

-----------------------------------------------------------------------------
(* A call that records a transition, or is past that, has made a revision   *)
(* of what it read; one that updates the item has recorded a transition.    *)
Revised(c) ==
  \E r \in revisions : r.by = c /\ r.item = call[c].item /\ r.snapshot = call[c].seen

Recorded(c) ==
  \E t \in transitions : t.by = c /\ t.item = call[c].item /\ t.to = call[c].to

TraceInv ==
  /\ \A c \in Calls :
       /\ call[c].pc = "record" => Revised(c)
       /\ call[c].pc = "update" => Recorded(c)
  /\ TransitionHasRevision

LEMMA HistoryGrows ==
  ASSUME [Next]_vars
  PROVE  revisions \subseteq revisions' /\ transitions \subseteq transitions'
  BY Steps DEF ReadItem, ReadLatest, CreateRevision, CreateTransition, UpdateStatus,
               RevisionConflict, Fail

LEMMA TransitionsStep ==
  ASSUME [Next]_vars
  PROVE  UNCHANGED transitions \/ \E c \in Calls : CreateTransition(c)
  BY Steps DEF ReadItem, ReadLatest, CreateRevision, UpdateStatus, RevisionConflict, Fail

LEMMA TraceNext == TypeInv /\ TraceInv /\ [Next]_vars => TraceInv'
  <1> SUFFICES ASSUME TypeInv, TraceInv, [Next]_vars PROVE TraceInv'
    OBVIOUS
  <1>1. ASSUME NEW c \in Calls, CreateRevision(c),
               call'[c].item = call[c].item, call'[c].seen = call[c].seen
        PROVE  Revised(c)'
    <2> DEFINE new == [item |-> call[c].item, version |-> call[c].version,
                       snapshot |-> call[c].seen, by |-> c]
    <2>1. new \in revisions'
      BY <1>1 DEF CreateRevision
    <2> QED BY <1>1, <2>1 DEF Revised
  <1>2. ASSUME NEW c \in Calls, CreateTransition(c),
               call'[c].item = call[c].item, call'[c].to = call[c].to
        PROVE  Recorded(c)'
    <2> DEFINE new == [item |-> call[c].item, from |-> call[c].seen, to |-> call[c].to,
                       by |-> c]
    <2>1. new \in transitions'
      BY <1>2 DEF CreateTransition, FromStatus
    <2> QED BY <1>2, <2>1 DEF Recorded
  <1>3. ASSUME NEW c \in Calls, call'[c].pc = "record"
        PROVE  Revised(c)'
    <2>1. CASE call'[c] = call[c]
      <3>1. Revised(c)
        BY <1>3, <2>1 DEF TraceInv, Revised
      <3> QED BY <2>1, <3>1, HistoryGrows DEF Revised
    <2> QED BY <1>1, <1>3, <2>1, CallChange
  <1>4. ASSUME NEW c \in Calls, call'[c].pc = "update"
        PROVE  Recorded(c)'
    <2>1. CASE call'[c] = call[c]
      <3>1. Recorded(c)
        BY <1>4, <2>1 DEF TraceInv, Recorded
      <3> QED BY <2>1, <3>1, HistoryGrows DEF Recorded
    <2> QED BY <1>2, <1>4, <2>1, CallChange
  <1>5. TransitionHasRevision'
    <2> SUFFICES ASSUME NEW t \in transitions'
                 PROVE  \E r \in revisions' :
                          r.by = t.by /\ r.item = t.item /\ r.snapshot = t.from
      BY DEF TransitionHasRevision
    <2>1. CASE t \in transitions
      BY <2>1, HistoryGrows DEF TraceInv, TransitionHasRevision
    <2>2. ASSUME NEW c \in Calls, CreateTransition(c), t \notin transitions
          PROVE  \E r \in revisions : r.by = t.by /\ r.item = t.item /\ r.snapshot = t.from
      <3>1. t.by = c /\ t.item = call[c].item /\ t.from = call[c].seen
        BY <2>2 DEF CreateTransition, FromStatus
      <3>2. Revised(c)
        BY <2>2 DEF CreateTransition, TraceInv, Revised
      <3>3. PICK r \in revisions : /\ r.by = c /\ r.item = call[c].item
                                   /\ r.snapshot = call[c].seen
        BY <3>2 DEF Revised
      <3> QED BY <3>1, <3>3
    <2> QED BY <2>1, <2>2, TransitionsStep, HistoryGrows
  <1> QED BY <1>3, <1>4, <1>5 DEF TraceInv

LEMMA TraceInit == Init => TraceInv
  BY DEF Init, TraceInv, TransitionHasRevision

(* No transition row without a revision of the state it left. *)
THEOREM TransitionsHaveRevisions == Spec => []TransitionHasRevision
  BY TypeInit, TypeNext, TraceInit, TraceNext, PTL DEF Spec, TraceInv

(* No status changes unless a row, or the retention cron, explains it. *)
THEOREM ChangesExplained == Spec => ChangesAreExplained
  <1>1. TypeInv /\ TraceInv /\ [Next]_vars =>
          [\A i \in Items : status'[i] # status[i] =>
             \/ \E t \in transitions :
                  t.item = i /\ t.to = status'[i] /\ call[t.by].pc = "update"
             \/ i \in expired /\ status'[i] = "ARCHIVED"]_vars
    <2> SUFFICES ASSUME TypeInv, TraceInv, [Next]_vars, NEW i \in Items,
                        status'[i] # status[i]
                 PROVE  \/ \E t \in transitions :
                             t.item = i /\ t.to = status'[i] /\ call[t.by].pc = "update"
                        \/ i \in expired /\ status'[i] = "ARCHIVED"
      OBVIOUS
    <2>1. ASSUME NEW c \in Calls, UpdateStatus(c)
          PROVE  \E t \in transitions :
                   t.item = i /\ t.to = status'[i] /\ call[t.by].pc = "update"
      <3>1. call[c].item = i /\ status'[i] = call[c].to /\ call[c].pc = "update"
        BY <2>1 DEF UpdateStatus, TypeInv, TypeOK
      <3>2. Recorded(c)
        BY <3>1 DEF TraceInv, Recorded
      <3> QED BY <3>1, <3>2 DEF Recorded
    <2>2. ASSUME NEW j \in Items, CronArchive(j)
          PROVE  i \in expired /\ status'[i] = "ARCHIVED"
      BY <2>2 DEF CronArchive, TypeInv, TypeOK
    <2>3. \/ \E c \in Calls : UpdateStatus(c)
          \/ \E j \in Items : CronArchive(j)
      BY Steps DEF ReadItem, ReadLatest, CreateRevision, CreateTransition,
                   RevisionConflict, Fail, Expire, CronFind, CronFail
    <2> QED BY <2>1, <2>2, <2>3
  <1> QED BY <1>1, TypeInit, TypeNext, TraceInit, TraceNext, PTL
          DEF Spec, ChangesAreExplained

-----------------------------------------------------------------------------
(* The numbers of an item are an interval, so there are as many as the      *)
(* latest says.                                                             *)
LEMMA VersionsInterval ==
  ASSUME Contiguous, NEW i \in Items
  PROVE  /\ LatestVersion(i) \in Nat
         /\ Versions(i) = 1..LatestVersion(i)
         /\ Cardinality(Versions(i)) = LatestVersion(i)
  <1> DEFINE n == LatestVersion(i)
  <1>1. n \in Nat /\ n \in Versions(i) \cup {0} /\ \A w \in Versions(i) : n >= w
    BY Latest DEF Contiguous
  <1>2. Versions(i) \subseteq Nat \ {0}
    BY VersionsType DEF Contiguous, TypeInv
  <1>3. ASSUME NEW v \in 1..n PROVE v \in Versions(i)
    <2>1. n \in Versions(i) /\ v \in Nat \ {0} /\ v <= n
      BY <1>1, <1>3
    <2>2. PICK r \in revisions : r.item = i /\ r.version = n
      BY <2>1, VersionsOf
    <2> QED BY <2>1, <2>2 DEF Contiguous, NoGap
  <1> HIDE DEF n
  <1>4. Versions(i) = 1..n
    <2>1. \A v \in Versions(i) : v \in 1..n
      BY <1>1, <1>2
    <2> QED BY <1>3, <2>1
  <1>5. Cardinality(1..n) = n
    BY <1>1, FS_Interval
  <1> QED BY <1>1, <1>4, <1>5 DEF n

(* The snapshot that a number stands for is that of the one revision with it.*)
LEMMA SnapshotIs ==
  ASSUME NoRepetition, NEW r \in revisions
  PROVE  SnapshotOf(r.item, r.version) = r.snapshot
  BY DEF NoRepetition, SnapshotOf

LEMMA LogType ==
  ASSUME Contiguous, NEW i \in Items
  PROVE  LogOf(i) \in Seq(Statuses) /\ Len(LogOf(i)) = LatestVersion(i)
  <1> DEFINE n == LatestVersion(i)
  <1>1. n \in Nat /\ Cardinality(Versions(i)) = n /\ Versions(i) = 1..n
    BY VersionsInterval
  <1>2. ASSUME NEW v \in 1..n PROVE SnapshotOf(i, v) \in Statuses
    <2>1. PICK r \in revisions : r.item = i /\ r.version = v
      BY <1>1, <1>2, VersionsOf
    <2> QED BY <2>1, SnapshotIs DEF Contiguous, TypeInv, TypeOK, Revision
  <1> HIDE DEF n
  <1>3. LogOf(i) \in [1..n -> Statuses]
    BY <1>1, <1>2 DEF LogOf
  <1> QED BY <1>1, <1>3 DEF n

(* A log is what it was unless a revision of its item is made ... *)
LEMMA LogKept ==
  ASSUME Contiguous, [Next]_vars, NEW i \in Items, Versions(i)' = Versions(i)
  PROVE  LogOf(i)' = LogOf(i)
  <1>1. ASSUME NEW v \in Versions(i) PROVE SnapshotOf(i, v)' = SnapshotOf(i, v)
    <2>1. PICK r \in revisions : r.item = i /\ r.version = v
      BY <1>1, VersionsOf
    <2>2. r \in revisions'
      BY <2>1, HistoryGrows
    <2>3. SnapshotOf(i, v) = r.snapshot
      BY <2>1, SnapshotIs DEF Contiguous
    <2>4. SnapshotOf(i, v)' = r.snapshot
      BY <2>1, <2>2, ContiguousStep DEF Contiguous, NoRepetition, SnapshotOf
    <2> QED BY <2>3, <2>4
  <1>2. Versions(i) = 1..Cardinality(Versions(i))
    BY VersionsInterval
  <1> QED BY <1>1, <1>2 DEF LogOf

(* ... and then the number taken is the one after the last: what the call   *)
(* has seen is put at the end.                                              *)
LEMMA LogGrows ==
  ASSUME Contiguous, [Next]_vars, NEW c \in Calls, CreateRevision(c),
         NEW i \in Items, i = call[c].item
  PROVE  LogOf(i)' = Append(LogOf(i), call[c].seen)
  <1> DEFINE new == [item |-> i, version |-> call[c].version, snapshot |-> call[c].seen, by |-> c]
  <1>1. /\ call[c].seen \in Statuses /\ call[c].version \in Nat \ {0}
        /\ revisions' = revisions \cup {new} /\ call[c].pc = "revise"
        /\ call[c].version \notin Versions(i)
    BY DEF CreateRevision, Taken, Contiguous, TypeInv, TypeOK, Call, Numbered
  <1>2. PICK n \in Nat :
          n = LatestVersion(i) /\ Cardinality(Versions(i)) = n /\ Versions(i) = 1..n
    BY VersionsInterval
  <1>3. call[c].version = n + 1
    <2>1. call[c].version > n
      BY <1>1, <1>2
    <2>2. n + 1 < call[c].version => n + 1 \in Versions(i)
      BY <1>1, <1>2 DEF Contiguous, NumbersBelowTaken
    <2> QED BY <1>1, <1>2, <2>1, <2>2
  <1>4. Versions(i)' = 1..(n+1)
    <2>1. Versions(i)' = Versions(i) \cup {call[c].version}
      BY OneMore
    <2> QED BY <1>2, <1>3, <2>1
  <1>5. Cardinality(Versions(i)') = n + 1
    <2>1. Cardinality(1..(n+1)) = n + 1
      BY <1>2, FS_Interval
    <2> QED BY <1>4, <2>1
  <1>6. ASSUME NEW r \in revisions' PROVE SnapshotOf(r.item, r.version)' = r.snapshot
    BY <1>6, ContiguousStep DEF Contiguous, NoRepetition, SnapshotOf
  <1>7. SnapshotOf(i, n+1)' = call[c].seen
    <2>1. PICK r \in revisions' : r.item = i /\ r.version = n + 1 /\ r.snapshot = call[c].seen
      <3>1. new.item = i /\ new.version = n + 1 /\ new.snapshot = call[c].seen
        BY <1>3
      <3> HIDE DEF new
      <3> QED BY <1>1, <3>1
    <2> QED BY <1>6, <2>1
  <1>8. ASSUME NEW v \in 1..n PROVE SnapshotOf(i, v)' = SnapshotOf(i, v)
    <2>1. PICK r \in revisions : r.item = i /\ r.version = v
      BY <1>2, <1>8, VersionsOf
    <2>2. r \in revisions'
      BY <1>1, <2>1
    <2>3. SnapshotOf(i, v)' = r.snapshot
      BY <1>6, <2>1, <2>2
    <2> QED BY <2>1, <2>3, SnapshotIs DEF Contiguous
  <1>9. LogOf(i) \in Seq(Statuses) /\ Len(LogOf(i)) = n
    BY <1>2, LogType
  <1>10. LogOf(i)' = [v \in 1..(n+1) |-> IF v = n + 1 THEN call[c].seen ELSE LogOf(i)[v]]
    <2>1. LogOf(i)' = [v \in 1..(n+1) |-> SnapshotOf(i, v)']
      BY <1>5 DEF LogOf
    <2>2. \A v \in 1..n : LogOf(i)[v] = SnapshotOf(i, v)
      BY <1>2 DEF LogOf
    <2> QED BY <1>2, <1>7, <1>8, <2>1, <2>2
  <1> HIDE DEF new
  <1> QED BY <1>1, <1>2, <1>9, <1>10

(* Every step adds to one log, or leaves all as they are. *)
LEMMA LogStep == Contiguous /\ [Next]_vars => [Log!Next]_History
  <1> SUFFICES ASSUME Contiguous, [Next]_vars PROVE Log!Next \/ History' = History
    OBVIOUS
  <1>1. CASE UNCHANGED revisions
    <2>1. \A i \in Items : LogOf(i)' = LogOf(i)
      BY <1>1, LogKept DEF Versions
    <2> QED BY <2>1 DEF History
  <1>2. ASSUME NEW c \in Calls, CreateRevision(c) PROVE Log!Next
    <2>1. PICK i \in Items, s \in Statuses : i = call[c].item /\ s = call[c].seen
      BY <1>2 DEF CreateRevision, Contiguous, TypeInv, TypeOK, Call
    <2>2. \A j \in Items : j # i => LogOf(j)' = LogOf(j)
      BY <1>2, <2>1, LogKept, OneMore
    <2>3. LogOf(i)' = Append(LogOf(i), s)
      BY <1>2, <2>1, LogGrows
    <2>4. History' = [History EXCEPT ![i] = Append(@, s)]
      BY <2>2, <2>3 DEF History
    <2>5. Log!Add(i, s)
      BY <2>4 DEF Log!Add
    <2> QED BY <2>5 DEF Log!Next
  <1> QED BY <1>1, <1>2, RevisionsStep

LEMMA LogInit == Init => Log!Init
  <1> SUFFICES ASSUME Init PROVE Log!Init
    OBVIOUS
  <1>1. \A i \in Items : Cardinality(Versions(i)) = 0
    BY FS_EmptySet DEF Init, Versions
  <1>2. \A i \in Items : LogOf(i) = <<>>
    BY <1>1 DEF LogOf
  <1> QED BY <1>2 DEF Log!Init, History

(* For any number of items and of racing calls, some of which lose their    *)
(* number or die half way, the history of each item is a log to which       *)
(* snapshots are only ever appended (transitionLifecycle).                  *)
THEOREM RefinesRevisionLog == Spec => ImplementsRevisionLog
  BY LogInit, LogStep, ContiguousInit, ContiguousStep, PTL
  DEF Spec, ImplementsRevisionLog, Log!Spec
=============================================================================
