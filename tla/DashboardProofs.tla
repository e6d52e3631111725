--------------------------- MODULE DashboardProofs ---------------------------
(***************************************************************************)
(* What the dashboard keeps for any number of tenants, visitors, figures   *)
(* and writes: types, and snapshots whose figures were each the tenant's   *)
(* own at some moment of their computation.                                *)
(***************************************************************************)
EXTENDS Dashboard, TLAPS

(* The sum over one tenant is that tenant's count. *)
LEMMA SumOfOne ==
  ASSUME NEW t, NEW f, table[t][f] \in Nat
  PROVE  MapThenSumSet(LAMBDA o : table[o][f], {t}) = table[t][f]
  <1> DEFINE x(s) == CHOOSE y \in s : TRUE
             step(g) == [s \in SUBSET {t} |->
                           IF s = {} THEN 0 ELSE table[x(s)][f] + g[s \ {x(s)}]]
             sum == CHOOSE g : g = step(g)
             some == [s \in SUBSET {t} |-> IF s = {} THEN 0 ELSE table[t][f]]
  <1>1. \A s \in SUBSET {t} : s = {} \/ (s = {t} /\ x(s) = t)
    OBVIOUS
  <1>2. some = step(some)
    BY <1>1
  <1>3. sum = step(sum)
    BY <1>2
  <1>4. sum[{}] = 0 /\ sum[{t}] = table[t][f] + sum[{t} \ {t}]
    <2> HIDE DEF sum
    <2>1. {} \in SUBSET {t} /\ {t} \in SUBSET {t} /\ {t} # {} /\ x({t}) = t
      BY <1>1
    <2> QED BY <1>3, <2>1
  <1>5. sum[{t}] = table[t][f]
    <2>1. {t} \ {t} = {}
      OBVIOUS
    <2> HIDE DEF sum
    <2> QED BY <1>4, <2>1
  <1>6. MapThenSumSet(LAMBDA o : table[o][f], {t}) = sum[{t}]
    BY DEF MapThenSumSet, MapThenFoldSet
  <1> QED BY <1>5, <1>6

(* Every figure of a tenant counts its own rows and no other's: all that    *)
(* computeForTenant asks are read operations on scoped models.              *)
THEOREM FiguresScoped ==
  ASSUME TypeOK, NEW t \in Tenants, NEW f \in Figures
  PROVE  Counted(t, f) = table[t][f]
  <1>1. table[t][f] \in Nat
    BY DashboardAssumption DEF TypeOK
  <1>2. Source[f][1] \in ScopedModels /\ Source[f][2] \in ReadOps
    BY DashboardAssumption DEF Source, ScopedModels, ReadOps
  <1>3. {o \in Tenants : Reaches(Source[f][1], Source[f][2], t, o)} = {t}
    BY <1>2 DEF Reaches
  <1> QED BY <1>1, <1>3, SumOfOne DEF Counted

-----------------------------------------------------------------------------
(* latest has a value for each tenant and no other.                         *)
TypeInv == TypeOK /\ latest \in [Tenants -> {None} \cup [Figures -> Nat]]

(* What a running computation has been told, and what it would be told now, *)
(* were counts of its tenant since it began.                                *)
Answered(k) ==
  \A f \in Figures : /\ table[k.tenant][f] \in k.past[f]
                     /\ k.got[f] # None => k.got[f] \in k.past[f]

Answers == \A c \in Computers : Running(c) => Answered(comp[c])

DashboardInv == TypeInv /\ Answers

LEMMA IdleType == Idle \in Computation /\ Idle.tenant = None
  BY DEF Idle, Computation

LEMMA BegunType ==
  ASSUME TypeOK, NEW t \in Tenants
  PROVE  Begun(t) \in Computation /\ Begun(t).tenant = t /\ Answered(Begun(t))
  <1>1. \A f \in Figures : {table[t][f]} \in SUBSET (0..MaxCount)
    BY DEF TypeOK
  <1> QED BY <1>1 DEF Begun, Idle, Computation, Answered

LEMMA DashboardInit == Init => DashboardInv
  <1> SUFFICES ASSUME Init PROVE DashboardInv
    OBVIOUS
  <1>1. TypeInv
    BY DashboardAssumption, IdleType DEF Init, TypeInv, TypeOK, Computers
  <1>2. Answers
    BY IdleType DEF Init, Answers, Running
  <1> QED BY <1>1, <1>2 DEF DashboardInv

(* A computation that begins, ends or takes an answer is the only one to    *)
(* change.                                                                  *)
LEMMA OneChanges ==
  ASSUME DashboardInv, UNCHANGED table,
         NEW c \in Computers, NEW k \in Computation,
         comp' = [comp EXCEPT ![c] = k],
         k.tenant # None => Answered(k)
  PROVE  comp' \in [Computers -> Computation] /\ comp'[c] = k /\ Answers'
  BY DEF DashboardInv, TypeInv, TypeOK, Answers, Answered, Running

LEMMA WriteStep ==
  ASSUME DashboardInv, NEW t \in Tenants, NEW counts \in [Figures -> 0..MaxCount],
         Write(t, counts)
  PROVE  DashboardInv'
  <1> DEFINE more(k) == [k EXCEPT !.past = [f \in Figures |-> @[f] \cup {counts[f]}]]
  <1>1. /\ comp' = [c \in Computers |-> IF comp[c].tenant # t THEN comp[c] ELSE more(comp[c])]
        /\ table' = [table EXCEPT ![t] = counts]
        /\ writes < MaxWrites /\ writes' = writes + 1
        /\ UNCHANGED <<latest, todo, failures>>
    BY DEF Write
  <1>2. ASSUME NEW k \in Computation
        PROVE  /\ more(k) \in Computation
               /\ more(k).tenant = k.tenant /\ more(k).got = k.got
               /\ \A f \in Figures : more(k).past[f] = k.past[f] \cup {counts[f]}
    BY <1>2 DEF Computation
  <1> HIDE DEF more
  <1>3. /\ comp' \in [Computers -> Computation]
        /\ \A c \in Computers : comp'[c].tenant = comp[c].tenant
    BY <1>1, <1>2 DEF DashboardInv, TypeInv, TypeOK
  <1>4. TypeInv'
    <2>1. table' \in [Tenants -> [Figures -> 0..MaxCount]]
      BY <1>1 DEF DashboardInv, TypeInv, TypeOK
    <2>2. comp'["cron"].tenant \notin todo'
      BY <1>1, <1>3 DEF DashboardInv, TypeInv, TypeOK, Computers
    <2>3. writes' \in 0..MaxWrites
      BY <1>1, DashboardAssumption DEF DashboardInv, TypeInv, TypeOK
    <2> QED BY <1>1, <1>3, <2>1, <2>2, <2>3 DEF DashboardInv, TypeInv, TypeOK
  <1>5. Answers'
    <2> SUFFICES ASSUME NEW c \in Computers, Running(c), NEW f \in Figures
                 PROVE  /\ table'[comp'[c].tenant][f] \in comp'[c].past[f]
                        /\ comp'[c].got[f] # None => comp'[c].got[f] \in comp'[c].past[f]
      BY <1>3 DEF Answers, Answered, Running
    <2>1. /\ comp[c] \in Computation
          /\ table[comp[c].tenant][f] \in comp[c].past[f]
          /\ comp[c].got[f] # None => comp[c].got[f] \in comp[c].past[f]
      BY DEF DashboardInv, TypeInv, TypeOK, Answers, Answered
    <2>2. CASE comp[c].tenant # t
      BY <1>1, <2>1, <2>2
    <2>3. CASE comp[c].tenant = t
      BY <1>1, <1>2, <2>1, <2>3 DEF DashboardInv, TypeInv, TypeOK
    <2> QED BY <2>2, <2>3
  <1> QED BY <1>4, <1>5 DEF DashboardInv

LEMMA BeginStep ==
  ASSUME DashboardInv,
         \/ \E v \in Visitors, t \in Tenants : Open(v, t)
         \/ \E t \in Tenants : CronNext(t)
  PROVE  DashboardInv'
  <1>1. ASSUME NEW v \in Visitors, NEW t \in Tenants, Open(v, t)
        PROVE  DashboardInv'
    <2>1. /\ comp' = [comp EXCEPT ![v] = Begun(t)] /\ v \in Computers
          /\ UNCHANGED <<table, latest, todo, writes, failures>>
      BY <1>1 DEF Open, Computers
    <2>2. comp' \in [Computers -> Computation] /\ Answers'
      BY <2>1, BegunType, OneChanges DEF DashboardInv, TypeInv
    <2>3. comp'["cron"] = comp["cron"]
      BY <2>1, DashboardAssumption DEF DashboardInv, TypeInv, TypeOK, Computers
    <2> QED BY <2>1, <2>2, <2>3 DEF DashboardInv, TypeInv, TypeOK
  <1>2. ASSUME NEW t \in Tenants, CronNext(t)
        PROVE  DashboardInv'
    <2>1. /\ comp' = [comp EXCEPT !["cron"] = Begun(t)] /\ "cron" \in Computers
          /\ todo' = todo \ {t}
          /\ UNCHANGED <<table, latest, writes, failures>>
      BY <1>2 DEF CronNext, Rest, Computers
    <2>2. /\ comp' \in [Computers -> Computation] /\ Answers'
          /\ comp'["cron"].tenant = t
      BY <2>1, BegunType, OneChanges DEF DashboardInv, TypeInv
    <2> QED BY <2>1, <2>2 DEF DashboardInv, TypeInv, TypeOK
  <1> QED BY <1>1, <1>2

LEMMA QueryStep ==
  ASSUME DashboardInv, NEW c \in Computers, NEW f \in Figures, Query(c, f)
  PROVE  DashboardInv'
  <1> DEFINE t == comp[c].tenant
             k == [comp[c] EXCEPT !.got = [@ EXCEPT ![f] = table[t][f]]]
  <1>1. comp[c] \in Computation /\ t \in Tenants /\ Answered(comp[c])
    BY DEF Query, Running, DashboardInv, TypeInv, TypeOK, Answers, Computation
  <1>2. table[t][f] \in Nat /\ Counted(t, f) = table[t][f]
    BY <1>1, DashboardAssumption, FiguresScoped DEF DashboardInv, TypeInv, TypeOK
  <1>3. /\ comp' = [comp EXCEPT ![c] = k]
        /\ UNCHANGED <<table, latest, todo, writes, failures>>
    BY <1>2 DEF Query
  <1>4. /\ k \in Computation /\ k.tenant = comp[c].tenant
        /\ Answered(k)
    BY <1>1, <1>2 DEF Computation, Answered
  <1>5. comp' \in [Computers -> Computation] /\ comp'[c].tenant = comp[c].tenant /\ Answers'
    <2> HIDE DEF k
    <2> QED BY <1>3, <1>4, OneChanges
  <1>6. comp'["cron"].tenant = comp["cron"].tenant
    BY <1>3, <1>5 DEF DashboardInv, TypeInv, TypeOK, Computers
  <1> QED BY <1>3, <1>5, <1>6 DEF DashboardInv, TypeInv, TypeOK

LEMMA EndStep ==
  ASSUME DashboardInv, NEW c \in Computers, Create(c) \/ Fail(c)
  PROVE  DashboardInv'
  <1>1. comp' = [comp EXCEPT ![c] = Idle] /\ UNCHANGED <<table, todo, writes>>
    BY DEF Create, Fail, AfterFailure
  <1>2. comp' \in [Computers -> Computation] /\ comp'[c] = Idle /\ Answers'
    BY <1>1, IdleType, OneChanges
  <1>3. comp'["cron"].tenant \notin todo'
    BY <1>1, <1>2, IdleType, DashboardAssumption DEF DashboardInv, TypeInv, TypeOK, Computers
  <1>4. latest' \in [Tenants -> {None} \cup [Figures -> Nat]]
    <2>1. CASE Create(c)
      <3>1. comp[c].got \in [Figures -> Nat]
        BY <2>1 DEF Create, DashboardInv, TypeInv, TypeOK, Computation
      <3> QED BY <2>1, <3>1 DEF Create, DashboardInv, TypeInv
    <2>2. CASE Fail(c)
      BY <2>2 DEF Fail, DashboardInv, TypeInv
    <2> QED BY <2>1, <2>2
  <1>5. failures' \in 0..MaxFailures
    BY DashboardAssumption DEF Create, Fail, DashboardInv, TypeInv, TypeOK
  <1> QED BY <1>1, <1>2, <1>3, <1>4, <1>5 DEF DashboardInv, TypeInv, TypeOK

LEMMA OtherStep ==
  ASSUME DashboardInv, CronStart \/ Crash \/ UNCHANGED vars
  PROVE  DashboardInv'
  <1>1. CASE CronStart
    BY <1>1, DashboardAssumption
    DEF CronStart, Running, DashboardInv, TypeInv, TypeOK, Answers, Answered
  <1>2. CASE Crash
    BY <1>2, DashboardAssumption, IdleType
    DEF Crash, DashboardInv, TypeInv, TypeOK, Answers, Running, Computers
  <1>3. CASE UNCHANGED vars
    BY <1>3 DEF vars, Running, DashboardInv, TypeInv, TypeOK, Answers, Answered
  <1> QED BY <1>1, <1>2, <1>3

LEMMA DashboardStep == DashboardInv /\ [Next]_vars => DashboardInv'
  <1> SUFFICES ASSUME DashboardInv, [Next]_vars PROVE DashboardInv'
    OBVIOUS
  <1> QED
    BY WriteStep, BeginStep, QueryStep, EndStep, OtherStep
    DEF Next, Cron, Compute, Computers

LEMMA DashboardHolds == Spec => []DashboardInv
  BY DashboardInit, DashboardStep, PTL DEF Spec

(* Counts, snapshots, the cron's list and every computation keep their      *)
(* types, whatever is written, fails or dies meanwhile; a tenant that is    *)
(* being computed is off the cron's list.                                   *)
THEOREM TypeCorrect == Spec => []TypeOK
  <1>1. DashboardInv => TypeOK
    BY DEF DashboardInv, TypeInv
  <1> QED BY <1>1, DashboardHolds, PTL

(* Each figure of a snapshot was that tenant's at some moment of the        *)
(* computation that stored it, for any number of computations and writes    *)
(* side by side (computeForTenant, latestOrCompute, refreshAllTenants).     *)
THEOREM SnapshotsPlausible == Spec => FiguresPlausible
  <1>1. DashboardInv /\ [Next]_vars =>
          [\A t \in Tenants : latest'[t] # latest[t] =>
             \E c \in Computers : /\ comp[c].tenant = t
                                  /\ \A f \in Figures : latest'[t][f] \in comp[c].past[f]]_vars
    <2> SUFFICES ASSUME DashboardInv, [Next]_vars, NEW t \in Tenants, latest'[t] # latest[t]
                 PROVE  \E c \in Computers :
                          /\ comp[c].tenant = t
                          /\ \A f \in Figures : latest'[t][f] \in comp[c].past[f]
      OBVIOUS
    <2>1. PICK c \in Computers : Create(c)
      BY DEF Next, Cron, Compute, Computers, vars, Write, Open, CronStart, CronNext, Query,
             Fail, Crash
    <2>2. comp[c].tenant = t /\ latest'[t] = comp[c].got
      BY <2>1 DEF Create, DashboardInv, TypeInv
    <2>3. \A f \in Figures : comp[c].got[f] \in comp[c].past[f]
      BY <2>1 DEF Create, DashboardInv, Answers, Answered
    <2> QED BY <2>2, <2>3
  <1> QED BY <1>1, DashboardHolds, PTL DEF Spec, FiguresPlausible
=============================================================================
