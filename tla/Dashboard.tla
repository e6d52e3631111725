------------------------------ MODULE Dashboard ------------------------------
(***************************************************************************)
(* DashboardService: the hourly cron makes a snapshot of every tenant's    *)
(* figures in turn, a visitor has one made if there is none.  The queries  *)
(* of one computation run side by side, with each other, with those of     *)
(* other computations and with writes.                                     *)
(*                                                                         *)
(* All tenants are active, and a run of the cron is over within the hour.  *)
(***************************************************************************)
EXTENDS TenantScoping, Naturals, FiniteSetsExt

CONSTANTS
  Tenants,
  Healthy,      \* the tenants whose computations fail no more than MaxFailures times
  Visitors,     \* calls of latestOrCompute in flight at once
  Figures,      \* the figures that are looked at
  MaxCount,     \* no count is higher
  MaxWrites,    \* so often the counted tables are written
  MaxFailures,  \* so often the process dies, or a healthy tenant's computation fails
  None          \* no tenant, figure or snapshot

(* The scoped operation that each figure comes from. *)
Source == [totalByContentType |-> <<"ContentItem", "groupBy">>,
           pendingAiReview    |-> <<"AiPrediction", "count">>,
           recentAdditions    |-> <<"ContentItem", "findMany">>,
           restrictedAlerts   |-> <<"ContentItem", "count">>,
           pendingTasks       |-> <<"Task", "count">>]

ASSUME DashboardAssumption ==
  /\ Healthy \subseteq Tenants /\ None \notin Tenants /\ "cron" \notin Visitors
  /\ Figures \subseteq DOMAIN Source
  /\ {MaxCount, MaxWrites, MaxFailures} \subseteq Nat

VARIABLES
  table,   \* what there is to count, per tenant and figure
  latest,  \* the snapshot that was made last, per tenant
  todo,    \* the tenants that this run of the cron has still to do
  comp,    \* the computation of the cron and of each visitor
  writes, failures  \* how often so far

vars == <<table, latest, todo, comp, writes, failures>>

Computers == {"cron"} \cup Visitors

Computation == [tenant : Tenants \cup {None},
                got : [Figures -> Nat \cup {None}],      \* the answers so far
                past : [Figures -> SUBSET (0..MaxCount)]]  \* history: the counts since it began

Idle == [tenant |-> None, got |-> [f \in Figures |-> None], past |-> [f \in Figures |-> {}]]

Init ==
  /\ table = [t \in Tenants |-> [f \in Figures |-> 0]]
  /\ latest = [t \in Tenants |-> None]
  /\ todo = {}
  /\ comp = [c \in Computers |-> Idle]
  /\ writes = 0 /\ failures = 0

Running(c) == comp[c].tenant # None

Begun(t) == [Idle EXCEPT !.tenant = t, !.past = [f \in Figures |-> {table[t][f]}]]

-----------------------------------------------------------------------------
(* Other services write rows of a tenant: several figures may change. *)
Write(t, counts) ==
  /\ writes < MaxWrites /\ counts # table[t]
  /\ writes' = writes + 1
  /\ table' = [table EXCEPT ![t] = counts]
  /\ comp' = [c \in Computers |->
                IF comp[c].tenant # t THEN comp[c]
                ELSE [comp[c] EXCEPT !.past = [f \in Figures |-> @[f] \cup {counts[f]}]]]
  /\ UNCHANGED <<latest, todo, failures>>

(* latestOrCompute, when there is no snapshot. *)
Open(v, t) ==
  /\ ~Running(v) /\ latest[t] = None
  /\ comp' = [comp EXCEPT ![v] = Begun(t)]
  /\ UNCHANGED <<table, latest, todo, writes, failures>>

(* refreshAllTenants reads the tenants ... *)
CronStart ==
  /\ ~Running("cron") /\ todo = {}
  /\ todo' = Tenants
  /\ UNCHANGED <<table, latest, comp, writes, failures>>

(* Plausible slip: the tenant is not taken off the list. *)
Rest_Same(t) == todo

Rest(t) == todo \ {t}

(* ... and computes one after the other, each in its own context. *)
CronNext(t) ==
  /\ ~Running("cron") /\ t \in todo
  /\ todo' = Rest(t)
  /\ comp' = [comp EXCEPT !["cron"] = Begun(t)]
  /\ UNCHANGED <<table, latest, writes, failures>>

-----------------------------------------------------------------------------
(* Plausible slip: the raw client. *)
Counted_Raw(t, f) == MapThenSumSet(LAMBDA o : table[o][f], Tenants)

(* What a figure's query counts in the context of tenant t. *)
Counted(t, f) ==
  MapThenSumSet(LAMBDA o : table[o][f],
                {o \in Tenants : Reaches(Source[f][1], Source[f][2], t, o)})

(* One of the queries of Promise.all is answered ... *)
Query(c, f) ==
  /\ Running(c) /\ comp[c].got[f] = None
  /\ comp' = [comp EXCEPT ![c].got[f] = Counted(comp[c].tenant, f)]
  /\ UNCHANGED <<table, latest, todo, writes, failures>>

(* ... and when all are, the snapshot is created. *)
Create(c) ==
  /\ Running(c) /\ \A f \in Figures : comp[c].got[f] # None
  /\ latest' = [latest EXCEPT ![comp[c].tenant] = comp[c].got]
  /\ comp' = [comp EXCEPT ![c] = Idle]
  /\ UNCHANGED <<table, todo, writes, failures>>

(* Plausible slip: the try is around the loop. *)
AfterFailure_Stops(c) == IF c = "cron" THEN {} ELSE todo

AfterFailure(c) == todo

(* A query or the insert throws: the cron logs it and goes on with the next *)
(* tenant, a visitor gets an error.                                         *)
Fail(c) ==
  /\ Running(c)
  /\ IF comp[c].tenant \in Healthy
     THEN failures < MaxFailures /\ failures' = failures + 1
     ELSE UNCHANGED failures
  /\ comp' = [comp EXCEPT ![c] = Idle]
  /\ todo' = AfterFailure(c)
  /\ UNCHANGED <<table, latest, writes>>

(* The process dies; a later hour starts a run of its own. *)
Crash ==
  /\ failures < MaxFailures
  /\ failures' = failures + 1
  /\ comp' = [c \in Computers |-> Idle]
  /\ todo' = {}
  /\ UNCHANGED <<table, latest, writes>>

-----------------------------------------------------------------------------
Compute(c) == Create(c) \/ Fail(c) \/ \E f \in Figures : Query(c, f)

Cron == CronStart \/ Compute("cron") \/ \E t \in Tenants : CronNext(t)

Next ==
  \/ \E t \in Tenants, counts \in [Figures -> 0..MaxCount] : Write(t, counts)
  \/ \E v \in Visitors, t \in Tenants : Open(v, t)
  \/ \E v \in Visitors : Compute(v)
  \/ Cron
  \/ Crash

(* Every hour the cron starts, and what has been awaited settles. *)
Fairness == WF_vars(Cron) /\ \A v \in Visitors : WF_vars(Compute(v))

Spec == Init /\ [][Next]_vars /\ Fairness

-----------------------------------------------------------------------------
TypeOK ==
  /\ table \in [Tenants -> [Figures -> 0..MaxCount]]
  /\ \A t \in Tenants : latest[t] = None \/ latest[t] \in [Figures -> Nat]
  /\ todo \subseteq Tenants
  /\ comp \in [Computers -> Computation]
  /\ comp["cron"].tenant \notin todo
  /\ writes \in 0..MaxWrites /\ failures \in 0..MaxFailures

(* Whoever computes a snapshot, and whatever is written and computed at the *)
(* same time, each of its figures was that tenant's at some moment of the   *)
(* computation (computeForTenant).                                          *)
FiguresPlausible ==
  [][\A t \in Tenants : latest'[t] # latest[t] =>
       \E c \in Computers : /\ comp[c].tenant = t
                            /\ \A f \in Figures : latest'[t][f] \in comp[c].past[f]]_vars

(* A tenant is shown its present figures in the end, though another's       *)
(* computation fails every hour and a visitor's may be stored after a later *)
(* one of the cron (refreshAllTenants).                                     *)
SnapshotsRefresh == \A t \in Healthy : <>[](latest[t] = table[t])
=============================================================================
