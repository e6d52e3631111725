-------------------------- MODULE LifecycleHistory --------------------------
(***************************************************************************)
(* The lifecycle of content items and its history:                         *)
(* ContentItemsService.transitionLifecycle, called by several staff at the *)
(* same time, and the retention cron that archives expired items.          *)
(*                                                                         *)
(* transitionLifecycle is five database calls without a transaction; each  *)
(* is an action of its own.  Items whose snapshot of a policy does not     *)
(* archive them are outside Expiring.  A call is made once; a constant     *)
(* set of calls bounds the runs.                                           *)
(***************************************************************************)
EXTENDS Naturals, Sequences, FiniteSets, FiniteSetsExt

CONSTANTS
  Items,      \* content_items rows
  Expiring,   \* items that carry a policy with actionOnExpiry ARCHIVE
  Calls,      \* the calls of transitionLifecycle that are ever made
  Targets,    \* the statuses they ask for
  NoItem      \* no item

Statuses == {"RAW", "IN_PRODUCTION", "READY_FOR_REVIEW", "PUBLISHED", "ARCHIVED"}

ASSUME ItemsAssumption == Expiring \subseteq Items /\ NoItem \notin Items
ASSUME TargetsAssumption == Targets \subseteq Statuses

VARIABLES
  status,       \* content_items.lifecycle_status
  revisions,    \* event_revisions: numbered snapshots of an item
  transitions,  \* status_transitions
  call,         \* where each call is, and what it has read
  expired,      \* items whose retention expiry date has passed
  todo          \* items that the running cron has found and not yet treated

vars == <<status, revisions, transitions, call, expired, todo>>

Call == [pc : {"start", "read", "revise", "record", "update", "done"},
         item : Items \cup {NoItem},
         to : Statuses,           \* toStatus
         seen : Statuses,         \* item.lifecycleStatus as it was read
         version : Nat]           \* nextVersion

Init ==
  /\ status = [i \in Items |-> "RAW"]
  /\ revisions = {}
  /\ transitions = {}
  /\ call = [c \in Calls |-> [pc |-> "start", item |-> NoItem, to |-> "RAW",
                              seen |-> "RAW", version |-> 0]]
  /\ expired = {}
  /\ todo = {}

Versions(i) == {r.version : r \in {q \in revisions : q.item = i}}

Finish(c) == call' = [call EXCEPT ![c].pc = "done"]

-----------------------------------------------------------------------------
(* findFirst and assertCanView: the row as it is now.  A call that finds no *)
(* row, or may not see it, changes nothing.  Any status may be asked for.   *)
ReadItem(c, i, to) ==
  /\ call[c].pc = "start"
  /\ call' = [call EXCEPT ![c] = [pc |-> "read", item |-> i, to |-> to,
                                  seen |-> status[i], version |-> 0]]
  /\ UNCHANGED <<status, revisions, transitions, expired, todo>>

(* findMany, highest version first, take 1. *)
LatestVersion(i) == Max(Versions(i) \cup {0})

ReadLatest(c) ==
  /\ call[c].pc = "read"
  /\ call' = [call EXCEPT ![c].pc = "revise",
                          ![c].version = LatestVersion(call[c].item) + 1]
  /\ UNCHANGED <<status, revisions, transitions, expired, todo>>

(* Plausible slip: the unique index on (resourceId, versionNumber) is lost. *)
Taken_Never(i, v) == FALSE

Taken(i, v) == v \in Versions(i)

(* Plausible slip: the transition is left out. *)
AfterRevision_Unrecorded == "update"

AfterRevision == "record"

(* eventRevision.create, of the item as it was read. *)
CreateRevision(c) ==
  LET k == call[c]
  IN /\ k.pc = "revise"
     /\ ~Taken(k.item, k.version)
     /\ revisions' = revisions \cup
          {[item |-> k.item, version |-> k.version, snapshot |-> k.seen, by |-> c]}
     /\ call' = [call EXCEPT ![c].pc = AfterRevision]
     /\ UNCHANGED <<status, transitions, expired, todo>>

(* Another call has taken the number meanwhile: create throws. *)
RevisionConflict(c) ==
  /\ call[c].pc = "revise"
  /\ Taken(call[c].item, call[c].version)
  /\ Finish(c)
  /\ UNCHANGED <<status, revisions, transitions, expired, todo>>

(* Plausible slip: from is read again instead of taken from the snapshot. *)
FromStatus_Current(c) == status[call[c].item]

FromStatus(c) == call[c].seen

(* statusTransition.create. *)
CreateTransition(c) ==
  LET k == call[c]
  IN /\ k.pc = "record"
     /\ transitions' = transitions \cup
          {[item |-> k.item, from |-> FromStatus(c), to |-> k.to, by |-> c]}
     /\ call' = [call EXCEPT ![c].pc = "update"]
     /\ UNCHANGED <<status, revisions, expired, todo>>

(* contentItem.update. *)
UpdateStatus(c) ==
  /\ call[c].pc = "update"
  /\ status' = [status EXCEPT ![call[c].item] = call[c].to]
  /\ Finish(c)
  /\ UNCHANGED <<revisions, transitions, expired, todo>>

(* The next database call throws, or the process dies before it. *)
Fail(c) ==
  /\ call[c].pc \notin {"start", "done"}
  /\ Finish(c)
  /\ UNCHANGED <<status, revisions, transitions, expired, todo>>

-----------------------------------------------------------------------------
(* The retention expiry date of an item passes. *)
Expire(i) ==
  /\ i \in Expiring \ expired
  /\ expired' = expired \cup {i}
  /\ UNCHANGED <<status, revisions, transitions, call, todo>>

(* Plausible slip: only published items are looked for. *)
Due_Published(i) == i \in expired /\ status[i] = "PUBLISHED"

(* Plausible slip: the cron does not look at the expiry date. *)
Due_Any(i) == TRUE

(* Those that the cron archived before are found again every day. *)
Due(i) == i \in expired

(* applyExpiryActions: find the expired items ... *)
CronFind ==
  /\ todo = {}
  /\ todo' = {i \in Items : Due(i)}
  /\ UNCHANGED <<status, revisions, transitions, call, expired>>

(* ... and archive them one by one. *)
CronArchive(i) ==
  /\ i \in todo
  /\ status' = [status EXCEPT ![i] = "ARCHIVED"]
  /\ todo' = todo \ {i}
  /\ UNCHANGED <<revisions, transitions, call, expired>>

(* An update that throws is logged and the item left for another day; a     *)
(* process that dies leaves them all.                                       *)
CronFail(left) ==
  /\ todo # {}
  /\ left \subseteq todo
  /\ left # todo
  /\ todo' = left
  /\ UNCHANGED <<status, revisions, transitions, call, expired>>

Transition(c) ==
  \/ ReadLatest(c)
  \/ CreateRevision(c)
  \/ RevisionConflict(c)
  \/ CreateTransition(c)
  \/ UpdateStatus(c)

Cron ==
  \/ CronFind
  \/ \E i \in Items : CronArchive(i)

Next ==
  \/ \E c \in Calls, i \in Items, to \in Targets : ReadItem(c, i, to)
  \/ \E c \in Calls : Transition(c) \/ Fail(c)
  \/ \E i \in Items : Expire(i)
  \/ Cron
  \/ \E left \in SUBSET todo : CronFail(left)

Spec == Init /\ [][Next]_vars

(* The cron runs every day, and the update of an item that is found again   *)
(* and again does not throw every time.                                     *)
FairSpec ==
  Spec /\ WF_vars(CronFind) /\ \A i \in Items : SF_vars(CronArchive(i))

-----------------------------------------------------------------------------
Revision == [item : Items, version : Nat \ {0}, snapshot : Statuses, by : Calls]

TypeOK ==
  /\ status \in [Items -> Statuses]
  /\ revisions \subseteq Revision
  /\ transitions \subseteq [item : Items, from : Statuses, to : Statuses, by : Calls]
  /\ call \in [Calls -> Call]
  /\ \A c \in Calls : call[c].pc \notin {"start", "done"} => call[c].item \in Items
  /\ expired \subseteq Expiring
  /\ todo \subseteq expired

(* The revisions of an item are numbered from 1 without gap or repetition,  *)
(* though each number is computed from an earlier read and calls race, lose *)
(* their number to another or die half way (transitionLifecycle).           *)
VersionsContiguous ==
  /\ \A r, q \in revisions : r.item = q.item /\ r.version = q.version => r = q
  /\ \A r \in revisions : 1..r.version \subseteq Versions(r.item)

(* A transition row is never the only trace of its call: the same call has  *)
(* put the state it left in a revision, and both say the same of it.        *)
TransitionHasRevision ==
  \A t \in transitions : \E r \in revisions :
    r.by = t.by /\ r.item = t.item /\ r.snapshot = t.from

(* A status changes only after a row says so: the step that changes one is  *)
(* the last of a call that has recorded it, or the cron's, of an expired    *)
(* item.                                                                    *)
ChangesAreExplained ==
  [][\A i \in Items : status'[i] # status[i] =>
       \/ \E t \in transitions : t.item = i /\ t.to = status'[i] /\ call[t.by].pc = "update"
       \/ i \in expired /\ status'[i] = "ARCHIVED"]_vars

(* An expired item is archived in the end, and archived again whenever      *)
(* somebody takes it out of the archive (applyExpiryActions).               *)
ExpiredIsArchived ==
  \A i \in Items : i \in expired ~> status[i] = "ARCHIVED"

(* The racing inserts amount to a log that only grows at its end. *)
SnapshotOf(i, v) == (CHOOSE r \in revisions : r.item = i /\ r.version = v).snapshot

LogOf(i) == [v \in 1..Cardinality(Versions(i)) |-> SnapshotOf(i, v)]

History == [i \in Items |-> LogOf(i)]

Log == INSTANCE RevisionLog WITH log <- History

ImplementsRevisionLog == Log!Spec
=============================================================================
