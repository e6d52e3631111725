------------------------- MODULE WatermarkPipeline -------------------------
(***************************************************************************)
(* The copies with a watermark that researchers download.                  *)
(* ResearcherPortalService.requestDownload makes the job, BullMQ carries   *)
(* it, WatermarkProcessor makes the copy and WatermarkCleanupService       *)
(* deletes it after a while.  Who may ask for a copy is the business of    *)
(* ResearcherPortal, which composes this module with AccessRequests.       *)
(*                                                                         *)
(* Time is what may pass between two steps: a job's expiresAt passes, and  *)
(* the worker reads Date.now() some while before its copy is in the bucket,*)
(* so two copies may be of one millisecond, and come in any order.  A job  *)
(* stands for the one call of requestDownload that makes it.               *)
(***************************************************************************)
EXTENDS Naturals, FiniteSets

CONSTANTS
  Researchers,   \* researcher_accounts
  Items,         \* content_items of type VIDEO or IMAGE
  Jobs,          \* watermark_jobs: the downloads that are ever asked for
  Workers,       \* what the BullMQ worker runs at once (concurrency)
  None,          \* no researcher, item, job or object
  MaxStalls,     \* how often BullMQ hands out a stalled job again
  Millis,        \* bound: the milliseconds in which copies are made
  MaxCrashes     \* bound: crashes of the process

ASSUME NoneAssumption == None \notin Researchers \cup Items \cup Jobs
ASSUME BoundsAssumption == MaxStalls \in Nat /\ MaxCrashes \in Nat

VARIABLES
  job,       \* watermark_jobs, and how far the call that makes one has come
  entry,     \* the BullMQ job of each
  worker,    \* what each worker is doing
  objects,   \* the copies in the bucket
  todo,      \* expired rows that the running cleanup has read, not yet treated,
             \* with the copy still to be deleted
  named,     \* history: the milliseconds in the names that each row has had
  crashes    \* crashes so far

vars == <<job, entry, worker, objects, todo, named, crashes>>

Keys == [item : Items, researcher : Researchers, stamp : Millis]

ASSUME KeysAssumption == None \notin Keys \cup Millis

(* Plausible slip: the copy of a researcher and an item has one name.       *)
CacheKey_Shared(i, r, n) ==
  [item |-> i, researcher |-> r, stamp |-> CHOOSE m \in Millis : TRUE]

CacheKey(i, r, n) == [item |-> i, researcher |-> r, stamp |-> n]

Job == [state : {"none", "checked", "PENDING", "PROCESSING", "DONE", "FAILED", "deleted"},
        researcher : Researchers \cup {None}, item : Items \cup {None},
        path : Keys \cup {None},       \* storagePath
        expired : BOOLEAN]             \* expiresAt has passed

Entry == [state : {"none", "waiting", "active", "over"}, stalls : 0..MaxStalls]

Worker == [pc : {"idle", "begin", "render", "finish", "fail", "ack"},
           job : Jobs \cup {None},
           stamp : Millis \cup {None}]   \* Date.now(), in the name of the copy being made

Resting == [pc |-> "idle", job |-> None, stamp |-> None]

NoJob == [state |-> "none", researcher |-> None, item |-> None, path |-> None,
          expired |-> FALSE]

Init ==
  /\ job = [j \in Jobs |-> NoJob]
  /\ entry = [j \in Jobs |-> [state |-> "none", stalls |-> 0]]
  /\ worker = [w \in Workers |-> Resting]
  /\ objects = {}
  /\ todo = {}
  /\ named = [j \in Jobs |-> {}]
  /\ crashes = 0

Row(j) == job[j].state \in {"PENDING", "PROCESSING", "DONE", "FAILED"}

-----------------------------------------------------------------------------
(* requestDownload: r may view the item now, as far as it has looked ... *)
CheckDownload(j, r, i) ==
  /\ job[j].state = "none"
  /\ job' = [job EXCEPT ![j].state = "checked", ![j].researcher = r, ![j].item = i]
  /\ UNCHANGED <<entry, worker, objects, todo, named, crashes>>

(* ... the row is made, with the time from which it may be deleted ... *)
CreateJob(j) ==
  /\ job[j].state = "checked"
  /\ job' = [job EXCEPT ![j].state = "PENDING"]
  /\ UNCHANGED <<entry, worker, objects, todo, named, crashes>>

(* ... and the work is queued; the row may have been deleted by then.       *)
Enqueue(j) ==
  /\ job[j].state \in {"PENDING", "deleted"}
  /\ entry[j].state = "none"
  /\ entry' = [entry EXCEPT ![j].state = "waiting"]
  /\ UNCHANGED <<job, worker, objects, todo, named, crashes>>

(* The call throws: nothing is made, or the row stays without any work.     *)
CallFails(j) ==
  /\ \/ /\ job[j].state = "checked"
        /\ job' = [job EXCEPT ![j] = NoJob]
        /\ UNCHANGED entry
     \/ /\ job[j].state \in {"PENDING", "deleted"}
        /\ entry[j].state = "none"
        /\ entry' = [entry EXCEPT ![j].state = "over"]
        /\ UNCHANGED job
  /\ UNCHANGED <<worker, objects, todo, named, crashes>>

(* The time in expiresAt passes. *)
ExpireJob(j) ==
  /\ Row(j)
  /\ ~job[j].expired
  /\ job' = [job EXCEPT ![j].expired = TRUE]
  /\ UNCHANGED <<entry, worker, objects, todo, named, crashes>>

-----------------------------------------------------------------------------
(* BullMQ hands a job to a worker that has nothing to do. *)
Take(w, j) ==
  /\ worker[w].pc = "idle"
  /\ entry[j].state = "waiting"
  /\ entry' = [entry EXCEPT ![j].state = "active"]
  /\ worker' = [worker EXCEPT ![w] = [pc |-> "begin", job |-> j, stamp |-> None]]
  /\ UNCHANGED <<job, objects, todo, named, crashes>>

(* process: the row says PROCESSING; an update of a row that is gone throws.*)
Begin(w) ==
  LET j == worker[w].job
  IN /\ worker[w].pc = "begin"
     /\ Row(j)
     /\ job' = [job EXCEPT ![j].state = "PROCESSING"]
     /\ worker' = [worker EXCEPT ![w].pc = "render"]
     /\ UNCHANGED <<entry, objects, todo, named, crashes>>

(* An update outside the try, or in its catch, throws: so does process.     *)
ProcessThrows(w) ==
  /\ worker[w].pc \in {"begin", "fail"}
  /\ worker' = [worker EXCEPT ![w].pc = "ack"]
  /\ UNCHANGED <<job, entry, objects, todo, named, crashes>>

Copy(j, stamp) == CacheKey(job[j].item, job[j].researcher, stamp)

(* The copy is made and stored, under a name with the millisecond in which  *)
(* it was ready ...                                                         *)
PutRaw(w, now) ==
  /\ worker[w].pc = "render"
  /\ objects' = objects \cup {Copy(worker[w].job, now)}
  /\ worker' = [worker EXCEPT ![w].pc = "finish", ![w].stamp = now]
  /\ UNCHANGED <<job, entry, todo, named, crashes>>

(* ... or there is no source, or ffmpeg or the bucket fails. *)
RenderFails(w) ==
  /\ worker[w].pc = "render"
  /\ worker' = [worker EXCEPT ![w].pc = "fail"]
  /\ UNCHANGED <<job, entry, objects, todo, named, crashes>>

(* The row says DONE and where the copy is. *)
FinishDone(w) ==
  LET j == worker[w].job
      stamp == worker[w].stamp
  IN /\ worker[w].pc = "finish"
     /\ Row(j)
     /\ job' = [job EXCEPT ![j].state = "DONE", ![j].path = Copy(j, stamp)]
     /\ named' = [named EXCEPT ![j] = @ \cup {stamp}]
     /\ worker' = [worker EXCEPT ![w].pc = "ack", ![w].stamp = None]
     /\ UNCHANGED <<entry, objects, todo, crashes>>

(* That update throws, for one because the row is gone: it is caught, and   *)
(* the copy is forgotten.                                                   *)
FinishThrows(w) ==
  /\ worker[w].pc = "finish"
  /\ worker' = [worker EXCEPT ![w].pc = "fail", ![w].stamp = None]
  /\ UNCHANGED <<job, entry, objects, todo, named, crashes>>

(* The row says FAILED. *)
RecordFailure(w) ==
  LET j == worker[w].job
  IN /\ worker[w].pc = "fail"
     /\ Row(j)
     /\ job' = [job EXCEPT ![j].state = "FAILED"]
     /\ worker' = [worker EXCEPT ![w].pc = "ack"]
     /\ UNCHANGED <<entry, objects, todo, named, crashes>>

(* process is over, and BullMQ hears of it.  A job that threw is not tried  *)
(* again: attempts is left at 1.                                            *)
Ack(w) ==
  /\ worker[w].pc = "ack"
  /\ worker' = [worker EXCEPT ![w] = Resting]
  /\ entry' = [entry EXCEPT ![worker[w].job].state = "over"]
  /\ UNCHANGED <<job, objects, todo, named, crashes>>

-----------------------------------------------------------------------------
(* Plausible slip: rows without a copy are never cleaned up. *)
Due_Done(j) == job[j].state = "DONE" /\ job[j].expired

(* Plausible slip: the cleanup does not look at expiresAt. *)
Due_Early(j) == Row(j)

Due(j) == Row(j) /\ job[j].expired

(* WatermarkCleanupService.run: the expired rows as they are now ... *)
CleanupFind ==
  /\ todo = {}
  /\ todo' = {[job |-> j, path |-> job[j].path] : j \in {k \in Jobs : Due(k)}}
  /\ UNCHANGED <<job, entry, worker, objects, named, crashes>>

(* ... for each, the copy that the row named when it was read, if it named  *)
(* one: deleting what is no more does no harm ...                           *)
CleanupObject(e) ==
  /\ e.path # None
  /\ objects' = objects \ {e.path}
  /\ todo' = (todo \ {e}) \cup {[e EXCEPT !.path = None]}
  /\ UNCHANGED <<job, entry, worker, named, crashes>>

(* Plausible slip: the row is deleted though its copy could not be. *)
ObjectDeleted_Ignored(e) == TRUE

ObjectDeleted(e) == e.path = None

(* ... and then the row. *)
CleanupRow(e) ==
  /\ ObjectDeleted(e)
  /\ job' = [job EXCEPT ![e.job].state = "deleted", ![e.job].path = None]
  /\ todo' = todo \ {e}
  /\ UNCHANGED <<entry, worker, objects, named, crashes>>

(* A call that throws is logged; the row is left for the next run. *)
CleanupSkip(e) ==
  /\ todo' = todo \ {e}
  /\ UNCHANGED <<job, entry, worker, objects, named, crashes>>

-----------------------------------------------------------------------------
(* Plausible slip: stalled jobs stay with the worker that is no more.       *)
Stalled_Lost(en) == en

(* A job whose worker died is stalled: BullMQ hands it out again, unless    *)
(* that has happened to it before.                                          *)
Stalled(en) ==
  IF en.state # "active" THEN en
  ELSE IF en.stalls < MaxStalls THEN [state |-> "waiting", stalls |-> en.stalls + 1]
  ELSE [en EXCEPT !.state = "over"]

(* The process dies with all it was doing: calls, workers and the cleanup.  *)
Crash ==
  /\ crashes < MaxCrashes
  /\ crashes' = crashes + 1
  /\ worker' = [w \in Workers |-> Resting]
  /\ entry' = [j \in Jobs |->
       IF entry[j].state = "none" /\ job[j].state \in {"PENDING", "deleted"}
       THEN [entry[j] EXCEPT !.state = "over"]
       ELSE Stalled(entry[j])]
  /\ job' = [j \in Jobs |-> IF job[j].state = "checked" THEN NoJob ELSE job[j]]
  /\ todo' = {}
  /\ UNCHANGED <<objects, named>>

-----------------------------------------------------------------------------
Download(j) == CreateJob(j) \/ Enqueue(j) \/ CallFails(j)

Process(w) ==
  \/ Begin(w) \/ ProcessThrows(w)
  \/ (\E now \in Millis : PutRaw(w, now)) \/ RenderFails(w)
  \/ FinishDone(w) \/ FinishThrows(w)
  \/ RecordFailure(w)
  \/ Ack(w)

CopyOf(j) == \E e \in todo : e.job = j /\ CleanupObject(e)

RowOf(j) == \E e \in todo : e.job = j /\ CleanupRow(e)

(* All but the first step of requestDownload. *)
Work ==
  \/ \E j \in Jobs : Download(j) \/ ExpireJob(j) \/ CopyOf(j) \/ RowOf(j)
  \/ \E w \in Workers, j \in Jobs : Take(w, j)
  \/ \E w \in Workers : Process(w)
  \/ CleanupFind
  \/ \E e \in todo : CleanupSkip(e)
  \/ Crash

Next ==
  \/ \E j \in Jobs, r \in Researchers, i \in Items : CheckDownload(j, r, i)
  \/ Work

Spec == Init /\ [][Next]_vars

(* Time passes; workers run and BullMQ gives them jobs; the cleanup runs    *)
(* every ten minutes, and neither the bucket nor the database fails every   *)
(* time on the same row.                                                    *)
Fairness ==
  /\ WF_vars(CleanupFind)
  /\ \A j \in Jobs : /\ WF_vars(ExpireJob(j))
                     /\ SF_vars(CopyOf(j)) /\ SF_vars(RowOf(j))
                     /\ WF_vars(\E w \in Workers : Take(w, j))
  /\ \A w \in Workers : WF_vars(Process(w))

FairSpec == Spec /\ Fairness

-----------------------------------------------------------------------------
TypeOK ==
  /\ job \in [Jobs -> Job]
  /\ \A j \in Jobs : job[j].state # "none" =>
       job[j].researcher \in Researchers /\ job[j].item \in Items
  /\ \A j \in Jobs : job[j].state = "DONE" => job[j].path \in Keys
  /\ entry \in [Jobs -> Entry]
  /\ worker \in [Workers -> Worker]
  /\ objects \subseteq Keys
  /\ todo \subseteq [job : {j \in Jobs : Row(j) /\ job[j].expired}, path : Keys \cup {None}]
  /\ named \in [Jobs -> SUBSET Millis] /\ crashes \in 0..MaxCrashes

(* The row of i has named the copy k of j: both are for one researcher and  *)
(* item, and were ready in the same millisecond.                            *)
Twin(i, j, k) ==
  /\ i # j
  /\ job[i].researcher = job[j].researcher /\ job[i].item = job[j].item
  /\ k.stamp \in named[i]

(* What a DONE job names can be downloaded until the job expires, whatever  *)
(* other jobs, their cleanup, crashes and second runs do meanwhile: unless  *)
(* a twin has expired before it, for its cleanup takes the copy of both     *)
(* (watermarkCacheKey reads Date.now(), and two workers run at once).       *)
DoneIsServable ==
  \A j \in Jobs : job[j].state = "DONE" /\ ~job[j].expired =>
    \/ job[j].path \in objects
    \/ \E i \in Jobs : Twin(i, j, job[j].path) /\ job[i].expired

(* Every row is deleted in the end, in whatever state its job is.           *)
RowsGo == \A j \in Jobs : Row(j) ~> ~Row(j)

(* The row of j names k, no worker will run j again, and the cleanup, if it *)
(* has read the row, has read that name in it.                              *)
Settled(j, k) ==
  /\ Row(j) /\ job[j].path = k
  /\ entry[j].state = "over"
  /\ \A e \in todo : e.job = j => e.path = k

(* A settled copy is gone in the end: it does not stay in the bucket without*)
(* a row that says where it is, though the process dies in the middle of    *)
(* the cleanup and deletions fail (WatermarkCleanupService.run).            *)
CopiesGo == \A k \in Keys : (\E j \in Jobs : Settled(j, k)) ~> k \notin objects

(* A job that was queued is over in the end, even if the process dies while *)
(* a worker is on it.                                                       *)
JobsEnd == \A j \in Jobs : entry[j].state = "waiting" ~> entry[j].state = "over"
=============================================================================
