-------------------------- MODULE DocumentRetention --------------------------
(***************************************************************************)
(* The life of an item's content, from upload to erasure:                  *)
(* DocumentsService.upload queues a document, DocumentProcessor extracts   *)
(* its text into the item's metadata, and the daily cron of                *)
(* RetentionEnforcementService deletes expired items and, after a grace    *)
(* period, scrubs them.  Other items are made by ContentItemsService and   *)
(* MediaService in the same two steps and are not processed.               *)
(*                                                                         *)
(* Time is what may pass between two steps: an item expires, a day passes. *)
(* ARCHIVE is the business of LifecycleHistory, and NOTIFY_ONLY sends      *)
(* mail: neither changes anything here.                                    *)
(***************************************************************************)
EXTENDS Naturals, FiniteSets

CONSTANTS
  Items,       \* content_items rows that are ever made
  Documents,   \* those that upload makes and the queue carries
  Policies,    \* the actions that tenants ask for in a retention policy
  Workers,     \* what the BullMQ worker runs at once (concurrency)
  NoItem,      \* no item
  Grace,       \* SOFT_DELETE_GRACE_DAYS: 7 in the code
  MaxStalls,   \* how often BullMQ hands out a stalled job again
  MaxCrashes   \* bound: crashes of the process

ASSUME ItemsAssumption == Documents \subseteq Items /\ NoItem \notin Items
ASSUME PoliciesAssumption == Policies \subseteq {"ARCHIVE", "DELETE", "NOTIFY_ONLY"}
ASSUME NumbersAssumption == Grace \in Nat \ {0} /\ MaxStalls \in Nat /\ MaxCrashes \in Nat

VARIABLES
  policy,   \* retention_policies: the action, of the one content type
  upload,   \* how far the call that makes each item has come
  item,     \* content_items
  ocr,      \* document_files.ocr_status
  entry,    \* the BullMQ job of each document
  worker,   \* what each worker is doing
  cron,     \* the pass the running cron is at, and the items it has still to treat
  hurt,     \* history: documents whose queueing or status update was lost
  crashes   \* crashes so far

vars == <<policy, upload, item, ocr, entry, worker, cron, hurt, crashes>>
calls == <<policy, upload>>
queue == <<entry, worker>>

Snapshots == Policies \cup {"none"}

Item == [row : BOOLEAN,
         applied : Snapshots,      \* appliedRetentionPolicy, read before the row is made
         expired : BOOLEAN,        \* retentionExpiryDate has passed
         deleted : 0..(Grace + 1), \* deletedAt: 0 if null, else the day since then, from 1
         title : BOOLEAN,          \* the title is not yet '[deleted]'
         metadata : BOOLEAN]       \* metadata is not empty

Entry == [state : {"none", "waiting", "active", "over"}, stalls : 0..MaxStalls]

Worker == [pc : {"idle", "begin", "extract", "finish", "fail", "ack"},
           item : Items \cup {NoItem}]

Resting == [pc |-> "idle", item |-> NoItem]

Sleeping == [pass |-> "none", todo |-> {}]

Init ==
  /\ policy = "none"
  /\ upload = [d \in Items |-> "none"]
  /\ item = [d \in Items |-> [row |-> FALSE, applied |-> "none", expired |-> FALSE,
                              deleted |-> 0, title |-> FALSE, metadata |-> FALSE]]
  /\ ocr = [d \in Items |-> "none"]
  /\ entry = [d \in Items |-> [state |-> "none", stalls |-> 0]]
  /\ worker = [w \in Workers |-> Resting]
  /\ cron = Sleeping
  /\ hurt = {}
  /\ crashes = 0

-----------------------------------------------------------------------------
(* RetentionPoliciesService.upsert.  Two first policies may collide on the  *)
(* unique index; the second then throws.                                    *)
UpsertPolicy(a) ==
  /\ policy' = a
  /\ UNCHANGED <<upload, item, ocr, queue, cron, hurt, crashes>>

(* computeForNewItem: the policy as it is now ... *)
StartUpload(d) ==
  /\ upload[d] = "none"
  /\ upload' = [upload EXCEPT ![d] = "create"]
  /\ item' = [item EXCEPT ![d].applied = policy]
  /\ UNCHANGED <<policy, ocr, queue, cron, hurt, crashes>>

(* ... goes with the item into its row.  A document's item is made by       *)
(* DocumentsService, another one by MediaService, which has a file to store *)
(* as well, or by ContentItemsService, which alone takes metadata from its  *)
(* caller.                                                                  *)
AfterCreate(d, metadata) ==
  IF d \in Documents THEN {"file"} ELSE IF metadata THEN {"over"} ELSE {"media", "over"}

CreateItem(d, metadata) ==
  /\ upload[d] = "create"
  /\ d \in Documents => ~metadata
  /\ item' = [item EXCEPT ![d].row = TRUE, ![d].title = TRUE, ![d].metadata = metadata]
  /\ \E pc \in AfterCreate(d, metadata) : upload' = [upload EXCEPT ![d] = pc]
  /\ UNCHANGED <<policy, ocr, queue, cron, hurt, crashes>>

(* MediaService: the file is in the bucket, and media_files says so.  If it *)
(* does not come to that, the item stays without a file.                    *)
RecordMedia(d) ==
  /\ upload[d] = "media"
  /\ upload' = [upload EXCEPT ![d] = "over"]
  /\ UNCHANGED <<policy, item, ocr, queue, cron, hurt, crashes>>

(* DocumentsService: the file is in the bucket, and document_files says so  *)
(* ...                                                                      *)
RecordFile(d) ==
  /\ upload[d] = "file"
  /\ ocr' = [ocr EXCEPT ![d] = "PENDING"]
  /\ upload' = [upload EXCEPT ![d] = "queue"]
  /\ UNCHANGED <<policy, item, queue, cron, hurt, crashes>>

(* ... and the work is queued. *)
Enqueue(d) ==
  /\ upload[d] = "queue"
  /\ entry' = [entry EXCEPT ![d].state = "waiting"]
  /\ upload' = [upload EXCEPT ![d] = "over"]
  /\ UNCHANGED <<policy, item, ocr, worker, cron, hurt, crashes>>

(* The next call of upload throws. *)
UploadFails(d) ==
  /\ upload[d] \in {"create", "media", "file", "queue"}
  /\ upload' = [upload EXCEPT ![d] = "over"]
  /\ hurt' = IF upload[d] = "queue" THEN hurt \cup {d} ELSE hurt
  /\ UNCHANGED <<policy, item, ocr, queue, cron, crashes>>

-----------------------------------------------------------------------------
(* BullMQ hands a document to a worker that has nothing to do. *)
Take(w, d) ==
  /\ worker[w].pc = "idle"
  /\ entry[d].state = "waiting"
  /\ entry' = [entry EXCEPT ![d].state = "active"]
  /\ worker' = [worker EXCEPT ![w] = [pc |-> "begin", item |-> d]]
  /\ UNCHANGED <<calls, item, ocr, cron, hurt, crashes>>

(* process: document_files says PROCESSING. *)
Begin(w) ==
  /\ worker[w].pc = "begin"
  /\ ocr' = [ocr EXCEPT ![worker[w].item] = "PROCESSING"]
  /\ worker' = [worker EXCEPT ![w].pc = "extract"]
  /\ UNCHANGED <<calls, item, entry, cron, hurt, crashes>>

(* The text is written into the metadata the item had when it was read.  A  *)
(* document has no metadata but its text, so what was read does not matter. *)
WriteText(w) ==
  /\ worker[w].pc = "extract"
  /\ item' = [item EXCEPT ![worker[w].item].metadata = TRUE]
  /\ worker' = [worker EXCEPT ![w].pc = "finish"]
  /\ UNCHANGED <<calls, ocr, entry, cron, hurt, crashes>>

FinishDone(w) ==
  /\ worker[w].pc = "finish"
  /\ ocr' = [ocr EXCEPT ![worker[w].item] = "DONE"]
  /\ worker' = [worker EXCEPT ![w].pc = "ack"]
  /\ UNCHANGED <<calls, item, entry, cron, hurt, crashes>>

(* The download, the extraction or an update throws: it is caught ... *)
ProcessingFails(w) ==
  /\ worker[w].pc \in {"extract", "finish"}
  /\ worker' = [worker EXCEPT ![w].pc = "fail"]
  /\ UNCHANGED <<calls, item, ocr, entry, cron, hurt, crashes>>

(* Plausible slip: the failure is only logged. *)
StatusOfFailure_Unchanged(d) == ocr[d]

StatusOfFailure(d) == "FAILED"

(* ... and recorded. *)
RecordFailure(w) ==
  LET d == worker[w].item
  IN /\ worker[w].pc = "fail"
     /\ ocr' = [ocr EXCEPT ![d] = StatusOfFailure(d)]
     /\ worker' = [worker EXCEPT ![w].pc = "ack"]
     /\ UNCHANGED <<calls, item, entry, cron, hurt, crashes>>

(* The first update, or the one in the catch, throws: so does process. *)
ProcessThrows(w) ==
  /\ worker[w].pc \in {"begin", "fail"}
  /\ worker' = [worker EXCEPT ![w].pc = "ack"]
  /\ hurt' = hurt \cup {worker[w].item}
  /\ UNCHANGED <<calls, item, ocr, entry, cron, crashes>>

(* process is over, and BullMQ hears of it; there is no second attempt.     *)
Ack(w) ==
  /\ worker[w].pc = "ack"
  /\ entry' = [entry EXCEPT ![worker[w].item].state = "over"]
  /\ worker' = [worker EXCEPT ![w] = Resting]
  /\ UNCHANGED <<calls, item, ocr, cron, hurt, crashes>>

-----------------------------------------------------------------------------
(* The retentionExpiryDate of an item passes, a day or more after it was    *)
(* made.                                                                    *)
Expire(d) ==
  /\ item[d].row /\ item[d].applied # "none"
  /\ upload[d] = "over"
  /\ ~item[d].expired
  /\ item' = [item EXCEPT ![d].expired = TRUE]
  /\ UNCHANGED <<calls, ocr, queue, cron, hurt, crashes>>

DayPasses ==
  /\ \E d \in Items : item[d].deleted \in 1..Grace
  /\ item' = [d \in Items |-> IF item[d].deleted \in 1..Grace
                              THEN [item[d] EXCEPT !.deleted = @ + 1] ELSE item[d]]
  /\ UNCHANGED <<calls, ocr, queue, cron, hurt, crashes>>

(* Plausible slip: what is deleted already is found again. *)
DueForAction_Again(d) == item[d].row /\ item[d].expired

(* Plausible slip: the expiry date is not looked at. *)
DueForAction_Any(d) == item[d].row /\ item[d].deleted = 0

DueForAction(d) == item[d].row /\ item[d].expired /\ item[d].deleted = 0

(* applyExpiryActions: the expired items ... *)
CronStarts ==
  /\ cron.pass = "none"
  /\ cron' = [pass |-> "act", todo |-> {d \in Items : DueForAction(d)}]
  /\ UNCHANGED <<calls, item, ocr, queue, hurt, crashes>>

ActionOf(d) == item[d].applied

(* ... each treated as its own snapshot of the policy says ... *)
ApplyAction(d) ==
  /\ cron.pass = "act" /\ d \in cron.todo
  /\ item' = [item EXCEPT ![d].deleted = IF ActionOf(d) = "DELETE" THEN 1 ELSE @]
  /\ cron' = [cron EXCEPT !.todo = @ \ {d}]
  /\ UNCHANGED <<calls, ocr, queue, hurt, crashes>>

(* Plausible slip: the grace period is forgotten. *)
DueForScrub_Deleted(d) == item[d].deleted > 0

DueForScrub(d) == item[d].deleted > Grace

(* ... then hardDeleteExpiredSoftDeletes: those deleted long enough ... *)
CronGoesOn ==
  /\ cron.pass = "act" /\ cron.todo = {}
  /\ cron' = [pass |-> "scrub", todo |-> {d \in Items : DueForScrub(d)}]
  /\ UNCHANGED <<calls, item, ocr, queue, hurt, crashes>>

(* Plausible slip: the title stays. *)
Scrubbed_MetadataOnly(i) == [i EXCEPT !.metadata = FALSE]

Scrubbed(i) == [i EXCEPT !.title = FALSE, !.metadata = FALSE]

(* ... are scrubbed, the ones scrubbed before among them. *)
Scrub(d) ==
  /\ cron.pass = "scrub" /\ d \in cron.todo
  /\ item' = [item EXCEPT ![d] = Scrubbed(@)]
  /\ cron' = [cron EXCEPT !.todo = @ \ {d}]
  /\ UNCHANGED <<calls, ocr, queue, hurt, crashes>>

(* A treatment that throws is logged; the item is found again another day.  *)
CronSkips(d) ==
  /\ d \in cron.todo
  /\ cron' = [cron EXCEPT !.todo = @ \ {d}]
  /\ UNCHANGED <<calls, item, ocr, queue, hurt, crashes>>

(* One of the run's queries throws. *)
CronThrows ==
  /\ cron.pass # "none"
  /\ cron' = Sleeping
  /\ UNCHANGED <<calls, item, ocr, queue, hurt, crashes>>

(* The run is over. *)
CronEnds ==
  /\ cron.pass = "scrub" /\ cron.todo = {}
  /\ cron' = Sleeping
  /\ UNCHANGED <<calls, item, ocr, queue, hurt, crashes>>

-----------------------------------------------------------------------------
(* A job whose worker died is stalled: BullMQ hands it out again, unless    *)
(* that has happened to it before.                                          *)
Stalled(en) ==
  IF en.state # "active" THEN en
  ELSE IF en.stalls < MaxStalls THEN [state |-> "waiting", stalls |-> en.stalls + 1]
  ELSE [en EXCEPT !.state = "over"]

(* The process dies with all it was doing: uploads, workers and the cron.   *)
Crash ==
  /\ crashes < MaxCrashes
  /\ crashes' = crashes + 1
  /\ hurt' = hurt \cup {d \in Items : \/ upload[d] = "queue"
                                      \/ entry[d].state = "active" /\ entry[d].stalls = MaxStalls}
  /\ upload' = [d \in Items |-> IF upload[d] = "none" THEN "none" ELSE "over"]
  /\ entry' = [d \in Items |-> Stalled(entry[d])]
  /\ worker' = [w \in Workers |-> Resting]
  /\ cron' = Sleeping
  /\ UNCHANGED <<policy, item, ocr>>

Upload(d) ==
  \/ \E metadata \in BOOLEAN : CreateItem(d, metadata)
  \/ RecordMedia(d)
  \/ RecordFile(d)
  \/ Enqueue(d)

Process(w) ==
  \/ Begin(w) \/ WriteText(w) \/ FinishDone(w)
  \/ ProcessingFails(w) \/ RecordFailure(w) \/ ProcessThrows(w)
  \/ Ack(w)

Next ==
  \/ \E a \in Policies : UpsertPolicy(a)
  \/ \E d \in Items : \/ StartUpload(d) \/ Upload(d) \/ UploadFails(d)
                      \/ Expire(d)
                      \/ ApplyAction(d) \/ Scrub(d) \/ CronSkips(d)
  \/ \E w \in Workers, d \in Documents : Take(w, d)
  \/ \E w \in Workers : Process(w)
  \/ DayPasses
  \/ CronStarts \/ CronGoesOn \/ CronThrows \/ CronEnds
  \/ Crash

Spec == Init /\ [][Next]_vars

(* Time passes; Node goes on with an upload whose call has answered; workers*)
(* run and BullMQ gives them jobs; the cron runs every day, gets to its     *)
(* second pass every now and then, and does not fail every time on the same *)
(* item.                                                                    *)
Fairness ==
  /\ WF_vars(DayPasses)
  /\ WF_vars(CronStarts) /\ SF_vars(CronGoesOn) /\ WF_vars(CronEnds)
  /\ \A d \in Items : /\ WF_vars(Expire(d)) /\ WF_vars(Upload(d))
                      /\ SF_vars(ApplyAction(d)) /\ SF_vars(Scrub(d))
                      /\ WF_vars(\E w \in Workers : Take(w, d))
  /\ \A w \in Workers : WF_vars(Process(w))

FairSpec == Spec /\ Fairness

-----------------------------------------------------------------------------
TypeOK ==
  /\ policy \in Snapshots
  /\ upload \in [Items -> {"none", "create", "media", "file", "queue", "over"}]
  /\ item \in [Items -> Item]
  /\ ocr \in [Items -> {"none", "PENDING", "PROCESSING", "DONE", "FAILED"}]
  /\ entry \in [Items -> Entry]
  /\ worker \in [Workers -> Worker]
  /\ \A w \in Workers : worker[w].pc # "idle" => worker[w].item \in Documents
  /\ cron \in [pass : {"none", "act", "scrub"}, todo : SUBSET Items]
  /\ cron.pass = "act" => \A d \in cron.todo : item[d].row /\ item[d].expired
  /\ hurt \subseteq Documents
  /\ crashes \in 0..MaxCrashes

(* A document that says DONE has its text, unless it was scrubbed, whatever *)
(* the order in which workers, second runs after a crash and the cron get   *)
(* at it (DocumentProcessor.process, hardDeleteExpiredSoftDeletes).         *)
DoneHasText == \A d \in Items : ocr[d] = "DONE" /\ item[d].title => item[d].metadata

(* Content is lost only when the item's own snapshot of the policy says     *)
(* DELETE, however the tenant's policy changes later, and when its grace    *)
(* period is over; and nothing moves the day from which that period counts  *)
(* (computeForNewItem, hardDeleteExpiredSoftDeletes).                       *)
GraceRespected ==
  [][\A d \in Items :
       /\ item[d].deleted > 0 => item'[d].deleted >= item[d].deleted
       /\ \/ item[d].title /\ ~item'[d].title
          \/ item[d].metadata /\ ~item'[d].metadata
          => item[d].applied = "DELETE" /\ item[d].deleted > Grace]_vars

(* Every item made under a policy that deletes is erased in the end and     *)
(* stays erased, though a worker may write its text back after a scrub.     *)
(* (That an item is there, and under which policy, never changes again.)    *)
EventuallyErased ==
  <>[](\A d \in Items : item[d].row /\ item[d].applied = "DELETE" =>
                         ~item[d].title /\ ~item[d].metadata)

(* A document is processed or says that it failed, unless the step that     *)
(* would have queued it or said so was lost.                                *)
PendingEnds == \A d \in Documents : ocr[d] = "PENDING" ~> (ocr[d] \in {"DONE", "FAILED"} \/ d \in hurt)
=============================================================================
