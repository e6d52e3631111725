----------------------- MODULE DocumentRetentionProofs -----------------------
(***************************************************************************)
(* What the life of an item keeps for any number of items, workers, days   *)
(* of grace and crashes: types, DONE documents that have their text, and   *)
(* content that is lost by its own policy and after its grace only.        *)
(***************************************************************************)
EXTENDS DocumentRetention, TLAPS

(* An item that is not there yet has nothing. *)
Fresh ==
  \A d \in Items : upload[d] \in {"none", "create"} =>
    /\ ~item[d].row /\ ~item[d].expired /\ item[d].deleted = 0
    /\ ~item[d].title /\ ~item[d].metadata /\ ocr[d] = "none"

(* Only documents are queued, when their upload is over.                    *)
Queued ==
  /\ \A d \in Items : upload[d] \in {"file", "queue"} => d \in Documents
  /\ \A d \in Items : entry[d].state # "none" => d \in Documents /\ upload[d] = "over"
  /\ \A w \in Workers : worker[w].pc # "idle" => entry[worker[w].item].state # "none"

(* The cron is at items that are not deleted yet, or deleted long enough,   *)
(* and what is deleted was to be.                                           *)
CronAt ==
  /\ \A d \in Items : item[d].deleted > 0 => item[d].applied = "DELETE" /\ item[d].row
  /\ cron.pass = "act" => \A d \in cron.todo : item[d].deleted = 0
  /\ cron.pass = "scrub" => \A d \in cron.todo : item[d].deleted > Grace

Inv == TypeOK /\ Fresh /\ Queued /\ CronAt

(* What a step makes of an item.                                            *)
Started(d) ==
  /\ upload[d] = "none" /\ upload'[d] = "create" /\ UNCHANGED cron
  /\ item'[d].row = item[d].row /\ item'[d].expired = item[d].expired
  /\ item'[d].deleted = item[d].deleted /\ item'[d].title = item[d].title
  /\ item'[d].metadata = item[d].metadata

Created(d) ==
  /\ upload[d] = "create" /\ upload'[d] \notin {"none", "create"}
  /\ UNCHANGED <<ocr, worker, cron>>
  /\ item'[d].row
  /\ item'[d].applied = item[d].applied /\ item'[d].expired = item[d].expired
  /\ item'[d].deleted = item[d].deleted

Written(d) ==
  /\ UNCHANGED cron
  /\ \E w \in Workers : worker[w].pc = "extract" /\ worker[w].item = d
  /\ item'[d].metadata
  /\ item'[d].row = item[d].row /\ item'[d].applied = item[d].applied
  /\ item'[d].expired = item[d].expired /\ item'[d].deleted = item[d].deleted
  /\ item'[d].title = item[d].title

Lapsed(d) ==
  /\ UNCHANGED cron
  /\ item[d].row /\ item'[d].expired
  /\ item'[d].row = item[d].row /\ item'[d].applied = item[d].applied
  /\ item'[d].deleted = item[d].deleted /\ item'[d].title = item[d].title
  /\ item'[d].metadata = item[d].metadata

Aged(d) ==
  /\ UNCHANGED cron
  /\ item[d].deleted > 0 /\ item'[d].deleted >= item[d].deleted
  /\ item'[d].row = item[d].row /\ item'[d].applied = item[d].applied
  /\ item'[d].expired = item[d].expired /\ item'[d].title = item[d].title
  /\ item'[d].metadata = item[d].metadata

Deleted(d) ==
  /\ cron.pass = "act" /\ d \in cron.todo /\ cron' = [cron EXCEPT !.todo = @ \ {d}]
  /\ item[d].applied = "DELETE" /\ item'[d].deleted > 0
  /\ item'[d].row = item[d].row /\ item'[d].applied = item[d].applied
  /\ item'[d].expired = item[d].expired /\ item'[d].title = item[d].title
  /\ item'[d].metadata = item[d].metadata

Emptied(d) ==
  /\ cron.pass = "scrub" /\ d \in cron.todo /\ cron' = [cron EXCEPT !.todo = @ \ {d}]
  /\ ~item'[d].title /\ ~item'[d].metadata
  /\ item'[d].row = item[d].row /\ item'[d].applied = item[d].applied
  /\ item'[d].expired = item[d].expired /\ item'[d].deleted = item[d].deleted

Change(d) ==
  \/ item'[d] = item[d]
  \/ Started(d) \/ Created(d) \/ Written(d) \/ Lapsed(d) \/ Aged(d) \/ Deleted(d) \/ Emptied(d)

(* The whole of a step: an item changes in one of these ways and keeps its  *)
(* type.                                                                    *)
LEMMA Changes ==
  ASSUME Inv, [Next]_vars, NEW d \in Items
  PROVE  Change(d) /\ item'[d] \in Item
  <1> DEFINE Goal == Change(d) /\ item'[d] \in Item
  <1>1. item \in [Items -> Item] /\ item[d] \in Item /\ policy \in Snapshots
    BY DEF Inv, TypeOK
  <1>2. ASSUME item'[d] = item[d]
        PROVE  Goal
    BY <1>1, <1>2 DEF Change
  <1>3. ASSUME NEW e \in Items, StartUpload(e)
        PROVE  Goal
    <2>1. CASE e # d
      BY <1>1, <1>2, <1>3, <2>1 DEF StartUpload
    <2>2. CASE e = d
      <3>1. item'[d] = [item[d] EXCEPT !.applied = policy]
        BY <1>1, <1>3, <2>2 DEF StartUpload
      <3>2. upload[d] = "none" /\ upload'[d] = "create" /\ UNCHANGED cron
        BY <1>3, <2>2 DEF StartUpload, Inv, TypeOK
      <3> QED BY <1>1, <2>2, <3>1, <3>2 DEF Change, Started, Item
    <2> QED BY <2>1, <2>2
  <1>4. ASSUME NEW e \in Items, NEW m \in BOOLEAN, CreateItem(e, m)
        PROVE  Goal
    <2>1. CASE e # d
      BY <1>1, <1>2, <1>4, <2>1 DEF CreateItem, AfterCreate
    <2>2. CASE e = d
      <3>1. item'[d] = [item[d] EXCEPT !.row = TRUE, !.title = TRUE, !.metadata = m]
        BY <1>1, <1>4, <2>2 DEF CreateItem, AfterCreate
      <3>2. upload[d] = "create" /\ upload'[d] \notin {"none", "create"}
            /\ UNCHANGED <<ocr, worker, cron>>
        BY <1>4, <2>2 DEF CreateItem, AfterCreate, Inv, TypeOK, queue
      <3> QED BY <1>1, <2>2, <3>1, <3>2 DEF Change, Created, Item
    <2> QED BY <2>1, <2>2
  <1>5. ASSUME NEW w \in Workers, WriteText(w)
        PROVE  Goal
    <2>1. CASE worker[w].item # d
      BY <1>1, <1>2, <1>5, <2>1 DEF WriteText
    <2>2. CASE worker[w].item = d
      <3>1. item'[d] = [item[d] EXCEPT !.metadata = TRUE]
        BY <1>1, <1>5, <2>2 DEF WriteText
      <3>2. worker[w].pc = "extract" /\ UNCHANGED cron
        BY <1>5, <2>2 DEF WriteText
      <3> QED BY <1>1, <2>2, <3>1, <3>2 DEF Change, Written, Item
    <2> QED BY <2>1, <2>2
  <1>6. ASSUME NEW e \in Items, Expire(e)
        PROVE  Goal
    <2>1. CASE e # d
      BY <1>1, <1>2, <1>6, <2>1 DEF Expire
    <2>2. CASE e = d
      <3>1. item'[d] = [item[d] EXCEPT !.expired = TRUE]
        BY <1>1, <1>6, <2>2 DEF Expire
      <3>2. item[d].row /\ UNCHANGED cron
        BY <1>6, <2>2 DEF Expire
      <3> QED BY <1>1, <2>2, <3>1, <3>2 DEF Change, Lapsed, Item
    <2> QED BY <2>1, <2>2
  <1>9. ASSUME NEW e \in Items, Scrub(e)
        PROVE  Goal
    <2>1. CASE e # d
      BY <1>1, <1>2, <1>9, <2>1 DEF Scrub
    <2>2. CASE e = d
      <3>1. item'[d] = [item[d] EXCEPT !.title = FALSE, !.metadata = FALSE]
        BY <1>1, <1>9, <2>2 DEF Scrub, Scrubbed
      <3>2. cron.pass = "scrub" /\ d \in cron.todo /\ cron' = [cron EXCEPT !.todo = @ \ {d}]
        BY <1>9, <2>2 DEF Scrub, Scrubbed
      <3> QED BY <1>1, <2>2, <3>1, <3>2 DEF Change, Emptied, Item
    <2> QED BY <2>1, <2>2
  <1>7. ASSUME DayPasses
        PROVE  Goal
    <2>1. CASE item[d].deleted \in 1..Grace
      <3>1. item'[d] = [item[d] EXCEPT !.deleted = item[d].deleted + 1] /\ UNCHANGED cron
        BY <1>1, <1>7, <2>1 DEF DayPasses
      <3> QED BY <1>1, <2>1, <3>1, NumbersAssumption DEF Change, Aged, Item
    <2>2. CASE item[d].deleted \notin 1..Grace
      BY <1>1, <1>2, <1>7, <2>2 DEF DayPasses
    <2> QED BY <2>1, <2>2
  <1>8. ASSUME NEW e \in Items, ApplyAction(e)
        PROVE  Goal
    <2>1. CASE e # d
      BY <1>1, <1>2, <1>8, <2>1 DEF ApplyAction
    <2>2. CASE e = d /\ item[d].applied = "DELETE"
      <3>1. item'[d] = [item[d] EXCEPT !.deleted = 1]
        BY <1>1, <1>8, <2>2 DEF ApplyAction, ActionOf
      <3>2. cron.pass = "act" /\ d \in cron.todo /\ cron' = [cron EXCEPT !.todo = @ \ {d}]
        BY <1>8, <2>2 DEF ApplyAction
      <3> QED BY <1>1, <2>2, <3>1, <3>2, NumbersAssumption DEF Change, Deleted, Item
    <2>3. CASE e = d /\ item[d].applied # "DELETE"
      <3>1. item'[d] = [item[d] EXCEPT !.deleted = item[d].deleted]
        BY <1>1, <1>8, <2>3 DEF ApplyAction, ActionOf
      <3>2. [item[d] EXCEPT !.deleted = item[d].deleted] = item[d]
        BY <1>1 DEF Item
      <3> QED BY <1>2, <3>1, <3>2
    <2> QED BY <2>1, <2>2, <2>3
  <1>10. CASE UNCHANGED item
    BY <1>2, <1>10
  <1> HIDE DEF Goal
  <1> QED
    BY <1>3, <1>4, <1>5, <1>6, <1>7, <1>8, <1>9, <1>10
    DEF Next, vars, Upload, Process, UpsertPolicy, RecordMedia, RecordFile, Enqueue,
       UploadFails, Take, Begin, FinishDone, ProcessingFails, RecordFailure, ProcessThrows,
       Ack, CronStarts,
        CronGoesOn, CronThrows, CronEnds, CronSkips, Crash, Goal

(* An item that has been made stays, and so do its snapshot and its expiry. *)
LEMMA Lasting ==
  ASSUME Inv, [Next]_vars, NEW d \in Items, item[d].row
  PROVE  /\ item'[d].row /\ item'[d].applied = item[d].applied
         /\ item[d].expired => item'[d].expired
         /\ item[d].deleted > 0 => item'[d].deleted > 0
  <1>1. upload[d] \notin {"none", "create"}
    BY DEF Inv, Fresh
  <1>2. item[d].deleted \in Nat /\ item'[d].deleted \in Nat
    BY Changes, NumbersAssumption DEF Inv, TypeOK, Item
  <1> QED BY <1>1, <1>2, Changes
          DEF Change, Started, Created, Written, Lapsed, Aged, Deleted, Emptied

-----------------------------------------------------------------------------
(* What a step may do to the items ...                                     *)
LEMMA ItemSteps ==
  ASSUME Inv, [Next]_vars
  PROVE  item' = [d \in Items |-> item'[d]]
  <1> DEFINE Goal == item' = [d \in Items |-> item'[d]]
  <1>1. item = [d \in Items |-> item[d]]
    BY DEF Inv, TypeOK
  <1>2. ASSUME UNCHANGED item
        PROVE  Goal
    BY <1>1, <1>2
  <1>3. ASSUME NEW e \in Items, StartUpload(e)
        PROVE  Goal
    BY <1>1, <1>3 DEF StartUpload
  <1>4. ASSUME NEW e \in Items, NEW m \in BOOLEAN, CreateItem(e, m)
        PROVE  Goal
    BY <1>1, <1>4 DEF CreateItem, AfterCreate
  <1>5. ASSUME NEW w \in Workers, WriteText(w)
        PROVE  Goal
    BY <1>1, <1>5 DEF WriteText
  <1>6. ASSUME NEW e \in Items, Expire(e) \/ ApplyAction(e) \/ Scrub(e)
        PROVE  Goal
    BY <1>1, <1>6 DEF Expire, ApplyAction, Scrub
  <1>7. ASSUME DayPasses
        PROVE  Goal
    BY <1>1, <1>7 DEF DayPasses
  <1> HIDE DEF Goal
  <1>8. ASSUME CronStarts \/ CronGoesOn \/ CronThrows \/ CronEnds \/ Crash
        PROVE  Goal
    <2>1. UNCHANGED item
      BY <1>8 DEF calls, queue, CronStarts, CronGoesOn, CronThrows, CronEnds, Crash
    <2> QED BY <1>2, <2>1
  <1>9. ASSUME NEW a \in Policies, UpsertPolicy(a)
        PROVE  Goal
    <2>1. UNCHANGED item
      BY <1>9 DEF calls, queue, UpsertPolicy
    <2> QED BY <1>2, <2>1
  <1>10. ASSUME NEW e \in Items,
                RecordMedia(e) \/ RecordFile(e) \/ Enqueue(e) \/ UploadFails(e) \/ CronSkips(e)
        PROVE  Goal
    <2>1. UNCHANGED item
      BY <1>10 DEF calls, queue, RecordMedia, RecordFile, Enqueue, UploadFails, CronSkips
    <2> QED BY <1>2, <2>1
  <1>11. ASSUME NEW w \in Workers, NEW e \in Documents, Take(w, e)
        PROVE  Goal
    <2>1. UNCHANGED item
      BY <1>11 DEF calls, queue, Take
    <2> QED BY <1>2, <2>1
  <1>12. ASSUME NEW w \in Workers, Begin(w) \/ FinishDone(w) \/ ProcessingFails(w)
               \/ RecordFailure(w) \/ ProcessThrows(w) \/ Ack(w)
        PROVE  Goal
    <2>1. UNCHANGED item
      BY <1>12 DEF calls, queue, Begin, FinishDone, ProcessingFails, RecordFailure,
         ProcessThrows, Ack
    <2> QED BY <1>2, <2>1
  <1>13. ASSUME UNCHANGED vars
        PROVE  Goal
    BY <1>2, <1>13 DEF vars
  <1>14. Goal
    BY <1>2, <1>3, <1>4, <1>5, <1>6, <1>7, <1>8, <1>9, <1>10, <1>11, <1>12, <1>13 DEF Next,
       Upload, Process
  <1> QED BY <1>14 DEF Goal

(* ... to an upload ...                                                     *)
LEMMA UploadSteps ==
  ASSUME Inv, [Next]_vars
  PROVE  /\ upload' \in [Items -> {"none", "create", "media", "file", "queue", "over"}]
         /\ \A d \in Items :
              /\ upload[d] # "none" => upload'[d] # "none"
              /\ upload'[d] \in {"none", "create"} => upload[d] \in {"none", "create"}
              /\ upload'[d] \in {"file", "queue"} => d \in Documents
              /\ upload[d] = "over" => upload'[d] = "over"
  <1> DEFINE Goal == /\ upload' \in [Items -> {"none", "create", "media", "file", "queue", "over"}]
                     /\ \A d \in Items :
                          /\ upload[d] # "none" => upload'[d] # "none"
                          /\ upload'[d] \in {"none", "create"} => upload[d] \in {"none", "create"}
                          /\ upload'[d] \in {"file", "queue"} => d \in Documents
                          /\ upload[d] = "over" => upload'[d] = "over"
  <1>1. /\ upload \in [Items -> {"none", "create", "media", "file", "queue", "over"}]
        /\ \A e \in Items : upload[e] \in {"file", "queue"} => e \in Documents
    BY ItemsAssumption DEF Inv, TypeOK, Queued
  <1>2. ASSUME UNCHANGED upload
        PROVE  Goal
    BY <1>1, <1>2
  <1>3. ASSUME NEW e \in Items, StartUpload(e)
        PROVE  Goal
    BY <1>1, <1>3 DEF StartUpload
  <1>4. ASSUME NEW e \in Items, NEW m \in BOOLEAN, CreateItem(e, m)
        PROVE  Goal
    BY <1>1, <1>4 DEF CreateItem, AfterCreate
  <1>5. ASSUME NEW e \in Items, RecordMedia(e) \/ RecordFile(e)
        PROVE  Goal
    BY <1>1, <1>5 DEF RecordMedia, RecordFile
  <1>6. ASSUME NEW e \in Items, Enqueue(e)
        PROVE  Goal
    BY <1>1, <1>6 DEF Enqueue
  <1>7. ASSUME NEW e \in Items, UploadFails(e)
        PROVE  Goal
    BY <1>1, <1>7 DEF UploadFails
  <1>8. ASSUME Crash
        PROVE  Goal
    BY <1>1, <1>8 DEF Crash
  <1> HIDE DEF Goal
  <1>9. ASSUME DayPasses \/ CronStarts \/ CronGoesOn \/ CronThrows \/ CronEnds
        PROVE  Goal
    <2>1. UNCHANGED upload
      BY <1>9 DEF calls, queue, DayPasses, CronStarts, CronGoesOn, CronThrows, CronEnds
    <2> QED BY <1>2, <2>1
  <1>10. ASSUME NEW a \in Policies, UpsertPolicy(a)
        PROVE  Goal
    <2>1. UNCHANGED upload
      BY <1>10 DEF calls, queue, UpsertPolicy
    <2> QED BY <1>2, <2>1
  <1>11. ASSUME NEW e \in Items, Expire(e) \/ ApplyAction(e) \/ Scrub(e) \/ CronSkips(e)
        PROVE  Goal
    <2>1. UNCHANGED upload
      BY <1>11 DEF calls, queue, Expire, ApplyAction, Scrub, CronSkips
    <2> QED BY <1>2, <2>1
  <1>12. ASSUME NEW w \in Workers, NEW e \in Documents, Take(w, e)
        PROVE  Goal
    <2>1. UNCHANGED upload
      BY <1>12 DEF calls, queue, Take
    <2> QED BY <1>2, <2>1
  <1>13. ASSUME NEW w \in Workers, Begin(w) \/ WriteText(w) \/ FinishDone(w)
               \/ ProcessingFails(w) \/ RecordFailure(w) \/ ProcessThrows(w) \/ Ack(w)
        PROVE  Goal
    <2>1. UNCHANGED upload
      BY <1>13 DEF calls, queue, Begin, WriteText, FinishDone, ProcessingFails, RecordFailure,
         ProcessThrows, Ack
    <2> QED BY <1>2, <2>1
  <1>14. ASSUME UNCHANGED vars
        PROVE  Goal
    BY <1>2, <1>14 DEF vars
  <1>15. Goal
    BY <1>2, <1>3, <1>4, <1>5, <1>6, <1>7, <1>8, <1>9, <1>10, <1>11, <1>12, <1>13, <1>14 DEF
       Next, Upload, Process
  <1> QED BY <1>15 DEF Goal

(* ... to a BullMQ job ...                                                  *)
LEMMA EntrySteps ==
  ASSUME Inv, [Next]_vars
  PROVE  /\ entry' \in [Items -> Entry]
         /\ \A d \in Items :
              /\ entry[d].state # "none" => entry'[d].state # "none"
              /\ entry'[d].state # "none" =>
                   \/ entry[d].state # "none"
                   \/ upload[d] = "queue" /\ upload'[d] = "over"
  <1> DEFINE Goal == /\ entry' \in [Items -> Entry]
                     /\ \A d \in Items :
                          /\ entry[d].state # "none" => entry'[d].state # "none"
                          /\ entry'[d].state # "none" =>
                               \/ entry[d].state # "none"
                               \/ upload[d] = "queue" /\ upload'[d] = "over"
  <1>1. /\ entry \in [Items -> Entry]
        /\ upload \in [Items -> {"none", "create", "media", "file", "queue", "over"}]
        /\ \A w \in Workers : worker[w].pc # "idle" => entry[worker[w].item].state # "none"
    BY ItemsAssumption DEF Inv, TypeOK, Queued
  <1>2. ASSUME UNCHANGED entry
        PROVE  Goal
    BY <1>1, <1>2
  <1>3. ASSUME NEW e \in Items, Enqueue(e)
        PROVE  Goal
    BY <1>1, <1>3 DEF Enqueue, Entry
  <1>4. ASSUME NEW w \in Workers, NEW e \in Documents, Take(w, e)
        PROVE  Goal
    BY <1>1, <1>4 DEF Take, Entry
  <1>5. ASSUME NEW w \in Workers, Ack(w)
        PROVE  Goal
    BY <1>1, <1>5 DEF Ack, Entry
  <1>6. ASSUME Crash
        PROVE  Goal
    BY <1>1, <1>6, NumbersAssumption DEF Crash, Stalled, Entry
  <1> HIDE DEF Goal
  <1>7. ASSUME DayPasses \/ CronStarts \/ CronGoesOn \/ CronThrows \/ CronEnds
        PROVE  Goal
    <2>1. UNCHANGED entry
      BY <1>7 DEF calls, queue, DayPasses, CronStarts, CronGoesOn, CronThrows, CronEnds
    <2> QED BY <1>2, <2>1
  <1>8. ASSUME NEW a \in Policies, UpsertPolicy(a)
        PROVE  Goal
    <2>1. UNCHANGED entry
      BY <1>8 DEF calls, queue, UpsertPolicy
    <2> QED BY <1>2, <2>1
  <1>9. ASSUME NEW e \in Items,
               StartUpload(e) \/ RecordMedia(e) \/ RecordFile(e) \/ UploadFails(e)
               \/ Expire(e) \/ ApplyAction(e) \/ Scrub(e) \/ CronSkips(e)
        PROVE  Goal
    <2>1. UNCHANGED entry
      BY <1>9 DEF calls, queue, StartUpload, RecordMedia, RecordFile, UploadFails, Expire,
         ApplyAction, Scrub, CronSkips
    <2> QED BY <1>2, <2>1
  <1>10. ASSUME NEW e \in Items, NEW m \in BOOLEAN, CreateItem(e, m)
        PROVE  Goal
    <2>1. UNCHANGED entry
      BY <1>10 DEF calls, queue, CreateItem, AfterCreate
    <2> QED BY <1>2, <2>1
  <1>11. ASSUME NEW w \in Workers, Begin(w) \/ WriteText(w) \/ FinishDone(w)
               \/ ProcessingFails(w) \/ RecordFailure(w) \/ ProcessThrows(w)
        PROVE  Goal
    <2>1. UNCHANGED entry
      BY <1>11 DEF calls, queue, Begin, WriteText, FinishDone, ProcessingFails, RecordFailure,
         ProcessThrows
    <2> QED BY <1>2, <2>1
  <1>12. ASSUME UNCHANGED vars
        PROVE  Goal
    BY <1>2, <1>12 DEF vars
  <1>13. Goal
    BY <1>2, <1>3, <1>4, <1>5, <1>6, <1>7, <1>8, <1>9, <1>10, <1>11, <1>12 DEF Next, Upload,
       Process
  <1> QED BY <1>13 DEF Goal

(* ... to document_files ...                                                *)
LEMMA OcrSteps ==
  ASSUME Inv, [Next]_vars
  PROVE  /\ ocr' \in [Items -> {"none", "PENDING", "PROCESSING", "DONE", "FAILED"}]
         /\ \A d \in Items :
              /\ ocr'[d] # "none" => ocr[d] # "none" \/ upload[d] \in {"file", "over"}
              /\ ocr'[d] = "DONE" =>
                   \/ ocr[d] = "DONE"
                   \/ /\ UNCHANGED item
                      /\ \E w \in Workers :
                           worker[w].pc = "finish" /\ worker[w].item = d
  <1> DEFINE Goal == /\ ocr' \in [Items -> {"none", "PENDING", "PROCESSING", "DONE", "FAILED"}]
                     /\ \A d \in Items :
                          /\ ocr'[d] # "none" => ocr[d] # "none" \/ upload[d] \in {"file", "over"}
                          /\ ocr'[d] = "DONE" =>
                               \/ ocr[d] = "DONE"
                               \/ /\ UNCHANGED item
                                  /\ \E w \in Workers :
                                       worker[w].pc = "finish" /\ worker[w].item = d
  <1>1. /\ ocr \in [Items -> {"none", "PENDING", "PROCESSING", "DONE", "FAILED"}]
        /\ \A w \in Workers : worker[w].pc # "idle" => upload[worker[w].item] = "over"
    BY ItemsAssumption DEF Inv, TypeOK, Queued
  <1>2. ASSUME UNCHANGED ocr
        PROVE  Goal
    BY <1>1, <1>2
  <1>3. ASSUME NEW e \in Items, RecordMedia(e) \/ RecordFile(e)
        PROVE  Goal
    BY <1>1, <1>3 DEF RecordMedia, RecordFile
  <1>4. ASSUME NEW w \in Workers, Begin(w)
        PROVE  Goal
    BY <1>1, <1>4 DEF Begin
  <1>5. ASSUME NEW w \in Workers, FinishDone(w)
        PROVE  Goal
    BY <1>1, <1>5 DEF FinishDone
  <1>6. ASSUME NEW w \in Workers, RecordFailure(w)
        PROVE  Goal
    BY <1>1, <1>6 DEF RecordFailure, StatusOfFailure
  <1> HIDE DEF Goal
  <1>7. ASSUME DayPasses \/ CronStarts \/ CronGoesOn \/ CronThrows \/ CronEnds \/ Crash
        PROVE  Goal
    <2>1. UNCHANGED ocr
      BY <1>7 DEF calls, queue, DayPasses, CronStarts, CronGoesOn, CronThrows, CronEnds, Crash
    <2> QED BY <1>2, <2>1
  <1>8. ASSUME NEW a \in Policies, UpsertPolicy(a)
        PROVE  Goal
    <2>1. UNCHANGED ocr
      BY <1>8 DEF calls, queue, UpsertPolicy
    <2> QED BY <1>2, <2>1
  <1>9. ASSUME NEW e \in Items, StartUpload(e) \/ Enqueue(e) \/ UploadFails(e) \/ Expire(e)
               \/ ApplyAction(e) \/ Scrub(e) \/ CronSkips(e)
        PROVE  Goal
    <2>1. UNCHANGED ocr
      BY <1>9 DEF calls, queue, StartUpload, Enqueue, UploadFails, Expire, ApplyAction, Scrub,
         CronSkips
    <2> QED BY <1>2, <2>1
  <1>10. ASSUME NEW e \in Items, NEW m \in BOOLEAN, CreateItem(e, m)
        PROVE  Goal
    <2>1. UNCHANGED ocr
      BY <1>10 DEF calls, queue, CreateItem, AfterCreate
    <2> QED BY <1>2, <2>1
  <1>11. ASSUME NEW w \in Workers, NEW e \in Documents, Take(w, e)
        PROVE  Goal
    <2>1. UNCHANGED ocr
      BY <1>11 DEF calls, queue, Take
    <2> QED BY <1>2, <2>1
  <1>12. ASSUME NEW w \in Workers, WriteText(w) \/ ProcessingFails(w) \/ ProcessThrows(w)
               \/ Ack(w)
        PROVE  Goal
    <2>1. UNCHANGED ocr
      BY <1>12 DEF calls, queue, WriteText, ProcessingFails, ProcessThrows, Ack
    <2> QED BY <1>2, <2>1
  <1>13. ASSUME UNCHANGED vars
        PROVE  Goal
    BY <1>2, <1>13 DEF vars
  <1>14. Goal
    BY <1>2, <1>3, <1>4, <1>5, <1>6, <1>7, <1>8, <1>9, <1>10, <1>11, <1>12, <1>13 DEF Next,
       Upload, Process
  <1> QED BY <1>14 DEF Goal

(* ... to a worker ...                                                      *)
LEMMA WorkerSteps ==
  ASSUME Inv, [Next]_vars
  PROVE  /\ worker' \in [Workers -> Worker]
         /\ \A w \in Workers :
              /\ worker'[w].pc # "idle" =>
                   \/ worker[w].pc # "idle" /\ worker'[w].item = worker[w].item
                   \/ /\ worker'[w].item \in Documents
                      /\ entry[worker'[w].item].state # "none"
              /\ worker'[w].pc = "finish" =>
                   worker'[w] = worker[w] \/ item'[worker'[w].item].metadata
  <1> DEFINE Goal == /\ worker' \in [Workers -> Worker]
                     /\ \A w \in Workers :
                          /\ worker'[w].pc # "idle" =>
                               \/ worker[w].pc # "idle" /\ worker'[w].item = worker[w].item
                               \/ /\ worker'[w].item \in Documents
                                  /\ entry[worker'[w].item].state # "none"
                          /\ worker'[w].pc = "finish" =>
                               worker'[w] = worker[w] \/ item'[worker'[w].item].metadata
  <1>1. /\ worker \in [Workers -> Worker] /\ item \in [Items -> Item]
        /\ \A v \in Workers : worker[v].pc # "idle" => worker[v].item \in Items
    BY ItemsAssumption DEF Inv, TypeOK, Queued
  <1>2. ASSUME UNCHANGED worker
        PROVE  Goal
    BY <1>1, <1>2
  <1>3. ASSUME NEW v \in Workers, NEW e \in Documents, Take(v, e)
        PROVE  Goal
    BY <1>1, <1>3, ItemsAssumption DEF Take, Worker
  <1>4. ASSUME NEW v \in Workers, Begin(v) \/ FinishDone(v) \/ ProcessingFails(v)
               \/ RecordFailure(v) \/ ProcessThrows(v)
        PROVE  Goal
    BY <1>1, <1>4 DEF Begin, FinishDone, ProcessingFails, RecordFailure, ProcessThrows, Worker
  <1>5. ASSUME NEW v \in Workers, WriteText(v)
        PROVE  Goal
    BY <1>1, <1>5 DEF WriteText, Worker, Item
  <1>6. ASSUME NEW v \in Workers, Ack(v)
        PROVE  Goal
    BY <1>1, <1>6 DEF Ack, Worker, Resting
  <1>7. ASSUME Crash
        PROVE  Goal
    BY <1>1, <1>7 DEF Crash, Worker, Resting
  <1> HIDE DEF Goal
  <1>8. ASSUME DayPasses \/ CronStarts \/ CronGoesOn \/ CronThrows \/ CronEnds
        PROVE  Goal
    <2>1. UNCHANGED worker
      BY <1>8 DEF calls, queue, DayPasses, CronStarts, CronGoesOn, CronThrows, CronEnds
    <2> QED BY <1>2, <2>1
  <1>9. ASSUME NEW a \in Policies, UpsertPolicy(a)
        PROVE  Goal
    <2>1. UNCHANGED worker
      BY <1>9 DEF calls, queue, UpsertPolicy
    <2> QED BY <1>2, <2>1
  <1>10. ASSUME NEW e \in Items,
                StartUpload(e) \/ RecordMedia(e) \/ RecordFile(e) \/ Enqueue(e)
                \/ UploadFails(e) \/ Expire(e) \/ ApplyAction(e) \/ Scrub(e) \/ CronSkips(e)
        PROVE  Goal
    <2>1. UNCHANGED worker
      BY <1>10 DEF calls, queue, StartUpload, RecordMedia, RecordFile, Enqueue, UploadFails,
         Expire, ApplyAction, Scrub, CronSkips
    <2> QED BY <1>2, <2>1
  <1>11. ASSUME NEW e \in Items, NEW m \in BOOLEAN, CreateItem(e, m)
        PROVE  Goal
    <2>1. UNCHANGED worker
      BY <1>11 DEF calls, queue, CreateItem, AfterCreate
    <2> QED BY <1>2, <2>1
  <1>12. ASSUME UNCHANGED vars
        PROVE  Goal
    BY <1>2, <1>12 DEF vars
  <1>13. Goal
    BY <1>2, <1>3, <1>4, <1>5, <1>6, <1>7, <1>8, <1>9, <1>10, <1>11, <1>12 DEF Next, Upload,
       Process
  <1> QED BY <1>13 DEF Goal

(* ... to the cron ...                                                      *)
LEMMA CronSteps ==
  ASSUME Inv, [Next]_vars
  PROVE  /\ cron' \in [pass : {"none", "act", "scrub"}, todo : SUBSET Items]
         /\ \/ cron'.pass = "none"
            \/ cron'.pass = cron.pass /\ cron'.todo \subseteq cron.todo
            \/ /\ UNCHANGED item
               /\ cron'.pass = "act" => \A d \in cron'.todo : DueForAction(d)
               /\ cron'.pass = "scrub" => \A d \in cron'.todo : DueForScrub(d)
  <1> DEFINE Goal == /\ cron' \in [pass : {"none", "act", "scrub"}, todo : SUBSET Items]
                     /\ \/ cron'.pass = "none"
                        \/ cron'.pass = cron.pass /\ cron'.todo \subseteq cron.todo
                        \/ /\ UNCHANGED item
                           /\ cron'.pass = "act" => \A d \in cron'.todo : DueForAction(d)
                           /\ cron'.pass = "scrub" => \A d \in cron'.todo : DueForScrub(d)
  <1>1. cron \in [pass : {"none", "act", "scrub"}, todo : SUBSET Items]
    BY DEF Inv, TypeOK
  <1>2. ASSUME UNCHANGED cron
        PROVE  Goal
    BY <1>1, <1>2
  <1>3. ASSUME CronStarts
        PROVE  Goal
    BY <1>1, <1>3 DEF CronStarts
  <1>4. ASSUME CronGoesOn
        PROVE  Goal
    BY <1>1, <1>4 DEF CronGoesOn
  <1>5. ASSUME NEW e \in Items, ApplyAction(e) \/ Scrub(e) \/ CronSkips(e)
        PROVE  Goal
    BY <1>1, <1>5 DEF ApplyAction, Scrub, CronSkips
  <1>6. ASSUME CronThrows \/ CronEnds
        PROVE  Goal
    BY <1>1, <1>6 DEF CronThrows, CronEnds, Sleeping
  <1>7. ASSUME Crash
        PROVE  Goal
    BY <1>1, <1>7 DEF Crash, Sleeping
  <1> HIDE DEF Goal
  <1>8. ASSUME DayPasses
        PROVE  Goal
    <2>1. UNCHANGED cron
      BY <1>8 DEF calls, queue, DayPasses
    <2> QED BY <1>2, <2>1
  <1>9. ASSUME NEW a \in Policies, UpsertPolicy(a)
        PROVE  Goal
    <2>1. UNCHANGED cron
      BY <1>9 DEF calls, queue, UpsertPolicy
    <2> QED BY <1>2, <2>1
  <1>10. ASSUME NEW e \in Items,
                StartUpload(e) \/ RecordMedia(e) \/ RecordFile(e) \/ Enqueue(e)
                \/ UploadFails(e) \/ Expire(e)
        PROVE  Goal
    <2>1. UNCHANGED cron
      BY <1>10 DEF calls, queue, StartUpload, RecordMedia, RecordFile, Enqueue, UploadFails,
         Expire
    <2> QED BY <1>2, <2>1
  <1>11. ASSUME NEW e \in Items, NEW m \in BOOLEAN, CreateItem(e, m)
        PROVE  Goal
    <2>1. UNCHANGED cron
      BY <1>11 DEF calls, queue, CreateItem, AfterCreate
    <2> QED BY <1>2, <2>1
  <1>12. ASSUME NEW w \in Workers, NEW e \in Documents, Take(w, e)
        PROVE  Goal
    <2>1. UNCHANGED cron
      BY <1>12 DEF calls, queue, Take
    <2> QED BY <1>2, <2>1
  <1>13. ASSUME NEW w \in Workers, Begin(w) \/ WriteText(w) \/ FinishDone(w)
               \/ ProcessingFails(w) \/ RecordFailure(w) \/ ProcessThrows(w) \/ Ack(w)
        PROVE  Goal
    <2>1. UNCHANGED cron
      BY <1>13 DEF calls, queue, Begin, WriteText, FinishDone, ProcessingFails, RecordFailure,
         ProcessThrows, Ack
    <2> QED BY <1>2, <2>1
  <1>14. ASSUME UNCHANGED vars
        PROVE  Goal
    BY <1>2, <1>14 DEF vars
  <1>15. Goal
    BY <1>2, <1>3, <1>4, <1>5, <1>6, <1>7, <1>8, <1>9, <1>10, <1>11, <1>12, <1>13, <1>14 DEF
       Next, Upload, Process
  <1> QED BY <1>15 DEF Goal

(* ... and to the rest.                                                     *)
LEMMA RestSteps ==
  ASSUME Inv, [Next]_vars
  PROVE  /\ hurt' \subseteq Documents /\ crashes' \in 0..MaxCrashes
         /\ policy' \in Snapshots
  <1> DEFINE Goal == /\ hurt' \subseteq Documents /\ crashes' \in 0..MaxCrashes
                     /\ policy' \in Snapshots
  <1>1. /\ hurt \subseteq Documents /\ crashes \in 0..MaxCrashes /\ policy \in Snapshots
        /\ \A e \in Items : upload[e] = "queue" \/ entry[e].state # "none" => e \in Documents
        /\ \A w \in Workers : worker[w].pc # "idle" => worker[w].item \in Documents
    BY ItemsAssumption DEF Inv, TypeOK, Queued
  <1>2. ASSUME UNCHANGED <<hurt, crashes, policy>>
        PROVE  Goal
    BY <1>1, <1>2
  <1>3. ASSUME NEW a \in Policies, UpsertPolicy(a)
        PROVE  Goal
    BY <1>1, <1>3 DEF UpsertPolicy, Snapshots
  <1>4. ASSUME NEW e \in Items, UploadFails(e)
        PROVE  Goal
    BY <1>1, <1>4 DEF UploadFails
  <1>5. ASSUME NEW w \in Workers, ProcessThrows(w)
        PROVE  Goal
    BY <1>1, <1>5 DEF ProcessThrows, calls
  <1>6. ASSUME Crash
        PROVE  Goal
    BY <1>1, <1>6, NumbersAssumption DEF Crash
  <1> HIDE DEF Goal
  <1>7. ASSUME DayPasses \/ CronStarts \/ CronGoesOn \/ CronThrows \/ CronEnds
        PROVE  Goal
    <2>1. UNCHANGED <<hurt, crashes, policy>>
      BY <1>7 DEF calls, queue, DayPasses, CronStarts, CronGoesOn, CronThrows, CronEnds
    <2> QED BY <1>2, <2>1
  <1>8. ASSUME NEW e \in Items,
               StartUpload(e) \/ RecordMedia(e) \/ RecordFile(e) \/ Enqueue(e)
               \/ Expire(e) \/ ApplyAction(e) \/ Scrub(e) \/ CronSkips(e)
        PROVE  Goal
    <2>1. UNCHANGED <<hurt, crashes, policy>>
      BY <1>8 DEF calls, queue, StartUpload, RecordMedia, RecordFile, Enqueue, Expire,
         ApplyAction, Scrub, CronSkips
    <2> QED BY <1>2, <2>1
  <1>9. ASSUME NEW e \in Items, NEW m \in BOOLEAN, CreateItem(e, m)
        PROVE  Goal
    <2>1. UNCHANGED <<hurt, crashes, policy>>
      BY <1>9 DEF calls, queue, CreateItem, AfterCreate
    <2> QED BY <1>2, <2>1
  <1>10. ASSUME NEW w \in Workers, NEW e \in Documents, Take(w, e)
        PROVE  Goal
    <2>1. UNCHANGED <<hurt, crashes, policy>>
      BY <1>10 DEF calls, queue, Take
    <2> QED BY <1>2, <2>1
  <1>11. ASSUME NEW w \in Workers, Begin(w) \/ WriteText(w) \/ FinishDone(w)
               \/ ProcessingFails(w) \/ RecordFailure(w) \/ Ack(w)
        PROVE  Goal
    <2>1. UNCHANGED <<hurt, crashes, policy>>
      BY <1>11 DEF calls, queue, Begin, WriteText, FinishDone, ProcessingFails, RecordFailure,
         Ack
    <2> QED BY <1>2, <2>1
  <1>12. ASSUME UNCHANGED vars
        PROVE  Goal
    BY <1>2, <1>12 DEF vars
  <1>13. Goal
    BY <1>2, <1>3, <1>4, <1>5, <1>6, <1>7, <1>8, <1>9, <1>10, <1>11, <1>12 DEF Next, Upload,
       Process
  <1> QED BY <1>13 DEF Goal

-----------------------------------------------------------------------------
LEMMA Start == Init => Inv
  BY NumbersAssumption, ItemsAssumption
  DEF Init, Inv, TypeOK, Fresh, Queued, CronAt, Item, Entry, Worker, Resting, Sleeping,
     Snapshots

LEMMA TypesKept ==
  ASSUME Inv, [Next]_vars
  PROVE  TypeOK'
  <1>1. item' \in [Items -> Item]
    BY ItemSteps, Changes
  <1>2. /\ upload' \in [Items -> {"none", "create", "media", "file", "queue", "over"}]
        /\ ocr' \in [Items -> {"none", "PENDING", "PROCESSING", "DONE", "FAILED"}]
        /\ entry' \in [Items -> Entry]
    BY UploadSteps, OcrSteps, EntrySteps, ItemSteps
  <1>3. worker' \in [Workers -> Worker]
    BY WorkerSteps
  <1>4. \A w \in Workers : worker'[w].pc # "idle" => worker'[w].item \in Documents
    BY WorkerSteps DEF Inv, TypeOK
  <1>5. cron'.pass = "act" => \A d \in cron'.todo : item'[d].row /\ item'[d].expired
    <2> SUFFICES ASSUME cron'.pass = "act", NEW d \in cron'.todo
                 PROVE  item'[d].row /\ item'[d].expired
      OBVIOUS
    <2>1. d \in Items
      BY CronSteps
    <2>2. CASE cron.pass = "act" /\ d \in cron.todo
      BY <2>1, <2>2, Lasting DEF Inv, TypeOK
    <2>3. CASE UNCHANGED item /\ DueForAction(d)
      BY <2>3 DEF DueForAction
    <2> QED BY <2>2, <2>3, CronSteps
  <1> QED BY <1>1, <1>2, <1>3, <1>4, <1>5, CronSteps, RestSteps DEF TypeOK

(* What is deleted was to be.                                               *)
LEMMA Deletions ==
  ASSUME Inv, [Next]_vars, NEW d \in Items, item'[d].deleted > 0
  PROVE  item'[d].applied = "DELETE" /\ item'[d].row
  <1>1. item[d].deleted \in Nat
    BY NumbersAssumption DEF Inv, TypeOK, Item
  <1>2. CASE item[d].deleted > 0
    BY <1>2, Lasting DEF Inv, CronAt
  <1>3. CASE item[d].deleted = 0
    <2>1. Deleted(d)
      BY <1>3, Changes DEF Change, Started, Created, Written, Lapsed, Aged, Emptied
    <2>2. item[d].row
      BY <2>1 DEF Deleted, Inv, TypeOK
    <2> QED BY <2>1, <2>2 DEF Deleted
  <1> QED BY <1>1, <1>2, <1>3

(* What the cron has still to treat, it still may.                          *)
LEMMA Pending ==
  ASSUME Inv, [Next]_vars, NEW d \in cron'.todo
  PROVE  /\ cron'.pass = "act" => item'[d].deleted = 0
         /\ cron'.pass = "scrub" => item'[d].deleted > Grace
  <1>1. d \in Items
    BY CronSteps
  <1>2. CASE UNCHANGED item
    <2>1. CASE cron'.pass = cron.pass /\ d \in cron.todo
      BY <1>2, <2>1 DEF Inv, CronAt
    <2>2. CASE /\ cron'.pass = "act" => DueForAction(d)
               /\ cron'.pass = "scrub" => DueForScrub(d)
      BY <1>2, <2>2 DEF DueForAction, DueForScrub
    <2> QED BY <2>1, <2>2, CronSteps
  <1>3. CASE cron'.pass = cron.pass /\ d \in cron.todo
    <2>1. ~Deleted(d)
      BY DEF Deleted, Inv, TypeOK
    <2>2. item'[d].deleted = item[d].deleted \/ Aged(d)
      BY <1>1, <2>1, Changes DEF Change, Started, Created, Written, Lapsed, Emptied
    <2>3. item[d].deleted \in Nat /\ item'[d].deleted \in Nat
      BY <1>1, Changes, NumbersAssumption DEF Inv, TypeOK, Item
    <2> QED BY <1>1, <1>3, <2>2, <2>3, NumbersAssumption DEF Aged, Inv, CronAt
  <1> QED BY <1>2, <1>3, CronSteps

LEMMA Kept ==
  ASSUME Inv, [Next]_vars
  PROVE  Inv'
  <1>1. Fresh'
    <2> SUFFICES ASSUME NEW d \in Items, upload'[d] \in {"none", "create"}
                 PROVE  /\ ~item'[d].row /\ ~item'[d].expired /\ item'[d].deleted = 0
                        /\ ~item'[d].title /\ ~item'[d].metadata /\ ocr'[d] = "none"
      BY DEF Fresh
    <2>1. upload[d] \in {"none", "create"}
      BY UploadSteps
    <2>2. /\ ~item[d].row /\ ~item[d].expired /\ item[d].deleted = 0
          /\ ~item[d].title /\ ~item[d].metadata /\ ocr[d] = "none"
      BY <2>1 DEF Inv, Fresh
    <2>3. ocr'[d] = "none"
      BY <2>1, <2>2, OcrSteps
    <2>4. ~Created(d) /\ ~Written(d) /\ ~Lapsed(d) /\ ~Aged(d) /\ ~Deleted(d)
      BY <2>1, <2>2 DEF Created, Written, Lapsed, Aged, Deleted, Inv, TypeOK, Queued
    <2>5. item'[d] = item[d] \/ Started(d) \/ Emptied(d)
      BY <2>4, Changes DEF Change
    <2> QED BY <2>2, <2>3, <2>5 DEF Started, Emptied
  <1>2. Queued'
    <2>1. \A d \in Items : upload'[d] \in {"file", "queue"} => d \in Documents
      BY UploadSteps
    <2>2. ASSUME NEW d \in Items, entry'[d].state # "none"
          PROVE  d \in Documents /\ upload'[d] = "over"
      BY <2>2, EntrySteps, UploadSteps DEF Inv, Queued
    <2>3. ASSUME NEW w \in Workers, worker'[w].pc # "idle"
          PROVE  entry'[worker'[w].item].state # "none"
      <3>1. worker'[w].item \in Items /\ entry[worker'[w].item].state # "none"
        BY <2>3, WorkerSteps, ItemsAssumption DEF Inv, TypeOK, Queued
      <3> QED BY <3>1, EntrySteps
    <2> QED BY <2>1, <2>2, <2>3 DEF Queued
  <1>3. CronAt'
    <2>1. ASSUME NEW d \in Items, item'[d].deleted > 0
          PROVE  item'[d].applied = "DELETE" /\ item'[d].row
      BY <2>1, Deletions
    <2>2. ASSUME cron'.pass = "act", NEW d \in cron'.todo
          PROVE  item'[d].deleted = 0
      BY <2>2, Pending
    <2>3. ASSUME cron'.pass = "scrub", NEW d \in cron'.todo
          PROVE  item'[d].deleted > Grace
      BY <2>3, Pending
    <2> QED BY <2>1, <2>2, <2>3 DEF CronAt
  <1> QED BY <1>1, <1>2, <1>3, TypesKept DEF Inv

LEMMA Always == Spec => []Inv
  <1>1. Inv /\ [Next]_vars => Inv'
    BY Kept
  <1> QED BY Start, <1>1, PTL DEF Spec

(* ITEMS, UPLOADS, JOBS, WORKERS AND THE CRON KEEP THEIR TYPES, and the     *)
(* items the cron is about to treat have been made and are expired.         *)
THEOREM TypeCorrect == Spec => []TypeOK
  <1>1. Inv => TypeOK
    BY DEF Inv
  <1> QED BY <1>1, Always, PTL

-----------------------------------------------------------------------------
(* A worker that is about to say DONE has written the text.                 *)
TextInv ==
  /\ \A w \in Workers : worker[w].pc = "finish" /\ item[worker[w].item].title =>
                          item[worker[w].item].metadata
  /\ DoneHasText

(* A step that leaves an item without text leaves it without a title.       *)
LEMMA TextStays ==
  ASSUME Inv, [Next]_vars, NEW d \in Items, upload[d] \notin {"none", "create"},
         item[d].title => item[d].metadata
  PROVE  item'[d].title => item'[d].metadata
  BY Changes DEF Change, Started, Created, Written, Lapsed, Aged, Deleted, Emptied

LEMMA TextKept ==
  ASSUME Inv, [Next]_vars, TextInv
  PROVE  TextInv'
  <1>1. ASSUME NEW w \in Workers, worker'[w].pc = "finish", item'[worker'[w].item].title
        PROVE  item'[worker'[w].item].metadata
    <2>1. CASE item'[worker'[w].item].metadata
      BY <2>1
    <2>2. CASE worker'[w] = worker[w]
      <3>1. worker[w].item \in Items /\ upload[worker[w].item] = "over"
        BY <1>1, <2>2, ItemsAssumption DEF Inv, TypeOK, Queued
      <3> QED BY <1>1, <2>2, <3>1, TextStays DEF TextInv
    <2> QED BY <1>1, <2>1, <2>2, WorkerSteps
  <1>2. ASSUME NEW d \in Items, ocr'[d] = "DONE", item'[d].title
        PROVE  item'[d].metadata
    <2>1. CASE ocr[d] = "DONE"
      <3>1. upload[d] \notin {"none", "create"}
        BY <2>1 DEF Inv, Fresh
      <3> QED BY <1>2, <2>1, <3>1, TextStays DEF TextInv, DoneHasText
    <2>2. CASE /\ UNCHANGED item
               /\ \E w \in Workers : worker[w].pc = "finish" /\ worker[w].item = d
      BY <1>2, <2>2 DEF TextInv
    <2> QED BY <1>2, <2>1, <2>2, OcrSteps
  <1> QED BY <1>1, <1>2 DEF TextInv, DoneHasText

(* A DOCUMENT THAT SAYS DONE HAS ITS TEXT, unless it was scrubbed, whatever *)
(* the order in which workers, second runs after a crash and the cron get   *)
(* at it (DocumentProcessor.process, hardDeleteExpiredSoftDeletes).         *)
THEOREM TextsComplete == Spec => []DoneHasText
  <1>1. Init => TextInv
    BY DEF Init, TextInv, DoneHasText, Resting
  <1>2. Inv /\ TextInv /\ [Next]_vars => TextInv'
    BY TextKept
  <1>3. TextInv => DoneHasText
    BY DEF TextInv
  <1> QED BY <1>1, <1>2, <1>3, Always, PTL DEF Spec

(* CONTENT IS LOST BY ITS OWN POLICY AND AFTER ITS GRACE ONLY, and nothing  *)
(* moves the day from which the grace counts (computeForNewItem,            *)
(* hardDeleteExpiredSoftDeletes).                                           *)
THEOREM GraceKept == Spec => GraceRespected
  <1> DEFINE Respected(d) ==
        /\ item[d].deleted > 0 => item'[d].deleted >= item[d].deleted
        /\ \/ item[d].title /\ ~item'[d].title
           \/ item[d].metadata /\ ~item'[d].metadata
           => item[d].applied = "DELETE" /\ item[d].deleted > Grace
  <1>1. ASSUME Inv, [Next]_vars, NEW d \in Items
        PROVE  Respected(d)
    <2>1. item[d].deleted \in Nat /\ item'[d].deleted \in Nat
      BY <1>1, Changes, NumbersAssumption DEF Inv, TypeOK, Item
    <2>2. CASE Emptied(d)
      <3>1. item[d].deleted > Grace
        BY <1>1, <2>2 DEF Emptied, Inv, CronAt
      <3>2. item[d].applied = "DELETE"
        BY <1>1, <2>1, <3>1, NumbersAssumption DEF Inv, CronAt
      <3> QED BY <2>1, <2>2, <3>1, <3>2 DEF Emptied
    <2>3. CASE Deleted(d)
      <3>1. item[d].deleted = 0
        BY <1>1, <2>3 DEF Deleted, Inv, CronAt
      <3> QED BY <2>1, <2>3, <3>1 DEF Deleted
    <2>4. CASE Created(d)
      <3>1. ~item[d].title /\ ~item[d].metadata
        BY <1>1, <2>4 DEF Created, Inv, Fresh
      <3> QED BY <2>1, <2>4, <3>1 DEF Created
    <2> QED BY <1>1, <2>1, <2>2, <2>3, <2>4, Changes DEF Change, Started, Written, Lapsed, Aged
  <1>2. Inv /\ [Next]_vars => [\A d \in Items : Respected(d)]_vars
    BY <1>1
  <1> QED BY <1>2, Always, PTL DEF Spec, GraceRespected
-----------------------------------------------------------------------------
(* A worker has an active job of its own.                                   *)
Busy ==
  /\ \A w \in Workers : worker[w].pc # "idle" => entry[worker[w].item].state = "active"
  /\ \A v, w \in Workers : worker[v].pc # "idle" /\ worker[w].pc # "idle"
                             /\ worker[v].item = worker[w].item => v = w

(* No job will ever come, or come back.                                     *)
NoJob(d) == upload[d] = "over" /\ entry[d].state \in {"none", "over"}

(* What a step does to the jobs and to who is at work on them.              *)
LEMMA JobSteps ==
  ASSUME Inv, Busy, [Next]_vars
  PROVE  Busy' /\ \A d \in Items : NoJob(d) => NoJob(d)'
  <1> DEFINE Goal == Busy' /\ \A d \in Items : NoJob(d) => NoJob(d)'
  <1>1. /\ entry \in [Items -> Entry] /\ worker \in [Workers -> Worker]
        /\ \A d \in Items : upload[d] = "queue" => entry[d].state = "none"
        /\ \A w \in Workers : worker[w].pc # "idle" => worker[w].item \in Items
        /\ \A d \in Items : upload[d] = "over" => upload'[d] = "over"
    BY UploadSteps, ItemsAssumption DEF Inv, TypeOK, Queued
  <1>2. ASSUME UNCHANGED queue
        PROVE  Goal
    BY <1>1, <1>2 DEF Busy, NoJob, queue
  <1>3. ASSUME NEW e \in Items, Enqueue(e)
        PROVE  Goal
    <2>1. /\ upload[e] = "queue" /\ entry[e].state = "none" /\ UNCHANGED worker
          /\ \A d \in Items \ {e} : entry'[d] = entry[d]
      BY <1>1, <1>3 DEF Enqueue
    <2>2. Busy'
      BY <1>1, <2>1 DEF Busy
    <2> QED BY <1>1, <2>1, <2>2 DEF NoJob
  <1>4. ASSUME NEW v \in Workers, NEW e \in Documents, Take(v, e)
        PROVE  Goal
    <2>1. /\ e \in Items /\ entry[e].state = "waiting" /\ entry'[e].state = "active"
          /\ worker'[v].item = e
          /\ \A d \in Items \ {e} : entry'[d] = entry[d]
          /\ \A w \in Workers \ {v} : worker'[w] = worker[w]
      BY <1>1, <1>4, ItemsAssumption DEF Take, Entry
    <2>2. \A w \in Workers \ {v} : worker[w].pc # "idle" => worker[w].item # e
      BY <2>1 DEF Busy
    <2>3. Busy'
      BY <1>1, <2>1, <2>2 DEF Busy
    <2> QED BY <1>1, <2>1, <2>3 DEF NoJob
  <1>5. ASSUME NEW v \in Workers, Begin(v) \/ WriteText(v) \/ FinishDone(v)
               \/ ProcessingFails(v) \/ RecordFailure(v) \/ ProcessThrows(v)
        PROVE  Goal
    <2>1. /\ UNCHANGED entry /\ worker[v].pc # "idle" /\ worker'[v].item = worker[v].item
          /\ \A w \in Workers \ {v} : worker'[w] = worker[w]
      BY <1>1, <1>5
      DEF Begin, WriteText, FinishDone, ProcessingFails, RecordFailure, ProcessThrows, Worker
    <2>2. Busy'
      BY <1>1, <2>1 DEF Busy
    <2> QED BY <1>1, <2>1, <2>2 DEF NoJob
  <1>6. ASSUME NEW v \in Workers, Ack(v)
        PROVE  Goal
    <2>1. PICK e \in Items :
               /\ worker[v].pc # "idle" /\ worker[v].item = e /\ worker'[v].pc = "idle"
               /\ entry'[e].state = "over"
               /\ \A d \in Items \ {e} : entry'[d] = entry[d]
               /\ \A w \in Workers \ {v} : worker'[w] = worker[w]
      BY <1>1, <1>6 DEF Ack, Resting, Entry
    <2>2. Busy'
      BY <1>1, <2>1 DEF Busy
    <2> QED BY <1>1, <2>1, <2>2 DEF NoJob
  <1>7. ASSUME Crash
        PROVE  Goal
    <2>1. /\ \A w \in Workers : worker'[w].pc = "idle"
          /\ \A d \in Items : entry'[d] = Stalled(entry[d])
      BY <1>7 DEF Crash, Resting
    <2>2. \A d \in Items : entry[d].state \in {"none", "over"} => entry'[d] = entry[d]
      BY <2>1 DEF Stalled
    <2> QED BY <1>1, <2>1, <2>2 DEF Busy, NoJob
  <1> HIDE DEF Goal
  <1>8. ASSUME DayPasses \/ CronStarts \/ CronGoesOn \/ CronThrows \/ CronEnds
        PROVE  Goal
    <2>1. UNCHANGED queue
      BY <1>8 DEF DayPasses, CronStarts, CronGoesOn, CronThrows, CronEnds
    <2> QED BY <1>2, <2>1
  <1>9. ASSUME NEW a \in Policies, UpsertPolicy(a)
        PROVE  Goal
    <2>1. UNCHANGED queue
      BY <1>9 DEF UpsertPolicy
    <2> QED BY <1>2, <2>1
  <1>10. ASSUME NEW e \in Items,
                StartUpload(e) \/ RecordMedia(e) \/ RecordFile(e) \/ UploadFails(e)
                \/ Expire(e) \/ ApplyAction(e) \/ Scrub(e) \/ CronSkips(e)
        PROVE  Goal
    <2>1. UNCHANGED queue
      BY <1>10 DEF StartUpload, RecordMedia, RecordFile, UploadFails, Expire, ApplyAction,
         Scrub, CronSkips
    <2> QED BY <1>2, <2>1
  <1>11. ASSUME NEW e \in Items, NEW m \in BOOLEAN, CreateItem(e, m)
        PROVE  Goal
    <2>1. UNCHANGED queue
      BY <1>11 DEF CreateItem, AfterCreate
    <2> QED BY <1>2, <2>1
  <1>12. ASSUME UNCHANGED vars
        PROVE  Goal
    <2>1. UNCHANGED queue
      BY <1>12 DEF vars, queue
    <2> QED BY <1>2, <2>1
  <1>13. Goal
    BY <1>3, <1>4, <1>5, <1>6, <1>7, <1>8, <1>9, <1>10, <1>11, <1>12 DEF Next, Upload, Process
  <1> QED BY <1>13 DEF Goal

(* THE SNAPSHOT OF THE POLICY IS FOR EVER: whatever tenants, workers, the   *)
(* cron and crashes do, an item that has been made is never made away with, *)
(* nor does it ever fall under another policy (computeForNewItem,           *)
(* RetentionPoliciesService.upsert).                                        *)
THEOREM SnapshotsLast ==
  Spec => [][\A d \in Items :
               item[d].row => item'[d].row /\ item'[d].applied = item[d].applied]_vars
  <1>1. Inv /\ [Next]_vars =>
          [\A d \in Items :
             item[d].row => item'[d].row /\ item'[d].applied = item[d].applied]_vars
    BY Lasting
  <1> QED BY <1>1, Always, PTL DEF Spec

(* Nothing is left of an item, and nothing is queued or at work that could  *)
(* bring its text back.                                                     *)
Erased(d) == item[d].row /\ ~item[d].title /\ ~item[d].metadata /\ NoJob(d)

(* WHAT IS ERASED STAYS ERASED.  Once an item is scrubbed and its document  *)
(* is done with, no later upload, worker, retry after a crash or pass of    *)
(* the cron puts a title or a text back (hardDeleteExpiredSoftDeletes,      *)
(* DocumentProcessor.process): a scrub is undone by a job that is running   *)
(* or still to run, only.                                                   *)
THEOREM ErasedForGood ==
  ASSUME NEW d \in Items
  PROVE  Spec => [](Erased(d) => []Erased(d))
  <1>1. Init => Busy
    BY DEF Init, Busy, Resting
  <1>2. Inv /\ Busy /\ [Next]_vars => Busy'
    BY JobSteps
  <1>3. ASSUME Inv, Busy, [Next]_vars, Erased(d)
        PROVE  Erased(d)'
    <2>1. NoJob(d)' /\ item'[d].row
      BY <1>3, JobSteps, Lasting DEF Erased
    <2>2. ~Written(d)
      BY <1>3 DEF Erased, NoJob, Busy, Written
    <2>3. ~item'[d].title /\ ~item'[d].metadata
      BY <1>3, <2>2, Changes
      DEF Erased, NoJob, Change, Started, Created, Lapsed, Aged, Deleted, Emptied
    <2> QED BY <2>1, <2>3 DEF Erased
  <1>4. Inv /\ Busy /\ [Next]_vars => (Erased(d) => Erased(d)')
    BY <1>3
  <1> QED BY <1>1, <1>2, <1>4, Always, PTL DEF Spec
=============================================================================
