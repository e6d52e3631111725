----------------------- MODULE ResearcherPortalProofs -----------------------
(***************************************************************************)
(* The copies of the researcher portal, for any number of researchers,     *)
(* items, downloads, workers, stalls and crashes.  First what the pipeline *)
(* keeps by itself: types, a copy for every DONE job until it or a twin of *)
(* it expires, and copies that rows name until they are gone.  Then what   *)
(* the portal as a whole keeps: types, and links that go only to those who *)
(* were given leave.                                                       *)
(***************************************************************************)
EXTENDS ResearcherPortal, TLAPS

(* A job that was queued has a row, or had one. *)
Made(j) == job[j].state \notin {"none", "checked"}

(* What is queued or worked on was made, and what was stored has a stamp.   *)
InHand ==
  /\ \A j \in Jobs : entry[j].state \in {"waiting", "active"} => Made(j)
  /\ \A w \in Workers : worker[w].pc # "idle" =>
       /\ worker[w].job \in Jobs /\ Made(worker[w].job)
       /\ worker[w].pc = "finish" => worker[w].stamp \in Millis

(* The running cleanup has read each row once. *)
ReadOnce == \A e, f \in todo : e.job = f.job => e = f

TypeInv == TypeOK /\ InHand /\ ReadOnce

LEMMA TypeInit == Init => TypeInv
  BY NoneAssumption, BoundsAssumption
  DEF Init, TypeInv, TypeOK, InHand, ReadOnce, Job, Entry, Worker, NoJob, Resting

(* The steps of the rows, of the queue, of a worker, of the cleanup.        *)
LEMMA CallStep ==
  ASSUME TypeInv,
         NEW j \in Jobs,
         \/ Download(j) \/ ExpireJob(j)
         \/ \E r \in Researchers, i \in Items : CheckDownload(j, r, i)
  PROVE  TypeInv'
  <1> USE NoneAssumption, BoundsAssumption DEF TypeInv, TypeOK, InHand, ReadOnce, Made, Row
  <1>1. job[j] \in Job /\ entry[j] \in Entry
    OBVIOUS
  <1>2. ASSUME NEW r \in Researchers, NEW i \in Items, CheckDownload(j, r, i)
        PROVE  TypeInv'
    <2> DEFINE row == [job[j] EXCEPT !.state = "checked", !.researcher = r, !.item = i]
    <2>1. row \in Job /\ row.state = "checked" /\ row.researcher = r /\ row.item = i
      BY <1>1 DEF Job
    <2>2. job' = [job EXCEPT ![j] = row] /\ job[j].state = "none"
          /\ UNCHANGED <<entry, worker, objects, todo, named, crashes>>
      BY <1>2 DEF CheckDownload
    <2> HIDE DEF row
    <2> QED BY <2>1, <2>2
  <1>3. ASSUME CreateJob(j)
        PROVE  TypeInv'
    <2> DEFINE row == [job[j] EXCEPT !.state = "PENDING"]
    <2>1. row \in Job /\ row.state = "PENDING" /\ row.expired = job[j].expired
          /\ row.researcher = job[j].researcher /\ row.item = job[j].item
      BY <1>1 DEF Job
    <2>2. job' = [job EXCEPT ![j] = row] /\ job[j].state = "checked"
          /\ UNCHANGED <<entry, worker, objects, todo, named, crashes>>
      BY <1>3 DEF CreateJob
    <2> HIDE DEF row
    <2> QED BY <2>1, <2>2
  <1>4. ASSUME ExpireJob(j)
        PROVE  TypeInv'
    <2> DEFINE row == [job[j] EXCEPT !.expired = TRUE]
    <2>1. row \in Job /\ row.state = job[j].state /\ row.expired /\ row.path = job[j].path
          /\ row.researcher = job[j].researcher /\ row.item = job[j].item
      BY <1>1 DEF Job
    <2>2. job' = [job EXCEPT ![j] = row]
          /\ UNCHANGED <<entry, worker, objects, todo, named, crashes>>
      BY <1>4 DEF ExpireJob
    <2> HIDE DEF row
    <2> QED BY <2>1, <2>2
  <1>5. ASSUME Enqueue(j)
        PROVE  TypeInv'
    <2> DEFINE new == [entry[j] EXCEPT !.state = "waiting"]
    <2>1. new \in Entry
      BY <1>1 DEF Entry
    <2>2. entry' = [entry EXCEPT ![j] = new] /\ Made(j)
          /\ UNCHANGED <<job, worker, objects, todo, named, crashes>>
      BY <1>5 DEF Enqueue
    <2> HIDE DEF new
    <2> QED BY <2>1, <2>2
  <1>6. ASSUME CallFails(j)
        PROVE  TypeInv'
    <2> DEFINE new == [entry[j] EXCEPT !.state = "over"]
    <2>1. new \in Entry /\ new.state = "over" /\ NoJob \in Job /\ NoJob.state = "none"
      BY <1>1 DEF Entry, Job, NoJob
    <2>2. /\ UNCHANGED <<worker, objects, todo, named, crashes>>
          /\ \/ job[j].state = "checked" /\ job' = [job EXCEPT ![j] = NoJob] /\ entry' = entry
             \/ job' = job /\ entry' = [entry EXCEPT ![j] = new]
      BY <1>6 DEF CallFails
    <2> HIDE DEF new
    <2>3. CASE job[j].state = "checked" /\ job' = [job EXCEPT ![j] = NoJob] /\ entry' = entry
      BY <2>1, <2>2, <2>3
    <2>4. CASE job' = job /\ entry' = [entry EXCEPT ![j] = new]
      BY <2>1, <2>2, <2>4
    <2> QED BY <2>2, <2>3, <2>4
  <1> QED BY <1>2, <1>3, <1>4, <1>5, <1>6 DEF Download

(* Two fields of a worker that are written together. *)
LEMMA Rewritten ==
  ASSUME worker \in [Workers -> Worker], NEW w \in Workers, NEW pc, NEW stamp
  PROVE  /\ [worker EXCEPT ![w].pc = pc] =
            [worker EXCEPT ![w] = [pc |-> pc, job |-> worker[w].job, stamp |-> worker[w].stamp]]
         /\ [worker EXCEPT ![w].pc = pc, ![w].stamp = stamp] =
            [worker EXCEPT ![w] = [pc |-> pc, job |-> worker[w].job, stamp |-> stamp]]
  <1> DEFINE g == [worker EXCEPT ![w].pc = pc]
             put(n) == [pc |-> pc, job |-> worker[w].job, stamp |-> n]
  <1>1. worker[w] \in Worker
    OBVIOUS
  <1>2. [worker[w] EXCEPT !.pc = pc] = put(worker[w].stamp)
    BY <1>1 DEF Worker
  <1>3. g = [worker EXCEPT ![w] = put(worker[w].stamp)]
    BY <1>2, Zenon
  <1>4. [worker EXCEPT ![w].pc = pc, ![w].stamp = stamp] = [g EXCEPT ![w].stamp = stamp]
    BY Zenon
  <1>5. /\ g[w] = put(worker[w].stamp)
        /\ g = [v \in Workers |-> IF v = w THEN g[w] ELSE worker[v]]
    BY <1>3
  <1>6. [g EXCEPT ![w].stamp = stamp] = [v \in Workers |-> IF v = w THEN put(stamp) ELSE worker[v]]
    <2> HIDE DEF g
    <2> QED BY <1>5
  <1> QED BY <1>3, <1>4, <1>6

LEMMA WorkerStep ==
  ASSUME TypeInv, NEW w \in Workers, Process(w) \/ \E j \in Jobs : Take(w, j)
  PROVE  TypeInv'
  <1> USE NoneAssumption, BoundsAssumption DEF TypeInv, TypeOK, InHand, ReadOnce, Made, Row
  <1> DEFINE j == worker[w].job
  <1>1. worker[w] \in Worker
    OBVIOUS
  <1>2. ASSUME NEW k \in Jobs, Take(w, k)
        PROVE  TypeInv'
    <2> DEFINE new == [entry[k] EXCEPT !.state = "active"]
               doing == [pc |-> "begin", job |-> k, stamp |-> None]
    <2>1. new \in Entry /\ doing \in Worker /\ doing.pc = "begin" /\ doing.job = k
      BY DEF Entry, Worker
    <2>2. /\ entry' = [entry EXCEPT ![k] = new] /\ worker' = [worker EXCEPT ![w] = doing]
          /\ Made(k) /\ UNCHANGED <<job, objects, todo, named, crashes>>
      BY <1>2 DEF Take
    <2> HIDE DEF new, doing, j
    <2> QED BY <2>1, <2>2
  (* What a step leaves the worker with, when it goes on with its job. *)
  <1>3. ASSUME NEW pc \in {"render", "finish", "fail", "ack"}, NEW stamp \in Millis \cup {None},
               pc = "finish" => stamp \in Millis,
               worker[w].pc # "idle",
               worker' = [worker EXCEPT ![w] = [pc |-> pc, job |-> j, stamp |-> stamp]]
        PROVE  /\ worker' \in [Workers -> Worker]
               /\ \A v \in Workers : worker'[v].pc # "idle" =>
                    /\ worker'[v].job \in Jobs /\ Made(worker'[v].job)
                    /\ worker'[v].pc = "finish" => worker'[v].stamp \in Millis
    <2> DEFINE doing == [pc |-> pc, job |-> j, stamp |-> stamp]
    <2>1. doing \in Worker /\ doing.pc = pc /\ doing.job = j /\ doing.stamp = stamp
      BY <1>1, <1>3 DEF Worker
    <2>2. worker' = [worker EXCEPT ![w] = doing]
      BY <1>3
    <2> HIDE DEF doing
    <2> QED BY <1>3, <2>1, <2>2
  <1>4. ASSUME NEW pc, NEW stamp
        PROVE  /\ [worker EXCEPT ![w].pc = pc] =
                  [worker EXCEPT ![w] = [pc |-> pc, job |-> j, stamp |-> worker[w].stamp]]
               /\ [worker EXCEPT ![w].pc = pc, ![w].stamp = stamp] =
                  [worker EXCEPT ![w] = [pc |-> pc, job |-> j, stamp |-> stamp]]
    <2>1. worker \in [Workers -> Worker]
      OBVIOUS
    <2> QED BY <2>1, Rewritten, Zenon
  (* What a step that says something of the row leaves of it. *)
  <1>5. ASSUME NEW state \in {"PROCESSING", "DONE", "FAILED"}, NEW path \in Keys \cup {None},
               state = "DONE" => path \in Keys,
               worker[w].pc # "idle", Row(j),
               job' = [job EXCEPT ![j].state = state, ![j].path = path]
        PROVE  /\ job' \in [Jobs -> Job]
               /\ \A k \in Jobs : job'[k].state # "none" =>
                    job'[k].researcher \in Researchers /\ job'[k].item \in Items
               /\ \A k \in Jobs : job'[k].state = "DONE" => job'[k].path \in Keys
               /\ \A k \in Jobs : /\ Made(k) => Made(k)'
                                  /\ Row(k) /\ job[k].expired => Row(k)' /\ job'[k].expired
    <2> DEFINE row == [job[j] EXCEPT !.state = state, !.path = path]
    <2>1. j \in Jobs /\ job[j] \in Job
      BY <1>5
    <2>2. row \in Job /\ row.state = state /\ row.path = path /\ row.expired = job[j].expired
          /\ row.researcher = job[j].researcher /\ row.item = job[j].item
      BY <2>1 DEF Job
    <2>3. job' = [job EXCEPT ![j] = row]
      BY <1>5
    <2> HIDE DEF row, j
    <2>4. /\ job' \in [Jobs -> Job] /\ job'[j] = row
          /\ \A k \in Jobs : k # j => job'[k] = job[k]
      BY <2>1, <2>2, <2>3
    <2> QED BY <1>5, <2>1, <2>2, <2>4
  <1>6. ASSUME NEW pc \in {"render", "finish", "fail", "ack"}, NEW stamp \in Millis \cup {None},
               NEW state \in {"PROCESSING", "DONE", "FAILED"}, NEW path \in Keys \cup {None},
               pc = "finish" => stamp \in Millis,
               state = "DONE" => path \in Keys,
               worker[w].pc # "idle",
               worker' = [worker EXCEPT ![w] = [pc |-> pc, job |-> j, stamp |-> stamp]],
               \/ UNCHANGED job
               \/ Row(j) /\ job' = [job EXCEPT ![j].state = state, ![j].path = path],
               UNCHANGED <<entry, todo, crashes>>,
               objects' \subseteq Keys, named' \in [Jobs -> SUBSET Millis]
        PROVE  TypeInv'
    <2>1. CASE UNCHANGED job
      BY <1>3, <1>6, <2>1
    <2>2. CASE Row(j) /\ job' = [job EXCEPT ![j].state = state, ![j].path = path]
      <3>1. /\ worker' \in [Workers -> Worker]
            /\ \A v \in Workers : worker'[v].pc # "idle" =>
                 /\ worker'[v].job \in Jobs /\ Made(worker'[v].job)
                 /\ worker'[v].pc = "finish" => worker'[v].stamp \in Millis
        BY <1>3, <1>6
      <3>2. /\ job' \in [Jobs -> Job]
            /\ \A k \in Jobs : job'[k].state # "none" =>
                 job'[k].researcher \in Researchers /\ job'[k].item \in Items
            /\ \A k \in Jobs : job'[k].state = "DONE" => job'[k].path \in Keys
            /\ \A k \in Jobs : /\ Made(k) => Made(k)'
                               /\ Row(k) /\ job[k].expired => Row(k)' /\ job'[k].expired
        BY <1>5, <1>6, <2>2
      <3> HIDE DEF j
      <3>3. TypeOK'
        BY <3>1, <3>2, <1>6
      <3>4. InHand' /\ ReadOnce'
        BY <3>1, <3>2, <1>6
      <3> QED BY <3>3, <3>4
    <2> QED BY <1>6, <2>1, <2>2
  <1>7. worker[w].stamp \in Millis \cup {None} /\ (j \in Jobs => job[j].path \in Keys \cup {None})
    BY <1>1 DEF Worker, Job
  <1>8. ASSUME Begin(w)
        PROVE  TypeInv'
    <2>1. j \in Jobs /\ Row(j) /\ worker[w].pc # "idle"
      BY <1>8 DEF Begin
    <2>2. job' = [job EXCEPT ![j].state = "PROCESSING", ![j].path = job[j].path]
      BY <1>8, <2>1 DEF Begin, Job
    <2>3. worker' = [worker EXCEPT ![w] = [pc |-> "render", job |-> j, stamp |-> worker[w].stamp]]
      BY <1>8, <1>4 DEF Begin
    <2>4. UNCHANGED <<entry, objects, todo, named, crashes>>
      BY <1>8 DEF Begin
    <2> DEFINE path == job[j].path  stamp == worker[w].stamp
    <2>5. path \in Keys \cup {None} /\ stamp \in Millis \cup {None}
      BY <1>7, <2>1
    <2> HIDE DEF path, stamp
    <2>6. /\ UNCHANGED <<entry, todo, crashes>>
          /\ objects' \subseteq Keys /\ named' \in [Jobs -> SUBSET Millis]
      BY <2>4
    <2> QED BY <1>6, <2>1, <2>2, <2>3, <2>5, <2>6 DEF path, stamp
  <1>9. ASSUME RecordFailure(w)
        PROVE  TypeInv'
    <2>1. j \in Jobs /\ Row(j) /\ worker[w].pc # "idle"
      BY <1>9 DEF RecordFailure
    <2>2. job' = [job EXCEPT ![j].state = "FAILED", ![j].path = job[j].path]
      BY <1>9, <2>1 DEF RecordFailure, Job
    <2>3. worker' = [worker EXCEPT ![w] = [pc |-> "ack", job |-> j, stamp |-> worker[w].stamp]]
      BY <1>9, <1>4 DEF RecordFailure
    <2>4. UNCHANGED <<entry, objects, todo, named, crashes>>
      BY <1>9 DEF RecordFailure
    <2> DEFINE path == job[j].path  stamp == worker[w].stamp
    <2>5. path \in Keys \cup {None} /\ stamp \in Millis \cup {None}
      BY <1>7, <2>1
    <2> HIDE DEF path, stamp
    <2>6. /\ UNCHANGED <<entry, todo, crashes>>
          /\ objects' \subseteq Keys /\ named' \in [Jobs -> SUBSET Millis]
      BY <2>4
    <2> QED BY <1>6, <2>1, <2>2, <2>3, <2>5, <2>6 DEF path, stamp
  <1>10. ASSUME FinishDone(w)
         PROVE  TypeInv'
    <2> DEFINE path == Copy(j, worker[w].stamp)
    <2>1. j \in Jobs /\ Row(j) /\ worker[w].pc # "idle" /\ worker[w].stamp \in Millis
      BY <1>10 DEF FinishDone
    <2>2. path \in Keys /\ job' = [job EXCEPT ![j].state = "DONE", ![j].path = path]
      BY <1>10, <2>1 DEF FinishDone, Copy, CacheKey, Keys
    <2>3. worker' = [worker EXCEPT ![w] = [pc |-> "ack", job |-> j, stamp |-> None]]
      BY <1>10, <1>4 DEF FinishDone
    <2>4. /\ UNCHANGED <<entry, todo, crashes>>
          /\ objects' \subseteq Keys /\ named' \in [Jobs -> SUBSET Millis]
      BY <1>10, <2>1 DEF FinishDone
    <2> HIDE DEF path
    <2> QED BY <1>6, <2>1, <2>2, <2>3, <2>4
  <1>11. ASSUME NEW now \in Millis, PutRaw(w, now)
         PROVE  TypeInv'
    <2> DEFINE key == Copy(j, now)
    <2>1. j \in Jobs /\ worker[w].pc # "idle" /\ key \in Keys
      BY <1>11 DEF PutRaw, Copy, CacheKey, Keys
    <2>2. worker' = [worker EXCEPT ![w] = [pc |-> "finish", job |-> j, stamp |-> now]]
      BY <1>11, <1>4 DEF PutRaw
    <2>3. /\ UNCHANGED <<job, entry, todo, crashes>>
          /\ objects' \subseteq Keys /\ named' \in [Jobs -> SUBSET Millis]
      BY <1>11, <2>1 DEF PutRaw
    <2> HIDE DEF key
    <2> QED BY <1>6, <2>1, <2>2, <2>3
  <1>12. ASSUME RenderFails(w) \/ ProcessThrows(w) \/ FinishThrows(w)
         PROVE  TypeInv'
    <2>1. worker[w].pc # "idle" /\ UNCHANGED <<job, entry, objects, todo, named, crashes>>
      BY <1>12 DEF RenderFails, ProcessThrows, FinishThrows
    <2>2. \E pc \in {"fail", "ack"}, stamp \in Millis \cup {None} :
            worker' = [worker EXCEPT ![w] = [pc |-> pc, job |-> j, stamp |-> stamp]]
      <3>1. CASE RenderFails(w)
        BY <3>1, <1>4, <1>7 DEF RenderFails
      <3>2. CASE ProcessThrows(w)
        BY <3>2, <1>4, <1>7 DEF ProcessThrows
      <3>3. CASE FinishThrows(w)
        BY <3>3, <1>4, <1>7 DEF FinishThrows
      <3> QED BY <1>12, <3>1, <3>2, <3>3
    <2>3. PICK pc \in {"fail", "ack"}, stamp \in Millis \cup {None} :
            worker' = [worker EXCEPT ![w] = [pc |-> pc, job |-> j, stamp |-> stamp]]
      BY <2>2
    <2>4. /\ UNCHANGED <<job, entry, todo, crashes>>
          /\ objects' \subseteq Keys /\ named' \in [Jobs -> SUBSET Millis]
      BY <2>1
    <2>5. pc # "finish" /\ pc \in {"render", "finish", "fail", "ack"}
      BY <2>3
    <2> HIDE DEF j
    <2> QED BY <1>6, <2>1, <2>3, <2>4, <2>5
  <1>13. ASSUME Ack(w)
         PROVE  TypeInv'
    <2> DEFINE new == [entry[j] EXCEPT !.state = "over"]
    <2>1. j \in Jobs /\ Resting \in Worker /\ Resting.pc = "idle"
      BY <1>13 DEF Ack, Worker, Resting
    <2>2. new \in Entry /\ new.state = "over"
      BY <2>1 DEF Entry
    <2>3. /\ entry' = [entry EXCEPT ![j] = new] /\ worker' = [worker EXCEPT ![w] = Resting]
          /\ UNCHANGED <<job, objects, todo, named, crashes>>
      BY <1>13 DEF Ack
    <2> HIDE DEF new, j
    <2> QED BY <2>1, <2>2, <2>3
  <1> QED
    BY <1>2, <1>8, <1>9, <1>10, <1>11, <1>12, <1>13 DEF Process

LEMMA CleanupStep ==
  ASSUME TypeInv,
         \/ CleanupFind
         \/ \E e \in todo : CleanupObject(e) \/ CleanupRow(e) \/ CleanupSkip(e)
  PROVE  TypeInv'
  <1> USE NoneAssumption, BoundsAssumption DEF TypeInv, TypeOK, InHand, ReadOnce, Made, Row
  <1>1. CASE CleanupFind
    <2>1. \A j \in Jobs : job[j].path \in Keys \cup {None}
      BY DEF Job
    <2> QED BY <1>1, <2>1 DEF CleanupFind, Due
  <1>2. ASSUME NEW e \in todo, CleanupObject(e) \/ CleanupSkip(e)
        PROVE  TypeInv'
    <2>1. CASE CleanupSkip(e)
      BY <1>2, <2>1 DEF CleanupSkip
    <2>2. CASE CleanupObject(e)
      <3> DEFINE new == [e EXCEPT !.path = None]
      <3>1. new.job = e.job /\ new \in [job : {j \in Jobs : Row(j) /\ job[j].expired},
                                        path : Keys \cup {None}]
        OBVIOUS
      <3>2. /\ todo' = (todo \ {e}) \cup {new} /\ objects' \subseteq objects
            /\ UNCHANGED <<job, entry, worker, named, crashes>>
        BY <2>2 DEF CleanupObject
      <3> HIDE DEF new
      <3> QED BY <3>1, <3>2
    <2> QED BY <1>2, <2>1, <2>2
  <1>3. ASSUME NEW e \in todo, CleanupRow(e)
        PROVE  TypeInv'
    <2> DEFINE j == e.job
               row == [job[j] EXCEPT !.state = "deleted", !.path = None]
    <2>1. j \in Jobs /\ Row(j)
      OBVIOUS
    <2>2. row \in Job /\ row.state = "deleted" /\ row.path = None
          /\ row.researcher = job[j].researcher /\ row.item = job[j].item
      <3>1. job[j] \in Job
        BY <2>1
      <3> HIDE DEF j
      <3> QED BY <3>1 DEF Job
    <2>3. /\ job' = [job EXCEPT ![j] = row] /\ todo' = todo \ {e}
          /\ UNCHANGED <<entry, worker, objects, named, crashes>>
      BY <1>3 DEF CleanupRow
    <2>4. \A f \in todo' : f.job # j
      BY <2>3
    <2> HIDE DEF row, j
    <2>5. InHand' /\ ReadOnce'
      BY <2>1, <2>2, <2>3
    <2>6. TypeOK'
      BY <2>1, <2>2, <2>3, <2>4
    <2> QED BY <2>5, <2>6
  <1> QED BY <1>1, <1>2, <1>3

LEMMA CrashStep ==
  ASSUME TypeInv, Crash
  PROVE  TypeInv'
  <1> USE NoneAssumption, BoundsAssumption DEF TypeInv, TypeOK, InHand, ReadOnce, Made, Row
  <1>1. ASSUME NEW j \in Jobs
        PROVE  /\ entry'[j] \in Entry
               /\ entry'[j].state \in {"waiting", "active"} => entry[j].state = "active"
                                                               \/ entry'[j] = entry[j]
    <2>1. entry[j] \in Entry
      OBVIOUS
    <2>2. [entry[j] EXCEPT !.state = "over"] \in Entry
      BY <2>1 DEF Entry
    <2>3. /\ Stalled(entry[j]) \in Entry
          /\ Stalled(entry[j]).state \in {"waiting", "active"} =>
               entry[j].state = "active" \/ Stalled(entry[j]) = entry[j]
      BY <2>1 DEF Entry, Stalled
    <2>4. \/ entry'[j] = [entry[j] EXCEPT !.state = "over"]
          \/ entry'[j] = Stalled(entry[j])
      BY DEF Crash
    <2>5. [entry[j] EXCEPT !.state = "over"].state = "over"
      BY <2>1 DEF Entry
    <2> QED BY <2>2, <2>3, <2>4, <2>5
  <1>2. entry' \in [Jobs -> Entry]
    BY <1>1 DEF Crash
  <1>3. /\ job' \in [Jobs -> Job] /\ NoJob.state = "none"
        /\ \A j \in Jobs : job'[j] = job[j] \/ (job[j].state = "checked" /\ job'[j] = NoJob)
    <2>1. NoJob \in Job /\ NoJob.state = "none"
      BY DEF Job, NoJob
    <2>2. job \in [Jobs -> Job]
      OBVIOUS
    <2>3. job' = [j \in Jobs |-> IF job[j].state = "checked" THEN NoJob ELSE job[j]]
      BY DEF Crash
    <2> HIDE DEF TypeInv, TypeOK, InHand, ReadOnce
    <2> QED BY <2>1, <2>2, <2>3
  <1>4. /\ worker' \in [Workers -> Worker] /\ \A w \in Workers : worker'[w].pc = "idle"
        /\ todo' = {} /\ crashes' \in 0..MaxCrashes /\ UNCHANGED <<objects, named>>
    BY DEF Crash, Worker, Resting
  <1>5. TypeOK'
    BY <1>2, <1>3, <1>4
  <1>6. InHand' /\ ReadOnce'
    BY <1>1, <1>3, <1>4
  <1> QED BY <1>5, <1>6

LEMMA TypeStep == TypeInv /\ [Next]_vars => TypeInv'
  <1> SUFFICES ASSUME TypeInv, [Next]_vars PROVE TypeInv'
    OBVIOUS
  <1>1. CASE UNCHANGED vars
    BY <1>1 DEF vars, TypeInv, TypeOK, InHand, ReadOnce, Made, Row
  <1> QED BY <1>1, CallStep, WorkerStep, CleanupStep, CrashStep DEF Next, Work, CopyOf, RowOf

LEMMA TypesHold == Spec => []TypeInv
  BY TypeInit, TypeStep, PTL DEF Spec

(* Every variable keeps its type, and the running cleanup is at expired     *)
(* rows only (WatermarkCleanupService.run).                                 *)
THEOREM TypeCorrect == Spec => []TypeOK
  <1>1. TypeInv => TypeOK
    BY DEF TypeInv
  <1> QED BY <1>1, TypesHold, PTL

-----------------------------------------------------------------------------
(* What a step changes of a job that was made: neither for whom it is nor   *)
(* of what, and it stays expired.                                           *)
Kept(j) ==
  /\ Made(j)'
  /\ job'[j].researcher = job[j].researcher /\ job'[j].item = job[j].item
  /\ job[j].expired => job'[j].expired
  /\ named[j] \subseteq named'[j]

LEMMA MadeKept ==
  ASSUME TypeInv, [Next]_vars, NEW j \in Jobs, Made(j)
  PROVE  Kept(j)
  <1> USE DEF Kept, Made
  <1>1. job \in [Jobs -> Job] /\ named \in [Jobs -> SUBSET Millis]
    BY DEF TypeInv, TypeOK
  <1>2. CASE UNCHANGED <<job, named>>
    BY <1>2
  <1>3. ASSUME NEW i \in Jobs, CreateJob(i) \/ ExpireJob(i)
        PROVE  Kept(j)
    <2>1. CASE CreateJob(i)
      BY <1>1, <2>1 DEF CreateJob, Job
    <2>2. CASE ExpireJob(i)
      BY <1>1, <2>2 DEF ExpireJob, Job
    <2> QED BY <1>3, <2>1, <2>2
  <1>4. ASSUME NEW i \in Jobs, NEW r \in Researchers, NEW x \in Items, CheckDownload(i, r, x)
        PROVE  Kept(j)
    BY <1>1, <1>4 DEF CheckDownload
  <1>5. ASSUME NEW i \in Jobs, CallFails(i)
        PROVE  Kept(j)
    BY <1>1, <1>5 DEF CallFails
  <1>6. ASSUME NEW w \in Workers, Begin(w) \/ RecordFailure(w)
        PROVE  Kept(j)
    BY <1>1, <1>6 DEF Begin, RecordFailure, Job
  <1>7. ASSUME NEW w \in Workers, FinishDone(w)
        PROVE  Kept(j)
    <2>1. /\ job' = [job EXCEPT ![worker[w].job].state = "DONE",
                                ![worker[w].job].path = Copy(worker[w].job, worker[w].stamp)]
          /\ named' = [named EXCEPT ![worker[w].job] = @ \cup {worker[w].stamp}]
      BY <1>7 DEF FinishDone
    <2> QED BY <1>1, <2>1 DEF Job
  <1>8. ASSUME NEW e \in todo, CleanupRow(e)
        PROVE  Kept(j)
    BY <1>1, <1>8 DEF CleanupRow, Job
  <1>9. CASE Crash
    BY <1>1, <1>9 DEF Crash
  <1> QED
    BY <1>2, <1>3, <1>4, <1>5, <1>6, <1>7, <1>8, <1>9
    DEF Next, Work, Download, Process, CopyOf, RowOf, vars, Enqueue, Take, ProcessThrows, PutRaw,
        RenderFails, FinishThrows, Ack, CleanupFind, CleanupObject, CleanupSkip

-----------------------------------------------------------------------------
(* k is the name of a copy for the researcher and of the item of j, and the *)
(* row of j has been given a name of its millisecond.                       *)
Named(j, k) ==
  /\ k.researcher = job[j].researcher /\ k.item = job[j].item
  /\ k.stamp \in named[j]

(* Rows were given the names that they have, and so were those that the     *)
(* cleanup has read.                                                        *)
NamesInv ==
  /\ \A j \in Jobs : named[j] # {} => Made(j)
  /\ \A j \in Jobs : job[j].path # None => Named(j, job[j].path)
  /\ \A e \in todo : e.path # None => Named(e.job, e.path)

(* What a step may do to the names in the rows, and to those read in them.  *)
LEMMA RowNames ==
  ASSUME TypeInv, [Next]_vars, NEW j \in Jobs
  PROVE  /\ \/ named'[j] = named[j]
            \/ Made(j) /\ \E w \in Workers : FinishDone(w)
         /\ \/ job'[j].path = None
            \/ job'[j].path = job[j].path
            \/ \E w \in Workers : /\ FinishDone(w) /\ worker[w].job = j
                                  /\ worker[w].stamp \in named'[j]
                                  /\ job'[j].path = Copy(j, worker[w].stamp)
  <1>1. job \in [Jobs -> Job] /\ named \in [Jobs -> SUBSET Millis]
    BY DEF TypeInv, TypeOK
  <1>2. CASE UNCHANGED <<job, named>>
    BY <1>2
  <1>3. ASSUME NEW i \in Jobs, CreateJob(i) \/ ExpireJob(i) \/ CallFails(i)
        PROVE  named' = named /\ job'[j].path \in {job[j].path, None}
    <2>1. CASE CreateJob(i)
      BY <1>1, <2>1 DEF CreateJob, Job
    <2>2. CASE ExpireJob(i)
      BY <1>1, <2>2 DEF ExpireJob, Job
    <2>3. CASE CallFails(i)
      BY <1>1, <2>3 DEF CallFails, NoJob
    <2> QED BY <1>3, <2>1, <2>2, <2>3
  <1>4. ASSUME NEW i \in Jobs, NEW r \in Researchers, NEW x \in Items, CheckDownload(i, r, x)
        PROVE  named' = named /\ job'[j].path = job[j].path
    BY <1>1, <1>4 DEF CheckDownload, Job
  <1>5. ASSUME NEW w \in Workers, Begin(w) \/ RecordFailure(w)
        PROVE  named' = named /\ job'[j].path = job[j].path
    BY <1>1, <1>5 DEF Begin, RecordFailure, Job
  <1>6. ASSUME NEW w \in Workers, FinishDone(w)
        PROVE  /\ named'[j] = named[j] \/ Made(j)
               /\ \/ job'[j].path = job[j].path
                  \/ /\ worker[w].job = j /\ worker[w].stamp \in named'[j]
                     /\ job'[j].path = Copy(j, worker[w].stamp)
    <2>1. /\ job' = [job EXCEPT ![worker[w].job].state = "DONE",
                                ![worker[w].job].path = Copy(worker[w].job, worker[w].stamp)]
          /\ named' = [named EXCEPT ![worker[w].job] = @ \cup {worker[w].stamp}]
          /\ Row(worker[w].job)
      BY <1>6 DEF FinishDone
    <2>2. Row(worker[w].job) => Made(worker[w].job)
      BY DEF Row, Made
    <2>3. CASE worker[w].job = j
      BY <1>1, <2>1, <2>2, <2>3
    <2>4. CASE worker[w].job # j
      BY <1>1, <2>1, <2>4
    <2> QED BY <2>3, <2>4
  <1>7. ASSUME NEW e \in todo, CleanupRow(e)
        PROVE  named' = named /\ job'[j].path \in {job[j].path, None}
    BY <1>1, <1>7 DEF CleanupRow, Job
  <1>8. CASE Crash
    BY <1>1, <1>8 DEF Crash, NoJob
  <1> QED
    BY <1>2, <1>3, <1>4, <1>5, <1>6, <1>7, <1>8
    DEF Next, Work, Download, Process, CopyOf, RowOf, vars, Enqueue, Take, ProcessThrows, PutRaw,
        RenderFails, FinishThrows, Ack, CleanupFind, CleanupObject, CleanupSkip

LEMMA NamesRead ==
  ASSUME TypeInv, [Next]_vars, NEW e \in todo', e.path # None
  PROVE  e \in todo \/ (e.job \in Jobs /\ e.path = job[e.job].path)
  <1>1. ASSUME NEW f \in todo, CleanupObject(f)
        PROVE  e \in todo
    <2>1. [f EXCEPT !.path = None].path = None
      BY DEF TypeInv, TypeOK
    <2> QED BY <1>1, <2>1 DEF CleanupObject
  <1>2. CASE CleanupFind
    BY <1>2 DEF CleanupFind
  <1> QED
    BY <1>1, <1>2
    DEF Next, Work, Download, Process, CopyOf, RowOf, vars, CheckDownload, CreateJob, Enqueue,
        CallFails, ExpireJob, Take, Begin, ProcessThrows, PutRaw, RenderFails, FinishDone,
        FinishThrows, RecordFailure, Ack, CleanupRow, CleanupSkip, Crash

LEMMA NamesInit == Init => NamesInv
  BY DEF Init, NamesInv, NoJob

LEMMA NamesStep ==
  ASSUME TypeInv, NamesInv, [Next]_vars
  PROVE  NamesInv'
  <1>1. ASSUME NEW j \in Jobs, named'[j] # {}
        PROVE  Made(j)'
    BY <1>1, RowNames, MadeKept DEF NamesInv, Kept
  (* What a row was given, it was given for good. *)
  <1>2. ASSUME NEW j \in Jobs, NEW k, Named(j, k)
        PROVE  Named(j, k)'
    <2>1. Made(j)
      BY <1>2 DEF Named, NamesInv
    <2> QED BY <1>2, <2>1, MadeKept DEF Named, Kept
  <1>3. ASSUME NEW j \in Jobs, job'[j].path # None
        PROVE  Named(j, job[j].path)'
    <2>1. CASE job'[j].path = job[j].path
      <3>1. PICK k : k = job[j].path
        OBVIOUS
      <3>2. Named(j, k)
        BY <1>3, <2>1, <3>1 DEF NamesInv
      <3> QED BY <1>2, <2>1, <3>1, <3>2 DEF Named
    <2>2. ASSUME NEW w \in Workers, FinishDone(w), worker[w].job = j,
                 worker[w].stamp \in named'[j], job'[j].path = Copy(j, worker[w].stamp)
          PROVE  Named(j, job[j].path)'
      <3>1. Made(j)
        BY <2>2 DEF FinishDone, Row, Made
      <3> QED BY <2>2, <3>1, MadeKept DEF Named, Kept, Copy, CacheKey
    <2> QED BY <1>3, <2>1, <2>2, RowNames
  <1>4. ASSUME NEW e \in todo', e.path # None
        PROVE  Named(e.job, e.path)'
    <2>1. e.job \in Jobs /\ Named(e.job, e.path)
      <3>1. CASE e \in todo
        BY <1>4, <3>1 DEF NamesInv, TypeInv, TypeOK
      <3>2. CASE e.job \in Jobs /\ e.path = job[e.job].path
        BY <1>4, <3>2 DEF NamesInv
      <3> QED BY <1>4, <3>1, <3>2, NamesRead
    <2>2. PICK j, k : j \in Jobs /\ j = e.job /\ k = e.path
      BY <2>1
    <2> QED BY <1>2, <2>1, <2>2 DEF Named
  <1> QED BY <1>1, <1>3, <1>4 DEF NamesInv

LEMMA NamesHold == Spec => []NamesInv
  BY NamesInit, NamesStep, TypesHold, PTL DEF Spec

-----------------------------------------------------------------------------
(* The copy k of j is in the bucket, or a twin of it has expired.           *)
There(j, k) == k \in objects \/ \E i \in Jobs : Twin(i, j, k) /\ job[i].expired

(* So it is with what a worker is about to name, if the job has not expired.*)
Stored ==
  \A w \in Workers :
    LET j == worker[w].job
    IN worker[w].pc = "finish" /\ ~job[j].expired => There(j, Copy(j, worker[w].stamp))

ServableInv == NamesInv /\ Stored /\ DoneIsServable

LEMMA Losses ==
  ASSUME [Next]_vars, NEW k \in objects, k \notin objects'
  PROVE  \E e \in todo : e.path = k /\ CleanupObject(e)
  BY DEF Next, Work, Download, Process, CopyOf, RowOf, vars, CheckDownload, CreateJob, Enqueue,
         CallFails, ExpireJob, Take, Begin, ProcessThrows, PutRaw, RenderFails, FinishDone,
         FinishThrows, RecordFailure, Ack, CleanupFind, CleanupObject, CleanupRow, CleanupSkip,
         Crash

(* Whoever loses a copy had expired or has a twin that had.                 *)
LEMMA ThereKept ==
  ASSUME TypeInv, NamesInv, [Next]_vars,
         NEW j \in Jobs, Made(j), ~job[j].expired,
         NEW k, k.researcher = job[j].researcher, k.item = job[j].item, There(j, k)
  PROVE  There(j, k)'
  <1>1. ASSUME k \in objects, k \notin objects'
        PROVE  There(j, k)'
    <2>1. PICK e \in todo : e.path = k /\ CleanupObject(e)
      BY <1>1, Losses
    <2>2. PICK i \in Jobs : i = e.job /\ job[i].expired
      BY DEF TypeInv, TypeOK
    <2>3. Named(i, k)
      BY <2>1, <2>2 DEF NamesInv, CleanupObject
    <2>4. Twin(i, j, k)
      BY <2>2, <2>3 DEF Named, Twin
    <2>5. UNCHANGED <<job, named>>
      BY <2>1 DEF CleanupObject
    <2> QED BY <2>2, <2>4, <2>5 DEF There, Twin
  <1>2. ASSUME NEW i \in Jobs, Twin(i, j, k), job[i].expired
        PROVE  There(j, k)'
    <2>1. Made(i)
      BY <1>2 DEF Twin, NamesInv
    <2> QED BY <1>2, <2>1, MadeKept DEF Kept, Twin, There
  <1> QED BY <1>1, <1>2 DEF There

(* A worker about to name a copy was about to, or has just stored it.       *)
LEMMA WorkersKept ==
  ASSUME TypeInv, [Next]_vars, NEW w \in Workers, worker'[w].pc = "finish"
  PROVE  \/ worker'[w] = worker[w]
         \/ Copy(worker'[w].job, worker'[w].stamp) \in objects' /\ UNCHANGED job
  <1>1. worker \in [Workers -> Worker]
    BY DEF TypeInv, TypeOK
  <1>2. CASE UNCHANGED worker
    BY <1>2
  <1>3. ASSUME NEW v \in Workers, NEW new, new.pc # "finish",
               worker' = [worker EXCEPT ![v] = new]
        PROVE  worker'[w] = worker[w]
    BY <1>1, <1>3
  <1>4. ASSUME NEW v \in Workers, NEW pc, pc # "finish",
               \/ worker' = [worker EXCEPT ![v].pc = pc]
               \/ worker' = [worker EXCEPT ![v].pc = pc, ![v].stamp = None]
        PROVE  worker'[w] = worker[w]
    <2>1. PICK stamp : worker' = [worker EXCEPT ![v] =
                         [pc |-> pc, job |-> worker[v].job, stamp |-> stamp]]
      <3>1. CASE worker' = [worker EXCEPT ![v].pc = pc]
        BY <1>1, <3>1, Rewritten
      <3>2. CASE worker' = [worker EXCEPT ![v].pc = pc, ![v].stamp = None]
        <4>1. [worker EXCEPT ![v].pc = pc, ![v].stamp = None] =
                [worker EXCEPT ![v] = [pc |-> pc, job |-> worker[v].job, stamp |-> None]]
          BY <1>1, Rewritten
        <4> QED BY <3>2, <4>1
      <3> QED BY <1>4, <3>1, <3>2
    <2> DEFINE new == [pc |-> pc, job |-> worker[v].job, stamp |-> stamp]
    <2>2. new.pc # "finish" /\ worker' = [worker EXCEPT ![v] = new]
      BY <1>4, <2>1
    <2> HIDE DEF new
    <2> QED BY <1>3, <2>2
  <1>5. ASSUME NEW v \in Workers, NEW now \in Millis, PutRaw(v, now)
        PROVE  \/ worker'[w] = worker[w]
               \/ Copy(worker'[w].job, worker'[w].stamp) \in objects' /\ UNCHANGED job
    <2> DEFINE new == [pc |-> "finish", job |-> worker[v].job, stamp |-> now]
    <2>1. worker' = [worker EXCEPT ![v] = new] /\ new.job = worker[v].job /\ new.stamp = now
      <3>1. [worker EXCEPT ![v].pc = "finish", ![v].stamp = now] = [worker EXCEPT ![v] = new]
        BY <1>1, Rewritten
      <3> QED BY <1>5, <3>1 DEF PutRaw
    <2>2. Copy(worker[v].job, now) \in objects' /\ UNCHANGED job
      BY <1>5 DEF PutRaw
    <2> HIDE DEF new
    <2> QED BY <1>1, <2>1, <2>2
  <1>6. ASSUME NEW v \in Workers, NEW i \in Jobs, Take(v, i)
        PROVE  worker'[w] = worker[w]
    BY <1>3, <1>6 DEF Take
  <1>7. ASSUME NEW v \in Workers, Ack(v)
        PROVE  worker'[w] = worker[w]
    BY <1>3, <1>7 DEF Ack, Resting
  <1>8. CASE Crash
    BY <1>8 DEF Crash, Resting
  <1> QED
    BY <1>2, <1>4, <1>5, <1>6, <1>7, <1>8
    DEF Next, Work, Download, Process, CopyOf, RowOf, vars, CheckDownload, CreateJob, Enqueue,
        CallFails, ExpireJob, Begin, ProcessThrows, RenderFails, FinishDone, FinishThrows,
        RecordFailure, CleanupFind, CleanupObject, CleanupRow, CleanupSkip

(* A job that is DONE was, or its worker has just named a copy.             *)
LEMMA DoneKept ==
  ASSUME TypeInv, [Next]_vars, NEW j \in Jobs, job'[j].state = "DONE", ~job'[j].expired
  PROVE  \/ job'[j] = job[j]
         \/ \E w \in Workers : /\ FinishDone(w) /\ worker[w].job = j
                               /\ job'[j].path = Copy(j, worker[w].stamp)
  <1>1. job \in [Jobs -> Job]
    BY DEF TypeInv, TypeOK
  <1>2. CASE UNCHANGED job
    BY <1>2
  <1>3. ASSUME NEW i \in Jobs, CreateJob(i) \/ ExpireJob(i) \/ CallFails(i)
        PROVE  job'[j] = job[j]
    <2>1. CASE CreateJob(i)
      BY <1>1, <2>1 DEF CreateJob, Job
    <2>2. CASE ExpireJob(i)
      BY <1>1, <2>2 DEF ExpireJob, Job
    <2>3. CASE CallFails(i)
      BY <1>1, <2>3 DEF CallFails, NoJob
    <2> QED BY <1>3, <2>1, <2>2, <2>3
  <1>4. ASSUME NEW i \in Jobs, NEW r \in Researchers, NEW x \in Items, CheckDownload(i, r, x)
        PROVE  job'[j] = job[j]
    BY <1>1, <1>4 DEF CheckDownload, Job
  <1>5. ASSUME NEW w \in Workers, Begin(w) \/ RecordFailure(w)
        PROVE  job'[j] = job[j]
    BY <1>1, <1>5 DEF Begin, RecordFailure, Job
  <1>6. ASSUME NEW w \in Workers, FinishDone(w)
        PROVE  \/ job'[j] = job[j]
               \/ worker[w].job = j /\ job'[j].path = Copy(j, worker[w].stamp)
    BY <1>1, <1>6 DEF FinishDone, Job
  <1>7. ASSUME NEW e \in todo, CleanupRow(e)
        PROVE  job'[j] = job[j]
    BY <1>1, <1>7 DEF CleanupRow, Job
  <1>8. CASE Crash
    BY <1>1, <1>8 DEF Crash, NoJob
  <1> QED
    BY <1>2, <1>3, <1>4, <1>5, <1>6, <1>7, <1>8
    DEF Next, Work, Download, Process, CopyOf, RowOf, vars, Enqueue, Take, ProcessThrows, PutRaw,
        RenderFails, FinishThrows, Ack, CleanupFind, CleanupObject, CleanupSkip

LEMMA ServableStep == TypeInv /\ ServableInv /\ [Next]_vars => ServableInv'
  <1> SUFFICES ASSUME TypeInv, ServableInv, [Next]_vars PROVE ServableInv'
    OBVIOUS
  <1> USE DEF ServableInv
  <1>1. NamesInv'
    BY NamesStep
  (* What a worker is about to name stays there. *)
  <1>2. ASSUME NEW w \in Workers, NEW j \in Jobs, NEW stamp, NEW k,
               worker[w].pc = "finish", worker[w].job = j, worker[w].stamp = stamp,
               k = Copy(j, stamp), ~job'[j].expired
        PROVE  There(j, k)' /\ Copy(j, stamp)' = k
    <2>1. Made(j)
      BY <1>2 DEF TypeInv, InHand
    <2>2. Kept(j)
      BY <2>1, MadeKept
    <2>3. ~job[j].expired /\ There(j, k)
      BY <1>2, <2>2 DEF Kept, Stored
    <2>4. There(j, k)'
      BY <1>2, <2>1, <2>3, ThereKept DEF Copy, CacheKey
    <2>5. Copy(j, stamp)' = k
      BY <1>2, <2>2 DEF Copy, CacheKey, Kept
    <2> QED BY <2>4, <2>5
  <1>3. Stored'
    <2> SUFFICES ASSUME NEW w \in Workers, worker'[w].pc = "finish",
                        ~job'[worker'[w].job].expired
                 PROVE  There(worker[w].job, Copy(worker[w].job, worker[w].stamp))'
      BY DEF Stored
    <2>1. CASE worker'[w] = worker[w]
      <3>1. PICK j \in Jobs : worker[w].job = j
        BY <2>1 DEF TypeInv, InHand
      <3>2. PICK stamp, k : worker[w].stamp = stamp /\ k = Copy(j, stamp)
        OBVIOUS
      <3>3. There(j, k)' /\ Copy(j, stamp)' = k
        BY <1>2, <2>1, <3>1, <3>2
      <3>4. worker'[w].job = j /\ worker'[w].stamp = stamp
        BY <2>1, <3>1, <3>2
      <3> QED BY <3>3, <3>4
    <2>2. CASE Copy(worker'[w].job, worker'[w].stamp) \in objects' /\ UNCHANGED job
      <3>1. Copy(worker[w].job, worker[w].stamp)' \in objects'
        BY <2>2 DEF Copy
      <3> QED BY <3>1 DEF There
    <2> QED BY <2>1, <2>2, WorkersKept
  <1>4. DoneIsServable'
    <2> SUFFICES ASSUME NEW j \in Jobs, job'[j].state = "DONE", ~job'[j].expired
                 PROVE  There(j, job[j].path)'
      BY DEF DoneIsServable, There
    <2>1. CASE job'[j] = job[j]
      <3>1. PICK k : k = job[j].path
        OBVIOUS
      <3>2. Made(j) /\ Named(j, k) /\ There(j, k)
        BY <2>1, <3>1, KeysAssumption
        DEF DoneIsServable, There, NamesInv, TypeInv, TypeOK, Made
      <3>3. There(j, k)'
        BY <2>1, <3>2, ThereKept DEF Named
      <3> QED BY <2>1, <3>1, <3>3 DEF There, Twin
    <2>2. CASE \E w \in Workers : /\ FinishDone(w) /\ worker[w].job = j
                                 /\ job'[j].path = Copy(j, worker[w].stamp)
      <3>1. PICK w \in Workers : /\ FinishDone(w) /\ worker[w].job = j
                                 /\ job'[j].path = Copy(j, worker[w].stamp)
        BY <2>2
      <3>2. PICK stamp, k : worker[w].stamp = stamp /\ k = Copy(j, stamp)
        OBVIOUS
      <3>3. There(j, k)'
        BY <1>2, <3>1, <3>2 DEF FinishDone
      <3> QED BY <3>1, <3>2, <3>3 DEF There, Twin
    <2> QED BY <2>1, <2>2, DoneKept
  <1> QED BY <1>1, <1>3, <1>4

(* However many downloads of one item there are, and whatever dies on the   *)
(* way, the copy that a DONE job names can be downloaded until the job      *)
(* expires, or until a job for the same researcher and item does that has   *)
(* named a copy of the same millisecond (watermarkCacheKey,                 *)
(* WatermarkProcessor.process, WatermarkCleanupService.run).                *)
THEOREM CopiesServable == Spec => []DoneIsServable
  <1>1. Init => ServableInv
    BY NamesInit DEF Init, ServableInv, Stored, DoneIsServable, NoJob, Resting
  <1>2. ServableInv => DoneIsServable
    BY DEF ServableInv
  <1> QED BY <1>1, <1>2, ServableStep, TypesHold, PTL DEF Spec

-----------------------------------------------------------------------------
(* A worker is on a job that BullMQ counts as active, and on it alone.      *)
Busy ==
  \A w \in Workers : worker[w].pc # "idle" =>
    /\ entry[worker[w].job].state = "active"
    /\ \A v \in Workers : worker[v].pc # "idle" /\ worker[v].job = worker[w].job => v = w

(* What a step of a worker on a job leaves it with. *)
LEMMA GoesOn ==
  ASSUME TypeInv, NEW w \in Workers, Process(w), ~Ack(w)
  PROVE  /\ entry' = entry /\ worker[w].pc # "idle"
         /\ worker'[w].job = worker[w].job
         /\ \A v \in Workers : v # w => worker'[v] = worker[v]
  <1>1. worker \in [Workers -> Worker]
    BY DEF TypeInv, TypeOK
  <1>2. PICK pc, stamp : \/ worker' = [worker EXCEPT ![w].pc = pc]
                         \/ worker' = [worker EXCEPT ![w].pc = pc, ![w].stamp = stamp]
    BY DEF Process, Begin, ProcessThrows, PutRaw, RenderFails, FinishDone, FinishThrows,
           RecordFailure
  <1>3. /\ [worker EXCEPT ![w].pc = pc] =
           [worker EXCEPT ![w] = [pc |-> pc, job |-> worker[w].job, stamp |-> worker[w].stamp]]
        /\ [worker EXCEPT ![w].pc = pc, ![w].stamp = stamp] =
           [worker EXCEPT ![w] = [pc |-> pc, job |-> worker[w].job, stamp |-> stamp]]
    BY <1>1, Rewritten
  <1>4. PICK n : worker' = [worker EXCEPT ![w] = [pc |-> pc, job |-> worker[w].job, stamp |-> n]]
    BY <1>2, <1>3
  <1>5. entry' = entry /\ worker[w].pc # "idle"
    BY DEF Process, Begin, ProcessThrows, PutRaw, RenderFails, FinishDone, FinishThrows,
           RecordFailure
  <1> QED BY <1>1, <1>4, <1>5

LEMMA BusyStep == TypeInv /\ Busy /\ [Next]_vars => Busy'
  <1> SUFFICES ASSUME TypeInv, Busy, [Next]_vars PROVE Busy'
    OBVIOUS
  <1>1. worker \in [Workers -> Worker] /\ entry \in [Jobs -> Entry]
    BY DEF TypeInv, TypeOK
  <1>2. CASE UNCHANGED <<worker, entry>>
    BY <1>2 DEF Busy
  (* A call touches the entry of a job that no worker has been given. *)
  <1>3. ASSUME NEW j \in Jobs, Enqueue(j) \/ CallFails(j)
        PROVE  Busy'
    <2>1. worker' = worker /\ \A i \in Jobs : entry'[i] = entry[i] \/ entry[i].state = "none"
      BY <1>1, <1>3 DEF Enqueue, CallFails
    <2> QED BY <2>1 DEF Busy, TypeInv, InHand
  <1>4. ASSUME NEW w \in Workers, NEW j \in Jobs, Take(w, j)
        PROVE  Busy'
    <2>1. /\ worker'[w].job = j /\ \A v \in Workers : v # w => worker'[v] = worker[v]
          /\ entry'[j].state = "active" /\ \A i \in Jobs : i # j => entry'[i] = entry[i]
          /\ entry[j].state = "waiting"
      BY <1>1, <1>4 DEF Take, Entry
    <2>2. \A v \in Workers : worker[v].pc # "idle" => worker[v].job \in Jobs /\ worker[v].job # j
      BY <2>1 DEF Busy, TypeInv, InHand
    <2> QED BY <2>1, <2>2 DEF Busy
  <1>5. ASSUME NEW w \in Workers, Process(w), ~Ack(w)
        PROVE  Busy'
    BY <1>5, GoesOn DEF Busy
  <1>6. ASSUME NEW w \in Workers, Ack(w)
        PROVE  Busy'
    <2>1. /\ worker'[w].pc = "idle" /\ \A v \in Workers : v # w => worker'[v] = worker[v]
          /\ worker[w].pc # "idle"
          /\ \A i \in Jobs : i # worker[w].job => entry'[i] = entry[i]
      BY <1>1, <1>6 DEF Ack, Resting
    <2> QED BY <2>1 DEF Busy, TypeInv, InHand
  <1>7. CASE Crash
    BY <1>7 DEF Crash, Resting, Busy
  <1> QED
    BY <1>2, <1>3, <1>4, <1>5, <1>6, <1>7
    DEF Next, Work, Download, CopyOf, RowOf, vars, CheckDownload, CreateJob, ExpireJob,
        CleanupFind, CleanupObject, CleanupRow, CleanupSkip

(* What may move a job that is over: the time, and the cleanup of its row.  *)
LEMMA OverKept ==
  ASSUME TypeInv, Busy, [Next]_vars, NEW j \in Jobs, Row(j), entry[j].state = "over"
  PROVE  /\ entry'[j].state = "over"
         /\ \/ Row(j)' /\ job'[j].path = job[j].path
            \/ \E e \in todo : e.job = j /\ CleanupRow(e)
  <1>1. job \in [Jobs -> Job] /\ entry \in [Jobs -> Entry]
    BY DEF TypeInv, TypeOK
  <1>2. CASE UNCHANGED <<job, entry>>
    BY <1>2 DEF Row
  <1>3. ASSUME NEW i \in Jobs, CreateJob(i) \/ Enqueue(i) \/ CallFails(i) \/ ExpireJob(i)
        PROVE  entry'[j] = entry[j] /\ Row(j)' /\ job'[j].path = job[j].path
    <2>1. CASE CreateJob(i)
      BY <1>1, <2>1 DEF CreateJob, Row, Job
    <2>2. CASE Enqueue(i)
      BY <1>1, <2>2 DEF Enqueue, Row
    <2>3. CASE CallFails(i)
      BY <1>1, <2>3 DEF CallFails, Row, NoJob
    <2>4. CASE ExpireJob(i)
      BY <1>1, <2>4 DEF ExpireJob, Row, Job
    <2> QED BY <1>3, <2>1, <2>2, <2>3, <2>4
  <1>4. ASSUME NEW i \in Jobs, NEW r \in Researchers, NEW x \in Items, CheckDownload(i, r, x)
        PROVE  entry' = entry /\ job'[j] = job[j]
    BY <1>1, <1>4 DEF CheckDownload, Row, Job
  <1>5. ASSUME NEW w \in Workers, NEW i \in Jobs, Take(w, i)
        PROVE  entry'[j] = entry[j] /\ job' = job
    BY <1>1, <1>5 DEF Take
  (* No worker is on it. *)
  <1>6. ASSUME NEW w \in Workers, Process(w)
        PROVE  entry'[j] = entry[j] /\ job'[j] = job[j]
    <2>1. worker[w].pc # "idle"
      BY <1>6 DEF Process, Begin, ProcessThrows, PutRaw, RenderFails, FinishDone, FinishThrows,
                  RecordFailure, Ack
    <2>2. worker[w].job # j
      BY <2>1 DEF Busy
    <2> QED BY <1>1, <1>6, <2>2
            DEF Process, Begin, ProcessThrows, PutRaw, RenderFails, FinishDone, FinishThrows,
                RecordFailure, Ack
  <1>7. ASSUME NEW e \in todo, CleanupRow(e), e.job # j
        PROVE  entry' = entry /\ job'[j] = job[j]
    BY <1>1, <1>7 DEF CleanupRow
  <1>8. CASE Crash
    BY <1>1, <1>8 DEF Crash, Stalled, Row
  <1>9. ASSUME NEW e \in todo, CleanupRow(e), e.job = j
        PROVE  entry' = entry
    BY <1>9 DEF CleanupRow
  <1>10. job'[j] = job[j] => Row(j)' /\ job'[j].path = job[j].path
    BY DEF Row
  <1> QED
    BY <1>2, <1>3, <1>4, <1>5, <1>6, <1>7, <1>8, <1>9, <1>10
    DEF Next, Work, Download, CopyOf, RowOf, vars, CleanupFind, CleanupObject, CleanupSkip

(* A COPY IS NAMED UNTIL IT IS GONE.  The row that names a settled copy goes*)
(* on to name it for as long as it is in the bucket, whatever dies or fails *)
(* in the middle of the cleanup (WatermarkCleanupService.run).  With RowsGo *)
(* this is what CopiesGo rests on.                                          *)
THEOREM NamedUntilGone ==
  Spec => [][\A j \in Jobs, k \in Keys :
               Settled(j, k) /\ k \in objects => Settled(j, k)' \/ k \notin objects']_vars
  <1>1. Init => Busy
    BY DEF Init, Resting, Busy
  <1>2. ASSUME TypeInv, Busy, [Next]_vars,
               NEW j \in Jobs, NEW k \in Keys, Settled(j, k), k \in objects, k \in objects'
        PROVE  Settled(j, k)'
    <2>1. Row(j) /\ job[j].path = k /\ entry[j].state = "over" /\ k # None
      BY <1>2, KeysAssumption DEF Settled
    <2>2. ASSUME NEW e \in todo, e.job = j
          PROVE  ~CleanupRow(e)
      BY <1>2, <2>1, <2>2 DEF CleanupRow, ObjectDeleted, Settled
    <2>3. Row(j)' /\ job'[j].path = k /\ entry'[j].state = "over"
      BY <1>2, <2>1, <2>2, OverKept
    <2>4. ASSUME NEW e \in todo', e.job = j
          PROVE  e.path = k
      <3>1. CASE e \in todo
        BY <1>2, <2>4, <3>1 DEF Settled
      <3>2. ASSUME NEW f \in todo, CleanupObject(f), e = [f EXCEPT !.path = None]
            PROVE  FALSE
        <4>1. f.job = j
          BY <1>2, <2>4, <3>2 DEF TypeInv, TypeOK
        <4> QED BY <1>2, <3>2, <4>1 DEF Settled, CleanupObject
      <3>3. CASE CleanupFind
        BY <2>1, <2>4, <3>3 DEF CleanupFind
      <3> QED
        BY <1>2, <2>4, <3>1, <3>2, <3>3
        DEF Next, Work, Download, Process, CopyOf, RowOf, vars, CheckDownload, CreateJob, Enqueue,
            CallFails, ExpireJob, Take, Begin, ProcessThrows, PutRaw, RenderFails, FinishDone,
            FinishThrows, RecordFailure, Ack, CleanupObject, CleanupRow, CleanupSkip, Crash
    <2> QED BY <2>3, <2>4 DEF Settled
  <1>3. TypeInv /\ Busy /\ [Next]_vars =>
          [\A j \in Jobs, k \in Keys :
             Settled(j, k) /\ k \in objects => Settled(j, k)' \/ k \notin objects']_vars
    BY <1>2
  <1> QED BY <1>1, <1>3, BusyStep, TypesHold, PTL DEF Spec

-----------------------------------------------------------------------------
(* For the portal: what work changes of who asked for what, and the copies  *)
(* it makes.                                                                *)
LEMMA RequestKept ==
  ASSUME TypeInv, Work, NEW j \in Jobs, job'[j].state # "none"
  PROVE  /\ job[j].state # "none"
         /\ job'[j].researcher = job[j].researcher /\ job'[j].item = job[j].item
  <1>1. job \in [Jobs -> Job]
    BY DEF TypeInv, TypeOK
  <1>2. [Next]_vars
    BY DEF Next
  <1>3. CASE Made(j)
    BY <1>2, <1>3, MadeKept DEF Made, Kept
  <1>4. CASE UNCHANGED job
    BY <1>4
  <1>5. ASSUME NEW i \in Jobs, CreateJob(i) \/ ExpireJob(i) \/ CallFails(i)
        PROVE  /\ job[j].state # "none"
               /\ job'[j].researcher = job[j].researcher /\ job'[j].item = job[j].item
    <2>1. CASE CreateJob(i)
      BY <1>1, <2>1 DEF CreateJob, Job
    <2>2. CASE ExpireJob(i)
      BY <1>1, <2>2 DEF ExpireJob, Row, Job
    <2>3. CASE CallFails(i)
      BY <1>1, <2>3 DEF CallFails, NoJob
    <2> QED BY <1>5, <2>1, <2>2, <2>3
  (* A step of a worker or of the cleanup is at a job that was made. *)
  <1>6. ASSUME NEW w \in Workers, Process(w), ~Made(j)
        PROVE  job'[j] = job[j]
    BY <1>1, <1>6
    DEF Process, Begin, ProcessThrows, PutRaw, RenderFails, FinishDone, FinishThrows,
        RecordFailure, Ack, Row, Made
  <1>7. ASSUME NEW e \in todo, CleanupRow(e), ~Made(j)
        PROVE  job'[j] = job[j]
    <2>1. Made(e.job)
      BY DEF TypeInv, TypeOK, Row, Made
    <2> QED BY <1>1, <1>7, <2>1 DEF CleanupRow
  <1>8. CASE Crash
    BY <1>1, <1>8 DEF Crash, NoJob
  <1> QED
    BY <1>3, <1>4, <1>5, <1>6, <1>7, <1>8
    DEF Work, Download, CopyOf, RowOf, Enqueue, Take, CleanupFind, CleanupObject, CleanupSkip

LEMMA Additions ==
  ASSUME TypeInv, Work, NEW k \in objects', k \notin objects
  PROVE  \E j \in Jobs, now \in Millis : Made(j) /\ k = Copy(j, now)
  <1>1. PICK w \in Workers, now \in Millis : PutRaw(w, now)
    BY DEF Work, Download, Process, CopyOf, RowOf, CreateJob, Enqueue, CallFails, ExpireJob, Take,
           Begin, ProcessThrows, RenderFails, FinishDone, FinishThrows, RecordFailure, Ack,
           CleanupFind, CleanupObject, CleanupRow, CleanupSkip, Crash
  <1>2. worker[w].job \in Jobs /\ Made(worker[w].job)
    BY <1>1 DEF PutRaw, TypeInv, InHand
  <1> QED BY <1>1, <1>2 DEF PutRaw

-----------------------------------------------------------------------------
(* Whose step it is: the pipeline takes one of its own or none.             *)
LEMMA PipelineSteps == [PortalNext]_portalVars => [Next]_vars
  BY DEF PortalNext, Next, portalVars, vars, requestVars, RequestDownload, GetWatermarkJob

(* So all that was shown of the pipeline above holds of it in the portal,   *)
(* whatever is asked and answered there.                                    *)
THEOREM PortalRunsPipeline == PortalSpec => Spec
  <1>1. PortalInit => Init
    BY DEF PortalInit
  <1> QED BY <1>1, PipelineSteps, PTL DEF PortalSpec, Spec

(* A job was asked for by a researcher given leave.                         *)
Granted == \A j \in Jobs : job[j].state # "none" => <<job[j].researcher, job[j].item>> \in admitted

(* Whoever may view an item now was given leave. *)
Admissions ==
  \A r \in Researchers, i \in Items :
    i \in open \/ access[r][i] = "APPROVED" => <<r, i>> \in admitted

PortalInv ==
  PortalTypeOK /\ TypeInv /\ NamesInv /\ Admissions /\ Granted /\ UrlsRightful

LEMMA PortalInvInit == PortalInit => PortalInv
  <1> SUFFICES ASSUME PortalInit PROVE PortalInv
    OBVIOUS
  <1>1. TypeInv /\ NamesInv
    BY TypeInit, NamesInit DEF PortalInit
  <1>2. PortalTypeOK
    BY <1>1 DEF PortalInit, PortalTypeOK, TypeInv, Requests!Init, Requests!TypeOK
  <1>4. Admissions
    BY DEF PortalInit, Requests!Init, Admissions
  <1>3. Granted /\ UrlsRightful
    BY DEF PortalInit, Init, NoJob, Granted, UrlsRightful
  <1> QED BY <1>1, <1>2, <1>3, <1>4 DEF PortalInv

(* Leave that was given is never forgotten (requestAccess, approve, reject).*)
LEMMA RequestsStep ==
  ASSUME Requests!TypeOK, Admissions, [PortalNext]_portalVars
  PROVE  Requests!TypeOK' /\ Admissions' /\ admitted \subseteq admitted'
  <1> USE DEF Admissions
  <1>1. CASE UNCHANGED <<open, gone, access, admitted>>
    BY <1>1 DEF Requests!TypeOK
  <1>2. CASE Requests!Next
    BY <1>2
    DEF Requests!TypeOK, Requests!Next, Requests!Publish, Requests!Withdraw, Requests!Remove,
        Requests!RequestAccess, Requests!Approve, Requests!Reject, Requests!Lapse
  <1> QED
    BY <1>1, <1>2 DEF PortalNext, portalVars, vars, requestVars, RequestDownload, GetWatermarkJob

LEMMA PortalTypeStep ==
  ASSUME PortalInv, [PortalNext]_portalVars
  PROVE  PortalTypeOK' /\ TypeInv' /\ NamesInv'
  <1>1. TypeInv' /\ NamesInv'
    BY PipelineSteps, TypeStep, NamesStep DEF PortalInv
  <1>2. TypeOK'
    BY <1>1 DEF TypeInv
  <1>3. Requests!TypeOK'
    BY RequestsStep DEF PortalInv, PortalTypeOK
  <1>4. urls' \subseteq [to : Researchers, key : Keys]
    <2>1. ASSUME NEW r \in Researchers, NEW j \in Jobs, GetWatermarkJob(r, j)
          PROVE  urls' \subseteq [to : Researchers, key : Keys]
      BY <2>1
      DEF GetWatermarkJob, HasCopy, PortalInv, PortalTypeOK, TypeInv, TypeOK
    <2>2. CASE UNCHANGED urls
      BY <2>2 DEF PortalInv, PortalTypeOK
    <2> QED BY <2>1, <2>2 DEF PortalNext, portalVars, vars, requestVars, RequestDownload
  <1> QED BY <1>1, <1>2, <1>3, <1>4 DEF PortalTypeOK

LEMMA GrantedStep ==
  ASSUME PortalInv, [PortalNext]_portalVars
  PROVE  Granted'
  <1>1. admitted \subseteq admitted'
    BY RequestsStep DEF PortalInv, PortalTypeOK
  <1>2. CASE UNCHANGED job
    BY <1>1, <1>2 DEF Granted, PortalInv
  <1>3. CASE Work
    BY <1>1, <1>3, RequestKept DEF Granted, PortalInv
  <1>4. ASSUME NEW r \in Researchers, NEW j \in Jobs, NEW i \in Items, RequestDownload(j, r, i)
        PROVE  Granted'
    <2>1. <<r, i>> \in admitted
      BY <1>4 DEF RequestDownload, Requests!Viewable, PortalInv, Admissions
    <2>2. job \in [Jobs -> Job]
      BY DEF PortalInv, TypeInv, TypeOK
    <2>3. job' = [job EXCEPT ![j].state = "checked", ![j].researcher = r, ![j].item = i]
      BY <1>4 DEF RequestDownload, CheckDownload
    <2>4. /\ job'[j].researcher = r /\ job'[j].item = i
          /\ \A k \in Jobs : k # j => job'[k] = job[k]
      BY <2>2, <2>3 DEF Job
    <2> QED BY <1>1, <2>1, <2>4 DEF Granted, PortalInv
  <1> QED
    BY <1>2, <1>3, <1>4 DEF PortalNext, portalVars, vars, requestVars, GetWatermarkJob

LEMMA UrlsStep ==
  ASSUME PortalInv, [PortalNext]_portalVars
  PROVE  UrlsRightful'
  <1>1. admitted \subseteq admitted'
    BY RequestsStep DEF PortalInv, PortalTypeOK
  <1>2. \A k \in objects' : <<k.researcher, k.item>> \in admitted'
    <2> SUFFICES ASSUME NEW k \in objects', k \notin objects
                 PROVE  <<k.researcher, k.item>> \in admitted
      BY <1>1 DEF PortalInv, UrlsRightful
    <2>1. Work
      BY DEF PortalNext, portalVars, vars, requestVars, RequestDownload, CheckDownload,
             GetWatermarkJob
    <2>2. PICK j \in Jobs, now \in Millis : Made(j) /\ k = Copy(j, now)
      BY <2>1, Additions DEF PortalInv
    <2> QED BY <2>2 DEF PortalInv, Granted, Made, Copy, CacheKey
  <1>3. \A u \in urls' : u.to = u.key.researcher /\ <<u.to, u.key.item>> \in admitted'
    <2>1. CASE UNCHANGED urls
      BY <1>1, <2>1 DEF PortalInv, UrlsRightful
    <2>2. ASSUME NEW r \in Researchers, NEW j \in Jobs, GetWatermarkJob(r, j)
          PROVE  \A u \in urls' : u.to = u.key.researcher /\ <<u.to, u.key.item>> \in admitted'
      <3>1. Named(j, job[j].path) /\ job[j].state # "none"
        BY <2>2 DEF GetWatermarkJob, HasCopy, PortalInv, NamesInv
      <3>2. /\ job[j].path.researcher = r /\ job[j].path.item = job[j].item
            /\ <<r, job[j].item>> \in admitted
        BY <2>2, <3>1 DEF GetWatermarkJob, OwnJob, PortalInv, Named, Granted
      <3>3. urls' = urls \cup {[to |-> r, key |-> job[j].path]}
        BY <2>2 DEF GetWatermarkJob
      <3> DEFINE link == [to |-> r, key |-> job[j].path]
      <3>4. link.to = link.key.researcher /\ <<link.to, link.key.item>> \in admitted
        BY <3>2
      <3>5. urls' = urls \cup {link}
        BY <3>3
      <3> HIDE DEF link
      <3> QED BY <1>1, <3>4, <3>5 DEF PortalInv, UrlsRightful
    <2> QED BY <2>1, <2>2 DEF PortalNext, portalVars, vars, requestVars, RequestDownload
  <1> QED BY <1>2, <1>3 DEF UrlsRightful

LEMMA PortalInvStep == PortalInv /\ [PortalNext]_portalVars => PortalInv'
  <1>1. PortalInv /\ [PortalNext]_portalVars => Admissions'
    BY RequestsStep DEF PortalInv, PortalTypeOK
  <1> QED BY <1>1, PortalTypeStep, GrantedStep, UrlsStep DEF PortalInv

LEMMA PortalHolds == PortalSpec => []PortalInv
  BY PortalInvInit, PortalInvStep, PTL DEF PortalSpec

(* Every variable of the portal and its pipeline keeps its type.            *)
THEOREM PortalTypeCorrect == PortalSpec => []PortalTypeOK
  <1>1. PortalInv => PortalTypeOK
    BY DEF PortalInv
  <1> QED BY <1>1, PortalHolds, PTL

(* However access changes meanwhile, copies are made and links handed out   *)
(* only for researchers once given leave, each to the one who asked         *)
(* (assertViewable, requestDownload, getWatermarkJob).                      *)
THEOREM LinksRightful == PortalSpec => []UrlsRightful
  <1>1. PortalInv => UrlsRightful
    BY DEF PortalInv
  <1> QED BY <1>1, PortalHolds, PTL

(* A LINK LEADS TO A COPY.  The link that is handed out for a job not yet   *)
(* expired is to a copy that is in the bucket, in whatever state the        *)
(* workers and the cleanup are, or to one whose name a twin has shared that *)
(* has expired (getWatermarkJob, WatermarkProcessor, watermarkCacheKey).    *)
THEOREM LinksLead ==
  PortalSpec => [][\A r \in Researchers, j \in Jobs :
                     GetWatermarkJob(r, j) /\ ~job[j].expired =>
                       \/ job[j].path \in objects
                       \/ \E i \in Jobs : Twin(i, j, job[j].path) /\ job[i].expired]_portalVars
  <1>1. DoneIsServable =>
          [\A r \in Researchers, j \in Jobs :
             GetWatermarkJob(r, j) /\ ~job[j].expired =>
               \/ job[j].path \in objects
               \/ \E i \in Jobs : Twin(i, j, job[j].path) /\ job[i].expired]_portalVars
    BY DEF DoneIsServable, GetWatermarkJob, HasCopy
  <1> QED BY <1>1, PortalRunsPipeline, CopiesServable, PTL
=============================================================================
