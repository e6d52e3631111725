----------------------------- MODULE SearchIndex -----------------------------
(***************************************************************************)
(* content_items.search_vector and those who write it: every write of an   *)
(* item through its trigger, and SearchService.reindex, which the review   *)
(* of AI predictions calls.  SearchService.search reads it first and the   *)
(* items afterwards.                                                       *)
(*                                                                         *)
(* An item is the set of its words: one for its title, one for the text in *)
(* its metadata.  A prediction of type TEXT is a word of its own.  All of  *)
(* it belongs to one tenant.                                               *)
(***************************************************************************)
CONSTANTS
  Items,        \* content_items rows that are ever made
  Predictions,  \* ai_predictions rows that are ever made
  Reviews,      \* calls of AiPredictionsService.resolve in flight at once
  Searches,     \* calls of SearchService.search in flight at once
  None          \* no item, prediction or word

Own == {"title", "text"}

Words == Own \cup Predictions

ASSUME NamesAssumption == Own \cap Predictions = {} /\ None \notin Words \cup Items

VARIABLES
  made,        \* the items that have a row
  item,        \* the words of title and metadata
  vector,      \* the words of search_vector
  prediction,  \* ai_predictions
  review,      \* what each resolve is about to do
  search,      \* what each search has found, and what it has handed out
  answered     \* history: predictions approved, by a call that has answered since

vars == <<made, item, vector, prediction, review, search, answered>>
rows == <<made, item, vector>>

Prediction == [item : Items \cup {None},
               type : {"TEXT", "CHARACTER"},
               status : {"PENDING", "APPROVED", "REJECTED"}]

Review == [pc : {"idle", "update", "reindex"},
           prediction : Predictions \cup {None},
           status : {"APPROVED", "REJECTED"}]

Search == [pc : {"idle", "hydrate"},
           q : Words \cup {None},
           ids : SUBSET Items,
           shown : SUBSET (Items \X Words)]

Reviewed == [pc |-> "idle", prediction |-> None, status |-> "REJECTED"]

Init ==
  /\ made = {}
  /\ item = [i \in Items |-> {}]
  /\ vector = [i \in Items |-> {}]
  /\ prediction = [p \in Predictions |-> [item |-> None, type |-> "TEXT", status |-> "PENDING"]]
  /\ review = [r \in Reviews |-> Reviewed]
  /\ search = [s \in Searches |-> [pc |-> "idle", q |-> None, ids |-> {}, shown |-> {}]]
  /\ answered = {}

-----------------------------------------------------------------------------
(* Plausible slip: an AFTER trigger, which cannot change the row. *)
Trigger_After(words, set) == set

(* Before a row is written, the trigger computes search_vector from the     *)
(* title and the metadata, whatever the statement has set it to.            *)
Trigger(words, set) == words

(* The statement gives item i these words and search_vector this set. *)
Store(i, words, set) ==
  /\ item' = [item EXCEPT ![i] = words]
  /\ vector' = [vector EXCEPT ![i] = Trigger(words, set)]

Create(i, metadata) ==
  /\ i \notin made
  /\ made' = made \cup {i}
  /\ Store(i, {"title"} \cup metadata, {})
  /\ UNCHANGED <<prediction, review, search, answered>>

(* DocumentProcessor puts the text it extracted into the metadata. *)
AddText(i) ==
  /\ i \in made
  /\ Store(i, item[i] \cup {"text"}, vector[i])
  /\ UNCHANGED <<made, prediction, review, search, answered>>

(* Plausible slip: the title is left standing. *)
Scrub_Metadata(i) ==
  /\ i \in made
  /\ Store(i, item[i] \ {"text"}, vector[i])
  /\ UNCHANGED <<made, prediction, review, search, answered>>

(* The retention cron scrubs the title and the metadata. *)
Scrub(i) ==
  /\ i \in made
  /\ Store(i, {}, vector[i])
  /\ UNCHANGED <<made, prediction, review, search, answered>>

-----------------------------------------------------------------------------
(* AiPredictionsService.create. *)
Predict(p, i, type) ==
  /\ prediction[p].item = None /\ i \in made
  /\ prediction' = [prediction EXCEPT ![p].item = i, ![p].type = type]
  /\ UNCHANGED <<rows, review, search, answered>>

(* approve and reject: resolve finds the prediction, in whatever state ... *)
ResolveFind(r, p, status) ==
  /\ review[r].pc = "idle"
  /\ prediction[p].item # None
  /\ review' = [review EXCEPT ![r] = [pc |-> "update", prediction |-> p, status |-> status]]
  /\ UNCHANGED <<rows, prediction, search, answered>>

(* Plausible slip: every decision is followed by a reindex. *)
NeedsReindex_Always(r) == TRUE

NeedsReindex(r) ==
  review[r].status = "APPROVED" /\ prediction[review[r].prediction].type = "TEXT"

(* ... writes the decision over any other ... *)
ResolveUpdate(r) ==
  LET p == review[r].prediction
  IN /\ review[r].pc = "update"
     /\ prediction' = [prediction EXCEPT ![p].status = review[r].status]
     /\ review' = [review EXCEPT ![r] = IF NeedsReindex(r) THEN [@ EXCEPT !.pc = "reindex"]
                                        ELSE Reviewed]
     /\ answered' = answered \ {p}
     /\ UNCHANGED <<rows, search>>

ApprovedTexts(i) ==
  {p \in Predictions : prediction[p] = [item |-> i, type |-> "TEXT", status |-> "APPROVED"]}

(* ... and has the item of an approved text indexed: one UPDATE. *)
Reindex(r) ==
  LET p == review[r].prediction
      i == prediction[p].item
  IN /\ review[r].pc = "reindex"
     /\ Store(i, item[i], item[i] \cup ApprovedTexts(i))
     /\ review' = [review EXCEPT ![r] = Reviewed]
     /\ answered' = IF prediction[p].status = "APPROVED" THEN answered \cup {p} ELSE answered
     /\ UNCHANGED <<made, prediction, search>>

(* The next call of resolve throws, or the process dies. *)
ResolveFails(r) ==
  /\ review[r].pc # "idle"
  /\ review' = [review EXCEPT ![r] = Reviewed]
  /\ UNCHANGED <<rows, prediction, search, answered>>

-----------------------------------------------------------------------------
Matches(q) == {i \in made : q = None \/ q \in vector[i]}

(* search: the index gives ids ... *)
FindIds(s, q) ==
  /\ search[s].pc = "idle"
  /\ Matches(q) # {}
  /\ search' = [search EXCEPT ![s] = [pc |-> "hydrate", q |-> q, ids |-> Matches(q), shown |-> {}]]
  /\ UNCHANGED <<rows, prediction, review, answered>>

Hydrated(s) == {hit \in search[s].ids \X Own : hit[2] \in item[hit[1]]}

(* ... and the rows are read by id, and handed out. *)
Hydrate(s) ==
  /\ search[s].pc = "hydrate"
  /\ search' = [search EXCEPT ![s] = [pc |-> "idle", q |-> None, ids |-> {}, shown |-> Hydrated(s)]]
  /\ UNCHANGED <<rows, prediction, review, answered>>

Write(i) ==
  \/ \E metadata \in SUBSET {"text"} : Create(i, metadata)
  \/ AddText(i)
  \/ Scrub(i)
  \/ \E p \in Predictions, type \in {"TEXT", "CHARACTER"} : Predict(p, i, type)

Resolve(r) ==
  \/ \E p \in Predictions, status \in {"APPROVED", "REJECTED"} : ResolveFind(r, p, status)
  \/ ResolveUpdate(r) \/ Reindex(r) \/ ResolveFails(r)

Next ==
  \/ \E i \in Items : Write(i)
  \/ \E r \in Reviews : Resolve(r)
  \/ \E s \in Searches : Hydrate(s) \/ \E q \in Words \cup {None} : FindIds(s, q)

Spec == Init /\ [][Next]_vars

-----------------------------------------------------------------------------
TypeOK ==
  /\ made \subseteq Items
  /\ item \in [Items -> SUBSET Own]
  /\ vector \in [Items -> SUBSET Words]
  /\ prediction \in [Predictions -> Prediction]
  /\ \A p \in Predictions : prediction[p].item \in made \cup {None}
  /\ review \in [Reviews -> Review]
  /\ \A r \in Reviews : review[r].pc # "idle" =>
       /\ review[r].prediction \in Predictions
       /\ prediction[review[r].prediction].item # None
       /\ review[r].pc = "reindex" =>
            review[r].status = "APPROVED" /\ prediction[review[r].prediction].type = "TEXT"
  /\ search \in [Searches -> Search]
  /\ \A s \in Searches : search[s].ids \subseteq made
  /\ answered \subseteq Predictions

(* Whoever wrote the row last, and whatever a reindex in flight has set,    *)
(* the index finds an item by the words of its title and its metadata and   *)
(* by none that it has lost: text that was extracted is found "with no      *)
(* extra reindex call", scrubbed text is not (fulltext_search.sql).         *)
IndexFollowsRow == \A i \in Items : vector[i] \cap Own = item[i]

(* The rows are read after the index was, and may have changed meanwhile.   *)
(* A search for a word of title or metadata hands out no row that has lost  *)
(* that word, but for a row that was scrubbed in between, and that has then *)
(* lost its title as well (SearchService.search, the retention cron).       *)
AnswersMatch ==
  [][\A s \in Searches : search[s].pc = "hydrate" /\ search'[s].pc = "idle" =>
       \A i \in search[s].ids :
         search[s].q \in Own =>
           <<i, search[s].q>> \in search'[s].shown \/ <<i, "title">> \notin search'[s].shown]_vars

(* What reindex's comment promises: text whose approval has been answered   *)
(* is searchable.                                                           *)
ApprovedIsFound == \A p \in answered : p \in vector[prediction[p].item]
=============================================================================
