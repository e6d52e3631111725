-------------------------- MODULE SearchIndexProofs --------------------------
(***************************************************************************)
(* What the search index keeps for any number of items, predictions,       *)
(* reviewers and searches: types, an index that follows the rows, and      *)
(* answers that match what was asked, though the rows are read later.      *)
(***************************************************************************)
EXTENDS SearchIndex, TLAPS

LEMMA TypeInit == Init => TypeOK
  BY NamesAssumption DEF Init, TypeOK, Prediction, Search, Review, Reviewed

(* What the trigger lets a statement do to the words and the index. *)
LEMMA Stored ==
  ASSUME TypeOK, NEW i \in Items, NEW words \in SUBSET Own, NEW set, Store(i, words, set)
  PROVE  /\ item' \in [Items -> SUBSET Own]
         /\ vector' \in [Items -> SUBSET Words]
         /\ IndexFollowsRow => IndexFollowsRow'
  BY NamesAssumption DEF TypeOK, Store, Trigger, Words, IndexFollowsRow

(* The steps by what they write: an item's row, predictions and reviews, or *)
(* the searches.                                                            *)
LEMMA Steps ==
  ASSUME TypeOK, [Next]_vars
  PROVE  \/ /\ UNCHANGED <<prediction, review, search, answered>>
            /\ made \subseteq made' /\ made' \subseteq Items
            /\ \E i \in Items, words \in SUBSET Own : \E set : Store(i, words, set)
         \/ /\ UNCHANGED <<made, item, vector, search>>
            /\ \/ \E i \in Items, p \in Predictions, type \in {"TEXT", "CHARACTER"} :
                    Predict(p, i, type)
               \/ \E r \in Reviews, p \in Predictions, status \in {"APPROVED", "REJECTED"} :
                    ResolveFind(r, p, status)
               \/ \E r \in Reviews : ResolveUpdate(r) \/ ResolveFails(r)
         \/ /\ UNCHANGED <<made, search>>
            /\ \E r \in Reviews : Reindex(r)
         \/ /\ UNCHANGED <<made, item, vector, prediction, review, answered>>
            /\ \/ UNCHANGED search
               \/ \E s \in Searches : Hydrate(s) \/ \E q \in Words \cup {None} : FindIds(s, q)
  <1>1. ASSUME NEW i \in Items
        PROVE  /\ \A metadata \in SUBSET {"text"} : {"title"} \cup metadata \in SUBSET Own
               /\ item[i] \cup {"text"} \in SUBSET Own /\ {} \in SUBSET Own
    BY DEF TypeOK, Own
  <1>2. ASSUME NEW i \in Items, NEW metadata \in SUBSET {"text"}, Create(i, metadata)
        PROVE  /\ UNCHANGED <<prediction, review, search, answered>>
               /\ made \subseteq made' /\ made' \subseteq Items
               /\ \E words \in SUBSET Own : \E set : Store(i, words, set)
    BY <1>1, <1>2 DEF Create, TypeOK
  <1>3. ASSUME NEW i \in Items, AddText(i) \/ Scrub(i)
        PROVE  /\ UNCHANGED <<prediction, review, search, answered>>
               /\ made \subseteq made' /\ made' \subseteq Items
               /\ \E words \in SUBSET Own : \E set : Store(i, words, set)
    BY <1>1, <1>3 DEF AddText, Scrub, TypeOK
  <1>4. CASE \E i \in Items : Write(i)
    BY <1>2, <1>3, <1>4 DEF Write, Predict, rows
  <1>5. CASE \E r \in Reviews : Resolve(r)
    BY <1>5 DEF Resolve, ResolveFind, ResolveUpdate, ResolveFails, Reindex, rows
  <1>6. CASE \E s \in Searches : Hydrate(s) \/ \E q \in Words \cup {None} : FindIds(s, q)
    BY <1>6 DEF Hydrate, FindIds, rows
  <1>7. CASE UNCHANGED vars
    BY <1>7 DEF vars
  <1> QED BY <1>4, <1>5, <1>6, <1>7 DEF Next

LEMMA ReindexStores ==
  ASSUME TypeOK, NEW r \in Reviews, Reindex(r)
  PROVE  \E i \in Items, words \in SUBSET Own : \E set : Store(i, words, set)
  <1>1. prediction[review[r].prediction].item \in Items
    BY DEF TypeOK, Reindex
  <1>2. item[prediction[review[r].prediction].item] \in SUBSET Own
    BY <1>1 DEF TypeOK
  <1> QED BY <1>1, <1>2 DEF Reindex

(* The rows of predictions and the reviews in flight, apart from the rest. *)
Reviewing ==
  /\ prediction \in [Predictions -> Prediction]
  /\ \A p \in Predictions : prediction[p].item \in made \cup {None}
  /\ review \in [Reviews -> Review]
  /\ \A r \in Reviews : review[r].pc # "idle" =>
       /\ review[r].prediction \in Predictions
       /\ prediction[review[r].prediction].item # None
       /\ review[r].pc = "reindex" =>
            review[r].status = "APPROVED" /\ prediction[review[r].prediction].type = "TEXT"

LEMMA ReviewingStep ==
  ASSUME TypeOK, [Next]_vars
  PROVE  Reviewing'
  <1> USE NamesAssumption DEF TypeOK, Reviewing
  <1>1. ASSUME NEW i \in Items, NEW p \in Predictions, NEW type \in {"TEXT", "CHARACTER"},
               Predict(p, i, type)
        PROVE  Reviewing'
    <2> DEFINE row == [prediction[p] EXCEPT !.item = i, !.type = type]
    <2>1. /\ prediction' = [prediction EXCEPT ![p] = row]
          /\ UNCHANGED <<review, made>> /\ prediction[p].item = None /\ i \in made
      BY <1>1 DEF Predict, rows
    <2>2. row \in Prediction /\ row.item = i
      <3>1. prediction[p] \in Prediction /\ i \in Items
        OBVIOUS
      <3> QED BY <3>1 DEF Prediction
    <2>3. \A r \in Reviews : review[r].pc # "idle" => review[r].prediction # p
      BY <2>1
    <2> HIDE DEF row
    <2> QED BY <2>1, <2>2, <2>3
  <1>2. ASSUME NEW r \in Reviews, NEW p \in Predictions, NEW status \in {"APPROVED", "REJECTED"},
               ResolveFind(r, p, status)
        PROVE  Reviewing'
    <2> DEFINE new == [pc |-> "update", prediction |-> p, status |-> status]
    <2>1. new \in Review /\ new.pc = "update" /\ new.prediction = p
      BY DEF Review
    <2>2. /\ review' = [review EXCEPT ![r] = new]
          /\ UNCHANGED <<prediction, made>> /\ prediction[p].item # None
      BY <1>2 DEF ResolveFind, rows
    <2> HIDE DEF new
    <2> QED BY <2>1, <2>2
  <1>3. ASSUME NEW r \in Reviews, ResolveUpdate(r)
        PROVE  Reviewing'
    <2> DEFINE p == review[r].prediction
               row == [prediction[p] EXCEPT !.status = review[r].status]
               left == IF NeedsReindex(r) THEN [review[r] EXCEPT !.pc = "reindex"] ELSE Reviewed
    <2>1. p \in Predictions /\ review[r] \in Review /\ prediction[p] \in Prediction
      BY <1>3 DEF ResolveUpdate
    <2>2. /\ row \in Prediction
          /\ row.item = prediction[p].item /\ row.type = prediction[p].type
      BY <2>1 DEF Prediction, Review
    <2>3. /\ left \in Review
          /\ left.pc # "idle" => /\ left.prediction = p /\ left.status = "APPROVED"
                                 /\ prediction[p].type = "TEXT"
      BY <2>1 DEF Review, Reviewed, NeedsReindex
    <2>4. /\ prediction' = [prediction EXCEPT ![p] = row]
          /\ review' = [review EXCEPT ![r] = left]
          /\ made' = made /\ prediction[p].item # None
      BY <1>3 DEF ResolveUpdate, rows
    <2> HIDE DEF p, row, left
    <2> QED BY <2>1, <2>2, <2>3, <2>4
  <1>4. ASSUME NEW r \in Reviews, Reindex(r) \/ ResolveFails(r)
        PROVE  Reviewing'
    BY <1>4 DEF Reindex, ResolveFails, Review, Reviewed, rows
  <1>5. ASSUME UNCHANGED <<prediction, review>>, made \subseteq made'
        PROVE  Reviewing'
    BY <1>5
  <1> HIDE DEF TypeOK, Reviewing
  <1> QED BY <1>1, <1>2, <1>3, <1>4, <1>5, Steps

LEMMA TypeStep == TypeOK /\ [Next]_vars => TypeOK'
  <1> SUFFICES ASSUME TypeOK, [Next]_vars PROVE TypeOK'
    OBVIOUS
  <1>1. Reviewing'
    BY ReviewingStep
  <1>2. made' \subseteq Items /\ made \subseteq made'
    BY Steps DEF TypeOK
  <1>3. item' \in [Items -> SUBSET Own] /\ vector' \in [Items -> SUBSET Words]
    <2>1. CASE \E i \in Items, words \in SUBSET Own : \E set : Store(i, words, set)
      BY <2>1, Stored
    <2>2. CASE UNCHANGED <<item, vector>>
      BY <2>2 DEF TypeOK
    <2> QED BY <2>1, <2>2, Steps, ReindexStores
  <1>4. search' \in [Searches -> Search] /\ \A s \in Searches : search'[s].ids \subseteq made'
    <2>1. ASSUME NEW s \in Searches, NEW q \in Words \cup {None}, FindIds(s, q)
          PROVE  search' \in [Searches -> Search] /\ \A z \in Searches : search'[z].ids \subseteq made'
      BY <2>1 DEF TypeOK, FindIds, Matches, Search, rows
    <2>2. ASSUME NEW s \in Searches, Hydrate(s)
          PROVE  search' \in [Searches -> Search] /\ \A z \in Searches : search'[z].ids \subseteq made'
      BY <2>2 DEF TypeOK, Hydrate, Hydrated, Search, Words, rows
    <2>3. CASE UNCHANGED search
      BY <2>3, <1>2 DEF TypeOK
    <2> QED BY <2>1, <2>2, <2>3, Steps
  <1>5. answered' \subseteq Predictions
    <2>1. ASSUME NEW r \in Reviews, Reindex(r)
          PROVE  answered' \subseteq Predictions
      BY <2>1 DEF Reindex, TypeOK
    <2>2. ASSUME NEW r \in Reviews, ResolveUpdate(r)
          PROVE  answered' \subseteq Predictions
      BY <2>2 DEF ResolveUpdate, TypeOK
    <2>3. CASE UNCHANGED answered
      BY <2>3 DEF TypeOK
    <2> QED BY <2>1, <2>2, <2>3, Steps DEF Predict, ResolveFind, ResolveFails
  <1> QED BY <1>1, <1>2, <1>3, <1>4, <1>5 DEF TypeOK, Reviewing

(* Every variable keeps its type, and a review about to reindex is of an    *)
(* approved text (resolve).                                                 *)
THEOREM TypeCorrect == Spec => []TypeOK
  BY TypeInit, TypeStep, PTL DEF Spec

-----------------------------------------------------------------------------
LEMMA IndexStep == TypeOK /\ IndexFollowsRow /\ [Next]_vars => IndexFollowsRow'
  <1> SUFFICES ASSUME TypeOK, IndexFollowsRow, [Next]_vars PROVE IndexFollowsRow'
    OBVIOUS
  <1>1. CASE \E i \in Items, words \in SUBSET Own : \E set : Store(i, words, set)
    BY <1>1, Stored
  <1>2. CASE UNCHANGED <<item, vector>>
    BY <1>2 DEF IndexFollowsRow
  <1> QED BY <1>1, <1>2, Steps, ReindexStores

(* However many reviewers reindex while items are written, the index holds  *)
(* the words of title and metadata and none that was erased (the trigger).  *)
THEOREM IndexFollows == Spec => []IndexFollowsRow
  <1>1. Init => IndexFollowsRow
    BY DEF Init, IndexFollowsRow
  <1> QED BY <1>1, IndexStep, TypeCorrect, PTL DEF Spec

-----------------------------------------------------------------------------
(* An item keeps its words, or loses its title with the others.             *)
LEMMA WordsKept ==
  ASSUME TypeOK, [Next]_vars, NEW i \in made
  PROVE  /\ item[i] \subseteq item'[i] \/ "title" \notin item'[i]
         /\ "title" \in item'[i] => "title" \in item[i]
  <1>1. i \in Items /\ item \in [Items -> SUBSET Own]
    BY DEF TypeOK
  <1>2. CASE UNCHANGED item
    BY <1>2
  <1>3. ASSUME NEW x \in Items, NEW metadata \in SUBSET {"text"}, Create(x, metadata)
        PROVE  item'[i] = item[i]
    BY <1>1, <1>3 DEF Create, Store
  <1>4. ASSUME NEW x \in Items, AddText(x)
        PROVE  item'[i] = item[i] \/ item'[i] = item[i] \cup {"text"}
    BY <1>1, <1>4 DEF AddText, Store
  <1>5. ASSUME NEW x \in Items, Scrub(x)
        PROVE  item'[i] = item[i] \/ item'[i] = {}
    BY <1>1, <1>5 DEF Scrub, Store
  <1>6. ASSUME NEW r \in Reviews, Reindex(r)
        PROVE  item'[i] = item[i]
    BY <1>1, <1>6 DEF Reindex, Store
  <1>7. item'[i] \in {item[i], item[i] \cup {"text"}, {}}
    <2>1. CASE \E x \in Items : Write(x)
      BY <1>3, <1>4, <1>5, <2>1 DEF Write, Predict, rows
    <2>2. CASE \E r \in Reviews : Resolve(r)
      BY <1>6, <2>2 DEF Resolve, ResolveFind, ResolveUpdate, ResolveFails, rows
    <2>3. CASE \E s \in Searches : Hydrate(s) \/ \E q \in Words \cup {None} : FindIds(s, q)
      BY <2>3 DEF Hydrate, FindIds, rows
    <2> QED BY <1>2, <2>1, <2>2, <2>3 DEF Next, vars
  <1> QED BY <1>7

(* So it is with the word that a search has asked for, until it has read the*)
(* rows.                                                                    *)
FoundInv ==
  \A s \in Searches : search[s].pc = "hydrate" /\ search[s].q \in Own =>
    \A i \in search[s].ids : search[s].q \in item[i] \/ "title" \notin item[i]

LEMMA FoundStep == TypeOK /\ IndexFollowsRow /\ FoundInv /\ [Next]_vars => FoundInv'
  <1> SUFFICES ASSUME TypeOK, IndexFollowsRow, FoundInv, [Next]_vars,
                      NEW s \in Searches, search'[s].pc = "hydrate", search'[s].q \in Own,
                      NEW i \in search'[s].ids
               PROVE  search'[s].q \in item'[i] \/ "title" \notin item'[i]
    BY DEF FoundInv
  <1>1. search \in [Searches -> Search]
    BY DEF TypeOK
  <1>2. CASE search'[s] = search[s]
    <2>1. i \in made
      BY <1>2 DEF TypeOK
    <2>2. search[s].q \in item[i] \/ "title" \notin item[i]
      BY <1>2 DEF FoundInv
    <2>3. "title" \in item'[i] => "title" \in item[i]
      BY <2>1, WordsKept
    <2> QED BY <1>2, <2>1, <2>2, <2>3, WordsKept
  <1>3. ASSUME NEW q \in Words \cup {None}, FindIds(s, q)
        PROVE  search'[s].q \in item'[i]
    <2>1. search'[s].q = q /\ i \in Matches(q) /\ item' = item
      BY <1>1, <1>3 DEF FindIds, rows
    <2>2. q \in Own /\ q # None /\ i \in Items
      BY <2>1, NamesAssumption DEF Matches, TypeOK, Words
    <2> QED BY <2>1, <2>2 DEF Matches, IndexFollowsRow
  <1>4. ASSUME NEW z \in Searches, Hydrate(z)
        PROVE  search'[s] = search[s]
    BY <1>1, <1>4 DEF Hydrate
  <1>5. ASSUME NEW z \in Searches, NEW q \in Words \cup {None}, FindIds(z, q), z # s
        PROVE  search'[s] = search[s]
    BY <1>1, <1>5 DEF FindIds
  <1> QED BY <1>2, <1>3, <1>4, <1>5, Steps

(* A search for a word of title or metadata hands out only rows that hold   *)
(* it, or have lost their title too, however many reviewers, writers and    *)
(* scrubs come between its two queries (search).                            *)
THEOREM AnswersMatching == Spec => AnswersMatch
  <1>1. Init => FoundInv
    <2>1. Init => \A s \in Searches : search[s].ids = {}
      BY DEF Init
    <2> QED BY <2>1 DEF FoundInv
  <1>2. ASSUME TypeOK, FoundInv, [Next]_vars,
               NEW s \in Searches, search[s].pc = "hydrate", search'[s].pc = "idle",
               NEW i \in search[s].ids, search[s].q \in Own
        PROVE  <<i, search[s].q>> \in search'[s].shown \/ <<i, "title">> \notin search'[s].shown
    <2>1. search \in [Searches -> Search]
      BY <1>2 DEF TypeOK
    <2>2. Hydrate(s)
      <3>1. ASSUME NEW z \in Searches, NEW q \in Words \cup {None}, FindIds(z, q)
            PROVE  FALSE
        BY <1>2, <2>1, <3>1 DEF FindIds
      <3>2. ASSUME NEW z \in Searches, Hydrate(z), z # s
            PROVE  FALSE
        BY <1>2, <2>1, <3>2 DEF Hydrate
      <3> QED BY <1>2, <3>1, <3>2, Steps
    <2>3. search'[s].shown = Hydrated(s)
      BY <2>1, <2>2 DEF Hydrate
    <2>4. search[s].q \in item[i] \/ "title" \notin item[i]
      BY <1>2 DEF FoundInv
    <2> QED BY <1>2, <2>3, <2>4 DEF Hydrated
  <1>3. TypeOK /\ FoundInv /\ [Next]_vars =>
          [\A s \in Searches : search[s].pc = "hydrate" /\ search'[s].pc = "idle" =>
             \A i \in search[s].ids :
               search[s].q \in Own =>
                 <<i, search[s].q>> \in search'[s].shown \/ <<i, "title">> \notin search'[s].shown]_vars
    BY <1>2
  <1> QED BY <1>1, <1>3, FoundStep, IndexFollows, TypeCorrect, PTL DEF Spec, AnswersMatch
=============================================================================
