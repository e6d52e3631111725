--------------------------- MODULE AccessRequests ---------------------------
(***************************************************************************)
(* Which items a researcher of the portal may view: items that staff have  *)
(* published, and access requests with their approval                      *)
(* (ResearcherPortalService.requestAccess and assertViewable,              *)
(* AccessRequestsAdminService.approve and reject).                         *)
(*                                                                         *)
(* An expiryDate is what may pass between two steps.  approve and reject   *)
(* read the request and then update it; nothing they read can change in    *)
(* between, so each is one action.                                         *)
(***************************************************************************)
CONSTANTS
  Researchers,   \* researcher_accounts
  Items          \* content_items

VARIABLES
  open,      \* items that are PUBLIC and PUBLISHED
  gone,      \* items with deletedAt set
  access,    \* access_requests: APPROVED that has passed its expiryDate is LAPSED
  admitted   \* history: who was ever given leave to view what

vars == <<open, gone, access, admitted>>

Init ==
  /\ open = {} /\ gone = {}
  /\ access = [r \in Researchers |-> [i \in Items |-> "none"]]
  /\ admitted = {}

(* Staff publish an item, or take it back, or it is deleted. *)
Publish(i) ==
  /\ open' = open \cup {i}
  /\ admitted' = admitted \cup (Researchers \X {i})
  /\ UNCHANGED <<gone, access>>

Withdraw(i) ==
  /\ open' = open \ {i}
  /\ UNCHANGED <<gone, access, admitted>>

Remove(i) ==
  /\ gone' = gone \cup {i}
  /\ UNCHANGED <<open, access, admitted>>

(* requestAccess: once there is a row, asking again returns it. *)
RequestAccess(r, i) ==
  /\ access[r][i] = "none"
  /\ access' = [access EXCEPT ![r][i] = "PENDING"]
  /\ UNCHANGED <<open, gone, admitted>>

(* approve and reject take a request in any state. *)
Approve(r, i) ==
  /\ access[r][i] # "none"
  /\ access' = [access EXCEPT ![r][i] = "APPROVED"]
  /\ admitted' = admitted \cup {<<r, i>>}
  /\ UNCHANGED <<open, gone>>

Reject(r, i) ==
  /\ access[r][i] # "none"
  /\ access' = [access EXCEPT ![r][i] = "REJECTED"]
  /\ UNCHANGED <<open, gone, admitted>>

(* The expiryDate of an approval passes. *)
Lapse(r, i) ==
  /\ access[r][i] = "APPROVED"
  /\ access' = [access EXCEPT ![r][i] = "LAPSED"]
  /\ UNCHANGED <<open, gone, admitted>>

(* Plausible slip: any access request is taken for an approval. *)
Viewable_AnyRequest(r, i) == i \notin gone /\ (i \in open \/ access[r][i] # "none")

(* assertViewable. *)
Viewable(r, i) == i \notin gone /\ (i \in open \/ access[r][i] = "APPROVED")

Next ==
  \/ \E i \in Items : Publish(i) \/ Withdraw(i) \/ Remove(i)
  \/ \E r \in Researchers, i \in Items :
       RequestAccess(r, i) \/ Approve(r, i) \/ Reject(r, i) \/ Lapse(r, i)

TypeOK ==
  /\ open \subseteq Items /\ gone \subseteq Items
  /\ access \in [Researchers -> [Items ->
       {"none", "PENDING", "APPROVED", "REJECTED", "LAPSED"}]]
  /\ admitted \subseteq Researchers \X Items
=============================================================================
