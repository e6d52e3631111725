---------------------------- MODULE SharingProofs ----------------------------
(***************************************************************************)
(* What holds of sharing for any number of tenants, items, rows, requests  *)
(* and roles: scoped queries stay in their tenant, items are handed out by *)
(* right only, a revocation ends the sharing, and only the owner shares.   *)
(*                                                                         *)
(* The inductive invariant says what a request may rely on between two of  *)
(* its queries (RequestOK), that a job carries the tenant of its item, and *)
(* that the unique index holds.                                            *)
(***************************************************************************)
EXTENDS Sharing, TLAPS

(* What the policy rests on. *)

(* A RESTRICTED item is for the owners of its own tenant, whatever is       *)
(* shared and whatever the action (rules 1 and 2 of PolicyService.can).     *)
THEOREM RestrictedStaysHome ==
  ASSUME NEW action, NEW subject, NEW it, NEW perm,
         it.level = "RESTRICTED", Can(action, subject, it, perm)
  PROVE  it.tenant = subject.tenant /\ subject.role \in {"OWNER", "SUPER_ADMIN"}
  BY DEF Can, DeniesRestricted

(* Through a share nobody may do more than somebody of the same role in the *)
(* tenant that owns the item (PolicyService.can).                           *)
THEOREM SharingAddsNothing ==
  ASSUME NEW action, NEW role, NEW t, NEW it, NEW perm,
         Can(action, [tenant |-> t, role |-> role], it, perm)
  PROVE  Can(action, [tenant |-> it.tenant, role |-> role], it, NoShare)
  BY DEF Can, DeniesBoundary, DeniesRestricted, DeniesConfidential

(* Whoever may do something with a more confidential item may do it with a  *)
(* less confidential one (rules 2 and 3 of PolicyService.can).              *)
THEOREM SecrecyOnlyTakes ==
  ASSUME NEW action, NEW subject, NEW t, NEW perm,
         NEW high \in Levels, NEW low \in Levels,
         \/ high = "RESTRICTED"
         \/ high = "CONFIDENTIAL" /\ low # "RESTRICTED"
         \/ low \in {"PUBLIC", "INTERNAL"},
         Can(action, subject, [tenant |-> t, level |-> high], perm)
  PROVE  Can(action, subject, [tenant |-> t, level |-> low], perm)
  BY DEF Can, DeniesBoundary, DeniesRestricted, DeniesConfidential, Levels

LEMMA ViewRightful ==
  ASSUME NEW subject, NEW it, NEW perm, Can("view", subject, it, perm)
  PROVE  /\ it.level = "RESTRICTED" =>
              it.tenant = subject.tenant /\ subject.role \in {"OWNER", "SUPER_ADMIN"}
         /\ it.level = "CONFIDENTIAL" => subject.role # "RESEARCHER"
  BY DEF Can, DeniesRestricted, DeniesConfidential

-----------------------------------------------------------------------------
SharedOnce(i, t) == \E s \in Shares : share[s].item = i /\ share[s].tenant = t

(* What a request may rely on, though others have run since its last query. *)
RequestOK(q) ==
  /\ q \in Request
  /\ q.pc \in {"look", "update", "create"} =>
       /\ q.item \in Items /\ q.target \in Tenants /\ q.perm \in Permissions
       /\ item[q.item].tenant = q.tenant /\ q.tenant \in Tenants
  /\ q.pc = "update" =>
       /\ q.share \in Shares
       /\ share[q.share].item = q.item /\ share[q.share].tenant = q.target
  /\ q.pc = "delete" =>
       /\ q.share \in Shares /\ share[q.share].item \in Items
       /\ item[share[q.share].item].tenant = q.tenant /\ q.tenant \in Tenants
  /\ q.pc \in {"get", "answered"} => q.item \in Items /\ Made(q.item)
  /\ q.pc = "get" => SharedOnce(q.item, q.tenant)
  /\ q.pc = "answered" =>
       /\ item[q.item].tenant = q.tenant \/ SharedOnce(q.item, q.tenant)
       /\ item[q.item].level = "RESTRICTED" =>
            item[q.item].tenant = q.tenant /\ q.role \in {"OWNER", "SUPER_ADMIN"}
       /\ item[q.item].level = "CONFIDENTIAL" => q.role # "RESEARCHER"

RowsOK ==
  /\ item \in [Items -> [tenant : Tenants \cup {None}, level : Levels]]
  /\ job \subseteq [item : Items, tenant : Tenants]
  /\ share \in [Shares -> [item : Items \cup {None}, tenant : Tenants \cup {None},
                           perm : Permissions]]
  /\ live \subseteq {s \in Shares : share[s].item \in Items /\ share[s].tenant \in Tenants}
  /\ \A j \in job : item[j.item].tenant = j.tenant
  /\ \A s \in Shares : share[s].item # None => Made(share[s].item)

Unique ==
  \A s, z \in live : share[s].item = share[z].item /\ share[s].tenant = share[z].tenant => s = z

Inv ==
  /\ RowsOK
  /\ Unique
  /\ req \in [Requests -> Request]
  /\ \A r \in Requests : RequestOK(req[r])
  /\ reached \subseteq Tenants \X Tenants
  /\ Confined

LEMMA InvImplies == Inv => TypeOK /\ Confined /\ SeenRightful
  BY DEF Inv, RowsOK, RequestOK, SharedOnce, TypeOK, SeenRightful

LEMMA IdleOK == RequestOK(Idle) /\ RequestOK(Idle)' /\ Idle \in Request
  BY DEF RequestOK, Idle, Request

LEMMA InvInit == Init => Inv
  <1> SUFFICES ASSUME Init PROVE Inv
    OBVIOUS
  <1>1. RowsOK /\ Unique
    BY SharingAssumption DEF Init, RowsOK, Unique, Levels, Permissions
  <1>2. req \in [Requests -> Request] /\ \A r \in Requests : RequestOK(req[r])
    BY IdleOK DEF Init
  <1>3. reached = {}
    BY DEF Init
  <1> QED BY <1>1, <1>2, <1>3 DEF Inv, Confined

-----------------------------------------------------------------------------
(* Items keep owner and level once they are made, rows of share keep item   *)
(* and tenant: then a request may go on relying on what it relied on.       *)
LEMMA Kept ==
  ASSUME RowsOK,
         \A i \in Items : Made(i) => item'[i] = item[i],
         \A s \in Shares : share[s].item # None =>
           share'[s].item = share[s].item /\ share'[s].tenant = share[s].tenant,
         NEW q, RequestOK(q)
  PROVE  RequestOK(q)'
  <1> USE SharingAssumption DEF RowsOK
  <1>1. /\ q \in Request
        /\ q.pc = "update" => q.share \in Shares /\ share'[q.share].item = q.item
                                /\ share'[q.share].tenant = q.target
        /\ q.pc = "delete" => q.share \in Shares /\ share'[q.share].item = share[q.share].item
    BY DEF RequestOK
  <1>2. \A i \in Items, t \in Tenants \cup {None} : SharedOnce(i, t) => SharedOnce(i, t)'
    BY DEF SharedOnce
  <1>3. q.tenant \in Tenants \cup {None}
    BY <1>1 DEF Request
  <1>4. \A i \in Items : item[i].tenant \in Tenants => item'[i] = item[i]
    BY DEF Made
  <1> QED BY <1>1, <1>2, <1>3, <1>4 DEF RequestOK, Made

(* A step that moves one request and writes no row. *)
LEMMA Moved ==
  ASSUME Inv, UNCHANGED <<item, job, share, live>>,
         NEW r \in Requests, NEW q, RequestOK(q), req' = [req EXCEPT ![r] = q],
         reached' \subseteq Tenants \X Tenants, Confined'
  PROVE  Inv'
  <1>1. RowsOK' /\ Unique'
    BY DEF Inv, RowsOK, Unique, Made
  <1>2. RequestOK(q)' /\ q \in Request
    BY Kept DEF Inv, RequestOK
  <1>3. \A z \in Requests : RequestOK(req[z])'
    <2> SUFFICES ASSUME NEW z \in Requests PROVE RequestOK(req[z])'
      OBVIOUS
    <2>1. req'[z] = IF z = r THEN q ELSE req[z]
      BY DEF Inv
    <2> QED BY <1>2, <2>1 DEF Inv, RequestOK, SharedOnce, Made
  <1> QED BY <1>1, <1>2, <1>3 DEF Inv

(* What a scoped query finds is its tenant's. *)
LEMMA FoundOwn ==
  ASSUME Inv, NEW t \in Tenants, NEW i \in Items, NEW op \in ReadOps \cup MutatingWithWhere
  PROVE  \A j \in Scoped(op, t, i) : j = i /\ item[j].tenant = t
  BY DEF Scoped, Reaches, ScopedModels

LEMMA Logged ==
  ASSUME Inv, NEW t \in Tenants, NEW found, \A i \in found : item[i].tenant = t, Log(t, found)
  PROVE  reached' \subseteq Tenants \X Tenants /\ Confined'
  BY DEF Inv, Log, Confined

-----------------------------------------------------------------------------
(* The requests' first steps. *)
LEMMA FindOneStep ==
  ASSUME Inv, NEW r \in Requests, NEW t \in Tenants, NEW role \in Staff, NEW i \in Items,
         FindOne(r, t, role, i)
  PROVE  Inv'
  <1> DEFINE q == [Idle EXCEPT !.pc = "answered", !.tenant = t, !.role = role, !.item = i]
  <1>1. /\ req' = [req EXCEPT ![r] = q] /\ UNCHANGED <<item, job, share, live>>
        /\ Log(t, Scoped("findFirst", t, i)) /\ Scoped("findFirst", t, i) # {}
        /\ CanView(t, role, i)
    BY DEF FindOne, rows
  <1>2. \A j \in Scoped("findFirst", t, i) : j = i /\ item[j].tenant = t
    BY FoundOwn DEF ReadOps
  <1>3. item[i].tenant = t
    BY <1>1, <1>2
  <1>4. /\ item[i].level = "RESTRICTED" => role \in {"OWNER", "SUPER_ADMIN"}
        /\ item[i].level = "CONFIDENTIAL" => role # "RESEARCHER"
    BY <1>1, ViewRightful DEF CanView
  <1>5. /\ q \in Request /\ q.pc = "answered" /\ q.tenant = t /\ q.role = role /\ q.item = i
    BY DEF Idle, Request
  <1>6. RequestOK(q)
    <2> HIDE DEF q
    <2> QED BY <1>3, <1>4, <1>5, SharingAssumption DEF RequestOK, Made
  <1>7. reached' \subseteq Tenants \X Tenants /\ Confined'
    BY <1>1, <1>2, Logged
  <1> HIDE DEF q
  <1> QED BY <1>1, <1>6, <1>7, Moved

LEMMA ShareFindStep ==
  ASSUME Inv, NEW r \in Requests, NEW t \in Tenants, NEW role \in Staff, NEW i \in Items,
         NEW target \in Tenants, NEW perm \in Permissions,
         ShareFind(r, t, role, i, target, perm)
  PROVE  Inv'
  <1> DEFINE q == [Idle EXCEPT !.pc = "look", !.tenant = t, !.item = i,
                               !.target = target, !.perm = perm]
  <1>1. /\ req' = [req EXCEPT ![r] = q] /\ UNCHANGED <<item, job, share, live>>
        /\ Log(t, Scoped("findFirst", t, i)) /\ Scoped("findFirst", t, i) # {}
    BY DEF ShareFind, rows
  <1>2. \A j \in Scoped("findFirst", t, i) : j = i /\ item[j].tenant = t
    BY FoundOwn DEF ReadOps
  <1>3. item[i].tenant = t
    BY <1>1, <1>2
  <1>4. /\ q \in Request /\ q.pc = "look" /\ q.tenant = t /\ q.item = i
        /\ q.target = target /\ q.perm = perm
    BY DEF Idle, Request
  <1>5. RequestOK(q)
    <2> HIDE DEF q
    <2> QED BY <1>3, <1>4 DEF RequestOK
  <1>6. reached' \subseteq Tenants \X Tenants /\ Confined'
    BY <1>1, <1>2, Logged
  <1> HIDE DEF q
  <1> QED BY <1>1, <1>5, <1>6, Moved

LEMMA RevokeFindStep ==
  ASSUME Inv, NEW r \in Requests, NEW t \in Tenants, NEW role \in Staff, NEW s \in Shares,
         RevokeFind(r, t, role, s)
  PROVE  Inv'
  <1> DEFINE q == [Idle EXCEPT !.pc = "delete", !.tenant = t, !.share = s]
  <1>1. /\ req' = [req EXCEPT ![r] = q] /\ UNCHANGED <<item, job, share, live, reached>>
        /\ s \in live /\ item[share[s].item].tenant = t
    BY DEF RevokeFind, MayRevoke, rows
  <1>2. share[s].item \in Items
    BY <1>1 DEF Inv, RowsOK
  <1>3. q \in Request /\ q.pc = "delete" /\ q.tenant = t /\ q.share = s
    BY DEF Idle, Request
  <1>4. RequestOK(q)
    <2> HIDE DEF q
    <2> QED BY <1>1, <1>2, <1>3 DEF RequestOK
  <1> HIDE DEF q
  <1> QED BY <1>1, <1>4, Moved DEF Inv, Confined

LEMMA GetFindStep ==
  ASSUME Inv, NEW r \in Requests, NEW t \in Tenants, NEW role \in Staff, NEW i \in Items,
         GetFind(r, t, role, i)
  PROVE  Inv'
  <1>1. PICK s \in Shares :
          /\ Matches(s, i, t)
          /\ req' = [req EXCEPT ![r] = [Idle EXCEPT !.pc = "get", !.tenant = t, !.role = role,
                                                    !.item = i, !.perm = share[s].perm]]
    BY DEF GetFind
  <1> DEFINE q == [Idle EXCEPT !.pc = "get", !.tenant = t, !.role = role,
                               !.item = i, !.perm = share[s].perm]
  <1>2. UNCHANGED <<item, job, share, live, reached>>
    BY DEF GetFind, rows
  <1>3. share[s].item = i /\ share[s].tenant = t /\ share[s].perm \in Permissions
    BY <1>1 DEF Matches, Inv, RowsOK
  <1>4. SharedOnce(i, t) /\ Made(i)
    BY <1>3, SharingAssumption DEF SharedOnce, Inv, RowsOK
  <1>5. q \in Request /\ q.pc = "get" /\ q.tenant = t /\ q.item = i
    BY <1>3 DEF Idle, Request
  <1>6. RequestOK(q)
    <2> HIDE DEF q
    <2> QED BY <1>4, <1>5 DEF RequestOK
  <1>7. req' = [req EXCEPT ![r] = q]
    BY <1>1
  <1> HIDE DEF q
  <1> QED BY <1>2, <1>6, <1>7, Moved DEF Inv, Confined

-----------------------------------------------------------------------------
(* The steps that follow. *)
LEMMA ShareLookStep ==
  ASSUME Inv, NEW r \in Requests, ShareLook(r)
  PROVE  Inv'
  <1>1. req[r] \in Request /\ RequestOK(req[r]) /\ req[r].pc = "look"
    BY DEF Inv, ShareLook
  <1>2. UNCHANGED <<item, job, share, live, reached>>
    BY DEF ShareLook, rows
  <1>3. CASE req' = [req EXCEPT ![r].pc = "create"]
    <2> DEFINE q == [req[r] EXCEPT !.pc = "create"]
    <2>1. /\ q \in Request /\ q.pc = "create" /\ q.item = req[r].item
          /\ q.tenant = req[r].tenant /\ q.target = req[r].target /\ q.perm = req[r].perm
      BY <1>1 DEF Request
    <2>2. req' = [req EXCEPT ![r] = q]
      BY <1>3
    <2> HIDE DEF q
    <2>3. RequestOK(q)
      BY <1>1, <2>1 DEF RequestOK
    <2> QED BY <1>2, <2>2, <2>3, Moved DEF Inv, Confined
  <1>4. ASSUME NEW s \in Shares, Matches(s, req[r].item, req[r].target),
               req' = [req EXCEPT ![r].pc = "update", ![r].share = s]
        PROVE  Inv'
    <2> DEFINE q == [req[r] EXCEPT !.pc = "update", !.share = s]
    <2>1. /\ q \in Request /\ q.pc = "update" /\ q.item = req[r].item /\ q.share = s
          /\ q.tenant = req[r].tenant /\ q.target = req[r].target /\ q.perm = req[r].perm
      BY <1>1 DEF Request
    <2>2. req' = [req EXCEPT ![r] = q]
      BY <1>4
    <2>3. share[s].item = req[r].item /\ share[s].tenant = req[r].target
      BY <1>4 DEF Matches
    <2> HIDE DEF q
    <2>4. RequestOK(q)
      BY <1>1, <2>1, <2>3 DEF RequestOK
    <2> QED BY <1>2, <2>2, <2>4, Moved DEF Inv, Confined
  <1> QED BY <1>3, <1>4 DEF ShareLook

LEMMA GetItemStep ==
  ASSUME Inv, NEW r \in Requests, GetItem(r)
  PROVE  Inv'
  <1> DEFINE q == [req[r] EXCEPT !.pc = "answered", !.perm = NoShare]
  <1>1. req[r] \in Request /\ RequestOK(req[r]) /\ req[r].pc = "get"
    BY DEF Inv, GetItem
  <1>2. /\ UNCHANGED <<item, job, share, live, reached>>
        /\ req' = [req EXCEPT ![r] = q]
    BY DEF GetItem, rows
  <1>3. /\ item[req[r].item].level = "RESTRICTED" =>
             item[req[r].item].tenant = req[r].tenant /\ req[r].role \in {"OWNER", "SUPER_ADMIN"}
        /\ item[req[r].item].level = "CONFIDENTIAL" => req[r].role # "RESEARCHER"
    BY ViewRightful DEF GetItem
  <1>4. /\ q \in Request /\ q.pc = "answered" /\ q.item = req[r].item
        /\ q.tenant = req[r].tenant /\ q.role = req[r].role
    BY <1>1 DEF Request
  <1> HIDE DEF q
  <1>5. RequestOK(q)
    BY <1>1, <1>3, <1>4 DEF RequestOK
  <1> QED BY <1>2, <1>5, Moved DEF Inv, Confined

LEMMA DoneStep ==
  ASSUME Inv, NEW r \in Requests, Done(r)
  PROVE  Inv'
  BY IdleOK, Moved DEF Done, Inv, Confined, rows

-----------------------------------------------------------------------------
(* The steps that write rows. *)
LEMMA OthersKept ==
  ASSUME Inv,
         \A i \in Items : Made(i) => item'[i] = item[i],
         \A s \in Shares : share[s].item # None =>
           share'[s].item = share[s].item /\ share'[s].tenant = share[s].tenant,
         req' = req \/ \E r \in Requests : req' = [req EXCEPT ![r] = Idle]
  PROVE  req' \in [Requests -> Request] /\ \A r \in Requests : RequestOK(req[r])'
  <1>1. req' \in [Requests -> Request] /\ \A r \in Requests : req'[r] \in {req[r], Idle}
    BY IdleOK DEF Inv
  <1>2. ASSUME NEW r \in Requests
        PROVE  RequestOK(req[r])'
    <2>1. CASE req'[r] = Idle
      BY <2>1, IdleOK DEF RequestOK
    <2>2. CASE req'[r] = req[r]
      <3> DEFINE q == req[r]
      <3>1. \A x : x = req[r] => (x = req'[r])
        BY <2>2
      <3>2. ASSUME NEW x, x = req[r] PROVE RequestOK(x)'
        BY <3>2, Kept DEF Inv
      <3> QED BY <2>2, <3>2 DEF RequestOK, SharedOnce, Made
    <2> QED BY <1>1, <2>1, <2>2
  <1> QED BY <1>1, <1>2

LEMMA UploadStep ==
  ASSUME Inv, NEW t \in Tenants, NEW i \in Items, NEW level \in Markings, Upload(t, i, level)
  PROVE  Inv'
  <1>1. /\ ~Made(i)
        /\ item' = [item EXCEPT ![i] = [tenant |-> t, level |-> level]]
        /\ job' = job \cup {[item |-> i, tenant |-> t]}
        /\ UNCHANGED <<share, live, req, reached>>
    BY DEF Upload, Stamped, ScopedModels, CreateOps, rows
  <1>2. level \in Levels /\ t # None
    BY SharingAssumption
  <1>3. \A k \in Items : Made(k) => k # i /\ item'[k] = item[k]
    BY <1>1 DEF Inv, RowsOK
  <1>4. \A j \in job : Made(j.item)
    BY SharingAssumption DEF Inv, RowsOK, Made
  <1>5. item' \in [Items -> [tenant : Tenants \cup {None}, level : Levels]]
    BY <1>1, <1>2 DEF Inv, RowsOK
  <1>6. \A j \in job' : item'[j.item].tenant = j.tenant
    BY <1>1, <1>3, <1>4 DEF Inv, RowsOK
  <1>7. \A k \in Items : Made(k) => Made(k)'
    BY <1>3 DEF Made
  <1>8. RowsOK'
    BY <1>1, <1>5, <1>6, <1>7 DEF Inv, RowsOK
  <1>9. req' \in [Requests -> Request] /\ \A r \in Requests : RequestOK(req[r])'
    BY <1>1, <1>3, OthersKept
  <1> QED BY <1>1, <1>8, <1>9 DEF Inv, Unique, Confined

LEMMA ProcessStep ==
  ASSUME Inv, NEW j \in job, Process(j)
  PROVE  Inv'
  <1>1. j.tenant \in Tenants /\ j.item \in Items /\ item[j.item].tenant = j.tenant
    BY DEF Inv, RowsOK
  <1> DEFINE found == Scoped("findFirstOrThrow", j.tenant, j.item)
                        \cup Scoped("update", j.tenant, j.item)
  <1>2. \A i \in found : item[i].tenant = j.tenant
    BY <1>1 DEF Scoped
  <1>3. Log(j.tenant, found) /\ UNCHANGED <<item, job, share, live, req>>
    BY DEF Process, rows
  <1> HIDE DEF found
  <1>4. reached' \subseteq Tenants \X Tenants /\ Confined'
    BY <1>1, <1>2, <1>3, Logged
  <1>5. req' \in [Requests -> Request] /\ \A r \in Requests : RequestOK(req[r])'
    BY <1>3, OthersKept
  <1> QED BY <1>3, <1>4, <1>5 DEF Inv, RowsOK, Unique, Made

LEMMA ShareUpdateStep ==
  ASSUME Inv, NEW r \in Requests, ShareUpdate(r)
  PROVE  Inv'
  <1>1. /\ req[r].share \in live /\ req[r] \in Request /\ RequestOK(req[r])
        /\ req[r].pc = "update"
        /\ share' = [share EXCEPT ![req[r].share].perm = req[r].perm]
        /\ req' = [req EXCEPT ![r] = Idle]
        /\ UNCHANGED <<item, job, live, reached>>
    BY DEF ShareUpdate, Inv
  <1>2. /\ req[r].perm \in Permissions /\ req[r].share \in Shares
    BY <1>1 DEF RequestOK
  <1>3. /\ share' \in [Shares -> [item : Items \cup {None}, tenant : Tenants \cup {None},
                                  perm : Permissions]]
        /\ \A s \in Shares : share'[s].item = share[s].item /\ share'[s].tenant = share[s].tenant
    BY <1>1, <1>2 DEF Inv, RowsOK
  <1>4. live \subseteq Shares
    BY DEF Inv, RowsOK
  <1>5. RowsOK' /\ Unique'
    BY <1>1, <1>3, <1>4 DEF Inv, RowsOK, Unique, Made
  <1>6. req' \in [Requests -> Request] /\ \A z \in Requests : RequestOK(req[z])'
    BY <1>1, <1>3, OthersKept
  <1> QED BY <1>1, <1>5, <1>6 DEF Inv, Confined

(* The unique index lets only one row in for an item and a tenant. *)
LEMMA ShareCreateStep ==
  ASSUME Inv, NEW r \in Requests, ShareCreate(r)
  PROVE  Inv'
  <1> DEFINE i == req[r].item
             t == req[r].target
             row == [item |-> i, tenant |-> t, perm |-> req[r].perm]
  <1>1. PICK s \in Shares : /\ share[s].item = None
                            /\ share' = [share EXCEPT ![s] = row]
                            /\ live' = live \cup {s}
    BY DEF ShareCreate
  <1>2. /\ RequestOK(req[r]) /\ req[r].pc = "create"
        /\ req' = [req EXCEPT ![r] = Idle]
        /\ UNCHANGED <<item, job, reached>>
        /\ \A z \in live : ~(share[z].item = i /\ share[z].tenant = t)
    BY DEF ShareCreate, Taken, Inv
  <1>3. i \in Items /\ t \in Tenants /\ req[r].perm \in Permissions /\ Made(i)
    BY <1>2, SharingAssumption DEF RequestOK, Made
  <1>4. row \in [item : Items \cup {None}, tenant : Tenants \cup {None}, perm : Permissions]
          /\ row.item = i /\ row.tenant = t
    BY <1>3
  <1> HIDE DEF row, i, t
  <1>5. /\ share' \in [Shares -> [item : Items \cup {None}, tenant : Tenants \cup {None},
                                  perm : Permissions]]
        /\ share'[s].item = i /\ share'[s].tenant = t
        /\ \A z \in Shares : z # s => share'[z] = share[z]
    BY <1>1, <1>4 DEF Inv, RowsOK
  <1>6. s \notin live
    BY <1>1, SharingAssumption DEF Inv, RowsOK
  <1>7. live' \subseteq {z \in Shares : share'[z].item \in Items /\ share'[z].tenant \in Tenants}
    BY <1>1, <1>3, <1>5, <1>6 DEF Inv, RowsOK
  <1>8. \A z \in Shares : share'[z].item # None => Made(share'[z].item)
    BY <1>3, <1>5 DEF Inv, RowsOK
  <1>9. RowsOK'
    BY <1>2, <1>5, <1>7, <1>8 DEF Inv, RowsOK, Made
  <1>10. Unique'
    BY <1>1, <1>2, <1>5, <1>6 DEF Inv, RowsOK, Unique
  <1>11. req' \in [Requests -> Request] /\ \A z \in Requests : RequestOK(req[z])'
    BY <1>1, <1>2, <1>5, OthersKept
  <1> QED BY <1>2, <1>9, <1>10, <1>11 DEF Inv, Confined

LEMMA RevokeDeleteStep ==
  ASSUME Inv, NEW r \in Requests, RevokeDelete(r)
  PROVE  Inv'
  <1>1. /\ live' \subseteq live /\ UNCHANGED <<item, job, share, reached>>
        /\ req' = [req EXCEPT ![r] = Idle]
    BY DEF RevokeDelete
  <1>2. RowsOK' /\ Unique'
    BY <1>1 DEF Inv, RowsOK, Unique, Made
  <1>3. req' \in [Requests -> Request] /\ \A z \in Requests : RequestOK(req[z])'
    BY <1>1, OthersKept
  <1> QED BY <1>1, <1>2, <1>3 DEF Inv, Confined

LEMMA InvStep == Inv /\ [Next]_vars => Inv'
  <1> SUFFICES ASSUME Inv, [Next]_vars PROVE Inv'
    OBVIOUS
  <1>1. CASE \E t \in Tenants, i \in Items, level \in Markings : Upload(t, i, level)
    BY <1>1, UploadStep
  <1>2. CASE \E j \in job : Process(j)
    BY <1>2, ProcessStep
  <1>3. ASSUME NEW r \in Requests, Answer(r)
        PROVE  Inv'
    BY <1>3, ShareLookStep, ShareUpdateStep, ShareCreateStep, RevokeDeleteStep, GetItemStep,
       DoneStep DEF Answer
  <1>4. ASSUME NEW r \in Requests, NEW t \in Tenants, NEW role \in Staff, Call(r, t, role)
        PROVE  Inv'
    BY <1>4, FindOneStep, ShareFindStep, RevokeFindStep, GetFindStep DEF Call
  <1>5. CASE UNCHANGED vars
    <2>1. UNCHANGED <<item, job, share, live, req, reached>>
      BY <1>5 DEF vars
    <2>2. req' \in [Requests -> Request] /\ \A r \in Requests : RequestOK(req[r])'
      BY <2>1, OthersKept
    <2> QED BY <2>1, <2>2 DEF Inv, RowsOK, Unique, Confined, Made
  <1> QED BY <1>1, <1>2, <1>3, <1>4, <1>5 DEF Next

LEMMA Invariant == Spec => []Inv
  BY InvInit, InvStep, PTL DEF Spec

LEMMA Writers ==
  ASSUME [Next]_vars
  PROVE  \/ UNCHANGED <<share, live>>
         \/ \E r \in Requests : ShareUpdate(r) \/ ShareCreate(r) \/ RevokeDelete(r)
  <1>1. ASSUME NEW r \in Requests, Answer(r)
        PROVE  UNCHANGED <<share, live>> \/ ShareUpdate(r) \/ ShareCreate(r) \/ RevokeDelete(r)
    BY <1>1 DEF Answer, ShareLook, GetItem, Done, rows
  <1>2. ASSUME NEW r \in Requests, NEW t \in Tenants, NEW role \in Staff, Call(r, t, role)
        PROVE  UNCHANGED <<share, live>>
    BY <1>2 DEF Call, FindOne, GetFind, ShareFind, RevokeFind, rows
  <1>3. ASSUME NEW t \in Tenants, NEW i \in Items, NEW level \in Markings, Upload(t, i, level)
        PROVE  UNCHANGED <<share, live>>
    BY <1>3 DEF Upload, rows
  <1>4. ASSUME NEW j \in job, Process(j)
        PROVE  UNCHANGED <<share, live>>
    BY <1>4 DEF Process, rows
  <1>5. CASE UNCHANGED vars
    BY <1>5 DEF vars
  <1> QED BY <1>1, <1>2, <1>3, <1>4, <1>5 DEF Next

-----------------------------------------------------------------------------
(* Every variable keeps its type, and a share about to be updated is of the *)
(* item and the tenant it was looked up for (share).                        *)
THEOREM TypeCorrect == Spec => []TypeOK
  BY Invariant, InvImplies, PTL

(* No query in one tenant's context touches another tenant's item, though   *)
(* the worker's findFirstOrThrow is not filtered (buildExtendedClient).     *)
THEOREM QueriesConfined == Spec => []Confined
  BY Invariant, InvImplies, PTL

(* What is handed out is handed out by right, in a tenant or through a      *)
(* share, whatever happens between the queries (findOne, getSharedItem).    *)
THEOREM AllSeenRightful == Spec => []SeenRightful
  BY Invariant, InvImplies, PTL

(* A revoked share leaves no other row for its item and tenant (revoke).    *)
THEOREM RevocationEnds == Spec => RevokeEndsSharing
  <1>1. ASSUME Inv, [Next]_vars, NEW s \in live \ live', NEW z \in live',
               share'[z].item = share[s].item
        PROVE  share'[z].tenant # share[s].tenant
    <2>1. PICK r \in Requests : RevokeDelete(r)
      BY <1>1, Writers DEF ShareUpdate, ShareCreate
    <2>2. live' = live \ {req[r].share} /\ share' = share
      BY <2>1 DEF RevokeDelete
    <2> QED BY <1>1, <2>2 DEF Inv, Unique
  <1>2. Inv /\ [Next]_vars =>
          [\A s \in live \ live' : \A z \in live' :
             share'[z].item = share[s].item => share'[z].tenant # share[s].tenant]_vars
    BY <1>1
  <1> QED BY <1>2, Invariant, PTL DEF Spec, RevokeEndsSharing

(* Rows of shared_resources come, change and go only by requests of the     *)
(* tenant that owns the item (share, revoke).                               *)
THEOREM OwnerAlwaysDecides == Spec => OwnerDecides
  <1> DEFINE Decided(s) == \E r \in Requests : /\ req'[r] # req[r]
                                               /\ req[r].tenant = item[share'[s].item].tenant
  <1>1. ASSUME Inv, [Next]_vars, NEW s \in Shares,
               share'[s] # share[s] \/ ((s \in live) # (s \in live'))
        PROVE  Decided(s)
    <2>1. PICK r \in Requests : ShareUpdate(r) \/ ShareCreate(r) \/ RevokeDelete(r)
      BY <1>1, Writers
    <2>2. /\ req[r] \in Request /\ RequestOK(req[r]) /\ req'[r] = Idle
          /\ req[r].pc \in {"update", "create", "delete"}
      BY <1>1, <2>1 DEF Inv, ShareUpdate, ShareCreate, RevokeDelete
    <2>3. req'[r] # req[r]
      BY <2>2 DEF Idle
    <2>4. CASE ShareUpdate(r)
      <3>1. req[r].pc = "update" /\ s = req[r].share /\ share'[s].item = share[s].item
        BY <1>1, <2>4 DEF ShareUpdate, Inv, RowsOK
      <3> QED BY <2>2, <2>3, <3>1 DEF RequestOK
    <2>5. CASE ShareCreate(r)
      <3>1. req[r].pc = "create" /\ share'[s].item = req[r].item
        BY <1>1, <2>5 DEF ShareCreate, Inv, RowsOK
      <3> QED BY <2>2, <2>3, <3>1 DEF RequestOK
    <2>6. CASE RevokeDelete(r)
      <3>1. req[r].pc = "delete" /\ s = req[r].share /\ share'[s].item = share[s].item
        BY <1>1, <2>6 DEF RevokeDelete
      <3> QED BY <2>2, <2>3, <3>1 DEF RequestOK
    <2> QED BY <2>1, <2>4, <2>5, <2>6
  <1>2. Inv /\ [Next]_vars =>
          [\A s \in Shares : share'[s] # share[s] \/ ((s \in live) # (s \in live')) =>
             \E r \in Requests : /\ req'[r] # req[r]
                                 /\ req[r].tenant = item[share'[s].item].tenant]_vars
    BY <1>1
  <1> QED BY <1>2, Invariant, PTL DEF Spec, OwnerDecides
=============================================================================
