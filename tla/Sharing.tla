------------------------------- MODULE Sharing -------------------------------
(***************************************************************************)
(* Items of several tenants: ContentItemsService.findOne and the document  *)
(* worker reach them through the scoped client, SharedResourcesService     *)
(* across the boundary between tenants.  A handler takes one action per    *)
(* query, so handlers of all tenants interleave between their queries.     *)
(*                                                                         *)
(* Deletion of items is left out: findOne may find one that is deleted.    *)
(* So are listIncoming, listOutgoing and list, which are single reads.     *)
(***************************************************************************)
EXTENDS Policy, TenantScoping

CONSTANTS
  Tenants,
  Items,     \* content_items rows that are ever made
  Shares,    \* shared_resources rows that are ever made
  Requests,  \* requests in flight at once
  Staff,     \* the roles that the users have
  Markings,  \* the confidentiality levels that items are given
  None       \* no tenant, item or share

ASSUME SharingAssumption ==
  /\ None \notin Tenants \cup Items \cup Shares
  /\ Staff \subseteq Roles /\ Markings \subseteq Levels

VARIABLES
  item,    \* content_items: owner and level
  job,     \* document processing jobs: item, and tenant of the upload
  share,   \* shared_resources, as they are or were when they were deleted
  live,    \* the rows of share that exist
  req,     \* what each request is about to do
  reached  \* history: <<tenant of the context, owner of the row>> of scoped queries

vars == <<item, job, share, live, req, reached>>
rows == <<share, live>>

Request == [pc : {"idle", "look", "update", "create", "delete", "get", "answered"},
            tenant : Tenants \cup {None},
            role : Staff \cup {None},
            item : Items \cup {None},
            target : Tenants \cup {None},
            perm : Permissions \cup {NoShare},
            share : Shares \cup {None}]

Idle == [pc |-> "idle", tenant |-> None, role |-> None, item |-> None,
         target |-> None, perm |-> NoShare, share |-> None]

Init ==
  /\ item = [i \in Items |-> [tenant |-> None, level |-> "INTERNAL"]]
  /\ job = {}
  /\ share = [s \in Shares |-> [item |-> None, tenant |-> None, perm |-> "VIEW"]]
  /\ live = {}
  /\ req = [r \in Requests |-> Idle]
  /\ reached = {}

Made(i) == item[i].tenant # None

(* The rows a scoped operation on ContentItem by this id returns. *)
Scoped(op, t, i) == {j \in {i} : Made(j) /\ Reaches("ContentItem", op, t, item[j].tenant)}

Log(t, found) == reached' = reached \cup {<<t, item[i].tenant>> : i \in found}

-----------------------------------------------------------------------------
(* DocumentsService.upload: an item, and a job to extract its text. *)
Upload(t, i, level) ==
  /\ ~Made(i)
  /\ ~Refused("ContentItem", "create", t, None)
  /\ item' = [item EXCEPT ![i] =
                [tenant |-> Stamped("ContentItem", "create", t, None), level |-> level]]
  /\ job' = job \cup {[item |-> i, tenant |-> t]}
  /\ UNCHANGED <<rows, req, reached>>

(* DocumentProcessor reads the item, by an operation that is in none of the *)
(* sets of the extension, and updates it, both in the context of the job.   *)
Process(j) ==
  /\ j \in job
  /\ Log(j.tenant, Scoped("findFirstOrThrow", j.tenant, j.item)
                     \cup Scoped("update", j.tenant, j.item))
  /\ UNCHANGED <<item, job, rows, req>>

(* assertCanView. *)
CanView(t, role, i) == Can("view", [tenant |-> t, role |-> role], item[i], NoShare)

(* ContentItemsService.findOne. *)
FindOne(r, t, role, i) ==
  /\ req[r].pc = "idle"
  /\ ~Refused("ContentItem", "findFirst", t, None)
  /\ LET found == Scoped("findFirst", t, i)
     IN /\ Log(t, found)
        /\ found # {} /\ CanView(t, role, i)
        /\ req' = [req EXCEPT ![r] = [Idle EXCEPT !.pc = "answered", !.tenant = t,
                                                  !.role = role, !.item = i]]
  /\ UNCHANGED <<item, job, rows>>

-----------------------------------------------------------------------------
Managers == {"OWNER", "SUPER_ADMIN", "ADMIN"}

(* share: is the item ours? *)
ShareFind(r, t, role, i, target, perm) ==
  /\ req[r].pc = "idle"
  /\ Admitted(Managers, role)
  /\ ~Refused("ContentItem", "findFirst", t, None)
  /\ LET found == Scoped("findFirst", t, i)
     IN /\ Log(t, found)
        /\ found # {}
        /\ req' = [req EXCEPT ![r] = [Idle EXCEPT !.pc = "look", !.tenant = t, !.item = i,
                                                  !.target = target, !.perm = perm]]
  /\ UNCHANGED <<item, job, rows>>

(* Plausible slip: the tenant is left out of the key. *)
Matches_Item(s, i, t) == s \in live /\ share[s].item = i

(* The row with this unique key, item and tenant. *)
Matches(s, i, t) == s \in live /\ share[s].item = i /\ share[s].tenant = t

(* Is it shared with that tenant already? *)
ShareLook(r) ==
  LET existing == {s \in Shares : Matches(s, req[r].item, req[r].target)}
  IN /\ req[r].pc = "look"
     /\ \/ /\ existing = {}
           /\ req' = [req EXCEPT ![r].pc = "create"]
        \/ \E s \in existing : req' = [req EXCEPT ![r].pc = "update", ![r].share = s]
     /\ UNCHANGED <<item, job, rows, reached>>

(* The row may have been deleted since: then the update throws. *)
ShareUpdate(r) ==
  /\ req[r].pc = "update" /\ req[r].share \in live
  /\ share' = [share EXCEPT ![req[r].share].perm = req[r].perm]
  /\ req' = [req EXCEPT ![r] = Idle]
  /\ UNCHANGED <<item, job, live, reached>>

(* Plausible slip: no unique index. *)
Taken_Never(i, t) == FALSE

(* The unique index on item and tenant: then the insert throws. *)
Taken(i, t) == \E s \in live : share[s].item = i /\ share[s].tenant = t

ShareCreate(r) ==
  /\ req[r].pc = "create" /\ ~Taken(req[r].item, req[r].target)
  /\ \E s \in Shares :
       /\ share[s].item = None
       /\ share' = [share EXCEPT ![s] = [item |-> req[r].item, tenant |-> req[r].target,
                                         perm |-> req[r].perm]]
       /\ live' = live \cup {s}
  /\ req' = [req EXCEPT ![r] = Idle]
  /\ UNCHANGED <<item, job, reached>>

-----------------------------------------------------------------------------
(* Plausible slip: the share is looked up by its id alone. *)
MayRevoke_Any(t, s) == s \in live

MayRevoke(t, s) == s \in live /\ item[share[s].item].tenant = t

RevokeFind(r, t, role, s) ==
  /\ req[r].pc = "idle"
  /\ Admitted(Managers, role)
  /\ MayRevoke(t, s)
  /\ req' = [req EXCEPT ![r] = [Idle EXCEPT !.pc = "delete", !.tenant = t, !.share = s]]
  /\ UNCHANGED <<item, job, rows, reached>>

(* Somebody else may have deleted it since: then the delete throws. *)
RevokeDelete(r) ==
  /\ req[r].pc = "delete" /\ req[r].share \in live
  /\ live' = live \ {req[r].share}
  /\ req' = [req EXCEPT ![r] = Idle]
  /\ UNCHANGED <<item, job, share, reached>>

-----------------------------------------------------------------------------
(* getSharedItem: is it shared with us? *)
GetFind(r, t, role, i) ==
  /\ req[r].pc = "idle"
  /\ \E s \in Shares :
       /\ Matches(s, i, t)
       /\ req' = [req EXCEPT ![r] = [Idle EXCEPT !.pc = "get", !.tenant = t, !.role = role,
                                                 !.item = i, !.perm = share[s].perm]]
  /\ UNCHANGED <<item, job, rows, reached>>

(* The item is read by the raw client, whoever owns it. *)
GetItem(r) ==
  /\ req[r].pc = "get"
  /\ Can("view", [tenant |-> req[r].tenant, role |-> req[r].role],
         item[req[r].item], req[r].perm)
  /\ req' = [req EXCEPT ![r].pc = "answered", ![r].perm = NoShare]
  /\ UNCHANGED <<item, job, rows, reached>>

(* The answer arrives; or a call throws, or the process dies. *)
Done(r) ==
  /\ req[r].pc # "idle"
  /\ req' = [req EXCEPT ![r] = Idle]
  /\ UNCHANGED <<item, job, rows, reached>>

-----------------------------------------------------------------------------
(* A user of tenant t with this role calls. *)
Call(r, t, role) ==
  \/ \E i \in Items : FindOne(r, t, role, i) \/ GetFind(r, t, role, i)
  \/ \E i \in Items, target \in Tenants, perm \in Permissions :
       ShareFind(r, t, role, i, target, perm)
  \/ \E s \in Shares : RevokeFind(r, t, role, s)

Answer(r) ==
  \/ ShareLook(r) \/ ShareUpdate(r) \/ ShareCreate(r)
  \/ RevokeDelete(r)
  \/ GetItem(r)
  \/ Done(r)

Next ==
  \/ \E t \in Tenants, i \in Items, level \in Markings : Upload(t, i, level)
  \/ \E j \in job : Process(j)
  \/ \E r \in Requests : Answer(r) \/ \E t \in Tenants, role \in Staff : Call(r, t, role)

Spec == Init /\ [][Next]_vars

-----------------------------------------------------------------------------
TypeOK ==
  /\ item \in [Items -> [tenant : Tenants \cup {None}, level : Levels]]
  /\ job \subseteq [item : Items, tenant : Tenants]
  /\ share \in [Shares -> [item : Items \cup {None}, tenant : Tenants \cup {None},
                           perm : Permissions]]
  /\ live \subseteq {s \in Shares : share[s].item \in Items /\ share[s].tenant \in Tenants}
  /\ req \in [Requests -> Request]
  /\ reached \subseteq Tenants \X Tenants
  /\ \A r \in Requests : req[r].pc = "update" =>
       /\ req[r].share \in Shares
       /\ share[req[r].share].item = req[r].item
       /\ share[req[r].share].tenant = req[r].target

(* A query in one tenant's context touches no other tenant's items: neither *)
(* in a request nor in the worker, one of whose operations the extension    *)
(* does not know (PrismaService.buildExtendedClient).                       *)
Confined == \A p \in reached : p[1] = p[2]

(* An item is handed out within its tenant, or to one that it has been      *)
(* shared with, and by either way RESTRICTED items go to no one but their   *)
(* tenant's owners and CONFIDENTIAL ones to no researcher, though the share *)
(* is read before the item and may be gone by then (getSharedItem).         *)
SeenRightful ==
  \A r \in Requests : req[r].pc = "answered" =>
    LET i == req[r].item
    IN /\ \/ item[i].tenant = req[r].tenant
          \/ \E s \in Shares : share[s].item = i /\ share[s].tenant = req[r].tenant
       /\ item[i].level = "RESTRICTED" =>
            item[i].tenant = req[r].tenant /\ req[r].role \in {"OWNER", "SUPER_ADMIN"}
       /\ item[i].level = "CONFIDENTIAL" => req[r].role # "RESEARCHER"

(* When a share has been revoked its item is not shared with that tenant    *)
(* any more, however many calls to share it have looked before any of them  *)
(* inserted a row (share, revoke).                                          *)
RevokeEndsSharing ==
  [][\A s \in live \ live' : \A z \in live' :
       share'[z].item = share[s].item => share'[z].tenant # share[s].tenant]_vars

(* Whether and how an item is shared changes only by a request of the       *)
(* tenant that owns it (share, revoke).                                     *)
OwnerDecides ==
  [][\A s \in Shares : share'[s] # share[s] \/ ((s \in live) # (s \in live')) =>
       \E r \in Requests : /\ req'[r] # req[r]
                           /\ req[r].tenant = item[share'[s].item].tenant]_vars
=============================================================================
