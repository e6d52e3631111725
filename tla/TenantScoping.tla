---------------------------- MODULE TenantScoping ----------------------------
(***************************************************************************)
(* The query extension of PrismaService: what becomes of an operation on a *)
(* model that is called through the scoped client in a tenant's context.   *)
(***************************************************************************)
ScopedModels ==
  {"User", "ContentItem", "AuditLog", "ContentRelation", "StatusTransition", "AiPrediction",
   "PendingMergeSuggestion", "EventType", "NavSection", "Task", "EventRevision",
   "ActiveSession", "DashboardSnapshot", "SavedSearch", "DocumentFile", "RetentionPolicy",
   "MediaFile", "ResearcherAccount", "AccessRequest", "WatermarkJob", "Character", "Brand"}

AppendOnlyModels == {"AuditLog", "StatusTransition", "EventRevision"}

MutatingWithWhere == {"update", "updateMany", "delete", "deleteMany", "upsert"}

(* Plausible slip: an operation is left out. *)
ReadOps_NoFindFirst == {"findMany", "findUnique", "count", "aggregate", "groupBy"}

ReadOps == {"findMany", "findFirst", "findUnique", "count", "aggregate", "groupBy"}

CreateOps == {"create", "createMany"}

(* The call throws: the model is append-only, or there is no tenant. *)
Refused(model, op, tenant, NoTenant) ==
  /\ model \in ScopedModels
  /\ \/ model \in AppendOnlyModels /\ op \in MutatingWithWhere
     \/ tenant = NoTenant

(* The where clause that the query runs with lets rows of this owner       *)
(* through.  An operation in none of the sets runs as it was written.      *)
Reaches(model, op, tenant, owner) ==
  model \in ScopedModels /\ op \in ReadOps \cup MutatingWithWhere => owner = tenant

(* The tenant of a row that is inserted with this one in its data. *)
Stamped(model, op, tenant, given) ==
  IF model \in ScopedModels /\ op \in CreateOps \cup {"upsert"} THEN tenant ELSE given
=============================================================================
