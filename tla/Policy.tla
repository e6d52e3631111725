------------------------------- MODULE Policy -------------------------------
(***************************************************************************)
(* PolicyService.can and RolesGuard: what a role may do with an item.      *)
(*                                                                         *)
(* A subject is [tenant, role], an item [tenant, level].  share is the     *)
(* permission of the share of the item with the subject's tenant that the  *)
(* caller has found, NoShare if it has found none.                         *)
(***************************************************************************)
Actions == {"view", "create", "update", "delete", "download", "export"}

Roles == {"OWNER", "SUPER_ADMIN", "ADMIN", "MEDIA_ADMIN", "RESEARCHER", "EXTERNAL_RESEARCHER"}

Levels == {"PUBLIC", "INTERNAL", "CONFIDENTIAL", "RESTRICTED"}

Permissions == {"VIEW", "EDIT"}

NoShare == "NONE"

(* RolesGuard, for a route whose @Roles are these, {} if it has none. *)
Admitted(required, role) == required = {} \/ role \in required

(* The role matrix; it has no row for an external researcher. *)
Capable(role, action) ==
  \/ role \in {"OWNER", "SUPER_ADMIN", "ADMIN"}
  \/ role = "MEDIA_ADMIN" /\ action \in {"view", "create", "update", "download"}
  \/ role = "RESEARCHER" /\ action = "view"

(* Rule 1: the tenant boundary, which only a share opens. *)
DeniesBoundary(action, subject, item, share) ==
  /\ item.tenant # subject.tenant
  /\ share = NoShare \/ (share = "VIEW" /\ action # "view")

(* Plausible slip: the role is looked at, the tenant is not. *)
DeniesRestricted_AnyAdmin(subject, item) ==
  item.level = "RESTRICTED" /\ subject.role \notin {"OWNER", "SUPER_ADMIN"}

(* Rule 2: restricted items are for their own tenant's owners. *)
DeniesRestricted(subject, item) ==
  /\ item.level = "RESTRICTED"
  /\ item.tenant = subject.tenant => subject.role \notin {"OWNER", "SUPER_ADMIN"}

(* Rule 3: confidential items are not for researchers' eyes. *)
DeniesConfidential(action, subject, item) ==
  item.level = "CONFIDENTIAL" /\ subject.role = "RESEARCHER" /\ action = "view"

(* The first rule that denies has the last word. *)
Can(action, subject, item, share) ==
  /\ ~DeniesBoundary(action, subject, item, share)
  /\ ~DeniesRestricted(subject, item)
  /\ ~DeniesConfidential(action, subject, item)
  /\ Capable(subject.role, action)
=============================================================================
