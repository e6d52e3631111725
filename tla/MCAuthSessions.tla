--------------------------- MODULE MCAuthSessions ---------------------------
(***************************************************************************)
(* Users of two tenants who share an e-mail address: the owner's role      *)
(* needs a second factor, the staff member's does not.                     *)
(***************************************************************************)
EXTENDS AuthSessions

CONSTANTS staff, owner, mail

MCEmailOf == [u \in Users |-> mail]
=============================================================================
