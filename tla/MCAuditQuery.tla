---------------------------- MODULE MCAuditQuery ----------------------------
(***************************************************************************)
(* A small instance of AuditQuery for TLC.                                 *)
(***************************************************************************)
EXTENDS AuditQuery

CONSTANTS org1, org2, login, export

Event(id, timestamp, org, scope, kind, held) ==
  [event_id |-> id, timestamp |-> timestamp, organization_id |-> org,
   tenant_scope |-> scope, kind |-> kind, held |-> held]

(* Two rows share a timestamp, one is under legal hold, one belongs to     *)
(* another organization, and one names an organization but is not scoped   *)
(* to it.                                                                  *)
FiveRows ==
  {Event(1, 1, org1, "organization", login,  FALSE),
   Event(2, 1, org1, "organization", export, TRUE),
   Event(3, 2, org1, "organization", login,  FALSE),
   Event(4, 2, org2, "organization", login,  FALSE),
   Event(5, 3, org1, "platform",     login,  FALSE)}

Claims(admin, all, orgAdmin, org) ==
  [platform_admin |-> admin, manage_all_orgs |-> all, org_admin |-> orgAdmin, org_id |-> org]

SomeClaims ==
  {Claims(TRUE, TRUE, FALSE, None), Claims(FALSE, FALSE, TRUE, org1),
   Claims(FALSE, FALSE, FALSE, org1), Claims(FALSE, FALSE, TRUE, None)}

SomeFilters ==
  {[kind |-> None, from |-> None, to |-> None],
   [kind |-> login, from |-> 1, to |-> 2]}
=============================================================================
