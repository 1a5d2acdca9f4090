----------------------------- MODULE AuditQuery -----------------------------
(***************************************************************************)
(* The read side: GET /audit/events and GET /audit/events/safe, their      *)
(* authorization, and the paginated queries of audit_query_service.py,     *)
(* used by a client that walks page after page while the worker inserts    *)
(* rows, late ones included, and retention deletes expired ones.           *)
(*                                                                         *)
(* A page is one step: the count and the rows of a request are read in one *)
(* REPEATABLE READ transaction of its session.  Between two pages anything *)
(* may happen.  A row is a record of what the queries look at; the         *)
(* equality filters on user_id, service, event_type, decision and          *)
(* integrity_status are one filter on `kind`.  Event IDs are naturals for  *)
(* their order.  What of a row's context is shown is left out.             *)
(***************************************************************************)
EXTENDS Integers, FiniteSets

CONSTANTS
  Catalog,      \* the rows that audit_events may come to hold
  Payloads,     \* the claims of the tokens that clients present
  Invalid,      \* a missing header, or a token that verify_token refuses
  Orgs,         \* the organization_ids
  Filters,      \* the filters that clients use
  PageSizes,    \* the page_sizes that clients use
  None,
  MaxCutoff     \* bound: how far the retention cut-off moves

ASSUME CatalogAssumption ==
  \A x, y \in Catalog :
    /\ x.timestamp \in Nat /\ x.event_id \in Nat
    /\ x.event_id = y.event_id => x = y
ASSUME PageSizesAssumption == PageSizes \subseteq 1..100 /\ MaxCutoff \in Nat

VARIABLES
  rows,     \* audit_events
  removed,  \* history: the rows that retention has deleted
  cutoff,   \* rows with an older timestamp have expired
  client    \* a client on its walk, or None

vars == <<rows, removed, cutoff, client>>

Init == rows = {} /\ removed = {} /\ cutoff = 0 /\ client = None

-----------------------------------------------------------------------------
(* The table under the client: the worker's inserts, in any order of       *)
(* timestamps, and retention, which deletes everything before its own      *)
(* cut-off, taken today or earlier, but for rows under legal hold.         *)
Insert(x) ==
  /\ x \notin rows \cup removed
  /\ rows' = rows \cup {x}
  /\ UNCHANGED <<removed, cutoff, client>>

Expired(x) == x.timestamp < cutoff

RunRetention ==
  /\ \E c \in 1..cutoff :
       LET S == {x \in rows : x.timestamp < c /\ ~x.held} IN
       S # {} /\ rows' = rows \ S /\ removed' = removed \cup S
  /\ UNCHANGED <<cutoff, client>>

CutoffMoves ==
  /\ cutoff < MaxCutoff /\ cutoff' = cutoff + 1
  /\ UNCHANGED <<rows, removed, client>>

-----------------------------------------------------------------------------
(* require_platform_admin: the role, by its name.                          *)
require_platform_admin(p) == p # Invalid /\ p.platform_admin

(* require_audit_read_access: the permission, or else org_admin of an      *)
(* organization; None: a 401 or 403.                                       *)
require_audit_read_access(p) ==
  IF p = Invalid THEN None
  ELSE IF p.manage_all_orgs THEN [platform_wide |-> TRUE, organization_id |-> None]
  ELSE IF ~p.org_admin \/ p.org_id = None THEN None
  ELSE [platform_wide |-> FALSE, organization_id |-> p.org_id]

(* What a request asks for.                                                *)
Request ==
  [route : {"/audit/events", "/audit/events/safe"}, payload : Payloads \cup {Invalid},
   organization_id : Orgs \cup {None}, filter : Filters, page_size : PageSizes]

(* /audit/events/safe refuses a reversed time range and an organization    *)
(* outside the verified scope.  /audit/events has no such parameter.       *)
Admitted(q) ==
  IF q.route = "/audit/events"
    THEN require_platform_admin(q.payload)
    ELSE LET access == require_audit_read_access(q.payload) IN
         /\ access # None
         /\ q.filter.from # None /\ q.filter.to # None => q.filter.from <= q.filter.to
         /\ ~access.platform_wide => q.organization_id \in {None, access.organization_id}

Selected(f, x) ==
  /\ f.kind # None => x.kind = f.kind
  /\ f.from # None => x.timestamp >= f.from
  /\ f.to # None => x.timestamp <= f.to

\* Mutant: the organization alone, without the row's tenant_scope.
MutantOrganizationOnly(access, organization_id, x) ==
  IF access.platform_wide
    THEN organization_id # None => x.organization_id = organization_id
    ELSE x.organization_id = access.organization_id

(* The scope that list_safe_audit_events applies before count and page.    *)
InScope(access, organization_id, x) ==
  IF access.platform_wide
    THEN organization_id # None => x.organization_id = organization_id
    ELSE x.organization_id = access.organization_id /\ x.tenant_scope = "organization"

(* The rows that a request's query matches in a table.                     *)
Matching(q, T) ==
  {x \in T : /\ Selected(q.filter, x)
             /\ q.route = "/audit/events/safe" =>
                  InScope(require_audit_read_access(q.payload), q.organization_id, x)}

\* Mutant: oldest first.
MutantAscending(x, y) ==
  x.timestamp < y.timestamp \/ (x.timestamp = y.timestamp /\ x.event_id < y.event_id)

(* ORDER BY timestamp DESC, event_id DESC.                                 *)
Before(x, y) ==
  x.timestamp > y.timestamp \/ (x.timestamp = y.timestamp /\ x.event_id > y.event_id)

(* OFFSET (page - 1) * page_size LIMIT page_size.                          *)
Page(S, page, page_size) ==
  {x \in S : LET rank == Cardinality({y \in S : Before(y, x)})
             IN (page - 1) * page_size <= rank /\ rank < page * page_size}

total_pages(total, page_size) == (total + page_size - 1) \div page_size

-----------------------------------------------------------------------------
(* A client starts with page 1 ...                                         *)
StartWalk(q) ==
  /\ client = None
  /\ client' = [at |-> "walking", request |-> q, page |-> 1, start |-> rows, got |-> {},
                items |-> {}, total |-> 0]
  /\ UNCHANGED <<rows, removed, cutoff>>

(* ... and asks for the next until it has had the last that the latest     *)
(* response told it of.                                                    *)
GetPage ==
  LET q == client.request
      S == Matching(q, rows)
      items == Page(S, client.page, q.page_size)
  IN
  /\ client # None /\ client.at = "walking"
  /\ client' =
       IF Admitted(q)
         THEN [client EXCEPT
                 !.items = items, !.total = Cardinality(S), !.got = @ \cup items,
                 !.page = @ + 1,
                 !.at = IF client.page >= total_pages(Cardinality(S), q.page_size)
                          THEN "done" ELSE "walking"]
         ELSE [client EXCEPT !.at = "refused"]
  /\ UNCHANGED <<rows, removed, cutoff>>

(* The client has ended its walk, or gives it up (a 503, say).             *)
EndWalk ==
  /\ client # None /\ client' = None
  /\ UNCHANGED <<rows, removed, cutoff>>

Next ==
  \/ \E x \in Catalog : Insert(x)
  \/ RunRetention \/ CutoffMoves
  \/ \E q \in Request : StartWalk(q)
  \/ GetPage \/ EndWalk

Spec == Init /\ [][Next]_vars

-----------------------------------------------------------------------------
(* Tenant scope: what an organization's administrator is given, the total  *)
(* as well as the items, is about the rows of that organization which were *)
(* written with scope "organization", whatever it asks for; and only a     *)
(* platform-wide identity is given anything else.                          *)
OwnRows(p) == {x \in rows : x.organization_id = p.org_id /\ x.tenant_scope = "organization"}
TenantIsolation ==
  [][client # None /\ client' # None /\ client'.page # client.page =>
       LET p == client.request.payload IN
       /\ p # Invalid
       /\ ~(p.manage_all_orgs \/ p.platform_admin) =>
            /\ p.org_admin
            /\ client'.items \subseteq OwnRows(p)
            /\ client'.total <= Cardinality(OwnRows(p))]_vars

(* A walk that was carried to its last page has been given every matching  *)
(* row that was there all the time, although inserts and retention move    *)
(* the page boundaries between its requests: retention deletes at the end  *)
(* of the order, and an insert moves rows only to later pages.  The one    *)
(* exception is an expired row under legal hold: retention deletes the     *)
(* rows before it, which moves it to a page that has been read.            *)
NoCurrentRowIsMissed ==
  client # None /\ client.at = "done" =>
    {x \in Matching(client.request, client.start \cap rows) : ~(Expired(x) /\ x.held)}
      \subseteq client.got
=============================================================================
