-------------------------- MODULE AuditQueryProofs --------------------------
(***************************************************************************)
(* The read side, for any rows, claims, filters, page sizes and cut-offs.  *)
(*                                                                         *)
(* That a walk misses nothing is a fact about ranks: a row that a client   *)
(* has still to be given is never in front of the next page.  An insert    *)
(* only moves rows back, and retention takes rows from the end of the      *)
(* order.                                                                  *)
(***************************************************************************)
EXTENDS AuditQuery, FiniteSetTheorems, TLAPS

(* A client on its walk.                                                   *)
Walk ==
  [at : {"walking", "done", "refused"}, request : Request, page : Nat \ {0},
   start : SUBSET Catalog, got : SUBSET Catalog, items : SUBSET Catalog, total : Nat]

(* The shape of the state.  What was there when the walk began is there    *)
(* still, or was removed.                                                  *)
Shape ==
  /\ rows \subseteq Catalog /\ IsFiniteSet(rows) /\ cutoff \in Nat
  /\ client = None \/ client \in Walk
  /\ client # None => client.start \subseteq rows \cup removed

(* What a walk owes its client, and how many rows are in front of one.     *)
Due ==
  {x \in Matching(client.request, client.start \cap rows) : ~(Expired(x) /\ x.held)}
InFront(x) == {y \in Matching(client.request, rows) : Before(y, x)}
Rank(x) == Cardinality(InFront(x))

(* Whatever is owed has been given, or is not in front of the next page.   *)
NothingIsBehind ==
  client # None /\ client.at = "walking" =>
    \A x \in Due : \/ x \in client.got
                   \/ (client.page - 1) * client.request.page_size <= Rank(x)

WalkInv == Shape /\ NothingIsBehind /\ NoCurrentRowIsMissed

-----------------------------------------------------------------------------
(* A query matches rows of its table, in whatever table they are.          *)
LEMMA MatchingIsPointwise ==
  ASSUME NEW q, NEW T, NEW U
  PROVE  /\ Matching(q, T) \subseteq T
         /\ \A x : x \in T /\ x \in U => (x \in Matching(q, T) <=> x \in Matching(q, U))
         /\ T \subseteq U => Matching(q, T) \subseteq Matching(q, U)
BY DEF Matching

(* The rows in front of one are finitely many.                             *)
LEMMA RanksAreNumbers ==
  ASSUME Shape, NEW x
  PROVE  /\ IsFiniteSet(Matching(client.request, rows))
         /\ Cardinality(Matching(client.request, rows)) \in Nat
         /\ InFront(x) \subseteq Matching(client.request, rows)
         /\ IsFiniteSet(InFront(x)) /\ Rank(x) \in Nat
<1>1. Matching(client.request, rows) \subseteq rows
  BY MatchingIsPointwise
<1>2. InFront(x) \subseteq Matching(client.request, rows)
  BY DEF InFront
<1>3. IsFiniteSet(Matching(client.request, rows)) /\ IsFiniteSet(InFront(x))
  BY <1>1, <1>2, FS_Subset DEF Shape
<1> QED  BY <1>2, <1>3, FS_CardinalityType DEF Rank

(* A request has a page size and a route.                                  *)
LEMMA RequestShape ==
  ASSUME NEW c \in Walk
  PROVE  /\ c.request \in Request /\ c.request.page_size \in 1..100 /\ c.page \in Nat \ {0}
         /\ c.request.page_size \in Nat
         /\ c.request.route \in {"/audit/events", "/audit/events/safe"}
<1>1. c.request \in Request /\ c.page \in Nat \ {0}
  BY DEF Walk
<1>2. /\ c.request.page_size \in PageSizes
      /\ c.request.route \in {"/audit/events", "/audit/events/safe"}
  BY <1>1 DEF Request
<1>3. c.request.page_size \in 1..100
  BY <1>2, PageSizesAssumption
<1> QED  BY <1>1, <1>2, <1>3

-----------------------------------------------------------------------------
(* Each step keeps the shape.                                              *)
LEMMA ShapeNext ==
  ASSUME Shape, [Next]_vars
  PROVE  Shape'
<1>1. ASSUME NEW x \in Catalog, Insert(x)
      PROVE  Shape'
  <2>1. rows' = rows \cup {x} /\ UNCHANGED <<removed, cutoff, client>>
    BY <1>1 DEF Insert
  <2>2. IsFiniteSet(rows')
    BY <2>1, FS_AddElement DEF Shape
  <2> QED  BY <2>1, <2>2 DEF Shape
<1>2. CASE RunRetention
  <2>1. PICK S \in SUBSET rows : rows' = rows \ S /\ removed' = removed \cup S
    BY <1>2 DEF RunRetention
  <2>2. UNCHANGED <<cutoff, client>> /\ rows' \cup removed' = rows \cup removed
    BY <1>2, <2>1 DEF RunRetention
  <2>3. IsFiniteSet(rows')
    BY <2>1, FS_Subset DEF Shape
  <2> QED  BY <2>1, <2>2, <2>3 DEF Shape
<1>3. CASE CutoffMoves \/ UNCHANGED vars
  BY <1>3 DEF CutoffMoves, vars, Shape
<1>4. ASSUME NEW q \in Request, StartWalk(q)
      PROVE  Shape'
  <2>1. client' \in Walk /\ client'.start = rows
    BY <1>4 DEF StartWalk, Walk, Shape
  <2> QED  BY <1>4, <2>1 DEF StartWalk, Shape
<1>5. CASE GetPage
  <2> DEFINE S == Matching(client.request, rows)
             items == Page(S, client.page, client.request.page_size)
  <2>1. client # None /\ client \in Walk /\ UNCHANGED <<rows, removed, cutoff>>
    BY <1>5 DEF GetPage, Shape
  <2>2. S \subseteq rows /\ Cardinality(S) \in Nat /\ items \subseteq S
    BY RanksAreNumbers, MatchingIsPointwise DEF Page
  <2>3. client' \in Walk /\ client'.start = client.start
    <3>1. CASE Admitted(client.request)
      <4>1. client' = [client EXCEPT
                !.items = items, !.total = Cardinality(S), !.got = client.got \cup items,
                !.page = client.page + 1,
                !.at = IF client.page >= total_pages(Cardinality(S), client.request.page_size)
                         THEN "done" ELSE "walking"]
        BY <1>5, <3>1 DEF GetPage
      <4>2. items \subseteq Catalog
        BY <2>2 DEF Shape
      <4> DEFINE n == Cardinality(S)
                 given == client.got \cup items
                 next == client.page + 1
                 at == IF client.page >= total_pages(n, client.request.page_size)
                         THEN "done" ELSE "walking"
      <4>3. /\ n \in Nat /\ given \in SUBSET Catalog /\ next \in Nat \ {0}
            /\ items \in SUBSET Catalog /\ at \in {"walking", "done", "refused"}
        BY <2>1, <2>2, <4>2 DEF Walk
      <4>4. client' = [client EXCEPT !.items = items, !.total = n, !.got = given,
                                     !.page = next, !.at = at]
        BY <4>1
      <4> HIDE DEF S, items, n, given, next, at
      <4> QED  BY <2>1, <4>3, <4>4 DEF Walk
    <3>2. CASE ~Admitted(client.request)
      BY <1>5, <2>1, <3>2 DEF GetPage, Walk
    <3> QED  BY <3>1, <3>2
  <2> QED  BY <2>1, <2>3 DEF Shape
<1>6. CASE EndWalk
  BY <1>6 DEF EndWalk, Shape
<1> QED  BY <1>1, <1>2, <1>3, <1>4, <1>5, <1>6 DEF Next

(* The shape of the whole specification.                                   *)
LEMMA ShapeAlways == Spec => []Shape
<1>1. Init => Shape
  BY FS_EmptySet DEF Init, Shape
<1>2. Shape /\ [Next]_vars => Shape'
  BY ShapeNext
<1> QED  BY <1>1, <1>2, PTL DEF Spec

-----------------------------------------------------------------------------
(* What an admitted request of an identity that is not platform-wide       *)
(* matches are its own organization's rows.                                *)
LEMMA ScopeIsOwn ==
  ASSUME NEW q \in Request, Admitted(q),
         ~(q.payload.manage_all_orgs \/ q.payload.platform_admin)
  PROVE  q.payload.org_admin /\ Matching(q, rows) \subseteq OwnRows(q.payload)
<1> DEFINE access == require_audit_read_access(q.payload)
<1>1. q.route = "/audit/events/safe"
  BY DEF Request, Admitted, require_platform_admin
<1>2. access # None
  BY <1>1 DEF Admitted
<1>3. /\ access = [platform_wide |-> FALSE, organization_id |-> q.payload.org_id]
      /\ q.payload.org_admin
  BY <1>2 DEF require_audit_read_access
<1>4. ~access.platform_wide /\ access.organization_id = q.payload.org_id
  BY <1>3
<1>5. \A x \in Matching(q, rows) : x \in rows /\ InScope(access, q.organization_id, x)
  BY <1>1 DEF Matching
<1> HIDE DEF access
<1> QED  BY <1>3, <1>4, <1>5 DEF InScope, OwnRows

(* Tenant scope: an organization's administrator is given items of, and a  *)
(* total over, the rows of that organization alone, whatever organization  *)
(* and filter it asks for and whichever page, for any claims and tables.   *)
THEOREM TenantsAreIsolated == Spec => TenantIsolation
<1> DEFINE Isolates ==
      client # None /\ client' # None /\ client'.page # client.page =>
        LET p == client.request.payload IN
        /\ p # Invalid
        /\ ~(p.manage_all_orgs \/ p.platform_admin) =>
             /\ p.org_admin
             /\ client'.items \subseteq OwnRows(p)
             /\ client'.total <= Cardinality(OwnRows(p))
<1>1. ASSUME Shape, [Next]_vars, client # None, client' # None, client'.page # client.page
      PROVE  Isolates
  <2> DEFINE q == client.request
             S == Matching(q, rows)
             items == Page(S, client.page, q.page_size)
  <2>1. GetPage /\ client \in Walk
    BY <1>1 DEF Next, Insert, RunRetention, CutoffMoves, StartWalk, EndWalk, vars, Shape
  <2>2. Admitted(q)
    BY <1>1, <2>1 DEF GetPage, Walk
  <2>3. q \in Request
    BY <2>1, RequestShape
  <2>4. client'.items = items /\ client'.total = Cardinality(S)
    BY <2>1, <2>2 DEF GetPage, Walk
  <2>5. q.payload # Invalid
    BY <2>2 DEF Admitted, require_platform_admin, require_audit_read_access
  <2>6. ASSUME ~(q.payload.manage_all_orgs \/ q.payload.platform_admin)
        PROVE  /\ q.payload.org_admin /\ items \subseteq OwnRows(q.payload)
               /\ Cardinality(S) <= Cardinality(OwnRows(q.payload))
    <3>1. q.payload.org_admin /\ S \subseteq OwnRows(q.payload)
      BY <2>2, <2>3, <2>6, ScopeIsOwn
    <3>2. IsFiniteSet(OwnRows(q.payload))
      BY <1>1, FS_Subset DEF OwnRows, Shape
    <3>3. Cardinality(S) <= Cardinality(OwnRows(q.payload))
      BY <3>1, <3>2, FS_Subset
    <3>4. items \subseteq S
      BY DEF Page
    <3> QED  BY <3>1, <3>3, <3>4
  <2> QED  BY <2>4, <2>5, <2>6
<1>2. Shape /\ [Next]_vars => [Isolates]_vars
  BY <1>1
<1> HIDE DEF Isolates
<1>3. Spec => [][Isolates]_vars
  BY <1>2, ShapeAlways, PTL DEF Spec
<1> QED  BY <1>3 DEF TenantIsolation, Isolates

-----------------------------------------------------------------------------
(* The last page that total_pages tells of reaches past every row.         *)
LEMMA PagesReachTheEnd ==
  ASSUME NEW n \in Nat, NEW size \in Nat \ {0}, NEW page \in Nat, page >= total_pages(n, size)
  PROVE  n <= page * size
<1> DEFINE d == (n + size - 1) \div size
<1>1. d \in Int /\ size * d <= n + size - 1 /\ n + size - 1 < size * d + size
  OBVIOUS
<1>2. page >= d
  BY DEF total_pages
<1> HIDE DEF d
<1>3. size * d <= size * page
  BY <1>1, <1>2
<1>4. size * page = page * size /\ size * page \in Nat /\ size * d \in Int
  BY <1>1
<1> QED  BY <1>1, <1>3, <1>4

(* A row that retention or time makes nobody owe is no longer owed, and a  *)
(* walk owes nothing that was not there at its start.                      *)
LEMMA DueShrinks ==
  ASSUME Shape, client # None, client' = client,
         cutoff' \in Nat, cutoff <= cutoff', rows' \cap client.start \subseteq rows
  PROVE  Due' \subseteq Due
<1>1. SUFFICES ASSUME NEW x \in Due' PROVE x \in Due
  OBVIOUS
<1>2. x \in Matching(client.request, client.start \cap rows') /\ ~(x.timestamp < cutoff' /\ x.held)
  BY <1>1 DEF Due, Expired
<1>3. x \in client.start /\ x \in rows' /\ x \in rows
  BY <1>2, MatchingIsPointwise
<1>4. x \in Matching(client.request, client.start \cap rows)
  BY <1>2, <1>3 DEF Matching
<1>5. x.timestamp \in Nat /\ cutoff \in Nat
  BY <1>3, CatalogAssumption DEF Shape
<1>6. ~(x.timestamp < cutoff /\ x.held)
  BY <1>2, <1>5
<1> QED  BY <1>4, <1>6 DEF Due, Expired

(* A step of the table that leaves the rows in front of what is owed.      *)
LEMMA TableStep ==
  ASSUME WalkInv, Shape', client' = client, cutoff <= cutoff',
         client # None => rows' \cap client.start \subseteq rows,
         client # None => \A x \in Due' : InFront(x) \subseteq InFront(x)'
  PROVE  WalkInv'
<1>1. SUFFICES ASSUME client # None PROVE NothingIsBehind' /\ NoCurrentRowIsMissed'
  BY DEF WalkInv, NothingIsBehind, NoCurrentRowIsMissed
<1>2. Due' \subseteq Due
  BY <1>1, DueShrinks DEF WalkInv, Shape
<1>3. NoCurrentRowIsMissed <=> (client.at = "done" => Due \subseteq client.got)
  BY <1>1 DEF NoCurrentRowIsMissed, Due
<1>4. NoCurrentRowIsMissed'
  BY <1>2, <1>3 DEF WalkInv, NoCurrentRowIsMissed, Due
<1>5. ASSUME NEW x \in Due'
      PROVE  Rank(x) <= Rank(x)' /\ Rank(x) \in Nat /\ Rank(x)' \in Nat
  <2>1. IsFiniteSet(InFront(x)') /\ Rank(x)' \in Nat
    <3>1. InFront(x)' \subseteq rows'
      BY DEF InFront, Matching
    <3> QED  BY <3>1, FS_Subset, FS_CardinalityType DEF Shape, Rank
  <2> QED  BY <1>1, <1>5, <2>1, RanksAreNumbers, FS_Subset DEF Rank, WalkInv
<1>6. (client.page - 1) * client.request.page_size \in Int
  BY <1>1, RequestShape DEF WalkInv, Shape
<1>7. NothingIsBehind'
  BY <1>1, <1>2, <1>5, <1>6 DEF WalkInv, NothingIsBehind
<1> QED  BY <1>4, <1>7

(* The steps of the table are such steps: an insert is of a row that the   *)
(* walk did not begin with, and retention deletes nothing in front of a    *)
(* row that it would keep if the row were not held.                        *)
LEMMA TableStepsKeep ==
  ASSUME WalkInv, Shape',
         (\E x \in Catalog : Insert(x)) \/ RunRetention \/ CutoffMoves
  PROVE  WalkInv'
<1>0. Shape /\ cutoff \in Nat /\ client' = client
  BY DEF WalkInv, Shape, Insert, RunRetention, CutoffMoves
<1>1. ASSUME NEW n \in Catalog, Insert(n)
      PROVE  WalkInv'
  <2>1. rows' = rows \cup {n} /\ n \notin rows \cup removed /\ cutoff' = cutoff
    BY <1>1 DEF Insert
  <2>2. client # None => rows' \cap client.start \subseteq rows
    BY <1>0, <2>1 DEF Shape
  <2>3. \A x : InFront(x) \subseteq InFront(x)'
    BY <1>0, <2>1 DEF InFront, Matching, Before
  <2> QED  BY <1>0, <2>1, <2>2, <2>3, TableStep
<1>2. CASE RunRetention
  <2>1. PICK c \in 1..cutoff :
          rows' = rows \ {x \in rows : x.timestamp < c /\ ~x.held}
    BY <1>2 DEF RunRetention
  <2>2. cutoff' = cutoff /\ c \in Nat /\ c <= cutoff /\ rows' \subseteq rows
    BY <1>0, <1>2, <2>1 DEF RunRetention
  <2>3. ASSUME client # None, NEW x \in Due'
        PROVE  InFront(x) \subseteq InFront(x)'
    <3>1. x \in rows' /\ ~(x.timestamp < cutoff /\ x.held)
      BY <2>2, <2>3 DEF Due, Matching, Expired
    <3>2. x \in Catalog /\ x.timestamp \in Nat
      BY <1>0, <2>2, <3>1, CatalogAssumption DEF Shape
    <3>3. c <= x.timestamp
      BY <1>0, <2>1, <2>2, <3>1, <3>2
    <3>4. SUFFICES ASSUME NEW y \in InFront(x) PROVE y \in InFront(x)'
      OBVIOUS
    <3>5. y \in rows /\ Before(y, x) /\ y \in Matching(client.request, rows)
      BY DEF InFront, Matching
    <3>6. y.timestamp \in Nat /\ x.timestamp <= y.timestamp
      BY <1>0, <3>2, <3>5, CatalogAssumption DEF Before, Shape
    <3>7. y \in rows'
      BY <2>1, <2>2, <3>2, <3>3, <3>5, <3>6
    <3> QED  BY <1>0, <3>5, <3>7 DEF InFront, Matching, Before
  <2> QED  BY <1>0, <2>2, <2>3, TableStep
<1>3. CASE CutoffMoves
  <2>1. rows' = rows /\ cutoff <= cutoff'
    BY <1>0, <1>3 DEF CutoffMoves
  <2>2. \A x : InFront(x) \subseteq InFront(x)'
    BY <1>0, <2>1 DEF InFront, Matching, Before
  <2> QED  BY <1>0, <2>1, <2>2, TableStep
<1> QED  BY <1>1, <1>2, <1>3

(* A page: what is owed and not behind it is given, or is not behind the   *)
(* next one either; and no row is behind the last.                         *)
LEMMA PageStep ==
  ASSUME WalkInv, Shape', GetPage
  PROVE  WalkInv'
<1> DEFINE q == client.request
           S == Matching(q, rows)
           items == Page(S, client.page, q.page_size)
<1>0. /\ Shape /\ client # None /\ client \in Walk /\ client.at = "walking"
      /\ UNCHANGED <<rows, removed, cutoff>>
  BY DEF GetPage, WalkInv, Shape
<1>1. /\ q.page_size \in Nat \ {0} /\ client.page \in Nat \ {0}
  BY <1>0, RequestShape
<1>2. CASE ~Admitted(q)
  <2>1. client'.at = "refused"
    BY <1>0, <1>2 DEF GetPage, Walk
  <2> QED  BY <2>1 DEF WalkInv, NothingIsBehind, NoCurrentRowIsMissed
<1>3. CASE Admitted(q)
  <2>1. /\ client'.request = q /\ client'.start = client.start
        /\ client'.got = client.got \cup items /\ client'.page = client.page + 1
        /\ client'.at = IF client.page >= total_pages(Cardinality(S), q.page_size)
                          THEN "done" ELSE "walking"
    BY <1>0, <1>3 DEF GetPage, Walk
  <2>2. Due' = Due /\ \A x : Rank(x)' = Rank(x)
    BY <1>0, <2>1 DEF Due, Rank, InFront, Matching, Expired, Before
  <2>3. ASSUME NEW x \in Due
        PROVE  /\ x \in client'.got \/ client.page * q.page_size <= Rank(x)
               /\ Rank(x) < Cardinality(S) /\ Rank(x) \in Nat /\ Cardinality(S) \in Nat
    <3>1. x \in S
      BY DEF Due, Matching
    <3>2. \/ x \in client.got
          \/ (client.page - 1) * q.page_size <= Rank(x)
      BY <1>0 DEF WalkInv, NothingIsBehind
    <3>3. /\ Rank(x) \in Nat /\ Cardinality(S) \in Nat /\ IsFiniteSet(S)
          /\ InFront(x) \subseteq S
      BY <1>0, RanksAreNumbers
    <3>4. Rank(x) < Cardinality(S)
      <4>1. ~Before(x, x)
        <5>1. x.timestamp \in Nat /\ x.event_id \in Nat
          BY <1>0, <3>1, MatchingIsPointwise, CatalogAssumption DEF Shape
        <5> QED  BY <5>1 DEF Before
      <4>2. InFront(x) \subseteq S \ {x}
        BY <3>3, <4>1 DEF InFront
      <4>3. IsFiniteSet(S \ {x}) /\ Cardinality(S \ {x}) = Cardinality(S) - 1
        BY <3>1, <3>3, FS_RemoveElement
      <4>4. Rank(x) <= Cardinality(S) - 1
        BY <4>2, <4>3, FS_Subset DEF Rank
      <4> QED  BY <3>3, <4>4
    <3>5. client.page * q.page_size \in Nat
      BY <1>1
    <3>6. CASE (client.page - 1) * q.page_size <= Rank(x) /\ Rank(x) < client.page * q.page_size
      <4>1. Rank(x) = Cardinality({y \in S : Before(y, x)})
        BY DEF Rank, InFront
      <4>2. x \in items
        BY <3>1, <3>6, <4>1 DEF Page
      <4> QED  BY <2>1, <3>3, <3>4, <4>2
    <3>7. CASE x \in client.got
      BY <2>1, <3>3, <3>4, <3>7
    <3>8. CASE ~(Rank(x) < client.page * q.page_size)
      BY <3>3, <3>4, <3>5, <3>8
    <3> QED  BY <3>2, <3>6, <3>7, <3>8
  <2>4. NothingIsBehind'
    <3>1. (client'.page - 1) * client'.request.page_size = client.page * q.page_size
      BY <1>1, <2>1
    <3> QED  BY <2>2, <2>3, <3>1 DEF NothingIsBehind
  <2>5. NoCurrentRowIsMissed'
    <3>1. SUFFICES ASSUME client'.at = "done", NEW x \in Due PROVE x \in client'.got
      BY <2>2 DEF NoCurrentRowIsMissed, Due
    <3>2. client.page >= total_pages(Cardinality(S), q.page_size)
      BY <2>1, <3>1
    <3>3. Cardinality(S) \in Nat
      BY <2>3
    <3>4. Cardinality(S) <= client.page * q.page_size
      BY <1>1, <3>2, <3>3, PagesReachTheEnd
    <3>5. client.page * q.page_size \in Nat
      BY <1>1
    <3> QED  BY <2>3, <3>3, <3>4, <3>5
  <2> QED  BY <2>4, <2>5 DEF WalkInv
<1> QED  BY <1>2, <1>3

(* Every step keeps the invariant.                                         *)
LEMMA WalkNext ==
  ASSUME WalkInv, [Next]_vars
  PROVE  WalkInv'
<1>0. Shape /\ Shape'
  BY ShapeNext DEF WalkInv
<1>1. CASE (\E x \in Catalog : Insert(x)) \/ RunRetention \/ CutoffMoves
  BY <1>0, <1>1, TableStepsKeep
<1>2. ASSUME NEW q \in Request, StartWalk(q)
      PROVE  WalkInv'
  <2>1. /\ client' = [at |-> "walking", request |-> q, page |-> 1, start |-> rows,
                      got |-> {}, items |-> {}, total |-> 0]
        /\ UNCHANGED <<rows, removed, cutoff>>
    BY <1>2 DEF StartWalk
  <2>2. client'.page = 1 /\ client'.at = "walking" /\ client'.request = q
    BY <2>1
  <2>3. q.page_size \in Nat
    <3>1. q.page_size \in PageSizes
      BY DEF Request
    <3>2. q.page_size \in 1..100
      BY <3>1, PageSizesAssumption
    <3> QED  BY <3>2
  <2>4. (client'.page - 1) * client'.request.page_size = 0
    BY <2>2, <2>3
  <2>5. ASSUME NEW x PROVE Rank(x)' \in Nat
    <3>1. InFront(x)' \subseteq rows'
      BY DEF InFront, Matching
    <3> QED  BY <1>0, <3>1, FS_Subset, FS_CardinalityType DEF Shape, Rank
  <2>6. NothingIsBehind'
    BY <2>4, <2>5 DEF NothingIsBehind
  <2>7. NoCurrentRowIsMissed'
    BY <2>2 DEF NoCurrentRowIsMissed
  <2> QED  BY <1>0, <2>6, <2>7 DEF WalkInv
<1>3. CASE GetPage
  BY <1>0, <1>3, PageStep
<1>4. CASE EndWalk
  BY <1>0, <1>4 DEF EndWalk, WalkInv, NothingIsBehind, NoCurrentRowIsMissed
<1>5. CASE UNCHANGED vars
  <2>1. /\ Due' = Due /\ \A x : Rank(x)' = Rank(x) /\ client' = client
    BY <1>5 DEF vars, Due, Rank, InFront, Matching, Expired, Before
  <2> QED  BY <1>0, <1>5, <2>1 DEF WalkInv, NothingIsBehind, NoCurrentRowIsMissed, vars, Due
<1> QED  BY <1>1, <1>2, <1>3, <1>4, <1>5 DEF Next

(* A walk carried to its last page has been given every matching row that  *)
(* was there all the time, expired ones under legal hold excepted, however *)
(* inserts, late ones too, and retention moved the page boundaries.        *)
THEOREM WalksAreComplete == Spec => []NoCurrentRowIsMissed
<1>1. Init => WalkInv
  BY FS_EmptySet DEF Init, WalkInv, Shape, NothingIsBehind, NoCurrentRowIsMissed
<1>2. WalkInv /\ [Next]_vars => WalkInv'
  BY WalkNext
<1>3. WalkInv => NoCurrentRowIsMissed
  BY DEF WalkInv
<1> QED  BY <1>1, <1>2, <1>3, PTL DEF Spec
-----------------------------------------------------------------------------
(* OFFSET and LIMIT on a table that does not change.                       *)

RankIn(S, x) == Cardinality({y \in S : Before(y, x)})

(* The order has no ties, because event_id is the primary key: two rows    *)
(* never have the same number of rows in front of them.                    *)
LEMMA RanksDiffer ==
  ASSUME NEW S \in SUBSET Catalog, IsFiniteSet(S), NEW x \in S, NEW y \in S
  PROVE  /\ RankIn(S, x) \in Nat /\ Cardinality(S) \in Nat /\ RankIn(S, x) < Cardinality(S)
         /\ x # y => RankIn(S, x) # RankIn(S, y)
<1> DEFINE F(z) == {w \in S : Before(w, z)}
<1>1. /\ x \in Catalog /\ y \in Catalog /\ x.timestamp \in Nat /\ x.event_id \in Nat
      /\ y.timestamp \in Nat /\ y.event_id \in Nat /\ (x.event_id = y.event_id => x = y)
  BY CatalogAssumption
<1>2. \A z \in S : /\ F(z) \subseteq S /\ z \notin F(z) /\ IsFiniteSet(F(z))
                   /\ Cardinality(F(z)) \in Nat
  <2>1. SUFFICES ASSUME NEW z \in S
                 PROVE  F(z) \subseteq S /\ z \notin F(z) /\ IsFiniteSet(F(z))
                        /\ Cardinality(F(z)) \in Nat
    OBVIOUS
  <2>2. z.timestamp \in Nat /\ z.event_id \in Nat
    BY CatalogAssumption
  <2>3. F(z) \subseteq S /\ z \notin F(z)
    BY <2>2 DEF Before
  <2> HIDE DEF F
  <2> QED  BY <2>3, FS_Subset, FS_CardinalityType
<1>3. ASSUME NEW a \in S, NEW b \in S, Before(a, b)
      PROVE  Cardinality(F(a)) # Cardinality(F(b))
  <2>1. F(a) \subseteq F(b)
    <3>1. \A w \in S : w.timestamp \in Nat /\ w.event_id \in Nat
      BY CatalogAssumption
    <3> QED  BY <1>3, <3>1 DEF Before
  <2>2. a \in F(b) /\ a \notin F(a)
    BY <1>2, <1>3
  <2>3. IsFiniteSet(F(b))
    BY <1>2
  <2> HIDE DEF F
  <2> QED  BY <2>1, <2>2, <2>3, FS_Subset
<1>4. x # y => Before(x, y) \/ Before(y, x)
  BY <1>1 DEF Before
<1>5. x # y => Cardinality(F(x)) # Cardinality(F(y))
  <2> HIDE DEF F
  <2> QED  BY <1>3, <1>4
<1>6. Cardinality(S) \in Nat /\ Cardinality(F(x)) < Cardinality(S)
  <2> HIDE DEF F
  <2>1. /\ Cardinality(S) \in Nat /\ Cardinality(F(x)) \in Nat
        /\ Cardinality(F(x)) <= Cardinality(S) /\ Cardinality(F(x)) # Cardinality(S)
    BY <1>2, FS_Subset, FS_CardinalityType
  <2> QED  BY <2>1
<1> QED  BY <1>2, <1>5, <1>6 DEF RankIn

(* A number of rows in front falls on exactly one page.                    *)
LEMMA OnePagePerRank ==
  ASSUME NEW n \in Nat, NEW k \in Nat, k < n, NEW size \in Nat \ {0}
  PROVE  /\ \E p \in 1..total_pages(n, size) : (p - 1) * size <= k /\ k < p * size
         /\ \A p, q \in Nat \ {0} :
              (p - 1) * size <= k /\ k < p * size /\ (q - 1) * size <= k /\ k < q * size => p = q
<1> DEFINE d == k \div size
           e == (n + size - 1) \div size
<1>1. d \in Nat /\ size * d <= k /\ k < size * d + size
  OBVIOUS
<1>2. e \in Int /\ size * e <= n + size - 1 /\ n + size - 1 < size * e + size
  OBVIOUS
<1>3. total_pages(n, size) = e
  BY DEF total_pages
<1> HIDE DEF d, e
<1>4. d < e
  <2>1. SUFFICES ASSUME d >= e PROVE FALSE
    BY <1>1, <1>2
  <2>2. size * e <= size * d
    BY <1>1, <1>2, <2>1
  <2>3. size * e \in Int /\ size * d \in Int
    BY <1>1, <1>2
  <2> QED  BY <1>1, <1>2, <2>2, <2>3
<1>5. d + 1 \in 1..e /\ (d + 1 - 1) * size <= k /\ k < (d + 1) * size
  <2>1. (d + 1 - 1) * size = size * d /\ (d + 1) * size = size * d + size
    BY <1>1
  <2> QED  BY <1>1, <1>2, <1>4, <2>1
<1>6. ASSUME NEW p \in Nat \ {0}, NEW q \in Nat \ {0}, p < q,
             k < p * size, (q - 1) * size <= k
      PROVE  FALSE
  <2>1. p <= q - 1 /\ q - 1 \in Nat
    BY <1>6
  <2>2. p * size <= (q - 1) * size
    BY <2>1
  <2>3. p * size \in Nat /\ (q - 1) * size \in Nat
    BY <2>1
  <2> QED  BY <1>6, <2>2, <2>3
<1>7. \A p, q \in Nat \ {0} :
        (p - 1) * size <= k /\ k < p * size /\ (q - 1) * size <= k /\ k < q * size => p = q
  <2> TAKE p, q \in Nat \ {0}
  <2>1. HAVE (p - 1) * size <= k /\ k < p * size /\ (q - 1) * size <= k /\ k < q * size
  <2>2. ~(p < q) /\ ~(q < p)
    BY <1>6, <2>1
  <2>3. p \in Nat /\ q \in Nat
    OBVIOUS
  <2> QED  BY ONLY <2>2, <2>3
<1>8. \E p \in 1..total_pages(n, size) : (p - 1) * size <= k /\ k < p * size
  <2> d + 1 \in 1..total_pages(n, size)
    BY <1>3, <1>5
  <2> WITNESS d + 1 \in 1..total_pages(n, size)
  <2> QED  BY <1>1, <1>5
<1> QED  BY <1>7, <1>8, Zenon

(* A page has as many rows as it has places: rank is one to one.           *)
LEMMA PageFits ==
  ASSUME NEW S \in SUBSET Catalog, IsFiniteSet(S), NEW size \in Nat \ {0}, NEW p \in Nat \ {0}
  PROVE  Cardinality(Page(S, p, size)) <= size
<1> DEFINE lo == (p - 1) * size
           hi == p * size
           P == Page(S, p, size)
           f == [x \in P |-> RankIn(S, x)]
<1>1. lo \in Nat /\ hi \in Nat /\ hi = lo + size
  OBVIOUS
<1>2. \A x \in P : x \in S /\ lo <= RankIn(S, x) /\ RankIn(S, x) < hi
  BY DEF Page, RankIn
<1> HIDE DEF lo, hi, P
<1>3. f \in [P -> lo..(hi - 1)]
  BY <1>1, <1>2, RanksDiffer
<1>4. \A x, y \in P : f[x] = f[y] => x = y
  BY <1>2, RanksDiffer
<1>5. f \in Injection(P, lo..(hi - 1))
  BY <1>3, <1>4 DEF Injection, IsInjective
<1>6. IsFiniteSet(lo..(hi - 1)) /\ Cardinality(lo..(hi - 1)) = size
  <2>1. lo \in Int /\ hi - 1 \in Int /\ ~(lo > hi - 1) /\ hi - 1 - lo + 1 = size
    BY <1>1
  <2> QED  BY <2>1, FS_Interval
<1>7. Cardinality(P) <= Cardinality(lo..(hi - 1))
  <2> HIDE DEF f
  <2> QED  BY <1>5, <1>6, FS_Injection
<1> QED  BY <1>6, <1>7 DEF P

(* The pages 1 to total_pages of list_audit_events partition the rows that *)
(* a query matches, none of them with more than page_size rows: on a table *)
(* that does not change a walk gives every row once.  It takes the second  *)
(* sort key: rows of one timestamp must not change places between two      *)
(* queries.                                                                *)
THEOREM PagesPartition ==
  ASSUME NEW S \in SUBSET Catalog, IsFiniteSet(S), NEW size \in Nat \ {0}
  PROVE  /\ \A x \in S : \E p \in 1..total_pages(Cardinality(S), size) :
              /\ x \in Page(S, p, size)
              /\ \A q \in Nat \ {0} : x \in Page(S, q, size) => q = p
         /\ \A p \in Nat \ {0} :
              Page(S, p, size) \subseteq S /\ Cardinality(Page(S, p, size)) <= size
<1>1. ASSUME NEW x \in S
      PROVE  \E p \in 1..total_pages(Cardinality(S), size) :
               /\ x \in Page(S, p, size)
               /\ \A q \in Nat \ {0} : x \in Page(S, q, size) => q = p
  <2>1. RankIn(S, x) \in Nat /\ Cardinality(S) \in Nat /\ RankIn(S, x) < Cardinality(S)
    BY RanksDiffer
  <2>2. \A q : x \in Page(S, q, size) <=>
                (q - 1) * size <= RankIn(S, x) /\ RankIn(S, x) < q * size
    BY DEF Page, RankIn
  <2>3. PICK p \in 1..total_pages(Cardinality(S), size) :
          (p - 1) * size <= RankIn(S, x) /\ RankIn(S, x) < p * size
    BY <2>1, OnePagePerRank
  <2>4. p \in Nat \ {0}
    BY <2>1 DEF total_pages
  <2>5. \A q \in Nat \ {0} : x \in Page(S, q, size) => q = p
    BY <2>1, <2>2, <2>3, <2>4, OnePagePerRank
  <2> QED  BY <2>2, <2>3, <2>5
<1>2. ASSUME NEW p \in Nat \ {0}
      PROVE  Page(S, p, size) \subseteq S /\ Cardinality(Page(S, p, size)) <= size
  BY PageFits DEF Page
<1> QED  BY <1>1, <1>2
=============================================================================
