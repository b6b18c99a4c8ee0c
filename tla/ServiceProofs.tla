--------------------------- MODULE ServiceProofs ---------------------------
(***************************************************************************)
(* Theorems about ServiceCatalog and ServiceRequests, for any number of        *)
(* clients, categories, services, orders and logs.                             *)
(***************************************************************************)
EXTENDS ServiceRequests, TLAPS

CatalogOK ==
  /\ category \subseteq Category
  /\ service \in [Service -> [category : category, granted : Grants] \cup {None}]
  /\ \A s \in Service : snaps[s] > 0 => service[s] # None
  /\ \A q \in Orders : service[order[q].service] # None

RequestsOK == pc \in [Client -> Label] /\ req \in [Client -> Request]

RecordsOK ==
  /\ snaps \in [Service -> Nat] /\ order \in [Order -> Row \cup {None}]
  /\ log \in [Log -> LogRow \cup {None}]
  /\ late \subseteq Orders /\ torn \subseteq raced /\ raced \subseteq Orders
  /\ promised \subseteq Service /\ crowded \in BOOLEAN /\ settled \subseteq Logs
  /\ \A l \in Logs : log[l].order \in Orders \cup {None}

\* A row in service_requests that is late and not marked was torn.
Marked(q, row) == q \notin torn => (row.completed = "late" => row.breached)

\* What a copy of an order has in common with the order, if it was never raced.
Fresh(r) ==
  r.id \notin raced =>
    /\ order[r.id].breached => r.row.breached
    /\ order[r.id].recovered => r.row.recovered

\* What a request holds by the time it uses it.
Ready(label, r) ==
  /\ label = "idle" => r.log = None
  /\ label \in {"saveCategory", "dropCategory"} => r.id \in Category
  /\ label \in {"saveService", "dropService", "order"} => r.id \in Service
  /\ label = "saveService" => r.offer \in Offer
  /\ label \in {"look", "snap"} => r.seen \subseteq Snapped \cup r.todo
  /\ label = "snap" => r.id \in r.todo /\ (~crowded => snaps[r.id] = 0)
  /\ label \in {"mark", "saveOrder", "writeOrder"} =>
       /\ r.id \in Orders
       /\ r.log # None => r.log \in Logs /\ log[r.log].order = r.id
  /\ label \in {"saveOrder", "writeOrder"} =>
       /\ r.row \in Row /\ r.row.service = order[r.id].service
       /\ Marked(r.id, r.row)
       /\ r.log # None => r.row.recovered
       /\ Fresh(r)
  /\ label = "writeOrder" => (r.id \notin torn => Updated(r, order[r.id]) = r.row)

Filled == \A c \in Client : Ready(pc[c], req[c])

\* Two calls that overlap have been noticed, as have two copies of an order.
Noticed ==
  /\ ~crowded => \A c, d \in Client : Snapping(c) /\ Snapping(d) => c = d
  /\ \A c, d \in Client :
       Holding(c, req[c].id) /\ Holding(d, req[c].id) => c = d \/ req[c].id \in raced

Promises == OneSnapshotEach /\ PromisesKept /\ LateCompletionFlagged /\ RecoveryRecorded

IInv == CatalogOK /\ RequestsOK /\ RecordsOK /\ Filled /\ Noticed /\ Promises

-----------------------------------------------------------------------------
LEMMA Blank == NoRequest \in Request
BY DEF NoRequest, Request

LEMMA Initially == Init => IInv
<1> SUFFICES ASSUME Init PROVE IInv
  OBVIOUS
<1> USE DEF Init, CatalogInit
<1>1. Orders = {} /\ Logs = {} /\ Snapped = {}
  BY DEF Orders, Logs, Snapped
<1>2. CatalogOK
  BY <1>1 DEF CatalogOK
<1>3. RequestsOK
  BY Blank DEF RequestsOK, Label
<1>4. RecordsOK
  BY <1>1 DEF RecordsOK
<1>5. Filled /\ Noticed
  BY DEF Filled, Ready, Noticed, Holding, Snapping, NoRequest
<1>6. Promises
  BY <1>1 DEF Promises, OneSnapshotEach, PromisesKept, LateCompletionFlagged, RecoveryRecorded
<1> QED BY <1>2, <1>3, <1>4, <1>5, <1>6 DEF IInv

-----------------------------------------------------------------------------
(* Frames *)

\* A request goes on, the others stay where they are.
LEMMA Moved ==
  ASSUME IInv, NEW c \in Client, NEW label \in Label, NEW r \in Request, Keep(c, label, r),
         CatalogOK', UNCHANGED <<snaps, order, late, log, promised, torn, settled>>,
         crowded' \in BOOLEAN, crowded => crowded', raced \subseteq raced', raced' \subseteq Orders,
         Ready(label, r)',
         label \in {"look", "snap"} /\ ~crowded' => \A d \in Client \ {c} : ~Snapping(d),
         label \in {"saveOrder", "writeOrder"} =>
           \A d \in Client \ {c} : Holding(d, r.id) => r.id \in raced'
  PROVE  IInv'
<1>1. /\ pc'[c] = label /\ req'[c] = r
      /\ \A d \in Client \ {c} : pc'[d] = pc[d] /\ req'[d] = req[d]
      /\ pc' \in [Client -> Label] /\ req' \in [Client -> Request]
  BY DEF Keep, IInv, RequestsOK
<1>2. Snapped' = Snapped /\ Orders' = Orders /\ Logs' = Logs
  BY DEF Snapped, Orders, Logs
<1>3. RequestsOK' /\ RecordsOK'
  BY <1>1, <1>2 DEF IInv, RequestsOK, RecordsOK
<1>4. Filled'
  <2> SUFFICES ASSUME NEW d \in Client \ {c} PROVE Ready(pc[d], req[d])'
    BY <1>1 DEF Filled
  <2>1. Ready(pc[d], req[d])
    BY DEF IInv, Filled
  <2>2. pc[d] = "writeOrder" => (req[d].id \notin torn => Updated(req[d], order[req[d].id]) = req[d].row)
    BY <2>1 DEF Ready
  <2>3. Updated(req[d], order[req[d].id])' = Updated(req[d], order[req[d].id])
    BY <1>1 DEF Updated
  <2> QED BY <1>1, <1>2, <2>1, <2>2, <2>3 DEF Ready, Fresh, Marked
<1>5. Noticed'
  <2>1. ~crowded' => \A a, b \in Client : Snapping(a)' /\ Snapping(b)' => a = b
    BY <1>1 DEF IInv, Noticed, Snapping
  <2>2. \A a, b \in Client :
          Holding(a, req[a].id)' /\ Holding(b, req[a].id)' => a = b \/ req'[a].id \in raced'
    BY <1>1 DEF IInv, Noticed, Holding
  <2> QED BY <2>1, <2>2 DEF Noticed
<1>6. Promises'
  BY <1>2 DEF IInv, Promises, OneSnapshotEach, PromisesKept, LateCompletionFlagged, RecoveryRecorded
<1> QED BY <1>3, <1>4, <1>5, <1>6 DEF IInv

\* The same, for steps that need no copy and no snapshot.
LEMMA Stepped ==
  ASSUME IInv, NEW c \in Client, NEW label \in Label \ {"look", "snap", "saveOrder", "writeOrder"},
         NEW r \in Request, Keep(c, label, r), CatalogOK', UNCHANGED <<records, history>>,
         Ready(label, r)
  PROVE  IInv'
<1>1. Ready(label, r)'
  <2>1. Snapped' = Snapped /\ Orders' = Orders /\ Logs' = Logs
    BY DEF Snapped, Orders, Logs, records
  <2> QED BY <2>1 DEF Ready, records, history
<1> QED BY <1>1, Moved DEF records, history, IInv, RecordsOK

LEMMA Ended ==
  ASSUME IInv, NEW c \in Client, End(c), CatalogOK', UNCHANGED <<records, history>>
  PROVE  IInv'
<1>1. Ready("idle", NoRequest) /\ "idle" \in Label
  BY DEF Ready, Label, NoRequest
<1> QED BY <1>1, Blank, Stepped DEF End

LEMMA Stayed ==
  ASSUME IInv, NEW c \in Client, Idle(c), CatalogOK', UNCHANGED <<records, history>>
  PROVE  IInv'
<1>1. Ready("idle", req[c]) /\ "idle" \in Label /\ req[c] \in Request
  BY DEF Ready, Label, IInv, RequestsOK, Filled, Idle
<1>2. Keep(c, "idle", req[c])
  BY DEF Idle, Keep, IInv, RequestsOK
<1> QED BY <1>1, <1>2, Stepped

-----------------------------------------------------------------------------
(* The catalogue *)

\* What a service keeps when categories and services change.
LEMMA CatalogSteps ==
  ASSUME IInv, NEW c \in Client, EditCatalog(c)
  PROVE  IInv'
<1> DEFINE r == req[c]
<1>1. UNCHANGED <<records, history>> /\ CatalogStep(c, Used)
  BY DEF EditCatalog
<1>2. Ready(pc[c], r)
  BY DEF IInv, Filled
<1>3. CASE createCategory(c)
  <2>1. CatalogOK'
    BY <1>1, <1>3 DEF createCategory, IInv, CatalogOK, records, Orders
  <2> QED BY <1>1, <1>3, <2>1, Stayed DEF createCategory
<1>4. CASE FindCategory(c)
  <2>1. PICK k \in category, label \in {"saveCategory", "dropCategory"} :
          Keep(c, label, [NoRequest EXCEPT !.id = k, !.seen = Services(k)])
    BY <1>4 DEF FindCategory, Begin
  <2> DEFINE found == Services(k)  s == [NoRequest EXCEPT !.id = k, !.seen = found]
  <2>2. k \in Category /\ found \subseteq Service /\ label \in Label \ {"look", "snap", "saveOrder", "writeOrder"}
    BY DEF Services, IInv, CatalogOK, Label
  <2> HIDE DEF found
  <2>3. s \in Request /\ s.id = k
    BY <2>2, Blank DEF Request, Id, NoRequest
  <2>4. Ready(label, s)
    BY <2>2, <2>3 DEF Ready
  <2>5. CatalogOK'
    BY <1>1, <1>4 DEF FindCategory, IInv, CatalogOK, records, catalog, Orders
  <2> HIDE DEF s
  <2> QED BY <1>1, <2>1, <2>2, <2>3, <2>4, <2>5, Stepped DEF s, found
<1>5. CASE updateCategory(c)
  <2>1. category' \in {category, category \cup {r.id}} /\ service' = service /\ r.id \in Category
    BY <1>2, <1>5 DEF updateCategory, SavedServices, Ready
  <2>2. CatalogOK'
    BY <1>1, <2>1 DEF IInv, CatalogOK, records, Orders
  <2> QED BY <1>1, <1>5, <2>2, Ended DEF updateCategory
<1>6. CASE deleteCategory(c)
  <2>1. CatalogOK'
    BY <1>1, <1>6 DEF deleteCategory, Services, IInv, CatalogOK, records, Orders
  <2> QED BY <1>1, <1>6, <2>1, Ended DEF deleteCategory
<1>7. CASE createRoomService(c)
  <2>1. PICK s \in Service, k \in category, g \in Grants :
          service' = [service EXCEPT ![s] = [category |-> k, granted |-> g]] /\ service[s] = None
    BY <1>7 DEF createRoomService
  <2>2. [category |-> k, granted |-> g] \in Offer
    BY DEF Offer, IInv, CatalogOK
  <2>3. CatalogOK'
    BY <1>1, <1>7, <2>1, <2>2, RecordConstants DEF createRoomService, IInv, CatalogOK, records, Orders
  <2> QED BY <1>1, <1>7, <2>3, Stayed DEF createRoomService
<1>8. CASE EditService(c)
  <2>1. PICK s \in Service, g \in Grants :
          /\ service[s] # None
          /\ Keep(c, "saveService",
               [NoRequest EXCEPT !.id = s, !.offer = [service[s] EXCEPT !.granted = g]])
    BY <1>8 DEF EditService, Begin
  <2> DEFINE o == [service[s] EXCEPT !.granted = g]
             t == [NoRequest EXCEPT !.id = s, !.offer = o]
  <2>2. o \in Offer
    BY <2>1 DEF Offer, IInv, CatalogOK
  <2> HIDE DEF o
  <2>3. t \in Request /\ t.id = s /\ t.offer = o
    BY <2>2, Blank DEF Request, Id, NoRequest
  <2>4. Ready("saveService", t) /\ "saveService" \in Label
    BY <2>2, <2>3 DEF Ready, Label
  <2>5. CatalogOK'
    BY <1>1, <1>8 DEF EditService, IInv, CatalogOK, records, catalog, Orders
  <2> HIDE DEF t
  <2> QED BY <1>1, <2>1, <2>3, <2>4, <2>5, Stepped DEF o, t
<1>9. CASE updateRoomService(c)
  <2>1. r.offer \in Offer /\ r.id \in Service
    BY <1>2, <1>9 DEF updateRoomService, Ready
  <2>2. r.offer.category \in category => r.offer \in [category : category, granted : Grants]
    BY <2>1 DEF Offer
  <2>3. CatalogOK'
    BY <1>1, <1>9, <2>1, <2>2, RecordConstants DEF updateRoomService, IInv, CatalogOK, records, Orders
  <2> QED BY <1>1, <1>9, <2>3, Ended DEF updateRoomService
<1>10. CASE FindService(c)
  <2>1. PICK s \in Service : Keep(c, "dropService", [NoRequest EXCEPT !.id = s])
    BY <1>10 DEF FindService, Begin
  <2> DEFINE t == [NoRequest EXCEPT !.id = s]
  <2>2. t \in Request /\ t.id = s
    BY DEF NoRequest, Request, Id
  <2> HIDE DEF t
  <2>3. Ready("dropService", t) /\ "dropService" \in Label
    BY <2>2 DEF Ready, Label
  <2>4. CatalogOK'
    BY <1>1, <1>10 DEF FindService, IInv, CatalogOK, records, catalog, Orders
  <2> QED BY <1>1, <2>1, <2>2, <2>3, <2>4, Stepped DEF t
<1>11. CASE deleteRoomService(c, Used)
  <2>1. CatalogOK'
    BY <1>1, <1>2, <1>11 DEF deleteRoomService, Ready, Used, Snapped, IInv, CatalogOK, records, Orders
  <2> QED BY <1>1, <1>11, <2>1, Ended DEF deleteRoomService
<1> QED BY <1>1, <1>3, <1>4, <1>5, <1>6, <1>7, <1>8, <1>9, <1>10, <1>11 DEF CatalogStep

-----------------------------------------------------------------------------
(* Snapshots *)

\* The loop goes on after a service that has a snapshot, new or not.
LEMMA Treated ==
  ASSUME IInv, NEW c \in Client, Snapping(c), NEW s \in req[c].todo, NextService(c, req[c].todo \ {s}),
         UNCHANGED <<catalog, order, late, log, crowded, raced, torn, settled>>,
         \/ UNCHANGED snaps /\ s \in Snapped
         \/ /\ snaps' = [snaps EXCEPT ![s] = @ + 1]
            /\ pc[c] = "snap" /\ req[c].id = s /\ service[s] # None
  PROVE  IInv'
<1> DEFINE r == req[c]  todo == r.todo \ {s}
<1>1. /\ r \in Request /\ s \in Service /\ r.todo \subseteq Service /\ todo \subseteq Service
      /\ r.seen \subseteq Service /\ r.seen \subseteq Snapped \cup r.todo
      /\ (pc[c] = "snap" /\ ~crowded) => snaps[r.id] = 0
  BY DEF IInv, RequestsOK, Request, Filled, Ready, Snapping
<1>2. /\ snaps' \in [Service -> Nat] /\ Snapped \subseteq Snapped' /\ s \in Snapped'
      /\ \A x \in Service : snaps'[x] > 0 => snaps[x] > 0 \/ service[x] # None
      /\ OneSnapshotEach'
  BY <1>1 DEF IInv, RecordsOK, Snapped, Promises, OneSnapshotEach
<1>3. r.seen \subseteq Snapped' \cup todo
  BY <1>1, <1>2
<1>4. Orders' = Orders /\ Logs' = Logs
  BY DEF Orders, Logs
<1>5. \E label \in {"idle", "look"}, t \in Request :
        /\ Keep(c, label, t) /\ Ready(label, t)'
        /\ promised' = promised \/ (promised' = promised \cup r.seen /\ r.seen \subseteq Snapped')
  <2>1. CASE todo = {}
    <3>1. Keep(c, "idle", NoRequest) /\ promised' = promised \cup r.seen
      BY <2>1 DEF NextService, End
    <3>2. Ready("idle", NoRequest)'
      BY DEF Ready, NoRequest
    <3> QED BY <1>3, <2>1, <3>1, <3>2, Blank
  <2>2. CASE todo # {}
    \* Constants, which a prime leaves alone.
    <3>1. PICK rest : rest = todo
      OBVIOUS
    <3>2. PICK t : t = [r EXCEPT !.id = None, !.todo = rest]
      OBVIOUS
    <3>3. t \in Request /\ t.seen = r.seen /\ t.todo = todo
      BY <1>1, <3>1, <3>2 DEF Request
    <3>4. Keep(c, "look", t) /\ promised' = promised
      BY <2>2, <3>1, <3>2 DEF NextService
    <3>5. t.seen \subseteq Snapped' \cup t.todo
      BY <1>3, <3>3
    <3>6. Ready("look", t)'
      BY <3>5 DEF Ready
    <3> QED BY <3>3, <3>4, <3>6
  <2> QED BY <2>1, <2>2
<1>6. PICK label \in {"idle", "look"}, t \in Request :
        /\ Keep(c, label, t) /\ Ready(label, t)'
        /\ promised' = promised \/ (promised' = promised \cup r.seen /\ r.seen \subseteq Snapped')
  BY <1>5
<1>7. /\ pc'[c] = label /\ req'[c] = t
      /\ \A d \in Client \ {c} : pc'[d] = pc[d] /\ req'[d] = req[d]
      /\ pc' \in [Client -> Label] /\ req' \in [Client -> Request]
  BY <1>6 DEF Keep, IInv, RequestsOK, Label
<1>8. CatalogOK'
  BY <1>2, <1>4 DEF IInv, CatalogOK, catalog
<1>9. RequestsOK' /\ RecordsOK'
  BY <1>1, <1>2, <1>4, <1>6, <1>7 DEF IInv, RequestsOK, RecordsOK
<1>10. Filled'
  <2> SUFFICES ASSUME NEW d \in Client \ {c} PROVE Ready(pc[d], req[d])'
    BY <1>6, <1>7 DEF Filled
  <2>1. Ready(pc[d], req[d])
    BY DEF IInv, Filled
  <2>2. pc[d] = "snap" => crowded
    BY DEF IInv, Noticed, Snapping
  <2>3. pc[d] = "writeOrder" => (req[d].id \notin torn => Updated(req[d], order[req[d].id]) = req[d].row)
    BY <2>1 DEF Ready
  <2>4. Updated(req[d], order[req[d].id])' = Updated(req[d], order[req[d].id])
    BY <1>7 DEF Updated
  <2> QED BY <1>2, <1>4, <1>7, <2>1, <2>2, <2>3, <2>4 DEF Ready, Fresh, Marked
<1>11. Noticed'
  <2>1. ~crowded' => \A a, b \in Client : Snapping(a)' /\ Snapping(b)' => a = b
    BY <1>7 DEF IInv, Noticed, Snapping
  <2>2. \A a, b \in Client :
          Holding(a, req[a].id)' /\ Holding(b, req[a].id)' => a = b \/ req'[a].id \in raced'
    BY <1>7 DEF IInv, Noticed, Holding
  <2> QED BY <2>1, <2>2 DEF Noticed
<1>12. Promises'
  BY <1>2, <1>4, <1>6 DEF IInv, Promises, PromisesKept, LateCompletionFlagged, RecoveryRecorded
<1> QED BY <1>8, <1>9, <1>10, <1>11, <1>12 DEF IInv

LEMMA SnapshotSteps ==
  ASSUME IInv, NEW c \in Client, QueryServices(c) \/ LookForSnapshot(c) \/ InsertSnapshot(c)
  PROVE  IInv'
<1> DEFINE r == req[c]
<1>1. CASE QueryServices(c)
  <2>1. PICK found \in SUBSET Service :
          Keep(c, "look", [NoRequest EXCEPT !.seen = found, !.todo = found])
    BY <1>1 DEF QueryServices, Begin
  <2> DEFINE t == [NoRequest EXCEPT !.seen = found, !.todo = found]
  <2>2. t \in Request /\ t.seen = found /\ t.todo = found
    BY Blank DEF NoRequest, Request
  <2> HIDE DEF t
  <2>3. Ready("look", t)' /\ "look" \in Label
    BY <2>2 DEF Ready, Label
  <2>4. /\ CatalogOK' /\ crowded' \in BOOLEAN /\ (crowded => crowded')
        /\ (~crowded' => \A d \in Client : ~Snapping(d))
        /\ UNCHANGED <<snaps, order, late, log, promised, raced, torn, settled>>
    BY <1>1 DEF QueryServices, IInv, CatalogOK, RecordsOK, catalog, records, Orders
  <2> QED BY <2>1, <2>2, <2>3, <2>4, Moved DEF t, IInv, RecordsOK
<1>2. CASE LookForSnapshot(c)
  <2>1. PICK s \in r.todo :
          \/ HasSnapshot(s) /\ NextService(c, r.todo \ {s})
          \/ /\ ~HasSnapshot(s)
             /\ Keep(c, "snap", [r EXCEPT !.id = s])
             /\ UNCHANGED promised
    BY <1>2 DEF LookForSnapshot
  <2>2. CASE HasSnapshot(s) /\ NextService(c, r.todo \ {s})
    BY <1>2, <2>2, Treated DEF LookForSnapshot, HasSnapshot, Snapping, records
  <2>3. CASE ~HasSnapshot(s) /\ Keep(c, "snap", [r EXCEPT !.id = s]) /\ UNCHANGED promised
    <3> PICK t : t = [r EXCEPT !.id = s]
      OBVIOUS
    <3>1. r \in Request /\ s \in Service /\ r.seen \subseteq Snapped \cup r.todo
      BY <1>2 DEF LookForSnapshot, IInv, RequestsOK, Request, Filled, Ready
    <3>2. t \in Request /\ t.id = s /\ t.seen = r.seen /\ t.todo = r.todo
      BY <3>1 DEF Request, Id
    <3>3. snaps[s] = 0 /\ s \in r.todo
      BY <2>3, <3>1 DEF HasSnapshot, Snapped, IInv, RecordsOK
    <3>4. UNCHANGED <<catalog, records, crowded, raced, torn, settled, promised>> /\ Snapped' = Snapped
      BY <1>2, <2>3 DEF LookForSnapshot, records, Snapped
    <3>5. Ready("snap", t)' /\ "snap" \in Label
      BY <3>1, <3>2, <3>3, <3>4 DEF Ready, Label, records
    <3>6. CatalogOK'
      BY <3>4 DEF IInv, CatalogOK, records, catalog, Orders
    <3>7. ~crowded => \A d \in Client \ {c} : ~Snapping(d)
      BY <1>2 DEF LookForSnapshot, IInv, Noticed, Snapping
    <3> QED BY <2>3, <3>2, <3>4, <3>5, <3>6, <3>7, Moved DEF IInv, RecordsOK, records
  <2> QED BY <2>1, <2>2, <2>3
<1>3. CASE InsertSnapshot(c)
  <2>1. pc[c] = "snap" /\ r.id \in r.todo
    BY <1>3 DEF InsertSnapshot, IInv, Filled, Ready
  <2>2. CASE service[r.id] # None
    BY <1>3, <2>1, <2>2, Treated DEF InsertSnapshot, Snapping
  <2>3. CASE service[r.id] = None
    <3>1. End(c) /\ UNCHANGED <<catalog, records, history>>
      BY <1>3, <2>3 DEF InsertSnapshot, records, history
    <3>2. CatalogOK'
      BY <3>1 DEF IInv, CatalogOK, records, catalog, Orders
    <3> QED BY <3>1, <3>2, Ended
  <2> QED BY <2>2, <2>3
<1> QED BY <1>1, <1>2, <1>3

-----------------------------------------------------------------------------
(* Orders and logs *)

\* A step that writes an order or a log, and what it must leave of them.
LEMMA Recorded ==
  ASSUME IInv, NEW c \in Client,
         NEW label \in Label \ {"look", "snap", "saveOrder", "writeOrder"},
         NEW r \in Request, Keep(c, label, r), Ready(label, r)',
         UNCHANGED <<catalog, snaps, promised, crowded, raced>>, torn \subseteq torn',
         RecordsOK', Orders \subseteq Orders', Logs \subseteq Logs',
         \A q \in Orders :
           /\ order'[q].service = order[q].service
           /\ q \in raced \/ order'[q] = order[q] \/ \A d \in Client \ {c} : ~Holding(d, q)
           /\ \/ order'[q] = order[q] \/ q \in torn'
              \/ \A d \in Client \ {c} : ~(pc[d] = "writeOrder" /\ req[d].id = q),
         \A q \in Orders' \ Orders : service[order'[q].service] # None,
         \A l \in Logs : log'[l].order = log[l].order,
         LateCompletionFlagged', RecoveryRecorded'
  PROVE  IInv'
<1>1. /\ pc'[c] = label /\ req'[c] = r
      /\ \A d \in Client \ {c} : pc'[d] = pc[d] /\ req'[d] = req[d]
      /\ pc' \in [Client -> Label] /\ req' \in [Client -> Request]
  BY DEF Keep, IInv, RequestsOK
<1>2. CatalogOK'
  BY DEF IInv, CatalogOK, catalog
<1>3. RequestsOK'
  BY <1>1 DEF RequestsOK
<1>4. Filled'
  <2> SUFFICES ASSUME NEW d \in Client \ {c} PROVE Ready(pc[d], req[d])'
    BY <1>1 DEF Filled
  <2> DEFINE s == req[d]
  <2>1. Ready(pc[d], s)
    BY DEF IInv, Filled
  <2>2. Snapped' = Snapped
    BY DEF Snapped
  <2>3. pc[d] \in {"saveOrder", "writeOrder"} => Holding(d, s.id) /\ s.id \in Orders
    BY <2>1 DEF Ready, Holding
  <2>4. pc[d] \in {"saveOrder", "writeOrder"} => Fresh(s)' /\ Marked(s.id, s.row)'
    BY <1>1, <2>1, <2>3 DEF Ready, Fresh, Marked
  <2>5. pc[d] = "writeOrder" => (s.id \notin torn' => Updated(s, order'[s.id]) = s.row)
    BY <2>1, <2>3 DEF Ready
  <2>6. \A x, y : (x = y) => Updated(s, x) = Updated(s, y)
    OBVIOUS
  <2>7. Updated(s, order[s.id])' = Updated(s, order'[s.id])
    BY <1>1 DEF Updated
  <2> QED BY <1>1, <2>1, <2>2, <2>3, <2>4, <2>5, <2>7 DEF Ready
<1>5. Noticed'
  <2>1. ~crowded' => \A a, b \in Client : Snapping(a)' /\ Snapping(b)' => a = b
    BY <1>1 DEF IInv, Noticed, Snapping
  <2>2. \A a, b \in Client :
          Holding(a, req[a].id)' /\ Holding(b, req[a].id)' => a = b \/ req'[a].id \in raced'
    BY <1>1 DEF IInv, Noticed, Holding
  <2> QED BY <2>1, <2>2 DEF Noticed
<1>6. Promises'
  BY DEF IInv, Promises, OneSnapshotEach, PromisesKept, Snapped
<1> QED BY <1>2, <1>3, <1>4, <1>5, <1>6 DEF IInv

\* A request takes a copy of an order to change it.
LEMMA Copied ==
  ASSUME IInv, NEW c \in Client, pc[c] \in {"idle", "mark"}, NEW q \in Orders, NEW row \in Row,
         Hold(c, q, row),
         req[c].log # None => req[c].log \in Logs /\ log[req[c].log].order = q /\ row.recovered,
         row.service = order[q].service, Marked(q, row),
         order[q].breached => row.breached, order[q].recovered => row.recovered
  PROVE  IInv'
<1>1. PICK t : t = [req[c] EXCEPT !.id = q, !.row = row]
  OBVIOUS
<1>2. q \in Id
  BY DEF Orders, Id
<1>3. t \in Request /\ t.id = q /\ t.row = row /\ t.log = req[c].log
  BY <1>1, <1>2 DEF IInv, RequestsOK, Request
<1>4. UNCHANGED <<catalog, records, promised, crowded, torn, settled>> /\ Keep(c, "saveOrder", t)
  BY <1>1 DEF Hold
<1>5. Orders' = Orders /\ Logs' = Logs
  BY <1>4 DEF Orders, Logs, records
<1>6. CatalogOK'
  BY <1>4, <1>5 DEF IInv, CatalogOK, records, catalog
<1>7. Ready("saveOrder", t)' /\ "saveOrder" \in Label
  BY <1>3, <1>4, <1>5 DEF Ready, Fresh, Marked, Label, records
<1>8. /\ raced \subseteq raced' /\ raced' \subseteq Orders
      /\ \A d \in Client \ {c} : Holding(d, t.id) => t.id \in raced'
  BY <1>3 DEF Hold, IInv, RecordsOK
<1> QED BY <1>3, <1>4, <1>6, <1>7, <1>8, Moved DEF IInv, RecordsOK, records

LEMMA Changing ==
  ASSUME IInv, NEW c \in Client, PutOrder(c) \/ MoveOrder(c) \/ MarkFailed(c)
  PROVE  IInv'
<1>1. \A q \in Orders : order[q] \in Row /\ Marked(q, order[q])
  BY DEF Orders, IInv, RecordsOK, Promises, LateCompletionFlagged, Marked
<1>2. CASE PutOrder(c)
  <2>1. PICK q \in Orders, s \in Targets, given \in SUBSET Field :
          Hold(c, q, [order[q] EXCEPT
            !.status = IF "status" \in given THEN s ELSE @,
            !.completed = IF "completedAt" \in given THEN "yes" ELSE @,
            !.recovered = GivenOrKept(order[q], given)])
    BY <1>2 DEF PutOrder
  <2> DEFINE status == IF "status" \in given THEN s ELSE order[q].status
             completed == IF "completedAt" \in given THEN "yes" ELSE order[q].completed
             recovered == GivenOrKept(order[q], given)
             row == [order[q] EXCEPT !.status = status, !.completed = completed,
                                     !.recovered = recovered]
  <2>2. /\ status \in Status /\ recovered \in BOOLEAN /\ (order[q].recovered => recovered)
        /\ completed \in {"no", "yes", "late"}
        /\ (completed = "late" => order[q].completed = "late")
    BY <1>1, CatalogConstants DEF GivenOrKept, Row
  <2> HIDE DEF status, completed, recovered
  <2>3. /\ row \in Row /\ row.service = order[q].service /\ row.breached = order[q].breached
        /\ row.completed = completed /\ row.recovered = recovered
    BY <1>1, <2>2 DEF Row
  <2>4. req[c].log = None /\ pc[c] = "idle"
    BY <1>2 DEF PutOrder, IInv, Filled, Ready
  <2>5. Hold(c, q, row)
    BY <2>1 DEF status, completed, recovered
  <2> HIDE DEF row
  <2> QED BY <1>1, <2>2, <2>3, <2>4, <2>5, Copied DEF Marked
<1>3. CASE MoveOrder(c)
  <2>1. PICK q \in Orders, s \in Targets :
          Hold(c, q, [order[q] EXCEPT
            !.status = s,
            !.breached = Breached(q, s, @),
            !.completed = IF s # "COMPLETED" THEN @
                          ELSE IF q \in late THEN "late" ELSE "yes"])
    BY <1>3 DEF MoveOrder
  <2> DEFINE breached == Breached(q, s, order[q].breached)
             completed == IF s # "COMPLETED" THEN order[q].completed
                          ELSE IF q \in late THEN "late" ELSE "yes"
             row == [order[q] EXCEPT !.status = s, !.breached = breached, !.completed = completed]
  <2>2. /\ s \in Status /\ breached \in BOOLEAN /\ (order[q].breached => breached)
        /\ completed \in {"no", "yes", "late"}
        /\ (q \notin torn => (completed = "late" => breached))
    BY <1>1, CatalogConstants DEF Breached, Row, Marked
  <2> HIDE DEF breached, completed
  <2>3. /\ row \in Row /\ row.service = order[q].service /\ row.breached = breached
        /\ row.completed = completed /\ row.recovered = order[q].recovered
    BY <1>1, <2>2 DEF Row
  <2>4. req[c].log = None /\ pc[c] = "idle"
    BY <1>3 DEF MoveOrder, IInv, Filled, Ready
  <2>5. Hold(c, q, row)
    BY <2>1 DEF breached, completed
  <2> HIDE DEF row
  <2> QED BY <1>1, <2>2, <2>3, <2>4, <2>5, Copied DEF Marked
<1>4. CASE MarkFailed(c)
  <2> DEFINE q == req[c].id  row == [order[q] EXCEPT !.status = "FAILED", !.recovered = TRUE]
  <2>1. /\ pc[c] = "mark" /\ Hold(c, q, row) /\ q \in Orders
        /\ (req[c].log # None => req[c].log \in Logs /\ log[req[c].log].order = q)
    BY <1>4 DEF MarkFailed, IInv, Filled, Ready
  <2>2. /\ row \in Row /\ row.service = order[q].service /\ row.breached = order[q].breached
        /\ row.completed = order[q].completed /\ row.recovered = TRUE
    BY <1>1, <2>1 DEF Row, Status
  <2> HIDE DEF row
  <2> QED BY <1>1, <2>1, <2>2, Copied DEF Marked
<1> QED BY <1>2, <1>3, <1>4

LEMMA Ordering ==
  ASSUME IInv, NEW c \in Client, FindOffer(c) \/ createServiceRequest(c)
  PROVE  IInv'
<1>1. CASE FindOffer(c)
  <2>1. PICK s \in Service : Keep(c, "order", [NoRequest EXCEPT !.id = s])
    BY <1>1 DEF FindOffer, Begin
  <2> DEFINE t == [NoRequest EXCEPT !.id = s]
  <2>2. t \in Request /\ t.id = s
    BY DEF NoRequest, Request, Id
  <2> HIDE DEF t
  <2>3. Ready("order", t) /\ "order" \in Label
    BY <2>2 DEF Ready, Label
  <2>4. CatalogOK'
    BY <1>1 DEF FindOffer, IInv, CatalogOK, records, catalog, Orders
  <2> QED BY <1>1, <2>1, <2>2, <2>3, <2>4, Stepped DEF t, FindOffer
<1>2. CASE createServiceRequest(c)
  <2> DEFINE s == req[c].id
             row == [service |-> s, status |-> "PENDING", breached |-> FALSE,
                     completed |-> "no", recovered |-> FALSE]
  <2>1. /\ s \in Service /\ End(c) /\ UNCHANGED <<catalog, snaps, late, log, history>>
    BY <1>2 DEF createServiceRequest, IInv, Filled, Ready
  <2>2. CASE UNCHANGED order
    <3>1. CatalogOK' /\ UNCHANGED records
      BY <2>1, <2>2 DEF IInv, CatalogOK, records, catalog, Orders
    <3> QED BY <2>1, <3>1, Ended
  <2>3. CASE service[s] # None /\ \E q \in Order \ Orders : order' = [order EXCEPT ![q] = row]
    <3>1. PICK q \in Order \ Orders : order' = [order EXCEPT ![q] = row]
      BY <2>3
    <3>2. row \in Row /\ row # None /\ row.service = s /\ row.completed = "no"
      <4>1. "PENDING" \in Status
        BY DEF Status
      <4>2. row \in Row
        BY <2>1, <4>1 DEF Row
      <4>3. row # None
        BY <4>2, RecordConstants
      <4> QED BY <4>2, <4>3
    <3> HIDE DEF row
    <3>3. /\ Orders' = Orders \cup {q} /\ Logs' = Logs /\ order' \in [Order -> Row \cup {None}]
          /\ order'[q] = row /\ \A x \in Orders : order'[x] = order[x]
      <4>1. order \in [Order -> Row \cup {None}]
        BY DEF IInv, RecordsOK
      <4>2. /\ order' \in [Order -> Row \cup {None}] /\ order'[q] = row
            /\ \A x \in Order \ {q} : order'[x] = order[x]
        BY <3>1, <3>2, <4>1
      <4> QED BY <2>1, <3>2, <4>2 DEF Orders, Logs
    <3>4. RecordsOK'
      BY <2>1, <3>3 DEF IInv, RecordsOK, history
    <3>5. LateCompletionFlagged'
      BY <2>1, <3>2, <3>3 DEF history, IInv, Promises, LateCompletionFlagged
    <3>6. RecoveryRecorded'
      BY <2>1, <3>3 DEF IInv, Promises, RecoveryRecorded, RecordsOK, history
    <3>7. Ready("idle", NoRequest)' /\ "idle" \in Label
      BY DEF Ready, NoRequest, Label
    <3> QED BY <2>1, <2>3, <3>2, <3>3, <3>4, <3>5, <3>6, <3>7, Blank, Recorded DEF End, history
  <2> QED BY <1>2, <2>2, <2>3 DEF createServiceRequest
<1> QED BY <1>1, <1>2

\* What save() writes: a row, and the copy itself unless another save() came between.
LEMMA Writing ==
  ASSUME NEW r \in Request, r.row \in Row, NEW now \in Row, r.row.service = now.service
  PROVE  /\ Updated(r, now) \in Row /\ Updated(r, now).service = now.service
         /\ {x \in Column : r.row[x] # now[x]} \subseteq r.dirty => Updated(r, now) = r.row
<1> DEFINE new == Updated(r, now)
<1>1. new \in Row /\ new.service = now.service
  BY DEF Updated, Row
<1>2. ASSUME {x \in Column : r.row[x] # now[x]} \subseteq r.dirty PROVE new = r.row
  <2>1. /\ "status" \notin r.dirty => r.row.status = now.status
        /\ "breached" \notin r.dirty => r.row.breached = now.breached
        /\ "completed" \notin r.dirty => r.row.completed = now.completed
        /\ "recovered" \notin r.dirty => r.row.recovered = now.recovered
    BY <1>2 DEF Column, Row
  <2>2. /\ new.status = r.row.status /\ new.breached = r.row.breached
        /\ new.completed = r.row.completed /\ new.recovered = r.row.recovered
    BY <2>1 DEF Updated, Row
  <2> HIDE DEF new
  <2> QED BY <1>1, <2>2 DEF Row
<1> QED BY <1>1, <1>2

LEMMA Loading ==
  ASSUME IInv, NEW c \in Client, LoadOrder(c)
  PROVE  IInv'
<1>1. PICK r : r = req[c]
  OBVIOUS
<1> DEFINE differing == {x \in Column : r.row[x] # order[r.id][x]}
<1>2. PICK d \in SUBSET Column : Keep(c, "writeOrder", [r EXCEPT !.dirty = d]) /\ differing \subseteq d
  <2>1. PICK more \in SUBSET Vague(r.row) : Keep(c, "writeOrder", [r EXCEPT !.dirty = differing \cup more])
    BY <1>1 DEF LoadOrder
  <2>2. Vague(r.row) \subseteq Column
    BY DEF Vague, Column
  <2>3. differing \cup more \in SUBSET Column
    BY <2>2
  <2> HIDE DEF differing
  <2> QED BY <2>1, <2>3
<1>3. PICK t : t = [r EXCEPT !.dirty = d]
  OBVIOUS
<1>4. /\ UNCHANGED <<catalog, records, history>> /\ Ready("saveOrder", r) /\ pc[c] = "saveOrder"
      /\ r \in Request
  BY <1>1 DEF LoadOrder, IInv, Filled, RequestsOK
<1>5. t \in Request /\ t.id = r.id /\ t.row = r.row /\ t.log = r.log /\ t.dirty = d
  BY <1>3, <1>4 DEF Request
<1>6. Orders' = Orders /\ Logs' = Logs
  BY <1>4 DEF Orders, Logs, records
<1>7. CatalogOK'
  BY <1>4, <1>6 DEF IInv, CatalogOK, records, catalog
<1>8. r.id \in Orders /\ order[r.id] \in Row /\ r.row \in Row /\ r.row.service = order[r.id].service
  BY <1>4 DEF Ready, Orders, IInv, RecordsOK
<1>9. Updated(t, order[r.id]) = t.row
  BY <1>2, <1>5, <1>8, Writing
<1>10. Updated(t, order'[r.id]) = t.row
  BY <1>4, <1>9 DEF records
<1>11. Ready("writeOrder", t)' /\ "writeOrder" \in Label
  BY <1>4, <1>5, <1>6, <1>10 DEF Ready, Fresh, Marked, Label, records, history
<1>12. \A e \in Client \ {c} : Holding(e, r.id) => r.id \in raced
  BY <1>1, <1>4 DEF Holding, IInv, Noticed
<1>13. Keep(c, "writeOrder", t) /\ raced \subseteq Orders /\ crowded \in BOOLEAN
  BY <1>2, <1>3 DEF IInv, RecordsOK
<1> HIDE DEF differing
<1> QED BY <1>4, <1>5, <1>7, <1>11, <1>12, <1>13, Moved DEF records, history

LEMMA Saving ==
  ASSUME IInv, NEW c \in Client, WriteOrder(c)
  PROVE  IInv'
<1>1. PICK r : r = req[c]
  OBVIOUS
<1>2. PICK q : q = r.id
  OBVIOUS
<1>3. PICK new : new = Updated(r, order[q])
  OBVIOUS
<1>4. /\ Ready("writeOrder", r) /\ pc[c] = "writeOrder" /\ r \in Request
      /\ Keep(c, "idle", NoRequest)
      /\ order' = [order EXCEPT ![q] = new] /\ settled' = settled \cup {l \in Log : r.log = l}
      /\ torn' = IF /\ order'[q] # order[q]
                    /\ \E d \in Client \ {c} : pc[d] = "writeOrder" /\ req[d].id = q
                 THEN torn \cup {q} ELSE torn
      /\ UNCHANGED <<catalog, snaps, late, log, promised, crowded, raced>>
  BY <1>1, <1>2, <1>3 DEF WriteOrder, End, IInv, Filled, RequestsOK
<1>5. /\ q \in Orders /\ q \in Order /\ order[q] \in Row /\ r.row \in Row
      /\ r.row.service = order[q].service
      /\ (r.log # None => r.row.recovered /\ r.log \in Logs /\ log[r.log].order = q)
      /\ (q \notin raced => (order[q].recovered => r.row.recovered))
      /\ (q \notin torn => (r.row.completed = "late" => r.row.breached))
      /\ (q \notin torn => new = r.row)
  BY <1>2, <1>3, <1>4 DEF Ready, Fresh, Marked, Orders, IInv, RecordsOK
<1>6. new \in Row /\ new # None /\ new.service = order[q].service
  BY <1>3, <1>4, <1>5, Writing, RecordConstants
<1>7. /\ Orders' = Orders /\ Logs' = Logs /\ order' \in [Order -> Row \cup {None}]
      /\ order'[q] = new /\ \A x \in Orders \ {q} : order'[x] = order[x]
  BY <1>4, <1>5, <1>6 DEF Orders, Logs, IInv, RecordsOK
<1>8. q \in raced \/ \A d \in Client \ {c} : ~Holding(d, q)
  BY <1>1, <1>2, <1>4 DEF Holding, IInv, Noticed
<1>9. /\ torn \subseteq torn' /\ torn' \subseteq raced
      /\ \/ order'[q] = order[q] \/ q \in torn'
         \/ \A d \in Client \ {c} : ~(pc[d] = "writeOrder" /\ req[d].id = q)
  BY <1>4, <1>8 DEF Holding, IInv, RecordsOK
<1>10. RecordsOK'
  <2>1. settled' \subseteq Logs
    BY <1>4, <1>5, CatalogConstants DEF IInv, RecordsOK, Id
  <2> QED BY <1>4, <1>7, <1>9, <2>1 DEF IInv, RecordsOK
<1>11. LateCompletionFlagged'
  BY <1>5, <1>7, <1>9 DEF IInv, Promises, LateCompletionFlagged
<1>12. q \notin raced => new = r.row
  BY <1>5 DEF IInv, RecordsOK
<1>13. RecoveryRecorded'
  <2> SUFFICES ASSUME NEW l \in settled', log[l].order \notin raced \cup {None}
               PROVE  order'[log[l].order].recovered
    BY <1>4 DEF RecoveryRecorded
  <2>1. CASE l \in settled
    <3>1. l \in Logs /\ order[log[l].order].recovered
      BY <2>1 DEF IInv, Promises, RecoveryRecorded, RecordsOK
    <3>2. log[l].order \in Orders
      BY <3>1 DEF IInv, RecordsOK
    <3> QED BY <1>5, <1>7, <1>12, <3>1, <3>2
  <2>2. CASE l \notin settled
    <3>1. l \in Log /\ l = r.log
      BY <1>4, <2>2
    <3>2. r.log # None
      BY <3>1, CatalogConstants DEF Id
    <3> QED BY <1>5, <1>7, <1>12, <3>1, <3>2
  <2> QED BY <2>1, <2>2
<1>14. Ready("idle", NoRequest)' /\ "idle" \in Label
  BY DEF Ready, NoRequest, Label
<1>15. \A x \in Orders : order'[x].service = order[x].service
  BY <1>6, <1>7
<1> QED BY <1>4, <1>5, <1>7, <1>8, <1>9, <1>10, <1>11, <1>13, <1>14, <1>15, Blank, Recorded

LEMMA Logging ==
  ASSUME IInv, NEW c \in Client, InsertLog(c) \/ approveRecoveryLog(c)
  PROVE  IInv'
<1>1. /\ req[c] \in Request /\ "idle" \in Label /\ "mark" \in Label
      /\ (pc[c] = "idle" => req[c].log = None)
      /\ (Idle(c) => Keep(c, "idle", req[c]))
  BY DEF IInv, RequestsOK, Label, Filled, Ready, Idle, Keep
<1>2. \A r : r.log = None => Ready("idle", r)'
  BY DEF Ready
<1>3. CASE InsertLog(c)
  <2>1. PICK l \in Log \ Logs, q \in Orders \cup {None} :
          /\ log' = [log EXCEPT ![l] = [order |-> q, status |-> "PENDING"]]
          /\ IF q = None THEN Idle(c)
             ELSE Begin(c, "mark", [NoRequest EXCEPT !.id = q, !.log = l])
    BY <1>3 DEF InsertLog
  <2>2. /\ UNCHANGED <<catalog, snaps, order, late, history>> /\ Orders' = Orders
        /\ Orders \subseteq Order
    BY <1>3 DEF InsertLog, Orders
  <2> DEFINE row == [order |-> q, status |-> "PENDING"]
  <2>3. row \in LogRow /\ row # None /\ row.order = q
    BY <2>1, <2>2, RecordConstants DEF LogRow
  <2> HIDE DEF row
  <2>4. /\ Logs' = Logs \cup {l} /\ log' \in [Log -> LogRow \cup {None}] /\ log'[l] = row
        /\ \A x \in Logs : log'[x] = log[x]
    BY <2>1, <2>3 DEF Logs, IInv, RecordsOK, row
  <2>5. RecordsOK'
    BY <2>2, <2>3, <2>4 DEF IInv, RecordsOK, history
  <2>6. LateCompletionFlagged' /\ RecoveryRecorded'
    BY <2>2, <2>4 DEF IInv, Promises, LateCompletionFlagged, RecoveryRecorded, RecordsOK, history
  <2>7. CASE q = None
    <3>1. Idle(c) /\ Ready("idle", req[c])
      BY <1>1, <2>1, <2>7 DEF Idle, Ready
    <3>2. PICK r : r = req[c]
      OBVIOUS
    <3> QED BY <1>1, <1>2, <2>2, <2>4, <2>5, <2>6, <3>1, <3>2, Recorded DEF Idle, history
  <2>8. CASE q # None
    <3>1. PICK t : t = [NoRequest EXCEPT !.id = q, !.log = l]
      OBVIOUS
    <3>2. t \in Request /\ t.id = q /\ t.log = l /\ q \in Orders
      BY <2>2, <2>8, <3>1 DEF NoRequest, Request, Id
    <3>3. Ready("mark", t)'
      BY <2>2, <2>3, <2>4, <3>2 DEF Ready
    <3>4. Keep(c, "mark", t)
      BY <2>1, <2>8, <3>1 DEF Begin
    <3> QED BY <1>1, <2>2, <2>4, <2>5, <2>6, <3>2, <3>3, <3>4, Recorded DEF history
  <2> QED BY <2>7, <2>8
<1>4. CASE approveRecoveryLog(c)
  <2>1. PICK l \in Logs, decision \in {"APPROVED", "REJECTED"} : log' = [log EXCEPT ![l].status = decision]
    BY <1>4 DEF approveRecoveryLog
  <2>2. UNCHANGED <<catalog, snaps, order, late, history>> /\ Idle(c) /\ Orders' = Orders
    BY <1>4 DEF approveRecoveryLog, Orders
  <2>3. l \in Log /\ log[l] \in LogRow
    BY DEF Logs, IInv, RecordsOK
  <2> DEFINE row == [log[l] EXCEPT !.status = decision]
  <2>4. row \in LogRow /\ row # None /\ row.order = log[l].order
    BY <2>3, RecordConstants DEF LogRow
  <2>5. /\ log' \in [Log -> LogRow \cup {None}] /\ log'[l] = row
        /\ \A x \in Log \ {l} : log'[x] = log[x]
    BY <2>1, <2>3, <2>4 DEF IInv, RecordsOK
  <2> HIDE DEF row
  <2>6. Logs' = Logs /\ \A x \in Logs : log'[x].order = log[x].order
    BY <2>3, <2>4, <2>5 DEF Logs
  <2>7. RecordsOK'
    BY <2>2, <2>5, <2>6 DEF IInv, RecordsOK, history
  <2>8. LateCompletionFlagged' /\ RecoveryRecorded'
    BY <2>2, <2>6 DEF IInv, Promises, LateCompletionFlagged, RecoveryRecorded, RecordsOK, history
  <2>9. PICK r : r = req[c]
    OBVIOUS
  <2>10. Ready("idle", r)' /\ Keep(c, "idle", r) /\ r \in Request
    BY <1>1, <1>2, <2>2, <2>9 DEF Idle
  <2> QED BY <1>1, <2>2, <2>6, <2>7, <2>8, <2>10, Recorded DEF history
<1> QED BY <1>3, <1>4

-----------------------------------------------------------------------------
(* The theorems *)

LEMMA Inductive == IInv /\ [Next]_vars => IInv'
<1> SUFFICES ASSUME IInv, [Next]_vars PROVE IInv'
  OBVIOUS
<1>1. ASSUME UNCHANGED <<catalog, pc, req, snaps, order, log, history>>, late' \subseteq Orders
      PROVE  IInv'
  <2>1. UNCHANGED <<Orders, Logs, Snapped>>
    BY <1>1 DEF Orders, Logs, Snapped
  <2>2. CatalogOK' /\ RequestsOK' /\ RecordsOK'
    BY <1>1, <2>1 DEF IInv, CatalogOK, RequestsOK, RecordsOK, catalog, history
  <2>3. Filled'
    <3> SUFFICES ASSUME NEW c \in Client PROVE Ready(pc[c], req[c])'
      BY DEF Filled
    <3>1. Ready(pc[c], req[c])
      BY DEF IInv, Filled
    <3>2. Updated(req[c], order[req[c].id])' = Updated(req[c], order[req[c].id])
      BY <1>1 DEF Updated
    <3> QED BY <1>1, <2>1, <3>1, <3>2 DEF Ready, Fresh, Marked, history
  <2>4. Noticed'
    BY <1>1 DEF IInv, Noticed, Holding, Snapping, history
  <2>5. Promises'
    BY <1>1, <2>1 DEF IInv, Promises, OneSnapshotEach, PromisesKept, LateCompletionFlagged,
                      RecoveryRecorded, history
  <2> QED BY <2>2, <2>3, <2>4, <2>5 DEF IInv
<1>2. CASE UNCHANGED vars
  BY <1>1, <1>2 DEF vars, records, IInv, RecordsOK
<1>3. ASSUME NEW q \in Order, PassDeadline(q) PROVE IInv'
  BY <1>1, <1>3 DEF PassDeadline, IInv, RecordsOK, Orders
<1>4. ASSUME NEW c \in Client, Fail(c) PROVE IInv'
  <2>1. CatalogOK'
    BY <1>4 DEF Fail, IInv, CatalogOK, records, catalog, Orders
  <2> QED BY <1>4, <2>1, Ended DEF Fail
<1> QED BY <1>2, <1>3, <1>4, CatalogSteps, SnapshotSteps, Ordering, Changing, Loading, Saving,
       Logging DEF Next

LEMMA Invariance == Spec => []IInv
<1> QED BY Initially, Inductive, PTL DEF Spec

\* No row names one that does not exist and no request holds what it cannot
\* have read, however deletions and saves of old copies interleave.
THEOREM TypeCorrect == Spec => []TypeOK
<1>1. IInv => TypeOK
  <2> SUFFICES ASSUME IInv PROVE TypeOK
    OBVIOUS
  <2>1. \A s \in Used : service[s] # None
    BY DEF IInv, CatalogOK, Used, Snapped
  <2> QED BY <2>1 DEF IInv, CatalogOK, RequestsOK, RecordsOK, TypeOK
<1> QED BY <1>1, Invariance, PTL

\* However calls fail and are repeated, a booking has a second snapshot of a
\* service only if two calls of createBookingSnapshots() overlapped.
THEOREM OneSnapshot == Spec => []OneSnapshotEach
<1>1. IInv => OneSnapshotEach
  BY DEF IInv, Promises
<1> QED BY <1>1, Invariance, PTL

\* What an answered call of createBookingSnapshots() found is recorded for good.
THEOREM PromisesStand == Spec => []PromisesKept
<1>1. IInv => PromisesKept
  BY DEF IInv, Promises
<1> QED BY <1>1, Invariance, PTL

\* An order completed after its deadline is marked as a breach, whatever old copies
\* are saved, unless one save() changed it between the SELECT and the UPDATE of
\* another.
THEOREM LateIsFlagged == Spec => []LateCompletionFlagged
<1>1. IInv => LateCompletionFlagged
  BY DEF IInv, Promises
<1> QED BY <1>1, Invariance, PTL

\* The order of an answered recovery log tells of the recovery, unless two
\* requests held the order at once.
THEOREM RecoveryStands == Spec => []RecoveryRecorded
<1>1. IInv => RecoveryRecorded
  BY DEF IInv, Promises
<1> QED BY <1>1, Invariance, PTL

\* Only the save of one of two copies of an order takes a recorded breach back.
THEOREM BreachStands == Spec => BreachSticks
<1>1. ASSUME IInv, [Next]_vars, NEW q \in Orders, order[q].breached, ~order'[q].breached
      PROVE  q \in raced
  <2>1. order'[q] # order[q] /\ order[q] # None
    BY <1>1 DEF Orders
  <2>2. PICK c \in Client : WriteOrder(c)
    <3>1. ASSUME NEW c \in Client, createServiceRequest(c) PROVE order'[q] = order[q]
      BY <1>1, <2>1, <3>1 DEF createServiceRequest, IInv, RecordsOK, Orders
    <3>2. ASSUME NEW c \in Client,
                 \/ EditCatalog(c) \/ QueryServices(c) \/ LookForSnapshot(c) \/ InsertSnapshot(c)
                 \/ FindOffer(c) \/ LoadOrder(c) \/ InsertLog(c) \/ approveRecoveryLog(c) \/ Fail(c)
          PROVE  order' = order
      BY <3>2 DEF records, EditCatalog, QueryServices, LookForSnapshot, InsertSnapshot,
         FindOffer, LoadOrder, InsertLog, approveRecoveryLog, Fail
    <3>3. ASSUME NEW c \in Client, PutOrder(c) \/ MoveOrder(c) \/ MarkFailed(c) PROVE order' = order
      BY <3>3 DEF records, PutOrder, MoveOrder, MarkFailed, Hold
    <3>4. ASSUME NEW x \in Order, PassDeadline(x) PROVE order' = order
      BY <3>4 DEF PassDeadline
    <3>5. Next
      BY <1>1, <2>1 DEF vars, records
    <3> QED BY <2>1, <3>1, <3>2, <3>3, <3>4, <3>5 DEF Next
  <2>3. Ready("writeOrder", req[c]) /\ req[c].id = q /\ order'[q] = Updated(req[c], order[q])
    BY <1>1, <2>1, <2>2 DEF WriteOrder, IInv, Filled, Orders, RecordsOK
  <2>4. torn \subseteq raced
    BY <1>1 DEF IInv, RecordsOK
  <2> QED BY <1>1, <2>3, <2>4 DEF Ready, Fresh
<1>2. IInv /\ [Next]_vars =>
        [\A q \in Orders : order[q].breached /\ ~order'[q].breached => q \in raced]_vars
  BY <1>1
<1> QED BY <1>2, Invariance, PTL DEF Spec, BreachSticks
=============================================================================
