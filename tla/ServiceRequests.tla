-------------------------- MODULE ServiceRequests --------------------------
(***************************************************************************)
(* What src/backend/src/services/services.service.ts records about a booking: *)
(* the snapshots of the services it includes, the services its guest orders   *)
(* ("service requests", Order here; a request is one call of the API) and the *)
(* logs of failures and their recovery.  The grain is that of ServiceCatalog,  *)
(* but save() of an order is its SELECT and its UPDATE.                        *)
(*                                                                          *)
(* There is no clock: the deadline of an order passes in a step of its own.   *)
(***************************************************************************)
EXTENDS ServiceCatalog

VARIABLES
  snaps,     \* how many snapshots the booking has of each service
  order,     \* the rows of service_requests, None where there is none
  late,      \* the orders whose sla_due_at has passed
  log,       \* the rows of service_recovery_log, None where there is none
  promised,  \* history: the services found by calls of createBookingSnapshots()
             \*   that were answered
  crowded,   \* history: two such calls have overlapped
  raced,     \* history: the orders of which two requests held a copy at once
  torn,      \* history: the orders that one save() changed between the SELECT
             \*   and the UPDATE of another
  settled    \* history: the logs whose createRecoveryLog() was answered

records == <<snaps, order, late, log>>
history == <<promised, crowded, raced, torn, settled>>
vars == <<catalog, pc, req, records, history>>

Snapped == {s \in Service : snaps[s] > 0}
Orders == {q \in Order : order[q] # None}
Logs == {l \in Log : log[l] # None}

LogRow == [order : Order \cup {None}, status : {"PENDING", "APPROVED", "REJECTED"}]

ASSUME RecordConstants == None \notin Offer \cup Row \cup LogRow

(* Deliberately wrong variants, see PROJECT.json.                              *)
AnySnapshot(s) == Snapped # {}
NeverSnapped(s) == FALSE
LateNow(q, status, breached) == q \in late /\ status \notin {"COMPLETED", "CONFIRMED"}
LateUnlessDone(q, status, breached) ==
  breached \/ (q \in late /\ status \notin {"COMPLETED", "CONFIRMED"})
OnlyIfGiven(row, given) == "recoveryAction" \in given

-----------------------------------------------------------------------------
Init ==
  /\ CatalogInit
  /\ snaps = [s \in Service |-> 0]
  /\ order = [q \in Order |-> None] /\ late = {}
  /\ log = [l \in Log |-> None]
  /\ promised = {} /\ crowded = FALSE /\ raced = {} /\ torn = {} /\ settled = {}

-----------------------------------------------------------------------------
(* createBookingSnapshots() *)

Snapping(c) == pc[c] \in {"look", "snap"}

\* The query: services that are granted, of the hotel and room type asked for.
QueryServices(c) ==
  /\ \E found \in SUBSET {s \in Service : service[s] # None /\ service[s].granted} :
       /\ found # {}
       /\ Begin(c, "look", [NoRequest EXCEPT !.seen = found, !.todo = found])
  /\ crowded' = (crowded \/ \E d \in Client : Snapping(d))
  /\ UNCHANGED <<catalog, records, promised, raced, torn, settled>>

\* The loop goes on with the services not treated yet.
NextService(c, todo) ==
  IF todo = {} THEN End(c) /\ promised' = promised \cup req[c].seen
  ELSE Keep(c, "look", [req[c] EXCEPT !.id = None, !.todo = todo]) /\ UNCHANGED promised

HasSnapshot(s) == s \in Snapped

LookForSnapshot(c) ==
  /\ pc[c] = "look"
  /\ \E s \in req[c].todo :
       \/ HasSnapshot(s) /\ NextService(c, req[c].todo \ {s})
       \/ /\ ~HasSnapshot(s)
          /\ Keep(c, "snap", [req[c] EXCEPT !.id = s])
          /\ UNCHANGED promised
  /\ UNCHANGED <<catalog, records, crowded, raced, torn, settled>>

\* The service of a snapshot must still exist (fk_bss_service).
InsertSnapshot(c) ==
  LET s == req[c].id
  IN /\ pc[c] = "snap"
     /\ IF service[s] # None
        THEN snaps' = [snaps EXCEPT ![s] = @ + 1] /\ NextService(c, req[c].todo \ {s})
        ELSE End(c) /\ UNCHANGED <<snaps, promised>>
     /\ UNCHANGED <<catalog, order, late, log, crowded, raced, torn, settled>>

-----------------------------------------------------------------------------
(* Orders *)

\* createServiceRequest() reads the service ...
FindOffer(c) ==
  /\ \E s \in Service :
       service[s] # None /\ Begin(c, "order", [NoRequest EXCEPT !.id = s])
  /\ UNCHANGED <<catalog, records, history>>

\* ... and inserts the order; the emit after it can fail without effect.
createServiceRequest(c) ==
  /\ pc[c] = "order"
  /\ \/ /\ service[req[c].id] # None
        /\ \E q \in Order \ Orders :
             order' = [order EXCEPT ![q] =
               [service |-> req[c].id, status |-> "PENDING", breached |-> FALSE,
                completed |-> "no", recovered |-> FALSE]]
     \/ service[req[c].id] = None /\ UNCHANGED order
  /\ End(c)
  /\ UNCHANGED <<catalog, snaps, late, log, history>>

PassDeadline(q) ==
  /\ order[q] # None /\ q \notin late
  /\ late' = late \cup {q}
  /\ UNCHANGED <<catalog, pc, req, snaps, order, log, history>>

Holding(d, q) == pc[d] \in {"saveOrder", "writeOrder"} /\ req[d].id = q

Hold(c, q, row) ==
  /\ Keep(c, "saveOrder", [req[c] EXCEPT !.id = q, !.row = row])
  /\ raced' = IF \E d \in Client : Holding(d, q) THEN raced \cup {q} ELSE raced
  /\ UNCHANGED <<catalog, records, promised, crowded, torn, settled>>

\* The fields of its body that are followed here; the rest are plain values.
Field == {"status", "completedAt", "recoveryAction"}

GivenOrKept(row, given) == row.recovered \/ "recoveryAction" \in given

\* updateServiceRequest(): each field the body may give, or not.
PutOrder(c) ==
  /\ pc[c] = "idle"
  /\ \E q \in Orders, s \in Targets, given \in SUBSET Field :
       LET row == order[q]
       IN Hold(c, q, [row EXCEPT
            !.status = IF "status" \in given THEN s ELSE @,
            !.completed = IF "completedAt" \in given THEN "yes" ELSE @,
            !.recovered = GivenOrKept(row, given)])

\* The breach flag: of work not done after the deadline, and, in COMPLETED's
\* own case, of work done after it.
Breached(q, status, breached) == breached \/ (q \in late /\ status # "CONFIRMED")

\* updateServiceRequestStatus(): any status, from any status.
MoveOrder(c) ==
  /\ pc[c] = "idle"
  /\ \E q \in Orders, s \in Targets :
       LET row == order[q]
       IN Hold(c, q, [row EXCEPT
            !.status = s,
            !.breached = Breached(q, s, @),
            !.completed = IF s # "COMPLETED" THEN @
                          ELSE IF q \in late THEN "late" ELSE "yes"])

\* Two dates of completion, or two texts of a recovery, may differ although they
\* are one value here.
Vague(row) == (IF row.completed = "no" THEN {} ELSE {"completed"})
                \cup (IF row.recovered THEN {"recovered"} ELSE {})

\* save() of an order, by either of them or for its recovery, compares what the
\* request holds with the row ...
LoadOrder(c) ==
  LET r == req[c]
  IN /\ pc[c] = "saveOrder"
     /\ \E more \in SUBSET Vague(r.row) :
          Keep(c, "writeOrder", [r EXCEPT !.dirty =
            {x \in Column : r.row[x] # order[r.id][x]} \cup more])
     /\ UNCHANGED <<catalog, records, history>>

Updated(r, now) ==
  [now EXCEPT !.status = IF "status" \in r.dirty THEN r.row.status ELSE @,
              !.breached = IF "breached" \in r.dirty THEN r.row.breached ELSE @,
              !.completed = IF "completed" \in r.dirty THEN r.row.completed ELSE @,
              !.recovered = IF "recovered" \in r.dirty THEN r.row.recovered ELSE @]

\* ... and updates the columns that differ.
WriteOrder(c) ==
  LET q == req[c].id
  IN /\ pc[c] = "writeOrder"
     /\ order' = [order EXCEPT ![q] = Updated(req[c], @)]
     /\ torn' = IF /\ order'[q] # order[q]
                   /\ \E d \in Client \ {c} : pc[d] = "writeOrder" /\ req[d].id = q
                THEN torn \cup {q} ELSE torn
     /\ settled' = settled \cup {l \in Log : req[c].log = l}
     /\ End(c)
     /\ UNCHANGED <<catalog, snaps, late, log, promised, crowded, raced>>

-----------------------------------------------------------------------------
(* Failures and their recovery *)

\* createRecoveryLog() inserts the log, about an order that exists or about none ...
InsertLog(c) ==
  /\ \E l \in Log \ Logs, q \in Orders \cup {None} :
       /\ log' = [log EXCEPT ![l] = [order |-> q, status |-> "PENDING"]]
       /\ IF q = None THEN Idle(c)
          ELSE Begin(c, "mark", [NoRequest EXCEPT !.id = q, !.log = l])
  /\ UNCHANGED <<catalog, snaps, order, late, history>>

\* ... and then reads the order to mark it FAILED.
MarkFailed(c) ==
  /\ pc[c] = "mark"
  /\ Hold(c, req[c].id, [order[req[c].id] EXCEPT !.status = "FAILED", !.recovered = TRUE])

\* approveRecoveryLog(): nothing else of a log ever changes, so its read and its
\* save() are one step; a decided log can be decided again.
approveRecoveryLog(c) ==
  /\ Idle(c)
  /\ \E l \in Logs, decision \in {"APPROVED", "REJECTED"} :
       log' = [log EXCEPT ![l].status = decision]
  /\ UNCHANGED <<catalog, snaps, order, late, history>>

-----------------------------------------------------------------------------
\* The rows that name a service.
Used == Snapped \cup {order[q].service : q \in Orders}

EditCatalog(c) == CatalogStep(c, Used) /\ UNCHANGED <<records, history>>

\* An error or a crash between two calls: what was committed stays.
Fail(c) ==
  /\ Faults /\ pc[c] # "idle"
  /\ End(c)
  /\ UNCHANGED <<catalog, records, history>>

Next ==
  \/ \E c \in Client :
       \/ EditCatalog(c)
       \/ QueryServices(c) \/ LookForSnapshot(c) \/ InsertSnapshot(c)
       \/ FindOffer(c) \/ createServiceRequest(c) \/ PutOrder(c) \/ MoveOrder(c)
       \/ LoadOrder(c) \/ WriteOrder(c) \/ InsertLog(c) \/ MarkFailed(c) \/ approveRecoveryLog(c)
       \/ Fail(c)
  \/ \E q \in Order : PassDeadline(q)

Spec == Init /\ [][Next]_vars

-----------------------------------------------------------------------------
Label == {"idle", "saveCategory", "dropCategory", "saveService", "dropService",
          "look", "snap", "order", "saveOrder", "writeOrder", "mark"}

\* Besides the types: every row that names another one names one that exists,
\* although rows are deleted while other requests hold what they read of them.
TypeOK ==
  /\ category \subseteq Category
  /\ service \in [Service -> [category : category, granted : Grants] \cup {None}]
  /\ pc \in [Client -> Label] /\ req \in [Client -> Request]
  /\ snaps \in [Service -> Nat] /\ order \in [Order -> Row \cup {None}]
  /\ log \in [Log -> LogRow \cup {None}]
  /\ late \subseteq Orders /\ torn \subseteq raced /\ raced \subseteq Orders
  /\ promised \subseteq Service /\ crowded \in BOOLEAN /\ settled \subseteq Logs
  /\ \A s \in Used : service[s] # None
  /\ \A l \in Logs : log[l].order \in Orders \cup {None}

\* A booking has one snapshot of a service at most, although nothing in the
\* database keeps it from two: a call that failed halfway can be repeated, and
\* only two calls that overlap record a service twice.
OneSnapshotEach == ~crowded => \A s \in Service : snaps[s] <= 1

\* Once a call of createBookingSnapshots() has been answered, every service that
\* it found is recorded and stays so, whatever failed or was deleted meanwhile.
PromisesKept == promised \subseteq Snapped

\* A recorded breach of an order's deadline is never taken back, except by the
\* stale save() of one of two requests that held the order at once.
BreachSticks ==
  [][\A q \in Orders : order[q].breached /\ ~order'[q].breached => q \in raced]_vars

\* An order that the workflow completed after its deadline is marked as a
\* breach, whatever statuses and edits came before or after and however old the
\* copies that were saved.  Only a change between the SELECT and the UPDATE of
\* one save() can leave one without its mark: that save() then writes the late
\* completion but not the breach, which it found recorded.
LateCompletionFlagged ==
  \A q \in Orders \ torn : order[q].completed = "late" => order[q].breached

\* The order of every recovery log whose call was answered tells of the
\* recovery, unless two requests held the order at once.
RecoveryRecorded ==
  \A l \in settled : log[l].order \in raced \cup {None} \/ order[log[l].order].recovered
=============================================================================
