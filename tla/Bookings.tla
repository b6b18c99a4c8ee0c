------------------------------ MODULE Bookings ------------------------------
(***************************************************************************)
(* BookingsService (src/backend/src/bookings/bookings.service.ts): the      *)
(* customers' create() requests and the staff's updateStatus() and          *)
(* reassignStaff() requests, running concurrently against one MySQL         *)
(* database and one Redis.                                                  *)
(*                                                                          *)
(* The grain is one database or Redis statement, the points at which the    *)
(* code awaits.  `available', `status', `handler' and `log' are COMMITTED   *)
(* rows; a transaction keeps what it has written in its process's `draft'   *)
(* or `work' and publishes it in its last step.  A SELECT without FOR       *)
(* UPDATE, which is every SELECT of this service, reads committed rows and  *)
(* never waits; an UPDATE of a room takes that row's lock until the         *)
(* transaction ends.                                                        *)
(***************************************************************************)
EXTENDS Naturals, FiniteSets, Sequences

CONSTANTS
  Customer,       \* the create() requests; a booking row is named by the
                  \* request that inserted it (its unique bookingCode)
  Staff,          \* the employees, each sending one request at a time
  Room,           \* rows of rooms
  Key,            \* idempotency keys that clients choose
  None,           \* SQL NULL, an absent Redis key, a free lock
  Stock,          \* rooms.available_rooms before the first booking
  MaxQty,         \* bound: rooms asked for by one request
  MaxOps,         \* bound: requests one employee sends
  MaxRetries,     \* maxRetries of runWithDeadlockRetry
  Ops,            \* which staff requests the instance contains
  Faults,         \* TRUE: statements fail, processes crash
  RedisFaults,    \* TRUE: Redis calls fail
  KeysExpire,     \* TRUE: the 24 hours of a key may pass
  OneAtATime      \* TRUE: no two staff requests on one booking overlap, a
                  \* discipline of the clients that the service does not impose

Proc == Customer \cup Staff

ASSUME BookingConstants ==
  /\ Customer \cap Staff = {}
  /\ None \notin Proc /\ None \notin Key
  /\ Stock \in [Room -> Nat]
  /\ MaxQty \in Nat \ {0} /\ MaxOps \in Nat /\ MaxRetries \in Nat
  /\ Ops \subseteq {"update", "reassign"}
  /\ {Faults, RedisFaults, KeysExpire, OneAtATime} \subseteq BOOLEAN

VARIABLES
  available,   \* rooms.available_rooms
  status,      \* bookings.status, "NONE" while there is no such row
  handler,     \* bookings.handled_by
  log,         \* booking_status_logs of each booking, in commit order
  roomLock,    \* InnoDB's lock on each row of rooms
  stored,      \* Redis idempotency:booking:<key>
  events,      \* what the realtime gateway has been given to emit
  pc,          \* where each request is
  attempt,     \* the retry counter of runWithDeadlockRetry
  req,         \* the DTO of each create()
  draft,       \* what create()'s transaction wrote besides PENDING
  answer,      \* the booking a create() returned to its client
  work,        \* the locals of each staff request
  left,        \* requests each employee may still send
  late         \* history: an equal key had been answered when we started

db == <<available, status, handler, log>>
customerVars == <<req, draft, answer, late>>
staffVars == <<work, left>>
vars == <<db, roomLock, stored, events, pc, attempt, customerVars, staffVars>>

-----------------------------------------------------------------------------
GoTo(p, label) == pc' = [pc EXCEPT ![p] = label]

Entry(old, new) == [old |-> old, new |-> new]

(* Deliberately wrong variants of definitions below: what PROJECT.json names  *)
(* as mutants, each of them a mistake that some property has to notice.       *)

ValidNextLoose == [PENDING    |-> {"CONFIRMED", "REJECTED", "CANCELLED"},
                   CONFIRMED  |-> {"CHECKED_IN", "CANCELLED", "REJECTED"},
                   CHECKED_IN |-> {"COMPLETED"},
                   REJECTED   |-> {}, COMPLETED |-> {}, CANCELLED |-> {}]
LoggedAfterAssigning(b, old, new) == [log EXCEPT ![b] = Append(@, Entry(new, new))]
LoggedSwapped(b, old, new) == [log EXCEPT ![b] = Append(@, Entry(new, old))]
NotLogged(b, old, new) == log
NotUnlocked(p) == roomLock
CanReserveUnchecked(c) == TRUE
InsertAndStoreKey(c) ==
  /\ pc[c] = "insert"
  /\ GoTo(c, "assign")
  /\ stored' = [k \in Key |-> IF k = req[c].key THEN c ELSE stored[k]]
  /\ UNCHANGED <<db, roomLock, events, attempt, customerVars, staffVars>>
StoreNothing(c) ==
  /\ pc[c] = "store"
  /\ GoTo(c, "emit")
  /\ UNCHANGED <<db, roomLock, stored, events, attempt, customerVars, staffVars>>
NothingRefunded(b) == 0
RestartMidway == [reserve |-> "reserve", insert |-> "insert",
                  refund |-> "read", save |-> "read", write |-> "load"]

-----------------------------------------------------------------------------
Status == {"PENDING", "CONFIRMED", "REJECTED", "CHECKED_IN", "COMPLETED", "CANCELLED"}
Target == Status \ {"PENDING"}          \* BookingStatusAction of the DTO
Refunding == {"CANCELLED", "REJECTED"}

\* VALID_STATUS_TRANSITIONS
ValidNext == [PENDING    |-> {"CONFIRMED", "REJECTED", "CANCELLED"},
              CONFIRMED  |-> {"CHECKED_IN", "CANCELLED"},
              CHECKED_IN |-> {"COMPLETED"},
              REJECTED   |-> {},
              COMPLETED  |-> {},
              CANCELLED  |-> {}]

Request == [room : Room, qty : 1 .. MaxQty, key : Key \cup {None}]

NoDraft == [handler |-> None, logged |-> FALSE]
NoWork == [booking |-> None, target |-> "NONE", assignee |-> None,
           status |-> "NONE", handler |-> None,
           loaded |-> [status |-> "NONE", handler |-> None]]

Event(b, old, new) == [booking |-> b, old |-> old, new |-> new]

Final == {"done", "refused", "failed"}

Logged(b, old, new) == [log EXCEPT ![b] = Append(@, Entry(old, new))]

\* The end of a transaction frees the row locks it holds.
Unlocked(p) == [r \in Room |-> IF roomLock[r] = p THEN None ELSE roomLock[r]]

Init ==
  /\ available = Stock
  /\ status = [c \in Customer |-> "NONE"]
  /\ handler = [c \in Customer |-> None]
  /\ log = [c \in Customer |-> << >>]
  /\ roomLock = [r \in Room |-> None]
  /\ stored = [k \in Key |-> None]
  /\ events = {}
  /\ pc = [p \in Proc |-> IF p \in Customer THEN "start" ELSE "idle"]
  /\ attempt = [p \in Proc |-> 0]
  /\ req \in [Customer -> Request]
  /\ draft = [c \in Customer |-> NoDraft]
  /\ answer = [c \in Customer |-> None]
  /\ work = [s \in Staff |-> NoWork]
  /\ left = [s \in Staff |-> MaxOps]
  /\ late = [c \in Customer |-> FALSE]

-----------------------------------------------------------------------------
(* create() *)

SameKey(c, d) == req[c].key # None /\ req[c].key = req[d].key

\* 0. The idempotency GET: a hit answers with the earlier booking, a miss or
\* a Redis error goes on.
CheckKey(c) ==
  LET k == req[c].key
      found == IF k = None THEN None ELSE stored[k]
  IN /\ pc[c] = "start"
     /\ late' = [late EXCEPT ![c] =
                   \E d \in Customer \ {c} : SameKey(c, d) /\ pc[d] = "done"]
     /\ \/ /\ found # None
           /\ answer' = [answer EXCEPT ![c] = found]
           /\ GoTo(c, "done")
        \/ /\ found = None \/ RedisFaults
           /\ answer' = answer
           /\ GoTo(c, "room")
     /\ UNCHANGED <<db, roomLock, stored, events, attempt, req, draft, staffVars>>

\* 1-7. Reads the room outside the transaction, refuses an unknown room, bad
\* dates, a bad price and a request for more rooms than the row shows.
ReadRoom(c) ==
  /\ pc[c] = "room"
  /\ \/ /\ req[c].qty <= available[req[c].room]
        /\ GoTo(c, "reserve")
     \/ GoTo(c, "refused")
  /\ UNCHANGED <<db, roomLock, stored, events, attempt, customerVars, staffVars>>

\* 8.1. UPDATE rooms SET available_rooms = available_rooms - n
\* WHERE id = ? AND available_rooms >= n.  No row affected: roll back, refuse.
CanReserve(c) == available[req[c].room] >= req[c].qty

Reserve(c) ==
  LET r == req[c].room
  IN /\ pc[c] = "reserve"
     /\ roomLock[r] = None
     /\ \/ /\ CanReserve(c)
           /\ roomLock' = [roomLock EXCEPT ![r] = c]
           /\ GoTo(c, "insert")
        \/ /\ ~CanReserve(c)
           /\ roomLock' = roomLock
           /\ GoTo(c, "refused")
     /\ UNCHANGED <<db, stored, events, attempt, customerVars, staffVars>>

\* INSERT bookings (PENDING, handledBy null) and INSERT booking_rooms.
Insert(c) ==
  /\ pc[c] = "insert"
  /\ GoTo(c, "assign")
  /\ UNCHANGED <<db, roomLock, stored, events, attempt, customerVars, staffVars>>

\* autoAssignHotelStaffInternal: no candidate or an error before the save
\* leaves the booking unassigned, an error after it leaves it unlogged; none
\* of them reaches the caller.
Assign(c) ==
  /\ pc[c] = "assign"
  /\ \E s \in Staff \cup {None}, logged \in BOOLEAN :
       /\ logged => s # None
       /\ (s # None /\ ~logged) => Faults
       /\ draft' = [draft EXCEPT ![c] = [handler |-> s, logged |-> logged]]
  /\ GoTo(c, "commit")
  /\ UNCHANGED <<db, roomLock, stored, events, attempt, req, answer, late, staffVars>>

Commit(c) ==
  LET r == req[c].room
  IN /\ pc[c] = "commit"
     /\ available' = [available EXCEPT ![r] = @ - req[c].qty]
     /\ status' = [status EXCEPT ![c] = "PENDING"]
     /\ handler' = [handler EXCEPT ![c] = draft[c].handler]
     /\ log' = IF draft[c].logged THEN Logged(c, "NONE", "PENDING") ELSE log
     /\ roomLock' = Unlocked(c)
     /\ draft' = [draft EXCEPT ![c] = NoDraft]
     /\ GoTo(c, "store")
     /\ UNCHANGED <<stored, events, attempt, req, answer, late, staffVars>>

\* SET idempotency:booking:<key> ... EX 86400, after the commit; fail-open.
StoreKey(c) ==
  LET k == req[c].key
  IN /\ pc[c] = "store"
     /\ \/ k # None /\ stored' = [stored EXCEPT ![k] = c]
        \/ (k = None \/ RedisFaults) /\ stored' = stored
     /\ GoTo(c, "emit")
     /\ UNCHANGED <<db, roomLock, events, attempt, customerVars, staffVars>>

\* emitBookingCreated outside the transaction, then the response.
EmitCreated(c) ==
  /\ pc[c] = "emit"
  /\ events' = events \cup {Event(c, "NONE", "PENDING")}
  /\ answer' = [answer EXCEPT ![c] = c]
  /\ GoTo(c, "done")
  /\ UNCHANGED <<db, roomLock, stored, attempt, req, draft, late, staffVars>>

-----------------------------------------------------------------------------
(* updateStatus() *)

Begin(s) ==
  /\ pc[s] = "idle" /\ left[s] > 0
  /\ left' = [left EXCEPT ![s] = @ - 1]
  /\ \E b \in {c \in Customer : status[c] # "NONE"} :
     /\ OneAtATime => \A o \in Staff : work[o].booking # b
     /\ \/ /\ "update" \in Ops
           /\ \E t \in Target : work' = [work EXCEPT ![s] =
                                   [NoWork EXCEPT !.booking = b, !.target = t]]
           /\ GoTo(s, "read")
        \/ /\ "reassign" \in Ops
           /\ \E a \in Staff : work' = [work EXCEPT ![s] =
                                  [NoWork EXCEPT !.booking = b, !.assignee = a]]
           /\ GoTo(s, "check")
  /\ UNCHANGED <<db, roomLock, stored, events, attempt, customerVars>>

\* A staff request ends, answered or not.
Leave(s) ==
  /\ GoTo(s, "idle")
  /\ work' = [work EXCEPT ![s] = NoWork]
  /\ attempt' = [attempt EXCEPT ![s] = 0]

\* findOne inside the transaction, without a lock, then the state machine
\* check on what it returned; an invalid move throws.
ReadBooking(s) ==
  LET b == work[s].booking
      t == work[s].target
  IN /\ pc[s] = "read"
     /\ \/ /\ t \in ValidNext[status[b]]
           /\ work' = [work EXCEPT ![s] =
                        [@ EXCEPT !.status = status[b], !.handler = handler[b]]]
           /\ GoTo(s, IF t \in Refunding THEN "refund" ELSE "save")
           /\ UNCHANGED attempt
        \/ /\ t \notin ValidNext[status[b]]
           /\ Leave(s)
     /\ UNCHANGED <<db, roomLock, stored, events, customerVars, left>>

\* UPDATE rooms SET available_rooms = available_rooms + qty WHERE id = ?.
\* create() gives a booking exactly one booking_rooms row.
Refund(s) ==
  LET r == req[work[s].booking].room
  IN /\ pc[s] = "refund"
     /\ roomLock[r] = None
     /\ roomLock' = [roomLock EXCEPT ![r] = s]
     /\ GoTo(s, "save")
     /\ UNCHANGED <<db, stored, events, attempt, customerVars, staffVars>>

RefundedQty(b) == req[b].qty

\* save(booking), which writes only the columns that differ from the snapshot
\* row, the status log in the same transaction, and COMMIT.
SaveStatus(s) ==
  LET b == work[s].booking
      t == work[s].target
  IN /\ pc[s] = "save"
     /\ available' = IF t \in Refunding
                       THEN [available EXCEPT ![req[b].room] = @ + RefundedQty(b)]
                       ELSE available
     /\ status' = [status EXCEPT ![b] = t]
     /\ handler' = [handler EXCEPT ![b] = IF work[s].handler = None THEN s ELSE @]
     /\ log' = Logged(b, work[s].status, t)
     /\ roomLock' = Unlocked(s)
     /\ GoTo(s, "emit")
     /\ UNCHANGED <<stored, events, attempt, customerVars, staffVars>>

-----------------------------------------------------------------------------
(* reassignStaff() *)

Reassignable == {"PENDING", "CONFIRMED"}

\* Reads the booking OUTSIDE the transaction, refuses one that is checked in
\* or over, and looks the new employee up (unknown or a customer: refused).
CheckBooking(s) ==
  LET b == work[s].booking
  IN /\ pc[s] = "check"
     /\ \/ /\ status[b] \in Reassignable
           /\ work' = [work EXCEPT ![s] = [@ EXCEPT !.status = status[b]]]
           /\ GoTo(s, "load")
           /\ UNCHANGED attempt
        \/ Leave(s)
     /\ UNCHANGED <<db, roomLock, stored, events, customerVars, left>>

\* save(booking) first SELECTs the row again, to see which columns differ from
\* the entity in memory ...
LoadBooking(s) ==
  /\ pc[s] = "load"
  /\ LET b == work[s].booking
     IN work' = [work EXCEPT ![s] =
                   [@ EXCEPT !.loaded = [status |-> status[b], handler |-> handler[b]]]]
  /\ GoTo(s, "write")
  /\ UNCHANGED <<db, roomLock, stored, events, attempt, customerVars, left>>

\* ... and then UPDATEs those: the handler, and also the status when the row
\* has moved on since it was read.  The log and COMMIT follow.
Overwrite(column, loaded, inMemory) == IF loaded # inMemory THEN inMemory ELSE column

SaveHandler(s) ==
  LET b == work[s].booking
      seen == work[s].status
      loaded == work[s].loaded
  IN /\ pc[s] = "write"
     /\ handler' = [handler EXCEPT ![b] = Overwrite(@, loaded.handler, work[s].assignee)]
     /\ status' = [status EXCEPT ![b] = Overwrite(@, loaded.status, seen)]
     /\ log' = Logged(b, seen, seen)
     /\ GoTo(s, "emit")
     /\ UNCHANGED <<available, roomLock, stored, events, attempt, customerVars, staffVars>>

\* emitBookingStatusChanged, after the commit, then the response.
EmitStatus(s) ==
  LET w == work[s]
      new == IF w.target = "NONE" THEN w.status ELSE w.target
  IN /\ pc[s] = "emit"
     /\ events' = events \cup {Event(w.booking, w.status, new)}
     /\ Leave(s)
     /\ UNCHANGED <<db, roomLock, stored, customerVars, left>>

-----------------------------------------------------------------------------
(* Failures *)

\* Where a statement that takes row locks can time out or be the victim of a
\* deadlock; the label is where the transaction starts again.
RestartAt == [reserve |-> "reserve", insert |-> "reserve",
              refund |-> "read", save |-> "read", write |-> "load"]

\* runWithDeadlockRetry: roll back, then run the transaction again at most
\* MaxRetries times.
TransientError(p) ==
  /\ Faults
  /\ pc[p] \in DOMAIN RestartAt
  /\ attempt[p] < MaxRetries
  /\ attempt' = [attempt EXCEPT ![p] = @ + 1]
  /\ roomLock' = Unlocked(p)
  /\ GoTo(p, RestartAt[pc[p]])
  /\ UNCHANGED <<db, stored, events, customerVars, staffVars>>

\* Any other error, the retries used up, or the death of the server process:
\* the database rolls the open transaction back and the client gets no answer.
FailCustomer(c) ==
  /\ Faults
  /\ pc[c] \notin Final
  /\ roomLock' = Unlocked(c)
  /\ draft' = [draft EXCEPT ![c] = NoDraft]
  /\ GoTo(c, "failed")
  /\ UNCHANGED <<db, stored, events, attempt, req, answer, late, staffVars>>

FailStaff(s) ==
  /\ Faults
  /\ pc[s] # "idle"
  /\ roomLock' = Unlocked(s)
  /\ Leave(s)
  /\ UNCHANGED <<db, stored, events, customerVars, left>>

ExpireKey(k) ==
  /\ KeysExpire
  /\ stored[k] # None
  /\ stored' = [stored EXCEPT ![k] = None]
  /\ UNCHANGED <<db, roomLock, events, pc, attempt, customerVars, staffVars>>

-----------------------------------------------------------------------------
CustomerStep(c) ==
  \/ CheckKey(c) \/ ReadRoom(c) \/ Reserve(c) \/ Insert(c)
  \/ Assign(c) \/ Commit(c) \/ StoreKey(c) \/ EmitCreated(c)

StaffStep(s) ==
  \/ ReadBooking(s) \/ Refund(s) \/ SaveStatus(s)
  \/ CheckBooking(s) \/ LoadBooking(s) \/ SaveHandler(s) \/ EmitStatus(s)

\* Every request has been answered: the instance, not the service, is over.
Quiet ==
  /\ \A c \in Customer : pc[c] \in Final
  /\ \A s \in Staff : pc[s] = "idle"

Idle == Quiet /\ UNCHANGED vars

Next ==
  \/ \E c \in Customer : CustomerStep(c) \/ FailCustomer(c)
  \/ \E s \in Staff : Begin(s) \/ StaffStep(s) \/ FailStaff(s)
  \/ \E p \in Proc : TransientError(p)
  \/ \E k \in Key : ExpireKey(k)
  \/ Idle

Spec == Init /\ [][Next]_vars

\* The event loop and the database run every request on; clients need not
\* send any, and nothing has to fail.
Fairness ==
  /\ \A c \in Customer : WF_vars(CustomerStep(c))
  /\ \A s \in Staff : WF_vars(StaffStep(s))

FairSpec == Spec /\ Fairness

-----------------------------------------------------------------------------
(* Properties *)

InTransaction == {"insert", "assign", "commit"}    \* create() holds the room's lock
CustomerLabel == {"start", "room", "reserve", "store", "emit"} \cup InTransaction \cup Final
StaffLabel == {"idle", "read", "refund", "save", "check", "load", "write", "emit"}

RowsOK ==
  /\ available \in [Room -> Nat]
  /\ status \in [Customer -> Status \cup {"NONE"}]
  /\ handler \in [Customer -> Staff \cup {None}]
  /\ log \in [Customer -> Seq([old : Status \cup {"NONE"}, new : Status])]

SharedOK ==
  /\ roomLock \in [Room -> Proc \cup {None}]
  /\ stored \in [Key -> Customer \cup {None}]
  /\ events \subseteq [booking : Customer, old : Status \cup {"NONE"}, new : Status]

ControlOK ==
  /\ pc \in [Proc -> CustomerLabel \cup StaffLabel]
  /\ \A c \in Customer : pc[c] \in CustomerLabel
  /\ \A s \in Staff : pc[s] \in StaffLabel
  /\ attempt \in [Proc -> 0 .. MaxRetries]

CustomerOK ==
  /\ req \in [Customer -> Request]
  /\ draft \in [Customer -> [handler : Staff \cup {None}, logged : BOOLEAN]]
  /\ answer \in [Customer -> Customer \cup {None}]
  /\ late \in [Customer -> BOOLEAN]

Work == [booking : Customer \cup {None}, target : Target \cup {"NONE"},
         assignee : Staff \cup {None}, status : Status \cup {"NONE"},
         handler : Staff \cup {None},
         loaded : [status : Status \cup {"NONE"}, handler : Staff \cup {None}]]

StaffOK ==
  /\ work \in [Staff -> Work]
  /\ left \in [Staff -> 0 .. MaxOps]

\* The shape of the state: in particular available_rooms, an UNSIGNED column,
\* never goes below zero.
TypeOK == RowsOK /\ SharedOK /\ ControlOK /\ CustomerOK /\ StaffOK

\* Between the conditional UPDATE and COMMIT a create() keeps the room's lock,
\* and the row still has the rooms it is about to take.
ReservationCovered ==
  \A c \in Customer : pc[c] \in InTransaction =>
    /\ roomLock[req[c].room] = c
    /\ available[req[c].room] >= req[c].qty

\* The rooms of r that bookings hold: none once rejected or cancelled.  As
\* units, so that their number is a cardinality.
Holding == Status \ Refunding
HeldUnits(r) == {u \in Customer \X (1 .. MaxQty) :
                   /\ status[u[1]] \in Holding
                   /\ req[u[1]].room = r
                   /\ u[2] <= req[u[1]].qty}

\* However many employees race, no room of the stock is lost: what is not held
\* by a booking is available to be booked.
NoRoomLost ==
  \A r \in Room : available[r] + Cardinality(HeldUnits(r)) >= Stock[r]

\* Held and available rooms make up the stock exactly.
InventoryExact ==
  \A r \in Room : available[r] + Cardinality(HeldUnits(r)) = Stock[r]

\* Bookings never hold more rooms than the hotel has.
NoOverbooking ==
  \A r \in Room : Cardinality(HeldUnits(r)) <= Stock[r]

\* However requests race, the log tells how a booking came to its status: a line
\* gives it, and no later line moves the booking.  A line of reassignStaff(),
\* which moves nothing, may name the status that it had read before another
\* request changed it.  Without any line the booking is as create() left it.
StatusIsLogged ==
  \A c \in Customer :
    IF log[c] = << >> THEN status[c] \in {"NONE", "PENDING"}
    ELSE \E i \in 1 .. Len(log[c]) :
           /\ log[c][i].new = status[c]
           /\ \A j \in i + 1 .. Len(log[c]) : log[c][j].old = log[c][j].new

\* The log reads as one history: each line starts where the one before ended.
LogIsChain ==
  \A c \in Customer : \A i \in 1 .. Len(log[c]) :
    log[c][i].old = IF i > 1 THEN log[c][i - 1].new
                    ELSE IF log[c][i].new = "PENDING" /\ log[c][i].old = "NONE"
                           THEN "NONE" ELSE "PENDING"

\* A booking named in an answer, or kept under a key, is a committed row of a
\* request with that key; a crash or a rollback leaves no such promise behind.
AnswerIsDurable ==
  /\ \A c \in Customer : answer[c] # None =>
       /\ status[answer[c]] # "NONE"
       /\ answer[c] = c \/ SameKey(c, answer[c])
  /\ \A k \in Key : stored[k] # None =>
       status[stored[k]] # "NONE" /\ req[stored[k]].key = k

\* The gateway announces only what was committed: a creation whose row exists,
\* a move or a reassignment that is in the booking's log.
EventsAreCommitted ==
  \A e \in events :
    IF e.old = "NONE" THEN status[e.booking] # "NONE"
    ELSE \E i \in 1 .. Len(log[e.booking]) : log[e.booking][i] = Entry(e.old, e.new)

\* A client that retries after it has had an answer books nothing more.
LateRetryBooksNothing ==
  \A c \in Customer : late[c] => status[c] = "NONE"

\* One key, one booking.
OneBookingPerKey ==
  \A c, d \in Customer :
    (c # d /\ SameKey(c, d)) => status[c] = "NONE" \/ status[d] = "NONE"

\* Every request ends, through every wait for a row lock and every retry.
RequestsEnd ==
  /\ \A c \in Customer : <>(pc[c] \in Final)
  /\ \A s \in Staff : []<>(pc[s] = "idle")

-----------------------------------------------------------------------------
Ledger == INSTANCE BookingLedger WITH
  Booking <- Customer, avail <- available, phase <- status,
  room <- [c \in Customer |-> req[c].room], qty <- [c \in Customer |-> req[c].qty]

\* While no two employees work on one booking at a time, the interleaved
\* statements of create(), updateStatus() and reassignStaff(), their failures
\* and their retries implement the atomic ledger: each commit is one step.
ImplementsLedger == Ledger!LedgerSpec
=============================================================================
