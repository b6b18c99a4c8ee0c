--------------------------- MODULE BookingsProofs ---------------------------
(***************************************************************************)
(* Theorems about Bookings for any number of customers, employees, rooms     *)
(* and keys.                                                                 *)
(***************************************************************************)
EXTENDS Bookings, TLAPS

\* What a staff request has put in its locals by the time it uses them.
WorkFilled ==
  \A s \in Staff :
    /\ pc[s] \in {"read", "refund", "save"} =>
         work[s].booking \in Customer /\ work[s].target \in Target
    /\ pc[s] \in {"check", "load", "write"} =>
         work[s].booking \in Customer /\ work[s].assignee \in Staff
    /\ pc[s] \in {"load", "write"} => work[s].status \in Reassignable
    /\ pc[s] = "emit" =>
         /\ work[s].booking \in Customer
         /\ work[s].target \in Target \/ work[s].status \in Reassignable

\* The inductive invariant: a COMMIT subtracts without looking, so that the
\* stock stays in Nat needs the cover of every open reservation.
IInv == TypeOK /\ WorkFilled /\ ReservationCovered

USE DEF Proc

-----------------------------------------------------------------------------
(* Frames: what a step of one process leaves to the others *)

\* A customer's step to another of its labels.
LEMMA CustomerMoves ==
  ASSUME ControlOK, NEW c \in Customer, NEW l \in CustomerLabel,
         GoTo(c, l), UNCHANGED attempt
  PROVE  ControlOK' /\ \A q \in Proc : pc'[q] = IF q = c THEN l ELSE pc[q]
  BY BookingConstants DEF GoTo, ControlOK

\* A staff request's step to another of its labels.
LEMMA StaffMoves ==
  ASSUME ControlOK, NEW s \in Staff, NEW l \in StaffLabel,
         GoTo(s, l), UNCHANGED attempt
  PROVE  ControlOK' /\ \A q \in Proc : pc'[q] = IF q = s THEN l ELSE pc[q]
  BY BookingConstants DEF GoTo, ControlOK

\* The end of a staff request.
LEMMA StaffLeaves ==
  ASSUME IInv, NEW s \in Staff, Leave(s), UNCHANGED left
  PROVE  /\ ControlOK' /\ StaffOK' /\ WorkFilled'
         /\ \A q \in Proc : pc'[q] = IF q = s THEN "idle" ELSE pc[q]
<1>1. /\ ControlOK'
      /\ \A q \in Proc : pc'[q] = IF q = s THEN "idle" ELSE pc[q]
  BY BookingConstants DEF Leave, GoTo, ControlOK, IInv, TypeOK, StaffLabel
<1>2. /\ StaffOK'
      /\ \A o \in Staff : o # s => work'[o] = work[o]
  BY DEF Leave, NoWork, StaffOK, Work, IInv, TypeOK
<1>3. WorkFilled'
  BY <1>1, <1>2 DEF WorkFilled, IInv
<1> QED BY <1>1, <1>2, <1>3

\* Storing what was read in a request's locals.
LEMMA WorkChecked ==
  ASSUME NEW w \in Work, NEW st \in Status \cup {"NONE"}
  PROVE  LET v == [w EXCEPT !.status = st]
         IN v \in Work /\ v.booking = w.booking /\ v.assignee = w.assignee /\ v.status = st
  BY DEF Work

\* A new request's locals.
LEMMA WorkStarted ==
  ASSUME NEW b \in Customer
  PROVE  /\ \A t \in Target : LET v == [NoWork EXCEPT !.booking = b, !.target = t]
                             IN v \in Work /\ v.booking = b /\ v.target = t
         /\ \A a \in Staff : LET v == [NoWork EXCEPT !.booking = b, !.assignee = a]
                            IN v \in Work /\ v.booking = b /\ v.assignee = a
  BY DEF Work, NoWork

\* One request's locals change, the others' stay.
LEMMA WorkUpdated ==
  ASSUME work \in [Staff -> Work], NEW s \in Staff, NEW v \in Work,
         work' = [work EXCEPT ![s] = v]
  PROVE  /\ work' \in [Staff -> Work] /\ work'[s] = v
         /\ \A o \in Staff : o # s => work'[o] = work[o]
  OBVIOUS

\* A customer's step touches no staff request.
LEMMA WorkKept ==
  ASSUME WorkFilled, NEW c \in Customer, UNCHANGED work,
         \A q \in Proc : q # c => pc'[q] = pc[q]
  PROVE  WorkFilled'
  BY BookingConstants DEF WorkFilled

\* Freeing the locks of one process leaves every other lock where it is.
LEMMA Unlocking ==
  ASSUME SharedOK, NEW p \in Proc
  PROVE  /\ Unlocked(p) \in [Room -> Proc \cup {None}]
         /\ \A r \in Room : \A q \in Proc \ {p} : roomLock[r] = q => Unlocked(p)[r] = q
  BY BookingConstants DEF SharedOK, Unlocked

\* A step that touches neither rooms nor locks keeps the reservations covered,
\* unless it is a create() entering its transaction.
LEMMA CoverKept ==
  ASSUME ReservationCovered, NEW p \in Proc,
         available' = available, roomLock' = roomLock, req' = req,
         \A q \in Proc : q # p => pc'[q] = pc[q],
         p \in Customer => pc'[p] \notin InTransaction \/ pc[p] \in InTransaction
  PROVE  ReservationCovered'
  BY DEF ReservationCovered

-----------------------------------------------------------------------------
(* create() *)

LEMMA CheckKeyInv == ASSUME IInv, NEW c \in Customer, CheckKey(c) PROVE IInv'
<1>1. /\ ControlOK'
      /\ \A q \in Proc : q # c => pc'[q] = pc[q]
      /\ pc'[c] \notin InTransaction
  <2>1. CASE GoTo(c, "done")
    BY <2>1, CustomerMoves DEF CheckKey, IInv, TypeOK, CustomerLabel, Final, InTransaction
  <2>2. CASE GoTo(c, "room")
    BY <2>2, CustomerMoves DEF CheckKey, IInv, TypeOK, CustomerLabel, InTransaction
  <2> QED BY <2>1, <2>2 DEF CheckKey
<1>2. RowsOK' /\ SharedOK' /\ StaffOK'
  BY DEF CheckKey, IInv, TypeOK, RowsOK, SharedOK, StaffOK, db, staffVars
<1>3. CustomerOK'
  <2>1. req[c].key \in Key \cup {None}
    BY DEF IInv, TypeOK, CustomerOK, Request
  <2>2. answer' \in [Customer -> Customer \cup {None}]
    BY <2>1, BookingConstants DEF CheckKey, IInv, TypeOK, CustomerOK, SharedOK
  <2>3. late' \in [Customer -> BOOLEAN]
    BY DEF CheckKey, IInv, TypeOK, CustomerOK
  <2> QED BY <2>2, <2>3 DEF CheckKey, IInv, TypeOK, CustomerOK
<1>4. WorkFilled'
  BY <1>1, WorkKept DEF CheckKey, IInv, staffVars
<1>5. ReservationCovered'
  BY <1>1, CoverKept DEF CheckKey, IInv, db
<1> QED BY <1>1, <1>2, <1>3, <1>4, <1>5 DEF IInv, TypeOK

\* A step of create() outside the transaction that changes only its label.
LEMMA LabelOnly ==
  ASSUME IInv, NEW c \in Customer, NEW l \in CustomerLabel, GoTo(c, l),
         l \notin InTransaction \/ pc[c] \in InTransaction,
         UNCHANGED <<db, roomLock, stored, events, attempt, customerVars, staffVars>>
  PROVE  IInv'
<1>1. ControlOK' /\ \A q \in Proc : pc'[q] = IF q = c THEN l ELSE pc[q]
  BY CustomerMoves DEF IInv, TypeOK
<1>2. RowsOK' /\ SharedOK' /\ CustomerOK' /\ StaffOK'
  BY DEF IInv, TypeOK, RowsOK, SharedOK, CustomerOK, StaffOK, db, customerVars, staffVars
<1>3. WorkFilled'
  BY <1>1, WorkKept DEF IInv, staffVars
<1>4. ReservationCovered'
  BY <1>1, CoverKept DEF IInv, db, customerVars
<1> QED BY <1>1, <1>2, <1>3, <1>4 DEF IInv, TypeOK

LEMMA ReadRoomInv == ASSUME IInv, NEW c \in Customer, ReadRoom(c) PROVE IInv'
  BY LabelOnly DEF ReadRoom, CustomerLabel, InTransaction, Final

LEMMA InsertInv == ASSUME IInv, NEW c \in Customer, Insert(c) PROVE IInv'
  BY LabelOnly DEF Insert, CustomerLabel, InTransaction

LEMMA ReserveInv == ASSUME IInv, NEW c \in Customer, Reserve(c) PROVE IInv'
<1> DEFINE r == req[c].room
<1>1. CASE GoTo(c, "refused") /\ roomLock' = roomLock
  BY <1>1, LabelOnly DEF Reserve, CustomerLabel, Final, InTransaction
<1>2. CASE CanReserve(c) /\ roomLock' = [roomLock EXCEPT ![r] = c] /\ GoTo(c, "insert")
  <2>0. r \in Room /\ roomLock[r] = None
    BY DEF Reserve, IInv, TypeOK, CustomerOK, Request
  <2>1. ControlOK' /\ \A q \in Proc : pc'[q] = IF q = c THEN "insert" ELSE pc[q]
    BY <1>2, CustomerMoves DEF Reserve, IInv, TypeOK, CustomerLabel, InTransaction
  <2>2. RowsOK' /\ SharedOK' /\ CustomerOK' /\ StaffOK'
    BY <1>2, <2>0 DEF Reserve, IInv, TypeOK, RowsOK, SharedOK, CustomerOK, StaffOK,
       db, customerVars, staffVars
  <2>3. WorkFilled'
    BY <2>1, WorkKept DEF Reserve, IInv, staffVars
  <2>4. ReservationCovered'
    <3> SUFFICES ASSUME NEW d \in Customer, pc'[d] \in InTransaction
                 PROVE  roomLock'[req'[d].room] = d
                        /\ available'[req'[d].room] >= req'[d].qty
      BY DEF ReservationCovered
    <3>1. CASE d = c
      BY <3>1, <1>2, <2>0 DEF Reserve, CanReserve, db, customerVars, IInv, TypeOK, SharedOK
    <3>2. CASE d # c
      <4>1. roomLock[req[d].room] = d /\ available[req[d].room] >= req[d].qty
        BY <3>2, <2>1 DEF IInv, ReservationCovered
      <4>2. req[d].room \in Room /\ req[d].room # r
        BY <4>1, <2>0, BookingConstants DEF IInv, TypeOK, CustomerOK, Request
      <4> QED BY <4>1, <4>2, <1>2 DEF Reserve, db, customerVars, IInv, TypeOK, SharedOK
    <3> QED BY <3>1, <3>2
  <2> QED BY <2>1, <2>2, <2>3, <2>4 DEF IInv, TypeOK
<1> QED BY <1>1, <1>2 DEF Reserve

LEMMA AssignInv == ASSUME IInv, NEW c \in Customer, Assign(c) PROVE IInv'
<1>1. ControlOK' /\ \A q \in Proc : pc'[q] = IF q = c THEN "commit" ELSE pc[q]
  BY CustomerMoves DEF Assign, IInv, TypeOK, CustomerLabel, InTransaction
<1>2. RowsOK' /\ SharedOK' /\ StaffOK'
  BY DEF Assign, IInv, TypeOK, RowsOK, SharedOK, StaffOK, db, staffVars
<1>3. CustomerOK'
  BY DEF Assign, IInv, TypeOK, CustomerOK
<1>4. WorkFilled'
  BY <1>1, WorkKept DEF Assign, IInv, staffVars
<1>5. ReservationCovered'
  BY <1>1, CoverKept DEF Assign, IInv, db, InTransaction
<1> QED BY <1>1, <1>2, <1>3, <1>4, <1>5 DEF IInv, TypeOK

\* The subtraction at COMMIT stays in Nat, and takes nothing from under
\* another reservation, whose lock is on another room.
LEMMA CommitInv == ASSUME IInv, NEW c \in Customer, Commit(c) PROVE IInv'
<1> DEFINE r == req[c].room
<1>0. /\ r \in Room /\ req[c].qty \in 1 .. MaxQty
      /\ roomLock[r] = c /\ available[r] \in Nat /\ available[r] >= req[c].qty
  BY DEF Commit, IInv, TypeOK, CustomerOK, RowsOK, Request, ReservationCovered, InTransaction
<1>1. ControlOK' /\ \A q \in Proc : pc'[q] = IF q = c THEN "store" ELSE pc[q]
  BY CustomerMoves DEF Commit, IInv, TypeOK, CustomerLabel
<1>2. RowsOK'
  <2>1. available' \in [Room -> Nat]
    BY <1>0, BookingConstants DEF Commit, IInv, TypeOK, RowsOK
  <2>2. /\ status' \in [Customer -> Status \cup {"NONE"}]
        /\ handler' \in [Customer -> Staff \cup {None}]
    BY DEF Commit, IInv, TypeOK, RowsOK, CustomerOK, Status
  <2>3. log' \in [Customer -> Seq([old : Status \cup {"NONE"}, new : Status])]
    BY DEF Commit, Logged, Entry, IInv, TypeOK, RowsOK, Status
  <2> QED BY <2>1, <2>2, <2>3 DEF RowsOK
<1>3. SharedOK'
  BY Unlocking DEF Commit, IInv, TypeOK, SharedOK
<1>4. CustomerOK' /\ StaffOK'
  BY DEF Commit, NoDraft, IInv, TypeOK, CustomerOK, StaffOK, staffVars
<1>5. WorkFilled'
  BY <1>1, WorkKept DEF Commit, IInv, staffVars
<1>6. ReservationCovered'
  <2> SUFFICES ASSUME NEW d \in Customer, pc'[d] \in InTransaction
               PROVE  roomLock'[req'[d].room] = d
                      /\ available'[req'[d].room] >= req'[d].qty
    BY DEF ReservationCovered
  <2>1. d # c /\ pc[d] \in InTransaction
    BY <1>1 DEF InTransaction
  <2>2. roomLock[req[d].room] = d /\ available[req[d].room] >= req[d].qty
    BY <2>1 DEF IInv, ReservationCovered
  <2>3. req[d].room \in Room /\ req[d].room # r
    BY <2>1, <2>2, <1>0 DEF IInv, TypeOK, CustomerOK, Request
  <2>4. roomLock'[req[d].room] = d
    BY <2>1, <2>2, <2>3, Unlocking DEF Commit, IInv, TypeOK
  <2> QED BY <2>2, <2>3, <2>4 DEF Commit, IInv, TypeOK, RowsOK
<1> QED BY <1>1, <1>2, <1>3, <1>4, <1>5, <1>6 DEF IInv, TypeOK

LEMMA StoreKeyInv == ASSUME IInv, NEW c \in Customer, StoreKey(c) PROVE IInv'
<1>1. ControlOK' /\ \A q \in Proc : pc'[q] = IF q = c THEN "emit" ELSE pc[q]
  BY CustomerMoves DEF StoreKey, IInv, TypeOK, CustomerLabel
<1>2. RowsOK' /\ CustomerOK' /\ StaffOK'
  BY DEF StoreKey, IInv, TypeOK, RowsOK, CustomerOK, StaffOK, db, customerVars, staffVars
<1>3. SharedOK'
  BY DEF StoreKey, IInv, TypeOK, SharedOK
<1>4. WorkFilled'
  BY <1>1, WorkKept DEF StoreKey, IInv, staffVars
<1>5. ReservationCovered'
  BY <1>1, CoverKept DEF StoreKey, IInv, db, customerVars, InTransaction
<1> QED BY <1>1, <1>2, <1>3, <1>4, <1>5 DEF IInv, TypeOK

LEMMA EmitCreatedInv == ASSUME IInv, NEW c \in Customer, EmitCreated(c) PROVE IInv'
<1>1. ControlOK' /\ \A q \in Proc : pc'[q] = IF q = c THEN "done" ELSE pc[q]
  BY CustomerMoves DEF EmitCreated, IInv, TypeOK, CustomerLabel, Final
<1>2. RowsOK' /\ CustomerOK' /\ StaffOK'
  BY DEF EmitCreated, IInv, TypeOK, RowsOK, CustomerOK, StaffOK, db, staffVars
<1>3. SharedOK'
  BY DEF EmitCreated, Event, IInv, TypeOK, SharedOK, Status
<1>4. WorkFilled'
  BY <1>1, WorkKept DEF EmitCreated, IInv, staffVars
<1>5. ReservationCovered'
  BY <1>1, CoverKept DEF EmitCreated, IInv, db, InTransaction
<1> QED BY <1>1, <1>2, <1>3, <1>4, <1>5 DEF IInv, TypeOK

-----------------------------------------------------------------------------
(* updateStatus() and reassignStaff() *)

LEMMA BeginInv == ASSUME IInv, NEW s \in Staff, Begin(s) PROVE IInv'
<1>1. PICK b \in Customer, l \in {"read", "check"} :
        /\ GoTo(s, l)
        /\ \/ l = "read" /\ \E t \in Target : work' = [work EXCEPT ![s] =
                               [NoWork EXCEPT !.booking = b, !.target = t]]
           \/ l = "check" /\ \E a \in Staff : work' = [work EXCEPT ![s] =
                               [NoWork EXCEPT !.booking = b, !.assignee = a]]
  BY Zenon DEF Begin
<1>0. /\ UNCHANGED attempt /\ left[s] > 0
      /\ left' = [left EXCEPT ![s] = @ - 1]
  BY DEF Begin
<1>2. ControlOK' /\ \A q \in Proc : pc'[q] = IF q = s THEN l ELSE pc[q]
  <2>1. l \in StaffLabel
    BY DEF StaffLabel
  <2> QED BY <1>0, <1>1, <2>1, StaffMoves DEF IInv, TypeOK
<1>3. RowsOK' /\ SharedOK' /\ CustomerOK'
  BY DEF Begin, IInv, TypeOK, RowsOK, SharedOK, CustomerOK, db, customerVars
<1>4. /\ work' \in [Staff -> Work]
      /\ \A o \in Staff : o # s => work'[o] = work[o]
      /\ work'[s].booking \in Customer
      /\ l = "read" => work'[s].target \in Target
      /\ l = "check" => work'[s].assignee \in Staff
  <2>0. work \in [Staff -> Work]
    BY DEF IInv, TypeOK, StaffOK
  <2>1. CASE l = "read"
    <3>1. PICK t \in Target : work' = [work EXCEPT ![s] =
                               [NoWork EXCEPT !.booking = b, !.target = t]]
      BY <1>1, <2>1
    <3> DEFINE v == [NoWork EXCEPT !.booking = b, !.target = t]
    <3>2. v \in Work /\ v.booking = b /\ v.target = t
      BY WorkStarted
    <3> HIDE DEF v
    <3>3. work' = [work EXCEPT ![s] = v]
      BY <3>1 DEF v
    <3> QED BY <2>0, <2>1, <3>2, <3>3, WorkUpdated
  <2>2. CASE l = "check"
    <3>1. PICK a \in Staff : work' = [work EXCEPT ![s] =
                               [NoWork EXCEPT !.booking = b, !.assignee = a]]
      BY <1>1, <2>2
    <3> DEFINE v == [NoWork EXCEPT !.booking = b, !.assignee = a]
    <3>2. v \in Work /\ v.booking = b /\ v.assignee = a
      BY WorkStarted
    <3> HIDE DEF v
    <3>3. work' = [work EXCEPT ![s] = v]
      BY <3>1 DEF v
    <3> QED BY <2>0, <2>2, <3>2, <3>3, WorkUpdated
  <2> QED BY <2>1, <2>2
<1>5. left' \in [Staff -> 0 .. MaxOps]
  BY <1>0, BookingConstants DEF IInv, TypeOK, StaffOK
<1>6. WorkFilled'
  BY <1>1, <1>2, <1>4 DEF IInv, WorkFilled
<1>7. ReservationCovered'
  BY <1>2, CoverKept, BookingConstants DEF Begin, IInv, db, customerVars
<1> QED BY <1>2, <1>3, <1>4, <1>5, <1>6, <1>7 DEF IInv, TypeOK, StaffOK

LEMMA ReadBookingInv == ASSUME IInv, NEW s \in Staff, ReadBooking(s) PROVE IInv'
<1> DEFINE b == work[s].booking
           t == work[s].target
<1>0. b \in Customer /\ t \in Target
  BY DEF ReadBooking, IInv, WorkFilled
<1>1. RowsOK' /\ SharedOK' /\ CustomerOK'
  BY DEF ReadBooking, IInv, TypeOK, RowsOK, SharedOK, CustomerOK, db, customerVars
<1>2. CASE Leave(s)
  <2>1. ControlOK' /\ StaffOK' /\ WorkFilled' /\ \A q \in Proc : q # s => pc'[q] = pc[q]
    BY <1>2, StaffLeaves DEF ReadBooking
  <2>2. ReservationCovered'
    BY <2>1, CoverKept, BookingConstants DEF ReadBooking, IInv, db, customerVars
  <2> QED BY <1>1, <2>1, <2>2 DEF IInv, TypeOK
<1>3. CASE /\ work' = [work EXCEPT ![s] =
                        [@ EXCEPT !.status = status[b], !.handler = handler[b]]]
           /\ GoTo(s, IF t \in Refunding THEN "refund" ELSE "save")
           /\ UNCHANGED attempt
  <2>1. PICK l \in {"refund", "save"} : GoTo(s, l)
    BY <1>3
  <2>2. ControlOK' /\ \A q \in Proc : pc'[q] = IF q = s THEN l ELSE pc[q]
    BY <1>3, <2>1, StaffMoves DEF IInv, TypeOK, StaffLabel
  <2>3. /\ StaffOK'
        /\ \A o \in Staff : o # s => work'[o] = work[o]
        /\ work'[s].booking = b /\ work'[s].target = t
    <3> DEFINE v == [work[s] EXCEPT !.status = status[b], !.handler = handler[b]]
    <3>1. /\ work \in [Staff -> Work] /\ work[s] \in Work
          /\ status[b] \in Status \cup {"NONE"} /\ handler[b] \in Staff \cup {None}
      BY <1>0 DEF IInv, TypeOK, StaffOK, RowsOK
    <3>2. v \in Work /\ v.booking = b /\ v.target = t
      <4>1. v \in Work
        BY <3>1 DEF Work
      <4>2. v.booking = b /\ v.target = t
        BY <3>1 DEF Work
      <4> QED BY <4>1, <4>2
    <3>3. work' = [work EXCEPT ![s] = v]
      BY <1>3, <3>1
    <3> HIDE DEF v
    <3>4. UNCHANGED left
      BY DEF ReadBooking
    <3> QED BY <3>1, <3>2, <3>3, <3>4, WorkUpdated DEF IInv, TypeOK, StaffOK
  <2>4. WorkFilled'
    BY <1>0, <2>1, <2>2, <2>3 DEF IInv, WorkFilled
  <2>5. ReservationCovered'
    BY <2>2, CoverKept, BookingConstants DEF ReadBooking, IInv, db, customerVars
  <2> QED BY <1>1, <2>2, <2>3, <2>4, <2>5 DEF IInv, TypeOK
<1> QED BY <1>2, <1>3 DEF ReadBooking

LEMMA RefundInv == ASSUME IInv, NEW s \in Staff, Refund(s) PROVE IInv'
<1> DEFINE r == req[work[s].booking].room
<1>0. r \in Room /\ roomLock[r] = None
  BY DEF Refund, IInv, TypeOK, WorkFilled, CustomerOK, Request
<1>1. ControlOK' /\ \A q \in Proc : pc'[q] = IF q = s THEN "save" ELSE pc[q]
  BY StaffMoves DEF Refund, IInv, TypeOK, StaffLabel
<1>2. RowsOK' /\ SharedOK' /\ CustomerOK' /\ StaffOK'
  BY DEF Refund, IInv, TypeOK, RowsOK, SharedOK, CustomerOK, StaffOK,
     db, customerVars, staffVars
<1>3. WorkFilled'
  BY <1>1 DEF Refund, IInv, WorkFilled, staffVars
<1>4. ReservationCovered'
  <2> SUFFICES ASSUME NEW d \in Customer, pc[d] \in InTransaction
               PROVE  roomLock'[req[d].room] = d /\ available[req[d].room] >= req[d].qty
    BY <1>1, BookingConstants DEF ReservationCovered, Refund, db, customerVars
  <2>1. roomLock[req[d].room] = d /\ available[req[d].room] >= req[d].qty
    BY DEF IInv, ReservationCovered
  <2>2. req[d].room \in Room /\ req[d].room # r
    BY <2>1, <1>0, BookingConstants DEF IInv, TypeOK, CustomerOK, Request
  <2> QED BY <2>1, <2>2 DEF Refund, IInv, TypeOK, SharedOK
<1> QED BY <1>1, <1>2, <1>3, <1>4 DEF IInv, TypeOK

\* Returning rooms takes none from under a reservation.
LEMMA SaveStatusInv == ASSUME IInv, NEW s \in Staff, SaveStatus(s) PROVE IInv'
<1> DEFINE b == work[s].booking
           t == work[s].target
<1>0. b \in Customer /\ t \in Target /\ req[b].room \in Room /\ req[b].qty \in Nat
  BY BookingConstants DEF SaveStatus, IInv, TypeOK, WorkFilled, CustomerOK, Request
<1>1. ControlOK' /\ \A q \in Proc : pc'[q] = IF q = s THEN "emit" ELSE pc[q]
  BY StaffMoves DEF SaveStatus, IInv, TypeOK, StaffLabel
<1>2. /\ available' \in [Room -> Nat]
      /\ \A r \in Room : available'[r] >= available[r]
  BY <1>0 DEF SaveStatus, RefundedQty, IInv, TypeOK, RowsOK
<1>3. RowsOK'
  <2>1. status' \in [Customer -> Status \cup {"NONE"}]
    BY <1>0 DEF SaveStatus, IInv, TypeOK, RowsOK, Target
  <2>2. handler' \in [Customer -> Staff \cup {None}]
    BY DEF SaveStatus, IInv, TypeOK, RowsOK
  <2>3. log' \in [Customer -> Seq([old : Status \cup {"NONE"}, new : Status])]
    <3>1. Entry(work[s].status, t) \in [old : Status \cup {"NONE"}, new : Status]
      BY <1>0 DEF Entry, IInv, TypeOK, StaffOK, Work, Target
    <3>2. log' = [log EXCEPT ![b] = Append(@, Entry(work[s].status, t))]
      BY DEF SaveStatus, Logged
    <3>3. log[b] \in Seq([old : Status \cup {"NONE"}, new : Status])
      BY <1>0 DEF IInv, TypeOK, RowsOK
    <3>4. Append(log[b], Entry(work[s].status, t))
            \in Seq([old : Status \cup {"NONE"}, new : Status])
      BY <3>1, <3>3
    <3> HIDE DEF b, t
    <3> QED BY <3>2, <3>4 DEF IInv, TypeOK, RowsOK
  <2> QED BY <1>2, <2>1, <2>2, <2>3 DEF RowsOK
<1>4. SharedOK'
  BY Unlocking DEF SaveStatus, IInv, TypeOK, SharedOK
<1>5. CustomerOK' /\ StaffOK'
  BY DEF SaveStatus, IInv, TypeOK, CustomerOK, StaffOK, customerVars, staffVars
<1>6. WorkFilled'
  BY <1>0, <1>1 DEF SaveStatus, IInv, WorkFilled, staffVars
<1>7. ReservationCovered'
  <2> SUFFICES ASSUME NEW d \in Customer, pc[d] \in InTransaction
               PROVE  roomLock'[req[d].room] = d /\ available'[req[d].room] >= req[d].qty
    BY <1>1, BookingConstants DEF ReservationCovered, SaveStatus, customerVars
  <2>1. roomLock[req[d].room] = d /\ available[req[d].room] >= req[d].qty
    BY DEF IInv, ReservationCovered
  <2>2. req[d].room \in Room /\ req[d].qty \in Nat /\ available[req[d].room] \in Nat
    BY BookingConstants DEF IInv, TypeOK, CustomerOK, RowsOK, Request
  <2>3. roomLock'[req[d].room] = d
    BY <2>1, <2>2, Unlocking, BookingConstants DEF SaveStatus, IInv, TypeOK
  <2> QED BY <1>2, <2>1, <2>2, <2>3
<1> QED BY <1>1, <1>3, <1>4, <1>5, <1>6, <1>7 DEF IInv, TypeOK

LEMMA CheckBookingInv == ASSUME IInv, NEW s \in Staff, CheckBooking(s) PROVE IInv'
<1> DEFINE b == work[s].booking
<1>0. b \in Customer /\ work[s].assignee \in Staff
  BY DEF CheckBooking, IInv, WorkFilled
<1>1. RowsOK' /\ SharedOK' /\ CustomerOK'
  BY DEF CheckBooking, IInv, TypeOK, RowsOK, SharedOK, CustomerOK, db, customerVars
<1>2. CASE Leave(s)
  <2>1. ControlOK' /\ StaffOK' /\ WorkFilled' /\ \A q \in Proc : q # s => pc'[q] = pc[q]
    BY <1>2, StaffLeaves DEF CheckBooking
  <2>2. ReservationCovered'
    BY <2>1, CoverKept, BookingConstants DEF CheckBooking, IInv, db, customerVars
  <2> QED BY <1>1, <2>1, <2>2 DEF IInv, TypeOK
<1>3. CASE /\ status[b] \in Reassignable
           /\ work' = [work EXCEPT ![s] = [@ EXCEPT !.status = status[b]]]
           /\ GoTo(s, "load")
           /\ UNCHANGED attempt
  <2>1. ControlOK' /\ \A q \in Proc : pc'[q] = IF q = s THEN "load" ELSE pc[q]
    BY <1>3, StaffMoves DEF IInv, TypeOK, StaffLabel
  <2>2. /\ StaffOK'
        /\ \A o \in Staff : o # s => work'[o] = work[o]
        /\ work'[s].booking = b /\ work'[s].assignee = work[s].assignee
        /\ work'[s].status = status[b]
    <3> DEFINE v == [work[s] EXCEPT !.status = status[b]]
    <3>1. /\ work \in [Staff -> Work] /\ work[s] \in Work
          /\ status[b] \in Status \cup {"NONE"}
      BY <1>0 DEF IInv, TypeOK, StaffOK, RowsOK
    <3>2. v \in Work /\ v.booking = b /\ v.assignee = work[s].assignee /\ v.status = status[b]
      BY <3>1, WorkChecked
    <3>3. work' = [work EXCEPT ![s] = v]
      BY <1>3, <3>1
    <3> HIDE DEF v
    <3>4. UNCHANGED left
      BY DEF CheckBooking
    <3> QED BY <3>1, <3>2, <3>3, <3>4, WorkUpdated DEF IInv, TypeOK, StaffOK
  <2>3. WorkFilled'
    BY <1>0, <1>3, <2>1, <2>2 DEF IInv, WorkFilled
  <2>4. ReservationCovered'
    BY <2>1, CoverKept, BookingConstants DEF CheckBooking, IInv, db, customerVars
  <2> QED BY <1>1, <2>1, <2>2, <2>3, <2>4 DEF IInv, TypeOK
<1> QED BY <1>2, <1>3 DEF CheckBooking

LEMMA LoadBookingInv == ASSUME IInv, NEW s \in Staff, LoadBooking(s) PROVE IInv'
<1> DEFINE b == work[s].booking
<1>0. b \in Customer /\ work[s].assignee \in Staff /\ work[s].status \in Reassignable
  BY DEF LoadBooking, IInv, WorkFilled
<1>1. ControlOK' /\ \A q \in Proc : pc'[q] = IF q = s THEN "write" ELSE pc[q]
  BY StaffMoves DEF LoadBooking, IInv, TypeOK, StaffLabel
<1>2. RowsOK' /\ SharedOK' /\ CustomerOK'
  BY DEF LoadBooking, IInv, TypeOK, RowsOK, SharedOK, CustomerOK, db, customerVars
<1>3. /\ StaffOK'
      /\ \A o \in Staff : o # s => work'[o] = work[o]
      /\ work'[s].booking = b /\ work'[s].assignee = work[s].assignee
      /\ work'[s].status = work[s].status
  <2> DEFINE v == [work[s] EXCEPT !.loaded = [status |-> status[b], handler |-> handler[b]]]
  <2>1. /\ work \in [Staff -> Work] /\ work[s] \in Work
        /\ status[b] \in Status \cup {"NONE"} /\ handler[b] \in Staff \cup {None}
    BY <1>0 DEF IInv, TypeOK, StaffOK, RowsOK
  <2>2. /\ v \in Work /\ v.booking = b
        /\ v.assignee = work[s].assignee /\ v.status = work[s].status
    BY <2>1 DEF Work
  <2>3. work' = [work EXCEPT ![s] = v]
    BY <2>1 DEF LoadBooking
  <2> HIDE DEF v
  <2>4. UNCHANGED left
    BY DEF LoadBooking
  <2> QED BY <2>1, <2>2, <2>3, <2>4, WorkUpdated DEF IInv, TypeOK, StaffOK
<1>4. WorkFilled'
  BY <1>0, <1>1, <1>3 DEF IInv, WorkFilled
<1>5. ReservationCovered'
  BY <1>1, CoverKept, BookingConstants DEF LoadBooking, IInv, db, customerVars
<1> QED BY <1>1, <1>2, <1>3, <1>4, <1>5 DEF IInv, TypeOK

LEMMA SaveHandlerInv == ASSUME IInv, NEW s \in Staff, SaveHandler(s) PROVE IInv'
<1>0. /\ work[s].booking \in Customer /\ work[s].assignee \in Staff
      /\ work[s].status \in Reassignable
  BY DEF SaveHandler, IInv, WorkFilled
<1>1. ControlOK' /\ \A q \in Proc : pc'[q] = IF q = s THEN "emit" ELSE pc[q]
  BY StaffMoves DEF SaveHandler, IInv, TypeOK, StaffLabel
<1>2. RowsOK'
  BY <1>0 DEF SaveHandler, Overwrite, Logged, Entry, IInv, TypeOK, RowsOK, Reassignable, Status
<1>3. SharedOK' /\ CustomerOK' /\ StaffOK'
  BY DEF SaveHandler, IInv, TypeOK, SharedOK, CustomerOK, StaffOK, customerVars, staffVars
<1>4. WorkFilled'
  BY <1>0, <1>1 DEF SaveHandler, IInv, WorkFilled, staffVars
<1>5. ReservationCovered'
  BY <1>1, CoverKept, BookingConstants DEF SaveHandler, IInv, customerVars
<1> QED BY <1>1, <1>2, <1>3, <1>4, <1>5 DEF IInv, TypeOK

LEMMA EmitStatusInv == ASSUME IInv, NEW s \in Staff, EmitStatus(s) PROVE IInv'
<1>1. ControlOK' /\ StaffOK' /\ WorkFilled' /\ \A q \in Proc : q # s => pc'[q] = pc[q]
  BY StaffLeaves DEF EmitStatus
<1>2. RowsOK' /\ CustomerOK'
  BY DEF EmitStatus, IInv, TypeOK, RowsOK, CustomerOK, db, customerVars
<1>3. SharedOK'
  <2>1. /\ work[s].booking \in Customer
        /\ work[s].status \in Status \cup {"NONE"}
        /\ (IF work[s].target = "NONE" THEN work[s].status ELSE work[s].target) \in Status
    BY DEF EmitStatus, IInv, TypeOK, StaffOK, Work, WorkFilled, Reassignable, Status, Target
  <2> QED BY <2>1 DEF EmitStatus, Event, IInv, TypeOK, SharedOK
<1>4. ReservationCovered'
  BY <1>1, CoverKept, BookingConstants DEF EmitStatus, IInv, db, customerVars
<1> QED BY <1>1, <1>2, <1>3, <1>4 DEF IInv, TypeOK

-----------------------------------------------------------------------------
(* Failures *)

\* A roll back frees the locks of one process and leaves the other
\* reservations covered.
LEMMA RolledBack ==
  ASSUME IInv, NEW p \in Proc, roomLock' = Unlocked(p),
         available' = available, req' = req,
         \A q \in Proc : q # p => pc'[q] = pc[q],
         p \in Customer => pc'[p] \notin InTransaction
  PROVE  ReservationCovered'
<1> SUFFICES ASSUME NEW d \in Customer, pc'[d] \in InTransaction
             PROVE  roomLock'[req[d].room] = d /\ available[req[d].room] >= req[d].qty
  BY DEF ReservationCovered
<1>1. d # p /\ pc[d] \in InTransaction
  OBVIOUS
<1>2. roomLock[req[d].room] = d /\ available[req[d].room] >= req[d].qty
  BY <1>1 DEF IInv, ReservationCovered
<1>3. req[d].room \in Room
  BY DEF IInv, TypeOK, CustomerOK, Request
<1>4. Unlocked(p)[req[d].room] = d
  BY <1>1, <1>2, <1>3, Unlocking DEF IInv, TypeOK
<1> QED BY <1>2, <1>4

LEMMA TransientErrorInv == ASSUME IInv, NEW p \in Proc, TransientError(p) PROVE IInv'
<1>1. attempt' \in [Proc -> 0 .. MaxRetries]
  BY BookingConstants DEF TransientError, IInv, TypeOK, ControlOK
<1>2. RowsOK' /\ CustomerOK' /\ StaffOK'
  BY DEF TransientError, IInv, TypeOK, RowsOK, CustomerOK, StaffOK, db, customerVars, staffVars
<1>3. SharedOK'
  BY Unlocking DEF TransientError, IInv, TypeOK, SharedOK
<1>4. \A q \in Proc : q # p => pc'[q] = pc[q]
  BY DEF TransientError, GoTo, IInv, TypeOK, ControlOK
<1>5. CASE p \in Customer
  <2>1. pc[p] \in {"reserve", "insert"}
    BY <1>5 DEF TransientError, RestartAt, IInv, TypeOK, ControlOK, CustomerLabel,
       InTransaction, Final
  <2>2. pc' = [pc EXCEPT ![p] = "reserve"]
    <3>1. RestartAt[pc[p]] = "reserve"
      BY <2>1 DEF RestartAt
    <3> QED BY <3>1 DEF TransientError, GoTo
  <2>3. ControlOK' /\ pc'[p] = "reserve"
    BY <1>1, <1>5, <2>2, BookingConstants DEF IInv, TypeOK, ControlOK, CustomerLabel
  <2>4. WorkFilled'
    BY <1>4, <1>5, WorkKept DEF TransientError, IInv, staffVars
  <2>5. ReservationCovered'
    BY <1>4, <2>3, RolledBack DEF TransientError, db, customerVars, InTransaction
  <2> QED BY <1>2, <1>3, <2>3, <2>4, <2>5 DEF IInv, TypeOK
<1>6. CASE p \in Staff
  <2>1. pc[p] \in {"refund", "save", "write"}
    BY <1>6 DEF TransientError, RestartAt, IInv, TypeOK, ControlOK, StaffLabel
  <2>2. pc' = [pc EXCEPT ![p] = IF pc[p] = "write" THEN "load" ELSE "read"]
    <3>1. RestartAt[pc[p]] = IF pc[p] = "write" THEN "load" ELSE "read"
      BY <2>1 DEF RestartAt
    <3> QED BY <3>1 DEF TransientError, GoTo
  <2>3. /\ ControlOK'
        /\ pc'[p] = IF pc[p] = "write" THEN "load" ELSE "read"
    BY <1>1, <1>6, <2>2, BookingConstants DEF IInv, TypeOK, ControlOK, StaffLabel
  <2>4. WorkFilled'
    BY <1>4, <2>1, <2>3 DEF TransientError, IInv, WorkFilled, staffVars
  <2>5. ReservationCovered'
    BY <1>4, <1>6, BookingConstants, RolledBack DEF TransientError, db, customerVars
  <2> QED BY <1>2, <1>3, <2>3, <2>4, <2>5 DEF IInv, TypeOK
<1> QED BY <1>5, <1>6

LEMMA FailCustomerInv == ASSUME IInv, NEW c \in Customer, FailCustomer(c) PROVE IInv'
<1>1. ControlOK' /\ \A q \in Proc : pc'[q] = IF q = c THEN "failed" ELSE pc[q]
  BY CustomerMoves DEF FailCustomer, IInv, TypeOK, CustomerLabel, Final
<1>2. RowsOK' /\ CustomerOK' /\ StaffOK'
  BY DEF FailCustomer, NoDraft, IInv, TypeOK, RowsOK, CustomerOK, StaffOK, db, staffVars
<1>3. SharedOK'
  BY Unlocking DEF FailCustomer, IInv, TypeOK, SharedOK
<1>4. WorkFilled'
  BY <1>1, WorkKept DEF FailCustomer, IInv, staffVars
<1>5. ReservationCovered'
  BY <1>1, RolledBack DEF FailCustomer, db, InTransaction
<1> QED BY <1>1, <1>2, <1>3, <1>4, <1>5 DEF IInv, TypeOK

LEMMA FailStaffInv == ASSUME IInv, NEW s \in Staff, FailStaff(s) PROVE IInv'
<1>1. ControlOK' /\ StaffOK' /\ WorkFilled' /\ \A q \in Proc : q # s => pc'[q] = pc[q]
  BY StaffLeaves DEF FailStaff
<1>2. RowsOK' /\ CustomerOK'
  BY DEF FailStaff, IInv, TypeOK, RowsOK, CustomerOK, db, customerVars
<1>3. SharedOK'
  BY Unlocking DEF FailStaff, IInv, TypeOK, SharedOK
<1>4. ReservationCovered'
  BY <1>1, BookingConstants, RolledBack DEF FailStaff, db, customerVars
<1> QED BY <1>1, <1>2, <1>3, <1>4 DEF IInv, TypeOK

LEMMA ExpireKeyInv == ASSUME IInv, NEW k \in Key, ExpireKey(k) PROVE IInv'
<1>1. RowsOK' /\ ControlOK' /\ CustomerOK' /\ StaffOK' /\ WorkFilled' /\ ReservationCovered'
  BY DEF ExpireKey, IInv, TypeOK, RowsOK, ControlOK, CustomerOK, StaffOK, WorkFilled,
     ReservationCovered, db, customerVars, staffVars
<1>2. SharedOK'
  BY DEF ExpireKey, IInv, TypeOK, SharedOK
<1> QED BY <1>1, <1>2 DEF IInv, TypeOK

-----------------------------------------------------------------------------
LEMMA InitInv == Init => IInv
  BY BookingConstants DEF Init, IInv, TypeOK, RowsOK, SharedOK, ControlOK, CustomerOK, StaffOK,
     Work, WorkFilled, ReservationCovered, CustomerLabel, StaffLabel, InTransaction, Final,
     NoDraft, NoWork, Status, Target, Request

LEMMA NextInv == IInv /\ [Next]_vars => IInv'
<1> SUFFICES ASSUME IInv, [Next]_vars PROVE IInv'
  OBVIOUS
<1>1. ASSUME NEW c \in Customer, CustomerStep(c) PROVE IInv'
  BY <1>1, CheckKeyInv, ReadRoomInv, ReserveInv, InsertInv, AssignInv, CommitInv,
     StoreKeyInv, EmitCreatedInv DEF CustomerStep
<1>2. ASSUME NEW s \in Staff, StaffStep(s) PROVE IInv'
  BY <1>2, ReadBookingInv, RefundInv, SaveStatusInv, CheckBookingInv, LoadBookingInv,
     SaveHandlerInv, EmitStatusInv DEF StaffStep
<1>3. CASE UNCHANGED vars
  BY <1>3 DEF vars, IInv, TypeOK, RowsOK, SharedOK, ControlOK, CustomerOK, StaffOK,
     WorkFilled, ReservationCovered, db, customerVars, staffVars
<1> QED BY <1>1, <1>2, <1>3, BeginInv, FailCustomerInv, FailStaffInv, TransientErrorInv,
        ExpireKeyInv DEF Next, Idle

\* Every reachable state is well-typed; above all, no interleaving of create()s,
\* cancellations, roll backs and retries takes available_rooms below zero.
THEOREM TypeCorrect == Spec => []TypeOK
<1>1. IInv => TypeOK
  BY DEF IInv
<1> QED BY <1>1, InitInv, NextInv, PTL DEF Spec

\* A create() inside its transaction owns its room's row, which still has the
\* rooms the COMMIT will take: the conditional UPDATE decides once and for all.
THEOREM ReservationsCovered == Spec => []ReservationCovered
<1>1. IInv => ReservationCovered
  BY DEF IInv
<1> QED BY <1>1, InitInv, NextInv, PTL DEF Spec
=============================================================================
