-------------------------- MODULE InventoryProofs --------------------------
(***************************************************************************)
(* Theorems about Inventory: the invariant of Bookings survives the edits of  *)
(* the rooms it books, for any number of editors and any edit.                *)
(***************************************************************************)
EXTENDS Inventory, LedgerProofs

\* An edit that replaces the services of its room carries a list of them.
EditFilled ==
  \A e \in Editor : phase[e] \in {"unassign", "assign"} => edit[e].services # None

AdminInv == Admin!AdminTypeOK /\ EditFilled

InventoryInv == IInv /\ AdminInv

USE DEF Proc

-----------------------------------------------------------------------------
(* What an edit leaves to the bookings *)

\* An edit that changes only stock that no transaction has locked.
LEMMA EditsKeepBookings ==
  ASSUME IInv, available' \in [Room -> Nat],
         \A r \in Room : roomLock[r] # None => available'[r] = available[r],
         UNCHANGED <<status, handler, log, stored, events, pc, attempt, customerVars, staffVars>>,
         roomLock' = roomLock
  PROVE  IInv'
<1>1. RowsOK' /\ SharedOK'
  BY DEF IInv, TypeOK, RowsOK, SharedOK
<1>2. ControlOK' /\ CustomerOK' /\ StaffOK' /\ WorkFilled'
  BY DEF IInv, TypeOK, ControlOK, CustomerOK, StaffOK, WorkFilled, customerVars, staffVars
<1>3. ReservationCovered'
  <2> SUFFICES ASSUME NEW c \in Customer, pc[c] \in InTransaction
               PROVE  roomLock[req[c].room] = c /\ available'[req[c].room] >= req[c].qty
    BY DEF ReservationCovered, customerVars
  <2>1. roomLock[req[c].room] = c /\ available[req[c].room] >= req[c].qty
    BY DEF IInv, ReservationCovered
  <2>2. c # None /\ req[c].room \in Room
    BY BookingConstants DEF IInv, TypeOK, CustomerOK, Request
  <2> QED BY <2>1, <2>2
<1> QED BY <1>1, <1>2, <1>3 DEF IInv, TypeOK

-----------------------------------------------------------------------------
(* One lemma for each action of RoomAdmin: it keeps the edits well typed ...  *)

USE DEF Admin!To, AdminInv, Admin!AdminTypeOK, EditFilled, Admin!Phase

LEMMA EndKeeps ==
  ASSUME AdminInv, NEW e \in Editor, Admin!End(e), UNCHANGED <<total, removed, services, editsLeft>>
  PROVE  AdminInv'
  BY DEF Admin!End, Admin!NoColumns, Admin!Columns

LEMMA BeginEditKeeps == ASSUME AdminInv, NEW e \in Editor, Admin!BeginEdit(e) PROVE AdminInv'
<1>1. None \in Totals /\ None \in Availables
  BY InventoryConstants
<1> QED BY <1>1, InventoryConstants DEF Admin!BeginEdit, Admin!Edit, Admin!NoEdit

LEMMA FindRoomKeeps == ASSUME AdminInv, NEW e \in Editor, Admin!FindRoom(e),
                              available \in [Room -> Nat] PROVE AdminInv'
<1>1. CASE Admin!End(e)
  BY <1>1, EndKeeps DEF Admin!FindRoom
<1>2. CASE ~Admin!End(e)
  <2>1. edit[e] \in Admin!Edit
    BY <1>2 DEF Admin!FindRoom
  <2>2. Admin!Merged(edit[e], edit[e].room) \in Admin!Columns
    BY <2>1, InventoryConstants DEF Admin!Merged, Admin!Given, Admin!Columns, Admin!Edit
  <2> QED BY <1>2, <2>1, <2>2 DEF Admin!FindRoom
<1> QED BY <1>1, <1>2

LEMMA UnassignKeeps == ASSUME AdminInv, NEW e \in Editor, Admin!Unassign(e) PROVE AdminInv'
  BY DEF Admin!Unassign

LEMMA AssignKeeps == ASSUME AdminInv, NEW e \in Editor, Admin!Assign(e) PROVE AdminInv'
<1>1. edit[e] \in Admin!Edit /\ edit[e].services # None
  BY DEF Admin!Assign
<1>2. edit[e].services \subseteq Service
  BY <1>1, InventoryConstants DEF Admin!Edit
<1>3. services' \in [Room -> SUBSET Service]
  BY <1>1, <1>2 DEF Admin!Assign, Admin!Edit
<1>4. CASE Admin!End(e)
  BY <1>3, <1>4 DEF Admin!Assign, Admin!End, Admin!NoColumns, Admin!Columns
<1>5. CASE phase' = [phase EXCEPT ![e] = "load"] /\ UNCHANGED <<edit, entity, row>>
  BY <1>3, <1>5 DEF Admin!Assign
<1> QED BY <1>4, <1>5 DEF Admin!Assign

LEMMA LoadRoomKeeps == ASSUME AdminInv, NEW e \in Editor, Admin!LoadRoom(e),
                              available \in [Room -> Nat] PROVE AdminInv'
  BY DEF Admin!LoadRoom, Admin!RowOf, Admin!Columns, Admin!Edit

LEMMA WriteRoomKeeps == ASSUME AdminInv, NEW e \in Editor, Admin!WriteRoom(e) PROVE AdminInv'
<1>1. /\ total' \in [Room -> Nat] /\ removed' \in [Room -> BOOLEAN]
  BY DEF Admin!WriteRoom, Admin!Column, Admin!Columns
<1> QED BY <1>1 DEF Admin!WriteRoom, Admin!End, Admin!NoColumns, Admin!Columns

LEMMA FindRemovedKeeps == ASSUME AdminInv, NEW e \in Editor, Admin!FindRemoved(e) PROVE AdminInv'
  BY EndKeeps DEF Admin!FindRemoved

LEMMA SoftDeleteKeeps == ASSUME AdminInv, NEW e \in Editor, Admin!SoftDelete(e) PROVE AdminInv'
  BY DEF Admin!SoftDelete, Admin!End, Admin!NoColumns, Admin!Columns

LEMMA FailEditKeeps == ASSUME AdminInv, NEW e \in Editor, Admin!FailEdit(e) PROVE AdminInv'
  BY EndKeeps DEF Admin!FailEdit

-----------------------------------------------------------------------------
(* ... and takes or gives no room that a transaction has locked.              *)

LEMMA AdminStepStock ==
  ASSUME AdminInv, available \in [Room -> Nat], Admin!AdminNext
  PROVE  /\ available' \in [Room -> Nat] /\ roomLock' = roomLock
         /\ \A r \in Room : roomLock[r] # None => available'[r] = available[r]
<1>1. PICK e \in Editor : Admin!BeginEdit(e) \/ Admin!EditorStep(e) \/ Admin!FailEdit(e)
  BY DEF Admin!AdminNext
<1>2. CASE Admin!WriteRoom(e)
  <2>1. row[e] = entity[e] \/ roomLock[edit[e].room] = None
    BY <1>2 DEF Admin!WriteRoom, Admin!IsFree
  <2>2. available' = [available EXCEPT ![edit[e].room] =
                        Admin!Column(@, row[e].available, entity[e].available)]
        /\ roomLock' = roomLock
    BY <1>2 DEF Admin!WriteRoom
  <2>3. row[e].available \in Nat /\ entity[e].available \in Nat
    BY DEF Admin!Columns
  <2> QED BY <2>1, <2>2, <2>3 DEF Admin!Column
<1>3. CASE ~Admin!WriteRoom(e)
  BY <1>1, <1>3 DEF Admin!EditorStep, Admin!BeginEdit, Admin!FindRoom, Admin!Unassign,
     Admin!Assign, Admin!LoadRoom, Admin!FindRemoved, Admin!SoftDelete, Admin!FailEdit
<1> QED BY <1>2, <1>3

-----------------------------------------------------------------------------
LEMMA InventoryInitInv == InventoryInit => InventoryInv
<1> SUFFICES ASSUME InventoryInit PROVE InventoryInv
  OBVIOUS
<1>1. IInv
  BY InitInv DEF InventoryInit
<1>2. ServiceLists \cup {{}} \subseteq SUBSET Service
  BY InventoryConstants
<1>3. AdminInv
  <2>1. total \in [Room -> Nat] /\ services \in [Room -> SUBSET Service]
    BY <1>1, <1>2 DEF InventoryInit, Admin!AdminInit, IInv, TypeOK, RowsOK
  <2> QED BY <2>1, InventoryConstants DEF InventoryInit, Admin!AdminInit, Admin!NoColumns,
             Admin!Columns
<1> QED BY <1>1, <1>3 DEF InventoryInv

LEMMA InventoryNextInv == InventoryInv /\ [InventoryNext]_inventoryVars => InventoryInv'
<1> SUFFICES ASSUME InventoryInv, [InventoryNext]_inventoryVars PROVE InventoryInv'
  OBVIOUS
<1>0. IInv /\ AdminInv /\ available \in [Room -> Nat]
  BY DEF InventoryInv, IInv, TypeOK, RowsOK
<1>1. CASE BookingStep
  <2>1. IInv'
    BY <1>0, <1>1, NextInv DEF BookingStep
  <2>2. AdminInv'
    BY <1>0, <1>1 DEF BookingStep, adminVars
  <2> QED BY <2>1, <2>2 DEF InventoryInv
<1>2. CASE AdminStep
  <2>1. IInv'
    BY <1>0, <1>2, AdminStepStock, EditsKeepBookings DEF AdminStep
  <2>2. AdminInv'
    BY <1>0, <1>2, BeginEditKeeps, FindRoomKeeps, UnassignKeeps, AssignKeeps, LoadRoomKeeps,
       WriteRoomKeeps, FindRemovedKeeps, SoftDeleteKeeps, FailEditKeeps
       DEF AdminStep, Admin!AdminNext, Admin!EditorStep
  <2> QED BY <2>1, <2>2 DEF InventoryInv
<1>3. CASE UNCHANGED inventoryVars
  <2>1. UNCHANGED vars /\ UNCHANGED adminVars
    BY <1>3 DEF inventoryVars
  <2>2. IInv'
    BY <1>0, <2>1, NextInv
  <2>3. AdminInv'
    BY <1>0, <2>1 DEF adminVars
  <2> QED BY <2>2, <2>3 DEF InventoryInv
<1> QED BY <1>1, <1>2, <1>3 DEF InventoryNext

\* Rooms, edits and bookings stay well typed together: whatever an edit writes
\* back, available_rooms does not go below zero.
THEOREM InventoryTypeCorrect == InventorySpec => []InventoryTypeOK
<1>1. InventoryInv => InventoryTypeOK
  BY DEF InventoryInv, IInv, InventoryTypeOK
<1> QED BY <1>1, InventoryInitInv, InventoryNextInv, PTL DEF InventorySpec

\* While a create() is between its conditional UPDATE and COMMIT, no edit of
\* its room, however stale, takes the rooms away that it has reserved.
THEOREM EditsRespectReservationsAlways == InventorySpec => []EditsRespectReservations
<1>1. InventoryInv => EditsRespectReservations
  BY DEF InventoryInv, IInv, EditsRespectReservations
<1> QED BY <1>1, InventoryInitInv, InventoryNextInv, PTL DEF InventorySpec

-----------------------------------------------------------------------------
(* The services of a room                                                     *)

\* No two edits of one room overlap.
EditsOneByOne ==
  \A e, f \in Editor :
    phase[e] # "idle" /\ phase[f] # "idle" /\ edit[e].room = edit[f].room => e = f

\* Between its DELETE and its INSERT an edit has the room without services.
ListInv ==
  /\ ServicesAreOneList
  /\ \A e \in Editor : phase[e] = "assign" => services[edit[e].room] = {}

LEMMA AssignList ==
  ASSUME AdminInv, ListInv, EditsOneByOne, NEW e \in Editor, Admin!Assign(e) PROVE ListInv'
<1>1. /\ phase[e] = "assign" /\ edit[e] \in Admin!Edit /\ edit[e].services # None
      /\ services[edit[e].room] = {}
  BY DEF Admin!Assign, ListInv
<1>2. edit[e].services \in ServiceLists /\ edit[e].room \in Room
  BY <1>1 DEF Admin!Edit
<1>3. /\ services' = [services EXCEPT ![edit[e].room] = edit[e].services]
      /\ phase' = [phase EXCEPT ![e] = "load"] /\ UNCHANGED edit
  BY <1>1 DEF Admin!Assign
<1>4. ServicesAreOneList'
  BY <1>2, <1>3 DEF ListInv, ServicesAreOneList
<1>5. \A f \in Editor : phase'[f] = "assign" => services'[edit'[f].room] = {}
  <2> SUFFICES ASSUME NEW f \in Editor, phase'[f] = "assign"
               PROVE  services'[edit'[f].room] = {}
    OBVIOUS
  <2>1. f # e /\ phase[f] = "assign"
    BY <1>3
  <2>2. edit[f].room # edit[e].room
    BY <1>1, <2>1 DEF EditsOneByOne
  <2>3. edit[f].room \in Room
    BY <2>1 DEF Admin!Edit
  <2> QED BY <1>3, <2>1, <2>2, <2>3 DEF ListInv
<1> QED BY <1>4, <1>5 DEF ListInv

LEMMA UnassignList ==
  ASSUME AdminInv, ListInv, NEW e \in Editor, Admin!Unassign(e) PROVE ListInv'
<1>1. phase[e] = "unassign" /\ edit[e] \in Admin!Edit
  BY DEF Admin!Unassign
<1>2. /\ services' = [services EXCEPT ![edit[e].room] = {}] /\ UNCHANGED edit
      /\ \A f \in Editor : phase'[f] = "assign" => f = e \/ phase[f] = "assign"
  BY DEF Admin!Unassign
<1>3. ServicesAreOneList'
  BY <1>1, <1>2 DEF ListInv, ServicesAreOneList
<1>4. \A f \in Editor : phase'[f] = "assign" => services'[edit'[f].room] = {}
  <2> SUFFICES ASSUME NEW f \in Editor, phase'[f] = "assign"
               PROVE  services'[edit'[f].room] = {}
    OBVIOUS
  <2>1. edit[f] \in Admin!Edit /\ (f = e \/ services[edit[f].room] = {})
    BY <1>1, <1>2 DEF ListInv
  <2>2. edit[f].room \in Room
    BY <2>1 DEF Admin!Edit
  <2> QED BY <1>2, <2>1, <2>2
<1> QED BY <1>3, <1>4 DEF ListInv

\* The other steps leave the services alone and bring no edit to its INSERT.
LEMMA OtherList ==
  ASSUME AdminInv, ListInv, services' = services,
         \A f \in Editor : phase'[f] = "assign" => phase[f] = "assign" /\ edit'[f] = edit[f]
  PROVE  ListInv'
  BY DEF ListInv, ServicesAreOneList

LEMMA ListNext ==
  ASSUME InventoryInv, ListInv, EditsOneByOne, [InventoryNext]_inventoryVars PROVE ListInv'
<1>0. AdminInv
  BY DEF InventoryInv
<1>1. CASE BookingStep \/ UNCHANGED inventoryVars
  BY <1>0, <1>1, OtherList DEF BookingStep, adminVars, inventoryVars
<1>2. CASE AdminStep
  <2>1. PICK e \in Editor : Admin!BeginEdit(e) \/ Admin!EditorStep(e) \/ Admin!FailEdit(e)
    BY <1>2 DEF AdminStep, Admin!AdminNext
  <2>2. CASE Admin!Unassign(e)
    BY <1>0, <2>2, UnassignList
  <2>3. CASE Admin!Assign(e)
    BY <1>0, <2>3, AssignList
  <2>4. CASE ~Admin!Unassign(e) /\ ~Admin!Assign(e)
    <3>1. services' = services
      BY <2>1, <2>4 DEF Admin!EditorStep, Admin!BeginEdit, Admin!FindRoom, Admin!LoadRoom,
         Admin!WriteRoom, Admin!FindRemoved, Admin!SoftDelete, Admin!FailEdit
    <3>2. \A f \in Editor : phase'[f] = "assign" => phase[f] = "assign" /\ edit'[f] = edit[f]
      BY <1>0, <2>1, <2>4 DEF Admin!EditorStep, Admin!BeginEdit, Admin!FindRoom, Admin!LoadRoom,
         Admin!WriteRoom, Admin!FindRemoved, Admin!SoftDelete, Admin!FailEdit, Admin!End
    <3> QED BY <1>0, <3>1, <3>2, OtherList
  <2> QED BY <2>2, <2>3, <2>4
<1> QED BY <1>1, <1>2 DEF InventoryNext

\* The services of a room are one list that was asked for, or none, whatever
\* fails half way: as long as no two edits of the room overlap.
THEOREM ServicesStayOneList == InventorySpec /\ []EditsOneByOne => []ServicesAreOneList
<1>1. InventoryInit => ListInv
  BY DEF InventoryInit, Admin!AdminInit, ListInv, ServicesAreOneList
<1>2. InventorySpec => []InventoryInv
  BY InventoryInitInv, InventoryNextInv, PTL DEF InventorySpec
<1>3. InventoryInv /\ ListInv /\ EditsOneByOne /\ [InventoryNext]_inventoryVars => ListInv'
  BY ListNext
<1>4. ListInv => ServicesAreOneList
  BY DEF ListInv
<1> QED BY <1>1, <1>2, <1>3, <1>4, PTL DEF InventorySpec

-----------------------------------------------------------------------------
(* What Bookings promises while its rooms are edited                          *)

\* Logs, events and answers name no counter of a room.
Promises ==
  HistoryInv /\ ChainInv /\ LoggedInv /\ EventsAreCommitted /\ AnswerIsDurable

LEMMA EditsKeepPromises ==
  ASSUME Promises, IInv',
         UNCHANGED <<status, handler, log, stored, events, pc, attempt, customerVars, staffVars>>
  PROVE  Promises'
<1>1. RowsExist' /\ StaffKnows' /\ Exclusive'
  BY DEF Promises, HistoryInv, RowsExist, StaffKnows, Exclusive, Knows, UpToDate, staffVars,
     customerVars
<1>2. LoggedInv' /\ EventsAreCommitted' /\ AnswerIsDurable'
  BY DEF Promises, LoggedInv, StatusIsLogged, SeenPending, EventsAreCommitted, AnswerIsDurable,
     SameKey, customerVars, staffVars
<1>3. ChainInv'
  BY DEF Promises, ChainInv, StatusLogged, LogIsChain
<1> QED BY <1>1, <1>2, <1>3 DEF Promises, HistoryInv

LEMMA PromisesNext ==
  InventoryInv /\ InventoryInv' /\ Promises /\ [InventoryNext]_inventoryVars => Promises'
<1> SUFFICES ASSUME InventoryInv, InventoryInv', Promises, [InventoryNext]_inventoryVars
             PROVE  Promises'
  OBVIOUS
<1>1. CASE AdminStep
  BY <1>1, EditsKeepPromises DEF AdminStep, InventoryInv
<1>2. CASE ~AdminStep
  <2>1. [Next]_vars
    BY <1>2 DEF InventoryNext, BookingStep, inventoryVars
  <2>2. ChainInv'
    BY <2>1, ChainNext DEF Promises, ChainInv
  <2> QED BY <2>1, <2>2, HistoryNext, LoggedNext, AnnouncedNext, AnsweredNext DEF Promises
<1> QED BY <1>1, <1>2

\* Edits and removals of rooms, however they interleave with bookings of them,
\* cost no booking its log, no event its row and no answer its booking.
THEOREM BookingsSurviveEdits ==
  InventorySpec => [](/\ StatusIsLogged /\ EventsAreCommitted /\ AnswerIsDurable
                      /\ OneAtATime => LogIsChain)
<1>1. InventoryInit => Promises
  <2> SUFFICES ASSUME InventoryInit PROVE Promises
    OBVIOUS
  <2>1. Init /\ HistoryInv /\ LoggedInv
    BY HistoryInit, LoggedInit DEF InventoryInit
  <2> QED BY <2>1 DEF Init, Promises, ChainInv, StatusLogged, LogIsChain,
             EventsAreCommitted, AnswerIsDurable
<1>2. InventorySpec => []InventoryInv
  BY InventoryInitInv, InventoryNextInv, PTL DEF InventorySpec
<1>3. Promises => /\ StatusIsLogged /\ EventsAreCommitted /\ AnswerIsDurable
                  /\ OneAtATime => LogIsChain
  BY DEF Promises, ChainInv, LoggedInv
<1> QED BY <1>1, <1>2, <1>3, PromisesNext, PTL DEF InventorySpec
=============================================================================
