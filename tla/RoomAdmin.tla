----------------------------- MODULE RoomAdmin -----------------------------
(***************************************************************************)
(* The edits of a room by the hotel's employees: update() and remove() of    *)
(* RoomsService (src/backend/src/rooms/rooms.service.ts).  None of them runs  *)
(* in a transaction of its own: each repository call commits by itself, and   *)
(* the room that save() writes back is the one findOne() returned before.     *)
(*                                                                          *)
(* `available' and `roomLock' are the columns and the row locks that          *)
(* Bookings works on; Inventory puts the two together.                        *)
(***************************************************************************)
EXTENDS Naturals

CONSTANTS
  Room,
  Editor,          \* employees at work on rooms
  Service,         \* rows of room_services
  None,            \* a field the DTO leaves out
  ServiceLists,    \* the serviceIds an edit may carry
  Totals,          \* the totalRooms an edit may carry, None among them
  Availables,      \* the availableRooms an edit may carry, None among them
  MaxEdits,        \* bound: requests one editor sends
  EditFaults       \* TRUE: a call fails, the process dies

VARIABLES
  available, roomLock,     \* shared with Bookings
  total,       \* rooms.total_rooms
  removed,     \* rooms.deleted_at is set
  services,    \* room_service_assignments of each room
  phase,       \* where each editor's request is
  edit,        \* its room and DTO
  entity,      \* the Room object it holds
  row,         \* what save() found in the database
  editsLeft

editorVars == <<phase, edit, entity, row, editsLeft>>
adminVars == <<total, removed, services, editorVars>>

Edit == [room : Room, total : Totals, available : Availables,
         services : ServiceLists \cup {None}]
NoEdit == [room |-> None, total |-> None, available |-> None, services |-> None]

Columns == [total : Nat, available : Nat, removed : BOOLEAN]

NoColumns == [total |-> 0, available |-> 0, removed |-> FALSE]

RowOf(r) == [total |-> total[r], available |-> available[r], removed |-> removed[r]]

Given(field, otherwise) == IF field = None THEN otherwise ELSE field

(* Deliberately wrong variants, see PROJECT.json.                              *)
RowFree(r) == TRUE
AssignOneByOne(e) ==
  LET r == edit[e].room
  IN /\ phase[e] = "assign"
     /\ \E s \in edit[e].services \ services[r] :
          services' = [services EXCEPT ![r] = @ \cup {s}]
     /\ phase' = [phase EXCEPT ![e] =
                    IF edit[e].services \subseteq services'[r] THEN "load" ELSE "assign"]
     /\ UNCHANGED <<available, roomLock, total, removed, edit, entity, row, editsLeft>>

-----------------------------------------------------------------------------
AdminInit ==
  /\ total = available                   \* nothing is booked yet
  /\ removed = [r \in Room |-> FALSE]
  /\ services \in [Room -> ServiceLists \cup {{}}]
  /\ phase = [e \in Editor |-> "idle"]
  /\ edit = [e \in Editor |-> NoEdit]
  /\ entity = [e \in Editor |-> NoColumns]
  /\ row = [e \in Editor |-> NoColumns]
  /\ editsLeft = [e \in Editor |-> MaxEdits]

To(e, label) == phase' = [phase EXCEPT ![e] = label]

\* The request is over, answered or not, and its objects are garbage.
End(e) ==
  /\ To(e, "idle")
  /\ edit' = [edit EXCEPT ![e] = NoEdit]
  /\ entity' = [entity EXCEPT ![e] = NoColumns]
  /\ row' = [row EXCEPT ![e] = NoColumns]

BeginEdit(e) ==
  /\ phase[e] = "idle" /\ editsLeft[e] > 0
  /\ editsLeft' = [editsLeft EXCEPT ![e] = @ - 1]
  /\ \/ /\ \E d \in Edit : edit' = [edit EXCEPT ![e] = d]
        /\ To(e, "find")
     \/ /\ \E r \in Room : edit' = [edit EXCEPT ![e] = [NoEdit EXCEPT !.room = r]]
        /\ To(e, "findRemove")
  /\ UNCHANGED <<available, roomLock, total, removed, services, entity, row>>

\* update(): findOne(), the DTO's fields over the object's, the check of the
\* two counters.  A room that is gone, an unknown hotel, a bad slug or more
\* rooms available than there are end the request.
Merged(d, r) == [total |-> Given(d.total, total[r]),
                 available |-> Given(d.available, available[r]),
                 removed |-> FALSE]

FindRoom(e) ==
  LET d == edit[e]
      m == Merged(d, d.room)
  IN /\ phase[e] = "find"
     /\ \/ /\ ~removed[d.room]
           /\ m.available <= m.total
           /\ entity' = [entity EXCEPT ![e] = m]
           /\ To(e, IF d.services = None THEN "load" ELSE "unassign")
           /\ UNCHANGED <<edit, row>>
        \/ End(e)
     /\ UNCHANGED <<available, roomLock, total, removed, services, editsLeft>>

\* serviceIds: DELETE all assignments of the room ...
Unassign(e) ==
  LET r == edit[e].room
  IN /\ phase[e] = "unassign"
     /\ services' = [services EXCEPT ![r] = {}]
     /\ To(e, IF edit[e].services = {} THEN "load" ELSE "assign")
     /\ UNCHANGED <<available, roomLock, total, removed, edit, entity, row, editsLeft>>

\* ... and INSERT the new ones in one call; uq_rsa_room_service refuses a
\* service that another edit has assigned meanwhile, and the request fails.
Assign(e) ==
  LET r == edit[e].room
  IN /\ phase[e] = "assign"
     /\ \/ /\ edit[e].services \cap services[r] = {}
           /\ services' = [services EXCEPT ![r] = @ \cup edit[e].services]
           /\ To(e, "load")
           /\ UNCHANGED <<edit, entity, row>>
        \/ /\ edit[e].services \cap services[r] # {}
           /\ End(e)
           /\ UNCHANGED services
     /\ UNCHANGED <<available, roomLock, total, removed, editsLeft>>

\* save(room): SELECT the row, to see which columns differ from the object ...
LoadRoom(e) ==
  /\ phase[e] = "load"
  /\ row' = [row EXCEPT ![e] = RowOf(edit[e].room)]
  /\ To(e, "write")
  /\ UNCHANGED <<available, roomLock, total, removed, services, edit, entity, editsLeft>>

\* ... and UPDATE those, a soft-deleted room's deleted_at among them.  The
\* UPDATE waits for the row's lock.
IsFree(r) == roomLock[r] = None

Column(current, loaded, held) == IF loaded = held THEN current ELSE held

WriteRoom(e) ==
  LET r == edit[e].room
      old == row[e]
      new == entity[e]
  IN /\ phase[e] = "write"
     /\ old = new \/ IsFree(r)
     /\ total' = [total EXCEPT ![r] = Column(@, old.total, new.total)]
     /\ available' = [available EXCEPT ![r] = Column(@, old.available, new.available)]
     /\ removed' = [removed EXCEPT ![r] = Column(@, old.removed, new.removed)]
     /\ End(e)
     /\ UNCHANGED <<roomLock, services, editsLeft>>

\* remove(): findOne(), then softDelete().
FindRemoved(e) ==
  /\ phase[e] = "findRemove"
  /\ \/ /\ ~removed[edit[e].room]
        /\ To(e, "remove")
        /\ UNCHANGED <<edit, entity, row>>
     \/ /\ removed[edit[e].room]
        /\ End(e)
  /\ UNCHANGED <<available, roomLock, total, removed, services, editsLeft>>

SoftDelete(e) ==
  LET r == edit[e].room
  IN /\ phase[e] = "remove"
     /\ IsFree(r)
     /\ removed' = [removed EXCEPT ![r] = TRUE]
     /\ End(e)
     /\ UNCHANGED <<available, roomLock, total, services, editsLeft>>

\* An error or a crash between two calls: what was committed stays.
FailEdit(e) ==
  /\ EditFaults
  /\ phase[e] # "idle"
  /\ End(e)
  /\ UNCHANGED <<available, roomLock, total, removed, services, editsLeft>>

EditorStep(e) ==
  \/ FindRoom(e) \/ Unassign(e) \/ Assign(e) \/ LoadRoom(e) \/ WriteRoom(e)
  \/ FindRemoved(e) \/ SoftDelete(e)

AdminNext == \E e \in Editor : BeginEdit(e) \/ EditorStep(e) \/ FailEdit(e)

-----------------------------------------------------------------------------
Phase == {"idle", "find", "unassign", "assign", "load", "write", "findRemove", "remove"}

AdminTypeOK ==
  /\ total \in [Room -> Nat]
  /\ removed \in [Room -> BOOLEAN]
  /\ services \in [Room -> SUBSET Service]
  /\ phase \in [Editor -> Phase]
  /\ edit \in [Editor -> Edit \cup {NoEdit}]
  /\ \A e \in Editor : phase[e] # "idle" => edit[e] \in Edit
  /\ entity \in [Editor -> Columns]
  /\ row \in [Editor -> Columns]
  /\ editsLeft \in [Editor -> 0 .. MaxEdits]
=============================================================================
