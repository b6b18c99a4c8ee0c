----------------------------- MODULE Inventory -----------------------------
(***************************************************************************)
(* Bookings and RoomAdmin on the same rows of rooms: customers book, staff    *)
(* cancel, and meanwhile an employee edits or removes the room.               *)
(***************************************************************************)
EXTENDS Bookings

CONSTANTS Editor, Service, ServiceLists, Totals, Availables, MaxEdits, EditFaults

VARIABLES total, removed, services, phase, edit, entity, row, editsLeft

Admin == INSTANCE RoomAdmin

ASSUME InventoryConstants ==
  /\ Editor \cap Proc = {} /\ None \notin ServiceLists
  /\ ServiceLists \subseteq SUBSET Service
  /\ Totals \subseteq (Nat \ {0}) \cup {None} /\ Availables \subseteq Nat \cup {None}
  /\ None \in Totals \cap Availables /\ None \notin Nat
  /\ MaxEdits \in Nat

adminVars == <<total, removed, services, phase, edit, entity, row, editsLeft>>
inventoryVars == <<vars, adminVars>>

InventoryInit == Init /\ Admin!AdminInit

\* create()'s findOne() does not see a soft-deleted room; its UPDATE, which
\* names the row by id alone, does.
RoomSeen ==
  \A c \in Customer : pc[c] = "room" /\ pc'[c] = "reserve" => ~removed[req[c].room]

BookingStep == Next /\ RoomSeen /\ UNCHANGED adminVars

AdminStep ==
  /\ Admin!AdminNext
  /\ UNCHANGED <<status, handler, log, stored, events, pc, attempt, customerVars, staffVars>>

InventoryNext == BookingStep \/ AdminStep

InventorySpec == InventoryInit /\ [][InventoryNext]_inventoryVars

-----------------------------------------------------------------------------
\* The shape of the state, with the edits' part of it.
InventoryTypeOK == TypeOK /\ Admin!AdminTypeOK

\* No edit, however stale what it writes, gets between a create()'s conditional
\* UPDATE and its COMMIT: the row lock keeps its rooms for it.
EditsRespectReservations == ReservationCovered

\* The services of a room are one list that was asked for, or none: an edit
\* that fails half way leaves no part of a list.  (For edits of a room one
\* after the other: nothing keeps two overlapping ones from mixing theirs.)
ServicesAreOneList ==
  \A r \in Room : services[r] \in ServiceLists \cup {{}}
=============================================================================
