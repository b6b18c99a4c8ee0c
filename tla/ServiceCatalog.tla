--------------------------- MODULE ServiceCatalog ---------------------------
(***************************************************************************)
(* The catalogue of src/backend/src/services/services.service.ts: categories  *)
(* and the services sold in them.  ServiceRequests adds what is recorded      *)
(* about bookings.                                                            *)
(*                                                                          *)
(* No request runs in a transaction: a SELECT, an INSERT and an UPDATE each    *)
(* commit by themselves.  save() is a SELECT and then an INSERT of a row that   *)
(* is gone or an UPDATE of the columns that differ.  Here it is one step: what  *)
(* is followed of a category is that it exists, and of a service only `granted' *)
(* is ever changed, so that no save mixes two copies.  ServiceRequests, where   *)
(* one can, takes save() apart.                                                *)
(*                                                                          *)
(* The booking is one.  A category is its unique code.  Names, units, prices  *)
(* and quotas are left out; an id that no row and no request names stands     *)
(* for one never used.                                                       *)
(***************************************************************************)
EXTENDS FiniteSets, Integers

CONSTANTS
  Client,    \* the people using the system, each sending one request at a time
  Category, Service, Order, Log,   \* ids of rows
  None,
  Grants,    \* bound: the kinds of service in a run; TRUE is an ACTIVE one
             \*   that is INCLUDED or has a QUOTA
  Targets,   \* bound: the statuses that requests ask for
  Faults     \* TRUE: calls fail, the process dies

Id == Category \cup Service \cup Order \cup Log

Status == {"PENDING", "ACCEPTED", "ASSIGNED", "IN_PROGRESS", "COMPLETED",
           "CONFIRMED", "FAILED", "CANCELLED"}

ASSUME CatalogConstants ==
  /\ None \notin Client \cup Id
  /\ Grants \subseteq BOOLEAN /\ Targets \subseteq Status /\ Faults \in BOOLEAN

VARIABLES
  category,  \* the rows of service_categories
  service,   \* the rows of room_services, None where there is none
  pc, req    \* where each client's request is, and what it holds

catalog == <<category, service>>

Offer == [category : Category, granted : Grants]

\* The row of service_requests: the price is a copy that nothing changes.  Of
\* completed_at it keeps whether the workflow set it after the deadline ("late").
Row == [service : Service, status : Status, breached : BOOLEAN,
        completed : {"no", "yes", "late"}, recovered : BOOLEAN]

\* The columns of a service request that change.
Column == {"status", "breached", "completed", "recovered"}

NoRequest == [id |-> None, offer |-> None, row |-> None, dirty |-> {}, log |-> None,
              seen |-> {}, todo |-> {}]

Request == [id : Id \cup {None},        \* the row it is about
            offer : Offer \cup {None},  \* the service it has read and will save
            row : Row \cup {None},      \* the same for a service request
            dirty : SUBSET Column,      \* the columns of it that its save() will write
            log : Log \cup {None},      \* the log it inserted before
            seen : SUBSET Service,      \* the services its query found
            todo : SUBSET Service]      \* those it has not treated yet

Services(k) == {s \in Service : service[s] # None /\ service[s].category = k}

(* Deliberately wrong variants, see PROJECT.json.                              *)
Detached(c) == [s \in Service |-> IF s \in Services(req[c].id) \ req[c].seen
                                    THEN None ELSE service[s]]

-----------------------------------------------------------------------------
CatalogInit ==
  /\ category = {} /\ service = [s \in Service |-> None]
  /\ pc = [c \in Client |-> "idle"] /\ req = [c \in Client |-> NoRequest]

Keep(c, label, r) == pc' = [pc EXCEPT ![c] = label] /\ req' = [req EXCEPT ![c] = r]

Begin(c, label, r) == pc[c] = "idle" /\ Keep(c, label, r)

End(c) == Keep(c, "idle", NoRequest)

Idle(c) == pc[c] = "idle" /\ UNCHANGED <<pc, req>>

Named == {req[c].id : c \in Client}

-----------------------------------------------------------------------------
(* Categories *)

createCategory(c) ==
  /\ Idle(c)
  /\ \E k \in Category \ category : category' = category \cup {k}
  /\ UNCHANGED service

\* updateCategory() and deleteCategory() read the category with its services.
FindCategory(c) ==
  /\ \E k \in category, label \in {"saveCategory", "dropCategory"} :
       Begin(c, label, [NoRequest EXCEPT !.id = k, !.seen = Services(k)])
  /\ UNCHANGED catalog

\* A service of the category that is not among those read would lose its
\* category_id, which is NOT NULL: the save fails as a whole.
SavedServices(c) == service

updateCategory(c) ==
  /\ pc[c] = "saveCategory"
  /\ category' = IF Services(req[c].id) \subseteq req[c].seen
                   THEN category \cup {req[c].id} ELSE category
  /\ service' = SavedServices(c)
  /\ End(c)

\* fk_room_services_category ... ON DELETE RESTRICT
deleteCategory(c) ==
  /\ pc[c] = "dropCategory"
  /\ category' = IF Services(req[c].id) = {} THEN category \ {req[c].id} ELSE category
  /\ End(c)
  /\ UNCHANGED service

-----------------------------------------------------------------------------
(* Services *)

createRoomService(c) ==
  /\ Idle(c)
  /\ \E s \in Service \ Named, k \in category, g \in Grants :
       /\ service[s] = None /\ \A d \in Client : s \notin req[d].seen
       /\ service' = [service EXCEPT ![s] = [category |-> k, granted |-> g]]
  /\ UNCHANGED category

\* updateRoomService() reads the service and changes what it was given.
EditService(c) ==
  /\ \E s \in Service, g \in Grants :
       /\ service[s] # None
       /\ Begin(c, "saveService",
            [NoRequest EXCEPT !.id = s, !.offer = [service[s] EXCEPT !.granted = g]])
  /\ UNCHANGED catalog

updateRoomService(c) ==
  /\ pc[c] = "saveService"
  /\ service' = IF req[c].offer.category \in category
                  THEN [service EXCEPT ![req[c].id] = req[c].offer] ELSE service
  /\ End(c)
  /\ UNCHANGED category

FindService(c) ==
  /\ \E s \in Service :
       service[s] # None /\ Begin(c, "dropService", [NoRequest EXCEPT !.id = s])
  /\ UNCHANGED catalog

\* The rows that name a service keep it (ON DELETE RESTRICT).
deleteRoomService(c, used) ==
  /\ pc[c] = "dropService"
  /\ service' = IF req[c].id \in used THEN service ELSE [service EXCEPT ![req[c].id] = None]
  /\ End(c)
  /\ UNCHANGED category

CatalogStep(c, used) ==
  \/ createCategory(c) \/ FindCategory(c) \/ updateCategory(c) \/ deleteCategory(c)
  \/ createRoomService(c) \/ EditService(c) \/ updateRoomService(c)
  \/ FindService(c) \/ deleteRoomService(c, used)
=============================================================================
