------------------------------ MODULE Accounts ------------------------------
(***************************************************************************)
(* The accounts of src/backend/src/users/users.service.ts and the part of     *)
(* auth.service.ts that makes and verifies them.  Every person has one        *)
(* e-mail address, hence one account at most, and sends one request at a time. *)
(*                                                                          *)
(* The JWT and role guards, each SELECT and each save() commit by themselves. *)
(* save() writes every column in which the object read before differs from    *)
(* the row that its own SELECT finds, deleted_at included.  Here it is one     *)
(* step that writes the whole object: what the properties say of a save(),     *)
(* they say of one column of an account.                                      *)
(* The look for an e-mail address before an INSERT refuses what the unique key  *)
(* refuses as well, and is part of the INSERT.                                 *)
(***************************************************************************)
EXTENDS FiniteSets, Naturals

CONSTANTS
  User, None,
  Faults      \* TRUE: calls fail, the process dies

VARIABLES
  account,    \* the rows of users, None where there is none
  pc, req,    \* where each person's request is, and what it holds
  disordered  \* history: two requests that write accounts have been open at once,
              \*   or a request that none may send about himself has named its
              \*   sender by another text of his id

Role == {"CUSTOMER", "EMPLOYEE", "ADMIN"}
Staff == {"EMPLOYEE", "ADMIN"}

Account == [role : Role, status : {"ACTIVE", "BLOCKED"}, removed : BOOLEAN]

ASSUME AccountConstants == None \notin User \cup Account /\ Faults \in BOOLEAN

\* The :id of a route is text, and of the texts of one id the plain one is what
\* the database and the token have: no pipe parses the text, and the BIGINT that
\* it is compared with in a query is equal to all of them.
Path == [user : User, plain : BOOLEAN]

AccountOp == {"create", "register", "verifyEmail", "edit", "remove", "role", "status", "customer"}
ProfileOp == {"assign", "unassign", "upsert", "drop", "verify"}

\* A skill entry as StaffProfiles has it: verified_by and verified_at, or neither.
Entry == {"none", "open", "verified"}

Sent(op, t, row) == [op |-> op, target |-> t, row |-> row, entry |-> "none",
                     stale |-> FALSE, lost |-> FALSE]

NoRequest == Sent("none", None, None)

Request == [op : AccountOp \cup ProfileOp \cup {"none"},
            target : User \cup {None},           \* whose account or profile it is about
            row : Account \cup {None},           \* the account it will write
            entry : Entry,                       \* the skill entry it will write
            stale : BOOLEAN,   \* what it holds has been written by another since
            lost : BOOLEAN]    \* the row it read is gone and another in its place

(* Deliberately wrong variants, see PROJECT.json.                              *)
NewInactive(role) == [role |-> role, status |-> "INACTIVE", removed |-> FALSE]
Anyone(u, op) == Path
AnyAccount(op, row) == TRUE
Activated(row) == [row EXCEPT !.status = "ACTIVE"]

NewAccount(role) == [role |-> role, status |-> "ACTIVE", removed |-> FALSE]

Exists(u) == account[u] # None /\ ~account[u].removed

\* JwtStrategy.validate(), and the role that RolesGuard.canActivate() asks for.
LoggedIn(u) == Exists(u) /\ account[u].status = "ACTIVE"

Signed(u, roles) == LoggedIn(u) /\ account[u].role \in roles

-----------------------------------------------------------------------------
AccountsInit ==
  /\ \E root \in User : account = [u \in User |-> IF u # root THEN None
                      ELSE [role |-> "ADMIN", status |-> "ACTIVE", removed |-> FALSE]]
  /\ pc = [u \in User |-> "idle"] /\ req = [u \in User |-> NoRequest]
  /\ disordered = FALSE

To(u, label, r) == pc' = [pc EXCEPT ![u] = label] /\ req' = [req EXCEPT ![u] = r]

End(u) == To(u, "idle", NoRequest)

BeginAs(u, label, op, t, row, respelled) ==
  /\ pc[u] = "idle"
  /\ To(u, label, Sent(op, t, row))
  /\ disordered' = (\/ disordered \/ respelled
                    \/ op \in AccountOp /\ \E d \in User : req[d].op \in AccountOp)

Begin(u, label, op, t, row) == BeginAs(u, label, op, t, row, FALSE)

\* The request of u ends with a write of t's account: whoever holds a copy of it
\* holds an old one.
EndWriting(u, t, row) ==
  /\ account' = [account EXCEPT ![t] = row]
  /\ pc' = [pc EXCEPT ![u] = "idle"]
  /\ req' = [d \in User |->
       IF d = u THEN NoRequest
       ELSE IF pc[d] = "save" /\ req[d].target = t THEN [req[d] EXCEPT !.stale = TRUE]
       ELSE req[d]]

-----------------------------------------------------------------------------
(* Registration *)

register(u) ==
  Begin(u, "insert", "register", u, NewAccount("CUSTOMER")) /\ UNCHANGED account

createStaff(u) ==
  /\ Signed(u, {"ADMIN"})
  /\ \E t \in User, role \in Staff : Begin(u, "insert", "create", t, NewAccount(role))
  /\ UNCHANGED account

\* The e-mail address is unique, those of removed accounts included.
InsertUser(u) ==
  LET r == req[u]
  IN /\ pc[u] = "insert"
     /\ IF account[r.target] = None THEN EndWriting(u, r.target, r.row)
        ELSE End(u) /\ UNCHANGED account
     /\ UNCHANGED disordered

VerifiedRow(row) == row

\* verifyEmail(), with the token sent to u, who need not be logged in: the row it
\* read is saved with email_verified_at.  That column is left out: of the calls
\* here, those that find it set would end without a save.
verifyEmail(u) ==
  /\ Exists(u)
  /\ Begin(u, "save", "verifyEmail", u, VerifiedRow(account[u]))
  /\ UNCHANGED account

-----------------------------------------------------------------------------
(* Administration *)

\* Nobody removes himself or changes his own role or status: the text of the
\* path is compared with that of the sender's id, updateStaff() compares nothing.
Others(u, op) == IF op = "edit" THEN Path ELSE Path \ {[user |-> u, plain |-> TRUE]}

AskStaff(u) ==
  /\ Signed(u, {"ADMIN"})
  /\ \E op \in {"edit", "remove", "role", "status"} :
       \E path \in Others(u, op) :
         BeginAs(u, "find", op, path.user, None,
                 op # "edit" /\ path = [user |-> u, plain |-> FALSE])
  /\ UNCHANGED account

AskCustomer(u) ==
  /\ Signed(u, {"ADMIN", "EMPLOYEE"})
  /\ \E t \in User : Begin(u, "find", "customer", t, None)
  /\ UNCHANGED account

\* findOneStaff(), and updateCustomerStatus() for customers.
RoleFits(op, row) == (op = "customer") = (row.role = "CUSTOMER")

Edited(op, row) ==
  CASE op = "edit" -> {row}
    [] op = "role" -> {[row EXCEPT !.role = r] : r \in Role}
    [] op \in {"status", "customer"} ->
         {[row EXCEPT !.status = s] : s \in {"ACTIVE", "BLOCKED"}}

Find(u) ==
  LET r == req[u]
  IN /\ pc[u] = "find"
     /\ \/ /\ Exists(r.target) /\ RoleFits(r.op, account[r.target])
           /\ \/ r.op = "remove" /\ To(u, "softDelete", r)
              \/ /\ r.op # "remove"
                 /\ \E row \in Edited(r.op, account[r.target]) :
                      To(u, "save", [r EXCEPT !.row = row])
        \/ /\ ~(Exists(r.target) /\ RoleFits(r.op, account[r.target]))
           /\ End(u)
     /\ UNCHANGED <<account, disordered>>

Save(u) ==
  /\ pc[u] = "save"
  /\ EndWriting(u, req[u].target, req[u].row)
  /\ UNCHANGED disordered

\* softDelete(): an UPDATE of deleted_at alone.
SoftDelete(u) ==
  /\ pc[u] = "softDelete"
  /\ EndWriting(u, req[u].target, [account[req[u].target] EXCEPT !.removed = TRUE])
  /\ UNCHANGED disordered

AccountStep(u) ==
  \/ register(u) \/ createStaff(u) \/ InsertUser(u) \/ verifyEmail(u)
  \/ AskStaff(u) \/ AskCustomer(u) \/ Find(u) \/ Save(u) \/ SoftDelete(u)

-----------------------------------------------------------------------------
\* However admins remove, demote and lock each other, one of them can always
\* log in, as long as requests that write accounts do not overlap and name their
\* sender, if at all, by the plain text of his id: two admins who remove each
\* other at once leave none, and a single one can remove himself by another text.
SomeAdminRemains == ~disordered => \E u \in User : Signed(u, {"ADMIN"})

\* Who is or becomes a customer stays one: assignRole() finds staff only, and
\* register() never meets an account that exists.  The exception is a save()
\* that holds the account as it was before its demotion.
CustomersStayCustomers ==
  [][\A u \in User :
       /\ account[u] # None /\ account[u].role = "CUSTOMER"
       /\ account'[u].role # "CUSTOMER"
       => \E d \in User : pc[d] = "save" /\ req[d].target = u /\ req[d].stale]_<<account, pc, req>>

\* A removed account never returns and a locked one is only unlocked by a
\* request to do so, except by a save() whose object had become stale.
ClosedStaysClosed ==
  [][\A u \in User :
       /\ account[u] # None
       /\ \/ account[u].removed /\ ~account'[u].removed
          \/ account[u].status = "BLOCKED" /\ account'[u].status = "ACTIVE"
       => \E d \in User :
            /\ pc[d] = "save" /\ req[d].target = u
            /\ req[d].stale \/ (req[d].op \in {"status", "customer"} /\ ~account[u].removed)]_<<account, pc, req>>
=============================================================================
