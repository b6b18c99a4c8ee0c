--------------------------- MODULE StaffProfiles ---------------------------
(***************************************************************************)
(* What the hotel keeps about its staff, beside their Accounts: who works in   *)
(* a hotel (hotel-staff.service.ts) and who has a skill and whether an admin   *)
(* has verified it (staff-skills.service.ts).  One hotel and one skill stand    *)
(* for all: no request touches two.  Levels and certificates are left out.     *)
(***************************************************************************)
EXTENDS Accounts

VARIABLES
  assigned,   \* the users with a row in hotel_staff
  skill       \* each user's row in staff_skills: none, open or verified

vars == <<account, pc, req, disordered, assigned, skill>>

Holding == {"saveSkill", "dropSkill"}

(* Deliberately wrong variants, see PROJECT.json.                              *)
Reopened(u) == IF req[u].op = "upsert" THEN "open" ELSE req[u].entry

-----------------------------------------------------------------------------
Init == AccountsInit /\ assigned = {} /\ skill = [u \in User |-> "none"]

\* The request of u ends with a write of t's skill entry; `new' says that the
\* row is a new one, with an id of its own.
EndEntry(u, t, entry, new) ==
  /\ skill' = [skill EXCEPT ![t] = entry]
  /\ pc' = [pc EXCEPT ![u] = "idle"]
  /\ req' = [d \in User |->
       IF d = u THEN NoRequest
       ELSE IF req[d].target # t THEN req[d]
       ELSE IF pc[d] \in Holding THEN [req[d] EXCEPT !.stale = TRUE, !.lost = @ \/ new]
       ELSE IF pc[d] = "findSkill" /\ req[d].op = "verify" THEN [req[d] EXCEPT !.lost = @ \/ new]
       ELSE req[d]]

-----------------------------------------------------------------------------
(* hotel_staff *)

AskAssignment(u) ==
  /\ Signed(u, {"ADMIN"})
  /\ \/ \E t \in User : Begin(u, "findStaff", "assign", t, None)
     \/ \E t \in assigned : Begin(u, "unassign", "unassign", t, None)
  /\ UNCHANGED <<account, assigned, skill>>

FindStaff(u) ==
  LET r == req[u]
  IN /\ pc[u] = "findStaff"
     /\ \/ /\ Exists(r.target) /\ account[r.target].role # "CUSTOMER"
           /\ To(u, "assign", r)
        \/ /\ ~(Exists(r.target) /\ account[r.target].role # "CUSTOMER")
           /\ End(u)
     /\ UNCHANGED <<account, disordered, assigned, skill>>

\* A second assignment is refused by the look for one, or by the unique key.
\* A new row is not the one that a removal under way has named.
assignStaff(u) ==
  LET t == req[u].target
  IN /\ pc[u] = "assign"
     /\ assigned' = assigned \cup {t}
     /\ pc' = [pc EXCEPT ![u] = "idle"]
     /\ req' = [d \in User |->
          IF d = u THEN NoRequest
          ELSE IF pc[d] = "unassign" /\ req[d].target = t /\ t \notin assigned
               THEN [req[d] EXCEPT !.lost = TRUE]
          ELSE req[d]]
     /\ UNCHANGED <<account, disordered, skill>>

removeAssignment(u) ==
  /\ pc[u] = "unassign"
  /\ assigned' = IF req[u].lost THEN assigned ELSE assigned \ {req[u].target}
  /\ End(u)
  /\ UNCHANGED <<account, disordered, skill>>

-----------------------------------------------------------------------------
(* staff_skills *)

\* upsertSkill() and removeSkill() name a user, of any role, verifySkill() a row.
AskSkill(u) ==
  /\ \E t \in User, op \in {"upsert", "drop", "verify"} :
       /\ Signed(u, IF op = "verify" THEN {"ADMIN"} ELSE {"ADMIN", "EMPLOYEE"})
       /\ op = "verify" => skill[t] # "none"
       /\ Begin(u, "findSkill", op, t, None)
  /\ UNCHANGED <<account, assigned, skill>>

FindSkill(u) ==
  LET r == req[u]
      there == skill[r.target] # "none" /\ ~r.lost
      kept == [r EXCEPT !.entry = IF r.op = "verify" THEN "verified" ELSE skill[r.target]]
  IN /\ pc[u] = "findSkill"
     /\ \/ there /\ r.op = "drop" /\ To(u, "dropSkill", r)
        \/ there /\ r.op # "drop" /\ To(u, "saveSkill", kept)
        \/ ~there /\ r.op = "upsert" /\ To(u, "insertSkill", r)
        \/ ~there /\ r.op # "upsert" /\ End(u)
     /\ UNCHANGED <<account, disordered, assigned, skill>>

SavedEntry(u) == req[u].entry

\* save() of a row that was deleted inserts it again; if the user has another row
\* by then, the unique key refuses it.
SaveSkill(u) ==
  LET t == req[u].target
      refused == req[u].lost /\ skill[t] # "none"
  IN /\ pc[u] = "saveSkill"
     /\ \/ ~refused /\ EndEntry(u, t, SavedEntry(u), req[u].lost)
        \/ refused /\ End(u) /\ UNCHANGED skill
     /\ UNCHANGED <<account, disordered, assigned>>

\* fk_staff_skills_user: the user exists; uq_staff_skill: he has no row yet.
InsertSkill(u) ==
  LET t == req[u].target
  IN /\ pc[u] = "insertSkill"
     /\ \/ account[t] # None /\ skill[t] = "none" /\ EndEntry(u, t, "open", TRUE)
        \/ ~(account[t] # None /\ skill[t] = "none") /\ End(u) /\ UNCHANGED skill
     /\ UNCHANGED <<account, disordered, assigned>>

removeSkill(u) ==
  /\ pc[u] = "dropSkill"
  /\ \/ ~req[u].lost /\ EndEntry(u, req[u].target, "none", FALSE)
     \/ req[u].lost /\ End(u) /\ UNCHANGED skill
  /\ UNCHANGED <<account, disordered, assigned>>

-----------------------------------------------------------------------------
\* An error or a crash between two calls: what was committed stays.
Fail(u) ==
  /\ Faults /\ pc[u] # "idle"
  /\ End(u)
  /\ UNCHANGED <<account, disordered, assigned, skill>>

Next == \E u \in User :
  \/ AccountStep(u) /\ UNCHANGED <<assigned, skill>>
  \/ AskAssignment(u) \/ FindStaff(u) \/ assignStaff(u) \/ removeAssignment(u)
  \/ AskSkill(u) \/ FindSkill(u) \/ SaveSkill(u) \/ InsertSkill(u) \/ removeSkill(u)
  \/ Fail(u)

Spec == Init /\ [][Next]_vars

-----------------------------------------------------------------------------
Label == {"idle", "insert", "find", "save", "softDelete", "findStaff", "assign",
          "unassign", "findSkill", "insertSkill"} \cup Holding

\* Besides the types: what a profile says, it says of an account that exists.
TypeOK ==
  /\ account \in [User -> Account \cup {None}]
  /\ pc \in [User -> Label] /\ req \in [User -> Request]
  /\ disordered \in BOOLEAN
  /\ assigned \subseteq {u \in User : account[u] # None}
  /\ skill \in [User -> Entry]
  /\ \A u \in User : account[u] = None => skill[u] = "none"

\* A skill is verified by verifySkill() alone and stays so until its entry is
\* removed, through every change to it; an entry made anew is not verified.  Only
\* a save() that holds an old copy of the entry breaks either.
VerificationTracked ==
  [][\A u \in User :
       (skill[u] = "verified") # (skill'[u] = "verified") /\ skill'[u] # "none"
       => \E d \in User : /\ pc[d] = "saveSkill" /\ req[d].target = u
                          /\ req[d].stale \/ req[d].op = "verify"]_vars
=============================================================================
