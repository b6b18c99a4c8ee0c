---------------------------- MODULE StaffProofs ----------------------------
(***************************************************************************)
(* Theorems about Accounts and StaffProfiles, for any number of people.       *)
(***************************************************************************)
EXTENDS StaffProfiles, TLAPS

\* What a request holds by the time it uses it.
Ready(label, r) ==
  /\ label = "idle" => r.op = "none"
  /\ label # "idle" => r.target \in User
  /\ label \notin {"save"} \cup Holding => ~r.stale
  /\ label \in {"insert", "save"} => r.row \in Account
  /\ label \in {"save", "softDelete", "assign"} \cup Holding => account[r.target] # None
  /\ label = "insert" => r.op \in {"create", "register"}
  /\ label = "find" => r.op \in {"edit", "remove", "role", "status", "customer"}
  /\ label = "save" => r.op \in {"edit", "role", "status", "customer", "verifyEmail"}
  /\ label = "softDelete" => r.op = "remove"
  /\ label \in {"findStaff", "assign", "unassign", "findSkill", "insertSkill"} \cup Holding
       => r.op \in ProfileOp
  /\ label = "findSkill" => r.op \in {"upsert", "drop", "verify"}
  /\ label = "saveSkill" =>
       r.op \in {"upsert", "verify"} /\ r.entry # "none" /\ (r.lost => r.stale)

\* A save whose copy is not stale writes what its operation makes of the row.
Holds(label, r) ==
  LET row == account[r.target]
  IN /\ label = "save" /\ ~r.stale =>
          /\ ~row.removed
          /\ \/ r.op = "verifyEmail" /\ r.row = row
             \/ r.op # "verifyEmail" /\ RoleFits(r.op, row) /\ r.row \in Edited(r.op, row)
     /\ label = "saveSkill" /\ ~r.stale /\ r.op = "upsert" => r.entry = skill[r.target]

\* The sender of an administrative request, and whom it is not about.
Admitted(u, r) ==
  r.op \in {"remove", "role", "status", "edit"} =>
    /\ Signed(u, {"ADMIN"})
    /\ r.op # "edit" => r.target # u

Filled == \A u \in User : Ready(pc[u], req[u])

CopyHolds == \A u \in User : Holds(pc[u], req[u])

\* Unless they are disordered there is one request on accounts at a time: no copy gets
\* stale, and its sender is still what admitted him.
Undisturbed ==
  ~disordered =>
    /\ \A u, v \in User : req[u].op \in AccountOp /\ req[v].op \in AccountOp => u = v
    /\ \A u \in User : (pc[u] = "save" => ~req[u].stale) /\ Admitted(u, req[u])

IInv == TypeOK /\ Filled /\ CopyHolds /\ Undisturbed /\ SomeAdminRemains

-----------------------------------------------------------------------------
LEMMA Initially == Init => IInv
<1> SUFFICES ASSUME Init PROVE IInv
  OBVIOUS
<1>1. PICK root \in User : account = [u \in User |-> IF u # root THEN None
                      ELSE [role |-> "ADMIN", status |-> "ACTIVE", removed |-> FALSE]]
  BY DEF Init, AccountsInit
<1>2. TypeOK
  BY <1>1, AccountConstants DEF Init, AccountsInit, TypeOK, Account, Role, Label, Request, NoRequest, Sent, Entry
<1>3. Filled /\ CopyHolds /\ Undisturbed
  BY DEF Init, AccountsInit, Filled, Ready, CopyHolds, Holds, Undisturbed, Admitted,
         NoRequest, Sent, AccountOp, Holding
<1>4. account[root] \in Account /\ account[root].role = "ADMIN"
      /\ account[root].status = "ACTIVE" /\ ~account[root].removed
  BY <1>1 DEF Account, Role
<1>5. Signed(root, {"ADMIN"})
  BY <1>4, AccountConstants DEF Signed, LoggedIn, Exists
<1> QED BY <1>2, <1>3, <1>5 DEF IInv, SomeAdminRemains

-----------------------------------------------------------------------------
(* Frames *)

\* A request moves on, or ends, with every row as it was.
LEMMA Moved ==
  ASSUME IInv, NEW u \in User, NEW label \in Label, NEW r \in Request,
         To(u, label, r), UNCHANGED <<account, assigned, skill>>,
         Ready(label, r), Holds(label, r),
         disordered' \in BOOLEAN, disordered => disordered',
         ~disordered' =>
           /\ r.op \in AccountOp => \A d \in User \ {u} : req[d].op \notin AccountOp
           /\ label = "save" => ~r.stale
           /\ Admitted(u, r)
  PROVE  IInv'
<1>1. /\ pc' = [pc EXCEPT ![u] = label] /\ req' = [req EXCEPT ![u] = r]
      /\ pc'[u] = label /\ req'[u] = r
      /\ \A d \in User \ {u} : pc'[d] = pc[d] /\ req'[d] = req[d]
  BY DEF To, IInv, TypeOK
<1>2. TypeOK'
  BY <1>1 DEF IInv, TypeOK
<1>3. Filled'
  BY <1>1 DEF IInv, Filled, Ready
<1>4. CopyHolds'
  BY <1>1 DEF IInv, CopyHolds, Holds
<1>5. Undisturbed'
  BY <1>1 DEF IInv, Undisturbed, Admitted, Signed, LoggedIn, Exists
<1>6. SomeAdminRemains'
  BY DEF IInv, SomeAdminRemains, Signed, LoggedIn, Exists
<1> QED BY <1>2, <1>3, <1>4, <1>5, <1>6 DEF IInv

\* A request on accounts ends with the write of a row.
LEMMA Written ==
  ASSUME IInv, NEW u \in User, NEW t \in User, NEW row \in Account,
         EndWriting(u, t, row), UNCHANGED <<disordered, assigned, skill>>,
         req[u].op \in AccountOp, SomeAdminRemains'
  PROVE  IInv'
<1>1. /\ pc'[u] = "idle" /\ req'[u] = NoRequest
      /\ account'[t] = row /\ row # None
      /\ \A x \in User \ {t} : account'[x] = account[x]
  BY AccountConstants DEF EndWriting, IInv, TypeOK
<1>2. \A d \in User \ {u} :
        /\ pc'[d] = pc[d] /\ req'[d] \in Request
        /\ req'[d].op = req[d].op /\ req'[d].target = req[d].target
        /\ req'[d].row = req[d].row /\ req'[d].entry = req[d].entry
        /\ req'[d].lost = req[d].lost
        /\ req'[d].stale # req[d].stale => pc[d] = "save"
        /\ ~req'[d].stale => ~req[d].stale /\ ~(pc[d] = "save" /\ req[d].target = t)
  BY DEF EndWriting, IInv, TypeOK, Request
<1>3. TypeOK'
  <2>1. NoRequest \in Request
    BY DEF NoRequest, Sent, Request, Entry
  <2>2. /\ account' \in [User -> Account \cup {None}] /\ pc' \in [User -> Label]
        /\ req' \in [User -> Request]
    BY <1>1, <1>2, <2>1 DEF EndWriting, IInv, TypeOK, Label
  <2> QED BY <1>1, <2>2 DEF IInv, TypeOK
<1>4. Filled'
  BY <1>1, <1>2 DEF IInv, Filled, Ready, NoRequest, Sent, Holding
<1>5. CopyHolds'
  <2> SUFFICES ASSUME NEW d \in User PROVE Holds(pc[d], req[d])'
    BY DEF CopyHolds
  <2>1. CASE d = u
    BY <1>1, <2>1 DEF Holds
  <2>2. CASE d # u
    <3>1. Holds(pc[d], req[d]) /\ Ready(pc[d], req[d])
      BY DEF IInv, CopyHolds, Filled
    <3>2. pc[d] = "save" => req[d].target \in User
      BY <3>1 DEF Ready
    <3>3. CASE pc[d] = "save"
      BY <1>1, <1>2, <2>2, <3>1, <3>2, <3>3 DEF Holds
    <3>4. CASE pc[d] = "saveSkill"
      BY <1>2, <2>2, <3>1, <3>4 DEF Holds
    <3> QED BY <1>2, <2>2, <3>3, <3>4 DEF Holds
  <2> QED BY <2>1, <2>2
<1>6. Undisturbed'
  <2> SUFFICES ASSUME ~disordered PROVE Undisturbed'
    BY DEF Undisturbed
  <2>1. \A d \in User \ {u} : req[d].op \notin AccountOp
    BY DEF IInv, Undisturbed
  <2>2. \A d \in User : req'[d].op \notin AccountOp /\ pc'[d] # "save"
    BY <1>1, <1>2, <2>1 DEF IInv, Filled, Ready, NoRequest, Sent, AccountOp
  <2> QED BY <2>2 DEF Undisturbed, Admitted, AccountOp
<1> QED BY <1>3, <1>4, <1>5, <1>6 DEF IInv

\* A request on skills ends with the write of an entry.
LEMMA EntryWritten ==
  ASSUME IInv, NEW u \in User, NEW t \in User, NEW entry \in Entry, NEW new \in BOOLEAN,
         EndEntry(u, t, entry, new), UNCHANGED <<account, disordered, assigned>>,
         account[t] # None
  PROVE  IInv'
<1>1. /\ pc'[u] = "idle" /\ req'[u] = NoRequest
      /\ skill'[t] = entry
      /\ \A x \in User \ {t} : skill'[x] = skill[x]
  BY DEF EndEntry, IInv, TypeOK
<1>2. \A d \in User \ {u} :
        /\ pc'[d] = pc[d] /\ req'[d] \in Request
        /\ req'[d].op = req[d].op /\ req'[d].target = req[d].target
        /\ req'[d].row = req[d].row /\ req'[d].entry = req[d].entry
        /\ req'[d].lost # req[d].lost => req'[d].stale \/ pc[d] \notin Holding
        /\ req'[d].stale # req[d].stale => pc[d] \in Holding
        /\ ~req'[d].stale => ~req[d].stale /\ ~(pc[d] \in Holding /\ req[d].target = t)
  <2> TAKE d \in User \ {u}
  <2> DEFINE lost == req[d].lost \/ new
  <2>1. pc'[d] = pc[d] /\ req[d] \in Request /\ lost \in BOOLEAN
    BY DEF EndEntry, IInv, TypeOK, Request
  <2>2. \/ req'[d] = req[d] /\ ~(pc[d] \in Holding /\ req[d].target = t)
        \/ req'[d] = [req[d] EXCEPT !.stale = TRUE, !.lost = lost]
           /\ pc[d] \in Holding /\ req[d].target = t
        \/ req'[d] = [req[d] EXCEPT !.lost = lost]
           /\ pc[d] = "findSkill" /\ pc[d] \notin Holding
    BY DEF EndEntry, Holding
  <2> HIDE DEF lost
  <2> QED BY <2>1, <2>2 DEF Request
<1>3. TypeOK'
  <2>1. NoRequest \in Request
    BY DEF NoRequest, Sent, Request, Entry
  <2>2. /\ skill' \in [User -> Entry] /\ pc' \in [User -> Label]
        /\ req' \in [User -> Request]
    BY <1>1, <1>2, <2>1 DEF EndEntry, IInv, TypeOK, Label
  <2> QED BY <1>1, <2>2 DEF IInv, TypeOK
<1>4. Filled'
  BY <1>1, <1>2 DEF IInv, Filled, Ready, NoRequest, Sent, Holding
<1>5. CopyHolds'
  <2> SUFFICES ASSUME NEW d \in User PROVE Holds(pc[d], req[d])'
    BY DEF CopyHolds
  <2>1. CASE d = u
    BY <1>1, <2>1 DEF Holds
  <2>2. CASE d # u
    <3>1. Holds(pc[d], req[d]) /\ Ready(pc[d], req[d])
      BY DEF IInv, CopyHolds, Filled
    <3>2. pc[d] = "saveSkill" => req[d].target \in User
      BY <3>1 DEF Ready
    <3>3. CASE pc[d] = "save"
      BY <1>2, <2>2, <3>1, <3>3 DEF Holds, Holding
    <3>4. CASE pc[d] = "saveSkill"
      BY <1>1, <1>2, <2>2, <3>1, <3>2, <3>4 DEF Holds, Holding
    <3> QED BY <1>2, <2>2, <3>3, <3>4 DEF Holds
  <2> QED BY <2>1, <2>2
<1>6. Undisturbed'
  <2>1. ~disordered => \A d \in User : pc'[d] = "save" => ~req'[d].stale
    BY <1>1, <1>2 DEF IInv, Undisturbed, Holding
  <2>2. ~disordered => \A d \in User : Admitted(d, req[d])'
    BY <1>1, <1>2 DEF IInv, Undisturbed, Admitted, Signed, LoggedIn, Exists, NoRequest, Sent
  <2> QED BY <1>1, <1>2, <2>1, <2>2 DEF IInv, Undisturbed, NoRequest, Sent, AccountOp
<1>7. SomeAdminRemains'
  BY DEF IInv, SomeAdminRemains, Signed, LoggedIn, Exists
<1> QED BY <1>3, <1>4, <1>5, <1>6, <1>7 DEF IInv

\* A request ends without a write.
LEMMA Ended ==
  ASSUME IInv, NEW u \in User, End(u), UNCHANGED <<account, disordered, assigned, skill>>
  PROVE  IInv'
<1>1. NoRequest \in Request /\ Ready("idle", NoRequest) /\ Holds("idle", NoRequest)
  BY DEF NoRequest, Sent, Request, Entry, Ready, Holds, Holding
<1>2. "idle" \in Label /\ NoRequest.op \notin AccountOp /\ Admitted(u, NoRequest)
  BY DEF Label, NoRequest, Sent, AccountOp, Admitted
<1> QED BY <1>1, <1>2, Moved DEF End, IInv, TypeOK

\* A person sends a request that has read nothing yet.
LEMMA Begun ==
  ASSUME IInv, NEW u \in User, NEW label, NEW op,
         NEW t \in User, NEW row \in Account \cup {None}, NEW respelled \in BOOLEAN,
         BeginAs(u, label, op, t, row, respelled), UNCHANGED <<account, assigned, skill>>,
         \/ label = "insert" /\ op \in {"create", "register"} /\ row \in Account
         \/ label = "find" /\ op \in {"edit", "remove", "role", "status", "customer"}
         \/ label \in {"findStaff", "unassign"} /\ op \in ProfileOp
         \/ label = "findSkill" /\ op \in {"upsert", "drop", "verify"},
         op \in {"remove", "role", "status", "edit"} => Signed(u, {"ADMIN"}),
         op \in {"remove", "role", "status"} => t # u \/ respelled
  PROVE  IInv'
<1> DEFINE r == [op |-> op, target |-> t, row |-> row, entry |-> "none",
                 stale |-> FALSE, lost |-> FALSE]
<1>1. op \in AccountOp \cup ProfileOp /\ label \in Label /\ label \notin {"idle", "save"} \cup Holding
  BY DEF AccountOp, ProfileOp, Label, Holding
<1>2. r \in Request
  BY <1>1 DEF Request, Entry
<1>3. Sent(op, t, row) = r
  BY DEF Sent
<1>4. Ready(label, r) /\ Holds(label, r)
  BY <1>1 DEF Ready, Holds, Holding, ProfileOp
<1>5. ~respelled => Admitted(u, r)
  BY DEF Admitted
<1>6. r.op = op
  OBVIOUS
<1> HIDE DEF r
<1>7. /\ To(u, label, r) /\ disordered' \in BOOLEAN /\ (disordered => disordered')
      /\ ~disordered' => (op \in AccountOp => \A d \in User : req[d].op \notin AccountOp)
      /\ ~disordered' => ~respelled
  BY <1>3 DEF BeginAs, IInv, TypeOK
<1>8. ~disordered' => /\ r.op \in AccountOp => \A d \in User \ {u} : req[d].op \notin AccountOp
                      /\ label = "save" => ~r.stale
                      /\ Admitted(u, r)
  BY <1>1, <1>5, <1>6, <1>7
<1> QED BY <1>1, <1>2, <1>4, <1>7, <1>8, Moved

LEMMA Blank == NoRequest \in Request /\ NoRequest.op = "none" /\ ~NoRequest.stale
BY DEF NoRequest, Sent, Request, Entry

\* A request on assignments ends; others may learn that their row is gone.
LEMMA Reassigned ==
  ASSUME IInv, NEW u \in User, UNCHANGED <<account, disordered, skill>>,
         assigned' \subseteq {x \in User : account[x] # None},
         pc' = [pc EXCEPT ![u] = "idle"], req' \in [User -> Request], req'[u] = NoRequest,
         \A d \in User \ {u} :
           \/ req'[d] = req[d]
           \/ pc[d] = "unassign" /\ req'[d] = [req[d] EXCEPT !.lost = TRUE]
  PROVE  IInv'
<1>1. pc'[u] = "idle" /\ pc' \in [User -> Label] /\ \A d \in User \ {u} : pc'[d] = pc[d]
  BY DEF IInv, TypeOK, Label
<1>2. \A d \in User \ {u} :
        /\ req'[d].op = req[d].op /\ req'[d].target = req[d].target
        /\ req'[d].row = req[d].row /\ req'[d].entry = req[d].entry
        /\ req'[d].stale = req[d].stale
        /\ req'[d].lost # req[d].lost => pc[d] = "unassign"
  <2> TAKE d \in User \ {u}
  <2>1. req[d] \in Request
    BY DEF IInv, TypeOK
  <2>2. CASE req'[d] = req[d]
    BY <2>2
  <2>3. CASE pc[d] = "unassign" /\ req'[d] = [req[d] EXCEPT !.lost = TRUE]
    BY <2>1, <2>3 DEF Request
  <2> QED BY <2>2, <2>3
<1>3. TypeOK'
  BY <1>1 DEF IInv, TypeOK
<1>4. Filled'
  BY <1>1, <1>2, Blank DEF IInv, Filled, Ready, Holding
<1>5. CopyHolds'
  <2> SUFFICES ASSUME NEW d \in User PROVE Holds(pc[d], req[d])'
    BY DEF CopyHolds
  <2>1. CASE d = u
    BY <1>1, <2>1 DEF Holds
  <2>2. CASE d # u
    BY <1>1, <1>2, <2>2 DEF IInv, CopyHolds, Holds
  <2> QED BY <2>1, <2>2
<1>6. Undisturbed'
  <2>1. ~disordered => \A d \in User : pc'[d] = "save" => ~req'[d].stale
    BY <1>1, <1>2 DEF IInv, Undisturbed
  <2>2. ~disordered => \A d \in User : Admitted(d, req[d])'
    BY <1>1, <1>2, Blank DEF IInv, Undisturbed, Admitted, Signed, LoggedIn, Exists
  <2> QED BY <1>1, <1>2, <2>1, <2>2, Blank DEF IInv, Undisturbed, AccountOp
<1>7. SomeAdminRemains'
  BY DEF IInv, SomeAdminRemains, Signed, LoggedIn, Exists
<1> QED BY <1>3, <1>4, <1>5, <1>6, <1>7 DEF IInv

-----------------------------------------------------------------------------
(* The requests on accounts *)

LEMMA Asking ==
  ASSUME IInv, NEW u \in User, UNCHANGED <<assigned, skill>>,
         register(u) \/ createStaff(u) \/ AskStaff(u) \/ AskCustomer(u)
  PROVE  IInv'
<1>1. \A role \in Role : NewAccount(role) \in Account
  BY DEF NewAccount, Account
<1>2. CASE register(u)
  BY <1>1, <1>2, Begun DEF register, Role, Begin
<1>3. CASE createStaff(u)
  <2>1. PICK t \in User, role \in Staff : Begin(u, "insert", "create", t, NewAccount(role))
    BY <1>3 DEF createStaff
  <2>2. NewAccount(role) \in Account
    BY <1>1 DEF Role, Staff
  <2> QED BY <1>3, <2>1, <2>2, Begun DEF createStaff, Begin
<1>4. CASE AskStaff(u)
  <2>1. PICK op \in {"edit", "remove", "role", "status"}, path \in Path :
          /\ path \in Others(u, op)
          /\ BeginAs(u, "find", op, path.user, None,
                     op # "edit" /\ path = [user |-> u, plain |-> FALSE])
    BY <1>4 DEF AskStaff, Others
  <2> DEFINE t == path.user  respelled == op # "edit" /\ path = [user |-> u, plain |-> FALSE]
  <2>2. t \in User /\ respelled \in BOOLEAN /\ (op # "edit" => t # u \/ respelled)
    BY <2>1 DEF Others, Path
  <2>3. Signed(u, {"ADMIN"}) /\ UNCHANGED account /\ BeginAs(u, "find", op, t, None, respelled)
    BY <1>4, <2>1 DEF AskStaff
  <2> HIDE DEF t, respelled
  <2> QED BY <2>1, <2>2, <2>3, Begun
<1>5. CASE AskCustomer(u)
  <2>1. PICK t \in User : Begin(u, "find", "customer", t, None)
    BY <1>5 DEF AskCustomer
  <2> QED BY <1>5, <2>1, Begun DEF AskCustomer, Begin
<1> QED BY <1>2, <1>3, <1>4, <1>5

LEMMA Verifying ==
  ASSUME IInv, NEW u \in User, verifyEmail(u), UNCHANGED <<assigned, skill>>
  PROVE  IInv'
<1> DEFINE r == [op |-> "verifyEmail", target |-> u, row |-> account[u], entry |-> "none",
                 stale |-> FALSE, lost |-> FALSE]
<1>1. account[u] \in Account /\ account[u] # None /\ ~account[u].removed
  BY DEF verifyEmail, Exists, IInv, TypeOK
<1>2. r \in Request /\ "save" \in Label
  BY <1>1 DEF Request, Entry, AccountOp, Label
<1>3. Sent("verifyEmail", u, account[u]) = r
  BY DEF Sent
<1>4. Ready("save", r) /\ Holds("save", r)
  BY <1>1 DEF Ready, Holds, Holding
<1>5. Admitted(u, r) /\ ~r.stale /\ r.op \in AccountOp
  BY DEF Admitted, AccountOp
<1> HIDE DEF r
<1>6. /\ To(u, "save", r) /\ disordered' \in BOOLEAN /\ (disordered => disordered')
      /\ ~disordered' => \A d \in User : req[d].op \notin AccountOp
  BY <1>3 DEF verifyEmail, VerifiedRow, Begin, BeginAs, IInv, TypeOK, AccountOp
<1>7. ~disordered' => /\ r.op \in AccountOp => \A d \in User \ {u} : req[d].op \notin AccountOp
                      /\ "save" = "save" => ~r.stale
                      /\ Admitted(u, r)
  BY <1>5, <1>6
<1> QED BY <1>2, <1>4, <1>6, <1>7, Moved DEF verifyEmail

LEMMA Finding ==
  ASSUME IInv, NEW u \in User, Find(u), UNCHANGED <<assigned, skill>>
  PROVE  IInv'
<1> DEFINE r == req[u]
<1>1. /\ pc[u] = "find" /\ r \in Request /\ r.target \in User
      /\ r.op \in {"edit", "remove", "role", "status", "customer"} /\ r.op \in AccountOp
  BY DEF Find, IInv, TypeOK, Filled, Ready, AccountOp
<1>2. ~disordered => /\ \A d \in User \ {u} : req[d].op \notin AccountOp
                     /\ Admitted(u, r)
  BY <1>1 DEF IInv, Undisturbed
<1>3. CASE r.op = "remove" /\ Exists(r.target) /\ To(u, "softDelete", r)
  <2>1. "softDelete" \in Label /\ Ready("softDelete", r) /\ Holds("softDelete", r)
    BY <1>1, <1>3 DEF Label, Ready, Holds, Exists, Holding, Find, IInv, Filled
  <2> QED BY <1>1, <1>2, <1>3, <2>1, Moved DEF Find, IInv, TypeOK
<1>4. ASSUME r.op # "remove", Exists(r.target), RoleFits(r.op, account[r.target]),
             NEW row \in Edited(r.op, account[r.target]), To(u, "save", [r EXCEPT !.row = row])
      PROVE  IInv'
  <2>1. /\ account[r.target] \in Account /\ account[r.target] # None /\ ~account[r.target].removed
    BY <1>1, <1>4 DEF Exists, IInv, TypeOK
  <2>2. row \in Account
    BY <1>1, <1>4, <2>1 DEF Edited, Account
  <2> DEFINE s == [r EXCEPT !.row = row]
  <2>3. /\ s \in Request /\ s.op = r.op /\ s.target = r.target /\ s.row = row
        /\ s.stale = r.stale
    BY <1>1, <2>2 DEF Request
  <2> HIDE DEF s
  <2>4. "save" \in Label /\ Ready("save", s) /\ Holds("save", s)
    BY <1>1, <1>4, <2>1, <2>2, <2>3 DEF Label, Ready, Holds, Holding
  <2>5. ~disordered => ~s.stale /\ Admitted(u, s)
    BY <1>1, <1>2, <2>3 DEF Admitted, IInv, Filled, Ready, Holding
  <2> QED BY <1>1, <1>2, <1>4, <2>3, <2>4, <2>5, Moved DEF Find, IInv, TypeOK, s
<1>5. CASE End(u)
  BY <1>5, Ended DEF Find
<1> QED BY <1>3, <1>4, <1>5 DEF Find

\* A write to another row than a signed admin's, or none he would mind, leaves him.
LEMMA AdminKept ==
  ASSUME IInv, NEW a \in User, NEW t \in User, NEW row,
         account' = [account EXCEPT ![t] = row], Signed(a, {"ADMIN"}),
         t # a \/ row = account[t]
  PROVE  Signed(a, {"ADMIN"})'
BY DEF Signed, LoggedIn, Exists, IInv, TypeOK

LEMMA Inserting ==
  ASSUME IInv, NEW u \in User, InsertUser(u), UNCHANGED <<assigned, skill>>
  PROVE  IInv'
<1> DEFINE r == req[u]
<1>1. r.target \in User /\ r.row \in Account /\ r.op \in AccountOp
  BY DEF InsertUser, IInv, Filled, Ready, AccountOp
<1>2. CASE account[r.target] = None
  <2>1. EndWriting(u, r.target, r.row)
    BY <1>2 DEF InsertUser
  <2>2. SomeAdminRemains'
    <3> SUFFICES ASSUME ~disordered PROVE \E a \in User : Signed(a, {"ADMIN"})'
      BY DEF SomeAdminRemains, InsertUser
    <3>1. PICK a \in User : Signed(a, {"ADMIN"})
      BY DEF IInv, SomeAdminRemains
    <3>2. a # r.target
      BY <1>2, <3>1 DEF Signed, LoggedIn, Exists
    <3> QED BY <1>1, <2>1, <3>1, <3>2, AdminKept DEF EndWriting
  <2> QED BY <1>1, <2>1, <2>2, Written DEF InsertUser
<1>3. CASE account[r.target] # None
  BY <1>3, Ended DEF InsertUser
<1> QED BY <1>2, <1>3

LEMMA Saving ==
  ASSUME IInv, NEW u \in User, Save(u), UNCHANGED <<assigned, skill>>
  PROVE  IInv'
<1> DEFINE r == req[u]  t == r.target
<1>1. /\ t \in User /\ r.row \in Account /\ account[t] # None
      /\ r.op \in {"edit", "role", "status", "customer", "verifyEmail"} /\ r.op \in AccountOp
  BY DEF Save, IInv, Filled, Ready, AccountOp
<1>2. EndWriting(u, t, r.row) /\ account' = [account EXCEPT ![t] = r.row]
  BY DEF Save, EndWriting
<1>3. SomeAdminRemains'
  <2> SUFFICES ASSUME ~disordered PROVE \E a \in User : Signed(a, {"ADMIN"})'
    BY DEF SomeAdminRemains, Save
  <2>1. ~r.stale /\ Admitted(u, r)
    BY DEF Save, IInv, Undisturbed
  <2>2. \/ r.op = "verifyEmail" /\ r.row = account[t]
        \/ r.op # "verifyEmail" /\ RoleFits(r.op, account[t]) /\ r.row \in Edited(r.op, account[t])
    BY <2>1 DEF Save, IInv, CopyHolds, Holds
  <2>3. PICK a \in User : Signed(a, {"ADMIN"})
    BY DEF IInv, SomeAdminRemains
  <2>4. CASE r.op \in {"verifyEmail", "edit"}
    <3>1. r.row = account[t]
      BY <2>2, <2>4 DEF Edited
    <3> QED BY <1>1, <1>2, <2>3, <3>1, AdminKept
  <2>5. CASE r.op \in {"role", "status"}
    <3>1. Signed(u, {"ADMIN"}) /\ t # u
      BY <2>1, <2>5 DEF Admitted
    <3> QED BY <1>1, <1>2, <3>1, AdminKept
  <2>6. CASE r.op = "customer"
    <3>1. a # t
      BY <2>2, <2>3, <2>6 DEF RoleFits, Signed
    <3> QED BY <1>1, <1>2, <2>3, <3>1, AdminKept
  <2> QED BY <1>1, <2>4, <2>5, <2>6
<1> QED BY <1>1, <1>2, <1>3, Written DEF Save

LEMMA Removing ==
  ASSUME IInv, NEW u \in User, SoftDelete(u), UNCHANGED <<assigned, skill>>
  PROVE  IInv'
<1> DEFINE r == req[u]  t == r.target  row == [account[t] EXCEPT !.removed = TRUE]
<1>1. /\ t \in User /\ account[t] \in Account /\ r.op = "remove" /\ r.op \in AccountOp
  BY DEF SoftDelete, IInv, TypeOK, Filled, Ready, AccountOp
<1>2. row \in Account
  BY <1>1 DEF Account
<1>3. EndWriting(u, t, row) /\ account' = [account EXCEPT ![t] = row]
  BY DEF SoftDelete, EndWriting
<1>4. SomeAdminRemains'
  <2> SUFFICES ASSUME ~disordered PROVE \E a \in User : Signed(a, {"ADMIN"})'
    BY DEF SomeAdminRemains, SoftDelete
  <2>1. Signed(u, {"ADMIN"}) /\ t # u
    BY <1>1 DEF SoftDelete, IInv, Undisturbed, Admitted
  <2> QED BY <1>1, <1>3, <2>1, AdminKept
<1> QED BY <1>1, <1>2, <1>3, <1>4, Written DEF SoftDelete

LEMMA AccountSteps ==
  ASSUME IInv, NEW u \in User, AccountStep(u), UNCHANGED <<assigned, skill>>
  PROVE  IInv'
BY Asking, Verifying, Finding, Inserting, Saving, Removing DEF AccountStep

-----------------------------------------------------------------------------
(* The requests on profiles *)

LEMMA AssignmentSteps ==
  ASSUME IInv, NEW u \in User,
         AskAssignment(u) \/ FindStaff(u) \/ assignStaff(u) \/ removeAssignment(u)
  PROVE  IInv'
<1> DEFINE r == req[u]
<1>1. CASE AskAssignment(u)
  BY <1>1, Begun DEF AskAssignment, Begin, ProfileOp, IInv, TypeOK
<1>2. ASSUME pc[u] \in {"findStaff", "assign", "unassign"}
      PROVE  /\ r \in Request /\ r.target \in User /\ r.op \in ProfileOp /\ ~r.stale
             /\ r.op \notin AccountOp
    BY <1>2 DEF IInv, TypeOK, Filled, Ready, Holding, ProfileOp, AccountOp
<1>3. CASE FindStaff(u)
  <2>1. CASE To(u, "assign", r) /\ account[r.target] # None
    <3>1. "assign" \in Label /\ Ready("assign", r) /\ Holds("assign", r) /\ Admitted(u, r)
      BY <1>2, <1>3, <2>1 DEF FindStaff, Label, Ready, Holds, Admitted, Holding, ProfileOp
    <3> QED BY <1>2, <1>3, <2>1, <3>1, Moved DEF FindStaff, IInv, TypeOK
  <2>2. CASE End(u)
    BY <1>3, <2>2, Ended DEF FindStaff
  <2> QED BY <1>3, <2>1, <2>2 DEF FindStaff, Exists
<1>4. CASE removeAssignment(u)
  <2>1. /\ End(u) /\ UNCHANGED <<account, disordered, skill>>
        /\ assigned' \subseteq {x \in User : account[x] # None}
    BY <1>4 DEF removeAssignment, IInv, TypeOK
  <2>2. /\ pc' = [pc EXCEPT ![u] = "idle"] /\ req' \in [User -> Request] /\ req'[u] = NoRequest
        /\ \A d \in User \ {u} : req'[d] = req[d]
    BY <2>1, Blank DEF End, To, IInv, TypeOK
  <2> QED BY <2>1, <2>2, Reassigned
<1>5. CASE assignStaff(u)
  <2>1. /\ UNCHANGED <<account, disordered, skill>>
        /\ account[r.target] # None /\ assigned' = assigned \cup {r.target}
        /\ pc' = [pc EXCEPT ![u] = "idle"]
    BY <1>5 DEF assignStaff, IInv, Filled, Ready
  <2>2. assigned' \subseteq {x \in User : account[x] # None}
    BY <1>2, <1>5, <2>1 DEF assignStaff, IInv, TypeOK
  <2>3. \A d \in User : req'[d] \in {NoRequest, req[d], [req[d] EXCEPT !.lost = TRUE]}
    BY <1>5 DEF assignStaff
  <2>4. \A d \in User : [req[d] EXCEPT !.lost = TRUE] \in Request
    BY DEF IInv, TypeOK, Request
  <2>5. req' \in [User -> Request] /\ req'[u] = NoRequest
    BY <1>5, <2>3, <2>4, Blank DEF assignStaff, IInv, TypeOK
  <2>6. \A d \in User \ {u} :
          \/ req'[d] = req[d]
          \/ pc[d] = "unassign" /\ req'[d] = [req[d] EXCEPT !.lost = TRUE]
    BY <1>5 DEF assignStaff
  <2> QED BY <2>1, <2>2, <2>5, <2>6, Reassigned
<1> QED BY <1>1, <1>3, <1>4, <1>5

LEMMA SkillSteps ==
  ASSUME IInv, NEW u \in User,
         AskSkill(u) \/ FindSkill(u) \/ SaveSkill(u) \/ InsertSkill(u) \/ removeSkill(u)
  PROVE  IInv'
<1> DEFINE r == req[u]  t == r.target
<1>1. CASE AskSkill(u)
  <2>1. PICK x \in User, op \in {"upsert", "drop", "verify"} : Begin(u, "findSkill", op, x, None)
    BY <1>1 DEF AskSkill
  <2> QED BY <1>1, <2>1, Begun DEF AskSkill, Begin
<1>2. ASSUME pc[u] \in {"findSkill", "insertSkill"} \cup Holding
      PROVE  /\ r \in Request /\ t \in User /\ r.op \in ProfileOp /\ r.op \notin AccountOp
             /\ pc[u] \in {"findSkill", "insertSkill"} => ~r.stale
             /\ pc[u] \in Holding => account[t] # None
             /\ pc[u] = "saveSkill" => r.entry # "none"
  BY <1>2 DEF IInv, TypeOK, Filled, Ready, Holding, ProfileOp, AccountOp
<1>3. CASE FindSkill(u)
  <2>1. /\ r \in Request /\ t \in User /\ r.op \in ProfileOp /\ r.op \notin AccountOp /\ ~r.stale
        /\ pc[u] = "findSkill" /\ UNCHANGED <<account, disordered, assigned, skill>>
    BY <1>2, <1>3 DEF FindSkill
  <2>2. \A s \in Request : s.op = r.op => Admitted(u, s) /\ s.op \notin AccountOp
    BY <2>1 DEF Admitted, ProfileOp, AccountOp
  <2>3. CASE skill[t] # "none" /\ r.op = "drop" /\ To(u, "dropSkill", r)
    <3>1. "dropSkill" \in Label /\ Ready("dropSkill", r) /\ Holds("dropSkill", r)
      BY <2>1, <2>3 DEF Label, Ready, Holds, Holding, IInv, TypeOK
    <3> QED BY <2>1, <2>2, <2>3, <3>1, Moved DEF IInv, TypeOK
  <2>4. ASSUME NEW s, s = [r EXCEPT !.entry = IF r.op = "verify" THEN "verified" ELSE skill[t]],
               skill[t] # "none", ~r.lost, r.op # "drop", r.op \in {"upsert", "verify"}, To(u, "saveSkill", s)
        PROVE  IInv'
    <3>1. skill[t] \in Entry /\ "verified" \in Entry /\ account[t] # None
      BY <2>1, <2>4 DEF IInv, TypeOK, Entry
    <3>2. /\ s \in Request /\ s.op = r.op /\ s.target = t /\ s.entry # "none"
          /\ ~s.lost /\ (r.op = "upsert" => s.entry = skill[t])
      BY <2>1, <2>4, <3>1 DEF Request
    <3>3. "saveSkill" \in Label /\ Ready("saveSkill", s) /\ Holds("saveSkill", s)
      BY <2>1, <2>4, <3>1, <3>2 DEF Label, Ready, Holds, Holding, ProfileOp
    <3> QED BY <2>1, <2>2, <2>4, <3>2, <3>3, Moved DEF IInv, TypeOK
  <2>5. CASE r.op = "upsert" /\ To(u, "insertSkill", r)
    <3>1. "insertSkill" \in Label /\ Ready("insertSkill", r) /\ Holds("insertSkill", r)
      BY <2>1, <2>5 DEF Label, Ready, Holds, Holding
    <3> QED BY <2>1, <2>2, <2>5, <3>1, Moved DEF IInv, TypeOK
  <2>6. CASE End(u)
    BY <2>1, <2>6, Ended
  <2>7. r.op \in {"upsert", "drop", "verify"}
    BY <2>1 DEF IInv, Filled, Ready
  <2> QED BY <1>3, <2>3, <2>4, <2>5, <2>6, <2>7 DEF FindSkill
<1>4. CASE SaveSkill(u)
  <2>1. /\ pc[u] = "saveSkill" /\ r.entry \in Entry /\ r.lost \in BOOLEAN
        /\ t \in User /\ account[t] # None /\ UNCHANGED <<account, disordered, assigned>>
    BY <1>2, <1>4 DEF SaveSkill, Holding, Request
  <2>2. CASE EndEntry(u, t, r.entry, r.lost)
    BY <2>1, <2>2, EntryWritten
  <2>3. CASE End(u) /\ UNCHANGED skill
    BY <2>1, <2>3, Ended
  <2> QED BY <1>4, <2>2, <2>3 DEF SaveSkill, SavedEntry
<1>5. CASE InsertSkill(u)
  BY <1>2, <1>5, EntryWritten, Ended DEF InsertSkill, Entry
<1>6. CASE removeSkill(u)
  BY <1>2, <1>6, EntryWritten, Ended DEF removeSkill, Entry, Holding
<1> QED BY <1>1, <1>3, <1>4, <1>5, <1>6

-----------------------------------------------------------------------------
(* The theorems *)

LEMMA Inductive == IInv /\ [Next]_vars => IInv'
<1> SUFFICES ASSUME IInv, [Next]_vars PROVE IInv'
  OBVIOUS
<1>1. CASE UNCHANGED vars
  BY <1>1 DEF vars, IInv, TypeOK, Filled, Ready, CopyHolds, Holds, Undisturbed, Admitted,
              SomeAdminRemains, Signed, LoggedIn, Exists
<1>2. ASSUME NEW u \in User, Fail(u) PROVE IInv'
  BY <1>2, Ended DEF Fail
<1> QED BY <1>1, <1>2, AccountSteps, AssignmentSteps, SkillSteps DEF Next

LEMMA Invariance == Spec => []IInv
<1> QED BY Initially, Inductive, PTL DEF Spec

\* Every row and request keeps its shape, and assigned staff and skill entries
\* belong to accounts that exist, under every interleaving and failure.
THEOREM TypeCorrect == Spec => []TypeOK
<1>1. IInv => TypeOK
  BY DEF IInv
<1> QED BY <1>1, Invariance, PTL

\* However many admins there are, requests on accounts that neither overlap nor name
\* their sender by another text of his id never remove, demote or block the last
\* who can log in.
THEOREM AdminRemains == Spec => []SomeAdminRemains
<1>1. IInv => SomeAdminRemains
  BY DEF IInv
<1> QED BY <1>1, Invariance, PTL

\* The request of d writes the account of x; a save that holds no old copy of it
\* writes what its operation makes of the row.
Writes(d, x) ==
  /\ req[d].target = x
  /\ \/ /\ pc[d] = "softDelete"
        /\ account'[x] = [account[x] EXCEPT !.removed = TRUE]
     \/ /\ pc[d] = "save"
        /\ \/ req[d].stale
           \/ /\ RoleFits(req[d].op, account[x]) /\ ~account[x].removed
              /\ req[d].op \in {"edit", "role", "status", "customer"}
              /\ account'[x] \in Edited(req[d].op, account[x])

LEMMA AccountWrites ==
  ASSUME IInv, Next, NEW x \in User, account[x] # None, account'[x] # account[x]
  PROVE  \E d \in User : Writes(d, x)
<1>1. PICK u \in User : InsertUser(u) \/ Save(u) \/ SoftDelete(u)
  BY DEF Next, AccountStep, register, createStaff, verifyEmail, AskStaff, AskCustomer, Find,
         AskAssignment, FindStaff, assignStaff, removeAssignment, AskSkill, FindSkill, SaveSkill,
         InsertSkill, removeSkill, Fail
<1>2. req[u].target = x /\ account \in [User -> Account \cup {None}]
  BY <1>1 DEF InsertUser, Save, SoftDelete, EndWriting, IInv, TypeOK
<1>3. CASE InsertUser(u)
  BY <1>2, <1>3 DEF InsertUser
<1>4. CASE SoftDelete(u)
  BY <1>2, <1>4 DEF SoftDelete, EndWriting, Writes
<1>5. CASE Save(u)
  <2>1. pc[u] = "save" /\ account'[x] = req[u].row
    BY <1>2, <1>5 DEF Save, EndWriting
  <2>2. Ready("save", req[u]) /\ Holds("save", req[u])
    BY <2>1 DEF IInv, Filled, CopyHolds
  <2> QED BY <1>2, <2>1, <2>2 DEF Ready, Holds, Writes
<1> QED BY <1>1, <1>3, <1>4, <1>5

\* A customer stays a customer, whatever staff do to his account; only a save
\* that holds the account as it was before a demotion can undo it.
THEOREM CustomersStay == Spec => CustomersStayCustomers
<1>1. ASSUME IInv, [Next]_vars, NEW x \in User, account[x] # None, account[x].role = "CUSTOMER",
             account'[x].role # "CUSTOMER"
      PROVE  \E d \in User : pc[d] = "save" /\ req[d].target = x /\ req[d].stale
  <2>1. account[x] \in Account /\ account'[x] # account[x] /\ Next
    BY <1>1 DEF IInv, TypeOK, vars
  <2>2. PICK d \in User : Writes(d, x)
    BY <1>1, <2>1, AccountWrites
  <2>3. CASE pc[d] = "softDelete" /\ account'[x] = [account[x] EXCEPT !.removed = TRUE]
    BY <1>1, <2>1, <2>3 DEF Account
  <2>4. CASE ~req[d].stale /\ pc[d] = "save" /\ RoleFits(req[d].op, account[x])
             /\ account'[x] \in Edited(req[d].op, account[x])
    <3>1. req[d].op = "customer"
      BY <1>1, <2>4 DEF RoleFits
    <3>2. account'[x].role = account[x].role
      BY <2>1, <2>4, <3>1 DEF Edited, Account
    <3> QED BY <1>1, <3>2
  <2> QED BY <2>2, <2>3, <2>4 DEF Writes
<1>2. IInv /\ [Next]_vars =>
        [\A u \in User :
           /\ account[u] # None /\ account[u].role = "CUSTOMER"
           /\ account'[u].role # "CUSTOMER"
           => \E d \in User : pc[d] = "save" /\ req[d].target = u /\ req[d].stale]_<<account, pc, req>>
  BY <1>1
<1> QED BY <1>2, Invariance, PTL DEF Spec, CustomersStayCustomers

\* A removed account never returns and a blocked one is unblocked by a request to
\* do so only; a save that holds an old copy is the exception.
THEOREM ClosedStays == Spec => ClosedStaysClosed
<1>1. ASSUME IInv, [Next]_vars, NEW x \in User, account[x] # None,
             \/ account[x].removed /\ ~account'[x].removed
             \/ account[x].status = "BLOCKED" /\ account'[x].status = "ACTIVE"
      PROVE  \E d \in User :
               /\ pc[d] = "save" /\ req[d].target = x
               /\ req[d].stale \/ (req[d].op \in {"status", "customer"} /\ ~account[x].removed)
  <2>1. account[x] \in Account /\ account'[x] # account[x] /\ Next
    BY <1>1 DEF IInv, TypeOK, vars
  <2>2. PICK d \in User : Writes(d, x)
    BY <1>1, <2>1, AccountWrites
  <2>3. CASE pc[d] = "softDelete" /\ account'[x] = [account[x] EXCEPT !.removed = TRUE]
    BY <1>1, <2>1, <2>3 DEF Account
  <2>4. CASE ~req[d].stale /\ req[d].op = "edit" /\ account'[x] \in Edited(req[d].op, account[x])
    BY <2>1, <2>4 DEF Edited
  <2>5. CASE ~req[d].stale /\ req[d].op = "role" /\ account'[x] \in Edited(req[d].op, account[x])
             /\ ~account[x].removed
    <3>1. account'[x].status = account[x].status
      BY <2>1, <2>5 DEF Edited, Account
    <3> QED BY <1>1, <2>5, <3>1
  <2> QED BY <2>2, <2>3, <2>4, <2>5 DEF Writes
<1>2. IInv /\ [Next]_vars =>
        [\A u \in User :
           /\ account[u] # None
           /\ \/ account[u].removed /\ ~account'[u].removed
              \/ account[u].status = "BLOCKED" /\ account'[u].status = "ACTIVE"
           => \E d \in User :
                /\ pc[d] = "save" /\ req[d].target = u
                /\ req[d].stale \/ (req[d].op \in {"status", "customer"} /\ ~account[u].removed)]_<<account, pc, req>>
  BY <1>1
<1> QED BY <1>2, Invariance, PTL DEF Spec, ClosedStaysClosed

\* A skill gains or loses its verification by verifySkill() or the removal of its
\* entry alone; a save that holds an old entry is the exception.
THEOREM VerificationKept == Spec => VerificationTracked
<1>1. ASSUME IInv, [Next]_vars, NEW x \in User,
             (skill[x] = "verified") # (skill'[x] = "verified"), skill'[x] # "none"
      PROVE  \E d \in User : /\ pc[d] = "saveSkill" /\ req[d].target = x
                             /\ req[d].stale \/ req[d].op = "verify"
  <2>1. skill'[x] # skill[x] /\ skill \in [User -> Entry]
    BY <1>1 DEF IInv, TypeOK
  <2>2. PICK u \in User : SaveSkill(u) \/ InsertSkill(u) \/ removeSkill(u)
    BY <1>1, <2>1 DEF vars, Next, AccountStep, register, createStaff, verifyEmail, AskStaff, AskCustomer,
         Find, InsertUser, Save, SoftDelete, AskAssignment, FindStaff, assignStaff,
         removeAssignment, AskSkill, FindSkill, Fail
  <2>3. req[u].target = x
    BY <2>1, <2>2 DEF SaveSkill, InsertSkill, removeSkill, EndEntry
  <2>4. CASE InsertSkill(u)
    BY <1>1, <2>1, <2>3, <2>4 DEF InsertSkill, EndEntry
  <2>5. CASE removeSkill(u)
    BY <1>1, <2>1, <2>3, <2>5 DEF removeSkill, EndEntry
  <2>6. CASE SaveSkill(u)
    <3>1. pc[u] = "saveSkill" /\ skill'[x] = req[u].entry
      BY <2>1, <2>3, <2>6 DEF SaveSkill, SavedEntry, EndEntry
    <3>2. Ready("saveSkill", req[u]) /\ Holds("saveSkill", req[u])
      BY <1>1, <3>1 DEF IInv, Filled, CopyHolds
    <3> QED BY <2>1, <2>3, <3>1, <3>2 DEF Ready, Holds
  <2> QED BY <2>2, <2>4, <2>5, <2>6
<1>2. IInv /\ [Next]_vars =>
        [\A u \in User :
           (skill[u] = "verified") # (skill'[u] = "verified") /\ skill'[u] # "none"
           => \E d \in User : /\ pc[d] = "saveSkill" /\ req[d].target = u
                              /\ req[d].stale \/ req[d].op = "verify"]_vars
  BY <1>1
<1> QED BY <1>2, Invariance, PTL DEF Spec, VerificationTracked
=============================================================================
