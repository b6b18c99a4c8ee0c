--------------------------- MODULE SessionsProofs ---------------------------
(***************************************************************************)
(* Theorems about Sessions for any number of sessions, clients and users,    *)
(* any lifetimes and any number of requests.                                 *)
(***************************************************************************)
EXTENDS Sessions, TLAPS

\* A login under way has its session to itself.
LoginAlone ==
  \A p \in Tab : pc[p] = "issue" =>
    /\ tokens[req[p].session] = << >>
    /\ \A q \in Tab : q # p => req[q].session # req[p].session

\* Two requests under way on one session have been noticed.
OverlapNoticed ==
  \A p, q \in Tab :
    (p # q /\ req[p].session \in Session /\ req[p].session = req[q].session)
      => raced[req[p].session]

\* What a rotation has read of its token still holds, unless another request
\* came between.
SnapshotHolds ==
  \A p \in Tab :
    (pc[p] \in {"user", "rotate"} /\ ~raced[req[p].session])
      => tokens[req[p].session][req[p].token].status = "ACTIVE"

IdleIsEmpty == \A p \in Tab : pc[p] = "idle" => req[p].session = None

UnusedIsOpen == \A s \in Session : tokens[s] = << >> => ~ended[s]

RowsInv == WithinLifetime /\ ParentSpent /\ OneLine /\ EndedForGood /\ UnusedIsOpen

RequestsInv == LoginAlone /\ OverlapNoticed /\ SnapshotHolds /\ IdleIsEmpty

IInv == TypeOK /\ RowsInv /\ RequestsInv

-----------------------------------------------------------------------------
(* Frames *)

\* The end of a request.
LEMMA Leaving ==
  ASSUME IInv, NEW p \in Tab, Leave(p)
  PROVE  /\ pc' \in [Tab -> {"idle", "issue", "revoke", "expire", "user", "rotate"}]
         /\ req' \in [Tab -> Requests]
         /\ pc'[p] = "idle" /\ req'[p].session = None
         /\ \A q \in Tab : q # p => pc'[q] = pc[q] /\ req'[q] = req[q]
  BY DEF Leave, GoTo, NoRequest, Requests, IInv, TypeOK, ControlOK

\* A step that only takes ACTIVE away from tokens keeps what holds of rows.
LEMMA Weakened ==
  ASSUME IInv, tokens' \in [Session -> Seq(Token)],
         \A s \in Session :
           /\ Len(tokens'[s]) = Len(tokens[s])
           /\ \A i \in 1 .. Len(tokens[s]) :
                /\ tokens'[s][i].parent = tokens[s][i].parent
                /\ tokens'[s][i].expires = tokens[s][i].expires
                /\ tokens'[s][i].status = "ACTIVE" => tokens[s][i].status = "ACTIVE",
         UNCHANGED <<owner, absolute>>,
         \A s \in Session : raced[s] => raced'[s]
  PROVE  /\ RowsOK' /\ WithinLifetime' /\ ParentSpent' /\ OneLine'
         /\ \A s \in Session : tokens'[s] = << >> <=> tokens[s] = << >>
         /\ \A s \in Session : \A i \in 1 .. Len(tokens'[s]) : tokens'[s][i].parent < i
<1>1. \A s \in Session : tokens'[s] = << >> <=> tokens[s] = << >>
  BY DEF IInv, TypeOK, RowsOK
<1>2. RowsOK'
  BY <1>1 DEF IInv, TypeOK, RowsOK
<1>3. WithinLifetime'
  BY DEF IInv, RowsInv, WithinLifetime
<1>4. ParentSpent'
  BY DEF IInv, RowsInv, ParentSpent
<1>5. OneLine'
  BY DEF IInv, RowsInv, OneLine
<1>6. \A s \in Session : \A i \in 1 .. Len(tokens'[s]) : tokens'[s][i].parent < i
  BY DEF IInv, TypeOK
<1> QED BY <1>1, <1>2, <1>3, <1>4, <1>5, <1>6

\* Requests that a step of p leaves alone keep their invariant.
LEMMA RequestsKept ==
  ASSUME IInv, NEW p \in Tab, Leave(p),
         \A s \in Session : s # req[p].session => tokens'[s] = tokens[s],
         \A s \in Session : Len(tokens'[s]) >= Len(tokens[s]),
         UNCHANGED <<left, raced>>
  PROVE  ControlOK' /\ RequestsInv'
<1>1. /\ pc'[p] = "idle" /\ req'[p].session = None
      /\ \A q \in Tab : q # p => pc'[q] = pc[q] /\ req'[q] = req[q]
      /\ pc' \in [Tab -> {"idle", "issue", "revoke", "expire", "user", "rotate"}]
      /\ req' \in [Tab -> Requests]
  BY Leaving
<1>2. ControlOK'
  <2> SUFFICES ASSUME NEW q \in Tab
      PROVE /\ pc'[q] = "issue" => req'[q].session \in Session /\ req'[q].user \in User
            /\ pc'[q] \in {"revoke", "expire", "user", "rotate"} =>
                 /\ req'[q].session \in Session
                 /\ req'[q].token \in 1 .. Len(tokens'[req'[q].session])
    BY <1>1 DEF ControlOK, IInv, TypeOK
  <2>1. CASE q = p
    BY <1>1, <2>1
  <2>2. CASE q # p
    <3> DEFINE s == req[q].session
    <3>1. pc'[q] = pc[q] /\ req'[q] = req[q]
      BY <1>1, <2>2
    <3>2. CASE pc[q] \in {"revoke", "expire", "user", "rotate"}
      <4>1. s \in Session /\ req[q].token \in 1 .. Len(tokens[s])
        BY <3>2 DEF IInv, TypeOK, ControlOK
      <4>2. Len(tokens'[s]) >= Len(tokens[s])
        BY <4>1
      <4> HIDE DEF s
      <4> QED BY <3>1, <3>2, <4>1, <4>2 DEF s
    <3>3. CASE pc[q] \notin {"revoke", "expire", "user", "rotate"}
      BY <3>1, <3>3 DEF IInv, TypeOK, ControlOK
    <3> QED BY <3>2, <3>3
  <2> QED BY <2>1, <2>2
<1>3. IdleIsEmpty' /\ OverlapNoticed'
  BY <1>1, SessionConstants DEF IInv, RequestsInv, IdleIsEmpty, OverlapNoticed
<1>4. LoginAlone'
  <2> SUFFICES ASSUME NEW q \in Tab, pc'[q] = "issue"
               PROVE  /\ tokens'[req'[q].session] = << >>
                      /\ \A o \in Tab : o # q => req'[o].session # req'[q].session
    BY DEF LoginAlone
  <2>1. q # p /\ pc[q] = "issue" /\ req'[q] = req[q]
    BY <1>1
  <2>2. req[q].session \in Session /\ req[q].session # req[p].session
    BY <2>1 DEF IInv, TypeOK, ControlOK, RequestsInv, LoginAlone
  <2> QED BY <1>1, <2>1, <2>2, SessionConstants DEF IInv, RequestsInv, LoginAlone
<1>5. SnapshotHolds'
  <2> SUFFICES ASSUME NEW q \in Tab, pc'[q] \in {"user", "rotate"}, ~raced'[req'[q].session]
               PROVE  tokens'[req'[q].session][req'[q].token].status = "ACTIVE"
    BY DEF SnapshotHolds
  <2>1. q # p /\ pc[q] = pc'[q] /\ req'[q] = req[q]
    BY <1>1
  <2>2. req[q].session \in Session /\ ~raced[req[q].session]
    BY <2>1 DEF IInv, TypeOK, ControlOK
  <2>3. req[q].session # req[p].session
    BY <2>1, <2>2 DEF IInv, RequestsInv, OverlapNoticed
  <2> QED BY <2>1, <2>2, <2>3 DEF IInv, RequestsInv, SnapshotHolds
<1> QED BY <1>2, <1>3, <1>4, <1>5 DEF RequestsInv

-----------------------------------------------------------------------------
(* One lemma for each action *)

LEMMA IssueInv == ASSUME IInv, NEW p \in Tab, Issue(p) PROVE IInv'
<1> DEFINE s == req[p].session
           new == <<Row("ACTIVE", clock + Ttl, 0)>>
<1>1. s \in Session /\ req[p].user \in User /\ tokens[s] = << >>
  BY DEF Issue, IInv, TypeOK, ControlOK, RequestsInv, LoginAlone
<1>2. new \in Seq(Token) /\ Len(new) = 1
      /\ new[1].status = "ACTIVE" /\ new[1].parent = 0
  BY SessionConstants DEF Row, Token, TokenStatus, IInv, TypeOK
<1>3. tokens' = [tokens EXCEPT ![s] = new]
  BY DEF Issue
<1> HIDE DEF new
<1>4. /\ tokens' \in [Session -> Seq(Token)]
      /\ tokens'[s] = new
      /\ \A t \in Session : t # s => tokens'[t] = tokens[t]
  BY <1>1, <1>2, <1>3 DEF IInv, TypeOK, RowsOK
<1>5. ControlOK' /\ RequestsInv'
  <2>1. \A t \in Session : Len(tokens'[t]) >= Len(tokens[t])
    BY <1>1, <1>2, <1>4 DEF IInv, TypeOK, RowsOK
  <2>2. \A t \in Session : t # req[p].session => tokens'[t] = tokens[t]
    BY <1>4
  <2> QED BY <2>1, <2>2, RequestsKept DEF Issue
<1>6. /\ absolute' \in [Session -> Nat] /\ owner' \in [Session -> User \cup {None}]
      /\ owner'[s] = req[p].user
      /\ \A t \in Session : t # s => owner'[t] = owner[t] /\ absolute'[t] = absolute[t]
  BY <1>1, SessionConstants DEF Issue, IInv, TypeOK, RowsOK
<1>7. \A t \in Session : owner'[t] = None <=> tokens'[t] = << >>
  <2>1. new # << >> /\ req[p].user # None
    <3>1. Len(<< >>) # 1
      OBVIOUS
    <3>2. new # << >>
      BY <1>2, <3>1, Zenon
    <3> QED BY <1>1, <3>2, SessionConstants
  <2>2. \A t \in Session : owner[t] = None <=> tokens[t] = << >>
    BY DEF IInv, TypeOK, RowsOK
  <2> QED BY <1>4, <1>6, <2>1, <2>2
<1>8. TypeOK'
  BY <1>2, <1>4, <1>5, <1>6, <1>7 DEF Issue, IInv, TypeOK, RowsOK
<1>9. WithinLifetime'
  <2> SUFFICES ASSUME NEW t \in Session, NEW j \in 1 .. Len(tokens'[t]),
                      tokens'[t][j].parent # 0
               PROVE  tokens'[t][j].expires <= absolute'[t]
    BY DEF WithinLifetime
  <2>1. t # s
    BY <1>2, <1>4
  <2>2. tokens'[t] = tokens[t] /\ absolute'[t] = absolute[t]
    BY <1>4, <1>6, <2>1
  <2> QED BY <2>2 DEF IInv, RowsInv, WithinLifetime
<1>10. ParentSpent'
  <2> SUFFICES ASSUME NEW t \in Session, NEW i \in 1 .. Len(tokens'[t]),
                      NEW j \in 1 .. Len(tokens'[t]), tokens'[t][j].parent = i
               PROVE  tokens'[t][i].status # "ACTIVE"
    BY DEF ParentSpent
  <2>1. t # s
    BY <1>2, <1>4
  <2> QED BY <1>4, <2>1 DEF IInv, RowsInv, ParentSpent
<1>11. OneLine'
  BY <1>2, <1>4 DEF Issue, IInv, RowsInv, OneLine
<1>12. EndedForGood' /\ UnusedIsOpen'
  BY <1>1, <1>2, <1>4 DEF Issue, IInv, RowsInv, EndedForGood, UnusedIsOpen
<1> QED BY <1>5, <1>8, <1>9, <1>10, <1>11, <1>12 DEF IInv, RowsInv

\* The family of s as an UPDATE by family id leaves it.
LEMMA RevokedRows ==
  ASSUME IInv, NEW s \in Session
  PROVE  /\ Revoked(s) \in Seq(Token) /\ Len(Revoked(s)) = Len(tokens[s])
         /\ \A i \in 1 .. Len(tokens[s]) :
              /\ Revoked(s)[i].parent = tokens[s][i].parent
              /\ Revoked(s)[i].expires = tokens[s][i].expires
              /\ Revoked(s)[i].status = "REVOKED"
<1>1. tokens[s] \in Seq(Token)
  BY DEF IInv, TypeOK, RowsOK
<1>2. \A i \in 1 .. Len(tokens[s]) : tokens[s][i] \in Token
  BY <1>1
<1>3. \A i \in 1 .. Len(tokens[s]) : [tokens[s][i] EXCEPT !.status = "REVOKED"] \in Token
  BY <1>2 DEF Token, TokenStatus
<1>4. Revoked(s) \in [1 .. Len(tokens[s]) -> Token]
  BY <1>3 DEF Revoked
<1>5. Len(tokens[s]) \in Nat
  BY <1>1
<1>6. Revoked(s) \in Seq(Token) /\ Len(Revoked(s)) = Len(tokens[s])
  BY <1>4, <1>5
<1>7. \A i \in 1 .. Len(tokens[s]) : Revoked(s)[i] = [tokens[s][i] EXCEPT !.status = "REVOKED"]
  BY DEF Revoked
<1>8. \A i \in 1 .. Len(tokens[s]) :
        /\ Revoked(s)[i].parent = tokens[s][i].parent
        /\ Revoked(s)[i].expires = tokens[s][i].expires
        /\ Revoked(s)[i].status = "REVOKED"
  BY <1>2, <1>7 DEF Token
<1> QED BY <1>6, <1>8

LEMMA RevokeFamilyInv == ASSUME IInv, NEW p \in Tab, RevokeFamily(p) PROVE IInv'
<1> DEFINE s == req[p].session
<1>1. s \in Session /\ Len(tokens[s]) >= 1
  <2>1. s \in Session /\ req[p].token \in 1 .. Len(tokens[s])
    BY DEF RevokeFamily, IInv, TypeOK, ControlOK
  <2>2. Len(tokens[s]) \in Nat
    BY <2>1 DEF IInv, TypeOK, RowsOK
  <2> QED BY <2>1, <2>2
<1>2. tokens' = [tokens EXCEPT ![s] = Revoked(s)] /\ ended' = [ended EXCEPT ![s] = TRUE]
  BY DEF RevokeFamily
<1> HIDE DEF s
<1>3. /\ tokens' \in [Session -> Seq(Token)]
      /\ tokens'[s] = Revoked(s)
      /\ \A t \in Session : t # s => tokens'[t] = tokens[t]
  BY <1>1, <1>2, RevokedRows DEF IInv, TypeOK, RowsOK
<1>4. \A t \in Session :
        /\ Len(tokens'[t]) = Len(tokens[t])
        /\ \A i \in 1 .. Len(tokens[t]) :
             /\ tokens'[t][i].parent = tokens[t][i].parent
             /\ tokens'[t][i].expires = tokens[t][i].expires
             /\ tokens'[t][i].status = "ACTIVE" => tokens[t][i].status = "ACTIVE"
  BY <1>3, RevokedRows
<1>5. /\ RowsOK' /\ WithinLifetime' /\ ParentSpent' /\ OneLine'
      /\ \A t \in Session : tokens'[t] = << >> <=> tokens[t] = << >>
      /\ \A t \in Session : \A i \in 1 .. Len(tokens'[t]) : tokens'[t][i].parent < i
  BY <1>3, <1>4, Weakened DEF RevokeFamily
<1>6. ControlOK' /\ RequestsInv'
  <2>1. \A t \in Session : Len(tokens'[t]) >= Len(tokens[t])
    BY <1>4 DEF IInv, TypeOK, RowsOK
  <2>2. \A t \in Session : t # req[p].session => tokens'[t] = tokens[t]
    BY <1>3 DEF s
  <2> QED BY <2>1, <2>2, RequestsKept DEF RevokeFamily
<1>7. TypeOK'
  BY <1>1, <1>2, <1>5, <1>6 DEF RevokeFamily, IInv, TypeOK
<1>8. EndedForGood'
  BY <1>1, <1>2, <1>3, RevokedRows DEF RevokeFamily, IInv, TypeOK, RowsInv, EndedForGood
<1>9. UnusedIsOpen'
  BY <1>1, <1>2, <1>5 DEF IInv, TypeOK, RowsInv, UnusedIsOpen
<1> QED BY <1>5, <1>6, <1>7, <1>8, <1>9 DEF IInv, RowsInv

LEMMA ExpireTokenInv == ASSUME IInv, NEW p \in Tab, ExpireToken(p) PROVE IInv'
<1> DEFINE s == req[p].session
           i == req[p].token
           new == [tokens[s] EXCEPT ![i].status = "EXPIRED"]
<1>1. s \in Session /\ i \in 1 .. Len(tokens[s]) /\ tokens[s] \in Seq(Token)
  BY DEF ExpireToken, IInv, TypeOK, ControlOK, RowsOK
<1>2. tokens' = [tokens EXCEPT ![s] = new]
  BY DEF ExpireToken
<1> HIDE DEF s, i
<1>3. /\ new \in Seq(Token) /\ Len(new) = Len(tokens[s])
      /\ \A j \in 1 .. Len(tokens[s]) :
           new[j] = IF j = i THEN [tokens[s][j] EXCEPT !.status = "EXPIRED"] ELSE tokens[s][j]
  <2>1. tokens[s][i] \in Token
    BY <1>1
  <2>2. [tokens[s][i] EXCEPT !.status = "EXPIRED"] \in Token
    BY <2>1 DEF Token, TokenStatus
  <2> QED BY <1>1, <2>2
<1> HIDE DEF new
<1>4. \A j \in 1 .. Len(tokens[s]) :
        /\ new[j].parent = tokens[s][j].parent /\ new[j].expires = tokens[s][j].expires
        /\ new[j].status = "ACTIVE" => tokens[s][j].status = "ACTIVE"
  <2> SUFFICES ASSUME NEW j \in 1 .. Len(tokens[s])
      PROVE  /\ new[j].parent = tokens[s][j].parent /\ new[j].expires = tokens[s][j].expires
             /\ new[j].status = "ACTIVE" => tokens[s][j].status = "ACTIVE"
    OBVIOUS
  <2>1. tokens[s][j] \in Token
    BY <1>1
  <2> QED BY <1>3, <2>1 DEF Token
<1>5. /\ tokens' \in [Session -> Seq(Token)]
      /\ tokens'[s] = new
      /\ \A t \in Session : t # s => tokens'[t] = tokens[t]
  BY <1>1, <1>2, <1>3 DEF IInv, TypeOK, RowsOK
<1>6. \A t \in Session :
        /\ Len(tokens'[t]) = Len(tokens[t])
        /\ \A j \in 1 .. Len(tokens[t]) :
             /\ tokens'[t][j].parent = tokens[t][j].parent
             /\ tokens'[t][j].expires = tokens[t][j].expires
             /\ tokens'[t][j].status = "ACTIVE" => tokens[t][j].status = "ACTIVE"
  BY <1>3, <1>4, <1>5
<1>7. /\ RowsOK' /\ WithinLifetime' /\ ParentSpent' /\ OneLine'
      /\ \A t \in Session : tokens'[t] = << >> <=> tokens[t] = << >>
      /\ \A t \in Session : \A j \in 1 .. Len(tokens'[t]) : tokens'[t][j].parent < j
  BY <1>5, <1>6, Weakened DEF ExpireToken
<1>8. ControlOK' /\ RequestsInv'
  <2>1. \A t \in Session : Len(tokens'[t]) >= Len(tokens[t])
    BY <1>6 DEF IInv, TypeOK, RowsOK
  <2>2. \A t \in Session : t # req[p].session => tokens'[t] = tokens[t]
    BY <1>5 DEF s
  <2> QED BY <2>1, <2>2, RequestsKept DEF ExpireToken
<1>9. TypeOK'
  BY <1>7, <1>8 DEF ExpireToken, IInv, TypeOK
<1>10. EndedForGood' /\ UnusedIsOpen'
  BY <1>6, <1>7 DEF ExpireToken, IInv, RowsInv, EndedForGood, UnusedIsOpen
<1> QED BY <1>7, <1>8, <1>9, <1>10 DEF IInv, RowsInv

LEMMA CheckUserInv == ASSUME IInv, NEW p \in Tab, CheckUser(p) PROVE IInv'
<1>1. CASE Leave(p)
  <2>1. ControlOK' /\ RequestsInv'
    <3>1. \A t \in Session : Len(tokens'[t]) >= Len(tokens[t])
      BY DEF CheckUser, rows, IInv, TypeOK, RowsOK
    <3> QED BY <1>1, <3>1, RequestsKept DEF CheckUser, rows
  <2> QED BY <2>1 DEF CheckUser, rows, IInv, TypeOK, RowsOK, RowsInv, WithinLifetime,
             ParentSpent, OneLine, EndedForGood, UnusedIsOpen
<1>2. CASE pc' = [pc EXCEPT ![p] = "rotate"] /\ UNCHANGED req
  <2>1. pc[p] = "user" /\ UNCHANGED <<clock, owner, absolute, tokens, active, left, raced, ended>>
    BY DEF CheckUser, rows
  <2>2. ControlOK' /\ RequestsInv'
    BY <1>2, <2>1 DEF IInv, TypeOK, ControlOK, RequestsInv, LoginAlone, OverlapNoticed,
       SnapshotHolds, IdleIsEmpty
  <2> QED BY <2>1, <2>2 DEF IInv, TypeOK, RowsOK, RowsInv, WithinLifetime,
             ParentSpent, OneLine, EndedForGood, UnusedIsOpen
<1> QED BY <1>1, <1>2 DEF CheckUser, GoTo

LEMMA RotateInv == ASSUME IInv, NEW p \in Tab, Rotate(p) PROVE IInv'
<1> DEFINE s == req[p].session
           i == req[p].token
           n == Len(tokens[s])
           row == Row("ACTIVE", NewExpiry(s, req[p].now), Parent(s, i))
           new == Append(Spent(s, i), row)
<1>1. s \in Session /\ i \in 1 .. n /\ tokens[s] \in Seq(Token) /\ n \in Nat /\ n >= 1
  <2>1. s \in Session /\ i \in 1 .. n /\ tokens[s] \in Seq(Token)
    BY DEF Rotate, IInv, TypeOK, ControlOK, RowsOK
  <2> QED BY <2>1
<1>2. req[p].now \in Nat /\ absolute[s] \in Nat
  BY <1>1 DEF IInv, TypeOK, ControlOK, RowsOK, Requests
<1>3. /\ row \in Token /\ row.status = "ACTIVE" /\ row.parent = i
      /\ row.expires <= absolute[s]
  <2> DEFINE expiry == NewExpiry(s, req[p].now)
  <2>1. expiry \in Nat /\ expiry <= absolute[s]
    <3>1. req[p].now + Ttl \in Nat
      BY <1>2, SessionConstants
    <3> QED BY <1>2, <3>1 DEF NewExpiry, Lesser
  <2>2. i \in Nat
    BY <1>1
  <2>3. row = [status |-> "ACTIVE", expires |-> expiry, parent |-> i]
    BY DEF Row, Parent
  <2> HIDE DEF expiry, row, i
  <2> QED BY <2>1, <2>2, <2>3 DEF Token, TokenStatus
<1>4. tokens' = [tokens EXCEPT ![s] = new] /\ pc[p] = "rotate" /\ Leave(p)
      /\ UNCHANGED <<clock, owner, absolute, active, left, raced, ended>>
  BY DEF Rotate
<1> HIDE DEF s, i, row
<1>5. /\ Spent(s, i) \in Seq(Token) /\ Len(Spent(s, i)) = n
      /\ \A j \in 1 .. n :
           Spent(s, i)[j] = IF j = i THEN [tokens[s][j] EXCEPT !.status = "USED"] ELSE tokens[s][j]
  <2>1. [tokens[s][i] EXCEPT !.status = "USED"] \in Token
    <3>1. tokens[s][i] \in Token
      BY <1>1
    <3> QED BY <3>1 DEF Token, TokenStatus
  <2> QED BY <1>1, <2>1 DEF Spent
<1>6. /\ new \in Seq(Token) /\ Len(new) = n + 1 /\ new[n + 1] = row
      /\ \A j \in 1 .. n : new[j] = Spent(s, i)[j]
  BY <1>1, <1>3, <1>5
<1> HIDE DEF new, n
<1>7. /\ new[i].status = "USED"
      /\ \A j \in 1 .. n :
           /\ new[j].parent = tokens[s][j].parent /\ new[j].expires = tokens[s][j].expires
           /\ new[j].status = "ACTIVE" => j # i /\ tokens[s][j].status = "ACTIVE"
  <2>1. \A j \in 1 .. n : tokens[s][j] \in Token
    BY <1>1 DEF n
  <2>2. \A j \in 1 .. n :
          new[j] = IF j = i THEN [tokens[s][j] EXCEPT !.status = "USED"] ELSE tokens[s][j]
    BY <1>5, <1>6
  <2>3. \A j \in 1 .. n :
          /\ new[j].parent = tokens[s][j].parent /\ new[j].expires = tokens[s][j].expires
          /\ j = i => new[j].status = "USED"
          /\ j # i => new[j].status = tokens[s][j].status
    BY <2>1, <2>2 DEF Token
  <2> QED BY <1>1, <2>3
<1>8. /\ tokens' \in [Session -> Seq(Token)] /\ tokens'[s] = new
      /\ \A t \in Session : t # s => tokens'[t] = tokens[t]
  BY <1>1, <1>4, <1>6 DEF IInv, TypeOK, RowsOK
<1>9. ControlOK' /\ RequestsInv'
  <2>1. \A t \in Session : Len(tokens'[t]) >= Len(tokens[t])
    BY <1>1, <1>6, <1>8 DEF IInv, TypeOK, RowsOK, n
  <2>2. \A t \in Session : t # req[p].session => tokens'[t] = tokens[t]
    BY <1>8 DEF s
  <2> QED BY <1>4, <2>1, <2>2, RequestsKept
<1>10. \A t \in Session : tokens'[t] = << >> <=> tokens[t] = << >>
  <2>1. Len(<< >>) = 0
    OBVIOUS
  <2>2. n + 1 # 0 /\ n # 0
    BY <1>1
  <2>3. new # << >> /\ tokens[s] # << >>
    BY <1>6, <2>1, <2>2, Zenon DEF n
  <2> QED BY <1>8, <2>3
<1>11. TypeOK'
  <2>1. RowsOK'
    BY <1>4, <1>8, <1>10 DEF IInv, TypeOK, RowsOK
  <2>2. \A t \in Session : \A j \in 1 .. Len(tokens'[t]) : tokens'[t][j].parent < j
    <3> SUFFICES ASSUME NEW t \in Session, NEW j \in 1 .. Len(tokens'[t])
                 PROVE  tokens'[t][j].parent < j
      OBVIOUS
    <3>1. CASE t # s
      BY <1>8, <3>1 DEF IInv, TypeOK
    <3>2. CASE t = s /\ j \in 1 .. n
      BY <1>7, <1>8, <3>2 DEF IInv, TypeOK, n
    <3>3. CASE t = s /\ j = n + 1
      BY <1>1, <1>3, <1>6, <1>8, <3>3
    <3> QED BY <1>1, <1>6, <1>8, <3>1, <3>2, <3>3
  <2> QED BY <1>4, <1>9, <2>1, <2>2 DEF IInv, TypeOK
<1>12. WithinLifetime'
  <2> SUFFICES ASSUME NEW t \in Session, NEW j \in 1 .. Len(tokens'[t]), tokens'[t][j].parent # 0
               PROVE  tokens'[t][j].expires <= absolute[t]
    BY <1>4 DEF WithinLifetime
  <2>1. CASE t # s
    BY <1>8, <2>1 DEF IInv, RowsInv, WithinLifetime
  <2>2. CASE t = s /\ j \in 1 .. n
    BY <1>7, <1>8, <2>2 DEF IInv, RowsInv, WithinLifetime, n
  <2>3. CASE t = s /\ j = n + 1
    BY <1>3, <1>6, <1>8, <2>3
  <2> QED BY <1>1, <1>6, <1>8, <2>1, <2>2, <2>3
<1>13. ParentSpent'
  <2> SUFFICES ASSUME NEW t \in Session, NEW k \in 1 .. Len(tokens'[t]),
                      NEW j \in 1 .. Len(tokens'[t]), tokens'[t][j].parent = k
               PROVE  tokens'[t][k].status # "ACTIVE"
    BY DEF ParentSpent
  <2>1. CASE t # s
    BY <1>8, <2>1 DEF IInv, RowsInv, ParentSpent
  <2>2. CASE t = s /\ j \in 1 .. n
    <3>1. k \in 1 .. n
      <4>1. tokens[s][j].parent = k /\ k < j
        BY <1>1, <1>7, <1>8, <2>2 DEF IInv, TypeOK, n
      <4> QED BY <1>1, <2>2, <4>1
    <3> QED BY <1>7, <1>8, <2>2, <3>1 DEF IInv, RowsInv, ParentSpent, n
  <2>3. CASE t = s /\ j = n + 1
    BY <1>3, <1>6, <1>7, <1>8, <2>3
  <2> QED BY <1>1, <1>6, <1>8, <2>1, <2>2, <2>3
<1>14. ~raced[s] => i = n
  BY <1>1, <1>4 DEF IInv, RowsInv, RequestsInv, SnapshotHolds, OneLine, s, i, n
<1>15. OneLine'
  <2> SUFFICES ASSUME NEW t \in Session, ~raced[t], NEW j \in 1 .. Len(tokens'[t])
               PROVE  /\ tokens'[t][j].parent = j - 1
                      /\ tokens'[t][j].status = "ACTIVE" => j = Len(tokens'[t])
    BY <1>4 DEF OneLine
  <2>1. CASE t # s
    BY <1>8, <2>1 DEF IInv, RowsInv, OneLine
  <2>2. CASE t = s /\ j \in 1 .. n
    BY <1>1, <1>7, <1>8, <1>14, <2>2 DEF IInv, RowsInv, OneLine, n
  <2>3. CASE t = s /\ j = n + 1
    BY <1>1, <1>3, <1>6, <1>8, <1>14, <2>3
  <2> QED BY <1>1, <1>6, <1>8, <2>1, <2>2, <2>3
<1>16. EndedForGood'
  <2>1. ~raced[s] => ~ended[s]
    BY <1>1, <1>4 DEF IInv, RowsInv, RequestsInv, SnapshotHolds, EndedForGood, s, i, n
  <2> QED BY <1>4, <1>8, <2>1 DEF IInv, RowsInv, EndedForGood
<1>17. UnusedIsOpen'
  BY <1>4, <1>10 DEF IInv, RowsInv, UnusedIsOpen
<1> QED BY <1>9, <1>11, <1>12, <1>13, <1>15, <1>16, <1>17 DEF IInv, RowsInv

\* Steps that leave every row alone.
LEMMA RowsKept ==
  ASSUME IInv, UNCHANGED rows,
         \A s \in Session : (raced[s] => raced'[s]) /\ ended'[s] = ended[s]
  PROVE  /\ RowsOK' /\ RowsInv'
         /\ \A s \in Session : \A i \in 1 .. Len(tokens'[s]) : tokens'[s][i].parent < i
  BY DEF rows, IInv, TypeOK, RowsOK, RowsInv, WithinLifetime, ParentSpent, OneLine,
     EndedForGood, UnusedIsOpen

LEMMA CheckLoginInv ==
  ASSUME IInv, NEW p \in Tab, NEW u \in User, NEW s \in Session, CheckLogin(p, u, s) PROVE IInv'
<1> DEFINE d == [NoRequest EXCEPT !.session = s, !.user = u]
<1>1. /\ pc[p] = "idle" /\ left[p] > 0 /\ tokens[s] = << >>
      /\ \A q \in Tab : req[q].session # s
      /\ left' = [left EXCEPT ![p] = @ - 1] /\ req' = [req EXCEPT ![p] = d]
      /\ pc' = [pc EXCEPT ![p] = "issue"]
      /\ UNCHANGED <<clock, rows, active, raced, ended>>
  BY DEF CheckLogin, Send, Busy, GoTo, IInv, TypeOK, RowsOK
<1>2. d \in Requests /\ d.session = s /\ d.user = u
  BY DEF NoRequest, Requests
<1> HIDE DEF d
<1>3. /\ req' \in [Tab -> Requests] /\ left' \in [Tab -> 0 .. MaxRequests]
      /\ pc'[p] = "issue" /\ req'[p] = d
      /\ \A q \in Tab : q # p => pc'[q] = pc[q] /\ req'[q] = req[q]
  BY <1>1, <1>2, SessionConstants DEF IInv, TypeOK, ControlOK
<1>4. ControlOK'
  BY <1>1, <1>2, <1>3 DEF IInv, TypeOK, ControlOK, rows
<1>5. LoginAlone' /\ IdleIsEmpty' /\ OverlapNoticed' /\ SnapshotHolds'
  BY <1>1, <1>2, <1>3 DEF rows, IInv, RequestsInv, LoginAlone, IdleIsEmpty, OverlapNoticed,
     SnapshotHolds
<1> QED BY <1>1, <1>4, <1>5, RowsKept DEF IInv, TypeOK, RequestsInv

LEMMA FindTokenInv ==
  ASSUME IInv, NEW p \in Tab, NEW s \in Session, NEW i \in 1 .. Len(tokens[s]),
         FindToken(p, s, i)
  PROVE  IInv'
<1> DEFINE d == [session |-> s, token |-> i, user |-> owner[s], now |-> clock]
           next == IF Reused(tokens[s][i].status) THEN "revoke"
                   ELSE IF Expired(s, i) THEN "expire" ELSE "user"
<1>1. /\ pc[p] = "idle" /\ left[p] > 0
      /\ left' = [left EXCEPT ![p] = @ - 1] /\ req' = [req EXCEPT ![p] = d]
      /\ pc' = [pc EXCEPT ![p] = next]
      /\ raced' = [t \in Session |-> raced[t] \/ (t = s /\ Busy(t))]
      /\ UNCHANGED <<clock, rows, active, ended>>
  BY DEF FindToken, Send, GoTo, Racing
<1>2. /\ next \in {"revoke", "expire", "user"}
      /\ next = "user" => tokens[s][i].status = "ACTIVE"
  <2>1. tokens[s][i].status \in TokenStatus
    <3>1. tokens[s][i] \in Token
      BY DEF IInv, TypeOK, RowsOK
    <3> QED BY <3>1 DEF Token
  <2> QED BY <2>1 DEF Reused, Expired, TokenStatus
<1>3. d \in Requests /\ d.session = s /\ d.token = i /\ i \in 1 .. Len(tokens[s])
  <2>1. tokens[s] \in Seq(Token)
    BY DEF IInv, TypeOK, RowsOK
  <2>2. i \in Nat
    BY <2>1
  <2> QED BY <2>2 DEF Requests, IInv, TypeOK, RowsOK
<1> HIDE DEF d, next
<1>4. /\ req' \in [Tab -> Requests] /\ left' \in [Tab -> 0 .. MaxRequests]
      /\ pc'[p] = next /\ req'[p] = d
      /\ \A q \in Tab : q # p => pc'[q] = pc[q] /\ req'[q] = req[q]
  BY <1>1, <1>3, SessionConstants DEF IInv, TypeOK, ControlOK
<1>5. ControlOK'
  BY <1>1, <1>2, <1>3, <1>4 DEF IInv, TypeOK, ControlOK, rows
<1>6. /\ raced' \in [Session -> BOOLEAN]
      /\ \A t \in Session : raced[t] => raced'[t]
      /\ \A q \in Tab : q # p /\ req[q].session = s => raced'[s]
  BY <1>1 DEF Busy, IInv, TypeOK
<1>7. LoginAlone'
  <2>1. tokens[s] # << >>
    BY <1>3
  <2> QED BY <1>1, <1>2, <1>3, <1>4, <2>1 DEF rows, IInv, RequestsInv, LoginAlone
<1>8. IdleIsEmpty'
  BY <1>2, <1>4 DEF IInv, RequestsInv, IdleIsEmpty
<1>9. OverlapNoticed'
  BY <1>3, <1>4, <1>6 DEF IInv, RequestsInv, OverlapNoticed
<1>10. SnapshotHolds'
  <2> SUFFICES ASSUME NEW q \in Tab, pc'[q] \in {"user", "rotate"}, ~raced'[req'[q].session]
               PROVE  tokens[req'[q].session][req'[q].token].status = "ACTIVE"
    BY <1>1 DEF SnapshotHolds, rows
  <2>1. CASE q = p
    BY <1>2, <1>3, <1>4, <2>1
  <2>2. CASE q # p
    <3>1. pc[q] \in {"user", "rotate"} /\ req'[q] = req[q] /\ req[q].session \in Session
      BY <1>4, <2>2 DEF IInv, TypeOK, ControlOK
    <3>2. ~raced[req[q].session]
      BY <1>6, <3>1
    <3> QED BY <3>1, <3>2 DEF IInv, RequestsInv, SnapshotHolds
  <2> QED BY <2>1, <2>2
<1>11. RowsOK' /\ RowsInv'
       /\ \A t \in Session : \A j \in 1 .. Len(tokens'[t]) : tokens'[t][j].parent < j
  BY <1>1, <1>6, RowsKept
<1> QED BY <1>1, <1>5, <1>6, <1>7, <1>8, <1>9, <1>10, <1>11 DEF IInv, TypeOK, RequestsInv

\* A tab that is between requests ends sessions in one UPDATE.
LEMMA Ending ==
  ASSUME IInv, NEW p \in Tab, NEW S \in SUBSET Session, Send(p),
         \A s \in S : owner[s] # None,
         tokens' \in [Session -> Seq(Token)],
         \A s \in Session : s \notin S => tokens'[s] = tokens[s],
         \A s \in S :
           /\ Len(tokens'[s]) = Len(tokens[s])
           /\ \A i \in 1 .. Len(tokens[s]) :
                /\ tokens'[s][i].parent = tokens[s][i].parent
                /\ tokens'[s][i].expires = tokens[s][i].expires
                /\ tokens'[s][i].status # "ACTIVE",
         ended' = [s \in Session |-> ended[s] \/ s \in S],
         Racing(S), UNCHANGED <<clock, owner, absolute, active, pc, req>>
  PROVE  IInv'
<1>1. /\ raced' \in [Session -> BOOLEAN]
      /\ \A s \in Session : raced[s] => raced'[s]
      /\ \A s \in S : Busy(s) => raced'[s]
  BY DEF Racing, IInv, TypeOK
<1>2. /\ RowsOK' /\ WithinLifetime' /\ ParentSpent' /\ OneLine'
      /\ \A s \in Session : tokens'[s] = << >> <=> tokens[s] = << >>
      /\ \A s \in Session : \A i \in 1 .. Len(tokens'[s]) : tokens'[s][i].parent < i
  <2>1. \A s \in Session :
          /\ Len(tokens'[s]) = Len(tokens[s])
          /\ \A i \in 1 .. Len(tokens[s]) :
               /\ tokens'[s][i].parent = tokens[s][i].parent
               /\ tokens'[s][i].expires = tokens[s][i].expires
               /\ tokens'[s][i].status = "ACTIVE" => tokens[s][i].status = "ACTIVE"
    OBVIOUS
  <2> QED BY <1>1, <2>1, Weakened
<1>3. EndedForGood'
  BY <1>1 DEF IInv, RowsInv, EndedForGood
<1>4. UnusedIsOpen'
  <2> SUFFICES ASSUME NEW s \in Session, tokens'[s] = << >> PROVE ~ended'[s]
    BY DEF UnusedIsOpen
  <2>1. tokens[s] = << >> /\ owner[s] = None
    BY <1>2 DEF IInv, TypeOK, RowsOK
  <2> QED BY <2>1 DEF IInv, RowsInv, UnusedIsOpen
<1>5. left' \in [Tab -> 0 .. MaxRequests]
  BY SessionConstants DEF Send, IInv, TypeOK, ControlOK
<1>6. ControlOK'
  <2>1. \A s \in Session : Len(tokens'[s]) = Len(tokens[s])
    OBVIOUS
  <2> QED BY <1>5, <2>1 DEF IInv, TypeOK, ControlOK
<1>7. LoginAlone'
  BY <1>2 DEF IInv, TypeOK, ControlOK, RequestsInv, LoginAlone
<1>8. OverlapNoticed' /\ IdleIsEmpty'
  BY <1>1 DEF IInv, RequestsInv, OverlapNoticed, IdleIsEmpty
<1>9. SnapshotHolds'
  <2> SUFFICES ASSUME NEW q \in Tab, pc[q] \in {"user", "rotate"}, ~raced'[req[q].session]
               PROVE  tokens'[req[q].session][req[q].token].status = "ACTIVE"
    BY DEF SnapshotHolds
  <2>1. req[q].session \in Session /\ Busy(req[q].session)
    BY DEF Busy, IInv, TypeOK, ControlOK
  <2>2. req[q].session \notin S /\ ~raced[req[q].session]
    BY <1>1, <2>1
  <2> QED BY <2>1, <2>2 DEF IInv, RequestsInv, SnapshotHolds
<1> QED BY <1>1, <1>2, <1>3, <1>4, <1>6, <1>7, <1>8, <1>9 DEF IInv, TypeOK, RowsInv, RequestsInv

LEMMA LogoutInv == ASSUME IInv, NEW p \in Tab, NEW s \in Session, Logout(p, s) PROVE IInv'
<1> DEFINE S == {s}
<1>1. S \in SUBSET Session /\ s \in S /\ \A t \in Session : t \in S => t = s
  OBVIOUS
<1>2. /\ tokens' \in [Session -> Seq(Token)]
      /\ tokens'[s] = Revoked(s)
      /\ \A t \in Session : t # s => tokens'[t] = tokens[t]
  BY RevokedRows DEF Logout, IInv, TypeOK, RowsOK
<1>3. /\ Len(tokens'[s]) = Len(tokens[s])
      /\ \A i \in 1 .. Len(tokens[s]) :
           /\ tokens'[s][i].parent = tokens[s][i].parent
           /\ tokens'[s][i].expires = tokens[s][i].expires
           /\ tokens'[s][i].status # "ACTIVE"
  BY <1>2, RevokedRows
<1>4. /\ Send(p) /\ Racing(S) /\ owner[s] # None
      /\ UNCHANGED <<clock, owner, absolute, active, pc, req>>
      /\ ended' = [t \in Session |-> ended[t] \/ t \in S]
  BY DEF Logout, IInv, TypeOK
<1> HIDE DEF S
<1>5. \A t \in Session : t \notin S => tokens'[t] = tokens[t]
  BY <1>1, <1>2
<1>6. \A t \in S :
        /\ Len(tokens'[t]) = Len(tokens[t])
        /\ \A i \in 1 .. Len(tokens[t]) :
             /\ tokens'[t][i].parent = tokens[t][i].parent
             /\ tokens'[t][i].expires = tokens[t][i].expires
             /\ tokens'[t][i].status # "ACTIVE"
  BY <1>1, <1>3
<1>7. \A t \in S : owner[t] # None
  BY <1>1, <1>4
<1> QED BY <1>1, <1>2, <1>4, <1>5, <1>6, <1>7, Ending

\* The family of s as an UPDATE of its ACTIVE rows leaves it.
LEMMA DeactivatedRows ==
  ASSUME IInv, NEW s \in Session
  PROVE  /\ Deactivated(s) \in Seq(Token) /\ Len(Deactivated(s)) = Len(tokens[s])
         /\ \A i \in 1 .. Len(tokens[s]) :
              /\ Deactivated(s)[i].parent = tokens[s][i].parent
              /\ Deactivated(s)[i].expires = tokens[s][i].expires
              /\ Deactivated(s)[i].status # "ACTIVE"
<1> DEFINE new(i) == IF tokens[s][i].status = "ACTIVE"
                       THEN [tokens[s][i] EXCEPT !.status = "REVOKED"] ELSE tokens[s][i]
<1>1. \A i \in 1 .. Len(tokens[s]) : tokens[s][i] \in Token
  BY DEF IInv, TypeOK, RowsOK
<1>2. \A i \in 1 .. Len(tokens[s]) :
        /\ new(i) \in Token /\ new(i).status # "ACTIVE"
        /\ new(i).parent = tokens[s][i].parent /\ new(i).expires = tokens[s][i].expires
  BY <1>1 DEF Token, TokenStatus
<1>3. Deactivated(s) = [i \in 1 .. Len(tokens[s]) |-> new(i)]
  BY DEF Deactivated
<1> HIDE DEF new
<1>4. Deactivated(s) \in [1 .. Len(tokens[s]) -> Token] /\ Len(tokens[s]) \in Nat
  BY <1>2, <1>3 DEF IInv, TypeOK, RowsOK
<1>5. Deactivated(s) \in Seq(Token) /\ Len(Deactivated(s)) = Len(tokens[s])
  BY <1>4
<1> QED BY <1>2, <1>3, <1>5

LEMMA LogoutAllInv == ASSUME IInv, NEW p \in Tab, NEW u \in User, LogoutAll(p, u) PROVE IInv'
<1> DEFINE S == {s \in Session : owner[s] = u}
<1>1. tokens' = [s \in Session |-> IF s \in S THEN Deactivated(s) ELSE tokens[s]]
  BY DEF LogoutAll
<1>2. S \in SUBSET Session /\ \A s \in S : owner[s] # None
  BY SessionConstants
<1>3. Send(p) /\ Racing(S) /\ UNCHANGED <<clock, owner, absolute, active, pc, req>>
      /\ ended' = [s \in Session |-> ended[s] \/ s \in S]
  BY DEF LogoutAll
<1> HIDE DEF S
<1>4. tokens' \in [Session -> Seq(Token)]
  BY <1>1, <1>2, DeactivatedRows DEF IInv, TypeOK, RowsOK
<1>5. \A s \in Session : s \notin S => tokens'[s] = tokens[s]
  BY <1>1
<1>6. \A s \in S : tokens'[s] = Deactivated(s)
  BY <1>1, <1>2
<1>7. \A s \in S :
        /\ Len(tokens'[s]) = Len(tokens[s])
        /\ \A i \in 1 .. Len(tokens[s]) :
             /\ tokens'[s][i].parent = tokens[s][i].parent
             /\ tokens'[s][i].expires = tokens[s][i].expires
             /\ tokens'[s][i].status # "ACTIVE"
  BY <1>2, <1>6, DeactivatedRows
<1> QED BY <1>2, <1>3, <1>4, <1>5, <1>7, Ending

LEMMA FailInv == ASSUME IInv, NEW p \in Tab, Fail(p) PROVE IInv'
<1>1. Leave(p) /\ UNCHANGED <<clock, rows, active, left, raced, ended>>
  BY DEF Fail
<1>2. ControlOK' /\ RequestsInv'
  <2>1. \A t \in Session : Len(tokens'[t]) >= Len(tokens[t])
    BY <1>1 DEF rows, IInv, TypeOK, RowsOK
  <2> QED BY <1>1, <2>1, RequestsKept DEF rows
<1> QED BY <1>1, <1>2, RowsKept DEF IInv, TypeOK

\* The clock, and the users' state.
LEMMA Outside ==
  ASSUME IInv, UNCHANGED <<rows, pc, req, left, raced, ended>>,
         clock' \in Nat, active' \in [User -> BOOLEAN]
  PROVE  IInv'
<1>1. ControlOK' /\ RequestsInv'
  BY DEF rows, IInv, TypeOK, ControlOK, RequestsInv, LoginAlone, OverlapNoticed, SnapshotHolds,
     IdleIsEmpty
<1> QED BY <1>1, RowsKept DEF IInv, TypeOK

-----------------------------------------------------------------------------
LEMMA InitInv == Init => IInv
<1> SUFFICES ASSUME Init PROVE IInv
  OBVIOUS
<1>1. /\ tokens = [s \in Session |-> << >>]
      /\ \A s \in Session : tokens[s] = << >> /\ 1 .. Len(tokens[s]) = {}
  BY DEF Init
<1>2. RowsOK
  BY <1>1, SessionConstants DEF Init, RowsOK
<1>3. ControlOK /\ RequestsInv
  BY SessionConstants DEF Init, ControlOK, RequestsInv, NoRequest, Requests, LoginAlone,
     OverlapNoticed, SnapshotHolds, IdleIsEmpty
<1>4. TypeOK
  BY <1>1, <1>2, <1>3 DEF Init, TypeOK
<1>5. RowsInv
  BY <1>1 DEF Init, RowsInv, WithinLifetime, ParentSpent, OneLine, EndedForGood, UnusedIsOpen
<1> QED BY <1>3, <1>4, <1>5 DEF IInv

LEMMA NextInv == IInv /\ [Next]_vars => IInv'
<1> SUFFICES ASSUME IInv, [Next]_vars PROVE IInv'
  OBVIOUS
<1>1. ASSUME NEW p \in Tab, TabStep(p) PROVE IInv'
  BY <1>1, CheckLoginInv, FindTokenInv, LogoutInv, LogoutAllInv, IssueInv, RevokeFamilyInv,
     ExpireTokenInv, CheckUserInv, RotateInv, FailInv DEF TabStep
<1>2. ASSUME NEW u \in User, SwitchUser(u) PROVE IInv'
  BY <1>2, Outside DEF SwitchUser, IInv, TypeOK
<1>3. CASE Tick
  BY <1>3, Outside DEF Tick, IInv, TypeOK
<1>4. CASE UNCHANGED vars
  BY <1>4, Outside DEF vars, rows, IInv, TypeOK
<1> QED BY <1>1, <1>2, <1>3, <1>4 DEF Next

\* Every reachable state is well typed, and a token's parent is older than it.
THEOREM SessionsTyped == Spec => []TypeOK
<1>1. IInv => TypeOK
  BY DEF IInv
<1> QED BY <1>1, InitInv, NextInv, PTL DEF Spec

\* Rotation never carries a session past the lifetime that login() gave it.
THEOREM LifetimeKept == Spec => []WithinLifetime
<1>1. IInv => WithinLifetime
  BY DEF IInv, RowsInv
<1> QED BY <1>1, InitInv, NextInv, PTL DEF Spec

\* Under any overlap of requests, a token with a successor is not ACTIVE.
THEOREM ParentsSpent == Spec => []ParentSpent
<1>1. IInv => ParentSpent
  BY DEF IInv, RowsInv
<1> QED BY <1>1, InitInv, NextInv, PTL DEF Spec

\* A session whose requests never overlap is one line of tokens, of which at
\* most the last is ACTIVE.
THEOREM OneLineAlways == Spec => []OneLine
<1>1. IInv => OneLine
  BY DEF IInv, RowsInv
<1> QED BY <1>1, InitInv, NextInv, PTL DEF Spec

\* A session that has ended, and whose requests never overlapped, stays ended.
THEOREM EndedStaysEnded == Spec => []EndedForGood
<1>1. IInv => EndedForGood
  BY DEF IInv, RowsInv
<1> QED BY <1>1, InitInv, NextInv, PTL DEF Spec
=============================================================================
