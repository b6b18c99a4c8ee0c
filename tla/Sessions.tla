------------------------------ MODULE Sessions ------------------------------
(***************************************************************************)
(* Login sessions: AuthService.login(), rotateRefreshToken(), logout() and   *)
(* logoutAll() (src/backend/src/auth/auth.service.ts) on the table            *)
(* refresh_tokens.                                                            *)
(*                                                                          *)
(* A session is one token family (login() makes a sessionId and a familyId    *)
(* together); its rows are the sequence tokens[s], in the order of their ids.  *)
(* A step is one repository call, or one transaction that holds its row's     *)
(* lock from its first statement.  runWithDeadlockRetry rolls back and runs    *)
(* the same transaction again, which leaves no trace and is no step here.      *)
(***************************************************************************)
EXTENDS Naturals, Sequences

CONSTANTS
  Session,      \* a session is named by the login() that makes it
  Tab,          \* clients, each sending one request at a time
  User,
  None,
  Ttl,          \* JWT_REFRESH_EXPIRES_DAYS
  Lifetime,     \* SESSION_ABSOLUTE_LIFETIME_DAYS
  MaxTime,      \* bound: the clock
  MaxRequests,  \* bound: requests one tab sends
  Faults        \* TRUE: calls fail, the process dies

ASSUME SessionConstants ==
  /\ None \notin Session \cup User
  /\ Ttl \in Nat /\ Lifetime \in Nat /\ MaxTime \in Nat /\ MaxRequests \in Nat
  /\ Faults \in BOOLEAN

VARIABLES
  clock,
  owner,      \* refresh_tokens.user_id, None before the login
  absolute,   \* refresh_tokens.absolute_expires_at
  tokens,     \* refresh_tokens of each family
  active,     \* users.status = 'ACTIVE' and not deleted
  pc,         \* where each tab's request is
  req,        \* its session, token, user and `now'
  left,
  raced,      \* history: two requests on this session have overlapped
  ended       \* history: a logout or a revocation of it has been committed

rows == <<owner, absolute, tokens>>
vars == <<clock, rows, active, pc, req, left, raced, ended>>

TokenStatus == {"ACTIVE", "USED", "REVOKED", "EXPIRED"}

Row(st, exp, par) == [status |-> st, expires |-> exp, parent |-> par]

NoRequest == [session |-> None, token |-> 0, user |-> None, now |-> 0]

Lesser(a, b) == IF a < b THEN a ELSE b

(* Deliberately wrong variants, see PROJECT.json.                              *)
UncappedExpiry(s, now) == now + Ttl
ReusedIfRevoked(st) == st = "REVOKED"
RevokedButOne(s) == [i \in 1 .. Len(tokens[s]) |->
  IF tokens[s][i].status = "ACTIVE" THEN tokens[s][i]
  ELSE [tokens[s][i] EXCEPT !.status = "REVOKED"]]
SpentNot(s, i) == tokens[s]
OwnParent(s, i) == Len(tokens[s]) + 1

-----------------------------------------------------------------------------
Init ==
  /\ clock = 0
  /\ owner = [s \in Session |-> None]
  /\ absolute = [s \in Session |-> 0]
  /\ tokens = [s \in Session |-> << >>]
  /\ active = [u \in User |-> TRUE]
  /\ pc = [p \in Tab |-> "idle"]
  /\ req = [p \in Tab |-> NoRequest]
  /\ left = [p \in Tab |-> MaxRequests]
  /\ raced = [s \in Session |-> FALSE]
  /\ ended = [s \in Session |-> FALSE]

GoTo(p, label) == pc' = [pc EXCEPT ![p] = label]

Send(p) ==
  /\ pc[p] = "idle" /\ left[p] > 0
  /\ left' = [left EXCEPT ![p] = @ - 1]

\* The request is over, answered or not.
Leave(p) ==
  /\ GoTo(p, "idle")
  /\ req' = [req EXCEPT ![p] = NoRequest]

Busy(s) == \E p \in Tab : req[p].session = s

Racing(S) == raced' = [s \in Session |-> raced[s] \/ (s \in S /\ Busy(s))]

-----------------------------------------------------------------------------
(* login() *)

\* Reads the user, refuses a locked account or a wrong password.
CheckLogin(p, u, s) ==
  /\ Send(p)
  /\ owner[s] = None /\ ~Busy(s)
  /\ active[u]
  /\ req' = [req EXCEPT ![p] = [NoRequest EXCEPT !.session = s, !.user = u]]
  /\ GoTo(p, "issue")
  /\ UNCHANGED <<clock, rows, active, raced, ended>>

\* After bcrypt and two more calls: the first token of a new family.
Issue(p) ==
  LET s == req[p].session
  IN /\ pc[p] = "issue"
     /\ owner' = [owner EXCEPT ![s] = req[p].user]
     /\ absolute' = [absolute EXCEPT ![s] = clock + Lifetime]
     /\ tokens' = [tokens EXCEPT ![s] = <<Row("ACTIVE", clock + Ttl, 0)>>]
     /\ Leave(p)
     /\ UNCHANGED <<clock, active, left, raced, ended>>

-----------------------------------------------------------------------------
(* rotateRefreshToken() *)

Reused(st) == st \in {"USED", "REVOKED"}

Expired(s, i) ==
  \/ tokens[s][i].status = "EXPIRED"
  \/ tokens[s][i].expires < clock
  \/ absolute[s] < clock

\* Finds the token a client presents, any it was ever given: an answer may be
\* lost, a second tab may hold an older cookie.  What the request does next is
\* decided by the row as it is now, without a lock.
FindToken(p, s, i) ==
  /\ Send(p)
  /\ i \in 1 .. Len(tokens[s])
  /\ req' = [req EXCEPT ![p] = [session |-> s, token |-> i, user |-> owner[s], now |-> clock]]
  /\ GoTo(p, IF Reused(tokens[s][i].status) THEN "revoke"
             ELSE IF Expired(s, i) THEN "expire" ELSE "user")
  /\ Racing({s})
  /\ UNCHANGED <<clock, rows, active, ended>>

\* UPDATE ... WHERE family_id = ?
Revoked(s) == [i \in 1 .. Len(tokens[s]) |-> [tokens[s][i] EXCEPT !.status = "REVOKED"]]

RevokeFamily(p) ==
  LET s == req[p].session
  IN /\ pc[p] = "revoke"
     /\ tokens' = [tokens EXCEPT ![s] = Revoked(s)]
     /\ ended' = [ended EXCEPT ![s] = TRUE]
     /\ Leave(p)
     /\ UNCHANGED <<clock, owner, absolute, active, left, raced>>

ExpireToken(p) ==
  LET s == req[p].session
  IN /\ pc[p] = "expire"
     /\ tokens' = [tokens EXCEPT ![s][req[p].token].status = "EXPIRED"]
     /\ Leave(p)
     /\ UNCHANGED <<clock, owner, absolute, active, left, raced, ended>>

\* Reads the user: a locked or deleted one gets no new token.
CheckUser(p) ==
  /\ pc[p] = "user"
  /\ \/ /\ active[req[p].user]
        /\ GoTo(p, "rotate")
        /\ UNCHANGED req
     \/ /\ ~active[req[p].user]
        /\ Leave(p)
  /\ UNCHANGED <<clock, rows, active, left, raced, ended>>

NewExpiry(s, now) == Lesser(now + Ttl, absolute[s])

\* UPDATE the old token, INSERT its successor, COMMIT.  The UPDATE names the
\* row by id alone.
Spent(s, i) == [tokens[s] EXCEPT ![i].status = "USED"]

Parent(s, i) == i

Rotate(p) ==
  LET s == req[p].session
      i == req[p].token
  IN /\ pc[p] = "rotate"
     /\ tokens' = [tokens EXCEPT ![s] =
          Append(Spent(s, i), Row("ACTIVE", NewExpiry(s, req[p].now), Parent(s, i)))]
     /\ Leave(p)
     /\ UNCHANGED <<clock, owner, absolute, active, left, raced, ended>>

-----------------------------------------------------------------------------
(* logout(), logoutAll() *)

\* By token or session id: the whole family.  A token's family never changes,
\* so that the lookup before the UPDATE is no step of its own.
Logout(p, s) ==
  /\ Send(p)
  /\ owner[s] # None
  /\ tokens' = [tokens EXCEPT ![s] = Revoked(s)]
  /\ ended' = [ended EXCEPT ![s] = TRUE]
  /\ Racing({s})
  /\ UNCHANGED <<clock, owner, absolute, active, pc, req>>

\* By user: every ACTIVE token.
Deactivated(s) == [i \in 1 .. Len(tokens[s]) |->
  IF tokens[s][i].status = "ACTIVE" THEN [tokens[s][i] EXCEPT !.status = "REVOKED"]
  ELSE tokens[s][i]]

LogoutAll(p, u) ==
  LET mine == {s \in Session : owner[s] = u}
  IN /\ Send(p)
     /\ tokens' = [s \in Session |-> IF s \in mine THEN Deactivated(s) ELSE tokens[s]]
     /\ ended' = [s \in Session |-> ended[s] \/ s \in mine]
     /\ Racing(mine)
     /\ UNCHANGED <<clock, owner, absolute, active, pc, req>>

-----------------------------------------------------------------------------
\* UsersService locks, unlocks and removes accounts.
SwitchUser(u) ==
  /\ active' = [active EXCEPT ![u] = ~@]
  /\ UNCHANGED <<clock, rows, pc, req, left, raced, ended>>

Tick ==
  /\ clock < MaxTime
  /\ clock' = clock + 1
  /\ UNCHANGED <<rows, active, pc, req, left, raced, ended>>

\* An error or a crash: what is committed stays, an open transaction goes.
Fail(p) ==
  /\ Faults
  /\ pc[p] # "idle"
  /\ Leave(p)
  /\ UNCHANGED <<clock, rows, active, left, raced, ended>>

TabStep(p) ==
  \/ \E s \in Session :
       \/ \E u \in User : CheckLogin(p, u, s)
       \/ \E i \in 1 .. Len(tokens[s]) : FindToken(p, s, i)
       \/ Logout(p, s)
  \/ \E u \in User : LogoutAll(p, u)
  \/ Issue(p) \/ RevokeFamily(p) \/ ExpireToken(p) \/ CheckUser(p) \/ Rotate(p)
  \/ Fail(p)

Next ==
  \/ \E p \in Tab : TabStep(p)
  \/ \E u \in User : SwitchUser(u)
  \/ Tick

Spec == Init /\ [][Next]_vars

-----------------------------------------------------------------------------
(* Properties *)

Token == [status : TokenStatus, expires : Nat, parent : Nat]

Requests == [session : Session \cup {None}, token : Nat, user : User \cup {None}, now : Nat]

RowsOK ==
  /\ owner \in [Session -> User \cup {None}]
  /\ absolute \in [Session -> Nat]
  /\ tokens \in [Session -> Seq(Token)]
  /\ \A s \in Session : owner[s] = None <=> tokens[s] = << >>

ControlOK ==
  /\ pc \in [Tab -> {"idle", "issue", "revoke", "expire", "user", "rotate"}]
  /\ req \in [Tab -> Requests]
  /\ left \in [Tab -> 0 .. MaxRequests]
  /\ \A p \in Tab :
       /\ pc[p] = "issue" => req[p].session \in Session /\ req[p].user \in User
       /\ pc[p] \in {"revoke", "expire", "user", "rotate"} =>
            /\ req[p].session \in Session
            /\ req[p].token \in 1 .. Len(tokens[req[p].session])

\* The shape of the state: a token's parent is an older row of its family.
TypeOK ==
  /\ clock \in Nat
  /\ active \in [User -> BOOLEAN]
  /\ raced \in [Session -> BOOLEAN] /\ ended \in [Session -> BOOLEAN]
  /\ RowsOK /\ ControlOK
  /\ \A s \in Session : \A i \in 1 .. Len(tokens[s]) : tokens[s][i].parent < i

\* However long a client goes on rotating, no successor outlives the session's
\* absolute lifetime, which login() fixed.
WithinLifetime ==
  \A s \in Session : \A i \in 1 .. Len(tokens[s]) :
    tokens[s][i].parent # 0 => tokens[s][i].expires <= absolute[s]

\* Whatever requests overlap, a token that has a successor can not be rotated
\* again by a request that starts afterwards.
ParentSpent ==
  \A s \in Session : \A i, j \in 1 .. Len(tokens[s]) :
    tokens[s][j].parent = i => tokens[s][i].status # "ACTIVE"

\* As long as no two requests on a session overlap, its tokens are one line of
\* succession of which at most the last is ACTIVE: lost answers and requests
\* with an old token, however many, do not split it.
OneLine ==
  \A s \in Session : ~raced[s] =>
    \A i \in 1 .. Len(tokens[s]) :
      /\ tokens[s][i].parent = i - 1
      /\ tokens[s][i].status = "ACTIVE" => i = Len(tokens[s])

\* A session that was logged out, or revoked because an old token came back,
\* has no ACTIVE token ever after, unless two requests on it overlapped.
EndedForGood ==
  \A s \in Session : ended[s] /\ ~raced[s] =>
    \A i \in 1 .. Len(tokens[s]) : tokens[s][i].status # "ACTIVE"
=============================================================================
