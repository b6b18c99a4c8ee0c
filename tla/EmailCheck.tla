----------------------------- MODULE EmailCheck -----------------------------
(***************************************************************************)
(* email-security.service.ts behind the RateLimiter, as auth.controller.ts     *)
(* calls it in POST /auth/validate-email and /auth/register: the lockout of an    *)
(* address that sends addresses that cannot be, kept in the server's memory, and   *)
(* the DNS look-up that is awaited between the check of the lockout and the         *)
(* record of a violation.  A rule broken stands for any of the local rules.         *)
(***************************************************************************)
EXTENDS RateLimiter

CONSTANTS
  Short, Long,     \* the two lockouts, 10 minutes and 10 hours
  MaxViolations    \* bound: no check starts beyond so many violations

ASSUME LockoutConstants == Short \in Nat /\ Long \in Nat /\ Short <= Long

VARIABLE lock    \* the address's record [violationCount, lockedUntil] in lockoutMap

vars == <<limiterVars, lock>>

NoLock == [violationCount |-> 0, lockedUntil |-> 0]

(* A deliberately wrong variant, see PROJECT.json.                             *)
LongOnSecond(l) ==
  [violationCount |-> l.violationCount + 1,
   lockedUntil |-> now + IF l.violationCount + 1 = 2 THEN Long ELSE Short]

-----------------------------------------------------------------------------
Init == LimiterInit /\ lock = NoLock

checkLockout == now < lock.lockedUntil

recordViolation(l) ==
  [violationCount |-> l.violationCount + 1,
   lockedUntil |-> now + IF l.violationCount + 1 >= 2 THEN Long ELSE Short]

\* validateEmail() up to its await: locked out, a rule broken, or a look-up.
validateEmail(q) ==
  /\ pc[q] = "handler"
  /\ lock.violationCount < MaxViolations
  /\ \/ checkLockout /\ End(q) /\ UNCHANGED lock
     \/ ~checkLockout /\ End(q) /\ lock' = recordViolation(lock)
     \/ /\ ~checkLockout
        /\ pc' = [pc EXCEPT ![q] = "resolveMx"]
        /\ UNCHANGED <<since, lock>>
  /\ UNCHANGED <<now, bucketed, zset, bucket, admitted, entered, ideal, delay>>

\* The domain has mail servers; the look-up fails; or it finds none, and the
\* exception for that is caught by the look-up's own catch, which records the
\* same address a second time.
ResolveMx(q) ==
  /\ pc[q] = "resolveMx"
  /\ lock' \in {lock, recordViolation(lock), recordViolation(recordViolation(lock))}
  /\ End(q)
  /\ UNCHANGED <<now, bucketed, zset, bucket, admitted, entered, ideal, delay>>

\* The server restarts: its memory is lost, Redis keeps its keys.
Restart ==
  /\ lock' = NoLock
  /\ pc' = [q \in Call |-> "idle"] /\ since' = [q \in Call |-> 0]
  /\ UNCHANGED <<now, bucketed, zset, bucket, admitted, entered, ideal, delay>>

Next ==
  \/ Tick /\ UNCHANGED lock
  \/ Restart
  \/ \E q \in Call : \/ GuardStep(q) /\ UNCHANGED lock
                     \/ validateEmail(q) \/ ResolveMx(q)

Spec == Init /\ [][Next]_vars

-----------------------------------------------------------------------------
TypeOK ==
  /\ now \in Time
  /\ bucketed \in BOOLEAN
  /\ zset \in [log : SUBSET (Time \X Nat), expiry : 0 .. MaxTime + Window]
  /\ Cardinality(zset.log) <= Limit
  /\ bucket \in Bucket \cup {None}
  /\ pc \in [Call -> {"idle", "window", "bucket", "handler", "resolveMx"}]
  /\ since \in [Call -> Time]
  /\ lock \in [violationCount : Nat, lockedUntil : 0 .. MaxTime + Long]

\* As long as the server runs, a lockout that was announced is never cut short,
\* though checks that passed the lock before it began still record violations
\* when their look-up returns.
LockoutNotShortened ==
  [][lock' # NoLock /\ now < lock.lockedUntil
       => lock'.lockedUntil >= lock.lockedUntil]_vars
=============================================================================
