---------------------------- MODULE RateLimiter ----------------------------
(***************************************************************************)
(* rate-limiter.guard.ts and its two Lua scripts, which Redis runs one at a   *)
(* time: a sliding window log for an address and a token bucket for a user,     *)
(* a key each per route.  The scripts trust the clock of the server that sends    *)
(* them: by the time one runs that clock may be behind, and another request's      *)
(* later one may have run before it.  Redis failing, or its answer being lost,     *)
(* lets the request in (fail-open).  One address, one user and one route stand      *)
(* for all, as no two keys have to do with each other.                             *)
(***************************************************************************)
EXTENDS Integers, FiniteSets

CONSTANTS
  Call,        \* requests under way at once
  Limit, Window,            \* slidingWindow: limit and windowMs
  Capacity, Refill, Cost,   \* tokenBucket: capacity, refillRate, cost
  MaxTime,     \* bound on the clock
  None

Time == 0 .. MaxTime

CeilDiv(a, b) == (a + b - 1) \div b

Bucket == [available : 0 .. Capacity, updatedAt : Time,
           expiry : 1 .. MaxTime + CeilDiv(Capacity, Refill)]

\* Each route's options set them, none to nothing; tokens are counted in units of
\* which refillRate is a whole number.
ASSUME LimiterConstants ==
  /\ {Limit, Window, Capacity, Refill, Cost} \subseteq Nat \ {0}
  /\ MaxTime \in Nat
  /\ None \notin Bucket

VARIABLES
  now,        \* the time, in units of the clock
  bucketed,   \* the route has a bucket too (bookings:create), or the window only
              \* (auth:validateEmail)
  zset,       \* the window's key [log: a set of <<score, member>>, expiry]
  bucket,     \* the hash [available, updatedAt, expiry], or None
  pc, since,  \* each call's next step, and the time it got to a script
  admitted,   \* history: what scripts with the right time let in within the last window
  entered,    \* history: what scripts ever let in
  ideal,      \* history: a bucket that is refilled as time passes
  delay       \* history: by how much the bucket's scripts ran late, in all

limiterVars == <<now, bucketed, zset, bucket, pc, since, admitted, entered, ideal, delay>>

NoKey == [log |-> {}, expiry |-> 0]

Least(a, b) == IF a < b THEN a ELSE b

(* Deliberately wrong variants, see PROJECT.json.                              *)
KeepLess(log, c) == {m \in log : m[1] > c - Window + 1}
LogAnyway(log, m) == log \cup {m}
RefillAgain(b, c) ==
  IF c > b.updatedAt
  THEN [b EXCEPT !.available = Least(Capacity, @ + (c - b.updatedAt) * Refill)]
  ELSE b
Overfill(b, c) ==
  IF c > b.updatedAt
  THEN [b EXCEPT !.available = @ + (c - b.updatedAt) * Refill, !.updatedAt = c]
  ELSE b

-----------------------------------------------------------------------------
LimiterInit ==
  /\ now = 0
  /\ bucketed \in BOOLEAN
  /\ zset = NoKey /\ bucket = None
  /\ pc = [q \in Call |-> "idle"] /\ since = [q \in Call |-> 0]
  /\ admitted = {} /\ entered = {}
  /\ ideal = Capacity /\ delay = 0

\* Time passes, and Redis drops the keys that have expired.
Tick ==
  /\ now < MaxTime
  /\ now' = now + 1
  /\ zset' = IF zset.expiry <= now + 1 THEN NoKey ELSE zset
  /\ bucket' = IF bucket # None /\ bucket.expiry <= now + 1 THEN None ELSE bucket
  /\ ideal' = IF ideal < Capacity THEN Least(Capacity, ideal + Refill) ELSE ideal
  /\ admitted' = {m \in admitted : m[1] + Window > now + 1}
  /\ UNCHANGED <<bucketed, pc, since, entered, delay>>

canActivate(q) ==
  /\ pc[q] = "idle"
  /\ pc' = [pc EXCEPT ![q] = "window"] /\ since' = [since EXCEPT ![q] = now]
  /\ UNCHANGED <<now, bucketed, zset, bucket, admitted, entered, ideal, delay>>

\* The call is over, or the guard returns true and the route's handler takes over,
\* which goes on here (EmailCheck) for a route without a bucket only.
Leave(q, label) ==
  /\ pc' = [pc EXCEPT ![q] = label]
  /\ since' = [since EXCEPT ![q] = 0]

End(q) == Leave(q, "idle")
LetIn(q) == Leave(q, IF bucketed THEN "idle" ELSE "handler")

\* ZREMRANGEBYSCORE, of which both bounds are inclusive.
Recent(log, c) == {m \in log : m[1] > c - Window}

\* What ZADD adds: the score and an id, `${now}:${randomUUID()}', that no other call has.
Member(c) == <<c, Cardinality({m \in entered : m[1] = c})>>

\* What a refused call leaves behind in the log: nothing.
AfterRefusal(log, m) == log

\* c is the clock that the guard read when it built the script's arguments.
SlidingWindow(q) ==
  /\ pc[q] = "window"
  /\ \E c \in since[q] .. now :
       LET log == Recent(zset.log, c)
           let_in == Cardinality(log) < Limit
           m == Member(c)
       IN /\ zset' = [log |-> IF let_in THEN log \cup {m} ELSE AfterRefusal(log, m),
                      expiry |-> now + Window]
          /\ admitted' = IF let_in /\ c = now THEN admitted \cup {m} ELSE admitted
          /\ entered' = IF let_in THEN entered \cup {m} ELSE entered
          /\ \/ ~let_in /\ End(q)
             \/ let_in /\ ~bucketed /\ LetIn(q)
             \/ /\ let_in /\ bucketed
                /\ pc' = [pc EXCEPT ![q] = "bucket"] /\ since' = [since EXCEPT ![q] = now]
             \/ LetIn(q)    \* the answer is lost: no bucket is asked either
  /\ UNCHANGED <<now, bucketed, bucket, ideal, delay>>

Refilled(b, c) ==
  IF c > b.updatedAt
  THEN [b EXCEPT !.available = Least(Capacity, @ + (c - b.updatedAt) * Refill), !.updatedAt = c]
  ELSE b

TokenBucket(q) ==
  /\ pc[q] = "bucket"
  /\ \E c \in since[q] .. now :
       LET b == Refilled(IF bucket = None THEN [available |-> Capacity, updatedAt |-> c, expiry |-> 0]
                         ELSE bucket, c)
           let_in == b.available >= Cost
           spent == IF let_in THEN Cost ELSE 0
           ttl == CeilDiv(Capacity, Refill)
       IN /\ bucket' = [available |-> b.available - spent, updatedAt |-> b.updatedAt,
                        expiry |-> now + IF ttl < 1 THEN 1 ELSE ttl]
          /\ ideal' = ideal - spent
          /\ delay' = delay + (now - c)
          /\ \/ ~let_in /\ End(q)
             \/ LetIn(q)      \* let in, or the answer is lost
  /\ UNCHANGED <<now, bucketed, zset, admitted, entered>>

\* Redis is not reached: the catch lets the call in, past the bucket too.
FailOpen(q) ==
  /\ pc[q] \in {"window", "bucket"}
  /\ LetIn(q)
  /\ UNCHANGED <<now, bucketed, zset, bucket, admitted, entered, ideal, delay>>

GuardStep(q) == canActivate(q) \/ SlidingWindow(q) \/ TokenBucket(q) \/ FailOpen(q)

-----------------------------------------------------------------------------
\* At any time, the route has admitted no more than its limit in the window that
\* ends, whatever the calls whose script ran late or that were let in by a failure
\* do to the log: each of those adds itself at most.
WindowKept == Cardinality(admitted) <= Limit

\* The tokens that the scripts hand out are covered by the capacity and the
\* refill of the time that has really passed, although the bucket counts the
\* servers' clocks, in any order, and forgets itself when its key expires; scripts
\* that run late add at most what the bucket is refilled in that time.
TokensCovered == ideal + delay * Refill >= 0

\* Calls that are refused do not use up the window: one is only refused if Limit
\* calls were let in within the window before it, so that asking on and on does
\* not keep anybody out.
RefusedForCause ==
  [][\A q \in Call : pc'[q] # "window" /\ SlidingWindow(q) /\ entered' = entered =>
       \E c \in since[q] .. now :
         Cardinality({m \in entered : c - Window < m[1]}) >= Limit
    ]_limiterVars
=============================================================================
