-------------------------- MODULE AdmissionProofs --------------------------
(***************************************************************************)
(* Theorems about EmailCheck and its RateLimiter, for any number of calls and   *)
(* all values of the limits, the refill and the lockouts.                       *)
(***************************************************************************)
EXTENDS EmailCheck, FiniteSetTheorems, TLAPS

\* What the bucket has at the time t, if nobody spends anything before.
Potential(b, t) ==
  IF b = None THEN Capacity ELSE Least(Capacity, b.available + (t - b.updatedAt) * Refill)

Clocks ==
  /\ now \in Time
  /\ since \in [Call -> Nat] /\ \A q \in Call : since[q] <= now

\* The key outlives the time that an empty bucket takes to fill.
BucketTyped ==
  bucket # None =>
    /\ bucket \in [available : Nat, updatedAt : Nat, expiry : Nat]
    /\ bucket \in Bucket
    /\ bucket.available <= Capacity /\ bucket.updatedAt <= now
    /\ bucket.updatedAt + CeilDiv(Capacity, Refill) <= bucket.expiry

\* The bucket never promises more than the ideal one has, but for what the delays
\* are worth.
BucketCovered ==
  /\ ideal \in Int /\ ideal <= Capacity /\ delay \in Nat
  /\ Potential(bucket, now) <= ideal + delay * Refill

BucketInv == Clocks /\ BucketTyped /\ BucketCovered

At(c) == {e \in entered : e[1] = c}

\* What was admitted within the window is in the log, which lives as long.
WindowInv ==
  /\ zset \in [log : SUBSET (Time \X Nat), expiry : 0 .. MaxTime + Window]
  /\ entered \subseteq Time \X Nat /\ IsFiniteSet(entered)
  /\ \A m \in entered : m[2] < Cardinality(At(m[1]))
  /\ zset.log \subseteq entered /\ Cardinality(zset.log) <= Limit
  /\ admitted \subseteq zset.log
  /\ \A m \in admitted :
       m[1] <= now /\ now < m[1] + Window /\ m[1] + Window <= zset.expiry

\* The first violation of an address finds no lockout to shorten.
LockInv ==
  /\ now \in Nat
  /\ lock \in [violationCount : Nat, lockedUntil : Nat]
  /\ lock.violationCount = 0 => lock.lockedUntil = 0
  /\ lock.lockedUntil <= now + Long

-----------------------------------------------------------------------------
(* Arithmetic *)

LEMMA Ceil ==
  ASSUME NEW a \in Nat, NEW b \in Nat \ {0}
  PROVE  CeilDiv(a, b) \in Nat /\ a <= CeilDiv(a, b) * b
<1> DEFINE n == a + b - 1  d == n \div b
<1>1. n \in Nat /\ d \in Int /\ n % b \in 0 .. b - 1
  OBVIOUS
<1>2. n = b * d + (n % b)
  OBVIOUS
<1>3. d >= 0
  OBVIOUS
<1>4. b * d >= a
  BY <1>1, <1>2
<1> QED BY <1>1, <1>3, <1>4 DEF CeilDiv

LEMMA Distributes ==
  ASSUME NEW a \in Int, NEW b \in Int, NEW r \in Int
  PROVE  a * r \in Int /\ (a + b) * r = a * r + b * r
OBVIOUS

LEMMA Grows ==
  ASSUME NEW a \in Int, NEW b \in Int, NEW r \in Nat, a <= b
  PROVE  a * r <= b * r
OBVIOUS

-----------------------------------------------------------------------------
(* The bucket *)

LEMMA BucketInitially == Init => BucketInv
BY LimiterConstants DEF Init, LimiterInit, BucketInv, Clocks, BucketTyped, BucketCovered, Potential, Time

\* A tick: the ideal bucket fills as fast as the real one, and a key that expires
\* would have been full.
LEMMA BucketTicks == ASSUME BucketInv, Tick PROVE BucketInv'
<1> DEFINE R == Refill  ttl == CeilDiv(Capacity, Refill)  D == delay * R
<1>1. /\ Capacity \in Nat \ {0} /\ R \in Nat \ {0} /\ now \in Nat /\ now' = now + 1
      /\ ideal \in Int /\ ideal <= Capacity /\ delay \in Nat /\ D \in Int /\ delay' = delay
      /\ Potential(bucket, now) <= ideal + D /\ ttl \in Nat /\ Capacity <= ttl * R /\ D >= 0
  <2>1. Capacity \in Nat \ {0} /\ R \in Nat \ {0} /\ now \in Nat
    BY LimiterConstants DEF BucketInv, Clocks, Time
  <2>2. /\ now' = now + 1 /\ delay' = delay /\ ideal \in Int /\ ideal <= Capacity
        /\ delay \in Nat /\ Potential(bucket, now) <= ideal + D
    BY DEF BucketInv, BucketCovered, Tick
  <2>3. ttl \in Nat /\ Capacity <= ttl * R
    BY <2>1, Ceil
  <2>4. D \in Int /\ D >= 0
    BY <2>1, <2>2
  <2> QED BY <2>1, <2>2, <2>3, <2>4
<1>2. Clocks'
  <2>1. now' \in Time
    BY <1>1, LimiterConstants DEF Tick, Time
  <2> QED BY <1>1, <2>1 DEF BucketInv, Clocks, Tick
<1>3. /\ ideal' = Least(Capacity, ideal + R) /\ ideal' \in Int /\ ideal' <= Capacity
  BY <1>1 DEF Tick, Least
<1>4. BucketTyped'
  BY <1>1 DEF BucketInv, BucketTyped, Tick
<1>5. Potential(bucket', now + 1) <= ideal' + D
  <2>1. CASE bucket = None
    <3>1. bucket' = None
      BY <2>1 DEF Tick
    <3> QED BY <1>1, <1>3, <2>1, <3>1 DEF Potential, Least
  <2>2. CASE bucket # None
    <3> DEFINE a == bucket.available  e == now - bucket.updatedAt  G == e * R
    <3>1. /\ a \in Nat /\ e \in Nat /\ G \in Int /\ a <= Capacity
          /\ bucket.expiry \in Nat /\ bucket.updatedAt + ttl <= bucket.expiry
          /\ bucket.updatedAt \in Nat /\ e = now - bucket.updatedAt
      BY <1>1, <2>2 DEF BucketInv, BucketTyped
    <3>2. (now + 1 - bucket.updatedAt) * R = G + R
      BY <1>1, <3>1, Distributes
    <3>3. Least(Capacity, a + G) <= ideal + D
      BY <1>1, <2>2 DEF Potential
    <3> HIDE DEF a, e, G, D, R
    <3>4. CASE bucket' = bucket
      <4>1. Potential(bucket, now + 1) = Least(Capacity, a + (now + 1 - bucket.updatedAt) * R)
        BY <1>1, <2>2, <3>1, <3>2 DEF Potential, Least, a, R
      <4> QED BY <1>1, <1>3, <3>1, <3>2, <3>3, <3>4, <4>1 DEF Least
    <3>5. CASE bucket' = None /\ bucket.expiry <= now + 1
      <4>1. ttl <= e + 1
        BY <1>1, <3>1, <3>5
      <4>2. ttl * R <= (e + 1) * R
        BY <1>1, <3>1, <4>1, Grows
      <4>3. (e + 1) * R = G + R
        BY <1>1, <3>1, Distributes DEF G
      <4>4. Capacity <= G + R
        BY <1>1, <3>1, <4>2, <4>3
      <4>5. Potential(bucket', now + 1) = Capacity
        BY <3>5 DEF Potential
      <4> QED BY <1>1, <1>3, <3>1, <3>3, <4>4, <4>5 DEF Least
    <3> QED BY <2>2, <3>4, <3>5 DEF Tick
  <2> QED BY <2>1, <2>2
<1>6. BucketCovered'
  BY <1>1, <1>3, <1>5 DEF BucketCovered, Potential
<1> QED BY <1>2, <1>4, <1>6 DEF BucketInv

\* The bucket as a script finds it with the clock c, and what it leaves.
Found(c) ==
  Refilled(IF bucket = None THEN [available |-> Capacity, updatedAt |-> c, expiry |-> 0]
           ELSE bucket, c)

LEMMA BucketSpends ==
  ASSUME BucketInv, NEW q \in Call, TokenBucket(q)
  PROVE  BucketInv'
<1> DEFINE R == Refill  ttl == CeilDiv(Capacity, Refill)
<1>1. /\ Capacity \in Nat \ {0} /\ R \in Nat \ {0} /\ Cost \in Nat \ {0}
      /\ now \in Nat /\ now' = now /\ now \in Time
      /\ ideal \in Int /\ ideal <= Capacity /\ delay \in Nat
      /\ Potential(bucket, now) <= ideal + delay * R /\ ttl \in Nat
  <2>1. Capacity \in Nat \ {0} /\ R \in Nat \ {0} /\ Cost \in Nat \ {0} /\ now \in Time /\ now \in Nat
    BY LimiterConstants DEF BucketInv, Clocks, Time
  <2>2. /\ now' = now /\ ideal \in Int /\ ideal <= Capacity
        /\ delay \in Nat /\ Potential(bucket, now) <= ideal + delay * R
    BY DEF BucketInv, BucketCovered, TokenBucket
  <2>3. ttl \in Nat
    BY <2>1, Ceil
  <2> QED BY <2>1, <2>2, <2>3
<1>2. PICK c \in since[q] .. now :
        LET b == Found(c)
            spent == IF b.available >= Cost THEN Cost ELSE 0
        IN /\ bucket' = [available |-> b.available - spent, updatedAt |-> b.updatedAt,
                         expiry |-> now + IF ttl < 1 THEN 1 ELSE ttl]
           /\ ideal' = ideal - spent
           /\ delay' = delay + (now - c)
           /\ End(q) \/ LetIn(q)
  BY DEF TokenBucket, Found
<1> DEFINE b == Found(c)
           spent == IF b.available >= Cost THEN Cost ELSE 0
           D == delay * R
           L == (now - c) * R
<1>3. c \in Nat /\ c <= now /\ c \in Time
  BY <1>1, <1>2, LimiterConstants DEF BucketInv, Clocks, Time
<1>4. Clocks'
  BY <1>1, <1>2 DEF BucketInv, Clocks, End, LetIn, Leave
<1>5. D \in Int /\ D >= 0 /\ L \in Int /\ L >= 0 /\ delay' * R = D + L
  BY <1>1, <1>2, <1>3, Distributes
<1>6. /\ b.available \in 0 .. Capacity /\ b.updatedAt \in Time /\ b.updatedAt <= now
      /\ b.available + (now - b.updatedAt) * R <= ideal + D + L
  <2>1. CASE bucket = None
    <3>1. b = [available |-> Capacity, updatedAt |-> c, expiry |-> 0]
      BY <1>3, <2>1 DEF Found, Refilled
    <3>2. Capacity <= ideal + D
      BY <1>1, <2>1 DEF Potential
    <3> QED BY <1>1, <1>3, <1>5, <3>1, <3>2
  <2>2. CASE bucket # None
    <3> DEFINE a == bucket.available  u == bucket.updatedAt  G == (now - u) * R
    <3>1. /\ a \in Nat /\ a <= Capacity /\ u \in Nat /\ u <= now /\ u \in Time
          /\ bucket \in [available : Nat, updatedAt : Nat, expiry : Nat]
      BY <2>2 DEF BucketInv, BucketTyped, Bucket
    <3>2. G \in Int /\ G >= 0
      BY <1>1, <3>1
    <3>3. Capacity <= ideal + D \/ a + G <= ideal + D
      BY <1>1, <1>5, <2>2, <3>1, <3>2 DEF Potential, Least
    <3>4. CASE c > u
      <4> DEFINE F == (c - u) * R  n == Least(Capacity, a + F)
      <4>1. F \in Int /\ F >= 0 /\ F <= G
        BY <1>1, <1>3, <3>1, <3>4, Grows
      <4>2. n \in 0 .. Capacity /\ n <= ideal + D
        BY <1>1, <1>5, <3>1, <3>2, <3>3, <4>1 DEF Least
      <4>3. b.available = n /\ b.updatedAt = c
        BY <2>2, <3>1, <3>4 DEF Found, Refilled
      <4> HIDE DEF n
      <4> QED BY <1>1, <1>3, <1>5, <4>2, <4>3
    <3>5. CASE ~(c > u)
      <4>1. b = bucket
        BY <2>2, <3>5 DEF Found, Refilled
      <4>2. G <= L
        BY <1>1, <1>3, <3>1, <3>5, Grows
      <4> HIDE DEF D, L
      <4> QED BY <1>1, <1>5, <3>1, <3>2, <3>3, <4>1, <4>2
    <3> QED BY <3>4, <3>5
  <2> QED BY <2>1, <2>2
<1>7. ttl >= 1
  BY <1>1, Ceil
<1>8. spent \in 0 .. b.available /\ ideal' = ideal - spent /\ ideal' \in Int
  BY <1>1, <1>2, <1>6
<1>9. bucket' = [available |-> b.available - spent, updatedAt |-> b.updatedAt, expiry |-> now + ttl]
  BY <1>1, <1>2, <1>7
<1> HIDE DEF b, spent, D, L, ttl
<1>10. bucket' \in [available : Nat, updatedAt : Nat, expiry : Nat] /\ bucket' \in Bucket
  BY <1>1, <1>6, <1>7, <1>8, <1>9, LimiterConstants DEF Bucket, Time, ttl
<1>11. BucketTyped'
  BY <1>1, <1>6, <1>7, <1>8, <1>9, <1>10 DEF BucketTyped, Time, ttl
<1>12. BucketCovered'
  <2> DEFINE S == (now - b.updatedAt) * R
  <2>1. bucket' # None
    BY <1>10, LimiterConstants
  <2>2. S \in Int
    BY <1>1, <1>6 DEF Time
  <2>3. Potential(bucket', now) <= b.available - spent + S
    BY <1>1, <1>6, <1>8, <1>9, <2>1, <2>2 DEF Potential, Least
  <2> HIDE DEF S
  <2>4. b.available - spent + S <= ideal' + delay' * R
    BY <1>1, <1>5, <1>6, <1>8, <2>2 DEF S
  <2>5. Potential(bucket', now) \in Int /\ delay' \in Nat /\ ideal' <= Capacity
    BY <1>1, <1>2, <1>3, <1>6, <1>8, <1>9, <2>1, <2>2 DEF Potential, Least, S
  <2> QED BY <1>1, <1>5, <1>6, <1>8, <2>2, <2>3, <2>4, <2>5 DEF BucketCovered, Potential
<1> QED BY <1>4, <1>11, <1>12 DEF BucketInv

LEMMA BucketInductive == BucketInv /\ [Next]_vars => BucketInv'
<1> SUFFICES ASSUME BucketInv, [Next]_vars PROVE BucketInv'
  OBVIOUS
<1>1. ASSUME UNCHANGED <<now, bucket, ideal, delay>>,
             since' \in [Call -> Nat], \A q \in Call : since'[q] \in {since[q], now, 0}
      PROVE  BucketInv'
  <2>1. Clocks'
    BY <1>1 DEF BucketInv, Clocks, Time
  <2> QED BY <1>1, <2>1 DEF BucketInv, BucketTyped, BucketCovered, Potential
<1>2. CASE UNCHANGED vars
  BY <1>1, <1>2 DEF vars, limiterVars, BucketInv, Clocks
<1>3. CASE Restart
  BY <1>1, <1>3 DEF Restart, BucketInv, Clocks
<1>4. ASSUME NEW q \in Call,
             canActivate(q) \/ SlidingWindow(q) \/ FailOpen(q) \/ validateEmail(q) \/ ResolveMx(q)
      PROVE  BucketInv'
  <2>1. since' = since \/ since' = [since EXCEPT ![q] = now] \/ since' = [since EXCEPT ![q] = 0]
    BY <1>4 DEF canActivate, SlidingWindow, FailOpen, validateEmail, ResolveMx, End, LetIn, Leave
  <2>2. UNCHANGED <<now, bucket, ideal, delay>>
    BY <1>4 DEF canActivate, SlidingWindow, FailOpen, validateEmail, ResolveMx
  <2>3. now \in Nat /\ since \in [Call -> Nat]
    BY LimiterConstants DEF BucketInv, Clocks, Time
  <2> QED BY <1>1, <2>1, <2>2, <2>3
<1> QED BY <1>2, <1>3, <1>4, BucketTicks, BucketSpends DEF Next, GuardStep

\* The tokens handed out are covered by the capacity and by the refill of the
\* time that has passed and of the delays, for every capacity, refill and cost,
\* any number of calls and any order of their scripts.
THEOREM TokensAlwaysCovered == Spec => []TokensCovered
<1>1. BucketInv => TokensCovered
  <2> SUFFICES ASSUME BucketInv PROVE TokensCovered
    OBVIOUS
  <2>1. ideal \in Int /\ delay * Refill \in Int /\ Potential(bucket, now) <= ideal + delay * Refill
    BY LimiterConstants DEF BucketInv, BucketCovered
  <2>2. Potential(bucket, now) \in Nat
    <3>1. CASE bucket = None
      BY <3>1, LimiterConstants DEF Potential
    <3>2. CASE bucket # None
      <4>1. (now - bucket.updatedAt) * Refill \in Nat
        BY <3>2, LimiterConstants DEF BucketInv, BucketTyped, Clocks, Time
      <4> QED BY <3>2, <4>1, LimiterConstants DEF BucketInv, BucketTyped, Potential, Least
    <3> QED BY <3>1, <3>2
  <2> QED BY <2>1, <2>2 DEF TokensCovered
<1> QED BY <1>1, BucketInitially, BucketInductive, PTL DEF Spec

-----------------------------------------------------------------------------
(* The lockout *)

LEMMA LockInitially == Init => LockInv
BY LockoutConstants DEF Init, LimiterInit, LockInv, NoLock

\* A violation never brings a lock's end nearer.
LEMMA Recorded ==
  ASSUME LockInv, NEW l \in [violationCount : Nat, lockedUntil : Nat],
         l.violationCount = 0 => l.lockedUntil = 0, l.lockedUntil <= now + Long
  PROVE  /\ recordViolation(l) \in [violationCount : Nat, lockedUntil : Nat]
         /\ recordViolation(l).violationCount # 0
         /\ recordViolation(l).lockedUntil <= now + Long
         /\ l.lockedUntil <= recordViolation(l).lockedUntil
BY LockoutConstants DEF LockInv, recordViolation

LEMMA LockInductive ==
  LockInv /\ [Next]_vars => LockInv' /\ (lock' # NoLock => lock.lockedUntil <= lock'.lockedUntil)
<1> SUFFICES ASSUME LockInv, [Next]_vars
             PROVE  LockInv' /\ (lock' # NoLock => lock.lockedUntil <= lock'.lockedUntil)
  OBVIOUS
<1>1. CASE UNCHANGED <<now, lock>>
  BY <1>1 DEF LockInv
<1>2. CASE Tick /\ UNCHANGED lock
  BY <1>2, LockoutConstants DEF Tick, LockInv
<1>3. CASE Restart
  BY <1>3, LockoutConstants DEF Restart, LockInv, NoLock
<1>4. ASSUME now' = now,
             lock' \in {lock, recordViolation(lock), recordViolation(recordViolation(lock))}
      PROVE  LockInv' /\ lock.lockedUntil <= lock'.lockedUntil
  <2>1. /\ recordViolation(lock) \in [violationCount : Nat, lockedUntil : Nat]
        /\ recordViolation(lock).violationCount # 0
        /\ recordViolation(lock).lockedUntil <= now + Long
        /\ lock.lockedUntil <= recordViolation(lock).lockedUntil
    BY Recorded DEF LockInv
  <2>2. /\ recordViolation(recordViolation(lock)) \in [violationCount : Nat, lockedUntil : Nat]
        /\ recordViolation(recordViolation(lock)).violationCount # 0
        /\ recordViolation(recordViolation(lock)).lockedUntil <= now + Long
        /\ recordViolation(lock).lockedUntil <= recordViolation(recordViolation(lock)).lockedUntil
    BY <2>1, Recorded
  <2> QED BY <1>4, <2>1, <2>2 DEF LockInv
<1>5. ASSUME NEW q \in Call, validateEmail(q) \/ ResolveMx(q)
      PROVE  LockInv' /\ lock.lockedUntil <= lock'.lockedUntil
  BY <1>4, <1>5 DEF validateEmail, ResolveMx
<1>6. ASSUME NEW q \in Call, GuardStep(q), UNCHANGED lock
      PROVE  UNCHANGED <<now, lock>>
  BY <1>6 DEF GuardStep, canActivate, SlidingWindow, TokenBucket, FailOpen
<1> QED BY <1>1, <1>2, <1>3, <1>5, <1>6 DEF Next, vars, limiterVars

\* A lockout that was announced is not cut short while the server runs, whatever
\* look-ups that passed it earlier record, for any two durations of which the
\* second is not shorter.
THEOREM LockoutsStand == Spec => LockoutNotShortened
<1>1. LockInv /\ [Next]_vars =>
        [lock' # NoLock /\ now < lock.lockedUntil => lock'.lockedUntil >= lock.lockedUntil]_vars
  <2> SUFFICES ASSUME LockInv, [Next]_vars, lock' # NoLock
               PROVE  lock'.lockedUntil >= lock.lockedUntil
    OBVIOUS
  <2>1. LockInv' /\ lock.lockedUntil <= lock'.lockedUntil
    BY LockInductive
  <2> QED BY <2>1 DEF LockInv
<1>2. LockInv /\ [Next]_vars => LockInv'
  BY LockInductive
<1> QED BY <1>1, <1>2, LockInitially, PTL DEF Spec, LockoutNotShortened
-----------------------------------------------------------------------------
(* The window *)

LEMMA LimitsTyped ==
  /\ Limit \in Nat /\ Window \in Nat \ {0} /\ MaxTime \in Nat
BY LimiterConstants

LEMMA ClocksHold == Spec => []Clocks
<1>1. BucketInv => Clocks
  BY DEF BucketInv
<1> QED BY <1>1, BucketInitially, BucketInductive, PTL DEF Spec

LEMMA WindowInitially == Init => WindowInv
<1> SUFFICES ASSUME Init PROVE WindowInv
  OBVIOUS
<1>1. zset.log = {} /\ zset.expiry = 0 /\ zset = [log |-> {}, expiry |-> 0]
      /\ entered = {} /\ admitted = {}
  BY DEF Init, LimiterInit, NoKey
<1>2. IsFiniteSet({}) /\ Cardinality({}) = 0
  BY FS_EmptySet
<1>3. zset \in [log : SUBSET (Time \X Nat), expiry : 0 .. MaxTime + Window]
  BY <1>1, LimitsTyped
<1> QED BY <1>1, <1>2, <1>3, LimitsTyped DEF WindowInv

\* A tick: the key expires only when nothing of the window is left.
LEMMA WindowTicks == ASSUME Clocks, WindowInv, Tick PROVE WindowInv'
<1>1. /\ now \in Nat /\ now' = now + 1 /\ entered' = entered
      /\ zset' = IF zset.expiry <= now + 1 THEN NoKey ELSE zset
      /\ admitted' = {m \in admitted : m[1] + Window > now + 1}
      /\ zset.expiry \in Nat /\ \A m \in admitted : m[1] \in Nat
  BY LimitsTyped DEF Clocks, Tick, WindowInv, Time
<1>2. CASE zset' = NoKey /\ zset.expiry <= now + 1
  <2>1. admitted' = {}
    BY <1>1, <1>2, LimitsTyped DEF WindowInv
  <2>2. zset'.log = {} /\ zset' = [log |-> {}, expiry |-> 0]
    BY <1>2 DEF NoKey
  <2>3. Cardinality({}) = 0
    BY FS_EmptySet
  <2>4. zset' \in [log : SUBSET (Time \X Nat), expiry : 0 .. MaxTime + Window]
    BY <2>2, LimitsTyped
  <2>5. \A e \in entered' : e[2] < Cardinality(At(e[1])')
    BY <1>1 DEF WindowInv, At
  <2>6. /\ entered' \subseteq Time \X Nat /\ IsFiniteSet(entered') /\ zset'.log \subseteq entered'
        /\ Cardinality(zset'.log) <= Limit /\ admitted' \subseteq zset'.log
    <3>1. entered' \subseteq Time \X Nat /\ IsFiniteSet(entered')
      BY <1>1 DEF WindowInv
    <3>2. Cardinality(zset'.log) <= Limit
      BY <2>2, <2>3, LimitsTyped
    <3> QED BY <2>1, <2>2, <3>1, <3>2
  <2> QED BY <2>1, <2>4, <2>5, <2>6 DEF WindowInv
<1>3. CASE zset' = zset
  BY <1>1, <1>3, LimitsTyped DEF WindowInv, At
<1> QED BY <1>1, <1>2, <1>3

\* The window's script, with the clock c.
Ran(c, log, m, let_in) ==
  /\ log = Recent(zset.log, c) /\ m = Member(c)
  /\ let_in <=> Cardinality(log) < Limit
  /\ zset' = [log |-> IF let_in THEN log \cup {m} ELSE log, expiry |-> now + Window]
  /\ admitted' = IF let_in /\ c = now THEN admitted \cup {m} ELSE admitted
  /\ entered' = IF let_in THEN entered \cup {m} ELSE entered

LEMMA ScriptRan ==
  ASSUME NEW q \in Call, SlidingWindow(q)
  PROVE  \E c \in since[q] .. now : \E log, m : \E let_in \in BOOLEAN : Ran(c, log, m, let_in)
<1>1. PICK c \in since[q] .. now :
        LET log == Recent(zset.log, c)
            let_in == Cardinality(log) < Limit
            m == Member(c)
        IN /\ zset' = [log |-> IF let_in THEN log \cup {m} ELSE AfterRefusal(log, m),
                       expiry |-> now + Window]
           /\ admitted' = IF let_in /\ c = now THEN admitted \cup {m} ELSE admitted
           /\ entered' = IF let_in THEN entered \cup {m} ELSE entered
  BY Zenon DEF SlidingWindow
<1>2. Ran(c, Recent(zset.log, c), Member(c), Cardinality(Recent(zset.log, c)) < Limit)
  BY <1>1 DEF Ran, AfterRefusal
<1>3. (Cardinality(Recent(zset.log, c)) < Limit) \in BOOLEAN
  OBVIOUS
<1> QED BY <1>2, <1>3, Zenon

\* The id is one that nobody has had.
LEMMA MemberIsNew ==
  ASSUME WindowInv, NEW c \in Time
  PROVE  /\ Member(c) \in Time \X Nat /\ Member(c)[1] = c /\ Member(c) \notin entered
         /\ IsFiniteSet(At(c)) /\ Member(c)[2] = Cardinality(At(c))
<1>1. IsFiniteSet(At(c)) /\ Cardinality(At(c)) \in Nat
  <2>1. At(c) \subseteq entered /\ IsFiniteSet(entered)
    BY DEF WindowInv, At
  <2> QED BY <2>1, FS_Subset, FS_CardinalityType
<1>2. Member(c) = <<c, Cardinality(At(c))>>
  BY DEF Member, At
<1>3. Member(c) \notin entered
  <2> SUFFICES ASSUME Member(c) \in entered PROVE FALSE
    OBVIOUS
  <2>1. Member(c)[2] < Cardinality(At(Member(c)[1]))
    BY DEF WindowInv
  <2> QED BY <1>1, <1>2, <2>1
<1> QED BY <1>1, <1>2, <1>3

LEMMA Numbered ==
  ASSUME WindowInv, NEW c \in Time, entered' = entered \cup {Member(c)}
  PROVE  \A m \in entered' : m[2] < Cardinality(At(m[1])')
<1> SUFFICES ASSUME NEW m \in entered' PROVE m[2] < Cardinality(At(m[1])')
  OBVIOUS
<1>1. /\ Member(c)[1] = c /\ Member(c) \notin entered /\ IsFiniteSet(At(c))
      /\ Member(c)[2] = Cardinality(At(c)) /\ Cardinality(At(c)) \in Nat
      /\ Member(c) \notin At(c)
  BY MemberIsNew, FS_CardinalityType DEF At
<1>2. At(c)' = At(c) \cup {Member(c)}
  BY <1>1 DEF At
<1>3. Cardinality(At(c)') = Cardinality(At(c)) + 1
  BY <1>1, <1>2, FS_AddElement
<1>4. m = Member(c) \/ (m \in entered /\ m[2] < Cardinality(At(m[1])) /\ m[2] \in Nat)
  BY DEF WindowInv
<1>5. m[1] # c => At(m[1])' = At(m[1])
  BY <1>1 DEF At
<1> QED BY <1>1, <1>3, <1>4, <1>5

\* A script, late or not: what it trims was not admitted within the window.
LEMMA WindowSlides ==
  ASSUME Clocks, WindowInv, NEW q \in Call, SlidingWindow(q) PROVE WindowInv'
<1>0. PICK c \in since[q] .. now : \E log, m : \E let_in \in BOOLEAN : Ran(c, log, m, let_in)
  BY ScriptRan
<1>1. PICK log, m, let_in : let_in \in BOOLEAN /\ Ran(c, log, m, let_in)
  BY <1>0
<1>2. /\ c \in Nat /\ c <= now /\ c \in Time /\ now' = now /\ now \in Nat /\ now <= MaxTime
  BY LimitsTyped DEF Clocks, Time, SlidingWindow
<1> USE DEF Ran
<1>3. log \subseteq zset.log /\ IsFiniteSet(log) /\ Cardinality(log) \in Nat
      /\ Cardinality(log) <= Limit
  <2>1. IsFiniteSet(zset.log)
    BY FS_Subset DEF WindowInv
  <2>2. log \subseteq zset.log
    BY <1>1 DEF Recent
  <2> QED BY <2>1, <2>2, FS_Subset, FS_CardinalityType, LimitsTyped DEF WindowInv
<1>4. admitted \subseteq log
  <2> SUFFICES ASSUME NEW a \in admitted PROVE a[1] > c - Window
    BY <1>1 DEF WindowInv, Recent
  <2>1. a[1] \in Nat /\ now < a[1] + Window
    BY DEF WindowInv, Time
  <2> QED BY <1>2, <2>1, LimitsTyped
<1>5. m \in Time \X Nat /\ m[1] = c
  BY <1>1, <1>2, MemberIsNew
<1>6. CASE let_in
  <2>1. zset'.log = log \cup {m} /\ zset'.expiry = now + Window /\ entered' = entered \cup {m}
        /\ zset' = [log |-> log \cup {m}, expiry |-> now + Window]
    BY <1>1, <1>6
  <2>2. Cardinality(log \cup {m}) <= Limit
    <3>1. Cardinality(log \cup {m}) = IF m \in log THEN Cardinality(log) ELSE Cardinality(log) + 1
      BY <1>3, FS_AddElement
    <3> QED BY <1>1, <1>3, <1>6, <3>1, LimitsTyped
  <2>3. IsFiniteSet(entered \cup {m})
    BY FS_AddElement DEF WindowInv
  <2>4. /\ admitted' \subseteq admitted \cup {m} /\ (m \in admitted' => m \in admitted \/ c = now)
        /\ admitted' \subseteq log \cup {m}
    BY <1>1, <1>4
  <2>5. \A a \in admitted' : a[1] <= now /\ now < a[1] + Window /\ a[1] + Window <= now + Window
    <3> SUFFICES ASSUME NEW a \in admitted'
                 PROVE  a[1] <= now /\ now < a[1] + Window /\ a[1] + Window <= now + Window
      OBVIOUS
    <3>1. CASE a \in admitted
      <4>1. a[1] \in Nat /\ a[1] <= now /\ now < a[1] + Window
        BY <3>1 DEF WindowInv, Time
      <4> QED BY <1>2, <4>1, LimitsTyped
    <3>2. CASE a = m /\ c = now
      BY <1>2, <1>5, <3>2, LimitsTyped
    <3> QED BY <2>4, <3>1, <3>2
  <2>6. zset' \in [log : SUBSET (Time \X Nat), expiry : 0 .. MaxTime + Window]
    BY <1>2, <1>3, <1>5, <2>1, LimitsTyped DEF WindowInv
  <2>7. \A e \in entered' : e[2] < Cardinality(At(e[1])')
    BY <1>1, <1>2, <2>1, Numbered
  <2> QED BY <1>2, <1>3, <1>5, <2>1, <2>2, <2>3, <2>4, <2>5, <2>6, <2>7 DEF WindowInv
<1>7. CASE ~let_in
  <2>1. zset'.log = log /\ zset'.expiry = now + Window /\ entered' = entered /\ admitted' = admitted
        /\ zset' = [log |-> log, expiry |-> now + Window]
    BY <1>1, <1>7
  <2>2. \A a \in admitted : a[1] <= now /\ now < a[1] + Window /\ a[1] + Window <= now + Window
    <3> SUFFICES ASSUME NEW a \in admitted
                 PROVE  a[1] <= now /\ now < a[1] + Window /\ a[1] + Window <= now + Window
      OBVIOUS
    <3>1. a[1] \in Nat /\ a[1] <= now /\ now < a[1] + Window
      BY DEF WindowInv, Time
    <3> QED BY <1>2, <3>1, LimitsTyped
  <2>3. zset' \in [log : SUBSET (Time \X Nat), expiry : 0 .. MaxTime + Window]
    BY <1>2, <1>3, <2>1, LimitsTyped DEF WindowInv
  <2>4. \A e \in entered' : e[2] < Cardinality(At(e[1])')
    BY <2>1 DEF WindowInv, At
  <2> QED BY <1>2, <1>3, <1>4, <2>1, <2>2, <2>3, <2>4 DEF WindowInv
<1> QED BY <1>6, <1>7

LEMMA WindowInductive == Clocks /\ WindowInv /\ [Next]_vars => WindowInv'
<1> SUFFICES ASSUME Clocks, WindowInv, [Next]_vars PROVE WindowInv'
  OBVIOUS
<1>1. CASE UNCHANGED <<now, zset, admitted, entered>>
  BY <1>1 DEF WindowInv, At
<1>2. ASSUME NEW q \in Call, GuardStep(q), ~SlidingWindow(q)
      PROVE  UNCHANGED <<now, zset, admitted, entered>>
  BY <1>2 DEF GuardStep, canActivate, TokenBucket, FailOpen
<1>3. ASSUME NEW q \in Call, validateEmail(q) \/ ResolveMx(q)
      PROVE  UNCHANGED <<now, zset, admitted, entered>>
  BY <1>3 DEF validateEmail, ResolveMx
<1>4. Restart => UNCHANGED <<now, zset, admitted, entered>>
  BY DEF Restart
<1> QED BY <1>1, <1>2, <1>3, <1>4, WindowTicks, WindowSlides DEF Next, vars, limiterVars

\* In no window that ends now have scripts with the right time let in more calls
\* than the limit, for every limit and window, any number of calls, and scripts
\* that run late in any order.
THEOREM WindowAlwaysKept == Spec => []WindowKept
<1>1. WindowInv => WindowKept
  <2> SUFFICES ASSUME WindowInv PROVE Cardinality(admitted) <= Limit
    BY DEF WindowKept
  <2>1. IsFiniteSet(zset.log)
    BY FS_Subset DEF WindowInv
  <2>2. /\ Cardinality(zset.log) \in Nat /\ Cardinality(admitted) \in Nat
        /\ Cardinality(admitted) <= Cardinality(zset.log) /\ Cardinality(zset.log) <= Limit
    BY <2>1, FS_Subset, FS_CardinalityType DEF WindowInv
  <2> QED BY <2>2, LimitsTyped
<1> QED BY <1>1, WindowInitially, WindowInductive, ClocksHold, PTL DEF Spec

\* Nobody is refused but for calls that were let in.
THEOREM RefusalsHaveCause == Spec => RefusedForCause
<1>1. Clocks /\ WindowInv /\ [Next]_vars =>
        [\A q \in Call : pc'[q] # "window" /\ SlidingWindow(q) /\ entered' = entered =>
           \E c \in since[q] .. now :
             Cardinality({m \in entered : c - Window < m[1]}) >= Limit]_limiterVars
  <2> SUFFICES ASSUME Clocks, WindowInv, NEW q \in Call, SlidingWindow(q), entered' = entered
               PROVE  \E c \in since[q] .. now :
                        Cardinality({m \in entered : c - Window < m[1]}) >= Limit
    OBVIOUS
  <2>0. PICK c \in since[q] .. now : \E log, m : \E let_in \in BOOLEAN : Ran(c, log, m, let_in)
    BY ScriptRan
  <2>1. PICK log, m, let_in : let_in \in BOOLEAN /\ Ran(c, log, m, let_in)
    BY <2>0
  <2> DEFINE cause == {e \in entered : c - Window < e[1]}
  <2>2. c \in Nat /\ c \in Time
    BY LimitsTyped DEF Clocks, Time
  <2>3. log \subseteq cause /\ cause \subseteq entered
    BY <2>1, <2>2, LimitsTyped DEF Ran, Recent, WindowInv, Time
  <2>4. IsFiniteSet(cause) /\ IsFiniteSet(log)
    BY <2>3, FS_Subset DEF WindowInv
  <2>5. /\ Cardinality(cause) \in Nat /\ Cardinality(log) \in Nat
        /\ Cardinality(log) <= Cardinality(cause)
    BY <2>3, <2>4, FS_Subset, FS_CardinalityType
  <2>6. ~let_in
    BY <2>1, <2>2, MemberIsNew DEF Ran
  <2>7. Cardinality(log) >= Limit
    BY <2>1, <2>5, <2>6, LimitsTyped DEF Ran
  <2>8. Cardinality(cause) >= Limit
    BY <2>5, <2>7, LimitsTyped
  <2> QED BY <2>8
<1> QED BY <1>1, WindowInitially, WindowInductive, ClocksHold, PTL DEF Spec, RefusedForCause
-----------------------------------------------------------------------------
(* Types                                                                      *)

Label == {"idle", "window", "bucket", "handler", "resolveMx"}

LabelsOK == bucketed \in BOOLEAN /\ pc \in [Call -> Label]

LEMMA LabelsInductive == LabelsOK /\ [Next]_vars => LabelsOK'
<1> SUFFICES ASSUME LabelsOK, [Next]_vars PROVE LabelsOK'
  OBVIOUS
<1>1. bucketed' = bucketed
  BY DEF Next, GuardStep, Tick, Restart, canActivate, SlidingWindow, TokenBucket, FailOpen,
     validateEmail, ResolveMx, vars, limiterVars
<1>2. ASSUME NEW q \in Call, GuardStep(q) \/ validateEmail(q) \/ ResolveMx(q)
      PROVE  pc' \in [Call -> Label]
  <2>1. \E l \in Label : pc' = [pc EXCEPT ![q] = l]
    BY <1>2 DEF GuardStep, canActivate, SlidingWindow, TokenBucket, FailOpen, validateEmail,
       ResolveMx, End, LetIn, Leave, Label
  <2> QED BY <2>1 DEF LabelsOK
<1>3. Tick \/ Restart \/ UNCHANGED vars => pc' \in [Call -> Label]
  BY DEF Tick, Restart, vars, limiterVars, LabelsOK, Label
<1> QED BY <1>1, <1>2, <1>3 DEF Next, LabelsOK

\* The types, of which those of the bucket and of the log are the bounds that the
\* scripts keep.
THEOREM AdmissionTyped == Spec => []TypeOK
<1>1. Init => LabelsOK
  BY DEF Init, LimiterInit, LabelsOK, Label
<1>2. LabelsOK /\ BucketInv /\ WindowInv /\ LockInv => TypeOK
  <2> SUFFICES ASSUME LabelsOK, BucketInv, WindowInv, LockInv PROVE TypeOK
    OBVIOUS
  <2>1. now \in Time /\ since \in [Call -> Time]
    BY LimitsTyped DEF BucketInv, Clocks, Time
  <2>2. bucket \in Bucket \cup {None}
    BY DEF BucketInv, BucketTyped
  <2>3. lock \in [violationCount : Nat, lockedUntil : 0 .. MaxTime + Long]
    BY <2>1, LimitsTyped, LockoutConstants DEF LockInv, Time
  <2> QED BY <2>1, <2>2, <2>3 DEF TypeOK, LabelsOK, Label, WindowInv
<1>3. LockInv /\ [Next]_vars => LockInv'
  BY LockInductive
<1> QED BY <1>1, <1>2, <1>3, LabelsInductive, BucketInitially, BucketInductive,
       WindowInitially, WindowInductive, LockInitially, ClocksHold, PTL DEF Spec
=============================================================================
