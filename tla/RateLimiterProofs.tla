-------------------------- MODULE RateLimiterProofs --------------------------
(***************************************************************************)
(* Proofs about the rate limiter, for all intervals, periods and permits   *)
(* per period, all requests and any number of callers: the long-run rate,  *)
(* the order of the grants and the neutrality of rejected calls.           *)
(*                                                                         *)
(* RateHeld speaks about the last grant only.  What makes it inductive is  *)
(* the relation between the statistics and the permits handed out so far:  *)
(* the smooth limiter's next free time is the interval after the last one  *)
(* that was given away (SmoothAccounts), and what the bursty limiter has   *)
(* left of its current period, negative in a deficit, is at most what the  *)
(* periods so far gave minus what was granted (BurstyAccounts).            *)
(***************************************************************************)
EXTENDS RateLimiter, TLAPS

ConfigOK ==
  /\ interval \in Nat /\ period \in Nat /\ periodPermits \in Nat
  /\ ~Smooth => period > 0 /\ periodPermits > 0

\* The smooth limiter has given away the first m intervals, and nothing else.
SmoothAccounts ==
  Smooth =>
    \E m \in Nat :
      /\ nextFreePermitTime = interval * m
      /\ granted <= m
      /\ granted > 0 => Slot(lastUse) + 1 <= m
      /\ granted = 0 => nextFreePermitTime <= ElapsedTime

\* The last grant was for now at the latest, or for a period whose predecessors the deficit eats up.
LastUseCovered(current, available) ==
  \/ lastUse <= ElapsedTime
  \/ \E q \in Nat : lastUse = period * q /\ periodPermits * (q - current - 1) < 0 - available

BurstyAccounts ==
  ~Smooth =>
    /\ currentPeriod <= NewCurrentPeriod
    /\ granted <= periodPermits * (currentPeriod + 1) - availablePermits
    /\ granted = 0 => availablePermits = periodPermits
    /\ granted > 0 => LastUseCovered(currentPeriod, availablePermits)

IInv == TypeOK /\ ConfigOK /\ SmoothAccounts /\ BurstyAccounts /\ RateHeld

-----------------------------------------------------------------------------
(***************************************************************************)
(* Arithmetic.                                                             *)
(***************************************************************************)
\* Division with remainder.
LEMMA DivMod ==
  ASSUME NEW a \in Int, NEW b \in Nat \ {0}
  PROVE  /\ a \div b \in Int /\ a % b \in 0 .. (b - 1)
         /\ a = (b * (a \div b)) + (a % b)
OBVIOUS

\* Its quotient and its remainder are unique.
LEMMA DivUnique ==
  ASSUME NEW b \in Nat \ {0}, NEW q \in Int, NEW x \in 0 .. b - 1
  PROVE  (b * q + x) \div b = q /\ (b * q + x) % b = x
OBVIOUS

\* A later interval is a later time.
LEMMA DivMonotonic ==
  ASSUME NEW a \in Nat, NEW b \in Nat, NEW k \in Nat \ {0}, a \div k < b \div k
  PROVE  a <= b
OBVIOUS

LEMMA DivStep ==
  ASSUME NEW a \in Nat, NEW k \in Nat \ {0}
  PROVE  a \div k <= (a + 1) \div k
<1> DEFINE q == a \div k
           p == (a + 1) \div k
<1>1. q \in Int /\ a % k \in 0 .. (k - 1) /\ a = (k * q) + (a % k)
  BY DivMod
<1>2. p \in Int /\ (a + 1) % k \in 0 .. (k - 1) /\ a + 1 = (k * p) + ((a + 1) % k)
  BY DivMod
<1> HIDE DEF q, p
<1>3. k * q < k * (p + 1)
  BY <1>1, <1>2
<1>4. q < p + 1
  BY <1>1, <1>2, <1>3
<1> QED  BY <1>1, <1>2, <1>4 DEF q, p

\* What acquirePermits of smoothStats computes: the next free time stays on the grid, does not go
\* back, and the permits of a request are for the intervals that end there.
SmoothRule(i, e, m, r) ==
  LET base == IF e >= i * m THEN RoundDown(e, i) ELSE i * m
      use  == e + AtLeastZero(base + i * r - e - i)
  IN \E k \in Nat :
       /\ base = i * k /\ k >= m
       /\ base + i * r = i * (k + r)
       /\ use \in Nat
       /\ r > 0 => use \div i = k + r - 1

LEMMA SmoothGrant ==
  ASSUME NEW i \in Nat \ {0}, NEW e \in Nat, NEW m \in Nat, NEW r \in Nat
  PROVE  SmoothRule(i, e, m, r)
<1> DEFINE base == IF e >= i * m THEN RoundDown(e, i) ELSE i * m
           use  == e + AtLeastZero(base + i * r - e - i)
           q    == e \div i
           k    == IF e >= i * m THEN q ELSE m
<1>1. q \in Nat /\ e % i \in 0 .. (i - 1) /\ e = (i * q) + (e % i)
  <2>1. q \in Int /\ e % i \in 0 .. (i - 1) /\ e = (i * q) + (e % i)
    BY DivMod
  <2> QED  BY <2>1
<1>2. base = i * k
  BY <1>1 DEF RoundDown
<1>3. k \in Nat /\ k >= m
  BY <1>1
<1>4. base + i * r = i * (k + r)
  BY <1>2, <1>3
<1>5. use = IF i * (k + r) - i < e THEN e ELSE i * (k + r - 1)
  BY <1>2, <1>3, <1>4 DEF AtLeastZero
<1>6. use \in Nat
  BY <1>3, <1>5
<1>7. ASSUME r > 0 PROVE use \div i = k + r - 1
  <2>1. CASE i * (k + r) - i < e
    <3>1. k + r - 1 <= q
      BY <2>1, <1>1, <1>3
    <3>2. k >= q
      BY <1>1
    <3>3. q = k + r - 1
      BY <3>1, <3>2, <1>1, <1>3, <1>7
    <3> QED  BY <3>3, <2>1, <1>3, <1>5
  <2>2. CASE ~(i * (k + r) - i < e)
    <3>1. use = i * (k + r - 1) + 0
      BY <2>2, <1>3, <1>5
    <3> HIDE DEF use, k
    <3> QED  BY <3>1, <1>3, <1>7, DivUnique
  <2> QED  BY <2>1, <2>2
<1> HIDE DEF use, k, base
<1>8. \E kk \in Nat :
        /\ base = i * kk /\ kk >= m
        /\ base + i * r = i * (kk + r)
        /\ use \in Nat
        /\ r > 0 => use \div i = kk + r - 1
  BY <1>2, <1>3, <1>4, <1>6, <1>7
<1> QED  BY <1>8 DEF use, base, SmoothRule

\* What acquirePermits of burstyStats computes for a request of more than the permits left: the
\* first of the coming periods that covers the deficit.
BurstyRule(t, p, e, c, d) ==
  LET additional == (d \div p) - (IF d % p = 0 THEN 1 ELSE 0)
      wait == ((c + 1) * t - e) + additional * t
  IN \E q \in Nat :
       /\ e + wait = t * q /\ q > c
       /\ wait \in Nat /\ (e + wait) \div t = q
       /\ p * (q - c - 1) < d /\ d <= p * (q - c)

LEMMA BurstyDeficit ==
  ASSUME NEW t \in Nat \ {0}, NEW p \in Nat \ {0}, NEW e \in Nat, NEW c \in Nat, c = e \div t,
         NEW d \in Nat \ {0}
  PROVE  BurstyRule(t, p, e, c, d)
<1> DEFINE additional == (d \div p) - (IF d % p = 0 THEN 1 ELSE 0)
           wait == ((c + 1) * t - e) + additional * t
           q == c + 1 + additional
<1>1. e % t \in 0 .. (t - 1) /\ e = (t * c) + (e % t)
  BY DivMod
<1>2. d \div p \in Nat /\ d % p \in 0 .. (p - 1) /\ d = (p * (d \div p)) + (d % p)
  <2>1. d \div p \in Int /\ d % p \in 0 .. (p - 1) /\ d = (p * (d \div p)) + (d % p)
    BY DivMod
  <2> QED  BY <2>1
<1>3. additional \in Nat /\ p * additional < d /\ d <= p * (additional + 1)
  BY <1>2
<1> HIDE DEF additional
<1>4. q \in Nat /\ q > c /\ q - c - 1 = additional /\ q - c = additional + 1
  BY <1>3
<1>5. e + wait = t * q + 0
  BY <1>3
<1>6. wait \in Nat
  BY <1>1, <1>3
<1>7. (e + wait) \div t = q
  <2> HIDE DEF q, wait
  <2> QED  BY <1>4, <1>5, DivUnique
<1> HIDE DEF q, wait
<1>8. \E qq \in Nat :
        /\ e + wait = t * qq /\ qq > c
        /\ wait \in Nat /\ (e + wait) \div t = qq
        /\ p * (qq - c - 1) < d /\ d <= p * (qq - c)
  BY <1>3, <1>4, <1>5, <1>6, <1>7
<1> QED  BY <1>8 DEF wait, additional, BurstyRule

-----------------------------------------------------------------------------
(***************************************************************************)
(* The steps, by what they do to the statistics.                           *)
(***************************************************************************)
USE BoundsAssumption

\* Every builder gives a rate that can be divided by.
LEMMA BuiltConfig ==
  ASSUME NEW b \in Builders, config = Build(b)
  PROVE  ConfigOK
<1>1. CASE b.new = "NewSmoothBuilder"
  <2>1. b.period \div b.maxExecutions \in Nat \ {0}
    <3> DEFINE x == b.period
               y == b.maxExecutions
    <3>1. x \in Nat \ {0} /\ y \in Nat \ {0} /\ y <= x
      BY <1>1, BuildersAssumption
    <3> HIDE DEF x, y
    <3>2. /\ x \div y \in Int /\ x % y \in 0 .. (y - 1)
          /\ x = (y * (x \div y)) + (x % y)
      BY <3>1, DivMod
    <3>3. x \div y > 0
      BY <3>1, <3>2
    <3> QED  BY <3>2, <3>3 DEF x, y
  <2> QED  BY <1>1, <2>1 DEF ConfigOK, Build, NewSmoothBuilder, interval, period, periodPermits, Smooth
<1>2. CASE b.new = "NewSmoothBuilderWithMaxRate"
  BY <1>2, BuildersAssumption
     DEF ConfigOK, Build, NewSmoothBuilderWithMaxRate, interval, period, periodPermits, Smooth
<1>3. CASE b.new = "NewBurstyBuilder"
  BY <1>3, BuildersAssumption
     DEF ConfigOK, Build, NewBurstyBuilder, interval, period, periodPermits, Smooth
<1> QED  BY <1>1, <1>2, <1>3, BuildersAssumption

\* A step is a grant, a refusal, a Reset, a tick of the clock, or leaves the statistics alone.
LEMMA StepKinds ==
  ASSUME [Next]_vars
  PROVE  /\ config' = config
         /\ \/ now' = now /\ \E r \in Nat : Grant(r)
            \/ now' = now /\ \E r \in Nat : Refuse(r)
            \/ UNCHANGED <<now, stats, history>>
            \/ Reset
            \/ Tick
<1>1. ASSUME NEW c \in Callers, CallerStep(c)
      PROVE  /\ config' = config /\ now' = now
             /\ (\E r \in Nat : Grant(r)) \/ (\E r \in Nat : Refuse(r)) \/ UNCHANGED <<stats, history>>
  <2>1. CASE \E n \in Requests : AcquirePermits(c, n)
    BY <2>1 DEF AcquirePermits
  <2>2. CASE \E n \in Requests, w \in MaxWaits : AcquirePermitsWithMaxWait(c, n, w)
    BY <2>2 DEF AcquirePermitsWithMaxWait
  <2>3. CASE Apply(c)
    BY <2>3 DEF Apply
  <2>4. CASE TimerFires(c) \/ ContextDone(c) \/ Return(c) \/ CancelContext(c)
    BY <2>4 DEF TimerFires, ContextDone, Return, CancelContext
  <2> QED  BY <1>1, <2>1, <2>2, <2>3, <2>4 DEF CallerStep
<1>2. ASSUME NEW n \in Requests, NEW w, TryReservePermits(n, w)
      PROVE  /\ config' = config /\ now' = now
             /\ (\E r \in Nat : Grant(r)) \/ (\E r \in Nat : Refuse(r))
  BY <1>2 DEF TryReservePermits
<1>3. Reset \/ Tick => config' = config
  BY DEF Reset, Tick
<1>4. CASE UNCHANGED vars
  BY <1>4 DEF vars, stats, history
<1> QED  BY <1>1, <1>2, <1>3, <1>4 DEF Next

\* The rate is not changed by any step, and a Grant or a Refuse takes no time.
LEMMA SameRate ==
  ASSUME config' = config
  PROVE  /\ interval' = interval /\ period' = period /\ periodPermits' = periodPermits
         /\ Smooth' = Smooth
         /\ now' = now /\ start' = start => ElapsedTime' = ElapsedTime
BY DEF interval, period, periodPermits, Smooth, ElapsedTime

\* acquirePermits of burstyStats brings the period up to date: nothing granted is forgotten.
LEMMA Refresh ==
  ASSUME IInv, ~Smooth
  PROVE  /\ RefreshedPeriod = NewCurrentPeriod /\ NewCurrentPeriod \in Nat
         /\ RefreshedPermits \in Int
         /\ granted <= periodPermits * (RefreshedPeriod + 1) - RefreshedPermits
         /\ granted = 0 => RefreshedPermits = periodPermits
         /\ granted > 0 => LastUseCovered(RefreshedPeriod, RefreshedPermits)
<1> DEFINE c == NewCurrentPeriod
           P == periodPermits
           A == availablePermits
           R == RefreshedPermits
<1>1. /\ period \in Nat \ {0} /\ P \in Nat \ {0} /\ A \in Int
      /\ currentPeriod \in Nat /\ ElapsedTime \in Nat
      /\ granted \in Nat /\ lastUse \in Nat
  BY DEF IInv, TypeOK, ConfigOK, ElapsedTime
<1>2. /\ c \in Int /\ ElapsedTime % period \in 0 .. (period - 1)
      /\ ElapsedTime = (period * c) + (ElapsedTime % period)
  BY <1>1, DivMod DEF NewCurrentPeriod
<1>3. /\ currentPeriod <= c
      /\ granted <= P * (currentPeriod + 1) - A
      /\ granted = 0 => A = P
      /\ granted > 0 => LastUseCovered(currentPeriod, A)
  BY DEF IInv, BurstyAccounts
<1>4. R = IF currentPeriod < c THEN IF A < 0 THEN A + (c - currentPeriod) * P ELSE P ELSE A
  BY DEF RefreshedPermits
<1>5. RefreshedPeriod = c /\ c \in Nat
  BY <1>1, <1>2, <1>3 DEF RefreshedPeriod
<1> HIDE DEF c, P, A, R
<1>6. R \in Int
  BY <1>1, <1>4, <1>5
<1>7. granted <= P * (c + 1) - R
  <2>1. CASE currentPeriod < c /\ A < 0
    BY <1>1, <1>3, <1>4, <1>5, <2>1
  <2>2. CASE currentPeriod < c /\ A >= 0
    <3>1. P * (currentPeriod + 1) <= P * c
      BY <1>1, <1>5, <2>2
    <3> QED  BY <1>1, <1>3, <1>4, <1>5, <2>2, <3>1
  <2>3. CASE currentPeriod = c
    BY <1>1, <1>3, <1>4, <1>5, <2>3
  <2> QED  BY <1>1, <1>3, <1>5, <2>1, <2>2, <2>3
<1>8. granted = 0 => R = P
  BY <1>1, <1>3, <1>4, <1>5
<1>9. ASSUME granted > 0 PROVE LastUseCovered(c, R)
  <2>1. CASE lastUse <= ElapsedTime
    BY <2>1 DEF LastUseCovered
  <2>2. ASSUME NEW q \in Nat, lastUse = period * q, P * (q - currentPeriod - 1) < 0 - A
        PROVE  LastUseCovered(c, R)
    <3>1. CASE currentPeriod < c /\ A < 0
      <4>1. P * (q - c - 1) < 0 - R
        BY <1>1, <1>4, <1>5, <2>2, <3>1
      <4> QED  BY <2>2, <4>1 DEF LastUseCovered, P
    <3>2. CASE currentPeriod < c /\ A >= 0
      <4>1. q - currentPeriod - 1 < 0
        BY <1>1, <2>2, <3>2
      <4>2. q <= c
        BY <1>1, <1>5, <3>2, <4>1
      <4>3. period * q <= period * c
        BY <1>1, <1>5, <4>2
      <4> QED  BY <1>1, <1>2, <2>2, <4>3 DEF LastUseCovered
    <3>3. CASE currentPeriod = c
      BY <1>1, <1>4, <2>2, <3>3 DEF LastUseCovered, P
    <3> QED  BY <1>1, <1>3, <1>5, <3>1, <3>2, <3>3
  <2> QED  BY <1>3, <1>9, <2>1, <2>2 DEF LastUseCovered, P
<1> QED  BY <1>5, <1>6, <1>7, <1>8, <1>9 DEF c, P, R

-----------------------------------------------------------------------------
(***************************************************************************)
(* The grants.                                                             *)
(***************************************************************************)
\* What the action of GrantsInOrder says.
Ordered ==
  granted > 0 /\ granted' > granted =>
     /\ lastUse' >= lastUse
     /\ Smooth => Slot(lastUse') - Slot(lastUse) >= granted' - granted

\* A smooth grant in terms of the accounts.
LEMMA SmoothUse ==
  ASSUME IInv, Smooth, NEW r \in Nat
  PROVE  \E m, k \in Nat :
           /\ nextFreePermitTime = interval * m /\ granted <= m
           /\ granted > 0 => Slot(lastUse) + 1 <= m
           /\ granted = 0 => nextFreePermitTime <= ElapsedTime
           /\ k >= m /\ NewNextFreePermitTime(r) = interval * (k + r)
           /\ WaitTime(r) \in Nat
           /\ r > 0 => Slot(ElapsedTime + WaitTime(r)) = k + r - 1
           /\ granted = 0 => interval * k <= ElapsedTime
<1>1. interval \in Nat \ {0} /\ ElapsedTime \in Nat
  BY DEF IInv, TypeOK, ConfigOK, ElapsedTime, Smooth
<1>2. PICK m \in Nat :
        /\ nextFreePermitTime = interval * m /\ granted <= m
        /\ granted > 0 => Slot(lastUse) + 1 <= m
        /\ granted = 0 => nextFreePermitTime <= ElapsedTime
  BY DEF IInv, SmoothAccounts
<1> DEFINE base == IF ElapsedTime >= interval * m THEN RoundDown(ElapsedTime, interval)
                                                  ELSE interval * m
           use == ElapsedTime + AtLeastZero(base + interval * r - ElapsedTime - interval)
<1>3. PICK k \in Nat :
        /\ base = interval * k /\ k >= m
        /\ base + interval * r = interval * (k + r)
        /\ use \in Nat
        /\ r > 0 => use \div interval = k + r - 1
  <2>1. SmoothRule(interval, ElapsedTime, m, r)
    BY <1>1, SmoothGrant
  <2> QED  BY <2>1 DEF SmoothRule
<1>4. NewNextFreePermitTime(r) = base + interval * r
  BY <1>2 DEF NewNextFreePermitTime
<1>5. WaitTime(r) = AtLeastZero(base + interval * r - ElapsedTime - interval)
  <2> HIDE DEF base
  <2>1. WaitTime(r) = AtLeastZero(NewNextFreePermitTime(r) - ElapsedTime - interval)
    BY DEF WaitTime, SmoothWait
  <2> QED  BY <1>1, <1>3, <1>4, <2>1
<1>6. granted = 0 => base <= ElapsedTime
  <2>1. ElapsedTime % interval \in 0 .. (interval - 1)
    BY <1>1, DivMod
  <2> QED  BY <1>1, <1>2, <2>1 DEF RoundDown
<1> HIDE DEF base
<1>7. WaitTime(r) \in Nat
  <2>1. base + interval * r - ElapsedTime - interval \in Int
    BY <1>1, <1>3
  <2> QED  BY <1>5, <2>1 DEF AtLeastZero
<1>8. r > 0 => Slot(ElapsedTime + WaitTime(r)) = k + r - 1
  BY <1>3, <1>5 DEF Slot
<1> QED  BY <1>2, <1>3, <1>4, <1>6, <1>7, <1>8

\* A bursty grant in terms of the refreshed accounts.
LEMMA BurstyUse ==
  ASSUME IInv, ~Smooth, NEW r \in Nat
  PROVE  /\ WaitTime(r) \in Nat
         /\ r <= RefreshedPermits => WaitTime(r) = 0
         /\ r > RefreshedPermits =>
              \E q \in Nat :
                /\ ElapsedTime + WaitTime(r) = period * q /\ q > RefreshedPeriod
                /\ Slot(ElapsedTime + WaitTime(r)) = q
                /\ periodPermits * (q - RefreshedPeriod - 1) < r - RefreshedPermits
                /\ r - RefreshedPermits <= periodPermits * (q - RefreshedPeriod)
<1> DEFINE c == RefreshedPeriod
           d == r - RefreshedPermits
<1>1. period \in Nat \ {0} /\ periodPermits \in Nat \ {0} /\ ElapsedTime \in Nat
  BY DEF IInv, TypeOK, ConfigOK, ElapsedTime
<1>2. c \in Nat /\ c = ElapsedTime \div period /\ RefreshedPermits \in Int
  BY Refresh DEF NewCurrentPeriod
<1>3. r <= RefreshedPermits => WaitTime(r) = 0
  BY <1>2 DEF WaitTime, BurstyWait
<1>4. ASSUME r > RefreshedPermits
      PROVE  \E q \in Nat :
                /\ ElapsedTime + WaitTime(r) = period * q /\ q > c
                /\ WaitTime(r) \in Nat
                /\ Slot(ElapsedTime + WaitTime(r)) = q
                /\ periodPermits * (q - c - 1) < d
                /\ d <= periodPermits * (q - c)
  <2> DEFINE additional == (d \div periodPermits) - (IF d % periodPermits = 0 THEN 1 ELSE 0)
             wait == ((c + 1) * period - ElapsedTime) + additional * period
  <2>1. d \in Nat \ {0}
    BY <1>2, <1>4
  <2>2. WaitTime(r) = wait
    BY <1>2, <1>4 DEF WaitTime, BurstyWait, AdditionalPeriods
  <2>3. \E q \in Nat :
          /\ ElapsedTime + wait = period * q /\ q > c
          /\ wait \in Nat /\ (ElapsedTime + wait) \div period = q
          /\ periodPermits * (q - c - 1) < d /\ d <= periodPermits * (q - c)
    <3> HIDE DEF c, d
    <3>1. BurstyRule(period, periodPermits, ElapsedTime, c, d)
      BY <1>1, <1>2, <2>1, BurstyDeficit
    <3> QED  BY <3>1 DEF BurstyRule
  <2> HIDE DEF wait, c, d
  <2> QED  BY <2>2, <2>3 DEF Slot
<1>5. WaitTime(r) \in Nat
  BY <1>2, <1>3, <1>4
<1> QED  BY <1>3, <1>4, <1>5

\* No wait is negative.
LEMMA WaitIsNat ==
  ASSUME IInv, NEW r \in Nat
  PROVE  WaitTime(r) \in Nat
BY SmoothUse, BurstyUse

\* A smooth grant keeps the accounts, the rate and the order.
LEMMA SmoothGrantStep ==
  ASSUME IInv, Smooth, NEW r \in Nat, Grant(r), config' = config, now' = now
  PROVE  SmoothAccounts' /\ RateHeld' /\ Ordered /\ nextFreePermitTime' \in Nat
           /\ nextFreePermitTime' % interval = 0
<1>1. PICK m, k \in Nat :
        /\ nextFreePermitTime = interval * m /\ granted <= m
        /\ granted > 0 => Slot(lastUse) + 1 <= m
        /\ granted = 0 => nextFreePermitTime <= ElapsedTime
        /\ k >= m /\ NewNextFreePermitTime(r) = interval * (k + r)
        /\ WaitTime(r) \in Nat
        /\ r > 0 => Slot(ElapsedTime + WaitTime(r)) = k + r - 1
        /\ granted = 0 => interval * k <= ElapsedTime
  BY SmoothUse
<1>2. /\ granted' = granted + r /\ start' = start
      /\ nextFreePermitTime' = interval * (k + r)
      /\ r = 0 => lastUse' = lastUse
      /\ r > 0 => lastUse' = ElapsedTime + WaitTime(r)
  BY <1>1 DEF Grant
<1>3. ElapsedTime' = ElapsedTime /\ interval' = interval /\ Smooth'
  BY <1>2, SameRate
<1>4. /\ interval \in Nat \ {0} /\ ElapsedTime \in Nat /\ granted \in Nat
      /\ lastUse \in Nat /\ lastUse' \in Nat
  <2>1. interval \in Nat \ {0} /\ ElapsedTime \in Nat /\ granted \in Nat /\ lastUse \in Nat
    BY DEF IInv, TypeOK, ConfigOK, ElapsedTime, Smooth
  <2> QED  BY <1>1, <1>2, <2>1
<1>5. Slot(lastUse') \in Int /\ Slot(lastUse) \in Int /\ Slot(lastUse)' = Slot(lastUse')
  <2>1. Slot(lastUse) = lastUse \div interval /\ Slot(lastUse') = lastUse' \div interval
    BY DEF Slot
  <2>2. Slot(lastUse)' = lastUse' \div interval
    BY <1>3 DEF Slot
  <2> QED  BY <1>4, <2>1, <2>2, DivMod
<1>6. r > 0 => Slot(lastUse') = k + r - 1
  BY <1>1, <1>2
<1>7. SmoothAccounts'
  <2>1. granted' <= k + r
    BY <1>1, <1>2, <1>4
  <2>2. granted' > 0 => Slot(lastUse)' + 1 <= k + r
    <3>1. CASE r = 0
      BY <1>1, <1>2, <1>4, <1>5, <3>1
    <3>2. CASE r > 0
      BY <1>5, <1>6, <3>2
    <3> QED  BY <3>1, <3>2
  <2>3. granted' = 0 => nextFreePermitTime' <= ElapsedTime'
    BY <1>1, <1>2, <1>3, <1>4
  <2> QED  BY <1>2, <1>3, <2>1, <2>2, <2>3 DEF SmoothAccounts
<1>8. RateHeld'
  <2>1. granted' <= Slot(lastUse)' + 1
    <3>1. CASE r = 0
      BY <1>2, <1>5, <1>4, <3>1 DEF IInv, RateHeld
    <3>2. CASE r > 0
      BY <1>1, <1>2, <1>4, <1>5, <1>6, <3>2
    <3> QED  BY <3>1, <3>2
  <2> QED  BY <1>3, <1>5, <2>1 DEF RateHeld
<1>9. Ordered
  <2> SUFFICES ASSUME granted > 0, r > 0
               PROVE  lastUse' >= lastUse /\ Slot(lastUse') - Slot(lastUse) >= r
    BY <1>2, <1>4 DEF Ordered
  <2>1. Slot(lastUse') - Slot(lastUse) >= r
    BY <1>1, <1>5, <1>6
  <2>2. lastUse' >= lastUse
    <3>1. lastUse \div interval < lastUse' \div interval
      BY <1>5, <2>1 DEF Slot
    <3> QED  BY <1>4, <3>1, DivMonotonic
  <2> QED  BY <2>1, <2>2
<1>10. nextFreePermitTime' \in Nat /\ nextFreePermitTime' % interval = 0
  <2>1. k + r \in Nat /\ nextFreePermitTime' = interval * (k + r) + 0
    BY <1>2, <1>4
  <2> QED  BY <1>4, <2>1, DivUnique
<1> QED  BY <1>7, <1>8, <1>9, <1>10

\* A bursty grant keeps the accounts, the rate and the order.
LEMMA BurstyGrantStep ==
  ASSUME IInv, ~Smooth, NEW r \in Nat, Grant(r), config' = config, now' = now
  PROVE  BurstyAccounts' /\ RateHeld' /\ Ordered /\ availablePermits' \in Int /\ currentPeriod' \in Nat
<1> DEFINE c == RefreshedPeriod
           R == RefreshedPermits
           P == periodPermits
           T == period
           E == ElapsedTime
           use == E + WaitTime(r)
<1>1. /\ T \in Nat \ {0} /\ P \in Nat \ {0} /\ E \in Nat /\ granted \in Nat /\ lastUse \in Nat
  BY DEF IInv, TypeOK, ConfigOK, ElapsedTime
<1>2. /\ c \in Nat /\ c = E \div T /\ R \in Int
      /\ granted <= P * (c + 1) - R
      /\ granted = 0 => R = P
      /\ granted > 0 => lastUse <= E \/ \E q \in Nat : lastUse = T * q /\ P * (q - c - 1) < 0 - R
  BY Refresh DEF NewCurrentPeriod, LastUseCovered
<1>3. /\ granted' = granted + r /\ start' = start
      /\ availablePermits' = R - r /\ currentPeriod' = c
      /\ r = 0 => lastUse' = lastUse
      /\ r > 0 => lastUse' = use
  BY DEF Grant
<1>4. /\ ElapsedTime' = E /\ period' = T /\ periodPermits' = P /\ ~Smooth'
      /\ NewCurrentPeriod' = c
  <2>1. ElapsedTime' = E /\ period' = T /\ periodPermits' = P /\ ~Smooth'
    BY <1>3, SameRate
  <2> QED  BY <1>2, <2>1 DEF NewCurrentPeriod
<1>5. Slot(lastUse)' = lastUse' \div T /\ Slot(lastUse) = lastUse \div T /\ Slot(use) = use \div T
  BY <1>4 DEF Slot
<1>6. /\ WaitTime(r) \in Nat
      /\ r <= R => WaitTime(r) = 0
      /\ r > R => \E q \in Nat : /\ use = T * q /\ q > c /\ Slot(use) = q
                                 /\ P * (q - c - 1) < r - R /\ r - R <= P * (q - c)
  BY BurstyUse
<1> HIDE DEF c, R, P, T, E, use
<1>7. E < T * (c + 1) /\ T * c <= E
  <2>1. E \div T \in Int /\ E % T \in 0 .. (T - 1) /\ E = (T * (E \div T)) + (E % T)
    BY <1>1, DivMod
  <2> QED  BY <1>1, <1>2, <2>1
<1>8. r <= R => use = E
  BY <1>1, <1>6 DEF use
<1>9. granted' <= P * (c + 1) - (R - r)
  BY <1>1, <1>2, <1>3
<1>10. ASSUME r > 0
       PROVE  use <= E \/ \E q \in Nat : use = T * q /\ P * (q - c - 1) < 0 - (R - r)
  <2>1. CASE r <= R
    BY <1>1, <1>8, <2>1
  <2>2. CASE r > R
    <3>1. PICK q \in Nat : use = T * q /\ P * (q - c - 1) < r - R
      BY <1>6, <2>2
    <3>2. P * (q - c - 1) < 0 - (R - r)
      BY <1>1, <1>2, <3>1
    <3> QED  BY <3>1, <3>2
  <2> QED  BY <1>2, <2>1, <2>2
<1>11. BurstyAccounts'
  <2>1. granted' = 0 => R - r = P
    BY <1>1, <1>2, <1>3
  <2>2. granted' > 0 =>
          lastUse' <= E \/ \E q \in Nat : lastUse' = T * q /\ P * (q - c - 1) < 0 - (R - r)
    <3>1. CASE r = 0
      BY <1>1, <1>2, <1>3, <3>1
    <3>2. CASE r > 0
      BY <1>3, <1>10, <3>2
    <3> QED  BY <3>1, <3>2
  <2>3. granted' > 0 => LastUseCovered(currentPeriod, availablePermits)'
    BY <1>3, <1>4, <2>2 DEF LastUseCovered
  <2> QED  BY <1>2, <1>3, <1>4, <1>9, <2>1, <2>3 DEF BurstyAccounts
<1>12. RateHeld'
  <2>1. granted' <= (Slot(lastUse)' + 1) * P
    <3>1. CASE r = 0
      <4>1. granted <= (Slot(lastUse) + 1) * P
        BY DEF IInv, RateHeld, P
      <4> QED  BY <1>1, <1>3, <1>5, <3>1, <4>1
    <3>2. CASE r > 0 /\ r <= R
      <4>1. Slot(lastUse)' = c
        BY <1>2, <1>3, <1>5, <1>8, <3>2
      <4>2. granted' <= P * (c + 1)
        BY <1>1, <1>2, <1>3, <1>9, <3>2
      <4>3. P * (c + 1) = (c + 1) * P
        BY <1>1, <1>2
      <4> QED  BY <4>1, <4>2, <4>3
    <3>3. CASE r > 0 /\ r > R
      <4>1. PICK q \in Nat : Slot(use) = q /\ r - R <= P * (q - c)
        BY <1>6, <3>3
      <4>2. Slot(lastUse)' = q
        BY <1>3, <1>5, <3>3, <4>1
      <4>3. P * (c + 1) + P * (q - c) = (q + 1) * P
        BY <1>1, <1>2
      <4>4. granted' <= P * (c + 1) + P * (q - c)
        BY <1>1, <1>2, <1>3, <1>9, <4>1
      <4> QED  BY <4>2, <4>3, <4>4
    <3> QED  BY <1>2, <3>1, <3>2, <3>3
  <2> QED  BY <1>4, <2>1 DEF RateHeld
<1>13. Ordered
  <2> SUFFICES ASSUME granted > 0, r > 0
               PROVE  use >= lastUse
    BY <1>1, <1>3 DEF Ordered
  <2>1. use \in Nat /\ use >= E
    BY <1>1, <1>6 DEF use
  <2>2. CASE lastUse <= E
    BY <1>1, <2>1, <2>2
  <2>3. ASSUME NEW q \in Nat, lastUse = T * q, P * (q - c - 1) < 0 - R
        PROVE  use >= lastUse
    <3>1. CASE r <= R
      <4>1. q - c - 1 < 0
        BY <1>1, <1>2, <2>3, <3>1
      <4>2. T * q <= T * c
        BY <1>1, <1>2, <4>1
      <4> QED  BY <1>1, <1>2, <1>7, <2>1, <2>3, <4>2
    <3>2. CASE r > R
      <4>1. PICK p \in Nat : use = T * p /\ r - R <= P * (p - c)
        BY <1>6, <3>2
      <4>2. P * (q - c - 1) < P * (p - c)
        BY <1>1, <1>2, <2>3, <4>1
      <4>3. q - c - 1 < p - c
        BY <1>1, <1>2, <4>2
      <4>4. T * q <= T * p
        BY <1>1, <1>2, <4>3
      <4> QED  BY <2>3, <4>1, <4>4
    <3> QED  BY <1>2, <3>1, <3>2
  <2> QED  BY <1>2, <2>2, <2>3
<1> QED  BY <1>2, <1>3, <1>11, <1>12, <1>13

-----------------------------------------------------------------------------
(***************************************************************************)
(* The other steps, and the invariant.                                     *)
(***************************************************************************)
Accounts == SmoothAccounts /\ BurstyAccounts /\ RateHeld

\* What a step leaves of TypeOK to the statistics and the history.
StatsTyped ==
  /\ now \in Nat /\ start \in 0 .. now
  /\ nextFreePermitTime \in Nat
  /\ availablePermits \in Int
  /\ currentPeriod \in Nat
  /\ granted \in 0 .. MaxGranted /\ lastUse \in Nat /\ burst \in Nat
  /\ Smooth => nextFreePermitTime % interval = 0

CallersTyped ==
  /\ pc \in [Callers -> States]
  /\ usableAt \in [Callers -> Nat]
  /\ ctxDone \in [Callers -> BOOLEAN]

\* The callers, their timers and their contexts.
LEMMA CallersStep ==
  ASSUME IInv, [Next]_vars
  PROVE  CallersTyped'
<1> USE DEF CallersTyped, States, Ended
<1>1. CallersTyped /\ now \in Nat
  BY DEF IInv, TypeOK
<1>2. ASSUME NEW c \in Callers, NEW n \in Nat, StartWaiting(c, n)
      PROVE  CallersTyped'
  <2>1. now + WaitTime(n) \in Nat
    BY <1>1, WaitIsNat
  <2> QED  BY <1>1, <1>2, <2>1 DEF StartWaiting
<1>3. ASSUME NEW c \in Callers, CallerStep(c) PROVE CallersTyped'
  <2>1. CASE \E n \in Requests : AcquirePermits(c, n)
    BY <1>2, <2>1 DEF AcquirePermits
  <2>2. CASE \E n \in Requests, w \in MaxWaits : AcquirePermitsWithMaxWait(c, n, w)
    <3>1. PICK n \in Requests, w \in MaxWaits : AcquirePermitsWithMaxWait(c, n, w)
      BY <2>2
    <3>2. CASE StartWaiting(c, n)
      BY <1>2, <3>2
    <3>3. CASE pc' = [pc EXCEPT ![c] = "exceeded"] /\ UNCHANGED <<usableAt, ctxDone>>
      BY <1>1, <3>3
    <3> QED  BY <3>1, <3>2, <3>3 DEF AcquirePermitsWithMaxWait
  <2>3. CASE Apply(c)
    <3>2. CASE StartWaiting(c, 1)
      BY <1>2, <3>2
    <3>3. CASE /\ pc' = [pc EXCEPT ![c] = IF ctxDone[c] THEN "canceled" ELSE "exceeded"]
               /\ UNCHANGED <<usableAt, ctxDone>>
      BY <1>1, <3>3
    <3> QED  BY <2>3, <3>2, <3>3 DEF Apply
  <2>4. CASE TimerFires(c) \/ ContextDone(c) \/ Return(c) \/ CancelContext(c)
    <3>1. CASE TimerFires(c) \/ ContextDone(c)
      BY <1>1, <3>1 DEF TimerFires, ContextDone
    <3>2. CASE Return(c)
      BY <1>1, <3>2 DEF Return
    <3>3. CASE CancelContext(c)
      BY <1>1, <3>3 DEF CancelContext
    <3> QED  BY <2>4, <3>1, <3>2, <3>3
  <2> QED  BY <1>3, <2>1, <2>2, <2>3, <2>4 DEF CallerStep
<1>4. CASE UNCHANGED callers
  BY <1>1, <1>4 DEF callers
<1> QED  BY <1>3, <1>4 DEF Next, TryReservePermits, Reset, Tick, vars

\* Granting.
LEMMA GrantKeeps ==
  ASSUME IInv, NEW r \in Nat, Grant(r), config' = config, now' = now
  PROVE  Accounts' /\ StatsTyped' /\ Ordered
<1>1. /\ now \in Nat /\ start \in 0 .. now /\ nextFreePermitTime \in Nat
      /\ availablePermits \in Int /\ currentPeriod \in Nat
      /\ granted \in 0 .. MaxGranted /\ lastUse \in Nat /\ burst \in Nat
  BY DEF IInv, TypeOK
<1>2. WaitTime(r) \in Nat /\ ElapsedTime \in Nat
  BY <1>1, WaitIsNat DEF ElapsedTime
<1>3. /\ granted' \in 0 .. MaxGranted /\ lastUse' \in Nat /\ burst' \in Nat /\ start' = start
  BY <1>1, <1>2 DEF Grant
<1>4. CASE Smooth
  <2>1. UNCHANGED <<availablePermits, currentPeriod>>
    BY <1>4 DEF Grant
  <2>2. Smooth' /\ interval' = interval
    BY <1>4, SameRate
  <2> QED  BY <1>1, <1>3, <1>4, <2>1, <2>2, SmoothGrantStep DEF Accounts, BurstyAccounts, StatsTyped
<1>5. CASE ~Smooth
  <2>1. UNCHANGED nextFreePermitTime
    BY <1>5 DEF Grant
  <2>2. ~Smooth'
    BY <1>5, SameRate
  <2> QED  BY <1>1, <1>3, <1>5, <2>1, <2>2, BurstyGrantStep DEF Accounts, SmoothAccounts, StatsTyped
<1> QED  BY <1>4, <1>5

\* Refusing: the history stays, the period is brought up to date.
LEMMA RefuseKeeps ==
  ASSUME IInv, NEW r \in Nat, Refuse(r), config' = config, now' = now
  PROVE  Accounts' /\ StatsTyped'
<1>1. /\ start' = start /\ nextFreePermitTime' = nextFreePermitTime
      /\ granted' = granted /\ lastUse' = lastUse /\ burst' = burst
  BY DEF Refuse, history
<1>2. /\ interval' = interval /\ period' = period /\ periodPermits' = periodPermits
      /\ Smooth' = Smooth /\ ElapsedTime' = ElapsedTime
  BY <1>1, SameRate
<1>3. RateHeld'
  BY <1>1, <1>2 DEF IInv, RateHeld, Slot
<1>4. CASE Smooth
  <2>1. UNCHANGED <<availablePermits, currentPeriod>>
    BY <1>4 DEF Refuse
  <2>2. SmoothAccounts'
    BY <1>1, <1>2, <1>4 DEF IInv, SmoothAccounts, Slot
  <2> QED  BY <1>1, <1>2, <1>3, <1>4, <2>1, <2>2 DEF Accounts, BurstyAccounts, StatsTyped, IInv, TypeOK
<1>5. CASE ~Smooth
  <2>1. availablePermits' = RefreshedPermits /\ currentPeriod' = RefreshedPeriod
    BY <1>5 DEF Refuse
  <2>2. NewCurrentPeriod' = NewCurrentPeriod
    BY <1>2 DEF NewCurrentPeriod
  <2>3. BurstyAccounts'
    BY <1>1, <1>2, <1>5, <2>1, <2>2, Refresh DEF BurstyAccounts, LastUseCovered
  <2> QED  BY <1>1, <1>2, <1>3, <1>5, <2>1, <2>3, Refresh
           DEF Accounts, SmoothAccounts, StatsTyped, IInv, TypeOK
<1> QED  BY <1>4, <1>5

\* Starting again, and the passing of time.
LEMMA ResetKeeps ==
  ASSUME IInv, Reset
  PROVE  Accounts' /\ StatsTyped'
<1>1. /\ config' = config /\ now' = now /\ start' = now /\ nextFreePermitTime' = 0
      /\ availablePermits' = periodPermits /\ currentPeriod' = 0
      /\ granted' = 0 /\ lastUse' = 0 /\ burst' = 0
  BY DEF Reset
<1>2. /\ interval' = interval /\ period' = period /\ periodPermits' = periodPermits
      /\ Smooth' = Smooth
  BY <1>1, SameRate
<1>3. /\ now \in Nat /\ MaxGranted \in Nat /\ interval \in Nat /\ period \in Nat
      /\ periodPermits \in Nat /\ (~Smooth => period > 0 /\ periodPermits > 0)
      /\ (Smooth => interval > 0)
  BY DEF IInv, TypeOK, ConfigOK, Smooth
<1>4. ElapsedTime' = 0
  BY <1>1, <1>3 DEF ElapsedTime
<1>5. \A k \in Nat \ {0} : 0 \div k = 0 /\ 0 % k = 0
  <2> TAKE k \in Nat \ {0}
  <2>1. 0 = k * 0 + 0
    OBVIOUS
  <2> QED  BY <2>1, DivUnique
<1>6. Slot(lastUse)' = 0
  BY <1>1, <1>2, <1>3, <1>5 DEF Slot
<1>7. SmoothAccounts'
  <2>1. ASSUME Smooth PROVE nextFreePermitTime' = interval' * 0 /\ 0 \in Nat
    BY <1>1, <1>2, <1>3
  <2> QED  BY <1>1, <1>2, <1>4, <2>1 DEF SmoothAccounts
<1>8. BurstyAccounts'
  <2>1. ~Smooth => NewCurrentPeriod' = 0
    BY <1>2, <1>3, <1>4, <1>5 DEF NewCurrentPeriod
  <2> QED  BY <1>1, <1>2, <1>3, <2>1 DEF BurstyAccounts
<1>9. RateHeld'
  BY <1>1, <1>2, <1>3, <1>6 DEF RateHeld
<1>10. StatsTyped'
  BY <1>1, <1>2, <1>3, <1>5 DEF StatsTyped
<1> QED  BY <1>7, <1>8, <1>9, <1>10 DEF Accounts

LEMMA TickKeeps ==
  ASSUME IInv, Tick
  PROVE  Accounts' /\ StatsTyped'
<1>1. /\ config' = config /\ now' = now + 1 /\ start' = start
      /\ nextFreePermitTime' = nextFreePermitTime
      /\ availablePermits' = availablePermits /\ currentPeriod' = currentPeriod
      /\ granted' = granted /\ lastUse' = lastUse /\ burst' = burst
  BY DEF Tick, stats, history
<1>2. /\ interval' = interval /\ period' = period /\ periodPermits' = periodPermits
      /\ Smooth' = Smooth
  BY <1>1, SameRate
<1>3. /\ now \in Nat /\ start \in 0 .. now /\ lastUse \in Nat /\ nextFreePermitTime \in Nat
      /\ currentPeriod \in Nat /\ (~Smooth => period \in Nat \ {0})
  BY DEF IInv, TypeOK, ConfigOK
<1>4. ElapsedTime \in Nat /\ ElapsedTime' = ElapsedTime + 1
  BY <1>1, <1>3 DEF ElapsedTime
<1>5. Slot(lastUse)' = Slot(lastUse)
  BY <1>1, <1>2 DEF Slot
<1>6. SmoothAccounts'
  BY <1>1, <1>2, <1>3, <1>4, <1>5 DEF SmoothAccounts, IInv
<1>7. BurstyAccounts'
  <2>1. ASSUME ~Smooth PROVE currentPeriod <= NewCurrentPeriod'
    <3>1. ElapsedTime \div period <= (ElapsedTime + 1) \div period
      BY <1>3, <1>4, <2>1, DivStep
    <3>2. ElapsedTime \div period \in Int /\ (ElapsedTime + 1) \div period \in Int
      BY <1>3, <1>4, <2>1
    <3>4. currentPeriod <= ElapsedTime \div period
      BY <2>1 DEF IInv, BurstyAccounts, NewCurrentPeriod
    <3> QED  BY <1>2, <1>3, <1>4, <3>1, <3>2, <3>4 DEF NewCurrentPeriod
  <2>2. LastUseCovered(currentPeriod, availablePermits)
          => LastUseCovered(currentPeriod, availablePermits)'
    BY <1>1, <1>2, <1>3, <1>4 DEF LastUseCovered
  <2> QED  BY <1>1, <1>2, <2>1, <2>2 DEF BurstyAccounts, IInv
<1>8. RateHeld'
  BY <1>1, <1>2, <1>5 DEF RateHeld, IInv
<1>9. StatsTyped'
  BY <1>1, <1>2, <1>3 DEF StatsTyped, IInv, TypeOK
<1> QED  BY <1>6, <1>7, <1>8, <1>9 DEF Accounts

LEMMA InitIInv == Init => IInv
<1> SUFFICES ASSUME Init PROVE IInv
  OBVIOUS
<1>1. ConfigOK
  BY BuiltConfig DEF Init
<1>2. /\ now = 0 /\ start = 0 /\ nextFreePermitTime = 0
      /\ availablePermits = periodPermits /\ currentPeriod = 0
      /\ granted = 0 /\ lastUse = 0 /\ burst = 0 /\ ElapsedTime = 0
  BY DEF Init, ElapsedTime
<1>3. \A k \in Nat \ {0} : 0 \div k = 0 /\ 0 % k = 0
  <2> TAKE k \in Nat \ {0}
  <2>1. 0 = k * 0 + 0
    OBVIOUS
  <2> QED  BY <2>1, DivUnique
<1>4. /\ interval \in Nat /\ period \in Nat /\ periodPermits \in Nat
      /\ ~Smooth => period \in Nat \ {0} /\ periodPermits > 0
      /\ Smooth => interval \in Nat \ {0}
  BY <1>1 DEF ConfigOK, Smooth
<1>5. TypeOK
  BY <1>2, <1>3, <1>4 DEF Init, TypeOK, States
<1>6. Slot(lastUse) = 0
  BY <1>2, <1>3, <1>4 DEF Slot
<1>7. SmoothAccounts
  <2>1. nextFreePermitTime = interval * 0 /\ 0 \in Nat
    BY <1>2, <1>4
  <2> QED  BY <1>2, <2>1 DEF SmoothAccounts
<1>8. BurstyAccounts
  <2>1. ~Smooth => NewCurrentPeriod = 0
    BY <1>2, <1>3, <1>4 DEF NewCurrentPeriod
  <2> QED  BY <1>2, <1>4, <2>1 DEF BurstyAccounts
<1>9. RateHeld
  BY <1>2, <1>4, <1>6 DEF RateHeld
<1> QED  BY <1>1, <1>5, <1>7, <1>8, <1>9 DEF IInv

\* Nothing happens to the statistics: nothing happens to the accounts.
LEMMA IdleKeeps ==
  ASSUME IInv, config' = config, UNCHANGED <<now, stats, history>>
  PROVE  Accounts' /\ StatsTyped'
<1>1. /\ now' = now /\ start' = start /\ nextFreePermitTime' = nextFreePermitTime
      /\ availablePermits' = availablePermits /\ currentPeriod' = currentPeriod
      /\ granted' = granted /\ lastUse' = lastUse /\ burst' = burst
  BY DEF stats, history
<1>2. /\ interval' = interval /\ period' = period /\ periodPermits' = periodPermits
      /\ Smooth' = Smooth /\ ElapsedTime' = ElapsedTime
  BY <1>1, SameRate
<1>3. SmoothAccounts' /\ BurstyAccounts' /\ RateHeld'
  BY <1>1, <1>2
     DEF IInv, SmoothAccounts, BurstyAccounts, RateHeld, LastUseCovered, Slot, NewCurrentPeriod
<1> QED  BY <1>1, <1>2, <1>3 DEF Accounts, StatsTyped, IInv, TypeOK

LEMMA StepIInv == IInv /\ [Next]_vars => IInv'
<1> SUFFICES ASSUME IInv, [Next]_vars PROVE IInv'
  OBVIOUS
<1>1. Accounts' /\ StatsTyped'
  BY StepKinds, GrantKeeps, RefuseKeeps, ResetKeeps, TickKeeps, IdleKeeps
<1>2. CallersTyped'
  BY CallersStep
<1>3. ConfigOK'
  BY StepKinds, SameRate DEF IInv, ConfigOK
<1> QED  BY <1>1, <1>2, <1>3 DEF IInv, Accounts, StatsTyped, CallersTyped, TypeOK

LEMMA Invariance == Spec => []IInv
BY InitIInv, StepIInv, PTL DEF Spec

\* Types for all configurations; the smooth limiter's next free time "will be a multiple of the
\* config.interval" after every grant of acquirePermits.
THEOREM TypeCorrect == Spec => []TypeOK
<1>1. IInv => TypeOK
  BY DEF IInv
<1> QED  BY <1>1, Invariance, PTL

\* The long-run rate, for every interval or period, every number of permits per period and any
\* requests: acquirePermits of both statistics never promises more permits by the time a grant may
\* be used than the intervals or periods up to then have.
THEOREM LongRunRate == Spec => []RateHeld
<1>1. IInv => RateHeld
  BY DEF IInv
<1> QED  BY <1>1, Invariance, PTL

\* Permits granted later by acquirePermits are never usable earlier, and the smooth limiter spaces
\* two grants by as many intervals as the later one has permits.
THEOREM GrantOrder == Spec => GrantsInOrder
<1>1. ASSUME IInv, [Next]_vars
      PROVE  [granted > 0 /\ granted' > granted =>
                /\ lastUse' >= lastUse
                /\ Smooth => Slot(lastUse') - Slot(lastUse) >= granted' - granted]_vars
  <2>1. granted \in Nat
    BY <1>1 DEF IInv, TypeOK
  <2>2. CASE \E r \in Nat : Grant(r) /\ now' = now /\ config' = config
    BY <1>1, <2>2, GrantKeeps DEF Ordered
  <2>3. CASE granted' \in {granted, 0}
    BY <2>1, <2>3
  <2> QED  BY <1>1, <2>2, <2>3, StepKinds DEF Refuse, Reset, Tick, history
<1> QED  BY <1>1, Invariance, PTL DEF Spec, GrantsInOrder

-----------------------------------------------------------------------------
(***************************************************************************)
(* Calls that are granted nothing.                                         *)
(***************************************************************************)
\* A step that changes neither the time nor the grants takes the smooth limiter's next free time
\* to the present interval at most, and the bursty limiter to the present period.
LEMMA NoGrant ==
  ASSUME IInv, [Next]_vars, granted' = granted, now' = now, start' = start
  PROVE  /\ config' = config
         /\ Smooth => \/ nextFreePermitTime' = nextFreePermitTime
                      \/ /\ ElapsedTime >= nextFreePermitTime
                         /\ nextFreePermitTime' = RoundDown(ElapsedTime, interval)
         /\ ~Smooth => \/ UNCHANGED <<availablePermits, currentPeriod>>
                       \/ /\ availablePermits' = RefreshedPermits
                          /\ currentPeriod' = RefreshedPeriod
<1> DEFINE Goal == /\ Smooth => \/ nextFreePermitTime' = nextFreePermitTime
                                \/ /\ ElapsedTime >= nextFreePermitTime
                                   /\ nextFreePermitTime' = RoundDown(ElapsedTime, interval)
                   /\ ~Smooth => \/ UNCHANGED <<availablePermits, currentPeriod>>
                                 \/ /\ availablePermits' = RefreshedPermits
                                    /\ currentPeriod' = RefreshedPeriod
<1>1. /\ granted \in Nat /\ now \in Nat /\ start \in 0 .. now /\ nextFreePermitTime \in Nat
      /\ ElapsedTime \in Nat /\ interval \in Nat /\ currentPeriod \in Nat
      /\ Smooth => interval \in Nat \ {0}
  BY DEF IInv, TypeOK, ConfigOK, ElapsedTime, Smooth
<1>2. ASSUME NEW r \in Nat, Grant(r) PROVE Goal
  <2>1. r = 0
    BY <1>1, <1>2 DEF Grant
  <2>2. CASE Smooth
    <3>1. nextFreePermitTime' = NewNextFreePermitTime(0)
      BY <1>2, <2>1, <2>2 DEF Grant
    <3>2. ElapsedTime % interval \in 0 .. (interval - 1)
      BY <1>1, <2>2
    <3> QED  BY <1>1, <2>2, <3>1, <3>2 DEF NewNextFreePermitTime, RoundDown
  <2>3. CASE ~Smooth
    <3>1. availablePermits' = RefreshedPermits - 0 /\ currentPeriod' = RefreshedPeriod
      BY <1>2, <2>1, <2>3 DEF Grant
    <3> QED  BY <2>3, <3>1, Refresh
  <2> QED  BY <2>2, <2>3
<1>3. ASSUME NEW r \in Nat, Refuse(r) PROVE Goal
  BY <1>3 DEF Refuse
<1>4. ASSUME UNCHANGED stats PROVE Goal
  BY <1>4 DEF stats
<1>5. ASSUME Reset PROVE Goal
  <2>1. /\ start = now /\ granted = 0 /\ nextFreePermitTime' = 0
        /\ availablePermits' = periodPermits /\ currentPeriod' = 0
    BY <1>5 DEF Reset
  <2>2. ElapsedTime = 0
    BY <1>1, <2>1 DEF ElapsedTime
  <2>3. Smooth => nextFreePermitTime = 0
    BY <1>1, <2>1, <2>2 DEF IInv, SmoothAccounts
  <2>4. ~Smooth => availablePermits = periodPermits /\ currentPeriod = 0
    <3>1. ~Smooth => NewCurrentPeriod = 0
      <4>1. ~Smooth => period \in Nat \ {0} /\ 0 = period * 0 + 0
        BY DEF IInv, ConfigOK
      <4> QED  BY <2>2, <4>1, DivUnique DEF NewCurrentPeriod
    <3> QED  BY <1>1, <2>1, <3>1 DEF IInv, BurstyAccounts
  <2> QED  BY <2>1, <2>3, <2>4
<1>6. ~Tick
  BY <1>1 DEF Tick
<1> HIDE DEF Goal
<1>7. config' = config /\ Goal
  BY <1>2, <1>3, <1>4, <1>5, <1>6, StepKinds
<1> QED  BY <1>7 DEF Goal

\* Bringing the period up to date twice is bringing it up to date once.
LEMMA RefreshIdempotent ==
  ASSUME IInv, ~Smooth, config' = config, now' = now, start' = start,
         availablePermits' = RefreshedPermits, currentPeriod' = RefreshedPeriod
  PROVE  RefreshedPermits' = RefreshedPermits /\ RefreshedPeriod' = RefreshedPeriod
<1>1. NewCurrentPeriod' = NewCurrentPeriod /\ NewCurrentPeriod \in Nat
      /\ RefreshedPeriod = NewCurrentPeriod
  BY Refresh, SameRate DEF NewCurrentPeriod
<1>2. ~(currentPeriod' < NewCurrentPeriod')
  BY <1>1
<1>3. RefreshedPermits' = availablePermits' /\ RefreshedPeriod' = currentPeriod'
  BY <1>2 DEF RefreshedPermits, RefreshedPeriod
<1> QED  BY <1>3

\* A call of acquirePermits that is refused, a call for no permits, a caller that leaves and a
\* context that is canceled change no later wait, for any configuration and any request.
THEOREM NoTraceOfRejections == Spec => RejectionLeavesNoTrace
<1>1. ASSUME IInv, [Next]_vars
      PROVE  [granted' = granted /\ now' = now /\ start' = start =>
                \A n \in Requests : WaitTime(n)' = WaitTime(n)]_vars
  <2> SUFFICES ASSUME granted' = granted, now' = now, start' = start, NEW n \in Requests
               PROVE  WaitTime(n)' = WaitTime(n)
    OBVIOUS
  <2>1. config' = config
    BY <1>1, NoGrant
  <2>2. /\ interval' = interval /\ period' = period /\ periodPermits' = periodPermits
        /\ Smooth' = Smooth /\ ElapsedTime' = ElapsedTime
    BY <2>1, SameRate
  <2>3. CASE Smooth
    <3>1. /\ interval \in Nat \ {0} /\ ElapsedTime \in Nat /\ nextFreePermitTime \in Nat
      BY <1>1, <2>3 DEF IInv, TypeOK, ConfigOK, Smooth, ElapsedTime
    <3>2. RoundDown(ElapsedTime, interval) <= ElapsedTime
      <4>1. ElapsedTime % interval \in 0 .. (interval - 1)
        BY <3>1
      <4> QED  BY <3>1, <4>1 DEF RoundDown
    <3>3. NewNextFreePermitTime(n)' = NewNextFreePermitTime(n)
      BY <1>1, <2>2, <2>3, <3>1, <3>2, NoGrant DEF NewNextFreePermitTime
    <3> QED  BY <2>2, <2>3, <3>3 DEF WaitTime, SmoothWait
  <2>4. CASE ~Smooth
    <3>1. RefreshedPermits' = RefreshedPermits /\ RefreshedPeriod' = RefreshedPeriod
      <4>1. CASE UNCHANGED <<availablePermits, currentPeriod>>
        BY <2>2, <4>1 DEF RefreshedPermits, RefreshedPeriod, NewCurrentPeriod
      <4>2. CASE availablePermits' = RefreshedPermits /\ currentPeriod' = RefreshedPeriod
        BY <1>1, <2>1, <2>4, <4>2, RefreshIdempotent
      <4> QED  BY <1>1, <2>4, <4>1, <4>2, NoGrant
    <3> QED  BY <2>2, <2>4, <3>1 DEF WaitTime, BurstyWait, AdditionalPeriods
  <2> QED  BY <2>3, <2>4
<1> QED  BY <1>1, Invariance, PTL DEF Spec, RejectionLeavesNoTrace

=============================================================================
