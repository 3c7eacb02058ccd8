-------------------------- MODULE StatisticsProofs --------------------------
(***************************************************************************)
(* Proofs about the bookkeeping the limiters decide by.                    *)
(*                                                                         *)
(* The usage tracker as a prioritizer drives it: for any number of users   *)
(* and any usage, the lighter of two weighed users is never given the      *)
(* lower level, and no level leaves its priority's range.  The invariant   *)
(* relates the entries pairwise: they may have been recorded to, and have  *)
(* expired, since the calibration that gave them their quantiles, but a    *)
(* calibration replaces the quantiles of all of them, so that any two were *)
(* derived from the same sorted usages.                                    *)
(*                                                                         *)
(* The level tracker: its counts are those of the levels in its ring, so   *)
(* that the threshold it computes is a quantile of them.                   *)
(*                                                                         *)
(* The windows: each ring, bucket array, running sum, deque and sorted     *)
(* copy stands for the samples it should, for windows of any capacity.     *)
(***************************************************************************)
EXTENDS Prioritizer, Windows, FiniteSetTheorems, SequenceTheorems, WellFoundedInduction, TLAPS

USE UsageAssumption

Quantiles == {Uncalibrated} \cup 0 .. 100

Entries == [usage : Nat, headTime : Nat, quantile : Quantiles, lastActive : Nat, weighed : Nat]

TrackerTypes ==
  /\ now \in Nat
  /\ users = [u \in DOMAIN users |-> users[u]]
  /\ IsFiniteSet(DOMAIN users)
  /\ \A u \in DOMAIN users : users[u] \in Entries

\* Of two entries that a calibration weighed, the one with less usage has no greater quantile.
InOrder(a, b) ==
  a.quantile >= 0 /\ b.quantile >= 0 /\ a.weighed < b.weighed => a.quantile <= b.quantile

QuantilesSorted == \A u, v \in DOMAIN users : InOrder(users[u], users[v])

UsageInv == TrackerTypes /\ QuantilesSorted

-----------------------------------------------------------------------------
(***************************************************************************)
(* Arithmetic.                                                             *)
(***************************************************************************)
\* Integer division by a positive number.
LEMMA Division ==
  ASSUME NEW a \in Nat, NEW d \in Nat \ {0}
  PROVE  a \div d \in Nat /\ d * (a \div d) <= a /\ a < d * (a \div d) + d
BY Z3

\* Products keep the order.
LEMMA ProductOrder ==
  ASSUME NEW a \in Nat, NEW b \in Nat, NEW d \in Nat \ {0}
  PROVE  a < b => d * a + d <= d * b
<1> SUFFICES ASSUME a < b PROVE d * a + d <= d * b
  OBVIOUS
<1>1. PICK k \in Nat : b = a + 1 + k
  <2>1. b - a - 1 \in Nat /\ b = a + 1 + (b - a - 1)
    OBVIOUS
  <2> QED  BY <2>1
<1>2. d * (a + 1 + k) = d * a + d + d * k
  OBVIOUS
<1>3. d * k \in Nat /\ d * a \in Nat
  OBVIOUS
<1>4. d * b = d * a + d + d * k
  BY <1>1, <1>2
<1> QED  BY <1>3, <1>4

\* Division keeps the order.
LEMMA DivisionOrder ==
  ASSUME NEW a \in Nat, NEW b \in Nat, NEW d \in Nat \ {0}, a <= b
  PROVE  a \div d <= b \div d
<1>1. PICK p \in Nat : p = a \div d /\ d * p <= a /\ a < d * p + d
  BY Division
<1>2. PICK q \in Nat : q = b \div d /\ d * q <= b /\ b < d * q + d
  BY Division
<1>3. q < p => d * q + d <= d * p
  BY ProductOrder
<1>4. d * p \in Nat /\ d * q \in Nat
  OBVIOUS
<1>5. ~(q < p)
  BY <1>1, <1>2, <1>3, <1>4
<1> QED  BY <1>1, <1>2, <1>5

\* The share of users that used less: monotonic, and at most 1.
LEMMA Shares ==
  ASSUME NEW n \in Nat \ {0}, NEW i \in 0 .. n, NEW j \in 0 .. n
  PROVE  /\ RoundedShare(i, n) \in 0 .. 100
         /\ i <= j => RoundedShare(i, n) <= RoundedShare(j, n)
<1>1. 2 * n \in Nat \ {0} /\ 200 * i + n \in Nat /\ 200 * j + n \in Nat
  OBVIOUS
<1>2. i <= j => (200 * i + n) \div (2 * n) <= (200 * j + n) \div (2 * n)
  BY <1>1, DivisionOrder
<1>3. PICK q \in Nat : q = (200 * i + n) \div (2 * n) /\ (2 * n) * q <= 200 * i + n
  BY <1>1, Division
<1>4. (2 * n) * q \in Nat /\ (2 * n) * 100 = 200 * n
  BY <1>1
<1>5. 100 < q => (2 * n) * 100 + 2 * n <= (2 * n) * q
  BY <1>1, ProductOrder
<1>6. q <= 100
  BY <1>3, <1>4, <1>5
<1> QED  BY <1>2, <1>3, <1>6 DEF RoundedShare

\* The place of a level within its priority's range, from the best of no share to the worst of all.
LEMMA LevelOffsets ==
  ASSUME NEW q \in 0 .. 100, NEW r \in 0 .. 100
  PROVE  /\ ((LevelWidth - 1) * (100 - q)) \div 100 \in 0 .. LevelWidth - 1
         /\ q <= r => ((LevelWidth - 1) * (100 - r)) \div 100 <= ((LevelWidth - 1) * (100 - q)) \div 100
<1> DEFINE w == LevelWidth - 1
<1>1. w \in Nat /\ 100 - q \in 0 .. 100 /\ 100 - r \in 0 .. 100
  OBVIOUS
<1> HIDE DEF w
<1>2. \A a, b \in 0 .. 100 : a <= b => w * a \in Nat /\ w * b \in Nat /\ w * a <= w * b
  <2> SUFFICES ASSUME NEW a \in 0 .. 100, NEW b \in 0 .. 100, a <= b
               PROVE  w * a \in Nat /\ w * b \in Nat /\ w * a <= w * b
    OBVIOUS
  <2>1. w * a \in Nat /\ w * b \in Nat
    BY <1>1
  <2>2. CASE w = 0 \/ a = b
    BY <1>1, <2>1, <2>2
  <2>3. CASE w # 0 /\ a < b
    <3>1. w * a + w <= w * b
      BY <1>1, <2>3, ProductOrder
    <3> QED  BY <1>1, <2>1, <3>1
  <2> QED  BY <2>2, <2>3
<1>3. w * (100 - q) \in Nat /\ w * (100 - r) \in Nat /\ w * (100 - q) <= w * 100
  BY <1>1, <1>2
<1>4. (w * (100 - q)) \div 100 \in 0 .. w
  BY <1>1, <1>3
<1>5. q <= r => w * (100 - r) <= w * (100 - q)
  BY <1>1, <1>2
<1>6. q <= r => (w * (100 - r)) \div 100 <= (w * (100 - q)) \div 100
  BY <1>3, <1>5, DivisionOrder
<1> QED  BY <1>4, <1>6 DEF w

-----------------------------------------------------------------------------
(***************************************************************************)
(* The property follows from the invariant.                                *)
(***************************************************************************)
\* The bounds of a priority.
LEMMA Ranges ==
  ASSUME NEW p \in Priorities
  PROVE  /\ LevelRange(p).lower \in Nat /\ LevelRange(p).upper \in Nat
         /\ LevelRange(p).upper = LevelRange(p).lower + (LevelWidth - 1)
<1>1. p \in Nat /\ p * LevelWidth \in Nat
  BY DEF Priorities
<1> QED  BY <1>1 DEF LevelRange

\* The level of a user that was weighed.
LEMMA WeighedLevel ==
  ASSUME NEW u \in DOMAIN users, NEW p, users[u].usage > 0, users[u].quantile >= 0, UsageInv
  PROVE  /\ users[u].quantile \in 0 .. 100
         /\ GetLevel(u, p) =
              LevelRange(p).lower + ((LevelWidth - 1) * (100 - users[u].quantile)) \div 100
<1>1. users[u] \in Entries
  BY DEF UsageInv, TrackerTypes
<1>2. users[u].quantile \in Quantiles /\ users[u].usage \in Nat
  BY <1>1 DEF Entries
<1>3. users[u].quantile \in 0 .. 100
  BY <1>2 DEF Quantiles, Uncalibrated
<1>4. ~(users[u].usage = 0 \/ users[u].quantile < 0)
  BY <1>2, <1>3
<1> QED  BY <1>3, <1>4 DEF GetLevel

\* Every level of a user is one of the priority's, weighed or not.
LEMMA LevelWithinRange ==
  ASSUME UsageInv, NEW p \in Priorities, NEW u
  PROVE  GetLevel(u, p) \in LevelRange(p).lower .. LevelRange(p).upper
<1>1. /\ LevelRange(p).lower \in Nat /\ LevelRange(p).upper \in Nat
      /\ LevelRange(p).upper = LevelRange(p).lower + (LevelWidth - 1)
  BY Ranges
<1>2. CASE u \notin DOMAIN users
  BY <1>1, <1>2 DEF GetLevel
<1>3. CASE u \in DOMAIN users /\ (users[u].usage = 0 \/ users[u].quantile < 0)
  BY <1>1, <1>3 DEF GetLevel
<1>4. CASE u \in DOMAIN users /\ ~(users[u].usage = 0 \/ users[u].quantile < 0)
  <2>1. users[u] \in Entries
    BY <1>4 DEF UsageInv, TrackerTypes
  <2>2. users[u].usage \in Nat /\ users[u].quantile \in Int
    BY <2>1 DEF Entries, Quantiles, Uncalibrated
  <2>3. users[u].usage > 0 /\ users[u].quantile >= 0
    BY <1>4, <2>2
  <2>4. PICK k \in 0 .. LevelWidth - 1 : GetLevel(u, p) = LevelRange(p).lower + k
    BY <1>4, <2>3, WeighedLevel, LevelOffsets
  <2> QED  BY <1>1, <2>4
<1> QED  BY <1>2, <1>3, <1>4

\* Ranges and preference.
LEMMA LighterPreferred == UsageInv => LighterUserPreferred
<1> SUFFICES ASSUME UsageInv, NEW p \in Priorities
             PROVE  /\ \A u \in Users :
                         GetLevel(u, p) \in LevelRange(p).lower .. LevelRange(p).upper
                    /\ \A u, v \in DOMAIN users :
                         /\ users[u].quantile >= 0 /\ users[v].quantile >= 0
                         /\ users[u].usage > 0 /\ users[v].usage > 0
                         /\ users[u].weighed < users[v].weighed
                         => GetLevel(u, p) >= GetLevel(v, p)
  BY DEF LighterUserPreferred
<1>1. /\ LevelRange(p).lower \in Nat /\ LevelRange(p).upper \in Nat
      /\ LevelRange(p).upper = LevelRange(p).lower + (LevelWidth - 1)
  BY Ranges
<1>2. \A u \in Users : GetLevel(u, p) \in LevelRange(p).lower .. LevelRange(p).upper
  BY LevelWithinRange
<1>3. ASSUME NEW u \in DOMAIN users, NEW v \in DOMAIN users,
             users[u].quantile >= 0, users[v].quantile >= 0,
             users[u].usage > 0, users[v].usage > 0,
             users[u].weighed < users[v].weighed
      PROVE  GetLevel(u, p) >= GetLevel(v, p)
  <2>1. users[u].quantile <= users[v].quantile
    BY <1>3 DEF UsageInv, QuantilesSorted, InOrder
  <2>2. users[u].quantile \in 0 .. 100 /\ users[v].quantile \in 0 .. 100
    BY <1>3, WeighedLevel
  <2> DEFINE k == ((LevelWidth - 1) * (100 - users[u].quantile)) \div 100
             m == ((LevelWidth - 1) * (100 - users[v].quantile)) \div 100
  <2>3. k \in 0 .. LevelWidth - 1 /\ m \in 0 .. LevelWidth - 1 /\ m <= k
    BY <2>1, <2>2, LevelOffsets
  <2>4. GetLevel(u, p) = LevelRange(p).lower + k /\ GetLevel(v, p) = LevelRange(p).lower + m
    BY <1>3, WeighedLevel
  <2> HIDE DEF k, m
  <2> QED  BY <1>1, <2>3, <2>4
<1> QED  BY <1>2, <1>3

-----------------------------------------------------------------------------
(***************************************************************************)
(* Steps.                                                                  *)
(***************************************************************************)
\* The head of a window.
LEMMA HeadTime == ASSUME now \in Nat PROVE now \div WindowDuration \in Nat
BY Division

\* Expiry drops usage and nothing else.
LEMMA EntryExpired ==
  ASSUME NEW e \in Entries, now \in Nat
  PROVE  /\ Expire(e) \in Entries
         /\ Expire(e).quantile = e.quantile /\ Expire(e).weighed = e.weighed
<1>1. [e EXCEPT !.usage = 0, !.headTime = now \div WindowDuration] \in Entries
  BY HeadTime DEF Entries
<1> QED  BY <1>1 DEF Expire, Entries

\* The start.
LEMMA InitUsageInv == Init => UsageInv
<1> SUFFICES ASSUME Init PROVE UsageInv
  OBVIOUS
<1>1. now = 0 /\ users = <<>>
  BY DEF Init, UsageInit
<1>2. DOMAIN users = {}
  BY <1>1
<1>3. users = [u \in DOMAIN users |-> users[u]]
  BY <1>1, <1>2
<1> QED  BY <1>1, <1>2, <1>3, FS_EmptySet DEF UsageInv, TrackerTypes, QuantilesSorted

\* Usage is recorded: the entry keeps what it was weighed with, and a new one is not weighed.
LEMMA RecordUsageStep ==
  ASSUME UsageInv, NEW u \in Users, NEW amount \in Usages, RecordUsage(u, amount)
  PROVE  UsageInv'
<1> DEFINE evicted == IF u \notin DOMAIN users /\ Cardinality(DOMAIN users) >= MaxUsers
                        THEN EvictOldest ELSE {}
           entry   == IF u \in DOMAIN users THEN Expire(users[u]) ELSE NewEntry
           updated == [entry EXCEPT !.lastActive = now, !.usage = @ + amount]
           kept    == (DOMAIN users \ evicted) \cup {u}
<1>1. /\ users' = [v \in kept |-> IF v = u THEN updated ELSE users[v]]
      /\ now' = now /\ now \in Nat
  BY DEF RecordUsage, UsageInv, TrackerTypes
<1>2. entry \in Entries /\ (u \in DOMAIN users => /\ entry.quantile = users[u].quantile
                                                   /\ entry.weighed = users[u].weighed)
                        /\ (u \notin DOMAIN users => entry.quantile = Uncalibrated)
  <2>1. CASE u \in DOMAIN users
    BY <1>1, <2>1, EntryExpired DEF UsageInv, TrackerTypes
  <2>2. CASE u \notin DOMAIN users
    BY <1>1, <2>2, HeadTime DEF NewEntry, Entries, Quantiles
  <2> QED  BY <2>1, <2>2
<1> HIDE DEF entry
<1>3. updated \in Entries /\ updated.quantile = entry.quantile /\ updated.weighed = entry.weighed
  <2>1. entry.usage \in Nat /\ amount \in Nat
    BY <1>2 DEF Entries
  <2>2. PICK total \in Nat : total = entry.usage + amount
    BY <2>1
  <2>3. updated = [entry EXCEPT !.lastActive = now, !.usage = total]
    BY <2>2
  <2> HIDE DEF updated
  <2>4. updated = [usage |-> total, headTime |-> entry.headTime,
                   quantile |-> entry.quantile, lastActive |-> now, weighed |-> entry.weighed]
    BY <1>2, <2>3 DEF Entries
  <2> QED  BY <1>1, <1>2, <2>4 DEF Entries
<1>4. IsFiniteSet(kept)
  <2>1. IsFiniteSet(DOMAIN users)
    BY DEF UsageInv, TrackerTypes
  <2>2. IsFiniteSet(DOMAIN users \ evicted)
    BY <2>1, FS_Difference
  <2> HIDE DEF evicted
  <2> QED  BY <2>2, FS_AddElement
<1> HIDE DEF updated, evicted
<1>5. DOMAIN users' = kept /\ \A v \in kept : users'[v] = IF v = u THEN updated ELSE users[v]
  BY <1>1
<1>6. \A v \in kept : v = u \/ v \in DOMAIN users
  OBVIOUS
<1> HIDE DEF kept
<1>7. TrackerTypes'
  BY <1>1, <1>3, <1>4, <1>5, <1>6 DEF UsageInv, TrackerTypes
<1>8. \A v \in kept : \/ users'[v].quantile = Uncalibrated
                      \/ /\ v \in DOMAIN users
                         /\ users'[v].quantile = users[v].quantile
                         /\ users'[v].weighed = users[v].weighed
  BY <1>2, <1>3, <1>5, <1>6
<1>9. QuantilesSorted'
  <2> SUFFICES ASSUME NEW v \in kept, NEW w \in kept PROVE InOrder(users'[v], users'[w])
    BY <1>5 DEF QuantilesSorted, InOrder
  <2>1. CASE users'[v].quantile = Uncalibrated \/ users'[w].quantile = Uncalibrated
    BY <2>1 DEF InOrder, Uncalibrated
  <2>2. CASE /\ v \in DOMAIN users /\ w \in DOMAIN users
             /\ users'[v].quantile = users[v].quantile /\ users'[v].weighed = users[v].weighed
             /\ users'[w].quantile = users[w].quantile /\ users'[w].weighed = users[w].weighed
    BY <2>2 DEF UsageInv, QuantilesSorted, InOrder
  <2> QED  BY <1>8, <2>1, <2>2
<1> QED  BY <1>7, <1>9 DEF UsageInv

\* The quantiles of a calibration: those of the users with usage, from their sorted usages.
LEMMA QuantileOrder ==
  ASSUME NEW active, IsFiniteSet(DOMAIN active), \A w \in DOMAIN active : active[w].usage \in Nat,
         NEW u \in DOMAIN active, NEW v \in DOMAIN active
  PROVE  /\ ComputeQuantile(active[u].usage, active) \in 0 .. 100
         /\ active[u].usage < active[v].usage =>
              ComputeQuantile(active[u].usage, active) <= ComputeQuantile(active[v].usage, active)
<1> DEFINE n    == Cardinality(DOMAIN active)
           B(x) == {w \in DOMAIN active : active[w].usage < active[x].usage}
<1>1. n \in Nat \ {0}
  BY FS_CardinalityType, FS_EmptySet
<1>2. /\ IsFiniteSet(B(u)) /\ Cardinality(B(u)) <= n
      /\ IsFiniteSet(B(v)) /\ Cardinality(B(v)) <= n
  BY FS_Subset
<1>3. Cardinality(B(u)) \in 0 .. n /\ Cardinality(B(v)) \in 0 .. n
  BY <1>1, <1>2, FS_CardinalityType
<1>4. ASSUME active[u].usage < active[v].usage PROVE Cardinality(B(u)) <= Cardinality(B(v))
  <2>1. B(u) \subseteq B(v)
    BY <1>4
  <2> QED  BY <1>2, <2>1, FS_Subset
<1>5. /\ ComputeQuantile(active[u].usage, active) = RoundedShare(Cardinality(B(u)), n)
      /\ ComputeQuantile(active[v].usage, active) = RoundedShare(Cardinality(B(v)), n)
  BY DEF ComputeQuantile
<1> HIDE DEF B, n
<1> QED  BY <1>1, <1>3, <1>4, <1>5, Shares

\* Calibration weighs all entries with the same usages.
LEMMA CalibrateUsageStep == ASSUME UsageInv, CalibrateUsage PROVE UsageInv'
<1> DEFINE expired == [v \in DOMAIN users |-> Expire(users[v])]
           active  == [v \in {w \in DOMAIN users : expired[w].usage > 0} |-> expired[v]]
           dropped == {v \in DOMAIN users \ DOMAIN active :
                         expired[v].lastActive < now - 2 * WindowDuration}
           kept    == DOMAIN users \ dropped
           q(v)    == IF v \in DOMAIN active THEN ComputeQuantile(expired[v].usage, active)
                                             ELSE Uncalibrated
<1>1. /\ users' = [v \in kept |-> [expired[v] EXCEPT !.quantile = q(v), !.weighed = expired[v].usage]]
      /\ now' = now /\ now \in Nat /\ IsFiniteSet(DOMAIN users)
  BY DEF CalibrateUsage, UsageInv, TrackerTypes
<1>2. \A v \in DOMAIN users : expired[v] \in Entries
  BY <1>1, EntryExpired DEF UsageInv, TrackerTypes
<1>3. /\ DOMAIN active \subseteq DOMAIN users
      /\ \A v \in DOMAIN active : active[v] = expired[v]
      /\ IsFiniteSet(DOMAIN active)
  <2>1. DOMAIN active \in SUBSET DOMAIN users /\ \A v \in DOMAIN active : active[v] = expired[v]
    OBVIOUS
  <2> HIDE DEF active
  <2> QED  BY <1>1, <2>1, FS_Subset
<1>4. IsFiniteSet(kept) /\ kept \subseteq DOMAIN users
  <2> HIDE DEF dropped
  <2> QED  BY <1>1, FS_Difference
<1> HIDE DEF expired, active, dropped, kept
<1>5. \A v \in DOMAIN active : active[v].usage \in Nat
  BY <1>2, <1>3 DEF Entries
<1>6. ASSUME NEW u \in DOMAIN active, NEW v \in DOMAIN active
      PROVE  /\ q(u) \in 0 .. 100
             /\ expired[u].usage < expired[v].usage => q(u) <= q(v)
  BY <1>3, <1>5, <1>6, QuantileOrder
<1>7. \A v \in kept : q(v) \in Quantiles
  BY <1>6 DEF Quantiles
<1> HIDE DEF q
<1>8. /\ DOMAIN users' = kept
      /\ \A v \in kept : /\ users'[v] \in Entries
                         /\ users'[v].quantile = q(v)
                         /\ users'[v].weighed = expired[v].usage
  <2>1. DOMAIN users' = kept
    BY <1>1
  <2>2. ASSUME NEW v \in kept
        PROVE  /\ users'[v] \in Entries
               /\ users'[v].quantile = q(v)
               /\ users'[v].weighed = expired[v].usage
    <3>1. users'[v] = [expired[v] EXCEPT !.quantile = q(v), !.weighed = expired[v].usage]
      BY <1>1, <2>2
    <3>2. expired[v] \in Entries /\ q(v) \in Quantiles
      BY <1>2, <1>4, <1>7, <2>2
    <3>3. users'[v] = [usage |-> expired[v].usage, headTime |-> expired[v].headTime,
                       quantile |-> q(v), lastActive |-> expired[v].lastActive,
                       weighed |-> expired[v].usage]
      BY <3>1, <3>2 DEF Entries
    <3> QED  BY <3>2, <3>3 DEF Entries
  <2> QED  BY <2>1, <2>2
<1>9. TrackerTypes'
  BY <1>1, <1>4, <1>8 DEF TrackerTypes
<1>10. QuantilesSorted'
  <2> SUFFICES ASSUME NEW u \in kept, NEW v \in kept PROVE InOrder(users'[u], users'[v])
    BY <1>8 DEF QuantilesSorted, InOrder
  <2>1. CASE u \in DOMAIN active /\ v \in DOMAIN active
    BY <1>6, <1>8, <2>1 DEF InOrder
  <2>2. CASE u \notin DOMAIN active \/ v \notin DOMAIN active
    <3>1. q(u) = Uncalibrated \/ q(v) = Uncalibrated
      BY <2>2 DEF q
    <3> QED  BY <1>8, <3>1 DEF InOrder, Uncalibrated
  <2> QED  BY <2>1, <2>2
<1> QED  BY <1>9, <1>10 DEF UsageInv

\* Steps that leave the tracker alone, and time.
LEMMA UsersKept == ASSUME UsageInv, users' = users, now' \in Nat PROVE UsageInv'
BY DEF UsageInv, TrackerTypes, QuantilesSorted, InOrder

\* Of all steps only three touch the tracker.
LEMMA NextUsageInv == UsageInv /\ [Next]_vars => UsageInv'
<1> SUFFICES ASSUME UsageInv, [Next]_vars PROVE UsageInv'
  OBVIOUS
<1>1. CASE \E u \in Users, usage \in Usages : RecordsUsage(u, usage)
  BY <1>1, RecordUsageStep DEF RecordsUsage
<1>2. CASE \E k \in config.calibrators : CalibratesUsage(k)
  BY <1>2, CalibrateUsageStep DEF CalibratesUsage
<1>3. CASE Tick
  <2>1. users' = users /\ now' = now + 1 /\ now \in Nat
    BY <1>3 DEF Tick, TimePasses, UsageInv, TrackerTypes
  <2> QED  BY <2>1, UsersKept
<1>4. CASE UNCHANGED usageVars
  <2>1. users' = users /\ now' = now /\ now \in Nat
    BY <1>4 DEF usageVars, UsageInv, TrackerTypes
  <2> QED  BY <2>1, UsersKept
<1>5. ASSUME NEW p \in config.policies, Register(p) \/ LoadChanges(p) \/ RecordsResult(p)
      PROVE  UNCHANGED usageVars
  BY <1>5 DEF Register, LoadChanges, RecordsResult
<1>6. ASSUME NEW k \in config.calibrators, Compute(k) \/ Swap(k) \/ StopScheduled(k)
      PROVE  UNCHANGED usageVars
  BY <1>6 DEF Compute, Swap, StopScheduled
<1>7. ASSUME NEW c \in Callers, CallerStep(c) PROVE UNCHANGED usageVars
  BY <1>7 DEF CallerStep, LimiterAcquires, ThrottlerAcquires, RecordsLevel
<1>8. CASE UNCHANGED vars
  BY <1>4, <1>8 DEF vars
<1> QED  BY <1>1, <1>2, <1>3, <1>4, <1>5, <1>6, <1>7, <1>8 DEF Next, Calibrates

-----------------------------------------------------------------------------
\* The invariant of the tracker holds whenever recording, calibrations and time interleave.
THEOREM UsageInvariance == Spec => []UsageInv
BY InitUsageInv, NextUsageInv, PTL DEF Spec

\* GetLevel is fair, for any number of users, any usage and any width of a priority: rounding of
\* shares and levels never puts a user below one that used more, nor outside of its priority, and
\* usage that is recorded, expires or is evicted between calibrations does not change that.
THEOREM LighterUsersPreferred == Spec => []LighterUserPreferred
BY UsageInvariance, LighterPreferred, PTL

-----------------------------------------------------------------------------
(***************************************************************************)
(* The level tracker.                                                      *)
(***************************************************************************)
Slots == 0 .. WindowSize - 1

At(l) == {i \in Recorded : window[i] = l}
UpTo(l) == {i \in Recorded : window[i] <= l}

TrackerOK ==
  /\ head \in Slots /\ filled \in BOOLEAN
  /\ window \in [Slots -> Levels]
  /\ levelCounts = [l \in Levels |-> Cardinality(At(l))]

LevelsInv ==
  /\ config \in Configs
  /\ accepted \in [Callers -> Levels \cup {-1}]
  /\ TrackerOK

\* Levels are numbers, and there is at least one.
LEMMA LevelsExist == TotalLevels \in Nat \ {0} /\ Levels \subseteq Nat /\ 0 \in Levels
<1>1. NumPriorities \in Nat \ {0} /\ LevelWidth \in Nat \ {0}
  OBVIOUS
<1>2. NumPriorities * LevelWidth \in Nat \ {0}
  <2>1. 0 < NumPriorities => LevelWidth * 0 + LevelWidth <= LevelWidth * NumPriorities
    BY <1>1, ProductOrder
  <2>2. LevelWidth * 0 = 0 /\ LevelWidth * NumPriorities = NumPriorities * LevelWidth
    BY <1>1
  <2>3. NumPriorities * LevelWidth \in Nat
    BY <1>1
  <2> QED  BY <1>1, <2>1, <2>2, <2>3
<1> QED  BY <1>2 DEF TotalLevels, Levels

\* The levels of a priority are levels.
LEMMA RangesAreLevels ==
  ASSUME NEW p \in Priorities
  PROVE  LevelRange(p).lower .. LevelRange(p).upper \subseteq Levels
<1>1. p \in Nat /\ NumPriorities \in Nat /\ LevelWidth \in Nat \ {0} /\ p < NumPriorities
  BY DEF Priorities
<1>2. LevelWidth * p + LevelWidth <= LevelWidth * NumPriorities
  BY <1>1, ProductOrder
<1>3. /\ p * LevelWidth \in Nat /\ p * LevelWidth = LevelWidth * p
      /\ NumPriorities * LevelWidth \in Nat /\ NumPriorities * LevelWidth = LevelWidth * NumPriorities
  BY <1>1
<1> QED  BY <1>1, <1>2, <1>3 DEF LevelRange, Levels, TotalLevels

\* Contexts, as they were given or as a server has them, have levels and priorities that exist.
Wellformed(ctx) == ctx.level \in Levels \cup {-1} /\ ctx.priority \in Priorities \cup {-1}

\* A context that is well formed has levels of the configured range.
LEMMA LevelsOfContext ==
  ASSUME NEW ctx, Wellformed(ctx)
  PROVE  PriorityLevels(ctx) \subseteq Levels \cup {-1}
<1>1. CASE ctx.level # -1
  BY <1>1 DEF PriorityLevels, Wellformed
<1>2. CASE ctx.level = -1 /\ ctx.priority # -1
  BY <1>2, RangesAreLevels DEF PriorityLevels, Wellformed
<1>3. CASE ctx.level = -1 /\ ctx.priority = -1
  BY <1>3 DEF PriorityLevels
<1> QED  BY <1>1, <1>2, <1>3

\* A request that goes through a client and a server keeps a well formed context.
LEMMA ContextsWellformed ==
  ASSUME config \in Configs, NEW sent \in config.contexts, NEW ctx \in ContextsOf(sent)
  PROVE  Wellformed(ctx)
<1> DEFINE s == ClientSends(sent)
<1>1. Wellformed(sent)
  BY ContextsAssumption DEF Wellformed
<1>2. /\ s = [user |-> -1, priority |-> s.priority, level |-> s.level] /\ Wellformed(s)
  BY <1>1 DEF Wellformed, ClientSends
<1> HIDE DEF s
<1>3. \A t \in ServerContexts(s) : Wellformed(t)
  <2>1. CASE config.hop = "ensure" /\ s.priority # -1
    <3> SUFFICES ASSUME NEW l \in PriorityLevels(s)
                 PROVE  Wellformed([s EXCEPT !.priority = -1, !.level = l])
      BY <2>1 DEF ServerContexts
    <3>1. l \in Levels \cup {-1}
      BY <1>2, LevelsOfContext
    <3>2. DOMAIN s = {"user", "priority", "level"}
      BY <1>2
    <3>3. /\ [s EXCEPT !.priority = -1, !.level = l].level = l
          /\ [s EXCEPT !.priority = -1, !.level = l].priority = -1
      BY <3>2
    <3> QED  BY <3>1, <3>3 DEF Wellformed
  <2>2. CASE ~(config.hop = "ensure" /\ s.priority # -1)
    BY <1>2, <2>2 DEF ServerContexts
  <2> QED  BY <2>1, <2>2
<1> QED  BY <1>1, <1>3 DEF ContextsOf, s

\* The level of an execution is one that the tracker can record.
LEMMA ExecutionLevels ==
  ASSUME UsageInv, NEW ctx, Wellformed(ctx)
  PROVE  ThrottlerLevels(ctx) \subseteq Levels /\ LevelFromContext(ctx) \subseteq Levels
<1>1. \A l \in Levels \cup {-1} : AtLeast(0, l) \in Levels
  BY LevelsExist DEF AtLeast
<1>2. {AtLeast(0, l) : l \in PriorityLevels(ctx)} \subseteq Levels
  BY <1>1, LevelsOfContext
<1>3. ctx.priority # -1 => GetLevel(ctx.user, ctx.priority) \in Levels
  BY LevelWithinRange, RangesAreLevels DEF Wellformed
<1> QED  BY <1>2, <1>3 DEF ThrottlerLevels, LevelFromContext

\* The recorded slots.
LEMMA RecordedSlots ==
  ASSUME TrackerOK
  PROVE  /\ Recorded \subseteq Slots /\ IsFiniteSet(Recorded)
         /\ CurrentSize \in Nat /\ Cardinality(Recorded) = CurrentSize
<1>1. WindowSize \in Nat \ {0} /\ head \in 0 .. WindowSize - 1 /\ filled \in BOOLEAN
  BY PrioritizerAssumption DEF TrackerOK, Slots
<1>2. Recorded = IF filled THEN 0 .. WindowSize - 1 ELSE 0 .. head - 1
  BY <1>1 DEF Recorded
<1>3. ASSUME NEW n \in Nat PROVE IsFiniteSet(0 .. n - 1) /\ Cardinality(0 .. n - 1) = n
  <2>1. 0 \in Int /\ n - 1 \in Int /\ (0 > n - 1 => n = 0) /\ (n - 1) - 0 + 1 = n
    OBVIOUS
  <2> QED  BY <2>1, FS_Interval
<1> QED  BY <1>1, <1>2, <1>3 DEF CurrentSize, Slots

\* A recording replaces what its slot held: the counts follow, before and after the ring wraps.
LEMMA RecordLevelStep ==
  ASSUME TrackerOK, NEW level \in Levels, RecordLevel(level)
  PROVE  TrackerOK'
<1>1. /\ WindowSize \in Nat \ {0} /\ head \in 0 .. WindowSize - 1 /\ filled \in BOOLEAN
      /\ window \in [Slots -> Levels] /\ Slots = 0 .. WindowSize - 1
  BY PrioritizerAssumption DEF TrackerOK, Slots
<1>2. /\ window' = [window EXCEPT ![head] = level] /\ head' = (head + 1) % WindowSize
      /\ filled' = (filled \/ head + 1 >= WindowSize)
  BY DEF RecordLevel
<1>3. /\ head + 1 >= WindowSize => head = WindowSize - 1 /\ head' = 0
      /\ ~(head + 1 >= WindowSize) => head' = head + 1
  BY <1>1, <1>2
<1>4. head' \in Slots /\ filled' \in BOOLEAN /\ window' \in [Slots -> Levels]
  BY <1>1, <1>2, <1>3
<1>5. Recorded' = Recorded \cup {head} /\ (head \in Recorded <=> filled)
  <2>1. CASE filled
    BY <1>1, <1>2, <2>1 DEF Recorded
  <2>2. CASE ~filled /\ head + 1 >= WindowSize
    <3>1. filled' /\ head = WindowSize - 1
      BY <1>2, <1>3, <2>2
    <3>2. Recorded' = 0 .. WindowSize - 1
      BY <3>1 DEF Recorded
    <3>3. Recorded = 0 .. head - 1
      BY <1>1, <2>2 DEF Recorded
    <3> QED  BY <1>1, <2>2, <3>1, <3>2, <3>3
  <2>3. CASE ~filled /\ ~(head + 1 >= WindowSize)
    BY <1>1, <1>2, <1>3, <2>3 DEF Recorded
  <2> QED  BY <2>1, <2>2, <2>3
<1>6. ASSUME NEW l \in Levels
      PROVE  Cardinality(At(l))' = Cardinality(At(l)) + (IF l = level THEN 1 ELSE 0)
                                     - (IF filled /\ l = window[head] THEN 1 ELSE 0)
  <2> DEFINE S == At(l)
  <2>1. IsFiniteSet(S) /\ Cardinality(S) \in Nat
    BY RecordedSlots, FS_Subset, FS_CardinalityType DEF At
  <2>2. At(l)' = IF l = level THEN (S \ {head}) \cup {head} ELSE S \ {head}
    <3>1. At(l)' = {i \in Recorded \cup {head} : window'[i] = l}
      BY <1>5 DEF At
    <3>2. \A i \in Recorded \cup {head} : window'[i] = IF i = head THEN level ELSE window[i]
      BY <1>1, <1>2, RecordedSlots
    <3> QED  BY <3>1, <3>2 DEF At
  <2>3. head \in S <=> filled /\ l = window[head]
    BY <1>5 DEF At
  <2> HIDE DEF S
  <2>4. /\ IsFiniteSet(S \ {head})
        /\ Cardinality(S \ {head}) = IF head \in S THEN Cardinality(S) - 1 ELSE Cardinality(S)
    BY <2>1, FS_RemoveElement
  <2>5. Cardinality((S \ {head}) \cup {head}) = Cardinality(S \ {head}) + 1
    BY <2>4, FS_AddElement
  <2> QED  BY <2>1, <2>2, <2>3, <2>4, <2>5 DEF S
<1>7. levelCounts' = [l \in Levels |-> Cardinality(At(l)')]
  <2>1. \A l \in Levels : levelCounts[l] = Cardinality(At(l))
    BY DEF TrackerOK
  <2>2. levelCounts' = [l \in Levels |-> levelCounts[l] + (IF l = level THEN 1 ELSE 0)
                          - (IF filled /\ l = window[head] THEN 1 ELSE 0)]
    BY DEF RecordLevel
  <2> QED  BY <1>6, <2>1, <2>2
<1> QED  BY <1>4, <1>7 DEF TrackerOK, Slots

-----------------------------------------------------------------------------
(***************************************************************************)
(* The loop of GetLevel counts the executions up to a level.  Induction    *)
(* over the levels is by the least number that is left out.                *)
(***************************************************************************)
\* A set of natural numbers has a least one.
LEMMA LeastNumber ==
  ASSUME NEW S \in SUBSET Nat, S # {}
  PROVE  \E n \in S : \A m \in S : n <= m
<1> DEFINE less == OpToRel(<, Nat)
<1>1. PICK n \in S : \A m \in S : ~(<<m, n>> \in less)
  BY NatLessThanWellFounded, WFMin
<1>2. \A m \in S : m < n => <<m, n>> \in less
  BY DEF OpToRel
<1>3. \A m \in S : ~(m < n)
  BY <1>1, <1>2, Zenon
<1> QED  BY <1>3

\* Induction over the natural numbers.
LEMMA Induction ==
  ASSUME NEW S \in SUBSET Nat, 0 \in S, \A n \in S : n + 1 \in S
  PROVE  S = Nat
<1> SUFFICES ASSUME Nat \ S # {} PROVE FALSE
  OBVIOUS
<1>1. PICK n \in Nat \ S : \A m \in Nat \ S : n <= m
  BY LeastNumber
<1>2. n # 0 /\ n - 1 \in Nat /\ ~(n <= n - 1)
  OBVIOUS
<1>3. n - 1 \in S
  BY <1>1, <1>2
<1>4. (n - 1) + 1 \in S
  BY <1>3
<1> QED  BY <1>4

\* Executions at a level, and below it.
LEMMA UpToLevel ==
  ASSUME TrackerOK, NEW l \in Levels
  PROVE  /\ IsFiniteSet(At(l)) /\ Cardinality(At(l)) \in Nat
         /\ IsFiniteSet(UpTo(l)) /\ Cardinality(UpTo(l)) \in Nat
         /\ l = 0 => UpTo(l) = At(l)
         /\ l # 0 => /\ l - 1 \in Levels
                     /\ Cardinality(UpTo(l)) = Cardinality(At(l)) + Cardinality(UpTo(l - 1))
<1>1. /\ Recorded \subseteq Slots /\ IsFiniteSet(Recorded) /\ l \in Nat
      /\ \A i \in Recorded : window[i] \in Nat
  BY RecordedSlots, LevelsExist DEF TrackerOK
<1>2. \A S \in SUBSET Recorded : IsFiniteSet(S) /\ Cardinality(S) \in Nat
  BY <1>1, FS_Subset, FS_CardinalityType
<1>3. At(l) \in SUBSET Recorded /\ UpTo(l) \in SUBSET Recorded /\ UpTo(l - 1) \in SUBSET Recorded
  BY DEF At, UpTo
<1>4. l = 0 => UpTo(l) = At(l)
  BY <1>1 DEF At, UpTo
<1>5. ASSUME l # 0
      PROVE  /\ l - 1 \in Levels
             /\ Cardinality(UpTo(l)) = Cardinality(At(l)) + Cardinality(UpTo(l - 1))
  <2>1. l - 1 \in Levels
    BY <1>1, <1>5, LevelsExist DEF Levels
  <2>2. UpTo(l) = At(l) \cup UpTo(l - 1) /\ At(l) \cap UpTo(l - 1) = {}
    BY <1>1, <1>5 DEF At, UpTo
  <2>3. Cardinality(UpTo(l)) =
          Cardinality(At(l)) + Cardinality(UpTo(l - 1)) - Cardinality(At(l) \cap UpTo(l - 1))
    BY <1>2, <1>3, <2>2, FS_Union
  <2>4. Cardinality(At(l) \cap UpTo(l - 1)) = 0
    BY <2>2, FS_EmptySet
  <2>5. Cardinality(At(l)) \in Nat /\ Cardinality(UpTo(l - 1)) \in Nat
    BY <1>2, <1>3
  <2> QED  BY <2>1, <2>3, <2>4, <2>5
<1> QED  BY <1>2, <1>3, <1>4, <1>5

\* countedLevels is the number of recorded executions up to the level.
LEMMA CountedIsUpTo ==
  ASSUME TrackerOK, NEW level \in Levels
  PROVE  CountedLevels(level) = Cardinality(UpTo(level))
<1> DEFINE Loop(f) == [l \in Levels |-> levelCounts[l] + (IF l = 0 THEN 0 ELSE f[l - 1])]
           F       == CHOOSE f : f = Loop(f)
           G       == [l \in Levels |-> Cardinality(UpTo(l))]
<1>1. Levels \subseteq Nat /\ \A l \in Levels : levelCounts[l] = Cardinality(At(l))
  BY LevelsExist DEF TrackerOK
<1>2. G = Loop(G)
  <2>1. ASSUME NEW l \in Levels
        PROVE  Cardinality(UpTo(l)) = levelCounts[l] + (IF l = 0 THEN 0 ELSE G[l - 1])
    <3>1. CASE l = 0
      BY <1>1, <3>1, UpToLevel
    <3>2. CASE l # 0
      <4>1. /\ l - 1 \in Levels
            /\ Cardinality(UpTo(l)) = Cardinality(At(l)) + Cardinality(UpTo(l - 1))
        BY <3>2, UpToLevel
      <4>2. G[l - 1] = Cardinality(UpTo(l - 1))
        BY <4>1
      <4> HIDE DEF G
      <4> QED  BY <1>1, <3>2, <4>1, <4>2
    <3> QED  BY <3>1, <3>2
  <2>2. Loop(G) = [l \in Levels |-> levelCounts[l] + (IF l = 0 THEN 0 ELSE G[l - 1])]
    OBVIOUS
  <2>3. G = [l \in Levels |-> Cardinality(UpTo(l))]
    OBVIOUS
  <2> HIDE DEF G, Loop
  <2> QED  BY <2>1, <2>2, <2>3
<1>3. F = Loop(F)
  <2> HIDE DEF G, Loop
  <2> QED  BY <1>2, Zenon
<1> DEFINE S == {n \in Nat : n \in Levels => F[n] = Cardinality(UpTo(n))}
<1>4. \A l \in Levels : F[l] = levelCounts[l] + (IF l = 0 THEN 0 ELSE F[l - 1])
  <2> HIDE DEF F
  <2> QED  BY <1>3
<1> HIDE DEF F
<1>5. 0 \in S
  <2>1. 0 \in Levels
    BY LevelsExist
  <2>2. F[0] = levelCounts[0] + 0 /\ levelCounts[0] = Cardinality(At(0))
    BY <1>1, <1>4, <2>1
  <2>3. Cardinality(At(0)) \in Nat /\ UpTo(0) = At(0)
    BY <2>1, UpToLevel
  <2> QED  BY <2>2, <2>3
<1>6. \A n \in S : n + 1 \in S
  <2> SUFFICES ASSUME NEW n \in Nat, n \in Levels => F[n] = Cardinality(UpTo(n)), n + 1 \in Levels
               PROVE  F[n + 1] = Cardinality(UpTo(n + 1))
    OBVIOUS
  <2>1. n + 1 # 0 /\ (n + 1) - 1 = n
    OBVIOUS
  <2>2. n \in Levels /\ Cardinality(UpTo(n + 1)) = Cardinality(At(n + 1)) + Cardinality(UpTo(n))
    BY <2>1, UpToLevel
  <2>3. F[n + 1] = levelCounts[n + 1] + F[n]
    BY <1>4, <2>1
  <2> QED  BY <1>1, <2>2, <2>3
<1>7. S \in SUBSET Nat
  OBVIOUS
<1>8. level \in S
  <2> HIDE DEF S
  <2> QED  BY <1>1, <1>5, <1>6, <1>7, Induction
<1>9. CountedLevels(level) = F[level]
  BY DEF CountedLevels, F
<1> QED  BY <1>8, <1>9

-----------------------------------------------------------------------------
(***************************************************************************)
(* The threshold.                                                          *)
(***************************************************************************)
\* The share of the executions that the loop looks for, rounded up.
LEMMA TargetIsShare ==
  ASSUME TrackerOK, CurrentSize # 0, NEW rate \in 1 .. 100
  PROVE  /\ TargetLevels(rate) \in 1 .. CurrentSize
         /\ rate * CurrentSize <= 100 * TargetLevels(rate)
         /\ 100 * (TargetLevels(rate) - 1) < rate * CurrentSize
<1> DEFINE n == CurrentSize
           q == (n * rate + 99) \div 100
<1>1. n \in Nat \ {0}
  BY RecordedSlots
<1>2. n * rate \in Nat /\ n * rate = rate * n /\ n <= n * rate /\ n * rate <= n * 100
  <2> HIDE DEF n
  <2>1. n * rate \in Nat /\ n * rate = rate * n /\ n * 100 = 100 * n /\ n * 1 = n
    BY <1>1
  <2>2. 1 < rate => n * 1 + n <= n * rate
    BY <1>1, ProductOrder
  <2>3. rate < 100 => n * rate + n <= n * 100
    BY <1>1, ProductOrder
  <2> QED  BY <1>1, <2>1, <2>2, <2>3
<1>3. PICK p \in Nat : p = n * rate
  BY <1>2
<1>4. q \in Nat /\ 100 * q <= p + 99 /\ p + 99 < 100 * q + 100
  <2> HIDE DEF n
  <2> QED  BY <1>3, Division
<1>5. q \in 1 .. n /\ p <= 100 * q /\ 100 * (q - 1) < p
  <2> HIDE DEF q, n
  <2> QED  BY <1>1, <1>2, <1>3, <1>4
<1>6. TargetLevels(rate) = q
  <2>1. TargetLevels(rate) = IF 1 < q THEN q ELSE 1
    BY DEF TargetLevels, AtLeast
  <2> HIDE DEF q
  <2> QED  BY <1>4, <1>5, <2>1
<1> HIDE DEF q, n
<1>7. rate * n = p
  BY <1>2, <1>3
<1> QED  BY <1>5, <1>6, <1>7 DEF n

\* The level at which the loop stops.
LEMMA ThresholdFound ==
  ASSUME TrackerOK, CurrentSize # 0, NEW rate \in 1 .. 100
  PROVE  /\ GetLevelAt(rate) \in Levels
         /\ Cardinality(UpTo(GetLevelAt(rate))) >= TargetLevels(rate)
         /\ \A l \in Levels : Cardinality(UpTo(l)) >= TargetLevels(rate) => GetLevelAt(rate) <= l
<1> DEFINE found == {l \in Levels : CountedLevels(l) >= TargetLevels(rate)}
<1>1. found = {l \in Levels : Cardinality(UpTo(l)) >= TargetLevels(rate)}
  BY CountedIsUpTo
<1>2. TotalLevels - 1 \in found
  <2>1. TotalLevels - 1 \in Levels /\ \A l \in Levels : l <= TotalLevels - 1
    BY LevelsExist DEF Levels
  <2>2. \A i \in Recorded : window[i] \in Levels
    BY RecordedSlots DEF TrackerOK
  <2>3. UpTo(TotalLevels - 1) = Recorded
    BY <2>1, <2>2 DEF UpTo
  <2>4. Cardinality(UpTo(TotalLevels - 1)) = CurrentSize /\ CurrentSize \in Nat
    BY <2>3, RecordedSlots
  <2>5. CurrentSize >= TargetLevels(rate)
    BY <2>4, TargetIsShare
  <2> QED  BY <1>1, <2>1, <2>4, <2>5
<1>3. GetLevelAt(rate) = Min(found)
  BY <1>2 DEF GetLevelAt
<1>4. found \in SUBSET Nat /\ found # {}
  BY <1>2, LevelsExist
<1> HIDE DEF found
<1>5. \E n \in found : \A m \in found : n <= m
  BY <1>4, LeastNumber
<1>6. Min(found) \in found /\ \A m \in found : Min(found) <= m
  BY <1>5, Zenon DEF Min
<1> QED  BY <1>1, <1>3, <1>6

\* A tracker whose counts are those of its ring returns quantiles.
LEMMA TrackerIsQuantile == ASSUME TrackerOK PROVE ThresholdIsQuantile
<1> SUFFICES ASSUME NEW rate \in Rates, Recorded # {}
             PROVE  LET level == GetLevelAt(rate)
                    IN /\ level \in {window[i] : i \in Recorded}
                       /\ 100 * Cardinality({i \in Recorded : window[i] < level})
                            < rate * Cardinality(Recorded)
                       /\ 100 * Cardinality({i \in Recorded : window[i] <= level})
                            >= rate * Cardinality(Recorded)
  BY DEF ThresholdIsQuantile
<1> DEFINE L == GetLevelAt(rate)
           T == TargetLevels(rate)
           n == CurrentSize
<1>1. rate \in 1 .. 100 /\ n \in Nat \ {0} /\ Cardinality(Recorded) = n
  <2>1. IsFiniteSet(Recorded) /\ CurrentSize \in Nat /\ Cardinality(Recorded) = CurrentSize
    BY RecordedSlots
  <2> QED  BY <2>1, PrioritizerAssumption, FS_EmptySet
<1>2. T \in 1 .. n /\ rate * n <= 100 * T /\ 100 * (T - 1) < rate * n
  BY <1>1, TargetIsShare
<1>3. L \in Levels /\ Cardinality(UpTo(L)) >= T
      /\ \A l \in Levels : Cardinality(UpTo(l)) >= T => L <= l
  BY <1>1, ThresholdFound
<1> HIDE DEF L, T, n
<1> DEFINE below == {i \in Recorded : window[i] < L}
<1>4. L \in Nat /\ Cardinality(UpTo(L)) \in Nat /\ \A i \in Recorded : window[i] \in Nat
  BY <1>3, LevelsExist, UpToLevel, RecordedSlots DEF TrackerOK
<1>5. Cardinality(below) \in Nat /\ Cardinality(below) <= T - 1
  <2>1. CASE L = 0
    <3>1. below = {}
      BY <1>4, <2>1
    <3> QED  BY <1>1, <1>2, <3>1, FS_EmptySet
  <2>2. CASE L # 0
    <3>1. L - 1 \in Levels /\ ~(L <= L - 1)
      BY <1>3, <1>4, <2>2, LevelsExist DEF Levels
    <3>2. below = UpTo(L - 1)
      BY <1>4, <2>2 DEF UpTo
    <3>3. Cardinality(UpTo(L - 1)) \in Nat /\ ~(Cardinality(UpTo(L - 1)) >= T)
      BY <1>3, <3>1, UpToLevel
    <3> HIDE DEF below
    <3> QED  BY <1>1, <1>2, <3>2, <3>3
  <2> QED  BY <2>1, <2>2
<1>6. L \in {window[i] : i \in Recorded}
  <2> SUFFICES ASSUME \A i \in Recorded : window[i] # L PROVE FALSE
    OBVIOUS
  <2>1. below = UpTo(L)
    BY <1>4 DEF UpTo
  <2> HIDE DEF below
  <2> QED  BY <1>1, <1>2, <1>3, <1>4, <1>5, <2>1
<1>7. rate * n \in Nat
  BY <1>1
<1>8. 100 * Cardinality(below) < rate * n
  <2> HIDE DEF below
  <2> QED  BY <1>1, <1>2, <1>5, <1>7
<1>9. 100 * Cardinality(UpTo(L)) >= rate * n
  BY <1>1, <1>2, <1>3, <1>4, <1>7
<1> QED  BY <1>1, <1>6, <1>8, <1>9 DEF L, UpTo

-----------------------------------------------------------------------------
\* The start.
LEMMA InitLevelsInv == Init => LevelsInv
<1> SUFFICES ASSUME Init PROVE LevelsInv
  OBVIOUS
<1>1. /\ window = [i \in Slots |-> 0] /\ levelCounts = [l \in Levels |-> 0]
      /\ head = 0 /\ filled = FALSE
  BY DEF Init, Slots
<1>2. 0 \in Slots /\ 0 \in Levels
  BY PrioritizerAssumption, LevelsExist DEF Slots
<1>3. Recorded = {}
  BY <1>1 DEF Recorded
<1>4. \A l \in Levels : Cardinality(At(l)) = 0
  <2>1. \A l : At(l) = {}
    BY <1>3 DEF At
  <2> QED  BY <2>1, FS_EmptySet
<1>5. TrackerOK
  BY <1>1, <1>2, <1>4 DEF TrackerOK
<1>6. config \in Configs /\ accepted \in [Callers -> Levels \cup {-1}]
  BY DEF Init
<1> QED  BY <1>5, <1>6 DEF LevelsInv

\* Steps that leave the ring alone.
LEMMA TrackerKept == ASSUME TrackerOK, UNCHANGED tracker PROVE TrackerOK'
BY DEF TrackerOK, tracker, At, Recorded

\* Only levels that exist are accepted, and only accepted levels are recorded.
LEMMA NextLevelsInv == UsageInv /\ LevelsInv /\ [Next]_vars => LevelsInv'
<1> SUFFICES ASSUME UsageInv, LevelsInv, [Next]_vars PROVE LevelsInv'
  OBVIOUS
<1>1. ASSUME UNCHANGED <<config, accepted, tracker>> PROVE LevelsInv'
  BY <1>1, TrackerKept DEF LevelsInv
<1>2. ASSUME NEW c \in Callers, NEW p, NEW sent \in config.contexts, NEW ctx \in ContextsOf(sent),
             NEW level \in LevelFromContext(ctx) \cup ThrottlerLevels(ctx),
             LimiterAcquires(c, p, level) \/ ThrottlerAcquires(c, p, level)
      PROVE  LevelsInv'
  <2>1. level \in Levels
    BY ContextsWellformed, ExecutionLevels DEF LevelsInv
  <2>2. accepted' = [accepted EXCEPT ![c] = level] /\ UNCHANGED <<config, tracker>>
    BY <1>2 DEF LimiterAcquires, ThrottlerAcquires
  <2> QED  BY <2>1, <2>2, TrackerKept DEF LevelsInv
<1>3. ASSUME NEW c \in Callers, RecordsLevel(c) PROVE LevelsInv'
  <2>1. accepted[c] \in Levels /\ RecordLevel(accepted[c])
    BY <1>3 DEF RecordsLevel, LevelsInv
  <2>2. TrackerOK'
    BY <2>1, RecordLevelStep DEF LevelsInv
  <2>3. accepted' = [accepted EXCEPT ![c] = -1] /\ config' = config
    BY <1>3 DEF RecordsLevel
  <2> QED  BY <2>2, <2>3 DEF LevelsInv
<1>4. ASSUME NEW c \in Callers, CallerStep(c) PROVE LevelsInv'
  BY <1>2, <1>3, <1>4 DEF CallerStep
<1>5. ASSUME NEW p \in config.policies, Register(p) \/ LoadChanges(p) \/ RecordsResult(p)
      PROVE  UNCHANGED <<config, accepted, tracker>>
  BY <1>5 DEF Register, LoadChanges, RecordsResult
<1>6. ASSUME NEW k \in config.calibrators, Calibrates(k) \/ StopScheduled(k)
      PROVE  UNCHANGED <<config, accepted, tracker>>
  BY <1>6 DEF Calibrates, Compute, Swap, CalibratesUsage, StopScheduled
<1>7. ASSUME (\E u \in Users, usage \in Usages : RecordsUsage(u, usage)) \/ Tick \/ UNCHANGED vars
      PROVE  UNCHANGED <<config, accepted, tracker>>
  BY <1>7 DEF RecordsUsage, Tick, vars, prioritizerVars
<1> QED  BY <1>1, <1>4, <1>5, <1>6, <1>7 DEF Next

\* The tracker's counts are those of its ring, for any size of the ring and any number of levels.
THEOREM LevelsInvariance == Spec => []LevelsInv
<1>1. Spec => []UsageInv
  BY UsageInvariance
<1> QED  BY <1>1, InitLevelsInv, NextLevelsInv, PTL DEF Spec

\* The threshold for any rejection rate from 1 to 100 percent is the recorded level at that
\* quantile, after any number of recordings and wraps of the ring.
THEOREM ThresholdsAreQuantiles == Spec => []ThresholdIsQuantile
<1>1. LevelsInv => ThresholdIsQuantile
  BY TrackerIsQuantile DEF LevelsInv
<1> QED  BY <1>1, LevelsInvariance, PTL

HIDE UsageAssumption

-----------------------------------------------------------------------------
(***************************************************************************)
(* Positions in a ring of c slots.                                         *)
(***************************************************************************)
\* Quotient and remainder, of negative numbers too.
LEMMA Remainder ==
  ASSUME NEW a \in Int, NEW c \in Nat \ {0}
  PROVE  a \div c \in Int /\ a % c \in 0 .. c - 1 /\ a = c * (a \div c) + (a % c)
BY Z3

\* They are the only ones.
LEMMA RemainderUnique ==
  ASSUME NEW a \in Int, NEW c \in Nat \ {0}, NEW q \in Int, NEW r \in 0 .. c - 1, a = c * q + r
  PROVE  a % c = r /\ a \div c = q
<1>1. PICK p \in Int, s \in 0 .. c - 1 : p = a \div c /\ s = a % c /\ a = c * p + s
  BY Remainder
<1>2. c * p \in Int /\ c * q \in Int
  OBVIOUS
<1>3. ASSUME p < q PROVE FALSE
  <2>1. q - p - 1 \in Nat /\ c * (q - p - 1) \in Nat /\ c * q = c * p + c + c * (q - p - 1)
    BY <1>3
  <2> QED  BY <1>1, <1>2, <2>1
<1>4. ASSUME q < p PROVE FALSE
  <2>1. p - q - 1 \in Nat /\ c * (p - q - 1) \in Nat /\ c * p = c * q + c + c * (p - q - 1)
    BY <1>4
  <2> QED  BY <1>1, <1>2, <2>1
<1>5. p = q
  BY <1>3, <1>4
<1> QED  BY <1>1, <1>2, <1>5

\* Two numbers with the same remainder are the same, or at least c apart.
LEMMA SameSlot ==
  ASSUME NEW a \in Int, NEW b \in Int, NEW c \in Nat \ {0}, a % c = b % c, a < b
  PROVE  a + c <= b
<1>1. PICK p \in Int, q \in Int, r \in 0 .. c - 1 : a = c * p + r /\ b = c * q + r
  <2>1. /\ a \div c \in Int /\ a % c \in 0 .. c - 1 /\ a = c * (a \div c) + (a % c)
        /\ b \div c \in Int /\ b % c \in 0 .. c - 1 /\ b = c * (b \div c) + (b % c)
    BY Remainder
  <2> QED  BY <2>1
<1>2. c * p \in Int /\ c * q \in Int
  OBVIOUS
<1>3. c * p < c * q
  BY <1>1, <1>2
<1>4. p < q
  <2> SUFFICES ASSUME q <= p PROVE FALSE
    OBVIOUS
  <2>1. p - q \in Nat /\ c * (p - q) \in Nat /\ c * p = c * q + c * (p - q)
    OBVIOUS
  <2> QED  BY <1>2, <1>3, <2>1
<1>5. q - p - 1 \in Nat /\ c * (q - p - 1) \in Nat /\ c * q = c * p + c + c * (q - p - 1)
  BY <1>4
<1> QED  BY <1>1, <1>2, <1>5

\* Once around the ring.
LEMMA SlotAgain ==
  ASSUME NEW a \in Int, NEW c \in Nat \ {0}
  PROVE  (a + c) % c = a % c
<1>1. PICK q \in Int, r \in 0 .. c - 1 : r = a % c /\ a = c * q + r
  BY Remainder
<1>2. q + 1 \in Int /\ a + c \in Int /\ a + c = c * (q + 1) + r
  BY <1>1
<1> QED  BY <1>1, <1>2, RemainderUnique

\* The next slot.
LEMMA NextSlot ==
  ASSUME NEW a \in Int, NEW c \in Nat \ {0}
  PROVE  ((a % c) + 1) % c = (a + 1) % c
<1>1. PICK q \in Int, r \in 0 .. c - 1 : r = a % c /\ a = c * q + r
  BY Remainder
<1>2. c * q \in Int /\ c * (q + 1) = c * q + c /\ c * 0 = 0 /\ c * 1 = c /\ q + 1 \in Int
  OBVIOUS
<1>3. a + 1 \in Int /\ r + 1 \in Int /\ 0 \in 0 .. c - 1
  OBVIOUS
<1>4. CASE r + 1 = c
  <2>1. a + 1 = c * (q + 1) + 0
    <3>1. a = c * q + r
      BY <1>1
    <3> QED  BY <1>2, <1>4, <3>1
  <2>2. (a + 1) % c = 0
    BY <1>2, <1>3, <2>1, RemainderUnique
  <2>3. r + 1 = c * 1 + 0
    BY <1>2, <1>4
  <2>4. (r + 1) % c = 0
    BY <1>3, <2>3, RemainderUnique
  <2> QED  BY <1>1, <2>2, <2>4
<1>5. CASE r + 1 # c
  <2>1. r + 1 \in 0 .. c - 1 /\ a + 1 = c * q + (r + 1) /\ r + 1 = c * 0 + (r + 1)
    BY <1>1, <1>2, <1>5
  <2>2. (a + 1) % c = r + 1
    BY <1>3, <2>1, RemainderUnique
  <2>3. (r + 1) % c = r + 1
    BY <1>3, <2>1, RemainderUnique
  <2> QED  BY <1>1, <2>2, <2>3
<1> QED  BY <1>4, <1>5

\* Every slot is met in any c numbers in a row.
LEMMA SlotMet ==
  ASSUME NEW a \in Int, NEW c \in Nat \ {0}, NEW r \in 0 .. c - 1
  PROVE  \E i \in 0 .. c - 1 : (a - i) % c = r
<1>1. PICK q \in Int, i \in 0 .. c - 1 : a - r = c * q + i
  <2>1. a - r \in Int
    OBVIOUS
  <2> QED  BY <2>1, Remainder
<1>2. c * q \in Int
  OBVIOUS
<1>3. a - i \in Int /\ a - i = c * q + r
  BY <1>1, <1>2
<1> QED  BY <1>3, RemainderUnique

-----------------------------------------------------------------------------
(***************************************************************************)
(* A ring holds the last Capacity elements of a sequence.                  *)
(***************************************************************************)
LEMMA WindowsConstants ==
  /\ Capacity \in Nat \ {0} /\ Window \in Nat \ {0}
  /\ BucketCount \in Nat \ {0} /\ BucketNanos \in Nat \ {0}
  /\ XSamples \subseteq Nat /\ YSamples \subseteq Nat /\ StartTime \in Nat
BY WindowsAssumption

RingHolds(ring, s, n) ==
  \A i \in 1 .. n : i > n - Capacity => ring[(i - 1) % Capacity] = s[i]

\* The slot that is written next is that of the element that leaves, and of no other.
LEMMA RingSlots ==
  ASSUME NEW n \in Nat
  PROVE  /\ n % Capacity \in Indexes
         /\ ((n % Capacity) + 1) % Capacity = (n + 1) % Capacity
         /\ \A i \in 1 .. n + 1 : (i - 1) % Capacity \in Indexes
         /\ \A i \in 1 .. n : i > n - Capacity =>
              ((i - 1) % Capacity = n % Capacity <=> i = n - Capacity + 1)
<1>1. Capacity \in Nat \ {0} /\ n \in Int
  BY WindowsConstants
<1>2. \A j \in Int : j % Capacity \in Indexes
  BY <1>1, Remainder DEF Indexes
<1>3. ASSUME NEW i \in 1 .. n, i > n - Capacity
      PROVE  (i - 1) % Capacity = n % Capacity <=> i = n - Capacity + 1
  <2>1. PICK j \in Int : j = i - 1
    BY <1>1
  <2>2. ASSUME j % Capacity = n % Capacity PROVE i = n - Capacity + 1
    <3>1. j < n
      BY <1>3, <2>1
    <3>2. j + Capacity <= n
      BY <1>1, <2>2, <3>1, SameSlot
    <3> QED  BY <1>1, <1>3, <2>1, <3>2
  <2>3. ASSUME i = n - Capacity + 1 PROVE j % Capacity = n % Capacity
    <3>1. n = j + Capacity
      BY <1>1, <2>1, <2>3
    <3> QED  BY <1>1, <3>1, SlotAgain
  <2> QED  BY <2>1, <2>2, <2>3
<1>4. \A i \in 1 .. n + 1 : (i - 1) % Capacity \in Indexes
  <2>1. \A i \in 1 .. n + 1 : i - 1 \in Int
    OBVIOUS
  <2> QED  BY <1>2, <2>1
<1> QED  BY <1>1, <1>2, <1>3, <1>4, NextSlot

\* A set that loses one element and gains another.
LEMMA SlidingCount ==
  ASSUME NEW A, IsFiniteSet(A), NEW old, NEW new, new \notin A, new # old
  PROVE  /\ Cardinality(A) \in Nat
         /\ old \in A => Cardinality(A \ {old}) = Cardinality(A) - 1
         /\ old \notin A => Cardinality(A \ {old}) = Cardinality(A)
         /\ Cardinality((A \ {old}) \cup {new}) = Cardinality(A \ {old}) + 1
         /\ Cardinality(A \ {old}) \in Nat
<1>1. Cardinality(A) \in Nat
  BY FS_CardinalityType
<1>2. /\ IsFiniteSet(A \ {old})
      /\ Cardinality(A \ {old}) = IF old \in A THEN Cardinality(A) - 1 ELSE Cardinality(A)
  BY FS_RemoveElement
<1>3. new \notin A \ {old}
  OBVIOUS
<1>4. Cardinality((A \ {old}) \cup {new}) = Cardinality(A \ {old}) + 1
  BY <1>2, <1>3, FS_AddElement
<1>5. Cardinality(A \ {old}) \in Nat
  BY <1>2, FS_CardinalityType
<1> QED  BY <1>1, <1>2, <1>4, <1>5

-----------------------------------------------------------------------------
(***************************************************************************)
(* The samples since the last Reset.                                       *)
(***************************************************************************)
Samples == [x : Nat, y : Nat, at : Nat]

HistoryOK ==
  /\ clock \in Nat
  /\ history \in Seq(Samples)
  /\ \A i \in 1 .. Len(history) : history[i].at <= clock
  /\ \A i, j \in 1 .. Len(history) : i <= j => history[i].at <= history[j].at

\* A sample is added at the present time.
LEMMA HistoryStep ==
  ASSUME HistoryOK, NEW x \in XSamples, NEW y \in YSamples, Add(x, y)
  PROVE  /\ x \in Nat /\ y \in Nat /\ clock' = clock
         /\ Len(history) \in Nat /\ Len(history') = Len(history) + 1
         /\ \A i \in 1 .. Len(history) : history'[i] = history[i]
         /\ history'[Len(history) + 1] = [x |-> x, y |-> y, at |-> clock]
         /\ HistoryOK'
<1> DEFINE n == Len(history)
           e == [x |-> x, y |-> y, at |-> clock]
<1>1. x \in Nat /\ y \in Nat /\ clock' = clock /\ history' = Append(history, e) /\ n \in Nat
  BY WindowsConstants DEF Add, HistoryOK
<1>2. e \in Samples
  BY <1>1 DEF HistoryOK, Samples
<1>3. history' \in Seq(Samples) /\ Len(history') = n + 1 /\ history'[n + 1] = e
      /\ \A i \in 1 .. n : history'[i] = history[i]
  <2> HIDE DEF e
  <2> QED  BY <1>1, <1>2 DEF HistoryOK
<1>4. e.at = clock /\ \A i \in 1 .. n : history[i].at \in Nat
  <2>1. \A i \in 1 .. n : history[i] \in Samples
    BY <1>1 DEF HistoryOK
  <2> QED  BY <2>1 DEF Samples
<1>5. \A i \in 1 .. n + 1 : history'[i].at <= clock
  <2> HIDE DEF e
  <2> QED  BY <1>1, <1>3, <1>4 DEF HistoryOK
<1>6. ASSUME NEW i \in 1 .. n + 1, NEW j \in 1 .. n + 1, i <= j
      PROVE  history'[i].at <= history'[j].at
  <2> HIDE DEF e
  <2>1. CASE j = n + 1
    BY <1>3, <1>4, <1>5, <2>1
  <2>2. CASE j # n + 1
    BY <1>1, <1>3, <1>6, <2>2 DEF HistoryOK
  <2> QED  BY <2>1, <2>2
<1>7. HistoryOK'
  <2> HIDE DEF e
  <2> QED  BY <1>1, <1>3, <1>5, <1>6 DEF HistoryOK
<1> QED  BY <1>1, <1>3, <1>7

\* The last Capacity samples.
LEMMA LatestSet ==
  ASSUME HistoryOK
  PROVE  LET n == Len(history)
         IN /\ n \in Nat /\ IsFiniteSet(Latest) /\ Latest \subseteq 1 .. n
            /\ Cardinality(Latest) = IF n < Capacity THEN n ELSE Capacity
<1> DEFINE n == Len(history)
<1>1. n \in Nat /\ Capacity \in Nat \ {0}
  BY WindowsConstants DEF HistoryOK
<1>2. Latest \subseteq 1 .. n
  BY DEF Latest
<1>3. CASE n < Capacity
  <2>1. Latest = 1 .. n
    BY <1>1, <1>3 DEF Latest
  <2>2. IsFiniteSet(1 .. n) /\ Cardinality(1 .. n) = n
    <3> HIDE DEF n
    <3> QED  BY <1>1, FS_Interval
  <2> QED  BY <1>1, <1>2, <1>3, <2>1, <2>2
<1>4. CASE n >= Capacity
  <2>1. PICK first \in Int : first = n - Capacity + 1
    BY <1>1
  <2>2. Latest = first .. n
    BY <1>1, <1>4, <2>1 DEF Latest
  <2>3. IsFiniteSet(first .. n) /\ Cardinality(first .. n) = Capacity
    <3> HIDE DEF n
    <3> QED  BY <1>1, <2>1, FS_Interval
  <2> QED  BY <1>1, <1>2, <1>4, <2>2, <2>3
<1> QED  BY <1>1, <1>3, <1>4

\* The oldest of a full window leaves when a sample is added.
LEMMA LatestStep ==
  ASSUME HistoryOK, NEW x \in XSamples, NEW y \in YSamples, Add(x, y)
  PROVE  LET n == Len(history)
         IN /\ n + 1 \notin Latest /\ n + 1 # n - Capacity + 1
            /\ Latest' = (Latest \ {n - Capacity + 1}) \cup {n + 1}
            /\ n - Capacity + 1 \in Latest <=> n >= Capacity
<1> DEFINE n == Len(history)
<1>1. n \in Nat /\ Capacity \in Nat \ {0} /\ Len(history') = n + 1
  BY HistoryStep, WindowsConstants
<1>2. Latest' = {i \in 1 .. n + 1 : i > n + 1 - Capacity}
  BY <1>1 DEF Latest
<1>3. Latest = {i \in 1 .. n : i > n - Capacity}
  BY DEF Latest
<1> HIDE DEF n
<1>4. {i \in 1 .. n + 1 : i > n + 1 - Capacity}
         = ({i \in 1 .. n : i > n - Capacity} \ {n - Capacity + 1}) \cup {n + 1}
  BY <1>1
<1>5. /\ n + 1 \notin Latest /\ n + 1 # n - Capacity + 1
      /\ n - Capacity + 1 \in Latest <=> n >= Capacity
  BY <1>1, <1>3
<1>6. Latest' = (Latest \ {n - Capacity + 1}) \cup {n + 1}
  BY <1>2, <1>3, <1>4
<1> QED  BY <1>5, <1>6 DEF n

-----------------------------------------------------------------------------
(***************************************************************************)
(* The bit set.                                                            *)
(***************************************************************************)
LatestSuccesses == {i \in Latest : history[i].x = 1}
LatestFailures == {i \in Latest : history[i].x # 1}

CountingOK ==
  /\ counting.bits \in [Indexes -> BOOLEAN]
  /\ counting.head = Len(history) % Capacity
  /\ \A i \in Latest : counting.bits[(i - 1) % Capacity] <=> history[i].x = 1
  /\ counting.occupiedBits = Cardinality(Latest)
  /\ counting.successes = Cardinality(LatestSuccesses)
  /\ counting.failures = Cardinality(LatestFailures)

\* setNext takes the result that leaves the window out of the counters and adds the new one.
LEMMA CountingStep ==
  ASSUME HistoryOK, CountingOK, NEW x \in XSamples, NEW y \in YSamples, Add(x, y)
  PROVE  CountingOK'
<1> DEFINE n == Len(history)
           full == counting.occupiedBits = Capacity
           old == counting.bits[counting.head]
           gone == n - Capacity + 1
<1>1. /\ n \in Nat /\ Capacity \in Nat \ {0} /\ Len(history') = n + 1
      /\ \A i \in 1 .. n : history'[i] = history[i]
      /\ history'[n + 1].x = x
  <2>1. history'[n + 1] = [x |-> x, y |-> y, at |-> clock]
    BY HistoryStep
  <2> QED  BY <2>1, HistoryStep, WindowsConstants
<1>2. counting' = [bits |-> [counting.bits EXCEPT ![counting.head] = (x = 1)],
                   head |-> (counting.head + 1) % Capacity,
                   occupiedBits |-> counting.occupiedBits + One(~full),
                   successes |-> counting.successes - One(full /\ old) + One(x = 1),
                   failures |-> counting.failures - One(full /\ ~old) + One(~(x = 1))]
  BY DEF Add, SetNext
<1>3. /\ IsFiniteSet(Latest) /\ (full <=> n >= Capacity)
      /\ Cardinality(Latest) \in Nat
  BY <1>1, LatestSet DEF CountingOK
<1>4. /\ n + 1 \notin Latest /\ n + 1 # gone /\ (gone \in Latest <=> full)
      /\ Latest' = (Latest \ {gone}) \cup {n + 1} /\ Latest \subseteq 1 .. n
      /\ \A i \in Latest : i > n - Capacity
  BY <1>3, LatestStep, LatestSet DEF Latest
<1>5. /\ counting.head = n % Capacity /\ counting.head \in Indexes
      /\ (counting.head + 1) % Capacity = (n + 1) % Capacity
      /\ \A i \in 1 .. n + 1 : (i - 1) % Capacity \in Indexes
      /\ \A i \in Latest : (i - 1) % Capacity = counting.head <=> i = gone
  <2>1. counting.head = n % Capacity
    BY DEF CountingOK
  <2>2. /\ n % Capacity \in Indexes /\ ((n % Capacity) + 1) % Capacity = (n + 1) % Capacity
        /\ \A i \in 1 .. n + 1 : (i - 1) % Capacity \in Indexes
        /\ \A i \in 1 .. n : i > n - Capacity =>
             ((i - 1) % Capacity = n % Capacity <=> i = n - Capacity + 1)
    BY <1>1, RingSlots
  <2>3. \A i \in Latest : i \in 1 .. n /\ i > n - Capacity
    BY <1>4
  <2>4. \A i \in Latest : (i - 1) % Capacity = n % Capacity <=> i = gone
    BY <2>2, <2>3
  <2> QED  BY <2>1, <2>2, <2>4
<1>6. full => (old <=> history[gone].x = 1)
  BY <1>4, <1>5 DEF CountingOK
<1>7. /\ counting'.bits \in [Indexes -> BOOLEAN]
      /\ \A i \in Latest' : counting'.bits[(i - 1) % Capacity] <=> history'[i].x = 1
  <2>1. counting'.bits = [counting.bits EXCEPT ![counting.head] = (x = 1)]
    BY <1>2
  <2>2. counting'.bits \in [Indexes -> BOOLEAN]
    BY <2>1 DEF CountingOK
  <2>3. counting'.bits[counting.head] <=> x = 1
    BY <1>5, <2>1 DEF CountingOK
  <2>4. \A b \in Indexes : b # counting.head => counting'.bits[b] = counting.bits[b]
    BY <2>1 DEF CountingOK
  <2>5. (n + 1) - 1 = n
    BY <1>1
  <2>6. ASSUME NEW i \in Latest, i # gone
        PROVE  counting'.bits[(i - 1) % Capacity] <=> history'[i].x = 1
    <3>1. i \in 1 .. n /\ i \in 1 .. n + 1
      BY <1>1, <1>4
    <3>2. (i - 1) % Capacity \in Indexes /\ (i - 1) % Capacity # counting.head
      BY <1>5, <2>6, <3>1
    <3>3. counting'.bits[(i - 1) % Capacity] = counting.bits[(i - 1) % Capacity]
      BY <2>4, <3>2
    <3> QED  BY <1>1, <3>1, <3>3 DEF CountingOK
  <2>7. counting'.bits[((n + 1) - 1) % Capacity] <=> history'[n + 1].x = 1
    BY <1>1, <1>5, <2>3, <2>5
  <2> QED  BY <1>4, <2>2, <2>6, <2>7
<1>8. counting'.head = (n + 1) % Capacity
  BY <1>2, <1>5
<1>9. PICK g, m : g = gone /\ m = n + 1
  OBVIOUS
<1>10. m \notin Latest /\ m # g /\ (g \in Latest <=> full)
  BY <1>4, <1>9
<1>11. Latest' = (Latest \ {g}) \cup {m}
  BY <1>4, <1>9
<1>12. history'[m].x = x /\ \A i \in Latest : history'[i] = history[i]
  BY <1>1, <1>4, <1>9
<1>13. counting'.occupiedBits = Cardinality(Latest')
  <2>1. counting'.occupiedBits = Cardinality(Latest) + One(~full)
    BY <1>2 DEF CountingOK
  <2>2. /\ Cardinality(Latest) \in Nat /\ Cardinality(Latest \ {g}) \in Nat
        /\ g \in Latest => Cardinality(Latest \ {g}) = Cardinality(Latest) - 1
        /\ g \notin Latest => Cardinality(Latest \ {g}) = Cardinality(Latest)
        /\ Cardinality((Latest \ {g}) \cup {m}) = Cardinality(Latest \ {g}) + 1
    BY <1>3, <1>10, SlidingCount
  <2> HIDE DEF full
  <2> QED  BY <1>3, <1>10, <1>11, <2>1, <2>2 DEF One
<1>14. counting'.successes = Cardinality(LatestSuccesses')
  <2>1. LatestSuccesses \subseteq Latest
    BY DEF LatestSuccesses
  <2>2. IsFiniteSet(LatestSuccesses)
    BY <1>3, <2>1, FS_Subset
  <2>3. m \notin LatestSuccesses /\ Cardinality(LatestSuccesses) \in Nat
    BY <1>10, <2>1, <2>2, FS_CardinalityType
  <2>4. g \in LatestSuccesses <=> full /\ old
    BY <1>6, <1>9, <1>10 DEF LatestSuccesses
  <2>5. counting'.successes = Cardinality(LatestSuccesses) - One(full /\ old) + One(x = 1)
    BY <1>2 DEF CountingOK
  <2>6. /\ x = 1 => LatestSuccesses' = (LatestSuccesses \ {g}) \cup {m}
        /\ x # 1 => LatestSuccesses' = LatestSuccesses \ {g}
    BY <1>11, <1>12 DEF LatestSuccesses
  <2>7. /\ Cardinality(LatestSuccesses) \in Nat /\ Cardinality(LatestSuccesses \ {g}) \in Nat
        /\ g \in LatestSuccesses => Cardinality(LatestSuccesses \ {g}) = Cardinality(LatestSuccesses) - 1
        /\ g \notin LatestSuccesses => Cardinality(LatestSuccesses \ {g}) = Cardinality(LatestSuccesses)
        /\ Cardinality((LatestSuccesses \ {g}) \cup {m}) = Cardinality(LatestSuccesses \ {g}) + 1
    BY <1>10, <2>2, <2>3, SlidingCount
  <2> HIDE DEF full, old
  <2>8. One(full /\ old) = IF g \in LatestSuccesses THEN 1 ELSE 0
    BY <2>4 DEF One
  <2>9. Cardinality(LatestSuccesses') = Cardinality(LatestSuccesses \ {g}) + One(x = 1)
    BY <2>6, <2>7 DEF One
  <2> QED  BY <2>5, <2>7, <2>8, <2>9
<1>15. counting'.failures = Cardinality(LatestFailures')
  <2>1. LatestFailures \subseteq Latest
    BY DEF LatestFailures
  <2>2. IsFiniteSet(LatestFailures)
    BY <1>3, <2>1, FS_Subset
  <2>3. m \notin LatestFailures /\ Cardinality(LatestFailures) \in Nat
    BY <1>10, <2>1, <2>2, FS_CardinalityType
  <2>4. g \in LatestFailures <=> full /\ ~old
    BY <1>6, <1>9, <1>10 DEF LatestFailures
  <2>5. counting'.failures = Cardinality(LatestFailures) - One(full /\ ~old) + One(~(x = 1))
    BY <1>2 DEF CountingOK
  <2>6. /\ ~(x = 1) => LatestFailures' = (LatestFailures \ {g}) \cup {m}
        /\ x = 1 => LatestFailures' = LatestFailures \ {g}
    BY <1>11, <1>12 DEF LatestFailures
  <2>7. /\ Cardinality(LatestFailures) \in Nat /\ Cardinality(LatestFailures \ {g}) \in Nat
        /\ g \in LatestFailures => Cardinality(LatestFailures \ {g}) = Cardinality(LatestFailures) - 1
        /\ g \notin LatestFailures => Cardinality(LatestFailures \ {g}) = Cardinality(LatestFailures)
        /\ Cardinality((LatestFailures \ {g}) \cup {m}) = Cardinality(LatestFailures \ {g}) + 1
    BY <1>10, <2>2, <2>3, SlidingCount
  <2> HIDE DEF full, old
  <2>8. One(full /\ ~old) = IF g \in LatestFailures THEN 1 ELSE 0
    BY <2>4 DEF One
  <2>9. Cardinality(LatestFailures') = Cardinality(LatestFailures \ {g}) + One(~(x = 1))
    <3>1. CASE x = 1
      <4>1. Cardinality(LatestFailures') = Cardinality(LatestFailures \ {g})
        BY <2>6, <3>1
      <4>2. One(~(x = 1)) = 0
        BY <3>1 DEF One
      <4> QED  BY <2>7, <4>1, <4>2
    <3>2. CASE ~(x = 1)
      BY <2>6, <2>7, <3>2 DEF One
    <3> QED  BY <3>1, <3>2
  <2> QED  BY <2>5, <2>7, <2>8, <2>9
<1> QED  BY <1>1, <1>7, <1>8, <1>13, <1>14, <1>15 DEF CountingOK

-----------------------------------------------------------------------------
(***************************************************************************)
(* The bucketed window.                                                    *)
(***************************************************************************)
\* Induction up to n.
LEMMA InductionUpTo ==
  ASSUME NEW n \in Nat, NEW S \in SUBSET Nat, 0 \in S, \A i \in S : i < n => i + 1 \in S
  PROVE  \A i \in 0 .. n : i \in S
<1> DEFINE T == {i \in Nat : i <= n => i \in S}
<1>1. T \in SUBSET Nat /\ 0 \in T
  OBVIOUS
<1>2. ASSUME NEW i \in T PROVE i + 1 \in T
  OBVIOUS
<1>3. T = Nat
  <2> HIDE DEF T
  <2> QED  BY <1>1, <1>2, Induction
<1> QED  BY <1>3

Fields == {"successes", "failures"}

Bucket(i) == history[i].at \div BucketNanos

Hits(field) ==
  {i \in 1 .. Len(history) : IF field = "successes" THEN history[i].x = 1 ELSE history[i].x # 1}

In(field, t) == {i \in Hits(field) : Bucket(i) = t}
After(field, t) == {i \in Hits(field) : Bucket(i) > t}

Counts == [successes : Int, failures : Int]

\* The window w has the results that were recorded, each in the bucket of its time.
Holds(w) ==
  /\ w \in [buckets : [0 .. BucketCount - 1 -> Counts], summary : Counts, headTime : Nat]
  /\ \A i \in 1 .. Len(history) : Bucket(i) <= w.headTime
  /\ \A field \in Fields, t \in w.headTime - BucketCount + 1 .. w.headTime :
       w.buckets[t % BucketCount][field] = Cardinality(In(field, t))
  /\ \A field \in Fields :
       w.summary[field] = Cardinality(After(field, w.headTime - BucketCount))

TimedOK == Holds(timed) /\ timed.headTime <= clock \div BucketNanos

\* Every set of recorded results is finite.
LEMMA HitsFinite ==
  ASSUME HistoryOK
  PROVE  /\ \A i \in 1 .. Len(history) : Bucket(i) \in Nat
         /\ \A field : \A S \in SUBSET Hits(field) : IsFiniteSet(S) /\ Cardinality(S) \in Nat
<1>1. Len(history) \in Nat /\ BucketNanos \in Nat \ {0}
  BY WindowsConstants DEF HistoryOK
<1>2. \A i \in 1 .. Len(history) : history[i].at \in Nat
  <2>1. \A i \in 1 .. Len(history) : history[i] \in Samples
    BY DEF HistoryOK
  <2> QED  BY <2>1 DEF Samples
<1>3. \A i \in 1 .. Len(history) : Bucket(i) \in Nat
  BY <1>1, <1>2, Division DEF Bucket
<1>4. IsFiniteSet(1 .. Len(history))
  BY <1>1, FS_Interval
<1>5. \A S \in SUBSET (1 .. Len(history)) : IsFiniteSet(S) /\ Cardinality(S) \in Nat
  BY <1>4, FS_Subset, FS_CardinalityType
<1>6. \A field : Hits(field) \subseteq 1 .. Len(history)
  BY DEF Hits
<1> QED  BY <1>3, <1>5, <1>6

\* What the buckets that are moved over hold: the results of the oldest times.
LEMMA RemovedIsOldest ==
  ASSUME HistoryOK, Holds(timed), NEW field \in Fields, NEW moves \in 0 .. BucketCount
  PROVE  LET first == timed.headTime - BucketCount
         IN Removed(moves, field) =
              Cardinality({i \in Hits(field) : Bucket(i) > first /\ Bucket(i) <= first + moves})
<1> DEFINE first == timed.headTime - BucketCount
           Old(k) == {i \in Hits(field) : Bucket(i) > first /\ Bucket(i) <= first + k}
           Loop(f) == [i \in 0 .. moves |->
                         IF i = 0 THEN 0 ELSE f[i - 1] + timed.buckets[MovedTo(i)][field]]
           F == CHOOSE f : f = Loop(f)
           G == [k \in 0 .. moves |-> Cardinality(Old(k))]
<1>1. /\ BucketCount \in Nat \ {0} /\ timed.headTime \in Nat /\ first \in Int /\ moves \in Nat
      /\ \A i \in Hits(field) : Bucket(i) \in Nat
  BY WindowsConstants, HitsFinite DEF Holds, Hits
<1>2. Cardinality(Old(0)) = 0
  <2>1. Old(0) = {}
    BY <1>1
  <2> HIDE DEF Old
  <2> QED  BY <2>1, FS_EmptySet
<1>3. ASSUME NEW k \in 1 .. moves
      PROVE  Cardinality(Old(k)) = Cardinality(Old(k - 1)) + timed.buckets[MovedTo(k)][field]
  <2>1. PICK t \in Int : t = first + k
    BY <1>1
  <2>2. /\ t \in timed.headTime - BucketCount + 1 .. timed.headTime
        /\ timed.headTime + k = t + BucketCount
    BY <1>1, <2>1
  <2>3. MovedTo(k) = t % BucketCount
    BY <1>1, <2>2, SlotAgain DEF MovedTo
  <2>4. timed.buckets[MovedTo(k)][field] = Cardinality(In(field, t))
    BY <2>2, <2>3 DEF Holds
  <2>5. Old(k) = Old(k - 1) \cup In(field, t) /\ Old(k - 1) \cap In(field, t) = {}
    BY <1>1, <2>1 DEF In
  <2>6. Old(k - 1) \in SUBSET Hits(field) /\ In(field, t) \in SUBSET Hits(field)
    BY DEF In
  <2> HIDE DEF Old
  <2>7. /\ IsFiniteSet(Old(k - 1)) /\ Cardinality(Old(k - 1)) \in Nat
        /\ IsFiniteSet(In(field, t)) /\ Cardinality(In(field, t)) \in Nat
    BY <2>6, HitsFinite
  <2>8. Cardinality(Old(k - 1) \cap In(field, t)) = 0
    BY <2>5, FS_EmptySet
  <2>9. Cardinality(Old(k - 1) \cup In(field, t)) = Cardinality(Old(k - 1))
          + Cardinality(In(field, t)) - Cardinality(Old(k - 1) \cap In(field, t))
    BY <2>7, FS_Union
  <2> QED  BY <2>4, <2>5, <2>7, <2>8, <2>9
<1> HIDE DEF Old
<1>4. \A k \in 0 .. moves : G[k] = Cardinality(Old(k))
  OBVIOUS
<1>5. \A k \in 1 .. moves : k - 1 \in 0 .. moves /\ k \in 0 .. moves
  BY <1>1
<1>6. \A k \in 1 .. moves : G[k] = G[k - 1] + timed.buckets[MovedTo(k)][field]
  BY <1>3, <1>4, <1>5
<1>7. G[0] = 0
  BY <1>1, <1>2, <1>4
<1>8. G = [k \in 0 .. moves |-> G[k]]
  OBVIOUS
<1> HIDE DEF G
<1>9. G = Loop(G)
  <2>1. \A k \in 0 .. moves :
          G[k] = IF k = 0 THEN 0 ELSE G[k - 1] + timed.buckets[MovedTo(k)][field]
    BY <1>1, <1>6, <1>7
  <2> QED  BY <1>8, <2>1
<1>10. F = Loop(F)
  <2> HIDE DEF Loop
  <2> QED  BY <1>9, Zenon
<1>11. Removed(moves, field) = F[moves]
  BY DEF Removed
<1> HIDE DEF F
<1>12. /\ F[0] = 0
       /\ \A k \in 1 .. moves : F[k] = F[k - 1] + timed.buckets[MovedTo(k)][field]
  BY <1>1, <1>5, <1>10
<1>13. \A k \in 0 .. moves : F[k] = G[k]
  <2> DEFINE S == {k \in Nat : F[k] = G[k]}
  <2>1. S \in SUBSET Nat /\ 0 \in S
    BY <1>7, <1>12
  <2>2. ASSUME NEW k \in S, k < moves PROVE k + 1 \in S
    <3>1. k + 1 \in 1 .. moves /\ (k + 1) - 1 = k /\ F[k] = G[k] /\ k + 1 \in Nat
      BY <1>1, <2>2
    <3> QED  BY <1>6, <1>12, <3>1
  <2>3. \A k \in 0 .. moves : k \in S
    <3> HIDE DEF S
    <3> QED  BY <1>1, <2>1, <2>2, InductionUpTo
  <2> QED  BY <2>3
<1>14. moves \in 0 .. moves
  BY <1>1
<1> QED  BY <1>4, <1>11, <1>13, <1>14 DEF Old

\* Expiring moves the window to the present and leaves out exactly what is too old for it.
LEMMA ExpireHolds ==
  ASSUME HistoryOK, TimedOK
  PROVE  Holds(ExpireBuckets) /\ ExpireBuckets.headTime = clock \div BucketNanos
<1>1. PICK newHead \in Nat : newHead = clock \div BucketNanos
  BY WindowsConstants, Division DEF HistoryOK
<1>2. PICK head0 \in Nat : head0 = timed.headTime
  BY DEF TimedOK, Holds
<1>3. BucketCount \in Nat \ {0} /\ head0 <= newHead
      /\ \A i \in 1 .. Len(history) : Bucket(i) \in Nat /\ Bucket(i) <= head0
  BY <1>1, <1>2, WindowsConstants, HitsFinite DEF TimedOK, Holds
<1>4. CASE ~(newHead > head0)
  <2>1. ExpireBuckets = timed
    BY <1>1, <1>2, <1>4 DEF ExpireBuckets
  <2>2. newHead = head0
    BY <1>3, <1>4
  <2> QED  BY <1>1, <1>2, <2>1, <2>2 DEF TimedOK
<1>5. CASE newHead > head0
  <2>1. PICK moves \in 0 .. BucketCount :
           /\ moves = BucketsToMove(newHead)
           /\ \/ moves = newHead - head0 /\ moves < BucketCount
              \/ moves = BucketCount /\ newHead - head0 >= BucketCount
    BY <1>2, <1>3, <1>5 DEF BucketsToMove
  <2>2. PICK w : w = ExpireBuckets
    OBVIOUS
  <2>3. /\ w.headTime = newHead
        /\ w.buckets = [b \in 0 .. BucketCount - 1 |->
                          IF \E i \in 1 .. moves : b = MovedTo(i) THEN NoResults
                                                                 ELSE timed.buckets[b]]
        /\ w.summary = [successes |-> timed.summary.successes - Removed(moves, "successes"),
                        failures |-> timed.summary.failures - Removed(moves, "failures")]
        /\ w = [buckets |-> w.buckets, summary |-> w.summary, headTime |-> w.headTime]
    BY <1>1, <1>2, <1>5, <2>1, <2>2 DEF ExpireBuckets
  <2>4. ASSUME NEW field \in Fields
        PROVE  /\ Removed(moves, field) \in Int /\ timed.summary[field] \in Int
               /\ timed.summary[field] - Removed(moves, field)
                    = Cardinality(After(field, newHead - BucketCount))
    <3> DEFINE first == head0 - BucketCount
               Old == {i \in Hits(field) : Bucket(i) > first /\ Bucket(i) <= first + moves}
               Kept == After(field, newHead - BucketCount)
    <3>1. Removed(moves, field) = Cardinality(Old)
      BY <1>2, <2>1, RemovedIsOldest DEF TimedOK
    <3>2. timed.summary[field] = Cardinality(After(field, first))
      BY <1>2 DEF TimedOK, Holds
    <3>3. \A i \in Hits(field) : Bucket(i) \in Nat /\ Bucket(i) <= head0
      BY <1>3 DEF Hits
    <3>4. After(field, first) = Old \cup Kept /\ Old \cap Kept = {}
      BY <1>3, <2>1, <3>3 DEF After
    <3>5. Old \in SUBSET Hits(field) /\ Kept \in SUBSET Hits(field)
      BY DEF After
    <3> HIDE DEF Old, Kept
    <3>6. IsFiniteSet(Old) /\ Cardinality(Old) \in Nat /\ IsFiniteSet(Kept) /\ Cardinality(Kept) \in Nat
      BY <3>5, HitsFinite
    <3>7. Cardinality(Old \cap Kept) = 0
      BY <3>4, FS_EmptySet
    <3>8. Cardinality(Old \cup Kept) = Cardinality(Old) + Cardinality(Kept) - Cardinality(Old \cap Kept)
      BY <3>6, FS_Union
    <3>9. Cardinality(After(field, first)) = Cardinality(Old \cup Kept)
      BY <3>4
    <3>10. /\ Removed(moves, field) \in Int /\ timed.summary[field] \in Int
           /\ timed.summary[field] - Removed(moves, field) = Cardinality(Kept)
      BY <3>1, <3>2, <3>6, <3>7, <3>8, <3>9
    <3> QED  BY <3>10 DEF Kept
  <2>5. /\ w.summary \in Counts
        /\ \A field \in Fields : w.summary[field] = Cardinality(After(field, newHead - BucketCount))
    <3>1. "successes" \in Fields /\ "failures" \in Fields
      BY DEF Fields
    <3>2. /\ timed.summary.successes - Removed(moves, "successes") \in Int
          /\ timed.summary.failures - Removed(moves, "failures") \in Int
      BY <2>4, <3>1
    <3>3. w.summary \in Counts
      BY <2>3, <3>2 DEF Counts
    <3>4. w.summary["successes"] = Cardinality(After("successes", newHead - BucketCount))
      BY <2>3, <2>4, <3>1
    <3>5. w.summary["failures"] = Cardinality(After("failures", newHead - BucketCount))
      BY <2>3, <2>4, <3>1
    <3> QED  BY <3>3, <3>4, <3>5 DEF Fields
  <2>6. w.buckets \in [0 .. BucketCount - 1 -> Counts]
    <3>1. NoResults \in Counts
      BY DEF NoResults, Counts
    <3>2. timed.buckets \in [0 .. BucketCount - 1 -> Counts]
      BY DEF TimedOK, Holds
    <3> QED  BY <2>3, <3>1, <3>2
  <2>7. ASSUME NEW field \in Fields, NEW t \in newHead - BucketCount + 1 .. newHead
        PROVE  w.buckets[t % BucketCount][field] = Cardinality(In(field, t))
    <3>1. PICK b \in 0 .. BucketCount - 1 : b = t % BucketCount
      BY <1>3, Remainder
    <3>2. CASE t <= head0
      <4>1. moves = newHead - head0 /\ t \in head0 - BucketCount + 1 .. head0
        BY <1>3, <1>5, <2>1, <3>2
      <4>2. ASSUME NEW i \in 1 .. moves, b = MovedTo(i) PROVE FALSE
        <5>1. PICK u \in Int : u = head0 + i
          BY <1>3
        <5>2. t % BucketCount = u % BucketCount
          BY <1>2, <3>1, <4>2, <5>1 DEF MovedTo
        <5>3. t \in Int /\ t < u /\ ~(t + BucketCount <= u)
          BY <1>3, <3>2, <4>1, <5>1
        <5>4. t + BucketCount <= u
          BY <1>3, <5>2, <5>3, SameSlot
        <5> QED  BY <5>3, <5>4
      <4>3. w.buckets[b] = timed.buckets[b]
        BY <2>3, <4>2
      <4>4. timed.buckets[t % BucketCount][field] = Cardinality(In(field, t))
        BY <1>2, <4>1 DEF TimedOK, Holds
      <4> QED  BY <3>1, <4>3, <4>4
    <3>3. CASE t > head0
      <4>1. \E i \in 1 .. moves : b = MovedTo(i)
        <5>1. CASE moves = newHead - head0
          <6>1. PICK i \in 1 .. moves : t = head0 + i
            <7>1. t - head0 \in 1 .. moves /\ t = head0 + (t - head0)
              BY <1>3, <3>3, <5>1
            <7> QED  BY <7>1
          <6> QED  BY <1>2, <3>1, <6>1 DEF MovedTo
        <5>2. CASE moves = BucketCount
          <6>1. PICK a \in Int : a = head0 + BucketCount
            BY <1>3
          <6>2. PICK j \in 0 .. BucketCount - 1 : (a - j) % BucketCount = b
            BY <1>3, SlotMet
          <6>3. BucketCount - j \in 1 .. moves /\ a - j = head0 + (BucketCount - j)
            BY <1>3, <5>2, <6>1
          <6> QED  BY <1>2, <6>2, <6>3 DEF MovedTo
        <5> QED  BY <2>1, <5>1, <5>2
      <4>2. w.buckets[b] = NoResults
        BY <2>3, <4>1
      <4>3. w.buckets[b][field] = 0
        BY <4>2 DEF NoResults, Fields
      <4>4. In(field, t) = {}
        BY <1>3, <3>3 DEF In, Hits
      <4> QED  BY <3>1, <4>3, <4>4, FS_EmptySet
    <3> QED  BY <1>3, <3>2, <3>3
  <2>8. \A i \in 1 .. Len(history) : Bucket(i) <= newHead
    BY <1>3, <1>5
  <2>9. w \in [buckets : [0 .. BucketCount - 1 -> Counts], summary : Counts, headTime : Nat]
    BY <2>3, <2>5, <2>6
  <2>10. Holds(w)
    BY <2>3, <2>5, <2>7, <2>8, <2>9 DEF Holds
  <2> QED  BY <1>1, <2>2, <2>3, <2>10
<1> QED  BY <1>4, <1>5

\* Recording counts the result in the bucket of the present and in the summary.
LEMMA TimedStep ==
  ASSUME HistoryOK, TimedOK, NEW x \in XSamples, NEW y \in YSamples, Add(x, y)
  PROVE  TimedOK'
<1> DEFINE own == IF x = 1 THEN "successes" ELSE "failures"
           types == [buckets : [0 .. BucketCount - 1 -> Counts], summary : Counts, headTime : Nat]
<1>1. PICK n \in Nat : n = Len(history)
  BY HistoryStep
<1>2. PICK h \in Nat : h = clock \div BucketNanos
  BY WindowsConstants, Division DEF HistoryOK
<1>3. PICK w : w = ExpireBuckets
  OBVIOUS
<1>4. Holds(w) /\ w.headTime = h
  BY <1>2, <1>3, ExpireHolds
<1>5. PICK new : new = timed'
  OBVIOUS
<1>6. PICK slot \in 0 .. BucketCount - 1 : slot = h % BucketCount
  BY WindowsConstants, Remainder
<1>7. PICK f \in Fields : f = own
  BY DEF Fields
<1>8. new = [w EXCEPT !.buckets[slot][f] = @ + 1, !.summary[f] = @ + 1]
  BY <1>3, <1>4, <1>5, <1>6, <1>7 DEF Add, RecordTimed
<1>9. w \in types
  BY <1>4 DEF Holds
<1>10. /\ new \in types /\ new.headTime = h
       /\ new.summary[f] = w.summary[f] + 1
       /\ \A g \in Fields : g # f => new.summary[g] = w.summary[g]
       /\ new.buckets[slot][f] = w.buckets[slot][f] + 1
       /\ \A g \in Fields, b \in 0 .. BucketCount - 1 :
            g # f \/ b # slot => new.buckets[b][g] = w.buckets[b][g]
  <2>1. PICK B \in [0 .. BucketCount - 1 -> Counts], S \in Counts : B = w.buckets /\ S = w.summary
    BY <1>9
  <2>2. /\ new.buckets = [B EXCEPT ![slot] = [B[slot] EXCEPT ![f] = @ + 1]]
        /\ new.summary = [S EXCEPT ![f] = @ + 1] /\ new.headTime = h
        /\ new = [buckets |-> new.buckets, summary |-> new.summary, headTime |-> new.headTime]
    BY <1>4, <1>8, <1>9, <2>1
  <2>3. \A C \in Counts : [C EXCEPT ![f] = @ + 1] \in Counts
    BY DEF Fields, Counts
  <2>4. \A C \in Counts : /\ [C EXCEPT ![f] = @ + 1][f] = C[f] + 1
                         /\ \A g \in Fields : g # f => [C EXCEPT ![f] = @ + 1][g] = C[g]
    BY DEF Fields, Counts
  <2>5. new.summary \in Counts /\ new.buckets \in [0 .. BucketCount - 1 -> Counts]
    <3>1. new.summary \in Counts
      BY <2>2, <2>3
    <3>2. PICK C \in Counts : C = [B[slot] EXCEPT ![f] = @ + 1]
      BY <2>3
    <3>3. new.buckets = [B EXCEPT ![slot] = C]
      BY <2>2, <3>2
    <3> QED  BY <3>1, <3>3
  <2>6. new \in types
    BY <2>2, <2>5
  <2>7. B[slot] \in Counts /\ new.buckets[slot] = [B[slot] EXCEPT ![f] = @ + 1]
        /\ \A b \in 0 .. BucketCount - 1 : b # slot => new.buckets[b] = B[b]
    BY <2>2
  <2> HIDE DEF types
  <2> QED  BY <2>1, <2>2, <2>4, <2>6, <2>7
<1>11. /\ Len(history') = n + 1 /\ clock' = clock
       /\ \A i \in 1 .. n : history'[i] = history[i]
       /\ history'[n + 1].x = x /\ history'[n + 1].at = clock
  <2>1. history'[n + 1] = [x |-> x, y |-> y, at |-> clock]
    BY <1>1, HistoryStep
  <2> QED  BY <1>1, <2>1, HistoryStep
<1>12. /\ \A i \in 1 .. n : Bucket(i)' = Bucket(i) /\ Bucket(i) \in Nat /\ Bucket(i) <= h
       /\ Bucket(n + 1)' = h
  BY <1>1, <1>2, <1>4, <1>11, HitsFinite DEF Bucket, Holds
<1>13. /\ Hits(f)' = Hits(f) \cup {n + 1}
       /\ \A g \in Fields : Hits(g) \subseteq 1 .. n /\ (g # f => Hits(g)' = Hits(g))
  BY <1>1, <1>7, <1>11 DEF Hits, Fields
<1>14. n + 1 \notin 1 .. n
  OBVIOUS
<1>15. PICK m : m = n + 1
  OBVIOUS
<1>16. ASSUME NEW A, NEW B, A \in SUBSET Hits(f), B = A \cup {m}
       PROVE  Cardinality(B) = Cardinality(A) + 1
  <2>1. m \notin A
    BY <1>13, <1>14, <1>15, <1>16
  <2>2. IsFiniteSet(A)
    BY <1>16, HitsFinite
  <2> QED  BY <1>16, <2>1, <2>2, FS_AddElement
<1>17. ASSUME NEW g \in Fields, NEW t \in h - BucketCount + 1 .. h
       PROVE  new.buckets[t % BucketCount][g] = Cardinality(In(g, t)')
  <2>1. PICK b \in 0 .. BucketCount - 1 : b = t % BucketCount
    BY WindowsConstants, Remainder
  <2>2. w.buckets[b][g] = Cardinality(In(g, t))
    BY <1>4, <2>1 DEF Holds
  <2>3. b = slot => t = h
    <3> SUFFICES ASSUME b = slot, t # h PROVE FALSE
      OBVIOUS
    <3>1. t \in Int /\ h \in Int /\ t < h /\ ~(t + BucketCount <= h) /\ BucketCount \in Nat \ {0}
      BY WindowsConstants
    <3>2. t % BucketCount = h % BucketCount
      BY <1>6, <2>1
    <3>3. t + BucketCount <= h
      BY <3>1, <3>2, SameSlot
    <3> QED  BY <3>1, <3>3
  <2>4. CASE g = f /\ t = h
    <3>1. In(g, t)' = In(g, t) \cup {m}
      BY <1>12, <1>13, <1>15, <2>4 DEF In
    <3>2. In(g, t) \in SUBSET Hits(f)
      BY <2>4 DEF In
    <3>3. Cardinality(In(g, t)') = Cardinality(In(g, t)) + 1
      BY <1>16, <3>1, <3>2
    <3> QED  BY <1>6, <1>10, <2>1, <2>2, <2>4, <3>3
  <2>5. CASE ~(g = f /\ t = h)
    <3>1. In(g, t)' = In(g, t)
      BY <1>12, <1>13, <2>5 DEF In
    <3>2. new.buckets[b][g] = w.buckets[b][g]
      BY <1>10, <2>3, <2>5
    <3> QED  BY <2>1, <2>2, <3>1, <3>2
  <2> QED  BY <2>4, <2>5
<1>18. ASSUME NEW g \in Fields
       PROVE  new.summary[g] = Cardinality(After(g, h - BucketCount)')
  <2>1. PICK t \in Int : t = h - BucketCount
    BY WindowsConstants
  <2>2. w.summary[g] = Cardinality(After(g, t)) /\ h > t
    BY <1>4, <2>1, WindowsConstants DEF Holds
  <2>3. CASE g = f
    <3>1. After(g, t)' = After(g, t) \cup {m}
      BY <1>12, <1>13, <1>15, <2>2, <2>3 DEF After
    <3>2. After(g, t) \in SUBSET Hits(f)
      BY <2>3 DEF After
    <3>3. Cardinality(After(g, t)') = Cardinality(After(g, t)) + 1
      BY <1>16, <3>1, <3>2
    <3> QED  BY <1>10, <2>1, <2>2, <2>3, <3>3
  <2>4. CASE g # f
    <3>1. After(g, t)' = After(g, t)
      BY <1>12, <1>13, <2>4 DEF After
    <3> QED  BY <1>10, <2>1, <2>2, <2>4, <3>1
  <2> QED  BY <2>3, <2>4
<1>19. \A i \in 1 .. n + 1 : Bucket(i)' <= h
  BY <1>12
<1>20. Holds(timed)'
  BY <1>5, <1>10, <1>11, <1>17, <1>18, <1>19 DEF Holds
<1>21. timed'.headTime <= clock' \div BucketNanos
  BY <1>2, <1>5, <1>10, <1>11
<1> QED  BY <1>20, <1>21 DEF TimedOK

-----------------------------------------------------------------------------
(***************************************************************************)
(* Totals of the last elements of a sequence of integers, by prefix sums.  *)
(***************************************************************************)
PrefixSums(f, s) ==
  /\ f[0] = 0
  /\ \A i \in 0 .. Len(s) : f[i] \in Int
  /\ \A i \in 1 .. Len(s) : f[i] = f[i - 1] + s[i]

\* Every sequence has its prefix sums.
LEMMA PrefixSumsExist == ASSUME NEW s \in Seq(Int) PROVE \E f : PrefixSums(f, s)
<1> DEFINE Upto(f, k) == /\ f[0] = 0
                         /\ \A i \in 0 .. k : f[i] \in Int
                         /\ \A i \in 1 .. k : f[i] = f[i - 1] + s[i]
           S == {k \in Nat : k <= Len(s) => \E f : Upto(f, k)}
<1>1. Len(s) \in Nat /\ \A i \in 1 .. Len(s) : s[i] \in Int
  OBVIOUS
<1>2. 0 \in S
  <2>1. Upto([i \in 0 .. 0 |-> 0], 0)
    OBVIOUS
  <2> HIDE DEF Upto
  <2> QED  BY <2>1
<1>3. ASSUME NEW k \in S PROVE k + 1 \in S
  <2> SUFFICES ASSUME k + 1 <= Len(s) PROVE \E f : Upto(f, k + 1)
    OBVIOUS
  <2>1. k \in Nat /\ k <= Len(s) /\ k + 1 \in 1 .. Len(s)
    BY <1>1
  <2>2. PICK f : Upto(f, k)
    BY <1>3, <2>1
  <2> DEFINE g == [i \in 0 .. k + 1 |-> IF i = k + 1 THEN f[k] + s[k + 1] ELSE f[i]]
  <2>3. f[k] \in Int /\ s[k + 1] \in Int
    BY <1>1, <2>1, <2>2
  <2>4. /\ g[k + 1] = f[k] + s[k + 1] /\ \A i \in 0 .. k : g[i] = f[i]
        /\ (k + 1) - 1 = k
    BY <2>1
  <2> HIDE DEF g
  <2>5. \A i \in 0 .. k + 1 : i = k + 1 \/ i \in 0 .. k
    BY <2>1
  <2>6. \A i \in 1 .. k + 1 : i = k + 1 \/ (i \in 1 .. k /\ i - 1 \in 0 .. k /\ i \in 0 .. k)
    BY <2>1
  <2>7. g[0] = 0 /\ k \in 0 .. k
    BY <2>1, <2>2, <2>4
  <2>8. ASSUME NEW i \in 0 .. k + 1 PROVE g[i] \in Int
    <3>1. CASE i = k + 1
      BY <2>3, <2>4, <3>1
    <3>2. CASE i \in 0 .. k
      BY <2>2, <2>4, <3>2
    <3> QED  BY <2>5, <3>1, <3>2
  <2>9. \A i \in 1 .. k + 1 : g[i] = g[i - 1] + s[i]
    BY <2>2, <2>4, <2>6, <2>7
  <2> QED  BY <2>7, <2>8, <2>9
<1>4. S = Nat
  <2>1. S \in SUBSET Nat
    OBVIOUS
  <2> HIDE DEF S
  <2> QED  BY <1>2, <1>3, <2>1, Induction
<1>5. \E f : Upto(f, Len(s))
  BY <1>1, <1>4
<1> QED  BY <1>5 DEF PrefixSums

\* The total is the last of them.
LEMMA TotalIs ==
  ASSUME NEW s \in Seq(Int), NEW f, PrefixSums(f, s)
  PROVE  Total(s) = f[Len(s)]
<1> DEFINE n == Len(s)
           Loop(g) == [i \in 0 .. n |-> IF i = 0 THEN 0 ELSE g[i - 1] + s[i]]
           F == CHOOSE g : g = Loop(g)
           G == [i \in 0 .. n |-> f[i]]
<1>1. n \in Nat
  OBVIOUS
<1>2. \A i \in 1 .. n : i - 1 \in 0 .. n /\ i \in 0 .. n
  BY <1>1
<1>3. \A i \in 0 .. n : G[i] = f[i]
  OBVIOUS
<1>4. G[0] = 0 /\ \A i \in 1 .. n : G[i] = G[i - 1] + s[i]
  BY <1>1, <1>2, <1>3 DEF PrefixSums
<1>5. G = [i \in 0 .. n |-> G[i]]
  OBVIOUS
<1> HIDE DEF G
<1>6. G = Loop(G)
  <2>1. \A i \in 0 .. n : G[i] = IF i = 0 THEN 0 ELSE G[i - 1] + s[i]
    BY <1>1, <1>4
  <2> QED  BY <1>5, <2>1
<1>7. F = Loop(F)
  <2> HIDE DEF Loop
  <2> QED  BY <1>6, Zenon
<1>8. Total(s) = F[n]
  BY DEF Total
<1> HIDE DEF F
<1>9. F[0] = 0 /\ \A i \in 1 .. n : F[i] = F[i - 1] + s[i]
  BY <1>1, <1>2, <1>7
<1>10. \A i \in 0 .. n : F[i] = G[i]
  <2> DEFINE S == {i \in Nat : F[i] = G[i]}
  <2>1. S \in SUBSET Nat /\ 0 \in S
    BY <1>4, <1>9
  <2>2. ASSUME NEW i \in S, i < n PROVE i + 1 \in S
    <3>1. i + 1 \in 1 .. n /\ (i + 1) - 1 = i /\ F[i] = G[i] /\ i + 1 \in Nat
      BY <1>1, <2>2
    <3> QED  BY <1>4, <1>9, <3>1
  <2>3. \A i \in 0 .. n : i \in S
    <3> HIDE DEF S, n
    <3> QED  BY <1>1, <2>1, <2>2, InductionUpTo
  <2> QED  BY <2>3
<1>11. n \in 0 .. n
  BY <1>1
<1> QED  BY <1>3, <1>8, <1>10, <1>11

\* The elements of the last Capacity.
LEMMA LastElements ==
  ASSUME NEW V, NEW s \in Seq(V)
  PROVE  LET from == IF Len(s) > Capacity THEN Len(s) - Capacity ELSE 0
         IN /\ LastOf(s, Capacity) \in Seq(V) /\ from \in 0 .. Len(s)
            /\ Len(LastOf(s, Capacity)) = Len(s) - from
            /\ \A i \in 1 .. Len(s) - from : LastOf(s, Capacity)[i] = s[from + i]
<1>1. Len(s) \in Nat /\ Capacity \in Nat \ {0} /\ \A i \in 1 .. Len(s) : s[i] \in V
  BY WindowsConstants
<1>2. PICK from \in 0 .. Len(s) : from = IF Len(s) > Capacity THEN Len(s) - Capacity ELSE 0
  <2>1. (IF Len(s) > Capacity THEN Len(s) - Capacity ELSE 0) \in 0 .. Len(s)
    BY <1>1
  <2> QED  BY <2>1
<1>3. PICK a \in 1 .. Len(s) + 1 : a = from + 1
  BY <1>1
<1>4. LastOf(s, Capacity) = SubSeq(s, a, Len(s))
  BY <1>1, <1>2, <1>3 DEF LastOf
<1>5. /\ SubSeq(s, a, Len(s)) \in Seq(V)
      /\ Len(SubSeq(s, a, Len(s))) = IF a <= Len(s) THEN Len(s) - a + 1 ELSE 0
      /\ \A i \in 1 .. Len(s) - a + 1 : SubSeq(s, a, Len(s))[i] = s[a + i - 1]
  <2>1. \A i \in a .. Len(s) : s[i] \in V
    BY <1>1
  <2>2. a \in Int /\ Len(s) \in Int
    BY <1>1
  <2> QED  BY <2>1, <2>2, SubSeqProperties
<1>6. /\ (IF a <= Len(s) THEN Len(s) - a + 1 ELSE 0) = Len(s) - from
      /\ Len(s) - a + 1 = Len(s) - from
      /\ \A i \in 1 .. Len(s) - from : a + i - 1 = from + i
  BY <1>1, <1>3
<1> QED  BY <1>2, <1>4, <1>5, <1>6

\* The total of the last Capacity elements is a difference of prefix sums.
LEMMA TotalOfLast ==
  ASSUME NEW s \in Seq(Int), NEW f, PrefixSums(f, s), NEW n, n = Len(s)
  PROVE  Total(LastOf(s, Capacity)) = f[n] - f[IF n > Capacity THEN n - Capacity ELSE 0]
<1>1. n \in Nat
  OBVIOUS
<1>2. PICK from \in 0 .. n : from = IF n > Capacity THEN n - Capacity ELSE 0
  BY <1>1, LastElements
<1>3. PICK t \in Seq(Int) : t = LastOf(s, Capacity)
  BY LastElements
<1>4. Len(t) = n - from /\ \A i \in 1 .. n - from : t[i] = s[from + i]
  BY <1>1, <1>2, <1>3, LastElements
<1>5. /\ \A i \in 0 .. n : f[i] \in Int
      /\ \A i \in 1 .. n : f[i] = f[i - 1] + s[i]
  BY <1>1 DEF PrefixSums
<1> DEFINE g == [i \in 0 .. n - from |-> f[from + i] - f[from]]
<1>6. \A i \in 0 .. n - from : from + i \in 0 .. n /\ g[i] = f[from + i] - f[from]
  OBVIOUS
<1>7. \A i \in 1 .. n - from : /\ from + i \in 1 .. n /\ (from + i) - 1 = from + (i - 1)
                               /\ i - 1 \in 0 .. n - from /\ i \in 0 .. n - from
  OBVIOUS
<1> HIDE DEF g
<1>8. g[0] = 0
  <2>1. 0 \in 0 .. n - from /\ from + 0 = from
    OBVIOUS
  <2>2. g[0] = f[from] - f[from] /\ f[from] \in Int
    BY <1>5, <1>6, <2>1
  <2> QED  BY <2>2
<1>9. ASSUME NEW i \in 0 .. n - from PROVE g[i] \in Int
  <2>1. from + i \in 0 .. n /\ g[i] = f[from + i] - f[from]
    BY <1>6
  <2>2. f[from + i] \in Int /\ f[from] \in Int
    BY <1>5, <2>1
  <2> QED  BY <2>1, <2>2
<1>10. ASSUME NEW i \in 1 .. n - from PROVE g[i] = g[i - 1] + t[i]
  <2>1. f[from + i] = f[from + (i - 1)] + s[from + i]
    BY <1>5, <1>7
  <2>2. /\ g[i] = f[from + i] - f[from] /\ g[i - 1] = f[from + (i - 1)] - f[from]
        /\ t[i] = s[from + i]
    BY <1>4, <1>6, <1>7
  <2>3. f[from] \in Int /\ f[from + (i - 1)] \in Int /\ s[from + i] \in Int
    BY <1>1, <1>5, <1>6, <1>7
  <2> QED  BY <2>1, <2>2, <2>3
<1>11. PrefixSums(g, t)
  BY <1>4, <1>8, <1>9, <1>10 DEF PrefixSums
<1>12. Total(t) = g[n - from]
  BY <1>4, <1>11, TotalIs
<1>13. n - from \in 0 .. n - from /\ from + (n - from) = n
  OBVIOUS
<1>14. g[n - from] = f[n] - f[from]
  BY <1>6, <1>13
<1> QED  BY <1>1, <1>2, <1>3, <1>12, <1>14

\* One element more: it comes in, and the oldest of a full window goes out.
LEMMA SlidingTotal ==
  ASSUME NEW s \in Seq(Int), NEW t \in Seq(Int), Len(t) = Len(s) + 1,
         \A i \in 1 .. Len(s) : t[i] = s[i]
  PROVE  LET gone == IF Len(s) >= Capacity THEN s[Len(s) - Capacity + 1] ELSE 0
         IN /\ Total(LastOf(s, Capacity)) \in Int
            /\ Total(LastOf(t, Capacity)) = Total(LastOf(s, Capacity)) - gone + t[Len(s) + 1]
<1>1. PICK n \in Nat : n = Len(s)
  OBVIOUS
<1>2. PICK f : PrefixSums(f, t)
  BY PrefixSumsExist
<1>3. /\ f[0] = 0 /\ \A i \in 0 .. n + 1 : f[i] \in Int
      /\ \A i \in 1 .. n + 1 : f[i] = f[i - 1] + t[i]
  BY <1>1, <1>2 DEF PrefixSums
<1>4. /\ \A i \in 0 .. n : i \in 0 .. n + 1
      /\ \A i \in 1 .. n : i \in 1 .. n + 1 /\ t[i] = s[i]
  BY <1>1
<1>5. PrefixSums(f, s)
  BY <1>1, <1>3, <1>4 DEF PrefixSums
<1>6. PICK m \in Nat : m = n + 1 /\ m = Len(t)
  BY <1>1
<1>7. Total(LastOf(t, Capacity)) = f[m] - f[IF m > Capacity THEN m - Capacity ELSE 0]
  BY <1>2, <1>6, TotalOfLast
<1>8. Total(LastOf(s, Capacity)) = f[n] - f[IF n > Capacity THEN n - Capacity ELSE 0]
  BY <1>1, <1>5, TotalOfLast
<1>9. /\ n + 1 \in 1 .. n + 1 /\ n \in 0 .. n + 1 /\ (n + 1) - 1 = n /\ Capacity \in Nat \ {0}
  BY WindowsConstants
<1>10. f[n + 1] = f[n] + t[n + 1] /\ f[n] \in Int /\ f[n + 1] \in Int /\ t[n + 1] \in Int
  BY <1>1, <1>3, <1>9
<1>11. CASE n >= Capacity
  <2>1. PICK k \in 0 .. n : k = n - Capacity
    BY <1>9, <1>11
  <2>2. k + 1 \in 1 .. n + 1 /\ k + 1 \in 1 .. n /\ (k + 1) - 1 = k /\ k \in 0 .. n + 1
    BY <1>9, <2>1
  <2>3. f[k + 1] = f[k] + t[k + 1] /\ f[k] \in Int /\ t[k + 1] = s[k + 1] /\ s[k + 1] \in Int
    BY <1>1, <1>3, <1>4, <2>2
  <2>4. /\ (IF m > Capacity THEN m - Capacity ELSE 0) = k + 1
        /\ (IF n > Capacity THEN n - Capacity ELSE 0) = k
        /\ n - Capacity + 1 = k + 1
    BY <1>6, <1>9, <1>11, <2>1
  <2>5. /\ Total(LastOf(t, Capacity)) = f[n + 1] - f[k + 1]
        /\ Total(LastOf(s, Capacity)) = f[n] - f[k]
    BY <1>6, <1>8, <1>7, <2>4
  <2>6. (IF Len(s) >= Capacity THEN s[Len(s) - Capacity + 1] ELSE 0) = s[k + 1]
    BY <1>1, <1>11, <2>4
  <2>7. f[n] - f[k] \in Int /\ f[n + 1] - f[k + 1] = (f[n] - f[k]) - s[k + 1] + t[n + 1]
    <3>1. PICK a \in Int, b \in Int, c \in Int, d \in Int :
            a = f[n] /\ b = f[k] /\ c = s[k + 1] /\ d = t[n + 1]
      BY <1>10, <2>3
    <3>2. f[n + 1] = a + d /\ f[k + 1] = b + c
      BY <1>10, <2>3, <3>1
    <3>3. (a + d) - (b + c) = (a - b) - c + d
      OBVIOUS
    <3>4. f[n] - f[k] \in Int
      BY <3>1
    <3>5. f[n + 1] - f[k + 1] = (f[n] - f[k]) - s[k + 1] + t[n + 1]
      BY <3>1, <3>2, <3>3, Zenon
    <3> QED  BY <3>4, <3>5
  <2> QED  BY <1>1, <2>5, <2>6, <2>7
<1>12. CASE ~(n >= Capacity)
  <2>1. /\ (IF m > Capacity THEN m - Capacity ELSE 0) = 0
        /\ (IF n > Capacity THEN n - Capacity ELSE 0) = 0
    BY <1>6, <1>9, <1>12
  <2>2. /\ Total(LastOf(t, Capacity)) = f[n + 1] - f[0]
        /\ Total(LastOf(s, Capacity)) = f[n] - f[0]
    BY <1>6, <1>8, <1>7, <2>1
  <2> QED  BY <1>1, <1>3, <1>10, <1>12, <2>2
<1> QED  BY <1>11, <1>12

-----------------------------------------------------------------------------
(***************************************************************************)
(* The moving sums.                                                        *)
(***************************************************************************)
\* Functions on 1 .. n are sequences.
LEMMA FunctionIsSeq ==
  ASSUME NEW n \in Nat, NEW V, NEW f \in [1 .. n -> V]
  PROVE  f \in Seq(V) /\ Len(f) = n
<1>1. f \in Seq(V)
  BY SeqDef
<1>2. DOMAIN f = 1 .. n /\ DOMAIN f = 1 .. Len(f) /\ Len(f) \in Nat
  BY <1>1, LenProperties
<1> QED  BY <1>1, <1>2, ElementOfSeq

Squares(s) == [i \in 1 .. Len(s) |-> s[i] * s[i]]

SumOK(sum, s) ==
  /\ s \in Seq(Nat)
  /\ sum.samples \in [Indexes -> Nat]
  /\ sum.index = Len(s) % Capacity
  /\ sum.size = IF Len(s) < Capacity THEN Len(s) ELSE Capacity
  /\ RingHolds(sum.samples, s, Len(s))
  /\ sum.sumY = Total(LastOf(s, Capacity))
  /\ sum.sumSquares = Total(LastOf(Squares(s), Capacity))

\* The values, and their squares, are sequences of integers.
LEMMA SquaresSeq ==
  ASSUME NEW s \in Seq(Nat)
  PROVE  s \in Seq(Int) /\ Squares(s) \in Seq(Int) /\ Len(Squares(s)) = Len(s)
<1>1. PICK n \in Nat : n = Len(s)
  OBVIOUS
<1>2. \A i \in 1 .. n : s[i] \in Nat
  BY <1>1
<1>3. s \in [1 .. n -> Int] /\ Squares(s) \in [1 .. n -> Int]
  BY <1>1, <1>2, LenProperties DEF Squares
<1> QED  BY <1>1, <1>3, FunctionIsSeq

\* The ring of a sequence, one element on.
LEMMA RingStep ==
  ASSUME NEW V, NEW ring \in [Indexes -> V], NEW n \in Nat, NEW s, NEW t, t[n + 1] \in V,
         RingHolds(ring, s, n), \A i \in 1 .. n : t[i] = s[i]
  PROVE  /\ n >= Capacity => ring[n % Capacity] = s[n - Capacity + 1]
         /\ [ring EXCEPT ![n % Capacity] = t[n + 1]] \in [Indexes -> V]
         /\ RingHolds([ring EXCEPT ![n % Capacity] = t[n + 1]], t, n + 1)
<1>1. Capacity \in Nat \ {0}
  BY WindowsConstants
<1>2. PICK slot \in Indexes : slot = n % Capacity
  BY RingSlots
<1>3. PICK new \in [Indexes -> V] : new = [ring EXCEPT ![slot] = t[n + 1]]
  OBVIOUS
<1>4. n >= Capacity => ring[slot] = s[n - Capacity + 1]
  <2>1. n >= Capacity => n - Capacity + 1 \in 1 .. n /\ n - Capacity + 1 > n - Capacity
    BY <1>1
  <2>2. n >= Capacity => ((n - Capacity + 1) - 1) % Capacity = slot
    BY <1>2, <2>1, RingSlots
  <2> QED  BY <2>1, <2>2 DEF RingHolds
<1>5. ASSUME NEW i \in 1 .. n + 1, i > (n + 1) - Capacity PROVE new[(i - 1) % Capacity] = t[i]
  <2>1. PICK b \in Indexes : b = (i - 1) % Capacity
    BY RingSlots
  <2>2. CASE i = n + 1
    <3>1. b = slot
      BY <1>2, <2>1, <2>2
    <3> QED  BY <1>3, <2>1, <2>2, <3>1
  <2>3. CASE i # n + 1
    <3>1. i \in 1 .. n /\ i > n - Capacity /\ i # n - Capacity + 1
      BY <1>1, <1>5, <2>3
    <3>2. b # slot
      BY <1>2, <2>1, <3>1, RingSlots
    <3>3. ring[b] = s[i] /\ t[i] = s[i]
      BY <2>1, <3>1 DEF RingHolds
    <3> QED  BY <1>3, <2>1, <3>2, <3>3
  <2> QED  BY <2>2, <2>3
<1>6. RingHolds(new, t, n + 1)
  BY <1>5, Zenon DEF RingHolds
<1> QED  BY <1>2, <1>3, <1>4, <1>6

\* Add replaces the oldest value of a full ring in the sums.
LEMMA AddedStep ==
  ASSUME NEW sum, NEW s, SumOK(sum, s), NEW v \in Nat
  PROVE  /\ Full(sum, v) <=> v # 0 /\ Len(s) >= Capacity
         /\ Full(sum, v) => OldValue(sum, v) = s[Len(s) - Capacity + 1]
         /\ v = 0 => Added(sum, v) = sum
         /\ v # 0 => SumOK(Added(sum, v), Append(s, v))
<1>1. PICK n \in Nat : n = Len(s)
  BY DEF SumOK
<1>2. /\ Capacity \in Nat \ {0} /\ s \in Seq(Nat) /\ sum.samples \in [Indexes -> Nat]
      /\ sum.index = n % Capacity /\ sum.size = IF n < Capacity THEN n ELSE Capacity
      /\ RingHolds(sum.samples, s, n)
      /\ sum.sumY = Total(LastOf(s, Capacity)) /\ sum.sumSquares = Total(LastOf(Squares(s), Capacity))
  BY <1>1, WindowsConstants DEF SumOK
<1>3. PICK t \in Seq(Nat) : t = Append(s, v)
  <2>1. Append(s, v) \in Seq(Nat)
    BY <1>2
  <2> QED  BY <2>1
<1>4. Len(t) = n + 1 /\ t[n + 1] = v /\ \A i \in 1 .. n : t[i] = s[i]
  BY <1>1, <1>2, <1>3
<1>5. /\ n >= Capacity => sum.samples[n % Capacity] = s[n - Capacity + 1]
      /\ [sum.samples EXCEPT ![n % Capacity] = v] \in [Indexes -> Nat]
      /\ RingHolds([sum.samples EXCEPT ![n % Capacity] = v], t, n + 1)
  <2>1. PICK ring \in [Indexes -> Nat] : ring = sum.samples
    BY <1>2
  <2>2. RingHolds(ring, s, n) /\ t[n + 1] \in Nat
    BY <1>2, <1>4, <2>1
  <2>3. /\ n >= Capacity => ring[n % Capacity] = s[n - Capacity + 1]
        /\ [ring EXCEPT ![n % Capacity] = t[n + 1]] \in [Indexes -> Nat]
        /\ RingHolds([ring EXCEPT ![n % Capacity] = t[n + 1]], t, n + 1)
    BY <1>4, <2>2, RingStep
  <2> QED  BY <1>4, <2>1, <2>3
<1>6. Full(sum, v) <=> v # 0 /\ n >= Capacity
  BY <1>2 DEF Full
<1>7. Full(sum, v) => OldValue(sum, v) = s[n - Capacity + 1]
  BY <1>2, <1>5, <1>6 DEF OldValue
<1>8. ASSUME v # 0 PROVE SumOK(Added(sum, v), t)
  <2>1. PICK old : old = IF n >= Capacity THEN s[n - Capacity + 1] ELSE 0
    OBVIOUS
  <2>2. old = OldValue(sum, v)
    BY <1>6, <1>7, <1>8, <2>1 DEF OldValue
  <2>3. PICK new : new = Added(sum, v)
    OBVIOUS
  <2>4. /\ new.samples = [sum.samples EXCEPT ![n % Capacity] = v]
        /\ new.size = (IF n >= Capacity THEN sum.size ELSE sum.size + 1)
        /\ new.index = ((n % Capacity) + 1) % Capacity
        /\ new.sumY = sum.sumY - old + v
        /\ new.sumSquares = sum.sumSquares - old * old + v * v
    BY <1>2, <1>6, <1>8, <2>2, <2>3 DEF Added
  <2>5. new.size = IF n + 1 < Capacity THEN n + 1 ELSE Capacity
    BY <1>2, <2>4
  <2>6. new.index = (n + 1) % Capacity
    BY <2>4, RingSlots
  <2>7. s \in Seq(Int) /\ t \in Seq(Int) /\ Squares(s) \in Seq(Int) /\ Squares(t) \in Seq(Int)
        /\ Len(Squares(s)) = n /\ Len(Squares(t)) = n + 1
    BY <1>1, <1>2, <1>4, SquaresSeq
  <2>8. /\ Squares(t)[n + 1] = v * v /\ \A i \in 1 .. n : Squares(t)[i] = Squares(s)[i]
        /\ n >= Capacity => Squares(s)[n - Capacity + 1] = old * old
        /\ n < Capacity => old * old = 0 /\ old = 0
    <3>1. n + 1 \in 1 .. n + 1 /\ \A i \in 1 .. n : i \in 1 .. n + 1
      OBVIOUS
    <3>2. /\ \A i \in 1 .. n + 1 : Squares(t)[i] = t[i] * t[i]
          /\ \A i \in 1 .. n : Squares(s)[i] = s[i] * s[i]
      BY <1>1, <1>4 DEF Squares
    <3>3. n >= Capacity => n - Capacity + 1 \in 1 .. n /\ old = s[n - Capacity + 1]
      BY <1>2, <2>1
    <3>4. n < Capacity => old = 0
      BY <1>2, <2>1
    <3>5. 0 * 0 = 0
      OBVIOUS
    <3> QED  BY <1>2, <1>4, <3>1, <3>2, <3>3, <3>4, <3>5
  <2>9. new.sumY = Total(LastOf(t, Capacity))
    <3>1. Total(LastOf(t, Capacity)) = Total(LastOf(s, Capacity))
            - (IF Len(s) >= Capacity THEN s[Len(s) - Capacity + 1] ELSE 0) + t[Len(s) + 1]
      BY <1>1, <1>4, <2>7, SlidingTotal
    <3> QED  BY <1>1, <1>2, <1>4, <2>1, <2>4, <3>1
  <2>10. new.sumSquares = Total(LastOf(Squares(t), Capacity))
    <3>1. PICK p, q : p = Squares(s) /\ q = Squares(t)
      OBVIOUS
    <3>2. Total(LastOf(q, Capacity)) = Total(LastOf(p, Capacity))
            - (IF Len(p) >= Capacity THEN p[Len(p) - Capacity + 1] ELSE 0) + q[Len(p) + 1]
      BY <2>7, <2>8, <3>1, SlidingTotal
    <3>3. (IF Len(p) >= Capacity THEN p[Len(p) - Capacity + 1] ELSE 0) = old * old
      BY <1>2, <2>7, <2>8, <3>1
    <3> QED  BY <1>2, <2>4, <2>7, <2>8, <3>1, <3>2, <3>3
  <2> QED  BY <1>3, <1>4, <1>5, <2>3, <2>4, <2>5, <2>6, <2>9, <2>10 DEF SumOK
<1>9. v = 0 => Added(sum, v) = sum
  BY DEF Added
<1> QED  BY <1>1, <1>3, <1>6, <1>7, <1>8, <1>9

-----------------------------------------------------------------------------
(***************************************************************************)
(* The correlation window.                                                 *)
(***************************************************************************)
Products == [i \in 1 .. Len(xs) |-> xs[i] * ys[i]]

CorrelationOK ==
  /\ SumOK(xSamples, xs) /\ SumOK(ySamples, ys)
  /\ InStep => Len(xs) = Len(ys) /\ corrSumXY = Total(LastOf(Products, Capacity))

\* The samples are natural numbers.
LEMMA SamplesAreNumbers ==
  ASSUME HistoryOK
  PROVE  \A i \in 1 .. Len(history) : history[i].x \in Nat /\ history[i].y \in Nat
<1>1. \A i \in 1 .. Len(history) : history[i] \in Samples
  BY DEF HistoryOK
<1> QED  BY <1>1 DEF Samples

\* The products of two series of one length are a sequence of integers.
LEMMA ProductsSeq ==
  ASSUME NEW s \in Seq(Nat), NEW t \in Seq(Nat), Len(s) = Len(t)
  PROVE  LET p == [i \in 1 .. Len(s) |-> s[i] * t[i]]
         IN p \in Seq(Int) /\ Len(p) = Len(s)
<1>1. PICK n \in Nat : n = Len(s)
  OBVIOUS
<1>2. \A i \in 1 .. n : s[i] * t[i] \in Int
  <2>1. \A i \in 1 .. n : s[i] \in Nat /\ t[i] \in Nat
    BY <1>1
  <2> QED  BY <2>1
<1>3. [i \in 1 .. n |-> s[i] * t[i]] \in [1 .. n -> Int]
  BY <1>2
<1> QED  BY <1>1, <1>3, FunctionIsSeq

\* A series with one more value.
LEMMA OneMore ==
  ASSUME NEW s \in Seq(Nat), NEW v \in Nat
  PROVE  /\ Append(s, v) \in Seq(Nat) /\ Len(Append(s, v)) = Len(s) + 1
         /\ Append(s, v)[Len(s) + 1] = v
         /\ \A i \in 1 .. Len(s) : Append(s, v)[i] = s[i]
OBVIOUS

\* A step that adds a sample adds its product and takes out that of the pair that leaves.
LEMMA CorrelationStep ==
  ASSUME HistoryOK, CorrelationOK, NEW x \in XSamples, NEW y \in YSamples, Add(x, y)
  PROVE  CorrelationOK'
<1>1. PICK n \in Nat : n = Len(history)
  BY HistoryStep
<1>2. /\ x \in Nat /\ y \in Nat /\ Capacity \in Nat \ {0} /\ Len(history') = n + 1
      /\ \A i \in 1 .. n : history'[i] = history[i]
      /\ history'[n + 1].x = x /\ history'[n + 1].y = y /\ HistoryOK'
  <2>1. history'[n + 1] = [x |-> x, y |-> y, at |-> clock]
    BY <1>1, HistoryStep
  <2> QED  BY <1>1, <2>1, HistoryStep, WindowsConstants
<1>3. /\ xSamples' = Added(xSamples, x) /\ ySamples' = Added(ySamples, y)
      /\ corrSumXY' = corrSumXY + x * y - (IF Full(xSamples, x)
                                             THEN OldValue(xSamples, x) * OldValue(ySamples, y)
                                             ELSE 0)
      /\ xs' = (IF x = 0 THEN xs ELSE Append(xs, x))
      /\ ys' = (IF y = 0 THEN ys ELSE Append(ys, y))
  BY DEF Add, CorrelationAdd
<1>4. SumOK(xSamples, xs) /\ SumOK(ySamples, ys) /\ xs \in Seq(Nat) /\ ys \in Seq(Nat)
  BY DEF CorrelationOK, SumOK
<1>5. /\ Full(xSamples, x) <=> x # 0 /\ Len(xs) >= Capacity
      /\ Full(xSamples, x) => OldValue(xSamples, x) = xs[Len(xs) - Capacity + 1]
      /\ x = 0 => Added(xSamples, x) = xSamples
      /\ x # 0 => SumOK(Added(xSamples, x), Append(xs, x))
  BY <1>2, <1>4, AddedStep
<1>6. /\ Full(ySamples, y) <=> y # 0 /\ Len(ys) >= Capacity
      /\ Full(ySamples, y) => OldValue(ySamples, y) = ys[Len(ys) - Capacity + 1]
      /\ y = 0 => Added(ySamples, y) = ySamples
      /\ y # 0 => SumOK(Added(ySamples, y), Append(ys, y))
  BY <1>2, <1>4, AddedStep
<1>7. SumOK(xSamples', xs')
  BY <1>3, <1>4, <1>5
<1>8. SumOK(ySamples', ys')
  BY <1>3, <1>4, <1>6
<1>9. ASSUME InStep'
      PROVE  Len(xs') = Len(ys') /\ corrSumXY' = Total(LastOf(Products', Capacity))
  <2>1. n + 1 \in 1 .. n + 1 /\ \A i \in 1 .. n : i \in 1 .. n + 1
    OBVIOUS
  <2>2. (x = 0 <=> y = 0) /\ InStep
    BY <1>1, <1>2, <1>9, <2>1 DEF InStep
  <2>3. Len(xs) = Len(ys) /\ corrSumXY = Total(LastOf(Products, Capacity))
    BY <2>2 DEF CorrelationOK
  <2>4. CASE x = 0
    <3>1. xs' = xs /\ ys' = ys /\ x * y = 0
      BY <1>2, <1>3, <2>2, <2>4
    <3>2. Products \in Seq(Int)
      BY <1>4, <2>3, ProductsSeq DEF Products
    <3>3. corrSumXY \in Int
      <4>1. PICK p \in Seq(Int) : p = Products
        BY <3>2
      <4>2. Append(p, 0) \in Seq(Int) /\ Len(Append(p, 0)) = Len(p) + 1
            /\ \A i \in 1 .. Len(p) : Append(p, 0)[i] = p[i]
        OBVIOUS
      <4>3. Total(LastOf(p, Capacity)) \in Int
        BY <4>2, SlidingTotal
      <4> QED  BY <2>3, <4>1, <4>3
    <3>4. corrSumXY' = corrSumXY
      BY <1>3, <1>5, <2>4, <3>1, <3>3
    <3>5. Products' = Products
      BY <3>1 DEF Products
    <3> QED  BY <2>3, <3>1, <3>4, <3>5
  <2>5. CASE x # 0
    <3>1. PICK m \in Nat : m = Len(xs) /\ m = Len(ys)
      BY <1>4, <2>3
    <3>2. /\ xs' = Append(xs, x) /\ ys' = Append(ys, y)
          /\ Full(xSamples, x) <=> m >= Capacity
          /\ Full(ySamples, y) <=> m >= Capacity
      BY <1>3, <1>5, <1>6, <2>2, <2>5, <3>1
    <3>3. /\ xs' \in Seq(Nat) /\ ys' \in Seq(Nat)
          /\ Len(xs') = m + 1 /\ Len(ys') = m + 1 /\ xs'[m + 1] = x /\ ys'[m + 1] = y
          /\ \A i \in 1 .. m : xs'[i] = xs[i] /\ ys'[i] = ys[i]
      <4>1. /\ xs' \in Seq(Nat) /\ Len(xs') = Len(xs) + 1 /\ xs'[Len(xs) + 1] = x
            /\ \A i \in 1 .. Len(xs) : xs'[i] = xs[i]
        BY <1>2, <1>4, <3>2, OneMore, Zenon
      <4>2. /\ ys' \in Seq(Nat) /\ Len(ys') = Len(ys) + 1 /\ ys'[Len(ys) + 1] = y
            /\ \A i \in 1 .. Len(ys) : ys'[i] = ys[i]
        BY <1>2, <1>4, <3>2, OneMore, Zenon
      <4> QED  BY <3>1, <4>1, <4>2, Zenon
    <3>4. PICK p \in Seq(Int), q \in Seq(Int) :
            /\ p = Products /\ q = Products' /\ Len(p) = m /\ Len(q) = m + 1
      <4>1. Products \in Seq(Int) /\ Len(Products) = m
        BY <1>4, <3>1, ProductsSeq DEF Products
      <4>2. Products' \in Seq(Int) /\ Len(Products') = m + 1
        BY <3>3, ProductsSeq DEF Products
      <4> QED  BY <4>1, <4>2
    <3>5. /\ \A i \in 1 .. m : p[i] = xs[i] * ys[i]
          /\ \A i \in 1 .. m + 1 : q[i] = xs'[i] * ys'[i]
      BY <3>1, <3>3, <3>4 DEF Products
    <3>6. m + 1 \in 1 .. m + 1 /\ \A i \in 1 .. m : i \in 1 .. m + 1
      OBVIOUS
    <3>7. q[m + 1] = x * y /\ \A i \in 1 .. m : q[i] = p[i]
      BY <3>3, <3>5, <3>6
    <3>8. /\ Total(LastOf(p, Capacity)) \in Int
          /\ Total(LastOf(q, Capacity)) = Total(LastOf(p, Capacity))
               - (IF m >= Capacity THEN p[m - Capacity + 1] ELSE 0) + x * y
      BY <3>4, <3>7, SlidingTotal
    <3>9. CASE m >= Capacity
      <4>1. m - Capacity + 1 \in 1 .. m
        BY <1>2, <3>9
      <4>2. /\ OldValue(xSamples, x) = xs[m - Capacity + 1]
            /\ OldValue(ySamples, y) = ys[m - Capacity + 1]
        BY <1>5, <1>6, <3>1, <3>2, <3>9
      <4>3. PICK a \in Int : a = p[m - Capacity + 1]
        BY <3>4, <4>1
      <4>4. corrSumXY' = corrSumXY + x * y - a
        BY <1>3, <3>2, <3>5, <3>9, <4>1, <4>2, <4>3
      <4>5. x * y \in Int
        BY <1>2
      <4> QED  BY <2>3, <3>3, <3>4, <3>8, <3>9, <4>3, <4>4, <4>5
    <3>10. CASE ~(m >= Capacity)
      <4>1. corrSumXY' = corrSumXY + x * y - 0 /\ x * y \in Int
        BY <1>2, <1>3, <3>2, <3>10
      <4> QED  BY <2>3, <3>3, <3>4, <3>8, <3>10, <4>1
    <3> QED  BY <3>9, <3>10
  <2> QED  BY <2>4, <2>5
<1> QED  BY <1>7, <1>8, <1>9 DEF CorrelationOK

\* What the sums hold is what they describe.
LEMMA SumDescribes == ASSUME NEW sum, NEW s, SumOK(sum, s) PROVE Describes(sum, s)
<1>1. PICK n \in Nat : n = Len(s)
  BY DEF SumOK
<1>2. PICK in : in = LastOf(s, Capacity)
  OBVIOUS
<1>3. PICK from \in 0 .. n : from = IF n > Capacity THEN n - Capacity ELSE 0
  BY <1>1, LastElements DEF SumOK
<1>4. in \in Seq(Nat) /\ Len(in) = n - from /\ \A i \in 1 .. n - from : in[i] = s[from + i]
  BY <1>1, <1>2, <1>3, LastElements DEF SumOK
<1>5. sum.size = Len(in) /\ sum.sumY = Total(in)
  <2>1. n - from = IF n < Capacity THEN n ELSE Capacity
    BY <1>3, WindowsConstants
  <2> QED  BY <1>1, <1>2, <1>4, <2>1 DEF SumOK
<1>6. Squares(s) \in Seq(Int) /\ Len(Squares(s)) = n /\ Squares(in) \in Seq(Int) /\ Len(Squares(in)) = n - from
  BY <1>1, <1>4, SquaresSeq DEF SumOK
<1>7. PICK q \in Seq(Int) : q = LastOf(Squares(s), Capacity)
  BY <1>6, LastElements
<1>8. Len(q) = n - from /\ \A i \in 1 .. n - from : q[i] = Squares(s)[from + i]
  BY <1>3, <1>6, <1>7, LastElements
<1>9. \A i \in 1 .. n - from : q[i] = Squares(in)[i]
  <2>1. \A i \in 1 .. n - from : from + i \in 1 .. n
    OBVIOUS
  <2> QED  BY <1>1, <1>4, <1>8, <2>1 DEF Squares
<1>10. q = Squares(in)
  BY <1>6, <1>8, <1>9, SeqEqual
<1>11. sum.sumSquares = Total([i \in 1 .. Len(in) |-> in[i] * in[i]])
  BY <1>7, <1>10 DEF SumOK, Squares
<1> QED  BY <1>2, <1>5, <1>11 DEF Describes

\* The invariant of the correlation window gives its property.
LEMMA CorrelationIsExact == ASSUME HistoryOK, CorrelationOK PROVE CorrelationExact
<1>1. Describes(xSamples, xs) /\ Describes(ySamples, ys)
  BY SumDescribes DEF CorrelationOK
<1>2. PICK xIn, yIn : xIn = LastOf(xs, Capacity) /\ yIn = LastOf(ys, Capacity)
  OBVIOUS
<1>3. ASSUME InStep
      PROVE  /\ Len(xIn) = Len(yIn)
             /\ corrSumXY = Total([i \in 1 .. Len(xIn) |-> xIn[i] * yIn[i]])
  <2>1. /\ xs \in Seq(Nat) /\ ys \in Seq(Nat) /\ Len(xs) = Len(ys)
        /\ corrSumXY = Total(LastOf(Products, Capacity))
    BY <1>3 DEF CorrelationOK, SumOK
  <2>2. PICK n \in Nat : n = Len(xs) /\ n = Len(ys)
    BY <2>1
  <2>3. PICK from \in 0 .. n : from = IF n > Capacity THEN n - Capacity ELSE 0
    BY <2>1, <2>2, LastElements
  <2>4. /\ xIn \in Seq(Nat) /\ Len(xIn) = n - from /\ \A i \in 1 .. n - from : xIn[i] = xs[from + i]
        /\ yIn \in Seq(Nat) /\ Len(yIn) = n - from /\ \A i \in 1 .. n - from : yIn[i] = ys[from + i]
    BY <1>2, <2>1, <2>2, <2>3, LastElements
  <2>5. PICK p \in Seq(Int) : p = Products /\ Len(p) = n
    BY <2>1, <2>2, ProductsSeq DEF Products
  <2>6. PICK q \in Seq(Int) : q = LastOf(p, Capacity)
    BY <2>5, LastElements
  <2>7. Len(q) = n - from /\ \A i \in 1 .. n - from : q[i] = p[from + i]
    BY <2>3, <2>5, <2>6, LastElements
  <2>8. PICK r \in Seq(Int) : r = [i \in 1 .. Len(xIn) |-> xIn[i] * yIn[i]] /\ Len(r) = n - from
    BY <2>4, ProductsSeq
  <2>9. \A i \in 1 .. n - from : q[i] = r[i]
    <3>1. \A i \in 1 .. n - from : from + i \in 1 .. n
      OBVIOUS
    <3>2. \A i \in 1 .. n - from : q[i] = xs[from + i] * ys[from + i]
      BY <2>2, <2>5, <2>7, <3>1 DEF Products
    <3>3. \A i \in 1 .. n - from : r[i] = xIn[i] * yIn[i]
      BY <2>4, <2>8
    <3> QED  BY <2>4, <3>2, <3>3
  <2>10. q = r
    BY <2>7, <2>8, <2>9, SeqEqual
  <2> QED  BY <2>1, <2>4, <2>5, <2>6, <2>8, <2>10
<1> QED  BY <1>1, <1>2, <1>3 DEF CorrelationExact

-----------------------------------------------------------------------------
(***************************************************************************)
(* The maximum.                                                            *)
(***************************************************************************)
\* A set of indexes with every smaller one is a prefix.
LEMMA InitialInterval ==
  ASSUME NEW n \in Nat, NEW S \in SUBSET (1 .. n),
         \A i \in S, j \in 1 .. n : j <= i => j \in S
  PROVE  Cardinality(S) \in 0 .. n /\ S = 1 .. Cardinality(S)
<1> DEFINE T == {k \in Nat : k + 1 \notin S}
<1>1. n \in T /\ T \in SUBSET Nat
  OBVIOUS
<1>2. PICK m \in T : \A k \in T : m <= k
  <2> HIDE DEF T
  <2> QED  BY <1>1, LeastNumber
<1>3. m \in Nat /\ m <= n /\ m + 1 \notin S
  BY <1>1, <1>2
<1>4. ASSUME NEW i \in 1 .. m PROVE i \in S
  <2>1. i - 1 \in Nat /\ ~(m <= i - 1) /\ (i - 1) + 1 = i
    BY <1>3
  <2>2. i - 1 \notin T
    BY <1>2, <2>1
  <2> QED  BY <2>1, <2>2
<1>5. ASSUME NEW i \in S PROVE i \in 1 .. m
  <2> SUFFICES ASSUME i > m PROVE FALSE
    BY <1>3
  <2>1. m + 1 \in 1 .. n /\ m + 1 <= i
    BY <1>3
  <2> QED  BY <1>3, <2>1
<1>6. S = 1 .. m
  BY <1>4, <1>5
<1>7. Cardinality(1 .. m) = m
  BY <1>3, FS_Interval
<1> QED  BY <1>3, <1>6, <1>7

DequeEntries == [value : Nat, timestamp : Nat]

Falling(d) == \A j, k \in 1 .. Len(d) :
                j < k => d[j].value > d[k].value /\ d[j].timestamp <= d[k].timestamp

LastAt == history[Len(history)].at

DequeOK ==
  /\ deque \in Seq(DequeEntries)
  /\ Falling(deque)
  /\ \A k \in 1 .. Len(deque) :
       /\ \E i \in 1 .. Len(history) :
            history[i].x = deque[k].value /\ history[i].at = deque[k].timestamp
       /\ deque[k].timestamp > LastAt - Window
  /\ \A i \in 1 .. Len(history) :
       history[i].at > LastAt - Window =>
         \E k \in 1 .. Len(deque) :
           deque[k].value >= history[i].x /\ deque[k].timestamp >= history[i].at

\* Expiring leaves the live entries.
LEMMA ExpiredEntries ==
  ASSUME clock \in Nat, NEW d \in Seq(DequeEntries), Falling(d)
  PROVE  \E c \in 0 .. Len(d) :
           /\ Expired(d) \in Seq(DequeEntries) /\ Len(Expired(d)) = Len(d) - c
           /\ \A k \in 1 .. Len(d) - c : Expired(d)[k] = d[c + k]
           /\ \A k \in 1 .. Len(d) : IsLive(d[k]) <=> k > c
<1>1. PICK n \in Nat : n = Len(d)
  OBVIOUS
<1>2. \A k \in 1 .. n : d[k] \in DequeEntries /\ d[k].timestamp \in Nat
  <2>1. \A k \in 1 .. n : d[k] \in DequeEntries
    BY <1>1
  <2> QED  BY <2>1 DEF DequeEntries
<1> DEFINE S == {i \in 1 .. n : \A j \in 1 .. i : ~IsLive(d[j])}
<1>3. S \in SUBSET (1 .. n)
  OBVIOUS
<1>4. \A i \in S, j \in 1 .. n : j <= i => j \in S
  OBVIOUS
<1>5. PICK c \in 0 .. n : c = Cardinality(S) /\ S = 1 .. c
  <2> HIDE DEF S
  <2> QED  BY <1>3, <1>4, InitialInterval
<1>6. Expired(d) = SubSeq(d, 1 + c, n)
  BY <1>1, <1>5 DEF Expired
<1>7. /\ SubSeq(d, 1 + c, n) \in Seq(DequeEntries)
      /\ Len(SubSeq(d, 1 + c, n)) = n - c
      /\ \A k \in 1 .. n - c : SubSeq(d, 1 + c, n)[k] = d[c + k]
  <2>1. PICK a \in Int : a = 1 + c
    OBVIOUS
  <2>2. \A i \in a .. n : d[i] \in DequeEntries
    BY <1>2, <2>1
  <2>3. /\ SubSeq(d, a, n) \in Seq(DequeEntries)
        /\ Len(SubSeq(d, a, n)) = IF a <= n THEN n - a + 1 ELSE 0
        /\ \A i \in 1 .. n - a + 1 : SubSeq(d, a, n)[i] = d[a + i - 1]
    BY <2>2, SubSeqProperties
  <2>4. /\ (IF a <= n THEN n - a + 1 ELSE 0) = n - c /\ n - a + 1 = n - c
        /\ \A i \in 1 .. n - c : a + i - 1 = c + i
    BY <2>1
  <2> QED  BY <2>1, <2>3, <2>4
<1>8. ASSUME NEW k \in 1 .. n PROVE IsLive(d[k]) <=> k > c
  <2>1. ASSUME k <= c PROVE ~IsLive(d[k])
    <3>1. k \in S
      BY <1>5, <2>1
    <3> QED  BY <3>1
  <2>2. ASSUME k > c PROVE IsLive(d[k])
    <3>1. c + 1 \in 1 .. n /\ c + 1 \notin 1 .. c
      BY <2>2
    <3>2. PICK j \in 1 .. c + 1 : IsLive(d[j])
      <4>1. c + 1 \notin S
        BY <1>5, <3>1
      <4> QED  BY <3>1, <4>1
    <3>3. j = c + 1
      <4>1. j \in S => ~IsLive(d[j])
        OBVIOUS
      <4>2. j \notin 1 .. c
        BY <1>5, <3>2, <4>1
      <4> QED  BY <4>2
    <3>4. j \in 1 .. n /\ (j = k \/ j < k)
      BY <2>2, <3>1, <3>3
    <3>5. d[j].timestamp <= d[k].timestamp
      BY <1>1, <1>2, <3>4 DEF Falling
    <3>6. clock - Window \in Int
      BY WindowsConstants
    <3> QED  BY <1>2, <3>2, <3>4, <3>5, <3>6 DEF IsLive
  <2> QED  BY <2>1, <2>2
<1> QED  BY <1>1, <1>6, <1>7, <1>8

\* The entries that stay in front of a new value are the greater ones.
LEMMA DominatingEntries ==
  ASSUME NEW d \in Seq(DequeEntries), Falling(d), NEW v \in Nat
  PROVE  \E m \in 0 .. Len(d) :
           /\ Dominating(d, v) \in Seq(DequeEntries) /\ Len(Dominating(d, v)) = m
           /\ \A k \in 1 .. m : Dominating(d, v)[k] = d[k]
           /\ \A k \in 1 .. Len(d) : d[k].value > v <=> k <= m
<1>1. PICK n \in Nat : n = Len(d)
  OBVIOUS
<1>2. \A k \in 1 .. n : d[k] \in DequeEntries /\ d[k].value \in Nat
  <2>1. \A k \in 1 .. n : d[k] \in DequeEntries
    BY <1>1
  <2> QED  BY <2>1 DEF DequeEntries
<1> DEFINE S == {i \in 1 .. n : \E j \in i .. n : d[j].value > v}
<1>3. S \in SUBSET (1 .. n)
  OBVIOUS
<1>4. ASSUME NEW i \in S, NEW j \in 1 .. n, j <= i PROVE j \in S
  <2>1. PICK k \in i .. n : d[k].value > v
    OBVIOUS
  <2>2. k \in j .. n
    BY <1>4
  <2> QED  BY <2>1, <2>2
<1>5. PICK m \in 0 .. n : m = Cardinality(S) /\ S = 1 .. m
  <2> HIDE DEF S
  <2> QED  BY <1>3, <1>4, InitialInterval
<1>6. Dominating(d, v) = SubSeq(d, 1, m)
  BY <1>1, <1>5 DEF Dominating
<1>7. /\ SubSeq(d, 1, m) \in Seq(DequeEntries) /\ Len(SubSeq(d, 1, m)) = m
      /\ \A k \in 1 .. m : SubSeq(d, 1, m)[k] = d[k]
  <2>1. \A i \in 1 .. m : d[i] \in DequeEntries
    BY <1>2
  <2>2. /\ SubSeq(d, 1, m) \in Seq(DequeEntries)
        /\ Len(SubSeq(d, 1, m)) = IF 1 <= m THEN m - 1 + 1 ELSE 0
        /\ \A i \in 1 .. m - 1 + 1 : SubSeq(d, 1, m)[i] = d[1 + i - 1]
    BY <2>1, SubSeqProperties
  <2>3. /\ (IF 1 <= m THEN m - 1 + 1 ELSE 0) = m /\ m - 1 + 1 = m
        /\ \A i \in 1 .. m : 1 + i - 1 = i
    OBVIOUS
  <2> QED  BY <2>2, <2>3
<1>8. ASSUME NEW k \in 1 .. n PROVE d[k].value > v <=> k <= m
  <2>1. ASSUME d[k].value > v PROVE k <= m
    <3>1. k \in k .. n
      OBVIOUS
    <3>2. k \in S
      BY <2>1, <3>1
    <3> QED  BY <1>5, <3>2
  <2>2. ASSUME k <= m PROVE d[k].value > v
    <3>1. k \in S
      BY <1>5, <2>2
    <3>2. PICK j \in k .. n : d[j].value > v
      BY <3>1
    <3>3. j \in 1 .. n /\ (k = j \/ k < j)
      OBVIOUS
    <3>4. k < j => d[k].value > d[j].value
      BY <1>1, <3>3 DEF Falling
    <3> QED  BY <1>2, <3>2, <3>3, <3>4
  <2> QED  BY <2>1, <2>2
<1> QED  BY <1>1, <1>6, <1>7, <1>8

\* The new sample takes the place of what it dominates; what expires was too old to count.
LEMMA DequeStep ==
  ASSUME HistoryOK, DequeOK, NEW x \in XSamples, NEW y \in YSamples, Add(x, y)
  PROVE  DequeOK'
<1>1. PICK n \in Nat : n = Len(history)
  BY HistoryStep
<1>2. /\ x \in Nat /\ clock \in Nat /\ Window \in Nat /\ Len(history') = n + 1
      /\ \A i \in 1 .. n : history'[i] = history[i]
      /\ history'[n + 1].x = x /\ history'[n + 1].at = clock
  <2>1. history'[n + 1] = [x |-> x, y |-> y, at |-> clock]
    BY <1>1, HistoryStep
  <2> QED  BY <1>1, <2>1, HistoryStep, WindowsConstants DEF HistoryOK
<1>3. LastAt' = clock
  BY <1>2 DEF LastAt
<1>4. \A i \in 1 .. n : /\ history[i].at \in Nat /\ history[i].x \in Nat
                        /\ LastAt \in Nat /\ LastAt <= clock /\ history[i].at <= clock
  <2>1. \A i \in 1 .. n : history[i] \in Samples /\ history[i].at <= clock
    BY <1>1 DEF HistoryOK
  <2>2. \A i \in 1 .. n : n \in 1 .. n
    OBVIOUS
  <2> QED  BY <1>1, <2>1, <2>2 DEF Samples, LastAt
<1>5. PICK d \in Seq(DequeEntries) : d = deque
  BY DEF DequeOK
<1>6. PICK l \in Nat : l = Len(d)
  OBVIOUS
<1>7. Falling(d) /\ \A k \in 1 .. l : d[k].value \in Nat /\ d[k].timestamp \in Nat
  <2>1. \A k \in 1 .. l : d[k] \in DequeEntries
    BY <1>6
  <2> QED  BY <1>5, <2>1 DEF DequeOK, DequeEntries
<1>8. PICK c \in 0 .. l :
        /\ Expired(d) \in Seq(DequeEntries) /\ Len(Expired(d)) = l - c
        /\ \A k \in 1 .. l - c : Expired(d)[k] = d[c + k]
        /\ \A k \in 1 .. l : IsLive(d[k]) <=> k > c
  BY <1>2, <1>6, <1>7, ExpiredEntries
<1>9. PICK e \in Seq(DequeEntries) : e = Expired(d)
  BY <1>8
<1>10. \A k \in 1 .. l - c : c + k \in 1 .. l /\ c + k > c /\ e[k] = d[c + k]
  BY <1>8, <1>9
<1>11. Falling(e)
  <2>1. ASSUME NEW i \in 1 .. l - c, NEW j \in 1 .. l - c, i < j
        PROVE  e[i].value > e[j].value /\ e[i].timestamp <= e[j].timestamp
    <3>1. c + i < c + j
      BY <2>1
    <3> QED  BY <1>6, <1>7, <1>10, <3>1 DEF Falling
  <2> QED  BY <1>8, <1>9, <2>1 DEF Falling
<1>12. PICK m \in 0 .. l - c :
         /\ Dominating(e, x) \in Seq(DequeEntries) /\ Len(Dominating(e, x)) = m
         /\ \A k \in 1 .. m : Dominating(e, x)[k] = e[k]
         /\ \A k \in 1 .. l - c : e[k].value > x <=> k <= m
  <2>1. \E m \in 0 .. Len(e) :
           /\ Dominating(e, x) \in Seq(DequeEntries) /\ Len(Dominating(e, x)) = m
           /\ \A k \in 1 .. m : Dominating(e, x)[k] = e[k]
           /\ \A k \in 1 .. Len(e) : e[k].value > x <=> k <= m
    BY <1>2, <1>11, DominatingEntries
  <2>2. Len(e) = l - c
    BY <1>8, <1>9
  <2> QED  BY <2>1, <2>2
<1>13. PICK new \in DequeEntries : new = [value |-> x, timestamp |-> clock]
  BY <1>2 DEF DequeEntries
<1>14. deque' = Append(Dominating(e, x), new)
  BY <1>5, <1>9, <1>13 DEF Add, MaxWindowAdd
<1>15. /\ deque' \in Seq(DequeEntries) /\ Len(deque') = m + 1 /\ deque'[m + 1] = new
       /\ \A k \in 1 .. m : deque'[k] = d[c + k] /\ c + k \in 1 .. l /\ d[c + k].value > x
       /\ \A k \in 1 .. m : IsLive(d[c + k])
  <2>1. PICK g \in Seq(DequeEntries) : g = Dominating(e, x)
    BY <1>12
  <2>2. Len(g) = m /\ deque' = Append(g, new)
    BY <1>12, <1>14, <2>1
  <2>3. deque' \in Seq(DequeEntries) /\ Len(deque') = m + 1 /\ deque'[m + 1] = new
        /\ \A k \in 1 .. m : deque'[k] = g[k]
    BY <2>2
  <2>4. \A k \in 1 .. m : k \in 1 .. l - c /\ g[k] = e[k] /\ e[k].value > x
    BY <1>12, <2>1
  <2> QED  BY <1>8, <1>10, <2>3, <2>4
<1>16. new.value = x /\ new.timestamp = clock
  BY <1>13
<1>17. \A k \in 1 .. m + 1 : k = m + 1 \/ k \in 1 .. m
  OBVIOUS
<1>18. \A k \in 1 .. l : /\ d[k].timestamp <= clock
                         /\ \E i \in 1 .. n : history[i].x = d[k].value /\ history[i].at = d[k].timestamp
  BY <1>1, <1>4, <1>5, <1>6 DEF DequeOK
<1>19. Falling(deque')
  <2>1. ASSUME NEW i \in 1 .. m + 1, NEW j \in 1 .. m + 1, i < j
        PROVE  deque'[i].value > deque'[j].value /\ deque'[i].timestamp <= deque'[j].timestamp
    <3>1. i \in 1 .. m
      BY <2>1
    <3>2. CASE j = m + 1
      BY <1>15, <1>16, <1>18, <3>1, <3>2
    <3>3. CASE j \in 1 .. m
      <4>1. c + i < c + j /\ c + i \in 1 .. l /\ c + j \in 1 .. l
        BY <1>15, <2>1, <3>1, <3>3
      <4>2. d[c + i].value > d[c + j].value /\ d[c + i].timestamp <= d[c + j].timestamp
        BY <1>6, <1>7, <4>1 DEF Falling
      <4> QED  BY <1>15, <3>1, <3>3, <4>2
    <3> QED  BY <1>17, <3>2, <3>3
  <2> QED  BY <1>15, <2>1 DEF Falling
<1>20. ASSUME NEW k \in 1 .. m + 1
       PROVE  /\ \E i \in 1 .. n + 1 :
                   history'[i].x = deque'[k].value /\ history'[i].at = deque'[k].timestamp
              /\ deque'[k].timestamp > clock - Window
  <2>1. CASE k = m + 1
    <3>1. n + 1 \in 1 .. n + 1 /\ clock > clock - Window
      BY <1>2, WindowsConstants
    <3> QED  BY <1>2, <1>15, <1>16, <2>1, <3>1
  <2>2. CASE k \in 1 .. m
    <3>1. PICK i \in 1 .. n : history[i].x = d[c + k].value /\ history[i].at = d[c + k].timestamp
      BY <1>15, <1>18, <2>2
    <3>2. i \in 1 .. n + 1 /\ history'[i] = history[i]
      BY <1>2
    <3>3. d[c + k].timestamp > clock - Window
      BY <1>15, <2>2 DEF IsLive
    <3> QED  BY <1>15, <2>2, <3>1, <3>2, <3>3
  <2> QED  BY <1>17, <2>1, <2>2
<1>21. ASSUME NEW i \in 1 .. n + 1, history'[i].at > clock - Window
       PROVE  \E k \in 1 .. m + 1 :
                deque'[k].value >= history'[i].x /\ deque'[k].timestamp >= history'[i].at
  <2>1. m + 1 \in 1 .. m + 1
    OBVIOUS
  <2>2. CASE i = n + 1
    BY <1>2, <1>15, <1>16, <2>1, <2>2
  <2>3. CASE i # n + 1
    <3>1. i \in 1 .. n /\ history'[i] = history[i]
      BY <1>2, <2>3
    <3>2. history[i].at > LastAt - Window
      BY <1>2, <1>4, <1>21, <3>1
    <3>3. PICK k \in 1 .. l : d[k].value >= history[i].x /\ d[k].timestamp >= history[i].at
      BY <1>1, <1>5, <1>6, <3>1, <3>2 DEF DequeOK
    <3>4. IsLive(d[k])
      BY <1>2, <1>4, <1>7, <1>21, <3>1, <3>3 DEF IsLive
    <3>5. PICK j \in 1 .. l - c : k = c + j
      <4>1. k > c
        BY <1>8, <3>4
      <4>2. k - c \in 1 .. l - c /\ k = c + (k - c)
        BY <4>1
      <4> QED  BY <4>2
    <3>6. CASE j <= m
      <4>1. j \in 1 .. m /\ j \in 1 .. m + 1
        BY <3>6
      <4> QED  BY <1>15, <3>1, <3>3, <3>5, <4>1
    <3>7. CASE ~(j <= m)
      <4>1. ~(d[k].value > x)
        BY <1>10, <1>12, <3>5, <3>7
      <4>2. x >= history[i].x /\ clock >= history[i].at
        <5>1. d[k].value \in Nat /\ history[i].x \in Nat /\ history[i].at <= clock
          BY <1>4, <1>7, <3>1
        <5>2. history[i].at \in Nat /\ d[k].value >= history[i].x
          BY <1>4, <3>1, <3>3
        <5>3. PICK a \in Nat, v \in Nat : a = history[i].x /\ v = d[k].value
          BY <5>1
        <5>4. x \in Nat /\ ~(v > x) /\ v >= a => x >= a
          OBVIOUS
        <5>5. x \in Nat /\ clock \in Nat
          BY <1>2
        <5>6. x >= history[i].x
          BY <4>1, <5>2, <5>3, <5>4, <5>5
        <5>7. clock >= history[i].at
          BY <5>1, <5>2, <5>5
        <5> QED  BY <5>6, <5>7
      <4> QED  BY <1>15, <1>16, <2>1, <3>1, <4>2
    <3> QED  BY <3>6, <3>7
  <2> QED  BY <2>2, <2>3
<1> QED  BY <1>2, <1>3, <1>15, <1>19, <1>20, <1>21 DEF DequeOK

\* The first entry is the maximum of the samples that are younger than the window.
LEMMA MaxIsExact ==
  ASSUME HistoryOK, DequeOK, history # <<>>
  PROVE  MaxValue = Max({history[i].x : i \in {j \in 1 .. Len(history) : history[j].at > LastAt - Window}})
<1>1. PICK n \in Nat : n = Len(history) /\ n \in 1 .. n
  BY DEF HistoryOK
<1>2. \A i \in 1 .. n : history[i].x \in Nat /\ history[i].at \in Nat
  <2>1. \A i \in 1 .. n : history[i] \in Samples
    BY <1>1 DEF HistoryOK
  <2> QED  BY <2>1 DEF Samples
<1> DEFINE S == {history[i].x : i \in {j \in 1 .. n : history[j].at > LastAt - Window}}
<1>3. PICK l \in Nat : l = Len(deque)
  BY DEF DequeOK
<1>4. \A k \in 1 .. l : deque[k].value \in Nat
  <2>1. \A k \in 1 .. l : deque[k] \in DequeEntries
    BY <1>3 DEF DequeOK
  <2> QED  BY <2>1 DEF DequeEntries
<1>5. ASSUME NEW i \in 1 .. n, history[i].at > LastAt - Window
      PROVE  1 \in 1 .. l /\ deque[1].value >= history[i].x
  <2>1. PICK k \in 1 .. l : deque[k].value >= history[i].x
    BY <1>1, <1>3, <1>5 DEF DequeOK
  <2>2. 1 \in 1 .. l /\ (k = 1 \/ 1 < k)
    OBVIOUS
  <2>3. 1 < k => deque[1].value > deque[k].value
    BY <1>3, <2>2 DEF DequeOK, Falling
  <2> QED  BY <1>2, <1>4, <2>1, <2>2, <2>3
<1>6. 1 \in 1 .. l
  <2>1. history[n].at > LastAt - Window
    BY <1>1, <1>2, WindowsConstants DEF LastAt
  <2> QED  BY <1>1, <1>5, <2>1
<1>7. deque[1].value \in S
  <2>1. PICK i \in 1 .. n : history[i].x = deque[1].value /\ history[i].at = deque[1].timestamp
    BY <1>1, <1>3, <1>6 DEF DequeOK
  <2>2. deque[1].timestamp > LastAt - Window
    BY <1>3, <1>6 DEF DequeOK
  <2> QED  BY <2>1, <2>2
<1>8. \A v \in S : v \in Nat /\ deque[1].value >= v
  BY <1>2, <1>5
<1>9. deque[1].value \in Nat
  BY <1>4, <1>6
<1> HIDE DEF S
<1>10. PICK v : v = deque[1].value
  OBVIOUS
<1>11. Max(S) \in S /\ \A w \in S : Max(S) >= w
  BY <1>7, <1>8, Zenon DEF Max
<1>12. Max(S) \in Nat /\ Max(S) >= v /\ v >= Max(S)
  BY <1>7, <1>8, <1>10, <1>11
<1>13. v = Max(S)
  BY <1>9, <1>10, <1>12
<1>14. MaxValue = Max(S)
  BY <1>10, <1>13 DEF MaxValue
<1> QED  BY <1>1, <1>14 DEF S

-----------------------------------------------------------------------------
(***************************************************************************)
(* The median.                                                             *)
(***************************************************************************)
Ys == [i \in 1 .. Len(history) |-> history[i].y]

MedianOK ==
  /\ median.values \in [Indexes -> Nat]
  /\ median.index = Len(history) % Capacity
  /\ median.size = IF Len(history) < Capacity - 1 THEN Len(history) ELSE Capacity - 1
  /\ RingHolds(median.values, Ys, Len(history))
  /\ median.sorted = IF Len(history) < Capacity THEN [i \in Indexes |-> 0] ELSE Sorted(median.values)

\* Add puts the sample in the ring, and sorts the ring once it is full.
LEMMA MedianStep ==
  ASSUME HistoryOK, MedianOK, NEW x \in XSamples, NEW y \in YSamples, Add(x, y)
  PROVE  MedianOK'
<1>1. PICK n \in Nat : n = Len(history)
  BY HistoryStep
<1>2. /\ y \in Nat /\ Capacity \in Nat \ {0} /\ Len(history') = n + 1
      /\ \A i \in 1 .. n : history'[i] = history[i]
      /\ history'[n + 1].y = y
  <2>1. history'[n + 1] = [x |-> x, y |-> y, at |-> clock]
    BY <1>1, HistoryStep
  <2> QED  BY <1>1, <2>1, HistoryStep, WindowsConstants
<1>3. PICK s, t : s = Ys /\ t = Ys'
  OBVIOUS
<1>4. t[n + 1] = y /\ \A i \in 1 .. n : t[i] = s[i]
  <2>1. n + 1 \in 1 .. n + 1 /\ \A i \in 1 .. n : i \in 1 .. n + 1
    OBVIOUS
  <2> QED  BY <1>1, <1>2, <1>3, <2>1 DEF Ys
<1>5. PICK ring \in [Indexes -> Nat] : ring = median.values
  BY DEF MedianOK
<1>6. /\ median.index = n % Capacity
      /\ median.size = IF n < Capacity - 1 THEN n ELSE Capacity - 1
      /\ RingHolds(ring, s, n)
      /\ median.sorted = IF n < Capacity THEN [i \in Indexes |-> 0] ELSE Sorted(ring)
  BY <1>1, <1>3, <1>5 DEF MedianOK
<1>7. PICK new : new = [ring EXCEPT ![n % Capacity] = t[n + 1]]
  OBVIOUS
<1>8. new \in [Indexes -> Nat] /\ RingHolds(new, t, n + 1)
  <2>1. t[n + 1] \in Nat
    BY <1>2, <1>4
  <2>2. /\ [ring EXCEPT ![n % Capacity] = t[n + 1]] \in [Indexes -> Nat]
        /\ RingHolds([ring EXCEPT ![n % Capacity] = t[n + 1]], t, n + 1)
    BY <1>4, <1>6, <2>1, RingStep
  <2> QED  BY <1>7, <2>2
<1>9. median.size < Capacity - 1 <=> n + 1 < Capacity
  BY <1>2, <1>6
<1>10. median' = [values |-> new,
                  sorted |-> IF n + 1 < Capacity THEN median.sorted ELSE Sorted(new),
                  index |-> ((n % Capacity) + 1) % Capacity,
                  size |-> IF n + 1 < Capacity THEN median.size + 1 ELSE median.size]
  BY <1>4, <1>5, <1>6, <1>7, <1>9 DEF Add, MedianAdd
<1>11. median'.index = (n + 1) % Capacity
  BY <1>10, RingSlots
<1>12. median'.size = IF n + 1 < Capacity - 1 THEN n + 1 ELSE Capacity - 1
  <2>1. median'.size = IF n + 1 < Capacity THEN median.size + 1 ELSE median.size
    BY <1>10
  <2> QED  BY <1>2, <1>6, <2>1
<1>13. median'.sorted = IF n + 1 < Capacity THEN [i \in Indexes |-> 0] ELSE Sorted(new)
  <2>1. n + 1 < Capacity => n < Capacity
    BY <1>2
  <2> QED  BY <1>6, <1>10, <2>1
<1>14. median'.values = new
  BY <1>10
<1> QED  BY <1>2, <1>3, <1>8, <1>11, <1>12, <1>13, <1>14 DEF MedianOK

\* Selection: the k least values of the ring, in order.
Selection(values, p, k) ==
  /\ p \in [0 .. k - 1 -> Indexes]
  /\ \A i, j \in 0 .. k - 1 : p[i] = p[j] => i = j
  /\ \A i, j \in 0 .. k - 1 : i <= j => values[p[i]] <= values[p[j]]
  /\ \A i \in 0 .. k - 1, b \in Indexes :
       (\A j \in 0 .. k - 1 : p[j] # b) => values[p[i]] <= values[b]

\* Fewer than Capacity of them leave a slot out.
LEMMA SlotLeft ==
  ASSUME NEW k \in Nat, k < Capacity, NEW p
  PROVE  \E b \in Indexes : \A j \in 0 .. k - 1 : p[j] # b
<1> SUFFICES ASSUME \A b \in Indexes : \E j \in 0 .. k - 1 : p[j] = b PROVE FALSE
  OBVIOUS
<1> DEFINE f == [b \in Indexes |-> CHOOSE j \in 0 .. k - 1 : p[j] = b]
<1>1. \A b \in Indexes : f[b] \in 0 .. k - 1 /\ p[f[b]] = b
  OBVIOUS
<1>2. f \in [Indexes -> 0 .. k - 1]
  BY <1>1
<1> HIDE DEF f
<1>3. PICK J : J = 0 .. k - 1
  OBVIOUS
<1>4. IsFiniteSet(Indexes) /\ Cardinality(Indexes) = Capacity
  BY WindowsConstants, FS_Interval DEF Indexes
<1>5. IsFiniteSet(J) /\ Cardinality(J) = k
  BY <1>3, FS_Interval
<1>6. Cardinality(J) < Cardinality(Indexes)
  BY <1>4, <1>5
<1>7. f \in [Indexes -> J]
  BY <1>2, <1>3
<1>8. \E b, c \in Indexes : b # c /\ f[b] = f[c]
  BY <1>4, <1>5, <1>6, <1>7, FS_PigeonHole
<1> QED  BY <1>1, <1>8

\* The least value that is left is the next one.
LEMMA SelectionStep ==
  ASSUME NEW values \in [Indexes -> Nat], NEW k \in Nat, k < Capacity, NEW p, Selection(values, p, k)
  PROVE  \E q : Selection(values, q, k + 1)
<1> DEFINE Left == {b \in Indexes : \A j \in 0 .. k - 1 : p[j] # b}
           S == {values[b] : b \in Left}
<1>1. Left # {}
  BY SlotLeft
<1>2. S \in SUBSET Nat /\ S # {}
  BY <1>1
<1>3. PICK v \in S : \A w \in S : v <= w
  <2> HIDE DEF S
  <2> QED  BY <1>2, LeastNumber
<1>4. PICK b \in Left : \A c \in Left : values[b] <= values[c]
  BY <1>3
<1> HIDE DEF S
<1> DEFINE q == [j \in 0 .. k |-> IF j = k THEN b ELSE p[j]]
<1>5. /\ p \in [0 .. k - 1 -> Indexes] /\ b \in Indexes /\ values[b] \in Nat
      /\ \A i, j \in 0 .. k - 1 : p[i] = p[j] => i = j
      /\ \A i, j \in 0 .. k - 1 : i <= j => values[p[i]] <= values[p[j]]
      /\ \A i \in 0 .. k - 1 : p[i] # b /\ values[p[i]] <= values[b] /\ values[p[i]] \in Nat
      /\ \A i \in 0 .. k - 1, c \in Left : values[p[i]] <= values[c]
  BY DEF Selection
<1>6. (k + 1) - 1 = k /\ k \in 0 .. k /\ \A j \in 0 .. k : j = k \/ (j \in 0 .. k - 1 /\ j # k /\ j < k)
  OBVIOUS
<1>7. q[k] = b /\ \A j \in 0 .. k - 1 : j \in 0 .. k /\ q[j] = p[j]
  OBVIOUS
<1>8. q \in [0 .. k -> Indexes]
  BY <1>5
<1> HIDE DEF q
<1>9. \A i, j \in 0 .. k : q[i] = q[j] => i = j
  BY <1>5, <1>6, <1>7
<1>10. ASSUME NEW i \in 0 .. k, NEW j \in 0 .. k, i <= j PROVE values[q[i]] <= values[q[j]]
  <2>1. CASE i = k
    <3>1. j = k
      BY <1>10, <2>1
    <3> QED  BY <1>5, <1>7, <2>1, <3>1
  <2>2. CASE i # k /\ j = k
    <3>1. i \in 0 .. k - 1
      BY <1>6, <2>2
    <3> QED  BY <1>5, <1>7, <2>2, <3>1
  <2>3. CASE i # k /\ j # k
    <3>1. i \in 0 .. k - 1 /\ j \in 0 .. k - 1
      BY <1>6, <2>3
    <3> QED  BY <1>5, <1>7, <1>10, <3>1
  <2> QED  BY <2>1, <2>2, <2>3
<1>11. ASSUME NEW i \in 0 .. k, NEW c \in Indexes, \A j \in 0 .. k : q[j] # c
       PROVE  values[q[i]] <= values[c]
  <2>1. c \in Left
    BY <1>7, <1>11
  <2> HIDE DEF Left
  <2>2. CASE i = k
    BY <1>4, <1>7, <2>1, <2>2
  <2>3. CASE i # k
    <3>1. i \in 0 .. k - 1
      BY <1>6, <2>3
    <3> QED  BY <1>5, <1>7, <2>1, <3>1
  <2> QED  BY <2>2, <2>3
<1>12. Selection(values, q, k + 1)
  <2>1. 0 .. (k + 1) - 1 = 0 .. k
    BY <1>6
  <2> QED  BY <1>8, <1>9, <1>10, <1>11, <2>1 DEF Selection
<1> QED  BY <1>12

\* So the values have an order, and slices.Sort returns them in one.
LEMMA SortedOrder ==
  ASSUME NEW values \in [Indexes -> Nat]
  PROVE  \E p \in Orders : /\ Sorted(values) = [i \in Indexes |-> values[p[i]]]
                           /\ \A i, j \in Indexes : i <= j => values[p[i]] <= values[p[j]]
<1>1. Capacity \in Nat
  BY WindowsConstants
<1> DEFINE S == {k \in Nat : \E p : Selection(values, p, k)}
<1>2. S \in SUBSET Nat
  OBVIOUS
<1>3. 0 \in S
  <2>1. 0 .. 0 - 1 = {}
    OBVIOUS
  <2>2. Selection(values, [i \in 0 .. 0 - 1 |-> 0], 0)
    BY <2>1 DEF Selection
  <2> QED  BY <2>2
<1>4. ASSUME NEW k \in S, k < Capacity PROVE k + 1 \in S
  <2>1. PICK p : Selection(values, p, k)
    OBVIOUS
  <2>2. \E q : Selection(values, q, k + 1)
    BY <1>4, <2>1, SelectionStep
  <2> QED  BY <2>2
<1>5. Capacity \in S
  <2>1. \A k \in 0 .. Capacity : k \in S
    <3> HIDE DEF S
    <3> QED  BY <1>1, <1>2, <1>3, <1>4, InductionUpTo
  <2>2. Capacity \in 0 .. Capacity
    BY <1>1
  <2> QED  BY <2>1, <2>2
<1>6. PICK q : Selection(values, q, Capacity)
  BY <1>5
<1>7. q \in Orders /\ \A i, j \in Indexes : i <= j => values[q[i]] <= values[q[j]]
  BY <1>6 DEF Selection, Orders, Indexes
<1> DEFINE V == {[i \in Indexes |-> values[p[i]]] : p \in Orders}
           Rising(s) == \A i, j \in Indexes : i <= j => s[i] <= s[j]
<1>8. \E s \in V : Rising(s)
  <2>1. PICK s : s = [i \in Indexes |-> values[q[i]]]
    OBVIOUS
  <2>2. \A i \in Indexes : s[i] = values[q[i]]
    BY <2>1
  <2>3. Rising(s)
    BY <1>7, <2>2
  <2>4. s \in V
    BY <1>7, <2>1
  <2> HIDE DEF V, Rising
  <2> QED  BY <2>3, <2>4
<1>9. Sorted(values) = CHOOSE s \in V : Rising(s)
  BY DEF Sorted
<1>10. Sorted(values) \in V /\ Rising(Sorted(values))
  <2> HIDE DEF V, Rising
  <2> QED  BY <1>8, <1>9
<1>11. PICK p \in Orders : Sorted(values) = [i \in Indexes |-> values[p[i]]]
  BY <1>10
<1>12. \A i \in Indexes : Sorted(values)[i] = values[p[i]]
  BY <1>11
<1> QED  BY <1>10, <1>11, <1>12

\* Different slots are of different samples: what some slots hold, as many samples have.
LEMMA AsManySamples ==
  ASSUME HistoryOK, Len(history) >= Capacity, NEW p \in Orders, NEW J \in SUBSET Indexes,
         NEW A \in SUBSET Latest, \A i \in Latest, j \in J : (i - 1) % Capacity = p[j] => i \in A
  PROVE  Cardinality(J) <= Cardinality(A)
<1>1. PICK n \in Nat : n = Len(history) /\ n >= Capacity
  BY LatestSet
<1>2. Capacity \in Nat \ {0}
  BY WindowsConstants
<1>3. ASSUME NEW b \in Indexes PROVE \E i \in Latest : (i - 1) % Capacity = b
  <2>1. n - 1 \in Int /\ b \in 0 .. Capacity - 1
    BY <1>1 DEF Indexes
  <2>2. PICK k \in 0 .. Capacity - 1 : ((n - 1) - k) % Capacity = b
    BY <1>2, <2>1, SlotMet
  <2>3. n - k \in Latest /\ (n - k) - 1 = (n - 1) - k
    BY <1>1, <1>2 DEF Latest
  <2> QED  BY <2>2, <2>3
<1> DEFINE f == [j \in J |-> CHOOSE i \in Latest : (i - 1) % Capacity = p[j]]
<1>4. \A j \in J : p[j] \in Indexes
  BY DEF Orders
<1>5. \A j \in J : f[j] \in Latest /\ (f[j] - 1) % Capacity = p[j]
  BY <1>3, <1>4
<1>6. f \in [J -> A]
  BY <1>5
<1> HIDE DEF f
<1>7. ASSUME NEW i \in J, NEW j \in J, f[i] = f[j] PROVE i = j
  <2>1. p[i] = p[j]
    BY <1>5, <1>7
  <2> QED  BY <2>1 DEF Orders
<1>8. f \in Injection(J, A)
  BY <1>6, <1>7 DEF Injection, IsInjective
<1>9. IsFiniteSet(A)
  BY LatestSet, FS_Subset
<1> QED  BY <1>8, <1>9, FS_Injection

\* The middle of the sorted ring is the upper median of the last Capacity samples.
LEMMA MedianIsExact ==
  ASSUME HistoryOK, MedianOK
  PROVE  IF Len(history) < Capacity
           THEN Median = 0
           ELSE /\ Cardinality({i \in Latest : history[i].y < Median}) <= Capacity \div 2
                /\ Cardinality({i \in Latest : history[i].y <= Median}) > Capacity \div 2
<1>1. PICK n \in Nat : n = Len(history)
  BY LatestSet
<1>2. PICK h \in Indexes : h = Capacity \div 2
  BY WindowsConstants DEF Indexes
<1>3. Capacity \in Nat \ {0} /\ h \in 0 .. Capacity - 1
  BY WindowsConstants DEF Indexes
<1>4. CASE n < Capacity
  <2>1. median.sorted = [i \in Indexes |-> 0]
    BY <1>1, <1>4 DEF MedianOK
  <2>2. Median = 0
    BY <1>2, <2>1 DEF Median
  <2> QED  BY <1>1, <1>4, <2>2
<1>5. CASE ~(n < Capacity)
  <2>1. PICK values \in [Indexes -> Nat] : values = median.values
    BY DEF MedianOK
  <2>2. median.sorted = Sorted(values) /\ median.size = Capacity - 1
    BY <1>1, <1>3, <1>5, <2>1 DEF MedianOK
  <2>3. PICK p \in Orders : /\ Sorted(values) = [i \in Indexes |-> values[p[i]]]
                            /\ \A i, j \in Indexes : i <= j => values[p[i]] <= values[p[j]]
    BY SortedOrder
  <2>4. PICK m \in Nat : m = values[p[h]]
    BY DEF Orders
  <2>5. Median = m
    BY <1>2, <1>3, <2>2, <2>3, <2>4 DEF Median
  <2>6. /\ Latest \subseteq 1 .. n /\ IsFiniteSet(Latest) /\ Cardinality(Latest) = Capacity
        /\ n >= Capacity
    BY <1>1, <1>3, <1>5, LatestSet
  <2>7. ASSUME NEW i \in Latest
        PROVE  history[i].y \in Nat /\ history[i].y = values[(i - 1) % Capacity]
    <3>1. i \in 1 .. n /\ i > n - Capacity
      BY <1>1, <2>6 DEF Latest
    <3>2. RingHolds(values, Ys, n) /\ Ys[i] = history[i].y
      BY <1>1, <2>1, <3>1 DEF MedianOK, Ys
    <3>3. history[i].y \in Nat
      BY <1>1, <3>1, SamplesAreNumbers
    <3> QED  BY <3>1, <3>2, <3>3 DEF RingHolds
  <2> DEFINE Below == {i \in Latest : history[i].y < m}
             NotBelow == {i \in Latest : history[i].y >= m}
             NotAbove == {i \in Latest : history[i].y <= m}
  <2>8. Cardinality(0 .. h) <= Cardinality(NotAbove)
    <3>1. PICK J \in SUBSET Indexes : J = 0 .. h
      BY <1>3 DEF Indexes
    <3>2. ASSUME NEW i \in Latest, NEW j \in J, (i - 1) % Capacity = p[j] PROVE i \in NotAbove
      <4>1. values[p[j]] <= values[p[h]]
        BY <1>3, <2>3, <3>1
      <4> QED  BY <2>4, <2>7, <3>2, <4>1
    <3>3. NotAbove \in SUBSET Latest
      OBVIOUS
    <3> HIDE DEF NotAbove
    <3>4. Cardinality(J) <= Cardinality(NotAbove)
      BY <1>1, <2>6, <3>2, <3>3, AsManySamples
    <3> QED  BY <3>1, <3>4
  <2>9. Cardinality(h .. Capacity - 1) <= Cardinality(NotBelow)
    <3>1. PICK J \in SUBSET Indexes : J = h .. Capacity - 1
      BY <1>3 DEF Indexes
    <3>2. ASSUME NEW i \in Latest, NEW j \in J, (i - 1) % Capacity = p[j] PROVE i \in NotBelow
      <4>1. values[p[h]] <= values[p[j]]
        BY <1>3, <2>3, <3>1
      <4> QED  BY <2>4, <2>7, <3>2, <4>1
    <3>3. NotBelow \in SUBSET Latest
      OBVIOUS
    <3> HIDE DEF NotBelow
    <3>4. Cardinality(J) <= Cardinality(NotBelow)
      BY <1>1, <2>6, <3>2, <3>3, AsManySamples
    <3> QED  BY <3>1, <3>4
  <2>10. Cardinality(0 .. h) = h + 1 /\ Cardinality(h .. Capacity - 1) = Capacity - h
    <3>1. PICK c \in Int : c = Capacity - 1
      BY <1>3
    <3>2. Cardinality(0 .. h) = h + 1
      BY <1>3, FS_Interval
    <3>3. Cardinality(h .. c) = Capacity - h
      BY <1>3, <3>1, FS_Interval
    <3> QED  BY <3>1, <3>2, <3>3
  <2>11. Below = Latest \ NotBelow /\ Latest \cap NotBelow = NotBelow
    BY <2>4, <2>7
  <2>12. \A S \in SUBSET Latest : IsFiniteSet(S) /\ Cardinality(S) \in Nat
    BY <2>6, FS_Subset, FS_CardinalityType
  <2>13. NotAbove \in SUBSET Latest /\ NotBelow \in SUBSET Latest /\ Below \in SUBSET Latest
    OBVIOUS
  <2> HIDE DEF Below, NotBelow, NotAbove
  <2>14. Cardinality(Latest \ NotBelow) = Cardinality(Latest) - Cardinality(Latest \cap NotBelow)
    BY <2>6, FS_Difference
  <2>15. Cardinality(Below) = Capacity - Cardinality(NotBelow)
    BY <2>6, <2>11, <2>14
  <2>16. Cardinality(NotAbove) \in Nat /\ Cardinality(NotBelow) \in Nat
    BY <2>12, <2>13
  <2>17. Cardinality(Below) <= h /\ Cardinality(NotAbove) > h
    BY <1>3, <2>8, <2>9, <2>10, <2>15, <2>16
  <2>18. Cardinality({i \in Latest : history[i].y < Median}) <= Capacity \div 2
    BY <1>2, <2>5, <2>17 DEF Below
  <2>19. Cardinality({i \in Latest : history[i].y <= Median}) > Capacity \div 2
    BY <1>2, <2>5, <2>17 DEF NotAbove
  <2> QED  BY <1>1, <1>5, <2>18, <2>19
<1> QED  BY <1>4, <1>5

-----------------------------------------------------------------------------
(***************************************************************************)
(* The inductive invariant of the windows.  A Reset leaves the state of a  *)
(* new window at any time, so the two are the same case.                   *)
(***************************************************************************)
WindowsInv == HistoryOK /\ CountingOK /\ TimedOK /\ CorrelationOK /\ DequeOK /\ MedianOK

NewWindows ==
  /\ clock \in Nat
  /\ xSamples = NewMovingSum /\ ySamples = NewMovingSum /\ corrSumXY = 0
  /\ deque = <<>>
  /\ median = NewMovingMedian
  /\ counting = NewCountingStats
  /\ timed = NewTimedStats
  /\ history = <<>> /\ xs = <<>> /\ ys = <<>>

\* Nothing adds up to nothing.
LEMMA NoTotal == Total(LastOf(<<>>, Capacity)) = 0
<1>1. <<>> \in Seq(Int) /\ Len(<<>>) = 0
  OBVIOUS
<1>2. PrefixSums([i \in {0} |-> 0], <<>>)
  BY <1>1 DEF PrefixSums
<1>3. Capacity \in Nat
  BY WindowsConstants
<1> QED BY <1>1, <1>2, <1>3, TotalOfLast

\* A moving sum of no values.
LEMMA NewSum == SumOK(NewMovingSum, <<>>)
<1>1. <<>> \in Seq(Nat) /\ Len(<<>>) = 0 /\ Capacity \in Nat \ {0}
  BY WindowsConstants
<1>2. Squares(<<>>) = <<>>
  BY DEF Squares
<1>3. 0 % Capacity = 0
  BY <1>1, RemainderUnique
<1>4. RingHolds(NewMovingSum.samples, <<>>, 0)
  BY DEF RingHolds
<1> QED BY <1>1, <1>2, <1>3, <1>4, NoTotal DEF SumOK, NewMovingSum

\* New windows satisfy the invariant.
LEMMA NewWindowsOK == ASSUME NewWindows PROVE WindowsInv
<1>1. history = <<>> /\ Len(history) = 0 /\ clock \in Nat
  BY DEF NewWindows
<1>2. Capacity \in Nat \ {0} /\ BucketCount \in Nat \ {0} /\ BucketNanos \in Nat \ {0}
  BY WindowsConstants
<1>3. 0 % Capacity = 0
  BY <1>2, RemainderUnique
<1>4. HistoryOK
  BY <1>1 DEF HistoryOK
<1>5. Latest = {} /\ Cardinality({}) = 0
  BY <1>1, FS_EmptySet DEF Latest
<1>6. CountingOK
  <2>1. LatestSuccesses = {} /\ LatestFailures = {}
    BY <1>5 DEF LatestSuccesses, LatestFailures
  <2> QED BY <1>1, <1>3, <1>5, <2>1 DEF CountingOK, NewWindows, NewCountingStats
<1>7. TimedOK
  <2>1. \A field : Hits(field) = {}
    BY <1>1 DEF Hits
  <2>2. \A field, t : In(field, t) = {} /\ After(field, t) = {}
    BY <2>1 DEF In, After
  <2>3. timed = NewTimedStats
    BY DEF NewWindows
  <2>4. \A t \in Int : t % BucketCount \in 0 .. BucketCount - 1
    BY <1>2, Remainder
  <2>5. timed \in [buckets : [0 .. BucketCount - 1 -> Counts], summary : Counts, headTime : Nat]
    BY <2>3 DEF NewTimedStats, NoResults, Counts
  <2>6. ASSUME NEW field \in Fields, NEW t \in timed.headTime - BucketCount + 1 .. timed.headTime
        PROVE  timed.buckets[t % BucketCount][field] = Cardinality(In(field, t))
    <3>1. t \in Int
      BY <1>2, <2>3 DEF NewTimedStats
    <3>2. timed.buckets[t % BucketCount] = NoResults
      BY <2>3, <2>4, <3>1 DEF NewTimedStats
    <3>3. NoResults[field] = 0
      BY DEF NoResults, Fields
    <3> QED BY <1>5, <2>2, <3>2, <3>3
  <2>7. \A field \in Fields :
          timed.summary[field] = Cardinality(After(field, timed.headTime - BucketCount))
    <3>1. timed.summary = NoResults
      BY <2>3 DEF NewTimedStats
    <3>2. \A field \in Fields : NoResults[field] = 0
      BY DEF NoResults, Fields
    <3> QED BY <1>5, <2>2, <3>1, <3>2
  <2>8. Holds(timed)
    BY <1>1, <2>5, <2>6, <2>7 DEF Holds
  <2>9. timed.headTime <= clock \div BucketNanos
    BY <1>1, <1>2, <2>3, Division DEF NewTimedStats
  <2> QED BY <2>8, <2>9 DEF TimedOK
<1>8. CorrelationOK
  <2>1. SumOK(xSamples, xs) /\ SumOK(ySamples, ys)
    BY NewSum DEF NewWindows
  <2>2. Products = <<>>
    <3>1. Len(xs) = 0
      BY DEF NewWindows
    <3> QED  BY <3>1 DEF Products
  <2>3. corrSumXY = Total(LastOf(Products, Capacity)) /\ Len(xs) = 0 /\ Len(ys) = 0
    BY <2>2, NoTotal DEF NewWindows
  <2> QED BY <1>1, <2>1, <2>3 DEF CorrelationOK
<1>9. DequeOK
  <2>1. deque = <<>> /\ Len(deque) = 0
    BY DEF NewWindows
  <2>2. deque \in Seq(DequeEntries)
    BY <2>1
  <2> QED BY <1>1, <2>1, <2>2 DEF DequeOK, Falling
<1>10. MedianOK
  <2>1. median = NewMovingMedian
    BY DEF NewWindows
  <2>2. RingHolds(median.values, Ys, 0)
    BY DEF RingHolds
  <2> QED BY <1>1, <1>2, <1>3, <2>1, <2>2 DEF MedianOK, NewMovingMedian
<1> QED BY <1>4, <1>6, <1>7, <1>8, <1>9, <1>10 DEF WindowsInv

\* Time that passes changes no window: the window of the last recording only gets older.
LEMMA ClockTicksOK == ASSUME WindowsInv, ClockTicks PROVE WindowsInv'
<1>1. /\ clock' = clock + 1 /\ clock \in Nat
      /\ xSamples' = xSamples /\ ySamples' = ySamples /\ corrSumXY' = corrSumXY
      /\ deque' = deque /\ median' = median /\ counting' = counting /\ timed' = timed
      /\ history' = history /\ xs' = xs /\ ys' = ys
  BY DEF WindowsInv, HistoryOK, ClockTicks, windows
<1>2. HistoryOK'
  <2>1. ASSUME NEW i \in 1 .. Len(history) PROVE history[i].at \in Nat /\ history[i].at <= clock
    <3>1. history[i] \in Samples
      BY DEF WindowsInv, HistoryOK
    <3> QED BY <3>1 DEF WindowsInv, HistoryOK, Samples
  <2> QED BY <1>1, <2>1 DEF WindowsInv, HistoryOK
<1>3. CountingOK'
  BY <1>1 DEF WindowsInv, CountingOK, Latest, LatestSuccesses, LatestFailures
<1>4. TimedOK'
  <2>1. Holds(timed)'
    <3>1. Holds(timed) /\ history' = history /\ timed' = timed
      BY <1>1 DEF WindowsInv, TimedOK
    <3> QED BY <3>1 DEF Holds, In, After, Hits, Bucket
  <2>2. /\ clock \div BucketNanos \in Nat /\ (clock + 1) \div BucketNanos \in Nat
        /\ BucketNanos * (clock \div BucketNanos) <= clock
        /\ clock + 1 < BucketNanos * ((clock + 1) \div BucketNanos) + BucketNanos
    BY <1>1, WindowsConstants, Division
  <2>3. clock \div BucketNanos <= (clock + 1) \div BucketNanos
    <3> DEFINE a == (clock + 1) \div BucketNanos
               b == clock \div BucketNanos
    <3>1. BucketNanos \in Nat \ {0} /\ a \in Nat /\ b \in Nat
      BY <2>2, WindowsConstants
    <3>2. a < b => BucketNanos * a + BucketNanos <= BucketNanos * b
      BY <3>1, ProductOrder
    <3>3. BucketNanos * a \in Nat /\ BucketNanos * b \in Nat
      BY <3>1
    <3> HIDE DEF a, b
    <3>4. ~(a < b)
      BY <1>1, <2>2, <3>1, <3>2, <3>3 DEF a, b
    <3>5. b <= a
      BY <3>1, <3>4
    <3> QED BY <3>5 DEF a, b
  <2>4. timed.headTime \in Nat /\ timed.headTime <= clock \div BucketNanos
    BY DEF WindowsInv, TimedOK, Holds
  <2>5. timed.headTime <= (clock + 1) \div BucketNanos
    BY <2>2, <2>3, <2>4
  <2> QED BY <1>1, <2>1, <2>5 DEF TimedOK
<1>5. CorrelationOK'
  BY <1>1 DEF WindowsInv, CorrelationOK, InStep, Products
<1>6. DequeOK'
  BY <1>1 DEF WindowsInv, DequeOK, LastAt
<1>7. MedianOK'
  BY <1>1 DEF WindowsInv, MedianOK, Ys
<1> QED BY <1>2, <1>3, <1>4, <1>5, <1>6, <1>7 DEF WindowsInv

\* What the counters promise follows from the two invariants about them.
LEMMA CountsAre == ASSUME CountingOK, TimedOK PROVE CountsExact
<1> DEFINE in == {i \in 1 .. Len(history) :
                    history[i].at \div BucketNanos > timed.headTime - BucketCount}
<1>1. /\ {i \in in : history[i].x = 1} = After("successes", timed.headTime - BucketCount)
      /\ {i \in in : history[i].x # 1} = After("failures", timed.headTime - BucketCount)
  BY DEF After, Hits, Bucket
<1>2. /\ timed.summary["successes"] = Cardinality(After("successes", timed.headTime - BucketCount))
      /\ timed.summary["failures"] = Cardinality(After("failures", timed.headTime - BucketCount))
  BY DEF TimedOK, Holds, Fields
<1>3. /\ timed.summary.successes = Cardinality({i \in in : history[i].x = 1})
      /\ timed.summary.failures = Cardinality({i \in in : history[i].x # 1})
  BY <1>1, <1>2
<1>4. /\ counting.successes = Cardinality({i \in Latest : history[i].x = 1})
      /\ counting.failures = Cardinality({i \in Latest : history[i].x # 1})
      /\ counting.occupiedBits = Cardinality(Latest)
  BY DEF CountingOK, LatestSuccesses, LatestFailures
<1> QED BY <1>3, <1>4 DEF CountsExact

\* And so does what the deque and the sorted copy promise.
LEMMA OrderStatisticsAre == ASSUME HistoryOK, DequeOK, MedianOK PROVE OrderStatisticsExact
<1> SUFFICES ASSUME history # <<>>
             PROVE  /\ MaxValue = Max({history[i].x : i \in
                         {i \in 1 .. Len(history) : history[i].at > history[Len(history)].at - Window}})
                    /\ IF Len(history) < Capacity
                         THEN Median = 0
                         ELSE /\ Cardinality({i \in Latest : history[i].y < Median}) <= Capacity \div 2
                              /\ Cardinality({i \in Latest : history[i].y <= Median}) > Capacity \div 2
  BY DEF OrderStatisticsExact
<1>1. MaxValue = Max({history[i].x : i \in
        {i \in 1 .. Len(history) : history[i].at > history[Len(history)].at - Window}})
  BY MaxIsExact DEF LastAt
<1> QED BY <1>1, MedianIsExact

(***************************************************************************)
(* Every ring, bucket, sum, deque entry and sorted copy stands for the     *)
(* samples it should, whatever samples are added, at whatever times and    *)
(* with whatever resets between.                                           *)
(***************************************************************************)
THEOREM WindowsInvariance == WindowsSpec => []WindowsInv
<1>1. WindowsInit => NewWindows
  BY WindowsConstants DEF WindowsInit, NewWindows
<1>2. NewWindows => WindowsInv
  BY NewWindowsOK
<1>3. ASSUME WindowsInv, [WindowsNext]_windowsVars PROVE WindowsInv' \/ NewWindows'
  <2>1. ASSUME NEW x \in XSamples, NEW y \in YSamples, Add(x, y) PROVE WindowsInv'
    <3>1. HistoryOK' BY <1>3, <2>1, HistoryStep DEF WindowsInv
    <3>2. CountingOK' BY <1>3, <2>1, CountingStep DEF WindowsInv
    <3>3. TimedOK' BY <1>3, <2>1, TimedStep DEF WindowsInv
    <3>4. CorrelationOK' BY <1>3, <2>1, CorrelationStep DEF WindowsInv
    <3>5. DequeOK' BY <1>3, <2>1, DequeStep DEF WindowsInv
    <3>6. MedianOK' BY <1>3, <2>1, MedianStep DEF WindowsInv
    <3> QED BY <3>1, <3>2, <3>3, <3>4, <3>5, <3>6 DEF WindowsInv
  <2>2. CASE Reset
    BY <1>3, <2>2 DEF Reset, NewWindows, WindowsInv, HistoryOK
  <2>3. CASE ClockTicks
    BY <1>3, <2>3, ClockTicksOK
  <2>4. CASE UNCHANGED windowsVars
    <3>1. HistoryOK'
      BY <1>3, <2>4 DEF WindowsInv, HistoryOK, windowsVars
    <3>2. CountingOK'
      BY <1>3, <2>4 DEF WindowsInv, CountingOK, Latest, LatestSuccesses, LatestFailures, windowsVars, windows
    <3>3. TimedOK'
      BY <1>3, <2>4 DEF WindowsInv, TimedOK, Holds, In, After, Hits, Bucket, windowsVars, windows
    <3>4. CorrelationOK'
      BY <1>3, <2>4 DEF WindowsInv, CorrelationOK, InStep, Products, windowsVars, windows
    <3>5. DequeOK'
      BY <1>3, <2>4 DEF WindowsInv, DequeOK, LastAt, windowsVars, windows
    <3>6. MedianOK'
      BY <1>3, <2>4 DEF WindowsInv, MedianOK, Ys, windowsVars, windows
    <3> QED BY <3>1, <3>2, <3>3, <3>4, <3>5, <3>6 DEF WindowsInv
  <2> QED BY <1>3, <2>1, <2>2, <2>3, <2>4 DEF WindowsNext
<1> QED BY <1>1, <1>2, <1>3, PTL DEF WindowsSpec

(***************************************************************************)
(* The counters of countingStats and timedStats are exact for every        *)
(* capacity, number and length of buckets.                                 *)
(***************************************************************************)
THEOREM CountsAreExact == WindowsSpec => []CountsExact
<1>1. WindowsInv => CountsExact
  BY CountsAre DEF WindowsInv
<1> QED BY <1>1, WindowsInvariance, PTL

(***************************************************************************)
(* The sums of a MovingSum and a CorrelationWindow are exact for every     *)
(* capacity.                                                               *)
(***************************************************************************)
THEOREM CorrelationsAreExact == WindowsSpec => []CorrelationExact
<1>1. WindowsInv => CorrelationExact
  BY CorrelationIsExact DEF WindowsInv
<1> QED BY <1>1, WindowsInvariance, PTL

(***************************************************************************)
(* MaxWindow and MovingMedian return the maximum and the median for every  *)
(* duration and capacity.                                                  *)
(***************************************************************************)
THEOREM OrderStatisticsAreExact == WindowsSpec => []OrderStatisticsExact
<1>1. WindowsInv => OrderStatisticsExact
  BY OrderStatisticsAre DEF WindowsInv
<1> QED BY <1>1, WindowsInvariance, PTL

=============================================================================
