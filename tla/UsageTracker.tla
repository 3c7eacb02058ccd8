---------------------------- MODULE UsageTracker ----------------------------
(***************************************************************************)
(* priority.UsageTracker (src/priority/usage.go): the recent usage of a    *)
(* bounded set of users, kept in least-recently-used order, from which     *)
(* calibration derives the share of users that used less, and GetLevel the *)
(* priority level of a user within its priority.                           *)
(*                                                                         *)
(* The 30 buckets of a user's window are one bucket here, so that usage    *)
(* expires as a whole; the arithmetic of the buckets is the subject of     *)
(* module Windows.  A priority has LevelWidth levels in place of 100.      *)
(***************************************************************************)
EXTENDS Integers, Sequences, SequencesExt, FiniteSets

CONSTANTS
  Users, Usages,
  MaxUsers,
  WindowDuration,
  NumPriorities, LevelWidth,
  MaxTime,              \* bound on the clock
  MaxUsage              \* bound on the usage within a window

ASSUME UsageAssumption ==
  /\ Usages \subseteq Nat \ {0}
  /\ {MaxUsers, WindowDuration, NumPriorities, LevelWidth} \subseteq Nat \ {0}
  /\ MaxTime \in Nat /\ MaxUsage \in Nat

VARIABLES
  now,
  users,     \* user -> entry, for the tracked users
  lru        \* the tracked users, most recently active first

usageVars == <<now, users, lru>>

Priorities == 0 .. NumPriorities - 1
Uncalibrated == -1

LevelRange(p) == [lower |-> p * LevelWidth, upper |-> p * LevelWidth + LevelWidth - 1]

-----------------------------------------------------------------------------
UsageInit == now = 0 /\ users = <<>> /\ lru = <<>>

\* ExpireBuckets of a user's window.
Expire(entry) ==
  LET newHead == now \div WindowDuration
  IN IF newHead > entry.headTime
       THEN [entry EXCEPT !.usage = 0, !.headTime = newHead]
       ELSE entry

NewEntry ==
  [usage |-> 0, headTime |-> now \div WindowDuration, quantile |-> Uncalibrated,
   lastActive |-> now, weighed |-> 0]

EvictOldest == IF lru = <<>> THEN {} ELSE {Last(lru)}

LruMoved(u, evicted) == <<u>> \o SelectSeq(lru, LAMBDA v : v # u /\ v \notin evicted)

\* RecordUsage: a user that is new to a full tracker takes the place of the user that was
\* inactive for the longest time.
RecordUsage(u, usage) ==
  LET evicted == IF u \notin DOMAIN users /\ Cardinality(DOMAIN users) >= MaxUsers
                   THEN EvictOldest ELSE {}
      entry == IF u \in DOMAIN users THEN Expire(users[u]) ELSE NewEntry
      updated == [entry EXCEPT !.lastActive = now, !.usage = @ + usage]
  IN /\ entry.usage + usage <= MaxUsage
     /\ users' = [v \in (DOMAIN users \ evicted) \cup {u} |->
                    IF v = u THEN updated ELSE users[v]]
     /\ lru' = LruMoved(u, evicted)
     /\ UNCHANGED now

\* math.Round(v * 100) / 100, in hundredths.
RoundedShare(index, length) == (200 * index + length) \div (2 * length)

ComputeQuantileUpper(usage, active) ==
  RoundedShare(Cardinality({v \in DOMAIN active : active[v].usage > usage}),
               Cardinality(DOMAIN active))

\* sort.Search finds the first of the sorted usages that is not smaller.
ComputeQuantile(usage, active) ==
  RoundedShare(Cardinality({v \in DOMAIN active : active[v].usage < usage}),
               Cardinality(DOMAIN active))

\* Calibrate: users without usage are dropped once they were inactive for 2 windows.
CalibrateUsage ==
  LET expired == [v \in DOMAIN users |-> Expire(users[v])]
      active == [v \in {w \in DOMAIN users : expired[w].usage > 0} |-> expired[v]]
      dropped == {v \in DOMAIN users \ DOMAIN active :
                    expired[v].lastActive < now - 2 * WindowDuration}
  IN /\ users' = [v \in DOMAIN users \ dropped |->
                    [expired[v] EXCEPT
                       !.quantile = IF v \in DOMAIN active
                                      THEN ComputeQuantile(expired[v].usage, active)
                                      ELSE Uncalibrated,
                       !.weighed = expired[v].usage]]
     /\ lru' = SelectSeq(lru, LAMBDA v : v \notin dropped)
     /\ UNCHANGED now

GetLevel(u, p) ==
  LET range == LevelRange(p)
  IN IF u \notin DOMAIN users THEN range.upper
     ELSE IF users[u].usage = 0 \/ users[u].quantile < 0 THEN range.upper
     ELSE range.lower + ((LevelWidth - 1) * (100 - users[u].quantile)) \div 100

TimePasses ==
  /\ now < MaxTime
  /\ now' = now + 1
  /\ UNCHANGED <<users, lru>>

-----------------------------------------------------------------------------
(***************************************************************************)
(* Fairness of GetLevel: of two users weighed by the last calibration, the *)
(* one that used less never gets the lower level of a priority, and every  *)
(* level stays within the range of the priority.  "weighed" is the usage   *)
(* an entry had when it was calibrated.                                    *)
(***************************************************************************)
LighterUserPreferred ==
  \A p \in Priorities :
    /\ \A u \in Users : GetLevel(u, p) \in LevelRange(p).lower .. LevelRange(p).upper
    /\ \A u, v \in DOMAIN users :
          /\ users[u].quantile >= 0 /\ users[v].quantile >= 0
          /\ users[u].usage > 0 /\ users[v].usage > 0
          /\ users[u].weighed < users[v].weighed
          => GetLevel(u, p) >= GetLevel(v, p)

=============================================================================
