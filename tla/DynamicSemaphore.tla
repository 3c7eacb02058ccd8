-------------------------- MODULE DynamicSemaphore --------------------------
(***************************************************************************)
(* util.DynamicSemaphore (internal/util/semaphore.go): a counting          *)
(* semaphore whose size can change while it is in use and whose blocked    *)
(* callers are served first-in first-out.  The adaptive limiter and its    *)
(* queueing and priority variants are built on it.                         *)
(*                                                                         *)
(* Every step is one critical section of s.mu, or one choice of the select *)
(* statement that a blocked caller sits in.  The interesting states are    *)
(* the ones between two such steps of one call: a caller whose channel has *)
(* been closed by a releaser but that has already chosen the ctx.Done() or *)
(* the timer case of its select, and is about to enter drainWaiter.        *)
(***************************************************************************)
EXTENDS Integers, Sequences, SequencesExt, FiniteSets

CONSTANTS
    Callers,      \* goroutines that use the semaphore, one call at a time each
    Sizes         \* sizes that NewDynamicSemaphore and SetSize are called with

ASSUME SizesAssumption   == Sizes \subseteq Nat
ASSUME CallersAssumption == IsFiniteSet(Callers)

VARIABLES
    size,         \* s.size
    used,         \* s.used
    waiters,      \* s.waiters: the callers that own the queued channels, oldest first
    ready,        \* callers whose waiter channel has been closed and not yet received from
    pc,           \* where each caller is in its current call
    err,          \* the error a caller's pending or last call reports, or "nil"
    timed,        \* callers whose current call set a timer (AcquireWithMaxWait)
    done          \* callers whose current context is done

vars == <<size, used, waiters, ready, pc, err, timed, done>>

(***************************************************************************)
(* "idle": outside the semaphore, holding nothing.  "select": blocked on   *)
(* its channel.  "drain": left the select through ctx.Done() or the timer, *)
(* drainWaiter not yet run.  "holding": its acquire returned nil.  A       *)
(* Release that finds s.used <= 0 takes its caller to "panicked", which is *)
(* not one of the states a caller may be in.                               *)
(***************************************************************************)
PCs  == {"idle", "select", "drain", "holding"}
Errs == {"nil", "ctx", "ErrWaitExceeded"}

\* Types, and the absence of the panic of Release: a caller that gives back a permit it holds
\* never finds s.used at zero.
TypeOK ==
    /\ size \in Sizes
    /\ used \in Int
    /\ waiters \in Seq(Callers)
    /\ ready \subseteq Callers
    /\ pc \in [Callers -> PCs]
    /\ err \in [Callers -> Errs]
    /\ timed \subseteq Callers
    /\ done \subseteq Callers

-----------------------------------------------------------------------------
Init ==
    /\ size \in Sizes
    /\ used = 0
    /\ waiters = <<>>
    /\ ready = {}
    /\ pc = [c \in Callers |-> "idle"]
    /\ err = [c \in Callers |-> "nil"]
    /\ timed = {}
    /\ done = {}

(***************************************************************************)
(* The outcomes of entering an acquire.                                    *)
(***************************************************************************)
Available == used < size

Take_Uncounted(c) ==
    /\ pc' = [pc EXCEPT ![c] = "holding"]
    /\ err' = [err EXCEPT ![c] = "nil"]
    /\ UNCHANGED <<used, waiters, timed>>

Take(c) ==
    /\ used' = used + 1
    /\ pc' = [pc EXCEPT ![c] = "holding"]
    /\ err' = [err EXCEPT ![c] = "nil"]
    /\ UNCHANGED <<waiters, timed>>

Enqueue(c) ==
    /\ waiters' = Append(waiters, c)
    /\ pc' = [pc EXCEPT ![c] = "select"]
    /\ err' = [err EXCEPT ![c] = "nil"]
    /\ UNCHANGED used

Acquire(c) ==
    /\ pc[c] = "idle"
    /\ \/ Available /\ Take(c)
       \/ ~Available /\ Enqueue(c) /\ timed' = timed \ {c}
    /\ UNCHANGED <<size, ready, done>>

\* AcquireWithMaxWait with maxWaitTime > 0
AcquireWithMaxWait(c) ==
    /\ pc[c] = "idle"
    /\ \/ Available /\ Take(c)
       \/ ~Available /\ Enqueue(c) /\ timed' = timed \cup {c}
    /\ UNCHANGED <<size, ready, done>>

\* AcquireWithMaxWait with maxWaitTime = 0
AcquireWithoutWait(c) ==
    /\ pc[c] = "idle"
    /\ \/ Available /\ Take(c)
       \/ /\ ~Available
          /\ err' = [err EXCEPT ![c] = "ErrWaitExceeded"]
          /\ UNCHANGED <<used, waiters, pc, timed>>
    /\ UNCHANGED <<size, ready, done>>

TryAcquire(c) ==
    /\ pc[c] = "idle"
    /\ Available
    /\ Take(c)
    /\ UNCHANGED <<size, ready, done>>

(***************************************************************************)
(* The select statement of a blocked caller.  When several cases are ready *)
(* Go picks any of them.                                                   *)
(***************************************************************************)
ReceiveFromWaiter(c) ==
    /\ pc[c] = "select"
    /\ c \in ready
    /\ ready' = ready \ {c}
    /\ pc' = [pc EXCEPT ![c] = "holding"]
    /\ UNCHANGED <<size, used, waiters, err, timed, done>>

ContextDone(c) ==
    /\ pc[c] = "select"
    /\ c \in done
    /\ pc' = [pc EXCEPT ![c] = "drain"]
    /\ err' = [err EXCEPT ![c] = "ctx"]
    /\ UNCHANGED <<size, used, waiters, ready, timed, done>>

TimerFired(c) ==
    /\ pc[c] = "select"
    /\ c \in timed
    /\ pc' = [pc EXCEPT ![c] = "drain"]
    /\ err' = [err EXCEPT ![c] = "ErrWaitExceeded"]
    /\ UNCHANGED <<size, used, waiters, ready, timed, done>>

\* drainWaiter without its look at the waiter channel.
KeepGrantedPermit_Dropped(c) ==
    /\ c \in ready
    /\ ready' = ready \ {c}
    /\ pc' = [pc EXCEPT ![c] = "idle"]
    /\ UNCHANGED <<waiters, err>>

\* A permit that was granted while the caller was giving up.
KeepGrantedPermit(c) ==
    /\ c \in ready
    /\ ready' = ready \ {c}
    /\ pc' = [pc EXCEPT ![c] = "holding"]
    /\ err' = [err EXCEPT ![c] = "nil"]
    /\ UNCHANGED waiters

RemoveWaiter(c) ==
    /\ c \notin ready
    /\ \E i \in 1..Len(waiters) :
          /\ waiters[i] = c
          /\ waiters' = RemoveAt(waiters, i)
    /\ pc' = [pc EXCEPT ![c] = "idle"]
    /\ UNCHANGED <<ready, err>>

DrainWaiter(c) ==
    /\ pc[c] = "drain"
    /\ KeepGrantedPermit(c) \/ RemoveWaiter(c)
    /\ UNCHANGED <<size, used, timed, done>>

(***************************************************************************)
(* wakeAndAcquire, applied to the k oldest waiters: each one is counted in *)
(* used, leaves the list and has its channel closed.                       *)
(***************************************************************************)
WakeAndAcquire(k, base) ==
    /\ used' = base + k
    /\ waiters' = SubSeq(waiters, k + 1, Len(waiters))
    /\ ready' = ready \cup {waiters[i] : i \in 1..k}

AtMost(a, b) == IF a < b THEN a ELSE b

\* Release wakes one waiter if the permit it gives back leaves the semaphore below its size.
ReleaseWakes_Never == 0

ReleaseWakes == IF used - 1 < size /\ Len(waiters) > 0 THEN 1 ELSE 0

Release(c) ==
    /\ pc[c] = "holding"
    /\ \/ /\ used > 0
          /\ WakeAndAcquire(ReleaseWakes, used - 1)
          /\ pc' = [pc EXCEPT ![c] = "idle"]
       \/ /\ used <= 0
          /\ pc' = [pc EXCEPT ![c] = "panicked"]
          /\ UNCHANGED <<used, waiters, ready>>
    /\ UNCHANGED <<size, err, timed, done>>

\* The number of iterations of SetSize's loop: waiters are woken until used reaches the new size.
SetSizeWakes_One(n) == IF n > size /\ used < n /\ Len(waiters) > 0 THEN 1 ELSE 0

SetSizeWakes_OneTooMany(n) ==
    IF n > size /\ used <= n THEN AtMost(n + 1 - used, Len(waiters)) ELSE 0

SetSizeWakes(n) ==
    IF n > size /\ used < n THEN AtMost(n - used, Len(waiters)) ELSE 0

SetSize(n) ==
    /\ n # size
    /\ WakeAndAcquire(SetSizeWakes(n), used)
    /\ size' = n
    /\ UNCHANGED <<pc, err, timed, done>>

(***************************************************************************)
(* The caller's context: it may be done before, during or after a call,    *)
(* and a later call may come with a fresh one.                             *)
(***************************************************************************)
CancelContext(c) ==
    /\ c \notin done
    /\ done' = done \cup {c}
    /\ UNCHANGED <<size, used, waiters, ready, pc, err, timed>>

FreshContext(c) ==
    /\ pc[c] \in {"idle", "holding"}
    /\ c \in done
    /\ done' = done \ {c}
    /\ UNCHANGED <<size, used, waiters, ready, pc, err, timed>>

-----------------------------------------------------------------------------
Next ==
    \/ \E c \in Callers :
          \/ Acquire(c) \/ AcquireWithMaxWait(c) \/ AcquireWithoutWait(c) \/ TryAcquire(c)
          \/ ReceiveFromWaiter(c) \/ ContextDone(c) \/ TimerFired(c) \/ DrainWaiter(c)
          \/ Release(c)
          \/ CancelContext(c) \/ FreshContext(c)
    \/ \E n \in Sizes : SetSize(n)

Spec == Init /\ [][Next]_vars

(***************************************************************************)
(* A goroutine whose channel is closed is scheduled, one that left its     *)
(* select gets the mutex, and users give back the permits they hold (the   *)
(* executors release in PostExecute or a deferred call).  Nothing is       *)
(* assumed of timers, contexts, new calls or resizes.                      *)
(***************************************************************************)
Fairness ==
    \A c \in Callers :
        /\ WF_vars(ReceiveFromWaiter(c))
        /\ WF_vars(DrainWaiter(c))
        /\ WF_vars(Release(c))

LiveSpec == Spec /\ Fairness

-----------------------------------------------------------------------------
(***************************************************************************)
(* Properties.                                                             *)
(***************************************************************************)
\* The callers that a permit is accounted to: their acquire returned nil, or a releaser has
\* already granted them a permit that they have not noticed yet.
Owners == {c \in Callers : pc[c] = "holding"} \cup ready

\* s.used is the number of permits handed out, whatever the order in which a grant, a timeout, a
\* cancellation and a resize meet: no permit is lost when drainWaiter loses the race against
\* wakeAndAcquire, and none is given out twice.
PermitsConserved == used = Cardinality(Owners)

\* No lost wakeup: a caller is blocked only while every permit is in use.  With one waiter woken
\* per Release and a loop in SetSize, this is what makes "wake one" enough.
WaitersOnlyWhenFull == waiters # <<>> => used >= size

\* A queued channel belongs to a caller that still waits for it, once, and a blocked caller that
\* was not granted a permit is in the queue: wakeAndAcquire never grants to a caller that has
\* given up, and no caller blocks on a channel nobody will close.
QueueMatchesBlocked ==
    /\ \A i, j \in 1..Len(waiters) : waiters[i] = waiters[j] => i = j
    /\ \A c \in Callers :
          pc[c] \in {"select", "drain"} <=> (c \in ready \/ \E i \in 1..Len(waiters) : waiters[i] = c)
    /\ \A i \in 1..Len(waiters) : waiters[i] \notin ready

\* A step that hands out permits never takes the semaphore past its size (a shrink may leave it
\* above its size, but then nobody is admitted until enough permits came back).
NeverOverAdmits == [][used' > used => used' <= size']_vars

\* Callers of the semaphore see a PermitPool: an acquire, a release or a resize is one atomic
\* change of it, whatever selects, timers and drains go on in between.  A permit granted to a
\* caller that is giving up is its permit from the grant on, and noticing it changes nothing.
Pool == INSTANCE PermitPool WITH owners <- Owners, queue <- waiters

ImplementsPermitPool == Pool!Spec

\* A caller without timer and live context that blocks is then eventually served.
BlockedCallerServed ==
    <>[](size > 0) =>
        \A c \in Callers : pc[c] = "select" /\ c \notin timed ~> pc[c] = "holding" \/ c \in done

=============================================================================
