----------------------------- MODULE PermitPool -----------------------------
(***************************************************************************)
(* What a resizable semaphore promises, and all that its users need to     *)
(* know: a set of permit owners, a first-in first-out queue of callers     *)
(* that wait, and a size.  A caller takes a permit only when one is free   *)
(* and nobody waits, a returned permit goes to the caller that waited      *)
(* longest, in the same step, and nobody waits while a permit is free.     *)
(*                                                                         *)
(* DynamicSemaphore implements it; AdaptiveLimiter is built on it.         *)
(***************************************************************************)
EXTENDS Integers, Sequences, SequencesExt, FiniteSets

CONSTANTS Callers, Sizes

VARIABLES size, owners, queue

vars == <<size, owners, queue>>

Queued == ToSet(queue)

Free(n, held) == IF n > Cardinality(held) THEN n - Cardinality(held) ELSE 0

Init == size \in Sizes /\ owners = {} /\ queue = <<>>

Take(c) ==
  /\ c \notin owners \cup Queued
  /\ Cardinality(owners) < size /\ queue = <<>>
  /\ owners' = owners \cup {c}
  /\ UNCHANGED <<size, queue>>

Join(c) ==
  /\ c \notin owners \cup Queued
  /\ Cardinality(owners) >= size
  /\ queue' = Append(queue, c)
  /\ UNCHANGED <<size, owners>>

Leave(c) ==
  /\ \E i \in 1 .. Len(queue) : queue[i] = c /\ queue' = RemoveAt(queue, i)
  /\ UNCHANGED <<size, owners>>

\* The oldest of the queued callers become owners, as many as the size admits.
HandOver(held, n) ==
  LET k == IF Free(n, held) < Len(queue) THEN Free(n, held) ELSE Len(queue)
  IN /\ owners' = held \cup {queue[i] : i \in 1 .. k}
     /\ queue' = SubSeq(queue, k + 1, Len(queue))

GiveBack(c) ==
  /\ c \in owners
  /\ HandOver(owners \ {c}, size)
  /\ UNCHANGED size

Resize(n) ==
  /\ size' = n
  /\ HandOver(owners, n)

Next ==
  \/ \E c \in Callers : Take(c) \/ Join(c) \/ Leave(c) \/ GiveBack(c)
  \/ \E n \in Sizes : Resize(n)

Spec == Init /\ [][Next]_vars

=============================================================================
