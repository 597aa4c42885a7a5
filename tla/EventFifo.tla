----------------------------- MODULE EventFifo ------------------------------
(***************************************************************************)
(* What the event queue of koe-core promises (include/koe_event.h): a      *)
(* bounded first-in first-out queue that loses events only when it is      *)
(* full, and then the oldest unread one.  Events are numbered in the order *)
(* in which they are posted.  EventRing shows how far the ring buffer of   *)
(* koe_event.c keeps this promise.                                         *)
(***************************************************************************)
EXTENDS Naturals, Sequences

CONSTANTS
    Capacity,       \* RING_SIZE
    MaxPosts        \* bound on the number of events posted

ASSUME FifoAssumption == Capacity \in Nat \ {0} /\ MaxPosts \in Nat

VARIABLES
    posted,         \* how many events have been posted
    pending,        \* the events not yet read, oldest first
    taken,          \* the events handed to the consumer, in that order
    dropped         \* how many events were discarded

vars == <<posted, pending, taken, dropped>>

Init ==
    /\ posted = 0
    /\ pending = << >>
    /\ taken = << >>
    /\ dropped = 0

Post ==
    /\ posted < MaxPosts
    /\ Len(pending) < Capacity
    /\ posted' = posted + 1
    /\ pending' = Append(pending, posted + 1)
    /\ UNCHANGED <<taken, dropped>>

(* Mutant: the event just posted is discarded instead of the oldest.       *)
DiscardNewest ==
    /\ posted < MaxPosts
    /\ Len(pending) = Capacity
    /\ pending' = SubSeq(pending, 1, Capacity - 1)
    /\ dropped' = dropped + 1
    /\ UNCHANGED <<posted, taken>>

(* A post that finds the queue full first discards the oldest event; the   *)
(* consumer may run before the post itself.                                *)
DiscardOldest ==
    /\ posted < MaxPosts
    /\ Len(pending) = Capacity
    /\ pending' = Tail(pending)
    /\ dropped' = dropped + 1
    /\ UNCHANGED <<posted, taken>>

(* Mutant: everything that is pending is given up after the first event.   *)
TakeAndClear ==
    /\ pending # << >>
    /\ taken' = Append(taken, Head(pending))
    /\ pending' = << >>
    /\ UNCHANGED <<posted, dropped>>

Take ==
    /\ pending # << >>
    /\ taken' = Append(taken, Head(pending))
    /\ pending' = Tail(pending)
    /\ UNCHANGED <<posted, dropped>>

Next == Post \/ DiscardOldest \/ Take

Spec == Init /\ [][Next]_vars

-----------------------------------------------------------------------------

TypeOK ==
    /\ posted \in 0..MaxPosts
    /\ pending \in Seq(Nat) /\ Len(pending) <= Capacity
    /\ taken \in Seq(Nat)
    /\ dropped \in Nat

(* The consumer sees events in the order of their posts, each at most      *)
(* once, and the unread ones are always the most recent ones without a     *)
(* gap, so whatever was lost is older than everything still to come.       *)
FifoOrder ==
    /\ \A k \in 1..Len(pending) : pending[k] = posted - Len(pending) + k
    /\ \A k \in 1..Len(taken) : taken[k] >= 1 /\ taken[k] + Len(pending) <= posted
    /\ \A j, k \in 1..Len(taken) : j < k => taken[j] < taken[k]

(* Every event is accounted for: taken, still pending, or discarded with a *)
(* warning.                                                                *)
Conserved == posted = Len(taken) + Len(pending) + dropped

=============================================================================
