----------------------------- MODULE EventRing ------------------------------
(***************************************************************************)
(* The lock-free ring of src/src/koe_event.c, one step per atomic          *)
(* operation.  Producer threads run koe_event_post; the main thread runs   *)
(* koe_event_poll and koe_event_register.                                  *)
(*                                                                         *)
(* head and tail are atomic_uint and wrap at Wrap, a multiple of RingSize  *)
(* as 2^32 is of 512.  A slot is a plain struct: while koe_event_post      *)
(* writes it, its content is Torn, a mix of the old and the new event that *)
(* a racing reader may copy.  Events are numbered in the order of the      *)
(* calls that post them.  The timer pumps are empty functions.             *)
(***************************************************************************)
EXTENDS Naturals, Sequences, FiniteSets

CONSTANTS
    Producers,      \* threads that call koe_event_post
    RingSize,       \* RING_SIZE
    Wrap,           \* 2^32, the modulus of atomic_uint
    MaxPosts,       \* bound on the number of events posted
    Zero,           \* an all-zero slot
    Torn            \* a slot that is being written

ASSUME RingAssumption ==
    /\ RingSize \in Nat \ {0}
    /\ Wrap \in Nat /\ Wrap > RingSize /\ Wrap % RingSize = 0
    /\ MaxPosts \in Nat
    /\ Zero \notin Nat /\ Torn \notin Nat

VARIABLES
    events, head, tail,     \* s_ring
    inited,                 \* s_initialised
    pc, ev, ptail,          \* koe_event_post: program point, *ev, local tail
    cpc, chead, cev,        \* koe_event_poll: program point, local head, copy
    posted,                 \* events posted so far
    taken,                  \* what koe_event_poll hands to the callbacks
    warnings,               \* "ring full" warnings printed
    raced                   \* history: a drop or a ring_init met another thread

ring == <<events, head, tail>>
post == <<pc, ev, ptail>>
poll == <<cpc, chead, cev>>
vars == <<ring, inited, post, poll, posted, taken, warnings, raced>>

Event == 1..MaxPosts

Index == 0..(RingSize - 1)

Outstanding == (tail + Wrap - head) % Wrap

Posting == {p \in Producers : pc[p] # "idle"}

Init ==
    /\ events = [i \in Index |-> Zero] /\ head = 0 /\ tail = 0
    /\ inited = FALSE
    /\ pc = [p \in Producers |-> "idle"]
    /\ ev = [p \in Producers |-> 0]
    /\ ptail = [p \in Producers |-> 0]
    /\ cpc = "idle" /\ chead = 0 /\ cev = Zero
    /\ posted = 0 /\ taken = << >> /\ warnings = 0 /\ raced = FALSE

-----------------------------------------------------------------------------
(* ring_init, called when s_initialised was read as 0.  It harms nobody    *)
(* unless a post has got past its own initialisation.                      *)

ring_init ==
    /\ events' = [i \in Index |-> Zero] /\ head' = 0 /\ tail' = 0
    /\ inited' = TRUE
    /\ raced' = (raced \/ posted > Cardinality({p \in Posting : pc[p] = "init"}))

-----------------------------------------------------------------------------
(* koe_event_post *)

GoPost(p, from, to) == pc[p] = from /\ pc' = [pc EXCEPT ![p] = to]

PostCall(p) ==
    /\ posted < MaxPosts
    /\ GoPost(p, "idle", IF inited THEN "tail" ELSE "init")
    /\ posted' = posted + 1
    /\ ev' = [ev EXCEPT ![p] = posted + 1]
    /\ UNCHANGED <<ring, inited, ptail, poll, taken, warnings, raced>>

PostInit(p) ==
    /\ GoPost(p, "init", "tail")
    /\ ring_init
    /\ UNCHANGED <<ev, ptail, poll, posted, taken, warnings>>

PostLoadTail(p) ==
    /\ GoPost(p, "tail", "head")
    /\ ptail' = [ptail EXCEPT ![p] = tail]
    /\ UNCHANGED <<ring, inited, ev, poll, posted, taken, warnings, raced>>

(* Mutant: the ring is taken for full one event too late.                  *)
PostLoadHeadLate(p) ==
    /\ GoPost(p, "head",
         IF (ptail[p] + Wrap - head) % Wrap > RingSize THEN "drop" ELSE "write")
    /\ UNCHANGED <<ring, inited, ev, ptail, poll, posted, taken, warnings, raced>>

PostLoadHead(p) ==
    /\ GoPost(p, "head",
         IF (ptail[p] + Wrap - head) % Wrap >= RingSize THEN "drop" ELSE "write")
    /\ UNCHANGED <<ring, inited, ev, ptail, poll, posted, taken, warnings, raced>>

(* head advances by an atomic add.  The drop races when poll is between    *)
(* its load and its store of head, or has taken an event since the load.   *)
PostDrop(p) ==
    /\ GoPost(p, "drop", "write")
    /\ head' = (head + 1) % Wrap
    /\ warnings' = warnings + 1
    /\ raced' = (raced \/ cpc \in {"tail", "copy", "store"} \/ Outstanding < RingSize)
    /\ UNCHANGED <<events, tail, inited, ev, ptail, poll, posted, taken>>

PostBeginWrite(p) ==
    /\ GoPost(p, "write", "stamp")
    /\ events' = [events EXCEPT ![ptail[p] % RingSize] = Torn]
    /\ UNCHANGED <<head, tail, inited, ev, ptail, poll, posted, taken, warnings, raced>>

PostEndWrite(p) ==
    /\ GoPost(p, "stamp", "publish")
    /\ events' = [events EXCEPT ![ptail[p] % RingSize] = ev[p]]
    /\ UNCHANGED <<head, tail, inited, ev, ptail, poll, posted, taken, warnings, raced>>

PostPublish(p) ==
    /\ GoPost(p, "publish", "idle")
    /\ tail' = (tail + 1) % Wrap
    /\ UNCHANGED <<events, head, inited, ev, ptail, poll, posted, taken, warnings, raced>>

PostStep(p) ==
    \/ PostInit(p) \/ PostLoadTail(p) \/ PostLoadHead(p) \/ PostDrop(p)
    \/ PostBeginWrite(p) \/ PostEndWrite(p) \/ PostPublish(p)

-----------------------------------------------------------------------------
(* koe_event_poll, and the lazy initialisation of koe_event_register.      *)

(* The first load of a poll, and the reload after each dispatch.           *)
PollLoadHead ==
    /\ cpc \in {"idle", "dispatch"}
    /\ chead' = head
    /\ cpc' = "tail"
    /\ UNCHANGED <<ring, inited, post, cev, posted, taken, warnings, raced>>

(* Mutant: the loop runs while head is below tail.                         *)
PollLoadTailLess ==
    /\ cpc = "tail"
    /\ cpc' = IF chead < tail THEN "copy" ELSE "idle"
    /\ UNCHANGED <<ring, inited, post, chead, cev, posted, taken, warnings, raced>>

PollLoadTail ==
    /\ cpc = "tail"
    /\ cpc' = IF chead # tail THEN "copy" ELSE "idle"
    /\ UNCHANGED <<ring, inited, post, chead, cev, posted, taken, warnings, raced>>

PollCopy ==
    /\ cpc = "copy"
    /\ cev' = events[chead % RingSize]
    /\ cpc' = "store"
    /\ UNCHANGED <<ring, inited, post, chead, posted, taken, warnings, raced>>

(* A plain store, not a compare-and-swap.  The copy belongs to the         *)
(* callbacks from here on.                                                 *)
PollStoreHead ==
    /\ cpc = "store"
    /\ head' = (chead + 1) % Wrap
    /\ taken' = Append(taken, cev)
    /\ cpc' = "dispatch"
    /\ UNCHANGED <<events, tail, inited, post, chead, cev, posted, warnings, raced>>

PollStep == PollLoadHead \/ PollLoadTail \/ PollCopy \/ PollStoreHead

RegisterCheck ==
    /\ cpc = "idle" /\ ~inited
    /\ cpc' = "register"
    /\ UNCHANGED <<ring, inited, post, chead, cev, posted, taken, warnings, raced>>

RegisterInit ==
    /\ cpc = "register"
    /\ ring_init
    /\ cpc' = "idle"
    /\ UNCHANGED <<post, chead, cev, posted, taken, warnings>>

MainStep == PollStep \/ RegisterInit

-----------------------------------------------------------------------------

(* A post from a callback of the main thread itself is the case of a       *)
(* producer that runs while poll is at "dispatch".                         *)
Next ==
    \/ \E p \in Producers : PostCall(p) \/ PostStep(p)
    \/ MainStep \/ RegisterCheck

Spec == Init /\ [][Next]_vars

(* A started post finishes, and the main loop keeps polling.               *)
FairSpec == Spec /\ WF_vars(MainStep) /\ \A p \in Producers : WF_vars(PostStep(p))

-----------------------------------------------------------------------------

(* The events between head and tail, oldest first.                         *)
Pending == [k \in 1..Outstanding |-> events[(head + k - 1) % RingSize]]

Fifo == INSTANCE EventFifo WITH
            Capacity <- RingSize,
            posted <- posted - Cardinality(Posting),
            pending <- Pending,
            dropped <- warnings

(* With one producer thread, and until a drop or a late initialisation     *)
(* overlaps another thread, the ring is the bounded FIFO of EventFifo: the *)
(* posts, drops and polls of any interleaving take events in the order of  *)
(* their posts, none half written, and lose only the oldest of a full      *)
(* ring, also when head and tail wrap around.                              *)
RingIsFifo == Fifo!Init /\ [][raced' \/ Fifo!Next \/ UNCHANGED Fifo!vars]_vars

(* Once nobody posts any more, the polls of the main loop empty the ring,  *)
(* also after drops that raced with a poll and left head past tail.        *)
PollDrains == (posted = MaxPosts /\ Posting = {}) ~> (head = tail)

(* "Thread-safe (lock-free ring buffer). If the ring is full, the oldest   *)
(* unread event is discarded": poll hands out posted events only, in the   *)
(* order in which they were posted.                                        *)
OnlyOldestLost ==
    warnings > 0 =>
        /\ \A k \in DOMAIN taken : taken[k] \in Event
        /\ \A k \in 2..Len(taken) : taken[k - 1] < taken[k]

=============================================================================
