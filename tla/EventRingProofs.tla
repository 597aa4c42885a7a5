--------------------------- MODULE EventRingProofs ---------------------------
(***************************************************************************)
(* The event ring implements the bounded queue of EventFifo when one       *)
(* thread posts, for every ring size and every wrap of the indices.        *)
(*                                                                         *)
(* Events are numbered in the order they are posted.  The invariant names  *)
(* two unbounded counters that the code does not keep: h events have left  *)
(* the ring and t were published.  The code's head and tail are these      *)
(* modulo Wrap, and event x + 1 sits in slot x % RingSize.  Most of the    *)
(* module is the modular arithmetic that this needs: distances survive     *)
(* the wrap, and two positions less than a turn apart have distinct slots. *)
(***************************************************************************)
EXTENDS EventRing, FiniteSetTheorems, TLAPS

(* The empty sequence, and that no other has length 0.                     *)
LEMMA EmptySeq ==
    ASSUME NEW S
    PROVE  /\ << >> \in Seq(S) /\ Len(<< >>) = 0
           /\ \A s \in Seq(S) : s # << >> => Len(s) \in Nat \ {0}
OBVIOUS

(* A sequence with one more element.                                       *)
LEMMA AppendProperties ==
    ASSUME NEW S, NEW s \in Seq(S), NEW e \in S
    PROVE  /\ Append(s, e) \in Seq(S) /\ Append(s, e) # << >>
           /\ Len(Append(s, e)) = Len(s) + 1 /\ Append(s, e)[Len(s) + 1] = e
           /\ \A i \in 1..Len(s) : Append(s, e)[i] = s[i]
OBVIOUS

(* Sequences with the same elements are the same.                          *)
LEMMA SeqEqual ==
    ASSUME NEW S, NEW s \in Seq(S), NEW t \in Seq(S), Len(s) = Len(t),
           \A i \in 1..Len(s) : s[i] = t[i]
    PROVE  s = t
OBVIOUS

(* Quotient and remainder.                                                 *)
LEMMA DivMod ==
    ASSUME NEW a \in Nat, NEW m \in Nat \ {0}
    PROVE  /\ a % m \in Nat /\ a % m < m /\ a \div m \in Nat
           /\ a = m * (a \div m) + (a % m)
OBVIOUS

(* A quotient and a remainder below the divisor are unique.                *)
LEMMA Below ==
    ASSUME NEW m \in Nat \ {0}, NEW q \in Nat, NEW p \in Nat, NEW r \in Nat, NEW s \in Nat,
           r < m, s < m, m * q + r = m * p + s
    PROVE  q = p /\ r = s
<1>1. ASSUME NEW x \in Nat, NEW y \in Nat, x < y PROVE m * y >= m * x + m
  <2>1. PICK d \in Nat : y = x + 1 + d
    <3>1. y - x - 1 \in Nat /\ y = x + 1 + (y - x - 1)
      BY <1>1
    <3> QED
      BY <3>1, Zenon
  <2>2. m * y = m * x + m + m * d /\ m * d \in Nat /\ m * x \in Nat
    BY <2>1
  <2> QED
    BY <2>2
<1>2. ~(q < p)
  <2>1. m * q \in Nat /\ m * p \in Nat
    OBVIOUS
  <2> QED
    BY <1>1, <2>1
<1>3. ~(p < q)
  <2>1. m * q \in Nat /\ m * p \in Nat
    OBVIOUS
  <2> QED
    BY <1>1, <2>1
<1>4. q = p
  BY <1>2, <1>3
<1> QED
  BY <1>4

(* The remainder of a number given as multiple plus rest.                  *)
LEMMA ModUnique ==
    ASSUME NEW m \in Nat \ {0}, NEW q \in Nat, NEW r \in Nat, r < m
    PROVE  (m * q + r) % m = r
<1> DEFINE a == m * q + r
<1>1. a \in Nat
  OBVIOUS
<1> HIDE DEF a
<1>2. /\ a % m \in Nat /\ a % m < m /\ a \div m \in Nat
      /\ a = m * (a \div m) + (a % m)
  BY <1>1, DivMod, Zenon
<1>3. m * q + r = m * (a \div m) + (a % m)
  BY <1>2, Zenon DEF a
<1>4. a % m = r
  BY <1>2, <1>3, Below, Zenon
<1> QED
  BY <1>4, Zenon DEF a

(* A counter and what is left of it after it wrapped.                      *)
LEMMA ModStep ==
    ASSUME NEW m \in Nat \ {0}, NEW x \in Nat
    PROVE  ((x % m) + 1) % m = (x + 1) % m
<1>1. /\ x % m \in Nat /\ x % m < m /\ x \div m \in Nat
      /\ x = m * (x \div m) + (x % m)
  BY DivMod, Zenon
<1> DEFINE r == x % m  q == x \div m
<1> HIDE DEF r, q
<1>2. /\ r \in Nat /\ r < m /\ q \in Nat /\ x = m * q + r
  BY <1>1, Zenon DEF r, q
<1>3. CASE r + 1 < m
  <2>1. x + 1 = m * q + (r + 1) /\ r + 1 = m * 0 + (r + 1)
    BY <1>2
  <2>2. (m * q + (r + 1)) % m = r + 1 /\ (m * 0 + (r + 1)) % m = r + 1
    BY <1>2, <1>3, ModUnique
  <2>3. (r + 1) % m = (x + 1) % m
    BY <2>1, <2>2, Zenon
  <2> QED
    BY <2>3, Zenon DEF r
<1>4. CASE r + 1 = m
  <2>1. x + 1 = m * (q + 1) + 0 /\ r + 1 = m * 1 + 0
    BY <1>2, <1>4
  <2>2. (m * (q + 1) + 0) % m = 0 /\ (m * 1 + 0) % m = 0
    BY <1>2, ModUnique
  <2>3. (r + 1) % m = (x + 1) % m
    BY <2>1, <2>2, Zenon
  <2> QED
    BY <2>3, Zenon DEF r
<1> QED
  BY <1>2, <1>3, <1>4

(* The distance of two counters that are less than a turn apart.           *)
LEMMA ModGap ==
    ASSUME NEW m \in Nat \ {0}, NEW x \in Nat, NEW d \in Nat, d < m
    PROVE  (((x + d) % m) + m - (x % m)) % m = d
<1> DEFINE r == x % m  q == x \div m
<1>1. /\ r \in Nat /\ r < m /\ q \in Nat /\ x = m * q + r
  BY DivMod, Zenon
<1> HIDE DEF r, q
<1>2. CASE r + d < m
  <2>1. x + d = m * q + (r + d)
    BY <1>1
  <2>2. (m * q + (r + d)) % m = r + d
    BY <1>1, <1>2, ModUnique
  <2>3. (x + d) % m = r + d
    BY <2>1, <2>2, Zenon
  <2>4. ((x + d) % m) + m - r = m * 1 + d
    BY <1>1, <2>3
  <2>5. (m * 1 + d) % m = d
    BY ModUnique, Zenon
  <2> QED
    BY <2>4, <2>5, Zenon DEF r
<1>3. CASE ~(r + d < m)
  <2>1. x + d = m * (q + 1) + (r + d - m) /\ r + d - m \in Nat /\ r + d - m < m
    BY <1>1, <1>3
  <2>2. (m * (q + 1) + (r + d - m)) % m = r + d - m
    <3>1. PICK k \in Nat, e \in Nat : k = q + 1 /\ e = r + d - m
      BY <1>1, <2>1
    <3>2. e < m
      BY <2>1, <3>1, Zenon
    <3>3. (m * k + e) % m = e
      BY <3>2, ModUnique, Zenon
    <3> QED
      BY <3>1, <3>3, Zenon
  <2>3. (x + d) % m = r + d - m
    BY <2>1, <2>2, Zenon
  <2>4. ((x + d) % m) + m - r = m * 0 + d
    BY <1>1, <2>3
  <2>5. (m * 0 + d) % m = d
    BY ModUnique, Zenon
  <2> QED
    BY <2>4, <2>5, Zenon DEF r
<1> QED
  BY <1>2, <1>3, Zenon

(* The counters wrap at a multiple of the number of slots.                 *)
SameSlot(m, n, x, j) == ((x % m) + j) % n = (x + j) % n

(* Reducing an index modulo Wrap before its slot is computed does not      *)
(* change the slot, RingSize being a divisor of Wrap.                      *)
LEMMA ModMod ==
    ASSUME NEW m \in Nat \ {0}, NEW n \in Nat \ {0}, m % n = 0, NEW x \in Nat, NEW j \in Nat
    PROVE  SameSlot(m, n, x, j)
<1> DEFINE r == x % m  q == x \div m  t == m \div n
           s == (r + j) % n  v == (r + j) \div n
<1>1. /\ r \in Nat /\ q \in Nat /\ x = m * q + r
  BY DivMod, Zenon
<1>2. t \in Nat /\ m = n * t
  BY DivMod
<1>3. /\ s \in Nat /\ s < n /\ v \in Nat /\ r + j = n * v + s
  <2> HIDE DEF r
  <2>1. r + j \in Nat
    BY <1>1
  <2> QED
    BY <2>1, DivMod, Zenon
<1> HIDE DEF r, q, t, s, v
<1>4. m * q = n * (t * q) /\ t * q \in Nat
  <2>1. (n * t) * q = n * (t * q)
    BY <1>1, <1>2
  <2> QED
    BY <1>1, <1>2, <2>1
<1>5. PICK w \in Nat : w = t * q
  BY <1>4, Zenon
<1>6. x = n * w + r
  BY <1>1, <1>4, <1>5, Zenon
<1>7. x + j = n * (w + v) + s
  <2>1. n * (w + v) = n * w + n * v /\ n * w \in Nat /\ n * v \in Nat
    BY <1>3
  <2> QED
    BY <1>1, <1>3, <1>6, <2>1
<1>8. (n * (w + v) + s) % n = s
  BY <1>3, ModUnique
<1>9. (x + j) % n = s
  BY <1>7, <1>8, Zenon
<1> QED
  BY <1>9, Zenon DEF r, s, SameSlot

(* The same for the index itself.                                          *)
LEMMA ModTwice ==
    ASSUME NEW m \in Nat \ {0}, NEW n \in Nat \ {0}, m % n = 0, NEW x \in Nat
    PROVE  (x % m) % n = x % n
<1>1. PICK z \in Nat : z = 0
  OBVIOUS
<1>2. SameSlot(m, n, x, z)
  BY ModMod, Zenon
<1>3. x % m \in Nat
  BY DivMod, Zenon
<1>4. (x % m) + z = x % m /\ x + z = x
  BY <1>1, <1>3
<1> QED
  BY <1>2, <1>4, Zenon DEF SameSlot

(* Two positions less than a turn apart have different slots.              *)
LEMMA ModApart ==
    ASSUME NEW n \in Nat \ {0}, NEW x \in Nat, NEW y \in Nat, x < y, y < x + n
    PROVE  x % n # y % n
<1> SUFFICES ASSUME x % n = y % n PROVE FALSE
  BY Zenon
<1>1. PICK d \in Nat : y = x + d /\ d < n /\ d # 0
  <2>1. y - x \in Nat /\ y = x + (y - x) /\ y - x < n /\ y - x # 0
    OBVIOUS
  <2> QED
    BY <2>1, Zenon
<1>2. (((x + d) % n) + n - (x % n)) % n = d
  BY <1>1, ModGap, Zenon
<1>3. x % n \in Nat
  BY DivMod, Zenon
<1>4. ((x + d) % n) + n - (x % n) = n * 1 + 0
  BY <1>1, <1>3
<1>5. (n * 1 + 0) % n = 0
  BY ModUnique
<1> QED
  BY <1>1, <1>2, <1>4, <1>5, Zenon

-----------------------------------------------------------------------------

(* Where a producer is in koe_event_post.                                  *)
Points == {"idle", "init", "tail", "head", "drop", "write", "stamp", "publish"}

(* What a slot holds: an event, zero bytes or a half-written event.        *)
Content == Nat \cup {Zero, Torn}

(* The type invariant that the proof rests on.                             *)
RingTypeOK ==
    /\ events \in [Index -> Content] /\ head \in Nat /\ tail \in Nat
    /\ inited \in BOOLEAN /\ raced \in BOOLEAN
    /\ pc \in [Producers -> Points] /\ ev \in [Producers -> Nat]
    /\ ptail \in [Producers -> Nat]
    /\ chead \in Nat /\ cev \in Content
    /\ posted \in 0..MaxPosts /\ taken \in Seq(Content) /\ warnings \in Nat

(* Of the events 1..t that were published, those up to h have left the     *)
(* ring; the slot of event x + 1 is x % RingSize.                          *)
At(p, h, t) ==
    /\ h = Len(taken) + warnings
    /\ t = IF pc[p] = "idle" THEN posted ELSE posted - 1
    /\ h <= t /\ t <= h + RingSize
    /\ head = h % Wrap /\ tail = t % Wrap
    /\ \A x \in h..(t - 1) : events[x % RingSize] = x + 1
    /\ posted = 0 => pc[p] = "idle"
    /\ pc[p] = "init" => posted = 1
    /\ ~inited => posted = 0 \/ pc[p] = "init"
    /\ pc[p] # "idle" => ev[p] = posted
    /\ pc[p] \in {"head", "drop", "write", "stamp", "publish"} => ptail[p] = tail
    /\ pc[p] \in {"write", "stamp", "publish"} => t < h + RingSize
    /\ pc[p] = "publish" => events[t % RingSize] = t + 1
    /\ cpc \in {"tail", "copy", "store"} => chead = head
    /\ cpc \in {"copy", "store"} => h < t
    /\ cpc = "store" => cev = h + 1

(* What a step does to the events published and removed.                   *)
Moves(h, t, h2, t2) ==
    \/ h2 = h /\ t2 = t /\ UNCHANGED <<taken, warnings>>
    \/ /\ h2 = h + 1 /\ t2 = t /\ t = h + RingSize /\ t < MaxPosts
       /\ taken' = taken /\ warnings' = warnings + 1
    \/ /\ h2 = h + 1 /\ t2 = t /\ h < t
       /\ taken' = Append(taken, h + 1) /\ warnings' = warnings
    \/ /\ h2 = h /\ t2 = t + 1 /\ t < h + RingSize /\ t < MaxPosts
       /\ UNCHANGED <<taken, warnings>>

(* The ring starts well typed.                                             *)
LEMMA RingTypeInitial == Init => RingTypeOK
<1> SUFFICES ASSUME Init PROVE RingTypeOK
  BY Zenon
<1>1. << >> \in Seq(Content)
  BY EmptySeq, Zenon
<1>2. /\ events \in [Index -> Content] /\ pc \in [Producers -> Points]
      /\ ev \in [Producers -> Nat] /\ ptail \in [Producers -> Nat]
  BY Zenon DEF Init, Points, Content
<1>3. 0 \in 0..MaxPosts
  BY RingAssumption
<1> QED
  BY <1>1, <1>2, <1>3, Zenon DEF Init, RingTypeOK, Content

(* The sizes, and where the remainders lie.                                *)
LEMMA SlotFacts ==
    /\ RingSize \in Nat \ {0} /\ Wrap \in Nat \ {0} /\ RingSize < Wrap /\ Wrap % RingSize = 0
    /\ \A x \in Nat : x % RingSize \in Index /\ x % Wrap \in Nat
<1>1. /\ RingSize \in Nat \ {0} /\ Wrap \in Nat \ {0} /\ RingSize < Wrap /\ Wrap % RingSize = 0
  BY RingAssumption
<1>2. ASSUME NEW x \in Nat PROVE x % RingSize \in Index /\ x % Wrap \in Nat
  <2>1. x % RingSize \in Nat /\ x % RingSize < RingSize /\ x % Wrap \in Nat
    BY <1>1, DivMod, Zenon
  <2> QED
    BY <1>1, <2>1 DEF Index
<1> QED
  BY <1>1, <1>2, Zenon

(* Every step of either thread keeps the types.                            *)
LEMMA RingTypeStep == RingTypeOK /\ [Next]_vars => RingTypeOK'
<1> SUFFICES ASSUME RingTypeOK, [Next]_vars PROVE RingTypeOK'
  BY Zenon
<1> USE DEF RingTypeOK
<1>1. ASSUME ring_init PROVE events' \in [Index -> Content] /\ head' = 0 /\ tail' = 0
                             /\ inited' \in BOOLEAN /\ raced' \in BOOLEAN
  BY <1>1, Zenon DEF ring_init, Content
<1>2. ASSUME NEW p \in Producers, PostCall(p) \/ PostStep(p) PROVE RingTypeOK'
  <2>1. CASE PostCall(p)
    <3>1. posted + 1 \in 0..MaxPosts /\ posted + 1 \in Nat
      BY <2>1, RingAssumption DEF PostCall
    <3>2. ev' \in [Producers -> Nat]
      BY <2>1, <3>1, Zenon DEF PostCall
    <3>3. pc' \in [Producers -> Points]
      BY <2>1, Zenon DEF PostCall, GoPost, Points
    <3> QED
      BY <2>1, <3>1, <3>2, <3>3, Zenon DEF PostCall, ring, poll
  <2>2. CASE PostInit(p)
    <3>1. pc' \in [Producers -> Points]
      BY <2>2, Zenon DEF PostInit, GoPost, Points
    <3> QED
      BY <1>1, <2>2, <3>1 DEF PostInit, poll
  <2>3. CASE PostLoadTail(p)
    BY <2>3, Zenon DEF PostLoadTail, GoPost, Points, ring, poll
  <2>4. CASE PostLoadHead(p)
    BY <2>4, Zenon DEF PostLoadHead, GoPost, Points, ring, poll
  <2>5. CASE PostDrop(p)
    <3>1. (head + 1) % Wrap \in Nat
      BY SlotFacts
    <3> QED
      BY <2>5, <3>1 DEF PostDrop, GoPost, Points, ring, poll
  <2>6. CASE PostBeginWrite(p)
    BY <2>6, Zenon DEF PostBeginWrite, GoPost, Points, Content, poll
  <2>7. CASE PostEndWrite(p)
    BY <2>7, Zenon DEF PostEndWrite, GoPost, Points, Content, poll
  <2>8. CASE PostPublish(p)
    <3>1. (tail + 1) % Wrap \in Nat
      BY SlotFacts
    <3> QED
      BY <2>8, <3>1, Zenon DEF PostPublish, GoPost, Points, poll
  <2> QED
    BY <1>2, <2>1, <2>2, <2>3, <2>4, <2>5, <2>6, <2>7, <2>8, Zenon DEF PostStep
<1>3. CASE PollLoadHead
  BY <1>3, Zenon DEF PollLoadHead, ring, post
<1>4. CASE PollLoadTail
  BY <1>4, Zenon DEF PollLoadTail, ring, post
<1>5. CASE PollCopy
  <2>1. chead % RingSize \in Index
    BY SlotFacts, Zenon
  <2> QED
    BY <1>5, <2>1, Zenon DEF PollCopy, ring, post
<1>6. CASE PollStoreHead
  <2>1. (chead + 1) % Wrap \in Nat
    BY SlotFacts
  <2>2. Append(taken, cev) \in Seq(Content)
    BY AppendProperties, Zenon
  <2> QED
    BY <1>6, <2>1, <2>2, Zenon DEF PollStoreHead, post
<1>7. CASE RegisterCheck
  BY <1>7, Zenon DEF RegisterCheck, ring, post
<1>8. CASE RegisterInit
  BY <1>1, <1>8 DEF RegisterInit, post
<1>9. CASE UNCHANGED vars
  BY <1>9, Zenon DEF vars, ring, post, poll
<1> QED
  BY <1>2, <1>3, <1>4, <1>5, <1>6, <1>7, <1>8, <1>9, Zenon DEF Next, MainStep, PollStep

(* A step of the only producer or of the main thread that is no race takes *)
(* the counters of the invariant to their next values; it publishes one    *)
(* event, removes the oldest, or does neither.                             *)
LEMMA RingStep ==
    ASSUME NEW p, Producers = {p}, RingTypeOK, NEW h \in Nat, NEW t \in Nat, At(p, h, t),
           ~raced', [Next]_vars
    PROVE  \E h2, t2 \in Nat : At(p, h2, t2)' /\ Moves(h, t, h2, t2)
<1>1. /\ events \in [Index -> Content] /\ head \in Nat /\ tail \in Nat
      /\ inited \in BOOLEAN /\ raced \in BOOLEAN /\ DOMAIN pc = {p} /\ DOMAIN ev = {p}
      /\ DOMAIN ptail = {p} /\ posted \in Nat /\ posted <= MaxPosts /\ MaxPosts \in Nat
      /\ taken \in Seq(Content) /\ Len(taken) \in Nat /\ warnings \in Nat /\ pc[p] \in Points
  BY RingAssumption DEF RingTypeOK
<1>2. /\ h = Len(taken) + warnings /\ h <= t /\ t <= h + RingSize
      /\ head = h % Wrap /\ tail = t % Wrap
      /\ \A x \in h..(t - 1) : events[x % RingSize] = x + 1
      /\ cpc \in {"tail", "copy", "store"} => chead = head
      /\ cpc \in {"copy", "store"} => h < t
      /\ cpc = "store" => cev = h + 1
  BY Zenon DEF At
<1>3. /\ t = IF pc[p] = "idle" THEN posted ELSE posted - 1
      /\ posted = 0 => pc[p] = "idle"
      /\ pc[p] = "init" => posted = 1
      /\ ~inited => posted = 0 \/ pc[p] = "init"
      /\ pc[p] # "idle" => ev[p] = posted
      /\ pc[p] \in {"head", "drop", "write", "stamp", "publish"} => ptail[p] = tail
      /\ pc[p] \in {"write", "stamp", "publish"} => t < h + RingSize
      /\ pc[p] = "publish" => events[t % RingSize] = t + 1
  BY Zenon DEF At
<1> DEFINE
       Sizes == /\ RingSize \in Nat /\ RingSize # 0 /\ Wrap \in Nat /\ RingSize < Wrap
                /\ h <= t /\ t <= h + RingSize
<1>0. Sizes
  <2>1. h <= t /\ t <= h + RingSize
    BY Zenon DEF At
  <2> QED
    BY <2>1, RingAssumption, Zenon
<1>4. /\ ((h % Wrap) + 1) % Wrap = (h + 1) % Wrap
      /\ ((t % Wrap) + 1) % Wrap = (t + 1) % Wrap
  BY SlotFacts, ModStep, Zenon
<1>5. (h % Wrap) % RingSize = h % RingSize /\ (t % Wrap) % RingSize = t % RingSize
  <2>1. Wrap \in Nat \ {0} /\ RingSize \in Nat \ {0} /\ Wrap % RingSize = 0
    BY SlotFacts, Zenon
  <2>2. (h % Wrap) % RingSize = h % RingSize
    BY <2>1, ModTwice, Zenon
  <2>3. (t % Wrap) % RingSize = t % RingSize
    BY <2>1, ModTwice, Zenon
  <2> QED
    BY <2>2, <2>3, Zenon
<1>6. head % RingSize = h % RingSize /\ tail % RingSize = t % RingSize
  BY <1>2, <1>5, Zenon
<1>7. (tail + Wrap - head) % Wrap = t - h
  <2>1. PICK d \in Nat : d = t - h /\ t = h + d /\ d < Wrap
    <3>1. t - h \in Nat /\ t = h + (t - h) /\ t - h < Wrap
      BY <1>0
    <3> QED
      BY <3>1, Zenon
  <2>2. (((h + d) % Wrap) + Wrap - (h % Wrap)) % Wrap = d
    BY <2>1, SlotFacts, ModGap, Zenon
  <2> QED
    BY <1>2, <2>1, <2>2, Zenon
<1>8. ASSUME UNCHANGED <<taken, warnings>>, At(p, h, t)'
      PROVE  \E h2, t2 \in Nat : At(p, h2, t2)' /\ Moves(h, t, h2, t2)
  BY <1>8, Zenon DEF Moves
(* ring_init harms nothing as long as nothing was published.               *)
<1>9. ASSUME ring_init, t = 0, UNCHANGED <<ev, ptail, posted, taken, warnings, chead, cev>>,
             \/ cpc' = cpc /\ pc[p] = "init" /\ pc' = [pc EXCEPT ![p] = "tail"]
             \/ cpc' = "idle" /\ pc' = pc /\ pc[p] \in {"idle", "init"}
      PROVE  At(p, h, t)'
  <2>1. h = 0 /\ 0 % Wrap = 0
    <3>1. (Wrap * 0 + 0) % Wrap = 0
      BY SlotFacts, ModUnique
    <3> QED
      BY <1>2, <1>9, <3>1, SlotFacts
  <2>2. /\ head' = 0 /\ tail' = 0 /\ inited' = TRUE
    BY <1>9, Zenon DEF ring_init
  <2>3. head = 0 /\ tail = 0
    BY <1>2, <1>9, <2>1, Zenon
  <2>4. /\ t = (IF pc'[p] = "idle" THEN posted' ELSE posted' - 1)
        /\ pc'[p] \in {"idle", "init", "tail"}
        /\ posted' = 0 => pc'[p] = "idle"
        /\ pc'[p] = "init" => posted' = 1
        /\ pc'[p] # "idle" => ev'[p] = posted'
    BY <1>1, <1>3, <1>9, Zenon
  <2>5. /\ cpc' \in {"tail", "copy", "store"} => chead' = head'
        /\ cpc' \notin {"copy", "store"}
    BY <1>2, <1>9, <2>1, <2>2, <2>3
  <2>6. h..(t - 1) = {} /\ h <= t /\ t <= h + RingSize
    BY <1>9, <2>1, SlotFacts
  <2> QED
    BY <1>2, <1>9, <2>1, <2>2, <2>4, <2>5, <2>6, Zenon DEF At
<1>10. CASE PostCall(p)
  <2>1. /\ pc[p] = "idle" /\ pc'[p] = (IF inited THEN "tail" ELSE "init")
        /\ posted' = posted + 1 /\ ev'[p] = posted + 1
        /\ UNCHANGED <<events, head, tail, inited, ptail, cpc, chead, cev, taken, warnings>>
    BY <1>1, <1>10, Zenon DEF PostCall, GoPost, ring, poll
  <2>2. At(p, h, t)'
    <3>1. posted + 1 # 0 /\ posted + 1 - 1 = posted /\ (~inited => posted + 1 = 1)
      BY <1>1, <1>3, <2>1
    <3> QED
      BY <1>2, <1>3, <2>1, <3>1 DEF At
  <2> QED
    BY <1>8, <2>1, <2>2, Zenon
<1>11. CASE PostInit(p)
  <2>1. /\ pc[p] = "init" /\ pc' = [pc EXCEPT ![p] = "tail"] /\ ring_init
        /\ UNCHANGED <<ev, ptail, cpc, chead, cev, posted, taken, warnings>>
    BY <1>11, Zenon DEF PostInit, GoPost, poll
  <2>2. t = 0
    BY <1>3, <2>1
  <2> QED
    BY <1>8, <1>9, <2>1, <2>2, Zenon
<1>12. CASE PostLoadTail(p)
  <2>1. /\ pc[p] = "tail" /\ pc'[p] = "head" /\ ptail'[p] = tail
        /\ UNCHANGED <<events, head, tail, inited, ev, cpc, chead, cev, posted, taken, warnings>>
    BY <1>1, <1>12, Zenon DEF PostLoadTail, GoPost, ring, poll
  <2>2. At(p, h, t)'
    BY <1>2, <1>3, <2>1, Zenon DEF At
  <2> QED
    BY <1>8, <2>1, <2>2, Zenon
<1>13. CASE PostLoadHead(p)
  <2>1. /\ pc[p] = "head"
        /\ pc'[p] = IF (ptail[p] + Wrap - head) % Wrap >= RingSize THEN "drop" ELSE "write"
        /\ UNCHANGED <<events, head, tail, inited, ev, ptail, cpc, chead, cev, posted, taken,
                       warnings>>
    BY <1>1, <1>13, Zenon DEF PostLoadHead, GoPost, ring, poll
  <2>2. pc'[p] = IF t - h >= RingSize THEN "drop" ELSE "write"
    BY <1>3, <1>7, <2>1, Zenon
  <2>3. /\ pc'[p] \in {"drop", "write"} /\ pc'[p] = "write" => t < h + RingSize
    BY <1>0, <2>2
  <2>4. At(p, h, t)'
    BY <1>2, <1>3, <2>1, <2>3, Zenon DEF At
  <2> QED
    BY <1>8, <2>1, <2>4, Zenon
<1>14. CASE PostDrop(p)
  <2>1. /\ pc[p] = "drop" /\ pc'[p] = "write" /\ head' = (head + 1) % Wrap
        /\ warnings' = warnings + 1 /\ cpc \notin {"tail", "copy", "store"}
        /\ ~(Outstanding < RingSize)
        /\ UNCHANGED <<events, tail, inited, ev, ptail, cpc, chead, cev, posted, taken>>
    BY <1>1, <1>14, Zenon DEF PostDrop, GoPost, poll
  <2>2. t = h + RingSize
    <3>1. ~(t - h < RingSize)
      BY <1>7, <2>1, Zenon DEF Outstanding
    <3> QED
      BY <1>0, <3>1
  <2>3. t < MaxPosts
    BY <1>1, <1>3, <2>1
  <2>4. h + 1 \in Nat /\ h + 1 = Len(taken) + (warnings + 1) /\ h + 1 <= t
        /\ t < (h + 1) + RingSize
    <3>1. h = Len(taken) + warnings /\ Len(taken) \in Nat /\ warnings \in Nat
      BY <1>1, <1>2, Zenon
    <3> HIDE DEF Sizes
    <3>2. h + 1 = Len(taken) + (warnings + 1)
      BY <3>1
    <3> QED
      BY <1>0, <2>2, <3>2 DEF Sizes
  <2>5. \A x \in (h + 1)..(t - 1) : x \in h..(t - 1)
    OBVIOUS
  <2>6. At(p, h + 1, t)'
    <3>1. head' = (h + 1) % Wrap
      BY <1>2, <1>4, <2>1, Zenon
    <3>2. t <= (h + 1) + RingSize
      BY <2>4, SlotFacts
    <3>3. \A x \in (h + 1)..(t - 1) : events'[x % RingSize] = x + 1
      BY <1>2, <2>1, <2>5, Zenon
    <3> QED
      BY <1>2, <1>3, <2>1, <2>4, <3>1, <3>2, <3>3, Zenon DEF At
  <2>7. Moves(h, t, h + 1, t)
    BY <2>1, <2>2, <2>3, Zenon DEF Moves
  <2> QED
    BY <2>4, <2>6, <2>7, Zenon
<1>15. ASSUME t < h + RingSize, NEW v, events' = [events EXCEPT ![t % RingSize] = v]
       PROVE  /\ \A x \in h..(t - 1) : events'[x % RingSize] = x + 1
              /\ events'[t % RingSize] = v
  <2>1. t % RingSize \in Index
    BY SlotFacts, Zenon
  <2>2. ASSUME NEW x \in h..(t - 1) PROVE events'[x % RingSize] = x + 1
    <3>1. x \in Nat /\ x < t /\ t < x + RingSize
      BY <1>15, SlotFacts
    <3>2. x % RingSize # t % RingSize
      BY <3>1, SlotFacts, ModApart, Zenon
    <3>3. x % RingSize \in Index
      BY <3>1, SlotFacts, Zenon
    <3> QED
      BY <1>1, <1>2, <1>15, <3>2, <3>3, Zenon
  <2> QED
    BY <1>1, <1>15, <2>1, <2>2, Zenon
<1>16. CASE PostBeginWrite(p)
  <2>1. /\ pc[p] = "write" /\ pc'[p] = "stamp"
        /\ events' = [events EXCEPT ![ptail[p] % RingSize] = Torn]
        /\ UNCHANGED <<head, tail, inited, ev, ptail, cpc, chead, cev, posted, taken, warnings>>
    BY <1>1, <1>16, Zenon DEF PostBeginWrite, GoPost, poll
  <2>2. events' = [events EXCEPT ![t % RingSize] = Torn] /\ t < h + RingSize
    BY <1>3, <1>6, <2>1, Zenon
  <2>3. \A x \in h..(t - 1) : events'[x % RingSize] = x + 1
    BY <1>15, <2>2, Zenon
  <2>4. At(p, h, t)'
    BY <1>2, <1>3, <2>1, <2>3, Zenon DEF At
  <2> QED
    BY <1>8, <2>1, <2>4, Zenon
<1>17. CASE PostEndWrite(p)
  <2>1. /\ pc[p] = "stamp" /\ pc'[p] = "publish"
        /\ events' = [events EXCEPT ![ptail[p] % RingSize] = ev[p]]
        /\ UNCHANGED <<head, tail, inited, ev, ptail, cpc, chead, cev, posted, taken, warnings>>
    BY <1>1, <1>17, Zenon DEF PostEndWrite, GoPost, poll
  <2>2. events' = [events EXCEPT ![t % RingSize] = ev[p]] /\ t < h + RingSize
    BY <1>3, <1>6, <2>1, Zenon
  <2>3. /\ \A x \in h..(t - 1) : events'[x % RingSize] = x + 1
        /\ events'[t % RingSize] = ev[p]
    BY <1>15, <2>2, Zenon
  <2>4. ev[p] = t + 1
    BY <1>1, <1>3, <2>1
  <2>5. At(p, h, t)'
    BY <1>2, <1>3, <2>1, <2>3, <2>4, Zenon DEF At
  <2> QED
    BY <1>8, <2>1, <2>5, Zenon
<1>18. CASE PostPublish(p)
  <2>1. /\ pc[p] = "publish" /\ pc'[p] = "idle" /\ tail' = (tail + 1) % Wrap
        /\ UNCHANGED <<events, head, inited, ev, ptail, cpc, chead, cev, posted, taken, warnings>>
    BY <1>1, <1>18, Zenon DEF PostPublish, GoPost, poll
  <2>2. /\ t = posted - 1 /\ posted # 0 /\ t < h + RingSize /\ events[t % RingSize] = t + 1
    BY <1>3, <2>1, Zenon
  <2>3. /\ t + 1 \in Nat /\ t + 1 = posted /\ t < MaxPosts /\ h <= t + 1
        /\ t + 1 <= h + RingSize /\ (h < t => h < t + 1)
    <3>1. posted \in Nat /\ posted <= MaxPosts /\ MaxPosts \in Nat
      BY <1>1, Zenon
    <3> QED
      BY <1>0, <2>2, <3>1
  <2>4. \A x \in h..((t + 1) - 1) : x \in h..(t - 1) \/ x = t
    OBVIOUS
  <2>5. At(p, h, t + 1)'
    <3>1. tail' = (t + 1) % Wrap
      BY <1>2, <1>4, <2>1, Zenon
    <3>2. \A x \in h..((t + 1) - 1) : events'[x % RingSize] = x + 1
      BY <1>2, <2>1, <2>2, <2>4, Zenon
    <3>3. ~inited => posted = 0
      BY <1>3, <2>1, Zenon
    <3> QED
      BY <1>2, <1>3, <2>1, <2>2, <2>3, <3>1, <3>2, <3>3, Zenon DEF At
  <2>6. Moves(h, t, h, t + 1)
    BY <2>1, <2>2, <2>3, Zenon DEF Moves
  <2> QED
    BY <2>3, <2>5, <2>6, Zenon
<1>19. CASE PollLoadHead
  <2>1. /\ chead' = head /\ cpc' = "tail"
        /\ UNCHANGED <<events, head, tail, inited, pc, ev, ptail, cev, posted, taken, warnings>>
    BY <1>19, Zenon DEF PollLoadHead, ring, post
  <2>2. At(p, h, t)'
    BY <1>2, <1>3, <2>1, Zenon DEF At
  <2> QED
    BY <1>8, <2>1, <2>2, Zenon
<1>20. CASE PollLoadTail
  <2>1. /\ cpc = "tail" /\ cpc' = IF chead # tail THEN "copy" ELSE "idle"
        /\ UNCHANGED <<events, head, tail, inited, pc, ev, ptail, chead, cev, posted, taken,
                       warnings>>
    BY <1>20, Zenon DEF PollLoadTail, ring, post
  <2>2. chead # tail => h < t
    <3>1. h = t => head = tail
      BY <1>2, Zenon
    <3> QED
      BY <1>2, <2>1, <3>1
  <2>3. At(p, h, t)'
    BY <1>2, <1>3, <2>1, <2>2, Zenon DEF At
  <2> QED
    BY <1>8, <2>1, <2>3, Zenon
<1>21. CASE PollCopy
  <2>1. /\ cpc = "copy" /\ cpc' = "store" /\ cev' = events[chead % RingSize]
        /\ UNCHANGED <<events, head, tail, inited, pc, ev, ptail, chead, posted, taken, warnings>>
    BY <1>21, Zenon DEF PollCopy, ring, post
  <2>2. cev' = events[h % RingSize] /\ h < t
    BY <1>2, <1>6, <2>1, Zenon
  <2>3. h \in h..(t - 1)
    BY <2>2
  <2>4. cev' = h + 1
    BY <1>2, <2>2, <2>3, Zenon
  <2>5. At(p, h, t)'
    BY <1>2, <1>3, <2>1, <2>2, <2>4, Zenon DEF At
  <2> QED
    BY <1>8, <2>1, <2>5, Zenon
<1>22. CASE PollStoreHead
  <2>1. /\ cpc = "store" /\ cpc' = "dispatch" /\ head' = (chead + 1) % Wrap
        /\ taken' = Append(taken, cev)
        /\ UNCHANGED <<events, tail, inited, pc, ev, ptail, chead, cev, posted, warnings>>
    BY <1>22, Zenon DEF PollStoreHead, post
  <2>2. h < t /\ chead = head /\ cev = h + 1
    BY <1>2, <2>1, Zenon
  <2>3. /\ h + 1 \in Nat /\ h + 1 <= t /\ t <= (h + 1) + RingSize
        /\ t < h + RingSize => t < (h + 1) + RingSize
    BY <1>0, <2>2
  <2>4. Len(taken') = Len(taken) + 1
    BY <1>1, <2>1, AppendProperties, Zenon DEF RingTypeOK
  <2>5. h + 1 = Len(taken') + warnings'
    BY <1>1, <1>2, <2>1, <2>4
  <2>6. At(p, h + 1, t)'
    <3>1. head' = (h + 1) % Wrap
      BY <1>2, <1>4, <2>1, <2>2, Zenon
    <3>2. \A x \in (h + 1)..(t - 1) : x \in h..(t - 1)
      OBVIOUS
    <3>3. \A x \in (h + 1)..(t - 1) : events'[x % RingSize] = x + 1
      BY <1>2, <2>1, <3>2, Zenon
    <3> QED
      BY <1>2, <1>3, <2>1, <2>3, <2>5, <3>1, <3>3, Zenon DEF At
  <2>7. Moves(h, t, h + 1, t)
    BY <2>1, <2>2, Zenon DEF Moves
  <2> QED
    BY <2>3, <2>6, <2>7, Zenon
<1>23. CASE RegisterCheck
  <2>1. /\ cpc' = "register"
        /\ UNCHANGED <<events, head, tail, inited, pc, ev, ptail, chead, cev, posted, taken,
                       warnings>>
    BY <1>23, Zenon DEF RegisterCheck, ring, post
  <2>2. At(p, h, t)'
    BY <1>2, <1>3, <2>1, Zenon DEF At
  <2> QED
    BY <1>8, <2>1, <2>2, Zenon
<1>24. CASE RegisterInit
  <2>1. /\ ring_init /\ cpc' = "idle"
        /\ UNCHANGED <<pc, ev, ptail, chead, cev, posted, taken, warnings>>
    BY <1>24, Zenon DEF RegisterInit, post
  <2>2. ~(posted > Cardinality({q \in Posting : pc[q] = "init"}))
    BY <2>1, Zenon DEF ring_init
  <2>3. CASE pc[p] = "init"
    <3>1. t = 0
      BY <1>3, <2>3
    <3> QED
      BY <1>8, <1>9, <2>1, <2>3, <3>1, Zenon
  <2>4. CASE pc[p] # "init"
    <3>1. {q \in Posting : pc[q] = "init"} = {}
      BY <2>4, Zenon DEF Posting
    <3>2. Cardinality({q \in Posting : pc[q] = "init"}) = 0
      BY <3>1, FS_EmptySet, Zenon
    <3>3. posted = 0
      BY <1>1, <2>2, <3>2
    <3>4. pc[p] = "idle" /\ t = 0
      BY <1>3, <3>3, Zenon
    <3> QED
      BY <1>8, <1>9, <2>1, <3>4, Zenon
  <2> QED
    BY <2>3, <2>4, Zenon
<1>25. CASE UNCHANGED vars
  <2>1. UNCHANGED <<events, head, tail, inited, pc, ev, ptail, cpc, chead, cev, posted, taken,
                    warnings>>
    BY <1>25, Zenon DEF vars, ring, post, poll
  <2>2. At(p, h, t)'
    BY <1>2, <1>3, <2>1, Zenon DEF At
  <2> QED
    BY <1>8, <2>1, <2>2, Zenon
<1> QED
  BY <1>10, <1>11, <1>12, <1>13, <1>14, <1>16, <1>17, <1>18, <1>19, <1>20, <1>21, <1>22,
     <1>23, <1>24, <1>25, Zenon DEF Next, MainStep, PollStep, PostStep

(* The events between head and tail are the oldest that were not removed.  *)
Filled(h, t) == [k \in 1..(t - h) |-> h + k]

(* The slots hold the events after h up to t ...                           *)
Fills(slots, h, t) ==
    /\ h <= t /\ t <= h + RingSize
    /\ \A x \in h..(t - 1) : slots[x % RingSize] = x + 1

(* ... so that reading from head to tail gives these events in order.      *)
Holds(slots, h, t) ==
    /\ ((t % Wrap) + Wrap - (h % Wrap)) % Wrap = t - h
    /\ [k \in 1..(t - h) |-> slots[((h % Wrap) + k - 1) % RingSize]] = Filled(h, t)

(* Reading the ring through the wrapped indices sees the events in order.  *)
LEMMA PendingFilled ==
    ASSUME NEW h \in Nat, NEW t \in Nat, NEW slots, Fills(slots, h, t)
    PROVE  Holds(slots, h, t)
<1>0. /\ h <= t /\ t <= h + RingSize
      /\ \A x \in h..(t - 1) : slots[x % RingSize] = x + 1
  BY Zenon DEF Fills
<1>1. ((t % Wrap) + Wrap - (h % Wrap)) % Wrap = t - h
  <2>1. PICK d \in Nat : d = t - h /\ t = h + d /\ d < Wrap
    <3>1. t - h \in Nat /\ t = h + (t - h) /\ t - h < Wrap
      BY <1>0, RingAssumption
    <3> QED
      BY <3>1, Zenon
  <2>2. (((h + d) % Wrap) + Wrap - (h % Wrap)) % Wrap = d
    BY <2>1, SlotFacts, ModGap, Zenon
  <2> QED
    BY <2>1, <2>2, Zenon
<1>2. ASSUME NEW k \in 1..(t - h)
      PROVE  slots[((h % Wrap) + k - 1) % RingSize] = h + k
  <2>1. PICK j \in Nat : j = k - 1 /\ h + j \in h..(t - 1) /\ h + j + 1 = h + k
    <3>1. k - 1 \in Nat /\ h + (k - 1) \in h..(t - 1) /\ h + (k - 1) + 1 = h + k
      OBVIOUS
    <3> QED
      BY <3>1, Zenon
  <2>2. SameSlot(Wrap, RingSize, h, j)
    <3>1. Wrap \in Nat \ {0} /\ RingSize \in Nat \ {0} /\ Wrap % RingSize = 0
      BY SlotFacts, Zenon
    <3> QED
      BY <3>1, ModMod, Zenon
  <2>3. (h % Wrap) + k - 1 = (h % Wrap) + j
    <3>1. h % Wrap \in Nat
      BY SlotFacts, Zenon
    <3> QED
      BY <2>1, <3>1, Zenon
  <2>4. slots[(h + j) % RingSize] = h + j + 1
    BY <1>0, <2>1, Zenon
  <2> QED
    BY <2>1, <2>2, <2>3, <2>4, Zenon DEF SameSlot
<1> QED
  BY <1>1, <1>2, Zenon DEF Filled, Holds

(* A producer that is not idle has posted one event that is not published. *)
LEMMA PostingCount ==
    ASSUME NEW p, NEW at
    PROVE  Cardinality({q \in {p} : at[q] # "idle"}) = IF at[p] = "idle" THEN 0 ELSE 1
<1>1. CASE at[p] = "idle"
  <2>1. {q \in {p} : at[q] # "idle"} = {}
    BY <1>1, Zenon
  <2> QED
    BY <1>1, <2>1, FS_EmptySet, Zenon
<1>2. CASE at[p] # "idle"
  <2>1. {q \in {p} : at[q] # "idle"} = {p}
    BY <1>2, Zenon
  <2> QED
    BY <1>2, <2>1, FS_Singleton, Zenon
<1> QED
  BY <1>1, <1>2, Zenon

(* How the queue changes.                                                  *)
LEMMA FilledFacts ==
    ASSUME NEW h \in Nat, NEW t \in Nat, h <= t
    PROVE  /\ Filled(h, t) \in Seq(Nat) /\ Len(Filled(h, t)) = t - h
           /\ Append(Filled(h, t), t + 1) = Filled(h, t + 1)
           /\ h < t => /\ Filled(h, t) # << >> /\ Head(Filled(h, t)) = h + 1
                       /\ Tail(Filled(h, t)) = Filled(h + 1, t)
<1>1. Filled(h, t) \in Seq(Nat) /\ Len(Filled(h, t)) = t - h
  BY DEF Filled
<1>2. Append(Filled(h, t), t + 1) = Filled(h, t + 1)
  BY DEF Filled
<1>3. ASSUME h < t
      PROVE  /\ Filled(h, t) # << >> /\ Head(Filled(h, t)) = h + 1
             /\ Tail(Filled(h, t)) = Filled(h + 1, t)
  <2> DEFINE s == Filled(h, t)
  <2>1. /\ s \in Seq(Nat) /\ Len(s) = t - h /\ s[1] = h + 1
        /\ \A i \in 1..(t - (h + 1)) : s[i + 1] = (h + 1) + i
    BY <1>1, <1>3 DEF Filled
  <2> HIDE DEF s
  <2>2. s # << >> /\ Head(s) = h + 1
    BY <1>3, <2>1
  <2>3. /\ Tail(s) \in Seq(Nat) /\ Len(Tail(s)) = t - (h + 1)
        /\ \A i \in 1..(t - (h + 1)) : Tail(s)[i] = (h + 1) + i
    BY <1>3, <2>1, <2>2
  <2> DEFINE u == Filled(h + 1, t)
  <2>4. /\ u \in Seq(Nat) /\ Len(u) = t - (h + 1)
        /\ \A i \in 1..(t - (h + 1)) : u[i] = (h + 1) + i
    BY <1>3 DEF Filled
  <2> HIDE DEF u
  <2>5. Tail(s) = u
    BY <2>3, <2>4, SeqEqual, Zenon
  <2> QED
    BY <2>2, <2>5, Zenon DEF s, u
<1> QED
  BY <1>1, <1>2, <1>3, Zenon

(* The abstract queue in a state of the ring.                              *)
LEMMA Mapped ==
    ASSUME NEW p, Producers = {p}, NEW h \in Nat, NEW t \in Nat,
           posted \in Nat, At(p, h, t)
    PROVE  (posted - Cardinality(Posting)) = t /\ Pending = Filled(h, t)
<1>1. t = IF pc[p] = "idle" THEN posted ELSE posted - 1
  BY Zenon DEF At
<1>2. Cardinality(Posting) = IF pc[p] = "idle" THEN 0 ELSE 1
  BY PostingCount DEF Posting
<1>3. (posted - Cardinality(Posting)) = t
  BY <1>1, <1>2
<1>4. PICK slots : slots = events
  BY Zenon
<1>5. Fills(slots, h, t) /\ head = h % Wrap /\ tail = t % Wrap
  BY <1>4, Zenon DEF At, Fills
<1>6. Holds(slots, h, t)
  BY <1>5, PendingFilled, Zenon
<1>7. Outstanding = t - h
  BY <1>5, <1>6, Zenon DEF Outstanding, Holds
<1>8. [k \in 1..(t - h) |-> slots[(head + k - 1) % RingSize]] = Filled(h, t)
  BY <1>5, <1>6, Zenon DEF Holds
<1>9. Pending = Filled(h, t)
  BY <1>4, <1>7, <1>8, Zenon DEF Pending
<1> QED
  BY <1>3, <1>9, Zenon

(* The same in the next state.                                             *)
LEMMA MappedNext ==
    ASSUME NEW p, Producers = {p}, NEW h \in Nat, NEW t \in Nat,
           posted' \in Nat, At(p, h, t)'
    PROVE  (posted - Cardinality(Posting))' = t /\ Pending' = Filled(h, t)
<1>1. t = IF pc'[p] = "idle" THEN posted' ELSE posted' - 1
  BY Zenon DEF At
<1>2. Cardinality({q \in {p} : pc'[q] # "idle"}) = IF pc'[p] = "idle" THEN 0 ELSE 1
  BY PostingCount
<1>3. (posted - Cardinality(Posting))' = t
  <2>1. posted' - Cardinality({q \in {p} : pc'[q] # "idle"}) = t
    BY <1>1, <1>2
  <2> QED
    BY <2>1, Zenon DEF Posting
<1>4. PICK slots : slots = events'
  BY Zenon
<1>5. Fills(slots, h, t) /\ head' = h % Wrap /\ tail' = t % Wrap
  BY <1>4, Zenon DEF At, Fills
<1>6. Holds(slots, h, t)
  BY <1>5, PendingFilled, Zenon
<1>7. Outstanding' = t - h
  BY <1>5, <1>6, Zenon DEF Outstanding, Holds
<1>8. [k \in 1..(t - h) |-> slots[(head' + k - 1) % RingSize]] = Filled(h, t)
  BY <1>5, <1>6, Zenon DEF Holds
<1>9. Pending' = Filled(h, t)
  BY <1>4, <1>7, <1>8, Zenon DEF Pending
<1> QED
  BY <1>3, <1>9, Zenon

(* The inductive invariant: until a race the two counters exist.           *)
Ordered(p) == ~raced => \E h, t \in Nat : At(p, h, t)

(* Until a race the only producer is in step with the bounded queue.       *)
LEMMA RefinesStep ==
    ASSUME NEW p, Producers = {p}, RingTypeOK, RingTypeOK', Ordered(p), [Next]_vars
    PROVE  Ordered(p)' /\ (raced' \/ Fifo!Next \/ UNCHANGED Fifo!vars)
<1> SUFFICES ASSUME ~raced'
             PROVE  /\ \E h, t \in Nat : At(p, h, t)'
                    /\ Fifo!Next \/ UNCHANGED Fifo!vars
  BY Zenon DEF Ordered
<1>1. ~raced
  BY Zenon DEF RingTypeOK, Next, PostCall, PostStep, PostInit, PostLoadTail, PostLoadHead, PostDrop,
         PostBeginWrite, PostEndWrite, PostPublish, ring_init, MainStep, PollStep, PollLoadHead,
         PollLoadTail, PollCopy, PollStoreHead, RegisterCheck, RegisterInit, vars
<1>2. PICK h \in Nat, t \in Nat : At(p, h, t)
  BY <1>1, Zenon DEF Ordered
<1>3. PICK h2 \in Nat, t2 \in Nat : At(p, h2, t2)' /\ Moves(h, t, h2, t2)
  BY <1>2, RingStep, Zenon
<1>4. posted \in Nat /\ posted' \in Nat /\ h <= t
  BY <1>2 DEF RingTypeOK, At
<1>5. posted - Cardinality(Posting) = t /\ (posted - Cardinality(Posting))' = t2
  BY <1>2, <1>3, <1>4, Mapped, MappedNext, Zenon
<1>6. Pending = Filled(h, t) /\ Pending' = Filled(h2, t2)
  BY <1>2, <1>3, <1>4, Mapped, MappedNext, Zenon
<1>7. /\ Len(Filled(h, t)) = t - h /\ Append(Filled(h, t), t + 1) = Filled(h, t + 1)
      /\ h < t => /\ Filled(h, t) # << >> /\ Head(Filled(h, t)) = h + 1
                  /\ Tail(Filled(h, t)) = Filled(h + 1, t)
  BY <1>4, FilledFacts, Zenon
<1>8. CASE h2 = h /\ t2 = t /\ UNCHANGED <<taken, warnings>>
  BY <1>3, <1>5, <1>6, <1>8, Zenon DEF Fifo!vars
<1>9. CASE /\ h2 = h + 1 /\ t2 = t /\ t = h + RingSize /\ t < MaxPosts
           /\ taken' = taken /\ warnings' = warnings + 1
  <2>1. h < t /\ t - h = RingSize
    BY <1>9, RingAssumption
  <2>2. Tail(Filled(h, t)) = Filled(h2, t2) /\ Len(Filled(h, t)) = RingSize
    BY <1>7, <1>9, <2>1, Zenon
  <2>3. Pending' = Tail(Pending) /\ Len(Pending) = RingSize
    BY <1>6, <2>2, Zenon
  <2>4. Fifo!DiscardOldest
    BY <1>5, <1>9, <2>3, Zenon DEF Fifo!DiscardOldest
  <2> QED
    BY <1>3, <2>4, Zenon DEF Fifo!Next
<1>10. CASE /\ h2 = h + 1 /\ t2 = t /\ h < t
            /\ taken' = Append(taken, h + 1) /\ warnings' = warnings
  <2>1. /\ Tail(Filled(h, t)) = Filled(h2, t2) /\ Filled(h, t) # << >>
        /\ Head(Filled(h, t)) = h + 1
    BY <1>7, <1>10, Zenon
  <2>2. Pending' = Tail(Pending) /\ Pending # << >> /\ Head(Pending) = h + 1
    BY <1>6, <2>1, Zenon
  <2>3. Fifo!Take
    BY <1>5, <1>10, <2>2, Zenon DEF Fifo!Take
  <2> QED
    BY <1>3, <2>3, Zenon DEF Fifo!Next
<1>11. CASE /\ h2 = h /\ t2 = t + 1 /\ t < h + RingSize /\ t < MaxPosts
            /\ UNCHANGED <<taken, warnings>>
  <2>1. t - h < RingSize
    BY <1>11, RingAssumption
  <2>2. Append(Filled(h, t), t + 1) = Filled(h2, t2) /\ Len(Filled(h, t)) < RingSize
    BY <1>7, <1>11, <2>1, Zenon
  <2>3. Pending' = Append(Pending, t + 1) /\ Len(Pending) < RingSize
    BY <1>6, <2>2, Zenon
  <2>4. Fifo!Post
    BY <1>5, <1>11, <2>3, Zenon DEF Fifo!Post
  <2> QED
    BY <1>3, <2>4, Zenon DEF Fifo!Next
<1> QED
  BY <1>3, <1>8, <1>9, <1>10, <1>11, Zenon DEF Moves

(* With one producer thread, and until a drop or a late initialisation     *)
(* overlaps another thread, koe_event_post and koe_event_poll implement    *)
(* the bounded queue of EventFifo, for every size of the ring and every    *)
(* multiple of it at which head and tail wrap around.                      *)
THEOREM RingIsFifoCorrect ==
    ASSUME NEW p, Producers = {p}
    PROVE  Spec => RingIsFifo
<1>1. Init => Ordered(p) /\ Fifo!Init
  <2> SUFFICES ASSUME Init PROVE Ordered(p) /\ Fifo!Init
    BY Zenon
  <2>1. RingTypeOK /\ pc[p] = "idle" /\ Len(taken) = 0 /\ posted = 0 /\ warnings = 0
        /\ head = 0 /\ tail = 0 /\ cpc = "idle" /\ taken = << >>
    BY RingTypeInitial, Zenon DEF Init
  <2>2. 0 % Wrap = 0
    <3>1. (Wrap * 0 + 0) % Wrap = 0
      BY SlotFacts, ModUnique
    <3> QED
      BY <3>1, SlotFacts
  <2>3. 0..(0 - 1) = {} /\ 0 <= 0 + RingSize /\ 0 + 0 = 0
    BY RingAssumption
  <2>4. At(p, 0, 0)
    BY <2>1, <2>2, <2>3 DEF At
  <2>5. posted - Cardinality(Posting) = 0 /\ Pending = Filled(0, 0)
    BY <2>1, <2>4, Mapped, Zenon
  <2>6. Pending = << >>
    BY <2>5 DEF Filled
  <2> QED
    BY <2>1, <2>4, <2>5, <2>6, Zenon DEF Ordered, Fifo!Init
<1>2. RingTypeOK /\ Ordered(p) /\ [Next]_vars =>
         /\ RingTypeOK' /\ Ordered(p)'
         /\ raced' \/ Fifo!Next \/ UNCHANGED Fifo!vars
  BY RingTypeStep, RefinesStep, Zenon
<1>3. RingTypeOK /\ Ordered(p) /\ [Next]_vars =>
         /\ RingTypeOK' /\ Ordered(p)'
         /\ [raced' \/ Fifo!Next \/ UNCHANGED Fifo!vars]_vars
  BY <1>2, Zenon
<1>4. Spec => Fifo!Init /\ [][raced' \/ Fifo!Next \/ UNCHANGED Fifo!vars]_vars
  BY <1>1, <1>3, RingTypeInitial, PTL DEF Spec
<1> QED
  BY <1>4, Zenon DEF RingIsFifo

=============================================================================
