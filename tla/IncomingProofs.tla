--------------------------- MODULE IncomingProofs ---------------------------
(***************************************************************************)
(* What the library makes of what arrives, for every size of its tables:   *)
(* fragments are put together to the packet that was sent, and events      *)
(* reach each listener once and in order, but for the defects that the     *)
(* properties name, whatever callbacks do to the array of listeners under  *)
(* the loop.                                                               *)
(***************************************************************************)
EXTENDS Fragmentation, EventDispatch, FiniteSetTheorems, TLAPS

(* The length and the elements of a sequence.                              *)
LEMMA LenProperties ==
    ASSUME NEW S, NEW s \in Seq(S)
    PROVE  Len(s) \in Nat /\ s \in [1..Len(s) -> S] /\ DOMAIN s = 1..Len(s)
OBVIOUS

(* An element of a sequence is in the set of its elements.                 *)
LEMMA ElementOfSeq ==
    ASSUME NEW S, NEW s \in Seq(S), NEW j \in 1..Len(s)
    PROVE  s[j] \in S
OBVIOUS

(* The empty sequence, and that no other has length 0.                     *)
LEMMA EmptySeq ==
    ASSUME NEW S
    PROVE  /\ << >> \in Seq(S) /\ Len(<< >>) = 0
           /\ \A s \in Seq(S) : s # << >> => Len(s) \in Nat \ {0}
OBVIOUS

(* A sequence with one more element.                                       *)
LEMMA AppendProperties ==
    ASSUME NEW S, NEW s \in Seq(S), NEW e \in S
    PROVE  /\ Append(s, e) \in Seq(S) /\ Append(s, e) # << >>
           /\ Len(Append(s, e)) = Len(s) + 1 /\ Append(s, e)[Len(s) + 1] = e
           /\ \A j \in 1..Len(s) : Append(s, e)[j] = s[j]
OBVIOUS

(* A part of a sequence.                                                   *)
LEMMA SubSeqProperties ==
    ASSUME NEW S, NEW s, NEW a \in Int, NEW b \in Int, \A j \in a..b : s[j] \in S
    PROVE  /\ SubSeq(s, a, b) \in Seq(S)
           /\ Len(SubSeq(s, a, b)) = IF a <= b THEN b - a + 1 ELSE 0
           /\ \A j \in 1..(b - a + 1) : SubSeq(s, a, b)[j] = s[a + j - 1]
OBVIOUS

(* A sequence with another value in one place.                             *)
LEMMA ExceptSeq ==
    ASSUME NEW S, NEW s \in Seq(S), NEW j \in 1..Len(s), NEW e \in S
    PROVE  /\ [s EXCEPT ![j] = e] \in Seq(S) /\ Len([s EXCEPT ![j] = e]) = Len(s)
           /\ \A x \in 1..Len(s) : [s EXCEPT ![j] = e][x] = IF x = j THEN e ELSE s[x]
OBVIOUS

(* The values that a sequence takes.                                       *)
LEMMA SeqRange ==
    ASSUME NEW S, NEW s \in Seq(S)
    PROVE  Range(s) = {s[j] : j \in 1..Len(s)}
<1>1. DOMAIN s = 1..Len(s)
  BY LenProperties
<1> QED
  BY <1>1, Zenon DEF Range

-----------------------------------------------------------------------------
(* Fragments *)

(* The context c has counted pieces of its packet that it holds, each of   *)
(* them once, and none of them is still on its way in N.                   *)
Counted(c, N) ==
    \E H \in SUBSET (0 .. (TotalFrags(c.msg_id) - 1)) :
       /\ Cardinality(H) = c.received
       /\ \A x \in H : x \in c.frag_lengths /\ c.fragments[x] = <<c.msg_id, x>>
       /\ \A g \in N : g.msg_id = c.msg_id => g.index \notin H

(* Nothing of the packet of c is on its way in N any more.                 *)
Exhausted(c, N) == \A g \in N : g.msg_id # c.msg_id

(* Every piece that c holds is one of its own packet and in its place.     *)
OwnPieces(c) ==
    \A x \in Index : c.fragments[x] # NoData =>
       c.received # 0 /\ c.fragments[x] = <<c.msg_id, x>>

(* A context in use belongs to a packet that was sent.  Until the count of *)
(* received fragments wraps it holds pieces of that packet only; and if no *)
(* fragment of it was repeated, received counts no piece twice, whether    *)
(* the context is being filled or was left behind by a complete packet.    *)
ContextOK ==
    /\ ctx.received \in Index
    /\ DOMAIN ctx.fragments = Index
    /\ ctx.received # 0 =>
          /\ ctx.msg_id \in sent
          /\ ctx.total_fragments = TotalFrags(ctx.msg_id)
    /\ ~wrapped => OwnPieces(ctx)
    /\ ctx.received # 0 /\ ctx.msg_id \notin repeated =>
          Counted(ctx, net) \/ Exhausted(ctx, net)

(* Contexts are consistent with what is on its way and what was sent.      *)
FragInv ==
    /\ sent \subseteq Packets
    /\ \A m \in sent : TotalFrags(m) \in 1 .. (Byte - 1)
    /\ \A f \in net : f.msg_id \in sent /\ f \in Fragments(f.msg_id)
    /\ ContextOK
    /\ DeliveredIsSent

(* A zeroed context is consistent with everything.                         *)
LEMMA FreshOK ==
    ASSUME ctx' = Fresh
    PROVE  ContextOK'
<1>1. /\ ctx'.received = 0 /\ DOMAIN ctx'.fragments = Index
      /\ \A x \in Index : ctx'.fragments[x] = NoData
  BY Zenon DEF Fresh
<1>2. 0 \in Index
  BY FragmentationAssumption DEF Index
<1> QED
  BY <1>1, <1>2, Zenon DEF ContextOK, OwnPieces

(* Before the first packet nothing is sent and no context is in use.       *)
LEMMA FragInitial == FragInit => FragInv
<1> SUFFICES ASSUME FragInit PROVE FragInv
  BY Zenon
<1>1. /\ ctx.received = 0 /\ DOMAIN ctx.fragments = Index
      /\ \A x \in Index : ctx.fragments[x] = NoData
  BY Zenon DEF FragInit, Fresh
<1>2. 0 \in Index
  BY FragmentationAssumption DEF Index
<1>3. ContextOK
  BY <1>1, <1>2, Zenon DEF ContextOK, OwnPieces
<1> QED
  BY <1>3, Zenon DEF FragInit, FragInv, DeliveredIsSent

(* What a fragment on its way says of its packet.                          *)
LEMMA FragmentFacts ==
    ASSUME FragInv, NEW f \in net
    PROVE  /\ f.msg_id \in sent /\ f.msg_id \in Packets
           /\ TotalFrags(f.msg_id) \in 1 .. (Byte - 1)
           /\ f.index \in 0 .. (TotalFrags(f.msg_id) - 1) /\ f.index \in Index
           /\ f.total = TotalFrags(f.msg_id)
           /\ f.piece = <<f.msg_id, f.index>>
           /\ \A g \in net : g.msg_id = f.msg_id /\ g.index = f.index => g = f
<1>1. /\ f.msg_id \in sent /\ f.msg_id \in Packets
      /\ TotalFrags(f.msg_id) \in 1 .. (Byte - 1)
  BY Zenon DEF FragInv
<1>2. ASSUME NEW g \in net
      PROVE  \E x \in 0 .. (TotalFrags(g.msg_id) - 1) :
                g = [msg_id |-> g.msg_id, index |-> x,
                     total |-> TotalFrags(g.msg_id), piece |-> <<g.msg_id, x>>]
  BY Zenon DEF FragInv, Fragments
<1>3. PICK x \in 0 .. (TotalFrags(f.msg_id) - 1) :
         f = [msg_id |-> f.msg_id, index |-> x,
              total |-> TotalFrags(f.msg_id), piece |-> <<f.msg_id, x>>]
  BY <1>2, Zenon
<1>4. /\ f.index = x /\ f.total = TotalFrags(f.msg_id)
      /\ f.piece = <<f.msg_id, f.index>>
  BY <1>3
<1>5. x \in Index
  BY <1>1, FragmentationAssumption DEF Index
<1>6. ASSUME NEW g \in net, g.msg_id = f.msg_id, g.index = f.index PROVE g = f
  BY <1>2, <1>3, <1>6
<1> QED
  BY <1>1, <1>4, <1>5, <1>6, Zenon

(* A stored piece is not a null pointer.                                   *)
LEMMA PieceIsData ==
    ASSUME NEW m \in Packets, NEW x \in Index
    PROVE  <<m, x>> # NoData
  BY FragmentationAssumption DEF Index

(* Another fragment for a packet of which none was repeated.               *)
LEMMA CountOneMore ==
    ASSUME FragInv, NEW f \in net, Accepts(f), f.msg_id \notin repeated
    PROVE  Counted(Stored(f), net \ {f})
<1> DEFINE c == Stored(f)  m == f.msg_id  n == TotalFrags(m)
<1>1. /\ n \in 1 .. (Byte - 1) /\ f.index \in 0 .. (n - 1) /\ f.index \in Index
      /\ f.piece = <<m, f.index>>
      /\ \A g \in net : g.msg_id = m /\ g.index = f.index => g = f
  BY FragmentFacts, Zenon
<1>2. ctx.received \in Index /\ DOMAIN ctx.fragments = Index
  BY Zenon DEF FragInv, ContextOK
<1>3. ctx.received # 0 => ctx.msg_id = m
  BY Zenon DEF Accepts
<1>4. /\ c.received = (ctx.received + 1) % Byte
      /\ c.fragments = [ctx.fragments EXCEPT ![f.index] = f.piece]
      /\ c.frag_lengths = ctx.frag_lengths \cup {f.index}
  BY Zenon DEF Stored
<1>5. c.msg_id = m
  <2>1. Claimed(f).msg_id = m
    BY <1>3, Zenon DEF Claimed
  <2> QED
    BY <2>1, Zenon DEF Stored
<1>6. PICK H \in SUBSET (0 .. (n - 1)) :
         /\ Cardinality(H) = ctx.received
         /\ \A x \in H : x \in ctx.frag_lengths /\ ctx.fragments[x] = <<m, x>>
         /\ \A g \in net : g.msg_id = m => g.index \notin H
  <2>1. CASE ctx.received = 0
    <3>1. Cardinality({}) = 0
      BY FS_EmptySet, Zenon
    <3>2. {} \in SUBSET (0 .. (n - 1))
      BY Zenon
    <3> HIDE DEF n
    <3> QED
      BY <2>1, <3>1, <3>2
  <2>2. CASE ctx.received # 0
    <3>1. ctx.msg_id = m
      BY <1>3, <2>2, Zenon
    <3>2. ~Exhausted(ctx, net)
      BY <3>1, Zenon DEF Exhausted
    <3>3. Counted(ctx, net)
      BY <2>2, <3>1, <3>2, Zenon DEF FragInv, ContextOK
    <3> QED
      BY <3>1, <3>3, Zenon DEF Counted
  <2> QED
    BY <2>1, <2>2, Zenon
<1> HIDE DEF c, n
<1> DEFINE J == H \cup {f.index}
<1>7. Byte \in Nat /\ n \in Nat
  BY <1>1, FragmentationAssumption
<1>8. IsFiniteSet(0 .. (n - 1)) /\ Cardinality(0 .. (n - 1)) = n
  BY <1>7, FS_Interval
<1>9. f.index \notin H /\ IsFiniteSet(H)
  BY <1>6, <1>8, FS_Subset, Zenon
<1>10. Cardinality(J) = Cardinality(H) + 1
  BY <1>9, FS_AddElement, Zenon
<1>11. J \in SUBSET (0 .. (n - 1))
  BY <1>1, <1>6, Zenon
<1>12. Cardinality(J) <= n
  BY <1>8, <1>11, FS_Subset, Zenon
<1>13. c.received = Cardinality(J)
  <2>1. ctx.received \in Nat /\ ctx.received + 1 <= n /\ n < Byte /\ Byte # 0
    BY <1>1, <1>2, <1>6, <1>7, <1>10, <1>12 DEF Index
  <2>2. (ctx.received + 1) % Byte = ctx.received + 1
    BY <1>7, <2>1
  <2> QED
    BY <1>4, <1>6, <1>10, <2>2, Zenon
<1>14. ASSUME NEW x \in J PROVE x \in c.frag_lengths /\ c.fragments[x] = <<m, x>>
  <2>1. CASE x = f.index
    BY <1>1, <1>2, <1>4, <2>1, Zenon
  <2>2. CASE x \in H /\ x # f.index
    <3>1. x \in Index
      BY <1>1, <1>6, <1>7, <2>2 DEF Index
    <3> QED
      BY <1>2, <1>4, <1>6, <2>2, <3>1, Zenon
  <2> QED
    BY <2>1, <2>2, Zenon
<1>15. \A g \in net \ {f} : g.msg_id = m => g.index \notin J
  BY <1>1, <1>6, Zenon
<1> HIDE DEF J
<1>16. Counted(c, net \ {f})
  BY <1>5, <1>11, <1>13, <1>14, <1>15, Zenon DEF Counted, n
<1> QED
  BY <1>16, Zenon DEF c

(* The context after a fragment that is accepted.                          *)
LEMMA StoredFacts ==
    ASSUME FragInv, NEW f \in net, Accepts(f)
    PROVE  /\ Stored(f).msg_id = f.msg_id
           /\ Stored(f).total_fragments = TotalFrags(f.msg_id)
           /\ Stored(f).received \in Index
           /\ DOMAIN Stored(f).fragments = Index
           /\ ~wrapped /\ ctx.received # Byte - 1 => OwnPieces(Stored(f))
<1> DEFINE c == Stored(f)  m == f.msg_id
<1>1. /\ f.index \in Index /\ f.piece = <<m, f.index>> /\ f.total = TotalFrags(m)
      /\ TotalFrags(m) \in 1 .. (Byte - 1)
  BY FragmentFacts, Zenon
<1>2. ContextOK
  BY Zenon DEF FragInv
<1>3. /\ c.msg_id = Claimed(f).msg_id
      /\ c.total_fragments = Claimed(f).total_fragments
      /\ c.received = (ctx.received + 1) % Byte
      /\ c.fragments = [ctx.fragments EXCEPT ![f.index] = f.piece]
  BY Zenon DEF Stored
<1>4. ctx.received # 0 => ctx.msg_id = m
  BY Zenon DEF Accepts
<1>5. Claimed(f).msg_id = m /\ Claimed(f).total_fragments = TotalFrags(m)
  <2>1. CASE ctx.received = 0
    BY <1>1, <2>1, Zenon DEF Claimed
  <2>2. CASE ctx.received # 0
    BY <1>2, <1>4, <2>2, Zenon DEF Claimed, ContextOK
  <2> QED
    BY <2>1, <2>2, Zenon
<1>6. ctx.received \in 0 .. (Byte - 1) /\ Byte \in Nat \ {0}
  BY <1>2, FragmentationAssumption, Zenon DEF ContextOK, Index
<1>7. c.received \in Index
  BY <1>3, <1>6 DEF Index
<1>8. /\ DOMAIN c.fragments = Index /\ c.fragments[f.index] = f.piece
      /\ \A x \in Index : x # f.index => c.fragments[x] = ctx.fragments[x]
  BY <1>1, <1>2, <1>3, Zenon DEF ContextOK
<1>9. ASSUME ~wrapped, ctx.received # Byte - 1 PROVE OwnPieces(c)
  <2>1. c.received # 0
    <3>1. ctx.received + 1 \in 1 .. (Byte - 1)
      BY <1>6, <1>9
    <3> QED
      BY <1>3, <1>6, <3>1
  <2>2. OwnPieces(ctx)
    BY <1>2, <1>9, Zenon DEF ContextOK
  <2> SUFFICES ASSUME NEW x \in Index, c.fragments[x] # NoData
               PROVE  c.fragments[x] = <<m, x>>
    BY <1>3, <1>5, <2>1, Zenon DEF OwnPieces
  <2>3. CASE x = f.index
    BY <1>1, <1>8, <2>3, Zenon
  <2>4. CASE x # f.index
    BY <1>4, <1>8, <2>2, <2>4, Zenon DEF OwnPieces
  <2> QED
    BY <2>3, <2>4, Zenon
<1> QED
  BY <1>3, <1>5, <1>7, <1>8, <1>9, Zenon

(* A complete packet of which no fragment came twice holds every piece.    *)
LEMMA CompleteFacts ==
    ASSUME FragInv, NEW f \in net, Accepts(f), Complete(Stored(f)),
           f.msg_id \notin repeated
    PROVE  /\ Filled(Stored(f)) = 0 .. (TotalFrags(f.msg_id) - 1)
           /\ \A x \in 0 .. (TotalFrags(f.msg_id) - 1) :
                 Stored(f).fragments[x] = <<f.msg_id, x>> /\ <<f.msg_id, x>> # NoData
           /\ Exhausted(Stored(f), net \ {f})
<1> DEFINE c == Stored(f)  m == f.msg_id  n == TotalFrags(m)
<1>1. c.msg_id = m /\ c.total_fragments = n /\ c.received \in Index
  BY StoredFacts, Zenon
<1>2. m \in Packets /\ n \in 1 .. (Byte - 1)
  BY FragmentFacts, Zenon
<1>3. Counted(c, net \ {f})
  BY CountOneMore, Zenon
<1> HIDE DEF c, n
<1>4. PICK H \in SUBSET (0 .. (n - 1)) :
         /\ Cardinality(H) = c.received
         /\ \A x \in H : x \in c.frag_lengths /\ c.fragments[x] = <<m, x>>
         /\ \A g \in net \ {f} : g.msg_id = m => g.index \notin H
  BY <1>1, <1>3, Zenon DEF Counted, n
<1>5. n \in Nat /\ Byte \in Nat
  BY <1>2, FragmentationAssumption
<1>6. IsFiniteSet(0 .. (n - 1)) /\ Cardinality(0 .. (n - 1)) = n
  BY <1>5, FS_Interval
<1>7. Cardinality(H) <= n
  <2>1. Cardinality(H) <= Cardinality(0 .. (n - 1))
    BY <1>6, FS_Subset, Zenon
  <2> QED
    BY <1>6, <2>1, Zenon
<1>8. Cardinality(H) >= n
  BY <1>1, <1>4, Zenon DEF Complete, c
<1>9. Cardinality(H) = n
  <2>1. Cardinality(H) \in Int
    BY <1>1, <1>4, <1>5 DEF Index
  <2> QED
    BY <1>5, <1>7, <1>8, <2>1
<1>10. H = 0 .. (n - 1)
  BY <1>4, <1>6, <1>9, FS_Subset, Zenon
<1>11. Filled(c) = 0 .. (n - 1)
  BY <1>1, <1>4, <1>10, Zenon DEF Filled, Slots
<1>12. \A x \in 0 .. (n - 1) : x \in Index
  BY <1>2, <1>5 DEF Index
<1>13. \A x \in 0 .. (n - 1) : c.fragments[x] = <<m, x>> /\ <<m, x>> # NoData
  BY <1>2, <1>4, <1>10, <1>12, PieceIsData, Zenon
<1>14. ASSUME NEW g \in net \ {f}, g.msg_id = m PROVE FALSE
  <2>1. g.index \in 0 .. (n - 1)
    BY <1>14, FragmentFacts, Zenon DEF n
  <2> QED
    BY <1>4, <1>10, <1>14, <2>1, Zenon
<1>15. Exhausted(c, net \ {f})
  BY <1>1, <1>14, Zenon DEF Exhausted
<1> QED
  BY <1>11, <1>13, <1>15, Zenon DEF c, n

(* The context of an accepted fragment that is kept in it.                 *)
LEMMA StoreKeeps ==
    ASSUME FragInv, NEW f \in net, Accepts(f), ctx' = Stored(f), sent' = sent,
           ~wrapped' => ~wrapped /\ ctx.received # Byte - 1,
           f.msg_id \notin repeated' => f.msg_id \notin repeated /\ net' \subseteq net \ {f}
    PROVE  ContextOK'
<1> DEFINE m == f.msg_id
<1>1. /\ ctx'.msg_id = m /\ ctx'.total_fragments = TotalFrags(m)
      /\ ctx'.received \in Index /\ DOMAIN ctx'.fragments = Index
      /\ ~wrapped /\ ctx.received # Byte - 1 => OwnPieces(ctx')
  BY StoredFacts, Zenon
<1>2. m \in sent
  BY FragmentFacts, Zenon
<1>3. m \notin repeated' => Counted(ctx', net')
  <2> SUFFICES ASSUME m \notin repeated' PROVE Counted(ctx', net')
    BY Zenon
  <2>1. Counted(ctx', net \ {f}) /\ net' \subseteq net \ {f}
    BY CountOneMore, Zenon
  <2> QED
    BY <2>1, Zenon DEF Counted
<1> QED
  BY <1>1, <1>2, <1>3, Zenon DEF ContextOK, OwnPieces, Counted, TotalFrags

(* The context that a complete packet leaves behind.                       *)
LEMMA EmptiedKeeps ==
    ASSUME FragInv, NEW f \in net, Accepts(f), Complete(Stored(f)),
           ctx' = Emptied(Stored(f)), sent' = sent,
           ~wrapped' => ~wrapped /\ ctx.received # Byte - 1,
           f.msg_id \notin repeated' => f.msg_id \notin repeated /\ net' \subseteq net \ {f}
    PROVE  ContextOK'
<1> DEFINE c == Stored(f)  m == f.msg_id
<1>1. /\ c.msg_id = m /\ c.total_fragments = TotalFrags(m)
      /\ c.received \in Index /\ DOMAIN c.fragments = Index
      /\ ~wrapped /\ ctx.received # Byte - 1 => OwnPieces(c)
  BY StoredFacts, Zenon
<1>2. m \in sent
  BY FragmentFacts, Zenon
<1>3. m \notin repeated' => Exhausted(c, net \ {f}) /\ net' \subseteq net \ {f}
  BY CompleteFacts, Zenon
<1> HIDE DEF c
<1>4. /\ ctx'.msg_id = m /\ ctx'.total_fragments = TotalFrags(m)
      /\ ctx'.received = c.received
      /\ ctx'.fragments = [x \in Index |-> IF x \in Slots(c) THEN NoData ELSE c.fragments[x]]
  BY <1>1, Zenon DEF Emptied, c
<1>5. \A x \in Index : ctx'.fragments[x] # NoData => ctx'.fragments[x] = c.fragments[x]
  BY <1>4, Zenon
<1>6. OwnPieces(c) => OwnPieces(ctx')
  <2> SUFFICES ASSUME OwnPieces(c), NEW x \in Index, ctx'.fragments[x] # NoData
               PROVE  ctx'.received # 0 /\ ctx'.fragments[x] = <<ctx'.msg_id, x>>
    BY Zenon DEF OwnPieces
  <2>1. ctx'.fragments[x] = c.fragments[x] /\ c.fragments[x] # NoData
    BY <1>5, Zenon
  <2>2. c.received # 0 /\ c.fragments[x] = <<m, x>>
    BY <1>1, <2>1, Zenon DEF OwnPieces
  <2> QED
    BY <1>4, <2>1, <2>2, Zenon
<1>7. m \notin repeated' => Exhausted(ctx', net')
  BY <1>1, <1>3, <1>4, Zenon DEF Exhausted
<1> QED
  BY <1>1, <1>2, <1>4, <1>6, <1>7, Zenon
     DEF ContextOK, OwnPieces, Exhausted, TotalFrags

(* What was reported stays right when more fragments are repeated.         *)
LEMMA ReportsStay ==
    ASSUME FragInv, UNCHANGED <<delivered, crashed>>, sent \subseteq sent',
           repeated \subseteq repeated', ~wrapped' => ~wrapped
    PROVE  DeliveredIsSent'
  BY Zenon DEF FragInv, DeliveredIsSent, Whole

(* A packet that is complete is reported, or read from a null pointer.     *)
LEMMA AssembleKeeps ==
    ASSUME FragInv, NEW f \in net, Accepts(f), Complete(Stored(f)), Assemble(Stored(f)),
           sent' = sent, repeated \subseteq repeated',
           ~wrapped' => ~wrapped /\ ctx.received # Byte - 1,
           f.msg_id \notin repeated' => f.msg_id \notin repeated /\ net' \subseteq net \ {f}
    PROVE  ContextOK' /\ DeliveredIsSent'
<1> DEFINE c == Stored(f)  m == f.msg_id
           p == [x \in Filled(c) |-> c.fragments[x]]
<1>1. /\ c.msg_id = m /\ c.total_fragments = TotalFrags(m)
      /\ ~wrapped' => OwnPieces(c)
  BY StoredFacts, Zenon
<1>2. m \in sent /\ m \in Packets /\ TotalFrags(m) \in 1 .. (Byte - 1)
  BY FragmentFacts, Zenon
<1>3. ASSUME m \notin repeated'
      PROVE  /\ Filled(c) = 0 .. (TotalFrags(m) - 1)
             /\ \A x \in 0 .. (TotalFrags(m) - 1) :
                   c.fragments[x] = <<m, x>> /\ <<m, x>> # NoData
  BY <1>3, CompleteFacts, Zenon
<1>4. CASE /\ \A x \in Filled(c) : c.fragments[x] # NoData
           /\ delivered' = delivered \cup {[msg_id |-> c.msg_id, payload |-> p]}
           /\ ctx' = Emptied(c)
           /\ UNCHANGED crashed
  <2>1. ContextOK'
    BY <1>4, EmptiedKeeps, Zenon
  <2> HIDE DEF c
  <2>2. Filled(c) \subseteq Index
    BY <1>1, <1>2, FragmentationAssumption DEF Filled, Slots, Index
  <2>3. DOMAIN p = Filled(c) /\ \A x \in Filled(c) : p[x] = c.fragments[x]
    BY Zenon
  <2>4. ~wrapped' => \A x \in DOMAIN p : p[x] = <<m, x>>
    BY <1>1, <1>4, <2>2, <2>3, Zenon DEF OwnPieces
  <2>5. ASSUME m \notin repeated', Pieces[m] < Byte PROVE p = Whole(m)
    <3>1. Pieces[m] \in Nat /\ Byte \in Nat \ {0}
      BY <1>2, FragmentationAssumption, Zenon
    <3>2. TotalFrags(m) = Pieces[m]
      BY <2>5, <3>1 DEF TotalFrags
    <3> QED
      BY <1>3, <2>5, <3>2, Zenon DEF Whole
  <2> HIDE DEF p
  <2>6. ASSUME NEW d \in delivered'
        PROVE  /\ d.msg_id \in sent'
               /\ ~wrapped' => \A x \in DOMAIN d.payload : d.payload[x] = <<d.msg_id, x>>
               /\ d.msg_id \notin repeated' /\ Pieces[d.msg_id] < Byte =>
                     d.payload = Whole(d.msg_id)
    <3>1. CASE d \in delivered
      BY <3>1, Zenon DEF FragInv, DeliveredIsSent
    <3>2. CASE d = [msg_id |-> m, payload |-> p]
      <4>1. d.msg_id = m /\ d.payload = p
        BY <3>2, Zenon
      <4> QED
        BY <1>2, <2>4, <2>5, <4>1, Zenon
    <3> QED
      BY <1>1, <1>4, <2>6, <3>1, <3>2, Zenon
  <2>7. crashed' \subseteq repeated'
    BY <1>4, Zenon DEF FragInv, DeliveredIsSent
  <2> QED
    BY <2>1, <2>6, <2>7, Zenon DEF DeliveredIsSent, Whole
<1>5. CASE /\ \E x \in Filled(c) : c.fragments[x] = NoData
           /\ crashed' = crashed \cup {c.msg_id}
           /\ ctx' = Fresh
           /\ UNCHANGED delivered
  <2>1. m \in repeated'
    BY <1>3, <1>5, Zenon
  <2>2. crashed' \subseteq repeated'
    BY <1>1, <1>5, <2>1, Zenon DEF FragInv, DeliveredIsSent
  <2>3. DeliveredIsSent'
    BY <1>5, <2>2, Zenon DEF FragInv, DeliveredIsSent, Whole
  <2> QED
    BY <1>5, <2>3, FreshOK, Zenon
<1> QED
  BY <1>4, <1>5, Zenon DEF Assemble

(* A fragment or a copy of one is given to koe_packet_reassemble.          *)
LEMMA ReassembleKeeps ==
    ASSUME FragInv, NEW f \in net, koe_packet_reassemble(f) \/ ReassembleFails(f),
           sent' = sent, repeated \subseteq repeated', net' \subseteq net,
           f \in net' => f.msg_id \in repeated'
    PROVE  FragInv'
<1> DEFINE c == Stored(f)  m == f.msg_id
<1>1. /\ sent' \subseteq Packets
      /\ \A p \in sent' : TotalFrags(p) \in 1 .. (Byte - 1)
      /\ \A g \in net' : g.msg_id \in sent' /\ g \in Fragments(g.msg_id)
  BY Zenon DEF FragInv
<1>2. m \notin repeated' => m \notin repeated /\ net' \subseteq net \ {f}
  BY Zenon
<1>3. ~wrapped' => ~wrapped
  BY Zenon DEF koe_packet_reassemble, ReassembleFails
<1>4. ASSUME ctx' = ctx, UNCHANGED <<delivered, crashed>> PROVE FragInv'
  <2>1. ContextOK'
    BY <1>3, <1>4, Zenon DEF FragInv, ContextOK, OwnPieces, Counted, Exhausted, TotalFrags
  <2>2. DeliveredIsSent'
    BY <1>3, <1>4, ReportsStay, Zenon
  <2> QED
    BY <1>1, <2>1, <2>2, Zenon DEF FragInv
<1>5. ASSUME Accepts(f), ctx' = c, UNCHANGED <<delivered, crashed>>,
             ~wrapped' => ctx.received # Byte - 1
      PROVE  FragInv'
  <2>1. ContextOK'
    BY <1>2, <1>3, <1>5, StoreKeeps, Zenon
  <2>2. DeliveredIsSent'
    BY <1>3, <1>5, ReportsStay, Zenon
  <2> QED
    BY <1>1, <2>1, <2>2, Zenon DEF FragInv
<1>6. CASE koe_packet_reassemble(f)
  <2>1. Accepts(f) /\ ~wrapped' => ctx.received # Byte - 1
    BY <1>6, Zenon DEF koe_packet_reassemble
  <2>2. CASE ~Accepts(f) /\ UNCHANGED <<ctx, delivered, crashed>>
    BY <1>4, <2>2, Zenon
  <2>3. CASE Accepts(f) /\ ~Complete(c) /\ ctx' = c /\ UNCHANGED <<delivered, crashed>>
    BY <1>5, <2>1, <2>3, Zenon
  <2>4. CASE Accepts(f) /\ Complete(c) /\ Assemble(c)
    <3>1. ContextOK' /\ DeliveredIsSent'
      BY <1>2, <1>3, <2>1, <2>4, AssembleKeeps, Zenon
    <3> QED
      BY <1>1, <3>1, Zenon DEF FragInv
  <2> QED
    BY <1>6, <2>2, <2>3, <2>4, Zenon DEF koe_packet_reassemble
<1>7. CASE ReassembleFails(f)
  <2>1. Accepts(f) /\ UNCHANGED <<delivered, crashed, wrapped>>
    BY <1>7, Zenon DEF ReassembleFails
  <2>2. CASE ctx' = Claimed(f)
    <3>1. CASE ctx.received # 0
      BY <1>4, <2>1, <2>2, <3>1, Zenon DEF Claimed
    <3>2. CASE ctx.received = 0
      <4>1. ctx'.received = 0 /\ ctx'.fragments = ctx.fragments
        BY <2>2, <3>2, Zenon DEF Claimed
      <4>2. ContextOK'
        BY <2>1, <3>2, <4>1, Zenon DEF FragInv, ContextOK, OwnPieces
      <4>3. DeliveredIsSent'
        BY <1>3, <2>1, ReportsStay, Zenon
      <4> QED
        BY <1>1, <4>2, <4>3, Zenon DEF FragInv
    <3> QED
      BY <3>1, <3>2, Zenon
  <2>3. CASE Complete(c) /\ ctx' = c
    <3>1. ctx.received # Byte - 1
      <4> SUFFICES ASSUME ctx.received = Byte - 1 PROVE FALSE
        BY Zenon
      <4>1. Byte \in Nat \ {0}
        BY FragmentationAssumption, Zenon
      <4>2. c.received = (ctx.received + 1) % Byte
        BY Zenon DEF Stored
      <4>3. c.total_fragments \in 1 .. (Byte - 1) /\ c.received >= c.total_fragments
        BY <2>1, <2>3, StoredFacts, FragmentFacts, Zenon DEF Complete
      <4> HIDE DEF c
      <4>4. c.received = 0
        BY <4>1, <4>2
      <4> QED
        BY <4>1, <4>3, <4>4
    <3> QED
      BY <1>5, <2>1, <2>3, <3>1, Zenon
  <2> QED
    BY <1>7, <2>2, <2>3, Zenon DEF ReassembleFails
<1> QED
  BY <1>6, <1>7, Zenon

(* Splitting a packet, handing over a fragment in any order, once or       *)
(* again, and zeroing the context keep the invariant.                      *)
LEMMA FragStep == FragInv /\ [FragNext]_fragVars => FragInv'
<1> SUFFICES ASSUME FragInv, [FragNext]_fragVars PROVE FragInv'
  BY Zenon
<1>1. ASSUME NEW m \in Packets, koe_packet_fragment(m) PROVE FragInv'
  <2>1. /\ m \notin sent /\ TotalFrags(m) \in 1 .. MaxFrags
        /\ sent' = sent \cup {m} /\ net' = net \cup Fragments(m)
        /\ UNCHANGED <<ctx, delivered, crashed, repeated, wrapped>>
    BY <1>1, Zenon DEF koe_packet_fragment, histories
  <2>2. TotalFrags(m) \in 1 .. (Byte - 1)
    <3>1. Pieces[m] \in Nat /\ Byte \in Nat \ {0} /\ MaxFrags \in Nat
      BY FragmentationAssumption, Zenon
    <3>2. Pieces[m] % Byte \in 0 .. (Byte - 1)
      BY <3>1
    <3> QED
      BY <2>1, <3>1, <3>2 DEF TotalFrags
  <2>3. \A f \in Fragments(m) : f.msg_id = m
    BY DEF Fragments
  <2>4. \A f \in net' : f.msg_id \in sent' /\ f \in Fragments(f.msg_id)
    BY <2>1, <2>3, Zenon DEF FragInv
  <2>5. ContextOK'
    <3>1. ctx.received # 0 => \A g \in net' : g.msg_id = ctx.msg_id => g \in net
      BY <2>1, <2>3, Zenon DEF FragInv, ContextOK
    <3>2. ctx.received # 0 /\ Counted(ctx, net) => Counted(ctx, net')
      BY <3>1, Zenon DEF Counted
    <3>3. ctx.received # 0 /\ Exhausted(ctx, net) => Exhausted(ctx, net')
      BY <3>1, Zenon DEF Exhausted
    <3> QED
      BY <2>1, <3>2, <3>3, Zenon
         DEF FragInv, ContextOK, OwnPieces, Counted, Exhausted, TotalFrags
  <2>6. DeliveredIsSent'
    BY <2>1, ReportsStay, Zenon
  <2> QED
    BY <2>1, <2>2, <2>4, <2>5, <2>6, Zenon DEF FragInv
<1>2. ASSUME NEW f \in net, Receive(f) PROVE FragInv'
  BY <1>2, ReassembleKeeps, Zenon DEF Receive
<1>3. ASSUME UNCHANGED <<sent, delivered, crashed, repeated, wrapped>>, net' \subseteq net,
             ctx' = ctx \/ ctx' = Fresh
      PROVE  FragInv'
  <2>1. ctx' = ctx => ContextOK'
    BY <1>3, Zenon DEF FragInv, ContextOK, OwnPieces, Counted, Exhausted, TotalFrags
  <2>2. ContextOK'
    BY <1>3, <2>1, FreshOK, Zenon
  <2>3. DeliveredIsSent'
    BY <1>3, ReportsStay, Zenon
  <2> QED
    BY <1>3, <2>2, <2>3, Zenon DEF FragInv
<1>4. ASSUME NEW f \in net, Lose(f) PROVE FragInv'
  BY <1>3, <1>4, Zenon DEF Lose, histories
<1>5. ASSUME NEW f \in net, Repeat(f) PROVE FragInv'
  BY <1>5, ReassembleKeeps, Zenon DEF Repeat
<1>6. CASE ZeroContext
  BY <1>3, <1>6, Zenon DEF ZeroContext, histories
<1>7. CASE UNCHANGED fragVars
  BY <1>3, <1>7, Zenon DEF fragVars, histories
<1> QED
  BY <1>1, <1>2, <1>4, <1>5, <1>6, <1>7, Zenon DEF FragNext

(* Whatever is reported as complete is what was to be sent, for every      *)
(* number of packets of every length, in every order of arrival, with the  *)
(* exceptions that DeliveredIsSent names and no others.                    *)
THEOREM DeliveredIsSentCorrect == FragSpec => []DeliveredIsSent
<1>1. FragInv => DeliveredIsSent
  BY Zenon DEF FragInv
<1> QED
  BY <1>1, FragInitial, FragStep, PTL DEF FragSpec

-----------------------------------------------------------------------------
(* The event queue *)

IInv == TypeOK /\ FifoOrder /\ Conserved

(* Nothing posted, nothing pending.                                        *)
LEMMA InitIInv == Init => IInv
  BY FifoAssumption DEF Init, IInv, TypeOK, FifoOrder, Conserved

(* koe_event_post with room in the ring.                                   *)
LEMMA PostIInv == IInv /\ Post => IInv'
<1> SUFFICES ASSUME IInv, Post PROVE IInv'
  BY Zenon
<1> USE DEF IInv
<1>1. /\ pending' \in Seq(Nat)
      /\ Len(pending') = Len(pending) + 1
      /\ \A k \in 1..Len(pending) : pending'[k] = pending[k]
      /\ pending'[Len(pending) + 1] = posted + 1
  BY DEF Post, TypeOK
<1>2. TypeOK' /\ Conserved'
  BY <1>1, FifoAssumption DEF Post, TypeOK, Conserved
<1>3. /\ posted \in Nat /\ posted' = posted + 1 /\ taken' = taken
      /\ Len(pending) \in Nat /\ Len(taken) \in Nat
      /\ \A k \in 1..Len(taken) : taken[k] \in Nat
  BY FifoAssumption DEF Post, TypeOK
<1>4. \A k \in 1..Len(pending') : pending'[k] = posted' - Len(pending') + k
  <2> SUFFICES ASSUME NEW k \in 1..Len(pending')
               PROVE  pending'[k] = posted' - Len(pending') + k
    BY Zenon
  <2>1. CASE k \in 1..Len(pending)
    <3>1. pending'[k] = pending[k]
      BY <1>1, <2>1, Zenon
    <3>2. pending[k] = posted - Len(pending) + k
      BY <2>1, Zenon DEF FifoOrder
    <3> HIDE DEF IInv
    <3> QED
      BY <1>1, <1>3, <3>1, <3>2
  <2>2. CASE k = Len(pending) + 1
    BY <1>1, <1>3, <2>2
  <2> QED
    BY <1>1, <1>3, <2>1, <2>2
<1>5. \A k \in 1..Len(taken') : taken'[k] >= 1 /\ taken'[k] + Len(pending') <= posted'
  <2> SUFFICES ASSUME NEW k \in 1..Len(taken)
               PROVE  taken[k] >= 1 /\ taken[k] + Len(pending') <= posted'
    BY <1>3, Zenon
  <2>1. taken[k] \in Nat /\ taken[k] >= 1 /\ taken[k] + Len(pending) <= posted
    BY <1>3, Zenon DEF FifoOrder
  <2> QED
    BY <1>1, <1>3, <2>1
<1>6. \A j, k \in 1..Len(taken') : j < k => taken'[j] < taken'[k]
  BY <1>3, Zenon DEF FifoOrder
<1> QED
  BY <1>2, <1>4, <1>5, <1>6, Zenon DEF FifoOrder

(* What remains when the head of the pending events is removed.            *)
LEMMA TailFacts ==
    ASSUME TypeOK, pending # << >>
    PROVE  /\ Tail(pending) \in Seq(Nat)
           /\ Len(Tail(pending)) = Len(pending) - 1
           /\ Len(pending) \in Nat /\ Len(pending) >= 1
           /\ \A k \in 1..(Len(pending) - 1) : Tail(pending)[k] = pending[k + 1]
           /\ Head(pending) = pending[1] /\ pending[1] \in Nat
  BY DEF TypeOK

(* The drop of koe_event_post on a full ring.                              *)
LEMMA DiscardIInv == IInv /\ DiscardOldest => IInv'
<1> SUFFICES ASSUME IInv, DiscardOldest PROVE IInv'
  BY Zenon
<1> USE DEF IInv
<1>1. pending # << >>
  BY FifoAssumption, Zenon DEF DiscardOldest, TypeOK
<1>2. /\ pending' \in Seq(Nat) /\ Len(pending') = Len(pending) - 1
      /\ Len(pending) \in Nat /\ Len(pending) >= 1
      /\ \A k \in 1..(Len(pending) - 1) : pending'[k] = pending[k + 1]
  BY <1>1, TailFacts, Zenon DEF DiscardOldest
<1>3. TypeOK' /\ Conserved'
  BY <1>2, FifoAssumption DEF DiscardOldest, TypeOK, Conserved
<1>4. posted \in Nat /\ posted' = posted /\ \A k \in 1..Len(taken) : taken[k] \in Nat
  BY FifoAssumption DEF TypeOK, DiscardOldest
<1>5. \A k \in 1..Len(pending') : pending'[k] = posted' - Len(pending') + k
  <2> SUFFICES ASSUME NEW k \in 1..Len(pending')
               PROVE  pending'[k] = posted' - Len(pending') + k
    BY Zenon
  <2>1. k + 1 \in 1..Len(pending) /\ pending'[k] = pending[k + 1]
    BY <1>2
  <2>2. pending[k + 1] = posted - Len(pending) + (k + 1)
    BY <2>1, Zenon DEF FifoOrder
  <2> QED
    BY <1>2, <1>4, <2>1, <2>2
<1>6. \A k \in 1..Len(taken') : taken'[k] >= 1 /\ taken'[k] + Len(pending') <= posted'
  <2>1. taken' = taken
    BY Zenon DEF DiscardOldest
  <2> SUFFICES ASSUME NEW k \in 1..Len(taken)
               PROVE  taken[k] >= 1 /\ taken[k] + Len(pending') <= posted
    BY <1>4, <2>1, Zenon
  <2>2. taken[k] \in Nat /\ taken[k] >= 1 /\ taken[k] + Len(pending) <= posted
    BY <1>4, Zenon DEF FifoOrder
  <2> QED
    BY <1>2, <1>4, <2>2
<1>7. \A j, k \in 1..Len(taken') : j < k => taken'[j] < taken'[k]
  BY Zenon DEF DiscardOldest, FifoOrder
<1> QED
  BY <1>3, <1>5, <1>6, <1>7, Zenon DEF FifoOrder

(* One turn of the loop of koe_event_poll.                                 *)
LEMMA TakeIInv == IInv /\ Take => IInv'
<1> SUFFICES ASSUME IInv, Take PROVE IInv'
  BY Zenon
<1> USE DEF IInv
<1>1. /\ pending' \in Seq(Nat) /\ Len(pending') = Len(pending) - 1
      /\ Len(pending) \in Nat /\ Len(pending) >= 1
      /\ \A k \in 1..(Len(pending) - 1) : pending'[k] = pending[k + 1]
      /\ Head(pending) = pending[1] /\ pending[1] \in Nat
  BY TailFacts, Zenon DEF Take
<1>2. /\ taken' \in Seq(Nat) /\ Len(taken') = Len(taken) + 1 /\ Len(taken) \in Nat
      /\ \A k \in 1..Len(taken) : taken'[k] = taken[k]
      /\ taken'[Len(taken) + 1] = pending[1]
  BY <1>1 DEF Take, TypeOK
<1>3. TypeOK' /\ Conserved'
  BY <1>1, <1>2, FifoAssumption DEF Take, TypeOK, Conserved
<1>4. pending[1] = posted - Len(pending) + 1
  BY <1>1 DEF FifoOrder
<1>5. posted \in Nat /\ posted - Len(pending) \in Nat
  BY <1>1, FifoAssumption DEF TypeOK, Conserved
<1>6. \A k \in 1..Len(pending') : pending'[k] = posted' - Len(pending') + k
  BY <1>1, <1>5 DEF Take, FifoOrder
<1>7. \A k \in 1..Len(taken') : taken'[k] >= 1 /\ taken'[k] + Len(pending') <= posted'
  <2> SUFFICES ASSUME NEW k \in 1..Len(taken')
               PROVE  taken'[k] >= 1 /\ taken'[k] + Len(pending') <= posted'
    BY Zenon
  <2>1. posted' = posted
    BY Zenon DEF Take
  <2>2. CASE k \in 1..Len(taken)
    <3>1. taken'[k] = taken[k]
      BY <1>2, <2>2, Zenon
    <3>2. taken[k] >= 1 /\ taken[k] + Len(pending) <= posted
      BY <2>2, Zenon DEF FifoOrder
    <3>3. taken \in Seq(Nat)
      BY Zenon DEF TypeOK
    <3>4. taken[k] \in Nat
      BY <2>2, <3>3
    <3> HIDE DEF IInv
    <3> QED
      BY <1>1, <1>5, <2>1, <3>1, <3>2, <3>4
  <2>3. CASE k = Len(taken) + 1
    <3>1. taken'[k] = posted - Len(pending) + 1
      BY <1>2, <1>4, <2>3, Zenon
    <3> HIDE DEF IInv
    <3> QED
      BY <1>1, <1>5, <2>1, <3>1
  <2>4. k \in 1..Len(taken) \/ k = Len(taken) + 1
    <3> HIDE DEF IInv
    <3> QED
      BY <1>2
  <2> QED
    BY <2>2, <2>3, <2>4, Zenon
<1>8. \A j, k \in 1..Len(taken') : j < k => taken'[j] < taken'[k]
  <2> SUFFICES ASSUME NEW j \in 1..Len(taken'), NEW k \in 1..Len(taken'), j < k
               PROVE  taken'[j] < taken'[k]
    BY Zenon
  <2>0. j \in 1..Len(taken)
    <3> HIDE DEF IInv
    <3> QED
      BY <1>2
  <2>1. j \in 1..Len(taken) /\ taken'[j] = taken[j] /\ taken[j] \in Nat
    <3>1. taken'[j] = taken[j]
      BY <1>2, <2>0, Zenon
    <3>2. taken \in Seq(Nat)
      BY Zenon DEF TypeOK
    <3>3. taken[j] \in Nat
      BY <2>0, <3>2, SMTT(30)
    <3> QED
      BY <2>0, <3>1, <3>3, Zenon
  <2>2. CASE k \in 1..Len(taken)
    BY <1>2, <2>1, <2>2, Zenon DEF FifoOrder
  <2>3. CASE k = Len(taken) + 1
    <3>1. taken[j] + Len(pending) <= posted
      BY <2>1, Zenon DEF FifoOrder
    <3>2. taken'[k] = posted - Len(pending) + 1
      BY <1>2, <1>4, <2>3, Zenon
    <3>3. taken'[j] = taken[j] /\ taken[j] \in Nat /\ Len(pending) \in Nat
      BY <1>1, <2>1, Zenon
    <3> HIDE DEF IInv
    <3> QED
      BY <1>5, <3>1, <3>2, <3>3
  <2>4. k \in 1..Len(taken) \/ k = Len(taken) + 1
    <3> HIDE DEF IInv
    <3> QED
      BY <1>2
  <2> QED
    BY <2>2, <2>3, <2>4, Zenon
<1> QED
  BY <1>3, <1>6, <1>7, <1>8, Zenon DEF FifoOrder

(* The invariant holds in every reachable state.                           *)
LEMMA AlwaysIInv == Spec => []IInv
<1>1. IInv /\ [Next]_vars => IInv'
  <2>1. IInv /\ UNCHANGED vars => IInv'
    BY Zenon DEF vars, IInv, TypeOK, FifoOrder, Conserved
  <2> QED
    BY <2>1, PostIInv, DiscardIInv, TakeIInv, Zenon DEF Next
<1> QED
  BY InitIInv, <1>1, PTL DEF Spec

(* Type correctness, with the bound of the ring on the pending events.     *)
THEOREM TypeCorrect == Spec => []TypeOK
<1>1. IInv => TypeOK
  BY Zenon DEF IInv
<1> QED
  BY AlwaysIInv, <1>1, PTL

(* Events are taken in order and at most once.                             *)
THEOREM OrderCorrect == Spec => []FifoOrder
<1>1. IInv => FifoOrder
  BY Zenon DEF IInv
<1> QED
  BY AlwaysIInv, <1>1, PTL

(* No event disappears without a warning.                                  *)
THEOREM NoSilentLoss == Spec => []Conserved
<1>1. IInv => Conserved
  BY Zenon DEF IInv
<1> QED
  BY AlwaysIInv, <1>1, PTL

-----------------------------------------------------------------------------
(* Sequences and counting *)

(* What is left of a sequence without its last element.                    *)
LEMMA FrontFacts ==
    ASSUME NEW S, NEW s \in Seq(S), s # << >>
    PROVE  /\ Front(s) \in Seq(S)
           /\ Len(s) \in Nat /\ Len(s) >= 1
           /\ Len(Front(s)) = Len(s) - 1
           /\ \A k \in 1..(Len(s) - 1) : Front(s)[k] = s[k]
<1>1. Len(s) \in Nat /\ Len(s) >= 1
  BY EmptySeq
<1>2. \A k \in 1..(Len(s) - 1) : s[k] \in S
  BY <1>1, ElementOfSeq
<1> DEFINE n == Len(s) - 1
<1>3. n \in Int /\ 1 \in Int
  BY <1>1
<1> HIDE DEF n
<1> DEFINE t == SubSeq(s, 1, n)
<1>4. /\ t \in Seq(S)
      /\ Len(t) = IF 1 <= n THEN n - 1 + 1 ELSE 0
      /\ \A k \in 1..(n - 1 + 1) : t[k] = s[1 + k - 1]
  <2>1. \A k \in 1..n : s[k] \in S
    BY <1>2, Zenon DEF n
  <2> QED
    BY <1>3, <2>1, SubSeqProperties
<1>5. Front(s) = t
  BY Zenon DEF Front, n
<1> HIDE DEF t
<1>6. n \in Nat
  BY <1>1 DEF n
<1>7. Len(t) = n /\ \A k \in 1..n : t[k] = s[k]
  BY <1>4, <1>6
<1> QED
  BY <1>1, <1>4, <1>5, <1>7, Zenon DEF n

(* How often l occurs in s.                                                *)
Occurrences(s, l) == Cardinality({k \in 1..Len(s) : s[k] = l})

(* Nothing occurs in the empty sequence.                                   *)
LEMMA NoOccurrence == \A l : Occurrences(<< >>, l) = 0
<1> TAKE l
<1>1. {k \in 1..Len(<< >>) : << >>[k] = l} = {}
  OBVIOUS
<1> QED
  BY <1>1, FS_EmptySet, Zenon DEF Occurrences

(* Appending an element counts for that element only.                      *)
LEMMA AppendOccurrence ==
    ASSUME NEW S, NEW s \in Seq(S), NEW x \in S, NEW l
    PROVE  /\ x # l => Occurrences(Append(s, x), l) = Occurrences(s, l)
           /\ x = l => Occurrences(Append(s, x), l) = Occurrences(s, l) + 1
<1> DEFINE t == Append(s, x)
           Old == {k \in 1..Len(s) : s[k] = l}
           New == {k \in 1..Len(t) : t[k] = l}
<1>1. /\ Len(s) \in Nat /\ Len(t) = Len(s) + 1
      /\ \A k \in 1..Len(s) : t[k] = s[k]
      /\ t[Len(s) + 1] = x
  BY AppendProperties, LenProperties
<1> HIDE DEF t
<1>2. 1..Len(t) = 1..Len(s) \cup {Len(s) + 1} /\ Len(s) + 1 \notin 1..Len(s)
  BY <1>1
<1>3. x # l => New = Old
  BY <1>1, <1>2, Zenon
<1>4. x = l => New = Old \cup {Len(s) + 1}
  BY <1>1, <1>2, Zenon
<1>5. Len(s) + 1 \notin Old
  BY <1>2, Zenon
<1>6. IsFiniteSet(Old)
  <2>1. IsFiniteSet(1..Len(s))
    BY <1>1, FS_Interval
  <2> QED
    BY <2>1, FS_Subset, Zenon
<1> HIDE DEF Old, New
<1>7. x = l => Cardinality(New) = Cardinality(Old) + 1
  BY <1>4, <1>5, <1>6, FS_AddElement, Zenon
<1> QED
  BY <1>3, <1>7, Zenon DEF Occurrences, Old, New, t

-----------------------------------------------------------------------------
(* The dispatch loop *)

(* A listener that stays has been called as soon as the loop has passed    *)
(* its place in the array, and not before, unless it was moved behind the  *)
(* loop before its turn.                                                   *)
CalledUpTo ==
    \A k \in 1..Len(listeners) : listeners[k] \in due =>
       /\ listeners[k] \in skipped => k <= i
       /\ Occurrences(called, listeners[k])
             = IF k <= i /\ listeners[k] \notin skipped THEN 1 ELSE 0

ListenersOK ==
    /\ listeners \in Seq(Listeners)
    /\ \A j, k \in 1..Len(listeners) : listeners[j] = listeners[k] => j = k
    /\ due \subseteq Range(listeners)
    /\ i \in Nat
    /\ called \in Seq(Listeners)

LoopInv ==
    /\ ListenersOK
    /\ ev # NoEvent => /\ ev.suppressed => called = << >>
                       /\ ~ev.suppressed => CalledUpTo

(* The elements of the array.                                              *)
LEMMA ListenersRange ==
    ASSUME ListenersOK
    PROVE  /\ Len(listeners) \in Nat
           /\ Range(listeners) = {listeners[k] : k \in 1..Len(listeners)}
           /\ \A k \in 1..Len(listeners) : listeners[k] \in Listeners
  BY LenProperties, SeqRange, ElementOfSeq, Zenon DEF ListenersOK

(* No listener, no event.                                                  *)
LEMMA LoopInit == DispatchInit => LoopInv
<1> SUFFICES ASSUME DispatchInit PROVE LoopInv
  BY Zenon
<1>1. listeners = << >> /\ called = << >> /\ i = 0 /\ due = {} /\ ev = NoEvent
  BY Zenon DEF DispatchInit
<1>2. listeners \in Seq(Listeners) /\ called \in Seq(Listeners) /\ Len(listeners) = 0
  BY <1>1, EmptySeq, Zenon
<1> QED
  BY <1>1, <1>2 DEF LoopInv, ListenersOK

(* A step of the application that leaves the loop where it is: what is due *)
(* keeps its place or moves down, and is skipped where it moves past the   *)
(* loop.                                                                   *)
LEMMA PlacesStay ==
    ASSUME LoopInv, ListenersOK', UNCHANGED loop,
           \A k \in 1..Len(listeners') : listeners'[k] \in due' =>
              \E j \in 1..Len(listeners) :
                 /\ k <= j /\ listeners[j] = listeners'[k] /\ listeners[j] \in due
                 /\ listeners[j] \in skipped' <=>
                      listeners[j] \in skipped \/ (k <= i /\ i < j)
    PROVE  LoopInv'
<1>1. ev' = ev /\ i' = i /\ called' = called
  BY Zenon DEF loop
<1>2. ASSUME CalledUpTo PROVE CalledUpTo'
  <2> SUFFICES ASSUME NEW k \in 1..Len(listeners'), listeners'[k] \in due'
               PROVE  /\ listeners'[k] \in skipped' => k <= i
                      /\ Occurrences(called, listeners'[k])
                            = IF k <= i /\ listeners'[k] \notin skipped' THEN 1 ELSE 0
    BY <1>1, Zenon DEF CalledUpTo
  <2>1. PICK j \in 1..Len(listeners) :
           /\ k <= j /\ listeners[j] = listeners'[k] /\ listeners[j] \in due
           /\ listeners[j] \in skipped' <=>
                listeners[j] \in skipped \/ (k <= i /\ i < j)
    BY Zenon
  <2> DEFINE l == listeners[j]
             n == Occurrences(called, l)
  <2>2. l \in skipped => j <= i
    BY <1>2, <2>1, Zenon DEF CalledUpTo
  <2>3. n = IF j <= i /\ l \notin skipped THEN 1 ELSE 0
    BY <1>2, <2>1, Zenon DEF CalledUpTo
  <2>4. l = listeners'[k] /\ k <= j
        /\ (l \in skipped' <=> l \in skipped \/ (k <= i /\ i < j))
    BY <2>1, Zenon
  <2>5. i \in Int /\ j \in Int /\ k \in Int
    BY DEF LoopInv, ListenersOK
  <2> HIDE DEF l, n
  <2>6. l \in skipped' => k <= i
    BY <2>2, <2>4, <2>5
  <2>7. n = IF k <= i /\ l \notin skipped' THEN 1 ELSE 0
    BY <2>2, <2>3, <2>4, <2>5
  <2> QED
    BY <2>4, <2>6, <2>7, Zenon DEF n
<1> QED
  BY <1>1, <1>2, Zenon DEF LoopInv

(* koe_event_register: a new place at the end, of a function not due.      *)
LEMMA RegisterLoop ==
    ASSUME LoopInv, NEW l \in Listeners, koe_event_register(l)
    PROVE  LoopInv'
<1>1. ListenersOK
  BY Zenon DEF LoopInv
<1>2. /\ listeners' = Append(listeners, l) /\ l \notin Range(listeners)
      /\ UNCHANGED <<loop, due, skipped>>
  BY Zenon DEF koe_event_register
<1>3. /\ listeners' \in Seq(Listeners)
      /\ Len(listeners') = Len(listeners) + 1
      /\ \A k \in 1..Len(listeners) : listeners'[k] = listeners[k]
      /\ listeners'[Len(listeners) + 1] = l
  BY <1>1, <1>2, AppendProperties DEF ListenersOK
<1>4. /\ Len(listeners) \in Nat
      /\ Range(listeners) = {listeners[k] : k \in 1..Len(listeners)}
  BY <1>1, ListenersRange, Zenon
<1>5. 1..Len(listeners') = 1..Len(listeners) \cup {Len(listeners) + 1}
  BY <1>3, <1>4
<1>6. \A j, k \in 1..Len(listeners') : listeners'[j] = listeners'[k] => j = k
  BY <1>1, <1>2, <1>3, <1>4, <1>5 DEF ListenersOK
<1>7. Range(listeners') = {listeners'[k] : k \in 1..Len(listeners')}
  BY <1>3, SeqRange, Zenon
<1>8. Range(listeners) \subseteq Range(listeners')
  BY <1>3, <1>4, <1>5, <1>7, Zenon
<1>9. ListenersOK'
  BY <1>1, <1>2, <1>3, <1>6, <1>8, Zenon DEF ListenersOK, loop
<1>10. l \notin due
  BY <1>1, <1>2, Zenon DEF ListenersOK
<1>11. ASSUME NEW k \in 1..Len(listeners'), listeners'[k] \in due'
       PROVE  \E j \in 1..Len(listeners) :
                 /\ k <= j /\ listeners[j] = listeners'[k] /\ listeners[j] \in due
                 /\ listeners[j] \in skipped' <=>
                      listeners[j] \in skipped \/ (k <= i /\ i < j)
  <2>1. k \in 1..Len(listeners) /\ listeners[k] = listeners'[k]
    BY <1>2, <1>3, <1>5, <1>10, <1>11, Zenon
  <2>2. k <= k /\ ~(k <= i /\ i < k)
    BY <1>1 DEF ListenersOK
  <2> QED
    BY <1>2, <1>11, <2>1, <2>2, Zenon
<1> QED
  BY <1>2, <1>9, <1>11, PlacesStay, Zenon

(* koe_event_unregister: one place is lost and at most one listener moves. *)
LEMMA UnregisterLoop ==
    ASSUME LoopInv, NEW l \in Listeners, koe_event_unregister(l)
    PROVE  LoopInv'
<1>1. ListenersOK
  BY Zenon DEF LoopInv
<1>2. PICK k \in 1..Len(listeners) :
         /\ listeners[k] = l
         /\ listeners' = Front([listeners EXCEPT ![k] = Last(listeners)])
         /\ skipped' = skipped \cup (IF Overtaken(k) THEN {Last(listeners)} ELSE {})
         /\ due' = due \ {l}
         /\ UNCHANGED loop
  BY Zenon DEF koe_event_unregister
<1> DEFINE n == Len(listeners)
           last == listeners[n]
           swapped == [listeners EXCEPT ![k] = last]
<1>3. /\ n \in Nat /\ n >= 1 /\ k \in 1..n
      /\ listeners \in Seq(Listeners) /\ last \in Listeners
      /\ Range(listeners) = {listeners[j] : j \in 1..n}
  BY <1>1, <1>2, ListenersRange DEF ListenersOK
<1>4. /\ swapped \in Seq(Listeners) /\ Len(swapped) = n
      /\ \A j \in 1..n : swapped[j] = IF j = k THEN last ELSE listeners[j]
  BY <1>3, ExceptSeq
<1>5. Last(listeners) = last /\ listeners' = Front(swapped)
  BY <1>2, Zenon DEF Last
<1> HIDE DEF swapped, last
<1>6. swapped # << >>
  BY <1>3, <1>4, EmptySeq
<1>7. /\ listeners' \in Seq(Listeners)
      /\ Len(listeners') = n - 1
      /\ \A j \in 1..(n - 1) : listeners'[j] = swapped[j]
  BY <1>4, <1>5, <1>6, FrontFacts, Zenon
<1> HIDE DEF n
<1>8. /\ 1..Len(listeners') = 1..(n - 1)
      /\ 1..n = 1..(n - 1) \cup {n} /\ n \notin 1..(n - 1)
      /\ \A j \in 1..(n - 1) : listeners'[j] = IF j = k THEN last ELSE listeners[j]
  BY <1>3, <1>4, <1>7
<1>9. \A j, m \in 1..n : listeners[j] = listeners[m] => j = m
  BY <1>1, Zenon DEF ListenersOK, n
<1>10. last = listeners[n]
  BY Zenon DEF last
<1>11. \A j, m \in 1..Len(listeners') : listeners'[j] = listeners'[m] => j = m
  BY <1>3, <1>8, <1>9, <1>10, Zenon
<1>12. Range(listeners') = {listeners'[j] : j \in 1..(n - 1)}
  BY <1>7, <1>8, SeqRange, Zenon
<1>13. due' \subseteq Range(listeners')
  <2> SUFFICES ASSUME NEW d \in due, d # l
               PROVE  \E j \in 1..(n - 1) : listeners'[j] = d
    BY <1>2, <1>12, Zenon
  <2>1. PICK j \in 1..n : listeners[j] = d
    BY <1>1, <1>3, Zenon DEF ListenersOK
  <2>2. j # k
    BY <1>2, <2>1, Zenon
  <2>3. CASE j = n
    BY <1>3, <1>8, <1>10, <2>1, <2>2, <2>3, Zenon
  <2>4. CASE j \in 1..(n - 1)
    BY <1>8, <2>1, <2>2, <2>4, Zenon
  <2> QED
    BY <1>8, <2>3, <2>4, Zenon
<1>14. ListenersOK'
  BY <1>1, <1>2, <1>7, <1>11, <1>13, Zenon DEF ListenersOK, loop
<1>15. /\ i \in Nat
       /\ skipped' = skipped \cup (IF k <= i /\ i < n THEN {last} ELSE {})
  BY <1>1, <1>2, <1>5, Zenon DEF ListenersOK, Overtaken, n
<1>16. ASSUME NEW m \in 1..Len(listeners'), listeners'[m] \in due'
       PROVE  \E j \in 1..Len(listeners) :
                 /\ m <= j /\ listeners[j] = listeners'[m] /\ listeners[j] \in due
                 /\ listeners[j] \in skipped' <=>
                      listeners[j] \in skipped \/ (m <= i /\ i < j)
  <2>1. listeners'[m] \in due /\ m \in 1..(n - 1)
    BY <1>2, <1>8, <1>16, Zenon
  <2>2. CASE m = k
    <3>1. listeners'[m] = last /\ last \in due
      BY <1>8, <2>1, <2>2, Zenon
    <3>2. last \in skipped' <=> last \in skipped \/ (m <= i /\ i < n)
      BY <1>15, <2>2, Zenon
    <3>3. m <= n /\ n \in 1..Len(listeners)
      BY <1>3, <2>1 DEF n
    <3> QED
      BY <1>10, <3>1, <3>2, <3>3, Zenon
  <2>3. CASE m # k
    <3>1. listeners'[m] = listeners[m] /\ m \in 1..n /\ m # n
      BY <1>8, <2>1, <2>3, Zenon
    <3>2. listeners[m] # last
      BY <1>3, <1>8, <1>9, <1>10, <3>1, Zenon
    <3>3. listeners[m] \in skipped' <=> listeners[m] \in skipped
      BY <1>15, <3>2, Zenon
    <3>4. m <= m /\ ~(m <= i /\ i < m)
      BY <1>15
    <3> QED
      BY <2>1, <3>1, <3>3, <3>4, Zenon DEF n
  <2> QED
    BY <2>2, <2>3, Zenon
<1> QED
  BY <1>2, <1>14, <1>16, PlacesStay, Zenon

(* koe_event_poll takes an event: every listener is due, none was called.  *)
LEMMA PollTakeLoop ==
    ASSUME LoopInv, PollTake
    PROVE  LoopInv'
<1>1. ListenersOK
  BY Zenon DEF LoopInv
<1>2. /\ i' = 0 /\ called' = << >> /\ listeners' = listeners
      /\ due' = Range(listeners) /\ skipped' = {}
  BY Zenon DEF PollTake
<1>3. ListenersOK'
  BY <1>1, <1>2, EmptySeq, Zenon DEF ListenersOK
<1>4. CalledUpTo'
  <2> SUFFICES ASSUME NEW k \in 1..Len(listeners)
               PROVE  Occurrences(<< >>, listeners[k])
                        = IF k <= 0 /\ listeners[k] \notin {} THEN 1 ELSE 0
    BY <1>2, Zenon DEF CalledUpTo
  <2>1. ~(k <= 0)
    BY <1>1, ListenersRange
  <2> QED
    BY <2>1, NoOccurrence, Zenon
<1> QED
  BY <1>2, <1>3, <1>4, Zenon DEF LoopInv

(* One callback: the listener at the next place, and no other.             *)
LEMMA CallLoop ==
    ASSUME LoopInv, CallListener
    PROVE  LoopInv'
<1>1. ListenersOK /\ CalledUpTo
  BY Zenon DEF LoopInv, CallListener
<1>2. /\ i < Len(listeners) /\ i' = i + 1 /\ ev' = ev /\ ~ev.suppressed
      /\ called' = Append(called, listeners[i + 1])
      /\ UNCHANGED <<listeners, due, skipped>>
  BY Zenon DEF CallListener
<1>3. /\ i \in Nat /\ Len(listeners) \in Nat /\ i + 1 \in 1..Len(listeners)
      /\ listeners[i + 1] \in Listeners
      /\ called \in Seq(Listeners)
  BY <1>1, <1>2, ListenersRange DEF ListenersOK
<1>4. ListenersOK'
  BY <1>1, <1>2, <1>3, AppendProperties DEF ListenersOK
<1>5. CalledUpTo'
  <2> SUFFICES ASSUME NEW k \in 1..Len(listeners), listeners[k] \in due
               PROVE  /\ listeners[k] \in skipped => k <= i + 1
                      /\ Occurrences(called', listeners[k])
                            = IF k <= i + 1 /\ listeners[k] \notin skipped THEN 1 ELSE 0
    BY <1>2, Zenon DEF CalledUpTo
  <2>1. /\ listeners[k] \in skipped => k <= i
        /\ Occurrences(called, listeners[k])
              = IF k <= i /\ listeners[k] \notin skipped THEN 1 ELSE 0
    BY <1>1, Zenon DEF CalledUpTo
  <2>2. CASE k = i + 1
    <3>1. Occurrences(called', listeners[k]) = Occurrences(called, listeners[k]) + 1
      BY <1>2, <1>3, <2>2, AppendOccurrence
    <3> QED
      BY <1>3, <2>1, <2>2, <3>1
  <2>3. CASE k # i + 1
    <3>1. listeners[i + 1] # listeners[k]
      BY <1>1, <1>3, <2>3, Zenon DEF ListenersOK
    <3>2. Occurrences(called', listeners[k]) = Occurrences(called, listeners[k])
      BY <1>2, <1>3, <3>1, AppendOccurrence, Zenon
    <3>3. k <= i + 1 <=> k <= i
      BY <1>3, <2>3
    <3> QED
      BY <2>1, <3>2, <3>3, Zenon
  <2> QED
    BY <2>2, <2>3, Zenon
<1> QED
  BY <1>2, <1>4, <1>5, Zenon DEF LoopInv

(* The loop is over, or the process ends.                                  *)
LEMMA FinishLoop ==
    ASSUME LoopInv, FinishEvent \/ DispatchCrashes
    PROVE  LoopInv'
<1>1. CASE FinishEvent
  BY <1>1, Zenon DEF FinishEvent, LoopInv, ListenersOK
<1>2. CASE DispatchCrashes
  <2>1. /\ listeners' = << >> /\ called' = << >> /\ i' = 0 /\ due' = {}
        /\ ev' = NoEvent
    BY <1>2, Zenon DEF DispatchCrashes
  <2>2. /\ listeners' \in Seq(Listeners) /\ called' \in Seq(Listeners)
        /\ Len(listeners') = 0
    BY <2>1, EmptySeq, Zenon
  <2> QED
    BY <2>1, <2>2 DEF LoopInv, ListenersOK
<1> QED
  BY <1>1, <1>2, Zenon

(* Every step of polls, posts and the application keeps the invariant.     *)
LEMMA LoopStep == LoopInv /\ [DispatchNext]_allVars => LoopInv'
<1> SUFFICES ASSUME LoopInv, [DispatchNext]_allVars PROVE LoopInv'
  BY Zenon
<1>1. CASE PollStep
  BY <1>1, PollTakeLoop, CallLoop, FinishLoop, Zenon DEF PollStep
<1>2. CASE UNCHANGED <<listeners, loop, due, skipped>>
  BY <1>2, Zenon DEF LoopInv, ListenersOK, CalledUpTo, loop
<1>3. CASE PostStep
  BY <1>2, <1>3, Zenon DEF PostStep, dispatchVars
<1>4. CASE AppStep
  <2>1. CASE \E l \in Listeners : koe_event_register(l) \/ koe_event_unregister(l)
    BY <2>1, RegisterLoop, UnregisterLoop, Zenon
  <2>2. CASE \/ \E p \in Plugins : koe_plugin_disable(p)
             \/ \E p \in Plugins, loads \in BOOLEAN :
                   koe_plugin_enable(p, loads) \/ koe_plugin_reload(p, loads)
    BY <1>2, <2>2, Zenon DEF koe_plugin_disable, koe_plugin_enable, koe_plugin_reload
  <2> QED
    BY <1>4, <2>1, <2>2, Zenon DEF AppStep
<1>5. CASE UNCHANGED allVars
  BY <1>2, <1>5, Zenon DEF allVars, dispatchVars
<1> QED
  BY <1>1, <1>3, <1>4, <1>5, Zenon DEF DispatchNext

(* When the loop of koe_event_poll has passed the end of the array, each   *)
(* listener that stayed registered was called exactly once, but for those  *)
(* that an unregister moved behind the loop before their turn, which were  *)
(* not called; and none is called for a suppressed event.                  *)
THEOREM CalledOnceCorrect == DispatchSpec => []CalledOnce
<1>1. LoopInv => CalledOnce
  <2> SUFFICES ASSUME LoopInv, ev # NoEvent, ~ev.suppressed, i >= Len(listeners),
                      NEW l \in due
               PROVE  Occurrences(called, l) = IF l \in skipped THEN 0 ELSE 1
    BY Zenon DEF LoopInv, CalledOnce, Occurrences
  <2>1. ListenersOK /\ CalledUpTo
    BY Zenon DEF LoopInv
  <2>2. PICK k \in 1..Len(listeners) : listeners[k] = l
    BY <2>1, ListenersRange, Zenon DEF ListenersOK
  <2>3. k <= i
    BY <2>1, <2>2, ListenersRange DEF ListenersOK
  <2> QED
    BY <2>1, <2>2, <2>3, Zenon DEF CalledUpTo
<1> QED
  BY <1>1, LoopInit, LoopStep, PTL DEF DispatchSpec

(* The loop of koe_event_poll ends whatever its callbacks do: although     *)
(* they may register listeners behind the place where the loop is, and     *)
(* unregister others, at most KOE_MAX_LISTENERS callbacks run for one      *)
(* event.                                                                  *)
CallsBounded == Len(called) <= MaxListeners

BoundInv ==
    /\ Len(listeners) <= MaxListeners
    /\ Len(called) = i /\ i <= MaxListeners

(* koe_event_unregister shortens the array.                                *)
LEMMA UnregisterShortens ==
    ASSUME ListenersOK, NEW l \in Listeners, koe_event_unregister(l)
    PROVE  Len(listeners') = Len(listeners) - 1
<1>1. PICK k \in 1..Len(listeners) :
         listeners' = Front([listeners EXCEPT ![k] = Last(listeners)])
  BY Zenon DEF koe_event_unregister
<1> DEFINE swapped == [listeners EXCEPT ![k] = listeners[Len(listeners)]]
<1>2. /\ listeners \in Seq(Listeners) /\ Len(listeners) \in Nat
      /\ Len(listeners) \in 1..Len(listeners)
  BY <1>1, ListenersRange DEF ListenersOK
<1>3. listeners[Len(listeners)] \in Listeners
  BY <1>2, ListenersRange, Zenon
<1>4. swapped \in Seq(Listeners) /\ Len(swapped) = Len(listeners)
  BY <1>2, <1>3, ExceptSeq
<1>5. listeners' = Front(swapped)
  BY <1>1, Zenon DEF Last
<1> HIDE DEF swapped
<1>6. swapped # << >>
  BY <1>2, <1>4, EmptySeq
<1> QED
  BY <1>4, <1>5, <1>6, FrontFacts, Zenon

(* A callback is begun only for a place inside the array.                  *)
LEMMA BoundStep ==
    LoopInv /\ BoundInv /\ [DispatchNext]_allVars => BoundInv'
<1> SUFFICES ASSUME LoopInv, BoundInv, [DispatchNext]_allVars PROVE BoundInv'
  BY Zenon
<1>1. /\ ListenersOK /\ i \in Nat /\ Len(listeners) \in Nat
      /\ listeners \in Seq(Listeners) /\ called \in Seq(Listeners)
  BY ListenersRange, Zenon DEF LoopInv, ListenersOK
<1>2. CASE PollTake \/ DispatchCrashes
  <2>1. /\ i' = 0 /\ called' = << >>
        /\ listeners' = listeners \/ listeners' = << >>
    BY <1>2, Zenon DEF PollTake, DispatchCrashes
  <2> QED
    BY <1>1, <2>1, DispatchAssumption DEF BoundInv
<1>3. CASE CallListener
  <2>1. /\ i < Len(listeners) /\ i' = i + 1 /\ listeners' = listeners
        /\ called' = Append(called, listeners[i + 1])
    BY <1>3, Zenon DEF CallListener
  <2>2. listeners[i + 1] \in Listeners
    BY <1>1, <2>1, ListenersRange
  <2>3. Len(called') = Len(called) + 1
    BY <1>1, <2>1, <2>2, AppendProperties, Zenon
  <2> QED
    BY <1>1, <2>1, <2>3, DispatchAssumption DEF BoundInv
<1>4. CASE UNCHANGED <<listeners, loop>>
  BY <1>4, Zenon DEF BoundInv, loop
<1>5. CASE FinishEvent
  BY <1>5, Zenon DEF FinishEvent, BoundInv
<1>6. CASE PostStep \/ UNCHANGED allVars
  BY <1>4, <1>6, Zenon DEF PostStep, allVars, dispatchVars
<1>7. ASSUME NEW l \in Listeners, koe_event_register(l) PROVE BoundInv'
  <2>1. /\ Len(listeners) < MaxListeners /\ listeners' = Append(listeners, l)
        /\ UNCHANGED loop
    BY <1>7, Zenon DEF koe_event_register
  <2>2. Len(listeners') = Len(listeners) + 1
    BY <1>1, <1>7, <2>1, AppendProperties, Zenon
  <2> QED
    BY <1>1, <2>1, <2>2, DispatchAssumption DEF BoundInv, loop
<1>8. ASSUME NEW l \in Listeners, koe_event_unregister(l) PROVE BoundInv'
  <2>1. UNCHANGED loop
    BY <1>8, Zenon DEF koe_event_unregister
  <2>2. Len(listeners') = Len(listeners) - 1
    BY <1>1, <1>8, UnregisterShortens, Zenon
  <2> QED
    BY <1>1, <2>1, <2>2, DispatchAssumption DEF BoundInv, loop
<1>9. CASE AppStep
  BY <1>4, <1>7, <1>8, <1>9, Zenon
     DEF AppStep, koe_plugin_disable, koe_plugin_enable, koe_plugin_reload
<1> QED
  BY <1>2, <1>3, <1>5, <1>6, <1>9, Zenon DEF DispatchNext, PollStep

(* Registering from callbacks cannot keep one poll going for ever.         *)
THEOREM CallsBoundedCorrect == DispatchSpec => []CallsBounded
<1>1. DispatchInit => BoundInv
  <2> SUFFICES ASSUME DispatchInit PROVE BoundInv
    BY Zenon
  <2>1. listeners = << >> /\ called = << >> /\ i = 0
    BY Zenon DEF DispatchInit
  <2> QED
    BY <2>1, DispatchAssumption DEF BoundInv
<1>2. BoundInv => CallsBounded
  BY Zenon DEF BoundInv, CallsBounded
<1> QED
  BY <1>1, <1>2, LoopInit, LoopStep, BoundStep, PTL DEF DispatchSpec

-----------------------------------------------------------------------------
(* The queue under the dispatch loop *)

(* Polls take from the queue, posts add to it, a crash empties it; nothing *)
(* else touches it.                                                        *)
LEMMA DispatchQueueStep == IInv /\ [DispatchNext]_allVars => IInv'
<1> SUFFICES ASSUME IInv, [DispatchNext]_allVars PROVE IInv'
  BY Zenon
<1>1. CASE PollTake
  BY <1>1, TakeIInv, Zenon DEF PollTake
<1>2. CASE DispatchCrashes
  <2>1. Init'
    BY <1>2, Zenon DEF DispatchCrashes, Init
  <2>2. Init' => IInv'
    BY FifoAssumption DEF Init, IInv, TypeOK, FifoOrder, Conserved
  <2> QED
    BY <2>1, <2>2, Zenon
<1>3. CASE PostStep
  BY <1>3, PostIInv, DiscardIInv, Zenon DEF PostStep
<1>4. CASE UNCHANGED vars
  BY <1>4, Zenon DEF vars, IInv, TypeOK, FifoOrder, Conserved
<1>5. CASE CallListener \/ FinishEvent \/ UNCHANGED allVars
  BY <1>4, <1>5, Zenon DEF CallListener, FinishEvent, allVars
<1>6. CASE AppStep
  BY <1>4, <1>6, Zenon DEF AppStep, koe_event_register, koe_event_unregister,
                    koe_plugin_disable, koe_plugin_enable, koe_plugin_reload
<1> QED
  BY <1>1, <1>2, <1>3, <1>5, <1>6, Zenon DEF DispatchNext, PollStep

(* Events reach the dispatch in the order of their posts and at most once, *)
(* also those that callbacks post, and after a restart.                    *)
THEOREM DispatchInOrder == DispatchSpec => []FifoOrder
<1>1. DispatchInit => IInv
  BY InitIInv, Zenon DEF DispatchInit
<1>2. IInv => FifoOrder
  BY Zenon DEF IInv
<1> QED
  BY <1>1, <1>2, DispatchQueueStep, PTL DEF DispatchSpec

(* And every one of them is taken, pending or discarded with a warning.    *)
THEOREM DispatchConserves == DispatchSpec => []Conserved
<1>1. DispatchInit => IInv
  BY InitIInv, Zenon DEF DispatchInit
<1>2. IInv => Conserved
  BY Zenon DEF IInv
<1> QED
  BY <1>1, <1>2, DispatchQueueStep, PTL DEF DispatchSpec

-----------------------------------------------------------------------------
(* Plugins *)

PluginInv ==
    /\ plugin \in [Plugins -> [loaded : BOOLEAN, vm : BOOLEAN]]
    /\ LoadedHasVm

(* Every operation on the plugins keeps flag and VM in step.               *)
LEMMA PluginStep == PluginInv /\ [DispatchNext]_allVars => PluginInv'
<1> SUFFICES ASSUME PluginInv, [DispatchNext]_allVars PROVE PluginInv'
  BY Zenon
<1>1. ASSUME NEW p \in Plugins, koe_plugin_disable(p) PROVE PluginInv'
  BY <1>1, Zenon DEF koe_plugin_disable, PluginInv, LoadedHasVm, Unloaded
<1>2. ASSUME NEW p \in Plugins, NEW loads \in BOOLEAN, koe_plugin_enable(p, loads)
      PROVE  PluginInv'
  BY <1>2, Zenon DEF koe_plugin_enable, Enabled, PluginInv, LoadedHasVm
<1>3. ASSUME NEW p \in Plugins, NEW loads \in BOOLEAN, koe_plugin_reload(p, loads)
      PROVE  PluginInv'
  BY <1>3, Zenon DEF koe_plugin_reload, Enabled, Unloaded, PluginInv, LoadedHasVm
<1>4. CASE DispatchCrashes
  BY <1>4, Zenon DEF DispatchCrashes, Unloaded, PluginInv, LoadedHasVm
<1>5. CASE UNCHANGED plugins
  BY <1>5, Zenon DEF plugins, PluginInv, LoadedHasVm
<1>6. CASE PollTake \/ CallListener \/ FinishEvent \/ PostStep \/ UNCHANGED allVars
  BY <1>5, <1>6, Zenon DEF PollTake, CallListener, FinishEvent, PostStep, dispatchVars, allVars
<1>7. CASE AppStep
  BY <1>1, <1>2, <1>3, <1>5, <1>7, Zenon DEF AppStep, koe_event_register, koe_event_unregister
<1> QED
  BY <1>4, <1>6, <1>7, Zenon DEF DispatchNext, PollStep

(* A loaded plugin without a VM, which koe_plugin_dispatch would           *)
(* dereference, comes of a failed enable of a loaded plugin only.          *)
THEOREM LoadedHasVmCorrect == DispatchSpec => []LoadedHasVm
<1>1. DispatchInit => PluginInv
  BY DEF DispatchInit, Unloaded, PluginInv, LoadedHasVm
<1>2. PluginInv => LoadedHasVm
  BY Zenon DEF PluginInv
<1> QED
  BY <1>1, <1>2, PluginStep, PTL DEF DispatchSpec

=============================================================================
