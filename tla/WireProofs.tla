----------------------------- MODULE WireProofs -----------------------------
(***************************************************************************)
(* What holds of the frames on a connection, for every number of packets,  *)
(* connections and failures of calls: they stay frames, and in order.      *)
(***************************************************************************)
EXTENDS MediaTransfer, Integers, TLAPS

(* The length and the elements of a sequence.                              *)
LEMMA LenProperties ==
    ASSUME NEW S, NEW s \in Seq(S)
    PROVE  Len(s) \in Nat /\ s \in [1..Len(s) -> S] /\ DOMAIN s = 1..Len(s)
OBVIOUS

(* An element of a sequence is in the set of its elements.                 *)
LEMMA ElementOfSeq ==
    ASSUME NEW S, NEW s \in Seq(S), NEW i \in 1..Len(s)
    PROVE  s[i] \in S
OBVIOUS

(* The empty sequence, and that no other has length 0.                     *)
LEMMA EmptySeq ==
    ASSUME NEW S
    PROVE  /\ << >> \in Seq(S) /\ Len(<< >>) = 0
           /\ \A s \in Seq(S) : s # << >> => Len(s) \in Nat \ {0}
OBVIOUS

(* A sequence over a set is one over a larger set.                         *)
LEMMA SeqMonotonic ==
    ASSUME NEW S, NEW T, NEW s \in Seq(S), S \subseteq T
    PROVE  s \in Seq(T)
OBVIOUS

(* A sequence with one more element.                                       *)
LEMMA AppendProperties ==
    ASSUME NEW S, NEW s \in Seq(S), NEW e \in S
    PROVE  /\ Append(s, e) \in Seq(S) /\ Append(s, e) # << >>
           /\ Len(Append(s, e)) = Len(s) + 1 /\ Append(s, e)[Len(s) + 1] = e
           /\ \A i \in 1..Len(s) : Append(s, e)[i] = s[i]
OBVIOUS

(* A sequence without its first element.                                   *)
LEMMA HeadTailProperties ==
    ASSUME NEW S, NEW s \in Seq(S), s # << >>
    PROVE  /\ Head(s) \in S /\ Tail(s) \in Seq(S) /\ Len(Tail(s)) = Len(s) - 1
           /\ \A i \in 1..Len(Tail(s)) : Tail(s)[i] = s[i + 1]
OBVIOUS

(* Two sequences joined.                                                   *)
LEMMA ConcatProperties ==
    ASSUME NEW S, NEW s \in Seq(S), NEW t \in Seq(S)
    PROVE  s \o t \in Seq(S) /\ Len(s \o t) = Len(s) + Len(t)
OBVIOUS

(* A part of a sequence.                                                   *)
LEMMA SubSeqProperties ==
    ASSUME NEW S, NEW s, NEW a \in Int, NEW b \in Int, \A i \in a..b : s[i] \in S
    PROVE  /\ SubSeq(s, a, b) \in Seq(S)
           /\ Len(SubSeq(s, a, b)) = IF a <= b THEN b - a + 1 ELSE 0
           /\ \A i \in 1..(b - a + 1) : SubSeq(s, a, b)[i] = s[a + i - 1]
OBVIOUS

(* The packets that the two applications send.                             *)
Offers == [id : Nat, size : Nat, count : Nat, sha256 : Files]
Cells == UNION {{f[i] : i \in DOMAIN f} : f \in Files}
Chunks == Seq(Cells)

AnyPacket ==
    [type : {"OFFER"}, offer : Offers] \cup [type : {"ACK"}, id : Nat, accept : BOOLEAN]
    \cup [type : {"CHUNK"}, data : Chunks] \cup {DonePacket}

Units == [no : Nat] \cup [pkt : AnyPacket, no : Nat]

(* The two ends of a connection are the other's other end.                 *)
LEMMA NodeFacts ==
    /\ Caller \in Nodes /\ Listener \in Nodes
    /\ Other(Caller) = Listener /\ Other(Listener) = Caller
    /\ \A n \in Nodes : /\ Other(n) \in Nodes /\ Other(n) # n /\ Other(Other(n)) = n
                        /\ \A m \in Nodes : m = n \/ m = Other(n)
BY TransportAssumption DEF Nodes, Other

(* What is sent is told apart from bytes that are not a packet and from a  *)
(* call that returned none.                                                *)
LEMMA PacketFacts == \A pkt \in AnyPacket : pkt # Garbage /\ pkt # NoPacket
BY DEF AnyPacket, Garbage, NoPacket, DonePacket

(* The two kinds of units.                                                 *)
LEMMA UnitFacts ==
    /\ \A u \in Units : /\ u.no \in Nat /\ IsPrefix(u) \in BOOLEAN
                        /\ ~IsPrefix(u) => u.pkt \in AnyPacket
    /\ \A no \in Nat :
          /\ [no |-> no] \in Units /\ IsPrefix([no |-> no])
          /\ \A pkt \in AnyPacket : /\ [pkt |-> pkt, no |-> no] \in Units
                                    /\ ~IsPrefix([pkt |-> pkt, no |-> no])
BY Zenon DEF Units, IsPrefix

(* The numbers in a stream rise, strictly from frame to frame, from above  *)
(* that of the last packet received to that of the last frame begun, of    *)
(* which the packet is not there yet in the middle of a frame.             *)
InOrder(s, done, top, mid) ==
    /\ done <= top /\ (mid => done < top)
    /\ \A k \in 1..Len(s) :
          /\ done < s[k].no /\ s[k].no <= top
          /\ mid /\ ~IsPrefix(s[k]) => s[k].no < top
    /\ \A k, l \in 1..Len(s) : k < l =>
          s[k].no <= s[l].no /\ (~IsPrefix(s[k]) => s[k].no < s[l].no)

(* The place of a unit among all the units that make up whole frames.      *)
Position(u) == IF IsPrefix(u) THEN 2 * u.no - 1 ELSE 2 * u.no

(* No unit of a whole frame is missing after the first base units.         *)
InPlace(s, base) == \A k \in 1..Len(s) : Position(s[k]) = base + k

(* A length or a packet is written.                                        *)
LEMMA WriteKeepsOrder ==
    ASSUME NEW s \in Seq(Units), NEW done \in Nat, NEW top \in Nat
    PROVE  /\ InOrder(s, done, top, FALSE) =>
                 /\ InOrder(s, done, top + 1, TRUE)
                 /\ InOrder(Append(s, [no |-> top + 1]), done, top + 1, TRUE)
           /\ \A pkt \in AnyPacket : InOrder(s, done, top, TRUE) =>
                 /\ InOrder(s, done, top, FALSE)
                 /\ InOrder(Append(s, [pkt |-> pkt, no |-> top]), done, top, FALSE)
<1> DEFINE n == Len(s)
<1>1. /\ n \in Nat /\ \A k \in 1..n : s[k].no \in Nat
  BY LenProperties, ElementOfSeq, UnitFacts, Zenon
<1>2. ASSUME NEW u
      PROVE  LET t == Append(s, u)
             IN  /\ Len(t) = n + 1 /\ t[n + 1] = u
                 /\ \A k \in 1..n : t[k] = s[k]
                 /\ \A k \in 1..Len(t) : k = n + 1 \/ k \in 1..n
  OBVIOUS
<1>3. ASSUME InOrder(s, done, top, FALSE)
      PROVE  /\ InOrder(s, done, top + 1, TRUE)
             /\ InOrder(Append(s, [no |-> top + 1]), done, top + 1, TRUE)
  <2> DEFINE u == [no |-> top + 1]  t == Append(s, u)
  <2>1. u.no = top + 1 /\ IsPrefix(u)
    BY UnitFacts
  <2>2. /\ Len(t) = n + 1 /\ t[n + 1] = u
        /\ \A k \in 1..n : t[k] = s[k]
        /\ \A k \in 1..Len(t) : k = n + 1 \/ k \in 1..n
    BY <1>2, Zenon
  <2> HIDE DEF u, t
  <2>3. InOrder(s, done, top + 1, TRUE)
    BY <1>1, <1>3 DEF InOrder
  <2>4. InOrder(t, done, top + 1, TRUE)
    <3>1. \A k \in 1..Len(t) :
             /\ done < t[k].no /\ t[k].no <= top + 1
             /\ TRUE /\ ~IsPrefix(t[k]) => t[k].no < top + 1
      <4> SUFFICES ASSUME NEW k \in 1..Len(t)
                   PROVE  /\ done < t[k].no /\ t[k].no <= top + 1
                          /\ TRUE /\ ~IsPrefix(t[k]) => t[k].no < top + 1
        BY Zenon
      <4>1. CASE k = n + 1
        BY <1>3, <2>1, <2>2, <4>1 DEF InOrder
      <4>2. CASE k \in 1..n
        BY <1>1, <1>3, <2>2, <4>2 DEF InOrder
      <4> QED
        BY <2>2, <4>1, <4>2, Zenon
    <3>2. ASSUME NEW k \in 1..Len(t), NEW l \in 1..Len(t), k < l
          PROVE  t[k].no <= t[l].no /\ (~IsPrefix(t[k]) => t[k].no < t[l].no)
      <4>1. k \in 1..n /\ t[k] = s[k]
        BY <1>1, <2>2, <3>2
      <4>2. CASE l = n + 1
        BY <1>1, <1>3, <2>1, <2>2, <4>1, <4>2 DEF InOrder
      <4>3. CASE l \in 1..n
        BY <1>3, <2>2, <3>2, <4>1, <4>3, Zenon DEF InOrder
      <4> QED
        BY <2>2, <4>2, <4>3, Zenon
    <3> QED
      BY <2>3, <3>1, <3>2, Zenon DEF InOrder
  <2> QED
    BY <2>3, <2>4, Zenon DEF t, u
<1>4. ASSUME NEW pkt \in AnyPacket, InOrder(s, done, top, TRUE)
      PROVE  /\ InOrder(s, done, top, FALSE)
             /\ InOrder(Append(s, [pkt |-> pkt, no |-> top]), done, top, FALSE)
  <2> DEFINE u == [pkt |-> pkt, no |-> top]  t == Append(s, u)
  <2>1. u.no = top /\ ~IsPrefix(u)
    BY UnitFacts, Zenon
  <2>2. /\ Len(t) = n + 1 /\ t[n + 1] = u
        /\ \A k \in 1..n : t[k] = s[k]
        /\ \A k \in 1..Len(t) : k = n + 1 \/ k \in 1..n
    BY <1>2, Zenon
  <2> HIDE DEF u, t
  <2>3. InOrder(s, done, top, FALSE)
    BY <1>1, <1>4, Zenon DEF InOrder
  <2>4. InOrder(t, done, top, FALSE)
    <3>1. \A k \in 1..Len(t) :
             /\ done < t[k].no /\ t[k].no <= top
             /\ FALSE /\ ~IsPrefix(t[k]) => t[k].no < top
      <4> SUFFICES ASSUME NEW k \in 1..Len(t)
                   PROVE  /\ done < t[k].no /\ t[k].no <= top
                          /\ FALSE /\ ~IsPrefix(t[k]) => t[k].no < top
        BY Zenon
      <4>1. CASE k = n + 1
        BY <1>4, <2>1, <2>2, <4>1 DEF InOrder
      <4>2. CASE k \in 1..n
        BY <1>1, <1>4, <2>2, <4>2, Zenon DEF InOrder
      <4> QED
        BY <2>2, <4>1, <4>2, Zenon
    <3>2. ASSUME NEW k \in 1..Len(t), NEW l \in 1..Len(t), k < l
          PROVE  t[k].no <= t[l].no /\ (~IsPrefix(t[k]) => t[k].no < t[l].no)
      <4>1. k \in 1..n /\ t[k] = s[k]
        BY <1>1, <2>2, <3>2
      <4>2. CASE l = n + 1
        BY <1>1, <1>4, <2>1, <2>2, <4>1, <4>2, Zenon DEF InOrder
      <4>3. CASE l \in 1..n
        BY <1>4, <2>2, <3>2, <4>1, <4>3, Zenon DEF InOrder
      <4> QED
        BY <2>2, <4>2, <4>3, Zenon
    <3> QED
      BY <2>3, <3>1, <3>2, Zenon DEF InOrder
  <2> QED
    BY <2>3, <2>4, Zenon DEF t, u
<1> QED
  BY <1>3, <1>4, Zenon

(* The first unit is read, and may be a packet that is returned.           *)
LEMMA ReadKeepsOrder ==
    ASSUME NEW s \in Seq(Units), s # << >>, NEW done \in Nat, NEW top \in Nat, NEW mid,
           InOrder(s, done, top, mid)
    PROVE  /\ Head(s) \in Units /\ Tail(s) \in Seq(Units)
           /\ done < Head(s).no
           /\ InOrder(Tail(s), done, top, mid)
           /\ ~IsPrefix(Head(s)) => InOrder(Tail(s), Head(s).no, top, mid)
<1> DEFINE n == Len(s)  t == Tail(s)
<1>1. n \in Nat /\ n > 0 /\ \A k \in 1..n : s[k] \in Units /\ s[k].no \in Nat
  BY LenProperties, ElementOfSeq, UnitFacts, EmptySeq
<1>2. /\ t \in Seq(Units) /\ Len(t) = n - 1 /\ \A k \in 1..(n - 1) : t[k] = s[k + 1]
      /\ Head(s) = s[1]
  BY <1>1
<1> HIDE DEF t, n
<1>3. \A k \in 1..Len(t) : k + 1 \in 1..n /\ 1 < k + 1
  BY <1>1, <1>2
<1>4. 1 \in 1..n
  BY <1>1
<1>5. done < s[1].no
  BY <1>4, Zenon DEF InOrder, n
<1>6. InOrder(t, done, top, mid)
  <2>1. \A k \in 1..Len(t) :
           /\ done < t[k].no /\ t[k].no <= top
           /\ mid /\ ~IsPrefix(t[k]) => t[k].no < top
    BY <1>2, <1>3, Zenon DEF InOrder, n
  <2>2. \A k, l \in 1..Len(t) : k < l =>
           t[k].no <= t[l].no /\ (~IsPrefix(t[k]) => t[k].no < t[l].no)
    <3> SUFFICES ASSUME NEW k \in 1..(n - 1), NEW l \in 1..(n - 1), k < l
                 PROVE  t[k].no <= t[l].no /\ (~IsPrefix(t[k]) => t[k].no < t[l].no)
      BY <1>2, Zenon
    <3>1. k + 1 \in 1..n /\ l + 1 \in 1..n /\ k + 1 < l + 1
      BY <1>1
    <3> QED
      BY <1>2, <3>1, Zenon DEF InOrder, n
  <2> QED
    BY <2>1, <2>2, Zenon DEF InOrder
<1>7. ASSUME ~IsPrefix(s[1]) PROVE InOrder(t, s[1].no, top, mid)
  <2>1. s[1].no <= top /\ (mid => s[1].no < top)
    BY <1>4, <1>7, Zenon DEF InOrder, n
  <2>2. \A k \in 1..Len(t) : s[1].no < t[k].no
    BY <1>2, <1>3, <1>4, <1>7, Zenon DEF InOrder, n
  <2> QED
    BY <1>6, <2>1, <2>2, Zenon DEF InOrder
<1> QED
  BY <1>1, <1>2, <1>4, <1>5, <1>6, <1>7, Zenon DEF t

(* A unit written or read leaves the units between without a gap.          *)
LEMMA PlaceFacts ==
    ASSUME NEW s \in Seq(Units), NEW base \in Nat, InPlace(s, base)
    PROVE  /\ \A u \in Units : Position(u) = base + Len(s) + 1 => InPlace(Append(s, u), base)
           /\ s # << >> => Position(Head(s)) = base + 1 /\ InPlace(Tail(s), base + 1)
<1> DEFINE n == Len(s)
<1>1. n \in Nat /\ \A k \in 1..n : Position(s[k]) = base + k
  BY LenProperties, Zenon DEF InPlace
<1>2. ASSUME NEW u \in Units, Position(u) = base + n + 1 PROVE InPlace(Append(s, u), base)
  <2> DEFINE t == Append(s, u)
  <2>1. /\ Len(t) = n + 1 /\ t[n + 1] = u
        /\ \A k \in 1..n : t[k] = s[k]
        /\ \A k \in 1..Len(t) : k = n + 1 \/ k \in 1..n
    OBVIOUS
  <2> HIDE DEF t
  <2>2. InPlace(t, base)
    BY <1>1, <1>2, <2>1 DEF InPlace
  <2> QED
    BY <2>2, Zenon DEF t
<1>3. ASSUME s # << >> PROVE Position(Head(s)) = base + 1 /\ InPlace(Tail(s), base + 1)
  <2> DEFINE t == Tail(s)
  <2>1. n > 0
    BY <1>3, LenProperties, EmptySeq
  <2>2. /\ Len(t) = n - 1 /\ \A k \in 1..(n - 1) : t[k] = s[k + 1]
        /\ Head(s) = s[1]
    BY <2>1, <1>3
  <2> HIDE DEF t, n
  <2>3. \A k \in 1..(n - 1) : k + 1 \in 1..n /\ base + (k + 1) = (base + 1) + k
    BY <1>1, <2>1
  <2>4. InPlace(t, base + 1)
    BY <1>1, <2>2, <2>3, Zenon DEF InPlace
  <2> QED
    BY <1>1, <2>1, <2>2, <2>4 DEF t
<1> QED
  BY <1>2, <1>3, Zenon

(* The reader of what w writes on c has read a length and waits for the    *)
(* packet; w itself has written a length and not the packet.               *)
Pend(c, w) ==
    at[Other(w)] = c /\ In(Other(w), "recv") /\ call[Other(w)].length # None
Mid(c, w) == at[w] = c /\ In(w, "send") /\ Len(call[w].units) = 1

(* How many units of whole frames were read and written.                   *)
Base(c, w) == IF Pend(c, w) THEN 2 * last[c][w] + 1 ELSE 2 * last[c][w]
Written(c, w) == IF Mid(c, w) THEN 2 * begun[c][w] - 1 ELSE 2 * begun[c][w]

(* The types, for every number of connections.                             *)
ConnOK ==
    /\ started \in 0..MaxConns /\ accepted \in 0..started
    /\ at \in [Nodes -> Nat]
    /\ at[Caller] <= started /\ at[Listener] <= accepted

StreamOK ==
    /\ stream \in [Conns -> [Nodes -> Seq(Units)]]
    /\ begun \in [Conns -> [Nodes -> Nat]]
    /\ last \in [Conns -> [Nodes -> Nat]]
    /\ cut \in [Conns -> [Nodes -> BOOLEAN]]

(* A call on a connection: what is left of the frame that it writes, the   *)
(* length that it has read or the packet that it returns.                  *)
CallOK(n) ==
    /\ call[n] # Idle => at[n] # 0
    /\ \/ call[n] = Idle
       \/ \E ok \in BOOLEAN : call[n] = Sent(ok)
       \/ \E length \in Nat \cup {None} : call[n] = Receiving(length)
       \/ \E pkt \in AnyPacket \cup {NoPacket, Garbage} : call[n] = Got(pkt)
       \/ \E pkt \in AnyPacket :
             \/ call[n] = Sending(Frame(pkt, begun[at[n]][n] + 1))
             \/ call[n] = Sending(<<[pkt |-> pkt, no |-> begun[at[n]][n]]>>)

(* What w writes on c is in order.  As long as no call failed within a     *)
(* frame, the units come one after the other, from the last one read to    *)
(* the last one written.  Nothing happened yet on a connection that was    *)
(* not made, nor did its acceptor do anything on one not accepted.         *)
Direction(c, w) ==
    /\ InOrder(stream[c][w], last[c][w], begun[c][w], Mid(c, w))
    /\ ~cut[c][w] =>
          /\ Pend(c, w) => call[Other(w)].length = last[c][w] + 1
          /\ InPlace(stream[c][w], Base(c, w))
          /\ at[w] = c /\ ~Gone(c, w) =>
                Base(c, w) + Len(stream[c][w]) = Written(c, w)
    /\ c > started \/ (w = Listener /\ c > accepted) =>
          stream[c][w] = << >> /\ begun[c][w] = 0 /\ last[c][w] = 0 /\ ~Pend(c, w)

(* The inductive invariant of the transport.                               *)
TransportInv ==
    /\ ConnOK
    /\ StreamOK
    /\ DOMAIN call = Nodes /\ \A n \in Nodes : CallOK(n)
    /\ \A c \in Conns, w \in Nodes : Direction(c, w)
    /\ GarbageOnlyAfterCut

(* What is known of a call from the function that it is in.                *)
LEMMA CallFacts ==
    ASSUME NEW n \in Nodes, CallOK(n)
    PROVE  /\ call[n] = Idle => ~In(n, "send") /\ ~In(n, "recv") /\ ~In(n, "got")
           /\ In(n, "send") =>
                 \E pkt \in AnyPacket :
                    \/ call[n] = Sending(Frame(pkt, begun[at[n]][n] + 1))
                    \/ call[n] = Sending(<<[pkt |-> pkt, no |-> begun[at[n]][n]]>>)
           /\ In(n, "recv") => \E length \in Nat \cup {None} : call[n] = Receiving(length)
           /\ In(n, "got") =>
                 \E pkt \in AnyPacket \cup {NoPacket, Garbage} : call[n] = Got(pkt)
           /\ In(n, "send") \/ In(n, "recv") \/ In(n, "got") \/ In(n, "sent") => at[n] # 0
<1> DEFINE Call == call[n]
<1>1. CASE Call = Idle
  BY <1>1 DEF In, Idle
<1>2. CASE \E ok \in BOOLEAN : Call = Sent(ok)
  BY <1>2 DEF CallOK, In, Idle, Sent
<1>3. CASE \E length \in Nat \cup {None} : Call = Receiving(length)
  BY <1>3 DEF CallOK, In, Idle, Receiving
<1>4. CASE \E pkt \in AnyPacket \cup {NoPacket, Garbage} : Call = Got(pkt)
  BY <1>4 DEF CallOK, In, Idle, Got
<1>5. CASE \E pkt \in AnyPacket :
              \/ Call = Sending(Frame(pkt, begun[at[n]][n] + 1))
              \/ Call = Sending(<<[pkt |-> pkt, no |-> begun[at[n]][n]]>>)
  BY <1>5 DEF CallOK, In, Idle, Sending
<1> QED
  BY <1>1, <1>2, <1>3, <1>4, <1>5, Zenon DEF CallOK

(* A node that has a socket has one of a connection that was started.      *)
LEMMA AtConn ==
    ASSUME TransportInv, NEW n \in Nodes, at[n] # 0
    PROVE  /\ at[n] \in Conns /\ ~(at[n] > started)
           /\ ~(n = Listener /\ at[n] > accepted)
           /\ started \in Nat /\ accepted \in Nat /\ \A c \in Conns : c \in Nat /\ c # 0
BY NodeFacts, TransportAssumption DEF TransportInv, ConnOK, Conns

(* Nothing happens to the call that n is in.                               *)
LEMMA SameCall ==
    ASSUME NEW n \in Nodes, CallOK(n), call'[n] = call[n], at'[n] = at[n],
           call[n] = Idle \/ begun'[at[n]][n] = begun[at[n]][n]
    PROVE  CallOK(n)'
<1>1. CASE call[n] = Idle
  BY <1>1, Zenon DEF CallOK
<1>2. CASE begun'[at[n]][n] = begun[at[n]][n]
  BY <1>2, Zenon DEF CallOK
<1> QED
  BY <1>1, <1>2, Zenon

(* Nothing happens to what w writes on c, except that it may be lost once  *)
(* nothing more can be written or w is not there any more.                 *)
LEMMA SameDirection ==
    ASSUME TransportInv, NEW c \in Conns, NEW w \in Nodes,
           \/ stream'[c][w] = stream[c][w]
           \/ stream'[c][w] = << >> /\ ~(at'[w] = c /\ ~Gone(c, w)'),
           begun'[c][w] = begun[c][w], last'[c][w] = last[c][w], cut'[c][w] = cut[c][w],
           Pend(c, w)' = Pend(c, w), Mid(c, w)' = Mid(c, w),
           Pend(c, w) => call'[Other(w)].length = call[Other(w)].length,
           at'[w] = c /\ ~Gone(c, w)' => at[w] = c /\ ~Gone(c, w),
           c > started' => c > started, c > accepted' => c > accepted
    PROVE  Direction(c, w)'
<1>1. Direction(c, w)
  BY Zenon DEF TransportInv
<1>2. Base(c, w)' = Base(c, w) /\ Written(c, w)' = Written(c, w)
  BY Zenon DEF Base, Written
<1>3. CASE stream'[c][w] = stream[c][w]
  BY <1>1, <1>2, <1>3, Zenon DEF Direction
<1>4. CASE stream'[c][w] = << >> /\ ~(at'[w] = c /\ ~Gone(c, w)')
  <2>1. \A k \in 1..Len(<< >>) : FALSE
    BY EmptySeq
  <2>2. InOrder(<< >>, last[c][w], begun[c][w], Mid(c, w)) /\ InPlace(<< >>, Base(c, w))
    BY <1>1, <2>1, Zenon DEF Direction, InOrder, InPlace
  <2> QED
    BY <1>1, <1>2, <1>4, <2>2, Zenon DEF Direction
<1> QED
  BY <1>3, <1>4, Zenon

(* Nothing was written on c by w, or it is forgotten.                      *)
LEMMA FreshDirection ==
    ASSUME NEW c \in Conns, NEW w \in Nodes,
           stream'[c][w] = << >>, begun'[c][w] = 0, last'[c][w] = 0,
           ~Pend(c, w)', ~Mid(c, w)'
    PROVE  Direction(c, w)'
<1>1. Len(<< >>) = 0 /\ \A k \in 1..0 : FALSE
  BY EmptySeq
<1>2. InOrder(<< >>, 0, 0, Mid(c, w)') /\ InPlace(<< >>, 0)
  BY <1>1 DEF InOrder, InPlace
<1>3. Base(c, w)' = 0 /\ Written(c, w)' = 0
  BY DEF Base, Written
<1> QED
  BY <1>1, <1>2, <1>3 DEF Direction

(* Before the first connection the invariant of the transport holds.       *)
LEMMA TransportInitial == TransportInit => TransportInv
<1> SUFFICES ASSUME TransportInit PROVE TransportInv
  BY Zenon
<1>1. /\ DOMAIN call = Nodes /\ \A n \in Nodes : call[n] = Idle
      /\ ConnOK /\ StreamOK
  <2>1. << >> \in Seq(Units)
    BY EmptySeq, Zenon
  <2> QED
    BY <2>1, NodeFacts, TransportAssumption DEF TransportInit, ConnOK, StreamOK
<1>2. \A n \in Nodes : CallOK(n) /\ ~In(n, "recv") /\ ~In(n, "send") /\ ~In(n, "got")
  BY <1>1 DEF CallOK, In, Idle
<1>3. ASSUME NEW c \in Conns, NEW w \in Nodes PROVE Direction(c, w)
  <2>1. /\ stream[c][w] = << >> /\ begun[c][w] = 0 /\ last[c][w] = 0
        /\ ~Pend(c, w) /\ ~Mid(c, w)
    BY <1>2, NodeFacts, Zenon DEF TransportInit, Pend, Mid
  <2>2. Len(<< >>) = 0 /\ \A k \in 1..0 : FALSE
    BY EmptySeq
  <2>3. InOrder(<< >>, 0, 0, Mid(c, w)) /\ InPlace(<< >>, 0)
    BY <2>1, <2>2 DEF InOrder, InPlace
  <2>4. Base(c, w) = 0 /\ Written(c, w) = 0
    BY <2>1 DEF Base, Written
  <2> QED
    BY <2>1, <2>2, <2>3, <2>4 DEF Direction
<1> QED
  BY <1>1, <1>2, <1>3, Zenon DEF TransportInv, GarbageOnlyAfterCut

(* A node returns from a call or begins one.                               *)
LEMMA BetweenCalls ==
    ASSUME TransportInv, NEW n \in Nodes, ~In(n, "send"), ~In(n, "recv"), NEW v,
           call' = [call EXCEPT ![n] = v], UNCHANGED <<connVars, streamVars>>,
           \/ v = Idle
           \/ /\ at[n] # 0
              /\ \/ v = Receiving(None)
                 \/ \E pkt \in AnyPacket : v = Sending(Frame(pkt, begun[at[n]][n] + 1))
    PROVE  TransportInv'
<1>1. /\ ConnOK' /\ StreamOK'
      /\ UNCHANGED <<at, started, accepted, lost, stream, begun, last, cut>>
  BY Zenon DEF TransportInv, ConnOK, StreamOK, connVars, streamVars
<1>2. /\ DOMAIN call' = Nodes /\ call'[n] = v
      /\ \A m \in Nodes : m # n => call'[m] = call[m]
  BY Zenon DEF TransportInv
<1>3. \A m \in Nodes : CallOK(m)'
  <2>1. CallOK(n)'
    BY <1>1, <1>2, Zenon DEF CallOK
  <2> QED
    BY <1>1, <1>2, <2>1, Zenon DEF TransportInv, CallOK
<1>4. /\ In(n, "got")' = FALSE
      /\ In(n, "recv")' => call'[n].length = None
      /\ In(n, "send")' => Len(call'[n].units) = 2
  BY <1>2 DEF In, Idle, Receiving, Sending, Frame
<1>5. ASSUME NEW c \in Conns, NEW w \in Nodes PROVE Direction(c, w)'
  <2>1. /\ Pend(c, w)' = Pend(c, w)
        /\ Pend(c, w) => call'[Other(w)].length = call[Other(w)].length
    BY <1>1, <1>2, <1>4, NodeFacts, Zenon DEF Pend, In
  <2>2. Mid(c, w)' = Mid(c, w)
    BY <1>1, <1>2, <1>4, NodeFacts DEF Mid, In
  <2>3. Gone(c, w)' = Gone(c, w)
    BY <1>1, Zenon DEF Gone
  <2> QED
    BY <1>1, <2>1, <2>2, <2>3, SameDirection, Zenon
<1>6. GarbageOnlyAfterCut'
  BY <1>1, <1>2, <1>4, Zenon DEF TransportInv, GarbageOnlyAfterCut, In
<1> QED
  BY <1>1, <1>2, <1>3, <1>5, <1>6, Zenon DEF TransportInv

(* koe_transport_connect and koe_transport_accept keep the invariant.      *)
LEMMA ConnectKeeps ==
    ASSUME TransportInv, koe_transport_connect \/ koe_transport_accept
    PROVE  TransportInv'
<1> USE NodeFacts
<1>1. /\ started \in Nat /\ accepted \in Nat /\ accepted <= started /\ started <= MaxConns
      /\ at \in [Nodes -> Nat] /\ at[Caller] <= started /\ at[Listener] <= accepted
      /\ MaxConns \in Nat /\ \A c \in Conns : c \in Nat /\ c # 0
  BY TransportAssumption DEF TransportInv, ConnOK, Conns
<1>2. PICK n \in Nodes, k \in Nat :
         /\ at[n] = 0 /\ call[n] = Idle /\ at' = [at EXCEPT ![n] = k]
         /\ UNCHANGED <<lost, streamVars, call>>
         /\ \/ /\ n = Caller /\ k = started + 1 /\ k <= MaxConns
               /\ started' = k /\ accepted' = accepted
            \/ /\ n = Listener /\ k = accepted + 1 /\ k <= started
               /\ accepted' = k /\ started' = started
  <2>1. CASE koe_transport_connect
    <3>1. started + 1 \in Nat /\ (started < MaxConns => started + 1 <= MaxConns)
      BY <1>1
    <3> QED
      BY <2>1, <3>1, Zenon DEF koe_transport_connect
  <2>2. CASE koe_transport_accept
    <3>1. accepted + 1 \in Nat /\ (accepted < started => accepted + 1 <= started)
      BY <1>1
    <3> QED
      BY <2>2, <3>1, Zenon DEF koe_transport_accept
  <2> QED
    BY <2>1, <2>2, Zenon
<1>3. /\ at' \in [Nodes -> Nat] /\ at'[n] = k
      /\ \A m \in Nodes : m # n => at'[m] = at[m]
      /\ UNCHANGED <<stream, begun, last, cut>>
  BY <1>1, <1>2, Zenon DEF streamVars
<1>4. ConnOK'
  BY <1>1, <1>2, <1>3 DEF ConnOK
<1>5. \A m \in Nodes : CallOK(m)'
  <2>1. CallOK(n)'
    BY <1>2, Zenon DEF CallOK
  <2>2. ASSUME NEW m \in Nodes, m # n PROVE CallOK(m)'
    BY <1>2, <1>3, <2>2, SameCall, Zenon DEF TransportInv
  <2> QED
    BY <2>1, <2>2, Zenon
<1>6. \A op \in {"send", "recv", "got"} : ~In(n, op) /\ \A m \in Nodes : In(m, op)' = In(m, op)
  BY <1>2 DEF In, Idle
<1>7. ASSUME NEW c \in Conns, NEW w \in Nodes PROVE Direction(c, w)'
  <2>1. /\ Pend(c, w)' = Pend(c, w) /\ Mid(c, w)' = Mid(c, w)
        /\ Pend(c, w) => call'[Other(w)].length = call[Other(w)].length
    BY <1>2, <1>3, <1>6, Zenon DEF Pend, Mid, In
  <2>2. CASE c = k /\ w = n
    <3>1. ~Mid(c, w)
      BY <1>6, <2>2, Zenon DEF Mid
    <3>2. k > started \/ (n = Listener /\ k > accepted)
      BY <1>1, <1>2
    <3>3. stream[c][w] = << >> /\ begun[c][w] = 0 /\ last[c][w] = 0 /\ ~Pend(c, w)
      BY <2>2, <3>2 DEF TransportInv, Direction
    <3> QED
      BY <1>3, <2>1, <3>1, <3>3, FreshDirection, Zenon
  <2>3. CASE ~(c = k /\ w = n)
    <3>1. c > started' => c > started
      BY <1>1, <1>2
    <3>2. c > accepted' => c > accepted
      BY <1>1, <1>2
    <3>3. ASSUME at'[w] = c, ~Gone(c, w)' PROVE at[w] = c /\ ~Gone(c, w)
      <4>1. w # n /\ at[w] = c /\ Other(w) = n /\ c \notin lost
        BY <1>2, <1>3, <2>3, <3>3, Zenon DEF Gone
      <4>2. CASE n = Caller
        <5>1. w = Listener /\ at'[Caller] = c
          BY <1>3, <3>3, <4>1, <4>2, Zenon DEF Gone
        <5> QED
          BY <1>1, <1>2, <1>3, <4>1, <4>2, <5>1, TransportAssumption
      <4>3. CASE n = Listener
        <5>1. c = k \/ ~(accepted' >= c)
          BY <1>3, <3>3, <4>1, <4>3, Zenon DEF Gone
        <5>2. ~(accepted >= c)
          BY <1>1, <1>2, <4>3, <5>1, TransportAssumption
        <5> QED
          BY <4>1, <4>3, <5>2, TransportAssumption, Zenon DEF Gone
      <4> QED
        BY <1>2, <4>2, <4>3, Zenon
    <3> QED
      BY <1>3, <2>1, <3>1, <3>2, <3>3, SameDirection, Zenon
  <2> QED
    BY <2>2, <2>3, Zenon
<1>8. GarbageOnlyAfterCut'
  BY <1>2, <1>3, <1>6, Zenon DEF TransportInv, GarbageOnlyAfterCut
<1>9. StreamOK' /\ DOMAIN call' = Nodes
  BY <1>2, <1>3, Zenon DEF TransportInv, StreamOK
<1> QED
  BY <1>4, <1>5, <1>7, <1>8, <1>9, Zenon DEF TransportInv

(* koe_transport_disconnect keeps the invariant, and forgets the frames of *)
(* a connection at most.                                                   *)
LEMMA DisconnectKeeps ==
    ASSUME TransportInv, NEW n \in Nodes, koe_transport_disconnect(n)
    PROVE  /\ TransportInv'
           /\ \A c \in Conns, w \in Nodes : last'[c][w] \in {last[c][w], 0}
<1> USE NodeFacts
<1> DEFINE c0 == at[n]
           over == at[Other(n)] # c0 /\ accepted >= c0
<1>1. /\ c0 # 0 /\ call[n] = Idle
      /\ at' = [at EXCEPT ![n] = 0]
      /\ stream' = [stream EXCEPT ![c0] =
                       IF ~over /\ @[Other(n)] = << >> THEN @ ELSE [m \in Nodes |-> << >>]]
      /\ begun' = [begun EXCEPT ![c0] = IF over THEN [m \in Nodes |-> 0] ELSE @]
      /\ last' = [last EXCEPT ![c0] = IF over THEN [m \in Nodes |-> 0] ELSE @]
      /\ cut' = [cut EXCEPT ![c0] = IF over THEN [m \in Nodes |-> FALSE] ELSE @]
      /\ UNCHANGED <<started, accepted, lost, call>>
  BY Zenon DEF koe_transport_disconnect
<1>2. /\ c0 \in Conns /\ ~(n = Listener /\ c0 > accepted) /\ accepted \in Nat
      /\ \A c \in Conns : c \in Nat /\ c # 0
  BY <1>1, AtConn, Zenon
<1>3. StreamOK
  BY Zenon DEF TransportInv
<1>4. /\ at' \in [Nodes -> Nat] /\ at'[n] = 0 /\ \A m \in Nodes : m # n => at'[m] = at[m]
      /\ ConnOK'
  BY <1>1 DEF TransportInv, ConnOK
<1>5. ASSUME NEW c \in Conns, c # c0, NEW w \in Nodes
      PROVE  /\ stream'[c][w] = stream[c][w] /\ begun'[c][w] = begun[c][w]
             /\ last'[c][w] = last[c][w] /\ cut'[c][w] = cut[c][w]
  BY <1>1, <1>3, <1>5, Zenon DEF StreamOK
<1>6. ASSUME NEW w \in Nodes, over
      PROVE  /\ stream'[c0][w] = << >> /\ begun'[c0][w] = 0
             /\ last'[c0][w] = 0 /\ cut'[c0][w] = FALSE
  BY <1>1, <1>2, <1>3, <1>6 DEF StreamOK
<1>7. ASSUME NEW w \in Nodes, ~over
      PROVE  /\ stream'[c0][w] \in {stream[c0][w], << >>} /\ begun'[c0][w] = begun[c0][w]
             /\ last'[c0][w] = last[c0][w] /\ cut'[c0][w] = cut[c0][w]
  BY <1>1, <1>2, <1>3, <1>7, Zenon DEF StreamOK
<1>8. StreamOK'
  <2>1. [m \in Nodes |-> << >>] \in [Nodes -> Seq(Units)]
    BY EmptySeq, Zenon
  <2> QED
    BY <1>1, <1>3, <2>1, Zenon DEF StreamOK
<1>9. \A op \in {"send", "recv", "got"} : ~In(n, op) /\ \A m \in Nodes : In(m, op)' = In(m, op)
  BY <1>1 DEF In, Idle
<1>10. ASSUME NEW c \in Conns, NEW w \in Nodes
       PROVE  /\ Pend(c, w)' = Pend(c, w) /\ Mid(c, w)' = Mid(c, w)
              /\ Pend(c, w) => call'[Other(w)].length = call[Other(w)].length
  BY <1>1, <1>4, <1>9, Zenon DEF Pend, Mid, In
<1>11. ASSUME NEW c \in Conns, NEW w \in Nodes, at'[w] = c, ~Gone(c, w)'
       PROVE  c # c0 /\ at[w] = c /\ ~Gone(c, w)
  <2>1. w # n /\ at[w] = c /\ Other(w) = n
    BY <1>2, <1>4, <1>11, Zenon
  <2>2. c \notin lost /\ n # Caller /\ ~(accepted >= c)
    BY <1>1, <1>2, <1>4, <1>11, <2>1, Zenon DEF Gone
  <2>3. c # c0
    BY <1>2, <2>2
  <2> QED
    BY <2>1, <2>2, <2>3, Zenon DEF Gone
<1>12. ASSUME NEW c \in Conns, NEW w \in Nodes PROVE Direction(c, w)'
  <2>1. CASE c # c0
    <3>1. /\ stream'[c][w] = stream[c][w] /\ begun'[c][w] = begun[c][w]
          /\ last'[c][w] = last[c][w] /\ cut'[c][w] = cut[c][w]
      BY <1>5, <2>1, Zenon
    <3>2. at'[w] = c /\ ~Gone(c, w)' => at[w] = c /\ ~Gone(c, w)
      BY <1>11, Zenon
    <3> QED
      BY <1>1, <1>10, <3>1, <3>2, SameDirection, Zenon
  <2>2. CASE c = c0 /\ ~over
    <3>1. /\ stream'[c][w] \in {stream[c][w], << >>} /\ begun'[c][w] = begun[c][w]
          /\ last'[c][w] = last[c][w] /\ cut'[c][w] = cut[c][w]
      BY <1>7, <2>2, Zenon
    <3>2. ~(at'[w] = c /\ ~Gone(c, w)')
      BY <1>11, <2>2, Zenon
    <3>3. \/ stream'[c][w] = stream[c][w]
          \/ stream'[c][w] = << >> /\ ~(at'[w] = c /\ ~Gone(c, w)')
      BY <3>1, <3>2, Zenon
    <3>4. UNCHANGED <<started, accepted>>
      BY <1>1, Zenon
    <3> HIDE NodeFacts DEF c0, over
    <3> QED
      BY <1>10, <3>1, <3>2, <3>3, <3>4, SameDirection, Zenon
  <2>3. CASE c = c0 /\ over
    <3>1. \A m \in Nodes : at'[m] # c0
      BY <1>2, <1>4, <2>3, Zenon
    <3>2. ~Pend(c, w)' /\ ~Mid(c, w)'
      BY <2>3, <3>1, Zenon DEF Pend, Mid
    <3> QED
      BY <1>6, <2>3, <3>2, FreshDirection, Zenon
  <2> QED
    BY <2>1, <2>2, <2>3, Zenon
<1>13. \A m \in Nodes : CallOK(m)'
  <2>1. CallOK(n)'
    BY <1>1, Zenon DEF CallOK
  <2>2. ASSUME NEW m \in Nodes, m # n PROVE CallOK(m)'
    <3>1. CASE at[m] = 0
      <4>1. call[m] = Idle
        BY <3>1, Zenon DEF TransportInv, CallOK
      <4> QED
        BY <1>1, <4>1, Zenon DEF CallOK
    <3>2. CASE at[m] # 0
      <4>1. at[m] \in Conns /\ at'[m] = at[m]
        BY <1>4, <2>2, <3>2, AtConn, Zenon
      <4>2. begun'[at'[m]][m] = begun[at[m]][m]
        <5>1. m = Other(n)
          BY <2>2, Zenon
        <5>2. at[m] = c0 => ~over
          BY <5>1, Zenon
        <5> HIDE NodeFacts DEF c0, over
        <5>3. CASE at[m] # c0
          BY <1>5, <4>1, <5>3, Zenon
        <5>4. CASE at[m] = c0
          BY <1>7, <4>1, <5>2, <5>4, Zenon
        <5> QED
          BY <5>3, <5>4, Zenon
      <4> QED
        BY <1>1, <4>1, <4>2, SameCall, Zenon DEF TransportInv
    <3> QED
      BY <3>1, <3>2, Zenon
  <2> QED
    BY <2>1, <2>2, Zenon
<1>14. GarbageOnlyAfterCut'
  <2> SUFFICES ASSUME NEW m \in Nodes, In(m, "got")', call'[m].pkt = Garbage
               PROVE  cut'[at'[m]][Other(m)]
    BY Zenon DEF GarbageOnlyAfterCut
  <2>1. In(m, "got") /\ m # n /\ call[m].pkt = Garbage
    BY <1>1, <1>9, Zenon
  <2>2. at[m] # 0 /\ at'[m] = at[m] /\ cut[at[m]][Other(m)]
    BY <1>4, <2>1, CallFacts, Zenon DEF TransportInv, GarbageOnlyAfterCut
  <2>3. at[m] \in Conns
    BY <2>2, AtConn, Zenon
  <2>4. cut'[at[m]][Other(m)] = cut[at[m]][Other(m)]
    BY <1>5, <1>7, <2>1, <2>3
  <2> QED
    BY <2>2, <2>4, Zenon
<1>15. \A c \in Conns, w \in Nodes : last'[c][w] \in {last[c][w], 0}
  BY <1>5, <1>6, <1>7, Zenon
<1>16. DOMAIN call' = Nodes
  BY <1>1, Zenon DEF TransportInv
<1> QED
  BY <1>4, <1>8, <1>12, <1>13, <1>14, <1>15, <1>16, Zenon DEF TransportInv

(* A connection that breaks keeps the invariant and returns no packet.     *)
LEMMA LossKeeps ==
    ASSUME TransportInv, NEW c0 \in Conns, ConnectionLost(c0)
    PROVE  TransportInv' /\ last' = last
<1> USE NodeFacts
<1>1. /\ lost' = lost \cup {c0}
      /\ stream' = [stream EXCEPT ![c0] = [n \in Nodes |-> << >>]]
      /\ UNCHANGED <<at, started, accepted, begun, last, cut, call>>
  BY Zenon DEF ConnectionLost
<1>2. StreamOK'
  <2>1. [m \in Nodes |-> << >>] \in [Nodes -> Seq(Units)]
    BY EmptySeq, Zenon
  <2> QED
    BY <1>1, <2>1, Zenon DEF TransportInv, StreamOK
<1>3. ASSUME NEW c \in Conns, NEW w \in Nodes PROVE Direction(c, w)'
  <2>1. /\ Pend(c, w)' = Pend(c, w) /\ Mid(c, w)' = Mid(c, w)
        /\ Pend(c, w) => call'[Other(w)].length = call[Other(w)].length
    BY <1>1, Zenon DEF Pend, Mid, In
  <2>2. at'[w] = c /\ ~Gone(c, w)' => at[w] = c /\ ~Gone(c, w) /\ c # c0
    BY <1>1, Zenon DEF Gone
  <2>3. stream'[c][w] = IF c = c0 THEN << >> ELSE stream[c][w]
    BY <1>1 DEF TransportInv, StreamOK
  <2> QED
    BY <1>1, <2>1, <2>2, <2>3, SameDirection, Zenon
<1>4. ConnOK' /\ GarbageOnlyAfterCut' /\ DOMAIN call' = Nodes
  BY <1>1, Zenon DEF TransportInv, ConnOK, GarbageOnlyAfterCut, In
<1>5. \A n \in Nodes : CallOK(n)'
  BY <1>1, SameCall, Zenon DEF TransportInv
<1> QED
  BY <1>1, <1>2, <1>3, <1>4, <1>5, Zenon DEF TransportInv

(* A step of a call of n concerns only one direction of the connection:    *)
(* what n writes there, or what it reads.                                  *)
Side(n) == IF In(n, "send") THEN n ELSE Other(n)

(* Nothing happens to the record of what w writes on c.                    *)
Untouched(c, w) ==
    /\ stream'[c][w] = stream[c][w] /\ begun'[c][w] = begun[c][w]
    /\ last'[c][w] = last[c][w] /\ cut'[c][w] = cut[c][w]

(* A step of a call of n.                                                  *)
Advances(n, v) ==
    /\ n \in Nodes /\ (In(n, "send") \/ In(n, "recv"))
    /\ call' = [call EXCEPT ![n] = v]
    /\ v.op = call[n].op \/ v.op \in {"sent", "got"}
    /\ \A c \in Conns, w \in Nodes : c # at[n] \/ w # Side(n) => Untouched(c, w)
    /\ \A c \in Conns : begun'[c][Other(n)] = begun[c][Other(n)]
    /\ UNCHANGED connVars

(* A step of the call that n is in disturbs only the direction that the    *)
(* call reads or writes.                                                   *)
LEMMA OtherDirections ==
    ASSUME TransportInv, NEW n, NEW v, Advances(n, v)
    PROVE  /\ ConnOK' /\ DOMAIN call' = Nodes /\ call'[n] = v
           /\ \A m \in Nodes : m # n => call'[m] = call[m] /\ CallOK(m)'
           /\ \A c \in Conns, w \in Nodes : c # at[n] \/ w # Side(n) => Direction(c, w)'
           /\ \A c \in Conns, w \in Nodes : Gone(c, w)' = Gone(c, w)
           /\ \A c \in Conns : Pend(c, n)' = Pend(c, n)
           /\ \A c \in Conns : Mid(c, Other(n))' = Mid(c, Other(n))
<1>a. n \in Nodes /\ (In(n, "send") \/ In(n, "recv"))
  BY Zenon DEF Advances
<1>b. v.op = call[n].op \/ v.op \in {"sent", "got"}
  BY Zenon DEF Advances
<1>c. \A c \in Conns, w \in Nodes : c # at[n] \/ w # Side(n) => Untouched(c, w)
  BY Zenon DEF Advances
<1>d. \A c \in Conns : begun'[c][Other(n)] = begun[c][Other(n)]
  BY Zenon DEF Advances
<1>1. UNCHANGED <<at, started, accepted, lost>> /\ ConnOK'
  <2>1. ConnOK /\ UNCHANGED connVars
    BY Zenon DEF TransportInv, Advances
  <2> QED
    BY <2>1, Zenon DEF ConnOK, connVars
<1>2. DOMAIN call' = Nodes /\ call'[n] = v /\ \A m \in Nodes : m # n => call'[m] = call[m]
  <2>1. DOMAIN call = Nodes /\ call' = [call EXCEPT ![n] = v]
    BY Zenon DEF TransportInv, Advances
  <2> QED
    BY <1>a, <2>1, Zenon
<1>3. \A m \in Nodes : Other(m) \in Nodes /\ Other(m) # m /\ Other(Other(m)) = m
  BY NodeFacts, Zenon
<1>4. ASSUME NEW m \in Nodes, m # n PROVE CallOK(m)'
  <2>1. CallOK(m) /\ call'[m] = call[m] /\ at'[m] = at[m]
    BY <1>1, <1>2, <1>4, Zenon DEF TransportInv
  <2>2. CASE at[m] = 0
    <3>1. call[m] = Idle
      BY <2>1, <2>2, Zenon DEF CallOK
    <3> QED
      BY <2>1, <3>1, SameCall, Zenon
  <2>3. CASE at[m] # 0
    <3>1. at[m] \in Conns
      BY <2>3, AtConn, Zenon
    <3>2. m = Other(n)
      BY <1>a, <1>4, NodeFacts, Zenon
    <3>3. begun'[at[m]][m] = begun[at[m]][m]
      BY <1>d, <3>1, <3>2, Zenon
    <3> QED
      BY <2>1, <3>3, SameCall, Zenon
  <2> QED
    BY <2>2, <2>3, Zenon
<1>5. \A c \in Conns, w \in Nodes : Gone(c, w)' = Gone(c, w)
  BY <1>1, Zenon DEF Gone
<1>6. ASSUME NEW c \in Conns, NEW w \in Nodes, w # Other(n)
      PROVE  /\ Pend(c, w)' = Pend(c, w)
             /\ Pend(c, w) => call'[Other(w)].length = call[Other(w)].length
  <2>1. Other(w) \in Nodes /\ Other(w) # n
    BY <1>3, <1>6, Zenon
  <2>2. call'[Other(w)] = call[Other(w)] /\ at' = at
    BY <1>1, <1>2, <2>1, Zenon
  <2> QED
    BY <2>2, Zenon DEF Pend, In
<1>7. ASSUME NEW c \in Conns, NEW w \in Nodes, w # n
      PROVE  Mid(c, w)' = Mid(c, w)
  <2>1. call'[w] = call[w] /\ at' = at
    BY <1>1, <1>2, <1>7, Zenon
  <2> QED
    BY <2>1, Zenon DEF Mid, In
<1>8. ASSUME NEW c \in Conns, NEW w \in Nodes, c # at[n] \/ w # Side(n)
      PROVE  Direction(c, w)'
  <2>1. /\ Pend(c, w)' = Pend(c, w)
        /\ Pend(c, w) => call'[Other(w)].length = call[Other(w)].length
    <3>1. CASE w # Other(n)
      BY <1>6, <3>1, Zenon
    <3>2. CASE w = Other(n)
      <4>1. Other(w) = n
        BY <1>a, <1>3, <3>2, Zenon
      <4>2. In(n, "send") \/ c # at[n]
        BY <1>8, <3>2, Zenon DEF Side
      <4>3. ~(at[n] = c /\ In(n, "recv")) /\ ~(at'[n] = c /\ In(n, "recv")')
        <5>1. In(n, "send") => ~In(n, "recv") /\ v.op # "recv"
          BY <1>b, Zenon DEF In
        <5> QED
          BY <1>1, <1>2, <4>2, <5>1, Zenon DEF In
      <4> QED
        BY <4>1, <4>3, Zenon DEF Pend
    <3> QED
      BY <3>1, <3>2, Zenon
  <2>2. Mid(c, w)' = Mid(c, w)
    <3>1. CASE w # n
      BY <1>7, <3>1, Zenon
    <3>2. CASE w = n
      <4>1. ~In(n, "send") \/ c # at[n]
        BY <1>8, <3>2, Zenon DEF Side
      <4>2. ~(at[n] = c /\ In(n, "send")) /\ ~(at'[n] = c /\ In(n, "send")')
        <5>1. ~In(n, "send") => v.op # "send"
          BY <1>a, <1>b, Zenon DEF In
        <5> QED
          BY <1>1, <1>2, <4>1, <5>1, Zenon DEF In
      <4> QED
        BY <3>2, <4>2, Zenon DEF Mid
    <3> QED
      BY <3>1, <3>2, Zenon
  <2>3. /\ stream'[c][w] = stream[c][w] /\ begun'[c][w] = begun[c][w]
        /\ last'[c][w] = last[c][w] /\ cut'[c][w] = cut[c][w]
    BY <1>c, <1>8, Zenon DEF Untouched
  <2> QED
    BY <1>1, <1>5, <2>1, <2>2, <2>3, SameDirection, Zenon
<1>9. Other(n) # n
  BY <1>a, <1>3, Zenon
<1>10. \A c \in Conns : Pend(c, n)' = Pend(c, n)
  BY <1>a, <1>6, <1>9, Zenon
<1>11. \A c \in Conns : Mid(c, Other(n))' = Mid(c, Other(n))
  BY <1>a, <1>3, <1>7, <1>9, Zenon
<1> QED
  BY <1>1, <1>2, <1>4, <1>5, <1>8, <1>10, <1>11, Zenon

(* One unit of a frame is written, or vanishes because the other end is    *)
(* gone.                                                                   *)
WritesUnit(n, c0, s, u, v, b, top, mid) ==
    /\ n \in Nodes /\ c0 \in Conns /\ at[n] = c0 /\ In(n, "send")
    /\ s \in Seq(Units) /\ s = stream[c0][n] /\ u \in Units
    /\ b \in Nat /\ b = begun[c0][n] /\ top \in Nat
    /\ mid \in BOOLEAN /\ Mid(c0, n) = mid /\ Mid(c0, n)' = ~mid
    /\ \/ ~mid /\ top = b + 1 /\ u = [no |-> top]
       \/ mid /\ top = b /\ \E pkt \in AnyPacket : u = [pkt |-> pkt, no |-> top]
    /\ call' = [call EXCEPT ![n] = v] /\ v.op \in {"send", "sent"} /\ CallOK(n)'
    /\ begun' = [begun EXCEPT ![c0][n] = top]
    /\ \/ ~Gone(c0, n) /\ stream' = [stream EXCEPT ![c0][n] = Append(s, u)]
       \/ Gone(c0, n) /\ UNCHANGED stream
    /\ UNCHANGED <<connVars, last, cut>>

(* A unit that write_exact puts on the connection, or loses on one that    *)
(* the peer closed, keeps the invariant.                                   *)
LEMMA UnitWritten ==
    ASSUME TransportInv, NEW n, NEW c0, NEW s, NEW u, NEW v, NEW b, NEW top, NEW mid,
           WritesUnit(n, c0, s, u, v, b, top, mid)
    PROVE  TransportInv'
<1>a. /\ n \in Nodes /\ c0 \in Conns /\ at[n] = c0 /\ In(n, "send")
      /\ s \in Seq(Units) /\ s = stream[c0][n] /\ u \in Units
      /\ b \in Nat /\ b = begun[c0][n] /\ top \in Nat
  BY Zenon DEF WritesUnit
<1>b. mid \in BOOLEAN /\ Mid(c0, n) = mid /\ Mid(c0, n)' = ~mid
  BY Zenon DEF WritesUnit
<1>c. \/ ~mid /\ top = b + 1 /\ u = [no |-> top]
      \/ mid /\ top = b /\ \E pkt \in AnyPacket : u = [pkt |-> pkt, no |-> top]
  BY Zenon DEF WritesUnit
<1>d. call' = [call EXCEPT ![n] = v] /\ v.op \in {"send", "sent"} /\ CallOK(n)'
  BY Zenon DEF WritesUnit
<1>e. begun' = [begun EXCEPT ![c0][n] = top]
  BY Zenon DEF WritesUnit
<1>f. \/ ~Gone(c0, n) /\ stream' = [stream EXCEPT ![c0][n] = Append(s, u)]
      \/ Gone(c0, n) /\ UNCHANGED stream
  BY Zenon DEF WritesUnit
<1>g. UNCHANGED <<connVars, last, cut>>
  BY Zenon DEF WritesUnit
<1>1. /\ StreamOK /\ Direction(c0, n) /\ last[c0][n] \in Nat /\ Len(s) \in Nat
      /\ Other(n) \in Nodes /\ Other(n) # n /\ cut[c0][n] \in BOOLEAN
  <2>1. StreamOK /\ Direction(c0, n) /\ Other(n) \in Nodes /\ Other(n) # n
    BY <1>a, NodeFacts, Zenon DEF TransportInv
  <2>2. last[c0][n] \in Nat /\ cut[c0][n] \in BOOLEAN
    BY <1>a, <2>1, Zenon DEF StreamOK
  <2>3. s \in Seq(Units)
    BY <1>a, Zenon
  <2>4. Len(s) \in Nat
    BY <2>3, LenProperties, Zenon
  <2> QED
    BY <2>1, <2>2, <2>4, Zenon
<1>2. Append(s, u) \in Seq(Units) /\ Len(Append(s, u)) = Len(s) + 1
  <2>1. s \in Seq(Units) /\ u \in Units
    BY <1>a, Zenon
  <2> QED
    BY <2>1, AppendProperties, Zenon
<1> DEFINE t == IF Gone(c0, n) THEN s ELSE Append(s, u)
<1>3. /\ stream'[c0][n] = t /\ stream' \in [Conns -> [Nodes -> Seq(Units)]]
      /\ \A c \in Conns, w \in Nodes : c # c0 \/ w # n => stream'[c][w] = stream[c][w]
  <2>1. CASE Gone(c0, n) /\ UNCHANGED stream
    BY <1>1, <1>a, <2>1, Zenon DEF StreamOK
  <2>2. CASE ~Gone(c0, n) /\ stream' = [stream EXCEPT ![c0][n] = Append(s, u)]
    <3> DEFINE t1 == Append(s, u)
    <3>1. t1 \in Seq(Units) /\ stream' = [stream EXCEPT ![c0][n] = t1] /\ t = t1
      BY <1>2, <2>2, Zenon
    <3> HIDE DEF t1, t
    <3> QED
      BY <1>1, <1>a, <3>1, Zenon DEF StreamOK
  <2> QED
    BY <1>f, <2>1, <2>2, Zenon
<1>4. /\ begun'[c0][n] = top /\ begun' \in [Conns -> [Nodes -> Nat]]
      /\ \A c \in Conns, w \in Nodes : c # c0 \/ w # n => begun'[c][w] = begun[c][w]
  BY <1>1, <1>a, <1>e, Zenon DEF StreamOK
<1>5. last' = last /\ cut' = cut /\ at' = at /\ started' = started /\ accepted' = accepted
  BY <1>g, Zenon DEF connVars
<1>6. StreamOK'
  BY <1>1, <1>3, <1>4, <1>5, Zenon DEF StreamOK
<1>7. /\ ConnOK' /\ DOMAIN call' = Nodes /\ call'[n] = v
      /\ \A m \in Nodes : m # n => call'[m] = call[m] /\ CallOK(m)'
      /\ \A c \in Conns, w \in Nodes : c # c0 \/ w # n => Direction(c, w)'
      /\ Gone(c0, n)' = Gone(c0, n) /\ Pend(c0, n)' = Pend(c0, n)
  <2>1. v.op = call[n].op \/ v.op \in {"sent", "got"}
    BY <1>a, <1>d, Zenon DEF In
  <2>4. Side(n) = n
    BY <1>a, Zenon DEF Side
  <2>2. \A c \in Conns, w \in Nodes : c # at[n] \/ w # Side(n) => Untouched(c, w)
    BY <1>a, <1>3, <1>4, <1>5, <2>4, Zenon DEF Untouched
  <2>3. \A c \in Conns : begun'[c][Other(n)] = begun[c][Other(n)]
    BY <1>1, <1>4, Zenon
  <2>5. /\ ConnOK' /\ DOMAIN call' = Nodes /\ call'[n] = v
        /\ \A m \in Nodes : m # n => call'[m] = call[m] /\ CallOK(m)'
        /\ \A c \in Conns, w \in Nodes : c # at[n] \/ w # Side(n) => Direction(c, w)'
        /\ \A c \in Conns, w \in Nodes : Gone(c, w)' = Gone(c, w)
        /\ \A c \in Conns : Pend(c, n)' = Pend(c, n)
    <3>1. Advances(n, v)
      BY <1>a, <1>d, <1>g, <2>1, <2>2, <2>3, Zenon DEF Advances
    <3> QED
      BY <3>1, OtherDirections, Zenon
  <2> QED
    BY <1>a, <2>4, <2>5, Zenon
<1>8. /\ u.no = top /\ IsPrefix(u) = ~mid
      /\ InOrder(s, last[c0][n], b, mid) => InOrder(t, last[c0][n], top, ~mid)
  <2>1. CASE ~mid /\ top = b + 1 /\ u = [no |-> top]
    <3>1. mid = FALSE /\ (~mid) = TRUE /\ IsPrefix(u) = TRUE /\ u.no = top
      BY <1>a, <1>b, <2>1, UnitFacts, Zenon
    <3>2. InOrder(s, last[c0][n], b, FALSE) =>
             /\ InOrder(s, last[c0][n], top, TRUE)
             /\ InOrder(Append(s, u), last[c0][n], top, TRUE)
      BY <1>1, <1>a, <2>1, WriteKeepsOrder, Zenon
    <3> QED
      BY <3>1, <3>2, Zenon DEF t
  <2>2. CASE mid /\ top = b /\ \E pkt \in AnyPacket : u = [pkt |-> pkt, no |-> top]
    <3>1. PICK pkt \in AnyPacket : u = [pkt |-> pkt, no |-> top]
      BY <2>2, Zenon
    <3>2. mid = TRUE /\ (~mid) = FALSE /\ IsPrefix(u) = FALSE /\ u.no = top
      BY <1>a, <1>b, <2>2, <3>1, UnitFacts, Zenon
    <3>3. InOrder(s, last[c0][n], b, TRUE) =>
             /\ InOrder(s, last[c0][n], top, FALSE)
             /\ InOrder(Append(s, u), last[c0][n], top, FALSE)
      BY <1>1, <1>a, <2>2, <3>1, WriteKeepsOrder, Zenon
    <3> QED
      BY <3>2, <3>3, Zenon DEF t
  <2> QED
    BY <1>c, <2>1, <2>2, Zenon
<1>9. Position(u) = Written(c0, n) + 1 /\ Written(c0, n)' = Written(c0, n) + 1
  <2>1. Position(u) = IF mid THEN 2 * b ELSE 2 * (b + 1) - 1
    BY <1>8, <1>a, <1>b, <1>c, Zenon DEF Position
  <2>2. Written(c0, n) = IF mid THEN 2 * b - 1 ELSE 2 * b
    BY <1>a, <1>b, Zenon DEF Written
  <2>3. Written(c0, n)' = IF mid THEN 2 * b ELSE 2 * (b + 1) - 1
    BY <1>4, <1>b, <1>c, Zenon DEF Written
  <2>4. b \in Nat
    BY <1>a, Zenon
  <2> QED
    BY <2>1, <2>2, <2>3, <2>4
<1>10. Base(c0, n) \in Nat /\ Base(c0, n)' = Base(c0, n)
  <2>1. last[c0][n] \in Nat /\ last' = last /\ Pend(c0, n)' = Pend(c0, n)
    BY <1>1, <1>5, <1>7, Zenon
  <2> QED
    BY <2>1 DEF Base
<1> HIDE DEF t
<1>11. ASSUME ~cut'[c0][n]
       PROVE  /\ Pend(c0, n)' => call'[Other(n)].length = last'[c0][n] + 1
              /\ InPlace(stream'[c0][n], Base(c0, n)')
              /\ at'[n] = c0 /\ ~Gone(c0, n)' =>
                    Base(c0, n)' + Len(stream'[c0][n]) = Written(c0, n)'
  <2>1. /\ Pend(c0, n) => call[Other(n)].length = last[c0][n] + 1
        /\ InPlace(s, Base(c0, n))
        /\ ~Gone(c0, n) => Base(c0, n) + Len(s) = Written(c0, n)
    BY <1>1, <1>5, <1>11, <1>a, Zenon DEF Direction
  <2>2. Pend(c0, n)' => call'[Other(n)].length = last'[c0][n] + 1
    BY <1>1, <1>5, <1>7, <2>1, Zenon
  <2>3. CASE Gone(c0, n)
    BY <1>3, <1>7, <1>10, <1>a, <2>1, <2>2, <2>3, Zenon DEF t
  <2>4. CASE ~Gone(c0, n)
    <3>1. t = Append(s, u) /\ Len(t) = Len(s) + 1
      BY <1>2, <2>4, Zenon DEF t
    <3>2. Base(c0, n) + Len(s) = Written(c0, n)
      BY <2>1, <2>4, Zenon
    <3>3. InPlace(t, Base(c0, n))
      BY <1>1, <1>9, <1>10, <1>a, <2>1, <3>1, <3>2, PlaceFacts, Zenon
    <3>4. Base(c0, n) + Len(t) = Written(c0, n) + 1
      BY <1>1, <1>10, <3>1, <3>2
    <3> QED
      BY <1>3, <1>9, <1>10, <2>2, <3>3, <3>4, Zenon
  <2> QED
    BY <2>3, <2>4, Zenon
<1>12. Direction(c0, n)'
  <2>1. InOrder(stream'[c0][n], last'[c0][n], begun'[c0][n], Mid(c0, n)')
    BY <1>1, <1>3, <1>4, <1>5, <1>8, <1>a, <1>b, Zenon DEF Direction
  <2>2. ~(c0 > started') /\ ~(n = Listener /\ c0 > accepted')
    <3>1. c0 # 0
      BY <1>a, TransportAssumption DEF Conns
    <3> QED
      BY <1>5, <1>a, <3>1, AtConn, Zenon
  <2> QED
    BY <1>11, <2>1, <2>2, Zenon DEF Direction
<1>13. GarbageOnlyAfterCut'
  <2>1. ~In(n, "got")'
    BY <1>7, <1>d, Zenon DEF In
  <2> QED
    BY <1>5, <1>7, <2>1, Zenon DEF TransportInv, GarbageOnlyAfterCut, In
<1>14. \A c \in Conns, w \in Nodes : Direction(c, w)'
  BY <1>7, <1>12, Zenon
<1>15. \A m \in Nodes : CallOK(m)'
  BY <1>7, <1>d, Zenon
<1> QED
  BY <1>6, <1>7, <1>13, <1>14, <1>15, Zenon DEF TransportInv

(* write_exact keeps the invariant and returns no packet.                  *)
LEMMA WriteKeeps ==
    ASSUME TransportInv, NEW n \in Nodes, write_exact(n)
    PROVE  TransportInv' /\ last' = last
<1> DEFINE c0 == at[n]  b == begun[c0][n]  s == stream[c0][n]  u == Head(call[n].units)
<1>1. /\ In(n, "send")
      /\ \/ ~Gone(c0, n) /\ stream' = [stream EXCEPT ![c0][n] = Append(@, u)]
         \/ Gone(c0, n) /\ UNCHANGED stream
      /\ FrameBegins(c0, n) /\ AfterUnit(n) /\ UNCHANGED <<connVars, last, cut>>
  BY Zenon DEF write_exact
<1>2. at[n] # 0 /\ CallOK(n) /\ DOMAIN call = Nodes /\ at' = at
  BY <1>1, CallFacts, Zenon DEF TransportInv, connVars
<1>3. c0 \in Conns
  BY <1>2, AtConn, Zenon
<1>4. s \in Seq(Units) /\ b \in Nat /\ StreamOK
  BY <1>3 DEF TransportInv, StreamOK
<1>5. \/ ~Gone(c0, n) /\ stream' = [stream EXCEPT ![c0][n] = Append(s, u)]
      \/ Gone(c0, n) /\ UNCHANGED stream
  BY <1>1, Zenon
<1>6. PICK pkt \in AnyPacket :
         \/ call[n] = Sending(Frame(pkt, b + 1))
         \/ call[n] = Sending(<<[pkt |-> pkt, no |-> b]>>)
  BY <1>1, <1>2, CallFacts, Zenon
<1>7. CASE call[n] = Sending(Frame(pkt, b + 1))
  <2> DEFINE v == Sending(<<[pkt |-> pkt, no |-> b + 1]>>)
  <2>1. /\ call[n].units = << [no |-> b + 1], [pkt |-> pkt, no |-> b + 1] >>
        /\ Len(call[n].units) = 2 /\ u = [no |-> b + 1]
        /\ Tail(call[n].units) = <<[pkt |-> pkt, no |-> b + 1]>>
    BY <1>7 DEF Sending, Frame
  <2>2. call' = [call EXCEPT ![n] = v]
    BY <1>1, <2>1 DEF AfterUnit
  <2>3. begun' = [begun EXCEPT ![c0][n] = b + 1]
    BY <1>1, <2>1, Zenon DEF FrameBegins
  <2>4. Mid(c0, n) = FALSE
    <3>1. Len(call[n].units) = 2
      BY <2>1, Zenon
    <3> QED
      BY <3>1 DEF Mid
  <2>5. u \in Units
    BY <1>4, <2>1, UnitFacts
  <2>6. call'[n] = v /\ v.op = "send" /\ Len(v.units) = 1
    BY <1>2, <2>2, Zenon DEF Sending
  <2>7. Mid(c0, n)' = TRUE
    BY <1>2, <2>6, Zenon DEF Mid, In
  <2>8. begun'[at'[n]][n] = b + 1
    BY <1>2, <1>3, <1>4, <2>3, Zenon DEF StreamOK
  <2>9. CallOK(n)'
    BY <1>2, <2>6, <2>8, Zenon DEF CallOK
  <2>10. last' = last /\ v.op \in {"send", "sent"} /\ u = [no |-> b + 1]
    BY <1>1, <2>1, <2>6, Zenon
  <2>11. b + 1 \in Nat /\ FALSE \in BOOLEAN /\ (~FALSE) = TRUE
    BY <1>4
  <2> HIDE DEF u, v
  <2>12. WritesUnit(n, c0, s, u, v, b, b + 1, FALSE)
    BY <1>1, <1>3, <1>4, <1>5, <2>2, <2>3, <2>4, <2>5, <2>7, <2>9, <2>10, <2>11, Zenon
       DEF WritesUnit
  <2> QED
    BY <2>10, <2>12, UnitWritten, Zenon
<1>8. CASE call[n] = Sending(<<[pkt |-> pkt, no |-> b]>>)
  <2> DEFINE v == Sent(TRUE)
  <2>1. /\ call[n].units = <<[pkt |-> pkt, no |-> b]>>
        /\ Len(call[n].units) = 1 /\ u = [pkt |-> pkt, no |-> b]
    <3>1. PICK e : e = [pkt |-> pkt, no |-> b]
      BY Zenon
    <3>2. call[n] = [op |-> "send", units |-> <<e>>]
      BY <1>8, <3>1, Zenon DEF Sending
    <3> HIDE DEF b, c0, s, u
    <3>3. call[n].units = <<e>>
      BY <3>2
    <3>4. Len(<<e>>) = 1 /\ Head(<<e>>) = e
      OBVIOUS
    <3> QED
      BY <3>1, <3>3, <3>4, Zenon DEF u
  <2>2. call' = [call EXCEPT ![n] = v]
    BY <1>1, <2>1, Zenon DEF AfterUnit
  <2>3. begun' = [begun EXCEPT ![c0][n] = b]
    BY <1>1, <2>1 DEF FrameBegins
  <2>4. Mid(c0, n) = TRUE
    BY <1>1, <2>1, Zenon DEF Mid
  <2>5. u \in Units
    BY <1>4, <2>1, UnitFacts, Zenon
  <2>6. call'[n] = v /\ v.op = "sent"
    BY <1>2, <2>2, Zenon DEF Sent
  <2>7. Mid(c0, n)' = FALSE
    BY <2>6, Zenon DEF Mid, In
  <2>8. CallOK(n)'
    BY <1>2, <2>6, Zenon DEF CallOK
  <2>9. /\ last' = last /\ v.op \in {"send", "sent"}
        /\ \E p \in AnyPacket : u = [pkt |-> p, no |-> b]
    BY <1>1, <2>1, <2>6, Zenon
  <2>10. TRUE \in BOOLEAN /\ (~TRUE) = FALSE
    BY Zenon
  <2> HIDE DEF u, v
  <2>11. WritesUnit(n, c0, s, u, v, b, b, TRUE)
    BY <1>1, <1>3, <1>4, <1>5, <2>2, <2>3, <2>4, <2>5, <2>7, <2>8, <2>9, <2>10, Zenon
       DEF WritesUnit
  <2> QED
    BY <2>9, <2>11, UnitWritten, Zenon
<1> QED
  BY <1>6, <1>7, <1>8, Zenon

(* A call fails, within a frame (x) or not.                                *)
FailsIn(n, c0, w0, v, x) ==
    /\ n \in Nodes /\ (In(n, "send") \/ In(n, "recv"))
    /\ c0 = at[n] /\ w0 = Side(n)
    /\ call' = [call EXCEPT ![n] = v] /\ v \in {Sent(FALSE), Got(NoPacket)}
    /\ x \in BOOLEAN /\ x = (Mid(c0, n) \/ Pend(c0, Other(n)))
    /\ cut' = [cut EXCEPT ![c0][w0] = cut[c0][w0] \/ x]
    /\ UNCHANGED <<connVars, stream, begun, last>>

(* A call that returns -1 keeps the invariant, because one that leaves     *)
(* half a frame behind is recorded as a cut.                               *)
LEMMA CallFailed ==
    ASSUME TransportInv, NEW n, NEW c0, NEW w0, NEW v, NEW x, FailsIn(n, c0, w0, v, x)
    PROVE  TransportInv'
<1>1. /\ n \in Nodes /\ (In(n, "send") \/ In(n, "recv"))
      /\ c0 = at[n] /\ w0 = Side(n)
      /\ call' = [call EXCEPT ![n] = v] /\ v \in {Sent(FALSE), Got(NoPacket)}
      /\ x \in BOOLEAN /\ x = (Mid(c0, n) \/ Pend(c0, Other(n)))
      /\ cut' = [cut EXCEPT ![c0][w0] = cut[c0][w0] \/ x]
      /\ UNCHANGED <<connVars, stream, begun, last>>
  BY Zenon DEF FailsIn
<1>2. /\ at[n] # 0 /\ CallOK(n) /\ DOMAIN call = Nodes
      /\ Other(n) \in Nodes /\ Other(n) # n /\ Other(Other(n)) = n
  <2>1. CallOK(n) /\ DOMAIN call = Nodes
    BY <1>1, Zenon DEF TransportInv
  <2> QED
    BY <1>1, <2>1, CallFacts, NodeFacts, Zenon
<1>3. c0 \in Conns /\ w0 \in Nodes
  BY <1>1, <1>2, AtConn, Zenon DEF Side
<1>4. at' = at /\ started' = started /\ accepted' = accepted
  BY <1>1, Zenon DEF connVars
<1>5. StreamOK /\ Direction(c0, w0) /\ cut[c0][w0] \in BOOLEAN
  BY <1>3, Zenon DEF TransportInv, StreamOK
<1>6. v.op \in {"sent", "got"} /\ (v.op = "got" => v.pkt = NoPacket)
  BY <1>1 DEF Sent, Got
<1>7. /\ cut' \in [Conns -> [Nodes -> BOOLEAN]]
      /\ cut'[c0][w0] = (cut[c0][w0] \/ x)
      /\ \A c \in Conns, w \in Nodes : c # c0 \/ w # w0 => cut'[c][w] = cut[c][w]
      /\ \A c \in Conns, w \in Nodes : cut[c][w] => cut'[c][w]
  <2>1. (cut[c0][w0] \/ x) \in BOOLEAN
    BY <1>1, <1>5, Zenon
  <2> DEFINE y == cut[c0][w0] \/ x
  <2>2. y \in BOOLEAN /\ cut' = [cut EXCEPT ![c0][w0] = y] /\ (cut[c0][w0] => y)
    BY <1>1, <2>1, Zenon
  <2>3. cut \in [Conns -> [Nodes -> BOOLEAN]]
    BY <1>5, Zenon DEF StreamOK
  <2> HIDE DEF y
  <2>4. /\ cut' \in [Conns -> [Nodes -> BOOLEAN]] /\ cut'[c0][w0] = y
        /\ \A c \in Conns, w \in Nodes : c # c0 \/ w # w0 => cut'[c][w] = cut[c][w]
    BY <1>3, <2>2, <2>3, Zenon
  <2> QED
    BY <2>2, <2>4, Zenon DEF y
<1>8. /\ ConnOK' /\ DOMAIN call' = Nodes /\ call'[n] = v
      /\ \A m \in Nodes : m # n => call'[m] = call[m] /\ CallOK(m)'
      /\ \A c \in Conns, w \in Nodes : c # c0 \/ w # w0 => Direction(c, w)'
      /\ \A c \in Conns, w \in Nodes : Gone(c, w)' = Gone(c, w)
      /\ \A c \in Conns : Pend(c, n)' = Pend(c, n)
      /\ \A c \in Conns : Mid(c, Other(n))' = Mid(c, Other(n))
  <2>1. \A c \in Conns, w \in Nodes : c # at[n] \/ w # Side(n) => Untouched(c, w)
    BY <1>1, <1>7, Zenon DEF Untouched
  <2>2. \A c \in Conns : begun'[c][Other(n)] = begun[c][Other(n)]
    BY <1>1, Zenon
  <2>3. Advances(n, v)
    BY <1>1, <1>6, <2>1, <2>2, Zenon DEF Advances
  <2> QED
    BY <1>1, <2>3, OtherDirections, Zenon
<1>9. StreamOK'
  BY <1>1, <1>5, <1>7, Zenon DEF StreamOK
<1>10. CallOK(n)'
  BY <1>1, <1>2, <1>4, <1>8, Zenon DEF CallOK
<1>11. Mid(c0, n)' = FALSE /\ Pend(c0, Other(n))' = FALSE
  BY <1>2, <1>6, <1>8, Zenon DEF Mid, Pend, In
<1>12. Direction(c0, w0)'
  <2>1. \/ w0 = n /\ Pend(c0, w0)' = Pend(c0, w0) /\ Mid(c0, w0)' = FALSE
        \/ w0 = Other(n) /\ Mid(c0, w0)' = Mid(c0, w0) /\ Pend(c0, w0)' = FALSE
    BY <1>1, <1>3, <1>8, <1>11, Zenon DEF Side
  <2>2. InOrder(stream'[c0][w0], last'[c0][w0], begun'[c0][w0], Mid(c0, w0)')
    <3>1. InOrder(stream[c0][w0], last[c0][w0], begun[c0][w0], Mid(c0, w0))
      BY <1>5, Zenon DEF Direction
    <3>2. \/ Mid(c0, w0)' = Mid(c0, w0)
          \/ Mid(c0, w0) = TRUE /\ Mid(c0, w0)' = FALSE
      BY <2>1, Zenon DEF Mid
    <3>3. CASE Mid(c0, w0) = TRUE /\ Mid(c0, w0)' = FALSE
      <4>1. /\ stream[c0][w0] \in Seq(Units) /\ last[c0][w0] \in Nat
            /\ begun[c0][w0] \in Nat
        BY <1>3, <1>5, Zenon DEF StreamOK
      <4>2. \E pkt : pkt \in AnyPacket
        BY Zenon DEF AnyPacket
      <4>3. InOrder(stream[c0][w0], last[c0][w0], begun[c0][w0], FALSE)
        BY <3>1, <3>3, <4>1, <4>2, WriteKeepsOrder, Zenon
      <4> QED
        BY <1>1, <3>3, <4>3, Zenon
    <3> QED
      BY <1>1, <3>1, <3>2, <3>3, Zenon
  <2>3. Pend(c0, w0)' => Pend(c0, w0)
    BY <2>1, Zenon
  <2>4. CASE x
    <3>1. cut'[c0][w0]
      BY <1>7, <2>4, Zenon
    <3> QED
      BY <1>1, <1>4, <1>5, <2>2, <2>3, <3>1, Zenon DEF Direction
  <2>5. CASE ~x
    <3>1. Mid(c0, n) = FALSE /\ Pend(c0, Other(n)) = FALSE
      BY <1>1, <2>5, Zenon DEF Mid, Pend
    <3>2. Mid(c0, w0)' = Mid(c0, w0) /\ Pend(c0, w0)' = Pend(c0, w0)
      BY <2>1, <3>1, Zenon
    <3>3. cut'[c0][w0] = cut[c0][w0]
      BY <1>5, <1>7, <2>5, Zenon
    <3>4. Pend(c0, w0) => call'[Other(w0)].length = call[Other(w0)].length
      BY <1>2, <1>8, <2>1, <3>1, <3>2, Zenon
    <3>5. Gone(c0, w0)' = Gone(c0, w0)
      BY <1>3, <1>8, Zenon
    <3> QED
      BY <1>1, <1>3, <1>4, <3>2, <3>3, <3>4, <3>5, SameDirection, Zenon
  <2> QED
    BY <1>1, <2>4, <2>5, Zenon
<1>13. GarbageOnlyAfterCut'
  <2> SUFFICES ASSUME NEW m \in Nodes, In(m, "got")', call'[m].pkt = Garbage
               PROVE  cut'[at'[m]][Other(m)]
    BY Zenon DEF GarbageOnlyAfterCut
  <2>1. m # n
    <3>1. NoPacket # Garbage
      BY Zenon DEF Garbage, NoPacket
    <3>2. call'[n] = v
      BY <1>8, Zenon
    <3> QED
      BY <1>6, <3>1, <3>2, Zenon DEF In
  <2>2. In(m, "got") /\ call[m].pkt = Garbage
    BY <1>8, <2>1, Zenon DEF In
  <2>3. at[m] # 0 /\ cut[at[m]][Other(m)]
    BY <2>2, CallFacts, Zenon DEF TransportInv, GarbageOnlyAfterCut
  <2>4. at[m] \in Conns /\ Other(m) \in Nodes
    BY <2>3, AtConn, NodeFacts, Zenon
  <2> QED
    BY <1>4, <1>7, <2>3, <2>4, Zenon
<1>14. \A c \in Conns, w \in Nodes : Direction(c, w)'
  BY <1>8, <1>12, Zenon
<1>15. \A m \in Nodes : CallOK(m)'
  BY <1>8, <1>10, Zenon
<1> QED
  BY <1>8, <1>9, <1>13, <1>14, <1>15, Zenon DEF TransportInv

(* A failing koe_transport_send or koe_transport_recv keeps the invariant. *)
LEMMA FailKeeps ==
    ASSUME TransportInv, NEW n \in Nodes, SendFails(n) \/ RecvFails(n)
    PROVE  TransportInv' /\ last' = last
<1>1. CallOK(n) /\ Other(n) \in Nodes /\ Other(Other(n)) = n
  BY NodeFacts, Zenon DEF TransportInv
<1>2. CASE SendFails(n)
  <2>1. /\ In(n, "send") /\ call' = [call EXCEPT ![n] = Sent(FALSE)]
        /\ cut' = [cut EXCEPT ![at[n]][n] = cut[at[n]][n] \/ Len(call[n].units) < 2]
        /\ UNCHANGED <<connVars, stream, begun, last>>
    BY <1>2, Zenon DEF SendFails
  <2>2. Len(call[n].units) \in {1, 2}
    <3>1. PICK pkt \in AnyPacket :
             \/ call[n] = Sending(Frame(pkt, begun[at[n]][n] + 1))
             \/ call[n] = Sending(<<[pkt |-> pkt, no |-> begun[at[n]][n]]>>)
      BY <1>1, <2>1, CallFacts, Zenon
    <3> QED
      BY <3>1 DEF Sending, Frame
  <2>3. Pend(at[n], Other(n)) = FALSE /\ Side(n) = n
    BY <1>1, <2>1, Zenon DEF Pend, In, Side
  <2>4. (Len(call[n].units) < 2) = (Mid(at[n], n) \/ Pend(at[n], Other(n)))
    <3>1. CASE Len(call[n].units) = 1
      <4>1. (Len(call[n].units) < 2) = TRUE /\ Mid(at[n], n) = TRUE
        BY <2>1, <3>1 DEF Mid
      <4> QED
        BY <4>1, Zenon
    <3>2. CASE Len(call[n].units) = 2
      <4>1. (Len(call[n].units) < 2) = FALSE /\ Mid(at[n], n) = FALSE
        BY <3>2 DEF Mid
      <4> QED
        BY <2>3, <4>1, Zenon
    <3> QED
      BY <2>2, <3>1, <3>2, Zenon
  <2>5. (Len(call[n].units) < 2) \in BOOLEAN
    OBVIOUS
  <2>6. FailsIn(n, at[n], Side(n), Sent(FALSE), Len(call[n].units) < 2)
    BY <2>1, <2>3, <2>4, <2>5, Zenon DEF FailsIn
  <2> QED
    BY <2>1, <2>6, CallFailed, Zenon
<1>3. CASE RecvFails(n)
  <2>1. /\ In(n, "recv") /\ call' = [call EXCEPT ![n] = Got(NoPacket)]
        /\ cut' = [cut EXCEPT ![at[n]][Other(n)] =
                      cut[at[n]][Other(n)] \/ call[n].length # None]
        /\ UNCHANGED <<connVars, stream, begun, last>>
    BY <1>3, Zenon DEF RecvFails
  <2>2. Mid(at[n], n) = FALSE /\ Side(n) = Other(n)
    BY <2>1, Zenon DEF Mid, In, Side
  <2>3. (call[n].length # None) = (Mid(at[n], n) \/ Pend(at[n], Other(n)))
    BY <1>1, <2>1, <2>2, Zenon DEF Pend
  <2>4. (call[n].length # None) \in BOOLEAN
    BY Zenon
  <2>5. FailsIn(n, at[n], Side(n), Got(NoPacket), call[n].length # None)
    BY <2>1, <2>2, <2>3, <2>4, Zenon DEF FailsIn
  <2> QED
    BY <2>1, <2>5, CallFailed, Zenon
<1> QED
  BY <1>2, <1>3, Zenon

(* A unit is read: the length, to which v answers, or what is taken for    *)
(* the packet, which is returned when it is the one announced.             *)
ReadsUnit(n, c0, w0, s, u, done, v) ==
    /\ n \in Nodes /\ In(n, "recv") /\ c0 = at[n] /\ w0 = Other(n)
    /\ s = stream[c0][w0] /\ s # << >> /\ u = Head(s) /\ done = last[c0][w0]
    /\ call' = [call EXCEPT ![n] = v]
    /\ stream' = [stream EXCEPT ![c0][w0] = Tail(s)]
    /\ UNCHANGED <<connVars, begun, cut>>
    /\ \/ /\ call[n].length = None /\ last' = last
          /\ \/ v = Receiving(IF IsPrefix(u) THEN u.no ELSE 0)
             \/ ~IsPrefix(u) /\ v = Got(NoPacket)
       \/ /\ call[n].length # None
          /\ \/ /\ ~IsPrefix(u) /\ u.no = call[n].length
                /\ v = Got(u.pkt) /\ last' = [last EXCEPT ![c0][w0] = u.no]
             \/ /\ ~(~IsPrefix(u) /\ u.no = call[n].length)
                /\ v \in {Got(Garbage), Got(NoPacket)} /\ last' = last

(* A unit that read_exact takes keeps the invariant, and a packet that it  *)
(* completes is the next one, unless the direction was cut.                *)
LEMMA UnitRead ==
    ASSUME TransportInv, NEW n, NEW c0, NEW w0, NEW s, NEW u, NEW done, NEW v,
           ReadsUnit(n, c0, w0, s, u, done, v)
    PROVE  /\ TransportInv'
           /\ \A c \in Conns, w \in Nodes : c # c0 \/ w # w0 => last'[c][w] = last[c][w]
           /\ \/ last'[c0][w0] = done
              \/ last'[c0][w0] = done + 1
              \/ last'[c0][w0] > done /\ cut[c0][w0]
<1>a. n \in Nodes /\ In(n, "recv") /\ c0 = at[n] /\ w0 = Other(n)
  BY Zenon DEF ReadsUnit
<1>b. s = stream[c0][w0] /\ s # << >> /\ u = Head(s) /\ done = last[c0][w0]
  BY Zenon DEF ReadsUnit
<1>c. /\ call' = [call EXCEPT ![n] = v] /\ stream' = [stream EXCEPT ![c0][w0] = Tail(s)]
      /\ UNCHANGED <<connVars, begun, cut>>
  BY Zenon DEF ReadsUnit
<1>d. \/ /\ call[n].length = None /\ last' = last
         /\ \/ v = Receiving(IF IsPrefix(u) THEN u.no ELSE 0)
            \/ ~IsPrefix(u) /\ v = Got(NoPacket)
      \/ /\ call[n].length # None
         /\ \/ /\ ~IsPrefix(u) /\ u.no = call[n].length
               /\ v = Got(u.pkt) /\ last' = [last EXCEPT ![c0][w0] = u.no]
            \/ /\ ~(~IsPrefix(u) /\ u.no = call[n].length)
               /\ v \in {Got(Garbage), Got(NoPacket)} /\ last' = last
  BY Zenon DEF ReadsUnit
<1>1. /\ at[n] # 0 /\ CallOK(n) /\ DOMAIN call = Nodes
      /\ w0 \in Nodes /\ w0 # n /\ Other(w0) = n
  <2>1. CallOK(n) /\ DOMAIN call = Nodes
    BY <1>a, Zenon DEF TransportInv
  <2> QED
    BY <1>a, <2>1, CallFacts, NodeFacts, Zenon
<1>2. c0 \in Conns
  BY <1>a, <1>1, AtConn, Zenon
<1>3. /\ StreamOK /\ Direction(c0, w0) /\ s \in Seq(Units) /\ done \in Nat
      /\ begun[c0][w0] \in Nat /\ cut[c0][w0] \in BOOLEAN
  BY <1>b, <1>1, <1>2, Zenon DEF TransportInv, StreamOK
<1> DEFINE t == Tail(s)  mid == Mid(c0, w0)
<1>4. /\ u \in Units /\ t \in Seq(Units) /\ done < u.no
      /\ InOrder(t, done, begun[c0][w0], mid)
      /\ ~IsPrefix(u) => InOrder(t, u.no, begun[c0][w0], mid)
  <2>1. InOrder(s, done, begun[c0][w0], mid)
    BY <1>3, <1>b, Zenon DEF Direction
  <2> QED
    BY <1>3, <1>b, <2>1, ReadKeepsOrder, Zenon
<1>5. /\ u.no \in Nat /\ IsPrefix(u) \in BOOLEAN /\ (~IsPrefix(u) => u.pkt \in AnyPacket)
  BY <1>4, UnitFacts, Zenon
<1>6. Len(s) \in Nat /\ Len(t) = Len(s) - 1
  BY <1>3, <1>b
<1> HIDE DEF t, mid
<1>7. /\ stream' \in [Conns -> [Nodes -> Seq(Units)]] /\ stream'[c0][w0] = t
      /\ \A c \in Conns, w \in Nodes : c # c0 \/ w # w0 => stream'[c][w] = stream[c][w]
  <2>1. stream' = [stream EXCEPT ![c0][w0] = t]
    BY <1>c, Zenon DEF t
  <2> QED
    BY <1>1, <1>2, <1>3, <1>4, <2>1, Zenon DEF StreamOK
<1>8. /\ last' \in [Conns -> [Nodes -> Nat]]
      /\ \A c \in Conns, w \in Nodes : c # c0 \/ w # w0 => last'[c][w] = last[c][w]
      /\ last' = last \/ (~IsPrefix(u) /\ last'[c0][w0] = u.no)
  <2>1. last' = last \/ (~IsPrefix(u) /\ last' = [last EXCEPT ![c0][w0] = u.no])
    BY <1>d, Zenon
  <2>2. last \in [Conns -> [Nodes -> Nat]]
    BY <1>3, Zenon DEF StreamOK
  <2> QED
    BY <1>1, <1>2, <1>5, <2>1, <2>2
<1>9. at' = at /\ started' = started /\ accepted' = accepted /\ begun' = begun /\ cut' = cut
  BY <1>c, Zenon DEF connVars
<1>10. StreamOK'
  BY <1>3, <1>7, <1>8, <1>9, Zenon DEF StreamOK
<1>11. PICK len \in Nat \cup {None} : call[n].length = len
  <2>1. PICK len \in Nat \cup {None} : call[n] = Receiving(len)
    BY <1>a, <1>1, CallFacts, Zenon
  <2> QED
    BY <2>1 DEF Receiving
<1>12. Pend(c0, w0) = (call[n].length # None)
  BY <1>a, <1>1, Zenon DEF Pend
<1>13. \/ \E length \in Nat : v = Receiving(length)
       \/ \E pkt \in AnyPacket \cup {NoPacket, Garbage} : v = Got(pkt)
  <2>1. (IF IsPrefix(u) THEN u.no ELSE 0) \in Nat
    BY <1>5, Zenon
  <2> QED
    BY <1>5, <1>d, <2>1, Zenon
<1>14. (v.op = "recv" /\ v.length \in Nat) \/ v.op = "got"
  BY <1>13 DEF Receiving, Got
<1>15. /\ ConnOK' /\ DOMAIN call' = Nodes /\ call'[n] = v
       /\ \A m \in Nodes : m # n => call'[m] = call[m] /\ CallOK(m)'
       /\ \A c \in Conns, w \in Nodes : c # c0 \/ w # w0 => Direction(c, w)'
       /\ \A c \in Conns, w \in Nodes : Gone(c, w)' = Gone(c, w)
       /\ Mid(c0, w0)' = Mid(c0, w0)
  <2>1. Side(n) = w0
    BY <1>a, Zenon DEF Side, In
  <2>2. \A c \in Conns, w \in Nodes : c # at[n] \/ w # Side(n) => Untouched(c, w)
    BY <1>a, <1>7, <1>8, <1>9, <2>1, Zenon DEF Untouched
  <2>3. \A c \in Conns : begun'[c][Other(n)] = begun[c][Other(n)]
    BY <1>9, Zenon
  <2>4. v.op = call[n].op \/ v.op \in {"sent", "got"}
    BY <1>14, <1>a, Zenon DEF In
  <2>5. /\ ConnOK' /\ DOMAIN call' = Nodes /\ call'[n] = v
        /\ \A m \in Nodes : m # n => call'[m] = call[m] /\ CallOK(m)'
        /\ \A c \in Conns, w \in Nodes : c # at[n] \/ w # Side(n) => Direction(c, w)'
        /\ \A c \in Conns, w \in Nodes : Gone(c, w)' = Gone(c, w)
        /\ \A c \in Conns : Mid(c, Other(n))' = Mid(c, Other(n))
    <3>1. Advances(n, v)
      BY <1>a, <1>c, <2>2, <2>3, <2>4, Zenon DEF Advances
    <3> QED
      BY <3>1, OtherDirections, Zenon
  <2> QED
    BY <1>a, <1>2, <2>1, <2>5, Zenon
<1>16. CallOK(n)'
  <2>1. at'[n] # 0
    BY <1>1, <1>9, Zenon
  <2> QED
    BY <1>13, <1>15, <2>1, Zenon DEF CallOK
<1>17. Pend(c0, w0)' = (v.op = "recv") /\ (v.op = "recv" => v.length # None)
  <2>1. at'[n] = c0 /\ call'[n] = v /\ Other(w0) = n
    BY <1>a, <1>1, <1>9, <1>15, Zenon
  <2>2. v.op = "recv" => v.length # None
    BY <1>14, TransportAssumption, Zenon
  <2> QED
    BY <2>1, <2>2, Zenon DEF Pend, In
(* On a direction that is not cut: a length, then the packet with its      *)
(* number.                                                                 *)
<1>18. ASSUME ~cut[c0][w0]
       PROVE  /\ ~Pend(c0, w0) =>
                    IsPrefix(u) /\ u.no = done + 1 /\ v = Receiving(done + 1)
              /\ Pend(c0, w0) =>
                    /\ ~IsPrefix(u) /\ u.no = done + 1 /\ v = Got(u.pkt)
                    /\ last'[c0][w0] = done + 1
              /\ InPlace(t, Base(c0, w0) + 1) /\ Base(c0, w0) \in Nat
              /\ at[w0] = c0 /\ ~Gone(c0, w0) =>
                    Base(c0, w0) + Len(s) = Written(c0, w0)
  <2>1. /\ Pend(c0, w0) => call[n].length = done + 1
        /\ InPlace(s, Base(c0, w0))
        /\ at[w0] = c0 /\ ~Gone(c0, w0) => Base(c0, w0) + Len(s) = Written(c0, w0)
    BY <1>3, <1>18, <1>b, <1>1, Zenon DEF Direction
  <2>2. Base(c0, w0) = IF Pend(c0, w0) THEN 2 * done + 1 ELSE 2 * done
    BY <1>b, Zenon DEF Base
  <2>0. done \in Nat
    BY <1>3, Zenon
  <2>3. Base(c0, w0) \in Nat
    BY <2>0, <2>2
  <2>4. Position(u) = Base(c0, w0) + 1 /\ InPlace(t, Base(c0, w0) + 1)
    BY <1>3, <1>b, <2>1, <2>3, PlaceFacts, Zenon DEF t
  <2>5. CASE ~Pend(c0, w0)
    <3>1. Position(u) = 2 * done + 1
      BY <2>2, <2>4, <2>5, Zenon
    <3>2. IsPrefix(u) /\ u.no = done + 1
      BY <1>3, <1>5, <3>1 DEF Position
    <3>3. call[n].length = None
      BY <1>12, <2>5, Zenon
    <3>4. v = Receiving(done + 1)
      BY <1>d, <3>2, <3>3, Zenon
    <3> QED
      BY <2>1, <2>3, <2>4, <2>5, <3>2, <3>4, Zenon
  <2>6. CASE Pend(c0, w0)
    <3>1. Position(u) = 2 * done + 2
      BY <2>0, <2>2, <2>4, <2>6
    <3>2. ~IsPrefix(u) /\ u.no = done + 1
      BY <1>3, <1>5, <3>1 DEF Position
    <3>3. call[n].length # None /\ u.no = call[n].length
      BY <1>12, <2>1, <2>6, <3>2, Zenon
    <3>4. v = Got(u.pkt) /\ last' = [last EXCEPT ![c0][w0] = u.no]
      BY <1>d, <3>2, <3>3, Zenon
    <3>5. last'[c0][w0] = done + 1
      BY <1>1, <1>2, <1>3, <3>2, <3>4, Zenon DEF StreamOK
    <3> QED
      BY <2>1, <2>3, <2>4, <2>6, <3>2, <3>4, <3>5, Zenon
  <2> QED
    BY <2>5, <2>6, Zenon
<1>19. Direction(c0, w0)'
  <2>1. InOrder(stream'[c0][w0], last'[c0][w0], begun'[c0][w0], Mid(c0, w0)')
    BY <1>b, <1>4, <1>7, <1>8, <1>9, <1>15, Zenon DEF mid
  <2>2. ASSUME ~cut'[c0][w0]
        PROVE  /\ Pend(c0, w0)' => call'[Other(w0)].length = last'[c0][w0] + 1
               /\ InPlace(stream'[c0][w0], Base(c0, w0)')
               /\ at'[w0] = c0 /\ ~Gone(c0, w0)' =>
                     Base(c0, w0)' + Len(stream'[c0][w0]) = Written(c0, w0)'
    <3>1. ~cut[c0][w0]
      BY <1>9, <2>2, Zenon
    <3>2. /\ Pend(c0, w0)' => call'[Other(w0)].length = last'[c0][w0] + 1
          /\ Base(c0, w0)' = Base(c0, w0) + 1
      <4>1. CASE ~Pend(c0, w0)
        <5>1. v = Receiving(done + 1) /\ last'[c0][w0] = done
          BY <1>12, <1>18, <1>b, <1>d, <3>1, <4>1, Zenon
        <5>2. v.op = "recv" /\ v.length = done + 1
          BY <5>1, Zenon DEF Receiving
        <5>3. Pend(c0, w0)' = TRUE
          BY <1>17, <5>2, Zenon
        <5>4. Base(c0, w0) = 2 * done /\ Base(c0, w0)' = 2 * done + 1
          BY <1>b, <4>1, <5>1, <5>3, Zenon DEF Base
        <5> QED
          BY <1>1, <1>15, <5>1, <5>2, <5>4, Zenon
      <4>2. CASE Pend(c0, w0)
        <5>1. v = Got(u.pkt) /\ last'[c0][w0] = done + 1
          BY <1>18, <3>1, <4>2, Zenon
        <5>2. v.op = "got"
          BY <5>1, Zenon DEF Got
        <5>3. Pend(c0, w0)' = FALSE
          BY <1>17, <5>2, Zenon
        <5>4. Base(c0, w0) = 2 * done + 1 /\ Base(c0, w0)' = 2 * (done + 1)
          BY <1>b, <4>2, <5>1, <5>3, Zenon DEF Base
        <5> QED
          BY <1>3, <5>3, <5>4
      <4> QED
        BY <4>1, <4>2, Zenon
    <3>3. Written(c0, w0)' = Written(c0, w0)
      BY <1>9, <1>15, Zenon DEF Written
    <3>4. /\ InPlace(t, Base(c0, w0) + 1) /\ Base(c0, w0) \in Nat
          /\ at[w0] = c0 /\ ~Gone(c0, w0) => Base(c0, w0) + Len(s) = Written(c0, w0)
      BY <1>18, <3>1, Zenon
    <3>5. (Base(c0, w0) + 1) + Len(t) = Base(c0, w0) + Len(s)
      BY <1>6, <3>4
    <3> QED
      BY <1>1, <1>2, <1>7, <1>9, <1>15, <3>2, <3>3, <3>4, <3>5, Zenon
  <2>3. c0 > started' \/ (w0 = Listener /\ c0 > accepted') => FALSE
    <3>1. c0 > started \/ (w0 = Listener /\ c0 > accepted) => s = << >>
      BY <1>3, <1>b, Zenon DEF Direction
    <3> QED
      BY <1>9, <1>b, <3>1, Zenon
  <2> QED
    BY <2>1, <2>2, <2>3, Zenon DEF Direction
<1>20. GarbageOnlyAfterCut'
  <2> SUFFICES ASSUME NEW m \in Nodes, In(m, "got")', call'[m].pkt = Garbage
               PROVE  cut'[at'[m]][Other(m)]
    BY Zenon DEF GarbageOnlyAfterCut
  <2>1. CASE m # n
    <3>1. In(m, "got") /\ call[m].pkt = Garbage
      BY <1>15, <2>1, Zenon DEF In
    <3> QED
      BY <1>9, <3>1, Zenon DEF TransportInv, GarbageOnlyAfterCut
  <2>2. CASE m = n
    <3>1. v.op = "got" /\ v.pkt = Garbage
      BY <1>15, <2>2, Zenon DEF In
    <3>2. CASE cut[c0][w0]
      BY <1>a, <1>9, <2>2, <3>2, Zenon
    <3>3. CASE ~cut[c0][w0]
      <4>1. v = Receiving(done + 1) \/ (~IsPrefix(u) /\ v = Got(u.pkt))
        BY <1>18, <3>3, Zenon
      <4>2. v.op = "recv" \/ (~IsPrefix(u) /\ v.pkt = u.pkt)
        BY <4>1 DEF Receiving, Got
      <4> QED
        BY <1>5, <3>1, <4>2, PacketFacts, Zenon
    <3> QED
      BY <3>2, <3>3, Zenon
  <2> QED
    BY <2>1, <2>2, Zenon
<1>21. \/ last'[c0][w0] = done
       \/ last'[c0][w0] = done + 1
       \/ last'[c0][w0] > done /\ cut[c0][w0]
  <2>1. CASE cut[c0][w0]
    BY <1>3, <1>4, <1>5, <1>8, <1>b, <2>1, Zenon
  <2>2. CASE ~cut[c0][w0]
    BY <1>12, <1>18, <1>b, <1>d, <2>2, Zenon
  <2> QED
    BY <2>1, <2>2, Zenon
<1>22. \A c \in Conns, w \in Nodes : Direction(c, w)'
  BY <1>15, <1>19, Zenon
<1>23. \A m \in Nodes : CallOK(m)'
  BY <1>15, <1>16, Zenon
<1>24. TransportInv'
  BY <1>10, <1>15, <1>20, <1>22, <1>23, Zenon DEF TransportInv
<1> QED
  BY <1>8, <1>21, <1>24, Zenon

(* Every outcome of read_exact is one that ReadsUnit lists.                *)
LEMMA ReadEffect ==
    ASSUME TransportInv, NEW n \in Nodes, read_exact(n)
    PROVE  \E v : ReadsUnit(n, at[n], Other(n), stream[at[n]][Other(n)],
                           Head(stream[at[n]][Other(n)]), last[at[n]][Other(n)], v)
<1> DEFINE c0 == at[n]  w0 == Other(n)  s == stream[c0][w0]  u == Head(s)
<1>1. /\ In(n, "recv") /\ s # << >>
      /\ ReadPrefix(n, u) \/ ReadBody(n, u)
      /\ stream' = [stream EXCEPT ![c0][w0] = Tail(s)]
      /\ UNCHANGED <<connVars, begun, cut>>
  BY Zenon DEF read_exact
<1>2. /\ c0 \in Conns /\ w0 \in Nodes /\ CallOK(n) /\ at[n] # 0
  <2>1. CallOK(n) /\ at[n] # 0
    BY <1>1, CallFacts, Zenon DEF TransportInv
  <2> QED
    BY <2>1, AtConn, NodeFacts, Zenon
<1>3. /\ s \in Seq(Units) /\ StreamOK /\ last[c0][w0] \in Nat
  <2>1. StreamOK
    BY Zenon DEF TransportInv
  <2> QED
    BY <1>2, <2>1, Zenon DEF StreamOK
<1>4. u \in Units
  BY <1>1, <1>3
<1>5. IsPrefix(u) \in BOOLEAN /\ (~IsPrefix(u) => u.pkt \in AnyPacket)
  BY <1>4, UnitFacts, Zenon
<1> HIDE DEF u
<1>6. \E v : ReadsUnit(n, c0, w0, s, u, last[c0][w0], v)
  <2>1. CASE ReadPrefix(n, u)
    <3>1. /\ call[n].length = None /\ last' = last
          /\ \/ call' = [call EXCEPT ![n] = Receiving(IF IsPrefix(u) THEN u.no ELSE 0)]
             \/ ~IsPrefix(u) /\ call' = [call EXCEPT ![n] = Got(NoPacket)]
      BY <2>1, Zenon DEF ReadPrefix
    <3> HIDE DEF s, c0, w0
    <3>2. PICK v : /\ call' = [call EXCEPT ![n] = v]
                   /\ \/ v = Receiving(IF IsPrefix(u) THEN u.no ELSE 0)
                      \/ ~IsPrefix(u) /\ v = Got(NoPacket)
      BY <3>1, Zenon
    <3> QED
      BY <1>1, <3>1, <3>2, Zenon DEF ReadsUnit, u, s, c0, w0
  <2>2. CASE ReadBody(n, u)
    <3>1. PICK pkt \in koe_packet_deserialise(call[n].length, u) :
             /\ call' = [call EXCEPT ![n] = Got(pkt)]
             /\ last' = [last EXCEPT ![c0][w0] =
                            IF pkt \in {Garbage, NoPacket} THEN last[c0][w0] ELSE u.no]
      BY <2>2, Zenon DEF ReadBody
    <3>2. call[n].length # None
      BY <2>2, Zenon DEF ReadBody
    <3>3. CASE ~IsPrefix(u) /\ u.no = call[n].length
      <4>1. pkt = u.pkt
        BY <3>1, <3>3, Zenon DEF koe_packet_deserialise
      <4>2. last' = [last EXCEPT ![c0][w0] = u.no]
        BY <1>5, <3>1, <3>3, <4>1, PacketFacts, Zenon
      <4>3. call' = [call EXCEPT ![n] = Got(u.pkt)]
        BY <3>1, <4>1, Zenon
      <4>4. ReadsUnit(n, c0, w0, s, u, last[c0][w0], Got(u.pkt))
        BY <1>1, <3>2, <3>3, <4>2, <4>3, Zenon DEF ReadsUnit, u
      <4> QED
        BY <4>4, Zenon
    <3>4. CASE ~(~IsPrefix(u) /\ u.no = call[n].length)
      <4>1. pkt \in {Garbage, NoPacket}
        BY <3>1, <3>4, Zenon DEF koe_packet_deserialise
      <4>2. last' = last
        <5>1. last' = [last EXCEPT ![c0][w0] = last[c0][w0]]
          BY <3>1, <4>1, Zenon
        <5> QED
          BY <1>2, <1>3, <5>1, Zenon DEF StreamOK
      <4>3. ReadsUnit(n, c0, w0, s, u, last[c0][w0], Got(pkt))
        BY <1>1, <3>1, <3>2, <3>4, <4>1, <4>2, Zenon DEF ReadsUnit, u
      <4> QED
        BY <4>3, Zenon
    <3> QED
      BY <3>3, <3>4, Zenon
  <2> QED
    BY <1>1, <2>1, <2>2, Zenon
<1> QED
  BY <1>6, Zenon DEF u

(* read_exact keeps the invariant and returns packets in order.            *)
LEMMA ReadKeeps ==
    ASSUME TransportInv, NEW n \in Nodes, read_exact(n)
    PROVE  /\ TransportInv'
           /\ \A c \in Conns, w \in Nodes :
                 \/ last'[c][w] = last[c][w]
                 \/ last'[c][w] = last[c][w] + 1
                 \/ last'[c][w] > last[c][w] /\ cut[c][w]
<1> DEFINE c0 == at[n]  w0 == Other(n)  s == stream[c0][w0]  u == Head(s)
<1>1. PICK v : ReadsUnit(n, c0, w0, s, u, last[c0][w0], v)
  BY ReadEffect, Zenon
<1> HIDE DEF c0, w0, s, u
<1>2. PICK done : done = last[c0][w0] /\ ReadsUnit(n, c0, w0, s, u, done, v)
  BY <1>1, Zenon
<1>3. /\ TransportInv'
      /\ \A c \in Conns, w \in Nodes : c # c0 \/ w # w0 => last'[c][w] = last[c][w]
      /\ \/ last'[c0][w0] = done
         \/ last'[c0][w0] = done + 1
         \/ last'[c0][w0] > done /\ cut[c0][w0]
  BY <1>2, UnitRead
<1> QED
  BY <1>2, <1>3, Zenon

-----------------------------------------------------------------------------
(* The operations of the two applications.                                 *)

(* The types of the two ends of a transfer.                                *)
TxStates == {"IDLE", "OFFERING", "OFFERED", "ACCEPTED", "REJECTED", "DONE", "FAILED"}
RxStates == {"IDLE", "RECEIVING", "DONE", "FAILED", "ABANDONED"}

MediaOK ==
    /\ file \in Files /\ offers \in Nat /\ disturbed \in BOOLEAN
    /\ tx \in [state : TxStates, offer : Offers \cup {NoOffer}, chunks : Nat]
    /\ tx.state = "OFFERING" => tx.offer \in Offers
    /\ rx \in [state : RxStates, offer : Offers \cup {NoOffer}, chunks : Nat,
               saved : Seq(Cells)]

(* A file is a sequence of cells.                                          *)
LEMMA FileFacts ==
    \A f \in Files : /\ f \in Seq(Cells) /\ Len(f) \in Nat
                     /\ \A i \in 1..Len(f) : f[i] \in Cells
<1> SUFFICES ASSUME NEW f \in Files
             PROVE  /\ f \in Seq(Cells) /\ Len(f) \in Nat
                    /\ \A i \in 1..Len(f) : f[i] \in Cells
  BY Zenon
<1>1. f \in Seq({f[i] : i \in DOMAIN f})
  BY MediaAssumption, Zenon
<1>2. {f[i] : i \in DOMAIN f} \subseteq Cells
  BY Zenon DEF Cells
<1>3. f \in Seq(Cells)
  BY <1>1, <1>2, SeqMonotonic, Zenon
<1> QED
  BY <1>3, LenProperties, ElementOfSeq, Zenon

(* Every chunk that is counted starts within the file, and together they   *)
(* reach its end.                                                          *)
LEMMA ChunkArithmetic ==
    ASSUME NEW size \in Nat
    PROVE  /\ ChunkSize \in Nat /\ ChunkCount(size) \in Nat
           /\ \A i \in Nat : i * ChunkSize \in Nat /\ (i + 1) * ChunkSize = i * ChunkSize + ChunkSize
           /\ \A i \in Nat : i < ChunkCount(size) => i * ChunkSize < size
           /\ size <= ChunkCount(size) * ChunkSize
<1> DEFINE q == ChunkCount(size)
<1>1. ChunkSize \in Nat /\ ChunkSize > 0
  BY MediaAssumption
<1>2. /\ q \in Nat /\ ChunkSize * q <= size + ChunkSize - 1
      /\ size + ChunkSize - 1 < ChunkSize * q + ChunkSize
  BY <1>1 DEF ChunkCount
<1> HIDE DEF q
<1>3. ASSUME NEW i \in Nat
      PROVE  i * ChunkSize \in Nat /\ (i + 1) * ChunkSize = i * ChunkSize + ChunkSize
  BY <1>1
<1>4. ASSUME NEW i \in Nat, i < q PROVE i * ChunkSize < size
  <2>1. (i + 1) * ChunkSize <= q * ChunkSize
    BY <1>1, <1>2, <1>4
  <2>2. q * ChunkSize = ChunkSize * q /\ q * ChunkSize \in Nat
    BY <1>1, <1>2
  <2> QED
    BY <1>1, <1>2, <1>3, <2>1, <2>2
<1>5. size <= q * ChunkSize
  BY <1>1, <1>2
<1> QED
  BY <1>1, <1>2, <1>3, <1>4, <1>5, Zenon DEF q

(* What the library builds are packets.                                    *)
LEMMA Built ==
    ASSUME MediaOK
    PROVE  /\ \A o \in Offers : OfferPacket(o) \in AnyPacket
           /\ \A id \in Nat, accept \in BOOLEAN : AckPacket(id, accept) \in AnyPacket
           /\ DonePacket \in AnyPacket
           /\ \A i \in Nat : ChunkReadable(i) => ChunkPacket(i) \in AnyPacket
           /\ \A content \in Files : Offer(file, content) \in Offers
<1>1. ASSUME NEW i \in Nat, ChunkReadable(i) PROVE ChunkPacket(i) \in AnyPacket
  <2> DEFINE a == i * ChunkSize  b == a + ChunkLen(i)
  <2>1. a \in Nat /\ ChunkSize \in Nat /\ tx.offer.size \in Int
    <3>1. tx.offer \in Offers \cup {NoOffer}
      BY Zenon DEF MediaOK
    <3>2. tx.offer.size \in Nat
      BY <3>1 DEF Offers, NoOffer
    <3>3. ChunkSize \in Nat
      BY MediaAssumption, Zenon
    <3> QED
      BY <3>2, <3>3
  <2>2. b \in Int /\ b <= Len(file)
    BY <1>1, <2>1, FileFacts DEF MediaOK, ChunkLen, ChunkReadable
  <2> HIDE DEF a, b
  <2>3. a + 1 \in Int /\ \A k \in (a + 1)..b : k \in 1..Len(file)
    BY <2>1, <2>2
  <2>4. \A k \in (a + 1)..b : file[k] \in Cells
    BY <2>3, FileFacts, Zenon DEF MediaOK
  <2>5. SubSeq(file, a + 1, b) \in Seq(Cells)
    BY <2>2, <2>3, <2>4, SubSeqProperties, Zenon
  <2> QED
    BY <2>5, Zenon DEF a, b, ChunkPacket, AnyPacket, Chunks
<1>2. ASSUME NEW content \in Files PROVE Offer(file, content) \in Offers
  <2>1. Len(file) \in Nat /\ ChunkCount(Len(file)) \in Nat /\ offers + 1 \in Nat
    BY FileFacts, ChunkArithmetic DEF MediaOK
  <2> QED
    BY <2>1, Zenon DEF Offer, Offers
<1> QED
  BY <1>1, <1>2, Zenon DEF OfferPacket, AckPacket, AnyPacket

(* A packet of one of the types that the receiver handles has the fields   *)
(* that it reads.                                                          *)
LEMMA PacketParts ==
    \A pkt \in AnyPacket \cup {NoPacket, Garbage} :
       /\ pkt.type = "OFFER" => pkt \in AnyPacket /\ pkt = OfferPacket(pkt.offer)
                                /\ pkt.offer \in Offers
       /\ pkt.type = "CHUNK" => pkt \in AnyPacket /\ pkt.data \in Seq(Cells)
       /\ pkt.type = "DONE" => pkt \in AnyPacket
BY DEF AnyPacket, NoPacket, Garbage, DonePacket, OfferPacket, Chunks

(* A node calls koe_transport_send or koe_transport_recv, or comes back    *)
(* from it.                                                                *)
LEMMA SendKeeps ==
    ASSUME TransportInv, NEW n \in Nodes, NEW pkt \in AnyPacket, koe_transport_send(n, pkt)
    PROVE  TransportInv' /\ last' = last
<1>1. /\ at[n] # 0 /\ call[n] = Idle
      /\ call' = [call EXCEPT ![n] = Sending(Frame(pkt, begun[at[n]][n] + 1))]
      /\ UNCHANGED <<connVars, streamVars>>
  BY Zenon DEF koe_transport_send
<1>2. ~In(n, "send") /\ ~In(n, "recv")
  BY <1>1 DEF In, Idle
<1> QED
  BY <1>1, <1>2, BetweenCalls, Zenon DEF streamVars

(* koe_transport_recv is called.                                           *)
LEMMA RecvKeeps ==
    ASSUME TransportInv, NEW n \in Nodes, koe_transport_recv(n)
    PROVE  TransportInv' /\ last' = last
<1>1. /\ at[n] # 0 /\ call[n] = Idle
      /\ call' = [call EXCEPT ![n] = Receiving(None)]
      /\ UNCHANGED <<connVars, streamVars>>
  BY Zenon DEF koe_transport_recv
<1>2. ~In(n, "send") /\ ~In(n, "recv")
  BY <1>1 DEF In, Idle
<1> QED
  BY <1>1, <1>2, BetweenCalls, Zenon DEF streamVars

(* A call has returned and the application goes on.                        *)
LEMMA ReturnKeeps ==
    ASSUME TransportInv, NEW n \in Nodes, In(n, "sent") \/ In(n, "got"),
           call' = [call EXCEPT ![n] = Idle], UNCHANGED <<connVars, streamVars>>
    PROVE  TransportInv' /\ last' = last
<1>1. ~In(n, "send") /\ ~In(n, "recv")
  BY Zenon DEF In
<1> QED
  BY <1>1, BetweenCalls, Zenon DEF streamVars

(* The answer to an offer is sent on the connection that it came from.     *)
LEMMA AnswerKeeps ==
    ASSUME TransportInv, MediaOK, Arrived("OFFER"), NEW accept \in BOOLEAN, Answer(accept),
           UNCHANGED <<connVars, streamVars>>
    PROVE  TransportInv' /\ last' = last /\ call[Listener].pkt.offer \in Offers
<1>1. /\ Listener \in Nodes /\ In(Listener, "got") /\ CallOK(Listener)
      /\ ~In(Listener, "send") /\ ~In(Listener, "recv")
  BY NodeFacts, Zenon DEF Arrived, In, TransportInv
<1>2. PICK pkt \in AnyPacket \cup {NoPacket, Garbage} : call[Listener] = Got(pkt)
  BY <1>1, CallFacts, Zenon
<1>3. pkt.offer \in Offers /\ call[Listener].pkt = pkt /\ at[Listener] # 0
  <2>1. call[Listener].pkt = pkt
    BY <1>2 DEF Got
  <2>2. pkt.type = "OFFER"
    BY <2>1, Zenon DEF Arrived
  <2>3. pkt.offer \in Offers
    BY <2>2, PacketParts, Zenon
  <2>4. at[Listener] # 0
    BY <1>1, CallFacts, Zenon
  <2> QED
    BY <2>1, <2>3, <2>4, Zenon
<1>4. AckPacket(pkt.offer.id, accept) \in AnyPacket
  BY <1>3, Built, Zenon DEF Offers
<1>5. call' = [call EXCEPT ![Listener] =
                 Sending(Frame(AckPacket(pkt.offer.id, accept), begun[at[Listener]][Listener] + 1))]
  BY <1>3, Zenon DEF Answer
<1> QED
  BY <1>1, <1>3, <1>4, <1>5, BetweenCalls, Zenon DEF streamVars


(* What a step may do to the number of the last packet returned.           *)
ReadInOrder ==
    \A c \in Conns, n \in Nodes :
       \/ last'[c][n] \in {last[c][n], 0}
       \/ last'[c][n] = last[c][n] + 1
       \/ last'[c][n] > last[c][n] /\ cut[c][n]

(* Next, one disjunct per operation.                                       *)
LEMMA SenderSteps ==
    ASSUME TransportInv, MediaOK,
           (\E content \in Files : koe_media_offer_build(content)) \/ SenderStep
    PROVE  TransportInv' /\ MediaOK' /\ last' = last
<1> USE NodeFacts
<1>1. CASE \E content \in Files : koe_media_offer_build(content)
  <2>1. PICK content \in Files : koe_media_offer_build(content)
    BY <1>1, Zenon
  <2>2. /\ Offer(file, content) \in Offers /\ OfferPacket(Offer(file, content)) \in AnyPacket
    BY Built, Zenon
  <2>3. /\ tx' = [state |-> "OFFERING", offer |-> Offer(file, content), chunks |-> 0]
        /\ koe_transport_send(Caller, OfferPacket(tx'.offer))
        /\ file' = content /\ offers' = offers + 1 /\ rx' = rx /\ disturbed' \in BOOLEAN
    BY <2>1, Zenon DEF koe_media_offer_build
  <2>4. koe_transport_send(Caller, OfferPacket(Offer(file, content)))
    BY <2>3, Zenon
  <2>5. MediaOK'
    <3>1. /\ tx' \in [state : TxStates, offer : Offers \cup {NoOffer}, chunks : Nat]
          /\ tx'.offer \in Offers
      BY <2>2, <2>3, Zenon DEF TxStates
    <3>2. offers' \in Nat
      BY <2>3 DEF MediaOK
    <3> QED
      BY <2>1, <2>3, <3>1, <3>2, Zenon DEF MediaOK
  <2> QED
    BY <2>2, <2>4, <2>5, SendKeeps, Zenon
<1>2. CASE koe_media_chunk_build
  <2>1. tx.chunks \in Nat /\ ChunkPacket(tx.chunks) \in AnyPacket
    BY <1>2, Built, Zenon DEF koe_media_chunk_build, MediaOK
  <2> QED
    BY <1>2, <2>1, SendKeeps, Zenon DEF koe_media_chunk_build, MediaOK, mediaVars
<1>3. CASE koe_media_done_build
  BY <1>3, Built, SendKeeps, Zenon DEF koe_media_done_build, MediaOK, mediaVars
<1>4. CASE PacketSent
  <2>1. In(Caller, "sent")
    BY <1>4 DEF PacketSent, Sent, In
  <2>2. TransportInv' /\ last' = last
    BY <1>4, <2>1, ReturnKeeps, Zenon DEF PacketSent
  <2>3. /\ UNCHANGED <<file, rx, offers, disturbed>>
        /\ \/ tx.state = "OFFERING" /\ tx' = [tx EXCEPT !.state = "OFFERED"]
           \/ tx.state = "ACCEPTED" /\ tx' = [tx EXCEPT !.chunks = @ + 1]
           \/ tx' = [tx EXCEPT !.state = "DONE"]
    BY <1>4, Zenon DEF PacketSent
  <2> QED
    BY <2>2, <2>3 DEF MediaOK, TxStates
<1>5. CASE PacketNotSent
  <2>1. In(Caller, "sent")
    BY <1>5 DEF PacketNotSent, Sent, In
  <2> QED
    BY <1>5, <2>1, ReturnKeeps, Zenon DEF PacketNotSent, MediaOK, mediaVars
<1>6. CASE OfferAgain
  <2>1. OfferPacket(tx.offer) \in AnyPacket
    BY <1>6, Built, Zenon DEF OfferAgain, MediaOK
  <2> QED
    BY <1>6, <2>1, SendKeeps, Zenon DEF OfferAgain, MediaOK, mediaVars
<1>7. CASE WaitForAck
  BY <1>7, RecvKeeps, Zenon DEF WaitForAck, MediaOK, mediaVars
<1>8. CASE AckArrives
  <2>1. TransportInv' /\ last' = last
    BY <1>8, ReturnKeeps, Zenon DEF AckArrives
  <2>2. /\ UNCHANGED <<file, rx, offers, disturbed>>
        /\ \/ tx' = tx
           \/ tx' = [tx EXCEPT !.state = "ACCEPTED"]
           \/ tx' = [tx EXCEPT !.state = "REJECTED"]
    BY <1>8, Zenon DEF AckArrives
  <2> QED
    BY <2>1, <2>2, Zenon DEF MediaOK, TxStates
<1> QED
  BY <1>1, <1>2, <1>3, <1>4, <1>5, <1>6, <1>7, <1>8, Zenon DEF SenderStep

(* Every operation of the receiver keeps the invariant.                    *)
LEMMA ReceiverSteps ==
    ASSUME TransportInv, MediaOK, ReceiverStep
    PROVE  TransportInv' /\ MediaOK' /\ last' = last
<1> USE NodeFacts
<1>1. CASE WaitForPacket
  BY <1>1, RecvKeeps, Zenon DEF WaitForPacket, MediaOK, mediaVars
<1>2. CASE koe_media_accept_build
  <2>1. TransportInv' /\ last' = last /\ call[Listener].pkt.offer \in Offers
    BY <1>2, AnswerKeeps, Zenon DEF koe_media_accept_build
  <2>2. /\ UNCHANGED <<file, tx, offers, disturbed>>
        /\ rx' = [state |-> "RECEIVING", offer |-> call[Listener].pkt.offer, chunks |-> 0,
                  saved |-> << >>]
    BY <1>2, Zenon DEF koe_media_accept_build
  <2>3. << >> \in Seq(Cells)
    BY EmptySeq, Zenon
  <2> QED
    BY <2>1, <2>2, <2>3, Zenon DEF MediaOK, RxStates
<1>3. CASE koe_media_reject_build
  BY <1>3, AnswerKeeps, Zenon DEF koe_media_reject_build, MediaOK, mediaVars
<1>4. CASE AnswerSent
  BY <1>4, ReturnKeeps, Zenon DEF AnswerSent, MediaOK
<1>5. CASE koe_media_chunk_receive
  <2>1. In(Listener, "got") /\ CallOK(Listener)
    BY <1>5, Zenon DEF koe_media_chunk_receive, Arrived, TransportInv
  <2>2. TransportInv' /\ last' = last
    BY <1>5, <2>1, ReturnKeeps, Zenon DEF koe_media_chunk_receive
  <2>3. /\ UNCHANGED <<file, tx, offers, disturbed>>
        /\ rx' = [rx EXCEPT !.saved = @ \o call[Listener].pkt.data, !.chunks = @ + 1]
    BY <1>5, Zenon DEF koe_media_chunk_receive
  <2>4. PICK pkt \in AnyPacket \cup {NoPacket, Garbage} : call[Listener] = Got(pkt)
    BY <2>1, CallFacts, Zenon
  <2>5. call[Listener].pkt.data \in Seq(Cells)
    BY <1>5, <2>4, PacketParts DEF koe_media_chunk_receive, Arrived, Got
  <2>6. rx.saved \o call[Listener].pkt.data \in Seq(Cells)
    BY <2>5, ConcatProperties, Zenon DEF MediaOK
  <2>7. rx'.saved \in Seq(Cells) /\ rx'.chunks \in Nat /\ rx' = [rx EXCEPT !.saved = rx'.saved, !.chunks = rx'.chunks]
    BY <2>3, <2>6 DEF MediaOK
  <2> QED
    BY <2>2, <2>3, <2>7, Zenon DEF MediaOK
<1>6. CASE ChunkNotWritten
  BY <1>6, ReturnKeeps, Zenon DEF ChunkNotWritten, Arrived, MediaOK, RxStates
<1>7. CASE koe_media_finalise
  BY <1>7, ReturnKeeps, Zenon DEF koe_media_finalise, Arrived, MediaOK, RxStates
<1>8. CASE PassOver
  BY <1>8, ReturnKeeps, Zenon DEF PassOver, MediaOK, mediaVars
<1> QED
  BY <1>1, <1>2, <1>3, <1>4, <1>5, <1>6, <1>7, <1>8, Zenon DEF ReceiverStep

(* Every step keeps the invariant and returns packets in order.            *)
LEMMA TransportStep ==
    ASSUME TransportInv, MediaOK, [Next]_vars
    PROVE  TransportInv' /\ MediaOK' /\ ReadInOrder
<1>1. last' = last => ReadInOrder
  BY Zenon DEF ReadInOrder
<1>2. CASE (\E content \in Files : koe_media_offer_build(content)) \/ SenderStep
  BY <1>1, <1>2, SenderSteps, Zenon
<1>3. CASE ReceiverStep
  BY <1>1, <1>3, ReceiverSteps, Zenon
<1>4. CASE Connect
  <2>1. MediaOK' /\ last' = last
    BY <1>4, Zenon DEF Connect, koe_transport_connect, koe_transport_accept, streamVars,
                MediaOK, mediaVars
  <2> QED
    BY <1>1, <1>4, <2>1, ConnectKeeps, Zenon DEF Connect
<1>5. CASE \E n \in Nodes : Disconnect(n)
  <2>1. MediaOK'
    BY <1>5, Zenon DEF Disconnect, MediaOK
  <2> QED
    BY <1>5, <2>1, DisconnectKeeps, Zenon DEF Disconnect, ReadInOrder
<1>6. CASE \E c \in Conns : Break(c)
  <2>1. MediaOK'
    BY <1>6, Zenon DEF Break, MediaOK
  <2> QED
    BY <1>1, <1>6, <2>1, LossKeeps, Zenon DEF Break
<1>7. CASE \E n \in Nodes : Step(n)
  <2>1. MediaOK'
    BY <1>7, Zenon DEF Step, MediaOK
  <2>2. PICK n \in Nodes : CallStep(n)
    BY <1>7, Zenon DEF Step
  <2>3. CASE write_exact(n)
    BY <1>1, <2>1, <2>3, WriteKeeps, Zenon
  <2>4. CASE SendFails(n) \/ RecvFails(n)
    BY <1>1, <2>1, <2>4, FailKeeps, Zenon
  <2>5. CASE read_exact(n)
    <3>1. /\ TransportInv'
          /\ \A c \in Conns, w \in Nodes :
                \/ last'[c][w] = last[c][w]
                \/ last'[c][w] = last[c][w] + 1
                \/ last'[c][w] > last[c][w] /\ cut[c][w]
      BY <2>5, ReadKeeps, Zenon
    <3> QED
      BY <2>1, <3>1, Zenon DEF ReadInOrder
  <2> QED
    BY <2>2, <2>3, <2>4, <2>5, Zenon DEF CallStep
<1>8. ASSUME UNCHANGED transportVars
      PROVE  TransportInv' /\ last' = last
  <2>1. UNCHANGED <<at, started, accepted, lost, stream, begun, last, cut, call>>
    BY <1>8, Zenon DEF transportVars, connVars, streamVars
  <2>2. ConnOK' /\ StreamOK' /\ DOMAIN call' = Nodes
    BY <2>1, Zenon DEF TransportInv, ConnOK, StreamOK
  <2>3. \A n \in Nodes : CallOK(n)'
    BY <2>1, SameCall, Zenon DEF TransportInv
  <2>4. \A c \in Conns, w \in Nodes : Direction(c, w)'
    BY <2>1, SameDirection, Zenon DEF Pend, Mid, Gone, In
  <2>5. GarbageOnlyAfterCut'
    BY <2>1, Zenon DEF TransportInv, GarbageOnlyAfterCut, In
  <2> QED
    BY <2>1, <2>2, <2>3, <2>4, <2>5, Zenon DEF TransportInv
<1>9. CASE GiveUp
  <2>1. MediaOK'
    BY <1>9, Zenon DEF GiveUp, MediaOK, TxStates
  <2> QED
    BY <1>1, <1>8, <1>9, <2>1, Zenon DEF GiveUp
<1>10. CASE \E content \in Files : FileChanges(content)
  <2>1. MediaOK'
    BY <1>10, Zenon DEF FileChanges, MediaOK
  <2> QED
    BY <1>1, <1>8, <1>10, <2>1, Zenon DEF FileChanges
<1>11. CASE UNCHANGED vars
  <2>1. MediaOK'
    BY <1>11, Zenon DEF vars, mediaVars, MediaOK
  <2> QED
    BY <1>1, <1>8, <1>11, <2>1, Zenon DEF vars
<1> QED
  BY <1>2, <1>3, <1>4, <1>5, <1>6, <1>7, <1>9, <1>10, <1>11, Zenon DEF Next

(* The invariant holds before the first transfer.                          *)
LEMMA MediaInitial == Init => TransportInv /\ MediaOK
<1> SUFFICES ASSUME Init PROVE TransportInv /\ MediaOK
  BY Zenon
<1>1. TransportInv
  BY TransportInitial, Zenon DEF Init
<1>2. << >> \in Seq(Cells)
  BY EmptySeq, Zenon
<1> QED
  BY <1>1, <1>2, Zenon DEF Init, MediaOK, TxStates, RxStates

(* Whatever the frames, the buffers and the failures, koe_transport_recv   *)
(* returns bytes that are not a packet only after a call that returned -1  *)
(* within a frame on the same connection.                                  *)
THEOREM GarbageOnlyAfterCutCorrect == Spec => []GarbageOnlyAfterCut
<1>1. TransportInv /\ MediaOK /\ [Next]_vars => (TransportInv /\ MediaOK)'
  BY TransportStep, Zenon
<1>2. TransportInv => GarbageOnlyAfterCut
  BY Zenon DEF TransportInv
<1> QED
  BY <1>1, <1>2, MediaInitial, PTL DEF Spec

(* koe_transport_recv returns no packet twice or after a later one, and    *)
(* leaves none out as long as no call failed within a frame.               *)
THEOREM EveryPacketInOrderCorrect == Spec => EveryPacketInOrder
<1> DEFINE Read ==
       \A c \in Conns, n \in Nodes :
          \/ last'[c][n] \in {last[c][n], 0}
          \/ last'[c][n] = last[c][n] + 1
          \/ last'[c][n] > last[c][n] /\ cut[c][n]
<1>1. TransportInv /\ MediaOK /\ [Next]_vars => (TransportInv /\ MediaOK)'
  BY TransportStep, Zenon
<1>2. TransportInv /\ MediaOK /\ [Next]_vars => [Read]_transportVars
  BY TransportStep, Zenon DEF ReadInOrder
<1>3. Spec => [][Read]_transportVars
  BY <1>1, <1>2, MediaInitial, PTL DEF Spec
<1> QED
  BY <1>3, Zenon DEF EveryPacketInOrder

=============================================================================
