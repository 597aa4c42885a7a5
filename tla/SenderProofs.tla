---------------------------- MODULE SenderProofs -----------------------------
(***************************************************************************)
(* What the sender of a file has put on the wire, for any files, chunk     *)
(* sizes, connections and offers: since its offer, the packets of the      *)
(* script of the transfer and no other (Within, Ids, Sender).  That frames *)
(* stay frames on the way is in WireProofs, what the receiver makes of     *)
(* them in MediaTransferProofs.                                            *)
(***************************************************************************)
EXTENDS WireProofs

(* The packet that a call of n is sending.                                 *)
Body(n) == call[n].units[Len(call[n].units)].pkt

(* What is left to write of the frame of a call is all of it, or the       *)
(* packet after its length.                                                *)
LEMMA SendFacts ==
    ASSUME TransportInv, NEW n \in Nodes, In(n, "send")
    PROVE  /\ at[n] \in Conns /\ at[n] # 0 /\ Body(n) \in AnyPacket
           /\ \/ call[n] = Sending(Frame(Body(n), begun[at[n]][n] + 1))
              \/ call[n] = Sending(<<[pkt |-> Body(n), no |-> begun[at[n]][n]]>>)
           /\ \A c : Mid(c, n) => at[n] = c
                     /\ call[n] = Sending(<<[pkt |-> Body(n), no |-> begun[at[n]][n]]>>)
<1>1. CallOK(n)
  BY Zenon DEF TransportInv
<1>2. at[n] # 0 /\ at[n] \in Conns
  <2>1. at[n] # 0
    BY <1>1, CallFacts, Zenon
  <2> QED
    BY <2>1, AtConn, Zenon
<1>3. PICK pkt \in AnyPacket :
         \/ call[n] = Sending(Frame(pkt, begun[at[n]][n] + 1))
         \/ call[n] = Sending(<<[pkt |-> pkt, no |-> begun[at[n]][n]]>>)
  BY <1>1, CallFacts, Zenon
<1>4. CASE call[n] = Sending(Frame(pkt, begun[at[n]][n] + 1))
  <2>1. Len(call[n].units) = 2 /\ Body(n) = pkt
    BY <1>4 DEF Sending, Frame, Body
  <2> QED
    BY <1>2, <1>4, <2>1 DEF Mid
<1>5. CASE call[n] = Sending(<<[pkt |-> pkt, no |-> begun[at[n]][n]]>>)
  <2>1. Body(n) = pkt
    BY <1>5 DEF Sending, Body
  <2> QED
    BY <1>2, <1>5, <2>1, Zenon DEF Mid
<1> QED
  BY <1>3, <1>4, <1>5, Zenon

(* What a step of koe_transport_send does that writes a unit.              *)
Writes(n, c, b, s) ==
    /\ In(n, "send") /\ c = at[n] /\ c \in Conns /\ b = begun[c][n] /\ s = stream[c][n]
    /\ \/ /\ ~Mid(c, n) /\ Mid(c, n)' /\ Body(n)' = Body(n)
          /\ call'[n].op = "send" /\ begun'[c][n] = b + 1
          /\ stream'[c][n] \in {s, Append(s, [no |-> b + 1])}
       \/ /\ Mid(c, n) /\ call'[n] = Sent(TRUE) /\ begun'[c][n] = b
          /\ stream'[c][n] \in {s, Append(s, [pkt |-> Body(n), no |-> b])}
    /\ \A d \in Conns, w \in Nodes : d # c \/ w # n =>
          stream'[d][w] = stream[d][w] /\ begun'[d][w] = begun[d][w]
    /\ \A m \in Nodes : m # n => call'[m] = call[m]
    /\ UNCHANGED <<at, last, cut>>

(* Every outcome of write_exact is one that Writes lists.                  *)
LEMMA WriteEffect ==
    ASSUME TransportInv, NEW n \in Nodes, write_exact(n)
    PROVE  Writes(n, at[n], begun[at[n]][n], stream[at[n]][n])
<1> DEFINE c == at[n]  b == begun[c][n]  s == stream[c][n]  u == Head(call[n].units)
<1>1. /\ In(n, "send")
      /\ \/ stream' = [stream EXCEPT ![c][n] = Append(s, u)]
         \/ UNCHANGED stream
      /\ FrameBegins(c, n) /\ AfterUnit(n) /\ UNCHANGED <<connVars, last, cut>>
  BY Zenon DEF write_exact
<1>2. /\ c \in Conns /\ DOMAIN call = Nodes /\ at' = at
      /\ \/ call[n] = Sending(Frame(Body(n), b + 1))
         \/ call[n] = Sending(<<[pkt |-> Body(n), no |-> b]>>)
  BY <1>1, SendFacts, Zenon DEF TransportInv, connVars
<1>3. StreamOK /\ b \in Nat
  BY <1>2, Zenon DEF TransportInv, StreamOK
<1>4. /\ stream'[c][n] \in {s, Append(s, u)}
      /\ \A d \in Conns, w \in Nodes : d # c \/ w # n => stream'[d][w] = stream[d][w]
  <2> DEFINE t == Append(s, u)
  <2>1. stream' = [stream EXCEPT ![c][n] = t] \/ stream' = stream
    BY <1>1, Zenon
  <2> HIDE DEF t, u
  <2>2. DOMAIN stream = Conns /\ \A d \in Conns : DOMAIN stream[d] = Nodes
    BY <1>3, Zenon DEF StreamOK
  <2>3. CASE stream' = [stream EXCEPT ![c][n] = t]
    <3> HIDE DEF c, s
    <3>1. /\ stream'[c][n] = t
          /\ \A d \in Conns, w \in Nodes : d # c \/ w # n => stream'[d][w] = stream[d][w]
      BY <1>2, <2>2, <2>3, Zenon
    <3> QED
      BY <3>1, Zenon DEF t, c, s
  <2> QED
    BY <2>1, <2>3, Zenon
<1>5. /\ begun'[c][n] = (IF Len(call[n].units) = 2 THEN b + 1 ELSE b)
      /\ \A d \in Conns, w \in Nodes : d # c \/ w # n => begun'[d][w] = begun[d][w]
  BY <1>1, <1>2, <1>3, Zenon DEF StreamOK, FrameBegins
<1>6. \A m \in Nodes : m # n => call'[m] = call[m]
  BY <1>1, <1>2, Zenon DEF AfterUnit
<1>7. CASE call[n] = Sending(Frame(Body(n), b + 1))
  <2> DEFINE pkt == Body(n)
  <2>1. /\ call[n].units = << [no |-> b + 1], [pkt |-> pkt, no |-> b + 1] >>
        /\ Len(call[n].units) = 2 /\ u = [no |-> b + 1]
        /\ Tail(call[n].units) = <<[pkt |-> pkt, no |-> b + 1]>>
    BY <1>7 DEF Sending, Frame
  <2> HIDE DEF pkt
  <2>2. call'[n] = Sending(<<[pkt |-> pkt, no |-> b + 1]>>)
    BY <1>1, <1>2, <2>1 DEF AfterUnit
  <2>3. ~Mid(c, n)
    BY <2>1 DEF Mid
  <2>4. call'[n].op = "send" /\ Len(call'[n].units) = 1 /\ call'[n].units[1].pkt = pkt
    BY <2>2 DEF Sending
  <2>5. Mid(c, n)' /\ Body(n)' = pkt
    BY <1>2, <2>4, Zenon DEF Mid, In, Body
  <2>6. begun'[c][n] = b + 1 /\ stream'[c][n] \in {s, Append(s, [no |-> b + 1])}
    BY <1>4, <1>5, <2>1, Zenon
  <2> QED
    BY <1>1, <1>2, <1>4, <1>5, <1>6, <2>3, <2>4, <2>5, <2>6, Zenon DEF pkt, Writes
<1>8. CASE call[n] = Sending(<<[pkt |-> Body(n), no |-> b]>>)
  <2> DEFINE pkt == Body(n)
  <2>1. /\ call[n].units = <<[pkt |-> pkt, no |-> b]>>
        /\ Len(call[n].units) = 1 /\ u = [pkt |-> pkt, no |-> b]
    BY <1>8 DEF Sending
  <2> HIDE DEF pkt
  <2>2. call'[n] = Sent(TRUE)
    BY <1>1, <1>2, <2>1, Zenon DEF AfterUnit
  <2>3. Mid(c, n)
    BY <1>1, <2>1, Zenon DEF Mid
  <2>4. begun'[c][n] = b /\ stream'[c][n] \in {s, Append(s, [pkt |-> pkt, no |-> b])}
    BY <1>4, <1>5, <2>1
  <2> QED
    BY <1>1, <1>2, <1>4, <1>5, <1>6, <2>2, <2>3, <2>4, Zenon DEF pkt, Writes
<1> QED
  BY <1>2, <1>7, <1>8, Zenon

(* koe_transport_recv returned a packet to n.                              *)
Returned(n) == In(n, "got") /\ call[n].pkt \notin {Garbage, NoPacket}

(* Of the packets that the caller sent, those on their way on connection d *)
(* and the one just returned are of G[d].                                  *)
Within(G) ==
    /\ \A d \in Conns : stream[d][Caller] \in Seq(G[d])
    /\ Returned(Listener) =>
          [pkt |-> call[Listener].pkt, no |-> last[at[Listener]][Caller]] \in G[at[Listener]]

(* Nothing is written by the caller or returned to the listener.           *)
LEMMA WithinSame ==
    ASSUME NEW G, Within(G),
           \A d \in Conns : stream'[d][Caller] \in {stream[d][Caller], << >>},
           \/ ~Returned(Listener)'
           \/ /\ call'[Listener] = call[Listener] /\ at'[Listener] = at[Listener]
              /\ last'[at[Listener]][Caller] = last[at[Listener]][Caller]
    PROVE  Within(G)'
<1>1. \A d \in Conns : stream'[d][Caller] \in Seq(G[d])
  <2> SUFFICES ASSUME NEW d \in Conns PROVE stream'[d][Caller] \in Seq(G[d])
    BY Zenon
  <2>1. << >> \in Seq(G[d])
    BY EmptySeq, Zenon
  <2> QED
    BY <2>1, Zenon DEF Within
<1> QED
  BY <1>1, Zenon DEF Within, Returned, In

(* The prefixes and the packet being sent belong to G.                     *)
Admits(G) ==
    /\ \A d \in Conns, no \in Nat : [no |-> no] \in G[d]
    /\ Mid(at[Caller], Caller) =>
          [pkt |-> Body(Caller), no |-> begun[at[Caller]][Caller]] \in G[at[Caller]]

(* Units stay within G as long as the packet being written is of G.        *)
LEMMA WithinCall ==
    ASSUME TransportInv, NEW G, Within(G), Admits(G), NEW n \in Nodes, CallStep(n)
    PROVE  Within(G)'
<1> USE NodeFacts
<1>1. CASE write_exact(n)
  <2> DEFINE c == at[n]  b == begun[c][n]  s == stream[c][n]
  <2>1. Writes(n, c, b, s)
    BY <1>1, WriteEffect, Zenon
  <2> HIDE DEF c, b, s
  <2>2. /\ UNCHANGED <<at, last>> /\ c \in Conns /\ c = at[n] /\ s = stream[c][n]
        /\ \A m \in Nodes : m # n => call'[m] = call[m]
        /\ \A d \in Conns, w \in Nodes : d # c \/ w # n => stream'[d][w] = stream[d][w]
    BY <2>1, Zenon DEF Writes
  <2>3. CASE n = Listener
    <3>1. call'[n].op \in {"send", "sent"}
      <4>1. call'[n].op = "send" \/ call'[n] = Sent(TRUE)
        BY <2>1, Zenon DEF Writes
      <4> QED
        BY <4>1 DEF Sent
    <3>2. ~Returned(Listener)'
      BY <2>3, <3>1, Zenon DEF Returned, In
    <3>3. \A d \in Conns : stream'[d][Caller] = stream[d][Caller]
      BY <2>2, <2>3, TransportAssumption, Zenon
    <3> QED
      BY <3>2, <3>3, WithinSame, Zenon
  <2>4. CASE n = Caller
    <3>1. b + 1 \in Nat /\ b = begun[c][n]
      BY <2>2 DEF TransportInv, StreamOK, b
    <3>2. PICK u \in G[c] : stream'[c][n] \in {s, Append(s, u)}
      <4>1. [no |-> b + 1] \in G[c]
        BY <2>2, <3>1, Zenon DEF Admits
      <4>2. Mid(c, n) => [pkt |-> Body(n), no |-> b] \in G[c]
        BY <2>2, <2>4, <3>1, Zenon DEF Admits
      <4> QED
        BY <2>1, <4>1, <4>2, Zenon DEF Writes
    <3>3. s \in Seq(G[c])
      BY <2>2, <2>4, Zenon DEF Within
    <3>4. stream'[c][n] \in Seq(G[c])
      <4>1. Append(s, u) \in Seq(G[c])
        BY <3>3, AppendProperties, Zenon
      <4> QED
        BY <3>2, <3>3, <4>1, Zenon
    <3>5. \A d \in Conns : stream'[d][Caller] \in Seq(G[d])
      BY <2>2, <2>4, <3>4, Zenon DEF Within
    <3>6. call'[Listener] = call[Listener]
      BY <2>2, <2>4, TransportAssumption, Zenon
    <3> QED
      BY <2>2, <3>5, <3>6, Zenon DEF Within, Returned, In
  <2> QED
    BY <2>3, <2>4, Zenon
<1>2. CASE SendFails(n) \/ RecvFails(n)
  <2>1. /\ UNCHANGED <<stream, last, at>>
        /\ call' = [call EXCEPT ![n] = Sent(FALSE)] \/ call' = [call EXCEPT ![n] = Got(NoPacket)]
    BY <1>2, Zenon DEF SendFails, RecvFails, connVars
  <2>2. /\ DOMAIN call = Nodes /\ (n = Caller \/ n = Listener)
    BY Zenon DEF TransportInv
  <2>3. ~Returned(Listener)' \/ call'[Listener] = call[Listener]
    <3>1. CASE n = Caller
      BY <2>1, <2>2, <3>1, TransportAssumption, Zenon
    <3>2. CASE n = Listener
      BY <2>1, <2>2, <3>2 DEF Returned, In, Sent, Got
    <3> QED
      BY <2>2, <3>1, <3>2, Zenon
  <2> QED
    BY <2>1, <2>3, WithinSame, Zenon
<1>3. CASE read_exact(n)
  <2> DEFINE c0 == at[n]  w0 == Other(n)  s == stream[c0][w0]  u == Head(s)
  <2>1. PICK v : ReadsUnit(n, c0, w0, s, u, last[c0][w0], v)
    BY <1>3, ReadEffect, Zenon
  <2>2. /\ In(n, "recv") /\ s # << >> /\ call' = [call EXCEPT ![n] = v] /\ at' = at
        /\ stream' = [stream EXCEPT ![c0][w0] = Tail(s)]
    BY <2>1, Zenon DEF ReadsUnit, connVars
  <2>3. \/ last' = last /\ v.op = "recv"
        \/ last' = last /\ v \in {Got(Garbage), Got(NoPacket)}
        \/ /\ ~IsPrefix(u) /\ v = Got(u.pkt) /\ last' = [last EXCEPT ![c0][w0] = u.no]
    <3>1. \A length : Receiving(length).op = "recv"
      BY Zenon DEF Receiving
    <3> HIDE DEF c0, w0, s, u
    <3>2. \/ last' = last /\ v = Receiving(IF IsPrefix(u) THEN u.no ELSE 0)
          \/ last' = last /\ v \in {Got(Garbage), Got(NoPacket)}
          \/ /\ ~IsPrefix(u) /\ v = Got(u.pkt) /\ last' = [last EXCEPT ![c0][w0] = u.no]
      BY <2>1, Zenon DEF ReadsUnit
    <3> QED
      BY <3>1, <3>2, Zenon
  <2>4. /\ DOMAIN call = Nodes /\ CallOK(n) /\ StreamOK /\ (n = Caller \/ n = Listener)
    BY Zenon DEF TransportInv
  <2>5. c0 \in Conns
    BY <2>2, <2>4, CallFacts, AtConn, Zenon
  <2>6. s \in Seq(Units)
    BY <2>4, <2>5 DEF StreamOK
  <2>7. u \in Units
    BY <2>2, <2>6
  <2>8. CASE n = Caller
    <3>a. w0 = Listener /\ Listener # Caller
      BY <2>8, TransportAssumption, Zenon
    <3>b. \A d \in Conns : stream'[d][Caller] = stream[d][Caller]
      <4> HIDE DEF c0, w0, s
      <4> QED
        BY <2>2, <2>4, <2>5, <3>a DEF StreamOK
    <3>c. \A d \in Conns : last'[d][Caller] = last[d][Caller]
      <4> HIDE DEF c0, w0, u
      <4>1. DOMAIN last = Conns /\ \A d \in Conns : DOMAIN last[d] = Nodes
        BY <2>4, Zenon DEF StreamOK
      <4>2. CASE last' = [last EXCEPT ![c0][w0] = u.no]
        BY <2>5, <3>a, <4>1, <4>2, Zenon
      <4> QED
        BY <2>3, <4>2, Zenon
    <3>1. \A d \in Conns : /\ stream'[d][Caller] = stream[d][Caller]
                           /\ last'[d][Caller] = last[d][Caller]
      BY <3>b, <3>c, Zenon
    <3>2. call'[Listener] = call[Listener]
      BY <2>2, <2>4, <2>8, TransportAssumption, Zenon
    <3>3. Returned(Listener) => at[Listener] \in Conns
      BY CallFacts, AtConn, Zenon DEF TransportInv, Returned
    <3> QED
      BY <2>2, <3>1, <3>2, <3>3, WithinSame, Zenon DEF Returned, In
  <2>9. CASE n = Listener
    <3>1. /\ stream'[c0][Caller] = Tail(s) /\ s = stream[c0][Caller]
          /\ \A d \in Conns : d # c0 => stream'[d][Caller] = stream[d][Caller]
      BY <2>2, <2>4, <2>5, <2>9 DEF StreamOK
    <3>2. s \in Seq(G[c0])
      BY <2>5, <3>1, Zenon DEF Within
    <3>3. u \in G[c0] /\ Tail(s) \in Seq(G[c0])
      <4> HIDE DEF s
      <4> QED
        BY <2>2, <3>2, HeadTailProperties, Zenon
    <3>4. \A d \in Conns : stream'[d][Caller] \in Seq(G[d])
      BY <3>1, <3>3, Zenon DEF Within
    <3>5. call'[Listener] = v
      BY <2>2, <2>4, <2>9, Zenon
    <3>6. ASSUME Returned(Listener)'
          PROVE  [pkt |-> call'[Listener].pkt, no |-> last'[at'[Listener]][Caller]]
                    \in G[at'[Listener]]
      <4>1. /\ ~IsPrefix(u) /\ v = Got(u.pkt) /\ last' = [last EXCEPT ![c0][w0] = u.no]
        <5> HIDE DEF u, c0, w0
        <5> QED
          BY <2>3, <3>5, <3>6 DEF Returned, In, Got
      <4>2. last'[c0][Caller] = u.no /\ at'[Listener] = c0
        <5> HIDE DEF u
        <5> QED
          BY <2>2, <2>4, <2>5, <2>9, <4>1 DEF StreamOK
      <4>3. u = [pkt |-> u.pkt, no |-> u.no]
        <5> HIDE DEF u
        <5> QED
          BY <2>7, <4>1 DEF Units, IsPrefix
      <4>4. call'[Listener].pkt = u.pkt
        BY <3>5, <4>1 DEF Got
      <4> HIDE DEF u, c0
      <4> QED
        BY <3>3, <4>2, <4>3, <4>4, Zenon
    <3> QED
      BY <3>4, <3>6, Zenon DEF Within
  <2> QED
    BY <2>4, <2>8, <2>9, Zenon
<1> QED
  BY <1>1, <1>2, <1>3, Zenon DEF CallStep

(* The same for every step.                                                *)
LEMMA WithinNext ==
    ASSUME TransportInv, NEW G, Within(G), Admits(G), [Next]_vars
    PROVE  Within(G)'
<1> USE NodeFacts
<1>1. DOMAIN call = Nodes
  BY Zenon DEF TransportInv
<1>2. CASE (\E content \in Files : koe_media_offer_build(content)) \/ SenderStep
  <2>1. UNCHANGED <<stream, last, at>> /\ \E v : call' = [call EXCEPT ![Caller] = v]
    BY <1>2, Zenon DEF koe_media_offer_build, SenderStep, koe_media_chunk_build, koe_media_done_build,
                PacketSent, PacketNotSent, OfferAgain, WaitForAck, AckArrives,
                koe_transport_send, koe_transport_recv, connVars, streamVars
  <2>2. call'[Listener] = call[Listener]
    BY <1>1, <2>1, TransportAssumption, Zenon
  <2> QED
    BY <2>1, <2>2, WithinSame, Zenon
<1>3. CASE ReceiverStep
  <2>1. /\ UNCHANGED <<stream, last, at>>
        /\ \/ call' = [call EXCEPT ![Listener] = Idle]
           \/ call' = [call EXCEPT ![Listener] = Receiving(None)]
           \/ \E accept \in BOOLEAN : Answer(accept)
    BY <1>3, Zenon DEF ReceiverStep, WaitForPacket, koe_media_accept_build, koe_media_reject_build,
                AnswerSent, koe_media_chunk_receive, ChunkNotWritten, koe_media_finalise,
                PassOver, koe_transport_recv, connVars, streamVars
  <2>2. ~Returned(Listener)'
    BY <1>1, <2>1 DEF Returned, In, Answer, Idle, Sending, Receiving
  <2> QED
    BY <2>1, <2>2, WithinSame, Zenon
<1>4. CASE Connect
  <2>1. UNCHANGED <<stream, last, call>>
    BY <1>4, Zenon DEF Connect, koe_transport_connect, koe_transport_accept, streamVars
  <2>2. call[Listener] = Idle \/ at'[Listener] = at[Listener]
    BY <1>4, TransportAssumption DEF Connect, koe_transport_connect, koe_transport_accept,
                                     TransportInv, ConnOK
  <2>3. call[Listener] = Idle => ~Returned(Listener)'
    BY <2>1 DEF Returned, In, Idle
  <2> QED
    BY <2>1, <2>2, <2>3, WithinSame, Zenon
<1>5. CASE \E n \in Nodes : Disconnect(n)
  <2>1. PICK n \in Nodes : koe_transport_disconnect(n)
    BY <1>5, Zenon DEF Disconnect
  <2> DEFINE c0 == at[n]
             over == at[Other(n)] # c0 /\ accepted >= c0
  <2>2. /\ c0 # 0 /\ call[n] = Idle
        /\ at' = [at EXCEPT ![n] = 0]
        /\ stream' = [stream EXCEPT ![c0] =
                         IF ~over /\ @[Other(n)] = << >> THEN @ ELSE [m \in Nodes |-> << >>]]
        /\ last' = [last EXCEPT ![c0] = IF over THEN [m \in Nodes |-> 0] ELSE @]
        /\ UNCHANGED call
    BY <2>1, Zenon DEF koe_transport_disconnect
  <2>3. c0 \in Conns /\ StreamOK /\ ConnOK
    BY <2>2, AtConn, Zenon DEF TransportInv
  <2>4. \A d \in Conns : stream'[d][Caller] \in {stream[d][Caller], << >>}
    BY <2>2, <2>3, Zenon DEF StreamOK
  <2>5. CASE n = Listener
    <3>1. ~Returned(Listener)'
      BY <2>2, <2>5 DEF Returned, In, Idle
    <3> QED
      BY <2>4, <3>1, WithinSame, Zenon
  <2>6. CASE n = Caller
    <3>1. at'[Listener] = at[Listener]
      BY <2>2, <2>3, <2>6, TransportAssumption, Zenon DEF ConnOK
    <3>2. last'[at[Listener]][Caller] = last[at[Listener]][Caller] \/ ~Returned(Listener)
      <4>1. Returned(Listener) => at[Listener] \in Conns
        BY CallFacts, AtConn, Zenon DEF TransportInv, Returned
      <4>2. over => at[Listener] # c0
        BY <2>6, Zenon
      <4> HIDE DEF over, c0
      <4> QED
        BY <2>2, <2>3, <4>1, <4>2, Zenon DEF StreamOK
    <3> QED
      BY <2>2, <2>4, <3>1, <3>2, WithinSame, Zenon DEF Returned, In
  <2> QED
    BY <2>5, <2>6, Zenon
<1>6. CASE \E c \in Conns : Break(c)
  <2>1. PICK c \in Conns : ConnectionLost(c)
    BY <1>6, Zenon DEF Break
  <2>2. /\ stream' = [stream EXCEPT ![c] = [n \in Nodes |-> << >>]]
        /\ UNCHANGED <<at, last, call>>
    BY <2>1, Zenon DEF ConnectionLost
  <2>3. \A d \in Conns : stream'[d][Caller] \in {stream[d][Caller], << >>}
    BY <2>2 DEF TransportInv, StreamOK
  <2> QED
    BY <2>2, <2>3, WithinSame, Zenon
<1>7. CASE \E n \in Nodes : Step(n)
  BY <1>7, WithinCall, Zenon DEF Step
<1>8. CASE GiveUp \/ (\E content \in Files : FileChanges(content)) \/ UNCHANGED vars
  <2>1. UNCHANGED <<at, last, call, stream>>
    BY <1>8, Zenon DEF GiveUp, FileChanges, vars, transportVars, connVars, streamVars
  <2> QED
    BY <2>1, WithinSame, Zenon
<1> QED
  BY <1>2, <1>3, <1>4, <1>5, <1>6, <1>7, <1>8, Zenon DEF Next

-----------------------------------------------------------------------------
(* Transfers.                                                              *)

(* Of offers, those numbered up to k.                                      *)
Known(k) ==
    [d \in Conns |->
       {u \in Units : IsPrefix(u) \/ (u.pkt.type = "OFFER" => u.pkt.offer.id \in 1..k)}]

(* Every transfer has a number of its own, and no packet has a number that *)
(* was not given out.                                                      *)
Ids ==
    /\ tx.offer.id = offers /\ rx.offer.id <= offers
    /\ rx.offer.id = 0 => rx.state = "IDLE"
    /\ tx.state = "OFFERING" => offers > 0
    /\ Within(Known(offers))
    /\ In(Caller, "send") /\ Body(Caller).type = "OFFER" =>
          Body(Caller).offer.id \in 1..offers

(* In which states of its transfer the sender calls the transport.         *)
Busy ==
    /\ In(Caller, "send") \/ In(Caller, "sent") => tx.state \in {"OFFERING", "ACCEPTED"}
    /\ In(Caller, "recv") \/ In(Caller, "got") => tx.state = "OFFERED"

(* Offers that were known stay known when there are more.                  *)
LEMMA KnownMore ==
    ASSUME TransportInv, NEW k \in Nat, NEW l \in Nat, k <= l, Within(Known(k)),
           In(Caller, "send") /\ Body(Caller).type = "OFFER" => Body(Caller).offer.id \in 1..k
    PROVE  Within(Known(l)) /\ Admits(Known(l))
<1>1. 1..k \subseteq 1..l
  OBVIOUS
<1>2. \A d \in Conns : Known(k)[d] \subseteq Known(l)[d]
  BY <1>1, Zenon DEF Known
<1>3. \A d \in Conns : stream[d][Caller] \in Seq(Known(l)[d])
  <2> SUFFICES ASSUME NEW d \in Conns PROVE stream[d][Caller] \in Seq(Known(l)[d])
    BY Zenon
  <2>1. stream[d][Caller] \in Seq(Known(k)[d])
    BY Zenon DEF Within
  <2> QED
    BY <1>2, <2>1, SeqMonotonic, Zenon
<1>4. Returned(Listener) => at[Listener] \in Conns
  BY NodeFacts, CallFacts, AtConn, Zenon DEF TransportInv, Returned
<1>5. Within(Known(l))
  BY <1>2, <1>3, <1>4, Zenon DEF Within
<1>6. \A d \in Conns, no \in Nat : [no |-> no] \in Known(l)[d]
  BY UnitFacts, Zenon DEF Known
<1>7. ASSUME Mid(at[Caller], Caller)
      PROVE  [pkt |-> Body(Caller), no |-> begun[at[Caller]][Caller]] \in Known(l)[at[Caller]]
  <2>1. In(Caller, "send")
    BY <1>7, Zenon DEF Mid
  <2>2. at[Caller] \in Conns /\ Body(Caller) \in AnyPacket
    BY <2>1, SendFacts, NodeFacts, Zenon
  <2>3. begun[at[Caller]][Caller] \in Nat
    BY <2>2, NodeFacts DEF TransportInv, StreamOK
  <2> DEFINE u == [pkt |-> Body(Caller), no |-> begun[at[Caller]][Caller]]
  <2>4. u \in Units
    BY <2>2, <2>3, UnitFacts, Zenon
  <2>5. u.pkt.type = "OFFER" => u.pkt.offer.id \in 1..l
    BY <1>1, <2>1, Zenon
  <2> HIDE DEF u
  <2>6. u \in Known(l)[at[Caller]]
    BY <2>2, <2>4, <2>5, Zenon DEF Known
  <2> QED
    BY <2>6, Zenon DEF u
<1> QED
  BY <1>5, <1>6, <1>7, Zenon DEF Admits

(* An offer that the receiver is handed.                                   *)
LEMMA KnownReturned ==
    ASSUME TransportInv, NEW k \in Nat, Within(Known(k)), Arrived("OFFER")
    PROVE  /\ Returned(Listener) /\ at[Listener] \in Conns
           /\ call[Listener].pkt.offer \in Offers /\ call[Listener].pkt.offer.id \in 1..k
           /\ call[Listener].pkt = OfferPacket(call[Listener].pkt.offer)
<1> USE NodeFacts
<1>1. CallOK(Listener) /\ In(Listener, "got")
  BY Zenon DEF TransportInv, Arrived
<1>2. PICK pkt \in AnyPacket \cup {NoPacket, Garbage} : call[Listener] = Got(pkt)
  BY <1>1, CallFacts, Zenon
<1>3. pkt = call[Listener].pkt /\ pkt.type = "OFFER"
  BY <1>2 DEF Got, Arrived
<1>4. pkt \in AnyPacket /\ pkt.offer \in Offers /\ pkt = OfferPacket(pkt.offer)
  BY <1>2, <1>3, PacketParts, Zenon
<1>5. Returned(Listener)
  BY <1>1, <1>3, <1>4, PacketFacts, Zenon DEF Returned
<1>6. at[Listener] \in Conns
  BY <1>1, CallFacts, AtConn, Zenon
<1>7. [pkt |-> pkt, no |-> last[at[Listener]][Caller]] \in Known(k)[at[Listener]]
  BY <1>3, <1>5, Zenon DEF Within
<1>8. pkt.offer.id \in 1..k
  BY <1>3, <1>6, <1>7, Zenon DEF Known, IsPrefix
<1> QED
  BY <1>3, <1>4, <1>5, <1>6, <1>8, Zenon

(* A call of koe_transport_send begins.                                    *)
LEMMA SendBegins ==
    ASSUME TransportInv, NEW n \in Nodes, NEW pkt, koe_transport_send(n, pkt)
    PROVE  /\ Body(n)' = pkt /\ In(n, "send")' /\ ~In(n, "sent")' /\ ~In(n, "recv")'
           /\ ~In(n, "got")' /\ Len(call'[n].units) = 2 /\ call[n] = Idle
           /\ \A m \in Nodes : m # n => call'[m] = call[m]
           /\ UNCHANGED <<at, begun, stream, last, cut>>
<1>1. /\ call' = [call EXCEPT ![n] = Sending(Frame(pkt, begun[at[n]][n] + 1))]
      /\ UNCHANGED <<at, begun, stream, last, cut>> /\ DOMAIN call = Nodes /\ call[n] = Idle
  BY Zenon DEF koe_transport_send, connVars, streamVars, TransportInv
<1>2. call'[n] = Sending(Frame(pkt, begun[at[n]][n] + 1))
  BY <1>1, Zenon
<1>3. call'[n].op = "send" /\ Len(call'[n].units) = 2 /\ call'[n].units[2].pkt = pkt
  BY <1>2 DEF Sending, Frame
<1> QED
  BY <1>1, <1>3, Zenon DEF Body, In

(* Every step keeps what is known of the numbers of the offers and of the  *)
(* calls of the sender.                                                    *)
LEMMA IdsStep ==
    ASSUME TransportInv, MediaOK, Ids, Busy, [Next]_vars
    PROVE  Ids' /\ Busy'
<1> USE NodeFacts
<1>1. /\ offers \in Nat /\ DOMAIN call = Nodes /\ CallOK(Caller) /\ CallOK(Listener)
      /\ Caller # Listener /\ TransportInv'
      /\ tx \in [state : TxStates, offer : Offers \cup {NoOffer}, chunks : Nat]
      /\ rx \in [state : RxStates, offer : Offers \cup {NoOffer}, chunks : Nat,
                 saved : Seq(Cells)]
  BY TransportAssumption, TransportStep, Zenon DEF TransportInv, MediaOK
<1>2. ASSUME NEW k \in Nat, offers <= k PROVE Within(Known(k))'
  <2>1. Within(Known(k)) /\ Admits(Known(k))
    BY <1>1, <1>2, KnownMore, Zenon DEF Ids
  <2> DEFINE G == Known(k)
  <2> HIDE DEF G
  <2>2. Within(G)'
    BY <2>1, WithinNext, Zenon DEF G
  <2> QED
    BY <2>2, Zenon DEF G
<1>3. ASSUME offers' = offers PROVE Within(Known(offers))'
  BY <1>1, <1>2, <1>3
<1>4. CASE \E content \in Files : koe_media_offer_build(content)
  <2>1. PICK content \in Files : koe_media_offer_build(content)
    BY <1>4, Zenon
  <2>2. /\ tx' = [state |-> "OFFERING", offer |-> Offer(file, content), chunks |-> 0]
        /\ koe_transport_send(Caller, OfferPacket(tx'.offer))
        /\ offers' = offers + 1 /\ rx' = rx
    BY <2>1, Zenon DEF koe_media_offer_build
  <2>3. tx'.offer.id = offers + 1 /\ tx'.state = "OFFERING"
    BY <2>2, Zenon DEF Offer
  <2>4. /\ Body(Caller)' = OfferPacket(tx'.offer) /\ In(Caller, "send")'
        /\ ~In(Caller, "recv")' /\ ~In(Caller, "got")'
    BY <2>2, SendBegins, Zenon
  <2>5. Body(Caller)'.offer.id = offers'
    BY <2>2, <2>3, <2>4 DEF OfferPacket
  <2>6. Within(Known(offers))'
    BY <1>1, <1>2, <2>2
  <2>7. rx.offer.id \in Nat
    BY <1>1 DEF Offers, NoOffer
  <2>8. Busy'
    BY <2>3, <2>4, Zenon DEF Busy
  <2> QED
    BY <1>1, <2>2, <2>3, <2>5, <2>6, <2>7, <2>8 DEF Ids
<1>5. CASE koe_media_chunk_build \/ koe_media_done_build \/ OfferAgain
  <2>1. /\ UNCHANGED <<tx, rx, offers>> /\ tx.state \in {"OFFERING", "ACCEPTED"}
        /\ \/ koe_transport_send(Caller, ChunkPacket(tx.chunks))
           \/ koe_transport_send(Caller, DonePacket)
           \/ tx.state = "OFFERING" /\ koe_transport_send(Caller, OfferPacket(tx.offer))
    BY <1>5, Zenon DEF koe_media_chunk_build, koe_media_done_build, OfferAgain, mediaVars
  <2>2. PICK pkt : /\ koe_transport_send(Caller, pkt)
                   /\ pkt.type = "OFFER" => tx.state = "OFFERING" /\ pkt.offer = tx.offer
    BY <2>1 DEF ChunkPacket, DonePacket, OfferPacket
  <2>3. /\ Body(Caller)' = pkt /\ In(Caller, "send")' /\ ~In(Caller, "recv")'
        /\ ~In(Caller, "got")'
    BY <2>2, SendBegins, Zenon
  <2>4. pkt.type = "OFFER" => pkt.offer.id \in 1..offers
    BY <1>1, <2>2 DEF Ids
  <2>5. Busy'
    BY <2>1, <2>3, Zenon DEF Busy
  <2> QED
    BY <1>3, <2>1, <2>3, <2>4, <2>5, Zenon DEF Ids
<1>6. CASE PacketSent \/ PacketNotSent
  <2>1. /\ call' = [call EXCEPT ![Caller] = Idle] /\ UNCHANGED <<rx, offers>>
        /\ \/ tx' = tx
           \/ tx' = [tx EXCEPT !.state = "OFFERED"]
           \/ tx' = [tx EXCEPT !.chunks = @ + 1]
           \/ tx' = [tx EXCEPT !.state = "DONE"]
    BY <1>6, Zenon DEF PacketSent, PacketNotSent, mediaVars
  <2>2. call'[Caller] = Idle
    BY <1>1, <2>1, Zenon
  <2>3. \A op \in {"send", "sent", "recv", "got"} : ~In(Caller, op)'
    BY <2>2 DEF In, Idle
  <2>4. tx'.offer = tx.offer /\ (tx'.state = "OFFERING" => tx.state = "OFFERING")
    BY <1>1, <2>1, Zenon
  <2> QED
    BY <1>3, <2>1, <2>3, <2>4, Zenon DEF Ids, Busy
<1>7. CASE WaitForAck
  <2>1. /\ call' = [call EXCEPT ![Caller] = Receiving(None)] /\ UNCHANGED <<tx, rx, offers>>
        /\ tx.state = "OFFERED"
    BY <1>7, Zenon DEF WaitForAck, koe_transport_recv, mediaVars
  <2>2. call'[Caller] = Receiving(None)
    BY <1>1, <2>1, Zenon
  <2>3. \A op \in {"send", "sent", "got"} : ~In(Caller, op)'
    BY <2>2 DEF In, Receiving
  <2> QED
    BY <1>3, <2>1, <2>3, Zenon DEF Ids, Busy
<1>8. CASE AckArrives
  <2>1. /\ call' = [call EXCEPT ![Caller] = Idle] /\ UNCHANGED <<rx, offers>>
        /\ \/ tx' = tx
           \/ tx' = [tx EXCEPT !.state = "ACCEPTED"]
           \/ tx' = [tx EXCEPT !.state = "REJECTED"]
    BY <1>8, Zenon DEF AckArrives
  <2>2. call'[Caller] = Idle
    BY <1>1, <2>1, Zenon
  <2>3. \A op \in {"send", "sent", "recv", "got"} : ~In(Caller, op)'
    BY <2>2 DEF In, Idle
  <2>4. tx'.offer = tx.offer /\ (tx'.state = "OFFERING" => tx.state = "OFFERING")
    BY <1>1, <2>1, Zenon
  <2> QED
    BY <1>3, <2>1, <2>3, <2>4, Zenon DEF Ids, Busy
<1>9. ASSUME call'[Caller] = call[Caller], tx' = tx, offers' = offers,
             rx'.offer.id <= offers, rx'.offer.id = 0 => rx'.state = "IDLE"
      PROVE  Ids' /\ Busy'
  <2>1. Body(Caller)' = Body(Caller) /\ \A op : In(Caller, op)' = In(Caller, op)
    BY <1>9, Zenon DEF Body, In
  <2> QED
    BY <1>3, <1>9, <2>1, Zenon DEF Ids, Busy
<1>10. CASE ReceiverStep
  <2>1. call'[Caller] = call[Caller] /\ tx' = tx /\ offers' = offers
    <3>1. \E v : call' = [call EXCEPT ![Listener] = v]
      BY <1>10, Zenon DEF ReceiverStep, WaitForPacket, koe_media_accept_build,
                   koe_media_reject_build, AnswerSent, koe_media_chunk_receive,
                   ChunkNotWritten, koe_media_finalise, PassOver, Answer, koe_transport_recv
    <3>2. tx' = tx /\ offers' = offers
      BY <1>10, Zenon DEF ReceiverStep, WaitForPacket, koe_media_accept_build,
                   koe_media_reject_build, AnswerSent, koe_media_chunk_receive,
                   ChunkNotWritten, koe_media_finalise, PassOver, mediaVars
    <3> QED
      BY <1>1, <3>1, <3>2, Zenon
  <2>2. CASE koe_media_accept_build
    <3>1. /\ Arrived("OFFER") /\ rx'.offer = call[Listener].pkt.offer
      BY <2>2, Zenon DEF koe_media_accept_build
    <3>2. rx'.offer.id \in 1..offers
      BY <1>1, <3>1, KnownReturned, Zenon DEF Ids
    <3> QED
      BY <1>1, <1>9, <2>1, <3>2
  <2>3. CASE rx' = rx
    BY <1>9, <2>1, <2>3, Zenon DEF Ids
  <2>4. CASE koe_media_chunk_receive \/ ChunkNotWritten \/ koe_media_finalise
    <3>1. rx.state = "RECEIVING" /\ rx'.offer = rx.offer
      BY <1>1, <2>4, Zenon DEF koe_media_chunk_receive, ChunkNotWritten, koe_media_finalise
    <3> QED
      BY <1>9, <2>1, <3>1, Zenon DEF Ids
  <2> QED
    BY <1>10, <2>2, <2>3, <2>4, Zenon
       DEF ReceiverStep, WaitForPacket, koe_media_reject_build, AnswerSent, PassOver, mediaVars
<1>11. CASE Connect \/ (\E n \in Nodes : Disconnect(n)) \/ (\E c \in Conns : Break(c))
            \/ (\E content \in Files : FileChanges(content)) \/ UNCHANGED vars
  <2>1. UNCHANGED <<call, tx, rx, offers>>
    BY <1>11, Zenon DEF Connect, Disconnect, Break, FileChanges, vars, mediaVars, transportVars,
                 koe_transport_connect, koe_transport_accept, koe_transport_disconnect,
                 ConnectionLost
  <2> QED
    BY <1>9, <2>1, Zenon DEF Ids
<1>12. CASE GiveUp
  <2>1. call[Caller] = Idle /\ UNCHANGED <<call, rx, offers>>
    BY <1>12, Zenon DEF GiveUp, transportVars
  <2>2. \A op \in {"send", "sent", "recv", "got"} : ~In(Caller, op)'
    BY <2>1 DEF In, Idle
  <2>3. tx'.offer = tx.offer /\ tx'.state # "OFFERING"
    BY <1>1, <1>12, Zenon DEF GiveUp
  <2> QED
    BY <1>3, <2>1, <2>2, <2>3, Zenon DEF Ids, Busy
<1>13. CASE \E n \in Nodes : Step(n)
  <2>1. PICK n \in Nodes : CallStep(n)
    BY <1>13, Zenon DEF Step
  <2>2. UNCHANGED <<tx, rx, offers>>
    BY <1>13, Zenon DEF Step
  <2>3. CASE call'[Caller] = call[Caller]
    BY <1>9, <2>2, <2>3, Zenon DEF Ids
  <2>4. CASE n = Caller /\ write_exact(n)
    <3> DEFINE c == at[n]  b == begun[c][n]  s == stream[c][n]
    <3>1. Writes(n, c, b, s)
      BY <2>4, WriteEffect, Zenon
    <3> HIDE DEF c, b, s
    <3>2. /\ In(n, "send")
          /\ \/ call'[n].op = "send" /\ Body(n)' = Body(n)
             \/ call'[n] = Sent(TRUE)
      BY <3>1, Zenon DEF Writes
    <3>3. \/ call'[n].op = "send" /\ Body(n)' = Body(n)
          \/ call'[n].op = "sent"
      <4>1. Sent(TRUE).op = "sent"
        BY Zenon DEF Sent
      <4> QED
        BY <3>2, <4>1, Zenon
    <3>4. /\ In(Caller, "send") /\ ~In(Caller, "recv")' /\ ~In(Caller, "got")'
          /\ In(Caller, "send")' => Body(Caller)' = Body(Caller)
      BY <2>4, <3>2, <3>3, Zenon DEF In
    <3> QED
      BY <1>3, <2>2, <3>4, Zenon DEF Ids, Busy
  <2>5. CASE n = Caller /\ (SendFails(n) \/ RecvFails(n) \/ read_exact(n))
    <3>1. \/ In(n, "send") /\ call' = [call EXCEPT ![n] = Sent(FALSE)]
          \/ /\ In(n, "recv")
             /\ \/ call' = [call EXCEPT ![n] = Got(NoPacket)]
                \/ ReadPrefix(n, Head(stream[at[n]][Other(n)]))
                \/ ReadBody(n, Head(stream[at[n]][Other(n)]))
      BY <2>5, Zenon DEF SendFails, RecvFails, read_exact
    <3>2. \/ In(n, "send") /\ call' = [call EXCEPT ![n] = Sent(FALSE)]
          \/ In(n, "recv") /\ \E pkt : call' = [call EXCEPT ![n] = Got(pkt)]
          \/ In(n, "recv") /\ \E length : call' = [call EXCEPT ![n] = Receiving(length)]
      BY <3>1, Zenon DEF ReadPrefix, ReadBody
    <3>3. \/ In(n, "send") /\ call'[n].op = "sent"
          \/ In(n, "recv") /\ call'[n].op \in {"got", "recv"}
      BY <1>1, <3>2 DEF Sent, Got, Receiving
    <3> QED
      BY <1>3, <2>2, <2>5, <3>3, Zenon DEF Ids, Busy, In
  <2>6. CASE n = Listener
    <3>1. \E v : call' = [call EXCEPT ![Listener] = v]
      BY <2>1, <2>6, Zenon DEF CallStep, write_exact, SendFails, RecvFails, read_exact, AfterUnit,
                        ReadPrefix, ReadBody
    <3>2. call'[Caller] = call[Caller]
      BY <1>1, <3>1, Zenon
    <3> QED
      BY <2>3, <3>2, Zenon
  <2> QED
    BY <2>1, <2>4, <2>5, <2>6, Zenon DEF CallStep
<1> QED
  BY <1>4, <1>5, <1>6, <1>7, <1>8, <1>10, <1>11, <1>12, <1>13, Zenon DEF Next, SenderStep

(* Frame number no of a transfer whose offer is frame o.                   *)
Script(o, no) ==
    IF no = o THEN OfferPacket(tx.offer)
    ELSE IF no <= o + tx.offer.count THEN ChunkPacket(no - o - 1)
    ELSE DonePacket

(* What may be on its way: on connection c, from frame o on, what the      *)
(* transfer sends, and elsewhere no offer of this transfer.                *)
Scripted(c, o) ==
    [d \in Conns |->
       {u \in Units :
          \/ IsPrefix(u)
          \/ d = c /\ u.no >= o /\ u.pkt = Script(o, u.no)
          \/ ~(d = c /\ u.no >= o) /\ (u.pkt.type = "OFFER" => u.pkt.offer.id # tx.offer.id)}]

(* The sender still has something to send or to wait for.                  *)
Active == tx.state \in {"OFFERING", "OFFERED", "ACCEPTED"}

(* The frames that the sender takes for sent.                              *)
FramesSent == IF tx.state = "OFFERING" THEN 0 ELSE tx.chunks + 1

(* The frames of the transfer that were begun.                             *)
FramesBegun(c) ==
    IF Mid(c, Caller) \/ call[Caller] = Sent(TRUE) THEN FramesSent + 1 ELSE FramesSent

(* What the sender has begun is the start of the script, and the packet    *)
(* being sent is the frame that comes next.                                *)
Sender(c, o) ==
    Active =>
       /\ at[Caller] = c /\ tx.chunks <= tx.offer.count
       /\ tx.state # "ACCEPTED" => tx.chunks = 0
       /\ begun[c][Caller] + 1 = o + FramesBegun(c)
       /\ In(Caller, "send") => Body(Caller) = Script(o, o + FramesSent)

(* The number of the last frame that the receiver has dealt with.          *)
Handled(c) == IF Returned(Listener) THEN last[c][Caller] - 1 ELSE last[c][Caller]

Least(a, b) == IF a <= b THEN a ELSE b

(* The receiver follows the script: it has written the chunks of the       *)
(* frames that it dealt with, in order, and nothing else.                  *)
Receiver(c, o) ==
    rx.offer.id = tx.offer.id =>
       /\ at[Listener] = c /\ Handled(c) >= o /\ rx.offer = tx.offer
       /\ rx.state \in {"RECEIVING", "DONE"}
       /\ rx.state = "RECEIVING" =>
             /\ rx.chunks = Handled(c) - o /\ rx.chunks <= tx.offer.count
             /\ rx.saved = SubSeq(file, 1, Least(rx.chunks * ChunkSize, tx.offer.size))

(* The offer describes the file as it is.                                  *)
Offered ==
    /\ tx.offer.size = Len(file) /\ tx.offer.count = ChunkCount(Len(file))
    /\ tx.offer.sha256 = file

(* A transfer on connection c whose offer is frame o, which nothing has    *)
(* disturbed.                                                              *)
Faithful(c, o) ==
    ~cut[c][Caller] /\ Offered /\ Within(Scripted(c, o)) /\ Sender(c, o) /\ Receiver(c, o)

(* The inductive invariant of the transfer: while nothing disturbs it, it  *)
(* is a faithful one.                                                      *)
TransferInv ==
    /\ Ids /\ Busy
    /\ offers > 0 /\ ~disturbed => \E c \in Conns, o \in Nat \ {0} : Faithful(c, o)

(* The fields of the two offers that are compared are numbers.             *)
LEMMA OfferFacts ==
    ASSUME MediaOK
    PROVE  /\ tx.offer.id \in Nat /\ tx.offer.size \in Nat /\ tx.offer.count \in Nat
           /\ rx.offer.id \in Nat /\ tx.chunks \in Nat /\ rx.chunks \in Nat
           /\ FramesSent \in Nat
<1>1. /\ tx.offer \in Offers \cup {NoOffer} /\ rx.offer \in Offers \cup {NoOffer}
      /\ tx.chunks \in Nat /\ rx.chunks \in Nat
  BY Zenon DEF MediaOK
<1> QED
  BY <1>1 DEF Offers, NoOffer, FramesSent

(* What nothing but a new offer changes in a transfer that is undisturbed. *)
LEMMA StaticStep ==
    ASSUME TransportInv, MediaOK, [Next]_vars, ~disturbed',
           ~\E content \in Files : koe_media_offer_build(content)
    PROVE  /\ tx'.offer = tx.offer /\ file' = file /\ offers' = offers /\ ~disturbed
           /\ \A c \in Conns : ~cut[c][Caller] => ~cut'[c][Caller]
<1> USE NodeFacts
<1>1. /\ tx \in [state : TxStates, offer : Offers \cup {NoOffer}, chunks : Nat]
      /\ disturbed \in BOOLEAN
  BY Zenon DEF MediaOK
<1>2. CASE SenderStep
  <2>1. UNCHANGED <<file, offers, disturbed, cut>>
    BY <1>2, Zenon DEF SenderStep, koe_media_chunk_build, koe_media_done_build,
                PacketSent, PacketNotSent, OfferAgain, WaitForAck, AckArrives,
                koe_transport_send, koe_transport_recv, streamVars, mediaVars
  <2>2. \/ tx' = tx
        \/ \E st : tx' = [tx EXCEPT !.state = st]
        \/ tx' = [tx EXCEPT !.chunks = @ + 1]
    BY <1>2, Zenon DEF SenderStep, koe_media_chunk_build, koe_media_done_build,
                PacketSent, PacketNotSent, OfferAgain, WaitForAck, AckArrives, mediaVars
  <2>3. tx'.offer = tx.offer
    BY <1>1, <2>2, Zenon
  <2> QED
    BY <2>1, <2>3, Zenon
<1>3. CASE ReceiverStep
  <2>1. UNCHANGED <<file, offers, tx, cut>>
    BY <1>3, Zenon DEF ReceiverStep, WaitForPacket, koe_media_accept_build,
                koe_media_reject_build, AnswerSent, koe_media_chunk_receive,
                ChunkNotWritten, koe_media_finalise, PassOver, koe_transport_recv,
                streamVars, mediaVars
  <2>2. disturbed' = disturbed \/ disturbed' = TRUE \/ disturbed' = (disturbed \/ ~call[Listener].ok)
    BY <1>3, Zenon DEF ReceiverStep, WaitForPacket, koe_media_accept_build,
                koe_media_reject_build, AnswerSent, koe_media_chunk_receive,
                ChunkNotWritten, koe_media_finalise, PassOver, mediaVars
  <2>3. ~disturbed
    BY <1>1, <2>2, Zenon
  <2> QED
    BY <2>1, <2>3, Zenon
<1>4. CASE Connect
  BY <1>4, Zenon DEF Connect, koe_transport_connect, koe_transport_accept, streamVars, mediaVars
<1>5. CASE \E n \in Nodes : Disconnect(n)
  <2>1. PICK n \in Nodes : Disconnect(n)
    BY <1>5, Zenon
  <2>2. /\ at[n] # 0 /\ UNCHANGED <<file, offers, tx>>
        /\ \/ cut' = cut
           \/ cut' = [cut EXCEPT ![at[n]] = [m \in Nodes |-> FALSE]]
           \/ cut' = [cut EXCEPT ![at[n]] = @]
    BY <2>1, Zenon DEF Disconnect, koe_transport_disconnect
  <2>3. ~disturbed
    BY <1>1, <2>1, Zenon DEF Disconnect
  <2>4. at[n] \in Conns /\ cut \in [Conns -> [Nodes -> BOOLEAN]]
    BY <2>2, AtConn, Zenon DEF TransportInv, StreamOK
  <2>5. \A c \in Conns : ~cut[c][Caller] => ~cut'[c][Caller]
    BY <2>2, <2>4
  <2> QED
    BY <2>2, <2>3, <2>5, Zenon
<1>6. CASE \E n \in Nodes : Step(n)
  <2>1. PICK n \in Nodes : Step(n)
    BY <1>6, Zenon
  <2>2. cut' = cut /\ ~disturbed
    BY <1>1, <2>1, Zenon DEF Step
  <2> QED
    BY <2>1, <2>2, Zenon DEF Step
<1>7. CASE UNCHANGED vars
  BY <1>7, Zenon DEF vars, transportVars, streamVars, mediaVars
<1>8. ~GiveUp /\ ~(\E content \in Files : FileChanges(content)) /\ ~(\E d \in Conns : Break(d))
  BY Zenon DEF GiveUp, FileChanges, Break
<1> QED
  BY <1>2, <1>3, <1>4, <1>5, <1>6, <1>7, <1>8, Zenon DEF Next

(* The packet being sent is the one that comes next.                       *)
LEMMA ScriptAccepted ==
    ASSUME TransportInv, MediaOK, Busy, NEW c \in Conns, NEW o \in Nat, Sender(c, o)
    PROVE  Admits(Scripted(c, o))
<1>1. \A d \in Conns, no \in Nat : [no |-> no] \in Scripted(c, o)[d]
  BY UnitFacts, Zenon DEF Scripted
<1>2. ASSUME Mid(at[Caller], Caller)
      PROVE  [pkt |-> Body(Caller), no |-> begun[at[Caller]][Caller]]
                \in Scripted(c, o)[at[Caller]]
  <2> DEFINE b == begun[at[Caller]][Caller]
             u == [pkt |-> Body(Caller), no |-> b]
  <2>1. In(Caller, "send")
    BY <1>2, Zenon DEF Mid
  <2>2. at[Caller] \in Conns /\ Body(Caller) \in AnyPacket
    BY <2>1, SendFacts, NodeFacts, Zenon
  <2>3. b \in Nat
    BY <2>2, NodeFacts DEF TransportInv, StreamOK
  <2>4. Active
    BY <2>1, Zenon DEF Busy, Active
  <2>5. at[Caller] = c /\ Mid(c, Caller) /\ FramesBegun(c) = FramesSent + 1
    BY <1>2, <2>4, Zenon DEF Sender, FramesBegun
  <2>6. b + 1 = o + (FramesSent + 1) /\ FramesSent \in Nat
    BY <2>4, <2>5, OfferFacts, Zenon DEF Sender
  <2>7. b = o + FramesSent /\ b >= o
    BY <2>3, <2>6
  <2>8. Body(Caller) = Script(o, b)
    BY <2>1, <2>4, <2>7, Zenon DEF Sender
  <2>9. u \in Units /\ u.no = b /\ u.pkt = Body(Caller)
    BY <2>2, <2>3, UnitFacts, Zenon
  <2> HIDE DEF u, b
  <2>10. u \in Scripted(c, o)[at[Caller]]
    BY <2>2, <2>5, <2>7, <2>8, <2>9, Zenon DEF Scripted
  <2> QED
    BY <2>10, Zenon DEF u, b
<1> QED
  BY <1>1, <1>2, Zenon DEF Admits

(* The frames of a transfer depend only on its offer and on the file.      *)
LEMMA ScriptSame ==
    ASSUME tx'.offer = tx.offer, file' = file
    PROVE  /\ \A o, no : Script(o, no)' = Script(o, no)
           /\ \A c, o : Scripted(c, o)' = Scripted(c, o)
           /\ Offered' = Offered
<1>1. \A i : ChunkPacket(i)' = ChunkPacket(i)
  BY Zenon DEF ChunkPacket, ChunkLen
<1>2. \A o, no : Script(o, no)' = Script(o, no)
  BY <1>1, Zenon DEF Script
<1>3. \A c, o : Scripted(c, o)' = Scripted(c, o)
  BY <1>2 DEF Scripted
<1> QED
  BY <1>2, <1>3, Zenon DEF Offered

(* Nothing happens to the sender.                                          *)
LEMMA SenderSame ==
    ASSUME NEW c, NEW o, Sender(c, o), tx' = tx, file' = file,
           at'[Caller] = at[Caller], call'[Caller] = call[Caller],
           begun'[c][Caller] = begun[c][Caller]
    PROVE  Sender(c, o)'
<1>1. Script(o, o + FramesSent)' = Script(o, o + FramesSent)
  <2>1. FramesSent' = FramesSent
    BY Zenon DEF FramesSent
  <2> QED
    BY <2>1, ScriptSame, Zenon
<1>2. /\ FramesBegun(c)' = FramesBegun(c) /\ Body(Caller)' = Body(Caller)
      /\ In(Caller, "send")' = In(Caller, "send") /\ Active' = Active
  BY Zenon DEF FramesBegun, FramesSent, Mid, Body, In, Active
<1> QED
  BY <1>1, <1>2, Zenon DEF Sender

(* Every frame that the sender of an undisturbed transfer begins is the    *)
(* next one of its script: offer, chunks in order, DONE.                   *)
LEMMA SenderKeeps ==
    ASSUME TransportInv, MediaOK, Busy, NEW c \in Conns, NEW o \in Nat, Sender(c, o),
           ~cut[c][Caller], [Next]_vars, ~disturbed',
           ~\E content \in Files : koe_media_offer_build(content)
    PROVE  Sender(c, o)'
<1> USE NodeFacts
<1>1. /\ tx'.offer = tx.offer /\ file' = file /\ Caller # Listener /\ DOMAIN call = Nodes
      /\ c \in Nat /\ c # 0 /\ CallOK(Caller) /\ StreamOK /\ at \in [Nodes -> Nat]
      /\ tx \in [state : TxStates, offer : Offers \cup {NoOffer}, chunks : Nat]
  <2>1. tx'.offer = tx.offer /\ file' = file /\ Caller # Listener
    BY StaticStep, Zenon
  <2>2. DOMAIN call = Nodes /\ CallOK(Caller) /\ StreamOK /\ at \in [Nodes -> Nat]
    BY Zenon DEF TransportInv, ConnOK
  <2>3. c \in Nat /\ c # 0
    BY DEF Conns
  <2> QED
    BY <2>1, <2>2, <2>3, Zenon DEF MediaOK
<1>2. /\ \A no : Script(o, no)' = Script(o, no)
  BY <1>1, ScriptSame, Zenon
<1>3. /\ tx.chunks \in Nat /\ tx.offer.count \in Nat /\ FramesSent \in Nat
      /\ begun[c][Caller] \in Nat
  BY <1>1, OfferFacts DEF StreamOK
<1>4. ASSUME call[Caller].op \notin {"send", "sent"} PROVE FramesBegun(c) = FramesSent
  BY <1>4 DEF FramesBegun, Mid, In, Sent
<1>5. ASSUME call'[Caller].op \notin {"send", "sent"}
      PROVE  FramesBegun(c)' = FramesSent' /\ ~In(Caller, "send")'
  BY <1>5 DEF FramesBegun, Mid, In, Sent
<1>6. /\ Idle.op = "none" /\ Sent(TRUE).op = "sent"
      /\ \A x : Receiving(x).op = "recv" /\ Got(x).op = "got"
  BY Zenon DEF Idle, Sent, Receiving, Got
<1>7. ASSUME tx' = tx, at' = at, begun' = begun,
             call[Caller].op \notin {"send", "sent"}, call'[Caller].op \notin {"send", "sent"}
      PROVE  Sender(c, o)'
  BY <1>1, <1>4, <1>5, <1>7, Zenon DEF Sender, Active, FramesSent
<1>8. CASE koe_media_chunk_build \/ koe_media_done_build \/ OfferAgain
  <2>1. /\ tx' = tx /\ Active
        /\ \/ /\ tx.state = "ACCEPTED" /\ tx.chunks < tx.offer.count
              /\ koe_transport_send(Caller, ChunkPacket(tx.chunks))
           \/ /\ tx.state = "ACCEPTED" /\ tx.chunks = tx.offer.count
              /\ koe_transport_send(Caller, DonePacket)
           \/ /\ tx.state = "OFFERING" /\ koe_transport_send(Caller, OfferPacket(tx.offer))
    BY <1>8, Zenon DEF koe_media_chunk_build, koe_media_done_build, OfferAgain, mediaVars, Active
  <2>2. koe_transport_send(Caller, Script(o, o + FramesSent))
    <3>1. CASE /\ tx.state = "ACCEPTED" /\ tx.chunks < tx.offer.count
               /\ koe_transport_send(Caller, ChunkPacket(tx.chunks))
      <4>1. FramesSent = tx.chunks + 1
        BY <3>1, Zenon DEF FramesSent
      <4> DEFINE no == o + FramesSent
      <4>2. no # o /\ no <= o + tx.offer.count /\ no - o - 1 = tx.chunks
        BY <1>3, <3>1, <4>1
      <4> HIDE DEF no
      <4>3. Script(o, no) = ChunkPacket(no - o - 1)
        BY <4>2, Zenon DEF Script
      <4>4. Script(o, no) = ChunkPacket(tx.chunks)
        BY <4>2, <4>3, Zenon
      <4> QED
        BY <3>1, <4>4, Zenon DEF no
    <3>2. CASE /\ tx.state = "ACCEPTED" /\ tx.chunks = tx.offer.count
               /\ koe_transport_send(Caller, DonePacket)
      <4>1. FramesSent = tx.chunks + 1
        BY <3>2, Zenon DEF FramesSent
      <4>2. /\ o + FramesSent # o /\ ~(o + FramesSent <= o + tx.offer.count)
        BY <1>3, <3>2, <4>1
      <4> QED
        BY <3>2, <4>2, Zenon DEF Script
    <3>3. CASE tx.state = "OFFERING" /\ koe_transport_send(Caller, OfferPacket(tx.offer))
      <4>1. o + FramesSent = o
        BY <3>3 DEF FramesSent
      <4> QED
        BY <3>3, <4>1, Zenon DEF Script
    <3> QED
      BY <2>1, <3>1, <3>2, <3>3, Zenon
  <2> DEFINE pkt == Script(o, o + FramesSent)
  <2>3. /\ Body(Caller)' = pkt /\ In(Caller, "send")' /\ ~In(Caller, "sent")'
        /\ Len(call'[Caller].units) = 2 /\ call[Caller] = Idle
        /\ at' = at /\ begun' = begun
    BY <2>2, SendBegins, Zenon
  <2> HIDE DEF pkt
  <2>4. FramesSent' = FramesSent /\ FramesBegun(c) = FramesSent
    BY <1>4, <1>6, <2>1, <2>3, Zenon DEF FramesSent
  <2>5. FramesBegun(c)' = FramesSent'
    <3>1. Len(call'[Caller].units) # 1
      BY <2>3
    <3>2. ~Mid(c, Caller)'
      BY <3>1, Zenon DEF Mid
    <3>3. call'[Caller] # Sent(TRUE)
      BY <1>6, <2>3, Zenon DEF In
    <3> QED
      BY <3>2, <3>3, Zenon DEF FramesBegun
  <2>6. Script(o, o + FramesSent)' = pkt
    BY <1>2, <2>4, Zenon DEF pkt
  <2> QED
    BY <2>1, <2>3, <2>4, <2>5, <2>6, Zenon DEF Sender, Active
<1>9. CASE PacketSent
  <2>1. /\ call[Caller] = Sent(TRUE) /\ call' = [call EXCEPT ![Caller] = Idle]
        /\ at' = at /\ begun' = begun
        /\ \/ tx.state = "OFFERING" /\ tx' = [tx EXCEPT !.state = "OFFERED"]
           \/ /\ tx.state = "ACCEPTED" /\ tx.chunks < tx.offer.count
              /\ tx' = [tx EXCEPT !.chunks = @ + 1]
           \/ tx' = [tx EXCEPT !.state = "DONE"]
    BY <1>9, Zenon DEF PacketSent, connVars, streamVars
  <2>2. call'[Caller] = Idle /\ FramesBegun(c) = FramesSent + 1
    BY <1>1, <2>1, Zenon DEF FramesBegun
  <2>3. FramesBegun(c)' = FramesSent' /\ ~In(Caller, "send")'
    BY <1>5, <1>6, <2>2, Zenon
  <2>4. CASE tx.state = "OFFERING" /\ tx' = [tx EXCEPT !.state = "OFFERED"]
    <3>1. tx'.state = "OFFERED" /\ tx'.chunks = tx.chunks
      BY <1>1, <2>4, Zenon
    <3>2. /\ at[Caller] = c /\ tx.chunks = 0 /\ tx.chunks <= tx.offer.count
          /\ begun[c][Caller] + 1 = o + (FramesSent + 1) /\ FramesSent = 0
      BY <2>2, <2>4, Zenon DEF Sender, Active, FramesSent
    <3>3. FramesSent' = 1
      BY <3>1, <3>2 DEF FramesSent
    <3> QED
      BY <1>1, <2>1, <2>3, <3>1, <3>2, <3>3 DEF Sender
  <2>5. CASE /\ tx.state = "ACCEPTED" /\ tx.chunks < tx.offer.count
             /\ tx' = [tx EXCEPT !.chunks = @ + 1]
    <3>1. tx'.state = "ACCEPTED" /\ tx'.chunks = tx.chunks + 1
      BY <1>1, <2>5, Zenon
    <3>2. /\ at[Caller] = c /\ FramesSent = tx.chunks + 1
          /\ begun[c][Caller] + 1 = o + (FramesSent + 1)
      BY <2>2, <2>5, Zenon DEF Sender, Active, FramesSent
    <3>3. FramesSent' = FramesSent + 1 /\ tx.chunks + 1 <= tx.offer.count
      BY <1>3, <2>5, <3>1, <3>2 DEF FramesSent
    <3> QED
      BY <1>1, <2>1, <2>3, <3>1, <3>2, <3>3, Zenon DEF Sender
  <2>6. CASE tx' = [tx EXCEPT !.state = "DONE"]
    <3>1. tx'.state = "DONE"
      BY <1>1, <2>6, Zenon
    <3> QED
      BY <3>1, Zenon DEF Sender, Active
  <2> QED
    BY <2>1, <2>4, <2>5, <2>6, Zenon
<1>10. CASE PacketNotSent
  <2>1. /\ call[Caller] = Sent(FALSE) /\ call' = [call EXCEPT ![Caller] = Idle]
        /\ at' = at /\ begun' = begun /\ tx' = tx
    BY <1>10, Zenon DEF PacketNotSent, connVars, streamVars, mediaVars
  <2>2. call'[Caller] = Idle
    BY <1>1, <2>1, Zenon
  <2>3. FramesBegun(c)' = FramesSent' /\ ~In(Caller, "send")'
    BY <1>5, <1>6, <2>2, Zenon
  <2>4. FramesBegun(c) = FramesSent
    BY <2>1 DEF FramesBegun, Mid, In, Sent
  <2> QED
    BY <2>1, <2>3, <2>4, Zenon DEF Sender, Active, FramesSent
<1>11. CASE WaitForAck
  <2>1. /\ call[Caller] = Idle /\ call' = [call EXCEPT ![Caller] = Receiving(None)]
        /\ at' = at /\ begun' = begun /\ tx' = tx
    BY <1>11, Zenon DEF WaitForAck, koe_transport_recv, connVars, streamVars, mediaVars
  <2>2. call'[Caller] = Receiving(None)
    BY <1>1, <2>1, Zenon
  <2> QED
    BY <1>6, <1>7, <2>1, <2>2, Zenon
<1>12. CASE AckArrives
  <2>1. /\ In(Caller, "got") /\ call' = [call EXCEPT ![Caller] = Idle]
        /\ at' = at /\ begun' = begun
        /\ \/ tx' = tx
           \/ tx' = [tx EXCEPT !.state = "ACCEPTED"]
           \/ tx' = [tx EXCEPT !.state = "REJECTED"]
    BY <1>12, Zenon DEF AckArrives, connVars, streamVars
  <2>2. call'[Caller] = Idle /\ tx.state = "OFFERED" /\ call[Caller].op = "got"
    BY <1>1, <2>1, Zenon DEF Busy, In
  <2>3. CASE tx' = tx
    BY <1>6, <1>7, <2>1, <2>2, <2>3, Zenon
  <2>4. CASE tx' = [tx EXCEPT !.state = "REJECTED"]
    <3>1. tx'.state = "REJECTED"
      BY <1>1, <2>4, Zenon
    <3> QED
      BY <3>1, Zenon DEF Sender, Active
  <2>5. CASE tx' = [tx EXCEPT !.state = "ACCEPTED"]
    <3>1. tx'.state = "ACCEPTED" /\ tx'.chunks = tx.chunks
      BY <1>1, <2>5, Zenon
    <3>2. FramesSent' = FramesSent
      BY <2>2, <3>1, Zenon DEF FramesSent
    <3>3. FramesBegun(c) = FramesSent /\ FramesBegun(c)' = FramesSent' /\ ~In(Caller, "send")'
      BY <1>4, <1>5, <1>6, <2>2, Zenon
    <3> QED
      BY <1>1, <2>1, <2>2, <3>1, <3>2, <3>3, Zenon DEF Sender, Active
  <2> QED
    BY <2>1, <2>3, <2>4, <2>5, Zenon
<1>13. CASE ReceiverStep
  <2>1. UNCHANGED <<at, begun, tx>> /\ \E v : call' = [call EXCEPT ![Listener] = v]
    <3>1. UNCHANGED <<at, begun, tx>>
      BY <1>13, Zenon DEF ReceiverStep, WaitForPacket, koe_media_accept_build,
                   koe_media_reject_build, AnswerSent, koe_media_chunk_receive,
                   ChunkNotWritten, koe_media_finalise, PassOver, koe_transport_recv,
                   connVars, streamVars, mediaVars
    <3>2. \E v : call' = [call EXCEPT ![Listener] = v]
      BY <1>13, Zenon DEF ReceiverStep, WaitForPacket, koe_media_accept_build,
                   koe_media_reject_build, AnswerSent, koe_media_chunk_receive,
                   ChunkNotWritten, koe_media_finalise, PassOver, Answer, koe_transport_recv
    <3> QED
      BY <3>1, <3>2, Zenon
  <2>2. call'[Caller] = call[Caller]
    BY <1>1, <2>1, Zenon
  <2> QED
    BY <1>1, <2>1, <2>2, SenderSame, Zenon
<1>14. CASE Connect
  <2>1. tx' = tx /\ UNCHANGED <<begun, call>>
    BY <1>14, Zenon DEF Connect, koe_transport_connect, koe_transport_accept, streamVars, mediaVars
  <2>2. CASE at'[Caller] = at[Caller]
    BY <1>1, <2>1, <2>2, SenderSame, Zenon
  <2>3. CASE at'[Caller] # at[Caller]
    <3>1. at[Caller] = 0
      BY <1>1, <1>14, <2>3, Zenon DEF Connect, koe_transport_connect, koe_transport_accept
    <3>2. ~Active'
      BY <1>1, <2>1, <3>1, Zenon DEF Sender, Active
    <3> QED
      BY <3>2, Zenon DEF Sender
  <2> QED
    BY <2>2, <2>3, Zenon
<1>15. CASE \E n \in Nodes : Disconnect(n)
  <2>1. tx' = tx /\ tx.state = "DONE"
    BY <1>15, Zenon DEF Disconnect
  <2> QED
    BY <2>1, Zenon DEF Sender, Active
<1>16. CASE \E n \in Nodes : Step(n)
  <2>1. PICK n \in Nodes : CallStep(n)
    BY <1>16, Zenon DEF Step
  <2>2. tx' = tx /\ cut' = cut
    BY <1>16, Zenon DEF Step
  <2>3. CASE n = Listener
    <3>1. call'[Caller] = call[Caller] /\ at' = at /\ begun'[c][Caller] = begun[c][Caller]
      <4>1. CASE write_exact(n)
        <5> DEFINE d == at[n]  b == begun[d][n]  s == stream[d][n]
        <5>1. Writes(n, d, b, s)
          BY <4>1, WriteEffect, Zenon
        <5> HIDE DEF d, b, s
        <5>2. /\ \A e \in Conns, w \in Nodes : e # d \/ w # n => begun'[e][w] = begun[e][w]
              /\ \A m \in Nodes : m # n => call'[m] = call[m]
              /\ at' = at
          BY <5>1, Zenon DEF Writes
        <5>3. Caller # n
          BY <1>1, <2>3, Zenon
        <5> QED
          BY <5>2, <5>3, Zenon
      <4>2. CASE SendFails(n) \/ RecvFails(n) \/ read_exact(n)
        <5>1. at' = at /\ begun' = begun /\ \E v : call' = [call EXCEPT ![n] = v]
          BY <4>2, Zenon DEF SendFails, RecvFails, read_exact, ReadPrefix, ReadBody, connVars
        <5> QED
          BY <1>1, <2>3, <5>1, Zenon
      <4> QED
        BY <2>1, <4>1, <4>2, Zenon DEF CallStep
    <3> QED
      BY <1>1, <2>2, <3>1, SenderSame, Zenon
  <2>4. CASE n = Caller /\ write_exact(n)
    <3> DEFINE d == at[n]  b == begun[d][n]  s == stream[d][n]
    <3>1. Writes(n, d, b, s)
      BY <2>4, WriteEffect, Zenon
    <3>2. In(Caller, "send") /\ Active
      BY <2>4, <3>1, Zenon DEF Writes, Busy, Active
    <3>3. d = c /\ begun[c][Caller] + 1 = o + FramesBegun(c) /\ b = begun[c][Caller]
          /\ Body(Caller) = Script(o, o + FramesSent)
      BY <2>4, <3>2, Zenon DEF Sender
    <3>4. /\ at' = at
          /\ \/ /\ ~Mid(c, Caller) /\ Mid(c, Caller)' /\ Body(Caller)' = Body(Caller)
                /\ begun'[c][Caller] = begun[c][Caller] + 1
             \/ /\ Mid(c, Caller) /\ call'[Caller] = Sent(TRUE)
                /\ begun'[c][Caller] = begun[c][Caller]
      <4>1. Writes(Caller, c, begun[c][Caller], stream[c][Caller])
        BY <2>4, <3>1, <3>3, Zenon
      <4> QED
        BY <4>1, Zenon DEF Writes
    <3> HIDE DEF d, b, s
    <3>5. FramesSent' = FramesSent /\ Active' = Active
      BY <2>2, Zenon DEF FramesSent, Active
    <3>6. Script(o, o + FramesSent)' = Script(o, o + FramesSent)
      BY <1>2, <3>5, Zenon
    <3>7. FramesBegun(c)' = FramesSent + 1
      BY <3>4, <3>5, Zenon DEF FramesBegun
    <3>8. call[Caller] # Sent(TRUE)
      BY <1>6, <3>2, Zenon DEF In
    <3>9. begun'[c][Caller] + 1 = o + (FramesSent + 1)
      <4>1. CASE Mid(c, Caller)
        <5>1. FramesBegun(c) = FramesSent + 1
          BY <4>1, Zenon DEF FramesBegun
        <5> QED
          BY <3>3, <3>4, <4>1, <5>1, Zenon
      <4>2. CASE ~Mid(c, Caller)
        <5>1. FramesBegun(c) = FramesSent
          BY <3>8, <4>2, Zenon DEF FramesBegun
        <5>2. begun[c][Caller] + 1 = o + FramesSent
          BY <3>3, <5>1, Zenon
        <5>3. begun'[c][Caller] = begun[c][Caller] + 1
          BY <3>4, <4>2, Zenon
        <5> QED
          BY <1>3, <5>2, <5>3
      <4> QED
        BY <4>1, <4>2, Zenon
    <3>10. In(Caller, "send")' => Body(Caller)' = Body(Caller)
      BY <3>4 DEF In, Sent
    <3> QED
      BY <2>2, <3>2, <3>3, <3>4, <3>5, <3>6, <3>7, <3>9, <3>10, Zenon DEF Sender
  <2>5. CASE n = Caller /\ SendFails(n)
    <3>1. /\ In(Caller, "send") /\ call' = [call EXCEPT ![Caller] = Sent(FALSE)]
          /\ at' = at /\ begun' = begun
          /\ cut' = [cut EXCEPT ![at[Caller]][Caller] = @ \/ Len(call[Caller].units) < 2]
      BY <2>5, Zenon DEF SendFails, connVars
    <3>2. Active /\ at[Caller] = c
      BY <3>1, Zenon DEF Busy, Active, Sender
    <3>3. ~(Len(call[Caller].units) < 2)
      <4>1. cut \in [Conns -> [Nodes -> BOOLEAN]]
        BY <1>1, Zenon DEF StreamOK
      <4>2. cut'[c][Caller] = (cut[c][Caller] \/ Len(call[Caller].units) < 2)
        BY <3>1, <3>2, <4>1, Zenon
      <4> QED
        BY <2>2, <4>2, Zenon
    <3>4. FramesBegun(c) = FramesSent
      <4>1. ~Mid(c, Caller)
        <5>1. ASSUME Len(call[Caller].units) = 1 PROVE FALSE
          <6>1. (Len(call[Caller].units) < 2) = TRUE
            BY <5>1
          <6> QED
            BY <3>3, <6>1, Zenon
        <5> QED
          BY <5>1, Zenon DEF Mid
      <4>2. call[Caller] # Sent(TRUE)
        BY <3>1 DEF In, Sent
      <4> QED
        BY <4>1, <4>2, Zenon DEF FramesBegun
    <3>5. call'[Caller] = Sent(FALSE)
      BY <1>1, <3>1, Zenon
    <3>6. FramesBegun(c)' = FramesSent' /\ ~In(Caller, "send")'
      <4>1. Sent(FALSE).op = "sent" /\ Sent(FALSE) # Sent(TRUE)
        BY Zenon DEF Sent
      <4>2. ~In(Caller, "send")'
        BY <3>5, <4>1, Zenon DEF In
      <4>3. ~Mid(c, Caller)'
        BY <4>2, Zenon DEF Mid
      <4> QED
        BY <3>5, <4>1, <4>2, <4>3, Zenon DEF FramesBegun
    <3> QED
      BY <2>2, <3>1, <3>2, <3>4, <3>6, Zenon DEF Sender, Active, FramesSent
  <2>6. CASE n = Caller /\ (RecvFails(n) \/ read_exact(n))
    <3>1. at' = at /\ begun' = begun /\ In(n, "recv")
      BY <2>6, Zenon DEF RecvFails, read_exact, connVars
    <3>2. \E x : call' = [call EXCEPT ![n] = Got(x)] \/ call' = [call EXCEPT ![n] = Receiving(x)]
      BY <2>6, Zenon DEF RecvFails, read_exact, ReadPrefix, ReadBody
    <3>3. call'[Caller].op \in {"got", "recv"}
      BY <1>1, <1>6, <2>6, <3>2
    <3> QED
      BY <1>7, <2>2, <2>6, <3>1, <3>3, Zenon DEF In
  <2> QED
    BY <2>1, <2>3, <2>4, <2>5, <2>6, Zenon DEF CallStep
<1>17. CASE UNCHANGED vars
  BY <1>17, SenderSame, Zenon DEF vars, transportVars, connVars, streamVars, mediaVars
<1>18. ~GiveUp /\ ~(\E content \in Files : FileChanges(content)) /\ ~(\E d \in Conns : Break(d))
  BY Zenon DEF GiveUp, FileChanges, Break
<1> QED
  BY <1>8, <1>9, <1>10, <1>11, <1>12, <1>13, <1>14, <1>15, <1>16, <1>17, <1>18, Zenon
     DEF Next, SenderStep

=============================================================================
