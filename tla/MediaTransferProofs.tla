------------------------ MODULE MediaTransferProofs -------------------------
(***************************************************************************)
(* What the receiver of a file has at every moment of a transfer and when  *)
(* it refuses the last packet, for any files, chunk sizes, connections and *)
(* offers.  The packets of an offer arrive in the order of its script      *)
(* because frames stay frames (WireProofs) and the sender follows the      *)
(* script (SenderProofs).                                                  *)
(***************************************************************************)
EXTENDS SenderProofs

(* No part of a sequence.                                                  *)
LEMMA SubSeqEmpty ==
    ASSUME NEW s, NEW a \in Int, NEW b \in Int, b < a
    PROVE  SubSeq(s, a, b) = << >>
OBVIOUS

(* All of a sequence.                                                      *)
LEMMA SubSeqFull ==
    ASSUME NEW S, NEW s \in Seq(S)
    PROVE  SubSeq(s, 1, Len(s)) = s
OBVIOUS

(* Two parts of a sequence that are adjacent.                              *)
LEMMA ConcatAdjacentSubSeq ==
    ASSUME NEW S, NEW s \in Seq(S), NEW a \in 1..(Len(s) + 1),
           NEW k \in (a - 1)..Len(s), NEW b \in k..Len(s)
    PROVE  SubSeq(s, a, k) \o SubSeq(s, k + 1, b) = SubSeq(s, a, b)
OBVIOUS

(* The type of a frame tells its place in the transfer.                    *)
LEMMA ScriptTypes ==
    ASSUME NEW o, NEW no
    PROVE  /\ no = o => Script(o, no) = OfferPacket(tx.offer)
           /\ Script(o, no).type \in {"OFFER", "CHUNK", "DONE"}
           /\ Script(o, no).type = "OFFER" => no = o
           /\ Script(o, no).type = "CHUNK" =>
                 /\ no <= o + tx.offer.count /\ Script(o, no) = ChunkPacket(no - o - 1)
           /\ Script(o, no).type = "DONE" => ~(no <= o + tx.offer.count)
<1>1. /\ OfferPacket(tx.offer).type = "OFFER" /\ DonePacket.type = "DONE"
      /\ ChunkPacket(no - o - 1).type = "CHUNK"
  BY Zenon DEF OfferPacket, DonePacket, ChunkPacket
<1> QED
  BY <1>1, Zenon DEF Script

(* The packet that koe_transport_recv returned to the receiver.            *)
LEMMA ScriptReturned ==
    ASSUME TransportInv, NEW c \in Conns, NEW o \in Nat, Within(Scripted(c, o)),
           Returned(Listener)
    PROVE  /\ at[Listener] = c /\ last[c][Caller] >= o =>
                 call[Listener].pkt = Script(o, last[c][Caller])
           /\ ~(at[Listener] = c /\ last[c][Caller] >= o) =>
                 (call[Listener].pkt.type = "OFFER" => call[Listener].pkt.offer.id # tx.offer.id)
<1> DEFINE d == at[Listener]  pkt == call[Listener].pkt  u == [pkt |-> pkt, no |-> last[d][Caller]]
<1>1. d \in Conns
  BY NodeFacts, CallFacts, AtConn, Zenon DEF TransportInv, Returned
<1>2. u \in Scripted(c, o)[d]
  BY Zenon DEF Within
<1>3. ~IsPrefix(u) /\ u.no = last[d][Caller] /\ u.pkt = pkt
  BY Zenon DEF IsPrefix
<1> HIDE DEF u, d, pkt
<1>4. \/ d = c /\ u.no >= o /\ u.pkt = Script(o, u.no)
      \/ ~(d = c /\ u.no >= o) /\ (u.pkt.type = "OFFER" => u.pkt.offer.id # tx.offer.id)
  BY <1>1, <1>2, <1>3, Zenon DEF Scripted
<1>5. \/ d = c /\ last[c][Caller] >= o /\ pkt = Script(o, last[c][Caller])
      \/ ~(d = c /\ last[c][Caller] >= o) /\ (pkt.type = "OFFER" => pkt.offer.id # tx.offer.id)
  BY <1>3, <1>4, Zenon
<1> QED
  BY <1>5, Zenon DEF d, pkt

(* Nothing happens to the receiver.                                        *)
LEMMA ReceiverSame ==
    ASSUME NEW c, NEW o, Receiver(c, o), rx' = rx, tx'.offer = tx.offer, file' = file,
           rx.offer.id = tx.offer.id =>
              at'[Listener] = at[Listener] /\ Handled(c)' = Handled(c)
    PROVE  Receiver(c, o)'
BY Zenon DEF Receiver

(* A chunk goes where it belongs, and after the last one the file is       *)
(* complete.                                                               *)
LEMMA ChunkAppended ==
    ASSUME MediaOK, Offered, NEW i \in Nat
    PROVE  /\ SubSeq(file, 1, Least(0 * ChunkSize, tx.offer.size)) = << >>
           /\ i < tx.offer.count =>
                 SubSeq(file, 1, Least(i * ChunkSize, tx.offer.size)) \o ChunkPacket(i).data
                    = SubSeq(file, 1, Least((i + 1) * ChunkSize, tx.offer.size))
           /\ i = tx.offer.count =>
                 SubSeq(file, 1, Least(i * ChunkSize, tx.offer.size)) = file
<1> DEFINE size == tx.offer.size  a == i * ChunkSize  b == (i + 1) * ChunkSize
<1>1. /\ file \in Seq(Cells) /\ size = Len(file) /\ size \in Nat
      /\ tx.offer.count = ChunkCount(size)
  BY FileFacts, Zenon DEF MediaOK, Offered
<1> HIDE DEF size
<1>2. /\ ChunkSize \in Nat /\ a \in Nat /\ b = a + ChunkSize
      /\ i < tx.offer.count => a < size
      /\ i = tx.offer.count => size <= a
  BY <1>1, ChunkArithmetic, Zenon
<1>3. SubSeq(file, 1, Least(0 * ChunkSize, size)) = << >>
  <2>1. Least(0 * ChunkSize, size) = 0
    BY <1>1, <1>2 DEF Least
  <2>2. SubSeq(file, 1, 0) = << >>
    BY SubSeqEmpty
  <2> QED
    BY <2>1, <2>2, Zenon
<1>4. ASSUME i < tx.offer.count
      PROVE  SubSeq(file, 1, Least(a, size)) \o ChunkPacket(i).data
                = SubSeq(file, 1, Least(b, size))
  <2>1. a < size
    BY <1>2, <1>4, Zenon
  <2>2. ChunkLen(i) = IF size - a < ChunkSize THEN size - a ELSE ChunkSize
    BY Zenon DEF ChunkLen, size, a
  <2> DEFINE e == a + ChunkLen(i)
  <2>3. ChunkPacket(i).data = SubSeq(file, a + 1, e)
    BY Zenon DEF ChunkPacket, a, e
  <2> HIDE DEF a, b
  <2>4. e = Least(b, size) /\ e \in a..Len(file) /\ Least(a, size) = a
    BY <1>1, <1>2, <2>1, <2>2 DEF Least
  <2> HIDE DEF e
  <2>5. 1 \in 1..(Len(file) + 1) /\ a \in (1 - 1)..Len(file)
    BY <1>1, <1>2, <2>1
  <2>6. SubSeq(file, 1, a) \o SubSeq(file, a + 1, e) = SubSeq(file, 1, e)
    BY <1>1, <2>4, <2>5, ConcatAdjacentSubSeq, Zenon
  <2> QED
    BY <2>3, <2>4, <2>6, Zenon
<1>5. ASSUME i = tx.offer.count PROVE SubSeq(file, 1, Least(a, size)) = file
  <2>1. size <= a
    BY <1>2, <1>5, Zenon
  <2> HIDE DEF a
  <2>2. Least(a, size) = Len(file)
    BY <1>1, <1>2, <2>1 DEF Least
  <2> QED
    BY <1>1, <2>2, SubSeqFull, Zenon
<1> QED
  BY <1>3, <1>4, <1>5, Zenon DEF size

(* The receiver of an undisturbed transfer has saved the start of the      *)
(* file, up to the frame that it dealt with last.                          *)
LEMMA ReceiverKeeps ==
    ASSUME TransportInv, MediaOK, Ids, NEW c \in Conns, NEW o \in Nat, Faithful(c, o),
           [Next]_vars, ~disturbed',
           ~\E content \in Files : koe_media_offer_build(content)
    PROVE  Receiver(c, o)'
<1> USE NodeFacts
<1>1. /\ Within(Scripted(c, o)) /\ Receiver(c, o) /\ Offered /\ ~cut[c][Caller]
  BY Zenon DEF Faithful
<1>2. /\ tx'.offer = tx.offer /\ file' = file /\ Caller # Listener /\ DOMAIN call = Nodes
      /\ c \in Nat /\ c # 0 /\ StreamOK /\ at \in [Nodes -> Nat]
      /\ last[c][Caller] \in Nat
      /\ rx \in [state : RxStates, offer : Offers \cup {NoOffer}, chunks : Nat,
                 saved : Seq(Cells)]
  <2>1. tx'.offer = tx.offer /\ file' = file
    BY <1>1, StaticStep, Zenon
  <2>2. /\ c \in Nat /\ c # 0 /\ Caller # Listener
    BY TransportAssumption DEF Conns
  <2>3. DOMAIN call = Nodes /\ StreamOK /\ at \in [Nodes -> Nat]
    BY Zenon DEF TransportInv, ConnOK
  <2>4. last[c][Caller] \in Nat
    BY <2>3 DEF StreamOK
  <2>5. rx \in [state : RxStates, offer : Offers \cup {NoOffer}, chunks : Nat,
                saved : Seq(Cells)]
    BY Zenon DEF MediaOK
  <2> QED
    BY <2>1, <2>2, <2>3, <2>4, <2>5, Zenon
<1>3. /\ tx.offer.count \in Nat /\ tx.offer.id \in Nat /\ rx.chunks \in Nat
  BY OfferFacts, Zenon
<1>4. ASSUME rx' = rx, at'[Listener] = at[Listener], Returned(Listener)' <=> Returned(Listener),
             last'[c][Caller] = last[c][Caller]
      PROVE  Receiver(c, o)'
  <2>1. Handled(c)' = Handled(c)
    BY <1>4, Zenon DEF Handled
  <2> QED
    BY <1>1, <1>2, <1>4, <2>1, ReceiverSame, Zenon
<1>5. CASE SenderStep
  <2>1. UNCHANGED <<at, last, rx>> /\ \E v : call' = [call EXCEPT ![Caller] = v]
    BY <1>5, Zenon DEF SenderStep, koe_media_chunk_build, koe_media_done_build,
                PacketSent, PacketNotSent, OfferAgain, WaitForAck, AckArrives,
                koe_transport_send, koe_transport_recv, connVars, streamVars, mediaVars
  <2>2. call'[Listener] = call[Listener]
    BY <1>2, <2>1, Zenon
  <2>3. Returned(Listener)' <=> Returned(Listener)
    BY <2>2, Zenon DEF Returned, In
  <2> QED
    BY <1>4, <2>1, <2>3, Zenon
<1>6. ASSUME call'[Listener].op # "got" PROVE ~Returned(Listener)'
  BY <1>6, Zenon DEF Returned, In
<1>7. /\ Idle.op = "none" /\ \A x : Receiving(x).op = "recv" /\ Sending(x).op = "send"
      /\ \A x : Sent(x).op = "sent"
  BY Zenon DEF Idle, Receiving, Sending, Sent
<1>8. CASE WaitForPacket \/ AnswerSent
  <2>1. /\ UNCHANGED <<at, last, rx>> /\ (call[Listener] = Idle \/ In(Listener, "sent"))
        /\ \/ call' = [call EXCEPT ![Listener] = Idle]
           \/ call' = [call EXCEPT ![Listener] = Receiving(None)]
    BY <1>8, Zenon DEF WaitForPacket, AnswerSent, koe_transport_recv, connVars, streamVars, mediaVars
  <2>2. ~Returned(Listener)'
    BY <1>2, <1>6, <1>7, <2>1
  <2>3. ~Returned(Listener)
    BY <1>7, <2>1, Zenon DEF Returned, In
  <2>4. Returned(Listener)' <=> Returned(Listener)
    BY <2>2, <2>3, Zenon
  <2> QED
    BY <1>4, <2>1, <2>4, Zenon
<1>9. CASE koe_media_accept_build
  <2> DEFINE offer == call[Listener].pkt.offer
  <2>1. /\ Arrived("OFFER") /\ Answer(TRUE) /\ UNCHANGED <<at, last>>
        /\ rx' = [state |-> "RECEIVING", offer |-> offer, chunks |-> 0, saved |-> << >>]
    BY <1>9, Zenon DEF koe_media_accept_build, connVars, streamVars
  <2>2. Returned(Listener) /\ call[Listener].pkt = OfferPacket(offer)
    BY <2>1, KnownReturned, Zenon DEF Ids, MediaOK
  <2> HIDE DEF offer
  <2>3. ~Returned(Listener)'
    BY <1>2, <1>6, <1>7, <2>1, Zenon DEF Answer
  <2>4. /\ rx'.offer = offer /\ rx'.state = "RECEIVING" /\ rx'.chunks = 0
        /\ rx'.saved = << >>
    BY <2>1, Zenon
  <2>5. ASSUME offer.id = tx.offer.id
        PROVE  at[Listener] = c /\ last[c][Caller] = o /\ offer = tx.offer
    <3>1. call[Listener].pkt.type = "OFFER" /\ call[Listener].pkt.offer = offer
      BY <2>2 DEF OfferPacket
    <3>2. at[Listener] = c /\ last[c][Caller] >= o
      BY <1>1, <2>2, <2>5, <3>1, ScriptReturned, Zenon
    <3>3. call[Listener].pkt = Script(o, last[c][Caller])
      BY <1>1, <2>2, <3>2, ScriptReturned, Zenon
    <3>4. last[c][Caller] = o
      BY <3>1, <3>3, ScriptTypes, Zenon
    <3>5. call[Listener].pkt = OfferPacket(tx.offer)
      BY <3>3, <3>4, ScriptTypes, Zenon
    <3> QED
      BY <3>1, <3>2, <3>4, <3>5 DEF OfferPacket
  <2>6. /\ Handled(c)' = last[c][Caller]
        /\ SubSeq(file, 1, Least(0 * ChunkSize, tx.offer.size)) = << >>
    BY <1>1, <2>1, <2>3, ChunkAppended, Zenon DEF Handled
  <2>7. ASSUME offer.id = tx.offer.id
        PROVE  /\ at'[Listener] = c /\ Handled(c)' >= o /\ rx'.offer = tx.offer
               /\ rx'.chunks = Handled(c)' - o /\ rx'.chunks <= tx.offer.count
               /\ rx'.saved = SubSeq(file, 1, Least(rx'.chunks * ChunkSize, tx.offer.size))
    <3>1. Handled(c)' = o /\ at'[Listener] = c /\ offer = tx.offer
      BY <2>1, <2>5, <2>6, <2>7, Zenon
    <3>2. o >= o /\ 0 = o - o /\ 0 <= tx.offer.count
      BY <1>3
    <3> QED
      BY <2>4, <2>6, <3>1, <3>2, Zenon
  <2> QED
    BY <1>2, <2>4, <2>7, Zenon DEF Receiver
<1>10. ASSUME rx.offer.id = tx.offer.id, Returned(Listener)
       PROVE  /\ at[Listener] = c /\ last[c][Caller] - 1 >= o /\ rx.offer = tx.offer
              /\ call[Listener].pkt = Script(o, last[c][Caller])
              /\ call[Listener].pkt.type \in {"CHUNK", "DONE"}
              /\ rx.state \in {"RECEIVING", "DONE"}
              /\ rx.state = "RECEIVING" =>
                    /\ rx.chunks = last[c][Caller] - 1 - o /\ rx.chunks <= tx.offer.count
                    /\ rx.saved = SubSeq(file, 1, Least(rx.chunks * ChunkSize, tx.offer.size))
  <2>1. Handled(c) = last[c][Caller] - 1
    BY <1>10, Zenon DEF Handled
  <2>2. /\ at[Listener] = c /\ last[c][Caller] - 1 >= o /\ rx.offer = tx.offer
        /\ rx.state \in {"RECEIVING", "DONE"}
        /\ rx.state = "RECEIVING" =>
              /\ rx.chunks = last[c][Caller] - 1 - o /\ rx.chunks <= tx.offer.count
              /\ rx.saved = SubSeq(file, 1, Least(rx.chunks * ChunkSize, tx.offer.size))
    BY <1>1, <1>10, <2>1, Zenon DEF Receiver
  <2>3. last[c][Caller] >= o /\ last[c][Caller] # o
    BY <1>2, <2>2
  <2>4. call[Listener].pkt = Script(o, last[c][Caller])
    BY <1>1, <1>10, <2>2, <2>3, ScriptReturned, Zenon
  <2>5. call[Listener].pkt.type \in {"CHUNK", "DONE"}
    BY <2>3, <2>4, ScriptTypes
  <2> QED
    BY <2>2, <2>4, <2>5, Zenon
<1>11. ASSUME In(Listener, "got"), call[Listener].pkt.type \in {"OFFER", "CHUNK", "DONE"}
       PROVE  Returned(Listener)
  BY <1>11 DEF Returned, Garbage, NoPacket
<1>12. CASE koe_media_reject_build
  <2>1. Arrived("OFFER") /\ rx' = rx
    BY <1>12, Zenon DEF koe_media_reject_build, mediaVars
  <2>2. rx.offer.id # tx.offer.id
    BY <1>10, <1>11, <2>1, Zenon DEF Arrived
  <2> QED
    BY <1>2, <2>1, <2>2, Zenon DEF Receiver
<1>13. CASE koe_media_chunk_receive
  <2>1. /\ Arrived("CHUNK") /\ rx.state = "RECEIVING" /\ UNCHANGED <<at, last>>
        /\ call' = [call EXCEPT ![Listener] = Idle]
        /\ rx' = [rx EXCEPT !.saved = @ \o call[Listener].pkt.data, !.chunks = @ + 1]
    BY <1>13, Zenon DEF koe_media_chunk_receive, connVars, streamVars
  <2>2. /\ rx'.offer = rx.offer /\ rx'.state = "RECEIVING" /\ rx'.chunks = rx.chunks + 1
        /\ rx'.saved = rx.saved \o call[Listener].pkt.data
    BY <1>2, <2>1, Zenon
  <2>3. Returned(Listener) /\ ~Returned(Listener)'
    BY <1>2, <1>6, <1>7, <1>11, <2>1, Zenon DEF Arrived
  <2>4. ASSUME rx.offer.id = tx.offer.id
        PROVE  /\ at'[Listener] = c /\ Handled(c)' >= o /\ rx'.offer = tx.offer
               /\ rx'.chunks = Handled(c)' - o /\ rx'.chunks <= tx.offer.count
               /\ rx'.saved = SubSeq(file, 1, Least(rx'.chunks * ChunkSize, tx.offer.size))
    <3> DEFINE no == last[c][Caller]
    <3>1. Handled(c)' = no
      BY <2>1, <2>3, Zenon DEF Handled
    <3>2. /\ at[Listener] = c /\ no - 1 >= o /\ rx.offer = tx.offer
          /\ call[Listener].pkt = Script(o, no) /\ rx.chunks = no - 1 - o
          /\ rx.saved = SubSeq(file, 1, Least(rx.chunks * ChunkSize, tx.offer.size))
      BY <1>10, <2>1, <2>3, <2>4, Zenon
    <3>3. no <= o + tx.offer.count /\ call[Listener].pkt = ChunkPacket(no - o - 1)
      BY <2>1, <3>2, ScriptTypes DEF Arrived
    <3> HIDE DEF no
    <3>4. no \in Nat
      BY <1>2, Zenon DEF no
    <3>5. /\ rx.chunks < tx.offer.count /\ no - o - 1 = rx.chunks
          /\ rx.chunks + 1 = no - o /\ no >= o
      BY <1>3, <3>2, <3>3, <3>4
    <3>6. rx.saved \o ChunkPacket(rx.chunks).data
             = SubSeq(file, 1, Least((rx.chunks + 1) * ChunkSize, tx.offer.size))
      BY <1>1, <1>3, <3>2, <3>5, ChunkAppended, Zenon
    <3>7. call[Listener].pkt = ChunkPacket(rx.chunks)
      BY <3>3, <3>5, Zenon
    <3>8. rx.chunks + 1 <= tx.offer.count
      BY <1>3, <3>5
    <3> QED
      BY <2>1, <2>2, <3>1, <3>2, <3>5, <3>6, <3>7, <3>8, Zenon
  <2> QED
    BY <1>2, <2>2, <2>4, Zenon DEF Receiver
<1>14. CASE koe_media_finalise
  <2>1. /\ Arrived("DONE") /\ rx.state = "RECEIVING" /\ UNCHANGED <<at, last>>
        /\ call' = [call EXCEPT ![Listener] = Idle]
        /\ rx' = [rx EXCEPT !.state = IF rx.saved = rx.offer.sha256 THEN "DONE" ELSE "FAILED"]
    BY <1>14, Zenon DEF koe_media_finalise, connVars, streamVars
  <2>2. Returned(Listener) /\ ~Returned(Listener)'
    BY <1>2, <1>6, <1>7, <1>11, <2>1, Zenon DEF Arrived
  <2>3. /\ rx'.offer = rx.offer
        /\ rx'.state = IF rx.saved = rx.offer.sha256 THEN "DONE" ELSE "FAILED"
    BY <1>2, <2>1, Zenon
  <2>4. ASSUME rx.offer.id = tx.offer.id
        PROVE  /\ at'[Listener] = c /\ Handled(c)' >= o /\ rx'.offer = tx.offer
               /\ rx'.state = "DONE"
    <3> DEFINE no == last[c][Caller]
    <3>1. Handled(c)' = no
      BY <2>1, <2>2, Zenon DEF Handled
    <3>2. /\ at[Listener] = c /\ no - 1 >= o /\ rx.offer = tx.offer
          /\ call[Listener].pkt = Script(o, no)
          /\ rx.chunks = no - 1 - o /\ rx.chunks <= tx.offer.count
          /\ rx.saved = SubSeq(file, 1, Least(rx.chunks * ChunkSize, tx.offer.size))
      BY <1>10, <2>1, <2>2, <2>4, Zenon
    <3>3. ~(no <= o + tx.offer.count)
      BY <2>1, <3>2, ScriptTypes, Zenon DEF Arrived
    <3> HIDE DEF no
    <3>4. no \in Nat
      BY <1>2, Zenon DEF no
    <3>5. rx.chunks = tx.offer.count /\ no >= o
      BY <1>3, <3>2, <3>3, <3>4
    <3>6. rx.saved = file
      BY <1>1, <1>3, <3>2, <3>5, ChunkAppended, Zenon
    <3>7. rx.saved = rx.offer.sha256
      BY <1>1, <3>2, <3>6, Zenon DEF Offered
    <3> QED
      BY <2>1, <2>3, <3>1, <3>2, <3>5, <3>7, Zenon
  <2> QED
    BY <1>2, <2>3, <2>4, Zenon DEF Receiver
<1>15. CASE PassOver
  <2>1. /\ In(Listener, "got") /\ ~Arrived("OFFER")
        /\ rx.state = "RECEIVING" => ~Arrived("CHUNK") /\ ~Arrived("DONE")
        /\ call' = [call EXCEPT ![Listener] = Idle] /\ UNCHANGED <<at, last, rx>>
    BY <1>15, Zenon DEF PassOver, connVars, streamVars, mediaVars
  <2>2. ~Returned(Listener)'
    BY <1>2, <1>6, <1>7, <2>1, Zenon
  <2>3. CASE ~Returned(Listener)
    <3>1. Returned(Listener)' <=> Returned(Listener)
      BY <2>2, <2>3, Zenon
    <3> QED
      BY <1>4, <2>1, <3>1, Zenon
  <2>4. CASE Returned(Listener)
    <3>1. ASSUME rx.offer.id = tx.offer.id
          PROVE  /\ at'[Listener] = c /\ Handled(c)' >= o /\ rx.offer = tx.offer
                 /\ rx.state = "DONE"
      <4>1. /\ at[Listener] = c /\ last[c][Caller] - 1 >= o /\ rx.offer = tx.offer
            /\ call[Listener].pkt.type \in {"CHUNK", "DONE"}
            /\ rx.state \in {"RECEIVING", "DONE"}
        BY <1>10, <2>4, <3>1, Zenon
      <4>2. rx.state = "DONE"
        BY <2>1, <4>1, Zenon DEF Arrived
      <4>3. Handled(c)' = last[c][Caller] /\ last[c][Caller] >= o
        BY <1>2, <2>1, <2>2, <4>1 DEF Handled
      <4> QED
        BY <2>1, <4>1, <4>2, <4>3, Zenon
    <3> QED
      BY <1>2, <2>1, <3>1, Zenon DEF Receiver
  <2> QED
    BY <2>3, <2>4, Zenon
<1>16. CASE Connect
  <2>1. UNCHANGED <<last, call, rx>>
    BY <1>16, Zenon DEF Connect, koe_transport_connect, koe_transport_accept, streamVars, mediaVars
  <2>2. at'[Listener] = at[Listener] \/ at[Listener] = 0
    BY <1>2, <1>16, Zenon DEF Connect, koe_transport_connect, koe_transport_accept
  <2>3. Handled(c)' = Handled(c)
    BY <2>1, Zenon DEF Handled, Returned, In
  <2>4. rx.offer.id = tx.offer.id => at[Listener] # 0
    BY <1>1, <1>2, Zenon DEF Receiver
  <2> QED
    BY <1>1, <1>2, <2>1, <2>2, <2>3, <2>4, ReceiverSame, Zenon
<1>17. CASE \E n \in Nodes : Disconnect(n)
  <2>1. PICK n \in Nodes : Disconnect(n)
    BY <1>17, Zenon
  <2>2. n = Caller /\ koe_transport_disconnect(Caller) /\ rx' = rx
    BY <2>1, Zenon DEF Disconnect
  <2> DEFINE c0 == at[Caller]
             over == at[Other(Caller)] # c0 /\ accepted >= c0
  <2>3. /\ c0 # 0 /\ at' = [at EXCEPT ![Caller] = 0]
        /\ last' = [last EXCEPT ![c0] = IF over THEN [m \in Nodes |-> 0] ELSE @]
        /\ UNCHANGED call
    BY <2>2, Zenon DEF koe_transport_disconnect
  <2>4. c0 \in Conns
    BY <2>3, AtConn, Zenon
  <2>5. over => at[Listener] # c0
    BY Zenon
  <2> HIDE DEF over, c0
  <2>6. at'[Listener] = at[Listener]
    BY <1>2, <2>3, Zenon
  <2>7. at[Listener] = c => last'[c][Caller] = last[c][Caller]
    BY <1>2, <2>3, <2>4, <2>5 DEF StreamOK
  <2>8. at[Listener] = c => Handled(c)' = Handled(c)
    BY <2>3, <2>7 DEF Handled, Returned, In
  <2>9. rx.offer.id = tx.offer.id => at[Listener] = c
    BY <1>1, Zenon DEF Receiver
  <2> QED
    BY <1>1, <1>2, <2>2, <2>6, <2>8, <2>9, ReceiverSame, Zenon
<1>18. CASE \E n \in Nodes : Step(n)
  <2>1. PICK n \in Nodes : CallStep(n)
    BY <1>18, Zenon DEF Step
  <2>2. rx' = rx
    BY <1>18, Zenon DEF Step
  <2>3. CASE write_exact(n)
    <3> DEFINE d == at[n]  b == begun[d][n]  s == stream[d][n]
    <3>1. Writes(n, d, b, s)
      BY <2>3, WriteEffect, Zenon
    <3> HIDE DEF d, b, s
    <3>2. UNCHANGED <<at, last>> /\ In(n, "send")
      BY <3>1, Zenon DEF Writes
    <3>3. \A m \in Nodes : m # n => call'[m] = call[m]
      BY <3>1, Zenon DEF Writes
    <3>4. call'[n].op = "send" \/ call'[n] = Sent(TRUE)
      BY <3>1, Zenon DEF Writes
    <3>5. Returned(Listener)' <=> Returned(Listener)
      <4>1. CASE n = Listener
        BY <1>6, <1>7, <3>2, <3>4, <4>1, Zenon DEF Returned, In
      <4>2. CASE n = Caller
        BY <1>2, <3>3, <4>2, Zenon DEF Returned, In
      <4> QED
        BY <4>1, <4>2, Zenon
    <3> QED
      BY <1>4, <2>2, <3>2, <3>5, Zenon
  <2>4. CASE SendFails(n) \/ RecvFails(n)
    <3>1. /\ UNCHANGED <<at, last>> /\ (In(n, "send") \/ In(n, "recv"))
          /\ call' = [call EXCEPT ![n] = Sent(FALSE)] \/ call' = [call EXCEPT ![n] = Got(NoPacket)]
      BY <2>4, Zenon DEF SendFails, RecvFails, connVars
    <3>2. Returned(Listener)' <=> Returned(Listener)
      <4>1. CASE n = Listener
        <5>1. ~Returned(Listener)
          BY <3>1, <4>1, Zenon DEF Returned, In
        <5>2. ~Returned(Listener)'
          BY <1>2, <3>1, <4>1 DEF Returned, In, Sent, Got
        <5> QED
          BY <5>1, <5>2, Zenon
      <4>2. CASE n = Caller
        BY <1>2, <3>1, <4>2, Zenon DEF Returned, In
      <4> QED
        BY <4>1, <4>2, Zenon
    <3> QED
      BY <1>4, <2>2, <3>1, <3>2, Zenon
  <2>5. CASE read_exact(n)
    <3> DEFINE c0 == at[n]  w0 == Other(n)  s == stream[c0][w0]  u == Head(s)
    <3>1. PICK v : ReadsUnit(n, c0, w0, s, u, last[c0][w0], v)
      BY <2>5, ReadEffect, Zenon
    <3>2. /\ In(n, "recv") /\ s # << >> /\ call' = [call EXCEPT ![n] = v] /\ at' = at
      BY <3>1, Zenon DEF ReadsUnit, connVars
    <3>3. \A d \in Conns, w \in Nodes : d # c0 \/ w # w0 => last'[d][w] = last[d][w]
      <4> HIDE DEF c0, w0, s, u
      <4> QED
        BY <3>1, UnitRead
    <3>4. c0 \in Conns
      BY <3>2, CallFacts, AtConn, Zenon DEF TransportInv
    <3>5. CASE n = Caller
      <4>1. call'[Listener] = call[Listener] /\ w0 = Listener
        BY <1>2, <3>2, <3>5, Zenon
      <4>2. Returned(Listener)' <=> Returned(Listener)
        BY <4>1, Zenon DEF Returned, In
      <4>3. Caller # w0 /\ c \in Conns /\ Caller \in Nodes
        BY <1>2, <4>1, Zenon
      <4>4. last'[c][Caller] = last[c][Caller]
        <5> HIDE DEF w0
        <5> QED
          BY <3>3, <4>3, Zenon
      <4> QED
        BY <1>4, <2>2, <3>2, <4>2, <4>4, Zenon
    <3>6. CASE n = Listener
      <4>1. call'[Listener] = v /\ ~Returned(Listener) /\ w0 = Caller /\ Handled(c) = last[c][Caller]
        BY <1>2, <3>2, <3>6, Zenon DEF Returned, In, Handled
      <4>2. ASSUME rx.offer.id = tx.offer.id PROVE Handled(c)' = Handled(c)
        <5>1. c0 = c
          BY <1>1, <3>6, <4>2, Zenon DEF Receiver
        <5>2. /\ u \in Units /\ last[c][Caller] < u.no /\ u.no \in Nat
          <6>1. Direction(c, Caller) /\ s \in Seq(Units) /\ s = stream[c][Caller]
                /\ begun[c][Caller] \in Nat
            <7>1. Direction(c, Caller)
              BY Zenon DEF TransportInv
            <7>2. stream[c][Caller] \in Seq(Units) /\ begun[c][Caller] \in Nat
              <8>1. Caller \in Nodes /\ StreamOK
                BY NodeFacts, Zenon DEF TransportInv
              <8>2. stream[c] \in [Nodes -> Seq(Units)] /\ begun[c] \in [Nodes -> Nat]
                BY <8>1, Zenon DEF StreamOK
              <8> QED
                BY <8>1, <8>2, Zenon
            <7>3. s = stream[c][Caller]
              BY <4>1, <5>1, Zenon
            <7> QED
              BY <7>1, <7>2, <7>3, Zenon
          <6>2. InOrder(s, last[c][Caller], begun[c][Caller], Mid(c, Caller))
            BY <6>1, Zenon DEF Direction
          <6>3. u \in Units /\ last[c][Caller] < u.no
            <7> HIDE DEF s
            <7> QED
              BY <1>2, <3>2, <6>1, <6>2, ReadKeepsOrder, Zenon
          <6> QED
            BY <6>3, UnitFacts, Zenon
        <5>3. \/ last'[c][Caller] = last[c][Caller]
              \/ last'[c][Caller] = last[c][Caller] + 1
          BY <1>1, <2>5, ReadKeeps, Zenon
        <5>4. \/ last' = last /\ v = Receiving(IF IsPrefix(u) THEN u.no ELSE 0)
              \/ last' = last /\ v \in {Got(Garbage), Got(NoPacket)}
              \/ /\ ~IsPrefix(u) /\ v = Got(u.pkt)
                 /\ last' = [last EXCEPT ![c0][w0] = u.no]
          <6> HIDE DEF c0, w0, s, u
          <6> QED
            BY <3>1, Zenon DEF ReadsUnit
        <5> HIDE DEF u, c0, w0
        <5>5. CASE last' = last /\ v = Receiving(IF IsPrefix(u) THEN u.no ELSE 0)
          <6>1. ~Returned(Listener)'
            BY <1>6, <1>7, <4>1, <5>5, Zenon
          <6> QED
            BY <4>1, <5>5, <6>1, Zenon DEF Handled
        <5>6. CASE last' = last /\ v \in {Got(Garbage), Got(NoPacket)}
          <6>1. ~Returned(Listener)'
            BY <4>1, <5>6 DEF Returned, Got
          <6> QED
            BY <4>1, <5>6, <6>1, Zenon DEF Handled
        <5>7. CASE /\ ~IsPrefix(u) /\ v = Got(u.pkt)
                   /\ last' = [last EXCEPT ![c0][w0] = u.no]
          <6>1. last'[c][Caller] = u.no
            BY <1>2, <4>1, <5>1, <5>7 DEF StreamOK
          <6>2. last'[c][Caller] - 1 = last[c][Caller]
            BY <1>2, <5>2, <5>3, <6>1
          <6>3. u.pkt \notin {Garbage, NoPacket}
            BY <5>2, <5>7, UnitFacts, PacketFacts, Zenon
          <6>4. Returned(Listener)'
            BY <4>1, <5>7, <6>3 DEF Returned, In, Got
          <6> QED
            BY <4>1, <6>2, <6>4, Zenon DEF Handled
        <5> QED
          BY <5>4, <5>5, <5>6, <5>7, Zenon
      <4> QED
        BY <1>1, <1>2, <2>2, <3>2, <4>2, ReceiverSame, Zenon
    <3> QED
      BY <3>5, <3>6, Zenon
  <2> QED
    BY <2>1, <2>3, <2>4, <2>5, Zenon DEF CallStep
<1>19. CASE UNCHANGED vars
  <2>1. UNCHANGED <<rx, at, call, last>>
    BY <1>19, Zenon DEF vars, transportVars, connVars, streamVars, mediaVars
  <2> QED
    BY <1>4, <2>1, Zenon DEF Returned, In
<1>20. /\ ~GiveUp /\ ~(\E content \in Files : FileChanges(content))
       /\ ~(\E d \in Conns : Break(d)) /\ ~ChunkNotWritten
  BY Zenon DEF GiveUp, FileChanges, Break, ChunkNotWritten
<1> QED
  BY <1>5, <1>8, <1>9, <1>12, <1>13, <1>14, <1>15, <1>16, <1>17, <1>18, <1>19, <1>20, Zenon
     DEF Next, ReceiverStep

(* A sequence is over the set that its elements are of.                    *)
LEMMA SeqWithin ==
    ASSUME NEW S, NEW R, NEW s \in Seq(S), \A k \in 1..Len(s) : s[k] \in R
    PROVE  s \in Seq(R)
OBVIOUS

(* A transfer that nothing disturbs goes on as it began.                   *)
LEMMA FaithfulStep ==
    ASSUME TransportInv, MediaOK, Ids, Busy, NEW c \in Conns, NEW o \in Nat, Faithful(c, o),
           [Next]_vars, ~disturbed',
           ~\E content \in Files : koe_media_offer_build(content)
    PROVE  Faithful(c, o)'
<1>1. /\ ~cut[c][Caller] /\ Offered /\ Within(Scripted(c, o)) /\ Sender(c, o)
  BY Zenon DEF Faithful
<1>2. tx'.offer = tx.offer /\ file' = file /\ ~cut'[c][Caller]
  BY <1>1, StaticStep, Zenon
<1>3. Sender(c, o)'
  BY <1>1, SenderKeeps, Zenon
<1>4. Receiver(c, o)'
  BY ReceiverKeeps, Zenon
<1>5. Admits(Scripted(c, o))
  BY <1>1, ScriptAccepted, Zenon
<1>6. PICK G : G = Scripted(c, o)
  BY Zenon
<1>7. Within(G) /\ Admits(G)
  BY <1>1, <1>5, <1>6, Zenon
<1>8. Within(G)'
  BY <1>7, WithinNext, Zenon
<1>9. Scripted(c, o)' = G /\ Offered'
  BY <1>1, <1>2, <1>6, ScriptSame, Zenon
<1>10. Within(Scripted(c, o))'
  BY <1>8, <1>9, Zenon DEF Within
<1> QED
  BY <1>2, <1>3, <1>4, <1>9, <1>10, Zenon DEF Faithful

(* An offer that is sent over a sound connection starts such a transfer.   *)
LEMMA NewOffer ==
    ASSUME TransportInv, MediaOK, Ids, NEW content \in Files,
           koe_media_offer_build(content), ~disturbed'
    PROVE  \E c \in Conns, o \in Nat \ {0} : Faithful(c, o)'
<1> USE NodeFacts
<1> DEFINE c0 == at[Caller]  o0 == begun[c0][Caller] + 1
<1>1. /\ koe_transport_send(Caller, OfferPacket(tx'.offer)) /\ offers \in Nat
      /\ tx' = [state |-> "OFFERING", offer |-> Offer(file, content), chunks |-> 0]
      /\ file' = content /\ content = file /\ Sound(at[Caller]) /\ rx' = rx
  BY Zenon DEF koe_media_offer_build, MediaOK
<1>2. /\ c0 \in Conns /\ begun[c0][Caller] \in Nat /\ o0 \in Nat \ {0}
  <2>1. at[Caller] # 0
    BY <1>1, Zenon DEF koe_transport_send
  <2>2. c0 \in Conns
    BY <2>1, AtConn, Zenon
  <2>3. begun[c0][Caller] \in Nat
    BY <2>2 DEF TransportInv, StreamOK
  <2> QED
    BY <2>2, <2>3
<1> HIDE DEF c0, o0
<1>3. PICK c \in Conns, o \in Nat \ {0} : c = at[Caller] /\ o = begun[c][Caller] + 1
  BY <1>2, Zenon DEF c0, o0
<1>4. begun[c][Caller] \in Nat /\ ~cut[c][Caller]
  BY <1>1, <1>3 DEF TransportInv, StreamOK, Sound
<1>5. /\ tx'.offer.id = offers + 1 /\ tx'.state = "OFFERING" /\ tx'.chunks = 0
      /\ tx'.offer.size = Len(file) /\ tx'.offer.count = ChunkCount(Len(file))
      /\ tx'.offer.sha256 = file
  BY <1>1, Zenon DEF Offer
<1>6. /\ Body(Caller)' = OfferPacket(tx'.offer) /\ Len(call'[Caller].units) = 2
      /\ call[Caller] = Idle /\ UNCHANGED <<at, begun, stream, last, cut>> /\ In(Caller, "send")'
      /\ \A m \in Nodes : m # Caller => call'[m] = call[m]
  BY <1>1, SendBegins, Zenon
<1>7. Offered'
  BY <1>1, <1>5, Zenon DEF Offered
<1>8. Receiver(c, o)'
  <2>1. rx'.offer.id # tx'.offer.id
    <3>1. rx'.offer.id <= offers
      BY <1>1, Zenon DEF Ids
    <3>2. rx'.offer.id \in Nat
      BY <1>1, OfferFacts, Zenon
    <3>3. tx'.offer.id = offers + 1 /\ offers \in Nat
      BY <1>1, <1>5, Zenon
    <3> QED
      BY <3>1, <3>2, <3>3
  <2> QED
    BY <2>1, Zenon DEF Receiver
<1>9. Sender(c, o)'
  <2>1. ~Mid(c, Caller)'
    <3>1. Len(call'[Caller].units) # 1
      BY <1>6
    <3> QED
      BY <3>1, Zenon DEF Mid
  <2>2. call'[Caller] # Sent(TRUE)
    BY <1>6 DEF In, Sent
  <2>3. FramesSent' = 0
    BY <1>5, Zenon DEF FramesSent
  <2>4. FramesBegun(c)' = 0
    BY <2>1, <2>2, <2>3, Zenon DEF FramesBegun
  <2>5. Script(o, o + FramesSent)' = OfferPacket(tx'.offer)
    <3>1. o + FramesSent' = o
      BY <2>3
    <3> QED
      BY <3>1, Zenon DEF Script, OfferPacket
  <2>6. 0 <= tx'.offer.count
    <3>1. Len(file) \in Nat
      BY FileFacts, Zenon DEF MediaOK
    <3>2. ChunkCount(Len(file)) \in Nat
      BY <3>1, ChunkArithmetic, Zenon
    <3> QED
      BY <1>5, <3>2
  <2>7. begun'[c][Caller] + 1 = o + FramesBegun(c)'
    BY <1>3, <1>6, <2>4
  <2> QED
    BY <1>3, <1>5, <1>6, <2>5, <2>6, <2>7, Zenon DEF Sender
<1>10. PICK G : G = Scripted(c, o)'
  BY Zenon
<1>11. ASSUME NEW d \in Conns, NEW u \in Units, u \in Known(offers)[d],
              u.no <= begun[d][Caller]
       PROVE  u \in G[d]
  <2>1. ~(d = c /\ u.no >= o)
    BY <1>3, <1>4, <1>11, UnitFacts
  <2>2. IsPrefix(u) \/ (u.pkt.type = "OFFER" => u.pkt.offer.id # tx'.offer.id)
    <3>1. IsPrefix(u) \/ (u.pkt.type = "OFFER" => u.pkt.offer.id \in 1..offers)
      BY <1>11, Zenon DEF Known
    <3>2. tx'.offer.id \notin 1..offers
      BY <1>1, <1>5
    <3> QED
      BY <3>1, <3>2, Zenon
  <2>3. u \in Scripted(c, o)'[d]
    BY <2>1, <2>2, Zenon DEF Scripted
  <2> QED
    BY <1>10, <2>3, Zenon
<1>12. ASSUME NEW d \in Conns PROVE stream[d][Caller] \in Seq(G[d])
  <2> DEFINE s == stream[d][Caller]
  <2>1. s \in Seq(Units) /\ s \in Seq(Known(offers)[d])
    <3>1. stream \in [Conns -> [Nodes -> Seq(Units)]]
      BY Zenon DEF TransportInv, StreamOK
    <3>2. s \in Seq(Units)
      BY <3>1
    <3>3. s \in Seq(Known(offers)[d])
      BY Zenon DEF Ids, Within
    <3> QED
      BY <3>2, <3>3, Zenon
  <2>2. \A k \in 1..Len(s) : s[k].no <= begun[d][Caller]
    BY Zenon DEF TransportInv, Direction, InOrder
  <2> HIDE DEF s
  <2>3. \A k \in 1..Len(s) : s[k] \in G[d]
    <3> SUFFICES ASSUME NEW k \in 1..Len(s) PROVE s[k] \in G[d]
      BY Zenon
    <3>1. s[k] \in Units /\ s[k] \in Known(offers)[d]
      BY <2>1, ElementOfSeq, Zenon
    <3> QED
      BY <1>11, <2>2, <3>1, Zenon
  <2>4. s \in Seq(G[d])
    BY <2>1, <2>3, SeqWithin, Zenon
  <2> QED
    BY <2>4, Zenon DEF s
<1>13. ASSUME Returned(Listener)
       PROVE  [pkt |-> call[Listener].pkt, no |-> last[at[Listener]][Caller]] \in G[at[Listener]]
  <2> DEFINE d == at[Listener]
             u == [pkt |-> call[Listener].pkt, no |-> last[d][Caller]]
  <2>1. d \in Conns
    BY <1>13, CallFacts, AtConn, Zenon DEF TransportInv, Returned
  <2>2. u \in Known(offers)[d]
    BY <1>13, Zenon DEF Ids, Within
  <2>3. last[d][Caller] <= begun[d][Caller]
    BY <2>1, Zenon DEF TransportInv, Direction, InOrder
  <2>4. u \in Units
    BY <2>1, <2>2, Zenon DEF Known
  <2>5. u.no <= begun[d][Caller]
    BY <2>3, Zenon
  <2> HIDE DEF u, d
  <2>6. u \in G[d]
    BY <1>11, <2>1, <2>2, <2>4, <2>5, Zenon
  <2> QED
    BY <2>6, Zenon DEF u, d
<1>14. Within(G)
  BY <1>12, <1>13, Zenon DEF Within
<1>15. Admits(G)
  <2>1. \A d \in Conns, no \in Nat : [no |-> no] \in G[d]
    BY <1>10, UnitFacts, Zenon DEF Scripted
  <2>2. ~Mid(at[Caller], Caller)
    BY <1>6 DEF Mid, In, Idle
  <2> QED
    BY <2>1, <2>2, Zenon DEF Admits
<1>16. [Next]_vars
  BY Zenon DEF Next
<1>17. Within(G)'
  BY <1>14, <1>15, <1>16, WithinNext, Zenon
<1>18. Within(Scripted(c, o))'
  BY <1>10, <1>17, Zenon DEF Within
<1>19. Faithful(c, o)'
  BY <1>4, <1>6, <1>7, <1>8, <1>9, <1>18, Zenon DEF Faithful
<1> QED
  BY <1>19, Zenon

(* Before the first offer no offer is known to either side.                *)
LEMMA TransferInitial == Init => TransferInv
<1> SUFFICES ASSUME Init PROVE TransferInv
  BY Zenon
<1>1. /\ offers = 0 /\ tx.offer.id = 0 /\ rx.offer.id = 0 /\ rx.state = "IDLE"
      /\ tx.state = "IDLE"
  BY Zenon DEF Init, NoOffer
<1>2. /\ \A n \in Nodes : call[n] = Idle /\ \A d \in Conns : stream[d][n] = << >>
  BY Zenon DEF Init, TransportInit
<1>3. \A n \in Nodes : ~In(n, "send") /\ ~In(n, "sent") /\ ~In(n, "recv") /\ ~In(n, "got")
  <2>1. Idle.op = "none"
    BY Zenon DEF Idle
  <2>2. \A n \in Nodes : call[n].op = "none"
    BY <1>2, <2>1, Zenon
  <2> QED
    BY <2>2, Zenon DEF In
<1>4. Within(Known(0))
  <2>1. \A S : << >> \in Seq(S)
    BY EmptySeq, Zenon
  <2> QED
    BY <1>2, <1>3, <2>1, NodeFacts, Zenon DEF Within, Returned
<1>5. Ids
  <2>1. rx.offer.id <= offers
    BY <1>1
  <2> QED
    BY <1>1, <1>3, <1>4, <2>1, NodeFacts, Zenon DEF Ids
<1>6. Busy
  BY <1>3, NodeFacts, Zenon DEF Busy
<1> QED
  BY <1>1, <1>5, <1>6 DEF TransferInv

(* Every step keeps the invariant of a transfer.                           *)
LEMMA TransferStep ==
    ASSUME TransportInv, MediaOK, TransferInv, [Next]_vars
    PROVE  TransferInv'
<1>1. Ids /\ Busy /\ Ids' /\ Busy'
  BY IdsStep, Zenon DEF TransferInv
<1>2. ASSUME offers' > 0, ~disturbed'
      PROVE  \E c \in Conns, o \in Nat \ {0} : Faithful(c, o)'
  <2>1. CASE \E content \in Files : koe_media_offer_build(content)
    BY <1>1, <1>2, <2>1, NewOffer, Zenon
  <2>2. CASE ~\E content \in Files : koe_media_offer_build(content)
    <3>1. offers' = offers /\ ~disturbed
      BY <1>2, <2>2, StaticStep, Zenon
    <3>2. PICK c \in Conns, o \in Nat \ {0} : Faithful(c, o)
      BY <1>2, <3>1, Zenon DEF TransferInv
    <3>3. Faithful(c, o)'
      BY <1>1, <1>2, <2>2, <3>2, FaithfulStep, Zenon
    <3> QED
      BY <3>3, Zenon
  <2> QED
    BY <2>1, <2>2, Zenon
<1> QED
  BY <1>1, <1>2, Zenon DEF TransferInv

(* The inductive invariant of the transfers over the connections.          *)
LEMMA TransferInductive == Spec => [](TransportInv /\ MediaOK /\ TransferInv)
<1> DEFINE Inv == TransportInv /\ MediaOK /\ TransferInv
<1>1. Init => Inv
  BY MediaInitial, TransferInitial, Zenon
<1>2. Inv /\ [Next]_vars => Inv'
  BY TransportStep, TransferStep, Zenon
<1> QED
  BY <1>1, <1>2, PTL DEF Spec

(* Whatever the file, the chunks, the buffers and the connections, a hash  *)
(* that does not match in koe_media_finalise has a cause: a connection     *)
(* that ended or broke, a write that failed, or a file that changed.       *)
THEOREM RefusalHasCauseCorrect == Spec => []RefusalHasCause
<1>1. TransportInv /\ MediaOK /\ TransferInv => RefusalHasCause
  <2> SUFFICES ASSUME TransportInv, MediaOK, TransferInv,
                      rx.state = "FAILED", rx.offer.id = tx.offer.id, ~disturbed
               PROVE  FALSE
    BY Zenon DEF RefusalHasCause
  <2>1. offers \in Nat /\ tx.offer.id = offers /\ rx.offer.id # 0
    BY Zenon DEF TransferInv, Ids, MediaOK
  <2>2. PICK c \in Conns, o \in Nat \ {0} : Faithful(c, o)
    BY <2>1 DEF TransferInv
  <2> QED
    BY <2>2, Zenon DEF Faithful, Receiver
<1> QED
  BY <1>1, TransferInductive, PTL

(* At any moment of an undisturbed transfer the file that the receiver     *)
(* writes is the start of the sender's: as many full chunks as it counts,  *)
(* the last one cut to what remains.  koe_media_chunk_receive appends what *)
(* comes without a look at the index, and yet no chunk is missing, twice   *)
(* there or in the place of another.                                       *)
WrittenSoFar ==
    rx.state = "RECEIVING" /\ rx.offer.id = tx.offer.id /\ ~disturbed =>
       /\ rx.chunks <= ChunkCount(Len(file))
       /\ rx.saved = SubSeq(file, 1, Least(rx.chunks * ChunkSize, Len(file)))

(* What koe_media_chunk_receive has written is the start of the file, for  *)
(* any file, chunk size, buffers and interleaving of the two ends.         *)
THEOREM WrittenSoFarCorrect == Spec => []WrittenSoFar
<1>1. TransportInv /\ MediaOK /\ TransferInv => WrittenSoFar
  <2> SUFFICES ASSUME TransportInv, MediaOK, TransferInv,
                      rx.state = "RECEIVING", rx.offer.id = tx.offer.id, ~disturbed
               PROVE  /\ rx.chunks <= ChunkCount(Len(file))
                      /\ rx.saved = SubSeq(file, 1, Least(rx.chunks * ChunkSize, Len(file)))
    BY Zenon DEF WrittenSoFar
  <2>1. offers \in Nat /\ tx.offer.id = offers /\ rx.offer.id # 0
    BY Zenon DEF TransferInv, Ids, MediaOK
  <2>2. PICK c \in Conns, o \in Nat \ {0} : Faithful(c, o)
    BY <2>1 DEF TransferInv
  <2>3. tx.offer.size = Len(file) /\ tx.offer.count = ChunkCount(Len(file))
    BY <2>2, Zenon DEF Faithful, Offered
  <2> QED
    BY <2>2, <2>3, Zenon DEF Faithful, Receiver
<1> QED
  BY <1>1, TransferInductive, PTL

=============================================================================
