----------------------------- MODULE Transport ------------------------------
(***************************************************************************)
(* Framed packets over TCP connections (src/src/koe_transport.c, with the  *)
(* serialisation of koe_packet.c).  One node connects, the other accepts.  *)
(* A frame is a length prefix and a serialised packet, each a unit that    *)
(* moves as a whole.  Calls block until a unit can be moved.  When the     *)
(* timeout of the socket expires between the two, the call returns -1 and  *)
(* what it moved is not undone; the caller cannot tell that from a timeout *)
(* between frames.                                                         *)
(***************************************************************************)
EXTENDS Naturals, Sequences

CONSTANTS
    Caller, Listener,
    None,           \* no length was read yet
    MaxConns,       \* bound on the connections made
    MaxPackets,     \* bound on the frames begun by one node on one of them
    Buffer          \* units that the sockets hold in one direction

ASSUME TransportAssumption ==
    /\ {MaxConns, MaxPackets, Buffer} \subseteq Nat \ {0}
    /\ Caller # Listener
    /\ None \notin Nat

Nodes == {Caller, Listener}
Conns == 1..MaxConns
Other(n) == IF n = Caller THEN Listener ELSE Caller

VARIABLES
    at,             \* the connection of peer->fd, 0 for -1
    timeouts,       \* SO_RCVTIMEO and SO_SNDTIMEO are set on peer->fd
    started,        \* connections made
    accepted,       \* connections taken from the listen queue
    lost,           \* connections that broke
    stream,         \* what each node wrote on each connection, not yet read
    call,           \* the call that each node is in
    begun,          \* frames begun
    last,           \* number of the last packet that was received whole
    cut             \* a call on this stream returned -1 within a frame

connVars == <<at, timeouts, started, accepted, lost>>
streamVars == <<stream, begun, last, cut>>
transportVars == <<connVars, streamVars, call>>

(* -1 of koe_transport_recv, and a packet made of bytes that are not one.  *)
NoPacket == [type |-> "NONE"]
Garbage == [type |-> "GARBAGE"]

Idle == [op |-> "none"]
Sending(units) == [op |-> "send", units |-> units]
Sent(ok) == [op |-> "sent", ok |-> ok]
Receiving(length) == [op |-> "recv", length |-> length]
Got(pkt) == [op |-> "got", pkt |-> pkt]

In(n, op) == call[n].op = op

TransportInit ==
    /\ at = [n \in Nodes |-> 0]
    /\ timeouts = [n \in Nodes |-> FALSE]
    /\ started = 0
    /\ accepted = 0
    /\ lost = {}
    /\ stream = [c \in Conns |-> [n \in Nodes |-> << >>]]
    /\ call = [n \in Nodes |-> Idle]
    /\ begun = [c \in Conns |-> [n \in Nodes |-> 0]]
    /\ last = [c \in Conns |-> [n \in Nodes |-> 0]]
    /\ cut = [c \in Conns |-> [n \in Nodes |-> FALSE]]

-----------------------------------------------------------------------------
(* Connections.                                                            *)

(* The other end of c was closed, or the network gave up.                  *)
Gone(c, n) ==
    \/ c \in lost
    \/ at[Other(n)] # c /\ (Other(n) = Caller \/ accepted >= c)

(* Directly or through the relay, which forwards the stream.  peer->fd is  *)
(* overwritten; the application disconnects first.                         *)
koe_transport_connect ==
    /\ at[Caller] = 0 /\ call[Caller] = Idle
    /\ started < MaxConns
    /\ started' = started + 1
    /\ at' = [at EXCEPT ![Caller] = started + 1]
    /\ timeouts' = [timeouts EXCEPT ![Caller] = TRUE]
    /\ UNCHANGED <<accepted, lost, streamVars, call>>

(* Mutant: only the connecting side sets its timeouts.                     *)
AcceptWithoutTimeout ==
    /\ at[Listener] = 0 /\ call[Listener] = Idle
    /\ accepted < started
    /\ accepted' = accepted + 1
    /\ at' = [at EXCEPT ![Listener] = accepted + 1]
    /\ UNCHANGED <<timeouts, started, lost, streamVars, call>>

(* The oldest connection of the listen queue, which the caller may already *)
(* have written to or closed.                                              *)
koe_transport_accept ==
    /\ at[Listener] = 0 /\ call[Listener] = Idle
    /\ accepted < started
    /\ accepted' = accepted + 1
    /\ at' = [at EXCEPT ![Listener] = accepted + 1]
    /\ timeouts' = [timeouts EXCEPT ![Listener] = TRUE]
    /\ UNCHANGED <<started, lost, streamVars, call>>

(* Closing a socket with unread data resets the connection: then what the  *)
(* other side has not read yet is lost as well.  Of a connection that has  *)
(* no end left nothing is recorded.                                        *)
koe_transport_disconnect(n) ==
    LET c == at[n]
        over == at[Other(n)] # c /\ accepted >= c
        Reset(f, initial) ==
            [f EXCEPT ![c] = IF over THEN [m \in Nodes |-> initial] ELSE @]
    IN
    /\ c # 0 /\ call[n] = Idle
    /\ at' = [at EXCEPT ![n] = 0]
    /\ timeouts' = [timeouts EXCEPT ![n] = FALSE]
    /\ stream' = [stream EXCEPT ![c] =
                     IF ~over /\ @[Other(n)] = << >> THEN @ ELSE [m \in Nodes |-> << >>]]
    /\ begun' = Reset(begun, 0)
    /\ last' = Reset(last, 0)
    /\ cut' = Reset(cut, FALSE)
    /\ UNCHANGED <<started, accepted, lost, call>>

(* The network fails.                                                      *)
ConnectionLost(c) ==
    /\ c \in {at[n] : n \in Nodes} /\ c \notin lost
    /\ lost' = lost \cup {c}
    /\ stream' = [stream EXCEPT ![c] = [n \in Nodes |-> << >>]]
    /\ UNCHANGED <<at, timeouts, started, accepted, begun, last, cut, call>>

-----------------------------------------------------------------------------
(* koe_transport_send.                                                     *)

(* The length and the serialised packet, with the number of the frame.     *)
Frame(pkt, no) == << [no |-> no], [pkt |-> pkt, no |-> no] >>

koe_transport_send(n, pkt) ==
    LET c == at[n] IN
    /\ c # 0 /\ call[n] = Idle
    /\ begun[c][n] < MaxPackets
    /\ call' = [call EXCEPT ![n] = Sending(Frame(pkt, begun[c][n] + 1))]
    /\ UNCHANGED <<connVars, streamVars>>

(* The frame counts as begun with its first unit.                          *)
FrameBegins(c, n) ==
    begun' = [begun EXCEPT ![c][n] = IF Len(call[n].units) = 2 THEN @ + 1 ELSE @]

AfterUnit(n) ==
    call' = [call EXCEPT ![n] = IF Len(@.units) = 1 THEN Sent(TRUE)
                                ELSE Sending(Tail(@.units))]

(* Mutant: a frame is taken for sent when part of it was.                  *)
ShortWriteIsEnough(n) ==
    LET c == at[n] IN
    /\ In(n, "send")
    /\ Len(stream[c][n]) < Buffer
    /\ stream' = [stream EXCEPT ![c][n] = Append(@, Head(call[n].units))]
    /\ FrameBegins(c, n)
    /\ \/ AfterUnit(n)
       \/ call' = [call EXCEPT ![n] = Sent(TRUE)]
    /\ UNCHANGED <<connVars, last, cut>>

(* A unit that the other end will not read any more may still be taken.    *)
write_exact(n) ==
    LET c == at[n] IN
    /\ In(n, "send")
    /\ \/ /\ ~Gone(c, n)
          /\ Len(stream[c][n]) < Buffer
          /\ stream' = [stream EXCEPT ![c][n] = Append(@, Head(call[n].units))]
       \/ Gone(c, n) /\ UNCHANGED stream
    /\ FrameBegins(c, n)
    /\ AfterUnit(n)
    /\ UNCHANGED <<connVars, last, cut>>

(* send() fails, or its timeout expires while the buffers are full.        *)
SendFails(n) ==
    LET c == at[n] IN
    /\ In(n, "send")
    /\ Gone(c, n) \/ (timeouts[n] /\ Len(stream[c][n]) >= Buffer)
    /\ call' = [call EXCEPT ![n] = Sent(FALSE)]
    /\ cut' = [cut EXCEPT ![c][n] = @ \/ Len(call[n].units) < 2]
    /\ UNCHANGED <<connVars, stream, begun, last>>

-----------------------------------------------------------------------------
(* koe_transport_recv.                                                     *)

koe_transport_recv(n) ==
    /\ at[n] # 0 /\ call[n] = Idle
    /\ call' = [call EXCEPT ![n] = Receiving(None)]
    /\ UNCHANGED <<connVars, streamVars>>

IsPrefix(unit) == "pkt" \notin DOMAIN unit

(* The first unit is the length.  Bytes of a packet that are taken for one *)
(* are refused, or announce any length in the range.                       *)
ReadPrefix(n, unit) ==
    /\ call[n].length = None
    /\ \/ call' = [call EXCEPT ![n] = Receiving(IF IsPrefix(unit) THEN unit.no ELSE 0)]
       \/ ~IsPrefix(unit) /\ call' = [call EXCEPT ![n] = Got(NoPacket)]
    /\ UNCHANGED last

(* koe_packet_deserialise only compares the length in the header with that *)
(* of the frame, so other bytes may pass for a packet.                     *)
koe_packet_deserialise(length, unit) ==
    IF ~IsPrefix(unit) /\ unit.no = length THEN {unit.pkt} ELSE {Garbage, NoPacket}

ReadBody(n, unit) ==
    /\ call[n].length # None
    /\ \E pkt \in koe_packet_deserialise(call[n].length, unit) :
          /\ call' = [call EXCEPT ![n] = Got(pkt)]
          /\ last' = [last EXCEPT ![at[n]][Other(n)] =
                         IF pkt \in {Garbage, NoPacket} THEN @ ELSE unit.no]

read_exact(n) ==
    LET c == at[n]
        incoming == stream[c][Other(n)]
    IN /\ In(n, "recv")
       /\ incoming # << >>
       /\ ReadPrefix(n, Head(incoming)) \/ ReadBody(n, Head(incoming))
       /\ stream' = [stream EXCEPT ![c][Other(n)] = Tail(@)]
       /\ UNCHANGED <<connVars, begun, cut>>

(* recv() finds the connection closed, or its timeout expires.             *)
RecvFails(n) ==
    LET c == at[n] IN
    /\ In(n, "recv")
    /\ stream[c][Other(n)] = << >>
    /\ timeouts[n] \/ Gone(c, n)
    /\ call' = [call EXCEPT ![n] = Got(NoPacket)]
    /\ cut' = [cut EXCEPT ![c][Other(n)] = @ \/ call[n].length # None]
    /\ UNCHANGED <<connVars, stream, begun, last>>

CallStep(n) == write_exact(n) \/ SendFails(n) \/ read_exact(n) \/ RecvFails(n)

-----------------------------------------------------------------------------

(* Frames stay frames: koe_transport_recv returns no packet twice or after *)
(* a later one, and, as long as no call on the stream returned -1 within a *)
(* frame, it leaves none out.                                              *)
EveryPacketInOrder ==
    [][\A c \in Conns, n \in Nodes :
          \/ last'[c][n] \in {last[c][n], 0}
          \/ last'[c][n] = last[c][n] + 1
          \/ last'[c][n] > last[c][n] /\ cut[c][n]]_transportVars

(* Bytes that are not a packet are returned as one only after a call that  *)
(* returned -1 within a frame, on that connection: a new connection starts *)
(* afresh.                                                                 *)
GarbageOnlyAfterCut ==
    \A n \in Nodes : In(n, "got") /\ call[n].pkt = Garbage => cut[at[n]][Other(n)]

(* Nobody waits for ever: each call on a connection returns, although each *)
(* side may be waiting for the other one to read or to write.              *)
CallsReturn ==
    \A n \in Nodes : In(n, "send") \/ In(n, "recv") ~> In(n, "sent") \/ In(n, "got")

=============================================================================
