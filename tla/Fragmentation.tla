--------------------------- MODULE Fragmentation ----------------------------
(***************************************************************************)
(* Splitting a packet into fragments and putting it together again         *)
(* (koe_packet_fragment and koe_packet_reassemble, src/src/koe_packet.c).  *)
(*                                                                         *)
(* A payload is the sequence of its pieces of mtu bytes.  The receiver     *)
(* feeds every fragment that arrives to one koe_reassembly_t, which is     *)
(* zero at first.  koe_packet_reassemble does not zero it again, and its   *)
(* interface does not say who should: the caller may do so at any time, or *)
(* never.                                                                  *)
(***************************************************************************)
EXTENDS Naturals, FiniteSets

CONSTANTS
    Packets,        \* the random message IDs
    Pieces,         \* Pieces[m]: payload length in units of the mtu, rounded up
    MaxFrags,       \* max_frags: the length of the caller's array
    Byte,           \* 2^8: one more than the largest uint8_t
    NoData,         \* zero bytes: a fragment that was never stored
    MaxRepeats      \* bound on the packets with a repeated fragment

ASSUME FragmentationAssumption ==
    /\ Pieces \in [Packets -> Nat]
    /\ Byte \in Nat \ {0} /\ MaxFrags \in Nat /\ MaxRepeats \in Nat
    /\ NoData \notin Packets \cup (Packets \X (0 .. (Byte - 1)))

VARIABLES
    sent,           \* packets given to koe_packet_fragment with success
    net,            \* fragments on their way
    ctx,            \* the receiver's koe_reassembly_t
    delivered,      \* what koe_packet_reassemble returned 1 for
    crashed,        \* history: packets at which it copied from a null pointer
    calm,           \* history: nothing lost or repeated, no packets overlap,
                    \* and the context was zeroed after each
    repeated,       \* history: packets of which a fragment came twice
    wrapped         \* history: the count of received fragments has wrapped

histories == <<repeated, wrapped>>
fragVars == <<sent, net, ctx, delivered, crashed, calm, histories>>

Index == 0 .. (Byte - 1)

(* frag_lengths is the set of the indices whose length is not zero.        *)
Fresh == [msg_id |-> NoData, total_fragments |-> 0, received |-> 0,
          fragments |-> [i \in Index |-> NoData], frag_lengths |-> {}]

FragInit ==
    /\ sent = {} /\ net = {} /\ ctx = Fresh /\ delivered = {} /\ crashed = {}
    /\ calm = TRUE /\ repeated = {} /\ wrapped = FALSE

-----------------------------------------------------------------------------

(* (uint8_t)((total + frag_size - 1) / frag_size)                          *)
TotalFrags(m) == Pieces[m] % Byte

Fragments(m) ==
    {[msg_id |-> m, index |-> i, total |-> TotalFrags(m), piece |-> <<m, i>>] :
        i \in 0 .. (TotalFrags(m) - 1)}

(* An empty payload is an error, and so is a count of zero or one that     *)
(* does not fit the caller's array.                                        *)
koe_packet_fragment(m) ==
    /\ m \notin sent
    /\ Pieces[m] > 0
    /\ TotalFrags(m) \in 1 .. MaxFrags
    /\ sent' = sent \cup {m}
    /\ net' = net \cup Fragments(m)
    /\ calm' = (calm /\ net = {})
    /\ UNCHANGED <<ctx, delivered, crashed, histories>>

-----------------------------------------------------------------------------
(* koe_packet_reassemble *)

(* Mutant: fragments of other messages are taken as well.                  *)
AcceptsAny(f) == TRUE

(* The first fragment fixes the message; fragments of others are refused.  *)
Accepts(f) == ctx.received = 0 \/ ctx.msg_id = f.msg_id

Claimed(f) ==
    IF ctx.received # 0 THEN ctx
    ELSE [msg_id |-> f.msg_id, total_fragments |-> f.total, received |-> 0,
          fragments |-> ctx.fragments, frag_lengths |-> ctx.frag_lengths]

Stored(f) ==
    [msg_id |-> Claimed(f).msg_id,
     total_fragments |-> Claimed(f).total_fragments,
     received |-> (ctx.received + 1) % Byte,
     fragments |-> [ctx.fragments EXCEPT ![f.index] = f.piece],
     frag_lengths |-> ctx.frag_lengths \cup {f.index}]

(* Mutant: one fragment more than the packet has is waited for.            *)
CompleteLate(c) == c.received > c.total_fragments

Complete(c) == c.received >= c.total_fragments

Slots(c) == 0 .. (c.total_fragments - 1)

(* The pieces that have a length: one that never came has none.            *)
Filled(c) == Slots(c) \cap c.frag_lengths

(* The data of a finished packet is freed and its pointers are set to      *)
(* NULL; the lengths, the count and the message stay.                      *)
Emptied(c) ==
    [msg_id |-> c.msg_id, total_fragments |-> c.total_fragments,
     received |-> c.received,
     fragments |-> [i \in Index |-> IF i \in Slots(c) THEN NoData ELSE c.fragments[i]],
     frag_lengths |-> c.frag_lengths]

(* A piece that has a length and no data is copied from a null pointer:    *)
(* the process ends, and starts again with a zeroed context.               *)
Assemble(c) ==
    \/ /\ \A i \in Filled(c) : c.fragments[i] # NoData
       /\ delivered' = delivered \cup
             {[msg_id |-> c.msg_id, payload |-> [i \in Filled(c) |-> c.fragments[i]]]}
       /\ ctx' = Emptied(c)
       /\ UNCHANGED crashed
    \/ /\ \E i \in Filled(c) : c.fragments[i] = NoData
       /\ crashed' = crashed \cup {c.msg_id}
       /\ ctx' = Fresh
       /\ UNCHANGED delivered

koe_packet_reassemble(f) ==
    /\ \/ /\ ~Accepts(f)
          /\ UNCHANGED <<ctx, delivered, crashed>>
       \/ /\ Accepts(f) /\ ~Complete(Stored(f))
          /\ ctx' = Stored(f)
          /\ UNCHANGED <<delivered, crashed>>
       \/ /\ Accepts(f) /\ Complete(Stored(f))
          /\ Assemble(Stored(f))
    /\ wrapped' = (wrapped \/ (Accepts(f) /\ ctx.received = Byte - 1))

(* No memory for the data, or for the packet that is complete.             *)
ReassembleFails(f) ==
    /\ Accepts(f)
    /\ \/ ctx' = Claimed(f)
       \/ Complete(Stored(f)) /\ ctx' = Stored(f)
    /\ UNCHANGED <<delivered, crashed, wrapped>>

-----------------------------------------------------------------------------

(* The context still holds the message and the count of a complete packet. *)
Finished == ctx.received > 0 /\ Complete(ctx)

(* A fragment arrives.                                                     *)
Receive(f) ==
    /\ net' = net \ {f}
    /\ \/ koe_packet_reassemble(f) /\ calm' = (calm /\ ~Finished)
       \/ ReassembleFails(f) /\ calm' = FALSE
    /\ UNCHANGED <<sent, repeated>>

(* The caller zeroes the context, or takes another one.                    *)
ZeroContext ==
    /\ ctx # Fresh
    /\ ctx' = Fresh
    /\ calm' = (calm /\ Finished)
    /\ UNCHANGED <<sent, net, delivered, crashed, histories>>

Lose(f) ==
    /\ net' = net \ {f}
    /\ calm' = FALSE
    /\ UNCHANGED <<sent, ctx, delivered, crashed, histories>>

(* A copy arrives and the fragment is still to come, once per packet.      *)
Repeat(f) ==
    /\ Cardinality(repeated \cup {f.msg_id}) <= MaxRepeats
    /\ f.msg_id \notin repeated
    /\ repeated' = repeated \cup {f.msg_id}
    /\ calm' = FALSE
    /\ koe_packet_reassemble(f) \/ ReassembleFails(f)
    /\ UNCHANGED <<sent, net>>

(* Packets overlap; fragments are reordered, lost or duplicated.           *)
FragNext ==
    \/ \E m \in Packets : koe_packet_fragment(m)
    \/ \E f \in net : Receive(f) \/ Lose(f) \/ Repeat(f)
    \/ ZeroContext

(* The receiver reads what the medium has not lost.                        *)
FragSpec ==
    FragInit /\ [][FragNext]_fragVars /\ WF_fragVars(\E f \in net : Receive(f))

-----------------------------------------------------------------------------

(* All pieces of a packet.                                                 *)
Whole(m) == [i \in 0 .. (Pieces[m] - 1) |-> <<m, i>>]

(* Whatever koe_packet_reassemble reports as complete is, piece by piece,  *)
(* the packet that was given to koe_packet_fragment, in any order of       *)
(* arrival, among fragments of other packets, after losses, duplicates and *)
(* allocations that failed, and whether or not the caller zeroes the       *)
(* context.  Three defects of the code are excepted.  A packet of Byte     *)
(* pieces or more is truncated by the cast of their count.  A fragment     *)
(* that comes twice is counted as two: its packet may have a hole, or,     *)
(* when the copy follows a packet that is complete, be copied from a null  *)
(* pointer.  And pieces of two packets are mixed once the count of         *)
(* received fragments has wrapped.                                         *)
DeliveredIsSent ==
    /\ \A d \in delivered :
          /\ d.msg_id \in sent
          /\ ~wrapped => \A i \in DOMAIN d.payload : d.payload[i] = <<d.msg_id, i>>
          /\ d.msg_id \notin repeated /\ Pieces[d.msg_id] < Byte =>
                d.payload = Whole(d.msg_id)
    /\ crashed \subseteq repeated

(* Packets sent one after the other are all delivered, in whichever order  *)
(* the fragments of each arrive, if the caller zeroes the context after    *)
(* each packet that is complete.  If the caller does not, the message and  *)
(* the count of that packet stay, and every fragment of the next one is    *)
(* refused.                                                                *)
EventuallyDelivered ==
    \A m \in Packets :
        m \in sent ~> (~calm \/ \E d \in delivered : d.msg_id = m)

=============================================================================
