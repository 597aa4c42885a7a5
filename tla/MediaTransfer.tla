--------------------------- MODULE MediaTransfer ----------------------------
(***************************************************************************)
(* The transfer of files (src/src/koe_media.c) over the connections of     *)
(* Transport.  The sender connects, the receiver accepts.  The library     *)
(* builds and takes apart the packets; their order is that of the diagram  *)
(* in include/koe_media.h, and it is the application that keeps the state  *)
(* of a transfer, tries a failed call again or gives up.  A file is a      *)
(* sequence of cells, a hash is the content it was taken of.               *)
(***************************************************************************)
EXTENDS Transport

CONSTANTS
    Files,          \* contents the file may have
    ChunkSize,      \* KOE_MEDIA_CHUNK_SIZE, in cells
    MaxFileSize,    \* KOE_MEDIA_MAX_FILE_SIZE
    MaxTransfers    \* bound on the offers made

ASSUME MediaAssumption ==
    /\ {ChunkSize, MaxFileSize, MaxTransfers} \subseteq Nat \ {0}
    /\ \A content \in Files : content \in Seq({content[i] : i \in DOMAIN content})

VARIABLES
    file,           \* content of the file at the sender
    tx,             \* the sender's koe_media_transfer_t
    rx,             \* the receiver's
    offers,         \* number of the last offer
    disturbed       \* something happened to the current transfer

mediaVars == <<file, tx, rx, offers, disturbed>>
vars == <<transportVars, mediaVars>>

NoOffer == [id |-> 0, size |-> 0, count |-> 0, sha256 |-> << >>]

Init ==
    /\ TransportInit
    /\ file \in Files
    /\ tx = [state |-> "IDLE", offer |-> NoOffer, chunks |-> 0]
    /\ rx = [state |-> "IDLE", offer |-> NoOffer, chunks |-> 0, saved |-> << >>]
    /\ offers = 0
    /\ disturbed = FALSE

-----------------------------------------------------------------------------
(* The packets.                                                            *)

(* Mutant: a last chunk that is not full is forgotten.                     *)
FullChunks(size) == size \div ChunkSize

ChunkCount(size) == (size + ChunkSize - 1) \div ChunkSize

(* The size is taken before the hash, for which the file is opened again   *)
(* and may have changed.                                                   *)
Offer(sizeOf, hashOf) ==
    [id |-> offers + 1, size |-> Len(sizeOf), count |-> ChunkCount(Len(sizeOf)),
     sha256 |-> hashOf]

OfferPacket(offer) == [type |-> "OFFER", offer |-> offer]

AckPacket(id, accept) == [type |-> "ACK", id |-> id, accept |-> accept]

(* How many cells chunk number index has, and whether the file still has   *)
(* them.                                                                   *)
ChunkLen(index) ==
    LET remaining == tx.offer.size - index * ChunkSize
    IN IF remaining < ChunkSize THEN remaining ELSE ChunkSize

ChunkReadable(index) == Len(file) >= index * ChunkSize + ChunkLen(index)

ChunkPacket(index) ==
    [type |-> "CHUNK",
     data |-> SubSeq(file, index * ChunkSize + 1, index * ChunkSize + ChunkLen(index))]

DonePacket == [type |-> "DONE"]

-----------------------------------------------------------------------------
(* The sender.                                                             *)

(* The connection is whole, and no older one comes before it: since -1 of  *)
(* koe_transport_recv does not tell a closed connection from a timeout,    *)
(* the receiver may stay there.                                            *)
Sound(c) ==
    /\ ~Gone(c, Caller)
    /\ at[Listener] \in {0, c} /\ accepted + 1 >= c
    /\ \A n \in Nodes : ~cut[c][n]

(* The packet is built and sent; content is what the hash is of.           *)
koe_media_offer_build(content) ==
    /\ tx.state \in {"IDLE", "DONE", "REJECTED", "FAILED"}
    /\ offers < MaxTransfers
    /\ Len(file) <= MaxFileSize
    /\ tx' = [state |-> "OFFERING", offer |-> Offer(file, content), chunks |-> 0]
    /\ koe_transport_send(Caller, OfferPacket(tx'.offer))
    /\ file' = content
    /\ offers' = offers + 1
    /\ disturbed' = (content # file \/ ~Sound(at[Caller]))
    /\ UNCHANGED rx

(* What the application sends next.                                        *)
koe_media_chunk_build ==
    /\ tx.state = "ACCEPTED" /\ tx.chunks < tx.offer.count
    /\ ChunkReadable(tx.chunks)
    /\ koe_transport_send(Caller, ChunkPacket(tx.chunks))
    /\ UNCHANGED mediaVars

(* Mutant: DONE follows the last chunk, of which an empty file has none.   *)
DoneAfterLastChunk ==
    /\ tx.state = "ACCEPTED" /\ tx.chunks = tx.offer.count /\ tx.chunks > 0
    /\ koe_transport_send(Caller, DonePacket)
    /\ UNCHANGED mediaVars

koe_media_done_build ==
    /\ tx.state = "ACCEPTED" /\ tx.chunks = tx.offer.count
    /\ koe_transport_send(Caller, DonePacket)
    /\ UNCHANGED mediaVars

(* The packet is in the buffers: an offer waits for its ACK, after a chunk *)
(* comes the next one, after DONE nothing.                                 *)
PacketSent ==
    /\ call[Caller] = Sent(TRUE)
    /\ call' = [call EXCEPT ![Caller] = Idle]
    /\ tx' = CASE tx.state = "OFFERING" -> [tx EXCEPT !.state = "OFFERED"]
               [] tx.state = "ACCEPTED" /\ tx.chunks < tx.offer.count ->
                     [tx EXCEPT !.chunks = @ + 1]
               [] OTHER -> [tx EXCEPT !.state = "DONE"]
    /\ UNCHANGED <<connVars, streamVars, file, rx, offers, disturbed>>

(* The call is made again later, perhaps over another connection.          *)
PacketNotSent ==
    /\ call[Caller] = Sent(FALSE)
    /\ call' = [call EXCEPT ![Caller] = Idle]
    /\ UNCHANGED <<connVars, streamVars, mediaVars>>

OfferAgain ==
    /\ tx.state = "OFFERING"
    /\ koe_transport_send(Caller, OfferPacket(tx.offer))
    /\ UNCHANGED mediaVars

WaitForAck ==
    /\ tx.state = "OFFERED"
    /\ koe_transport_recv(Caller)
    /\ UNCHANGED mediaVars

(* Anything but the ACK of this offer is passed over.                      *)
AckArrives ==
    /\ In(Caller, "got")
    /\ call' = [call EXCEPT ![Caller] = Idle]
    /\ LET pkt == call[Caller].pkt
       IN IF pkt.type = "ACK" /\ pkt.id = tx.offer.id
          THEN tx' = [tx EXCEPT !.state = IF pkt.accept THEN "ACCEPTED" ELSE "REJECTED"]
          ELSE UNCHANGED tx
    /\ UNCHANGED <<connVars, streamVars, file, rx, offers, disturbed>>

(* The application gives the transfer up, as it has to when chunk_build    *)
(* returns -1.                                                             *)
GiveUp ==
    /\ call[Caller] = Idle
    /\ tx.state \in {"OFFERING", "OFFERED", "ACCEPTED"}
    /\ tx' = [tx EXCEPT !.state = "FAILED"]
    /\ disturbed' = TRUE
    /\ UNCHANGED <<transportVars, file, rx, offers>>

-----------------------------------------------------------------------------
(* The receiver.                                                           *)

WaitForPacket ==
    /\ koe_transport_recv(Listener)
    /\ UNCHANGED mediaVars

Arrived(type) ==
    In(Listener, "got") /\ call[Listener].pkt.type = type

(* koe_media_offer_parse, koe_media_accept_build and the opening of the    *)
(* file; a transfer that was going on is abandoned.                        *)
Answer(accept) ==
    LET offer == call[Listener].pkt.offer
    IN call' = [call EXCEPT ![Listener] =
                   Sending(Frame(AckPacket(offer.id, accept), begun[at[Listener]][Listener] + 1))]

koe_media_accept_build ==
    /\ Arrived("OFFER")
    /\ begun[at[Listener]][Listener] < MaxPackets
    /\ Answer(TRUE)
    /\ rx' = [state |-> "RECEIVING", offer |-> call[Listener].pkt.offer, chunks |-> 0,
              saved |-> << >>]
    /\ UNCHANGED <<connVars, streamVars, file, tx, offers, disturbed>>

koe_media_reject_build ==
    /\ Arrived("OFFER")
    /\ begun[at[Listener]][Listener] < MaxPackets
    /\ Answer(FALSE)
    /\ UNCHANGED <<connVars, streamVars, mediaVars>>

AnswerSent ==
    /\ In(Listener, "sent")
    /\ call' = [call EXCEPT ![Listener] = Idle]
    /\ disturbed' = (disturbed \/ ~call[Listener].ok)
    /\ UNCHANGED <<connVars, streamVars, file, tx, rx, offers>>

(* The index is not looked at: the data goes to the end of the file.       *)
koe_media_chunk_receive ==
    /\ Arrived("CHUNK") /\ rx.state = "RECEIVING"
    /\ call' = [call EXCEPT ![Listener] = Idle]
    /\ rx' = [rx EXCEPT !.saved = @ \o call[Listener].pkt.data, !.chunks = @ + 1]
    /\ UNCHANGED <<connVars, streamVars, file, tx, offers, disturbed>>

(* write() fails: the application gives the transfer up.                   *)
ChunkNotWritten ==
    /\ Arrived("CHUNK") /\ rx.state = "RECEIVING"
    /\ call' = [call EXCEPT ![Listener] = Idle]
    /\ rx' = [rx EXCEPT !.state = "ABANDONED"]
    /\ disturbed' = TRUE
    /\ UNCHANGED <<connVars, streamVars, file, tx, offers>>

(* The hash of the written file is compared with that of the offer.        *)
koe_media_finalise ==
    /\ Arrived("DONE") /\ rx.state = "RECEIVING"
    /\ call' = [call EXCEPT ![Listener] = Idle]
    /\ rx' = [rx EXCEPT !.state = IF rx.saved = rx.offer.sha256 THEN "DONE" ELSE "FAILED"]
    /\ UNCHANGED <<connVars, streamVars, file, tx, offers, disturbed>>

(* Errors, bytes that are not a packet, and packets of no transfer.        *)
PassOver ==
    /\ In(Listener, "got")
    /\ ~Arrived("OFFER")
    /\ rx.state = "RECEIVING" => ~Arrived("CHUNK") /\ ~Arrived("DONE")
    /\ call' = [call EXCEPT ![Listener] = Idle]
    /\ UNCHANGED <<connVars, streamVars, mediaVars>>

-----------------------------------------------------------------------------
(* The connections, the network and the user of the file.                  *)

Connect == (koe_transport_connect \/ koe_transport_accept) /\ UNCHANGED mediaVars

Disconnect(n) ==
    /\ koe_transport_disconnect(n)
    /\ disturbed' = (disturbed \/ tx.state # "DONE" \/ n = Listener \/ stream' # stream)
    /\ UNCHANGED <<file, tx, rx, offers>>

Break(c) ==
    /\ ConnectionLost(c)
    /\ disturbed' = TRUE
    /\ UNCHANGED <<file, tx, rx, offers>>

(* The file is looked at only while a transfer is going on.                *)
FileChanges(content) ==
    /\ tx.state \in {"OFFERING", "OFFERED", "ACCEPTED"}
    /\ content # file
    /\ file' = content
    /\ disturbed' = TRUE
    /\ UNCHANGED <<transportVars, tx, rx, offers>>

(* A call that fails within a frame disturbs the transfer.                 *)
Step(n) ==
    /\ CallStep(n)
    /\ disturbed' = (disturbed \/ cut' # cut)
    /\ UNCHANGED <<file, tx, rx, offers>>

SenderStep ==
    \/ koe_media_chunk_build \/ koe_media_done_build
    \/ PacketSent \/ PacketNotSent \/ OfferAgain
    \/ WaitForAck \/ AckArrives

ReceiverStep ==
    \/ WaitForPacket
    \/ koe_media_accept_build \/ koe_media_reject_build \/ AnswerSent
    \/ koe_media_chunk_receive \/ ChunkNotWritten \/ koe_media_finalise
    \/ PassOver

Next ==
    \/ \E content \in Files : koe_media_offer_build(content) \/ FileChanges(content)
    \/ SenderStep \/ GiveUp
    \/ ReceiverStep
    \/ Connect
    \/ \E n \in Nodes : Disconnect(n) \/ Step(n)
    \/ \E c \in Conns : Break(c)

Spec == Init /\ [][Next]_vars

(* Both applications go on with what they are doing, calls make progress   *)
(* and a connection that was made is accepted.                             *)
FairSpec ==
    /\ Spec
    /\ WF_vars(SenderStep)
    /\ WF_vars(ReceiverStep)
    /\ WF_vars(koe_transport_accept /\ UNCHANGED mediaVars)
    /\ \A n \in Nodes : WF_vars(Step(n))

-----------------------------------------------------------------------------

(* A hash that does not match has a cause: when koe_media_finalise refuses *)
(* a file, then the file changed after it was offered, or a connection or  *)
(* a call failed.  The order of the chunks, which the receiver takes on    *)
(* trust, their number and the size of the last one never are the cause.   *)
RefusalHasCause ==
    rx.state = "FAILED" /\ rx.offer.id = tx.offer.id => disturbed

(* An undisturbed offer is rejected or ends with the file at the receiver. *)
TransferCompletes ==
    \A id \in 1..MaxTransfers :
       tx.offer.id = id /\ ~disturbed ~>
          \/ disturbed \/ tx.state = "REJECTED"
          \/ rx.state = "DONE" /\ rx.offer.id = id
          \/ offers > id

=============================================================================
