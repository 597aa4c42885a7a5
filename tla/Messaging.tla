----------------------------- MODULE Messaging ------------------------------
(***************************************************************************)
(* The session and message calls of src/src/koe_core.c over the session    *)
(* table, together with a broadcast channel that the node owns.  All of    *)
(* them run on the main thread, which is inside koe_channel_post until its *)
(* loop is over; meanwhile only send_fn changes anything.                  *)
(*                                                                         *)
(* Whether a packet can be decrypted depends on the session the peer used, *)
(* of which this node knows nothing: it is a choice of the environment.    *)
(***************************************************************************)
EXTENDS SessionTable, Channel

CONSTANT KeyPeer    \* the peer with whom a handshake agrees on a key

ASSUME MessagingAssumption ==
    /\ Subscribers \subseteq Peers
    /\ KeyPeer \in [Keys -> Peers]

VARIABLE outbox     \* packets that were pushed to the queue and not popped yet

messagingVars == <<vars, channelVars, outbox>>

MessagingInit == Init /\ ChannelInit /\ outbox = {}

Text(p, k) == [type |-> "text", to |-> p, key |-> k]

(* koe_media_offer_build takes the key of the session it is given.         *)
Offer(p, k) == [type |-> "offer", to |-> p, key |-> k]

(* The main thread is not in koe_channel_post.                             *)
MainIdle == post = NoPost

-----------------------------------------------------------------------------
(* Sessions.                                                               *)

(* A handshake with p yields a key that no session has and nothing is      *)
(* encrypted with.                                                         *)
Fresh(p, k) ==
    /\ KeyPeer[k] = p
    /\ \A i \in Slots : entries[i].sess # k
    /\ \A m \in outbox : m.key # k

(* Both koe_session_establish and a HELLO or HELLO_ACK that is finalised   *)
(* add a session, whatever the table already holds for the peer.           *)
koe_session_establish(p, k) ==
    /\ MainIdle /\ Fresh(p, k)
    /\ koe_session_table_add(p, k)
    /\ UNCHANGED <<channelVars, outbox>>

koe_handshake_process(p, k) == koe_session_establish(p, k)

koe_session_active(p) ==
    MainIdle /\ koe_session_table_find(p) /\ UNCHANGED <<channelVars, outbox>>

koe_session_close(p) ==
    MainIdle /\ koe_session_table_remove(p) /\ UNCHANGED <<channelVars, outbox>>

koe_sessions_cleanup(age) ==
    MainIdle /\ koe_session_table_cleanup(age) /\ UNCHANGED <<channelVars, outbox>>

koe_poll == koe_sessions_cleanup(PollAge)

TimePasses == MainIdle /\ Tick /\ UNCHANGED <<channelVars, outbox>>

-----------------------------------------------------------------------------
(* Messages.  Each call looks the session up, which refreshes it, whatever *)
(* becomes of the message; without a session nothing happens.              *)

(* Mutant: the first session in use is taken, whoever it is with.          *)
SendFirstActive(p) ==
    /\ MainIdle
    /\ \E i \in Slots :
          /\ i \in Active /\ \A j \in Slots : j < i => j \notin Active
          /\ entries' = [entries EXCEPT ![i].idle = 0]
          /\ outbox' = outbox \cup {Text(p, entries[i].sess)}
    /\ UNCHANGED <<count, channelVars>>

(* The packet is encrypted with the session found now and pushed to the    *)
(* offline queue as it is (the queue itself is OfflineQueue); a failing    *)
(* allocation leaves it out, and the caller is not told.                   *)
koe_send_text(p) ==
    /\ MainIdle
    /\ koe_session_table_find(p)
    /\ \/ \E i \in Slots : FirstMatch(i, p) /\ outbox' = outbox \cup {Text(p, entries[i].sess)}
       \/ UNCHANGED outbox
    /\ UNCHANGED channelVars

(* The offer of a file is encrypted with a zeroed session of the caller's  *)
(* stack frame and pushed to the same queue; no session is looked up.      *)
koe_send_file(p) ==
    /\ MainIdle
    /\ outbox' = outbox \cup {Offer(p, None)}
    /\ UNCHANGED <<vars, channelVars>>

(* The packet is popped to be sent, or expires.                            *)
PacketLeaves(m) ==
    MainIdle /\ outbox' = outbox \ {m} /\ UNCHANGED <<vars, channelVars>>

(* The packet is handed to the caller instead of the queue.                *)
koe_message_send_encrypted(p) == koe_session_active(p)

(* Then no peer with a connection is found: koe_peer_connect stores        *)
(* fd = -1 and nothing replaces it.                                        *)
koe_send_to_peer(p) == koe_session_active(p)

(* A message of peer p.  The request of koe_channel_subscribe, if it could *)
(* be decrypted, makes the application subscribe the sender.               *)
koe_message_recv_and_decrypt(p) ==
    /\ MainIdle
    /\ koe_session_table_find(p)
    /\ koe_channel_add_subscriber(p) \/ UNCHANGED channelVars
    /\ UNCHANGED outbox

-----------------------------------------------------------------------------
(* The channel.                                                            *)

(* send_fn, or the application between posts.                              *)
Resubscribe(p) ==
    /\ called \/ MainIdle
    /\ koe_channel_add_subscriber(p) \/ koe_channel_remove_subscriber(p)
    /\ UNCHANGED <<vars, outbox>>

Posting == PostStep /\ UNCHANGED <<vars, outbox>>

MessagingNext ==
    \/ \E p \in Peers, k \in Keys : koe_session_establish(p, k) \/ koe_handshake_process(p, k)
    \/ \E p \in Peers :
          \/ koe_session_active(p)
          \/ koe_session_close(p)
          \/ koe_send_text(p)
          \/ koe_send_file(p)
          \/ koe_message_send_encrypted(p)
          \/ koe_send_to_peer(p)
    \/ \E p \in Subscribers : koe_message_recv_and_decrypt(p) \/ Resubscribe(p)
    \/ \E m \in outbox : PacketLeaves(m)
    \/ \E age \in 0..MaxAge : koe_sessions_cleanup(age)
    \/ (PostBegins \/ koe_subscriber_list_free) /\ UNCHANGED <<vars, outbox>>
    \/ Posting
    \/ TimePasses

MessagingSpec == MessagingInit /\ [][MessagingNext]_messagingVars

(* Between posts the main loop gets to koe_poll again and again and time   *)
(* passes; a post that has begun goes on.                                  *)
MessagingFairSpec ==
    /\ MessagingSpec
    /\ SF_messagingVars(TimePasses)
    /\ SF_messagingVars(koe_poll)
    /\ WF_messagingVars(Posting)

-----------------------------------------------------------------------------

(* A text in the queue is encrypted with a key that was agreed with the    *)
(* peer it is addressed to, in spite of shadowed, closed, expired and      *)
(* replaced sessions, and never with the zero bytes of a cleared slot.  Of *)
(* the offers of koe_send_file this cannot be said: their key is zero.     *)
QueuedForPeer ==
    \A m \in outbox : m.type = "text" => m.key # None /\ KeyPeer[m.key] = m.to

=============================================================================
