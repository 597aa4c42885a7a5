------------------------------ MODULE Channel -------------------------------
(***************************************************************************)
(* The owner's side of a broadcast channel (src/src/koe_channel.c): the    *)
(* linked list of subscribers (without its counter, which nothing reads)   *)
(* and the loop of koe_channel_post, which calls the application's send_fn *)
(* once per node.                                                          *)
(* send_fn may subscribe and unsubscribe peers while the loop is at a      *)
(* node.  It does not unsubscribe that very peer: the loop would read the  *)
(* next pointer of a freed node.  There is one node per peer, so a node is *)
(* named by its peer.                                                      *)
(***************************************************************************)
EXTENDS Naturals, Sequences, SequencesExt

CONSTANTS
    Subscribers,    \* public keys that may subscribe
    NoPost,         \* koe_channel_post is not running
    ListEnd         \* the next pointer of the last node

ASSUME ChannelAssumption ==
    {NoPost, ListEnd} \cap Subscribers = {} /\ NoPost # ListEnd

VARIABLES
    subs,           \* koe_subscriber_list_t, head first
    post,           \* the node koe_channel_post is at
    called,         \* send_fn has been called for that node
    sent,           \* how often (at most 2) send_fn was called in this post
    skipped,        \* peers whose copy could not be allocated or encrypted
    stayed          \* subscribers ever since the post began

postVars == <<post, called, sent, skipped, stayed>>
channelVars == <<subs, postVars>>

ChannelInit ==
    /\ subs = << >>
    /\ post = NoPost
    /\ called = FALSE
    /\ sent = [p \in Subscribers |-> 0]
    /\ skipped = {}
    /\ stayed = {}

(* Mutant: the new node goes to the end of the list.                       *)
AppendSubscriber(p) ==
    /\ p \notin Range(subs)
    /\ subs' = Append(subs, p)
    /\ UNCHANGED postVars

(* A duplicate or a failing allocation is refused; the new node becomes    *)
(* the head.                                                               *)
koe_channel_add_subscriber(p) ==
    /\ p \notin Range(subs)
    /\ subs' = <<p>> \o subs
    /\ UNCHANGED postVars

koe_channel_remove_subscriber(p) ==
    /\ p # post
    /\ \E k \in 1..Len(subs) : subs[k] = p /\ subs' = RemoveAt(subs, k)
    /\ stayed' = stayed \ {p}
    /\ UNCHANGED <<post, called, sent, skipped>>

koe_subscriber_list_free ==
    /\ post = NoPost
    /\ subs # << >>
    /\ subs' = << >>
    /\ UNCHANGED postVars

-----------------------------------------------------------------------------
(* koe_channel_post.                                                       *)

(* The next pointer of p, as the list is now.                              *)
After(p) ==
    LET rest == {i \in 2..Len(subs) : subs[i - 1] = p}
    IN IF rest = {} THEN ListEnd ELSE subs[CHOOSE i \in rest : TRUE]

(* The channel is the node's own, as koe_channel_create makes it.          *)
PostBegins ==
    /\ post = NoPost
    /\ subs # << >>
    /\ post' = Head(subs)
    /\ stayed' = Range(subs)
    /\ UNCHANGED <<subs, called, sent, skipped>>

(* send_fn gets a copy for the node; its result is not looked at.          *)
PostSends ==
    /\ post \in Subscribers /\ ~called
    /\ sent' = [sent EXCEPT ![post] = IF @ < 2 THEN @ + 1 ELSE 2]
    /\ called' = TRUE
    /\ UNCHANGED <<subs, post, skipped, stayed>>

(* The copy cannot be allocated or encrypted: on to the next node.         *)
PostSkips ==
    /\ post \in Subscribers /\ ~called
    /\ skipped' = skipped \cup {post}
    /\ post' = After(post)
    /\ UNCHANGED <<subs, called, sent, stayed>>

(* send_fn returned.                                                       *)
PostAdvances ==
    /\ post \in Subscribers /\ called
    /\ post' = After(post)
    /\ called' = FALSE
    /\ UNCHANGED <<subs, sent, skipped, stayed>>

(* The loop is over.  The counter of posts, which nothing reads, is left   *)
(* out, and what was recorded about this post is dropped.                  *)
PostEnds ==
    /\ post = ListEnd
    /\ post' = NoPost
    /\ sent' = [p \in Subscribers |-> 0]
    /\ skipped' = {}
    /\ stayed' = {}
    /\ UNCHANGED <<subs, called>>

PostStep == PostSends \/ PostSkips \/ PostAdvances \/ PostEnds

-----------------------------------------------------------------------------

(* Broadcast: when koe_channel_post has gone through the list, send_fn was *)
(* called exactly once for each peer that was subscribed all along, unless *)
(* its copy could not be made, and at most once for any other, although    *)
(* send_fn relinks the list under the loop.                                *)
PostReachesEach ==
    /\ \A p \in Subscribers : sent[p] <= 1
    /\ post = ListEnd => \A p \in stayed \ skipped : sent[p] = 1

(* koe_channel_post returns even when send_fn subscribes a peer at every   *)
(* call: new nodes go in front of the loop, never after it.                *)
PostReturns == post # NoPost ~> post = NoPost

=============================================================================
