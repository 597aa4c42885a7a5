# A TLA+ model of koe-core

koe-core is the C library of a peer-to-peer messenger. These modules model the
parts of it that keep state between calls, check them with TLC on small
instances and prove the main safety properties with TLAPS for every value of
the constants. Paths below are relative to the repository root;
`PROJECT.json` maps each definition to the lines it models.

## The system

`koe_core.c` owns one `koe_ctx_t` and the application calls it from a main
loop. Around it are:

| part | code | module |
|---|---|---|
| session table, message calls | `koe_session.c`, `koe_core.c`, `koe_message.c` | `SessionTable`, `Messaging` |
| channels | `koe_channel.c` | `Channel`, `Messaging` (partly) |
| event ring, listeners | `koe_event.c` | `EventFifo`, `EventRing`, `EventDispatch` |
| plugins | `koe_plugin.c` | `EventDispatch` (partly) |
| offline queue | `koe_queue.c`, `koe_db.c` | `OfflineQueue` |
| context, accounts, contact book | `koe_core.c`, `koe_account.c`, `koe_identity.c` | `KoeCore` (partly) |
| files of an account, backup, travel mode | `koe_crypto.c`, `koe_account.c`, `koe_backup.c`, `koe_ghost.c` | `DataDir` (partly) |
| handshake | `koe_handshake.c`, `koe_crypto.c` | `Handshake` |
| versions | `koe_version.c` | `Version` |
| fragmentation | `koe_packet.c` | `Fragmentation` (partly) |
| TCP connections and frames | `koe_transport.c`, `koe_packet.c` | `Transport` (partly) |
| file transfer | `koe_media.c` | `MediaTransfer` |
| presence | `koe_presence.c` | `Presence` (partly) |
| message store, timers | `koe_store.c`, `koe_db.c`, `koe_message.c` | `MessageStore` (partly) |

## The modules

**SessionTable, Channel, Messaging.** The array of slots and its separate
counter; the linked list of subscribers and the loop over it. `Messaging`
composes them with the calls of `koe_core.c` and the packets they queue, texts
and file offers. The main thread owns all of it, so a call is one step; only
`koe_channel_post` is several, because `send_fn` runs in the middle. Ages are
relative and capped. `KeyPeer` says with whom a handshake agrees on a key.

**EventFifo, EventRing, EventDispatch.** `EventFifo` is the promise: a bounded
queue that loses only its oldest event, and only when full. `EventRing` is the
code, one step per atomic operation, with a slot that is `Torn` while it is
written. `EventDispatch` extends `EventFifo` with what `koe_event_poll` does to
an event: plugins, then a loop over a listener array that callbacks change.

**OfflineQueue.** Rows survive a crash; the handle and the packet being sent do
not. Any allocation and any statement may fail: the count is then 0, the row
stays although its packet is handed out, or the push inserts beside a full
backlog. Histories (`undeleted`, `overfull`) record where this happened.
`send_fn` may push and pop in the middle of a drain.

**KoeCore.** Start, switch, shutdown and the calls between them. A database
connection is a handle, so that a closed one that is still referenced can be
told from the open one. Every step that can fail may fail, and `koe_init` may be
called on a running context, which it zeroes (`leaked`). To use the closed
connection that a switch leaves in the queue is undefined. The model takes these
outcomes: nothing is inserted, or, where the freed memory is that of the
connection opened since, the row goes there.

**DataDir.** Every save truncates its file and then writes it. An operation is
therefore a list of writes, and a crash may come between any two of them. The
backup may also move to a device with an empty data directory. Exports and
imports come at any time, with an open account or none, and an export may skip
any file. `Kept` maps a passphrase to what the 256 bytes in memory keep of it.

**Version, Handshake.** A context per peer and direction, as the functions of
`koe_handshake.c` ask. Packets are lost, and a handshake may be started again.

**Fragmentation.** A payload is a sequence of pieces; counts are bytes and wrap.
The reassembly context keeps what the code leaves in it after a complete packet,
and the caller may zero it at any time or never. A copy from a null pointer ends
the process, which starts again with a zeroed context.

**Transport, MediaTransfer.** A frame is two units, its length and its body. A
call moves one unit per step and may time out in between. `MediaTransfer`
composes it with the two applications of a file transfer, in the order of the
diagram in `include/koe_media.h`.

**Presence.** The dense array with its compaction, and the bytes that vacated
slots keep.

**MessageStore.** Rows with AUTOINCREMENT numbers, and messages in memory with
a timer of their own. An insert may fail; the number that the caller then finds
in `msg->id` is the one the connection inserted last, in whatever table.

A definition whose comment begins "Mutant" is a deliberately wrong version
of the definition below it. It is not part of any specification; it records
that the property it belongs to can fail.

## What the runs show

| run | properties | bounds |
|---|---|---|
| `session` | counter equals active slots; inactive slots are erased; a shadowed duplicate is reclaimed; a queued text is encrypted with a key of its addressee; a post reaches each steady subscriber once and returns | 2 slots, 2 peers, 3 keys, two of them with one peer: full, refilled and duplicated tables; the list grows and shrinks under the loop |
| `ring` | the ring refines `EventFifo` until a drop races; polls empty it | 2 slots, counter modulo 4, 5 posts, one producer: fills, drops and wraps |
| `dispatch` | order, conservation, each listener called once unless it is moved behind the loop, flag and VM of a plugin in step, the poll ends | 2 pending, 3 posts, 3 listeners, 1 plugin |
| `queue` | handed out again only after a failed DELETE; in order; only oldest or expired rows leave; a push and the whole backlog exceed the limit only by failures | 2 peers, limits 1 and 2, 4 rows, 1 restart, any number of failures |
| `core` | the database in use follows the account, other connections are open only after a repeated `koe_init`; contacts and queue rows stay with their account | 2 accounts, 1 peer, 3 connections; accounts symmetric |
| `handshake` | keys and versions match; compatible builds complete | 3 builds, one incompatible pair, 3 starts in all: crossing, repeated and lost ones |
| `fragmentation` | delivered is what was fragmented, but for repeats and wrapped counts; calm packets are delivered | byte modulo 4; counts 2, largest, wrapped to 0 and 1, empty; 2 packets with a duplicate |
| `presence` | exact and unobservable expiry; silence ends online and typing | 3 peers for 2 entries |
| `store` | a row number means one message; the sweep agrees with the message | 2 messages, 2 rows, 1 failed insert, with and without a timer |
| `files` | memory matches the files until an import; one crash does not lose the identity; a restore completes | 2 passphrases, one longer than the buffer, 1 PIN, 2 crashes or moves: one may hit the restore after another |
| `transfer` | frames stay frames; calls return; a refusal has a cause; undisturbed transfers complete | an empty file and one of a full and a short chunk, 2 connections, 4 frames each, buffers of one frame |

One run expects a violation of a sentence of the repository. `ring_full`: a drop
on a full ring that meets a poll between its load and its plain store of `head`
yields a half-written, repeated or reordered event
(`include/koe_event.h:272-273`).

### Limits of what is shown

These restrictions decide what a passing run means.

- **Repeated fragments.** The code counts a repeated fragment twice
  (`src/koe_packet.c:256`), so a packet may be reported complete with a hole.
  `DeliveredIsSent` excuses such packets from being complete, and only them;
  that nothing foreign is mixed in is still checked. After a complete packet a
  repeated fragment is copied from a null pointer (`src/koe_packet.c:271`).
- **Truncated packets.** The number of fragments is cast to a byte
  (`src/koe_packet.c:197`). A delivered packet is compared with the whole
  payload, and only payloads of 256 pieces or more are excused. Once the count
  of received fragments wraps, pieces of two packets may be mixed.
- **The reassembly context** is not reset after a complete packet, and
  `include/koe_packet.h` does not ask the caller to do it. If the caller does
  not, every later packet is refused (`src/koe_packet.c:246`).
  `EventuallyDelivered` speaks of callers that do, and of undisturbed packets:
  a lost fragment has the same effect.
- **A listener that is moved.** `koe_event_unregister` moves the last listener
  into the gap. From a callback it can move one behind the loop before its turn
  (`src/koe_event.c:71`), and that one misses the event, against
  `include/koe_event.h:222`. `CalledOnce` says so, and that nobody else misses
  it. Nothing is said of the order of the calls, which the move changes.
- **Queue.** A packet is handed out at most once only if `DELETE` succeeds;
  while it keeps failing, `koe_queue_drain` does not end. Each count, `SELECT`
  or `DELETE` that fails may let the backlog grow by one row. `SequenceOrder`
  takes the wall clock as monotonic; the code calls the sequence number
  "monotonic approx" (`src/koe_queue.c:42`), and after the clock is set back
  later packets overtake earlier ones. Rows that are expired are handed out like
  others, and nothing under `src/` expires them.
- **Connections.** A `koe_init` on a running context loses the open connection
  (`src/koe_core.c:36`); `DbFollowsAccount` says that nothing else leaks one.
- **Row numbers.** After a failed insert `msg->id` holds the number of another
  row (`src/koe_db.c:170`). `NumberMeansOneMessage` is about the numbers of
  calls that returned 0.
- **Erased keys.** `InactiveErased` is about slots out of use. `koe_shutdown`
  leaves the keys of sessions in use in memory, against `include/koe.h:209-210`;
  no property covers that. `ShadowedReclaimed` needs an application that calls
  `koe_poll`.
- **`FifoOrder` and `Conserved`** are properties of the abstract queue. They
  apply to the code through `RingIsFifo`, hence until a drop races.
- **`RingIsFifo` is conditional**: it demands nothing of a step after which
  `raced` holds. `ring_full` shows what then happens. Two producers are not
  checked; the code calls the ring single-producer.
- **`PollDrains` after a race** holds because the counter wraps. With the real
  modulus 2^32 that is billions of stale events.
- **A handshake started anew with a packet under way** is excused from
  `KeysMatch`: the late answer is combined with the new key pair
  (`src/koe_handshake.c:93`). Packets are not duplicated.
- **A failed enable of a loaded plugin** leaves it loaded without a VM
  (`src/koe_plugin.c:110`). `LoadedHasVm` excuses this case; dispatch then ends
  the process, which the model does too. A function is registered as a listener
  once.
- **`send_fn` does not remove the subscriber it is called for**: the loop would
  read a freed node (`src/koe_channel.c:69`).
- **`QueuedForPeer` is about texts and their addressee, not about readability.**
  The offers of `koe_send_file` are encrypted with the key of a zeroed session
  (`src/koe_core.c:277`) and are excused. A queued text stays encrypted with the
  key of the moment it was sent; after a new handshake the peer may not be able
  to read it.
- **`MemoryMatchesFiles`** holds until an import replaces the files under an
  open account, and again once the registry is loaded anew. The passphrase in
  memory is the beginning of the one that opens the file
  (`src/koe_account.c:140`, `:174`, `:221`).
- **`IdentityRecoverable` and `RestoreCompletes`** need a sound archive: made
  with the account open, no import since its log-in, and no file skipped. An
  export that skips a file returns 0 all the same (`src/koe_backup.c:86`), and
  one made at another time may replace a good archive by one with a torn
  identity. The identity survives one crash, not two. On an empty device an
  import skips the identity file (`src/koe_backup.c:204`), so `RestoreCompletes`
  speaks of a data directory that has `accounts/`. A change of passphrase needs
  the working directory `<data_root>/accounts` (`src/koe_account.c:215`).
- **Writes succeed in `DataDir`**: the code does not look at the results of
  `fwrite`. Files open for writing, the data root exists, and memory for the
  archive can be allocated (`src/koe_backup.c:60-63` ignores when it cannot).
- **A call that fails within a frame** leaves the stream out of step, and bytes
  may pass for a packet. `GarbageOnlyAfterCut` and `EveryPacketInOrder` say that
  nothing else does this, and that a new connection is clean. The code has no
  way to recover on the old one.
- **The transfer's applications** are not part of the library. They are taken to
  follow `include/koe_media.h`: one transfer at a time, chunks in order,
  disconnect before connecting again. Decryption with the session succeeds,
  which supposes an offer built with the session of the peer and not with the
  zeroed one of `koe_send_file`. The ACK at the end of the diagram, to which
  nothing answers, is left out.
- **Weak memory** is not modelled: atomic operations interleave.

## Fairness

- `session`: between posts time passes and `koe_poll` cleans up; it calls
  `koe_sessions_cleanup(ctx, 300)` itself (`src/koe_core.c:539`). This is strong
  fairness, because posts disable both again and again. A post that has begun
  goes on: `send_fn` returns.
- `ring`, `dispatch`: a started post finishes and the main loop keeps polling.
- `presence`: time passes; nothing is assumed of the sweep.
- `handshake`, `fragmentation`: what the medium has not lost is delivered. That
  the caller zeroes the reassembly context is a hypothesis of the property
  (`calm`), not an assumption of fairness.
- `files`: an operation goes on unless the program crashes, and **the
  application imports the backup when it cannot log in** (strong fairness: other
  operations may come in between).
- `transfer`: calls progress, since the kernel moves data or lets a timeout
  expire; both applications go on and accept connections.

`queue` and `store` have no fairness: nothing under `src/` calls
`koe_queue_expire` or the self-destruct sweep, so no liveness of either is
stated.

## What is proved

Every safety property that a passing run checks has a theorem for all values of
the constants. Each proof goes through an inductive invariant, with one lemma
per action.

| module | theorems | inductive invariant |
|---|---|---|
| `MessagingProofs` | type, `CountMatchesActive`, `InactiveErased`, refusal only when full | their conjunction |
| | `Messaging` implements `SessionTable`, hence its invariants | |
| | `QueuedForPeer` | with `SlotKeyOfPeer`: the key of a slot in use was agreed with its peer |
| | `PostReachesEach` | with `LoopAt`: the loop stands at a place in the list, before which everybody who stayed was reached once and after which nobody was |
| `IncomingProofs` | `DeliveredIsSent` | with `ContextOK`: a context in use, also one left behind by a complete packet, belongs to one sent packet, each piece it holds is in its place, and it counts no piece twice unless one was repeated |
| | type, `FifoOrder`, `Conserved` of `EventFifo`, and again under the dispatch | their conjunction |
| | `CalledOnce` | with `CalledUpTo`: a listener that stays is called once below the index and not yet above it, and one that was moved behind the loop not at all |
| | `LoadedHasVm` | with the type of the two flags |
| `EventRingProofs` | `RingIsFifo` with one producer: every step of the ring is a step of `EventFifo` or none | `Ordered`: `head` and `tail` are two unbounded counts modulo `Wrap`, and the slots between them hold consecutive posts |
| `StorageProofs` | queue: type, `HandedOutOnce`, `SequenceOrder`, `OnlyOldestOrExpiredLeave`, `PushRespectsLimit`, `BacklogBounded` | the invariants, with `lastSeq` not in the future, no limit above the largest so far, and finitely many rows, which the counting needs |
| | store: type, `NumberMeansOneMessage`, `SweepMatchesMessage` | with bounded ids and timers whose two fields agree |
| | files: `MemoryMatchesFiles`, `IdentityRecoverable` | with what the writes still to come will leave in each file, what a sound archive holds, and which of the two copies may be torn meanwhile |
| `CoreProofs` | type, `DbFollowsAccount`, `ContactIsolation`, `QueueIsolation` | with `BookFollowsAccount`: the loaded book belongs to the loaded account |
| | negotiation, type, `KeysMatch`, `VersionsMatch` | with what each packet under way says about both contexts, and that a pair without a late start has at most one |
| | `ExpireExact`, `ExpiryUnobservable` | one entry per peer; in the sweep, `SweepOK`: nothing before the index is stale, and what was not stale is still there once |
| `WireProofs` | `GarbageOnlyAfterCut`, `EveryPacketInOrder` | `TransportInv`: numbers rise along each direction of a connection, and until a call fails within a frame the units in flight are the ones between the last read and the last written |
| `SenderProofs`, `MediaTransferProofs` | `RefusalHasCause` | `TransferInv`: until something disturbs it, each frame in flight is the one the transfer's script has at that place, the sender has begun a prefix of the script, and the receiver has saved the chunks of the frames it dealt with |

They rest on the named assumptions on constants, ideal cryptography, and the
restrictions above. The bounds are constants of the modules, so the theorems
hold for each value of them; `IdentityRecoverable` itself speaks of one crash.
`IncomingProofs` puts two components into one module, `StorageProofs` and
`CoreProofs` three each; the components share no variable, and their definitions
have names of their own for that reason. `SenderProofs` builds on `WireProofs`
and `MediaTransferProofs` on both: that packets follow the script rests on
frames staying frames.

The sweep of `Presence` is a loop, modelled as a recursive function of the
number of its iterations. That its loop invariant holds after each of them is
proved by looking at the least number for which it would not; that there is one
follows from the library's theorem that the strict subset relation on finite
sets is well founded.

Only model-checked is all liveness, which is outside the prover's reach:
`ShadowedReclaimed`, `PostReturns`, `PollDrains`, `PollReturns`,
`Completes`, `EventuallyDelivered`, `SilentGoesOffline`, `TypingLapses`,
`RestoreCompletes`, `CallsReturn` and `TransferCompletes`. What several of them
rest on is a safety fact, and that part is proved for every value of the
constants. What is left to fairness is that the steps are taken. (`GoneForGood`
of `StorageProofs` says the same of the queue, where no fairness is justified: a
row that has left stays away, and a row that stays keeps its expiry.)

| liveness | safety core, stated and proved in the proof module | what it says |
|---|---|---|
| `Completes` | `NeverStranded` (`CoreProofs`) | an initiator that waits, with a compatible peer and nothing lost since its start, has a packet under way that will not be refused |
| `SilentGoesOffline` | `OnlyUpdatesShow` (`CoreProofs`) | without an update of a peer its answer stays or becomes offline: ticks, typing packets, sweeps and updates of others never bring it back |
| `PollReturns` | `CallsBounded` (`IncomingProofs`) | at most `KOE_MAX_LISTENERS` callbacks run for an event, whatever they register |
| `ShadowedReclaimed` | `ShadowedAges` (`MessagingProofs`) | nothing refreshes a session that an earlier one shadows; it gets older or is erased |
| `PostReturns` | `PostShrinks` (`MessagingProofs`) | the list ahead of the loop never grows, and a node the loop has left is not ahead of it again |
| `TransferCompletes` | `WrittenSoFar` (`MediaTransferProofs`) | undisturbed, the receiver has written exactly the chunks of the file it has dealt with, from the start and without a gap |

## Not modelled

- **Audio**: codec calls; its counters and its jitter buffer are written and
  never read.
- **Matrix bridge**: one HTTP request per call to an external server.
- **Revocation**: one signed record is built or verified; no state.
- **Discovery and WebSocket** of the transport: single datagrams, and framing
  for another program.
- **The ghost-mode filter** and the subscriber's side of a channel: functions of
  their arguments.
- **Cryptographic primitives** are libsodium's and ideal. Byte layouts and
  checksums of packets are left out.
- **Stubs**: scheduled messages, server backup and device migration, the Redis
  cache, `koe_store_get`.

## Other disagreements seen

Read off the code while modelling; no run checks them. The first group follows
directly from modelled behaviour and is listed in `PROJECT.json`.

- After `koe_switch_account` the queue refers to the closed connection
  (`include/koe.h:224-225`). `KoeCore` models this.
- `koe_handshake_start` and `koe_handshake_process` lose the ephemeral key
  between the rounds, so the keys do not match (`include/koe_crypto.h:56`).
- The moved listener, repeated and truncated fragments, the reassembly context
  that is not reset, late answers, failed enables, the ignored `DELETE`, the
  exceeded cap, rows that do not expire, the zero key of file offers, the
  shortened passphrase, the restore on an empty device and the path of
  `koe_account_change_passphrase`, as above.
- `koe_send_text_scheduled` never sends (`include/koe.h:250`);
  `koe_send_to_peer` always returns -1 (`include/koe.h:383`).

Others:

- `koe_shutdown` does not zero the sessions in use (`include/koe.h:209-210`).
- A registry that exists but cannot be opened counts as a fresh install
  (`src/koe_account.c:58`).
- A switch of account leaves the old sessions in the table
  (`include/koe_account.h:5-6`).
- `koe_contact_remove` changes only memory, and a save only inserts or updates,
  so the row of a removed contact stays.
- `koe_store_wipe` deletes only rows with a timer (`src/koe_store.c:78`), and
  `koe_store_delete` compares a message id with row numbers.
- Nothing calls `koe_store_sweep_destruct`, against `src/koe_event.c:156` and
  `README.md:273`.
- A plugin exception is counted and does not disable the plugin
  (`include/koe_plugin.h:21-23`).
- Presence compares a transport with a presence state (`src/koe_presence.c:42`).
- A crash in `koe_travel_mode_enable` leaves an empty file, with which travel
  mode is active (`src/koe_ghost.c:95`).

## Further work

1. The ring after a raced drop: which of the promises of `EventFifo` survive.
2. Several transfers at once over one connection: chunks carry no transfer id.
3. The contact book's remaining operations and the profile file.
