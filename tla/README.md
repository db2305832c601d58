# P2P Share in TLA+

This directory specifies the transfer application of this repository in TLA+,
model-checks it with TLC on small instances and proves its safety properties
with TLAPS for every instance. `PROJECT.json` lists the runs, the
theorems, the hazards the properties are aimed at, and for every definition the
lines of source that it stands for.

## The system

P2P Share moves files between two devices without a server. There are two
transports. **V3 (QUIC)** is the default: a Rust engine, run as a child process
by the Electron application and on a thread by the Android one. **V2 (UDP)** is
the legacy protocol, written once in JavaScript and once in Kotlin.

| Component | Source | State it keeps | Operations |
| --- | --- | --- | --- |
| V3 data plane | `transport-core/src/lib.rs`, `publication.rs` | source file, manifest, resume map, stream; `<digest>.part`, `<digest>`, `<digest>.lock` | send a file, receive a file, publish |
| V3 pairing | `transport-core/src/pairing.rs` | ticket (expiry, certificate, secret), the endpoint's queue, the attempt in progress | bind, accept, join |
| QUIC configuration | `transport-core/src/tls.rs` | none | idle timeout, keep-alive |
| Engine | `transport-core/src/engine.rs` | session, send permit, tasks, stdin and stdout | host, join, send, receive loop, end |
| Desktop controller | `electron/QuicBridge.cjs` | child process, pending requests, outbound flag, received files | start, request, handle, disconnect |
| Store and IPC | `src/store/useP2PStore.ts`, `electron/main.cjs`, `preload.cjs` | shown state, ticket, transfers | create, join, send, disconnect, events |
| V2 packet channel | `native-core/src/lib.rs`, `electron/ReplayWindow.cjs`, Android `ReplayWindow.kt` | send counter, highest counter, window | seal, open |
| V2 desktop transport | `electron/nativeBridge.cjs` | handshake nonces, key, per-transfer credits, caches, timers | hello, offer, chunk, flow, repair, done, complete |
| V2 Android transport | `DirectUdpTransport.kt`, `ProtocolV2.kt` | the same, under threads and locks | the same |
| Android QUIC adapter | `QuicTransport.kt`, `transport-core/src/android.rs` | pending futures, closed and sending flags, source registry | request, dispatch, close, register, release |
| Android activity | `MainActivity.kt` | session generation, transport | create, join, disconnect |
| Updaters | `electron/AppUpdater.cjs`, `AppUpdates.kt` | release, installer | check, download, install |
| Others | IPC policy, ticket codecs, optimisers, screens, tools | none of interest | pure functions |

How they interact: the **store** calls the **controller** over IPC and receives
events; the controller writes commands to an **engine**'s stdin and reads events
from its stdout; the engine **pairs** with the other device's engine over QUIC,
and then each **send** opens one bidirectional stream that the peer's **receive
loop** serves. All engines of a user share one receive directory.

What is hard, component by component, and what makes each correct:

- *Data plane.* A file is read twice by the sender while others may edit it,
  written in place and resumed by the receiver, verified, published by a rename
  and acknowledged; either side may be cancelled, die or lose power in between,
  and two receivers may meet in one directory. Correct means: what has the final
  name is the right content, on disk too; a sender reports only what is there;
  one writer per digest; progress is not lost; nobody waits for ever.
- *Pairing.* Several clients race for one ticket on three clocks. Correct means:
  one guest, the one that was told so, within the ticket's life, and no client
  can use the ticket up or block the host.
- *Engine, controller, store.* Three state machines that follow each other
  through queues, with promises that go on after the state they read has
  changed. Correct means: one engine at most, no call unanswered, a window that
  shows what there is.
- *Packet channel.* Counters that wrap the word, a window, and a network that
  reorders and duplicates. Correct means: nothing opened twice, nothing fresh
  refused.
- *V2 transports.* Handshake retries, credits, repair, parity and finalisation
  over datagrams that are lost, late or repeated, by asynchronous functions that
  go on after a disconnect. Correct means: no nonce twice under a key, one key on
  both sides, only the offered file is saved and confirmed, no more is sent than
  the receiver granted, every send ends.
- *Android adapter and activity.* Five threads around one socket pair, any of
  which may close the session while the others are inside it, and a registry that
  outlives sessions. Correct means: nobody waits on a closed session, no source is
  kept or taken by another send, an old session does not touch the new screen.
- *Updaters.* Downloads that overlap on two fixed file names, with fields read
  again after awaits. Correct means: what is installed was verified.

## The modules

| Module | What it is | Runs, proofs |
| --- | --- | --- |
| `VerifiedDelivery` | abstract: stored files, receipts and confirmed contents | refined by `FileTransfer` and `UdpTransfer` |
| `FileTransfer` | V3 data plane, both sides | `MCFileTransfer`, `FileTransferProofs` |
| `Pairing` | V3 pairing, host and guests | `MCPairing`, `PairingProofs` |
| `Engine` | the engine, one state per process or session | through the two modules that extend it |
| `DesktopSession` | desktop controller and store; composes with `Engine` | itself, `DesktopSessionProofs` |
| `AndroidSession` | Android adapter and activity; composes with `Engine` | `MCAndroidSession`, `AndroidSessionProofs` |
| `PacketChannel` | one direction of the V2 packet layer | itself, `PacketChannelProofs` |
| `UdpSession` | V2 sessions: tickets, handshake, keys, chat | `MCUdpSession`, `UdpSessionProofs` |
| `UdpTransfer` | one file over V2; implements `VerifiedDelivery` | itself, `UdpTransferProofs` |
| `AppUpdater` | the desktop updater and the home screen | itself, `AppUpdaterProofs` |

### FileTransfer

For each session one sending call (`snd`) and one receiving call (`rcv`) share a
stream (`wire`): the log of what each side wrote. The manifest, block hashes and
digest are values: with a collision-free hash a content stands for its own
digest, so `data[d] = d` says "the file under digest d has that digest". `stage`
tells which names exist for a digest, `data` and `disk` what its inode holds in
memory and on disk, `stageDisk` which names are on disk.

| Action | Code |
| --- | --- |
| `Begin`, `HashBlock`, `SendOffer` | `manifest_file` block by block, `open_bi`, first frame |
| `ReadResumeMap`, `SendBlock`, `FinishStream`, `ReadReceipt` | rest of `send_open_file_with_progress` |
| `AcceptOffer` | read and validate the offer, quota, `try_lock_exclusive` |
| `RequestNothing`, `AcknowledgeAgain` | the completed-duplicate path |
| `RequestMissing`, `ReceiveBlock`, `SyncPartial`, `VerifyWhole` | rehash, `set_len`, blocks, `sync_all`, whole-file hash |
| `Rename` / `LinkCompleted`, `UnlinkPartial` | `publication::publish` on Linux and Android / elsewhere |
| `SendReceipt` | directory sync (unix), receipt, end of the lock |
| `SenderGivesUp`, `ReceiverGivesUp` | every `ensure!`, `?` and `bail!` of the two functions |
| `SenderAborted`, `ReceiverAborted` | `abort_all` on disconnect, disk errors, death of the process |
| `EditSource`, `LoseConnection`, `DamagePartial`, `PowerLoss` | the environment |
| `PeerGone` | the close of the other end, or the idle timeout of `tls.rs` |

A call that fails after it opened the stream drops it, and quinn finishes a
dropped send stream: the receiver sees an ordinary end of stream, which is why
`SenderFails` sets `fin`. The read-ahead of two blocks in the sender only adds
delay between reading a block and writing it; reading and writing are one step
here, and what the receiver sees is the same.

A connection ends for each of its ends apart (`sndUp`, `rcvUp`). An end that is
gone stops at once; the other reads what has reached it, a receipt included, until
it learns that it is alone (`PeerGone`). After a power loss each unsynced
block reads as last written, as last synced or torn (`Hole`), the size and the
names independently as on disk or in memory, and the sender's end stays up. Damage
to a file after its whole-file hash is out of the code's reach and not modelled, and
neither is a sender whose manifest does not fit its own block hashes.

### Pairing

Time is one monotonic counter; the host's and the guests' wall clocks are
offsets of it, and the host's may be set while it waits. `accept` keeps one
attempt at a time (`host`), the endpoint queues the rest (`incoming`). Guests
hold the ticket, strangers do not; certificate and secret appear only as "the
server that answers is the one that made the ticket" and `SecretIsRight`.
`Host::bind` and `accept` are one after the other in the engine, so expiry and
deadline are taken at the same moment. A client connects once; two tries of one
guest are two `Guests`. Timers fire on time: `Tick` passes no deadline that a
task waits for.

### Engine and DesktopSession

`engine[g]` is one process with its stdin (`in`) and stdout (`out`). The peer,
pairing and files appear as the events they end in: `Pair`, `FailPairing`,
`ReceiveFile`, `EndSession`. `DesktopSession` adds the controller, at the
granularity of JavaScript: a callback is one step, the continuation of a promise
another (`Reply`, `Stated`, `DisconnectReturns`), and a settled promise goes on
before the next callback, except that one chunk of stdout may hold several lines.
The store takes events and answers from one ordered queue. A click and the
callback that it leads to in the main process are one step; the events that the
main process sent in between are in the queue either way. An engine that was told
to end is `gone` at once: nobody reads its output any more. What a dying engine
still does to files is in `FileTransfer` (another session on the directory).

Left out: progress events and chat, the byte quota, the app's own exit, and lines
that are no JSON. The machine has a LAN address. IPC messages and answers keep
their order.

### PacketChannel

One direction under one session key, with the word's shift taken modulo its width
as processors do, so that the guard against large shifts matters. Every sealed
packet stays in flight for ever, which covers loss, reordering and duplication;
forged packets arrive with any counter and fail AES-GCM.

### AndroidSession

Session `g` is a `QuicTransport` and the engine that it runs. `request[c]` is the
thread of one request: on the activity's worker for create and join, on the
session's worker for a send. `closing[g]` says how far `close()` is and on which
thread.

| Action | Code |
| --- | --- |
| `OpenSession`, `Disconnect`, `Destroy`, `SendFile`, `Submit`, `TakePost` | `MainActivity`: clicks, `onDestroy`, `onActivityResult`, posted blocks; `sendFile` up to `worker.execute` |
| `StartTask`, `StartSend`, `Write`, `Await`, `GiveUp` | the tasks of the two workers: `nativeRegister` or a staging copy, `request`, `future.get` and the `finally`s (`EndRequest`) |
| `ReadChunk`, `Dispatch` | the reader, a line at a time |
| `EngineEnded` | `nativeRun` returns, or the reader sees the end |
| `SettlePending`, `StopWorker` | `close()`: complete the futures; clear the map, shut the socket, `shutdownNow` |
| `ReadSend`, `Drain`, `EngineRuns` | the engine's thread, with the source registry |

Registering the future and writing the command are one step, since a `close()` in
between finds the future in either case; `close()` has one cut, between completing
the futures and clearing the map, which is where a request can fall. After the
socket is shut, the engine only reads what was written before (`Drain`), which is
when a stale handle could be taken. The reader takes all that is there. The
staging copy is part of the step that starts the send. A transport that cannot be
made, `onReceived`'s export to the downloads, progress and texts are left out, and
a new activity after `Destroy` starts anew.

Two things the module has and no property forbids, since no document does:
`sendFile` looks whether the session is closed before `worker.execute`, and a
close in between makes `execute` throw `RejectedExecutionException` on the thread
of the user interface (`crashed`); and a block of a session that the user left is
dropped whatever it is, a received file's export included.

### UdpSession

Controllers create, join and leave sessions; `hellos` and `sealed` hold every
datagram ever sent. A key is what it is derived from: the ticket and the two
nonces. `Cleared` keeps what `disconnect` keeps: the role and the pending
`createSession` calls, which go on after STUN and overwrite the ticket of then.

| Action | Code |
| --- | --- |
| `CreateSession`, `TicketIsMade`, `CreateFails` | `createSession` before and after `gatherNativeCandidates` |
| `JoinSession`, `Disconnect` | `joinSession` with its first probe, `disconnect` |
| `ReceiveHello`, `AckSent` | HELLO in `handlePacket`, up to `sendHelloAck` and in the `then` of it |
| `ReceiveHelloAck` | HELLO_ACK in `handlePacket` |
| `SendMessage`, `ReceiveChat` | `sendMessage`, CHAT with its acknowledgement |

An event of the legacy path reaches the window from the controller and again from
`main.cjs` (`Emissions`), so that a message that is shown once is in the list
twice. The prefix of the nonces is that of the role at the time of the key (`as`).
A click and what it calls in the main process are one step.

A host has a peer as soon as the hello comes. Its key, and "connected", come when
the send of the answer has ended (`answering`), with the ticket of then; a failed
send is passed over, and that peer has no key until it says hello again. So
`TypeOK` claims a key only for those who are connected, which is when the chat
screen lets them write. Closing the socket ends its sends, and the model has a user
type a code (`JoinSession`) no faster than a send ends: with a send still open
across a change of the role, TLC shows a host's key made by a guest.

`KeysAgree` leaves out what the code gets wrong, so it does not catch it: a host
that is said hello to again keeps its key while it answers with the new pair, and a
late `createSession` overwrites the ticket of a session in use, or the one that
an answer's key is then made with. Its premises are one pair of nonces for the
ticket and one ticket for the host; what is left is that the answer is bound to
its hello.

### UdpTransfer

One file between two connected sides; the unit is the chunk. A content is the set
of chunks it is the XOR of, so parity, holes and recovery are sets, and the digest
is the number of chunks. Lost datagrams stay in `net` and are never taken; those
that the addressee would drop are not kept.

| Action | Code |
| --- | --- |
| `BeginFile`, `ProbeAnswered`, `ProbeTimesOut` | `beginFile`, `negotiateChunkSize`, `sendOffer` |
| `SendChunkPacket`, `WaitForCredits`, `CreditTimesOut`, `SpoolWritten` | the pump, its credit, cache and spool, parity groups |
| `FinishFile`, `FinalizeTimesOut` | `finishFile`, the finalize timer |
| `OnFlow`, `OnRepair`, `OnComplete` | the sender's packets |
| `OnOffer`, `OnChunk`, `OnDone`, `OnImmediateAck`, `OnParity`, `FlushRepair` | the receiver's packets and its repair timer, with `maybeFinalizeIncoming` and `tryRecoverParity` |
| `Disconnect` | `disconnect` of either side |

The credit cap and the moments at which a grant or a repair is due without being
forced are any that pacing, round-trip times and the reordering window may choose.
Decompression is one more way for the disk to refuse. `SenderSettles` names two
leaks (`leaked`): a disconnect during the negotiation, and an error in the window's
own loop, leave the entry and the spool behind. DONE and the last chunk are not
repeated and nothing asks for them, so no delivery can be stated: what is promised
is safety, and that the sender ends. `RefusedOnlyWhenDamaged` counts a chunk that
came with the wrong bytes as damage, a repair sent as zeros included. After the
sender's disconnect the pump goes on with the peer it had (`state.peer`) and no
session key: what it sends then is unsealed and dropped by the receiver, so the
model keeps none of it. `UdpSession` says nothing of the pump's packets.

### AppUpdater

A download is an inode; names come and go. One action per await of `download`.
`RemovePartial` reads the release of now (none is a `TypeError`), `Verified`
compares with the release of then, and `RenamePartial` installs whatever has the
partial's name. `InstalledIsVerified` holds while at most two downloads overlap
and none begins before the earlier one is past its first removal (`crowded`);
beyond that, TLC shows an unverified file installed. The tag that is announced may
be that of another release. An install that finds no file only fails to start.

`release` is read in the stream's callback as well. When a check has taken it away,
the `TypeError` leaves the Transform with its callback uncalled (`ChunkThrows`),
and no chunk goes through any more. While some of the response is to come
("stalled"), the socket falls silent and its time limit ends the download; once all
of it is buffered ("hung"), nothing does. Which of the two it is going to be is
chosen when the chunk throws. `UpdateSettles` excepts the second.

## What is checked

All passing runs finish with the full state space explored. No run checks deadlock:
the bounds on what users send, open and join, or on time, let every system come to
rest. That nobody waits in vain is said by the liveness properties instead.

| Run | Question | Bounds and why they are enough |
| --- | --- | --- |
| `FileTransferRetry` | Is anything wrong ever published, or anything good lost, over retries, edits and faults? Does it implement `VerifiedDelivery`? | one session, two block values, two blocks, two transfers, one edit, two faults, publication by link and unlink: a first transfer that leaves a partial or two names, a power loss at any step, a retry |
| `FileTransferConcurrent` | Do two sessions in one directory exclude each other, and does every wait end? | two sessions, two transfers, one edit, a file over the quota: a collision, a refused offer and a retry |
| `FileTransferPowerLoss` | Is a reported file durable? **Violated** | two transfers, one fault |
| `PacketChannel` | Is the window exact? | window of 4, 10 counters: shifts below, at and beyond the width |
| `Pairing` | Who is paired, when, can a client spoil it, and do accept and join return? | two guests, one stranger, ticket life 4, limits 2/1/3, clocks off by the skew and by more |
| `DesktopSession` | Does the controller keep track, does the window tell the truth, is every call answered? | two engines, two requests, one pending, one file, one disconnect: a double click, a send during a disconnect, a refused request |
| `DesktopRespawn` | Does a disconnect stop the engine? **Violated** | two requests |
| `AndroidSession` | Does a closed session let go of its requests and sources, and of the screen? | two sessions, a send in each, room for one source, three clicks: open, leave, open again, with the first engine still reading |
| `UdpSession` | What can a late or repeated datagram of any session do? | two devices, two tickets, four nonces, one message: a session and the next one, with the roles swapped or not, and answers to two hellos under way. `JoinsOwn` is FALSE: nobody types the code of a session of his own. With it TRUE and three nonces, all four hold as well (4 million states) |
| `UdpTransfer` | Is only the offered file saved and confirmed, and does the sender end? | three chunks, first credit 2, cache 2, groups of 2 and 1: a stall, a repair from cache and spool, a full and a partial group |
| `UdpParity` | Does parity recover one missing chunk? **Violated** | three chunks, groups of 4 and 2 |
| `AppUpdater` | Can an unverified file be installed, or the button stay busy? | two releases, three mounts, three downloads: two that overlap and one that is `crowded` |

Symmetry is used in `FileTransferRetry` and `UdpSession` only, whose properties
are all of safety, for values that are used only through equality.

Every property of a passing run has a mutant: a version of one action or helper
with a plausible bug (a dropped check, a lost guard, a missing sync) under which
TLC finds it violated. They stand in front of the definition they vary and are
marked "Mutant of".

### Disagreements found

- **A repeated receipt may not be durable** (`FileTransferPowerLoss`). The
  duplicate path acknowledges a completed file without the directory sync of the
  first path. Transfer one is cancelled between rename and sync, transfer two
  acknowledges, the power fails: the sender has reported a file that is gone.
- **Disconnect may leave an engine running** (`DesktopRespawn`). `sendFilePath`
  goes on after `fs.stat` and starts a new one.
- **Parity recovers nothing** (`UdpParity`). `tryRecoverParity` reads the other
  chunks of the group from a descriptor that was opened for writing only, and the
  exception leaves the socket's message handler. Beside that, the sender counts
  groups from the chunk at which parity was switched on, the receiver from 0, with
  a size of 32 or 16, so that the two need not mean the same chunks; and PARITY
  itself never finalises a transfer.
- **An installer may be started unverified** (no run of its own: it is what
  `crowded` excepts in `InstalledIsVerified`, and TLC shows it without that
  premise). UPDATES.md:11-12 says that the application verifies the digest of the
  asset before it starts the installer. With three overlapping downloads, or two of
  which the first is still about to remove the partial, one download verifies its
  stream and then renames what another one is still writing.
- **An update may never end** (no run of its own: it is the exception in
  `UpdateSettles`). A check in another mount finds no release while a download
  streams; the next chunk throws in the callback (AppUpdater.cjs:123), and with the
  rest of the response buffered `pipeline` never settles: the button stays busy
  until the home screen is mounted again.

Met on the way, without a run of its own: after the peer left, the controller
forgets the files it received (QuicBridge.cjs:119) and the store goes on showing
them with a SAVE button that fails, where QUIC-DESKTOP.md:26 says "use SAVE to
export the file".

### Fairness

- `FileTransfer`: weak fairness of each side's own steps. The tokio runtime polls
  every ready task. The user, the network, the disk and cancellations owe
  nothing. `PeerGone` is fair: an end whose peer is gone gets its close, or hears
  nothing for the 30 s idle timeout of `tls.rs`.
- `Pairing`: weak fairness of the host's task, the guests' timers and time. No
  client owes anything.
- `DesktopSession`: weak fairness of timers, promise continuations, reads of
  stdout, the exit event and the renderer's queue. Engines and the user owe
  nothing: an engine may hang for ever, and the requests' time limits answer.
- `AndroidSession`: weak fairness of each request's thread, of `close()`, of the
  reader and the engine's thread noticing an end, and of posted blocks; threads are
  scheduled, and create and join have 15 and 25 seconds. The day that a send is
  given does not pass. Engines and the user owe nothing. Fairness of `StartSend`
  assumes that content providers answer: `openFileDescriptor` and the staging copy
  read another application's data, without a time limit, and one that says nothing
  would hold the session's worker for ever.
- `UdpTransfer`: weak fairness of the sender's pump with its time limits. The
  network, the peer, the disk and the spool owe nothing.
- `AppUpdater`: requests have time limits, and file operations return. Servers and
  the user owe nothing, and nothing is fair for a download that hangs.
- `PacketChannel`, `UdpSession`: none; their properties are of safety.

## What is proved

Every invariant and every action property of the passing runs, and both
refinements of `VerifiedDelivery`, are theorems. They hold for every value of the
constants that the named assumptions allow: any number of sessions, devices,
clients, engines, calls and downloads, any file size and block values, any window
width, credit, group and cache, any limits and clock offsets. The bounds of the
models that stay in the theorems (`MaxTransfers`, `MaxFaults`, `MaxMessages` and
their like) are constants as well.

| Module | Theorems | State |
| --- | --- | --- |
| `FileTransferProofs` | `TypeCorrect`, `PublicationIsSafe` | the invariant |
| | `CompletedFilesAreVerified`, `WritersAreExclusive`, `WholeHashNeedsAFault` | `CompletedIsVerified`, `OneWriterPerDigest`, `WholeHashHoldsWithoutFaults` |
| | `RightBlocksOutliveTransfers`, `ImplementsDelivery` | `GoodBlocksAreKept`, `DeliverySpec` |
| `PairingProofs` | `PairingTypeCorrect`, `AnsweredGuestIsPaired`, `PairingEndsWithTheTicket` | `TypeOK`, `GuestIsPaired`, `PairedWithinLife` |
| | `OnlyTimeUsesUpATicket`, `HonouredTicketsAreTaken` | `OnlyTimeFailsTheHost`, `HonouredTicketIsValid` |
| `DesktopSessionProofs` | `ControllerInvariantHolds`, `DesktopTypes` | the invariant, `TypeOK` |
| | `OneEngineRuns`, `TheSendIsCounted` | `OneEngine`, `SendsAreCounted` |
| | `DesktopInvariantHolds`, `NoGhostIsShown` | `UiShowsNoGhost` |
| `AndroidSessionProofs` | `AndroidInvariantHolds`, `AndroidTypes` | the invariant, `TypeOK` |
| | `EnginesTakeTheirSource`, `ButtonBelongsToItsSession` | `CommandTakesItsSource`, `SendButtonIsCurrent` |
| `PacketChannelProofs` | `ChannelTypeCorrect`, `WindowIsExact` | `TypeOK`, `WindowInvariant` |
| | `NoPacketIsOpenedTwice`, `FreshPacketsAreAccepted` | `OpenedAtMostOnce`, `FreshIsNotRefused` |
| `UdpSessionProofs` | `SessionInvariantHolds`, `SessionTypes` | the invariant, `TypeOK` |
| | `NoNonceIsUsedTwice`, `MessagesAreShownOnce`, `TwoSidesHaveOneKey` | `SealedOnce`, `ShownOnce`, `KeysAgree` |
| `UdpTransferProofs` | `TransferInvariantHolds`, `TransferTypes` | the invariant, `TypeOK` |
| | `SenderKeepsItsCredit`, `GoodFilesAreNotRefused` | `ReceiverIsNotOverrun`, `RefusedOnlyWhenDamaged` |
| | `TransferImplementsDelivery` | `DeliverySpec` |
| `AppUpdaterProofs` | `UpdaterInvariantHolds`, `UpdaterTypes` | the invariant, `TypeOK` |
| | `StartedInstallersAreWhole` | `InstalledIsVerified` |

How a proof is laid out: the larger modules first say, in one lemma per action,
what a step does to one session, download, request or engine, as far as the
invariants can tell (`Moves`, `Continues`, `Advances`). Each conjunct of the
invariant is then kept by the few kinds of steps that there are, in a lemma of its
own.

### Data plane

*Publication.* `CompletedIsVerified` alone is not inductive: nothing would stop a
second call from writing under a published name, and `Rename` would not know what
it renames. `PublicationInvariant` adds three facts. A working call holds the lock
of its digest, so the files of a digest belong to one call at a time and other
calls' steps leave them alone. Each call knows what its stage has established:
synced means disk equals memory, verified means both equal the digest, and until
`Rename` only the partial's name exists. And the disk's names are never ahead of
memory's, so a power loss cannot produce a name that was never given. A power loss
fails every receiving call, so their knowledge is only needed while there is none. The proof
goes action by action; the lemmas are about the updates of one session's record
and of one digest's files.

*Progress.* `GoodBlocksAreKept` is about single steps and needs only the types:
`Resized` cuts off nothing that the offer has, and `ReceiveBlock` writes what the
offer says. `WholeHashHoldsWithoutFaults` needs to know what a receiving call has
before it is done (`FillingInvariant`): as long as no fault was used, its partial
is as long as the offer and every block that is not in `todo` is right. That
nobody else writes there is `OneWriterPerDigest`, and that edits of the source do
not matter is that the offer, not the source, is compared with.

*Delivery.* The refinement maps `stored` to the digests that have a completed name
with their contents and `confirmed` to `reported`. Publishing is `Store`, reading
the receipt is `Confirm`, a power loss is `Forget`, which leaves the receipts as
they are: what is on its way or in the sender's buffers is still read when the file
is gone. `receipts` are those of the streams. A receipt is written only in
`SendReceipt` and `AcknowledgeAgain`, where `PublicationInvariant` has the file
under its final name, so both are `Acknowledge`; a new stream and the end of a
call are `LoseReceipts`. So the abstract specification promises that what is
confirmed was stored, and that it still is only where no fault occurs
(`Durable <- MaxFaults = 0`): the finding above is why.

### Pairing

`GuestIsPaired` needs that an answered client's host stays paired with it: no step
leaves `paired`. `PairedWithinLife` is read from `HostIsInTime`: until the host
settles, time has not passed the deadline, and no attempt ends after it.
`OnlyTimeFailsTheHost` is read from the steps of the host alone, and
`HonouredTicketIsValid` is arithmetic of the three clocks over the types.

### Desktop controller and store

`OneEngine` and `SendsAreCounted` come from `ControllerInvariant`. Whatever is not
the child has not begun or is over, and says nothing (`OnlyTheChildLives`), so
that nothing arrives from an engine that was left. A send is a token: it is one
command in the engine's input, or its task, or one answer in its output
(`OneToken`), it was asked for by a call that is pending (`Asked`), and there is
one such call, which `outbound` stands for (`OneSendIsOpen`). A late continuation,
as that of `fs.stat`, holds the token before the engine has it.

`UiShowsNoGhost` is about a moment when all has arrived, and is inductive only as a
statement about the queue. `WindowIsTold`: where there is no session, either an
"idle" is still to be sent, by a `disconnect` that has not returned or by the exit
of the child, or the messages on their way end with an "idle" behind everything
that opens a session, and no granted request is still unanswered. Behind it stands
that an engine tells only of a session that it has (`Honest`), and that one that
was connected stays "connected" or "over".

### Android

An engine whose socket is open is asked for one session (`OneStart`), since only
the request that opened it may ask. So a session that has paired stays so, and what
an engine, a reader or a posted block says of it is true (`NewsIsTrue`). The
activity's count goes up with every session, and the latest count is that of the
session on the screen (`EpochsFit`): an old block cannot enable the button.

A handle is given out once, and whoever names it, a request or a command in an
engine's input, is the one it was given to as long as the registry has it
(`SourcesAreTheirs`), which a closed engine that reads late cannot break. That
handles stay in the type's range needs `Counted`: no more of them were given out
than sends have passed the registry.

### V2 sessions

The argument is about nonces. A controller draws one that nobody had, keeps it for
one session and takes one key with it (`NoncesAreOwned`), so the nonce names the
sealing side of a key for ever. Whoever still has the nonce has counted every
packet that was sealed with it (`SealsAreCounted`), and a new packet takes the
next counter: `SealedOnce`. In the same way whoever still has a nonce remembers
what it opened (`OpenedIsRemembered`); since a message is sealed once,
`ShownOnce`. A host has answers under way only as a host and with its nonce
(`AnswersAsHost`), and they are on the network (`AnswersWereSent`). The key that
comes of one is made with the host's ticket of then, so it is that of an answer if
the host made one ticket (`KeysWereAnswered`); with one pair of nonces for it
there is one key: `KeysAgree`. A late `createSession`, an answer that comes again
and a disconnect between any two steps only end the use of a nonce or go on with
it.

### V2 transfer

*Credit.* `ReceiverIsNotOverrun` is proved from a ledger (`Covered`): there are
disjoint sets of received chunks, one for what the sender was granted, one for
what the receiver is about to grant, and one for every FLOW on the network, each
at least as large as its credit. A chunk that arrives for the first time adds to
the second; a repeated one, a repair or a recovery adds to none; a grant moves the
second set to a FLOW, and a FLOW that is read moves its own to the first; a lost
one only takes credit away.

*Origins.* What arrived was sent, the digest is the source's, and a COMPLETE is
only on its way when the file is saved. With the hash check, what is saved is the
source's chunks. *Refusals* follow action by action: a complete file whose chunks
are all right has the number of chunks that the digest says.

*Delivery.* `stored` is the source once it is saved and `confirmed` is what
COMPLETE confirmed; `maybeFinalizeIncoming` is `Store`, wherever it is called from,
and `OnComplete` is `Confirm`.

### Desktop updater

`InstalledIsVerified` needs the whole history of two overlapping downloads. While
it never was `crowded`, at most two run, and only the newest may be at its first
removal (`TwoRun`). The newest then finds its own partial or none, and if none,
nobody is about to create one (`NewestHasThePartial`): the other one can take a
file away but not put another in its place. Only the newest can announce an
installer, because the answer of an older mount is not listened to
(`ScreensAreTheirs`), and once one is announced the name has whole bytes or
nothing, and no running download can change that (`AnnouncedIsSettled`).

### Assumptions

Each is in the module that declares its constants, and TLC evaluates it on every
run. They say that bounds and limits are natural numbers, positive where the code
divides by them or waits for them, that a value that stands for "none" is not one of
the things it is told apart from (in `UdpSession`, `None` is neither a device nor a
number nor a key), that guests are no strangers and engines are numbered, that
Android's engines, whose sends are counted, are finitely many, and that the sizes of
parity groups are even, as 32 and 16 are.

### Only model-checked

Liveness, which TLAPS does not reach since fairness is about `ENABLED`:
`SenderSettles` of both transfers, `LockIsReleased`, `HostSettles`, `JoinSettles`,
`EveryCallIsAnswered`, `RequestsLetGo` and `UpdateSettles`. They hold on the
instances above. The three properties of the violated runs are refuted by TLC.
TLC agrees on these instances with the inductive invariants of the proofs, but for
the ledger of credits, whose sets it would have to guess.

## Not modelled

- Cryptography beyond its promises (BLAKE3 without collisions, TLS, AES-GCM, the
  constant-time comparison); packet-level QUIC; file names and paths; free space
  arithmetic; progress, speeds and wording; user interface layout; builds, CI and
  benchmarks; the optimisers under `android/` and `electron/` that no application
  code calls.
- Of the V2 desktop transport: checkpoint files, which no transfer with its fresh
  id finds again; pacing and ACK_FREQ; the limit on sends in flight; the tick that
  a chat acknowledgement sets; the checks on granted bytes, which an honest
  receiver passes.
- The V2 Android transport: the protocol is that of `UdpSession` and `UdpTransfer`,
  its threads and locks are its own.
- The Android updater, and the export of received files to the downloads.
- IPC policy, ticket codecs and compression: pure functions.

## Plan

1. *Done:* data plane, pairing and packet channel; engine, desktop and Android
   sessions; V2 sessions and transfer; the desktop updater.
2. *Done:* proofs of every safety invariant, action property and refinement that
   the runs check.
3. The Kotlin variant of V2: its timers and locks around the same packets.
4. The Android updater beside the activity that owns it.
