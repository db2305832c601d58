---------------------------- MODULE FileTransfer ----------------------------
(***************************************************************************)
(* The shared QUIC data plane (transport-core/src/lib.rs): one call of     *)
(* send_open_file_with_progress on the sending device against one call of  *)
(* receive_file_with_progress on the receiving device, for each session in *)
(* Sessions.  All receivers share one directory, as two engine processes   *)
(* of the same user do, and all senders read one mutable source file.      *)
(*                                                                         *)
(* A content is the sequence of a file's blocks.  BLAKE3 is taken to be    *)
(* free of collisions, so a content stands for its own digest, a block for *)
(* its own hash, and a manifest is the content it was computed from.       *)
(* QUIC gives each stream reliable, ordered, untampered delivery until the *)
(* connection ends, so a direction of a stream is the log of what was      *)
(* written, read by the other side at its own pace.  A connection ends for *)
(* each of its two ends apart (sndUp, rcvUp): what has reached one end is  *)
(* still read there after the other end has gone, until it notices.        *)
(***************************************************************************)
EXTENDS Integers, Sequences

CONSTANTS
  Data,           \* the possible contents of one block
  Hole,           \* what a block of the partial holds before it is written
  MaxBlocks,      \* longest file, in blocks (MAX_BLOCKS)
  Quota,          \* what the receiver is willing to accept, in blocks
  Sessions,       \* concurrent sender/receiver pairs on the one directory
  None,           \* nothing received yet; nobody holds the lock
  AtomicRename,   \* renameat2(RENAME_NOREPLACE) against link, then unlink
  SyncDirectory,  \* unix: the directory is synced before the receipt
  MaxTransfers, MaxEdits, MaxFaults   \* bounds on what the users and disks do

\* Files are sequences of blocks; every one up to MaxBlocks may be offered.
Contents == UNION {[1..n -> Data] : n \in 0..MaxBlocks}
DiskBlock == Data \cup {Hole}
Images == UNION {[1..n -> DiskBlock] : n \in 0..MaxBlocks}

ASSUME ConstantsAssumption ==
  /\ Hole \notin Data
  /\ MaxBlocks \in Nat
  /\ Quota \in Nat
  /\ None \notin Sessions
  /\ None \notin Contents
  /\ \A S \in SUBSET (1..MaxBlocks) : S # None
  /\ {AtomicRename, SyncDirectory} \subseteq BOOLEAN
  /\ {MaxTransfers, MaxEdits, MaxFaults} \subseteq Nat

VARIABLES
  source,    \* the sender's file, which other programs may edit
  snd,       \* the sending call of each session
  rcv,       \* the receiving call of each session
  wire,      \* the connection, as each end sees it, and its stream, per session
  lock,      \* <digest>.lock: the session that holds it, or None
  stage,     \* which names exist for a digest (see below)
  stageDisk, \* the same, as last forced to disk
  data,      \* contents of the inode behind those names
  disk,      \* the same, as last forced to disk
  reported,  \* contents whose sender returned a TransferResult
  budget     \* what is left of the bounds

sndVars == <<source, snd>>
dirVars == <<lock, stage, stageDisk, data, disk>>
vars == <<source, snd, rcv, wire, lock, stage, stageDisk, data, disk,
          reported, budget>>

(***************************************************************************)
(* For one digest the directory goes through four stages: no file, only    *)
(* <digest>.part, both names on one inode (link done, unlink pending), and *)
(* only <digest>.                                                          *)
(***************************************************************************)
Absent    == 0
Partial   == 1
Both      == 2
Completed == 3

HasCompleted(d) == stage[d] >= Both

SenderEnded   == {"idle", "done", "failed"}
SenderActive  == {"hashing", "awaitMap", "sending", "awaitReceipt"}
ReceiverEnded == {"waiting", "failed"}
ReceiverActive == {"locked", "receiving", "acknowledging", "synced",
                   "verified", "linked", "published"}

IdleSender == [pc |-> "idle", size |-> 0, offer |-> <<>>, todo |-> {}]
WaitingReceiver == [pc |-> "waiting", offer |-> <<>>, todo |-> {}, got |-> 0]
FreshStream == [sndUp |-> TRUE, rcvUp |-> TRUE, offer |-> None, blocks |-> <<>>,
                fin |-> FALSE, map |-> None, receipt |-> None]

Init ==
  /\ source \in Contents
  /\ snd = [s \in Sessions |-> IdleSender]
  /\ rcv = [s \in Sessions |-> WaitingReceiver]
  /\ wire = [s \in Sessions |-> FreshStream]
  /\ lock = [d \in Contents |-> None]
  /\ stage = [d \in Contents |-> Absent]
  /\ stageDisk = [d \in Contents |-> Absent]
  /\ data = [d \in Contents |-> <<>>]
  /\ disk = [d \in Contents |-> <<>>]
  /\ reported = {}
  /\ budget = [transfers |-> MaxTransfers, edits |-> MaxEdits,
               faults |-> MaxFaults]

IsLeast(i, S) == i \in S /\ \A j \in S : i <= j

-----------------------------------------------------------------------------
(***************************************************************************)
(* The sender.                                                             *)
(***************************************************************************)

\* The user picks the file: a call starts on a fresh stream, over a fresh
\* connection when the last one is gone.  manifest_file takes the size first.
Begin(s) ==
  /\ snd[s].pc \in SenderEnded
  /\ rcv[s].pc \in ReceiverEnded
  /\ budget.transfers > 0
  /\ budget' = [budget EXCEPT !.transfers = @ - 1]
  /\ snd' = [snd EXCEPT ![s] = [IdleSender EXCEPT !.pc = "hashing",
                                                  !.size = Len(source)]]
  /\ rcv' = [rcv EXCEPT ![s] = WaitingReceiver]
  /\ wire' = [wire EXCEPT ![s] = FreshStream]
  /\ UNCHANGED <<source, dirVars, reported>>

\* manifest_file hashes one block; the file may change between two blocks.
HashBlock(s) ==
  LET next == Len(snd[s].offer) + 1 IN
  /\ snd[s].pc = "hashing"
  /\ next <= snd[s].size
  /\ next <= Len(source)
  /\ snd' = [snd EXCEPT ![s].offer = Append(@, source[next])]
  /\ UNCHANGED <<source, rcv, wire, dirVars, reported, budget>>

\* open_bi, then the manifest as the first frame of the stream.
SendOffer(s) ==
  /\ snd[s].pc = "hashing"
  /\ wire[s].sndUp
  /\ Len(snd[s].offer) = snd[s].size
  /\ wire' = [wire EXCEPT ![s].offer = snd[s].offer]
  /\ snd' = [snd EXCEPT ![s].pc = "awaitMap"]
  /\ UNCHANGED <<source, rcv, dirVars, reported, budget>>

ReadResumeMap(s) ==
  /\ snd[s].pc = "awaitMap"
  /\ wire[s].sndUp
  /\ wire[s].map # None
  /\ snd' = [snd EXCEPT ![s].pc = "sending", ![s].todo = wire[s].map]
  /\ UNCHANGED <<source, rcv, wire, dirVars, reported, budget>>

\* The producer reads the next wanted block again and checks it against the
\* manifest before it is written to the stream.
SendBlock(s) ==
  /\ snd[s].pc = "sending"
  /\ wire[s].sndUp
  /\ \E i \in snd[s].todo :
       /\ IsLeast(i, snd[s].todo)
       /\ i <= Len(source)
       /\ source[i] = snd[s].offer[i]
       /\ wire' = [wire EXCEPT ![s].blocks = Append(@, source[i])]
       /\ snd' = [snd EXCEPT ![s].todo = @ \ {i}]
  /\ UNCHANGED <<source, rcv, dirVars, reported, budget>>

FinishStream(s) ==
  /\ snd[s].pc = "sending"
  /\ wire[s].sndUp
  /\ snd[s].todo = {}
  /\ wire' = [wire EXCEPT ![s].fin = TRUE]
  /\ snd' = [snd EXCEPT ![s].pc = "awaitReceipt"]
  /\ UNCHANGED <<source, rcv, dirVars, reported, budget>>

\* Mutant of ReadReceipt: the end of the stream is taken for the receipt.
ReadReceiptUnseen(s) ==
  /\ snd[s].pc = "awaitReceipt"
  /\ wire[s].sndUp
  /\ snd' = [snd EXCEPT ![s].pc = "done"]
  /\ reported' = reported \cup {snd[s].offer}
  /\ UNCHANGED <<source, rcv, wire, dirVars, budget>>

\* Only the exact digest of the offer counts as a receipt.
ReadReceipt(s) ==
  /\ snd[s].pc = "awaitReceipt"
  /\ wire[s].sndUp
  /\ wire[s].receipt = snd[s].offer
  /\ snd' = [snd EXCEPT ![s].pc = "done"]
  /\ reported' = reported \cup {snd[s].offer}
  /\ UNCHANGED <<source, rcv, wire, dirVars, budget>>

\* The conditions under which the sending call returns an error.
SenderMustFail(s) ==
  \/ snd[s].pc # "hashing" /\ ~wire[s].sndUp
  \/ /\ snd[s].pc = "hashing"
     /\ IF Len(snd[s].offer) < snd[s].size
        THEN Len(source) <= Len(snd[s].offer)
        ELSE ~wire[s].sndUp
  \/ /\ snd[s].pc = "sending"
     /\ \E i \in snd[s].todo :
          /\ IsLeast(i, snd[s].todo)
          /\ i <= Len(source) => source[i] # snd[s].offer[i]

\* The call returns.  A stream that was opened is dropped, and quinn finishes a
\* dropped SendStream: while the connection lasts, the receiver sees an ordinary
\* end of stream.
SenderFails(s) ==
  /\ snd[s].pc \in SenderActive
  /\ snd' = [snd EXCEPT ![s].pc = "failed"]
  /\ wire' = [wire EXCEPT ![s].fin = @ \/ (snd[s].pc # "hashing" /\ wire[s].sndUp)]
  /\ UNCHANGED <<source, rcv, dirVars, reported, budget>>

SenderGivesUp(s) == SenderMustFail(s) /\ SenderFails(s)

\* Disconnect aborts the task at any point.  A sending device that dies has lost
\* its end of the connection first.
SenderAborted(s) == SenderFails(s)

SenderStep(s) ==
  \/ HashBlock(s) \/ SendOffer(s) \/ ReadResumeMap(s) \/ SendBlock(s)
  \/ FinishStream(s) \/ ReadReceipt(s) \/ SenderGivesUp(s)

-----------------------------------------------------------------------------
(***************************************************************************)
(* The receiver.  d below is the digest of the offer.                      *)
(***************************************************************************)

\* Mutant of Unlocked: the guard of the lock is never dropped.
StillLocked(s) == lock

\* The lock dies with the call that holds it (drop of _guard) or its process.
Unlocked(s) == [d \in Contents |-> IF lock[d] = s THEN None ELSE lock[d]]

\* accept_bi takes each stream once.
Offered(s) == wire[s].offer # None /\ wire[s].receipt = None

\* Mutant of AcceptOffer: the result of try_lock_exclusive is ignored.
AcceptOfferAnyway(s) ==
  LET d == wire[s].offer IN
  /\ rcv[s].pc = "waiting"
  /\ wire[s].rcvUp
  /\ Offered(s)
  /\ Len(d) <= Quota
  /\ lock' = [lock EXCEPT ![d] = s]
  /\ rcv' = [rcv EXCEPT ![s] = [WaitingReceiver EXCEPT !.pc = "locked",
                                                       !.offer = d]]
  /\ UNCHANGED <<sndVars, wire, stage, stageDisk, data, disk, reported, budget>>

\* validate, quota, then try_lock_exclusive.
AcceptOffer(s) ==
  LET d == wire[s].offer IN
  /\ rcv[s].pc = "waiting"
  /\ wire[s].rcvUp
  /\ Offered(s)
  /\ Len(d) <= Quota
  /\ lock[d] = None
  /\ lock' = [lock EXCEPT ![d] = s]
  /\ rcv' = [rcv EXCEPT ![s] = [WaitingReceiver EXCEPT !.pc = "locked",
                                                       !.offer = d]]
  /\ UNCHANGED <<sndVars, wire, stage, stageDisk, data, disk, reported, budget>>

\* A completed file is verified again and nothing is asked for.
RequestNothing(s) ==
  LET d == rcv[s].offer IN
  /\ rcv[s].pc = "locked"
  /\ HasCompleted(d)
  /\ data[d] = d
  /\ wire[s].rcvUp
  /\ wire' = [wire EXCEPT ![s].map = {}]
  /\ rcv' = [rcv EXCEPT ![s].pc = "acknowledging"]
  /\ UNCHANGED <<sndVars, dirVars, reported, budget>>

\* Mutants of MissingBlocks: the size of the partial is trusted; one block more
\* than the manifest has is asked for.
BlocksBeyondSize(d) == {i \in 1..Len(d) : i > Len(data[d])}
OneBlockTooMany(d) ==
  {i \in 1..(Len(d) + 1) : i <= Len(data[d]) /\ i <= Len(d) => data[d][i] # d[i]}

\* The blocks of the partial that do not hash to what the manifest says.
MissingBlocks(d) ==
  {i \in 1..Len(d) : i <= Len(data[d]) => data[d][i] # d[i]}

\* Mutant of Resized: the partial is opened with truncate(true).
Truncated(d) == [i \in 1..Len(d) |-> Hole]

\* set_len: grow with holes, never truncate below the offer's size.
Resized(d) ==
  [i \in 1..Len(d) |-> IF i <= Len(data[d]) THEN data[d][i] ELSE Hole]

\* Open or create the partial, rehash all of it, size it and ask for the rest.
RequestMissing(s) ==
  LET d == rcv[s].offer IN
  /\ rcv[s].pc = "locked"
  /\ ~HasCompleted(d)
  /\ wire[s].rcvUp
  /\ stage' = [stage EXCEPT ![d] = Partial]
  /\ data' = [data EXCEPT ![d] = Resized(d)]
  /\ wire' = [wire EXCEPT ![s].map = MissingBlocks(d)]
  /\ rcv' = [rcv EXCEPT ![s].pc = "receiving", ![s].todo = MissingBlocks(d)]
  /\ UNCHANGED <<sndVars, lock, stageDisk, disk, reported, budget>>

\* read_exact one block, check its hash, write it in place.
ReceiveBlock(s) ==
  LET d == rcv[s].offer
      k == rcv[s].got + 1 IN
  /\ rcv[s].pc = "receiving"
  /\ wire[s].rcvUp
  /\ k <= Len(wire[s].blocks)
  /\ \E i \in rcv[s].todo :
       /\ IsLeast(i, rcv[s].todo)
       /\ wire[s].blocks[k] = d[i]
       /\ data' = [data EXCEPT ![d][i] = wire[s].blocks[k]]
       /\ rcv' = [rcv EXCEPT ![s].todo = @ \ {i}, ![s].got = k]
  /\ UNCHANGED <<sndVars, wire, lock, stage, stageDisk, disk, reported, budget>>

\* The stream ended where the resume map said it would.
AtEnd(s) == wire[s].fin /\ rcv[s].got = Len(wire[s].blocks)

\* Mutant of SyncPartial: flush without sync_all.
FlushPartial(s) ==
  /\ rcv[s].pc = "receiving"
  /\ rcv[s].todo = {}
  /\ wire[s].rcvUp
  /\ AtEnd(s)
  /\ rcv' = [rcv EXCEPT ![s].pc = "synced"]
  /\ UNCHANGED <<sndVars, wire, dirVars, reported, budget>>

\* flush and sync_all: what was written is on disk.
SyncPartial(s) ==
  LET d == rcv[s].offer IN
  /\ rcv[s].pc = "receiving"
  /\ rcv[s].todo = {}
  /\ wire[s].rcvUp
  /\ AtEnd(s)
  /\ disk' = [disk EXCEPT ![d] = data[d]]
  /\ rcv' = [rcv EXCEPT ![s].pc = "synced"]
  /\ UNCHANGED <<sndVars, wire, lock, stage, stageDisk, data, reported, budget>>

\* Mutant of VerifyWhole: the whole-file hash is not compared.
TrustBlocks(s) ==
  /\ rcv[s].pc = "synced"
  /\ rcv' = [rcv EXCEPT ![s].pc = "verified"]
  /\ UNCHANGED <<sndVars, wire, dirVars, reported, budget>>

VerifyWhole(s) ==
  /\ rcv[s].pc = "synced"
  /\ data[rcv[s].offer] = rcv[s].offer
  /\ rcv' = [rcv EXCEPT ![s].pc = "verified"]
  /\ UNCHANGED <<sndVars, wire, dirVars, reported, budget>>

\* publish, by one rename that fails when the destination exists.
Rename(s) ==
  LET d == rcv[s].offer IN
  /\ AtomicRename
  /\ rcv[s].pc = "verified"
  /\ ~HasCompleted(d)
  /\ stage' = [stage EXCEPT ![d] = Completed]
  /\ rcv' = [rcv EXCEPT ![s].pc = "published"]
  /\ UNCHANGED <<sndVars, wire, lock, stageDisk, data, disk, reported, budget>>

\* publish elsewhere: hard_link, which also fails on an existing name ...
LinkCompleted(s) ==
  LET d == rcv[s].offer IN
  /\ ~AtomicRename
  /\ rcv[s].pc = "verified"
  /\ ~HasCompleted(d)
  /\ stage' = [stage EXCEPT ![d] = Both]
  /\ rcv' = [rcv EXCEPT ![s].pc = "linked"]
  /\ UNCHANGED <<sndVars, wire, lock, stageDisk, data, disk, reported, budget>>

\* ... and then remove_file of the partial's name.
UnlinkPartial(s) ==
  /\ rcv[s].pc = "linked"
  /\ stage' = [stage EXCEPT ![rcv[s].offer] = Completed]
  /\ rcv' = [rcv EXCEPT ![s].pc = "published"]
  /\ UNCHANGED <<sndVars, wire, lock, stageDisk, data, disk, reported, budget>>

\* Write the receipt, finish, return and drop the lock.
Acknowledged(s) ==
  /\ wire[s].rcvUp
  /\ wire' = [wire EXCEPT ![s].receipt = rcv[s].offer]
  /\ rcv' = [rcv EXCEPT ![s] = WaitingReceiver]
  /\ lock' = Unlocked(s)

\* Sync the directory (unix only), then acknowledge.
SendReceipt(s) ==
  LET d == rcv[s].offer IN
  /\ rcv[s].pc = "published"
  /\ Acknowledged(s)
  /\ IF SyncDirectory
     THEN stageDisk' = [stageDisk EXCEPT ![d] = stage[d]]
     ELSE UNCHANGED stageDisk
  /\ UNCHANGED <<sndVars, stage, data, disk, reported, budget>>

\* Nothing was asked for, so the stream must be empty.
AcknowledgeAgain(s) ==
  /\ rcv[s].pc = "acknowledging"
  /\ AtEnd(s)
  /\ Acknowledged(s)
  /\ UNCHANGED <<sndVars, stage, stageDisk, data, disk, reported, budget>>

\* The conditions under which the receiving call returns an error.
ReceiverMustFail(s) ==
  LET d == rcv[s].offer
      pc == rcv[s].pc
      more == rcv[s].got < Len(wire[s].blocks) IN
  \/ ~wire[s].rcvUp /\ pc \in {"locked", "receiving", "acknowledging", "published"}
  \/ /\ pc = "waiting" /\ wire[s].rcvUp /\ Offered(s)
     /\ Len(wire[s].offer) > Quota \/ lock[wire[s].offer] # None
  \/ pc = "locked" /\ HasCompleted(d) /\ data[d] # d
  \/ /\ pc = "receiving" /\ more
     /\ rcv[s].todo = {} \/ \E i \in rcv[s].todo :
          IsLeast(i, rcv[s].todo) /\ wire[s].blocks[rcv[s].got + 1] # d[i]
  \/ pc = "receiving" /\ rcv[s].todo # {} /\ AtEnd(s)
  \/ pc = "acknowledging" /\ more
  \/ pc = "synced" /\ data[d] # d
  \/ pc = "verified" /\ HasCompleted(d)

\* Mutant of ReceiverFails: the receive loop returns without closing.
ReceiverFailsQuietly(s) ==
  /\ rcv' = [rcv EXCEPT ![s].pc = "failed"]
  /\ lock' = Unlocked(s)
  /\ UNCHANGED <<sndVars, wire, stage, stageDisk, data, disk, reported, budget>>

\* The call returns an error, and the receive loop closes the connection: its
\* own end at once, the sender's when the close or the silence reaches it.
\* Files stay as they are.
ReceiverFails(s) ==
  /\ rcv' = [rcv EXCEPT ![s].pc = "failed"]
  /\ wire' = [wire EXCEPT ![s].rcvUp = FALSE]
  /\ lock' = Unlocked(s)
  /\ UNCHANGED <<sndVars, stage, stageDisk, data, disk, reported, budget>>

ReceiverGivesUp(s) == ReceiverMustFail(s) /\ ReceiverFails(s)

\* Disconnect, a disk error, no space, or the death of the process.
ReceiverAborted(s) == rcv[s].pc \in ReceiverActive /\ ReceiverFails(s)

ReceiverStep(s) ==
  \/ AcceptOffer(s) \/ RequestNothing(s) \/ RequestMissing(s)
  \/ ReceiveBlock(s) \/ SyncPartial(s) \/ VerifyWhole(s)
  \/ Rename(s) \/ LinkCompleted(s) \/ UnlinkPartial(s)
  \/ SendReceipt(s) \/ AcknowledgeAgain(s) \/ ReceiverGivesUp(s)

-----------------------------------------------------------------------------
(***************************************************************************)
(* The world around the two calls.                                         *)
(***************************************************************************)

\* Another program rewrites the source, possibly while it is being sent.
EditSource ==
  /\ budget.edits > 0
  /\ budget' = [budget EXCEPT !.edits = @ - 1]
  /\ source' \in Contents \ {source}
  /\ UNCHANGED <<snd, rcv, wire, dirVars, reported>>

\* One end finds the connection gone: the network changed or stayed silent.
LoseConnection(s) ==
  /\ snd[s].pc \in SenderActive
  /\ \/ wire[s].sndUp /\ wire' = [wire EXCEPT ![s].sndUp = FALSE]
     \/ wire[s].rcvUp /\ wire' = [wire EXCEPT ![s].rcvUp = FALSE]
  /\ UNCHANGED <<sndVars, rcv, dirVars, reported, budget>>

\* The end whose peer is gone gets its close, or hears nothing for the idle
\* timeout (30 s): until then it may have read all that reached it.
PeerGone(s) ==
  /\ snd[s].pc \in SenderActive \/ rcv[s].pc \in ReceiverActive
  /\ wire[s].sndUp # wire[s].rcvUp
  /\ wire' = [wire EXCEPT ![s].sndUp = FALSE, ![s].rcvUp = FALSE]
  /\ UNCHANGED <<sndVars, rcv, dirVars, reported, budget>>

\* One block of a partial goes bad on disk or in the page cache.  The code
\* cannot see damage done after its whole-file hash, and none is modelled.
DamagePartial(d) ==
  /\ budget.faults > 0
  /\ stage[d] = Partial
  /\ \A s \in Sessions : rcv[s].offer = d => rcv[s].pc # "verified"
  /\ \E i \in 1..Len(data[d]) :
       /\ data[d][i] # Hole
       /\ data' = [data EXCEPT ![d][i] = Hole]
       /\ disk' = [disk EXCEPT ![d] =
                     IF i <= Len(@) THEN [@ EXCEPT ![i] = Hole] ELSE @]
  /\ budget' = [budget EXCEPT !.faults = @ - 1]
  /\ UNCHANGED <<sndVars, rcv, wire, lock, stage, stageDisk, reported>>

\* Digests whose file or names are not yet as the disk has them.
Dirty == {d \in Contents : stage[d] # stageDisk[d] \/ data[d] # disk[d]}

\* What block i of an unsynced file can read as after a power loss: as last
\* written, as last synced, or torn.
SurvivingBlock(old, new, i) ==
  LET synced  == IF i <= Len(old) THEN old[i] ELSE Hole
      written == IF i <= Len(new) THEN new[i] ELSE Hole IN
  IF synced = written THEN {synced} ELSE {synced, written, Hole}

\* The size as set or as last synced, and any surviving blocks.
SurvivingImages(old, new) ==
  UNION {{f \in [1..n -> DiskBlock] : \A i \in 1..n : f[i] \in SurvivingBlock(old, new, i)}
           : n \in {Len(old), Len(new)}}

\* The names on disk, in memory, or that the directory had in between.
SurvivingStages(d) ==
  {st \in stageDisk[d]..stage[d] : AtomicRename => st # Both}

Survivors(d) ==
  {o \in SurvivingStages(d) \X (SurvivingImages(disk[d], data[d]) \cup {<<>>}) :
     IF o[1] = Absent THEN o[2] = <<>>
                      ELSE o[2] \in SurvivingImages(disk[d], data[d])}

\* The receiving device loses power: its calls, its locks and its ends of the
\* connections are gone, and the directory is what had reached the disk and
\* perhaps some of what had not.  The sender notices nothing yet: a receipt on
\* its way or in its buffers is still read.
PowerLoss ==
  /\ budget.faults > 0
  /\ budget' = [budget EXCEPT !.faults = @ - 1]
  /\ \E after \in [Dirty -> UNION {Survivors(d) : d \in Dirty}] :
       /\ \A d \in Dirty : after[d] \in Survivors(d)
       /\ stage' = [d \in Contents |-> IF d \in Dirty THEN after[d][1] ELSE stage[d]]
       /\ data' = [d \in Contents |-> IF d \in Dirty THEN after[d][2] ELSE data[d]]
  /\ stageDisk' = stage'
  /\ disk' = data'
  /\ lock' = [d \in Contents |-> None]
  /\ rcv' = [s \in Sessions |-> [rcv[s] EXCEPT !.pc = "failed"]]
  /\ wire' = [s \in Sessions |-> [wire[s] EXCEPT !.rcvUp = FALSE]]
  /\ UNCHANGED <<sndVars, reported>>

Environment ==
  \/ EditSource
  \/ PowerLoss
  \/ \E d \in Contents : DamagePartial(d)

Next ==
  \/ \E s \in Sessions : \/ Begin(s)
                         \/ SenderStep(s)
                         \/ SenderAborted(s)
                         \/ ReceiverStep(s)
                         \/ ReceiverAborted(s)
                         \/ LoseConnection(s)
                         \/ PeerGone(s)
  \/ Environment

Spec == Init /\ [][Next]_vars

\* The tokio runtime keeps polling both tasks, and quinn ends a connection that
\* has been idle.  The user, the disk and the network owe nothing.
Fairness ==
  \A s \in Sessions :
    WF_vars(SenderStep(s)) /\ WF_vars(ReceiverStep(s)) /\ WF_vars(PeerGone(s))

FairSpec == Spec /\ Fairness

-----------------------------------------------------------------------------
(***************************************************************************)
(* What the transfer promises.                                             *)
(***************************************************************************)

SenderState ==
  [pc: SenderEnded \cup SenderActive, size: 0..MaxBlocks, offer: Contents,
   todo: SUBSET (1..MaxBlocks)]
ReceiverState ==
  [pc: ReceiverEnded \cup ReceiverActive, offer: Contents,
   todo: SUBSET (1..MaxBlocks), got: Nat]
StreamState ==
  [sndUp: BOOLEAN, rcvUp: BOOLEAN, offer: Contents \cup {None}, blocks: Seq(Data),
   fin: BOOLEAN, map: (SUBSET (1..MaxBlocks)) \cup {None},
   receipt: Contents \cup {None}]

TypeOK ==
  /\ source \in Contents
  /\ snd \in [Sessions -> SenderState]
  /\ rcv \in [Sessions -> ReceiverState]
  /\ wire \in [Sessions -> StreamState]
  /\ lock \in [Contents -> Sessions \cup {None}]
  /\ stage \in [Contents -> Absent..Completed]
  /\ stageDisk \in [Contents -> Absent..Completed]
  /\ data \in [Contents -> Images]
  /\ disk \in [Contents -> Images]
  /\ reported \in SUBSET Contents
  /\ budget \in [transfers: Nat, edits: Nat, faults: Nat]

\* Whatever is visible under a digest's final name is exactly the content of
\* that digest, in memory and on disk, through edits of the source, cancelled
\* and concurrent transfers, damaged partials and power losses: publish comes
\* after sync_all and the whole-file hash.
CompletedIsVerified ==
  \A d \in Contents : HasCompleted(d) => data[d] = d /\ disk[d] = d

\* "One active writer per directory/digest": two receiving calls never work on
\* the files of one digest at the same time, whatever ended the calls before.
OneWriterPerDigest ==
  \A s, t \in Sessions :
    /\ {rcv[s].pc, rcv[t].pc} \subseteq ReceiverActive
    /\ rcv[s].offer = rcv[t].offer
    => s = t

\* A sender that reports completion has left a file that outlives a power loss
\* of the receiver, where the platform lets the directory be synced.
ReportedSurvivesPowerLoss ==
  SyncDirectory => \A d \in reported : stageDisk[d] >= Both /\ disk[d] = d

(***************************************************************************)
(* The strengthening of the two invariants above that is inductive.        *)
(***************************************************************************)

\* A receiving call that works on a digest's files holds that digest's lock.
WorkersHoldTheirLock ==
  \A s \in Sessions :
    rcv[s].pc \in ReceiverActive => lock[rcv[s].offer] = s

\* What a receiving call has established by the time it reaches a point.
ReceiverKnows(s) ==
  LET d == rcv[s].offer
      pc == rcv[s].pc IN
  /\ pc \in {"receiving", "synced", "verified"} => stage[d] = Partial
  /\ pc = "synced" => disk[d] = data[d]
  /\ pc = "verified" => data[d] = d /\ disk[d] = d
  /\ pc = "linked" => stage[d] = Both
  /\ pc = "published" => stage[d] = Completed
  /\ pc = "acknowledging" => HasCompleted(d)

\* The names on disk are never ahead of the names in memory.
DiskLagsBehind == \A d \in Contents : stageDisk[d] <= stage[d]

PublicationInvariant ==
  /\ WorkersHoldTheirLock
  /\ \A s \in Sessions : ReceiverKnows(s)
  /\ DiskLagsBehind
  /\ CompletedIsVerified

\* As long as the disk has not failed, the blocks that the resume map reused
\* and those received since are the content offered: the whole-file hash at the
\* end never throws a transfer away.
WholeHashHoldsWithoutFaults ==
  \A s \in Sessions :
    rcv[s].pc = "synced" /\ budget.faults = MaxFaults
      => data[rcv[s].offer] = rcv[s].offer

\* Progress is kept: a block that is right on the receiver's disk is never lost
\* or overwritten by a transfer, a retry, a cancellation or a concurrent call;
\* only a fault of the disk or of the power undoes it.
GoodBlocksAreKept ==
  [][budget'.faults = budget.faults =>
       \A d \in Contents : \A i \in 1..Len(data[d]) :
         i <= Len(d) /\ data[d][i] = d[i]
           => i <= Len(data'[d]) /\ data'[d][i] = d[i]]_data

\* A started transfer ends on the sending side, done or failed: no wait of one
\* side on the other is circular, and every way out of a call wakes the peer.
SenderSettles ==
  \A s \in Sessions : snd[s].pc \in SenderActive ~> snd[s].pc \in SenderEnded

\* No receiving call holds its digest's lock forever.
LockIsReleased ==
  \A d \in Contents : lock[d] # None ~> lock[d] = None

\* Faults are only ever used up.
FaultsAreBounded == budget.faults <= MaxFaults

\* The abstract delivery service; see VerifiedDelivery.  A receipt, once written,
\* outlives the file it is for when the power fails; without a power loss what
\* is stored stays stored.
Delivery == INSTANCE VerifiedDelivery WITH
  stored <- {<<d, data[d]>> : d \in {c \in Contents : HasCompleted(c)}},
  receipts <- {wire[s].receipt : s \in Sessions} \ {None},
  confirmed <- reported, Durable <- MaxFaults = 0

DeliverySpec == Delivery!Spec
=============================================================================
