------------------------- MODULE FileTransferProofs -------------------------
(***************************************************************************)
(* Proofs about FileTransfer, for every set of sessions, every block       *)
(* alphabet, every size of file and both ways of publishing.               *)
(***************************************************************************)
EXTENDS FileTransfer, TLAPS

(***************************************************************************)
(* Contents and images as sequences.                                       *)
(***************************************************************************)

\* A content is a sequence of blocks, no longer than MaxBlocks.
LEMMA ContentIsSequence ==
  ASSUME NEW c \in Contents
  PROVE  /\ c \in Seq(Data)
         /\ Len(c) \in 0..MaxBlocks
         /\ c \in [1..Len(c) -> Data]
BY ConstantsAssumption DEF Contents

\* A sequence of blocks that is not too long is a content.
LEMMA SequenceIsContent ==
  ASSUME NEW c \in Seq(Data), Len(c) <= MaxBlocks
  PROVE  c \in Contents
<1>1. Len(c) \in 0..MaxBlocks
  BY ConstantsAssumption
<1>2. c \in [1..Len(c) -> Data]
  OBVIOUS
<1>3. QED
  BY <1>1, <1>2 DEF Contents

\* The same two facts about what a file on disk can hold.
LEMMA ImageIsSequence ==
  ASSUME NEW c \in Images
  PROVE  /\ c \in Seq(DiskBlock)
         /\ Len(c) \in 0..MaxBlocks
         /\ c \in [1..Len(c) -> DiskBlock]
BY ConstantsAssumption DEF Images

\* A function on 1..n into the disk blocks is an image.
LEMMA FunctionIsImage ==
  ASSUME NEW n \in 0..MaxBlocks, NEW f \in [1..n -> DiskBlock]
  PROVE  f \in Images /\ Len(f) = n
<1>1. f \in Images
  BY DEF Images
<1>2. Len(f) = n
  BY ConstantsAssumption
<1>3. QED
  BY <1>1, <1>2

\* A content can be read back from a disk.
LEMMA ContentIsImage ==
  ASSUME NEW c \in Contents
  PROVE  c \in Images
<1>1. c \in [1..Len(c) -> DiskBlock]
  BY ContentIsSequence DEF DiskBlock
<1>2. QED
  BY <1>1, ContentIsSequence, FunctionIsImage

\* The empty file is both.
LEMMA EmptyIsContent == <<>> \in Contents /\ <<>> \in Images
<1>1. <<>> \in Seq(Data) /\ Len(<<>>) <= MaxBlocks
  BY ConstantsAssumption
<1>2. <<>> \in Contents
  BY <1>1, SequenceIsContent, Zenon
<1>3. QED
  BY <1>2, ContentIsImage

(***************************************************************************)
(* Type correctness.                                                       *)
(***************************************************************************)

\* What a power loss leaves of one digest is a stage and an image.
LEMMA SurvivorsType ==
  ASSUME TypeOK, NEW d \in Contents, NEW o \in Survivors(d)
  PROVE  o[1] \in Absent..Completed /\ o[2] \in Images
<1>1. o[1] \in SurvivingStages(d)
  BY DEF Survivors
<1>2. o[1] \in Absent..Completed
  <2>1. stageDisk[d] \in 0..3 /\ stage[d] \in 0..3
    BY DEF TypeOK, Absent, Completed
  <2>2. o[1] \in stageDisk[d]..stage[d]
    BY <1>1 DEF SurvivingStages
  <2>3. QED
    BY <2>1, <2>2 DEF Absent, Completed
<1>3. CASE o[1] = Absent
  BY <1>2, <1>3, EmptyIsContent DEF Survivors
<1>4. CASE o[1] # Absent
  <2>1. o[2] \in SurvivingImages(disk[d], data[d])
    BY <1>4 DEF Survivors
  <2>2. PICK n \in {Len(disk[d]), Len(data[d])} : o[2] \in [1..n -> DiskBlock]
    BY <2>1 DEF SurvivingImages
  <2>3. n \in 0..MaxBlocks
    BY ImageIsSequence DEF TypeOK
  <2>4. QED
    BY <1>2, <2>2, <2>3, FunctionIsImage
<1>5. QED
  BY <1>3, <1>4

\* The program counters that the actions assign.
LEMMA ProgramCounters ==
  /\ \A pc \in {"idle", "done", "failed", "hashing", "awaitMap", "sending",
                "awaitReceipt"} : pc \in SenderEnded \cup SenderActive
  /\ \A pc \in {"waiting", "failed", "locked", "receiving", "acknowledging",
                "synced", "verified", "linked", "published"} :
       pc \in ReceiverEnded \cup ReceiverActive
BY DEF SenderEnded, SenderActive, ReceiverEnded, ReceiverActive

\* The stages that the actions assign.
LEMMA Stages ==
  /\ {Absent, Partial, Both, Completed} \subseteq Absent..Completed
BY DEF Absent, Partial, Both, Completed

\* Assigning a program counter keeps a call's state well typed.
LEMMA ReceiverCounterType ==
  ASSUME NEW r \in ReceiverState,
         NEW p \in ReceiverEnded \cup ReceiverActive
  PROVE  [r EXCEPT !.pc = p] \in ReceiverState
BY DEF ReceiverState

\* The same for the sending call.
LEMMA SenderCounterType ==
  ASSUME NEW r \in SenderState,
         NEW p \in SenderEnded \cup SenderActive
  PROVE  [r EXCEPT !.pc = p] \in SenderState
BY DEF SenderState

\* Losing a connection and writing a block keep a stream's state well typed.
LEMMA StreamAppendType ==
  ASSUME NEW w \in StreamState, NEW v \in Data
  PROVE  [w EXCEPT !.blocks = Append(@, v)] \in StreamState
<1>1. Append(w.blocks, v) \in Seq(Data)
  BY DEF StreamState
<1>2. QED
  BY <1>1 DEF StreamState

\* The same when the connection ends.
LEMMA StreamDownType ==
  ASSUME NEW w \in StreamState
  PROVE  /\ [w EXCEPT !.sndUp = FALSE] \in StreamState
         /\ [w EXCEPT !.rcvUp = FALSE] \in StreamState
         /\ [w EXCEPT !.sndUp = FALSE, !.rcvUp = FALSE] \in StreamState
BY DEF StreamState

\* A fault uses up one of the faults allowed.
LEMMA FaultBudgetType ==
  ASSUME TypeOK, budget.faults > 0,
         budget' = [budget EXCEPT !.faults = @ - 1]
  PROVE  budget' \in [transfers: Nat, edits: Nat, faults: Nat]
BY DEF TypeOK

\* The records a call starts from are well typed.
LEMMA StartTypes ==
  /\ IdleSender \in SenderState
  /\ WaitingReceiver \in ReceiverState
  /\ FreshStream \in StreamState
<1>1. IdleSender \in SenderState
  BY ProgramCounters, EmptyIsContent, ConstantsAssumption DEF IdleSender, SenderState
<1>2. WaitingReceiver \in ReceiverState
  BY ProgramCounters, EmptyIsContent DEF WaitingReceiver, ReceiverState
<1>3. FreshStream \in StreamState
  BY DEF FreshStream, StreamState
<1>4. QED
  BY <1>1, <1>2, <1>3

\* Each step of the sender preserves the types.
LEMMA SenderTypes ==
  ASSUME TypeOK, NEW s \in Sessions,
         Begin(s) \/ SenderStep(s) \/ SenderAborted(s)
  PROVE  TypeOK'
<1>0. /\ snd[s] \in SenderState /\ wire[s] \in StreamState
      /\ source \in Contents
  BY DEF TypeOK
<1>1. CASE Begin(s)
  <2>1. Len(source) \in 0..MaxBlocks
    BY ContentIsSequence DEF TypeOK
  <2>2. [IdleSender EXCEPT !.pc = "hashing", !.size = Len(source)] \in SenderState
    BY <2>1, StartTypes, ProgramCounters DEF SenderState
  <2>3. budget' \in [transfers: Nat, edits: Nat, faults: Nat]
    BY <1>1 DEF TypeOK, Begin
  <2>4. QED
    BY <1>1, <2>2, <2>3, StartTypes DEF TypeOK, Begin, dirVars
<1>2. CASE HashBlock(s)
  <2> DEFINE next == Len(snd[s].offer) + 1
  <2>1. snd[s].offer \in Contents /\ snd[s].size \in 0..MaxBlocks
    BY <1>0 DEF SenderState
  <2>2. source[next] \in Data
    BY <1>0, <1>2, <2>1, ContentIsSequence DEF HashBlock
  <2>3. Append(snd[s].offer, source[next]) \in Contents
    <3>1. snd[s].offer \in Seq(Data) /\ next <= MaxBlocks
      BY <1>2, <2>1, ContentIsSequence, ConstantsAssumption DEF HashBlock
    <3>2. /\ Append(snd[s].offer, source[next]) \in Seq(Data)
          /\ Len(Append(snd[s].offer, source[next])) <= MaxBlocks
      BY <2>2, <3>1
    <3>3. QED
      BY <3>2, SequenceIsContent, Zenon
  <2>4. [snd[s] EXCEPT !.offer = Append(@, source[next])] \in SenderState
    BY <1>0, <2>3 DEF SenderState
  <2>5. QED
    BY <1>2, <2>4 DEF TypeOK, HashBlock, dirVars
<1>3. CASE SendOffer(s)
  <2>1. [wire[s] EXCEPT !.offer = snd[s].offer] \in StreamState
    BY <1>0 DEF SenderState, StreamState
  <2>2. QED
    BY <1>0, <1>3, <2>1, SenderCounterType, ProgramCounters
    DEF TypeOK, SendOffer, dirVars
<1>4. CASE ReadResumeMap(s)
  <2>1. [snd[s] EXCEPT !.pc = "sending", !.todo = wire[s].map] \in SenderState
    BY <1>0, <1>4, ProgramCounters DEF SenderState, StreamState, ReadResumeMap
  <2>2. QED
    BY <1>4, <2>1 DEF TypeOK, ReadResumeMap, dirVars
<1>5. CASE SendBlock(s)
  <2>1. PICK i \in snd[s].todo :
          /\ i <= Len(source)
          /\ wire' = [wire EXCEPT ![s].blocks = Append(@, source[i])]
          /\ snd' = [snd EXCEPT ![s].todo = @ \ {i}]
    BY <1>5 DEF SendBlock
  <2>2. i \in 1..MaxBlocks
    BY <1>0 DEF SenderState
  <2>3. source[i] \in Data
    BY <1>0, <2>1, <2>2, ContentIsSequence
  <2>4. [wire[s] EXCEPT !.blocks = Append(@, source[i])] \in StreamState
    BY <1>0, <2>3, StreamAppendType
  <2>5. [snd[s] EXCEPT !.todo = @ \ {i}] \in SenderState
    BY <1>0 DEF SenderState
  <2>6. QED
    BY <1>5, <2>1, <2>4, <2>5 DEF TypeOK, SendBlock, dirVars
<1>6. CASE FinishStream(s)
  <2>1. [wire[s] EXCEPT !.fin = TRUE] \in StreamState
    BY <1>0 DEF StreamState
  <2>2. QED
    BY <1>0, <1>6, <2>1, SenderCounterType, ProgramCounters
    DEF TypeOK, FinishStream, dirVars
<1>7. CASE ReadReceipt(s)
  <2>1. snd[s].offer \in Contents
    BY <1>0 DEF SenderState
  <2>2. QED
    BY <1>0, <1>7, <2>1, SenderCounterType, ProgramCounters
    DEF TypeOK, ReadReceipt, dirVars
<1>8. CASE SenderFails(s)
  <2>1. [wire[s] EXCEPT !.fin = @ \/ (snd[s].pc # "hashing" /\ wire[s].sndUp)] \in StreamState
    BY <1>0 DEF StreamState
  <2>2. QED
    BY <1>0, <1>8, <2>1, SenderCounterType, ProgramCounters
    DEF TypeOK, SenderFails, dirVars
<1>9. QED
  BY <1>1, <1>2, <1>3, <1>4, <1>5, <1>6, <1>7, <1>8
  DEF SenderStep, SenderAborted, SenderGivesUp

\* Each step of the receiver preserves the types.
LEMMA ReceiverTypes ==
  ASSUME TypeOK, NEW s \in Sessions, ReceiverStep(s) \/ ReceiverAborted(s)
  PROVE  TypeOK'
<1> DEFINE d == rcv[s].offer
<1>0. /\ rcv[s] \in ReceiverState /\ wire[s] \in StreamState
      /\ d \in Contents /\ d \in Images /\ Len(d) \in 0..MaxBlocks
      /\ data[d] \in Images
  BY ContentIsSequence, ContentIsImage DEF TypeOK, ReceiverState
<1>u. Unlocked(s) \in [Contents -> Sessions \cup {None}]
  BY DEF TypeOK, Unlocked
<1>1. CASE AcceptOffer(s)
  <2>1. wire[s].offer \in Contents
    BY <1>0, <1>1 DEF AcceptOffer, Offered, StreamState
  <2>2. [WaitingReceiver EXCEPT !.pc = "locked", !.offer = wire[s].offer] \in ReceiverState
    BY <2>1, StartTypes, ProgramCounters DEF ReceiverState
  <2>3. lock' \in [Contents -> Sessions \cup {None}]
    BY <1>1, <2>1 DEF AcceptOffer, TypeOK
  <2>4. QED
    BY <1>1, <2>2, <2>3 DEF TypeOK, AcceptOffer, sndVars
<1>2. CASE RequestNothing(s)
  <2>1. [wire[s] EXCEPT !.map = {}] \in StreamState
    BY <1>0 DEF StreamState
  <2>2. QED
    BY <1>0, <1>2, <2>1, ReceiverCounterType, ProgramCounters
    DEF TypeOK, RequestNothing, sndVars, dirVars
<1>3. CASE RequestMissing(s)
  <2>1. MissingBlocks(d) \in SUBSET (1..MaxBlocks)
    BY <1>0, ConstantsAssumption DEF MissingBlocks
  <2>2. Resized(d) \in [1..Len(d) -> DiskBlock]
    <3>1. ASSUME NEW i \in 1..Len(d), i <= Len(data[d])
          PROVE  data[d][i] \in DiskBlock
      BY <1>0, <3>1, ImageIsSequence
    <3>2. QED
      BY <3>1 DEF Resized, DiskBlock
  <2>3. Resized(d) \in Images
    BY <1>0, <2>2, FunctionIsImage
  <2>4. [wire[s] EXCEPT !.map = MissingBlocks(d)] \in StreamState
    BY <1>0, <2>1 DEF StreamState
  <2>5. [rcv[s] EXCEPT !.pc = "receiving", !.todo = MissingBlocks(d)] \in ReceiverState
    BY <1>0, <2>1, ProgramCounters DEF ReceiverState
  <2>6. QED
    BY <1>0, <1>3, <2>3, <2>4, <2>5, Stages DEF TypeOK, RequestMissing, sndVars
<1>4. CASE ReceiveBlock(s)
  <2>1. PICK i \in rcv[s].todo :
          /\ data' = [data EXCEPT ![d][i] = wire[s].blocks[rcv[s].got + 1]]
          /\ rcv' = [rcv EXCEPT ![s].todo = @ \ {i}, ![s].got = rcv[s].got + 1]
    BY <1>4 DEF ReceiveBlock
  <2> DEFINE v == wire[s].blocks[rcv[s].got + 1]
  <2>2. v \in DiskBlock
    BY <1>0, <1>4 DEF ReceiveBlock, StreamState, ReceiverState, DiskBlock
  <2>3. [data[d] EXCEPT ![i] = v] \in [1..Len(data[d]) -> DiskBlock]
    BY <1>0, <2>2, ImageIsSequence
  <2>4. [data[d] EXCEPT ![i] = v] \in Images
    BY <1>0, <2>3, FunctionIsImage, ImageIsSequence
  <2>5. [rcv[s] EXCEPT !.todo = @ \ {i}, !.got = rcv[s].got + 1] \in ReceiverState
    <3>1. rcv[s].got + 1 \in Nat /\ rcv[s].todo \ {i} \in SUBSET (1..MaxBlocks)
      BY <1>0 DEF ReceiverState
    <3>2. QED
      BY <1>0, <3>1 DEF ReceiverState
  <2>6. data' \in [Contents -> Images]
    BY <1>0, <2>1, <2>4 DEF TypeOK
  <2>7. QED
    BY <1>4, <2>1, <2>5, <2>6 DEF TypeOK, ReceiveBlock, sndVars
<1>5. CASE SyncPartial(s)
  BY <1>0, <1>5, ReceiverCounterType, ProgramCounters
  DEF TypeOK, SyncPartial, sndVars
<1>6. CASE VerifyWhole(s)
  BY <1>0, <1>6, ReceiverCounterType, ProgramCounters
  DEF TypeOK, VerifyWhole, sndVars, dirVars
<1>7. CASE Rename(s)
  BY <1>0, <1>7, ReceiverCounterType, ProgramCounters, Stages
  DEF TypeOK, Rename, sndVars
<1>8. CASE LinkCompleted(s)
  BY <1>0, <1>8, ReceiverCounterType, ProgramCounters, Stages
  DEF TypeOK, LinkCompleted, sndVars
<1>9. CASE UnlinkPartial(s)
  BY <1>0, <1>9, ReceiverCounterType, ProgramCounters, Stages
  DEF TypeOK, UnlinkPartial, sndVars
<1>a. ASSUME Acknowledged(s)
      PROVE  /\ wire' \in [Sessions -> StreamState]
             /\ rcv' \in [Sessions -> ReceiverState]
             /\ lock' \in [Contents -> Sessions \cup {None}]
  <2>1. [wire[s] EXCEPT !.receipt = d] \in StreamState
    BY <1>0 DEF StreamState
  <2>2. QED
    BY <1>a, <1>u, <2>1, StartTypes DEF TypeOK, Acknowledged
<1>10. CASE SendReceipt(s)
  <2>1. stageDisk' \in [Contents -> Absent..Completed]
    BY <1>0, <1>10 DEF TypeOK, SendReceipt
  <2>2. QED
    BY <1>10, <1>a, <2>1 DEF TypeOK, SendReceipt, sndVars
<1>11. CASE AcknowledgeAgain(s)
  BY <1>11, <1>a DEF TypeOK, AcknowledgeAgain, sndVars
<1>12. CASE ReceiverFails(s)
  <2>1. [wire[s] EXCEPT !.rcvUp = FALSE] \in StreamState
    BY <1>0, StreamDownType
  <2>2. QED
    BY <1>0, <1>12, <1>u, <2>1, ReceiverCounterType, ProgramCounters
    DEF TypeOK, ReceiverFails, sndVars
<1>13. QED
  BY <1>1, <1>2, <1>3, <1>4, <1>5, <1>6, <1>7, <1>8, <1>9, <1>10, <1>11, <1>12
  DEF ReceiverStep, ReceiverAborted, ReceiverGivesUp

\* Whatever the world does preserves the types.
LEMMA EnvironmentTypes ==
  ASSUME TypeOK,
         Environment \/ \E s \in Sessions : LoseConnection(s) \/ PeerGone(s)
  PROVE  TypeOK'
<1>1. CASE EditSource
  BY <1>1 DEF TypeOK, EditSource, dirVars
<1>2. ASSUME NEW s \in Sessions, LoseConnection(s) \/ PeerGone(s)
      PROVE  TypeOK'
  <2>0. wire[s] \in StreamState
    BY DEF TypeOK
  <2>1. CASE LoseConnection(s)
    <3>1. wire' \in [Sessions -> StreamState]
      BY <2>0, <2>1, StreamDownType DEF TypeOK, LoseConnection
    <3>2. QED
      BY <2>1, <3>1 DEF TypeOK, LoseConnection, sndVars, dirVars
  <2>2. CASE PeerGone(s)
    <3>1. wire' \in [Sessions -> StreamState]
      BY <2>0, <2>2, StreamDownType DEF TypeOK, PeerGone
    <3>2. QED
      BY <2>2, <3>1 DEF TypeOK, PeerGone, sndVars, dirVars
  <2>3. QED
    BY <1>2, <2>1, <2>2
<1>3. ASSUME NEW d \in Contents, DamagePartial(d)
      PROVE  TypeOK'
  <2>1. PICK i \in 1..Len(data[d]) :
          /\ data' = [data EXCEPT ![d][i] = Hole]
          /\ disk' = [disk EXCEPT ![d] =
                        IF i <= Len(@) THEN [@ EXCEPT ![i] = Hole] ELSE @]
    BY <1>3 DEF DamagePartial
  <2>2. ASSUME NEW f \in Images
        PROVE  [f EXCEPT ![i] = Hole] \in Images
    <3>1. [f EXCEPT ![i] = Hole] \in [1..Len(f) -> DiskBlock]
      BY ImageIsSequence DEF DiskBlock
    <3>2. QED
      BY <3>1, ImageIsSequence, FunctionIsImage
  <2>3. data' \in [Contents -> Images] /\ disk' \in [Contents -> Images]
    BY <2>1, <2>2 DEF TypeOK
  <2>4. budget' \in [transfers: Nat, edits: Nat, faults: Nat]
    BY <1>3, FaultBudgetType DEF DamagePartial
  <2>5. QED
    BY <1>3, <2>3, <2>4 DEF TypeOK, DamagePartial, sndVars
<1>4. CASE PowerLoss
  <2>1. PICK after \in [Dirty -> UNION {Survivors(d) : d \in Dirty}] :
          /\ \A d \in Dirty : after[d] \in Survivors(d)
          /\ stage' = [d \in Contents |-> IF d \in Dirty THEN after[d][1] ELSE stage[d]]
          /\ data' = [d \in Contents |-> IF d \in Dirty THEN after[d][2] ELSE data[d]]
    BY <1>4 DEF PowerLoss
  <2>2. \A d \in Dirty : after[d][1] \in Absent..Completed /\ after[d][2] \in Images
    BY <2>1, SurvivorsType DEF Dirty
  <2>3. stage' \in [Contents -> Absent..Completed] /\ data' \in [Contents -> Images]
    BY <2>1, <2>2 DEF TypeOK
  <2>4. stageDisk' = stage' /\ disk' = data' /\ lock' \in [Contents -> Sessions \cup {None}]
    BY <1>4 DEF PowerLoss
  <2>5. rcv' \in [Sessions -> ReceiverState]
    BY <1>4, ReceiverCounterType, ProgramCounters DEF TypeOK, PowerLoss
  <2>6. wire' \in [Sessions -> StreamState]
    <3>1. ASSUME NEW s \in Sessions
          PROVE  [wire[s] EXCEPT !.rcvUp = FALSE] \in StreamState
      BY StreamDownType DEF TypeOK
    <3>2. QED
      BY <1>4, <3>1 DEF PowerLoss
  <2>7. budget' \in [transfers: Nat, edits: Nat, faults: Nat]
    BY <1>4, FaultBudgetType DEF PowerLoss
  <2>8. QED
    BY <1>4, <2>3, <2>4, <2>5, <2>6, <2>7 DEF TypeOK, PowerLoss, sndVars
<1>5. QED
  BY <1>1, <1>2, <1>3, <1>4 DEF Environment

\* Every state of every behaviour is well typed.
THEOREM TypeCorrect == Spec => []TypeOK
<1>1. Init => TypeOK
  <2>1. [transfers |-> MaxTransfers, edits |-> MaxEdits, faults |-> MaxFaults]
          \in [transfers: Nat, edits: Nat, faults: Nat]
    BY ConstantsAssumption
  <2>2. QED
    BY <2>1, StartTypes, Stages, EmptyIsContent DEF Init, TypeOK
<1>2. TypeOK /\ [Next]_vars => TypeOK'
  <2>1. CASE UNCHANGED vars
    BY <2>1 DEF TypeOK, vars
  <2>2. QED
    BY <2>1, SenderTypes, ReceiverTypes, EnvironmentTypes DEF Next
<1>3. QED
  BY <1>1, <1>2, PTL DEF Spec

(***************************************************************************)
(* Publication: one writer per digest, and only verified, synced content   *)
(* under a final name.                                                     *)
(***************************************************************************)

\* A step of the sender leaves the receivers and the directory alone.
LEMMA SenderPublication ==
  ASSUME PublicationInvariant, NEW s \in Sessions,
         \/ Begin(s) \/ SenderStep(s) \/ SenderAborted(s)
         \/ LoseConnection(s) \/ PeerGone(s),
         TypeOK
  PROVE  PublicationInvariant'
<1>1. CASE Begin(s)
  <2>1. \A t \in Sessions : rcv'[t].pc \in ReceiverActive => rcv'[t] = rcv[t]
    BY <1>1 DEF Begin, TypeOK, WaitingReceiver, ReceiverActive
  <2>2. rcv'[s].pc = "waiting" /\ \A t \in Sessions \ {s} : rcv'[t] = rcv[t]
    BY <1>1 DEF Begin, TypeOK, WaitingReceiver
  <2>3. UNCHANGED <<lock, stage, stageDisk, data, disk>>
    BY <1>1 DEF Begin, dirVars
  <2>4. QED
    BY <2>1, <2>2, <2>3 DEF PublicationInvariant, WorkersHoldTheirLock,
       ReceiverKnows, DiskLagsBehind, CompletedIsVerified, HasCompleted
<1>2. CASE UNCHANGED <<rcv, lock, stage, stageDisk, data, disk>>
  BY <1>2 DEF PublicationInvariant, WorkersHoldTheirLock,
     ReceiverKnows, DiskLagsBehind, CompletedIsVerified, HasCompleted
<1>3. CASE SenderStep(s) \/ SenderAborted(s) \/ LoseConnection(s) \/ PeerGone(s)
  BY <1>2, <1>3 DEF SenderStep, SenderAborted, SenderGivesUp, SenderFails,
     HashBlock, SendOffer, ReadResumeMap, SendBlock, FinishStream, ReadReceipt,
     LoseConnection, PeerGone, dirVars
<1>4. QED
  BY <1>1, <1>3

\* Two active calls on one digest are the same call.
LEMMA OneWorker ==
  ASSUME WorkersHoldTheirLock, NEW s \in Sessions, NEW t \in Sessions,
         rcv[s].pc \in ReceiverActive, rcv[t].pc \in ReceiverActive,
         rcv[s].offer = rcv[t].offer
  PROVE  s = t
BY DEF WorkersHoldTheirLock

\* A step that keeps the locks and gives one active call another active program
\* counter keeps every worker under its lock.
LEMMA LocksKept ==
  ASSUME WorkersHoldTheirLock, NEW s \in Sessions, UNCHANGED lock,
         rcv[s].pc \in ReceiverActive, rcv'[s].offer = rcv[s].offer,
         \A t \in Sessions \ {s} : rcv'[t] = rcv[t]
  PROVE  WorkersHoldTheirLock'
BY DEF WorkersHoldTheirLock

\* A call that ends gives up its own locks and nobody else's.
LEMMA LocksReleased ==
  ASSUME TypeOK, WorkersHoldTheirLock, NEW s \in Sessions,
         rcv'[s].pc \in ReceiverEnded, lock' = Unlocked(s),
         \A t \in Sessions \ {s} : rcv'[t] = rcv[t]
  PROVE  WorkersHoldTheirLock'
<1> SUFFICES ASSUME NEW t \in Sessions, rcv'[t].pc \in ReceiverActive
             PROVE  lock'[rcv'[t].offer] = t
  BY DEF WorkersHoldTheirLock
<1>1. t # s
  BY DEF ReceiverEnded, ReceiverActive
<1>2. rcv[t].offer \in Contents /\ lock[rcv[t].offer] = t
  BY <1>1 DEF TypeOK, ReceiverState, WorkersHoldTheirLock
<1>3. QED
  BY <1>1, <1>2 DEF Unlocked

\* A step of s that touches no digest but its own takes nothing from what the
\* other calls have established.
LEMMA OthersKnow ==
  ASSUME TypeOK, PublicationInvariant, NEW s \in Sessions,
         rcv[s].pc \in ReceiverActive,
         \A t \in Sessions \ {s} : rcv'[t] = rcv[t],
         \A e \in Contents \ {rcv[s].offer} :
           stage'[e] = stage[e] /\ data'[e] = data[e] /\ disk'[e] = disk[e]
  PROVE  \A t \in Sessions \ {s} : ReceiverKnows(t)'
<1> SUFFICES ASSUME NEW t \in Sessions \ {s}
             PROVE  ReceiverKnows(t)'
  OBVIOUS
<1>1. rcv[t].offer \in Contents /\ rcv'[t] = rcv[t]
  BY DEF TypeOK, ReceiverState
<1>2. CASE rcv[t].pc \in ReceiverActive
  <2>1. rcv[t].offer # rcv[s].offer
    BY <1>2, OneWorker DEF PublicationInvariant
  <2>2. ReceiverKnows(t)
    BY DEF PublicationInvariant
  <2>3. QED
    BY <1>1, <2>1, <2>2 DEF ReceiverKnows, HasCompleted
<1>3. CASE rcv[t].pc \notin ReceiverActive
  BY <1>1, <1>3 DEF ReceiverKnows, ReceiverActive
<1>4. QED
  BY <1>2, <1>3

\* When a call ends and the files stay as they are, the invariant stays.
LEMMA CallEnds ==
  ASSUME TypeOK, PublicationInvariant, NEW s \in Sessions,
         rcv'[s].pc \in ReceiverEnded, lock' = Unlocked(s),
         \A t \in Sessions \ {s} : rcv'[t] = rcv[t],
         UNCHANGED <<stage, data, disk>>, DiskLagsBehind'
  PROVE  PublicationInvariant'
<1>1. WorkersHoldTheirLock'
  BY LocksReleased DEF PublicationInvariant
<1>2. ASSUME NEW t \in Sessions
      PROVE  ReceiverKnows(t)'
  <2>1. CASE t = s
    BY <2>1 DEF ReceiverKnows, ReceiverEnded
  <2>2. CASE t # s
    BY <2>2 DEF PublicationInvariant, ReceiverKnows, HasCompleted
  <2>3. QED
    BY <2>1, <2>2
<1>3. CompletedIsVerified'
  BY DEF PublicationInvariant, CompletedIsVerified, HasCompleted
<1>4. QED
  BY <1>1, <1>2, <1>3 DEF PublicationInvariant

\* Each step of the receiver preserves the invariant.
LEMMA ReceiverPublication ==
  ASSUME TypeOK, PublicationInvariant, NEW s \in Sessions,
         ReceiverStep(s) \/ ReceiverAborted(s)
  PROVE  PublicationInvariant'
<1> DEFINE d == rcv[s].offer
<1>0. /\ d \in Contents /\ stage[d] \in 0..3 /\ stageDisk[d] <= stage[d]
      /\ stageDisk[d] \in 0..3
      /\ stage[d] >= 2 => data[d] = d /\ disk[d] = d
      /\ WorkersHoldTheirLock /\ DiskLagsBehind /\ CompletedIsVerified
      /\ ReceiverKnows(s)
  BY DEF TypeOK, ReceiverState, PublicationInvariant, DiskLagsBehind,
     CompletedIsVerified, HasCompleted, Absent, Both, Completed
<1>r. rcv \in [Sessions -> ReceiverState]
  BY DEF TypeOK
<1>a. {"locked", "receiving", "acknowledging", "synced", "verified", "linked",
       "published"} \subseteq ReceiverActive
  BY DEF ReceiverActive
<1>1. CASE AcceptOffer(s)
  <2> DEFINE e == wire[s].offer
  <2>1. /\ e \in Contents /\ lock[e] = None /\ lock' = [lock EXCEPT ![e] = s]
        /\ rcv'[s].pc = "locked" /\ rcv'[s].offer = e
        /\ \A t \in Sessions \ {s} : rcv'[t] = rcv[t]
        /\ UNCHANGED <<stage, stageDisk, data, disk>>
    BY <1>1, <1>r DEF AcceptOffer, Offered, WaitingReceiver, TypeOK, StreamState
  <2>2. WorkersHoldTheirLock'
    <3> SUFFICES ASSUME NEW t \in Sessions, rcv'[t].pc \in ReceiverActive
                 PROVE  lock'[rcv'[t].offer] = t
      BY DEF WorkersHoldTheirLock
    <3>1. CASE t = s
      BY <2>1, <3>1 DEF TypeOK
    <3>2. CASE t # s
      <4>1. lock[rcv[t].offer] = t /\ rcv[t].offer \in Contents
        BY <1>0, <2>1, <3>2 DEF WorkersHoldTheirLock, TypeOK, ReceiverState
      <4>2. rcv[t].offer # e
        BY <2>1, <4>1, ConstantsAssumption
      <4>3. QED
        BY <2>1, <3>2, <4>1, <4>2 DEF TypeOK
    <3>3. QED
      BY <3>1, <3>2
  <2>3. ASSUME NEW t \in Sessions
        PROVE  ReceiverKnows(t)'
    <3>1. CASE t = s
      BY <2>1, <3>1 DEF ReceiverKnows
    <3>2. CASE t # s
      BY <2>1, <3>2 DEF ReceiverKnows, PublicationInvariant, HasCompleted
    <3>3. QED
      BY <3>1, <3>2
  <2>4. QED
    BY <1>0, <2>1, <2>2, <2>3
    DEF PublicationInvariant, DiskLagsBehind, CompletedIsVerified, HasCompleted
<1>2. CASE RequestNothing(s)
  <2>1. /\ rcv[s].pc = "locked" /\ rcv'[s] = [rcv[s] EXCEPT !.pc = "acknowledging"]
        /\ HasCompleted(d)
        /\ \A t \in Sessions \ {s} : rcv'[t] = rcv[t]
        /\ UNCHANGED <<lock, stage, stageDisk, data, disk>>
    BY <1>2, <1>r DEF RequestNothing, dirVars
  <2>2. rcv'[s].pc = "acknowledging" /\ rcv'[s].offer = d
    BY <1>r, <2>1 DEF ReceiverState
  <2>3. WorkersHoldTheirLock'
    BY <1>0, <1>a, <2>1, <2>2, LocksKept
  <2>4. ReceiverKnows(s)' /\ \A t \in Sessions \ {s} : ReceiverKnows(t)'
    BY <1>a, <2>1, <2>2, OthersKnow DEF ReceiverKnows, HasCompleted
  <2>5. QED
    BY <1>0, <2>1, <2>3, <2>4
    DEF PublicationInvariant, DiskLagsBehind, CompletedIsVerified, HasCompleted
<1>3. CASE RequestMissing(s)
  <2>1. /\ rcv[s].pc = "locked" /\ ~HasCompleted(d)
        /\ rcv'[s] = [rcv[s] EXCEPT !.pc = "receiving", !.todo = MissingBlocks(d)]
        /\ \A t \in Sessions \ {s} : rcv'[t] = rcv[t]
        /\ stage' = [stage EXCEPT ![d] = Partial]
        /\ data' = [data EXCEPT ![d] = Resized(d)]
        /\ UNCHANGED <<lock, stageDisk, disk>>
    BY <1>3, <1>r DEF RequestMissing
  <2>2. rcv'[s].pc = "receiving" /\ rcv'[s].offer = d
    BY <1>r, <2>1 DEF ReceiverState
  <2>3. stage'[d] = Partial /\ \A e \in Contents \ {d} :
           stage'[e] = stage[e] /\ data'[e] = data[e]
    BY <1>0, <2>1 DEF TypeOK
  <2>4. WorkersHoldTheirLock'
    BY <1>0, <1>a, <2>1, <2>2, LocksKept
  <2>5. ReceiverKnows(s)' /\ \A t \in Sessions \ {s} : ReceiverKnows(t)'
    BY <1>a, <2>1, <2>2, <2>3, OthersKnow DEF ReceiverKnows
  <2>6. DiskLagsBehind'
    BY <1>0, <2>1, <2>3 DEF DiskLagsBehind, HasCompleted, Partial, Both
  <2>7. CompletedIsVerified'
    BY <1>0, <2>1, <2>3 DEF CompletedIsVerified, HasCompleted, Partial, Both
  <2>8. QED
    BY <2>4, <2>5, <2>6, <2>7 DEF PublicationInvariant
<1>4. CASE ReceiveBlock(s)
  <2>1. PICK i \in rcv[s].todo :
          /\ data' = [data EXCEPT ![d][i] = wire[s].blocks[rcv[s].got + 1]]
          /\ rcv' = [rcv EXCEPT ![s].todo = @ \ {i}, ![s].got = rcv[s].got + 1]
    BY <1>4 DEF ReceiveBlock
  <2>2. /\ rcv[s].pc = "receiving" /\ rcv'[s].pc = "receiving" /\ rcv'[s].offer = d
        /\ \A t \in Sessions \ {s} : rcv'[t] = rcv[t]
        /\ UNCHANGED <<lock, stage, stageDisk, disk>>
    BY <1>4, <1>r, <2>1 DEF ReceiveBlock, ReceiverState
  <2>3. \A e \in Contents \ {d} : data'[e] = data[e]
    BY <1>0, <2>1 DEF TypeOK
  <2>4. stage[d] = Partial
    BY <1>0, <2>2 DEF ReceiverKnows
  <2>5. WorkersHoldTheirLock'
    BY <1>0, <1>a, <2>2, LocksKept
  <2>6. ReceiverKnows(s)' /\ \A t \in Sessions \ {s} : ReceiverKnows(t)'
    BY <1>a, <2>2, <2>3, <2>4, OthersKnow DEF ReceiverKnows
  <2>7. CompletedIsVerified'
    BY <1>0, <2>2, <2>3, <2>4 DEF CompletedIsVerified, HasCompleted, Partial, Both
  <2>8. QED
    BY <1>0, <2>2, <2>5, <2>6, <2>7 DEF PublicationInvariant, DiskLagsBehind
<1>5. CASE SyncPartial(s)
  <2>1. /\ rcv[s].pc = "receiving" /\ rcv'[s] = [rcv[s] EXCEPT !.pc = "synced"]
        /\ \A t \in Sessions \ {s} : rcv'[t] = rcv[t]
        /\ disk' = [disk EXCEPT ![d] = data[d]]
        /\ UNCHANGED <<lock, stage, stageDisk, data>>
    BY <1>5, <1>r DEF SyncPartial
  <2>2. rcv'[s].pc = "synced" /\ rcv'[s].offer = d
    BY <1>r, <2>1 DEF ReceiverState
  <2>3. disk'[d] = data[d] /\ \A e \in Contents \ {d} : disk'[e] = disk[e]
    BY <1>0, <2>1 DEF TypeOK
  <2>4. stage[d] = Partial
    BY <1>0, <2>1 DEF ReceiverKnows
  <2>5. WorkersHoldTheirLock'
    BY <1>0, <1>a, <2>1, <2>2, LocksKept
  <2>6. ReceiverKnows(s)' /\ \A t \in Sessions \ {s} : ReceiverKnows(t)'
    BY <1>a, <2>1, <2>2, <2>3, <2>4, OthersKnow DEF ReceiverKnows
  <2>7. CompletedIsVerified'
    BY <1>0, <2>1, <2>3, <2>4 DEF CompletedIsVerified, HasCompleted, Partial, Both
  <2>8. QED
    BY <1>0, <2>1, <2>5, <2>6, <2>7 DEF PublicationInvariant, DiskLagsBehind
<1>6. CASE VerifyWhole(s)
  <2>1. /\ rcv[s].pc = "synced" /\ rcv'[s] = [rcv[s] EXCEPT !.pc = "verified"]
        /\ \A t \in Sessions \ {s} : rcv'[t] = rcv[t]
        /\ data[d] = d
        /\ UNCHANGED <<lock, stage, stageDisk, data, disk>>
    BY <1>6, <1>r DEF VerifyWhole, dirVars
  <2>2. rcv'[s].pc = "verified" /\ rcv'[s].offer = d
    BY <1>r, <2>1 DEF ReceiverState
  <2>3. stage[d] = Partial /\ disk[d] = data[d]
    BY <1>0, <2>1 DEF ReceiverKnows
  <2>4. WorkersHoldTheirLock'
    BY <1>0, <1>a, <2>1, <2>2, LocksKept
  <2>5. ReceiverKnows(s)' /\ \A t \in Sessions \ {s} : ReceiverKnows(t)'
    BY <1>a, <2>1, <2>2, <2>3, OthersKnow DEF ReceiverKnows
  <2>6. QED
    BY <1>0, <2>1, <2>4, <2>5
    DEF PublicationInvariant, DiskLagsBehind, CompletedIsVerified, HasCompleted
<1>7. ASSUME NEW pc \in {"linked", "published"}, NEW st \in {Both, Completed},
             rcv[s].pc \in {"verified", "linked"},
             pc = "linked" => st = Both,
             pc = "published" => st = Completed,
             stage' = [stage EXCEPT ![d] = st],
             rcv' = [rcv EXCEPT ![s].pc = pc],
             UNCHANGED <<lock, stageDisk, data, disk>>
      PROVE  PublicationInvariant'
  <2>1. /\ rcv'[s].pc = pc /\ rcv'[s].offer = d
        /\ \A t \in Sessions \ {s} : rcv'[t] = rcv[t]
    BY <1>7, <1>r DEF ReceiverState
  <2>2. stage'[d] = st /\ \A e \in Contents \ {d} : stage'[e] = stage[e]
    BY <1>0, <1>7 DEF TypeOK
  <2>3. stage[d] <= st /\ data[d] = d /\ disk[d] = d
    BY <1>0, <1>7 DEF ReceiverKnows, Partial, Both, Completed
  <2>4. WorkersHoldTheirLock'
    BY <1>0, <1>a, <1>7, <2>1, LocksKept
  <2>5. ReceiverKnows(s)' /\ \A t \in Sessions \ {s} : ReceiverKnows(t)'
    BY <1>a, <1>7, <2>1, <2>2, OthersKnow DEF ReceiverKnows
  <2>6. DiskLagsBehind'
    BY <1>0, <1>7, <2>2, <2>3 DEF DiskLagsBehind, Both, Completed
  <2>7. CompletedIsVerified'
    BY <1>0, <1>7, <2>2, <2>3 DEF CompletedIsVerified, HasCompleted
  <2>8. QED
    BY <2>4, <2>5, <2>6, <2>7 DEF PublicationInvariant
<1>8. CASE Rename(s)
  BY <1>7, <1>8 DEF Rename
<1>9. CASE LinkCompleted(s)
  BY <1>7, <1>9 DEF LinkCompleted
<1>10. CASE UnlinkPartial(s)
  BY <1>7, <1>10 DEF UnlinkPartial
<1>11. CASE SendReceipt(s)
  <2>1. /\ rcv'[s].pc \in ReceiverEnded /\ lock' = Unlocked(s)
        /\ \A t \in Sessions \ {s} : rcv'[t] = rcv[t]
        /\ UNCHANGED <<stage, data, disk>>
    BY <1>11, <1>r DEF SendReceipt, Acknowledged, WaitingReceiver, ReceiverEnded
  <2>2. DiskLagsBehind'
    BY <1>0, <1>11 DEF SendReceipt, DiskLagsBehind, TypeOK, Absent, Completed
  <2>3. QED
    BY <2>1, <2>2, CallEnds
<1>12. CASE AcknowledgeAgain(s)
  <2>1. /\ rcv'[s].pc \in ReceiverEnded /\ lock' = Unlocked(s)
        /\ \A t \in Sessions \ {s} : rcv'[t] = rcv[t]
        /\ UNCHANGED <<stage, stageDisk, data, disk>>
    BY <1>12, <1>r DEF AcknowledgeAgain, Acknowledged, WaitingReceiver, ReceiverEnded
  <2>2. QED
    BY <1>0, <2>1, CallEnds DEF DiskLagsBehind
<1>13. CASE ReceiverFails(s)
  <2>1. /\ rcv'[s].pc \in ReceiverEnded /\ lock' = Unlocked(s)
        /\ \A t \in Sessions \ {s} : rcv'[t] = rcv[t]
        /\ UNCHANGED <<stage, stageDisk, data, disk>>
    BY <1>13, <1>r DEF ReceiverFails, ReceiverEnded, ReceiverState
  <2>2. QED
    BY <1>0, <2>1, CallEnds DEF DiskLagsBehind
<1>14. QED
  BY <1>1, <1>2, <1>3, <1>4, <1>5, <1>6, <1>8, <1>9, <1>10, <1>11, <1>12, <1>13
  DEF ReceiverStep, ReceiverAborted, ReceiverGivesUp

\* A power loss cannot touch a file that was synced before it was published.
LEMMA SurvivorsOfCompleted ==
  ASSUME TypeOK, CompletedIsVerified, NEW d \in Contents, NEW o \in Survivors(d)
  PROVE  /\ stageDisk[d] <= o[1] /\ o[1] <= stage[d]
         /\ o[1] >= Both => o[2] = d
<1>0. stageDisk[d] \in 0..3 /\ stage[d] \in 0..3
  BY DEF TypeOK, Absent, Completed
<1>1. o[1] \in stageDisk[d]..stage[d]
  BY DEF Survivors, SurvivingStages
<1>2. ASSUME o[1] >= Both
      PROVE  o[2] = d
  <2>1. data[d] = d /\ disk[d] = d
    BY <1>0, <1>1, <1>2 DEF CompletedIsVerified, HasCompleted, Both
  <2>2. o[2] \in SurvivingImages(d, d)
    BY <1>2, <2>1 DEF Survivors, Absent, Both
  <2>3. /\ o[2] \in [1..Len(d) -> DiskBlock]
        /\ \A i \in 1..Len(d) : o[2][i] \in SurvivingBlock(d, d, i)
    BY <2>2 DEF SurvivingImages
  <2>4. \A i \in 1..Len(d) : o[2][i] = d[i]
    BY <2>3, ContentIsSequence DEF SurvivingBlock
  <2>5. QED
    BY <2>3, <2>4, ContentIsSequence
<1>3. QED
  BY <1>0, <1>1, <1>2

\* Damage and power losses preserve the invariant.
LEMMA EnvironmentPublication ==
  ASSUME TypeOK, PublicationInvariant, Environment
  PROVE  PublicationInvariant'
<1>1. CASE EditSource
  BY <1>1 DEF EditSource, dirVars, PublicationInvariant, WorkersHoldTheirLock,
     ReceiverKnows, DiskLagsBehind, CompletedIsVerified, HasCompleted
<1>2. ASSUME NEW d \in Contents, DamagePartial(d)
      PROVE  PublicationInvariant'
  <2>1. /\ stage[d] = Partial
        /\ \A s \in Sessions : rcv[s].offer = d => rcv[s].pc # "verified"
        /\ UNCHANGED <<rcv, lock, stage, stageDisk>>
    BY <1>2 DEF DamagePartial
  <2>2. PICK i \in 1..Len(data[d]) :
          /\ data' = [data EXCEPT ![d][i] = Hole]
          /\ disk' = [disk EXCEPT ![d] =
                        IF i <= Len(@) THEN [@ EXCEPT ![i] = Hole] ELSE @]
    BY <1>2 DEF DamagePartial
  <2>3. \A e \in Contents \ {d} : data'[e] = data[e] /\ disk'[e] = disk[e]
    BY <2>2 DEF TypeOK
  <2>4. disk[d] = data[d] => disk'[d] = data'[d]
    BY <2>2, ImageIsSequence DEF TypeOK
  <2>5. ASSUME NEW s \in Sessions
        PROVE  ReceiverKnows(s)'
    <3>1. ReceiverKnows(s) /\ rcv[s].offer \in Contents
      BY DEF PublicationInvariant, TypeOK, ReceiverState
    <3>2. QED
      BY <2>1, <2>3, <2>4, <3>1 DEF ReceiverKnows, HasCompleted
  <2>6. CompletedIsVerified'
    BY <2>1, <2>3
    DEF PublicationInvariant, CompletedIsVerified, HasCompleted, Partial, Both
  <2>7. QED
    BY <2>1, <2>5, <2>6
    DEF PublicationInvariant, WorkersHoldTheirLock, DiskLagsBehind
<1>3. CASE PowerLoss
  <2>1. PICK after \in [Dirty -> UNION {Survivors(d) : d \in Dirty}] :
          /\ \A d \in Dirty : after[d] \in Survivors(d)
          /\ stage' = [d \in Contents |-> IF d \in Dirty THEN after[d][1] ELSE stage[d]]
          /\ data' = [d \in Contents |-> IF d \in Dirty THEN after[d][2] ELSE data[d]]
    BY <1>3 DEF PowerLoss
  <2>2. /\ stageDisk' = stage' /\ disk' = data'
        /\ rcv' = [s \in Sessions |-> [rcv[s] EXCEPT !.pc = "failed"]]
    BY <1>3 DEF PowerLoss
  <2>3. \A s \in Sessions : rcv'[s].pc = "failed"
    BY <2>2 DEF TypeOK, ReceiverState
  <2>4. WorkersHoldTheirLock' /\ \A s \in Sessions : ReceiverKnows(s)'
    BY <2>3 DEF WorkersHoldTheirLock, ReceiverKnows, ReceiverActive
  <2>5. TypeOK'
    BY EnvironmentTypes
  <2>6. DiskLagsBehind'
    <3>1. \A d \in Contents : stage'[d] \in Int
      BY <2>5 DEF TypeOK, Absent, Completed
    <3>2. QED
      BY <2>2, <3>1 DEF DiskLagsBehind
  <2>7. ASSUME NEW d \in Contents, stage'[d] >= Both
        PROVE  data'[d] = d
    <3>1. CASE d \in Dirty
      BY <2>1, <2>7, <3>1, SurvivorsOfCompleted DEF PublicationInvariant
    <3>2. CASE d \notin Dirty
      BY <2>1, <2>7, <3>2 DEF PublicationInvariant, CompletedIsVerified, HasCompleted
    <3>3. QED
      BY <3>1, <3>2
  <2>8. CompletedIsVerified'
    BY <2>2, <2>7 DEF CompletedIsVerified, HasCompleted
  <2>9. QED
    BY <2>4, <2>6, <2>8 DEF PublicationInvariant
<1>4. QED
  BY <1>1, <1>2, <1>3 DEF Environment

\* Stuttering keeps both invariants.
LEMMA UnchangedKeeps ==
  ASSUME UNCHANGED vars
  PROVE  /\ TypeOK => TypeOK'
         /\ PublicationInvariant => PublicationInvariant'
<1>1. TypeOK => TypeOK'
  BY DEF TypeOK, vars
<1>2. PublicationInvariant => PublicationInvariant'
  BY DEF vars, PublicationInvariant, WorkersHoldTheirLock, ReceiverKnows,
     DiskLagsBehind, CompletedIsVerified, HasCompleted
<1>3. QED
  BY <1>1, <1>2

\* The strengthened invariant holds in every state.
THEOREM PublicationIsSafe == Spec => []PublicationInvariant
<1>1. Init => PublicationInvariant
  <2>1. ASSUME Init PROVE \A s \in Sessions : rcv[s].pc = "waiting"
    BY <2>1 DEF Init, WaitingReceiver
  <2>2. QED
    BY <2>1 DEF Init, PublicationInvariant, WorkersHoldTheirLock, ReceiverKnows,
       ReceiverActive, DiskLagsBehind, CompletedIsVerified, HasCompleted, Absent, Both
<1>2. TypeOK /\ PublicationInvariant /\ [Next]_vars => PublicationInvariant'
  <2>1. CASE UNCHANGED vars
    BY <2>1 DEF vars, PublicationInvariant, WorkersHoldTheirLock, ReceiverKnows,
       DiskLagsBehind, CompletedIsVerified, HasCompleted
  <2>2. QED
    BY <2>1, SenderPublication, ReceiverPublication, EnvironmentPublication DEF Next
<1>3. QED
  BY <1>1, <1>2, TypeCorrect, PTL DEF Spec

\* Nothing but the verified content of its digest is ever visible, or on disk,
\* under a final name.
THEOREM CompletedFilesAreVerified == Spec => []CompletedIsVerified
<1>1. PublicationInvariant => CompletedIsVerified
  BY DEF PublicationInvariant
<1>2. QED
  BY <1>1, PublicationIsSafe, PTL

\* The lock file admits one writer per digest, for any number of sessions.
THEOREM WritersAreExclusive == Spec => []OneWriterPerDigest
<1>1. PublicationInvariant => OneWriterPerDigest
  BY OneWorker DEF PublicationInvariant, OneWriterPerDigest
<1>2. QED
  BY <1>1, PublicationIsSafe, PTL

(***************************************************************************)
(* The data plane implements VerifiedDelivery.                             *)
(***************************************************************************)

\* Faults are only ever used up, by damage and by power losses.
LEMMA FaultsAreUsedUp ==
  ASSUME TypeOK, [Next]_vars
  PROVE  /\ budget.faults \in Nat /\ budget'.faults \in Nat
         /\ budget'.faults <= budget.faults
         /\ PowerLoss \/ (\E e \in Contents : DamagePartial(e)) =>
              budget'.faults # budget.faults
<1>1. budget \in [transfers: Nat, edits: Nat, faults: Nat]
  BY DEF TypeOK
<1>2. ASSUME UNCHANGED budget PROVE budget'.faults = budget.faults
  BY <1>2
<1>3. CASE PowerLoss \/ \E e \in Contents : DamagePartial(e)
  <2>1. budget.faults > 0 /\ budget'.faults = budget.faults - 1
    BY <1>1, <1>3 DEF PowerLoss, DamagePartial
  <2>2. QED
    BY <1>1, <2>1
<1>4. CASE ~(PowerLoss \/ \E e \in Contents : DamagePartial(e))
  <2>1. ASSUME NEW s \in Sessions, Begin(s)
        PROVE  budget'.faults = budget.faults
    BY <1>1, <2>1 DEF Begin
  <2>2. ASSUME EditSource PROVE budget'.faults = budget.faults
    BY <1>1, <2>2 DEF EditSource
  <2>3. ASSUME NEW s \in Sessions,
               \/ SenderStep(s) \/ SenderAborted(s) \/ LoseConnection(s) \/ PeerGone(s)
               \/ ReceiverStep(s) \/ ReceiverAborted(s)
        PROVE  UNCHANGED budget
    BY <2>3 DEF SenderStep, SenderAborted, SenderGivesUp, SenderFails,
       HashBlock, SendOffer, ReadResumeMap, SendBlock, FinishStream, ReadReceipt,
       LoseConnection, PeerGone, ReceiverStep, ReceiverAborted, ReceiverGivesUp,
       ReceiverFails, AcceptOffer, RequestNothing, RequestMissing, ReceiveBlock,
       SyncPartial, VerifyWhole, Rename, LinkCompleted, UnlinkPartial, SendReceipt,
       AcknowledgeAgain
  <2>4. ASSUME UNCHANGED vars PROVE budget'.faults = budget.faults
    BY <2>4 DEF vars
  <2>5. budget'.faults = budget.faults
    BY <1>2, <1>4, <2>1, <2>2, <2>3, <2>4 DEF Next, Environment
  <2>6. QED
    BY <1>1, <1>4, <2>5
<1>5. QED
  BY <1>3, <1>4

\* The receipts on their way to the senders.
Receipts == {wire[s].receipt : s \in Sessions} \ {None}

\* The files that the receiver has published.
Published == {<<d, data[d]>> : d \in {c \in Contents : HasCompleted(c)}}

\* Published files are as their names say, so only the stages decide.
LEMMA PublishedAreRight ==
  ASSUME PublicationInvariant
  PROVE  Published = {<<d, d>> : d \in {c \in Contents : HasCompleted(c)}}
BY DEF Published, PublicationInvariant, CompletedIsVerified

\* What the actions do to a stream, but for writing a receipt.
StreamWrites(s) ==
  \/ wire' = wire
  \/ \E v : wire' = [wire EXCEPT ![s].sndUp = v]
  \/ \E v : wire' = [wire EXCEPT ![s].rcvUp = v]
  \/ \E u, v : wire' = [wire EXCEPT ![s].sndUp = u, ![s].rcvUp = v]
  \/ \E v : wire' = [wire EXCEPT ![s].offer = v]
  \/ \E v : wire' = [wire EXCEPT ![s].blocks = v]
  \/ \E v : wire' = [wire EXCEPT ![s].fin = v]
  \/ \E v : wire' = [wire EXCEPT ![s].map = v]
  \/ wire' = [wire EXCEPT ![s] = FreshStream]

\* That leaves the receipts alone, and a fresh stream has none.
LEMMA ReceiptsKept ==
  ASSUME TypeOK, NEW s \in Sessions, StreamWrites(s)
  PROVE  Receipts' \in SUBSET Receipts
<1>0. wire \in [Sessions -> StreamState]
  BY DEF TypeOK
<1>1. ASSUME NEW t \in Sessions
      PROVE  wire'[t].receipt \in {wire[t].receipt, None}
  <2>1. CASE wire' = wire
    BY <2>1
  <2>2. CASE \E v : wire' = [wire EXCEPT ![s].sndUp = v]
    BY <1>0, <2>2 DEF StreamState
  <2>3. CASE \E v : wire' = [wire EXCEPT ![s].rcvUp = v]
    BY <1>0, <2>3 DEF StreamState
  <2>4. CASE \E u, v : wire' = [wire EXCEPT ![s].sndUp = u, ![s].rcvUp = v]
    BY <1>0, <2>4 DEF StreamState
  <2>5. CASE \E v : wire' = [wire EXCEPT ![s].offer = v]
    BY <1>0, <2>5 DEF StreamState
  <2>6. CASE \E v : wire' = [wire EXCEPT ![s].blocks = v]
    BY <1>0, <2>6 DEF StreamState
  <2>7. CASE \E v : wire' = [wire EXCEPT ![s].fin = v]
    BY <1>0, <2>7 DEF StreamState
  <2>8. CASE \E v : wire' = [wire EXCEPT ![s].map = v]
    BY <1>0, <2>8 DEF StreamState
  <2>9. CASE wire' = [wire EXCEPT ![s] = FreshStream]
    BY <1>0, <2>9 DEF FreshStream, StreamState
  <2>10. QED
    BY <2>1, <2>2, <2>3, <2>4, <2>5, <2>6, <2>7, <2>8, <2>9 DEF StreamWrites
<1>2. QED
  BY <1>1 DEF Receipts

\* The steps that publish no file, write no receipt and read none.
Unseen(s) ==
  \/ Begin(s) \/ LoseConnection(s) \/ PeerGone(s)
  \/ HashBlock(s) \/ SendOffer(s) \/ ReadResumeMap(s) \/ SendBlock(s)
  \/ FinishStream(s) \/ SenderFails(s)
  \/ AcceptOffer(s) \/ RequestNothing(s) \/ ReceiveBlock(s) \/ SyncPartial(s)
  \/ VerifyWhole(s) \/ ReceiverFails(s)

\* They change nothing that VerifiedDelivery can see, but may drop a receipt.
LEMMA UnseenIsUnseen ==
  ASSUME TypeOK, NEW s \in Sessions, Unseen(s)
  PROVE  /\ UNCHANGED <<stage, reported>>
         /\ Receipts' \in SUBSET Receipts
<1>1. CASE Begin(s) \/ LoseConnection(s) \/ PeerGone(s)
  <2>1. UNCHANGED <<stage, reported>>
    BY <1>1 DEF Begin, LoseConnection, PeerGone, dirVars
  <2>2. \/ wire' = [wire EXCEPT ![s] = FreshStream]
        \/ \E v : wire' = [wire EXCEPT ![s].sndUp = v]
        \/ \E v : wire' = [wire EXCEPT ![s].rcvUp = v]
        \/ \E u, v : wire' = [wire EXCEPT ![s].sndUp = u, ![s].rcvUp = v]
    BY <1>1, Zenon DEF Begin, LoseConnection, PeerGone
  <2>3. QED
    BY <2>1, <2>2, ReceiptsKept DEF StreamWrites
<1>2. CASE HashBlock(s) \/ ReadResumeMap(s) \/ AcceptOffer(s) \/ ReceiveBlock(s)
           \/ SyncPartial(s) \/ VerifyWhole(s)
  <2>1. UNCHANGED <<stage, reported, wire>>
    BY <1>2 DEF HashBlock, ReadResumeMap, AcceptOffer, ReceiveBlock, SyncPartial,
       VerifyWhole, dirVars
  <2>2. QED
    BY <2>1, ReceiptsKept DEF StreamWrites
<1>3. CASE SendOffer(s) \/ SendBlock(s) \/ FinishStream(s) \/ SenderFails(s)
           \/ RequestNothing(s) \/ ReceiverFails(s)
  <2>1. UNCHANGED <<stage, reported>>
    BY <1>3 DEF SendOffer, SendBlock, FinishStream, SenderFails, RequestNothing,
       ReceiverFails, dirVars
  <2>2. \/ \E v : wire' = [wire EXCEPT ![s].offer = v]
        \/ \E v : wire' = [wire EXCEPT ![s].blocks = v]
        \/ \E v : wire' = [wire EXCEPT ![s].fin = v]
        \/ \E v : wire' = [wire EXCEPT ![s].map = v]
        \/ \E v : wire' = [wire EXCEPT ![s].rcvUp = v]
    BY <1>3, Zenon DEF SendOffer, SendBlock, FinishStream, SenderFails,
       RequestNothing, ReceiverFails
  <2>3. QED
    BY <2>1, <2>2, ReceiptsKept DEF StreamWrites
<1>4. QED
  BY <1>1, <1>2, <1>3 DEF Unseen

\* A step is one of those, or one of the few that VerifiedDelivery sees.
LEMMA StepsOfTheDelivery ==
  ASSUME [Next]_vars
  PROVE  \/ PowerLoss
         \/ UNCHANGED <<stage, reported, wire>>
         \/ \E s \in Sessions :
              \/ Unseen(s) \/ ReadReceipt(s) \/ RequestMissing(s)
              \/ Rename(s) \/ LinkCompleted(s) \/ UnlinkPartial(s)
              \/ SendReceipt(s) \/ AcknowledgeAgain(s)
<1>1. CASE EditSource \/ (\E d \in Contents : DamagePartial(d)) \/ UNCHANGED vars
  BY <1>1 DEF EditSource, DamagePartial, dirVars, vars
<1>2. ASSUME NEW s \in Sessions, SenderStep(s) \/ SenderAborted(s)
      PROVE  Unseen(s) \/ ReadReceipt(s)
  BY <1>2 DEF Unseen, SenderStep, SenderAborted, SenderGivesUp
<1>3. ASSUME NEW s \in Sessions, ReceiverStep(s) \/ ReceiverAborted(s)
      PROVE  \/ Unseen(s) \/ RequestMissing(s)
             \/ Rename(s) \/ LinkCompleted(s) \/ UnlinkPartial(s)
             \/ SendReceipt(s) \/ AcknowledgeAgain(s)
  BY <1>3 DEF Unseen, ReceiverStep, ReceiverAborted, ReceiverGivesUp
<1>4. ASSUME NEW s \in Sessions, Begin(s) \/ LoseConnection(s) \/ PeerGone(s)
      PROVE  Unseen(s)
  BY <1>4 DEF Unseen
<1>5. QED
  BY <1>1, <1>2, <1>3, <1>4 DEF Next, Environment

\* Every step is one of VerifiedDelivery's, or changes nothing it can see.
LEMMA DeliveryStep ==
  ASSUME TypeOK, PublicationInvariant, FaultsAreBounded, [Next]_vars
  PROVE  [Delivery!Next]_(Delivery!vars)
<1>1. TypeOK' /\ PublicationInvariant'
  BY SenderTypes, ReceiverTypes, EnvironmentTypes, SenderPublication,
     ReceiverPublication, EnvironmentPublication, UnchangedKeeps DEF Next
<1>2. /\ Published = {<<d, d>> : d \in {c \in Contents : HasCompleted(c)}}
      /\ Published' = {<<d, d>> : d \in {c \in Contents : stage'[c] >= Both}}
  <2>1. (Published = {<<d, d>> : d \in {c \in Contents : HasCompleted(c)}})'
    BY <1>1 DEF Published, PublicationInvariant, CompletedIsVerified
  <2>2. QED
    BY <2>1, PublishedAreRight DEF HasCompleted
<1>3. CASE PowerLoss
  <2>1. \A d \in Contents : stage'[d] >= Both => HasCompleted(d)
    <3>1. PICK after \in [Dirty -> UNION {Survivors(d) : d \in Dirty}] :
            /\ \A d \in Dirty : after[d] \in Survivors(d)
            /\ stage' = [d \in Contents |-> IF d \in Dirty THEN after[d][1] ELSE stage[d]]
      BY <1>3 DEF PowerLoss
    <3>2. SUFFICES ASSUME NEW d \in Dirty, stage'[d] >= Both
                   PROVE  HasCompleted(d)
      BY <3>1 DEF HasCompleted
    <3>3. d \in Contents /\ after[d][1] <= stage[d] /\ stage'[d] = after[d][1]
      BY <3>1, SurvivorsOfCompleted DEF Dirty, PublicationInvariant
    <3>4. after[d][1] \in 0..3 /\ stage[d] \in 0..3
      BY <3>1, <3>3, SurvivorsType DEF TypeOK, Absent, Completed
    <3>5. QED
      BY <3>2, <3>3, <3>4 DEF HasCompleted, Both
  <2>2. Published' \in SUBSET Published
    BY <1>2, <2>1
  <2>3. MaxFaults # 0 /\ UNCHANGED reported
    BY <1>3, ConstantsAssumption DEF PowerLoss, FaultsAreBounded, TypeOK
  <2>4. Receipts' = Receipts
    <3>1. \A s \in Sessions : wire'[s].receipt = wire[s].receipt
      BY <1>3 DEF PowerLoss, TypeOK, StreamState
    <3>2. QED
      BY <3>1 DEF Receipts
  <2>5. Delivery!Forget
    BY <2>2, <2>3, <2>4 DEF Delivery!Forget, Published, Receipts
  <2>6. QED
    BY <2>5 DEF Delivery!Next
<1>4. ASSUME UNCHANGED stage
      PROVE  Published' = Published
  BY <1>2, <1>4 DEF HasCompleted
<1>5. CASE UNCHANGED <<stage, reported, wire>>
  <2>1. Receipts' = Receipts
    BY <1>5 DEF Receipts
  <2>2. QED
    BY <1>4, <1>5, <2>1 DEF Delivery!vars, Published, Receipts
<1>6. ASSUME NEW s \in Sessions, Unseen(s)
      PROVE  Delivery!Next
  <2>1. Delivery!LoseReceipts
    BY <1>4, <1>6, UnseenIsUnseen DEF Delivery!LoseReceipts, Published, Receipts
  <2>2. QED
    BY <2>1 DEF Delivery!Next
<1>7. ASSUME NEW s \in Sessions, ReadReceipt(s)
      PROVE  Delivery!Next
  <2>1. snd[s].offer \in Contents /\ snd[s].offer # None
    BY ConstantsAssumption DEF TypeOK, SenderState
  <2>2. snd[s].offer \in Receipts /\ Receipts' = Receipts /\ UNCHANGED stage
    BY <1>7, <2>1 DEF ReadReceipt, Receipts, dirVars
  <2>3. reported' = reported \cup {snd[s].offer}
    BY <1>7 DEF ReadReceipt
  <2>4. Delivery!Confirm(snd[s].offer)
    BY <1>4, <2>2, <2>3 DEF Delivery!Confirm, Published, Receipts
  <2>5. QED
    BY <2>1, <2>4 DEF Delivery!Next
<1>8. ASSUME NEW s \in Sessions, SendReceipt(s) \/ AcknowledgeAgain(s)
      PROVE  Delivery!Next
  <2>0. rcv[s].offer \in Contents
    BY DEF TypeOK, ReceiverState
  <2>d. PICK d \in Contents : d = rcv[s].offer
    BY <2>0
  <2>1. HasCompleted(d)
    BY <1>8, <2>d DEF SendReceipt, AcknowledgeAgain, PublicationInvariant,
       ReceiverKnows, HasCompleted, Both, Completed
  <2>2. UNCHANGED <<stage, reported>> /\ wire' = [wire EXCEPT ![s].receipt = d]
    BY <1>8, <2>d DEF SendReceipt, AcknowledgeAgain, Acknowledged
  <2>3. \A t \in Sessions : wire'[t].receipt \in {wire[t].receipt, d}
    BY <2>2 DEF TypeOK, StreamState
  <2>4. Receipts' \in SUBSET (Receipts \cup {d})
    BY <2>3 DEF Receipts
  <2>5. <<d, d>> \in Published
    BY <1>2, <2>1
  <2>6. Delivery!Acknowledge(d)
    BY <1>4, <2>2, <2>4, <2>5 DEF Delivery!Acknowledge, Published, Receipts
  <2>7. QED
    BY <2>6 DEF Delivery!Next
<1>9. ASSUME NEW s \in Sessions, Rename(s) \/ LinkCompleted(s) \/ UnlinkPartial(s)
      PROVE  Delivery!Next
  <2>0. rcv[s].offer \in Contents /\ stage \in [Contents -> 0..3]
    BY DEF TypeOK, ReceiverState, Absent, Completed
  <2>1. PICK c \in Contents : c = rcv[s].offer
    BY <2>0
  <2>2. /\ \E st \in {Both, Completed} : stage' = [stage EXCEPT ![c] = st]
        /\ UNCHANGED <<reported, wire>>
    BY <1>9, <2>1 DEF Rename, LinkCompleted, UnlinkPartial
  <2>3. \A e \in Contents : stage'[e] >= Both <=> HasCompleted(e) \/ e = c
    BY <2>0, <2>2 DEF HasCompleted, Both, Completed
  <2>4. Published' = Published \cup {<<c, c>>}
    BY <1>2, <2>3
  <2>5. Receipts' = Receipts
    BY <2>2 DEF Receipts
  <2>6. Delivery!Store(c)
    BY <2>2, <2>4, <2>5 DEF Delivery!Store, Published, Receipts
  <2>7. QED
    BY <2>6 DEF Delivery!Next
<1>10. ASSUME NEW s \in Sessions, RequestMissing(s)
       PROVE  Delivery!Next
  <2>0. stage \in [Contents -> 0..3]
    BY DEF TypeOK, Absent, Completed
  <2>1. \A c \in Contents : stage'[c] >= Both <=> HasCompleted(c)
    BY <1>10, <2>0 DEF RequestMissing, HasCompleted, Partial, Both
  <2>2. Published' = Published
    BY <1>2, <2>1
  <2>3. UNCHANGED reported /\ \E v : wire' = [wire EXCEPT ![s].map = v]
    BY <1>10, Zenon DEF RequestMissing
  <2>4. Receipts' \in SUBSET Receipts
    BY <2>3, ReceiptsKept DEF StreamWrites
  <2>5. Delivery!LoseReceipts
    BY <2>2, <2>3, <2>4 DEF Delivery!LoseReceipts, Published, Receipts
  <2>6. QED
    BY <2>5 DEF Delivery!Next
<1>11. QED
  BY <1>3, <1>5, <1>6, <1>7, <1>8, <1>9, <1>10, StepsOfTheDelivery

\* The data plane, for all its streams, locks, partials, faults and retries,
\* does what VerifiedDelivery allows.
THEOREM ImplementsDelivery == Spec => DeliverySpec
<1>1. Init => FaultsAreBounded /\ Delivery!Init
  <2>1. ASSUME Init
        PROVE  /\ FaultsAreBounded
               /\ Published = {} /\ Receipts = {} /\ reported = {}
    BY <2>1, ConstantsAssumption
    DEF Init, FreshStream, FaultsAreBounded, HasCompleted, Absent, Both,
        Published, Receipts
  <2>2. QED
    BY <2>1 DEF Delivery!Init, Published, Receipts
<1>2. TypeOK /\ FaultsAreBounded /\ [Next]_vars => FaultsAreBounded'
  BY FaultsAreUsedUp, ConstantsAssumption DEF FaultsAreBounded
<1>3. TypeOK /\ PublicationInvariant /\ FaultsAreBounded /\ [Next]_vars
        => [Delivery!Next]_(Delivery!vars)
  BY DeliveryStep
<1>4. QED
  BY <1>1, <1>2, <1>3, TypeCorrect, PublicationIsSafe, PTL
  DEF Spec, DeliverySpec, Delivery!Spec

(***************************************************************************)
(* Blocks: a transfer loses none that is right, and puts the rest in       *)
(* their places.                                                           *)
(***************************************************************************)

\* A receiving call that fills a partial goes on with it, or has all of it.
GoesOnFilling(s) ==
  rcv'[s].pc \in {"receiving", "synced"} =>
    \/ rcv'[s] = rcv[s]
    \/ /\ rcv[s].pc = "receiving" /\ rcv[s].todo = {}
       /\ rcv'[s].pc = "synced" /\ rcv'[s].offer = rcv[s].offer

\* While the disk does not fail, files change only as a receiving call sizes its
\* partial or writes a block of it.
LEMMA FilesChange ==
  ASSUME TypeOK, [Next]_vars, budget'.faults = budget.faults,
         \A s \in Sessions : ~RequestMissing(s) /\ ~ReceiveBlock(s)
  PROVE  UNCHANGED data /\ \A s \in Sessions : GoesOnFilling(s)
<1>r. rcv \in [Sessions -> ReceiverState]
  BY DEF TypeOK
<1>1. ASSUME UNCHANGED <<data, rcv>>
      PROVE  UNCHANGED data /\ \A s \in Sessions : GoesOnFilling(s)
  BY <1>1 DEF GoesOnFilling
<1>2. ASSUME NEW s \in Sessions, UNCHANGED data,
             \A t \in Sessions \ {s} : rcv'[t] = rcv[t],
             rcv'[s].pc \notin {"receiving", "synced"}
      PROVE  UNCHANGED data /\ \A t \in Sessions : GoesOnFilling(t)
  BY <1>2 DEF GoesOnFilling
<1>3. CASE UNCHANGED vars \/ EditSource
  BY <1>1, <1>3 DEF vars, EditSource, dirVars
<1>4. ASSUME NEW s \in Sessions, SenderStep(s) \/ SenderAborted(s) \/ LoseConnection(s) \/ PeerGone(s)
      PROVE  UNCHANGED data /\ \A t \in Sessions : GoesOnFilling(t)
  BY <1>1, <1>4
  DEF SenderStep, SenderAborted, SenderGivesUp, SenderFails, HashBlock, SendOffer,
      ReadResumeMap, SendBlock, FinishStream, ReadReceipt, LoseConnection, PeerGone, dirVars
<1>5. ASSUME NEW s \in Sessions, Begin(s)
      PROVE  UNCHANGED data /\ \A t \in Sessions : GoesOnFilling(t)
  <2>1. UNCHANGED data /\ (\A t \in Sessions \ {s} : rcv'[t] = rcv[t])
        /\ rcv'[s].pc = "waiting"
    BY <1>r, <1>5 DEF Begin, dirVars, WaitingReceiver
  <2>2. QED
    BY <1>2, <2>1
<1>6. ASSUME NEW s \in Sessions, ReceiverStep(s) \/ ReceiverAborted(s)
      PROVE  UNCHANGED data /\ \A t \in Sessions : GoesOnFilling(t)
  <2>1. CASE SyncPartial(s)
    <3>1. /\ rcv[s].pc = "receiving" /\ rcv[s].todo = {} /\ UNCHANGED data
          /\ rcv'[s].pc = "synced" /\ rcv'[s].offer = rcv[s].offer
          /\ \A t \in Sessions \ {s} : rcv'[t] = rcv[t]
      BY <1>r, <2>1 DEF SyncPartial, ReceiverState
    <3>2. QED
      BY <3>1 DEF GoesOnFilling
  <2>2. CASE AcceptOffer(s) \/ SendReceipt(s) \/ AcknowledgeAgain(s)
    <3>1. ASSUME AcceptOffer(s) PROVE rcv'[s].pc = "locked"
      BY <1>r, <3>1 DEF AcceptOffer, WaitingReceiver
    <3>2. ASSUME SendReceipt(s) \/ AcknowledgeAgain(s) PROVE rcv'[s].pc = "waiting"
      BY <1>r, <3>2 DEF SendReceipt, AcknowledgeAgain, Acknowledged, WaitingReceiver
    <3>3. UNCHANGED data /\ \A t \in Sessions \ {s} : rcv'[t] = rcv[t]
      BY <1>r, <2>2 DEF AcceptOffer, SendReceipt, AcknowledgeAgain, Acknowledged
    <3>4. QED
      BY <1>2, <2>2, <3>1, <3>2, <3>3
  <2>3. ASSUME NEW pc \in {"acknowledging", "verified", "linked", "published", "failed"},
               rcv' = [rcv EXCEPT ![s].pc = pc], UNCHANGED data
        PROVE  UNCHANGED data /\ \A t \in Sessions : GoesOnFilling(t)
    <3>1. rcv'[s].pc = pc /\ \A t \in Sessions \ {s} : rcv'[t] = rcv[t]
      BY <1>r, <2>3 DEF ReceiverState
    <3>2. QED
      BY <1>2, <2>3, <3>1
  <2>4. CASE \/ RequestNothing(s) \/ VerifyWhole(s) \/ Rename(s) \/ LinkCompleted(s)
             \/ UnlinkPartial(s) \/ ReceiverFails(s)
    BY <2>3, <2>4
    DEF RequestNothing, VerifyWhole, Rename, LinkCompleted, UnlinkPartial, ReceiverFails,
        dirVars
  <2>5. QED
    BY <1>6, <2>1, <2>2, <2>4 DEF ReceiverStep, ReceiverAborted, ReceiverGivesUp
<1>7. ~PowerLoss /\ ~\E e \in Contents : DamagePartial(e)
  BY FaultsAreUsedUp
<1>8. QED
  BY <1>3, <1>4, <1>5, <1>6, <1>7 DEF Next, Environment

\* A partial is sized without a loss, and its missing blocks are those asked for.
LEMMA PartialIsSized ==
  ASSUME TypeOK, NEW s \in Sessions, RequestMissing(s), NEW d, d = rcv[s].offer
  PROVE  /\ d \in Contents /\ Len(d) \in Nat /\ Len(data'[d]) = Len(d)
         /\ \A e \in Contents \ {d} : data'[e] = data[e]
         /\ \A i \in 1..Len(d) : i <= Len(data[d]) => data'[d][i] = data[d][i]
         /\ \A i \in 1..Len(d) : i \notin rcv'[s].todo => data'[d][i] = d[i]
         /\ rcv'[s].pc = "receiving" /\ rcv'[s].offer = d
         /\ \A t \in Sessions \ {s} : rcv'[t] = rcv[t]
<1>1. rcv \in [Sessions -> ReceiverState] /\ data \in [Contents -> Images]
  BY DEF TypeOK
<1>2. d \in Contents
  BY <1>1 DEF ReceiverState
<1>3. Len(d) \in Nat
  BY <1>2, ContentIsSequence
<1>4. data' = [data EXCEPT ![d] = Resized(d)]
  BY DEF RequestMissing
<1>5. data'[d] = Resized(d) /\ \A e \in Contents \ {d} : data'[e] = data[e]
  BY <1>1, <1>2, <1>4
<1>6. /\ Len(Resized(d)) = Len(d)
      /\ \A i \in 1..Len(d) :
           Resized(d)[i] = IF i <= Len(data[d]) THEN data[d][i] ELSE Hole
  BY <1>3 DEF Resized
<1>7. rcv' = [rcv EXCEPT ![s].pc = "receiving", ![s].todo = MissingBlocks(d)]
  BY DEF RequestMissing
<1>8. /\ rcv'[s].pc = "receiving" /\ rcv'[s].todo = MissingBlocks(d) /\ rcv'[s].offer = d
      /\ \A t \in Sessions \ {s} : rcv'[t] = rcv[t]
  BY <1>1, <1>7 DEF ReceiverState
<1>9. ASSUME NEW i \in 1..Len(d), i \notin MissingBlocks(d)
      PROVE  i <= Len(data[d]) /\ data[d][i] = d[i]
  BY <1>9 DEF MissingBlocks
<1>10. QED
  BY <1>2, <1>3, <1>5, <1>6, <1>8, <1>9

\* Block i of content d is written to its partial, and asked for no more.
WritesBlock(s, d, i) ==
  /\ data'[d] = [data[d] EXCEPT ![i] = d[i]]
  /\ rcv'[s].todo = rcv[s].todo \ {i}

\* A block is written in its place, once it is known to be the one of the offer.
LEMMA BlockIsWritten ==
  ASSUME TypeOK, NEW s \in Sessions, ReceiveBlock(s), NEW d, d = rcv[s].offer
  PROVE  /\ d \in Contents /\ rcv[s].pc = "receiving"
         /\ \A e \in Contents \ {d} : data'[e] = data[e]
         /\ \E i \in rcv[s].todo : WritesBlock(s, d, i)
         /\ rcv'[s].pc = "receiving" /\ rcv'[s].offer = d
         /\ \A t \in Sessions \ {s} : rcv'[t] = rcv[t]
<1>1. rcv \in [Sessions -> ReceiverState] /\ data \in [Contents -> Images]
  BY DEF TypeOK
<1>2. d \in Contents
  BY <1>1 DEF ReceiverState
<1>3. PICK i \in rcv[s].todo :
        /\ wire[s].blocks[rcv[s].got + 1] = d[i]
        /\ data' = [data EXCEPT ![d][i] = wire[s].blocks[rcv[s].got + 1]]
        /\ rcv' = [rcv EXCEPT ![s].todo = @ \ {i}, ![s].got = rcv[s].got + 1]
  BY DEF ReceiveBlock
<1>4. data' = [data EXCEPT ![d] = [data[d] EXCEPT ![i] = d[i]]]
  BY <1>3
<1>5. data'[d] = [data[d] EXCEPT ![i] = d[i]] /\ \A e \in Contents \ {d} : data'[e] = data[e]
  BY <1>1, <1>2, <1>4
<1>6. rcv[s].pc = "receiving"
  BY DEF ReceiveBlock
<1>7. /\ rcv'[s].pc = "receiving" /\ rcv'[s].todo = rcv[s].todo \ {i} /\ rcv'[s].offer = d
      /\ \A t \in Sessions \ {s} : rcv'[t] = rcv[t]
  BY <1>1, <1>3, <1>6 DEF ReceiverState
<1>8. WritesBlock(s, d, i)
  BY <1>5, <1>7 DEF WritesBlock
<1>9. QED
  BY <1>2, <1>5, <1>6, <1>7, <1>8

\* Writing a block into a file keeps its size and its other blocks.
LEMMA WrittenBlock ==
  ASSUME NEW f \in Images, NEW i, NEW b
  PROVE  /\ Len([f EXCEPT ![i] = b]) = Len(f) /\ Len(f) \in Nat
         /\ \A j \in 1..Len(f) : [f EXCEPT ![i] = b][j] = IF j = i THEN b ELSE f[j]
<1>1. f \in [1..Len(f) -> DiskBlock] /\ Len(f) \in Nat
  BY ImageIsSequence, ConstantsAssumption
<1>2. PICK w : w = [f EXCEPT ![i] = b]
  OBVIOUS
<1>3. w \in [1..Len(f) -> DiskBlock \cup {b}]
      /\ \A j \in 1..Len(f) : w[j] = IF j = i THEN b ELSE f[j]
  BY <1>1, <1>2
<1>4. w \in Seq(DiskBlock \cup {b}) /\ Len(w) = Len(f)
  BY <1>1, <1>3
<1>5. QED
  BY <1>1, <1>2, <1>3, <1>4

\* A block of content d that was right is right still.
RightBlocksStay(d) ==
  \A i \in 1..Len(data[d]) :
    i <= Len(d) /\ data[d][i] = d[i] => i <= Len(data'[d]) /\ data'[d][i] = d[i]

\* No step but a fault undoes one.
LEMMA RightBlocksAreKept ==
  ASSUME TypeOK, [Next]_vars, budget'.faults = budget.faults, NEW d \in Contents
  PROVE  RightBlocksStay(d)
<1>1. data[d] \in Images /\ Len(data[d]) \in Nat
  BY ImageIsSequence DEF TypeOK
<1>2. ASSUME data'[d] = data[d] PROVE RightBlocksStay(d)
  BY <1>1, <1>2 DEF RightBlocksStay
<1>3. CASE \E s \in Sessions : RequestMissing(s)
  <2>1. PICK s \in Sessions : RequestMissing(s)
    BY <1>3
  <2>2. PICK e : e = rcv[s].offer
    OBVIOUS
  <2>3. /\ Len(e) \in Nat /\ Len(data'[e]) = Len(e)
        /\ \A i \in 1..Len(e) : i <= Len(data[e]) => data'[e][i] = data[e][i]
        /\ \A c \in Contents \ {e} : data'[c] = data[c]
    BY <2>1, <2>2, PartialIsSized
  <2>4. CASE d = e
    <3>1. ASSUME NEW i \in 1..Len(data[d]), i <= Len(d), data[d][i] = d[i]
          PROVE  i <= Len(data'[d]) /\ data'[d][i] = d[i]
      <4>1. i \in 1..Len(d) /\ i <= Len(data[d])
        BY <1>1, <2>3, <2>4, <3>1
      <4>2. QED
        BY <2>3, <2>4, <3>1, <4>1
    <3>2. QED
      BY <3>1 DEF RightBlocksStay
  <2>5. QED
    BY <1>2, <2>3, <2>4
<1>4. CASE \E s \in Sessions : ReceiveBlock(s)
  <2>1. PICK s \in Sessions : ReceiveBlock(s)
    BY <1>4
  <2>2. PICK e : e = rcv[s].offer
    OBVIOUS
  <2>3. /\ \A c \in Contents \ {e} : data'[c] = data[c]
        /\ \E i \in rcv[s].todo : WritesBlock(s, e, i)
    BY <2>1, <2>2, BlockIsWritten
  <2>4. CASE d = e
    <3>1. PICK i \in rcv[s].todo : data'[d] = [data[d] EXCEPT ![i] = d[i]]
      BY <2>3, <2>4 DEF WritesBlock
    <3>2. PICK b : b = d[i]
      OBVIOUS
    <3>3. /\ Len([data[d] EXCEPT ![i] = b]) = Len(data[d])
          /\ \A j \in 1..Len(data[d]) :
               [data[d] EXCEPT ![i] = b][j] = IF j = i THEN b ELSE data[d][j]
      BY <1>1, WrittenBlock
    <3>4. QED
      BY <1>1, <3>1, <3>2, <3>3 DEF RightBlocksStay
  <2>5. QED
    BY <1>2, <2>3, <2>4
<1>5. QED
  BY <1>2, <1>3, <1>4, FilesChange

\* Progress is kept: for any number of sessions, a block that is right on the
\* receiver's disk is never lost or overwritten but by a fault (lib.rs:
\* receive_file_with_progress, which sizes a partial without truncating it).
THEOREM RightBlocksOutliveTransfers == Spec => GoodBlocksAreKept
<1>1. TypeOK /\ [Next]_vars =>
        [budget'.faults = budget.faults =>
           \A d \in Contents : \A i \in 1..Len(data[d]) :
             i <= Len(d) /\ data[d][i] = d[i]
               => i <= Len(data'[d]) /\ data'[d][i] = d[i]]_data
  BY RightBlocksAreKept DEF RightBlocksStay
<1>2. QED
  BY <1>1, TypeCorrect, PTL DEF Spec, GoodBlocksAreKept

\* What a call that fills a partial knows of it, the disk being sound: the blocks
\* that it does not wait for are there.
FillsRightly(s) ==
  LET d == rcv[s].offer IN
  /\ rcv[s].pc = "receiving" =>
       Len(data[d]) = Len(d) /\ \A i \in 1..Len(d) : i \notin rcv[s].todo => data[d][i] = d[i]
  /\ rcv[s].pc = "synced" => data[d] = d

FillingInvariant ==
  /\ budget.faults <= MaxFaults
  /\ budget.faults = MaxFaults => \A s \in Sessions : FillsRightly(s)

\* A file with every block of a content is that content.
LEMMA FullPartial ==
  ASSUME NEW d \in Contents, NEW f \in Images, Len(f) = Len(d),
         \A i \in 1..Len(d) : f[i] = d[i]
  PROVE  f = d
<1>1. d \in [1..Len(d) -> Data] /\ f \in [1..Len(d) -> DiskBlock]
  BY ContentIsSequence, ImageIsSequence
<1>2. QED
  BY <1>1

\* Every step keeps what the calls know: nobody else writes their partials.
LEMMA FillingKept ==
  ASSUME TypeOK, PublicationInvariant, FillingInvariant, [Next]_vars
  PROVE  FillingInvariant'
<1>1. /\ budget.faults \in Nat /\ budget'.faults \in Nat /\ MaxFaults \in Nat
      /\ budget'.faults <= budget.faults /\ budget.faults <= MaxFaults
  BY FaultsAreUsedUp, ConstantsAssumption DEF FillingInvariant
<1>2. SUFFICES ASSUME budget'.faults = MaxFaults, NEW s \in Sessions
               PROVE  FillsRightly(s)'
  BY <1>1 DEF FillingInvariant
<1>3. budget'.faults = budget.faults /\ \A t \in Sessions : FillsRightly(t)
  BY <1>1, <1>2 DEF FillingInvariant
<1>4. SUFFICES ASSUME rcv'[s].pc \in {"receiving", "synced"}
               PROVE  FillsRightly(s)'
  BY DEF FillsRightly
<1>5. /\ rcv[s].offer \in Contents /\ data[rcv[s].offer] \in Images
      /\ Len(rcv[s].offer) \in Nat
  BY ContentIsSequence DEF TypeOK, ReceiverState
<1>6. ASSUME NEW t \in Sessions \ {s}, rcv[t].pc \in ReceiverActive, rcv'[s] = rcv[s],
             \A e \in Contents \ {rcv[t].offer} : data'[e] = data[e]
      PROVE  FillsRightly(s)'
  <2>1. rcv[s].pc \in ReceiverActive
    BY <1>4, <1>6 DEF ReceiverActive
  <2>2. rcv[s].offer # rcv[t].offer
    BY <1>6, <2>1, OneWorker DEF PublicationInvariant
  <2>3. data'[rcv[s].offer] = data[rcv[s].offer]
    BY <1>5, <1>6, <2>2
  <2>4. QED
    BY <1>3, <1>6, <2>3 DEF FillsRightly
<1>7. CASE \E t \in Sessions : RequestMissing(t)
  <2>1. PICK t \in Sessions : RequestMissing(t)
    BY <1>7
  <2>2. PICK e : e = rcv[t].offer
    OBVIOUS
  <2>3. /\ Len(data'[e]) = Len(e)
        /\ \A c \in Contents \ {e} : data'[c] = data[c]
        /\ \A i \in 1..Len(e) : i \notin rcv'[t].todo => data'[e][i] = e[i]
        /\ rcv'[t].pc = "receiving" /\ rcv'[t].offer = e
        /\ \A u \in Sessions \ {t} : rcv'[u] = rcv[u]
    BY <2>1, <2>2, PartialIsSized
  <2>4. CASE s = t
    BY <2>3, <2>4 DEF FillsRightly
  <2>5. CASE s # t
    <3>1. rcv[t].pc \in ReceiverActive
      BY <2>1 DEF RequestMissing, ReceiverActive
    <3>2. QED
      BY <1>6, <2>2, <2>3, <2>5, <3>1
  <2>6. QED
    BY <2>4, <2>5
<1>8. CASE \E t \in Sessions : ReceiveBlock(t)
  <2>1. PICK t \in Sessions : ReceiveBlock(t)
    BY <1>8
  <2>2. PICK e : e = rcv[t].offer
    OBVIOUS
  <2>3. /\ rcv[t].pc = "receiving"
        /\ \A c \in Contents \ {e} : data'[c] = data[c]
        /\ \E i \in rcv[t].todo : WritesBlock(t, e, i)
        /\ rcv'[t].pc = "receiving" /\ rcv'[t].offer = e
        /\ \A u \in Sessions \ {t} : rcv'[u] = rcv[u]
    BY <2>1, <2>2, BlockIsWritten
  <2>4. CASE s = t
    <3>1. PICK i \in rcv[s].todo : /\ data'[e] = [data[e] EXCEPT ![i] = e[i]]
                                   /\ rcv'[s].todo = rcv[s].todo \ {i}
      BY <2>3, <2>4 DEF WritesBlock
    <3>2. PICK b : b = e[i]
      OBVIOUS
    <3>3. /\ Len([data[e] EXCEPT ![i] = b]) = Len(data[e])
          /\ \A j \in 1..Len(data[e]) :
               [data[e] EXCEPT ![i] = b][j] = IF j = i THEN b ELSE data[e][j]
      BY <1>5, <2>2, <2>4, WrittenBlock
    <3>4. /\ Len(data[e]) = Len(e)
          /\ \A j \in 1..Len(e) : j \notin rcv[s].todo => data[e][j] = e[j]
      BY <1>3, <2>2, <2>3, <2>4 DEF FillsRightly
    <3>5. Len(data'[e]) = Len(e)
      BY <3>1, <3>2, <3>3, <3>4
    <3>6. \A j \in 1..Len(e) : j \notin rcv'[s].todo => data'[e][j] = e[j]
      BY <3>1, <3>2, <3>3, <3>4
    <3>7. QED
      BY <2>3, <2>4, <3>5, <3>6 DEF FillsRightly
  <2>5. CASE s # t
    <3>1. rcv[t].pc \in ReceiverActive
      BY <2>3 DEF ReceiverActive
    <3>2. QED
      BY <1>6, <2>2, <2>3, <2>5, <3>1
  <2>6. QED
    BY <2>4, <2>5
<1>9. CASE \A t \in Sessions : ~RequestMissing(t) /\ ~ReceiveBlock(t)
  <2>1. UNCHANGED data /\ GoesOnFilling(s)
    BY <1>3, <1>9, FilesChange
  <2>2. CASE rcv'[s] = rcv[s]
    BY <1>3, <2>1, <2>2 DEF FillsRightly
  <2>3. CASE /\ rcv[s].pc = "receiving" /\ rcv[s].todo = {}
             /\ rcv'[s].pc = "synced" /\ rcv'[s].offer = rcv[s].offer
    <3>1. /\ Len(data[rcv[s].offer]) = Len(rcv[s].offer)
          /\ \A i \in 1..Len(rcv[s].offer) : data[rcv[s].offer][i] = rcv[s].offer[i]
      BY <1>3, <2>3 DEF FillsRightly
    <3>2. data[rcv[s].offer] = rcv[s].offer
      BY <1>5, <3>1, FullPartial
    <3>3. QED
      BY <2>1, <2>3, <3>2 DEF FillsRightly
  <2>4. QED
    BY <1>4, <2>1, <2>2, <2>3 DEF GoesOnFilling
<1>10. QED
  BY <1>7, <1>8, <1>9

\* Without a fault of the disk or the power, the whole-file hash at the end of a
\* transfer never fails, whatever was resumed, retried or done by other sessions
\* (lib.rs: receive_file_with_progress).
THEOREM WholeHashNeedsAFault == Spec => []WholeHashHoldsWithoutFaults
<1>1. Init => FillingInvariant
  <2>1. ASSUME Init PROVE \A s \in Sessions : rcv[s].pc = "waiting"
    BY <2>1 DEF Init, WaitingReceiver
  <2>2. ASSUME Init PROVE budget.faults = MaxFaults
    BY <2>2 DEF Init
  <2>3. QED
    BY <2>1, <2>2, ConstantsAssumption DEF FillingInvariant, FillsRightly
<1>2. TypeOK /\ PublicationInvariant /\ FillingInvariant /\ [Next]_vars => FillingInvariant'
  BY FillingKept
<1>3. FillingInvariant => WholeHashHoldsWithoutFaults
  BY DEF FillingInvariant, FillsRightly, WholeHashHoldsWithoutFaults
<1>4. QED
  BY <1>1, <1>2, <1>3, TypeCorrect, PublicationIsSafe, PTL DEF Spec
=============================================================================
