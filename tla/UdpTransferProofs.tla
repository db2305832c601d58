-------------------------- MODULE UdpTransferProofs --------------------------
(***************************************************************************)
(* Proofs about UdpTransfer, for every size of file, first credit, step of *)
(* acknowledgement, set of credit caps, size of cache and size of group.   *)
(***************************************************************************)
EXTENDS UdpTransfer, FiniteSetTheorems, TLAPS

(***************************************************************************)
(* The states and the datagrams.                                           *)
(***************************************************************************)

Sources == 0..(Chunks + 1)
Contents == SUBSET Blocks

SenderRecord ==
  [pump: {"idle", "probing", "sending", "waiting", "ended", "failed", "leaked"},
   via: {"disk", "window"}, source: Sources, probes: Int, registered: BOOLEAN,
   next: Nat, credits: Nat, parityOn: BOOLEAN, group: SUBSET Blocks, index: Nat,
   spooled: SUBSET Blocks, shown: {"none", "error", "valid"}, confirmed: BOOLEAN]

Signals == [type: {"OFFER", "IMMEDIATE_ACK", "COMPLETE"}]
ChunkPackets == [type: {"CHUNK"}, seq: Blocks, data: Contents]
ParityPackets == [type: {"PARITY"}, index: Nat, data: Contents]
DonePackets == [type: {"DONE"}, digest: Sources]
FlowPackets == [type: {"FLOW"}, granted: Nat, at: SUBSET Blocks]
RepairPackets == [type: {"REPAIR"}, seqs: SUBSET Seqs]

Packets == Signals \cup ChunkPackets \cup ParityPackets \cup DonePackets
             \cup FlowPackets \cup RepairPackets

ReceiverRecord ==
  [phase: {"unknown", "open", "saved", "invalid", "gone"},
   received: SUBSET Blocks, data: [Blocks -> Contents],
   digest: Sources \cup {NoDigest}, pending: Nat, flowed: BOOLEAN,
   repair: SUBSET Seqs, repaired: BOOLEAN, parity: SUBSET ParityPackets,
   threw: BOOLEAN, broken: BOOLEAN]

\* Of the right type: each side's state, and the datagrams that matter.
Types ==
  /\ up \subseteq {"sender", "receiver"}
  /\ snd \in SenderRecord
  /\ snd.next <= snd.source
  /\ Cardinality(snd.group) < GroupSize
  /\ rcv \in ReceiverRecord
  /\ net \subseteq Packets
  /\ \A p \in net : Matters(p)

\* What a datagram of each kind carries.
LEMMA PacketKinds ==
  ASSUME NEW p \in Packets
  PROVE  /\ p.type = "CHUNK" => p \in ChunkPackets
         /\ p.type = "PARITY" => p \in ParityPackets
         /\ p.type = "DONE" => p \in DonePackets
         /\ p.type = "FLOW" => p \in FlowPackets
         /\ p.type = "REPAIR" => p \in RepairPackets
BY DEF Packets, Signals, ChunkPackets, ParityPackets, DonePackets, FlowPackets,
       RepairPackets

\* The other way: a datagram of each kind is one.
LEMMA KindsArePackets ==
  /\ [type |-> "OFFER"] \in Packets
  /\ [type |-> "IMMEDIATE_ACK"] \in Packets
  /\ [type |-> "COMPLETE"] \in Packets
  /\ \A s \in Blocks, d \in Contents : Chunk(s, d) \in Packets
  /\ \A n \in Nat, d \in Contents : [type |-> "PARITY", index |-> n, data |-> d] \in Packets
  /\ \A n \in Sources : [type |-> "DONE", digest |-> n] \in Packets
  /\ \A n \in Nat, a \in SUBSET Blocks :
       [type |-> "FLOW", granted |-> n, at |-> a] \in Packets
  /\ \A s \in SUBSET Seqs : [type |-> "REPAIR", seqs |-> s] \in Packets
BY DEF Packets, Signals, ChunkPackets, ParityPackets, DonePackets, FlowPackets,
       RepairPackets, Chunk

\* The numbers of the announced chunks are numbers of blocks.
LEMMA SeqsAreBlocks == Seqs \subseteq Blocks /\ Blocks \subseteq Sources
BY TransferAssumption DEF Seqs, Blocks, Sources

\* A set of blocks is finite, and no larger than the file that grew.
LEMMA BlocksAreFinite ==
  ASSUME NEW S \in SUBSET Blocks
  PROVE  IsFiniteSet(S) /\ Cardinality(S) \in Nat /\ Cardinality(S) <= Chunks + 1
<1>1. IsFiniteSet(Blocks) /\ Cardinality(Blocks) = Chunks + 1
  BY FS_Interval, TransferAssumption DEF Blocks
<1>2. QED
  BY <1>1, FS_Subset, FS_CardinalityType

\* Nothing comes into the network but what is sent, and what does not matter
\* to anyone any more leaves it.
LEMMA ExchangeOnlyAdds ==
  ASSUME NEW taken, NEW sent, Exchange(taken, sent)
  PROVE  /\ net' \subseteq (net \ taken) \cup sent
         /\ \A p \in net' : Matters(p)'
BY DEF Exchange

\* A step of the sender keeps the types when the sender's new state and what it
\* sends have theirs.
LEMMA SenderKeepsTypes ==
  ASSUME Types, NEW taken, NEW sent, Exchange(taken, sent), sent \subseteq Packets,
         snd' \in SenderRecord, snd'.next <= snd'.source,
         Cardinality(snd'.group) < GroupSize, UNCHANGED <<up, rcv>>
  PROVE  Types'
<1>1. net' \subseteq Packets /\ \A p \in net' : Matters(p)'
  BY ExchangeOnlyAdds DEF Types
<1>2. QED
  BY <1>1 DEF Types

\* So does a step of the receiver.
LEMMA ReceiverKeepsTypes ==
  ASSUME Types, NEW taken, NEW sent, Exchange(taken, sent), sent \subseteq Packets,
         rcv' \in ReceiverRecord, UNCHANGED <<up, snd>>
  PROVE  Types'
<1>1. net' \subseteq Packets /\ \A p \in net' : Matters(p)'
  BY ExchangeOnlyAdds DEF Types
<1>2. QED
  BY <1>1 DEF Types

\* Nothing is sent that was not handed over.
LEMMA SentIsHandedOver ==
  ASSUME NEW packets PROVE Sent(packets) \subseteq packets
BY DEF Sent

\* A resent chunk is the one that was asked for.
LEMMA ResendIsAChunk ==
  ASSUME NEW s \in Blocks, NEW atEnd \in BOOLEAN, NEW p \in Resend(s, atEnd)
  PROVE  p \in Packets /\ p.type = "CHUNK" /\ p.seq = s
<1>1. p = Chunk(s, {s}) \/ p = Chunk(s, {})
  BY DEF Resend
<1>2. {s} \in Contents /\ {} \in Contents
  BY DEF Contents
<1>3. p \in Packets
  BY <1>1, <1>2, KindsArePackets
<1>4. QED
  BY <1>1, <1>3 DEF Chunk

(***************************************************************************)
(* What each step of the sender does, as far as the invariants need it.    *)
(***************************************************************************)

Unbegun == snd.pump \in {"idle", "probing"}

\* Before its offer the sender has sent nothing and has no credit.
NothingBeforeTheOffer == Unbegun => snd.next = 0 /\ snd.credits = 0

\* The chunks that may exist: those that were sent, and those announced.
Known(n) == 0..(n - 1) \cup Seqs

\* The sender takes some datagrams and sends others; ahead is what its count
\* of sent chunks and its credit come to at most.
SenderMoves(taken, sent, ahead) ==
  /\ UNCHANGED <<up, rcv>>
  /\ Exchange(taken, sent)
  /\ snd' \in SenderRecord
  /\ snd'.next <= snd'.source
  /\ Cardinality(snd'.group) < GroupSize
  /\ snd'.source = snd.source
  /\ snd.next <= snd'.next
  /\ snd'.next + snd'.credits <= ahead
  /\ Unbegun' => Unbegun /\ snd'.next = snd.next /\ snd'.credits = snd.credits
  /\ snd'.confirmed => snd.confirmed \/ \E p \in net : p.type = "COMPLETE"
  /\ snd.confirmed => snd'.confirmed
  /\ sent \subseteq Packets
  /\ \A p \in sent :
       /\ p.type \notin {"FLOW", "COMPLETE"}
       /\ p.type = "CHUNK" => p.seq \in Known(snd'.next)
       /\ p.type = "DONE" => p.digest = snd.source

Ahead == snd.next + snd.credits

\* The offer gives the first credit.
LEMMA OfferMoves ==
  ASSUME Types, NothingBeforeTheOffer, Unbegun,
         NEW s \in SenderRecord, s \in {snd, [snd EXCEPT !.probes = 0]}, Offer(s)
  PROVE  \E sent : SenderMoves({}, sent, Startup)
<1>1. PICK sent : sent = Sent({[type |-> "OFFER"]})
  OBVIOUS
<1>2. /\ snd' = [s EXCEPT !.registered = TRUE, !.credits = Startup,
                    !.pump = IF "sender" \in up THEN "sending" ELSE "leaked"]
      /\ UNCHANGED <<up, rcv>>
      /\ Exchange({}, sent)
  BY <1>1 DEF Offer, SenderRecord
<1>3. Startup \in Nat
  BY TransferAssumption
<1>4. /\ s.next = snd.next /\ s.source = snd.source /\ s.group = snd.group
      /\ s.confirmed = snd.confirmed
  BY DEF Types, SenderRecord
<1>5. /\ snd' \in SenderRecord
      /\ snd'.next = s.next /\ snd'.credits = Startup /\ snd'.source = s.source
      /\ snd'.group = s.group /\ snd'.confirmed = s.confirmed
      /\ snd'.pump \in {"sending", "leaked"}
  BY <1>2, <1>3 DEF SenderRecord
<1>6. snd.next = 0 /\ snd.next <= snd.source /\ Cardinality(snd.group) < GroupSize
  BY DEF NothingBeforeTheOffer, Types
<1>7. sent \subseteq Packets /\ \A p \in sent : p.type = "OFFER"
  BY <1>1, SentIsHandedOver, KindsArePackets
<1>8. snd'.next + snd'.credits <= Startup /\ snd.next <= snd'.next
  BY <1>3, <1>4, <1>5, <1>6
<1>9. QED
  BY <1>2, <1>4, <1>5, <1>6, <1>7, <1>8 DEF SenderMoves, Unbegun

\* A step of the sender that touches no count and sends nothing.
LEMMA QuietSenderMoves ==
  ASSUME Types, UNCHANGED <<up, rcv>>, NEW taken, Exchange(taken, {}),
         snd' \in SenderRecord, snd'.group = snd.group, snd'.source = snd.source,
         snd'.next = snd.next, snd'.credits = snd.credits,
         snd'.confirmed = snd.confirmed, Unbegun' => Unbegun
  PROVE  SenderMoves(taken, {}, Ahead)
<1>1. snd.next \in Nat /\ snd.credits \in Nat /\ snd.next <= snd.source
      /\ Cardinality(snd.group) < GroupSize
  BY DEF Types, SenderRecord
<1>2. snd'.next + snd'.credits <= Ahead /\ snd.next <= snd'.next
      /\ snd'.next <= snd'.source
  BY <1>1 DEF Ahead
<1>3. QED
  BY <1>1, <1>2 DEF SenderMoves

\* A step that leaves the network alone is an exchange of nothing.
LEMMA IdleNetwork ==
  ASSUME Types, UNCHANGED net, \A p \in net : Matters(p)'
  PROVE  Exchange({}, {})
BY DEF Exchange

\* Nobody's interest changes with a probe: everything in flight still matters.
LEMMA ProbesAreQuiet ==
  ASSUME Types, UNCHANGED <<up, rcv, net>>, snd'.registered = snd.registered,
         Unbegun, snd'.pump \in {"idle", "probing"}
  PROVE  \A p \in net : Matters(p)'
<1>1. \A p \in net : Matters(p) => Matters(p)'
  BY DEF Matters, Unbegun, ToSender
<1>2. QED
  BY <1>1 DEF Types

\* sendFilePath: an offer or the first probe.
LEMMA BeginFileMoves ==
  ASSUME Types, NothingBeforeTheOffer, BeginFile
  PROVE  \E sent, ahead : SenderMoves({}, sent, ahead) /\ ahead \in {Ahead, Startup}
<1>1. CASE Offer(snd)
  <2>1. Unbegun /\ snd \in SenderRecord
    BY DEF BeginFile, Unbegun, Types
  <2>2. QED
    BY <1>1, <2>1, OfferMoves
<1>2. CASE /\ snd' = [snd EXCEPT !.pump = "probing", !.probes = Candidates]
           /\ UNCHANGED <<up, rcv, net>>
  <2>1. snd \in SenderRecord /\ Candidates \in Int
    BY TransferAssumption DEF Types
  <2>2. /\ snd' \in SenderRecord /\ snd'.group = snd.group /\ snd'.source = snd.source
        /\ snd'.next = snd.next /\ snd'.credits = snd.credits
        /\ snd'.confirmed = snd.confirmed /\ snd'.registered = snd.registered
        /\ snd'.pump = "probing"
    BY <1>2, <2>1 DEF SenderRecord
  <2>3. Unbegun
    BY DEF BeginFile, Unbegun
  <2>4. Exchange({}, {})
    BY <1>2, <2>2, <2>3, ProbesAreQuiet, IdleNetwork
  <2>5. SenderMoves({}, {}, Ahead)
    BY <1>2, <2>2, <2>3, <2>4, QuietSenderMoves
  <2>6. QED
    BY <2>5
<1>3. QED
  BY <1>1, <1>2 DEF BeginFile

\* A probe that is answered is followed by the offer.
LEMMA ProbeAnsweredMoves ==
  ASSUME Types, NothingBeforeTheOffer, ProbeAnswered
  PROVE  \E sent, ahead : SenderMoves({}, sent, ahead) /\ ahead \in {Ahead, Startup}
<1>1. Unbegun /\ snd \in SenderRecord /\ Offer(snd)
  BY DEF ProbeAnswered, Unbegun, Types
<1>2. QED
  BY <1>1, OfferMoves

\* A probe that is not, by the next one, and in the end by the offer.
LEMMA ProbeTimesOutMoves ==
  ASSUME Types, NothingBeforeTheOffer, ProbeTimesOut
  PROVE  \E sent, ahead : SenderMoves({}, sent, ahead) /\ ahead \in {Ahead, Startup}
<1>1. Unbegun /\ snd \in SenderRecord
  BY DEF ProbeTimesOut, Unbegun, Types
<1>2. CASE snd.probes > 1
  <2>1. snd' = [snd EXCEPT !.probes = @ - 1] /\ UNCHANGED <<up, rcv, net>>
    BY <1>2 DEF ProbeTimesOut
  <2>2. snd.probes - 1 \in Int
    BY <1>1 DEF SenderRecord
  <2>3. /\ snd' \in SenderRecord /\ snd'.group = snd.group /\ snd'.source = snd.source
        /\ snd'.next = snd.next /\ snd'.credits = snd.credits
        /\ snd'.confirmed = snd.confirmed /\ snd'.registered = snd.registered
        /\ snd'.pump = snd.pump
    BY <1>1, <2>1, <2>2 DEF SenderRecord
  <2>4. snd'.pump \in {"idle", "probing"}
    BY <1>1, <2>3 DEF Unbegun
  <2>5. Exchange({}, {})
    BY <1>1, <2>1, <2>3, <2>4, ProbesAreQuiet, IdleNetwork
  <2>6. SenderMoves({}, {}, Ahead)
    BY <1>1, <2>1, <2>3, <2>5, QuietSenderMoves
  <2>7. QED
    BY <2>6
<1>3. CASE ~(snd.probes > 1)
  <2>1. Offer([snd EXCEPT !.probes = 0])
    BY <1>3 DEF ProbeTimesOut
  <2>2. [snd EXCEPT !.probes = 0] \in SenderRecord
    BY <1>1 DEF SenderRecord
  <2>3. QED
    BY <1>1, <2>1, <2>2, OfferMoves
<1>4. QED
  BY <1>2, <1>3

\* The group that a chunk joins, and the parity that is sent when it is full.
LEMMA GroupsAreSmall ==
  ASSUME Types, snd.next < snd.source,
         NEW group, group = IF snd.parityOn THEN snd.group \cup {snd.next} ELSE {}
  PROVE  /\ group \in Contents /\ IsFiniteSet(group)
         /\ ~GroupIsFull(group) => Cardinality(group) < GroupSize
<1>1. snd.next \in Nat /\ snd.source \in Sources /\ snd.group \in SUBSET Blocks
  BY DEF Types, SenderRecord
<1>2. snd.next \in Blocks
  BY <1>1, TransferAssumption DEF Sources, Blocks
<1>3. group \in SUBSET Blocks
  BY <1>1, <1>2
<1>4. IsFiniteSet(group) /\ Cardinality(group) \in Nat
  BY <1>3, BlocksAreFinite
<1>5. QED
  BY <1>3, <1>4, TransferAssumption DEF Contents, GroupIsFull

\* No group of the sender is ever full: the empty one is not.
LEMMA EmptyGroupIsSmall == Cardinality({}) < GroupSize
BY FS_EmptySet, TransferAssumption

\* A chunk is sent against a credit.
LEMMA SendChunkPacketMoves ==
  ASSUME Types, SendChunkPacket
  PROVE  \E sent : SenderMoves({}, sent, Ahead)
<1>1. PICK group : group = IF snd.parityOn THEN snd.group \cup {snd.next} ELSE {}
  OBVIOUS
<1>2. PICK full : full = GroupIsFull(group)
  OBVIOUS
<1>3. PICK sent : sent = Sent({Chunk(snd.next, {snd.next})} \cup
             (IF full THEN {[type |-> "PARITY", index |-> snd.index, data |-> group]}
              ELSE {}))
  OBVIOUS
<1>4. /\ snd' = [snd EXCEPT !.pump = "sending", !.next = @ + 1,
                     !.credits = @ - 1,
                     !.group = IF full THEN {} ELSE group,
                     !.index = IF full THEN @ + 1 ELSE @]
      /\ UNCHANGED <<up, rcv>>
      /\ Exchange({}, sent)
      /\ snd.next < snd.source /\ snd.credits > 0
      /\ snd.pump \in {"sending", "waiting"}
  BY <1>1, <1>2, <1>3 DEF SendChunkPacket
<1>5. /\ group \in Contents
      /\ ~GroupIsFull(group) => Cardinality(group) < GroupSize
  BY <1>1, <1>4, GroupsAreSmall
<1>6. /\ snd.next \in Nat /\ snd.source \in Sources /\ snd.credits \in Nat
      /\ snd.index \in Nat /\ snd \in SenderRecord
  BY DEF Types, SenderRecord
<1>7. snd.next + 1 \in Nat /\ snd.credits - 1 \in Nat /\ snd.index + 1 \in Nat
  BY <1>4, <1>6
<1>8. (IF full THEN {} ELSE group) \in SUBSET Blocks
  BY <1>5 DEF Contents
<1>9. /\ snd' \in SenderRecord
      /\ snd'.next = snd.next + 1 /\ snd'.credits = snd.credits - 1
      /\ snd'.source = snd.source /\ snd'.confirmed = snd.confirmed
      /\ snd'.pump = "sending"
      /\ snd'.group = IF full THEN {} ELSE group
  BY <1>4, <1>6, <1>7, <1>8 DEF SenderRecord
<1>10. Cardinality(snd'.group) < GroupSize
  BY <1>2, <1>5, <1>9, EmptyGroupIsSmall
<1>11. /\ snd'.next <= snd'.source /\ snd.next <= snd'.next
       /\ snd'.next + snd'.credits <= Ahead
  BY <1>4, <1>6, <1>9 DEF Ahead, Sources
<1>12. snd.next \in Blocks /\ {snd.next} \in Contents
  BY <1>4, <1>6, TransferAssumption DEF Blocks, Sources, Contents
<1>13. Chunk(snd.next, {snd.next}) \in Packets
       /\ [type |-> "PARITY", index |-> snd.index, data |-> group] \in Packets
  BY <1>5, <1>6, <1>12, KindsArePackets
<1>14. \A p \in sent : p = Chunk(snd.next, {snd.next})
         \/ p = [type |-> "PARITY", index |-> snd.index, data |-> group]
  BY <1>3, SentIsHandedOver
<1>15. snd.next \in Known(snd'.next)
  BY <1>6, <1>9 DEF Known
<1>16. \A p \in sent : /\ p \in Packets
                       /\ p.type \in {"CHUNK", "PARITY"}
                       /\ p.type = "CHUNK" => p.seq \in Known(snd'.next)
  BY <1>13, <1>14, <1>15 DEF Chunk
<1>17. ~Unbegun'
  BY <1>9 DEF Unbegun
<1>18. SenderMoves({}, sent, Ahead)
  BY <1>4, <1>9, <1>10, <1>11, <1>16, <1>17 DEF SenderMoves
<1>19. QED
  BY <1>18

\* A pump without credit waits, and may ask and send the last chunk again.
LEMMA WaitForCreditsMoves ==
  ASSUME Types, WaitForCredits
  PROVE  \E sent : SenderMoves({}, sent, Ahead)
<1>1. PICK ask \in BOOLEAN, tail \in BOOLEAN, atEnd \in BOOLEAN :
        Exchange({}, IF snd.registered
          THEN Sent((IF ask THEN {[type |-> "IMMEDIATE_ACK"]} ELSE {}) \cup
                 (IF tail /\ snd.next > 0 THEN Resend(snd.next - 1, atEnd) ELSE {}))
          ELSE {})
  BY DEF WaitForCredits
<1>2. PICK sent : sent = IF snd.registered
          THEN Sent((IF ask THEN {[type |-> "IMMEDIATE_ACK"]} ELSE {}) \cup
                 (IF tail /\ snd.next > 0 THEN Resend(snd.next - 1, atEnd) ELSE {}))
          ELSE {}
  OBVIOUS
<1>3. /\ Exchange({}, sent)
      /\ snd' = [snd EXCEPT !.pump = "waiting"]
      /\ UNCHANGED <<up, rcv>>
  BY <1>1, <1>2 DEF WaitForCredits
<1>4. /\ snd.next \in Nat /\ snd.source \in Sources /\ snd.credits \in Nat
      /\ snd.next <= snd.source
      /\ snd \in SenderRecord /\ Cardinality(snd.group) < GroupSize
  BY DEF Types, SenderRecord
<1>5. /\ snd' \in SenderRecord
      /\ snd'.next = snd.next /\ snd'.credits = snd.credits
      /\ snd'.source = snd.source /\ snd'.confirmed = snd.confirmed
      /\ snd'.pump = "waiting" /\ snd'.group = snd.group
  BY <1>3, <1>4 DEF SenderRecord
<1>6. snd.next > 0 => snd.next - 1 \in Blocks /\ snd.next - 1 \in Known(snd.next)
  BY <1>4, TransferAssumption DEF Blocks, Sources, Known
<1>7. ASSUME NEW p \in sent
      PROVE  p = [type |-> "IMMEDIATE_ACK"]
             \/ (snd.next > 0 /\ p \in Resend(snd.next - 1, atEnd))
  BY <1>2, SentIsHandedOver
<1>8. \A p \in sent : /\ p \in Packets
                      /\ p.type \in {"CHUNK", "IMMEDIATE_ACK"}
                      /\ p.type = "CHUNK" => p.seq \in Known(snd'.next)
  <2>1. SUFFICES ASSUME NEW p \in sent
                 PROVE  /\ p \in Packets
                        /\ p.type \in {"CHUNK", "IMMEDIATE_ACK"}
                        /\ p.type = "CHUNK" => p.seq \in Known(snd'.next)
    OBVIOUS
  <2>2. CASE p = [type |-> "IMMEDIATE_ACK"]
    BY <2>2, KindsArePackets
  <2>3. CASE snd.next > 0 /\ p \in Resend(snd.next - 1, atEnd)
    <3>1. snd.next - 1 \in Blocks /\ snd.next - 1 \in Known(snd.next)
      BY <1>6, <2>3
    <3>2. p \in Packets /\ p.type = "CHUNK" /\ p.seq = snd.next - 1
      BY <2>3, <3>1, ResendIsAChunk
    <3>3. QED
      BY <1>5, <3>1, <3>2
  <2>4. QED
    BY <1>7, <2>2, <2>3
<1>9. /\ snd'.next <= snd'.source /\ snd.next <= snd'.next
      /\ snd'.next + snd'.credits <= Ahead
  BY <1>4, <1>5 DEF Ahead
<1>10. ~Unbegun'
  BY <1>5 DEF Unbegun
<1>11. Cardinality(snd'.group) < GroupSize
  BY <1>4, <1>5
<1>12. SenderMoves({}, sent, Ahead)
  BY <1>3, <1>5, <1>8, <1>9, <1>10, <1>11 DEF SenderMoves
<1>13. QED
  BY <1>12

\* A transfer that fails keeps its counts.
LEMMA FailedSenders ==
  ASSUME Types
  PROVE  /\ Fail(snd) \in SenderRecord /\ Fail(snd).group = snd.group
         /\ Fail(snd).source = snd.source /\ Fail(snd).next = snd.next
         /\ Fail(snd).credits = snd.credits /\ Fail(snd).confirmed = snd.confirmed
         /\ Fail(snd).pump \in {"leaked", "failed"}
BY DEF Types, SenderRecord, Fail

\* No credit in time: the transfer fails.
LEMMA CreditTimesOutMoves ==
  ASSUME Types, CreditTimesOut
  PROVE  SenderMoves({}, {}, Ahead)
<1>1. snd' = Fail(snd) /\ UNCHANGED <<up, rcv>> /\ Exchange({}, {})
  BY DEF CreditTimesOut
<1>2. /\ snd' \in SenderRecord /\ snd'.group = snd.group /\ snd'.source = snd.source
      /\ snd'.next = snd.next /\ snd'.credits = snd.credits
      /\ snd'.confirmed = snd.confirmed
      /\ snd'.pump \in {"leaked", "failed"}
  BY <1>1, FailedSenders
<1>3. Unbegun' => Unbegun
  BY <1>2 DEF Unbegun
<1>4. QED
  BY <1>1, <1>2, <1>3, QuietSenderMoves

\* The end of the pump: DONE with the digest and the last parity.
LEMMA FinishFileMoves ==
  ASSUME Types, FinishFile
  PROVE  \E sent : SenderMoves({}, sent, Ahead)
<1>1. CASE ~snd.registered
  <2>1. snd' = Fail(snd) /\ UNCHANGED <<up, rcv>> /\ Exchange({}, {})
    BY <1>1 DEF FinishFile
  <2>2. /\ snd' \in SenderRecord /\ snd'.group = snd.group /\ snd'.source = snd.source
        /\ snd'.next = snd.next /\ snd'.credits = snd.credits
        /\ snd'.confirmed = snd.confirmed
        /\ snd'.pump \in {"leaked", "failed"}
    BY <2>1, FailedSenders
  <2>3. Unbegun' => Unbegun
    BY <2>2 DEF Unbegun
  <2>4. SenderMoves({}, {}, Ahead)
    BY <2>1, <2>2, <2>3, QuietSenderMoves
  <2>5. QED
    BY <2>4
<1>2. CASE snd.registered
  <2>1. PICK sent : sent = Sent({[type |-> "DONE", digest |-> snd.next]} \cup
               (IF snd.group # {}
                THEN {[type |-> "PARITY", index |-> snd.index, data |-> snd.group]}
                ELSE {}))
    OBVIOUS
  <2>2. /\ snd' = [snd EXCEPT !.pump = "ended", !.shown = "valid", !.group = {}]
        /\ UNCHANGED <<up, rcv>>
        /\ Exchange({}, sent)
        /\ snd.next = snd.source
    BY <1>2, <2>1 DEF FinishFile
  <2>3. /\ snd.next \in Nat /\ snd.source \in Sources /\ snd.credits \in Nat
        /\ snd.index \in Nat /\ snd.group \in Contents /\ snd \in SenderRecord
    BY DEF Types, SenderRecord, Contents
  <2>4. /\ snd' \in SenderRecord
        /\ snd'.next = snd.next /\ snd'.credits = snd.credits
        /\ snd'.source = snd.source /\ snd'.confirmed = snd.confirmed
        /\ snd'.pump = "ended" /\ snd'.group = {}
    BY <2>2, <2>3 DEF SenderRecord
  <2>5. [type |-> "DONE", digest |-> snd.next] \in Packets
        /\ [type |-> "PARITY", index |-> snd.index, data |-> snd.group] \in Packets
    BY <2>2, <2>3, KindsArePackets
  <2>6. \A p \in sent : p = [type |-> "DONE", digest |-> snd.next]
          \/ p = [type |-> "PARITY", index |-> snd.index, data |-> snd.group]
    BY <2>1, SentIsHandedOver
  <2>7. \A p \in sent : /\ p \in Packets
                        /\ p.type \in {"DONE", "PARITY"}
                        /\ p.type = "DONE" => p.digest = snd.source
    BY <2>2, <2>5, <2>6
  <2>8. /\ snd'.next <= snd'.source /\ snd.next <= snd'.next
        /\ snd'.next + snd'.credits <= Ahead
    BY <2>2, <2>3, <2>4 DEF Ahead, Sources
  <2>9. ~Unbegun' /\ Cardinality(snd'.group) < GroupSize
    BY <2>4, EmptyGroupIsSmall DEF Unbegun
  <2>10. SenderMoves({}, sent, Ahead)
    BY <2>2, <2>4, <2>7, <2>8, <2>9 DEF SenderMoves
  <2>11. QED
    BY <2>10
<1>3. QED
  BY <1>1, <1>2 DEF FinishFile

\* The finalize timer releases the entry.
LEMMA FinalizeTimesOutMoves ==
  ASSUME Types, FinalizeTimesOut
  PROVE  SenderMoves({}, {}, Ahead)
<1>1. /\ snd' = [snd EXCEPT !.registered = FALSE]
      /\ UNCHANGED <<up, rcv>> /\ Exchange({}, {})
  BY DEF FinalizeTimesOut
<1>2. /\ snd' \in SenderRecord /\ snd'.group = snd.group /\ snd'.source = snd.source
      /\ snd'.next = snd.next /\ snd'.credits = snd.credits
      /\ snd'.confirmed = snd.confirmed /\ snd'.pump = snd.pump
  BY <1>1 DEF Types, SenderRecord
<1>3. Unbegun' => Unbegun
  BY <1>2 DEF Unbegun
<1>4. QED
  BY <1>1, <1>2, <1>3, QuietSenderMoves

\* A chunk that is in the spool is one that was read.
LEMMA SpoolWrittenMoves ==
  ASSUME Types, SpoolWritten
  PROVE  SenderMoves({}, {}, Ahead)
<1>1. PICK s \in 0..(Read(snd) - 1 - CacheSize) \ snd.spooled :
        snd' = [snd EXCEPT !.spooled = @ \cup {s}]
  BY DEF SpoolWritten
<1>2. UNCHANGED <<up, rcv, net>>
  BY DEF SpoolWritten
<1>3. /\ snd.next \in Nat /\ snd.source \in Sources /\ snd.next <= snd.source
      /\ snd.spooled \in SUBSET Blocks /\ snd \in SenderRecord
  BY DEF Types, SenderRecord
<1>4. Read(snd) \in Int /\ Read(snd) <= snd.next + 1
  BY <1>3 DEF Read
<1>5. s \in Blocks
  BY <1>3, <1>4, TransferAssumption DEF Sources, Blocks
<1>6. snd.spooled \cup {s} \in SUBSET Blocks
  BY <1>3, <1>5
<1>7. /\ snd' \in SenderRecord /\ snd'.group = snd.group /\ snd'.source = snd.source
      /\ snd'.next = snd.next /\ snd'.credits = snd.credits
      /\ snd'.confirmed = snd.confirmed /\ snd'.pump = snd.pump
      /\ snd'.registered = snd.registered
  BY <1>1, <1>3, <1>6 DEF SenderRecord
<1>8. \A p \in net : Matters(p) => Matters(p)'
  BY <1>2, <1>7 DEF Matters, ToSender
<1>9. Exchange({}, {})
  BY <1>2, <1>8, IdleNetwork DEF Types
<1>10. Unbegun' => Unbegun
  BY <1>7 DEF Unbegun
<1>11. QED
  BY <1>2, <1>7, <1>9, <1>10, QuietSenderMoves

\* A FLOW brings at most the credit that it grants.
LEMMA OnFlowMoves ==
  ASSUME Types, NEW p \in net, OnFlow(p)
  PROVE  SenderMoves({p}, {}, Ahead + p.granted)
<1>1. PICK cap \in CreditCaps :
        snd' = [snd EXCEPT !.credits = Min({cap, @ + p.granted})]
  BY DEF OnFlow
<1>2. UNCHANGED <<up, rcv>> /\ Exchange({p}, {}) /\ p.type = "FLOW"
  BY DEF OnFlow
<1>3. p \in FlowPackets /\ Matters(p)
  BY <1>2, PacketKinds DEF Types
<1>4. /\ snd.next \in Nat /\ snd.source \in Sources /\ snd.credits \in Nat
      /\ snd.next <= snd.source /\ snd \in SenderRecord
      /\ Cardinality(snd.group) < GroupSize
  BY DEF Types, SenderRecord
<1>5. p.granted \in Nat /\ cap \in Nat
  BY <1>3, TransferAssumption DEF FlowPackets
<1>6. PICK n : n = Min({cap, snd.credits + p.granted})
  OBVIOUS
<1>7. PICK sum \in Nat : sum = snd.credits + p.granted
  BY <1>4, <1>5
<1>8. n \in Nat /\ n <= sum
  <2>1. \E m \in {cap, sum} : \A x \in {cap, sum} : m =< x
    BY <1>5, <1>7
  <2>2. n \in {cap, sum} /\ \A x \in {cap, sum} : n =< x
    BY <1>6, <1>7, <2>1 DEF Min
  <2>3. QED
    BY <1>5, <1>7, <2>2
<1>9. /\ snd' \in SenderRecord
      /\ snd'.next = snd.next /\ snd'.credits = n
      /\ snd'.source = snd.source /\ snd'.confirmed = snd.confirmed
      /\ snd'.pump = snd.pump /\ snd'.group = snd.group
  BY <1>1, <1>4, <1>6, <1>8 DEF SenderRecord
<1>10. snd.pump \in {"sending", "waiting"}
  BY <1>2, <1>3 DEF Matters, ToSender
<1>11. ~Unbegun'
  BY <1>9, <1>10 DEF Unbegun
<1>12. /\ snd'.next <= snd'.source /\ snd.next <= snd'.next
       /\ snd'.next + snd'.credits <= Ahead + p.granted
  BY <1>4, <1>5, <1>7, <1>8, <1>9 DEF Ahead, Sources
<1>13. QED
  BY <1>2, <1>4, <1>9, <1>11, <1>12 DEF SenderMoves

\* A REPAIR brings the chunks it names again, without credit.
LEMMA OnRepairMoves ==
  ASSUME Types, NEW p \in net, OnRepair(p)
  PROVE  \E sent : SenderMoves({p}, sent, Ahead)
<1>1. PICK atEnd \in BOOLEAN : Exchange({p}, UNION {Resend(s, atEnd) : s \in p.seqs})
  BY DEF OnRepair
<1>2. PICK sent : sent = UNION {Resend(s, atEnd) : s \in p.seqs}
  OBVIOUS
<1>3. /\ snd' = [snd EXCEPT !.parityOn = TRUE]
      /\ UNCHANGED <<up, rcv>> /\ Exchange({p}, sent) /\ p.type = "REPAIR"
  BY <1>1, <1>2 DEF OnRepair
<1>4. p.seqs \in SUBSET Seqs
  BY <1>3, PacketKinds DEF Types, RepairPackets
<1>5. /\ snd.next \in Nat /\ snd.source \in Sources /\ snd.credits \in Nat
      /\ snd.next <= snd.source /\ snd \in SenderRecord
      /\ Cardinality(snd.group) < GroupSize
  BY DEF Types, SenderRecord
<1>6. /\ snd' \in SenderRecord
      /\ snd'.next = snd.next /\ snd'.credits = snd.credits
      /\ snd'.source = snd.source /\ snd'.confirmed = snd.confirmed
      /\ snd'.pump = snd.pump /\ snd'.group = snd.group
  BY <1>3, <1>5 DEF SenderRecord
<1>7. \A q \in sent : /\ q \in Packets
                      /\ q.type = "CHUNK"
                      /\ q.seq \in Known(snd'.next)
  <2>1. SUFFICES ASSUME NEW q \in sent
                 PROVE  q \in Packets /\ q.type = "CHUNK" /\ q.seq \in Known(snd'.next)
    OBVIOUS
  <2>2. PICK s \in p.seqs : q \in Resend(s, atEnd)
    BY <1>2
  <2>3. s \in Blocks /\ s \in Seqs
    BY <1>4, <2>2, SeqsAreBlocks
  <2>4. q \in Packets /\ q.type = "CHUNK" /\ q.seq = s
    BY <2>2, <2>3, ResendIsAChunk
  <2>5. QED
    BY <2>3, <2>4 DEF Known
<1>8. /\ snd'.next <= snd'.source /\ snd.next <= snd'.next
      /\ snd'.next + snd'.credits <= Ahead
  BY <1>5, <1>6 DEF Ahead
<1>9. Unbegun' => Unbegun /\ snd'.next = snd.next /\ snd'.credits = snd.credits
  BY <1>6 DEF Unbegun
<1>10. Cardinality(snd'.group) < GroupSize
  BY <1>5, <1>6
<1>11. SenderMoves({p}, sent, Ahead)
  BY <1>3, <1>6, <1>7, <1>8, <1>9, <1>10 DEF SenderMoves
<1>12. QED
  BY <1>11

\* COMPLETE confirms the transfer.
LEMMA OnCompleteMoves ==
  ASSUME Types, NEW p \in net, OnComplete(p)
  PROVE  SenderMoves({p}, {}, Ahead)
<1>1. /\ snd' = [snd EXCEPT !.registered = FALSE, !.confirmed = TRUE]
      /\ UNCHANGED <<up, rcv>> /\ Exchange({p}, {}) /\ p.type = "COMPLETE"
  BY DEF OnComplete
<1>2. /\ snd.next \in Nat /\ snd.source \in Sources /\ snd.credits \in Nat
      /\ snd.next <= snd.source /\ snd \in SenderRecord
      /\ Cardinality(snd.group) < GroupSize
  BY DEF Types, SenderRecord
<1>3. /\ snd' \in SenderRecord
      /\ snd'.next = snd.next /\ snd'.credits = snd.credits
      /\ snd'.source = snd.source /\ snd'.confirmed
      /\ snd'.pump = snd.pump /\ snd'.group = snd.group
  BY <1>1, <1>2 DEF SenderRecord
<1>4. /\ snd'.next <= snd'.source /\ snd.next <= snd'.next
      /\ snd'.next + snd'.credits <= Ahead
  BY <1>2, <1>3 DEF Ahead
<1>5. Unbegun' => Unbegun /\ snd'.next = snd.next /\ snd'.credits = snd.credits
  BY <1>3 DEF Unbegun
<1>6. QED
  BY <1>1, <1>2, <1>3, <1>4, <1>5 DEF SenderMoves

(***************************************************************************)
(* What each step of the receiver does.                                    *)
(***************************************************************************)

\* The chunks that alone are missing from a group are announced ones.
LEMMA LoneChunks ==
  ASSUME NEW r \in ReceiverRecord
  PROVE  /\ Lone(r) \subseteq Seqs
         /\ \A s \in Lone(r) : (CHOOSE p \in ParityOf(r, s) : TRUE).data \in Contents
<1>1. Lone(r) \subseteq Seqs
  BY DEF Lone
<1>2. ASSUME NEW s \in Lone(r)
      PROVE  (CHOOSE p \in ParityOf(r, s) : TRUE).data \in Contents
  <2>1. ParityOf(r, s) # {} /\ ParityOf(r, s) \subseteq r.parity
    BY DEF Lone, ParityOf
  <2>2. r.parity \subseteq ParityPackets
    BY DEF ReceiverRecord
  <2>3. (CHOOSE p \in ParityOf(r, s) : TRUE) \in ParityPackets
    BY <2>1, <2>2
  <2>4. QED
    BY <2>3 DEF ParityPackets
<1>3. QED
  BY <1>1, <1>2

\* Recovery adds the chunks that are recovered and touches nothing else.
LEMMA RecoveryAdds ==
  ASSUME NEW r \in ReceiverRecord, NEW q, q = RecoverParity(r)
  PROVE  /\ q \in ReceiverRecord
         /\ q.received = r.received \cup Lone(r)
         /\ q.phase = r.phase /\ q.digest = r.digest /\ q.pending = r.pending
         /\ q.broken = r.broken
<1>1. PICK d : d = [s \in Blocks |-> IF s \in Lone(r)
                      THEN (CHOOSE p \in ParityOf(r, s) : TRUE).data ELSE r.data[s]]
  OBVIOUS
<1>2. PICK all : all = r.received \cup Lone(r)
  OBVIOUS
<1>3. q = [r EXCEPT !.received = all, !.data = d]
  BY <1>1, <1>2 DEF RecoverParity
<1>4. r.data \in [Blocks -> Contents] /\ r.received \in SUBSET Blocks
  BY DEF ReceiverRecord
<1>5. d \in [Blocks -> Contents]
  BY <1>1, <1>4, LoneChunks
<1>6. all \in SUBSET Blocks
  BY <1>2, <1>4, LoneChunks, SeqsAreBlocks
<1>7. QED
  BY <1>2, <1>3, <1>5, <1>6 DEF ReceiverRecord

\* What the finalisation makes of a receiver: it may recover announced chunks,
\* and when it decides, the digest is known and the hash decides, or the disk.
FinalizedFrom(r, q) ==
  /\ q \in ReceiverRecord
  /\ r.received \subseteq q.received
  /\ q.received \subseteq r.received \cup Seqs
  /\ q.digest = r.digest
  /\ q.pending = r.pending
  /\ q.phase \in {r.phase, "saved", "invalid"}
  /\ q.phase # r.phase /\ q.phase = "saved" =>
       r.digest # NoDigest /\ HashMatches(q)
  /\ q.phase # r.phase /\ q.phase = "invalid" =>
       \/ q.broken
       \/ /\ ~HashMatches(q) /\ r.digest # NoDigest
          /\ Cardinality(q.received) = Chunks

\* Every outcome of the finalisation is of that kind.
LEMMA FinalizationDecides ==
  ASSUME NEW r \in ReceiverRecord, NEW z \in Finalized(r), r.phase = "open"
  PROVE  FinalizedFrom(r, z)
<1>1. CASE z = r
  BY <1>1 DEF FinalizedFrom
<1>2. CASE z = [r EXCEPT !.threw = TRUE]
  <2>1. z \in ReceiverRecord /\ z.received = r.received /\ z.digest = r.digest
        /\ z.pending = r.pending /\ z.phase = r.phase
    BY <1>2 DEF ReceiverRecord
  <2>2. QED
    BY <2>1 DEF FinalizedFrom
<1>3. CASE z = [r EXCEPT !.broken = TRUE]
  <2>1. z \in ReceiverRecord /\ z.received = r.received /\ z.digest = r.digest
        /\ z.pending = r.pending /\ z.phase = r.phase
    BY <1>3 DEF ReceiverRecord
  <2>2. QED
    BY <2>1 DEF FinalizedFrom
<1>4. PICK q : q = RecoverParity(r)
  OBVIOUS
<1>5. /\ q \in ReceiverRecord
      /\ q.received = r.received \cup Lone(r)
      /\ q.phase = r.phase /\ q.digest = r.digest /\ q.pending = r.pending
  BY <1>4, RecoveryAdds
<1>6. r.received \subseteq q.received /\ q.received \subseteq r.received \cup Seqs
  BY <1>5, LoneChunks
<1>7. CASE z = q
  BY <1>5, <1>6, <1>7 DEF FinalizedFrom
<1>8. CASE z = [q EXCEPT !.broken = TRUE, !.phase = "invalid"]
  <2>1. z \in ReceiverRecord /\ z.received = q.received /\ z.digest = q.digest
        /\ z.pending = q.pending /\ z.phase = "invalid" /\ z.broken
    BY <1>5, <1>8 DEF ReceiverRecord
  <2>2. QED
    BY <1>5, <1>6, <2>1 DEF FinalizedFrom
<1>9. CASE /\ r.digest # NoDigest /\ Cardinality(q.received) = Chunks
           /\ z = [q EXCEPT !.phase = IF HashMatches(q) THEN "saved" ELSE "invalid"]
  <2>1. z \in ReceiverRecord /\ z.received = q.received /\ z.digest = q.digest
        /\ z.pending = q.pending /\ z.data = q.data
        /\ z.phase = IF HashMatches(q) THEN "saved" ELSE "invalid"
    BY <1>5, <1>9 DEF ReceiverRecord
  <2>2. HashMatches(z) <=> HashMatches(q)
    BY <2>1 DEF HashMatches
  <2>3. QED
    BY <1>5, <1>6, <1>9, <2>1, <2>2 DEF FinalizedFrom
<1>10. QED
  BY <1>1, <1>2, <1>3, <1>4, <1>7, <1>8, <1>9 DEF Finalized, WriteFails

\* A handler turns the receiver into r: nothing new but a digest that DONE
\* brought, or a chunk that had not arrived, which is then pending.
Arrival(r) ==
  /\ r \in ReceiverRecord
  /\ r.phase = "open"
  /\ rcv.phase \in {"unknown", "open"}
  /\ r.digest = rcv.digest \/ \E p \in net : p.type = "DONE" /\ r.digest = p.digest
  /\ \/ r.received = rcv.received /\ r.pending = rcv.pending
     \/ \E p \in net : /\ p.type = "CHUNK" /\ p.seq \notin rcv.received
                       /\ r.received = rcv.received \cup {p.seq}
                       /\ r.pending = rcv.pending + 1

\* Then it may grant what is pending, and finalises.
ReceiverMoves(taken, sent, r, grant) ==
  /\ UNCHANGED <<up, snd>>
  /\ Exchange(taken, sent)
  /\ FinalizedFrom(IF grant THEN Granted(r) ELSE r, rcv')
  /\ \A q \in sent : \/ grant /\ q = Flow(r)
                     \/ q = [type |-> "COMPLETE"] /\ rcv'.phase = "saved"
                     \/ q.type = "REPAIR" /\ q \in Packets

\* A step of the receiver: the two together.
ReceiverStep ==
  \E taken, sent, r, grant :
    grant \in BOOLEAN /\ Arrival(r) /\ ReceiverMoves(taken, sent, r, grant)

\* A grant leaves nothing pending and touches nothing else that matters here.
LEMMA GrantsClear ==
  ASSUME NEW r \in ReceiverRecord
  PROVE  /\ Granted(r) \in ReceiverRecord
         /\ Granted(r).received = r.received /\ Granted(r).digest = r.digest
         /\ Granted(r).phase = r.phase /\ Granted(r).pending = 0
BY DEF Granted, ReceiverRecord

\* Not to finalise is one of the outcomes.
LEMMA KeptIsFinalized ==
  ASSUME NEW r \in ReceiverRecord
  PROVE  FinalizedFrom(r, r)
BY DEF FinalizedFrom

\* A handler that ends in the finalisation is such a step.
LEMMA ReceiveIsAStep ==
  ASSUME NEW p, NEW r, Arrival(r), NEW grant \in BOOLEAN, Receive(p, r, grant)
  PROVE  ReceiverStep
<1>1. PICK sent : sent = (IF grant THEN {Flow(r)} ELSE {}) \cup
                         (IF rcv'.phase = "saved" THEN {[type |-> "COMPLETE"]} ELSE {})
  OBVIOUS
<1>2. PICK g : g = IF grant THEN Granted(r) ELSE r
  OBVIOUS
<1>3. rcv' \in Finalized(g) /\ UNCHANGED <<up, snd>> /\ Exchange({p}, sent)
  BY <1>1, <1>2 DEF Receive
<1>4. g \in ReceiverRecord /\ g.phase = "open"
  BY <1>2, GrantsClear DEF Arrival
<1>5. FinalizedFrom(g, rcv')
  BY <1>3, <1>4, FinalizationDecides
<1>6. \A q \in sent : \/ grant /\ q = Flow(r)
                      \/ q = [type |-> "COMPLETE"] /\ rcv'.phase = "saved"
  BY <1>1
<1>7. ReceiverMoves({p}, sent, r, grant)
  BY <1>2, <1>3, <1>5, <1>6 DEF ReceiverMoves
<1>8. QED
  BY <1>7 DEF ReceiverStep

\* The offer opens the transfer.
LEMMA OnOfferIsAStep ==
  ASSUME Types, NEW p \in net, OnOffer(p)
  PROVE  ReceiverStep
<1>1. rcv' = [rcv EXCEPT !.phase = "open"] /\ UNCHANGED <<up, snd>> /\ Exchange({p}, {})
  BY DEF OnOffer
<1>2. rcv.phase \in {"unknown", "open"}
  BY DEF OnOffer, Types, Matters, ToSender
<1>3. /\ rcv' \in ReceiverRecord /\ rcv'.phase = "open" /\ rcv'.digest = rcv.digest
      /\ rcv'.received = rcv.received /\ rcv'.pending = rcv.pending
  BY <1>1 DEF Types, ReceiverRecord
<1>4. PICK r : r = rcv'
  OBVIOUS
<1>5. Arrival(r)
  BY <1>2, <1>3, <1>4 DEF Arrival
<1>6. FinalizedFrom(r, r)
  BY <1>3, <1>4, KeptIsFinalized
<1>7. ReceiverMoves({p}, {}, r, FALSE)
  BY <1>1, <1>4, <1>6 DEF ReceiverMoves
<1>8. QED
  BY <1>5, <1>7 DEF ReceiverStep

\* A chunk arrives, once.
LEMMA OnChunkIsAStep ==
  ASSUME Types, NEW p \in net, OnChunk(p)
  PROVE  ReceiverStep
<1>1. p.type = "CHUNK" /\ rcv.phase = "open"
  BY DEF OnChunk
<1>2. p.seq \in Blocks /\ p.data \in Contents /\ p.seq \notin rcv.received
  BY <1>1, PacketKinds DEF Types, ChunkPackets, Matters, ToSender
<1>3. PICK received : received = rcv.received \cup {p.seq}
  OBVIOUS
<1>4. PICK asked \in SUBSET Seqs : \E grant \in BOOLEAN :
        Receive(p, [rcv EXCEPT !.received = received, !.data[p.seq] = p.data,
                      !.pending = @ + 1, !.repair = @ \cup asked], grant)
  <2>1. PICK below : below = {s \in Seqs \ received : s < Max(received)}
    OBVIOUS
  <2>2. PICK all : all = IF rcv.digest # NoDigest THEN Seqs \ received ELSE {}
    OBVIOUS
  <2>3. PICK asked \in {{}, below, all} : \E grant \in BOOLEAN :
          Receive(p, [rcv EXCEPT !.received = received, !.data[p.seq] = p.data,
                        !.pending = @ + 1, !.repair = @ \cup asked], grant)
    BY <1>3, <2>1, <2>2 DEF OnChunk, MustGrant
  <2>4. asked \in SUBSET Seqs
    BY <2>1, <2>2
  <2>5. QED
    BY <2>3, <2>4
<1>5. PICK r : r = [rcv EXCEPT !.received = received, !.data[p.seq] = p.data,
                      !.pending = @ + 1, !.repair = @ \cup asked]
  OBVIOUS
<1>6. PICK grant \in BOOLEAN : Receive(p, r, grant)
  BY <1>4, <1>5
<1>7. /\ rcv \in ReceiverRecord /\ rcv.pending \in Nat /\ rcv.received \in SUBSET Blocks
      /\ rcv.data \in [Blocks -> Contents] /\ rcv.repair \in SUBSET Seqs
  BY DEF Types, ReceiverRecord
<1>8. PICK d : d = [rcv.data EXCEPT ![p.seq] = p.data]
  OBVIOUS
<1>9. PICK more : more = rcv.repair \cup asked
  OBVIOUS
<1>10. /\ d \in [Blocks -> Contents] /\ more \in SUBSET Seqs
       /\ rcv.pending + 1 \in Nat /\ received \in SUBSET Blocks
  BY <1>2, <1>3, <1>7, <1>8, <1>9
<1>11. r = [rcv EXCEPT !.received = received, !.data = d,
              !.pending = rcv.pending + 1, !.repair = more]
  BY <1>5, <1>7, <1>8, <1>9 DEF ReceiverRecord
<1>12. /\ r \in ReceiverRecord /\ r.phase = rcv.phase /\ r.digest = rcv.digest
       /\ r.received = received /\ r.pending = rcv.pending + 1
  BY <1>7, <1>10, <1>11 DEF ReceiverRecord
<1>13. Arrival(r)
  BY <1>1, <1>2, <1>3, <1>12 DEF Arrival
<1>14. QED
  BY <1>6, <1>13, ReceiveIsAStep

\* DONE brings the digest.
LEMMA OnDoneIsAStep ==
  ASSUME Types, NEW p \in net, OnDone(p)
  PROVE  ReceiverStep
<1>1. p.type = "DONE" /\ rcv.phase = "open"
  BY DEF OnDone
<1>2. p.digest \in Sources
  BY <1>1, PacketKinds DEF Types, DonePackets
<1>3. PICK r : r = [rcv EXCEPT !.digest = p.digest]
  OBVIOUS
<1>4. Receive(p, r, FALSE)
  BY <1>3 DEF OnDone
<1>5. /\ r \in ReceiverRecord /\ r.phase = rcv.phase /\ r.digest = p.digest
      /\ r.received = rcv.received /\ r.pending = rcv.pending
  BY <1>2, <1>3 DEF Types, ReceiverRecord
<1>6. Arrival(r)
  BY <1>1, <1>5 DEF Arrival
<1>7. QED
  BY <1>4, <1>6, ReceiveIsAStep

\* IMMEDIATE_ACK grants what is pending.
LEMMA OnImmediateAckIsAStep ==
  ASSUME Types, NEW p \in net, OnImmediateAck(p)
  PROVE  ReceiverStep
<1>1. rcv.phase = "open" /\ Receive(p, rcv, rcv.pending > 0)
  BY DEF OnImmediateAck
<1>2. rcv \in ReceiverRecord
  BY DEF Types
<1>3. Arrival(rcv)
  BY <1>1, <1>2 DEF Arrival
<1>4. (rcv.pending > 0) \in BOOLEAN
  OBVIOUS
<1>5. QED
  BY <1>1, <1>3, <1>4, ReceiveIsAStep

\* A parity is kept, and what is pending may be granted.
LEMMA OnParityIsAStep ==
  ASSUME Types, NEW p \in net, OnParity(p)
  PROVE  ReceiverStep
<1>1. p.type = "PARITY" /\ rcv.phase = "open" /\ UNCHANGED <<up, snd>>
  BY DEF OnParity
<1>2. p \in ParityPackets
  BY <1>1, PacketKinds DEF Types
<1>3. PICK r : r = [rcv EXCEPT !.parity = @ \cup {p}]
  OBVIOUS
<1>4. PICK grant \in BOOLEAN : /\ rcv' = IF grant THEN Granted(r) ELSE r
                               /\ Exchange({p}, IF grant THEN {Flow(r)} ELSE {})
  BY <1>3 DEF OnParity, MustGrant
<1>5. rcv.parity \cup {p} \in SUBSET ParityPackets
  BY <1>2 DEF Types, ReceiverRecord
<1>6. /\ r \in ReceiverRecord /\ r.phase = rcv.phase /\ r.digest = rcv.digest
      /\ r.received = rcv.received /\ r.pending = rcv.pending
  BY <1>3, <1>5 DEF Types, ReceiverRecord
<1>7. Arrival(r)
  BY <1>1, <1>6 DEF Arrival
<1>8. rcv' \in ReceiverRecord
  BY <1>4, <1>6, GrantsClear
<1>9. FinalizedFrom(rcv', rcv')
  BY <1>8, KeptIsFinalized
<1>10. PICK sent : sent = IF grant THEN {Flow(r)} ELSE {}
  OBVIOUS
<1>11. \A q \in sent : grant /\ q = Flow(r)
  BY <1>10
<1>12. FinalizedFrom(IF grant THEN Granted(r) ELSE r, rcv')
  BY <1>4, <1>9
<1>13. Exchange({p}, sent)
  BY <1>4, <1>10
<1>14. ReceiverMoves({p}, sent, r, grant)
  BY <1>1, <1>11, <1>12, <1>13 DEF ReceiverMoves
<1>15. QED
  BY <1>7, <1>14 DEF ReceiverStep

\* The repair timer asks for announced chunks.
LEMMA FlushRepairIsAStep ==
  ASSUME Types, FlushRepair
  PROVE  ReceiverStep
<1>1. PICK repaired \in BOOLEAN :
        rcv' = [rcv EXCEPT !.repair = {}, !.repaired = repaired]
  BY DEF FlushRepair
<1>2. PICK sent : sent = {[type |-> "REPAIR", seqs |-> rcv.repair]}
  OBVIOUS
<1>3. rcv.phase = "open" /\ UNCHANGED <<up, snd>> /\ Exchange({}, sent)
  BY <1>2 DEF FlushRepair
<1>4. rcv.repair \in SUBSET Seqs
  BY DEF Types, ReceiverRecord
<1>5. \A q \in sent : q.type = "REPAIR" /\ q \in Packets
  BY <1>2, <1>4, KindsArePackets
<1>6. PICK r : r = rcv'
  OBVIOUS
<1>7. /\ r \in ReceiverRecord /\ r.phase = rcv.phase /\ r.digest = rcv.digest
      /\ r.received = rcv.received /\ r.pending = rcv.pending
  BY <1>1, <1>6 DEF Types, ReceiverRecord
<1>8. Arrival(r)
  BY <1>3, <1>7 DEF Arrival
<1>9. FinalizedFrom(r, r)
  BY <1>7, KeptIsFinalized
<1>10. ReceiverMoves({}, sent, r, FALSE)
  BY <1>3, <1>5, <1>6, <1>9 DEF ReceiverMoves
<1>11. QED
  BY <1>8, <1>10 DEF ReceiverStep

(***************************************************************************)
(* Every step is one of the sender, one of the receiver or a disconnect.   *)
(***************************************************************************)

SenderStep ==
  \E taken, sent, ahead :
    /\ SenderMoves(taken, sent, ahead)
    /\ \/ ahead = Ahead
       \/ Unbegun /\ ahead = Startup
       \/ \E p \in net : p.type = "FLOW" /\ taken = {p} /\ ahead = Ahead + p.granted

\* The pump and its timers are steps of the sender.
LEMMA PumpIsAStep ==
  ASSUME Types, NothingBeforeTheOffer,
         BeginFile \/ ProbeAnswered \/ SenderRuns \/ SpoolWritten
  PROVE  SenderStep
<1>1. CASE BeginFile
  <2>1. Unbegun
    BY <1>1 DEF BeginFile, Unbegun
  <2>2. QED
    BY <1>1, <2>1, BeginFileMoves DEF SenderStep
<1>2. CASE ProbeAnswered
  <2>1. Unbegun
    BY <1>2 DEF ProbeAnswered, Unbegun
  <2>2. QED
    BY <1>2, <2>1, ProbeAnsweredMoves DEF SenderStep
<1>3. CASE ProbeTimesOut
  <2>1. Unbegun
    BY <1>3 DEF ProbeTimesOut, Unbegun
  <2>2. QED
    BY <1>3, <2>1, ProbeTimesOutMoves DEF SenderStep
<1>4. CASE SendChunkPacket
  BY <1>4, SendChunkPacketMoves DEF SenderStep
<1>5. CASE WaitForCredits
  BY <1>5, WaitForCreditsMoves DEF SenderStep
<1>6. CASE CreditTimesOut
  BY <1>6, CreditTimesOutMoves DEF SenderStep
<1>7. CASE FinishFile
  BY <1>7, FinishFileMoves DEF SenderStep
<1>8. CASE FinalizeTimesOut
  BY <1>8, FinalizeTimesOutMoves DEF SenderStep
<1>9. CASE SpoolWritten
  BY <1>9, SpoolWrittenMoves DEF SenderStep
<1>10. QED
  BY <1>1, <1>2, <1>3, <1>4, <1>5, <1>6, <1>7, <1>8, <1>9 DEF SenderRuns

\* A datagram makes a step of the side it is addressed to.
LEMMA ArrivalIsAStep ==
  ASSUME Types, NEW p \in net, Arrives(p)
  PROVE  SenderStep \/ ReceiverStep
<1>1. CASE OnFlow(p)
  <2>1. p.type = "FLOW"
    BY <1>1 DEF OnFlow
  <2>2. QED
    BY <1>1, <2>1, OnFlowMoves DEF SenderStep
<1>2. CASE OnRepair(p)
  BY <1>2, OnRepairMoves DEF SenderStep
<1>3. CASE OnComplete(p)
  BY <1>3, OnCompleteMoves DEF SenderStep
<1>4. CASE OnOffer(p)
  BY <1>4, OnOfferIsAStep
<1>5. CASE OnChunk(p)
  BY <1>5, OnChunkIsAStep
<1>6. CASE OnDone(p)
  BY <1>6, OnDoneIsAStep
<1>7. CASE OnImmediateAck(p)
  BY <1>7, OnImmediateAckIsAStep
<1>8. CASE OnParity(p)
  BY <1>8, OnParityIsAStep
<1>9. QED
  BY <1>1, <1>2, <1>3, <1>4, <1>5, <1>6, <1>7, <1>8 DEF Arrives

\* The steps of the specification.
LEMMA StepsOfTheTransfer ==
  ASSUME Types, NothingBeforeTheOffer, Next
  PROVE  SenderStep \/ ReceiverStep \/ \E side \in up : Disconnect(side)
<1>1. CASE BeginFile \/ ProbeAnswered \/ SenderRuns \/ SpoolWritten
  BY <1>1, PumpIsAStep
<1>2. CASE FlushRepair
  BY <1>2, FlushRepairIsAStep
<1>3. CASE \E p \in net : Arrives(p)
  BY <1>3, ArrivalIsAStep
<1>4. QED
  BY <1>1, <1>2, <1>3 DEF Next

(***************************************************************************)
(* The types are kept.                                                     *)
(***************************************************************************)

\* What a receiver sends has its type.
LEMMA AnswersArePackets ==
  ASSUME NEW taken, NEW sent, NEW r, NEW grant \in BOOLEAN,
         r \in ReceiverRecord, ReceiverMoves(taken, sent, r, grant)
  PROVE  sent \subseteq Packets
<1>1. r.pending \in Nat /\ r.received \in SUBSET Blocks
  BY DEF ReceiverRecord
<1>2. Flow(r) \in Packets
  BY <1>1, KindsArePackets DEF Flow
<1>3. QED
  BY <1>2, KindsArePackets DEF ReceiverMoves

\* A disconnect drops a registration or a transfer, and nothing else.
LEMMA DisconnectDrops ==
  ASSUME Types, NEW side \in up, Disconnect(side)
  PROVE  /\ up' \subseteq {"sender", "receiver"}
         /\ Exchange({}, {})
         /\ snd' \in SenderRecord /\ rcv' \in ReceiverRecord
         /\ snd'.next = snd.next /\ snd'.credits = snd.credits
         /\ snd'.source = snd.source /\ snd'.group = snd.group
         /\ snd'.pump = snd.pump /\ snd'.confirmed = snd.confirmed
         /\ rcv'.received = rcv.received /\ rcv'.pending = rcv.pending
         /\ rcv'.digest = rcv.digest /\ rcv'.data = rcv.data
         /\ rcv'.broken = rcv.broken
         /\ rcv'.phase = rcv.phase \/ (rcv.phase = "open" /\ rcv'.phase = "gone")
<1>1. snd \in SenderRecord /\ rcv \in ReceiverRecord /\ up \subseteq {"sender", "receiver"}
  BY DEF Types
<1>2. up' = up \ {side} /\ Exchange({}, {})
  BY DEF Disconnect
<1>3. CASE side = "sender"
  <2>1. snd' = [snd EXCEPT !.registered = FALSE] /\ rcv' = rcv
    BY <1>3 DEF Disconnect
  <2>2. QED
    BY <1>1, <1>2, <2>1 DEF SenderRecord
<1>4. CASE side # "sender"
  <2>1. rcv' = [rcv EXCEPT !.phase = IF @ = "open" THEN "gone" ELSE @] /\ snd' = snd
    BY <1>4 DEF Disconnect
  <2>2. QED
    BY <1>1, <1>2, <2>1 DEF ReceiverRecord
<1>5. QED
  BY <1>3, <1>4

\* Every step keeps the types.
LEMMA TypesKept ==
  ASSUME Types, NothingBeforeTheOffer, [Next]_vars
  PROVE  Types' /\ NothingBeforeTheOffer'
<1>1. CASE SenderStep
  <2>1. PICK taken, sent, ahead : SenderMoves(taken, sent, ahead)
    BY <1>1 DEF SenderStep
  <2>2. Types'
    BY <2>1, SenderKeepsTypes DEF SenderMoves
  <2>3. NothingBeforeTheOffer'
    BY <2>1 DEF SenderMoves, NothingBeforeTheOffer
  <2>4. QED
    BY <2>2, <2>3
<1>2. CASE ReceiverStep
  <2>1. PICK taken, sent, r, grant :
          grant \in BOOLEAN /\ Arrival(r) /\ ReceiverMoves(taken, sent, r, grant)
    BY <1>2 DEF ReceiverStep
  <2>2. sent \subseteq Packets
    BY <2>1, AnswersArePackets DEF Arrival
  <2>3. rcv' \in ReceiverRecord /\ UNCHANGED <<up, snd>> /\ Exchange(taken, sent)
    BY <2>1 DEF ReceiverMoves, FinalizedFrom
  <2>4. Types'
    BY <2>2, <2>3, ReceiverKeepsTypes
  <2>5. NothingBeforeTheOffer'
    BY <2>3 DEF NothingBeforeTheOffer, Unbegun
  <2>6. QED
    BY <2>4, <2>5
<1>3. CASE \E side \in up : Disconnect(side)
  <2>1. PICK side \in up : Disconnect(side)
    BY <1>3
  <2>2. /\ up' \subseteq {"sender", "receiver"}
        /\ Exchange({}, {})
        /\ snd' \in SenderRecord /\ rcv' \in ReceiverRecord
        /\ snd'.next = snd.next /\ snd'.credits = snd.credits
        /\ snd'.source = snd.source /\ snd'.group = snd.group
        /\ snd'.pump = snd.pump
    BY <2>1, DisconnectDrops
  <2>3. net' \subseteq net /\ \A p \in net' : Matters(p)'
    BY <2>2, ExchangeOnlyAdds
  <2>4. Types'
    BY <2>2, <2>3 DEF Types
  <2>5. NothingBeforeTheOffer'
    BY <2>2 DEF NothingBeforeTheOffer, Unbegun
  <2>6. QED
    BY <2>4, <2>5
<1>4. CASE UNCHANGED vars
  BY <1>4 DEF vars, Types, NothingBeforeTheOffer, Unbegun, Matters, ToSender
<1>5. QED
  BY <1>1, <1>2, <1>3, <1>4, StepsOfTheTransfer

\* The initial states have the types.
LEMMA InitTypes ==
  ASSUME Init
  PROVE  Types /\ NothingBeforeTheOffer
<1>1. PICK v \in {"disk", "window"}, n \in Blocks \cup {Chunks + 1} :
        snd = [pump |-> "idle", via |-> v, source |-> n, probes |-> 0,
               registered |-> FALSE, next |-> 0, credits |-> 0,
               parityOn |-> FALSE, group |-> {}, index |-> 0, spooled |-> {},
               shown |-> "none", confirmed |-> FALSE]
  BY DEF Init
<1>2. n \in Sources
  BY TransferAssumption DEF Blocks, Sources
<1>3. snd \in SenderRecord
  BY <1>1, <1>2 DEF SenderRecord
<1>4. /\ snd.next = 0 /\ snd.credits = 0 /\ snd.group = {} /\ snd.next <= snd.source
  BY <1>1, <1>2 DEF Sources
<1>5. [s \in Blocks |-> {}] \in [Blocks -> Contents]
  BY DEF Contents
<1>6. rcv = [phase |-> "unknown", received |-> {}, data |-> [s \in Blocks |-> {}],
            digest |-> NoDigest, pending |-> 0, flowed |-> FALSE,
            repair |-> {}, repaired |-> FALSE, parity |-> {},
            threw |-> FALSE, broken |-> FALSE]
  BY DEF Init
<1>7. rcv \in ReceiverRecord
  BY <1>5, <1>6 DEF ReceiverRecord
<1>8. up \subseteq {"sender", "receiver"} /\ net = {}
  BY DEF Init
<1>9. QED
  BY <1>3, <1>4, <1>7, <1>8, EmptyGroupIsSmall DEF Types, NothingBeforeTheOffer

(***************************************************************************)
(* Where chunks, digests and confirmations come from.                      *)
(***************************************************************************)

\* What arrived was sent.
ReceivedWasSent == rcv.received \subseteq Known(snd.next)

\* The digest is the source's.
DigestIsTheSources == rcv.digest \in {NoDigest, snd.source}

\* What is on its way comes from the source, or from a saved file.
NetIsHonest ==
  \A p \in net : /\ p.type = "CHUNK" => p.seq \in Known(snd.next)
                 /\ p.type = "DONE" => p.digest = snd.source
                 /\ p.type = "COMPLETE" => rcv.phase = "saved"

\* What is confirmed is saved, and what is saved is what was read.
SavedIsRead ==
  /\ snd.confirmed => rcv.phase = "saved"
  /\ rcv.phase = "saved" => rcv.digest = snd.source /\ HashMatches(rcv)

Origins == ReceivedWasSent /\ DigestIsTheSources /\ NetIsHonest /\ SavedIsRead

\* What was known stays known.
LEMMA KnownGrows ==
  ASSUME NEW m \in Nat, NEW n \in Nat, m <= n
  PROVE  Known(m) \subseteq Known(n)
BY DEF Known

\* A step of the sender keeps the origins: what it sends, it has.
LEMMA SenderKeepsOrigins ==
  ASSUME Types, Origins, NEW taken, NEW sent, NEW ahead, SenderMoves(taken, sent, ahead)
  PROVE  Origins'
<1>1. /\ rcv' = rcv /\ snd'.source = snd.source
      /\ snd.next \in Nat /\ snd'.next \in Nat /\ snd.next <= snd'.next
      /\ snd'.confirmed => snd.confirmed \/ \E p \in net : p.type = "COMPLETE"
  BY DEF SenderMoves, Types, SenderRecord
<1>2. Known(snd.next) \subseteq Known(snd'.next)
  BY <1>1, KnownGrows
<1>3. \A p \in sent :
       /\ p.type \notin {"FLOW", "COMPLETE"}
       /\ p.type = "CHUNK" => p.seq \in Known(snd'.next)
       /\ p.type = "DONE" => p.digest = snd.source
  BY DEF SenderMoves
<1>4. net' \subseteq net \cup sent
  BY ExchangeOnlyAdds DEF SenderMoves
<1>5. ReceivedWasSent'
  BY <1>1, <1>2 DEF Origins, ReceivedWasSent
<1>6. DigestIsTheSources'
  BY <1>1 DEF Origins, DigestIsTheSources
<1>7. \A p \in net' : /\ p.type = "CHUNK" => p.seq \in Known(snd'.next)
                      /\ p.type = "DONE" => p.digest = snd'.source
                      /\ p.type = "COMPLETE" => rcv'.phase = "saved"
  <2>1. SUFFICES ASSUME NEW p \in net'
                 PROVE  /\ p.type = "CHUNK" => p.seq \in Known(snd'.next)
                        /\ p.type = "DONE" => p.digest = snd'.source
                        /\ p.type = "COMPLETE" => rcv'.phase = "saved"
    OBVIOUS
  <2>2. CASE p \in sent
    BY <1>1, <1>3, <2>2
  <2>3. CASE p \in net
    <3>1. /\ p.type = "CHUNK" => p.seq \in Known(snd.next)
          /\ p.type = "DONE" => p.digest = snd.source
          /\ p.type = "COMPLETE" => rcv.phase = "saved"
      BY <2>3 DEF Origins, NetIsHonest
    <3>2. QED
      BY <1>1, <1>2, <3>1
  <2>4. QED
    BY <1>4, <2>2, <2>3
<1>8. NetIsHonest'
  BY <1>7 DEF NetIsHonest
<1>9. SavedIsRead'
  <2>1. snd'.confirmed => rcv'.phase = "saved"
    BY <1>1 DEF Origins, NetIsHonest, SavedIsRead
  <2>2. HashMatches(rcv)' <=> HashMatches(rcv)
    BY <1>1 DEF HashMatches
  <2>3. QED
    BY <1>1, <2>1, <2>2 DEF Origins, SavedIsRead
<1>10. QED
  BY <1>5, <1>6, <1>8, <1>9 DEF Origins

\* What a step of the receiver leaves: chunks that were sent, the digest of
\* the source, and a saved file only with that digest.
LEMMA ReceiverMovesOn ==
  ASSUME Types, Origins, NEW r, Arrival(r), NEW grant \in BOOLEAN,
         NEW taken, NEW sent, ReceiverMoves(taken, sent, r, grant)
  PROVE  /\ rcv' \in ReceiverRecord /\ UNCHANGED <<up, snd>>
         /\ rcv'.received \subseteq Known(snd.next)
         /\ rcv'.digest \in {NoDigest, snd.source}
         /\ rcv'.phase \in {"open", "saved", "invalid"}
         /\ rcv'.phase = "saved" => rcv'.digest = snd.source /\ HashMatches(rcv')
         /\ rcv'.phase = "invalid" =>
              \/ rcv'.broken
              \/ /\ ~HashMatches(rcv') /\ rcv'.digest = snd.source
                 /\ Cardinality(rcv'.received) = Chunks
<1>1. PICK g : g = IF grant THEN Granted(r) ELSE r
  OBVIOUS
<1>2. FinalizedFrom(g, rcv') /\ UNCHANGED <<up, snd>>
  BY <1>1 DEF ReceiverMoves
<1>3. /\ r \in ReceiverRecord /\ r.phase = "open"
  BY DEF Arrival
<1>4. /\ g \in ReceiverRecord /\ g.received = r.received /\ g.digest = r.digest
      /\ g.phase = "open"
  BY <1>1, <1>3, GrantsClear
<1>5. r.received \subseteq Known(snd.next)
  BY DEF Arrival, Origins, ReceivedWasSent, NetIsHonest
<1>6. r.digest \in {NoDigest, snd.source}
  BY DEF Arrival, Origins, DigestIsTheSources, NetIsHonest
<1>7. rcv'.received \subseteq Known(snd.next)
  <2>1. rcv'.received \subseteq r.received \cup Seqs
    BY <1>2, <1>4 DEF FinalizedFrom
  <2>2. QED
    BY <1>5, <2>1 DEF Known
<1>8. rcv' \in ReceiverRecord /\ rcv'.digest = r.digest
      /\ rcv'.phase \in {"open", "saved", "invalid"}
  BY <1>2, <1>4 DEF FinalizedFrom
<1>9. rcv'.phase = "saved" => r.digest # NoDigest /\ HashMatches(rcv')
  BY <1>2, <1>4 DEF FinalizedFrom
<1>10. rcv'.phase = "invalid" =>
         \/ rcv'.broken
         \/ /\ ~HashMatches(rcv') /\ r.digest # NoDigest
            /\ Cardinality(rcv'.received) = Chunks
  BY <1>2, <1>4 DEF FinalizedFrom
<1>11. QED
  BY <1>2, <1>6, <1>7, <1>8, <1>9, <1>10

\* A step of the receiver keeps the origins.
LEMMA ReceiverKeepsOrigins ==
  ASSUME Types, Origins, NEW r, Arrival(r), NEW grant \in BOOLEAN,
         NEW taken, NEW sent, ReceiverMoves(taken, sent, r, grant)
  PROVE  Origins'
<1>1. /\ UNCHANGED <<up, snd>>
      /\ rcv'.received \subseteq Known(snd.next)
      /\ rcv'.digest \in {NoDigest, snd.source}
      /\ rcv'.phase = "saved" => rcv'.digest = snd.source /\ HashMatches(rcv')
  BY ReceiverMovesOn
<1>2. net' \subseteq net \cup sent
  BY ExchangeOnlyAdds DEF ReceiverMoves
<1>3. rcv.phase \in {"unknown", "open"}
  BY DEF Arrival
<1>4. \A q \in sent : /\ q.type \in {"FLOW", "COMPLETE", "REPAIR"}
                      /\ q.type = "COMPLETE" => rcv'.phase = "saved"
  BY DEF ReceiverMoves, Flow
<1>5. ReceivedWasSent'
  BY <1>1 DEF ReceivedWasSent
<1>6. DigestIsTheSources'
  BY <1>1 DEF DigestIsTheSources
<1>7. NetIsHonest'
  <2>1. \A p \in net : /\ p.type = "CHUNK" => p.seq \in Known(snd.next)
                       /\ p.type = "DONE" => p.digest = snd.source
                       /\ p.type # "COMPLETE"
    BY <1>3 DEF Origins, NetIsHonest
  <2>2. \A p \in net' : /\ p.type = "CHUNK" => p.seq \in Known(snd.next)
                        /\ p.type = "DONE" => p.digest = snd.source
                        /\ p.type = "COMPLETE" => rcv'.phase = "saved"
    BY <1>2, <1>4, <2>1
  <2>3. QED
    BY <1>1, <2>2 DEF NetIsHonest
<1>8. SavedIsRead'
  <2>1. ~snd.confirmed
    BY <1>3 DEF Origins, SavedIsRead
  <2>2. HashMatches(rcv)' <=> HashMatches(rcv')
    BY DEF HashMatches
  <2>3. QED
    BY <1>1, <2>1, <2>2 DEF SavedIsRead
<1>9. QED
  BY <1>5, <1>6, <1>7, <1>8 DEF Origins

\* Every step keeps the origins.
LEMMA OriginsKept ==
  ASSUME Types, NothingBeforeTheOffer, Origins, [Next]_vars
  PROVE  Origins'
<1>1. CASE SenderStep
  BY <1>1, SenderKeepsOrigins DEF SenderStep
<1>2. CASE ReceiverStep
  BY <1>2, ReceiverKeepsOrigins DEF ReceiverStep
<1>3. CASE \E side \in up : Disconnect(side)
  <2>1. PICK side \in up : Disconnect(side)
    BY <1>3
  <2>2. /\ Exchange({}, {})
        /\ snd'.next = snd.next /\ snd'.source = snd.source
        /\ snd'.confirmed = snd.confirmed
        /\ rcv'.received = rcv.received /\ rcv'.digest = rcv.digest
        /\ rcv'.data = rcv.data
        /\ rcv'.phase = rcv.phase \/ (rcv.phase = "open" /\ rcv'.phase = "gone")
    BY <2>1, DisconnectDrops
  <2>3. net' \subseteq net
    BY <2>2, ExchangeOnlyAdds
  <2>4. rcv'.phase = "saved" <=> rcv.phase = "saved"
    BY <2>2
  <2>5. HashMatches(rcv)' <=> HashMatches(rcv)
    BY <2>2 DEF HashMatches
  <2>6. QED
    BY <2>2, <2>3, <2>4, <2>5 DEF Origins, ReceivedWasSent, DigestIsTheSources,
         NetIsHonest, SavedIsRead
<1>4. CASE UNCHANGED vars
  BY <1>4 DEF vars, Origins, ReceivedWasSent, DigestIsTheSources, NetIsHonest,
              SavedIsRead, HashMatches
<1>5. QED
  BY <1>1, <1>2, <1>3, <1>4, StepsOfTheTransfer

(***************************************************************************)
(* The credit.  Every chunk that arrived pays for one credit at most: it   *)
(* is spent, or pending, or granted by one FLOW that is on its way.        *)
(***************************************************************************)

\* The chunks of R that are spent, those that wait for a grant, and those that
\* each FLOW on its way grants are apart, and are enough: for what the sender
\* is ahead of its first credit, for what is pending and for every FLOW.
Ledger(R, pending, ahead, F, spent, waiting, of) ==
  /\ spent \in SUBSET R
  /\ waiting \in SUBSET R
  /\ of \in [F -> SUBSET R]
  /\ spent \cap waiting = {}
  /\ \A f \in F : of[f] \cap spent = {} /\ of[f] \cap waiting = {}
  /\ \A f, g \in F : f # g => of[f] \cap of[g] = {}
  /\ \A f \in F : f.granted <= Cardinality(of[f])
  /\ pending <= Cardinality(waiting)
  /\ ahead <= Startup + Cardinality(spent)

Covered(R, pending, ahead, F) ==
  \E spent, waiting, of : Ledger(R, pending, ahead, F, spent, waiting, of)

\* Finite sets that are apart are counted apart.
LEMMA DisjointUnion ==
  ASSUME NEW S, NEW T, IsFiniteSet(S), IsFiniteSet(T), S \cap T = {}
  PROVE  /\ IsFiniteSet(S \cup T)
         /\ Cardinality(S \cup T) = Cardinality(S) + Cardinality(T)
<1>1. Cardinality(S) \in Nat /\ Cardinality(T) \in Nat
  BY FS_CardinalityType
<1>2. Cardinality(S \cap T) = 0
  BY FS_EmptySet
<1>3. /\ IsFiniteSet(S \cup T)
      /\ Cardinality(S \cup T) = Cardinality(S) + Cardinality(T) - Cardinality(S \cap T)
  BY FS_Union, Zenon
<1>4. QED
  BY <1>1, <1>2, <1>3

\* More chunks, less pending, less ahead, fewer FLOWs: still covered.
LEMMA CoveredStill ==
  ASSUME NEW R, NEW S \in SUBSET Blocks, R \subseteq S,
         NEW pending \in Nat, NEW less \in Nat, less <= pending,
         NEW ahead \in Nat, NEW behind \in Nat, behind <= ahead,
         NEW F, NEW G \in SUBSET F,
         Covered(R, pending, ahead, F)
  PROVE  Covered(S, less, behind, G)
<1>1. PICK spent, waiting, of : Ledger(R, pending, ahead, F, spent, waiting, of)
  BY DEF Covered
<1>2. spent \in SUBSET Blocks /\ waiting \in SUBSET Blocks
  BY <1>1 DEF Ledger
<1>3. Cardinality(spent) \in Nat /\ Cardinality(waiting) \in Nat
  BY <1>2, BlocksAreFinite
<1>4. PICK by : by = [f \in G |-> of[f]]
  OBVIOUS
<1>5. by \in [G -> SUBSET S] /\ \A f \in G : f \in F /\ by[f] = of[f]
  BY <1>1, <1>4 DEF Ledger
<1>6. less <= Cardinality(waiting)
  BY <1>1, <1>3 DEF Ledger
<1>7. behind <= Startup + Cardinality(spent)
  BY <1>1, <1>3, TransferAssumption DEF Ledger
<1>8. Ledger(S, less, behind, G, spent, waiting, by)
  BY <1>1, <1>5, <1>6, <1>7 DEF Ledger
<1>9. QED
  BY <1>8 DEF Covered

\* A chunk that arrives waits for a grant.
LEMMA CoveredArrival ==
  ASSUME NEW R \in SUBSET Blocks, NEW s \in Blocks, s \notin R,
         NEW pending \in Nat, NEW ahead \in Nat, NEW F,
         Covered(R, pending, ahead, F)
  PROVE  Covered(R \cup {s}, pending + 1, ahead, F)
<1>1. PICK spent, waiting, of : Ledger(R, pending, ahead, F, spent, waiting, of)
  BY DEF Covered
<1>2. PICK more : more = waiting \cup {s}
  OBVIOUS
<1>3. waiting \in SUBSET Blocks /\ s \notin waiting
  BY <1>1 DEF Ledger
<1>4. IsFiniteSet(waiting) /\ Cardinality(waiting) \in Nat
  BY <1>3, BlocksAreFinite
<1>5. Cardinality(more) = Cardinality(waiting) + 1
  BY <1>2, <1>3, <1>4, FS_AddElement
<1>6. pending + 1 <= Cardinality(more)
  BY <1>1, <1>4, <1>5 DEF Ledger
<1>7. /\ more \in SUBSET (R \cup {s}) /\ spent \cap more = {}
      /\ \A f \in F : of[f] \cap more = {}
  BY <1>1, <1>2 DEF Ledger
<1>8. spent \in SUBSET (R \cup {s}) /\ of \in [F -> SUBSET (R \cup {s})]
  BY <1>1 DEF Ledger
<1>9. Ledger(R \cup {s}, pending + 1, ahead, F, spent, more, of)
  BY <1>1, <1>6, <1>7, <1>8 DEF Ledger
<1>10. QED
  BY <1>9 DEF Covered

\* A grant: what waited is what the new FLOW grants.
LEMMA CoveredGrant ==
  ASSUME NEW R \in SUBSET Blocks, NEW pending \in Nat, NEW ahead \in Nat, NEW F,
         NEW flow, flow.granted = pending,
         Covered(R, pending, ahead, F)
  PROVE  Covered(R, 0, ahead, F \cup {flow})
<1>1. PICK spent, waiting, of : Ledger(R, pending, ahead, F, spent, waiting, of)
  BY DEF Covered
<1>2. PICK by : by = [f \in F \cup {flow} |-> IF f \in F THEN of[f] ELSE waiting]
  OBVIOUS
<1>3. /\ by \in [F \cup {flow} -> SUBSET R]
      /\ \A f \in F : by[f] = of[f]
      /\ flow \notin F => by[flow] = waiting
  BY <1>1, <1>2 DEF Ledger
<1>4. Cardinality({}) = 0
  BY FS_EmptySet
<1>5. \A f, g \in F \cup {flow} : f # g => by[f] \cap by[g] = {}
  BY <1>1, <1>3 DEF Ledger
<1>6. \A f \in F \cup {flow} : by[f] \cap spent = {}
  BY <1>1, <1>3 DEF Ledger
<1>7. \A f \in F \cup {flow} : f.granted <= Cardinality(by[f])
  BY <1>1, <1>3 DEF Ledger
<1>8. Ledger(R, 0, ahead, F \cup {flow}, spent, {}, by)
  BY <1>1, <1>3, <1>4, <1>5, <1>6, <1>7 DEF Ledger
<1>9. QED
  BY <1>8 DEF Covered

\* A FLOW that arrives: what it granted is spent.
LEMMA CoveredFlow ==
  ASSUME NEW R \in SUBSET Blocks, NEW pending \in Nat, NEW ahead \in Nat, NEW F,
         NEW flow \in F, flow.granted \in Nat,
         NEW more \in Nat, more <= ahead + flow.granted,
         Covered(R, pending, ahead, F)
  PROVE  Covered(R, pending, more, F \ {flow})
<1>1. PICK spent, waiting, of : Ledger(R, pending, ahead, F, spent, waiting, of)
  BY DEF Covered
<1>2. PICK all : all = spent \cup of[flow]
  OBVIOUS
<1>3. /\ spent \in SUBSET Blocks /\ of[flow] \in SUBSET Blocks
      /\ spent \cap of[flow] = {}
  BY <1>1 DEF Ledger
<1>4. /\ IsFiniteSet(spent) /\ Cardinality(spent) \in Nat
      /\ IsFiniteSet(of[flow]) /\ Cardinality(of[flow]) \in Nat
  BY <1>3, BlocksAreFinite
<1>5. Cardinality(all) = Cardinality(spent) + Cardinality(of[flow])
  BY <1>2, <1>3, <1>4, DisjointUnion
<1>6. more <= Startup + Cardinality(all)
  <2>1. ahead <= Startup + Cardinality(spent) /\ flow.granted <= Cardinality(of[flow])
    BY <1>1 DEF Ledger
  <2>2. QED
    BY <1>4, <1>5, <2>1, TransferAssumption
<1>7. PICK by : by = [f \in F \ {flow} |-> of[f]]
  OBVIOUS
<1>8. /\ by \in [F \ {flow} -> SUBSET R]
      /\ \A f \in F \ {flow} : by[f] = of[f]
  BY <1>1, <1>7 DEF Ledger
<1>9. /\ all \in SUBSET R /\ all \cap waiting = {}
      /\ \A f \in F \ {flow} : by[f] \cap all = {}
  BY <1>1, <1>2, <1>8 DEF Ledger
<1>10. Ledger(R, pending, more, F \ {flow}, all, waiting, by)
  BY <1>1, <1>6, <1>8, <1>9 DEF Ledger
<1>11. QED
  BY <1>10 DEF Covered

\* The first credit is free.
LEMMA CoveredStart ==
  ASSUME NEW R \in SUBSET Blocks, NEW pending \in Nat, NEW F, NEW ahead \in Nat,
         Covered(R, pending, ahead, F), NEW start \in Nat, start <= Startup
  PROVE  Covered(R, pending, start, F)
<1>1. PICK spent, waiting, of : Ledger(R, pending, ahead, F, spent, waiting, of)
  BY DEF Covered
<1>2. Cardinality(spent) \in Nat
  BY <1>1, BlocksAreFinite DEF Ledger
<1>3. start <= Startup + Cardinality(spent)
  BY <1>2, TransferAssumption
<1>4. Ledger(R, pending, start, F, spent, waiting, of)
  BY <1>1, <1>3 DEF Ledger
<1>5. QED
  BY <1>4 DEF Covered

\* What is covered is bounded by what arrived.
LEMMA CoveredIsBounded ==
  ASSUME NEW R \in SUBSET Blocks, NEW pending \in Nat, NEW ahead \in Nat, NEW F,
         Covered(R, pending, ahead, F)
  PROVE  pending <= Cardinality(R) /\ ahead <= Startup + Cardinality(R)
<1>1. PICK spent, waiting, of : Ledger(R, pending, ahead, F, spent, waiting, of)
  BY DEF Covered
<1>2. spent \in SUBSET R /\ waiting \in SUBSET R
  BY <1>1 DEF Ledger
<1>3. /\ Cardinality(spent) \in Nat /\ Cardinality(waiting) \in Nat
      /\ Cardinality(R) \in Nat
  BY <1>2, BlocksAreFinite
<1>4. Cardinality(spent) <= Cardinality(R) /\ Cardinality(waiting) <= Cardinality(R)
  BY <1>2, BlocksAreFinite, FS_Subset
<1>5. QED
  BY <1>1, <1>3, <1>4, TransferAssumption DEF Ledger

(***************************************************************************)
(* The transfer's ledger is covered in every state.                        *)
(***************************************************************************)

Flows == {p \in net : p.type = "FLOW"}

CreditIsCovered == Covered(rcv.received, rcv.pending, Ahead, Flows)

\* The numbers the lemmas above ask for.
LEMMA LedgerTypes ==
  ASSUME Types
  PROVE  /\ rcv.received \in SUBSET Blocks /\ rcv.pending \in Nat
         /\ snd.next \in Nat /\ snd.credits \in Nat /\ Ahead \in Nat
         /\ \A p \in Flows : p.granted \in Nat
<1>1. \A p \in Flows : p \in FlowPackets
  BY PacketKinds DEF Types, Flows
<1>2. QED
  BY <1>1 DEF Types, ReceiverRecord, SenderRecord, Ahead, FlowPackets

\* A step of the sender spends credit, gets its first or takes a FLOW.
LEMMA SenderKeepsCredit ==
  ASSUME Types, Types', CreditIsCovered, SenderStep
  PROVE  CreditIsCovered'
<1>1. PICK taken, sent, ahead :
        /\ SenderMoves(taken, sent, ahead)
        /\ \/ ahead = Ahead
           \/ Unbegun /\ ahead = Startup
           \/ \E p \in net : p.type = "FLOW" /\ taken = {p} /\ ahead = Ahead + p.granted
  BY DEF SenderStep
<1>2. /\ rcv' = rcv /\ Ahead' <= ahead
      /\ \A p \in sent : p.type # "FLOW"
  BY <1>1 DEF SenderMoves, Ahead
<1>3. net' \subseteq (net \ taken) \cup sent
  BY <1>1, ExchangeOnlyAdds DEF SenderMoves
<1>4. Flows' \subseteq Flows \ taken
  BY <1>2, <1>3 DEF Flows
<1>5. /\ rcv.received \in SUBSET Blocks /\ rcv.pending \in Nat
      /\ Ahead \in Nat /\ \A p \in Flows : p.granted \in Nat
  BY LedgerTypes
<1>6. Ahead' \in Nat
  BY DEF Types, SenderRecord, Ahead
<1>7. PICK R, pending, now, F :
        R = rcv.received /\ pending = rcv.pending /\ now = Ahead /\ F = Flows
  OBVIOUS
<1>8. PICK then, G : then = Ahead' /\ G = Flows'
  OBVIOUS
<1>9. Covered(R, pending, now, F)
  BY <1>7 DEF CreditIsCovered
<1>10. /\ R \in SUBSET Blocks /\ pending \in Nat /\ now \in Nat /\ then \in Nat
       /\ G \subseteq F
  BY <1>4, <1>5, <1>6, <1>7, <1>8
<1>11. Covered(R, pending, then, G)
  <2>1. CASE ahead = Ahead
    <3>1. then <= now
      BY <1>2, <1>7, <1>8, <2>1
    <3>2. pending <= pending
      BY <1>10
    <3>3. QED
      BY <1>9, <1>10, <3>1, <3>2, CoveredStill
  <2>2. CASE Unbegun /\ ahead = Startup
    <3>1. then <= Startup
      BY <1>2, <1>8, <2>2
    <3>2. Covered(R, pending, then, F)
      BY <1>9, <1>10, <3>1, CoveredStart
    <3>3. pending <= pending /\ then <= then
      BY <1>10
    <3>4. QED
      BY <1>10, <3>2, <3>3, CoveredStill
  <2>3. CASE \E p \in net : p.type = "FLOW" /\ taken = {p} /\ ahead = Ahead + p.granted
    <3>1. PICK p \in net : p.type = "FLOW" /\ taken = {p} /\ ahead = Ahead + p.granted
      BY <2>3
    <3>2. p \in F /\ p.granted \in Nat
      BY <1>5, <1>7, <3>1 DEF Flows
    <3>3. then <= now + p.granted
      BY <1>2, <1>7, <1>8, <3>1
    <3>4. Covered(R, pending, then, F \ {p})
      BY <1>9, <1>10, <3>2, <3>3, CoveredFlow
    <3>5. G \in SUBSET (F \ {p})
      BY <1>4, <1>7, <1>8, <3>1
    <3>6. pending <= pending /\ then <= then
      BY <1>10
    <3>7. QED
      BY <1>10, <3>4, <3>5, <3>6, CoveredStill
  <2>4. QED
    BY <1>1, <2>1, <2>2, <2>3
<1>12. rcv'.received = R /\ rcv'.pending = pending
  BY <1>2, <1>7
<1>13. QED
  BY <1>8, <1>11, <1>12 DEF CreditIsCovered

\* A step of the receiver takes a chunk, grants what is pending, and may
\* recover more.
LEMMA ReceiverKeepsCredit ==
  ASSUME Types, Types', CreditIsCovered, ReceiverStep
  PROVE  CreditIsCovered'
<1>1. PICK taken, sent, r, grant :
        grant \in BOOLEAN /\ Arrival(r) /\ ReceiverMoves(taken, sent, r, grant)
  BY DEF ReceiverStep
<1>2. PICK R, pending, now, F :
        R = rcv.received /\ pending = rcv.pending /\ now = Ahead /\ F = Flows
  OBVIOUS
<1>3. /\ R \in SUBSET Blocks /\ pending \in Nat /\ now \in Nat
  BY <1>2, LedgerTypes
<1>4. Covered(R, pending, now, F)
  BY <1>2 DEF CreditIsCovered
<1>5. r \in ReceiverRecord /\ r.received \in SUBSET Blocks /\ r.pending \in Nat
  BY <1>1 DEF Arrival, ReceiverRecord
<1>6. Covered(r.received, r.pending, now, F)
  <2>1. CASE r.received = rcv.received /\ r.pending = rcv.pending
    BY <1>2, <1>4, <2>1
  <2>2. CASE \E p \in net : /\ p.type = "CHUNK" /\ p.seq \notin rcv.received
                            /\ r.received = rcv.received \cup {p.seq}
                            /\ r.pending = rcv.pending + 1
    <3>1. PICK p \in net : /\ p.type = "CHUNK" /\ p.seq \notin rcv.received
                           /\ r.received = rcv.received \cup {p.seq}
                           /\ r.pending = rcv.pending + 1
      BY <2>2
    <3>2. p.seq \in Blocks
      BY <3>1, PacketKinds DEF Types, ChunkPackets
    <3>3. PICK s : s = p.seq
      OBVIOUS
    <3>4. s \in Blocks /\ s \notin R
      BY <1>2, <3>1, <3>2, <3>3
    <3>5. Covered(R \cup {s}, pending + 1, now, F)
      BY <1>3, <1>4, <3>4, CoveredArrival
    <3>6. QED
      BY <1>2, <3>1, <3>3, <3>5
  <2>3. QED
    BY <1>1, <2>1, <2>2 DEF Arrival
<1>7. PICK g : g = IF grant THEN Granted(r) ELSE r
  OBVIOUS
<1>8. PICK H : H = IF grant THEN F \cup {Flow(r)} ELSE F
  OBVIOUS
<1>9. g \in ReceiverRecord /\ g.received = r.received /\ g.pending \in Nat
  BY <1>5, <1>7, GrantsClear DEF ReceiverRecord
<1>10. Covered(g.received, g.pending, now, H)
  <2>1. CASE grant
    <3>1. g.received = r.received /\ g.pending = 0 /\ H = F \cup {Flow(r)}
      BY <1>5, <1>7, <1>8, <2>1, GrantsClear
    <3>2. Flow(r).granted = r.pending
      BY DEF Flow
    <3>3. PICK S, m, flow : S = r.received /\ m = r.pending /\ flow = Flow(r)
      OBVIOUS
    <3>4. /\ S \in SUBSET Blocks /\ m \in Nat /\ flow.granted = m
          /\ Covered(S, m, now, F)
      BY <1>5, <1>6, <3>2, <3>3
    <3>5. Covered(S, 0, now, F \cup {flow})
      BY <1>3, <3>4, CoveredGrant
    <3>6. QED
      BY <3>1, <3>3, <3>5
  <2>2. CASE ~grant
    BY <1>6, <1>7, <1>8, <2>2
  <2>3. QED
    BY <2>1, <2>2
<1>11. /\ FinalizedFrom(g, rcv') /\ snd' = snd /\ Exchange(taken, sent)
       /\ \A q \in sent : q.type = "FLOW" => grant /\ q = Flow(r)
  BY <1>1, <1>7 DEF ReceiverMoves
<1>12. net' \subseteq (net \ taken) \cup sent
  BY <1>11, ExchangeOnlyAdds
<1>13. Flows' \subseteq H
  BY <1>2, <1>8, <1>11, <1>12 DEF Flows
<1>14. PICK S, m, T, G : S = g.received /\ m = g.pending /\ T = rcv'.received /\ G = Flows'
  OBVIOUS
<1>15. Covered(S, m, now, H) /\ m \in Nat
  BY <1>9, <1>10, <1>14
<1>16. T \in SUBSET Blocks /\ S \subseteq T /\ G \in SUBSET H
  BY <1>11, <1>13, <1>14 DEF FinalizedFrom, ReceiverRecord
<1>17. m <= m /\ now <= now
  BY <1>3, <1>15
<1>18. Covered(T, m, now, G)
  BY <1>3, <1>15, <1>16, <1>17, CoveredStill
<1>19. rcv'.pending = m
  BY <1>11, <1>14 DEF FinalizedFrom
<1>20. Ahead' = now
  BY <1>2, <1>11 DEF Ahead
<1>21. QED
  BY <1>14, <1>18, <1>19, <1>20 DEF CreditIsCovered

\* Every step keeps the credit covered.
LEMMA CreditKept ==
  ASSUME Types, NothingBeforeTheOffer, CreditIsCovered, [Next]_vars
  PROVE  CreditIsCovered'
<1>1. Types'
  BY TypesKept
<1>2. CASE SenderStep
  BY <1>1, <1>2, SenderKeepsCredit
<1>3. CASE ReceiverStep
  BY <1>1, <1>3, ReceiverKeepsCredit
<1>4. CASE \E side \in up : Disconnect(side)
  <2>1. PICK side \in up : Disconnect(side)
    BY <1>4
  <2>2. /\ rcv'.received = rcv.received /\ rcv'.pending = rcv.pending
        /\ snd'.next = snd.next /\ snd'.credits = snd.credits
        /\ Exchange({}, {})
    BY <2>1, DisconnectDrops
  <2>3. PICK R, pending, now, F :
          R = rcv.received /\ pending = rcv.pending /\ now = Ahead /\ F = Flows
    OBVIOUS
  <2>4. /\ R \in SUBSET Blocks /\ pending \in Nat /\ now \in Nat
        /\ Covered(R, pending, now, F)
    BY <2>3, LedgerTypes DEF CreditIsCovered
  <2>5. PICK G : G = Flows'
    OBVIOUS
  <2>6. G \in SUBSET F
    BY <2>2, <2>3, <2>5, ExchangeOnlyAdds DEF Flows
  <2>7. pending <= pending /\ now <= now /\ R \subseteq R
    BY <2>4
  <2>8. Covered(R, pending, now, G)
    BY <2>4, <2>6, <2>7, CoveredStill
  <2>9. QED
    BY <2>2, <2>3, <2>5, <2>8 DEF CreditIsCovered, Ahead
<1>5. CASE UNCHANGED vars
  BY <1>5 DEF vars, CreditIsCovered, Ahead, Flows
<1>6. QED
  BY <1>2, <1>3, <1>4, <1>5, StepsOfTheTransfer

\* The ledger of the initial states is empty.
LEMMA InitCredit ==
  ASSUME Init
  PROVE  CreditIsCovered
<1>1. rcv.received = {} /\ rcv.pending = 0 /\ snd.next = 0 /\ snd.credits = 0 /\ net = {}
  BY DEF Init
<1>2. Ahead = 0 /\ Flows = {}
  BY <1>1 DEF Ahead, Flows
<1>3. PICK of : of = [f \in {} |-> {}]
  OBVIOUS
<1>4. Cardinality({}) = 0
  BY FS_EmptySet
<1>5. Ledger({}, 0, 0, {}, {}, {}, of)
  BY <1>3, <1>4, TransferAssumption DEF Ledger
<1>6. Covered({}, 0, 0, {})
  BY <1>5 DEF Covered
<1>7. QED
  BY <1>1, <1>2, <1>6 DEF CreditIsCovered

(***************************************************************************)
(* Nothing is refused without a reason.                                    *)
(***************************************************************************)

\* With as many chunks as were announced, from a source that has as many, and
\* all of them good, the hash is right.
LEMMA CompleteFilesMatch ==
  ASSUME NEW r, NEW n \in Nat, n <= Chunks, r.received \subseteq Known(n),
         Cardinality(r.received) = Chunks, r.digest = Chunks,
         \A s \in r.received : r.data[s] = {s}
  PROVE  HashMatches(r)
<1>1. Chunks \in Nat
  BY TransferAssumption
<1>2. Known(n) \subseteq 0..(Chunks - 1)
  BY <1>1 DEF Known, Seqs
<1>3. PICK all, R : all = 0..(Chunks - 1) /\ R = r.received
  OBVIOUS
<1>4. IsFiniteSet(all) /\ Cardinality(all) = Chunks
  BY <1>1, <1>3, FS_Interval
<1>5. R \in SUBSET all /\ Cardinality(R) = Cardinality(all)
  BY <1>2, <1>3, <1>4
<1>6. R = all
  BY <1>4, <1>5, FS_Subset
<1>7. QED
  BY <1>3, <1>6 DEF HashMatches

\* Every step keeps that.
LEMMA RefusalsKept ==
  ASSUME Types, NothingBeforeTheOffer, Origins, RefusedOnlyWhenDamaged, [Next]_vars
  PROVE  RefusedOnlyWhenDamaged'
<1>1. CASE SenderStep
  <2>1. rcv' = rcv /\ snd'.source = snd.source
    BY <1>1 DEF SenderStep, SenderMoves
  <2>2. QED
    BY <2>1 DEF RefusedOnlyWhenDamaged
<1>2. CASE ReceiverStep
  <2>1. PICK taken, sent, r, grant :
          grant \in BOOLEAN /\ Arrival(r) /\ ReceiverMoves(taken, sent, r, grant)
    BY <1>2 DEF ReceiverStep
  <2>2. /\ snd' = snd
        /\ rcv'.received \subseteq Known(snd.next)
        /\ rcv'.phase = "invalid" =>
              \/ rcv'.broken
              \/ /\ ~HashMatches(rcv') /\ rcv'.digest = snd.source
                 /\ Cardinality(rcv'.received) = Chunks
    BY <2>1, ReceiverMovesOn
  <2>3. SUFFICES ASSUME rcv'.phase = "invalid", ~rcv'.broken, snd.source = Chunks,
                        \A s \in rcv'.received : rcv'.data[s] = {s}
                 PROVE  FALSE
    BY <2>2 DEF RefusedOnlyWhenDamaged
  <2>4. /\ ~HashMatches(rcv') /\ rcv'.digest = Chunks
        /\ Cardinality(rcv'.received) = Chunks
    BY <2>2, <2>3
  <2>5. snd.next \in Nat /\ snd.next <= Chunks
    BY <2>3 DEF Types, SenderRecord
  <2>6. PICK q : q = rcv'
    OBVIOUS
  <2>7. /\ q.received \subseteq Known(snd.next) /\ q.digest = Chunks
        /\ Cardinality(q.received) = Chunks
        /\ \A s \in q.received : q.data[s] = {s}
    BY <2>2, <2>3, <2>4, <2>6
  <2>8. HashMatches(q)
    BY <2>5, <2>7, CompleteFilesMatch
  <2>9. QED
    BY <2>4, <2>6, <2>8
<1>3. CASE \E side \in up : Disconnect(side)
  <2>1. PICK side \in up : Disconnect(side)
    BY <1>3
  <2>2. /\ snd'.source = snd.source /\ rcv'.received = rcv.received
        /\ rcv'.data = rcv.data /\ rcv'.broken = rcv.broken
        /\ rcv'.phase = rcv.phase \/ (rcv.phase = "open" /\ rcv'.phase = "gone")
    BY <2>1, DisconnectDrops
  <2>3. QED
    BY <2>2 DEF RefusedOnlyWhenDamaged
<1>4. CASE UNCHANGED vars
  BY <1>4 DEF vars, RefusedOnlyWhenDamaged
<1>5. QED
  BY <1>1, <1>2, <1>3, <1>4, StepsOfTheTransfer

(***************************************************************************)
(* The invariant of a transfer and what it says.                           *)
(***************************************************************************)

TransferInvariant ==
  /\ Types
  /\ NothingBeforeTheOffer
  /\ Origins
  /\ CreditIsCovered
  /\ RefusedOnlyWhenDamaged

\* The initial states satisfy it.
LEMMA InitTransfer ==
  ASSUME Init
  PROVE  TransferInvariant
<1>1. rcv.received = {} /\ rcv.digest = NoDigest /\ rcv.phase = "unknown" /\ net = {}
      /\ ~snd.confirmed
  BY DEF Init
<1>2. Origins
  BY <1>1 DEF Origins, ReceivedWasSent, DigestIsTheSources, NetIsHonest, SavedIsRead
<1>3. RefusedOnlyWhenDamaged
  BY <1>1 DEF RefusedOnlyWhenDamaged
<1>4. QED
  BY <1>2, <1>3, InitTypes, InitCredit DEF TransferInvariant

\* In every state of a transfer: the types, the origin of what arrives, the
\* covered credit, and that nothing is refused without a reason.
THEOREM TransferInvariantHolds == Spec => []TransferInvariant
<1>1. Init => TransferInvariant
  BY InitTransfer
<1>2. TransferInvariant /\ [Next]_vars => TransferInvariant'
  <2>1. SUFFICES ASSUME TransferInvariant, [Next]_vars PROVE TransferInvariant'
    OBVIOUS
  <2>2. /\ Types /\ NothingBeforeTheOffer /\ Origins /\ CreditIsCovered
        /\ RefusedOnlyWhenDamaged
    BY <2>1 DEF TransferInvariant
  <2>3. Types' /\ NothingBeforeTheOffer'
    BY <2>1, <2>2, TypesKept
  <2>4. Origins'
    BY <2>1, <2>2, OriginsKept
  <2>5. CreditIsCovered'
    BY <2>1, <2>2, CreditKept
  <2>6. RefusedOnlyWhenDamaged'
    BY <2>1, <2>2, RefusalsKept
  <2>7. QED
    BY <2>3, <2>4, <2>5, <2>6 DEF TransferInvariant
<1>3. QED
  BY <1>1, <1>2, PTL DEF Spec

\* The sender is never more than its first credit ahead of what has arrived,
\* however FLOWs are lost or late (resolveCredits and the receiver's grants).
THEOREM SenderKeepsItsCredit == Spec => []ReceiverIsNotOverrun
<1>1. TransferInvariant => ReceiverIsNotOverrun
  <2>1. SUFFICES ASSUME TransferInvariant PROVE ReceiverIsNotOverrun
    OBVIOUS
  <2>2. Types /\ Covered(rcv.received, rcv.pending, Ahead, Flows)
    BY <2>1 DEF TransferInvariant, CreditIsCovered
  <2>3. PICK R, pending, now : R = rcv.received /\ pending = rcv.pending /\ now = Ahead
    OBVIOUS
  <2>4. /\ R \in SUBSET Blocks /\ pending \in Nat /\ now \in Nat
        /\ snd.next \in Nat /\ snd.credits \in Nat
        /\ Covered(R, pending, now, Flows)
    BY <2>2, <2>3, LedgerTypes
  <2>5. now <= Startup + Cardinality(R)
    BY <2>4, CoveredIsBounded
  <2>6. Cardinality(R) \in Nat
    BY <2>4, BlocksAreFinite
  <2>7. QED
    BY <2>3, <2>4, <2>5, <2>6, TransferAssumption DEF Ahead, ReceiverIsNotOverrun
<1>2. QED
  BY <1>1, TransferInvariantHolds, PTL

\* Every variable has its type in every reachable state: no credit exceeds the
\* first one by more than the file, and nothing pending did not arrive.
THEOREM TransferTypes == Spec => []TypeOK
<1>1. TransferInvariant => TypeOK
  <2>1. SUFFICES ASSUME TransferInvariant PROVE TypeOK
    OBVIOUS
  <2>2. Types /\ Origins /\ Covered(rcv.received, rcv.pending, Ahead, Flows)
    BY <2>1 DEF TransferInvariant, CreditIsCovered
  <2>3. PICK R, pending, now, next :
          R = rcv.received /\ pending = rcv.pending /\ now = Ahead /\ next = snd.next
    OBVIOUS
  <2>4. /\ R \in SUBSET Blocks /\ pending \in Nat /\ now \in Nat
        /\ next \in Nat /\ snd.credits \in Nat /\ now = next + snd.credits
        /\ Covered(R, pending, now, Flows)
    BY <2>2, <2>3, LedgerTypes DEF Ahead
  <2>5. pending <= Cardinality(R) /\ now <= Startup + Cardinality(R)
    BY <2>4, CoveredIsBounded
  <2>6. IsFiniteSet(R) /\ Cardinality(R) \in Nat
    BY <2>4, BlocksAreFinite
  <2>7. Chunks \in Nat /\ Startup \in Nat
    BY TransferAssumption
  <2>8. Cardinality(R) <= next + Chunks
    <3>1. R \subseteq Known(next)
      BY <2>2, <2>3 DEF Origins, ReceivedWasSent
    <3>2. PICK top \in Nat : top = (IF next <= Chunks THEN Chunks ELSE next)
      BY <2>4, <2>7
    <3>3. R \in SUBSET (0..(top - 1))
      BY <2>4, <2>7, <3>1, <3>2 DEF Known, Seqs
    <3>4. IsFiniteSet(0..(top - 1)) /\ Cardinality(0..(top - 1)) = top
      BY FS_Interval
    <3>5. Cardinality(R) <= top
      BY <3>3, <3>4, FS_Subset
    <3>6. QED
      BY <2>4, <2>6, <2>7, <3>2, <3>5
  <2>9. snd.credits \in 0..(Startup + Chunks)
    BY <2>4, <2>5, <2>6, <2>7, <2>8
  <2>10. rcv.pending \in 0..Cardinality(rcv.received)
    BY <2>3, <2>4, <2>5, <2>6
  <2>11. snd.next \in 0..snd.source
    BY <2>2 DEF Types, SenderRecord, Sources
  <2>12. QED
    BY <2>2, <2>9, <2>10, <2>11 DEF Types, SenderRecord, ReceiverRecord, TypeOK
<1>2. QED
  BY <1>1, TransferInvariantHolds, PTL

\* A received file is refused only when the source changed, the disk failed or
\* a chunk has the wrong bytes (maybeFinalizeIncoming).
THEOREM GoodFilesAreNotRefused == Spec => []RefusedOnlyWhenDamaged
<1>1. TransferInvariant => RefusedOnlyWhenDamaged
  BY DEF TransferInvariant
<1>2. QED
  BY <1>1, TransferInvariantHolds, PTL

(***************************************************************************)
(* The transfer implements the abstract delivery.                          *)
(***************************************************************************)

\* What the service has stored and acknowledged, and what it has confirmed.
Receipts == IF rcv.phase = "saved" THEN {snd.source} ELSE {}
Stored == IF rcv.phase = "saved" THEN {<<snd.source, snd.source>>} ELSE {}
Confirmed == IF snd.confirmed THEN {snd.source} ELSE {}

\* In a state of a transfer what is stored is what was read.
LEMMA StoredIsRead ==
  ASSUME Origins
  PROVE  (IF rcv.phase = "saved"
          THEN {<<snd.source, IF HashMatches(rcv) THEN rcv.digest ELSE NoDigest>>} ELSE {})
         = Stored
BY DEF Origins, SavedIsRead, Stored

\* A step stores the file with its receipt, confirms one that has its receipt,
\* or changes nothing.
LEMMA TransferDelivers ==
  ASSUME TransferInvariant, [Next]_vars
  PROVE  /\ snd.source \in 0..(Chunks + 1)
         /\ \/ UNCHANGED <<Stored, Receipts, Confirmed>>
            \/ /\ Stored' = Stored \cup {<<snd.source, snd.source>>}
               /\ Receipts' \in {Receipts, Receipts \cup {snd.source}}
               /\ UNCHANGED Confirmed
            \/ /\ snd.source \in Receipts
               /\ Confirmed' = Confirmed \cup {snd.source}
               /\ UNCHANGED <<Stored, Receipts>>
<1>1. Types /\ NothingBeforeTheOffer /\ Origins
  BY DEF TransferInvariant
<1>2. snd.source \in 0..(Chunks + 1)
  BY <1>1 DEF Types, SenderRecord, Sources
<1>3. CASE SenderStep
  <2>1. /\ rcv' = rcv /\ snd'.source = snd.source
        /\ snd'.confirmed => snd.confirmed \/ \E p \in net : p.type = "COMPLETE"
        /\ snd.confirmed => snd'.confirmed
    BY <1>3 DEF SenderStep, SenderMoves
  <2>2. UNCHANGED <<Stored, Receipts>>
    BY <2>1 DEF Stored, Receipts
  <2>3. CASE snd'.confirmed <=> snd.confirmed
    BY <1>2, <2>1, <2>2, <2>3 DEF Confirmed
  <2>4. CASE snd'.confirmed /\ ~snd.confirmed
    <3>1. rcv.phase = "saved"
      BY <1>1, <2>1, <2>4 DEF Origins, NetIsHonest
    <3>2. snd.source \in Receipts
      BY <3>1 DEF Receipts
    <3>3. Confirmed' = Confirmed \cup {snd.source}
      BY <2>1, <2>4 DEF Confirmed
    <3>4. QED
      BY <1>2, <2>2, <3>2, <3>3
  <2>5. QED
    BY <2>1, <2>3, <2>4
<1>4. CASE ReceiverStep
  <2>1. snd' = snd /\ rcv.phase \in {"unknown", "open"}
    BY <1>4 DEF ReceiverStep, ReceiverMoves, Arrival
  <2>2. UNCHANGED Confirmed
    BY <2>1 DEF Confirmed
  <2>3. \/ UNCHANGED <<Stored, Receipts>>
        \/ /\ Stored' = Stored \cup {<<snd.source, snd.source>>}
           /\ Receipts' = Receipts \cup {snd.source}
    BY <2>1 DEF Stored, Receipts
  <2>4. QED
    BY <1>2, <2>2, <2>3
<1>5. CASE \E side \in up : Disconnect(side)
  <2>1. PICK side \in up : Disconnect(side)
    BY <1>5
  <2>2. /\ snd'.source = snd.source /\ snd'.confirmed = snd.confirmed
        /\ rcv'.phase = rcv.phase \/ (rcv.phase = "open" /\ rcv'.phase = "gone")
    BY <1>1, <2>1, DisconnectDrops
  <2>3. UNCHANGED <<Stored, Receipts, Confirmed>>
    BY <2>2 DEF Stored, Receipts, Confirmed
  <2>4. QED
    BY <1>2, <2>3
<1>6. CASE UNCHANGED vars
  BY <1>2, <1>6 DEF vars, Stored, Receipts, Confirmed
<1>7. QED
  BY <1>1, <1>3, <1>4, <1>5, <1>6, StepsOfTheTransfer

\* One file over the V2 transport, for all its credit, repairs, parity, lost
\* datagrams and disconnects, is delivered as VerifiedDelivery allows.
THEOREM TransferImplementsDelivery == Spec => DeliverySpec
<1>1. Init => Delivery!Init
  BY DEF Init, Delivery!Init
<1>2. TransferInvariant /\ TransferInvariant' /\ [Next]_vars
        => [Delivery!Next]_(Delivery!vars)
  <2>1. SUFFICES ASSUME TransferInvariant, TransferInvariant', [Next]_vars
                 PROVE  [Delivery!Next]_(Delivery!vars)
    OBVIOUS
  <2> DEFINE stored == IF rcv.phase = "saved"
               THEN {<<snd.source, IF HashMatches(rcv) THEN rcv.digest ELSE NoDigest>>}
               ELSE {}
  <2> DEFINE confirmed == IF snd.confirmed THEN {snd.source} ELSE {}
  <2> DEFINE receipts == IF rcv.phase = "saved" THEN {snd.source} ELSE {}
  <2>2. stored = Stored /\ receipts = Receipts /\ confirmed = Confirmed
    BY <2>1, StoredIsRead DEF TransferInvariant, Receipts, Confirmed
  <2>3. stored' = Stored' /\ receipts' = Receipts' /\ confirmed' = Confirmed'
    BY <2>1 DEF TransferInvariant, Origins, SavedIsRead, Stored, Receipts, Confirmed
  <2>4. PICK c : c = snd.source
    OBVIOUS
  <2>5. /\ c \in 0..(Chunks + 1)
        /\ \/ UNCHANGED <<Stored, Receipts, Confirmed>>
           \/ /\ Stored' = Stored \cup {<<c, c>>}
              /\ Receipts' \in {Receipts, Receipts \cup {c}}
              /\ UNCHANGED Confirmed
           \/ /\ c \in Receipts
              /\ Confirmed' = Confirmed \cup {c}
              /\ UNCHANGED <<Stored, Receipts>>
    BY <2>1, <2>4, TransferDelivers
  <2>6. CASE UNCHANGED <<Stored, Receipts, Confirmed>>
    <3>1. stored' = stored /\ receipts' = receipts /\ confirmed' = confirmed
      BY <2>2, <2>3, <2>6
    <3>2. QED
      BY <3>1 DEF Delivery!vars
  <2>7. CASE /\ Stored' = Stored \cup {<<c, c>>}
             /\ Receipts' \in {Receipts, Receipts \cup {c}}
             /\ UNCHANGED Confirmed
    <3>1. /\ stored' = stored \cup {<<c, c>>}
          /\ receipts' \in {receipts, receipts \cup {c}}
          /\ confirmed' = confirmed
      BY <2>2, <2>3, <2>7
    <3>2. Delivery!Store(c)
      BY <3>1 DEF Delivery!Store
    <3>3. QED
      BY <2>5, <3>2 DEF Delivery!Next
  <2>8. CASE /\ c \in Receipts
             /\ Confirmed' = Confirmed \cup {c}
             /\ UNCHANGED <<Stored, Receipts>>
    <3>1. /\ c \in receipts /\ confirmed' = confirmed \cup {c}
          /\ stored' = stored /\ receipts' = receipts
      BY <2>2, <2>3, <2>8
    <3>2. Delivery!Confirm(c)
      BY <3>1 DEF Delivery!Confirm
    <3>3. QED
      BY <2>5, <3>2 DEF Delivery!Next
  <2>9. QED
    BY <2>5, <2>6, <2>7, <2>8
<1>3. QED
  BY <1>1, <1>2, TransferInvariantHolds, PTL DEF Spec, DeliverySpec, Delivery!Spec
=============================================================================
