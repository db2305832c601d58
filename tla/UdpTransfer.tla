----------------------------- MODULE UdpTransfer -----------------------------
(***************************************************************************)
(* One file over the V2 UDP transport: the sender's pump with its credit,  *)
(* cache, spool and parity groups, the receiver with its flow grants,      *)
(* repair requests and finalisation, and the datagrams between them.       *)
(*                                                                         *)
(* The unit is the chunk.  A content is the set of the chunks whose XOR it *)
(* is: a good chunk s reads {s}, a hole reads {}.  The digest of the whole *)
(* file is the number of chunks that were read, since all of them are      *)
(* known.  Datagrams may be lost (they stay in net) and overtake each      *)
(* other; the replay window refuses duplicates (see PacketChannel).        *)
(***************************************************************************)
EXTENDS Integers, FiniteSets, FiniteSetsExt

CONSTANTS
  Chunks,      \* chunks the offer announces
  Startup,     \* credit before the first FLOW
  AckStep,     \* pending chunks that force a FLOW
  CreditCaps,  \* values of the credit cap (the dynamic window)
  CacheSize,   \* chunks the resend cache holds
  GroupSize,   \* PARITY_GROUP_SIZE; even
  Candidates,  \* chunk sizes that are probed
  DiskMayFail  \* TRUE when the receiver's disk may refuse a write

ASSUME TransferAssumption ==
  /\ Chunks \in Nat \ {0} /\ Startup \in Nat \ {0} /\ AckStep \in Nat \ {0}
  /\ CreditCaps \subseteq Nat \ {0} /\ CreditCaps # {}
  /\ CacheSize \in Nat \ {0} /\ Candidates \in Nat \ {0}
  /\ GroupSize \in Nat /\ GroupSize >= 2 /\ GroupSize % 2 = 0
  /\ DiskMayFail \in BOOLEAN

VARIABLES
  up,    \* the sides whose session is on
  snd,   \* the sender's transfer state
  rcv,   \* the receiver's transfer state
  net    \* datagrams in flight

vars == <<up, snd, rcv, net>>

Seqs == 0..(Chunks - 1)   \* what the offer announces
Blocks == 0..Chunks       \* what a file that grew may hold
NoDigest == -1

\* What the sender's disk yields: the file may shrink or grow after its stat;
\* a File object of the window is a snapshot.
Yields(via) == IF via = "disk" THEN (Chunks - 1)..(Chunks + 1) ELSE {Chunks}

Init ==
  /\ up = {"sender", "receiver"}
  /\ snd \in {[pump |-> "idle", via |-> v, source |-> n, probes |-> 0,
               registered |-> FALSE, next |-> 0, credits |-> 0,
               parityOn |-> FALSE, group |-> {}, index |-> 0, spooled |-> {},
               shown |-> "none", confirmed |-> FALSE]
              : v \in {"disk", "window"}, n \in Blocks \cup {Chunks + 1}}
  /\ snd.source \in Yields(snd.via)
  /\ rcv = [phase |-> "unknown", received |-> {}, data |-> [s \in Blocks |-> {}],
            digest |-> NoDigest, pending |-> 0, flowed |-> FALSE,
            repair |-> {}, repaired |-> FALSE, parity |-> {},
            threw |-> FALSE, broken |-> FALSE]
  /\ net = {}

----------------------------------------------------------------------------
\* Datagrams.

ToSender(p) == p.type \in {"FLOW", "REPAIR", "COMPLETE"}

\* A datagram that its addressee would drop is not kept in flight.
Matters(p) ==
  IF ToSender(p)
  THEN /\ "sender" \in up
       /\ snd.registered
       /\ p.type = "FLOW" => snd.pump \in {"sending", "waiting"}
  ELSE /\ "receiver" \in up
       /\ rcv.phase \in {"unknown", "open"}
       /\ p.type = "CHUNK" => p.seq \notin rcv.received

Exchange(taken, sent) == net' = {p \in (net \ taken) \cup sent : Matters(p)'}

\* sealPacket and send; after a disconnect the peer cannot open what is sent.
Sent(packets) == IF "sender" \in up THEN packets ELSE {}

Chunk(s, content) == [type |-> "CHUNK", seq |-> s, data |-> content]

----------------------------------------------------------------------------
\* The sender.

\* beginFile: the transfer is registered and offered.  After a disconnect
\* during the negotiation sendOffer throws, and the entry stays behind.
Offer(s) ==
  LET registered == [s EXCEPT !.registered = TRUE, !.credits = Startup]
  IN /\ snd' = [registered EXCEPT !.pump =
                  IF "sender" \in up THEN "sending" ELSE "leaked"]
     /\ UNCHANGED <<up, rcv>>
     /\ Exchange({}, Sent({[type |-> "OFFER"]}))

\* sendFilePath or file-begin; the size may be known from an earlier transfer.
BeginFile ==
  /\ snd.pump = "idle"
  /\ "sender" \in up
  /\ \/ Offer(snd)
     \/ /\ snd' = [snd EXCEPT !.pump = "probing", !.probes = Candidates]
        /\ UNCHANGED <<up, rcv, net>>

\* probeChunkSize is answered: that candidate is the size.
ProbeAnswered ==
  /\ snd.pump = "probing"
  /\ up = {"sender", "receiver"}
  /\ Offer(snd)

\* probeChunkSize is not answered in time, or a disconnect resolved it: the
\* next candidate, and after the last one the fallback.
ProbeTimesOut ==
  /\ snd.pump = "probing"
  /\ IF snd.probes > 1
     THEN /\ snd' = [snd EXCEPT !.probes = @ - 1]
          /\ UNCHANGED <<up, rcv, net>>
     ELSE Offer([snd EXCEPT !.probes = 0])

\* Chunks read from the source so far: a waiting pump holds one unsent.
Read(s) == s.next + (IF s.pump = "waiting" THEN 1 ELSE 0)

\* cacheChunkForResend: the last ones that were read.
Cached(s) == (Read(s) - CacheSize)..(Read(s) - 1)

\* resendChunk: from the cache, or else from the spool, where a chunk whose
\* write has not ended reads as zeros or, at the end of the spool, not at all.
Resend(s, atEnd) ==
  IF s \in Cached(snd) \/ s \in Seqs \cap snd.spooled THEN {Chunk(s, {s})}
  ELSE IF s \in Seqs /\ ~atEnd THEN {Chunk(s, {})}
  ELSE {}

\* Mutant of GroupIsFull: the parity of a group comes one chunk late.
GroupIsOverfull(group) == Cardinality(group) > GroupSize

GroupIsFull(group) == Cardinality(group) >= GroupSize

\* sendChunkPacket after waitForCredits, for the next chunk of the source.
\* The group of a chunk is counted from where parity was switched on.
SendChunkPacket ==
  /\ snd.pump \in {"sending", "waiting"}
  /\ snd.next < snd.source
  /\ snd.credits > 0
  /\ UNCHANGED <<up, rcv>>
  /\ LET group == IF snd.parityOn THEN snd.group \cup {snd.next} ELSE {}
         full == GroupIsFull(group)
     IN /\ snd' = [snd EXCEPT !.pump = "sending", !.next = @ + 1,
                     !.credits = @ - 1,
                     !.group = IF full THEN {} ELSE group,
                     !.index = IF full THEN @ + 1 ELSE @]
        /\ Exchange({}, Sent({Chunk(snd.next, {snd.next})} \cup
             (IF full THEN {[type |-> "PARITY", index |-> snd.index, data |-> group]}
              ELSE {})))

\* waitForCredits without credit, and maybeProbeCreditStall: depending on the
\* time since the last ones it asks for an acknowledgement and sends the last
\* chunk again.
WaitForCredits ==
  /\ snd.pump = "sending"
  /\ snd.next < snd.source
  /\ snd.credits = 0
  /\ snd' = [snd EXCEPT !.pump = "waiting"]
  /\ UNCHANGED <<up, rcv>>
  /\ \E ask, tail, atEnd \in BOOLEAN :
       LET packets ==
             (IF ask THEN {[type |-> "IMMEDIATE_ACK"]} ELSE {}) \cup
             (IF tail /\ snd.next > 0 THEN Resend(snd.next - 1, atEnd) ELSE {})
       IN Exchange({}, IF snd.registered THEN Sent(packets) ELSE {})

\* Mutant of Fail: the pump's error is reported and nothing is cleaned up.
FailUncleaned(s) == [s EXCEPT !.shown = "error", !.pump = "failed"]

\* The transfer ends in an error: sendFilePath's pump cleans up, the window's
\* sendFile only reports it.
Fail(s) ==
  LET registered == s.registered /\ s.via = "window"
  IN [s EXCEPT !.registered = registered, !.shown = "error",
        !.pump = IF registered THEN "leaked" ELSE "failed"]

CreditTimesOut ==
  /\ snd.pump = "waiting"
  /\ snd.credits = 0
  /\ snd' = Fail(snd)
  /\ UNCHANGED <<up, rcv>>
  /\ Exchange({}, {})

\* finishFile: the last parity group, DONE with the digest, and the transfer
\* is shown as done and valid.  After a disconnect the transfer is unknown,
\* which the window's next batch finds out earlier.
FinishFile ==
  /\ snd.pump = "sending"
  /\ snd.next = snd.source \/ (snd.via = "window" /\ ~snd.registered)
  /\ UNCHANGED <<up, rcv>>
  /\ IF snd.registered
     THEN /\ snd' = [snd EXCEPT !.pump = "ended", !.shown = "valid", !.group = {}]
          /\ Exchange({}, Sent({[type |-> "DONE", digest |-> snd.next]} \cup
               (IF snd.group # {}
                THEN {[type |-> "PARITY", index |-> snd.index, data |-> snd.group]}
                ELSE {})))
     ELSE /\ snd' = Fail(snd)
          /\ Exchange({}, {})

\* The finalize timer: cleanupOutgoing two minutes after DONE.
FinalizeTimesOut ==
  /\ snd.pump = "ended"
  /\ snd.registered
  /\ snd' = [snd EXCEPT !.registered = FALSE]
  /\ UNCHANGED <<up, rcv>>
  /\ Exchange({}, {})

\* The asynchronous write of a chunk into the spool ends; for a chunk in the
\* cache it makes no difference when.
SpoolWritten ==
  /\ snd.registered
  /\ \E s \in 0..(Read(snd) - 1 - CacheSize) \ snd.spooled :
       snd' = [snd EXCEPT !.spooled = @ \cup {s}]
  /\ UNCHANGED <<up, rcv, net>>

\* FLOW: resolveCredits.
OnFlow(p) ==
  /\ p.type = "FLOW"
  /\ \E cap \in CreditCaps :
       snd' = [snd EXCEPT !.credits = Min({cap, @ + p.granted})]
  /\ UNCHANGED <<up, rcv>>
  /\ Exchange({p}, {})

\* REPAIR and REPAIR_RANGE: applyLossBackoff switches parity on, and each
\* chunk is sent again, without credit.
OnRepair(p) ==
  /\ p.type = "REPAIR"
  /\ snd' = [snd EXCEPT !.parityOn = TRUE]
  /\ UNCHANGED <<up, rcv>>
  /\ \E atEnd \in BOOLEAN : Exchange({p}, UNION {Resend(s, atEnd) : s \in p.seqs})

\* COMPLETE: cleanupOutgoing.
OnComplete(p) ==
  /\ p.type = "COMPLETE"
  /\ snd' = [snd EXCEPT !.registered = FALSE, !.confirmed = TRUE]
  /\ UNCHANGED <<up, rcv>>
  /\ Exchange({p}, {})

----------------------------------------------------------------------------
\* The receiver.

\* OFFER: a fresh temporary file and a transfer under the new id.
OnOffer(p) ==
  /\ p.type = "OFFER"
  /\ rcv' = [rcv EXCEPT !.phase = "open"]
  /\ UNCHANGED <<up, snd>>
  /\ Exchange({p}, {})

\* computeAdaptiveFecGroupSize for the two loss estimates the receiver has.
ReceiverGroup(r) == IF r.repaired THEN GroupSize ELSE GroupSize \div 2

\* The chunks that are alone missing from a group whose parity arrived, and
\* the parity of a chunk's group.
Group(r, s) == {t \in Seqs : t \div ReceiverGroup(r) = s \div ReceiverGroup(r)}
ParityOf(r, s) == {p \in r.parity : p.index = s \div ReceiverGroup(r)}
Lone(r) ==
  {s \in Seqs \ r.received : Group(r, s) \ r.received = {s} /\ ParityOf(r, s) # {}}

\* tryRecoverParity throws when it has another chunk of the group to read: the
\* temporary file is open for writing only.
RecoveryThrows(r) == \E s \in Lone(r) : Group(r, s) # {s}

\* tryRecoverParity for a group of one chunk: the parity is the chunk.
RecoverParity(r) ==
  [r EXCEPT !.received = @ \cup Lone(r),
     !.data = [s \in Blocks |-> IF s \in Lone(r)
                                THEN (CHOOSE p \in ParityOf(r, s) : TRUE).data ELSE @[s]]]

\* The digest of the temporary file is the one DONE brought.
HashMatches(r) ==
  /\ r.received = 0..(r.digest - 1)
  /\ \A s \in r.received : r.data[s] = {s}

\* Mutants of Finalized: the hash is not compared; the count may be one short.
FinalizedUnhashed(r) ==
  {IF r.digest = NoDigest \/ r.broken \/ Cardinality(r.received) # Chunks THEN r
   ELSE [r EXCEPT !.phase = "saved"]}
FinalizedShort(r) ==
  {IF r.digest = NoDigest \/ r.broken \/ Cardinality(r.received) < Chunks - 1 THEN r
   ELSE [r EXCEPT !.phase = IF HashMatches(r) THEN "saved" ELSE "invalid"]}

\* flushIncomingWrites may fail, and remembers that it did.
WriteFails(r) == IF DiskMayFail THEN {[r EXCEPT !.broken = TRUE]} ELSE {}

\* maybeFinalizeIncoming: nothing before DONE or after a failed write (which
\* nothing looks at earlier); then parity; with all chunks the hash and the
\* copy to the downloads, which may fail too.
Finalized(r) ==
  LET q == RecoverParity(r)
      complete == Cardinality(q.received) = Chunks
      verdict == IF HashMatches(q) THEN "saved" ELSE "invalid"
      refused == [q EXCEPT !.broken = TRUE, !.phase = "invalid"]
  IN IF r.digest = NoDigest \/ r.broken THEN {r}
     ELSE (IF RecoveryThrows(r) THEN {[r EXCEPT !.threw = TRUE]}
           ELSE IF complete THEN {[q EXCEPT !.phase = verdict]}
           ELSE {q})
          \cup WriteFails(r)
          \cup (IF DiskMayFail /\ complete THEN {refused} ELSE {})

\* shouldSendFlowAck and the conditions beside it that do not depend on time.
MustGrant(r) ==
  \/ r.pending >= AckStep
  \/ ~r.flowed
  \/ Cardinality(r.received) >= Chunks

\* Mutant of Granted: what was granted stays pending.
GrantedAgain(r) == [r EXCEPT !.flowed = TRUE]

Granted(r) == [r EXCEPT !.pending = 0, !.flowed = TRUE]

Flow(r) == [type |-> "FLOW", granted |-> r.pending, at |-> r.received]

\* A handler of the receiver: the state r, a grant or none, then finalisation,
\* which answers COMPLETE.
Receive(p, r, grant) ==
  /\ rcv' \in Finalized(IF grant THEN Granted(r) ELSE r)
  /\ UNCHANGED <<up, snd>>
  /\ Exchange({p},
       (IF grant THEN {Flow(r)} ELSE {}) \cup
       (IF rcv'.phase = "saved" THEN {[type |-> "COMPLETE"]} ELSE {}))

\* CHUNK: kept, maybe granted, and gaps may be asked for: those below the
\* highest chunk after the reordering window, all of them after DONE.
OnChunk(p) ==
  /\ p.type = "CHUNK"
  /\ rcv.phase = "open"
  /\ LET received == rcv.received \cup {p.seq}
         below == {s \in Seqs \ received : s < Max(received)}
         all == IF rcv.digest # NoDigest THEN Seqs \ received ELSE {}
     IN \E asked \in {{}, below, all} :
          LET r == [rcv EXCEPT !.received = received, !.data[p.seq] = p.data,
                      !.pending = @ + 1, !.repair = @ \cup asked]
          IN \E grant \in {MustGrant(r), TRUE} : Receive(p, r, grant)

\* DONE: the digest.  It asks for nothing: the reordering window has just begun.
OnDone(p) ==
  /\ p.type = "DONE"
  /\ rcv.phase = "open"
  /\ Receive(p, [rcv EXCEPT !.digest = p.digest], FALSE)

\* IMMEDIATE_ACK: what is pending is granted.
OnImmediateAck(p) ==
  /\ p.type = "IMMEDIATE_ACK"
  /\ rcv.phase = "open"
  /\ Receive(p, rcv, rcv.pending > 0)

\* PARITY: the group is kept for the finalisation, and a grant may be due.
OnParity(p) ==
  /\ p.type = "PARITY"
  /\ rcv.phase = "open"
  /\ UNCHANGED <<up, snd>>
  /\ LET r == [rcv EXCEPT !.parity = @ \cup {p}]
     IN \E grant \in {rcv.pending > 0 /\ MustGrant(r), rcv.pending > 0} :
          /\ rcv' = IF grant THEN Granted(r) ELSE r
          /\ Exchange({p}, IF grant THEN {Flow(r)} ELSE {})

\* The repair timer: one request for all chunks asked for since the last; the
\* count of repairs starts again after a while.
FlushRepair ==
  /\ "receiver" \in up
  /\ rcv.phase = "open"
  /\ rcv.repair # {}
  /\ \E repaired \in BOOLEAN :
       rcv' = [rcv EXCEPT !.repair = {}, !.repaired = repaired]
  /\ UNCHANGED <<up, snd>>
  /\ Exchange({}, {[type |-> "REPAIR", seqs |-> rcv.repair]})

\* disconnect: transfers, keys and timers of that side are dropped.  A pump
\* goes on with the state it holds.
Disconnect(side) ==
  /\ side \in up
  /\ up' = up \ {side}
  /\ IF side = "sender"
     THEN snd' = [snd EXCEPT !.registered = FALSE] /\ UNCHANGED rcv
     ELSE /\ rcv' = [rcv EXCEPT !.phase = IF @ = "open" THEN "gone" ELSE @]
          /\ UNCHANGED snd
  /\ Exchange({}, {})

----------------------------------------------------------------------------
\* The loop of pumpFilePath, or of sendFile in the window, and the timers.
SenderRuns ==
  \/ ProbeTimesOut
  \/ SendChunkPacket
  \/ WaitForCredits
  \/ CreditTimesOut
  \/ FinishFile
  \/ FinalizeTimesOut

Arrives(p) ==
  \/ OnFlow(p)
  \/ OnRepair(p)
  \/ OnComplete(p)
  \/ OnOffer(p)
  \/ OnChunk(p)
  \/ OnDone(p)
  \/ OnImmediateAck(p)
  \/ OnParity(p)

Next ==
  \/ BeginFile
  \/ ProbeAnswered
  \/ SenderRuns
  \/ SpoolWritten
  \/ FlushRepair
  \/ \E p \in net : Arrives(p)
  \/ \E side \in up : Disconnect(side)

Spec == Init /\ [][Next]_vars

\* The sender's pump and timers run; the network and the peer owe nothing.
FairSpec == Spec /\ WF_vars(SenderRuns)

----------------------------------------------------------------------------
TypeOK ==
  /\ up \subseteq {"sender", "receiver"}
  /\ snd.pump \in {"idle", "probing", "sending", "waiting", "ended", "failed", "leaked"}
  /\ snd.next \in 0..snd.source
  /\ snd.credits \in 0..(Startup + Chunks)
  /\ Cardinality(snd.group) < GroupSize
  /\ snd.spooled \subseteq Blocks
  /\ rcv.phase \in {"unknown", "open", "saved", "invalid", "gone"}
  /\ rcv.received \subseteq Blocks
  /\ rcv.pending \in 0..Cardinality(rcv.received)
  /\ rcv.repair \subseteq Seqs
  /\ \A p \in net : Matters(p)

\* The sender is never more than the first credit ahead of what has arrived,
\* whatever is lost, repaired, recovered or granted late: a chunk is granted
\* once, when it arrived (resolveCredits, the grants of CHUNK and PARITY).
ReceiverIsNotOverrun == snd.next <= Startup + Cardinality(rcv.received)

\* A received file is refused only for a reason: the file changed while it was
\* sent, the disk failed, or a chunk was repaired with the wrong bytes.
RefusedOnlyWhenDamaged ==
  rcv.phase = "invalid" =>
    \/ rcv.broken
    \/ snd.source # Chunks
    \/ \E s \in rcv.received : rcv.data[s] # {s}

\* The abstract service: what is saved is what was read, and COMPLETE reaches
\* the sender only for a file that is saved (maybeFinalizeIncoming).
Delivery == INSTANCE VerifiedDelivery WITH
  Contents <- 0..(Chunks + 1), Durable <- TRUE,
  stored <- IF rcv.phase = "saved"
            THEN {<<snd.source, IF HashMatches(rcv) THEN rcv.digest ELSE NoDigest>>} ELSE {},
  receipts <- IF rcv.phase = "saved" THEN {snd.source} ELSE {},
  confirmed <- IF snd.confirmed THEN {snd.source} ELSE {}

DeliverySpec == Delivery!Spec

\* Every send ends, shown as done or as an error, and its entry and spool are
\* released, but for the two ways the code leaks them (sendFilePath,
\* finishFile, cleanupOutgoing).
SenderSettles ==
  snd.pump # "idle" ~>
    /\ snd.pump \in {"ended", "failed", "leaked"}
    /\ snd.registered => snd.pump = "leaked"

\* "recovers 1 missing": a chunk alone missing from a group whose parity has
\* arrived is recovered by tryRecoverParity.  Violated: it throws.
ParityRecovers == ~rcv.threw
=============================================================================
