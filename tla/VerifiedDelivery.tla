-------------------------- MODULE VerifiedDelivery --------------------------
(***************************************************************************)
(* What a file transfer promises its two users, with no stream, lock,      *)
(* partial file or packet in sight.  The receiver has a set of stored      *)
(* files, each under the name of its digest, and issues receipts for them; *)
(* the sender has a set of contents it was told were delivered.  A receipt *)
(* takes its time: the sender may read it when the power has failed since, *)
(* so what is confirmed was stored, and still is only where Durable.       *)
(***************************************************************************)
EXTENDS Integers

CONSTANTS
  Contents,   \* the possible contents of a file; one is its own digest
  Durable     \* TRUE when nothing that is stored is ever lost again

VARIABLES
  stored,     \* pairs of a digest and the content stored under it
  receipts,   \* contents with a receipt that the sender can still read
  confirmed   \* contents the sender reported as delivered

Init ==
  /\ stored = {}
  /\ receipts = {}
  /\ confirmed = {}

\* A file appears under its digest complete and right, or not at all; its
\* receipt may be issued with it.
Store(c) ==
  /\ stored' = stored \cup {<<c, c>>}
  /\ receipts' \in {receipts, receipts \cup {c}}
  /\ UNCHANGED confirmed

\* A receipt is issued, the first or another one, while the file is there.
Acknowledge(c) ==
  /\ <<c, c>> \in stored
  /\ receipts' \in SUBSET (receipts \cup {c})
  /\ UNCHANGED <<stored, confirmed>>

\* The sender is told of a content only by a receipt for it.
Confirm(c) ==
  /\ c \in receipts
  /\ confirmed' = confirmed \cup {c}
  /\ UNCHANGED <<stored, receipts>>

\* Receipts get lost, and nobody reads those of a call that has ended.
LoseReceipts ==
  /\ receipts' \in SUBSET receipts
  /\ UNCHANGED <<stored, confirmed>>

\* A power loss can undo a Store, but not unsay a receipt.
Forget ==
  /\ ~Durable
  /\ stored' \in SUBSET stored
  /\ UNCHANGED <<receipts, confirmed>>

Next ==
  \/ LoseReceipts
  \/ \E c \in Contents : Store(c) \/ Acknowledge(c) \/ Confirm(c)
  \/ Forget

vars == <<stored, receipts, confirmed>>

Spec == Init /\ [][Next]_vars
=============================================================================
