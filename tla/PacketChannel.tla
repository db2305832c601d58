---------------------------- MODULE PacketChannel ----------------------------
(***************************************************************************)
(* One direction of the V2 encrypted packet layer under one session key:   *)
(* the seal side numbers packets with a counter, the open side keeps the   *)
(* highest counter it accepted and a window of bits behind it.  The three  *)
(* implementations (Rust, JavaScript, Kotlin) keep the same state.         *)
(*                                                                         *)
(* UDP may lose, reorder and duplicate packets: every sealed packet is in  *)
(* flight for ever.  Anybody may send a packet with any counter, but only  *)
(* a sealed one passes AES-GCM.                                            *)
(***************************************************************************)
EXTENDS Integers

CONSTANTS
  Width,       \* bits of the window (64)
  MaxCounter   \* largest value of the counter (2^64 - 1)

ASSUME ChannelAssumption ==
  /\ Width \in Nat \ {0}
  /\ MaxCounter \in Nat

Counters == 1..MaxCounter

VARIABLES
  send_counter,      \* the last counter that was sealed
  highest_received,  \* the highest counter accepted
  replay_window,     \* offsets behind the highest that are marked as received
  opened             \* how often each packet's plaintext was handed up

vars == <<send_counter, highest_received, replay_window, opened>>

Offsets == 0..(Width - 1)

Init ==
  /\ send_counter = 0
  /\ highest_received = 0
  /\ replay_window = {}
  /\ opened = [c \in Counters |-> 0]

\* seal: checked_add, then encrypt under the new counter's nonce.
Seal ==
  /\ send_counter < MaxCounter
  /\ send_counter' = send_counter + 1
  /\ UNCHANGED <<highest_received, replay_window, opened>>

\* Mutant of ShiftLeft: a word of unbounded width (BigInt without asUintN).
ShiftedUnmasked(bits, n) == {b + (n % Width) : b \in bits}

\* A Width-bit word shifted left: the bits shifted out are lost, and the
\* machine takes the distance modulo the width.
ShiftLeft(bits, n) == {b \in Offsets : b - (n % Width) \in bits}

\* Mutants of Slid: the shift is not guarded against the width of the word;
\* the new highest counter is not marked.
SlidUnguarded(n) == ShiftLeft(replay_window, n) \cup {0}
SlidUnmarked(n) == IF n >= Width THEN {0} ELSE ShiftLeft(replay_window, n)

\* The window after the highest counter moves up by n.
Slid(n) == IF n >= Width THEN {0} ELSE ShiftLeft(replay_window, n) \cup {0}

\* The counters that accept_counter answers with false.
Refused(c) ==
  \/ c = 0
  \/ /\ c <= highest_received
     /\ \/ highest_received - c >= Width
        \/ highest_received - c \in replay_window

\* accept_counter, when it answers true.
AcceptCounter(c) ==
  /\ ~Refused(c)
  /\ IF c > highest_received
     THEN /\ highest_received' = c
          /\ replay_window' = Slid(c - highest_received)
     ELSE /\ replay_window' = replay_window \cup {highest_received - c}
          /\ UNCHANGED highest_received

\* Mutant of Open: the counter is accepted before the packet is decrypted.
OpenUnauthenticated(c) ==
  /\ AcceptCounter(c)
  /\ opened' = IF c <= send_counter THEN [opened EXCEPT ![c] = @ + 1] ELSE opened
  /\ UNCHANGED send_counter

\* open: a packet with counter c arrives.  Nothing changes before it decrypts.
Open(c) ==
  /\ c \in 1..send_counter
  /\ AcceptCounter(c)
  /\ opened' = [opened EXCEPT ![c] = @ + 1]
  /\ UNCHANGED send_counter

Next == Seal \/ \E c \in Counters : Open(c)

Spec == Init /\ [][Next]_vars

-----------------------------------------------------------------------------

TypeOK ==
  /\ send_counter \in 0..MaxCounter
  /\ highest_received \in 0..MaxCounter
  /\ replay_window \in SUBSET Offsets
  /\ opened \in [Counters -> Nat]

\* However UDP reorders and duplicates, and however far the counter jumps, no
\* packet is opened twice: the window forgets no counter it may still accept.
OpenedAtMostOnce == \A c \in Counters : opened[c] <= 1

\* A packet that is less than one window older than the newest sealed one and
\* was never opened is not refused: neither reordering inside the window nor a
\* packet that fails to decrypt can make the open side drop genuine traffic.
FreshIsNotRefused ==
  \A c \in 1..send_counter :
    c + Width > send_counter /\ opened[c] = 0 => ~Refused(c)

\* What the two are read from: the window's bits are exactly the recent
\* counters that were opened, and the highest is a counter that was sealed.
WindowInvariant ==
  /\ highest_received <= send_counter
  /\ \A c \in Counters :
       /\ c > highest_received => opened[c] = 0
       /\ c <= highest_received /\ highest_received - c < Width
            => opened[c] = IF highest_received - c \in replay_window THEN 1 ELSE 0
  /\ OpenedAtMostOnce
=============================================================================
