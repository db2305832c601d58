------------------------- MODULE PacketChannelProofs -------------------------
(***************************************************************************)
(* The replay window is right for every width and every counter range.     *)
(***************************************************************************)
EXTENDS PacketChannel, TLAPS

\* A shift by less than the width is the shift that was meant.
LEMMA ShortShift ==
  ASSUME NEW n \in 1..(Width - 1), NEW bits
  PROVE  ShiftLeft(bits, n) = {b \in Offsets : b - n \in bits}
<1>1. n % Width = n
  BY ChannelAssumption
<1>2. QED
  BY <1>1 DEF ShiftLeft

\* After the window slid by n its bits are the old ones n further back, and
\* the new highest counter's own.
LEMMA WindowSlides ==
  ASSUME TypeOK, NEW n \in Nat \ {0}
  PROVE  /\ Slid(n) \in SUBSET Offsets
         /\ \A b \in Offsets : b \in Slid(n) <=> b = 0 \/ b - n \in replay_window
<1>1. CASE n >= Width
  BY <1>1, ChannelAssumption DEF Slid, TypeOK, Offsets
<1>2. CASE n < Width
  <2>1. Slid(n) = {b \in Offsets : b - n \in replay_window} \cup {0}
    BY <1>2, ShortShift, ChannelAssumption DEF Slid
  <2>2. QED
    BY <2>1, ChannelAssumption DEF Offsets
<1>3. QED
  BY <1>1, <1>2, ChannelAssumption

\* Every step keeps the types.
LEMMA TypesKept ==
  ASSUME TypeOK, [Next]_vars
  PROVE  TypeOK'
<1>1. CASE Seal
  BY <1>1, ChannelAssumption DEF Seal, TypeOK
<1>2. ASSUME NEW c \in Counters, Open(c)
      PROVE  TypeOK'
  <2>1. c \in 1..MaxCounter /\ opened' \in [Counters -> Nat]
    BY <1>2 DEF Open, TypeOK, Counters
  <2>2. CASE c > highest_received
    <3>1. c - highest_received \in Nat \ {0}
      BY <2>1, <2>2, ChannelAssumption DEF TypeOK
    <3>2. replay_window' \in SUBSET Offsets
      BY <1>2, <2>2, <3>1, WindowSlides DEF Open, AcceptCounter
    <3>3. highest_received' \in 0..MaxCounter /\ send_counter' \in 0..MaxCounter
      BY <1>2, <2>1, <2>2, ChannelAssumption DEF Open, AcceptCounter, TypeOK
    <3>4. QED
      BY <2>1, <3>2, <3>3 DEF TypeOK
  <2>3. CASE ~(c > highest_received)
    <3>1. highest_received - c \in Offsets
      BY <1>2, <2>1, <2>3, ChannelAssumption
      DEF Open, AcceptCounter, Refused, TypeOK, Offsets
    <3>2. replay_window' \in SUBSET Offsets
      BY <1>2, <2>3, <3>1 DEF Open, AcceptCounter, TypeOK
    <3>3. UNCHANGED <<highest_received, send_counter>>
      BY <1>2, <2>3 DEF Open, AcceptCounter
    <3>4. QED
      BY <2>1, <3>2, <3>3 DEF TypeOK
  <2>4. QED
    BY <2>2, <2>3
<1>3. CASE UNCHANGED vars
  BY <1>3 DEF vars, TypeOK
<1>4. QED
  BY <1>1, <1>2, <1>3 DEF Next

\* Every step keeps the window: what Open records is what it handed up.
LEMMA WindowKept ==
  ASSUME TypeOK, WindowInvariant, [Next]_vars
  PROVE  WindowInvariant'
<1>1. CASE Seal
  BY <1>1, ChannelAssumption DEF Seal, TypeOK, WindowInvariant, OpenedAtMostOnce
<1>2. ASSUME NEW c \in Counters, Open(c)
      PROVE  WindowInvariant'
  <2>1. c \in 1..MaxCounter /\ c <= send_counter /\ send_counter' = send_counter
    BY <1>2, ChannelAssumption DEF Open, TypeOK, Counters
  <2>2. /\ opened'[c] = opened[c] + 1
        /\ \A e \in Counters \ {c} : opened'[e] = opened[e]
    BY <1>2 DEF Open, TypeOK
  <2>3. opened[c] = 0
    BY <1>2, <2>1, ChannelAssumption
    DEF Open, AcceptCounter, Refused, WindowInvariant, TypeOK
  <2>4. OpenedAtMostOnce'
    BY <2>2, <2>3 DEF WindowInvariant, OpenedAtMostOnce
  <2>5. CASE c > highest_received
    <3> DEFINE n == c - highest_received
    <3>1. n \in Nat \ {0}
      BY <2>1, <2>5, ChannelAssumption DEF TypeOK
    <3>2. highest_received' = c /\ replay_window' = Slid(n)
      BY <1>2, <2>5 DEF Open, AcceptCounter
    <3>3. ASSUME NEW e \in Counters, e > c
          PROVE  opened'[e] = 0
      BY <2>1, <2>2, <2>5, <3>3, ChannelAssumption
      DEF WindowInvariant, TypeOK, Counters
    <3>4. ASSUME NEW e \in Counters, e <= c, c - e < Width
          PROVE  opened'[e] = IF c - e \in replay_window' THEN 1 ELSE 0
      <4>1. c - e \in Offsets /\ e \in Int /\ e >= 1
        BY <2>1, <3>4, ChannelAssumption DEF Offsets, Counters
      <4>2. c - e \in replay_window' <=> c = e \/ highest_received - e \in replay_window
        BY <2>1, <3>1, <3>2, <4>1, WindowSlides, ChannelAssumption DEF TypeOK
      <4>3. CASE e = c
        BY <2>2, <2>3, <4>2, <4>3
      <4>4. CASE e # c /\ e > highest_received
        <5>1. highest_received - e \notin replay_window
          BY <2>1, <4>1, <4>4 DEF TypeOK, Offsets
        <5>2. QED
          BY <2>2, <4>2, <4>4, <5>1 DEF WindowInvariant
      <4>5. CASE e # c /\ e <= highest_received
        <5>1. highest_received - e < Width
          BY <2>1, <2>5, <3>4, <4>1, ChannelAssumption DEF TypeOK
        <5>2. QED
          BY <2>2, <4>2, <4>5, <5>1 DEF WindowInvariant
      <4>6. QED
        BY <2>1, <4>1, <4>3, <4>4, <4>5 DEF TypeOK
    <3>5. QED
      BY <2>1, <2>4, <3>2, <3>3, <3>4 DEF WindowInvariant
  <2>6. CASE ~(c > highest_received)
    <3>1. /\ highest_received' = highest_received
          /\ replay_window' = replay_window \cup {highest_received - c}
      BY <1>2, <2>6 DEF Open, AcceptCounter
    <3>2. ASSUME NEW e \in Counters, e # c
          PROVE  highest_received - e \in replay_window'
                   <=> highest_received - e \in replay_window
      BY <2>1, <3>1, <3>2 DEF TypeOK, Counters
    <3>3. QED
      BY <2>1, <2>2, <2>3, <2>4, <2>6, <3>1, <3>2 DEF WindowInvariant, TypeOK
  <2>7. QED
    BY <2>5, <2>6
<1>3. CASE UNCHANGED vars
  BY <1>3 DEF vars, WindowInvariant, OpenedAtMostOnce
<1>4. QED
  BY <1>1, <1>2, <1>3 DEF Next

\* The state of the channel keeps its shape: in particular the window never
\* outgrows its word.
THEOREM ChannelTypeCorrect == Spec => []TypeOK
<1>1. Init => TypeOK
  BY ChannelAssumption DEF Init, TypeOK
<1>2. TypeOK /\ [Next]_vars => TypeOK'
  BY TypesKept
<1>3. QED
  BY <1>1, <1>2, PTL DEF Spec

\* The bits of the window are exactly the recent counters that were opened.
THEOREM WindowIsExact == Spec => []WindowInvariant
<1>1. Init => WindowInvariant
  BY ChannelAssumption DEF Init, WindowInvariant, OpenedAtMostOnce, Counters
<1>2. TypeOK /\ WindowInvariant /\ [Next]_vars => WindowInvariant'
  BY WindowKept
<1>3. QED
  BY <1>1, <1>2, ChannelTypeCorrect, PTL DEF Spec

\* No packet is opened twice, whatever the network repeats or reorders.
THEOREM NoPacketIsOpenedTwice == Spec => []OpenedAtMostOnce
<1>1. WindowInvariant => OpenedAtMostOnce
  BY DEF WindowInvariant
<1>2. QED
  BY <1>1, WindowIsExact, PTL

\* No packet inside the window is refused before it was opened.
THEOREM FreshPacketsAreAccepted == Spec => []FreshIsNotRefused
<1>1. TypeOK /\ WindowInvariant => FreshIsNotRefused
  <2>1. SUFFICES ASSUME TypeOK, WindowInvariant, NEW c \in 1..send_counter,
                        c + Width > send_counter, opened[c] = 0
                 PROVE  ~Refused(c)
    BY DEF FreshIsNotRefused
  <2>2. c \in Counters /\ c \in Int /\ c >= 1
    BY <2>1, ChannelAssumption DEF TypeOK, Counters
  <2>3. QED
    BY <2>1, <2>2, ChannelAssumption DEF Refused, WindowInvariant, TypeOK
<1>2. QED
  BY <1>1, ChannelTypeCorrect, WindowIsExact, PTL
=============================================================================
