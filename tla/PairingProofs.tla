---------------------------- MODULE PairingProofs ----------------------------
(***************************************************************************)
(* Who is paired, and until when, for any number of guests and strangers   *)
(* and any time limits.                                                    *)
(***************************************************************************)
EXTENDS Pairing, TLAPS

\* What the updates of the records stay within.
LEMMA Updates ==
  /\ \A k \in ClientState, n \in Nat : [pc |-> "connecting", ends |-> n] \in ClientState
  /\ \A k \in ClientState : \A pc \in {"connected", "presented", "answered"} :
       [k EXCEPT !.pc = pc] \in ClientState
  /\ \A pc \in {"joined", "left", "failed"} : Ends(pc) \in ClientState
  /\ \A c \in Clients : [from |-> c, validated |-> FALSE] \in Request
  /\ \A r \in Request : r.from \in Clients /\ [r EXCEPT !.validated = TRUE] \in Request
BY DEF ClientState, Request, Ends

\* An attempt ends before the life of the ticket does, and not in the past.
LEMMA AttemptEndType ==
  ASSUME TypeOK, HostIsInTime, ~Settled
  PROVE  AttemptEnd \in Nat /\ AttemptEnd <= TTL /\ now <= AttemptEnd
BY PairingAssumption DEF AttemptEnd, Least, deadline, TypeOK, HostIsInTime

\* Whoever is in an attempt is a client.
PeerKnown == InAttempt => host.peer \in Clients

\* Every step keeps the types.
LEMMA TypesKept ==
  ASSUME TypeOK, HostIsInTime, PeerKnown, [Next]_vars
  PROVE  TypeOK' /\ PeerKnown'
<1> USE DEF Settled, InAttempt
<1>1. ASSUME NEW c \in Clients,
             Connect(c) \/ Present(c) \/ GiveUp(c) \/ (c \in Guests /\ Joined(c))
      PROVE  TypeOK' /\ PeerKnown'
  <2>1. UNCHANGED <<now, hostClock, skew, host>>
    BY <1>1 DEF Connect, Present, GiveUp, Joined
  <2>2. now + JoinLimit \in Nat
    BY PairingAssumption DEF TypeOK
  <2>3. client' \in [Clients -> ClientState]
    <3>1. CASE Connect(c)
      BY <2>2, <3>1, Updates DEF Connect, TypeOK
    <3>2. CASE Present(c)
      BY <3>2, Updates DEF Present, TypeOK
    <3>3. CASE GiveUp(c) \/ Joined(c)
      BY <3>3, Updates DEF GiveUp, Joined, TypeOK
    <3>4. QED
      BY <1>1, <3>1, <3>2, <3>3
  <2>4. incoming' \in Seq(Request)
    <3>1. CASE Connect(c)
      <4>1. [from |-> c, validated |-> FALSE] \in Request
        BY Updates
      <4>2. QED
        BY <3>1, <4>1 DEF Connect, TypeOK
    <3>2. CASE UNCHANGED incoming
      BY <3>2 DEF TypeOK
    <3>3. QED
      BY <1>1, <3>1, <3>2 DEF Present, GiveUp, Joined
  <2>5. QED
    BY <2>1, <2>3, <2>4 DEF TypeOK, PeerKnown
<1>2. CASE Retry
  <2>1. Head(incoming) \in Request /\ Tail(incoming) \in Seq(Request)
    BY <1>2 DEF Retry, TypeOK
  <2>2. incoming' \in Seq(Request)
    BY <1>2, <2>1, Updates DEF Retry
  <2>3. QED
    BY <1>2, <2>2 DEF Retry, TypeOK, PeerKnown
<1>3. CASE BeginAttempt
  <2>1. Head(incoming) \in Request /\ Tail(incoming) \in Seq(Request)
    BY <1>3 DEF BeginAttempt, TypeOK
  <2>2. Head(incoming).from \in Clients
    BY <2>1, Updates
  <2>3. AttemptEnd \in Nat
    BY <1>3, AttemptEndType DEF BeginAttempt
  <2>4. host' \in HostState /\ host'.peer = Head(incoming).from
    BY <1>3, <2>2, <2>3 DEF BeginAttempt, HostState
  <2>5. QED
    BY <1>3, <2>1, <2>2, <2>4 DEF BeginAttempt, TypeOK, PeerKnown
<1>4. CASE Handshake
  <2>1. client' \in [Clients -> ClientState]
    BY <1>4, Updates DEF Handshake, TypeOK
  <2>2. now + AuthLimit \in Nat
    BY PairingAssumption DEF TypeOK
  <2>3. host' \in HostState /\ host'.peer = host.peer
    BY <1>4, <2>2 DEF Handshake, TypeOK, HostState
  <2>4. QED
    BY <1>4, <2>1, <2>3 DEF Handshake, TypeOK, PeerKnown
<1>5. Answered \in [Clients -> ClientState] /\ Dropped \in [Clients -> ClientState]
  BY Updates DEF Answered, Dropped, TypeOK
<1>6. CASE Admit
  <2>1. host' \in HostState /\ ~InAttempt'
    BY <1>6 DEF Admit, TypeOK, HostState
  <2>2. incoming' \in Seq(Request)
    BY <1>6 DEF Admit
  <2>3. QED
    BY <1>5, <1>6, <2>1, <2>2 DEF Admit, TypeOK, PeerKnown
<1>7. CASE Reject \/ AttemptTimesOut
  <2>1. host' \in HostState /\ ~InAttempt'
    BY <1>7 DEF Reject, AttemptTimesOut, Listening, HostState
  <2>2. QED
    BY <1>5, <1>7, <2>1
    DEF Reject, AttemptTimesOut, TypeOK, PeerKnown
<1>8. CASE AcceptTimesOut
  BY <1>8 DEF AcceptTimesOut, TypeOK, HostState, PeerKnown
<1>9. CASE SetClock \/ Tick \/ UNCHANGED vars
  BY <1>9 DEF SetClock, Tick, vars, TypeOK, PeerKnown
<1>10. QED
  BY <1>1, <1>2, <1>3, <1>4, <1>6, <1>7, <1>8, <1>9
  DEF Next, HostStep, Join, JoinTimesOut, Clients

\* Time does not pass the end of what the host does, nor the life of the ticket.
LEMMA HostStaysInTime ==
  ASSUME TypeOK, HostIsInTime, [Next]_vars
  PROVE  HostIsInTime'
<1> USE DEF Settled, InAttempt
<1>1. CASE UNCHANGED <<now, host>>
  BY <1>1 DEF HostIsInTime
<1>2. CASE BeginAttempt
  BY <1>2, AttemptEndType DEF BeginAttempt, HostIsInTime
<1>3. CASE Handshake \/ Admit
  BY <1>3 DEF Handshake, Admit, SecretArrived, HostIsInTime, TypeOK, HostState
<1>4. CASE Reject \/ AttemptTimesOut
  BY <1>4 DEF Reject, AttemptTimesOut, AttemptIsOver, SecretArrived, Listening,
     HostIsInTime
<1>5. CASE AcceptTimesOut
  BY <1>5 DEF AcceptTimesOut, HostIsInTime, TypeOK, HostState
<1>6. CASE Tick
  BY <1>6, PairingAssumption
  DEF Tick, TimerIsDue, AttemptIsOver, HostIsInTime, TypeOK, HostState, deadline
<1>7. QED
  BY <1>1, <1>2, <1>3, <1>4, <1>5, <1>6
  DEF Next, HostStep, Join, Connect, Present, GiveUp, Joined, JoinTimesOut,
      Retry, SetClock, vars

\* A client that is answered or joined.
Told(c) == client[c].pc \in {"answered", "joined"}

\* Every step keeps the guest that was told the one that is paired.
LEMMA PairingKept ==
  ASSUME TypeOK, PeerKnown, GuestIsPaired, [Next]_vars
  PROVE  GuestIsPaired'
<1> USE DEF InAttempt
<1>0. (\A c \in Clients : Told(c) => host.pc = "paired" /\ host.peer = c /\ c \in Guests)
        <=> GuestIsPaired
  BY DEF Told, GuestIsPaired
<1>1. ASSUME UNCHANGED host, \A c \in Clients : Told(c)' => Told(c)
      PROVE  GuestIsPaired'
  BY <1>1 DEF Told, GuestIsPaired
<1>2. ASSUME NEW c \in Clients,
             Connect(c) \/ Present(c) \/ GiveUp(c) \/ (c \in Guests /\ Joined(c))
      PROVE  GuestIsPaired'
  <2>1. \A e \in Clients : Told(e)' => Told(e)
    <3>1. CASE Connect(c) \/ GiveUp(c)
      BY <3>1 DEF Connect, GiveUp, Ends, Told, TypeOK
    <3>2. CASE Present(c)
      BY <3>2 DEF Present, Told, TypeOK, ClientState
    <3>3. CASE Joined(c)
      BY <3>3 DEF Joined, Ends, Told, TypeOK
    <3>4. QED
      BY <1>2, <3>1, <3>2, <3>3
  <2>2. QED
    BY <1>1, <1>2, <2>1 DEF Connect, Present, GiveUp, Joined
<1>3. ASSUME host.pc # "paired", \A c \in Clients : Told(c)' => Told(c)
      PROVE  GuestIsPaired'
  BY <1>3 DEF Told, GuestIsPaired
<1>4. CASE Handshake
  <2>1. \A e \in Clients : Told(e)' => Told(e)
    BY <1>4 DEF Handshake, Told, TypeOK
  <2>2. QED
    BY <1>3, <1>4, <2>1 DEF Handshake
<1>5. CASE Reject \/ AttemptTimesOut
  <2>1. \A e \in Clients : Told(e)' => Told(e)
    BY <1>5 DEF Reject, AttemptTimesOut, Dropped, Ends, Told, TypeOK
  <2>2. host.pc # "paired"
    BY <1>5 DEF Reject, SecretArrived, AttemptTimesOut, AttemptIsOver
  <2>3. QED
    BY <1>3, <2>1, <2>2
<1>6. CASE BeginAttempt \/ AcceptTimesOut
  <2>1. host.pc # "paired" /\ UNCHANGED client
    BY <1>6 DEF BeginAttempt, AcceptTimesOut
  <2>2. QED
    BY <1>3, <2>1 DEF Told
<1>7. CASE Admit
  <2>1. host.peer \in Guests /\ host.pc = "auth"
    BY <1>7 DEF Admit, SecretArrived, SecretIsRight
  <2>2. host'.pc = "paired" /\ host'.peer = host.peer
    BY <1>7 DEF Admit, TypeOK, HostState
  <2>3. \A c \in Clients \ {host.peer} : ~Told(c)'
    BY <1>7, <2>1 DEF Admit, Answered, Told, GuestIsPaired, TypeOK
  <2>4. QED
    BY <2>1, <2>2, <2>3 DEF GuestIsPaired, Told
<1>8. CASE Retry \/ SetClock \/ Tick \/ UNCHANGED vars
  BY <1>1, <1>8 DEF Retry, SetClock, Tick, vars, Told
<1>9. QED
  BY <1>2, <1>4, <1>5, <1>6, <1>7, <1>8
  DEF Next, HostStep, Join, JoinTimesOut, Clients

PairingInvariant == TypeOK /\ HostIsInTime /\ PeerKnown /\ GuestIsPaired

\* The three together hold in every state.
LEMMA PairingInductive == Spec => []PairingInvariant
<1>1. Init => PairingInvariant
  <2>1. Init => Listening \in HostState /\ Ends("idle") \in ClientState
    BY DEF Listening, HostState, Ends, ClientState
  <2>2. Init => TypeOK
    BY <2>1, PairingAssumption DEF Init, TypeOK, Ends
  <2>3. Init => HostIsInTime /\ PeerKnown /\ GuestIsPaired
    BY PairingAssumption
    DEF Init, Listening, HostIsInTime, PeerKnown, GuestIsPaired, Settled, InAttempt
  <2>4. QED
    BY <2>2, <2>3 DEF PairingInvariant
<1>2. PairingInvariant /\ [Next]_vars => PairingInvariant'
  <2>1. SUFFICES ASSUME PairingInvariant, [Next]_vars
                 PROVE  PairingInvariant'
    OBVIOUS
  <2>2. TypeOK /\ HostIsInTime /\ PeerKnown /\ GuestIsPaired
    BY <2>1 DEF PairingInvariant
  <2>3. QED
    BY <2>1, <2>2, TypesKept, HostStaysInTime, PairingKept DEF PairingInvariant
<1>3. QED
  BY <1>1, <1>2, PTL DEF Spec

\* The variables of the pairing keep their types, for any clients and any clocks.
THEOREM PairingTypeCorrect == Spec => []TypeOK
BY PairingInductive, PTL DEF PairingInvariant

\* A guest that was answered is the one the host is paired with, for any number
\* of guests that hold the ticket.
THEOREM AnsweredGuestIsPaired == Spec => []GuestIsPaired
BY PairingInductive, PTL DEF PairingInvariant

\* No setting of the host's wall clock lengthens the life of a ticket.
THEOREM PairingEndsWithTheTicket == Spec => PairedWithinLife
<1>1. ASSUME PairingInvariant, [Next]_vars, host'.pc = "paired", host.pc # "paired"
      PROVE  now <= TTL
  <2>1. ~(Handshake \/ AcceptTimesOut)
    BY <1>1 DEF Handshake, AcceptTimesOut, PairingInvariant, TypeOK, HostState
  <2>2. ~(BeginAttempt \/ Reject \/ AttemptTimesOut)
    BY <1>1 DEF BeginAttempt, Reject, AttemptTimesOut, Listening
  <2>3. host' # host
    BY <1>1
  <2>4. Admit
    BY <1>1, <2>1, <2>2, <2>3
    DEF Next, HostStep, Join, Connect, Joined, JoinTimesOut, GiveUp, Present, Retry,
        SetClock, Tick, vars
  <2>5. QED
    BY <1>1, <2>4 DEF Admit, SecretArrived, PairingInvariant, HostIsInTime, Settled
<1>2. PairingInvariant /\ [Next]_vars =>
        [host'.pc = "paired" /\ host.pc # "paired" => now <= TTL]_vars
  BY <1>1
<1>3. QED
  BY <1>2, PairingInductive, PTL DEF Spec, PairedWithinLife

\* Only AcceptTimesOut settles the host without a guest, and it looks at the time:
\* whatever clients do, the ticket is theirs until the end of its life.
THEOREM OnlyTimeUsesUpATicket == Spec => OnlyTimeFailsTheHost
<1>1. ASSUME PairingInvariant, [Next]_vars, host'.pc = "failed", host.pc # "failed"
      PROVE  now >= TTL
  <2>1. ~(Handshake \/ Admit)
    BY <1>1 DEF Handshake, Admit, PairingInvariant, TypeOK, HostState
  <2>2. ~(BeginAttempt \/ Reject \/ AttemptTimesOut)
    BY <1>1 DEF BeginAttempt, Reject, AttemptTimesOut, Listening
  <2>3. host' # host
    BY <1>1
  <2>4. AcceptTimesOut
    BY <1>1, <2>1, <2>2, <2>3
    DEF Next, HostStep, Join, Connect, Joined, JoinTimesOut, GiveUp, Present, Retry,
        SetClock, Tick, vars
  <2>5. QED
    BY <2>4 DEF AcceptTimesOut, deadline
<1>2. PairingInvariant /\ [Next]_vars =>
        [host'.pc = "failed" /\ host.pc # "failed" => now >= TTL]_vars
  BY <1>1
<1>3. QED
  BY <1>2, PairingInductive, PTL DEF Spec, OnlyTimeFailsTheHost

\* The two bounds of decode refuse no ticket that the host still honours, for any
\* skew and any setting of the clocks within it.
THEOREM HonouredTicketsAreTaken == Spec => []HonouredTicketIsValid
<1>1. ASSUME TypeOK PROVE HonouredTicketIsValid
  <2>1. SUFFICES ASSUME NEW g \in Guests, Wall \in 0..(expires - 1),
                        skew[g] - hostClock \in (-Skew)..Skew
                 PROVE  TicketIsValid(now + skew[g])
    BY DEF HonouredTicketIsValid
  <2>2. now \in Int /\ hostClock \in Int /\ skew[g] \in Int /\ Skew \in Int /\ TTL \in Int
    BY <1>1, PairingAssumption DEF TypeOK
  <2>3. QED
    BY <2>1, <2>2 DEF Wall, expires, TicketIsValid
<1>2. QED
  BY <1>1, PairingTypeCorrect, PTL
=============================================================================
