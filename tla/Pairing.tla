------------------------------- MODULE Pairing -------------------------------
(***************************************************************************)
(* Pairing by ticket (transport-core/src/pairing.rs): Host::bind and       *)
(* Host::accept on one device, pairing::join on the others.  A ticket      *)
(* holds the host's certificate, a one-use secret and an expiry on the     *)
(* host's wall clock.  Guests hold the ticket; strangers only reach the    *)
(* host's UDP port, and connect, stall or present something else.          *)
(*                                                                         *)
(* Time is the monotonic clock of all devices, in ticks; a wall clock is   *)
(* that plus an offset, and the host's is set by hand while it waits.      *)
(* Timers are taken to fire on time: a tick passes no deadline that a      *)
(* running task is waiting for.                                            *)
(***************************************************************************)
EXTENDS Integers, Sequences

CONSTANTS
  Guests, Strangers,
  Nobody,
  TTL,           \* life of a ticket (300 s)
  AttemptLimit,  \* what one client may take of the host's time (8 s)
  AuthLimit,     \* ... after its handshake (5 s)
  JoinLimit,     \* what a guest spends on joining (15 s)
  Skew,          \* tolerated between two wall clocks (60 s)
  GuestOffsets,  \* offsets of the guests' wall clocks
  HostOffsets,   \* offsets the host's wall clock is set to
  MaxTime        \* bound on the clock

Clients == Guests \cup Strangers

ASSUME PairingAssumption ==
  /\ Guests \cap Strangers = {}
  /\ Nobody \notin Clients
  /\ {TTL, AttemptLimit, AuthLimit, JoinLimit} \subseteq Nat \ {0}
  /\ {Skew, MaxTime} \subseteq Nat
  /\ GuestOffsets \cup HostOffsets \subseteq Int

VARIABLES
  now,       \* monotonic time; the session is hosted at 0
  hostClock, \* offset of the host's wall clock
  skew,      \* offsets of the guests' wall clocks
  host,      \* the task that runs Host::accept
  incoming,  \* connections the endpoint holds until the host accepts them
  client     \* each client's attempt to connect

vars == <<now, hostClock, skew, host, incoming, client>>

\* bind takes the expiry from the wall clock, and accept turns it into a
\* deadline; the engine calls the one right after the other.
expires == TTL
deadline == TTL

Wall == now + hostClock

Listening == [pc |-> "listening", peer |-> Nobody, attemptEnds |-> 0, authEnds |-> 0]
Ends(pc) == [pc |-> pc, ends |-> 0]

Init ==
  /\ now = 0
  /\ hostClock = 0
  /\ skew \in [Guests -> GuestOffsets]
  /\ host = Listening
  /\ incoming = <<>>
  /\ client = [c \in Clients |-> [pc |-> "idle", ends |-> 0]]

Least(a, b) == IF a <= b THEN a ELSE b

InAttempt == host.pc \in {"handshake", "auth"}
Settled == host.pc \in {"paired", "failed"}

-----------------------------------------------------------------------------
(***************************************************************************)
(* The clients.  Each connects once: a guest that tries the same ticket    *)
(* again is one more of Guests.                                            *)
(***************************************************************************)

\* Mutant of TicketIsValid: the clocks are taken to agree.
TicketIsCurrent(wall) == wall < expires /\ expires <= wall + TTL

\* decode: not expired and not longer-lived than a ticket can be, give or take
\* the skew between the two wall clocks.
TicketIsValid(wall) ==
  /\ expires > wall - Skew
  /\ expires <= wall + TTL + Skew

Connect(c) ==
  /\ client[c].pc = "idle"
  /\ ~Settled
  /\ client' = [client EXCEPT ![c] = [pc |-> "connecting", ends |-> now + JoinLimit]]
  /\ incoming' = Append(incoming, [from |-> c, validated |-> FALSE])
  /\ UNCHANGED <<now, hostClock, skew, host>>

Join(g) == TicketIsValid(now + skew[g]) /\ Connect(g)

\* The server pinned by the ticket answered: the guest shows the secret.  A
\* stranger may show anything else, or nothing.
Present(c) ==
  /\ client[c].pc = "connected"
  /\ client' = [client EXCEPT ![c].pc = "presented"]
  /\ UNCHANGED <<now, hostClock, skew, host, incoming>>

\* The answer "OK" reaches the guest.
Joined(g) ==
  /\ client[g].pc = "answered"
  /\ client' = [client EXCEPT ![g] = Ends("joined")]
  /\ UNCHANGED <<now, hostClock, skew, host, incoming>>

Waiting(c) ==
  client[c].pc \in {"connecting", "connected", "presented", "answered"}

\* The 15 seconds of join are over, whatever was on its way, or the server is
\* gone, or the client is killed.  The host does not learn of it at once, and
\* may still read a secret that was shown before ("left").
GiveUp(c) ==
  /\ Waiting(c)
  /\ client' = [client EXCEPT ![c] =
                  Ends(IF @.pc = "presented" THEN "left" ELSE "failed")]
  /\ UNCHANGED <<now, hostClock, skew, host, incoming>>

\* Mutant of JoinTimesOut: the time limit covers the connection only.
ConnectTimesOut(g) == client[g].pc = "connecting" /\ now >= client[g].ends /\ GiveUp(g)

JoinTimesOut(g) == now >= client[g].ends /\ GiveUp(g)

-----------------------------------------------------------------------------
(***************************************************************************)
(* The host.                                                               *)
(***************************************************************************)

\* A connection whose address is not validated is asked to retry, and comes
\* back with a token at the end of the queue if its client still wants it.
Retry ==
  LET first == Head(incoming) IN
  /\ host.pc = "listening"
  /\ incoming # <<>>
  /\ ~first.validated
  /\ incoming' = IF client[first.from].pc = "connecting"
                 THEN Append(Tail(incoming), [first EXCEPT !.validated = TRUE])
                 ELSE Tail(incoming)
  /\ UNCHANGED <<now, hostClock, skew, host, client>>

\* Mutants of AttemptEnd: the attempt is not bounded by the host's deadline; a
\* difference is taken the wrong way round.
AttemptEndAnyway == now + AttemptLimit
AttemptEndBackwards == deadline - (now + AttemptLimit)

\* deadline.min(now + 8 s)
AttemptEnd == Least(deadline, now + AttemptLimit)

BeginAttempt ==
  LET first == Head(incoming) IN
  /\ host.pc = "listening"
  /\ incoming # <<>>
  /\ first.validated
  /\ incoming' = Tail(incoming)
  /\ host' = [pc |-> "handshake", peer |-> first.from,
              attemptEnds |-> AttemptEnd, authEnds |-> 0]
  /\ UNCHANGED <<now, hostClock, skew, client>>

\* TLS is done on both sides; the authentication has its own time limit.
Handshake ==
  /\ host.pc = "handshake"
  /\ now < host.attemptEnds
  /\ client[host.peer].pc = "connecting"
  /\ host' = [host EXCEPT !.pc = "auth", !.authEnds = now + AuthLimit]
  /\ client' = [client EXCEPT ![host.peer].pc = "connected"]
  /\ UNCHANGED <<now, hostClock, skew, incoming>>

SecretArrived == host.pc = "auth" /\ client[host.peer].pc \in {"presented", "left"}
SecretIsRight == host.peer \in Guests

\* The client is told "OK", unless it has gone.
Answered ==
  IF client[host.peer].pc = "presented"
  THEN [client EXCEPT ![host.peer].pc = "answered"]
  ELSE client

\* Mutants of Admit: the expiry is checked after the answer was written; the
\* server configuration stays and the loop accepts once more.
AdmitBeforeExpiryCheck ==
  /\ SecretArrived
  /\ SecretIsRight
  /\ host' = IF Wall < expires THEN [host EXCEPT !.pc = "paired"] ELSE Listening
  /\ client' = Answered
  /\ UNCHANGED <<now, hostClock, skew, incoming>>
AdmitAndListen ==
  /\ SecretArrived
  /\ SecretIsRight
  /\ Wall < expires
  /\ host' = Listening
  /\ client' = Answered
  /\ UNCHANGED <<now, hostClock, skew, incoming>>

\* The secret is right and the ticket has not expired: answer, take the server
\* configuration down and return the connection.
Admit ==
  /\ SecretArrived
  /\ SecretIsRight
  /\ Wall < expires
  /\ host' = [host EXCEPT !.pc = "paired"]
  /\ client' = Answered
  /\ incoming' = <<>>
  /\ UNCHANGED <<now, hostClock, skew>>

\* Close the connection of this attempt.
Dropped ==
  IF Waiting(host.peer) THEN [client EXCEPT ![host.peer] = Ends("failed")]
                        ELSE client

\* Mutant of Reject: accept returns its error instead of trying the next.
RejectAndFail ==
  /\ SecretArrived
  /\ ~SecretIsRight \/ Wall >= expires
  /\ host' = [Listening EXCEPT !.pc = "failed"]
  /\ client' = Dropped
  /\ UNCHANGED <<now, hostClock, skew, incoming>>

Reject ==
  /\ SecretArrived
  /\ ~SecretIsRight \/ Wall >= expires
  /\ host' = Listening
  /\ client' = Dropped
  /\ UNCHANGED <<now, hostClock, skew, incoming>>

\* Mutant of AttemptIsOver: only the authentication is timed.
AuthIsOver == host.pc = "auth" /\ now >= host.authEnds

AttemptIsOver ==
  \/ InAttempt /\ now >= host.attemptEnds
  \/ host.pc = "auth" /\ now >= host.authEnds

\* One of the two time limits, or the connection failed in between.
AttemptTimesOut ==
  /\ AttemptIsOver \/ (InAttempt /\ ~Waiting(host.peer))
  /\ host' = Listening
  /\ client' = Dropped
  /\ UNCHANGED <<now, hostClock, skew, incoming>>

\* timeout_at polls the endpoint first: only an idle host fails.
AcceptTimesOut ==
  /\ host.pc = "listening"
  /\ incoming = <<>>
  /\ now >= deadline
  /\ host' = [host EXCEPT !.pc = "failed"]
  /\ UNCHANGED <<now, hostClock, skew, incoming, client>>

HostStep ==
  \/ Retry \/ BeginAttempt \/ Handshake \/ Admit \/ Reject
  \/ AttemptTimesOut \/ AcceptTimesOut

-----------------------------------------------------------------------------

\* The user or NTP sets the host's wall clock.
SetClock ==
  /\ ~Settled
  /\ hostClock = 0
  /\ hostClock' \in HostOffsets \ {hostClock}
  /\ UNCHANGED <<now, skew, host, incoming, client>>

\* A timer that is due fires before time goes on.
TimerIsDue ==
  \/ AttemptIsOver
  \/ host.pc = "listening" /\ (incoming # <<>> \/ now >= deadline)
  \/ \E g \in Guests : Waiting(g) /\ now >= client[g].ends

Tick ==
  /\ now < MaxTime
  /\ ~TimerIsDue
  /\ now' = now + 1
  /\ UNCHANGED <<hostClock, skew, host, incoming, client>>

Next ==
  \/ \E g \in Guests : Join(g) \/ Joined(g) \/ JoinTimesOut(g)
  \/ \E x \in Strangers : Connect(x)
  \/ \E c \in Clients : Present(c) \/ GiveUp(c)
  \/ HostStep
  \/ SetClock
  \/ Tick

Spec == Init /\ [][Next]_vars

\* The host's task and the guests' timers are run, and time goes on.  No client
\* and no network owes anything.
Fairness ==
  /\ WF_vars(HostStep)
  /\ \A g \in Guests : WF_vars(JoinTimesOut(g))
  /\ WF_vars(Tick)

FairSpec == Spec /\ Fairness

-----------------------------------------------------------------------------

HostState ==
  [pc: {"listening", "handshake", "auth", "paired", "failed"},
   peer: Clients \cup {Nobody}, attemptEnds: Nat, authEnds: Nat]
ClientState ==
  [pc: {"idle", "connecting", "connected", "presented", "answered", "joined",
        "left", "failed"},
   ends: Nat]
Request == [from: Clients, validated: BOOLEAN]

TypeOK ==
  /\ now \in Nat
  /\ hostClock \in HostOffsets \cup {0}
  /\ skew \in [Guests -> GuestOffsets]
  /\ host \in HostState
  /\ incoming \in Seq(Request)
  /\ client \in [Clients -> ClientState]

\* "Host accepts one authenticated connection": a guest that was answered is
\* the guest the host is paired with, however many hold the ticket, and a
\* stranger never is.  A guest thus never shows "connected" alone.
GuestIsPaired ==
  \A c \in Clients :
    client[c].pc \in {"answered", "joined"}
      => host.pc = "paired" /\ host.peer = c /\ c \in Guests

\* A ticket is not honoured after its life, even if the host's wall clock is
\* set back while the host waits.
PairedWithinLife == [][host'.pc = "paired" /\ host.pc # "paired" => now <= TTL]_vars

\* Nobody but time uses a ticket up: a wrong secret, a client that stalls or
\* goes away, or a guest that comes too late leaves the host listening.
OnlyTimeFailsTheHost == [][host'.pc = "failed" /\ host.pc # "failed" => now >= TTL]_vars

\* What PairedWithinLife is read from: while the host is busy or waiting its
\* deadline has not passed, and no attempt outlives it.
HostIsInTime ==
  /\ ~Settled => now <= TTL
  /\ InAttempt => now <= host.attemptEnds /\ host.attemptEnds <= TTL

\* A guest whose wall clock is within the skew of the host's takes every ticket
\* that the host still honours, unless the host's clock went back behind the
\* moment it made the ticket.
HonouredTicketIsValid ==
  \A g \in Guests :
    /\ Wall \in 0..(expires - 1)
    /\ skew[g] - hostClock \in (-Skew)..Skew
    => TicketIsValid(now + skew[g])

\* Host::accept returns: no sequence of clients keeps it in an attempt.
HostSettles == <>Settled

\* join returns, answered or not.
JoinSettles == \A g \in Guests : Waiting(g) ~> ~Waiting(g)
=============================================================================
