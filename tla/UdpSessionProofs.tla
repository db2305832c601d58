--------------------------- MODULE UdpSessionProofs ---------------------------
(***************************************************************************)
(* Proofs about UdpSession, for any number of devices, sessions, nonces    *)
(* and messages: what late and repeated datagrams cannot do.               *)
(*                                                                         *)
(* The argument: a controller draws a nonce that nobody had, keeps it for  *)
(* one session, and with it the only key it takes in that session.  So the *)
(* nonce names the sealing side of a key, and what was sealed or opened    *)
(* under it is still counted where the nonce is.                           *)
(***************************************************************************)
EXTENDS UdpSession, FiniteSetTheorems, TLAPS

Keys == Nat \X Nat \X Nat
Roles == {"host", "guest"}
Other(role) == IF role = "host" THEN "guest" ELSE "host"

\* The nonce that the side of a key drew.
Own(key, role) == IF role = "host" THEN key[3] ELSE key[2]

ControllerState ==
  [role: Roles, state: {"idle", "creating", "waiting", "connecting", "connected"},
   open: BOOLEAN, ticket: Nat \cup {None}, nonce: Nat \cup {None},
   peer: Controllers \cup {None}, key: Keys \cup {None}, as: Roles \cup {None},
   counter: Nat, accepted: SUBSET Nat, answering: SUBSET Nat, creating: Nat]

HelloIsTyped(p) ==
  /\ p.type \in {"HELLO", "HELLO_ACK"}
  /\ p.from \in Controllers /\ p.to \in Controllers
  /\ p.ticket \in DOMAIN creator
  /\ p.guestNonce \in 1..nonces
  /\ p.type = "HELLO" => p.to = creator[p.ticket]
  /\ p.type = "HELLO_ACK" => p.hostNonce \in 1..nonces

PacketIsTyped(p) ==
  /\ p.key \in Keys /\ p.role \in Roles /\ p.counter \in Nat
  /\ p.kind \in {"chat", "ack"} /\ p.message \in 1..sent

\* Who waits for the send of an answer is a host with a ticket and a nonce.
AnswersAsHost(c) ==
  ctl[c].answering # {} => ctl[c].role = "host" /\ ctl[c].nonce # None /\ ctl[c].ticket # None

Types ==
  /\ TypeOK
  /\ ctl \in [Controllers -> ControllerState]
  /\ \A c \in Controllers : AnswersAsHost(c)
  /\ \A p \in hellos : HelloIsTyped(p)
  /\ \A p \in sealed : PacketIsTyped(p)
  /\ shown \in [1..MaxMessages -> {0, Emissions}]
  /\ \A m \in 1..MaxMessages : shown[m] # 0 => m <= sent

\* A nonce is one controller's, and a key is taken with the nonce it was made of.
NoncesAreOwned ==
  /\ \A c, d \in Controllers : ctl[c].nonce # None /\ ctl[c].nonce = ctl[d].nonce => c = d
  /\ \A c \in Controllers :
       ctl[c].key # None =>
         /\ ctl[c].as \in Roles
         /\ ctl[c].nonce = Own(ctl[c].key, ctl[c].as)

\* What was sealed with a nonce is counted by the controller that has it still.
SealsAreCounted ==
  \A p \in sealed :
    /\ Own(p.key, p.role) \in 1..nonces
    /\ \A c \in Controllers :
         ctl[c].nonce = Own(p.key, p.role) =>
           ctl[c].key = p.key /\ ctl[c].as = p.role /\ p.counter <= ctl[c].counter

\* What was shown is remembered by the window of the controller that opened it.
OpenedIsRemembered ==
  \A p \in sealed :
    p.kind = "chat" /\ shown[p.message] # 0 =>
      /\ Own(p.key, Other(p.role)) \in 1..nonces
      /\ \A c \in Controllers :
           ctl[c].nonce = Own(p.key, Other(p.role)) =>
             /\ ctl[c].key = p.key /\ ctl[c].as = Other(p.role)
             /\ p.counter \in ctl[c].accepted

\* A message is sealed once.
MessagesAreSealedOnce ==
  \A p, q \in sealed :
    p.kind = "chat" /\ q.kind = "chat" /\ p.message = q.message => p = q

\* An answer that is being sent is one to a hello for a ticket of the host's, and
\* so is the ticket that the key will be made with.
AnswersWereSent ==
  \A c \in Controllers :
    ctl[c].answering # {} =>
      /\ creator[ctl[c].ticket] = c
      /\ \A n \in ctl[c].answering :
           \E p \in hellos : /\ p.type = "HELLO_ACK" /\ creator[p.ticket] = c
                            /\ p.guestNonce = n /\ p.hostNonce = ctl[c].nonce

\* The nonces of key k, which c uses in role, are those of answer p: a guest has
\* the ticket from there as well, a host made that one and the key's.
MadeOf(k, role, c, p, made) ==
  /\ p.type = "HELLO_ACK" /\ k[2] = p.guestNonce /\ k[3] = p.hostNonce
  /\ k[1] \in DOMAIN made
  /\ IF role = "host" THEN made[p.ticket] = c /\ made[k[1]] = c ELSE k[1] = p.ticket

\* The nonces of a key are those of an answer on the network.
KeysWereAnswered ==
  \A c \in Controllers :
    ctl[c].key # None => \E p \in hellos : MadeOf(ctl[c].key, ctl[c].as, c, p, creator)

SessionInvariant ==
  /\ Types /\ NoncesAreOwned /\ SealsAreCounted /\ SealedOnce
  /\ OpenedIsRemembered /\ MessagesAreSealedOnce /\ AnswersWereSent /\ KeysWereAnswered

-----------------------------------------------------------------------------
(***************************************************************************)
(* What a step does to one controller.                                     *)
(***************************************************************************)

\* The session of c is cleared.
Leaves(c) == ctl'[c].nonce = None /\ ctl'[c].key = None

\* The nonce is kept or drawn, and so is the key; counter and window go forward.
GoesOn(c) ==
  /\ \/ ctl'[c].nonce = ctl[c].nonce /\ nonces' = nonces
     \/ ctl[c].nonce = None /\ nonces' = nonces + 1 /\ ctl'[c].nonce = nonces'
  /\ IF ctl[c].key # None
     THEN /\ ctl'[c].key = ctl[c].key /\ ctl'[c].as = ctl[c].as
          /\ ctl'[c].counter >= ctl[c].counter
          /\ ctl[c].accepted \subseteq ctl'[c].accepted
     ELSE ctl'[c].key # None =>
            /\ ctl'[c].as \in Roles
            /\ ctl'[c].nonce = Own(ctl'[c].key, ctl'[c].as)
            /\ ctl'[c].nonce # None

Moves(c) ==
  /\ \A d \in Controllers \ {c} : ctl'[d] = ctl[d]
  /\ ctl' \in [Controllers -> ControllerState]
  /\ (Leaves(c) /\ nonces' = nonces) \/ GoesOn(c)

\* The values that stand for nothing are apart from those that do.
LEMMA NoneIsApart == None \notin Controllers /\ None \notin Nat /\ None \notin Keys
BY SessionAssumption DEF Keys

\* How a controller's record is taken apart and put together again.
LEMMA StateFields ==
  ASSUME NEW s \in ControllerState
  PROVE  /\ s.role \in Roles /\ s.open \in BOOLEAN
         /\ s.state \in {"idle", "creating", "waiting", "connecting", "connected"}
         /\ s.ticket \in Nat \cup {None} /\ s.nonce \in Nat \cup {None}
         /\ s.peer \in Controllers \cup {None} /\ s.key \in Keys \cup {None}
         /\ s.as \in Roles \cup {None} /\ s.counter \in Nat
         /\ s.accepted \in SUBSET Nat /\ s.answering \in SUBSET Nat /\ s.creating \in Nat
BY DEF ControllerState

\* disconnect forgets the session.
LEMMA ClearedState ==
  ASSUME NEW s \in ControllerState
  PROVE  /\ Cleared(s) \in ControllerState
         /\ Cleared(s).nonce = None /\ Cleared(s).key = None /\ Cleared(s).peer = None
         /\ Cleared(s).ticket = None /\ Cleared(s).creating = s.creating
         /\ Cleared(s).state = "idle" /\ Cleared(s).answering = {}
BY DEF Cleared, ControllerState

\* Keyed keeps a key, or takes one that is made of the ticket and the two nonces.
LEMMA KeyedState ==
  ASSUME NEW s \in ControllerState, NEW g \in Nat, NEW h \in Nat, s.ticket \in Nat
  PROVE  /\ Keyed(s, g, h) \in ControllerState
         /\ Keyed(s, g, h).nonce = s.nonce /\ Keyed(s, g, h).ticket = s.ticket
         /\ Keyed(s, g, h).peer = s.peer /\ Keyed(s, g, h).creating = s.creating
         /\ Keyed(s, g, h).role = s.role /\ Keyed(s, g, h).answering = s.answering
         /\ Keyed(s, g, h).key # None
         /\ s.key # None =>
              /\ Keyed(s, g, h).key = s.key /\ Keyed(s, g, h).as = s.as
              /\ Keyed(s, g, h).counter = s.counter
              /\ Keyed(s, g, h).accepted = s.accepted
         /\ s.key = None =>
              /\ Keyed(s, g, h).key = <<s.ticket, g, h>> /\ Keyed(s, g, h).as = s.role
<1>1. <<s.ticket, g, h>> \in Keys /\ <<s.ticket, g, h>> # None
  BY NoneIsApart DEF Keys
<1>2. CASE s.key # None
  BY <1>2 DEF Keyed, ControllerState
<1>3. CASE s.key = None
  BY <1>1, <1>3 DEF Keyed, ControllerState
<1>4. QED
  BY <1>2, <1>3

\* What Types says of one controller beyond its fields.
Fits(c) ==
  /\ ctl[c].ticket \in DOMAIN creator \cup {None}
  /\ ctl[c].nonce \in 1..nonces \cup {None}
  /\ ctl[c].creating \in 0..MaxTickets
  /\ ctl[c].answering \subseteq 1..nonces
  /\ ctl[c].state = "connected" \/ ctl[c].answering # {} => ctl[c].peer # None
  /\ ctl[c].state = "connected" => ctl[c].key # None
  /\ AnswersAsHost(c)

\* Types, for one controller at a time.
LEMMA AllFit ==
  ASSUME Types
  PROVE  /\ creator \in Seq(Controllers) /\ DOMAIN creator = 1..Len(creator)
         /\ Len(creator) \in Nat /\ nonces \in Nat /\ sent \in Nat
         /\ \A c \in Controllers : Fits(c) /\ ctl[c] \in ControllerState
<1>1. creator \in Seq(Controllers) /\ nonces \in Nat /\ sent \in Nat
  BY SessionAssumption DEF Types, TypeOK
<1>2. DOMAIN creator = 1..Len(creator) /\ Len(creator) \in Nat
  BY <1>1
<1>3. \A c \in Controllers : Fits(c) /\ ctl[c] \in ControllerState
  BY DEF Types, TypeOK, Fits
<1>4. QED
  BY <1>1, <1>2, <1>3

\* A new record for c alone.
LEMMA OnlyOne ==
  ASSUME Types, NEW c \in Controllers, NEW s \in ControllerState,
         ctl' = [ctl EXCEPT ![c] = s]
  PROVE  /\ ctl' \in [Controllers -> ControllerState]
         /\ ctl'[c] = s
         /\ \A d \in Controllers \ {c} : ctl'[d] = ctl[d]
BY DEF Types

UserActs(c) ==
  CreateSession(c) \/ TicketIsMade(c) \/ CreateFails(c) \/ JoinSession(c) \/ Disconnect(c)

\* What the window lets the user do draws a nonce at most, and never a key; who is
\* answering a hello goes on with the nonce, and with a ticket of its own.
UserMoved(c) ==
  /\ Moves(c) /\ Fits(c)'
  /\ ctl'[c].key \in {ctl[c].key, None} /\ (ctl'[c].key # None => ctl'[c].as = ctl[c].as)
  /\ ctl'[c].answering # {} =>
       /\ ctl'[c].answering = ctl[c].answering /\ ctl'[c].nonce = ctl[c].nonce
       /\ ctl'[c].ticket = ctl[c].ticket \/ creator'[ctl'[c].ticket] = c

\* Each of the user's acts is such a move.
LEMMA UserMoves ==
  ASSUME Types, NEW c \in Controllers, UserActs(c)
  PROVE  UserMoved(c)
<1> DEFINE s == ctl[c]
<1>0. /\ s \in ControllerState /\ Fits(c) /\ nonces \in Nat
      /\ creator \in Seq(Controllers)
      /\ DOMAIN creator = 1..Len(creator) /\ Len(creator) \in Nat
      /\ MaxTickets \in Nat
  BY AllFit, SessionAssumption
<1>1. ASSUME NEW t \in ControllerState, ctl' = [ctl EXCEPT ![c] = t],
             t.state # "connected", t.key = s.key, t.as = s.as, t.counter = s.counter,
             t.accepted = s.accepted, t.peer = s.peer, t.answering = s.answering,
             t.role \in {s.role, "host"} \/ s.answering = {},
             t.ticket = s.ticket \/ s.answering = {} \/ (t.ticket # None /\ creator'[t.ticket] = c),
             t.ticket \in DOMAIN creator' \cup {None},
             t.creating \in 0..MaxTickets,
             \/ t.nonce = s.nonce /\ nonces' = nonces
             \/ s.nonce = None /\ nonces' = nonces + 1 /\ t.nonce = nonces'
      PROVE  UserMoved(c)
  <2>1. /\ ctl' \in [Controllers -> ControllerState]
        /\ ctl'[c] = t /\ \A d \in Controllers \ {c} : ctl'[d] = ctl[d]
    BY <1>1, OnlyOne
  <2>2. t.nonce \in 1..nonces' \cup {None}
    BY <1>0, <1>1 DEF Fits
  <2>3. s.counter \in Nat
    BY <1>0, StateFields
  <2>4. GoesOn(c)
    BY <1>1, <2>1, <2>3 DEF GoesOn
  <2>5. t.answering \subseteq 1..nonces'
    BY <1>0, <1>1 DEF Fits
  <2>6. AnswersAsHost(c)'
    BY <1>0, <1>1, <2>1, <2>2 DEF Fits, AnswersAsHost
  <2>7. Fits(c)'
    BY <1>0, <1>1, <2>1, <2>2, <2>5, <2>6 DEF Fits
  <2>8. ctl'[c].answering # {} => ctl'[c].nonce = ctl[c].nonce
    BY <1>0, <1>1, <2>1 DEF Fits, AnswersAsHost
  <2>9. QED
    BY <1>1, <2>1, <2>4, <2>7, <2>8 DEF Moves, UserMoved
<1>2. CASE CreateSession(c)
  <2> DEFINE t == [s EXCEPT !.role = "host", !.state = "creating", !.open = TRUE,
                            !.creating = @ + 1]
  <2>1. s.creating + 1 \in 0..MaxTickets /\ s.creating + 1 \in Nat
    BY <1>0, <1>2 DEF CreateSession, Fits
  <2>2. t \in ControllerState
    BY <1>0, <2>1 DEF ControllerState, Roles
  <2>3. ctl' = [ctl EXCEPT ![c] = t] /\ UNCHANGED <<creator, nonces>>
    BY <1>2 DEF CreateSession
  <2>4. /\ t.state # "connected" /\ t.key = s.key /\ t.as = s.as /\ t.counter = s.counter
        /\ t.peer = s.peer /\ t.accepted = s.accepted /\ t.ticket = s.ticket /\ t.nonce = s.nonce
        /\ t.creating = s.creating + 1 /\ t.answering = s.answering /\ t.role = "host"
    BY <1>0 DEF ControllerState
  <2>5. t.ticket \in DOMAIN creator' \cup {None}
    BY <1>0, <2>3, <2>4 DEF Fits
  <2>6. QED
    BY <1>1, <2>1, <2>2, <2>3, <2>4, <2>5
<1>3. CASE TicketIsMade(c)
  <2> DEFINE t == [s EXCEPT !.ticket = Len(creator'), !.state = "waiting", !.creating = @ - 1]
  <2>1. creator' \in Seq(Controllers) /\ Len(creator') = Len(creator) + 1
    BY <1>0, <1>3 DEF TicketIsMade
  <2>2. Len(creator') \in DOMAIN creator' /\ Len(creator') \in Nat
    BY <1>0, <2>1
  <2>3. s.creating - 1 \in 0..MaxTickets /\ s.creating - 1 \in Nat
    BY <1>0, <1>3 DEF TicketIsMade, Fits
  <2>4. t \in ControllerState
    BY <1>0, <2>2, <2>3 DEF ControllerState
  <2>5. ctl' = [ctl EXCEPT ![c] = t] /\ UNCHANGED nonces
    BY <1>3 DEF TicketIsMade
  <2>6. /\ t.state # "connected" /\ t.key = s.key /\ t.as = s.as /\ t.counter = s.counter
        /\ t.peer = s.peer /\ t.accepted = s.accepted /\ t.ticket = Len(creator') /\ t.nonce = s.nonce
        /\ t.creating = s.creating - 1 /\ t.answering = s.answering /\ t.role = s.role
    BY <1>0 DEF ControllerState
  <2>7. t.ticket # None /\ creator'[t.ticket] = c
    <3>1. creator'[Len(creator')] = c
      BY <1>0, <1>3, <2>1 DEF TicketIsMade
    <3>2. QED
      BY <2>2, <2>6, <3>1, NoneIsApart
  <2>8. QED
    BY <1>1, <2>2, <2>3, <2>4, <2>5, <2>6, <2>7
<1>4. CASE CreateFails(c)
  <2> DEFINE t == [s EXCEPT !.state = "idle", !.creating = @ - 1]
  <2>1. s.creating - 1 \in 0..MaxTickets /\ s.creating - 1 \in Nat
    BY <1>0, <1>4 DEF CreateFails, Fits
  <2>2. t \in ControllerState
    BY <1>0, <2>1 DEF ControllerState
  <2>3. ctl' = [ctl EXCEPT ![c] = t] /\ UNCHANGED <<creator, nonces>>
    BY <1>4 DEF CreateFails
  <2>4. /\ t.state # "connected" /\ t.key = s.key /\ t.as = s.as /\ t.counter = s.counter
        /\ t.peer = s.peer /\ t.accepted = s.accepted /\ t.ticket = s.ticket /\ t.nonce = s.nonce
        /\ t.creating = s.creating - 1 /\ t.answering = s.answering /\ t.role = s.role
    BY <1>0 DEF ControllerState
  <2>5. t.ticket \in DOMAIN creator' \cup {None}
    BY <1>0, <2>3, <2>4 DEF Fits
  <2>6. QED
    BY <1>1, <2>1, <2>2, <2>3, <2>4, <2>5
<1>5. CASE JoinSession(c)
  <2> DEFINE nonce == IF s.nonce = None THEN nonces + 1 ELSE s.nonce
  <2>1. PICK k \in DOMAIN creator :
          /\ nonces' = IF s.nonce = None THEN nonce ELSE nonces
          /\ ctl' = [ctl EXCEPT ![c].role = "guest", ![c].state = "connecting",
                       ![c].open = TRUE, ![c].ticket = k, ![c].nonce = nonce]
    BY <1>5 DEF JoinSession
  <2> DEFINE t == [s EXCEPT !.role = "guest", !.state = "connecting", !.open = TRUE,
                            !.ticket = k, !.nonce = nonce]
  <2>2. nonce \in Nat /\ k \in Nat
    BY <1>0 DEF Fits
  <2>3. t \in ControllerState
    BY <1>0, <2>2, ZenonT(60) DEF ControllerState, Roles
  <2>4. ctl' = [ctl EXCEPT ![c] = t] /\ UNCHANGED creator
    BY <1>5, <2>1, ZenonT(60) DEF JoinSession, Types
  <2>5. /\ t.state # "connected" /\ t.key = s.key /\ t.as = s.as /\ t.counter = s.counter
        /\ t.peer = s.peer /\ t.accepted = s.accepted /\ t.ticket = k /\ t.nonce = nonce
        /\ t.creating = s.creating /\ t.answering = s.answering /\ s.answering = {}
    BY <1>0, <1>5 DEF ControllerState, JoinSession
  <2>6. t.creating \in 0..MaxTickets
    BY <1>0, <2>5 DEF Fits
  <2>7. QED
    BY <1>1, <2>1, <2>3, <2>4, <2>5, <2>6, ZenonT(60)
<1>6. CASE Disconnect(c)
  <2>1. ctl' = [ctl EXCEPT ![c] = Cleared(s)] /\ UNCHANGED <<creator, nonces>>
    BY <1>6 DEF Disconnect
  <2>2. /\ ctl' \in [Controllers -> ControllerState]
        /\ ctl'[c] = Cleared(s) /\ \A d \in Controllers \ {c} : ctl'[d] = ctl[d]
    BY <1>0, <2>1, ClearedState, OnlyOne
  <2>3. QED
    BY <1>0, <2>1, <2>2, ClearedState DEF Moves, Leaves, Fits, AnswersAsHost, UserMoved
<1>7. QED
  BY <1>2, <1>3, <1>4, <1>5, <1>6 DEF UserActs

\* HELLO: the host takes the peer, keeps or draws the nonce, and keeps what key it
\* has; if the answer is sent, the host waits for that.
LEMMA HelloMoves ==
  ASSUME Types, NEW c \in Controllers, NEW p \in hellos, ReceiveHello(c, p)
  PROVE  /\ Moves(c) /\ Fits(c)' /\ UNCHANGED creator
         /\ creator[p.ticket] = c /\ ctl'[c].ticket = p.ticket /\ ctl[c].ticket = p.ticket
         /\ ctl'[c].key = ctl[c].key /\ ctl'[c].as = ctl[c].as
         /\ ctl[c].answering # {} => ctl'[c].nonce = ctl[c].nonce
         /\ p.guestNonce \in 1..nonces /\ ctl'[c].nonce \in 1..nonces'
         /\ \/ hellos' = hellos /\ ctl'[c].answering = ctl[c].answering
            \/ /\ hellos' = hellos \cup {HelloAck(p, ctl'[c].nonce)}
               /\ ctl'[c].answering = ctl[c].answering \cup {p.guestNonce}
<1>1. PICK s : s = ctl[c]
  OBVIOUS
<1>2. /\ s \in ControllerState /\ Fits(c) /\ nonces \in Nat /\ UNCHANGED creator
      /\ DOMAIN creator = 1..Len(creator) /\ Len(creator) \in Nat
      /\ HelloIsTyped(p) /\ p.ticket = s.ticket /\ s.role = "host"
      /\ p.type = "HELLO" /\ p.to = c
  BY <1>1, AllFit DEF Types, ReceiveHello
<1>3. PICK nonce : nonce = IF s.nonce = None THEN nonces + 1 ELSE s.nonce
  OBVIOUS
<1>4. PICK a : /\ a \in {s.answering, s.answering \cup {p.guestNonce}}
               /\ ctl' = [ctl EXCEPT ![c] = [s EXCEPT !.peer = p.from, !.nonce = nonce,
                                                     !.answering = a]]
               /\ \/ hellos' = hellos /\ a = s.answering
                  \/ /\ hellos' = hellos \cup {HelloAck(p, nonce)}
                     /\ a = s.answering \cup {p.guestNonce}
  <2>1. CASE /\ hellos' = hellos \cup {HelloAck(p, nonce)}
             /\ ctl' = [ctl EXCEPT ![c].peer = p.from, ![c].nonce = nonce,
                          ![c].answering = @ \cup {p.guestNonce}]
    BY <1>1, <2>1 DEF Types
  <2>2. CASE /\ ctl' = [ctl EXCEPT ![c].peer = p.from, ![c].nonce = nonce]
             /\ UNCHANGED hellos
    <3>1. [s EXCEPT !.peer = p.from, !.nonce = nonce, !.answering = s.answering]
            = [s EXCEPT !.peer = p.from, !.nonce = nonce]
      BY <1>2 DEF ControllerState
    <3>2. ctl' = [ctl EXCEPT ![c] = [s EXCEPT !.peer = p.from, !.nonce = nonce]]
      BY <1>1, <2>2 DEF Types
    <3>3. QED
      BY <2>2, <3>1, <3>2
  <2>3. QED
    BY <1>1, <1>3, <2>1, <2>2 DEF ReceiveHello
<1>5. nonces' = IF s.nonce = None THEN nonce ELSE nonces
  BY <1>1, <1>3 DEF ReceiveHello
<1> DEFINE t == [s EXCEPT !.peer = p.from, !.nonce = nonce, !.answering = a]
<1>6. nonce \in 1..nonces' /\ nonce \in Nat /\ nonce # None
  BY <1>1, <1>2, <1>3, <1>5, NoneIsApart DEF Fits
<1>7. /\ p.guestNonce \in 1..nonces /\ p.guestNonce \in Nat /\ p.from \in Controllers
      /\ p.from # None /\ s.ticket # None /\ creator[p.ticket] = c
  BY <1>2, NoneIsApart DEF HelloIsTyped
<1>8. a \subseteq 1..nonces' /\ a \in SUBSET Nat
  <2>1. nonces' \in Nat /\ nonces' >= nonces
    BY <1>2, <1>3, <1>5
  <2>2. s.answering \subseteq 1..nonces
    BY <1>1, <1>2 DEF Fits
  <2>3. 1..nonces \subseteq 1..nonces' /\ 1..nonces' \subseteq Nat
    BY <1>2, <2>1
  <2>4. QED
    BY <1>4, <1>7, <2>2, <2>3
<1>9. /\ t \in ControllerState
      /\ t.role = s.role /\ t.state = s.state /\ t.ticket = s.ticket /\ t.nonce = nonce
      /\ t.peer = p.from /\ t.key = s.key /\ t.as = s.as /\ t.counter = s.counter
      /\ t.accepted = s.accepted /\ t.answering = a /\ t.creating = s.creating
  BY <1>2, <1>6, <1>7, <1>8 DEF ControllerState
<1> HIDE DEF t
<1>10. /\ ctl' \in [Controllers -> ControllerState]
       /\ ctl'[c] = t /\ \A d \in Controllers \ {c} : ctl'[d] = ctl[d]
  BY <1>4, <1>9, OnlyOne DEF t
<1>11. GoesOn(c)
  <2>1. s.counter \in Nat
    BY <1>2, StateFields
  <2>2. \/ t.nonce = s.nonce /\ nonces' = nonces
        \/ s.nonce = None /\ nonces' = nonces + 1 /\ t.nonce = nonces'
    BY <1>3, <1>5, <1>9
  <2>3. QED
    BY <1>1, <1>9, <1>10, <2>1, <2>2 DEF GoesOn
<1>12. Fits(c)'
  BY <1>1, <1>2, <1>6, <1>7, <1>8, <1>9, <1>10 DEF Fits, AnswersAsHost
<1>13. ctl[c].answering # {} => ctl'[c].nonce = ctl[c].nonce
  BY <1>1, <1>2, <1>3, <1>9, <1>10 DEF Fits, AnswersAsHost
<1>14. QED
  BY <1>1, <1>2, <1>4, <1>6, <1>7, <1>9, <1>10, <1>11, <1>12, <1>13 DEF Moves

\* The answer is sent: the host takes a key of its ticket, the guest's nonce and
\* its own, unless it has one.
LEMMA AckSentMoves ==
  ASSUME Types, NEW c \in Controllers, AckSent(c)
  PROVE  /\ Moves(c) /\ Fits(c)' /\ UNCHANGED <<creator, nonces, hellos, sealed, sent, shown>>
         /\ ctl'[c].nonce = ctl[c].nonce /\ ctl'[c].ticket = ctl[c].ticket
         /\ ctl'[c].answering \subseteq ctl[c].answering
         /\ ctl[c].answering # {} /\ ctl[c].ticket \in DOMAIN creator
         /\ ctl[c].key = None =>
              /\ ctl'[c].as = "host"
              /\ \E n \in ctl[c].answering : ctl'[c].key = <<ctl[c].ticket, n, ctl[c].nonce>>
<1>1. PICK s : s = ctl[c]
  OBVIOUS
<1>2. UNCHANGED <<creator, nonces, hellos, sealed, sent, shown>>
  BY DEF AckSent
<1>3. PICK n \in s.answering :
        LET r == [s EXCEPT !.answering = s.answering \ {n}]
        IN  ctl' = [ctl EXCEPT ![c] = Keyed(r, n, r.nonce)]
  BY <1>1 DEF AckSent
<1>4. /\ s \in ControllerState /\ Fits(c) /\ nonces \in Nat
      /\ DOMAIN creator = 1..Len(creator) /\ Len(creator) \in Nat
      /\ s.answering # {} /\ s.role = "host" /\ s.nonce # None /\ s.ticket # None
      /\ s.answering \subseteq 1..nonces /\ s.peer # None
  BY <1>1, <1>3, AllFit DEF Fits, AnswersAsHost
<1>5. n \in 1..nonces /\ n \in Nat /\ s.nonce \in 1..nonces /\ s.nonce \in Nat
      /\ s.ticket \in DOMAIN creator /\ s.ticket \in Nat
  BY <1>1, <1>4 DEF Fits
<1>6. PICK r : r = [s EXCEPT !.answering = s.answering \ {n}]
  OBVIOUS
<1> DEFINE t == Keyed(r, n, r.nonce)
<1>7. /\ t \in ControllerState /\ t.key # None /\ t.role = "host"
      /\ t.nonce = s.nonce /\ t.ticket = s.ticket /\ t.peer = s.peer
      /\ t.creating = s.creating /\ t.answering = s.answering \ {n}
      /\ s.key # None => t.key = s.key /\ t.as = s.as /\ t.counter = s.counter
                         /\ t.accepted = s.accepted
      /\ s.key = None => t.key = <<s.ticket, n, s.nonce>> /\ t.as = "host"
  <2>1. s.answering \ {n} \in SUBSET Nat
    BY <1>4, StateFields
  <2>2. /\ r \in ControllerState
        /\ r.role = s.role /\ r.ticket = s.ticket /\ r.nonce = s.nonce /\ r.peer = s.peer
        /\ r.key = s.key /\ r.as = s.as /\ r.counter = s.counter /\ r.accepted = s.accepted
        /\ r.creating = s.creating /\ r.answering = s.answering \ {n}
    BY <1>4, <1>6, <2>1 DEF ControllerState
  <2>3. r \in ControllerState /\ n \in Nat /\ r.nonce \in Nat /\ r.ticket \in Nat
    BY <1>5, <2>2
  <2>4. /\ t \in ControllerState /\ t.key # None /\ t.role = r.role
        /\ t.nonce = r.nonce /\ t.ticket = r.ticket /\ t.peer = r.peer
        /\ t.creating = r.creating /\ t.answering = r.answering
        /\ r.key # None => t.key = r.key /\ t.as = r.as /\ t.counter = r.counter
                           /\ t.accepted = r.accepted
        /\ r.key = None => t.key = <<r.ticket, n, r.nonce>> /\ t.as = r.role
    BY <2>3, KeyedState, ZenonT(60)
  <2> HIDE DEF t
  <2>5. QED
    BY <1>4, <2>2, <2>4
<1>8. ctl' = [ctl EXCEPT ![c] = t]
  BY <1>3, <1>6
<1> HIDE DEF t
<1>9. /\ ctl' \in [Controllers -> ControllerState]
      /\ ctl'[c] = t /\ \A d \in Controllers \ {c} : ctl'[d] = ctl[d]
  BY <1>7, <1>8, OnlyOne
<1>10. GoesOn(c)
  <2>1. s.counter \in Nat
    BY <1>4, StateFields
  <2>2. s.key = None => t.as \in Roles /\ t.nonce = Own(t.key, t.as)
    BY <1>7 DEF Own, Roles
  <2>3. QED
    BY <1>1, <1>2, <1>4, <1>7, <1>9, <2>1, <2>2 DEF GoesOn
<1>11. Fits(c)'
  BY <1>1, <1>2, <1>4, <1>7, <1>9 DEF Fits, AnswersAsHost
<1>12. QED
  BY <1>1, <1>2, <1>4, <1>5, <1>7, <1>9, <1>10, <1>11 DEF Moves

\* HELLO_ACK: the guest takes or keeps a key, of the nonce that it has.
LEMMA HelloAckMoves ==
  ASSUME Types, NEW c \in Controllers, NEW p \in hellos, ReceiveHelloAck(c, p)
  PROVE  /\ Moves(c) /\ Fits(c)' /\ UNCHANGED <<creator, nonces, hellos>>
         /\ p.type = "HELLO_ACK" /\ p.ticket \in DOMAIN creator /\ ctl'[c].answering = {}
         /\ ctl[c].key = None =>
              ctl'[c].key = <<p.ticket, p.guestNonce, p.hostNonce>> /\ ctl'[c].as = "guest"
<1>1. PICK s : s = ctl[c]
  OBVIOUS
<1>2. /\ s \in ControllerState /\ Fits(c) /\ nonces \in Nat
      /\ DOMAIN creator = 1..Len(creator) /\ Len(creator) \in Nat
      /\ HelloIsTyped(p) /\ p.ticket = s.ticket /\ s.role = "guest"
      /\ p.type = "HELLO_ACK" /\ s.nonce # None /\ p.guestNonce = s.nonce
      /\ UNCHANGED hellos /\ s.answering = {}
  BY <1>1, AllFit DEF Types, ReceiveHelloAck, AnswersMe, Fits, AnswersAsHost
<1>3. PICK r : r = [s EXCEPT !.peer = p.from]
  OBVIOUS
<1> DEFINE t == Keyed(r, s.nonce, p.hostNonce)
<1>4. ctl' = [ctl EXCEPT ![c] = t] /\ UNCHANGED <<creator, nonces>>
  BY <1>1, <1>3 DEF ReceiveHelloAck
<1>5. s.nonce \in 1..nonces /\ s.nonce \in Nat
  BY <1>1, <1>2 DEF Fits
<1>6. p.hostNonce \in Nat /\ s.ticket \in Nat /\ p.from \in Controllers /\ p.from # None
  BY <1>2, NoneIsApart DEF HelloIsTyped
<1>7. /\ t \in ControllerState /\ t.key # None
      /\ t.nonce = s.nonce /\ t.ticket = s.ticket /\ t.peer = p.from
      /\ t.creating = s.creating /\ t.answering = {}
      /\ s.key # None => t.key = s.key /\ t.as = s.as /\ t.counter = s.counter
                         /\ t.accepted = s.accepted
      /\ s.key = None => t.key = <<s.ticket, s.nonce, p.hostNonce>> /\ t.as = "guest"
  <2>1. /\ r \in ControllerState
        /\ r.role = s.role /\ r.ticket = s.ticket /\ r.nonce = s.nonce /\ r.peer = p.from
        /\ r.key = s.key /\ r.as = s.as /\ r.counter = s.counter
        /\ r.accepted = s.accepted /\ r.creating = s.creating
        /\ r.answering = s.answering
    BY <1>2, <1>3, <1>5, <1>6 DEF ControllerState
  <2>2. r \in ControllerState /\ s.nonce \in Nat /\ p.hostNonce \in Nat /\ r.ticket \in Nat
    BY <2>1, <1>2, <1>3, <1>5, <1>6
  <2>3. /\ t \in ControllerState /\ t.key # None
        /\ t.nonce = r.nonce /\ t.ticket = r.ticket /\ t.peer = r.peer
        /\ t.creating = r.creating /\ t.answering = r.answering
        /\ r.key # None => t.key = r.key /\ t.as = r.as /\ t.counter = r.counter
                           /\ t.accepted = r.accepted
        /\ r.key = None => t.key = <<r.ticket, s.nonce, p.hostNonce>> /\ t.as = r.role
    BY <2>2, KeyedState, ZenonT(60)
  <2> HIDE DEF t
  <2>4. QED
    BY <1>2, <1>3, <1>5, <1>6, <2>1, <2>3
<1> HIDE DEF t
<1>8. /\ ctl' \in [Controllers -> ControllerState]
      /\ ctl'[c] = t /\ \A d \in Controllers \ {c} : ctl'[d] = ctl[d]
  BY <1>4, <1>7, OnlyOne
<1>9. GoesOn(c)
  <2>1. s.counter \in Nat
    BY <1>2, StateFields
  <2>2. s.key = None => t.as \in Roles /\ t.nonce = Own(t.key, t.as)
    BY <1>7 DEF Own, Roles
  <2>3. QED
    BY <1>1, <1>2, <1>4, <1>7, <1>8, <2>1, <2>2 DEF GoesOn
<1>10. Fits(c)'
  BY <1>1, <1>2, <1>4, <1>5, <1>6, <1>7, <1>8 DEF Fits, AnswersAsHost
<1>11. QED
  BY <1>1, <1>2, <1>4, <1>7, <1>8, <1>9, <1>10 DEF Moves, HelloIsTyped

\* A message or an acknowledgement: the counter, and the window, go forward.
LEMMA MessageMoves ==
  ASSUME Types, NEW c \in Controllers,
         SendMessage(c) \/ \E p \in sealed : ReceiveChat(c, p)
  PROVE  /\ Moves(c) /\ Fits(c)'
         /\ ctl[c].key # None /\ ctl[c].key \in Keys /\ ctl[c].counter \in Nat
         /\ ctl'[c].counter = ctl[c].counter + 1
         /\ ctl'[c].key = ctl[c].key /\ ctl'[c].as = ctl[c].as
         /\ ctl'[c].nonce = ctl[c].nonce /\ nonces' = nonces
         /\ ctl'[c].ticket = ctl[c].ticket /\ ctl'[c].answering = ctl[c].answering
         /\ UNCHANGED <<creator, hellos>>
<1> DEFINE s == ctl[c]
<1>0. s \in ControllerState /\ Fits(c) /\ nonces \in Nat /\ s.counter \in Nat
  BY AllFit, StateFields
<1>1. PICK a \in SUBSET Nat :
        /\ ctl' = [ctl EXCEPT ![c].accepted = a, ![c].counter = @ + 1]
        /\ s.accepted \subseteq a
        /\ UNCHANGED <<creator, nonces, hellos>>
        /\ s.key # None
  <2>1. CASE SendMessage(c)
    <3>1. s.accepted \in SUBSET Nat /\ s.key # None
      BY <1>0, <2>1, StateFields DEF SendMessage, Fits
    <3>2. ctl' = [ctl EXCEPT ![c].accepted = s.accepted, ![c].counter = @ + 1]
      BY <1>0, <2>1 DEF SendMessage, Types, ControllerState
    <3>3. QED
      BY <2>1, <3>1, <3>2 DEF SendMessage
  <2>2. ASSUME NEW p \in sealed, ReceiveChat(c, p)
        PROVE  \E a \in SUBSET Nat :
                 /\ ctl' = [ctl EXCEPT ![c].accepted = a, ![c].counter = @ + 1]
                 /\ s.accepted \subseteq a
                 /\ UNCHANGED <<creator, nonces, hellos>>
                 /\ s.key # None
    <3>1. p.counter \in Nat /\ p.key \in Keys /\ p.key # None
      BY NoneIsApart DEF Types, PacketIsTyped
    <3>2. s.accepted \cup {p.counter} \in SUBSET Nat
      BY <1>0, <3>1, StateFields
    <3>3. /\ ctl' = [ctl EXCEPT ![c].accepted = s.accepted \cup {p.counter},
                                ![c].counter = @ + 1]
          /\ UNCHANGED <<creator, nonces, hellos>>
      BY <2>2 DEF ReceiveChat
    <3>4. s.key # None
      BY <2>2, <3>1 DEF ReceiveChat, Opens
    <3>5. QED
      BY <3>2, <3>3, <3>4
  <2>3. QED
    BY <2>1, <2>2
<1> DEFINE t == [s EXCEPT !.accepted = a, !.counter = @ + 1]
<1>2. t \in ControllerState
  <2>1. s.counter + 1 \in Nat
    BY <1>0
  <2>2. QED
    BY <1>0, <2>1 DEF ControllerState
<1>3. /\ t.role = s.role /\ t.ticket = s.ticket /\ t.nonce = s.nonce /\ t.peer = s.peer
      /\ t.key = s.key /\ t.as = s.as /\ t.counter = s.counter + 1
      /\ t.accepted = a /\ t.creating = s.creating /\ t.state = s.state
      /\ t.answering = s.answering
  BY <1>0 DEF ControllerState
<1>4. ctl' = [ctl EXCEPT ![c] = t]
  BY <1>1 DEF Types
<1>5. /\ ctl' \in [Controllers -> ControllerState]
      /\ ctl'[c] = t /\ \A d \in Controllers \ {c} : ctl'[d] = ctl[d]
  BY <1>2, <1>4, OnlyOne
<1>6. s.key \in Keys
  BY <1>0, <1>1, StateFields
<1> HIDE DEF t, s
<1>7. ctl[c] = s
  BY DEF s
<1>8. GoesOn(c)
  <2>1. t.counter >= s.counter /\ nonces' = nonces
    BY <1>0, <1>1, <1>3
  <2>2. QED
    BY <1>1, <1>3, <1>5, <1>7, <2>1 DEF GoesOn
<1>9. Fits(c)'
  BY <1>0, <1>1, <1>3, <1>5, <1>7 DEF Fits, AnswersAsHost
<1>10. QED
  BY <1>0, <1>1, <1>2, <1>3, <1>5, <1>6, <1>7, <1>8, <1>9 DEF Moves

-----------------------------------------------------------------------------
(***************************************************************************)
(* Every step keeps the types, and the invariants after them.              *)
(***************************************************************************)

\* The side of a key has a nonce that is a number.
LEMMA OwnIsNat ==
  ASSUME NEW key \in Keys, NEW role \in Roles
  PROVE  /\ Own(key, role) \in Nat /\ Own(key, role) # None /\ key # None
         /\ Other(role) \in Roles /\ Other(role) # role
         /\ \A r \in Roles : r # role => r = Other(role)
BY NoneIsApart DEF Keys, Roles, Own, Other

\* A controller with a key has the nonce of its side.
LEMMA KeyedHasNonce ==
  ASSUME Types, NoncesAreOwned, NEW c \in Controllers, ctl[c].key # None
  PROVE  /\ ctl[c].key \in Keys /\ ctl[c].as \in Roles
         /\ ctl[c].nonce = Own(ctl[c].key, ctl[c].as)
         /\ ctl[c].nonce \in 1..nonces /\ ctl[c].nonce # None
<1>1. Fits(c) /\ ctl[c].key \in Keys
  BY AllFit, StateFields
<1>2. ctl[c].as \in Roles /\ ctl[c].nonce = Own(ctl[c].key, ctl[c].as)
  BY DEF NoncesAreOwned
<1>3. QED
  BY <1>1, <1>2, OwnIsNat DEF Fits

Acts(c) ==
  \/ UserActs(c) \/ AckSent(c) \/ SendMessage(c)
  \/ \E p \in hellos : ReceiveHello(c, p) \/ ReceiveHelloAck(c, p)
  \/ \E p \in sealed : ReceiveChat(c, p)

\* A step is one controller's.
LEMMA SomeoneActs == ASSUME Next PROVE \E c \in Controllers : Acts(c)
BY DEF Next, Acts, UserActs

\* A step changes one controller, and forward.
LEMMA WhoActsMoves ==
  ASSUME Types, NEW c \in Controllers, Acts(c)
  PROVE  Moves(c) /\ Fits(c)'
BY UserMoves, HelloMoves, AckSentMoves, HelloAckMoves, MessageMoves DEF Acts, UserMoved

\* Nothing that was used is used up again, and nothing in flight is lost.
LEMMA Grows ==
  ASSUME Types, NEW c \in Controllers, Acts(c)
  PROVE  /\ creator' \in Seq(Controllers) /\ Len(creator') <= MaxTickets
         /\ DOMAIN creator \subseteq DOMAIN creator'
         /\ \A t \in DOMAIN creator : creator'[t] = creator[t]
         /\ nonces' \in nonces..MaxNonces /\ sent' \in sent..MaxMessages
         /\ hellos \subseteq hellos' /\ sealed \subseteq sealed'
<1>0. /\ creator \in Seq(Controllers) /\ Len(creator) <= MaxTickets
      /\ nonces \in 0..MaxNonces /\ sent \in 0..MaxMessages
      /\ MaxTickets \in Nat /\ MaxNonces \in Nat /\ MaxMessages \in Nat
      /\ DOMAIN creator = 1..Len(creator) /\ Len(creator) \in Nat
  BY AllFit, SessionAssumption DEF Types, TypeOK
<1>1. CASE CreateSession(c) \/ CreateFails(c) \/ Disconnect(c)
  <2>1. UNCHANGED <<creator, nonces, hellos, sealed, sent>>
    BY <1>1 DEF CreateSession, CreateFails, Disconnect
  <2>2. QED
    BY <1>0, <2>1
<1>2. CASE TicketIsMade(c)
  <2>1. creator' = Append(creator, c) /\ Len(creator) < MaxTickets
        /\ UNCHANGED <<nonces, hellos, sealed, sent>>
    BY <1>2 DEF TicketIsMade
  <2>2. creator' \in Seq(Controllers) /\ Len(creator') = Len(creator) + 1
    BY <1>0, <2>1
  <2>3. DOMAIN creator' = 1..Len(creator')
    BY <2>2
  <2>4. /\ DOMAIN creator \subseteq DOMAIN creator' /\ Len(creator') <= MaxTickets
        /\ \A t \in DOMAIN creator : creator'[t] = creator[t]
    BY <1>0, <2>1, <2>2, <2>3
  <2>5. QED
    BY <1>0, <2>1, <2>2, <2>4
<1>3. CASE JoinSession(c)
  <2>1. /\ UNCHANGED <<creator, sealed, sent>> /\ hellos \subseteq hellos'
        /\ nonces' = nonces \/ (nonces' = nonces + 1 /\ nonces + 1 <= MaxNonces)
    BY <1>3 DEF JoinSession
  <2>2. QED
    BY <1>0, <2>1
<1>4. ASSUME NEW p \in hellos, ReceiveHello(c, p)
      PROVE  /\ UNCHANGED <<creator, sealed, sent>> /\ hellos \subseteq hellos'
             /\ nonces' \in nonces..MaxNonces
  <2>1. /\ UNCHANGED <<creator, sealed, sent>> /\ hellos \subseteq hellos'
        /\ nonces' = nonces \/ (nonces' = nonces + 1 /\ nonces + 1 <= MaxNonces)
    BY <1>4 DEF ReceiveHello
  <2>2. QED
    BY <1>0, <2>1
<1>5. ASSUME NEW p \in hellos, ReceiveHelloAck(c, p)
      PROVE  UNCHANGED <<creator, nonces, hellos, sealed, sent>>
  BY <1>5 DEF ReceiveHelloAck
<1>6. CASE SendMessage(c)
  <2>1. /\ UNCHANGED <<creator, nonces, hellos>> /\ sealed \subseteq sealed'
        /\ sent < MaxMessages /\ sent' = sent + 1
    BY <1>6 DEF SendMessage
  <2>2. QED
    BY <1>0, <2>1
<1>7. ASSUME NEW p \in sealed, ReceiveChat(c, p)
      PROVE  UNCHANGED <<creator, nonces, hellos, sent>> /\ sealed \subseteq sealed'
  BY <1>7 DEF ReceiveChat
<1>8. CASE AckSent(c)
  BY <1>0, <1>8, AckSentMoves
<1>9. QED
  BY <1>0, <1>1, <1>2, <1>3, <1>4, <1>5, <1>6, <1>7, <1>8 DEF Acts, UserActs

\* Which hellos a step adds.
LEMMA NewHellosAreTyped ==
  ASSUME Types, NEW c \in Controllers, Acts(c), NEW p \in hellos' \ hellos
  PROVE  HelloIsTyped(p)'
<1>0. DOMAIN creator \subseteq DOMAIN creator' /\ nonces' \in nonces..MaxNonces /\ nonces \in Nat
      /\ creator \in Seq(Controllers) /\ \A t \in DOMAIN creator : creator'[t] = creator[t]
  BY Grows, AllFit
<1>1. CASE JoinSession(c)
  <2>1. PICK t, nonce :
          /\ t \in DOMAIN creator
          /\ p = Hello(c, t, nonce) /\ ctl'[c].nonce = nonce
          /\ nonce = nonces + 1 \/ nonce # None
    <3>1. PICK t, nonce :
            /\ t \in DOMAIN creator
            /\ hellos' = hellos \cup {Hello(c, t, nonce)}
            /\ nonce = IF ctl[c].nonce = None THEN nonces + 1 ELSE ctl[c].nonce
            /\ ctl' = [ctl EXCEPT ![c].role = "guest", ![c].state = "connecting",
                         ![c].open = TRUE, ![c].ticket = t, ![c].nonce = nonce]
      BY <1>1 DEF JoinSession
    <3>2. ctl'[c].nonce = nonce
      <4>1. ctl[c] \in ControllerState
        BY AllFit
      <4>2. QED
        BY <3>1, <4>1 DEF Types, ControllerState
    <3>3. QED
      BY <3>1, <3>2
  <2>2. nonce \in 1..nonces'
    <3>1. nonce # None
      BY <1>0, <2>1, NoneIsApart
    <3>2. QED
      BY <2>1, <3>1, WhoActsMoves DEF Fits
  <2>3. creator[t] \in Controllers
    BY <1>0, <2>1
  <2>4. QED
    BY <1>0, <2>1, <2>2, <2>3 DEF Hello, HelloIsTyped
<1>2. ASSUME NEW q \in hellos, ReceiveHello(c, q)
      PROVE  HelloIsTyped(p)'
  <2>1. p = HelloAck(q, ctl'[c].nonce) /\ ctl'[c].nonce \in 1..nonces'
    BY <1>2, HelloMoves
  <2>2. HelloIsTyped(q)
    BY DEF Types
  <2>3. q.guestNonce \in 1..nonces' /\ q.ticket \in DOMAIN creator'
    BY <1>0, <1>2, <2>2, HelloMoves DEF HelloIsTyped
  <2>4. QED
    BY <2>1, <2>2, <2>3 DEF HelloAck, HelloIsTyped
<1>3. QED
  BY <1>1, <1>2 DEF Acts, UserActs, CreateSession, TicketIsMade, CreateFails, Disconnect,
     AckSent, ReceiveHelloAck, SendMessage, ReceiveChat

\* What a step seals is under the key of who acts, with the next counter; a chat
\* message is a new one, and an acknowledgement goes with the window's message.
SealsNext(c, p) ==
  /\ ctl[c].key # None
  /\ p.key = ctl[c].key /\ p.role = ctl[c].as /\ p.counter = ctl[c].counter + 1

\* Only a message or its acknowledgement is sealed.
LEMMA WhatIsSealed ==
  ASSUME Types, NoncesAreOwned, NEW c \in Controllers, Acts(c)
  PROVE  \/ UNCHANGED <<sealed, sent, shown>>
         \/ \E p : /\ sealed' = sealed \cup {p} /\ SealsNext(c, p) /\ PacketIsTyped(p)'
                  /\ \/ /\ SendMessage(c) /\ UNCHANGED shown
                        /\ p.kind = "chat" /\ p.message = sent + 1 /\ sent' = sent + 1
                     \/ /\ p.kind = "ack" /\ UNCHANGED sent
                        /\ \E q \in sealed :
                             /\ ReceiveChat(c, q)
                             /\ shown' = [shown EXCEPT ![q.message] = @ + Emissions]
<1>0. sent \in Nat
  BY AllFit
<1>1. CASE SendMessage(c)
  <2>1. PICK p : p = Seal(ctl[c], "chat", sent')
    OBVIOUS
  <2>2. sealed' = sealed \cup {p} /\ sent' = sent + 1 /\ UNCHANGED shown
    BY <1>1, <2>1 DEF SendMessage
  <2>3. ctl[c].key # None /\ ctl[c].counter \in Nat
    BY <1>1, MessageMoves
  <2>4. /\ p.key = ctl[c].key /\ p.role = ctl[c].as /\ p.counter = ctl[c].counter + 1
        /\ p.kind = "chat" /\ p.message = sent'
    BY <2>1 DEF Seal
  <2>5. PacketIsTyped(p)'
    BY <1>0, <2>2, <2>3, <2>4, KeyedHasNonce DEF PacketIsTyped
  <2>6. QED
    BY <1>1, <2>2, <2>3, <2>4, <2>5 DEF SealsNext
<1>2. ASSUME NEW q \in sealed, ReceiveChat(c, q)
      PROVE  \E p : /\ sealed' = sealed \cup {p} /\ SealsNext(c, p) /\ PacketIsTyped(p)'
                    /\ p.kind = "ack" /\ UNCHANGED sent
                    /\ shown' = [shown EXCEPT ![q.message] = @ + Emissions]
  <2>1. PICK p : p = Seal(ctl[c], "ack", q.message)
    OBVIOUS
  <2>2. /\ sealed' = sealed \cup {p} /\ UNCHANGED sent
        /\ shown' = [shown EXCEPT ![q.message] = @ + Emissions]
    BY <1>2, <2>1 DEF ReceiveChat
  <2>3. ctl[c].key # None /\ ctl[c].counter \in Nat
    BY <1>2, MessageMoves
  <2>4. /\ p.key = ctl[c].key /\ p.role = ctl[c].as /\ p.counter = ctl[c].counter + 1
        /\ p.kind = "ack" /\ p.message = q.message
    BY <2>1 DEF Seal
  <2>5. q.message \in 1..sent
    BY DEF Types, PacketIsTyped
  <2>6. PacketIsTyped(p)'
    BY <2>2, <2>3, <2>4, <2>5, KeyedHasNonce DEF PacketIsTyped
  <2>7. QED
    BY <2>2, <2>3, <2>4, <2>6 DEF SealsNext
<1>3. UserActs(c) => UNCHANGED <<sealed, sent, shown>>
  BY DEF UserActs, CreateSession, TicketIsMade, CreateFails, JoinSession, Disconnect
<1>4. \A p \in hellos : ReceiveHello(c, p) \/ ReceiveHelloAck(c, p)
                       => UNCHANGED <<sealed, sent, shown>>
  BY DEF ReceiveHello, ReceiveHelloAck
<1>5. AckSent(c) => UNCHANGED <<sealed, sent, shown>>
  BY DEF AckSent
<1>6. QED
  BY <1>1, <1>2, <1>3, <1>4, <1>5 DEF Acts

\* A message that is shown was not shown before: the one who opens it would have
\* its counter in the window.
LEMMA ShownIsNew ==
  ASSUME Types, NoncesAreOwned, OpenedIsRemembered,
         NEW c \in Controllers, NEW p \in sealed, ReceiveChat(c, p)
  PROVE  /\ p.message \in 1..MaxMessages /\ p.message <= sent
         /\ shown[p.message] = 0
         /\ ctl[c].key = p.key /\ ctl[c].as = Other(p.role)
<1>1. /\ p.kind = "chat" /\ ctl[c].key = p.key /\ ctl[c].as # p.role
      /\ p.counter \notin ctl[c].accepted
  BY DEF ReceiveChat, Opens
<1>2. p.key \in Keys /\ p.role \in Roles /\ p.message \in 1..sent /\ sent \in 0..MaxMessages
  BY DEF Types, TypeOK, PacketIsTyped
<1>3. /\ ctl[c].as \in Roles /\ ctl[c].nonce = Own(p.key, ctl[c].as)
      /\ ctl[c].as = Other(p.role)
  BY <1>1, <1>2, KeyedHasNonce, NoneIsApart, OwnIsNat
<1>4. shown[p.message] = 0
  BY <1>1, <1>2, <1>3 DEF OpenedIsRemembered
<1>5. QED
  BY <1>1, <1>2, <1>3, <1>4, SessionAssumption

\* Every field keeps its type; a message that is shown was not shown.
LEMMA TypesAreKept ==
  ASSUME Types, NoncesAreOwned, OpenedIsRemembered, NEW c \in Controllers, Acts(c)
  PROVE  Types'
<1>1. Moves(c) /\ Fits(c)'
  BY WhoActsMoves
<1>2. /\ creator' \in Seq(Controllers) /\ Len(creator') <= MaxTickets
      /\ DOMAIN creator \subseteq DOMAIN creator'
      /\ \A t \in DOMAIN creator : creator'[t] = creator[t]
      /\ nonces' \in nonces..MaxNonces /\ sent' \in sent..MaxMessages
      /\ nonces \in 0..MaxNonces /\ sent \in 0..MaxMessages
      /\ MaxNonces \in Nat /\ MaxMessages \in Nat
  BY Grows, SessionAssumption DEF Types, TypeOK
<1>3. ctl' \in [Controllers -> ControllerState]
  BY <1>1 DEF Moves, Types
<1>4. \A d \in Controllers : Fits(d)'
  <2>1. TAKE d \in Controllers
  <2>2. CASE d = c
    BY <1>1, <2>2
  <2>3. CASE d # c
    <3>1. ctl'[d] = ctl[d] /\ Fits(d)
      BY <1>1, <2>3, AllFit DEF Moves
    <3>2. 1..nonces \subseteq 1..nonces'
      BY <1>2
    <3>3. QED
      BY <1>2, <3>1, <3>2 DEF Fits, AnswersAsHost
  <2>4. QED
    BY <2>2, <2>3
<1>5. TypeOK'
  <2>1. nonces' \in 0..MaxNonces /\ sent' \in 0..MaxMessages
    BY <1>2
  <2>2. ASSUME NEW d \in Controllers
        PROVE  /\ ctl'[d].role \in {"host", "guest"}
               /\ ctl'[d].state \in {"idle", "creating", "waiting", "connecting", "connected"}
    BY <1>3, StateFields DEF Roles
  <2>3. QED
    BY <1>2, <1>4, <2>1, <2>2 DEF TypeOK, Fits
<1>6. \A p \in hellos' : HelloIsTyped(p)'
  <2>1. TAKE p \in hellos'
  <2>2. CASE p \in hellos
    <3>1. HelloIsTyped(p)
      BY <2>2 DEF Types
    <3>2. QED
      BY <1>2, <3>1 DEF HelloIsTyped
  <2>3. QED
    BY <2>2, NewHellosAreTyped
<1>7. \A p \in sealed' : PacketIsTyped(p)'
  <2>1. TAKE p \in sealed'
  <2>2. CASE p \in sealed
    <3>1. PacketIsTyped(p)
      BY <2>2 DEF Types
    <3>2. QED
      BY <1>2, <3>1 DEF PacketIsTyped
  <2>3. QED
    BY <2>2, WhatIsSealed
<1>8. /\ shown' \in [1..MaxMessages -> {0, Emissions}]
      /\ \A m \in 1..MaxMessages : shown'[m] # 0 => m <= sent'
  <2>1. ASSUME NEW q \in sealed, ReceiveChat(c, q),
               shown' = [shown EXCEPT ![q.message] = @ + Emissions]
        PROVE  /\ shown' \in [1..MaxMessages -> {0, Emissions}]
               /\ \A m \in 1..MaxMessages : shown'[m] # 0 => m <= sent'
    <3>1. q.message \in 1..MaxMessages /\ q.message <= sent /\ shown[q.message] = 0
      BY <2>1, ShownIsNew
    <3>2. 0 + Emissions = Emissions
      BY DEF Emissions
    <3>3. shown' = [shown EXCEPT ![q.message] = Emissions]
      BY <2>1, <3>1, <3>2
    <3>4. QED
      BY <1>2, <3>1, <3>3 DEF Types
  <2>2. CASE UNCHANGED shown
    BY <1>2, <2>2 DEF Types
  <2>3. QED
    BY <2>1, <2>2, WhatIsSealed
<1>9. \A d \in Controllers : AnswersAsHost(d)'
  BY <1>4 DEF Fits
<1>10. QED
  BY <1>3, <1>5, <1>6, <1>7, <1>8, <1>9 DEF Types

\* A nonce that is drawn is above all that were, and a key is kept with its nonce.
LEMMA NoncesStayOwned ==
  ASSUME Types, NoncesAreOwned, NEW c \in Controllers, Acts(c)
  PROVE  NoncesAreOwned'
<1>1. Moves(c) /\ nonces \in Nat
  BY WhoActsMoves, AllFit
<1>2. ASSUME NEW d \in Controllers, d # c, ctl'[c].nonce # None, ctl'[c].nonce = ctl'[d].nonce
      PROVE  FALSE
  <2>1. ctl'[d] = ctl[d] /\ ctl[d].nonce \in 1..nonces \cup {None}
    BY <1>1, <1>2, AllFit DEF Moves, Fits
  <2>2. GoesOn(c)
    BY <1>1, <1>2 DEF Moves, Leaves
  <2>3. CASE ctl'[c].nonce = ctl[c].nonce
    BY <1>2, <2>1, <2>3 DEF NoncesAreOwned
  <2>4. CASE ctl'[c].nonce = nonces + 1
    BY <1>1, <1>2, <2>1, <2>4
  <2>5. QED
    BY <2>2, <2>3, <2>4 DEF GoesOn
<1>3. \A d, e \in Controllers : ctl'[d].nonce # None /\ ctl'[d].nonce = ctl'[e].nonce => d = e
  BY <1>1, <1>2 DEF Moves, NoncesAreOwned
<1>4. ASSUME NEW d \in Controllers, ctl'[d].key # None
      PROVE  ctl'[d].as \in Roles /\ ctl'[d].nonce = Own(ctl'[d].key, ctl'[d].as)
  <2>1. CASE d # c
    BY <1>1, <1>4, <2>1 DEF Moves, NoncesAreOwned
  <2>2. CASE d = c
    <3>1. GoesOn(c)
      BY <1>1, <1>4, <2>2 DEF Moves, Leaves
    <3>2. CASE ctl[c].key # None
      <4>1. ctl[c].as \in Roles /\ ctl[c].nonce = Own(ctl[c].key, ctl[c].as) /\ ctl[c].nonce # None
        BY <3>2, KeyedHasNonce
      <4>2. QED
        BY <2>2, <3>1, <3>2, <4>1 DEF GoesOn
    <3>3. CASE ctl[c].key = None
      BY <1>4, <2>2, <3>1, <3>3 DEF GoesOn
    <3>4. QED
      BY <3>2, <3>3
  <2>3. QED
    BY <2>1, <2>2
<1>5. QED
  BY <1>3, <1>4 DEF NoncesAreOwned

\* A nonce that is used up stays where it was, or nowhere: who has it after a step
\* had it before, and has kept the key, the counter and the window of it.
LEMMA UsedNoncesStay ==
  ASSUME Types, NoncesAreOwned, NEW c \in Controllers, Acts(c),
         NEW d \in Controllers, NEW n \in 1..nonces, ctl'[d].nonce = n
  PROVE  /\ ctl[d].nonce = n
         /\ ctl[d].key # None =>
              /\ ctl'[d].key = ctl[d].key /\ ctl'[d].as = ctl[d].as
              /\ ctl'[d].counter >= ctl[d].counter
              /\ ctl[d].accepted \subseteq ctl'[d].accepted
<1>1. Moves(c) /\ nonces \in Nat /\ ctl[d] \in ControllerState
  BY WhoActsMoves, AllFit
<1>2. n # None /\ n # nonces + 1
  BY <1>1, NoneIsApart
<1>3. CASE d # c
  <2>1. ctl[d].counter \in Nat
    BY <1>1, StateFields
  <2>2. QED
    BY <1>1, <1>3, <2>1 DEF Moves
<1>4. CASE d = c
  <2>1. GoesOn(c)
    BY <1>1, <1>2, <1>4 DEF Moves, Leaves
  <2>2. QED
    BY <1>2, <1>4, <2>1 DEF GoesOn
<1>5. QED
  BY <1>3, <1>4

\* A seal takes the next counter of who has the nonce, and nobody else has it.
LEMMA SealsStayCounted ==
  ASSUME Types, NoncesAreOwned, SealsAreCounted, NEW c \in Controllers, Acts(c)
  PROVE  SealsAreCounted'
<1>1. Moves(c) /\ nonces' \in nonces..MaxNonces /\ nonces \in Nat /\ NoncesAreOwned'
      /\ MaxNonces \in Nat
  BY WhoActsMoves, Grows, AllFit, NoncesStayOwned, SessionAssumption
<1>2. ASSUME NEW p \in sealed
      PROVE  /\ Own(p.key, p.role) \in 1..nonces'
             /\ \A d \in Controllers :
                  ctl'[d].nonce = Own(p.key, p.role) =>
                    ctl'[d].key = p.key /\ ctl'[d].as = p.role /\ p.counter <= ctl'[d].counter
  <2>1. Own(p.key, p.role) \in 1..nonces /\ p.counter \in Nat /\ p.key \in Keys
    BY DEF SealsAreCounted, Types, PacketIsTyped
  <2>2. ASSUME NEW d \in Controllers, ctl'[d].nonce = Own(p.key, p.role)
        PROVE  ctl'[d].key = p.key /\ ctl'[d].as = p.role /\ p.counter <= ctl'[d].counter
    <3>1. ctl[d].nonce = Own(p.key, p.role)
      BY <2>1, <2>2, UsedNoncesStay
    <3>2. ctl[d].key = p.key /\ ctl[d].as = p.role /\ p.counter <= ctl[d].counter
      BY <3>1 DEF SealsAreCounted
    <3>3. ctl'[d].key = p.key /\ ctl'[d].as = p.role /\ ctl'[d].counter >= ctl[d].counter
      BY <2>1, <2>2, <3>2, UsedNoncesStay, NoneIsApart
    <3>4. ctl[d].counter \in Nat /\ ctl'[d].counter \in Nat
      BY <1>1, AllFit, StateFields DEF Moves
    <3>5. QED
      BY <2>1, <3>2, <3>3, <3>4
  <2>3. QED
    BY <1>1, <2>1, <2>2
<1>3. ASSUME NEW p, SealsNext(c, p), sealed' # sealed
      PROVE  /\ Own(p.key, p.role) \in 1..nonces'
             /\ \A d \in Controllers :
                  ctl'[d].nonce = Own(p.key, p.role) =>
                    ctl'[d].key = p.key /\ ctl'[d].as = p.role /\ p.counter <= ctl'[d].counter
  <2>1. SendMessage(c) \/ \E q \in sealed : ReceiveChat(c, q)
    BY <1>3, WhatIsSealed
  <2>2. /\ ctl'[c].counter = ctl[c].counter + 1 /\ ctl'[c].key = ctl[c].key
        /\ ctl'[c].as = ctl[c].as /\ ctl'[c].nonce = ctl[c].nonce /\ ctl[c].counter \in Nat
    BY <2>1, MessageMoves
  <2>3. ctl[c].nonce = Own(p.key, p.role) /\ ctl[c].nonce \in 1..nonces /\ ctl[c].nonce # None
    BY <1>3, KeyedHasNonce DEF SealsNext
  <2>4. ASSUME NEW d \in Controllers, ctl'[d].nonce = Own(p.key, p.role)
        PROVE  d = c
    BY <1>1, <2>2, <2>3, <2>4 DEF NoncesAreOwned
  <2>5. p.counter <= ctl'[c].counter /\ ctl'[c].key = p.key /\ ctl'[c].as = p.role
    BY <1>3, <2>2 DEF SealsNext
  <2>6. QED
    BY <1>1, <2>3, <2>4, <2>5
<1>4. \A p \in sealed' : p \in sealed \/ (SealsNext(c, p) /\ sealed' # sealed)
  BY WhatIsSealed
<1>5. QED
  BY <1>2, <1>3, <1>4 DEF SealsAreCounted

\* A seal's counter is above those that were used with the nonce.
LEMMA StillSealedOnce ==
  ASSUME Types, NoncesAreOwned, SealsAreCounted, SealedOnce, NEW c \in Controllers, Acts(c)
  PROVE  SealedOnce'
<1>1. ASSUME NEW p, SealsNext(c, p), NEW q \in sealed,
             p.key = q.key, p.role = q.role, p.counter = q.counter
      PROVE  FALSE
  <2>1. ctl[c].nonce = Own(q.key, q.role)
    BY <1>1, KeyedHasNonce DEF SealsNext
  <2>2. q.counter <= ctl[c].counter
    BY <2>1 DEF SealsAreCounted
  <2>3. ctl[c].counter \in Nat
    BY AllFit, StateFields
  <2>4. QED
    BY <1>1, <2>2, <2>3 DEF SealsNext
<1>2. CASE sealed' = sealed
  BY <1>2 DEF SealedOnce
<1>3. ASSUME NEW p, sealed' = sealed \cup {p}, SealsNext(c, p)
      PROVE  SealedOnce'
  BY <1>1, <1>3 DEF SealedOnce
<1>4. QED
  BY <1>2, <1>3, WhatIsSealed

\* The acknowledgements of a message are not messages.
LEMMA MessagesStaySealedOnce ==
  ASSUME Types, NoncesAreOwned, MessagesAreSealedOnce, NEW c \in Controllers, Acts(c)
  PROVE  MessagesAreSealedOnce'
<1>1. CASE sealed' = sealed
  BY <1>1 DEF MessagesAreSealedOnce
<1>2. ASSUME NEW p, sealed' = sealed \cup {p}, p.kind = "ack" \/ p.message = sent + 1
      PROVE  MessagesAreSealedOnce'
  <2>1. \A q \in sealed : q.message # sent + 1
    BY AllFit DEF Types, PacketIsTyped
  <2>2. QED
    BY <1>2, <2>1 DEF MessagesAreSealedOnce
<1>3. QED
  BY <1>1, <1>2, WhatIsSealed

\* The window of a controller holds what was shown from its session.
LEMMA OpenedStaysRemembered ==
  ASSUME Types, NoncesAreOwned, OpenedIsRemembered, MessagesAreSealedOnce,
         NEW c \in Controllers, Acts(c)
  PROVE  OpenedIsRemembered'
<1>1. Moves(c) /\ nonces' \in nonces..MaxNonces /\ nonces \in Nat /\ NoncesAreOwned'
      /\ MaxNonces \in Nat
  BY WhoActsMoves, Grows, AllFit, NoncesStayOwned, SessionAssumption
<1> DEFINE Remembered(p) ==
             /\ Own(p.key, Other(p.role)) \in 1..nonces'
             /\ \A d \in Controllers :
                  ctl'[d].nonce = Own(p.key, Other(p.role)) =>
                    /\ ctl'[d].key = p.key /\ ctl'[d].as = Other(p.role)
                    /\ p.counter \in ctl'[d].accepted
<1>2. ASSUME NEW p \in sealed, p.kind = "chat", shown[p.message] # 0
      PROVE  Remembered(p)
  <2>1. Own(p.key, Other(p.role)) \in 1..nonces /\ p.key \in Keys
    BY <1>2 DEF OpenedIsRemembered, Types, PacketIsTyped
  <2>2. ASSUME NEW d \in Controllers, ctl'[d].nonce = Own(p.key, Other(p.role))
        PROVE  /\ ctl'[d].key = p.key /\ ctl'[d].as = Other(p.role)
               /\ p.counter \in ctl'[d].accepted
    <3>1. ctl[d].nonce = Own(p.key, Other(p.role))
      BY <2>1, <2>2, UsedNoncesStay
    <3>2. /\ ctl[d].key = p.key /\ ctl[d].as = Other(p.role)
          /\ p.counter \in ctl[d].accepted
      BY <1>2, <3>1 DEF OpenedIsRemembered
    <3>3. QED
      BY <2>1, <2>2, <3>2, UsedNoncesStay, NoneIsApart
  <2>3. QED
    BY <1>1, <2>1, <2>2
<1>3. ASSUME NEW p \in sealed, ReceiveChat(c, p)
      PROVE  Remembered(p)
  <2>1. ctl[c].key = p.key /\ ctl[c].as = Other(p.role)
    BY <1>3, ShownIsNew
  <2>2. /\ ctl'[c].key = p.key /\ ctl'[c].as = Other(p.role)
        /\ ctl'[c].nonce = ctl[c].nonce /\ ctl[c].key # None
    BY <1>3, <2>1, MessageMoves
  <2>3. /\ ctl'[c].nonce = Own(p.key, Other(p.role))
        /\ ctl'[c].nonce \in 1..nonces /\ ctl'[c].nonce # None
    BY <2>1, <2>2, KeyedHasNonce
  <2>4. \A d \in Controllers : ctl'[d].nonce = Own(p.key, Other(p.role)) => d = c
    BY <1>1, <2>3 DEF NoncesAreOwned
  <2>5. p.counter \in ctl'[c].accepted
    <3>1. ctl' = [ctl EXCEPT ![c].accepted = @ \cup {p.counter}, ![c].counter = @ + 1]
      BY <1>3 DEF ReceiveChat
    <3>2. ctl[c] \in ControllerState
      BY AllFit
    <3>3. QED
      BY <3>1, <3>2 DEF Types, ControllerState
  <2>6. QED
    BY <1>1, <2>2, <2>3, <2>4, <2>5
<1>4. ASSUME NEW p \in sealed', p.kind = "chat", shown'[p.message] # 0
      PROVE  Remembered(p)
  <2>1. CASE p \in sealed /\ shown' = shown
    BY <1>2, <1>4, <2>1
  <2>2. ASSUME NEW q \in sealed, ReceiveChat(c, q), p \in sealed,
               shown' = [shown EXCEPT ![q.message] = @ + Emissions]
        PROVE  Remembered(p)
    <3>1. CASE p.message = q.message
      <4>1. q = p
        BY <1>4, <2>2, <3>1 DEF MessagesAreSealedOnce, ReceiveChat
      <4>2. QED
        BY <1>3, <2>2, <4>1
    <3>2. CASE p.message # q.message
      <4>1. shown'[p.message] = shown[p.message]
        BY <2>2, <3>2 DEF Types
      <4>2. QED
        BY <1>2, <1>4, <2>2, <4>1
    <3>3. QED
      BY <3>1, <3>2
  <2>3. CASE p \notin sealed
    <3>1. p.message = sent + 1 /\ shown' = shown /\ sent' = sent + 1
      BY <1>4, <2>3, WhatIsSealed
    <3>2. sent' \in sent..MaxMessages /\ sent \in Nat /\ MaxMessages \in Nat
      BY Grows, AllFit, SessionAssumption
    <3>3. p.message \in 1..MaxMessages
      BY <3>1, <3>2
    <3>4. p.message <= sent
      BY <1>4, <3>1, <3>3 DEF Types
    <3>5. QED
      BY <3>1, <3>2, <3>4
  <2>4. QED
    BY <2>1, <2>2, <2>3, WhatIsSealed
<1>5. QED
  BY <1>4 DEF OpenedIsRemembered

\* An answer stays what it was: nothing in flight is lost, and a ticket names its
\* creator for ever.
LEMMA AnswersStay ==
  ASSUME Types, NEW c \in Controllers, Acts(c)
  PROVE  \A p \in hellos : p \in hellos' /\ creator'[p.ticket] = creator[p.ticket]
BY Grows DEF Types, HelloIsTyped

\* So does the answer that a key is made of.
LEMMA StillMadeOf ==
  ASSUME Types, NEW c \in Controllers, Acts(c),
         NEW k, NEW role, NEW d, \E p \in hellos : MadeOf(k, role, d, p, creator)
  PROVE  \E p \in hellos' : MadeOf(k, role, d, p, creator')
<1>1. PICK p \in hellos : MadeOf(k, role, d, p, creator)
  OBVIOUS
<1>2. p \in hellos' /\ creator'[p.ticket] = creator[p.ticket]
  BY AnswersStay
<1>3. DOMAIN creator \subseteq DOMAIN creator' /\ \A t \in DOMAIN creator : creator'[t] = creator[t]
  BY Grows
<1>4. MadeOf(k, role, d, p, creator')
  BY <1>1, <1>2, <1>3 DEF MadeOf
<1>5. QED
  BY <1>2, <1>4

\* An answer is on the network before its send is over, and the ticket is kept or
\* changed for another one of the host's.
LEMMA AnswersStaySent ==
  ASSUME Types, AnswersWereSent, NEW c \in Controllers, Acts(c)
  PROVE  AnswersWereSent'
<1>1. /\ Moves(c) /\ \A d \in Controllers : Fits(d)
      /\ \A p \in hellos : p \in hellos' /\ creator'[p.ticket] = creator[p.ticket]
      /\ \A t \in DOMAIN creator : creator'[t] = creator[t]
  BY WhoActsMoves, AllFit, AnswersStay, Grows
<1> DEFINE Sent(d, n, nonce) ==
             \E p \in hellos' : /\ p.type = "HELLO_ACK" /\ creator'[p.ticket] = d
                               /\ p.guestNonce = n /\ p.hostNonce = nonce
<1>2. ASSUME NEW d \in Controllers, ctl[d].answering # {}
      PROVE  /\ ctl[d].ticket \in DOMAIN creator /\ creator'[ctl[d].ticket] = d
             /\ \A n \in ctl[d].answering : Sent(d, n, ctl[d].nonce)
  <2>1. creator[ctl[d].ticket] = d /\ ctl[d].ticket \in DOMAIN creator
    BY <1>1, <1>2 DEF AnswersWereSent, Fits, AnswersAsHost
  <2>2. QED
    BY <1>1, <1>2, <2>1 DEF AnswersWereSent
<1>3. ASSUME ctl'[c].answering # {}
      PROVE  /\ creator'[ctl'[c].ticket] = c
             /\ \A n \in ctl'[c].answering : Sent(c, n, ctl'[c].nonce)
  <2>1. CASE UserActs(c)
    BY <1>2, <1>3, <2>1, UserMoves DEF UserMoved
  <2>2. CASE AckSent(c)
    BY <1>2, <2>2, AckSentMoves
  <2>3. CASE SendMessage(c) \/ \E p \in sealed : ReceiveChat(c, p)
    BY <1>2, <1>3, <2>3, MessageMoves
  <2>4. ASSUME NEW p \in hellos, ReceiveHello(c, p)
        PROVE  /\ creator'[ctl'[c].ticket] = c
               /\ \A n \in ctl'[c].answering : Sent(c, n, ctl'[c].nonce)
    <3>1. /\ creator' = creator /\ creator[p.ticket] = c /\ ctl'[c].ticket = p.ticket
          /\ ctl[c].answering # {} => ctl'[c].nonce = ctl[c].nonce
          /\ \/ ctl'[c].answering = ctl[c].answering
             \/ /\ HelloAck(p, ctl'[c].nonce) \in hellos'
                /\ ctl'[c].answering = ctl[c].answering \cup {p.guestNonce}
      BY <2>4, HelloMoves
    <3>2. HelloAck(p, ctl'[c].nonce) \in hellos' => Sent(c, p.guestNonce, ctl'[c].nonce)
      <4>1. PICK q : q = HelloAck(p, ctl'[c].nonce)
        OBVIOUS
      <4>2. /\ q.type = "HELLO_ACK" /\ q.ticket = p.ticket /\ q.guestNonce = p.guestNonce
            /\ q.hostNonce = ctl'[c].nonce
        BY <4>1 DEF HelloAck
      <4>3. QED
        BY <3>1, <4>1, <4>2
    <3>3. \A n \in ctl[c].answering : Sent(c, n, ctl'[c].nonce)
      BY <1>2, <3>1
    <3>4. QED
      BY <3>1, <3>2, <3>3
  <2>5. ASSUME NEW p \in hellos, ReceiveHelloAck(c, p)
        PROVE  FALSE
    BY <1>3, <2>5, HelloAckMoves
  <2>6. QED
    BY <2>1, <2>2, <2>3, <2>4, <2>5 DEF Acts
<1>4. ASSUME NEW d \in Controllers, ctl'[d].answering # {}
      PROVE  /\ creator'[ctl'[d].ticket] = d
             /\ \A n \in ctl'[d].answering : Sent(d, n, ctl'[d].nonce)
  <2>1. CASE d = c
    BY <1>3, <1>4, <2>1
  <2>2. CASE d # c
    BY <1>1, <1>2, <1>4, <2>2 DEF Moves
  <2>3. QED
    BY <2>1, <2>2
<1>5. QED
  BY <1>4 DEF AnswersWereSent

\* A key is made of an answer, when its send is over or it has arrived.
LEMMA KeysStayAnswered ==
  ASSUME Types, AnswersWereSent, KeysWereAnswered, NEW c \in Controllers, Acts(c)
  PROVE  KeysWereAnswered'
<1>1. Moves(c)
  BY WhoActsMoves
<1>2. CASE ctl'[c].key # None /\ (ctl'[c].key # ctl[c].key \/ ctl'[c].as # ctl[c].as)
  <2>1. \E p \in hellos : MadeOf(ctl'[c].key, ctl'[c].as, c, p, creator)
    <3>1. CASE UserActs(c)
      BY <1>2, <3>1, UserMoves DEF UserMoved
    <3>2. CASE SendMessage(c) \/ \E p \in sealed : ReceiveChat(c, p)
      BY <1>2, <3>2, MessageMoves
    <3>3. CASE ctl[c].key # None
      BY <1>1, <1>2, <3>3 DEF Moves, Leaves, GoesOn
    <3>4. ASSUME NEW p \in hellos, ReceiveHello(c, p)
          PROVE  FALSE
      BY <1>2, <3>4, HelloMoves
    <3>5. ASSUME NEW p \in hellos, ReceiveHelloAck(c, p), ctl[c].key = None
          PROVE  MadeOf(ctl'[c].key, ctl'[c].as, c, p, creator)
      BY <3>5, HelloAckMoves DEF MadeOf
    <3>6. CASE AckSent(c) /\ ctl[c].key = None
      <4>1. PICK n \in ctl[c].answering :
              /\ ctl'[c].key = <<ctl[c].ticket, n, ctl[c].nonce>> /\ ctl'[c].as = "host"
              /\ ctl[c].ticket \in DOMAIN creator
        BY <3>6, AckSentMoves
      <4>2. /\ creator[ctl[c].ticket] = c
            /\ \E p \in hellos : /\ p.type = "HELLO_ACK" /\ creator[p.ticket] = c
                                /\ p.guestNonce = n /\ p.hostNonce = ctl[c].nonce
        BY <4>1 DEF AnswersWereSent
      <4>3. QED
        BY <4>1, <4>2 DEF MadeOf
    <3>7. QED
      BY <3>1, <3>2, <3>3, <3>4, <3>5, <3>6 DEF Acts
  <2>2. \E p \in hellos' : MadeOf(ctl'[c].key, ctl'[c].as, c, p, creator')
    BY <2>1, StillMadeOf
  <2>3. ASSUME NEW d \in Controllers, d # c, ctl'[d].key # None
        PROVE  \E p \in hellos' : MadeOf(ctl'[d].key, ctl'[d].as, d, p, creator')
    <3>1. ctl'[d] = ctl[d]
      BY <1>1, <2>3 DEF Moves
    <3>2. \E p \in hellos : MadeOf(ctl'[d].key, ctl'[d].as, d, p, creator)
      BY <2>3, <3>1 DEF KeysWereAnswered
    <3>3. QED
      BY <3>2, StillMadeOf
  <2>4. QED
    BY <2>2, <2>3 DEF KeysWereAnswered
<1>3. CASE ~(ctl'[c].key # None /\ (ctl'[c].key # ctl[c].key \/ ctl'[c].as # ctl[c].as))
  <2>1. ASSUME NEW d \in Controllers, ctl'[d].key # None
        PROVE  \E p \in hellos' : MadeOf(ctl'[d].key, ctl'[d].as, d, p, creator')
    <3>1. ctl'[d].key = ctl[d].key /\ ctl'[d].as = ctl[d].as
      BY <1>1, <1>3, <2>1 DEF Moves
    <3>2. \E p \in hellos : MadeOf(ctl'[d].key, ctl'[d].as, d, p, creator)
      BY <2>1, <3>1 DEF KeysWereAnswered
    <3>3. QED
      BY <3>2, StillMadeOf
  <2>2. QED
    BY <2>1 DEF KeysWereAnswered
<1>4. QED
  BY <1>2, <1>3

\* Nothing is on the network at first.
LEMMA InvariantAtFirst == ASSUME Init PROVE SessionInvariant
<1>1. /\ MaxTickets \in Nat /\ MaxNonces \in Nat /\ MaxMessages \in Nat
      /\ creator \in Seq(Controllers) /\ Len(creator) = 0 /\ DOMAIN creator = {}
      /\ nonces = 0 /\ sent = 0 /\ hellos = {} /\ sealed = {}
      /\ shown = [m \in 1..MaxMessages |-> 0]
  BY SessionAssumption DEF Init
<1>2. ctl \in [Controllers -> ControllerState]
  BY DEF Init, ControllerState, Roles
<1>3. \A c \in Controllers :
        /\ ctl[c].role = "host" /\ ctl[c].state = "idle" /\ ctl[c].ticket = None
        /\ ctl[c].nonce = None /\ ctl[c].creating = 0
        /\ ctl[c].peer = None /\ ctl[c].key = None /\ ctl[c].answering = {}
  BY DEF Init
<1>4. TypeOK
  BY <1>1, <1>3 DEF TypeOK
<1>5. Types
  BY <1>1, <1>2, <1>3, <1>4 DEF Types, AnswersAsHost
<1>6. QED
  BY <1>1, <1>3, <1>5 DEF SessionInvariant, NoncesAreOwned, SealsAreCounted, SealedOnce,
     OpenedIsRemembered, MessagesAreSealedOnce, AnswersWereSent, KeysWereAnswered

\* All parts of the invariant together are kept.
LEMMA InvariantIsKept == ASSUME SessionInvariant, [Next]_vars PROVE SessionInvariant'
<1>1. ASSUME NEW c \in Controllers, Acts(c) PROVE SessionInvariant'
  BY <1>1, TypesAreKept, NoncesStayOwned, SealsStayCounted, StillSealedOnce,
     OpenedStaysRemembered, MessagesStaySealedOnce, AnswersStaySent, KeysStayAnswered
     DEF SessionInvariant
<1>2. CASE UNCHANGED vars
  BY <1>2 DEF vars, SessionInvariant, Types, TypeOK, HelloIsTyped, PacketIsTyped, NoncesAreOwned,
     SealsAreCounted, SealedOnce, OpenedIsRemembered, MessagesAreSealedOnce, AnswersAsHost,
     AnswersWereSent, KeysWereAnswered, MadeOf
<1>3. QED
  BY <1>1, <1>2, SomeoneActs

-----------------------------------------------------------------------------
\* What the other theorems rest on: no step of createSession, joinSession,
\* disconnect, the handshake or the messages breaks the invariant.
THEOREM SessionInvariantHolds == Spec => []SessionInvariant
<1>1. Init => SessionInvariant
  BY InvariantAtFirst
<1>2. SessionInvariant /\ [Next]_vars => SessionInvariant'
  BY InvariantIsKept
<1>3. QED
  BY <1>1, <1>2, PTL DEF Spec

\* The state of NativeBridgeController keeps its types, and whoever the window shows
\* the chat screen to has a peer and a key, although a host's peer comes before the
\* key and the send in between may fail: sealPacket seals what the user writes.
THEOREM SessionTypes == Spec => []TypeOK
<1>1. SessionInvariant => TypeOK
  BY DEF SessionInvariant, Types
<1>2. QED
  BY <1>1, SessionInvariantHolds, PTL

\* sealPacket never uses a nonce of AES-GCM twice with one key, however often the
\* hellos are repeated and the sessions are left and taken up again.
THEOREM NoNonceIsUsedTwice == Spec => []SealedOnce
<1>1. SessionInvariant => SealedOnce
  BY DEF SessionInvariant
<1>2. QED
  BY <1>1, SessionInvariantHolds, PTL

\* openEncryptedPacket lets each message through once, whatever was delivered again.
THEOREM MessagesAreShownOnce == Spec => []ShownOnce
<1>1. SessionInvariant => ShownOnce
  BY DEF SessionInvariant, Types, ShownOnce, Emissions
<1>2. QED
  BY <1>1, SessionInvariantHolds, PTL

\* A ticket was answered finitely often.
LEMMA AnswersAreFinite ==
  ASSUME Types, NEW t
  PROVE  IsFiniteSet(Answers(t))
<1>1. nonces \in Nat
  BY AllFit
<1>2. IsFiniteSet((1..nonces) \X (1..nonces))
  <2>1. IsFiniteSet(1..nonces)
    BY <1>1, FS_Interval
  <2>2. QED
    BY <2>1, FS_Product
<1>3. Answers(t) \subseteq (1..nonces) \X (1..nonces)
  BY DEF Answers, Types, HelloIsTyped
<1>4. QED
  BY <1>2, <1>3, FS_Subset

\* establishSessionKey gives a host and its guest one key, if the host made one
\* ticket, answered it with one pair of nonces, and neither side keeps an older key.
THEOREM TwoSidesHaveOneKey == Spec => []KeysAgree
<1>1. ASSUME SessionInvariant PROVE KeysAgree
  <2>1. SUFFICES ASSUME NEW g \in Controllers, NEW h \in Controllers, NEW t,
                        t = ctl[h].ticket,
                        ctl[g].state = "connected", ctl[h].state = "connected",
                        ctl[g].key[1] = t, ctl[h].key[1] = t,
                        {i \in DOMAIN creator : creator[i] = h} = {t},
                        Cardinality(Answers(t)) = 1
                 PROVE  ctl[g].key = ctl[h].key
    BY DEF KeysAgree
  <2>2. ctl[g].key # None /\ ctl[g].key \in Keys /\ ctl[h].key # None /\ ctl[h].key \in Keys
    BY <1>1, <2>1, AllFit, StateFields DEF SessionInvariant, Fits
  <2>3. PICK p \in hellos, q \in hellos :
          /\ MadeOf(ctl[g].key, ctl[g].as, g, p, creator)
          /\ MadeOf(ctl[h].key, ctl[h].as, h, q, creator)
    BY <1>1, <2>2 DEF SessionInvariant, KeysWereAnswered
  <2>4. q.ticket = t
    <3>1. q.ticket \in DOMAIN creator
      BY <1>1 DEF SessionInvariant, Types, HelloIsTyped
    <3>2. QED
      BY <2>1, <2>3, <3>1 DEF MadeOf
  <2>5. CASE ctl[g].as = "host"
    <3>1. g = h
      BY <2>1, <2>3, <2>5 DEF MadeOf
    <3>2. QED
      BY <3>1
  <2>6. CASE ctl[g].as # "host"
    <3>1. p.ticket = t
      BY <2>1, <2>3, <2>6 DEF MadeOf
    <3>2. /\ <<p.guestNonce, p.hostNonce>> \in Answers(t)
          /\ <<q.guestNonce, q.hostNonce>> \in Answers(t)
      BY <2>3, <2>4, <3>1 DEF Answers, MadeOf
    <3>3. <<p.guestNonce, p.hostNonce>> = <<q.guestNonce, q.hostNonce>>
      BY <1>1, <2>1, <3>2, AnswersAreFinite, FS_Singleton DEF SessionInvariant
    <3>4. ctl[g].key[2] = ctl[h].key[2] /\ ctl[g].key[3] = ctl[h].key[3]
      BY <2>3, <3>3 DEF MadeOf
    <3>5. QED
      BY <2>1, <2>2, <3>4 DEF Keys
  <2>7. QED
    BY <2>5, <2>6
<1>2. QED
  BY <1>1, SessionInvariantHolds, PTL
=============================================================================
