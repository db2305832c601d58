------------------------------ MODULE UdpSession ------------------------------
(***************************************************************************)
(* Sessions of the V2 UDP transport: each controller may create a session  *)
(* or join one by its ticket, the hello exchange gives both sides a key,   *)
(* and chat messages go under it.  The keys, counters and nonces decide    *)
(* what a late, repeated or replayed datagram can do.                      *)
(*                                                                         *)
(* A nonce or a ticket is a number never used before; a key is what it is  *)
(* derived from.  Every datagram stays in flight for ever, which covers    *)
(* loss, reordering and duplication.  Only who has the ticket can make a   *)
(* hello or its answer, and only who has the key a sealed packet.          *)
(***************************************************************************)
EXTENDS Integers, Sequences, FiniteSets

CONSTANTS
  Controllers,   \* the devices
  None,          \* no ticket, nonce, peer or key
  MaxTickets,    \* bound: sessions that are created
  MaxNonces,     \* bound: handshake nonces
  MaxMessages,   \* bound: chat messages
  JoinsOwn       \* bound: whether a user may join by a ticket of his own

ASSUME SessionAssumption ==
  /\ MaxTickets \in Nat /\ MaxNonces \in Nat /\ MaxMessages \in Nat
  /\ JoinsOwn \in BOOLEAN
  /\ None \notin Controllers \cup Nat \cup (Nat \X Nat \X Nat)

VARIABLES
  ctl,      \* each controller
  creator,  \* creator[t]: whose endpoint ticket t names
  nonces,   \* handshake nonces used so far
  hellos,   \* HELLO and HELLO_ACK datagrams
  sealed,   \* PKT_ENCRYPTED datagrams
  sent,     \* chat messages sent so far
  shown     \* how often the windows' lists hold each message

vars == <<ctl, creator, nonces, hellos, sealed, sent, shown>>

\* An event reaches the window from the controller and again from main.cjs.
Emissions == 2

\* The state after disconnect, which is also the first one: the role, the
\* pending createSession calls and their results stay.  Closing the socket ends
\* its sends, and one that ends after all finds no ticket to go on with.
Cleared(s) ==
  [s EXCEPT !.state = "idle", !.open = FALSE, !.ticket = None, !.nonce = None,
     !.peer = None, !.key = None, !.as = None, !.counter = 0, !.accepted = {},
     !.answering = {}]

Init ==
  /\ ctl = [c \in Controllers |->
              [role |-> "host", state |-> "idle", open |-> FALSE, ticket |-> None,
               nonce |-> None, peer |-> None, key |-> None, as |-> None, counter |-> 0,
               accepted |-> {}, answering |-> {}, creating |-> 0]]
  /\ creator = <<>>
  /\ nonces = 0
  /\ hellos = {}
  /\ sealed = {}
  /\ sent = 0
  /\ shown = [m \in 1..MaxMessages |-> 0]

----------------------------------------------------------------------------
\* createSession, joinSession and disconnect, as the window lets the user.

\* createSession up to the STUN answers.
CreateSession(c) ==
  /\ ctl[c].state = "idle"
  /\ ctl[c].creating + Len(creator) < MaxTickets
  /\ ctl' = [ctl EXCEPT ![c].role = "host", ![c].state = "creating",
               ![c].open = TRUE, ![c].creating = @ + 1]
  /\ UNCHANGED <<creator, nonces, hellos, sealed, sent, shown>>

\* createSession goes on after gatherNativeCandidates, whatever happened since.
TicketIsMade(c) ==
  /\ ctl[c].creating > 0
  /\ Len(creator) < MaxTickets
  /\ creator' = Append(creator, c)
  /\ ctl' = [ctl EXCEPT ![c].ticket = Len(creator'), ![c].state = "waiting",
               ![c].creating = @ - 1]
  /\ UNCHANGED <<nonces, hellos, sealed, sent, shown>>

\* No public endpoint, or the socket was closed meanwhile; the store goes idle.
CreateFails(c) ==
  /\ ctl[c].creating > 0
  /\ ctl' = [ctl EXCEPT ![c].state = "idle", ![c].creating = @ - 1]
  /\ UNCHANGED <<creator, nonces, hellos, sealed, sent, shown>>

\* sendHelloTo: the ticket authenticates the guest's nonce.
Hello(c, t, nonce) ==
  [type |-> "HELLO", from |-> c, to |-> creator[t], ticket |-> t, guestNonce |-> nonce]

\* joinSession and the first probe of startHolePunch, which the later ones only
\* repeat.  By the time a person has typed a code the sends are over that were
\* under way when the window went idle.
JoinSession(c) ==
  /\ ctl[c].state = "idle"
  /\ ctl[c].answering = {}
  /\ \E t \in DOMAIN creator :
       /\ JoinsOwn \/ creator[t] # c
       /\ LET fresh == ctl[c].nonce = None
              nonce == IF fresh THEN nonces + 1 ELSE ctl[c].nonce
          IN /\ nonce <= MaxNonces
             /\ nonces' = IF fresh THEN nonce ELSE nonces
             /\ ctl' = [ctl EXCEPT ![c].role = "guest", ![c].state = "connecting",
                          ![c].open = TRUE, ![c].ticket = t, ![c].nonce = nonce]
             /\ hellos' = hellos \cup {Hello(c, t, nonce)}
  /\ UNCHANGED <<creator, sealed, sent, shown>>

Disconnect(c) ==
  /\ ctl[c].state # "idle"
  /\ ctl' = [ctl EXCEPT ![c] = Cleared(@)]
  /\ UNCHANGED <<creator, nonces, hellos, sealed, sent, shown>>

----------------------------------------------------------------------------
\* The handshake.

\* Mutant of Keyed: a repeated hello or answer establishes the key again.
KeyedAgain(s, guestNonce, hostNonce) ==
  [s EXCEPT !.key = <<s.ticket, guestNonce, hostNonce>>, !.as = s.role,
     !.counter = 0, !.accepted = {}, !.state = "connected"]

\* establishSessionKey, unless there is a key already, and 'connected'.  The
\* nonce prefixes are those of the role of now, whatever it will be later.
Keyed(s, guestNonce, hostNonce) ==
  IF s.key # None THEN [s EXCEPT !.state = "connected"]
  ELSE [s EXCEPT !.key = <<s.ticket, guestNonce, hostNonce>>, !.as = s.role,
          !.counter = 0, !.accepted = {}, !.state = "connected"]

\* sendHelloAck: the ticket authenticates both nonces.
HelloAck(p, nonce) ==
  [type |-> "HELLO_ACK", from |-> p.to, to |-> p.from, ticket |-> p.ticket,
   guestNonce |-> p.guestNonce, hostNonce |-> nonce]

\* Mutant of ReceiveHello: 'connected' does not wait for the send and the key.
ConnectsOnHello(c, p) ==
  /\ p.type = "HELLO" /\ p.to = c
  /\ ctl[c].open /\ ctl[c].role = "host" /\ ctl[c].ticket = p.ticket
  /\ LET nonce == IF ctl[c].nonce = None THEN nonces + 1 ELSE ctl[c].nonce
     IN /\ nonce <= MaxNonces
        /\ nonces' = IF ctl[c].nonce = None THEN nonce ELSE nonces
        /\ hellos' = hellos \cup {HelloAck(p, nonce)}
        /\ ctl' = [ctl EXCEPT ![c].peer = p.from, ![c].nonce = nonce,
                     ![c].answering = @ \cup {p.guestNonce}, ![c].state = "connected"]
  /\ UNCHANGED <<creator, sealed, sent, shown>>

\* HELLO at a host with that ticket: any number of times, from any guest.  The
\* peer is taken at once; the answer, with the nonce that the host keeps for the
\* session, goes out or its send fails, and nobody hears of that.
ReceiveHello(c, p) ==
  /\ p.type = "HELLO"
  /\ p.to = c
  /\ ctl[c].open
  /\ ctl[c].role = "host"
  /\ ctl[c].ticket = p.ticket
  /\ LET fresh == ctl[c].nonce = None
         nonce == IF fresh THEN nonces + 1 ELSE ctl[c].nonce
     IN /\ nonce <= MaxNonces
        /\ nonces' = IF fresh THEN nonce ELSE nonces
        /\ \/ /\ hellos' = hellos \cup {HelloAck(p, nonce)}
              /\ ctl' = [ctl EXCEPT ![c].peer = p.from, ![c].nonce = nonce,
                           ![c].answering = @ \cup {p.guestNonce}]
           \/ /\ ctl' = [ctl EXCEPT ![c].peer = p.from, ![c].nonce = nonce]
              /\ UNCHANGED hellos
  /\ UNCHANGED <<creator, sealed, sent, shown>>

\* The send of an answer is over, and only now there is a key: that of the guest
\* it answered, with the ticket of now, whatever came in between.
AckSent(c) ==
  /\ \E guestNonce \in ctl[c].answering :
       LET s == [ctl[c] EXCEPT !.answering = @ \ {guestNonce}]
       IN ctl' = [ctl EXCEPT ![c] = Keyed(s, guestNonce, s.nonce)]
  /\ UNCHANGED <<creator, nonces, hellos, sealed, sent, shown>>

\* Mutant of AnswersMe: the authenticator does not cover the guest's nonce.
AnswersTicket(c, p) == p.ticket = ctl[c].ticket

\* The authenticator of a HELLO_ACK covers the ticket and both nonces.
AnswersMe(c, p) == p.ticket = ctl[c].ticket /\ p.guestNonce = ctl[c].nonce

\* HELLO_ACK at the guest whose hello it answers.
ReceiveHelloAck(c, p) ==
  /\ p.type = "HELLO_ACK"
  /\ p.to = c
  /\ ctl[c].open
  /\ ctl[c].role = "guest"
  /\ ctl[c].nonce # None
  /\ AnswersMe(c, p)
  /\ ctl' = [ctl EXCEPT ![c] =
               Keyed([@ EXCEPT !.peer = p.from], ctl[c].nonce, p.hostNonce)]
  /\ UNCHANGED <<creator, nonces, hellos, sealed, sent, shown>>

----------------------------------------------------------------------------
\* Messages.

\* sealPacket and send of a controller's state s; nr tells packets apart.
Seal(s, kind, m) ==
  [nr |-> Cardinality(sealed) + 1, key |-> s.key, role |-> s.as,
   counter |-> s.counter + 1, to |-> s.peer, kind |-> kind, message |-> m]

\* sendMessage, from the chat screen.
SendMessage(c) ==
  /\ sent < MaxMessages
  /\ ctl[c].state = "connected"
  /\ ctl[c].peer # None
  /\ sent' = sent + 1
  /\ sealed' = sealed \cup {Seal(ctl[c], "chat", sent')}
  /\ ctl' = [ctl EXCEPT ![c].counter = @ + 1]
  /\ UNCHANGED <<creator, nonces, hellos, shown>>

\* openEncryptedPacket: the key, the other role's nonces, the replay window
\* (see PacketChannel for its width).
Opens(s, p) ==
  /\ s.open
  /\ s.key = p.key
  /\ s.as # p.role
  /\ p.counter \notin s.accepted

\* CHAT: shown, and acknowledged to the peer.  What a CHAT_ACK does is a tick
\* beside the message, and a second one does nothing more, so it stays in flight.
ReceiveChat(c, p) ==
  /\ p.kind = "chat"
  /\ p.to = c
  /\ Opens(ctl[c], p)
  /\ shown' = [shown EXCEPT ![p.message] = @ + Emissions]
  /\ sealed' = sealed \cup {Seal(ctl[c], "ack", p.message)}
  /\ ctl' = [ctl EXCEPT ![c].accepted = @ \cup {p.counter}, ![c].counter = @ + 1]
  /\ UNCHANGED <<creator, nonces, hellos, sent>>

Next ==
  \E c \in Controllers :
    \/ CreateSession(c)
    \/ TicketIsMade(c)
    \/ CreateFails(c)
    \/ JoinSession(c)
    \/ Disconnect(c)
    \/ AckSent(c)
    \/ SendMessage(c)
    \/ \E p \in hellos : ReceiveHello(c, p) \/ ReceiveHelloAck(c, p)
    \/ \E p \in sealed : ReceiveChat(c, p)

Spec == Init /\ [][Next]_vars

----------------------------------------------------------------------------
\* Types, and whoever the chat screen lets write has a key, which a host's peer
\* and nonce precede: without a key sealPacket sends its packets as they are.
TypeOK ==
  /\ creator \in Seq(Controllers) /\ Len(creator) <= MaxTickets
  /\ nonces \in 0..MaxNonces /\ sent \in 0..MaxMessages
  /\ \A c \in Controllers :
       /\ ctl[c].role \in {"host", "guest"}
       /\ ctl[c].state \in {"idle", "creating", "waiting", "connecting", "connected"}
       /\ ctl[c].ticket \in DOMAIN creator \cup {None}
       /\ ctl[c].nonce \in 1..nonces \cup {None}
       /\ ctl[c].creating \in 0..MaxTickets
       /\ ctl[c].answering \subseteq 1..nonces
       /\ ctl[c].state = "connected" \/ ctl[c].answering # {} => ctl[c].peer # None
       /\ ctl[c].state = "connected" => ctl[c].key # None

\* A nonce of AES-GCM is used once under one key, whatever is said again:
\* establishSessionKey starts the counter at zero (sealPacket, nonceFor).
SealedOnce ==
  \A p, q \in sealed :
    p.key = q.key /\ p.role = q.role /\ p.counter = q.counter => p = q

\* A message is shown once, times the two ways to the window, though every
\* datagram of every session may be delivered again (openEncryptedPacket).
ShownOnce == \A m \in 1..MaxMessages : shown[m] <= Emissions

\* The pairs of nonces with which hellos for a ticket were answered.
Answers(t) ==
  {<<p.guestNonce, p.hostNonce>> : p \in {q \in hellos : q.type = "HELLO_ACK" /\ q.ticket = t}}

\* A host and a guest that are connected by a ticket have one key, if it is the
\* only ticket the host made, it was answered with one pair of nonces, and neither
\* side keeps the key of another ticket: a host that is said hello to again, or
\* whose earlier createSession returns late, keeps its key or makes it with the
\* wrong ticket, and the guest derives another (establishSessionKey).
KeysAgree ==
  \A g, h \in Controllers :
    LET t == ctl[h].ticket
    IN /\ ctl[g].state = "connected" /\ ctl[g].role = "guest"
       /\ ctl[h].state = "connected" /\ ctl[h].role = "host"
       /\ ctl[g].ticket = t /\ ctl[g].key[1] = t /\ ctl[h].key[1] = t
       /\ {i \in DOMAIN creator : creator[i] = h} = {t}
       /\ Cardinality(Answers(t)) = 1
       => ctl[g].key = ctl[h].key
=============================================================================
