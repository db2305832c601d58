\* Two devices, each as host and as guest: two tickets, four handshake nonces
\* and a message, with every datagram delivered late, twice or never.
SPECIFICATION Spec
CONSTANTS
  Controllers = {a, b}
  None = None
  MaxTickets = 2
  MaxNonces = 4
  MaxMessages = 1
  JoinsOwn = FALSE
SYMMETRY Interchangeable
INVARIANTS TypeOK SealedOnce ShownOnce KeysAgree
\* The bounds are used up.
CHECK_DEADLOCK FALSE
