------------------------------- MODULE Engine -------------------------------
(***************************************************************************)
(* The native engine process (transport-core/src/engine.rs, run): commands *)
(* arrive as lines on stdin, events leave as lines on stdout.  A process   *)
(* has one session, host or guest, in its whole life.  The peer, the       *)
(* network and the files of FileTransfer and Pairing show here only as the *)
(* events they end in.  The desktop app starts a process for each session  *)
(* and talks to one of them at a time.                                     *)
(***************************************************************************)
EXTENDS Integers, Sequences

CONSTANTS
  Engines,   \* processes, numbered in the order they are started
  Calls,     \* ids of the requests of the user interface
  NoCall,
  MaxFiles,  \* files one session may receive (1024)
  Digests    \* the files that peers send

ASSUME EngineAssumption ==
  /\ Engines \subseteq Nat
  /\ NoCall \notin Calls
  /\ MaxFiles \in Nat

VARIABLE engine   \* the state of each process, with its stdin and stdout

Unborn ==
  [pc |-> "unborn", started |-> FALSE, session |-> "none", joining |-> NoCall,
   task |-> NoCall, permit |-> TRUE, files |-> 0, in |-> <<>>, out |-> <<>>]

\* A process that ended or was told to: what it still does is not read.
Gone == [Unborn EXCEPT !.pc = "gone"]

EngineInit == engine = [g \in Engines |-> Unborn]

Response(c, ok) == [event |-> "response", call |-> c, ok |-> ok]
Received(d) == [event |-> "received", digest |-> d]
Event(name) == [event |-> name]

Running(g) == engine[g].pc = "running"

\* The next command of engine g is one of ops.
Reads(g, ops) ==
  /\ Running(g)
  /\ engine[g].in # <<>>
  /\ Head(engine[g].in).op \in ops

\* The session is started: a host answers with its ticket, a guest answers when
\* it has paired.
Start(g) ==
  LET call == Head(engine[g].in).call
      host == Head(engine[g].in).op = "host" IN
  engine' = [engine EXCEPT
    ![g].in = Tail(@), ![g].started = TRUE, ![g].session = "pairing",
    ![g].joining = IF host THEN NoCall ELSE call,
    ![g].out = IF host THEN Append(@, Response(call, TRUE)) ELSE @]

\* Mutant of StartSession: a second session may replace the first.
StartSessionAgain(g) ==
  /\ Reads(g, {"host", "join"})
  /\ Start(g)

\* Host or Join, the first of this process.
StartSession(g) ==
  /\ Reads(g, {"host", "join"})
  /\ ~engine[g].started
  /\ Start(g)

\* The process ends: killed, crashed, or by an error that run returns.  Of the
\* events not yet read, any prefix was written.
Exit(g) ==
  /\ Running(g)
  /\ \E n \in 0..Len(engine[g].out) :
       engine' = [engine EXCEPT ![g] = [Gone EXCEPT !.out = SubSeq(engine[g].out, 1, n)]]

\* A second Host or Join: run returns "one session per engine process".
RefuseSecondSession(g) ==
  /\ Reads(g, {"host", "join"})
  /\ engine[g].started
  /\ Exit(g)

Pair(g) ==
  LET joining == engine[g].joining IN
  /\ Running(g)
  /\ engine[g].session = "pairing"
  /\ engine' = [engine EXCEPT
       ![g].session = "connected",
       ![g].out = @ \o (IF joining = NoCall THEN <<>> ELSE <<Response(joining, TRUE)>>)
                    \o <<Event("connected")>>]

\* A host tells of it by an event, a guest by its response.  The process goes
\* on without a session, and cannot start another.
FailPairing(g) ==
  LET joining == engine[g].joining IN
  /\ Running(g)
  /\ engine[g].session = "pairing"
  /\ engine' = [engine EXCEPT
       ![g].session = "none",
       ![g].out = Append(@, IF joining = NoCall THEN Event("error")
                                                ELSE Response(joining, FALSE))]

\* receive_loop: one more file was received and published.
ReceiveFile(g) ==
  /\ Running(g)
  /\ engine[g].session = "connected"
  /\ engine[g].files < MaxFiles
  /\ \E d \in Digests :
       engine' = [engine EXCEPT ![g].files = @ + 1,
                                ![g].out = Append(@, Received(d))]

\* receive_loop ends, by an error of one receive (which a closed connection is
\* too) or at the limit of the session, and closes the connection.
EndSession(g) ==
  /\ Running(g)
  /\ engine[g].session = "connected"
  /\ engine' = [engine EXCEPT ![g].session = "over",
                              ![g].out = Append(@, Event("error"))]

\* Send: needs a connection, even a dead one, and the one permit.
BeginSend(g) ==
  LET call == Head(engine[g].in).call IN
  /\ Reads(g, {"send"})
  /\ \/ /\ engine[g].session \in {"connected", "over"}
        /\ engine[g].permit
        /\ engine' = [engine EXCEPT ![g].in = Tail(@), ![g].task = call,
                                    ![g].permit = FALSE]
     \* no connection, no permit, or the source cannot be opened
     \/ engine' = [engine EXCEPT ![g].in = Tail(@),
                                 ![g].out = Append(@, Response(call, FALSE))]

FinishSend(g) ==
  /\ Running(g)
  /\ engine[g].task # NoCall
  /\ \E ok \in {engine[g].session = "connected", FALSE} :
       engine' = [engine EXCEPT ![g].task = NoCall,
                                ![g].out = Append(@, Response(engine[g].task, ok))]

\* The permit goes with the task, after its response was queued.
ReleasePermit(g) ==
  /\ Running(g)
  /\ engine[g].task = NoCall
  /\ ~engine[g].permit
  /\ engine' = [engine EXCEPT ![g].permit = TRUE]

EngineStep(g) ==
  \/ StartSession(g) \/ RefuseSecondSession(g) \/ Pair(g) \/ FailPairing(g)
  \/ ReceiveFile(g) \/ EndSession(g) \/ BeginSend(g) \/ FinishSend(g)
  \/ ReleasePermit(g) \/ Exit(g)
=============================================================================
