--------------------------- MODULE AndroidSession ---------------------------
(***************************************************************************)
(* The Android application around the engine: an activity                  *)
(* (MainActivity.kt), one QuicTransport for each session it opens          *)
(* (QuicTransport.kt), and the process-wide registry of sources            *)
(* (transport-core/src/android.rs).  Session g drives engine[g], which     *)
(* runs on a thread of the same process behind a socket pair.              *)
(*                                                                         *)
(* Threads, each a step at a time: the user interface with its queue of    *)
(* posted blocks, the activity's worker, and for each session the reader   *)
(* of events, the thread that runs the engine, and the worker that sends.  *)
(* The reader, the engine's thread and the user interface may each close a *)
(* session while the others are in the middle of something.                *)
(*                                                                         *)
(* Left out: the texts shown, progress, and received files, which the      *)
(* activity's worker copies to the downloads.                              *)
(***************************************************************************)
EXTENDS Engine, FiniteSets

CONSTANTS
  NoSession,
  MaxSends,       \* bound on the files a user sends in one session
  MaxSources,     \* sources the registry holds (4)
  MaxGenerations  \* bound on clicks that begin or end a session

\* Request <<g, 0>> creates or joins session g, <<g, n>> sends its n-th file.
ASSUME AndroidAssumption ==
  /\ NoSession \notin Engines /\ IsFiniteSet(Engines)
  /\ MaxSends \in Nat /\ MaxSources \in Nat /\ MaxGenerations \in Nat
  /\ Calls = Engines \X (0..MaxSends)

VARIABLES
  request,      \* each request: how far its thread is, its future, its source
  pending,      \* requests in the map that responses are looked up in
  interrupted,  \* sends whose worker was shut down
  closing,      \* each session: how far close() is, and the thread it runs on
  reader,       \* each session's reader: whether it reads on, and lines not handled yet
  sources,      \* the registry: the request that each handle was made for
  nextSource,
  generation, epoch, \* the activity's counter, and its value for each session
  transport,    \* the session that the activity shows
  sendEnabled,  \* the button that sends a file
  jobs,         \* the queue of the activity's worker
  posts,        \* blocks posted to the user interface
  destroyed,    \* the activity is, as by a rotation; the one that follows starts anew
  crashed       \* an exception reached the top of the user interface's thread

sessionVars == <<closing, reader>>
requestVars == <<request, pending, interrupted>>
sourceVars == <<sources, nextSource>>
uiVars == <<generation, epoch, transport, sendEnabled, destroyed, crashed>>
vars == <<engine, sessionVars, requestVars, sourceVars, uiVars, jobs, posts>>

Of(c) == c[1]
IsStart(c) == c[2] = 0

Unused == [op |-> "none", pc |-> "unused", done |-> FALSE, source |-> 0]
Ended == [Unused EXCEPT !.pc = "ended"]

Init ==
  /\ EngineInit
  /\ request = [c \in Calls |-> Unused]
  /\ pending = {} /\ interrupted = {}
  /\ closing = [g \in Engines |-> [pc |-> "open", by |-> "none"]]
  /\ reader = [g \in Engines |-> [on |-> TRUE, chunk |-> <<>>]]
  /\ sources = {} /\ nextSource = 1
  /\ generation = 0 /\ epoch = [g \in Engines |-> 0]
  /\ transport = NoSession
  /\ sendEnabled = FALSE /\ destroyed = FALSE /\ crashed = FALSE
  /\ jobs = <<>> /\ posts = <<>>

Opened(g) == engine[g].pc # "unborn"
Closed(g) == closing[g].pc # "open"
\* The socket pair and the worker were shut down.
Shut(g) == closing[g].pc = "closed"
\* Thread t is inside close() of session g.
Busy(g, t) == closing[g].by = t /\ closing[g].pc # "closed"

-----------------------------------------------------------------------------
(***************************************************************************)
(* The registry, and the engine's side of it.                              *)
(***************************************************************************)

\* Mutant of NextHandle: a handle is the place in the registry, so that it is
\* used again.
NextPlace == Cardinality(sources) + 1

\* nativeRegister: handles are never used twice.
NextHandle == nextSource

\* Mutant of HasRoom: one source too many.
HasRoomForOneMore == Cardinality(sources) <= MaxSources

HasRoom == Cardinality(sources) < MaxSources

\* nativeRelease, and what remove does in take_source.
Without(h) == {s \in sources : s[1] # h}

\* The engine reads a command to send.  Its source is taken out of the registry,
\* whatever comes of the send; one that is not there any more ends it.
ReadSend(g) ==
  LET h == Head(engine[g].in).handle
      expired == h # 0 /\ \A s \in sources : s[1] # h IN
  /\ ~Shut(g)
  /\ BeginSend(g)
  /\ expired => engine'[g].task = engine[g].task
  /\ sources' = Without(h)
  /\ UNCHANGED <<sessionVars, requestVars, nextSource, uiVars, jobs, posts>>

\* All else that an engine does.  run returns early when it cannot bind its socket
\* or make its directory.
EngineRuns(g) ==
  /\ ~Shut(g)
  /\ \/ StartSession(g) \/ Pair(g) \/ FailPairing(g) \/ EndSession(g)
     \/ FinishSend(g) \/ ReleasePermit(g)
     \/ Reads(g, {"host", "join"}) /\ Exit(g)
  /\ UNCHANGED <<sessionVars, requestVars, sourceVars, uiVars, jobs, posts>>

\* An engine whose socket is shut down: what it writes is lost, and it has ended
\* when it has read the commands that were written before.
HungUp(commands) ==
  IF commands = <<>> THEN Gone
  ELSE [Unborn EXCEPT !.pc = "running", !.started = TRUE, !.in = commands]

\* It takes the source of a command to send all the same.
Drain(g) ==
  /\ Shut(g) /\ Running(g)
  /\ engine' = [engine EXCEPT ![g] = HungUp(Tail(engine[g].in))]
  /\ sources' = Without(Head(engine[g].in).handle)
  /\ UNCHANGED <<sessionVars, requestVars, nextSource, uiVars, jobs, posts>>

-----------------------------------------------------------------------------
(***************************************************************************)
(* Requests, on the worker of the activity or of a session.                *)
(***************************************************************************)

\* The request returns or throws, through every finally on the way.
EndRequest(c) ==
  /\ request' = [request EXCEPT ![c] = Ended]
  /\ pending' = pending \ {c}
  /\ sources' = Without(request[c].source)
  /\ jobs' = IF IsStart(c) /\ ~destroyed THEN Tail(jobs) ELSE jobs
  /\ interrupted' = interrupted \ {c}
  /\ UNCHANGED <<engine, sessionVars, nextSource, uiVars, posts>>

\* The worker takes the task of a request to create or join.  createTicket ends
\* when the device has no address to advertise; request looks whether the session
\* is open.
StartTask(c) ==
  /\ IsStart(c)
  /\ jobs # <<>> /\ Head(jobs) = c
  /\ request[c].pc = "queued"
  /\ \/ /\ request[c].op = "host" \/ Closed(Of(c))
        /\ EndRequest(c)
     \/ /\ ~Closed(Of(c))
        /\ request' = [request EXCEPT ![c].pc = "checked"]
        /\ UNCHANGED <<engine, sessionVars, pending, interrupted, sourceVars, uiVars, jobs, posts>>

\* The worker takes the task of a send.  The source is registered if it is a
\* regular file and there is room, else it is copied, which may fail.  A session
\* that closes after this look at it fails the request further down.
StartSend(c) ==
  /\ ~IsStart(c)
  /\ request[c].pc = "queued"
  /\ \/ EndRequest(c)
     \/ /\ ~Closed(Of(c))
        /\ \/ /\ request' = [request EXCEPT ![c].pc = "checked"]
              /\ UNCHANGED <<sources, nextSource>>
           \/ /\ HasRoom
              /\ request' = [request EXCEPT ![c].pc = "checked", ![c].source = NextHandle]
              /\ sources' = sources \cup {<<NextHandle, c>>}
              /\ nextSource' = nextSource + 1
        /\ UNCHANGED <<engine, sessionVars, pending, interrupted, uiVars, jobs, posts>>

\* request: the future is registered and the command written, unless the socket
\* is shut or nobody reads it.  A close in between finds the future as it finds it
\* after both.
Write(c) ==
  LET g == Of(c)
      command == [op |-> request[c].op, call |-> c, handle |-> request[c].source] IN
  /\ request[c].pc = "checked"
  /\ IF Shut(g) \/ ~Running(g)
     THEN EndRequest(c)
     ELSE /\ request' = [request EXCEPT ![c].pc = "waiting"]
          /\ pending' = pending \cup {c}
          /\ engine' = [engine EXCEPT ![g].in = Append(@, command)]
          /\ UNCHANGED <<sessionVars, interrupted, sourceVars, uiVars, jobs, posts>>

\* future.get returns ...
Await(c) ==
  /\ request[c].pc = "waiting"
  /\ request[c].done
  /\ EndRequest(c)

\* ... or throws: its worker was shut down, or 15 or 25 seconds have passed.  The
\* day that a send is given does not pass here.
GiveUp(c) ==
  /\ request[c].pc = "waiting"
  /\ ~request[c].done
  /\ IsStart(c) \/ c \in interrupted
  /\ EndRequest(c)

-----------------------------------------------------------------------------
(***************************************************************************)
(* close(), on whichever thread came first, and the threads that fail.     *)
(***************************************************************************)

\* fail on thread t: close, unless another thread does.
Fail(g, t) ==
  closing' = IF Closed(g) THEN closing
             ELSE [closing EXCEPT ![g] = [pc |-> "settling", by |-> t]]

\* The pending futures are completed, those that were registered by now ...
SettlePending(g) ==
  /\ closing[g].pc = "settling"
  /\ request' = [c \in Calls |->
       IF c \in pending /\ Of(c) = g
         THEN [request[c] EXCEPT !.done = TRUE] ELSE request[c]]
  /\ closing' = [closing EXCEPT ![g].pc = "settled"]
  /\ UNCHANGED <<engine, reader, pending, interrupted, sourceVars, uiVars, jobs, posts>>

\* Mutant of StoppedSends: the worker takes no task any more, and goes on with the
\* one it has.
StoppedTasks(g) ==
  {c \in Calls : Of(c) = g /\ ~IsStart(c) /\ request[c].pc = "queued"}

\* shutdownNow: the sends of session g, dropped if they are not started and else
\* interrupted.
StoppedSends(g) ==
  {c \in Calls : Of(c) = g /\ ~IsStart(c) /\ request[c].pc \notin {"unused", "ended"}}

\* ... and the map is cleared, those of meanwhile included, and the socket and the
\* session's worker are shut down.
StopWorker(g) ==
  /\ closing[g].pc = "settled"
  /\ closing' = [closing EXCEPT ![g] = [pc |-> "closed", by |-> "none"]]
  /\ reader' = [reader EXCEPT ![g].on = FALSE]
  /\ engine' = [engine EXCEPT ![g] = HungUp(engine[g].in)]
  /\ interrupted' = interrupted \cup StoppedSends(g)
  /\ request' = [c \in Calls |->
       IF c \in StoppedSends(g) /\ request[c].pc = "queued" THEN Ended ELSE request[c]]
  /\ pending' = {c \in pending : Of(c) # g}
  /\ UNCHANGED <<sourceVars, uiVars, jobs, posts>>

\* The engine's thread and the reader both notice that the engine has ended; the
\* first of them fails the session unless it was closed.
EngineEnded(g) ==
  /\ engine[g].pc = "gone" /\ engine[g].out = <<>> /\ reader[g].chunk = <<>>
  /\ ~Closed(g)
  /\ Fail(g, "native")
  /\ UNCHANGED <<engine, reader, requestVars, sourceVars, uiVars, jobs, posts>>

\* The reader reads what the engine has written, several lines perhaps.
ReadChunk(g) ==
  /\ reader[g].on /\ reader[g].chunk = <<>>
  /\ ~Shut(g)
  /\ engine[g].out # <<>>
  /\ reader' = [reader EXCEPT ![g].chunk = engine[g].out]
  /\ engine' = [engine EXCEPT ![g].out = <<>>]
  /\ UNCHANGED <<closing, requestVars, sourceVars, uiVars, jobs, posts>>

\* dispatch: one line of those that were read, whether or not the session was
\* closed meanwhile.  After the last one the loop goes on while it is open.
Dispatch(g) ==
  LET line == Head(reader[g].chunk) IN
  /\ reader[g].chunk # <<>>
  /\ ~Busy(g, "reader")
  /\ reader' = [reader EXCEPT ![g].chunk = Tail(@),
                              ![g].on = @ /\ (Len(reader[g].chunk) > 1 \/ ~Closed(g))]
  /\ \/ /\ line.event = "response"
        /\ request' = [request EXCEPT ![line.call].done = @ \/ line.call \in pending]
        /\ pending' = pending \ {line.call}
        /\ UNCHANGED <<closing, posts>>
     \/ /\ line.event = "connected"
        /\ posts' = Append(posts, g)
        /\ UNCHANGED <<closing, request, pending>>
     \/ /\ line.event = "error"
        /\ Fail(g, "reader")
        /\ UNCHANGED <<request, pending, posts>>
  /\ UNCHANGED <<engine, interrupted, sourceVars, uiVars, jobs>>

-----------------------------------------------------------------------------
(***************************************************************************)
(* The activity.  Nothing else happens on the thread of the user interface *)
(* while it closes a session or submits a task.                            *)
(***************************************************************************)

\* The flag that allows one send at a time.
Sending(g) == \E c \in Calls :
  Of(c) = g /\ ~IsStart(c) /\ request[c].pc \notin {"unused", "ended"}

UiIsFree ==
  /\ \A g \in Engines : ~Busy(g, "ui")
  /\ \A c \in Calls : request[c].pc # "submitting"

\* A click that begins or ends a session.
NewGeneration ==
  /\ UiIsFree
  /\ ~destroyed
  /\ generation < MaxGenerations
  /\ generation' = generation + 1

\* createSession and joinSession, when no session is shown, not even one that has
\* failed.
OpenSession(op) ==
  /\ NewGeneration
  /\ transport = NoSession
  /\ \E g \in Engines :
       /\ ~Opened(g) /\ \A h \in Engines : h < g => Opened(h)
       /\ transport' = g
       /\ epoch' = [epoch EXCEPT ![g] = generation']
       /\ engine' = [engine EXCEPT ![g].pc = "running"]
       /\ request' = [request EXCEPT ![<<g, 0>>] = [@ EXCEPT !.op = op, !.pc = "queued"]]
       /\ jobs' = Append(jobs, <<g, 0>>)
  /\ sendEnabled' = FALSE
  /\ UNCHANGED <<sessionVars, pending, interrupted, sourceVars, posts, destroyed, crashed>>

CloseTransport ==
  closing' = IF transport = NoSession \/ Closed(transport) THEN closing
             ELSE [closing EXCEPT ![transport] = [pc |-> "settling", by |-> "ui"]]

Disconnect ==
  /\ NewGeneration
  /\ CloseTransport
  /\ transport' = NoSession
  /\ sendEnabled' = FALSE
  /\ UNCHANGED <<engine, reader, requestVars, sourceVars, epoch, destroyed, crashed, jobs, posts>>

\* onDestroy: the activity's worker is shut down too.  Its tasks are dropped, the
\* one it runs is interrupted, which is as good as the end of its time limit.
Destroy ==
  /\ NewGeneration
  /\ CloseTransport
  /\ destroyed' = TRUE
  /\ request' = [c \in Calls |->
       IF IsStart(c) /\ request[c].pc = "queued" THEN Ended ELSE request[c]]
  /\ jobs' = <<>>
  /\ UNCHANGED <<engine, reader, pending, interrupted, sourceVars, epoch, transport, sendEnabled,
                 crashed, posts>>

\* sendFile, after a file was picked: unless the session is closed or sends
\* already.
SendFile ==
  /\ UiIsFree
  /\ ~destroyed /\ sendEnabled
  /\ ~Closed(transport) /\ ~Sending(transport)
  /\ \E c \in Calls :
       /\ Of(c) = transport /\ request[c].pc = "unused"
       /\ \A d \in Calls : Of(d) = transport /\ d[2] < c[2] => request[d].pc # "unused"
       /\ request' = [request EXCEPT ![c].op = "send", ![c].pc = "submitting"]
  /\ UNCHANGED <<engine, sessionVars, pending, interrupted, sourceVars, uiVars, jobs, posts>>

\* worker.execute throws when the worker was shut down meanwhile, and nothing
\* catches it.
Submit(c) ==
  /\ request[c].pc = "submitting"
  /\ IF Shut(Of(c))
     THEN crashed' = TRUE /\ UNCHANGED request
     ELSE request' = [request EXCEPT ![c].pc = "queued"] /\ UNCHANGED crashed
  /\ UNCHANGED <<engine, sessionVars, pending, interrupted, sourceVars, generation,
                 epoch, transport, sendEnabled, destroyed, jobs, posts>>

\* Mutant of Concerns: a block of a session that was replaced is run.
ConcernsAnyone(g) == ~destroyed

\* deliver: what session g posted is run only while the activity shows it.
Concerns(g) == generation = epoch[g] /\ ~destroyed

\* The user interface runs the next block that was posted: onConnected.
TakePost ==
  /\ UiIsFree
  /\ posts # <<>>
  /\ posts' = Tail(posts)
  /\ sendEnabled' = (sendEnabled \/ Concerns(Head(posts)))
  /\ UNCHANGED <<engine, sessionVars, requestVars, sourceVars, generation, epoch, transport,
                 destroyed, crashed, jobs>>

-----------------------------------------------------------------------------

RequestThread(c) ==
  \/ Submit(c) \/ StartTask(c) \/ StartSend(c) \/ Write(c) \/ Await(c) \/ GiveUp(c)

CloseThread(g) == SettlePending(g) \/ StopWorker(g)

EventThreads(g) == ReadChunk(g) \/ Dispatch(g) \/ EngineEnded(g)

UserActs == (\E op \in {"host", "join"} : OpenSession(op)) \/ Disconnect \/ Destroy \/ SendFile

\* Until the application crashes, if it does.
Next ==
  /\ ~crashed
  /\ \/ \E g \in Engines : EngineRuns(g) \/ ReadSend(g) \/ Drain(g)
     \/ \E c \in Calls : RequestThread(c)
     \/ \E g \in Engines : CloseThread(g) \/ EventThreads(g)
     \/ UserActs
     \/ TakePost

Spec == Init /\ [][Next]_vars

\* Every thread that can go on does, and the time limit of 15 or 25 seconds on
\* create and join passes.  Engines and the user may do nothing.
Fairness ==
  /\ \A c \in Calls : WF_vars(~crashed /\ RequestThread(c))
  /\ \A g \in Engines : WF_vars(~crashed /\ CloseThread(g)) /\ WF_vars(~crashed /\ EventThreads(g))
  /\ WF_vars(~crashed /\ TakePost)

FairSpec == Spec /\ Fairness

-----------------------------------------------------------------------------
(***************************************************************************)
(* Properties.                                                             *)
(***************************************************************************)

\* Every variable has its type, and the registry, which sessions share, is no
\* larger than it may be (android.rs:20).
TypeOK ==
  /\ request \in [Calls -> [op: {"none", "host", "join", "send"},
                            pc: {"unused", "submitting", "queued", "checked",
                                 "waiting", "ended"},
                            done: BOOLEAN, source: 0..Cardinality(Calls)]]
  /\ pending \subseteq Calls /\ interrupted \subseteq Calls
  /\ closing \in [Engines -> [pc: {"open", "settling", "settled", "closed"},
                              by: {"none", "ui", "reader", "native"}]]
  /\ \A g \in Engines : reader[g].on \in BOOLEAN
  /\ \A s \in sources : s[1] \in 1..Cardinality(Calls) /\ s[2] \in Calls
  /\ Cardinality(sources) <= MaxSources
  /\ generation \in 0..MaxGenerations /\ epoch \in [Engines -> 0..MaxGenerations]
  /\ transport \in Engines \cup {NoSession}
  /\ sendEnabled \in BOOLEAN /\ destroyed \in BOOLEAN /\ crashed \in BOOLEAN

\* The registry holds for a command that waits in an engine's input its own source
\* or none, never that of another send, although the engine of a closed session may
\* read it late: when its source was released and the next session has registered
\* one (android.rs:12).
CommandTakesItsSource ==
  \A g \in Engines : \A i \in 1..Len(engine[g].in) : \A s \in sources :
    LET command == engine[g].in[i] IN
    command.handle = s[1] => command.call = s[2]

\* The button that sends is enabled only for a session whose engine has paired:
\* nothing that an earlier session posted late enables it (MainActivity.kt:229).
SendButtonIsCurrent ==
  sendEnabled /\ ~destroyed =>
    /\ transport # NoSession
    /\ ~Closed(transport) => engine[transport].session \in {"connected", "over"}

\* What must not last: a request to create or join, a send of a session that is
\* closed, and a source in the registry for one.
Overdue(c) ==
  /\ IsStart(c) \/ Closed(Of(c))
  /\ request[c].pc \notin {"unused", "ended"} \/ \E s \in sources : s[2] = c

\* A request to create or join ends, and so does a send once its session is
\* closed: its thread is free, and the registry holds nothing for it.  It may be
\* anywhere when close() looks for it (QuicTransport.kt:92, 173).
RequestsLetGo ==
  (\E c \in Calls : Overdue(c)) ~> crashed \/ \A c \in Calls : ~Overdue(c)
=============================================================================
