------------------------ MODULE DesktopSessionProofs ------------------------
(***************************************************************************)
(* Proofs about DesktopSession, for any number of engines and calls of the *)
(* user interface: the controller knows the one engine that runs, counts   *)
(* the file it sends, and the window is told of every session that ends.   *)
(***************************************************************************)
EXTENDS DesktopSession, FiniteSetTheorems, SequenceTheorems, TLAPS

Commands == [op: {"host", "join", "send"}, call: Calls]

Lines ==
  [event: {"response"}, call: Calls, ok: BOOLEAN] \cup [event: {"received"}, digest: Digests]
    \cup [event: {"connected", "error"}]

EngineState ==
  [pc: {"unborn", "running", "gone"}, started: BOOLEAN,
   session: {"none", "pairing", "connected", "over"},
   joining: Calls \cup {NoCall}, task: Calls \cup {NoCall}, permit: BOOLEAN,
   files: 0..MaxFiles, in: Seq(Commands), out: Seq(Lines)]

CallState ==
  {c \in [op: {"none", "host", "join", "send", "refused"}, to: Engines \cup {NoEngine},
          pc: {"unused", "stat", "pending", "resolved", "rejected", "answered"}] :
     c.pc = "stat" => c.op = "send"}

Messages ==
  [kind: {"state"}, state: {"idle", "connected"}] \cup [kind: {"transfer"}, digest: Digests]
    \cup [kind: {"answer"}, call: Calls, ok: BOOLEAN]

Types ==
  /\ TypeOK
  /\ engine \in [Engines -> EngineState] /\ call \in [Calls -> CallState]
  /\ toStore \in Seq(Messages)
  /\ IsFiniteSet(Pending)

\* The child was started; whatever else there is has not begun, or is over and
\* says nothing.
OnlyTheChildLives ==
  /\ \A g \in Engines \ {child} : engine[g] \in {Unborn, Gone}
  /\ child # NoEngine => engine[child].pc # "unborn"

\* A send that was taken and not answered, and a line that answers one.
OpenSend(c) == call[c].op = "send" /\ call[c].pc # "answered"
IsSendAnswer(line) == line.event = "response" /\ call[line.call].op = "send"

\* One send is open at a time, and outbound says so.
OneSendIsOpen ==
  /\ \A c \in Calls : OpenSend(c) => outbound
  /\ \A c, d \in Calls : OpenSend(c) /\ OpenSend(d) => c = d

\* What engine e has of the controller's requests is what they ask for, and a send
\* that it has is pending.
CommandIsAsked(command) ==
  /\ call[command.call].op = command.op /\ call[command.call].pc # "unused"
  /\ command.op = "send" => call[command.call].pc = "pending"

LineIsAsked(line) ==
  line.event = "response" =>
    /\ call[line.call].pc # "unused"
    /\ call[line.call].op = "send" => call[line.call].pc = "pending"

Asked(e) ==
  /\ \A i \in 1..Len(e.in) : CommandIsAsked(e.in[i])
  /\ \A i \in 1..Len(e.out) : LineIsAsked(e.out[i])
  /\ e.task # NoCall => call[e.task].op = "send" /\ call[e.task].pc = "pending"
  /\ e.joining # NoCall => call[e.joining].op = "join" /\ call[e.joining].pc # "unused"

\* The send is in one place: the engine's input, its task, or its output.
OneToken(e) ==
  /\ \A i, j \in 1..Len(e.in) : e.in[i].op = "send" /\ e.in[j].op = "send" => i = j
  /\ \A i, j \in 1..Len(e.out) : IsSendAnswer(e.out[i]) /\ IsSendAnswer(e.out[j]) => i = j
  /\ (\A i \in 1..Len(e.in) : e.in[i].op # "send") \/ (\A i \in 1..Len(e.out) : ~IsSendAnswer(e.out[i]))
  /\ e.task # NoCall =>
       /\ \A i \in 1..Len(e.in) : e.in[i].op # "send"
       /\ \A i \in 1..Len(e.out) : ~IsSendAnswer(e.out[i])

\* The engine tells of a session that it has.
LineIsHonest(e, line) ==
  /\ line.event = "connected" => e.session \in {"connected", "over"}
  /\ line.event = "response" /\ call[line.call].op \in {"host", "join"} => e.started

Honest(e) ==
  e.pc = "running" =>
    /\ e.session # "none" => e.started
    /\ \A i \in 1..Len(e.out) : LineIsHonest(e, e.out[i])

Sound(e) == Asked(e) /\ OneToken(e) /\ Honest(e)

EnginesAreSound == \A g \in Engines : Sound(engine[g])

ControllerInvariant == Types /\ OnlyTheChildLives /\ OneSendIsOpen /\ EnginesAreSound

-----------------------------------------------------------------------------
(***************************************************************************)
(* What the window is told.                                                *)
(***************************************************************************)

Open == {"waiting", "connecting", "connected"}

\* A message that makes the window show a session.
Opens(m) ==
  \/ m = State("connected")
  \/ m.kind = "answer" /\ m.ok /\ call[m.call].op \in {"host", "join"}

\* When the messages s have arrived, the last of bad was followed by "idle", or
\* there was none and it was as initially, which is bad or not.
EndsIdle(s, initially, bad) ==
  \/ \E i \in 1..Len(s) : s[i] = State("idle") /\ \A j \in (i + 1)..Len(s) : s[j] \notin bad
  \/ initially /\ \A j \in 1..Len(s) : s[j] \notin bad

\* What has been sent leaves the window without a session ...
ClosedInTheEnd == EndsIdle(toStore, ui \notin Open, {m \in Messages : Opens(m)})

\* ... or at least not connected.
UnconnectedInTheEnd == EndsIdle(toStore, ui # "connected", {State("connected")})

\* An "idle" is still to be sent.
IdleIsDue == closing # {} \/ (child # NoEngine /\ engine[child].pc = "gone")

\* A request for a session that was granted, and whose answer is not sent yet.
Granted == {c \in Calls : call[c].pc = "resolved" /\ call[c].op \in {"host", "join"}}

\* The answers on their way are of calls that are over.
AnswersAreOver ==
  \A i \in 1..Len(toStore) :
    toStore[i].kind = "answer" => call[toStore[i].call].pc = "answered"

\* There is no session, or none that is or was connected.
NoSession == child = NoEngine \/ ~engine[child].started
NoConnection == child = NoEngine \/ engine[child].session \notin {"connected", "over"}

\* The window is told when the engine it shows, or its session, is no more.
WindowIsTold ==
  /\ NoSession => IdleIsDue \/ (ClosedInTheEnd /\ Granted = {})
  /\ NoConnection => IdleIsDue \/ UnconnectedInTheEnd

DesktopInvariant ==
  ControllerInvariant /\ AnswersAreOver /\ WindowIsTold

-----------------------------------------------------------------------------
(***************************************************************************)
(* The engine.                                                             *)
(***************************************************************************)

\* What is read from and written to a sequence.
LEMMA TailOf ==
  ASSUME NEW S, NEW s \in Seq(S), s # <<>>
  PROVE  /\ Head(s) = s[1] /\ Head(s) \in S /\ 1 \in 1..Len(s)
         /\ Tail(s) \in Seq(S) /\ Len(Tail(s)) = Len(s) - 1 /\ Len(s) \in Nat
         /\ \A i \in 1..Len(Tail(s)) : i + 1 \in 1..Len(s) /\ Tail(s)[i] = s[i + 1]
BY HeadTailProperties, EmptySeq, LenProperties

\* ... and after an Append.
LEMMA AppendOf ==
  ASSUME NEW S, NEW s \in Seq(S), NEW x \in S
  PROVE  /\ Append(s, x) \in Seq(S) /\ Len(Append(s, x)) = Len(s) + 1 /\ Len(s) \in Nat
         /\ Append(s, x)[Len(s) + 1] = x
         /\ \A i \in 1..Len(s) : Append(s, x)[i] = s[i]
         /\ \A i \in 1..Len(Append(s, x)) : i \in 1..Len(s) \/ i = Len(s) + 1
OBVIOUS

\* The type of each field of an engine.
LEMMA EngineFields ==
  ASSUME NEW e \in EngineState
  PROVE  /\ e.pc \in {"unborn", "running", "gone"} /\ e.started \in BOOLEAN
         /\ e.session \in {"none", "pairing", "connected", "over"}
         /\ e.joining \in Calls \cup {NoCall} /\ e.task \in Calls \cup {NoCall}
         /\ e.permit \in BOOLEAN /\ e.files \in 0..MaxFiles
         /\ e.in \in Seq(Commands) /\ e.out \in Seq(Lines)
BY DEF EngineState

\* An engine that has not begun, or is over, says nothing of any request.
LEMMA SilentEngines ==
  /\ Unborn \in EngineState /\ Gone \in EngineState
  /\ Unborn.pc = "unborn" /\ Gone.pc = "gone"
  /\ Sound(Unborn) /\ Sound(Gone)
<1>1. MaxFiles \in Nat
  BY EngineAssumption
<1>2. Unborn \in EngineState /\ Gone \in EngineState
  <2>1. <<>> \in Seq(Commands) /\ <<>> \in Seq(Lines) /\ 0 \in 0..MaxFiles
    BY <1>1, EmptySeq
  <2>2. Unborn \in EngineState
    BY <2>1 DEF Unborn, EngineState
  <2>3. QED
    BY <2>2 DEF Gone, EngineState
<1>3. \A e \in {Unborn, Gone} :
        /\ e.pc # "running" /\ Len(e.in) = 0 /\ Len(e.out) = 0
        /\ e.task = NoCall /\ e.joining = NoCall
  BY DEF Unborn, Gone
<1>4. QED
  BY <1>2, <1>3 DEF Sound, Asked, OneToken, Honest, Unborn, Gone

\* The engine reads a command; if that was a send, it is nowhere else.
LEMMA ReadIsSound ==
  ASSUME NEW e \in EngineState, Sound(e), e.in # <<>>,
         NEW f, f = [e EXCEPT !.in = Tail(@)]
  PROVE  /\ f \in EngineState /\ Sound(f)
         /\ Head(e.in) \in Commands /\ CommandIsAsked(Head(e.in))
         /\ Head(e.in).op = "send" =>
              /\ e.task = NoCall
              /\ \A i \in 1..Len(f.in) : f.in[i].op # "send"
              /\ \A i \in 1..Len(f.out) : ~IsSendAnswer(f.out[i])
<1>1. e.in \in Seq(Commands)
  BY EngineFields
<1>2. /\ Head(e.in) = e.in[1] /\ Head(e.in) \in Commands /\ 1 \in 1..Len(e.in)
      /\ Tail(e.in) \in Seq(Commands) /\ Len(e.in) \in Nat
      /\ \A i \in 1..Len(Tail(e.in)) : i + 1 \in 1..Len(e.in) /\ Tail(e.in)[i] = e.in[i + 1]
  BY <1>1, TailOf
<1>3. /\ f.in = Tail(e.in) /\ f.out = e.out /\ f.task = e.task /\ f.joining = e.joining
      /\ f.pc = e.pc /\ f.session = e.session /\ f.started = e.started
      /\ f \in EngineState
  BY <1>2 DEF EngineState
<1>4. Asked(f)
  BY <1>2, <1>3 DEF Sound, Asked
<1>5. \A i, j \in 1..Len(f.in) : f.in[i].op = "send" /\ f.in[j].op = "send" => i = j
  <2>1. TAKE i, j \in 1..Len(f.in)
  <2>2. HAVE f.in[i].op = "send" /\ f.in[j].op = "send"
  <2>3. i + 1 = j + 1
    BY <1>2, <1>3, <2>2 DEF Sound, OneToken
  <2>4. QED
    BY <1>2, <1>3, <2>3
<1>6. OneToken(f)
  BY <1>2, <1>3, <1>5 DEF Sound, OneToken
<1>7. Honest(f)
  BY <1>3 DEF Sound, Honest, LineIsHonest
<1>8. CommandIsAsked(Head(e.in))
  BY <1>2 DEF Sound, Asked
<1>9. ASSUME Head(e.in).op = "send"
      PROVE  /\ e.task = NoCall
             /\ \A i \in 1..Len(f.in) : f.in[i].op # "send"
             /\ \A i \in 1..Len(f.out) : ~IsSendAnswer(f.out[i])
  <2>1. \A i \in 1..Len(e.in) : i # 1 => e.in[i].op # "send"
    BY <1>2, <1>9 DEF Sound, OneToken
  <2>2. ASSUME NEW i \in 1..Len(f.in) PROVE f.in[i].op # "send"
    BY <1>2, <1>3, <2>1
  <2>3. QED
    BY <1>2, <1>3, <1>9, <2>2 DEF Sound, OneToken
<1>10. QED
  BY <1>2, <1>3, <1>4, <1>6, <1>7, <1>8, <1>9 DEF Sound

\* The engine writes a line that is asked for and honest.
LEMMA SayIsSound ==
  ASSUME NEW e \in EngineState, Sound(e), NEW line \in Lines,
         LineIsAsked(line), LineIsHonest(e, line),
         IsSendAnswer(line) =>
           /\ e.task = NoCall
           /\ \A i \in 1..Len(e.in) : e.in[i].op # "send"
           /\ \A i \in 1..Len(e.out) : ~IsSendAnswer(e.out[i]),
         NEW f, f = [e EXCEPT !.out = Append(@, line)]
  PROVE  f \in EngineState /\ Sound(f)
<1>1. e.out \in Seq(Lines)
  BY EngineFields
<1>2. /\ Append(e.out, line) \in Seq(Lines) /\ Len(Append(e.out, line)) = Len(e.out) + 1
      /\ Append(e.out, line)[Len(e.out) + 1] = line
      /\ \A i \in 1..Len(e.out) : Append(e.out, line)[i] = e.out[i]
      /\ \A i \in 1..Len(Append(e.out, line)) : i \in 1..Len(e.out) \/ i = Len(e.out) + 1
  BY <1>1, AppendOf
<1>3. /\ f.in = e.in /\ f.out = Append(e.out, line) /\ f.task = e.task /\ f.joining = e.joining
      /\ f.pc = e.pc /\ f.session = e.session /\ f.started = e.started
      /\ f \in EngineState
  BY <1>2 DEF EngineState
<1>4. \A i \in 1..Len(f.out) : LineIsAsked(f.out[i])
  BY <1>2, <1>3 DEF Sound, Asked
<1>5. Asked(f)
  BY <1>3, <1>4 DEF Sound, Asked
<1>6. \A i, j \in 1..Len(f.out) : IsSendAnswer(f.out[i]) /\ IsSendAnswer(f.out[j]) => i = j
  BY <1>2, <1>3 DEF Sound, OneToken
<1>7. ASSUME NEW i \in 1..Len(f.out), IsSendAnswer(f.out[i])
      PROVE  /\ e.task = NoCall
             /\ \A k \in 1..Len(e.in) : e.in[k].op # "send"
  BY <1>2, <1>3, <1>7 DEF Sound, OneToken
<1>8. OneToken(f)
  BY <1>3, <1>6, <1>7 DEF Sound, OneToken
<1>9. Honest(f)
  BY <1>2, <1>3 DEF Sound, Honest, LineIsHonest
<1>10. QED
  BY <1>3, <1>5, <1>8, <1>9 DEF Sound

\* Other fields change, and the engine has nothing more to tell.
LEMMA SoundFields ==
  ASSUME NEW e \in EngineState, Sound(e), NEW f \in EngineState,
         f.in = e.in, f.out = e.out,
         f.task # NoCall => f.task = e.task,
         f.joining = NoCall \/ f.joining = e.joining,
         Honest(f)
  PROVE  Sound(f)
BY DEF Sound, Asked, OneToken

\* What an engine does: it runs, stays what it must be, and, as long as it runs,
\* keeps the session that it has begun.
Advances(e, f) ==
  /\ e.pc = "running" /\ f \in EngineState /\ Sound(f)
  /\ \/ f.pc = "gone"
     \/ /\ f.pc = "running"
        /\ e.started => f.started
        /\ e.session \in {"connected", "over"} => f.session \in {"connected", "over"}

\* The end of the process: of what it wrote, a prefix is left to read.
LEMMA ExitAdvances ==
  ASSUME engine \in [Engines -> EngineState], NEW g \in Engines, Sound(engine[g]), Exit(g)
  PROVE  \E f : engine' = [engine EXCEPT ![g] = f] /\ Advances(engine[g], f)
<1> DEFINE e == engine[g]
<1>1. PICK n \in 0..Len(e.out) :
        engine' = [engine EXCEPT ![g] = [Gone EXCEPT !.out = SubSeq(e.out, 1, n)]]
  BY DEF Exit
<1>2. PICK f : f = [Gone EXCEPT !.out = SubSeq(e.out, 1, n)]
  OBVIOUS
<1>3. e \in EngineState /\ e.out \in Seq(Lines) /\ Len(e.out) \in Nat /\ e.pc = "running"
  BY EngineFields, LenProperties DEF Exit, Running
<1>4. /\ SubSeq(e.out, 1, n) \in Seq(Lines) /\ Len(SubSeq(e.out, 1, n)) = n
      /\ \A i \in 1..n : SubSeq(e.out, 1, n)[i] = e.out[i] /\ i \in 1..Len(e.out)
  BY <1>3
<1>5. /\ f \in EngineState /\ f.pc = "gone" /\ f.task = NoCall /\ f.joining = NoCall
      /\ f.out = SubSeq(e.out, 1, n) /\ f.in = <<>> /\ Len(f.in) = 0
  <2>1. Gone \in EngineState /\ Gone.pc = "gone" /\ Gone.task = NoCall /\ Gone.joining = NoCall
        /\ Gone.in = <<>>
    BY SilentEngines DEF Gone, Unborn
  <2>2. QED
    BY <1>2, <1>4, <2>1 DEF EngineState
<1>6. Asked(f)
  BY <1>4, <1>5 DEF Sound, Asked
<1>7. OneToken(f)
  <2>1. \A i, j \in 1..n : IsSendAnswer(e.out[i]) /\ IsSendAnswer(e.out[j]) => i = j
    BY <1>4 DEF Sound, OneToken
  <2>2. QED
    BY <1>4, <1>5, <2>1 DEF OneToken
<1>8. Sound(f)
  BY <1>5, <1>6, <1>7 DEF Sound, Honest
<1>9. QED
  BY <1>1, <1>2, <1>3, <1>5, <1>8 DEF Advances

\* A Host or Join: the host answers with its ticket, the guest owes its answer.
LEMMA StartAdvances ==
  ASSUME engine \in [Engines -> EngineState], NEW g \in Engines, Sound(engine[g]), StartSession(g)
  PROVE  \E f : engine' = [engine EXCEPT ![g] = f] /\ Advances(engine[g], f)
<1>1. PICK e : e = engine[g]
  OBVIOUS
<1>2. PICK command : command = Head(e.in)
  OBVIOUS
<1>3. /\ e \in EngineState /\ Sound(e) /\ e.in # <<>> /\ e.pc = "running" /\ ~e.started
      /\ command.op \in {"host", "join"}
  BY <1>1, <1>2 DEF StartSession, Reads, Running
<1>4. PICK d : d = [e EXCEPT !.in = Tail(@)]
  OBVIOUS
<1>5. d \in EngineState /\ Sound(d) /\ command \in Commands /\ CommandIsAsked(command)
  BY <1>2, <1>3, <1>4, ReadIsSound
<1> DEFINE joining == IF command.op = "host" THEN NoCall ELSE command.call
<1>6. PICK s : s = [d EXCEPT !.started = TRUE, !.session = "pairing", !.joining = joining]
  OBVIOUS
<1>7. /\ s \in EngineState /\ s.in = d.in /\ s.out = d.out /\ s.task = d.task
      /\ s.joining = joining /\ s.started /\ s.session = "pairing" /\ s.pc = "running"
  <2>1. joining \in Calls \cup {NoCall}
    BY <1>5 DEF Commands
  <2>2. d.pc = "running"
    BY <1>3, <1>4 DEF EngineState
  <2> HIDE DEF joining
  <2>3. QED
    BY <1>5, <1>6, <2>1, <2>2 DEF EngineState
<1>8. Sound(s)
  <2>1. /\ d.pc = "running" /\ d.session = "none" /\ ~d.started
    BY <1>3, <1>4 DEF EngineState, Sound, Honest
  <2>2. Honest(s)
    BY <1>5, <1>7, <2>1 DEF Sound, Honest, LineIsHonest
  <2>3. joining # NoCall => call[joining].op = "join" /\ call[joining].pc # "unused"
    BY <1>3, <1>5 DEF CommandIsAsked
  <2> HIDE DEF joining
  <2>4. Asked(s) /\ OneToken(s)
    BY <1>5, <1>7, <2>3 DEF Sound, Asked, OneToken
  <2>5. QED
    BY <2>2, <2>4 DEF Sound
<1>9. CASE command.op = "join"
  <2>1. engine' = [engine EXCEPT ![g] = s]
    <3>1. engine' = [engine EXCEPT ![g] =
                       [e EXCEPT !.in = Tail(@), !.started = TRUE, !.session = "pairing",
                                 !.joining = joining, !.out = @]]
      BY <1>1, <1>2, <1>9 DEF StartSession, Start
    <3>2. [e EXCEPT !.in = Tail(@), !.started = TRUE, !.session = "pairing",
                    !.joining = joining, !.out = @] = s
      BY <1>3, <1>4, <1>6 DEF EngineState
    <3>3. QED
      BY <3>1, <3>2
  <2>2. e.session = "none"
    BY <1>3 DEF Sound, Honest, EngineState
  <2>3. QED
    BY <1>1, <1>3, <1>7, <1>8, <2>1, <2>2 DEF Advances
<1>10. CASE command.op = "host"
  <2>1. PICK line : line = Response(command.call, TRUE)
    OBVIOUS
  <2>2. PICK f : f = [s EXCEPT !.out = Append(@, line)]
    OBVIOUS
  <2>3. line \in Lines /\ line.event = "response" /\ line.call = command.call
    BY <1>5, <2>1 DEF Response, Lines, Commands
  <2>4. f \in EngineState /\ Sound(f)
    <3>1. LineIsAsked(line) /\ LineIsHonest(s, line) /\ ~IsSendAnswer(line)
      BY <1>5, <1>7, <1>10, <2>3 DEF LineIsAsked, LineIsHonest, IsSendAnswer, CommandIsAsked
    <3>2. QED
      BY <1>7, <1>8, <2>2, <2>3, <3>1, SayIsSound
  <2>5. f.pc = "running" /\ f.started /\ f.session = s.session
    BY <1>7, <2>2 DEF EngineState
  <2>6. engine' = [engine EXCEPT ![g] = f]
    <3>1. engine' = [engine EXCEPT ![g] =
                       [e EXCEPT !.in = Tail(@), !.started = TRUE, !.session = "pairing",
                                 !.joining = joining, !.out = Append(@, line)]]
      BY <1>1, <1>2, <1>10, <2>1 DEF StartSession, Start
    <3>2. [e EXCEPT !.in = Tail(@), !.started = TRUE, !.session = "pairing",
                    !.joining = joining, !.out = Append(@, line)] = f
      BY <1>3, <1>4, <1>6, <2>2 DEF EngineState
    <3>3. QED
      BY <3>1, <3>2
  <2>7. e.session = "none"
    BY <1>3 DEF Sound, Honest, EngineState
  <2>8. QED
    BY <1>1, <1>3, <2>4, <2>5, <2>6, <2>7 DEF Advances
<1>11. QED
  BY <1>3, <1>9, <1>10

\* The peers have paired: "connected", after the answer that the guest owes.
LEMMA PairAdvances ==
  ASSUME engine \in [Engines -> EngineState], NEW g \in Engines, Sound(engine[g]), Pair(g)
  PROVE  \E f : engine' = [engine EXCEPT ![g] = f] /\ Advances(engine[g], f)
<1>1. PICK e : e = engine[g]
  OBVIOUS
<1>2. /\ e \in EngineState /\ Sound(e) /\ e.pc = "running" /\ e.session = "pairing" /\ e.started
      /\ e.out \in Seq(Lines)
  BY <1>1, EngineFields DEF Pair, Running, Sound, Honest
<1>3. PICK line : line = Response(e.joining, TRUE)
  OBVIOUS
<1>4. PICK d : d = IF e.joining = NoCall THEN e ELSE [e EXCEPT !.out = Append(@, line)]
  OBVIOUS
<1>5. e.joining # NoCall => line \in Lines /\ line.event = "response" /\ line.call = e.joining
  BY <1>2, <1>3, EngineFields DEF Response, Lines
<1>6. /\ d \in EngineState /\ Sound(d)
      /\ d.out = IF e.joining = NoCall THEN e.out ELSE Append(e.out, line)
  <2>1. CASE e.joining # NoCall
    <3>1. LineIsAsked(line) /\ LineIsHonest(e, line) /\ ~IsSendAnswer(line)
      BY <1>2, <1>5, <2>1 DEF Sound, Asked, LineIsAsked, LineIsHonest, IsSendAnswer
    <3>2. d \in EngineState /\ Sound(d)
      BY <1>2, <1>4, <1>5, <2>1, <3>1, SayIsSound
    <3>3. QED
      BY <1>2, <1>4, <2>1, <3>2 DEF EngineState
  <2>2. QED
    BY <1>2, <1>4, <2>1
<1>7. PICK s : s = [d EXCEPT !.session = "connected"]
  OBVIOUS
<1>8. /\ s \in EngineState /\ s.in = d.in /\ s.out = d.out /\ s.task = d.task
      /\ s.joining = d.joining /\ s.started /\ s.session = "connected" /\ s.pc = "running"
      /\ d.pc = "running" /\ d.session = "pairing" /\ d.started
  BY <1>2, <1>4, <1>6, <1>7 DEF EngineState
<1>9. Sound(s)
  <2>1. Honest(s)
    BY <1>6, <1>8 DEF Sound, Honest, LineIsHonest
  <2>2. QED
    BY <1>6, <1>8, <2>1, SoundFields
<1>10. PICK f : f = [s EXCEPT !.out = Append(@, Event("connected"))]
  OBVIOUS
<1>11. f \in EngineState /\ Sound(f)
  <2>1. PICK c : c = Event("connected")
    OBVIOUS
  <2>2. /\ c \in Lines /\ LineIsAsked(c) /\ LineIsHonest(s, c) /\ ~IsSendAnswer(c)
    BY <1>8, <2>1 DEF Event, Lines, LineIsAsked, LineIsHonest, IsSendAnswer
  <2>3. QED
    BY <1>8, <1>9, <1>10, <2>1, <2>2, SayIsSound
<1>12. f.pc = "running" /\ f.started /\ f.session = "connected"
  BY <1>8, <1>10 DEF EngineState
<1>13. engine' = [engine EXCEPT ![g] = f]
  <2>1. f.out = e.out \o (IF e.joining = NoCall THEN <<>> ELSE <<line>>) \o <<Event("connected")>>
    <3>1. Event("connected") \in Lines
      BY DEF Event, Lines
    <3>2. d.out \in Seq(Lines) /\ f.out = Append(d.out, Event("connected"))
      BY <1>6, <1>8, <1>10, EngineFields DEF EngineState
    <3>3. f.out = d.out \o <<Event("connected")>>
      BY <3>1, <3>2
    <3>4. d.out = e.out \o (IF e.joining = NoCall THEN <<>> ELSE <<line>>)
      <4>1. CASE e.joining = NoCall
        <5>1. e.out \o <<>> = e.out
          BY <1>2
        <5>2. QED
          BY <1>6, <4>1, <5>1
      <4>2. CASE e.joining # NoCall
        <5>1. Append(e.out, line) = e.out \o <<line>>
          BY <1>2, <1>5, <4>2
        <5>2. QED
          BY <1>6, <4>2, <5>1
      <4>3. QED
        BY <4>1, <4>2
    <3>5. QED
      BY <3>3, <3>4
  <2>2. engine' = [engine EXCEPT ![g] = [e EXCEPT !.session = "connected", !.out = f.out]]
    BY <1>1, <1>3, <2>1 DEF Pair
  <2>3. f = [e EXCEPT !.session = "connected", !.out = f.out]
    BY <1>2, <1>4, <1>6, <1>7, <1>8, <1>10 DEF EngineState
  <2>4. QED
    BY <2>2, <2>3
<1>14. QED
  BY <1>1, <1>2, <1>11, <1>12, <1>13 DEF Advances

\* Pairing has failed: the session is lost, the engine stays.
LEMMA FailPairingAdvances ==
  ASSUME engine \in [Engines -> EngineState], NEW g \in Engines, Sound(engine[g]), FailPairing(g)
  PROVE  \E f : engine' = [engine EXCEPT ![g] = f] /\ Advances(engine[g], f)
<1>1. PICK e : e = engine[g]
  OBVIOUS
<1>2. /\ e \in EngineState /\ Sound(e) /\ e.pc = "running" /\ e.session = "pairing" /\ e.started
  BY <1>1, EngineFields DEF FailPairing, Running, Sound, Honest
<1>3. PICK line : line = IF e.joining = NoCall THEN Event("error") ELSE Response(e.joining, FALSE)
  OBVIOUS
<1>4. line \in Lines /\ LineIsAsked(line) /\ LineIsHonest(e, line) /\ ~IsSendAnswer(line)
  <2>1. CASE e.joining = NoCall
    BY <1>3, <2>1 DEF Event, Lines, LineIsAsked, LineIsHonest, IsSendAnswer
  <2>2. CASE e.joining # NoCall
    <3>1. e.joining \in Calls
      BY <1>2, <2>2, EngineFields
    <3>2. line \in Lines /\ line.event = "response" /\ line.call = e.joining
      BY <1>3, <2>2, <3>1 DEF Response, Lines
    <3>3. QED
      BY <1>2, <2>2, <3>2 DEF Sound, Asked, LineIsAsked, LineIsHonest, IsSendAnswer
  <2>3. QED
    BY <2>1, <2>2
<1>5. PICK d : d = [e EXCEPT !.out = Append(@, line)]
  OBVIOUS
<1>6. d \in EngineState /\ Sound(d)
  BY <1>2, <1>4, <1>5, SayIsSound
<1>7. PICK f : f = [d EXCEPT !.session = "none"]
  OBVIOUS
<1>8. /\ f \in EngineState /\ f.in = d.in /\ f.out = d.out /\ f.task = d.task
      /\ f.joining = d.joining /\ f.started /\ f.session = "none" /\ f.pc = "running"
      /\ d.pc = "running" /\ d.session = "pairing" /\ d.started
  BY <1>2, <1>5, <1>6, <1>7 DEF EngineState
<1>9. Sound(f)
  <2>1. Honest(f)
    BY <1>6, <1>8 DEF Sound, Honest, LineIsHonest
  <2>2. QED
    BY <1>6, <1>8, <2>1, SoundFields
<1>10. engine' = [engine EXCEPT ![g] = f]
  <2>1. engine' = [engine EXCEPT ![g] = [e EXCEPT !.session = "none", !.out = Append(@, line)]]
    BY <1>1, <1>3 DEF FailPairing
  <2>2. f = [e EXCEPT !.session = "none", !.out = Append(@, line)]
    BY <1>2, <1>5, <1>7 DEF EngineState
  <2>3. QED
    BY <2>1, <2>2
<1>11. QED
  BY <1>1, <1>2, <1>8, <1>9, <1>10 DEF Advances

\* A file is received, or the session ends.
LEMMA SessionAdvances ==
  ASSUME engine \in [Engines -> EngineState], NEW g \in Engines, Sound(engine[g]),
         ReceiveFile(g) \/ EndSession(g)
  PROVE  \E f : engine' = [engine EXCEPT ![g] = f] /\ Advances(engine[g], f)
<1>1. PICK e : e = engine[g]
  OBVIOUS
<1>2. e \in EngineState /\ Sound(e) /\ e.pc = "running" /\ e.session = "connected"
  BY <1>1 DEF ReceiveFile, EndSession, Running
<1>3. ASSUME NEW line \in Lines, line.event \in {"received", "error"},
             NEW session \in {"connected", "over"}, NEW files \in 0..MaxFiles,
             engine' = [engine EXCEPT ![g] = [e EXCEPT !.session = session, !.files = files,
                                                       !.out = Append(@, line)]]
      PROVE  \E f : engine' = [engine EXCEPT ![g] = f] /\ Advances(engine[g], f)
  <2>1. LineIsAsked(line) /\ LineIsHonest(e, line) /\ ~IsSendAnswer(line)
    BY <1>3 DEF LineIsAsked, LineIsHonest, IsSendAnswer
  <2>2. PICK d : d = [e EXCEPT !.out = Append(@, line)]
    OBVIOUS
  <2>3. d \in EngineState /\ Sound(d)
    BY <1>2, <2>1, <2>2, SayIsSound
  <2>4. PICK f : f = [d EXCEPT !.session = session, !.files = files]
    OBVIOUS
  <2>5. /\ f \in EngineState /\ f.in = d.in /\ f.out = d.out /\ f.task = d.task
        /\ f.joining = d.joining /\ f.session = session /\ f.pc = "running"
        /\ f.started = d.started /\ d.started = e.started
        /\ d.pc = "running" /\ d.session = "connected"
    BY <1>2, <1>3, <2>2, <2>3, <2>4 DEF EngineState
  <2>6. Sound(f)
    <3>1. Honest(f)
      BY <2>3, <2>5 DEF Sound, Honest, LineIsHonest
    <3>2. QED
      BY <2>3, <2>5, <3>1, SoundFields
  <2>7. f = [e EXCEPT !.session = session, !.files = files, !.out = Append(@, line)]
    BY <1>2, <2>2, <2>4 DEF EngineState
  <2>8. QED
    BY <1>1, <1>2, <1>3, <2>5, <2>6, <2>7 DEF Advances
<1>4. CASE ReceiveFile(g)
  <2>1. PICK digest \in Digests :
          engine' = [engine EXCEPT ![g].files = @ + 1, ![g].out = Append(@, Received(digest))]
    BY <1>4 DEF ReceiveFile
  <2>2. Received(digest) \in Lines /\ Received(digest).event = "received"
    BY DEF Received, Lines
  <2>3. e.files + 1 \in 0..MaxFiles
    <3>1. e.files < MaxFiles
      BY <1>1, <1>4 DEF ReceiveFile
    <3>2. e.files \in 0..MaxFiles /\ MaxFiles \in Nat
      BY <1>2, EngineFields, EngineAssumption
    <3>3. QED
      BY <3>1, <3>2
  <2>4. engine' = [engine EXCEPT ![g] = [e EXCEPT !.session = "connected", !.files = e.files + 1,
                                                  !.out = Append(@, Received(digest))]]
    <3>1. engine' = [engine EXCEPT ![g] = [e EXCEPT !.files = e.files + 1,
                                                    !.out = Append(@, Received(digest))]]
      BY <1>1, <2>1
    <3>2. [e EXCEPT !.files = e.files + 1, !.out = Append(@, Received(digest))]
            = [e EXCEPT !.session = "connected", !.files = e.files + 1,
                        !.out = Append(@, Received(digest))]
      BY <1>2 DEF EngineState
    <3>3. QED
      BY <3>1, <3>2
  <2>5. QED
    BY <1>3, <2>2, <2>3, <2>4
<1>5. CASE EndSession(g)
  <2>1. Event("error") \in Lines /\ Event("error").event = "error"
    BY DEF Event, Lines
  <2>2. engine' = [engine EXCEPT ![g] = [e EXCEPT !.session = "over", !.files = e.files,
                                                  !.out = Append(@, Event("error"))]]
    <3>1. engine' = [engine EXCEPT ![g] = [e EXCEPT !.session = "over",
                                                    !.out = Append(@, Event("error"))]]
      BY <1>1, <1>5 DEF EndSession
    <3>2. [e EXCEPT !.session = "over", !.out = Append(@, Event("error"))]
            = [e EXCEPT !.session = "over", !.files = e.files, !.out = Append(@, Event("error"))]
      BY <1>2 DEF EngineState
    <3>3. QED
      BY <3>1, <3>2
  <2>3. QED
    BY <1>2, <1>3, <2>1, <2>2, EngineFields
<1>6. QED
  BY <1>4, <1>5

\* The task is over, and nothing else of its request is left in the engine.
LEMMA SendAdvances ==
  ASSUME engine \in [Engines -> EngineState], NEW g \in Engines, Sound(engine[g]),
         BeginSend(g) \/ FinishSend(g) \/ ReleasePermit(g)
  PROVE  \E f : engine' = [engine EXCEPT ![g] = f] /\ Advances(engine[g], f)
<1>1. PICK e : e = engine[g]
  OBVIOUS
<1>2. e \in EngineState /\ Sound(e) /\ e.pc = "running"
  BY <1>1 DEF BeginSend, FinishSend, ReleasePermit, Reads, Running
<1>3. CASE BeginSend(g)
  <2>1. PICK call0 : call0 = Head(e.in).call
    OBVIOUS
  <2>2. PICK d : d = [e EXCEPT !.in = Tail(@)]
    OBVIOUS
  <2>3. e.in # <<>> /\ Head(e.in).op = "send"
    BY <1>1, <1>3 DEF BeginSend, Reads
  <2>4. /\ d \in EngineState /\ Sound(d)
        /\ Head(e.in) \in Commands /\ CommandIsAsked(Head(e.in))
        /\ Head(e.in).op = "send" =>
             /\ e.task = NoCall
             /\ \A i \in 1..Len(d.in) : d.in[i].op # "send"
             /\ \A i \in 1..Len(d.out) : ~IsSendAnswer(d.out[i])
    BY <1>2, <2>2, <2>3, ReadIsSound
  <2>5. /\ call0 \in Calls /\ call0 # NoCall
        /\ call[call0].op = "send" /\ call[call0].pc = "pending"
    BY <2>1, <2>3, <2>4, EngineAssumption DEF Commands, CommandIsAsked
  <2>6. /\ d.pc = "running" /\ d.session = e.session /\ d.started = e.started
        /\ d.task = e.task /\ d.joining = e.joining
    BY <1>2, <2>2 DEF EngineState
  <2>7. CASE engine' = [engine EXCEPT ![g].in = Tail(@), ![g].task = call0, ![g].permit = FALSE]
    <3>1. PICK f : f = [d EXCEPT !.task = call0, !.permit = FALSE]
      OBVIOUS
    <3>2. /\ f \in EngineState /\ f.in = d.in /\ f.out = d.out /\ f.task = call0
          /\ f.joining = d.joining /\ f.session = d.session /\ f.started = d.started
          /\ f.pc = "running"
      BY <2>4, <2>5, <2>6, <3>1 DEF EngineState
    <3>3. Sound(f)
      <4>1. Asked(f)
        BY <2>4, <2>5, <3>2 DEF Sound, Asked
      <4>2. OneToken(f)
        BY <2>3, <2>4, <3>2 DEF Sound, OneToken
      <4>3. Honest(f)
        BY <2>4, <2>6, <3>2 DEF Sound, Honest, LineIsHonest
      <4>4. QED
        BY <4>1, <4>2, <4>3 DEF Sound
    <3>4. engine' = [engine EXCEPT ![g] = f]
      <4>1. engine' = [engine EXCEPT ![g] = [e EXCEPT !.in = Tail(@), !.task = call0,
                                                      !.permit = FALSE]]
        BY <1>1, <2>7
      <4>2. f = [e EXCEPT !.in = Tail(@), !.task = call0, !.permit = FALSE]
        BY <1>2, <2>2, <3>1 DEF EngineState
      <4>3. QED
        BY <4>1, <4>2
    <3>5. QED
      BY <1>1, <1>2, <2>6, <3>2, <3>3, <3>4 DEF Advances
  <2>8. CASE engine' = [engine EXCEPT ![g].in = Tail(@),
                                      ![g].out = Append(@, Response(call0, FALSE))]
    <3>1. PICK line : line = Response(call0, FALSE)
      OBVIOUS
    <3>2. PICK f : f = [d EXCEPT !.out = Append(@, line)]
      OBVIOUS
    <3>3. line \in Lines /\ line.event = "response" /\ line.call = call0
      BY <2>5, <3>1 DEF Response, Lines
    <3>4. /\ LineIsAsked(line) /\ LineIsHonest(d, line)
          /\ IsSendAnswer(line) =>
               /\ d.task = NoCall
               /\ \A i \in 1..Len(d.in) : d.in[i].op # "send"
               /\ \A i \in 1..Len(d.out) : ~IsSendAnswer(d.out[i])
      BY <2>3, <2>4, <2>5, <2>6, <3>3 DEF LineIsAsked, LineIsHonest
    <3>5. f \in EngineState /\ Sound(f)
      BY <2>4, <3>2, <3>3, <3>4, SayIsSound
    <3>6. /\ f.session = d.session /\ f.started = d.started /\ f.pc = "running"
          /\ f = [e EXCEPT !.in = Tail(@), !.out = Append(@, line)]
      BY <1>2, <2>2, <2>4, <2>6, <3>2 DEF EngineState
    <3>7. engine' = [engine EXCEPT ![g] = f]
      <4>1. engine' = [engine EXCEPT ![g] = [e EXCEPT !.in = Tail(@), !.out = Append(@, line)]]
        BY <1>1, <2>8, <3>1
      <4>2. QED
        BY <3>6, <4>1
    <3>8. QED
      BY <1>1, <1>2, <2>6, <3>5, <3>6, <3>7 DEF Advances
  <2>9. QED
    BY <1>1, <1>3, <2>1, <2>7, <2>8 DEF BeginSend
<1>4. CASE FinishSend(g)
  <2>1. PICK ok \in BOOLEAN :
          engine' = [engine EXCEPT ![g].task = NoCall,
                                   ![g].out = Append(@, Response(e.task, ok))]
    BY <1>1, <1>4 DEF FinishSend
  <2>2. PICK d : d = [e EXCEPT !.task = NoCall]
    OBVIOUS
  <2>3. /\ e.task \in Calls /\ e.task # NoCall
        /\ call[e.task].op = "send" /\ call[e.task].pc = "pending"
    BY <1>1, <1>2, <1>4, EngineFields DEF FinishSend, Sound, Asked
  <2>4. /\ d \in EngineState /\ d.in = e.in /\ d.out = e.out /\ d.task = NoCall
        /\ d.joining = e.joining /\ d.session = e.session /\ d.started = e.started
        /\ d.pc = "running"
    BY <1>2, <2>2 DEF EngineState
  <2>5. Sound(d)
    <3>1. Honest(d)
      BY <1>2, <2>4 DEF Sound, Honest, LineIsHonest
    <3>2. QED
      BY <1>2, <2>4, <3>1, SoundFields
  <2>6. PICK line : line = Response(e.task, ok)
    OBVIOUS
  <2>7. PICK f : f = [d EXCEPT !.out = Append(@, line)]
    OBVIOUS
  <2>8. line \in Lines /\ line.event = "response" /\ line.call = e.task
    BY <2>1, <2>3, <2>6 DEF Response, Lines
  <2>9. /\ LineIsAsked(line) /\ LineIsHonest(d, line)
        /\ IsSendAnswer(line) =>
             /\ d.task = NoCall
             /\ \A i \in 1..Len(d.in) : d.in[i].op # "send"
             /\ \A i \in 1..Len(d.out) : ~IsSendAnswer(d.out[i])
    BY <1>2, <2>3, <2>4, <2>8 DEF LineIsAsked, LineIsHonest, Sound, OneToken
  <2>10. f \in EngineState /\ Sound(f)
    BY <2>4, <2>5, <2>7, <2>8, <2>9, SayIsSound
  <2>11. /\ f.session = d.session /\ f.started = d.started /\ f.pc = "running"
         /\ f = [e EXCEPT !.task = NoCall, !.out = Append(@, line)]
    BY <1>2, <2>2, <2>4, <2>7 DEF EngineState
  <2>12. engine' = [engine EXCEPT ![g] = f]
    <3>1. engine' = [engine EXCEPT ![g] = [e EXCEPT !.task = NoCall, !.out = Append(@, line)]]
      BY <1>1, <2>1, <2>6
    <3>2. QED
      BY <2>11, <3>1
  <2>13. QED
    BY <1>1, <1>2, <2>4, <2>10, <2>11, <2>12 DEF Advances
<1>5. CASE ReleasePermit(g)
  <2>1. PICK f : f = [e EXCEPT !.permit = TRUE]
    OBVIOUS
  <2>2. /\ f \in EngineState /\ f.in = e.in /\ f.out = e.out /\ f.task = e.task
        /\ f.joining = e.joining /\ f.session = e.session /\ f.started = e.started
        /\ f.pc = "running"
    BY <1>2, <2>1 DEF EngineState
  <2>3. Sound(f)
    <3>1. Honest(f)
      BY <1>2, <2>2 DEF Sound, Honest, LineIsHonest
    <3>2. QED
      BY <1>2, <2>2, <3>1, SoundFields
  <2>4. engine' = [engine EXCEPT ![g] = f]
    BY <1>1, <1>5, <2>1 DEF ReleasePermit
  <2>5. QED
    BY <1>1, <1>2, <2>2, <2>3, <2>4 DEF Advances
<1>6. QED
  BY <1>3, <1>4, <1>5

\* All together: what an engine does in a step.
LEMMA EngineAdvances ==
  ASSUME engine \in [Engines -> EngineState], NEW g \in Engines, Sound(engine[g]), EngineStep(g)
  PROVE  \E f : engine' = [engine EXCEPT ![g] = f] /\ Advances(engine[g], f)
BY StartAdvances, ExitAdvances, PairAdvances, FailPairingAdvances, SessionAdvances, SendAdvances
   DEF EngineStep, RefuseSecondSession

-----------------------------------------------------------------------------
(***************************************************************************)
(* The controller.                                                         *)
(***************************************************************************)

\* Engine e has the send c.
Holds(e, c) ==
  \/ \E i \in 1..Len(e.in) : e.in[i].op = "send" /\ e.in[i].call = c
  \/ e.task = c
  \/ \E i \in 1..Len(e.out) : IsSendAnswer(e.out[i]) /\ e.out[i].call = c

\* A call, once made, stays what it is.
CallsStay ==
  \A c \in Calls : call[c].pc # "unused" => call'[c].op = call[c].op /\ call'[c].pc # "unused"

\* An engine that does not move stays sound when the sends it has stay pending.
LEMMA SoundStays ==
  ASSUME NEW e \in EngineState, Sound(e), CallsStay,
         \A c \in Calls : Holds(e, c) => call'[c].pc = "pending"
  PROVE  Sound(e)'
<1>1. /\ \A i \in 1..Len(e.in) : e.in[i] \in Commands
      /\ \A i \in 1..Len(e.out) : e.out[i] \in Lines
      /\ e.task \in Calls \cup {NoCall} /\ e.joining \in Calls \cup {NoCall}
  BY EngineFields
<1>2. /\ \A command \in Commands : command.call \in Calls
      /\ \A line \in Lines : line.event = "response" => line.call \in Calls
  BY DEF Commands, Lines
<1>3. \A i \in 1..Len(e.out) : IsSendAnswer(e.out[i])' <=> IsSendAnswer(e.out[i])
  BY <1>1, <1>2 DEF Sound, Asked, LineIsAsked, IsSendAnswer, CallsStay
<1>4. Asked(e)'
  <2>1. ASSUME NEW i \in 1..Len(e.in) PROVE CommandIsAsked(e.in[i])'
    <3>1. e.in[i].call \in Calls
      BY <1>1, <1>2
    <3>2. CommandIsAsked(e.in[i])
      BY DEF Sound, Asked
    <3>3. e.in[i].op = "send" => Holds(e, e.in[i].call)
      BY DEF Holds
    <3>4. QED
      BY <3>1, <3>2, <3>3 DEF CommandIsAsked, CallsStay
  <2>2. ASSUME NEW i \in 1..Len(e.out) PROVE LineIsAsked(e.out[i])'
    <3>1. CASE e.out[i].event = "response"
      <4>1. e.out[i].call \in Calls
        BY <1>1, <1>2, <3>1
      <4>2. LineIsAsked(e.out[i])
        BY DEF Sound, Asked
      <4>3. IsSendAnswer(e.out[i]) => Holds(e, e.out[i].call)
        BY DEF Holds
      <4>4. QED
        BY <3>1, <4>1, <4>2, <4>3 DEF LineIsAsked, IsSendAnswer, CallsStay
    <3>2. QED
      BY <3>1 DEF LineIsAsked
  <2>3. e.task # NoCall => call'[e.task].op = "send" /\ call'[e.task].pc = "pending"
    BY <1>1 DEF Sound, Asked, Holds, CallsStay
  <2>4. e.joining # NoCall => call'[e.joining].op = "join" /\ call'[e.joining].pc # "unused"
    BY <1>1 DEF Sound, Asked, CallsStay
  <2>5. QED
    BY <2>1, <2>2, <2>3, <2>4 DEF Asked
<1>5. OneToken(e)'
  BY <1>3 DEF Sound, OneToken
<1>6. Honest(e)'
  <2>1. ASSUME NEW i \in 1..Len(e.out), LineIsHonest(e, e.out[i])
        PROVE  LineIsHonest(e, e.out[i])'
    <3>1. e.out[i].event = "response" =>
            e.out[i].call \in Calls /\ call[e.out[i].call].pc # "unused"
      BY <1>1, <1>2 DEF Sound, Asked, LineIsAsked
    <3>2. QED
      BY <2>1, <3>1 DEF LineIsHonest, CallsStay
  <2>2. QED
    BY <2>1 DEF Sound, Honest
<1>7. QED
  BY <1>4, <1>5, <1>6 DEF Sound

\* A send that some engine has is the open one.
LEMMA HeldIsOpen ==
  ASSUME NEW e \in EngineState, Sound(e), NEW c \in Calls, Holds(e, c)
  PROVE  call[c].op = "send" /\ call[c].pc = "pending" /\ OpenSend(c)
<1>1. e.task \in Calls \cup {NoCall} /\ c # NoCall
  BY EngineFields, EngineAssumption
<1>2. QED
  BY <1>1 DEF Holds, Sound, Asked, CommandIsAsked, LineIsAsked, IsSendAnswer, OpenSend

\* Types, put together from its parts after a step ...
LEMMA TypesHold ==
  ASSUME engine' \in [Engines -> EngineState], child' \in Engines \cup {NoEngine},
         call' \in [Calls -> CallState], IsFiniteSet(Pending)', (Cardinality(Pending) <= MaxPending)',
         outbound' \in BOOLEAN, closing' \subseteq Engines,
         received' \subseteq Digests, shown' \subseteq Digests, toStore' \in Seq(Messages),
         ui' \in {"idle", "joining", "waiting", "connecting", "connected"},
         disconnects' \in 0..MaxDisconnects
  PROVE  Types'
<1>1. \A g \in Engines :
        /\ engine'[g].pc \in {"unborn", "running", "gone"}
        /\ engine'[g].session \in {"none", "pairing", "connected", "over"}
        /\ engine'[g].task \in Calls \cup {NoCall}
        /\ engine'[g].joining \in Calls \cup {NoCall}
        /\ engine'[g].files \in 0..MaxFiles
        /\ engine'[g].started \in BOOLEAN /\ engine'[g].permit \in BOOLEAN
  BY EngineFields
<1>2. QED
  BY <1>1 DEF Types, TypeOK, CallState

\* ... and taken apart.
LEMMA TypesGive ==
  ASSUME Types
  PROVE  /\ engine \in [Engines -> EngineState] /\ child \in Engines \cup {NoEngine}
         /\ call \in [Calls -> CallState] /\ IsFiniteSet(Pending)
         /\ Cardinality(Pending) <= MaxPending
         /\ outbound \in BOOLEAN /\ closing \subseteq Engines
         /\ received \subseteq Digests /\ shown \subseteq Digests /\ toStore \in Seq(Messages)
         /\ ui \in {"idle", "joining", "waiting", "connecting", "connected"}
         /\ disconnects \in 0..MaxDisconnects
BY DEF Types, TypeOK, CallState

\* Of fewer pending requests there are not more.
LEMMA PendingShrinks ==
  ASSUME Types, \A c \in Calls : call'[c].pc = "pending" => call[c].pc = "pending"
  PROVE  IsFiniteSet(Pending)' /\ (Cardinality(Pending) <= MaxPending)'
<1>1. Pending' \in SUBSET Pending
  BY DEF Pending
<1>2. IsFiniteSet(Pending) /\ Cardinality(Pending) <= MaxPending /\ MaxPending \in Nat
  BY TypesGive, SessionAssumption
<1>3. IsFiniteSet(Pending') /\ Cardinality(Pending') <= Cardinality(Pending)
  BY <1>1, <1>2, FS_Subset
<1>4. Cardinality(Pending') \in Nat /\ Cardinality(Pending) \in Nat
  BY <1>2, <1>3, FS_CardinalityType
<1>5. QED
  BY <1>2, <1>3, <1>4

\* failPending: what was pending is rejected, and nothing else changes.
LEMMA PendingFails ==
  ASSUME Types, call' = FailPending
  PROVE  /\ call' \in [Calls -> CallState] /\ CallsStay
         /\ \A c \in Calls : call'[c].op = call[c].op
         /\ \A c \in Calls : call'[c].pc = IF call[c].pc = "pending" THEN "rejected" ELSE call[c].pc
<1>1. call \in [Calls -> CallState]
  BY TypesGive
<1>2. \A c \in Calls : call[c] \in CallState
  BY <1>1
<1>3. \A c \in Calls : [call[c] EXCEPT !.pc = "rejected"] \in CallState
  BY <1>2 DEF CallState
<1>4. call' \in [Calls -> CallState]
  BY <1>2, <1>3 DEF FailPending
<1>5. ASSUME NEW c \in Calls
      PROVE  /\ call'[c].op = call[c].op
             /\ call'[c].pc = IF call[c].pc = "pending" THEN "rejected" ELSE call[c].pc
  <2>1. call'[c] = IF call[c].pc = "pending" THEN [call[c] EXCEPT !.pc = "rejected"] ELSE call[c]
    BY DEF FailPending, Pending
  <2>2. QED
    BY <1>2, <2>1 DEF CallState
<1>6. QED
  BY <1>4, <1>5 DEF CallsStay

\* disconnect() leaves no engine that has anything to tell.
LEMMA DisconnectSilences ==
  ASSUME Types, OnlyTheChildLives, NEW known, known \in [Engines -> EngineState],
         \A g \in Engines \ {child} : known[g] = engine[g], Disconnect(known)
  PROVE  /\ engine' \in [Engines -> EngineState]
         /\ \A g \in Engines : engine'[g] \in {Unborn, Gone}
         /\ child' = NoEngine /\ call' = FailPending /\ received' = {}
         /\ closing' = IF child = NoEngine THEN closing ELSE closing \cup {child}
         /\ closing' \subseteq Engines
         /\ toStore' = IF child = NoEngine THEN Append(toStore, State("idle")) ELSE toStore
         /\ toStore' \in Seq(Messages)
<1>1. /\ child \in Engines \cup {NoEngine} /\ NoEngine \notin Engines
      /\ closing \subseteq Engines /\ toStore \in Seq(Messages)
  BY TypesGive, SessionAssumption
<1>2. State("idle") \in Messages
  BY DEF State, Messages
<1>3. Append(toStore, State("idle")) \in Seq(Messages)
  BY <1>1, <1>2, AppendOf
<1>4. Gone \in EngineState
  BY SilentEngines
<1>5. CASE child = NoEngine
  BY <1>1, <1>3, <1>5 DEF Disconnect, OnlyTheChildLives
<1>6. CASE child # NoEngine
  <2>1. engine' = [known EXCEPT ![child] = Gone] /\ child \in Engines
    BY <1>1, <1>6 DEF Disconnect
  <2>2. engine' \in [Engines -> EngineState] /\ \A g \in Engines : engine'[g] \in {Unborn, Gone}
    BY <1>4, <2>1 DEF OnlyTheChildLives
  <2>3. QED
    BY <1>1, <1>6, <2>2 DEF Disconnect
<1>7. QED
  BY <1>5, <1>6

\* With all engines silent and what was pending rejected, nothing is left to relate.
LEMMA SilenceKeeps ==
  ASSUME ControllerInvariant, child' = NoEngine, call' = FailPending,
         engine' \in [Engines -> EngineState], \A g \in Engines : engine'[g] \in {Unborn, Gone},
         UNCHANGED outbound, closing' \subseteq Engines, toStore' \in Seq(Messages),
         received' \subseteq Digests, shown' \subseteq Digests,
         ui' \in {"idle", "joining", "waiting", "connecting", "connected"},
         disconnects' \in 0..MaxDisconnects
  PROVE  ControllerInvariant'
<1>1. Types /\ OneSendIsOpen
  BY DEF ControllerInvariant
<1>2. /\ call' \in [Calls -> CallState] /\ CallsStay
      /\ \A c \in Calls : call'[c].op = call[c].op
      /\ \A c \in Calls : call'[c].pc = IF call[c].pc = "pending" THEN "rejected" ELSE call[c].pc
  BY <1>1, PendingFails
<1>3. IsFiniteSet(Pending)' /\ (Cardinality(Pending) <= MaxPending)'
  BY <1>1, <1>2, PendingShrinks
<1>4. Types'
  BY <1>1, <1>2, <1>3, TypesGive, TypesHold
<1>5. OnlyTheChildLives'
  BY DEF OnlyTheChildLives
<1>6. OneSendIsOpen'
  BY <1>1, <1>2 DEF OneSendIsOpen, OpenSend
<1>7. EnginesAreSound'
  <2>1. \A e \in {Unborn, Gone} :
          /\ e.pc # "running" /\ Len(e.in) = 0 /\ Len(e.out) = 0
          /\ e.task = NoCall /\ e.joining = NoCall
    BY DEF Unborn, Gone
  <2>2. ASSUME NEW g \in Engines PROVE Sound(engine[g])'
    <3>1. /\ engine'[g].pc # "running" /\ Len(engine'[g].in) = 0 /\ Len(engine'[g].out) = 0
          /\ engine'[g].task = NoCall /\ engine'[g].joining = NoCall
      BY <2>1
    <3>2. QED
      BY <3>1 DEF Sound, Asked, OneToken, Honest
  <2>3. QED
    BY <2>2 DEF EnginesAreSound
<1>8. QED
  BY <1>4, <1>5, <1>6, <1>7 DEF ControllerInvariant

\* A timeout of a request is a disconnect().
LEMMA RequestTimesOutKeeps ==
  ASSUME ControllerInvariant, NEW c \in Calls, RequestTimesOut(c)
  PROVE  ControllerInvariant'
<1>1. Types /\ OnlyTheChildLives /\ Disconnect(engine) /\ UNCHANGED <<outbound, storeVars>>
  BY DEF ControllerInvariant, RequestTimesOut
<1>2. engine \in [Engines -> EngineState]
  BY <1>1, TypesGive
<1>3. /\ engine' \in [Engines -> EngineState]
      /\ \A g \in Engines : engine'[g] \in {Unborn, Gone}
      /\ child' = NoEngine /\ call' = FailPending /\ received' = {}
      /\ closing' \subseteq Engines /\ toStore' \in Seq(Messages)
  BY <1>1, <1>2, DisconnectSilences
<1>4. UNCHANGED outbound /\ UNCHANGED ui /\ UNCHANGED shown /\ UNCHANGED disconnects
  BY <1>1 DEF storeVars
<1>5. QED
  BY <1>1, <1>3, <1>4, TypesGive, SilenceKeeps

\* So is the click on Disconnect.
LEMMA UserDisconnectsKeeps ==
  ASSUME ControllerInvariant, UserDisconnects
  PROVE  ControllerInvariant'
<1>1. /\ Types /\ OnlyTheChildLives /\ Disconnect(engine) /\ UNCHANGED outbound
      /\ ui' = "idle" /\ shown' = {} /\ disconnects' = disconnects + 1
      /\ disconnects < MaxDisconnects
  BY DEF ControllerInvariant, UserDisconnects
<1>2. engine \in [Engines -> EngineState] /\ disconnects \in 0..MaxDisconnects
  BY <1>1, TypesGive
<1>3. /\ engine' \in [Engines -> EngineState]
      /\ \A g \in Engines : engine'[g] \in {Unborn, Gone}
      /\ child' = NoEngine /\ call' = FailPending /\ received' = {}
      /\ closing' \subseteq Engines /\ toStore' \in Seq(Messages)
  BY <1>1, <1>2, DisconnectSilences
<1>4. disconnects' \in 0..MaxDisconnects
  BY <1>1, <1>2, SessionAssumption
<1>5. QED
  BY <1>1, <1>3, <1>4, SilenceKeeps

\* The exit of the engine fails what is pending, as disconnect() does.
LEMMA EngineGoneKeeps ==
  ASSUME ControllerInvariant, EngineGone
  PROVE  ControllerInvariant'
<1>1. Types /\ OnlyTheChildLives
  BY DEF ControllerInvariant
<1>2. /\ child \in Engines \cup {NoEngine} /\ engine \in [Engines -> EngineState]
      /\ toStore \in Seq(Messages)
  BY <1>1, TypesGive
<1>3. /\ child # NoEngine /\ child' = NoEngine /\ call' = FailPending
      /\ engine' = [engine EXCEPT ![child] = Gone]
      /\ toStore' = Append(toStore, State("idle"))
  BY DEF EngineGone
<1>4. UNCHANGED <<outbound, closing, received, ui, shown, disconnects>>
  BY DEF EngineGone, storeVars
<1>5. State("idle") \in Messages
  BY DEF State, Messages
<1>6. toStore' \in Seq(Messages)
  BY <1>2, <1>3, <1>5, AppendOf
<1>7. engine' \in [Engines -> EngineState] /\ \A g \in Engines : engine'[g] \in {Unborn, Gone}
  BY <1>1, <1>2, <1>3, SilentEngines DEF OnlyTheChildLives
<1>8. QED
  BY <1>1, <1>3, <1>4, <1>6, <1>7, TypesGive, SilenceKeeps

\* What leaves engines, calls and the controller alone.
LEMMA NothingMoves ==
  ASSUME ControllerInvariant, UNCHANGED <<engine, child, call, outbound>>,
         closing' \subseteq Engines, toStore' \in Seq(Messages),
         received' \subseteq Digests, shown' \subseteq Digests,
         ui' \in {"idle", "joining", "waiting", "connecting", "connected"},
         disconnects' \in 0..MaxDisconnects
  PROVE  ControllerInvariant'
<1>1. Types /\ OnlyTheChildLives /\ OneSendIsOpen /\ EnginesAreSound
  BY DEF ControllerInvariant
<1>2. engine' = engine /\ child' = child /\ call' = call /\ outbound' = outbound
  OBVIOUS
<1>3. IsFiniteSet(Pending)' /\ (Cardinality(Pending) <= MaxPending)'
  BY <1>1, <1>2, PendingShrinks
<1>4. Types'
  BY <1>1, <1>2, <1>3, TypesGive, TypesHold
<1>5. OnlyTheChildLives' /\ OneSendIsOpen'
  <2>1. OnlyTheChildLives'
    BY <1>1, <1>2 DEF OnlyTheChildLives
  <2>2. \A c \in Calls : OpenSend(c)' <=> OpenSend(c)
    BY <1>2 DEF OpenSend
  <2>3. OneSendIsOpen'
    <3>1. \A c, d \in Calls : OpenSend(c)' /\ OpenSend(d)' => c = d
      BY <1>1, <2>2 DEF OneSendIsOpen
    <3>2. \A c \in Calls : OpenSend(c)' => outbound
      BY <1>1, <2>2 DEF OneSendIsOpen
    <3>3. QED
      BY <1>2, <3>1, <3>2 DEF OneSendIsOpen
  <2>4. QED
    BY <2>1, <2>3
<1>6. EnginesAreSound'
  BY <1>1, <1>2 DEF EnginesAreSound, Sound, Asked, OneToken, Honest, CommandIsAsked, LineIsAsked,
     IsSendAnswer, LineIsHonest
<1>7. QED
  BY <1>4, <1>5, <1>6 DEF ControllerInvariant

\* disconnect() goes on after its await.
LEMMA DisconnectReturnsKeeps ==
  ASSUME ControllerInvariant, NEW g \in Engines, DisconnectReturns(g)
  PROVE  ControllerInvariant'
<1>1. Types /\ closing' \subseteq closing /\ toStore' = Append(toStore, State("idle"))
  BY DEF ControllerInvariant, DisconnectReturns
<1>2. UNCHANGED <<engine, child, call, outbound, received, ui, shown, disconnects>>
  BY DEF DisconnectReturns, storeVars
<1>3. State("idle") \in Messages
  BY DEF State, Messages
<1>4. toStore' \in Seq(Messages)
  BY <1>1, <1>3, TypesGive, AppendOf
<1>5. QED
  BY <1>1, <1>2, <1>4, TypesGive, NothingMoves

\* The renderer moves the window only.
LEMMA StoreTakesKeeps ==
  ASSUME ControllerInvariant, StoreTakes
  PROVE  ControllerInvariant'
<1>1. Types
  BY DEF ControllerInvariant
<1>2. UNCHANGED <<engine, child, call, outbound, closing, received, disconnects>>
  BY DEF StoreTakes
<1>3. PICK m : m = Head(toStore)
  OBVIOUS
<1>4. toStore \in Seq(Messages) /\ toStore # <<>> /\ toStore' = Tail(toStore)
  BY <1>1, TypesGive DEF StoreTakes
<1>5. m \in Messages /\ toStore' \in Seq(Messages)
  BY <1>3, <1>4, TailOf
<1>6. /\ m.kind = "state" => m.state \in {"idle", "connected"}
      /\ m.kind = "transfer" => m.digest \in Digests
  BY <1>5 DEF Messages
<1>7. /\ ui' \in {"idle", "joining", "waiting", "connecting", "connected"}
      /\ shown' \subseteq Digests
  BY <1>1, <1>3, <1>6, TypesGive DEF StoreTakes, Shows
<1>8. QED
  BY <1>1, <1>2, <1>5, <1>7, TypesGive, NothingMoves

\* An engine that acts is the child.
LEMMA EngineActsKeeps ==
  ASSUME ControllerInvariant, EngineActs
  PROVE  ControllerInvariant'
<1>1. Types /\ OnlyTheChildLives /\ OneSendIsOpen /\ EnginesAreSound
  BY DEF ControllerInvariant
<1>2. UNCHANGED <<child, call, outbound, closing, received, toStore, ui, shown, disconnects>>
  BY DEF EngineActs, storeVars
<1>3. engine \in [Engines -> EngineState]
  BY <1>1, TypesGive
<1>4. PICK g \in Engines : EngineStep(g)
  BY DEF EngineActs
<1>5. PICK f : engine' = [engine EXCEPT ![g] = f] /\ Advances(engine[g], f)
  BY <1>1, <1>3, <1>4, EngineAdvances DEF EnginesAreSound
<1>6. /\ engine[g].pc = "running" /\ f \in EngineState /\ Sound(f)
      /\ f.pc # "unborn"
  BY <1>5 DEF Advances
<1>7. g = child
  BY <1>1, <1>6 DEF OnlyTheChildLives, Unborn, Gone
<1>8. engine' \in [Engines -> EngineState]
  BY <1>3, <1>5, <1>6
<1>9. IsFiniteSet(Pending)' /\ (Cardinality(Pending) <= MaxPending)'
  BY <1>1, <1>2, PendingShrinks
<1>10. Types'
  BY <1>1, <1>2, <1>8, <1>9, TypesGive, TypesHold
<1>11. OnlyTheChildLives'
  BY <1>1, <1>2, <1>3, <1>5, <1>6, <1>7 DEF OnlyTheChildLives
<1>12. OneSendIsOpen'
  BY <1>1, <1>2 DEF OneSendIsOpen, OpenSend
<1>13. \A h \in Engines : Sound(engine[h]) /\ (h # g => engine'[h] = engine[h]) /\ engine'[g] = f
  <2>1. \A h \in Engines : Sound(engine[h])
    BY <1>1, Zenon DEF EnginesAreSound
  <2>2. QED
    BY <1>3, <1>5, <2>1
<1>14. ASSUME NEW h \in Engines PROVE Sound(engine[h])'
  <2>1. Sound(engine'[h])
    BY <1>6, <1>13
  <2>2. QED
    BY <1>2, <2>1 DEF Sound, Asked, OneToken, Honest, CommandIsAsked, LineIsAsked,
       IsSendAnswer, LineIsHonest
<1>15. QED
  BY <1>10, <1>11, <1>12, <1>14 DEF ControllerInvariant, EnginesAreSound

\* An engine that has not begun, or is over, has no send.
LEMMA SilentHolds == \A c \in Calls : ~Holds(Unborn, c) /\ ~Holds(Gone, c)
<1>1. \A e \in {Unborn, Gone} : Len(e.in) = 0 /\ Len(e.out) = 0 /\ e.task = NoCall
  BY DEF Unborn, Gone
<1>2. QED
  BY <1>1, EngineAssumption DEF Holds

\* What the engine h becomes is sound.
LEMMA EngineIsSound ==
  ASSUME NEW h \in Engines, NEW f, engine'[h] = f, Sound(f)'
  PROVE  Sound(engine[h])'
<1>1. PICK e : e = engine'[h]
  OBVIOUS
<1>2. Sound(e)'
  BY <1>1
<1>3. Asked(engine[h])'
  BY <1>1, <1>2 DEF Sound, Asked, CommandIsAsked, LineIsAsked
<1>4. OneToken(engine[h])'
  BY <1>1, <1>2 DEF Sound, OneToken, IsSendAnswer
<1>5. Honest(engine[h])'
  BY <1>1, <1>2 DEF Sound, Honest, LineIsHonest
<1>6. QED
  BY <1>3, <1>4, <1>5 DEF Sound

\* The child, or the engine that becomes it, moves, and calls with it.
LEMMA ChildMoves ==
  ASSUME ControllerInvariant, NEW g \in Engines, child \in {g, NoEngine}, child' = g,
         NEW f \in EngineState, engine' = [engine EXCEPT ![g] = f], Sound(f)', f.pc # "unborn",
         call' \in [Calls -> CallState], CallsStay,
         IsFiniteSet(Pending)', (Cardinality(Pending) <= MaxPending)',
         UNCHANGED <<outbound, closing>>, OneSendIsOpen', toStore' \in Seq(Messages),
         received' \subseteq Digests, UNCHANGED <<shown, disconnects>>,
         ui' \in {"idle", "joining", "waiting", "connecting", "connected"}
  PROVE  ControllerInvariant'
<1>1. Types /\ OnlyTheChildLives /\ EnginesAreSound /\ engine \in [Engines -> EngineState]
  BY TypesGive DEF ControllerInvariant
<1>2. engine' \in [Engines -> EngineState]
  BY <1>1
<1>3. Types'
  BY <1>1, <1>2, TypesGive, TypesHold
<1>4. \A h \in Engines \ {g} : engine'[h] = engine[h] /\ engine[h] \in {Unborn, Gone}
  BY <1>1, SessionAssumption DEF OnlyTheChildLives
<1>5. OnlyTheChildLives'
  BY <1>1, <1>4 DEF OnlyTheChildLives
<1>6. ASSUME NEW h \in Engines PROVE Sound(engine[h])'
  <2>1. CASE h = g
    BY <1>1, <2>1, EngineIsSound
  <2>2. CASE h # g
    <3>1. PICK d : d = engine[h]
      OBVIOUS
    <3>2. d \in EngineState /\ engine'[h] = d /\ Sound(d)
      BY <1>1, <1>4, <2>2, <3>1 DEF EnginesAreSound
    <3>3. \A c \in Calls : ~Holds(d, c)
      BY <1>4, <2>2, <3>1, SilentHolds
    <3>4. Sound(d)'
      BY <3>2, <3>3, SoundStays
    <3>5. QED
      BY <3>2, <3>4, EngineIsSound
  <2>3. QED
    BY <2>1, <2>2
<1>7. QED
  BY <1>3, <1>5, <1>6 DEF ControllerInvariant, EnginesAreSound

\* A call moves that no engine holds.
LEMMA CallMoves ==
  ASSUME ControllerInvariant, NEW c \in Calls, NEW d \in CallState, call' = [call EXCEPT ![c] = d],
         call[c].pc # "pending", d.pc \notin {"unused", "pending"},
         call[c].pc # "unused" => d.op = call[c].op,
         UNCHANGED <<engine, child, closing, received, shown, disconnects>>,
         outbound' \in BOOLEAN, OneSendIsOpen', toStore' \in Seq(Messages),
         ui' \in {"idle", "joining", "waiting", "connecting", "connected"}
  PROVE  ControllerInvariant'
<1>1. /\ Types /\ OnlyTheChildLives /\ EnginesAreSound
      /\ engine \in [Engines -> EngineState] /\ call \in [Calls -> CallState]
  BY TypesGive DEF ControllerInvariant
<1>2. call' \in [Calls -> CallState] /\ call'[c] = d /\ \A b \in Calls \ {c} : call'[b] = call[b]
  BY <1>1
<1>3. CallsStay
  BY <1>2 DEF CallsStay
<1>4. IsFiniteSet(Pending)' /\ (Cardinality(Pending) <= MaxPending)'
  <2>1. \A b \in Calls : call'[b].pc = "pending" => call[b].pc = "pending"
    BY <1>2
  <2>2. QED
    BY <1>1, <2>1, PendingShrinks
<1>5. Types'
  BY <1>1, <1>2, <1>4, TypesGive, TypesHold
<1>6. OnlyTheChildLives'
  BY <1>1 DEF OnlyTheChildLives
<1>7. ASSUME NEW h \in Engines PROVE Sound(engine[h])'
  <2>1. PICK e : e = engine[h]
    OBVIOUS
  <2>2. e \in EngineState /\ engine'[h] = e /\ Sound(e)
    BY <1>1, <2>1 DEF EnginesAreSound
  <2>3. \A b \in Calls : Holds(e, b) => call[b].pc = "pending"
    BY <2>2, HeldIsOpen
  <2>4. \A b \in Calls : Holds(e, b) => call'[b].pc = "pending"
    BY <1>2, <2>3
  <2>5. QED
    <3>1. Sound(e)'
      BY <1>3, <2>2, <2>4, SoundStays
    <3>2. QED
      BY <2>2, <3>1, EngineIsSound
<1>8. QED
  BY <1>5, <1>6, <1>7 DEF ControllerInvariant, EnginesAreSound

\* An answer that the engine read for its send is nowhere left in it.
LEMMA HearIsSound ==
  ASSUME NEW e \in EngineState, Sound(e), e.out # <<>>, NEW f, f = [e EXCEPT !.out = Tail(@)]
  PROVE  /\ f \in EngineState /\ Sound(f)
         /\ f.pc = e.pc /\ f.started = e.started /\ f.session = e.session
         /\ Head(e.out) \in Lines /\ LineIsAsked(Head(e.out))
         /\ e.pc = "running" => LineIsHonest(e, Head(e.out))
         /\ IsSendAnswer(Head(e.out)) => \A c \in Calls : ~Holds(f, c)
<1>1. e.out \in Seq(Lines)
  BY EngineFields
<1>2. /\ Head(e.out) = e.out[1] /\ Head(e.out) \in Lines /\ 1 \in 1..Len(e.out)
      /\ Tail(e.out) \in Seq(Lines) /\ Len(e.out) \in Nat /\ Len(Tail(e.out)) \in Nat
      /\ \A i \in 1..Len(Tail(e.out)) : i + 1 \in 1..Len(e.out) /\ Tail(e.out)[i] = e.out[i + 1]
  BY <1>1, TailOf, LenProperties
<1>3. /\ f.out = Tail(e.out) /\ f.in = e.in /\ f.task = e.task /\ f.joining = e.joining
      /\ f.pc = e.pc /\ f.session = e.session /\ f.started = e.started
      /\ f \in EngineState
  BY <1>2 DEF EngineState
<1>4. Asked(f)
  BY <1>2, <1>3 DEF Sound, Asked
<1>5. \A i, j \in 1..Len(f.out) : IsSendAnswer(f.out[i]) /\ IsSendAnswer(f.out[j]) => i = j
  <2>1. TAKE i, j \in 1..Len(f.out)
  <2>2. HAVE IsSendAnswer(f.out[i]) /\ IsSendAnswer(f.out[j])
  <2>3. /\ i + 1 \in 1..Len(e.out) /\ IsSendAnswer(e.out[i + 1])
        /\ j + 1 \in 1..Len(e.out) /\ IsSendAnswer(e.out[j + 1])
    BY <1>2, <1>3, <2>2
  <2>4. i + 1 = j + 1
    BY <2>3 DEF Sound, OneToken
  <2>5. QED
    BY <1>2, <1>3, <2>4
<1>6. OneToken(f)
  <2>1. OneToken(e)
    BY DEF Sound
  <2>2. \A i \in 1..Len(f.out) :
          IsSendAnswer(f.out[i]) => \E k \in 1..Len(e.out) : IsSendAnswer(e.out[k])
    BY <1>2, <1>3
  <2>3. QED
    BY <1>3, <1>5, <2>1, <2>2 DEF OneToken
<1>7. Honest(f)
  BY <1>2, <1>3 DEF Sound, Honest, LineIsHonest
<1>8. ASSUME IsSendAnswer(Head(e.out)), NEW c \in Calls PROVE ~Holds(f, c)
  <2>1. /\ e.task = NoCall /\ \A i \in 1..Len(e.in) : e.in[i].op # "send"
        /\ \A i \in 1..Len(e.out) : i # 1 => ~IsSendAnswer(e.out[i])
    BY <1>2, <1>8 DEF Sound, OneToken
  <2>2. ASSUME NEW i \in 1..Len(f.out) PROVE ~IsSendAnswer(f.out[i])
    BY <1>2, <1>3, <2>1
  <2>3. QED
    BY <1>3, <2>1, <2>2, EngineAssumption DEF Holds
<1>9. LineIsAsked(Head(e.out)) /\ (e.pc = "running" => LineIsHonest(e, Head(e.out)))
  BY <1>2 DEF Sound, Asked, Honest
<1>10. QED
  BY <1>2, <1>3, <1>4, <1>6, <1>7, <1>8, <1>9 DEF Sound

\* A line of the child is handled: a response settles its call, an error disconnects.
LEMMA HandleLineKeeps ==
  ASSUME ControllerInvariant, HandleLine
  PROVE  ControllerInvariant'
<1>1. /\ Types /\ OnlyTheChildLives /\ OneSendIsOpen /\ EnginesAreSound
      /\ engine \in [Engines -> EngineState] /\ call \in [Calls -> CallState]
      /\ toStore \in Seq(Messages) /\ received \subseteq Digests
      /\ UNCHANGED outbound /\ UNCHANGED ui /\ UNCHANGED shown /\ UNCHANGED disconnects
  BY TypesGive, Zenon DEF ControllerInvariant, HandleLine, storeVars
<1>2. PICK g \in Engines : g = child
  BY <1>1, TypesGive DEF HandleLine
<1>3. PICK e \in EngineState : e = engine[g]
  BY <1>1
<1>4. PICK line : line = Head(e.out)
  OBVIOUS
<1>5. PICK f : f = [e EXCEPT !.out = Tail(@)]
  OBVIOUS
<1>6. Sound(e) /\ e.out # <<>> /\ e.pc # "unborn"
  BY <1>1, <1>2, <1>3, SessionAssumption DEF EnginesAreSound, HandleLine, OnlyTheChildLives
<1>7. /\ f \in EngineState /\ Sound(f) /\ f.pc = e.pc
      /\ line \in Lines /\ LineIsAsked(line)
      /\ IsSendAnswer(line) => \A c \in Calls : ~Holds(f, c)
  BY <1>4, <1>5, <1>6, HearIsSound
<1>8. PICK rest : rest = [engine EXCEPT ![g] = f]
  OBVIOUS
<1>9. rest \in [Engines -> EngineState] /\ \A h \in Engines \ {child} : rest[h] = engine[h]
  BY <1>1, <1>2, <1>7, <1>8
<1>10. rest = [engine EXCEPT ![child].out = Tail(@)]
  BY <1>1, <1>2, <1>3, <1>5, <1>8
<1>11. \A c \in Calls : Holds(f, c) => call[c].pc = "pending" /\ call[c].op = "send"
  BY <1>7, HeldIsOpen
<1>12. CASE /\ engine' = rest /\ UNCHANGED <<child, closing, call>>
            /\ received' \subseteq Digests /\ toStore' \in Seq(Messages)
  <2>1. IsFiniteSet(Pending)' /\ (Cardinality(Pending) <= MaxPending)'
    BY <1>1, <1>12, PendingShrinks
  <2>2. CallsStay /\ OneSendIsOpen'
    BY <1>1, <1>12 DEF CallsStay, OneSendIsOpen, OpenSend
  <2>3. /\ child \in {g, NoEngine} /\ child' = g /\ call' \in [Calls -> CallState]
    BY <1>1, <1>2, <1>12
  <2>7. Sound(f)'
    <3>1. \A c \in Calls : Holds(f, c) => call'[c].pc = "pending"
      BY <1>11, <1>12
    <3>2. QED
      BY <1>7, <2>2, <3>1, SoundStays
  <2>4. engine' = [engine EXCEPT ![g] = f] /\ f.pc # "unborn"
    BY <1>6, <1>7, <1>8, <1>12
  <2>5. /\ UNCHANGED <<outbound, closing>> /\ UNCHANGED <<shown, disconnects>>
        /\ ui' \in {"idle", "joining", "waiting", "connecting", "connected"}
    BY <1>1, <1>12, TypesGive
  <2>6. QED
    BY <1>7, <1>12, <2>1, <2>2, <2>3, <2>4, <2>5, <2>7, ChildMoves
<1>13. CASE /\ line.event = "connected" /\ toStore' = Append(toStore, State("connected"))
            /\ engine' = rest /\ UNCHANGED <<child, closing, received, call>>
  <2>1. State("connected") \in Messages
    BY DEF State, Messages
  <2>2. QED
    BY <1>1, <1>12, <1>13, <2>1, AppendOf
<1>14. CASE /\ line.event = "received" /\ received' = received \cup {line.digest}
            /\ toStore' = Append(toStore, Transfer(line.digest))
            /\ engine' = rest /\ UNCHANGED <<child, closing, call>>
  <2>1. line.digest \in Digests
    BY <1>7, <1>14 DEF Lines
  <2>2. Transfer(line.digest) \in Messages
    BY <2>1 DEF Transfer, Messages
  <2>3. QED
    BY <1>1, <1>12, <1>14, <2>1, <2>2, AppendOf
<1>15. CASE line.event = "error" /\ Disconnect(rest)
  <2>1. /\ engine' \in [Engines -> EngineState]
        /\ \A h \in Engines : engine'[h] \in {Unborn, Gone}
        /\ child' = NoEngine /\ call' = FailPending /\ received' = {}
        /\ closing' \subseteq Engines /\ toStore' \in Seq(Messages)
    BY <1>1, <1>9, <1>15, DisconnectSilences
  <2>2. QED
    BY <1>1, <2>1, TypesGive, SilenceKeeps
<1>16. CASE /\ line.event = "response"
            /\ call' = [call EXCEPT ![line.call].pc =
                          IF @ # "pending" THEN @ ELSE IF line.ok THEN "resolved" ELSE "rejected"]
            /\ engine' = rest /\ UNCHANGED <<child, closing, received, toStore>>
  <2>1. PICK b \in Calls : b = line.call
    BY <1>7, <1>16 DEF Lines
  <2>2. PICK pc \in {"unused", "stat", "resolved", "rejected", "answered"} :
          /\ call' = [call EXCEPT ![b] = [call[b] EXCEPT !.pc = pc]]
          /\ IF call[b].pc # "pending" THEN pc = call[b].pc ELSE pc \in {"resolved", "rejected"}
    <3>1. call[b].pc \in {"unused", "stat", "pending", "resolved", "rejected", "answered"}
      BY <1>1 DEF CallState
    <3>2. CASE call[b].pc # "pending"
      BY <1>16, <2>1, <3>1, <3>2
    <3>3. CASE call[b].pc = "pending"
      BY <1>16, <2>1, <3>3
    <3>4. QED
      BY <3>2, <3>3
  <2>3. /\ [call[b] EXCEPT !.pc = pc] \in CallState
        /\ [call[b] EXCEPT !.pc = pc].pc = pc /\ [call[b] EXCEPT !.pc = pc].op = call[b].op
    <3>1. call[b] \in CallState
      BY <1>1
    <3>2. QED
      BY <2>2, <3>1 DEF CallState
  <2>4. /\ call' \in [Calls -> CallState] /\ call'[b].pc = pc /\ call'[b].op = call[b].op
        /\ \A c \in Calls \ {b} : call'[c] = call[c]
    BY <1>1, <2>2, <2>3
  <2>5. call[b].pc # "unused" /\ (call[b].op = "send" => IsSendAnswer(line))
    BY <1>7, <1>16, <2>1 DEF LineIsAsked, IsSendAnswer
  <2>6. pc # "unused" /\ (pc = "answered" => call[b].pc = "answered")
    <3>1. CASE call[b].pc = "pending"
      <4>1. pc \in {"resolved", "rejected"}
        <5>1. call'[b].pc = IF line.ok THEN "resolved" ELSE "rejected"
          BY <1>1, <1>16, <2>1, <3>1 DEF CallState
        <5>2. QED
          BY <2>4, <5>1
      <4>2. QED
        BY <4>1
    <3>2. QED
      BY <2>2, <2>5, <3>1
  <2>7. \A c \in Calls : call'[c].pc = "pending" => call[c].pc = "pending"
    BY <2>2, <2>4
  <2>8. IsFiniteSet(Pending)' /\ (Cardinality(Pending) <= MaxPending)'
    BY <1>1, <2>7, PendingShrinks
  <2>9. CallsStay
    BY <2>4, <2>6 DEF CallsStay
  <2>10. OneSendIsOpen'
    <3>1. ASSUME NEW c \in Calls, OpenSend(c)' PROVE OpenSend(c)
      BY <2>2, <2>4, <2>6, <3>1 DEF OpenSend
    <3>2. QED
      BY <1>1, <3>1 DEF OneSendIsOpen
  <2>11. Sound(f)'
    <3>1. \A c \in Calls : Holds(f, c) => call'[c].pc = "pending"
      BY <1>7, <1>11, <2>4, <2>5
    <3>2. QED
      BY <1>7, <2>9, <3>1, SoundStays
  <2>12. /\ UNCHANGED <<outbound, closing>> /\ UNCHANGED <<shown, disconnects>>
         /\ child \in {g, NoEngine} /\ child' = g /\ received' \subseteq Digests
         /\ ui' \in {"idle", "joining", "waiting", "connecting", "connected"}
         /\ toStore' \in Seq(Messages)
    BY <1>1, <1>2, <1>16, TypesGive
  <2>13. engine' = [engine EXCEPT ![g] = f] /\ f.pc # "unborn"
    BY <1>6, <1>7, <1>8, <1>16
  <2>14. QED
    BY <1>7, <2>4, <2>8, <2>9, <2>10, <2>11, <2>12, <2>13, ChildMoves
<1>17. QED
  <2>1. line = Head(engine[child].out)
    BY <1>2, <1>3, <1>4, Zenon
  <2>2. QED
    BY <1>10, <1>13, <1>14, <1>15, <1>16, <2>1, Zenon DEF HandleLine

\* A settled call is answered; if it was the send, none is open any more.
LEMMA ReplyKeeps ==
  ASSUME ControllerInvariant, NEW c \in Calls, Reply(c)
  PROVE  ControllerInvariant'
<1>1. /\ Types /\ OneSendIsOpen /\ call \in [Calls -> CallState] /\ toStore \in Seq(Messages)
      /\ outbound \in BOOLEAN
  BY TypesGive DEF ControllerInvariant
<1>2. PICK d : d = [call[c] EXCEPT !.pc = "answered"]
  OBVIOUS
<1>3. d \in CallState /\ d.pc = "answered" /\ d.op = call[c].op
  BY <1>1, <1>2 DEF CallState
<1>4. /\ call[c].pc \in {"resolved", "rejected"} /\ call' = [call EXCEPT ![c] = d]
      /\ toStore' = Append(toStore, Answer(c, call[c].pc = "resolved"))
      /\ outbound' = (outbound /\ call[c].op # "send")
  BY <1>2 DEF Reply, Settled
<1>5. UNCHANGED <<engine, child, closing, received, shown, disconnects>> /\ UNCHANGED ui
  BY DEF Reply, storeVars
<1>6. /\ call'[c] = d /\ \A b \in Calls \ {c} : call'[b] = call[b]
  BY <1>1, <1>4
<1>7. Answer(c, call[c].pc = "resolved") \in Messages
  BY DEF Answer, Messages
<1>8. toStore' \in Seq(Messages)
  BY <1>1, <1>4, <1>7, AppendOf
<1>9. OneSendIsOpen'
  <2>1. ASSUME NEW b \in Calls, OpenSend(b)' PROVE OpenSend(b) /\ b # c
    BY <1>3, <1>6, <2>1 DEF OpenSend
  <2>2. ASSUME NEW b \in Calls, OpenSend(b)' PROVE outbound'
    <3>1. OpenSend(b) /\ b # c /\ outbound
      BY <1>1, <2>1, <2>2 DEF OneSendIsOpen
    <3>2. call[c].op = "send" => OpenSend(c)
      BY <1>4 DEF OpenSend
    <3>3. QED
      BY <1>1, <1>4, <3>1, <3>2 DEF OneSendIsOpen
  <2>3. QED
    BY <1>1, <2>1, <2>2 DEF OneSendIsOpen
<1>10. outbound' \in BOOLEAN /\ ui' \in {"idle", "joining", "waiting", "connecting", "connected"}
  BY <1>1, <1>4, <1>5, TypesGive
<1>11. QED
  BY <1>3, <1>4, <1>5, <1>8, <1>9, <1>10, CallMoves

\* The engine that a request goes to is one that was not started yet, or the child.
LEMMA TargetOf ==
  ASSUME Types, OnlyTheChildLives, child = NoEngine => Unstarted # {}
  PROVE  /\ Target \in Engines /\ child \in {Target, NoEngine}
         /\ child = NoEngine => engine[Target] = Unborn
         /\ child # NoEngine => engine[Target].pc # "unborn"
<1>1. child \in Engines \cup {NoEngine} /\ NoEngine \notin Engines
  BY TypesGive, SessionAssumption
<1>2. CASE child = NoEngine
  <2>1. Unstarted \subseteq Nat
    BY EngineAssumption DEF Unstarted
  <2>2. PICK m \in Unstarted : \A k \in Unstarted : <<k, m>> \notin OpToRel(<, Nat)
    BY <1>2, <2>1, WFMin, NatLessThanWellFounded, Zenon
  <2>3. \A k \in Unstarted : ~ (k < m)
    BY <2>1, <2>2, Zenon DEF OpToRel
  <2>4. \A k \in Unstarted : m <= k
    BY <2>1, <2>3
  <2>5. First(Unstarted) \in Unstarted
    BY <2>4 DEF First
  <2>6. Target \in Unstarted
    BY <1>2, <2>5 DEF Target
  <2>7. Target \in Engines /\ engine[Target].pc = "unborn"
    BY <2>6 DEF Unstarted
  <2>8. engine[Target] \in {Unborn, Gone}
    BY <1>1, <1>2, <2>7 DEF OnlyTheChildLives
  <2>9. QED
    BY <1>2, <2>7, <2>8, SilentEngines
<1>3. CASE child # NoEngine
  <2>1. Target = child
    BY <1>3 DEF Target
  <2>2. QED
    BY <1>1, <1>3, <2>1 DEF OnlyTheChildLives
<1>4. QED
  BY <1>2, <1>3

\* One more request is pending when there is room for it.
LEMMA PendingGrows ==
  ASSUME Types, NEW c \in Calls, ~ (Cardinality(Pending) >= MaxPending),
         \A b \in Calls \ {c} : call'[b] = call[b]
  PROVE  IsFiniteSet(Pending)' /\ (Cardinality(Pending) <= MaxPending)'
<1>1. Pending' \in SUBSET (Pending \cup {c})
  BY DEF Pending
<1>2. IsFiniteSet(Pending) /\ MaxPending \in Nat /\ Cardinality(Pending) \in Nat
  BY TypesGive, SessionAssumption, FS_CardinalityType
<1>3. /\ IsFiniteSet(Pending \cup {c})
      /\ Cardinality(Pending \cup {c}) = IF c \in Pending THEN Cardinality(Pending)
                                                          ELSE Cardinality(Pending) + 1
  BY <1>2, FS_AddElement
<1>4. IsFiniteSet(Pending') /\ Cardinality(Pending') <= Cardinality(Pending \cup {c})
  BY <1>1, <1>3, FS_Subset
<1>5. Cardinality(Pending') \in Nat
  BY <1>4, FS_CardinalityType
<1>6. QED
  BY <1>2, <1>3, <1>4, <1>5

\* An engine that is started, if it was not yet.
LEMMA StartedIsSound ==
  ASSUME NEW e \in EngineState, Sound(e)', e = Unborn \/ e.pc # "unborn",
         NEW d, d = [e EXCEPT !.pc = IF @ = "unborn" THEN "running" ELSE @]
  PROVE  /\ d \in EngineState /\ Sound(d)' /\ d.pc # "unborn"
         /\ d.in = e.in /\ d.out = e.out /\ d.task = e.task
         /\ d.started = e.started /\ d.session = e.session /\ (d.pc = "gone" <=> e.pc = "gone")
<1>1. e.pc \in {"unborn", "running", "gone"}
  BY EngineFields
<1>2. /\ d \in EngineState /\ d.pc # "unborn" /\ d.in = e.in /\ d.out = e.out /\ d.task = e.task
      /\ d.joining = e.joining /\ d.started = e.started /\ d.session = e.session
      /\ (d.pc = "gone" <=> e.pc = "gone")
  BY <1>1 DEF EngineState
<1>3. Honest(d)'
  <2>1. CASE e = Unborn
    <3>1. d.session = "none" /\ Len(d.out) = 0
      BY <1>2, <2>1 DEF Unborn
    <3>2. QED
      BY <3>1 DEF Honest
  <2>2. CASE e.pc # "unborn"
    <3>1. d = e
      BY <2>2 DEF EngineState
    <3>2. QED
      BY <3>1 DEF Sound
  <2>3. QED
    BY <2>1, <2>2
<1>4. Sound(d)'
  BY <1>2, <1>3 DEF Sound, Asked, OneToken
<1>5. QED
  BY <1>2, <1>4

\* An engine is given a command; if that is a send, it has no other.
LEMMA WrittenIsSound ==
  ASSUME NEW d \in EngineState, Sound(d)', NEW command \in Commands, CommandIsAsked(command)',
         command.op = "send" => \A b \in Calls : ~Holds(d, b)',
         NEW f, f = [d EXCEPT !.in = Append(@, command)]
  PROVE  /\ f \in EngineState /\ Sound(f)' /\ f.pc = d.pc
         /\ f.started = d.started /\ f.session = d.session
<1>1. /\ d.in \in Seq(Commands) /\ Len(d.in) \in Nat /\ d.task \in Calls \cup {NoCall}
  BY EngineFields, LenProperties
<1>2. /\ Append(d.in, command) \in Seq(Commands)
      /\ Len(Append(d.in, command)) = Len(d.in) + 1
      /\ Append(d.in, command)[Len(d.in) + 1] = command
      /\ \A i \in 1..Len(d.in) : Append(d.in, command)[i] = d.in[i]
      /\ \A i \in 1..Len(Append(d.in, command)) : i \in 1..Len(d.in) \/ i = Len(d.in) + 1
  BY <1>1, AppendOf
<1>3. /\ f \in EngineState /\ f.in = Append(d.in, command) /\ f.out = d.out /\ f.task = d.task
      /\ f.joining = d.joining /\ f.started = d.started /\ f.session = d.session /\ f.pc = d.pc
  BY <1>2 DEF EngineState
<1>4. \A i \in 1..Len(f.in) : CommandIsAsked(f.in[i])'
  BY <1>2, <1>3 DEF Sound, Asked
<1>5. Asked(f)'
  BY <1>3, <1>4 DEF Sound, Asked
<1>6. command.op = "send" =>
        /\ d.task = NoCall
        /\ \A i \in 1..Len(d.in) : d.in[i].op # "send"
        /\ \A i \in 1..Len(d.out) : ~IsSendAnswer(d.out[i])'
  <2>1. /\ \A i \in 1..Len(d.in) : d.in[i] \in Commands
        /\ \A i \in 1..Len(d.out) : d.out[i] \in Lines
    BY EngineFields
  <2>2. /\ \A b \in Commands : b.call \in Calls
        /\ \A line \in Lines : line.event = "response" => line.call \in Calls
    BY DEF Commands, Lines
  <2>3. QED
    BY <1>1, <2>1, <2>2 DEF Holds, IsSendAnswer
<1>7. \A i, j \in 1..Len(f.in) : f.in[i].op = "send" /\ f.in[j].op = "send" => i = j
  BY <1>1, <1>2, <1>3, <1>6 DEF Sound, OneToken
<1>8. \A i \in 1..Len(f.in) : f.in[i].op = "send" =>
        f.task = NoCall /\ \A j \in 1..Len(f.out) : ~IsSendAnswer(f.out[j])'
  BY <1>1, <1>2, <1>3, <1>6 DEF Sound, OneToken
<1>9. OneToken(f)'
  BY <1>3, <1>7, <1>8 DEF Sound, OneToken
<1>10. Honest(f)'
  BY <1>3 DEF Sound, Honest, LineIsHonest
<1>11. QED
  BY <1>3, <1>5, <1>9, <1>10 DEF Sound

\* A request is made, of the child or of a new engine: a send that is made is the open
\* one, so no engine has another.
LEMMA RequestKeeps ==
  ASSUME ControllerInvariant, NEW c \in Calls, NEW op \in {"host", "join", "send"}, Request(c, op),
         IF op = "send" THEN call[c].op = "send" /\ call[c].pc = "stat" ELSE call[c].pc = "unused",
         UNCHANGED <<outbound, closing, received, toStore, shown, disconnects>>,
         ui' \in {"idle", "joining", "waiting", "connecting", "connected"}
  PROVE  ControllerInvariant'
<1>1. /\ Types /\ OnlyTheChildLives /\ OneSendIsOpen /\ EnginesAreSound
      /\ engine \in [Engines -> EngineState] /\ call \in [Calls -> CallState]
      /\ child = NoEngine => Unstarted # {}
  BY TypesGive DEF ControllerInvariant, Request
<1>2. /\ Target \in Engines /\ child \in {Target, NoEngine}
      /\ child = NoEngine => engine[Target] = Unborn
      /\ child # NoEngine => engine[Target].pc # "unborn"
  BY <1>1, TargetOf
<1>3. PICK g \in Engines : g = Target
  BY <1>2
<1>4. PICK e \in EngineState : e = engine[g] /\ Sound(e)
  BY <1>1 DEF EnginesAreSound
<1>5. child \in {g, NoEngine} /\ (e = Unborn \/ e.pc # "unborn")
  BY <1>2, <1>3, <1>4
<1>6. PICK command : command = [op |-> op, call |-> c]
  OBVIOUS
<1>7. command \in Commands /\ command.op = op /\ command.call = c
  BY <1>6 DEF Commands
<1>8. PICK d : d = [e EXCEPT !.pc = IF @ = "unborn" THEN "running" ELSE @]
  OBVIOUS
<1>9. PICK f : f = [d EXCEPT !.in = Append(@, command)]
  OBVIOUS
<1>10. \A b \in Calls : ~Holds(e, b) \/ (b # c /\ op # "send")
  <2>1. ASSUME NEW b \in Calls, Holds(e, b)
        PROVE  call[b].op = "send" /\ call[b].pc = "pending" /\ OpenSend(b)
    BY <1>4, <2>1, HeldIsOpen
  <2>2. op = "send" => OpenSend(c)
    BY DEF OpenSend
  <2>3. QED
    BY <1>1, <2>1, <2>2 DEF OneSendIsOpen
<1>11. ASSUME NEW pc \in {"pending", "rejected"},
              call' = [call EXCEPT ![c] = [op |-> op, to |-> g, pc |-> pc]],
              pc = "pending" => ~ (Cardinality(Pending) >= MaxPending)
       PROVE  /\ call' \in [Calls -> CallState] /\ CallsStay /\ OneSendIsOpen'
              /\ call'[c].op = op /\ call'[c].pc = pc
              /\ IsFiniteSet(Pending)' /\ (Cardinality(Pending) <= MaxPending)'
              /\ Sound(e)' /\ \A b \in Calls : Holds(e, b)' => Holds(e, b)
  <2>1. [op |-> op, to |-> g, pc |-> pc] \in CallState
    BY DEF CallState
  <2>2. /\ call' \in [Calls -> CallState] /\ call'[c].op = op /\ call'[c].pc = pc
        /\ \A b \in Calls \ {c} : call'[b] = call[b]
    BY <1>1, <1>11, <2>1
  <2>3. CallsStay
    BY <2>2 DEF CallsStay
  <2>4. OneSendIsOpen'
    <3>1. ASSUME NEW b \in Calls, OpenSend(b)' PROVE OpenSend(b)
      BY <2>2, <3>1 DEF OpenSend
    <3>2. QED
      BY <1>1, <3>1 DEF OneSendIsOpen
  <2>5. IsFiniteSet(Pending)' /\ (Cardinality(Pending) <= MaxPending)'
    <3>1. CASE pc = "pending"
      BY <1>1, <1>11, <2>2, <3>1, PendingGrows
    <3>2. CASE pc = "rejected"
      <4>1. \A b \in Calls : call'[b].pc = "pending" => call[b].pc = "pending"
        BY <2>2, <3>2
      <4>2. QED
        BY <1>1, <4>1, PendingShrinks
    <3>3. QED
      BY <3>1, <3>2
  <2>6. \A b \in Calls : Holds(e, b) => call'[b].pc = "pending"
    <3>1. \A b \in Calls : Holds(e, b) => call[b].pc = "pending"
      BY <1>4, HeldIsOpen
    <3>2. QED
      BY <1>10, <2>2, <3>1
  <2>7. Sound(e)'
    BY <1>4, <2>3, <2>6, SoundStays
  <2>8. ASSUME NEW i \in 1..Len(e.out), IsSendAnswer(e.out[i])' PROVE IsSendAnswer(e.out[i])
    <3>1. e.out[i].event = "response" /\ e.out[i] \in Lines
      BY <2>8, EngineFields DEF IsSendAnswer
    <3>2. e.out[i].call \in Calls
      BY <3>1 DEF Lines
    <3>3. call[e.out[i].call].pc # "unused"
      BY <1>4, <3>1 DEF Sound, Asked, LineIsAsked
    <3>4. QED
      BY <2>3, <2>8, <3>1, <3>2, <3>3 DEF IsSendAnswer, CallsStay
  <2>9. \A b \in Calls : Holds(e, b)' => Holds(e, b)
    BY <2>8 DEF Holds
  <2>10. QED
    BY <2>2, <2>3, <2>4, <2>5, <2>7, <2>9
<1>12. UNCHANGED <<outbound, closing>> /\ UNCHANGED <<shown, disconnects>> /\ child' = g
       /\ toStore' \in Seq(Messages) /\ received' \subseteq Digests
  BY <1>1, <1>3, TypesGive DEF Request
<1>13. CASE Cardinality(Pending) >= MaxPending
  <2>1. call' = [call EXCEPT ![c] = [op |-> op, to |-> g, pc |-> "rejected"]]
    BY <1>3, <1>13 DEF Request
  <2>2. /\ call' \in [Calls -> CallState] /\ CallsStay /\ OneSendIsOpen'
        /\ IsFiniteSet(Pending)' /\ (Cardinality(Pending) <= MaxPending)' /\ Sound(e)'
    BY <1>11, <2>1
  <2>3. engine' = [engine EXCEPT ![g] = d]
    <3>1. engine' = [engine EXCEPT ![g].pc = IF @ = "unborn" THEN "running" ELSE @]
      BY <1>3, <1>13 DEF Request
    <3>2. QED
      BY <1>4, <1>8, <3>1
  <2>4. d \in EngineState /\ Sound(d)' /\ d.pc # "unborn"
    BY <1>4, <1>5, <1>8, <2>2, StartedIsSound
  <2>5. QED
    BY <1>5, <1>12, <2>2, <2>3, <2>4, ChildMoves
<1>14. CASE ~ (Cardinality(Pending) >= MaxPending)
  <2>1. call' = [call EXCEPT ![c] = [op |-> op, to |-> g, pc |-> "pending"]]
    BY <1>3, <1>14 DEF Request
  <2>2. /\ call' \in [Calls -> CallState] /\ CallsStay /\ OneSendIsOpen'
        /\ call'[c].op = op /\ call'[c].pc = "pending"
        /\ IsFiniteSet(Pending)' /\ (Cardinality(Pending) <= MaxPending)' /\ Sound(e)'
        /\ \A b \in Calls : Holds(e, b)' => Holds(e, b)
    BY <1>11, <1>14, <2>1
  <2>3. /\ d \in EngineState /\ Sound(d)' /\ d.pc # "unborn"
        /\ d.in = e.in /\ d.out = e.out /\ d.task = e.task /\ (d.pc = "gone" <=> e.pc = "gone")
    BY <1>4, <1>5, <1>8, <2>2, StartedIsSound
  <2>4. CommandIsAsked(command)'
    BY <1>7, <2>2 DEF CommandIsAsked
  <2>5. command.op = "send" => \A b \in Calls : ~Holds(d, b)'
    <3>1. \A b \in Calls : Holds(d, b)' => Holds(e, b)'
      BY <2>3 DEF Holds
    <3>2. QED
      BY <1>7, <1>10, <2>2, <3>1
  <2>6. f \in EngineState /\ Sound(f)' /\ f.pc # "unborn"
    <3>1. f \in EngineState /\ Sound(f)' /\ f.pc = d.pc
      BY <1>7, <1>9, <2>3, <2>4, <2>5, WrittenIsSound
    <3>2. QED
      BY <2>3, <3>1
  <2>7. engine' = [engine EXCEPT
                     ![g].pc = IF @ = "unborn" THEN "running" ELSE @,
                     ![g].in = IF engine[g].pc = "gone" THEN @ ELSE Append(@, command)]
    BY <1>3, <1>6, <1>14 DEF Request, Written
  <2>8. CASE e.pc = "gone"
    <3>1. engine' = [engine EXCEPT ![g] = d]
      BY <1>1, <1>4, <1>8, <2>7, <2>8 DEF EngineState
    <3>2. QED
      BY <1>5, <1>12, <2>2, <2>3, <3>1, ChildMoves
  <2>9. CASE e.pc # "gone"
    <3>1. engine' = [engine EXCEPT ![g] = f]
      BY <1>1, <1>4, <1>8, <1>9, <2>7, <2>9 DEF EngineState
    <3>2. QED
      BY <1>5, <1>12, <2>2, <2>6, <3>1, ChildMoves
  <2>10. QED
    BY <2>8, <2>9
<1>15. QED
  BY <1>13, <1>14

\* The send goes on after stat.
LEMMA StatedKeeps ==
  ASSUME ControllerInvariant, NEW c \in Calls, Stated(c)
  PROVE  ControllerInvariant'
<1>1. /\ Types /\ OneSendIsOpen /\ call \in [Calls -> CallState] /\ toStore \in Seq(Messages)
      /\ outbound \in BOOLEAN
      /\ ui \in {"idle", "joining", "waiting", "connecting", "connected"}
  BY TypesGive DEF ControllerInvariant
<1>2. call[c].pc = "stat" /\ UNCHANGED <<outbound, closing, received, toStore, ui, shown, disconnects>>
  BY DEF Stated, storeVars
<1>3. CASE Request(c, "send")
  <2>1. call[c].op = "send"
    BY <1>1, <1>2 DEF CallState
  <2>2. QED
    BY <1>1, <1>2, <1>3, <2>1, RequestKeeps
<1>4. CASE call' = [call EXCEPT ![c].pc = "rejected"] /\ UNCHANGED <<engine, child>>
  <2>1. PICK d : d = [call[c] EXCEPT !.pc = "rejected"]
    OBVIOUS
  <2>2. d \in CallState /\ d.pc = "rejected" /\ d.op = call[c].op
    BY <1>1, <2>1 DEF CallState
  <2>3. /\ call' = [call EXCEPT ![c] = d] /\ call'[c] = d
        /\ \A b \in Calls \ {c} : call'[b] = call[b]
    BY <1>1, <1>4, <2>1
  <2>4. OneSendIsOpen'
    <3>1. ASSUME NEW b \in Calls, OpenSend(b)' PROVE OpenSend(b)
      BY <1>2, <2>2, <2>3, <3>1 DEF OpenSend
    <3>2. QED
      BY <1>1, <1>2, <3>1 DEF OneSendIsOpen
  <2>5. /\ UNCHANGED <<engine, child, closing, received, shown, disconnects>>
        /\ outbound' \in BOOLEAN /\ toStore' \in Seq(Messages)
        /\ ui' \in {"idle", "joining", "waiting", "connecting", "connected"}
    BY <1>1, <1>2, <1>4
  <2>6. QED
    BY <1>2, <2>2, <2>3, <2>4, <2>5, CallMoves
<1>5. QED
  BY <1>3, <1>4 DEF Stated

\* A session is asked for.
LEMMA AskForSessionKeeps ==
  ASSUME ControllerInvariant, NEW c \in Calls, NEW op \in {"host", "join"}, AskForSession(c, op),
         ui' \in {"idle", "joining", "waiting", "connecting", "connected"}
  PROVE  ControllerInvariant'
<1>1. /\ OneSendIsOpen /\ call \in [Calls -> CallState] /\ toStore \in Seq(Messages)
      /\ outbound \in BOOLEAN
  BY TypesGive DEF ControllerInvariant
<1>2. call[c].pc = "unused" /\ UNCHANGED <<outbound, closing, received, toStore, shown, disconnects>>
  BY DEF AskForSession
<1>3. CASE Request(c, op)
  BY <1>2, <1>3, RequestKeeps
<1>4. CASE /\ call' = [call EXCEPT ![c] = [op |-> op, to |-> NoEngine, pc |-> "rejected"]]
           /\ UNCHANGED <<engine, child>>
  <2>1. PICK d : d = [op |-> op, to |-> NoEngine, pc |-> "rejected"]
    OBVIOUS
  <2>2. d \in CallState /\ d.pc = "rejected" /\ d.op # "send"
    BY <2>1 DEF CallState
  <2>3. /\ call' = [call EXCEPT ![c] = d] /\ call'[c] = d
        /\ \A b \in Calls \ {c} : call'[b] = call[b]
    BY <1>1, <1>4, <2>1
  <2>4. OneSendIsOpen'
    <3>1. ASSUME NEW b \in Calls, OpenSend(b)' PROVE OpenSend(b)
      BY <2>2, <2>3, <3>1 DEF OpenSend
    <3>2. QED
      BY <1>1, <1>2, <3>1 DEF OneSendIsOpen
  <2>5. /\ UNCHANGED <<engine, child, closing, received, shown, disconnects>>
        /\ outbound' \in BOOLEAN /\ toStore' \in Seq(Messages)
    BY <1>1, <1>2, <1>4
  <2>6. QED
    BY <1>2, <2>2, <2>3, <2>4, <2>5, CallMoves
<1>5. QED
  BY <1>3, <1>4 DEF AskForSession

\* A send is begun, or refused because one is open.
LEMMA UserSendsKeeps ==
  ASSUME ControllerInvariant, NEW c \in Calls, UserSends(c)
  PROVE  ControllerInvariant'
<1>1. /\ OneSendIsOpen /\ call \in [Calls -> CallState] /\ toStore \in Seq(Messages)
      /\ outbound \in BOOLEAN
      /\ ui \in {"idle", "joining", "waiting", "connecting", "connected"}
  BY TypesGive DEF ControllerInvariant
<1>2. /\ call[c].pc = "unused" /\ outbound' = TRUE
      /\ UNCHANGED <<engine, child, closing, received, toStore, ui, shown, disconnects>>
  BY DEF UserSends, SendFilePath, storeVars
<1>3. PICK d : d = IF outbound THEN [op |-> "refused", to |-> NoEngine, pc |-> "rejected"]
                               ELSE [op |-> "send", to |-> NoEngine, pc |-> "stat"]
  OBVIOUS
<1>4. /\ d \in CallState /\ d.pc \notin {"unused", "pending"} /\ (outbound => d.op # "send")
  BY <1>3 DEF CallState
<1>5. call' = [call EXCEPT ![c] = d]
  BY <1>3 DEF UserSends, SendFilePath
<1>6. call'[c] = d /\ \A b \in Calls \ {c} : call'[b] = call[b]
  BY <1>1, <1>5
<1>7. OneSendIsOpen'
  <2>1. ASSUME NEW b \in Calls, OpenSend(b)' PROVE IF b = c THEN ~outbound ELSE OpenSend(b)
    BY <1>4, <1>6, <2>1 DEF OpenSend
  <2>2. QED
    BY <1>1, <1>2, <2>1 DEF OneSendIsOpen
<1>8. /\ UNCHANGED <<engine, child, closing, received, shown, disconnects>>
      /\ outbound' \in BOOLEAN /\ toStore' \in Seq(Messages)
      /\ ui' \in {"idle", "joining", "waiting", "connecting", "connected"}
  BY <1>1, <1>2
<1>9. QED
  BY <1>2, <1>4, <1>5, <1>7, <1>8, CallMoves

-----------------------------------------------------------------------------
(***************************************************************************)
(* The controller's theorems.                                              *)
(***************************************************************************)

\* The invariant holds at first ...
LEMMA InitControls ==
  ASSUME Init
  PROVE  ControllerInvariant
<1>1. /\ engine = [g \in Engines |-> Unborn] /\ child = NoEngine /\ outbound = FALSE
      /\ call = [c \in Calls |-> [op |-> "none", to |-> NoEngine, pc |-> "unused"]]
      /\ closing = {} /\ received = {} /\ toStore = <<>> /\ ui = "idle" /\ shown = {}
      /\ disconnects = 0
  BY DEF Init, EngineInit
<1>2. engine \in [Engines -> EngineState] /\ \A g \in Engines : engine[g] = Unborn /\ Sound(engine[g])
  BY <1>1, SilentEngines
<1>3. /\ call \in [Calls -> CallState]
      /\ \A c \in Calls : call[c].pc = "unused" /\ call[c].op = "none"
  <2>1. [op |-> "none", to |-> NoEngine, pc |-> "unused"] \in CallState
    BY DEF CallState
  <2>2. QED
    BY <1>1, <2>1
<1>4. IsFiniteSet(Pending) /\ Cardinality(Pending) <= MaxPending
  <2>1. Pending = {}
    BY <1>3 DEF Pending
  <2>2. QED
    BY <2>1, FS_EmptySet, SessionAssumption
<1>5. toStore \in Seq(Messages)
  BY <1>1, EmptySeq
<1>6. \A g \in Engines :
        /\ engine[g].pc \in {"unborn", "running", "gone"}
        /\ engine[g].session \in {"none", "pairing", "connected", "over"}
        /\ engine[g].task \in Calls \cup {NoCall}
        /\ engine[g].joining \in Calls \cup {NoCall}
        /\ engine[g].files \in 0..MaxFiles
        /\ engine[g].started \in BOOLEAN /\ engine[g].permit \in BOOLEAN
  BY <1>2, EngineFields
<1>7. TypeOK
  <2>1. call \in [Calls -> [op: {"none", "host", "join", "send", "refused"},
                            to: Engines \cup {NoEngine},
                            pc: {"unused", "stat", "pending", "resolved", "rejected", "answered"}]]
    BY <1>1
  <2>2. 0 \in 0..MaxDisconnects
    BY SessionAssumption
  <2>3. QED
    BY <1>1, <1>4, <1>6, <2>1, <2>2 DEF TypeOK
<1>8. OneSendIsOpen /\ OnlyTheChildLives /\ EnginesAreSound
  BY <1>1, <1>2, <1>3 DEF OneSendIsOpen, OpenSend, OnlyTheChildLives, EnginesAreSound
<1>9. QED
  BY <1>2, <1>3, <1>4, <1>5, <1>7, <1>8 DEF ControllerInvariant, Types

\* ... and after each step, by the lemma of the action.
LEMMA NextControls ==
  ASSUME ControllerInvariant, [Next]_vars
  PROVE  ControllerInvariant'
<1>1. CASE EngineActs
  BY <1>1, EngineActsKeeps
<1>2. CASE HandleLine
  BY <1>2, HandleLineKeeps
<1>3. CASE EngineGone
  BY <1>3, EngineGoneKeeps
<1>4. ASSUME NEW g \in Engines, DisconnectReturns(g) PROVE ControllerInvariant'
  BY <1>4, DisconnectReturnsKeeps
<1>5. ASSUME NEW c \in Calls, RequestTimesOut(c) PROVE ControllerInvariant'
  BY <1>5, RequestTimesOutKeeps
<1>6. ASSUME NEW c \in Calls, Reply(c) PROVE ControllerInvariant'
  BY <1>6, ReplyKeeps
<1>7. ASSUME NEW c \in Calls, Stated(c) PROVE ControllerInvariant'
  BY <1>7, StatedKeeps
<1>8. ASSUME NEW c \in Calls, UserCreates(c) PROVE ControllerInvariant'
  <2>1. AskForSession(c, "host") /\ ui' = ui
    BY <1>8 DEF UserCreates
  <2>2. ui' \in {"idle", "joining", "waiting", "connecting", "connected"}
    BY <2>1, TypesGive DEF ControllerInvariant
  <2>3. QED
    BY <2>1, <2>2, AskForSessionKeeps
<1>9. ASSUME NEW c \in Calls, UserJoins(c) PROVE ControllerInvariant'
  BY <1>9, AskForSessionKeeps DEF UserJoins
<1>10. ASSUME NEW c \in Calls, UserSends(c) PROVE ControllerInvariant'
  BY <1>10, UserSendsKeeps
<1>11. CASE UserDisconnects
  BY <1>11, UserDisconnectsKeeps
<1>12. CASE StoreTakes
  BY <1>12, StoreTakesKeeps
<1>13. CASE UNCHANGED vars
  <2>1. UNCHANGED <<engine, child, call, outbound>> /\ UNCHANGED closing /\ UNCHANGED toStore
        /\ UNCHANGED received /\ UNCHANGED shown /\ UNCHANGED ui /\ UNCHANGED disconnects
    BY <1>13 DEF vars, storeVars
  <2>2. QED
    BY <2>1, TypesGive, NothingMoves DEF ControllerInvariant
<1>14. QED
  BY <1>1, <1>2, <1>3, <1>4, <1>5, <1>6, <1>7, <1>8, <1>9, <1>10, <1>11, <1>12, <1>13 DEF Next

\* The invariant: the child alone lives, one send is open, and what an engine has to
\* tell was asked of it.
THEOREM ControllerInvariantHolds == Spec => []ControllerInvariant
<1>1. Init => ControllerInvariant
  BY InitControls
<1>2. ControllerInvariant /\ [Next]_vars => ControllerInvariant'
  BY NextControls
<1>3. QED
  BY <1>1, <1>2, PTL DEF Spec

\* Every variable has its type, and no more requests are pending than
\* QuicBridge.cjs allows.
THEOREM DesktopTypes == Spec => []TypeOK
<1>1. ControllerInvariant => TypeOK
  BY DEF ControllerInvariant, Types
<1>2. QED
  BY <1>1, ControllerInvariantHolds, PTL

\* No engine runs that the controller has lost track of, through every disconnect,
\* timeout, crash and new session.
THEOREM OneEngineRuns == Spec => []OneEngine
<1>1. ControllerInvariant => OneEngine
  BY SilentEngines DEF ControllerInvariant, OnlyTheChildLives, OneEngine
<1>2. QED
  BY <1>1, ControllerInvariantHolds, PTL

\* The controller takes no second file while the engine sends one.
THEOREM TheSendIsCounted == Spec => []SendsAreCounted
<1>1. ControllerInvariant => SendsAreCounted
  <2>1. SUFFICES ASSUME ControllerInvariant, NEW g \in Engines, engine[g].task # NoCall
                 PROVE  outbound /\ call[engine[g].task].pc = "pending"
    BY DEF SendsAreCounted
  <2>2. engine[g].task \in Calls /\ Sound(engine[g]) /\ OneSendIsOpen
    BY <2>1, TypesGive, EngineFields DEF ControllerInvariant, EnginesAreSound
  <2>3. call[engine[g].task].op = "send" /\ call[engine[g].task].pc = "pending"
    BY <2>1, <2>2 DEF Sound, Asked
  <2>4. QED
    BY <2>2, <2>3 DEF OneSendIsOpen, OpenSend
<1>2. QED
  BY <1>1, ControllerInvariantHolds, PTL

-----------------------------------------------------------------------------
(***************************************************************************)
(* What the window is told.                                                *)
(***************************************************************************)

\* After "idle" nothing is open.
LEMMA IdleEnds ==
  ASSUME NEW s \in Seq(Messages), NEW initially, NEW bad
  PROVE  EndsIdle(Append(s, State("idle")), initially, bad)
<1>1. State("idle") \in Messages
  BY DEF State, Messages
<1>2. /\ Len(Append(s, State("idle"))) = Len(s) + 1 /\ Len(s) \in Nat
      /\ Append(s, State("idle"))[Len(s) + 1] = State("idle")
  BY <1>1, AppendOf
<1>3. QED
  BY <1>2 DEF EndsIdle

\* A message that is not bad.
LEMMA OtherEnds ==
  ASSUME NEW s \in Seq(Messages), NEW m \in Messages, NEW initially, NEW bad,
         EndsIdle(s, initially, bad), m \notin bad
  PROVE  EndsIdle(Append(s, m), initially, bad)
<1>1. /\ Len(Append(s, m)) = Len(s) + 1 /\ Len(s) \in Nat /\ Append(s, m)[Len(s) + 1] = m
      /\ \A i \in 1..Len(s) : Append(s, m)[i] = s[i]
      /\ \A i \in 1..Len(Append(s, m)) : i \in 1..Len(s) \/ i = Len(s) + 1
  BY AppendOf
<1>2. CASE initially /\ \A j \in 1..Len(s) : s[j] \notin bad
  BY <1>1, <1>2 DEF EndsIdle
<1>3. ASSUME NEW i \in 1..Len(s), s[i] = State("idle"), \A j \in (i + 1)..Len(s) : s[j] \notin bad
      PROVE  EndsIdle(Append(s, m), initially, bad)
  <2>1. i \in 1..Len(Append(s, m)) /\ Append(s, m)[i] = State("idle")
    BY <1>1, <1>3
  <2>2. ASSUME NEW j \in (i + 1)..Len(Append(s, m)) PROVE Append(s, m)[j] \notin bad
    BY <1>1, <1>3
  <2>3. QED
    BY <2>1, <2>2 DEF EndsIdle
<1>4. QED
  BY <1>2, <1>3 DEF EndsIdle

\* The first message is taken.
LEMMA TakenEnds ==
  ASSUME NEW s \in Seq(Messages), s # <<>>, NEW before, NEW after, NEW bad,
         EndsIdle(s, before, bad), Head(s) = State("idle") => after,
         before /\ Head(s) \notin bad => after
  PROVE  EndsIdle(Tail(s), after, bad)
<1>1. /\ Head(s) = s[1] /\ 1 \in 1..Len(s)
      /\ Tail(s) \in Seq(Messages) /\ Len(Tail(s)) = Len(s) - 1 /\ Len(s) \in Nat
      /\ \A i \in 1..Len(Tail(s)) : i + 1 \in 1..Len(s) /\ Tail(s)[i] = s[i + 1]
  BY TailOf
<1>2. CASE before /\ \A j \in 1..Len(s) : s[j] \notin bad
  BY <1>1, <1>2 DEF EndsIdle
<1>3. ASSUME NEW i \in 1..Len(s), s[i] = State("idle"), \A j \in (i + 1)..Len(s) : s[j] \notin bad
      PROVE  EndsIdle(Tail(s), after, bad)
  <2>1. CASE i = 1
    <3>1. \A j \in 1..Len(Tail(s)) : Tail(s)[j] \notin bad
      BY <1>1, <1>3, <2>1
    <3>2. QED
      BY <1>1, <1>3, <2>1, <3>1 DEF EndsIdle
  <2>2. CASE i # 1
    <3>1. i - 1 \in 1..Len(Tail(s)) /\ Tail(s)[i - 1] = State("idle")
      BY <1>1, <1>3, <2>2
    <3>2. \A j \in ((i - 1) + 1)..Len(Tail(s)) : Tail(s)[j] \notin bad
      BY <1>1, <1>3, <2>2
    <3>3. QED
      BY <3>1, <3>2 DEF EndsIdle
  <2>3. QED
    BY <2>1, <2>2
<1>4. QED
  BY <1>2, <1>3 DEF EndsIdle

\* Less is bad, or initially less was shown.
LEMMA SameEnds ==
  ASSUME NEW s, NEW before, NEW after, NEW bad, NEW worse,
         EndsIdle(s, before, bad), before => after,
         \A i \in 1..Len(s) : s[i] \in worse => s[i] \in bad
  PROVE  EndsIdle(s, after, worse)
<1>1. CASE before /\ \A j \in 1..Len(s) : s[j] \notin bad
  BY <1>1 DEF EndsIdle
<1>2. ASSUME NEW i \in 1..Len(s), s[i] = State("idle"), \A j \in (i + 1)..Len(s) : s[j] \notin bad
      PROVE  EndsIdle(s, after, worse)
  <2>1. ASSUME NEW j \in (i + 1)..Len(s) PROVE s[j] \notin worse
    <3>1. CASE j \in 1..Len(s)
      BY <1>2, <3>1
    <3>2. j \in 1..Len(s)
      OBVIOUS
    <3>3. QED
      BY <3>1, <3>2
  <2>2. QED
    BY <1>2, <2>1 DEF EndsIdle
<1>3. QED
  BY <1>1, <1>2 DEF EndsIdle

\* The calls that are over stay what they are.
OverStays ==
  \A c \in Calls : call[c].pc = "answered" =>
    call'[c].pc = "answered" /\ call'[c].op = call[c].op

\* A step that tells the window nothing.
LEMMA TellsNothing ==
  ASSUME AnswersAreOver, WindowIsTold, toStore \in Seq(Messages), UNCHANGED toStore,
         ui' \in {ui, "joining"}, OverStays, IdleIsDue => IdleIsDue',
         NoSession' => NoSession /\ (IdleIsDue' \/ Granted' \subseteq Granted),
         NoConnection' => NoConnection
  PROVE  AnswersAreOver' /\ WindowIsTold'
<1>1. \A i \in 1..Len(toStore) : toStore[i] \in Messages
  OBVIOUS
<1>2. \A m \in Messages : m.kind = "answer" => m.call \in Calls
  BY DEF Messages
<1>3. AnswersAreOver'
  BY <1>1, <1>2 DEF AnswersAreOver, OverStays
<1>4. PICK s : s = toStore
  OBVIOUS
<1>5. PICK worse : worse = {m \in Messages : Opens(m)'}
  OBVIOUS
<1>6. PICK bad : bad = {m \in Messages : Opens(m)}
  OBVIOUS
<1>7. \A i \in 1..Len(s) : s[i] \in worse => s[i] \in bad
  <2>1. SUFFICES ASSUME NEW i \in 1..Len(s), s[i] \in worse PROVE s[i] \in bad
    OBVIOUS
  <2>2. s[i] \in Messages /\ Opens(s[i])'
    BY <1>5, <2>1
  <2>3. s[i].kind = "answer" => s[i].call \in Calls /\ call[s[i].call].pc = "answered"
    BY <1>2, <1>4, <2>2 DEF AnswersAreOver
  <2>4. Opens(s[i])
    BY <2>2, <2>3 DEF Opens, OverStays
  <2>5. QED
    BY <1>6, <2>2, <2>4
<1>8. ClosedInTheEnd => ClosedInTheEnd'
  <2>1. SUFFICES ASSUME ClosedInTheEnd PROVE ClosedInTheEnd'
    OBVIOUS
  <2>2. EndsIdle(s, ui \notin Open, bad)
    BY <1>4, <1>6, <2>1 DEF ClosedInTheEnd
  <2>3. ui \notin Open => ui' \notin Open
    BY DEF Open
  <2>4. EndsIdle(s, ui' \notin Open, worse)
    BY <1>7, <2>2, <2>3, SameEnds
  <2>5. QED
    BY <1>4, <1>5, <2>4 DEF ClosedInTheEnd
<1>9. UnconnectedInTheEnd => UnconnectedInTheEnd'
  <2>1. SUFFICES ASSUME UnconnectedInTheEnd PROVE UnconnectedInTheEnd'
    OBVIOUS
  <2>2. EndsIdle(s, ui # "connected", {State("connected")})
    BY <1>4, <2>1 DEF UnconnectedInTheEnd
  <2>3. ui # "connected" => ui' # "connected"
    OBVIOUS
  <2>4. EndsIdle(s, ui' # "connected", {State("connected")})
    BY <2>2, <2>3, SameEnds
  <2>5. QED
    BY <1>4, <2>4 DEF UnconnectedInTheEnd
<1>10. QED
  BY <1>3, <1>8, <1>9 DEF WindowIsTold

\* A message is added that does not open what is closed.
LEMMA TellsMore ==
  ASSUME AnswersAreOver, WindowIsTold, toStore \in Seq(Messages),
         NEW m \in Messages, toStore' = Append(toStore, m), UNCHANGED ui,
         m.kind = "answer" => call'[m.call].pc = "answered",
         OverStays, IdleIsDue => IdleIsDue',
         NoSession' => NoSession /\ (IdleIsDue' \/ (Granted' \subseteq Granted /\ ~Opens(m)')),
         NoConnection' => NoConnection /\ (IdleIsDue' \/ m # State("connected"))
  PROVE  AnswersAreOver' /\ WindowIsTold'
<1>1. /\ Len(toStore') = Len(toStore) + 1 /\ Len(toStore) \in Nat /\ toStore'[Len(toStore) + 1] = m
      /\ \A i \in 1..Len(toStore) : toStore'[i] = toStore[i] /\ toStore[i] \in Messages
      /\ \A i \in 1..Len(toStore') : i \in 1..Len(toStore) \/ i = Len(toStore) + 1
  BY AppendOf
<1>2. \A n \in Messages : n.kind = "answer" => n.call \in Calls
  BY DEF Messages
<1>3. AnswersAreOver'
  <2>1. ASSUME NEW i \in 1..Len(toStore'), toStore'[i].kind = "answer"
        PROVE  call'[toStore'[i].call].pc = "answered"
    <3>1. CASE i \in 1..Len(toStore)
      BY <1>1, <1>2, <2>1, <3>1 DEF AnswersAreOver, OverStays
    <3>2. CASE i = Len(toStore) + 1
      BY <1>1, <2>1, <3>2
    <3>3. QED
      BY <1>1, <3>1, <3>2
  <2>2. QED
    BY <2>1 DEF AnswersAreOver
<1>4. PICK s \in Seq(Messages) : s = toStore
  OBVIOUS
<1>5. PICK worse : worse = {n \in Messages : Opens(n)'}
  OBVIOUS
<1>6. PICK bad : bad = {n \in Messages : Opens(n)}
  OBVIOUS
<1>7. \A i \in 1..Len(s) : s[i] \in worse => s[i] \in bad
  <2>1. SUFFICES ASSUME NEW i \in 1..Len(s), s[i] \in worse PROVE s[i] \in bad
    OBVIOUS
  <2>2. s[i] \in Messages /\ Opens(s[i])'
    BY <1>5, <2>1
  <2>3. s[i].kind = "answer" => s[i].call \in Calls /\ call[s[i].call].pc = "answered"
    BY <1>2, <1>4, <2>2 DEF AnswersAreOver
  <2>4. Opens(s[i])
    BY <2>2, <2>3 DEF Opens, OverStays
  <2>5. QED
    BY <1>6, <2>2, <2>4
<1>8. ClosedInTheEnd /\ ~Opens(m)' => ClosedInTheEnd'
  <2>1. SUFFICES ASSUME ClosedInTheEnd, ~Opens(m)' PROVE ClosedInTheEnd'
    OBVIOUS
  <2>2. EndsIdle(s, ui \notin Open, bad)
    BY <1>4, <1>6, <2>1 DEF ClosedInTheEnd
  <2>3. EndsIdle(s, ui \notin Open, worse)
    BY <1>7, <2>2, SameEnds
  <2>4. m \notin worse
    BY <1>5, <2>1
  <2>5. EndsIdle(Append(s, m), ui \notin Open, worse)
    BY <2>3, <2>4, OtherEnds
  <2>6. QED
    BY <1>4, <1>5, <2>5 DEF ClosedInTheEnd
<1>9. UnconnectedInTheEnd /\ m # State("connected") => UnconnectedInTheEnd'
  <2>1. SUFFICES ASSUME UnconnectedInTheEnd, m # State("connected") PROVE UnconnectedInTheEnd'
    OBVIOUS
  <2>2. EndsIdle(s, ui # "connected", {State("connected")}) /\ m \notin {State("connected")}
    BY <1>4, <2>1 DEF UnconnectedInTheEnd
  <2>3. EndsIdle(Append(s, m), ui # "connected", {State("connected")})
    BY <2>2, OtherEnds
  <2>4. QED
    BY <1>4, <2>3 DEF UnconnectedInTheEnd
<1>10. QED
  BY <1>3, <1>8, <1>9 DEF WindowIsTold

\* "idle" is sent when no request for a session is granted.
LEMMA TellsIdle ==
  ASSUME AnswersAreOver, toStore \in Seq(Messages), toStore' = Append(toStore, State("idle")),
         OverStays, Granted' = {}
  PROVE  AnswersAreOver' /\ WindowIsTold'
<1>1. State("idle") \in Messages /\ State("idle").kind # "answer"
  BY DEF State, Messages
<1>2. /\ Len(toStore') = Len(toStore) + 1 /\ Len(toStore) \in Nat
      /\ toStore'[Len(toStore) + 1] = State("idle")
      /\ \A i \in 1..Len(toStore) : toStore'[i] = toStore[i] /\ toStore[i] \in Messages
      /\ \A i \in 1..Len(toStore') : i \in 1..Len(toStore) \/ i = Len(toStore) + 1
  BY <1>1, AppendOf
<1>3. \A n \in Messages : n.kind = "answer" => n.call \in Calls
  BY DEF Messages
<1>4. AnswersAreOver'
  <2>1. ASSUME NEW i \in 1..Len(toStore'), toStore'[i].kind = "answer"
        PROVE  call'[toStore'[i].call].pc = "answered"
    <3>1. CASE i \in 1..Len(toStore)
      BY <1>2, <1>3, <2>1, <3>1 DEF AnswersAreOver, OverStays
    <3>2. CASE i = Len(toStore) + 1
      BY <1>1, <1>2, <2>1, <3>2
    <3>3. QED
      BY <1>2, <3>1, <3>2
  <2>2. QED
    BY <2>1 DEF AnswersAreOver
<1>5. ClosedInTheEnd' /\ UnconnectedInTheEnd'
  BY IdleEnds DEF ClosedInTheEnd, UnconnectedInTheEnd
<1>6. QED
  BY <1>4, <1>5 DEF WindowIsTold

\* Nothing is told, and an "idle" is due.
LEMMA IdleWillTell ==
  ASSUME AnswersAreOver, toStore \in Seq(Messages), UNCHANGED toStore, OverStays, IdleIsDue'
  PROVE  AnswersAreOver' /\ WindowIsTold'
<1>1. /\ \A i \in 1..Len(toStore) : toStore[i] \in Messages
      /\ \A n \in Messages : n.kind = "answer" => n.call \in Calls
  BY DEF Messages
<1>2. AnswersAreOver'
  BY <1>1 DEF AnswersAreOver, OverStays
<1>3. QED
  BY <1>2 DEF WindowIsTold

\* The renderer takes a message, which it was sent in that order.
LEMMA StoreTakesTells ==
  ASSUME ControllerInvariant, AnswersAreOver, WindowIsTold, StoreTakes
  PROVE  AnswersAreOver' /\ WindowIsTold'
<1>1. /\ toStore \in Seq(Messages) /\ toStore # <<>> /\ toStore' = Tail(toStore)
      /\ ui \in {"idle", "joining", "waiting", "connecting", "connected"}
      /\ engine' = engine /\ child' = child /\ call' = call /\ closing' = closing
  BY TypesGive DEF ControllerInvariant, StoreTakes
<1>2. PICK m : m = Head(toStore)
  OBVIOUS
<1>3. /\ m \in Messages /\ toStore' \in Seq(Messages) /\ m = toStore[1] /\ 1 \in 1..Len(toStore)
      /\ \A i \in 1..Len(toStore') : i + 1 \in 1..Len(toStore) /\ toStore'[i] = toStore[i + 1]
  BY <1>1, <1>2, TailOf
<1>4. AnswersAreOver'
  BY <1>1, <1>3 DEF AnswersAreOver
<1>5. \/ m.kind = "state" /\ ui' = m.state
      \/ m.kind = "transfer" /\ ui' = ui
      \/ m.kind = "answer" /\ ui' = Shows(call[m.call].op, m.ok)
  BY <1>2 DEF StoreTakes
<1>6. m.kind = "state" => m = State(m.state) /\ m.state \in {"idle", "connected"}
  BY <1>3 DEF Messages, State
<1>7. m = State("idle") => ui' = "idle"
  BY <1>5 DEF State
<1>8. PICK bad : bad = {n \in Messages : Opens(n)}
  OBVIOUS
<1>9. PICK s \in Seq(Messages) : s = toStore
  BY <1>1
<1>10. ClosedInTheEnd => ClosedInTheEnd'
  <2>1. SUFFICES ASSUME ClosedInTheEnd PROVE ClosedInTheEnd'
    OBVIOUS
  <2>2. ui \notin Open /\ m \notin bad => ui' \notin Open
    <3>1. SUFFICES ASSUME ui \notin Open, ~Opens(m) PROVE ui' \notin Open
      BY <1>3, <1>8
    <3>2. CASE m.kind = "state"
      BY <1>5, <1>6, <3>1, <3>2 DEF Opens, Open
    <3>3. CASE m.kind = "transfer"
      BY <1>5, <3>1, <3>3
    <3>4. CASE m.kind = "answer"
      BY <1>5, <3>1, <3>4 DEF Opens, Open, Shows
    <3>5. QED
      BY <1>5, <3>2, <3>3, <3>4
  <2>3. EndsIdle(s, ui \notin Open, bad)
    BY <1>8, <1>9, <2>1 DEF ClosedInTheEnd
  <2>4. Head(s) = State("idle") => ui' \notin Open
    BY <1>2, <1>7, <1>9 DEF Open
  <2>5. EndsIdle(Tail(s), ui' \notin Open, bad)
    BY <1>1, <1>2, <1>9, <2>2, <2>3, <2>4, TakenEnds
  <2>6. {n \in Messages : Opens(n)}' = bad
    BY <1>1, <1>8 DEF Opens
  <2>7. QED
    BY <1>1, <1>9, <2>5, <2>6 DEF ClosedInTheEnd
<1>11. UnconnectedInTheEnd => UnconnectedInTheEnd'
  <2>1. SUFFICES ASSUME UnconnectedInTheEnd PROVE UnconnectedInTheEnd'
    OBVIOUS
  <2>2. ui # "connected" /\ m # State("connected") => ui' # "connected"
    BY <1>5, <1>6 DEF Shows
  <2>3. EndsIdle(s, ui # "connected", {State("connected")})
    BY <1>9, <2>1 DEF UnconnectedInTheEnd
  <2>4. Head(s) = State("idle") => ui' # "connected"
    BY <1>2, <1>7, <1>9
  <2>5. ui # "connected" /\ Head(s) \notin {State("connected")} => ui' # "connected"
    BY <1>2, <1>9, <2>2
  <2>6. EndsIdle(Tail(s), ui' # "connected", {State("connected")})
    BY <1>1, <1>9, <2>3, <2>4, <2>5, TakenEnds
  <2>7. QED
    BY <1>1, <1>9, <2>6 DEF UnconnectedInTheEnd
<1>12. (NoSession' <=> NoSession) /\ (NoConnection' <=> NoConnection) /\ (IdleIsDue' <=> IdleIsDue)
       /\ Granted' = Granted
  BY <1>1 DEF NoSession, NoConnection, IdleIsDue, Granted
<1>13. QED
  BY <1>4, <1>10, <1>11, <1>12 DEF WindowIsTold

\* disconnect(): its "idle" is sent at once, or due when the engine has closed.
LEMMA DisconnectTells ==
  ASSUME ControllerInvariant, AnswersAreOver, child # NoEngine \/ MicrotasksDone,
         NEW known, Disconnect(known)
  PROVE  AnswersAreOver' /\ WindowIsTold'
<1>1. /\ Types /\ toStore \in Seq(Messages) /\ call \in [Calls -> CallState]
      /\ call' = FailPending
  BY TypesGive DEF ControllerInvariant, Disconnect
<1>2. /\ \A c \in Calls : call'[c].op = call[c].op
      /\ \A c \in Calls : call'[c].pc = IF call[c].pc = "pending" THEN "rejected" ELSE call[c].pc
  BY <1>1, PendingFails
<1>3. OverStays
  BY <1>2 DEF OverStays
<1>4. CASE child # NoEngine
  <2>1. closing' # {} /\ UNCHANGED toStore
    BY <1>4 DEF Disconnect
  <2>2. IdleIsDue'
    BY <2>1 DEF IdleIsDue
  <2>3. QED
    BY <1>1, <1>3, <2>1, <2>2, IdleWillTell
<1>5. CASE child = NoEngine
  <2>1. toStore' = Append(toStore, State("idle"))
    BY <1>5 DEF Disconnect
  <2>2. Granted' = {}
    BY <1>2, <1>5 DEF MicrotasksDone, Settled, Granted
  <2>3. QED
    BY <1>1, <1>3, <2>1, <2>2, TellsIdle
<1>6. QED
  BY <1>4, <1>5

\* The exit of the engine sends "idle", after every answer it had granted.
LEMMA EngineGoneTells ==
  ASSUME ControllerInvariant, AnswersAreOver, EngineGone
  PROVE  AnswersAreOver' /\ WindowIsTold'
<1>1. /\ Types /\ toStore \in Seq(Messages) /\ call' = FailPending /\ MicrotasksDone
      /\ toStore' = Append(toStore, State("idle"))
  BY TypesGive DEF ControllerInvariant, EngineGone
<1>2. /\ \A c \in Calls : call'[c].op = call[c].op
      /\ \A c \in Calls : call'[c].pc = IF call[c].pc = "pending" THEN "rejected" ELSE call[c].pc
  BY <1>1, PendingFails
<1>3. OverStays /\ Granted' = {}
  BY <1>1, <1>2 DEF OverStays, MicrotasksDone, Settled, Granted
<1>4. QED
  BY <1>1, <1>3, TellsIdle

\* So does the end of a disconnect().
LEMMA DisconnectReturnsTells ==
  ASSUME ControllerInvariant, AnswersAreOver, NEW g \in Engines, DisconnectReturns(g)
  PROVE  AnswersAreOver' /\ WindowIsTold'
<1>1. /\ toStore \in Seq(Messages) /\ UNCHANGED call /\ MicrotasksDone
      /\ toStore' = Append(toStore, State("idle"))
  BY TypesGive DEF ControllerInvariant, DisconnectReturns
<1>2. OverStays /\ Granted' = {}
  BY <1>1 DEF OverStays, MicrotasksDone, Settled, Granted
<1>3. QED
  BY <1>1, <1>2, TellsIdle

\* An engine that ends makes the controller owe an "idle".
LEMMA EngineActsTells ==
  ASSUME ControllerInvariant, AnswersAreOver, WindowIsTold, EngineActs
  PROVE  AnswersAreOver' /\ WindowIsTold'
<1>1. /\ OnlyTheChildLives /\ EnginesAreSound /\ engine \in [Engines -> EngineState]
      /\ child \in Engines \cup {NoEngine} /\ toStore \in Seq(Messages)
  BY TypesGive DEF ControllerInvariant
<1>2. UNCHANGED <<child, call, closing, toStore, ui>>
  BY DEF EngineActs, storeVars
<1>3. PICK g \in Engines : EngineStep(g)
  BY DEF EngineActs
<1>4. PICK f : engine' = [engine EXCEPT ![g] = f] /\ Advances(engine[g], f)
  BY <1>1, <1>3, EngineAdvances DEF EnginesAreSound
<1>5. g = child /\ engine'[child] = f /\ child # NoEngine
  BY <1>1, <1>4, SessionAssumption DEF Advances, OnlyTheChildLives, Unborn, Gone
<1>6. OverStays
  BY <1>2 DEF OverStays
<1>7. CASE f.pc = "gone"
  <2>1. IdleIsDue'
    BY <1>2, <1>5, <1>7 DEF IdleIsDue
  <2>2. QED
    BY <1>1, <1>2, <1>6, <2>1, IdleWillTell
<1>8. CASE f.pc # "gone"
  <2>1. /\ engine[child].started => f.started
        /\ engine[child].session \in {"connected", "over"} => f.session \in {"connected", "over"}
        /\ engine[child].pc = "running"
    BY <1>4, <1>5, <1>8 DEF Advances
  <2>2. (NoSession' => NoSession) /\ (NoConnection' => NoConnection) /\ (IdleIsDue => IdleIsDue')
    BY <1>2, <1>5, <2>1 DEF NoSession, NoConnection, IdleIsDue
  <2>3. Granted' = Granted
    BY <1>2 DEF Granted
  <2>4. QED
    BY <1>1, <1>2, <1>6, <2>2, <2>3, TellsNothing
<1>9. QED
  BY <1>7, <1>8

\* A request grants nothing, and a new engine has no session to show.
LEMMA RequestTells ==
  ASSUME ControllerInvariant, AnswersAreOver, WindowIsTold, NEW c \in Calls,
         NEW op \in {"host", "join", "send"}, Request(c, op), call[c].pc \in {"unused", "stat"},
         UNCHANGED <<closing, toStore>>, ui' \in {ui, "joining"}
  PROVE  AnswersAreOver' /\ WindowIsTold'
<1>1. /\ Types /\ OnlyTheChildLives /\ engine \in [Engines -> EngineState]
      /\ call \in [Calls -> CallState] /\ toStore \in Seq(Messages)
      /\ child = NoEngine => Unstarted # {}
  BY TypesGive DEF ControllerInvariant, Request
<1>2. /\ Target \in Engines /\ child \in {Target, NoEngine}
      /\ child # NoEngine => engine[Target].pc # "unborn"
  BY <1>1, TargetOf
<1>3. PICK g \in Engines : g = Target
  BY <1>2
<1>4. PICK e \in EngineState : e = engine[g]
  BY <1>1
<1>5. /\ engine'[g].started = e.started /\ engine'[g].session = e.session
      /\ e.pc = "gone" => engine'[g].pc = "gone"
  <2>1. CASE Cardinality(Pending) >= MaxPending
    <3>1. engine' = [engine EXCEPT ![g].pc = IF @ = "unborn" THEN "running" ELSE @]
      BY <1>3, <2>1 DEF Request
    <3>2. engine'[g] = [e EXCEPT !.pc = IF @ = "unborn" THEN "running" ELSE @]
      BY <1>1, <1>4, <3>1
    <3>3. QED
      BY <3>2 DEF EngineState
  <2>2. CASE ~ (Cardinality(Pending) >= MaxPending)
    <3>1. engine' = Written(g, c, op)
      BY <1>3, <2>2 DEF Request
    <3>2. engine'[g] = [e EXCEPT !.pc = IF @ = "unborn" THEN "running" ELSE @,
                                 !.in = IF e.pc = "gone" THEN @ ELSE Append(@, [op |-> op, call |-> c])]
      BY <1>1, <1>4, <3>1 DEF Written
    <3>3. QED
      BY <3>2 DEF EngineState
  <2>3. QED
    BY <2>1, <2>2
<1>6. child' = g
  BY <1>3 DEF Request
<1>7. PICK pc \in {"pending", "rejected"} :
        call' = [call EXCEPT ![c] = [op |-> op, to |-> g, pc |-> pc]]
  BY <1>3 DEF Request
<1>8. call'[c].pc \in {"pending", "rejected"} /\ \A b \in Calls \ {c} : call'[b] = call[b]
  BY <1>1, <1>7
<1>9. OverStays /\ Granted' \subseteq Granted
  BY <1>8 DEF OverStays, Granted
<1>10. (NoSession' => NoSession) /\ (NoConnection' => NoConnection) /\ (IdleIsDue => IdleIsDue')
  BY <1>2, <1>3, <1>4, <1>5, <1>6, SessionAssumption DEF NoSession, NoConnection, IdleIsDue
<1>11. QED
  BY <1>1, <1>9, <1>10, TellsNothing

\* A call moves, and no engine.
LEMMA CallTells ==
  ASSUME ControllerInvariant, AnswersAreOver, WindowIsTold, NEW c \in Calls,
         NEW d \in CallState, call' = [call EXCEPT ![c] = d],
         call[c].pc # "answered", d.pc # "resolved",
         UNCHANGED <<engine, child, closing, toStore>>, ui' \in {ui, "joining"}
  PROVE  AnswersAreOver' /\ WindowIsTold'
<1>1. call \in [Calls -> CallState] /\ toStore \in Seq(Messages)
  BY TypesGive DEF ControllerInvariant
<1>2. call'[c] = d /\ \A b \in Calls \ {c} : call'[b] = call[b]
  BY <1>1
<1>3. OverStays /\ Granted' \subseteq Granted
  BY <1>2 DEF OverStays, Granted
<1>4. (NoSession' => NoSession) /\ (NoConnection' => NoConnection) /\ (IdleIsDue => IdleIsDue')
  BY DEF NoSession, NoConnection, IdleIsDue
<1>5. QED
  BY <1>1, <1>3, <1>4, TellsNothing

\* What a running child tells of its session is so; what is still read of one that
\* has ended is followed by "idle".
LEMMA HandleLineTells ==
  ASSUME ControllerInvariant, AnswersAreOver, WindowIsTold, HandleLine
  PROVE  AnswersAreOver' /\ WindowIsTold'
<1>1. /\ EnginesAreSound /\ toStore \in Seq(Messages)
      /\ engine \in [Engines -> EngineState] /\ call \in [Calls -> CallState]
      /\ child # NoEngine /\ UNCHANGED ui
  BY TypesGive DEF ControllerInvariant, HandleLine, storeVars
<1>2. PICK g \in Engines : g = child
  BY <1>1, TypesGive DEF ControllerInvariant
<1>3. PICK e \in EngineState : e = engine[g]
  BY <1>1
<1>4. PICK line : line = Head(e.out)
  OBVIOUS
<1>5. PICK f : f = [e EXCEPT !.out = Tail(@)]
  OBVIOUS
<1>6. Sound(e) /\ e.out # <<>>
  BY <1>1, <1>2, <1>3 DEF EnginesAreSound, HandleLine
<1>7. /\ f.pc = e.pc /\ f.started = e.started /\ f.session = e.session
      /\ line \in Lines /\ LineIsAsked(line) /\ (e.pc = "running" => LineIsHonest(e, line))
  BY <1>4, <1>5, <1>6, HearIsSound
<1>8. e.pc # "unborn"
  BY <1>1, <1>2, <1>3 DEF ControllerInvariant, OnlyTheChildLives
<1>9. e.pc \in {"running", "gone"}
  BY <1>8, EngineFields
<1>10. ASSUME engine' = [engine EXCEPT ![child].out = Tail(@)], UNCHANGED <<child, closing>>
       PROVE  /\ NoSession' => ~f.started
              /\ NoConnection' => f.session \notin {"connected", "over"}
              /\ (NoSession' => NoSession) /\ (NoConnection' => NoConnection)
              /\ (IdleIsDue => IdleIsDue') /\ (e.pc = "gone" => IdleIsDue')
  <2>1. engine'[g] = f
    BY <1>1, <1>2, <1>3, <1>5, <1>10
  <2>2. QED
    BY <1>1, <1>2, <1>3, <1>7, <1>10, <2>1 DEF NoSession, NoConnection, IdleIsDue
<1>11. CASE line.event = "error"
  <2>1. Disconnect([engine EXCEPT ![child].out = Tail(@)])
    BY <1>2, <1>3, <1>4, <1>11 DEF HandleLine
  <2>2. QED
    BY <1>1, <2>1, DisconnectTells, Zenon
<1>12. CASE line.event = "connected"
  <2>1. /\ engine' = [engine EXCEPT ![child].out = Tail(@)] /\ UNCHANGED <<child, closing, call>>
        /\ toStore' = Append(toStore, State("connected"))
    BY <1>2, <1>3, <1>4, <1>12 DEF HandleLine
  <2>2. State("connected") \in Messages /\ State("connected").kind # "answer"
    BY DEF State, Messages
  <2>3. OverStays /\ Granted' = Granted
    BY <2>1 DEF OverStays, Granted
  <2>4. e.pc = "running" => e.session \in {"connected", "over"} /\ e.started
    BY <1>6, <1>7, <1>12 DEF LineIsHonest, Sound, Honest
  <2>5. /\ NoSession' => NoSession /\ IdleIsDue'
        /\ NoConnection' => NoConnection /\ IdleIsDue'
    BY <1>7, <1>9, <1>10, <2>1, <2>4
  <2>6. IdleIsDue => IdleIsDue'
    BY <1>10, <2>1
  <2>7. QED
    BY <1>1, <2>1, <2>2, <2>3, <2>5, <2>6, TellsMore, Zenon
<1>13. CASE line.event = "received"
  <2>1. /\ engine' = [engine EXCEPT ![child].out = Tail(@)] /\ UNCHANGED <<child, closing, call>>
        /\ toStore' = Append(toStore, Transfer(line.digest))
    BY <1>2, <1>3, <1>4, <1>13 DEF HandleLine
  <2>2. line.digest \in Digests
    BY <1>7, <1>13 DEF Lines
  <2>3. PICK m : m = Transfer(line.digest)
    OBVIOUS
  <2>4. m \in Messages /\ m.kind = "transfer"
    BY <2>2, <2>3 DEF Transfer, Messages
  <2>5. m # State("connected") /\ ~Opens(m)'
    BY <2>4 DEF State, Opens
  <2>6. OverStays /\ Granted' = Granted
    BY <2>1 DEF OverStays, Granted
  <2>7. (NoSession' => NoSession) /\ (NoConnection' => NoConnection) /\ (IdleIsDue => IdleIsDue')
    BY <1>10, <2>1
  <2>8. QED
    BY <1>1, <2>1, <2>3, <2>4, <2>5, <2>6, <2>7, TellsMore, Zenon
<1>14. CASE line.event = "response"
  <2>1. /\ engine' = [engine EXCEPT ![child].out = Tail(@)] /\ UNCHANGED <<child, closing, toStore>>
        /\ call' = [call EXCEPT ![line.call].pc =
                      IF @ # "pending" THEN @ ELSE IF line.ok THEN "resolved" ELSE "rejected"]
    BY <1>2, <1>3, <1>4, <1>14 DEF HandleLine
  <2>2. PICK b \in Calls : b = line.call
    BY <1>7, <1>14 DEF Lines
  <2>3. /\ call'[b].op = call[b].op /\ (call[b].pc # "pending" => call'[b].pc = call[b].pc)
        /\ \A c \in Calls \ {b} : call'[c] = call[c]
    BY <1>1, <2>1, <2>2 DEF CallState
  <2>4. OverStays
    BY <2>3 DEF OverStays
  <2>5. NoSession' => NoSession /\ (IdleIsDue' \/ Granted' \subseteq Granted)
    <3>1. CASE e.pc = "gone"
      BY <1>10, <2>1, <3>1
    <3>2. CASE e.pc = "running"
      <4>1. call[b].op \in {"host", "join"} => e.started
        BY <1>7, <1>14, <2>2, <3>2 DEF LineIsHonest
      <4>2. call[b].op \notin {"host", "join"} => Granted' \subseteq Granted
        BY <2>3 DEF Granted
      <4>3. QED
        BY <1>7, <1>10, <2>1, <4>1, <4>2
    <3>3. QED
      BY <1>9, <3>1, <3>2
  <2>6. (NoConnection' => NoConnection) /\ (IdleIsDue => IdleIsDue')
    BY <1>10, <2>1
  <2>7. UNCHANGED toStore /\ ui' \in {ui, "joining"}
    BY <1>1, <2>1
  <2>8. QED
    BY <1>1, <2>4, <2>5, <2>6, <2>7, TellsNothing, Zenon
<1>15. QED
  <2>1. line = Head(engine[child].out)
    BY <1>2, <1>3, <1>4, Zenon
  <2>2. QED
    BY <1>11, <1>12, <1>13, <1>14, <2>1 DEF HandleLine

\* The answer that opens the window is of a session that is there.
LEMMA ReplyTells ==
  ASSUME ControllerInvariant, AnswersAreOver, WindowIsTold, NEW c \in Calls, Reply(c)
  PROVE  AnswersAreOver' /\ WindowIsTold'
<1>1. call \in [Calls -> CallState] /\ toStore \in Seq(Messages)
  BY TypesGive DEF ControllerInvariant
<1>2. PICK m : m = Answer(c, call[c].pc = "resolved")
  OBVIOUS
<1>3. m \in Messages /\ m.kind = "answer" /\ m.call = c /\ (m.ok <=> call[c].pc = "resolved")
  BY <1>2 DEF Answer, Messages
<1>4. /\ call[c].pc \in {"resolved", "rejected"} /\ toStore' = Append(toStore, m)
      /\ call' = [call EXCEPT ![c].pc = "answered"]
      /\ UNCHANGED <<engine, child, closing>> /\ UNCHANGED ui
  BY <1>2 DEF Reply, Settled, storeVars
<1>5. /\ call'[c].pc = "answered" /\ call'[c].op = call[c].op
      /\ \A b \in Calls \ {c} : call'[b] = call[b]
  BY <1>1, <1>4 DEF CallState
<1>6. OverStays /\ Granted' \subseteq Granted
  BY <1>5 DEF OverStays, Granted
<1>7. /\ NoSession' = NoSession /\ NoConnection' = NoConnection /\ IdleIsDue' = IdleIsDue
  BY <1>4 DEF NoSession, NoConnection, IdleIsDue
<1>8. m # State("connected")
  BY <1>3 DEF State
<1>9. NoSession' => IdleIsDue' \/ ~Opens(m)'
  <2>1. SUFFICES ASSUME NoSession, ~IdleIsDue, Opens(m)' PROVE FALSE
    BY <1>7
  <2>2. c \in Granted
    BY <1>3, <1>5, <1>8, <2>1 DEF Opens, Granted
  <2>3. QED
    BY <2>1, <2>2 DEF WindowIsTold
<1>10. QED
  BY <1>1, <1>3, <1>4, <1>5, <1>6, <1>7, <1>8, <1>9, TellsMore

\* What the user asks for is not shown before its answer.
LEMMA UserAsksTells ==
  ASSUME ControllerInvariant, AnswersAreOver, WindowIsTold, NEW c \in Calls,
         Stated(c) \/ UserCreates(c) \/ UserJoins(c) \/ UserSends(c)
  PROVE  AnswersAreOver' /\ WindowIsTold'
<1>1. call \in [Calls -> CallState]
  BY TypesGive DEF ControllerInvariant
<1>2. CASE Stated(c)
  <2>1. call[c].pc = "stat" /\ UNCHANGED <<closing, toStore>> /\ ui' \in {ui, "joining"}
    BY <1>2 DEF Stated, storeVars
  <2>2. CASE Request(c, "send")
    BY <2>1, <2>2, RequestTells
  <2>3. CASE call' = [call EXCEPT ![c].pc = "rejected"] /\ UNCHANGED <<engine, child>>
    <3>1. PICK d : d = [call[c] EXCEPT !.pc = "rejected"]
      OBVIOUS
    <3>2. d \in CallState /\ d.pc = "rejected" /\ call' = [call EXCEPT ![c] = d]
      BY <1>1, <2>3, <3>1 DEF CallState
    <3>3. QED
      BY <2>1, <2>3, <3>2, CallTells
  <2>4. QED
    BY <1>2, <2>2, <2>3 DEF Stated
<1>3. ASSUME NEW op \in {"host", "join"}, AskForSession(c, op), ui' \in {ui, "joining"}
      PROVE  AnswersAreOver' /\ WindowIsTold'
  <2>1. call[c].pc = "unused" /\ UNCHANGED <<closing, toStore>>
    BY <1>3 DEF AskForSession
  <2>2. CASE Request(c, op)
    BY <1>3, <2>1, <2>2, RequestTells
  <2>3. CASE /\ call' = [call EXCEPT ![c] = [op |-> op, to |-> NoEngine, pc |-> "rejected"]]
             /\ UNCHANGED <<engine, child>>
    <3>1. PICK d : d = [op |-> op, to |-> NoEngine, pc |-> "rejected"]
      OBVIOUS
    <3>2. d \in CallState /\ d.pc = "rejected" /\ call' = [call EXCEPT ![c] = d]
      BY <2>3, <3>1 DEF CallState
    <3>3. QED
      BY <1>3, <2>1, <2>3, <3>2, CallTells
  <2>4. QED
    BY <1>3, <2>2, <2>3 DEF AskForSession
<1>4. CASE UserCreates(c)
  BY <1>3, <1>4 DEF UserCreates
<1>5. CASE UserJoins(c)
  BY <1>3, <1>5 DEF UserJoins
<1>6. CASE UserSends(c)
  <2>1. PICK d : d = IF outbound THEN [op |-> "refused", to |-> NoEngine, pc |-> "rejected"]
                                 ELSE [op |-> "send", to |-> NoEngine, pc |-> "stat"]
    OBVIOUS
  <2>2. d \in CallState /\ d.pc # "resolved"
    BY <2>1 DEF CallState
  <2>3. call[c].pc = "unused" /\ call' = [call EXCEPT ![c] = d]
    BY <1>6, <2>1 DEF UserSends, SendFilePath
  <2>4. UNCHANGED <<engine, child, closing, toStore>> /\ ui' \in {ui, "joining"}
    BY <1>6 DEF UserSends, SendFilePath, storeVars
  <2>5. QED
    BY <2>2, <2>3, <2>4, CallTells
<1>7. QED
  BY <1>2, <1>4, <1>5, <1>6

\* All together.
LEMMA NextTells ==
  ASSUME DesktopInvariant, [Next]_vars
  PROVE  AnswersAreOver' /\ WindowIsTold'
<1>1. ControllerInvariant /\ AnswersAreOver /\ WindowIsTold /\ toStore \in Seq(Messages)
  BY TypesGive DEF DesktopInvariant, ControllerInvariant
<1>2. CASE EngineActs
  BY <1>1, <1>2, EngineActsTells
<1>3. CASE HandleLine
  BY <1>1, <1>3, HandleLineTells
<1>4. CASE EngineGone
  BY <1>1, <1>4, EngineGoneTells
<1>5. ASSUME NEW g \in Engines, DisconnectReturns(g) PROVE AnswersAreOver' /\ WindowIsTold'
  BY <1>1, <1>5, DisconnectReturnsTells
<1>6. ASSUME NEW c \in Calls, RequestTimesOut(c) PROVE AnswersAreOver' /\ WindowIsTold'
  BY <1>1, <1>6, DisconnectTells DEF RequestTimesOut
<1>7. ASSUME NEW c \in Calls, Reply(c) PROVE AnswersAreOver' /\ WindowIsTold'
  BY <1>1, <1>7, ReplyTells
<1>8. ASSUME NEW c \in Calls, Stated(c) \/ UserCreates(c) \/ UserJoins(c) \/ UserSends(c)
      PROVE  AnswersAreOver' /\ WindowIsTold'
  BY <1>1, <1>8, UserAsksTells
<1>9. CASE UserDisconnects
  BY <1>1, <1>9, DisconnectTells DEF UserDisconnects
<1>10. CASE StoreTakes
  BY <1>1, <1>10, StoreTakesTells
<1>11. CASE UNCHANGED vars
  <2>1. UNCHANGED <<engine, child, call, closing, toStore, ui>>
    BY <1>11 DEF vars, storeVars
  <2>2. OverStays /\ Granted' = Granted /\ NoSession' = NoSession /\ NoConnection' = NoConnection
        /\ IdleIsDue' = IdleIsDue
    BY <2>1 DEF OverStays, Granted, NoSession, NoConnection, IdleIsDue
  <2>3. QED
    BY <1>1, <2>1, <2>2, TellsNothing
<1>12. QED
  BY <1>2, <1>3, <1>4, <1>5, <1>6, <1>7, <1>8, <1>9, <1>10, <1>11 DEF Next

\* With it, the window: an "idle" is due, or was sent last, when there is no session.
THEOREM DesktopInvariantHolds == Spec => []DesktopInvariant
<1>1. Init => DesktopInvariant
  <2>1. SUFFICES ASSUME Init PROVE DesktopInvariant
    OBVIOUS
  <2>2. /\ toStore = <<>> /\ Len(toStore) = 0 /\ ui = "idle"
        /\ \A c \in Calls : call[c].pc = "unused"
    BY <2>1 DEF Init
  <2>3. AnswersAreOver /\ Granted = {} /\ ClosedInTheEnd /\ UnconnectedInTheEnd
    BY <2>2 DEF AnswersAreOver, Granted, ClosedInTheEnd, UnconnectedInTheEnd, EndsIdle, Open
  <2>4. QED
    BY <2>1, <2>3, InitControls DEF DesktopInvariant, WindowIsTold
<1>2. DesktopInvariant /\ [Next]_vars => DesktopInvariant'
  BY NextControls, NextTells DEF DesktopInvariant
<1>3. QED
  BY <1>1, <1>2, PTL DEF Spec

\* Once everything has settled, the window shows no session that the engine does not
\* have.
THEOREM NoGhostIsShown == Spec => []UiShowsNoGhost
<1>1. DesktopInvariant => UiShowsNoGhost
  <2>1. SUFFICES ASSUME DesktopInvariant, Quiet, ui \in Open
                 PROVE  /\ child # NoEngine /\ engine[child].started
                        /\ ui = "connected" => engine[child].session \in {"connected", "over"}
    BY DEF UiShowsNoGhost, Open
  <2>2. ~IdleIsDue /\ toStore = <<>> /\ Len(toStore) = 0
    BY <2>1 DEF Quiet, IdleIsDue
  <2>3. ~ClosedInTheEnd /\ (ui = "connected" => ~UnconnectedInTheEnd)
    BY <2>1, <2>2 DEF ClosedInTheEnd, UnconnectedInTheEnd, EndsIdle
  <2>4. QED
    BY <2>1, <2>2, <2>3 DEF DesktopInvariant, WindowIsTold, NoSession, NoConnection
<1>2. QED
  BY <1>1, DesktopInvariantHolds, PTL
=============================================================================
