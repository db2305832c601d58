------------------------ MODULE AndroidSessionProofs ------------------------
(***************************************************************************)
(* Proofs about AndroidSession, for any number of sessions, sends and      *)
(* sources: an engine takes the source of the send it was told of and no   *)
(* other, and the button that sends belongs to a session that has paired.  *)
(***************************************************************************)
EXTENDS AndroidSession, FiniteSetTheorems, SequenceTheorems, TLAPS

(***************************************************************************)
(* Types.                                                                  *)
(***************************************************************************)

Commands == [op: {"host", "join", "send"}, call: Calls, handle: Nat]

Lines ==
  [event: {"response"}, call: Calls \cup {NoCall}, ok: BOOLEAN]
    \cup [event: {"connected", "error"}]

EngineState ==
  [pc: {"unborn", "running", "gone"}, started: BOOLEAN,
   session: {"none", "pairing", "connected", "over"},
   joining: Calls \cup {NoCall}, task: Calls \cup {NoCall}, permit: BOOLEAN,
   files: 0..MaxFiles, in: Seq(Commands), out: Seq(Lines)]

RequestState ==
  [op: {"none", "host", "join", "send"},
   pc: {"unused", "submitting", "queued", "checked", "waiting", "ended"},
   done: BOOLEAN, source: Nat]

ClosingState ==
  [pc: {"open", "settling", "settled", "closed"}, by: {"none", "ui", "reader", "native"}]

ReaderState == [on: BOOLEAN, chunk: Seq(Lines)]

\* The type of every variable, and an engine that runs on after its socket was
\* shut down still has commands to read.
EnginesTyped ==
  /\ engine \in [Engines -> EngineState]
  /\ \A g \in Engines : Shut(g) /\ Running(g) => engine[g].in # <<>>

RequestsTyped ==
  request \in [Calls -> RequestState] /\ pending \subseteq Calls /\ interrupted \subseteq Calls

ThreadsTyped ==
  /\ closing \in [Engines -> ClosingState]
  /\ reader \in [Engines -> ReaderState]
  /\ posts \in Seq(Engines)

UiTyped ==
  /\ generation \in 0..MaxGenerations /\ epoch \in [Engines -> 0..MaxGenerations]
  /\ transport \in Engines \cup {NoSession}
  /\ sendEnabled \in BOOLEAN /\ destroyed \in BOOLEAN /\ crashed \in BOOLEAN

\* What is read from a sequence.
LEMMA TailOf ==
  ASSUME NEW S, NEW s \in Seq(S), s # <<>>
  PROVE  /\ Head(s) = s[1] /\ Head(s) \in S /\ 1 \in 1..Len(s)
         /\ Tail(s) \in Seq(S) /\ Len(Tail(s)) = Len(s) - 1 /\ Len(s) \in Nat
         /\ \A i \in 1..Len(Tail(s)) : i + 1 \in 1..Len(s) /\ Tail(s)[i] = s[i + 1]
BY HeadTailProperties, EmptySeq, LenProperties

\* What is written to it.
LEMMA AppendOf ==
  ASSUME NEW S, NEW s \in Seq(S), NEW x \in S
  PROVE  /\ Append(s, x) \in Seq(S) /\ Len(Append(s, x)) = Len(s) + 1 /\ Len(s) \in Nat
         /\ Append(s, x)[Len(s) + 1] = x
         /\ \A i \in 1..Len(s) : Append(s, x)[i] = s[i]
         /\ \A i \in 1..Len(Append(s, x)) : i \in 1..Len(s) \/ i = Len(s) + 1
OBVIOUS

\* The type of each field of an engine.
LEMMA EngineFields ==
  ASSUME NEW e \in EngineState
  PROVE  /\ e.pc \in {"unborn", "running", "gone"} /\ e.started \in BOOLEAN
         /\ e.session \in {"none", "pairing", "connected", "over"}
         /\ e.joining \in Calls \cup {NoCall} /\ e.task \in Calls \cup {NoCall}
         /\ e.permit \in BOOLEAN /\ e.files \in 0..MaxFiles
         /\ e.in \in Seq(Commands) /\ e.out \in Seq(Lines)
BY DEF EngineState

\* An engine that has not begun, and one that is over.
LEMMA SilentEngines ==
  /\ Unborn \in EngineState /\ Gone \in EngineState
  /\ Unborn.pc = "unborn" /\ Gone.pc = "gone"
  /\ \A e \in {Unborn, Gone} :
       e.in = <<>> /\ e.out = <<>> /\ e.session = "none" /\ e.started = FALSE
<1>1. <<>> \in Seq(Commands) /\ <<>> \in Seq(Lines) /\ 0 \in 0..MaxFiles
  BY EngineAssumption, EmptySeq
<1>2. Unborn \in EngineState
  BY <1>1 DEF Unborn, EngineState
<1>3. PICK u \in EngineState : u = Unborn
  BY <1>2
<1>4. /\ u.pc = "unborn" /\ u.in = <<>> /\ u.out = <<>> /\ u.session = "none"
      /\ u.started = FALSE
  BY <1>3 DEF Unborn
<1>5. PICK w : w = [u EXCEPT !.pc = "gone"]
  OBVIOUS
<1>6. /\ w \in EngineState /\ w.pc = "gone" /\ w.in = <<>> /\ w.out = <<>>
      /\ w.session = "none" /\ w.started = FALSE
  BY <1>4, <1>5 DEF EngineState
<1>7. Gone = w
  BY <1>3, <1>5 DEF Gone
<1>8. QED
  BY <1>3, <1>4, <1>6, <1>7

(***************************************************************************)
(* What an engine does.                                                    *)
(***************************************************************************)

\* A line that tells that the session is connected is among them.
Connects(lines) == \E i \in 1..Len(lines) : lines[i].event = "connected"

\* One line more.
LEMMA ConnectsMore ==
  ASSUME NEW s \in Seq(Lines), NEW line \in Lines
  PROVE  /\ Append(s, line) \in Seq(Lines)
         /\ Connects(Append(s, line)) => Connects(s) \/ line.event = "connected"
BY AppendOf DEF Connects

\* Some lines fewer.
LEMMA ConnectsLess ==
  ASSUME NEW s \in Seq(Lines), s # <<>>
  PROVE  /\ Tail(s) \in Seq(Lines) /\ Head(s) \in Lines
         /\ Connects(Tail(s)) => Connects(s)
         /\ Head(s).event = "connected" => Connects(s)
BY TailOf DEF Connects

\* None at all.
LEMMA NoneConnects == ~Connects(<<>>)
BY DEF Connects

Paired == {"connected", "over"}

\* The engine ends, at a command that asks for a session.
Quits(e, f) ==
  /\ e.in # <<>> /\ Head(e.in).op # "send"
  /\ f.pc = "gone" /\ f.in = <<>> /\ f.session = "none" /\ ~f.started
  /\ Connects(f.out) => Connects(e.out)

\* The engine goes on: it starts a session only for a command that asks for one,
\* keeps it once it has paired, and tells of it truly.
GoesOn(e, f) ==
  /\ f.pc = "running"
  /\ f.in = e.in \/ (e.in # <<>> /\ f.in = Tail(e.in))
  /\ e.started => f.started
  /\ f.started => e.started \/ (e.in # <<>> /\ f.in = Tail(e.in) /\ Head(e.in).op # "send")
  /\ f.session # "none" => e.session # "none" \/ f.started
  /\ e.session \in Paired => f.session \in Paired
  /\ Connects(f.out) => Connects(e.out) \/ f.session \in Paired

Works(e, f) == e.pc = "running" /\ f \in EngineState /\ (Quits(e, f) \/ GoesOn(e, f))

\* The first session of a process.
LEMMA StartWorks ==
  ASSUME engine \in [Engines -> EngineState], NEW g \in Engines, StartSession(g),
         engine[g].session # "none" => engine[g].started
  PROVE  \E f : engine' = [engine EXCEPT ![g] = f] /\ Works(engine[g], f)
<1>1. PICK e \in EngineState : e = engine[g]
  OBVIOUS
<1>2. /\ e.in # <<>> /\ e.pc = "running" /\ Head(e.in).op \in {"host", "join"}
      /\ e.session \notin Paired
  BY <1>1 DEF StartSession, Reads, Running, Paired
<1>3. PICK i \in Seq(Commands), c \in Calls : i = Tail(e.in) /\ c = Head(e.in).call
  <2>1. e.in \in Seq(Commands)
    BY EngineFields
  <2>2. Tail(e.in) \in Seq(Commands) /\ Head(e.in) \in Commands
    BY <1>2, <2>1, TailOf
  <2>3. Head(e.in).call \in Calls
    BY <2>2 DEF Commands
  <2>4. QED
    BY <2>2, <2>3
<1>4. PICK o \in Seq(Lines) :
        /\ o = IF Head(e.in).op = "host" THEN Append(e.out, Response(c, TRUE)) ELSE e.out
        /\ Connects(o) => Connects(e.out)
  <2>1. PICK line : line = Response(c, TRUE)
    OBVIOUS
  <2>2. line \in Lines /\ line.event = "response"
    BY <2>1 DEF Response, Lines
  <2>3. e.out \in Seq(Lines)
    BY EngineFields
  <2>4. Append(e.out, line) \in Seq(Lines) /\ (Connects(Append(e.out, line)) => Connects(e.out))
    BY <2>2, <2>3, ConnectsMore
  <2>5. QED
    BY <2>1, <2>3, <2>4
<1>5. PICK j \in Calls \cup {NoCall} : j = IF Head(e.in).op = "host" THEN NoCall ELSE c
  OBVIOUS
<1>6. engine' = [engine EXCEPT ![g] =
        [e EXCEPT !.in = i, !.started = TRUE, !.session = "pairing", !.joining = j, !.out = o]]
  BY <1>1, <1>3, <1>4, <1>5 DEF StartSession, Start
<1>t. PICK t \in Calls \cup {NoCall}, p \in BOOLEAN : t = e.task /\ p = e.permit
  BY EngineFields
<1>7. PICK f : f = [e EXCEPT !.in = i, !.out = o, !.started = TRUE, !.session = "pairing",
                             !.joining = j, !.task = t, !.permit = p]
  OBVIOUS
<1>8. /\ f \in EngineState /\ f.pc = e.pc /\ f.in = i /\ f.out = o /\ f.started
      /\ f.session = "pairing"
  BY <1>7 DEF EngineState
<1>9. [e EXCEPT !.in = i, !.started = TRUE, !.session = "pairing", !.joining = j, !.out = o] = f
  BY <1>t, <1>7 DEF EngineState
<1>10. QED
  BY <1>1, <1>2, <1>3, <1>4, <1>6, <1>8, <1>9 DEF Works, GoesOn

\* A response does not tell of a connection.
LEMMA ResponseIsLine ==
  ASSUME NEW c \in Calls \cup {NoCall}, NEW ok \in BOOLEAN
  PROVE  \E line \in Lines : line = Response(c, ok) /\ line.event # "connected"
<1>1. PICK line : line = Response(c, ok)
  OBVIOUS
<1>2. line \in Lines /\ line.event = "response"
  BY <1>1 DEF Response, Lines
<1>3. QED
  BY <1>1, <1>2

\* Neither does an error.
LEMMA ErrorIsLine == \E line \in Lines : line = Event("error") /\ line.event # "connected"
<1>1. PICK line : line = Event("error")
  OBVIOUS
<1>2. line \in Lines /\ line.event = "error"
  BY <1>1 DEF Event, Lines
<1>3. QED
  BY <1>1, <1>2

\* The engine writes one line and goes on, perhaps with another session.
LEMMA SaysAndWorks ==
  ASSUME NEW e \in EngineState, NEW f \in EngineState, NEW line \in Lines,
         e.pc = "running", f.pc = "running", f.in = e.in, f.started = e.started,
         f.out = Append(e.out, line),
         f.session # "none" => e.session # "none",
         e.session \in Paired => f.session \in Paired,
         line.event = "connected" => f.session \in Paired
  PROVE  Works(e, f)
<1>1. e.out \in Seq(Lines)
  BY EngineFields
<1>2. Connects(f.out) => Connects(e.out) \/ line.event = "connected"
  BY <1>1, ConnectsMore
<1>3. QED
  BY <1>2 DEF Works, GoesOn

\* An engine that writes a line is one still.
LEMMA SaysALine ==
  ASSUME NEW e \in EngineState, NEW line \in Lines
  PROVE  e.out \in Seq(Lines) /\ Append(e.out, line) \in Seq(Lines)
BY EngineFields, AppendOf

\* Pairing, its failure, the end of the session, and the end of a send.
LEMMA SayersWork ==
  ASSUME engine \in [Engines -> EngineState], NEW g \in Engines,
         FailPairing(g) \/ EndSession(g) \/ FinishSend(g)
  PROVE  \E f : engine' = [engine EXCEPT ![g] = f] /\ Works(engine[g], f)
<1>1. PICK e \in EngineState : e = engine[g]
  OBVIOUS
<1>2. NoCall \in Calls \cup {NoCall} /\ e.task \in Calls \cup {NoCall}
  BY EngineFields
<1>3. CASE FailPairing(g)
  <2>1. PICK line \in Lines :
          /\ line = IF e.joining = NoCall THEN Event("error") ELSE Response(e.joining, FALSE)
          /\ line.event # "connected"
    BY EngineFields, ResponseIsLine, ErrorIsLine
  <2>2. PICK f : f = [e EXCEPT !.session = "none", !.out = Append(@, line)]
    OBVIOUS
  <2>3. engine' = [engine EXCEPT ![g] = f]
    BY <1>1, <1>3, <2>1, <2>2 DEF FailPairing
  <2>4. e.pc = "running" /\ e.session \notin Paired
    BY <1>1, <1>3 DEF FailPairing, Running, Paired
  <2>5. /\ f \in EngineState /\ f.pc = e.pc /\ f.in = e.in /\ f.started = e.started
        /\ f.session = "none" /\ f.out = Append(e.out, line)
    BY <2>2, SaysALine DEF EngineState
  <2>6. Works(e, f)
    BY <2>1, <2>4, <2>5, SaysAndWorks
  <2>7. QED
    BY <1>1, <2>3, <2>6
<1>4. CASE EndSession(g)
  <2>1. PICK line \in Lines : line = Event("error") /\ line.event # "connected"
    BY ErrorIsLine
  <2>2. PICK f : f = [e EXCEPT !.session = "over", !.out = Append(@, line)]
    OBVIOUS
  <2>3. engine' = [engine EXCEPT ![g] = f]
    BY <1>1, <1>4, <2>1, <2>2 DEF EndSession
  <2>4. e.pc = "running" /\ e.session # "none" /\ "over" \in Paired
    BY <1>1, <1>4 DEF EndSession, Running, Paired
  <2>5. /\ f \in EngineState /\ f.pc = e.pc /\ f.in = e.in /\ f.started = e.started
        /\ f.session = "over" /\ f.out = Append(e.out, line)
    BY <2>2, SaysALine DEF EngineState
  <2>6. Works(e, f)
    BY <2>1, <2>4, <2>5, SaysAndWorks
  <2>7. QED
    BY <1>1, <2>3, <2>6
<1>5. CASE FinishSend(g)
  <2>1. PICK ok \in {engine[g].session = "connected", FALSE} :
          engine' = [engine EXCEPT ![g].task = NoCall,
                                   ![g].out = Append(@, Response(engine[g].task, ok))]
    BY <1>5 DEF FinishSend
  <2>2. ok \in BOOLEAN
    BY <2>1, Zenon
  <2>3. PICK line \in Lines : line = Response(e.task, ok) /\ line.event # "connected"
    BY <1>2, <2>2, ResponseIsLine
  <2>4. PICK f : f = [e EXCEPT !.task = NoCall, !.out = Append(@, line)]
    OBVIOUS
  <2>5. engine' = [engine EXCEPT ![g] = f]
    BY <1>1, <2>1, <2>3, <2>4
  <2>6. e.pc = "running"
    BY <1>1, <1>5 DEF FinishSend, Running
  <2>7. /\ f \in EngineState /\ f.pc = e.pc /\ f.in = e.in /\ f.started = e.started
        /\ f.session = e.session /\ f.out = Append(e.out, line)
    BY <1>2, <2>4, SaysALine DEF EngineState
  <2>8. Works(e, f)
    BY <2>3, <2>6, <2>7, SaysAndWorks
  <2>9. QED
    BY <1>1, <2>5, <2>8
<1>6. QED
  BY <1>3, <1>4, <1>5

\* The engines have paired: the guest answers, and both tell.
LEMMA PairWorks ==
  ASSUME engine \in [Engines -> EngineState], NEW g \in Engines, Pair(g)
  PROVE  \E f : engine' = [engine EXCEPT ![g] = f] /\ Works(engine[g], f)
<1>1. PICK e \in EngineState : e = engine[g]
  OBVIOUS
<1>2. /\ e.pc = "running" /\ e.session = "pairing" /\ e.out \in Seq(Lines)
      /\ e.joining \in Calls \cup {NoCall}
  BY <1>1, EngineFields DEF Pair, Running
<1>3. PICK o \in Seq(Lines) :
        o = e.out \o (IF e.joining = NoCall THEN <<>> ELSE <<Response(e.joining, TRUE)>>)
                  \o <<Event("connected")>>
  <2>1. PICK connected \in Lines : connected = Event("connected")
    BY DEF Event, Lines
  <2>2. PICK answer : answer = Response(e.joining, TRUE)
    OBVIOUS
  <2>3. answer \in Lines
    BY <1>2, <2>2 DEF Response, Lines
  <2>4. PICK middle : middle = IF e.joining = NoCall THEN <<>> ELSE <<answer>>
    OBVIOUS
  <2>5. middle \in Seq(Lines)
    BY <2>3, <2>4
  <2>6. e.out \o middle \o <<connected>> \in Seq(Lines)
    BY <1>2, <2>1, <2>5
  <2>7. QED
    BY <2>1, <2>2, <2>4, <2>6
<1>4. engine' = [engine EXCEPT ![g] = [e EXCEPT !.session = "connected", !.out = o]]
  BY <1>1, <1>3 DEF Pair
<1>5. PICK f : f = [e EXCEPT !.session = "connected", !.out = o]
  OBVIOUS
<1>6. /\ f \in EngineState /\ f.pc = "running" /\ f.in = e.in
      /\ f.started = e.started /\ f.session = "connected"
  BY <1>2, <1>5 DEF EngineState
<1>7. Works(e, f)
  BY <1>2, <1>6 DEF Works, GoesOn, Paired
<1>8. QED
  BY <1>1, <1>4, <1>5, <1>7

\* The permit is given back.
LEMMA ReleaseWorks ==
  ASSUME engine \in [Engines -> EngineState], NEW g \in Engines, ReleasePermit(g)
  PROVE  \E f : engine' = [engine EXCEPT ![g] = f] /\ Works(engine[g], f)
<1>1. PICK e \in EngineState : e = engine[g]
  OBVIOUS
<1>2. PICK f : f = [e EXCEPT !.permit = TRUE]
  OBVIOUS
<1>3. e.pc = "running" /\ engine' = [engine EXCEPT ![g] = f]
  BY <1>1, <1>2 DEF ReleasePermit, Running
<1>4. /\ f \in EngineState /\ f.pc = e.pc /\ f.in = e.in /\ f.out = e.out
      /\ f.started = e.started /\ f.session = e.session
  BY <1>2 DEF EngineState
<1>5. Works(e, f)
  BY <1>3, <1>4 DEF Works, GoesOn
<1>6. QED
  BY <1>1, <1>3, <1>5

\* run returns at a command that asks for a session.
LEMMA ExitWorks ==
  ASSUME engine \in [Engines -> EngineState], NEW g \in Engines,
         Reads(g, {"host", "join"}), Exit(g)
  PROVE  \E f : engine' = [engine EXCEPT ![g] = f] /\ Works(engine[g], f)
<1>1. PICK e \in EngineState : e = engine[g]
  OBVIOUS
<1>2. e.pc = "running" /\ e.in # <<>> /\ Head(e.in).op # "send"
  BY <1>1 DEF Reads, Running
<1>3. PICK n \in 0..Len(e.out) :
        engine' = [engine EXCEPT ![g] = [Gone EXCEPT !.out = SubSeq(e.out, 1, n)]]
  BY <1>1 DEF Exit
<1>4. e.out \in Seq(Lines) /\ Len(e.out) \in Nat
  BY EngineFields, LenProperties
<1>5. PICK o : o = SubSeq(e.out, 1, n)
  OBVIOUS
<1>6. o \in Seq(Lines) /\ Len(o) = n /\ \A i \in 1..n : o[i] = e.out[i] /\ i \in 1..Len(e.out)
  BY <1>4, <1>5
<1>7. Connects(o) => Connects(e.out)
  BY <1>6 DEF Connects
<1>8. PICK w \in EngineState : w = Gone /\ w.pc = "gone" /\ w.in = <<>>
                               /\ w.session = "none" /\ ~w.started
  BY SilentEngines
<1>9. PICK f : f = [w EXCEPT !.out = o]
  OBVIOUS
<1>10. /\ f \in EngineState /\ f.pc = "gone" /\ f.in = <<>> /\ f.out = o
       /\ f.session = "none" /\ ~f.started
  BY <1>6, <1>8, <1>9 DEF EngineState
<1>11. engine' = [engine EXCEPT ![g] = f]
  BY <1>3, <1>5, <1>8, <1>9
<1>12. Works(e, f)
  BY <1>2, <1>7, <1>10 DEF Works, Quits
<1>13. QED
  BY <1>1, <1>11, <1>12

\* The engine takes a send, or answers that it cannot.
LEMMA SendWorks ==
  ASSUME engine \in [Engines -> EngineState], NEW g \in Engines, BeginSend(g)
  PROVE  \E f : engine' = [engine EXCEPT ![g] = f] /\ Works(engine[g], f)
<1>1. PICK e \in EngineState : e = engine[g]
  OBVIOUS
<1>2. e.pc = "running" /\ e.in # <<>>
  BY <1>1 DEF BeginSend, Reads, Running
<1>3. PICK i \in Seq(Commands), c \in Calls : i = Tail(e.in) /\ c = Head(e.in).call
  <2>1. e.in \in Seq(Commands)
    BY EngineFields
  <2>2. Tail(e.in) \in Seq(Commands) /\ Head(e.in) \in Commands
    BY <1>2, <2>1, TailOf
  <2>3. Head(e.in).call \in Calls
    BY <2>2 DEF Commands
  <2>4. QED
    BY <2>2, <2>3
<1>4. CASE engine' = [engine EXCEPT ![g].in = Tail(@), ![g].task = c, ![g].permit = FALSE]
  <2>1. PICK f : f = [e EXCEPT !.in = i, !.task = c, !.permit = FALSE]
    OBVIOUS
  <2>2. engine' = [engine EXCEPT ![g] = f]
    BY <1>1, <1>3, <1>4, <2>1
  <2>3. /\ f \in EngineState /\ f.pc = e.pc /\ f.in = i /\ f.out = e.out
        /\ f.started = e.started /\ f.session = e.session
    BY <2>1 DEF EngineState
  <2>4. Works(e, f)
    BY <1>2, <1>3, <2>3 DEF Works, GoesOn
  <2>5. QED
    BY <1>1, <2>2, <2>4
<1>5. CASE engine' = [engine EXCEPT ![g].in = Tail(@),
                                    ![g].out = Append(@, Response(c, FALSE))]
  <2>1. PICK line \in Lines : line = Response(c, FALSE) /\ line.event # "connected"
    BY ResponseIsLine
  <2>2. e.out \in Seq(Lines)
    BY EngineFields
  <2>3. PICK o \in Seq(Lines) : o = Append(e.out, line) /\ (Connects(o) => Connects(e.out))
    BY <2>1, <2>2, ConnectsMore
  <2>4. PICK f : f = [e EXCEPT !.in = i, !.out = o]
    OBVIOUS
  <2>5. engine' = [engine EXCEPT ![g] = f]
    BY <1>1, <1>3, <1>5, <2>1, <2>3, <2>4
  <2>6. /\ f \in EngineState /\ f.pc = e.pc /\ f.in = i /\ f.out = o
        /\ f.started = e.started /\ f.session = e.session
    BY <2>4 DEF EngineState
  <2>7. Works(e, f)
    BY <1>2, <1>3, <2>3, <2>6 DEF Works, GoesOn
  <2>8. QED
    BY <1>1, <2>5, <2>7
<1>6. QED
  BY <1>1, <1>3, <1>4, <1>5 DEF BeginSend

(***************************************************************************)
(* What happens to the requests.                                           *)
(***************************************************************************)

\* The request that opens each session.
LEMMA StartCalls ==
  /\ \A g \in Engines : <<g, 0>> \in Calls /\ Of(<<g, 0>>) = g /\ IsStart(<<g, 0>>)
  /\ \A c \in Calls : Of(c) \in Engines /\ (IsStart(c) => c = <<Of(c), 0>>)
BY AndroidAssumption DEF Of, IsStart

Live == {"submitting", "queued", "checked", "waiting"}

\* A request under way asks for what it is: to open a session, or to send.
OpsFit(c) == request[c].op \in IF IsStart(c) THEN {"host", "join"} ELSE {"send"}

RequestsFit == \A c \in Calls : request[c].pc \in Live => OpsFit(c)

\* A session was opened by its request.
StartsAreAsked ==
  /\ \A g \in Engines : request[<<g, 0>>].pc = "unused" <=> ~Opened(g)
  /\ transport # NoSession => Opened(transport)

\* The steps of a request.
Begins(c) ==
  /\ request[c].pc = "unused"
  /\ request'[c].pc \in {"submitting", "queued"} /\ OpsFit(c)'
  /\ request'[c].source = request[c].source
  /\ IsStart(c) => ~Opened(Of(c)) /\ Opened(Of(c))' /\ epoch'[Of(c)] = generation + 1

\* A send gets a source of its own.
Registers(c) ==
  /\ ~IsStart(c) /\ request[c].pc = "queued" /\ HasRoom
  /\ request' = [request EXCEPT ![c].pc = "checked", ![c].source = nextSource]
  /\ sources' = sources \cup {<<nextSource, c>>} /\ nextSource' = nextSource + 1
  /\ engine' = engine

Advances(c) ==
  /\ request'[c].op = request[c].op
  /\ request'[c].source = request[c].source \/ Registers(c)
  /\ \/ request[c].pc = "submitting" /\ request'[c].pc = "queued"
     \/ request[c].pc = "queued" /\ request'[c].pc = "checked"
     \/ request[c].pc = "checked" /\ request'[c].pc = "waiting"

Stays(c) ==
  request'[c].pc = request[c].pc /\ request'[c].op = request[c].op
    /\ request'[c].source = request[c].source

Ceases(c) == request[c].pc \in Live /\ request'[c] = Ended

Moves(c) == Begins(c) \/ Advances(c) \/ Stays(c) \/ Ceases(c)

RequestsMove == RequestsTyped' /\ \A c \in Calls : Moves(c)

\* What a request that has ended leaves.
LEMMA EndedRequest ==
  /\ Ended \in RequestState
  /\ Ended.op = "none" /\ Ended.pc = "ended" /\ Ended.source = 0
<1>1. PICK u : u = Unused
  OBVIOUS
<1>2. u \in RequestState /\ u.op = "none" /\ u.source = 0
  BY <1>1 DEF Unused, RequestState
<1>3. PICK w : w = [u EXCEPT !.pc = "ended"]
  OBVIOUS
<1>4. w \in RequestState /\ w.op = "none" /\ w.pc = "ended" /\ w.source = 0
  BY <1>2, <1>3 DEF RequestState
<1>5. Ended = w
  BY <1>1, <1>3 DEF Ended
<1>6. QED
  BY <1>4, <1>5

\* Nothing happens to them.
LEMMA RequestsStay ==
  ASSUME RequestsTyped, UNCHANGED requestVars
  PROVE  RequestsMove
BY DEF RequestsTyped, RequestsMove, requestVars, Moves, Stays

\* One of them moves.
LEMMA OneRequestMoves ==
  ASSUME RequestsTyped, NEW c \in Calls, NEW r \in RequestState,
         request' = [request EXCEPT ![c] = r],
         pending' \subseteq Calls, interrupted' \subseteq Calls, Moves(c)
  PROVE  RequestsMove
BY DEF RequestsTyped, RequestsMove, Moves, Stays

\* A request ends.
LEMMA EndingMoves ==
  ASSUME RequestsTyped, NEW c \in Calls, request[c].pc \in Live, EndRequest(c)
  PROVE  RequestsMove
<1>1. PICK r \in RequestState : r = Ended
  BY EndedRequest
<1>2. request' = [request EXCEPT ![c] = r]
  BY <1>1 DEF EndRequest
<1>3. pending' \subseteq Calls /\ interrupted' \subseteq Calls
  BY DEF EndRequest, RequestsTyped
<1>4. Moves(c)
  BY <1>1, <1>2 DEF Moves, Ceases, RequestsTyped
<1>5. QED
  BY <1>2, <1>3, <1>4, OneRequestMoves

\* The threads of the requests.
LEMMA RequestThreadMoves ==
  ASSUME RequestsTyped, NEW c \in Calls, RequestThread(c), nextSource \in Nat
  PROVE  RequestsMove
<1>1. request[c] \in RequestState /\ pending \subseteq Calls /\ interrupted \subseteq Calls
  BY DEF RequestsTyped
<1>2. ASSUME EndRequest(c), request[c].pc \in {"queued", "checked", "waiting"}
      PROVE  RequestsMove
  BY <1>2, EndingMoves DEF Live
<1>3. ASSUME NEW pc \in {"queued", "checked", "waiting"}, NEW source \in Nat,
             request' = [request EXCEPT ![c].pc = pc, ![c].source = source],
             pending' \subseteq Calls, interrupted' \subseteq Calls,
             source = request[c].source \/ Registers(c),
             \/ request[c].pc = "submitting" /\ pc = "queued"
             \/ request[c].pc = "queued" /\ pc = "checked"
             \/ request[c].pc = "checked" /\ pc = "waiting"
      PROVE  RequestsMove
  <2>1. PICK r : r = [request[c] EXCEPT !.pc = pc, !.source = source]
    OBVIOUS
  <2>2. r \in RequestState /\ r.pc = pc /\ r.op = request[c].op /\ r.source = source
    BY <1>1, <2>1 DEF RequestState
  <2>3. request' = [request EXCEPT ![c] = r]
    BY <1>3, <2>1
  <2>4. Moves(c)
    BY <1>3, <2>2, <2>3 DEF Moves, Advances, RequestsTyped
  <2>5. QED
    BY <1>3, <2>2, <2>3, <2>4, OneRequestMoves
<1>4. ASSUME NEW pc, request' = [request EXCEPT ![c].pc = pc]
      PROVE  request' = [request EXCEPT ![c].pc = pc, ![c].source = request[c].source]
  BY <1>1, <1>4 DEF RequestState
<1>5. request[c].source \in Nat
  BY <1>1 DEF RequestState
<1>6. CASE Submit(c)
  <2>1. CASE Shut(Of(c))
    BY <1>6, <2>1, RequestsStay DEF Submit, requestVars
  <2>2. CASE ~Shut(Of(c))
    <3>1. /\ request' = [request EXCEPT ![c].pc = "queued"] /\ request[c].pc = "submitting"
          /\ pending' \subseteq Calls /\ interrupted' \subseteq Calls
      BY <1>1, <1>6, <2>2 DEF Submit
    <3>2. QED
      BY <1>3, <1>4, <1>5, <3>1
  <2>3. QED
    BY <2>1, <2>2
<1>7. CASE StartTask(c)
  <2>1. CASE EndRequest(c)
    BY <1>2, <1>7, <2>1 DEF StartTask
  <2>2. CASE ~EndRequest(c)
    <3>1. /\ request' = [request EXCEPT ![c].pc = "checked"] /\ request[c].pc = "queued"
          /\ pending' \subseteq Calls /\ interrupted' \subseteq Calls
      BY <1>1, <1>7, <2>2 DEF StartTask
    <3>2. QED
      BY <1>3, <1>4, <1>5, <3>1
  <2>3. QED
    BY <2>1, <2>2
<1>8. CASE StartSend(c)
  <2>1. CASE EndRequest(c)
    BY <1>2, <1>8, <2>1 DEF StartSend
  <2>2. CASE ~EndRequest(c)
    <3>1. /\ request[c].pc = "queued"
          /\ pending' \subseteq Calls /\ interrupted' \subseteq Calls
      BY <1>1, <1>8, <2>2 DEF StartSend
    <3>2. CASE request' = [request EXCEPT ![c].pc = "checked"]
      BY <1>3, <1>4, <1>5, <3>1, <3>2
    <3>3. CASE Registers(c)
      <4>1. request' = [request EXCEPT ![c].pc = "checked", ![c].source = nextSource]
        BY <3>3 DEF Registers
      <4>2. QED
        BY <1>3, <3>1, <3>3, <4>1
    <3>4. QED
      BY <1>8, <2>2, <3>2, <3>3 DEF StartSend, NextHandle, Registers
  <2>3. QED
    BY <2>1, <2>2
<1>9. CASE Write(c)
  <2>1. CASE Shut(Of(c)) \/ ~Running(Of(c))
    BY <1>2, <1>9, <2>1 DEF Write
  <2>2. CASE ~(Shut(Of(c)) \/ ~Running(Of(c)))
    <3>1. /\ request' = [request EXCEPT ![c].pc = "waiting"] /\ request[c].pc = "checked"
          /\ pending' \subseteq Calls /\ interrupted' \subseteq Calls
      BY <1>1, <1>9, <2>2 DEF Write
    <3>2. QED
      BY <1>3, <1>4, <1>5, <3>1
  <2>3. QED
    BY <2>1, <2>2
<1>10. CASE Await(c) \/ GiveUp(c)
  BY <1>2, <1>10 DEF Await, GiveUp
<1>11. QED
  BY <1>6, <1>7, <1>8, <1>9, <1>10 DEF RequestThread

\* close() completes the futures of a session, and drops the sends that its worker
\* has not begun.
LEMMA CloseThreadMoves ==
  ASSUME RequestsTyped, NEW g \in Engines, CloseThread(g)
  PROVE  RequestsMove
<1>1. request \in [Calls -> RequestState] /\ pending \subseteq Calls /\ interrupted \subseteq Calls
  BY DEF RequestsTyped
<1>2. CASE SettlePending(g)
  <2>1. \A c \in Calls :
          /\ [request[c] EXCEPT !.done = TRUE] \in RequestState
          /\ [request[c] EXCEPT !.done = TRUE].pc = request[c].pc
          /\ [request[c] EXCEPT !.done = TRUE].op = request[c].op
          /\ [request[c] EXCEPT !.done = TRUE].source = request[c].source
    BY <1>1 DEF RequestState
  <2>2. request' = [c \in Calls |->
          IF c \in pending /\ Of(c) = g THEN [request[c] EXCEPT !.done = TRUE] ELSE request[c]]
    BY <1>2 DEF SettlePending
  <2>3. request' \in [Calls -> RequestState]
    BY <1>1, <2>1, <2>2
  <2>4. \A c \in Calls : Stays(c)
    BY <2>1, <2>2 DEF Stays
  <2>5. pending' \subseteq Calls /\ interrupted' \subseteq Calls
    BY <1>1, <1>2 DEF SettlePending
  <2>6. QED
    BY <2>3, <2>4, <2>5 DEF RequestsMove, RequestsTyped, Moves
<1>3. CASE StopWorker(g)
  <2>1. request' = [c \in Calls |->
          IF c \in StoppedSends(g) /\ request[c].pc = "queued" THEN Ended ELSE request[c]]
    BY <1>3 DEF StopWorker
  <2>2. request' \in [Calls -> RequestState]
    BY <1>1, <2>1, EndedRequest
  <2>3. \A c \in Calls : Moves(c)
    BY <2>1 DEF Moves, Stays, Ceases, Live
  <2>4. pending' \subseteq Calls /\ interrupted' \subseteq Calls
    BY <1>1, <1>3 DEF StopWorker, StoppedSends
  <2>5. QED
    BY <2>2, <2>3, <2>4 DEF RequestsMove, RequestsTyped
<1>4. QED
  BY <1>2, <1>3 DEF CloseThread

\* The events of an engine complete a future.
LEMMA EventThreadMoves ==
  ASSUME RequestsTyped, NEW g \in Engines, EventThreads(g)
  PROVE  RequestsMove
<1>1. CASE ReadChunk(g) \/ EngineEnded(g)
  BY <1>1, RequestsStay DEF ReadChunk, EngineEnded, requestVars
<1>2. CASE Dispatch(g)
  <2>1. PICK x : x = Head(reader[g].chunk).call
    OBVIOUS
  <2>2. CASE UNCHANGED <<request, pending>>
    BY <1>2, <2>2, RequestsStay DEF Dispatch, requestVars
  <2>3. CASE /\ request' = [request EXCEPT ![x].done = @ \/ x \in pending]
             /\ pending' = pending \ {x}
    <3>1. pending' \subseteq Calls /\ interrupted' \subseteq Calls
      BY <1>2, <2>3 DEF Dispatch, RequestsTyped
    <3>2. CASE x \in Calls
      <4>1. PICK done \in BOOLEAN : done = (request[x].done \/ x \in pending)
        OBVIOUS
      <4>2. PICK r : r = [request[x] EXCEPT !.done = done]
        OBVIOUS
      <4>3. request[x] \in RequestState
        BY <3>2 DEF RequestsTyped
      <4>4. r \in RequestState /\ r.pc = request[x].pc /\ r.op = request[x].op
            /\ r.source = request[x].source
        BY <4>2, <4>3 DEF RequestState
      <4>5. request' = [request EXCEPT ![x] = r]
        BY <2>3, <4>1, <4>2
      <4>6. Moves(x)
        BY <3>2, <4>4, <4>5 DEF Moves, Stays, RequestsTyped
      <4>7. QED
        BY <3>1, <3>2, <4>4, <4>5, <4>6, OneRequestMoves
    <3>3. CASE x \notin Calls
      <4>1. request' = request
        BY <2>3, <3>3 DEF RequestsTyped
      <4>2. QED
        BY <3>1, <4>1 DEF RequestsTyped, RequestsMove, Moves, Stays
    <3>4. QED
      BY <3>2, <3>3
  <2>4. QED
    BY <1>2, <2>1, <2>2, <2>3 DEF Dispatch
<1>3. QED
  BY <1>1, <1>2 DEF EventThreads

\* The user opens a session, sends a file, or leaves.
LEMMA UserMoves ==
  ASSUME RequestsTyped, EnginesTyped, StartsAreAsked, UiTyped, UserActs
  PROVE  RequestsMove
<1>1. request \in [Calls -> RequestState] /\ pending \subseteq Calls /\ interrupted \subseteq Calls
      /\ engine \in [Engines -> EngineState]
      /\ transport \in Engines \cup {NoSession} /\ epoch \in [Engines -> 0..MaxGenerations]
  BY DEF RequestsTyped, EnginesTyped, UiTyped
<1>2. CASE \E op \in {"host", "join"} : OpenSession(op)
  <2>1. PICK op \in {"host", "join"}, g \in Engines :
          /\ ~Opened(g)
          /\ engine' = [engine EXCEPT ![g].pc = "running"]
          /\ epoch' = [epoch EXCEPT ![g] = generation']
          /\ request' = [request EXCEPT ![<<g, 0>>] = [@ EXCEPT !.op = op, !.pc = "queued"]]
          /\ UNCHANGED <<pending, interrupted>>
    BY <1>2 DEF OpenSession
  <2>e. epoch'[g] = generation + 1
    <3>1. generation' = generation + 1
      BY <1>2 DEF OpenSession, NewGeneration
    <3>2. epoch'[g] = generation'
      BY <1>1, <2>1
    <3>3. QED
      BY <3>1, <3>2
  <2>2. PICK c \in Calls : c = <<g, 0>> /\ IsStart(c) /\ Of(c) = g
    BY StartCalls
  <2>3. PICK r : r = [request[c] EXCEPT !.op = op, !.pc = "queued"]
    OBVIOUS
  <2>4. r \in RequestState /\ r.op = op /\ r.pc = "queued" /\ r.source = request[c].source
    BY <1>1, <2>3 DEF RequestState
  <2>5. request' = [request EXCEPT ![c] = r]
    BY <2>1, <2>2, <2>3
  <2>6. engine'[g].pc = "running"
    BY <1>1, <2>1 DEF EngineState
  <2>7. request[c].pc = "unused"
    BY <2>1, <2>2 DEF StartsAreAsked
  <2>8. request'[c] = r
    BY <1>1, <2>5
  <2>9. Begins(c)
    BY <2>1, <2>2, <2>4, <2>6, <2>7, <2>8, <2>e DEF Begins, OpsFit, Opened
  <2>10. pending' \subseteq Calls /\ interrupted' \subseteq Calls
    BY <1>1, <2>1
  <2>11. QED
    BY <2>4, <2>5, <2>9, <2>10, OneRequestMoves DEF Moves
<1>3. CASE Disconnect
  BY <1>3, RequestsStay DEF Disconnect
<1>4. CASE Destroy
  <2>1. request' = [c \in Calls |->
          IF IsStart(c) /\ request[c].pc = "queued" THEN Ended ELSE request[c]]
    BY <1>4 DEF Destroy
  <2>2. request' \in [Calls -> RequestState]
    BY <1>1, <2>1, EndedRequest
  <2>3. \A c \in Calls : Moves(c)
    BY <2>1 DEF Moves, Stays, Ceases, Live
  <2>4. pending' \subseteq Calls /\ interrupted' \subseteq Calls
    BY <1>1, <1>4 DEF Destroy
  <2>5. QED
    BY <2>2, <2>3, <2>4 DEF RequestsMove, RequestsTyped
<1>5. CASE SendFile
  <2>1. PICK c \in Calls :
          /\ Of(c) = transport /\ request[c].pc = "unused"
          /\ request' = [request EXCEPT ![c].op = "send", ![c].pc = "submitting"]
          /\ UNCHANGED <<pending, interrupted>>
    BY <1>5 DEF SendFile, sessionVars, sourceVars, uiVars
  <2>2. Of(c) \in Engines /\ (IsStart(c) => c = <<Of(c), 0>>)
    BY StartCalls
  <2>3. Opened(Of(c))
    BY <2>1, <2>2, AndroidAssumption DEF StartsAreAsked
  <2>4. ~IsStart(c)
    BY <2>1, <2>2, <2>3 DEF StartsAreAsked
  <2>5. PICK r : r = [request[c] EXCEPT !.op = "send", !.pc = "submitting"]
    OBVIOUS
  <2>6. r \in RequestState /\ r.op = "send" /\ r.pc = "submitting"
        /\ r.source = request[c].source
    BY <1>1, <2>5 DEF RequestState
  <2>7. request' = [request EXCEPT ![c] = r]
    BY <2>1, <2>5
  <2>8. request'[c] = r
    BY <1>1, <2>7
  <2>9. Begins(c)
    BY <2>1, <2>4, <2>6, <2>8 DEF Begins, OpsFit
  <2>10. pending' \subseteq Calls /\ interrupted' \subseteq Calls
    BY <1>1, <2>1
  <2>11. QED
    BY <2>6, <2>7, <2>9, <2>10, OneRequestMoves DEF Moves
<1>6. QED
  BY <1>2, <1>3, <1>4, <1>5 DEF UserActs

\* Every step moves the requests.
LEMMA EveryStepMovesRequests ==
  ASSUME RequestsTyped, EnginesTyped, StartsAreAsked, UiTyped, nextSource \in Nat,
         [Next]_vars
  PROVE  RequestsMove
<1>1. CASE \E g \in Engines : EngineRuns(g) \/ ReadSend(g) \/ Drain(g)
  BY <1>1, RequestsStay DEF EngineRuns, ReadSend, Drain
<1>2. CASE \E c \in Calls : RequestThread(c)
  BY <1>2, RequestThreadMoves
<1>3. CASE \E g \in Engines : CloseThread(g) \/ EventThreads(g)
  BY <1>3, CloseThreadMoves, EventThreadMoves
<1>4. CASE UserActs
  BY <1>4, UserMoves
<1>5. CASE TakePost \/ UNCHANGED vars
  BY <1>5, RequestsStay DEF TakePost, vars
<1>6. QED
  BY <1>1, <1>2, <1>3, <1>4, <1>5 DEF Next

(***************************************************************************)
(* What happens to the engines.                                            *)
(***************************************************************************)

\* A session that was not opened has done nothing.
UnbornAreSilent ==
  \A g \in Engines :
    ~Opened(g) => engine[g].out = <<>> /\ ~Closed(g) /\ reader[g].chunk = <<>>

\* The socket is shut down, or was and a command is read that came before.
HangsUp(g) ==
  /\ Shut(g)' /\ Opened(g)
  /\ \/ engine'[g].in = engine[g].in
     \/ engine[g].in # <<>> /\ engine'[g].in = Tail(engine[g].in)
  /\ engine'[g].out = <<>> /\ engine'[g].pc # "unborn"

\* The process starts, or what it wrote is read.
Listens(g) ==
  /\ engine'[g].in = engine[g].in /\ engine'[g].session = engine[g].session
  /\ engine'[g].started = engine[g].started
  /\ engine'[g].out \in {engine[g].out, <<>>}
  /\ \/ engine'[g].pc = engine[g].pc
     \/ /\ engine[g].pc = "unborn" /\ engine'[g].pc = "running"
        /\ request'[<<g, 0>>].pc = "queued"

\* The command of request c.
CommandOf(c) == [op |-> request[c].op, call |-> c, handle |-> request[c].source]

\* A command is written.
IsTold(g) ==
  \E c \in Calls :
    /\ Of(c) = g /\ ~Shut(g) /\ engine[g].pc = "running"
    /\ request[c].pc = "checked" /\ request'[c].pc = "waiting"
    /\ engine'[g].in = Append(engine[g].in, CommandOf(c))
    /\ engine'[g].session = engine[g].session /\ engine'[g].started = engine[g].started
    /\ engine'[g].out = engine[g].out /\ engine'[g].pc = engine[g].pc

EngineMoves(g) ==
  \/ engine'[g] = engine[g]
  \/ ~Shut(g) /\ Works(engine[g], engine'[g])
  \/ HangsUp(g) \/ Listens(g) \/ IsTold(g)

EnginesMove == EnginesTyped' /\ \A g \in Engines : EngineMoves(g)

\* Nothing happens to them.
LEMMA EnginesStay ==
  ASSUME EnginesTyped, engine' = engine,
         \A g \in Engines : Shut(g)' => Shut(g)
  PROVE  EnginesMove
BY DEF EnginesTyped, EnginesMove, EngineMoves, Running

\* One of them moves.
LEMMA OneEngineMoves ==
  ASSUME EnginesTyped, NEW g \in Engines, NEW f \in EngineState,
         engine' = [engine EXCEPT ![g] = f],
         \A h \in Engines : Shut(h)' => Shut(h) \/ h = g,
         Shut(g)' /\ f.pc = "running" => f.in # <<>>,
         EngineMoves(g)
  PROVE  EnginesMove
BY DEF EnginesTyped, EnginesMove, EngineMoves, Running

\* A step of the engine's own.
LEMMA EngineRunsMoves ==
  ASSUME EnginesTyped, NEW g \in Engines, EngineRuns(g) \/ ReadSend(g),
         engine[g].session # "none" /\ ~Shut(g) => engine[g].started
  PROVE  EnginesMove
<1>1. /\ ~Shut(g) /\ closing' = closing
      /\ \/ StartSession(g) \/ Pair(g) \/ FailPairing(g) \/ EndSession(g)
         \/ FinishSend(g) \/ ReleasePermit(g) \/ BeginSend(g)
         \/ Reads(g, {"host", "join"}) /\ Exit(g)
  BY DEF EngineRuns, ReadSend, sessionVars
<1>2. engine \in [Engines -> EngineState]
  BY DEF EnginesTyped
<1>3. PICK f : engine' = [engine EXCEPT ![g] = f] /\ Works(engine[g], f)
  BY <1>1, <1>2, StartWorks, PairWorks, SayersWork, ReleaseWorks, SendWorks, ExitWorks
<1>4. f \in EngineState /\ engine'[g] = f
  BY <1>2, <1>3 DEF Works
<1>5. EngineMoves(g)
  BY <1>1, <1>3, <1>4 DEF EngineMoves
<1>6. \A h \in Engines : Shut(h)' => Shut(h)
  BY <1>1 DEF Shut
<1>7. QED
  BY <1>1, <1>3, <1>4, <1>5, <1>6, OneEngineMoves

\* What is left of an engine without its socket.
LEMMA HungUpEngine ==
  ASSUME NEW commands \in Seq(Commands)
  PROVE  /\ HungUp(commands) \in EngineState
         /\ HungUp(commands).in = commands /\ HungUp(commands).out = <<>>
         /\ HungUp(commands).pc # "unborn"
         /\ HungUp(commands).pc = "running" => commands # <<>>
<1>1. CASE commands = <<>>
  BY <1>1, SilentEngines DEF HungUp
<1>2. CASE commands # <<>>
  <2>1. PICK u \in EngineState : u = Unborn /\ u.out = <<>>
    BY SilentEngines
  <2>2. PICK f : f = [u EXCEPT !.pc = "running", !.started = TRUE, !.in = commands]
    OBVIOUS
  <2>3. f \in EngineState /\ f.pc = "running" /\ f.in = commands /\ f.out = <<>>
    BY <2>1, <2>2 DEF EngineState
  <2>4. HungUp(commands) = f
    BY <1>2, <2>1, <2>2 DEF HungUp
  <2>5. QED
    BY <1>2, <2>3, <2>4
<1>3. QED
  BY <1>1, <1>2

\* An engine whose socket is shut down reads on, or its socket is shut down.
LEMMA HangingUpMoves ==
  ASSUME EnginesTyped, ThreadsTyped, UnbornAreSilent, NEW g \in Engines,
         Drain(g) \/ StopWorker(g)
  PROVE  EnginesMove
<1>1. /\ engine[g].in \in Seq(Commands) /\ engine \in [Engines -> EngineState]
      /\ closing \in [Engines -> ClosingState]
  BY EngineFields DEF EnginesTyped, ThreadsTyped
<1>2. CASE Drain(g)
  <2>1. engine[g].in # <<>> /\ Shut(g)
    BY <1>2 DEF Drain, EnginesTyped
  <2>2. PICK rest \in Seq(Commands) : rest = Tail(engine[g].in)
    BY <1>1, <2>1, TailOf
  <2>3. PICK f \in EngineState :
          /\ f = HungUp(rest) /\ f.in = rest /\ f.out = <<>> /\ f.pc # "unborn"
          /\ f.pc = "running" => rest # <<>>
    BY HungUpEngine
  <2>4. engine' = [engine EXCEPT ![g] = f] /\ closing' = closing
    BY <1>2, <2>2, <2>3 DEF Drain, sessionVars
  <2>5. \A h \in Engines : Shut(h)' <=> Shut(h)
    BY <2>4 DEF Shut
  <2>6. engine'[g] = f
    BY <1>1, <2>4
  <2>o. Opened(g)
    BY <1>2 DEF Drain, Running, Opened
  <2>7. HangsUp(g)
    BY <2>1, <2>2, <2>3, <2>5, <2>6, <2>o DEF HangsUp
  <2>8. QED
    BY <2>3, <2>4, <2>5, <2>7, OneEngineMoves DEF EngineMoves
<1>3. CASE StopWorker(g)
  <2>1. PICK f \in EngineState :
          /\ f = HungUp(engine[g].in) /\ f.in = engine[g].in /\ f.out = <<>>
          /\ f.pc # "unborn" /\ (f.pc = "running" => f.in # <<>>)
    BY <1>1, HungUpEngine
  <2>2. /\ engine' = [engine EXCEPT ![g] = f]
        /\ closing' = [closing EXCEPT ![g] = [pc |-> "closed", by |-> "none"]]
    BY <1>3, <2>1 DEF StopWorker
  <2>3. Shut(g)' /\ \A h \in Engines : Shut(h)' => Shut(h) \/ h = g
    BY <1>1, <2>2 DEF Shut
  <2>4. engine'[g] = f
    BY <1>1, <2>2
  <2>o. Opened(g)
    BY <1>3 DEF StopWorker, UnbornAreSilent, Closed
  <2>5. HangsUp(g)
    BY <2>1, <2>3, <2>4, <2>o DEF HangsUp
  <2>6. QED
    BY <2>1, <2>2, <2>3, <2>5, OneEngineMoves DEF EngineMoves
<1>4. QED
  BY <1>2, <1>3

\* A command is written, what the engine wrote is read, or it is started.
LEMMA ListeningMoves ==
  ASSUME EnginesTyped, RequestsTyped, RequestsFit, UnbornAreSilent,
         (\E c \in Calls : Write(c)) \/ (\E g \in Engines : ReadChunk(g))
           \/ (\E op \in {"host", "join"} : OpenSession(op))
  PROVE  EnginesMove
<1>1. engine \in [Engines -> EngineState] /\ request \in [Calls -> RequestState]
  BY DEF EnginesTyped, RequestsTyped
<1>2. ASSUME closing' = closing
      PROVE  \A h \in Engines : Shut(h)' <=> Shut(h)
  BY <1>2 DEF Shut
<1>3. CASE \E c \in Calls : Write(c)
  <2>1. PICK c \in Calls : Write(c)
    BY <1>3
  <2>2. PICK g \in Engines : g = Of(c)
    BY StartCalls
  <2>3. CASE Shut(g) \/ ~Running(g)
    <3>1. engine' = engine /\ closing' = closing
      BY <2>1, <2>2, <2>3 DEF Write, EndRequest, sessionVars
    <3>2. QED
      BY <1>2, <3>1, EnginesStay
  <2>4. CASE ~Shut(g) /\ Running(g)
    <3>1. PICK e \in EngineState : e = engine[g] /\ e.pc = "running"
      BY <1>1, <2>4 DEF Running
    <3>2. CommandOf(c) \in Commands
      <4>1. request[c].op \in {"host", "join", "send"} /\ request[c].source \in Nat
        BY <1>1, <2>1 DEF Write, RequestsFit, Live, OpsFit, RequestState
      <4>2. QED
        BY <4>1 DEF CommandOf, Commands
    <3>3. PICK i \in Seq(Commands) : i = Append(e.in, CommandOf(c))
      BY <3>2, EngineFields, AppendOf
    <3>4. PICK f : f = [e EXCEPT !.in = i]
      OBVIOUS
    <3>5. /\ f \in EngineState /\ f.in = i /\ f.session = e.session /\ f.started = e.started
          /\ f.out = e.out /\ f.pc = e.pc
      BY <3>4 DEF EngineState
    <3>6. /\ engine' = [engine EXCEPT ![g].in = Append(@, CommandOf(c))]
          /\ request' = [request EXCEPT ![c].pc = "waiting"] /\ request[c].pc = "checked"
          /\ closing' = closing
      BY <2>1, <2>2, <2>4 DEF Write, CommandOf, sessionVars
    <3>7. engine' = [engine EXCEPT ![g] = f]
      BY <3>1, <3>3, <3>4, <3>6
    <3>8. engine'[g] = f /\ request'[c].pc = "waiting"
      BY <1>1, <3>6, <3>7 DEF RequestState
    <3>9. IsTold(g)
      BY <2>2, <2>4, <3>1, <3>3, <3>5, <3>6, <3>8 DEF IsTold
    <3>10. QED
      BY <1>2, <2>4, <3>5, <3>6, <3>7, <3>9, OneEngineMoves DEF EngineMoves
  <2>5. QED
    BY <2>3, <2>4
<1>4. CASE \E g \in Engines : ReadChunk(g)
  <2>1. PICK g \in Engines : ReadChunk(g)
    BY <1>4
  <2>2. PICK e \in EngineState : e = engine[g]
    BY <1>1
  <2>3. PICK o \in Seq(Lines) : o = <<>>
    BY EmptySeq
  <2>4. PICK f : f = [e EXCEPT !.out = o]
    OBVIOUS
  <2>5. /\ f \in EngineState /\ f.in = e.in /\ f.session = e.session /\ f.started = e.started
        /\ f.out = <<>> /\ f.pc = e.pc
    BY <2>3, <2>4 DEF EngineState
  <2>6. engine' = [engine EXCEPT ![g] = f] /\ closing' = closing /\ ~Shut(g)
    BY <2>1, <2>2, <2>3, <2>4 DEF ReadChunk
  <2>7. engine'[g] = f
    BY <1>1, <2>6
  <2>8. Listens(g)
    BY <2>2, <2>5, <2>7 DEF Listens
  <2>9. QED
    BY <1>2, <2>5, <2>6, <2>8, OneEngineMoves DEF EngineMoves
<1>5. CASE \E op \in {"host", "join"} : OpenSession(op)
  <2>1. PICK op \in {"host", "join"}, g \in Engines :
          /\ ~Opened(g)
          /\ engine' = [engine EXCEPT ![g].pc = "running"]
          /\ request' = [request EXCEPT ![<<g, 0>>] = [@ EXCEPT !.op = op, !.pc = "queued"]]
          /\ closing' = closing
    BY <1>5 DEF OpenSession, sessionVars
  <2>2. PICK e \in EngineState : e = engine[g] /\ e.pc = "unborn"
    BY <1>1, <2>1 DEF Opened
  <2>3. PICK f : f = [e EXCEPT !.pc = "running"]
    OBVIOUS
  <2>4. /\ f \in EngineState /\ f.in = e.in /\ f.session = e.session /\ f.started = e.started
        /\ f.out = e.out /\ f.pc = "running"
    BY <2>3 DEF EngineState
  <2>5. engine' = [engine EXCEPT ![g] = f]
    BY <2>1, <2>2, <2>3
  <2>6. request'[<<g, 0>>].pc = "queued"
    BY <1>1, <2>1, StartCalls DEF RequestState
  <2>7. engine'[g] = f
    BY <1>1, <2>5
  <2>8. Listens(g)
    BY <2>2, <2>4, <2>6, <2>7 DEF Listens
  <2>9. ~Shut(g)
    BY <2>1 DEF UnbornAreSilent, Closed, Shut
  <2>10. QED
    BY <1>2, <2>1, <2>4, <2>5, <2>8, <2>9, OneEngineMoves DEF EngineMoves
<1>6. QED
  BY <1>3, <1>4, <1>5

(***************************************************************************)
(* What happens to the sessions: closing, reading, telling the user.       *)
(***************************************************************************)

\* A block of session g waits for the user interface.
Posted(g) == \E i \in 1..Len(posts) : posts[i] = g

\* A session that closes was open and stays closed, and its reader and what it
\* posted say what the engine has written.
ClosingMoves(g) ==
  /\ Closed(g) => Closed(g)'
  /\ Shut(g) => Shut(g)'
  /\ Closed(g)' => Closed(g) \/ Opened(g)

ReaderMoves(g) ==
  /\ reader'[g].chunk # <<>> => reader[g].chunk # <<>> \/ engine[g].out # <<>>
  /\ Connects(reader'[g].chunk) => Connects(reader[g].chunk) \/ Connects(engine[g].out)
  /\ Posted(g)' => Posted(g) \/ Connects(reader[g].chunk)

ThreadsMove == ThreadsTyped' /\ \A g \in Engines : ClosingMoves(g) /\ ReaderMoves(g)

ClosingMove == closing' \in [Engines -> ClosingState] /\ \A g \in Engines : ClosingMoves(g)

\* Nothing closes.
LEMMA ClosingStays ==
  ASSUME ThreadsTyped, closing' = closing
  PROVE  ClosingMove
BY DEF ThreadsTyped, ClosingMove, ClosingMoves, Closed, Shut

\* Readers and posts stay.
LEMMA ReadersStay ==
  ASSUME ThreadsTyped, ClosingMove, UNCHANGED <<reader, posts>>
  PROVE  ThreadsMove
BY DEF ThreadsTyped, ClosingMove, ThreadsMove, ReaderMoves, Posted

\* A thread begins to close an open session.
LEMMA ClosingBegins ==
  ASSUME ThreadsTyped, NEW g \in Engines, NEW t \in {"ui", "reader", "native"},
         closing' = closing \/ closing' = [closing EXCEPT ![g] = [pc |-> "settling", by |-> t]],
         closing' # closing => ~Closed(g) /\ Opened(g)
  PROVE  ClosingMove /\ \A h \in Engines : Shut(h)' => Shut(h)
<1>1. CASE closing' = closing
  BY <1>1, ClosingStays DEF Shut
<1>2. CASE closing' # closing
  <2>1. [pc |-> "settling", by |-> t] \in ClosingState
    BY DEF ClosingState
  <2>2. QED
    BY <1>2, <2>1 DEF ThreadsTyped, ClosingMove, ClosingMoves, Closed, Shut
<1>3. QED
  BY <1>1, <1>2

\* The steps that close a session, except for the last.
LEMMA ClosersMove ==
  ASSUME ThreadsTyped, UnbornAreSilent, StartsAreAsked, transport \in Engines \cup {NoSession},
         \/ \E g \in Engines : EngineEnded(g) \/ Dispatch(g)
         \/ Disconnect \/ Destroy
  PROVE  ClosingMove /\ \A h \in Engines : Shut(h)' => Shut(h)
<1>1. CASE \E g \in Engines : EngineEnded(g)
  <2>1. PICK g \in Engines : EngineEnded(g)
    BY <1>1
  <2>2. Opened(g) /\ ~Closed(g)
        /\ closing' = [closing EXCEPT ![g] = [pc |-> "settling", by |-> "native"]]
    BY <2>1 DEF EngineEnded, Fail, Opened
  <2>3. QED
    BY <2>2, ClosingBegins, ZenonT(60)
<1>2. CASE \E g \in Engines : Dispatch(g)
  <2>1. PICK g \in Engines : Dispatch(g)
    BY <1>2
  <2>2. Opened(g)
    BY <2>1, ZenonT(60) DEF Dispatch, UnbornAreSilent
  <2>3. \/ closing' = closing
        \/ ~Closed(g) /\ closing' = [closing EXCEPT ![g] = [pc |-> "settling", by |-> "reader"]]
    BY <2>1, ZenonT(60) DEF Dispatch, Fail
  <2>4. QED
    BY <2>2, <2>3, ClosingBegins
<1>3. CASE Disconnect \/ Destroy
  <2>1. CloseTransport
    BY <1>3 DEF Disconnect, Destroy
  <2>2. CASE closing' = closing
    BY <2>2, ClosingStays DEF Shut
  <2>3. CASE closing' # closing
    <3>1. /\ transport # NoSession /\ ~Closed(transport)
          /\ closing' = [closing EXCEPT ![transport] = [pc |-> "settling", by |-> "ui"]]
      BY <2>1, <2>3 DEF CloseTransport
    <3>2. PICK g \in Engines : g = transport
      BY <3>1
    <3>3. Opened(g) /\ ~Closed(g)
          /\ closing' = [closing EXCEPT ![g] = [pc |-> "settling", by |-> "ui"]]
      BY <3>1, <3>2 DEF StartsAreAsked
    <3>4. QED
      BY <3>3, ClosingBegins
  <2>4. QED
    BY <2>2, <2>3
<1>4. QED
  BY <1>1, <1>2, <1>3

\* close() goes on.
LEMMA CloseThreadCloses ==
  ASSUME ThreadsTyped, NEW g \in Engines, CloseThread(g)
  PROVE  /\ ClosingMove
         /\ SettlePending(g) => \A h \in Engines : Shut(h)' => Shut(h)
<1>1. closing \in [Engines -> ClosingState]
  BY DEF ThreadsTyped
<1>2. CASE SettlePending(g)
  <2>1. closing[g].pc = "settling" /\ closing' = [closing EXCEPT ![g].pc = "settled"]
    BY <1>2 DEF SettlePending
  <2>2. QED
    BY <1>1, <2>1 DEF ClosingState, ClosingMove, ClosingMoves, Closed, Shut
<1>3. CASE StopWorker(g)
  <2>1. /\ closing[g].pc = "settled"
        /\ closing' = [closing EXCEPT ![g] = [pc |-> "closed", by |-> "none"]]
    BY <1>3 DEF StopWorker
  <2>2. [pc |-> "closed", by |-> "none"] \in ClosingState
    BY DEF ClosingState
  <2>3. ~SettlePending(g)
    BY <2>1 DEF SettlePending
  <2>4. QED
    BY <1>1, <2>1, <2>2, <2>3 DEF ClosingMove, ClosingMoves, Closed, Shut
<1>4. QED
  BY <1>2, <1>3 DEF CloseThread

\* Every step moves the engines.
LEMMA EveryStepMovesEngines ==
  ASSUME EnginesTyped, RequestsTyped, ThreadsTyped, RequestsFit, UnbornAreSilent,
         StartsAreAsked, transport \in Engines \cup {NoSession},
         \A g \in Engines : engine[g].session # "none" /\ ~Shut(g) => engine[g].started,
         [Next]_vars
  PROVE  EnginesMove
<1>1. CASE \E g \in Engines : EngineRuns(g) \/ ReadSend(g) \/ Drain(g)
  BY <1>1, EngineRunsMoves, HangingUpMoves
<1>2. CASE \E c \in Calls : RequestThread(c)
  <2>1. PICK c \in Calls : RequestThread(c)
    BY <1>2
  <2>2. CASE Write(c)
    BY <2>2, ListeningMoves
  <2>3. CASE ~Write(c)
    <3>1. engine' = engine /\ closing' = closing
      BY <2>1, <2>3
      DEF RequestThread, Submit, StartTask, StartSend, Await, GiveUp, EndRequest, sessionVars
    <3>2. QED
      BY <3>1, EnginesStay DEF Shut
  <2>4. QED
    BY <2>2, <2>3
<1>3. CASE \E g \in Engines : CloseThread(g)
  <2>1. PICK g \in Engines : CloseThread(g)
    BY <1>3
  <2>2. CASE StopWorker(g)
    BY <2>2, HangingUpMoves
  <2>3. CASE SettlePending(g)
    <3>1. engine' = engine /\ \A h \in Engines : Shut(h)' => Shut(h)
      BY <2>1, <2>3, CloseThreadCloses DEF SettlePending
    <3>2. QED
      BY <3>1, EnginesStay
  <2>4. QED
    BY <2>1, <2>2, <2>3 DEF CloseThread
<1>4. CASE \E g \in Engines : ReadChunk(g)
  BY <1>4, ListeningMoves
<1>5. CASE \/ \E g \in Engines : EngineEnded(g) \/ Dispatch(g)
           \/ Disconnect \/ Destroy
  <2>1. engine' = engine
    BY <1>5, ZenonT(60) DEF EngineEnded, Dispatch, Disconnect, Destroy
  <2>2. \A h \in Engines : Shut(h)' => Shut(h)
    BY <1>5, ClosersMove
  <2>3. QED
    BY <2>1, <2>2, EnginesStay
<1>6. CASE \E op \in {"host", "join"} : OpenSession(op)
  BY <1>6, ListeningMoves
<1>7. CASE SendFile \/ TakePost \/ UNCHANGED vars
  <2>1. engine' = engine /\ closing' = closing
    BY <1>7 DEF SendFile, TakePost, vars, sessionVars
  <2>2. QED
    BY <2>1, EnginesStay DEF Shut
<1>8. QED
  BY <1>1, <1>2, <1>3, <1>4, <1>5, <1>6, <1>7 DEF Next, EventThreads, UserActs

\* Every step moves the threads.
LEMMA EveryStepMovesThreads ==
  ASSUME EnginesTyped, ThreadsTyped, UnbornAreSilent, StartsAreAsked,
         transport \in Engines \cup {NoSession}, [Next]_vars
  PROVE  ThreadsMove
<1>1. /\ closing \in [Engines -> ClosingState] /\ reader \in [Engines -> ReaderState]
      /\ posts \in Seq(Engines)
  BY DEF ThreadsTyped
<1>2. CASE \E g \in Engines : EngineRuns(g) \/ ReadSend(g) \/ Drain(g)
  BY <1>2, ClosingStays, ReadersStay DEF EngineRuns, ReadSend, Drain, sessionVars
<1>3. CASE \E c \in Calls : RequestThread(c)
  <2>1. UNCHANGED <<closing, reader, posts>>
    BY <1>3
    DEF RequestThread, Submit, StartTask, StartSend, Write, Await, GiveUp, EndRequest,
        sessionVars
  <2>2. QED
    BY <2>1, ClosingStays, ReadersStay
<1>4. CASE \E g \in Engines : CloseThread(g)
  <2>1. PICK g \in Engines : CloseThread(g)
    BY <1>4
  <2>2. ClosingMove
    BY <2>1, CloseThreadCloses
  <2>3. CASE SettlePending(g)
    BY <2>2, <2>3, ReadersStay DEF SettlePending
  <2>4. CASE StopWorker(g)
    <3>1. reader' = [reader EXCEPT ![g].on = FALSE] /\ posts' = posts
      BY <2>4 DEF StopWorker
    <3>2. reader' \in [Engines -> ReaderState]
          /\ \A h \in Engines : reader'[h].chunk = reader[h].chunk
      BY <1>1, <3>1 DEF ReaderState
    <3>3. QED
      BY <1>1, <2>2, <3>1, <3>2 DEF ThreadsMove, ThreadsTyped, ClosingMove, ReaderMoves, Posted
  <2>5. QED
    BY <2>1, <2>3, <2>4 DEF CloseThread
<1>5. CASE \E g \in Engines : ReadChunk(g)
  <2>1. PICK g \in Engines : ReadChunk(g)
    BY <1>5
  <2>2. ClosingMove
    BY <2>1, ClosingStays DEF ReadChunk
  <2>3. PICK o \in Seq(Lines) : o = engine[g].out
    BY EngineFields DEF EnginesTyped
  <2>4. reader' = [reader EXCEPT ![g].chunk = o] /\ posts' = posts
    BY <2>1, <2>3 DEF ReadChunk
  <2>5. /\ reader' \in [Engines -> ReaderState]
        /\ reader'[g].chunk = o
        /\ \A h \in Engines \ {g} : reader'[h] = reader[h]
    BY <1>1, <2>4 DEF ReaderState
  <2>6. QED
    BY <1>1, <2>2, <2>3, <2>4, <2>5
    DEF ThreadsMove, ThreadsTyped, ClosingMove, ReaderMoves, Posted
<1>6. CASE \E g \in Engines : Dispatch(g)
  <2>1. PICK g \in Engines : Dispatch(g)
    BY <1>6
  <2>2. ClosingMove
    BY <2>1, ClosersMove
  <2>3. PICK s \in Seq(Lines) : s = reader[g].chunk /\ s # <<>>
    BY <1>1, <2>1 DEF Dispatch, ReaderState
  <2>4. PICK rest \in Seq(Lines) : /\ rest = Tail(s) /\ (Connects(rest) => Connects(s))
                                   /\ Head(s).event = "connected" => Connects(s)
    BY <2>3, ConnectsLess
  <2>5. PICK on \in BOOLEAN :
          on = (reader[g].on /\ (Len(reader[g].chunk) > 1 \/ ~Closed(g)))
    OBVIOUS
  <2>6. reader' = [reader EXCEPT ![g].chunk = rest, ![g].on = on]
    BY <2>1, <2>3, <2>4, <2>5 DEF Dispatch
  <2>7. /\ reader' \in [Engines -> ReaderState]
        /\ reader'[g].chunk = rest
        /\ \A h \in Engines \ {g} : reader'[h] = reader[h]
    BY <1>1, <2>6 DEF ReaderState
  <2>8. /\ posts' \in Seq(Engines)
        /\ \A h \in Engines : Posted(h)' => Posted(h) \/ (h = g /\ Connects(s))
    <3>1. CASE posts' = posts
      BY <1>1, <3>1 DEF Posted
    <3>2. CASE posts' # posts
      <4>1. posts' = Append(posts, g) /\ Head(s).event = "connected"
        BY <2>1, <2>3, <3>2 DEF Dispatch
      <4>2. posts' \in Seq(Engines)
        BY <1>1, <4>1
      <4>3. ASSUME NEW h \in Engines, Posted(h)' PROVE Posted(h) \/ h = g
        BY <1>1, <4>1, <4>3, AppendOf DEF Posted
      <4>4. QED
        BY <2>4, <4>1, <4>2, <4>3
    <3>3. QED
      BY <3>1, <3>2
  <2>9. QED
    BY <1>1, <2>2, <2>3, <2>4, <2>7, <2>8
    DEF ThreadsMove, ThreadsTyped, ClosingMove, ReaderMoves
<1>7. CASE \/ \E g \in Engines : EngineEnded(g)
           \/ Disconnect \/ Destroy
  <2>1. UNCHANGED <<reader, posts>>
    BY <1>7 DEF EngineEnded, Disconnect, Destroy
  <2>2. QED
    BY <1>7, <2>1, ClosersMove, ReadersStay
<1>8. CASE TakePost
  <2>1. posts # <<>> /\ posts' = Tail(posts) /\ UNCHANGED <<closing, reader>>
    BY <1>8 DEF TakePost, sessionVars
  <2>2. /\ posts' \in Seq(Engines)
        /\ \A i \in 1..Len(posts') : i + 1 \in 1..Len(posts) /\ posts'[i] = posts[i + 1]
    BY <1>1, <2>1, TailOf
  <2>3. \A g : Posted(g)' => Posted(g)
    BY <2>2 DEF Posted
  <2>4. QED
    BY <1>1, <2>1, <2>2, <2>3, ClosingStays
    DEF ThreadsMove, ThreadsTyped, ClosingMove, ReaderMoves
<1>9. CASE (\E op \in {"host", "join"} : OpenSession(op)) \/ SendFile \/ UNCHANGED vars
  BY <1>9, ClosingStays, ReadersStay DEF OpenSession, SendFile, vars, sessionVars
<1>10. QED
  BY <1>2, <1>3, <1>4, <1>5, <1>6, <1>7, <1>8, <1>9 DEF Next, EventThreads, UserActs

(***************************************************************************)
(* Requests, and the sessions they open.                                   *)
(***************************************************************************)

\* A session that was opened stays so, and only its request opens it.
LEMMA OpenedStays ==
  ASSUME EnginesTyped, NEW g \in Engines, EngineMoves(g)
  PROVE  /\ Opened(g) => Opened(g)'
         /\ Opened(g)' => Opened(g) \/ request'[<<g, 0>>].pc = "queued"
BY DEF EngineMoves, Works, Quits, GoesOn, HangsUp, Listens, IsTold, Opened

\* The moves of the user interface.
UiStays ==
  /\ UNCHANGED <<generation, epoch, transport, destroyed>>
  /\ sendEnabled' => sendEnabled \/ \E g \in Engines : Posted(g) /\ Concerns(g)

UiOpens(g) ==
  /\ generation' = generation + 1 /\ transport = NoSession /\ transport' = g
  /\ epoch' = [epoch EXCEPT ![g] = generation'] /\ ~sendEnabled'
  /\ destroyed' = destroyed /\ ~Opened(g) /\ Opened(g)'

UiLeaves ==
  /\ generation' = generation + 1 /\ epoch' = epoch
  /\ \/ transport' = NoSession /\ ~sendEnabled' /\ destroyed' = destroyed
     \/ transport' = transport /\ sendEnabled' = sendEnabled /\ destroyed'

UiMoves == UiTyped' /\ (UiStays \/ UiLeaves \/ \E g \in Engines : UiOpens(g))

\* Every step is one of them to the user interface.
LEMMA EveryStepMovesUi ==
  ASSUME UiTyped, EnginesTyped, ThreadsTyped, [Next]_vars
  PROVE  UiMoves
<1>1. /\ generation \in 0..MaxGenerations /\ epoch \in [Engines -> 0..MaxGenerations]
      /\ transport \in Engines \cup {NoSession}
      /\ sendEnabled \in BOOLEAN /\ destroyed \in BOOLEAN /\ crashed \in BOOLEAN
  BY DEF UiTyped
<1>2. ASSUME UNCHANGED uiVars PROVE UiMoves
  BY <1>1, <1>2 DEF uiVars, UiMoves, UiStays, UiTyped
<1>3. CASE \E g \in Engines : EngineRuns(g) \/ ReadSend(g) \/ Drain(g)
  BY <1>2, <1>3 DEF EngineRuns, ReadSend, Drain
<1>4. CASE \E c \in Calls : RequestThread(c)
  <2>1. PICK c \in Calls : RequestThread(c)
    BY <1>4
  <2>2. CASE Submit(c)
    <3>1. UNCHANGED <<generation, epoch, transport, sendEnabled, destroyed>>
      BY <2>2 DEF Submit
    <3>2. crashed' \in BOOLEAN
      BY <1>1, <2>2 DEF Submit
    <3>3. QED
      BY <1>1, <3>1, <3>2 DEF UiMoves, UiStays, UiTyped
  <2>3. CASE ~Submit(c)
    <3>1. UNCHANGED uiVars
      BY <2>1, <2>3
      DEF RequestThread, StartTask, StartSend, Write, Await, GiveUp, EndRequest
    <3>2. QED
      BY <1>2, <3>1
  <2>4. QED
    BY <2>2, <2>3
<1>5. CASE \E g \in Engines : CloseThread(g) \/ EventThreads(g)
  BY <1>2, <1>5
  DEF CloseThread, EventThreads, SettlePending, StopWorker, ReadChunk, Dispatch, EngineEnded
<1>6. CASE \E op \in {"host", "join"} : OpenSession(op)
  <2>1. PICK g \in Engines :
          /\ ~Opened(g) /\ transport = NoSession /\ transport' = g
          /\ epoch' = [epoch EXCEPT ![g] = generation'] /\ sendEnabled' = FALSE
          /\ engine' = [engine EXCEPT ![g].pc = "running"]
          /\ UNCHANGED <<destroyed, crashed>>
    BY <1>6 DEF OpenSession
  <2>2. generation < MaxGenerations /\ generation' = generation + 1
    BY <1>6 DEF OpenSession, NewGeneration
  <2>3. generation' \in 0..MaxGenerations
    BY <1>1, <2>2, AndroidAssumption
  <2>4. engine'[g].pc = "running"
    BY <2>1 DEF EnginesTyped, EngineState
  <2>5. UiOpens(g)
    BY <2>1, <2>2, <2>4 DEF UiOpens, Opened
  <2>6. UiTyped'
    BY <1>1, <2>1, <2>3 DEF UiTyped
  <2>7. QED
    BY <2>5, <2>6 DEF UiMoves
<1>7. CASE Disconnect \/ Destroy
  <2>1. generation < MaxGenerations /\ generation' = generation + 1
    BY <1>7 DEF Disconnect, Destroy, NewGeneration
  <2>2. generation' \in 0..MaxGenerations
    BY <1>1, <2>1, AndroidAssumption
  <2>3. UiLeaves /\ crashed' = crashed
    BY <1>7, <2>1 DEF Disconnect, Destroy, UiLeaves
  <2>4. destroyed' \in BOOLEAN /\ sendEnabled' \in BOOLEAN
    BY <1>1, <1>7 DEF Disconnect, Destroy
  <2>5. UiTyped'
    BY <1>1, <2>2, <2>3, <2>4 DEF UiTyped, UiLeaves
  <2>6. QED
    BY <2>3, <2>5 DEF UiMoves
<1>8. CASE SendFile
  BY <1>2, <1>8 DEF SendFile
<1>9. CASE TakePost
  <2>1. /\ posts # <<>> /\ sendEnabled' = (sendEnabled \/ Concerns(Head(posts)))
        /\ UNCHANGED <<generation, epoch, transport, destroyed, crashed>>
    BY <1>9 DEF TakePost
  <2>2. PICK g \in Engines : g = Head(posts) /\ g = posts[1] /\ 1 \in 1..Len(posts)
    BY <2>1, TailOf DEF ThreadsTyped
  <2>3. Posted(g)
    BY <2>2 DEF Posted
  <2>4. sendEnabled' = (sendEnabled \/ Concerns(g))
    BY <2>1, <2>2
  <2>5. sendEnabled' \in BOOLEAN
    BY <2>4, Zenon
  <2>6. sendEnabled' => sendEnabled \/ Concerns(g)
    BY <2>4, Zenon
  <2>7. UiStays
    BY <2>1, <2>3, <2>6 DEF UiStays
  <2>8. QED
    BY <1>1, <2>1, <2>5, <2>7 DEF UiMoves, UiTyped
<1>10. CASE UNCHANGED vars
  BY <1>2, <1>10 DEF vars
<1>11. QED
  BY <1>3, <1>4, <1>5, <1>6, <1>7, <1>8, <1>9, <1>10 DEF Next, UserActs

\* The requests go on asking for what they are, and the sessions go on being
\* opened by them.
LEMMA RequestsStayFit ==
  ASSUME RequestsTyped, EnginesTyped, UiTyped, RequestsFit, StartsAreAsked,
         RequestsMove, EnginesMove, UiMoves
  PROVE  RequestsFit' /\ StartsAreAsked'
<1>1. \A c \in Calls : Moves(c)
  BY DEF RequestsMove
<1>2. \A g \in Engines : /\ Opened(g) => Opened(g)'
                         /\ Opened(g)' => Opened(g) \/ request'[<<g, 0>>].pc = "queued"
  BY OpenedStays DEF EnginesMove
<1>3. Ended.pc = "ended"
  BY EndedRequest
<1>4. RequestsFit'
  <2>1. SUFFICES ASSUME NEW c \in Calls, request'[c].pc \in Live
                 PROVE  OpsFit(c)'
    BY DEF RequestsFit
  <2>2. CASE Begins(c)
    BY <2>2 DEF Begins
  <2>3. CASE Advances(c)
    BY <2>3 DEF Advances, RequestsFit, OpsFit, Live
  <2>4. CASE Stays(c)
    BY <2>1, <2>4 DEF Stays, RequestsFit, OpsFit
  <2>5. CASE Ceases(c)
    BY <1>3, <2>1, <2>5 DEF Ceases, Live
  <2>6. QED
    BY <1>1, <2>2, <2>3, <2>4, <2>5 DEF Moves
<1>5. ASSUME NEW g \in Engines
      PROVE  (request[<<g, 0>>].pc = "unused" <=> ~Opened(g))'
  <2>1. PICK c \in Calls : c = <<g, 0>> /\ Of(c) = g /\ IsStart(c)
    BY StartCalls
  <2>2. request[c].pc = "unused" <=> ~Opened(g)
    BY <2>1 DEF StartsAreAsked
  <2>3. request'[c].pc = "unused" => request[c].pc = "unused"
    BY <1>1, <1>3 DEF Moves, Begins, Advances, Stays, Ceases
  <2>4. request'[c].pc # "unused" => request[c].pc # "unused" \/ Opened(g)'
    BY <1>1, <2>1 DEF Moves, Begins, Advances, Stays, Ceases, Live
  <2>5. Opened(g)' => Opened(g) \/ request'[c].pc = "queued"
    BY <1>2, <2>1
  <2>6. request'[c].pc = "unused" <=> ~Opened(g)'
    BY <1>2, <2>2, <2>3, <2>4, <2>5
  <2>7. QED
    BY <2>1, <2>6
<1>6. transport' # NoSession => Opened(transport)'
  <2>1. CASE transport' = transport
    <3>1. transport # NoSession => transport \in Engines
      BY DEF UiTyped
    <3>2. QED
      BY <1>2, <2>1, <3>1 DEF StartsAreAsked, Opened
  <2>2. CASE transport' = NoSession
    BY <2>2
  <2>3. CASE \E g \in Engines : UiOpens(g)
    BY <2>3 DEF UiOpens, Opened
  <2>4. QED
    BY <2>1, <2>2, <2>3 DEF UiMoves, UiStays, UiLeaves
<1>7. QED
  BY <1>4, <1>5, <1>6 DEF StartsAreAsked

\* What was not opened goes on being silent.
LEMMA UnbornStaySilent ==
  ASSUME EnginesTyped, UnbornAreSilent, EnginesMove, ThreadsMove
  PROVE  UnbornAreSilent'
<1>1. SUFFICES ASSUME NEW g \in Engines, ~Opened(g)'
               PROVE  (engine[g].out = <<>> /\ ~Closed(g) /\ reader[g].chunk = <<>>)'
  BY DEF UnbornAreSilent
<1>2. EngineMoves(g) /\ ClosingMoves(g) /\ ReaderMoves(g)
  BY DEF EnginesMove, ThreadsMove
<1>3. ~Opened(g)
  BY <1>1, <1>2, OpenedStays
<1>4. engine[g].out = <<>> /\ ~Closed(g) /\ reader[g].chunk = <<>>
  BY <1>3 DEF UnbornAreSilent
<1>5. engine[g].pc = "unborn" /\ engine'[g].pc = "unborn"
  BY <1>1, <1>3 DEF Opened
<1>6. engine'[g].out = <<>>
  BY <1>2, <1>4, <1>5 DEF EngineMoves, Works, HangsUp, Listens, IsTold
<1>7. ~Closed(g)' /\ reader'[g].chunk = <<>>
  BY <1>2, <1>3, <1>4 DEF ClosingMoves, ReaderMoves
<1>8. QED
  BY <1>6, <1>7

(***************************************************************************)
(* An engine is asked for one session, and what is said of it is true.     *)
(***************************************************************************)

\* The command that asks for the session of g is written.
Asked(g) == request[<<g, 0>>].pc \in {"waiting", "ended"}

\* A command asks for a session.
Asks(commands) == \E i \in 1..Len(commands) : commands[i].op # "send"

AsksOnce(commands) ==
  \A i, j \in 1..Len(commands) :
    commands[i].op # "send" /\ commands[j].op # "send" => i = j

\* While its socket is not shut down, an engine is asked for a session once, and
\* starts one when it has read that.
OneStart(g) ==
  ~Shut(g) =>
    /\ engine[g].session # "none" => engine[g].started
    /\ engine[g].started => Asked(g)
    /\ engine[g].started \/ ~Asked(g) => ~Asks(engine[g].in)
    /\ AsksOnce(engine[g].in)

OneStartEach == \A g \in Engines : OneStart(g)

\* Commands that are read.
LEMMA AsksLess ==
  ASSUME NEW s \in Seq(Commands), s # <<>>
  PROVE  /\ Asks(Tail(s)) => Asks(s)
         /\ AsksOnce(s) => AsksOnce(Tail(s))
         /\ Head(s).op # "send" => Asks(s)
         /\ AsksOnce(s) /\ Head(s).op # "send" => ~Asks(Tail(s))
<1>1. /\ Head(s) = s[1] /\ 1 \in 1..Len(s) /\ Len(Tail(s)) = Len(s) - 1 /\ Len(s) \in Nat
      /\ \A i \in 1..Len(Tail(s)) : i + 1 \in 1..Len(s) /\ Tail(s)[i] = s[i + 1]
  BY TailOf
<1>2. (Asks(Tail(s)) => Asks(s)) /\ (Head(s).op # "send" => Asks(s))
  BY <1>1 DEF Asks
<1>3. AsksOnce(s) => AsksOnce(Tail(s))
  <2>1. SUFFICES ASSUME AsksOnce(s), NEW i \in 1..Len(Tail(s)), NEW j \in 1..Len(Tail(s)),
                        Tail(s)[i].op # "send", Tail(s)[j].op # "send"
                 PROVE  i = j
    BY DEF AsksOnce
  <2>2. i + 1 = j + 1
    BY <1>1, <2>1 DEF AsksOnce
  <2>3. QED
    BY <1>1, <2>2
<1>4. AsksOnce(s) /\ Head(s).op # "send" => ~Asks(Tail(s))
  <2>1. SUFFICES ASSUME AsksOnce(s), s[1].op # "send", NEW i \in 1..Len(Tail(s)),
                        Tail(s)[i].op # "send"
                 PROVE  FALSE
    BY <1>1 DEF Asks
  <2>2. i + 1 = 1
    BY <1>1, <2>1 DEF AsksOnce
  <2>3. QED
    BY <1>1, <2>2
<1>5. QED
  BY <1>2, <1>3, <1>4

\* A command that is written.
LEMMA AsksMore ==
  ASSUME NEW s \in Seq(Commands), NEW command \in Commands
  PROVE  /\ command.op = "send" /\ ~Asks(s) => ~Asks(Append(s, command))
         /\ command.op = "send" /\ AsksOnce(s) => AsksOnce(Append(s, command))
         /\ ~Asks(s) => AsksOnce(Append(s, command))
<1>1. /\ Len(Append(s, command)) = Len(s) + 1 /\ Len(s) \in Nat
      /\ Append(s, command)[Len(s) + 1] = command
      /\ \A i \in 1..Len(s) : Append(s, command)[i] = s[i]
      /\ \A i \in 1..Len(Append(s, command)) : i \in 1..Len(s) \/ i = Len(s) + 1
  BY AppendOf
<1>2. command.op = "send" /\ ~Asks(s) => ~Asks(Append(s, command))
  BY <1>1 DEF Asks
<1>3. command.op = "send" /\ AsksOnce(s) => AsksOnce(Append(s, command))
  BY <1>1 DEF AsksOnce
<1>4. ~Asks(s) => AsksOnce(Append(s, command))
  BY <1>1 DEF Asks, AsksOnce
<1>5. QED
  BY <1>2, <1>3, <1>4

\* Every step keeps it.
LEMMA OneStartKept ==
  ASSUME RequestsTyped, EnginesTyped, RequestsFit, OneStartEach, RequestsMove, EnginesMove,
         ThreadsMove
  PROVE  OneStartEach'
<1>1. SUFFICES ASSUME NEW g \in Engines, ~Shut(g)' PROVE OneStart(g)'
  BY DEF OneStartEach, OneStart
<1>2. EngineMoves(g) /\ ~Shut(g)
  BY <1>1 DEF EnginesMove, ThreadsMove, ClosingMoves
<1>3. PICK start \in Calls : start = <<g, 0>> /\ IsStart(start) /\ Of(start) = g
  BY StartCalls
<1>4. Asked(g) => Asked(g)'
  BY <1>3, EndedRequest DEF RequestsMove, Moves, Begins, Advances, Stays, Ceases, Asked
<1>5. PICK e \in EngineState : e = engine[g]
  BY DEF EnginesTyped
<1>6. /\ e.session # "none" => e.started
      /\ e.started => Asked(g)
      /\ e.started \/ ~Asked(g) => ~Asks(e.in)
      /\ AsksOnce(e.in)
  BY <1>2, <1>5 DEF OneStartEach, OneStart
<1>7. PICK f : f = engine'[g]
  OBVIOUS
<1>8. e.in \in Seq(Commands)
  BY EngineFields
<1>9. SUFFICES /\ f.session # "none" => f.started
               /\ f.started => Asked(g)'
               /\ f.started \/ ~Asked(g)' => ~Asks(f.in)
               /\ AsksOnce(f.in)
  BY <1>7 DEF OneStart
<1>10. CASE f = e
  BY <1>4, <1>6, <1>10
<1>11. CASE Works(e, f) /\ Quits(e, f)
  BY <1>11 DEF Quits, Asks, AsksOnce
<1>12. CASE Works(e, f) /\ GoesOn(e, f)
  <2>1. CASE f.in = e.in
    <3>1. f.started => e.started \/ (e.in # <<>> /\ e.in = Tail(e.in))
      BY <1>12, <2>1 DEF GoesOn
    <3>2. ~(e.in # <<>> /\ e.in = Tail(e.in))
      <4>1. e.in # <<>> => Len(Tail(e.in)) = Len(e.in) - 1 /\ Len(e.in) \in Nat
        BY <1>8, TailOf
      <4>2. Len(e.in) \in Nat => Len(e.in) # Len(e.in) - 1
        OBVIOUS
      <4>3. QED
        BY <4>1, <4>2
    <3>3. f.started => e.started
      BY <3>1, <3>2
    <3>4. f.session # "none" => f.started
      BY <1>6, <1>12 DEF GoesOn
    <3>5. QED
      BY <1>4, <1>6, <2>1, <3>3, <3>4
  <2>2. CASE e.in # <<>> /\ f.in = Tail(e.in)
    <3>1. /\ Asks(f.in) => Asks(e.in)
          /\ AsksOnce(f.in)
          /\ Head(e.in).op # "send" => Asks(e.in) /\ ~Asks(f.in)
      BY <1>6, <1>8, <2>2, AsksLess
    <3>2. f.started => e.started \/ Head(e.in).op # "send"
      BY <1>12 DEF GoesOn
    <3>3. f.session # "none" => f.started
      BY <1>6, <1>12 DEF GoesOn
    <3>4. QED
      BY <1>4, <1>6, <3>1, <3>2, <3>3
  <2>3. QED
    BY <1>12, <2>1, <2>2 DEF GoesOn
<1>13. CASE Listens(g)
  BY <1>4, <1>5, <1>6, <1>7, <1>13 DEF Listens
<1>14. CASE IsTold(g)
  <2>1. PICK c \in Calls :
          /\ Of(c) = g /\ request[c].pc = "checked" /\ request'[c].pc = "waiting"
          /\ f.in = Append(e.in, CommandOf(c))
          /\ f.session = e.session /\ f.started = e.started
    BY <1>5, <1>7, <1>14 DEF IsTold
  <2>2. request[c] \in RequestState /\ OpsFit(c)
    BY <2>1 DEF RequestsTyped, RequestsFit, Live
  <2>3. PICK command : command = CommandOf(c)
    OBVIOUS
  <2>4. command \in Commands /\ command.op = request[c].op
    BY <2>2, <2>3 DEF CommandOf, Commands, OpsFit, RequestState
  <2>5. CASE IsStart(c)
    <3>1. c = <<g, 0>>
      BY <2>1, <2>5, StartCalls
    <3>2. ~Asked(g) /\ Asked(g)'
      BY <2>1, <3>1 DEF Asked
    <3>3. ~e.started /\ ~Asks(e.in)
      BY <1>6, <3>2
    <3>4. AsksOnce(f.in)
      BY <1>8, <2>1, <2>3, <2>4, <3>3, AsksMore
    <3>5. QED
      BY <1>6, <2>1, <3>2, <3>3, <3>4
  <2>6. CASE ~IsStart(c)
    <3>1. command.op = "send"
      BY <2>2, <2>4, <2>6 DEF OpsFit
    <3>2. (~Asks(e.in) => ~Asks(f.in)) /\ AsksOnce(f.in)
      BY <1>6, <1>8, <2>1, <2>3, <2>4, <3>1, AsksMore
    <3>3. QED
      BY <1>4, <1>6, <2>1, <3>2
  <2>7. QED
    BY <2>5, <2>6
<1>15. CASE HangsUp(g)
  BY <1>1, <1>15 DEF HangsUp
<1>16. QED
  BY <1>2, <1>5, <1>7, <1>10, <1>11, <1>12, <1>13, <1>14, <1>15 DEF EngineMoves, Works

(***************************************************************************)
(* What is told of a session is true, and the button belongs to it.        *)
(***************************************************************************)

\* Session g has paired, as far as it is still open.
IsPaired(g) == ~Closed(g) => engine[g].session \in Paired

\* Whoever says that a session is connected says it of one that has paired.
NewsIsTrue ==
  \A g \in Engines :
    Connects(engine[g].out) \/ Connects(reader[g].chunk) \/ Posted(g) =>
      Opened(g) /\ IsPaired(g)

\* A session that has paired stays so.
LEMMA PairedStays ==
  ASSUME EnginesTyped, OneStartEach, NEW g \in Engines, EngineMoves(g), ClosingMoves(g),
         IsPaired(g)
  PROVE  IsPaired(g)'
<1>1. SUFFICES ASSUME ~Closed(g)' PROVE engine'[g].session \in Paired
  BY DEF IsPaired
<1>2. ~Closed(g) /\ ~Shut(g) /\ ~Shut(g)' /\ engine[g].session \in Paired
  BY <1>1 DEF ClosingMoves, IsPaired, Closed, Shut
<1>3. engine[g].session # "none"
  BY <1>2 DEF Paired
<1>4. ~Asks(engine[g].in) /\ engine[g].in \in Seq(Commands)
  BY <1>2, <1>3, EngineFields DEF OneStartEach, OneStart, EnginesTyped
<1>5. ~Quits(engine[g], engine'[g])
  BY <1>4, AsksLess DEF Quits
<1>6. QED
  BY <1>2, <1>5 DEF EngineMoves, Works, GoesOn, HangsUp, Listens, IsTold

\* Every step keeps the news true.
LEMMA NewsKept ==
  ASSUME EnginesTyped, OneStartEach, NewsIsTrue, EnginesMove, ThreadsMove
  PROVE  NewsIsTrue'
<1>1. SUFFICES ASSUME NEW g \in Engines,
                      Connects(engine'[g].out) \/ Connects(reader'[g].chunk) \/ Posted(g)'
               PROVE  Opened(g)' /\ IsPaired(g)'
  BY DEF NewsIsTrue
<1>2. EngineMoves(g) /\ ClosingMoves(g) /\ ReaderMoves(g)
  BY DEF EnginesMove, ThreadsMove
<1>3. CASE Connects(engine[g].out) \/ Connects(reader[g].chunk) \/ Posted(g)
  BY <1>2, <1>3, OpenedStays, PairedStays DEF NewsIsTrue
<1>4. CASE ~(Connects(engine[g].out) \/ Connects(reader[g].chunk) \/ Posted(g))
  <2>1. Connects(engine'[g].out)
    BY <1>1, <1>2, <1>4 DEF ReaderMoves
  <2>2. Works(engine[g], engine'[g])
    BY <1>2, <1>4, <2>1, NoneConnects DEF EngineMoves, HangsUp, Listens, IsTold
  <2>3. engine'[g].pc = "running" /\ engine'[g].session \in Paired
    BY <1>4, <2>1, <2>2 DEF Works, Quits, GoesOn
  <2>4. QED
    BY <2>3 DEF Opened, IsPaired
<1>5. QED
  BY <1>3, <1>4

\* The activity counts its sessions up, and shows the one of its latest count.
EpochsFit ==
  /\ \A g \in Engines : epoch[g] <= generation /\ (Opened(g) => epoch[g] >= 1)
  /\ \A g \in Engines :
       epoch[g] = generation /\ epoch[g] >= 1 /\ ~destroyed => transport = g

\* Every step keeps the count.
LEMMA EpochsKept ==
  ASSUME UiTyped, EnginesTyped, RequestsTyped, StartsAreAsked, EpochsFit,
         UiMoves, EnginesMove, RequestsMove
  PROVE  EpochsFit'
<1>1. generation \in Nat /\ \A g \in Engines : epoch[g] \in Nat
  BY DEF UiTyped
<1>2. epoch \in [Engines -> 0..MaxGenerations]
  BY DEF UiTyped
<1>3. \A g \in Engines : Opened(g)' => epoch'[g] >= 1
  <2>1. SUFFICES ASSUME NEW g \in Engines, Opened(g)' PROVE epoch'[g] >= 1
    OBVIOUS
  <2>2. PICK c \in Calls : c = <<g, 0>> /\ IsStart(c) /\ Of(c) = g
    BY StartCalls
  <2>3. CASE Opened(g)
    <3>1. epoch[g] >= 1 /\ epoch[g] <= generation
      BY <2>3 DEF EpochsFit
    <3>2. epoch'[g] = epoch[g] \/ epoch'[g] = generation + 1
      BY <1>2 DEF UiMoves, UiStays, UiLeaves, UiOpens
    <3>3. QED
      BY <1>1, <3>1, <3>2
  <2>4. CASE ~Opened(g)
    <3>1. EngineMoves(g)
      BY DEF EnginesMove
    <3>2. request[c].pc = "unused" /\ request'[c].pc = "queued"
      BY <2>1, <2>2, <2>4, <3>1, OpenedStays DEF StartsAreAsked
    <3>3. Begins(c)
      BY <3>2 DEF RequestsMove, Moves, Advances, Stays, Ceases, Live
    <3>4. epoch'[g] = generation + 1
      BY <2>2, <3>3 DEF Begins
    <3>5. QED
      BY <1>1, <3>4
  <2>5. QED
    BY <2>3, <2>4
<1>4. CASE UiStays
  BY <1>3, <1>4 DEF UiStays, EpochsFit
<1>5. CASE UiLeaves
  <2>1. \A g \in Engines : epoch'[g] <= generation' /\ epoch'[g] # generation'
    BY <1>1, <1>5 DEF UiLeaves, EpochsFit
  <2>2. QED
    BY <1>3, <2>1 DEF EpochsFit
<1>6. CASE \E g \in Engines : UiOpens(g)
  <2>1. PICK g \in Engines : UiOpens(g)
    BY <1>6
  <2>2. /\ generation' = generation + 1 /\ epoch'[g] = generation' /\ transport' = g
        /\ \A h \in Engines \ {g} : epoch'[h] = epoch[h]
    BY <1>2, <2>1 DEF UiOpens
  <2>3. \A h \in Engines \ {g} : epoch'[h] <= generation' /\ epoch'[h] # generation'
    BY <1>1, <2>2 DEF EpochsFit
  <2>4. epoch'[g] <= generation'
    BY <1>1, <2>2
  <2>5. QED
    BY <1>3, <2>2, <2>3, <2>4 DEF EpochsFit
<1>7. QED
  BY <1>4, <1>5, <1>6 DEF UiMoves

\* Every step keeps the button true.
LEMMA ButtonKept ==
  ASSUME UiTyped, EnginesTyped, OneStartEach, NewsIsTrue, EpochsFit, SendButtonIsCurrent,
         UiMoves, EnginesMove, ThreadsMove
  PROVE  SendButtonIsCurrent'
<1>1. SUFFICES ASSUME sendEnabled', ~destroyed'
               PROVE  \E g \in Engines : transport' = g /\ IsPaired(g)'
  <2>1. ASSUME NEW g \in Engines, transport' = g, IsPaired(g)'
        PROVE  /\ transport' # NoSession
               /\ ~Closed(transport)' => engine'[transport'].session \in {"connected", "over"}
    BY <2>1, AndroidAssumption DEF IsPaired, Paired, Closed
  <2>2. QED
    BY <2>1 DEF SendButtonIsCurrent
<1>2. /\ transport' = transport /\ ~destroyed
      /\ sendEnabled \/ \E g \in Engines : Posted(g) /\ Concerns(g)
  <2>1. CASE UiStays
    BY <1>1, <2>1 DEF UiStays
  <2>2. CASE UiLeaves
    BY <1>1, <2>2 DEF UiLeaves
  <2>3. CASE \E g \in Engines : UiOpens(g)
    BY <1>1, <2>3 DEF UiOpens
  <2>4. QED
    BY <2>1, <2>2, <2>3 DEF UiMoves
<1>3. PICK g \in Engines : transport = g /\ IsPaired(g)
  <2>1. CASE sendEnabled
    <3>1. /\ transport # NoSession
          /\ ~Closed(transport) => engine[transport].session \in {"connected", "over"}
      BY <1>2, <2>1 DEF SendButtonIsCurrent
    <3>2. QED
      BY <3>1 DEF IsPaired, Paired, UiTyped
  <2>2. CASE \E g \in Engines : Posted(g) /\ Concerns(g)
    <3>1. PICK g \in Engines : Posted(g) /\ Concerns(g)
      BY <2>2
    <3>2. Opened(g) /\ IsPaired(g)
      BY <3>1 DEF NewsIsTrue
    <3>3. transport = g
      BY <1>2, <3>1, <3>2 DEF EpochsFit, Concerns
    <3>4. QED
      BY <3>2, <3>3
  <2>3. QED
    BY <1>2, <2>1, <2>2
<1>4. EngineMoves(g) /\ ClosingMoves(g)
  BY DEF EnginesMove, ThreadsMove
<1>5. IsPaired(g)'
  BY <1>3, <1>4, PairedStays
<1>6. QED
  BY <1>2, <1>3, <1>5

(***************************************************************************)
(* A source belongs to the request that registered it.                     *)
(***************************************************************************)

SourcesTyped ==
  /\ sources \subseteq Nat \X Calls /\ nextSource \in Nat /\ nextSource >= 1
  /\ IsFiniteSet(sources) /\ Cardinality(sources) <= MaxSources

\* Sources are only taken out of the registry.
SourcesLeave == nextSource' = nextSource /\ sources' \subseteq sources

\* Every step takes some out, or registers one.
LEMMA EveryStepMovesSources ==
  ASSUME [Next]_vars
  PROVE  SourcesLeave \/ \E c \in Calls : Registers(c)
<1>1. CASE \E g \in Engines : EngineRuns(g) \/ ReadSend(g) \/ Drain(g)
  BY <1>1 DEF EngineRuns, ReadSend, Drain, SourcesLeave, sourceVars, Without
<1>2. CASE \E c \in Calls : RequestThread(c)
  <2>1. PICK c \in Calls : RequestThread(c)
    BY <1>2
  <2>2. CASE EndRequest(c)
    BY <2>2 DEF EndRequest, SourcesLeave, Without
  <2>3. CASE ~EndRequest(c) /\ ~StartSend(c)
    BY <2>1, <2>3
    DEF RequestThread, Submit, StartTask, Write, Await, GiveUp, SourcesLeave, sourceVars
  <2>4. CASE ~EndRequest(c) /\ StartSend(c)
    BY <2>4 DEF StartSend, Registers, NextHandle, SourcesLeave
  <2>5. QED
    BY <2>2, <2>3, <2>4
<1>3. CASE \E g \in Engines : CloseThread(g) \/ EventThreads(g)
  BY <1>3
  DEF CloseThread, EventThreads, SettlePending, StopWorker, ReadChunk, Dispatch, EngineEnded,
      SourcesLeave, sourceVars
<1>4. CASE UserActs \/ TakePost \/ UNCHANGED vars
  BY <1>4
  DEF UserActs, OpenSession, Disconnect, Destroy, SendFile, TakePost, vars, SourcesLeave,
      sourceVars
<1>5. QED
  BY <1>1, <1>2, <1>3, <1>4 DEF Next

SourcesMove == SourcesLeave \/ \E c \in Calls : Registers(c)

\* The registry grows only while it has room.
LEMMA SourcesStayTyped ==
  ASSUME SourcesTyped, SourcesMove
  PROVE  SourcesTyped'
<1>1. CASE SourcesLeave
  <2>1. IsFiniteSet(sources') /\ Cardinality(sources') <= Cardinality(sources)
    BY <1>1, FS_Subset DEF SourcesTyped, SourcesLeave
  <2>2. Cardinality(sources) \in Nat /\ Cardinality(sources') \in Nat
    BY <2>1, FS_CardinalityType DEF SourcesTyped
  <2>3. QED
    BY <1>1, <2>1, <2>2, AndroidAssumption DEF SourcesTyped, SourcesLeave
<1>2. CASE \E c \in Calls : Registers(c)
  <2>1. PICK c \in Calls : Registers(c)
    BY <1>2
  <2>2. /\ sources' = sources \cup {<<nextSource, c>>} /\ nextSource' = nextSource + 1
        /\ Cardinality(sources) < MaxSources
    BY <2>1 DEF Registers, HasRoom
  <2>3. IsFiniteSet(sources') /\ Cardinality(sources') <= Cardinality(sources) + 1
    <3>1. /\ IsFiniteSet(sources \cup {<<nextSource, c>>})
          /\ \/ Cardinality(sources \cup {<<nextSource, c>>}) = Cardinality(sources)
             \/ Cardinality(sources \cup {<<nextSource, c>>}) = Cardinality(sources) + 1
      BY FS_AddElement DEF SourcesTyped
    <3>2. Cardinality(sources) \in Nat
      BY FS_CardinalityType DEF SourcesTyped
    <3>3. QED
      BY <2>2, <3>1, <3>2
  <2>4. Cardinality(sources) \in Nat /\ Cardinality(sources') \in Nat
    BY <2>3, FS_CardinalityType DEF SourcesTyped
  <2>5. sources' \subseteq Nat \X Calls /\ nextSource' \in Nat /\ nextSource' >= 1
    BY <2>2 DEF SourcesTyped
  <2>6. Cardinality(sources') <= MaxSources
    BY <2>2, <2>3, <2>4, AndroidAssumption
  <2>7. QED
    BY <2>3, <2>5, <2>6 DEF SourcesTyped
<1>3. QED
  BY <1>1, <1>2 DEF SourcesMove

\* Handle h was given out, to no request but c as far as the registry holds it.
Own(h, c) == h < nextSource /\ \A s \in sources : h = s[1] => s[2] = c

WillOwn(h, c) == h < nextSource' /\ \A s \in sources' : h = s[1] => s[2] = c

\* A request, and a command that waits in an engine's input, name no handle but
\* their own.
SourcesAreTheirs ==
  /\ \A s \in sources : 1 <= s[1] /\ s[1] < nextSource
  /\ \A c \in Calls : Own(request[c].source, c)
  /\ \A g \in Engines : \A i \in 1..Len(engine[g].in) :
       Own(engine[g].in[i].handle, engine[g].in[i].call)

\* What was one's own stays so: a new handle was never given out before.
LEMMA OwnStays ==
  ASSUME SourcesTyped, SourcesMove, NEW h \in Nat, NEW c, Own(h, c)
  PROVE  WillOwn(h, c)
<1>1. nextSource \in Nat /\ h < nextSource /\ \A s \in sources : h = s[1] => s[2] = c
  BY DEF SourcesTyped, Own
<1>2. CASE SourcesLeave
  BY <1>1, <1>2 DEF SourcesLeave, WillOwn
<1>3. CASE \E d \in Calls : Registers(d)
  <2>1. PICK d \in Calls : /\ sources' = sources \cup {<<nextSource, d>>}
                           /\ nextSource' = nextSource + 1
    BY <1>3 DEF Registers
  <2>2. h < nextSource' /\ h # nextSource
    BY <1>1, <2>1
  <2>3. \A s \in sources' : s \in sources \/ s[1] = nextSource
    BY <2>1
  <2>4. QED
    BY <1>1, <2>2, <2>3 DEF WillOwn
<1>4. QED
  BY <1>2, <1>3 DEF SourcesMove

\* A command in an engine's input was there before, or a request writes it.
LEMMA InputsMove ==
  ASSUME EnginesTyped, NEW g \in Engines, EngineMoves(g), NEW i \in 1..Len(engine'[g].in)
  PROVE  \/ \E j \in 1..Len(engine[g].in) : engine'[g].in[i] = engine[g].in[j]
         \/ \E c \in Calls : engine'[g].in[i] = CommandOf(c)
<1>1. PICK s \in Seq(Commands) : s = engine[g].in
  BY EngineFields DEF EnginesTyped
<1>2. CASE engine'[g].in = s
  BY <1>1, <1>2
<1>3. CASE s # <<>> /\ engine'[g].in = Tail(s)
  BY <1>1, <1>3, TailOf
<1>4. CASE engine'[g].in = <<>>
  BY <1>4
<1>5. CASE IsTold(g)
  <2>1. PICK c \in Calls : engine'[g].in = Append(s, CommandOf(c))
    BY <1>1, <1>5 DEF IsTold
  <2>2. PICK command : command = CommandOf(c)
    OBVIOUS
  <2>3. /\ Len(Append(s, command)) = Len(s) + 1 /\ Len(s) \in Nat
        /\ Append(s, command)[Len(s) + 1] = command
        /\ \A j \in 1..Len(s) : Append(s, command)[j] = s[j]
    OBVIOUS
  <2>4. QED
    BY <1>1, <2>1, <2>2, <2>3
<1>6. QED
  BY <1>1, <1>2, <1>3, <1>4, <1>5
  DEF EngineMoves, Works, Quits, GoesOn, HangsUp, Listens

\* Every step keeps it.
LEMMA OwnersKept ==
  ASSUME SourcesTyped, RequestsTyped, EnginesTyped, SourcesAreTheirs, SourcesMove,
         RequestsMove, EnginesMove
  PROVE  SourcesAreTheirs'
<1>1. \A s \in sources' : 1 <= s[1] /\ s[1] < nextSource'
  <2>1. CASE SourcesLeave
    BY <2>1 DEF SourcesAreTheirs, SourcesLeave
  <2>2. CASE \E c \in Calls : Registers(c)
    BY <2>2 DEF SourcesAreTheirs, SourcesTyped, Registers
  <2>3. QED
    BY <2>1, <2>2 DEF SourcesMove
<1>2. \A c \in Calls : WillOwn(request[c].source, c)
  <2>1. SUFFICES ASSUME NEW c \in Calls PROVE WillOwn(request[c].source, c)
    OBVIOUS
  <2>2. PICK h \in Nat : h = request[c].source
    BY DEF RequestsTyped, RequestState
  <2>3. Own(h, c)
    BY <2>2 DEF SourcesAreTheirs
  <2>4. WillOwn(h, c)
    BY <2>3, OwnStays
  <2>5. QED
    BY <2>2, <2>4
<1>3. \A c \in Calls : WillOwn(request'[c].source, c)
  <2>1. SUFFICES ASSUME NEW c \in Calls PROVE WillOwn(request'[c].source, c)
    OBVIOUS
  <2>2. CASE request'[c].source = request[c].source
    BY <1>2, <2>2
  <2>3. CASE request'[c] = Ended
    <3>1. request'[c].source = 0
      BY <2>3, EndedRequest
    <3>2. SourcesTyped'
      BY SourcesStayTyped
    <3>3. \A s \in sources' : s[1] # 0
      BY <1>1
    <3>4. QED
      BY <3>1, <3>2, <3>3 DEF WillOwn, SourcesTyped
  <2>4. CASE Registers(c)
    <3>1. /\ request'[c].source = nextSource /\ nextSource' = nextSource + 1
          /\ sources' = sources \cup {<<nextSource, c>>}
      BY <2>4 DEF Registers, RequestsTyped, RequestState
    <3>2. \A s \in sources : s[1] # nextSource
      BY DEF SourcesAreTheirs, SourcesTyped
    <3>3. QED
      BY <3>1, <3>2 DEF WillOwn, SourcesTyped
  <2>5. Moves(c)
    BY DEF RequestsMove
  <2>6. QED
    BY <2>2, <2>3, <2>4, <2>5 DEF Moves, Begins, Advances, Stays, Ceases
<1>4. ASSUME NEW g \in Engines, NEW i \in 1..Len(engine'[g].in)
      PROVE  WillOwn(engine'[g].in[i].handle, engine'[g].in[i].call)
  <2>1. EngineMoves(g)
    BY DEF EnginesMove
  <2>2. CASE \E j \in 1..Len(engine[g].in) : engine'[g].in[i] = engine[g].in[j]
    <3>1. PICK j \in 1..Len(engine[g].in) : engine'[g].in[i] = engine[g].in[j]
      BY <2>2
    <3>2. engine[g].in \in Seq(Commands)
      BY EngineFields DEF EnginesTyped
    <3>3. PICK command \in Commands : command = engine[g].in[j]
      BY <3>1, <3>2
    <3>4. PICK h \in Nat : h = command.handle
      BY DEF Commands
    <3>5. Own(h, command.call)
      BY <3>1, <3>3, <3>4 DEF SourcesAreTheirs
    <3>6. WillOwn(h, command.call)
      BY <3>5, OwnStays
    <3>7. QED
      BY <3>1, <3>3, <3>4, <3>6
  <2>3. CASE \E c \in Calls : engine'[g].in[i] = CommandOf(c)
    <3>1. PICK c \in Calls : engine'[g].in[i] = CommandOf(c)
      BY <2>3
    <3>2. engine'[g].in[i].handle = request[c].source /\ engine'[g].in[i].call = c
      BY <3>1 DEF CommandOf
    <3>3. QED
      BY <1>2, <3>2
  <2>4. QED
    BY <2>1, <2>2, <2>3, InputsMove
<1>5. QED
  BY <1>1, <1>3, <1>4 DEF SourcesAreTheirs, Own, WillOwn

\* The sends that have passed the registry.
Registered == {c \in Calls : ~IsStart(c) /\ request[c].pc \in {"checked", "waiting", "ended"}}

\* No more handles were given out than sends have asked for one.
Counted == nextSource <= Cardinality(Registered) + 1

\* There are finitely many requests.
LEMMA CallsAreFinite ==
  /\ IsFiniteSet(Calls) /\ Cardinality(Calls) \in Nat
  /\ IsFiniteSet(Registered) /\ Cardinality(Registered) \in Nat
  /\ Cardinality(Registered) <= Cardinality(Calls)
<1>1. IsFiniteSet(0..MaxSends)
  BY FS_Interval, AndroidAssumption
<1>2. IsFiniteSet(Calls)
  BY <1>1, FS_Product, AndroidAssumption
<1>3. Registered \subseteq Calls
  BY DEF Registered
<1>4. QED
  BY <1>2, <1>3, FS_Subset, FS_CardinalityType

\* Every step keeps the count.
LEMMA CountKept ==
  ASSUME SourcesTyped, RequestsTyped, Counted, SourcesMove, RequestsMove
  PROVE  Counted'
<1>1. Registered \subseteq Registered'
  BY EndedRequest DEF Registered, RequestsMove, Moves, Begins, Advances, Stays, Ceases, Live
<1>2. IsFiniteSet(Registered') /\ Cardinality(Registered') \in Nat
  <2>1. Registered' \subseteq Calls
    BY DEF Registered
  <2>2. QED
    BY <2>1, CallsAreFinite, FS_Subset, FS_CardinalityType
<1>3. Cardinality(Registered) <= Cardinality(Registered')
  BY <1>1, <1>2, FS_Subset
<1>4. CASE SourcesLeave
  BY <1>2, <1>3, <1>4, CallsAreFinite DEF Counted, SourcesTyped, SourcesLeave
<1>5. CASE \E c \in Calls : Registers(c)
  <2>1. PICK c \in Calls : Registers(c)
    BY <1>5
  <2>2. c \notin Registered /\ c \in Registered' /\ nextSource' = nextSource + 1
    BY <2>1 DEF Registers, Registered, RequestsTyped, RequestState
  <2>3. Registered # Registered'
    BY <2>2
  <2>4. Cardinality(Registered) # Cardinality(Registered')
    BY <1>1, <1>2, <2>3, FS_Subset
  <2>5. QED
    BY <1>2, <1>3, <2>2, <2>4, CallsAreFinite DEF Counted, SourcesTyped
<1>6. QED
  BY <1>4, <1>5 DEF SourcesMove

(***************************************************************************)
(* The theorems.                                                           *)
(***************************************************************************)

AndroidInvariant ==
  /\ EnginesTyped /\ RequestsTyped /\ ThreadsTyped /\ UiTyped /\ SourcesTyped
  /\ RequestsFit /\ StartsAreAsked /\ UnbornAreSilent
  /\ OneStartEach /\ NewsIsTrue /\ EpochsFit /\ SendButtonIsCurrent
  /\ SourcesAreTheirs /\ Counted

\* It holds when the application starts.
LEMMA AndroidStarts == Init => AndroidInvariant
<1>1. SUFFICES ASSUME Init PROVE AndroidInvariant
  OBVIOUS
<1>2. \A g \in Engines :
        /\ engine[g] \in EngineState /\ engine[g].pc = "unborn" /\ ~Opened(g)
        /\ engine[g].in = <<>> /\ engine[g].out = <<>>
        /\ engine[g].session = "none" /\ engine[g].started = FALSE
        /\ ~Closed(g) /\ ~Shut(g) /\ reader[g].chunk = <<>> /\ epoch[g] = 0
  BY <1>1, SilentEngines DEF Init, EngineInit, Opened, Closed, Shut
<1>3. PICK u : u = Unused
  OBVIOUS
<1>4. u \in RequestState /\ u.pc = "unused" /\ u.source = 0
  BY <1>3 DEF Unused, RequestState
<1>5. \A c \in Calls : request[c] = u
  BY <1>1, <1>3 DEF Init
<1>6. EnginesTyped
  BY <1>1, <1>2 DEF Init, EngineInit, EnginesTyped
<1>7. RequestsTyped
  BY <1>1, <1>3, <1>4 DEF Init, RequestsTyped
<1>8. ThreadsTyped
  <2>1. <<>> \in Seq(Lines) /\ <<>> \in Seq(Engines)
    BY EmptySeq
  <2>2. [on |-> TRUE, chunk |-> <<>>] \in ReaderState
        /\ [pc |-> "open", by |-> "none"] \in ClosingState
    BY <2>1 DEF ReaderState, ClosingState
  <2>3. QED
    BY <1>1, <2>1, <2>2 DEF Init, ThreadsTyped
<1>9. UiTyped
  <2>1. /\ generation = 0 /\ epoch = [g \in Engines |-> 0] /\ transport = NoSession
        /\ sendEnabled = FALSE /\ destroyed = FALSE /\ crashed = FALSE
    BY <1>1 DEF Init
  <2>2. 0 \in 0..MaxGenerations
    BY AndroidAssumption
  <2>3. QED
    BY <2>1, <2>2 DEF UiTyped
<1>10. SourcesTyped
  <2>1. sources = {} /\ nextSource = 1
    BY <1>1 DEF Init
  <2>2. IsFiniteSet(sources) /\ Cardinality(sources) = 0
    BY <2>1, FS_EmptySet
  <2>3. QED
    BY <2>1, <2>2, AndroidAssumption DEF SourcesTyped
<1>11. RequestsFit
  BY <1>4, <1>5 DEF RequestsFit, Live
<1>12. StartsAreAsked
  BY <1>1, <1>2, <1>4, <1>5, StartCalls DEF Init, StartsAreAsked
<1>13. UnbornAreSilent
  BY <1>2 DEF UnbornAreSilent
<1>14. OneStartEach
  BY <1>2 DEF OneStartEach, OneStart, Asks, AsksOnce
<1>15. NewsIsTrue
  BY <1>1, <1>2, NoneConnects DEF Init, NewsIsTrue, Posted
<1>16. EpochsFit /\ SendButtonIsCurrent
  BY <1>1, <1>2 DEF Init, EpochsFit, SendButtonIsCurrent
<1>17. SourcesAreTheirs
  <2>1. \A c \in Calls : Own(request[c].source, c)
    BY <1>1, <1>4, <1>5 DEF Init, Own
  <2>2. sources = {}
    BY <1>1 DEF Init
  <2>3. QED
    BY <1>2, <2>1, <2>2 DEF SourcesAreTheirs
<1>18. Counted
  BY <1>1, CallsAreFinite DEF Init, Counted
<1>19. QED
  BY <1>6, <1>7, <1>8, <1>9, <1>10, <1>11, <1>12, <1>13, <1>14, <1>15, <1>16, <1>17, <1>18
  DEF AndroidInvariant

\* The application keeps its invariant: an engine is asked for one session, what
\* is said of a session is true, each count belongs to one session and each
\* handle to one send (MainActivity.kt, QuicTransport.kt, android.rs).
THEOREM AndroidInvariantHolds == Spec => []AndroidInvariant
<1>1. Init => AndroidInvariant
  BY AndroidStarts
<1>2. AndroidInvariant /\ [Next]_vars => AndroidInvariant'
  <2>1. SUFFICES ASSUME AndroidInvariant, [Next]_vars PROVE AndroidInvariant'
    OBVIOUS
  <2>2. /\ EnginesTyped /\ RequestsTyped /\ ThreadsTyped /\ UiTyped /\ SourcesTyped
        /\ RequestsFit /\ StartsAreAsked /\ UnbornAreSilent
        /\ OneStartEach /\ NewsIsTrue /\ EpochsFit /\ SendButtonIsCurrent
        /\ SourcesAreTheirs /\ Counted
    BY <2>1 DEF AndroidInvariant
  <2>3. transport \in Engines \cup {NoSession} /\ nextSource \in Nat
    BY <2>2 DEF UiTyped, SourcesTyped
  <2>4. \A g \in Engines : engine[g].session # "none" /\ ~Shut(g) => engine[g].started
    BY <2>2 DEF OneStartEach, OneStart
  <2>5. RequestsMove
    BY <2>1, <2>2, <2>3, EveryStepMovesRequests
  <2>6. EnginesMove
    BY <2>1, <2>2, <2>3, <2>4, EveryStepMovesEngines
  <2>7. ThreadsMove
    BY <2>1, <2>2, <2>3, EveryStepMovesThreads
  <2>8. UiMoves
    BY <2>1, <2>2, EveryStepMovesUi
  <2>9. SourcesMove
    BY <2>1, EveryStepMovesSources DEF SourcesMove
  <2>10. /\ EnginesTyped' /\ RequestsTyped' /\ ThreadsTyped' /\ UiTyped'
    BY <2>5, <2>6, <2>7, <2>8 DEF RequestsMove, EnginesMove, ThreadsMove, UiMoves
  <2>11. SourcesTyped'
    BY <2>2, <2>9, SourcesStayTyped
  <2>12. RequestsFit' /\ StartsAreAsked'
    BY <2>2, <2>5, <2>6, <2>8, RequestsStayFit
  <2>13. UnbornAreSilent'
    BY <2>2, <2>6, <2>7, UnbornStaySilent
  <2>14. OneStartEach'
    BY <2>2, <2>5, <2>6, <2>7, OneStartKept
  <2>15. NewsIsTrue'
    BY <2>2, <2>6, <2>7, NewsKept
  <2>16. EpochsFit'
    BY <2>2, <2>5, <2>6, <2>8, EpochsKept
  <2>17. SendButtonIsCurrent'
    BY <2>2, <2>6, <2>7, <2>8, ButtonKept
  <2>18. SourcesAreTheirs'
    BY <2>2, <2>5, <2>6, <2>9, OwnersKept
  <2>19. Counted'
    BY <2>2, <2>5, <2>9, CountKept
  <2>20. QED
    BY <2>10, <2>11, <2>12, <2>13, <2>14, <2>15, <2>16, <2>17, <2>18, <2>19
    DEF AndroidInvariant
<1>3. QED
  BY <1>1, <1>2, PTL DEF Spec

\* The variables of the application keep their types, and the registry, which
\* sessions share, never holds more sources than it may (android.rs:20).
THEOREM AndroidTypes == Spec => []TypeOK
<1>1. AndroidInvariant => TypeOK
  <2>1. SUFFICES ASSUME AndroidInvariant PROVE TypeOK
    OBVIOUS
  <2>2. /\ EnginesTyped /\ RequestsTyped /\ ThreadsTyped /\ UiTyped /\ SourcesTyped
        /\ SourcesAreTheirs /\ Counted
    BY <2>1 DEF AndroidInvariant
  <2>3. nextSource <= Cardinality(Calls) + 1 /\ nextSource \in Nat
    BY <2>2, CallsAreFinite DEF Counted, SourcesTyped
  <2>4. \A c \in Calls : request[c].source \in 0..Cardinality(Calls)
    <3>1. SUFFICES ASSUME NEW c \in Calls PROVE request[c].source \in 0..Cardinality(Calls)
      OBVIOUS
    <3>2. request[c].source \in Nat
      BY <2>2 DEF RequestsTyped, RequestState
    <3>3. request[c].source < nextSource
      BY <2>2 DEF SourcesAreTheirs, Own
    <3>4. QED
      BY <2>3, <3>2, <3>3, CallsAreFinite
  <2>5. request \in [Calls -> [op: {"none", "host", "join", "send"},
                               pc: {"unused", "submitting", "queued", "checked",
                                    "waiting", "ended"},
                               done: BOOLEAN, source: 0..Cardinality(Calls)]]
    BY <2>2, <2>4 DEF RequestsTyped, RequestState
  <2>6. \A s \in sources : s[1] \in 1..Cardinality(Calls) /\ s[2] \in Calls
    <3>1. SUFFICES ASSUME NEW s \in sources
                   PROVE  s[1] \in 1..Cardinality(Calls) /\ s[2] \in Calls
      OBVIOUS
    <3>2. s[1] \in Nat /\ s[2] \in Calls
      BY <2>2 DEF SourcesTyped
    <3>3. 1 <= s[1] /\ s[1] < nextSource
      BY <2>2 DEF SourcesAreTheirs
    <3>4. QED
      BY <2>3, <3>2, <3>3, CallsAreFinite
  <2>7. closing \in [Engines -> [pc: {"open", "settling", "settled", "closed"},
                                 by: {"none", "ui", "reader", "native"}]]
        /\ \A g \in Engines : reader[g].on \in BOOLEAN
    BY <2>2 DEF ThreadsTyped, ClosingState, ReaderState
  <2>8. QED
    BY <2>2, <2>5, <2>6, <2>7 DEF TypeOK, RequestsTyped, UiTyped, SourcesTyped
<1>2. QED
  BY <1>1, AndroidInvariantHolds, PTL

\* For any number of sessions and sends, what the registry holds under the handle
\* of a command is the source of that very send: handles are never used twice
\* (android.rs: nativeRegister, take_source).
THEOREM EnginesTakeTheirSource == Spec => []CommandTakesItsSource
<1>1. AndroidInvariant => CommandTakesItsSource
  BY DEF AndroidInvariant, SourcesAreTheirs, Own, CommandTakesItsSource
<1>2. QED
  BY <1>1, AndroidInvariantHolds, PTL

\* The button that sends is enabled only for a session that is shown and whose
\* engine has paired, whatever earlier sessions still post (MainActivity.kt:
\* deliver).
THEOREM ButtonBelongsToItsSession == Spec => []SendButtonIsCurrent
<1>1. AndroidInvariant => SendButtonIsCurrent
  BY DEF AndroidInvariant
<1>2. QED
  BY <1>1, AndroidInvariantHolds, PTL
=============================================================================
