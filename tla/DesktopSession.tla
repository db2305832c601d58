--------------------------- MODULE DesktopSession ---------------------------
(***************************************************************************)
(* The desktop application around the engine: the controller of the main   *)
(* process (electron/QuicBridge.cjs), which starts, drives and kills       *)
(* engines, and the store of the renderer (src/store/useP2PStore.ts),      *)
(* which shows a state and calls the controller over IPC.                  *)
(*                                                                         *)
(* Main process and renderer each run one callback at a time.  A promise   *)
(* that was settled continues (Reply) before the next callback of its      *)
(* process, except that one chunk of an engine's stdout may hold several   *)
(* lines, which are handled in one go.  IPC is in order.                   *)
(***************************************************************************)
EXTENDS Engine, FiniteSets

CONSTANTS
  NoEngine,
  MaxPending,    \* pending requests (8)
  MaxDisconnects \* bound on the user's disconnects; Calls bounds the rest

ASSUME SessionAssumption ==
  /\ NoEngine \notin Engines
  /\ MaxPending \in Nat
  /\ MaxDisconnects \in Nat

VARIABLES
  child,     \* the engine the controller talks to
  call,      \* each request: what it asks, of which engine, and how far it is
  outbound,  \* a sendFilePath is running
  closing,   \* engines that some disconnect() still waits for
  received,  \* digests that can be saved
  toStore,   \* events and replies on their way to the renderer
  ui,        \* the state that the renderer shows
  shown,     \* digests the renderer shows as received, with a SAVE button
  disconnects

storeVars == <<ui, shown, disconnects>>
vars == <<engine, child, call, outbound, closing, received, toStore, storeVars>>

Init ==
  /\ EngineInit
  /\ child = NoEngine
  /\ call = [c \in Calls |-> [op |-> "none", to |-> NoEngine, pc |-> "unused"]]
  /\ outbound = FALSE
  /\ closing = {}
  /\ received = {}
  /\ toStore = <<>>
  /\ ui = "idle"
  /\ shown = {}
  /\ disconnects = 0

State(s) == [kind |-> "state", state |-> s]
Transfer(d) == [kind |-> "transfer", digest |-> d]
Answer(c, ok) == [kind |-> "answer", call |-> c, ok |-> ok]

Pending == {c \in Calls : call[c].pc = "pending"}
Settled == {c \in Calls : call[c].pc \in {"resolved", "rejected"}}
MicrotasksDone == Settled = {}

-----------------------------------------------------------------------------
(***************************************************************************)
(* The controller.                                                         *)
(***************************************************************************)

Unstarted == {g \in Engines : engine[g].pc = "unborn"}
First(S) == CHOOSE g \in S : \A h \in S : g <= h

\* Mutant of Target: start() does not look for a running engine.
FreshTarget == First(Unstarted)

\* start(): the engine a request goes to, spawned if there is none.
Target == IF child = NoEngine THEN First(Unstarted) ELSE child

\* The engines, with the command of c written to g.  What is written to one that
\* has exited is lost.
Written(g, c, op) ==
  [engine EXCEPT
     ![g].pc = IF @ = "unborn" THEN "running" ELSE @,
     ![g].in = IF engine[g].pc = "gone" THEN @ ELSE Append(@, [op |-> op, call |-> c])]

\* Mutant of Request: no bound on what is pending.
RequestUnbounded(c, op) ==
  LET g == Target IN
  /\ child = NoEngine => Unstarted # {}
  /\ child' = g
  /\ call' = [call EXCEPT ![c] = [op |-> op, to |-> g, pc |-> "pending"]]
  /\ engine' = Written(g, c, op)

\* request: write the command and remember it, unless too much is pending.
Request(c, op) ==
  LET g == Target IN
  /\ child = NoEngine => Unstarted # {}
  /\ child' = g
  /\ IF Cardinality(Pending) >= MaxPending
     THEN /\ call' = [call EXCEPT ![c] = [op |-> op, to |-> g, pc |-> "rejected"]]
          /\ engine' = [engine EXCEPT ![g].pc = IF @ = "unborn" THEN "running" ELSE @]
     ELSE /\ call' = [call EXCEPT ![c] = [op |-> op, to |-> g, pc |-> "pending"]]
          /\ engine' = Written(g, c, op)

\* Mutant of FailPending: the promises are dropped from the map and never settled.
ForgetPending == [c \in Calls |-> IF c \in Pending THEN [call[c] EXCEPT !.pc = "forgotten"]
                                                    ELSE call[c]]

\* failPending
FailPending == [c \in Calls |-> IF c \in Pending THEN [call[c] EXCEPT !.pc = "rejected"]
                                                  ELSE call[c]]

\* disconnect(), up to its await: forget the engine, fail what is pending, and
\* kill.  known are the engines as the caller left them.
Disconnect(known) ==
  /\ child' = NoEngine
  /\ received' = {}
  /\ call' = FailPending
  /\ IF child = NoEngine
     THEN /\ toStore' = Append(toStore, State("idle"))
          /\ engine' = known
          /\ UNCHANGED closing
     ELSE /\ engine' = [known EXCEPT ![child] = Gone]
          /\ closing' = closing \cup {child}
          /\ UNCHANGED toStore

\* ... and after it, when the engine has closed or two seconds have passed.
DisconnectReturns(g) ==
  /\ MicrotasksDone
  /\ g \in closing
  /\ closing' = closing \ {g}
  /\ toStore' = Append(toStore, State("idle"))
  /\ UNCHANGED <<engine, child, call, outbound, received, storeVars>>

\* handle: one line of the engine's stdout.  Lines of an engine that is no longer
\* the child are dropped.
HandleLine ==
  LET line == Head(engine[child].out)
      rest == [engine EXCEPT ![child].out = Tail(@)] IN
  /\ child # NoEngine
  /\ engine[child].out # <<>>
  /\ \/ /\ line.event = "response"
        /\ call' = [call EXCEPT ![line.call].pc =
                      IF @ # "pending" THEN @
                      ELSE IF line.ok THEN "resolved" ELSE "rejected"]
        /\ engine' = rest
        /\ UNCHANGED <<child, closing, received, toStore>>
     \/ /\ line.event = "connected"
        /\ toStore' = Append(toStore, State("connected"))
        /\ engine' = rest
        /\ UNCHANGED <<child, closing, received, call>>
     \/ /\ line.event = "received"
        /\ received' = received \cup {line.digest}
        /\ toStore' = Append(toStore, Transfer(line.digest))
        /\ engine' = rest
        /\ UNCHANGED <<child, closing, call>>
     \/ /\ line.event = "error"
        /\ Disconnect(rest)
  /\ UNCHANGED <<outbound, storeVars>>

\* closed: the engine's exit, a spawn error, or an error of its stdin.
EngineGone ==
  /\ MicrotasksDone
  /\ child # NoEngine
  /\ engine[child].pc = "gone"
  /\ child' = NoEngine
  /\ call' = FailPending
  /\ engine' = [engine EXCEPT ![child] = Gone]
  /\ toStore' = Append(toStore, State("idle"))
  /\ UNCHANGED <<outbound, closing, received, storeVars>>

\* Mutant of RequestTimesOut: only the request is given up.
TimeOutOnly(c) ==
  /\ MicrotasksDone
  /\ c \in Pending
  /\ call' = [call EXCEPT ![c].pc = "rejected"]
  /\ UNCHANGED <<engine, child, closing, received, toStore, outbound, storeVars>>

RequestTimesOut(c) ==
  /\ MicrotasksDone
  /\ c \in Pending
  /\ Disconnect(engine)
  /\ UNCHANGED <<outbound, storeVars>>

\* The async function that made the request goes on and returns to the renderer.
Reply(c) ==
  /\ c \in Settled
  /\ toStore' = Append(toStore, Answer(c, call[c].pc = "resolved"))
  /\ call' = [call EXCEPT ![c].pc = "answered"]
  /\ outbound' = (outbound /\ call[c].op # "send")
  /\ UNCHANGED <<engine, child, closing, received, storeVars>>

\* sendFilePath: one at a time; stat is awaited before the request.
SendFilePath(c) ==
  /\ IF outbound
     THEN call' = [call EXCEPT ![c] = [op |-> "refused", to |-> NoEngine, pc |-> "rejected"]]
     ELSE call' = [call EXCEPT ![c] = [op |-> "send", to |-> NoEngine, pc |-> "stat"]]
  /\ outbound' = TRUE
  /\ UNCHANGED <<engine, child, closing, received, toStore>>

\* stat has answered: the source is no regular file, or the request is made, of
\* whatever engine there is by now.
Stated(c) ==
  /\ MicrotasksDone
  /\ call[c].pc = "stat"
  /\ \/ /\ call' = [call EXCEPT ![c].pc = "rejected"]
        /\ UNCHANGED <<engine, child>>
     \/ Request(c, "send")
  /\ UNCHANGED <<outbound, closing, received, toStore, storeVars>>

-----------------------------------------------------------------------------
(***************************************************************************)
(* The user and the store.  Each click is one step with the callback of    *)
(* the main process it leads to: what the main process sent in between is  *)
(* in toStore either way.                                                  *)
(***************************************************************************)

\* createSession and joinSession: a request, or the rejection of what is no v3
\* ticket.  The machine has a LAN address.
AskForSession(c, op) ==
  /\ MicrotasksDone
  /\ ui = "idle"
  /\ call[c].pc = "unused"
  /\ \/ Request(c, op)
     \/ /\ op = "join"
        /\ call' = [call EXCEPT ![c] = [op |-> op, to |-> NoEngine, pc |-> "rejected"]]
        /\ UNCHANGED <<engine, child>>
  /\ UNCHANGED <<outbound, closing, received, toStore, shown, disconnects>>

\* createSession changes no state before its answer, so it may be clicked again.
UserCreates(c) ==
  /\ AskForSession(c, "host")
  /\ UNCHANGED ui

UserJoins(c) ==
  /\ AskForSession(c, "join")
  /\ ui' = "joining"

UserSends(c) ==
  /\ MicrotasksDone
  /\ ui = "connected"
  /\ call[c].pc = "unused"
  /\ SendFilePath(c)
  /\ UNCHANGED storeVars

UserDisconnects ==
  /\ MicrotasksDone
  /\ ui # "idle"
  /\ disconnects < MaxDisconnects
  /\ disconnects' = disconnects + 1
  /\ ui' = "idle"
  /\ shown' = {}
  /\ Disconnect(engine)
  /\ UNCHANGED outbound

\* The state after the answer to a request.
Shows(op, ok) ==
  IF op \notin {"host", "join"} THEN ui
  ELSE IF ~ok THEN "idle"
  ELSE IF ui = "connected" THEN ui
  ELSE IF op = "host" THEN "waiting" ELSE "connecting"

\* The renderer takes the next event or answer.
StoreTakes ==
  LET m == Head(toStore) IN
  /\ toStore # <<>>
  /\ toStore' = Tail(toStore)
  /\ \/ /\ m.kind = "state"
        /\ ui' = m.state
        /\ UNCHANGED shown
     \/ /\ m.kind = "transfer"
        /\ shown' = shown \cup {m.digest}
        /\ UNCHANGED ui
     \/ /\ m.kind = "answer"
        /\ ui' = Shows(call[m.call].op, m.ok)
        /\ UNCHANGED shown
  /\ UNCHANGED <<engine, child, call, outbound, closing, received, disconnects>>

-----------------------------------------------------------------------------

EngineActs ==
  /\ \E g \in Engines : EngineStep(g)
  /\ UNCHANGED <<child, call, outbound, closing, received, toStore, storeVars>>

Next ==
  \/ EngineActs
  \/ HandleLine \/ EngineGone
  \/ \E g \in Engines : DisconnectReturns(g)
  \/ \E c \in Calls : RequestTimesOut(c) \/ Reply(c) \/ Stated(c)
  \/ \E c \in Calls : UserCreates(c) \/ UserJoins(c) \/ UserSends(c)
  \/ UserDisconnects
  \/ StoreTakes

Spec == Init /\ [][Next]_vars

\* Timers fire, promises continue, stat answers and messages arrive; engines and
\* the user may do nothing.
Fairness ==
  /\ \A c \in Calls : WF_vars(RequestTimesOut(c)) /\ WF_vars(Reply(c)) /\ WF_vars(Stated(c))
  /\ \A g \in Engines : WF_vars(DisconnectReturns(g))
  /\ WF_vars(HandleLine)
  /\ WF_vars(EngineGone)
  /\ WF_vars(StoreTakes)

FairSpec == Spec /\ Fairness

-----------------------------------------------------------------------------
(***************************************************************************)
(* Properties.                                                             *)
(***************************************************************************)

\* Every variable has its type, and no more requests are pending than the
\* controller allows (QuicBridge.cjs:79).
TypeOK ==
  /\ \A g \in Engines :
       /\ engine[g].pc \in {"unborn", "running", "gone"}
       /\ engine[g].session \in {"none", "pairing", "connected", "over"}
       /\ engine[g].task \in Calls \cup {NoCall}
       /\ engine[g].joining \in Calls \cup {NoCall}
       /\ engine[g].files \in 0..MaxFiles
       /\ engine[g].started \in BOOLEAN /\ engine[g].permit \in BOOLEAN
  /\ child \in Engines \cup {NoEngine}
  /\ call \in [Calls -> [op: {"none", "host", "join", "send", "refused"},
                         to: Engines \cup {NoEngine},
                         pc: {"unused", "stat", "pending", "resolved", "rejected", "answered"}]]
  /\ Cardinality(Pending) <= MaxPending
  /\ outbound \in BOOLEAN
  /\ closing \subseteq Engines
  /\ received \subseteq Digests /\ shown \subseteq Digests
  /\ ui \in {"idle", "joining", "waiting", "connecting", "connected"}
  /\ disconnects \in 0..MaxDisconnects

\* Everything that was sent has arrived, and no callback waits.
Quiet ==
  /\ toStore = <<>>
  /\ closing = {}
  /\ \A c \in Calls : call[c].pc \in {"unused", "answered"}
  /\ child # NoEngine => engine[child].pc = "running" /\ engine[child].out = <<>>

\* No engine runs that the controller has lost track of: every other one has
\* ended or was told to.
OneEngine == \A g \in Engines : engine[g].pc = "running" => g = child

\* While the engine sends a file, the controller remembers that one is sent, so
\* that it takes no other.
SendsAreCounted ==
  \A g \in Engines :
    engine[g].task # NoCall => outbound /\ call[engine[g].task].pc = "pending"

\* Once everything has settled, a session that the window shows is one that the
\* engine has, and "connected" one that is, or was until the peer left, connected.
UiShowsNoGhost ==
  Quiet /\ ui \in {"waiting", "connecting", "connected"} =>
    /\ child # NoEngine
    /\ engine[child].started
    /\ ui = "connected" => engine[child].session \in {"connected", "over"}

\* Every call of the user interface is answered at last: timed out, failed by a
\* disconnect or by the death of the engine, if not answered by it.  The window,
\* which shows "joining" meanwhile, does not show it for ever.
EveryCallIsAnswered ==
  /\ \A c \in Calls : call[c].pc # "unused" ~> call[c].pc = "answered"
  /\ ui = "joining" ~> ui # "joining"

-----------------------------------------------------------------------------
(***************************************************************************)
(* What the documents say and the code does not do.                        *)
(***************************************************************************)

\* QUIC-DESKTOP.md:28: "Disconnect cancels ongoing work and stops the engine."
\* After it, an engine runs only if a session was asked of it.
DisconnectStopsEngine ==
  Quiet /\ disconnects > 0 =>
    \A g \in Engines : Running(g) =>
      \E c \in Calls : call[c].to = g /\ call[c].op \in {"host", "join"}
=============================================================================
