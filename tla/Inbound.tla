------------------------------- MODULE Inbound -------------------------------
(***************************************************************************)
(* internal/daemon/inbound.go, the path from a bot SDK callback to a run   *)
(* and its reply, with the part of internal/daemon/runtime.go that stops   *)
(* it: every callback gets a goroutine of its own, records its event,      *)
(* opens a stream, submits a run and leaves a finisher waiting for the     *)
(* result, while Shutdown (or a crash) may come between any two steps.     *)
(*                                                                         *)
(* The parts it stands on appear by what they promise: the run manager as  *)
(* TurnLines, which RunManager implements; the ledger as the set of        *)
(* recorded events, each reported as new once (EventLedger); a run stream  *)
(* as its last lifecycle packet, which the service may hold although the   *)
(* writer saw an error (AgentRunStream).                                   *)
(*                                                                         *)
(* pc[c] is the next step of the goroutine of callback c:                  *)
(*   new        not delivered          submitting  the section at line 217 *)
(*   received   isStopped, line 140    aborting    Finish, lines 221, 229  *)
(*   recording  RecordCallback         waiting     finish, line 311        *)
(*   recorded   lines 153-190          finishing   finish, lines 315-334   *)
(*   opening    StartAgentRun          done        finish returned         *)
(*   announcing stream.Queued          ignored, dropped  Process returned  *)
(*   lost, killed   its process ended before / after it had submitted      *)
(***************************************************************************)
EXTENDS Naturals, Sequences, FiniteSets

CONSTANTS Call,              \* callbacks the bot SDK delivers
          Event,             \* (profile, dedup key) pairs
          Conv,              \* identity:conversation_id
          EventOf,           \* of each callback
          ConvOf, Kind,      \* of each event
          MaxQueue, MaxConcurrentRuns,
          Faults,            \* TRUE: calls may fail and the process may crash
          MaxRestarts,       \* bound: how often the daemon is started again
          None

ASSUME InboundAssumption ==
  /\ EventOf \in [Call -> Event]
  /\ ConvOf \in [Event -> Conv]
  /\ Kind \in [Event -> {"workspace", "text", "other"}]
  /\ MaxQueue \in Nat \ {0} /\ MaxConcurrentRuns \in Nat \ {0}
  /\ Faults \in BOOLEAN /\ MaxRestarts \in Nat
  /\ None \notin Call
  /\ None \notin {"completed", "canceled", "deadline_exceeded",
                  "overflow", "interrupted", "failed"}

VARIABLES
  pc,          \* see above
  ledger,      \* recorded events
  stopped,     \* Inbound.stopped
  runsByEvent, \* event -> the callback whose run serves it, or None
  finishers,   \* the goroutines counted in Inbound.finishers
  line, open, outcome, closed,  \* the run manager, as in TurnLines
  writer,      \* AgentRunWriter.state; "none" before StartAgentRun succeeds
  shown,       \* the last lifecycle packet the service holds
  daemon,      \* where Runtime is: see Shutdown
  restarts

runs == <<line, open, outcome, closed>>
streams == <<writer, shown>>
gate == <<stopped, runsByEvent, finishers>>
life == <<daemon, restarts>>
vars == <<pc, ledger, gate, runs, streams, life>>

ConvOfCall == [c \in Call |-> ConvOf[EventOf[c]]]

Runs == INSTANCE TurnLines WITH Run <- Call, ConvOf <- ConvOfCall, NoOutcome <- None

Returned == {"done", "ignored", "dropped", "lost", "killed"}
Stage == Returned \cup {"new", "received", "recording", "recorded", "opening",
                        "announcing", "submitting", "aborting", "waiting", "finishing"}
Daemon == {"running", "gated", "draining", "waiting", "offline", "exited"}

Workspace(c) == Kind[EventOf[c]] = "workspace"

\* Both logins answer calls until Runtime.Shutdown reaches bot.Shutdown.
SdkUp == daemon \notin {"offline", "exited"}

Init == /\ pc = [c \in Call |-> "new"]
        /\ ledger = {}
        /\ stopped = FALSE
        /\ runsByEvent = [e \in Event |-> None]
        /\ finishers = {}
        /\ Runs!AInit
        /\ writer = [c \in Call |-> "none"] /\ shown = [c \in Call |-> "none"]
        /\ daemon = "running" /\ restarts = 0

Goto(c, stage) == pc' = [pc EXCEPT ![c] = stage]

-----------------------------------------------------------------------------
\* A call on the run stream.

Delivered(c, packet) ==
  /\ SdkUp /\ shown[c] = writer[c]
  /\ shown' = [shown EXCEPT ![c] = packet]
  /\ writer' = [writer EXCEPT ![c] = packet]

\* An error; the service may hold the packet all the same, and then it takes
\* no other one at that index.
Undelivered(c, packet) ==
  /\ Faults \/ ~SdkUp \/ shown[c] # writer[c]
  /\ \/ UNCHANGED shown
     \/ SdkUp /\ shown[c] = writer[c] /\ shown' = [shown EXCEPT ![c] = packet]
  /\ UNCHANGED writer

-----------------------------------------------------------------------------
\* Process, one goroutine per callback (Listener).

\* LoginMgr passes callbacks on until bot.Shutdown.
Listener(c) ==
  /\ pc[c] = "new" /\ SdkUp
  /\ Goto(c, "received")
  /\ UNCHANGED <<ledger, gate, runs, streams, life>>

CheckStopped(c) ==
  /\ pc[c] = "received"
  /\ Goto(c, IF stopped THEN "ignored" ELSE "recording")
  /\ UNCHANGED <<ledger, gate, runs, streams, life>>

\* Mutant: recorded.Created is not looked at.
RecordCallbackEvenOld(c) ==
  /\ pc[c] = "recording"
  /\ ledger' = ledger \cup {EventOf[c]}
  /\ Goto(c, "recorded")
  /\ UNCHANGED <<gate, runs, streams, life>>

\* New, seen before, or an error of the store.
RecordCallback(c) ==
  /\ pc[c] = "recording"
  /\ \/ /\ EventOf[c] \notin ledger
        /\ ledger' = ledger \cup {EventOf[c]}
        /\ Goto(c, "recorded")
     \/ EventOf[c] \in ledger /\ Goto(c, "ignored") /\ UNCHANGED ledger
     \/ Faults /\ Goto(c, "dropped") /\ UNCHANGED ledger
  /\ UNCHANGED <<gate, runs, streams, life>>

\* What kind of event it is; the reads it takes may fail (hostedPrompt), and
\* then the recorded event is given up.
Classify(c) ==
  /\ pc[c] = "recorded"
  /\ \/ Kind[EventOf[c]] = "workspace" /\ Goto(c, "opening")
     \/ Kind[EventOf[c]] = "text" /\ Goto(c, "submitting")
     \/ Kind[EventOf[c]] = "other" /\ Goto(c, "ignored")
     \/ Faults /\ Goto(c, "dropped")
  /\ UNCHANGED <<ledger, gate, runs, streams, life>>

StartAgentRun(c) ==
  /\ pc[c] = "opening"
  /\ \/ Delivered(c, "opened") /\ Goto(c, "announcing")
     \/ Undelivered(c, "opened") /\ Goto(c, "dropped")
  /\ UNCHANGED <<ledger, gate, runs, life>>

\* A failure ends Process; nobody finishes the stream it opened.
Queued(c) ==
  /\ pc[c] = "announcing"
  /\ \/ Delivered(c, "queued") /\ Goto(c, "submitting")
     \/ Undelivered(c, "queued") /\ Goto(c, "dropped")
  /\ UNCHANGED <<ledger, gate, runs, life>>

\* The section under d.mu (lines 217-235), Manager.Submit included.  The other
\* error of Submit, ErrStopped, needs `closed` without `stopped`; the IDs are
\* fresh, and the daemon sets no Observer.
SubmitStopped(c) ==
  /\ pc[c] = "submitting" /\ stopped
  /\ Goto(c, IF Workspace(c) THEN "aborting" ELSE "dropped")
  /\ UNCHANGED <<ledger, gate, runs, streams, life>>

\* The run is in: its event is indexed and a finisher is counted for it.
Enter(c) ==
  /\ Runs!Accept(c)
  /\ runsByEvent' = [runsByEvent EXCEPT ![EventOf[c]] = c]
  /\ finishers' = finishers \cup {c}
  /\ Goto(c, "waiting")

\* ErrQueueFull: no entry and no finisher.  The result in the handle is read by
\* nobody; Process ends the stream itself, and tells the sender of a text nothing.
TurnAway(c) ==
  /\ Runs!Overflow(c)
  /\ Goto(c, IF Workspace(c) THEN "aborting" ELSE "dropped")
  /\ UNCHANGED <<runsByEvent, finishers>>

\* Mutant: d.stopped is not read again under the lock.
SubmitUngated(c) ==
  /\ pc[c] = "submitting" /\ ~closed
  /\ Enter(c) \/ TurnAway(c)
  /\ UNCHANGED <<ledger, stopped, streams, life>>

\* Mutant: finishers.Add is missing.
SubmitUncounted(c) ==
  /\ pc[c] = "submitting" /\ ~stopped
  /\ \/ /\ Runs!Accept(c) /\ Goto(c, "waiting")
        /\ runsByEvent' = [runsByEvent EXCEPT ![EventOf[c]] = c]
        /\ UNCHANGED finishers
     \/ TurnAway(c)
  /\ UNCHANGED <<ledger, stopped, streams, life>>

\* Mutant: the error of Submit leaves the stream as it is.
SubmitForgetsStream(c) ==
  /\ pc[c] = "submitting" /\ ~stopped
  /\ \/ Enter(c)
     \/ Runs!Overflow(c) /\ Goto(c, "dropped") /\ UNCHANGED <<runsByEvent, finishers>>
  /\ UNCHANGED <<ledger, stopped, streams, life>>

Submit(c) ==
  /\ pc[c] = "submitting" /\ ~stopped
  /\ Enter(c) \/ TurnAway(c)
  /\ UNCHANGED <<ledger, stopped, streams, life>>

\* Finish after the unlock, of a run that never was: by a goroutine nobody counts.
Abort(c) ==
  /\ pc[c] = "aborting"
  /\ Delivered(c, "finished") \/ Undelivered(c, "finished")
  /\ Goto(c, "dropped")
  /\ UNCHANGED <<ledger, gate, runs, life>>

Process(c) ==
  \/ CheckStopped(c) \/ RecordCallback(c) \/ Classify(c) \/ StartAgentRun(c)
  \/ Queued(c) \/ SubmitStopped(c) \/ Submit(c) \/ Abort(c)

-----------------------------------------------------------------------------
\* The finisher.

\* Mutant: only a completed run is finished.
TakeCompleted(c) ==
  /\ pc[c] = "waiting" /\ outcome[c] = "completed"
  /\ runsByEvent' = [runsByEvent EXCEPT ![EventOf[c]] = None]
  /\ Goto(c, "finishing")
  /\ UNCHANGED <<ledger, stopped, finishers, runs, streams, life>>

TakeResult(c) ==
  /\ pc[c] = "waiting" /\ outcome[c] # None
  /\ runsByEvent' = [runsByEvent EXCEPT ![EventOf[c]] = None]
  /\ Goto(c, "finishing")
  /\ UNCHANGED <<ledger, stopped, finishers, runs, streams, life>>

\* Mutant: finishers.Done is not called.
FinishUncounted(c) ==
  /\ pc[c] = "finishing"
  /\ \/ Workspace(c) /\ (Delivered(c, "finished") \/ Undelivered(c, "finished"))
     \/ ~Workspace(c) /\ UNCHANGED streams
  /\ Goto(c, "done")
  /\ UNCHANGED <<ledger, gate, runs, life>>

\* stream.Finish, or the reply text stream's.
Finish(c) ==
  /\ pc[c] = "finishing"
  /\ \/ Workspace(c) /\ (Delivered(c, "finished") \/ Undelivered(c, "finished"))
     \/ ~Workspace(c) /\ UNCHANGED streams
  /\ finishers' = finishers \ {c}
  /\ Goto(c, "done")
  /\ UNCHANGED <<ledger, stopped, runsByEvent, runs, life>>

Finisher(c) == TakeResult(c) \/ Finish(c)

-----------------------------------------------------------------------------
\* The run manager at work on the accepted runs.

\* request.Started publishes run.started before the session is opened; its
\* error ends the run.
Started(c) ==
  /\ Workspace(c) /\ Runs!AtHead(c) /\ outcome[c] = None /\ writer[c] = "queued"
  /\ \/ Delivered(c, "started") /\ UNCHANGED runs
     \/ /\ Undelivered(c, "started")
        /\ outcome' = [outcome EXCEPT ![c] = "interrupted"]
        /\ UNCHANGED <<line, open, closed>>
  /\ UNCHANGED <<pc, ledger, gate, life>>

OpenSession(c) ==
  /\ Workspace(c) => writer[c] = "started"
  /\ Runs!Open(c)
  /\ UNCHANGED <<pc, ledger, gate, streams, life>>

Conclude(c) ==
  /\ Runs!Conclude(c)
  /\ UNCHANGED <<pc, ledger, gate, streams, life>>

CloseSession(c) ==
  /\ Runs!CloseSession(c)
  /\ UNCHANGED <<pc, ledger, gate, streams, life>>

Leave(c) ==
  /\ Runs!Leave(c)
  /\ UNCHANGED <<pc, ledger, gate, streams, life>>

Manage(c) == Started(c) \/ OpenSession(c) \/ Conclude(c) \/ CloseSession(c) \/ Leave(c)

-----------------------------------------------------------------------------
\* Runtime.Shutdown: Inbound.Shutdown in three steps, the SDKs, the process.

Step(from, to) == daemon = from /\ daemon' = to /\ UNCHANGED restarts

StopInbound ==
  /\ Step("running", "gated")
  /\ stopped' = TRUE
  /\ UNCHANGED <<pc, ledger, runsByEvent, finishers, runs, streams>>

ShutdownRuns ==
  /\ Step("gated", "draining")
  /\ Runs!CloseGate
  /\ UNCHANGED <<pc, ledger, gate, streams>>

\* Manager.Shutdown returns when its workers have (NothingLeftAfterShutdown).
RunsDrained ==
  /\ Step("draining", "waiting")
  /\ open = {} /\ \A v \in Conv : line[v] = <<>>
  /\ UNCHANGED <<pc, ledger, gate, runs, streams>>

\* Mutant: finishers.Wait is missing.
StopSdkAtOnce ==
  /\ Step("waiting", "offline")
  /\ UNCHANGED <<pc, ledger, gate, runs, streams>>

\* finishers.Wait returns and bot.Shutdown follows.
StopSdk ==
  /\ Step("waiting", "offline")
  /\ finishers = {}
  /\ UNCHANGED <<pc, ledger, gate, runs, streams>>

\* The goroutines end with their process, whatever they were about.
Ended(stage) == CASE stage \in {"waiting", "finishing"} -> "killed"
                  [] stage \in Returned \cup {"new"} -> stage
                  [] OTHER -> "lost"

Exit ==
  /\ Step("offline", "exited")
  /\ pc' = [c \in Call |-> Ended(pc[c])]
  /\ UNCHANGED <<ledger, gate, runs, streams>>

Crash ==
  /\ Faults /\ daemon # "exited"
  /\ daemon' = "exited"
  /\ pc' = [c \in Call |-> Ended(pc[c])]
  /\ UNCHANGED <<ledger, gate, runs, streams, restarts>>

\* A new process: control.db is all it knows.
Restart ==
  /\ daemon = "exited" /\ restarts < MaxRestarts
  /\ daemon' = "running" /\ restarts' = restarts + 1
  /\ stopped' = FALSE /\ closed' = FALSE
  /\ runsByEvent' = [e \in Event |-> None]
  /\ finishers' = {}
  /\ line' = [v \in Conv |-> <<>>] /\ open' = {}
  /\ UNCHANGED <<pc, ledger, outcome, streams>>

Shutdown == StopInbound \/ ShutdownRuns \/ RunsDrained \/ StopSdk \/ Exit

-----------------------------------------------------------------------------
Next == \/ \E c \in Call : Listener(c) \/ Process(c) \/ Finisher(c) \/ Manage(c)
        \/ Shutdown \/ Crash \/ Restart

\* Goroutines run on and the calls they make return (30 s in finish; Started
\* has no deadline and relies on the SDK's).  The manager concludes accepted
\* runs (AcceptedRunsConclude of RunManager).  No event need arrive, and nobody
\* need stop the daemon.
Fairness ==
  /\ \A c \in Call : WF_vars(Process(c)) /\ WF_vars(Finisher(c))
  /\ \A c \in Call : WF_vars(Conclude(c)) /\ WF_vars(CloseSession(c)) /\ WF_vars(Leave(c))
  /\ WF_vars(ShutdownRuns \/ RunsDrained \/ StopSdk \/ Exit)

Spec == Init /\ [][Next]_vars /\ Fairness

-----------------------------------------------------------------------------
Packet == {"none", "opened", "queued", "started", "finished"}

\* Every variable of the path has its type.
TypeOK ==
  /\ pc \in [Call -> Stage]
  /\ ledger \subseteq Event
  /\ stopped \in BOOLEAN /\ closed \in BOOLEAN
  /\ runsByEvent \in [Event -> Call \cup {None}]
  /\ finishers \subseteq Call /\ open \subseteq Call
  /\ line \in [Conv -> Seq(Call)]
  /\ outcome \in [Call -> Runs!Status \cup {None}]
  /\ writer \in [Call -> Packet] /\ shown \in [Call -> Packet]
  /\ daemon \in Daemon /\ restarts \in 0..MaxRestarts

\* The manager took the run, and a finisher waits for its result or has it.
Submitted(c) == pc[c] \in {"waiting", "finishing", "done", "killed"}

\* The sender of one message sees at most one run stream and gets at most one
\* run for it, though the SDK may deliver the callback again, at once or to the
\* next process (ARCHITECTURE.md, "persist dedup reference").
OneRunPerEvent ==
  \A c, d \in Call : c # d /\ EventOf[c] = EventOf[d] =>
    /\ ~(Submitted(c) /\ Submitted(d))
    /\ shown[c] = "none" \/ shown[d] = "none"

\* The bot SDK is stopped only when no run is left that would still publish or
\* reply through it: sessions closed, results delivered, finishers returned.
OfflineIsQuiet ==
  daemon = "offline" =>
    /\ open = {} /\ \A v \in Conv : line[v] = <<>>
    /\ \A c \in Call : pc[c] \notin {"waiting", "finishing"}

\* finishers.Add never races finishers.Wait: once Shutdown has closed the gate
\* the group only shrinks, however long ago a callback passed line 140.
GroupOnlyShrinks == [][stopped /\ stopped' => finishers' \subseteq finishers]_vars

\* d.runsByEvent names exactly the runs whose result is still to come, so
\* CancelEvent finds every one of them and no other.
EventIndexExact ==
  daemon # "exited" =>
    \A c \in Call : runsByEvent[EventOf[c]] = c <=> pc[c] = "waiting"

\* With a service that answers, every run the manager accepted has its stream
\* finished by the time the SDK stops, also when the shutdown interrupted it.  A
\* run that was refused has no finisher and is left to OpenedStreamsEnd.
SubmittedStreamsEnd ==
  ~Faults /\ daemon \in {"offline", "exited"} =>
    \A c \in Call : Submitted(c) /\ Workspace(c) => shown[c] = "finished"

\* AGENT_RUN_STREAM_DESIGN.md:221 "a run has ... exactly one run.finished": no
\* stream is left open by a daemon that stopped in order.
OpenedStreamsEnd ==
  ~Faults /\ daemon = "exited" =>
    \A c \in Call : shown[c] # "none" => shown[c] = "finished"

\* With a service that answers, a stream the sender was shown ends, whether its run
\* was accepted or turned away by a full queue, unless the SDK is stopped first.
StreamsEndWhileUp ==
  ~Faults => \A c \in Call : shown[c] # "none" ~> shown[c] = "finished" \/ ~SdkUp

\* Every accepted run is finished towards the sender, or its process ended.
SubmittedAreFinished == \A c \in Call : pc[c] = "waiting" ~> pc[c] \in {"done", "killed"}

\* A shutdown that has begun ends: neither the queue of a conversation, nor a
\* finisher, nor a callback in flight holds it up for ever.
ShutdownEnds == daemon = "gated" ~> daemon = "exited"
=============================================================================
