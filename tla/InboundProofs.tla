---------------------------- MODULE InboundProofs ----------------------------
(***************************************************************************)
(* Theorems of Inbound, for any number of callbacks, events and restarts.  *)
(*                                                                         *)
(* One run per event rests on Owners: a goroutine past the ledger owns its *)
(* event, and so does one whose stream the service shows, even after its   *)
(* process ended.  The quiet shutdown rests on Counted (the WaitGroup is   *)
(* exactly the finishers still to return), Gated (which flags are up at    *)
(* which stage of Shutdown) and Drained.  That submitted streams end rests *)
(* on StreamsEnd: the finisher returns only with its stream finished.      *)
(***************************************************************************)
EXTENDS Inbound, TLAPS

InFlight == Stage \ (Returned \cup {"new"})

PastLedger == {"recorded", "opening", "announcing", "submitting", "aborting",
               "waiting", "finishing", "done", "killed"}

Owns(c) == pc[c] \in PastLedger \/ shown[c] # "none"

Owners ==
  /\ \A c \in Call : Owns(c) => EventOf[c] \in ledger
  /\ \A c, d \in Call : c # d /\ EventOf[c] = EventOf[d] => ~(Owns(c) /\ Owns(d))

Gated ==
  /\ daemon \in {"gated", "draining", "waiting", "offline"} => stopped
  /\ daemon \in {"draining", "waiting", "offline"} => closed

Drained ==
  daemon \in {"waiting", "offline"} => open = {} /\ \A v \in Conv : line[v] = <<>>

Counted ==
  /\ daemon # "exited" =>
       \A c \in Call : c \in finishers <=> pc[c] \in {"waiting", "finishing"}
  /\ daemon = "offline" => finishers = {}
  /\ daemon = "exited" => \A c \in Call : pc[c] \notin InFlight

IInv == TypeOK /\ Owners /\ Gated /\ Drained /\ Counted /\ EventIndexExact

-----------------------------------------------------------------------------
\* The initial state has every type.
LEMMA TypeInit == Init => TypeOK
<1> SUFFICES ASSUME Init PROVE TypeOK
  OBVIOUS
<1>1. line \in [Conv -> Seq(Call)] /\ outcome \in [Call -> Runs!Status \cup {None}]
  BY DEF Init, Runs!AInit
<1>2. open \subseteq Call /\ closed \in BOOLEAN
  BY DEF Init, Runs!AInit
<1>3. /\ pc \in [Call -> Stage]
      /\ writer \in [Call -> Packet] /\ shown \in [Call -> Packet]
  BY DEF Init, Stage, Packet
<1>4. /\ ledger \subseteq Event /\ stopped \in BOOLEAN /\ finishers \subseteq Call
      /\ runsByEvent \in [Event -> Call \cup {None}]
  BY DEF Init
<1>5. daemon \in Daemon /\ restarts \in 0..MaxRestarts
  BY InboundAssumption DEF Init, Daemon
<1> QED
  BY <1>1, <1>2, <1>3, <1>4, <1>5 DEF TypeOK

\* A call on a stream keeps the streams' types.
LEMMA PublishTypes ==
  ASSUME TypeOK, NEW c \in Call, NEW packet \in Packet,
         Delivered(c, packet) \/ Undelivered(c, packet)
  PROVE  writer' \in [Call -> Packet] /\ shown' \in [Call -> Packet]
  BY DEF TypeOK, Delivered, Undelivered

\* Accept, Overflow, Open, Conclude, CloseSession, Leave and CloseGate keep the
\* types of the run manager.
LEMMA ManagerTypes ==
  ASSUME TypeOK,
         \/ \E c \in Call : \/ Runs!Accept(c) \/ Runs!Overflow(c) \/ Runs!Open(c)
                            \/ Runs!Conclude(c) \/ Runs!CloseSession(c) \/ Runs!Leave(c)
         \/ Runs!CloseGate
  PROVE  /\ line' \in [Conv -> Seq(Call)] /\ open' \subseteq Call
         /\ outcome' \in [Call -> Runs!Status \cup {None}] /\ closed' \in BOOLEAN
<1>1. ASSUME NEW c \in Call, Runs!Accept(c)
      PROVE  line' \in [Conv -> Seq(Call)]
  <2>1. ConvOfCall[c] \in Conv /\ line[ConvOfCall[c]] \in Seq(Call)
    BY InboundAssumption DEF ConvOfCall, TypeOK
  <2>2. Append(line[ConvOfCall[c]], c) \in Seq(Call)
    BY <2>1
  <2> QED
    BY <1>1, <2>1, <2>2 DEF TypeOK, Runs!Accept
<1>2. ASSUME NEW c \in Call, Runs!Leave(c)
      PROVE  line' \in [Conv -> Seq(Call)]
  <2>1. ConvOfCall[c] \in Conv /\ line[ConvOfCall[c]] \in Seq(Call)
    BY InboundAssumption DEF ConvOfCall, TypeOK
  <2>2. line[ConvOfCall[c]] # <<>>
    BY <1>2 DEF Runs!Leave, Runs!AtHead
  <2>3. Tail(line[ConvOfCall[c]]) \in Seq(Call)
    BY <2>1, <2>2
  <2> QED
    BY <1>2, <2>1, <2>3 DEF TypeOK, Runs!Leave
<1>3. CASE \E c \in Call : Runs!Accept(c)
  BY <1>1, <1>3 DEF TypeOK, Runs!Accept
<1>4. CASE \E c \in Call : Runs!Overflow(c)
  BY <1>4 DEF TypeOK, Runs!Overflow, Runs!Status
<1>5. CASE \E c \in Call : Runs!Open(c)
  BY <1>5 DEF TypeOK, Runs!Open
<1>6. CASE \E c \in Call : Runs!Conclude(c)
  BY <1>6 DEF TypeOK, Runs!Conclude, Runs!Status
<1>7. CASE \E c \in Call : Runs!CloseSession(c)
  BY <1>7 DEF TypeOK, Runs!CloseSession
<1>8. CASE \E c \in Call : Runs!Leave(c)
  BY <1>2, <1>8 DEF TypeOK, Runs!Leave
<1>9. CASE Runs!CloseGate
  BY <1>9 DEF TypeOK, Runs!CloseGate
<1> QED
  BY <1>3, <1>4, <1>5, <1>6, <1>7, <1>8, <1>9

\* The end of a process keeps the type of pc.
LEMMA EndedType == TypeOK => [c \in Call |-> Ended(pc[c])] \in [Call -> Stage]
<1> SUFFICES ASSUME TypeOK, NEW c \in Call PROVE Ended(pc[c]) \in Stage
  OBVIOUS
<1> QED
  BY DEF TypeOK, Ended, Stage, Returned

\* Every step keeps every type.
LEMMA TypeNext == TypeOK /\ [Next]_vars => TypeOK'
<1> SUFFICES ASSUME TypeOK, [Next]_vars PROVE TypeOK'
  OBVIOUS
<1> USE DEF TypeOK
<1>1. ASSUME NEW c \in Call, Process(c) PROVE TypeOK'
  <2>0. EventOf[c] \in Event
    BY InboundAssumption
  <2>1. CASE CheckStopped(c)
    BY <2>1 DEF CheckStopped, Goto, Stage, Returned, gate, runs, streams, life
  <2>2. CASE RecordCallback(c)
    BY <2>0, <2>2 DEF RecordCallback, Goto, Stage, Returned, gate, runs, streams, life
  <2>3. CASE Classify(c)
    BY <2>3 DEF Classify, Goto, Stage, Returned, gate, runs, streams, life
  <2>4. CASE StartAgentRun(c)
    <3>1. writer' \in [Call -> Packet] /\ shown' \in [Call -> Packet]
      BY <2>4, PublishTypes DEF StartAgentRun, Packet
    <3> QED
      BY <2>4, <3>1 DEF StartAgentRun, Goto, Stage, Returned, gate, runs, life
  <2>5. CASE Queued(c)
    <3>1. writer' \in [Call -> Packet] /\ shown' \in [Call -> Packet]
      BY <2>5, PublishTypes DEF Queued, Packet
    <3> QED
      BY <2>5, <3>1 DEF Queued, Goto, Stage, Returned, gate, runs, life
  <2>6. CASE SubmitStopped(c)
    BY <2>6 DEF SubmitStopped, Goto, Stage, Returned, gate, runs, streams, life
  <2>7. CASE Submit(c)
    <3>1. /\ line' \in [Conv -> Seq(Call)] /\ open' \subseteq Call
          /\ outcome' \in [Call -> Runs!Status \cup {None}] /\ closed' \in BOOLEAN
      BY <2>7, ManagerTypes DEF Submit, Enter, TurnAway
    <3>2. UNCHANGED <<ledger, stopped, writer, shown, daemon, restarts>>
      BY <2>7 DEF Submit, streams, life
    <3>3. CASE Enter(c)
      BY <2>0, <3>1, <3>2, <3>3 DEF Enter, Goto, Stage
    <3>4. CASE TurnAway(c)
      BY <3>1, <3>2, <3>4 DEF TurnAway, Goto, Stage, Returned
    <3> QED
      BY <2>7, <3>3, <3>4 DEF Submit
  <2>8. CASE Abort(c)
    <3>1. writer' \in [Call -> Packet] /\ shown' \in [Call -> Packet]
      BY <2>8, PublishTypes DEF Abort, Packet
    <3> QED
      BY <2>8, <3>1 DEF Abort, Goto, Stage, Returned, gate, runs, life
  <2> QED
    BY <1>1, <2>1, <2>2, <2>3, <2>4, <2>5, <2>6, <2>7, <2>8 DEF Process
<1>2. ASSUME NEW c \in Call, Finisher(c) PROVE TypeOK'
  <2>1. CASE TakeResult(c)
    BY <2>1, InboundAssumption DEF TakeResult, Goto, Stage, runs, streams, life
  <2>2. CASE Finish(c)
    <3>1. writer' \in [Call -> Packet] /\ shown' \in [Call -> Packet]
      BY <2>2, PublishTypes DEF Finish, Packet, streams
    <3> QED
      BY <2>2, <3>1 DEF Finish, Goto, Stage, Returned, runs, life
  <2> QED
    BY <1>2, <2>1, <2>2 DEF Finisher
<1>3. ASSUME NEW c \in Call, Manage(c) PROVE TypeOK'
  <2>1. CASE Started(c)
    <3>1. writer' \in [Call -> Packet] /\ shown' \in [Call -> Packet]
      BY <2>1, PublishTypes DEF Started, Packet
    <3>2. outcome' \in [Call -> Runs!Status \cup {None}]
      BY <2>1 DEF Started, runs, Runs!Status
    <3> QED
      BY <2>1, <3>1, <3>2 DEF Started, gate, runs, life
  <2>2. CASE ~Started(c)
    <3>1. \/ Runs!Open(c) \/ Runs!Conclude(c) \/ Runs!CloseSession(c) \/ Runs!Leave(c)
      BY <1>3, <2>2 DEF Manage, OpenSession, Conclude, CloseSession, Leave
    <3>2. UNCHANGED <<pc, ledger, gate, streams, life>>
      BY <1>3, <2>2 DEF Manage, OpenSession, Conclude, CloseSession, Leave
    <3>3. /\ line' \in [Conv -> Seq(Call)] /\ open' \subseteq Call
          /\ outcome' \in [Call -> Runs!Status \cup {None}] /\ closed' \in BOOLEAN
      BY <3>1, ManagerTypes
    <3> QED
      BY <3>2, <3>3 DEF gate, streams, life
  <2> QED
    BY <2>1, <2>2
<1>4. CASE Shutdown
  <2>1. CASE StopInbound
    BY <2>1 DEF StopInbound, Step, Daemon, runs, streams
  <2>2. CASE ShutdownRuns
    BY <2>2, ManagerTypes DEF ShutdownRuns, Step, Daemon, gate, streams
  <2>3. CASE RunsDrained
    BY <2>3 DEF RunsDrained, Step, Daemon, gate, runs, streams
  <2>4. CASE StopSdk
    BY <2>4 DEF StopSdk, Step, Daemon, gate, runs, streams
  <2>5. CASE Exit
    BY <2>5, EndedType DEF Exit, Step, Daemon, gate, runs, streams
  <2> QED
    BY <1>4, <2>1, <2>2, <2>3, <2>4, <2>5 DEF Shutdown
<1>5. CASE Crash
  BY <1>5, EndedType DEF Crash, Daemon, gate, runs, streams
<1>6. CASE Restart
  <2>1. line' \in [Conv -> Seq(Call)]
    BY <1>6 DEF Restart
  <2>2. restarts' \in 0..MaxRestarts
    BY <1>6, InboundAssumption DEF Restart
  <2> QED
    BY <1>6, <2>1, <2>2 DEF Restart, Daemon, streams
<1>7. ASSUME NEW c \in Call, Listener(c) PROVE TypeOK'
  BY <1>7 DEF Listener, Goto, Stage, gate, runs, streams, life
<1>8. CASE UNCHANGED vars
  BY <1>8 DEF vars, gate, runs, streams, life
<1> QED
  BY <1>1, <1>2, <1>3, <1>4, <1>5, <1>6, <1>7, <1>8 DEF Next

\* Every variable of the path keeps its type.
THEOREM TypeCorrect == Spec => []TypeOK
  BY TypeInit, TypeNext, PTL DEF Spec

-----------------------------------------------------------------------------
\* The end of a process gives no event a new owner.
LEMMA EndedOwns ==
  ASSUME NEW c \in Call, Ended(pc[c]) \in PastLedger
  PROVE  pc[c] \in PastLedger
  BY DEF Ended, PastLedger, Returned

\* A step makes at most one goroutine an owner, and only by recording its event
\* for the first time.
LEMMA OwnersMove ==
  ASSUME TypeOK, [Next]_vars
  PROVE  /\ ledger \subseteq ledger'
         /\ \/ \A c \in Call : Owns(c)' => Owns(c)
            \/ \E c \in Call : /\ EventOf[c] \notin ledger /\ EventOf[c] \in ledger'
                               /\ \A d \in Call \ {c} : Owns(d)' => Owns(d)
<1> USE DEF Owns
<1>1. ASSUME NEW c \in Call, Process(c)
      PROVE  \/ /\ ledger' = ledger /\ \A d \in Call : Owns(d)' => Owns(d)
             \/ /\ ledger' = ledger \cup {EventOf[c]} /\ EventOf[c] \notin ledger
                /\ \A d \in Call \ {c} : Owns(d)' => Owns(d)
  <2>1. CASE CheckStopped(c)
    BY <2>1 DEF CheckStopped, Goto, TypeOK, PastLedger, streams
  <2>2. CASE RecordCallback(c)
    <3>1. CASE EventOf[c] \notin ledger /\ ledger' = ledger \cup {EventOf[c]}
      BY <2>2, <3>1 DEF RecordCallback, Goto, TypeOK, streams
    <3>2. CASE ledger' = ledger /\ (Goto(c, "ignored") \/ Goto(c, "dropped"))
      BY <2>2, <3>2 DEF RecordCallback, Goto, TypeOK, PastLedger, streams
    <3> QED
      BY <2>2, <3>1, <3>2 DEF RecordCallback
  <2>3. CASE Classify(c)
    BY <2>3 DEF Classify, Goto, TypeOK, PastLedger, streams
  <2>4. CASE StartAgentRun(c)
    BY <2>4 DEF StartAgentRun, Goto, TypeOK, PastLedger, Delivered, Undelivered
  <2>5. CASE Queued(c)
    BY <2>5 DEF Queued, Goto, TypeOK, PastLedger, Delivered, Undelivered
  <2>6. CASE SubmitStopped(c)
    BY <2>6 DEF SubmitStopped, Goto, TypeOK, PastLedger, streams
  <2>7. CASE Submit(c)
    BY <2>7 DEF Submit, Enter, TurnAway, Goto, TypeOK, PastLedger, streams
  <2>8. CASE Abort(c)
    BY <2>8 DEF Abort, Goto, TypeOK, PastLedger, Delivered, Undelivered
  <2> QED
    BY <1>1, <2>1, <2>2, <2>3, <2>4, <2>5, <2>6, <2>7, <2>8 DEF Process
<1>2. ASSUME NEW c \in Call, Finisher(c)
      PROVE  ledger' = ledger /\ \A d \in Call : Owns(d)' => Owns(d)
  <2>1. CASE TakeResult(c)
    BY <2>1 DEF TakeResult, Goto, TypeOK, PastLedger, streams
  <2>2. CASE Finish(c)
    BY <2>2 DEF Finish, Goto, TypeOK, PastLedger, Delivered, Undelivered, streams
  <2> QED
    BY <1>2, <2>1, <2>2 DEF Finisher
<1>3. ASSUME NEW c \in Call, Manage(c)
      PROVE  ledger' = ledger /\ \A d \in Call : Owns(d)' => Owns(d)
  <2>1. CASE Started(c)
    BY <2>1 DEF Started, TypeOK, Delivered, Undelivered
  <2>2. CASE ~Started(c)
    BY <1>3, <2>2 DEF Manage, OpenSession, Conclude, CloseSession, Leave, streams
  <2> QED
    BY <2>1, <2>2
<1>4. CASE StopInbound \/ ShutdownRuns \/ RunsDrained \/ StopSdk
  BY <1>4 DEF StopInbound, ShutdownRuns, RunsDrained, StopSdk, streams
<1>5. CASE Exit \/ Crash
  <2>1. ledger' = ledger /\ shown' = shown /\ pc' = [c \in Call |-> Ended(pc[c])]
    BY <1>5 DEF Exit, Crash, streams
  <2> QED
    BY <2>1, EndedOwns
<1>6. CASE Restart
  BY <1>6 DEF Restart, streams
<1>7. ASSUME NEW c \in Call, Listener(c)
      PROVE  ledger' = ledger /\ \A d \in Call : Owns(d)' => Owns(d)
  BY <1>7 DEF Listener, Goto, TypeOK, PastLedger, streams
<1>8. CASE UNCHANGED vars
  BY <1>8 DEF vars, streams
<1> QED
  BY <1>1, <1>2, <1>3, <1>4, <1>5, <1>6, <1>7, <1>8 DEF Next, Shutdown

\* Recorded events have at most one owner.
LEMMA OwnersNext == TypeOK /\ Owners /\ [Next]_vars => Owners'
<1> SUFFICES ASSUME TypeOK, Owners, [Next]_vars PROVE Owners'
  OBVIOUS
<1>1. ASSUME \A c \in Call : Owns(c)' => Owns(c)
      PROVE  Owners'
  BY <1>1, OwnersMove DEF Owners
<1>2. ASSUME NEW c \in Call, EventOf[c] \notin ledger, EventOf[c] \in ledger',
             \A d \in Call \ {c} : Owns(d)' => Owns(d)
      PROVE  Owners'
  <2>1. \A d \in Call : Owns(d)' => EventOf[d] \in ledger'
    BY <1>2, OwnersMove DEF Owners
  <2>2. \A d \in Call \ {c} : EventOf[d] = EventOf[c] => ~Owns(d)'
    BY <1>2 DEF Owners
  <2>3. \A d, e \in Call \ {c} : d # e /\ EventOf[d] = EventOf[e] => ~(Owns(d)' /\ Owns(e)')
    BY <1>2 DEF Owners
  <2> QED
    BY <2>1, <2>2, <2>3 DEF Owners
<1> QED
  BY <1>1, <1>2, OwnersMove

-----------------------------------------------------------------------------
\* The flags follow the stages of Shutdown.
LEMMA GatedNext == TypeOK /\ Gated /\ [Next]_vars => Gated'
<1> SUFFICES ASSUME TypeOK, Gated, [Next]_vars PROVE Gated'
  OBVIOUS
<1> USE DEF Gated
<1>1. ASSUME NEW c \in Call, Listener(c) \/ Process(c) \/ Finisher(c) \/ Manage(c)
      PROVE  UNCHANGED <<stopped, closed, daemon>>
  <2>1. CASE Listener(c) \/ Finisher(c)
    BY <2>1 DEF Listener, Finisher, TakeResult, Finish, gate, runs, life
  <2>2. CASE Process(c)
    BY <2>2 DEF Process, CheckStopped, RecordCallback, Classify, StartAgentRun, Queued,
       SubmitStopped, Submit, Enter, TurnAway, Abort, Runs!Accept, Runs!Overflow, gate, runs, life
  <2>3. CASE Manage(c)
    BY <2>3 DEF Manage, Started, OpenSession, Conclude, CloseSession, Leave, Runs!Open,
       Runs!Conclude, Runs!CloseSession, Runs!Leave, gate, runs, life
  <2> QED
    BY <1>1, <2>1, <2>2, <2>3
<1>2. CASE StopInbound
  BY <1>2 DEF StopInbound, Step, runs
<1>3. CASE ShutdownRuns
  BY <1>3 DEF ShutdownRuns, Step, gate, Runs!CloseGate
<1>4. CASE RunsDrained \/ StopSdk \/ Exit
  BY <1>4 DEF RunsDrained, StopSdk, Exit, Step, gate, runs
<1>5. CASE Crash \/ Restart
  BY <1>5 DEF Crash, Restart
<1>6. CASE UNCHANGED vars
  BY <1>6 DEF vars, gate, runs, life
<1> QED
  BY <1>1, <1>2, <1>3, <1>4, <1>5, <1>6 DEF Next, Shutdown

\* Once the manager's Shutdown has returned, its lines stay empty: d.stopped and
\* m.stopped admit nothing any more.
LEMMA DrainedNext == TypeOK /\ Gated /\ Drained /\ [Next]_vars => Drained'
<1> SUFFICES ASSUME TypeOK, Gated, Drained, [Next]_vars PROVE Drained'
  OBVIOUS
<1> USE DEF Drained
<1>1. ASSUME NEW c \in Call, Listener(c) \/ Process(c) \/ Finisher(c)
      PROVE  Drained'
  <2>1. CASE Listener(c) \/ Finisher(c)
    BY <2>1 DEF Listener, Finisher, TakeResult, Finish, runs, life
  <2>2. CASE Submit(c)
    BY <2>2 DEF Submit, Gated, life
  <2>3. CASE Process(c) /\ ~Submit(c)
    BY <2>3 DEF Process, CheckStopped, RecordCallback, Classify, StartAgentRun, Queued,
       SubmitStopped, Abort, runs, life
  <2> QED
    BY <1>1, <2>1, <2>2, <2>3
<1>2. ASSUME NEW c \in Call, Manage(c)
      PROVE  Drained'
  <2>1. CASE daemon \in {"waiting", "offline"}
    <3>1. open = {} /\ ~Runs!AtHead(c)
      <4>1. ConvOfCall[c] \in Conv
        BY InboundAssumption DEF ConvOfCall
      <4> QED
        BY <2>1, <4>1 DEF Runs!AtHead
    <3> QED
      BY <1>2, <3>1 DEF Manage, Started, OpenSession, Conclude, CloseSession, Leave,
         Runs!Open, Runs!Conclude, Runs!CloseSession, Runs!Leave
  <2>2. CASE daemon \notin {"waiting", "offline"}
    BY <1>2, <2>2 DEF Manage, Started, OpenSession, Conclude, CloseSession, Leave, life
  <2> QED
    BY <2>1, <2>2
<1>3. CASE StopInbound \/ ShutdownRuns
  BY <1>3 DEF StopInbound, ShutdownRuns, Step
<1>4. CASE RunsDrained \/ StopSdk \/ Exit
  BY <1>4 DEF RunsDrained, StopSdk, Exit, Step, runs
<1>5. CASE Crash \/ Restart
  BY <1>5 DEF Crash, Restart
<1>6. CASE UNCHANGED vars
  BY <1>6 DEF vars, runs, life
<1> QED
  BY <1>1, <1>2, <1>3, <1>4, <1>5, <1>6 DEF Next, Shutdown

-----------------------------------------------------------------------------
\* Nothing is in flight in a process that ended.
LEMMA EndedIsOver ==
  ASSUME TypeOK, NEW c \in Call
  PROVE  Ended(pc[c]) \notin InFlight
  BY DEF Ended, InFlight, Returned, TypeOK, Stage

\* A goroutine that moves was in flight, or is delivered by a login that is up.
LEMMA GoroutinesMove ==
  ASSUME TypeOK, Counted,
         NEW c \in Call, Listener(c) \/ Process(c) \/ Finisher(c)
  PROVE  daemon # "exited" /\ daemon' = daemon
<1>1. CASE Listener(c)
  BY <1>1 DEF Listener, SdkUp, life
<1>2. CASE Process(c)
  <2>1. pc[c] \in InFlight
    BY <1>2 DEF Process, CheckStopped, RecordCallback, Classify, StartAgentRun, Queued,
       SubmitStopped, Submit, Abort, InFlight, Stage, Returned
  <2>2. daemon' = daemon
    BY <1>2 DEF Process, CheckStopped, RecordCallback, Classify, StartAgentRun, Queued,
       SubmitStopped, Submit, Abort, life
  <2> QED
    BY <2>1, <2>2 DEF Counted
<1>3. CASE Finisher(c)
  <2>1. pc[c] \in InFlight
    BY <1>3 DEF Finisher, TakeResult, Finish, InFlight, Stage, Returned
  <2>2. daemon' = daemon
    BY <1>3 DEF Finisher, TakeResult, Finish, life
  <2> QED
    BY <2>1, <2>2 DEF Counted
<1> QED
  BY <1>1, <1>2, <1>3

\* The WaitGroup counts exactly the finishers that have not returned.
LEMMA CountedNext == TypeOK /\ Gated /\ Counted /\ [Next]_vars => Counted'
<1> SUFFICES ASSUME TypeOK, Gated, Counted, [Next]_vars PROVE Counted'
  OBVIOUS
<1>1. ASSUME NEW c \in Call, Listener(c) \/ Process(c) \/ Finisher(c)
      PROVE  Counted'
  <2>0. daemon # "exited" /\ daemon' = daemon
    BY <1>1, GoroutinesMove
  <2>1. CASE Listener(c)
    BY <2>0, <2>1 DEF Counted, Listener, Goto, TypeOK, gate
  <2>2. CASE Submit(c)
    <3>1. daemon' # "offline"
      BY <2>0, <2>2 DEF Submit, Gated
    <3>2. CASE Enter(c)
      BY <2>0, <3>1, <3>2 DEF Counted, Enter, Goto, TypeOK
    <3>3. CASE TurnAway(c)
      <4>1. pc[c] \notin {"waiting", "finishing"}
        BY <2>2 DEF Submit
      <4> QED
        BY <2>0, <3>1, <3>3, <4>1 DEF Counted, TurnAway, Goto, TypeOK
    <3> QED
      BY <2>2, <3>2, <3>3 DEF Submit
  <2>3. CASE Process(c) /\ ~Submit(c)
    <3>1. finishers' = finishers
      BY <2>3 DEF Process, CheckStopped, RecordCallback, Classify, StartAgentRun, Queued,
         SubmitStopped, Abort, gate
    <3>2. PICK stage \in Stage \ {"waiting", "finishing"} : pc' = [pc EXCEPT ![c] = stage]
      BY <2>3 DEF Process, CheckStopped, RecordCallback, Classify, StartAgentRun, Queued,
         SubmitStopped, Abort, Goto, Stage, Returned
    <3>3. pc[c] \notin {"waiting", "finishing"}
      BY <2>3 DEF Process, CheckStopped, RecordCallback, Classify, StartAgentRun, Queued,
         SubmitStopped, Abort
    <3> QED
      BY <2>0, <3>1, <3>2, <3>3 DEF Counted, TypeOK
  <2>4. CASE TakeResult(c)
    BY <2>0, <2>4 DEF Counted, TakeResult, Goto, TypeOK
  <2>5. CASE Finish(c)
    BY <2>0, <2>5 DEF Counted, Finish, Goto, TypeOK
  <2> QED
    BY <1>1, <2>1, <2>2, <2>3, <2>4, <2>5 DEF Finisher
<1>2. ASSUME NEW c \in Call, Manage(c)
      PROVE  UNCHANGED <<pc, finishers, daemon>>
  BY <1>2 DEF Manage, Started, OpenSession, Conclude, CloseSession, Leave, gate, life
<1>3. CASE StopInbound \/ ShutdownRuns \/ RunsDrained
  <2>1. UNCHANGED <<pc, finishers>> /\ daemon # "exited"
    BY <1>3 DEF StopInbound, ShutdownRuns, RunsDrained, Step, gate
  <2>2. daemon' \notin {"offline", "exited"}
    BY <1>3 DEF StopInbound, ShutdownRuns, RunsDrained, Step
  <2> QED
    BY <2>1, <2>2 DEF Counted
<1>4. CASE StopSdk
  BY <1>4 DEF Counted, StopSdk, Step, gate
<1>5. CASE Exit \/ Crash
  <2>1. daemon' = "exited" /\ pc' = [c \in Call |-> Ended(pc[c])]
    BY <1>5 DEF Exit, Crash, Step
  <2> QED
    BY <2>1, EndedIsOver DEF Counted
<1>6. CASE Restart
  <2>1. \A c \in Call : pc[c] \notin {"waiting", "finishing"}
    BY <1>6 DEF Restart, Counted, InFlight, Stage, Returned
  <2> QED
    BY <1>6, <2>1 DEF Counted, Restart
<1>7. CASE UNCHANGED vars
  BY <1>7 DEF Counted, vars, gate, life
<1> QED
  BY <1>1, <1>2, <1>3, <1>4, <1>5, <1>6, <1>7 DEF Next, Shutdown, Counted

-----------------------------------------------------------------------------
\* The index of events: a goroutine only ever overwrites the entry of an event
\* it owns.
LEMMA IndexNext ==
  TypeOK /\ Owners /\ Counted /\ EventIndexExact /\ [Next]_vars => EventIndexExact'
<1> SUFFICES ASSUME TypeOK, Owners, Counted, EventIndexExact, [Next]_vars
             PROVE  EventIndexExact'
  OBVIOUS
<1>0. \A c \in Call : EventOf[c] \in Event /\ None # c
  BY InboundAssumption
<1>1. ASSUME NEW c \in Call, Listener(c) \/ Process(c) \/ Finisher(c)
      PROVE  EventIndexExact'
  <2>0. daemon # "exited" /\ daemon' = daemon
    BY <1>1, GoroutinesMove
  <2>1. CASE Submit(c)
    <3>1. \A d \in Call : d # c /\ EventOf[d] = EventOf[c] => pc[d] # "waiting"
      BY <2>1 DEF Owners, Owns, PastLedger, Submit
    <3>2. CASE Enter(c)
      BY <1>0, <2>0, <3>1, <3>2 DEF EventIndexExact, Enter, Goto, TypeOK
    <3>3. CASE TurnAway(c)
      <4>1. pc[c] # "waiting"
        BY <2>1 DEF Submit
      <4> QED
        BY <2>0, <3>3, <4>1 DEF EventIndexExact, TurnAway, Goto, TypeOK
    <3> QED
      BY <2>1, <3>2, <3>3 DEF Submit
  <2>2. CASE TakeResult(c)
    <3>1. \A d \in Call : d # c /\ EventOf[d] = EventOf[c] => pc[d] # "waiting"
      BY <2>2 DEF Owners, Owns, PastLedger, TakeResult
    <3> QED
      BY <1>0, <2>0, <2>2, <3>1 DEF EventIndexExact, TakeResult, Goto, TypeOK
  <2>3. CASE Listener(c) \/ Finish(c) \/ (Process(c) /\ ~Submit(c))
    <3>1. runsByEvent' = runsByEvent
      BY <2>3 DEF Listener, Finish, Process, CheckStopped, RecordCallback, Classify,
         StartAgentRun, Queued, SubmitStopped, Abort, gate
    <3>2. PICK stage \in Stage \ {"waiting"} : pc' = [pc EXCEPT ![c] = stage]
      BY <2>3 DEF Listener, Finish, Process, CheckStopped, RecordCallback, Classify,
         StartAgentRun, Queued, SubmitStopped, Abort, Goto, Stage, Returned
    <3>3. pc[c] # "waiting"
      BY <2>3 DEF Listener, Finish, Process, CheckStopped, RecordCallback, Classify,
         StartAgentRun, Queued, SubmitStopped, Abort
    <3> QED
      BY <2>0, <3>1, <3>2, <3>3 DEF EventIndexExact, TypeOK
  <2> QED
    BY <1>1, <2>1, <2>2, <2>3 DEF Finisher
<1>2. ASSUME NEW c \in Call, Manage(c)
      PROVE  UNCHANGED <<pc, runsByEvent, daemon>>
  BY <1>2 DEF Manage, Started, OpenSession, Conclude, CloseSession, Leave, gate, life
<1>3. CASE StopInbound \/ ShutdownRuns \/ RunsDrained \/ StopSdk
  <2>1. UNCHANGED <<pc, runsByEvent>> /\ daemon # "exited"
    BY <1>3 DEF StopInbound, ShutdownRuns, RunsDrained, StopSdk, Step, gate
  <2> QED
    BY <2>1 DEF EventIndexExact
<1>4. CASE Exit \/ Crash
  BY <1>4 DEF EventIndexExact, Exit, Crash, Step
<1>5. CASE Restart
  <2>1. \A c \in Call : pc[c] # "waiting"
    BY <1>5 DEF Restart, Counted, InFlight, Stage, Returned
  <2> QED
    BY <1>0, <1>5, <2>1 DEF EventIndexExact, Restart
<1>6. CASE UNCHANGED vars
  BY <1>6 DEF EventIndexExact, vars, gate, life
<1> QED
  BY <1>1, <1>2, <1>3, <1>4, <1>5, <1>6 DEF Next, Shutdown, EventIndexExact

-----------------------------------------------------------------------------
\* The inductive invariant.
LEMMA InboundInvariant == Spec => []IInv
<1>1. Init => IInv
  <2> SUFFICES ASSUME Init PROVE IInv
    OBVIOUS
  <2>1. Owners
    BY DEF Init, Owners, Owns, PastLedger
  <2>2. Gated /\ Drained
    BY DEF Init, Gated, Drained
  <2>3. Counted
    BY DEF Init, Counted
  <2>4. EventIndexExact
    BY InboundAssumption DEF Init, EventIndexExact
  <2> QED
    BY <2>1, <2>2, <2>3, <2>4, TypeInit DEF IInv
<1>2. IInv /\ [Next]_vars => IInv'
  BY TypeNext, OwnersNext, GatedNext, DrainedNext, CountedNext, IndexNext DEF IInv
<1> QED
  BY <1>1, <1>2, PTL DEF Spec

\* However often a callback is delivered, and to however many processes, one
\* goroutine at most runs the agent for it or shows a stream.
THEOREM OneRun == Spec => []OneRunPerEvent
<1>1. IInv => OneRunPerEvent
  BY DEF IInv, Owners, Owns, PastLedger, OneRunPerEvent, Submitted
<1> QED
  BY <1>1, InboundInvariant, PTL

\* The SDK is stopped only when no session, run or finisher is left.
THEOREM Quiet == Spec => []OfflineIsQuiet
<1>1. IInv => OfflineIsQuiet
  BY DEF IInv, Drained, Counted, OfflineIsQuiet
<1> QED
  BY <1>1, InboundInvariant, PTL

\* The index of events names exactly the runs whose result is to come.
THEOREM IndexExact == Spec => []EventIndexExact
  BY InboundInvariant, PTL DEF IInv

\* No finisher is added once the gate is closed.
THEOREM OnlyShrinks == Spec => GroupOnlyShrinks
<1>1. [Next]_vars => [stopped /\ stopped' => finishers' \subseteq finishers]_vars
  <2> SUFFICES ASSUME Next PROVE stopped /\ stopped' => finishers' \subseteq finishers
    BY DEF vars, gate
  <2>1. ASSUME NEW c \in Call, Submit(c) PROVE ~stopped
    BY <2>1 DEF Submit
  <2>2. ASSUME NEW c \in Call, Process(c) \/ Listener(c) \/ Finisher(c) \/ Manage(c), ~Submit(c)
        PROVE  finishers' \subseteq finishers
    BY <2>2 DEF Process, CheckStopped, RecordCallback, Classify, StartAgentRun, Queued,
       SubmitStopped, Abort, Listener, Finisher, TakeResult, Finish, Manage, Started,
       OpenSession, Conclude, CloseSession, Leave, gate
  <2>3. ASSUME Shutdown \/ Crash PROVE finishers' = finishers
    BY <2>3 DEF Shutdown, StopInbound, ShutdownRuns, RunsDrained, StopSdk, Exit, Crash, gate
  <2>4. CASE Restart
    BY <2>4 DEF Restart
  <2> QED
    BY <2>1, <2>2, <2>3, <2>4 DEF Next
<1> QED
  BY <1>1, PTL DEF Spec, GroupOnlyShrinks

-----------------------------------------------------------------------------
\* With a service that answers, its streams are the writers', and the finisher
\* that returned has finished its run's stream; none was cut off.
StreamsEnd ==
  ~Faults =>
    \A c \in Call :
      /\ shown[c] = writer[c]
      /\ pc[c] # "killed"
      /\ pc[c] = "done" /\ Workspace(c) => shown[c] = "finished"

-----------------------------------------------------------------------------
\* Where the service answers, a call on a stream moves the writer and the
\* service together or, with the SDK stopped, neither.
LEMMA PublishTogether ==
  ASSUME TypeOK, ~Faults, \A d \in Call : shown[d] = writer[d],
         NEW c \in Call, NEW packet \in Packet,
         Delivered(c, packet) \/ Undelivered(c, packet)
  PROVE  /\ \A d \in Call : shown'[d] = writer'[d]
         /\ \A d \in Call \ {c} : shown'[d] = shown[d]
         /\ SdkUp => shown'[c] = packet
  BY DEF TypeOK, Delivered, Undelivered

\* A stream that ended is not opened again, and a finisher returns only with the
\* SDK up: Shutdown waits for it.
LEMMA StreamsEndNext == TypeOK /\ Counted /\ StreamsEnd /\ [Next]_vars => StreamsEnd'
<1> SUFFICES ASSUME TypeOK, Counted, StreamsEnd, [Next]_vars, ~Faults PROVE StreamsEnd'
  BY DEF StreamsEnd
<1>0. \A d \in Call : /\ shown[d] = writer[d] /\ pc[d] # "killed"
                      /\ pc[d] = "done" /\ Workspace(d) => shown[d] = "finished"
  BY DEF StreamsEnd
<1>1. ASSUME NEW c \in Call, Listener(c) \/ CheckStopped(c) \/ RecordCallback(c) \/ Classify(c)
                             \/ SubmitStopped(c) \/ Submit(c) \/ TakeResult(c)
      PROVE  StreamsEnd'
  <2>1. UNCHANGED <<writer, shown>>
    BY <1>1 DEF Listener, CheckStopped, RecordCallback, Classify, SubmitStopped, Submit,
       TakeResult, streams
  <2>2. PICK stage \in Stage \ {"done", "killed"} : pc' = [pc EXCEPT ![c] = stage]
    BY <1>1 DEF Listener, CheckStopped, RecordCallback, Classify, SubmitStopped, Submit, Enter,
       TurnAway, TakeResult, Goto, Stage, Returned
  <2> QED
    BY <1>0, <2>1, <2>2 DEF StreamsEnd, TypeOK, Workspace
<1>2. ASSUME NEW c \in Call, StartAgentRun(c) \/ Queued(c) \/ Abort(c)
      PROVE  StreamsEnd'
  <2>1. PICK packet \in Packet : Delivered(c, packet) \/ Undelivered(c, packet)
    BY <1>2 DEF StartAgentRun, Queued, Abort, Packet
  <2>2. PICK stage \in Stage \ {"done", "killed"} : pc' = [pc EXCEPT ![c] = stage]
    BY <1>2 DEF StartAgentRun, Queued, Abort, Goto, Stage, Returned
  <2> QED
    BY <1>0, <2>1, <2>2, PublishTogether DEF StreamsEnd, TypeOK, Workspace
<1>3. ASSUME NEW c \in Call, Finish(c)
      PROVE  StreamsEnd'
  <2>1. SdkUp
    BY <1>3 DEF Finish, Counted, SdkUp, InFlight, Stage, Returned
  <2>2. pc' = [pc EXCEPT ![c] = "done"]
    BY <1>3 DEF Finish, Goto
  <2>3. CASE Workspace(c)
    <3>1. Delivered(c, "finished") \/ Undelivered(c, "finished")
      BY <1>3, <2>3 DEF Finish
    <3>2. "finished" \in Packet
      BY DEF Packet
    <3> QED
      BY <1>0, <2>1, <2>2, <3>1, <3>2, PublishTogether DEF StreamsEnd, TypeOK, Workspace
  <2>4. CASE ~Workspace(c)
    BY <1>0, <1>3, <2>2, <2>4 DEF Finish, StreamsEnd, TypeOK, Workspace, streams
  <2> QED
    BY <2>3, <2>4
<1>4. ASSUME NEW c \in Call, Started(c)
      PROVE  StreamsEnd'
  <2>1. /\ Delivered(c, "started") \/ Undelivered(c, "started")
        /\ shown[c] # "finished" /\ pc' = pc /\ Workspace(c)
    BY <1>0, <1>4 DEF Started
  <2>2. "started" \in Packet
    BY DEF Packet
  <2> QED
    BY <1>0, <2>1, <2>2, PublishTogether DEF StreamsEnd, Workspace
<1>5. CASE Exit
  <2>1. \A c \in Call : /\ pc'[c] \notin {"killed"}
                        /\ pc'[c] = "done" => pc[c] = "done"
    BY <1>0, <1>5 DEF Exit, Step, Counted, Ended, Returned
  <2> QED
    BY <1>0, <1>5, <2>1 DEF Exit, StreamsEnd, Workspace, streams
<1>6. CASE \/ UNCHANGED vars \/ StopInbound \/ ShutdownRuns \/ RunsDrained \/ StopSdk \/ Restart
           \/ \E c \in Call : OpenSession(c) \/ Conclude(c) \/ CloseSession(c) \/ Leave(c)
  <2>1. UNCHANGED <<pc, writer, shown>>
    BY <1>6 DEF vars, streams, StopInbound, ShutdownRuns, RunsDrained, StopSdk, Restart,
       OpenSession, Conclude, CloseSession, Leave
  <2> QED
    BY <1>0, <2>1 DEF StreamsEnd, Workspace
<1>7. ~Crash
  BY DEF Crash
<1> QED
  BY <1>1, <1>2, <1>3, <1>4, <1>5, <1>6, <1>7
     DEF Next, Process, Finisher, Manage, Shutdown

\* With a service that answers, the stream of every run the manager accepted is
\* finished by the time the SDK stops.
THEOREM SubmittedEnd == Spec => []SubmittedStreamsEnd
<1>1. Init => StreamsEnd
  BY DEF Init, StreamsEnd
<1>2. Spec => []StreamsEnd
  <2>1. IInv /\ StreamsEnd /\ [Next]_vars => StreamsEnd'
    BY StreamsEndNext DEF IInv
  <2> QED
    BY <1>1, <2>1, InboundInvariant, PTL DEF Spec
<1>3. IInv /\ StreamsEnd => SubmittedStreamsEnd
  BY DEF IInv, Counted, StreamsEnd, SubmittedStreamsEnd, Submitted, InFlight, Stage, Returned
<1> QED
  BY <1>2, <1>3, InboundInvariant, PTL

-----------------------------------------------------------------------------
\* Whatever the path does to the run manager, the manager's specification allows,
\* and what the runs of RunManager show of it may be used here: a call that lets
\* a run in, ends it because its start could not be published, or closes the
\* gate, is a step of TurnLines.  Only a new process begins with empty lines.
THEOREM KeepsToLines == Spec => Runs!AInit /\ [][Runs!ANext \/ Restart]_(Runs!avars)
<1>1. Init => Runs!AInit
  BY DEF Init
<1>2. TypeOK /\ [Next]_vars => [Runs!ANext \/ Restart]_(Runs!avars)
  <2> SUFFICES ASSUME TypeOK, [Next]_vars
               PROVE  Runs!ANext \/ Restart \/ UNCHANGED runs
    BY DEF Runs!avars, runs
  <2>1. ASSUME NEW c \in Call, Started(c) PROVE Runs!ANext \/ UNCHANGED runs
    <3>1. CASE UNCHANGED runs
      BY <3>1
    <3>2. CASE /\ outcome' = [outcome EXCEPT ![c] = "interrupted"]
               /\ UNCHANGED <<line, open, closed>>
      <4>1. Runs!AtHead(c) /\ outcome[c] = None
        BY <2>1 DEF Started
      <4>2. "interrupted" \in Runs!Status \ {"overflow"}
        BY DEF Runs!Status
      <4>3. Runs!Conclude(c)
        BY <3>2, <4>1, <4>2 DEF Runs!Conclude
      <4>4. QED BY <4>3 DEF Runs!ANext
    <3>3. QED BY <2>1, <3>1, <3>2 DEF Started
  <2>2. ASSUME NEW c \in Call, Submit(c) PROVE Runs!ANext
    BY <2>2 DEF Submit, Enter, TurnAway, Runs!ANext
  <2>3. ASSUME NEW c \in Call, OpenSession(c) \/ Conclude(c) \/ CloseSession(c) \/ Leave(c)
        PROVE  Runs!ANext
    BY <2>3 DEF OpenSession, Conclude, CloseSession, Leave, Runs!ANext
  <2>4. CASE ShutdownRuns
    BY <2>4 DEF ShutdownRuns, Runs!ANext
  <2>5. ASSUME NEW c \in Call, \/ Listener(c) \/ CheckStopped(c) \/ RecordCallback(c)
                               \/ Classify(c) \/ StartAgentRun(c) \/ Queued(c)
                               \/ SubmitStopped(c) \/ Abort(c) \/ TakeResult(c) \/ Finish(c)
        PROVE  UNCHANGED runs
    BY <2>5 DEF Listener, CheckStopped, RecordCallback, Classify, StartAgentRun, Queued,
                SubmitStopped, Abort, TakeResult, Finish
  <2>6. CASE StopInbound \/ RunsDrained \/ StopSdk \/ Exit \/ Crash \/ UNCHANGED vars
    BY <2>6 DEF StopInbound, RunsDrained, StopSdk, Exit, Crash, vars
  <2>7. QED BY <2>1, <2>2, <2>3, <2>4, <2>5, <2>6
            DEF Next, Process, Finisher, Manage, Shutdown
<1>3. QED BY <1>1, <1>2, InboundInvariant, PTL DEF Spec, IInv
=============================================================================
