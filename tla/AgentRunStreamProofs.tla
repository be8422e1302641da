------------------------ MODULE AgentRunStreamProofs ------------------------
(***************************************************************************)
(* Theorems of AgentRunStream, for any sizes, limits and lengths.          *)
(*                                                                         *)
(* The service may be one packet ahead of the writer.  The argument is     *)
(* that whatever may still arrive at the writer's next index is a packet   *)
(* the writer's state allows there (Allowed), although several different   *)
(* ones may be on their way: Waiting says so of requests under way,        *)
(* Ahead of the packet already stored, Position ties the state to the      *)
(* index, and Behind says what lies before it.                             *)
(***************************************************************************)
EXTENDS AgentRunStream, TLAPS

\* The events a stream takes next in each state.
Allowed(event) ==
  \/ state = "new" /\ event = "queued"
  \/ state = "queued" /\ event \in {"started", "finished"}
  \/ state = "started" /\ event \in {"content", "finished"}

Position ==
  /\ state = "new" => nextIndex = 0
  /\ state = "queued" => nextIndex = 1
  /\ state \in {"started", "finished"} => nextIndex >= 2

Behind ==
  /\ state # "new" => log[1].event = "queued"
  /\ state = "started" => log[2].event = "started"
  /\ state # "finished" => \A i \in 1..nextIndex : log[i].event # "finished"
  /\ state = "finished" => Len(log) = nextIndex /\ log[nextIndex].event = "finished"

Ahead == /\ AtMostOneUnknown
         /\ Len(log) = nextIndex + 1 => Allowed(log[Len(log)].event)

Waiting ==
  /\ \A r \in net : r.index =< nextIndex /\ (r.index = nextIndex => Allowed(r.packet.event))
  /\ call # None => call.index = nextIndex /\ Allowed(call.packet.event)

Room ==
  /\ state # "finished" => totalBytes + LifecycleSize =< MaxTotal
  /\ call # None /\ call.packet.event # "finished"
       => totalBytes + call.packet.size =< MaxTotal - Reserve

IInv == TypeOK /\ LogShape /\ Position /\ Behind /\ Ahead /\ Waiting /\ Room

-----------------------------------------------------------------------------
\* What Send leaves behind, for a lifecycle packet or a content packet.
LEMMA SendTypes ==
  ASSUME TypeOK, NEW packet \in Packet, NEW end \in BOOLEAN, Send(packet, end)
  PROVE  /\ call' \in Request /\ call' = [index |-> nextIndex, packet |-> packet]
         /\ net' \subseteq Request /\ sent' \subseteq Request
         /\ net' = net \cup {call'}
         /\ state' = state /\ nextIndex' = nextIndex /\ totalBytes' = totalBytes /\ log' = log
  BY DEF Send, TypeOK, Request

\* The lifecycle packets are packets.
LEMMA LifecyclePacket ==
  \A event \in {"queued", "started", "finished"} : Lifecycle(event) \in Packet
  BY StreamAssumption DEF Lifecycle, Packet

\* A size counts.
LEMMA SizeNat == \A packet \in Packet : packet.size \in Nat
  BY StreamAssumption DEF Packet

-----------------------------------------------------------------------------
\* A method either refuses, leaving the stream as it is, or sends one packet
\* the state allows.
Refused == UNCHANGED <<state, nextIndex, totalBytes, call, net, log, sent>>

Sends(packet) ==
  /\ packet \in Packet /\ Allowed(packet.event)
  /\ call' = [index |-> nextIndex, packet |-> packet]
  /\ net' = net \cup {call'} /\ sent' = sent \cup {call'}
  /\ packet.event # "finished" => totalBytes + packet.size =< MaxTotal - Reserve
  /\ UNCHANGED <<state, nextIndex, totalBytes, log>>

\* Every method of the writer, and every step of its callers, is of that kind.
LEMMA Methods ==
  ASSUME TypeOK, Queued \/ Started \/ AppendContent \/ Finish \/ Submit \/ Conclude \/ Over
  PROVE  /\ Refused \/ \E packet \in Packet : Sends(packet)
         /\ contents' \in 0..MaxContents
         /\ caller' \in {"opened", "dropped", "announced", "submitted", "turning",
                         "ending", "ended"}
<1>1. CASE Queued
  <2>1. Lifecycle("queued") \in Packet /\ Lifecycle("queued").event = "queued"
    BY LifecyclePacket DEF Lifecycle
  <2>2. CASE Send(Lifecycle("queued"), FALSE)
    <3>1. Sends(Lifecycle("queued"))
      BY <1>1, <2>1, <2>2 DEF Queued, Send, Sends, Allowed, Fits, Limit
    <3> QED
      BY <1>1, <2>1, <2>2, <3>1 DEF Queued, TypeOK
  <2> QED
    BY <1>1, <2>2 DEF Queued, Refuse, Refused, TypeOK
<1>2. CASE Started
  <2>1. Lifecycle("started") \in Packet /\ Lifecycle("started").event = "started"
    BY LifecyclePacket DEF Lifecycle
  <2>2. CASE Send(Lifecycle("started"), FALSE)
    <3>1. Sends(Lifecycle("started"))
      BY <1>2, <2>1, <2>2 DEF Started, Send, Sends, Allowed, Fits, Limit
    <3> QED
      BY <1>2, <2>1, <2>2, <3>1 DEF Started, TypeOK
  <2> QED
    BY <1>2, <2>2 DEF Started, Refuse, Refused, TypeOK
<1>3. CASE AppendContent
  <2>1. contents' \in 0..MaxContents /\ caller' = caller
    BY <1>3, StreamAssumption DEF AppendContent, TypeOK
  <2>2. ASSUME NEW size \in ContentSize, state = "started",
               Send([event |-> "content", n |-> contents', size |-> size], FALSE)
        PROVE  \E packet \in Packet : Sends(packet)
    <3> DEFINE packet == [event |-> "content", n |-> contents', size |-> size]
    <3>1. packet \in Packet /\ packet.event = "content" /\ packet.size = size
      BY <2>1 DEF Packet
    <3>2. Sends(packet)
      BY <2>2, <3>1 DEF Send, Sends, Allowed, Fits, Limit
    <3> QED
      BY <3>1, <3>2
  <2> QED
    BY <1>3, <2>1, <2>2 DEF AppendContent, Refuse, Refused, TypeOK
<1>4. CASE Finish
  <2>1. Lifecycle("finished") \in Packet /\ Lifecycle("finished").event = "finished"
    BY LifecyclePacket DEF Lifecycle
  <2>2. CASE state \in {"queued", "started"} /\ Send(Lifecycle("finished"), TRUE)
    <3>1. Sends(Lifecycle("finished"))
      BY <1>4, <2>1, <2>2 DEF Finish, Send, Sends, Allowed
    <3> QED
      BY <1>4, <2>1, <2>2, <3>1 DEF Finish, TypeOK
  <2> QED
    BY <1>4, <2>2 DEF Finish, Refuse, Refused, TypeOK
<1>5. CASE Submit \/ Conclude \/ Over
  BY <1>5 DEF Submit, Conclude, Over, vars, Refused, TypeOK
<1> QED
  BY <1>1, <1>2, <1>3, <1>4, <1>5

\* A method keeps the invariant.
LEMMA MethodStep ==
  ASSUME IInv, Queued \/ Started \/ AppendContent \/ Finish \/ Submit \/ Conclude \/ Over
  PROVE  IInv'
<1> USE DEF IInv
<1>0. /\ contents' \in 0..MaxContents
      /\ caller' \in {"opened", "dropped", "announced", "submitted", "turning",
                      "ending", "ended"}
  BY Methods
<1>1. CASE Refused
  <2>1. TypeOK'
    BY <1>0, <1>1 DEF Refused, TypeOK
  <2>2. LogShape' /\ Position' /\ Behind'
    BY <1>1 DEF Refused, LogShape, Events, Position, Behind
  <2>3. Ahead' /\ Waiting' /\ Room'
    BY <1>1 DEF Refused, Ahead, AtMostOneUnknown, Waiting, Room, Allowed
  <2> QED
    BY <2>1, <2>2, <2>3
<1>2. ASSUME NEW packet \in Packet, Sends(packet)
      PROVE  IInv'
  <2>0. UNCHANGED <<state, nextIndex, totalBytes, log>>
    BY <1>2 DEF Sends
  <2>1. TypeOK'
    <3>1. call' \in Request
      BY <1>2 DEF Sends, Request, TypeOK
    <3> QED
      BY <1>0, <1>2, <2>0, <3>1 DEF Sends, TypeOK
  <2>2. LogShape' /\ Position' /\ Behind'
    BY <2>0 DEF LogShape, Events, Position, Behind
  <2>3. Ahead'
    BY <2>0 DEF Ahead, AtMostOneUnknown, Allowed
  <2>4. Waiting'
    <3>1. /\ call'.index = nextIndex' /\ Allowed(call.packet.event)'
          /\ net' = net \cup {call'} /\ nextIndex' \in Nat
      BY <1>2, <2>0 DEF Sends, Allowed, TypeOK
    <3>2. \A r \in net : r.index =< nextIndex' /\ (r.index = nextIndex' => Allowed(r.packet.event)')
      BY <2>0 DEF Waiting, Allowed
    <3> QED
      BY <3>1, <3>2 DEF Waiting
  <2>5. Room'
    BY <1>2, <2>0 DEF Room, Sends
  <2> QED
    BY <2>1, <2>2, <2>3, <2>4, <2>5
<1> QED
  BY <1>1, <1>2, Methods

-----------------------------------------------------------------------------
\* The service stores a request: it is one the writer's state allows, whoever
\* sent it and however long ago.
LEMMA StoreStep ==
  ASSUME IInv, NEW request \in net, Store(request)
  PROVE  IInv'
<1> USE DEF IInv
<1>0. /\ request \in Request /\ log \in Seq(Packet) /\ nextIndex \in Nat
      /\ UNCHANGED <<state, nextIndex, totalBytes, call, sent, contents, caller>>
      /\ net' = net \ {request}
      /\ log' = Append(log, request.packet) /\ request.index = Len(log)
  BY DEF Store, TypeOK
<1>1. Len(log) = nextIndex /\ Allowed(request.packet.event)
  BY <1>0 DEF Ahead, AtMostOneUnknown, Waiting, Request
<1>2. /\ log' \in Seq(Packet) /\ Len(log') = nextIndex + 1
      /\ log'[Len(log')] = request.packet
      /\ \A i \in 1..nextIndex : log'[i] = log[i]
  BY <1>0, <1>1 DEF Request
<1>3. TypeOK'
  BY <1>0, <1>2 DEF TypeOK
<1>4. Position' /\ Waiting' /\ Room'
  BY <1>0 DEF Position, Waiting, Room, Allowed
<1>5. Ahead'
  BY <1>0, <1>1, <1>2 DEF Ahead, AtMostOneUnknown, Allowed
<1>6. state # "finished"
  BY <1>1 DEF Allowed
<1>7. Behind'
  <2>1. state # "new" => nextIndex >= 1
    BY <1>0 DEF Position, TypeOK
  <2>2. state = "started" => nextIndex >= 2
    BY DEF Position
  <2> QED
    BY <1>0, <1>2, <1>6, <2>1, <2>2 DEF Behind
<1>8. LogShape'
  <2> SUFFICES ASSUME NEW i \in 1..(nextIndex + 1)
               PROVE  /\ log'[i].event = "queued" => i = 1
                      /\ log'[i].event = "started" => i = 2 /\ log'[1].event = "queued"
                      /\ log'[i].event = "content" => i > 2 /\ log'[2].event = "started"
                      /\ log'[i].event = "finished" => i = Len(log') /\ i > 1
    BY <1>2 DEF LogShape, Events
  <2>1. CASE i =< nextIndex
    <3>1. i \in 1..nextIndex /\ i \in DOMAIN log /\ log'[i] = log[i]
      BY <1>0, <1>1, <1>2, <2>1
    <3>2. log[i] \in Packet
      BY <1>0, <3>1
    <3>3. log[i].event \in {"queued", "started", "content"}
      BY <1>6, <3>1, <3>2 DEF Behind, Packet
    <3>4. \A j \in 1..i : log'[j] = log[j]
      BY <1>0, <1>2, <3>1
    <3>5. /\ log[i].event = "queued" => i = 1
          /\ log[i].event = "started" => i = 2 /\ log[1].event = "queued"
          /\ log[i].event = "content" => i > 2 /\ log[2].event = "started"
      <4>1. DOMAIN log = 1..nextIndex
        BY <1>0, <1>1
      <4>2. /\ Events[i] = log[i].event
            /\ i >= 1 => Events[1] = log[1].event
            /\ i >= 2 => Events[2] = log[2].event
        BY <1>0, <3>1, <4>1 DEF Events
      <4>3. i >= 1 /\ i \in Nat
        BY <1>0, <3>1
      <4> QED
        BY <3>1, <4>2, <4>3 DEF LogShape
    <3> QED
      BY <3>1, <3>3, <3>4, <3>5
  <2>2. CASE i = nextIndex + 1
    <3>1. log'[i] = request.packet
      BY <1>2, <2>2
    <3>2. CASE state = "new"
      BY <1>1, <2>2, <3>1, <3>2 DEF Allowed, Position
    <3>3. CASE state = "queued"
      <4>1. nextIndex = 1 /\ log'[1].event = "queued"
        BY <1>2, <3>3 DEF Position, Behind
      <4>2. request.packet.event \in {"started", "finished"}
        BY <1>1, <3>3 DEF Allowed
      <4> QED
        BY <1>2, <2>2, <3>1, <4>1, <4>2
    <3>4. CASE state = "started"
      <4>1. nextIndex >= 2 /\ log'[2].event = "started"
        BY <1>0, <1>2, <3>4 DEF Position, Behind
      <4>2. request.packet.event \in {"content", "finished"}
        BY <1>1, <3>4 DEF Allowed
      <4> QED
        BY <1>0, <1>2, <2>2, <3>1, <4>1, <4>2
    <3> QED
      BY <1>6, <3>2, <3>3, <3>4 DEF TypeOK
  <2>3. i =< nextIndex \/ i = nextIndex + 1
    BY <1>0
  <2> QED
    BY <2>1, <2>2, <2>3
<1> QED
  BY <1>3, <1>4, <1>5, <1>7, <1>8

\* A lost request leaves the others.
LEMMA LoseStep ==
  ASSUME IInv, NEW request \in net, Lose(request)
  PROVE  IInv'
<1> USE DEF IInv
<1>1. TypeOK'
  BY DEF Lose, TypeOK
<1>2. LogShape' /\ Position' /\ Behind' /\ Ahead'
  BY DEF Lose, LogShape, Events, Position, Behind, Ahead, AtMostOneUnknown, Allowed
<1>3. Waiting' /\ Room'
  BY DEF Lose, Waiting, Room, Allowed
<1> QED
  BY <1>1, <1>2, <1>3

-----------------------------------------------------------------------------
\* A call that fails leaves the writer where it was.
LEMMA FailStep ==
  ASSUME IInv, CallFails
  PROVE  IInv'
<1> USE DEF IInv
<1>1. TypeOK'
  BY DEF CallFails, CallerOnError, TypeOK
<1>2. LogShape' /\ Position' /\ Behind' /\ Ahead'
  BY DEF CallFails, LogShape, Events, Position, Behind, Ahead, AtMostOneUnknown, Allowed
<1>3. Waiting' /\ Room'
  BY DEF CallFails, Waiting, Room, Allowed
<1> QED
  BY <1>1, <1>2, <1>3

\* An acknowledged call takes the writer to the packet the service holds.
LEMMA SucceedStep ==
  ASSUME IInv, CallSucceeds
  PROVE  IInv'
<1> USE DEF IInv
<1> DEFINE event == call.packet.event
<1>0. /\ call \in Request /\ call # None /\ call.index = nextIndex /\ Allowed(event)
      /\ event \in {"queued", "started", "content", "finished"}
      /\ call.packet.size \in Nat
  <2>1. call \in Request /\ call # None
    BY DEF CallSucceeds, Acknowledged, TypeOK
  <2>2. call.packet \in Packet
    BY <2>1 DEF Request
  <2> QED
    BY <2>1, <2>2, SizeNat DEF Waiting, Packet
<1>1. /\ nextIndex \in Nat /\ totalBytes \in Nat /\ log \in Seq(Packet)
      /\ nextIndex' = nextIndex + 1 /\ totalBytes' = totalBytes + call.packet.size
      /\ state' = StateAfter(event) /\ call' = None
      /\ UNCHANGED <<net, log, sent, contents>>
  BY DEF CallSucceeds, TypeOK
<1>2. Len(log) = nextIndex + 1 /\ log[nextIndex + 1].event = event
  BY <1>0, <1>1 DEF CallSucceeds, Acknowledged, Ahead, AtMostOneUnknown
<1>3. \/ state = "new" /\ event = "queued" /\ state' = "queued"
      \/ state = "queued" /\ event = "started" /\ state' = "started"
      \/ state = "started" /\ event = "content" /\ state' = "started"
      \/ state \in {"queued", "started"} /\ event = "finished" /\ state' = "finished"
  BY <1>0, <1>1 DEF Allowed, StateAfter
<1>4. TypeOK'
  <2>1. caller' \in {"opened", "dropped", "announced", "submitted", "turning", "ending", "ended"}
    BY DEF CallSucceeds, CallerAfter, TypeOK
  <2> QED
    BY <1>0, <1>1, <1>3, <2>1 DEF TypeOK
<1>5. LogShape'
  BY <1>1 DEF LogShape, Events
<1>6. Position'
  BY <1>1, <1>3 DEF Position
<1>7. Behind'
  <2>1. CASE state = "new"
    BY <1>1, <1>2, <1>3, <2>1 DEF Behind, Position
  <2>2. CASE state = "queued" /\ state' = "started"
    <3>1. nextIndex = 1 /\ log[1].event = "queued" /\ log[2].event = "started"
      BY <1>2, <1>3, <2>2 DEF Behind, Position
    <3> QED
      BY <1>1, <2>2, <3>1 DEF Behind
  <2>3. CASE state = "started" /\ state' = "started"
    <3>1. \A i \in 1..(nextIndex + 1) : log[i].event # "finished"
      BY <1>1, <1>2, <1>3, <2>3 DEF Behind
    <3> QED
      BY <1>1, <2>3, <3>1 DEF Behind
  <2>4. CASE state' = "finished"
    BY <1>1, <1>2, <1>3, <2>4 DEF Behind
  <2> QED
    BY <1>3, <2>1, <2>2, <2>3, <2>4
<1>8. Ahead'
  BY <1>1, <1>2 DEF Ahead, AtMostOneUnknown
<1>9. Waiting'
  <2>1. \A r \in net : r.index \in Nat /\ r.index =< nextIndex
    BY DEF TypeOK, Request, Waiting
  <2> QED
    BY <1>1, <2>1 DEF Waiting
<1>10. Room'
  <2>1. CASE event = "finished"
    BY <1>1, <1>3, <2>1 DEF Room
  <2>2. CASE event # "finished"
    <3>1. totalBytes + call.packet.size =< MaxTotal - Reserve
      BY <1>0, <2>2 DEF Room
    <3>2. totalBytes' + LifecycleSize =< MaxTotal
      BY <1>0, <1>1, <3>1, StreamAssumption
    <3> QED
      BY <1>1, <3>2 DEF Room
  <2> QED
    BY <2>1, <2>2
<1> QED
  BY <1>4, <1>5, <1>6, <1>7, <1>8, <1>9, <1>10

-----------------------------------------------------------------------------
\* The inductive invariant.
LEMMA StreamInvariant == Spec => []IInv
<1>1. Init => IInv
  <2> SUFFICES ASSUME Init PROVE IInv
    OBVIOUS
  <2>1. TypeOK
    BY StreamAssumption DEF Init, TypeOK
  <2>2. LogShape /\ Position /\ Behind
    BY DEF Init, LogShape, Events, Position, Behind
  <2>3. Ahead /\ Waiting
    BY DEF Init, Ahead, AtMostOneUnknown, Waiting
  <2>4. Room
    BY StreamAssumption DEF Init, Room
  <2> QED
    BY <2>1, <2>2, <2>3, <2>4 DEF IInv
<1>2. IInv /\ [Next]_vars => IInv'
  <2> SUFFICES ASSUME IInv, [Next]_vars PROVE IInv'
    OBVIOUS
  <2>1. CASE UNCHANGED vars
    <3>1. TypeOK' /\ LogShape' /\ Position' /\ Behind'
      BY <2>1 DEF IInv, vars, TypeOK, LogShape, Events, Position, Behind
    <3>2. Ahead' /\ Waiting' /\ Room'
      BY <2>1 DEF IInv, vars, Ahead, AtMostOneUnknown, Waiting, Room, Allowed
    <3> QED
      BY <3>1, <3>2 DEF IInv
  <2>2. CASE \E request \in net : Store(request) \/ Lose(request)
    BY <2>2, StoreStep, LoseStep
  <2> QED
    BY <2>1, <2>2, MethodStep, FailStep, SucceedStep DEF Next
<1> QED
  BY <1>1, <1>2, PTL DEF Spec

\* Every variable of the stream keeps its type.
THEOREM TypeCorrect == Spec => []TypeOK
  BY StreamInvariant, PTL DEF IInv

\* The stored stream reads queued, started, content, finished, whatever was
\* lost, delayed or attempted after a failure.
THEOREM Shape == Spec => []LogShape
  BY StreamInvariant, PTL DEF IInv

\* The service is never behind the writer, nor more than one packet ahead.
THEOREM OneUnknown == Spec => []AtMostOneUnknown
<1>1. IInv => AtMostOneUnknown
  BY DEF IInv, Ahead
<1> QED
  BY <1>1, StreamInvariant, PTL

\* run.finished always fits.
THEOREM FinishFits == Spec => []RoomToFinish
<1>1. IInv => RoomToFinish
  BY DEF IInv, Room, RoomToFinish
<1> QED
  BY <1>1, StreamInvariant, PTL

\* A Finish that succeeded has its packet stored, and last.
THEOREM FinishStored == Spec => []FinishedIsStored
<1>1. IInv => FinishedIsStored
  <2> SUFFICES ASSUME IInv, state = "finished"
               PROVE  log # <<>> /\ Events[Len(log)] = "finished"
    BY DEF FinishedIsStored
  <2>1. log \in Seq(Packet) /\ Len(log) = nextIndex /\ nextIndex >= 2
    BY DEF IInv, TypeOK, Behind, Position
  <2>2. log[Len(log)].event = "finished"
    BY <2>1 DEF IInv, Behind
  <2> QED
    BY <2>1, <2>2 DEF Events
<1> QED
  BY <1>1, StreamInvariant, PTL
=============================================================================
