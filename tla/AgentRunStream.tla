--------------------------- MODULE AgentRunStream ---------------------------
(***************************************************************************)
(* internal/bridge/abdim/agent_run_writer.go: the writer of one workspace  *)
(* run stream, its callers, and the IM service that stores the packets.    *)
(*                                                                         *)
(* Every method holds w.mu across its AppendStreamMessage call, so one     *)
(* request is under way at a time.  The call may fail with "outcome is     *)
(* unknown" while its request is still on the way: the service may store   *)
(* the packet later, or never.  The service (external) stores a request    *)
(* only at the next free index; it is not assumed to honour `end`.         *)
(*                                                                         *)
(* caller is what the stream's users have reached: Process (opened,        *)
(* announced), the run manager (submitted), the provider (turning), and    *)
(* whoever finishes the stream (ending, ended).  `dropped` is Process      *)
(* returning because Queued failed.                                        *)
(***************************************************************************)
EXTENDS Naturals, Sequences, FiniteSets

CONSTANTS ContentSize,       \* sizes of the marshalled content events
          LifecycleSize,     \* of run.queued, run.started and run.finished
          MaxPacket,         \* maxRunPacketBytes
          MaxTotal,          \* maxRunTotalBytes
          Reserve,           \* terminalReserve
          MaxContents,       \* bound: calls of Append
          None

ASSUME StreamAssumption ==
  /\ ContentSize \subseteq Nat \ {0} /\ LifecycleSize \in Nat \ {0}
  /\ MaxPacket \in Nat /\ MaxTotal \in Nat /\ Reserve \in Nat
  /\ MaxContents \in Nat
  /\ LifecycleSize =< Reserve
  /\ Reserve + LifecycleSize =< MaxTotal

VARIABLES
  state,       \* AgentRunWriter.state
  nextIndex, totalBytes,
  call,        \* the append under way, or None
  net,         \* requests that may still reach the service
  log,         \* the packets the service stored
  sent,        \* every request ever sent (history)
  contents,    \* calls of Append so far
  caller       \* see above

vars == <<state, nextIndex, totalBytes, call, net, log, sent, contents, caller>>

\* Packets are told apart by n: no two events are the same.
Packet == [event : {"queued", "started", "content", "finished"},
           n : 0..MaxContents, size : ContentSize \cup {LifecycleSize}]
Request == [index : Nat, packet : Packet]

Lifecycle(event) == [event |-> event, n |-> 0, size |-> LifecycleSize]

Init == /\ state = "new" /\ nextIndex = 0 /\ totalBytes = 0
        /\ call = None /\ net = {} /\ log = <<>> /\ sent = {}
        /\ contents = 0 /\ caller = "opened"

-----------------------------------------------------------------------------
\* appendLocked.

\* Mutant: nothing is kept for run.finished.
LimitWithoutReserve(end) == MaxTotal

Limit(end) == IF end THEN MaxTotal ELSE MaxTotal - Reserve

Fits(packet, end) == /\ packet.size =< MaxPacket
                     /\ totalBytes + packet.size =< Limit(end)

\* The request leaves; w.mu stays held until CallSucceeds or CallFails.
Send(packet, end) ==
  LET request == [index |-> nextIndex, packet |-> packet] IN
  /\ Fits(packet, end)
  /\ call' = request
  /\ net' = net \cup {request}
  /\ sent' = sent \cup {request}
  /\ UNCHANGED <<state, nextIndex, totalBytes, log>>

\* An error before a request leaves: a done context, a packet without room, or
\* an SDK that is not connected.
Refuse == UNCHANGED <<state, nextIndex, totalBytes, call, net, log, sent>>

-----------------------------------------------------------------------------
\* The methods, as their callers use them.

\* Process announces the run; a failure ends Process.
Queued ==
  /\ call = None /\ caller = "opened" /\ state = "new"
  /\ \/ Send(Lifecycle("queued"), FALSE) /\ UNCHANGED caller
     \/ Refuse /\ caller' = "dropped"
  /\ UNCHANGED contents

\* Submit accepted the run, or the daemon stopped or Submit failed (then
\* Process finishes the stream itself).
Submit ==
  /\ caller = "announced"
  /\ caller' \in {"submitted", "ending"}
  /\ UNCHANGED <<state, nextIndex, totalBytes, call, net, log, sent, contents>>

\* The run concludes without a turn, or its turn returns; the provider's
\* reader may still be inside Append.
Conclude ==
  /\ caller \in {"submitted", "turning"}
  /\ call # None => call.packet.event = "content"
  /\ caller' = "ending"
  /\ UNCHANGED <<state, nextIndex, totalBytes, call, net, log, sent, contents>>

Started ==
  /\ call = None /\ caller = "submitted" /\ state = "queued"
  /\ \/ Send(Lifecycle("started"), FALSE) /\ UNCHANGED caller
     \/ Refuse /\ caller' = "ending"
  /\ UNCHANGED contents

\* Mutant: the state is not looked at.
AppendAnyState ==
  /\ call = None /\ caller \in {"turning", "ending", "ended"}
  /\ contents < MaxContents
  /\ contents' = contents + 1
  /\ \/ \E size \in ContentSize :
           Send([event |-> "content", n |-> contents', size |-> size], FALSE)
     \/ Refuse
  /\ UNCHANGED caller

\* Content is refused unless the writer is started, however late it comes.
AppendContent ==
  /\ call = None /\ caller \in {"turning", "ending", "ended"}
  /\ contents < MaxContents
  /\ contents' = contents + 1
  /\ \/ /\ state = "started"
        /\ \E size \in ContentSize :
              Send([event |-> "content", n |-> contents', size |-> size], FALSE)
     \/ Refuse
  /\ UNCHANGED caller

Finish ==
  /\ call = None /\ caller = "ending"
  /\ \/ /\ state \in {"queued", "started"}
        /\ Send(Lifecycle("finished"), TRUE)
        /\ UNCHANGED caller
     \/ Refuse /\ caller' = "ended"
  /\ UNCHANGED contents

-----------------------------------------------------------------------------
\* The service, and the end of a call.

\* A request arrives, on time or after its call gave up.
Store(request) ==
  /\ request \in net
  /\ request.index = Len(log)
  /\ log' = Append(log, request.packet)
  /\ net' = net \ {request}
  /\ UNCHANGED <<state, nextIndex, totalBytes, call, sent, contents, caller>>

\* It is lost, or its index is taken.
Lose(request) ==
  /\ request \in net
  /\ net' = net \ {request}
  /\ UNCHANGED <<state, nextIndex, totalBytes, call, log, sent, contents, caller>>

Acknowledged == /\ call # None
                /\ call.index < Len(log) /\ log[call.index + 1] = call.packet

StateAfter(event) == CASE event = "queued" -> "queued"
                       [] event = "started" -> "started"
                       [] event = "finished" -> "finished"
                       [] OTHER -> state

CallerAfter(event) == CASE event = "queued" -> "announced"
                        [] event = "started" -> "turning"
                        [] event = "finished" -> "ended"
                        [] OTHER -> caller

CallSucceeds ==
  /\ Acknowledged
  /\ nextIndex' = nextIndex + 1
  /\ totalBytes' = totalBytes + call.packet.size
  /\ state' = StateAfter(call.packet.event)
  /\ caller' = CallerAfter(call.packet.event)
  /\ call' = None
  /\ UNCHANGED <<net, log, sent, contents>>

\* What the stream's users do about a failed call: Process returns, the run
\* concludes, or the failed Finish is reported and nothing follows.
CallerOnError == CASE call.packet.event = "queued" -> "dropped"
                   [] call.packet.event = "started" -> "ending"
                   [] call.packet.event = "finished" -> "ended"
                   [] OTHER -> caller

\* Mutant: the state moves before the outcome is known.
CallFailsMovesOn ==
  /\ call # None
  /\ call' = None
  /\ caller' = CallerOnError
  /\ state' = StateAfter(call.packet.event)
  /\ UNCHANGED <<nextIndex, totalBytes, net, log, sent, contents>>

\* "OpenIM Agent run outcome is unknown": nothing of the writer changes.
CallFails ==
  /\ call # None
  /\ call' = None
  /\ caller' = CallerOnError
  /\ UNCHANGED <<state, nextIndex, totalBytes, net, log, sent, contents>>

\* Nobody will use the stream again.
Over == /\ caller \in {"dropped", "ended"} /\ call = None /\ net = {}
        /\ contents = MaxContents \/ caller = "dropped"
        /\ UNCHANGED vars

Next == \/ Queued \/ Submit \/ Conclude \/ Started \/ AppendContent \/ Finish
        \/ \E request \in net : Store(request) \/ Lose(request)
        \/ CallSucceeds \/ CallFails
        \/ Over

Spec == Init /\ [][Next]_vars

-----------------------------------------------------------------------------
\* Every variable of the stream has its type.
TypeOK ==
  /\ state \in {"new", "queued", "started", "finished"}
  /\ nextIndex \in Nat /\ totalBytes \in Nat
  /\ call \in Request \cup {None}
  /\ net \subseteq Request /\ sent \subseteq Request
  /\ log \in Seq(Packet)
  /\ contents \in 0..MaxContents
  /\ caller \in {"opened", "dropped", "announced", "submitted", "turning", "ending", "ended"}

Events == [i \in DOMAIN log |-> log[i].event]

\* The stored stream reads queued, started, content, finished (design section
\* 8), whatever was lost, delayed or attempted after a failure.
LogShape ==
  \A i \in DOMAIN log :
    /\ Events[i] = "queued" => i = 1
    /\ Events[i] = "started" => i = 2 /\ Events[1] = "queued"
    /\ Events[i] = "content" => i > 2 /\ Events[2] = "started"
    /\ Events[i] = "finished" => i = Len(log) /\ i > 1

\* The service is at most one packet ahead of the writer, and never behind: an
\* unknown outcome costs no more than the packet it was about.
AtMostOneUnknown == nextIndex =< Len(log) /\ Len(log) =< nextIndex + 1

\* However full the stream is, run.finished still fits (terminalReserve).
RoomToFinish == state \in {"queued", "started"} => totalBytes + LifecycleSize =< MaxTotal

\* A writer that reports success of Finish has its terminal event stored last.
FinishedIsStored == state = "finished" => log # <<>> /\ Events[Len(log)] = "finished"
=============================================================================
