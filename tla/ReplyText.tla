------------------------------ MODULE ReplyText ------------------------------
(***************************************************************************)
(* The reply of a run in a private or group chat: replyTextStream          *)
(* (internal/daemon/inbound.go) over TextStreamWriter                      *)
(* (internal/bridge/abdim/text_stream_writer.go), as operators on its      *)
(* state r.  Texts are sequences of pieces of equal size.                  *)
(*                                                                         *)
(* A call has several outcomes, each [r |-> the state after it, ok |-> nil *)
(* was returned]: the service may store a packet and the call fail all the *)
(* same.  It stores a packet only at the next index of an open stream.     *)
(***************************************************************************)
EXTENDS Naturals, SequencesExt

CONSTANT MaxText   \* pieces that fit maxTextStreamBytes

ASSUME ReplyTextAssumption == MaxText \in Nat

\* r.messages is what the recipient has: the texts of the streams started, with
\* the packets appended to each.  The other fields are the code's.
NewReply == [messages |-> <<>>, stream |-> FALSE, nextIndex |-> 0, closed |-> FALSE,
             finalItems |-> {}, text |-> <<>>, finished |-> FALSE]

Refused(r) == {[r |-> r, ok |-> FALSE]}
Accepted(r) == {[r |-> r, ok |-> TRUE]}

Message(t) == [text |-> t, packets |-> 0, open |-> TRUE]

\* Context ended, message full: the call is not made.
Sendable(r, t, alive) == alive /\ Len(r.text) + Len(t) <= MaxText

StartTextStream(r, t, alive) ==
  LET stored == [r EXCEPT !.messages = Append(@, Message(t))]
  IN  Refused(r) \cup
      IF ~Sendable(r, t, alive) THEN {}
      ELSE Refused(stored) \cup Accepted([stored EXCEPT !.stream = TRUE, !.text = t])

\* AppendStreamMessage at the writer's index: the service's state after it,
\* or none if it does not take the packet.
Stored(r, t, last) ==
  LET n == Len(r.messages)
      m == r.messages[n]
      more == [text |-> m.text \o t, packets |-> m.packets + 1, open |-> ~last]
  IN  IF m.open /\ m.packets = r.nextIndex
      THEN {[r EXCEPT !.messages = [r.messages EXCEPT ![n] = more]]} ELSE {}

\* TextStreamWriter.Append
AppendText(r, t, alive) ==
  Refused(r) \cup
  IF Sendable(r, t, alive)
  THEN UNION {Refused(s) \cup Accepted([s EXCEPT !.text = @ \o t, !.nextIndex = @ + 1]) :
              s \in Stored(r, t, FALSE)}
  ELSE {}

\* TextStreamWriter.Finish
FinishText(r) ==
  Refused(r) \cup
  IF r.closed THEN {}
  ELSE UNION {Refused(s) \cup Accepted([s EXCEPT !.closed = TRUE]) : s \in Stored(r, <<>>, TRUE)}

AppendLocked(r, t, alive) ==
  IF t = <<>> THEN Accepted(r)
  ELSE IF r.stream THEN AppendText(r, t, alive) ELSE StartTextStream(r, t, alive)

\* replyTextStream.Event: only the messages of the final phase are replied.
Event(r, item, what, t, alive) ==
  CASE r.finished -> Refused(r)
    [] ~r.finished /\ what = "started" /\ item = "message" ->
         Accepted([r EXCEPT !.finalItems = @ \cup {item}])
    [] ~r.finished /\ what = "delta" /\ item \in r.finalItems -> AppendLocked(r, t, alive)
    [] OTHER -> Accepted(r)

Close(r) == IF r.stream
            THEN {IF x.ok THEN [x EXCEPT !.r.finished = TRUE] ELSE x : x \in FinishText(r)}
            ELSE Accepted([r EXCEPT !.finished = TRUE])

\* replyTextStream.Finish; final is empty unless the run completed.
FinishReply(r, final) ==
  CASE r.finished -> Refused(r)
    [] ~r.finished /\ (final = <<>> \/ final = r.text) -> Close(r)
    [] ~r.finished /\ final # <<>> /\ final # r.text /\ IsPrefix(r.text, final) ->
         LET sent == AppendLocked(r, SubSeq(final, Len(r.text) + 1, Len(final)), TRUE)
         IN  {x \in sent : ~x.ok} \cup UNION {Close(x.r) : x \in {y \in sent : y.ok}}
    [] OTHER -> {[r |-> [x.r EXCEPT !.finished = TRUE], ok |-> FALSE] :
                 x \in IF r.stream THEN FinishText(r) ELSE Refused(r)}
=============================================================================
