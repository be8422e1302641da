----------------------------- MODULE AcpSession ------------------------------
(***************************************************************************)
(* internal/agent/provider/acp/acp.go: one session of the ACP adapter with *)
(* its one turn, and the sink its events go to: the run stream of a        *)
(* workspace, or the reply of a chat (ReplyText) with the goroutine that   *)
(* finishes it.  At work are                                               *)
(*                                                                         *)
(*   caller    Adapter.Start, Turn and Close, for the run manager          *)
(*   reader    SessionUpdate, one notification at a time                   *)
(*   asker     RequestPermission                                           *)
(*   finisher  Inbound.finish, once the result is there                    *)
(*                                                                         *)
(* todo[g] holds the events goroutine g has still to deliver, in a handler *)
(* or in completeACPItems; deliverEvent is a look at the turn under s.mu   *)
(* (do = "check"), the call of the sink without it ("sink") and, if that   *)
(* failed, turn.err under s.mu ("fail").                                   *)
(*                                                                         *)
(* External (acp-go-sdk, from its use here): notifications are handled in  *)
(* order, those before the answer of a prompt before Prompt returns it; a  *)
(* request of the agent has a goroutine; a call ends with its context, and *)
(* with the connection.                                                    *)
(*                                                                         *)
(* pc is where the caller stands:                                          *)
(*   starting, ready      Start               completing  completeACPItems *)
(*   prompt               in Prompt           returned    Turn returned    *)
(*   closing, closed      Close                                            *)
(***************************************************************************)
EXTENDS ReplyText, FiniteSets

CONSTANTS Sinks,       \* of {"run", "reply"}
          MaxUpdates   \* bound: notifications of the turn

Item == {"message", "thought", "tool", "permission"}
Goroutine == {"caller", "reader", "asker"}

ASSUME AcpSessionAssumption == Sinks \subseteq {"run", "reply"} /\ MaxUpdates \in Nat

VARIABLES
  pc, result,  \* see above; "none", "completed" or "error", of Start and Turn
  ctx,         \* the run's context is done
  proc,        \* the agent: "running", "killed", "ended" (and s.done closed)
  turn,        \* s.turn: "none", "set", "cleared"
  started, completed, tools, text, err,   \* of turnState
  todo, leftover,  \* see above; what completeACPItems has still to announce
  answer,      \* the agent's to the prompt, or how Prompt failed
  updates,     \* notifications handled
  stray,       \* the agent wrote of a tool call it had not begun or had ended,
               \* or after its answer
  sink,        \* where the events go
  told,        \* of each item, by the events the run stream took: see Hear
  refused,     \* the sink returned an error
  reply,       \* ReplyText's state
  finish       \* "waiting", "ok", "error"

caller == <<pc, result>>
world == <<ctx, proc>>
state == <<turn, started, completed, tools, text, err>>
agent == <<answer, updates, stray>>
ears == <<told, refused, reply>>
vars == <<caller, world, state, todo, leftover, agent, ears, sink, finish>>

Init == /\ pc = "starting" /\ result = "none" /\ ctx = FALSE /\ proc = "running"
        /\ turn = "none" /\ started = {} /\ completed = {} /\ tools = {}
        /\ text = <<>> /\ err = FALSE
        /\ todo = [g \in Goroutine |-> <<>>] /\ leftover = {}
        /\ answer = "none" /\ updates = 0 /\ stray = FALSE
        /\ sink \in Sinks /\ told = [i \in Item |-> "nothing"] /\ refused = FALSE
        /\ reply = NewReply /\ finish = "waiting"

Say(i, what, t) == [do |-> "check", item |-> i, what |-> what, text |-> t]
Tell(i, what) == Say(i, what, <<>>)

Idle(g) == todo[g] = <<>>
At(g, do) == ~Idle(g) /\ todo[g][1].do = do
Become(g, events) == todo' = [todo EXCEPT ![g] = events \o Tail(@)]
On(g, do) == Become(g, <<[todo[g][1] EXCEPT !.do = do]>>)

-----------------------------------------------------------------------------
\* deliverEvent, in any goroutine.

\* Mutant: a turn whose sink failed goes on.
CheckTurnOnly(g) == /\ At(g, "check")
                    /\ IF turn = "set" THEN On(g, "sink") ELSE Become(g, <<>>)
                    /\ UNCHANGED <<caller, world, state, leftover, agent, ears, sink, finish>>

CheckTurn(g) == /\ At(g, "check")
                /\ IF turn = "set" /\ ~err THEN On(g, "sink") ELSE Become(g, <<>>)
                /\ UNCHANGED <<caller, world, state, leftover, agent, ears, sink, finish>>

\* An item is started, then changes, then is completed; a permission likewise
\* is requested and resolved.
Hear(past, what) == CASE past = "nothing" /\ what = "started" -> "open"
                      [] past = "open" /\ what \in {"delta", "updated"} -> "open"
                      [] past = "open" /\ what = "completed" -> "closed"
                      [] OTHER -> "wrong"

\* The run stream may refuse any event, and takes none once the run's context
\* is done (AgentRunWriter.Append); the reply is an operator of ReplyText.
CallSink(g) ==
  /\ At(g, "sink")
  /\ LET e == todo[g][1]
     IN  \/ /\ sink = "run" /\ ~ctx /\ UNCHANGED <<refused, reply>>
            /\ told' = [told EXCEPT ![e.item] = Hear(@, e.what)]
            /\ Become(g, <<>>)
         \/ /\ sink = "run" /\ refused' = TRUE /\ UNCHANGED <<told, reply>>
            /\ On(g, "fail")
         \/ \E x \in Event(reply, e.item, e.what, e.text, ~ctx) :
              /\ sink = "reply" /\ reply' = x.r /\ UNCHANGED told
              /\ IF x.ok THEN Become(g, <<>>) /\ UNCHANGED refused
                         ELSE On(g, "fail") /\ refused' = TRUE
  /\ UNCHANGED <<caller, world, state, leftover, agent, sink, finish>>

\* Mutant: the error is only logged.
SinkFailedQuietly(g) == /\ At(g, "fail") /\ Become(g, <<>>)
                        /\ UNCHANGED <<caller, world, state, leftover, agent, ears, sink, finish>>

\* ... and Cancel asks the agent to end the turn.
SinkFailed(g) == /\ At(g, "fail") /\ Become(g, <<>>)
                 /\ err' = (err \/ turn = "set")
                 /\ UNCHANGED <<caller, world, turn, started, completed, tools, text, leftover,
                                agent, ears, sink, finish>>

-----------------------------------------------------------------------------
\* SessionUpdate.  The notification is handled under s.mu, its events after;
\* without a turn it is dropped.

\* Bound: an agent that has strayed says no more, as no safety property is
\* about what it says then.
Reads == /\ Idle("reader") /\ turn = "set" /\ proc = "running"
         /\ updates < MaxUpdates /\ ~stray

Handled(unexpected) == /\ updates' = updates + 1
                       /\ stray' = (stray \/ answer # "none" \/ unexpected)
                       /\ UNCHANGED answer

Piece(i) == IF i = "message" THEN <<Len(text) + 1>> ELSE <<>>

\* Mutant: the item is not marked as started.
ChunkUnmarked(i) ==
  /\ Reads /\ Handled(FALSE)
  /\ text' = text \o Piece(i)
  /\ todo' = [todo EXCEPT !["reader"] = <<Tell(i, "started"), Say(i, "delta", Piece(i))>>]
  /\ UNCHANGED <<caller, world, turn, started, completed, tools, err, leftover, ears, sink,
                 finish>>

\* AgentMessageChunk, AgentThoughtChunk.
Chunk(i) ==
  /\ Reads /\ Handled(FALSE)
  /\ text' = text \o Piece(i) /\ started' = started \cup {i}
  /\ todo' = [todo EXCEPT !["reader"] =
       (IF i \in started THEN <<>> ELSE <<Tell(i, "started")>>) \o <<Say(i, "delta", Piece(i))>>]
  /\ UNCHANGED <<caller, world, turn, completed, tools, err, leftover, ears, sink, finish>>

ToolCall ==
  /\ Reads /\ Handled("tool" \in tools)
  /\ tools' = tools \cup {"tool"} /\ started' = started \cup {"tool"}
  /\ todo' = [todo EXCEPT !["reader"] = <<Tell("tool", "started")>>]
  /\ UNCHANGED <<caller, world, turn, completed, text, err, leftover, ears, sink, finish>>

\* Mutant: completed is not remembered.
ToolCallUpdateForgets(terminal) ==
  /\ Reads /\ Handled("tool" \notin tools \/ told["tool"] = "closed")
  /\ tools' = tools \cup {"tool"} /\ started' = started \cup {"tool"}
  /\ todo' = [todo EXCEPT !["reader"] =
       <<Tell("tool", "updated")>> \o IF terminal THEN <<Tell("tool", "completed")>> ELSE <<>>]
  /\ UNCHANGED <<caller, world, turn, completed, text, err, leftover, ears, sink, finish>>

ToolCallUpdate(terminal) ==
  /\ Reads /\ Handled("tool" \notin tools \/ "tool" \in completed)
  /\ tools' = tools \cup {"tool"} /\ started' = started \cup {"tool"}
  /\ completed' = IF terminal THEN completed \cup {"tool"} ELSE completed
  /\ todo' = [todo EXCEPT !["reader"] = <<Tell("tool", "updated")>> \o
       IF terminal /\ "tool" \notin completed THEN <<Tell("tool", "completed")>> ELSE <<>>]
  /\ UNCHANGED <<caller, world, turn, text, err, leftover, ears, sink, finish>>

\* One permission: asked for, and answered at once by the first option that
\* allows, or by none.
RequestPermission ==
  /\ Reads /\ Idle("asker") /\ told["permission"] = "nothing"
  /\ Handled("tool" \notin tools \/ "tool" \in completed)
  /\ todo' = [todo EXCEPT !["asker"] = <<Tell("permission", "started"),
                                         Tell("permission", "completed")>>]
  /\ UNCHANGED <<caller, world, state, leftover, ears, sink, finish>>

\* The agent ends the prompt; before a permission has been answered only if it
\* pays no heed to it.
Answer == /\ Idle("reader") /\ turn = "set" /\ answer = "none" /\ proc = "running"
          /\ answer' \in {"end", "cancelled", "error"}
          /\ stray' = (stray \/ ~Idle("asker"))
          /\ UNCHANGED <<updates, caller, world, state, todo, leftover, ears, sink, finish>>

-----------------------------------------------------------------------------
\* The caller.

Goto(p) == pc' = p /\ UNCHANGED result
Return(p, r) == pc' = p /\ result' = r

Killed == proc' = IF proc = "running" THEN "killed" ELSE proc

\* Adapter.Start, with the process running: its requests, and closeProcess if
\* one fails.
Start == /\ pc = "starting"
         /\ \/ Goto("ready") /\ proc = "running" /\ UNCHANGED proc
            \/ Return("closing", "error") /\ Killed
         /\ UNCHANGED <<ctx, state, todo, leftover, agent, ears, sink, finish>>

BeginTurn == /\ pc = "ready"
             /\ IF ctx THEN Return("returned", "error") /\ UNCHANGED turn
                ELSE Goto("prompt") /\ turn' = "set"
             /\ UNCHANGED <<world, started, completed, tools, text, err, todo, leftover,
                            agent, ears, sink, finish>>

\* Mutant: Prompt is left only with the agent's answer.
PromptReturnsAnswered ==
  /\ pc = "prompt" /\ answer # "none" /\ UNCHANGED agent
  /\ leftover' = started \ completed /\ completed' = completed \cup started
  /\ Goto("completing")
  /\ UNCHANGED <<world, turn, started, tools, text, err, todo, ears, sink, finish>>

\* Prompt returns; completeACPItems takes what is open.
PromptReturns ==
  /\ pc = "prompt"
  /\ \/ answer # "none" /\ UNCHANGED agent
     \/ /\ answer = "none" /\ (ctx \/ proc # "running")
        /\ answer' = "lost" /\ UNCHANGED <<updates, stray>>
  /\ leftover' = started \ completed /\ completed' = completed \cup started
  /\ Goto("completing")
  /\ UNCHANGED <<world, turn, started, tools, text, err, todo, ears, sink, finish>>

\* In the order of a map.
CompleteItem == /\ pc = "completing" /\ Idle("caller")
                /\ \E i \in leftover :
                     /\ todo' = [todo EXCEPT !["caller"] = <<Tell(i, "completed")>>]
                     /\ leftover' = leftover \ {i}
                /\ UNCHANGED <<caller, world, state, agent, ears, sink, finish>>

\* Turn's end; the run counts as failed, too, if its context is done by now.
EndTurn ==
  /\ pc = "completing" /\ Idle("caller") /\ leftover = {}
  /\ turn' = "cleared"
  /\ \/ /\ answer = "end" /\ ~err /\ text # <<>> /\ Return("returned", "completed")
     \/ /\ answer # "end" \/ err \/ text = <<>> \/ ctx
        /\ Return("returned", "error")
  /\ UNCHANGED <<world, started, completed, tools, text, err, todo, leftover, agent, ears,
                 sink, finish>>

\* Inbound.finish.
Finish == /\ pc \in {"returned", "closing", "closed"} /\ turn # "none"
          /\ sink = "reply" /\ finish = "waiting"
          /\ \E x \in FinishReply(reply, IF result = "completed" THEN text ELSE <<>>) :
               reply' = x.r /\ finish' = IF x.ok THEN "ok" ELSE "error"
          /\ UNCHANGED <<caller, world, state, todo, leftover, agent, told, refused, sink>>

\* Close: session/close, of a second at most, and closeProcess; then <-s.done.
CloseSession == /\ pc = "returned" /\ Goto("closing") /\ Killed
          /\ UNCHANGED <<ctx, state, todo, leftover, agent, ears, sink, finish>>

Closed == /\ pc = "closing" /\ proc = "ended" /\ Goto("closed")
          /\ UNCHANGED <<world, state, todo, leftover, agent, ears, sink, finish>>

\* session.wait, once the process is killed or ends by itself.
Wait == /\ proc # "ended" /\ proc' = "ended"
        /\ UNCHANGED <<caller, ctx, state, todo, leftover, agent, ears, sink, finish>>

\* Cancel, or the deadline of the run.
ContextDone == /\ ~ctx /\ ctx' = TRUE
               /\ UNCHANGED <<caller, proc, state, todo, leftover, agent, ears, sink, finish>>

Caller == \/ Start \/ BeginTurn \/ PromptReturns \/ CompleteItem \/ EndTurn
          \/ CloseSession \/ Closed

Deliver(g) == CheckTurn(g) \/ CallSink(g) \/ SinkFailed(g)

Next == \/ Caller \/ Wait \/ Finish \/ ContextDone
        \/ \E g \in Goroutine : Deliver(g)
        \/ Chunk("message") \/ Chunk("thought") \/ ToolCall
        \/ \E terminal \in BOOLEAN : ToolCallUpdate(terminal)
        \/ RequestPermission \/ Answer

\* Calls return, the deadline comes, a killed process ends.  The agent owes
\* nothing.  A session takes finitely many steps, so one condition says this of
\* every goroutine.
Fairness == WF_vars(\/ Caller \/ Finish \/ ContextDone
                    \/ proc = "killed" /\ Wait
                    \/ \E g \in Goroutine : Deliver(g))

Spec == Init /\ [][Next]_vars /\ Fairness

-----------------------------------------------------------------------------
Saying == [do : {"check", "sink", "fail"}, item : Item,
           what : {"started", "delta", "updated", "completed"}, text : Seq(Nat)]
Reply == [messages : Seq([text : Seq(Nat), packets : Nat, open : BOOLEAN]), stream : BOOLEAN,
          nextIndex : Nat, closed : BOOLEAN, finalItems : SUBSET Item, text : Seq(Nat),
          finished : BOOLEAN]

\* Every variable of the session has its type.
TypeOK ==
  /\ pc \in {"starting", "ready", "prompt", "completing", "returned", "closing", "closed"}
  /\ result \in {"none", "completed", "error"} /\ finish \in {"waiting", "ok", "error"}
  /\ ctx \in BOOLEAN /\ err \in BOOLEAN /\ stray \in BOOLEAN /\ refused \in BOOLEAN
  /\ proc \in {"running", "killed", "ended"} /\ turn \in {"none", "set", "cleared"}
  /\ started \subseteq Item /\ completed \subseteq Item /\ tools \subseteq Item
  /\ leftover \subseteq Item /\ text \in Seq(Nat) /\ todo \in [Goroutine -> Seq(Saying)]
  /\ answer \in {"none", "end", "cancelled", "error", "lost"} /\ updates \in 0..MaxUpdates
  /\ sink \in Sinks /\ told \in [Item -> {"nothing", "open", "closed", "wrong"}]
  /\ reply \in Reply

\* The sink hears of an item in order: one start, what it adds, one completion,
\* nothing more, though the reader and Turn announce it from two goroutines
\* (docs/AGENT_RUN_STREAM_DESIGN.md:222).  The agent must keep its own order,
\* and the prompt be answered.
ItemsToldInOrder ==
  (~stray /\ answer # "lost") => \A i \in Item : told[i] # "wrong"

\* When an answered turn has returned, no item and no permission is open, with
\* whatever verdict, unless the sink itself failed.
AnsweredTurnCompletesItems ==
  (turn = "cleared" /\ answer # "lost" /\ ~stray /\ ~refused)
    => \A i \in Item : told[i] # "open"

\* The recipient gets one message at most, and never anything but the beginning
\* of what the agent said, whatever appends are lost or of unknown outcome.  The
\* agent must not write on after its answer: a chunk still in deliverEvent when
\* Finish fails comes after the final text that Finish sent.
OneReplyInOrder ==
  ~stray => /\ Len(reply.messages) <= 1
            /\ \A m \in 1..Len(reply.messages) : IsPrefix(reply.messages[m].text, text)

\* When a completed run's reply was finished without error, the recipient has
\* the final text, all of it, in one message, and the message is closed: the
\* deltas never disagree with TurnResult.FinalText.  (For the agent see above.)
ReplyIsFinalText ==
  (finish = "ok" /\ result = "completed" /\ ~stray)
    => Len(reply.messages) = 1 /\ reply.messages[1].text = text /\ ~reply.messages[1].open

\* The session comes to its end, and its process with it, whatever the agent does.
SessionEnds == <>(pc = "closed")

\* "Before run.finished every stored item and permission must be ended"
\* (docs/AGENT_RUN_STREAM_DESIGN.md:223), for every turn that has returned.
ReturnedTurnCompletesItems ==
  (turn = "cleared" /\ ~stray) => \A i \in Item : told[i] # "open"
=============================================================================
