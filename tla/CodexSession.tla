---------------------------- MODULE CodexSession -----------------------------
(***************************************************************************)
(* internal/agent/provider/codex/codex.go: one session of the Codex        *)
(* adapter, from the start of its app-server process to the end of Close,  *)
(* with the one turn the run manager asks of it.  Three goroutines work on *)
(* it under s.mu:                                                          *)
(*                                                                         *)
(*   caller  Adapter.Start, then Turn, then Close, for the run manager     *)
(*   reader  session.read: handles one line of the app-server at a time    *)
(*   waiter  session.wait: the exit of the process                         *)
(*                                                                         *)
(* A goroutine inside a handler has the rest of it in todo[g], a sequence  *)
(* of operations [do, item, what], each a critical section of s.mu, a call *)
(* of the event sink, or one half of finishTurn's `select` and `close`.    *)
(*                                                                         *)
(* pc is where the caller stands:                                          *)
(*   sending     about to send `request`   completing  completeCodexItems  *)
(*   awaiting    in request's select       canceling   Turn, line 325      *)
(*   ready       Start returned            returned    Turn returned       *)
(*   selecting   Turn, line 309            closing, closed  Close          *)
(***************************************************************************)
EXTENDS Naturals, Sequences, FiniteSets

CONSTANTS Item,       \* item IDs the app-server uses
          Kind,       \* of each item
          MaxLines,   \* bound: lines of items and permissions in the turn
          NoItem

ASSUME SessionAssumption ==
  /\ Kind \in [Item -> {"message", "reasoning", "tool"}]
  /\ MaxLines \in Nat
  /\ NoItem \notin Item

VARIABLES
  pc,         \* see above
  request,    \* "initialize", "thread" or "turn"
  reply,      \* of the request: "none", "waiting" (in s.pending), "ok", "error"
  ctx,        \* the caller's context is done
  proc,       \* the app-server: "running", "killed", "exited"
  pipe,       \* its output: "open", "shut" by Wait, or "ended" as the reader saw
  waiter,     \* session.wait: "waiting", "answering", "finishing", "done"
  todo,       \* see above
  once,       \* s.close: "open", "busy", "done"
  closed,     \* s.closed
  turn,       \* s.turn: "none", "set", "cleared"
  started, completed, streamed,  \* startedItems, completedItems, itemHasDelta
  leftover,   \* ids of completeCodexItems still to announce
  final,      \* turn.final is not blank
  err,        \* turn.err is not nil
  done,       \* turn.done is closed
  panicked,   \* turn.done was closed again: the daemon is gone
  told,       \* of each item, by the events given to the sink: see Hear
  result,     \* of Turn: "none", "completed", "error", "canceled"
  asked,      \* the app-server was sent the turn
  lines,      \* of those, handled
  order       \* "open"; "ended" by a line; "stray" once the app-server wrote of
              \* items after that line, or of an item it had completed

process == <<proc, pipe, waiter>>
session == <<once, closed, turn>>
items == <<started, completed, streamed>>
verdict == <<final, err, done, panicked>>
heard == told
caller == <<pc, request, reply, ctx, result, leftover>>
input == <<asked, lines, order>>
vars == <<caller, process, todo, session, items, verdict, heard, input>>

Goroutine == {"caller", "reader", "waiter"}

Op(do, item, what) == [do |-> do, item |-> item, what |-> what]
Deliver(what, i) == Op("deliver", i, what)
Finish(outcome) == Op("finish", NoItem, outcome)
CloseProcess == Op("closeProcess", NoItem, "none")

Init == /\ pc = "sending" /\ request = "initialize" /\ reply = "none" /\ ctx = FALSE
        /\ proc = "running" /\ pipe = "open" /\ waiter = "waiting"
        /\ todo = [g \in Goroutine |-> <<>>]
        /\ once = "open" /\ closed = FALSE /\ turn = "none"
        /\ started = {} /\ completed = {} /\ streamed = {} /\ leftover = {}
        /\ final = FALSE /\ err = FALSE /\ done = FALSE /\ panicked = FALSE
        /\ told = [i \in Item |-> "nothing"]  /\ result = "none"
        /\ asked = FALSE /\ lines = 0 /\ order = "open"

\* A panic ends the process and every goroutine with it.
Idle(g) == ~panicked /\ todo[g] = <<>>
Busy(g) == ~panicked /\ todo[g] # <<>>
At(g, do) == Head(todo[g]).do = do
Here(g) == Head(todo[g]).item
Become(g, ops) == todo' = [todo EXCEPT ![g] = ops \o Tail(@)]
Start(g, ops) == todo' = [todo EXCEPT ![g] = ops]

-----------------------------------------------------------------------------
\* Operations any goroutine may have to do.

\* startCodexItem, ensureReasoningStarted: the mark is set before the event is
\* delivered.  Only the reader starts items, so looking and marking are one step.
StartItem(g) ==
  /\ At(g, "start")
  /\ \/ /\ turn = "set" /\ Here(g) \notin started
        /\ started' = started \cup {Here(g)}
        /\ Become(g, <<Deliver("started", Here(g))>>)
     \/ (turn # "set" \/ Here(g) \in started) /\ Become(g, <<>>) /\ UNCHANGED started
  /\ UNCHANGED <<caller, process, session, completed, streamed, verdict, heard, input>>

\* deliverEvent looks at the turn under s.mu and calls the sink without it.
CheckTurn(g) ==
  /\ At(g, "deliver")
  /\ Become(g, IF turn = "set" /\ ~err THEN <<[Head(todo[g]) EXCEPT !.do = "sink"]>> ELSE <<>>)
  /\ UNCHANGED <<caller, process, session, items, verdict, heard, input>>

\* An item is started, then receives deltas and updates, then is completed.
Hear(past, what) ==
  CASE past = "nothing" /\ what = "started" -> "open"
    [] past = "open" /\ what \in {"delta", "updated"} -> "open"
    [] past = "open" /\ what = "completed" -> "closed"
    [] past \in {"open", "closed"} /\ what = "started" -> "twice"
    [] past = "closed" /\ what = "completed" -> "twice"
    [] past = "twice" -> "twice"
    [] OTHER -> "disordered"

Returned == pc \in {"returned", "closing", "closed"}

\* The sink appends to the run stream, or fails, and then the error is set under
\* s.mu, whose lock is the next thing anyone sees of the failure, and the session
\* is ended.
CallSink(g) ==
  /\ At(g, "sink")
  /\ \/ /\ told' = [i \in Item |-> IF i = Here(g) THEN Hear(told[i], Head(todo[g]).what)
                                    ELSE told[i]]
        /\ Become(g, <<>>) /\ UNCHANGED err
     \/ /\ err' = (err \/ turn = "set")
        /\ Become(g, <<CloseProcess>>) /\ UNCHANGED heard
  /\ UNCHANGED <<caller, process, session, items, final, done, panicked, input>>

\* markItemDelta, once a delta was delivered (or dropped).
MarkDelta(g) ==
  /\ At(g, "mark")
  /\ streamed' = IF turn = "set" THEN streamed \cup {Here(g)} ELSE streamed
  /\ Become(g, <<>>)
  /\ UNCHANGED <<caller, process, session, started, completed, verdict, heard, input>>

\* An item that completes without a delta has its whole text, if there is any,
\* delivered as one.
DeliverText(g) ==
  /\ At(g, "text")
  /\ \/ Become(g, <<>>)
     \/ (turn # "set" \/ Here(g) \notin streamed) /\ Become(g, <<Deliver("delta", Here(g))>>)
  /\ UNCHANGED <<caller, process, session, items, verdict, heard, input>>

\* Mutant: completedItems is not consulted.
CompleteItemAgain(g) ==
  /\ At(g, "complete")
  /\ completed' = completed \cup {Here(g)}
  /\ Become(g, IF turn = "set" THEN <<Deliver("completed", Here(g))>> ELSE <<>>)
  /\ UNCHANGED <<caller, process, session, started, streamed, verdict, heard, input>>

CompleteItem(g) ==
  /\ At(g, "complete")
  /\ \/ /\ turn = "set" /\ Here(g) \notin completed
        /\ completed' = completed \cup {Here(g)}
        /\ Become(g, <<Deliver("completed", Here(g))>>)
     \/ (turn # "set" \/ Here(g) \in completed) /\ Become(g, <<>>) /\ UNCHANGED completed
  /\ UNCHANGED <<caller, process, session, started, streamed, verdict, heard, input>>

\* The text of a final answer may be blank.
FinalAnswer(g) ==
  /\ At(g, "final")
  /\ final' \in BOOLEAN
  /\ Become(g, <<>>)
  /\ UNCHANGED <<caller, process, session, items, err, done, panicked, heard, input>>

\* finishTurn up to its select: turn.done is looked at, not yet closed.
FinishTurn(g) ==
  /\ At(g, "finish")
  /\ err' = (err \/ (turn = "set" /\ Head(todo[g]).what = "failed"))
  /\ Become(g, IF done THEN <<>> ELSE <<Op("close", NoItem, "none")>>)
  /\ UNCHANGED <<caller, process, session, items, final, done, panicked, heard, input>>

\* close(turn.done): a second close panics.
CloseDone(g) ==
  /\ At(g, "close")
  /\ done' = TRUE
  /\ panicked' = done
  /\ Become(g, <<>>)
  /\ UNCHANGED <<caller, process, session, items, final, err, heard, input>>

\* closeProcess: s.close.Do lets the first caller through, which marks the
\* session closed under s.mu, and the others wait.
EnterClose(g) ==
  /\ At(g, "closeProcess")
  /\ \/ /\ once = "open" /\ once' = "busy" /\ closed' = TRUE
        /\ Become(g, (IF turn = "set" THEN <<Finish("failed")>> ELSE <<>>)
                     \o <<Op("kill", NoItem, "none")>>)
     \/ once = "done" /\ UNCHANGED <<once, closed>> /\ Become(g, <<>>)
  /\ UNCHANGED <<caller, process, turn, items, verdict, heard, input>>

\* Mutant: only standard input is closed.
KillNothing(g) ==
  /\ At(g, "kill")
  /\ once' = "done"
  /\ Become(g, <<>>)
  /\ UNCHANGED <<caller, process, closed, turn, items, verdict, heard, input>>

\* Standard input is closed and the process group killed.
Kill(g) ==
  /\ At(g, "kill")
  /\ proc' = IF proc = "running" THEN "killed" ELSE proc
  /\ once' = "done"
  /\ Become(g, <<>>)
  /\ UNCHANGED <<caller, pipe, waiter, closed, turn, items, verdict, heard, input>>

Operate(g) ==
  /\ Busy(g)
  /\ \/ StartItem(g) \/ CheckTurn(g) \/ CallSink(g) \/ MarkDelta(g)
     \/ DeliverText(g) \/ CompleteItem(g) \/ FinalAnswer(g) \/ FinishTurn(g)
     \/ CloseDone(g) \/ EnterClose(g) \/ Kill(g)

-----------------------------------------------------------------------------
\* The reader.  The app-server may write anything that Codex's protocol lets it
\* write; lines that change nothing are left out.

Reads == pipe = "open" /\ Idle("reader")

\* A line of item i is handled for the turn that is under way.
Handle(i, ops) ==
  /\ Reads /\ turn = "set" /\ asked
  /\ lines < MaxLines /\ lines' = lines + 1
  /\ order' = IF order = "open" /\ i \notin completed THEN "open" ELSE "stray"
  /\ Start("reader", ops)
  /\ UNCHANGED <<caller, process, session, items, verdict, heard, asked>>

\* The reply to a request still in s.pending.
ReadReply ==
  /\ Reads /\ reply = "waiting"
  /\ reply' \in {"ok", "error"}
  /\ UNCHANGED <<pc, request, ctx, result, leftover, process, todo, session, items,
                 verdict, heard, input>>

\* item/started; reasoning items start with their first delta.
ReadStarted(i) ==
  /\ Kind[i] # "reasoning"
  /\ Handle(i, <<Op("start", i, "none")>>)

\* item/agentMessage/delta, which changes nothing unless an earlier line of the
\* message, the one that started it, told its phase; and
\* item/reasoning/summaryTextDelta, which starts the item.
ReadDelta(i) ==
  /\ Kind[i] # "tool"
  /\ Kind[i] = "message" => i \in started
  /\ Handle(i, (IF Kind[i] = "reasoning" THEN <<Op("start", i, "none")>> ELSE <<>>)
              \o <<Deliver("delta", i), Op("mark", i, "none")>>)

ReadCompleted(i) ==
  \E answer \in BOOLEAN :
    /\ answer => Kind[i] = "message"
    /\ Handle(i, <<Op("start", i, "none")>>
                \o <<IF Kind[i] = "tool" THEN Deliver("updated", i) ELSE Op("text", i, "none")>>
                \o <<Op("complete", i, "none")>>
                \o IF answer THEN <<Op("final", i, "none")>> ELSE <<>>)

\* item/permissions/requestApproval: announced, granted, announced as granted.
ReadPermission == 
  Handle(NoItem, <<Deliver("requested", NoItem), Deliver("resolved", NoItem)>>)

\* turn/completed, an error that is not retried, or the thread's idle status,
\* which the app-server may write without having been asked.
ReadTurnEnd ==
  /\ Reads /\ turn = "set"
  /\ order' = IF order = "open" THEN "ended" ELSE order
  /\ \E outcome \in {"ok", "failed"} : Start("reader", <<Finish(outcome)>>)
  /\ UNCHANGED <<caller, process, session, items, verdict, heard, asked, lines>>

\* End of file, or an error of the scanner (a line of more than 1 MiB, a pipe
\* closed by Wait), which closes the session.
ReadEnd ==
  /\ pipe \in {"open", "shut"} /\ Idle("reader")
  /\ \/ pipe = "open" /\ UNCHANGED todo
     \/ Start("reader", <<CloseProcess>>)
  /\ pipe' = "ended"
  /\ UNCHANGED <<caller, proc, waiter, session, items, verdict, heard, input>>

Read == \/ ReadReply \/ ReadPermission \/ ReadTurnEnd
        \/ \E i \in Item : ReadStarted(i) \/ ReadDelta(i) \/ ReadCompleted(i)

-----------------------------------------------------------------------------
\* The process and its waiter.

ProcessExits ==
  /\ proc # "exited"
  /\ proc' = "exited"
  /\ UNCHANGED <<caller, pipe, waiter, todo, session, items, verdict, heard, input>>

\* command.Wait returns and closes the pipe, unread lines included; the run
\* directory is removed.
WaitReturns ==
  /\ waiter = "waiting" /\ proc = "exited"
  /\ waiter' = "answering"
  /\ pipe' = IF pipe = "open" THEN "shut" ELSE pipe
  /\ UNCHANGED <<caller, proc, todo, session, items, verdict, heard, input>>

\* Every pending request is answered, under s.mu.
AnswerPending ==
  /\ waiter = "answering"
  /\ waiter' = "finishing"
  /\ reply' = IF reply = "waiting" THEN "error" ELSE reply
  /\ Start("waiter", IF turn = "set" THEN <<Finish("failed")>> ELSE <<>>)
  /\ UNCHANGED <<pc, request, ctx, result, leftover, proc, pipe, session, items,
                 verdict, heard, input>>

\* close(s.done)
WaiterDone ==
  /\ waiter = "finishing"
  /\ waiter' = "done"
  /\ UNCHANGED <<caller, proc, pipe, todo, session, items, verdict, heard, input>>

Wait == Idle("waiter") /\ (WaitReturns \/ AnswerPending \/ WaiterDone)
-----------------------------------------------------------------------------
\* The caller: the run manager starts the session, has one turn and closes it.

\* request() adds itself to s.pending and writes.
SendRequest ==
  /\ pc = "sending" /\ ~closed /\ proc # "exited"
  /\ reply' = "waiting" /\ pc' = "awaiting"
  /\ asked' = (request = "turn")
  /\ UNCHANGED <<request, ctx, result, leftover, process, todo, session, items, verdict,
                 heard, lines, order>>

\* An error of request() ends Start, or finishes the turn.
RequestFails ==
  /\ reply' = "none"
  /\ IF request = "turn"
     THEN pc' = "selecting" /\ Start("caller", <<Finish("failed")>>)
     ELSE pc' = "closing" /\ Start("caller", <<CloseProcess>>)
  /\ UNCHANGED <<request, ctx, result, leftover, process, session, items, verdict,
                 heard, input>>

\* The session is closed already, or the write fails.
SendFails ==
  /\ pc = "sending"
  /\ closed \/ proc # "running"
  /\ RequestFails

\* An error, the context (that of Start has a timeout of its own), or s.done.
RequestGivenUp ==
  /\ pc = "awaiting"
  /\ reply = "error" \/ ctx \/ request # "turn" \/ waiter = "done"
  /\ RequestFails

Answered ==
  /\ pc = "awaiting" /\ reply = "ok"
  /\ reply' = "none"
  /\ \/ request = "initialize" /\ request' = "thread" /\ pc' = "sending"
     \/ request = "thread" /\ pc' = "ready" /\ UNCHANGED request
     \/ request = "turn" /\ pc' = "selecting" /\ UNCHANGED request
  /\ UNCHANGED <<ctx, result, leftover, process, todo, session, items, verdict, heard, input>>

BeginTurn ==
  /\ pc = "ready" /\ ~ctx /\ ~closed
  /\ turn' = "set" /\ request' = "turn" /\ pc' = "sending"
  /\ UNCHANGED <<reply, ctx, result, leftover, process, todo, once, closed, items,
                 verdict, heard, input>>

TurnRefused ==
  /\ pc = "ready" /\ (ctx \/ closed)
  /\ result' = "error" /\ pc' = "returned"
  /\ UNCHANGED <<request, reply, ctx, leftover, process, todo, session, items, verdict,
                 heard, input>>

\* Mutant: completeCodexItems is not called.
TurnDoneKeepsItems ==
  /\ pc = "selecting" /\ done
  /\ pc' = "completing"
  /\ UNCHANGED <<request, reply, ctx, result, leftover, process, todo, session, items,
                 verdict, heard, input>>

\* turn.done: completeCodexItems marks what is still open.
TurnDone ==
  /\ pc = "selecting" /\ done
  /\ pc' = "completing"
  /\ leftover' = started \ completed
  /\ completed' = completed \cup started
  /\ UNCHANGED <<request, reply, ctx, result, process, todo, session, started, streamed,
                 verdict, heard, input>>

\* ... and announces it, in the order of a map.
CompleteLeftover ==
  /\ pc = "completing"
  /\ \E i \in leftover :
       /\ leftover' = leftover \ {i}
       /\ Start("caller", <<Deliver("completed", i)>>)
  /\ UNCHANGED <<pc, request, reply, ctx, result, process, session, items, verdict,
                 heard, input>>

\* A turn without an error or a final answer is an error as well.
TurnReturns ==
  /\ pc = "completing" /\ leftover = {}
  /\ turn' = "cleared"
  /\ result' = IF final /\ ~err THEN "completed" ELSE "error"
  /\ pc' = "returned"
  /\ UNCHANGED <<request, reply, ctx, leftover, process, todo, once, closed, items,
                 verdict, heard, input>>

\* ctx.Done: Cancel, and s.turn stays as it is.
TurnCanceled ==
  /\ pc = "selecting" /\ ctx
  /\ pc' = "canceling"
  /\ Start("caller", <<CloseProcess>>)
  /\ UNCHANGED <<request, reply, ctx, result, leftover, process, session, items, verdict,
                 heard, input>>

CanceledTurnReturns ==
  /\ pc = "canceling"
  /\ result' = "canceled" /\ pc' = "returned"
  /\ UNCHANGED <<request, reply, ctx, leftover, process, todo, session, items, verdict,
                 heard, input>>

Close ==
  /\ pc = "returned"
  /\ pc' = "closing"
  /\ Start("caller", <<CloseProcess>>)
  /\ UNCHANGED <<request, reply, ctx, result, leftover, process, session, items, verdict,
                 heard, input>>

\* Close waits for s.done.
CloseReturns ==
  /\ pc = "closing" /\ waiter = "done"
  /\ pc' = "closed"
  /\ UNCHANGED <<request, reply, ctx, result, leftover, process, todo, session, items,
                 verdict, heard, input>>

\* Manager.Cancel, its Shutdown, or the deadline of the turn; nothing reads the
\* context once Turn has returned.
ContextDone ==
  /\ ~ctx /\ ~Returned /\ ctx' = TRUE
  /\ UNCHANGED <<pc, request, reply, result, leftover, process, todo, session, items,
                 verdict, heard, input>>

Call ==
  /\ Idle("caller")
  /\ \/ SendRequest \/ SendFails \/ RequestGivenUp \/ Answered \/ BeginTurn
     \/ TurnRefused \/ TurnDone \/ CompleteLeftover \/ TurnReturns \/ TurnCanceled
     \/ CanceledTurnReturns \/ Close \/ CloseReturns

-----------------------------------------------------------------------------
Next == \/ \E g \in Goroutine : Operate(g)
        \/ Call \/ Read \/ ReadEnd \/ Wait \/ ProcessExits \/ ContextDone

\* Goroutines run on, the sink returns, the reader notices the end of its pipe,
\* a killed process exits, and the run's context ends (runCtx has a deadline,
\* manager.go:294).  The app-server need not answer or end a turn.  Only the
\* reader can work for ever, so that one condition does for all the others.
Fairness ==
  /\ WF_vars(Operate("reader") \/ (proc # "running" /\ ReadEnd))
  /\ WF_vars(\/ Operate("caller") \/ Call
             \/ Operate("waiter") \/ Wait
             \/ proc = "killed" /\ ProcessExits
             \/ ContextDone)

Spec == Init /\ [][Next]_vars /\ Fairness

-----------------------------------------------------------------------------
What == {"started", "delta", "updated", "completed", "requested", "resolved"}
Operation ==
  [do : {"start", "deliver", "sink", "mark", "text", "complete", "final",
         "finish", "close", "closeProcess", "kill"},
   item : Item \cup {NoItem}, what : What \cup {"none", "ok", "failed"}]

\* Every variable of the session has its type; a pending request has a caller
\* that waits for it, and what completeCodexItems announces is marked.
TypeOK ==
  /\ pc \in {"sending", "awaiting", "ready", "selecting", "completing", "canceling",
             "returned", "closing", "closed"}
  /\ request \in {"initialize", "thread", "turn"}
  /\ reply \in {"none", "waiting", "ok", "error"}
  /\ ctx \in BOOLEAN /\ final \in BOOLEAN /\ err \in BOOLEAN /\ done \in BOOLEAN
  /\ panicked \in BOOLEAN /\ asked \in BOOLEAN /\ closed \in BOOLEAN
  /\ proc \in {"running", "killed", "exited"} /\ pipe \in {"open", "shut", "ended"}
  /\ waiter \in {"waiting", "answering", "finishing", "done"}
  /\ todo \in [Goroutine -> Seq(Operation)]
  /\ once \in {"open", "busy", "done"} /\ turn \in {"none", "set", "cleared"}
  /\ started \subseteq Item /\ completed \subseteq Item /\ streamed \subseteq Item
  /\ leftover \subseteq completed
  /\ reply # "none" => pc = "awaiting"
  /\ told \in [Item -> {"nothing", "open", "closed", "twice", "disordered"}]
  /\ lines \in 0..MaxLines
  /\ result \in {"none", "completed", "error", "canceled"}
  /\ order \in {"open", "ended", "stray"}

\* AGENT_RUN_STREAM_DESIGN.md:222: an item is started at most once and completed
\* at most once, though the reader and the caller's completeCodexItems both
\* announce completions; and nothing is told of it before or after, unless the
\* app-server itself writes of items after it completed them or ended the turn.
ItemsToldInOrder ==
  \A i \in Item : told[i] # "twice" /\ (told[i] = "disordered" => order = "stray")

\* AGENT_RUN_STREAM_DESIGN.md:223: when Turn reports success, every item that
\* the sink was told of is completed (the app-server writes no item line after
\* the line that ends the turn).
SuccessCompletesItems ==
  result = "completed" /\ order # "stray" =>
    \A i \in Item : told[i] # "open"

\* A started session is closed in the end, its process gone, its directory
\* removed and no goroutine stuck, whatever the app-server does until the run's
\* context ends: Close (329 in manager.go) waits without a limit.
SessionEnds == <>(pc = "closed" \/ panicked)

\* finishTurn (913-917) closes turn.done unless it is closed, for five callers
\* in three goroutines; TestAdapterCancellationReapsBlockedServer
\* (codex_test.go:101-108) has Turn return an error once it is cancelled.
TurnDoneClosedOnce == ~panicked

\* AGENT_RUN_STREAM_DESIGN.md:223 "before run.finished every stored item must be
\* ended": a turn that ended, well or not, leaves no announced item open.
EndedTurnCompletesItems ==
  pc = "returned" /\ result = "error" /\ order # "stray" =>
    \A i \in Item : told[i] # "open"
=============================================================================
