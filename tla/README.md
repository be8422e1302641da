# Verification of abd-im-cli

`abdim` is a daemon that owns two IM SDK logins of one profile (the *user* and
the *bot*), turns the bot's callbacks into turns of a local coding agent
(Codex, or any ACP agent), and streams the agent's answer back into the
conversation.  This directory holds TLA+ modules of the concurrent parts of
that program, the TLC configurations that check them, and TLAPS proofs.

Paths are relative to the repository; line numbers are those of the commit
modelled.

## 1. The system

    IM service <-> bot SDK --callback--> Inbound --Submit--> run Manager --Start, Turn--> Codex session
                     ^                  |   ^  \                 |  ^                        |      |
                     |      RecordCallback  |   \ finisher <--Done--'  '---- RunEventSink <---'   app-server
                     |                  v   |    \                                |               (process)
                     '---- run stream, reply stream <-----------------------------'
                                     event ledger, session references (control.db)

    abdim start / stop / restart --> lock file, socket --> Runtime: lock, user login, bot login, server

| component | source | state | operations | what is hard about it |
|---|---|---|---|---|
| run manager | `internal/agent/run/manager.go` | job table, a queue and at most one worker per conversation, slot channel, per job: mark, context, result | `Submit`, `Cancel`, `Shutdown`; `runConversation`, `execute`, `acquireSlot`, `complete`, `remove` | a goroutine per busy conversation, cancellation, deadline and shutdown at any point of a turn; the result is delivered before the session is closed and the slot released |
| event ledger | `internal/events/ledger.go`, `internal/control/store.go` | `events` table (SQLite), watchers | `RecordCallback`, `List`, `Watch` | callbacks delivered again, slow watchers, a crash between any two statements, a second writing process |
| inbound path | `internal/daemon/inbound.go` | `stopped`, `runsByEvent`, the WaitGroup of finishers | `Listener`, `Process`, `finish`, `CancelEvent`, `Shutdown` | an uncounted goroutine per callback; shutdown between any two of its steps |
| workspace run stream | `internal/bridge/abdim/agent_run_writer.go` | writer state, next index, bytes used | `Queued`, `Started`, `Append`, `Finish` | an append that failed may have been stored; a size limit with a reserve |
| Codex provider | `internal/agent/provider/codex/codex.go` | pending requests, the turn with its items and verdict, the process | `Start`, `Turn`, `Cancel`, `Close`; the reader and the waiter | three goroutines end the same turn; a sink that fails from inside the reader |
| reply text stream | `internal/daemon/inbound.go` (`replyTextStream`), `internal/bridge/abdim/text_stream_writer.go` | text sent so far, stream handle, next index | `Event`, `Finish`; `StartTextStream`, `Append`, `Finish` | streamed deltas and final text must agree, though a call that failed may have been stored |
| daemon runtime | `internal/daemon/runtime.go` | lock, logins, server | `Start`, `Serve`, `Wait`, `Shutdown` | ordered start with undo, ordered stop |
| SDK logins | `internal/bridge/loginmgr.go`, `internal/bridge/abdim/adapter.go` | login state, listener | `Start`, `Shutdown`, `handleEvent` | callbacks while starting or stopping |
| local RPC | `internal/ipc/socket.go`, `frame.go` | listener, socket file, open connections | `Listen`, `Serve`, `Close`, `Call` | open connections keep `Serve` from returning; the socket file of somebody else |
| profile lock, daemon processes | `internal/profile/lock_unix.go`, `cmd/abdim/lifecycle.go`, `main.go` | flock, socket path, child process | `startDaemon`, `stopDaemon`, restart, `runDaemonServe` | two processes of one profile at once, signals in any step, polls with deadlines |
| ACP provider | `internal/agent/provider/acp/acp.go` | the turn with its items, the process | `Start`, `Turn`, `Cancel`, `Close`; `SessionUpdate`, `RequestPermission` | updates of unknown or finished tool calls, in goroutines of the SDK, while `Turn` ends |
| profiles, setup | `internal/profile/*.go`, `cmd/abdim/setup.go` | two credentials, the profile | setup, load | several writes, any of which fails, while another command starts a daemon |
| IM services | `internal/service/**` | none between calls | list, search, history | a walk of several calls over a list that changes; cursors held by the client |
| dispatcher, commands | `internal/daemon/dispatcher.go`, `methods.go`, `internal/commands` | none of their own | route, call | - |
| log scrubbing, skills, test kit | `internal/logsafe`, `skills`, `internal/testkit` | none | — | — |

What makes each of the modelled components correct:

* **run manager** - turns of one conversation are serial and in order of
  acceptance, provider sessions are bounded over all conversations, every
  accepted run gets one result, a withdrawn run does not complete, a session
  reference is never resumed after it was replaced, and Shutdown leaves nothing.
* **event ledger** - one callback is new once, the sequences of a profile have
  no gap, what is returned is stored, and no consumer holds up a callback.
* **inbound path** - one run per event, every accepted run is finished towards
  its sender, a stream that was shown ends, also when the run was turned away, and
  the SDK is stopped only when no run will use it any more.
* **run stream** - the stored packets read queued, started, content, finished,
  within the size limit, whatever an append's outcome was.
* **Codex and ACP provider** - the sink hears each item in order and once, a turn
  leaves no item open, and `Close` returns whatever the agent does.
* **reply text stream** - the recipient gets one message, never anything but the
  beginning of what the agent said, and all of it when the reply was finished
  without error.
* **runtime, logins, lock, RPC, commands** - no SDK context without the lock,
  requests are served by the ready owner of the profile and nobody else, the
  socket file leads to it; daemons that are told to stop end, starts that fail
  leave nothing behind, and commands return.
* **IM services** - a walk through pages gives the list, once and in order, and
  nothing of another list.

## 2. Modules

| module | models | checked by |
|---|---|---|
| `TurnLines` | the abstract promise of the run manager: a line per conversation | (refined by `RunManager`, used by `Inbound`) |
| `RunManager` | `manager.go` | `RunManagerLine`, `RunManagerSlots` |
| `EventLedger` | `ledger.go` over the `events` table | `EventLedger` |
| `AgentRunStream` | `agent_run_writer.go` against the IM service | `AgentRunStream` |
| `Inbound` | `inbound.go` and the order of `Runtime.Shutdown`, over `TurnLines` | `InboundFaults`, `InboundLive` |
| `CodexSession` | `codex.go`: reader, waiter and caller of one session | `CodexSession`, `CodexPanic` |
| `ReplyText` | `replyTextStream` over `text_stream_writer.go`, as operators on its state | (used by `AcpSession`) |
| `AcpSession` | `acp.go`: one session, its sink, and the finisher of a reply | `AcpReply` |
| `DaemonLifecycle` | daemon processes, their logins, lock, socket and files, and the commands | `DaemonLifecycle` |
| `Paging` | the paged reads of `internal/service` and a client that walks them | `Paging`, `PagingCursor` |

`MC*` modules hold the instances; `*Proofs` modules the theorems.  A definition
named after a Go function translates that function.  Definitions marked
*Mutant* are deliberate bugs: each takes the place of the definition that
follows it to show that a property can fail.

How the modules meet: `RunManager` implements `TurnLines`, and `Inbound` runs
over `TurnLines`; `AcpSession` calls `ReplyText` or a sink with the contract of
`AgentRunStream` (an append may fail and none is taken once the run's context is
done), and `CodexSession` the latter; `RunManager` uses of a provider that
`Turn` and `Close` return, which is `SessionEnds` of the two providers;
`DaemonLifecycle` uses of `Inbound` that its `Shutdown` returns.

### RunManager

A step is a critical section of `m.mu` or `item.mu`, a channel operation, or a
call that leaves the process.  `pc[r]` is the position of the goroutine that
serves run `r` (the table is in the module); `loops[c]` counts goroutines at the
top of `runConversation`'s loop, so that a second worker of a conversation would
show.  `jobs` is `m.jobs`, `pending` and `running` are the conversation's
fields, `holders` the messages in `m.slots`, `live` the open provider sessions.
`cancelling` holds runs that are marked while `item.cancel()` is still to have
its effect: mark and cancellation are two steps, also in Shutdown's loop over
its snapshot.  `expired` is the turn's own deadline.  `startRef`, `turn` and
`stored` follow the session reference from `LoadSessionRef` to `SaveSessionRef`.
`Complete` is `complete()`: the result is sent once and the context cancelled.
The optional `Observer` appears as the outcomes of its calls.

### EventLedger

`pc[c]` is the statement of `RecordCallback` that comes next: lock, lookup,
`MAX(sequence) + 1`, insert, second lookup after a conflict, broadcast.  Every
ledger has its own mutex and all share the table, because the comment on
`Ledger` (line 53) gives the two UNIQUE constraints as the guard for the case
that two processes write.  Every statement may fail and a process may crash
between any two.  A watcher is its channel (`output`, of capacity `Buffer`), the
cursor its consumer retains, and what that consumer has `seen`.

### AgentRunStream

All four methods go through `appendLocked`, which sends one request at a time.
`net` holds requests that may still arrive: a call can fail while its request is
stored now, later or never, and the service stores a request only at the next
free index.  `caller` is how far the users of the stream are, so that the
methods are called in the orders `Process`, the run manager, the provider and
the finisher call them, a content event after the run concluded included.

### Inbound

`pc[c]` is the step of callback `c`'s goroutine.  The components it stands on
appear by their promises: the run manager as `TurnLines` (instantiated, with the
same actions that `RunManager` is shown to implement), the ledger as a set of
events each reported new once, a stream as its last lifecycle packet at the
writer and at the service.  `daemon` follows `Runtime.Shutdown`: the gate is
closed (`gated`), the runs are stopped (`draining`), the finishers waited for
(`waiting`), the SDK stopped (`offline`), the process gone (`exited`).  A crash
may come at any step, and `control.db` is all the next process knows.
`Submit` has two outcomes.  `Enter`: the run is accepted, indexed, and gets a
finisher, which the WaitGroup counts.  `TurnAway`: the queue is full, there is no
entry and no finisher, the stream is ended by the goroutine of the callback
(`Abort`), which nobody counts, and the sender of a text is told nothing.

### CodexSession

Three goroutines share `s.mu`: the caller (`Start`, `Turn`, `Close`), the
reader and the waiter.  Each has a list `todo[g]` of what is left of the handler
it is in; one step does one of them: a critical section, a call of the sink, or
one half of `finishTurn`'s select-and-close.  `deliverEvent` is therefore two
steps, the look at the turn and the call of the sink, with everything in between
possible; so is the marking and the announcing of an item.  What the sink heard
of an item is kept as the state an item's events must follow (`Hear`).  The
app-server may write any line at any time: item lines once it was asked for a
turn, an end of the turn even without.  `order` notes whether it kept to its own
protocol (no item lines after the end of the turn or of the item).

### AcpSession and ReplyText

The same shape: `todo[g]` holds the events goroutine `g` has still to deliver,
and `deliverEvent` is three steps, the look at the turn, the sink, and the
turn's error when the sink failed.  The reader is the SDK's one goroutine for
notifications, the asker its goroutine for a permission request.  `SessionUpdate`
changes the turn in one critical section and delivers afterwards.  `sink` says
where the events go: to the run stream, which may refuse any of them, or to
`Event` of `ReplyText`, whose operators give every outcome of a call as a pair of
the new state and whether it returned nil: a packet may be stored although the
call failed.  `Finish` of the reply runs when the result is there, which is also
while the session is being closed.  `stray` notes an agent that breaks its own
protocol (updates of tool calls it has not begun or has ended, anything after
its answer); the code takes these as they come, and the properties that need an
orderly agent say so.

### DaemonLifecycle

`pc[d]` is the next step of process `d` from reading its files to its end, and
`stage[c]` that of command `c`; a command starts one daemon at most, which bears
its name, and `First` is a daemon of an earlier command.  `lock` is the flock,
`sdk` the SDK contexts allocated, `path` the process whose socket the socket file
is, `listening` the open sockets; the end of a process frees all but the file.
`conn[c]` is the connection of a command's one call under way: dialled
("pending"), accepted, answered with what `daemon.status` said, or reset.
`disk` holds for each of the three files the setup that wrote it, `conf` what a
daemon read; a login succeeds only with a token of the account the profile
names.  `late[c]` is the deadline of `waitCtx`.  `failStart` makes the calls of
`Shutdown` in the same order, so both go on at "stopBot".  SIGTERM kills a
process that has not come to `NotifyContext` and sets the context of one that
has.

### Paging

A method is its cursor's query, the way it reads its list (server pages of
`ShowNumber`, the whole list, the newest `maxServerHistory`) and whether it
filters.  A query is the sequence of what the colons of its string separate, so
that the queries of two methods are the same sequence exactly when they are the
same string: a search adds the parts of its text to its own, and "c:text" is two.
One call is `Ask`, the reading steps, between which the list may
change, and `Answer`.  Between calls there is only the cursor, and the client may
give it to another method.  `first` is the list when the walk began.

## 3. Runs

| run | instance | what it shows |
|---|---|---|
| `RunManagerLine` | 3 runs of one conversation, queue of 2 | `SerialPerConversation`, `NoStrandedRun` (Submit against an exiting worker), `SessionRefCurrent`, `NothingLeftAfterShutdown`, and that the manager implements `TurnLines` (`LinesSpec`) |
| `RunManagerSlots` | 2 conversations, 1 slot | `SessionsBounded`, `MarkedNeverCompletes`, and under fairness `AcceptedRunsConclude` and `ShutdownEnds` |
| `EventLedger` | 2 processes, 4 calls of which two carry one callback, 2 profiles, a consumer with a channel of 1 | `AtMostOneCreated`, `SequencesGapless`, `ResultsStored`, and `RecordReturns` whatever the consumer does |
| `AgentRunStream` | content of sizes 1..3 against a packet limit of 2 and a stream of 6 | `LogShape`, `RoomToFinish`, `FinishedIsStored` |
| `InboundFaults` | 2 deliveries of one callback and another one of the same conversation (text reply), a queue that overflows, failures, a crash and a restart | `OneRunPerEvent`, `OfflineIsQuiet`, `GroupOnlyShrinks` |
| `InboundLive` | 2 runs of a conversation (one may be turned away) and a callback that needs none, no failures | `SubmittedStreamsEnd`, `StreamsEndWhileUp`, `SubmittedAreFinished`, `ShutdownEnds` |
| `CodexSession` | a message and a tool call, 2 item lines, any end of the turn, a server that may stop answering | `ItemsToldInOrder`, `SuccessCompletesItems`, and `SessionEnds`: Close returns |
| `CodexPanic` | a reasoning item | `turn.done` can be closed twice (finding 1) |
| `AcpReply` | 4 notifications, either sink, a reply of 2 pieces | `ItemsToldInOrder`, `AnsweredTurnCompletesItems`, `OneReplyInOrder`, `ReplyIsFinalText`, `SessionEnds` |
| `DaemonLifecycle` | 2 commands at once: start and start, setup and stop, restart and a call; beside them a daemon that serves, has stopped, or never was; a crash | `SdkUnderLock`, `ListenerReachable`, `AcceptedWhenReady`, `TermExits`, `FailedStartEnds`, `CommandsReturn` |
| `Paging` | 9 methods, no two of which make the same query (searches for a text without a colon, one method of each pair of `PagingCursor`), lists of 4, server pages of 2, a window of 5, limits 1 and 2, 2 changes, a failure | `WalkComplete`, `OneQueryPerWalk`, `WalkEnds` |
| `PagingCursor` | the two lists and the two searches that share a query | a page of another list is answered (finding 2) |

**Bounds, and why they are enough.**  Two runs of a line are needed for a worker
to exit while another run is submitted, three for the queue to have an order;
two conversations and one slot for a run to wait for a slot somebody else holds.
Two deliveries of one callback race in the ledger with a third of the same
profile that takes the number in between, and a fourth in another profile.  The
stream's limit is reached by two contents of size two.  Two item lines let one
item be under way when the other one carries the final answer, and the end of a
turn is not counted among them.  Four notifications let a tool call begin, be
updated, end, and be updated again beside a message, and text that does not fit
the reply comes with the third piece.  Two commands with a daemon of an earlier
one beside them make three processes: one that ends, one that starts and one
that loses the race.  A list of four takes two or three server pages, the fifth
item is the one that fills the window and the sixth lets it slide, and item 2 has
no ID, so that what is read and what is kept differ in length.  `MaxContents`,
`MaxLines`, `MaxUpdates`, `MaxRestarts`, `MaxCrashes`, `MaxChanges` and
`MaxFailures` are the artificial bounds; all others are constants of the program
made small.
Symmetry is used in `RunManagerLine` only, where runs are interchangeable and no
liveness is checked.  Runs of systems that come to rest say `CHECK_DEADLOCK
FALSE`: in those models nothing happens after the last callback, crash or
`Close`, the last command, or the end of the walk.  `RunManager` and `AgentRunStream` have an explicit final step instead
(`Quiet`, `Over`), so there TLC also shows the absence of deadlock.

**Fairness.**  Goroutines that can run do run; a call that leaves the process
returns (with an error if need be); timers fire.  In particular: `RunManager`
assumes of a provider only that `Turn` returns once its context is done, because
both adapters end the call then, which is what `SessionEnds` of `CodexSession` and
of `AcpSession` checks; `Inbound` assumes that the manager concludes the
runs it accepted, which `RunManagerSlots` checks; `CodexSession` assumes that a
killed process exits, nothing of a running one.  No fairness is assumed of
callers, of consumers of events, of arriving callbacks, or of the app-server.
`DaemonLifecycle` assumes that `inbound.Shutdown` and the SDK's calls return, the
first being `ShutdownEnds` of `Inbound`, that deadlines come, and that the
commands close their connection after the answer, as `ipc.Call` does.
`AcpSession` assumes nothing of the agent, `Paging` that the client goes on with
its walk.  Where all steps but a few are finite in number (the daemons against
the commands, which poll for ever; all of an ACP session; all but the reader of
a Codex session), weak fairness of each is the same as weak fairness of their
disjunction, and the modules state the latter.  `request.Started` and the
finisher's calls have the limits the code gives them
(`context.Background` with the SDK's timeout; 30 s).

## 4. Findings

Each is a property of its module, stated after a sentence of the repository, and
violated by what the code does.  Two have a run; the others can be seen by
adding the named formula to the cfg in brackets as an INVARIANT.

1. **`finishTurn` can close `turn.done` twice** (`CodexPanic`).  The select and
   the close are not atomic and five callers in three goroutines reach them; the
   second close panics the daemon.
2. **Cursors of different lists are taken for one another** (`PagingCursor`).
   `group.list` and `conversation.list` bind theirs to the query "list", both
   searches to "search:" and the text; `service.go:66` wants a cursor of another
   query refused.
3. **So are those of searches with certain texts** (`OneListPerWalk`,
   [`PagingCursor.cfg`] with `Method <- SearchOfColon`).  `message.search` binds
   its cursor to "search:", conversation, ":" and text, the other two searches to
   "search:" and the text, and nothing keeps the parts apart: with a text that
   begins with a conversation's ID and a colon, the two strings are the same.
4. **Missed notifications are not recoverable** (`MissedIsRecoverable`,
   [`EventLedger.cfg`]).  A watcher whose channel is full misses an event
   (`ledger.go:175-180`), the next batch that fits carries the cursor of a later
   one, and a consumer that retains `NextCursor`, as line 146 tells it to, never
   sees the event in `List`.
5. **A shutdown leaves streams open** (`OpenedStreamsEnd`, [`InboundLive.cfg`]).
   Callback goroutines are not counted: one that passed `isStopped` may open a
   stream while the SDK is being stopped and cannot finish it, and one whose run
   was turned away by a full queue may come too late to end its stream;
   `AGENT_RUN_STREAM_DESIGN.md:221` promises exactly one `run.finished`.
6. **Items of a failed Codex turn stay open** (`EndedTurnCompletesItems`,
   [`CodexSession.cfg`]).  `completeCodexItems` computes the outcome "failed" and
   `deliverEvent` drops it because the turn has an error;
   `AGENT_RUN_STREAM_DESIGN.md:223` wants every stored item ended before
   `run.finished`.
7. **So do those of a cancelled ACP turn** (`ReturnedTurnCompletesItems`,
   [`AcpReply.cfg`]): `completeACPItems` delivers with the turn's context, which
   is done, and the run stream refuses the completions.
8. **Setup may report success for a daemon that runs the old files**
   (`SetupTakesEffect`, [`DaemonLifecycle.cfg`] with `Plans <- SetupAndStart`):
   another command starts a daemon between setup's stop and its writes, and setup
   takes it for its own.

Smaller disagreements met while modelling, without a property of their own:

* a run marked while its session is being started or its reference saved reports
  "failed", and one marked between lines 345 and 347 "deadline_exceeded", not
  "canceled"; a Submit that is rejected returns no handle although the comment at
  `manager.go:46` speaks of a result for every run; `MaxQueue + 1` runs of a
  conversation may wait while the first is still at the slots
  (`ARCHITECTURE.md:70` speaks of `MaxQueue`); the writer never retries with the
  same `startIndex` (`AGENT_RUN_STREAM_DESIGN.md:224`);
* `stopDaemon` says the daemon stopped when its socket is gone, before its lock
  is released, so that the start of a restart or setup may fail with
  `ErrLocked`; and when its ten seconds run out during a call, the error of that
  call counts as "stopped", too (`lifecycle.go:185`);
* the check for a child that ended (`lifecycle.go:147`) reaches a zombie, as
  nobody waits for it, so a failed start is reported after 30 s;
* `Serve` that fails in `Accept` does not wait for its connections, whose
  requests are then handled while the SDK is being released;
* a walk through the history skips a message each time the window of 100 slides;
* a chunk of an ACP agent that writes on after its answer may follow the final
  text, when the finisher's call failed.

## 5. Theorems

All are of the form `Spec => []P` (or `Spec => [][A]_v`), for every value of the
constants that satisfies the module's named assumption, and use the safety part
of `Spec` only; in `PagingProofs` two have a hypothesis about the client besides.

**RunManagerProofs** (assumes `RunAssumption`: the request of each run, positive
limits, finitely many runs).  `TypeCorrect` is inductive with `SavesRef`.  Every
step of `execute` has one of five shapes (`StepShape`), so that the invariants
are proved against shapes and not against fifteen actions.
`SerialPerConversation` and `NoStrandedRun` follow from `QueueInv` (the queues
hold exactly the pending runs, each once) and `WorkerInv` (a conversation has one
worker or none, and `running` says which); neither property is inductive, since
both speak of the moment after an exit the invariant must exclude.
`SessionsBounded` follows from `SlotInv`: the run of every live session holds a
slot, and at most `MaxConcurrentRuns` runs hold one.  `DeliveryInv` ties the job table, marks, contexts
and results together run by run and gives `JobTableExact`, `CanceledOnRequest`,
`OneResult` and, with `QuietInv`, `NothingLeftAfterShutdown`; run IDs may be
shared here, which the runs do not vary.  `SessionRefCurrent` follows from
seriality: no other turn of the conversation touches the reference.
`ImplementsLines` proves the refinement `LinesSpec`: the runs of a conversation
are mapped to the state of its line (`Line`), and every step of the manager to a
step of `TurnLines` or to none.  The one thing the shapes do not say is that the
line has one serving run at most (`LineFits`), which is seriality again, and that
a run with a session is live (`LiveInv`).  `MarkedStops` (`MarkedNeverCompletes`):
a run completes only past the point where its mark is read, and `DeliveryInv` has
that nothing was concluded before.

**EventLedgerProofs** (`LedgerAssumption`).  `LedgerInv`: keys and numbers are
unique, the numbers of a profile are `1..n`, and a number read from the table is
at most `n + 1` because rows are only added; so an insertion that violates no
constraint takes exactly `n + 1`.  Gives `SequencesGapless`, `AtMostOneCreated`,
`ResultsStored`.

**AgentRunStreamProofs** (`StreamAssumption`: the terminal packet fits the
reserve).  The service is at most one packet ahead of the writer; whatever may
still arrive at the writer's next index is a packet its state allows there
(`Ahead`, `Waiting`).  Gives `LogShape`, `AtMostOneUnknown`, `RoomToFinish`,
`FinishedIsStored`.

**InboundProofs** (`InboundAssumption`).  `Owners`: a goroutine past the ledger,
or whose stream is shown, owns its event, also after its process ended; gives
`OneRunPerEvent`.  `Counted`, `Gated` and `Drained` tie the WaitGroup and the
flags to the stage of Shutdown; they give `OfflineIsQuiet`, `EventIndexExact` and
`GroupOnlyShrinks`.  `SubmittedEnd` (`SubmittedStreamsEnd`) follows from
`StreamsEnd`: as long as no call failed and no process died, the writer knows
what the service has, and a finisher that has ended left the terminal packet.  It
is about the runs the manager accepted; those it turned away have no finisher,
and Shutdown does not wait for the goroutine that ends their streams.
`KeepsToLines` closes the gap to `ImplementsLines`: whatever the path does to the
manager is a step of `TurnLines`, or the beginning of a new process, so that what
`RunManager` implements is what `Inbound` was checked over.

**AcpSessionProofs** (`AcpSessionAssumption`: the kinds of sink; any number of notifications, any length of
a message, either sink).  `Shapes`: what each goroutine can have left to
deliver; `Stages`: where the caller is.  `Ordered` says, for every item and
every delivery under way, that the sink still expects it, `Settled` who owes the
completion of an item that was told started, and `Texts` that the message the
service shows, the reply's own text and the pieces on their way are one
beginning of what the agent wrote.  `Ordered` and `Settled` hold of an agent that
writes nothing after its answer and whose answer arrived, `Texts` of the former.
Gives `ItemsToldInOrder`, `AnsweredTurnCompletesItems`, `OneReplyInOrder` and
`ReplyIsFinalText`.

**CodexSessionProofs** (`SessionAssumption`; any items of any kinds, any number
of lines).  `Shapes` and `Stages` as above, with three goroutines that each have
a sequence of operations left.  `Once`: a start is announced by whoever marked
the item, and a completion is with the reader, with the caller, or still among
the leftover, in one of them at most.  `Ordered`, unless the app-server wrote out
of order: after the line that ends the turn the reader has only endings left, so
what `completeCodexItems` announces comes last; and while events are delivered,
what is marked is told or about to be.  Gives `ItemsToldInOrder` and
`SuccessCompletesItems`.

**DaemonLifecycleProofs** (`DaemonLifecycleAssumption`: `First` and `None` are no
commands; any set of commands may be given).  `HoldsLock`, `LoggedIn` and
`ListensUp` say what a process has at which step.  They make `SdkUnderLock` and
`ListenerReachable` inductive: who takes the lock finds no context and no server,
and who removes the socket file holds the lock, so the file is its own or
nobody's.  `Unspawned` and `StopKind` restrict the commands: a daemon is started
once, so no process begins anew with what it had.  A step of a command leaves
the lock, the contexts and the sockets alone (`CommandMoves`).  Gives
`SdkUnderLock`, `ListenerReachable` and `AcceptedWhenReady`.

**PagingProofs** (`PagingAssumption`; and, for `OneList` and `Complete`, of the
client `OwnQueries`: no two of its methods make the same query, which findings 2
and 3 show to be needed).
`Kept` is the code's loop, a recursive function; what the prover lacks of
induction over sequences is replaced by a least counterexample (`Induction`), for
three facts: what is kept are items, more items do not change what is kept of the
earlier ones (`KeptUpToGrows`), and so what is kept of a beginning of the list is
the beginning of what is kept (`KeptBegins`).  `QueryBound`: whatever reads for
the walk has its query; with `OwnQueries` it is the walk's method (`Bound`).
`Walked`: as long as the list only grew at its end and the window did not slide,
what was read is a beginning of the list, and what was given are the first
`offset` items of what is kept of it.  Gives `OneQueryPerWalk` of any client, and
of a client with `OwnQueries` `OneListPerWalk` and `WalkComplete`.

**Only model-checked:** liveness (`AcceptedRunsConclude`, the two `ShutdownEnds`,
`RecordReturns`, `StreamsEndWhileUp`, `SubmittedAreFinished`, the two
`SessionEnds`, `TermExits`, `FailedStartEnds`, `CommandsReturn`, `WalkEnds`) and everything about
enabledness, which the prover cannot do.  Every safety property of the passing
runs, action properties and the refinement included, has a theorem.
**Only proved:** `JobTableExact`, `CanceledOnRequest`, `OneResult`,
`AtMostOneUnknown`, `EventIndexExact`, and `OneListPerWalk` under `OwnQueries`.

## 6. What is not modelled

* The data: prompts, texts, event fields, validation of single events and of
  requests, JSON, framing.  `internal/contracts` and `internal/commands` are
  types, tables and output; `internal/logsafe` is a text filter; `skills` copies
  embedded files; `internal/testkit` holds test doubles.
* `Reconcile` and schema upgrades of `control.db`; `CancelEvent`, a lookup in
  `runsByEvent` followed by `Manager.Cancel`, has no caller in the daemon.
* The preparation of a run's directory and configuration in both providers'
  `Start`.  A Codex message item whose phase is unknown is not streamed; the
  model lets such lines be absent.
* The manager's watcher of a turn's context (`manager.go:331-338`), a fourth
  goroutine that calls `Cancel` of the session, and the write to the app-server's
  stdin it may have to end: in `CodexSession` the write does not block, and what the
  call adds is what the waiter and the exit of the process do anyway.
* Reusing one provider session for several turns: the manager never does.
* The login's token exchange (`account.go`), one HTTP request, and the ups and
  downs of an SDK connection after the login, which change only what
  `daemon.status` reports.
* Reads of single items in `internal/service`, sending, and the translation of
  fields: they keep nothing between two calls.
* More than one request on a connection, which `ipc.Call` never makes.

## 7. Plan

What is left, in this order.

1. That the sink of `AcpSession` keeps to what `ReplyText` and `AgentRunStream`
   expect of their callers.
2. `OpenedStreamsEnd` and `ReturnedTurnCompletesItems`, which the code violates
   (findings), with the proofs that go with them, once the code is changed.
