----------------------------- MODULE RunManager -----------------------------
(***************************************************************************)
(* internal/agent/run/manager.go: Manager with its worker goroutines (one  *)
(* per busy conversation), the slots channel that bounds provider          *)
(* sessions, Cancel, Shutdown, the deadline of a turn and the persisted    *)
(* session reference of a conversation.                                    *)
(*                                                                         *)
(* A step of the model is a critical section of m.mu or item.mu, a channel *)
(* operation, or a call that leaves the process (provider, store,          *)
(* callback).  pc[r] is where the goroutine that serves r stands:          *)
(*                                                                         *)
(*   new       Submit not called       loading   LoadSessionRef            *)
(*   refused   Submit turned it away   starting  provider.Start            *)
(*   pending   in queue.pending        forgetting DeleteSessionRef         *)
(*   popped    execute entered         turning   session.Turn              *)
(*   acquiring in acquireSlot          returned  Turn returned, line 345   *)
(*   acquired  slot sent, ctx unread   unmarked  no mark seen, line 347    *)
(*   held      slot held, line 274     saving    SaveSessionRef            *)
(*   publishing request.Started        removing  result sent, line 405     *)
(*   closing   deferred session.Close  releasing deferred slot release     *)
(*   gone      the worker is back at the top of its loop                   *)
(*                                                                         *)
(* The worker's WaitGroup.Done follows the unlock that clears running with *)
(* nothing in between, and is one step with it.                            *)
(***************************************************************************)
EXTENDS Naturals, Sequences, FiniteSets

CONSTANTS Run,               \* calls of Submit, one job each
          Conv,              \* conversation IDs
          Id,                \* run IDs (request.ID)
          ConvOf, IdOf,      \* the request of each run
          MaxQueue, MaxConcurrentRuns,
          None               \* no mark, no result, no session reference

ASSUME RunAssumption ==
  /\ ConvOf \in [Run -> Conv]
  /\ IdOf \in [Run -> Id]
  /\ MaxQueue \in Nat \ {0}
  /\ MaxConcurrentRuns \in Nat \ {0}
  /\ IsFiniteSet(Run)
  /\ None \notin Run
  /\ None \notin {"completed", "canceled", "deadline_exceeded",
                  "overflow", "interrupted", "failed"}

Status == {"completed", "canceled", "deadline_exceeded",
           "overflow", "interrupted", "failed"}

\* A session reference is named by the run whose turn created it.
Ref == Run \cup {None}

VARIABLES
  pc,          \* see above
  pending,     \* conversation.pending
  running,     \* conversation.running
  loops,       \* goroutines at the top of the loop of runConversation
  jobs,        \* the runs in m.jobs, at most one per ID
  mark,        \* job.canceled
  cancelling,  \* markCanceled done, cancel() of the job's context still to have its effect
  ctx,         \* runs whose job context is cancelled
  expired,     \* runs whose turn deadline has passed
  holders,     \* runs with a message in m.slots
  live,        \* runs whose provider session is open
  turn,        \* what Turn returned: "error" or the session reference
  startRef,    \* startRequest.SessionRef
  stored,      \* the session reference of the conversation in control.db
  outcome,     \* the Result delivered on job.done
  shutdown,    \* "no", "interrupting", "waiting", "returned"
  toStop       \* Shutdown's snapshot of m.jobs still to interrupt

vars == <<pc, pending, running, loops, jobs, mark, cancelling, ctx, expired,
          holders, live, turn, startRef, stored, outcome, shutdown, toStop>>

Timed == {"loading", "starting", "forgetting", "turning", "returned",
          "unmarked", "saving"}
Executing == Timed \cup {"popped", "acquiring", "acquired", "held", "publishing",
                         "removing", "closing", "releasing"}
Stage == Executing \cup {"new", "refused", "pending", "gone"}

\* Mutant: m.stopped is never set.
NeverStopped == FALSE

stopped == shutdown # "no"

Init == /\ pc = [r \in Run |-> "new"]
        /\ pending = [c \in Conv |-> <<>>]
        /\ running = [c \in Conv |-> FALSE]
        /\ loops = [c \in Conv |-> 0]
        /\ jobs = {} /\ cancelling = {} /\ ctx = {} /\ expired = {}
        /\ holders = {} /\ live = {}
        /\ mark = [r \in Run |-> None]
        /\ turn = [r \in Run |-> None]
        /\ startRef = [r \in Run |-> None]
        /\ stored = [c \in Conv |-> None]
        /\ outcome = [r \in Run |-> None]
        /\ shutdown = "no" /\ toStop = {}

-----------------------------------------------------------------------------
\* Submit, Cancel, Shutdown: the callers' goroutines.

Registered(id) == \E s \in jobs : IdOf[s] = id

Turns == <<expired, live, turn, startRef, stored>>
Stopping == <<shutdown, toStop>>
Queueing == <<pending, running, loops>>

\* ErrStopped, a duplicate ID, or observer.Queued failing (which undoes the
\* append): a nil handle and no trace.
SubmitRejected(r) ==
  /\ pc[r] = "new"
  /\ stopped \/ Registered(IdOf[r]) \/ Len(pending[ConvOf[r]]) < MaxQueue
  /\ pc' = [pc EXCEPT ![r] = "refused"]
  /\ UNCHANGED <<Queueing, jobs, mark, cancelling, ctx, holders, outcome, Turns, Stopping>>

\* The caller gets a handle that already holds the overflow result.
SubmitOverflow(r) ==
  /\ pc[r] = "new"
  /\ ~stopped /\ ~Registered(IdOf[r])
  /\ Len(pending[ConvOf[r]]) >= MaxQueue
  /\ pc' = [pc EXCEPT ![r] = "refused"]
  /\ outcome' = [outcome EXCEPT ![r] = "overflow"]
  /\ ctx' = ctx \cup {r}
  /\ UNCHANGED <<Queueing, jobs, mark, cancelling, holders, Turns, Stopping>>

\* Mutant: `if !queue.running` is missing.
StartsAlways(c) == TRUE

StartsWorker(c) == ~running[c]

\* Append to the queue and start the conversation's worker if none runs.
SubmitAccepted(r) ==
  LET c == ConvOf[r] IN
  /\ pc[r] = "new"
  /\ ~stopped /\ ~Registered(IdOf[r])
  /\ Len(pending[c]) < MaxQueue
  /\ pc' = [pc EXCEPT ![r] = "pending"]
  /\ pending' = [pending EXCEPT ![c] = Append(@, r)]
  /\ jobs' = jobs \cup {r}
  /\ running' = [running EXCEPT ![c] = TRUE]
  /\ loops' = [loops EXCEPT ![c] = IF StartsWorker(c) THEN @ + 1 ELSE @]
  /\ UNCHANGED <<mark, cancelling, ctx, holders, outcome, Turns, Stopping>>

MarkCanceled(r, s) ==
  mark' = [mark EXCEPT ![r] = IF @ = None THEN s ELSE @]

\* Cancel(runID) with m.mu held: the first mark wins.
Cancel(r) ==
  /\ r \in jobs
  /\ MarkCanceled(r, "canceled")
  /\ cancelling' = (cancelling \cup {r}) \ ctx
  /\ UNCHANGED <<pc, Queueing, jobs, ctx, holders, outcome, Turns, Stopping>>

\* item.cancel(), after the mark and outside every lock.
CancelContext(r) ==
  /\ r \in cancelling
  /\ cancelling' = cancelling \ {r}
  /\ ctx' = ctx \cup {r}
  /\ UNCHANGED <<pc, Queueing, jobs, mark, holders, outcome, Turns, Stopping>>

\* The first call of Shutdown; later calls return at once and change nothing.
ShutdownBegin ==
  /\ shutdown = "no"
  /\ shutdown' = "interrupting"
  /\ toStop' = jobs
  /\ UNCHANGED <<pc, Queueing, jobs, mark, cancelling, ctx, holders, outcome, Turns>>

\* One iteration of the loop over the snapshot; a run may finish meanwhile.
ShutdownInterrupt(r) ==
  /\ shutdown = "interrupting" /\ r \in toStop
  /\ MarkCanceled(r, "interrupted")
  /\ cancelling' = (cancelling \cup {r}) \ ctx
  /\ toStop' = toStop \ {r}
  /\ UNCHANGED <<pc, Queueing, jobs, ctx, holders, outcome, Turns, shutdown>>

ShutdownWait ==
  /\ shutdown = "interrupting" /\ toStop = {}
  /\ shutdown' = "waiting"
  /\ UNCHANGED <<pc, Queueing, jobs, mark, cancelling, ctx, holders, outcome, Turns, toStop>>

\* workers.Wait(): every worker goroutine has called Done.
ShutdownReturn ==
  /\ shutdown = "waiting"
  /\ \A c \in Conv : loops[c] = 0
  /\ \A r \in Run : pc[r] \notin Executing
  /\ shutdown' = "returned"
  /\ UNCHANGED <<pc, Queueing, jobs, mark, cancelling, ctx, holders, outcome, Turns, toStop>>

-----------------------------------------------------------------------------
\* The worker of a conversation.

\* Mutant: the newest run is taken first.
PopLast(c) ==
  /\ loops[c] > 0
  /\ pending[c] # <<>>
  /\ pending' = [pending EXCEPT ![c] = SubSeq(@, 1, Len(@) - 1)]
  /\ pc' = [pc EXCEPT ![pending[c][Len(pending[c])]] = "popped"]
  /\ loops' = [loops EXCEPT ![c] = @ - 1]
  /\ UNCHANGED <<running, jobs, mark, cancelling, ctx, holders, outcome, Turns, Stopping>>

Pop(c) ==
  /\ loops[c] > 0
  /\ pending[c] # <<>>
  /\ pending' = [pending EXCEPT ![c] = Tail(@)]
  /\ pc' = [pc EXCEPT ![Head(pending[c])] = "popped"]
  /\ loops' = [loops EXCEPT ![c] = @ - 1]
  /\ UNCHANGED <<running, jobs, mark, cancelling, ctx, holders, outcome, Turns, Stopping>>

\* Mutant: `queue.running = false` is missing.
WorkerExitStillRunning(c) ==
  /\ loops[c] > 0
  /\ pending[c] = <<>>
  /\ loops' = [loops EXCEPT ![c] = @ - 1]
  /\ UNCHANGED <<pc, pending, running, jobs, mark, cancelling, ctx, holders, outcome,
                 Turns, Stopping>>

\* Finding the queue empty and clearing running is one critical section.
WorkerExit(c) ==
  /\ loops[c] > 0
  /\ pending[c] = <<>>
  /\ running' = [running EXCEPT ![c] = FALSE]
  /\ loops' = [loops EXCEPT ![c] = @ - 1]
  /\ UNCHANGED <<pc, pending, jobs, mark, cancelling, ctx, holders, outcome, Turns, Stopping>>

\* complete(): finish sends the result once and cancels the job's context.
Complete(r, s) ==
  /\ pc' = [pc EXCEPT ![r] = "removing"]
  /\ outcome' = [outcome EXCEPT ![r] = IF @ = None THEN s ELSE @]
  /\ ctx' = ctx \cup {r} /\ cancelling' = cancelling \ {r}
  /\ UNCHANGED <<Queueing, jobs, mark, Stopping>>

Goto(r, stage) ==
  /\ pc' = [pc EXCEPT ![r] = stage]
  /\ UNCHANGED <<Queueing, jobs, mark, cancelling, ctx, outcome, Stopping>>

\* Line 258: a run cancelled while it waited in the queue never gets a slot.
FirstCheck(r) ==
  /\ pc[r] = "popped"
  /\ IF mark[r] # None THEN Complete(r, mark[r]) ELSE Goto(r, "acquiring")
  /\ UNCHANGED <<holders, Turns>>

TakeSlot(r) ==
  /\ pc[r] = "acquiring"
  /\ Cardinality(holders) < MaxConcurrentRuns
  /\ holders' = holders \cup {r}
  /\ Goto(r, "acquired")
  /\ UNCHANGED Turns

AbortStatus(r) == IF mark[r] # None THEN mark[r] ELSE "canceled"

\* The select of acquireSlot took the ctx.Done branch.
AbortWait(r) ==
  /\ pc[r] = "acquiring" /\ r \in ctx
  /\ Complete(r, AbortStatus(r))
  /\ UNCHANGED <<holders, Turns>>

\* ctx.Err() after the send: a cancelled run puts the slot back.
CheckSlot(r) ==
  /\ pc[r] = "acquired"
  /\ IF r \in ctx
     THEN /\ holders' = holders \ {r}
          /\ Complete(r, AbortStatus(r))
     ELSE /\ Goto(r, "held")
          /\ UNCHANGED holders
  /\ UNCHANGED Turns

\* Line 274, then observer.Started, whose error interrupts the run.
SecondCheck(r) ==
  /\ pc[r] = "held"
  /\ IF mark[r] # None
     THEN Complete(r, mark[r])
     ELSE Goto(r, "publishing") \/ Complete(r, "interrupted")
  /\ UNCHANGED <<holders, Turns>>

\* request.Started(context.Background()) returns: not even Shutdown stops it.
PublishStart(r) ==
  /\ pc[r] = "publishing"
  /\ Goto(r, "loading") \/ Complete(r, "interrupted")
  /\ UNCHANGED <<holders, Turns>>

DeadlinePasses(r) ==
  /\ pc[r] \in Timed /\ r \notin expired
  /\ expired' = expired \cup {r}
  /\ UNCHANGED <<pc, Queueing, jobs, mark, cancelling, ctx, holders, live, turn,
                 startRef, stored, outcome, Stopping>>

LoadSessionRef(r) ==
  /\ pc[r] = "loading"
  /\ \/ /\ Goto(r, "starting")
        /\ startRef' = [startRef EXCEPT ![r] = stored[ConvOf[r]]]
     \/ /\ Complete(r, "failed")
        /\ UNCHANGED startRef
  /\ UNCHANGED <<holders, expired, live, turn, stored>>

ProviderStart(r) ==
  /\ pc[r] = "starting"
  /\ \/ Goto(r, "turning") /\ live' = live \cup {r}
     \/ Complete(r, "failed") /\ UNCHANGED live
     \/ startRef[r] # None /\ Goto(r, "forgetting") /\ UNCHANGED live
  /\ UNCHANGED <<holders, expired, turn, startRef, stored>>

\* Mutant: startRequest.SessionRef is not cleared.
DeleteKeepsStartRef(r) ==
  /\ pc[r] = "forgetting"
  /\ Goto(r, "starting")
  /\ stored' = [stored EXCEPT ![ConvOf[r]] = None]
  /\ UNCHANGED <<holders, expired, live, turn, startRef>>

\* ErrSessionNotFound: drop the stale reference and start once more.
DeleteSessionRef(r) ==
  /\ pc[r] = "forgetting"
  /\ \/ /\ Goto(r, "starting")
        /\ stored' = [stored EXCEPT ![ConvOf[r]] = None]
        /\ startRef' = [startRef EXCEPT ![r] = None]
     \/ Complete(r, "failed") /\ UNCHANGED <<stored, startRef>>
  /\ UNCHANGED <<holders, expired, live, turn>>

\* Mutant: session.Turn(context.Background(), ...).
TurnWithoutContext(r) == FALSE

TurnContextDone(r) == r \in ctx \/ r \in expired

\* Turn may return a result or an error at any moment, cancelled or not.
TurnReturns(r) ==
  /\ pc[r] = "turning"
  /\ \E result \in {"error", None, startRef[r], r} :
        turn' = [turn EXCEPT ![r] = result]
  /\ Goto(r, "returned")
  /\ UNCHANGED <<holders, expired, live, startRef, stored>>

\* Mutant: item.cancellation() is not asked after the turn.
CheckNoMark(r) == pc[r] = "returned" /\ Goto(r, "unmarked") /\ UNCHANGED <<holders, Turns>>

\* Line 345 reads the mark, line 347 the context: two separate reads.
CheckMark(r) ==
  /\ pc[r] = "returned"
  /\ IF mark[r] # None THEN Complete(r, mark[r]) ELSE Goto(r, "unmarked")
  /\ UNCHANGED <<holders, Turns>>

CheckContext(r) ==
  /\ pc[r] = "unmarked"
  /\ \/ TurnContextDone(r) /\ Complete(r, "deadline_exceeded")
     \/ ~TurnContextDone(r) /\ turn[r] = "error" /\ Complete(r, "failed")
     \/ ~TurnContextDone(r) /\ turn[r] = None /\ Complete(r, "completed")
     \/ ~TurnContextDone(r) /\ turn[r] \in Run /\ Goto(r, "saving")
  /\ UNCHANGED <<holders, Turns>>

\* Saving under the turn's context: an expiring deadline fails a finished turn.
SaveSessionRef(r) ==
  /\ pc[r] = "saving"
  /\ \/ /\ Complete(r, "completed")
        /\ stored' = [stored EXCEPT ![ConvOf[r]] = turn[r]]
     \/ Complete(r, "failed") /\ UNCHANGED stored
  /\ UNCHANGED <<holders, expired, live, turn, startRef>>

\* Mutant: the slot is released when the result is delivered.
RemoveReleases(r) ==
  /\ pc[r] = "removing"
  /\ jobs' = {s \in jobs : IdOf[s] # IdOf[r]}
  /\ holders' = holders \ {r}
  /\ pc' = [pc EXCEPT ![r] = IF r \in live THEN "closing" ELSE "releasing"]
  /\ UNCHANGED <<Queueing, mark, cancelling, ctx, outcome, Turns, Stopping>>

\* remove(): the table entry goes after the result was delivered.
Remove(r) ==
  /\ pc[r] = "removing"
  /\ jobs' = {s \in jobs : IdOf[s] # IdOf[r]}
  /\ pc' = [pc EXCEPT ![r] = IF r \in live THEN "closing" ELSE "releasing"]
  /\ UNCHANGED <<Queueing, mark, cancelling, ctx, holders, outcome, Turns, Stopping>>

\* The deferred calls of execute, last first: the session, then the slot.
CloseSession(r) ==
  /\ pc[r] = "closing"
  /\ live' = live \ {r}
  /\ Goto(r, "releasing")
  /\ UNCHANGED <<holders, expired, turn, startRef, stored>>

\* Mutant: `defer func() { <-m.slots }()` is missing.
KeepSlot(r) ==
  /\ pc[r] = "releasing"
  /\ pc' = [pc EXCEPT ![r] = "gone"]
  /\ loops' = [loops EXCEPT ![ConvOf[r]] = @ + 1]
  /\ expired' = expired \ {r}
  /\ turn' = [turn EXCEPT ![r] = None]
  /\ startRef' = [startRef EXCEPT ![r] = None]
  /\ UNCHANGED <<pending, running, jobs, mark, cancelling, ctx, holders, live, stored,
                 outcome, Stopping>>

\* ... and back to the loop; a run that never held a slot releases none.  The
\* locals of execute are gone.
ReleaseSlot(r) ==
  /\ pc[r] = "releasing"
  /\ holders' = holders \ {r}
  /\ pc' = [pc EXCEPT ![r] = "gone"]
  /\ loops' = [loops EXCEPT ![ConvOf[r]] = @ + 1]
  /\ expired' = expired \ {r}
  /\ turn' = [turn EXCEPT ![r] = None]
  /\ startRef' = [startRef EXCEPT ![r] = None]
  /\ UNCHANGED <<pending, running, jobs, mark, cancelling, ctx, live, stored,
                 outcome, Stopping>>

-----------------------------------------------------------------------------
\* The worker's own steps.  TurnReturns is the provider's.
Execute(r) ==
  \/ FirstCheck(r) \/ TakeSlot(r) \/ AbortWait(r) \/ CheckSlot(r) \/ SecondCheck(r)
  \/ PublishStart(r) \/ LoadSessionRef(r) \/ ProviderStart(r) \/ DeleteSessionRef(r)
  \/ CheckMark(r) \/ CheckContext(r) \/ SaveSessionRef(r)
  \/ Remove(r) \/ CloseSession(r) \/ ReleaseSlot(r)

Loop(c) == Pop(c) \/ WorkerExit(c)

\* Shutdown's goroutine, once it has begun.
Stopper == (\E r \in Run : ShutdownInterrupt(r)) \/ ShutdownWait \/ ShutdownReturn

Submit(r) == SubmitRejected(r) \/ SubmitOverflow(r) \/ SubmitAccepted(r)

\* Everything is over: what ends a finite set of submissions.
Quiet == /\ \A r \in Run : pc[r] \in {"refused", "gone"} /\ r \notin cancelling
         /\ \A c \in Conv : loops[c] = 0
         /\ shutdown = "returned"
         /\ UNCHANGED vars

Next == \/ \E r \in Run : \/ Submit(r) \/ Cancel(r) \/ CancelContext(r) \/ Execute(r)
                          \/ DeadlinePasses(r) \/ TurnReturns(r)
        \/ \E c \in Conv : Loop(c)
        \/ ShutdownBegin \/ Stopper
        \/ Quiet

(***************************************************************************)
(* Go runs every ready goroutine, timers fire, and a provider returns from *)
(* Turn once its context is done (both adapters kill the agent process).   *)
(* Nothing is assumed of Turn before that, nor of callers of Submit,       *)
(* Cancel and Shutdown.                                                    *)
(***************************************************************************)
Fairness ==
  /\ \A r \in Run : /\ WF_vars(Execute(r))
                    /\ WF_vars(CancelContext(r))
                    /\ WF_vars(DeadlinePasses(r))
                    /\ WF_vars(TurnContextDone(r) /\ TurnReturns(r))
  /\ \A c \in Conv : WF_vars(Loop(c))
  /\ WF_vars(Stopper)

Spec == Init /\ [][Next]_vars /\ Fairness

-----------------------------------------------------------------------------
\* Every variable of the manager has its type.
TypeOK ==
  /\ pc \in [Run -> Stage]
  /\ pending \in [Conv -> Seq(Run)]
  /\ running \in [Conv -> BOOLEAN]
  /\ loops \in [Conv -> Nat]
  /\ jobs \subseteq Run /\ cancelling \subseteq Run /\ ctx \subseteq Run
  /\ expired \subseteq Run /\ holders \subseteq Run /\ live \subseteq Run
  /\ mark \in [Run -> {None, "canceled", "interrupted"}]
  /\ turn \in [Run -> Ref \cup {"error"}]
  /\ startRef \in [Run -> Ref]
  /\ stored \in [Conv -> Ref]
  /\ outcome \in [Run -> Status \cup {None}]
  /\ shutdown \in {"no", "interrupting", "waiting", "returned"}
  /\ toStop \subseteq Run

\* Only a reference a turn returned is saved (line 351).
SavesRef == \A r \in Run : pc[r] = "saving" => turn[r] \in Run

\* Two runs of one conversation are never executed at the same time, deferred
\* session close included ("conversation-serialized", package comment): no
\* interleaving of Submit with an exiting worker starts a second worker.
SerialPerConversation ==
  \A r, s \in Run :
    r # s /\ ConvOf[r] = ConvOf[s] => ~(pc[r] \in Executing /\ pc[s] \in Executing)

\* At most MaxConcurrentRuns provider sessions are open, though a run's result
\* is delivered, and its caller may submit again, before its session is closed.
SessionsBounded == Cardinality(live) =< MaxConcurrentRuns

\* A queued run always has a worker that will come back for it: no Submit falls
\* between a worker's last look at the queue and its exit.
NoStrandedRun ==
  \A c \in Conv : pending[c] # <<>> =>
    loops[c] > 0 \/ \E r \in Run : ConvOf[r] = c /\ pc[r] \in Executing

\* m.jobs holds exactly the accepted runs not yet removed, also when a run ID
\* is used again: remove(ID) never drops another run's entry, so Cancel and
\* Shutdown reach every unfinished run.
JobTableExact ==
  \A r \in Run : r \in jobs <=>
    pc[r] \in {"pending"} \cup (Executing \ {"closing", "releasing"})

\* The reference a turn resumes is the stored one until the turn replaces it:
\* no other turn of the conversation saves or deletes it in between.
SessionRefCurrent ==
  \A r \in Run :
    pc[r] \in {"starting", "forgetting", "turning", "returned", "unmarked", "saving"}
      => startRef[r] = stored[ConvOf[r]]

\* Shutdown's return means that nothing is left: no session, slot, queued run
\* or undelivered result (inbound's Shutdown closes the SDKs right after it).
NothingLeftAfterShutdown ==
  shutdown = "returned" =>
    /\ jobs = {} /\ live = {} /\ holders = {}
    /\ \A c \in Conv : pending[c] = <<>>
    /\ \A r \in Run : pc[r] \in {"new", "refused"} \/ outcome[r] # None

\* "canceled" is only reported of a run somebody cancelled: the default status
\* of a failed acquireSlot (line 265) never hides Shutdown's interruption.
CanceledOnRequest == \A r \in Run : outcome[r] = "canceled" => mark[r] = "canceled"

\* A caller's Done channel receives one result, and it never changes.
OneResult == [][\A r \in Run : outcome[r] # None => outcome'[r] = outcome[r]]_outcome

\* A run marked before its turn came back never goes on to complete: the result
\* of a withdrawn or interrupted turn is not used, and no session ref is saved.
BeforeVerdict == {"pending"} \cup (Executing \ {"unmarked", "saving", "removing",
                                                "closing", "releasing"})
MarkedNeverCompletes ==
  [][\A r \in Run : mark[r] # None /\ pc[r] \in BeforeVerdict =>
       pc'[r] \in BeforeVerdict \/ outcome'[r] \in Status \ {"completed"}]_pc

\* Every accepted run delivers its result, whatever is cancelled or shut down.
AcceptedRunsConclude == \A r \in Run : pc[r] = "pending" ~> outcome[r] # None

\* Shutdown's workers.Wait returns.
ShutdownEnds == (shutdown = "interrupting") ~> (shutdown = "returned")
-----------------------------------------------------------------------------
\* The head of a line is the run its worker executes, then the queue.
Line == [c \in Conv |->
          LET busy == {r \in Run : ConvOf[r] = c /\ pc[r] \in Executing}
          IN  (IF busy = {} THEN <<>> ELSE <<CHOOSE r \in busy : TRUE>>) \o pending[c]]

Lines == INSTANCE TurnLines WITH
           line <- Line, open <- live, closed <- stopped, NoOutcome <- None

\* The manager's goroutines, locks and slots implement the lines of TurnLines:
\* order of acceptance, one session per conversation, bounded sessions.  This is
\* Lines!ASpec with the stuttering step, the most frequent one, tried first.
LinesSpec == /\ Lines!AInit
             /\ [][UNCHANGED Lines!avars \/ Lines!ANext]_(Lines!avars)
=============================================================================
