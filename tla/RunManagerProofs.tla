-------------------------- MODULE RunManagerProofs --------------------------
(***************************************************************************)
(* Theorems about RunManager for every set of runs and conversations and   *)
(* every queue and slot limit.                                             *)
(***************************************************************************)
EXTENDS RunManager, FiniteSetTheorems, TLAPS

-----------------------------------------------------------------------------
\* Submit's append keeps the queued runs in place and puts the new one last.
LEMMA AppendFacts ==
  ASSUME NEW S, NEW q \in Seq(S), NEW x \in S
  PROVE  /\ Append(q, x) \in Seq(S)
         /\ Len(Append(q, x)) = Len(q) + 1
         /\ \A i \in 1..Len(q) : Append(q, x)[i] = q[i]
         /\ Append(q, x)[Len(q) + 1] = x
  OBVIOUS

\* The worker's queue.pending[1:] moves every run that waits one place up.
LEMMA TailFacts ==
  ASSUME NEW S, NEW q \in Seq(S), q # <<>>
  PROVE  /\ Len(q) \in Nat /\ Len(q) > 0
         /\ Tail(q) \in Seq(S)
         /\ Len(Tail(q)) = Len(q) - 1
         /\ \A i \in 1..Len(q) - 1 : Tail(q)[i] = q[i + 1]
         /\ Head(q) = q[1] /\ Head(q) \in S
  OBVIOUS

\* The two shapes of a worker's step between popping a run and delivering its
\* result.  "canceled" is the run's mark, or the default of a wait cut short.
Undelivered == Timed \cup {"popped", "acquiring", "acquired", "held", "publishing"}
Goes(r) == pc[r] \in Undelivered /\ \E p \in Undelivered : Goto(r, p)
Completes(r) ==
  /\ pc[r] \in Undelivered
  /\ \E s \in Status \ {"overflow"} :
        /\ s = "canceled" => mark[r] = "canceled" \/ (mark[r] = None /\ r \in ctx)
        /\ Complete(r, s)

\* What a turn reads and writes besides the job's own control state.
DataOK == /\ holders \subseteq Run /\ expired \subseteq Run /\ live \subseteq Run
          /\ turn \in [Run -> Ref \cup {"error"}]
          /\ startRef \in [Run -> Ref]
          /\ stored \in [Conv -> Ref]

\* A mark is the status its run will report.
LEMMA MarkIsStatus ==
  ASSUME TypeOK, NEW r \in Run
  PROVE  /\ AbortStatus(r) \in Status \ {"overflow"}
         /\ mark[r] # None => mark[r] \in Status \ {"overflow"}
  BY DEF TypeOK, AbortStatus, Status

\* Every step of execute before Remove has one of the two shapes, and the data
\* stays well typed.
LEMMA StepShape ==
  ASSUME TypeOK, SavesRef, NEW r \in Run, Execute(r) \/ TurnReturns(r)
  PROVE  /\ pc[r] \in Executing
         /\ Goes(r) \/ Completes(r) \/ Remove(r) \/ CloseSession(r) \/ ReleaseSlot(r)
         /\ DataOK'
<1> USE DEF DataOK, Executing, Undelivered, Timed, Goes, Completes
<1>0. /\ AbortStatus(r) \in Status \ {"overflow"}
      /\ mark[r] # None => mark[r] \in Status \ {"overflow"}
      /\ DataOK
  BY MarkIsStatus DEF TypeOK
<1>c. \A s \in Status \ {"overflow"} :
         /\ pc[r] \in Undelivered /\ Complete(r, s)
         /\ s = "canceled" => mark[r] = "canceled" \/ (mark[r] = None /\ r \in ctx)
         => Completes(r)
  OBVIOUS
<1>d. "failed" \in Status \ {"overflow"} /\ "completed" \in Status \ {"overflow"}
      /\ "interrupted" \in Status \ {"overflow"} /\ "deadline_exceeded" \in Status \ {"overflow"}
  BY DEF Status
<1>g. \A p \in Undelivered : pc[r] \in Undelivered /\ Goto(r, p) => Goes(r)
  OBVIOUS
<1> HIDE DEF Goes, Completes
<1>m. mark[r] # None /\ pc[r] \in Undelivered /\ Complete(r, mark[r]) => Completes(r)
  <2>1. SUFFICES ASSUME NEW s, s = mark[r], s # None, pc[r] \in Undelivered, Complete(r, s)
                 PROVE  Completes(r)
    OBVIOUS
  <2>2. s \in Status \ {"overflow"}
    BY <2>1, <1>0
  <2>3. s = "canceled" => mark[r] = "canceled" \/ (mark[r] = None /\ r \in ctx)
    BY <2>1
  <2>4. QED BY ONLY <2>1, <2>2, <2>3, <1>c
<1>a. pc[r] \in Undelivered /\ r \in ctx /\ Complete(r, AbortStatus(r)) => Completes(r)
  BY <1>0, <1>c DEF AbortStatus
<1>1. CASE FirstCheck(r) BY <1>1, <1>0, <1>m, <1>g DEF FirstCheck, Turns
<1>2. CASE TakeSlot(r) BY <1>2, <1>0, <1>g DEF TakeSlot, Turns
<1>3. CASE AbortWait(r) BY <1>3, <1>0, <1>a DEF AbortWait, Turns
<1>4. CASE CheckSlot(r) BY <1>4, <1>0, <1>a, <1>g DEF CheckSlot, Turns
<1>5. CASE SecondCheck(r) BY <1>5, <1>0, <1>c, <1>d, <1>m, <1>g DEF SecondCheck, Turns
<1>6. CASE PublishStart(r) BY <1>6, <1>0, <1>c, <1>d, <1>g DEF PublishStart, Turns
<1>7. CASE LoadSessionRef(r)
  BY <1>7, <1>0, <1>c, <1>d, <1>g, RunAssumption DEF LoadSessionRef
<1>8. CASE ProviderStart(r) BY <1>8, <1>0, <1>c, <1>d, <1>g DEF ProviderStart
<1>9. CASE DeleteSessionRef(r)
  BY <1>9, <1>0, <1>c, <1>d, <1>g, RunAssumption DEF DeleteSessionRef, Ref
<1>10. CASE CheckMark(r) BY <1>10, <1>0, <1>m, <1>g DEF CheckMark, Turns
<1>11. CASE CheckContext(r) BY <1>11, <1>0, <1>c, <1>d, <1>g DEF CheckContext, Turns
<1>12. CASE SaveSessionRef(r)
  <2>1. CASE Complete(r, "completed") /\ stored' = [stored EXCEPT ![ConvOf[r]] = turn[r]]
    BY <1>12, <2>1, <1>0, <1>c, <1>d, RunAssumption DEF SaveSessionRef, SavesRef, Ref
  <2>2. QED BY <1>12, <2>1, <1>0, <1>c, <1>d DEF SaveSessionRef
<1>13. CASE Remove(r) BY <1>13, <1>0 DEF Remove, Turns
<1>14. CASE CloseSession(r) BY <1>14, <1>0, <1>g DEF CloseSession
<1>15. CASE ReleaseSlot(r) BY <1>15, <1>0 DEF ReleaseSlot, Ref
<1>16. CASE TurnReturns(r) BY <1>16, <1>0, <1>g DEF TurnReturns, Ref
<1>17. QED BY <1>1, <1>2, <1>3, <1>4, <1>5, <1>6, <1>7, <1>8, <1>9, <1>10, <1>11,
              <1>12, <1>13, <1>14, <1>15, <1>16 DEF Execute

\* A step of one of these shapes leaves the variables it may touch well typed.
LEMMA ShapeTyped ==
  ASSUME TypeOK, NEW r \in Run, DataOK', Goes(r) \/ Completes(r)
  PROVE  TypeOK'
<1>1. CASE Goes(r)
  <2>1. PICK p \in Stage : Goto(r, p) BY <1>1 DEF Goes, Stage, Executing, Undelivered
  <2>2. QED BY <2>1 DEF TypeOK, DataOK, Goto, Queueing, Stopping
<1>2. CASE Completes(r)
  <2>1. PICK s \in Status \ {"overflow"} : Complete(r, s) BY <1>2 DEF Completes
  <2>2. "removing" \in Stage BY DEF Stage, Executing
  <2>3. QED BY <2>1, <2>2 DEF TypeOK, DataOK, Complete, Queueing, Stopping
<1>3. QED BY <1>1, <1>2

\* What a step does to the queues, the workers and the stages of the runs.
Stays == UNCHANGED <<pc, pending, running, loops>>
Refuses(r) == /\ pc[r] = "new" /\ pc' = [pc EXCEPT ![r] = "refused"]
              /\ UNCHANGED <<pending, running, loops>>
Moves(r) == /\ pc[r] \in Executing
            /\ \E p \in Executing : pc' = [pc EXCEPT ![r] = p]
            /\ UNCHANGED <<pending, running, loops>>

\* Seen from the queues, every step refuses, moves, accepts or ends one run, is
\* the worker's own, or does not concern them at all.
LEMMA NextShape ==
  ASSUME TypeOK, SavesRef, [Next]_vars
  PROVE  \/ Stays
         \/ \E r \in Run : Refuses(r) \/ Moves(r) \/ SubmitAccepted(r) \/ ReleaseSlot(r)
         \/ \E c \in Conv : Pop(c) \/ WorkerExit(c)
<1> USE DEF Queueing
<1>1. ASSUME NEW r \in Run, SubmitRejected(r) \/ SubmitOverflow(r) PROVE Refuses(r)
  BY <1>1 DEF SubmitRejected, SubmitOverflow, Refuses
<1>2. ASSUME NEW r \in Run, Cancel(r) \/ CancelContext(r) \/ DeadlinePasses(r) PROVE Stays
  BY <1>2 DEF Cancel, CancelContext, DeadlinePasses, Stays
<1>3. ASSUME NEW r \in Run, Execute(r) \/ TurnReturns(r) PROVE Moves(r) \/ ReleaseSlot(r)
  <2>1. CASE Goes(r)
    BY <2>1 DEF Goes, Goto, Moves, Executing, Undelivered
  <2>2. CASE Completes(r)
    <3>1. "removing" \in Executing BY DEF Executing
    <3>2. QED BY <2>2, <3>1 DEF Completes, Complete, Moves, Executing, Undelivered
  <2>3. CASE Remove(r)
    BY <2>3 DEF Remove, Moves, Executing
  <2>4. CASE CloseSession(r)
    BY <2>4 DEF CloseSession, Goto, Moves, Executing
  <2>5. QED BY <1>3, <2>1, <2>2, <2>3, <2>4, StepShape
<1>4. ShutdownBegin \/ Stopper \/ UNCHANGED vars => Stays
  BY DEF ShutdownBegin, Stopper, ShutdownInterrupt, ShutdownWait, ShutdownReturn, Stays, vars
<1>5. QED BY <1>1, <1>2, <1>3, <1>4 DEF Next, Submit, Loop, Quiet

\* Every action keeps the type of every variable.
THEOREM TypeCorrect == Spec => [](TypeOK /\ SavesRef)
<1> USE RunAssumption
<1>1. Init => TypeOK /\ SavesRef
  BY DEF Init, TypeOK, SavesRef, Stage, Ref
<1>2. TypeOK /\ SavesRef /\ [Next]_vars => TypeOK'
  <2> SUFFICES ASSUME TypeOK, SavesRef, [Next]_vars PROVE TypeOK'
    OBVIOUS
  <2>1. ASSUME NEW r \in Run, Submit(r) PROVE TypeOK'
    <3> USE DEF TypeOK, Stage, Status, Queueing, Turns, Stopping
    <3>1. CASE SubmitRejected(r)
      BY <3>1 DEF SubmitRejected
    <3>2. CASE SubmitOverflow(r)
      BY <3>2 DEF SubmitOverflow
    <3>3. CASE SubmitAccepted(r)
      <4>1. ConvOf[r] \in Conv /\ pending[ConvOf[r]] \in Seq(Run)
        OBVIOUS
      <4>2. Append(pending[ConvOf[r]], r) \in Seq(Run)
        BY <4>1, AppendFacts
      <4>3. QED BY <3>3, <4>1, <4>2 DEF SubmitAccepted
    <3>4. QED BY <2>1, <3>1, <3>2, <3>3 DEF Submit
  <2>2. ASSUME NEW r \in Run, Cancel(r) PROVE TypeOK'
    BY <2>2 DEF Cancel, MarkCanceled, TypeOK, Queueing, Turns, Stopping
  <2>3. ASSUME NEW r \in Run, CancelContext(r) PROVE TypeOK'
    BY <2>3 DEF CancelContext, TypeOK, Queueing, Turns, Stopping
  <2>4. ASSUME NEW r \in Run, Execute(r) \/ TurnReturns(r) PROVE TypeOK'
    <3>1. CASE Goes(r) \/ Completes(r)
      BY <3>1, <2>4, StepShape, ShapeTyped
    <3>2. CASE Remove(r)
      BY <3>2 DEF Remove, TypeOK, Stage, Executing, Queueing, Turns, Stopping
    <3>3. CASE ReleaseSlot(r)
      BY <3>3 DEF ReleaseSlot, TypeOK, Stage, Ref, Stopping
    <3>4. CASE CloseSession(r)
      BY <3>4 DEF CloseSession, Goto, TypeOK, Stage, Executing, Queueing, Stopping
    <3>5. QED BY <2>4, <3>1, <3>2, <3>3, <3>4, StepShape
  <2>5. ASSUME NEW r \in Run, DeadlinePasses(r) PROVE TypeOK'
    BY <2>5 DEF DeadlinePasses, TypeOK, Queueing, Stopping
  <2>7. ASSUME NEW c \in Conv, Pop(c) PROVE TypeOK'
    <3>1. pending[c] \in Seq(Run) /\ pending[c] # <<>>
      BY <2>7 DEF Pop, TypeOK
    <3>2. Tail(pending[c]) \in Seq(Run) /\ Head(pending[c]) \in Run
      BY <3>1, TailFacts
    <3>3. loops[c] - 1 \in Nat
      BY <2>7 DEF Pop, TypeOK
    <3>4. QED BY <2>7, <3>2, <3>3
              DEF Pop, TypeOK, Stage, Executing, Turns, Stopping
  <2>8. ASSUME NEW c \in Conv, WorkerExit(c) PROVE TypeOK'
    BY <2>8 DEF WorkerExit, TypeOK, Turns, Stopping
  <2>9. CASE ShutdownBegin
    BY <2>9 DEF ShutdownBegin, TypeOK, Queueing, Turns
  <2>10. CASE Stopper
    BY <2>10 DEF Stopper, ShutdownInterrupt, ShutdownWait, ShutdownReturn,
                 MarkCanceled, TypeOK, Queueing, Turns
  <2>11. CASE UNCHANGED vars BY <2>11 DEF vars, TypeOK
  <2>12. QED BY <2>1, <2>2, <2>3, <2>4, <2>5, <2>7, <2>8, <2>9, <2>10,
                <2>11 DEF Next, Loop, Quiet
<1>3. TypeOK /\ SavesRef /\ [Next]_vars => SavesRef'
  <2> SUFFICES ASSUME TypeOK, SavesRef, [Next]_vars, NEW q \in Run, pc'[q] = "saving"
               PROVE  turn'[q] \in Run
    BY DEF SavesRef
  <2>1. ASSUME NEW r \in Run, Execute(r) \/ TurnReturns(r) PROVE turn'[q] \in Run
    <3> USE DEF Goto, Complete, TypeOK, SavesRef, Turns
    <3>1. CASE TurnReturns(r) BY <3>1 DEF TurnReturns
    <3>2. CASE CheckContext(r) BY <3>2 DEF CheckContext
    <3>3. CASE Remove(r) BY <3>3 DEF Remove
    <3>4. CASE ReleaseSlot(r) BY <3>4 DEF ReleaseSlot
    <3>5. CASE FirstCheck(r) \/ TakeSlot(r) \/ AbortWait(r) \/ CheckSlot(r)
      BY <3>5 DEF FirstCheck, TakeSlot, AbortWait, CheckSlot
    <3>6. CASE SecondCheck(r) \/ PublishStart(r) \/ CheckMark(r)
      BY <3>6 DEF SecondCheck, PublishStart, CheckMark
    <3>7. CASE LoadSessionRef(r) \/ ProviderStart(r) \/ DeleteSessionRef(r)
      BY <3>7 DEF LoadSessionRef, ProviderStart, DeleteSessionRef
    <3>8. CASE SaveSessionRef(r) \/ CloseSession(r)
      BY <3>8 DEF SaveSessionRef, CloseSession
    <3>9. QED BY <2>1, <3>1, <3>2, <3>3, <3>4, <3>5, <3>6, <3>7, <3>8 DEF Execute
  <2>2. ASSUME NEW r \in Run, Submit(r) PROVE turn'[q] \in Run
    BY <2>2 DEF Submit, SubmitRejected, SubmitOverflow, SubmitAccepted, StartsWorker, Turns, TypeOK, SavesRef
  <2>3. ASSUME NEW c \in Conv, Pop(c) PROVE turn'[q] \in Run
    <3>1. Head(pending[c]) \in Run
      BY <2>3, TailFacts DEF Pop, TypeOK
    <3>2. QED BY <2>3, <3>1 DEF Pop, Turns, TypeOK, SavesRef
  <2>4. CASE UNCHANGED <<pc, turn>> BY <2>4 DEF SavesRef
  <2>5. ASSUME NEW c \in Conv, WorkerExit(c) PROVE UNCHANGED <<pc, turn>>
    BY <2>5 DEF WorkerExit, Turns
  <2>6. ASSUME NEW r \in Run, Cancel(r) \/ CancelContext(r) \/ DeadlinePasses(r)
        PROVE  UNCHANGED <<pc, turn>>
    BY <2>6 DEF Cancel, CancelContext, DeadlinePasses, Turns
  <2>7. ShutdownBegin \/ Stopper \/ UNCHANGED vars => UNCHANGED <<pc, turn>>
    BY DEF ShutdownBegin, Stopper, ShutdownInterrupt, ShutdownWait, ShutdownReturn, Turns, vars
  <2>8. QED BY <2>1, <2>2, <2>3, <2>4, <2>5, <2>6, <2>7 DEF Next, Loop, Quiet
<1>4. QED BY <1>1, <1>2, <1>3, PTL DEF Spec

-----------------------------------------------------------------------------
\* The queues hold exactly the pending runs, each once, in its conversation.
Queued(c, r) == \E i \in 1..Len(pending[c]) : pending[c][i] = r
QueueInv ==
  /\ \A c \in Conv : \A i \in 1..Len(pending[c]) :
        /\ ConvOf[pending[c][i]] = c
        /\ pc[pending[c][i]] = "pending"
        /\ \A j \in 1..Len(pending[c]) : pending[c][i] = pending[c][j] => i = j
  /\ \A r \in Run : pc[r] = "pending" => Queued(ConvOf[r], r)

\* A conversation's worker is at the top of its loop or executes a run of the
\* conversation, and running says whether there is one.
Busy(c) == \E r \in Run : ConvOf[r] = c /\ pc[r] \in Executing
WorkerInv ==
  \A c \in Conv :
    /\ loops[c] \in {0, 1}
    /\ running[c] = FALSE => loops[c] = 0 /\ pending[c] = <<>> /\ ~Busy(c)
    /\ loops[c] = 1 => running[c] = TRUE /\ ~Busy(c)
    /\ running[c] = TRUE /\ loops[c] = 0 => Busy(c)

SerialInv == QueueInv /\ WorkerInv /\ SerialPerConversation

\* The queue invariant survives every step.
LEMMA QueueStep ==
  ASSUME TypeOK, SavesRef, QueueInv, [Next]_vars
  PROVE  QueueInv'
<1> USE RunAssumption
<1>1. CASE Stays
  BY <1>1 DEF Stays, QueueInv, Queued
<1>2. ASSUME NEW r \in Run, Refuses(r) PROVE QueueInv'
  BY <1>2 DEF Refuses, QueueInv, Queued, TypeOK
<1>3. ASSUME NEW r \in Run, Moves(r) PROVE QueueInv'
  <2>1. PICK p \in Executing : pc' = [pc EXCEPT ![r] = p]
    BY <1>3 DEF Moves
  <2>2. pc[r] \notin {"pending"} /\ p \notin {"pending"} /\ UNCHANGED pending
    BY <1>3 DEF Moves, Executing, Timed
  <2>3. \A q \in Run : pc'[q] = "pending" <=> pc[q] = "pending"
    BY <2>1, <2>2 DEF TypeOK
  <2>4. QED BY <2>2, <2>3 DEF QueueInv, Queued, TypeOK
<1>4. ASSUME NEW r \in Run, ReleaseSlot(r) PROVE QueueInv'
  BY <1>4 DEF ReleaseSlot, QueueInv, Queued, TypeOK
<1>5. ASSUME NEW c \in Conv, WorkerExit(c) PROVE QueueInv'
  BY <1>5 DEF WorkerExit, QueueInv, Queued
<1>6. ASSUME NEW r \in Run, SubmitAccepted(r) PROVE QueueInv'
  <2> DEFINE c == ConvOf[r]
             q == pending[c]
  <2>1. /\ c \in Conv /\ q \in Seq(Run) /\ Len(q) \in Nat
        /\ pc[r] = "new" /\ pc' = [pc EXCEPT ![r] = "pending"]
        /\ pending' = [pending EXCEPT ![c] = Append(q, r)]
    BY <1>6 DEF SubmitAccepted, TypeOK
  <2>2. /\ pending'[c] = Append(q, r)
        /\ \A d \in Conv \ {c} : pending'[d] = pending[d]
        /\ pc'[r] = "pending"
        /\ \A s \in Run \ {r} : pc'[s] = pc[s]
    BY <2>1 DEF TypeOK
  <2>3. /\ Len(pending'[c]) = Len(q) + 1
        /\ \A i \in 1..Len(q) : pending'[c][i] = q[i]
        /\ pending'[c][Len(q) + 1] = r
    BY <2>1, <2>2, AppendFacts
  <2>4. \A d \in Conv : \A i \in 1..Len(pending[d]) :
           pending[d][i] \in Run /\ pending[d][i] # r
    BY <2>1 DEF TypeOK, QueueInv
  <2>5. ASSUME NEW d \in Conv, NEW i \in 1..Len(pending'[d])
        PROVE  /\ ConvOf[pending'[d][i]] = d
               /\ pc'[pending'[d][i]] = "pending"
               /\ \A j \in 1..Len(pending'[d]) : pending'[d][i] = pending'[d][j] => i = j
    <3>1. CASE d # c
      BY <3>1, <2>2, <2>4 DEF QueueInv
    <3>2. CASE d = c /\ i = Len(q) + 1
      BY <3>2, <2>1, <2>2, <2>3, <2>4
    <3>3. CASE d = c /\ i \in 1..Len(q)
      BY <3>3, <2>1, <2>2, <2>3, <2>4 DEF QueueInv
    <3>4. QED BY <2>1, <2>3, <3>1, <3>2, <3>3
  <2>6. ASSUME NEW s \in Run, pc'[s] = "pending" PROVE Queued(ConvOf[s], s)'
    <3>1. CASE s = r
      <4>1. Len(q) + 1 \in 1..Len(pending'[c]) BY <2>1, <2>3
      <4>2. QED BY <3>1, <4>1, <2>3 DEF Queued
    <3>2. CASE s # r
      <4>1. PICK i \in 1..Len(pending[ConvOf[s]]) : pending[ConvOf[s]][i] = s
        BY <3>2, <2>2, <2>6 DEF QueueInv, Queued
      <4>2. i \in 1..Len(pending'[ConvOf[s]]) /\ pending'[ConvOf[s]][i] = s
        BY <4>1, <2>1, <2>2, <2>3
      <4>3. QED BY <4>2 DEF Queued
    <3>3. QED BY <3>1, <3>2
  <2>7. QED BY <2>5, <2>6 DEF QueueInv
<1>7. ASSUME NEW c \in Conv, Pop(c) PROVE QueueInv'
  <2> DEFINE q == pending[c]
  <2>1. /\ q \in Seq(Run) /\ q # <<>>
        /\ pending' = [pending EXCEPT ![c] = Tail(q)]
        /\ pc' = [pc EXCEPT ![Head(q)] = "popped"]
    BY <1>7 DEF Pop, TypeOK
  <2>2. /\ Len(q) \in Nat /\ Len(q) > 0 /\ Head(q) = q[1] /\ Head(q) \in Run
        /\ Len(Tail(q)) = Len(q) - 1
        /\ \A i \in 1..Len(q) - 1 : Tail(q)[i] = q[i + 1]
    BY <2>1, TailFacts
  <2>3. /\ pending'[c] = Tail(q)
        /\ \A d \in Conv \ {c} : pending'[d] = pending[d]
        /\ pc'[Head(q)] = "popped"
        /\ \A s \in Run \ {Head(q)} : pc'[s] = pc[s]
    BY <2>1, <2>2 DEF TypeOK
  <2>4. ASSUME NEW d \in Conv, NEW i \in 1..Len(pending'[d])
        PROVE  /\ ConvOf[pending'[d][i]] = d
               /\ pc'[pending'[d][i]] = "pending"
               /\ \A j \in 1..Len(pending'[d]) : pending'[d][i] = pending'[d][j] => i = j
    <3>1. CASE d # c
      <4>1. i \in 1..Len(pending[d]) /\ pending'[d] = pending[d] /\ pending[d] \in Seq(Run)
        BY <3>1, <2>3 DEF TypeOK
      <4>2. pending[d][i] \in Run /\ ConvOf[pending[d][i]] = d /\ pc[pending[d][i]] = "pending"
        BY <4>1 DEF QueueInv
      <4>3. 1 \in 1..Len(q) /\ ConvOf[Head(q)] = c
        BY <2>2 DEF QueueInv
      <4>4. pc'[pending[d][i]] = "pending"
        BY <4>2, <4>3, <3>1, <2>3
      <4>5. QED BY <4>1, <4>2, <4>4 DEF QueueInv
    <3>2. CASE d = c
      <4>1. \A k \in 1..Len(pending'[d]) : /\ k + 1 \in 1..Len(q)
                                           /\ pending'[d][k] = q[k + 1]
        BY <3>2, <2>2, <2>3
      <4>2. /\ q[i + 1] \in Run /\ q[i + 1] # q[1]
            /\ ConvOf[q[i + 1]] = c /\ pc[q[i + 1]] = "pending"
            /\ \A j \in 1..Len(q) : q[i + 1] = q[j] => i + 1 = j
        <5>1. i \in Nat /\ i + 1 \in 1..Len(q) /\ 1 \in 1..Len(q) /\ i + 1 # 1
          BY <4>1, <2>2
        <5>2. q[i + 1] \in Run
          BY <5>1, <2>1
        <5>3. QED BY <5>1, <5>2 DEF QueueInv
      <4>3. pc'[q[i + 1]] = "pending"
        BY <4>2, <2>2, <2>3
      <4>4. \A j \in 1..Len(pending'[d]) : pending'[d][i] = pending'[d][j] => i = j
        BY <4>1, <4>2, <2>2
      <4>5. QED BY <4>1, <4>2, <4>3, <4>4, <3>2
    <3>3. QED BY <3>1, <3>2
  <2>5. ASSUME NEW s \in Run, pc'[s] = "pending" PROVE Queued(ConvOf[s], s)'
    <3>1. s # Head(q) /\ pc[s] = "pending"
      BY <2>2, <2>3, <2>5
    <3>2. PICK i \in 1..Len(pending[ConvOf[s]]) : pending[ConvOf[s]][i] = s
      BY <3>1 DEF QueueInv, Queued
    <3>3. CASE ConvOf[s] # c
      BY <3>2, <3>3, <2>3 DEF Queued
    <3>4. CASE ConvOf[s] = c
      <4>1. i # 1 BY <3>1, <3>2, <3>4, <2>2
      <4>2. i - 1 \in 1..Len(q) - 1 /\ pending'[c][i - 1] = s
        BY <4>1, <3>2, <3>4, <2>2, <2>3
      <4>3. QED BY <4>2, <3>4, <2>2, <2>3 DEF Queued
    <3>5. QED BY <3>3, <3>4
  <2>6. QED BY <2>4, <2>5 DEF QueueInv
<1>8. QED BY <1>1, <1>2, <1>3, <1>4, <1>5, <1>6, <1>7, NextShape

\* The worker invariant and seriality survive every step.
LEMMA WorkerStep ==
  ASSUME TypeOK, SavesRef, SerialInv, [Next]_vars
  PROVE  WorkerInv' /\ SerialPerConversation'
<1> USE RunAssumption DEF SerialInv
<1>1. CASE Stays
  BY <1>1 DEF Stays, WorkerInv, Busy, SerialPerConversation
<1>2. ASSUME NEW r \in Run, Refuses(r) PROVE WorkerInv' /\ SerialPerConversation'
  <2>1. \A s \in Run : pc'[s] \in Executing <=> pc[s] \in Executing
    BY <1>2 DEF Refuses, TypeOK, Executing, Timed
  <2>2. QED BY <1>2, <2>1 DEF Refuses, WorkerInv, Busy, SerialPerConversation
<1>3. ASSUME NEW r \in Run, Moves(r) PROVE WorkerInv' /\ SerialPerConversation'
  <2>1. \A s \in Run : pc'[s] \in Executing <=> pc[s] \in Executing
    BY <1>3 DEF Moves, TypeOK
  <2>2. QED BY <1>3, <2>1 DEF Moves, WorkerInv, Busy, SerialPerConversation
<1>4. ASSUME NEW r \in Run, ReleaseSlot(r) PROVE WorkerInv' /\ SerialPerConversation'
  <2> DEFINE c == ConvOf[r]
  <2>1. /\ c \in Conv /\ pc[r] \in Executing /\ pc'[r] \notin Executing
        /\ \A s \in Run \ {r} : pc'[s] = pc[s]
        /\ UNCHANGED <<running, pending>>
        /\ loops' = [loops EXCEPT ![c] = @ + 1]
    BY <1>4 DEF ReleaseSlot, TypeOK, Executing, Timed
  <2>2. Busy(c) /\ loops[c] = 0 /\ running[c] = TRUE
    BY <2>1 DEF Busy, WorkerInv, TypeOK
  <2>3. \A s \in Run : ConvOf[s] = c => pc'[s] \notin Executing
    BY <2>1 DEF SerialPerConversation
  <2>4. \A d \in Conv \ {c} : (Busy(d)' <=> Busy(d)) /\ loops'[d] = loops[d]
    BY <2>1 DEF Busy, TypeOK
  <2>5. loops'[c] = 1 /\ ~Busy(c)'
    BY <2>1, <2>2, <2>3 DEF Busy, TypeOK
  <2>6. WorkerInv'
    BY <2>1, <2>2, <2>4, <2>5 DEF WorkerInv
  <2>7. SerialPerConversation'
    BY <2>1 DEF SerialPerConversation
  <2>8. QED BY <2>6, <2>7
<1>5. ASSUME NEW c \in Conv, WorkerExit(c) PROVE WorkerInv' /\ SerialPerConversation'
  BY <1>5 DEF WorkerExit, WorkerInv, Busy, SerialPerConversation, TypeOK
<1>6. ASSUME NEW r \in Run, SubmitAccepted(r)
      PROVE  WorkerInv' /\ SerialPerConversation'
  <2> DEFINE c == ConvOf[r]
  <2>1. /\ c \in Conv
        /\ \A s \in Run : pc'[s] \in Executing <=> pc[s] \in Executing
        /\ running' = [running EXCEPT ![c] = TRUE]
        /\ loops' = [loops EXCEPT ![c] = IF ~running[c] THEN @ + 1 ELSE @]
        /\ \A d \in Conv \ {c} : pending'[d] = pending[d]
    BY <1>6 DEF SubmitAccepted, StartsWorker, TypeOK, Executing, Timed
  <2>2. \A d \in Conv : Busy(d)' <=> Busy(d)
    BY <2>1 DEF Busy
  <2>3. \A d \in Conv \ {c} : running'[d] = running[d] /\ loops'[d] = loops[d]
    BY <2>1 DEF TypeOK
  <2>4. /\ running'[c] = TRUE /\ loops'[c] \in {0, 1}
        /\ loops'[c] = 1 => ~Busy(c)
        /\ loops'[c] = 0 => Busy(c)
    <3>1. CASE running[c] = TRUE
      BY <3>1, <2>1 DEF TypeOK, WorkerInv
    <3>2. CASE running[c] = FALSE
      BY <3>2, <2>1 DEF TypeOK, WorkerInv
    <3>3. QED BY <3>1, <3>2, <2>1 DEF TypeOK
  <2>5. WorkerInv'
    BY <2>1, <2>2, <2>3, <2>4 DEF WorkerInv
  <2>6. QED BY <2>1, <2>5 DEF SerialPerConversation
<1>7. ASSUME NEW c \in Conv, Pop(c) PROVE WorkerInv' /\ SerialPerConversation'
  <2> DEFINE h == Head(pending[c])
  <2>1. h = pending[c][1] /\ h \in Run /\ 1 \in 1..Len(pending[c])
    BY <1>7, TailFacts DEF Pop, TypeOK
  <2>2. ConvOf[h] = c
    BY <2>1 DEF QueueInv
  <2>3. /\ pc'[h] \in Executing
        /\ \A s \in Run \ {h} : pc'[s] = pc[s]
        /\ UNCHANGED running
        /\ \A d \in Conv \ {c} : loops'[d] = loops[d] /\ pending'[d] = pending[d]
        /\ loops'[c] = loops[c] - 1 /\ loops[c] > 0
    BY <1>7, <2>1 DEF Pop, TypeOK, Executing
  <2>4. loops[c] = 1 /\ ~Busy(c) /\ running[c] = TRUE /\ loops'[c] = 0
    BY <2>3 DEF WorkerInv
  <2>5. Busy(c)' /\ \A d \in Conv \ {c} : Busy(d)' <=> Busy(d)
    BY <2>1, <2>2, <2>3 DEF Busy
  <2>6. WorkerInv'
    BY <2>3, <2>4, <2>5 DEF WorkerInv
  <2>7. SerialPerConversation'
    BY <2>1, <2>2, <2>3, <2>4 DEF SerialPerConversation, Busy
  <2>8. QED BY <2>6, <2>7
<1>8. QED BY <1>1, <1>2, <1>3, <1>4, <1>5, <1>6, <1>7, NextShape

\* Every step keeps the worker invariant and seriality, so they always hold.
LEMMA SerialInvariant == Spec => []SerialInv
<1>1. Init => SerialInv
  BY RunAssumption DEF Init, SerialInv, QueueInv, Queued, WorkerInv, Busy,
                       SerialPerConversation, Executing, Timed
<1>2. TypeOK /\ SavesRef /\ SerialInv /\ [Next]_vars => SerialInv'
  BY QueueStep, WorkerStep DEF SerialInv
<1>3. QED BY <1>1, <1>2, TypeCorrect, PTL DEF Spec

\* No two runs of a conversation are executed at once, whatever the number of
\* runs, conversations and slots.
THEOREM Serial == Spec => []SerialPerConversation
<1>1. SerialInv => SerialPerConversation BY DEF SerialInv
<1>2. QED BY <1>1, SerialInvariant, PTL

\* A queued run always has a worker that will come back for it.
THEOREM NoneStranded == Spec => []NoStrandedRun
<1>1. TypeOK /\ SerialInv => NoStrandedRun
  BY DEF TypeOK, SerialInv, WorkerInv, Busy, NoStrandedRun
<1>2. QED BY <1>1, SerialInvariant, TypeCorrect, PTL

-----------------------------------------------------------------------------
\* Who holds a slot and whose session is open, by stage.
NeedsSlot == Timed \cup {"acquired", "held", "publishing"}
MayHoldSlot == NeedsSlot \cup {"removing", "closing", "releasing"}
MayBeLive == {"turning", "returned", "unmarked", "saving", "removing", "closing"}
SlotOf(r) == /\ r \in live => r \in holders /\ pc[r] \in MayBeLive
             /\ pc[r] \in NeedsSlot => r \in holders
             /\ r \in holders => pc[r] \in MayHoldSlot
SlotInv == /\ \A r \in Run : SlotOf(r)
           /\ Cardinality(holders) =< MaxConcurrentRuns

\* Only the step of the run itself changes what SlotOf says of it.
LEMMA SlotStep ==
  ASSUME TypeOK, SavesRef, QueueInv, SlotInv, [Next]_vars
  PROVE  SlotInv'
<1> USE DEF NeedsSlot, MayHoldSlot, MayBeLive, Timed
<1>0. IsFiniteSet(holders) /\ Cardinality(holders) \in Nat
  BY RunAssumption, FS_Subset, FS_CardinalityType DEF TypeOK
<1>1. ASSUME UNCHANGED <<pc, holders, live>> PROVE SlotInv'
  BY <1>1 DEF SlotInv, SlotOf
<1>2. ASSUME NEW r \in Run, Refuses(r), UNCHANGED <<holders, live>> PROVE SlotInv'
  BY <1>2 DEF Refuses, SlotInv, SlotOf, TypeOK
<1>3. ASSUME NEW r \in Run, SubmitAccepted(r) PROVE SlotInv'
  BY <1>3 DEF SubmitAccepted, SlotInv, SlotOf, TypeOK, Turns
<1>4. ASSUME NEW c \in Conv, Pop(c) PROVE SlotInv'
  <2>1. Head(pending[c]) = pending[c][1] /\ Head(pending[c]) \in Run /\ 1 \in 1..Len(pending[c])
    BY <1>4, TailFacts DEF Pop, TypeOK
  <2>2. pc[Head(pending[c])] = "pending" /\ pc' = [pc EXCEPT ![Head(pending[c])] = "popped"]
    BY <1>4, <2>1 DEF Pop, QueueInv
  <2>3. UNCHANGED <<holders, live>>
    BY <1>4 DEF Pop, Turns
  <2>4. QED BY <2>1, <2>2, <2>3 DEF SlotInv, SlotOf, TypeOK
<1>5. ASSUME NEW r \in Run, Execute(r) \/ TurnReturns(r) PROVE SlotInv'
  <2> SUFFICES /\ SlotOf(r)'
               /\ \A s \in Run \ {r} : pc'[s] = pc[s] /\ (s \in live' <=> s \in live)
                                       /\ (s \in holders' <=> s \in holders)
               /\ Cardinality(holders') =< MaxConcurrentRuns
    BY DEF SlotInv, SlotOf
  <2> USE DEF SlotInv, SlotOf, TypeOK, Goto, Complete, Turns
  <2>1. CASE TakeSlot(r)
    <3>1. r \notin holders
      BY <2>1 DEF TakeSlot
    <3>2. Cardinality(holders \cup {r}) = Cardinality(holders) + 1
      BY <3>1, <1>0, FS_AddElement
    <3>3. Cardinality(holders') =< MaxConcurrentRuns
      BY <2>1, <3>2, <1>0, RunAssumption DEF TakeSlot
    <3>4. /\ pc' = [pc EXCEPT ![r] = "acquired"] /\ live' = live
          /\ holders' = holders \cup {r} /\ pc[r] = "acquiring"
      BY <2>1 DEF TakeSlot
    <3>5. QED BY <3>3, <3>4
  <2>2. ASSUME holders' = holders \ {r} PROVE Cardinality(holders') =< MaxConcurrentRuns
    <3>1. Cardinality(holders') =< Cardinality(holders) /\ Cardinality(holders') \in Nat
      BY <2>2, <1>0, FS_Subset, FS_CardinalityType
    <3>2. QED BY <3>1, <1>0, RunAssumption
  <2>3. CASE CheckSlot(r) BY <2>3, <2>2 DEF CheckSlot
  <2>4. CASE ReleaseSlot(r) BY <2>4, <2>2 DEF ReleaseSlot
  <2>5. CASE FirstCheck(r) BY <2>5 DEF FirstCheck
  <2>6. CASE AbortWait(r) BY <2>6 DEF AbortWait
  <2>7. CASE SecondCheck(r) BY <2>7 DEF SecondCheck
  <2>8. CASE PublishStart(r) BY <2>8 DEF PublishStart
  <2>9. CASE LoadSessionRef(r) BY <2>9 DEF LoadSessionRef
  <2>10. CASE ProviderStart(r) BY <2>10 DEF ProviderStart
  <2>11. CASE DeleteSessionRef(r) BY <2>11 DEF DeleteSessionRef
  <2>12. CASE TurnReturns(r) BY <2>12 DEF TurnReturns
  <2>13. CASE CheckMark(r) BY <2>13 DEF CheckMark
  <2>14. CASE CheckContext(r) BY <2>14 DEF CheckContext
  <2>15. CASE SaveSessionRef(r) BY <2>15 DEF SaveSessionRef
  <2>16. CASE Remove(r) BY <2>16 DEF Remove
  <2>17. CASE CloseSession(r) BY <2>17 DEF CloseSession
  <2>18. QED BY <1>5, <2>1, <2>3, <2>4, <2>5, <2>6, <2>7, <2>8, <2>9, <2>10, <2>11,
                <2>12, <2>13, <2>14, <2>15, <2>16, <2>17 DEF Execute
<1>6. ASSUME NEW r \in Run, SubmitRejected(r) \/ SubmitOverflow(r)
      PROVE  Refuses(r) /\ UNCHANGED <<holders, live>>
  BY <1>6 DEF SubmitRejected, SubmitOverflow, Refuses, Turns, Queueing
<1>7. ASSUME NEW r \in Run, Cancel(r) \/ CancelContext(r) \/ DeadlinePasses(r)
      PROVE  UNCHANGED <<pc, holders, live>>
  BY <1>7 DEF Cancel, CancelContext, DeadlinePasses, Turns
<1>8. ASSUME NEW c \in Conv, WorkerExit(c) PROVE UNCHANGED <<pc, holders, live>>
  BY <1>8 DEF WorkerExit, Turns
<1>9. ShutdownBegin \/ Stopper \/ UNCHANGED vars => UNCHANGED <<pc, holders, live>>
  BY DEF ShutdownBegin, Stopper, ShutdownInterrupt, ShutdownWait, ShutdownReturn, Turns, vars
<1>10. QED BY <1>1, <1>2, <1>3, <1>4, <1>5, <1>6, <1>7, <1>8, <1>9
           DEF Next, Submit, Loop, Quiet

\* Every step keeps the slot invariant, so it always holds.
LEMMA SlotInvariant == Spec => []SlotInv
<1>1. Init => SlotInv
  <2>1. Cardinality({}) = 0 BY FS_EmptySet
  <2>2. QED BY <2>1, RunAssumption DEF Init, SlotInv, SlotOf, NeedsSlot, Timed
<1>2. TypeOK /\ SavesRef /\ SerialInv /\ SlotInv /\ [Next]_vars => SlotInv'
  BY SlotStep DEF SerialInv
<1>3. QED BY <1>1, <1>2, TypeCorrect, SerialInvariant, PTL DEF Spec

\* Never more provider sessions than slots, though the result of a run is
\* delivered before its session is closed and its slot released.
THEOREM Bounded == Spec => []SessionsBounded
<1>1. TypeOK /\ SlotInv => SessionsBounded
  <2> SUFFICES ASSUME TypeOK, SlotInv PROVE Cardinality(live) =< MaxConcurrentRuns
    BY DEF SessionsBounded
  <2>1. IsFiniteSet(holders) /\ live \subseteq holders
    BY RunAssumption, FS_Subset DEF TypeOK, SlotInv, SlotOf
  <2>2. /\ Cardinality(live) =< Cardinality(holders)
        /\ Cardinality(live) \in Nat /\ Cardinality(holders) \in Nat
    BY <2>1, FS_Subset, FS_CardinalityType
  <2>3. QED BY <2>2, RunAssumption DEF SlotInv
<1>2. QED BY <1>1, SlotInvariant, TypeCorrect, PTL

-----------------------------------------------------------------------------
\* The job table, the results and the cancellations, run by run.
JobOf(r) ==
  /\ r \in jobs <=> pc[r] \in {"pending"} \cup (Executing \ {"closing", "releasing"})
  /\ pc[r] \in {"new", "pending"} \cup Undelivered => outcome[r] = None
  /\ pc[r] \in {"removing", "closing", "releasing", "gone"} => outcome[r] # None
  /\ r \in ctx \cup cancelling => mark[r] # None \/ outcome[r] # None
  /\ outcome[r] = "canceled" => mark[r] = "canceled"
IdsUnique == \A r, s \in jobs : IdOf[r] = IdOf[s] => r = s
DeliveryInv == IdsUnique /\ \A r \in Run : JobOf(r)

\* The delivery invariant survives every step.
LEMMA DeliveryStep ==
  ASSUME TypeOK, SavesRef, QueueInv, DeliveryInv, [Next]_vars
  PROVE  DeliveryInv'
<1> USE RunAssumption DEF Executing, Timed, Undelivered
<1>1. CASE UNCHANGED <<pc, jobs, outcome, ctx, cancelling, mark>>
  BY <1>1 DEF DeliveryInv, IdsUnique, JobOf
<1>2. ASSUME NEW r \in Run, SubmitRejected(r) PROVE DeliveryInv'
  BY <1>2 DEF SubmitRejected, DeliveryInv, IdsUnique, JobOf, TypeOK
<1>3. ASSUME NEW r \in Run, SubmitOverflow(r) PROVE DeliveryInv'
  BY <1>3 DEF SubmitOverflow, DeliveryInv, IdsUnique, JobOf, TypeOK
<1>4. ASSUME NEW r \in Run, SubmitAccepted(r) PROVE DeliveryInv'
  <2>1. IdsUnique'
    BY <1>4 DEF SubmitAccepted, Registered, DeliveryInv, IdsUnique
  <2>2. ASSUME NEW s \in Run PROVE JobOf(s)'
    BY <1>4 DEF SubmitAccepted, DeliveryInv, JobOf, TypeOK
  <2>3. QED BY <2>1, <2>2 DEF DeliveryInv
<1>5. ASSUME NEW r \in Run, NEW s \in {"canceled", "interrupted"},
             mark' = [mark EXCEPT ![r] = IF @ = None THEN s ELSE @],
             cancelling' = (cancelling \cup {r}) \ ctx,
             UNCHANGED <<pc, jobs, outcome, ctx>>
      PROVE  DeliveryInv'
  <2>1. \A q \in Run : /\ mark[q] # None => mark'[q] = mark[q]
                       /\ mark'[r] # None
    BY <1>5 DEF TypeOK
  <2>2. ASSUME NEW q \in Run PROVE JobOf(q)'
    <3>1. q \in cancelling' => q = r \/ q \in cancelling
      BY <1>5
    <3>2. outcome[q] = "canceled" => mark'[q] = "canceled"
      BY <2>1 DEF DeliveryInv, JobOf
    <3>3. q \in ctx \cup cancelling' => mark'[q] # None \/ outcome[q] # None
      BY <3>1, <2>1 DEF DeliveryInv, JobOf
    <3>4. QED BY <1>5, <3>2, <3>3 DEF DeliveryInv, JobOf
  <2>3. IdsUnique' BY <1>5 DEF DeliveryInv, IdsUnique
  <2>4. QED BY <2>2, <2>3 DEF DeliveryInv
<1>6. ASSUME NEW r \in Run, CancelContext(r) PROVE DeliveryInv'
  BY <1>6 DEF CancelContext, DeliveryInv, IdsUnique, JobOf, TypeOK
<1>7. ASSUME NEW c \in Conv, Pop(c) PROVE DeliveryInv'
  <2> DEFINE h == Head(pending[c])
  <2>1. h = pending[c][1] /\ h \in Run /\ 1 \in 1..Len(pending[c])
    BY <1>7, TailFacts DEF Pop, TypeOK
  <2>2. pc[h] = "pending" /\ pc' = [pc EXCEPT ![h] = "popped"]
    BY <1>7, <2>1 DEF Pop, QueueInv
  <2>3. UNCHANGED <<jobs, outcome, ctx, cancelling, mark>>
    BY <1>7 DEF Pop
  <2> HIDE DEF h
  <2>4. QED BY <2>1, <2>2, <2>3 DEF DeliveryInv, IdsUnique, JobOf, TypeOK
<1>8. ASSUME NEW r \in Run, Goes(r) PROVE DeliveryInv'
  <2>1. PICK p \in Undelivered : Goto(r, p) BY <1>8 DEF Goes
  <2>2. QED BY <1>8, <2>1 DEF Goes, Goto, DeliveryInv, IdsUnique, JobOf, TypeOK
<1>9. ASSUME NEW r \in Run, Completes(r) PROVE DeliveryInv'
  <2>1. PICK s \in Status \ {"overflow"} :
           /\ s = "canceled" => mark[r] = "canceled" \/ (mark[r] = None /\ r \in ctx)
           /\ Complete(r, s)
    BY <1>9 DEF Completes
  <2>2. pc[r] \in Undelivered /\ outcome[r] = None /\ (r \in ctx => mark[r] # None)
    BY <1>9 DEF Completes, DeliveryInv, JobOf
  <2>3. s # None /\ (s = "canceled" => mark[r] = "canceled")
    BY <2>1, <2>2 DEF Status
  <2>4. /\ pc' = [pc EXCEPT ![r] = "removing"] /\ ctx' = ctx \cup {r}
        /\ outcome'[r] = s /\ \A q \in Run \ {r} : outcome'[q] = outcome[q]
        /\ cancelling' = cancelling \ {r}
        /\ UNCHANGED <<jobs, mark>>
    BY <2>1, <2>2 DEF Complete, TypeOK
  <2>5. ASSUME NEW q \in Run PROVE JobOf(q)'
    BY <2>2, <2>3, <2>4 DEF DeliveryInv, JobOf, TypeOK
  <2>6. QED BY <2>4, <2>5 DEF DeliveryInv, IdsUnique
<1>10. ASSUME NEW r \in Run, Remove(r) PROVE DeliveryInv'
  <2>1. r \in jobs /\ pc[r] = "removing"
    BY <1>10 DEF Remove, DeliveryInv, JobOf
  <2>2. jobs' = jobs \ {r}
    BY <1>10, <2>1 DEF Remove, DeliveryInv, IdsUnique, TypeOK
  <2>3. /\ pc'[r] \in {"closing", "releasing"}
        /\ \A q \in Run \ {r} : pc'[q] = pc[q]
        /\ UNCHANGED <<mark, cancelling, ctx, outcome>>
    BY <1>10 DEF Remove, TypeOK
  <2>4. ASSUME NEW q \in Run PROVE JobOf(q)'
    BY <2>1, <2>2, <2>3 DEF DeliveryInv, JobOf
  <2>5. QED BY <2>2, <2>4 DEF DeliveryInv, IdsUnique
<1>11. ASSUME NEW r \in Run, CloseSession(r) \/ ReleaseSlot(r) PROVE DeliveryInv'
  BY <1>11 DEF CloseSession, ReleaseSlot, Goto, DeliveryInv, IdsUnique, JobOf, TypeOK
<1>12. ASSUME NEW r \in Run, Cancel(r) PROVE DeliveryInv'
  BY <1>12, <1>5 DEF Cancel, MarkCanceled
<1>13. ASSUME NEW r \in Run, ShutdownInterrupt(r) PROVE DeliveryInv'
  BY <1>13, <1>5 DEF ShutdownInterrupt, MarkCanceled
<1>14. ASSUME NEW r \in Run, DeadlinePasses(r) PROVE DeliveryInv'
  BY <1>14, <1>1 DEF DeadlinePasses
<1>15. ASSUME NEW c \in Conv, WorkerExit(c) PROVE DeliveryInv'
  BY <1>15, <1>1 DEF WorkerExit
<1>16. CASE ShutdownBegin \/ ShutdownWait \/ ShutdownReturn \/ UNCHANGED vars
  BY <1>16, <1>1 DEF ShutdownBegin, ShutdownWait, ShutdownReturn, vars
<1>17. ASSUME NEW r \in Run, Execute(r) \/ TurnReturns(r) PROVE DeliveryInv'
  BY <1>17, <1>8, <1>9, <1>10, <1>11, StepShape
<1>18. QED BY <1>2, <1>3, <1>4, <1>6, <1>7, <1>12, <1>13, <1>14, <1>15, <1>16, <1>17
           DEF Next, Submit, Loop, Stopper, Quiet

\* Every step keeps the delivery invariant, so it always holds.
LEMMA DeliveryInvariant == Spec => []DeliveryInv
<1>1. Init => DeliveryInv
  BY RunAssumption
     DEF Init, DeliveryInv, IdsUnique, JobOf, Executing, Timed, Undelivered
<1>2. TypeOK /\ SavesRef /\ SerialInv /\ DeliveryInv /\ [Next]_vars => DeliveryInv'
  BY DeliveryStep DEF SerialInv
<1>3. QED BY <1>1, <1>2, TypeCorrect, SerialInvariant, PTL DEF Spec

\* Cancel and Shutdown find every unfinished run in the table and no other,
\* though a run ID may be used again once its run is removed.
THEOREM TableExact == Spec => []JobTableExact
<1>1. DeliveryInv => JobTableExact BY DEF DeliveryInv, JobOf, JobTableExact
<1>2. QED BY <1>1, DeliveryInvariant, PTL

\* "canceled" is never reported of a run only Shutdown interrupted.
THEOREM CanceledHonest == Spec => []CanceledOnRequest
<1>1. DeliveryInv => CanceledOnRequest BY DEF DeliveryInv, JobOf, CanceledOnRequest
<1>2. QED BY <1>1, DeliveryInvariant, PTL

-----------------------------------------------------------------------------
\* Shutdown's workers.Wait: after it no goroutine of the manager is left.
QuietInv == shutdown = "returned" =>
              /\ \A c \in Conv : loops[c] = 0
              /\ \A r \in Run : pc[r] \notin Executing

\* After Shutdown returned no step brings a worker back.
LEMMA QuietStep ==
  ASSUME TypeOK, SavesRef, QuietInv, [Next]_vars
  PROVE  QuietInv'
<1>1. ShutdownReturn => QuietInv'
  BY DEF ShutdownReturn, Queueing, QuietInv
<1>2. ASSUME ~ShutdownReturn, shutdown' = "returned" PROVE shutdown = "returned"
  <2>1. ASSUME NEW r \in Run, Execute(r) \/ TurnReturns(r) PROVE shutdown' = shutdown
    BY <2>1, StepShape DEF Goes, Completes, Goto, Complete, Remove, CloseSession,
                           ReleaseSlot, Stopping
  <2>2. QED BY <1>2, <2>1
            DEF Next, Submit, SubmitRejected, SubmitOverflow, SubmitAccepted, Cancel,
                CancelContext, DeadlinePasses, Loop, Pop, WorkerExit, ShutdownBegin,
                Stopper, ShutdownInterrupt, ShutdownWait, Quiet, Stopping, vars
<1>3. ASSUME shutdown = "returned" PROVE QuietInv'
  <2> USE <1>3 DEF QuietInv
  <2>1. CASE Stays BY <2>1 DEF Stays
  <2>2. ASSUME NEW r \in Run, Refuses(r) PROVE QuietInv'
    BY <2>2 DEF Refuses, TypeOK, Executing, Timed
  <2>3. ASSUME NEW r \in Run, Moves(r) \/ SubmitAccepted(r) \/ ReleaseSlot(r)
        PROVE  FALSE
    BY <2>3 DEF Moves, SubmitAccepted, ReleaseSlot, stopped, Executing
  <2>4. ASSUME NEW c \in Conv, Pop(c) \/ WorkerExit(c) PROVE FALSE
    BY <2>4 DEF Pop, WorkerExit
  <2>5. QED BY <2>1, <2>2, <2>3, <2>4, NextShape
<1>4. CASE ShutdownReturn BY <1>1, <1>4
<1>5. CASE ~ShutdownReturn /\ shutdown' = "returned" BY <1>2, <1>3, <1>5
<1>6. CASE shutdown' # "returned" BY <1>6 DEF QuietInv
<1>7. QED BY <1>4, <1>5, <1>6

\* When Shutdown returns, no session, slot, queued run or owed result is left.
THEOREM NothingLeft == Spec => []NothingLeftAfterShutdown
<1>1. Init => QuietInv
  BY DEF Init, QuietInv
<1>2. TypeOK /\ SavesRef /\ QuietInv /\ [Next]_vars => QuietInv'
  BY QuietStep
<1>3. Spec => []QuietInv
  BY <1>1, <1>2, TypeCorrect, PTL DEF Spec
<1>4. TypeOK /\ SerialInv /\ SlotInv /\ DeliveryInv /\ QuietInv => NothingLeftAfterShutdown
  <2> SUFFICES ASSUME TypeOK, SerialInv, SlotInv, DeliveryInv, QuietInv,
                      shutdown = "returned"
               PROVE  /\ jobs = {} /\ live = {} /\ holders = {}
                      /\ \A c \in Conv : pending[c] = <<>>
                      /\ \A r \in Run : pc[r] \in {"new", "refused"} \/ outcome[r] # None
    BY DEF NothingLeftAfterShutdown
  <2>1. /\ \A c \in Conv : loops[c] = 0
        /\ \A r \in Run : pc[r] \notin Executing
    BY DEF QuietInv
  <2>2. \A c \in Conv : pending[c] = <<>>
    BY <2>1 DEF SerialInv, WorkerInv, Busy, TypeOK
  <2>3. \A r \in Run : pc[r] # "pending"
    BY <2>2, RunAssumption DEF SerialInv, QueueInv, Queued
  <2>4. \A r \in Run : pc[r] \in {"new", "refused", "gone"}
    BY <2>1, <2>3 DEF TypeOK, Stage
  <2>5. jobs = {}
    BY <2>1, <2>3 DEF DeliveryInv, JobOf, TypeOK
  <2>6. holders = {} /\ live = {}
    BY <2>4 DEF SlotInv, SlotOf, MayHoldSlot, NeedsSlot, Timed, TypeOK
  <2>7. \A r \in Run : pc[r] \in {"new", "refused"} \/ outcome[r] # None
    BY <2>4 DEF DeliveryInv, JobOf
  <2>8. QED BY <2>2, <2>5, <2>6, <2>7
<1>5. QED BY <1>3, <1>4, TypeCorrect, SerialInvariant, SlotInvariant, DeliveryInvariant, PTL

-----------------------------------------------------------------------------
\* A delivered result is final: no second complete() reaches the same job.
THEOREM ResultOnce == Spec => OneResult
<1>1. ASSUME TypeOK, SavesRef, DeliveryInv, [Next]_vars
      PROVE  [\A r \in Run : outcome[r] # None => outcome'[r] = outcome[r]]_outcome
  <2> SUFFICES ASSUME NEW q \in Run, outcome[q] # None PROVE outcome'[q] = outcome[q]
    OBVIOUS
  <2>1. ASSUME NEW r \in Run, Execute(r) \/ TurnReturns(r) PROVE outcome'[q] = outcome[q]
    <3>1. CASE Goes(r) BY <3>1 DEF Goes, Goto
    <3>2. CASE Completes(r) BY <1>1, <3>2 DEF Completes, Complete, TypeOK
    <3>3. CASE Remove(r) \/ CloseSession(r) \/ ReleaseSlot(r)
      BY <3>3 DEF Remove, CloseSession, ReleaseSlot, Goto
    <3>4. QED BY <1>1, <2>1, <3>1, <3>2, <3>3, StepShape
  <2>2. ASSUME NEW r \in Run, SubmitOverflow(r) PROVE outcome'[q] = outcome[q]
    BY <1>1, <2>2 DEF SubmitOverflow, DeliveryInv, JobOf, TypeOK
  <2>3. ASSUME NEW r \in Run, \/ SubmitRejected(r) \/ SubmitAccepted(r) \/ Cancel(r)
                              \/ CancelContext(r) \/ DeadlinePasses(r) \/ ShutdownInterrupt(r)
        PROVE  outcome' = outcome
    BY <2>3 DEF SubmitRejected, SubmitAccepted, Cancel, CancelContext, DeadlinePasses,
                ShutdownInterrupt
  <2>4. ASSUME NEW c \in Conv, Pop(c) \/ WorkerExit(c) PROVE outcome' = outcome
    BY <2>4 DEF Pop, WorkerExit
  <2>5. ShutdownBegin \/ ShutdownWait \/ ShutdownReturn \/ UNCHANGED vars => outcome' = outcome
    BY DEF ShutdownBegin, ShutdownWait, ShutdownReturn, vars
  <2>6. QED BY <1>1, <2>1, <2>2, <2>3, <2>4, <2>5 DEF Next, Submit, Loop, Stopper, Quiet
<1>2. QED BY <1>1, TypeCorrect, DeliveryInvariant, PTL DEF Spec, OneResult

\* The stored reference a turn resumed is still the stored one when the turn
\* saves its own: seriality is what protects the unlocked read and write.
UsesRef == {"starting", "forgetting", "turning", "returned", "unmarked", "saving"}

\* No step of another run, and no step of its own but the save, separates the
\* reference a turn resumed from the stored one.
LEMMA RefStep ==
  ASSUME TypeOK, SavesRef, SerialInv, SessionRefCurrent, [Next]_vars
  PROVE  SessionRefCurrent'
<1> USE RunAssumption
<1> SUFFICES ASSUME NEW q \in Run, pc'[q] \in UsesRef
             PROVE  startRef'[q] = stored'[ConvOf[q]]
  BY DEF SessionRefCurrent, UsesRef
<1>1. CASE pc[q] \in UsesRef /\ UNCHANGED <<startRef, stored>>
  BY <1>1 DEF SessionRefCurrent, UsesRef
<1>2. ASSUME NEW r \in Run, Execute(r) \/ TurnReturns(r)
      PROVE  startRef'[q] = stored'[ConvOf[q]]
  <2>1. CASE r = q
    <3> USE DEF SessionRefCurrent, UsesRef, Goto, Complete, TypeOK, Turns
    <3>1. CASE FirstCheck(r) \/ TakeSlot(r) \/ AbortWait(r) \/ CheckSlot(r)
      BY <2>1, <3>1 DEF FirstCheck, TakeSlot, AbortWait, CheckSlot
    <3>2. CASE SecondCheck(r) \/ PublishStart(r) \/ TurnReturns(r)
      BY <2>1, <3>2 DEF SecondCheck, PublishStart, TurnReturns
    <3>3. CASE LoadSessionRef(r) BY <2>1, <3>3 DEF LoadSessionRef
    <3>4. CASE ProviderStart(r) BY <2>1, <3>4 DEF ProviderStart
    <3>5. CASE DeleteSessionRef(r) BY <2>1, <3>5 DEF DeleteSessionRef
    <3>6. CASE CheckMark(r) BY <2>1, <3>6 DEF CheckMark
    <3>7. CASE CheckContext(r) BY <2>1, <3>7 DEF CheckContext
    <3>8. CASE SaveSessionRef(r) BY <2>1, <3>8 DEF SaveSessionRef
    <3>9. CASE Remove(r) \/ CloseSession(r) \/ ReleaseSlot(r)
      BY <2>1, <3>9 DEF Remove, CloseSession, ReleaseSlot
    <3>10. QED BY <1>2, <3>1, <3>2, <3>3, <3>4, <3>5, <3>6, <3>7, <3>8, <3>9 DEF Execute
  <2>2. CASE r # q
    <3>1. pc[r] \in Executing
      BY <1>2, StepShape
    <3>2. pc'[q] = pc[q]
      <4>1. CASE Goes(r) BY <2>2, <4>1 DEF Goes, Goto, TypeOK
      <4>2. CASE Completes(r) BY <2>2, <4>2 DEF Completes, Complete, TypeOK
      <4>3. CASE Remove(r) \/ CloseSession(r) \/ ReleaseSlot(r)
        BY <2>2, <4>3 DEF Remove, CloseSession, ReleaseSlot, Goto, TypeOK
      <4>4. QED BY <1>2, <4>1, <4>2, <4>3, StepShape
    <3>3. ConvOf[r] # ConvOf[q]
      BY <2>2, <3>1, <3>2 DEF SerialInv, SerialPerConversation, UsesRef, Executing, Timed
    <3>4. startRef'[q] = startRef[q] /\ stored'[ConvOf[q]] = stored[ConvOf[q]]
      <4>1. CASE LoadSessionRef(r) \/ DeleteSessionRef(r) \/ SaveSessionRef(r)
        BY <2>2, <3>3, <4>1 DEF LoadSessionRef, DeleteSessionRef, SaveSessionRef, TypeOK
      <4>2. CASE ReleaseSlot(r)
        BY <2>2, <4>2 DEF ReleaseSlot, TypeOK
      <4>3. CASE ProviderStart(r) \/ TurnReturns(r) \/ CloseSession(r)
        BY <4>3 DEF ProviderStart, TurnReturns, CloseSession
      <4>4. CASE FirstCheck(r) \/ TakeSlot(r) \/ AbortWait(r) \/ CheckSlot(r) \/ SecondCheck(r)
        BY <4>4 DEF FirstCheck, TakeSlot, AbortWait, CheckSlot, SecondCheck, Turns
      <4>5. CASE PublishStart(r) \/ CheckMark(r) \/ CheckContext(r) \/ Remove(r)
        BY <4>5 DEF PublishStart, CheckMark, CheckContext, Remove, Turns
      <4>6. QED BY <1>2, <4>1, <4>2, <4>3, <4>4, <4>5 DEF Execute
    <3>5. QED BY <3>2, <3>4 DEF SessionRefCurrent, UsesRef
  <2>3. QED BY <2>1, <2>2
<1>3. ASSUME NEW r \in Run, Submit(r) PROVE pc[q] \in UsesRef /\ UNCHANGED <<startRef, stored>>
  BY <1>3 DEF Submit, SubmitRejected, SubmitOverflow, SubmitAccepted, StartsWorker, Turns, TypeOK, UsesRef
<1>4. ASSUME NEW c \in Conv, Pop(c) PROVE pc[q] \in UsesRef /\ UNCHANGED <<startRef, stored>>
  <2>1. Head(pending[c]) \in Run BY <1>4, TailFacts DEF Pop, TypeOK
  <2>2. QED BY <1>4, <2>1 DEF Pop, Turns, TypeOK, UsesRef
<1>5. CASE UNCHANGED <<pc, startRef, stored>>
  BY <1>5, <1>1
<1>6. ASSUME NEW r \in Run, Cancel(r) \/ CancelContext(r) \/ DeadlinePasses(r)
      PROVE  UNCHANGED <<pc, startRef, stored>>
  BY <1>6 DEF Cancel, CancelContext, DeadlinePasses, Turns
<1>7. ASSUME NEW c \in Conv, WorkerExit(c) PROVE UNCHANGED <<pc, startRef, stored>>
  BY <1>7 DEF WorkerExit, Turns
<1>8. ShutdownBegin \/ Stopper \/ UNCHANGED vars => UNCHANGED <<pc, startRef, stored>>
  BY DEF ShutdownBegin, Stopper, ShutdownInterrupt, ShutdownWait, ShutdownReturn, Turns, vars
<1>9. QED BY <1>1, <1>2, <1>3, <1>4, <1>5, <1>6, <1>7, <1>8 DEF Next, Loop, Quiet

\* No turn starts from, or saves over, a reference another turn has replaced.
THEOREM RefCurrent == Spec => []SessionRefCurrent
<1>1. Init => SessionRefCurrent
  BY DEF Init, SessionRefCurrent
<1>2. TypeOK /\ SavesRef /\ SerialInv /\ SessionRefCurrent /\ [Next]_vars => SessionRefCurrent'
  BY RefStep
<1>3. QED BY <1>1, <1>2, TypeCorrect, SerialInvariant, PTL DEF Spec

-----------------------------------------------------------------------------
\* The prepended head of a line: what the refinement needs of `<<r>> \o q`.
LEMMA LineFacts ==
  ASSUME NEW S, NEW q \in Seq(S), NEW x \in S
  PROVE  /\ <<>> \o q = q
         /\ <<x>> \o q \in Seq(S) /\ <<x>> \o q # <<>>
         /\ Len(<<x>> \o q) = Len(q) + 1
         /\ Head(<<x>> \o q) = x /\ Tail(<<x>> \o q) = q
         /\ (<<x>> \o q)[1] = x
         /\ \A i \in 1..Len(q) : (<<x>> \o q)[i + 1] = q[i]
<1>1. <<x>> \in Seq(S) /\ Len(<<x>>) = 1 /\ <<x>>[1] = x
  OBVIOUS
<1>2. /\ <<x>> \o q \in Seq(S)
      /\ Len(<<x>> \o q) = Len(q) + 1
      /\ (<<x>> \o q)[1] = x
      /\ \A i \in 1..Len(q) : (<<x>> \o q)[i + 1] = q[i]
  BY <1>1
<1>3. <<x>> \o q # <<>> /\ Head(<<x>> \o q) = x
  BY <1>2
<1>4. Tail(<<x>> \o q) = q
  <2>1. Tail(<<x>> \o q) \in Seq(S) /\ Len(Tail(<<x>> \o q)) = Len(q)
    BY <1>2, <1>3, TailFacts
  <2>2. \A i \in 1..Len(q) : Tail(<<x>> \o q)[i] = q[i]
    BY <1>2, <1>3, TailFacts
  <2>3. QED BY <2>1, <2>2, <1>2
<1>5. <<>> \o q = q
  OBVIOUS
<1>6. QED BY <1>2, <1>3, <1>4, <1>5

\* Popping the head of a queue and putting it in front of the rest is the queue.
LEMMA HeadTail ==
  ASSUME NEW S, NEW q \in Seq(S), q # <<>>
  PROVE  <<Head(q)>> \o Tail(q) = q
<1> DEFINE t == <<Head(q)>> \o Tail(q)
<1>1. /\ Head(q) \in S /\ Head(q) = q[1] /\ Tail(q) \in Seq(S)
      /\ Len(Tail(q)) = Len(q) - 1 /\ Len(q) \in Nat /\ Len(q) > 0
      /\ \A i \in 1..Len(q) - 1 : Tail(q)[i] = q[i + 1]
  BY TailFacts
<1>2. /\ t \in Seq(S) /\ Len(t) = Len(q) /\ t[1] = q[1]
      /\ \A i \in 1..Len(q) - 1 : t[i + 1] = Tail(q)[i]
  BY <1>1, LineFacts
<1>3. ASSUME NEW i \in 1..Len(q) PROVE t[i] = q[i]
  <2>1. CASE i = 1 BY <2>1, <1>2
  <2>2. CASE i # 1
    <3>1. i - 1 \in 1..Len(q) - 1 /\ (i - 1) + 1 = i BY <2>2, <1>1
    <3>2. QED BY <3>1, <1>1, <1>2
  <2>3. QED BY <2>1, <2>2
<1> HIDE DEF t
<1>4. t = q BY <1>2, <1>3
<1>5. QED BY <1>4 DEF t

\* Accepting behind a busy worker, or behind nothing, appends to the line.
LEMMA LineAppend ==
  ASSUME NEW S, NEW q \in Seq(S), NEW x \in S, NEW y \in S
  PROVE  <<x>> \o Append(q, y) = Append(<<x>> \o q, y)
  OBVIOUS

\* A conversation's line is the run its worker executes, then the queue.
LineFits ==
  /\ Line = [c \in Conv |-> Line[c]]
  /\ \A c \in Conv : ~Busy(c) => Line[c] = pending[c]
  /\ \A r \in Run : pc[r] \in Executing => Line[ConvOf[r]] = <<r>> \o pending[ConvOf[r]]

\* Because at most one run of a conversation executes, its line is well defined.
LEMMA LineIs == TypeOK /\ SerialPerConversation => LineFits
<1> USE RunAssumption
<1> SUFFICES ASSUME TypeOK, SerialPerConversation PROVE LineFits
  OBVIOUS
<1> DEFINE At(c) == {r \in Run : ConvOf[r] = c /\ pc[r] \in Executing}
<1> DEFINE Entry(c) == (IF At(c) = {} THEN <<>> ELSE <<CHOOSE r \in At(c) : TRUE>>) \o pending[c]
<1>0. Line = [c \in Conv |-> Entry(c)]
  BY DEF Line
<1>1. \A c \in Conv : Line[c] = (IF At(c) = {} THEN <<>> ELSE <<CHOOSE r \in At(c) : TRUE>>)
                                \o pending[c]
  BY <1>0
<1>2. ASSUME NEW c \in Conv, ~Busy(c) PROVE Line[c] = pending[c]
  <2>1. At(c) = {} BY <1>2 DEF Busy
  <2>2. pending[c] \in Seq(Run) BY DEF TypeOK
  <2>3. <<>> \o pending[c] = pending[c] BY <2>2
  <2>4. QED BY <2>1, <2>3, <1>1
<1>3. ASSUME NEW r \in Run, pc[r] \in Executing
      PROVE  Line[ConvOf[r]] = <<r>> \o pending[ConvOf[r]]
  <2>1. At(ConvOf[r]) = {r} BY <1>3 DEF SerialPerConversation
  <2>2. (CHOOSE s \in At(ConvOf[r]) : TRUE) = r BY <2>1
  <2>3. QED BY <2>1, <2>2, <1>1
<1>4. Line = [c \in Conv |-> Line[c]]
  <2> HIDE DEF Entry
  <2>1. QED BY <1>0
<1>5. QED BY <1>2, <1>3, <1>4 DEF LineFits

\* ... also after a step.
LEMMA LineIsNext == (TypeOK /\ SerialPerConversation => LineFits)'
  BY LineIs, PTL

-----------------------------------------------------------------------------
\* From the start of its turn to the close of its session a run has a session.
HasSession == {"turning", "returned", "unmarked", "saving", "closing"}
LiveInv == \A r \in Run : pc[r] \in HasSession => r \in live

\* What a worker's step does to results and sessions.
Idles(r) == /\ Moves(r)
            /\ pc'[r] \in HasSession => pc[r] \in HasSession \/ r \in live
            /\ UNCHANGED <<live, outcome, shutdown>>
OpensSession(r) ==
  /\ pc[r] = "starting" /\ pc' = [pc EXCEPT ![r] = "turning"]
  /\ live' = live \cup {r}
  /\ UNCHANGED <<pending, running, loops, outcome, shutdown>>
Concludes(r) ==
  /\ pc[r] \in Undelivered /\ pc' = [pc EXCEPT ![r] = "removing"]
  /\ \E s \in Status \ {"overflow"} :
        /\ s \in {"completed", "deadline_exceeded"} => pc[r] \in {"unmarked", "saving"}
        /\ outcome' = [outcome EXCEPT ![r] = IF @ = None THEN s ELSE @]
  /\ UNCHANGED <<pending, running, loops, live, shutdown>>

\* No completion and no missed deadline without a turn.
LEMMA VerdictShape ==
  ASSUME TypeOK, NEW r \in Run, Execute(r) \/ TurnReturns(r)
  PROVE  Idles(r) \/ OpensSession(r) \/ Concludes(r) \/ CloseSession(r) \/ ReleaseSlot(r)
<1> USE DEF Executing, Undelivered, Timed, Queueing, Stopping
<1>g. ASSUME NEW p \in Executing, pc[r] \in Executing, Goto(r, p), live' = live,
             p \in HasSession => pc[r] \in HasSession
      PROVE  Idles(r)
  BY <1>g DEF Goto, Idles, Moves, TypeOK
<1>c. ASSUME NEW s \in Status \ {"overflow"}, pc[r] \in Undelivered, Complete(r, s), live' = live,
             s \in {"completed", "deadline_exceeded"} => pc[r] \in {"unmarked", "saving"}
      PROVE  Concludes(r)
  BY <1>c DEF Complete, Concludes
<1>m. /\ AbortStatus(r) \in Status \ {"overflow", "completed", "deadline_exceeded"}
      /\ mark[r] # None => mark[r] \in Status \ {"overflow", "completed", "deadline_exceeded"}
  BY DEF TypeOK, AbortStatus, Status
<1>s. {"failed", "completed", "interrupted", "deadline_exceeded"} \subseteq Status \ {"overflow"}
  BY DEF Status
<1> USE DEF HasSession, Turns
<1>1. CASE FirstCheck(r) BY <1>1, <1>g, <1>c, <1>m DEF FirstCheck
<1>2. CASE TakeSlot(r) BY <1>2, <1>g DEF TakeSlot
<1>3. CASE AbortWait(r) BY <1>3, <1>c, <1>m DEF AbortWait
<1>4. CASE CheckSlot(r) BY <1>4, <1>g, <1>c, <1>m DEF CheckSlot
<1>5. CASE SecondCheck(r) BY <1>5, <1>g, <1>c, <1>m, <1>s DEF SecondCheck
<1>6. CASE PublishStart(r) BY <1>6, <1>g, <1>c, <1>s DEF PublishStart
<1>7. CASE LoadSessionRef(r) BY <1>7, <1>g, <1>c, <1>s DEF LoadSessionRef
<1>8. CASE ProviderStart(r)
  <2>1. CASE Goto(r, "turning") /\ live' = live \cup {r}
    BY <1>8, <2>1 DEF ProviderStart, Goto, OpensSession
  <2>2. CASE Complete(r, "failed") /\ live' = live
    BY <1>8, <2>2, <1>c, <1>s DEF ProviderStart
  <2>3. CASE Goto(r, "forgetting") /\ live' = live
    BY <1>8, <2>3, <1>g DEF ProviderStart
  <2>4. QED BY <1>8, <2>1, <2>2, <2>3 DEF ProviderStart
<1>9. CASE DeleteSessionRef(r) BY <1>9, <1>g, <1>c, <1>s DEF DeleteSessionRef
<1>10. CASE TurnReturns(r) BY <1>10, <1>g DEF TurnReturns
<1>11. CASE CheckMark(r) BY <1>11, <1>g, <1>c, <1>m DEF CheckMark
<1>12. CASE CheckContext(r) BY <1>12, <1>g, <1>c, <1>s DEF CheckContext
<1>13. CASE SaveSessionRef(r) BY <1>13, <1>c, <1>s DEF SaveSessionRef
<1>14. CASE Remove(r) BY <1>14 DEF Remove, Idles, Moves, TypeOK
<1>15. QED BY <1>1, <1>2, <1>3, <1>4, <1>5, <1>6, <1>7, <1>8, <1>9, <1>10, <1>11, <1>12,
              <1>13, <1>14 DEF Execute

\* A run that has reached its turn has its session until it closes it.
LEMMA LiveInvariant == Spec => []LiveInv
<1>1. Init => LiveInv
  BY DEF Init, LiveInv, HasSession
<1>2. TypeOK /\ SavesRef /\ LiveInv /\ [Next]_vars => LiveInv'
  <2> SUFFICES ASSUME TypeOK, SavesRef, LiveInv, [Next]_vars PROVE LiveInv'
    OBVIOUS
  <2> USE DEF LiveInv, HasSession
  <2>1. ASSUME NEW r \in Run, Execute(r) \/ TurnReturns(r) PROVE LiveInv'
    <3>1. CASE Idles(r) BY <3>1 DEF Idles, Moves, TypeOK
    <3>2. CASE OpensSession(r) BY <3>2 DEF OpensSession, TypeOK
    <3>3. CASE Concludes(r) BY <3>3 DEF Concludes, TypeOK
    <3>4. CASE CloseSession(r) BY <3>4 DEF CloseSession, Goto, TypeOK
    <3>5. CASE ReleaseSlot(r) BY <3>5 DEF ReleaseSlot, TypeOK
    <3>6. QED BY <2>1, <3>1, <3>2, <3>3, <3>4, <3>5, VerdictShape
  <2>2. ASSUME NEW r \in Run, Submit(r) PROVE LiveInv'
    BY <2>2 DEF Submit, SubmitRejected, SubmitOverflow, SubmitAccepted, Turns, TypeOK
  <2>3. ASSUME NEW c \in Conv, Pop(c) PROVE LiveInv'
    <3>1. Head(pending[c]) \in Run BY <2>3, TailFacts DEF Pop, TypeOK
    <3>2. QED BY <2>3, <3>1 DEF Pop, Turns, TypeOK
  <2>4. ASSUME NEW c \in Conv, WorkerExit(c) PROVE LiveInv'
    BY <2>4 DEF WorkerExit, Turns
  <2>5. ASSUME NEW r \in Run, Cancel(r) \/ CancelContext(r) \/ DeadlinePasses(r) PROVE LiveInv'
    BY <2>5 DEF Cancel, CancelContext, DeadlinePasses, Turns
  <2>6. ShutdownBegin \/ Stopper \/ UNCHANGED vars => LiveInv'
    BY DEF ShutdownBegin, Stopper, ShutdownInterrupt, ShutdownWait, ShutdownReturn, Turns, vars
  <2>7. QED BY <2>1, <2>2, <2>3, <2>4, <2>5, <2>6 DEF Next, Loop, Quiet
<1>3. QED BY <1>1, <1>2, TypeCorrect, PTL DEF Spec

\* Both modules count with the same operator.
LEMMA SameCardinality == \A S : Lines!Cardinality(S) = Cardinality(S)
  BY DEF Lines!Cardinality, Cardinality

\* What the refinement needs of a step besides the step itself.
Fits == TypeOK /\ SerialInv /\ LineFits
Both == Fits /\ Fits'

\* A step that changes neither a queue nor the set of executing runs leaves the
\* lines as they are.
LEMMA LineStays ==
  ASSUME Both, pending' = pending,
         \A s \in Run : pc'[s] \in Executing <=> pc[s] \in Executing
  PROVE  Line' = Line
<1>1. ASSUME NEW c \in Conv PROVE Line'[c] = Line[c]
  <2>1. CASE ~Busy(c)
    <3>1. ~Busy(c)' BY <2>1 DEF Busy
    <3>2. QED BY <2>1, <3>1 DEF Both, Fits, LineFits
  <2>2. CASE Busy(c)
    <3>1. PICK x \in Run : ConvOf[x] = c /\ pc[x] \in Executing
      BY <2>2 DEF Busy
    <3>2. Line[c] = <<x>> \o pending[c] /\ Line'[c] = <<x>> \o pending[c]
      BY <3>1 DEF Both, Fits, LineFits
    <3>3. QED BY <3>2
  <2>3. QED BY <2>1, <2>2
<1>2. Line = [c \in Conv |-> Line[c]] /\ Line' = [c \in Conv |-> Line'[c]]
  BY DEF Both, Fits, LineFits
<1>3. [c \in Conv |-> Line[c]] = [c \in Conv |-> Line'[c]]
  BY <1>1
<1>4. QED BY <1>2, <1>3

\* Submit refuses a run that is in no line only for want of room, or accepts it
\* at the end of its line.
LEMMA SubmitSimulates ==
  ASSUME Both, DeliveryInv, NEW r \in Run, Submit(r)
  PROVE  UNCHANGED Lines!avars \/ Lines!ANext
<1> USE RunAssumption DEF Both, Fits
<1> DEFINE c == ConvOf[r]
           q == pending[c]
<1>1. /\ c \in Conv /\ q \in Seq(Run) /\ Len(q) \in Nat /\ pc[r] = "new"
      /\ outcome[r] = None
  BY DEF TypeOK, DeliveryInv, JobOf, Submit, SubmitRejected, SubmitOverflow, SubmitAccepted
<1>2. /\ \A i \in 1..Len(q) : q[i] # r
      /\ pc[r] \notin Executing
  BY <1>1 DEF SerialInv, QueueInv, Executing, Timed
<1>3. Line[c] \in Seq(Run) /\ Len(Line[c]) >= Len(q) /\ Len(Line[c]) =< Len(q) + 1
      /\ \A i \in 1..Len(Line[c]) : Line[c][i] # r
  <2>1. CASE ~Busy(c)
    BY <2>1, <1>1, <1>2 DEF LineFits
  <2>2. CASE Busy(c)
    <3>1. PICK x \in Run : ConvOf[x] = c /\ pc[x] \in Executing
      BY <2>2 DEF Busy
    <3>2. Line[c] = <<x>> \o q
      BY <3>1 DEF LineFits
    <3>3. /\ Line[c] \in Seq(Run) /\ Len(Line[c]) = Len(q) + 1 /\ Line[c][1] = x
          /\ \A i \in 1..Len(q) : Line[c][i + 1] = q[i]
      BY <3>2, <1>1, LineFacts
    <3>4. ASSUME NEW i \in 1..Len(Line[c]) PROVE Line[c][i] # r
      <4>1. CASE i = 1 BY <4>1, <3>1, <3>3, <1>2
      <4>2. CASE i # 1
        <5>1. i - 1 \in 1..Len(q) /\ (i - 1) + 1 = i BY <4>2, <3>3, <1>1
        <5>2. Line[c][i] = q[i - 1] BY <5>1, <3>3
        <5>3. QED BY <5>1, <5>2, <1>2
      <4>3. QED BY <4>1, <4>2
    <3>5. QED BY <3>3, <3>4, <1>1
  <2>3. QED BY <2>1, <2>2
<1>4. ~Lines!Waiting(r)
  BY <1>3, <1>1 DEF Lines!Waiting
<1>5. CASE SubmitRejected(r)
  <2>1. \A s \in Run : pc'[s] \in Executing <=> pc[s] \in Executing
    BY <1>5, <1>2 DEF SubmitRejected, TypeOK, Executing, Timed
  <2>2. UNCHANGED <<pending, live, outcome>> /\ stopped' = stopped
    BY <1>5 DEF SubmitRejected, Queueing, Turns, Stopping, stopped
  <2>3. Line' = Line BY <2>1, <2>2, LineStays
  <2>4. QED BY <2>2, <2>3 DEF Lines!avars
<1>6. CASE SubmitOverflow(r)
  <2>1. \A s \in Run : pc'[s] \in Executing <=> pc[s] \in Executing
    BY <1>6, <1>2 DEF SubmitOverflow, TypeOK, Executing, Timed
  <2>2. /\ ~stopped /\ stopped' = stopped /\ live' = live /\ Len(q) >= MaxQueue
        /\ pending' = pending /\ outcome' = [outcome EXCEPT ![r] = "overflow"]
    BY <1>6 DEF SubmitOverflow, Turns, Stopping, stopped, Queueing
  <2>3. Line' = Line BY <2>1, <2>2, LineStays
  <2>4. Len(Line[c]) >= MaxQueue
    BY <2>2, <1>1, <1>3
  <2>5. Lines!Overflow(r)
    BY <1>1, <1>4, <2>2, <2>3, <2>4 DEF Lines!Overflow
  <2>6. QED BY <2>5 DEF Lines!ANext
<1>7. CASE SubmitAccepted(r)
  <2>1. /\ \A s \in Run : pc'[s] \in Executing <=> pc[s] \in Executing
        /\ pending' = [pending EXCEPT ![c] = Append(q, r)] /\ Len(q) < MaxQueue
        /\ ~stopped /\ stopped' = stopped /\ UNCHANGED <<live, outcome>>
    BY <1>7, <1>2 DEF SubmitAccepted, TypeOK, Executing, Timed, Turns, Stopping, stopped
  <2>2. pending'[c] = Append(q, r) /\ \A d \in Conv \ {c} : pending'[d] = pending[d]
    BY <2>1, <1>1 DEF TypeOK
  <2>3. \A d \in Conv : Busy(d)' <=> Busy(d)
    BY <2>1 DEF Busy
  <2>4. ASSUME NEW d \in Conv
        PROVE  Line'[d] = IF d = c THEN Append(Line[c], r) ELSE Line[d]
    <3>1. CASE ~Busy(d)
      <4>1. Line[d] = pending[d] /\ Line'[d] = pending'[d]
        BY <3>1, <2>3 DEF LineFits
      <4>2. QED BY <4>1, <2>2
    <3>2. CASE Busy(d)
      <4>1. PICK x \in Run : ConvOf[x] = d /\ pc[x] \in Executing
        BY <3>2 DEF Busy
      <4>2. Line[d] = <<x>> \o pending[d] /\ Line'[d] = <<x>> \o pending'[d]
        BY <4>1, <2>1 DEF LineFits
      <4>3. d = c => <<x>> \o Append(q, r) = Append(<<x>> \o q, r)
        BY <1>1, LineAppend
      <4>4. QED BY <4>2, <4>3, <2>2
    <3>3. QED BY <3>1, <3>2
  <2>5. Line' = [Line EXCEPT ![c] = Append(@, r)]
    <3>1. Line = [d \in Conv |-> Line[d]] /\ Line' = [d \in Conv |-> Line'[d]]
      BY DEF LineFits
    <3>2. [Line EXCEPT ![c] = Append(@, r)]
            = [d \in Conv |-> IF d = c THEN Append(Line[c], r) ELSE Line[d]]
      BY <3>1, <1>1
    <3>3. QED BY <3>1, <3>2, <2>4
  <2>6. Len(Line[c]) =< MaxQueue
    BY <2>1, <1>1, <1>3
  <2>7. Lines!Accept(r)
    BY <1>1, <1>4, <2>1, <2>5, <2>6 DEF Lines!Accept
  <2>8. QED BY <2>7 DEF Lines!ANext
<1>8. QED BY <1>5, <1>6, <1>7 DEF Submit

\* A step of the run at the head opens, concludes or leaves, or does not show.
LEMMA ExecuteSimulates ==
  ASSUME Both, SavesRef, SlotInv, DeliveryInv, LiveInv, NEW r \in Run, Execute(r) \/ TurnReturns(r)
  PROVE  UNCHANGED Lines!avars \/ Lines!ANext
<1> USE RunAssumption DEF Both, Fits
<1> DEFINE c == ConvOf[r]
           q == pending[c]
<1>1. c \in Conv /\ q \in Seq(Run) /\ pc[r] \in Executing
  BY StepShape DEF TypeOK
<1>2. Line[c] = <<r>> \o q
  BY <1>1 DEF LineFits
<1>3. Line[c] # <<>> /\ Head(Line[c]) = r /\ Tail(Line[c]) = q
  BY <1>1, <1>2, LineFacts
<1>4. Lines!AtHead(r)
  BY <1>3 DEF Lines!AtHead
<1>5. CASE Idles(r)
  <2>1. /\ \A s \in Run : pc'[s] \in Executing <=> pc[s] \in Executing
        /\ UNCHANGED <<pending, live, outcome>> /\ stopped' = stopped
    BY <1>5 DEF Idles, Moves, TypeOK, stopped
  <2>2. Line' = Line BY <2>1, LineStays
  <2>3. QED BY <2>1, <2>2 DEF Lines!avars
<1>6. CASE OpensSession(r)
  <2>1. /\ \A s \in Run : pc'[s] \in Executing <=> pc[s] \in Executing
        /\ UNCHANGED <<pending, outcome>> /\ stopped' = stopped /\ live' = live \cup {r}
    BY <1>6, <1>1 DEF OpensSession, TypeOK, stopped, Executing, Timed
  <2>2. Line' = Line BY <2>1, LineStays
  <2>3. outcome[r] = None /\ r \notin live /\ r \in holders
    BY <1>6 DEF OpensSession, DeliveryInv, JobOf, Undelivered, SlotInv, SlotOf, Timed, MayBeLive,
                NeedsSlot
  <2>4. Cardinality(live) < MaxConcurrentRuns
    <3>1. IsFiniteSet(holders) /\ live \subseteq holders \ {r}
      BY <2>3, FS_Subset DEF TypeOK, SlotInv, SlotOf
    <3>2. Cardinality(holders \ {r}) = Cardinality(holders) - 1 /\ IsFiniteSet(holders \ {r})
      BY <3>1, <2>3, FS_RemoveElement
    <3>3. /\ Cardinality(live) =< Cardinality(holders \ {r})
          /\ Cardinality(live) \in Nat /\ Cardinality(holders) \in Nat
      BY <3>1, <3>2, FS_Subset, FS_CardinalityType
    <3>4. Cardinality(holders) =< MaxConcurrentRuns
      BY DEF SlotInv
    <3>5. QED BY <3>2, <3>3, <3>4
  <2>5. Lines!Open(r)
    BY <1>4, <2>1, <2>2, <2>3, <2>4, SameCardinality DEF Lines!Open
  <2>6. QED BY <2>5 DEF Lines!ANext
<1>7. CASE Concludes(r)
  <2>1. /\ \A s \in Run : pc'[s] \in Executing <=> pc[s] \in Executing
        /\ UNCHANGED <<pending, live>> /\ stopped' = stopped
    BY <1>7, <1>1 DEF Concludes, TypeOK, stopped, Executing
  <2>2. Line' = Line BY <2>1, LineStays
  <2>3. outcome[r] = None
    BY <1>7 DEF Concludes, DeliveryInv, JobOf
  <2>4. PICK s \in Status \ {"overflow"} :
           /\ s \in {"completed", "deadline_exceeded"} => pc[r] \in {"unmarked", "saving"}
           /\ outcome' = [outcome EXCEPT ![r] = IF @ = None THEN s ELSE @]
    BY <1>7 DEF Concludes
  <2>5. s \in {"completed", "deadline_exceeded"} => r \in live
    BY <2>4 DEF LiveInv, HasSession
  <2>6. outcome' = [outcome EXCEPT ![r] = s]
    BY <2>3, <2>4
  <2>7. s \in Lines!Status \ {"overflow"}
    BY <2>4 DEF Lines!Status, Status
  <2>8. Lines!Conclude(r)
    BY <1>4, <2>1, <2>2, <2>3, <2>5, <2>6, <2>7 DEF Lines!Conclude
  <2>9. QED BY <2>8 DEF Lines!ANext
<1>8. CASE CloseSession(r)
  <2>1. /\ \A s \in Run : pc'[s] \in Executing <=> pc[s] \in Executing
        /\ UNCHANGED <<pending, outcome>> /\ stopped' = stopped /\ live' = live \ {r}
        /\ pc[r] = "closing"
    BY <1>8 DEF CloseSession, Goto, Queueing, Stopping, TypeOK, stopped, Executing
  <2>2. Line' = Line BY <2>1, LineStays
  <2>3. r \in live /\ outcome[r] # None
    BY <2>1 DEF LiveInv, HasSession, DeliveryInv, JobOf
  <2>4. Lines!CloseSession(r)
    BY <2>1, <2>2, <2>3 DEF Lines!CloseSession
  <2>5. QED BY <2>4 DEF Lines!ANext
<1>9. CASE ReleaseSlot(r)
  <2>1. /\ UNCHANGED <<pending, outcome, live>> /\ stopped' = stopped /\ pc[r] = "releasing"
        /\ pc' = [pc EXCEPT ![r] = "gone"]
    BY <1>9 DEF ReleaseSlot, Stopping, stopped
  <2>2. r \notin live /\ outcome[r] # None
    BY <2>1 DEF SlotInv, SlotOf, MayBeLive, DeliveryInv, JobOf
  <2>3. /\ pc'[r] \notin Executing
        /\ \A s \in Run \ {r} : pc'[s] = pc[s]
    BY <2>1 DEF TypeOK, Executing, Timed
  <2>4. ~Busy(c)'
    BY <1>1, <2>3 DEF Busy, SerialInv, SerialPerConversation
  <2>5. Line'[c] = q
    BY <1>1, <2>1, <2>4 DEF LineFits
  <2>6. ASSUME NEW d \in Conv \ {c} PROVE Line'[d] = Line[d]
    <3>1. CASE ~Busy(d)
      <4>1. ~Busy(d)' BY <3>1, <2>3, <2>6 DEF Busy
      <4>2. QED BY <3>1, <4>1, <2>1 DEF LineFits
    <3>2. CASE Busy(d)
      <4>1. PICK x \in Run : ConvOf[x] = d /\ pc[x] \in Executing
        BY <3>2 DEF Busy
      <4>2. pc'[x] \in Executing BY <4>1, <2>3, <2>6
      <4>3. Line[d] = <<x>> \o pending[d] /\ Line'[d] = <<x>> \o pending[d]
        BY <4>1, <4>2, <2>1 DEF LineFits
      <4>4. QED BY <4>3
    <3>3. QED BY <3>1, <3>2
  <2>7. Line' = [Line EXCEPT ![c] = Tail(@)]
    <3>1. Line = [d \in Conv |-> Line[d]] /\ Line' = [d \in Conv |-> Line'[d]]
      BY DEF LineFits
    <3>2. [Line EXCEPT ![c] = Tail(@)]
            = [d \in Conv |-> IF d = c THEN q ELSE Line[d]]
      BY <3>1, <1>1, <1>3
    <3>3. QED BY <3>1, <3>2, <2>5, <2>6
  <2>8. Lines!Leave(r)
    BY <1>4, <2>1, <2>2, <2>7 DEF Lines!Leave
  <2>9. QED BY <2>8 DEF Lines!ANext
<1>10. QED BY <1>5, <1>6, <1>7, <1>8, <1>9, VerdictShape

\* The run a worker takes from the queue was at the head of its line already.
LEMMA LoopSimulates ==
  ASSUME Both, NEW c \in Conv, Loop(c)
  PROVE  UNCHANGED Lines!avars
<1> USE RunAssumption DEF Both, Fits
<1>1. UNCHANGED <<live, outcome>> /\ stopped' = stopped
  BY DEF Loop, Pop, WorkerExit, Turns, Stopping, stopped
<1>2. CASE WorkerExit(c)
  <2>1. Line' = Line BY <1>2, LineStays DEF WorkerExit
  <2>2. QED BY <1>1, <2>1 DEF Lines!avars
<1>3. CASE Pop(c)
  <2> DEFINE q == pending[c]
             h == Head(q)
  <2>1. /\ q \in Seq(Run) /\ q # <<>> /\ h \in Run /\ Tail(q) \in Seq(Run)
        /\ h = q[1] /\ 1 \in 1..Len(q)
    BY <1>3, TailFacts DEF Pop, TypeOK
  <2>2. ConvOf[h] = c
    BY <2>1 DEF SerialInv, QueueInv
  <2>3. /\ pc'[h] \in Executing /\ \A s \in Run \ {h} : pc'[s] = pc[s]
        /\ pending'[c] = Tail(q) /\ \A d \in Conv \ {c} : pending'[d] = pending[d]
        /\ loops[c] > 0
    BY <1>3, <2>1 DEF Pop, TypeOK, Executing
  <2>4. ~Busy(c)
    BY <2>3 DEF SerialInv, WorkerInv
  <2>5. Line[c] = q /\ Line'[c] = <<h>> \o Tail(q)
    <3>1. Line[c] = q
      BY <2>4 DEF LineFits
    <3>2. Line'[ConvOf[h]] = <<h>> \o pending'[ConvOf[h]]
      BY <2>1, <2>3 DEF LineFits
    <3>3. Line'[c] = <<h>> \o pending'[c]
      BY ONLY <3>2, <2>2
    <3>4. QED BY <3>1, <3>3, <2>3
  <2>6. <<h>> \o Tail(q) = q
    BY <2>1, HeadTail
  <2>7. ASSUME NEW d \in Conv \ {c} PROVE Line'[d] = Line[d]
    <3>1. CASE ~Busy(d)
      <4>1. ~Busy(d)' BY <3>1, <2>2, <2>3, <2>7 DEF Busy
      <4>2. QED BY <3>1, <4>1, <2>3 DEF LineFits
    <3>2. CASE Busy(d)
      <4>1. PICK x \in Run : ConvOf[x] = d /\ pc[x] \in Executing
        BY <3>2 DEF Busy
      <4>2. pc'[x] \in Executing BY <4>1, <2>2, <2>3, <2>7
      <4>3. Line[d] = <<x>> \o pending[d] /\ Line'[d] = <<x>> \o pending[d]
        BY <4>1, <4>2, <2>3 DEF LineFits
      <4>4. QED BY <4>3
    <3>3. QED BY <3>1, <3>2
  <2>8. Line' = Line
    <3>1. Line = [d \in Conv |-> Line[d]] /\ Line' = [d \in Conv |-> Line'[d]]
      BY DEF LineFits
    <3>2. \A d \in Conv : Line'[d] = Line[d]
      BY <2>5, <2>6, <2>7
    <3>3. [d \in Conv |-> Line[d]] = [d \in Conv |-> Line'[d]]
      BY <3>2
    <3>4. QED BY <3>1, <3>3
  <2>9. QED BY <1>1, <2>8 DEF Lines!avars
<1>4. QED BY <1>2, <1>3 DEF Loop

\* The manager implements the lines of TurnLines: runs of a conversation take
\* their turns in the order of acceptance, at most one has a session, a run is
\* turned away only from a full queue, completes only with a session, and never
\* are there more sessions than slots.
THEOREM ImplementsLines == Spec => LinesSpec
<1>1. Init => Lines!AInit
  <2> SUFFICES ASSUME Init PROVE Lines!AInit
    OBVIOUS
  <2>1. Init => TypeOK /\ SerialPerConversation
    BY RunAssumption
       DEF Init, TypeOK, Stage, Ref, SerialPerConversation, Executing, Timed
  <2>2. LineFits
    BY <2>1, LineIs
  <2>3. \A c \in Conv : Line[c] = <<>>
    BY <2>2 DEF LineFits, Busy, Init, Executing, Timed
  <2>4. Line = [c \in Conv |-> <<>>]
    <3>1. Line = [c \in Conv |-> Line[c]] BY <2>2 DEF LineFits
    <3>2. QED BY <3>1, <2>3
  <2>5. QED BY <2>4 DEF Init, Lines!AInit, stopped
<1>2. /\ Both /\ SavesRef /\ SlotInv /\ DeliveryInv /\ LiveInv /\ [Next]_vars
      => [UNCHANGED Lines!avars \/ Lines!ANext]_(Lines!avars)
  <2> SUFFICES ASSUME Both, SavesRef, SlotInv, DeliveryInv, LiveInv, [Next]_vars
               PROVE  UNCHANGED Lines!avars \/ Lines!ANext
    OBVIOUS
  <2>1. ASSUME NEW r \in Run, Submit(r) PROVE UNCHANGED Lines!avars \/ Lines!ANext
    BY <2>1, SubmitSimulates
  <2>2. ASSUME NEW r \in Run, Execute(r) \/ TurnReturns(r)
        PROVE  UNCHANGED Lines!avars \/ Lines!ANext
    BY <2>2, ExecuteSimulates
  <2>3. ASSUME NEW c \in Conv, Loop(c) PROVE UNCHANGED Lines!avars
    BY <2>3, LoopSimulates
  <2>4. ASSUME UNCHANGED <<pc, pending, live, outcome>> PROVE Line' = Line
    BY <2>4, LineStays
  <2>5. ASSUME NEW r \in Run, Cancel(r) \/ CancelContext(r) \/ DeadlinePasses(r)
        PROVE  UNCHANGED Lines!avars
    <3>1. UNCHANGED <<pc, pending, live, outcome>> /\ stopped' = stopped
      BY <2>5 DEF Cancel, CancelContext, DeadlinePasses, Turns, Queueing, Stopping, stopped
    <3>2. QED BY <3>1, <2>4 DEF Lines!avars
  <2>6. CASE Stopper \/ UNCHANGED vars
    <3>1. UNCHANGED <<pc, pending, live, outcome>> /\ stopped' = stopped
      BY <2>6 DEF Stopper, ShutdownInterrupt, ShutdownWait, ShutdownReturn, Turns, Queueing,
                  stopped, vars
    <3>2. QED BY <3>1, <2>4 DEF Lines!avars
  <2>7. CASE ShutdownBegin
    <3>1. UNCHANGED <<pc, pending, live, outcome>> /\ stopped'
      BY <2>7 DEF ShutdownBegin, Turns, Queueing, stopped
    <3>2. Lines!CloseGate
      BY <3>1, <2>4 DEF Lines!CloseGate
    <3>3. QED BY <3>2 DEF Lines!ANext
  <2>8. QED BY <2>1, <2>2, <2>3, <2>5, <2>6, <2>7 DEF Next, Quiet
<1>3. TypeOK /\ SerialInv => Fits
  BY LineIs DEF Fits, SerialInv
<1>4. QED
  BY <1>1, <1>2, <1>3, TypeCorrect, SerialInvariant, SlotInvariant, DeliveryInvariant,
     LiveInvariant, PTL DEF Spec, LinesSpec, Both

-----------------------------------------------------------------------------
\* The worker's own step takes a marked run on, or ends it with what is not a
\* completion.
LEMMA MarkedStep ==
  ASSUME TypeOK, DeliveryInv, NEW r \in Run, Execute(r) \/ TurnReturns(r),
         mark[r] # None, pc[r] \in BeforeVerdict
  PROVE  pc'[r] \in BeforeVerdict \/ outcome'[r] \in Status \ {"completed"}
<1> USE DEF BeforeVerdict, Executing, Timed
<1>1. CASE Concludes(r)
  <2>1. PICK s \in Status \ {"overflow"} :
           /\ s \in {"completed", "deadline_exceeded"} => pc[r] \in {"unmarked", "saving"}
           /\ outcome' = [outcome EXCEPT ![r] = IF @ = None THEN s ELSE @]
    BY <1>1 DEF Concludes
  <2>2. outcome[r] = None
    BY <1>1 DEF Concludes, DeliveryInv, JobOf
  <2>3. outcome'[r] = s
    BY <2>1, <2>2 DEF TypeOK
  <2>4. QED BY <2>1, <2>3
<1>2. CASE OpensSession(r)
  BY <1>2 DEF OpensSession, TypeOK
<1>3. CASE Idles(r)
  <2>1. outcome[r] = None /\ outcome'[r] = None
    <3>1. pc[r] \in {"pending"} \cup Undelivered BY DEF Undelivered
    <3>2. QED BY <1>3, <3>1 DEF Idles, DeliveryInv, JobOf
  <2>2. ASSUME NEW s \in Status PROVE ~Complete(r, s)
    BY <2>1, RunAssumption DEF Complete, TypeOK, Status
  <2>3. ASSUME NEW p \in BeforeVerdict, Goto(r, p) PROVE pc'[r] \in BeforeVerdict
    BY <2>3 DEF Goto, TypeOK
  <2>4. /\ AbortStatus(r) \in Status /\ mark[r] \in Status
        /\ {"failed", "completed", "interrupted", "deadline_exceeded"} \subseteq Status
    BY DEF TypeOK, AbortStatus, Status
  <2> HIDE DEF Status
  <2>5. CASE FirstCheck(r) \/ TakeSlot(r) \/ AbortWait(r) \/ CheckSlot(r) \/ SecondCheck(r)
    BY <2>5, <2>2, <2>3, <2>4 DEF FirstCheck, TakeSlot, AbortWait, CheckSlot, SecondCheck
  <2>6. CASE PublishStart(r) \/ LoadSessionRef(r) \/ ProviderStart(r) \/ DeleteSessionRef(r)
    BY <2>6, <2>2, <2>3, <2>4 DEF PublishStart, LoadSessionRef, ProviderStart, DeleteSessionRef
  <2>7. CASE TurnReturns(r) \/ CheckMark(r)
    BY <2>7, <2>2, <2>3, <2>4 DEF TurnReturns, CheckMark
  <2>8. CASE \/ CheckContext(r) \/ SaveSessionRef(r) \/ Remove(r) \/ CloseSession(r)
             \/ ReleaseSlot(r)
    BY <2>8 DEF CheckContext, SaveSessionRef, Remove, CloseSession, ReleaseSlot
  <2>9. QED BY <2>5, <2>6, <2>7, <2>8 DEF Execute
<1>4. CASE CloseSession(r) \/ ReleaseSlot(r)
  BY <1>4 DEF CloseSession, ReleaseSlot
<1>5. QED BY <1>1, <1>2, <1>3, <1>4, VerdictShape

\* A run cancelled or interrupted before its turn came back neither completes
\* nor saves a session reference, wherever the mark overtook it.
THEOREM MarkedStops == Spec => MarkedNeverCompletes
<1>1. ASSUME TypeOK, SavesRef, SerialInv, DeliveryInv, [Next]_vars
      PROVE  [\A r \in Run : mark[r] # None /\ pc[r] \in BeforeVerdict =>
                pc'[r] \in BeforeVerdict \/ outcome'[r] \in Status \ {"completed"}]_pc
  <2> SUFFICES ASSUME NEW q \in Run, mark[q] # None, pc[q] \in BeforeVerdict
               PROVE  pc'[q] \in BeforeVerdict \/ outcome'[q] \in Status \ {"completed"}
    OBVIOUS
  <2> USE <1>1
  <2>1. ASSUME NEW r \in Run, Execute(r) \/ TurnReturns(r), r # q PROVE pc'[q] = pc[q]
    <3>1. CASE Idles(r) BY <2>1, <3>1 DEF Idles, Moves, TypeOK
    <3>2. CASE OpensSession(r) BY <2>1, <3>2 DEF OpensSession, TypeOK
    <3>3. CASE Concludes(r) BY <2>1, <3>3 DEF Concludes, TypeOK
    <3>4. CASE CloseSession(r) \/ ReleaseSlot(r)
      BY <2>1, <3>4 DEF CloseSession, ReleaseSlot, Goto, TypeOK
    <3>5. QED BY <2>1, <3>1, <3>2, <3>3, <3>4, VerdictShape
  <2>2. ASSUME Execute(q) \/ TurnReturns(q)
        PROVE  pc'[q] \in BeforeVerdict \/ outcome'[q] \in Status \ {"completed"}
    BY <2>2, MarkedStep
  <2>3. ASSUME NEW r \in Run, Submit(r) PROVE pc'[q] = pc[q]
    <3>1. pc[r] = "new" /\ \E p \in Stage : pc' = [pc EXCEPT ![r] = p]
      BY <2>3 DEF Submit, SubmitRejected, SubmitOverflow, SubmitAccepted, Stage
    <3>2. r # q
      BY <3>1 DEF BeforeVerdict, Executing, Timed
    <3>3. QED BY <3>1, <3>2 DEF TypeOK
  <2>4. ASSUME NEW c \in Conv, Pop(c) PROVE pc'[q] \in BeforeVerdict
    <3>1. Head(pending[c]) \in Run
      BY <2>4, TailFacts DEF Pop, TypeOK
    <3>2. QED BY <2>4, <3>1 DEF Pop, TypeOK, BeforeVerdict, Executing
  <2>5. ASSUME NEW c \in Conv, WorkerExit(c) PROVE pc' = pc
    BY <2>5 DEF WorkerExit
  <2>6. ASSUME NEW r \in Run, Cancel(r) \/ CancelContext(r) \/ DeadlinePasses(r) PROVE pc' = pc
    BY <2>6 DEF Cancel, CancelContext, DeadlinePasses
  <2>7. ShutdownBegin \/ Stopper \/ UNCHANGED vars => pc' = pc
    BY DEF ShutdownBegin, Stopper, ShutdownInterrupt, ShutdownWait, ShutdownReturn, vars
  <2>8. QED BY <2>1, <2>2, <2>3, <2>4, <2>5, <2>6, <2>7 DEF Next, Loop, Quiet
<1>2. QED
  BY <1>1, TypeCorrect, SerialInvariant, DeliveryInvariant, PTL DEF Spec, MarkedNeverCompletes
=============================================================================
