------------------------------ MODULE TurnLines ------------------------------
(***************************************************************************)
(* What the run manager promises (package comment of internal/agent/run,   *)
(* docs/ARCHITECTURE.md "Run Manager"): "conversation-serialized provider  *)
(* turns with bounded cross-conversation concurrency".                     *)
(*                                                                         *)
(* The runs of a conversation form one line.  Only the run at its head may *)
(* open a provider session, and it stays at the head until its result is   *)
(* delivered and its session is closed.  Over all conversations at most    *)
(* MaxConcurrentRuns sessions are open.  Goroutines, locks, slots and      *)
(* contexts do not appear here: RunManager is shown to implement this.     *)
(***************************************************************************)
EXTENDS Naturals, Sequences, FiniteSets

CONSTANTS Run,               \* the calls of Submit
          Conv,              \* conversation IDs
          ConvOf,            \* the conversation of each run
          MaxQueue,          \* accepted runs that may wait behind the head
          MaxConcurrentRuns,
          NoOutcome          \* "no result delivered yet"

Status == {"completed", "canceled", "deadline_exceeded",
           "overflow", "interrupted", "failed"}

VARIABLES line,     \* line[c]: accepted runs of c that have not left, in order
          open,     \* runs whose provider session is open
          outcome,  \* the result delivered to each run's caller
          closed    \* Shutdown has begun: no run is accepted any more

avars == <<line, open, outcome, closed>>

AInit == /\ line = [c \in Conv |-> <<>>]
         /\ open = {}
         /\ outcome = [r \in Run |-> NoOutcome]
         /\ closed = FALSE

AtHead(r) == line[ConvOf[r]] # <<>> /\ Head(line[ConvOf[r]]) = r

Waiting(r) == \E i \in DOMAIN line[ConvOf[r]] : line[ConvOf[r]][i] = r

\* One run is at work and at most MaxQueue wait behind it.
Accept(r) == /\ ~closed
             /\ outcome[r] = NoOutcome
             /\ ~Waiting(r)
             /\ Len(line[ConvOf[r]]) =< MaxQueue
             /\ line' = [line EXCEPT ![ConvOf[r]] = Append(@, r)]
             /\ UNCHANGED <<open, outcome, closed>>

\* A run is turned away only when a full complement is already waiting.
Overflow(r) == /\ ~closed
               /\ outcome[r] = NoOutcome
               /\ ~Waiting(r)
               /\ Len(line[ConvOf[r]]) >= MaxQueue
               /\ outcome' = [outcome EXCEPT ![r] = "overflow"]
               /\ UNCHANGED <<line, open, closed>>

Open(r) == /\ AtHead(r)
           /\ r \notin open
           /\ outcome[r] = NoOutcome
           /\ Cardinality(open) < MaxConcurrentRuns
           /\ open' = open \cup {r}
           /\ UNCHANGED <<line, outcome, closed>>

\* Only a run whose turn took place can complete or miss its deadline.
Conclude(r) == /\ AtHead(r)
               /\ outcome[r] = NoOutcome
               /\ \E s \in Status \ {"overflow"} :
                     /\ s \in {"completed", "deadline_exceeded"} => r \in open
                     /\ outcome' = [outcome EXCEPT ![r] = s]
               /\ UNCHANGED <<line, open, closed>>

CloseSession(r) == /\ r \in open
                   /\ outcome[r] # NoOutcome
                   /\ open' = open \ {r}
                   /\ UNCHANGED <<line, outcome, closed>>

Leave(r) == /\ AtHead(r)
            /\ outcome[r] # NoOutcome
            /\ r \notin open
            /\ line' = [line EXCEPT ![ConvOf[r]] = Tail(@)]
            /\ UNCHANGED <<open, outcome, closed>>

CloseGate == /\ closed' = TRUE
             /\ UNCHANGED <<line, open, outcome>>

ANext == \/ \E r \in Run : \/ Accept(r) \/ Overflow(r) \/ Open(r)
                           \/ Conclude(r) \/ CloseSession(r) \/ Leave(r)
         \/ CloseGate

ASpec == AInit /\ [][ANext]_avars
=============================================================================
