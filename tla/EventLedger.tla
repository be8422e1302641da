---------------------------- MODULE EventLedger -----------------------------
(***************************************************************************)
(* internal/events/ledger.go over the events table of                      *)
(* internal/control/store.go: callbacks are deduplicated, numbered, stored *)
(* and announced to watchers.  One Ledger serializes its callers with      *)
(* l.mu; the comment on Ledger (line 53) names the table's two UNIQUE      *)
(* constraints as "the durable guard" should two processes ever write, so  *)
(* there may be several ledgers here, each with its own lock, on one       *)
(* table.  A crash ends a process between any two statements.              *)
(*                                                                         *)
(* pc[c] is the statement RecordCallback's goroutine c executes next:      *)
(*   new          l.mu.Lock           storing       store.PutEvent         *)
(*   looking      EventByDedupKey     conflicted    the second lookup      *)
(*   numbering    NextEventSequence   broadcasting  broadcastLocked        *)
(*   done         returned            lost          its process crashed    *)
(***************************************************************************)
EXTENDS Naturals, Sequences, FiniteSets

CONSTANTS Call,              \* calls of RecordCallback
          Key,               \* (profile_id, sdk_dedup_key) pairs
          Profile,
          Ledger,            \* processes that opened control.db
          Watcher,           \* consumers of Watch and List
          KeyOf, LedgerOf,   \* of each call
          ProfileOf,         \* of each key
          WatchedProfile, WatchedLedger,  \* of each watcher
          Buffer,            \* capacity of a watcher's channel (16)
          ListLimit,         \* events per page of List
          None, Failed       \* no call, no result; an error returned

ASSUME LedgerAssumption ==
  /\ KeyOf \in [Call -> Key] /\ LedgerOf \in [Call -> Ledger]
  /\ ProfileOf \in [Key -> Profile]
  /\ WatchedProfile \in [Watcher -> Profile] /\ WatchedLedger \in [Watcher -> Ledger]
  /\ Buffer \in Nat \ {0} /\ ListLimit \in Nat \ {0}
  /\ None \notin Call
  /\ {None, Failed} \cap [seq : Nat \ {0}, created : BOOLEAN] = {}

VARIABLES
  table,    \* the rows of events: [key, seq]
  mu,       \* mu[l]: the call that holds l.mu
  pc,       \* see above
  number,   \* the sequence a call was given by NextEventSequence
  result,   \* what a call returned: a record, or Failed
  watching, \* watchers registered in l.watchers
  after,    \* watcher.after
  output,   \* the sequences in watcher.output
  cursor,   \* the NextCursor the consumer retains
  seen      \* the sequences the consumer got from List or from Watch

vars == <<table, mu, pc, number, result, watching, after, output, cursor, seen>>
watchVars == <<watching, after, output, cursor, seen>>

Stage == {"new", "looking", "numbering", "storing", "conflicted", "broadcasting",
          "done", "lost"}
InLedger == {"looking", "numbering", "storing", "conflicted", "broadcasting"}

Rows(p) == {e \in table : ProfileOf[e.key] = p}
Matching(k) == {e \in table : e.key = k}
Profiled(c) == ProfileOf[KeyOf[c]]

\* SELECT COALESCE(MAX(sequence), 0) + 1
Highest(S) == CHOOSE n \in S : \A m \in S : m =< n

NextEventSequence(p) == Highest({0} \cup {e.seq : e \in Rows(p)}) + 1

Init == /\ table = {}
        /\ mu = [l \in Ledger |-> None]
        /\ pc = [c \in Call |-> "new"]
        /\ number = [c \in Call |-> 0]
        /\ result = [c \in Call |-> None]
        /\ watching = {}
        /\ after = [w \in Watcher |-> 0]
        /\ output = [w \in Watcher |-> <<>>]
        /\ cursor = [w \in Watcher |-> 0]
        /\ seen = [w \in Watcher |-> {}]

-----------------------------------------------------------------------------
\* RecordCallback.

Goto(c, stage) == /\ pc' = [pc EXCEPT ![c] = stage]
                  /\ UNCHANGED <<mu, result>>

\* return, and the deferred l.mu.Unlock
Return(c, value) ==
  /\ pc' = [pc EXCEPT ![c] = "done"]
  /\ result' = [result EXCEPT ![c] = value]
  /\ mu' = [mu EXCEPT ![LedgerOf[c]] = None]

Record(e, created) == [seq |-> e.seq, created |-> created]

Lock(c) ==
  /\ pc[c] = "new"
  /\ mu[LedgerOf[c]] = None
  /\ mu' = [mu EXCEPT ![LedgerOf[c]] = c]
  /\ pc' = [pc EXCEPT ![c] = "looking"]
  /\ UNCHANGED <<table, number, result, watchVars>>

EventByDedupKey(c) ==
  /\ pc[c] = "looking"
  /\ \/ \E e \in Matching(KeyOf[c]) : Return(c, Record(e, FALSE))
     \/ Matching(KeyOf[c]) = {} /\ Goto(c, "numbering")
  /\ UNCHANGED <<table, number, watchVars>>

NumberEvent(c) ==
  /\ pc[c] = "numbering"
  /\ number' = [number EXCEPT ![c] = NextEventSequence(Profiled(c))]
  /\ Goto(c, "storing")
  /\ UNCHANGED <<table, watchVars>>

\* Mutants: one of the two constraints is missing.
UniqueSequence(row) ==
  \A e \in table : ProfileOf[e.key] = ProfileOf[row.key] => e.seq # row.seq
UniqueKey(row) == \A e \in table : e.key # row.key

\* UNIQUE(profile_id, sequence) and UNIQUE(profile_id, sdk_dedup_key)
Unique(row) ==
  \A e \in table : /\ e.key # row.key
                   /\ ProfileOf[e.key] = ProfileOf[row.key] => e.seq # row.seq

PutEvent(c) ==
  LET row == [key |-> KeyOf[c], seq |-> number[c]] IN
  /\ pc[c] = "storing"
  /\ \/ Unique(row) /\ table' = table \cup {row} /\ Goto(c, "broadcasting")
     \/ ~Unique(row) /\ Goto(c, "conflicted") /\ UNCHANGED table
  /\ UNCHANGED <<number, watchVars>>

\* Mutant: the event built here is returned, not the stored one.
ConflictReturnsOwn(c) ==
  /\ pc[c] = "conflicted"
  /\ Return(c, [seq |-> number[c], created |-> FALSE])
  /\ UNCHANGED <<table, number, watchVars>>

\* ErrConflict: the event is there already, or another one took the number.
LookUpConflict(c) ==
  /\ pc[c] = "conflicted"
  /\ \/ \E e \in Matching(KeyOf[c]) : Return(c, Record(e, FALSE))
     \/ Matching(KeyOf[c]) = {} /\ Return(c, Failed)
  /\ UNCHANGED <<table, number, watchVars>>

\* A statement of the store fails; nothing was stored by it.
StoreFails(c) ==
  /\ pc[c] \in {"looking", "numbering", "storing", "conflicted"}
  /\ Return(c, Failed)
  /\ UNCHANGED <<table, number, watchVars>>

\* A watcher whose channel is full is skipped and keeps its `after`.
Addressed(c) ==
  {w \in watching : /\ WatchedLedger[w] = LedgerOf[c]
                    /\ WatchedProfile[w] = Profiled(c)
                    /\ number[c] > after[w]
                    /\ Len(output[w]) < Buffer}

\* Mutant: the send has no default branch and waits for the consumer.
BroadcastWaits(c) ==
  LET to == {w \in watching : WatchedLedger[w] = LedgerOf[c]} IN
  /\ pc[c] = "broadcasting"
  /\ \A w \in to : Len(output[w]) < Buffer
  /\ output' = [w \in Watcher |-> IF w \in to
                                  THEN Append(output[w], number[c]) ELSE output[w]]
  /\ Return(c, [seq |-> number[c], created |-> TRUE])
  /\ UNCHANGED <<table, number, watching, after, cursor, seen>>

Broadcast(c) ==
  /\ pc[c] = "broadcasting"
  /\ output' = [w \in Watcher |-> IF w \in Addressed(c)
                                  THEN Append(output[w], number[c]) ELSE output[w]]
  /\ after' = [w \in Watcher |-> IF w \in Addressed(c) THEN number[c] ELSE after[w]]
  /\ Return(c, [seq |-> number[c], created |-> TRUE])
  /\ UNCHANGED <<table, number, watching, cursor, seen>>

\* The statements under l.mu.
RecordLocked(c) ==
  \/ EventByDedupKey(c) \/ NumberEvent(c) \/ PutEvent(c)
  \/ LookUpConflict(c) \/ StoreFails(c) \/ Broadcast(c)

RecordCallback(c) == Lock(c) \/ RecordLocked(c)

-----------------------------------------------------------------------------
\* Watch and List, and the consumer who retains NextCursor (comment, line 146).

Watch(w) ==
  /\ w \notin watching
  /\ mu[WatchedLedger[w]] = None
  /\ watching' = watching \cup {w}
  /\ after' = [after EXCEPT ![w] = cursor[w]]
  /\ output' = [output EXCEPT ![w] = <<>>]
  /\ UNCHANGED <<table, mu, pc, number, result, cursor, seen>>

\* ctx is done: the watcher leaves the set, its channel is closed, and what is
\* buffered may still be read.
Unwatch(w) ==
  /\ w \in watching
  /\ mu[WatchedLedger[w]] = None
  /\ watching' = watching \ {w}
  /\ UNCHANGED <<table, mu, pc, number, result, after, output, cursor, seen>>

Receive(w) ==
  /\ output[w] # <<>>
  /\ output' = [output EXCEPT ![w] = Tail(@)]
  /\ seen' = [seen EXCEPT ![w] = @ \cup {Head(output[w])}]
  /\ cursor' = [cursor EXCEPT ![w] = Head(output[w])]
  /\ UNCHANGED <<table, mu, pc, number, result, watching, after>>

\* ORDER BY sequence LIMIT: the lowest ListLimit sequences after the cursor.
Page(w) ==
  LET behind == {n \in {e.seq : e \in Rows(WatchedProfile[w])} : n > cursor[w]}
  IN  {n \in behind : Cardinality({m \in behind : m < n}) < ListLimit}

List(w) ==
  /\ Page(w) # {}
  /\ seen' = [seen EXCEPT ![w] = @ \cup Page(w)]
  /\ cursor' = [cursor EXCEPT ![w] = Highest(Page(w))]
  /\ UNCHANGED <<table, mu, pc, number, result, watching, after, output>>

\* A process dies: its calls never return, its watchers are gone.
Crash(l) ==
  /\ mu' = [mu EXCEPT ![l] = None]
  /\ pc' = [c \in Call |-> IF LedgerOf[c] = l /\ pc[c] \in InLedger
                           THEN "lost" ELSE pc[c]]
  /\ watching' = {w \in watching : WatchedLedger[w] # l}
  /\ output' = [w \in Watcher |-> IF WatchedLedger[w] = l THEN <<>> ELSE output[w]]
  /\ UNCHANGED <<table, number, result, after, cursor, seen>>

-----------------------------------------------------------------------------
Next == \/ \E c \in Call : RecordCallback(c)
        \/ \E w \in Watcher : Watch(w) \/ Unwatch(w) \/ Receive(w) \/ List(w)
        \/ \E l \in Ledger : Crash(l)

\* A goroutine that holds l.mu runs on.  Nothing is assumed of consumers.
Fairness == \A c \in Call : WF_vars(RecordLocked(c))

Spec == Init /\ [][Next]_vars /\ Fairness

-----------------------------------------------------------------------------
\* Every variable of the ledger has its type.
TypeOK ==
  /\ table \subseteq [key : Key, seq : Nat \ {0}]
  /\ mu \in [Ledger -> Call \cup {None}]
  /\ pc \in [Call -> Stage]
  /\ number \in [Call -> Nat]
  /\ result \in [Call -> {None, Failed} \cup [seq : Nat \ {0}, created : BOOLEAN]]
  /\ watching \subseteq Watcher
  /\ after \in [Watcher -> Nat]
  /\ output \in [Watcher -> Seq(Nat \ {0})]
  /\ cursor \in [Watcher -> Nat]
  /\ seen \in [Watcher -> SUBSET (Nat \ {0})]

Returned(c) == result[c] \notin {None, Failed}
Created(c) == Returned(c) /\ result[c].created

\* One callback is reported as new at most once (line 70, "exactly once by SDK
\* dedup key"), across duplicates, crashes and even a second writing process:
\* inbound starts a run for every Created record.
AtMostOneCreated ==
  \A c, d \in Call : c # d /\ KeyOf[c] = KeyOf[d] => ~(Created(c) /\ Created(d))

\* The sequences of a profile are 1..n, each used once, whatever fails or
\* crashes between reading the maximum and inserting: List by cursor skips none.
SequencesGapless ==
  \A p \in Profile : {e.seq : e \in Rows(p)} = 1..Cardinality(Rows(p))

\* A returned record is the stored event of the callback's key, also for the
\* duplicate whose original was stored by a process that crashed.
ResultsStored ==
  \A c \in Call : Returned(c) => [key |-> KeyOf[c], seq |-> result[c].seq] \in table

\* A callback in the ledger returns although no consumer reads its channel:
\* the send under l.mu does not wait for a slow watcher.
RecordReturns == \A c \in Call : pc[c] = "looking" ~> pc[c] \in {"done", "lost"}

\* ledger.go:146 "Consumers retain NextCursor and can recover any missed
\* notification through List": nothing at or before the cursor is missing.
MissedIsRecoverable ==
  \A w \in Watcher : \A e \in Rows(WatchedProfile[w]) : e.seq =< cursor[w] => e.seq \in seen[w]
=============================================================================
