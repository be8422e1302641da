-------------------------- MODULE EventLedgerProofs -------------------------
(***************************************************************************)
(* Proofs about EventLedger for any number of calls, keys, profiles and    *)
(* writing processes.  The table invariant says that the keys and the      *)
(* numbers of a profile are unique and that the numbers are 1..n; a number *)
(* read earlier is never above n + 1 because rows are only added, so an    *)
(* insertion that violates neither constraint takes exactly n + 1.         *)
(***************************************************************************)
EXTENDS EventLedger, FiniteSetTheorems, TLAPS

-----------------------------------------------------------------------------
Seqs(p) == {e.seq : e \in Rows(p)}

\* The rows of a profile are numbered 1..n, and a key is stored once.
TableOK ==
  /\ table \subseteq [key : Key, seq : Nat \ {0}]
  /\ IsFiniteSet(table)
  /\ \A e, f \in table : e.key = f.key => e = f
  /\ \A p \in Profile : Seqs(p) = 1..Cardinality(Rows(p))

\* A number read from the table is at most one above its highest.
CallOK(c) ==
  /\ pc[c] \in Stage /\ number[c] \in Nat
  /\ pc[c] = "storing" => number[c] \in 1..Cardinality(Rows(Profiled(c))) + 1
  /\ pc[c] = "broadcasting" => [key |-> KeyOf[c], seq |-> number[c]] \in table
  /\ pc[c] # "done" => result[c] = None
  /\ result[c] \in {None, Failed} \cup [seq : Nat \ {0}, created : BOOLEAN]

\* The call that inserted the event of its key, and may say so.
Inserted(c) == pc[c] = "broadcasting" \/ Created(c)

LedgerInv ==
  /\ TableOK
  /\ pc \in [Call -> Stage] /\ number \in [Call -> Nat]
  /\ result \in [Call -> {None, Failed} \cup [seq : Nat \ {0}, created : BOOLEAN]]
  /\ \A c \in Call : CallOK(c)
  /\ ResultsStored
  /\ \A c, d \in Call : Inserted(c) /\ Inserted(d) /\ KeyOf[c] = KeyOf[d] => c = d

-----------------------------------------------------------------------------
\* The rows of a profile are finitely many.
LEMMA RowsFinite ==
  ASSUME TableOK, NEW p
  PROVE  IsFiniteSet(Rows(p)) /\ Cardinality(Rows(p)) \in Nat
<1>1. Rows(p) \subseteq table BY DEF Rows
<1>2. QED BY <1>1, FS_Subset, FS_CardinalityType DEF TableOK

\* NextEventSequence gives one more than the rows of the profile.
LEMMA NextIsFree ==
  ASSUME TableOK, NEW p \in Profile
  PROVE  NextEventSequence(p) = Cardinality(Rows(p)) + 1
<1> DEFINE n == Cardinality(Rows(p))
<1>1. n \in Nat BY RowsFinite
<1>2. {0} \cup Seqs(p) = 0..n BY <1>1 DEF TableOK
<1>3. Highest(0..n) = n BY <1>1 DEF Highest
<1>4. QED BY <1>2, <1>3 DEF NextEventSequence, Seqs

\* An insertion both constraints allow takes the next number, and keeps the
\* table invariant.
LEMMA InsertKeepsTable ==
  ASSUME TableOK, LedgerAssumption, NEW k \in Key, NEW m \in Nat,
         m \in 1..Cardinality(Rows(ProfileOf[k])) + 1,
         Unique([key |-> k, seq |-> m]),
         table' = table \cup {[key |-> k, seq |-> m]}
  PROVE  /\ TableOK'
         /\ \A p \in Profile : Cardinality(Rows(p)) =< Cardinality(Rows(p)')
<1> DEFINE row == [key |-> k, seq |-> m]
           q == ProfileOf[k]
           n == Cardinality(Rows(q))
<1>0. n \in Nat /\ IsFiniteSet(Rows(q))
  BY RowsFinite
<1>1. q \in Profile /\ n \in Nat /\ IsFiniteSet(Rows(q)) /\ m \in Nat \ {0}
  <2>1. q \in Profile BY DEF LedgerAssumption
  <2>2. m \in 1..n + 1 OBVIOUS
  <2>3. m # 0 BY <1>0, <2>2
  <2>4. QED BY <1>0, <2>1, <2>3
<1>2. m \notin Seqs(q)
  BY DEF Unique, Seqs, Rows
<1>3. Seqs(q) = 1..n
  BY <1>1 DEF TableOK
<1>4. m = n + 1
  BY <1>1, <1>2, <1>3
<1>5. row \notin table /\ row \notin Rows(q)
  BY DEF Unique, Rows
<1>6. /\ \A p : p # q => Rows(p)' = Rows(p)
      /\ Rows(q)' = Rows(q) \cup {row}
  <2>1. row.key = k OBVIOUS
  <2>2. \A p : Rows(p)' = {e \in table \cup {row} : ProfileOf[e.key] = p} BY DEF Rows
  <2>3. \A p : p # q => Rows(p)' = Rows(p) BY <2>1, <2>2 DEF Rows
  <2>4. Rows(q)' = Rows(q) \cup {row} BY <2>1, <2>2 DEF Rows
  <2>5. QED BY <2>3, <2>4
<1>7. Cardinality(Rows(q)') = n + 1
  <2>1. Cardinality(Rows(q) \cup {row}) = n + 1
    BY <1>1, <1>5, FS_AddElement
  <2>2. QED BY <2>1, <1>6
<1>8. ASSUME NEW p \in Profile PROVE Seqs(p)' = 1..Cardinality(Rows(p)')
  <2>1. CASE p # q
    BY <2>1, <1>6 DEF TableOK, Seqs
  <2>2. CASE p = q
    <3>1. Seqs(q)' = Seqs(q) \cup {m}
      <4>1. Seqs(q)' = {e.seq : e \in Rows(q) \cup {row}} BY <1>6 DEF Seqs
      <4>2. row.seq = m OBVIOUS
      <4>3. QED BY <4>1, <4>2 DEF Seqs
    <3>2. QED BY <2>2, <3>1, <1>1, <1>3, <1>4, <1>7
  <2>3. QED BY <2>1, <2>2
<1>9. IsFiniteSet(table') /\ table' \subseteq [key : Key, seq : Nat \ {0}]
  BY <1>1, FS_AddElement DEF TableOK
<1>10. \A e, f \in table' : e.key = f.key => e = f
  <2> TAKE e, f \in table'
  <2>1. \A g \in table : g.key # row.key BY DEF Unique
  <2>2. \A g \in table' : g \in table \/ g = row OBVIOUS
  <2>3. QED BY <2>1, <2>2 DEF TableOK
<1>11. \A p \in Profile : Cardinality(Rows(p)) =< Cardinality(Rows(p)')
  <2> TAKE p \in Profile
  <2>1. Cardinality(Rows(p)) \in Nat BY RowsFinite
  <2>2. CASE p = q BY <2>1, <2>2, <1>7
  <2>3. CASE p # q
    <3>1. Rows(p)' = Rows(p) BY <1>6, <2>3
    <3>2. QED BY <2>1, <3>1
  <2>4. QED BY <2>2, <2>3
<1>12. QED BY <1>8, <1>9, <1>10, <1>11 DEF TableOK

-----------------------------------------------------------------------------
\* The initial state satisfies the ledger's invariant.
LEMMA LedgerInit == ASSUME LedgerAssumption, Init PROVE LedgerInv
<1>1. \A p : Rows(p) = {} BY DEF Init, Rows
<1>2. IsFiniteSet({}) /\ Cardinality({}) = 0 BY FS_EmptySet
<1>3. TableOK
  <2>1. \A p : Seqs(p) = {} BY <1>1 DEF Seqs
  <2>2. ASSUME NEW p PROVE Seqs(p) = 1..Cardinality(Rows(p))
    <3>1. Cardinality(Rows(p)) = 0 BY <1>1, <1>2
    <3>2. 1..0 = {} OBVIOUS
    <3>3. QED BY <2>1, <3>1, <3>2
  <2>3. table = {} BY DEF Init
  <2>4. QED BY <2>2, <2>3, <1>2 DEF TableOK
<1>4. QED
  BY <1>3 DEF Init, LedgerInv, CallOK, ResultsStored, Returned, Created, Inserted, Stage

\* A step that leaves the table alone, and every call but c, keeps the
\* invariant when c's own part is kept.
LEMMA OneCallMoves ==
  ASSUME LedgerInv, NEW c \in Call, UNCHANGED table,
         pc' \in [Call -> Stage], number' \in [Call -> Nat],
         result' \in [Call -> {None, Failed} \cup [seq : Nat \ {0}, created : BOOLEAN]],
         \A d \in Call \ {c} : /\ pc'[d] = pc[d] /\ number'[d] = number[d]
                               /\ result'[d] = result[d],
         CallOK(c)',
         Returned(c)' => [key |-> KeyOf[c], seq |-> result'[c].seq] \in table,
         Inserted(c)' => Inserted(c)
  PROVE  LedgerInv'
<1>1. TableOK' /\ \A p : Rows(p)' = Rows(p)
  BY DEF LedgerInv, TableOK, Seqs, Rows
<1>2. \A d \in Call \ {c} : /\ CallOK(d)' <=> CallOK(d)
                            /\ Returned(d)' <=> Returned(d)
                            /\ Inserted(d)' <=> Inserted(d)
  BY <1>1 DEF CallOK, Returned, Created, Inserted, Profiled
<1>3. \A d \in Call : CallOK(d)'
  BY <1>2 DEF LedgerInv
<1>4. ResultsStored'
  BY <1>2 DEF LedgerInv, ResultsStored
<1>5. \A d \in Call : Inserted(d)' => Inserted(d)
  BY <1>2
<1>6. QED BY <1>1, <1>3, <1>4, <1>5 DEF LedgerInv

-----------------------------------------------------------------------------
\* Every step of RecordCallback keeps the ledger's invariant.
LEMMA RecordStep ==
  ASSUME LedgerAssumption, LedgerInv, NEW c \in Call, RecordCallback(c)
  PROVE  LedgerInv'
<1>1. CallOK(c) /\ TableOK /\ LedgerOf[c] \in Ledger /\ KeyOf[c] \in Key
      /\ Profiled(c) \in Profile
  BY DEF LedgerInv, LedgerAssumption, Profiled
<1>2. ASSUME NEW e \in Matching(KeyOf[c]), Return(c, Record(e, FALSE)),
             UNCHANGED <<table, number>>, pc[c] \in InLedger
      PROVE  LedgerInv'
  <2>1. /\ e \in table /\ e = [key |-> KeyOf[c], seq |-> e.seq]
        /\ Record(e, FALSE) = [seq |-> e.seq, created |-> FALSE]
        /\ Record(e, FALSE) \in [seq : Nat \ {0}, created : BOOLEAN]
    BY <1>1 DEF Matching, TableOK, Record
  <2>2. /\ pc' = [pc EXCEPT ![c] = "done"]
        /\ result' = [result EXCEPT ![c] = Record(e, FALSE)]
    BY <1>2 DEF Return
  <2>3. /\ pc'[c] = "done" /\ pc' \in [Call -> Stage]
        /\ result'[c] = Record(e, FALSE) /\ ~result'[c].created
        /\ result' \in [Call -> {None, Failed} \cup [seq : Nat \ {0}, created : BOOLEAN]]
    <3>1. pc'[c] = "done" /\ pc' \in [Call -> Stage] BY <2>2 DEF LedgerInv, Stage
    <3>2. result'[c] = Record(e, FALSE) BY <2>2 DEF LedgerInv
    <3>3. ~Record(e, FALSE).created BY DEF Record
    <3>4. result' \in [Call -> {None, Failed} \cup [seq : Nat \ {0}, created : BOOLEAN]]
      BY <2>1, <2>2 DEF LedgerInv
    <3>5. QED BY <3>1, <3>2, <3>3, <3>4
  <2>4. CallOK(c)' BY <1>1, <1>2, <2>1, <2>3 DEF CallOK, Stage
  <2>5. ~Inserted(c)' BY <2>3 DEF Inserted, Created
  <2>6. [key |-> KeyOf[c], seq |-> result'[c].seq] \in table
    <3>1. Record(e, FALSE).seq = e.seq BY DEF Record
    <3>2. result'[c].seq = e.seq BY <2>3, <3>1
    <3>3. QED BY <2>1, <3>2
  <2>7. \A d \in Call \ {c} : /\ pc'[d] = pc[d] /\ number'[d] = number[d]
                               /\ result'[d] = result[d]
    BY <1>2, <2>2 DEF LedgerInv
  <2>8. number' \in [Call -> Nat] BY <1>2 DEF LedgerInv
  <2>9. QED BY <1>2, <2>3, <2>4, <2>5, <2>6, <2>7, <2>8, OneCallMoves
<1>3. ASSUME Return(c, Failed), UNCHANGED <<table, number>>, pc[c] \in InLedger
      PROVE  LedgerInv'
  <2>1. /\ pc' = [pc EXCEPT ![c] = "done"] /\ result' = [result EXCEPT ![c] = Failed]
    BY <1>3 DEF Return
  <2>2. /\ pc'[c] = "done" /\ pc' \in [Call -> Stage] /\ result'[c] = Failed
        /\ result' \in [Call -> {None, Failed} \cup [seq : Nat \ {0}, created : BOOLEAN]]
    BY <2>1 DEF LedgerInv, Stage
  <2>3. CallOK(c)' BY <1>1, <1>3, <2>2 DEF CallOK, Stage
  <2>4. ~Returned(c)' BY <2>2 DEF Returned
  <2>5. ~Inserted(c)' BY <2>2, <2>4 DEF Inserted, Created
  <2>6. \A d \in Call \ {c} : /\ pc'[d] = pc[d] /\ number'[d] = number[d]
                               /\ result'[d] = result[d]
    BY <1>3, <2>1 DEF LedgerInv
  <2>7. number' \in [Call -> Nat] BY <1>3 DEF LedgerInv
  <2>8. QED BY <1>3, <2>2, <2>3, <2>4, <2>5, <2>6, <2>7, OneCallMoves
<1>4. ASSUME NEW stage \in {"looking", "numbering", "conflicted"},
             pc[c] \in {"new", "looking", "storing"},
             pc' = [pc EXCEPT ![c] = stage], UNCHANGED <<table, number, result>>
      PROVE  LedgerInv'
  <2>1. pc'[c] = stage /\ pc' \in [Call -> Stage] BY <1>4 DEF LedgerInv, Stage
  <2>2. CallOK(c)' BY <1>1, <1>4, <2>1 DEF CallOK, Stage
  <2>3. ~Returned(c)' BY <1>1, <1>4 DEF Returned, CallOK
  <2>4. ~Inserted(c)' BY <2>1, <2>3 DEF Inserted, Created
  <2>5. \A d \in Call \ {c} : /\ pc'[d] = pc[d] /\ number'[d] = number[d]
                               /\ result'[d] = result[d]
    BY <1>4 DEF LedgerInv
  <2>6. /\ number' \in [Call -> Nat]
        /\ result' \in [Call -> {None, Failed} \cup [seq : Nat \ {0}, created : BOOLEAN]]
    BY <1>4 DEF LedgerInv
  <2>7. QED BY <1>4, <2>1, <2>2, <2>3, <2>4, <2>5, <2>6, OneCallMoves
<1>5. CASE Lock(c)
  <2>1. pc[c] = "new" /\ pc' = [pc EXCEPT ![c] = "looking"]
        /\ UNCHANGED <<table, number, result>>
    BY <1>5 DEF Lock
  <2>2. QED BY <2>1, <1>4
<1>6. CASE EventByDedupKey(c)
  <2>1. pc[c] = "looking" /\ UNCHANGED <<table, number>> BY <1>6 DEF EventByDedupKey
  <2>2. CASE \E e \in Matching(KeyOf[c]) : Return(c, Record(e, FALSE))
    BY <2>1, <2>2, <1>2 DEF InLedger
  <2>3. CASE Goto(c, "numbering") BY <2>1, <2>3, <1>4 DEF Goto
  <2>4. QED BY <1>6, <2>2, <2>3 DEF EventByDedupKey
<1>7. CASE NumberEvent(c)
  <2>1. /\ pc[c] = "numbering" /\ number' = [number EXCEPT ![c] = NextEventSequence(Profiled(c))]
        /\ pc' = [pc EXCEPT ![c] = "storing"] /\ UNCHANGED <<table, result>>
    BY <1>7 DEF NumberEvent, Goto
  <2>2. /\ NextEventSequence(Profiled(c)) = Cardinality(Rows(Profiled(c))) + 1
        /\ Cardinality(Rows(Profiled(c))) \in Nat
    BY <1>1, NextIsFree, RowsFinite
  <2>3. /\ pc'[c] = "storing" /\ pc' \in [Call -> Stage]
        /\ number'[c] = Cardinality(Rows(Profiled(c))) + 1 /\ number' \in [Call -> Nat]
    BY <2>1, <2>2 DEF LedgerInv, Stage
  <2>4. Rows(Profiled(c))' = Rows(Profiled(c)) BY <2>1 DEF Rows, Profiled
  <2>5. result'[c] = None BY <1>1, <2>1 DEF CallOK
  <2>6. Cardinality(Rows(Profiled(c)))' = Cardinality(Rows(Profiled(c))) BY <2>4
  <2>7. number'[c] \in 1..Cardinality(Rows(Profiled(c)))' + 1 BY <2>2, <2>3, <2>6
  <2>8. CallOK(c)' BY <2>3, <2>5, <2>7 DEF CallOK, Stage
  <2>9. ~Returned(c)' /\ ~Inserted(c)' BY <2>3, <2>5 DEF Returned, Inserted, Created
  <2>10. \A d \in Call \ {c} : /\ pc'[d] = pc[d] /\ number'[d] = number[d]
                                /\ result'[d] = result[d]
    BY <2>1 DEF LedgerInv
  <2>11. result' \in [Call -> {None, Failed} \cup [seq : Nat \ {0}, created : BOOLEAN]]
    BY <2>1 DEF LedgerInv
  <2>12. QED BY <2>1, <2>3, <2>8, <2>9, <2>10, <2>11, OneCallMoves
<1>8. CASE PutEvent(c) /\ Goto(c, "conflicted") /\ UNCHANGED table
  <2>1. pc[c] = "storing" /\ pc' = [pc EXCEPT ![c] = "conflicted"]
        /\ UNCHANGED <<table, number, result>>
    BY <1>8 DEF PutEvent, Goto
  <2>2. QED BY <2>1, <1>4
<1>9. CASE LookUpConflict(c)
  <2>1. pc[c] = "conflicted" /\ UNCHANGED <<table, number>> BY <1>9 DEF LookUpConflict
  <2>2. QED BY <1>9, <2>1, <1>2, <1>3 DEF LookUpConflict, InLedger
<1>10. CASE StoreFails(c)
  BY <1>10, <1>3 DEF StoreFails, InLedger
<1>11. CASE Broadcast(c)
  <2> DEFINE res == [seq |-> number[c], created |-> TRUE]
  <2>1. /\ pc[c] = "broadcasting" /\ pc' = [pc EXCEPT ![c] = "done"]
        /\ result' = [result EXCEPT ![c] = res] /\ UNCHANGED <<table, number>>
    BY <1>11 DEF Broadcast, Return
  <2>2. [key |-> KeyOf[c], seq |-> number[c]] \in table BY <1>1, <2>1 DEF CallOK
  <2>3. number[c] \in Nat \ {0} BY <1>1, <2>2 DEF TableOK
  <2>4. res \in [seq : Nat \ {0}, created : BOOLEAN] BY <2>3
  <2>5. /\ pc'[c] = "done" /\ pc' \in [Call -> Stage]
        /\ result'[c] = res
        /\ result' \in [Call -> {None, Failed} \cup [seq : Nat \ {0}, created : BOOLEAN]]
    BY <2>1, <2>4 DEF LedgerInv, Stage
  <2>6. CallOK(c)' BY <1>1, <2>1, <2>4, <2>5 DEF CallOK, Stage
  <2>7. Inserted(c) BY <2>1 DEF Inserted
  <2>8. \A d \in Call \ {c} : /\ pc'[d] = pc[d] /\ number'[d] = number[d]
                               /\ result'[d] = result[d]
    BY <2>1 DEF LedgerInv
  <2>9. number' \in [Call -> Nat] BY <2>1 DEF LedgerInv
  <2>10. QED BY <2>1, <2>2, <2>5, <2>6, <2>7, <2>8, <2>9, OneCallMoves
<1>12. CASE PutEvent(c) /\ Unique([key |-> KeyOf[c], seq |-> number[c]])
                       /\ table' = table \cup {[key |-> KeyOf[c], seq |-> number[c]]}
                       /\ Goto(c, "broadcasting")
  <2> DEFINE row == [key |-> KeyOf[c], seq |-> number[c]]
  <2>1. /\ pc[c] = "storing" /\ pc' = [pc EXCEPT ![c] = "broadcasting"]
        /\ UNCHANGED <<number, result>> /\ result[c] = None
        /\ number[c] \in Nat /\ number[c] \in 1..Cardinality(Rows(ProfileOf[KeyOf[c]])) + 1
    BY <1>1, <1>12 DEF PutEvent, Goto, CallOK, Profiled
  <2>2. /\ TableOK'
        /\ \A p \in Profile : Cardinality(Rows(p)) =< Cardinality(Rows(p)')
    BY <1>1, <1>12, <2>1, InsertKeepsTable
  <2>3. table \subseteq table' /\ row \in table' BY <1>12
  <2>4. /\ pc' \in [Call -> Stage] /\ number' \in [Call -> Nat]
        /\ result' \in [Call -> {None, Failed} \cup [seq : Nat \ {0}, created : BOOLEAN]]
        /\ pc'[c] = "broadcasting" /\ \A d \in Call \ {c} : pc'[d] = pc[d]
    BY <2>1 DEF LedgerInv, Stage
  <2>5. ASSUME NEW d \in Call PROVE CallOK(d)'
    <3>1. CASE d = c BY <1>1, <2>1, <2>3, <2>4, <3>1 DEF CallOK, Stage
    <3>2. CASE d # c
      <4>1. CallOK(d) /\ Profiled(d) \in Profile
        BY DEF LedgerInv, LedgerAssumption, Profiled
      <4>2. Cardinality(Rows(Profiled(d))) =< Cardinality(Rows(Profiled(d)))'
        BY <4>1, <2>2 DEF Profiled
      <4>3. Cardinality(Rows(Profiled(d)))' \in Nat /\ Cardinality(Rows(Profiled(d))) \in Nat
        <5>1. Cardinality(Rows(Profiled(d))) \in Nat BY <1>1, RowsFinite
        <5>2. Rows(Profiled(d))' \subseteq table' BY DEF Rows
        <5>3. Cardinality(Rows(Profiled(d))') \in Nat
          BY <2>2, <5>2, FS_Subset, FS_CardinalityType DEF TableOK
        <5>4. QED BY <5>1, <5>3
      <4>4. pc[d] = "storing" => number[d] \in 1..Cardinality(Rows(Profiled(d)))' + 1
        BY <4>1, <4>2, <4>3 DEF CallOK
      <4>5. QED BY <4>1, <4>4, <3>2, <2>1, <2>3, <2>4 DEF CallOK
    <3>3. QED BY <3>1, <3>2
  <2>6. ResultsStored'
    BY <2>1, <2>3 DEF LedgerInv, ResultsStored, Returned
  <2>7. ASSUME NEW d \in Call, d # c, Inserted(d), KeyOf[d] = KeyOf[c] PROVE FALSE
    <3>1. \E e \in table : e.key = KeyOf[c]
      <4>1. CASE pc[d] = "broadcasting" BY <4>1, <2>7 DEF LedgerInv, CallOK
      <4>2. CASE Created(d) BY <4>2, <2>7 DEF LedgerInv, ResultsStored, Created
      <4>3. QED BY <2>7, <4>1, <4>2 DEF Inserted
    <3>2. \A e \in table : e.key # KeyOf[c] BY <1>12 DEF Unique
    <3>3. QED BY <3>1, <3>2
  <2>8. \A d \in Call \ {c} : Inserted(d)' => Inserted(d)
    BY <2>1, <2>4 DEF Inserted, Created, Returned
  <2>9. \A d, b \in Call : Inserted(d)' /\ Inserted(b)' /\ KeyOf[d] = KeyOf[b] => d = b
    BY <2>7, <2>8 DEF LedgerInv
  <2>10. QED BY <2>2, <2>4, <2>5, <2>6, <2>9 DEF LedgerInv
<1>13. QED BY <1>5, <1>6, <1>7, <1>8, <1>9, <1>10, <1>11, <1>12
         DEF RecordCallback, RecordLocked, PutEvent

\* A crash only takes calls out of the ledger.
LEMMA CrashStep ==
  ASSUME LedgerInv, NEW l \in Ledger, Crash(l)
  PROVE  LedgerInv'
<1>1. /\ UNCHANGED <<table, number, result>>
      /\ \A c \in Call : pc'[c] = pc[c] \/ (pc'[c] = "lost" /\ pc[c] \in InLedger)
      /\ pc' \in [Call -> Stage]
  BY DEF Crash, LedgerInv, Stage
<1>2. TableOK' /\ \A p : Rows(p)' = Rows(p)
  BY <1>1 DEF LedgerInv, TableOK, Seqs, Rows
<1>3. ASSUME NEW c \in Call PROVE CallOK(c)' /\ (Inserted(c)' => Inserted(c))
  <2>1. CallOK(c) /\ UNCHANGED Cardinality(Rows(Profiled(c)))
    BY <1>2 DEF LedgerInv, Profiled
  <2>2. CallOK(c)' BY <1>1, <2>1 DEF CallOK, Stage, InLedger
  <2>3. QED BY <1>1, <2>2 DEF Inserted, Created, Returned
<1>4. ResultsStored' BY <1>1 DEF LedgerInv, ResultsStored, Returned
<1>5. QED BY <1>1, <1>2, <1>3, <1>4 DEF LedgerInv

\* The invariant of the ledger holds in every reachable state.
LEMMA LedgerInvariant == Spec => []LedgerInv
<1>1. LedgerInv /\ [Next]_vars => LedgerInv'
  <2> SUFFICES ASSUME LedgerInv, [Next]_vars PROVE LedgerInv' OBVIOUS
  <2>1. CASE UNCHANGED <<table, pc, number, result>>
    <3>1. TableOK' /\ \A p : Rows(p)' = Rows(p)
      BY <2>1 DEF LedgerInv, TableOK, Seqs, Rows
    <3>2. \A c \in Call : (CallOK(c)' <=> CallOK(c)) /\ (Inserted(c)' <=> Inserted(c))
      BY <2>1, <3>1 DEF CallOK, Inserted, Created, Returned, Profiled
    <3>3. ResultsStored' BY <2>1 DEF LedgerInv, ResultsStored, Returned
    <3>4. QED BY <2>1, <3>1, <3>2, <3>3 DEF LedgerInv
  <2>2. ASSUME NEW w \in Watcher, Watch(w) \/ Unwatch(w) \/ Receive(w) \/ List(w)
        PROVE  LedgerInv'
    BY <2>1, <2>2 DEF Watch, Unwatch, Receive, List
  <2>3. CASE UNCHANGED vars BY <2>1, <2>3 DEF vars
  <2>4. QED BY <2>2, <2>3, RecordStep, CrashStep, LedgerAssumption DEF Next
<1>2. QED BY <1>1, LedgerInit, LedgerAssumption, PTL DEF Spec

\* The sequences of every profile are 1..n, though several processes may read
\* the maximum before either inserts, and any of them may crash.
THEOREM Gapless == Spec => []SequencesGapless
<1>1. LedgerInv => SequencesGapless BY DEF LedgerInv, TableOK, SequencesGapless, Seqs
<1>2. QED BY <1>1, LedgerInvariant, PTL

\* A callback is reported as new to at most one caller, ever.
THEOREM CreatedOnce == Spec => []AtMostOneCreated
<1>1. LedgerInv => AtMostOneCreated BY DEF LedgerInv, AtMostOneCreated, Inserted
<1>2. QED BY <1>1, LedgerInvariant, PTL

\* What a caller was told is stored, under the callback's own key.
THEOREM ToldIsStored == Spec => []ResultsStored
<1>1. LedgerInv => ResultsStored BY DEF LedgerInv
<1>2. QED BY <1>1, LedgerInvariant, PTL
=============================================================================
