---------------------------- MODULE PagingProofs ----------------------------
(***************************************************************************)
(* That a walk gives what the list held, in its order, for any lists, page *)
(* sizes, limits and number of changes, and nothing of another query.      *)
(*                                                                         *)
(* Some methods of the code share their query (two findings); what is said *)
(* of the list of a walk holds of clients that use no two such methods,    *)
(* OwnQueries, what is said of its query of all.                           *)
(*                                                                         *)
(* The prover has no induction over sequences, so the first part says what *)
(* Kept does by a least counterexample: what is kept of a beginning is the *)
(* beginning of what is kept.  The second part is the invariant: as long   *)
(* as the list only grew and the window did not slide, what was read is a  *)
(* beginning of the list, and what was given of what is kept of it.        *)
(***************************************************************************)
EXTENDS Paging, SequenceTheorems, WellFoundedInduction, TLAPS

\* Sequence s is how t begins.
Begins(s, t) == Len(s) <= Len(t) /\ \A i \in 1..Len(s) : s[i] = t[i]

\* No two methods of the client have cursors in common: it does not use both
\* lists of the query "list", and no two searches that make the same string.
OwnQueries == \A m, n \in Method : m.query = n.query => m = n

\* Begins is the library's relation.
LEMMA BeginsIsPrefix ==
  ASSUME NEW T, NEW s \in Seq(T), NEW t \in Seq(T)
  PROVE  Begins(s, t) <=> IsPrefix(s, t)
<1>1. Len(s) \in Nat /\ Len(t) \in Nat
  OBVIOUS
<1>2. ASSUME Len(s) <= Len(t)
      PROVE  /\ SubSeq(s, 1, Len(s)) \in Seq(T) /\ SubSeq(t, 1, Len(s)) \in Seq(T)
             /\ Len(SubSeq(s, 1, Len(s))) = Len(s) /\ Len(SubSeq(t, 1, Len(s))) = Len(s)
             /\ \A i \in 1..Len(s) : /\ SubSeq(s, 1, Len(s))[i] = s[i]
                                     /\ SubSeq(t, 1, Len(s))[i] = t[i]
  BY <1>1, <1>2
<1>3. ASSUME NEW a \in Seq(T), NEW b \in Seq(T), Len(a) = Len(b),
             \A i \in 1..Len(a) : a[i] = b[i]
      PROVE  a = b
  BY <1>3
<1>4. ASSUME Begins(s, t) PROVE IsPrefix(s, t)
  BY <1>1, <1>2, <1>3, <1>4 DEF Begins, IsPrefix
<1>5. ASSUME IsPrefix(s, t) PROVE Begins(s, t)
  BY <1>1, <1>2, <1>5 DEF Begins, IsPrefix
<1>6. QED BY <1>4, <1>5

\* Beginnings of beginnings.
LEMMA BeginsTransitive ==
  ASSUME NEW T, NEW s \in Seq(T), NEW t \in Seq(T), NEW u \in Seq(T),
         Begins(s, t), Begins(t, u)
  PROVE  Begins(s, u)
BY DEF Begins

\* What lies between 0 and N is in a set that has 0 and every successor.
LEMMA Induction ==
  ASSUME NEW N \in Nat, NEW S, 0 \in S, \A n \in 0..N : n \in S /\ n < N => n + 1 \in S
  PROVE  \A n \in 0..N : n \in S
<1> DEFINE T == {n \in 0..N : n \notin S}
<1> SUFFICES ASSUME T # {} PROVE FALSE
  OBVIOUS
<1>1. PICK n \in T : \A k \in T : ~ (<<k, n>> \in OpToRel(<, Nat))
  <2>1. T \subseteq Nat
    OBVIOUS
  <2> HIDE DEF T
  <2>2. QED BY <2>1, NatLessThanWellFounded, WFMin
<1>2. n \in Nat /\ n # 0 /\ n <= N /\ n - 1 \in 0..N /\ n - 1 < N
  OBVIOUS
<1>3. n - 1 \in T
  <2>1. n - 1 \notin S BY <1>2
  <2>2. QED BY <2>1, <1>2
<1>4. <<n - 1, n>> \in OpToRel(<, Nat)
  BY <1>2 DEF OpToRel
<1>5. QED BY <1>1, <1>3, <1>4

-----------------------------------------------------------------------------
\* f is the loop over the first N items.
Loops(m, items, N, f) ==
  f = [n \in 0..N |-> IF n = 0 THEN <<>> ELSE Take(m, f[n - 1], items[n])]

\* There is such a function, however many items there are.
LEMMA LoopExists ==
  ASSUME NEW m, NEW items, NEW N \in Nat
  PROVE  \E f : Loops(m, items, N, f)
<1> DEFINE S == {n \in 0..N : \E f : Loops(m, items, n, f)}
<1>1. 0 \in S
  <2>1. Loops(m, items, 0, [n \in 0..0 |-> <<>>])
    BY DEF Loops
  <2>2. QED BY <2>1
<1>2. ASSUME NEW k \in 0..N, k \in S, k < N PROVE k + 1 \in S
  <2>1. PICK f : Loops(m, items, k, f)
    BY <1>2
  <2> DEFINE g == [n \in 0..k + 1 |-> IF n = k + 1 THEN Take(m, f[k], items[k + 1]) ELSE f[n]]
  <2>2. \A n \in 0..k : g[n] = f[n]
    OBVIOUS
  <2>3. ASSUME NEW n \in 0..k + 1
        PROVE  g[n] = IF n = 0 THEN <<>> ELSE Take(m, g[n - 1], items[n])
    <3>1. CASE n = k + 1
      BY <3>1, <2>2
    <3>2. CASE n \in 0..k
      <4>1. f[n] = IF n = 0 THEN <<>> ELSE Take(m, f[n - 1], items[n])
        BY <2>1, <3>2 DEF Loops
      <4>2. n # 0 => n - 1 \in 0..k
        BY <3>2
      <4> HIDE DEF g
      <4>3. QED BY <4>1, <4>2, <2>2, <3>2
    <3>3. QED BY <3>1, <3>2
  <2>4. Loops(m, items, k + 1, g)
    <3>1. g = [n \in 0..k + 1 |-> g[n]]
      OBVIOUS
    <3> HIDE DEF g
    <3>2. QED BY <3>1, <2>3 DEF Loops
  <2>5. k + 1 \in 0..N
    BY <1>2
  <2> HIDE DEF g
  <2>6. QED BY <2>4, <2>5
<1>3. \A n \in 0..N : n \in S
  <2> HIDE DEF S
  <2>1. QED BY <1>1, <1>2, Induction
<1>4. QED BY <1>3

\* What KeptUpTo computes.
LEMMA KeptUpToLoops ==
  ASSUME NEW m, NEW items, Len(items) \in Nat
  PROVE  LET kept == KeptUpTo(m, items)
         IN  /\ kept[0] = <<>>
             /\ \A n \in 1..Len(items) : kept[n] = Take(m, kept[n - 1], items[n])
<1>1. KeptUpTo(m, items) = CHOOSE f : Loops(m, items, Len(items), f)
  BY DEF KeptUpTo, Loops
<1>2. Loops(m, items, Len(items), KeptUpTo(m, items))
  BY <1>1, LoopExists
<1>3. QED BY <1>2 DEF Loops

\* One turn of the loop adds the item or nothing.
LEMMA TakeTyped ==
  ASSUME NEW T, NEW m, NEW item \in T, NEW kept \in Seq(T)
  PROVE  Take(m, kept, item) \in Seq(T) /\ Begins(kept, Take(m, kept, item))
<1>1. Append(kept, item) \in Seq(T) /\ Begins(kept, Append(kept, item))
  BY DEF Begins
<1>2. Begins(kept, kept)
  BY DEF Begins
<1>3. QED BY <1>1, <1>2 DEF Take

\* What is kept are items.
LEMMA KeptUpToTyped ==
  ASSUME NEW T, NEW m, NEW items \in Seq(T)
  PROVE  \A n \in 0..Len(items) : KeptUpTo(m, items)[n] \in Seq(T)
<1> DEFINE kept == KeptUpTo(m, items)
           S == {n \in 0..Len(items) : kept[n] \in Seq(T)}
<1>1. Len(items) \in Nat
  OBVIOUS
<1>2. /\ kept[0] = <<>>
      /\ \A n \in 1..Len(items) : kept[n] = Take(m, kept[n - 1], items[n])
  BY <1>1, KeptUpToLoops
<1> HIDE DEF kept
<1>3. 0 \in S
  <2>1. <<>> \in Seq(T)
    OBVIOUS
  <2>2. kept[0] \in Seq(T)
    BY <1>2, <2>1
  <2>3. QED BY <1>1, <2>2
<1>4. ASSUME NEW n \in 0..Len(items), n \in S, n < Len(items) PROVE n + 1 \in S
  <2>1. n + 1 \in 1..Len(items) /\ (n + 1) - 1 = n
    BY <1>1, <1>4
  <2>2. kept[n + 1] = Take(m, kept[n], items[n + 1])
    BY <1>2, <2>1
  <2>3. kept[n] \in Seq(T) /\ items[n + 1] \in T
    BY <1>4, <2>1
  <2>4. Take(m, kept[n], items[n + 1]) \in Seq(T)
    BY <2>3, TakeTyped
  <2>5. QED BY <2>1, <2>2, <2>4
<1>5. \A n \in 0..Len(items) : n \in S
  <2> HIDE DEF S
  <2>1. QED BY <1>1, <1>3, <1>4, Induction
<1>6. QED BY <1>5 DEF kept

\* More items do not change what is kept of the earlier ones.
LEMMA KeptUpToGrows ==
  ASSUME NEW T, NEW m, NEW items \in Seq(T), NEW a \in 0..Len(items)
  PROVE  Begins(KeptUpTo(m, items)[a], Kept(m, items))
<1> DEFINE kept == KeptUpTo(m, items)
           S == {n \in 0..Len(items) : a <= n => Begins(kept[a], kept[n])}
<1>1. Len(items) \in Nat
  OBVIOUS
<1>2. \A n \in 1..Len(items) : kept[n] = Take(m, kept[n - 1], items[n])
  BY <1>1, KeptUpToLoops
<1>3. \A n \in 0..Len(items) : kept[n] \in Seq(T)
  BY KeptUpToTyped
<1>4. Kept(m, items) = kept[Len(items)]
  BY DEF Kept
<1> HIDE DEF kept
<1>5. Begins(kept[a], kept[a])
  BY <1>3 DEF Begins
<1>6. 0 \in S
  BY <1>1, <1>5
<1>7. ASSUME NEW n \in 0..Len(items), n \in S, n < Len(items) PROVE n + 1 \in S
  <2>1. n + 1 \in 1..Len(items) /\ (n + 1) - 1 = n
    BY <1>1, <1>7
  <2>2. kept[n + 1] = Take(m, kept[n], items[n + 1])
    BY <1>2, <2>1
  <2>3. kept[n] \in Seq(T) /\ kept[n + 1] \in Seq(T) /\ kept[a] \in Seq(T)
        /\ items[n + 1] \in T
    BY <1>1, <1>3, <2>1
  <2>4. Begins(kept[n], kept[n + 1])
    BY <2>2, <2>3, TakeTyped
  <2>5. CASE a <= n
    BY <1>7, <2>1, <2>3, <2>4, <2>5, BeginsTransitive
  <2>6. CASE a = n + 1
    BY <1>5, <2>1, <2>6
  <2>7. CASE a > n + 1
    BY <1>1, <2>1, <2>7
  <2>8. QED BY <1>1, <2>5, <2>6, <2>7
<1>8. \A n \in 0..Len(items) : n \in S
  <2> HIDE DEF S
  <2>1. QED BY <1>1, <1>6, <1>7, Induction
<1>9. QED BY <1>1, <1>4, <1>8 DEF kept

\* The loop over the first items does not depend on the later ones.
LEMMA KeptUpToAgrees ==
  ASSUME NEW T, NEW m, NEW s \in Seq(T), NEW t \in Seq(T), Begins(s, t)
  PROVE  Kept(m, s) = KeptUpTo(m, t)[Len(s)]
<1> DEFINE f == KeptUpTo(m, s)
           g == KeptUpTo(m, t)
           S == {n \in 0..Len(s) : f[n] = g[n]}
<1>1. Len(s) \in Nat /\ Len(t) \in Nat /\ Len(s) <= Len(t)
  BY DEF Begins
<1>2. f[0] = <<>> /\ \A n \in 1..Len(s) : f[n] = Take(m, f[n - 1], s[n])
  BY <1>1, KeptUpToLoops
<1>3. g[0] = <<>> /\ \A n \in 1..Len(t) : g[n] = Take(m, g[n - 1], t[n])
  BY <1>1, KeptUpToLoops
<1>4. Kept(m, s) = f[Len(s)]
  BY DEF Kept
<1> HIDE DEF f, g
<1>5. 0 \in S
  BY <1>1, <1>2, <1>3
<1>6. ASSUME NEW n \in 0..Len(s), n \in S, n < Len(s) PROVE n + 1 \in S
  <2>1. n + 1 \in 1..Len(s) /\ n + 1 \in 1..Len(t) /\ (n + 1) - 1 = n
    BY <1>1, <1>6
  <2>2. s[n + 1] = t[n + 1]
    BY <2>1 DEF Begins
  <2>3. f[n + 1] = Take(m, f[n], s[n + 1]) /\ g[n + 1] = Take(m, g[n], t[n + 1])
    BY <1>2, <1>3, <2>1
  <2>4. QED BY <1>6, <2>1, <2>2, <2>3
<1>7. \A n \in 0..Len(s) : n \in S
  <2> HIDE DEF S
  <2>1. QED BY <1>1, <1>5, <1>6, Induction
<1>8. QED BY <1>1, <1>4, <1>7 DEF g

\* What is kept are items.
LEMMA KeptTyped ==
  ASSUME NEW T, NEW m, NEW items \in Seq(T)
  PROVE  Kept(m, items) \in Seq(T)
<1>1. Len(items) \in 0..Len(items)
  OBVIOUS
<1>2. QED BY <1>1, KeptUpToTyped DEF Kept

\* What is kept of a beginning is the beginning of what is kept.
LEMMA KeptBegins ==
  ASSUME NEW T, NEW m, NEW s \in Seq(T), NEW t \in Seq(T), Begins(s, t)
  PROVE  Begins(Kept(m, s), Kept(m, t))
<1>1. Len(s) \in 0..Len(t)
  BY DEF Begins
<1>2. QED BY <1>1, KeptUpToAgrees, KeptUpToGrows

-----------------------------------------------------------------------------
\* The items a list of method m can hold.
Items(m) == {m} \X Nat

\* The queries a cursor can have.
Queries == {m.query : m \in Method}

\* Every list is of its method's items.
Typed ==
  /\ list \in [Method -> Seq(Method \X Nat)]
  /\ \A m \in Method : list[m] \in Seq(Items(m))
  /\ pc \in {"idle", "reading", "answering", "done"}
  /\ call \in [method : Method, offset : Nat, limit : Nat \ {0}]
  /\ page \in Nat /\ result \in Seq(Items(call.method))
  /\ cursor \in [query : {<<>>} \cup Queries, offset : Nat]
  /\ cursor.query = <<>> => cursor = NoCursor
  /\ answer \in {"page", "invalid", "expired", "failed"}
  /\ got \in Seq(Method \X Nat)
  /\ walk \in Method /\ first \in Seq(Items(walk))
  /\ changes \subseteq {"grown", "shifted", "shrunk"}
  /\ changed \in Nat /\ failures \in Nat

\* The cursor is the walk's, so every call that reads is.
Bound ==
  /\ cursor = NoCursor \/ cursor.query = walk.query
  /\ pc \in {"reading", "answering"} => call.method = walk
  /\ got \in Seq(Items(walk))

\* The cursor has the walk's query, and so has whatever reads and was given.
QueryBound ==
  /\ cursor = NoCursor \/ cursor.query = walk.query
  /\ pc \in {"reading", "answering"} => call.method.query = walk.query
  /\ \A i \in 1..Len(got) : got[i][1].query = walk.query

\* The list only grew since the walk began, and its window did not slide.
Steady == changes \subseteq {"grown"} /\ ~Slides

\* How far a call has read.
ReadSoFar ==
  /\ Begins(result, list[walk])
  /\ walk.read = "pages" => Len(result) = page * ServerPage
  /\ walk.read # "pages" => result = <<>>

\* What was read, and what was given, against the list as it is now.
Walked ==
  /\ cursor = NoCursor /\ pc # "done" => got = <<>>
  /\ pc \in {"reading", "answering"} => call.offset = cursor.offset
  /\ changes \subseteq {"grown"} => Begins(first, list[walk])
  /\ Steady =>
       /\ pc = "reading" => ReadSoFar
       /\ pc = "answering" => Begins(first, result) /\ Begins(result, list[walk])
       /\ pc # "done" => Len(got) = cursor.offset /\ Begins(got, Kept(walk, list[walk]))
       /\ pc = "done" /\ answer = "page" =>
            Begins(Kept(walk, first), got) /\ Begins(got, Kept(walk, list[walk]))

-----------------------------------------------------------------------------
\* A slice of items are items, and as many as there are between its ends.
LEMMA SliceFacts ==
  ASSUME NEW T, NEW s \in Seq(T), NEW from \in Nat, NEW to \in Nat, from <= to
  PROVE  /\ Slice(s, from, to) \in Seq(T)
         /\ to <= Len(s) => Len(Slice(s, from, to)) = to - from
         /\ from <= Len(s) /\ Len(s) < to => Len(Slice(s, from, to)) = Len(s) - from
         /\ Len(s) < from => Slice(s, from, to) = <<>>
         /\ \A i \in 1..Len(Slice(s, from, to)) :
              from + i \in 1..Len(s) /\ Slice(s, from, to)[i] = s[from + i]
<1> DEFINE end == IF to < Len(s) THEN to ELSE Len(s)
<1>1. Len(s) \in Nat /\ end \in Nat /\ end <= Len(s)
  OBVIOUS
<1>2. Slice(s, from, to) = SubSeq(s, from + 1, end)
  BY DEF Slice
<1>3. CASE from <= Len(s)
  <2>1. from <= end
    BY <1>3
  <2> HIDE DEF end
  <2>2. /\ SubSeq(s, from + 1, end) \in Seq(T)
        /\ Len(SubSeq(s, from + 1, end)) = end - from
        /\ \A i \in 1..end - from : SubSeq(s, from + 1, end)[i] = s[from + i]
    BY <1>1, <2>1
  <2>3. QED BY <1>1, <1>2, <1>3, <2>1, <2>2 DEF end
<1>4. CASE Len(s) < from
  <2>1. end = Len(s)
    BY <1>4
  <2> HIDE DEF end
  <2>2. SubSeq(s, from + 1, end) = <<>>
    BY <1>1, <1>4, <2>1
  <2>3. QED BY <1>1, <1>2, <1>4, <2>2
<1>5. QED BY <1>1, <1>3, <1>4

\* A beginning of s and the slice after it are the beginning of s up to there.
LEMMA SliceJoins ==
  ASSUME NEW T, NEW s \in Seq(T), NEW r \in Seq(T), Begins(r, s), NEW n \in Nat
  PROVE  LET joined == r \o Slice(s, Len(r), Len(r) + n)
         IN  /\ joined \in Seq(T) /\ Begins(joined, s)
             /\ Len(joined) = IF Len(r) + n < Len(s) THEN Len(r) + n ELSE Len(s)
<1> DEFINE slice == Slice(s, Len(r), Len(r) + n)
<1>1. Len(r) \in Nat /\ Len(s) \in Nat /\ Len(r) <= Len(s)
  BY DEF Begins
<1>2. /\ slice \in Seq(T)
      /\ Len(slice) = IF Len(r) + n < Len(s) THEN n ELSE Len(s) - Len(r)
      /\ \A i \in 1..Len(slice) : slice[i] = s[Len(r) + i]
  BY <1>1, SliceFacts
<1> HIDE DEF slice
<1>3. /\ r \o slice \in Seq(T)
      /\ Len(r \o slice) = Len(r) + Len(slice)
      /\ \A i \in 1..Len(r) : (r \o slice)[i] = r[i]
      /\ \A i \in Len(r) + 1..Len(r) + Len(slice) : (r \o slice)[i] = slice[i - Len(r)]
  <2>1. /\ \A i \in 1..Len(r) + Len(slice) :
             (r \o slice)[i] = IF i <= Len(r) THEN r[i] ELSE slice[i - Len(r)]
        /\ r \o slice \in Seq(T) /\ Len(r \o slice) = Len(r) + Len(slice)
    BY <1>2, ConcatProperties
  <2>2. Len(slice) \in Nat
    BY <1>2
  <2>3. QED BY <1>1, <2>1, <2>2
<1>4. \A i \in Len(r) + 1..Len(r) + Len(slice) : (r \o slice)[i] = s[i]
  <2>1. TAKE i \in Len(r) + 1..Len(r) + Len(slice)
  <2>2. i - Len(r) \in 1..Len(slice) /\ Len(r) + (i - Len(r)) = i
    BY <1>1, <1>2
  <2>3. QED BY <1>2, <1>3, <2>2
<1>5. Begins(r \o slice, s)
  <2>1. \A i \in 1..Len(r) : r[i] = s[i]
    BY DEF Begins
  <2>2. Len(r \o slice) <= Len(s) /\ Len(slice) \in Nat
    BY <1>1, <1>2, <1>3
  <2>3. ASSUME NEW i \in 1..Len(r \o slice) PROVE (r \o slice)[i] = s[i]
    <3>1. i \in 1..Len(r) \/ i \in Len(r) + 1..Len(r) + Len(slice)
      BY <1>1, <1>3, <2>2
    <3>2. QED BY <1>3, <1>4, <2>1, <3>1
  <2>4. QED BY <2>2, <2>3 DEF Begins
<1>6. Len(r \o slice) = IF Len(r) + n < Len(s) THEN Len(r) + n ELSE Len(s)
  BY <1>1, <1>2, <1>3
<1>7. QED BY <1>3, <1>5, <1>6 DEF slice

\* The server's pages begin where the last one ended.
LEMMA PageFacts ==
  ASSUME NEW n \in Nat, NEW size \in Nat
  PROVE  /\ n * size \in Nat /\ (n + 1) * size \in Nat
         /\ (n + 1) * size = n * size + size /\ n * size <= (n + 1) * size
OBVIOUS

\* The queries of methods are no NoCursor's.
LEMMA MethodFacts ==
  \A m \in Method : /\ m.query # <<>>
                    /\ m.read \in {"pages", "all", "window"} /\ m.filter \in BOOLEAN
BY PagingAssumption

\* What Kept and a slice of it give of a method's items are its items.
LEMMA PageTyped ==
  ASSUME Typed
  PROVE  LET items == Kept(call.method, result)
         IN  /\ items \in Seq(Items(call.method))
             /\ Slice(items, call.offset, call.offset + call.limit) \in Seq(Items(call.method))
<1>1. Kept(call.method, result) \in Seq(Items(call.method))
  BY KeptTyped DEF Typed
<1>2. /\ call.offset \in Nat /\ call.offset + call.limit \in Nat
      /\ call.offset <= call.offset + call.limit
  BY DEF Typed
<1>3. QED BY <1>1, <1>2, SliceFacts

\* Items of one method are items of the methods.
LEMMA ItemsSubset == \A m \in Method : Seq(Items(m)) \subseteq Seq(Method \X Nat)
BY DEF Items

\* The lists at first.
LEMMA InitTyped == Init => Typed
<1> SUFFICES ASSUME Init PROVE Typed
  OBVIOUS
<1>1. \A m \in Method : NumberedItems(m) \in Seq(Items(m))
  BY PagingAssumption DEF NumberedItems, Items
<1>2. \A m \in Method : list[m] \in Seq(Items(m)) /\ list[m] \in Seq(Method \X Nat)
  BY <1>1, ItemsSubset DEF Init
<1>3. list \in [Method -> Seq(Method \X Nat)]
  BY <1>2 DEF Init
<1>4. <<>> \in Seq(Method \X Nat) /\ <<>> \in Seq(Items(walk))
  OBVIOUS
<1>5. call \in [method : Method, offset : Nat, limit : Nat \ {0}] /\ call.method = walk
  BY DEF Init
<1>6. cursor \in [query : {<<>>} \cup Queries, offset : Nat]
  BY DEF Init, NoCursor
<1>7. QED BY <1>2, <1>3, <1>4, <1>5, <1>6 DEF Init, Typed

\* Asking: the list is the walk's when the walk begins.
LEMMA AskTyped ==
  ASSUME Typed, NEW m \in Method, NEW limit \in Limits, Ask(m, limit)
  PROVE  Typed'
<1>1. limit \in Nat \ {0}
  BY PagingAssumption
<1>2. /\ pc' \in {"idle", "reading", "answering", "done"}
      /\ call' \in [method : Method, offset : Nat, limit : Nat \ {0}]
      /\ answer' \in {"page", "invalid", "expired", "failed"}
  BY <1>1 DEF Ask, Typed, DecodeCursor
<1>3. page' \in Nat /\ result' \in Seq(Items(call'.method))
  BY DEF Ask
<1>4. first' \in Seq(Items(walk')) /\ changes' \subseteq {"grown", "shifted", "shrunk"}
  BY DEF Ask, Typed
<1>5. UNCHANGED <<list, cursor, got, walk, changed, failures>>
  BY DEF Ask
<1>6. QED BY <1>2, <1>3, <1>4, <1>5 DEF Typed, NoCursor

\* What the reading steps read of a list are its items.
LEMMA ReadTyped ==
  ASSUME Typed, NEW items \in Seq(Items(call.method)), NEW more \in BOOLEAN, Read(items, more)
  PROVE  Typed'
<1>1. result' \in Seq(Items(call.method))
  BY DEF Read, Typed
<1>2. page' \in Nat /\ pc' \in {"idle", "reading", "answering", "done"}
  BY DEF Read, Typed
<1>3. UNCHANGED <<list, call, answer, cursor, got, walk, first, changes, changed, failures>>
  BY DEF Read, client
<1>4. QED BY <1>1, <1>2, <1>3 DEF Typed, NoCursor

\* Every reading step is one of those.
LEMMA ReadsItems ==
  ASSUME Typed, ReadPage \/ ReadAll \/ ReadWindow
  PROVE  \E items \in Seq(Items(call.method)), more \in BOOLEAN : Read(items, more)
<1>1. Here \in Seq(Items(call.method)) /\ Len(Here) \in Nat
  BY DEF Here, Typed
<1>2. CASE ReadPage
  <2>1. /\ page * ServerPage \in Nat /\ (page + 1) * ServerPage \in Nat
        /\ page * ServerPage <= (page + 1) * ServerPage
    BY PagingAssumption, PageFacts DEF Typed
  <2>2. Slice(Here, page * ServerPage, (page + 1) * ServerPage) \in Seq(Items(call.method))
    <3> HIDE DEF Here
    <3>1. QED BY <1>1, <2>1, SliceFacts
  <2>3. QED BY <1>2, <2>2 DEF ReadPage
<1>3. CASE ReadAll
  BY <1>1, <1>3 DEF ReadAll
<1>4. CASE ReadWindow
  <2> DEFINE from == IF Len(Here) > Window THEN Len(Here) - Window ELSE 0
  <2>1. from \in Nat /\ from <= Len(Here)
    BY <1>1, PagingAssumption
  <2>2. Slice(Here, from, Len(Here)) \in Seq(Items(call.method))
    <3> HIDE DEF from, Here
    <3>1. QED BY <1>1, <2>1, SliceFacts
  <2>3. QED BY <1>4, <2>2 DEF ReadWindow
<1>5. QED BY <1>2, <1>3, <1>4

\* A page adds items to what was given.
LEMMA AnswerTyped ==
  ASSUME Typed, Answer
  PROVE  Typed'
<1> DEFINE items == Kept(call.method, result)
           slice == Slice(items, call.offset, call.offset + call.limit)
<1>1. slice \in Seq(Method \X Nat)
  BY PageTyped, ItemsSubset DEF Typed
<1>2. UNCHANGED <<list, call, page, result, walk, first, changes, changed, failures>>
  BY DEF Answer
<1>3. pc' \in {"idle", "done"} /\ answer' \in {"page", "expired"}
  BY DEF Answer
<1>4. got' = got \/ got' = got \o slice
  BY DEF Answer
<1>5. got' \in Seq(Method \X Nat)
  <2> HIDE DEF slice
  <2>1. got \in Seq(Method \X Nat)
    BY DEF Typed
  <2>2. got \o slice \in Seq(Method \X Nat)
    BY <1>1, <2>1, ConcatProperties
  <2>3. QED BY <1>4, <2>1, <2>2
<1>6. /\ cursor' \in [query : {<<>>} \cup Queries, offset : Nat]
      /\ cursor'.query = <<>> => cursor' = NoCursor
  <2>1. cursor' = cursor \/ cursor' = NextCursor(items)
    BY DEF Answer
  <2>2. /\ call.method.query \in Queries /\ call.method.query # <<>>
        /\ call.offset + call.limit \in Nat
    BY MethodFacts DEF Typed, Queries
  <2>3. NoCursor \in [query : {<<>>} \cup Queries, offset : Nat]
    BY DEF NoCursor
  <2> HIDE DEF items
  <2>4. QED BY <2>1, <2>2, <2>3 DEF NextCursor, Typed
<1>7. QED BY <1>2, <1>3, <1>5, <1>6 DEF Typed, NoCursor

\* The list of the walk becomes another one of its items.
LEMMA BecomesTyped ==
  ASSUME Typed, Grow \/ GrowAtFront \/ Shrink
  PROVE  Typed'
<1>1. New \in Items(walk)
  BY PagingAssumption DEF New, Items, Typed
<1>2. list[walk] \in Seq(Items(walk))
  BY DEF Typed
<1>3. Append(list[walk], New) \in Seq(Items(walk))
  BY <1>1, <1>2
<1>4. <<New>> \o list[walk] \in Seq(Items(walk))
  <2> HIDE DEF New
  <2>1. <<New>> \in Seq(Items(walk))
    BY <1>1
  <2>2. QED BY <1>2, <2>1
<1>5. \A i \in 1..Len(list[walk]) : RemoveAt(list[walk], i) \in Seq(Items(walk))
  <2>1. TAKE i \in 1..Len(list[walk])
  <2>2. /\ SubSeq(list[walk], 1, i - 1) \in Seq(Items(walk))
        /\ SubSeq(list[walk], i + 1, Len(list[walk])) \in Seq(Items(walk))
    BY <1>2
  <2>3. QED BY <2>2 DEF RemoveAt
<1>6. PICK items \in Seq(Items(walk)), how \in {"grown", "shifted", "shrunk"} :
         Becomes(items, how)
  BY <1>3, <1>4, <1>5 DEF Grow, GrowAtFront, Shrink
<1>7. /\ list' = [list EXCEPT ![walk] = items]
      /\ changes' = changes \cup {how} /\ changed' = changed + 1
      /\ UNCHANGED <<pc, call, page, result, cursor, answer, got, walk, first, failures>>
  BY <1>6 DEF Becomes
<1>8. items \in Seq(Method \X Nat)
  BY ItemsSubset DEF Typed
<1>9. list' \in [Method -> Seq(Method \X Nat)] /\ \A m \in Method : list'[m] \in Seq(Items(m))
  BY <1>7, <1>8 DEF Typed
<1>10. changes' \subseteq {"grown", "shifted", "shrunk"} /\ changed' \in Nat
  BY <1>7 DEF Typed
<1>11. QED BY <1>7, <1>9, <1>10 DEF Typed, NoCursor

\* Every list is of its method's items, and so is what is read and given.
THEOREM TypeCorrect == Spec => []Typed
<1>1. Typed /\ [Next]_vars => Typed'
  <2> SUFFICES ASSUME Typed, [Next]_vars PROVE Typed'
    OBVIOUS
  <2>1. ASSUME NEW m \in Method, NEW limit \in Limits, Ask(m, limit) PROVE Typed'
    BY <2>1, AskTyped
  <2>2. CASE ReadPage \/ ReadAll \/ ReadWindow
    BY <2>2, ReadsItems, ReadTyped
  <2>3. CASE ReadFails
    BY <2>3 DEF ReadFails, client, Typed, NoCursor
  <2>4. CASE Answer
    BY <2>4, AnswerTyped
  <2>5. CASE Grow \/ GrowAtFront \/ Shrink
    BY <2>5, BecomesTyped
  <2>6. CASE UNCHANGED vars
    BY <2>6 DEF vars, Typed, NoCursor
  <2>7. QED BY <2>1, <2>2, <2>3, <2>4, <2>5, <2>6 DEF Next
<1>2. QED BY InitTyped, <1>1, PTL DEF Spec

-----------------------------------------------------------------------------
\* A method whose cursor this is is the walk's.
LEMMA AskOfWalk ==
  ASSUME OwnQueries, Typed, Bound, NEW m \in Method, NEW limit \in Limits, Ask(m, limit)
  PROVE  /\ cursor = NoCursor => m = walk
         /\ pc' = "reading" => m = walk /\ call' = [method |-> walk, offset |-> cursor.offset,
                                                    limit |-> limit]
         /\ pc' = "idle" \/ pc' = "reading"
<1>1. pc = "idle" /\ (cursor = NoCursor => m = walk)
  BY DEF Ask
<1>2. CASE \E offset \in DecodeCursor(m) :
             pc' = "reading" /\ call' = [method |-> m, offset |-> offset, limit |-> limit]
  <2>1. cursor.query \in {<<>>, m.query} /\ DecodeCursor(m) = {cursor.offset}
    BY <1>2 DEF DecodeCursor, NoCursor
  <2>2. m = walk
    BY <1>1, <2>1, MethodFacts DEF OwnQueries, Bound, Typed
  <2>3. QED BY <1>2, <2>1, <2>2
<1>3. CASE UNCHANGED pc
  BY <1>1, <1>3
<1>4. QED BY <1>2, <1>3 DEF Ask

\* With queries of their own, no other method takes the walk's cursor.
LEMMA BoundInvariant == OwnQueries /\ Spec => []Bound
<1>1. Init => Bound
  BY DEF Init, Bound
<1>2. OwnQueries /\ Typed /\ Bound /\ [Next]_vars => Bound'
  <2> SUFFICES ASSUME OwnQueries, Typed, Bound, [Next]_vars PROVE Bound'
    OBVIOUS
  <2> USE DEF Bound
  <2>1. ASSUME NEW m \in Method, NEW limit \in Limits, Ask(m, limit) PROVE Bound'
    <3>1. UNCHANGED <<cursor, got, walk>>
      BY <2>1 DEF Ask
    <3>2. pc' \in {"reading", "answering"} => call'.method = walk
      BY <2>1, AskOfWalk
    <3>3. QED BY <3>1, <3>2 DEF NoCursor
  <2>2. CASE ReadPage \/ ReadAll \/ ReadWindow
    <3>1. pc = "reading" /\ UNCHANGED <<call, cursor, got, walk>>
      BY <2>2 DEF ReadPage, ReadAll, ReadWindow, Read, client
    <3>2. QED BY <3>1 DEF NoCursor
  <2>3. CASE ReadFails
    BY <2>3 DEF ReadFails, client, NoCursor
  <2>4. CASE Answer
    <3> DEFINE items == Kept(call.method, result)
               slice == Slice(items, call.offset, call.offset + call.limit)
    <3>1. call.method = walk /\ walk' = walk /\ pc' \in {"idle", "done"}
      BY <2>4 DEF Answer
    <3>2. slice \in Seq(Items(walk))
      BY <3>1, PageTyped
    <3>3. got' = got \/ got' = got \o slice
      BY <2>4 DEF Answer
    <3>4. cursor' = cursor \/ cursor' = NextCursor(items)
      BY <2>4 DEF Answer
    <3> HIDE DEF items, slice
    <3>5. cursor' = NoCursor \/ cursor'.query = walk.query
      BY <3>1, <3>4 DEF NextCursor, NoCursor
    <3>6. got' \in Seq(Items(walk))
      BY <3>2, <3>3, ConcatProperties
    <3>7. QED BY <3>1, <3>5, <3>6 DEF NoCursor
  <2>5. CASE Grow \/ GrowAtFront \/ Shrink
    BY <2>5 DEF Grow, GrowAtFront, Shrink, Becomes, NoCursor
  <2>6. CASE UNCHANGED vars
    BY <2>6 DEF vars, NoCursor
  <2>7. QED BY <2>1, <2>2, <2>3, <2>4, <2>5, <2>6 DEF Next
<1>3. OwnQueries => OwnQueries'
  BY DEF OwnQueries
<1>4. QED BY <1>1, <1>2, <1>3, TypeCorrect, PTL DEF Spec

\* A walk of a client whose methods have queries of their own gives items of one
\* method only, whatever it does with its cursors.
THEOREM OneList == OwnQueries /\ Spec => []OneListPerWalk
<1>1. Bound => OneListPerWalk
  BY DEF Bound, OneListPerWalk, Items
<1>2. QED BY <1>1, BoundInvariant, PTL

-----------------------------------------------------------------------------
\* A method that takes the cursor has the walk's query, though it may be another.
LEMMA AskOfQuery ==
  ASSUME Typed, QueryBound, NEW m \in Method, NEW limit \in Limits, Ask(m, limit)
  PROVE  pc' \in {"reading", "answering"} => call'.method.query = walk.query
<1>1. pc = "idle" /\ (cursor = NoCursor => m = walk)
  BY DEF Ask
<1>2. CASE \E offset \in DecodeCursor(m) :
             pc' = "reading" /\ call' = [method |-> m, offset |-> offset, limit |-> limit]
  <2>1. cursor.query \in {<<>>, m.query}
    BY <1>2 DEF DecodeCursor, NoCursor
  <2>2. m.query = walk.query
    BY <1>1, <2>1 DEF QueryBound, Typed
  <2>3. QED BY <1>2, <2>2
<1>3. CASE UNCHANGED pc
  BY <1>1, <1>3
<1>4. QED BY <1>2, <1>3 DEF Ask

\* Any client: what reads for a walk has its query.
LEMMA QueryBoundInvariant == Spec => []QueryBound
<1>1. Init => QueryBound
  BY DEF Init, QueryBound
<1>2. Typed /\ QueryBound /\ [Next]_vars => QueryBound'
  <2> SUFFICES ASSUME Typed, QueryBound, [Next]_vars PROVE QueryBound'
    OBVIOUS
  <2> USE DEF QueryBound
  <2>1. ASSUME NEW m \in Method, NEW limit \in Limits, Ask(m, limit) PROVE QueryBound'
    <3>1. UNCHANGED <<cursor, got, walk>>
      BY <2>1 DEF Ask
    <3>2. pc' \in {"reading", "answering"} => call'.method.query = walk.query
      BY <2>1, AskOfQuery
    <3>3. QED BY <3>1, <3>2 DEF NoCursor
  <2>2. CASE ReadPage \/ ReadAll \/ ReadWindow
    <3>1. pc = "reading" /\ UNCHANGED <<call, cursor, got, walk>>
      BY <2>2 DEF ReadPage, ReadAll, ReadWindow, Read, client
    <3>2. QED BY <3>1 DEF NoCursor
  <2>3. CASE ReadFails
    BY <2>3 DEF ReadFails, client, NoCursor
  <2>4. CASE Answer
    <3> DEFINE items == Kept(call.method, result)
               slice == Slice(items, call.offset, call.offset + call.limit)
    <3>1. call.method.query = walk.query /\ walk' = walk /\ pc' \in {"idle", "done"}
      BY <2>4 DEF Answer
    <3>2. slice \in Seq(Items(call.method))
      BY PageTyped
    <3>3. got' = got \/ got' = got \o slice
      BY <2>4 DEF Answer
    <3>4. cursor' = cursor \/ cursor' = NextCursor(items)
      BY <2>4 DEF Answer
    <3> HIDE DEF items, slice
    <3>5. cursor' = NoCursor \/ cursor'.query = walk.query
      BY <3>1, <3>4 DEF NextCursor, NoCursor
    <3>6. \A i \in 1..Len(slice) : slice[i][1].query = walk.query
      BY <3>1, <3>2 DEF Items
    <3>7. /\ Len(got \o slice) = Len(got) + Len(slice)
          /\ \A i \in 1..Len(got) + Len(slice) :
               (got \o slice)[i] = IF i <= Len(got) THEN got[i] ELSE slice[i - Len(got)]
          /\ Len(got) \in Nat /\ Len(slice) \in Nat
      <4>1. got \in Seq(Method \X Nat) /\ slice \in Seq(Method \X Nat)
        BY <3>2, ItemsSubset DEF Typed
      <4>2. QED BY <4>1, ConcatProperties
    <3>8. \A i \in 1..Len(got') : got'[i][1].query = walk.query
      <4>1. CASE got' = got
        BY <4>1
      <4>2. CASE got' = got \o slice
        <5>1. TAKE i \in 1..Len(got')
        <5>2. i \in 1..Len(got) \/ i - Len(got) \in 1..Len(slice)
          BY <3>7, <4>2
        <5>3. QED BY <3>6, <3>7, <4>2, <5>2
      <4>3. QED BY <3>3, <4>1, <4>2
    <3>9. QED BY <3>1, <3>5, <3>8 DEF NoCursor
  <2>5. CASE Grow \/ GrowAtFront \/ Shrink
    BY <2>5 DEF Grow, GrowAtFront, Shrink, Becomes, NoCursor
  <2>6. CASE UNCHANGED vars
    BY <2>6 DEF vars, NoCursor
  <2>7. QED BY <2>1, <2>2, <2>3, <2>4, <2>5, <2>6 DEF Next
<1>3. QED BY <1>1, <1>2, TypeCorrect, PTL DEF Spec

\* A walk gives items of its own query only, whatever methods the client has and
\* whatever it does with its cursors.
THEOREM OneQuery == Spec => []OneQueryPerWalk
<1>1. QueryBound => OneQueryPerWalk
  BY DEF QueryBound, OneQueryPerWalk
<1>2. QED BY <1>1, QueryBoundInvariant, PTL

-----------------------------------------------------------------------------
\* The empty sequence is how every sequence begins.
LEMMA NothingBegins == \A s : Len(s) \in Nat => Begins(<<>>, s)
BY DEF Begins

\* The lists that are compared.
LEMMA KeptTypes ==
  ASSUME Typed
  PROVE  /\ list[walk] \in Seq(Items(walk)) /\ first \in Seq(Items(walk))
         /\ Kept(walk, list[walk]) \in Seq(Items(walk))
         /\ Kept(walk, first) \in Seq(Items(walk))
<1>1. list[walk] \in Seq(Items(walk)) /\ first \in Seq(Items(walk))
  BY DEF Typed
<1>2. QED BY <1>1, KeptTyped

\* Nothing was read or given at first.
LEMMA InitWalked == Typed /\ Init => Walked
<1> SUFFICES ASSUME Typed, Init PROVE Walked
  OBVIOUS
<1>1. Begins(first, list[walk])
  BY KeptTypes DEF Begins, Init
<1>2. Begins(<<>>, Kept(walk, list[walk]))
  BY KeptTypes, NothingBegins
<1>3. QED BY <1>1, <1>2 DEF Init, Walked, NoCursor

\* A call begins: the walk's first one takes note of the list.
LEMMA AskWalked ==
  ASSUME OwnQueries, Typed, Bound, Walked, NEW m \in Method, NEW limit \in Limits, Ask(m, limit)
  PROVE  Walked'
<1>1. /\ pc = "idle" /\ pc' \in {"idle", "reading"}
      /\ pc' = "reading" => call'.offset = cursor.offset
      /\ cursor = NoCursor => m = walk
  BY AskOfWalk DEF Ask
<1>2. /\ page' = 0 /\ result' = <<>>
      /\ first' = IF cursor = NoCursor THEN list[m] ELSE first
      /\ changes' = IF cursor = NoCursor THEN {} ELSE changes
      /\ UNCHANGED <<list, cursor, got, walk>>
  BY DEF Ask
<1>3. Begins(<<>>, list[walk]) /\ Begins(<<>>, Kept(walk, list[walk]))
      /\ Begins(list[walk], list[walk])
  BY KeptTypes, NothingBegins DEF Begins
<1>4. (changes \subseteq {"grown"} => Begins(first, list[walk]))'
  BY <1>1, <1>2, <1>3 DEF Walked
<1>5. (pc = "reading" => ReadSoFar)'
  BY <1>2, <1>3, PagingAssumption DEF ReadSoFar
<1>6. (Steady => Len(got) = cursor.offset /\ Begins(got, Kept(walk, list[walk])))'
  <2>1. CASE cursor = NoCursor
    <3>1. got = <<>> /\ cursor.offset = 0
      BY <1>1, <2>1 DEF Walked, NoCursor
    <3>2. QED BY <1>2, <1>3, <3>1
  <2>2. CASE cursor # NoCursor
    <3>1. Steady' = Steady
      BY <1>2, <2>2 DEF Steady, Slides
    <3>2. QED BY <1>1, <1>2, <3>1 DEF Walked
  <2>3. QED BY <2>1, <2>2
<1>7. (cursor = NoCursor => got = <<>>)'
  BY <1>1, <1>2 DEF Walked, NoCursor
<1>8. (pc \in {"reading", "answering"} => call.offset = cursor.offset)'
  BY <1>1, <1>2
<1>9. QED BY <1>1, <1>4, <1>5, <1>6, <1>7, <1>8 DEF Walked

\* A reading step adds to what was read what comes next, and the last one has
\* all that the list held when the walk began.
LEMMA ReadWalked ==
  ASSUME Typed, Bound, Walked, NEW items \in Seq(Items(walk)), NEW more \in BOOLEAN,
         pc = "reading", Read(items, more),
         Steady => /\ Begins(result \o items, list[walk])
                   /\ more => Len(result \o items) = (page + 1) * ServerPage
                              /\ walk.read = "pages"
                   /\ ~more => Len(result \o items) = Len(list[walk])
  PROVE  Walked'
<1>1. /\ result' = result \o items /\ page' = page + 1
      /\ pc' = IF more THEN "reading" ELSE "answering"
      /\ UNCHANGED <<list, call, answer, cursor, got, walk, first, changes, changed, failures>>
  BY DEF Read, client
<1>2. Steady' = Steady
  BY <1>1 DEF Steady, Slides
<1>3. (Steady /\ pc = "reading" => ReadSoFar)'
  BY <1>1, <1>2 DEF ReadSoFar
<1>4. ASSUME Steady, ~more PROVE Begins(first, result') /\ Begins(result', list[walk])
  <2>1. Begins(first, list[walk])
    BY <1>4 DEF Walked, Steady
  <2>2. result' \in Seq(Items(walk))
    BY <1>1 DEF Typed, Bound
  <2>3. Begins(result', list[walk]) /\ Len(result') = Len(list[walk])
    BY <1>1, <1>4
  <2>4. QED BY <2>1, <2>2, <2>3, KeptTypes DEF Begins
<1>5. (Steady /\ pc = "answering" => Begins(first, result) /\ Begins(result, list[walk]))'
  BY <1>1, <1>2, <1>4
<1>6. QED BY <1>1, <1>2, <1>3, <1>5 DEF Walked, NoCursor

\* The next server page: fewer items than asked for, or as many as there are in
\* all, only at the end of the list.
LEMMA ReadPageWalked ==
  ASSUME Typed, Bound, Walked, ReadPage
  PROVE  Walked'
<1> DEFINE response == Slice(Here, page * ServerPage, (page + 1) * ServerPage)
           more == ~(\/ Len(response) < ServerPage \/ Len(Here) = 0
                     \/ Len(result) + Len(response) >= Len(Here))
<1>1. /\ pc = "reading" /\ call.method = walk /\ walk.read = "pages" /\ Here = list[walk]
      /\ Read(response, more)
  BY DEF ReadPage, Bound, Here
<1>2. /\ page * ServerPage \in Nat /\ (page + 1) * ServerPage \in Nat /\ ServerPage \in Nat
      /\ (page + 1) * ServerPage = page * ServerPage + ServerPage
      /\ page * ServerPage <= (page + 1) * ServerPage
  BY PagingAssumption, PageFacts DEF Typed
<1>3. list[walk] \in Seq(Items(walk)) /\ result \in Seq(Items(walk))
  BY <1>1 DEF Typed
<1>4. response \in Seq(Items(walk))
  BY <1>1, <1>2, <1>3, SliceFacts
<1>5. ASSUME Steady
      PROVE  /\ Begins(result \o response, list[walk])
             /\ more => Len(result \o response) = (page + 1) * ServerPage
             /\ ~more => Len(result \o response) = Len(list[walk])
  <2>1. Begins(result, list[walk]) /\ Len(result) = page * ServerPage
    BY <1>1, <1>5 DEF Walked, ReadSoFar
  <2>2. response = Slice(list[walk], Len(result), Len(result) + ServerPage)
    BY <1>1, <1>2, <2>1
  <2>3. /\ Begins(result \o response, list[walk])
        /\ Len(result \o response) =
             IF Len(result) + ServerPage < Len(list[walk])
             THEN Len(result) + ServerPage ELSE Len(list[walk])
    <3> HIDE DEF response
    <3>1. QED BY <1>2, <1>3, <2>1, <2>2, SliceJoins
  <2>4. /\ Len(result \o response) = Len(result) + Len(response)
        /\ Len(result) \in Nat /\ Len(response) \in Nat /\ Len(list[walk]) \in Nat
    <3> HIDE DEF response
    <3>1. QED BY <1>3, <1>4
  <2>5. more <=> ~(\/ Len(response) < ServerPage \/ Len(list[walk]) = 0
                   \/ Len(result) + Len(response) >= Len(list[walk]))
    BY <1>1
  <2> HIDE DEF response, more
  <2>6. QED BY <1>2, <2>1, <2>3, <2>4, <2>5
<1>6. more \in BOOLEAN
  OBVIOUS
<1> HIDE DEF response, more
<1>7. QED BY <1>1, <1>4, <1>5, <1>6, ReadWalked

\* The list is read in one step, and it is all in the window.
LEMMA ReadOnceWalked ==
  ASSUME Typed, Bound, Walked, ReadAll \/ ReadWindow
  PROVE  Walked'
<1>1. /\ pc = "reading" /\ call.method = walk /\ Here = list[walk]
      /\ walk.read \in {"all", "window"}
  BY DEF ReadAll, ReadWindow, Bound, Here
<1>2. list[walk] \in Seq(Items(walk)) /\ result \in Seq(Items(walk)) /\ Len(list[walk]) \in Nat
  BY <1>1 DEF Typed
<1>3. ASSUME NEW items \in Seq(Items(walk)), Read(items, FALSE), Steady => items = list[walk]
      PROVE  Walked'
  <2>1. ASSUME Steady
        PROVE  Begins(result \o items, list[walk]) /\ Len(result \o items) = Len(list[walk])
    <3>1. result = <<>>
      BY <1>1, <2>1 DEF Walked, ReadSoFar
    <3>2. result \o items = list[walk]
      BY <1>2, <1>3, <2>1, <3>1
    <3>3. QED BY <1>2, <3>2 DEF Begins
  <2>2. QED BY <1>1, <1>3, <2>1, ReadWalked
<1>4. CASE ReadAll
  BY <1>1, <1>2, <1>3, <1>4 DEF ReadAll
<1>5. CASE ReadWindow
  <2> DEFINE from == IF Len(Here) > Window THEN Len(Here) - Window ELSE 0
             items == Slice(Here, from, Len(Here))
  <2>1. from \in Nat /\ from <= Len(Here)
    BY <1>1, <1>2, PagingAssumption
  <2>2. /\ items \in Seq(Items(walk))
        /\ Len(items) = Len(Here) - from
        /\ \A i \in 1..Len(items) : items[i] = Here[from + i]
    <3>1. Here \in Seq(Items(walk)) /\ Len(Here) \in Nat /\ Len(Here) <= Len(Here)
      BY <1>1, <1>2
    <3> HIDE DEF from
    <3>2. QED BY <2>1, <3>1, SliceFacts
  <2>3. ASSUME Steady PROVE items = list[walk]
    <3>1. walk.read = "window" /\ from = 0
      BY <1>1, <1>2, <1>5, <2>3, PagingAssumption DEF Steady, Slides, ReadWindow
    <3> HIDE DEF from, items
    <3>2. Len(items) = Len(list[walk]) /\ \A i \in 1..Len(items) : items[i] = list[walk][i]
      BY <1>1, <1>2, <2>2, <3>1
    <3>3. QED BY <1>2, <2>2, <3>2
  <2>4. Read(items, FALSE)
    BY <1>5 DEF ReadWindow
  <2> HIDE DEF items
  <2>5. QED BY <1>3, <2>2, <2>3, <2>4
<1>6. QED BY <1>4, <1>5

\* A page is given: the next of what is kept, or the walk ends with all of it.
LEMMA AnswerWalked ==
  ASSUME Typed, Bound, Walked, Answer
  PROVE  Walked'
<1> DEFINE items == Kept(walk, result)
           slice == Slice(items, call.offset, call.offset + call.limit)
<1>1. /\ pc = "answering" /\ call.method = walk /\ call.offset = cursor.offset
      /\ UNCHANGED <<list, call, page, result, walk, first, changes, changed, failures>>
  BY DEF Answer, Bound, Walked
<1>2. /\ result \in Seq(Items(walk)) /\ items \in Seq(Items(walk)) /\ got \in Seq(Items(walk))
      /\ call.offset \in Nat /\ call.limit \in Nat /\ Len(items) \in Nat
  <2>1. result \in Seq(Items(walk)) /\ got \in Seq(Items(walk))
    BY <1>1 DEF Typed, Bound
  <2>2. items \in Seq(Items(walk))
    BY <2>1, KeptTyped
  <2> HIDE DEF items
  <2>3. QED BY <2>1, <2>2 DEF Typed
<1>3. Steady' = Steady
  BY <1>1 DEF Steady, Slides
<1>4. CASE pc' = "done" /\ answer' = "expired" /\ UNCHANGED <<got, cursor>>
  BY <1>1, <1>3, <1>4 DEF Walked
<1>5. CASE /\ call.offset <= Len(items) /\ answer' = "page"
           /\ got' = got \o slice
           /\ cursor' = NextCursor(items)
           /\ pc' = IF cursor' = NoCursor THEN "done" ELSE "idle"
  <2>1. cursor' = IF call.offset + call.limit < Len(items)
                  THEN [query |-> walk.query, offset |-> call.offset + call.limit] ELSE NoCursor
    BY <1>1, <1>5 DEF NextCursor
  <2>2. call.offset + call.limit < Len(items) <=> cursor' # NoCursor
    BY <2>1, MethodFacts DEF Typed, NoCursor
  <2>3. ASSUME Steady
        PROVE  /\ got' \in Seq(Items(walk)) /\ Begins(got', items)
               /\ Len(got') = IF call.offset + call.limit < Len(items)
                              THEN call.offset + call.limit ELSE Len(items)
               /\ Begins(items, Kept(walk, list[walk])) /\ Begins(Kept(walk, first), items)
    <3>1. Begins(first, result) /\ Begins(result, list[walk])
      BY <1>1, <2>3 DEF Walked
    <3>2. Begins(items, Kept(walk, list[walk])) /\ Begins(Kept(walk, first), items)
      BY <1>2, <3>1, KeptTypes, KeptBegins
    <3>3. Len(got) = call.offset /\ Begins(got, Kept(walk, list[walk]))
      BY <1>1, <2>3 DEF Walked
    <3>4. slice = Slice(items, Len(got), Len(got) + call.limit)
      BY <3>3
    <3> HIDE DEF items, slice
    <3>5. Begins(got, items)
      BY <1>2, <1>5, <3>2, <3>3, KeptTypes DEF Begins
    <3>6. /\ got \o slice \in Seq(Items(walk)) /\ Begins(got \o slice, items)
          /\ Len(got \o slice) = IF Len(got) + call.limit < Len(items)
                                 THEN Len(got) + call.limit ELSE Len(items)
      BY <1>2, <3>5, <3>4, SliceJoins
    <3>7. QED BY <1>5, <3>2, <3>3, <3>6
  <2> HIDE DEF items, slice
  <2>4. ASSUME Steady PROVE Begins(got', Kept(walk, list[walk]))
    <3>1. items \in Seq(Items(walk))
      BY <1>2
    <3>2. QED BY <2>3, <2>4, <3>1, KeptTypes, BeginsTransitive
  <2>5. CASE cursor' = NoCursor
    <3>1. pc' = "done" /\ ~(call.offset + call.limit < Len(items))
      BY <1>5, <2>2, <2>5
    <3>2. ASSUME Steady PROVE Begins(Kept(walk, first), got')
      <4>1. Len(got') = Len(items) /\ Begins(got', items) /\ Begins(Kept(walk, first), items)
        BY <2>3, <3>1, <3>2
      <4>2. QED BY <1>2, <4>1, KeptTypes DEF Begins
    <3>3. QED BY <1>1, <1>3, <2>4, <3>1, <3>2 DEF Walked
  <2>6. CASE cursor' # NoCursor
    <3>1. /\ pc' = "idle" /\ call.offset + call.limit < Len(items)
          /\ cursor'.offset = call.offset + call.limit
      BY <1>5, <2>1, <2>2, <2>6
    <3>2. Steady => Len(got') = cursor'.offset
      BY <2>3, <3>1
    <3>3. cursor' # NoCursor'
      BY <2>6 DEF NoCursor
    <3>4. QED BY <1>1, <1>3, <2>4, <3>1, <3>2, <3>3 DEF Walked
  <2>7. QED BY <2>5, <2>6
<1>6. QED BY <1>1, <1>4, <1>5 DEF Answer

\* The list changes: at its end, or the walk is no longer steady.
LEMMA GrowWalked ==
  ASSUME Typed, Bound, Walked, Grow
  PROVE  Walked'
<1>1. /\ pc # "done" /\ list' = [list EXCEPT ![walk] = Append(list[walk], New)]
      /\ changes' = changes \cup {"grown"}
      /\ UNCHANGED <<pc, call, page, result, cursor, answer, got, walk, first>>
  BY DEF Grow, Becomes
<1>2. list[walk] \in Seq(Items(walk)) /\ New \in Items(walk)
  BY PagingAssumption DEF Typed, New, Items
<1>3. /\ list'[walk] = Append(list[walk], New) /\ list'[walk] \in Seq(Items(walk))
      /\ Begins(list[walk], list'[walk]) /\ Len(list'[walk]) = Len(list[walk]) + 1
  <2>1. list'[walk] = Append(list[walk], New)
    BY <1>1 DEF Typed
  <2> HIDE DEF New
  <2>2. QED BY <1>2, <2>1 DEF Begins
<1>4. Begins(Kept(walk, list[walk]), Kept(walk, list'[walk]))
      /\ Kept(walk, list'[walk]) \in Seq(Items(walk))
  BY <1>2, <1>3, KeptBegins, KeptTyped
<1>5. Steady' => Steady
  BY <1>1, <1>2, <1>3, PagingAssumption DEF Steady, Slides
<1>6. (changes \subseteq {"grown"} => Begins(first, list[walk]))'
  <2>1. changes' \subseteq {"grown"} => changes \subseteq {"grown"}
    BY <1>1
  <2>2. QED BY <1>1, <1>2, <1>3, <2>1, KeptTypes, BeginsTransitive DEF Walked
<1>7. (Steady /\ pc = "reading" => ReadSoFar)'
  <2>1. ASSUME Steady', pc' = "reading" PROVE ReadSoFar'
    <3>1. ReadSoFar
      BY <1>1, <1>5, <2>1 DEF Walked
    <3>2. Begins(result, list'[walk])
      BY <1>3, <3>1 DEF Begins, ReadSoFar
    <3>3. QED BY <1>1, <3>1, <3>2 DEF ReadSoFar
  <2>2. QED BY <2>1
<1>8. (Steady /\ pc = "answering" => Begins(first, result) /\ Begins(result, list[walk]))'
  <2>1. ASSUME Steady', pc' = "answering" PROVE Begins(first, result) /\ Begins(result, list'[walk])
    <3>1. Begins(first, result) /\ Begins(result, list[walk])
      BY <1>1, <1>5, <2>1 DEF Walked
    <3>2. QED BY <1>3, <3>1 DEF Begins
  <2>2. QED BY <1>1, <2>1
<1>9. (Steady => Len(got) = cursor.offset /\ Begins(got, Kept(walk, list[walk])))'
  <2>1. ASSUME Steady' PROVE Len(got) = cursor.offset /\ Begins(got, Kept(walk, list'[walk]))
    <3>1. Len(got) = cursor.offset /\ Begins(got, Kept(walk, list[walk]))
      BY <1>1, <1>5, <2>1 DEF Walked
    <3>2. got \in Seq(Items(walk))
      BY DEF Bound
    <3>3. QED BY <1>4, <3>1, <3>2, KeptTypes, BeginsTransitive
  <2>2. QED BY <1>1, <2>1
<1>10. (cursor = NoCursor => got = <<>>)'
  BY <1>1 DEF Walked, NoCursor
<1>11. (pc \in {"reading", "answering"} => call.offset = cursor.offset)'
  BY <1>1 DEF Walked
<1>12. pc' # "done"
  BY <1>1
<1>13. QED BY <1>6, <1>7, <1>8, <1>9, <1>10, <1>11, <1>12 DEF Walked

\* Every step keeps to it.
LEMMA WalkedInvariant == OwnQueries /\ Spec => []Walked
<1>1. OwnQueries /\ Typed /\ Bound /\ Walked /\ [Next]_vars => Walked'
  <2> SUFFICES ASSUME OwnQueries, Typed, Bound, Walked, [Next]_vars PROVE Walked'
    OBVIOUS
  <2>1. ASSUME NEW m \in Method, NEW limit \in Limits, Ask(m, limit) PROVE Walked'
    BY <2>1, AskWalked
  <2>2. CASE ReadPage
    BY <2>2, ReadPageWalked
  <2>3. CASE ReadAll \/ ReadWindow
    BY <2>3, ReadOnceWalked
  <2>4. CASE ReadFails
    <3>1. /\ pc' = "idle" /\ pc = "reading"
          /\ UNCHANGED <<list, call, page, result, cursor, got, walk, first, changes>>
      BY <2>4 DEF ReadFails, client
    <3>2. Steady' = Steady
      BY <3>1 DEF Steady, Slides
    <3>3. QED BY <3>1, <3>2 DEF Walked, NoCursor
  <2>5. CASE Answer
    BY <2>5, AnswerWalked
  <2>6. CASE Grow
    BY <2>6, GrowWalked
  <2>7. CASE GrowAtFront \/ Shrink
    <3>1. /\ pc # "done" /\ ~(changes' \subseteq {"grown"})
          /\ UNCHANGED <<pc, call, page, result, cursor, answer, got, walk, first>>
      BY <2>7 DEF GrowAtFront, Shrink, Becomes
    <3>2. ~Steady'
      BY <3>1 DEF Steady
    <3>3. QED BY <3>1, <3>2 DEF Walked, NoCursor
  <2>8. CASE UNCHANGED vars
    <3>1. Steady' = Steady /\ ReadSoFar' = ReadSoFar
      BY <2>8 DEF Steady, Slides, ReadSoFar, vars
    <3>2. QED BY <2>8, <3>1 DEF vars, Walked, NoCursor
  <2>9. QED BY <2>1, <2>2, <2>3, <2>4, <2>5, <2>6, <2>7, <2>8 DEF Next
<1>2. OwnQueries => OwnQueries'
  BY DEF OwnQueries
<1>3. QED BY <1>1, <1>2, InitWalked, InitTyped, TypeCorrect, BoundInvariant, PTL DEF Spec

\* A walk that ends gives what was kept of the list when it began, in its
\* order, then what was added meanwhile: for any list, page sizes and
\* limits, whenever calls fail and whatever list each server page is read of.
THEOREM Complete == OwnQueries /\ Spec => []WalkComplete
<1>1. Typed /\ Bound /\ Walked => WalkComplete
  <2> SUFFICES ASSUME Typed, Bound, Walked, pc = "done", answer = "page",
                      changes \subseteq {"grown"}, ~Slides
               PROVE  /\ IsPrefix(Kept(walk, first), got)
                      /\ IsPrefix(got, Kept(walk, list[walk]))
    BY DEF WalkComplete
  <2>1. Begins(Kept(walk, first), got) /\ Begins(got, Kept(walk, list[walk]))
    BY DEF Walked, Steady
  <2>2. got \in Seq(Items(walk))
    BY DEF Bound
  <2>3. QED BY <2>1, <2>2, KeptTypes, BeginsIsPrefix
<1>2. QED BY <1>1, TypeCorrect, BoundInvariant, WalkedInvariant, PTL
=============================================================================
