------------------------- MODULE CodexSessionProofs -------------------------
(***************************************************************************)
(* That items are announced once and in order, and that a turn reported as *)
(* successful left none open, whatever the items, their kinds and the      *)
(* number of lines.  The invariant is                                      *)
(*                                                                         *)
(*   Shapes   what each goroutine can have left to do                      *)
(*   Stages   where the caller is in the turn, and that nothing of it is   *)
(*            under way before it                                          *)
(*   Once     a start is announced by whoever marked the item, at most     *)
(*            once; so is a completion, which is announced by the reader,  *)
(*            or by the caller, or is still among the leftover             *)
(*   Ordered  unless the app-server broke its own order: after the line    *)
(*            that ends the turn the reader has only endings left, so that *)
(*            what completeCodexItems announces comes last; and as long as *)
(*            events are delivered, what is marked is told or about to be  *)
(***************************************************************************)
EXTENDS CodexSession, SequenceTheorems, TLAPS

\* The first operation goroutine g has left.
Now(g) == todo[g][1]

\* An operation is its three fields.
LEMMA OpFields ==
  ASSUME NEW do, NEW item, NEW what
  PROVE  /\ Op(do, item, what).do = do
         /\ Op(do, item, what).item = item
         /\ Op(do, item, what).what = what
BY DEF Op

\* Start gives g its operations and leaves the others theirs.
LEMMA StartFacts ==
  ASSUME todo \in [Goroutine -> Seq(Operation)], NEW g \in Goroutine,
         NEW ops \in Seq(Operation), Start(g, ops)
  PROVE  /\ todo' \in [Goroutine -> Seq(Operation)]
         /\ todo'[g] = ops
         /\ \A h \in Goroutine \ {g} : todo'[h] = todo[h]
BY DEF Start

\* Become puts its operations in the place of the first one.
LEMMA BecomeFacts ==
  ASSUME todo \in [Goroutine -> Seq(Operation)], NEW g \in Goroutine, todo[g] # <<>>,
         NEW ops \in Seq(Operation), Become(g, ops)
  PROVE  /\ todo' \in [Goroutine -> Seq(Operation)]
         /\ Len(todo'[g]) = Len(ops) + Len(todo[g]) - 1
         /\ \A k \in 1..Len(ops) : todo'[g][k] = ops[k]
         /\ \A k \in Len(ops) + 1..Len(todo'[g]) :
              /\ k - Len(ops) + 1 \in 2..Len(todo[g])
              /\ todo'[g][k] = todo[g][k - Len(ops) + 1]
         /\ \A h \in Goroutine \ {g} : todo'[h] = todo[h]
<1> DEFINE q == todo[g]
<1>1. q \in Seq(Operation) /\ q # <<>>
  OBVIOUS
<1>2. todo' = [todo EXCEPT ![g] = ops \o Tail(q)]
  BY DEF Become
<1>3. todo'[g] = ops \o Tail(q) /\ \A h \in Goroutine \ {g} : todo'[h] = todo[h]
  BY <1>2
<1>4. /\ Tail(q) \in Seq(Operation) /\ Len(Tail(q)) = Len(q) - 1
      /\ \A k \in 1..Len(q) - 1 : Tail(q)[k] = q[k + 1]
  <2> HIDE DEF q
  <2> QED BY <1>1
<1>5. todo' \in [Goroutine -> Seq(Operation)]
  <2>1. ops \o Tail(q) \in Seq(Operation)
    BY <1>4
  <2> HIDE DEF q
  <2> QED BY <2>1, <1>2
<1>6. /\ Len(ops \o Tail(q)) = Len(ops) + Len(q) - 1
      /\ \A k \in 1..Len(ops) : (ops \o Tail(q))[k] = ops[k]
      /\ \A k \in Len(ops) + 1..Len(ops) + Len(q) - 1 :
           (ops \o Tail(q))[k] = Tail(q)[k - Len(ops)]
  <2> HIDE DEF q
  <2> QED BY <1>4
<1>7. Len(q) \in Nat /\ Len(ops) \in Nat /\ Len(q) > 0
  <2> HIDE DEF q
  <2> QED BY <1>1
<1>8. \A k \in Len(ops) + 1..Len(todo'[g]) :
              /\ k - Len(ops) + 1 \in 2..Len(q)
              /\ todo'[g][k] = q[k - Len(ops) + 1]
  <2> HIDE DEF q
  <2> SUFFICES ASSUME NEW k \in Len(ops) + 1..Len(todo'[g])
               PROVE  k - Len(ops) + 1 \in 2..Len(q) /\ todo'[g][k] = q[k - Len(ops) + 1]
    OBVIOUS
  <2>1. k \in Len(ops) + 1..Len(ops) + Len(q) - 1
    BY <1>3, <1>6
  <2>2. k - Len(ops) \in 1..Len(q) - 1
    BY <2>1, <1>7
  <2> QED BY <2>1, <2>2, <1>3, <1>4, <1>6, <1>7
<1> QED
  BY <1>3, <1>5, <1>6, <1>8

\* Hear stays among the states of an item.
LEMMA HearTyped ==
  ASSUME NEW past \in {"nothing", "open", "closed", "twice", "disordered"}, NEW what
  PROVE  Hear(past, what) \in {"nothing", "open", "closed", "twice", "disordered"}
BY DEF Hear

\* The operations goroutines are given are operations.
LEMMA OpsTyped ==
  /\ \A i \in Item : /\ Deliver("started", i) \in Operation /\ Deliver("delta", i) \in Operation
                     /\ Deliver("updated", i) \in Operation /\ Deliver("completed", i) \in Operation
                     /\ \A do \in {"start", "mark", "text", "complete", "final"} :
                          Op(do, i, "none") \in Operation
  /\ Deliver("requested", NoItem) \in Operation /\ Deliver("resolved", NoItem) \in Operation
  /\ \A outcome \in {"ok", "failed"} : Finish(outcome) \in Operation
  /\ CloseProcess \in Operation
  /\ \A do \in {"close", "kill"} : Op(do, NoItem, "none") \in Operation
BY DEF Op, Deliver, Finish, CloseProcess, Operation, What

\* The first of what is left is an operation.
LEMMA HeadTyped ==
  ASSUME todo \in [Goroutine -> Seq(Operation)], NEW g \in Goroutine, todo[g] # <<>>
  PROVE  /\ Head(todo[g]) = Now(g) /\ Now(g) \in Operation
         /\ Len(todo[g]) \in Nat /\ Len(todo[g]) > 0
BY DEF Now

-----------------------------------------------------------------------------
(* What an operation at the head of q leaves to do, r: nothing, one thing or *)
(* two in its place.                                                       *)

Lost(q, r) ==
  /\ Len(r) = Len(q) - 1
  /\ \A k \in 1..Len(r) : k + 1 \in 2..Len(q) /\ r[k] = q[k + 1]

Turned(q, o, r) ==
  /\ Len(r) = Len(q)
  /\ r[1] = o
  /\ \A k \in 2..Len(r) : r[k] = q[k]

Doubled(q, o, p, r) ==
  /\ Len(r) = Len(q) + 1
  /\ r[1] = o /\ r[2] = p
  /\ \A k \in 3..Len(r) : k - 1 \in 2..Len(q) /\ r[k] = q[k - 1]

Others(g) ==
  /\ todo' \in [Goroutine -> Seq(Operation)]
  /\ \A h \in Goroutine \ {g} : todo'[h] = todo[h]

\* The three forms of Become.
LEMMA BecomeForms ==
  ASSUME todo \in [Goroutine -> Seq(Operation)], NEW g \in Goroutine, todo[g] # <<>>,
         NEW ops \in Seq(Operation), Become(g, ops)
  PROVE  /\ Others(g)
         /\ Len(ops) = 0 => Lost(todo[g], todo'[g])
         /\ Len(ops) = 1 => Turned(todo[g], ops[1], todo'[g])
         /\ Len(ops) = 2 => Doubled(todo[g], ops[1], ops[2], todo'[g])
<1>1. Len(todo[g]) \in Nat /\ Len(todo[g]) > 0
  BY HeadTyped
<1>2. /\ Others(g)
      /\ Len(todo'[g]) = Len(ops) + Len(todo[g]) - 1
      /\ \A k \in 1..Len(ops) : todo'[g][k] = ops[k]
      /\ \A k \in Len(ops) + 1..Len(todo'[g]) :
           /\ k - Len(ops) + 1 \in 2..Len(todo[g])
           /\ todo'[g][k] = todo[g][k - Len(ops) + 1]
  BY BecomeFacts DEF Others
<1> DEFINE q == todo[g]  r == todo'[g]
<1> HIDE DEF q, r
<1>3. ASSUME Len(ops) = 0 PROVE Lost(q, r)
  BY <1>1, <1>2, <1>3 DEF Lost, q, r
<1>4. ASSUME Len(ops) = 1 PROVE Turned(q, ops[1], r)
  BY <1>1, <1>2, <1>4 DEF Turned, q, r
<1>5. ASSUME Len(ops) = 2 PROVE Doubled(q, ops[1], ops[2], r)
  <2>1. Len(r) = Len(q) + 1 /\ r[1] = ops[1] /\ r[2] = ops[2]
    BY <1>1, <1>2, <1>5 DEF q, r
  <2>2. \A k \in 3..Len(r) : k - 1 \in 2..Len(q) /\ r[k] = q[k - 1]
    BY <1>1, <1>2, <1>5 DEF q, r
  <2> QED BY <2>1, <2>2 DEF Doubled
<1> QED
  BY <1>2, <1>3, <1>4, <1>5 DEF q, r

\* ... with the operations written out.
LEMMA BecomeNothing ==
  ASSUME todo \in [Goroutine -> Seq(Operation)], NEW g \in Goroutine, todo[g] # <<>>,
         Become(g, <<>>)
  PROVE  Others(g) /\ Lost(todo[g], todo'[g])
<1> DEFINE ops == <<>>
<1>1. ops \in Seq(Operation) /\ Len(ops) = 0
  OBVIOUS
<1>2. Become(g, ops)
  OBVIOUS
<1> HIDE DEF ops
<1> QED
  BY <1>1, <1>2, BecomeForms

\* ... one in its place,
LEMMA BecomeOne ==
  ASSUME todo \in [Goroutine -> Seq(Operation)], NEW g \in Goroutine, todo[g] # <<>>,
         NEW o \in Operation, Become(g, <<o>>)
  PROVE  Others(g) /\ Turned(todo[g], o, todo'[g])
<1> DEFINE ops == <<o>>
<1>1. ops \in Seq(Operation) /\ Len(ops) = 1 /\ ops[1] = o
  OBVIOUS
<1>2. Become(g, ops)
  OBVIOUS
<1> HIDE DEF ops
<1> QED
  BY <1>1, <1>2, BecomeForms

-----------------------------------------------------------------------------
(* What each goroutine can have left to do.                                *)

EndingOp(op) ==
  /\ op.do \in {"finish", "close", "closeProcess", "kill"} /\ op.item = NoItem
  /\ op.do = "finish" => op.what \in {"ok", "failed"}
  /\ op.do # "finish" => op.what = "none"

TellingOp(op) == op.do \in {"deliver", "sink"}

ItemOp(op) ==
  /\ op.item \in Item
  /\ \/ op.do \in {"start", "mark", "text", "complete", "final"} /\ op.what = "none"
     \/ TellingOp(op) /\ op.what \in {"started", "delta", "updated", "completed"}

PermissionOp(op) == TellingOp(op) /\ op.item = NoItem /\ op.what \in {"requested", "resolved"}

ReaderOp(op) == EndingOp(op) \/ ItemOp(op) \/ PermissionOp(op)

\* What can come after the first operation of the reader.
LaterOp(op) ==
  /\ op.do \in {"deliver", "mark", "text", "complete", "final", "kill"}
  /\ op.what \notin {"started", "completed"}

CallerOp(op) ==
  \/ EndingOp(op) /\ op.what # "ok"
  \/ TellingOp(op) /\ op.item \in Item /\ op.what = "completed"

WaiterOp(op) == EndingOp(op) /\ op.what # "ok" /\ op.do \in {"finish", "close"}

\* After its completion nothing is left to say of an item.
Completes(op) == op.do = "complete" \/ op.what = "completed"

ReaderShape(q) ==
  /\ \A k \in 1..Len(q) : ReaderOp(q[k])
  /\ \A k \in 2..Len(q) : LaterOp(q[k])
  /\ \A k, l \in 1..Len(q) : k < l /\ Completes(q[k]) => q[l].do \in {"final", "kill"}

CallerShape(q) ==
  /\ \A k \in 1..Len(q) : CallerOp(q[k])
  /\ \A k \in 2..Len(q) : q[k].do = "kill"

WaiterShape(q) == Len(q) <= 1 /\ \A k \in 1..Len(q) : WaiterOp(q[k])

Shapes ==
  ReaderShape(todo["reader"]) /\ CallerShape(todo["caller"]) /\ WaiterShape(todo["waiter"])

\* An operation on a line of item i.
LineOp(op, i) ==
  /\ op.do \in {"start", "deliver", "mark", "text", "complete", "final"}
  /\ op.do = "deliver" => op.what \in {"delta", "updated"}
  /\ op.do # "deliver" => op.what = "none"
  /\ op.item = i

\* What a line of item i leaves to do.
LineOps(q, i) ==
  /\ \A k \in 1..Len(q) : LineOp(q[k], i)
  /\ \A k \in 2..Len(q) : q[k].do # "start"
  /\ \A k, l \in 1..Len(q) : k < l /\ q[k].do = "complete" => q[l].do = "final"
  /\ i \in started \/ q[1].do = "start"

-----------------------------------------------------------------------------
\* What the lines of an item leave to do.
LEMMA StartedOps ==
  ASSUME todo \in [Goroutine -> Seq(Operation)], NEW i \in Item, ReadStarted(i)
  PROVE  Others("reader") /\ LineOps(todo'["reader"], i)
<1> DEFINE ops == <<Op("start", i, "none")>>
<1>1. ops \in Seq(Operation) /\ Len(ops) = 1 /\ ops[1] = Op("start", i, "none")
  BY OpsTyped
<1>2. Start("reader", ops)
  BY DEF ReadStarted, Handle
<1> HIDE DEF ops
<1>3. Others("reader") /\ todo'["reader"] = ops
  BY <1>1, <1>2, StartFacts DEF Others, Goroutine
<1>4. LineOp(ops[1], i) /\ ops[1].do = "start"
  BY <1>1, OpFields DEF LineOp
<1>5. Len(ops) = 1
  BY <1>1
<1>6. LineOps(ops, i)
  BY <1>4, <1>5 DEF LineOps
<1> QED
  BY <1>3, <1>6

\* ... a delta leaves its delivery and its mark, after a start in reasoning,
LEMMA DeltaOps ==
  ASSUME todo \in [Goroutine -> Seq(Operation)], NEW i \in Item, ReadDelta(i)
  PROVE  Others("reader") /\ LineOps(todo'["reader"], i)
<1> DEFINE rest == <<Deliver("delta", i), Op("mark", i, "none")>>
           first == IF Kind[i] = "reasoning" THEN <<Op("start", i, "none")>> ELSE <<>>
           ops == first \o rest
<1>1. /\ rest \in Seq(Operation) /\ Len(rest) = 2
      /\ rest[1] = Deliver("delta", i) /\ rest[2] = Op("mark", i, "none")
  BY OpsTyped
<1>2. /\ first \in Seq(Operation)
      /\ \/ Kind[i] = "reasoning" /\ Len(first) = 1 /\ first[1] = Op("start", i, "none")
         \/ Kind[i] # "reasoning" /\ Len(first) = 0
  BY OpsTyped
<1>3. Start("reader", ops)
  BY DEF ReadDelta, Handle
<1>4. Kind[i] # "reasoning" => i \in started
  BY SessionAssumption DEF ReadDelta
<1>5. /\ ops \in Seq(Operation)
      /\ Len(ops) = Len(first) + Len(rest)
      /\ \A k \in 1..Len(first) + Len(rest) :
           ops[k] = IF k <= Len(first) THEN first[k] ELSE rest[k - Len(first)]
  <2> HIDE DEF first, rest
  <2> QED BY <1>1, <1>2, ConcatProperties
<1> HIDE DEF ops, first, rest
<1>6. Others("reader") /\ todo'["reader"] = ops
  BY <1>5, <1>3, StartFacts DEF Others, Goroutine
<1>7. CASE Len(first) = 1
  <2>1. Len(ops) = 3 /\ ops[1] = Op("start", i, "none") /\ ops[2] = Deliver("delta", i)
        /\ ops[3] = Op("mark", i, "none")
    BY <1>7, <1>1, <1>2, <1>5
  <2>2. /\ LineOp(Op("start", i, "none"), i) /\ LineOp(Deliver("delta", i), i)
        /\ LineOp(Op("mark", i, "none"), i)
        /\ Op("start", i, "none").do = "start" /\ Deliver("delta", i).do = "deliver"
        /\ Op("mark", i, "none").do = "mark"
    BY OpFields DEF LineOp, Deliver
  <2>3. /\ LineOp(ops[1], i) /\ LineOp(ops[2], i) /\ LineOp(ops[3], i)
        /\ ops[1].do = "start" /\ ops[2].do = "deliver" /\ ops[3].do = "mark"
    BY <2>1, <2>2
  <2>4. Len(ops) = 3
    BY <2>1
  <2>5. LineOps(ops, i)
    BY <2>3, <2>4 DEF LineOps
  <2> QED BY <2>5, <1>6
<1>8. CASE Len(first) = 0
  <2>1. Len(ops) = 2 /\ ops[1] = Deliver("delta", i) /\ ops[2] = Op("mark", i, "none")
    BY <1>8, <1>1, <1>5
  <2>2. i \in started
    BY <1>8, <1>2, <1>4
  <2>3. /\ LineOp(Deliver("delta", i), i) /\ LineOp(Op("mark", i, "none"), i)
        /\ Deliver("delta", i).do = "deliver" /\ Op("mark", i, "none").do = "mark"
    BY OpFields DEF LineOp, Deliver
  <2>4. /\ LineOp(ops[1], i) /\ LineOp(ops[2], i)
        /\ ops[1].do = "deliver" /\ ops[2].do = "mark"
    BY <2>1, <2>3
  <2>5. Len(ops) = 2
    BY <2>1
  <2>6. LineOps(ops, i)
    BY <2>2, <2>4, <2>5 DEF LineOps
  <2> QED BY <2>6, <1>6
<1> QED
  BY <1>2, <1>7, <1>8

\* ... and a completion its start, text or update, end and final answer.
LEMMA CompletedOps ==
  ASSUME todo \in [Goroutine -> Seq(Operation)], NEW i \in Item, ReadCompleted(i)
  PROVE  Others("reader") /\ LineOps(todo'["reader"], i)
<1> DEFINE text == IF Kind[i] = "tool" THEN Deliver("updated", i) ELSE Op("text", i, "none")
<1>1. PICK answer \in BOOLEAN :
        Start("reader", <<Op("start", i, "none")>> \o <<text>> \o <<Op("complete", i, "none")>>
                          \o IF answer THEN <<Op("final", i, "none")>> ELSE <<>>)
  BY DEF ReadCompleted, Handle
<1>2. /\ text \in Operation /\ text.item = i
      /\ \/ text.do = "deliver" /\ text.what = "updated"
         \/ text.do = "text" /\ text.what = "none"
  BY OpsTyped, OpFields DEF Deliver
<1>3. Op("start", i, "none") \in Operation /\ Op("complete", i, "none") \in Operation
      /\ Op("final", i, "none") \in Operation
  BY OpsTyped
<1> DEFINE s == Op("start", i, "none")  c == Op("complete", i, "none")  f == Op("final", i, "none")
           last == IF answer THEN <<f>> ELSE <<>>
           one == <<s>>
           two == one \o <<text>>
           three == two \o <<c>>
           ops == three \o last
<1>4. Start("reader", ops)
  BY <1>1
<1>5. /\ s.do = "start" /\ s.item = i /\ s.what = "none"
      /\ c.do = "complete" /\ c.item = i /\ c.what = "none"
      /\ f.do = "final" /\ f.item = i /\ f.what = "none"
  BY OpFields
<1> HIDE DEF text, s, c, f
<1> DEFINE t == <<text>>  d == <<c>>
<1>6. one \in Seq(Operation) /\ Len(one) = 1 /\ one[1] = s
  BY <1>3 DEF s
<1>7. last \in Seq(Operation) /\ (Len(last) = 0 \/ (Len(last) = 1 /\ last[1] = f))
  BY <1>3 DEF f
<1>t. t \in Seq(Operation) /\ Len(t) = 1 /\ t[1] = text
  BY <1>2
<1>d. d \in Seq(Operation) /\ Len(d) = 1 /\ d[1] = c
  BY <1>3 DEF c
<1> HIDE DEF one, last, t, d, two, three, ops
<1>8. two \in Seq(Operation) /\ Len(two) = 2 /\ two[1] = s /\ two[2] = text
  <2>1. two = one \o t
    BY DEF two, t
  <2>2. /\ two \in Seq(Operation) /\ Len(two) = Len(one) + Len(t)
        /\ \A k \in 1..Len(one) + Len(t) : two[k] = IF k <= Len(one) THEN one[k] ELSE t[k - Len(one)]
    <3>1. one \in Seq(Operation) /\ t \in Seq(Operation)
      BY <1>6, <1>t
    <3> QED BY <2>1, <3>1, ConcatProperties
  <2> QED BY <2>2, <1>6, <1>t
<1>9. three \in Seq(Operation) /\ Len(three) = 3 /\ three[1] = s /\ three[2] = text
      /\ three[3] = c
  <2>1. three = two \o d
    BY DEF three, d
  <2>2. /\ three \in Seq(Operation) /\ Len(three) = Len(two) + Len(d)
        /\ \A k \in 1..Len(two) + Len(d) : three[k] = IF k <= Len(two) THEN two[k] ELSE d[k - Len(two)]
    <3>1. two \in Seq(Operation) /\ d \in Seq(Operation)
      BY <1>8, <1>d
    <3> QED BY <2>1, <3>1, ConcatProperties
  <2> QED BY <2>2, <1>8, <1>d
<1>10. /\ ops \in Seq(Operation)
       /\ Len(ops) = Len(three) + Len(last)
       /\ \A k \in 1..Len(three) + Len(last) :
            ops[k] = IF k <= Len(three) THEN three[k] ELSE last[k - Len(three)]
  <2>1. three \in Seq(Operation) /\ last \in Seq(Operation)
    BY <1>7, <1>9
  <2>2. ops = three \o last
    BY DEF ops
  <2> QED BY <2>1, <2>2, ConcatProperties
<1>11. ops[1] = s /\ ops[2] = text /\ ops[3] = c
       /\ (Len(ops) = 3 \/ (Len(ops) = 4 /\ ops[4] = f))
  BY <1>7, <1>9, <1>10
<1>12. Others("reader") /\ todo'["reader"] = ops
  BY <1>10, <1>4, StartFacts DEF Others, Goroutine
<1>13. LineOps(ops, i)
  <2>1. LineOp(s, i) /\ LineOp(text, i) /\ LineOp(c, i) /\ LineOp(f, i)
    BY <1>2, <1>5 DEF LineOp
  <2>2. /\ LineOp(ops[1], i) /\ LineOp(ops[2], i) /\ LineOp(ops[3], i)
        /\ ops[1].do = "start" /\ ops[2].do \in {"deliver", "text"} /\ ops[3].do = "complete"
        /\ Len(ops) = 3 \/ (Len(ops) = 4 /\ LineOp(ops[4], i) /\ ops[4].do = "final")
    BY <2>1, <1>2, <1>5, <1>11
  <2>3. CASE Len(ops) = 3
    BY <2>2, <2>3 DEF LineOps
  <2>4. CASE Len(ops) = 4 /\ LineOp(ops[4], i) /\ ops[4].do = "final"
    BY <2>2, <2>4 DEF LineOps
  <2> QED BY <2>2, <2>3, <2>4
<1> QED
  BY <1>12, <1>13

-----------------------------------------------------------------------------
(* What each operation does to what is left to do.                         *)

\* startCodexItem marks the item and leaves its announcement, or leaves nothing.
LEMMA StartForm ==
  ASSUME TypeOK, NEW g \in Goroutine, Busy(g), StartItem(g)
  PROVE  /\ Now(g).do = "start" /\ Others(g)
         /\ \/ /\ turn = "set" /\ Now(g).item \notin started
               /\ started' = started \cup {Now(g).item}
               /\ Turned(todo[g], Deliver("started", Now(g).item), todo'[g])
            \/ /\ turn # "set" \/ Now(g).item \in started
               /\ started' = started /\ Lost(todo[g], todo'[g])
<1>1. todo \in [Goroutine -> Seq(Operation)] /\ todo[g] # <<>>
  BY DEF TypeOK, Busy
<1>2. Head(todo[g]) = Now(g) /\ Now(g) \in Operation
  BY <1>1, HeadTyped
<1>3. Deliver("started", Now(g).item) \in Operation
  BY <1>2 DEF Operation, Deliver, Op, What
<1>4. Become(g, <<Deliver("started", Now(g).item)>>) =>
        Others(g) /\ Turned(todo[g], Deliver("started", Now(g).item), todo'[g])
  BY <1>1, <1>3, BecomeOne
<1>5. Become(g, <<>>) => Others(g) /\ Lost(todo[g], todo'[g])
  BY <1>1, BecomeNothing
<1> QED
  BY <1>2, <1>4, <1>5 DEF StartItem, At, Here

\* deliverEvent leaves a call of the sink, or drops the event.
LEMMA CheckForm ==
  ASSUME TypeOK, NEW g \in Goroutine, Busy(g), CheckTurn(g)
  PROVE  /\ Now(g).do = "deliver" /\ Others(g)
         /\ \/ /\ turn = "set" /\ ~err
               /\ \E o \in Operation :
                    /\ o.do = "sink" /\ o.item = Now(g).item /\ o.what = Now(g).what
                    /\ Turned(todo[g], o, todo'[g])
            \/ ~(turn = "set" /\ ~err) /\ Lost(todo[g], todo'[g])
<1>1. todo \in [Goroutine -> Seq(Operation)] /\ todo[g] # <<>>
  BY DEF TypeOK, Busy
<1>2. Head(todo[g]) = Now(g) /\ Now(g) \in Operation
  BY <1>1, HeadTyped
<1> DEFINE o == [Now(g) EXCEPT !.do = "sink"]
<1>3. o \in Operation /\ o.do = "sink" /\ o.item = Now(g).item /\ o.what = Now(g).what
  BY <1>2 DEF Operation
<1>4. Now(g).do = "deliver"
      /\ Become(g, IF turn = "set" /\ ~err THEN <<o>> ELSE <<>>)
  BY <1>2 DEF CheckTurn, At
<1> HIDE DEF o
<1>5. CASE turn = "set" /\ ~err
  <2>1. Become(g, <<o>>)
    BY <1>4, <1>5
  <2> QED BY <2>1, <1>1, <1>3, <1>4, <1>5, BecomeOne
<1>6. CASE ~(turn = "set" /\ ~err)
  <2>1. Become(g, <<>>)
    BY <1>4, <1>6
  <2> QED BY <2>1, <1>1, <1>4, <1>6, BecomeNothing
<1> QED
  BY <1>5, <1>6

\* The sink hears the event, or fails and the session is to be closed.
LEMMA SinkForm ==
  ASSUME TypeOK, NEW g \in Goroutine, Busy(g), CallSink(g)
  PROVE  /\ Now(g).do = "sink" /\ Others(g)
         /\ \/ /\ told' = [i \in Item |-> IF i = Now(g).item THEN Hear(told[i], Now(g).what)
                                             ELSE told[i]]
               /\ Lost(todo[g], todo'[g]) /\ (err' <=> err)
            \/ /\ err' <=> (err \/ turn = "set")
               /\ Turned(todo[g], CloseProcess, todo'[g]) /\ told' = told
<1>1. todo \in [Goroutine -> Seq(Operation)] /\ todo[g] # <<>>
  BY DEF TypeOK, Busy
<1>2. Head(todo[g]) = Now(g)
  BY <1>1, HeadTyped
<1>3. Become(g, <<CloseProcess>>) => Others(g) /\ Turned(todo[g], CloseProcess, todo'[g])
  BY <1>1, OpsTyped, BecomeOne
<1>4. Become(g, <<>>) => Others(g) /\ Lost(todo[g], todo'[g])
  BY <1>1, BecomeNothing
<1>5. Now(g).do = "sink"
  BY <1>2 DEF CallSink, At
<1>6. \/ /\ told' = [i \in Item |-> IF i = Now(g).item THEN Hear(told[i], Now(g).what)
                                      ELSE told[i]]
         /\ Become(g, <<>>) /\ (err' <=> err)
      \/ /\ err' <=> (err \/ turn = "set")
         /\ Become(g, <<CloseProcess>>) /\ told' = told
  BY <1>2, Zenon DEF CallSink, Here, heard
<1> QED
  BY <1>3, <1>4, <1>5, <1>6

\* markItemDelta and a final answer leave nothing.
LEMMA MarkForm ==
  ASSUME TypeOK, NEW g \in Goroutine, Busy(g), MarkDelta(g) \/ FinalAnswer(g)
  PROVE  Now(g).do \in {"mark", "final"} /\ Others(g) /\ Lost(todo[g], todo'[g])
<1>1. todo \in [Goroutine -> Seq(Operation)] /\ todo[g] # <<>>
  BY DEF TypeOK, Busy
<1> QED
  BY <1>1, HeadTyped, BecomeNothing DEF MarkDelta, FinalAnswer, At

\* The text of an item that had no delta is delivered as one.
LEMMA TextForm ==
  ASSUME TypeOK, NEW g \in Goroutine, Busy(g), DeliverText(g)
  PROVE  /\ Now(g).do = "text" /\ Others(g)
         /\ \/ Lost(todo[g], todo'[g])
            \/ Turned(todo[g], Deliver("delta", Now(g).item), todo'[g])
<1>1. todo \in [Goroutine -> Seq(Operation)] /\ todo[g] # <<>>
  BY DEF TypeOK, Busy
<1>2. Head(todo[g]) = Now(g) /\ Now(g) \in Operation
  BY <1>1, HeadTyped
<1>3. Deliver("delta", Now(g).item) \in Operation
  BY <1>2 DEF Operation, Deliver, Op, What
<1>4. Become(g, <<Deliver("delta", Now(g).item)>>) =>
        Others(g) /\ Turned(todo[g], Deliver("delta", Now(g).item), todo'[g])
  BY <1>1, <1>3, BecomeOne
<1>5. Become(g, <<>>) => Others(g) /\ Lost(todo[g], todo'[g])
  BY <1>1, BecomeNothing
<1> QED
  BY <1>2, <1>4, <1>5 DEF DeliverText, At, Here

\* completeCodexItem marks the item and leaves its announcement, or leaves nothing.
LEMMA CompleteForm ==
  ASSUME TypeOK, NEW g \in Goroutine, Busy(g), CompleteItem(g)
  PROVE  /\ Now(g).do = "complete" /\ Others(g)
         /\ \/ /\ turn = "set" /\ Now(g).item \notin completed
               /\ completed' = completed \cup {Now(g).item}
               /\ Turned(todo[g], Deliver("completed", Now(g).item), todo'[g])
            \/ /\ turn # "set" \/ Now(g).item \in completed
               /\ completed' = completed /\ Lost(todo[g], todo'[g])
<1>1. todo \in [Goroutine -> Seq(Operation)] /\ todo[g] # <<>>
  BY DEF TypeOK, Busy
<1>2. Head(todo[g]) = Now(g) /\ Now(g) \in Operation
  BY <1>1, HeadTyped
<1>3. Deliver("completed", Now(g).item) \in Operation
  BY <1>2 DEF Operation, Deliver, Op, What
<1>4. Become(g, <<Deliver("completed", Now(g).item)>>) =>
        Others(g) /\ Turned(todo[g], Deliver("completed", Now(g).item), todo'[g])
  BY <1>1, <1>3, BecomeOne
<1>5. Become(g, <<>>) => Others(g) /\ Lost(todo[g], todo'[g])
  BY <1>1, BecomeNothing
<1> QED
  BY <1>2, <1>4, <1>5 DEF CompleteItem, At, Here

\* finishTurn goes on to close turn.done unless it is closed.
LEMMA FinishForm ==
  ASSUME TypeOK, NEW g \in Goroutine, Busy(g), FinishTurn(g)
  PROVE  /\ Now(g).do = "finish" /\ Others(g)
         /\ err' <=> (err \/ (turn = "set" /\ Now(g).what = "failed"))
         /\ \/ done /\ Lost(todo[g], todo'[g])
            \/ ~done /\ Turned(todo[g], Op("close", NoItem, "none"), todo'[g])
<1>1. todo \in [Goroutine -> Seq(Operation)] /\ todo[g] # <<>>
  BY DEF TypeOK, Busy
<1>2. Head(todo[g]) = Now(g)
  BY <1>1, HeadTyped
<1> DEFINE o == Op("close", NoItem, "none")
<1>3. o \in Operation
  BY OpsTyped
<1>4. Now(g).do = "finish" /\ Become(g, IF done THEN <<>> ELSE <<o>>)
  BY <1>2 DEF FinishTurn, At
<1>5. err' <=> (err \/ (turn = "set" /\ Now(g).what = "failed"))
  BY <1>2, Zenon DEF FinishTurn
<1> HIDE DEF o
<1>6. CASE done
  BY <1>6, <1>1, <1>4, <1>5, BecomeNothing
<1>7. CASE ~done
  BY <1>7, <1>1, <1>3, <1>4, <1>5, BecomeOne DEF o
<1> QED
  BY <1>6, <1>7

\* Closing turn.done leaves nothing.
LEMMA CloseForm ==
  ASSUME TypeOK, NEW g \in Goroutine, Busy(g), CloseDone(g)
  PROVE  Now(g).do = "close" /\ Others(g) /\ Lost(todo[g], todo'[g])
<1>1. todo \in [Goroutine -> Seq(Operation)] /\ todo[g] # <<>>
  BY DEF TypeOK, Busy
<1> QED
  BY <1>1, HeadTyped, BecomeNothing DEF CloseDone, At

\* Killing the process leaves nothing.
LEMMA KillForm ==
  ASSUME TypeOK, NEW g \in Goroutine, Busy(g), Kill(g)
  PROVE  Now(g).do = "kill" /\ Others(g) /\ Lost(todo[g], todo'[g])
<1>1. todo \in [Goroutine -> Seq(Operation)] /\ todo[g] # <<>>
  BY DEF TypeOK, Busy
<1> QED
  BY <1>1, HeadTyped, BecomeNothing DEF Kill, At

\* closeProcess goes on to kill, after it has finished the turn, if there is one.
LEMMA EnterForm ==
  ASSUME TypeOK, NEW g \in Goroutine, Busy(g), EnterClose(g)
  PROVE  /\ Now(g).do = "closeProcess" /\ Others(g)
         /\ \/ Lost(todo[g], todo'[g])
            \/ turn # "set" /\ Turned(todo[g], Op("kill", NoItem, "none"), todo'[g])
            \/ /\ turn = "set"
               /\ Doubled(todo[g], Finish("failed"), Op("kill", NoItem, "none"), todo'[g])
<1>1. todo \in [Goroutine -> Seq(Operation)] /\ todo[g] # <<>>
  BY DEF TypeOK, Busy
<1>2. Head(todo[g]) = Now(g)
  BY <1>1, HeadTyped
<1> DEFINE kill == Op("kill", NoItem, "none")
           finish == Finish("failed")
           last == <<kill>>
           first == IF turn = "set" THEN <<finish>> ELSE <<>>
           ops == first \o last
<1>3. Now(g).do = "closeProcess" /\ (Become(g, ops) \/ Become(g, <<>>))
  BY <1>2 DEF EnterClose, At
<1>4. kill \in Operation /\ finish \in Operation
  BY OpsTyped
<1> HIDE DEF kill, finish
<1>5. last \in Seq(Operation) /\ Len(last) = 1 /\ last[1] = kill
  BY <1>4
<1>6. /\ first \in Seq(Operation)
      /\ turn = "set" => Len(first) = 1 /\ first[1] = finish
      /\ turn # "set" => Len(first) = 0
  BY <1>4
<1> HIDE DEF first, last
<1>7. /\ ops \in Seq(Operation) /\ Len(ops) = Len(first) + Len(last)
      /\ \A k \in 1..Len(first) + Len(last) :
           ops[k] = IF k <= Len(first) THEN first[k] ELSE last[k - Len(first)]
  <2>1. first \in Seq(Operation) /\ last \in Seq(Operation)
    BY <1>5, <1>6
  <2> QED BY <2>1, ConcatProperties
<1> HIDE DEF ops
<1>8. CASE Become(g, <<>>)
  BY <1>1, <1>3, <1>8, BecomeNothing
<1>9. CASE Become(g, ops)
  <2>1. /\ Others(g)
        /\ Len(ops) = 1 => Turned(todo[g], ops[1], todo'[g])
        /\ Len(ops) = 2 => Doubled(todo[g], ops[1], ops[2], todo'[g])
    BY <1>1, <1>7, <1>9, BecomeForms
  <2>2. CASE turn = "set"
    <3>0. Len(first) = 1 /\ first[1] = finish /\ Len(last) = 1 /\ last[1] = kill
      BY <2>2, <1>5, <1>6
    <3>2. 1 \in 1..1 + 1 /\ 2 \in 1..1 + 1 /\ 1 <= 1 /\ ~(2 <= 1) /\ 2 - 1 = 1 /\ 1 + 1 = 2
      OBVIOUS
    <3>1. Len(ops) = 2 /\ ops[1] = finish /\ ops[2] = kill
      BY <3>0, <3>2, <1>7
    <3> QED BY <2>1, <2>2, <3>1, <1>3 DEF finish, kill
  <2>3. CASE turn # "set"
    <3>1. Len(ops) = 1 /\ ops[1] = kill
      BY <2>3, <1>5, <1>6, <1>7
    <3> QED BY <2>1, <2>3, <3>1, <1>3 DEF kill
  <2> QED BY <2>2, <2>3
<1> QED
  BY <1>3, <1>8, <1>9

-----------------------------------------------------------------------------
(* Shapes is kept.                                                         *)

\* What one operation, n, can leave in its place.
Follows(n, o) ==
  \/ n.do = "start" /\ o.do = "deliver" /\ o.item = n.item /\ o.what = "started"
  \/ n.do = "deliver" /\ o.do = "sink" /\ o.item = n.item /\ o.what = n.what
  \/ n.do = "text" /\ o.do = "deliver" /\ o.item = n.item /\ o.what = "delta"
  \/ n.do = "complete" /\ o.do = "deliver" /\ o.item = n.item /\ o.what = "completed"
  \/ n.do = "sink" /\ o.do = "closeProcess" /\ o.item = NoItem /\ o.what = "none"
  \/ n.do = "finish" /\ o.do = "close" /\ o.item = NoItem /\ o.what = "none"
  \/ n.do = "closeProcess" /\ o.do = "kill" /\ o.item = NoItem /\ o.what = "none"

\* Every operation leaves nothing, one that follows from it, or finish and kill.
LEMMA OperateForms ==
  ASSUME TypeOK, NEW g \in Goroutine, Operate(g)
  PROVE  /\ Others(g) /\ Busy(g)
         /\ \/ Lost(todo[g], todo'[g])
            \/ \E o : Turned(todo[g], o, todo'[g]) /\ Follows(Now(g), o)
            \/ /\ Now(g).do = "closeProcess" /\ turn = "set"
               /\ Doubled(todo[g], Finish("failed"), Op("kill", NoItem, "none"), todo'[g])
<1>1. Busy(g)
  BY DEF Operate
<1>2. CASE StartItem(g)
  <2>1. Deliver("started", Now(g).item).do = "deliver"
        /\ Deliver("started", Now(g).item).item = Now(g).item
        /\ Deliver("started", Now(g).item).what = "started"
    BY OpFields DEF Deliver
  <2> QED BY <1>1, <1>2, <2>1, StartForm DEF Follows
<1>3. CASE CheckTurn(g)
  BY <1>1, <1>3, CheckForm DEF Follows
<1>4. CASE CallSink(g)
  <2>1. CloseProcess.do = "closeProcess" /\ CloseProcess.item = NoItem
        /\ CloseProcess.what = "none"
    BY OpFields DEF CloseProcess
  <2>2. /\ Now(g).do = "sink" /\ Others(g)
        /\ Lost(todo[g], todo'[g]) \/ Turned(todo[g], CloseProcess, todo'[g])
    BY <1>1, <1>4, SinkForm
  <2> QED BY <1>1, <2>1, <2>2 DEF Follows
<1>5. CASE MarkDelta(g) \/ FinalAnswer(g)
  BY <1>1, <1>5, MarkForm
<1>6. CASE DeliverText(g)
  <2>1. Deliver("delta", Now(g).item).do = "deliver"
        /\ Deliver("delta", Now(g).item).item = Now(g).item
        /\ Deliver("delta", Now(g).item).what = "delta"
    BY OpFields DEF Deliver
  <2> QED BY <1>1, <1>6, <2>1, TextForm DEF Follows
<1>7. CASE CompleteItem(g)
  <2>1. Deliver("completed", Now(g).item).do = "deliver"
        /\ Deliver("completed", Now(g).item).item = Now(g).item
        /\ Deliver("completed", Now(g).item).what = "completed"
    BY OpFields DEF Deliver
  <2> QED BY <1>1, <1>7, <2>1, CompleteForm DEF Follows
<1>8. CASE FinishTurn(g)
  <2>1. Op("close", NoItem, "none").do = "close" /\ Op("close", NoItem, "none").item = NoItem
        /\ Op("close", NoItem, "none").what = "none"
    BY OpFields
  <2>2. /\ Now(g).do = "finish" /\ Others(g)
        /\ \/ Lost(todo[g], todo'[g])
           \/ Turned(todo[g], Op("close", NoItem, "none"), todo'[g])
    BY <1>1, <1>8, FinishForm
  <2> QED BY <1>1, <2>1, <2>2 DEF Follows
<1>9. CASE CloseDone(g) \/ Kill(g)
  BY <1>1, <1>9, CloseForm, KillForm
<1>10. CASE EnterClose(g)
  <2>1. Op("kill", NoItem, "none").do = "kill" /\ Op("kill", NoItem, "none").item = NoItem
        /\ Op("kill", NoItem, "none").what = "none"
    BY OpFields
  <2> QED BY <1>1, <1>10, <2>1, EnterForm DEF Follows
<1> QED
  BY <1>2, <1>3, <1>4, <1>5, <1>6, <1>7, <1>8, <1>9, <1>10 DEF Operate

\* A first operation that becomes another one keeps the reader's shape.
LEMMA ReaderShapeKept ==
  ASSUME NEW q \in Seq(Operation), q # <<>>, NEW r \in Seq(Operation), ReaderShape(q)
  PROVE  /\ Lost(q, r) => ReaderShape(r)
         /\ \A o : Turned(q, o, r) /\ Follows(q[1], o) => ReaderShape(r)
         /\ \A o, p : Doubled(q, o, p, r) /\ EndingOp(o) /\ EndingOp(p) /\ p.do = "kill" =>
                        ReaderShape(r)
<1>0. Len(q) \in Nat /\ Len(q) > 0 /\ Len(r) \in Nat
  OBVIOUS
<1>1. ASSUME Lost(q, r) PROVE ReaderShape(r)
  <2>1. \A k \in 1..Len(r) : k + 1 \in 1..Len(q) /\ k + 1 \in 2..Len(q) /\ r[k] = q[k + 1]
    BY <1>1, <1>0 DEF Lost
  <2>2. \A k \in 1..Len(r) : ReaderOp(r[k]) /\ LaterOp(r[k])
    BY <2>1 DEF ReaderShape
  <2>3. \A k, l \in 1..Len(r) : k < l /\ Completes(r[k]) => r[l].do \in {"final", "kill"}
    <3> SUFFICES ASSUME NEW k \in 1..Len(r), NEW l \in 1..Len(r), k < l, Completes(r[k])
                 PROVE  r[l].do \in {"final", "kill"}
      OBVIOUS
    <3>1. k + 1 < l + 1 /\ Completes(q[k + 1]) /\ r[l] = q[l + 1]
      BY <2>1, <1>0
    <3> QED BY <2>1, <3>1 DEF ReaderShape
  <2> QED BY <2>2, <2>3, <1>0 DEF ReaderShape
<1>2. ASSUME NEW o, Turned(q, o, r), Follows(q[1], o) PROVE ReaderShape(r)
  <2>1. Len(r) = Len(q) /\ r[1] = o /\ \A k \in 2..Len(r) : r[k] = q[k]
    BY <1>2 DEF Turned
  <2>2. ReaderOp(q[1])
    BY <1>0 DEF ReaderShape
  <2>3. ReaderOp(o) /\ (Completes(o) => Completes(q[1]))
    BY <1>2, <2>2 DEF Follows, ReaderOp, EndingOp, ItemOp, PermissionOp, TellingOp, Completes
  <2>4. \A k \in 1..Len(r) : ReaderOp(r[k]) /\ (Completes(r[k]) => Completes(q[k]))
    BY <2>1, <2>3 DEF ReaderShape
  <2>5. \A k \in 2..Len(r) : LaterOp(r[k])
    BY <2>1 DEF ReaderShape
  <2>6. \A k, l \in 1..Len(r) : k < l /\ Completes(r[k]) => r[l].do \in {"final", "kill"}
    <3> SUFFICES ASSUME NEW k \in 1..Len(r), NEW l \in 1..Len(r), k < l, Completes(r[k])
                 PROVE  r[l].do \in {"final", "kill"}
      OBVIOUS
    <3>1. l \in 2..Len(r) /\ k \in 1..Len(q) /\ l \in 1..Len(q)
      BY <2>1, <1>0
    <3>2. r[l] = q[l] /\ Completes(q[k])
      BY <2>1, <2>4, <3>1
    <3> QED BY <3>1, <3>2 DEF ReaderShape
  <2> QED BY <2>4, <2>5, <2>6 DEF ReaderShape
<1>3. ASSUME NEW o, NEW p, Doubled(q, o, p, r), EndingOp(o), EndingOp(p), p.do = "kill"
      PROVE  ReaderShape(r)
  <2>1. /\ Len(r) = Len(q) + 1 /\ r[1] = o /\ r[2] = p
        /\ \A k \in 3..Len(r) : k - 1 \in 2..Len(q) /\ k - 1 \in 1..Len(q) /\ r[k] = q[k - 1]
    BY <1>3, <1>0 DEF Doubled
  <2>2. ~Completes(o) /\ ~Completes(p) /\ ReaderOp(o) /\ ReaderOp(p) /\ LaterOp(p)
    BY <1>3 DEF Completes, ReaderOp, LaterOp, EndingOp
  <2>3. \A k \in 1..Len(r) : k = 1 \/ k = 2 \/ k \in 3..Len(r)
    BY <1>0
  <2>4. \A k \in 1..Len(r) : ReaderOp(r[k])
    BY <2>1, <2>2, <2>3 DEF ReaderShape
  <2>5. \A k \in 2..Len(r) : LaterOp(r[k])
    BY <2>1, <2>2, <2>3 DEF ReaderShape
  <2>6. \A k, l \in 1..Len(r) : k < l /\ Completes(r[k]) => r[l].do \in {"final", "kill"}
    <3> SUFFICES ASSUME NEW k \in 1..Len(r), NEW l \in 1..Len(r), k < l, Completes(r[k])
                 PROVE  r[l].do \in {"final", "kill"}
      OBVIOUS
    <3>1. k \in 3..Len(r)
      BY <2>1, <2>2, <2>3
    <3>2. l \in 3..Len(r)
      BY <3>1, <1>0
    <3>3. /\ k - 1 \in 1..Len(q) /\ l - 1 \in 1..Len(q) /\ k - 1 < l - 1
          /\ r[k] = q[k - 1] /\ r[l] = q[l - 1]
      BY <2>1, <3>1, <3>2
    <3> QED BY <3>3 DEF ReaderShape
  <2> QED BY <2>4, <2>5, <2>6 DEF ReaderShape
<1> QED
  BY <1>1, <1>2, <1>3

\* ... the same for the caller,
LEMMA CallerShapeKept ==
  ASSUME NEW q \in Seq(Operation), q # <<>>, NEW r \in Seq(Operation), CallerShape(q)
  PROVE  /\ Lost(q, r) => CallerShape(r)
         /\ \A o : Turned(q, o, r) /\ Follows(q[1], o) => CallerShape(r)
         /\ \A o, p : Doubled(q, o, p, r) /\ EndingOp(o) /\ EndingOp(p) /\ o.what # "ok"
                        /\ p.do = "kill" => CallerShape(r)
<1>0. Len(q) \in Nat /\ Len(q) > 0 /\ Len(r) \in Nat
  OBVIOUS
<1>1. ASSUME Lost(q, r) PROVE CallerShape(r)
  <2>1. \A k \in 1..Len(r) : k + 1 \in 1..Len(q) /\ k + 1 \in 2..Len(q) /\ r[k] = q[k + 1]
    BY <1>1, <1>0 DEF Lost
  <2> QED BY <2>1, <1>0 DEF CallerShape
<1>2. ASSUME NEW o, Turned(q, o, r), Follows(q[1], o) PROVE CallerShape(r)
  <2>1. Len(r) = Len(q) /\ r[1] = o /\ \A k \in 2..Len(r) : r[k] = q[k]
    BY <1>2 DEF Turned
  <2>2. CallerOp(q[1])
    BY <1>0 DEF CallerShape
  <2>3. CallerOp(o)
    BY <1>2, <2>2 DEF Follows, CallerOp, EndingOp, TellingOp
  <2> QED BY <2>1, <2>3 DEF CallerShape
<1>3. ASSUME NEW o, NEW p, Doubled(q, o, p, r), EndingOp(o), o.what # "ok", EndingOp(p),
             p.do = "kill"
      PROVE  CallerShape(r)
  <2>1. /\ Len(r) = Len(q) + 1 /\ r[1] = o /\ r[2] = p
        /\ \A k \in 3..Len(r) : k - 1 \in 2..Len(q) /\ k - 1 \in 1..Len(q) /\ r[k] = q[k - 1]
    BY <1>3, <1>0 DEF Doubled
  <2>2. CallerOp(o) /\ CallerOp(p)
    BY <1>3 DEF CallerOp, EndingOp
  <2>3. \A k \in 1..Len(r) : k = 1 \/ k = 2 \/ k \in 3..Len(r)
    BY <1>0
  <2>4. \A k \in 1..Len(r) : CallerOp(r[k])
    BY <2>1, <2>2, <2>3 DEF CallerShape
  <2>5. \A k \in 2..Len(r) : r[k].do = "kill"
    BY <2>1, <2>3, <1>3 DEF CallerShape
  <2> QED BY <2>4, <2>5 DEF CallerShape
<1> QED
  BY <1>1, <1>2, <1>3

\* ... and for the waiter, which never closes the process.
LEMMA WaiterShapeKept ==
  ASSUME NEW q \in Seq(Operation), q # <<>>, NEW r \in Seq(Operation), WaiterShape(q)
  PROVE  /\ Lost(q, r) => WaiterShape(r)
         /\ \A o : Turned(q, o, r) /\ Follows(q[1], o) => WaiterShape(r)
         /\ q[1].do # "closeProcess"
<1>0. Len(q) \in Nat /\ Len(q) > 0 /\ Len(r) \in Nat
  OBVIOUS
<1>1. ASSUME Lost(q, r) PROVE WaiterShape(r)
  <2>1. \A k \in 1..Len(r) : k + 1 \in 1..Len(q) /\ r[k] = q[k + 1]
    BY <1>1, <1>0 DEF Lost
  <2> QED BY <2>1, <1>0 DEF WaiterShape
<1>4. WaiterOp(q[1])
  BY <1>0 DEF WaiterShape
<1>2. ASSUME NEW o, Turned(q, o, r), Follows(q[1], o) PROVE WaiterShape(r)
  <2>1. Len(r) = Len(q) /\ r[1] = o /\ \A k \in 2..Len(r) : r[k] = q[k]
    BY <1>2 DEF Turned
  <2>3. WaiterOp(o)
    BY <1>2, <1>4 DEF Follows, WaiterOp, EndingOp
  <2> QED BY <2>1, <2>3 DEF WaiterShape
<1> QED
  BY <1>1, <1>2, <1>4 DEF WaiterOp

\* What a line leaves to do has the reader's shape.
LEMMA LineShape ==
  ASSUME NEW i \in Item, NEW q \in Seq(Operation), LineOps(q, i)
  PROVE  ReaderShape(q)
<1>1. \A k \in 1..Len(q) : LineOp(q[k], i)
  BY DEF LineOps
<1>2. \A op : LineOp(op, i) => /\ ReaderOp(op) /\ (Completes(op) => op.do = "complete")
                               /\ op.do # "start" => LaterOp(op)
  BY DEF LineOp, ReaderOp, ItemOp, TellingOp, Completes, LaterOp
<1>3. \A k \in 1..Len(q) : ReaderOp(q[k])
  BY <1>1, <1>2
<1>4. \A k \in 2..Len(q) : LaterOp(q[k])
  BY <1>1, <1>2 DEF LineOps
<1>5. \A k, l \in 1..Len(q) : k < l /\ Completes(q[k]) => q[l].do \in {"final", "kill"}
  BY <1>1, <1>2 DEF LineOps
<1> QED
  BY <1>3, <1>4, <1>5 DEF ReaderShape

\* No step of an operation spoils the shapes.
LEMMA OperateShapes ==
  ASSUME TypeOK, Shapes, NEW g \in Goroutine, Operate(g)
  PROVE  Shapes'
<1>1. todo \in [Goroutine -> Seq(Operation)] /\ todo[g] # <<>>
  BY OperateForms DEF TypeOK, Busy
<1>2. todo' \in [Goroutine -> Seq(Operation)] /\ \A h \in Goroutine \ {g} : todo'[h] = todo[h]
  BY OperateForms DEF Others
<1> DEFINE q == todo[g]  r == todo'[g]
<1>3. q \in Seq(Operation) /\ q # <<>> /\ r \in Seq(Operation) /\ Now(g) = q[1]
  BY <1>1, <1>2 DEF Now
<1> DEFINE o == Finish("failed")  p == Op("kill", NoItem, "none")
<1>4. EndingOp(o) /\ o.what # "ok" /\ EndingOp(p) /\ p.do = "kill"
  BY OpFields DEF EndingOp, Finish
<1> HIDE DEF o, p
<1>5. \/ Lost(q, r)
      \/ \E n : Turned(q, n, r) /\ Follows(q[1], n)
      \/ q[1].do = "closeProcess" /\ Doubled(q, o, p, r)
  BY OperateForms DEF Now, o, p
<1> HIDE DEF q, r
<1>6. CASE g = "reader"
  <2>1. ReaderShape(q)
    BY <1>6 DEF Shapes, q
  <2>2. ReaderShape(r)
    BY <1>3, <1>4, <1>5, <2>1, ReaderShapeKept
  <2> QED BY <1>2, <1>6, <2>2 DEF Shapes, r, Goroutine
<1>7. CASE g = "caller"
  <2>1. CallerShape(q)
    BY <1>7 DEF Shapes, q
  <2>2. CallerShape(r)
    BY <1>3, <1>4, <1>5, <2>1, CallerShapeKept
  <2> QED BY <1>2, <1>7, <2>2 DEF Shapes, r, Goroutine
<1>8. CASE g = "waiter"
  <2>1. WaiterShape(q)
    BY <1>8 DEF Shapes, q
  <2>2. WaiterShape(r)
    BY <1>3, <1>5, <2>1, WaiterShapeKept
  <2> QED BY <1>2, <1>8, <2>2 DEF Shapes, r, Goroutine
<1> QED
  BY <1>6, <1>7, <1>8 DEF Goroutine

-----------------------------------------------------------------------------
(* Types, and the shapes under every other step.                           *)

\* Who can be at which operation.
LEMMA NowOps ==
  ASSUME TypeOK, Shapes, NEW g \in Goroutine, Busy(g)
  PROVE  /\ g = "reader" => ReaderOp(Now(g))
         /\ g = "caller" => CallerOp(Now(g))
         /\ g = "waiter" => WaiterOp(Now(g))
         /\ Now(g).do \in {"start", "mark", "text", "complete", "final"} =>
              g = "reader" /\ Now(g).item \in Item /\ Now(g).what = "none"
         /\ TellingOp(Now(g)) => \/ g = "reader"
                                 \/ g = "caller" /\ Now(g).item \in Item
                                    /\ Now(g).what = "completed"
<1>1. todo[g] # <<>> /\ Len(todo[g]) \in Nat /\ Len(todo[g]) > 0
  BY HeadTyped DEF TypeOK, Busy
<1>2. 1 \in 1..Len(todo[g])
  BY <1>1
<1>3. /\ g = "reader" => ReaderOp(Now(g))
      /\ g = "caller" => CallerOp(Now(g))
      /\ g = "waiter" => WaiterOp(Now(g))
  BY <1>2 DEF Shapes, ReaderShape, CallerShape, WaiterShape, Now
<1>4. g \in {"reader", "caller", "waiter"}
  BY DEF Goroutine
<1> QED
  BY <1>3, <1>4 DEF ReaderOp, CallerOp, WaiterOp, EndingOp, ItemOp, PermissionOp, TellingOp

\* Every variable of the session keeps its type when a goroutine goes on.
LEMMA OperateTyped ==
  ASSUME TypeOK, Shapes, NEW g \in Goroutine, Operate(g)
  PROVE  TypeOK'
<1>1. Busy(g) /\ todo' \in [Goroutine -> Seq(Operation)]
  BY OperateForms DEF Others
<1> USE DEF TypeOK, caller, process, session, items, verdict, heard, input
<1>2. CASE StartItem(g)
  <2>1. started' \subseteq Item
    BY <1>1, <1>2, StartForm, NowOps
  <2> QED BY <1>1, <1>2, <2>1 DEF StartItem
<1>3. CASE CheckTurn(g)
  BY <1>1, <1>3 DEF CheckTurn
<1>4. CASE CallSink(g)
  <2>1. told' \in [Item -> {"nothing", "open", "closed", "twice", "disordered"}]
    BY <1>1, <1>4, SinkForm, HearTyped
  <2>2. err' \in BOOLEAN
    BY <1>4 DEF CallSink
  <2> QED BY <1>1, <1>4, <2>1, <2>2 DEF CallSink
<1>5. CASE MarkDelta(g)
  <2>1. streamed' \subseteq Item
    <3>1. Now(g).item \in Item
      BY <1>1, <1>5, MarkForm, NowOps
    <3>2. Here(g) = Now(g).item
      BY <1>1, HeadTyped DEF Here, Busy
    <3> QED BY <1>5, <3>1, <3>2 DEF MarkDelta
  <2> QED BY <1>1, <1>5, <2>1 DEF MarkDelta
<1>6. CASE DeliverText(g)
  BY <1>1, <1>6 DEF DeliverText
<1>7. CASE CompleteItem(g)
  <2>1. completed' \subseteq Item /\ completed \subseteq completed'
    <3>1. Now(g).do = "complete"
          /\ (completed' = completed \cup {Now(g).item} \/ completed' = completed)
      BY <1>1, <1>7, CompleteForm
    <3>2. Now(g).item \in Item
      BY <1>1, <3>1, NowOps
    <3> QED BY <3>1, <3>2
  <2> QED BY <1>1, <1>7, <2>1 DEF CompleteItem
<1>8. CASE FinalAnswer(g)
  BY <1>1, <1>8 DEF FinalAnswer
<1>9. CASE FinishTurn(g)
  <2>1. err' \in BOOLEAN
    BY <1>9 DEF FinishTurn
  <2> QED BY <1>1, <1>9, <2>1 DEF FinishTurn
<1>10. CASE CloseDone(g)
  BY <1>1, <1>10 DEF CloseDone
<1>11. CASE EnterClose(g)
  <2>1. /\ once' \in {"open", "busy", "done"} /\ closed' \in BOOLEAN
        /\ UNCHANGED <<caller, process, turn, items, verdict, heard, input>>
    BY <1>11 DEF EnterClose
  <2> QED BY <1>1, <2>1
<1>12. CASE Kill(g)
  BY <1>1, <1>12 DEF Kill
<1> QED
  BY <1>2, <1>3, <1>4, <1>5, <1>6, <1>7, <1>8, <1>9, <1>10, <1>11, <1>12 DEF Operate

\* A goroutine that had nothing to do is given one operation.
One(g, o) ==
  Others(g) /\ todo[g] = <<>> /\ Len(todo'[g]) = 1 /\ todo'[g][1] = o

\* Start with a single operation.
LEMMA StartOne ==
  ASSUME todo \in [Goroutine -> Seq(Operation)], NEW g \in Goroutine, Idle(g),
         NEW o \in Operation, Start(g, <<o>>)
  PROVE  One(g, o)
<1> DEFINE ops == <<o>>
<1>1. ops \in Seq(Operation) /\ Len(ops) = 1 /\ ops[1] = o
  OBVIOUS
<1>2. Start(g, ops)
  OBVIOUS
<1> HIDE DEF ops
<1>3. Others(g) /\ todo'[g] = ops
  BY <1>1, <1>2, StartFacts DEF Others
<1> QED
  BY <1>1, <1>3 DEF One, Idle

-----------------------------------------------------------------------------
(* Where the caller is in the turn, and what is under way before it.       *)

Quietly(q) == \A k \in 1..Len(q) : q[k].do \in {"closeProcess", "kill"}

Unbegun ==
  /\ started = {} /\ completed = {} /\ order = "open" /\ ~done /\ ~err
  /\ \A g \in Goroutine : Quietly(todo[g])

Stages ==
  /\ request = "turn" <=> turn # "none"
  /\ pc \in {"selecting", "completing", "canceling"} => turn = "set"
  /\ turn = "cleared" => Returned
  /\ pc = "ready" => turn = "none"
  /\ turn = "none" => Unbegun
  /\ todo["caller"] # <<>> /\ TellingOp(Now("caller")) => pc = "completing"
  /\ leftover # {} => pc = "completing"
  /\ pc = "completing" => done
  /\ result = "completed" => turn = "cleared"

\* What the caller can begin.
CallerBegins(o) ==
  \/ o.do = "closeProcess" /\ o.item = NoItem /\ o.what = "none"
  \/ /\ o.do = "finish" /\ o.item = NoItem /\ o.what = "failed"
     /\ turn = "set" /\ pc' = "selecting"
  \/ /\ o.do = "deliver" /\ o.item \in leftover /\ o.what = "completed"
     /\ pc = "completing" /\ leftover' = leftover \ {o.item}

\* The caller begins at most one operation at a time.
LEMMA CallForms ==
  ASSUME TypeOK, Stages, Call
  PROVE  \/ todo' = todo /\ leftover' \in {leftover, started \ completed}
         \/ \E o \in Operation : One("caller", o) /\ CallerBegins(o)
<1>1. Idle("caller") /\ todo \in [Goroutine -> Seq(Operation)]
  BY DEF Call, TypeOK
<1>2. /\ CloseProcess \in Operation /\ CloseProcess.do = "closeProcess"
      /\ CloseProcess.item = NoItem /\ CloseProcess.what = "none"
  BY OpsTyped, OpFields DEF CloseProcess
<1>3. /\ Finish("failed") \in Operation /\ Finish("failed").do = "finish"
      /\ Finish("failed").item = NoItem /\ Finish("failed").what = "failed"
  BY OpsTyped, OpFields DEF Finish
<1>4. "caller" \in Goroutine
  BY DEF Goroutine
<1>5. ASSUME Start("caller", <<CloseProcess>>) PROVE \E o \in Operation : One("caller", o) /\ CallerBegins(o)
  <2>1. One("caller", CloseProcess)
    BY <1>1, <1>2, <1>4, <1>5, StartOne
  <2> QED BY <2>1, <1>2 DEF CallerBegins
<1>6. CASE SendFails \/ RequestGivenUp
  <2>1. pc \in {"sending", "awaiting"} /\ RequestFails
    BY <1>6 DEF SendFails, RequestGivenUp
  <2>2. CASE request = "turn"
    <3>1. pc' = "selecting" /\ Start("caller", <<Finish("failed")>>)
      BY <2>1, <2>2 DEF RequestFails
    <3>2. turn = "set"
      BY <2>1, <2>2 DEF Stages, Returned, TypeOK
    <3>3. One("caller", Finish("failed"))
      BY <1>1, <1>3, <1>4, <3>1, StartOne
    <3> QED BY <1>3, <3>1, <3>2, <3>3 DEF CallerBegins
  <2>3. CASE request # "turn"
    BY <2>1, <2>3, <1>5 DEF RequestFails
  <2> QED BY <2>2, <2>3
<1>7. CASE TurnCanceled \/ Close
  BY <1>7, <1>5 DEF TurnCanceled, Close
<1>8. CASE CompleteLeftover
  <2>1. PICK i \in leftover : leftover' = leftover \ {i} /\ Start("caller", <<Deliver("completed", i)>>)
    BY <1>8 DEF CompleteLeftover
  <2>2. i \in Item
    BY <2>1 DEF TypeOK
  <2>3. /\ Deliver("completed", i) \in Operation /\ Deliver("completed", i).do = "deliver"
        /\ Deliver("completed", i).item = i /\ Deliver("completed", i).what = "completed"
    BY <2>2, OpsTyped, OpFields DEF Deliver
  <2>4. One("caller", Deliver("completed", i))
    BY <1>1, <1>4, <2>1, <2>3, StartOne
  <2>5. pc = "completing"
    BY <1>8 DEF CompleteLeftover
  <2> QED BY <2>1, <2>3, <2>4, <2>5 DEF CallerBegins
<1>9. CASE SendRequest \/ Answered \/ BeginTurn \/ TurnRefused \/ TurnReturns
           \/ CanceledTurnReturns \/ CloseReturns
  BY <1>9 DEF SendRequest, Answered, BeginTurn, TurnRefused, TurnReturns,
              CanceledTurnReturns, CloseReturns
<1>10. CASE TurnDone
  BY <1>10 DEF TurnDone
<1> QED
  BY <1>6, <1>7, <1>8, <1>9, <1>10 DEF Call

\* The waiter begins at most the failure of a turn that is under way.
LEMMA WaitForms ==
  ASSUME TypeOK, Wait
  PROVE  \/ todo' = todo
         \/ One("waiter", Finish("failed")) /\ turn = "set"
<1>1. Idle("waiter") /\ todo \in [Goroutine -> Seq(Operation)] /\ "waiter" \in Goroutine
  BY DEF Wait, TypeOK, Goroutine
<1>2. CASE AnswerPending
  <2>1. CASE turn = "set"
    <3>1. Start("waiter", <<Finish("failed")>>)
      BY <1>2, <2>1 DEF AnswerPending
    <3> QED BY <1>1, <2>1, <3>1, OpsTyped, StartOne
  <2>2. CASE turn # "set"
    <3>1. Start("waiter", <<>>)
      BY <1>2, <2>2 DEF AnswerPending
    <3> QED BY <1>1, <3>1 DEF Start, Idle
  <2> QED BY <2>1, <2>2
<1>3. CASE WaitReturns \/ WaiterDone
  BY <1>3 DEF WaitReturns, WaiterDone
<1> QED
  BY <1>2, <1>3 DEF Wait

\* What the reader can read: a line of an item, one of a permission, the end of
\* the turn, the end of the pipe.
LineRead(i) ==
  /\ todo["reader"] = <<>> /\ turn = "set"
  /\ Others("reader") /\ LineOps(todo'["reader"], i)
  /\ order' = IF order = "open" /\ i \notin completed THEN "open" ELSE "stray"

PermissionRead ==
  /\ todo["reader"] = <<>> /\ turn = "set"
  /\ Others("reader") /\ Len(todo'["reader"]) = 2
  /\ \A k \in 1..2 : PermissionOp(todo'["reader"][k]) /\ todo'["reader"][k].do = "deliver"
  /\ order' = IF order = "open" THEN "open" ELSE "stray"

TurnEndRead ==
  /\ turn = "set" /\ \E outcome \in {"ok", "failed"} : One("reader", Finish(outcome))
  /\ order' = IF order = "open" THEN "ended" ELSE order

PipeEndRead == One("reader", CloseProcess) /\ order' = order

\* Every reading is one of these, or leaves everything as it is.
LEMMA ReadForms ==
  ASSUME TypeOK, Read \/ ReadEnd
  PROVE  \/ todo' = todo /\ order' = order
         \/ \E i \in Item : LineRead(i)
         \/ PermissionRead
         \/ TurnEndRead
         \/ PipeEndRead
<1>1. todo \in [Goroutine -> Seq(Operation)] /\ "reader" \in Goroutine
  BY DEF TypeOK, Goroutine
<1>2. ASSUME NEW i \in Item, ReadStarted(i) \/ ReadDelta(i) \/ ReadCompleted(i)
      PROVE  LineRead(i)
  <2>1. Others("reader") /\ LineOps(todo'["reader"], i)
    BY <1>1, <1>2, StartedOps, DeltaOps, CompletedOps
  <2>2. /\ Reads /\ turn = "set"
        /\ order' = IF order = "open" /\ i \notin completed THEN "open" ELSE "stray"
    BY <1>2 DEF ReadStarted, ReadDelta, ReadCompleted, Handle
  <2> QED BY <2>1, <2>2 DEF LineRead, Reads, Idle
<1>3. ASSUME ReadPermission PROVE PermissionRead
  <2> DEFINE ops == <<Deliver("requested", NoItem), Deliver("resolved", NoItem)>>
  <2>1. /\ ops \in Seq(Operation) /\ Len(ops) = 2
        /\ ops[1] = Deliver("requested", NoItem) /\ ops[2] = Deliver("resolved", NoItem)
    BY OpsTyped
  <2>2. Start("reader", ops) /\ Reads /\ turn = "set"
    BY <1>3 DEF ReadPermission, Handle
  <2>3. order' = IF order = "open" THEN "open" ELSE "stray"
    BY <1>3, SessionAssumption DEF ReadPermission, Handle, TypeOK
  <2>4. /\ PermissionOp(Deliver("requested", NoItem)) /\ Deliver("requested", NoItem).do = "deliver"
        /\ PermissionOp(Deliver("resolved", NoItem)) /\ Deliver("resolved", NoItem).do = "deliver"
    BY OpFields DEF PermissionOp, TellingOp, Deliver
  <2> HIDE DEF ops
  <2>5. Others("reader") /\ todo'["reader"] = ops
    BY <1>1, <2>1, <2>2, StartFacts DEF Others
  <2>6. \A k \in 1..2 : PermissionOp(ops[k]) /\ ops[k].do = "deliver"
    BY <2>1, <2>4
  <2> QED BY <2>1, <2>2, <2>3, <2>5, <2>6 DEF PermissionRead, Reads, Idle
<1>4. ASSUME ReadTurnEnd PROVE TurnEndRead
  <2>1. PICK outcome \in {"ok", "failed"} : Start("reader", <<Finish(outcome)>>)
    BY <1>4 DEF ReadTurnEnd
  <2>2. /\ Idle("reader") /\ turn = "set"
        /\ order' = IF order = "open" THEN "ended" ELSE order
    BY <1>4 DEF ReadTurnEnd, Reads
  <2>3. Finish(outcome) \in Operation
    BY OpsTyped
  <2>4. One("reader", Finish(outcome))
    BY <1>1, <2>1, <2>2, <2>3, StartOne
  <2> QED BY <2>2, <2>4 DEF TurnEndRead
<1>5. CASE ReadEnd
  <2>1. Idle("reader") /\ (todo' = todo \/ Start("reader", <<CloseProcess>>)) /\ order' = order
    BY <1>5 DEF ReadEnd, input
  <2>2. Start("reader", <<CloseProcess>>) => One("reader", CloseProcess)
    BY <1>1, <2>1, OpsTyped, StartOne
  <2> QED BY <2>1, <2>2 DEF PipeEndRead
<1>6. CASE ReadReply
  BY <1>6 DEF ReadReply, input
<1>7. CASE Read
  BY <1>7, <1>2, <1>3, <1>4, <1>6 DEF Read
<1> QED
  BY <1>5, <1>7

-----------------------------------------------------------------------------
\* What the steps outside the operations leave alone.
LEMMA ReadLeaves ==
  ASSUME Read \/ ReadEnd
  PROVE  /\ UNCHANGED <<pc, request, ctx, result, leftover>>
         /\ UNCHANGED <<session, items, verdict, heard>>
<1>1. ASSUME NEW i, NEW ops, Handle(i, ops)
      PROVE  /\ UNCHANGED <<pc, request, ctx, result, leftover>>
             /\ UNCHANGED <<session, items, verdict, heard>>
  BY <1>1 DEF Handle, caller
<1> QED
  BY <1>1 DEF Read, ReadEnd, ReadReply, ReadPermission, ReadTurnEnd, ReadStarted, ReadDelta,
              ReadCompleted, caller

\* ... those of the waiter,
LEMMA WaitLeaves ==
  ASSUME Wait
  PROVE  /\ UNCHANGED <<pc, request, ctx, result, leftover>>
         /\ UNCHANGED <<session, items, verdict, heard, input>>
BY DEF Wait, WaitReturns, AnswerPending, WaiterDone, caller

\* ... of the caller,
LEMMA CallLeaves ==
  ASSUME Call
  PROVE  UNCHANGED <<once, closed, started, streamed, verdict, heard, lines, order>>
BY DEF Call, SendRequest, SendFails, RequestGivenUp, RequestFails, Answered, BeginTurn, TurnRefused,
       TurnDone, CompleteLeftover, TurnReturns, TurnCanceled, CanceledTurnReturns, Close,
       CloseReturns, items, session, input

\* ... of the process and the context.
LEMMA OthersLeave ==
  ASSUME ProcessExits \/ ContextDone
  PROVE  /\ UNCHANGED <<pc, request, result, leftover, todo>>
         /\ UNCHANGED <<session, items, verdict, heard, input>>
BY DEF ProcessExits, ContextDone, caller

\* A single operation has the shape of its goroutine.
LEMMA OneShape ==
  ASSUME NEW q \in Seq(Operation), Len(q) = 1
  PROVE  /\ ReaderOp(q[1]) => ReaderShape(q)
         /\ CallerOp(q[1]) => CallerShape(q)
         /\ WaiterOp(q[1]) => WaiterShape(q)
BY DEF ReaderShape, CallerShape, WaiterShape

\* Shapes is kept by every step,
LEMMA ShapesKept ==
  ASSUME TypeOK, Shapes, Stages, [Next]_vars
  PROVE  Shapes'
<1>1. ASSUME todo' = todo PROVE Shapes'
  BY <1>1 DEF Shapes
<1>2. ASSUME NEW g \in Goroutine, Operate(g) PROVE Shapes'
  BY <1>2, OperateShapes
<1>3. CASE Call
  <2>1. CASE todo' = todo
    BY <2>1, <1>1
  <2>2. ASSUME NEW o \in Operation, One("caller", o), CallerBegins(o) PROVE Shapes'
    <3>1. o.item \in Item \/ o.do # "deliver"
      BY <2>2 DEF CallerBegins, TypeOK
    <3>2. CallerOp(o)
      BY <2>2, <3>1 DEF CallerBegins, CallerOp, EndingOp, TellingOp
    <3>3. CallerShape(todo'["caller"])
      BY <2>2, <3>2, OneShape DEF One, Others, Goroutine
    <3> QED BY <2>2, <3>3 DEF Shapes, One, Others, Goroutine
  <2> QED BY <1>3, <2>1, <2>2, CallForms
<1>4. CASE Wait
  <2>1. CASE todo' = todo
    BY <2>1, <1>1
  <2>2. CASE One("waiter", Finish("failed"))
    <3>1. WaiterOp(Finish("failed"))
      BY OpFields DEF Finish, WaiterOp, EndingOp
    <3>2. WaiterShape(todo'["waiter"])
      BY <2>2, <3>1, OneShape DEF One, Others, Goroutine
    <3> QED BY <2>2, <3>2 DEF Shapes, One, Others, Goroutine
  <2> QED BY <1>4, <2>1, <2>2, WaitForms
<1>5. CASE Read \/ ReadEnd
  <2>0. ASSUME Others("reader"), ReaderShape(todo'["reader"]) PROVE Shapes'
    BY <2>0 DEF Shapes, Others, Goroutine
  <2>1. CASE todo' = todo
    BY <2>1, <1>1
  <2>2. ASSUME NEW i \in Item, LineRead(i) PROVE Shapes'
    <3>1. ReaderShape(todo'["reader"])
      BY <2>2, LineShape DEF LineRead, Others, Goroutine
    <3> QED BY <2>0, <2>2, <3>1 DEF LineRead
  <2>3. CASE PermissionRead
    <3> DEFINE q == todo'["reader"]
    <3>1. Len(q) = 2 /\ PermissionOp(q[1]) /\ PermissionOp(q[2]) /\ q[2].do = "deliver"
      BY <2>3 DEF PermissionRead
    <3> HIDE DEF q
    <3>2. ReaderShape(q)
      BY <3>1 DEF ReaderShape, ReaderOp, PermissionOp, LaterOp, Completes, TellingOp
    <3> QED BY <2>0, <2>3, <3>2 DEF PermissionRead, q
  <2>4. CASE TurnEndRead
    <3>1. PICK outcome \in {"ok", "failed"} : One("reader", Finish(outcome))
      BY <2>4 DEF TurnEndRead
    <3>2. ReaderOp(Finish(outcome))
      BY OpFields DEF Finish, ReaderOp, EndingOp
    <3>3. ReaderShape(todo'["reader"])
      BY <3>1, <3>2, OneShape DEF One, Others, Goroutine
    <3> QED BY <2>0, <3>1, <3>3 DEF One
  <2>5. CASE PipeEndRead
    <3>1. One("reader", CloseProcess)
      BY <2>5 DEF PipeEndRead
    <3>2. ReaderOp(CloseProcess)
      BY OpFields DEF CloseProcess, ReaderOp, EndingOp
    <3>3. ReaderShape(todo'["reader"])
      BY <3>1, <3>2, OneShape DEF One, Others, Goroutine
    <3> QED BY <2>0, <3>1, <3>3 DEF One
  <2> QED BY <1>5, <2>1, <2>2, <2>3, <2>4, <2>5, ReadForms
<1>6. CASE ProcessExits \/ ContextDone
  BY <1>1, <1>6, OthersLeave
<1>7. CASE UNCHANGED vars
  BY <1>1, <1>7 DEF vars
<1> QED
  BY <1>2, <1>3, <1>4, <1>5, <1>6, <1>7 DEF Next

\* ... and so is TypeOK.
LEMMA TypesKept ==
  ASSUME TypeOK, Shapes, Stages, [Next]_vars
  PROVE  TypeOK'
<1>0. todo' \in [Goroutine -> Seq(Operation)]
  <2>1. ASSUME NEW g \in Goroutine, Operate(g) PROVE todo' \in [Goroutine -> Seq(Operation)]
    BY <2>1, OperateForms DEF Others
  <2>2. CASE Call
    BY <2>2, CallForms DEF One, Others, TypeOK
  <2>3. CASE Wait
    BY <2>3, WaitForms DEF One, Others, TypeOK
  <2>4. CASE Read \/ ReadEnd
    BY <2>4, ReadForms DEF One, Others, TypeOK, LineRead, PermissionRead, TurnEndRead, PipeEndRead
  <2>5. CASE ProcessExits \/ ContextDone \/ UNCHANGED vars
    BY <2>5, OthersLeave DEF vars, TypeOK
  <2> QED BY <2>1, <2>2, <2>3, <2>4, <2>5 DEF Next
<1> USE DEF caller, process, session, items, verdict, heard, input
<1>1. CASE Call
  <2> USE <1>0 DEF TypeOK
  <2>1. CASE SendRequest
    BY <2>1 DEF SendRequest
  <2>2. CASE SendFails \/ RequestGivenUp
    BY <2>2 DEF SendFails, RequestGivenUp, RequestFails
  <2>3. CASE Answered
    BY <2>3 DEF Answered
  <2>4. CASE BeginTurn
    BY <2>4 DEF BeginTurn
  <2>5. CASE TurnRefused
    BY <2>5 DEF TurnRefused
  <2>6. CASE TurnDone
    BY <2>6 DEF TurnDone
  <2>7. CASE CompleteLeftover
    BY <2>7 DEF CompleteLeftover
  <2>8. CASE TurnReturns
    BY <2>8 DEF TurnReturns
  <2>9. CASE TurnCanceled
    BY <2>9 DEF TurnCanceled
  <2>10. CASE CanceledTurnReturns
    BY <2>10 DEF CanceledTurnReturns
  <2>11. CASE Close
    BY <2>11 DEF Close
  <2>12. CASE CloseReturns
    BY <2>12 DEF CloseReturns
  <2> QED
    BY <1>1, <2>1, <2>2, <2>3, <2>4, <2>5, <2>6, <2>7, <2>8, <2>9, <2>10, <2>11, <2>12 DEF Call
<1>2. CASE Wait
  BY <1>0, <1>2 DEF Wait, WaitReturns, AnswerPending, WaiterDone, TypeOK
<1>3. CASE Read \/ ReadEnd
  <2>1. ASSUME NEW i, NEW ops, Handle(i, ops) PROVE TypeOK'
    BY <1>0, <2>1, SessionAssumption DEF Handle, TypeOK
  <2>2. CASE ReadReply
    BY <1>0, <2>2 DEF ReadReply, TypeOK
  <2>3. CASE ReadTurnEnd
    BY <1>0, <2>3 DEF ReadTurnEnd, TypeOK
  <2>4. CASE ReadEnd
    BY <1>0, <2>4 DEF ReadEnd, TypeOK
  <2> QED
    BY <1>3, <2>1, <2>2, <2>3, <2>4 DEF Read, ReadPermission, ReadStarted, ReadDelta, ReadCompleted
<1>4. CASE ProcessExits \/ ContextDone
  BY <1>0, <1>4 DEF ProcessExits, ContextDone, TypeOK
<1>5. CASE UNCHANGED vars
  BY <1>5 DEF vars, TypeOK
<1> QED
  BY OperateTyped, <1>1, <1>2, <1>3, <1>4, <1>5 DEF Next

\* The first operation after a step of g.
LEMMA NextNow ==
  ASSUME TypeOK, Shapes, NEW g \in Goroutine, Operate(g)
  PROVE  /\ \A h \in Goroutine \ {g} : todo'[h] = todo[h] /\ Now(h)' = Now(h)
         /\ \/ /\ Lost(todo[g], todo'[g])
               /\ todo'[g] # <<>> => /\ 2 \in 1..Len(todo[g]) /\ Now(g)' = todo[g][2]
                                     /\ g = "reader" => LaterOp(Now(g)')
                                     /\ g = "caller" => Now(g)'.do = "kill"
            \/ Turned(todo[g], Now(g)', todo'[g]) /\ Follows(Now(g), Now(g)')
            \/ /\ Now(g).do = "closeProcess" /\ turn = "set"
               /\ Now(g)'.do = "finish" /\ Now(g)'.what = "failed" /\ Now(g)'.item = NoItem
<1>1. /\ Others(g) /\ Busy(g)
      /\ \/ Lost(todo[g], todo'[g])
         \/ \E o : Turned(todo[g], o, todo'[g]) /\ Follows(Now(g), o)
         \/ /\ Now(g).do = "closeProcess" /\ turn = "set"
            /\ Doubled(todo[g], Finish("failed"), Op("kill", NoItem, "none"), todo'[g])
  BY OperateForms
<1>2. \A h \in Goroutine \ {g} : todo'[h] = todo[h] /\ Now(h)' = Now(h)
  BY <1>1 DEF Others, Now
<1>3. todo' \in [Goroutine -> Seq(Operation)] /\ Len(todo[g]) \in Nat
  BY <1>1 DEF Others, TypeOK
<1>4. CASE Lost(todo[g], todo'[g])
  <2>1. ASSUME todo'[g] # <<>>
        PROVE  2 \in 2..Len(todo[g]) /\ 2 \in 1..Len(todo[g]) /\ Now(g)' = todo[g][2]
    <3>1. Len(todo'[g]) \in Nat /\ Len(todo'[g]) > 0
      BY <2>1, <1>3
    <3>2. 1 \in 1..Len(todo'[g])
      BY <3>1
    <3>3. 1 + 1 \in 2..Len(todo[g]) /\ todo'[g][1] = todo[g][1 + 1]
      BY <3>2, <1>4 DEF Lost
    <3> QED BY <3>3, <1>3 DEF Now
  <2>2. ASSUME todo'[g] # <<>>, g = "reader" PROVE LaterOp(Now(g)')
    BY <2>1, <2>2 DEF Shapes, ReaderShape
  <2>3. ASSUME todo'[g] # <<>>, g = "caller" PROVE Now(g)'.do = "kill"
    BY <2>1, <2>3 DEF Shapes, CallerShape
  <2> QED BY <1>2, <1>4, <2>1, <2>2, <2>3
<1>5. ASSUME NEW o, Turned(todo[g], o, todo'[g]), Follows(Now(g), o)
      PROVE  Turned(todo[g], Now(g)', todo'[g]) /\ Follows(Now(g), Now(g)')
  <2>1. Now(g)' = o
    BY <1>5 DEF Turned, Now
  <2> QED BY <1>5, <2>1
<1>6. ASSUME Now(g).do = "closeProcess", turn = "set",
             Doubled(todo[g], Finish("failed"), Op("kill", NoItem, "none"), todo'[g])
      PROVE  Now(g)'.do = "finish" /\ Now(g)'.what = "failed" /\ Now(g)'.item = NoItem
  BY <1>6, OpFields DEF Doubled, Now, Finish
<1> QED
  BY <1>1, <1>2, <1>4, <1>5, <1>6

\* Stages is kept by the operations,
LEMMA OperateStages ==
  ASSUME TypeOK, Shapes, Stages, NEW g \in Goroutine, Operate(g)
  PROVE  Stages'
<1>1. Busy(g) /\ Others(g) /\ Len(todo[g]) \in Nat /\ Len(todo[g]) > 0
  BY OperateForms, HeadTyped DEF TypeOK, Busy
<1>2. UNCHANGED <<pc, request, leftover, result, turn, order>>
  BY DEF Operate, StartItem, CheckTurn, CallSink, MarkDelta, DeliverText, CompleteItem,
         FinalAnswer, FinishTurn, CloseDone, EnterClose, Kill, caller, session, input
<1>3. done => done'
  BY DEF Operate, StartItem, CheckTurn, CallSink, MarkDelta, DeliverText, CompleteItem,
         FinalAnswer, FinishTurn, CloseDone, EnterClose, Kill, verdict
<1>4. ASSUME turn = "none" PROVE Unbegun'
  <2>1. Quietly(todo[g]) /\ Unbegun
    BY <1>4 DEF Stages, Unbegun
  <2>2. Now(g).do \in {"closeProcess", "kill"}
    BY <1>1, <2>1 DEF Quietly, Now
  <2>3. EnterClose(g) \/ Kill(g)
    BY <1>1, <2>2, HeadTyped DEF Operate, StartItem, CheckTurn, CallSink, MarkDelta, DeliverText,
       CompleteItem, FinalAnswer, FinishTurn, CloseDone, At, TypeOK, Busy
  <2>4. UNCHANGED <<started, completed, done, err, order>>
    BY <2>3 DEF EnterClose, Kill, items, verdict, input
  <2>5. \/ Lost(todo[g], todo'[g])
        \/ Turned(todo[g], Now(g)', todo'[g]) /\ Follows(Now(g), Now(g)')
    BY <1>4, NextNow
  <2>6. Quietly(todo'[g])
    <3>1. CASE Lost(todo[g], todo'[g])
      BY <2>1, <3>1, <1>1 DEF Lost, Quietly
    <3>2. CASE Turned(todo[g], Now(g)', todo'[g]) /\ Follows(Now(g), Now(g)')
      <4>1. Now(g)'.do = "kill"
        BY <2>2, <3>2 DEF Follows
      <4> QED BY <4>1, <3>2, <2>1, <1>1 DEF Turned, Quietly
    <3> QED BY <2>5, <3>1, <3>2
  <2>7. \A h \in Goroutine : Quietly(todo'[h])
    BY <2>1, <2>6, <1>1 DEF Unbegun, Others
  <2> QED BY <2>1, <2>4, <2>7 DEF Unbegun
<1>5. ASSUME todo'["caller"] # <<>>, TellingOp(Now("caller")') PROVE pc = "completing"
  <2>1. CASE g # "caller"
    BY <2>1, <1>5, NextNow DEF Stages, Goroutine
  <2>2. CASE g = "caller"
    <3>1. Follows(Now("caller"), Now("caller")')
      BY <2>2, <1>5, NextNow DEF TellingOp
    <3>2. TellingOp(Now("caller"))
      BY <1>1, <1>5, <2>2, <3>1, NowOps DEF Follows, TellingOp
    <3> QED BY <1>1, <2>2, <3>2 DEF Stages, Busy
  <2> QED BY <2>1, <2>2
<1> QED
  BY <1>2, <1>3, <1>4, <1>5 DEF Stages, Returned

\* A single quiet operation is all that goroutine g has.
LEMMA QuietOne ==
  ASSUME Unbegun, NEW g \in Goroutine, NEW o, One(g, o), o.do \in {"closeProcess", "kill"}
  PROVE  \A h \in Goroutine : Quietly(todo'[h])
<1>1. Quietly(todo'[g])
  BY DEF One, Quietly
<1> QED
  BY <1>1 DEF Unbegun, One, Others

\* ... by the caller,
LEMMA CallStages ==
  ASSUME TypeOK, Shapes, Stages, Call
  PROVE  Stages'
<1>1. todo["caller"] = <<>> /\ "caller" \in Goroutine
  BY DEF Call, Idle, Goroutine
<1>2. UNCHANGED <<started, err, done, order>>
  BY CallLeaves DEF verdict
<1>3. ASSUME todo' = todo
      PROVE  /\ Unbegun => \A h \in Goroutine : Quietly(todo'[h])
             /\ ~(todo'["caller"] # <<>> /\ TellingOp(Now("caller")'))
  BY <1>1, <1>3 DEF Unbegun
<1>4. ASSUME NEW o \in Operation, One("caller", o), CallerBegins(o)
      PROVE  /\ Unbegun /\ turn = "none" => \A h \in Goroutine : Quietly(todo'[h])
             /\ TellingOp(Now("caller")') => pc = "completing" /\ leftover' # leftover
  <2>1. turn = "none" => o.do = "closeProcess"
    BY <1>4 DEF CallerBegins, Stages
  <2>2. Now("caller")' = o
    BY <1>4 DEF One, Now
  <2>3. TellingOp(o) => pc = "completing" /\ leftover' # leftover
    BY <1>4 DEF CallerBegins, TellingOp
  <2> QED BY <1>1, <1>4, <2>1, <2>2, <2>3, QuietOne
<1>5. /\ Unbegun /\ turn = "none" => \A h \in Goroutine : Quietly(todo'[h])
      /\ todo'["caller"] # <<>> /\ TellingOp(Now("caller")') =>
           pc = "completing" /\ leftover' # leftover
  BY <1>3, <1>4, CallForms
<1>6. CASE SendRequest \/ SendFails \/ RequestGivenUp \/ Answered
  <2>1. UNCHANGED <<completed, turn, leftover, result>>
    BY <1>6 DEF SendRequest, SendFails, RequestGivenUp, RequestFails, Answered, caller, session,
                items
  <2>2. UNCHANGED <<request, turn>> \/ (request = "initialize" /\ request' = "thread" /\ turn' = turn)
    BY <1>6 DEF SendRequest, SendFails, RequestGivenUp, RequestFails, Answered, session
  <2>3. pc \in {"sending", "awaiting"} /\ turn # "cleared"
    BY <1>6 DEF SendRequest, SendFails, RequestGivenUp, Answered, Stages, Returned
  <2>4. pc' = "selecting" => request = "turn"
    BY <1>6 DEF SendRequest, SendFails, RequestGivenUp, RequestFails, Answered
  <2>5. pc' = "ready" => request = "thread"
    BY <1>6 DEF SendRequest, SendFails, RequestGivenUp, RequestFails, Answered
  <2>6. pc' \notin {"completing", "canceling"}
    BY <1>6 DEF SendRequest, SendFails, RequestGivenUp, RequestFails, Answered
  <2>7. turn \in {"none", "set", "cleared"} /\ leftover = {}
    BY <2>3 DEF TypeOK, Stages
  <2>8. turn = "none" => Unbegun'
    BY <1>2, <1>5, <2>1 DEF Stages, Unbegun
  <2> QED
    BY <1>5, <2>1, <2>2, <2>3, <2>4, <2>5, <2>6, <2>7, <2>8 DEF Stages
<1>7. CASE BeginTurn
  BY <1>1, <1>7 DEF BeginTurn, Stages, Returned
<1>8. CASE TurnRefused
  <2>1. turn = "none" => Unbegun'
    BY <1>2, <1>5, <1>8 DEF Stages, Unbegun, TurnRefused, items
  <2> QED BY <1>1, <1>8, <2>1 DEF TurnRefused, Stages, Returned, session
<1>9. CASE TurnDone
  BY <1>1, <1>2, <1>9 DEF TurnDone, Stages, Returned, session
<1>10. CASE CompleteLeftover
  BY <1>2, <1>10 DEF CompleteLeftover, Stages, Returned, session
<1>11. CASE TurnReturns
  BY <1>1, <1>11 DEF TurnReturns, Stages, Returned
<1>12. CASE TurnCanceled
  <2>1. turn = "set" /\ turn' = "set" /\ leftover = {} /\ leftover' = leftover
    BY <1>12 DEF TurnCanceled, Stages, session
  <2> QED BY <1>5, <1>12, <2>1 DEF TurnCanceled, Stages, Returned
<1>13. CASE CanceledTurnReturns
  BY <1>1, <1>13 DEF CanceledTurnReturns, Stages, Returned, session
<1>14. CASE Close \/ CloseReturns
  <2>1. /\ pc \in {"returned", "closing"} /\ pc' \in {"closing", "closed"}
        /\ UNCHANGED <<request, result, leftover, turn, completed>>
    BY <1>14 DEF Close, CloseReturns, session, items
  <2>2. leftover' = leftover /\ leftover = {}
    BY <2>1 DEF Stages
  <2>3. turn = "none" => Unbegun'
    BY <1>2, <1>5, <2>1 DEF Stages, Unbegun
  <2> QED BY <1>5, <2>1, <2>2, <2>3 DEF Stages, Returned
<1> QED
  BY <1>6, <1>7, <1>8, <1>9, <1>10, <1>11, <1>12, <1>13, <1>14 DEF Call

\* ... and so by every step.
LEMMA StagesKept ==
  ASSUME TypeOK, Shapes, Stages, [Next]_vars
  PROVE  Stages'
<1>1. CASE \E g \in Goroutine : Operate(g)
  BY <1>1, OperateStages
<1>2. CASE Call
  BY <1>2, CallStages
<1>3. ASSUME UNCHANGED <<pc, request, leftover, result, turn, started, completed, done, err>>,
             todo'["caller"] = todo["caller"],
             turn = "none" => order' = order /\ \A h \in Goroutine : Quietly(todo'[h])
      PROVE  Stages'
  <2>1. Now("caller")' = Now("caller")
    BY <1>3 DEF Now
  <2>2. turn = "none" => Unbegun'
    BY <1>3 DEF Stages, Unbegun
  <2> QED BY <1>3, <2>1, <2>2 DEF Stages, Returned
<1>4. todo' = todo /\ turn = "none" => \A h \in Goroutine : Quietly(todo'[h])
  BY DEF Stages, Unbegun
<1>5. CASE Wait
  <2>1. UNCHANGED <<pc, request, leftover, result, turn, started, completed, done, err, order>>
    BY <1>5, WaitLeaves DEF session, items, verdict, input
  <2>2. CASE todo' = todo
    BY <1>3, <1>4, <2>1, <2>2
  <2>3. CASE One("waiter", Finish("failed")) /\ turn = "set"
    BY <1>3, <2>1, <2>3 DEF One, Others, Goroutine
  <2> QED BY <1>5, <2>2, <2>3, WaitForms
<1>6. CASE Read \/ ReadEnd
  <2>1. UNCHANGED <<pc, request, leftover, result, turn, started, completed, done, err>>
    BY <1>6, ReadLeaves DEF session, items, verdict
  <2>2. CASE todo' = todo /\ order' = order
    BY <1>3, <1>4, <2>1, <2>2
  <2>3. CASE (\E i \in Item : LineRead(i)) \/ PermissionRead \/ TurnEndRead
    BY <1>3, <2>1, <2>3 DEF LineRead, PermissionRead, TurnEndRead, One, Others, Goroutine
  <2>4. CASE PipeEndRead
    <3>1. CloseProcess.do = "closeProcess" /\ "reader" \in Goroutine
      BY OpFields DEF CloseProcess, Goroutine
    <3>2. One("reader", CloseProcess) /\ order' = order
      BY <2>4 DEF PipeEndRead
    <3>3. turn = "none" => \A h \in Goroutine : Quietly(todo'[h])
      BY <3>1, <3>2, QuietOne DEF Stages
    <3> QED BY <1>3, <2>1, <3>2, <3>3 DEF One, Others, Goroutine
  <2> QED BY <1>6, <2>2, <2>3, <2>4, ReadForms
<1>7. CASE ProcessExits \/ ContextDone
  BY <1>3, <1>4, <1>7, OthersLeave DEF session, items, verdict, input
<1>8. CASE UNCHANGED vars
  BY <1>3, <1>4, <1>8 DEF vars, caller, session, items, verdict, input
<1> QED
  BY <1>1, <1>2, <1>5, <1>6, <1>7, <1>8 DEF Next

-----------------------------------------------------------------------------
(* A start and a completion are announced once.                            *)

Says(g, what, i) == todo[g] # <<>> /\ Now(g).what = what /\ Now(g).item = i

Started(i) ==
  /\ i \notin started => told[i] \in {"nothing", "disordered"}
  /\ Says("reader", "started", i) => i \in started /\ told[i] \in {"nothing", "disordered"}

\* The reader, the caller or completeCodexItems has still to announce the end.
Owed(i) == Says("reader", "completed", i) \/ Says("caller", "completed", i) \/ i \in leftover

Completed(i) ==
  /\ i \notin completed => told[i] # "closed"
  /\ Owed(i) => i \in completed /\ told[i] # "closed"
  /\ ~(Says("reader", "completed", i) /\ Says("caller", "completed", i))
  /\ ~(Says("reader", "completed", i) /\ i \in leftover)
  /\ ~(Says("caller", "completed", i) /\ i \in leftover)

Once == \A i \in Item : told[i] # "twice" /\ Started(i) /\ Completed(i)

\* No new announcement is under way.
NoNews ==
  \A i \in Item : \A g \in {"reader", "caller"} : \A what \in {"started", "completed"} :
    Says(g, what, i)' => Says(g, what, i)

\* What neither marks nor tells, nor begins an announcement, does not matter.
LEMMA OnceUndisturbed ==
  ASSUME Once, UNCHANGED <<told, started, completed, leftover>>, NoNews
  PROVE  Once'
<1> SUFFICES ASSUME NEW i \in Item PROVE told'[i] # "twice" /\ Started(i)' /\ Completed(i)'
  BY DEF Once
<1>1. told[i] # "twice" /\ Started(i) /\ Completed(i)
  BY DEF Once
<1>2. /\ Says("reader", "started", i)' => Says("reader", "started", i)
      /\ Says("reader", "completed", i)' => Says("reader", "completed", i)
      /\ Says("caller", "completed", i)' => Says("caller", "completed", i)
  BY DEF NoNews
<1>3. Started(i)'
  BY <1>1, <1>2 DEF Started
<1>4. Completed(i)'
  BY <1>1, <1>2 DEF Completed, Owed
<1> QED
  BY <1>1, <1>3, <1>4

\* Only startItem and completeItem begin an announcement.
LEMMA OperateNews ==
  ASSUME TypeOK, Shapes, Shapes', NEW g \in Goroutine, Operate(g)
  PROVE  \A i \in Item : \A h \in {"reader", "caller"} : \A what \in {"started", "completed"} :
           Says(h, what, i)' =>
             /\ ~(h = g /\ Lost(todo[g], todo'[g]))
             /\ \/ Says(h, what, i) /\ (h = g => Now(g).do = "deliver")
                \/ /\ h = g /\ Now(g).item = i
                   /\ \/ Now(g).do = "start" /\ what = "started"
                      \/ Now(g).do = "complete" /\ what = "completed"
<1> SUFFICES ASSUME NEW i \in Item, NEW h \in {"reader", "caller"},
                    NEW what \in {"started", "completed"}, Says(h, what, i)'
             PROVE  /\ ~(h = g /\ Lost(todo[g], todo'[g]))
                    /\ \/ Says(h, what, i) /\ (h = g => Now(g).do = "deliver")
                       \/ /\ h = g /\ Now(g).item = i
                          /\ \/ Now(g).do = "start" /\ what = "started"
                             \/ Now(g).do = "complete" /\ what = "completed"
  OBVIOUS
<1>1. todo'[h] # <<>> /\ Now(h)'.what = what /\ Now(h)'.item = i
  BY DEF Says
<1>2. CASE h # g
  <2>1. todo'[h] = todo[h] /\ Now(h)' = Now(h)
    BY <1>2, NextNow DEF Goroutine
  <2> QED BY <1>1, <1>2, <2>1 DEF Says
<1>3. CASE h = g
  <2>1. todo[g] # <<>> /\ Len(todo'[g]) \in Nat /\ Len(todo'[g]) > 0
    BY <1>1, <1>3, OperateForms DEF Busy, Others
  <2>2. ASSUME Now(g)'.do = "kill" PROVE FALSE
    <3>1. 1 \in 1..Len(todo'[g])
      BY <2>1
    <3>2. CallerOp(Now(g)') \/ ReaderOp(Now(g)')
      BY <1>3, <3>1 DEF Shapes, CallerShape, ReaderShape, Now
    <3> QED BY <1>1, <1>3, <2>2, <3>2
            DEF CallerOp, ReaderOp, EndingOp, ItemOp, PermissionOp, TellingOp
  <2>3. ASSUME LaterOp(Now(g)') PROVE FALSE
    BY <1>1, <1>3, <2>3 DEF LaterOp
  <2>4. Turned(todo[g], Now(g)', todo'[g]) /\ Follows(Now(g), Now(g)')
    BY <1>1, <1>3, <2>2, <2>3, NextNow
  <2>5. ~Lost(todo[g], todo'[g])
    BY <2>1, <2>4, HeadTyped DEF Turned, Lost, TypeOK
  <2> QED BY <1>1, <1>3, <2>1, <2>4, <2>5 DEF Follows, Says
<1> QED
  BY <1>2, <1>3

\* Which variables of Once an operation can change.
LEMMA OperateLeaves ==
  ASSUME NEW g \in Goroutine, Operate(g)
  PROVE  /\ leftover' = leftover /\ turn' = turn /\ order' = order /\ pc' = pc /\ result' = result
         /\ ~StartItem(g) => started' = started
         /\ ~CompleteItem(g) => completed' = completed
         /\ ~CallSink(g) => told' = told
BY DEF Operate, StartItem, CheckTurn, CallSink, MarkDelta, DeliverText, CompleteItem,
       FinalAnswer, FinishTurn, CloseDone, EnterClose, Kill, items, caller, heard, session, input

\* Once is kept by the start of an item,
LEMMA StartOnce ==
  ASSUME TypeOK, Shapes, Shapes', Once, NEW g \in Goroutine, Operate(g), StartItem(g)
  PROVE  Once'
<1> DEFINE j == Now(g).item
<1>1. Busy(g) /\ todo[g] # <<>>
  BY DEF Operate, Busy
<1>2. /\ Now(g).do = "start" /\ g = "reader" /\ j \in Item
      /\ \/ /\ turn = "set" /\ j \notin started /\ started' = started \cup {j}
         \/ started' = started /\ Lost(todo[g], todo'[g])
  BY <1>1, StartForm, NowOps
<1>3. UNCHANGED <<told, completed, leftover>>
  BY DEF StartItem, heard, items, caller
<1>4. \A i \in Item : \A h \in {"reader", "caller"} : \A what \in {"started", "completed"} :
        Says(h, what, i)' =>
          \/ Says(h, what, i)
          \/ h = g /\ j = i /\ what = "started" /\ ~Lost(todo[g], todo'[g])
  BY <1>2, OperateNews
<1> HIDE DEF j
<1>5. CASE started' = started /\ Lost(todo[g], todo'[g])
  BY <1>3, <1>4, <1>5, OnceUndisturbed DEF NoNews
<1>6. CASE j \notin started /\ started' = started \cup {j}
  <2> SUFFICES ASSUME NEW i \in Item PROVE told'[i] # "twice" /\ Started(i)' /\ Completed(i)'
    BY DEF Once
  <2>1. told[i] # "twice" /\ Started(i) /\ Completed(i)
    BY DEF Once
  <2>2. Says("reader", "started", i)' => Says("reader", "started", i) \/ i = j
    BY <1>4
  <2>3. /\ Says("reader", "completed", i)' => Says("reader", "completed", i)
        /\ Says("caller", "completed", i)' => Says("caller", "completed", i)
    BY <1>4
  <2>4. Started(i)'
    BY <1>3, <1>6, <2>1, <2>2 DEF Started
  <2>5. Completed(i)'
    BY <1>3, <2>1, <2>3 DEF Completed, Owed
  <2> QED BY <1>3, <2>1, <2>4, <2>5
<1> QED
  BY <1>2, <1>5, <1>6

\* ... by its end,
LEMMA CompleteOnce ==
  ASSUME TypeOK, Shapes, Shapes', Once, NEW g \in Goroutine, Operate(g), CompleteItem(g)
  PROVE  Once'
<1> DEFINE j == Now(g).item
<1>1. Busy(g) /\ todo[g] # <<>>
  BY DEF Operate, Busy
<1>2. /\ Now(g).do = "complete" /\ g = "reader" /\ j \in Item
      /\ \/ j \notin completed /\ completed' = completed \cup {j}
         \/ completed' = completed /\ Lost(todo[g], todo'[g])
  BY <1>1, CompleteForm, NowOps
<1>3. UNCHANGED <<told, started, leftover>>
  BY DEF CompleteItem, heard, items, caller
<1>4. \A i \in Item : \A h \in {"reader", "caller"} : \A what \in {"started", "completed"} :
        Says(h, what, i)' =>
          \/ Says(h, what, i)
          \/ h = g /\ j = i /\ what = "completed" /\ ~Lost(todo[g], todo'[g])
  BY <1>2, OperateNews
<1> HIDE DEF j
<1>5. CASE completed' = completed /\ Lost(todo[g], todo'[g])
  BY <1>3, <1>4, <1>5, OnceUndisturbed DEF NoNews
<1>6. CASE j \notin completed /\ completed' = completed \cup {j}
  <2> SUFFICES ASSUME NEW i \in Item PROVE told'[i] # "twice" /\ Started(i)' /\ Completed(i)'
    BY DEF Once
  <2>1. told[i] # "twice" /\ Started(i) /\ Completed(i)
    BY DEF Once
  <2>2. Says("reader", "completed", i)' => Says("reader", "completed", i) \/ i = j
    BY <1>4
  <2>3. /\ Says("reader", "started", i)' => Says("reader", "started", i)
        /\ Says("caller", "completed", i)' => Says("caller", "completed", i)
    BY <1>2, <1>4
  <2>4. Started(i)'
    BY <1>3, <2>1, <2>3 DEF Started
  <2>5. Completed(i)'
    BY <1>3, <1>6, <2>1, <2>2, <2>3 DEF Completed, Owed
  <2> QED BY <1>3, <2>1, <2>4, <2>5
<1> QED
  BY <1>2, <1>5, <1>6

\* ... when the sink is told of either,
LEMMA SinkOnce ==
  ASSUME TypeOK, Shapes, Shapes', Once, NEW g \in Goroutine, Operate(g), CallSink(g)
  PROVE  Once'
<1> DEFINE j == Now(g).item
<1>1. Busy(g) /\ todo[g] # <<>>
  BY DEF Operate, Busy
<1>2. /\ Now(g).do = "sink"
      /\ \/ told' = [i \in Item |-> IF i = Now(g).item THEN Hear(told[i], Now(g).what) ELSE told[i]]
         \/ told' = told
  BY <1>1, SinkForm
<1>3. UNCHANGED <<started, completed, leftover>>
  BY DEF CallSink, items, caller
<1>4. \A i \in Item : \A h \in {"reader", "caller"} : \A what \in {"started", "completed"} :
        Says(h, what, i)' => Says(h, what, i) /\ h # g
  BY <1>2, OperateNews
<1>5. CASE told' = told
  BY <1>3, <1>4, <1>5, OnceUndisturbed DEF NoNews
<1>6. CASE told' = [i \in Item |-> IF i = Now(g).item THEN Hear(told[i], Now(g).what) ELSE told[i]]
  <2> SUFFICES ASSUME NEW i \in Item PROVE told'[i] # "twice" /\ Started(i)' /\ Completed(i)'
    BY DEF Once
  <2>1. told[i] # "twice" /\ Started(i) /\ Completed(i)
    BY DEF Once
  <2>2. told[i] \in {"nothing", "open", "closed", "disordered"}
    BY <2>1 DEF TypeOK
  <2>3. /\ Says("reader", "started", i)' => Says("reader", "started", i) /\ g # "reader"
        /\ Says("reader", "completed", i)' => Says("reader", "completed", i) /\ g # "reader"
        /\ Says("caller", "completed", i)' => Says("caller", "completed", i) /\ g # "caller"
    BY <1>4
  <2>4. CASE i # j
    <3>1. told'[i] = told[i]
      BY <1>6, <2>4
    <3> QED BY <1>3, <2>1, <2>3, <3>1 DEF Started, Completed, Owed
  <2>5. CASE i = j
    <3>1. told'[i] = Hear(told[i], Now(g).what)
      BY <1>6, <2>5
    <3>2. g = "reader" \/ (g = "caller" /\ Now(g).what = "completed")
      BY <1>1, <1>2, NowOps DEF TellingOp
    <3>3. CASE Now(g).what = "started"
      <4>1. g = "reader" /\ Says("reader", "started", i)
        BY <3>2, <3>3, <1>1, <2>5 DEF Says
      <4>2. i \in started /\ told[i] \in {"nothing", "disordered"}
        BY <4>1, <2>1 DEF Started
      <4>3. told'[i] \in {"open", "disordered"}
        BY <3>1, <3>3, <4>2 DEF Hear
      <4> QED BY <1>3, <2>1, <2>3, <4>1, <4>2, <4>3 DEF Started, Completed, Owed
    <3>4. CASE Now(g).what = "completed"
      <4>1. Says(g, "completed", i) /\ g \in {"reader", "caller"}
        BY <3>2, <3>4, <1>1, <2>5 DEF Says
      <4>2. i \in completed /\ told[i] # "closed"
        BY <4>1, <2>1 DEF Completed, Owed
      <4>3. told'[i] \in {"closed", "disordered"} /\ (told[i] # "open" => told'[i] = "disordered")
        BY <3>1, <3>4, <4>2, <2>2 DEF Hear
      <4>4. ~Owed(i)'
        BY <1>3, <2>1, <2>3, <4>1 DEF Completed, Owed
      <4>5. Completed(i)'
        BY <1>3, <4>2, <4>4 DEF Completed, Owed
      <4>6. Started(i)'
        BY <1>3, <2>1, <2>3, <4>3, <2>2 DEF Started
      <4> QED BY <4>3, <4>5, <4>6
    <3>5. CASE Now(g).what \notin {"started", "completed"}
      <4>1. told'[i] \in {"open", "disordered"} /\ (told[i] # "open" => told'[i] = "disordered")
        BY <3>1, <3>5, <2>2 DEF Hear
      <4>2. Started(i)'
        BY <1>3, <2>1, <2>3, <4>1, <2>2 DEF Started
      <4>3. Completed(i)'
        BY <1>3, <2>1, <2>3, <4>1 DEF Completed, Owed
      <4> QED BY <4>1, <4>2, <4>3
    <3> QED BY <3>3, <3>4, <3>5
  <2> QED BY <2>4, <2>5
<1> QED
  BY <1>2, <1>5, <1>6

\* ... so by every operation,
LEMMA OperateOnce ==
  ASSUME TypeOK, Shapes, Shapes', Once, NEW g \in Goroutine, Operate(g)
  PROVE  Once'
<1>1. CASE StartItem(g)
  BY <1>1, StartOnce
<1>2. CASE CompleteItem(g)
  BY <1>2, CompleteOnce
<1>3. CASE CallSink(g)
  BY <1>3, SinkOnce
<1>4. CASE ~StartItem(g) /\ ~CompleteItem(g) /\ ~CallSink(g)
  <2>1. Busy(g)
    BY DEF Operate
  <2>2. Now(g).do \notin {"start", "complete"}
    BY <1>4, <2>1, CheckForm, MarkForm, TextForm, FinishForm, CloseForm, EnterForm, KillForm
       DEF Operate
  <2>3. NoNews
    BY <2>2, OperateNews DEF NoNews
  <2> QED BY <1>4, <2>3, OperateLeaves, OnceUndisturbed
<1> QED
  BY <1>1, <1>2, <1>3, <1>4

\* ... by completeCodexItems,
LEMMA CallOnce ==
  ASSUME TypeOK, Stages, Once, Call
  PROVE  Once'
<1>1. todo["caller"] = <<>>
  BY DEF Call, Idle
<1>2. told' = told /\ started' = started
  BY CallLeaves DEF heard
<1>3. \A i : ~Says("caller", "completed", i) /\ ~Says("caller", "started", i)
  BY <1>1 DEF Says
<1>4. CASE TurnDone
  <2>1. leftover = {} /\ leftover' = started \ completed /\ completed' = completed \cup started
    BY <1>4 DEF TurnDone, Stages
  <2>2. todo' = todo
    BY <1>4 DEF TurnDone
  <2> SUFFICES ASSUME NEW i \in Item PROVE told'[i] # "twice" /\ Started(i)' /\ Completed(i)'
    BY DEF Once
  <2>3. told[i] # "twice" /\ Started(i) /\ Completed(i)
    BY DEF Once
  <2>4. Started(i)'
    BY <1>2, <2>2, <2>3 DEF Started, Says, Now
  <2>5. ~Says("caller", "completed", i)' /\ (Says("reader", "completed", i)' <=> Says("reader", "completed", i))
    BY <1>1, <2>2 DEF Says, Now
  <2>6. Completed(i)'
    BY <1>2, <2>1, <2>3, <2>5 DEF Completed, Owed
  <2> QED BY <1>2, <2>3, <2>4, <2>6
<1>5. CASE CompleteLeftover
  <2>1. pc = "completing" /\ completed' = completed /\ todo' # todo
    <3>1. PICK i \in leftover : Start("caller", <<Deliver("completed", i)>>)
      BY <1>5 DEF CompleteLeftover
    <3>2. Deliver("completed", i) \in Operation
      BY <3>1, OpsTyped DEF TypeOK
    <3>3. One("caller", Deliver("completed", i))
      BY <1>5, <3>1, <3>2, StartOne DEF TypeOK, Call, Goroutine
    <3>4. Len(todo'["caller"]) # Len(todo["caller"])
      BY <1>1, <3>3 DEF One
    <3> QED BY <1>5, <3>4 DEF CompleteLeftover, items
  <2>2. PICK o \in Operation : One("caller", o) /\ CallerBegins(o)
    BY <2>1, CallForms
  <2>3. PICK j \in leftover : leftover' = leftover \ {j}
    BY <1>5 DEF CompleteLeftover
  <2>4. o.do = "deliver" => o.what = "completed" /\ o.item \in leftover /\ leftover' = leftover \ {o.item}
    BY <2>2 DEF CallerBegins
  <2>5. o.do # "deliver" => o.what \notin {"started", "completed"}
    BY <2>2 DEF CallerBegins
  <2>6. Now("caller")' = o /\ todo'["reader"] = todo["reader"] /\ Now("reader")' = Now("reader")
    BY <2>2 DEF One, Others, Now, Goroutine
  <2> SUFFICES ASSUME NEW i \in Item PROVE told'[i] # "twice" /\ Started(i)' /\ Completed(i)'
    BY DEF Once
  <2>7. told[i] # "twice" /\ Started(i) /\ Completed(i)
    BY DEF Once
  <2>8. /\ Says("reader", "completed", i)' <=> Says("reader", "completed", i)
        /\ Says("reader", "started", i)' <=> Says("reader", "started", i)
        /\ Says("caller", "completed", i)' => i \in leftover /\ i \notin leftover'
    BY <2>4, <2>5, <2>6 DEF Says
  <2>9. Started(i)'
    BY <1>2, <2>7, <2>8 DEF Started
  <2>10. Completed(i)'
    BY <1>2, <2>1, <2>3, <2>7, <2>8 DEF Completed, Owed
  <2> QED BY <1>2, <2>7, <2>9, <2>10
<1>6. CASE ~TurnDone /\ ~CompleteLeftover
  <2>1. completed' = completed /\ leftover' = leftover
    BY <1>6 DEF Call, SendRequest, SendFails, RequestGivenUp, RequestFails, Answered, BeginTurn,
       TurnRefused, TurnReturns, TurnCanceled, CanceledTurnReturns, Close, CloseReturns, items
  <2>2. CASE todo' = todo
    <3>1. NoNews
      BY <2>2 DEF NoNews, Says, Now
    <3> QED BY <1>2, <2>1, <3>1, OnceUndisturbed
  <2>3. ASSUME NEW o \in Operation, One("caller", o), CallerBegins(o) PROVE Once'
    <3>1. o.what \notin {"started", "completed"}
      BY <2>1, <2>3 DEF CallerBegins
    <3>2. Now("caller")' = o /\ todo'["reader"] = todo["reader"] /\ Now("reader")' = Now("reader")
      BY <2>3 DEF One, Others, Now, Goroutine
    <3>3. NoNews
      BY <3>1, <3>2 DEF NoNews, Says
    <3> QED BY <1>2, <2>1, <3>3, OnceUndisturbed
  <2> QED BY <2>2, <2>3, CallForms
<1> QED
  BY <1>4, <1>5, <1>6

\* ... and so by every step.
LEMMA OnceKept ==
  ASSUME TypeOK, Shapes, Shapes', Stages, Once, [Next]_vars
  PROVE  Once'
<1>1. CASE \E g \in Goroutine : Operate(g)
  BY <1>1, OperateOnce
<1>2. CASE Call
  BY <1>2, CallOnce
<1>3. ASSUME todo' = todo PROVE NoNews
  BY <1>3 DEF NoNews, Says, Now
<1>4. CASE Wait
  <2>1. UNCHANGED <<told, started, completed, leftover>>
    BY <1>4, WaitLeaves DEF items, heard
  <2>2. CASE One("waiter", Finish("failed"))
    <3>1. NoNews
      BY <2>2 DEF NoNews, Says, Now, One, Others, Goroutine
    <3> QED BY <2>1, <3>1, OnceUndisturbed
  <2> QED BY <1>3, <1>4, <2>1, <2>2, WaitForms, OnceUndisturbed
<1>5. CASE Read \/ ReadEnd
  <2>1. UNCHANGED <<told, started, completed, leftover>>
    BY <1>5, ReadLeaves DEF items, heard
  <2>2. ASSUME Others("reader"),
               todo'["reader"] # <<>> => Now("reader")'.what \notin {"started", "completed"}
        PROVE  NoNews
    <3>1. todo'["caller"] = todo["caller"] /\ Now("caller")' = Now("caller")
      BY <2>2 DEF Others, Goroutine, Now
    <3> QED BY <2>2, <3>1 DEF NoNews, Says
  <2>3. ASSUME NEW i \in Item, LineRead(i) PROVE NoNews
    <3>1. ASSUME todo'["reader"] # <<>>
          PROVE  Now("reader")'.what \notin {"started", "completed"}
      <4>1. Len(todo'["reader"]) \in Nat /\ Len(todo'["reader"]) > 0
        BY <2>3, <3>1 DEF LineRead, Others, Goroutine
      <4>2. LineOp(Now("reader")', i)
        BY <2>3, <4>1 DEF LineRead, LineOps, Now
      <4> QED BY <4>2 DEF LineOp
    <3> QED BY <2>2, <2>3, <3>1 DEF LineRead
  <2>4. CASE PermissionRead
    <3>1. PermissionOp(Now("reader")')
      BY <2>4 DEF PermissionRead, Now
    <3> QED BY <2>1, <2>2, <2>4, <3>1, OnceUndisturbed DEF PermissionRead, PermissionOp
  <2>5. CASE TurnEndRead
    <3>1. PICK outcome \in {"ok", "failed"} : One("reader", Finish(outcome))
      BY <2>5 DEF TurnEndRead
    <3>2. Now("reader")'.what = outcome
      BY <3>1, OpFields DEF One, Now, Finish
    <3> QED BY <2>1, <2>2, <3>1, <3>2, OnceUndisturbed DEF One
  <2>6. CASE PipeEndRead
    <3>1. One("reader", CloseProcess)
      BY <2>6 DEF PipeEndRead
    <3>2. Now("reader")'.what = "none"
      BY <3>1, OpFields DEF One, Now, CloseProcess
    <3> QED BY <2>1, <2>2, <3>1, <3>2, OnceUndisturbed DEF One
  <2> QED BY <1>3, <1>5, <2>1, <2>3, <2>4, <2>5, <2>6, ReadForms, OnceUndisturbed
<1>6. CASE ProcessExits \/ ContextDone
  BY <1>3, <1>6, OthersLeave, OnceUndisturbed DEF items, heard
<1>7. CASE UNCHANGED vars
  BY <1>3, <1>7, OnceUndisturbed DEF vars, caller, items, heard
<1> QED
  BY <1>1, <1>2, <1>4, <1>5, <1>6, <1>7 DEF Next

-----------------------------------------------------------------------------
(* What holds as long as the app-server keeps to its own order.            *)

Live == turn = "set" /\ ~err

\* The operation still has to do with an item that is not complete.
Pending(op) == op.do \in {"text", "complete"} \/ op.what \in {"delta", "updated"}

\* The reader has no item in hand after the line that ends the turn, and the
\* turn ends without an error by such a line only.
EndedRest == order = "ended" => \A k \in 1..Len(todo["reader"]) : EndingOp(todo["reader"][k])

EndedOk == todo["reader"] # <<>> /\ Now("reader").what = "ok" => order = "ended"

Closes(g) == todo[g] # <<>> /\ Now(g).do = "close"

EndedDone == Live /\ (done \/ \E g \in Goroutine : Closes(g)) => order = "ended"

\* An event that passed the look at the turn is what the sink is to hear next.
CallerAtSink ==
  todo["caller"] # <<>> /\ Now("caller").do = "sink" =>
    order = "ended" /\ told[Now("caller").item] = "open"

ReaderAtSink ==
  todo["reader"] # <<>> /\ Now("reader").do = "sink" /\ Now("reader").item \in Item =>
    told[Now("reader").item] = IF Now("reader").what = "started" THEN "nothing" ELSE "open"

\* As long as events are delivered, what is marked is told or about to be.
StartsTold == \A i \in started : Says("reader", "started", i) \/ told[i] \in {"open", "closed"}

EndsTold == \A i \in completed : Owed(i) \/ told[i] = "closed"

PendingOpen ==
  \A k \in 1..Len(todo["reader"]) : Pending(todo["reader"][k]) =>
    /\ todo["reader"][k].item \notin completed
    /\ \/ todo["reader"][k].item \in started
       \/ k > 1 /\ Now("reader").do = "start" /\ Now("reader").item = todo["reader"][k].item

Following ==
  Live => /\ StartsTold /\ EndsTold /\ completed \subseteq started /\ PendingOpen
          /\ pc = "completing" => started \subseteq completed

Settled == result = "completed" => order = "ended" /\ \A i \in Item : told[i] # "open"

Tame == \A i \in Item : told[i] # "disordered"

Ordered ==
  /\ Tame /\ EndedRest /\ EndedOk /\ EndedDone
  /\ CallerAtSink /\ ReaderAtSink /\ Following /\ Settled

IInv == TypeOK /\ Shapes /\ Stages /\ Once /\ (order # "stray" => Ordered)

-----------------------------------------------------------------------------
\* A reader with nothing but endings to do neither tells nor awaits anything.
LEMMA EndedReader ==
  ASSUME TypeOK, EndedRest, order = "ended"
  PROVE  /\ todo["reader"] # <<>> => EndingOp(Now("reader"))
         /\ \A i : ~Says("reader", "started", i) /\ ~Says("reader", "completed", i)
<1>1. todo["reader"] # <<>> => Len(todo["reader"]) \in Nat /\ Len(todo["reader"]) > 0
  BY HeadTyped DEF TypeOK, Goroutine
<1>2. todo["reader"] # <<>> => EndingOp(Now("reader"))
  BY <1>1 DEF EndedRest, Now
<1> QED
  BY <1>2 DEF EndingOp, Says

\* The sink hears what the state of the item calls for.
LEMMA SinkTells ==
  ASSUME TypeOK, Shapes, Tame, CallerAtSink, ReaderAtSink, EndedRest,
         NEW g \in Goroutine, Operate(g), CallSink(g)
  PROVE  LET j == Now(g).item IN
         \/ told' = told
         \/ /\ g \in {"reader", "caller"} /\ j \in Item /\ Now(g).what = "started"
            /\ told[j] = "nothing" /\ told' = [told EXCEPT ![j] = "open"]
         \/ /\ g \in {"reader", "caller"} /\ j \in Item /\ Now(g).what \in {"delta", "updated"}
            /\ told[j] = "open" /\ told' = told
         \/ /\ g \in {"reader", "caller"} /\ j \in Item /\ Now(g).what = "completed"
            /\ told[j] = "open" /\ told' = [told EXCEPT ![j] = "closed"]
<1> DEFINE j == Now(g).item
<1>1. Busy(g) /\ todo[g] # <<>>
  BY DEF Operate, Busy
<1>2. /\ Now(g).do = "sink"
      /\ \/ told' = [i \in Item |-> IF i = j THEN Hear(told[i], Now(g).what) ELSE told[i]]
         \/ told' = told
  BY <1>1, SinkForm
<1>3. told \in [Item -> {"nothing", "open", "closed", "twice", "disordered"}]
  BY DEF TypeOK
<1>4. /\ g = "reader" => ReaderOp(Now(g))
      /\ g = "caller" => CallerOp(Now(g))
      /\ g \in {"reader", "caller"}
  BY <1>1, <1>2, NowOps DEF TellingOp
<1>5. CASE j \notin Item
  BY <1>2, <1>3, <1>5
<1>6. CASE j \in Item
  <2>1. /\ Now(g).what \in {"started", "delta", "updated", "completed"}
        /\ told[j] = IF Now(g).what = "started" THEN "nothing" ELSE "open"
    <3>1. CASE g = "reader"
      <4>1. Now(g).what \in {"started", "delta", "updated", "completed"}
        BY <1>2, <1>4, <1>6, <3>1, SessionAssumption
           DEF ReaderOp, EndingOp, ItemOp, PermissionOp, TellingOp
      <4>2. told[j] = IF Now(g).what = "started" THEN "nothing" ELSE "open"
        BY <1>1, <1>2, <1>6, <3>1 DEF ReaderAtSink
      <4> QED BY <4>1, <4>2
    <3>2. CASE g = "caller"
      <4>1. Now(g).what = "completed"
        BY <1>2, <1>4, <3>2 DEF CallerOp, EndingOp
      <4>2. told[j] = "open"
        BY <1>1, <1>2, <3>2 DEF CallerAtSink
      <4> QED BY <4>1, <4>2
    <3> QED BY <1>4, <3>1, <3>2
  <2>2. CASE told' = told
    BY <2>2
  <2>3. CASE told' = [i \in Item |-> IF i = j THEN Hear(told[i], Now(g).what) ELSE told[i]]
    <3>1. told' = [told EXCEPT ![j] = Hear(told[j], Now(g).what)]
      BY <1>3, <2>3
    <3>2. CASE Now(g).what = "started"
      <4>1. Hear(told[j], Now(g).what) = "open"
        BY <2>1, <3>2 DEF Hear
      <4> QED BY <1>4, <1>6, <2>1, <3>1, <3>2, <4>1
    <3>3. CASE Now(g).what \in {"delta", "updated"}
      <4>1. Hear(told[j], Now(g).what) = "open" /\ told[j] = "open"
        BY <2>1, <3>3 DEF Hear
      <4>2. told' = told
        BY <1>3, <3>1, <4>1
      <4> QED BY <4>2
    <3>4. CASE Now(g).what = "completed"
      <4>1. Hear(told[j], Now(g).what) = "closed"
        BY <2>1, <3>4 DEF Hear
      <4> QED BY <1>4, <1>6, <2>1, <3>1, <3>4, <4>1
    <3> QED BY <2>1, <3>2, <3>3, <3>4
  <2> QED BY <1>2, <2>2, <2>3
<1> QED
  BY <1>5, <1>6

-----------------------------------------------------------------------------
\* Which operation it is says which action; a turn that was given up stays so.
LEMMA OperateIs ==
  ASSUME TypeOK, NEW g \in Goroutine, Operate(g)
  PROVE  /\ Busy(g) /\ todo[g] # <<>>
         /\ Now(g).do = "start" => StartItem(g)
         /\ Now(g).do = "deliver" => CheckTurn(g)
         /\ Now(g).do = "sink" => CallSink(g)
         /\ Now(g).do = "complete" => CompleteItem(g)
         /\ Now(g).do = "finish" => FinishTurn(g)
         /\ StartItem(g) => Now(g).do = "start"
         /\ CallSink(g) => Now(g).do = "sink"
         /\ CompleteItem(g) => Now(g).do = "complete"
         /\ CloseDone(g) => Now(g).do = "close"
<1>1. Busy(g) /\ todo[g] # <<>> /\ Head(todo[g]) = Now(g)
  BY HeadTyped DEF Operate, Busy, TypeOK
<1> QED
  BY <1>1 DEF Operate, StartItem, CheckTurn, CallSink, MarkDelta, DeliverText, CompleteItem,
     FinalAnswer, FinishTurn, CloseDone, EnterClose, Kill, At

\* Only closing turn.done closes it, and an error is never taken back.
LEMMA OperateMonotone ==
  ASSUME TypeOK, NEW g \in Goroutine, Operate(g)
  PROVE  /\ Live' => Live
         /\ started \subseteq started' /\ completed \subseteq completed'
         /\ done => done'
         /\ ~CloseDone(g) => done' = done
<1>1. turn' = turn
  BY OperateLeaves
<1>2. (done => done') /\ (~CloseDone(g) => done' = done)
  <2>1. CloseDone(g) => done'
    BY DEF CloseDone
  <2>2. ~CloseDone(g) => done' = done
    BY DEF Operate, StartItem, CheckTurn, CallSink, MarkDelta, DeliverText, CompleteItem,
       FinalAnswer, FinishTurn, EnterClose, Kill, verdict
  <2> QED BY <2>1, <2>2
<1>4. err => err'
  <2>1. Busy(g)
    BY DEF Operate
  <2>2. CallSink(g) => (err => err')
    BY <2>1, SinkForm
  <2>3. FinishTurn(g) => (err => err')
    BY <2>1, FinishForm
  <2>4. ~CallSink(g) /\ ~FinishTurn(g) => err' = err
    BY DEF Operate, StartItem, CheckTurn, MarkDelta, DeliverText, CompleteItem,
       FinalAnswer, CloseDone, EnterClose, Kill, verdict
  <2> QED BY <2>2, <2>3, <2>4
<1>3. started \subseteq started' /\ completed \subseteq completed'
  BY DEF Operate, StartItem, CheckTurn, CallSink, MarkDelta, DeliverText, CompleteItem,
     FinalAnswer, FinishTurn, CloseDone, EnterClose, Kill, items
<1> QED
  BY <1>1, <1>2, <1>3, <1>4 DEF Live

\* Endings are followed by endings.
LEMMA OperateEndedRest ==
  ASSUME TypeOK, Shapes, EndedRest, NEW g \in Goroutine, Operate(g)
  PROVE  EndedRest'
<1>1. order' = order
  BY OperateLeaves
<1> SUFFICES ASSUME order = "ended", NEW k \in 1..Len(todo'["reader"])
             PROVE  EndingOp(todo'["reader"][k])
  BY <1>1 DEF EndedRest
<1>2. /\ Others(g) /\ Busy(g)
      /\ \/ Lost(todo[g], todo'[g])
         \/ \E o : Turned(todo[g], o, todo'[g]) /\ Follows(Now(g), o)
         \/ Doubled(todo[g], Finish("failed"), Op("kill", NoItem, "none"), todo'[g])
  BY OperateForms
<1>3. CASE g # "reader"
  BY <1>2, <1>3 DEF Others, Goroutine, EndedRest
<1>4. CASE g = "reader"
  <2> DEFINE q == todo["reader"]  r == todo'["reader"]
  <2>1. \A l \in 1..Len(q) : EndingOp(q[l])
    BY DEF EndedRest
  <2>2. Len(q) \in Nat /\ Len(q) > 0 /\ Len(r) \in Nat
    BY <1>2, <1>4, HeadTyped DEF Busy, Others, TypeOK
  <2>3. EndingOp(Now(g))
    BY <2>1, <2>2, <1>4 DEF Now
  <2>4. EndingOp(Finish("failed")) /\ EndingOp(Op("kill", NoItem, "none"))
    BY OpFields DEF EndingOp, Finish
  <2> HIDE DEF q, r
  <2>5. CASE Lost(q, r)
    <3>1. k + 1 \in 1..Len(q) /\ r[k] = q[k + 1]
      BY <2>2, <2>5 DEF Lost, r
    <3> QED BY <2>1, <3>1 DEF r
  <2>6. ASSUME NEW o, Turned(q, o, r), Follows(Now(g), o) PROVE EndingOp(r[k])
    <3>1. EndingOp(o)
      BY <2>3, <2>6 DEF EndingOp, Follows
    <3>2. k = 1 \/ (k \in 2..Len(r) /\ k \in 1..Len(q))
      BY <2>2, <2>6 DEF Turned, r
    <3> QED BY <2>1, <2>6, <3>1, <3>2 DEF Turned
  <2>7. CASE Doubled(q, Finish("failed"), Op("kill", NoItem, "none"), r)
    <3>1. k = 1 \/ k = 2 \/ (k \in 3..Len(r) /\ k - 1 \in 1..Len(q))
      BY <2>2, <2>7 DEF Doubled, r
    <3> QED BY <2>1, <2>4, <2>7, <3>1 DEF Doubled, r
  <2> QED BY <1>2, <1>4, <2>5, <2>6, <2>7 DEF q, r
<1> QED
  BY <1>3, <1>4

\* What ends the turn without an error was read as its end.
LEMMA OperateEndedOk ==
  ASSUME TypeOK, Shapes, Shapes', EndedOk, NEW g \in Goroutine, Operate(g)
  PROVE  EndedOk'
<1>1. order' = order
  BY OperateLeaves
<1> SUFFICES ASSUME todo'["reader"] # <<>>, Now("reader")'.what = "ok"
             PROVE  order = "ended"
  BY <1>1 DEF EndedOk
<1>2. CASE g # "reader"
  <2>1. todo["reader"] = todo'["reader"] /\ Now("reader")' = Now("reader")
    BY <1>2, NextNow DEF Goroutine
  <2> QED BY <2>1 DEF EndedOk
<1>3. CASE g = "reader"
  <2>1. Busy(g) /\ ReaderOp(Now(g))
    BY <1>3, OperateIs, NowOps
  <2>2. Len(todo'[g]) \in Nat /\ Len(todo'[g]) > 0
    BY <1>3, OperateForms DEF Others
  <2>3. ReaderOp(Now(g)')
    BY <1>3, <2>2 DEF Shapes, ReaderShape, Now
  <2>4. ~LaterOp(Now(g)')
    BY <1>3, <2>3 DEF ReaderOp, EndingOp, ItemOp, PermissionOp, TellingOp, LaterOp
  <2>5. ~Follows(Now(g), Now(g)')
    BY <1>3, <2>1 DEF Follows, ReaderOp, EndingOp, ItemOp, PermissionOp, TellingOp
  <2> QED BY <1>3, <2>4, <2>5, NextNow
<1> QED
  BY <1>2, <1>3

\* turn.done is closed without an error after the line that ends the turn only.
LEMMA OperateEndedDone ==
  ASSUME TypeOK, Shapes, Shapes', EndedOk, EndedDone, NEW g \in Goroutine, Operate(g)
  PROVE  EndedDone'
<1>1. order' = order
  BY OperateLeaves
<1> SUFFICES ASSUME Live', done' \/ \E h \in Goroutine : Closes(h)'
             PROVE  order = "ended"
  BY <1>1 DEF EndedDone
<1>2. Live
  BY OperateMonotone
<1>3. CASE done'
  <2>1. done \/ Closes(g)
    BY <1>3, OperateMonotone, OperateIs DEF Closes
  <2> QED BY <1>2, <2>1 DEF EndedDone
<1>4. ASSUME NEW h \in Goroutine, Closes(h)' PROVE order = "ended"
  <2>1. CASE h # g
    <3>1. Closes(h)
      BY <1>4, <2>1, NextNow DEF Closes
    <3> QED BY <1>2, <3>1 DEF EndedDone
  <2>2. CASE h = g
    <3>1. todo'[g] # <<>> /\ Now(g)'.do = "close"
      BY <1>4, <2>2 DEF Closes
    <3>2. Follows(Now(g), Now(g)')
      <4>1. ASSUME 2 \in 1..Len(todo[g]), g = "reader" => LaterOp(Now(g)'),
                   g = "caller" => Now(g)'.do = "kill"
            PROVE  FALSE
        <5>1. CASE g = "waiter"
          BY <4>1, <5>1, OperateIs, HeadTyped DEF Shapes, WaiterShape, TypeOK
        <5> QED BY <3>1, <4>1, <5>1 DEF LaterOp, Goroutine
      <4> QED BY <3>1, <4>1, NextNow
    <3>3. Now(g).do = "finish" /\ Busy(g)
      BY <3>1, <3>2, OperateIs DEF Follows
    <3>4. Now(g).what # "failed"
      <4>1. FinishTurn(g)
        BY <3>3, OperateIs
      <4>2. err' <=> (err \/ (turn = "set" /\ Now(g).what = "failed"))
        BY <3>3, <4>1, FinishForm
      <4> QED BY <4>2, <1>2 DEF Live
    <3>5. g = "reader" /\ Now(g).what = "ok"
      BY <3>3, <3>4, NowOps DEF ReaderOp, CallerOp, WaiterOp, EndingOp, ItemOp, PermissionOp,
         TellingOp, Goroutine
    <3> QED BY <3>3, <3>5 DEF EndedOk, Busy
  <2> QED BY <2>1, <2>2
<1> QED
  BY <1>3, <1>4

\* A completion by the caller is announced after the end of the turn, of an item
\* whose start was told.
LEMMA CallerCompletes ==
  ASSUME TypeOK, Shapes, Stages, Once, Ordered, Live, todo["caller"] # <<>>,
         TellingOp(Now("caller"))
  PROVE  order = "ended" /\ Now("caller").item \in Item /\ told[Now("caller").item] = "open"
<1>1. pc = "completing" /\ done
  BY DEF Stages
<1>2. order = "ended"
  BY <1>1 DEF Ordered, EndedDone
<1>3. CallerOp(Now("caller"))
  <2>1. Len(todo["caller"]) \in Nat /\ Len(todo["caller"]) > 0
    BY HeadTyped DEF TypeOK, Goroutine
  <2>2. 1 \in 1..Len(todo["caller"])
    BY <2>1
  <2> QED BY <2>2 DEF Shapes, CallerShape, Now
<1> DEFINE i == Now("caller").item
<1>4. i \in Item /\ Says("caller", "completed", i)
  BY <1>3 DEF CallerOp, EndingOp, TellingOp, Says
<1>5. i \in completed /\ told[i] # "closed"
  BY <1>4 DEF Once, Completed, Owed
<1>6. i \in started /\ StartsTold
  BY <1>5 DEF Ordered, Following
<1>7. ~Says("reader", "started", i)
  BY <1>2, EndedReader DEF Ordered
<1> QED
  BY <1>2, <1>4, <1>5, <1>6, <1>7 DEF StartsTold

\* What the reader is about to announce is what the state of the item calls for.
LEMMA ReaderAnnounces ==
  ASSUME TypeOK, Shapes, Once, Ordered, Live, todo["reader"] # <<>>,
         TellingOp(Now("reader")), Now("reader").item \in Item
  PROVE  told[Now("reader").item] = IF Now("reader").what = "started" THEN "nothing" ELSE "open"
<1> DEFINE i == Now("reader").item
<1>0. Len(todo["reader"]) \in Nat /\ Len(todo["reader"]) > 0
  BY HeadTyped DEF TypeOK, Goroutine
<1>1. 1 \in 1..Len(todo["reader"])
  BY <1>0
<1>2. ReaderOp(Now("reader"))
  BY <1>1 DEF Shapes, ReaderShape, Now
<1>3. Now("reader").what \in {"started", "delta", "updated", "completed"}
  BY <1>2, SessionAssumption DEF ReaderOp, EndingOp, ItemOp, PermissionOp, TellingOp
<1>4. /\ StartsTold /\ completed \subseteq started /\ PendingOpen /\ Tame
      /\ told[i] # "twice" /\ Started(i) /\ Completed(i)
      /\ told[i] \in {"nothing", "open", "closed", "twice", "disordered"}
  BY DEF Ordered, Following, Once, TypeOK
<1>5. CASE Now("reader").what = "started"
  <2>1. Says("reader", "started", i)
    BY <1>5 DEF Says
  <2> QED BY <2>1, <1>4, <1>5 DEF Started, Tame
<1>6. CASE Now("reader").what \in {"delta", "updated"}
  <2>1. i \notin completed /\ i \in started
    BY <1>1, <1>4, <1>6 DEF PendingOpen, Pending, Now, TellingOp
  <2>2. ~Says("reader", "started", i)
    BY <1>6 DEF Says
  <2>3. told[i] \in {"open", "closed"}
    BY <2>1, <2>2, <1>4 DEF StartsTold
  <2> QED BY <2>1, <2>3, <1>4, <1>6 DEF Completed
<1>7. CASE Now("reader").what = "completed"
  <2>1. Says("reader", "completed", i) /\ ~Says("reader", "started", i)
    BY <1>7 DEF Says
  <2>2. i \in completed /\ told[i] # "closed"
    BY <2>1, <1>4 DEF Completed, Owed
  <2> QED BY <2>1, <2>2, <1>4, <1>7 DEF StartsTold
<1> QED
  BY <1>3, <1>5, <1>6, <1>7

\* What is told stays told.
LEMMA OperateTells ==
  ASSUME TypeOK, Shapes, Ordered, NEW g \in Goroutine, Operate(g)
  PROVE  /\ \A i \in Item : /\ told[i] \in {"open", "closed"} => told'[i] \in {"open", "closed"}
                            /\ told[i] = "closed" => told'[i] = "closed"
         /\ Tame'
         /\ told' # told => /\ CallSink(g) /\ Now(g).do = "sink" /\ g \in {"reader", "caller"}
                            /\ \A i \in Item : told'[i] # told[i] =>
                                 i = Now(g).item /\ Now(g).what \in {"started", "completed"}
<1>1. Tame /\ told \in [Item -> {"nothing", "open", "closed", "twice", "disordered"}]
  BY DEF Ordered, TypeOK
<1>2. CASE CallSink(g)
  <2>1. Now(g).do = "sink"
    BY <1>2, OperateIs
  <2>2. LET j == Now(g).item IN
         \/ told' = told
         \/ /\ g \in {"reader", "caller"} /\ j \in Item /\ Now(g).what = "started"
            /\ told[j] = "nothing" /\ told' = [told EXCEPT ![j] = "open"]
         \/ /\ g \in {"reader", "caller"} /\ j \in Item /\ Now(g).what \in {"delta", "updated"}
            /\ told[j] = "open" /\ told' = told
         \/ /\ g \in {"reader", "caller"} /\ j \in Item /\ Now(g).what = "completed"
            /\ told[j] = "open" /\ told' = [told EXCEPT ![j] = "closed"]
    BY <1>2, SinkTells DEF Ordered
  <2> DEFINE j == Now(g).item
  <2> HIDE DEF j
  <2>3. CASE told' = told
    BY <1>1, <2>3 DEF Tame
  <2>4. CASE /\ g \in {"reader", "caller"} /\ j \in Item /\ Now(g).what = "started"
             /\ told[j] = "nothing" /\ told' = [told EXCEPT ![j] = "open"]
    <3>1. \A i \in Item : told'[i] = IF i = j THEN "open" ELSE told[i]
      BY <1>1, <2>4
    <3> QED BY <1>1, <1>2, <2>1, <2>4, <3>1 DEF Tame, j
  <2>5. CASE /\ g \in {"reader", "caller"} /\ j \in Item /\ Now(g).what = "completed"
             /\ told[j] = "open" /\ told' = [told EXCEPT ![j] = "closed"]
    <3>1. \A i \in Item : told'[i] = IF i = j THEN "closed" ELSE told[i]
      BY <1>1, <2>5
    <3> QED BY <1>1, <1>2, <2>1, <2>5, <3>1 DEF Tame, j
  <2> QED BY <2>2, <2>3, <2>4, <2>5 DEF j
<1>3. CASE ~CallSink(g)
  BY <1>1, <1>3, OperateLeaves DEF Tame
<1> QED
  BY <1>2, <1>3

\* An announcement that passes the look at the turn is in order.
LEMMA OperateAtSink ==
  ASSUME TypeOK, Shapes, Stages, Once, Ordered, NEW g \in Goroutine, Operate(g)
  PROVE  CallerAtSink' /\ ReaderAtSink'
<1>1. order' = order
  BY OperateLeaves
<1>2. ASSUME todo'["caller"] # <<>>, Now("caller")'.do = "sink"
      PROVE  order = "ended" /\ told'[Now("caller")'.item] = "open"
  <2>1. CASE g = "caller"
    <3>1. Now(g).do = "deliver" /\ Now(g)'.item = Now(g).item /\ TellingOp(Now(g))
      BY <1>2, <2>1, NextNow DEF Follows, TellingOp
    <3>2. CheckTurn(g) /\ Busy(g) /\ todo[g] # <<>>
      BY <3>1, OperateIs
    <3>3. told' = told
      BY <3>1, OperateTells
    <3>4. Live
      <4>1. \/ Live
            \/ Lost(todo[g], todo'[g])
        BY <3>2, CheckForm DEF Live
      <4>2. Lost(todo[g], todo'[g]) => Live
        BY <1>2, <2>1, <3>1, <3>2, NextNow, CheckForm, HeadTyped DEF Turned, Lost, TypeOK, Live
      <4> QED BY <4>1, <4>2
    <3> QED BY <2>1, <3>1, <3>2, <3>3, <3>4, CallerCompletes
  <2>2. CASE g # "caller"
    <3>1. todo["caller"] = todo'["caller"] /\ Now("caller")' = Now("caller")
      BY <2>2, NextNow DEF Goroutine
    <3>2. order = "ended" /\ told[Now("caller").item] = "open"
      BY <1>2, <3>1 DEF Ordered, CallerAtSink
    <3>3. told' = told
      <4>1. g = "reader" => ~(Now(g).do = "sink")
        BY <3>2, OperateIs, EndedReader DEF Ordered, EndingOp
      <4> QED BY <2>2, <4>1, OperateTells
    <3> QED BY <3>1, <3>2, <3>3
  <2> QED BY <2>1, <2>2
<1>3. ASSUME todo'["reader"] # <<>>, Now("reader")'.do = "sink", Now("reader")'.item \in Item
      PROVE  told'[Now("reader")'.item] = IF Now("reader")'.what = "started" THEN "nothing" ELSE "open"
  <2>1. CASE g = "reader"
    <3>1. Now(g).do = "deliver" /\ Now(g)'.item = Now(g).item /\ Now(g)'.what = Now(g).what
          /\ TellingOp(Now(g))
      BY <1>3, <2>1, NextNow DEF Follows, TellingOp, LaterOp
    <3>2. CheckTurn(g) /\ Busy(g) /\ todo[g] # <<>>
      BY <3>1, OperateIs
    <3>3. told' = told
      BY <3>1, OperateTells
    <3>4. Live
      <4>1. \/ Live
            \/ Lost(todo[g], todo'[g])
        BY <3>2, CheckForm DEF Live
      <4>2. Lost(todo[g], todo'[g]) => Live
        BY <1>3, <2>1, <3>1, <3>2, NextNow, CheckForm, HeadTyped
           DEF Turned, Lost, TypeOK, Live, LaterOp
      <4> QED BY <4>1, <4>2
    <3> QED BY <1>3, <2>1, <3>1, <3>2, <3>3, <3>4, ReaderAnnounces
  <2>2. CASE g # "reader"
    <3>1. todo["reader"] = todo'["reader"] /\ Now("reader")' = Now("reader")
      BY <2>2, NextNow DEF Goroutine
    <3>2. told[Now("reader").item] = IF Now("reader").what = "started" THEN "nothing" ELSE "open"
      BY <1>3, <3>1 DEF Ordered, ReaderAtSink
    <3>3. told' = told
      <4>1. CASE g = "caller" /\ Now(g).do = "sink"
        <5>1. order = "ended"
          BY <4>1, OperateIs DEF Ordered, CallerAtSink
        <5>2. EndingOp(Now("reader"))
          BY <1>3, <3>1, <5>1, EndedReader DEF Ordered
        <5> QED BY <1>3, <3>1, <5>2 DEF EndingOp
      <4>2. CASE ~(g = "caller" /\ Now(g).do = "sink")
        BY <2>2, <4>2, OperateTells
      <4> QED BY <4>1, <4>2
    <3> QED BY <3>1, <3>2, <3>3
  <2> QED BY <2>1, <2>2
<1> QED
  BY <1>1, <1>2, <1>3 DEF CallerAtSink, ReaderAtSink

\* As long as events are delivered, what is about to be announced still is, or was.
LEMMA SaidOrTold ==
  ASSUME TypeOK, Shapes, Ordered, NEW g \in Goroutine, Operate(g), Live',
         NEW h \in {"reader", "caller"}, NEW what \in {"started", "completed"}, NEW i \in Item,
         Says(h, what, i)
  PROVE  \/ Says(h, what, i)'
         \/ told'[i] = IF what = "started" THEN "open" ELSE "closed"
<1>1. Live
  BY OperateMonotone
<1>2. CASE h # g
  BY <1>2, NextNow DEF Says, Goroutine
<1>3. CASE h = g
  <2>1. Busy(g) /\ Now(g).what = what /\ Now(g).item = i
    BY <1>3, OperateIs DEF Says
  <2>2. TellingOp(Now(g))
    BY <1>3, <2>1, NowOps DEF ReaderOp, CallerOp, EndingOp, ItemOp, PermissionOp
  <2>3. CASE Now(g).do = "deliver"
    <3>1. CheckTurn(g)
      BY <2>3, OperateIs
    <3>2. PICK o \in Operation :
            o.item = Now(g).item /\ o.what = Now(g).what /\ Turned(todo[g], o, todo'[g])
      BY <1>1, <2>1, <3>1, CheckForm DEF Live
    <3>3. Now(g)' = o
      BY <3>2 DEF Turned, Now
    <3>4. todo'[g] # <<>>
      <4>1. Len(todo[g]) \in Nat /\ Len(todo[g]) > 0
        BY <2>1, HeadTyped DEF Busy, TypeOK
      <4>2. Len(todo'[g]) > 0
        BY <3>2, <4>1 DEF Turned
      <4> QED BY <4>2
    <3> QED BY <1>3, <2>1, <3>2, <3>3, <3>4 DEF Says
  <2>4. CASE Now(g).do = "sink"
    <3>1. CallSink(g)
      BY <2>4, OperateIs
    <3>2. told' = [j \in Item |-> IF j = Now(g).item THEN Hear(told[j], Now(g).what) ELSE told[j]]
      <4>1. \/ told' = [j \in Item |-> IF j = Now(g).item THEN Hear(told[j], Now(g).what) ELSE told[j]]
            \/ err' <=> (err \/ turn = "set")
        BY <2>1, <3>1, SinkForm
      <4> QED BY <1>1, <4>1 DEF Live
    <3>3. told'[i] = Hear(told[i], what)
      BY <2>1, <3>2
    <3>4. told[i] = IF what = "started" THEN "nothing" ELSE "open"
      <4>1. CASE g = "reader"
        BY <2>1, <2>4, <4>1 DEF Ordered, ReaderAtSink, Busy
      <4>2. CASE g = "caller"
        <5>1. told[i] = "open"
          BY <2>1, <2>4, <4>2 DEF Ordered, CallerAtSink, Busy
        <5>2. what = "completed"
          BY <2>1, <2>2, <4>2, NowOps
        <5> QED BY <5>1, <5>2
      <4> QED BY <1>3, <4>1, <4>2
    <3> QED BY <3>3, <3>4 DEF Hear
  <2> QED BY <2>2, <2>3, <2>4 DEF TellingOp
<1> QED
  BY <1>2, <1>3

\* What is marked started is announced.
LEMMA OperateStartsTold ==
  ASSUME TypeOK, Shapes, Ordered, NEW g \in Goroutine, Operate(g), Live'
  PROVE  StartsTold'
<1>1. Live /\ StartsTold
  BY OperateMonotone DEF Ordered, Following
<1> SUFFICES ASSUME NEW i \in started'
             PROVE  Says("reader", "started", i)' \/ told'[i] \in {"open", "closed"}
  BY DEF StartsTold
<1>2. CASE i \in started
  <2>1. i \in Item
    BY <1>2 DEF TypeOK
  <2>2. CASE Says("reader", "started", i)
    BY <2>1, <2>2, SaidOrTold
  <2>3. CASE told[i] \in {"open", "closed"}
    BY <2>1, <2>3, OperateTells
  <2> QED BY <1>1, <1>2, <2>2, <2>3 DEF StartsTold
<1>3. CASE i \notin started
  <2>1. StartItem(g) /\ Busy(g) /\ todo[g] # <<>>
    BY <1>3, OperateLeaves, OperateIs
  <2>2. Now(g).do = "start" /\ g = "reader"
    BY <2>1, StartForm, NowOps
  <2>3. i = Now(g).item /\ Turned(todo[g], Deliver("started", Now(g).item), todo'[g])
    BY <1>3, <2>1, StartForm
  <2>4. Now(g)' = Deliver("started", i) /\ todo'[g] # <<>>
    <3>1. Len(todo[g]) \in Nat /\ Len(todo[g]) > 0
      BY <2>1, HeadTyped DEF TypeOK
    <3>2. Len(todo'[g]) > 0 /\ Now(g)' = Deliver("started", i)
      BY <2>3, <3>1 DEF Turned, Now
    <3> QED BY <3>2
  <2> QED BY <2>2, <2>4, OpFields DEF Says, Deliver
<1> QED
  BY <1>2, <1>3

\* What is marked completed is announced.
LEMMA OperateEndsTold ==
  ASSUME TypeOK, Shapes, Ordered, NEW g \in Goroutine, Operate(g), Live'
  PROVE  EndsTold'
<1>1. Live /\ EndsTold
  BY OperateMonotone DEF Ordered, Following
<1> SUFFICES ASSUME NEW i \in completed'
             PROVE  Owed(i)' \/ told'[i] = "closed"
  BY DEF EndsTold
<1>2. CASE i \in completed
  <2>1. i \in Item /\ leftover' = leftover
    BY <1>2, OperateLeaves DEF TypeOK
  <2>2. CASE Says("reader", "completed", i)
    BY <2>1, <2>2, SaidOrTold DEF Owed
  <2>3. CASE Says("caller", "completed", i)
    BY <2>1, <2>3, SaidOrTold DEF Owed
  <2>4. CASE told[i] = "closed"
    BY <2>1, <2>4, OperateTells
  <2> QED BY <1>1, <1>2, <2>1, <2>2, <2>3, <2>4 DEF EndsTold, Owed
<1>3. CASE i \notin completed
  <2>1. CompleteItem(g) /\ Busy(g) /\ todo[g] # <<>>
    BY <1>3, OperateLeaves, OperateIs
  <2>2. Now(g).do = "complete" /\ g = "reader"
    BY <2>1, CompleteForm, NowOps
  <2>3. i = Now(g).item /\ Turned(todo[g], Deliver("completed", Now(g).item), todo'[g])
    BY <1>3, <2>1, CompleteForm
  <2>4. Now(g)' = Deliver("completed", i) /\ todo'[g] # <<>>
    <3>1. Len(todo[g]) \in Nat /\ Len(todo[g]) > 0
      BY <2>1, HeadTyped DEF TypeOK
    <3>2. Len(todo'[g]) > 0 /\ Now(g)' = Deliver("completed", i)
      BY <2>3, <3>1 DEF Turned, Now
    <3> QED BY <3>2
  <2> QED BY <2>2, <2>4, OpFields DEF Says, Deliver, Owed
<1> QED
  BY <1>2, <1>3

\* Only items that are started, and not completed, are still to be written of.
LEMMA OperatePendingOpen ==
  ASSUME TypeOK, Shapes, Ordered, NEW g \in Goroutine, Operate(g), Live'
  PROVE  PendingOpen'
<1>1. Live /\ PendingOpen /\ turn = "set"
  BY OperateMonotone DEF Ordered, Following, Live
<1>2. Busy(g) /\ todo[g] # <<>> /\ Len(todo[g]) \in Nat /\ Len(todo[g]) > 0
  BY OperateIs, HeadTyped DEF TypeOK
<1>3. started \subseteq started'
  BY OperateMonotone
<1>4. CASE g # "reader"
  <2>1. todo'["reader"] = todo["reader"] /\ Now("reader")' = Now("reader")
    BY <1>4, NextNow DEF Goroutine
  <2>2. completed' = completed
    BY <1>2, <1>4, OperateLeaves, OperateIs, NowOps
  <2> QED BY <1>1, <1>3, <2>1, <2>2 DEF PendingOpen
<1>5. CASE g = "reader"
  <2> DEFINE q == todo["reader"]  r == todo'["reader"]
  <2>0. Len(r) \in Nat
    BY <1>5, OperateForms DEF Others
  <2>1. Now("reader").do = "start" => Now("reader").item \in started'
    <3>1. ASSUME Now("reader").do = "start" PROVE StartItem(g)
      BY <1>5, <3>1, OperateIs
    <3> QED BY <1>1, <1>2, <1>5, <3>1, StartForm
  <2>2. \A k \in 1..Len(q) : Pending(q[k]) => q[k].item \notin completed /\ q[k].item \in started'
    BY <1>1, <1>3, <2>1 DEF PendingOpen
  <2>3. ASSUME Now("reader").do = "complete"
        PROVE  \A k \in 2..Len(q) : ~Pending(q[k])
    <3> SUFFICES ASSUME NEW k \in 2..Len(q) PROVE ~Pending(q[k])
      OBVIOUS
    <3>1. 1 \in 1..Len(q) /\ k \in 1..Len(q) /\ 1 < k
      BY <1>2, <1>5
    <3>2. q[k].do \in {"final", "kill"} /\ ReaderOp(q[k])
      BY <2>3, <3>1 DEF Shapes, ReaderShape, Completes, Now
    <3> QED
      BY <3>2 DEF Pending, ReaderOp, EndingOp, ItemOp, PermissionOp, TellingOp
  <2>4. completed' = completed \/ Now("reader").do = "complete"
    BY <1>5, OperateLeaves, OperateIs
  <2>5. \A k \in 2..Len(q) : Pending(q[k]) => q[k].item \notin completed' /\ q[k].item \in started'
    BY <2>2, <2>3, <2>4
  <2>6. /\ \/ Lost(q, r)
           \/ \E o : Turned(q, o, r) /\ Follows(Now("reader"), o)
           \/ Doubled(q, Finish("failed"), Op("kill", NoItem, "none"), r)
    BY <1>5, OperateForms
  <2>7. Now("reader") = q[1] /\ ReaderOp(Now("reader"))
    BY <1>2, <1>5, NowOps DEF Now
  <2> HIDE DEF q, r
  <2> SUFFICES ASSUME NEW k \in 1..Len(r), Pending(r[k])
               PROVE  r[k].item \notin completed' /\ r[k].item \in started'
    BY DEF PendingOpen, r
  <2>8. CASE Lost(q, r)
    <3>1. k + 1 \in 2..Len(q) /\ r[k] = q[k + 1]
      BY <2>8 DEF Lost
    <3> QED BY <2>5, <3>1
  <2>9. ASSUME NEW o, Turned(q, o, r), Follows(Now("reader"), o)
        PROVE  r[k].item \notin completed' /\ r[k].item \in started'
    <3>1. CASE k = 1
      <4>1. r[k] = o
        BY <2>9, <3>1 DEF Turned
      <4>2. Pending(Now("reader")) /\ o.item = Now("reader").item /\ Now("reader").do # "complete"
        BY <2>7, <2>9, <4>1
           DEF Follows, Pending, ReaderOp, EndingOp, ItemOp, PermissionOp, TellingOp
      <4>3. 1 \in 1..Len(q)
        BY <1>2, <1>5 DEF q
      <4> QED BY <2>2, <2>4, <2>7, <4>1, <4>2, <4>3
    <3>2. CASE k \in 2..Len(r)
      BY <2>5, <2>9, <3>2 DEF Turned
    <3> QED BY <2>0, <3>1, <3>2 DEF r
  <2>10. CASE Doubled(q, Finish("failed"), Op("kill", NoItem, "none"), r)
    <3>1. ~Pending(Finish("failed")) /\ ~Pending(Op("kill", NoItem, "none"))
      BY OpFields DEF Pending, Finish
    <3>2. k \in 3..Len(r)
      <4>1. k # 1 /\ k # 2
        BY <2>10, <3>1 DEF Doubled
      <4> QED BY <2>0, <4>1 DEF r
    <3>3. k - 1 \in 2..Len(q) /\ r[k] = q[k - 1]
      BY <2>10, <3>2 DEF Doubled
    <3> QED BY <2>5, <3>3
  <2> QED BY <2>6, <2>8, <2>9, <2>10 DEF q, r
<1> QED
  BY <1>4, <1>5

\* No operation spoils the order.
LEMMA OperateOrdered ==
  ASSUME TypeOK, Shapes, Shapes', Stages, Once, Ordered, NEW g \in Goroutine, Operate(g)
  PROVE  Ordered'
<1>1. Tame' /\ CallerAtSink' /\ ReaderAtSink'
  BY OperateTells, OperateAtSink
<1>2. EndedRest' /\ EndedOk' /\ EndedDone'
  BY OperateEndedRest, OperateEndedOk, OperateEndedDone DEF Ordered
<1>3. ASSUME Live' PROVE completed' \subseteq started'
  <2>1. Live /\ completed \subseteq started /\ PendingOpen /\ started \subseteq started'
    BY <1>3, OperateMonotone DEF Ordered, Following
  <2>2. CASE completed' = completed
    BY <2>1, <2>2
  <2>3. CASE CompleteItem(g)
    <3>1. Busy(g) /\ Now(g).do = "complete" /\ g = "reader"
      BY <2>3, OperateIs, NowOps
    <3>2. completed' \subseteq completed \cup {Now(g).item}
      BY <2>3, <3>1, CompleteForm
    <3>3. Len(todo["reader"]) \in Nat /\ Len(todo["reader"]) > 0
      BY <3>1, HeadTyped DEF TypeOK, Busy
    <3>4. 1 \in 1..Len(todo["reader"])
      BY <3>3
    <3>5. Now("reader").item \in started
      BY <2>1, <3>1, <3>4 DEF PendingOpen, Pending, Now
    <3> QED BY <2>1, <3>1, <3>2, <3>5
  <2> QED BY <2>2, <2>3, OperateLeaves
<1>4. ASSUME Live', pc' = "completing" PROVE started' \subseteq completed'
  <2>1. Live /\ pc = "completing" /\ completed \subseteq completed'
    BY <1>4, OperateMonotone, OperateLeaves
  <2>2. started \subseteq completed /\ order = "ended"
    BY <2>1 DEF Ordered, Following, Stages, EndedDone
  <2>3. ~StartItem(g)
    <3>1. ASSUME StartItem(g) PROVE FALSE
      <4>1. Busy(g) /\ todo[g] # <<>> /\ Now(g).do = "start" /\ g = "reader"
        BY <3>1, OperateIs, NowOps
      <4>2. EndingOp(Now(g))
        BY <2>2, <4>1, EndedReader DEF Ordered
      <4> QED BY <4>1, <4>2 DEF EndingOp
    <3> QED BY <3>1
  <2> QED BY <2>1, <2>2, <2>3, OperateLeaves
<1>5. Following'
  BY <1>3, <1>4, OperateStartsTold, OperateEndsTold, OperatePendingOpen DEF Following
<1>6. Settled'
  <2> SUFFICES ASSUME result' = "completed" PROVE order' = "ended" /\ \A i \in Item : told'[i] # "open"
    BY DEF Settled
  <2>1. result = "completed" /\ turn = "cleared" /\ order = "ended" /\ order' = order
    BY OperateLeaves DEF Stages, Ordered, Settled
  <2>2. \A i \in Item : told[i] # "open"
    BY <2>1 DEF Ordered, Settled
  <2>3. told' = told
    <3>1. ASSUME Now(g).do = "sink", g \in {"reader", "caller"} PROVE FALSE
      <4>1. todo[g] # <<>>
        BY OperateIs
      <4>2. g # "reader"
        BY <2>1, <3>1, <4>1, EndedReader DEF Ordered, EndingOp
      <4>3. pc = "completing"
        BY <3>1, <4>1, <4>2 DEF Stages, TellingOp
      <4> QED BY <2>1, <4>3 DEF Stages
    <3> QED BY <3>1, OperateTells
  <2> QED BY <2>1, <2>2, <2>3
<1> QED
  BY <1>1, <1>2, <1>5, <1>6 DEF Ordered

\* The order is not touched by what leaves the reader and the caller alone.
LEMMA OthersOrdered ==
  ASSUME Ordered,
         UNCHANGED <<pc, result, leftover, turn, started, completed, err, done, told, order>>,
         todo'["reader"] = todo["reader"], todo'["caller"] = todo["caller"],
         Closes("waiter")' => Closes("waiter")
  PROVE  Ordered'
<1>1. /\ Now("reader")' = Now("reader") /\ Now("caller")' = Now("caller")
      /\ Live' <=> Live
  BY DEF Now, Live
<1>2. EndedDone'
  <2>1. ASSUME NEW g \in Goroutine, Closes(g)' PROVE Closes(g)
    BY <1>1, <2>1 DEF Closes, Goroutine
  <2> QED BY <1>1, <2>1 DEF Ordered, EndedDone
<1>3. EndedRest' /\ EndedOk' /\ CallerAtSink' /\ ReaderAtSink' /\ Tame' /\ Settled'
  BY <1>1 DEF Ordered, EndedRest, EndedOk, CallerAtSink, ReaderAtSink, Tame, Settled
<1>4. StartsTold' <=> StartsTold
  BY <1>1 DEF StartsTold, Says
<1>5. EndsTold' <=> EndsTold
  BY <1>1 DEF EndsTold, Owed, Says
<1>6. PendingOpen' <=> PendingOpen
  BY <1>1 DEF PendingOpen
<1>7. Following'
  BY <1>1, <1>4, <1>5, <1>6 DEF Ordered, Following
<1> QED
  BY <1>2, <1>3, <1>7 DEF Ordered

\* Nor by what the reader reads, as long as the app-server keeps to its order.
LEMMA ReaderOrdered ==
  ASSUME TypeOK, Ordered, todo["reader"] = <<>>, Others("reader"),
         UNCHANGED <<pc, result, leftover, turn, started, completed, err, done, told>>,
         order' = order \/ order' = "ended",
         todo'["reader"] # <<>>, Now("reader")'.do \notin {"sink", "close"},
         EndedRest', EndedOk', PendingOpen'
  PROVE  Ordered'
<1>1. /\ todo'["caller"] = todo["caller"] /\ Now("caller")' = Now("caller")
      /\ todo'["waiter"] = todo["waiter"] /\ Now("waiter")' = Now("waiter")
      /\ Live' <=> Live
  BY DEF Now, Live, Others, Goroutine
<1>2. order = "ended" => order' = "ended"
  OBVIOUS
<1>3. EndedDone'
  <2>1. ASSUME NEW g \in Goroutine, Closes(g)' PROVE Closes(g)
    BY <1>1, <2>1 DEF Closes, Goroutine
  <2> QED BY <1>1, <1>2, <2>1 DEF Ordered, EndedDone
<1>4. CallerAtSink' /\ ReaderAtSink' /\ Tame' /\ Settled'
  BY <1>1, <1>2 DEF Ordered, CallerAtSink, ReaderAtSink, Tame, Settled
<1>5. StartsTold => StartsTold'
  BY DEF StartsTold, Says
<1>6. EndsTold => EndsTold'
  BY <1>1 DEF EndsTold, Owed, Says
<1>7. Following'
  BY <1>1, <1>5, <1>6 DEF Ordered, Following
<1> QED
  BY <1>3, <1>4, <1>7 DEF Ordered

\* Every reading.
LEMMA ReadOrdered ==
  ASSUME TypeOK, Ordered, order # "stray", order' # "stray", Read \/ ReadEnd
  PROVE  Ordered'
<1>1. UNCHANGED <<pc, result, leftover, turn, started, completed, err, done, told>>
  BY ReadLeaves DEF session, items, verdict, heard
<1> DEFINE q == todo'["reader"]
<1>2. CASE todo' = todo /\ order' = order
  <2>1. Closes("waiter")' => Closes("waiter")
    BY <1>2 DEF Closes, Now
  <2> QED BY <1>1, <1>2, <2>1, OthersOrdered
<1>3. ASSUME NEW i \in Item, LineRead(i) PROVE Ordered'
  <2>1. /\ todo["reader"] = <<>> /\ Others("reader") /\ LineOps(q, i)
        /\ order' = "open" /\ order = "open" /\ i \notin completed
    BY <1>3 DEF LineRead
  <2>2. Len(q) \in Nat
    BY <2>1 DEF Others, Goroutine
  <2> HIDE DEF q
  <2>3. \A k \in 1..Len(q) : LineOp(q[k], i)
    BY <2>1 DEF LineOps
  <2>4. PendingOpen'
    <3> SUFFICES ASSUME NEW k \in 1..Len(q), Pending(q[k])
                 PROVE  /\ q[k].item \notin completed'
                        /\ \/ q[k].item \in started'
                           \/ k > 1 /\ q[1].do = "start" /\ q[1].item = q[k].item
      BY DEF PendingOpen, Now, q
    <3>1. q[k].item = i /\ q[k].do # "start"
      BY <2>3 DEF LineOp, Pending
    <3>2. 1 \in 1..Len(q)
      BY <2>2
    <3>3. q[1].item = i
      BY <2>3, <3>2 DEF LineOp
    <3>4. i \in started \/ q[1].do = "start"
      BY <2>1 DEF LineOps
    <3>5. k # 1 => k > 1
      BY <2>2
    <3> QED BY <1>1, <2>1, <3>1, <3>3, <3>4, <3>5
  <2>5. CASE q = <<>>
    <3>1. todo' = todo
      BY <2>1, <2>5 DEF Others, TypeOK, q
    <3>2. Closes("waiter")' => Closes("waiter")
      BY <3>1 DEF Closes, Now
    <3> QED BY <1>1, <2>1, <3>1, <3>2, OthersOrdered
  <2>6. CASE q # <<>>
    <3>1. Len(q) > 0
      BY <2>1, <2>6 DEF Others, Goroutine, q
    <3>2. LineOp(Now("reader")', i)
      BY <2>2, <2>3, <3>1 DEF Now, q
    <3>3. EndedRest' /\ EndedOk'
      BY <2>1, <3>2 DEF EndedRest, EndedOk, LineOp
    <3> QED BY <1>1, <2>1, <2>4, <2>6, <3>2, <3>3, ReaderOrdered DEF LineOp, q
  <2> QED BY <2>5, <2>6
<1>4. CASE PermissionRead
  <2>1. /\ todo["reader"] = <<>> /\ Others("reader") /\ Len(q) = 2
        /\ \A k \in 1..2 : PermissionOp(q[k]) /\ q[k].do = "deliver"
        /\ order' = "open" /\ order = "open"
    BY <1>4 DEF PermissionRead
  <2>2. Now("reader")' = q[1]
    BY DEF Now
  <2> HIDE DEF q
  <2>3. EndedRest' /\ EndedOk'
    BY <2>1, <2>2 DEF EndedRest, EndedOk, PermissionOp
  <2>4. PendingOpen'
    BY <2>1 DEF PendingOpen, Pending, PermissionOp, q
  <2>5. q # <<>>
    BY <2>1
  <2> QED BY <1>1, <2>1, <2>2, <2>3, <2>4, <2>5, ReaderOrdered DEF q
<1>5. ASSUME NEW o, One("reader", o), EndingOp(o), o.do # "close", ~Pending(o),
             order' = order \/ order' = "ended", o.what = "ok" => order' = "ended"
      PROVE  Ordered'
  <2>1. todo["reader"] = <<>> /\ Others("reader") /\ Len(q) = 1 /\ q[1] = o
    BY <1>5 DEF One
  <2>2. Now("reader")' = o
    BY <2>1 DEF Now
  <2> HIDE DEF q
  <2>3. EndedRest' /\ EndedOk'
    BY <1>5, <2>1, <2>2 DEF EndedRest, EndedOk, q
  <2>4. PendingOpen'
    BY <1>5, <2>1 DEF PendingOpen, q
  <2>5. q # <<>>
    BY <2>1
  <2>6. o.do \notin {"sink", "close"}
    BY <1>5 DEF EndingOp
  <2> QED BY <1>1, <1>5, <2>1, <2>2, <2>3, <2>4, <2>5, <2>6, ReaderOrdered DEF q
<1>6. CASE TurnEndRead
  <2>1. PICK outcome \in {"ok", "failed"} : One("reader", Finish(outcome))
    BY <1>6 DEF TurnEndRead
  <2>2. order' = "ended"
    BY <1>6 DEF TurnEndRead, TypeOK
  <2>3. EndingOp(Finish(outcome)) /\ Finish(outcome).do # "close" /\ ~Pending(Finish(outcome))
    BY OpFields DEF Finish, EndingOp, Pending
  <2> QED BY <1>5, <2>1, <2>2, <2>3
<1>7. CASE PipeEndRead
  <2>1. One("reader", CloseProcess) /\ order' = order
    BY <1>7 DEF PipeEndRead
  <2>2. /\ EndingOp(CloseProcess) /\ CloseProcess.do # "close" /\ ~Pending(CloseProcess)
        /\ CloseProcess.what # "ok"
    BY OpFields DEF CloseProcess, EndingOp, Pending
  <2> QED BY <1>5, <2>1, <2>2
<1> QED
  BY <1>2, <1>3, <1>4, <1>6, <1>7, ReadForms

\* Every step of the caller.
LEMMA CallOrdered ==
  ASSUME TypeOK, Shapes, Stages, Once, Ordered, Call
  PROVE  Ordered'
<1>1. todo["caller"] = <<>> /\ todo \in [Goroutine -> Seq(Operation)]
  BY DEF Call, Idle, TypeOK
<1>2. UNCHANGED <<started, err, done, told, order>>
  BY CallLeaves DEF verdict, heard
<1>3. /\ todo'["reader"] = todo["reader"] /\ todo'["waiter"] = todo["waiter"]
      /\ Now("reader")' = Now("reader") /\ Now("waiter")' = Now("waiter")
      /\ todo'["caller"] # <<>> => Now("caller")'.do \notin {"sink", "close"}
  <2>1. CASE todo' = todo
    BY <1>1, <2>1 DEF Now
  <2>2. ASSUME NEW o \in Operation, One("caller", o), CallerBegins(o)
        PROVE  /\ todo'["reader"] = todo["reader"] /\ todo'["waiter"] = todo["waiter"]
               /\ Now("caller")' = o /\ o.do \notin {"sink", "close"}
    BY <2>2 DEF One, Others, Now, CallerBegins, Goroutine
  <2> QED BY <2>1, <2>2, CallForms DEF Now
<1>4. EndedRest' /\ EndedOk' /\ CallerAtSink' /\ ReaderAtSink' /\ Tame'
  BY <1>2, <1>3 DEF Ordered, EndedRest, EndedOk, CallerAtSink, ReaderAtSink, Tame
<1>5. ASSUME NEW g \in Goroutine, Closes(g)' PROVE Closes(g)
  BY <1>3, <1>5 DEF Closes, Goroutine
<1>6. StartsTold' <=> StartsTold
  BY <1>2, <1>3 DEF StartsTold, Says
<1>7. \A i : ~Says("caller", "completed", i)
  BY <1>1 DEF Says
<1>8. CASE BeginTurn
  <2>1. /\ Unbegun /\ pc' = "sending" /\ result' = result /\ completed' = completed
        /\ todo' = todo
    BY <1>8 DEF BeginTurn, Stages, items
  <2>2. EndedDone'
    <3>1. \A g \in Goroutine : ~Closes(g)
      <4> SUFFICES ASSUME NEW g \in Goroutine, todo[g] # <<>> PROVE Now(g).do # "close"
        BY DEF Closes
      <4>1. Len(todo[g]) \in Nat /\ Len(todo[g]) > 0
        BY <1>1, HeadTyped
      <4> QED BY <2>1, <4>1 DEF Unbegun, Quietly, Now
    <3>2. ~done'
      BY <1>2, <2>1 DEF Unbegun
    <3> QED BY <1>5, <3>1, <3>2 DEF EndedDone
  <2>3. StartsTold' /\ EndsTold' /\ completed' \subseteq started'
    BY <1>2, <2>1 DEF StartsTold, EndsTold, Unbegun
  <2>4. PendingOpen'
    <3>1. \A k \in 1..Len(todo["reader"]) : ReaderOp(todo["reader"][k])
      BY DEF Shapes, ReaderShape
    <3>2. \A k \in 1..Len(todo["reader"]) : todo["reader"][k].do \in {"closeProcess", "kill"}
      BY <2>1 DEF Unbegun, Quietly, Goroutine
    <3>3. \A k \in 1..Len(todo["reader"]) : ~Pending(todo["reader"][k])
      BY <3>1, <3>2 DEF Pending, ReaderOp, EndingOp, ItemOp, PermissionOp, TellingOp
    <3> QED BY <1>3, <3>3 DEF PendingOpen
  <2>5. Settled'
    BY <1>2, <2>1 DEF Ordered, Settled
  <2> QED BY <1>4, <2>1, <2>2, <2>3, <2>4, <2>5 DEF Ordered, Following
<1>9. CASE TurnReturns
  <2>1. /\ pc = "completing" /\ leftover = {} /\ turn' = "cleared"
        /\ result' = "completed" => final /\ ~err
    BY <1>9 DEF TurnReturns
  <2>2. ~Live'
    BY <2>1 DEF Live
  <2>3. ASSUME result' = "completed" PROVE order = "ended" /\ \A i \in Item : told[i] # "open"
    <3>1. Live /\ done
      BY <2>1, <2>3 DEF Live, Stages
    <3>2. /\ order = "ended" /\ EndsTold /\ started \subseteq completed
      BY <2>1, <3>1 DEF Ordered, EndedDone, Following
    <3>3. ASSUME NEW i \in Item, told[i] = "open" PROVE FALSE
      <4>1. i \in completed
        BY <3>2, <3>3 DEF Once, Started
      <4>2. Owed(i)
        BY <3>2, <3>3, <4>1 DEF EndsTold
      <4>3. ~Says("reader", "completed", i)
        BY <3>2, EndedReader DEF Ordered
      <4> QED BY <1>7, <2>1, <4>2, <4>3 DEF Owed
    <3> QED BY <3>2, <3>3
  <2>4. Settled' /\ EndedDone' /\ Following'
    BY <1>2, <2>2, <2>3 DEF Settled, EndedDone, Following
  <2> QED BY <1>4, <2>4 DEF Ordered
<1>10. CASE TurnDone
  <2>1. /\ pc = "selecting" /\ done /\ pc' = "completing" /\ leftover' = started \ completed
        /\ completed' = completed \cup started /\ turn' = turn /\ result' = result
    BY <1>10 DEF TurnDone, session
  <2>2. Live' <=> Live
    BY <1>2, <2>1 DEF Live
  <2>3. EndedDone' /\ Settled'
    BY <1>2, <1>5, <2>1, <2>2 DEF Ordered, EndedDone, Settled
  <2>4. ASSUME Live PROVE StartsTold' /\ EndsTold' /\ completed' \subseteq started' /\ PendingOpen'
    <3>1. StartsTold /\ EndsTold /\ completed \subseteq started /\ order = "ended"
      BY <2>1, <2>4 DEF Ordered, Following, EndedDone
    <3>2. PendingOpen'
      <4>1. \A k \in 1..Len(todo["reader"]) : ~Pending(todo["reader"][k])
        BY <3>1 DEF Ordered, EndedRest, EndingOp, Pending
      <4> QED BY <1>3, <4>1 DEF PendingOpen
    <3>3. ASSUME NEW i \in completed' PROVE Owed(i)' \/ told'[i] = "closed"
      <4>1. CASE i \in completed
        <5>1. leftover = {}
          BY <2>1 DEF Stages
        <5>2. Says("reader", "completed", i) \/ told[i] = "closed"
          BY <1>7, <3>1, <4>1, <5>1 DEF EndsTold, Owed
        <5> QED BY <1>2, <1>3, <5>2 DEF Owed, Says
      <4>2. CASE i \notin completed
        BY <2>1, <3>3, <4>2 DEF Owed
      <4> QED BY <4>1, <4>2
    <3>4. EndsTold'
      BY <3>3 DEF EndsTold
    <3> QED BY <1>2, <1>6, <2>1, <3>1, <3>2, <3>4
  <2>5. Following'
    BY <1>2, <2>1, <2>2, <2>4 DEF Following
  <2> QED BY <1>4, <2>3, <2>5 DEF Ordered
<1>11. CASE ~BeginTurn /\ ~TurnReturns /\ ~TurnDone
  <2>1. /\ UNCHANGED <<turn, completed>>
        /\ result' = "completed" => result = "completed"
        /\ pc' = "completing" => pc = "completing"
    BY <1>11 DEF Call, SendRequest, SendFails, RequestGivenUp, RequestFails, Answered, TurnRefused,
       CompleteLeftover, TurnCanceled, CanceledTurnReturns, Close, CloseReturns, items, session
  <2>2. Live' <=> Live
    BY <1>2, <2>1 DEF Live
  <2>3. EndedDone' /\ Settled'
    BY <1>2, <1>5, <2>1, <2>2 DEF Ordered, EndedDone, Settled
  <2>4. PendingOpen' <=> PendingOpen
    BY <1>2, <1>3, <2>1 DEF PendingOpen
  <2>5. ASSUME NEW i, Owed(i) PROVE Owed(i)'
    <3>1. CASE Says("reader", "completed", i)
      BY <1>3, <3>1 DEF Says, Owed
    <3>2. CASE i \in leftover
      <4>1. CASE CompleteLeftover
        <5>1. PICK j \in leftover : leftover' = leftover \ {j} /\ Start("caller", <<Deliver("completed", j)>>)
          BY <4>1 DEF CompleteLeftover
        <5>2. Deliver("completed", j) \in Operation /\ Deliver("completed", j).what = "completed"
              /\ Deliver("completed", j).item = j
          BY <5>1, OpsTyped, OpFields DEF TypeOK, Deliver
        <5>3. One("caller", Deliver("completed", j))
          BY <1>1, <5>1, <5>2, StartOne DEF Call, Goroutine
        <5>4. Says("caller", "completed", j)'
          BY <5>2, <5>3 DEF One, Says, Now
        <5> QED BY <3>2, <5>1, <5>4 DEF Owed
      <4>2. CASE ~CompleteLeftover
        <5>1. leftover' = leftover
          BY <1>11, <4>2 DEF Call, SendRequest, SendFails, RequestGivenUp, RequestFails, Answered,
             TurnRefused, TurnCanceled, CanceledTurnReturns, Close, CloseReturns
        <5> QED BY <3>2, <5>1 DEF Owed
      <4> QED BY <4>1, <4>2
    <3> QED BY <1>7, <2>5, <3>1, <3>2 DEF Owed
  <2>6. EndsTold => EndsTold'
    BY <1>2, <2>1, <2>5 DEF EndsTold
  <2>7. Following'
    BY <1>2, <1>6, <2>1, <2>2, <2>4, <2>6 DEF Ordered, Following
  <2> QED BY <1>4, <2>3, <2>7 DEF Ordered
<1> QED
  BY <1>8, <1>9, <1>10, <1>11

\* The order is kept as long as the app-server keeps to its own.
LEMMA OrderedKept ==
  ASSUME TypeOK, Shapes, Shapes', Stages, Once, order # "stray" => Ordered, [Next]_vars
  PROVE  order' # "stray" => Ordered'
<1> SUFFICES ASSUME order' # "stray" PROVE Ordered'
  OBVIOUS
<1>1. ASSUME order' = order PROVE Ordered
  BY <1>1
<1>2. ASSUME NEW g \in Goroutine, Operate(g) PROVE Ordered'
  <2>1. order' = order
    BY <1>2, OperateLeaves
  <2> QED BY <1>1, <1>2, <2>1, OperateOrdered
<1>3. CASE Call
  BY <1>1, <1>3, CallLeaves, CallOrdered
<1>4. CASE Read \/ ReadEnd
  <2>1. order # "stray"
    <3>1. order = "stray" => order' = "stray"
      BY <1>4, ReadForms DEF LineRead, PermissionRead, TurnEndRead, PipeEndRead
    <3> QED BY <3>1
  <2> QED BY <1>4, <2>1, ReadOrdered
<1>5. CASE Wait
  <2>1. UNCHANGED <<pc, result, leftover, turn, started, completed, err, done, told, order>>
    BY <1>5, WaitLeaves DEF session, items, verdict, heard, input
  <2>2. /\ todo'["reader"] = todo["reader"] /\ todo'["caller"] = todo["caller"]
        /\ Closes("waiter")' => Closes("waiter")
    <3>1. CASE todo' = todo
      BY <3>1 DEF Closes, Now
    <3>2. CASE One("waiter", Finish("failed"))
      <4>1. Now("waiter")'.do = "finish"
        BY <3>2, OpFields DEF One, Now, Finish
      <4> QED BY <3>2, <4>1 DEF One, Others, Goroutine, Closes
    <3> QED BY <1>5, <3>1, <3>2, WaitForms
  <2> QED BY <1>1, <2>1, <2>2, OthersOrdered
<1>6. CASE ProcessExits \/ ContextDone \/ UNCHANGED vars
  <2>1. UNCHANGED <<pc, result, leftover, turn, started, completed, err, done, told, order, todo>>
    BY <1>6, OthersLeave DEF vars, caller, session, items, verdict, heard, input
  <2>2. Closes("waiter")' => Closes("waiter")
    BY <2>1 DEF Closes, Now
  <2> QED BY <1>1, <2>1, <2>2, OthersOrdered
<1> QED
  BY <1>2, <1>3, <1>4, <1>5, <1>6 DEF Next

-----------------------------------------------------------------------------
\* Nothing is wrong at the start.
LEMMA InitOk == Init => IInv
<1> SUFFICES ASSUME Init PROVE IInv
  OBVIOUS
<1>1. \A g \in Goroutine : todo[g] = <<>>
  BY DEF Init
<1>2. todo["reader"] = <<>> /\ todo["caller"] = <<>> /\ todo["waiter"] = <<>>
  BY <1>1 DEF Goroutine
<1>3. TypeOK
  <2>1. <<>> \in Seq(Operation)
    OBVIOUS
  <2>2. todo \in [Goroutine -> Seq(Operation)]
    <3> DEFINE e == <<>>
    <3>1. e \in Seq(Operation) /\ todo = [g \in Goroutine |-> e]
      BY <2>1 DEF Init
    <3> HIDE DEF e
    <3> QED BY <3>1
  <2>3. /\ told \in [Item -> {"nothing", "open", "closed", "twice", "disordered"}]
        /\ lines \in 0..MaxLines
    BY SessionAssumption DEF Init
  <2> QED BY <2>2, <2>3 DEF Init, TypeOK
<1>4. Shapes
  <2>1. \A k, l : k \notin 1..Len(<<>>)
    OBVIOUS
  <2> QED BY <1>2, <2>1 DEF Shapes, ReaderShape, CallerShape, WaiterShape
<1>5. Stages
  BY <1>1, <1>2 DEF Init, Stages, Unbegun, Quietly
<1>6. Once
  BY <1>2 DEF Init, Once, Started, Completed, Owed, Says
<1>7. Ordered
  BY <1>1, <1>2 DEF Init, Ordered, Tame, EndedRest, EndedOk, EndedDone, Live, Closes, CallerAtSink,
     ReaderAtSink, Following, Settled
<1> QED
  BY <1>3, <1>4, <1>5, <1>6, <1>7 DEF IInv

\* The invariant is inductive.
LEMMA IInvInvariant == Spec => []IInv
<1>1. IInv /\ [Next]_vars => IInv'
  <2> SUFFICES ASSUME IInv, [Next]_vars PROVE IInv'
    OBVIOUS
  <2>1. TypeOK /\ Shapes /\ Stages /\ Once /\ (order # "stray" => Ordered)
    BY DEF IInv
  <2>2. TypeOK' /\ Shapes' /\ Stages'
    BY <2>1, TypesKept, ShapesKept, StagesKept
  <2>3. Once' /\ (order' # "stray" => Ordered')
    BY <2>1, <2>2, OnceKept, OrderedKept
  <2> QED BY <2>2, <2>3 DEF IInv
<1> QED
  BY <1>1, InitOk, PTL DEF Spec

\* Every variable of a session keeps its type.
THEOREM TypeCorrect == Spec => []TypeOK
<1>1. IInv => TypeOK
  BY DEF IInv
<1> QED
  BY <1>1, IInvInvariant, PTL

\* An item is started at most once and completed at most once, whichever goroutine
\* announces it, and nothing is told of it outside, unless the app-server itself
\* writes of items it completed or after it ended the turn.
THEOREM ItemsInOrder == Spec => []ItemsToldInOrder
<1>1. IInv => ItemsToldInOrder
  BY DEF IInv, Once, Ordered, Tame, ItemsToldInOrder
<1> QED
  BY <1>1, IInvInvariant, PTL

\* When Turn reports success, every item the sink was told of is completed.
THEOREM SuccessCompletes == Spec => []SuccessCompletesItems
<1>1. IInv => SuccessCompletesItems
  BY DEF IInv, Ordered, Settled, SuccessCompletesItems
<1> QED
  BY <1>1, IInvInvariant, PTL
=============================================================================
