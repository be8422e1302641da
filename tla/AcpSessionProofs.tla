-------------------------- MODULE AcpSessionProofs --------------------------
(***************************************************************************)
(* Theorems of AcpSession, for any number of notifications, any length of  *)
(* a message and either sink.                                              *)
(*                                                                         *)
(* Shapes says what each goroutine can have left to deliver, and Stages    *)
(* where the caller is.  On them rest the order in which the run stream    *)
(* hears of an item (Ordered, and Settled: who still owes its completion)  *)
(* and the text of a reply (Texts: whatever the service stored, the        *)
(* message is the beginning of what the agent said).                       *)
(***************************************************************************)
EXTENDS AcpSession, TLAPS

Chunks == {"message", "thought"}
Parts == Chunks \cup {"tool"}

Now(g) == todo[g][1]
Then(g) == todo[g][2]

\* What is left of a notification.
ReaderShape ==
  /\ Len(todo["reader"]) \in 0..2
  /\ Len(todo["reader"]) = 1 =>
       \/ Now("reader").item \in Chunks /\ Now("reader").what = "delta"
       \/ Now("reader").item = "tool" /\ Now("reader").what # "delta"
  /\ Len(todo["reader"]) = 2 =>
       /\ Then("reader").item = Now("reader").item /\ Then("reader").do = "check"
       /\ \/ /\ Now("reader").item \in Chunks
             /\ Now("reader").what = "started" /\ Then("reader").what = "delta"
          \/ /\ Now("reader").item = "tool"
             /\ Now("reader").what = "updated" /\ Then("reader").what = "completed"
  /\ ~Idle("reader") => Now("reader").item \in started /\ turn # "none"

\* The reader has still to say that the tool call is complete.
ReaderCompletes ==
  \/ Len(todo["reader"]) = 1 /\ Now("reader").what = "completed"
  \/ Len(todo["reader"]) = 2 /\ Then("reader").what = "completed"

AskerShape ==
  /\ Len(todo["asker"]) \in 0..2
  /\ ~Idle("asker") => Now("asker").item = "permission" /\ turn # "none"
  /\ Len(todo["asker"]) = 1 => Now("asker").what = "completed"
  /\ Len(todo["asker"]) = 2 =>
       /\ Now("asker").what = "started"
       /\ Then("asker").item = "permission" /\ Then("asker").what = "completed"
       /\ Then("asker").do = "check"

CallerShape ==
  /\ Len(todo["caller"]) \in 0..1
  /\ ~Idle("caller") =>
       /\ pc = "completing" /\ Now("caller").what = "completed"
       /\ Now("caller").item \in started \cap completed
       /\ Now("caller").item \notin leftover

Shapes == ReaderShape /\ AskerShape /\ CallerShape /\ (ReaderCompletes => "tool" \in completed)

Stages ==
  /\ turn = "set" <=> pc \in {"prompt", "completing"}
  /\ turn = "cleared" => pc \in {"returned", "closing", "closed"}
  /\ turn = "none" => answer = "none" /\ started = {}
  /\ pc \in {"starting", "ready"} => turn = "none"
  /\ turn # "none" /\ pc # "prompt" => answer # "none"
  /\ pc = "prompt" => answer # "lost" /\ completed \subseteq {"tool"}
  /\ pc # "completing" => leftover = {}
  /\ leftover \subseteq started \cap completed
  /\ started \subseteq Parts /\ completed \subseteq started
  /\ "tool" \in tools <=> "tool" \in started
  /\ err => refused
  /\ \A g \in Goroutine : ~Idle(g) /\ Now(g).do = "fail" => refused

\* The agent keeps to the protocol, and its answer came.
Orderly == ~stray /\ answer # "lost"

\* What may be said of an item that is none, open, closed.
Expects(past, what) == IF what = "started" THEN past = "nothing" ELSE past = "open"

\* An item's completion is not yet under way.
Unclosed(i) == i \notin completed \/ i \in leftover

Ordered ==
  /\ answer # "none" => Idle("reader") /\ Idle("asker")
  /\ turn # "none" /\ pc # "prompt" => started \subseteq completed
  /\ \A i \in Item : told[i] # "wrong"
  /\ sink = "reply" => \A i \in Item : told[i] = "nothing"
  /\ sink = "run" => \A g \in Goroutine : ~Idle(g) =>
       /\ Now(g).do = "sink" => Expects(told[Now(g).item], Now(g).what)
       /\ Now(g).do = "check" /\ ~err => Expects(told[Now(g).item], Now(g).what)
  /\ sink = "run" => \A i \in Parts :
       /\ i \notin started => told[i] = "nothing"
       /\ /\ i \in started /\ Unclosed(i) /\ ~err
          /\ Idle("reader") \/ Now("reader").item # i
          => told[i] = "open"

\* Somebody still has to say that the item is complete.
Owed(i) ==
  \/ i \in Parts /\ Unclosed(i)
  \/ i = "tool" /\ ReaderCompletes
  \/ ~Idle("caller") /\ Now("caller").item = i
  \/ i = "permission" /\ ~Idle("asker")

Settled ==
  /\ ~refused => \A i \in Item : told[i] = "open" => Owed(i)
  /\ /\ Len(todo["reader"]) = 1 /\ Now("reader").item = "tool"
     /\ Now("reader").what # "completed"
     => "tool" \notin completed

\* The pieces 1, 2, ... in order, and no more of them than the agent wrote.
Counting(s) == s \in Seq(Nat) /\ \A k \in 1..Len(s) : s[k] = k
Beginning(s) == Counting(s) /\ Len(s) <= Len(text)

Live == turn = "set" /\ ~err

IsPiece(e) == e.item = "message" /\ e.what = "delta"

\* A piece of the message is on its way to the sink.
PieceAhead ==
  \/ Len(todo["reader"]) = 1 /\ IsPiece(Now("reader")) /\ Now("reader").do # "fail"
  \/ Len(todo["reader"]) = 2 /\ IsPiece(Then("reader"))

\* A call of the sink with that piece will be, or is, made.
PieceDue == PieceAhead /\ (Live \/ (IsPiece(Now("reader")) /\ Now("reader").do = "sink"))

\* All the pieces but the last n are in the reply.
AllBut(n) == Len(reply.text) + n = Len(text) /\ (reply.stream \/ reply.messages = <<>>)

SoundReply(r) ==
  /\ r.stream => r.messages # <<>>
  /\ ~r.stream => r.text = <<>>

Told(r) ==
  /\ Beginning(r.text) /\ Len(r.messages) \in {0, 1} /\ r.finalItems \subseteq {"message"}
  /\ r.messages # <<>> => Beginning(r.messages[1].text)
  /\ ~r.stream => r.nextIndex = 0
  /\ r.stream => /\ r.messages[1].packets >= r.nextIndex
                 /\ (r.messages[1].open /\ r.messages[1].packets = r.nextIndex)
                      => r.messages[1].text = r.text

\* The piece on its way is the last that the agent wrote.
LastPiece ==
  /\ Len(todo["reader"]) = 1 /\ IsPiece(Now("reader")) => Now("reader").text = <<Len(text)>>
  /\ Len(todo["reader"]) = 2 /\ IsPiece(Then("reader")) => Then("reader").text = <<Len(text)>>

\* The reply has every piece but the one on its way, and knows the message it
\* belongs to, unless an append failed.
Followed ==
  /\ PieceDue => AllBut(1)
  /\ Live /\ ~PieceAhead /\ (Idle("reader") \/ Now("reader").do # "fail") => AllBut(0)
  /\ ~Idle("reader") /\ IsPiece(Now("reader")) /\ Now("reader").do = "sink"
       => "message" \in reply.finalItems
  /\ /\ Live /\ "message" \in started
     /\ Idle("reader") \/ IsPiece(Now("reader")) \/ Now("reader").item # "message"
     => "message" \in reply.finalItems

\* What the result of the turn says of the reply, and the finished reply of the
\* turn.
Ended ==
  /\ turn = "none" => text = <<>> /\ reply = NewReply
  /\ reply.finished => turn = "cleared"
  /\ result = "completed" => turn = "cleared" /\ answer = "end" /\ text # <<>>
  /\ result = "completed" /\ sink = "reply" => reply.stream /\ AllBut(0)
  /\ finish = "ok" => sink = "reply" /\ reply.finished
  /\ finish = "ok" /\ result = "completed" =>
       /\ Len(reply.messages) = 1 /\ Len(reply.messages[1].text) = Len(text)
       /\ ~reply.messages[1].open

Texts ==
  /\ Told(reply) /\ LastPiece /\ Ended
  /\ sink = "run" => reply = NewReply
  /\ sink = "reply" => Followed

\* Become takes the head away, or replaces it.
LEMMA HeadFacts ==
  ASSUME NEW S, NEW q \in Seq(S), q # <<>>, NEW x \in S
  PROVE  /\ <<>> \o Tail(q) \in Seq(S) /\ Len(<<>> \o Tail(q)) = Len(q) - 1
         /\ \A k \in 1..Len(q) - 1 : (<<>> \o Tail(q))[k] = q[k + 1]
         /\ <<x>> \o Tail(q) \in Seq(S) /\ Len(<<x>> \o Tail(q)) = Len(q)
         /\ (<<x>> \o Tail(q))[1] = x
         /\ \A k \in 2..Len(q) : (<<x>> \o Tail(q))[k] = q[k]
<1>1. Tail(q) \in Seq(S) /\ Len(Tail(q)) = Len(q) - 1 /\ Len(q) >= 1
  OBVIOUS
<1>2. \A k \in 1..Len(q) - 1 : Tail(q)[k] = q[k + 1]
  OBVIOUS
<1>3. <<>> \o Tail(q) = Tail(q)
  BY <1>1
<1>4. <<x>> \in Seq(S) /\ Len(<<x>>) = 1 /\ <<x>>[1] = x
  OBVIOUS
<1>5. <<x>> \o Tail(q) \in Seq(S) /\ Len(<<x>> \o Tail(q)) = Len(q)
  BY <1>1, <1>4
<1>6. (<<x>> \o Tail(q))[1] = x
  BY <1>1, <1>4
<1>7. \A k \in 2..Len(q) : (<<x>> \o Tail(q))[k] = q[k]
  BY <1>1, <1>2, <1>4
<1> QED
  BY <1>1, <1>2, <1>3, <1>5, <1>6, <1>7

Others(g) == \A h \in Goroutine : h # g => todo'[h] = todo[h]

\* g is done with the event at its head.
Popped(g) ==
  /\ todo' \in [Goroutine -> Seq(Saying)] /\ Others(g)
  /\ Len(todo'[g]) = Len(todo[g]) - 1
  /\ \A k \in 1..Len(todo[g]) - 1 : todo'[g][k] = todo[g][k + 1]

\* g has come to the next stage of it.
Advanced(g, do) ==
  /\ todo' \in [Goroutine -> Seq(Saying)] /\ Others(g)
  /\ Len(todo'[g]) = Len(todo[g])
  /\ todo'[g][1] = [todo[g][1] EXCEPT !.do = do]
  /\ \A k \in 2..Len(todo[g]) : todo'[g][k] = todo[g][k]

\* What Become and On do.
LEMMA QueueSteps ==
  ASSUME TypeOK, NEW g \in Goroutine, ~Idle(g)
  PROVE  /\ Len(todo[g]) \in Nat /\ Len(todo[g]) >= 1 /\ todo[g][1] \in Saying
         /\ Become(g, <<>>) => Popped(g)
         /\ \A do \in {"check", "sink", "fail"} : On(g, do) => Advanced(g, do)
<1> DEFINE q == todo[g]
<1>1. q \in Seq(Saying) /\ q # <<>> /\ todo \in [Goroutine -> Seq(Saying)]
  BY DEF TypeOK, Idle
<1>2. Len(q) \in Nat /\ Len(q) >= 1 /\ q[1] \in Saying
  BY <1>1
<1>3. ASSUME Become(g, <<>>) PROVE Popped(g)
  <2>1. todo' = [todo EXCEPT ![g] = <<>> \o Tail(todo[g])]
    BY <1>3 DEF Become
  <2>2. /\ <<>> \o Tail(q) \in Seq(Saying) /\ Len(<<>> \o Tail(q)) = Len(q) - 1
        /\ \A k \in 1..Len(q) - 1 : (<<>> \o Tail(q))[k] = q[k + 1]
    BY <1>1, <1>2, HeadFacts
  <2> HIDE DEF q
  <2>3. todo'[g] = <<>> \o Tail(q) /\ Others(g) /\ todo' \in [Goroutine -> Seq(Saying)]
    BY <1>1, <2>1, <2>2 DEF Others, q
  <2> QED
    BY <2>2, <2>3 DEF Popped, q
<1>4. ASSUME NEW do \in {"check", "sink", "fail"}, On(g, do) PROVE Advanced(g, do)
  <2> DEFINE x == [q[1] EXCEPT !.do = do]
  <2>1. x \in Saying
    BY <1>2 DEF Saying
  <2>2. todo' = [todo EXCEPT ![g] = <<x>> \o Tail(todo[g])]
    BY <1>4 DEF Become, On
  <2> HIDE DEF x
  <2>3. /\ <<x>> \o Tail(q) \in Seq(Saying) /\ Len(<<x>> \o Tail(q)) = Len(q)
        /\ (<<x>> \o Tail(q))[1] = x
        /\ \A k \in 2..Len(q) : (<<x>> \o Tail(q))[k] = q[k]
    BY <1>1, <2>1, HeadFacts
  <2> HIDE DEF q
  <2>4. todo'[g] = <<x>> \o Tail(q) /\ Others(g) /\ todo' \in [Goroutine -> Seq(Saying)]
    BY <1>1, <2>2, <2>3 DEF Others, q
  <2> QED
    BY <2>3, <2>4 DEF Advanced, q, x
<1> QED
  BY <1>2, <1>3, <1>4

-----------------------------------------------------------------------------
\* The reply's operators.

\* What the service does with a packet at the writer's index.
LEMMA StoredFacts ==
  ASSUME NEW r \in Reply, r.messages # <<>>, NEW t \in Seq(Nat), NEW last \in BOOLEAN,
         NEW s \in Stored(r, t, last)
  PROVE  /\ s \in Reply /\ Len(s.messages) = Len(r.messages)
         /\ r.messages[Len(r.messages)].open
         /\ r.messages[Len(r.messages)].packets = r.nextIndex
         /\ s.messages[Len(r.messages)].text = r.messages[Len(r.messages)].text \o t
         /\ s.messages[Len(r.messages)].packets = r.nextIndex + 1
         /\ (s.messages[Len(r.messages)].open <=> ~last)
         /\ \E m : s = [r EXCEPT !.messages = m]
<1> DEFINE M == [text : Seq(Nat), packets : Nat, open : BOOLEAN]
           n == Len(r.messages)
           m == r.messages[n]
           new == [text |-> m.text \o t, packets |-> m.packets + 1, open |-> ~last]
<1>1. r.messages \in Seq(M)
  BY DEF Reply
<1>2. n \in Nat /\ n >= 1 /\ m \in M
  <2> HIDE DEF M
  <2> QED
    BY <1>1
<1>3. new \in M
  BY <1>2
<1>4. s = [r EXCEPT !.messages = [r.messages EXCEPT ![n] = new]] /\ m.open /\ m.packets = r.nextIndex
  BY DEF Stored
<1>5. /\ [r.messages EXCEPT ![n] = new] \in Seq(M)
      /\ Len([r.messages EXCEPT ![n] = new]) = n
      /\ [r.messages EXCEPT ![n] = new][n] = new
  <2> HIDE DEF new, M
  <2> QED
    BY <1>1, <1>2, <1>3
<1>6. s \in Reply /\ s.messages = [r.messages EXCEPT ![n] = new]
  <2> HIDE DEF new
  <2> QED
    BY <1>4, <1>5 DEF Reply
<1>7. new.text = m.text \o t /\ new.packets = r.nextIndex + 1 /\ (new.open <=> ~last)
  BY <1>4
<1>8. s.messages[n] = new
  BY <1>5, <1>6
<1> HIDE DEF new
<1> QED
  BY <1>4, <1>5, <1>6, <1>7, <1>8

\* The fields a call can change, and how they are bound up with each other.
Sound(x) == x.r \in Reply /\ x.ok \in BOOLEAN /\ SoundReply(x.r)

\* Of a call with the text t: nothing is stored; a message is; a packet is, at the
\* end of the message.
Untouched(r, t, x) == x.r = r /\ (x.ok => t = <<>>)

Begun(r, t, x) ==
  /\ ~r.stream /\ t # <<>>
  /\ x.r.messages = Append(r.messages, Message(t)) /\ x.r.nextIndex = r.nextIndex
  /\ (x.r.stream <=> x.ok) /\ x.r.text = IF x.ok THEN t ELSE r.text

Sent(r, t, x) ==
  /\ r.stream /\ x.r.stream /\ t # <<>>
  /\ \E s \in Stored(r, t, FALSE) :
       /\ x.r.messages = s.messages
       /\ ~x.ok => x.r = s
       /\ x.ok => x.r.text = r.text \o t /\ x.r.nextIndex = r.nextIndex + 1

\* AppendLocked sends nothing, or the next packet of the stream, or starts one,
\* and tells which unless it fails.
LEMMA AppendFacts ==
  ASSUME NEW r \in Reply, SoundReply(r), NEW t \in Seq(Nat), NEW alive,
         NEW x \in AppendLocked(r, t, alive)
  PROVE  /\ Sound(x)
         /\ (x.r.finished <=> r.finished) /\ (x.r.closed <=> r.closed) /\ x.r.finalItems = r.finalItems
         /\ Untouched(r, t, x) \/ Begun(r, t, x) \/ Sent(r, t, x)
<1> USE DEF Sound, Refused, Accepted, Untouched, Begun, Sent
<1>1. CASE t = <<>>
  <2>1. x = [r |-> r, ok |-> TRUE]
    BY <1>1 DEF AppendLocked
  <2>2. x.r = r /\ x.ok = TRUE
    BY <2>1
  <2> QED
    BY <1>1, <2>2
<1>2. CASE t # <<>> /\ ~r.stream
  <2>1. x \in StartTextStream(r, t, alive)
    BY <1>2 DEF AppendLocked
  <2> DEFINE stored == [r EXCEPT !.messages = Append(r.messages, Message(t))]
             M == [text : Seq(Nat), packets : Nat, open : BOOLEAN]
  <2>2. Append(r.messages, Message(t)) \in Seq(M) /\ Append(r.messages, Message(t)) # <<>>
    <3>1. r.messages \in Seq(M)
      BY DEF Reply
    <3>2. Message(t) \in M
      BY DEF Message
    <3> HIDE DEF M
    <3> QED
      BY <3>1, <3>2
  <2>3. \/ x = [r |-> r, ok |-> FALSE]
        \/ x = [r |-> stored, ok |-> FALSE]
        \/ x = [r |-> [stored EXCEPT !.stream = TRUE, !.text = t], ok |-> TRUE]
    BY <2>1 DEF StartTextStream
  <2>4. /\ stored \in Reply /\ stored.messages = Append(r.messages, Message(t))
        /\ [stored EXCEPT !.stream = TRUE, !.text = t] \in Reply
    BY <2>2 DEF Reply
  <2>5. CASE x = [r |-> r, ok |-> FALSE]
    <3>1. x.r = r /\ x.ok = FALSE
      BY <2>5
    <3> QED
      BY <3>1
  <2>6. CASE x = [r |-> stored, ok |-> FALSE]
    <3>1. x.r = stored /\ x.ok = FALSE
      BY <2>6
    <3>2. /\ stored.stream = FALSE /\ stored.text = r.text /\ stored.nextIndex = r.nextIndex
          /\ (stored.finished <=> r.finished) /\ (stored.closed <=> r.closed)
          /\ stored.finalItems = r.finalItems
      BY <1>2 DEF Reply
    <3> HIDE DEF stored
    <3> QED
      BY <1>2, <2>2, <2>4, <3>1, <3>2 DEF SoundReply
  <2>7. CASE x = [r |-> [stored EXCEPT !.stream = TRUE, !.text = t], ok |-> TRUE]
    <3>1. x.ok = TRUE /\ x.r = [stored EXCEPT !.stream = TRUE, !.text = t]
      BY <2>7
    <3>2. /\ x.r.stream = TRUE /\ x.r.text = t /\ x.r.nextIndex = r.nextIndex
          /\ (x.r.finished <=> r.finished) /\ (x.r.closed <=> r.closed)
          /\ x.r.finalItems = r.finalItems /\ x.r.messages = stored.messages
      BY <3>1, <2>4 DEF Reply
    <3> HIDE DEF stored
    <3> QED
      BY <1>2, <2>2, <2>4, <3>1, <3>2 DEF SoundReply
  <2> QED
    BY <2>3, <2>5, <2>6, <2>7
<1>3. CASE t # <<>> /\ r.stream
  <2>1. x \in AppendText(r, t, alive)
    BY <1>3 DEF AppendLocked
  <2>2. \/ x = [r |-> r, ok |-> FALSE]
        \/ \E s \in Stored(r, t, FALSE) :
             \/ x = [r |-> s, ok |-> FALSE]
             \/ x = [r |-> [s EXCEPT !.text = s.text \o t, !.nextIndex = s.nextIndex + 1], ok |-> TRUE]
    BY <2>1 DEF AppendText
  <2>3. ASSUME NEW s \in Stored(r, t, FALSE)
        PROVE  /\ s \in Reply /\ s.messages # <<>> /\ (s.stream <=> r.stream)
               /\ s.text = r.text /\ s.nextIndex = r.nextIndex /\ (s.finished <=> r.finished)
               /\ (s.closed <=> r.closed) /\ s.finalItems = r.finalItems
    <3>1. r.messages # <<>> /\ FALSE \in BOOLEAN
      BY <1>3 DEF SoundReply
    <3>2. s \in Reply /\ Len(s.messages) = Len(r.messages)
      BY <3>1, StoredFacts
    <3>3. \E m : s = [r EXCEPT !.messages = m]
      BY <3>1, StoredFacts
    <3>4. s.messages # <<>>
      BY <3>1, <3>2 DEF Reply
    <3> QED
      BY <3>2, <3>3, <3>4 DEF Reply
  <2>4. ASSUME NEW s \in Stored(r, t, FALSE)
        PROVE  [s EXCEPT !.text = s.text \o t, !.nextIndex = s.nextIndex + 1] \in Reply
    <3>1. s \in Reply
      BY <2>3
    <3>2. s.text \o t \in Seq(Nat) /\ s.nextIndex + 1 \in Nat
      BY <3>1 DEF Reply
    <3> QED
      BY <3>1, <3>2 DEF Reply
  <2>5. CASE x = [r |-> r, ok |-> FALSE]
    <3>1. x.r = r /\ x.ok = FALSE
      BY <2>5
    <3> QED
      BY <3>1
  <2>6. ASSUME NEW s \in Stored(r, t, FALSE), x = [r |-> s, ok |-> FALSE]
        PROVE  /\ Sound(x) /\ (x.r.finished <=> r.finished) /\ (x.r.closed <=> r.closed)
               /\ x.r.finalItems = r.finalItems /\ x.r.stream /\ x.r = s /\ ~x.ok
    <3>1. x.r = s /\ x.ok = FALSE
      BY <2>6
    <3> QED
      BY <1>3, <2>3, <3>1 DEF SoundReply
  <2>7. ASSUME NEW s \in Stored(r, t, FALSE),
               x = [r |-> [s EXCEPT !.text = s.text \o t, !.nextIndex = s.nextIndex + 1], ok |-> TRUE]
        PROVE  /\ Sound(x) /\ (x.r.finished <=> r.finished) /\ (x.r.closed <=> r.closed)
               /\ x.r.finalItems = r.finalItems /\ x.r.stream /\ x.ok
               /\ x.r.messages = s.messages /\ x.r.text = r.text \o t
               /\ x.r.nextIndex = r.nextIndex + 1
    <3>1. x.r = [s EXCEPT !.text = s.text \o t, !.nextIndex = s.nextIndex + 1] /\ x.ok = TRUE
      BY <2>7
    <3>2. s \in Reply
      BY <2>3
    <3>3. /\ x.r.text = s.text \o t /\ x.r.nextIndex = s.nextIndex + 1
          /\ (x.r.stream <=> s.stream) /\ x.r.messages = s.messages /\ (x.r.finished <=> s.finished)
          /\ (x.r.closed <=> s.closed) /\ x.r.finalItems = s.finalItems
      BY <3>1, <3>2 DEF Reply
    <3>4. x.r \in Reply
      BY <3>1, <2>4
    <3> QED
      BY <1>3, <2>3, <3>1, <3>3, <3>4 DEF SoundReply
  <2> QED
    BY <1>3, <2>2, <2>5, <2>6, <2>7
<1> QED
  BY <1>1, <1>2, <1>3

\* FinishText sends nothing, or the last packet.
LEMMA FinishTextFacts ==
  ASSUME NEW r \in Reply, SoundReply(r), r.stream, NEW x \in FinishText(r)
  PROVE  /\ Sound(x)
         /\ x.r.stream /\ x.r.text = r.text /\ x.r.nextIndex = r.nextIndex
         /\ (x.r.finished <=> r.finished) /\ x.r.finalItems = r.finalItems
         /\ \/ x.r = r /\ ~x.ok
            \/ \E s \in Stored(r, <<>>, TRUE) : x.r.messages = s.messages
<1>1. \/ x = [r |-> r, ok |-> FALSE]
      \/ \E s \in Stored(r, <<>>, TRUE) :
           \/ x = [r |-> s, ok |-> FALSE]
           \/ x = [r |-> [s EXCEPT !.closed = TRUE], ok |-> TRUE]
  BY DEF FinishText, Refused, Accepted
<1>2. ASSUME NEW s \in Stored(r, <<>>, TRUE)
      PROVE  /\ s \in Reply /\ s.messages # <<>> /\ (s.stream <=> r.stream)
             /\ s.text = r.text /\ s.nextIndex = r.nextIndex /\ (s.finished <=> r.finished)
             /\ s.finalItems = r.finalItems
  <2>1. r.messages # <<>> /\ TRUE \in BOOLEAN /\ <<>> \in Seq(Nat)
    BY DEF SoundReply
  <2>2. s \in Reply /\ Len(s.messages) = Len(r.messages)
    BY <2>1, StoredFacts
  <2>3. \E m : s = [r EXCEPT !.messages = m]
    BY <2>1, StoredFacts
  <2>4. s.messages # <<>>
    BY <2>1, <2>2 DEF Reply
  <2> QED
    BY <2>2, <2>3, <2>4 DEF Reply
<1>3. CASE x = [r |-> r, ok |-> FALSE]
  <2>1. x.r = r /\ x.ok = FALSE
    BY <1>3
  <2> QED
    BY <2>1 DEF Sound
<1>4. ASSUME NEW s \in Stored(r, <<>>, TRUE), x = [r |-> s, ok |-> FALSE]
      PROVE  /\ Sound(x) /\ x.r.stream /\ x.r.text = r.text /\ x.r.nextIndex = r.nextIndex
             /\ (x.r.finished <=> r.finished) /\ x.r.finalItems = r.finalItems
             /\ x.r.messages = s.messages
  <2>1. x.r = s /\ x.ok = FALSE
    BY <1>4
  <2> QED
    BY <1>2, <2>1 DEF Sound, SoundReply
<1>5. ASSUME NEW s \in Stored(r, <<>>, TRUE), x = [r |-> [s EXCEPT !.closed = TRUE], ok |-> TRUE]
      PROVE  /\ Sound(x) /\ x.r.stream /\ x.r.text = r.text /\ x.r.nextIndex = r.nextIndex
             /\ (x.r.finished <=> r.finished) /\ x.r.finalItems = r.finalItems
             /\ x.r.messages = s.messages
  <2>1. x.r = [s EXCEPT !.closed = TRUE] /\ x.ok = TRUE /\ s \in Reply
    BY <1>2, <1>5
  <2>2. /\ x.r \in Reply /\ (x.r.stream <=> s.stream) /\ x.r.text = s.text
        /\ x.r.nextIndex = s.nextIndex /\ (x.r.finished <=> s.finished)
        /\ x.r.finalItems = s.finalItems /\ x.r.messages = s.messages
    BY <2>1 DEF Reply
  <2> QED
    BY <1>2, <2>1, <2>2 DEF Sound, SoundReply
<1> QED
  BY <1>1, <1>3, <1>4, <1>5

\* Close: the end of the stream, if there is one, and no text.
LEMMA CloseFacts ==
  ASSUME NEW r \in Reply, SoundReply(r), NEW x \in Close(r)
  PROVE  /\ Sound(x)
         /\ (x.r.stream <=> r.stream) /\ x.r.text = r.text /\ x.r.nextIndex = r.nextIndex
         /\ x.r.finalItems = r.finalItems /\ (x.ok => x.r.finished)
         /\ \/ x.r.messages = r.messages /\ (r.stream => ~x.ok)
            \/ r.stream /\ \E s \in Stored(r, <<>>, TRUE) : x.r.messages = s.messages
<1>1. CASE ~r.stream
  <2>1. x = [r |-> [r EXCEPT !.finished = TRUE], ok |-> TRUE]
    BY <1>1 DEF Close, Accepted
  <2>2. x.r = [r EXCEPT !.finished = TRUE] /\ x.ok = TRUE
    BY <2>1
  <2>3. /\ x.r \in Reply /\ (x.r.stream <=> r.stream) /\ x.r.text = r.text
        /\ x.r.nextIndex = r.nextIndex /\ x.r.finished = TRUE
        /\ x.r.finalItems = r.finalItems /\ x.r.messages = r.messages
    BY <2>2 DEF Reply
  <2> QED
    BY <1>1, <2>2, <2>3 DEF Sound, SoundReply
<1>2. CASE r.stream
  <2>1. PICK y \in FinishText(r) : x = IF y.ok THEN [y EXCEPT !.r = [y.r EXCEPT !.finished = TRUE]] ELSE y
    BY <1>2 DEF Close
  <2>2. /\ Sound(y) /\ y.r.stream /\ y.r.text = r.text /\ y.r.nextIndex = r.nextIndex
        /\ (y.r.finished <=> r.finished) /\ y.r.finalItems = r.finalItems
        /\ \/ y.r = r /\ ~y.ok
           \/ \E s \in Stored(r, <<>>, TRUE) : y.r.messages = s.messages
    BY <1>2, FinishTextFacts
  <2>3. CASE ~y.ok
    BY <1>2, <2>1, <2>2, <2>3
  <2>4. CASE y.ok
    <3>0. \E z : y = [r |-> z, ok |-> y.ok]
      <4>1. \/ y = [r |-> r, ok |-> FALSE]
            \/ \E s \in Stored(r, <<>>, TRUE) :
                 \/ y = [r |-> s, ok |-> FALSE]
                 \/ y = [r |-> [s EXCEPT !.closed = TRUE], ok |-> TRUE]
        BY <2>1 DEF FinishText, Refused, Accepted
      <4>2. \A s, b : y = [r |-> s, ok |-> b] => y.ok = b
        OBVIOUS
      <4>3. \A s, b : y = [r |-> s, ok |-> b] => y = [r |-> s, ok |-> y.ok]
        BY <4>2
      <4> QED
        BY <4>1, <4>3
    <3>1. x.ok = y.ok /\ x.r = [y.r EXCEPT !.finished = TRUE]
      BY <2>1, <2>4, <3>0
    <3>2. /\ x.r \in Reply /\ (x.r.stream <=> y.r.stream) /\ x.r.text = y.r.text
          /\ x.r.nextIndex = y.r.nextIndex /\ x.r.finished = TRUE
          /\ x.r.finalItems = y.r.finalItems /\ x.r.messages = y.r.messages
      BY <2>2, <3>1 DEF Reply, Sound
    <3> QED
      BY <1>2, <2>2, <2>4, <3>1, <3>2 DEF Sound, SoundReply
  <2> QED
    BY <2>3, <2>4
<1>3. r.stream \in BOOLEAN
  BY DEF Reply
<1> QED
  BY <1>1, <1>2, <1>3

\* Of an event: it is not for the reply; it starts the message; it adds to it.
Ignored(r, item, what, x) ==
  /\ x.r = r /\ x.ok
  /\ ~(what = "started" /\ item = "message") /\ ~(what = "delta" /\ item \in r.finalItems)

Opened(r, item, what, x) ==
  /\ what = "started" /\ item = "message" /\ x.ok
  /\ x.r.finalItems = r.finalItems \cup {item} /\ x.r.messages = r.messages
  /\ x.r.text = r.text /\ (x.r.stream <=> r.stream) /\ x.r.nextIndex = r.nextIndex

Added(r, item, what, t, alive, x) ==
  what = "delta" /\ item \in r.finalItems /\ x \in AppendLocked(r, t, alive)

\* An event is refused once the reply is finished, starts the message, brings a
\* piece of it, or is none of the reply's business.
LEMMA EventFacts ==
  ASSUME NEW r \in Reply, SoundReply(r), NEW item \in Item, NEW what, NEW t \in Seq(Nat),
         NEW alive, NEW x \in Event(r, item, what, t, alive)
  PROVE  /\ Sound(x) /\ (x.r.finished <=> r.finished)
         /\ r.finished => x.r = r /\ ~x.ok
         /\ ~r.finished => \/ Ignored(r, item, what, x) \/ Opened(r, item, what, x)
                           \/ Added(r, item, what, t, alive, x)
<1> USE DEF Ignored, Opened, Added
<1>0. r.finished \in BOOLEAN
  BY DEF Reply
<1>1. CASE r.finished
  <2>1. x = [r |-> r, ok |-> FALSE]
    BY <1>1 DEF Event, Refused
  <2>2. x.r = r /\ x.ok = FALSE
    BY <2>1
  <2> QED
    BY <1>1, <2>2 DEF Sound
<1>2. CASE ~r.finished /\ what = "started" /\ item = "message"
  <2>1. x = [r |-> [r EXCEPT !.finalItems = r.finalItems \cup {item}], ok |-> TRUE]
    BY <1>2 DEF Event, Accepted
  <2>2. x.r = [r EXCEPT !.finalItems = r.finalItems \cup {item}] /\ x.ok = TRUE
    BY <2>1
  <2> DEFINE items == r.finalItems \cup {item}
  <2>3. items \in SUBSET Item
    BY DEF Reply
  <2> HIDE DEF items
  <2>4. /\ x.r \in Reply /\ (x.r.stream <=> r.stream) /\ x.r.text = r.text
        /\ x.r.messages = r.messages /\ (x.r.finished <=> r.finished)
        /\ x.r.nextIndex = r.nextIndex /\ x.r.finalItems = items
    <3>1. x.r = [r EXCEPT !.finalItems = items]
      BY <2>2 DEF items
    <3> QED
      BY <2>3, <3>1 DEF Reply
  <2> QED
    BY <1>2, <2>2, <2>4 DEF Sound, SoundReply, items
<1>3. CASE ~r.finished /\ what = "delta" /\ item \in r.finalItems
  <2>1. x \in AppendLocked(r, t, alive)
    BY <1>3 DEF Event
  <2>2. Sound(x) /\ (x.r.finished <=> r.finished)
    BY <2>1, AppendFacts
  <2> QED
    BY <1>3, <2>1, <2>2
<1>4. CASE /\ ~r.finished /\ ~(what = "started" /\ item = "message")
           /\ ~(what = "delta" /\ item \in r.finalItems)
  <2>1. x = [r |-> r, ok |-> TRUE]
    BY <1>4 DEF Event, Accepted
  <2>2. x.r = r /\ x.ok = TRUE
    BY <2>1
  <2> QED
    BY <1>4, <2>2 DEF Sound
<1> QED
  BY <1>0, <1>1, <1>2, <1>3, <1>4

\* Finish leaves a state of the writer's, whatever it sends.
LEMMA FinishReplyFacts ==
  ASSUME NEW r \in Reply, SoundReply(r), NEW final \in Seq(Nat), NEW x \in FinishReply(r, final)
  PROVE  /\ Sound(x)
         /\ r.finished => x.r = r /\ ~x.ok
         /\ ~r.finished /\ (final = <<>> \/ final = r.text) => x \in Close(r)
<1>0. r.finished \in BOOLEAN /\ r.stream \in BOOLEAN /\ r.text \in Seq(Nat)
  BY DEF Reply
<1>1. CASE r.finished
  <2>1. x = [r |-> r, ok |-> FALSE]
    BY <1>1 DEF FinishReply, Refused
  <2>2. x.r = r /\ x.ok = FALSE
    BY <2>1
  <2> QED
    BY <1>1, <2>2 DEF Sound
<1>2. CASE ~r.finished /\ (final = <<>> \/ final = r.text)
  <2>1. x \in Close(r)
    BY <1>2 DEF FinishReply
  <2> QED
    BY <1>2, <2>1, CloseFacts
<1>3. CASE ~r.finished /\ final # <<>> /\ final # r.text /\ IsPrefix(r.text, final)
  <2> DEFINE rest == SubSeq(final, Len(r.text) + 1, Len(final))
  <2>1. rest \in Seq(Nat)
    BY <1>0
  <2> HIDE DEF rest
  <2>2. \/ x \in AppendLocked(r, rest, TRUE)
        \/ \E y \in AppendLocked(r, rest, TRUE) : y.ok /\ x \in Close(y.r)
    BY <1>3 DEF FinishReply, rest
  <2>3. \A y \in AppendLocked(r, rest, TRUE) : Sound(y)
    BY <2>1, AppendFacts
  <2> QED
    BY <1>3, <2>2, <2>3, CloseFacts DEF Sound
<1>4. CASE ~r.finished /\ final # <<>> /\ final # r.text /\ ~IsPrefix(r.text, final)
  <2>1. PICK y \in (IF r.stream THEN FinishText(r) ELSE Refused(r)) :
          x = [r |-> [y.r EXCEPT !.finished = TRUE], ok |-> FALSE]
    BY <1>4 DEF FinishReply
  <2>2. Sound(y)
    <3>1. CASE r.stream
      BY <2>1, <3>1, FinishTextFacts
    <3>2. CASE ~r.stream
      <4>1. y.r = r /\ y.ok = FALSE
        BY <2>1, <3>2 DEF Refused
      <4> QED
        BY <4>1 DEF Sound
    <3> QED
      BY <3>1, <3>2
  <2>3. x.r = [y.r EXCEPT !.finished = TRUE] /\ x.ok = FALSE
    BY <2>1
  <2>4. /\ x.r \in Reply /\ (x.r.stream <=> y.r.stream) /\ x.r.text = y.r.text
        /\ x.r.messages = y.r.messages
    BY <2>2, <2>3 DEF Reply, Sound
  <2> QED
    BY <1>4, <2>2, <2>3, <2>4 DEF Sound, SoundReply
<1> QED
  BY <1>0, <1>1, <1>2, <1>3, <1>4

-----------------------------------------------------------------------------
\* What a handler leaves its goroutine to deliver.

\* g has one event to deliver, or two.
One(g, e) ==
  /\ todo' \in [Goroutine -> Seq(Saying)] /\ Others(g)
  /\ Len(todo'[g]) = 1 /\ todo'[g][1] = e
Two(g, e, f) ==
  /\ todo' \in [Goroutine -> Seq(Saying)] /\ Others(g)
  /\ Len(todo'[g]) = 2 /\ todo'[g][1] = e /\ todo'[g][2] = f

\* A queue of one event, or of two.
LEMMA OneTwo ==
  ASSUME TypeOK, NEW g \in Goroutine, NEW e \in Saying, NEW f \in Saying
  PROVE  /\ todo' = [todo EXCEPT ![g] = <<e>>] => One(g, e)
         /\ todo' = [todo EXCEPT ![g] = <<e, f>>] => Two(g, e, f)
<1>1. <<e>> \in Seq(Saying) /\ <<e, f>> \in Seq(Saying)
  OBVIOUS
<1>2. todo \in [Goroutine -> Seq(Saying)]
  BY DEF TypeOK
<1>3. ASSUME NEW q \in Seq(Saying), todo' = [todo EXCEPT ![g] = q]
      PROVE  todo' \in [Goroutine -> Seq(Saying)] /\ Others(g) /\ todo'[g] = q
  BY <1>2, <1>3 DEF Others
<1>4. Len(<<e>>) = 1 /\ <<e>>[1] = e
  OBVIOUS
<1>5. Len(<<e, f>>) = 2 /\ <<e, f>>[1] = e /\ <<e, f>>[2] = f
  OBVIOUS
<1> HIDE DEF Others
<1>6. ASSUME todo' = [todo EXCEPT ![g] = <<e>>] PROVE One(g, e)
  BY <1>1, <1>3, <1>4, <1>6 DEF One
<1>7. ASSUME todo' = [todo EXCEPT ![g] = <<e, f>>] PROVE Two(g, e, f)
  BY <1>1, <1>3, <1>5, <1>7 DEF Two
<1> QED
  BY <1>6, <1>7

\* One event after another.
LEMMA Tuples ==
  ASSUME NEW S, NEW e \in S, NEW f \in S
  PROVE  /\ <<>> \o <<e>> = <<e>> /\ <<e>> \o <<>> = <<e>>
         /\ <<e>> \o <<f>> = <<e, f>>
<1>1. <<e>> \in Seq(S) /\ <<f>> \in Seq(S) /\ <<e, f>> \in Seq(S)
  OBVIOUS
<1>2. <<>> \o <<e>> = <<e>> 
  BY <1>1
<1>3. <<e>> \o <<>> = <<e>>
  BY <1>1
<1>4. <<e>> \o <<f>> = <<e, f>>
  <2> DEFINE s == <<e>> \o <<f>>
  <2>1. s \in Seq(S) /\ Len(s) = 2 /\ s[1] = e /\ s[2] = f
    BY <1>1
  <2> HIDE DEF s
  <2>2. s = <<e, f>>
    BY <2>1
  <2> QED
    BY <2>2 DEF s
<1> QED
  BY <1>2, <1>3, <1>4

\* What is said is an event; it comes with a text or with none.
LEMMA SayFacts ==
  ASSUME NEW i \in Item, NEW what \in {"started", "delta", "updated", "completed"},
         NEW t \in Seq(Nat)
  PROVE  /\ Say(i, what, t) \in Saying /\ Tell(i, what) \in Saying
         /\ Say(i, what, t).do = "check" /\ Say(i, what, t).item = i
         /\ Say(i, what, t).what = what /\ Say(i, what, t).text = t
         /\ Tell(i, what).do = "check" /\ Tell(i, what).item = i /\ Tell(i, what).what = what
<1>1. <<>> \in Seq(Nat)
  OBVIOUS
<1> QED
  BY <1>1 DEF Say, Tell, Saying

\* The same, of an event without a text.
LEMMA TellFacts ==
  ASSUME NEW i \in Item, NEW what \in {"started", "delta", "updated", "completed"}
  PROVE  /\ Tell(i, what) \in Saying
         /\ Tell(i, what).do = "check" /\ Tell(i, what).item = i /\ Tell(i, what).what = what
<1>1. <<>> \in Seq(Nat)
  OBVIOUS
<1> QED
  BY <1>1 DEF Say, Tell, Saying

\* A chunk of the message brings the next piece of it.
LEMMA PieceFacts ==
  ASSUME TypeOK, NEW i \in Item
  PROVE  Piece(i) \in Seq(Nat) /\ text \o Piece(i) \in Seq(Nat)
<1>1. text \in Seq(Nat) /\ Len(text) + 1 \in Nat
  BY DEF TypeOK
<1>2. Piece(i) \in Seq(Nat)
  BY <1>1 DEF Piece
<1> QED
  BY <1>1, <1>2

\* A chunk of an item that was not begun yet is two events.
LEMMA ChunkQueue ==
  ASSUME TypeOK, NEW i \in Chunks, Chunk(i)
  PROVE  \/ i \in started /\ One("reader", Say(i, "delta", Piece(i)))
         \/ i \notin started /\ Two("reader", Tell(i, "started"), Say(i, "delta", Piece(i)))
<1>1. i \in Item /\ "reader" \in Goroutine
  BY DEF Chunks, Item, Goroutine
<1>2. Say(i, "delta", Piece(i)) \in Saying /\ Tell(i, "started") \in Saying
  BY <1>1, PieceFacts, SayFacts
<1>3. \A e, f \in Saying : <<>> \o <<e>> = <<e>> /\ <<f>> \o <<e>> = <<f, e>>
  BY Tuples
<1>4. CASE i \in started
  <2>1. todo' = [todo EXCEPT !["reader"] = <<>> \o <<Say(i, "delta", Piece(i))>>]
    BY <1>4 DEF Chunk
  <2> QED
    BY <1>1, <1>2, <1>3, <1>4, <2>1, OneTwo
<1>5. CASE i \notin started
  <2>1. todo' = [todo EXCEPT !["reader"] = <<Tell(i, "started")>> \o <<Say(i, "delta", Piece(i))>>]
    BY <1>5 DEF Chunk
  <2> QED
    BY <1>1, <1>2, <1>3, <1>5, <2>1, OneTwo
<1> QED
  BY <1>4, <1>5

\* The update that ends a tool call is two events.
LEMMA ToolQueue ==
  ASSUME TypeOK, NEW terminal \in BOOLEAN, ToolCallUpdate(terminal)
  PROVE  \/ /\ terminal /\ "tool" \notin completed
            /\ Two("reader", Tell("tool", "updated"), Tell("tool", "completed"))
         \/ /\ ~terminal \/ "tool" \in completed
            /\ One("reader", Tell("tool", "updated"))
<1>1. "tool" \in Item /\ "reader" \in Goroutine
  BY DEF Item, Goroutine
<1>2. Tell("tool", "updated") \in Saying /\ Tell("tool", "completed") \in Saying
  <2>1. <<>> \in Seq(Nat)
    OBVIOUS
  <2> QED
    BY <1>1, <2>1, SayFacts
<1>3. \A e, f \in Saying : <<e>> \o <<>> = <<e>> /\ <<e>> \o <<f>> = <<e, f>>
  BY Tuples
<1>4. CASE terminal /\ "tool" \notin completed
  <2>1. todo' = [todo EXCEPT !["reader"] = <<Tell("tool", "updated")>> \o <<Tell("tool", "completed")>>]
    BY <1>4 DEF ToolCallUpdate
  <2> QED
    BY <1>1, <1>2, <1>3, <1>4, <2>1, OneTwo
<1>5. CASE ~(terminal /\ "tool" \notin completed)
  <2>1. todo' = [todo EXCEPT !["reader"] = <<Tell("tool", "updated")>> \o <<>>]
    BY <1>5 DEF ToolCallUpdate
  <2> QED
    BY <1>1, <1>2, <1>3, <1>5, <2>1, OneTwo
<1> QED
  BY <1>4, <1>5

\* What the other handlers, and completeACPItems, leave to deliver.
LEMMA PlainQueues ==
  ASSUME TypeOK
  PROVE  /\ ToolCall => One("reader", Tell("tool", "started"))
         /\ RequestPermission =>
              Two("asker", Tell("permission", "started"), Tell("permission", "completed"))
         /\ \A i \in Item :
              todo' = [todo EXCEPT !["caller"] = <<Tell(i, "completed")>>]
              => One("caller", Tell(i, "completed"))
<1>1. /\ "tool" \in Item /\ "permission" \in Item
      /\ "reader" \in Goroutine /\ "asker" \in Goroutine /\ "caller" \in Goroutine
  BY DEF Item, Goroutine
<1>2. \A i \in Item : Tell(i, "started") \in Saying /\ Tell(i, "completed") \in Saying
  <2>1. <<>> \in Seq(Nat)
    OBVIOUS
  <2> QED
    BY <2>1, SayFacts
<1> QED
  BY <1>1, <1>2, OneTwo DEF ToolCall, RequestPermission

-----------------------------------------------------------------------------
\* What a delivery does to its queue, and to nothing else of the session.
LEMMA DeliverQueue ==
  ASSUME TypeOK, NEW g \in Goroutine, Deliver(g)
  PROVE  /\ ~Idle(g) /\ (Popped(g) \/ \E do \in {"sink", "fail"} : Advanced(g, do))
         /\ UNCHANGED <<caller, world, turn, started, completed, tools, text, leftover, agent,
                        sink, finish>>
         /\ (err => err')
<1>0. ASSUME ~Idle(g)
      PROVE  /\ Become(g, <<>>) => Popped(g)
             /\ \A do \in {"check", "sink", "fail"} : On(g, do) => Advanced(g, do)
  BY <1>0, QueueSteps
<1>1. CASE CheckTurn(g)
  <2>1. ~Idle(g) /\ (On(g, "sink") \/ Become(g, <<>>))
    BY <1>1 DEF CheckTurn, At
  <2> QED
    BY <1>0, <1>1, <2>1 DEF CheckTurn, state
<1>2. CASE CallSink(g)
  <2>1. ~Idle(g) /\ (On(g, "fail") \/ Become(g, <<>>))
    BY <1>2 DEF CallSink, At
  <2> QED
    BY <1>0, <1>2, <2>1 DEF CallSink, state
<1>3. CASE SinkFailed(g)
  <2>1. ~Idle(g) /\ Become(g, <<>>)
    BY <1>3 DEF SinkFailed, At
  <2> QED
    BY <1>0, <1>3, <2>1 DEF SinkFailed
<1> QED
  BY <1>1, <1>2, <1>3 DEF Deliver

\* What a call of the sink does, besides.
LEMMA SinkCalled ==
  ASSUME TypeOK, NEW g \in Goroutine, CallSink(g)
  PROVE  /\ Now(g).do = "sink" /\ UNCHANGED <<turn, err>>
         /\ \/ /\ sink = "run" /\ ~ctx /\ UNCHANGED <<refused, reply>> /\ Popped(g)
               /\ told' = [told EXCEPT ![Now(g).item] = Hear(told[Now(g).item], Now(g).what)]
            \/ /\ sink = "run" /\ refused' = TRUE /\ UNCHANGED <<told, reply>>
               /\ Advanced(g, "fail")
            \/ /\ sink = "reply" /\ UNCHANGED told
               /\ \E x \in Event(reply, Now(g).item, Now(g).what, Now(g).text, ~ctx) :
                    /\ reply' = x.r
                    /\ x.ok => Popped(g) /\ UNCHANGED refused
                    /\ ~x.ok => Advanced(g, "fail") /\ refused' = TRUE
<1>1. ~Idle(g) /\ Now(g).do = "sink"
  BY DEF CallSink, At, Now
<1>2. /\ Become(g, <<>>) => Popped(g)
      /\ On(g, "fail") => Advanced(g, "fail")
  BY <1>1, QueueSteps
<1> QED
  BY <1>1, <1>2 DEF CallSink, Now, state

Typed == TypeOK /\ SoundReply(reply)

\* The variables have their types at the start.
LEMMA TypeInit == Init => Typed
<1> SUFFICES ASSUME Init PROVE Typed
  OBVIOUS
<1>1. NewReply \in Reply /\ SoundReply(NewReply)
  <2>1. <<>> \in Seq(Nat) /\ <<>> \in Seq([text : Seq(Nat), packets : Nat, open : BOOLEAN])
    OBVIOUS
  <2> QED
    BY <2>1 DEF NewReply, Reply, SoundReply
<1>2. todo \in [Goroutine -> Seq(Saying)] /\ told \in [Item -> {"nothing", "open", "closed", "wrong"}]
  BY DEF Init
<1>3. text \in Seq(Nat) /\ updates \in 0..MaxUpdates /\ sink \in Sinks /\ reply = NewReply
  BY AcpSessionAssumption DEF Init
<1>4. /\ started \subseteq Item /\ completed \subseteq Item /\ tools \subseteq Item
      /\ leftover \subseteq Item
  BY DEF Init
<1>5. /\ ctx \in BOOLEAN /\ err \in BOOLEAN /\ stray \in BOOLEAN /\ refused \in BOOLEAN
  BY DEF Init
<1>6. /\ pc = "starting" /\ result = "none" /\ finish = "waiting" /\ proc = "running"
      /\ turn = "none" /\ answer = "none"
  BY DEF Init
<1> QED
  BY <1>1, <1>2, <1>3, <1>4, <1>5, <1>6 DEF Typed, TypeOK

\* Every step keeps the types.
LEMMA TypeNext == Typed /\ [Next]_vars => Typed'
<1> SUFFICES ASSUME Typed, [Next]_vars PROVE Typed'
  OBVIOUS
<1> USE DEF TypeOK
<1>0. TypeOK /\ SoundReply(reply) /\ reply \in Reply
  BY DEF Typed
<1>1. ASSUME UNCHANGED reply, TypeOK' PROVE Typed'
  BY <1>0, <1>1 DEF Typed, SoundReply
<1>2. ASSUME NEW g \in Goroutine, CheckTurn(g) \/ SinkFailed(g) PROVE Typed'
  <2>1. todo' \in [Goroutine -> Seq(Saying)]
    BY <1>0, <1>2, DeliverQueue DEF Popped, Advanced, Deliver
  <2>2. TypeOK'
    <3>1. /\ UNCHANGED <<caller, world, leftover, agent, ears, sink, finish>>
          /\ UNCHANGED <<turn, started, completed, tools, text>>
      BY <1>2 DEF CheckTurn, SinkFailed, state
    <3>2. err' \in BOOLEAN
      <4>1. CASE CheckTurn(g)
        BY <1>0, <4>1 DEF CheckTurn, state
      <4>2. CASE SinkFailed(g)
        BY <1>0, <4>2 DEF SinkFailed
      <4> QED
        BY <1>2, <4>1, <4>2
    <3> QED
      BY <1>0, <2>1, <3>1, <3>2 DEF caller, world, agent, ears
  <2> QED
    BY <1>1, <1>2, <2>2 DEF CheckTurn, SinkFailed, ears
<1>3. ASSUME NEW g \in Goroutine, CallSink(g) PROVE Typed'
  <2>1. /\ UNCHANGED <<caller, world, turn, started, completed, tools, text, leftover, agent,
                       sink, finish>>
        /\ todo' \in [Goroutine -> Seq(Saying)]
    BY <1>0, <1>3, DeliverQueue DEF Popped, Advanced, Deliver
  <2>2. Now(g) \in Saying /\ UNCHANGED err
    <3>1. ~Idle(g) /\ UNCHANGED err
      BY <1>3 DEF CallSink, At, state
    <3> QED
      BY <1>0, <3>1, QueueSteps DEF Now
  <2>3. refused' \in BOOLEAN /\ told' \in [Item -> {"nothing", "open", "closed", "wrong"}]
    BY <1>0, <1>3, <2>2, SinkCalled DEF Hear, Saying
  <2>4. reply' \in Reply /\ SoundReply(reply)'
    <3>1. CASE UNCHANGED reply
      BY <1>0, <3>1 DEF SoundReply
    <3>2. ASSUME NEW x \in Event(reply, Now(g).item, Now(g).what, Now(g).text, ~ctx),
                 reply' = x.r
          PROVE  reply' \in Reply /\ SoundReply(reply)'
      <4>1. Now(g).item \in Item /\ Now(g).text \in Seq(Nat)
        BY <2>2 DEF Saying
      <4>2. x.r \in Reply /\ SoundReply(x.r)
        BY <1>0, <4>1, EventFacts DEF Sound
      <4> QED
        BY <3>2, <4>2 DEF SoundReply
    <3> QED
      BY <1>0, <1>3, <3>1, <3>2, SinkCalled
  <2> QED
    BY <1>0, <2>1, <2>2, <2>3, <2>4 DEF Typed, caller, world, agent
<1>4. ASSUME NEW i \in Chunks, Chunk(i) PROVE Typed'
  <2>1. todo' \in [Goroutine -> Seq(Saying)] /\ text' \in Seq(Nat) /\ started' \subseteq Item
    <3>1. i \in Item
      BY DEF Chunks, Item
    <3>2. todo' \in [Goroutine -> Seq(Saying)]
      BY <1>0, <1>4, ChunkQueue DEF One, Two
    <3>3. text' \in Seq(Nat)
      BY <1>0, <1>4, <3>1, PieceFacts DEF Chunk
    <3> QED
      BY <1>0, <1>4, <3>1, <3>2, <3>3 DEF Chunk
  <2>2. updates' \in 0..MaxUpdates /\ stray' \in BOOLEAN /\ UNCHANGED answer
    BY <1>0, <1>4, AcpSessionAssumption DEF Chunk, Reads, Handled
  <2>3. TypeOK'
    BY <1>0, <1>4, <2>1, <2>2 DEF Chunk, caller, world, ears
  <2> QED
    BY <1>1, <1>4, <2>3 DEF Chunk, ears
<1>5. CASE ToolCall \/ RequestPermission
  <2>1. todo' \in [Goroutine -> Seq(Saying)] /\ tools' \subseteq Item /\ started' \subseteq Item
    <3>1. todo' \in [Goroutine -> Seq(Saying)]
      BY <1>0, <1>5, PlainQueues DEF One, Two
    <3> QED
      BY <1>0, <1>5, <3>1 DEF ToolCall, RequestPermission, Item, state
  <2>2. updates' \in 0..MaxUpdates /\ stray' \in BOOLEAN /\ UNCHANGED answer
    <3>1. CASE ToolCall
      BY <1>0, <3>1, AcpSessionAssumption DEF ToolCall, Reads, Handled
    <3>2. CASE RequestPermission
      BY <1>0, <3>2, AcpSessionAssumption DEF RequestPermission, Reads, Handled
    <3> QED
      BY <1>5, <3>1, <3>2
  <2>3. TypeOK'
    BY <1>0, <1>5, <2>1, <2>2 DEF ToolCall, RequestPermission, caller, world, state, ears
  <2> QED
    BY <1>1, <1>5, <2>3 DEF ToolCall, RequestPermission, ears
<1>6. ASSUME NEW terminal \in BOOLEAN, ToolCallUpdate(terminal) PROVE Typed'
  <2>1. /\ todo' \in [Goroutine -> Seq(Saying)]
        /\ tools' \subseteq Item /\ started' \subseteq Item /\ completed' \subseteq Item
    <3>1. todo' \in [Goroutine -> Seq(Saying)]
      BY <1>0, <1>6, ToolQueue DEF One, Two
    <3> QED
      BY <1>0, <1>6, <3>1 DEF ToolCallUpdate, Item
  <2>2. updates' \in 0..MaxUpdates /\ stray' \in BOOLEAN /\ UNCHANGED answer
    BY <1>0, <1>6, AcpSessionAssumption DEF ToolCallUpdate, Reads, Handled
  <2>3. TypeOK'
    BY <1>0, <1>6, <2>1, <2>2 DEF ToolCallUpdate, caller, world, ears
  <2> QED
    BY <1>1, <1>6, <2>3 DEF ToolCallUpdate, ears
<1>7. CASE Answer \/ Start \/ BeginTurn \/ PromptReturns \/ EndTurn
  <2>1. TypeOK'
    <3>1. CASE Answer
      BY <1>0, <3>1 DEF Answer, caller, world, state, ears
    <3>2. CASE Start \/ BeginTurn
      BY <1>0, <3>2 DEF Start, BeginTurn, Goto, Return, Killed, caller, world, state, agent, ears
    <3>3. CASE PromptReturns
      <4>1. leftover' \subseteq Item /\ completed' \subseteq Item
        BY <1>0, <3>3 DEF PromptReturns
      <4> QED
        BY <1>0, <3>3, <4>1 DEF PromptReturns, Goto, world, agent, ears
    <3>4. CASE EndTurn
      BY <1>0, <3>4 DEF EndTurn, Return, world, agent, ears
    <3> QED
      BY <1>7, <3>1, <3>2, <3>3, <3>4
  <2> QED
    BY <1>1, <1>7, <2>1 DEF Answer, Start, BeginTurn, PromptReturns, EndTurn, ears
<1>8. CASE CompleteItem
  <2>1. todo' \in [Goroutine -> Seq(Saying)]
    BY <1>0, <1>8, PlainQueues DEF CompleteItem, One
  <2>2. TypeOK'
    BY <1>0, <1>8, <2>1 DEF CompleteItem, caller, world, state, agent, ears
  <2> QED
    BY <1>1, <1>8, <2>2 DEF CompleteItem, ears
<1>9. CASE CloseSession \/ Closed \/ Wait \/ ContextDone
  <2>1. TypeOK'
    BY <1>0, <1>9 DEF CloseSession, Closed, Wait, ContextDone, Goto, Killed,
       caller, world, state, agent, ears
  <2> QED
    BY <1>1, <1>9, <2>1 DEF CloseSession, Closed, Wait, ContextDone, ears
<1>10. CASE Finish
  <2>1. PICK x \in FinishReply(reply, IF result = "completed" THEN text ELSE <<>>) :
          reply' = x.r /\ finish' = IF x.ok THEN "ok" ELSE "error"
    BY <1>10 DEF Finish
  <2>2. (IF result = "completed" THEN text ELSE <<>>) \in Seq(Nat)
    BY <1>0
  <2>3. x.r \in Reply /\ SoundReply(x.r)
    BY <1>0, <2>1, <2>2, FinishReplyFacts DEF Sound
  <2>4. TypeOK'
    BY <1>0, <1>10, <2>1, <2>3 DEF Finish, caller, world, state, agent
  <2> QED
    BY <2>1, <2>3, <2>4 DEF Typed, SoundReply
<1>11. CASE UNCHANGED vars
  <2>1. TypeOK'
    BY <1>0, <1>11 DEF vars, caller, world, state, agent, ears
  <2> QED
    BY <1>1, <1>11, <2>1 DEF vars, ears
<1> QED
  BY <1>2, <1>3, <1>4, <1>5, <1>6, <1>7, <1>8, <1>9, <1>10, <1>11
     DEF Next, Caller, Deliver, Chunks

-----------------------------------------------------------------------------
\* What is left to deliver, step by step.

\* A delivery takes the head of a queue, or takes it a stage further.
LEMMA ShapesDeliver ==
  ASSUME Typed, Stages, Shapes, NEW g \in Goroutine, Deliver(g)
  PROVE  Shapes'
<1> USE DEF Now, Then
<1>0. TypeOK /\ Len(todo["reader"]) \in Nat /\ Len(todo["asker"]) \in Nat /\ Len(todo["caller"]) \in Nat
  BY DEF Typed, TypeOK, Goroutine
<1>1. /\ ~Idle(g) /\ (Popped(g) \/ \E do \in {"sink", "fail"} : Advanced(g, do))
      /\ UNCHANGED <<pc, turn, started, completed, leftover>>
  BY <1>0, DeliverQueue DEF caller
<1>2. \A h \in Goroutine : Idle(h) <=> Len(todo[h]) = 0
  BY <1>0 DEF TypeOK, Idle
<1>3. TypeOK' => \A h \in Goroutine : Idle(h)' <=> Len(todo'[h]) = 0
  BY DEF TypeOK, Idle
<1>4. TypeOK'
  BY TypeNext DEF Next, Typed
<1>5. \A h \in Goroutine : (Idle(h) <=> Len(todo[h]) = 0) /\ (Idle(h)' <=> Len(todo'[h]) = 0)
  BY <1>2, <1>3, <1>4
<1>6. todo[g][1] \in Saying /\ Len(todo[g]) >= 1
  BY <1>0, <1>1, QueueSteps
<1>7. ASSUME NEW do \in {"sink", "fail"}, Advanced(g, do)
      PROVE  todo'[g][1].item = todo[g][1].item /\ todo'[g][1].what = todo[g][1].what
  BY <1>6, <1>7 DEF Advanced, Saying
<1> DEFINE Kept == /\ Len(todo'[g]) = Len(todo[g]) /\ Others(g)
                   /\ todo'[g][1].item = todo[g][1].item
                   /\ todo'[g][1].what = todo[g][1].what
                   /\ \A k \in 2..Len(todo[g]) : todo'[g][k] = todo[g][k]
           Less == /\ Len(todo'[g]) = Len(todo[g]) - 1 /\ Others(g)
                   /\ \A k \in 1..Len(todo[g]) - 1 : todo'[g][k] = todo[g][k + 1]
<1>8. Kept \/ Less
  BY <1>1, <1>7 DEF Advanced, Popped
<1>14. Less => /\ Len(todo'[g]) = Len(todo[g]) - 1
               /\ Len(todo[g]) = 2 => todo'[g][1] = todo[g][2]
  OBVIOUS
<1> HIDE DEF Kept, Less
<1>9. "reader" \in Goroutine /\ "asker" \in Goroutine /\ "caller" \in Goroutine
  BY DEF Goroutine
<1>10. CASE g = "reader"
  <2>1. todo'["asker"] = todo["asker"] /\ todo'["caller"] = todo["caller"]
    BY <1>8, <1>9, <1>10 DEF Kept, Less, Others
  <2>2. AskerShape' /\ CallerShape'
    BY <1>1, <1>5, <1>9, <2>1 DEF Shapes, AskerShape, CallerShape
  <2>3. ReaderShape'
    <3>1. CASE Kept
      BY <1>0, <1>1, <1>5, <1>9, <1>10, <3>1 DEF Shapes, ReaderShape, Kept
    <3>2. CASE Less
      <4>1. /\ Len(todo'["reader"]) = Len(todo["reader"]) - 1
            /\ Len(todo["reader"]) = 2 => todo'["reader"][1] = todo["reader"][2]
        BY <1>10, <1>14, <3>2
      <4>2. Len(todo["reader"]) \in {1, 2}
        BY <1>6, <1>10 DEF Shapes, ReaderShape
      <4>3. CASE Len(todo["reader"]) = 1
        BY <1>5, <1>9, <4>1, <4>3 DEF ReaderShape
      <4>4. CASE Len(todo["reader"]) = 2
        BY <1>1, <1>5, <1>9, <4>1, <4>4 DEF Shapes, ReaderShape
      <4> QED
        BY <4>2, <4>3, <4>4
    <3> QED
      BY <1>8, <3>1, <3>2
  <2>4. ReaderCompletes' => ReaderCompletes
    <3>1. CASE Kept
      BY <1>0, <1>10, <3>1 DEF ReaderCompletes, Kept
    <3>2. CASE Less
      <4>1. /\ Len(todo'["reader"]) = Len(todo["reader"]) - 1
            /\ Len(todo["reader"]) = 2 => todo'["reader"][1] = todo["reader"][2]
        BY <1>10, <1>14, <3>2
      <4>2. Len(todo["reader"]) \in {1, 2}
        BY <1>6, <1>10 DEF Shapes, ReaderShape
      <4>3. CASE Len(todo["reader"]) = 1
        BY <4>1, <4>3 DEF ReaderCompletes
      <4>4. CASE Len(todo["reader"]) = 2
        BY <4>1, <4>4 DEF ReaderCompletes
      <4> QED
        BY <4>2, <4>3, <4>4
    <3> QED
      BY <1>8, <3>1, <3>2
  <2> QED
    BY <1>1, <2>2, <2>3, <2>4 DEF Shapes
<1>11. CASE g = "asker"
  <2>1. todo'["reader"] = todo["reader"] /\ todo'["caller"] = todo["caller"]
    BY <1>8, <1>9, <1>11 DEF Kept, Less, Others
  <2>2. ReaderShape' /\ CallerShape' /\ (ReaderCompletes' => "tool" \in completed')
    BY <1>1, <1>5, <1>9, <2>1 DEF Shapes, ReaderShape, CallerShape, ReaderCompletes
  <2>3. AskerShape'
    <3>1. CASE Kept
      BY <1>0, <1>1, <1>5, <1>9, <1>11, <3>1 DEF Shapes, AskerShape, Kept
    <3>2. CASE Less
      BY <1>14, <1>0, <1>1, <1>5, <1>6, <1>9, <1>11, <3>2 DEF Shapes, AskerShape, Less
    <3> QED
      BY <1>8, <3>1, <3>2
  <2> QED
    BY <2>2, <2>3 DEF Shapes
<1>12. CASE g = "caller"
  <2>1. todo'["reader"] = todo["reader"] /\ todo'["asker"] = todo["asker"]
    BY <1>8, <1>9, <1>12 DEF Kept, Less, Others
  <2>2. ReaderShape' /\ AskerShape' /\ (ReaderCompletes' => "tool" \in completed')
    BY <1>1, <1>5, <1>9, <2>1 DEF Shapes, ReaderShape, AskerShape, ReaderCompletes
  <2>3. CallerShape'
    <3>1. CASE Kept
      BY <1>0, <1>1, <1>5, <1>9, <1>12, <3>1 DEF Shapes, CallerShape, Kept
    <3>2. CASE Less
      BY <1>14, <1>0, <1>1, <1>5, <1>6, <1>9, <1>12, <3>2 DEF Shapes, CallerShape, Less
    <3> QED
      BY <1>8, <3>1, <3>2
  <2> QED
    BY <2>2, <2>3 DEF Shapes
<1> QED
  BY <1>10, <1>11, <1>12 DEF Goroutine

\* The handlers, and what Turn has still to announce.
LEMMA ShapesNext == Typed /\ Stages /\ Shapes /\ [Next]_vars => Shapes'
<1> SUFFICES ASSUME Typed, Stages, Shapes, [Next]_vars PROVE Shapes'
  OBVIOUS
<1> USE DEF Now, Then
<1>0. TypeOK /\ TypeOK'
  BY TypeNext DEF Typed
<1>1. \A h \in Goroutine : (Idle(h) <=> Len(todo[h]) = 0) /\ (Idle(h)' <=> Len(todo'[h]) = 0)
  BY <1>0 DEF TypeOK, Idle
<1>2. "reader" \in Goroutine /\ "asker" \in Goroutine /\ "caller" \in Goroutine
  BY DEF Goroutine
<1>3. ASSUME NEW g \in Goroutine, Deliver(g) PROVE Shapes'
  BY <1>3, ShapesDeliver
<1>4. ASSUME NEW i \in Chunks, Chunk(i) PROVE Shapes'
  <2>1. /\ UNCHANGED <<pc, turn, completed, leftover>> /\ started' = started \cup {i}
        /\ turn = "set"
    BY <1>4 DEF Chunk, Reads, caller
  <2>2. i \in Item /\ Piece(i) \in Seq(Nat)
    BY <1>0, PieceFacts DEF Chunks, Item
  <2>3. Others("reader")
    BY <1>0, <1>4, ChunkQueue DEF One, Two
  <2>4. ReaderShape' /\ ~ReaderCompletes'
    <3>1. CASE One("reader", Say(i, "delta", Piece(i)))
      BY <1>1, <1>2, <2>1, <2>2, <3>1, SayFacts DEF One, ReaderShape, ReaderCompletes
    <3>2. CASE Two("reader", Tell(i, "started"), Say(i, "delta", Piece(i)))
      BY <1>1, <1>2, <2>1, <2>2, <3>2, SayFacts DEF Two, ReaderShape, ReaderCompletes
    <3> QED
      BY <1>0, <1>4, <3>1, <3>2, ChunkQueue
  <2>5. AskerShape' /\ CallerShape'
    BY <1>1, <1>2, <2>1, <2>3 DEF Shapes, AskerShape, CallerShape, Others
  <2> QED
    BY <2>4, <2>5 DEF Shapes
<1>5. CASE ToolCall
  <2>1. /\ UNCHANGED <<pc, turn, completed, leftover>> /\ started' = started \cup {"tool"}
        /\ turn = "set"
    BY <1>5 DEF ToolCall, Reads, caller
  <2>2. One("reader", Tell("tool", "started"))
    BY <1>0, <1>5, PlainQueues
  <2>3. ReaderShape' /\ ~ReaderCompletes'
    <3>1. "tool" \in Item /\ <<>> \in Seq(Nat)
      BY DEF Item
    <3> QED
      BY <1>1, <1>2, <2>1, <2>2, <3>1, TellFacts DEF One, ReaderShape, ReaderCompletes
  <2>4. AskerShape' /\ CallerShape'
    BY <1>1, <1>2, <2>1, <2>2 DEF Shapes, AskerShape, CallerShape, Others, One
  <2> QED
    BY <2>3, <2>4 DEF Shapes
<1>6. ASSUME NEW terminal \in BOOLEAN, ToolCallUpdate(terminal) PROVE Shapes'
  <2>1. /\ UNCHANGED <<pc, turn, leftover>> /\ started' = started \cup {"tool"}
        /\ turn = "set" /\ completed \subseteq completed'
        /\ terminal => "tool" \in completed'
    BY <1>6 DEF ToolCallUpdate, Reads, caller
  <2>2. "tool" \in Item /\ <<>> \in Seq(Nat)
    BY DEF Item
  <2>3. Others("reader")
    BY <1>0, <1>6, ToolQueue DEF One, Two
  <2>4. ReaderShape' /\ (ReaderCompletes' => "tool" \in completed')
    <3>1. CASE One("reader", Tell("tool", "updated"))
      BY <1>1, <1>2, <2>1, <2>2, <3>1, TellFacts DEF One, ReaderShape, ReaderCompletes
    <3>2. CASE terminal /\ Two("reader", Tell("tool", "updated"), Tell("tool", "completed"))
      BY <1>1, <1>2, <2>1, <2>2, <3>2, TellFacts DEF Two, ReaderShape, ReaderCompletes
    <3> QED
      BY <1>0, <1>6, <3>1, <3>2, ToolQueue
  <2>5. AskerShape' /\ CallerShape'
    BY <1>1, <1>2, <2>1, <2>3 DEF Shapes, AskerShape, CallerShape, Others
  <2> QED
    BY <2>4, <2>5 DEF Shapes
<1>7. CASE RequestPermission
  <2>1. UNCHANGED <<pc, turn, completed, leftover, started>> /\ turn = "set"
    BY <1>7 DEF RequestPermission, Reads, caller, state
  <2>2. Two("asker", Tell("permission", "started"), Tell("permission", "completed"))
    BY <1>0, <1>7, PlainQueues
  <2>3. AskerShape'
    <3>1. "permission" \in Item /\ <<>> \in Seq(Nat)
      BY DEF Item
    <3> QED
      BY <1>1, <1>2, <2>1, <2>2, <3>1, TellFacts DEF Two, AskerShape
  <2>4. ReaderShape' /\ CallerShape' /\ (ReaderCompletes' => "tool" \in completed')
    BY <1>1, <1>2, <2>1, <2>2 DEF Shapes, ReaderShape, CallerShape, ReaderCompletes, Others, Two
  <2> QED
    BY <2>3, <2>4 DEF Shapes
<1>8. CASE CompleteItem
  <2>1. UNCHANGED <<pc, turn, completed, started>> /\ pc = "completing"
    BY <1>8 DEF CompleteItem, caller, state
  <2>2. PICK i \in leftover : /\ todo' = [todo EXCEPT !["caller"] = <<Tell(i, "completed")>>]
                              /\ leftover' = leftover \ {i}
    BY <1>8 DEF CompleteItem
  <2>3. i \in Item /\ i \in started /\ i \in completed /\ i \notin leftover' /\ <<>> \in Seq(Nat)
    BY <1>0, <2>2 DEF Stages, TypeOK
  <2>4. One("caller", Tell(i, "completed"))
    BY <1>0, <2>2, <2>3, PlainQueues
  <2>5. CallerShape'
    BY <1>1, <1>2, <2>1, <2>3, <2>4, TellFacts DEF One, CallerShape
  <2>6. ReaderShape' /\ AskerShape' /\ (ReaderCompletes' => "tool" \in completed')
    BY <1>1, <1>2, <2>1, <2>4 DEF Shapes, ReaderShape, AskerShape, ReaderCompletes, Others, One
  <2> QED
    BY <2>5, <2>6 DEF Shapes
<1>9. ASSUME UNCHANGED <<todo, started>>, completed \subseteq completed', turn # "none" => turn' # "none",
             Idle("caller") \/ UNCHANGED <<pc, completed, leftover>>
      PROVE  Shapes'
  BY <1>1, <1>2, <1>9 DEF Shapes, ReaderShape, AskerShape, CallerShape, ReaderCompletes
<1>10. CASE Answer \/ Wait \/ ContextDone \/ Finish \/ UNCHANGED vars
  <2>1. UNCHANGED <<todo, started, pc, completed, leftover, turn>>
    BY <1>10 DEF Answer, Wait, ContextDone, Finish, vars, caller, state
  <2> QED
    BY <1>9, <2>1
<1>11. CASE Start \/ BeginTurn \/ PromptReturns \/ EndTurn \/ CloseSession \/ Closed
  <2>1. Idle("caller")
    BY <1>11 DEF Shapes, CallerShape, Start, BeginTurn, PromptReturns, EndTurn, CloseSession, Closed
  <2>2. UNCHANGED <<todo, started>> /\ completed \subseteq completed'
    BY <1>11 DEF Start, BeginTurn, PromptReturns, EndTurn, CloseSession, Closed, state
  <2>3. turn # "none" => turn' # "none"
    BY <1>11 DEF Start, BeginTurn, PromptReturns, EndTurn, CloseSession, Closed, state
  <2> QED
    BY <1>9, <2>1, <2>2, <2>3
<1> QED
  BY <1>3, <1>4, <1>5, <1>6, <1>7, <1>8, <1>10, <1>11 DEF Next, Caller, Chunks

-----------------------------------------------------------------------------
\* Where the caller is, step by step.

\* Turn's own steps.
LEMMA StagesCaller ==
  ASSUME Typed, Stages, Shapes,
         Start \/ BeginTurn \/ PromptReturns \/ EndTurn \/ CloseSession \/ Closed
  PROVE  Stages'
<1>0. /\ UNCHANGED <<todo, started, tools, err, refused>>
      /\ Start \/ BeginTurn \/ EndTurn \/ CloseSession \/ Closed =>
           UNCHANGED <<completed, leftover, answer>>
  BY DEF Start, BeginTurn, PromptReturns, EndTurn, CloseSession, Closed, state, ears, agent
<1>1. \A g \in Goroutine : ~Idle(g)' /\ Now(g)'.do = "fail" => refused'
  BY <1>0 DEF Stages, Idle, Now
<1>2. started \subseteq Parts /\ ("tool" \in tools <=> "tool" \in started) /\ (err => refused)
  BY DEF Stages
<1>3. CASE Start \/ CloseSession \/ Closed
  BY <1>0, <1>1, <1>2, <1>3 DEF Stages, Start, CloseSession, Closed, Goto, Return, state
<1>4. CASE BeginTurn
  BY <1>0, <1>1, <1>2, <1>4 DEF Stages, BeginTurn, Goto, Return
<1>5. CASE PromptReturns
  <2>1. /\ turn' = turn /\ turn = "set" /\ pc' = "completing" /\ answer' # "none"
        /\ leftover' = started \ completed /\ completed' = completed \cup started
    BY <1>5 DEF PromptReturns, Stages, Goto, agent
  <2> QED
    BY <1>0, <1>1, <1>2, <2>1 DEF Stages
<1>6. CASE EndTurn
  BY <1>0, <1>1, <1>2, <1>6 DEF Stages, EndTurn, Return
<1> QED
  BY <1>3, <1>4, <1>5, <1>6

\* Every step leaves the caller at one of its stages.
LEMMA StagesNext == Typed /\ Stages /\ Shapes /\ [Next]_vars => Stages'
<1> SUFFICES ASSUME Typed, Stages, Shapes, [Next]_vars PROVE Stages'
  OBVIOUS
<1>0. TypeOK /\ TypeOK'
  BY TypeNext DEF Typed
<1>1. ASSUME NEW g \in Goroutine, Deliver(g) PROVE Stages'
  <2>1. /\ ~Idle(g) /\ (Popped(g) \/ \E do \in {"sink", "fail"} : Advanced(g, do))
        /\ UNCHANGED <<pc, turn, started, completed, tools, leftover, answer>>
    BY <1>0, <1>1, DeliverQueue DEF caller, agent
  <2>2. (err' => refused') /\ (refused => refused')
    <3>1. CASE CheckTurn(g)
      BY <3>1 DEF CheckTurn, state, ears, Stages
    <3>2. CASE CallSink(g)
      <4>1. err' = err /\ (refused => refused')
        BY <1>0, <3>2, SinkCalled
      <4> QED
        BY <4>1 DEF Stages
    <3>3. CASE SinkFailed(g)
      BY <3>3 DEF SinkFailed, At, ears, Stages, Now
    <3> QED
      BY <1>1, <3>1, <3>2, <3>3 DEF Deliver
  <2>3. Now(g).do \in {"check", "sink", "fail"} /\ Len(todo[g]) >= 1 /\ Len(todo[g]) \in Nat
    BY <1>0, <2>1, QueueSteps DEF Now, Saying
  <2>4. ASSUME ~Idle(g)', Now(g)'.do = "fail" PROVE refused'
    <3>1. CASE Popped(g)
      <4>1. Len(todo[g]) = 2 /\ todo'[g][1] = todo[g][2]
        <5>1. Len(todo[g]) \in {0, 1, 2}
          <6>1. /\ Len(todo["reader"]) \in {0, 1, 2} /\ Len(todo["asker"]) \in {0, 1, 2}
                /\ Len(todo["caller"]) \in {0, 1}
            BY DEF Shapes, ReaderShape, AskerShape, CallerShape
          <6> QED
            BY <6>1 DEF Goroutine
        <5>2. Len(todo'[g]) # 0
          BY <1>0, <2>4 DEF TypeOK, Idle
        <5> QED
          <6>1. Len(todo'[g]) = Len(todo[g]) - 1
            BY <3>1 DEF Popped
          <6>2. Len(todo[g]) = 2
            BY <2>3, <5>1, <5>2, <6>1
          <6> QED
            BY <3>1, <6>2 DEF Popped
      <4>2. todo[g][2].do = "check"
        BY <4>1 DEF Shapes, ReaderShape, AskerShape, CallerShape, Goroutine, Then
      <4> QED
        BY <2>4, <4>1, <4>2 DEF Now
    <3>2. ASSUME NEW do \in {"sink", "fail"}, Advanced(g, do)
          PROVE  refused'
      <4>1. CASE CallSink(g)
        <5>1. ~Popped(g)
          BY <2>3, <3>2 DEF Popped, Advanced
        <5> QED
          BY <1>0, <4>1, <5>1, SinkCalled
      <4>2. CASE CheckTurn(g)
        <5>1. ~Popped(g)
          BY <2>3, <3>2 DEF Popped, Advanced
        <5>2. On(g, "sink")
          BY <1>0, <2>1, <4>2, <5>1, QueueSteps DEF CheckTurn
        <5>3. Advanced(g, "sink") /\ todo[g][1] \in Saying
          BY <1>0, <2>1, <5>2, QueueSteps
        <5> QED
          BY <2>4, <5>3 DEF Advanced, Now, Saying
      <4>3. CASE SinkFailed(g)
        BY <2>2, <4>3 DEF SinkFailed, At, Stages, Now, Idle
      <4> QED
        BY <1>1, <4>1, <4>2, <4>3 DEF Deliver
    <3> QED
      BY <2>1, <3>1, <3>2
  <2>5. ASSUME NEW h \in Goroutine, h # g, ~Idle(h)', Now(h)'.do = "fail" PROVE refused'
    BY <2>1, <2>2, <2>5 DEF Popped, Advanced, Others, Stages, Idle, Now
  <2>6. \A h \in Goroutine : ~Idle(h)' /\ Now(h)'.do = "fail" => refused'
    BY <2>4, <2>5
  <2> QED
    BY <2>1, <2>2, <2>6 DEF Stages
<1>2. ASSUME UNCHANGED <<turn, answer, pc, leftover, err, refused>>, turn = "set",
             started' \in {started} \cup {started \cup {i} : i \in Parts},
             completed' = completed \/ (completed' = completed \cup {"tool"} /\ "tool" \in started'),
             "tool" \in tools' <=> "tool" \in started',
             \A h \in Goroutine : ~Idle(h)' /\ Now(h)'.do = "fail" => ~Idle(h) /\ Now(h).do = "fail"
      PROVE  Stages'
  BY <1>2 DEF Stages, Parts
<1>3. ASSUME NEW i \in Chunks, Chunk(i) PROVE Stages'
  <2>1. /\ UNCHANGED <<turn, answer, pc, leftover, err, refused, completed, tools>>
        /\ turn = "set" /\ started' = started \cup {i} /\ i \in Parts /\ i # "tool"
    BY <1>3 DEF Chunk, Reads, Handled, caller, ears, Chunks, Parts
  <2>2. Others("reader") /\ todo'["reader"][1].do = "check"
    <3>1. i \in Item /\ Piece(i) \in Seq(Nat)
      BY <1>0, PieceFacts DEF Chunks, Item
    <3>2. Say(i, "delta", Piece(i)).do = "check" /\ Tell(i, "started").do = "check"
      BY <3>1, SayFacts
    <3> QED
      BY <1>0, <1>3, <3>2, ChunkQueue DEF One, Two
  <2>3. \A h \in Goroutine : ~Idle(h)' /\ Now(h)'.do = "fail" => ~Idle(h) /\ Now(h).do = "fail"
    BY <2>2 DEF Others, Idle, Now
  <2> QED
    BY <1>2, <2>1, <2>3 DEF Stages
<1>4. CASE ToolCall \/ \E terminal \in BOOLEAN : ToolCallUpdate(terminal)
  <2>1. /\ UNCHANGED <<turn, answer, pc, leftover, err, refused>>
        /\ turn = "set" /\ started' = started \cup {"tool"} /\ tools' = tools \cup {"tool"}
        /\ completed' = completed \/ completed' = completed \cup {"tool"}
    BY <1>4 DEF ToolCall, ToolCallUpdate, Reads, Handled, caller, ears
  <2>2. Others("reader") /\ todo'["reader"][1].do = "check"
    <3>1. "tool" \in Item
      BY DEF Item
    <3>2. Tell("tool", "updated").do = "check" /\ Tell("tool", "started").do = "check"
      BY <3>1, TellFacts
    <3> QED
      BY <1>0, <1>4, <3>2, ToolQueue, PlainQueues DEF One, Two
  <2>3. \A h \in Goroutine : ~Idle(h)' /\ Now(h)'.do = "fail" => ~Idle(h) /\ Now(h).do = "fail"
    BY <2>2 DEF Others, Idle, Now
  <2>4. "tool" \in Parts /\ "tool" \in started' /\ "tool" \in tools'
    BY <2>1 DEF Parts
  <2> QED
    BY <1>2, <2>1, <2>3, <2>4
<1>5. CASE RequestPermission
  <2>1. UNCHANGED <<turn, answer, pc, leftover, err, refused, started, completed, tools>> /\ turn = "set"
    BY <1>5 DEF RequestPermission, Reads, Handled, caller, state, ears
  <2>2. Others("asker") /\ todo'["asker"][1].do = "check"
    <3>1. "permission" \in Item
      BY DEF Item
    <3> QED
      BY <1>0, <1>5, <3>1, TellFacts, PlainQueues DEF Two
  <2>3. \A h \in Goroutine : ~Idle(h)' /\ Now(h)'.do = "fail" => ~Idle(h) /\ Now(h).do = "fail"
    BY <2>2 DEF Others, Idle, Now
  <2> QED
    BY <1>2, <2>1, <2>3 DEF Stages
<1>6. CASE CompleteItem
  <2>1. UNCHANGED <<turn, answer, pc, err, refused, started, completed, tools>>
        /\ leftover' \subseteq leftover
    BY <1>6 DEF CompleteItem, caller, agent, state, ears
  <2>2. Others("caller") /\ todo'["caller"][1].do = "check"
    <3>1. PICK i \in leftover : todo' = [todo EXCEPT !["caller"] = <<Tell(i, "completed")>>]
      BY <1>6 DEF CompleteItem
    <3>2. i \in Item
      BY <1>0 DEF TypeOK
    <3>3. One("caller", Tell(i, "completed"))
      BY <1>0, <3>1, <3>2, PlainQueues
    <3> QED
      BY <3>2, <3>3, TellFacts DEF One
  <2>3. \A h \in Goroutine : ~Idle(h)' /\ Now(h)'.do = "fail" => ~Idle(h) /\ Now(h).do = "fail"
    BY <2>2 DEF Others, Idle, Now
  <2> QED
    BY <2>1, <2>3 DEF Stages
<1>7. CASE Answer
  <2>1. /\ UNCHANGED <<turn, pc, leftover, err, refused, started, completed, tools, todo>>
        /\ answer' \in {"end", "cancelled", "error"} /\ turn = "set"
    BY <1>7 DEF Answer, caller, state, ears
  <2> QED
    BY <2>1 DEF Stages, Idle, Now
<1>8. CASE Wait \/ ContextDone \/ Finish \/ UNCHANGED vars
  <2>1. UNCHANGED <<turn, answer, pc, leftover, err, refused, started, completed, tools, todo>>
    BY <1>8 DEF Wait, ContextDone, Finish, vars, caller, state, agent, ears
  <2> QED
    BY <2>1 DEF Stages, Idle, Now
<1> QED
  BY <1>1, <1>3, <1>4, <1>5, <1>6, <1>7, <1>8, StagesCaller DEF Next, Caller, Chunks

-----------------------------------------------------------------------------
\* The order of what the run stream hears.

Framed == Typed /\ Stages /\ Shapes

\* A busy goroutine works for the turn that is under way, on an item of its own.
LEMMA BusyFacts ==
  ASSUME Framed, Ordered, NEW g \in Goroutine, ~Idle(g)
  PROVE  /\ turn = "set" /\ Now(g) \in Saying /\ Now(g).item \in Item
         /\ g # "caller" => pc = "prompt" /\ leftover = {} /\ answer = "none" /\ Idle("caller")
         /\ g = "caller" => Idle("reader") /\ Idle("asker") /\ pc = "completing"
         /\ \A h \in Goroutine : h # g /\ ~Idle(h) => Now(h).item # Now(g).item
         /\ g # "asker" => Now(g).item \in started /\ Now(g).item \in Parts
         /\ g = "asker" => Now(g).item = "permission"
<1>1. Now(g) \in Saying
  BY QueueSteps DEF Framed, Typed, Now
<1>2. g # "caller" => pc = "prompt" /\ leftover = {} /\ answer = "none" /\ Idle("caller") /\ turn = "set"
  BY DEF Framed, Shapes, ReaderShape, AskerShape, CallerShape, Stages, Ordered, Goroutine
<1>3. g = "caller" => Idle("reader") /\ Idle("asker") /\ turn = "set" /\ pc = "completing"
  BY DEF Framed, Shapes, CallerShape, Stages, Ordered
<1>4. g # "asker" => Now(g).item \in started /\ Now(g).item \in Parts
  BY DEF Framed, Shapes, ReaderShape, CallerShape, Stages, Goroutine
<1>5. g = "asker" => Now(g).item = "permission"
  BY DEF Framed, Shapes, AskerShape
<1>6. Now(g).item \in Item
  BY <1>1 DEF Saying
<1>7. ASSUME NEW h \in Goroutine, h # g, ~Idle(h) PROVE Now(h).item # Now(g).item
  <2>1. h = "asker" \/ Now(h).item \in Parts
    BY <1>7 DEF Framed, Shapes, ReaderShape, CallerShape, Stages, Goroutine
  <2>2. h = "asker" => Now(h).item = "permission"
    BY <1>7 DEF Framed, Shapes, AskerShape
  <2>3. g = "asker" \/ h = "asker"
    BY <1>2, <1>3, <1>7 DEF Goroutine
  <2> QED
    BY <1>4, <1>5, <1>7, <2>1, <2>2, <2>3 DEF Parts, Chunks
<1> QED
  BY <1>1, <1>2, <1>3, <1>4, <1>5, <1>6, <1>7

\* What comes after the event at the head is about the same item, which the head
\* leaves open.
LEMMA NextHead ==
  ASSUME Framed, NEW g \in Goroutine, ~Idle(g), Popped(g), ~Idle(g)'
  PROVE  /\ Len(todo[g]) = 2 /\ Len(todo'[g]) = 1
         /\ Now(g)' = Then(g) /\ Now(g)'.do = "check" /\ Now(g)'.item = Now(g).item
         /\ Now(g).what \in {"started", "updated"}
         /\ Now(g)'.what \in {"delta", "completed"}
<1>1. Len(todo[g]) \in {0, 1, 2}
  <2>1. /\ Len(todo["reader"]) \in {0, 1, 2} /\ Len(todo["asker"]) \in {0, 1, 2}
        /\ Len(todo["caller"]) \in {0, 1}
    BY DEF Framed, Shapes, ReaderShape, AskerShape, CallerShape
  <2> QED
    BY <2>1 DEF Goroutine
<1>2. Len(todo'[g]) = Len(todo[g]) - 1 /\ Len(todo'[g]) # 0
  BY DEF Popped, Idle
<1>3. Len(todo[g]) >= 1 /\ Len(todo[g]) \in Nat
  BY QueueSteps DEF Framed, Typed
<1>4. Len(todo[g]) = 2 /\ Len(todo'[g]) = 1
  BY <1>1, <1>2, <1>3
<1>5. Now(g)' = Then(g)
  BY <1>4 DEF Popped, Now, Then
<1>6. /\ Then(g).do = "check" /\ Then(g).item = Now(g).item
      /\ Now(g).what \in {"started", "updated"} /\ Then(g).what \in {"delta", "completed"}
  BY <1>4 DEF Framed, Shapes, ReaderShape, AskerShape, CallerShape, Goroutine
<1> QED
  BY <1>4, <1>5, <1>6

\* The same event, one stage further.
LEMMA SameHead ==
  ASSUME Framed, NEW g \in Goroutine, ~Idle(g), NEW do \in {"check", "sink", "fail"},
         Advanced(g, do)
  PROVE  /\ ~Idle(g)' /\ Len(todo'[g]) = Len(todo[g]) /\ Now(g)'.do = do
         /\ Now(g)'.item = Now(g).item /\ Now(g)'.what = Now(g).what
         /\ Now(g)'.text = Now(g).text
         /\ Len(todo[g]) = 2 => Then(g)' = Then(g)
<1>1. Len(todo[g]) >= 1 /\ Len(todo[g]) \in Nat /\ todo[g][1] \in Saying
  BY QueueSteps DEF Framed, Typed
<1>2. Len(todo'[g]) = Len(todo[g]) /\ todo'[g] \in Seq(Saying)
  BY DEF Advanced
<1>3. ~Idle(g)'
  BY <1>1, <1>2 DEF Idle
<1>4. Now(g)' = [todo[g][1] EXCEPT !.do = do]
  BY DEF Advanced, Now
<1>5. Len(todo[g]) = 2 => Then(g)' = Then(g)
  BY DEF Advanced, Then
<1> QED
  BY <1>1, <1>2, <1>3, <1>4, <1>5 DEF Saying, Now

\* What no step of another goroutine touches.
LEMMA OthersKeep ==
  ASSUME NEW g \in Goroutine, Others(g), NEW h \in Goroutine, h # g
  PROVE  /\ Idle(h)' <=> Idle(h)
         /\ Now(h)' = Now(h) /\ Then(h)' = Then(h) /\ Len(todo'[h]) = Len(todo[h])
  BY DEF Others, Idle, Now, Then

\* The agent that keeps to the protocol after a step kept to it before.
LEMMA OrderlyBefore == Typed /\ [Next]_vars /\ Orderly' => Orderly
<1> SUFFICES ASSUME Typed, [Next]_vars, Orderly' PROVE Orderly
  OBVIOUS
<1>1. ASSUME UNCHANGED agent PROVE Orderly
  BY <1>1 DEF Orderly, agent
<1>2. ASSUME NEW g \in Goroutine, Deliver(g) PROVE Orderly
  BY <1>1, <1>2 DEF Deliver, CheckTurn, CallSink, SinkFailed
<1>3. CASE Chunk("message") \/ Chunk("thought")
  BY <1>3 DEF Chunk, Handled, Orderly
<1>4. CASE ToolCall \/ RequestPermission \/ \E terminal \in BOOLEAN : ToolCallUpdate(terminal)
  BY <1>4 DEF ToolCall, RequestPermission, ToolCallUpdate, Handled, Orderly
<1>5. CASE Answer \/ PromptReturns
  <2>1. CASE Answer
    BY <2>1 DEF Answer, Orderly
  <2>2. CASE PromptReturns
    BY <2>2 DEF PromptReturns, Orderly, agent
  <2> QED
    BY <1>5, <2>1, <2>2
<1>6. CASE \/ Start \/ BeginTurn \/ CompleteItem \/ EndTurn \/ CloseSession \/ Closed
           \/ Wait \/ Finish \/ ContextDone \/ UNCHANGED vars
  BY <1>1, <1>6 DEF Start, BeginTurn, CompleteItem, EndTurn, CloseSession, Closed, Wait, Finish,
     ContextDone, vars
<1> QED
  BY <1>2, <1>3, <1>4, <1>5, <1>6 DEF Next, Caller

\* What becomes of the event at the head of g's queue.
Dropped(g) == Popped(g) /\ err' /\ told' = told
Passed(g) == Advanced(g, "sink") /\ Now(g).do = "check" /\ ~err /\ ~err' /\ told' = told
Failed(g) == Advanced(g, "fail") /\ refused' /\ told' = told
Heard(g) == /\ Popped(g) /\ Now(g).do = "sink" /\ sink = "run"
            /\ told' = [told EXCEPT ![Now(g).item] = Hear(told[Now(g).item], Now(g).what)]
Replied(g) == Popped(g) /\ sink = "reply" /\ told' = told

\* In a turn that keeps its order, an event is dropped only when the sink failed.
LEMMA DeliverCases ==
  ASSUME Framed, Ordered, NEW g \in Goroutine, Deliver(g)
  PROVE  /\ ~Idle(g)
         /\ UNCHANGED <<turn, started, completed, tools, leftover, answer, pc, sink>>
         /\ (err => err')
         /\ Dropped(g) \/ Passed(g) \/ Failed(g) \/ Heard(g) \/ Replied(g)
<1>0. TypeOK
  BY DEF Framed, Typed
<1>1. /\ ~Idle(g) /\ UNCHANGED <<turn, started, completed, tools, leftover, answer, pc, sink>>
      /\ (err => err')
  BY <1>0, DeliverQueue DEF caller, agent
<1>2. turn = "set"
  BY <1>1, BusyFacts
<1>3. /\ Become(g, <<>>) => Popped(g)
      /\ On(g, "sink") => Advanced(g, "sink")
  BY <1>0, <1>1, QueueSteps
<1>4. ASSUME CheckTurn(g)
      PROVE  Dropped(g) \/ Passed(g) \/ Failed(g) \/ Heard(g) \/ Replied(g)
  <2>1. Now(g).do = "check" /\ (err' <=> err) /\ told' = told
    BY <1>4 DEF CheckTurn, At, Now, state, ears
  <2>2. CASE err
    <3>1. Become(g, <<>>)
      BY <1>2, <1>4, <2>2 DEF CheckTurn
    <3> QED
      BY <1>1, <1>3, <2>1, <2>2, <3>1 DEF Dropped
  <2>3. CASE ~err
    <3>1. On(g, "sink")
      BY <1>2, <1>4, <2>3 DEF CheckTurn
    <3> QED
      BY <1>3, <2>1, <2>3, <3>1 DEF Passed
  <2> QED
    BY <2>2, <2>3
<1>5. ASSUME CallSink(g)
      PROVE  Dropped(g) \/ Passed(g) \/ Failed(g) \/ Heard(g) \/ Replied(g)
  <2>1. \/ /\ sink = "run" /\ Popped(g)
           /\ told' = [told EXCEPT ![Now(g).item] = Hear(told[Now(g).item], Now(g).what)]
        \/ refused' = TRUE /\ told' = told /\ Advanced(g, "fail")
        \/ sink = "reply" /\ told' = told /\ Popped(g)
    BY <1>0, <1>5, SinkCalled
  <2>2. Now(g).do = "sink"
    BY <1>0, <1>5, SinkCalled
  <2>3. (refused' = TRUE) => refused'
    OBVIOUS
  <2> QED
    BY <2>1, <2>2, <2>3 DEF Failed, Heard, Replied
<1>6. ASSUME SinkFailed(g)
      PROVE  Dropped(g) \/ Passed(g) \/ Failed(g) \/ Heard(g) \/ Replied(g)
  <2>1. Become(g, <<>>) /\ err' = (err \/ turn = "set") /\ told' = told
    BY <1>6 DEF SinkFailed, ears
  <2>2. err'
    BY <1>2, <2>1
  <2>3. Popped(g) /\ told' = told
    BY <1>3, <2>1
  <2> QED
    BY <2>2, <2>3 DEF Dropped
<1> QED
  BY <1>1, <1>4, <1>5, <1>6 DEF Deliver

\* A delivery keeps the order.
LEMMA OrderedDeliver ==
  ASSUME Framed, Ordered, NEW g \in Goroutine, Deliver(g)
  PROVE  Ordered'
<1>0. TypeOK /\ told \in [Item -> {"nothing", "open", "closed", "wrong"}]
  BY DEF Framed, Typed, TypeOK
<1>1. /\ ~Idle(g)
      /\ UNCHANGED <<turn, started, completed, tools, leftover, answer, pc, sink>>
      /\ (err => err')
      /\ Dropped(g) \/ Passed(g) \/ Failed(g) \/ Heard(g) \/ Replied(g)
  BY DeliverCases
<1>2. /\ turn = "set" /\ Now(g) \in Saying /\ Now(g).item \in Item
      /\ g # "caller" => pc = "prompt" /\ leftover = {} /\ answer = "none" /\ Idle("caller")
      /\ \A h \in Goroutine : h # g /\ ~Idle(h) => Now(h).item # Now(g).item
      /\ g # "asker" => Now(g).item \in started /\ Now(g).item \in Parts
      /\ g = "asker" => Now(g).item = "permission"
  BY <1>1, BusyFacts
<1>3. Others(g)
  BY <1>1 DEF Dropped, Passed, Failed, Heard, Replied, Popped, Advanced
<1>4. \A h \in Goroutine : h # g => (Idle(h)' <=> Idle(h)) /\ Now(h)' = Now(h)
  BY <1>3, OthersKeep
<1>5. "reader" \in Goroutine /\ "asker" \in Goroutine /\ "caller" \in Goroutine
  BY DEF Goroutine
<1>6. Now(g).what \in {"started", "delta", "updated", "completed"}
  BY <1>2 DEF Saying
<1>7. answer' # "none" => Idle("reader")' /\ Idle("asker")'
  BY <1>1, <1>2, <1>4, <1>5 DEF Ordered
<1>8. turn' # "none" /\ pc' # "prompt" => started' \subseteq completed'
  BY <1>1 DEF Ordered
<1>9. \A i \in Item : i # Now(g).item => told'[i] = told[i]
  BY <1>0, <1>1 DEF Dropped, Passed, Failed, Heard, Replied
<1>10. told' = told \/ /\ Heard(g) /\ Expects(told[Now(g).item], Now(g).what)
                       /\ told'[Now(g).item] = Hear(told[Now(g).item], Now(g).what)
  BY <1>0, <1>1, <1>2 DEF Dropped, Passed, Failed, Heard, Replied, Ordered
<1>16. Heard(g) => /\ Expects(told[Now(g).item], Now(g).what)
                   /\ told'[Now(g).item] = Hear(told[Now(g).item], Now(g).what)
  BY <1>0, <1>1, <1>2 DEF Heard, Ordered
<1>11. \A i \in Item : told'[i] # "wrong"
  BY <1>6, <1>9, <1>10 DEF Ordered, Expects, Hear
<1>12. sink' = "reply" => \A i \in Item : told'[i] = "nothing"
  BY <1>1, <1>10 DEF Ordered, Heard
<1>13. ASSUME sink = "run", NEW h \in Goroutine, ~Idle(h)'
       PROVE  /\ Now(h)'.do = "sink" => Expects(told'[Now(h)'.item], Now(h)'.what)
              /\ Now(h)'.do = "check" /\ ~err' => Expects(told'[Now(h)'.item], Now(h)'.what)
  <2>1. CASE h # g
    <3>1. ~Idle(h) /\ Now(h)' = Now(h) /\ Now(h).item # Now(g).item
      BY <1>2, <1>4, <1>13, <2>1
    <3>2. Now(h).item \in Item
      BY <3>1, BusyFacts
    <3> QED
      BY <1>1, <1>9, <1>13, <3>1, <3>2 DEF Ordered
  <2>2. CASE h = g
    <3>1. CASE Passed(g)
      <4>1. Now(g)'.item = Now(g).item /\ Now(g)'.what = Now(g).what /\ told' = told
        BY <1>1, <3>1, SameHead DEF Passed
      <4> QED
        BY <1>1, <1>13, <2>2, <3>1, <4>1 DEF Passed, Ordered
    <3>2. CASE Failed(g)
      BY <1>1, <2>2, <3>2, SameHead DEF Failed
    <3>3. CASE Popped(g)
      <4>1. /\ Now(g)'.do = "check" /\ Now(g)'.item = Now(g).item
            /\ Now(g).what \in {"started", "updated"} /\ Now(g)'.what \in {"delta", "completed"}
        BY <1>1, <1>13, <2>2, <3>3, NextHead
      <4>2. CASE err'
        BY <2>2, <4>1, <4>2
      <4>3. CASE Heard(g)
        BY <1>16, <1>1, <2>2, <4>1, <4>3 DEF Hear, Expects
      <4> QED
        BY <1>1, <1>13, <2>2, <3>1, <3>2, <4>2, <4>3 DEF Dropped, Replied
    <3> QED
      BY <1>1, <3>1, <3>2, <3>3 DEF Dropped, Heard, Replied
  <2> QED
    BY <2>1, <2>2
<1>14. ASSUME sink = "run", NEW i \in Parts
       PROVE  /\ i \notin started => told'[i] = "nothing"
              /\ /\ i \in started /\ Unclosed(i) /\ ~err'
                 /\ Idle("reader")' \/ Now("reader")'.item # i
                 => told'[i] = "open"
  <2>1. i \in Item /\ i # "permission"
    BY DEF Parts, Chunks, Item
  <2>2. i \notin started => told'[i] = "nothing"
    BY <1>2, <1>9, <1>14, <2>1 DEF Ordered
  <2>3. ASSUME i \in started, Unclosed(i), ~err', Idle("reader")' \/ Now("reader")'.item # i
        PROVE  told'[i] = "open"
    <3>1. CASE Idle("reader") \/ Now("reader").item # i
      <4>1. told[i] = "open"
        BY <1>1, <1>14, <2>3, <3>1 DEF Ordered
      <4>2. Now(g).item # i
        <5>1. g # "reader"  \/ Now(g).item # i
          BY <1>1, <3>1
        <5>2. g # "asker" \/ Now(g).item # i
          BY <1>2, <2>1
        <5>3. g # "caller" \/ Now(g).item # i
          BY <1>1, <2>3 DEF Framed, Shapes, CallerShape, Unclosed
        <5> QED
          BY <5>1, <5>2, <5>3 DEF Goroutine
      <4> QED
        BY <1>9, <2>1, <4>1, <4>2
    <3>2. CASE ~Idle("reader") /\ Now("reader").item = i
      <4>1. g = "reader"
        BY <1>4, <1>5, <2>3, <3>2
      <4>2. ~Passed(g) /\ ~Failed(g)
        BY <1>1, <2>3, <3>2, <4>1, SameHead DEF Passed, Failed
      <4>3. Heard(g)
        BY <1>1, <1>14, <2>3, <4>2 DEF Dropped, Replied
      <4>4. Idle("reader")'
        BY <1>1, <2>3, <3>2, <4>1, <4>3, NextHead DEF Heard
      <4>5. Len(todo["reader"]) = 1
        <5>1. Len(todo'[g]) = 0
          BY <4>1, <4>4 DEF Idle
        <5>2. Len(todo'[g]) = Len(todo[g]) - 1 /\ Len(todo[g]) \in Nat
          BY <1>0, <1>1, <4>3, QueueSteps DEF Heard, Popped
        <5>3. Len(todo[g]) \in {0, 1, 2}
          BY <4>1 DEF Framed, Shapes, ReaderShape
        <5>4. Len(todo[g]) = 1
          BY <5>1, <5>2, <5>3
        <5> QED
          BY <4>1, <5>4
      <4>6. Now(g).what # "completed"
        BY <1>2, <2>3, <3>2, <4>1, <4>5
           DEF Framed, Shapes, ReaderShape, ReaderCompletes, Unclosed, Chunks
      <4> QED
        BY <1>6, <1>16, <3>2, <4>1, <4>3, <4>6 DEF Hear, Expects
    <3> QED
      BY <3>1, <3>2
  <2> QED
    BY <2>2, <2>3
<1>15. \A i : Unclosed(i)' <=> Unclosed(i)
  BY <1>1 DEF Unclosed
<1> QED
  BY <1>1, <1>7, <1>8, <1>11, <1>12, <1>13, <1>14, <1>15 DEF Ordered

\* The reader, with nothing to deliver, takes up an item that may be spoken of.
LEMMA OrderedSaid ==
  ASSUME Framed, Ordered, Idle("reader"), turn = "set", pc = "prompt", answer = "none",
         NEW i \in Parts, UNCHANGED <<turn, pc, answer, told, sink, err, leftover>>,
         Others("reader"), ~Idle("reader")', Now("reader")'.item = i,
         sink = "run" /\ ~err => Expects(told[i], Now("reader")'.what),
         Now("reader")'.do = "check", started' = started \cup {i},
         \A j \in Item : j # i => (j \in completed' <=> j \in completed)
  PROVE  Ordered'
<1>1. "reader" \in Goroutine /\ "asker" \in Goroutine /\ "caller" \in Goroutine
  BY DEF Goroutine
<1>2. \A h \in Goroutine : h # "reader" => (Idle(h)' <=> Idle(h)) /\ Now(h)' = Now(h)
  BY <1>1, OthersKeep
<1>3. ASSUME sink = "run", NEW h \in Goroutine, ~Idle(h)'
      PROVE  /\ Now(h)'.do = "sink" => Expects(told'[Now(h)'.item], Now(h)'.what)
             /\ Now(h)'.do = "check" /\ ~err' => Expects(told'[Now(h)'.item], Now(h)'.what)
  <2>1. CASE h = "reader"
    BY <1>3, <2>1
  <2>2. CASE h # "reader"
    BY <1>2, <1>3, <2>2 DEF Ordered
  <2> QED
    BY <2>1, <2>2
<1>4. ASSUME sink = "run", NEW j \in Parts
      PROVE  /\ j \notin started' => told'[j] = "nothing"
             /\ /\ j \in started' /\ Unclosed(j)' /\ ~err'
                /\ Idle("reader")' \/ Now("reader")'.item # j
                => told'[j] = "open"
  <2>1. j \notin started' => told'[j] = "nothing"
    BY <1>4 DEF Ordered
  <2>2. j # i => (Unclosed(j)' <=> Unclosed(j))
    <3>1. j \in Item
      BY DEF Parts, Chunks, Item
    <3> QED
      BY <3>1 DEF Unclosed
  <2> QED
    BY <1>4, <2>1, <2>2 DEF Ordered
<1> QED
  BY <1>3, <1>4 DEF Ordered

\* What a handler of the reader finds in an orderly turn.
LEMMA ReadsFacts ==
  ASSUME Framed, Reads, NEW unexpected, Handled(unexpected), Orderly'
  PROVE  /\ turn = "set" /\ pc = "prompt" /\ answer = "none" /\ Idle("reader")
         /\ leftover = {} /\ completed \subseteq {"tool"} /\ ~unexpected
         /\ \A h \in Goroutine : h # "asker" => Idle(h)
<1>1. turn = "set" /\ Idle("reader") /\ answer = "none" /\ ~unexpected
  BY DEF Reads, Handled, Orderly
<1>2. pc = "prompt"
  BY <1>1 DEF Framed, Stages
<1>3. Idle("caller")
  BY <1>2 DEF Framed, Shapes, CallerShape
<1> QED
  BY <1>1, <1>2, <1>3 DEF Framed, Stages, Goroutine

\* What is said in a handler is said in order, if the agent is.
LEMMA OrderedReads ==
  ASSUME Framed, Ordered, Orderly',
         \/ \E i \in Chunks : Chunk(i)
         \/ ToolCall
         \/ \E terminal \in BOOLEAN : ToolCallUpdate(terminal)
  PROVE  Ordered'
<1>0. TypeOK
  BY DEF Framed, Typed
<1>1. \A j : Idle(j)' <=> todo'[j] = <<>>
  BY DEF Idle
<1>2. ASSUME NEW i \in Chunks, Chunk(i) PROVE Ordered'
  <2>1. /\ turn = "set" /\ pc = "prompt" /\ answer = "none" /\ Idle("reader")
        /\ completed \subseteq {"tool"} 
    <3>1. Reads /\ Handled(FALSE)
      BY <1>2 DEF Chunk
    <3> QED
      BY <3>1, ReadsFacts
  <2>2. /\ UNCHANGED <<turn, pc, answer, told, sink, err, leftover, completed>>
        /\ started' = started \cup {i}
    BY <1>2 DEF Chunk, Handled, caller, ears
  <2>3. i \in Item /\ i \in Parts /\ Piece(i) \in Seq(Nat) /\ Unclosed(i)
    <3>1. i \in Item /\ i \in Parts /\ i # "tool"
      BY DEF Chunks, Item, Parts
    <3> QED
      BY <1>0, <2>1, <3>1, PieceFacts DEF Unclosed
  <2>4. /\ Others("reader") /\ ~Idle("reader")' /\ Now("reader")'.item = i
        /\ Now("reader")'.do = "check"
        /\ Now("reader")'.what = IF i \in started THEN "delta" ELSE "started"
    <3>1. CASE i \in started /\ One("reader", Say(i, "delta", Piece(i)))
      <4>1. Len(todo'["reader"]) = 1 /\ Now("reader")' = Say(i, "delta", Piece(i))
        BY <3>1 DEF One, Now
      <4> QED
        BY <2>3, <3>1, <4>1, SayFacts DEF One, Idle
    <3>2. CASE i \notin started /\ Two("reader", Tell(i, "started"), Say(i, "delta", Piece(i)))
      <4>1. Len(todo'["reader"]) = 2 /\ Now("reader")' = Tell(i, "started")
        BY <3>2 DEF Two, Now
      <4> QED
        BY <2>3, <3>2, <4>1, TellFacts DEF Two, Idle
    <3> QED
      BY <1>0, <1>2, <3>1, <3>2, ChunkQueue
  <2>5. sink = "run" /\ ~err => Expects(told[i], Now("reader")'.what)
    BY <2>1, <2>3, <2>4 DEF Ordered, Expects
  <2> QED
    BY <2>1, <2>2, <2>3, <2>4, <2>5, OrderedSaid
<1>3. CASE ToolCall
  <2>1. /\ turn = "set" /\ pc = "prompt" /\ answer = "none" /\ Idle("reader")
        /\ "tool" \notin tools
    <3>1. Reads /\ Handled("tool" \in tools)
      BY <1>3 DEF ToolCall
    <3> QED
      BY <3>1, ReadsFacts
  <2>2. /\ UNCHANGED <<turn, pc, answer, told, sink, err, leftover, completed>>
        /\ started' = started \cup {"tool"}
    BY <1>3 DEF ToolCall, Handled, caller, ears
  <2>3. "tool" \in Parts /\ "tool" \in Item /\ "tool" \notin started
    BY <2>1 DEF Item, Parts, Framed, Stages
  <2>4. /\ Others("reader") /\ ~Idle("reader")' /\ Now("reader")'.item = "tool"
        /\ Now("reader")'.do = "check" /\ Now("reader")'.what = "started"
    <3>1. One("reader", Tell("tool", "started"))
      BY <1>0, <1>3, PlainQueues
    <3>2. /\ ~Idle("reader")' /\ Now("reader")' = Tell("tool", "started") /\ Others("reader")
      BY <3>1 DEF One, Now, Idle
    <3> QED
      BY <2>3, <3>2, TellFacts
  <2>5. sink = "run" /\ ~err => Expects(told["tool"], Now("reader")'.what)
    BY <2>1, <2>3, <2>4 DEF Ordered, Expects
  <2> QED
    BY <2>1, <2>2, <2>3, <2>4, <2>5, OrderedSaid
<1>4. ASSUME NEW terminal \in BOOLEAN, ToolCallUpdate(terminal) PROVE Ordered'
  <2>1. /\ turn = "set" /\ pc = "prompt" /\ answer = "none" /\ Idle("reader")
        /\ "tool" \in tools /\ "tool" \notin completed
    <3>1. Reads /\ Handled("tool" \notin tools \/ "tool" \in completed)
      BY <1>4 DEF ToolCallUpdate
    <3> QED
      BY <3>1, ReadsFacts
  <2>2. /\ UNCHANGED <<turn, pc, answer, told, sink, err, leftover>>
        /\ started' = started \cup {"tool"}
        /\ \A j \in Item : j # "tool" => (j \in completed' <=> j \in completed)
    BY <1>4 DEF ToolCallUpdate, Handled, caller, ears
  <2>3. "tool" \in Parts /\ "tool" \in Item /\ "tool" \in started /\ Unclosed("tool")
    BY <2>1 DEF Item, Parts, Framed, Stages, Unclosed
  <2>4. /\ Others("reader") /\ ~Idle("reader")' /\ Now("reader")'.item = "tool"
        /\ Now("reader")'.do = "check" /\ Now("reader")'.what = "updated"
    <3>1. /\ Len(todo'["reader"]) \in {1, 2} /\ Now("reader")' = Tell("tool", "updated")
          /\ Others("reader")
      BY <1>0, <1>4, ToolQueue DEF One, Two, Now
    <3> QED
      BY <2>3, <3>1, TellFacts DEF Idle
  <2>5. sink = "run" /\ ~err => Expects(told["tool"], Now("reader")'.what)
    BY <2>1, <2>3, <2>4 DEF Ordered, Expects
  <2> QED
    BY <2>1, <2>2, <2>3, <2>4, <2>5, OrderedSaid
<1> QED
  BY <1>2, <1>3, <1>4

\* Every step of an orderly turn keeps the order.
LEMMA OrderedNext == Framed /\ Ordered /\ Orderly' /\ [Next]_vars => Ordered'
<1> SUFFICES ASSUME Framed, Ordered, Orderly', [Next]_vars PROVE Ordered'
  OBVIOUS
<1>0. TypeOK
  BY DEF Framed, Typed
<1>1. ASSUME UNCHANGED <<todo, answer, told, sink, err, started, completed, leftover>>,
             turn' # "none" /\ pc' # "prompt" => turn # "none" /\ pc # "prompt"
      PROVE  Ordered'
  BY <1>1 DEF Ordered, Idle, Now, Unclosed
<1>2. ASSUME NEW g \in Goroutine, Deliver(g) PROVE Ordered'
  BY <1>2, OrderedDeliver
<1>3. CASE \/ \E i \in Chunks : Chunk(i)
           \/ ToolCall
           \/ \E terminal \in BOOLEAN : ToolCallUpdate(terminal)
  BY <1>3, OrderedReads
<1>4. CASE RequestPermission
  <2>1. answer = "none" /\ told["permission"] = "nothing" /\ pc = "prompt"
    <3>1. Reads /\ Handled("tool" \notin tools \/ "tool" \in completed)
      BY <1>4 DEF RequestPermission
    <3> QED
      BY <1>4, <3>1, ReadsFacts DEF RequestPermission
  <2>2. UNCHANGED <<turn, pc, answer, told, sink, err, leftover, started, completed>>
    BY <1>4 DEF RequestPermission, Handled, caller, state, ears
  <2>3. Two("asker", Tell("permission", "started"), Tell("permission", "completed"))
    BY <1>0, <1>4, PlainQueues
  <2>4. /\ Others("asker") /\ Now("asker")'.item = "permission"
        /\ Now("asker")'.what = "started" /\ Now("asker")'.do = "check"
    <3>1. "permission" \in Item
      BY DEF Item
    <3> QED
      BY <2>3, <3>1, TellFacts DEF Two, Now
  <2>5. \A h \in Goroutine : h # "asker" => (Idle(h)' <=> Idle(h)) /\ Now(h)' = Now(h)
    BY <2>4 DEF Others, Idle, Now
  <2>6. ASSUME sink = "run", NEW h \in Goroutine, ~Idle(h)'
        PROVE  /\ Now(h)'.do = "sink" => Expects(told'[Now(h)'.item], Now(h)'.what)
               /\ Now(h)'.do = "check" /\ ~err' => Expects(told'[Now(h)'.item], Now(h)'.what)
    <3>1. CASE h = "asker"
      BY <2>1, <2>2, <2>4, <3>1 DEF Expects
    <3>2. CASE h # "asker"
      BY <2>2, <2>5, <2>6, <3>2 DEF Ordered
    <3> QED
      BY <3>1, <3>2
  <2>7. "reader" \in Goroutine
    BY DEF Goroutine
  <2>8. \A i : Unclosed(i)' <=> Unclosed(i)
    BY <2>2 DEF Unclosed
  <2> QED
    BY <2>1, <2>2, <2>5, <2>6, <2>7, <2>8 DEF Ordered
<1>5. CASE Answer
  <2>1. UNCHANGED <<turn, pc, told, sink, err, leftover, started, completed, todo>>
    BY <1>5 DEF Answer, caller, state, ears
  <2>2. Idle("reader") /\ Idle("asker") /\ pc = "prompt"
    BY <1>5 DEF Answer, Orderly, Framed, Stages
  <2> QED
    BY <2>1, <2>2 DEF Ordered, Idle, Now, Unclosed
<1>6. CASE PromptReturns
  <2>1. /\ UNCHANGED <<turn, told, sink, err, started, todo, answer>> /\ pc = "prompt"
        /\ answer # "none" /\ leftover' = started \ completed
        /\ completed' = completed \cup started
    BY <1>6 DEF PromptReturns, Orderly, ears, agent
  <2>2. \A g \in Goroutine : Idle(g)
    BY <2>1 DEF Ordered, Framed, Shapes, CallerShape, Goroutine
  <2>3. \A g \in Goroutine : Idle(g)'
    BY <2>1, <2>2 DEF Idle
  <2>4. \A i \in started : Unclosed(i)' => Unclosed(i)
    BY <2>1 DEF Unclosed
  <2>5. "reader" \in Goroutine /\ "asker" \in Goroutine
    BY DEF Goroutine
  <2> QED
    BY <2>1, <2>2, <2>3, <2>4, <2>5 DEF Ordered
<1>7. CASE CompleteItem
  <2>1. PICK i \in leftover : /\ todo' = [todo EXCEPT !["caller"] = <<Tell(i, "completed")>>]
                              /\ leftover' = leftover \ {i}
    BY <1>7 DEF CompleteItem
  <2>2. /\ UNCHANGED <<turn, pc, answer, told, sink, err, started, completed>>
        /\ pc = "completing"
    BY <1>7 DEF CompleteItem, caller, agent, state, ears
  <2>3. i \in Item /\ i \in Parts /\ i \in started /\ Unclosed(i)
    BY <1>0, <2>1 DEF TypeOK, Framed, Stages, Unclosed
  <2>4. One("caller", Tell(i, "completed"))
    BY <1>0, <2>1, <2>3, PlainQueues
  <2>5. /\ Others("caller") /\ Now("caller")'.item = i
        /\ Now("caller")'.what = "completed" /\ Now("caller")'.do = "check"
    BY <2>3, <2>4, TellFacts DEF One, Now
  <2>6. \A h \in Goroutine : h # "caller" => (Idle(h)' <=> Idle(h)) /\ Now(h)' = Now(h)
    BY <2>5 DEF Others, Idle, Now
  <2>7. Idle("reader") /\ Idle("asker")
    BY <2>2 DEF Ordered, Framed, Stages
  <2>8. ASSUME sink = "run", NEW h \in Goroutine, ~Idle(h)'
        PROVE  /\ Now(h)'.do = "sink" => Expects(told'[Now(h)'.item], Now(h)'.what)
               /\ Now(h)'.do = "check" /\ ~err' => Expects(told'[Now(h)'.item], Now(h)'.what)
    <3>1. h = "caller"
      BY <2>6, <2>7, <2>8 DEF Goroutine
    <3>2. ~err => told[i] = "open"
      BY <2>3, <2>7, <2>8 DEF Ordered
    <3> QED
      BY <2>2, <2>5, <3>1, <3>2 DEF Expects
  <2>9. "reader" \in Goroutine /\ "asker" \in Goroutine
    BY DEF Goroutine
  <2>10. \A j : Unclosed(j)' => Unclosed(j)
    BY <2>1, <2>2 DEF Unclosed
  <2> QED
    BY <2>2, <2>6, <2>7, <2>8, <2>9, <2>10 DEF Ordered
<1>8. CASE Start \/ BeginTurn \/ EndTurn \/ CloseSession \/ Closed
  <2>1. UNCHANGED <<todo, answer, told, sink, err, started, completed, leftover>>
    BY <1>8 DEF Start, BeginTurn, EndTurn, CloseSession, Closed, state, ears, agent
  <2>2. turn' # "none" /\ pc' # "prompt" => turn # "none" /\ pc # "prompt"
    BY <1>8 DEF Start, BeginTurn, EndTurn, CloseSession, Closed, Goto, Return, state, Framed, Stages
  <2> QED
    BY <1>1, <2>1, <2>2
<1>9. CASE Wait \/ Finish \/ ContextDone \/ UNCHANGED vars
  <2>1. UNCHANGED <<todo, answer, told, sink, err, started, completed, leftover, turn, pc>>
    BY <1>9 DEF Wait, Finish, ContextDone, vars, caller, state, ears, agent
  <2> QED
    BY <1>1, <2>1
<1> QED
  BY <1>2, <1>3, <1>4, <1>5, <1>6, <1>7, <1>8, <1>9 DEF Next, Caller, Chunks

-----------------------------------------------------------------------------
\* Who owes the completion of an item.

\* A delivery either completes an item or leaves somebody who will.
LEMMA SettledDeliver ==
  ASSUME Framed, Stages', Ordered, Settled, NEW g \in Goroutine, Deliver(g)
  PROVE  Settled'
<1>0. TypeOK /\ told \in [Item -> {"nothing", "open", "closed", "wrong"}]
  BY DEF Framed, Typed, TypeOK
<1>1. /\ ~Idle(g)
      /\ UNCHANGED <<turn, started, completed, tools, leftover, answer, pc, sink>>
      /\ Dropped(g) \/ Passed(g) \/ Failed(g) \/ Heard(g) \/ Replied(g)
  BY DeliverCases
<1>2. Others(g) /\ Len(todo[g]) \in Nat
  BY <1>0, <1>1, QueueSteps DEF Dropped, Passed, Failed, Heard, Replied, Popped, Advanced
<1>3. /\ \A h \in Goroutine : h # g =>
           (Idle(h)' <=> Idle(h)) /\ Now(h)' = Now(h) /\ Then(h)' = Then(h)
           /\ Len(todo'[h]) = Len(todo[h])
  BY <1>2, OthersKeep
<1>4. "reader" \in Goroutine /\ "asker" \in Goroutine /\ "caller" \in Goroutine
  BY DEF Goroutine
<1>5. /\ Passed(g) \/ Failed(g) =>
           /\ ~Idle(g)' /\ Len(todo'[g]) = Len(todo[g]) /\ Now(g)'.item = Now(g).item
           /\ Now(g)'.what = Now(g).what /\ (Len(todo[g]) = 2 => Then(g)' = Then(g))
  BY <1>1, SameHead DEF Passed, Failed
<1>6. Popped(g) /\ ~Idle(g)' =>
        /\ Len(todo[g]) = 2 /\ Len(todo'[g]) = 1 /\ Now(g)' = Then(g)
        /\ Now(g)'.item = Now(g).item
  BY <1>1, NextHead
<1>7. Idle(g)' => Len(todo'[g]) = 0
  BY DEF Idle
<1>8. Popped(g) \/ Passed(g) \/ Failed(g)
  BY <1>1 DEF Dropped, Heard, Replied
<1>9. /\ Len(todo["reader"])' = 1 /\ Now("reader")'.item = "tool"
      /\ Now("reader")'.what # "completed"
      => "tool" \notin completed'
  <2>1. CASE g # "reader"
    BY <1>1, <1>3, <1>4, <2>1 DEF Settled
  <2>2. CASE g = "reader" /\ (Passed(g) \/ Failed(g))
    BY <1>1, <1>5, <2>2 DEF Settled
  <2>3. CASE g = "reader" /\ Popped(g)
    <3>1. CASE Idle("reader")'
      BY <1>7, <2>3, <3>1
    <3>2. CASE ~Idle("reader")'
      BY <1>6, <2>3, <3>2 DEF Framed, Shapes, ReaderShape, Chunks
    <3> QED
      BY <3>1, <3>2
  <2> QED
    BY <1>8, <2>1, <2>2, <2>3
<1>10. ASSUME ~refused', NEW i \in Item, told'[i] = "open" PROVE Owed(i)'
  <2>1. ~refused /\ ~err'
    <3>1. refused => refused'
      <4>1. CASE CallSink(g)
        <5>1. refused' = TRUE \/ refused' = refused
          <6>1. \/ UNCHANGED <<refused, reply>> \/ refused' = TRUE
                \/ \E x \in Event(reply, Now(g).item, Now(g).what, Now(g).text, ~ctx) :
                     (x.ok => UNCHANGED refused) /\ (~x.ok => refused' = TRUE)
            BY <1>0, <4>1, SinkCalled
          <6> QED
            BY <6>1
        <5> QED
          BY <5>1
      <4>2. CASE CheckTurn(g) \/ SinkFailed(g)
        BY <4>2 DEF CheckTurn, SinkFailed, ears
      <4> QED
        BY <4>1, <4>2 DEF Deliver
    <3> QED
      BY <1>10, <3>1 DEF Stages
  <2>2. Passed(g) \/ Heard(g) \/ Replied(g)
    BY <1>1, <1>10, <2>1 DEF Dropped, Failed
  <2>3. i \in Parts => (Unclosed(i)' <=> Unclosed(i))
    BY <1>1 DEF Unclosed
  <2>4. CASE Replied(g)
    BY <1>10, <2>4 DEF Replied, Ordered
  <2>5. CASE Passed(g)
    <3>1. told' = told /\ Owed(i)
      BY <1>10, <2>1, <2>5 DEF Passed, Settled
    <3>2. ReaderCompletes => ReaderCompletes'
      BY <1>3, <1>4, <1>5, <2>5 DEF ReaderCompletes
    <3>3. \A h \in Goroutine : ~Idle(h) => ~Idle(h)' /\ Now(h)'.item = Now(h).item
      BY <1>3, <1>5, <2>5
    <3> QED
      BY <1>4, <2>3, <3>1, <3>2, <3>3 DEF Owed
  <2>6. CASE Heard(g) /\ i # Now(g).item
    <3>1. told'[i] = told[i] /\ Owed(i)
      BY <1>0, <1>10, <2>1, <2>6 DEF Heard, Settled
    <3>2. i = "tool" /\ ReaderCompletes => ReaderCompletes'
      <4>1. CASE g # "reader"
        BY <1>3, <1>4, <4>1 DEF ReaderCompletes
      <4>2. CASE g = "reader"
        BY <2>6, <4>2 DEF ReaderCompletes, Framed, Shapes, ReaderShape, Chunks
      <4> QED
        BY <4>1, <4>2
    <3>3. ~Idle("caller") /\ Now("caller").item = i => ~Idle("caller")' /\ Now("caller")'.item = i
      BY <1>3, <1>4, <2>6
    <3>4. i = "permission" /\ ~Idle("asker") => ~Idle("asker")'
      BY <1>3, <1>4, <2>6 DEF Framed, Shapes, AskerShape
    <3> QED
      BY <2>3, <3>1, <3>2, <3>3, <3>4 DEF Owed
  <2>7. CASE Heard(g) /\ i = Now(g).item
    <3>1. Now(g).what # "completed"
      BY <1>0, <1>10, <2>7 DEF Heard, Hear
    <3>2. g # "caller"
      BY <1>1, <3>1 DEF Framed, Shapes, CallerShape
    <3>3. CASE g = "reader"
      <4>1. pc = "prompt" /\ i \in Parts
        BY <1>1, <2>7, <3>3, BusyFacts
      <4>2. CASE i # "tool"
        BY <2>3, <4>1, <4>2 DEF Owed, Unclosed, Framed, Stages
      <4>3. CASE i = "tool" /\ Len(todo["reader"]) = 1
        BY <2>3, <2>7, <3>1, <3>3, <4>1, <4>3 DEF Owed, Unclosed, Settled
      <4>4. CASE i = "tool" /\ Len(todo["reader"]) = 2
        <5>1. Then("reader").what = "completed"
          BY <2>7, <3>3, <4>4 DEF Framed, Shapes, ReaderShape, Chunks
        <5>2. Len(todo'["reader"]) = 1
          BY <2>7, <3>3, <4>4 DEF Heard, Popped
        <5>3. Now("reader")' = Then("reader")
          BY <1>6, <1>7, <2>7, <3>3, <5>2 DEF Heard
        <5> QED
          BY <4>4, <5>1, <5>2, <5>3 DEF Owed, ReaderCompletes
      <4>5. Len(todo["reader"]) \in {1, 2}
        <5>1. Len(todo[g]) \in {0, 1, 2} /\ Len(todo[g]) >= 1
          BY <1>0, <1>1, <3>3, QueueSteps DEF Framed, Shapes, ReaderShape
        <5> QED
          BY <3>3, <5>1
      <4> QED
        BY <4>2, <4>3, <4>4, <4>5
    <3>4. CASE g = "asker"
      <4>1. i = "permission"
        BY <1>1, <2>7, <3>4, BusyFacts
      <4>2. Len(todo["asker"]) = 2
        <5>1. Len(todo[g]) \in {0, 1, 2} /\ Len(todo[g]) >= 1
          BY <1>0, <1>1, <3>4, QueueSteps DEF Framed, Shapes, AskerShape
        <5> QED
          BY <3>1, <3>4, <5>1 DEF Framed, Shapes, AskerShape
      <4>3. Len(todo'["asker"]) = 1
        BY <2>7, <3>4, <4>2 DEF Heard, Popped
      <4> QED
        BY <4>1, <4>3 DEF Owed, Idle
    <3> QED
      BY <3>2, <3>3, <3>4 DEF Goroutine
  <2> QED
    BY <2>2, <2>4, <2>5, <2>6, <2>7
<1> QED
  BY <1>9, <1>10 DEF Settled

\* Every step of an orderly turn leaves each open item to somebody.
LEMMA SettledNext ==
  Framed /\ Stages' /\ Ordered /\ Settled /\ Orderly' /\ [Next]_vars => Settled'
<1> SUFFICES ASSUME Framed, Stages', Ordered, Settled, Orderly', [Next]_vars PROVE Settled'
  OBVIOUS
<1>0. TypeOK
  BY DEF Framed, Typed
<1>1. ASSUME UNCHANGED <<todo, told, refused, completed, leftover>> PROVE Settled'
  BY <1>1 DEF Settled, Owed, Unclosed, ReaderCompletes, Idle, Now, Then
<1>2. ASSUME NEW g \in Goroutine, Deliver(g) PROVE Settled'
  BY <1>2, SettledDeliver
<1>3. "reader" \in Goroutine /\ "asker" \in Goroutine /\ "caller" \in Goroutine
  BY DEF Goroutine
<1>4. ASSUME Idle("reader"), Others("reader"), UNCHANGED <<told, refused, leftover>>,
             \A i \in Item : i # "tool" => (i \in completed' <=> i \in completed),
             "tool" \in completed' => "tool" \in completed \/ ReaderCompletes',
             /\ Len(todo["reader"])' = 1 /\ Now("reader")'.item = "tool"
             /\ Now("reader")'.what # "completed"
             => "tool" \notin completed'
      PROVE  Settled'
  <2>1. ~ReaderCompletes
    BY <1>4 DEF ReaderCompletes, Idle
  <2>2. \A h \in Goroutine : h # "reader" => (Idle(h)' <=> Idle(h)) /\ Now(h)' = Now(h)
    BY <1>4 DEF Others, Idle, Now
  <2>3. \A i \in Item : Owed(i) => Owed(i)'
    BY <1>3, <1>4, <2>1, <2>2 DEF Owed, Unclosed
  <2> QED
    BY <1>4, <2>3 DEF Settled
<1>5. ASSUME NEW i \in Chunks, Chunk(i) PROVE Settled'
  <2>1. i \in Item /\ i # "tool" /\ Piece(i) \in Seq(Nat)
    BY <1>0, PieceFacts DEF Chunks, Item
  <2>2. Idle("reader") /\ UNCHANGED <<told, refused, leftover, completed>>
    BY <1>5 DEF Chunk, Reads, ears
  <2>3. Others("reader") /\ Now("reader")'.item = i
    BY <1>0, <1>5, <2>1, ChunkQueue, SayFacts DEF One, Two, Now
  <2> QED
    BY <1>4, <2>1, <2>2, <2>3
<1>6. CASE ToolCall
  <2>1. Reads /\ Handled("tool" \in tools) /\ UNCHANGED <<told, refused, leftover, completed>>
    BY <1>6 DEF ToolCall, ears
  <2>2. Idle("reader") /\ "tool" \notin completed
    BY <2>1, ReadsFacts DEF Framed, Stages
  <2>3. Others("reader")
    BY <1>0, <1>6, PlainQueues DEF One
  <2> QED
    BY <1>4, <2>1, <2>2, <2>3
<1>7. ASSUME NEW terminal \in BOOLEAN, ToolCallUpdate(terminal) PROVE Settled'
  <2>1. /\ Reads /\ Handled("tool" \notin tools \/ "tool" \in completed)
        /\ UNCHANGED <<told, refused, leftover>>
        /\ completed' = IF terminal THEN completed \cup {"tool"} ELSE completed
    BY <1>7 DEF ToolCallUpdate, ears
  <2>2. Idle("reader") /\ "tool" \notin completed
    BY <2>1, ReadsFacts
  <2>3. \/ terminal /\ Two("reader", Tell("tool", "updated"), Tell("tool", "completed"))
        \/ ~terminal /\ One("reader", Tell("tool", "updated"))
    BY <1>0, <1>7, <2>2, ToolQueue
  <2>4. Tell("tool", "completed").what = "completed"
    <3>1. "tool" \in Item
      BY DEF Item
    <3> QED
      BY <3>1, TellFacts
  <2>5. CASE terminal /\ Two("reader", Tell("tool", "updated"), Tell("tool", "completed"))
    <3>1. Others("reader") /\ Len(todo'["reader"]) = 2 /\ ReaderCompletes'
      BY <2>4, <2>5 DEF Two, ReaderCompletes, Then
    <3> QED
      BY <1>4, <2>1, <2>2, <3>1
  <2>6. CASE ~terminal /\ One("reader", Tell("tool", "updated"))
    <3>1. Others("reader")
      BY <2>6 DEF One
    <3> QED
      BY <1>4, <2>1, <2>2, <2>6, <3>1
  <2> QED
    BY <2>3, <2>5, <2>6
<1>8. CASE RequestPermission
  <2>1. Idle("asker") /\ UNCHANGED <<told, refused, leftover, completed>>
    BY <1>8 DEF RequestPermission, state, ears
  <2>2. Others("asker")
    BY <1>0, <1>8, PlainQueues DEF Two
  <2>3. \A h \in Goroutine : h # "asker" =>
          /\ (Idle(h)' <=> Idle(h)) /\ Now(h)' = Now(h) /\ Then(h)' = Then(h)
          /\ Len(todo'[h]) = Len(todo[h])
    BY <2>2 DEF Others, Idle, Now, Then
  <2>4. \A i \in Item : Owed(i) => Owed(i)'
    <3>1. ReaderCompletes => ReaderCompletes'
      BY <1>3, <2>3 DEF ReaderCompletes
    <3> QED
      BY <1>3, <2>1, <2>3, <3>1 DEF Owed, Unclosed
  <2> QED
    BY <1>3, <2>1, <2>3, <2>4 DEF Settled
<1>9. CASE PromptReturns
  <2>1. /\ UNCHANGED <<told, refused, todo, sink>> /\ pc = "prompt" /\ answer # "none"
        /\ leftover' = started \ completed /\ completed' = completed \cup started
    BY <1>9 DEF PromptReturns, Orderly, ears, agent
  <2>2. Idle("reader") /\ Idle("reader")' /\ leftover = {}
    BY <2>1 DEF Ordered, Framed, Stages, Idle
  <2>3. ASSUME NEW i \in Item, told[i] = "open", Owed(i) PROVE Owed(i)'
    <3>1. CASE i \in Parts /\ Unclosed(i)
      <4>1. i \in started
        <5>1. sink = "run" \/ sink = "reply"
          BY <1>0, AcpSessionAssumption DEF TypeOK
        <5> QED
          BY <2>3, <3>1, <5>1 DEF Ordered
      <4> QED
        BY <2>1, <2>2, <3>1, <4>1 DEF Owed, Unclosed
    <3>2. CASE ~(i \in Parts /\ Unclosed(i))
      BY <2>1, <2>2, <2>3, <3>2 DEF Owed, ReaderCompletes, Idle, Now, Then
    <3> QED
      BY <3>1, <3>2
  <2>4. Len(todo'["reader"]) # 1
    BY <2>2 DEF Idle
  <2> QED
    BY <2>1, <2>3, <2>4 DEF Settled
<1>10. CASE CompleteItem
  <2>1. PICK i \in leftover : /\ todo' = [todo EXCEPT !["caller"] = <<Tell(i, "completed")>>]
                              /\ leftover' = leftover \ {i}
    BY <1>10 DEF CompleteItem
  <2>2. UNCHANGED <<told, refused, completed>> /\ Idle("caller")
    BY <1>10 DEF CompleteItem, caller, agent, state, ears
  <2>3. i \in Item
    BY <1>0, <2>1 DEF TypeOK
  <2>4. One("caller", Tell(i, "completed"))
    BY <1>0, <2>1, <2>3, PlainQueues
  <2>5. Others("caller") /\ Now("caller")'.item = i /\ ~Idle("caller")'
    BY <2>3, <2>4, TellFacts DEF One, Now, Idle
  <2>6. \A h \in Goroutine : h # "caller" =>
          /\ (Idle(h)' <=> Idle(h)) /\ Now(h)' = Now(h) /\ Then(h)' = Then(h)
          /\ Len(todo'[h]) = Len(todo[h])
    BY <2>5 DEF Others, Idle, Now, Then
  <2>7. \A j \in Item : Owed(j) => Owed(j)'
    <3>1. ReaderCompletes => ReaderCompletes'
      BY <1>3, <2>6 DEF ReaderCompletes
    <3>2. \A j \in Item : j # i => (Unclosed(j) => Unclosed(j)')
      BY <2>1, <2>2 DEF Unclosed
    <3> QED
      BY <1>3, <2>2, <2>5, <2>6, <3>1, <3>2 DEF Owed
  <2> QED
    BY <1>3, <2>2, <2>6, <2>7 DEF Settled
<1>11. CASE Answer \/ Start \/ BeginTurn \/ EndTurn \/ CloseSession \/ Closed
            \/ Wait \/ Finish \/ ContextDone \/ UNCHANGED vars
  <2>1. UNCHANGED <<todo, told, refused, completed, leftover>>
    BY <1>11 DEF Answer, Start, BeginTurn, EndTurn, CloseSession, Closed, Wait, Finish, ContextDone,
       vars, caller, state, ears
  <2> QED
    BY <1>1, <2>1
<1> QED
  BY <1>2, <1>5, <1>6, <1>7, <1>8, <1>9, <1>10, <1>11 DEF Next, Caller, Chunks

-----------------------------------------------------------------------------
\* The text of the reply.

\* The pieces in order are known by their number.
LEMMA CountingFacts ==
  /\ Counting(<<>>)
  /\ \A s : Counting(s) =>
       Counting(s \o <<Len(s) + 1>>) /\ Len(s \o <<Len(s) + 1>>) = Len(s) + 1
  /\ \A s, t : Counting(s) /\ Counting(t) /\ Len(s) = Len(t) => s = t
  /\ \A s, t : Counting(s) /\ Counting(t) /\ Len(s) <= Len(t) => IsPrefix(s, t)
<1>1. Counting(<<>>)
  BY DEF Counting
<1>2. ASSUME NEW s, Counting(s)
      PROVE  Counting(s \o <<Len(s) + 1>>) /\ Len(s \o <<Len(s) + 1>>) = Len(s) + 1
  <2> DEFINE n == Len(s) + 1
  <2>1. s \in Seq(Nat) /\ n \in Nat /\ \A k \in 1..Len(s) : s[k] = k
    BY <1>2 DEF Counting
  <2>2. n = Len(s) + 1 /\ Len(s) \in Nat
    BY <2>1
  <2> HIDE DEF n
  <2>3. <<n>> \in Seq(Nat) /\ Len(<<n>>) = 1 /\ <<n>>[1] = n
    BY <2>1
  <2>4. s \o <<n>> \in Seq(Nat) /\ Len(s \o <<n>>) = n
    BY <2>1, <2>2, <2>3
  <2>5. ASSUME NEW k \in 1..n PROVE (s \o <<n>>)[k] = k
    <3>1. CASE k \in 1..Len(s)
      BY <2>1, <2>3, <3>1
    <3>2. CASE k = n
      BY <2>1, <2>2, <2>3, <3>2
    <3> QED
      BY <2>2, <3>1, <3>2
  <2> QED
    BY <2>4, <2>5, <2>2 DEF Counting, n
<1>3. ASSUME NEW s, NEW t, Counting(s), Counting(t), Len(s) = Len(t) PROVE s = t
  BY <1>3 DEF Counting
<1>4. ASSUME NEW s, NEW t, Counting(s), Counting(t), Len(s) <= Len(t) PROVE IsPrefix(s, t)
  <2>1. SubSeq(s, 1, Len(s)) = SubSeq(t, 1, Len(s))
    BY <1>4 DEF Counting
  <2> QED
    BY <1>4, <2>1 DEF IsPrefix
<1> QED
  BY <1>1, <1>2, <1>3, <1>4

\* The packet that brings the last piece, whether it is stored or not, and
\* whether Append is told of it or not.
LEMMA AppendTold ==
  ASSUME NEW r \in Reply, SoundReply(r), Told(r), Counting(text), Len(r.text) + 1 = Len(text),
         r.stream \/ r.messages = <<>>, NEW alive, NEW x \in AppendLocked(r, <<Len(text)>>, alive)
  PROVE  /\ Told(x.r) /\ (x.ok => x.r.stream /\ Len(x.r.text) = Len(text))
<1> DEFINE t == <<Len(text)>>
<1>1. text \in Seq(Nat) /\ Len(text) \in Nat /\ r.text \in Seq(Nat) /\ Len(r.text) \in Nat
  BY DEF Counting, Reply
<1>2. t \in Seq(Nat) /\ t # <<>>
  BY <1>1
<1>3. Counting(r.text \o t) /\ Len(r.text \o t) = Len(text)
  <2>1. Counting(r.text) /\ t = <<Len(r.text) + 1>>
    BY <1>1 DEF Told, Beginning
  <2> HIDE DEF t
  <2> QED
    BY <2>1, CountingFacts
<1>4. x \in AppendLocked(r, t, alive)
  OBVIOUS
<1>5. Sound(x) /\ x.r.finalItems = r.finalItems /\ (Untouched(r, t, x) \/ Begun(r, t, x) \/ Sent(r, t, x))
  <2> HIDE DEF t
  <2> QED
    BY <1>2, <1>4, AppendFacts
<1>6. x.r \in Reply
  BY <1>5 DEF Sound
<1>7. CASE Untouched(r, t, x)
  BY <1>2, <1>7 DEF Untouched
<1>8. CASE Begun(r, t, x)
  <2>1. r.messages = <<>> /\ r.text = <<>> /\ r.nextIndex = 0
    BY <1>8 DEF SoundReply, Told, Begun
  <2>2. Counting(t) /\ Len(t) = Len(text)
    <3>1. <<>> \o t = t
      <4> HIDE DEF t
      <4> QED
        BY <1>2
    <3> QED
      BY <1>3, <2>1, <3>1
  <2> HIDE DEF t
  <2>3. Append(<<>>, Message(t)) = <<Message(t)>>
    BY <1>2 DEF Message
  <2>4. x.r.messages = <<Message(t)>>
    BY <1>8, <2>1, <2>3 DEF Begun
  <2>5. /\ Len(x.r.messages) = 1 /\ x.r.messages[1].text = t /\ x.r.messages[1].packets = 0
    BY <2>4 DEF Message
  <2>6. Beginning(x.r.text) /\ (x.ok => Len(x.r.text) = Len(text))
    BY <1>1, <1>8, <2>1, <2>2 DEF Told, Beginning, Begun
  <2>7. (x.ok => x.r.text = t) /\ x.r.nextIndex = 0 /\ (x.r.stream <=> x.ok)
    BY <1>8, <2>1 DEF Begun
  <2> QED
    BY <1>1, <1>5, <2>2, <2>5, <2>6, <2>7 DEF Told, Beginning
<1>9. ASSUME r.stream, x.r.stream, NEW s \in Stored(r, t, FALSE), x.r.messages = s.messages,
             ~x.ok => x.r = s,
             x.ok => x.r.text = r.text \o t /\ x.r.nextIndex = r.nextIndex + 1
      PROVE  /\ Told(x.r) /\ (x.ok => x.r.stream /\ Len(x.r.text) = Len(text))
  <2> HIDE DEF t
  <2>1. r.messages # <<>> /\ Len(r.messages) = 1
    <3>1. r.messages # <<>>
      BY <1>9 DEF SoundReply
    <3> QED
      BY <3>1 DEF Told, Reply
  <2>2. /\ Len(s.messages) = 1 /\ r.messages[1].open /\ r.messages[1].packets = r.nextIndex
        /\ s.messages[1].text = r.messages[1].text \o t /\ s.messages[1].packets = r.nextIndex + 1
        /\ \E m : s = [r EXCEPT !.messages = m]
    <3>1. FALSE \in BOOLEAN
      OBVIOUS
    <3>2. /\ Len(s.messages) = Len(r.messages)
          /\ r.messages[Len(r.messages)].open
          /\ r.messages[Len(r.messages)].packets = r.nextIndex
          /\ s.messages[Len(r.messages)].text = r.messages[Len(r.messages)].text \o t
          /\ s.messages[Len(r.messages)].packets = r.nextIndex + 1
          /\ \E m : s = [r EXCEPT !.messages = m]
      BY <1>2, <2>1, <3>1, StoredFacts
    <3> QED
      BY <2>1, <3>2
  <2>3. r.messages[1].text = r.text
    BY <1>9, <2>2 DEF Told
  <2>4. s.messages[1].text = r.text \o t /\ s.messages[1].packets = r.nextIndex + 1
    BY <2>2, <2>3
  <2>5. s.text = r.text /\ s.nextIndex = r.nextIndex
    BY <2>2 DEF Reply
  <2>6. r.nextIndex \in Nat
    BY DEF Reply
  <2>9. /\ Len(x.r.messages) = 1 /\ x.r.messages[1].text = r.text \o t
        /\ x.r.messages[1].packets = r.nextIndex + 1 /\ x.r.stream
        /\ Beginning(x.r.messages[1].text) /\ x.r.finalItems \subseteq {"message"}
    <3>1. Beginning(r.text \o t)
      BY <1>1, <1>3 DEF Beginning
    <3>2. x.r.finalItems \subseteq {"message"}
      BY <1>5 DEF Told
    <3> QED
      BY <1>9, <2>2, <2>4, <3>1, <3>2
  <2>7. CASE ~x.ok
    <3>1. x.r.text = r.text /\ x.r.nextIndex = r.nextIndex
      BY <1>9, <2>5, <2>7
    <3>2. Beginning(x.r.text) /\ x.r.messages[1].packets # x.r.nextIndex
          /\ x.r.messages[1].packets >= x.r.nextIndex
      BY <2>6, <2>9, <3>1 DEF Told
    <3> QED
      BY <2>7, <2>9, <3>2 DEF Told
  <2>8. CASE x.ok
    <3>1. x.r.text = r.text \o t /\ x.r.nextIndex = r.nextIndex + 1
      BY <1>9, <2>8
    <3>2. Beginning(x.r.text) /\ Len(x.r.text) = Len(text) /\ x.r.messages[1].text = x.r.text
          /\ x.r.messages[1].packets >= x.r.nextIndex
      BY <1>3, <2>6, <2>9, <3>1
    <3> QED
      BY <2>8, <2>9, <3>2 DEF Told
  <2> QED
    BY <2>7, <2>8
<1> QED
  <2> HIDE DEF t
  <2> QED
    BY <1>5, <1>7, <1>8, <1>9 DEF Sent

\* The end of the stream.
LEMMA CloseTold ==
  ASSUME NEW r \in Reply, SoundReply(r), Told(r), Counting(text), NEW x \in Close(r)
  PROVE  /\ Told(x.r) /\ (x.r.messages = <<>> <=> r.messages = <<>>)
         /\ x.ok /\ r.stream => /\ Len(x.r.messages) = 1 /\ Len(x.r.messages[1].text) = Len(r.text)
                                /\ ~x.r.messages[1].open
<1>1. /\ Sound(x)
      /\ (x.r.stream <=> r.stream) /\ x.r.text = r.text /\ x.r.nextIndex = r.nextIndex
      /\ x.r.finalItems = r.finalItems
      /\ \/ x.r.messages = r.messages /\ (r.stream => ~x.ok)
         \/ r.stream /\ \E s \in Stored(r, <<>>, TRUE) : x.r.messages = s.messages
  BY CloseFacts
<1>2. CASE x.r.messages = r.messages /\ (r.stream => ~x.ok)
  BY <1>1, <1>2 DEF Told
<1>3. ASSUME r.stream, NEW s \in Stored(r, <<>>, TRUE), x.r.messages = s.messages
      PROVE  /\ Told(x.r) /\ (x.r.messages = <<>> <=> r.messages = <<>>)
             /\ /\ Len(x.r.messages) = 1 /\ Len(x.r.messages[1].text) = Len(r.text)
                /\ ~x.r.messages[1].open
  <2>1. r.messages # <<>> /\ Len(r.messages) = 1
    <3>1. r.messages # <<>>
      BY <1>3 DEF SoundReply
    <3> QED
      BY <3>1 DEF Told, Reply
  <2>2. <<>> \in Seq(Nat) /\ TRUE \in BOOLEAN
    OBVIOUS
  <2>3. /\ Len(s.messages) = 1 /\ r.messages[1].open /\ r.messages[1].packets = r.nextIndex
        /\ s.messages[1].text = r.messages[1].text \o <<>>
        /\ s.messages[1].packets = r.nextIndex + 1 /\ ~s.messages[1].open
        /\ s \in Reply
    <3>1. /\ s \in Reply /\ Len(s.messages) = Len(r.messages)
          /\ r.messages[Len(r.messages)].open
          /\ r.messages[Len(r.messages)].packets = r.nextIndex
          /\ s.messages[Len(r.messages)].text = r.messages[Len(r.messages)].text \o <<>>
          /\ s.messages[Len(r.messages)].packets = r.nextIndex + 1
          /\ ~s.messages[Len(r.messages)].open
      BY <2>1, <2>2, StoredFacts
    <3> QED
      BY <2>1, <3>1
  <2>4. r.messages[1].text = r.text /\ r.text \in Seq(Nat) /\ r.nextIndex \in Nat
    BY <1>3, <2>3 DEF Told, Reply
  <2>5. r.text \o <<>> = r.text
    BY <2>4
  <2>6. /\ s.messages[1].text = r.text /\ s.messages[1].packets = r.nextIndex + 1
        /\ ~s.messages[1].open
    BY <2>3, <2>4, <2>5
  <2>7. s.messages # <<>>
    BY <2>3
  <2> QED
    BY <1>1, <1>3, <2>1, <2>3, <2>4, <2>6, <2>7 DEF Told, Beginning
<1> QED
  BY <1>1, <1>2, <1>3

\* The reader is done with an event.
LEMMA ReaderPopped ==
  ASSUME Framed, ~Idle("reader"), Popped("reader")
  PROVE  /\ Len(todo["reader"]) \in {1, 2}
         /\ Len(todo["reader"]) = 1 => Idle("reader")' /\ ~PieceAhead'
         /\ Len(todo["reader"]) = 2 => /\ ~Idle("reader")' /\ Now("reader")' = Then("reader")
                                       /\ (PieceAhead' <=> IsPiece(Then("reader")))
         /\ ~Idle("reader")' => Now("reader")'.do = "check"
         /\ LastPiece /\ UNCHANGED text => LastPiece'
<1>1. "reader" \in Goroutine
  BY DEF Goroutine
<1>2. Len(todo["reader"]) \in {1, 2} /\ todo'["reader"] \in Seq(Saying)
  <2>1. Len(todo["reader"]) >= 1 /\ todo'["reader"] \in Seq(Saying)
    BY <1>1, QueueSteps DEF Framed, Typed, Popped
  <2>2. Len(todo["reader"]) \in {0, 1, 2}
    BY DEF Framed, Shapes, ReaderShape
  <2> QED
    BY <2>1, <2>2
<1>3. Len(todo'["reader"]) = Len(todo["reader"]) - 1
  BY DEF Popped
<1>4. CASE Len(todo["reader"]) = 1
  <2>1. Len(todo'["reader"]) = 0
    BY <1>3, <1>4
  <2>2. Idle("reader")'
    BY <1>2, <2>1 DEF Idle
  <2>3. ~PieceAhead' /\ LastPiece'
    BY <2>1 DEF PieceAhead, LastPiece
  <2> QED
    BY <1>4, <2>2, <2>3
<1>5. CASE Len(todo["reader"]) = 2
  <2>1. Len(todo'["reader"]) = 1
    BY <1>3, <1>5
  <2>2. ~Idle("reader")'
    BY <2>1 DEF Idle
  <2>3. Now("reader")' = Then("reader") /\ Now("reader")'.do = "check"
    BY <1>1, <2>2, NextHead
  <2>4. PieceAhead' <=> IsPiece(Then("reader"))
    BY <2>1, <2>3 DEF PieceAhead
  <2>5. LastPiece /\ UNCHANGED text => LastPiece'
    BY <1>5, <2>1, <2>3 DEF LastPiece
  <2> QED
    BY <1>5, <2>2, <2>3, <2>4, <2>5
<1> QED
  BY <1>2, <1>4, <1>5

\* The reader has come to the next stage of an event.
LEMMA ReaderAdvanced ==
  ASSUME Framed, ~Idle("reader"), NEW do \in {"check", "sink", "fail"}, Advanced("reader", do)
  PROVE  /\ Len(todo["reader"]) \in {1, 2} /\ ~Idle("reader")'
         /\ Now("reader")'.do = do /\ Now("reader")'.item = Now("reader").item
         /\ (IsPiece(Now("reader"))' <=> IsPiece(Now("reader")))
         /\ PieceAhead' <=> \/ Len(todo["reader"]) = 1 /\ IsPiece(Now("reader")) /\ do # "fail"
                            \/ Len(todo["reader"]) = 2 /\ IsPiece(Then("reader"))
         /\ LastPiece /\ UNCHANGED text => LastPiece'
<1>1. "reader" \in Goroutine
  BY DEF Goroutine
<1>2. Len(todo["reader"]) \in {1, 2}
  <2>1. Len(todo["reader"]) >= 1
    BY <1>1, QueueSteps DEF Framed, Typed
  <2>2. Len(todo["reader"]) \in {0, 1, 2}
    BY DEF Framed, Shapes, ReaderShape
  <2> QED
    BY <2>1, <2>2
<1>3. /\ ~Idle("reader")' /\ Len(todo'["reader"]) = Len(todo["reader"]) /\ Now("reader")'.do = do
      /\ Now("reader")'.item = Now("reader").item /\ Now("reader")'.what = Now("reader").what
      /\ Now("reader")'.text = Now("reader").text
      /\ Len(todo["reader"]) = 2 => Then("reader")' = Then("reader")
  BY <1>1, SameHead
<1>4. IsPiece(Now("reader"))' <=> IsPiece(Now("reader"))
  BY <1>3 DEF IsPiece
<1>5. Len(todo["reader"]) = 2 => (IsPiece(Then("reader"))' <=> IsPiece(Then("reader")))
  BY <1>3 DEF IsPiece
<1>6. PieceAhead' <=> \/ Len(todo["reader"]) = 1 /\ IsPiece(Now("reader")) /\ do # "fail"
                      \/ Len(todo["reader"]) = 2 /\ IsPiece(Then("reader"))
  BY <1>3, <1>4, <1>5 DEF PieceAhead
<1>7. LastPiece /\ UNCHANGED text => LastPiece'
  BY <1>3, <1>4, <1>5 DEF LastPiece
<1> QED
  BY <1>2, <1>3, <1>4, <1>6, <1>7

\* Steps that have to do neither with the text nor with the turn's end.
LEMMA TextsFrame ==
  ASSUME Texts, UNCHANGED <<reply, text, sink, started, finish, turn>>,
         todo'["reader"] = todo["reader"], err => err',
         result' = "completed" => result = "completed" /\ answer' = answer
  PROVE  Texts'
<1>1. /\ (Idle("reader")' <=> Idle("reader")) /\ Now("reader")' = Now("reader")
      /\ Then("reader")' = Then("reader") /\ Len(todo'["reader"]) = Len(todo["reader"])
  BY DEF Idle, Now, Then
<1>2. Told(reply)' /\ LastPiece'
  BY <1>1 DEF Texts, Told, Beginning, LastPiece, IsPiece
<1>3. Ended'
  BY DEF Texts, Ended, AllBut
<1>4. (PieceAhead' <=> PieceAhead) /\ (IsPiece(Now("reader"))' <=> IsPiece(Now("reader")))
  BY <1>1 DEF PieceAhead, IsPiece
<1>5. (Live' => Live) /\ (PieceDue' => PieceDue) /\ (\A n : AllBut(n)' <=> AllBut(n))
  BY <1>1, <1>4 DEF Live, PieceDue, AllBut
<1>6. Followed => Followed'
  BY <1>1, <1>4, <1>5 DEF Followed
<1> QED
  BY <1>2, <1>3, <1>6 DEF Texts

\* The other goroutines say nothing that the reply takes up.
LEMMA TextsOthers ==
  ASSUME Framed, Texts, NEW g \in Goroutine, g # "reader", Deliver(g)
  PROVE  Texts'
<1>0. TypeOK /\ SoundReply(reply) /\ reply \in Reply
  BY DEF Framed, Typed, TypeOK
<1>1. /\ ~Idle(g) /\ UNCHANGED <<text, sink, started, finish, turn, result, answer>> /\ (err => err')
      /\ (Popped(g) \/ \E do \in {"sink", "fail"} : Advanced(g, do))
  BY <1>0, DeliverQueue DEF caller, agent
<1>2. todo'["reader"] = todo["reader"]
  BY <1>1 DEF Popped, Advanced, Others, Goroutine
<1>3. reply' = reply
  <2>1. CASE CheckTurn(g) \/ SinkFailed(g)
    BY <2>1 DEF CheckTurn, SinkFailed, ears
  <2>2. ASSUME NEW x \in Event(reply, Now(g).item, Now(g).what, Now(g).text, ~ctx)
        PROVE  x.r = reply
    <3>1. Now(g) \in Saying /\ Len(todo[g]) \in {1, 2}
      <4>1. Len(todo[g]) >= 1 /\ Now(g) \in Saying
        BY <1>0, <1>1, QueueSteps DEF Now
      <4>2. Len(todo[g]) \in {0, 1, 2}
        BY DEF Framed, Shapes, AskerShape, CallerShape, Goroutine
      <4> QED
        BY <4>1, <4>2
    <3>2. Now(g).item \in Item /\ Now(g).text \in Seq(Nat)
      BY <3>1 DEF Saying
    <3>3. Now(g).what # "delta" /\ ~(Now(g).what = "started" /\ Now(g).item = "message")
      <4>1. CASE g = "caller"
        BY <1>1, <4>1 DEF Framed, Shapes, CallerShape
      <4>2. CASE g = "asker"
        BY <1>1, <3>1, <4>2 DEF Framed, Shapes, AskerShape
      <4> QED
        BY <4>1, <4>2 DEF Goroutine
    <3>4. \/ x.r = reply
          \/ Ignored(reply, Now(g).item, Now(g).what, x) \/ Opened(reply, Now(g).item, Now(g).what, x)
          \/ Added(reply, Now(g).item, Now(g).what, Now(g).text, ~ctx, x)
      BY <1>0, <3>2, EventFacts
    <3> QED
      BY <3>3, <3>4 DEF Ignored, Opened, Added
  <2>3. CASE CallSink(g)
    BY <1>0, <2>2, <2>3, SinkCalled
  <2> QED
    BY <2>1, <2>3 DEF Deliver
<1> QED
  BY <1>1, <1>2, <1>3, TextsFrame

\* The event at the reader's head comes to the reply.
LEMMA TextsSink ==
  ASSUME Framed, Texts, Counting(text), sink = "reply", ~Idle("reader"),
         Now("reader").do = "sink", UNCHANGED <<text, turn, started, err>>,
         NEW x \in Event(reply, Now("reader").item, Now("reader").what, Now("reader").text, ~ctx),
         reply' = x.r, x.ok => Popped("reader"), ~x.ok => Advanced("reader", "fail")
  PROVE  Told(reply') /\ LastPiece' /\ Followed'
<1> DEFINE e == Now("reader")
<1>0. /\ TypeOK /\ SoundReply(reply) /\ reply \in Reply /\ reply.finished \in BOOLEAN
      /\ Told(reply) /\ LastPiece /\ Followed /\ Ended /\ reply' = x.r
      /\ text' = text /\ turn' = turn /\ started' = started /\ (err' <=> err)
  BY DEF Framed, Typed, TypeOK, Reply, Texts
<1>1. e \in Saying /\ e.item \in Item /\ e.text \in Seq(Nat)
  <2>1. "reader" \in Goroutine
    BY DEF Goroutine
  <2>2. e \in Saying
    BY <1>0, <2>1, QueueSteps DEF Now
  <2> QED
    BY <2>2 DEF Saying
<1>2. /\ Len(todo["reader"]) \in {1, 2}
      /\ x.ok => /\ Len(todo["reader"]) = 1 => Idle("reader")' /\ ~PieceAhead'
                 /\ Len(todo["reader"]) = 2 => /\ ~Idle("reader")' /\ Now("reader")' = Then("reader")
                                               /\ (PieceAhead' <=> IsPiece(Then("reader")))
                 /\ ~Idle("reader")' => Now("reader")'.do = "check"
                 /\ LastPiece'
      /\ ~x.ok => /\ ~Idle("reader")' /\ Now("reader")'.do = "fail"
                  /\ Now("reader")'.item = e.item
                  /\ (IsPiece(Now("reader"))' <=> IsPiece(e))
                  /\ PieceAhead' <=> Len(todo["reader"]) = 2 /\ IsPiece(Then("reader"))
                  /\ LastPiece'
  <2>1. CASE x.ok
    BY <1>0, <2>1, ReaderPopped
  <2>2. CASE ~x.ok
    BY <1>0, <2>2, ReaderAdvanced
  <2> QED
    BY <2>1, <2>2
<1>3. /\ e.item \in started
      /\ IsPiece(e) => Len(todo["reader"]) = 1
      /\ e.what = "delta" => Len(todo["reader"]) = 1
      /\ e.what = "started" /\ e.item = "message" =>
           Len(todo["reader"]) = 2 /\ IsPiece(Then("reader"))
      /\ e.item = "message" => IsPiece(e) \/ e.what = "started"
      /\ Len(todo["reader"]) = 2 => Then("reader").item = e.item
  BY <1>2 DEF Framed, Shapes, ReaderShape, IsPiece, Chunks
<1>4. PieceAhead <=> IsPiece(e) \/ (Len(todo["reader"]) = 2 /\ IsPiece(Then("reader")))
  BY <1>2, <1>3 DEF PieceAhead
<1>5. IsPiece(e) => "message" \in reply.finalItems /\ AllBut(1) /\ e.text = <<Len(text)>>
  BY <1>0, <1>2, <1>3, <1>4 DEF Followed, PieceDue, LastPiece
<1>6. Live' <=> Live
  BY <1>0 DEF Live
<1> HIDE DEF e
<1>7. Sound(x) /\ (x.r.finished <=> reply.finished)
  BY <1>0, <1>1, EventFacts DEF e
<1>8. CASE reply.finished
  <2>1. x.r = reply /\ ~x.ok /\ ~Live
    <3>1. x.r = reply /\ ~x.ok
      BY <1>0, <1>1, <1>8, EventFacts DEF e
    <3> QED
      BY <1>0, <1>8, <3>1 DEF Ended, Live
  <2>2. Followed'
    BY <1>2, <1>6, <2>1 DEF Followed, PieceDue, e
  <2> QED
    BY <1>0, <1>2, <2>1, <2>2
<1>9. CASE ~reply.finished /\ Ignored(reply, e.item, e.what, x)
  <2>1. x.r = reply /\ x.ok /\ ~IsPiece(e) /\ e.item # "message"
    BY <1>3, <1>5, <1>9 DEF Ignored, IsPiece
  <2>2. PieceAhead' <=> PieceAhead
    BY <1>2, <1>4, <2>1
  <2>3. \A n : AllBut(n)' <=> AllBut(n)
    BY <1>0, <2>1 DEF AllBut
  <2>4. PieceDue' => AllBut(1)'
    BY <1>0, <1>2, <1>6, <2>1, <2>2, <2>3 DEF Followed, PieceDue, PieceAhead
  <2>5. Live' /\ ~PieceAhead' => AllBut(0)'
    BY <1>0, <1>6, <2>2, <2>3 DEF Followed, e
  <2>6. Live' /\ "message" \in started' => "message" \in reply'.finalItems
    BY <1>0, <1>6, <2>1 DEF Followed, e
  <2>7. ~Idle("reader")' => Now("reader")'.do # "sink"
    BY <1>2, <2>1
  <2>8. Followed'
    BY <2>4, <2>5, <2>6, <2>7 DEF Followed
  <2> QED
    BY <1>0, <1>2, <2>1, <2>8
<1>10. CASE ~reply.finished /\ Opened(reply, e.item, e.what, x)
  <2>1. /\ x.ok /\ Len(todo["reader"]) = 2 /\ IsPiece(Then("reader")) /\ PieceAhead'
        /\ ~Idle("reader")' /\ PieceAhead
    BY <1>2, <1>3, <1>4, <1>10 DEF Opened
  <2>2. "message" \in reply'.finalItems
    BY <1>0, <1>10 DEF Opened
  <2>3. \A n : AllBut(n) => AllBut(n)'
    BY <1>0, <1>10 DEF AllBut, Opened
  <2>4. PieceDue' => AllBut(1)'
    BY <1>0, <1>2, <1>6, <2>1, <2>3 DEF Followed, PieceDue
  <2>5. Followed'
    BY <1>2, <2>1, <2>2, <2>4 DEF Followed
  <2>6. Told(reply')
    BY <1>0, <1>10 DEF Told, Opened
  <2> QED
    BY <1>2, <2>1, <2>5, <2>6
<1>11. CASE ~reply.finished /\ Added(reply, e.item, e.what, e.text, ~ctx, x)
  <2>1. IsPiece(e) /\ Len(todo["reader"]) = 1
    BY <1>0, <1>3, <1>11 DEF Added, IsPiece, Told
  <2>2. /\ x \in AppendLocked(reply, <<Len(text)>>, ~ctx) /\ Len(reply.text) + 1 = Len(text)
        /\ reply.stream \/ reply.messages = <<>>
    BY <1>5, <1>11, <2>1 DEF Added, AllBut
  <2>3. Told(x.r) /\ (x.ok => x.r.stream /\ Len(x.r.text) = Len(text))
    BY <1>0, <2>2, AppendTold
  <2>4. "message" \in reply'.finalItems
    <3>1. x.r.finalItems = reply.finalItems
      BY <1>0, <1>1, <1>11, AppendFacts DEF Added
    <3> QED
      BY <1>0, <1>5, <2>1, <3>1
  <2>5. ~PieceAhead'
    BY <1>2, <2>1
  <2>6. x.ok => AllBut(0)'
    <3>1. Len(text) \in Nat
      BY <1>0 DEF TypeOK
    <3> QED
      BY <1>0, <2>3, <3>1 DEF AllBut
  <2>7. Followed'
    BY <1>2, <2>1, <2>4, <2>5, <2>6 DEF Followed, PieceDue
  <2> QED
    BY <1>0, <1>2, <2>3, <2>7
<1> QED
  BY <1>0, <1>1, <1>8, <1>9, <1>10, <1>11, EventFacts DEF e

\* A delivery of the reader: to the run stream, to the reply, or not at all.
LEMMA TextsReader ==
  ASSUME Framed, Orderly => Ordered, ~stray, Texts, Counting(text), Deliver("reader")
  PROVE  Texts'
<1>0. TypeOK /\ reply \in Reply /\ SoundReply(reply) /\ "reader" \in Goroutine
  BY DEF Framed, Typed, TypeOK, Goroutine
<1>1. /\ ~Idle("reader")
      /\ text' = text /\ sink' = sink /\ started' = started /\ finish' = finish /\ turn' = turn
      /\ result' = result /\ answer' = answer
      /\ (err => err')
  BY <1>0, DeliverQueue DEF caller, agent
<1>2. result # "completed" /\ turn # "none"
  BY <1>1 DEF Texts, Ended, Orderly, Ordered, Framed, Shapes, ReaderShape
<1>3. (reply'.finished <=> reply.finished) => Ended'
  BY <1>1, <1>2 DEF Texts, Ended
<1>4. ASSUME reply' = reply, LastPiece', sink = "reply" => Followed' PROVE Texts'
  <2>1. Told(reply)'
    BY <1>1, <1>4 DEF Texts, Told, Beginning
  <2> QED
    BY <1>1, <1>3, <1>4, <2>1 DEF Texts
<1>5. ASSUME Popped("reader"), reply' = reply, ~Live' PROVE Texts'
  <2>1. LastPiece' /\ (~Idle("reader")' => Now("reader")'.do = "check")
        /\ (PieceAhead' => ~Idle("reader")')
    BY <1>1, <1>5, ReaderPopped DEF Texts
  <2>2. Followed'
    BY <1>5, <2>1 DEF Followed, PieceDue
  <2> QED
    BY <1>4, <1>5, <2>1, <2>2
<1>6. CASE CheckTurn("reader")
  <2>1. reply' = reply /\ err' = err /\ Now("reader").do = "check"
    BY <1>6 DEF CheckTurn, ears, state, At, Now
  <2>2. CASE turn = "set" /\ ~err
    <3>1. Advanced("reader", "sink")
      BY <1>0, <1>1, <1>6, <2>2, QueueSteps DEF CheckTurn
    <3>2. /\ Len(todo["reader"]) \in {1, 2} /\ ~Idle("reader")'
          /\ Now("reader")'.do = "sink" /\ Now("reader")'.item = Now("reader").item
          /\ (IsPiece(Now("reader"))' <=> IsPiece(Now("reader")))
          /\ PieceAhead' <=> \/ Len(todo["reader"]) = 1 /\ IsPiece(Now("reader"))
                             \/ Len(todo["reader"]) = 2 /\ IsPiece(Then("reader"))
          /\ LastPiece'
      BY <1>1, <3>1, ReaderAdvanced DEF Texts
    <3>3. PieceAhead' <=> PieceAhead
      BY <2>1, <3>2 DEF PieceAhead
    <3>4. Live /\ Live'
      BY <1>1, <2>1, <2>2 DEF Live
    <3>5. \A n : AllBut(n)' <=> AllBut(n)
      BY <1>1, <2>1 DEF AllBut
    <3>6. Now("reader").item \in started
      BY <1>1 DEF Framed, Shapes, ReaderShape
    <3>7. IsPiece(Now("reader")) => Now("reader").item = "message"
      BY DEF IsPiece
    <3>8. Followed => Followed'
      BY <1>1, <2>1, <3>2, <3>3, <3>4, <3>5, <3>6, <3>7 DEF Followed, PieceDue
    <3> QED
      BY <1>4, <2>1, <3>2, <3>8 DEF Texts
  <2>3. CASE ~(turn = "set" /\ ~err)
    <3>1. Popped("reader")
      BY <1>0, <1>1, <1>6, <2>3, QueueSteps DEF CheckTurn
    <3>2. ~Live'
      BY <1>1, <2>3 DEF Live
    <3> QED
      BY <1>5, <2>1, <3>1, <3>2
  <2> QED
    BY <2>2, <2>3
<1>7. CASE SinkFailed("reader")
  <2>1. reply' = reply /\ Become("reader", <<>>) /\ err' = (err \/ turn = "set")
    BY <1>7 DEF SinkFailed, ears
  <2>2. Popped("reader")
    BY <1>0, <1>1, <2>1, QueueSteps
  <2>3. ~Live'
    BY <1>1, <2>1 DEF Live
  <2> QED
    BY <1>5, <2>1, <2>2, <2>3
<1>8. CASE CallSink("reader")
  <2>1. Now("reader").do = "sink" /\ turn' = turn /\ err' = err
    BY <1>0, <1>8, SinkCalled
  <2>2. CASE sink = "run" /\ reply' = reply /\ (Popped("reader") \/ Advanced("reader", "fail"))
    <3>1. LastPiece'
      BY <1>1, <2>2, ReaderPopped, ReaderAdvanced DEF Texts
    <3> QED
      BY <1>4, <2>2, <3>1
  <2>3. ASSUME sink = "reply",
               NEW x \in Event(reply, Now("reader").item, Now("reader").what, Now("reader").text, ~ctx),
               reply' = x.r, x.ok => Popped("reader"), ~x.ok => Advanced("reader", "fail")
        PROVE  Texts'
    <3>1. Told(reply') /\ LastPiece' /\ Followed'
      BY <1>1, <2>1, <2>3, TextsSink
    <3>2. x.r.finished <=> reply.finished
      <4>1. Now("reader").item \in Item /\ Now("reader").text \in Seq(Nat)
        BY <1>0, <1>1, QueueSteps DEF Now, Saying
      <4> QED
        BY <1>0, <4>1, EventFacts
    <3>3. Ended'
      BY <1>3, <2>3, <3>2
    <3>4. Told(reply)'
      BY <1>1, <3>1 DEF Told, Beginning
    <3> QED
      BY <1>1, <2>3, <3>1, <3>3, <3>4 DEF Texts
  <2>4. \/ sink = "run" /\ reply' = reply /\ (Popped("reader") \/ Advanced("reader", "fail"))
        \/ /\ sink = "reply"
           /\ \E x \in Event(reply, Now("reader").item, Now("reader").what, Now("reader").text, ~ctx) :
                reply' = x.r /\ (x.ok => Popped("reader")) /\ (~x.ok => Advanced("reader", "fail"))
    BY <1>0, <1>8, SinkCalled
  <2> QED
    BY <2>2, <2>3, <2>4
<1> QED
  BY <1>6, <1>7, <1>8 DEF Deliver

\* A handler of the reader that brings no piece of the message.
LEMMA TextsSaid ==
  ASSUME Framed, Texts, Reads, NEW i \in Parts, i # "message", Others("reader"),
         Len(todo'["reader"]) \in {1, 2}, Now("reader")'.item = i,
         Len(todo'["reader"]) = 2 => Then("reader")'.item = i,
         Now("reader")'.do = "check", started' = started \cup {i},
         UNCHANGED <<reply, text, sink, finish, turn, err, result, answer>>
  PROVE  Texts'
<1>1. Idle("reader") /\ turn = "set" /\ ~PieceAhead
  BY DEF Reads, PieceAhead, Idle
<1>2. ~Idle("reader")' /\ ~PieceAhead' /\ LastPiece'
  <2>1. ~Idle("reader")'
    BY DEF Idle
  <2>2. ~IsPiece(Now("reader"))' /\ (Len(todo'["reader"]) = 2 => ~IsPiece(Then("reader"))')
    BY DEF IsPiece
  <2> QED
    BY <2>1, <2>2 DEF PieceAhead, LastPiece
<1>3. Told(reply)' /\ Ended'
  BY DEF Texts, Told, Beginning, Ended, AllBut
<1>4. (Live' <=> Live) /\ \A n : AllBut(n)' <=> AllBut(n)
  BY DEF Live, AllBut
<1>5. Followed => Followed'
  BY <1>1, <1>2, <1>4 DEF Followed, PieceDue
<1> QED
  BY <1>2, <1>3, <1>5 DEF Texts

\* The next piece of the message.
LEMMA TextsPiece ==
  ASSUME Framed, Texts, Counting(text), Chunk("message")
  PROVE  Texts' /\ Counting(text)'
<1>0. TypeOK /\ reply \in Reply
  BY DEF Framed, Typed, TypeOK
<1>1. /\ Idle("reader") /\ turn = "set" /\ text' = text \o <<Len(text) + 1>>
      /\ UNCHANGED <<reply, sink, finish, turn, err, result, answer>>
      /\ started' = started \cup {"message"}
  BY DEF Chunk, Reads, Handled, Piece, caller, ears
<1>2. Counting(text') /\ Len(text') = Len(text) + 1 /\ Len(text) \in Nat
  <2>1. Len(text) \in Nat
    BY <1>0 DEF TypeOK
  <2> QED
    BY <1>1, <2>1, CountingFacts
<1>3. Piece("message") = <<Len(text')>> /\ "message" \in Item /\ Piece("message") \in Seq(Nat)
  <2>1. "message" \in Item
    BY DEF Item
  <2>2. Piece("message") = <<Len(text) + 1>>
    BY DEF Piece
  <2> QED
    BY <1>0, <1>2, <2>1, <2>2, PieceFacts
<1>4. \/ /\ "message" \in started /\ Len(todo'["reader"]) = 1
         /\ IsPiece(Now("reader"))' /\ Now("reader")'.text = <<Len(text')>>
         /\ Now("reader")'.do = "check"
      \/ /\ Len(todo'["reader"]) = 2 /\ Now("reader")'.item = "message"
         /\ ~IsPiece(Now("reader"))' /\ Now("reader")'.do = "check"
         /\ IsPiece(Then("reader"))' /\ Then("reader")'.text = <<Len(text')>>
  <2>1. "message" \in Chunks
    BY DEF Chunks
  <2>2. /\ Say("message", "delta", Piece("message")).do = "check"
        /\ Say("message", "delta", Piece("message")).item = "message"
        /\ Say("message", "delta", Piece("message")).what = "delta"
        /\ Say("message", "delta", Piece("message")).text = <<Len(text')>>
    BY <1>3, SayFacts
  <2>3. /\ Tell("message", "started").do = "check" /\ Tell("message", "started").item = "message"
        /\ Tell("message", "started").what = "started"
    BY <1>3, TellFacts
  <2>4. CASE "message" \in started /\ One("reader", Say("message", "delta", Piece("message")))
    BY <2>2, <2>4 DEF One, Now, IsPiece
  <2>5. CASE Two("reader", Tell("message", "started"), Say("message", "delta", Piece("message")))
    BY <2>2, <2>3, <2>5 DEF Two, Now, Then, IsPiece
  <2> QED
    BY <1>0, <2>1, <2>4, <2>5, ChunkQueue
<1>5. PieceAhead' /\ ~Idle("reader")' /\ LastPiece' /\ ~PieceAhead
  <2>1. ~Idle("reader")'
    BY <1>4 DEF Idle
  <2>2. ~PieceAhead
    BY <1>1 DEF PieceAhead, Idle
  <2>3. PieceAhead'
    BY <1>4 DEF PieceAhead
  <2>4. LastPiece'
    BY <1>4 DEF LastPiece
  <2> QED
    BY <2>1, <2>2, <2>3, <2>4
<1>6. (Live' <=> Live) /\ (AllBut(0) => AllBut(1)')
  <2>1. Len(reply.text) \in Nat
    BY <1>0 DEF Reply
  <2> QED
    BY <1>1, <1>2, <2>1 DEF Live, AllBut
<1>7. Told(reply)'
  <2>1. Len(reply.text) \in Nat /\ (reply.messages # <<>> => Len(reply.messages[1].text) \in Nat)
    BY DEF Texts, Told, Beginning, Counting
  <2>2. \A s : Beginning(s) /\ Len(s) \in Nat => Beginning(s)'
    BY <1>2 DEF Beginning, Counting
  <2> QED
    BY <1>1, <2>1, <2>2 DEF Texts, Told
<1>8. Ended'
  BY <1>1 DEF Texts, Ended
<1>9. Followed => Followed'
  <2>1. Followed => (PieceDue' => AllBut(1)')
    BY <1>1, <1>4, <1>5, <1>6 DEF Followed, PieceDue
  <2>2. Followed /\ Live /\ "message" \in started => "message" \in reply.finalItems
    BY <1>1 DEF Followed
  <2> QED
    BY <1>1, <1>4, <1>5, <1>6, <2>1, <2>2 DEF Followed
<1> QED
  BY <1>1, <1>2, <1>5, <1>7, <1>8, <1>9 DEF Texts

\* Finish, after the turn: with the text that the reply has, or with none.
LEMMA TextsFinish ==
  ASSUME Framed, Texts, Counting(text), Finish
  PROVE  Texts'
<1> DEFINE final == IF result = "completed" THEN text ELSE <<>>
<1>0. /\ TypeOK /\ reply \in Reply /\ SoundReply(reply) /\ Told(reply) /\ reply.finished \in BOOLEAN
      /\ Ended /\ LastPiece
  BY DEF Framed, Typed, TypeOK, Texts, Reply
<1>1. /\ turn = "cleared" /\ sink = "reply" /\ sink' = sink /\ turn' = turn /\ result' = result
      /\ answer' = answer /\ text' = text /\ todo' = todo /\ err' = err /\ started' = started
  BY <1>0 DEF Finish, caller, state, agent, Framed, Stages, TypeOK
<1>2. PICK x \in FinishReply(reply, final) :
        reply' = x.r /\ finish' = IF x.ok THEN "ok" ELSE "error"
  BY DEF Finish
<1>3. final \in Seq(Nat) /\ (final = <<>> \/ final = reply.text)
      /\ (result = "completed" => reply.stream /\ Len(reply.text) = Len(text))
  <2>1. CASE result = "completed"
    <3>1. reply.stream /\ AllBut(0) /\ Len(reply.text) \in Nat
      BY <1>0, <1>1, <2>1 DEF Ended, Reply
    <3>2. Len(reply.text) = Len(text)
      BY <3>1 DEF AllBut
    <3>3. reply.text = text
      BY <1>0, <3>2, CountingFacts DEF Told, Beginning
    <3> QED
      BY <1>0, <2>1, <3>1, <3>2, <3>3 DEF TypeOK
  <2>2. CASE result # "completed"
    BY <2>2
  <2> QED
    BY <2>1, <2>2
<1> HIDE DEF final
<1>4. /\ Told(x.r) /\ x.r.text = reply.text /\ (x.r.stream <=> reply.stream)
      /\ x.r.finalItems = reply.finalItems /\ (x.r.messages = <<>> <=> reply.messages = <<>>)
      /\ x.ok => x.r.finished
      /\ x.ok /\ reply.stream => /\ Len(x.r.messages) = 1 /\ ~x.r.messages[1].open
                                 /\ Len(x.r.messages[1].text) = Len(reply.text)
  <2>1. CASE reply.finished
    <3>1. x.r = reply /\ ~x.ok
      BY <1>0, <1>3, <2>1, FinishReplyFacts
    <3> QED
      BY <1>0, <3>1
  <2>2. CASE ~reply.finished
    <3>1. x \in Close(reply)
      BY <1>0, <1>3, <2>2, FinishReplyFacts
    <3>2. /\ (x.r.stream <=> reply.stream) /\ x.r.text = reply.text
          /\ x.r.finalItems = reply.finalItems /\ (x.ok => x.r.finished)
      BY <1>0, <3>1, CloseFacts
    <3>3. /\ Told(x.r) /\ (x.r.messages = <<>> <=> reply.messages = <<>>)
          /\ x.ok /\ reply.stream => /\ Len(x.r.messages) = 1
                                     /\ Len(x.r.messages[1].text) = Len(reply.text)
                                     /\ ~x.r.messages[1].open
      BY <1>0, <3>1, CloseTold
    <3> QED
      BY <3>2, <3>3
  <2> QED
    BY <1>0, <2>1, <2>2
<1>5. Told(reply)' /\ LastPiece'
  BY <1>0, <1>1, <1>2, <1>4 DEF Told, Beginning, LastPiece, Idle, Now, Then
<1>6. \A n : AllBut(n) => AllBut(n)'
  BY <1>1, <1>2, <1>4 DEF AllBut
<1>7. Followed'
  <2>1. /\ (PieceDue' <=> PieceDue) /\ ~Live' /\ (Idle("reader")' <=> Idle("reader"))
        /\ Now("reader")' = Now("reader")
    BY <1>1 DEF PieceDue, PieceAhead, Live, Idle, Now, Then
  <2> QED
    BY <1>1, <1>2, <1>4, <1>6, <2>1 DEF Texts, Followed
<1>8. Ended'
  <2>1. finish' = "ok" => x.ok
    BY <1>2
  <2>2. /\ turn' # "none"
        /\ result' = "completed" => turn' = "cleared" /\ answer' = "end" /\ text' # <<>>
        /\ result' = "completed" /\ sink' = "reply" => reply'.stream /\ AllBut(0)'
    BY <1>0, <1>1, <1>2, <1>4, <1>6 DEF Ended
  <2>3. /\ finish' = "ok" => sink' = "reply" /\ reply'.finished
        /\ finish' = "ok" /\ result' = "completed" =>
             /\ Len(reply'.messages) = 1 /\ Len(reply'.messages[1].text) = Len(text')
             /\ ~reply'.messages[1].open
    BY <1>1, <1>2, <1>3, <1>4, <2>1
  <2> QED
    BY <1>1, <2>2, <2>3 DEF Ended
<1> QED
  BY <1>1, <1>5, <1>7, <1>8 DEF Texts

\* The verdict of the turn: it is "completed" only with all the text in the reply.
LEMMA TextsEnd ==
  ASSUME Framed, Ordered \/ answer = "lost", Texts, EndTurn
  PROVE  Texts'
<1>0. TypeOK /\ reply \in Reply /\ SoundReply(reply)
  BY DEF Framed, Typed, TypeOK
<1>1. /\ pc = "completing" /\ turn = "set" /\ turn' = "cleared" /\ Idle("caller")
      /\ UNCHANGED <<reply, text, sink, started, finish, err, todo, answer>>
  BY DEF EndTurn, ears, agent, Framed, Stages
<1>2. \/ result' = "completed" /\ answer = "end" /\ ~err /\ text # <<>>
      \/ result' = "error"
  BY DEF EndTurn, Return
<1>3. result' = "completed" /\ sink = "reply" => reply.stream /\ AllBut(0)
  <2>1. SUFFICES ASSUME result' = "completed", sink = "reply" PROVE reply.stream /\ AllBut(0)
    OBVIOUS
  <2>2. Idle("reader") /\ Live
    BY <1>1, <1>2, <2>1 DEF Ordered, Live
  <2>3. AllBut(0)
    BY <2>1, <2>2 DEF Texts, Followed, PieceAhead, Idle
  <2>4. Len(text) # 0 /\ Len(text) \in Nat /\ Len(reply.text) \in Nat
    BY <1>0, <1>2, <2>1 DEF TypeOK, Reply
  <2>5. reply.text # <<>>
    BY <2>3, <2>4 DEF AllBut
  <2> QED
    BY <1>0, <2>3, <2>5 DEF SoundReply
<1>4. (\A n : AllBut(n)' <=> AllBut(n)) /\ ~Live' /\ (PieceAhead' <=> PieceAhead)
      /\ (Idle("reader")' <=> Idle("reader")) /\ Now("reader")' = Now("reader")
  BY <1>1 DEF AllBut, Live, PieceAhead, Idle, Now, Then
<1>5. Followed => Followed'
  BY <1>1, <1>4 DEF Followed, PieceDue, IsPiece
<1>6. finish # "ok"
  BY <1>1 DEF Texts, Ended
<1>7. Ended'
  BY <1>1, <1>2, <1>3, <1>4, <1>6 DEF Ended, Texts
<1>8. Told(reply)' /\ LastPiece'
  BY <1>1 DEF Texts, Told, Beginning, LastPiece, Now, Then
<1> QED
  BY <1>1, <1>5, <1>7, <1>8 DEF Texts

\* The turn begins with an empty text, and an empty reply.
LEMMA TextsBegin ==
  ASSUME Framed, Texts, BeginTurn
  PROVE  Texts'
<1>1. /\ turn = "none" /\ Idle("reader") /\ started = {}
      /\ UNCHANGED <<reply, text, sink, started, finish, err, todo, answer>>
  BY DEF BeginTurn, ears, agent, Framed, Stages, Shapes, ReaderShape
<1>2. CASE turn' = turn /\ result' = "error"
  BY <1>1, <1>2, TextsFrame
<1>3. CASE turn' = "set" /\ result' = result
  <2>1. text = <<>> /\ reply = NewReply /\ result # "completed" /\ finish # "ok"
    BY <1>1 DEF Texts, Ended, NewReply
  <2>2. reply.text = <<>> /\ reply.messages = <<>> /\ reply.finished = FALSE
    BY <2>1 DEF NewReply
  <2>3. AllBut(0)'
    <3>1. Len(<<>>) + 0 = Len(<<>>)
      OBVIOUS
    <3> QED
      BY <1>1, <2>1, <2>2, <3>1 DEF AllBut
  <2>4. Idle("reader")' /\ ~PieceAhead'
    BY <1>1 DEF Idle, PieceAhead
  <2>5. Followed'
    BY <1>1, <2>3, <2>4 DEF Followed, PieceDue
  <2>6. Ended'
    BY <1>1, <1>3, <2>1, <2>2 DEF Ended
  <2>7. Told(reply)' /\ LastPiece'
    BY <1>1 DEF Texts, Told, Beginning, LastPiece, Idle, Now, Then
  <2> QED
    BY <1>1, <2>5, <2>6, <2>7 DEF Texts
<1> QED
  BY <1>2, <1>3 DEF BeginTurn, Return, Goto

\* No text at the start.
LEMMA TextsInit == Init => Texts /\ Counting(text)
<1> SUFFICES ASSUME Init PROVE Texts /\ Counting(text)
  OBVIOUS
<1>1. /\ reply = NewReply /\ text = <<>> /\ turn = "none" /\ result = "none" /\ finish = "waiting"
      /\ todo["reader"] = <<>>
  BY DEF Init, Goroutine
<1>2. /\ NewReply.text = <<>> /\ NewReply.messages = <<>> /\ NewReply.finished = FALSE
      /\ NewReply.stream = FALSE /\ NewReply.nextIndex = 0 /\ NewReply.finalItems = {}
  BY DEF NewReply
<1>3. Counting(<<>>) /\ Len(<<>>) = 0
  BY CountingFacts
<1>4. Told(reply)
  BY <1>1, <1>2, <1>3 DEF Told, Beginning
<1>5. ~PieceAhead /\ LastPiece /\ Idle("reader") /\ ~Live
  BY <1>1, <1>3 DEF PieceAhead, LastPiece, Idle, Live
<1>6. Followed
  BY <1>5 DEF Followed, PieceDue
<1>7. Ended
  BY <1>1, <1>2 DEF Ended
<1> QED
  BY <1>1, <1>3, <1>4, <1>5, <1>6, <1>7 DEF Texts

\* Every step keeps the reply to what the agent said.
LEMMA TextsNext ==
  /\ Framed /\ Framed' /\ (Orderly => Ordered) /\ Texts /\ Counting(text) /\ ~stray'
  /\ [Next]_vars
  => Texts' /\ Counting(text)'
<1> SUFFICES ASSUME Framed, Framed', Orderly => Ordered, Texts, Counting(text), ~stray', [Next]_vars
             PROVE  Texts' /\ Counting(text)'
  OBVIOUS
<1>0. TypeOK /\ TypeOK'
  BY DEF Framed, Typed
<1>1. ASSUME UNCHANGED text PROVE Counting(text)'
  BY <1>1 DEF Counting
<1>2. ASSUME NEW g \in Goroutine, Deliver(g) PROVE Texts' /\ Counting(text)'
  <2>1. UNCHANGED <<text, agent>>
    BY <1>0, <1>2, DeliverQueue
  <2>2. ~stray
    BY <2>1 DEF agent
  <2> QED
    BY <1>1, <1>2, <2>1, <2>2, TextsOthers, TextsReader
<1>3. CASE Chunk("message")
  BY <1>3, TextsPiece
<1>4. CASE Chunk("thought")
  <2>1. "thought" \in Parts /\ "thought" \in Chunks /\ "thought" # "message" /\ "thought" \in Item
    BY DEF Parts, Chunks, Item
  <2>2. Piece("thought") = <<>> /\ Piece("thought") \in Seq(Nat) /\ text \in Seq(Nat)
    BY <1>0, <2>1, PieceFacts DEF Piece, TypeOK
  <2>3. text' = text
    <3>1. text' = text \o <<>>
      BY <1>4, <2>2 DEF Chunk
    <3> QED
      BY <2>2, <3>1
  <2>4. /\ Others("reader") /\ Len(todo'["reader"]) \in {1, 2} /\ Now("reader")'.item = "thought"
        /\ Len(todo'["reader"]) = 2 => Then("reader")'.item = "thought"
        /\ Now("reader")'.do = "check"
    <3>1. /\ Say("thought", "delta", Piece("thought")).do = "check"
          /\ Say("thought", "delta", Piece("thought")).item = "thought"
      BY <2>1, <2>2, SayFacts
    <3>2. Tell("thought", "started").do = "check" /\ Tell("thought", "started").item = "thought"
      BY <2>1, TellFacts
    <3>3. CASE One("reader", Say("thought", "delta", Piece("thought")))
      BY <3>1, <3>3 DEF One, Now
    <3>4. CASE Two("reader", Tell("thought", "started"), Say("thought", "delta", Piece("thought")))
      BY <3>1, <3>2, <3>4 DEF Two, Now, Then
    <3> QED
      BY <1>0, <1>4, <2>1, <3>3, <3>4, ChunkQueue
  <2>5. /\ Reads /\ started' = started \cup {"thought"}
        /\ UNCHANGED <<reply, sink, finish, turn, err, result, answer>>
    BY <1>4 DEF Chunk, Handled, caller, ears
  <2>6. Texts'
    BY <2>1, <2>3, <2>4, <2>5, TextsSaid
  <2> QED
    BY <1>1, <2>3, <2>6
<1>5. CASE ToolCall \/ \E terminal \in BOOLEAN : ToolCallUpdate(terminal)
  <2>1. "tool" \in Parts /\ "tool" \in Item
    BY DEF Parts, Item
  <2>2. /\ Others("reader") /\ Len(todo'["reader"]) \in {1, 2} /\ Now("reader")'.item = "tool"
        /\ Len(todo'["reader"]) = 2 => Then("reader")'.item = "tool"
        /\ Now("reader")'.do = "check"
    <3>1. /\ Tell("tool", "started").do = "check" /\ Tell("tool", "started").item = "tool"
          /\ Tell("tool", "updated").do = "check" /\ Tell("tool", "updated").item = "tool"
          /\ Tell("tool", "completed").item = "tool"
      BY <2>1, TellFacts
    <3>2. CASE One("reader", Tell("tool", "started"))
      BY <3>1, <3>2 DEF One, Now
    <3>4. CASE One("reader", Tell("tool", "updated"))
      BY <3>1, <3>4 DEF One, Now
    <3>3. CASE Two("reader", Tell("tool", "updated"), Tell("tool", "completed"))
      BY <3>1, <3>3 DEF Two, Now, Then
    <3> QED
      BY <1>0, <1>5, <3>2, <3>3, <3>4, ToolQueue, PlainQueues
  <2>3. /\ Reads /\ started' = started \cup {"tool"}
        /\ UNCHANGED <<reply, text, sink, finish, turn, err, result, answer>>
    BY <1>5 DEF ToolCall, ToolCallUpdate, Handled, caller, ears
  <2>4. Texts'
    BY <2>1, <2>2, <2>3, TextsSaid
  <2> QED
    BY <1>1, <2>3, <2>4
<1>6. CASE RequestPermission
  <2>1. UNCHANGED <<reply, text, sink, started, finish, turn, err, result, answer>>
    BY <1>6 DEF RequestPermission, Handled, caller, state, ears
  <2>2. todo'["reader"] = todo["reader"]
    BY <1>0, <1>6, PlainQueues DEF Two, Others, Goroutine
  <2> QED
    BY <1>1, <2>1, <2>2, TextsFrame
<1>7. CASE CompleteItem
  <2>1. UNCHANGED <<reply, text, sink, started, finish, turn, err, result, answer>>
    BY <1>7 DEF CompleteItem, caller, agent, state, ears
  <2>2. todo'["reader"] = todo["reader"]
    BY <1>0, <1>7 DEF CompleteItem, TypeOK, Goroutine
  <2> QED
    BY <1>1, <2>1, <2>2, TextsFrame
<1>8. CASE Answer \/ PromptReturns
  <2>1. UNCHANGED <<reply, text, sink, started, finish, turn, err, result, todo>>
    BY <1>8 DEF Answer, PromptReturns, Goto, caller, state, ears
  <2>2. result # "completed"
    BY <1>8 DEF Answer, PromptReturns, Texts, Ended, Framed, Stages
  <2> QED
    BY <1>1, <2>1, <2>2, TextsFrame
<1>9. CASE Start \/ CloseSession \/ Closed \/ Wait \/ ContextDone \/ UNCHANGED vars
  <2>1. UNCHANGED <<reply, text, sink, started, finish, turn, err, todo, answer>>
    BY <1>9 DEF Start, CloseSession, Closed, Wait, ContextDone, vars, agent, state, ears
  <2>2. result' = result \/ result' = "error"
    BY <1>9 DEF Start, CloseSession, Closed, Wait, ContextDone, vars, caller, Goto, Return
  <2> QED
    BY <1>1, <2>1, <2>2, TextsFrame
<1>10. CASE BeginTurn
  <2>1. UNCHANGED text
    BY <1>10 DEF BeginTurn
  <2> QED
    BY <1>1, <1>10, <2>1, TextsBegin
<1>11. CASE EndTurn
  <2>1. UNCHANGED <<text, stray>>
    BY <1>11 DEF EndTurn, agent
  <2>2. Ordered \/ answer = "lost"
    BY <2>1 DEF Orderly
  <2> QED
    BY <1>1, <1>11, <2>1, <2>2, TextsEnd
<1>12. CASE Finish
  <2>1. UNCHANGED text
    BY <1>12 DEF Finish, state
  <2> QED
    BY <1>1, <1>12, <2>1, TextsFinish
<1> QED
  BY <1>2, <1>3, <1>4, <1>5, <1>6, <1>7, <1>8, <1>9, <1>10, <1>11, <1>12 DEF Next, Caller

-----------------------------------------------------------------------------
\* All of it together.
IInv == /\ Framed
        /\ Orderly => Ordered /\ Settled
        /\ ~stray => Texts /\ Counting(text)

\* The inductive invariant holds at the start,
LEMMA IInvInit == Init => IInv
<1> SUFFICES ASSUME Init PROVE IInv
  OBVIOUS
<1>1. /\ \A g \in Goroutine : todo[g] = <<>> /\ Len(todo[g]) = 0
      /\ \A i \in Item : told[i] = "nothing"
  BY DEF Init
<1>2. /\ pc = "starting" /\ turn = "none" /\ answer = "none" /\ started = {} /\ completed = {}
      /\ tools = {} /\ leftover = {} /\ err = FALSE /\ refused = FALSE
  BY DEF Init
<1>3. \A g \in Goroutine : Idle(g)
  BY <1>1 DEF Idle
<1>4. Stages
  BY <1>2, <1>3 DEF Stages
<1>5. "reader" \in Goroutine /\ "asker" \in Goroutine /\ "caller" \in Goroutine
  BY DEF Goroutine
<1>6. Shapes
  BY <1>1, <1>3, <1>5 DEF Shapes, ReaderShape, AskerShape, CallerShape, ReaderCompletes
<1>7. Ordered
  BY <1>1, <1>2, <1>3, <1>5 DEF Ordered, Parts, Chunks, Item
<1>8. Settled
  BY <1>1, <1>5 DEF Settled
<1> QED
  BY <1>4, <1>6, <1>7, <1>8, TypeInit, TextsInit DEF IInv, Framed

\* An agent that has strayed has strayed for good.
LEMMA StrayBefore == Typed /\ [Next]_vars /\ ~stray' => ~stray
<1> SUFFICES ASSUME Typed, [Next]_vars, ~stray' PROVE ~stray
  OBVIOUS
<1>1. CASE UNCHANGED stray
  BY <1>1
<1>2. ASSUME NEW g \in Goroutine, Deliver(g) PROVE ~stray
  BY <1>2 DEF Deliver, CheckTurn, CallSink, SinkFailed, agent
<1>3. CASE Chunk("message") \/ Chunk("thought")
  BY <1>3 DEF Chunk, Handled
<1>4. CASE ToolCall \/ RequestPermission \/ \E terminal \in BOOLEAN : ToolCallUpdate(terminal)
  BY <1>4 DEF ToolCall, RequestPermission, ToolCallUpdate, Handled
<1>5. CASE Answer
  BY <1>5 DEF Answer
<1>6. CASE \/ Start \/ BeginTurn \/ PromptReturns \/ CompleteItem \/ EndTurn \/ CloseSession
           \/ Closed \/ Wait \/ Finish \/ ContextDone \/ UNCHANGED vars
  BY <1>1, <1>6 DEF Start, BeginTurn, PromptReturns, CompleteItem, EndTurn, CloseSession, Closed,
     Wait, Finish, ContextDone, vars, agent
<1> QED
  BY <1>2, <1>3, <1>4, <1>5, <1>6 DEF Next, Caller

\* is kept by every step,
LEMMA IInvNext == IInv /\ [Next]_vars => IInv'
<1> SUFFICES ASSUME IInv, [Next]_vars PROVE IInv'
  OBVIOUS
<1>1. Typed /\ Stages /\ Shapes /\ Framed
  BY DEF IInv, Framed
<1>2. Framed' /\ Stages'
  BY <1>1, TypeNext, ShapesNext, StagesNext DEF Framed
<1>3. Orderly' => Ordered' /\ Settled'
  BY <1>1, <1>2, OrderlyBefore, OrderedNext, SettledNext DEF IInv
<1>4. ~stray' => Texts' /\ Counting(text)'
  BY <1>1, <1>2, StrayBefore, TextsNext DEF IInv
<1> QED
  BY <1>2, <1>3, <1>4 DEF IInv

\* and so holds always.
LEMMA IInvAlways == Spec => []IInv
  BY IInvInit, IInvNext, PTL DEF Spec

\* Every variable of the session has its type.
THEOREM TypeCorrect == Spec => []TypeOK
<1>1. IInv => TypeOK
  BY DEF IInv, Framed, Typed
<1> QED
  BY <1>1, IInvAlways, PTL

\* The run stream hears of an item in order, whatever the interleaving of the
\* reader, the asker and Turn, and wherever it refuses an event.
THEOREM ItemsInOrder == Spec => []ItemsToldInOrder
<1>1. IInv => ItemsToldInOrder
  BY DEF IInv, ItemsToldInOrder, Orderly, Ordered
<1> QED
  BY <1>1, IInvAlways, PTL

\* No item and no permission is left open by a turn that was answered.
THEOREM AnsweredCompletes == Spec => []AnsweredTurnCompletesItems
<1>1. IInv => AnsweredTurnCompletesItems
  <2> SUFFICES ASSUME IInv, turn = "cleared", answer # "lost", ~stray, ~refused,
                      NEW i \in Item, told[i] = "open"
               PROVE  FALSE
    BY DEF AnsweredTurnCompletesItems
  <2>1. Ordered /\ Settled /\ Stages /\ Shapes /\ TypeOK
    BY DEF IInv, Orderly, Framed, Typed
  <2>2. /\ pc # "completing" /\ pc # "prompt" /\ leftover = {} /\ answer # "none"
        /\ started \subseteq completed
    BY <2>1 DEF Stages, Ordered
  <2>3. Idle("reader") /\ Idle("asker") /\ Idle("caller")
    BY <2>1, <2>2 DEF Ordered, Shapes, CallerShape
  <2>4. ~ReaderCompletes
    BY <2>3 DEF ReaderCompletes, Idle
  <2>5. i \in Parts /\ Unclosed(i)
    BY <2>1, <2>3, <2>4 DEF Settled, Owed
  <2>6. i \notin started
    BY <2>2, <2>5 DEF Unclosed
  <2>7. sink = "run" \/ sink = "reply"
    BY <2>1, AcpSessionAssumption DEF TypeOK
  <2> QED
    BY <2>1, <2>5, <2>6, <2>7 DEF Ordered
<1> QED
  BY <1>1, IInvAlways, PTL

\* Whatever appends are lost or of unknown outcome, the recipient has at most one
\* message, and it is the beginning of what the agent said.
THEOREM OneReply == Spec => []OneReplyInOrder
<1>1. IInv => OneReplyInOrder
  <2> SUFFICES ASSUME IInv, ~stray
               PROVE  /\ Len(reply.messages) <= 1
                      /\ \A m \in 1..Len(reply.messages) : IsPrefix(reply.messages[m].text, text)
    BY DEF OneReplyInOrder
  <2>1. Told(reply) /\ Counting(text)
    BY DEF IInv, Texts
  <2>2. Len(reply.messages) \in {0, 1}
    BY <2>1 DEF Told
  <2>3. ASSUME NEW m \in 1..Len(reply.messages) PROVE IsPrefix(reply.messages[m].text, text)
    <3>1. m = 1 /\ Len(reply.messages) = 1
      <4>1. CASE Len(reply.messages) = 0
        <5>1. m \in 1..0
          BY <4>1
        <5> QED
          BY <5>1
      <4>2. CASE Len(reply.messages) = 1
        <5>1. m \in 1..1
          BY <4>2
        <5> QED
          BY <4>2, <5>1
      <4> QED
        BY <2>2, <4>1, <4>2
    <3>2. reply.messages # <<>>
      BY <3>1
    <3>3. Beginning(reply.messages[1].text)
      BY <2>1, <3>2 DEF Told
    <3> QED
      BY <2>1, <3>1, <3>3, CountingFacts DEF Beginning
  <2> QED
    BY <2>2, <2>3
<1> QED
  BY <1>1, IInvAlways, PTL

\* A reply that was finished without error, of a run that completed, is the final
\* text: one message, all of it, and closed.
THEOREM ReplyFinal == Spec => []ReplyIsFinalText
<1>1. IInv => ReplyIsFinalText
  <2> SUFFICES ASSUME IInv, finish = "ok", result = "completed", ~stray
               PROVE  /\ Len(reply.messages) = 1 /\ reply.messages[1].text = text
                      /\ ~reply.messages[1].open
    BY DEF ReplyIsFinalText
  <2>1. Told(reply) /\ Counting(text) /\ Ended
    BY DEF IInv, Texts
  <2>2. /\ Len(reply.messages) = 1 /\ Len(reply.messages[1].text) = Len(text)
        /\ ~reply.messages[1].open
    BY <2>1 DEF Ended
  <2>3. Counting(reply.messages[1].text)
    <3>1. reply.messages # <<>>
      BY <2>2
    <3> QED
      BY <2>1, <3>1 DEF Told, Beginning
  <2> QED
    BY <2>1, <2>2, <2>3, CountingFacts
<1> QED
  BY <1>1, IInvAlways, PTL
=============================================================================
