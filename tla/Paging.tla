------------------------------- MODULE Paging --------------------------------
(***************************************************************************)
(* The paged reads of the daemon (internal/service): a client walks a list *)
(* page by page, each page an RPC with the cursor of the last.  The daemon *)
(* keeps nothing between the calls: it reads the whole list anew, in       *)
(* server pages of 100, whole, or the newest 100, and cuts the page out at *)
(* the cursor's offset.  Meanwhile the list changes.                       *)
(*                                                                         *)
(* A method is a record of its cursors' query, of how it reads the list,   *)
(* and whether it keeps only what matches a search.  A query is a string,  *)
(* here the sequence of the parts its colons separate: an ID is one part,  *)
(* the text of a search one more than it has colons.  A list is a sequence *)
(* of items <<method, number>>.                                            *)
(*                                                                         *)
(* External: the IM server answers with a page of its list as it then is,  *)
(* and with its length as Total; the newest messages are the last ones.    *)
(***************************************************************************)
EXTENDS Naturals, SequencesExt

CONSTANTS Method,      \* methods the client uses
          Limits,      \* limits it asks for
          ServerPage,  \* ShowNumber, serverPageSize
          Window,      \* maxServerHistory
          Size,        \* length of every list at first
          Blank,       \* numbers of the items without an ID
          Match,       \* numbers of the items the searches look for
          MaxChanges, MaxFailures  \* bounds

ASSUME PagingAssumption ==
  /\ Method \subseteq [query : Seq(STRING) \ {<<>>}, filter : BOOLEAN,
                       read : {"pages", "all", "window"}]
  /\ Limits \subseteq Nat \ {0} /\ ServerPage \in Nat \ {0} /\ Window \in Nat \ {0}
  /\ Size \in Nat /\ MaxChanges \in Nat /\ MaxFailures \in Nat

Paged(q, r, f) == [query |-> q, read |-> r, filter |-> f]
GroupList                == Paged(<<"list">>, "pages", FALSE)
GroupSearch(text)        == Paged(<<"search">> \o text, "pages", TRUE)
MembersList(id)          == Paged(<<"members", id>>, "pages", FALSE)
MembersSearch(id, text)  == Paged(<<"member-search", id>> \o text, "pages", TRUE)
FriendList               == Paged(<<"friends">>, "pages", FALSE)
FriendSearch(text)       == Paged(<<"friend-search">> \o text, "pages", TRUE)
BlackList                == Paged(<<"blacklist">>, "pages", FALSE)
ConversationList         == Paged(<<"list">>, "all", FALSE)
ConversationSearch(text) == Paged(<<"search">> \o text, "all", TRUE)
History(id)              == Paged(<<"history", id>>, "window", FALSE)
MessageSearch(id, text)  == Paged(<<"search", id>> \o text, "window", TRUE)

VARIABLES
  list,      \* [Method -> what the server has]
  pc,        \* "idle", "reading", "answering", "done"
  call,      \* the call under way: its method, offset and limit
  page, result,  \* of the read loop: server pages read, their items
  cursor,    \* what the client holds: query and offset, or NoCursor
  answer,    \* the last call's: "page", "invalid", "expired", "failed"
  got,       \* what the client was given in this walk
  walk, first, changes,  \* the walk's method, its list then, what befell it since
  changed, failures      \* counters of the bounds

vars == <<list, pc, call, page, result, cursor, answer, got, walk, first, changes,
          changed, failures>>
client == <<cursor, got, walk, first>>

\* No cursor of the code's has a blank query.
NoCursor == [query |-> <<>>, offset |-> 0]
NumberedItems(m) == [i \in 1..Size |-> <<m, i>>]

Init == /\ list = [m \in Method |-> NumberedItems(m)]
        /\ walk \in Method /\ first = list[walk] /\ changes = {}
        /\ pc = "idle" /\ call = [method |-> walk, offset |-> 0, limit |-> 1]
        /\ page = 0 /\ result = <<>> /\ cursor = NoCursor /\ answer = "page" /\ got = <<>>
        /\ changed = 0 /\ failures = 0

-----------------------------------------------------------------------------
\* Mutant: the cursor of any query will do.
DecodeAnyCursor(m) == {cursor.offset}

\* Mutant: no cursor is not the first page.
DecodeSomeCursor(m) == IF cursor.query = m.query THEN {cursor.offset} ELSE {}

\* The offset, or nothing if the cursor is of another query.
DecodeCursor(m) == IF cursor.query \in {NoCursor.query, m.query} THEN {cursor.offset} ELSE {}

\* A method is called, the walk's or, with the walk's cursor, another one.
Ask(m, limit) ==
  /\ pc = "idle" /\ (cursor = NoCursor => m = walk)
  /\ \/ \E offset \in DecodeCursor(m) :
          /\ pc' = "reading" /\ call' = [method |-> m, offset |-> offset, limit |-> limit]
          /\ UNCHANGED answer
     \/ /\ DecodeCursor(m) = {}
        /\ answer' = "invalid" /\ UNCHANGED <<pc, call>>
  /\ page' = 0 /\ result' = <<>>
  /\ first' = IF cursor = NoCursor THEN list[m] ELSE first
  /\ changes' = IF cursor = NoCursor THEN {} ELSE changes
  /\ UNCHANGED <<list, cursor, got, walk, changed, failures>>

Here == list[call.method]
Slice(s, from, to) == SubSeq(s, from + 1, IF to < Len(s) THEN to ELSE Len(s))

Read(items, more) == /\ result' = result \o items
                     /\ pc' = IF more THEN "reading" ELSE "answering"
                     /\ page' = page + 1
                     /\ UNCHANGED <<list, call, answer, client, changes, changed, failures>>

\* Mutant: only the first server page is read.
ReadFirstPage == /\ pc = "reading" /\ call.method.read = "pages"
                 /\ Read(Slice(Here, 0, ServerPage), FALSE)

\* The loop of JoinedGroups, GroupMembers, Friends and Blacklist.
ReadPage ==
  /\ pc = "reading" /\ call.method.read = "pages"
  /\ LET response == Slice(Here, page * ServerPage, (page + 1) * ServerPage)
         total == Len(Here)
     IN  Read(response, ~(\/ Len(response) < ServerPage \/ total = 0
                          \/ Len(result) + Len(response) >= total))

\* AllConversations
ReadAll == pc = "reading" /\ call.method.read = "all" /\ Read(Here, FALSE)

\* Messages
ReadWindow == /\ pc = "reading" /\ call.method.read = "window"
              /\ Read(Slice(Here, IF Len(Here) > Window THEN Len(Here) - Window ELSE 0, Len(Here)),
                      FALSE)

\* invoke returns an error, or the caller's context has ended.
ReadFails == /\ pc = "reading" /\ failures < MaxFailures
             /\ failures' = failures + 1 /\ answer' = "failed" /\ pc' = "idle"
             /\ UNCHANGED <<list, call, page, result, client, changes, changed>>

\* groupsFromSDK and the like drop what has no ID, the searches what does not match.
Take(m, kept, item) ==
  IF item[2] \notin Blank /\ (m.filter => item[2] \in Match) THEN Append(kept, item) ELSE kept

\* Their loops: what is kept of the first n items.
KeptUpTo(m, items) ==
  LET kept[n \in 0..Len(items)] == IF n = 0 THEN <<>> ELSE Take(m, kept[n - 1], items[n])
  IN  kept

Kept(m, items) == KeptUpTo(m, items)[Len(items)]

NextCursor(items) ==
  IF call.offset + call.limit < Len(items)
  THEN [query |-> call.method.query, offset |-> call.offset + call.limit] ELSE NoCursor

\* groupPage and the like; the client's walk ends with the first page that has
\* no cursor, or when its cursor has expired.
Answer ==
  /\ pc = "answering"
  /\ LET items == Kept(call.method, result)
     IN  \/ /\ call.offset > Len(items)
            /\ answer' = "expired" /\ pc' = "done" /\ UNCHANGED <<got, cursor>>
         \/ /\ call.offset <= Len(items) /\ answer' = "page"
            /\ got' = got \o Slice(items, call.offset, call.offset + call.limit)
            /\ cursor' = NextCursor(items)
            /\ pc' = IF cursor' = NoCursor THEN "done" ELSE "idle"
  /\ UNCHANGED <<list, call, page, result, walk, first, changes, changed, failures>>

\* The list of the walk changes at the server.
Becomes(items, how) ==
  /\ pc # "done" /\ changed < MaxChanges
  /\ list' = [list EXCEPT ![walk] = items]
  /\ changes' = changes \cup {how} /\ changed' = changed + 1
  /\ UNCHANGED <<pc, call, page, result, cursor, answer, got, walk, first, failures>>

New == <<walk, Size + changed + 1>>
Grow == Becomes(Append(list[walk], New), "grown")
GrowAtFront == Becomes(<<New>> \o list[walk], "shifted")
Shrink == \E i \in 1..Len(list[walk]) : Becomes(RemoveAt(list[walk], i), "shrunk")

Next == \/ \E m \in Method, limit \in Limits : Ask(m, limit)
        \/ ReadPage \/ ReadAll \/ ReadWindow \/ ReadFails \/ Answer
        \/ Grow \/ GrowAtFront \/ Shrink

\* The client goes on with its walk, and the server answers.
Fairness == /\ WF_vars(\E limit \in Limits : Ask(walk, limit))
            /\ WF_vars(ReadPage \/ ReadAll \/ ReadWindow) /\ WF_vars(Answer)

Spec == Init /\ [][Next]_vars /\ Fairness

-----------------------------------------------------------------------------
\* There are messages out of the window.
Slides == walk.read = "window" /\ Len(list[walk]) > Window

\* A walk gives what the list held when it began, in its order, nothing twice
\* and nothing left out, and after it only what was added since, provided that
\* the list changed at its end only; calls fail in between, and two server pages
\* are read of two states of the list.  (Of the messages, only while all are in
\* the window: when it slides, the offset skips the message after the last one.)
WalkComplete ==
  (/\ pc = "done" /\ answer = "page" /\ changes \subseteq {"grown"}
   /\ ~Slides)
    => /\ IsPrefix(Kept(walk, first), got)
       /\ IsPrefix(got, Kept(walk, list[walk]))

\* A walk gives items of its own query only, whatever the client does with its
\* cursors, and whichever methods it uses.
OneQueryPerWalk == \A i \in 1..Len(got) : got[i][1].query = walk.query

\* A walk gives items of its own list only: "Services should reject a cursor
\* created for a different query rather than silently changing pages"
\* (internal/service/service.go:66).  Two lists may have the same query.
OneListPerWalk == \A i \in 1..Len(got) : got[i][1] = walk

\* The walk comes to an end, whatever changes and fails a bounded number of times.
WalkEnds == <>(pc = "done")
=============================================================================
