------------------------------ MODULE MCPaging -------------------------------
(***************************************************************************)
(* Small instances of Paging: methods no two of which have one query, and  *)
(* methods that share theirs, always or for certain texts.                 *)
(***************************************************************************)
EXTENDS Paging

Text == <<"text">>

OwnQuery == {GroupList, MembersList("g"), MembersSearch("g", Text), FriendList,
             FriendSearch(Text), BlackList, ConversationSearch(Text), History("c"),
             MessageSearch("c", Text)}
SharedQuery == {GroupList, ConversationList, GroupSearch(Text), ConversationSearch(Text)}

\* The client looks for "text" in conversation c, and everywhere for "c:text".
SearchOfColon == {MessageSearch("c", Text), ConversationSearch(<<"c", "text">>)}
=============================================================================
