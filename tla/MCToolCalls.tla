---------------------------- MODULE MCToolCalls ----------------------------
EXTENDS ToolCalls

CONSTANTS e1, e2, c1, c2, c3, c4, p1, p2, p3, k1, k2

(* The account: three dialogs, p3 a forum and p1 a user; p2 has a username *)
(* and a filter called work leaves p3 out.                                 *)
MCDialogs == <<p1, p2, p3>>
MCNamed == {p2}
MCForums == {p3}
MCUsers == {p1}
MCFolders == [work |-> [pinned |-> {p1}, included |-> {p2, p3}, excluded |-> {p3}]]

MCBuckets == {"messages", "forwards", "searches"}
MCCapacity == [messages |-> 3, forwards |-> 3, searches |-> 2]
MCLoans == Contexts \cup {Snapshot}

-----------------------------------------------------------------------------
Id(p) == [kind |-> "id", peer |-> p]
User(p) == [kind |-> "username", peer |-> p]
Me == [kind |-> "me", peer |-> Self]

AllVerbs == {"read", "read_media", "send", "draft", "delete", "mark_read", "forward", "react"}

Chats(refs) == [chats |-> refs, folders |-> {}, verbs |-> AllVerbs, overrides |-> <<>>,
                denied |-> {}, confirm |-> FALSE]

Everything == Chats({Id(p1), Id(p2), Id(p3)})

Only(ref, verbs) == [ref |-> ref, verbs |-> verbs]

Of(tool) == [tool |-> tool, on |-> e1, id |-> tool, peer |-> Id(p1), to |-> Id(p2),
             topic |-> FALSE, wide |-> FALSE, from |-> 0, key |-> NoKey, handle |-> c1,
             after |-> {}]

Wide(tool) == [Of(tool) EXCEPT !.wide = TRUE]

(* The calls of cs, numbered; the rest are not sent. *)
Sends(cs) ==
  LET order == <<c1, c2, c3, c4>>
      n(c) == CHOOSE i \in 1..4 : order[i] = c
  IN [c \in Calls |-> IF n(c) <= Len(cs) THEN [cs[n(c)] EXCEPT !.id = n(c)] ELSE Of("none")]

Scene(cs, first, second, events) ==
  [calls |-> Sends(cs), access |-> [e \in Endpoints |-> <<first, second>>],
   events |-> events, elicits |-> TRUE]

-----------------------------------------------------------------------------
Keyed(key, after) == [Of("send_message") EXCEPT !.key = key, !.after = after]

Media(after) == [Of("send_media") EXCEPT !.key = k1, !.after = after]

(* A retry after another key has taken the only place. *)
Keys == Scene(<<Keyed(k1, {}), Keyed(k2, {}), Keyed(k1, {c1})>>, Everything, Everything, {})

(* Two preparations for one place; a handle that expires. *)
Handles == Scene(<<Of("prepare_media"), Of("prepare_media"), Media({c1})>>,
                 Everything, Everything, {"tick"})

(* A send of media and its retry. *)
MediaRetry == Scene(<<Of("prepare_media"), Media({c1}), Media({c1})>>,
                    Everything, Everything, {"publish"})

(* Two endpoints of one account search in turn. *)
Search(e, wide, after) ==
  [Of("search_messages") EXCEPT !.on = e, !.wide = wide, !.after = after]

Quota == Scene(<<Search(e1, TRUE, {}), Search(e2, TRUE, {c1}), Search(e1, TRUE, {c2}),
                 Search(e2, FALSE, {c3})>>, Everything, Everything, {"tick"})

(* The same after the account was removed and added again. *)
Forgotten == Scene(<<Search(e1, TRUE, {}), Search(e1, TRUE, {c1})>>,
                   Everything, Everything, {"dispose", "replace"})

(* Overrides narrow a folder; forwards go both ways. *)
Narrowed == [Chats({User(p2), Me}) EXCEPT
               !.folders = {"work"},
               !.overrides = <<Only(Id(p2), {"read", "send"}), Only(User(p2), {"read"})>>]

Forwards == Scene(<<[Of("forward_message") EXCEPT !.peer = Id(p2), !.to = Id(p1)],
                    [Of("forward_message") EXCEPT !.peer = Id(p1), !.to = User(p2)],
                    Of("delete_message")>>, Narrowed, Everything, {})

(* A chat that may be written to but not read. *)
WriteOnly == [Everything EXCEPT !.overrides = <<Only(Id(p1), {"send"})>>]

Listings == Scene(<<Wide("search_messages"), Of("list_dialogs"), Of("get_chat_info")>>,
                  WriteOnly, Everything, {})

Topics == Scene(<<[Of("mark_read") EXCEPT !.peer = Id(p3), !.topic = TRUE],
                  [Of("get_messages") EXCEPT !.peer = User(p2), !.topic = TRUE],
                  [Wide("search_messages") EXCEPT !.topic = TRUE],
                  [Of("get_chat_info") EXCEPT !.peer = Me]>>,
                [Narrowed EXCEPT !.chats = {Id(p3)}, !.verbs = {"read", "mark_read"}],
                Everything, {})

(* A write waits for a human while a policy without its chat is published. *)
Asks == [Everything EXCEPT !.confirm = TRUE, !.denied = {"react"}]

Confirmed == Scene(<<Of("edit_message"), Of("download_media")>>, Asks,
                   [Chats({Id(p2)}) EXCEPT !.verbs = {"read"}], {"publish", "close"})

Unasked == [Scene(<<Of("save_draft"), Of("list_participants"), Of("send_reaction")>>, Asks, Asks, {})
              EXCEPT !.elicits = FALSE]

(* Unresolvable, and without a dialog. *)
Unresolved == Scene(<<Of("get_messages")>>, Chats({User(p3)}), Chats({Me}), {"publish"})

(* The account goes while it is used. *)
Reads2 == <<Of("get_messages"), [Of("send_message") EXCEPT !.on = e2]>>

Removal == Scene(Reads2, Everything, Everything, {"dispose", "drop", "snapshot"})

Release == Scene(<<Of("get_messages"), Of("get_pinned_messages")>>, Everything, Everything,
                 {"publish", "dispose", "drop"})

(* A client that does not read, sends too many, or an id twice; one that  *)
(* cancels and hangs up while its account goes.                            *)
Crowd == Scene(<<Of("get_messages"), Of("list_topics"), [Of("get_media_info") EXCEPT !.after = {c1}]>>,
               Everything, Everything, {"stall"})

Leaves == Scene(<<Of("get_messages"), [Of("get_media_info") EXCEPT !.after = {c1}]>>,
                Everything, Everything, {"cancel", "close", "dispose"})

Twice == LET s == Scene(<<Of("get_pinned_messages"), Of("get_messages")>>,
                        Everything, Everything, {})
         IN [s EXCEPT !.calls[c2].id = s.calls[c1].id]

MCScenes == {Keys, Handles, MediaRetry, Quota, Forgotten, Forwards, Listings, Topics, Confirmed,
             Unasked, Unresolved, Removal, Release, Crowd, Leaves, Twice}
=============================================================================
