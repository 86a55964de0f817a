------------------------------- MODULE MCSetup -------------------------------
EXTENDS Setup

CONSTANTS ann, own, team, e1, e2, r1, r2, q1, q2

(* The account: its own chat is among its dialogs, so it has two rows.  A  *)
(* folder has members of both kinds, another one only those of its flags,  *)
(* and a third none.                                                       *)
MCDialogs == <<ann, own, team>>
Folder(pinned, included, excluded) ==
  [pinned |-> pinned, included |-> included, excluded |-> excluded]
MCFolders == [mixed |-> Folder({ann}, {own}, {}), rule |-> Folder({}, {}, {ann}),
              empty |-> Folder({}, {}, {})]
MCTabs == <<"mixed", "rule", "empty">>
MCMatched == [mixed |-> {team}, rule |-> {ann, team}, empty |-> {}]
MCFound == [a |-> {"me", ann}]

-----------------------------------------------------------------------------
Id(p) == [kind |-> "id", peer |-> p]
User(p) == [kind |-> "username", peer |-> p]
Me == [kind |-> "me", peer |-> own]
Only(ref, verbs) == [ref |-> ref, verbs |-> verbs]

Access(chats, folders, verbs, overrides) ==
  [NoAccess EXCEPT !.chats = chats, !.folders = folders, !.verbs = verbs, !.overrides = overrides]

(* Accesses by hand: narrower and wider than the tiers, a username, the    *)
(* own account, a folder with an override, one without members.            *)
Authored ==
  {Access({Id(team)}, {}, {"read"}, <<>>),
   Access({User(ann), Me}, {}, {"read", "mark_read"}, <<Only(Id(ann), {"send"})>>),
   Access({Id(team)}, {"mixed"}, {"read"}, <<Only(Me, {"read", "draft"})>>),
   Access({Id(own)}, {"empty"}, {"send"}, <<>>)}

Plain == Access({Id(team)}, {}, {"read"}, <<>>)

Endpoint(name, session, access, key) ==
  [name |-> name, session |-> session, access |-> access, key |-> key, token |-> FALSE]

Base ==
  [file |-> <<>>, enforced |-> <<>>, accounts |-> {r1}, secret |-> Machine,
   configured |-> Machine, turns |-> 0, faults |-> 0, strokes |-> 0]

Starting(document) == [Base EXCEPT !.file = document, !.enforced = document]

(* The picker, over each access and a new one. *)
Picking ==
  {[Starting(<<Endpoint(e1, r1, access, 0)>>) EXCEPT !.turns = 3, !.strokes = 4] :
     access \in Authored}

(* Two endpoints of two accounts, edited, renamed, deleted and added. *)
Two == <<Endpoint(e1, r1, Plain, 0), Endpoint(e2, r2, Access({Id(ann)}, {}, {"send"}, <<>>), -1)>>

Editing ==
  {[Starting(Two) EXCEPT !.accounts = {r1, r2}, !.turns = 5, !.faults = 1, !.strokes = 1],
   [Starting(Two) EXCEPT !.accounts = {r1, r2}, !.turns = 4, !.faults = 2]}

(* The first login; sessions that are gone; a PIN known or not. *)
Others ==
  {[Base EXCEPT !.accounts = {}, !.secret = NoSource, !.turns = 6, !.faults = 1, !.strokes = 1],
   [Starting(Two) EXCEPT !.accounts = {}, !.turns = 5, !.faults = 1],
   [Starting(Two) EXCEPT !.secret = q1, !.turns = 5, !.faults = 1],
   [Starting(Two) EXCEPT !.secret = q1, !.configured = q1, !.turns = 5, !.faults = 1]}

MCScenes == Picking \cup Editing \cup Others
=============================================================================
