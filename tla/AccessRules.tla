---------------------------- MODULE AccessRules ----------------------------
(***************************************************************************)
(* What an endpoint may reach: the folder resolver that turns a declared   *)
(* access into chats, the binding of a scoped client, the tools with the   *)
(* chats and verbs each one addresses, the check of the use-case engine    *)
(* and the second one of the data layer.                                   *)
(*                                                                         *)
(* An access is a record: chats and folders (the declared scope), verbs    *)
(* (granted), overrides (a sequence of chats with verbs of their own),     *)
(* denied (the kill switch) and confirm (writes ask a human).  A reference *)
(* to a chat is [kind, peer] with kind "id", "me" or "username".           *)
(***************************************************************************)
EXTENDS Naturals, Sequences, FiniteSets

CONSTANTS
  Dialogs,   \* the account's dialogs, in Telegram's order
  Self,      \* the chat of the account with itself
  Named,     \* chats with a username
  Forums,    \* forum supergroups
  Users,     \* chats with one user
  Folders,   \* Folders[f]: the pinned, included and excluded chats of a filter
  MaxFanout  \* MAX_SEARCH_FANOUT_CALLS

ASSUME AccountAssumption ==
  /\ MaxFanout \in Nat \ {0}
  /\ Len(Dialogs) \in Nat /\ DOMAIN Dialogs = 1..Len(Dialogs)

-----------------------------------------------------------------------------
(* Resolution: one fails as a whole, so nothing declared is ever dropped.  *)

IsReference(ref) == ref.kind \in {"id", "me", "username"} /\ (ref.kind = "me" => ref.peer = Self)

Resolve(ref) ==
  CASE ref.kind = "id" -> {ref.peer}
    [] ref.kind = "me" -> {Self}
    [] ref.kind = "username" -> {ref.peer} \cap Named

FolderPeers(f) == (Folders[f].pinned \cup Folders[f].included) \ Folders[f].excluded

ScopeOf(access) ==
  (UNION {Resolve(ref) : ref \in access.chats})
    \cup (UNION {FolderPeers(f) : f \in access.folders})

Resolves(access) ==
  /\ \A ref \in access.chats : Resolve(ref) # {}
  /\ access.folders \subseteq DOMAIN Folders
  /\ \A i \in DOMAIN access.overrides : Resolve(access.overrides[i].ref) # {}
  /\ ScopeOf(access) # {}

Overridden(access) == UNION {Resolve(access.overrides[i].ref) : i \in DOMAIN access.overrides}

(* The last override of a chat counts. *)
OverrideOf(access, p) ==
  LET i == CHOOSE i \in DOMAIN access.overrides :
             /\ p \in Resolve(access.overrides[i].ref)
             /\ \A j \in DOMAIN access.overrides :
                  p \in Resolve(access.overrides[j].ref) => j <= i
  IN access.overrides[i].verbs

(* The places in Dialogs of the chats in scope; the others stay out of     *)
(* reach.                                                                  *)
BoundPlaces(access) == {i \in DOMAIN Dialogs : Dialogs[i] \in ScopeOf(access)}

Bound(access) == {Dialogs[i] : i \in BoundPlaces(access)}

-----------------------------------------------------------------------------
(* Tools.  A call is a record: tool, peer and to (references), topic (an   *)
(* id of a topic was given), wide (a search without a chat), from (the     *)
(* place in the scope that its cursor names), key and handle.              *)

Reads == {"get_messages", "search_messages", "list_dialogs", "list_topics", "get_chat_info",
          "get_media_info", "download_media", "get_pinned_messages", "list_participants"}

Writes == {"send_message", "edit_message", "delete_message", "save_draft", "mark_read",
           "forward_message", "send_reaction", "send_media"}

VerbOf(tool) ==
  CASE tool = "download_media" -> "read_media"
    [] tool \in Reads \ {"download_media"} -> "read"
    [] tool \in {"send_message", "edit_message", "send_media", "prepare_media"} -> "send"
    [] tool = "delete_message" -> "delete"
    [] tool = "save_draft" -> "draft"
    [] tool = "mark_read" -> "mark_read"
    [] tool = "forward_message" -> "forward"
    [] tool = "send_reaction" -> "react"

BucketOf(tool) ==
  CASE tool = "forward_message" -> "forwards"
    [] tool = "search_messages" -> "searches"
    [] OTHER -> "messages"

(* The chats that a call names, each with the verb it needs there. *)
Targets(call) ==
  CASE call.tool = "list_dialogs" \/ call.wide -> <<>>
    [] call.tool = "forward_message" ->
         <<[ref |-> call.peer, verb |-> "read"], [ref |-> call.to, verb |-> "forward"]>>
    [] OTHER -> <<[ref |-> call.peer, verb |-> VerbOf(call.tool)]>>

(* Quota of a search: as many searches as its page may make. *)
UnitsOf(access, call) ==
  LET n == Cardinality(ScopeOf(access))
  IN IF call.wide THEN IF n < MaxFanout THEN n ELSE MaxFanout ELSE 1

(* A topic needs a chat; a reply to a topic too, which the schemas ensure. *)
Valid(call) == ~(call.wide /\ call.topic)

-----------------------------------------------------------------------------
(* The check of the engine.                                                *)

Grants(access, verb) == verb \notin access.denied /\ verb \in access.verbs

Permits(access, verb, p) ==
  /\ verb \notin access.denied
  /\ IF p \in Overridden(access) THEN verb \in OverrideOf(access, p) ELSE verb \in access.verbs

Evaluate(access, verb, p) == Permits(access, verb, p) /\ p \in ScopeOf(access)

(* A reference reaches a chat only through the binding. *)
LookUp(access, ref) == Resolve(ref) \cap Bound(access)

AclAllows(access, call) ==
  IF call.tool = "prepare_media"
    THEN \E p \in ScopeOf(access) : Evaluate(access, "send", p)
  ELSE IF Targets(call) = <<>>
    THEN Grants(access, VerbOf(call.tool))
  ELSE \A i \in DOMAIN Targets(call) :
         \E p \in LookUp(access, Targets(call)[i].ref) :
            Evaluate(access, Targets(call)[i].verb, p)

-----------------------------------------------------------------------------
(* The data layer knows overrides only: the grant is for the engine.       *)

OverrideAllows(access, verb, p) == p \in Overridden(access) => verb \in OverrideOf(access, p)

(* The second check for a call that names its chats. *)
Reachable(access, call) ==
  /\ \A i \in DOMAIN Targets(call) :
       \E p \in LookUp(access, Targets(call)[i].ref) :
          /\ OverrideAllows(access, Targets(call)[i].verb, p)
          /\ call.topic \/ call.tool = "list_topics" => p \in Forums
          /\ call.tool = "list_participants" => p \notin Users

(* Lists and searches every dialog of the scope. *)
EveryPlace(access) == BoundPlaces(access)

(* The dialogs a scope-wide call lists or searches. *)
ReadablePlaces(access) == {i \in BoundPlaces(access) : OverrideAllows(access, "read", Dialogs[i])}

(* The members of a set of places that have fewer than n before them. *)
FirstOf(places, n) == {i \in places : Cardinality({j \in places : j < i}) < n}

(* The dialogs a search page visits, from the place in the scope that its  *)
(* cursor names.                                                           *)
SearchedPlaces(access, call) ==
  FirstOf(ReadablePlaces(access) \ FirstOf(BoundPlaces(access), call.from), MaxFanout)

(* The requests of a call to Telegram in their order, each with the chats  *)
(* and verbs that it touches; none when the data layer refuses or has      *)
(* nothing.                                                                *)
Requests(access, call) ==
  LET Request(n, touches) == [n |-> n, touches |-> touches]
      Named1(i) == {<<p, Targets(call)[i].verb>> : p \in LookUp(access, Targets(call)[i].ref)}
      listed == {<<Dialogs[i], "read">> : i \in ReadablePlaces(access)}
      named == UNION {Named1(i) : i \in DOMAIN Targets(call)}
  IN CASE call.wide -> {Request(i, {<<Dialogs[i], "read">>}) : i \in SearchedPlaces(access, call)}
       [] call.tool = "list_dialogs" -> IF listed = {} THEN {} ELSE {Request(1, listed)}
       [] call.tool = "download_media" /\ Reachable(access, call) ->
            {Request(1, named), Request(2, named)}
       [] ~call.wide /\ call.tool \notin {"list_dialogs", "download_media"}
            /\ Reachable(access, call) -> {Request(1, named)}
       [] OTHER -> {}
=============================================================================
