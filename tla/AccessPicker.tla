---------------------------- MODULE AccessPicker ----------------------------
(***************************************************************************)
(* The access editor of the setup program: a declared access is hydrated   *)
(* into a selection, which the keys of the picker screen change, a review  *)
(* confirms and the projection turns into a declared access again.  The    *)
(* runtime resolves that one by AccessRules.                               *)
(*                                                                         *)
(* The picker has a row for each enumerated chat, named by the chat, and   *)
(* the row "me" for the own account.  The bits of a row are a set of axes. *)
(***************************************************************************)
EXTENDS AccessRules, Integers

CONSTANTS
  Tabs,     \* the folders in Telegram's order
  Matched,  \* Matched[f]: the chats that the flags of folder f match
  Found     \* Found[q]: the rows whose title or username the query q matches

VARIABLE pick  \* the state of the screen

-----------------------------------------------------------------------------
(* The tree.                                                               *)

Listed == {Dialogs[i] : i \in DOMAIN Dialogs}

Rows == {"me"} \cup Listed

AllTab == "all"
Unit == "unit"        \* the row of a tab that stands for its whole folder
NoRow == "no row"
NoQuery == "no query"

(* The names above are no chats, and the lists are what they are said to be. *)
ASSUME TreeAssumption ==
  /\ Dialogs \in Seq(Listed) /\ Tabs \in Seq(DOMAIN Folders)
  /\ Matched \in [DOMAIN Folders -> SUBSET Listed]
  /\ AllTab \notin DOMAIN Folders /\ {"me", Unit, NoRow} \cap Listed = {} /\ Self # "me"
  /\ \A f \in DOMAIN Folders : "me" \notin FolderPeers(f)

(* The members of a set that a list has, in its order. *)
Among(list, set) ==
  LET first[n \in 0..Len(list)] ==
        IF n = 0 THEN <<>>
        ELSE IF list[n] \in set THEN Append(first[n - 1], list[n]) ELSE first[n - 1]
  IN first[Len(list)]

RefOf(row) == IF row = "me" THEN [kind |-> "me", peer |-> Self] ELSE [kind |-> "id", peer |-> row]

(* A filter names the own account as such. *)
RowOf(peer) == IF peer = Self THEN "me" ELSE peer

(* Pinned and included chats; those the flags match come with them.        *)
Explicit(f) == {RowOf(p) : p \in FolderPeers(f)} \cap Rows

Children(f) == Explicit(f) \cup (Matched[f] \ {RowOf(p) : p \in Folders[f].excluded})

-----------------------------------------------------------------------------
(* Bits and verbs.                                                         *)

Axes == {"read", "write"}

Tier(axis) == IF axis = "read" THEN {"read", "read_media"}
              ELSE {"send", "draft", "delete", "mark_read", "forward", "react"}

VerbsOf(bits) == UNION {Tier(axis) : axis \in bits}

BitsOf(verbs) == {axis \in Axes : Tier(axis) \cap verbs # {}}

DefaultBits == {"read"}

(* What r and w set; w gives read too. *)
SetTo(axis) == {"read", axis}

Flip(bits, axis) == IF axis \in bits THEN bits \ {axis} ELSE bits \cup {axis}

-----------------------------------------------------------------------------
(* From an access to a selection.  A model is a selection, the bits of the *)
(* rows in scope, with marks, the folders picked as a unit.                *)

RowsFor(ref) ==
  CASE ref.kind = "me" -> {"me"}
    [] ref.kind = "id" -> {ref.peer} \cap Listed
    [] ref.kind = "username" -> {ref.peer} \cap Listed \cap Named

(* What an edit would drop without a word. *)
Unmatched(access) ==
  \/ \E ref \in access.chats : RowsFor(ref) = {}
  \/ \E i \in DOMAIN access.overrides : RowsFor(access.overrides[i].ref) = {}
  \/ ~(access.folders \subseteq DOMAIN Folders)

HydratedBits(access, row) ==
  LET its == {i \in DOMAIN access.overrides : row \in RowsFor(access.overrides[i].ref)}
      last == CHOOSE i \in its : \A j \in its : j <= i
  IN BitsOf(IF its = {} THEN access.verbs ELSE access.overrides[last].verbs)

Hydrated(access) ==
  LET folders == access.folders \cap DOMAIN Folders
      members == (UNION {RowsFor(ref) : ref \in access.chats}) \cup (UNION {Explicit(f) : f \in folders})
  IN [selection |-> [row \in members |-> HydratedBits(access, row)], marks |-> folders]

-----------------------------------------------------------------------------
(* From a selection to an access.                                          *)

(* Mutant: a folder stays a unit although members were taken out again. *)
MarkedUnit(model, f) == f \in model.marks /\ (Explicit(f) # {} \/ Children(f) = {})

(* isCommittedFolderUnit: shared by the review and the projection. *)
IsUnit(model, f) ==
  /\ f \in model.marks
  /\ Explicit(f) \subseteq DOMAIN model.selection
  /\ Explicit(f) # {} \/ Children(f) = {}

Units(model) == {f \in DOMAIN Folders : IsUnit(model, f)}

(* The last override of a chat counts, which tells for the two rows of the *)
(* own account: an id below 2^32 - 1 is an index, and JSON puts it first.  *)
OverrideOrder == Append(Dialogs, "me")

ChatRefs(model) ==
  LET members == DOMAIN model.selection
      covered == UNION {Explicit(f) : f \in Units(model)}
      snapshots == UNION {Children(f) \ Explicit(f) : f \in model.marks}
  IN {RefOf(row) : row \in (members \ covered) \cup (members \cap snapshots)}

Overrides(model) ==
  LET differing == {row \in DOMAIN model.selection : model.selection[row] # DefaultBits}
      rows == Among(OverrideOrder, differing)
  IN [i \in DOMAIN rows |-> [ref |-> RefOf(rows[i]), verbs |-> VerbsOf(model.selection[rows[i]])]]

(* The rest of the endpoint stays. *)
Projected(model, access) ==
  [access EXCEPT !.chats = ChatRefs(model), !.folders = Units(model),
                 !.overrides = Overrides(model), !.verbs = VerbsOf(DefaultBits)]

SelectsNothing(model) == ChatRefs(model) = {} /\ Units(model) = {}

-----------------------------------------------------------------------------
(* What the screen shows: the own account, the rows that were selected     *)
(* when it opened, and the others, in the order of the dialogs.            *)

Model(p) == [selection |-> p.selection, marks |-> p.marks]

RowOrder(p) ==
  LET old == DOMAIN p.before.selection
  IN <<"me">> \o Among(Dialogs, old) \o Among(Dialogs, Listed \ old)

TabRows(p) ==
  IF p.tab = AllTab THEN RowOrder(p) ELSE <<Unit>> \o Among(RowOrder(p), Children(p.tab))

Visible(p) ==
  Among(TabRows(p), {Unit} \cup (IF p.query = NoQuery THEN Rows ELSE Found[p.query]))

ShownRows(p) == {Visible(p)[i] : i \in DOMAIN Visible(p)} \ {Unit}

(* 0 without one. *)
PlaceOf(row, rows) ==
  IF \E i \in DOMAIN rows : rows[i] = row THEN CHOOSE i \in DOMAIN rows : rows[i] = row ELSE 0

First(rows) == IF rows = <<>> THEN NoRow ELSE rows[1]

-----------------------------------------------------------------------------
(* The reducer: movements.                                                 *)

Clamped(p) ==
  IF PlaceOf(p.cursor, Visible(p)) > 0 THEN p ELSE [p EXCEPT !.cursor = First(Visible(p))]

Moved(p, step) ==
  LET rows == Visible(p)
      at == PlaceOf(p.cursor, rows)
      next == IF at = 0 THEN (IF step = 1 THEN 1 ELSE Len(rows)) ELSE at + step
  IN IF rows = <<>> THEN [p EXCEPT !.cursor = NoRow]
     ELSE IF next \in DOMAIN rows THEN [p EXCEPT !.cursor = rows[next]] ELSE p

(* n and N go round the chats. *)
Cycled(p, step) ==
  LET chats == Among(Visible(p), Rows)
      at == PlaceOf(p.cursor, chats)
      start == IF at = 0 THEN (IF step = 1 THEN 0 ELSE 1) ELSE at
      next == ((start + step - 1 + Len(chats)) % Len(chats)) + 1
  IN IF chats = <<>> THEN p ELSE [p EXCEPT !.cursor = chats[next]]

InTab(p, tab) ==
  LET q == [p EXCEPT !.tab = tab] IN [q EXCEPT !.cursor = First(Visible(q)), !.anchor = NoRow]

NextTab(p, step) ==
  LET order == <<AllTab>> \o Tabs
      next == PlaceOf(p.tab, order) + step
  IN IF next \in DOMAIN order THEN InTab(p, order[next]) ELSE p

Filtered(p, query) == Clamped([p EXCEPT !.query = query])

-----------------------------------------------------------------------------
(* The reducer: access.                                                    *)

Give(selection, rows, bits) ==
  [row \in DOMAIN selection \cup rows |-> IF row \in rows THEN bits ELSE selection[row]]

Take(selection, rows) == [row \in DOMAIN selection \ rows |-> selection[row]]

ToggleChat(p, axis) ==
  LET bits == IF p.cursor \in DOMAIN p.selection THEN Flip(p.selection[p.cursor], axis)
              ELSE SetTo(axis)
  IN [p EXCEPT !.selection = IF bits = {} THEN Take(@, {p.cursor}) ELSE Give(@, {p.cursor}, bits)]

(* All children in scope with the same bits: the unit toggles like a chat. *)
UniformBits(p, f) ==
  LET bits == {p.selection[row] : row \in Children(f) \cap DOMAIN p.selection}
  IN IF Children(f) \subseteq DOMAIN p.selection /\ Children(f) # {} THEN bits ELSE {}

SetFolder(p, f, axis) ==
  LET uniform == UniformBits(p, f)
      bits == IF \E b \in uniform : uniform = {b} THEN Flip(CHOOSE b \in uniform : TRUE, axis)
              ELSE SetTo(axis)
  IN IF Children(f) = {} \/ bits = {}
       THEN [p EXCEPT !.selection = Take(@, Children(f)), !.marks = @ \ {f}]
       ELSE [p EXCEPT !.selection = Give(@, Children(f), bits), !.marks = @ \cup {f}]

(* The chats between the anchor and the cursor, while both are shown. *)
Between(p) ==
  LET rows == Visible(p)
      a == PlaceOf(p.anchor, rows)
      b == PlaceOf(p.cursor, rows)
  IN IF a = 0 \/ b = 0 THEN {}
     ELSE {rows[i] : i \in {i \in DOMAIN rows : (a <= i /\ i <= b) \/ (b <= i /\ i <= a)}} \ {Unit}

SetRange(p, axis) == [p EXCEPT !.selection = Give(@, Between(p), SetTo(axis)), !.anchor = NoRow]

Toggled(p, axis) ==
  IF p.anchor # NoRow THEN SetRange(p, axis)
  ELSE IF p.cursor = NoRow THEN p
  ELSE IF p.cursor = Unit THEN SetFolder(p, p.tab, axis)
  ELSE ToggleChat(p, axis)

Cleared(p) ==
  IF p.cursor = Unit
    THEN [p EXCEPT !.selection = Take(@, Children(p.tab)), !.marks = @ \ {p.tab}]
    ELSE [p EXCEPT !.selection = Take(@, {p.cursor})]

AllShown(p) == [p EXCEPT !.selection = Give(@, ShownRows(p) \ DOMAIN @, DefaultBits)]

Inverted(p) ==
  [p EXCEPT !.selection = Take(Give(@, ShownRows(p) \ DOMAIN @, DefaultBits),
                               ShownRows(p) \cap DOMAIN @)]

-----------------------------------------------------------------------------
(* Keys of the tree, and of the search box.                                *)

TreeKeys(p) ==
  {Moved(p, 1), Moved(p, -1), NextTab(p, 1), NextTab(p, -1), [p EXCEPT !.typing = TRUE]}
    \cup {Toggled(p, axis) : axis \in Axes}
    \cup {Cleared(p), AllShown(p), Inverted(p)}
    \cup (IF p.cursor = NoRow THEN {} ELSE {[p EXCEPT !.anchor = p.cursor]})
    \cup (IF p.query = NoQuery THEN {} ELSE {Cycled(p, 1), Cycled(p, -1), Filtered(p, NoQuery)})

SearchKeys(p) ==
  {Moved(p, 1), Moved(p, -1), [p EXCEPT !.typing = FALSE],
   [Filtered(p, NoQuery) EXCEPT !.typing = FALSE]}
    \cup {Filtered(p, query) : query \in DOMAIN Found \cup {NoQuery}}

(* What a new endpoint starts from. *)
NoAccess == [chats |-> {}, folders |-> {}, verbs |-> {"read"}, overrides |-> <<>>,
             denied |-> {}, confirm |-> FALSE]

Closed ==
  LET nothing == [selection |-> <<>>, marks |-> {}]
  IN [phase |-> "closed", selection |-> <<>>, marks |-> {}, before |-> nothing, tab |-> AllTab,
      cursor |-> NoRow, anchor |-> NoRow, query |-> NoQuery, typing |-> FALSE]

(* createPickerState *)
Opened(access) ==
  LET model == Hydrated(access)
  IN [Closed EXCEPT !.phase = "picker", !.selection = model.selection, !.marks = model.marks,
                    !.before = model, !.cursor = "me"]

Writable(p) == \E row \in DOMAIN p.selection : "write" \in p.selection[row]

NeedsReview(p) == Writable(p) \/ Units(Model(p)) # Units(p.before)

-----------------------------------------------------------------------------
PickerInit == pick = Closed

OpenPicker(access) == pick.phase = "closed" /\ pick' = Opened(access)

Press ==
  /\ pick.phase = "picker"
  /\ pick' \in (IF pick.typing THEN SearchKeys(pick) ELSE TreeKeys(pick)) \ {pick}

Save ==
  /\ pick.phase = "picker" /\ ~pick.typing
  /\ pick' = [pick EXCEPT !.phase = IF NeedsReview(pick) THEN "review" ELSE "saved"]

Leave ==
  /\ pick.phase = "picker" /\ ~pick.typing /\ pick.query = NoQuery
  /\ pick' = [pick EXCEPT !.phase = "cancelled"]

Review ==
  /\ pick.phase = "review"
  /\ \E phase \in {"saved", "cancelled"} : pick' = [pick EXCEPT !.phase = phase]

ClosePicker == pick.phase \in {"saved", "cancelled"} /\ pick' = Closed
-----------------------------------------------------------------------------
(* The access that is saved grants what the rows on the screen show and    *)
(* nothing more, when the runtime resolves it: no chat without a row in    *)
(* scope, no verb that none of its rows has, and every verb of its row if  *)
(* it has one row; and opened again the picker shows the same.  (A unit    *)
(* without members resolves to nothing: such an endpoint fails closed.)    *)
RowsOf(peer) == {row \in Rows : Resolve(RefOf(row)) = {peer}}

PickedVerbs(p, row) == IF row \in DOMAIN p.selection THEN VerbsOf(p.selection[row]) ELSE {}

GrantedVerbs(access, peer) ==
  {verb \in VerbsOf(Axes) : Evaluate(access, verb, peer)}

SavedAccessIsAsShown ==
  pick.phase = "saved" /\ ~SelectsNothing(Model(pick)) =>
    LET access == Projected(Model(pick), NoAccess)
    IN /\ \A peer \in Listed :
            /\ GrantedVerbs(access, peer) \subseteq UNION {PickedVerbs(pick, row) : row \in RowsOf(peer)}
            /\ \A row \in RowsOf(peer) :
                 RowsOf(peer) = {row} => GrantedVerbs(access, peer) = PickedVerbs(pick, row)
       /\ Hydrated(access) = [selection |-> pick.selection, marks |-> Units(Model(pick))]
=============================================================================
