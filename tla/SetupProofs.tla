----------------------------- MODULE SetupProofs -----------------------------
(***************************************************************************)
(* Proofs about the setup program and its access picker, for any account,  *)
(* any documents and any sequence of answers.                              *)
(***************************************************************************)
EXTENDS Setup, SequenceTheorems, WellFoundedInduction, TLAPS

-----------------------------------------------------------------------------
(* The members of a set in a list.                                         *)

LEMMA LeastNatural ==
  ASSUME NEW T \in SUBSET Nat, T # {}
  PROVE  \E x \in T : \A y \in T : x <= y
<1>1. PICK x \in T : \A y \in T : ~(<<y, x>> \in OpToRel(<, Nat))
  BY WFMin, NatLessThanWellFounded
<1>2. \A y \in T : ~(y < x)
  BY <1>1 DEF OpToRel
<1> QED
  BY <1>2

(* The recursion of Among, up to the place n. *)
Picks(list, set, n, f) ==
  f = [k \in 0..n |->
         IF k = 0 THEN <<>>
         ELSE IF list[k] \in set THEN Append(f[k - 1], list[k]) ELSE f[k - 1]]

LEMMA PicksExist ==
  ASSUME NEW list, NEW set, NEW n \in Nat
  PROVE  \E f : Picks(list, set, n, f)
<1> DEFINE T == {m \in Nat : ~\E f : Picks(list, set, m, f)}
<1> SUFFICES ASSUME T # {} PROVE FALSE
  OBVIOUS
<1>1. PICK m \in T : \A y \in T : m <= y
  <2> HIDE DEF T
  <2>1. T \in SUBSET Nat
    BY DEF T
  <2> QED
    BY <2>1, LeastNatural
<1>2. m # 0
  <2>1. Picks(list, set, 0, [k \in 0..0 |-> <<>>])
    BY DEF Picks
  <2> QED
    BY <2>1
<1>3. m - 1 \in Nat /\ m \in Nat /\ ~(m <= m - 1)
  BY <1>2
<1>4. m - 1 \notin T
  BY <1>1, <1>3
<1>5. PICK f : Picks(list, set, m - 1, f)
  BY <1>4, <1>3
<1> DEFINE g == [k \in 0..m |->
                   IF k < m THEN f[k]
                   ELSE IF list[m] \in set THEN Append(f[m - 1], list[m]) ELSE f[m - 1]]
<1>6. \A k \in 0..(m - 1) :
        f[k] = IF k = 0 THEN <<>>
               ELSE IF list[k] \in set THEN Append(f[k - 1], list[k]) ELSE f[k - 1]
  BY <1>5 DEF Picks
<1>7. ASSUME NEW k \in 0..m
      PROVE  g[k] = IF k = 0 THEN <<>>
                    ELSE IF list[k] \in set THEN Append(g[k - 1], list[k]) ELSE g[k - 1]
  <2>1. CASE k = m
    <3>1. g[k] = IF list[m] \in set THEN Append(f[m - 1], list[m]) ELSE f[m - 1]
      BY <2>1, <1>3
    <3>2. g[k - 1] = f[k - 1]
      BY <2>1, <1>3
    <3> QED
      BY <3>1, <3>2, <2>1, <1>2
  <2>2. CASE k < m
    <3>1. k \in 0..(m - 1) /\ g[k] = f[k]
      BY <2>2, <1>3
    <3>2. k # 0 => g[k - 1] = f[k - 1]
      BY <2>2, <1>3
    <3> HIDE DEF g
    <3> QED
      BY <3>1, <3>2, <1>6
  <2> QED
    BY <2>1, <2>2, <1>3
<1>8. Picks(list, set, m, g)
  <2>1. g = [k \in 0..m |-> g[k]]
    OBVIOUS
  <2> HIDE DEF g
  <2>2. [k \in 0..m |-> g[k]] =
          [k \in 0..m |-> IF k = 0 THEN <<>>
             ELSE IF list[k] \in set THEN Append(g[k - 1], list[k]) ELSE g[k - 1]]
    BY <1>7
  <2> QED
    BY <2>1, <2>2 DEF Picks
<1> QED
  BY <1>8

LEMMA AmongPicks ==
  ASSUME NEW list, NEW set, Len(list) \in Nat
  PROVE  \E f : Picks(list, set, Len(list), f) /\ Among(list, set) = f[Len(list)]
<1>1. \E f : Picks(list, set, Len(list), f)
  BY PicksExist
<1> QED
  BY <1>1 DEF Among, Picks

(* Among keeps what is in the set, and nothing else. *)
LEMMA AmongIs ==
  ASSUME NEW S, NEW list \in Seq(S), NEW set
  PROVE  Among(list, set) \in Seq(S) /\ ToSet(Among(list, set)) = ToSet(list) \cap set
<1>1. PICK f : Picks(list, set, Len(list), f) /\ Among(list, set) = f[Len(list)]
  BY AmongPicks
<1> DEFINE Right(n) == f[n] \in Seq(S) /\ ToSet(f[n]) = {list[j] : j \in 1..n} \cap set
           T == {n \in 0..Len(list) : ~Right(n)}
<1>2. \A k \in 0..Len(list) :
        f[k] = IF k = 0 THEN <<>>
               ELSE IF list[k] \in set THEN Append(f[k - 1], list[k]) ELSE f[k - 1]
  BY <1>1 DEF Picks
<1>3. T = {}
  <2> SUFFICES ASSUME T # {} PROVE FALSE
    OBVIOUS
  <2>1. PICK m \in T : \A y \in T : m <= y
    <3>1. T \in SUBSET Nat
      OBVIOUS
    <3> HIDE DEF T
    <3> QED
      BY <3>1, LeastNatural
  <2>2. m # 0
    <3>1. f[0] = <<>> /\ <<>> \in Seq(S)
      BY <1>2
    <3>2. ToSet(<<>>) = {} /\ {list[j] : j \in 1..0} = {}
      BY DEF ToSet
    <3>3. ToSet(f[0]) = {list[j] : j \in 1..0} \cap set
      BY <3>1, <3>2
    <3> QED
      BY <3>1, <3>3
  <2>3. m \in 1..Len(list) /\ m - 1 \in 0..Len(list) /\ ~(m <= m - 1)
    BY <2>2
  <2>4. Right(m - 1)
    BY <2>1, <2>3
  <2>5. {list[j] : j \in 1..m} = {list[j] : j \in 1..(m - 1)} \cup {list[m]} /\ list[m] \in S
    BY <2>3
  <2>6. CASE list[m] \in set
    <3>1. f[m] = Append(f[m - 1], list[m])
      BY <1>2, <2>6, <2>2, <2>3
    <3>2. f[m] \in Seq(S)
      BY <3>1, <2>4, <2>5
    <3>3. ToSet(f[m]) = ToSet(f[m - 1]) \cup {list[m]}
      <4> HIDE DEF T
      <4> DEFINE a == f[m - 1]
                 x == list[m]
      <4>1. a \in Seq(S) /\ x \in S
        BY <2>4, <2>5
      <4> HIDE DEF a, x
      <4>2. ToSet(Append(a, x)) = ToSet(a) \cup {x}
        <5>1. Len(Append(a, x)) = Len(a) + 1 /\ Len(a) \in Nat
          BY <4>1
        <5>2. \A i \in 1..Len(a) : Append(a, x)[i] = a[i]
          BY <4>1
        <5>3. Append(a, x)[Len(a) + 1] = x
          BY <4>1
        <5> QED
          BY <5>1, <5>2, <5>3, <4>1 DEF ToSet
      <4> QED
        BY <4>2, <3>1 DEF a, x
    <3> QED
      BY <3>2, <3>3, <2>4, <2>5, <2>6
  <2>7. CASE list[m] \notin set
    BY <1>2, <2>7, <2>2, <2>3, <2>4, <2>5
  <2> QED
    BY <2>6, <2>7
<1>4. Right(Len(list))
  <2>1. Len(list) \in 0..Len(list)
    OBVIOUS
  <2>2. \A n \in 0..Len(list) : Right(n)
    BY <1>3
  <2> HIDE DEF Right
  <2> QED
    BY <2>1, <2>2
<1>5. {list[j] : j \in 1..Len(list)} = ToSet(list)
  BY DEF ToSet
<1> QED
  BY <1>1, <1>4, <1>5

-----------------------------------------------------------------------------
(* What a state of the picker is made of.                                  *)

IsSelection(selection) ==
  /\ selection = [row \in DOMAIN selection |-> selection[row]]
  /\ DOMAIN selection \subseteq Rows
  /\ \A row \in DOMAIN selection : selection[row] \in SUBSET Axes

IsModel(model) == IsSelection(model.selection) /\ model.marks \subseteq DOMAIN Folders

PickFields == {"phase", "selection", "marks", "before", "tab", "cursor", "anchor", "query", "typing"}

(* The cursor is on the row of a folder only in the tab of one. *)
IsCursor(p, row) == row \in Rows \cup {NoRow} \/ (row = Unit /\ p.tab # AllTab)

IsPick(p) ==
  /\ DOMAIN p = PickFields /\ p = [x \in PickFields |-> p[x]]
  /\ IsModel(p)
  /\ p.tab \in {AllTab} \cup DOMAIN Folders
  /\ IsCursor(p, p.cursor)

LEMMA NamesAreNoChats ==
  /\ "me" \in Rows /\ Listed \subseteq Rows
  /\ Unit \notin Rows /\ NoRow \notin Rows /\ Unit # NoRow
  BY TreeAssumption DEF Rows, Unit, NoRow

LEMMA PickedFields ==
  ASSUME NEW p, IsPick(p), NEW x
  PROVE  /\ IsPick([p EXCEPT !.phase = x])
         /\ IsPick([p EXCEPT !.anchor = x])
         /\ IsPick([p EXCEPT !.query = x])
         /\ IsPick([p EXCEPT !.typing = x])
         /\ IsCursor(p, x) => IsPick([p EXCEPT !.cursor = x])
<1>1. IsPick([p EXCEPT !.phase = x])
  BY DEF IsPick, PickFields, IsModel, IsCursor
<1>2. IsPick([p EXCEPT !.anchor = x])
  BY DEF IsPick, PickFields, IsModel, IsCursor
<1>3. IsPick([p EXCEPT !.query = x])
  BY DEF IsPick, PickFields, IsModel, IsCursor
<1>4. IsPick([p EXCEPT !.typing = x])
  BY DEF IsPick, PickFields, IsModel, IsCursor
<1>5. ASSUME IsCursor(p, x) PROVE IsPick([p EXCEPT !.cursor = x])
  BY <1>5 DEF IsPick, PickFields, IsModel, IsCursor
<1> QED
  BY <1>1, <1>2, <1>3, <1>4, <1>5

LEMMA PickedCursor ==
  ASSUME NEW p, IsPick(p), NEW row, IsCursor(p, row)
  PROVE  IsPick([p EXCEPT !.cursor = row])
  BY PickedFields

LEMMA PickedRows ==
  ASSUME NEW p, IsPick(p), NEW selection, IsSelection(selection)
  PROVE  IsPick([p EXCEPT !.selection = selection])
  BY DEF IsPick, PickFields, IsModel, IsCursor

LEMMA PickedModel ==
  ASSUME NEW p, IsPick(p), NEW selection, IsSelection(selection),
         NEW marks, marks \subseteq DOMAIN Folders
  PROVE  IsPick([p EXCEPT !.selection = selection, !.marks = marks])
  BY DEF IsPick, PickFields, IsModel, IsCursor

LEMMA GiveTyped ==
  ASSUME NEW selection, IsSelection(selection), NEW rows \in SUBSET Rows, NEW bits \in SUBSET Axes
  PROVE  IsSelection(Give(selection, rows, bits))
  BY DEF IsSelection, Give

LEMMA TakeTyped ==
  ASSUME NEW selection, IsSelection(selection), NEW rows
  PROVE  IsSelection(Take(selection, rows))
  BY DEF IsSelection, Take

LEMMA BitsTyped ==
  ASSUME NEW axis \in Axes
  PROVE  /\ SetTo(axis) \in SUBSET Axes /\ DefaultBits \in SUBSET Axes
         /\ \A bits \in SUBSET Axes : Flip(bits, axis) \in SUBSET Axes
  BY DEF SetTo, Axes, Flip, DefaultBits

LEMMA ChildrenTyped ==
  ASSUME NEW f \in DOMAIN Folders
  PROVE  Children(f) \in SUBSET Rows
  BY TreeAssumption, NamesAreNoChats DEF Children, Explicit

(* The rows of a tab, and its header.                                      *)
LEMMA VisibleTyped ==
  ASSUME NEW p, IsPick(p)
  PROVE  /\ Visible(p) \in Seq(Rows \cup {Unit})
         /\ \A i \in DOMAIN Visible(p) : IsCursor(p, Visible(p)[i])
         /\ IsCursor(p, First(Visible(p)))
<1> DEFINE All == Rows \cup {Unit}
<1>1. /\ Dialogs \in Seq(All)
      /\ \A set : Among(Dialogs, set) \in Seq(Rows)
  <2>1. Dialogs \in Seq(Rows) /\ Dialogs \in Seq(All)
    BY TreeAssumption, NamesAreNoChats
  <2> QED
    BY <2>1, AmongIs
<1>2. RowOrder(p) \in Seq(Rows)
  <2> DEFINE a == Among(Dialogs, DOMAIN p.before.selection)
             b == Among(Dialogs, Listed \ DOMAIN p.before.selection)
  <2>1. <<"me">> \in Seq(Rows) /\ a \in Seq(Rows) /\ b \in Seq(Rows)
    BY <1>1, NamesAreNoChats
  <2>2. RowOrder(p) = <<"me">> \o a \o b
    BY DEF RowOrder
  <2> HIDE DEF a, b
  <2> QED
    BY <2>1, <2>2
<1>3. /\ TabRows(p) \in Seq(All)
      /\ p.tab = AllTab => TabRows(p) \in Seq(Rows)
  <2>1. CASE p.tab = AllTab
    <3>1. TabRows(p) = RowOrder(p)
      BY <2>1 DEF TabRows
    <3> QED
      BY <3>1, <1>2
  <2>2. CASE p.tab # AllTab
    <3> DEFINE a == Among(RowOrder(p), Children(p.tab))
    <3>1. a \in Seq(Rows) /\ <<Unit>> \in Seq(All)
      BY <1>2, AmongIs
    <3>2. TabRows(p) = <<Unit>> \o a
      BY <2>2 DEF TabRows
    <3> HIDE DEF a
    <3>3. a \in Seq(All)
      BY <3>1
    <3> HIDE DEF All
    <3> QED
      BY <3>1, <3>2, <3>3, <2>2
  <2> QED
    BY <2>1, <2>2
<1>4. /\ Visible(p) \in Seq(All)
      /\ p.tab = AllTab => Visible(p) \in Seq(Rows)
  <2> DEFINE set == {Unit} \cup (IF p.query = NoQuery THEN Rows ELSE Found[p.query])
  <2>1. Visible(p) = Among(TabRows(p), set)
    BY DEF Visible
  <2> HIDE DEF set, All
  <2> QED
    BY <1>3, <2>1, AmongIs
<1>5. ASSUME NEW i \in DOMAIN Visible(p) PROVE IsCursor(p, Visible(p)[i])
  <2>1. Visible(p)[i] \in All /\ (p.tab = AllTab => Visible(p)[i] \in Rows)
    BY <1>4
  <2> QED
    BY <2>1 DEF IsCursor
<1>6. IsCursor(p, First(Visible(p)))
  <2>1. CASE Visible(p) = <<>>
    BY <2>1 DEF First, IsCursor
  <2>2. CASE Visible(p) # <<>>
    <3>1. 1 \in DOMAIN Visible(p)
      BY <1>4, <2>2
    <3> QED
      BY <3>1, <1>5, <2>2 DEF First
  <2> QED
    BY <2>1, <2>2
<1> QED
  BY <1>4, <1>5, <1>6

-----------------------------------------------------------------------------
(* The keys of the picker.                                                 *)

LEMMA ClampedTyped ==
  ASSUME NEW p, IsPick(p)
  PROVE  IsPick(Clamped(p))
  BY VisibleTyped, PickedFields DEF Clamped

LEMMA FilteredTyped ==
  ASSUME NEW p, IsPick(p), NEW query
  PROVE  IsPick(Filtered(p, query))
<1> DEFINE q == [p EXCEPT !.query = query]
<1>1. IsPick(q)
  BY PickedFields
<1> HIDE DEF q
<1>2. IsPick(Clamped(q))
  BY <1>1, ClampedTyped
<1> QED
  BY <1>2 DEF Filtered, q

LEMMA MovedTyped ==
  ASSUME NEW p, IsPick(p), NEW step
  PROVE  IsPick(Moved(p, step))
<1>1. IsCursor(p, NoRow)
  BY DEF IsCursor
<1>2. IsPick([p EXCEPT !.cursor = NoRow])
  BY <1>1, PickedFields
<1>3. ASSUME NEW n \in DOMAIN Visible(p) PROVE IsPick([p EXCEPT !.cursor = Visible(p)[n]])
  BY VisibleTyped, PickedFields
<1> DEFINE rows == Visible(p)
           at == PlaceOf(p.cursor, rows)
           next == IF at = 0 THEN (IF step = 1 THEN 1 ELSE Len(rows)) ELSE at + step
<1>4. Moved(p, step) = IF rows = <<>> THEN [p EXCEPT !.cursor = NoRow]
                       ELSE IF next \in DOMAIN rows THEN [p EXCEPT !.cursor = rows[next]] ELSE p
  BY DEF Moved
<1> HIDE DEF next, at
<1> QED
  BY <1>2, <1>3, <1>4

LEMMA PlaceTyped ==
  ASSUME NEW row, NEW rows, DOMAIN rows \subseteq Nat
  PROVE  PlaceOf(row, rows) \in {0} \cup DOMAIN rows
  BY DEF PlaceOf

LEMMA CycledTyped ==
  ASSUME NEW p, IsPick(p), NEW step \in {1, -1}
  PROVE  IsPick(Cycled(p, step))
<1> DEFINE chats == Among(Visible(p), Rows)
           at == PlaceOf(p.cursor, chats)
           start == IF at = 0 THEN (IF step = 1 THEN 0 ELSE 1) ELSE at
           next == ((start + step - 1 + Len(chats)) % Len(chats)) + 1
<1>1. chats \in Seq(Rows)
  <2>1. Visible(p) \in Seq(Rows \cup {Unit})
    BY VisibleTyped
  <2>2. chats \in Seq(Rows \cup {Unit}) /\ ToSet(chats) \subseteq Rows
    <3> HIDE DEF chats
    <3>1. \A set : /\ Among(Visible(p), set) \in Seq(Rows \cup {Unit})
                   /\ ToSet(Among(Visible(p), set)) = ToSet(Visible(p)) \cap set
      BY <2>1, AmongIs
    <3> QED
      BY <3>1 DEF chats
  <2> HIDE DEF chats
  <2> QED
    BY <2>2 DEF ToSet
<1>2. Cycled(p, step) = IF chats = <<>> THEN p ELSE [p EXCEPT !.cursor = chats[next]]
  BY DEF Cycled
<1> HIDE DEF chats
<1>3. CASE chats = <<>>
  BY <1>2, <1>3
<1>4. CASE chats # <<>>
  <2>1. Len(chats) \in Nat \ {0} /\ DOMAIN chats = 1..Len(chats)
    BY <1>1, <1>4
  <2>2. at \in 0..Len(chats)
    BY <2>1, PlaceTyped
  <2> HIDE DEF at
  <2>3. start + step - 1 + Len(chats) \in Int
    BY <2>1, <2>2
  <2> HIDE DEF start
  <2>4. (start + step - 1 + Len(chats)) % Len(chats) \in 0..(Len(chats) - 1)
    BY <2>1, <2>3
  <2>5. next \in 1..Len(chats)
    BY <2>1, <2>4
  <2> HIDE DEF next
  <2>6. chats[next] \in Rows
    BY <2>1, <2>5, <1>1
  <2>7. IsCursor(p, chats[next])
    BY <2>6 DEF IsCursor
  <2>8. IsPick([p EXCEPT !.cursor = chats[next]])
    BY <2>7, PickedCursor
  <2> QED
    BY <2>8, <1>2, <1>4 DEF next, start, at
<1> QED
  BY <1>3, <1>4

LEMMA TabTyped ==
  ASSUME NEW p, IsPick(p), NEW tab \in {AllTab} \cup DOMAIN Folders
  PROVE  IsPick(InTab(p, tab))
<1> DEFINE q == [p EXCEPT !.tab = tab]
           z == [q EXCEPT !.cursor = NoRow]
           row == First(Visible(q))
<1>1. IsPick(z) /\ z.tab = tab /\ z.query = p.query /\ z.before = p.before /\ q.tab = tab
  BY DEF IsPick, IsModel, PickFields, IsCursor
<1>2. Visible(z) = Visible(q)
  <2>1. z.tab = q.tab /\ z.query = q.query /\ z.before = q.before
    BY DEF IsPick, PickFields
  <2> HIDE DEF z, q
  <2> QED
    BY <2>1 DEF Visible, TabRows, RowOrder
<1>3. IsCursor(z, row)
  <2> HIDE DEF z, q
  <2> QED
    BY <1>1, <1>2, VisibleTyped
<1>4. IsPick([z EXCEPT !.cursor = row])
  <2> HIDE DEF z, row
  <2> QED
    BY <1>1, <1>3, PickedFields
<1>5. [z EXCEPT !.cursor = row] = [q EXCEPT !.cursor = row]
  <2> HIDE DEF row
  <2> QED
    BY DEF IsPick, PickFields
<1>6. InTab(p, tab) = [[q EXCEPT !.cursor = row] EXCEPT !.anchor = NoRow]
  <2> HIDE DEF row
  <2>1. DOMAIN q = PickFields
    BY DEF IsPick, PickFields
  <2>2. [q EXCEPT !.cursor = row, !.anchor = NoRow] =
          [[q EXCEPT !.cursor = row] EXCEPT !.anchor = NoRow]
    BY <2>1 DEF PickFields
  <2> QED
    BY <2>2 DEF InTab, row
<1>7. IsPick([q EXCEPT !.cursor = row])
  BY <1>4, <1>5
<1> DEFINE y == [q EXCEPT !.cursor = row]
<1> HIDE DEF y
<1>8. IsPick(y)
  BY <1>7 DEF y
<1>9. InTab(p, tab) = [y EXCEPT !.anchor = NoRow]
  BY <1>6 DEF y
<1>10. IsPick([y EXCEPT !.anchor = NoRow])
  BY <1>8, PickedFields
<1> QED
  BY <1>9, <1>10

LEMMA NextTabTyped ==
  ASSUME NEW p, IsPick(p), NEW step
  PROVE  IsPick(NextTab(p, step))
<1> DEFINE order == <<AllTab>> \o Tabs
           next == PlaceOf(p.tab, order) + step
<1>1. order \in Seq({AllTab} \cup DOMAIN Folders)
  <2>1. <<AllTab>> \in Seq({AllTab} \cup DOMAIN Folders) /\ Tabs \in Seq({AllTab} \cup DOMAIN Folders)
    BY TreeAssumption
  <2> QED
    BY <2>1
<1>2. NextTab(p, step) = IF next \in DOMAIN order THEN InTab(p, order[next]) ELSE p
  BY DEF NextTab
<1> HIDE DEF order, next
<1>3. next \in DOMAIN order => order[next] \in {AllTab} \cup DOMAIN Folders
  BY <1>1
<1> QED
  BY <1>2, <1>3, TabTyped

LEMMA ToggledTyped ==
  ASSUME NEW p, IsPick(p), NEW axis \in Axes
  PROVE  IsPick(Toggled(p, axis))
<1>1. IsSelection(p.selection) /\ p.marks \subseteq DOMAIN Folders /\ IsCursor(p, p.cursor)
      /\ p.tab \in {AllTab} \cup DOMAIN Folders
  BY DEF IsPick, IsModel
<1>2. SetTo(axis) \in SUBSET Axes /\ \A bits \in SUBSET Axes : Flip(bits, axis) \in SUBSET Axes
  BY BitsTyped
<1>3. IsPick(SetRange(p, axis))
  <2>1. Between(p) \in SUBSET Rows
    <3>1. \A i \in DOMAIN Visible(p) : Visible(p)[i] \in Rows \cup {Unit}
      BY VisibleTyped
    <3> QED
      BY <3>1 DEF Between
  <2> DEFINE q == [p EXCEPT !.selection = Give(p.selection, Between(p), SetTo(axis))]
  <2>2. IsPick(q)
    BY <1>1, <1>2, <2>1, GiveTyped, PickedRows
  <2>3. SetRange(p, axis) = [q EXCEPT !.anchor = NoRow]
    <3>1. DOMAIN p = PickFields
      BY DEF IsPick
    <3> QED
      BY <3>1 DEF SetRange, PickFields
  <2> HIDE DEF q
  <2>4. IsPick([q EXCEPT !.anchor = NoRow])
    BY <2>2, PickedFields
  <2> QED
    BY <2>3, <2>4
<1>4. ASSUME p.cursor # NoRow, p.cursor # Unit PROVE IsPick(ToggleChat(p, axis))
  <2> DEFINE bits == IF p.cursor \in DOMAIN p.selection THEN Flip(p.selection[p.cursor], axis)
                     ELSE SetTo(axis)
  <2>1. bits \in SUBSET Axes
    BY <1>1, <1>2 DEF IsSelection
  <2>2. p.cursor \in Rows
    BY <1>1, <1>4 DEF IsCursor
  <2>3. ToggleChat(p, axis) =
          [p EXCEPT !.selection = IF bits = {} THEN Take(p.selection, {p.cursor})
                                  ELSE Give(p.selection, {p.cursor}, bits)]
    BY DEF ToggleChat
  <2> HIDE DEF bits
  <2>4. /\ IsSelection(Take(p.selection, {p.cursor}))
        /\ IsSelection(Give(p.selection, {p.cursor}, bits))
    BY <1>1, <2>1, <2>2, GiveTyped, TakeTyped
  <2>5. /\ IsPick([p EXCEPT !.selection = Take(p.selection, {p.cursor})])
        /\ IsPick([p EXCEPT !.selection = Give(p.selection, {p.cursor}, bits)])
    BY <2>4, PickedRows
  <2> QED
    BY <2>3, <2>5
<1>5. ASSUME p.cursor = Unit PROVE IsPick(SetFolder(p, p.tab, axis))
  <2> DEFINE f == p.tab
             uniform == UniformBits(p, f)
             bits == IF \E b \in uniform : uniform = {b} THEN Flip(CHOOSE b \in uniform : TRUE, axis)
                     ELSE SetTo(axis)
  <2>1. f \in DOMAIN Folders
    BY <1>1, <1>5, NamesAreNoChats DEF IsCursor
  <2>2. Children(f) \in SUBSET Rows
    BY <2>1, ChildrenTyped
  <2>3. \A b \in uniform : b \in SUBSET Axes
    BY <1>1 DEF UniformBits, IsSelection
  <2>4. bits \in SUBSET Axes
    <3> HIDE DEF uniform
    <3>1. uniform # {} => (CHOOSE b \in uniform : TRUE) \in uniform
      OBVIOUS
    <3> QED
      BY <3>1, <2>3, <1>2
  <2>5. SetFolder(p, f, axis) =
          IF Children(f) = {} \/ bits = {}
            THEN [p EXCEPT !.selection = Take(p.selection, Children(f)), !.marks = p.marks \ {f}]
            ELSE [p EXCEPT !.selection = Give(p.selection, Children(f), bits),
                           !.marks = p.marks \cup {f}]
    BY DEF SetFolder
  <2> HIDE DEF bits, f
  <2>6. /\ IsSelection(Take(p.selection, Children(f)))
        /\ IsSelection(Give(p.selection, Children(f), bits))
    BY <1>1, <2>2, <2>4, GiveTyped, TakeTyped
  <2>7. p.marks \ {f} \subseteq DOMAIN Folders /\ p.marks \cup {f} \subseteq DOMAIN Folders
    BY <1>1, <2>1
  <2>8. /\ IsPick([p EXCEPT !.selection = Take(p.selection, Children(f)), !.marks = p.marks \ {f}])
        /\ IsPick([p EXCEPT !.selection = Give(p.selection, Children(f), bits),
                             !.marks = p.marks \cup {f}])
    BY <2>6, <2>7, PickedModel
  <2>9. IsPick(SetFolder(p, f, axis))
    BY <2>5, <2>8
  <2> QED
    BY <2>9 DEF f
<1> QED
  BY <1>3, <1>4, <1>5 DEF Toggled

LEMMA ClearedTyped ==
  ASSUME NEW p, IsPick(p)
  PROVE  IsPick(Cleared(p)) /\ IsPick(AllShown(p)) /\ IsPick(Inverted(p))
<1>1. IsSelection(p.selection) /\ p.marks \subseteq DOMAIN Folders
  BY DEF IsPick, IsModel
<1>2. \A i \in DOMAIN Visible(p) : Visible(p)[i] \in Rows \cup {Unit}
  BY VisibleTyped
<1>3. ShownRows(p) \subseteq Rows
  BY <1>2 DEF ShownRows
<1>4. IsPick(Cleared(p))
  <2>1. \A rows : IsSelection(Take(p.selection, rows))
    BY <1>1, TakeTyped
  <2>2. p.marks \ {p.tab} \subseteq DOMAIN Folders
    BY <1>1
  <2>3. /\ IsPick([p EXCEPT !.selection = Take(p.selection, {p.cursor})])
        /\ IsPick([p EXCEPT !.selection = Take(p.selection, Children(p.tab)),
                             !.marks = p.marks \ {p.tab}])
    BY <2>1, <2>2, PickedRows, PickedModel
  <2> QED
    BY <2>3 DEF Cleared
<1> DEFINE all == Give(p.selection, ShownRows(p) \ DOMAIN p.selection, DefaultBits)
<1>5. IsSelection(all)
  BY <1>1, <1>3, GiveTyped DEF DefaultBits, Axes
<1>6. IsPick(AllShown(p))
  <2>1. AllShown(p) = [p EXCEPT !.selection = all]
    BY DEF AllShown
  <2> HIDE DEF all
  <2> QED
    BY <2>1, <1>5, PickedRows
<1>7. IsPick(Inverted(p))
  <2> DEFINE some == Take(all, ShownRows(p) \cap DOMAIN p.selection)
  <2>1. Inverted(p) = [p EXCEPT !.selection = some]
    BY DEF Inverted
  <2> HIDE DEF all
  <2>2. IsSelection(some)
    BY <1>5, TakeTyped
  <2> HIDE DEF some
  <2> QED
    BY <2>1, <2>2, PickedRows
<1> QED
  BY <1>4, <1>6, <1>7

(* Every key leaves a picker; opening one for an access of a document is one. *)
LEMMA OpenedTyped ==
  ASSUME NEW access, IsAccess(access)
  PROVE  IsPick(Opened(access)) /\ Opened(access).phase = "picker"
<1> DEFINE model == Hydrated(access)
           folders == access.folders \cap DOMAIN Folders
           members == (UNION {RowsFor(ref) : ref \in access.chats})
                        \cup (UNION {Explicit(f) : f \in folders})
<1>1. \A ref : IsReference(ref) => RowsFor(ref) \subseteq Rows
  BY NamesAreNoChats DEF IsReference, RowsFor
<1>2. members \subseteq Rows
  <2>1. \A ref \in access.chats : RowsFor(ref) \subseteq Rows
    BY <1>1 DEF IsAccess
  <2>2. \A f \in folders : Explicit(f) \subseteq Rows
    BY DEF Explicit
  <2>3. UNION {RowsFor(ref) : ref \in access.chats} \subseteq Rows
    BY <2>1
  <2>4. UNION {Explicit(f) : f \in folders} \subseteq Rows
    BY <2>2
  <2> QED
    BY <2>3, <2>4
<1>3. \A row : HydratedBits(access, row) \in SUBSET Axes
  <2>1. \A verbs : BitsOf(verbs) \in SUBSET Axes
    BY DEF BitsOf
  <2> QED
    BY <2>1 DEF HydratedBits
<1>4. /\ model.selection = [row \in members |-> HydratedBits(access, row)]
      /\ model.marks = folders
  BY DEF Hydrated
<1> HIDE DEF members, model
<1>5. IsSelection(model.selection) /\ model.marks \subseteq DOMAIN Folders
  BY <1>2, <1>3, <1>4 DEF IsSelection
<1> DEFINE o == Opened(access)
<1>6. /\ o = [Closed EXCEPT !.phase = "picker", !.selection = model.selection, !.marks = model.marks,
                            !.before = model, !.cursor = "me"]
      /\ DOMAIN Closed = PickFields
  BY DEF Opened, Closed, PickFields, model
<1>7. /\ DOMAIN o = PickFields /\ o = [x \in PickFields |-> o[x]]
      /\ o.selection = model.selection /\ o.marks = model.marks
      /\ o.cursor = "me" /\ o.tab = AllTab /\ o.phase = "picker"
  BY <1>6 DEF Closed, PickFields
<1> QED
  BY <1>5, <1>7, NamesAreNoChats DEF IsPick, IsModel, IsCursor

LEMMA ClosedTyped == IsPick(Closed)
<1>1. IsSelection(<<>>)
  <2>1. DOMAIN <<>> = {}
    OBVIOUS
  <2>2. <<>> = [row \in {} |-> <<>>[row]]
    OBVIOUS
  <2> QED
    BY <2>1, <2>2 DEF IsSelection
<1>2. /\ DOMAIN Closed = PickFields /\ Closed = [x \in PickFields |-> Closed[x]]
      /\ Closed.selection = <<>> /\ Closed.marks = {} /\ Closed.cursor = NoRow /\ Closed.tab = AllTab
  BY DEF Closed, PickFields
<1> QED
  BY <1>1, <1>2 DEF IsPick, IsModel, IsCursor

LEMMA KeysTyped ==
  ASSUME NEW p, IsPick(p)
  PROVE  \A q \in TreeKeys(p) \cup SearchKeys(p) : IsPick(q)
<1>1. /\ IsPick(Moved(p, 1)) /\ IsPick(Moved(p, -1))
      /\ IsPick(NextTab(p, 1)) /\ IsPick(NextTab(p, -1))
      /\ IsPick(Cycled(p, 1)) /\ IsPick(Cycled(p, -1))
  BY MovedTyped, NextTabTyped, CycledTyped
<1>2. \A axis \in Axes : IsPick(Toggled(p, axis))
  BY ToggledTyped
<1>3. IsPick(Cleared(p)) /\ IsPick(AllShown(p)) /\ IsPick(Inverted(p))
  BY ClearedTyped
<1>4. \A query : IsPick(Filtered(p, query))
  BY FilteredTyped
<1>5. IsPick([Filtered(p, NoQuery) EXCEPT !.typing = FALSE])
  <2> DEFINE q == Filtered(p, NoQuery)
  <2>1. IsPick(q)
    BY <1>4
  <2> HIDE DEF q
  <2>2. IsPick([q EXCEPT !.typing = FALSE])
    BY <2>1, PickedFields
  <2> QED
    BY <2>2 DEF q
<1>6. /\ IsPick([p EXCEPT !.typing = TRUE]) /\ IsPick([p EXCEPT !.typing = FALSE])
      /\ IsPick([p EXCEPT !.anchor = p.cursor])
  BY PickedFields
<1>7. \A q \in TreeKeys(p) : IsPick(q)
  BY <1>1, <1>2, <1>3, <1>4, <1>6 DEF TreeKeys
<1>8. \A q \in SearchKeys(p) : IsPick(q)
  BY <1>1, <1>4, <1>5, <1>6 DEF SearchKeys
<1> QED
  BY <1>7, <1>8

LEMMA PressTyped ==
  ASSUME IsPick(pick), Press \/ Save \/ Leave \/ Review
  PROVE  IsPick(pick')
<1>1. ASSUME NEW x PROVE IsPick([pick EXCEPT !.phase = x])
  BY PickedFields
<1>2. CASE Press
  BY <1>2, KeysTyped DEF Press
<1>3. CASE Save
  BY <1>3, <1>1 DEF Save
<1>4. CASE Leave
  BY <1>4, <1>1 DEF Leave
<1>5. CASE Review
  BY <1>5, <1>1 DEF Review
<1> QED
  BY <1>2, <1>3, <1>4, <1>5

-----------------------------------------------------------------------------
(* What is saved and what the runtime makes of it.                         *)

LEMMA BitsBack ==
  ASSUME NEW bits \in SUBSET Axes
  PROVE  BitsOf(VerbsOf(bits)) = bits
<1>1. \A a, b \in Axes : Tier(a) \cap Tier(b) # {} => a = b
  BY DEF Axes, Tier
<1>2. \A a \in Axes : Tier(a) # {}
  BY DEF Tier
<1> QED
  BY <1>1, <1>2 DEF BitsOf, VerbsOf

(* The two names of a chat. *)
LEMMA RowReferences ==
  ASSUME NEW row \in Rows
  PROVE  /\ RowsFor(RefOf(row)) = {row}
         /\ Resolve(RefOf(row)) = IF row = "me" THEN {Self} ELSE {row}
         /\ IsReference(RefOf(row))
  BY TreeAssumption DEF RowsFor, RefOf, Resolve, IsReference, Rows

(* The folder's peers in the tree are its members there. *)
LEMMA MembersAreRows ==
  ASSUME NEW f \in DOMAIN Folders, NEW peer \in FolderPeers(f), NEW row \in Rows
  PROVE  /\ RowOf(peer) \in Rows => RowOf(peer) \in Explicit(f)
         /\ (RowOf(peer) = row /\ Resolve(RefOf(row)) # {}) => Resolve(RefOf(row)) = {peer}
<1>1. peer # "me"
  BY TreeAssumption
<1> QED
  BY <1>1, RowReferences DEF RowOf, Explicit

LEMMA OverridesAre ==
  ASSUME NEW model, IsModel(model)
  PROVE  LET overrides == Overrides(model)
             Differs(row) == row \in DOMAIN model.selection /\ model.selection[row] # DefaultBits
         IN /\ \A i \in DOMAIN overrides :
                 \E row \in Rows : /\ Differs(row)
                                   /\ overrides[i].ref = RefOf(row)
                                   /\ overrides[i].verbs = VerbsOf(model.selection[row])
            /\ \A row \in Rows : Differs(row) =>
                 \E i \in DOMAIN overrides : overrides[i].ref = RefOf(row)
            /\ overrides \in Seq(ToSet(overrides))
<1> DEFINE differing == {row \in DOMAIN model.selection : model.selection[row] # DefaultBits}
           rows == Among(OverrideOrder, differing)
           overrides == Overrides(model)
<1>1. OverrideOrder \in Seq(Rows) /\ ToSet(OverrideOrder) = Rows
  <2>1. Dialogs \in Seq(Rows) /\ "me" \in Rows /\ DOMAIN Dialogs = 1..Len(Dialogs) /\ Len(Dialogs) \in Nat
    BY TreeAssumption, NamesAreNoChats
  <2>2. OverrideOrder \in Seq(Rows)
    BY <2>1 DEF OverrideOrder
  <2>3. /\ DOMAIN OverrideOrder = 1..(Len(Dialogs) + 1)
        /\ OverrideOrder[Len(Dialogs) + 1] = "me"
        /\ \A i \in DOMAIN Dialogs : OverrideOrder[i] = Dialogs[i]
    BY <2>1 DEF OverrideOrder
  <2>4. Rows \subseteq ToSet(OverrideOrder)
    <3>1. "me" \in ToSet(OverrideOrder)
      BY <2>1, <2>3 DEF ToSet
    <3>2. \A i \in DOMAIN Dialogs : i \in DOMAIN OverrideOrder
      BY <2>1, <2>3
    <3>3. Listed \subseteq ToSet(OverrideOrder)
      BY <2>3, <3>2 DEF Listed, ToSet
    <3> QED
      BY <3>1, <3>3 DEF Rows
  <2>5. ToSet(OverrideOrder) \subseteq Rows
    BY <2>2 DEF ToSet
  <2> QED
    BY <2>2, <2>4, <2>5
<1>2. rows \in Seq(Rows) /\ ToSet(rows) = Rows \cap differing
  <2> HIDE DEF differing
  <2> QED
    BY <1>1, AmongIs
<1>3. overrides = [i \in DOMAIN rows |-> [ref |-> RefOf(rows[i]), verbs |-> VerbsOf(model.selection[rows[i]])]]
  BY DEF Overrides
<1> HIDE DEF rows
<1>4. \A i \in DOMAIN rows : rows[i] \in Rows /\ rows[i] \in differing
  BY <1>2 DEF ToSet
<1>5. \A row \in Rows \cap differing : \E i \in DOMAIN rows : rows[i] = row
  BY <1>2 DEF ToSet
<1>6. overrides \in Seq(ToSet(overrides))
  <2>1. DOMAIN rows = 1..Len(rows) /\ Len(rows) \in Nat
    BY <1>2
  <2> DEFINE E(i) == [ref |-> RefOf(rows[i]), verbs |-> VerbsOf(model.selection[rows[i]])]
             T == ToSet(overrides)
  <2>2. DOMAIN overrides = 1..Len(rows) /\ overrides = [i \in 1..Len(rows) |-> E(i)]
    BY <2>1, <1>3
  <2>3. \A i \in 1..Len(rows) : E(i) \in T
    BY <2>2 DEF ToSet
  <2> HIDE DEF E, T, overrides
  <2>4. overrides \in Seq(T)
    BY <2>1, <2>2, <2>3
  <2> QED
    BY <2>4 DEF T
<1> QED
  BY <1>3, <1>4, <1>5, <1>6

LEMMA GreatestPlace ==
  ASSUME NEW S, NEW s \in Seq(S), NEW T, T \subseteq DOMAIN s, T # {}
  PROVE  \E i \in T : \A j \in T : j <= i
<1> DEFINE U == {Len(s) - i : i \in T}
<1>1. Len(s) \in Nat /\ DOMAIN s = 1..Len(s)
  OBVIOUS
<1>2. U \in SUBSET Nat /\ U # {}
  BY <1>1
<1> HIDE DEF U
<1>3. PICK u \in U : \A v \in U : u <= v
  BY <1>2, LeastNatural
<1>4. PICK i \in T : u = Len(s) - i
  BY <1>3 DEF U
<1>5. ASSUME NEW j \in T PROVE j <= i
  <2>1. Len(s) - j \in U
    BY DEF U
  <2>2. Len(s) - i <= Len(s) - j
    BY <2>1, <1>3, <1>4
  <2>3. i \in Nat /\ j \in Nat
    BY <1>1
  <2> QED
    BY <2>2, <2>3, <1>1
<1> QED
  BY <1>5

(* The fields of a projection. *)
LEMMA ProjectedIs ==
  ASSUME NEW model
  PROVE  LET access == Projected(model, NoAccess)
         IN /\ access.chats = ChatRefs(model) /\ access.folders = Units(model)
            /\ access.overrides = Overrides(model) /\ access.verbs = VerbsOf(DefaultBits)
            /\ access.denied = {}
  BY DEF Projected, NoAccess

LEMMA ChatsAre ==
  ASSUME NEW model, IsModel(model)
  PROVE  /\ \A ref \in ChatRefs(model) : \E row \in DOMAIN model.selection : ref = RefOf(row)
         /\ \A row \in DOMAIN model.selection :
              RefOf(row) \in ChatRefs(model) \/ \E f \in Units(model) : row \in Explicit(f)
         /\ \A f \in Units(model) : f \in DOMAIN Folders /\ Explicit(f) \subseteq DOMAIN model.selection
<1> DEFINE members == DOMAIN model.selection
           covered == UNION {Explicit(f) : f \in Units(model)}
           snapshots == UNION {Children(f) \ Explicit(f) : f \in model.marks}
           chosen == (members \ covered) \cup (members \cap snapshots)
<1>1. ChatRefs(model) = {RefOf(row) : row \in chosen}
  BY DEF ChatRefs
<1>2. chosen \subseteq members /\ \A row \in members : row \in chosen \/ row \in covered
  OBVIOUS
<1>3. \A row \in covered : \E f \in Units(model) : row \in Explicit(f)
  OBVIOUS
<1> HIDE DEF chosen, covered, snapshots
<1>4. \A f \in Units(model) : f \in DOMAIN Folders /\ Explicit(f) \subseteq members
  BY DEF Units, IsUnit
<1> QED
  BY <1>1, <1>2, <1>3, <1>4

(* The scope is that of the rows. *)
LEMMA ScopeIs ==
  ASSUME NEW model, IsModel(model), NEW peer
  PROVE  LET access == Projected(model, NoAccess)
             members == DOMAIN model.selection
         IN /\ \A row \in members : Resolve(RefOf(row)) = {peer} => peer \in ScopeOf(access)
            /\ peer \in Listed /\ peer \in ScopeOf(access) =>
                 \E row \in members : Resolve(RefOf(row)) = {peer}
<1> DEFINE access == Projected(model, NoAccess)
           members == DOMAIN model.selection
<1>1. access.chats = ChatRefs(model) /\ access.folders = Units(model)
  BY ProjectedIs
<1> HIDE DEF access
<1>2. members \subseteq Rows
  BY DEF IsModel, IsSelection
<1>3. peer \in ScopeOf(access) <=> \/ \E ref \in ChatRefs(model) : peer \in Resolve(ref)
                                   \/ \E f \in Units(model) : peer \in FolderPeers(f)
  BY <1>1 DEF ScopeOf
<1>4. ASSUME NEW row \in members, Resolve(RefOf(row)) = {peer} PROVE peer \in ScopeOf(access)
  <2>1. CASE RefOf(row) \in ChatRefs(model)
    BY <2>1, <1>4, <1>3
  <2>2. CASE \E f \in Units(model) : row \in Explicit(f)
    <3>1. PICK f \in Units(model) : row \in Explicit(f)
      BY <2>2
    <3>2. f \in DOMAIN Folders
      BY ChatsAre
    <3>3. PICK q \in FolderPeers(f) : RowOf(q) = row
      BY <3>1 DEF Explicit
    <3>4. row \in Rows /\ RowOf(q) = row /\ Resolve(RefOf(row)) # {}
      BY <1>2, <1>4, <3>3
    <3>5. Resolve(RefOf(row)) = {q}
      BY <3>2, <3>3, <3>4, MembersAreRows
    <3>6. q = peer
      BY <3>5, <1>4
    <3> QED
      BY <3>6, <3>3, <1>3
  <2> QED
    BY <2>1, <2>2, ChatsAre
<1>5. ASSUME peer \in Listed, peer \in ScopeOf(access)
      PROVE  \E row \in members : Resolve(RefOf(row)) = {peer}
  <2>1. CASE \E ref \in ChatRefs(model) : peer \in Resolve(ref)
    <3>1. PICK row \in members : peer \in Resolve(RefOf(row))
      BY <2>1, ChatsAre
    <3>2. Resolve(RefOf(row)) = {peer}
      BY <3>1, <1>2, RowReferences
    <3> QED
      BY <3>2
  <2>2. CASE \E f \in Units(model) : peer \in FolderPeers(f)
    <3>1. PICK f \in Units(model) : peer \in FolderPeers(f)
      BY <2>2
    <3>2. f \in DOMAIN Folders /\ Explicit(f) \subseteq members
      BY ChatsAre
    <3> DEFINE row == RowOf(peer)
    <3>3. row \in Rows
      BY <1>5, NamesAreNoChats DEF RowOf
    <3>4. Resolve(RefOf(row)) # {}
      BY <3>3, RowReferences
    <3>5. row \in Explicit(f) /\ Resolve(RefOf(row)) = {peer}
      BY <3>1, <3>2, <3>3, <3>4, MembersAreRows
    <3> QED
      BY <3>2, <3>5
  <2> QED
    BY <2>1, <2>2, <1>3, <1>5
<1> QED
  BY <1>4, <1>5 DEF access

(* An override of a chat is one of its rows that differs from the default. *)
LEMMA OverriddenIs ==
  ASSUME NEW model, IsModel(model), NEW peer
  PROVE  LET access == Projected(model, NoAccess)
             Differs(row) == row \in DOMAIN model.selection /\ model.selection[row] # DefaultBits
         IN /\ \A row \in Rows : Differs(row) /\ Resolve(RefOf(row)) = {peer} => peer \in Overridden(access)
            /\ peer \in Overridden(access) =>
                 \E row \in Rows : /\ Differs(row) /\ Resolve(RefOf(row)) = {peer}
                                   /\ OverrideOf(access, peer) = VerbsOf(model.selection[row])
<1> DEFINE access == Projected(model, NoAccess)
           overrides == Overrides(model)
           Differs(row) == row \in DOMAIN model.selection /\ model.selection[row] # DefaultBits
           its == {i \in DOMAIN overrides : peer \in Resolve(overrides[i].ref)}
<1>1. access.overrides = overrides
  BY ProjectedIs
<1>2. /\ \A i \in DOMAIN overrides :
           \E row \in Rows : /\ Differs(row)
                             /\ overrides[i].ref = RefOf(row)
                             /\ overrides[i].verbs = VerbsOf(model.selection[row])
      /\ \A row \in Rows : Differs(row) => \E i \in DOMAIN overrides : overrides[i].ref = RefOf(row)
      /\ overrides \in Seq(ToSet(overrides))
  BY OverridesAre
<1> HIDE DEF access, overrides, Differs
<1>3. peer \in Overridden(access) <=> its # {}
  BY <1>1 DEF Overridden
<1>4. ASSUME NEW row \in Rows, Differs(row), Resolve(RefOf(row)) = {peer}
      PROVE  peer \in Overridden(access)
  BY <1>2, <1>3, <1>4
<1>5. ASSUME peer \in Overridden(access)
      PROVE  \E row \in Rows : /\ Differs(row) /\ Resolve(RefOf(row)) = {peer}
                               /\ OverrideOf(access, peer) = VerbsOf(model.selection[row])
  <2> DEFINE Latest(i) == /\ peer \in Resolve(overrides[i].ref)
                        /\ \A j \in DOMAIN overrides : peer \in Resolve(overrides[j].ref) => j <= i
             last == CHOOSE i \in DOMAIN overrides : Latest(i)
  <2>1. OverrideOf(access, peer) = overrides[last].verbs
    BY <1>1 DEF OverrideOf
  <2>2. \E i \in DOMAIN overrides : Latest(i)
    <3>1. its \subseteq DOMAIN overrides /\ its # {}
      BY <1>3, <1>5
    <3>2. \E i \in its : \A j \in its : j <= i
      <4> HIDE DEF its
      <4> QED
        BY <3>1, <1>2, GreatestPlace
    <3> QED
      BY <3>2
  <2>3. last \in DOMAIN overrides /\ Latest(last)
    <3> HIDE DEF Latest
    <3> QED
      BY <2>2
  <2> HIDE DEF last
  <2>4. PICK row \in Rows : /\ Differs(row)
                            /\ overrides[last].ref = RefOf(row)
                            /\ overrides[last].verbs = VerbsOf(model.selection[row])
    BY <1>2, <2>3
  <2>5. Resolve(RefOf(row)) = {peer}
    BY <2>3, <2>4, RowReferences
  <2> QED
    BY <2>1, <2>4, <2>5
<1> QED
  BY <1>4, <1>5 DEF access, Differs

LEMMA GrantsAreShown ==
  ASSUME NEW model, IsModel(model), NEW peer \in Listed, NEW verb
  PROVE  LET access == Projected(model, NoAccess)
             Shows(row) == row \in DOMAIN model.selection /\ verb \in VerbsOf(model.selection[row])
         IN /\ Evaluate(access, verb, peer) => \E row \in RowsOf(peer) : Shows(row)
            /\ \A row : RowsOf(peer) = {row} /\ Shows(row) => Evaluate(access, verb, peer)
<1> DEFINE access == Projected(model, NoAccess)
           members == DOMAIN model.selection
           Differs(row) == row \in members /\ model.selection[row] # DefaultBits
           Shows(row) == row \in members /\ verb \in VerbsOf(model.selection[row])
<1>1. access.verbs = VerbsOf(DefaultBits) /\ access.denied = {}
  BY ProjectedIs
<1>2. /\ \A row \in members : Resolve(RefOf(row)) = {peer} => peer \in ScopeOf(access)
      /\ peer \in ScopeOf(access) => \E row \in members : Resolve(RefOf(row)) = {peer}
  BY ScopeIs
<1>3. /\ \A row \in Rows : Differs(row) /\ Resolve(RefOf(row)) = {peer} => peer \in Overridden(access)
      /\ peer \in Overridden(access) =>
           \E row \in Rows : /\ Differs(row) /\ Resolve(RefOf(row)) = {peer}
                             /\ OverrideOf(access, peer) = VerbsOf(model.selection[row])
  BY OverriddenIs
<1>4. members \subseteq Rows
  BY DEF IsModel, IsSelection
<1>5. \A row : row \in RowsOf(peer) <=> row \in Rows /\ Resolve(RefOf(row)) = {peer}
  BY DEF RowsOf
<1> HIDE DEF access, members
<1>6. ASSUME Evaluate(access, verb, peer) PROVE \E row \in RowsOf(peer) : Shows(row)
  <2>1. /\ peer \in ScopeOf(access)
        /\ IF peer \in Overridden(access) THEN verb \in OverrideOf(access, peer)
           ELSE verb \in VerbsOf(DefaultBits)
    BY <1>6, <1>1 DEF Evaluate, Permits
  <2>2. CASE peer \in Overridden(access)
    BY <2>1, <2>2, <1>3, <1>5
  <2>3. CASE peer \notin Overridden(access)
    <3>1. PICK row \in members : Resolve(RefOf(row)) = {peer}
      BY <2>1, <1>2
    <3>2. row \in Rows /\ ~Differs(row)
      BY <3>1, <2>3, <1>3, <1>4
    <3>3. Shows(row)
      BY <3>1, <3>2, <2>1, <2>3
    <3> QED
      BY <3>1, <3>2, <3>3, <1>5
  <2> QED
    BY <2>2, <2>3
<1>7. ASSUME NEW row, RowsOf(peer) = {row}, Shows(row) PROVE Evaluate(access, verb, peer)
  <2>1. row \in Rows /\ Resolve(RefOf(row)) = {peer} /\ row \in members
    BY <1>5, <1>7
  <2>2. peer \in ScopeOf(access)
    BY <2>1, <1>2
  <2>3. CASE peer \in Overridden(access)
    <3>1. PICK other \in Rows : /\ Resolve(RefOf(other)) = {peer}
                                /\ OverrideOf(access, peer) = VerbsOf(model.selection[other])
      BY <2>3, <1>3
    <3>2. other = row
      BY <3>1, <1>5, <1>7
    <3>3. verb \in OverrideOf(access, peer)
      BY <3>1, <3>2, <1>7
    <3> QED
      BY <3>3, <2>2, <2>3, <1>1 DEF Evaluate, Permits
  <2>4. CASE peer \notin Overridden(access)
    <3>1. ~Differs(row)
      BY <2>1, <2>4, <1>3
    <3>2. verb \in VerbsOf(DefaultBits)
      BY <3>1, <2>1, <1>7
    <3> QED
      BY <3>2, <2>2, <2>4, <1>1 DEF Evaluate, Permits
  <2> QED
    BY <2>3, <2>4
<1> QED
  BY <1>6, <1>7 DEF access, members

(* Opened again, the picker has the rows and bits that were saved. *)
LEMMA HydratedBack ==
  ASSUME NEW model, IsModel(model)
  PROVE  Hydrated(Projected(model, NoAccess)) =
           [selection |-> model.selection, marks |-> Units(model)]
<1> DEFINE access == Projected(model, NoAccess)
           members == DOMAIN model.selection
           overrides == Overrides(model)
           Differs(row) == row \in members /\ model.selection[row] # DefaultBits
           folders == access.folders \cap DOMAIN Folders
           rows == (UNION {RowsFor(ref) : ref \in access.chats})
                     \cup (UNION {Explicit(f) : f \in folders})
<1>1. /\ access.chats = ChatRefs(model) /\ access.folders = Units(model)
      /\ access.overrides = overrides /\ access.verbs = VerbsOf(DefaultBits)
  BY ProjectedIs
<1>2. Hydrated(access) = [selection |-> [row \in rows |-> HydratedBits(access, row)], marks |-> folders]
  BY DEF Hydrated
<1>3. /\ members \subseteq Rows
      /\ \A row \in members : model.selection[row] \in SUBSET Axes
      /\ model.selection = [row \in members |-> model.selection[row]]
  BY DEF IsModel, IsSelection
<1> HIDE DEF access, members
<1>4. folders = Units(model)
  BY <1>1 DEF Units
<1>5. rows = members
  <2>1. ASSUME NEW row \in rows PROVE row \in members
    <3>1. CASE \E ref \in ChatRefs(model) : row \in RowsFor(ref)
      <4>1. PICK other \in members : row \in RowsFor(RefOf(other))
        BY <3>1, ChatsAre DEF members
      <4>2. row = other
        BY <4>1, <1>3, RowReferences
      <4> QED
        BY <4>2
    <3>2. CASE \E f \in Units(model) : row \in Explicit(f)
      BY <3>2, ChatsAre DEF members
    <3> QED
      BY <3>1, <3>2, <1>1, <1>4
  <2>2. ASSUME NEW row \in members PROVE row \in rows
    <3>1. row \in RowsFor(RefOf(row))
      BY <1>3, RowReferences
    <3>2. RefOf(row) \in ChatRefs(model) \/ \E f \in Units(model) : row \in Explicit(f)
      BY ChatsAre DEF members
    <3> QED
      BY <3>1, <3>2, <1>1, <1>4
  <2> HIDE DEF rows
  <2> QED
    BY <2>1, <2>2
<1> HIDE DEF rows, folders
<1>6. ASSUME NEW row \in members PROVE HydratedBits(access, row) = model.selection[row]
  <2> HIDE DEF overrides, Differs
  <2>1. /\ \A i \in DOMAIN overrides :
             \E other \in Rows : /\ Differs(other)
                                 /\ overrides[i].ref = RefOf(other)
                                 /\ overrides[i].verbs = VerbsOf(model.selection[other])
        /\ \A other \in Rows : Differs(other) => \E i \in DOMAIN overrides : overrides[i].ref = RefOf(other)
        /\ overrides \in Seq(ToSet(overrides))
    BY OverridesAre DEF overrides, Differs, members
  <2> DEFINE its == {i \in DOMAIN overrides : row \in RowsFor(overrides[i].ref)}
             last == CHOOSE i \in its : \A j \in its : j <= i
  <2>2. HydratedBits(access, row) =
          BitsOf(IF its = {} THEN VerbsOf(DefaultBits) ELSE overrides[last].verbs)
    BY <1>1 DEF HydratedBits
  <2>3. \A i \in its : overrides[i].verbs = VerbsOf(model.selection[row])
    <3> SUFFICES ASSUME NEW i \in its PROVE overrides[i].verbs = VerbsOf(model.selection[row])
      OBVIOUS
    <3>1. PICK other \in Rows : /\ overrides[i].ref = RefOf(other)
                                /\ overrides[i].verbs = VerbsOf(model.selection[other])
      BY <2>1
    <3>2. other = row
      BY <3>1, RowReferences
    <3> QED
      BY <3>1, <3>2
  <2>4. its = {} => model.selection[row] = DefaultBits
    <3>1. row \in Rows /\ row \in RowsFor(RefOf(row))
      BY <1>3, RowReferences
    <3> QED
      BY <3>1, <2>1 DEF Differs
  <2>5. its # {} => last \in its
    <3> SUFFICES ASSUME its # {} PROVE last \in its
      OBVIOUS
    <3>1. its \subseteq DOMAIN overrides
      OBVIOUS
    <3> HIDE DEF its
    <3>2. \E i \in its : \A j \in its : j <= i
      BY <3>1, <2>1, GreatestPlace
    <3> QED
      BY <3>2
  <2> HIDE DEF its, last
  <2>6. BitsOf(VerbsOf(model.selection[row])) = model.selection[row]
    BY <1>3, BitsBack
  <2> QED
    BY <2>2, <2>3, <2>4, <2>5, <2>6
<1>7. [row \in rows |-> HydratedBits(access, row)] = model.selection
  BY <1>3, <1>5, <1>6
<1> QED
  BY <1>2, <1>4, <1>7 DEF access

(* What is saved is what the screen shows, whatever the selection. *)
LEMMA SavedIsShown == IsPick(pick) => SavedAccessIsAsShown
<1> SUFFICES ASSUME IsPick(pick) PROVE SavedAccessIsAsShown
  OBVIOUS
<1> DEFINE model == Model(pick)
           access == Projected(model, NoAccess)
<1>1. model.selection = pick.selection /\ model.marks = pick.marks
  BY DEF Model
<1> HIDE DEF model
<1>2. IsModel(model)
  BY <1>1 DEF IsPick, IsModel
<1>3. Hydrated(access) = [selection |-> pick.selection, marks |-> Units(model)]
  BY <1>1, <1>2, HydratedBack
<1>4. ASSUME NEW peer \in Listed
      PROVE  /\ GrantedVerbs(access, peer) \subseteq UNION {PickedVerbs(pick, row) : row \in RowsOf(peer)}
             /\ \A row \in RowsOf(peer) :
                  RowsOf(peer) = {row} => GrantedVerbs(access, peer) = PickedVerbs(pick, row)
  <2> HIDE DEF access
  <2>1. \A row, verb : verb \in PickedVerbs(pick, row) <=>
          row \in DOMAIN model.selection /\ verb \in VerbsOf(model.selection[row])
    BY <1>1 DEF PickedVerbs
  <2>2. \A verb : /\ Evaluate(access, verb, peer) => \E row \in RowsOf(peer) : verb \in PickedVerbs(pick, row)
                  /\ \A row : RowsOf(peer) = {row} /\ verb \in PickedVerbs(pick, row)
                                => Evaluate(access, verb, peer)
    BY <1>2, <2>1, GrantsAreShown DEF access
  <2>3. \A row : PickedVerbs(pick, row) \subseteq VerbsOf(Axes)
    BY <1>2, <2>1 DEF IsModel, IsSelection, VerbsOf
  <2>4. \A verb : verb \in GrantedVerbs(access, peer) <=>
                    verb \in VerbsOf(Axes) /\ Evaluate(access, verb, peer)
    BY DEF GrantedVerbs
  <2>5. GrantedVerbs(access, peer) \subseteq UNION {PickedVerbs(pick, row) : row \in RowsOf(peer)}
    BY <2>2, <2>4
  <2>6. ASSUME NEW row \in RowsOf(peer), RowsOf(peer) = {row}
        PROVE  GrantedVerbs(access, peer) = PickedVerbs(pick, row)
    <3>1. \A verb : verb \in GrantedVerbs(access, peer) <=> verb \in PickedVerbs(pick, row)
      BY <2>2, <2>3, <2>4, <2>6
    <3>2. GrantedVerbs(access, peer) = {v \in VerbsOf(Axes) : Evaluate(access, v, peer)}
      BY DEF GrantedVerbs
    <3> QED
      BY <3>1, <2>3, <3>2
  <2> QED
    BY <2>5, <2>6
<1> QED
  BY <1>3, <1>4 DEF SavedAccessIsAsShown, model

-----------------------------------------------------------------------------
(* The program around the picker.                                          *)

UiFields == {"screen", "context", "unlocked", "source", "draft", "next", "goal", "at", "name", "ref",
             "refs", "applied", "rekeyed", "saved", "output"}

(* A document with plaintext keys perhaps. *)
IsDraft(draft) ==
  draft \in Seq(ToSet(draft)) /\ \A i \in DOMAIN draft : IsEndpoint(draft[i])

IsPlain(draft) == \A i \in DOMAIN draft : draft[i].token = FALSE

Committing == ui.screen \in {"saving", "applying"}

(* In the editor of endpoints. *)
EditorOpen ==
  \/ ui.screen \in {"list", "hub", "key", "notice", "picking"}
  \/ Committing /\ ui.goal # "logout"

Known == accounts \cup scene.orphans

Sources == Pins \cup {Machine, NoSource}

(* Whatever the documents name is an account or was none at the start.     *)
WorldInv ==
  /\ file = Broken \/ (IsDocument(file) /\ Sessions(file) \subseteq Known)
  /\ IsDocument(enforced) /\ Sessions(enforced) \subseteq Known
  /\ secret \in Sources /\ opener \in Sources /\ (secret = NoSource <=> opener = NoSource)
  /\ accounts \subseteq Refs /\ (secret = NoSource => accounts = {})

(* A key in plaintext is in what was saved last.                           *)
DraftInv ==
  /\ EditorOpen \/ Committing \/ ui.screen = "logout" => IsDraft(ui.draft)
  /\ Committing => IsDraft(ui.next)
  /\ ui.screen = "applying" => ui.saved = Doc(ui.next)
  /\ ui.screen = "notice" => ui.saved = Doc(ui.draft)
  /\ (EditorOpen \/ Committing) /\ ui.screen # "applying" =>
       IsPlain(ui.draft) \/ ui.saved = Doc(ui.draft)
  /\ ui.screen = "logout" => IsPlain(ui.draft)

PlaceInv ==
  /\ ui.screen \in {"hub", "key", "notice"} => ui.at \in DOMAIN ui.draft
  /\ ui.screen = "picking" => ui.at \in {0} \cup DOMAIN ui.draft
  /\ Committing =>
       /\ ui.goal \in {"add", "edit", "key", "delete", "logout"}
       /\ ui.goal \in {"edit", "key"} => ui.at \in DOMAIN ui.draft \cap DOMAIN ui.next
       /\ ui.goal = "add" => Len(ui.next) \in DOMAIN ui.next

(* An account that is being logged out is in no document any more.         *)
SessionInv ==
  /\ EditorOpen \/ Committing \/ ui.screen = "logout" => Sessions(ui.draft) \subseteq Known
  /\ Committing => Sessions(ui.next) \subseteq Known
  /\ EditorOpen /\ ui.ref # NoRef => ui.ref \in accounts
  /\ ui.screen = "picking" /\ ui.at = 0 => ui.ref # NoRef
  /\ Committing /\ ui.goal = "logout" => ui.ref \notin Sessions(ui.next)
  /\ (ui.screen = "applying" /\ ui.goal = "logout") \/ ui.screen = "removing" =>
       file = Broken \/ ui.ref \notin Sessions(file)
  /\ ui.screen = "removing" => ui.ref \notin Sessions(enforced)

(* What is cached opens, unless a change of PIN failed or is being told.   *)
UnlockInv ==
  /\ secret = NoSource => ui.unlocked = NoSource /\ ui.source = NoSource
  /\ ui.screen \in {"menu", "security"} => accounts # {}
  /\ ui.screen = "menu" => ui.unlocked # NoSource
  /\ Hardened /\ opener = secret =>
       /\ ui.unlocked \in {NoSource, secret} \/ (ui.screen = "security" /\ ui.rekeyed)
       /\ ui.source \in {NoSource, secret}
  /\ ~EditorOpen => ui.source = NoSource

GovernInv ==
  /\ EditorOpen \/ ui.applied # "yes"
  /\ EditorOpen /\ ui.screen # "applying" /\ ui.applied = "yes" => enforced = Doc(ui.draft)

SetupInv ==
  /\ DOMAIN ui = UiFields /\ IsPick(pick)
  /\ WorldInv /\ DraftInv /\ PlaceInv /\ SessionInv /\ UnlockInv /\ GovernInv

-----------------------------------------------------------------------------
(* What the edits make of a draft.                                         *)

LEMMA OwnRange ==
  ASSUME NEW S, NEW s \in Seq(S)
  PROVE  s \in Seq(ToSet(s)) /\ ToSet(s) \subseteq S
<1>1. DOMAIN s = 1..Len(s) /\ Len(s) \in Nat /\ s = [i \in 1..Len(s) |-> s[i]]
  OBVIOUS
<1>2. \A i \in 1..Len(s) : s[i] \in ToSet(s) /\ s[i] \in S
  BY <1>1 DEF ToSet
<1> DEFINE T == ToSet(s)
<1> HIDE DEF T
<1>3. \A i \in 1..Len(s) : s[i] \in T
  BY <1>2 DEF T
<1>4. s \in Seq(T)
  BY <1>1, <1>3
<1>5. ToSet(s) \subseteq S
  BY <1>2, <1>1 DEF ToSet
<1> QED
  BY <1>4, <1>5 DEF T

(* A sequence of endpoints of a draft is a draft. *)
LEMMA PartIsDraft ==
  ASSUME NEW d, IsDraft(d), NEW e \in Seq(ToSet(d))
  PROVE  /\ IsDraft(e) /\ Sessions(e) \subseteq Sessions(d)
         /\ IsDocument(d) => IsDocument(e)
         /\ \A i \in DOMAIN e : \E j \in DOMAIN d : e[i] = d[j]
<1>1. e \in Seq(ToSet(e))
  BY OwnRange
<1>2. \A i \in DOMAIN e : e[i] \in ToSet(d)
  OBVIOUS
<1>3. \A i \in DOMAIN e : \E j \in DOMAIN d : e[i] = d[j]
  BY <1>2 DEF ToSet
<1> QED
  BY <1>1, <1>3 DEF IsDraft, Sessions, IsDocument

LEMMA DocumentsAre ==
  ASSUME NEW d
  PROVE  IsDocument(d) <=> IsDraft(d) /\ IsPlain(d)
  BY DEF IsDocument, IsDraft, IsPlain

LEMMA DocIs ==
  ASSUME NEW d, IsDraft(d)
  PROVE  /\ IsDocument(Doc(d)) /\ Sessions(Doc(d)) = Sessions(d)
         /\ DOMAIN Doc(d) = DOMAIN d
         /\ \A i \in DOMAIN d : Doc(d)[i].key = d[i].key
<1> DEFINE e == Doc(d)
<1>1. DOMAIN d = 1..Len(d) /\ Len(d) \in Nat
  BY DEF IsDraft
<1>2. e = [i \in 1..Len(d) |-> [d[i] EXCEPT !.token = FALSE]]
  BY <1>1 DEF Doc
<1>3. ASSUME NEW i \in DOMAIN d
      PROVE  /\ IsEndpoint(e[i]) /\ e[i].token = FALSE
             /\ e[i].session = d[i].session /\ e[i].key = d[i].key
  <2>1. e[i] = [d[i] EXCEPT !.token = FALSE]
    BY <1>1, <1>2
  <2>2. IsEndpoint(d[i])
    BY DEF IsDraft
  <2> HIDE DEF e
  <2> QED
    BY <2>1, <2>2 DEF IsEndpoint
<1>4. DOMAIN e = DOMAIN d
  BY <1>1, <1>2
<1>5. e \in Seq(ToSet(e))
  <2> DEFINE T == ToSet(e)
  <2>1. \A i \in 1..Len(d) : e[i] \in T
    BY <1>4, <1>1 DEF ToSet
  <2>2. e = [i \in 1..Len(d) |-> e[i]]
    BY <1>2
  <2> HIDE DEF e, T
  <2>3. e \in Seq(T)
    BY <2>1, <2>2, <1>1
  <2> QED
    BY <2>3 DEF T
<1>6. Sessions(e) = Sessions(d)
  <2> HIDE DEF e
  <2> QED
    BY <1>3, <1>4 DEF Sessions
<1> HIDE DEF e
<1>7. IsDocument(e)
  BY <1>3, <1>4, <1>5 DEF IsDocument
<1> QED
  BY <1>3, <1>4, <1>6, <1>7 DEF e

LEMMA AppendIs ==
  ASSUME NEW d, IsDraft(d), NEW x, IsEndpoint(x)
  PROVE  /\ IsDraft(Append(d, x)) /\ Len(Append(d, x)) \in DOMAIN Append(d, x)
         /\ Sessions(Append(d, x)) \subseteq Sessions(d) \cup {x.session}
<1> DEFINE e == Append(d, x)
           T == ToSet(d) \cup {x}
<1>1. d \in Seq(T) /\ Len(d) \in Nat /\ DOMAIN d = 1..Len(d)
  <2>1. d \in Seq(ToSet(d))
    BY DEF IsDraft
  <2> DEFINE R == ToSet(d)
  <2> HIDE DEF R
  <2>2. d \in Seq(R)
    BY <2>1 DEF R
  <2>3. d \in Seq(R \cup {x}) /\ Len(d) \in Nat /\ DOMAIN d = 1..Len(d)
    BY <2>2
  <2> QED
    BY <2>3 DEF R
<1>2. e \in Seq(T)
  <2> HIDE DEF T
  <2>1. x \in T
    BY DEF T
  <2> QED
    BY <1>1, <2>1
<1>3. /\ DOMAIN e = 1..(Len(d) + 1) /\ Len(e) = Len(d) + 1
      /\ e[Len(d) + 1] = x /\ \A i \in DOMAIN d : e[i] = d[i]
  <2> HIDE DEF T
  <2> QED
    BY <1>1
<1> HIDE DEF e, T
<1>4. \A i \in DOMAIN e : i \in DOMAIN d \/ i = Len(d) + 1
  BY <1>1, <1>3
<1>5. \A i \in DOMAIN e : IsEndpoint(e[i])
  BY <1>3, <1>4 DEF IsDraft
<1>6. e \in Seq(ToSet(e))
  BY <1>2, OwnRange
<1>7. Sessions(e) \subseteq Sessions(d) \cup {x.session}
  BY <1>3, <1>4 DEF Sessions
<1>8. Len(e) \in DOMAIN e
  BY <1>1, <1>3
<1> QED
  BY <1>5, <1>6, <1>7, <1>8 DEF IsDraft, e

LEMMA WithIs ==
  ASSUME NEW d, IsDraft(d), NEW n \in DOMAIN d, NEW x, IsEndpoint(x)
  PROVE  LET e == [d EXCEPT ![n] = x]
         IN IsDraft(e) /\ DOMAIN e = DOMAIN d /\ Sessions(e) \subseteq Sessions(d) \cup {x.session}
<1> DEFINE e == [d EXCEPT ![n] = x]
           T == ToSet(d) \cup {x}
<1>1. DOMAIN d = 1..Len(d) /\ Len(d) \in Nat
  BY DEF IsDraft
<1>2. DOMAIN e = 1..Len(d) /\ \A i \in DOMAIN d : e[i] = IF i = n THEN x ELSE d[i]
  BY <1>1
<1>3. e = [i \in 1..Len(d) |-> e[i]]
  BY <1>1
<1> HIDE DEF e
<1>4. \A i \in 1..Len(d) : e[i] \in T
  BY <1>1, <1>2 DEF ToSet
<1> HIDE DEF T
<1>5. e \in Seq(T)
  BY <1>1, <1>3, <1>4
<1>6. e \in Seq(ToSet(e))
  BY <1>5, OwnRange
<1>7. \A i \in DOMAIN e : IsEndpoint(e[i])
  BY <1>1, <1>2 DEF IsDraft
<1>8. Sessions(e) \subseteq Sessions(d) \cup {x.session}
  BY <1>1, <1>2 DEF Sessions
<1> QED
  BY <1>1, <1>2, <1>6, <1>7, <1>8 DEF IsDraft, e

LEMMA RemoveIs ==
  ASSUME NEW d, IsDraft(d), NEW n \in DOMAIN d
  PROVE  RemoveAt(d, n) \in Seq(ToSet(d))
<1> DEFINE T == ToSet(d)
<1>1. d \in Seq(T)
  BY DEF IsDraft
<1> HIDE DEF T
<1>2. n \in 1..Len(d) /\ Len(d) \in Nat
  BY <1>1
<1>3. SubSeq(d, 1, n - 1) \in Seq(T) /\ SubSeq(d, n + 1, Len(d)) \in Seq(T)
  <2>1. \A i \in 1..(n - 1) : d[i] \in T
    BY <1>1, <1>2
  <2>2. \A i \in (n + 1)..Len(d) : d[i] \in T
    BY <1>1, <1>2
  <2> QED
    BY <1>1, <1>2, <2>1, <2>2, SubSeqProperties
<1> QED
  BY <1>3 DEF RemoveAt, T

LEMMA AmongDraft ==
  ASSUME NEW d, IsDraft(d), NEW set
  PROVE  Among(d, set) \in Seq(ToSet(d)) /\ ToSet(Among(d, set)) \subseteq set
<1>1. d \in Seq(ToSet(d))
  BY DEF IsDraft
<1> QED
  BY <1>1, AmongIs

-----------------------------------------------------------------------------
(* The initial state, and what holds outside the editor.                   *)

Outside == {"home", "welcome", "locked", "menu", "done", "login", "security"}

LEMMA OutsideStep ==
  ASSUME DOMAIN ui' = UiFields, IsPick(pick'), WorldInv',
         ui'.screen \in Outside, ui'.source = NoSource, ui'.applied # "yes",
         secret' = NoSource => ui'.unlocked = NoSource,
         ui'.screen \in {"menu", "security"} => accounts' # {},
         ui'.screen = "menu" => ui'.unlocked # NoSource,
         (Hardened' /\ opener' = secret') =>
           ui'.unlocked \in {NoSource, secret'} \/ (ui'.screen = "security" /\ ui'.rekeyed)
  PROVE  SetupInv'
<1>1. ~EditorOpen' /\ ~Committing'
  BY DEF EditorOpen, Committing, Outside
<1>2. ui'.screen \notin {"applying", "notice", "logout", "hub", "key", "picking", "removing", "saving"}
  BY DEF Outside
<1>3. DraftInv' /\ PlaceInv' /\ SessionInv' /\ GovernInv'
  BY <1>1, <1>2 DEF DraftInv, PlaceInv, SessionInv, GovernInv
<1>4. UnlockInv'
  BY <1>1 DEF UnlockInv
<1> QED
  BY <1>3, <1>4 DEF SetupInv

LEMMA FreshFields ==
  /\ DOMAIN Fresh = UiFields
  /\ Fresh.screen = "home" /\ Fresh.unlocked = NoSource /\ Fresh.source = NoSource
  /\ Fresh.applied = "none"
  BY DEF Fresh, UiFields

LEMMA SetupBegins == SetupInit => SetupInv
<1> SUFFICES ASSUME SetupInit PROVE SetupInv
  OBVIOUS
<1>1. PICK s \in Scenes :
        /\ file = s.file /\ enforced = s.enforced
        /\ accounts = s.accounts /\ secret = s.secret /\ opener = s.secret
        /\ scene = [configured |-> s.configured, orphans |-> Orphans(s)]
  BY DEF SetupInit
<1>2. ui = Fresh /\ pick = Closed
  BY DEF SetupInit, PickerInit
<1>3. Known = s.accounts \cup Orphans(s)
  BY <1>1 DEF Known
<1>4. WorldInv
  BY <1>1, <1>3, SetupAssumption DEF WorldInv, Orphans, Sources
<1>5. IsPick(pick)
  BY <1>2, ClosedTyped
<1>6. ~EditorOpen /\ ~Committing /\ ui.screen = "home" /\ DOMAIN ui = UiFields
  BY <1>2, FreshFields DEF EditorOpen, Committing
<1>7. DraftInv /\ PlaceInv /\ SessionInv /\ GovernInv
  BY <1>2, <1>6, FreshFields DEF DraftInv, PlaceInv, SessionInv, GovernInv
<1>8. UnlockInv
  BY <1>2, <1>6, FreshFields DEF UnlockInv
<1> QED
  BY <1>4, <1>5, <1>6, <1>7, <1>8 DEF SetupInv

(* Steps that leave the world alone. *)
LEMMA SameWorld ==
  ASSUME WorldInv, UNCHANGED <<file, enforced, accounts, secret, opener, scene>>
  PROVE  WorldInv' /\ Known' = Known /\ Hardened' = Hardened
  BY DEF WorldInv, Known, Hardened

LEMMA MenuSteps ==
  ASSUME SetupInv, Home \/ Unlock \/ Quit \/ SwitchAccount \/ ConfigureFails \/ StartLogin
                     \/ CancelLogin \/ DeclineLogout \/ OpenSecurity \/ LeaveSecurity
  PROVE  SetupInv'
<1>1. UNCHANGED <<world, pick>>
  BY DEF Home, Unlock, Quit, SwitchAccount, ConfigureFails, StartLogin, CancelLogin, DeclineLogout,
         OpenSecurity, LeaveSecurity
<1>2. /\ file' = file /\ enforced' = enforced /\ accounts' = accounts /\ secret' = secret
      /\ opener' = opener /\ scene' = scene /\ pick' = pick
  BY <1>1 DEF world
<1>3. DOMAIN ui = UiFields /\ IsPick(pick) /\ WorldInv /\ UnlockInv /\ GovernInv
  BY DEF SetupInv
<1>4. IsPick(pick') /\ WorldInv' /\ Hardened' = Hardened
  BY <1>2, <1>3, SameWorld
<1>5. ASSUME ui.screen \in Outside \cup {"logout"}
      PROVE  ui.source = NoSource /\ ui.applied # "yes"
  BY <1>3, <1>5 DEF UnlockInv, GovernInv, EditorOpen, Committing, Outside
<1>6. CASE Home
  <2> DEFINE source == IF ui.unlocked # NoSource THEN ui.unlocked
                       ELSE IF ~Hardened \/ (scene.configured \in Pins /\ Accepts(scene.configured))
                         THEN scene.configured
                       ELSE NoSource
  <2>1. ui.screen = "home"
        /\ ui' = IF accounts = {}
                   THEN [ui EXCEPT !.screen = "welcome", !.unlocked = NoSource]
                   ELSE [ui EXCEPT !.screen = IF source = NoSource THEN "locked" ELSE "menu",
                                   !.unlocked = source]
    BY <1>6 DEF Home
  <2>2. Hardened /\ opener = secret => source \in {NoSource, secret}
    <3>1. Hardened /\ opener = secret => ui.unlocked \in {NoSource, secret}
      BY <1>3, <2>1 DEF UnlockInv
    <3>2. Hardened /\ opener = secret /\ scene.configured \in Pins /\ Accepts(scene.configured)
            => scene.configured = secret
      BY SetupAssumption DEF Accepts, Hardened
    <3> QED
      BY <3>1, <3>2
  <2>3. secret = NoSource => accounts = {}
    BY <1>3 DEF WorldInv
  <2> HIDE DEF source
  <2>4. /\ DOMAIN ui' = UiFields /\ ui'.source = ui.source /\ ui'.applied = ui.applied
        /\ ui'.screen \in {"welcome", "locked", "menu"}
        /\ accounts = {} => ui'.screen = "welcome" /\ ui'.unlocked = NoSource
        /\ accounts # {} => ui'.unlocked = source /\ (ui'.screen = "menu" => source # NoSource)
    BY <1>3, <2>1 DEF UiFields
  <2> QED
    BY <1>2, <1>4, <1>5, <2>1, <2>2, <2>3, <2>4, OutsideStep DEF Outside
<1>7. CASE Unlock
  <2>1. /\ ui.screen = "locked"
        /\ ui' = [ui EXCEPT !.screen = "home", !.unlocked = IF CanUnlock THEN opener ELSE @]
    BY <1>7 DEF Unlock
  <2>2. /\ DOMAIN ui' = UiFields /\ ui'.source = ui.source /\ ui'.applied = ui.applied
        /\ ui'.screen = "home" /\ ui'.unlocked \in {ui.unlocked, opener}
    BY <1>3, <2>1 DEF UiFields
  <2>3. /\ secret = NoSource => opener = NoSource /\ ui.unlocked = NoSource
        /\ Hardened /\ opener = secret => ui.unlocked \in {NoSource, secret}
    BY <1>3, <2>1 DEF UnlockInv, WorldInv
  <2> QED
    BY <1>2, <1>4, <1>5, <2>1, <2>2, <2>3, OutsideStep DEF Outside
<1>8. CASE Quit \/ StartLogin \/ CancelLogin \/ ConfigureFails \/ DeclineLogout
  <2>1. /\ ui.screen \in {"welcome", "locked", "menu", "login", "logout"}
        /\ ui' = [ui EXCEPT !.screen = "done"] \/ ui' = [ui EXCEPT !.screen = "login"]
           \/ ui' = [ui EXCEPT !.screen = "home"]
    BY <1>8 DEF Quit, StartLogin, CancelLogin, ConfigureFails, DeclineLogout, Show
  <2>2. /\ DOMAIN ui' = UiFields /\ ui'.source = ui.source /\ ui'.applied = ui.applied
        /\ ui'.screen \in {"done", "login", "home"} /\ ui'.unlocked = ui.unlocked
    BY <1>3, <2>1 DEF UiFields
  <2>3. /\ secret = NoSource => ui.unlocked = NoSource
        /\ Hardened /\ opener = secret => ui.unlocked \in {NoSource, secret}
    BY <1>3, <2>1 DEF UnlockInv
  <2> QED
    BY <1>2, <1>4, <1>5, <2>1, <2>2, <2>3, OutsideStep DEF Outside
<1>9. CASE SwitchAccount
  <2>1. ui.screen = "menu" /\ \E r : ui' = [ui EXCEPT !.screen = "home", !.context = r]
    BY <1>9 DEF SwitchAccount
  <2>2. /\ DOMAIN ui' = UiFields /\ ui'.source = ui.source /\ ui'.applied = ui.applied
        /\ ui'.screen = "home" /\ ui'.unlocked = ui.unlocked
    BY <1>3, <2>1 DEF UiFields
  <2>3. /\ secret = NoSource => ui.unlocked = NoSource
        /\ Hardened /\ opener = secret => ui.unlocked \in {NoSource, secret}
    BY <1>3, <2>1 DEF UnlockInv
  <2> QED
    BY <1>2, <1>4, <1>5, <2>1, <2>2, <2>3, OutsideStep DEF Outside
<1>10. CASE OpenSecurity
  <2>1. ui.screen = "menu" /\ ui' = [ui EXCEPT !.screen = "security", !.rekeyed = FALSE]
    BY <1>10 DEF OpenSecurity
  <2>2. /\ DOMAIN ui' = UiFields /\ ui'.source = ui.source /\ ui'.applied = ui.applied
        /\ ui'.screen = "security" /\ ui'.unlocked = ui.unlocked
    BY <1>3, <2>1 DEF UiFields
  <2>3. /\ secret = NoSource => ui.unlocked = NoSource
        /\ Hardened /\ opener = secret => ui.unlocked \in {NoSource, secret}
        /\ accounts # {}
    BY <1>3, <2>1 DEF UnlockInv
  <2> QED
    BY <1>2, <1>4, <1>5, <2>1, <2>2, <2>3, OutsideStep DEF Outside
<1>11. CASE LeaveSecurity
  <2>1. /\ ui.screen = "security"
        /\ ui' = [ui EXCEPT !.screen = "home", !.unlocked = IF ui.rekeyed THEN NoSource ELSE @]
    BY <1>11 DEF LeaveSecurity
  <2>2. /\ DOMAIN ui' = UiFields /\ ui'.source = ui.source /\ ui'.applied = ui.applied
        /\ ui'.screen = "home" /\ ui'.unlocked = IF ui.rekeyed THEN NoSource ELSE ui.unlocked
    BY <1>3, <2>1 DEF UiFields
  <2>3. /\ secret = NoSource => ui.unlocked = NoSource
        /\ Hardened /\ opener = secret => ui.unlocked \in {NoSource, secret} \/ ui.rekeyed
    BY <1>3, <2>1 DEF UnlockInv
  <2> QED
    BY <1>2, <1>4, <1>5, <2>1, <2>2, <2>3, OutsideStep DEF Outside
<1> QED
  BY <1>6, <1>7, <1>8, <1>9, <1>10, <1>11

-----------------------------------------------------------------------------
(* Steps of the world.                                                     *)

LEMMA SecuritySteps ==
  ASSUME SetupInv, ChangePin \/ ApplyFile
  PROVE  SetupInv'
<1>1. DOMAIN ui = UiFields /\ IsPick(pick) /\ WorldInv /\ UnlockInv /\ GovernInv
  BY DEF SetupInv
<1>2. ui.screen = "security" /\ pick' = pick /\ scene' = scene /\ accounts' = accounts /\ file' = file
  BY DEF ChangePin, ApplyFile
<1>3. ui.source = NoSource /\ ui.applied # "yes" /\ accounts # {} /\ secret # NoSource
  BY <1>1, <1>2 DEF UnlockInv, GovernInv, EditorOpen, Committing, WorldInv
<1>4. Known' = Known
  BY <1>2 DEF Known
<1>5. CASE ChangePin
  <2>1. NewSecrets \subseteq Pins \cup {Machine} /\ secret \notin NewSecrets /\ enforced' = enforced
    BY <1>5 DEF NewSecrets, ChangePin
  <2>2. CASE /\ secret' \in NewSecrets /\ opener' = secret'
             /\ ui' = [ui EXCEPT !.rekeyed = TRUE]
    <3>1. WorldInv'
      BY <1>1, <1>2, <1>4, <2>1, <2>2, SetupAssumption DEF WorldInv, Sources
    <3>2. /\ DOMAIN ui' = UiFields /\ ui'.source = ui.source /\ ui'.applied = ui.applied
          /\ ui'.screen = "security" /\ ui'.rekeyed
      BY <1>1, <1>2, <2>2 DEF UiFields
    <3>3. secret' # NoSource
      BY <2>1, <2>2, SetupAssumption
    <3> QED
      BY <1>1, <1>2, <1>3, <3>1, <3>2, <3>3, OutsideStep DEF Outside
  <2>3. CASE opener' \in NewSecrets /\ secret' = secret /\ ui' = ui
    <3>1. WorldInv'
      BY <1>1, <1>2, <1>3, <1>4, <2>1, <2>3, SetupAssumption DEF WorldInv, Sources
    <3>2. opener' # secret'
      BY <2>1, <2>3
    <3> QED
      BY <1>1, <1>2, <1>3, <2>3, <3>1, <3>2, OutsideStep DEF Outside
  <2> QED
    BY <1>5, <2>2, <2>3 DEF ChangePin
<1>6. CASE ApplyFile
  <2>1. /\ file # Broken /\ enforced' \in {enforced, file}
        /\ secret' = secret /\ opener' = opener /\ ui' = ui
    BY <1>6 DEF ApplyFile
  <2>2. WorldInv'
    BY <1>1, <1>2, <1>4, <2>1 DEF WorldInv
  <2>3. Hardened' = Hardened
    BY <2>1 DEF Hardened
  <2>4. Hardened /\ opener = secret => ui.unlocked \in {NoSource, secret} \/ ui.rekeyed
    BY <1>1 DEF UnlockInv
  <2> QED
    BY <1>1, <1>2, <1>3, <2>1, <2>2, <2>3, <2>4, OutsideStep DEF Outside
<1> QED
  BY <1>5, <1>6

LEMMA HandEditStep ==
  ASSUME SetupInv, HandEdit
  PROVE  SetupInv'
<1>1. /\ file # Broken /\ enforced' = enforced /\ accounts' = accounts /\ secret' = secret
      /\ opener' = opener /\ scene' = scene /\ ui' = ui /\ pick' = pick
      /\ file' = Broken \/ \E i \in DOMAIN file : file' = RemoveAt(file, i)
  BY DEF HandEdit
<1>2. Known' = Known /\ Hardened' = Hardened /\ EditorOpen' = EditorOpen /\ Committing' = Committing
  BY <1>1 DEF Known, Hardened, EditorOpen, Committing
<1>3. WorldInv
  BY DEF SetupInv
<1>4. file' = Broken \/ (IsDocument(file') /\ Sessions(file') \subseteq Sessions(file))
  <2>1. IsDraft(file) /\ IsDocument(file)
    BY <1>1, <1>3, DocumentsAre DEF WorldInv
  <2>2. ASSUME NEW i \in DOMAIN file
        PROVE  IsDocument(RemoveAt(file, i)) /\ Sessions(RemoveAt(file, i)) \subseteq Sessions(file)
    <3>1. RemoveAt(file, i) \in Seq(ToSet(file))
      BY <2>1, RemoveIs
    <3> DEFINE e == RemoveAt(file, i)
    <3> HIDE DEF e
    <3>2. e \in Seq(ToSet(file))
      BY <3>1 DEF e
    <3>3. IsDocument(e) /\ Sessions(e) \subseteq Sessions(file)
      BY <2>1, <3>2, PartIsDraft
    <3> QED
      BY <3>3 DEF e
  <2> QED
    BY <1>1, <2>2
<1>5. WorldInv'
  BY <1>1, <1>2, <1>3, <1>4 DEF WorldInv
<1>6. DraftInv' /\ PlaceInv' /\ UnlockInv' /\ GovernInv'
  <2>1. DraftInv'
    BY <1>1, <1>2 DEF SetupInv, DraftInv
  <2>2. PlaceInv'
    BY <1>1, <1>2 DEF SetupInv, PlaceInv
  <2>3. UnlockInv'
    BY <1>1, <1>2 DEF SetupInv, UnlockInv
  <2>4. GovernInv'
    BY <1>1, <1>2 DEF SetupInv, GovernInv
  <2> QED
    BY <2>1, <2>2, <2>3, <2>4
<1>7. SessionInv'
  BY <1>1, <1>2, <1>4 DEF SetupInv, SessionInv
<1> QED
  BY <1>1, <1>5, <1>6, <1>7 DEF SetupInv

LEMMA LeavingSteps ==
  ASSUME SetupInv, Rerun \/ RemoveSession \/ LeaveEditor
  PROVE  SetupInv'
<1>1. DOMAIN ui = UiFields /\ IsPick(pick) /\ WorldInv /\ UnlockInv /\ GovernInv /\ SessionInv
  BY DEF SetupInv
<1>2. CASE Rerun
  <2>1. /\ ui' = Fresh /\ pick' = Closed
        /\ UNCHANGED <<file, enforced, accounts, secret, opener, scene>>
    BY <1>2 DEF Rerun, world
  <2>2. WorldInv'
    BY <1>1, <2>1, SameWorld
  <2> QED
    BY <2>1, <2>2, ClosedTyped, FreshFields, OutsideStep DEF Outside
<1>3. CASE RemoveSession
  <2>1. /\ ui.screen = "removing" /\ accounts' \in {accounts, accounts \ {ui.ref}}
        /\ ui' = [ui EXCEPT !.screen = "home"]
        /\ file' = file /\ enforced' = enforced /\ secret' = secret /\ opener' = opener
        /\ scene' = scene /\ pick' = pick
    BY <1>3 DEF RemoveSession, Show
  <2>2. /\ file = Broken \/ ui.ref \notin Sessions(file)
        /\ ui.ref \notin Sessions(enforced)
    BY <1>1, <2>1 DEF SessionInv
  <2>3. Known \ {ui.ref} \subseteq Known'
    BY <2>1 DEF Known
  <2>4. WorldInv'
    BY <1>1, <2>1, <2>2, <2>3 DEF WorldInv
  <2>5. /\ DOMAIN ui' = UiFields /\ ui'.source = ui.source /\ ui'.applied = ui.applied
        /\ ui'.screen = "home" /\ ui'.unlocked = ui.unlocked
    BY <1>1, <2>1 DEF UiFields
  <2>6. /\ ui.source = NoSource /\ ui.applied # "yes"
        /\ secret = NoSource => ui.unlocked = NoSource
        /\ Hardened /\ opener = secret => ui.unlocked \in {NoSource, secret}
    BY <1>1, <2>1 DEF UnlockInv, GovernInv, EditorOpen, Committing
  <2>7. Hardened' = Hardened
    BY <2>1 DEF Hardened
  <2> QED
    BY <1>1, <2>1, <2>4, <2>5, <2>6, <2>7, OutsideStep DEF Outside
<1>4. CASE LeaveEditor
  <2>1. /\ ui.screen = "list" /\ pick' = pick
        /\ UNCHANGED <<file, enforced, accounts, secret, opener, scene>>
        /\ \E unlocked \in {ui.source, ui.unlocked} : \E output :
             /\ ui' = [Fresh EXCEPT !.context = ui.context, !.saved = ui.saved,
                                    !.unlocked = unlocked, !.output = output]
    <3> DEFINE complete == ui.refs # {} /\ ui.draft # <<>> /\ ui.applied # "no"
               unlocked == IF complete /\ ui.source # NoSource THEN ui.source ELSE ui.unlocked
               output == IF complete THEN ClientConfig(ui.draft) ELSE ui.output
    <3>1. ui' = [Fresh EXCEPT !.context = ui.context, !.saved = ui.saved,
                              !.unlocked = unlocked, !.output = output]
      BY <1>4 DEF LeaveEditor
    <3>2. unlocked \in {ui.source, ui.unlocked}
      OBVIOUS
    <3> HIDE DEF unlocked, output
    <3> QED
      BY <1>4, <3>1, <3>2 DEF LeaveEditor, world
  <2>2. WorldInv' /\ Hardened' = Hardened
    BY <1>1, <2>1, SameWorld
  <2>3. /\ DOMAIN ui' = UiFields /\ ui'.source = NoSource /\ ui'.applied = "none"
        /\ ui'.screen = "home" /\ ui'.unlocked \in {ui.source, ui.unlocked}
    BY <2>1, FreshFields DEF UiFields
  <2>4. /\ secret = NoSource => ui.unlocked = NoSource /\ ui.source = NoSource
        /\ Hardened /\ opener = secret => /\ ui.unlocked \in {NoSource, secret}
                                          /\ ui.source \in {NoSource, secret}
    BY <1>1, <2>1 DEF UnlockInv
  <2> QED
    BY <1>1, <2>1, <2>2, <2>3, <2>4, OutsideStep DEF Outside
<1> QED
  BY <1>2, <1>3, <1>4


-----------------------------------------------------------------------------
(* Into the editor, and to the question of a logout.                       *)

LEMMA EnteringStep ==
  ASSUME DOMAIN ui' = UiFields, IsPick(pick'), WorldInv',
         ui'.screen \in {"list", "logout"}, file' # Broken, ui'.draft = file', ui'.applied # "yes",
         ui'.screen = "list" => ui'.ref \in accounts' \cup {NoRef},
         ui'.screen = "logout" => ui'.source = NoSource,
         secret' = NoSource => ui'.unlocked = NoSource /\ ui'.source = NoSource,
         Hardened' /\ opener' = secret' =>
           ui'.unlocked \in {NoSource, secret'} /\ ui'.source \in {NoSource, secret'}
  PROVE  SetupInv'
<1>1. /\ EditorOpen' <=> ui'.screen = "list"
      /\ ~Committing'
  BY DEF EditorOpen, Committing
<1>2. IsDocument(file') /\ Sessions(file') \subseteq Known'
  BY DEF WorldInv
<1>3. IsDraft(ui'.draft) /\ IsPlain(ui'.draft) /\ Sessions(ui'.draft) \subseteq Known'
  BY <1>2, DocumentsAre
<1>4. DraftInv'
  BY <1>1, <1>3 DEF DraftInv
<1>5. PlaceInv'
  BY <1>1 DEF PlaceInv
<1>6. SessionInv'
  BY <1>1, <1>3 DEF SessionInv
<1>7. UnlockInv'
  BY <1>1 DEF UnlockInv
<1>8. GovernInv'
  BY <1>1 DEF GovernInv
<1> QED
  BY <1>4, <1>5, <1>6, <1>7, <1>8 DEF SetupInv

LEMMA InEditorFields ==
  ASSUME DOMAIN ui = UiFields, NEW ref, NEW refs, NEW goal, NEW source
  PROVE  LET e == InEditor(ref, refs, goal)
             f == [e EXCEPT !.source = source]
         IN /\ DOMAIN e = UiFields /\ e.screen = "list" /\ e.draft = file /\ e.ref = ref
            /\ e.applied = "none" /\ e.unlocked = ui.unlocked /\ e.source = ui.source
            /\ DOMAIN f = UiFields /\ f.screen = "list" /\ f.draft = file /\ f.ref = ref
            /\ f.applied = "none" /\ f.unlocked = ui.unlocked /\ f.source = source
  BY DEF InEditor, UiFields

LEMMA ActiveIs ==
  ASSUME accounts # {}
  PROVE  Active \in accounts
<1>1. \E r \in accounts : Main \in accounts => r = Main
  OBVIOUS
<1> QED
  BY <1>1 DEF Active

LEMMA EnteringSteps ==
  ASSUME SetupInv, RemoveOrphans \/ Configure \/ AskLogout
  PROVE  SetupInv'
<1>1. /\ file' = file /\ enforced' = enforced /\ accounts' = accounts /\ secret' = secret
      /\ opener' = opener /\ scene' = scene /\ pick' = pick
  BY DEF RemoveOrphans, Configure, AskLogout, world
<1>2. DOMAIN ui = UiFields /\ IsPick(pick) /\ WorldInv /\ UnlockInv /\ GovernInv
  BY DEF SetupInv
<1>3. IsPick(pick') /\ WorldInv' /\ Hardened' = Hardened
  BY <1>1, <1>2, SameWorld
<1>4. ui.screen \in {"welcome", "menu"}
  BY DEF RemoveOrphans, Configure, AskLogout
<1>5. /\ ui.source = NoSource /\ ui.applied # "yes"
      /\ secret = NoSource => ui.unlocked = NoSource
      /\ Hardened /\ opener = secret => ui.unlocked \in {NoSource, secret}
      /\ ui.screen = "menu" => accounts # {}
  BY <1>2, <1>4 DEF UnlockInv, GovernInv, EditorOpen, Committing
<1>6. ui.screen = "menu" => Active \in accounts
  BY <1>5, ActiveIs
<1>7. CASE ui' = [ui EXCEPT !.screen = "home"]
  <2>1. /\ DOMAIN ui' = UiFields /\ ui'.source = ui.source /\ ui'.applied = ui.applied
        /\ ui'.screen = "home" /\ ui'.unlocked = ui.unlocked
    BY <1>2, <1>7 DEF UiFields
  <2> QED
    BY <1>1, <1>3, <1>5, <2>1, OutsideStep DEF Outside
<1>8. ASSUME NEW ref \in accounts \cup {NoRef}, NEW refs, NEW goal, file # Broken,
             ui' = InEditor(ref, refs, goal)
      PROVE  SetupInv'
  <2>1. /\ DOMAIN ui' = UiFields /\ ui'.screen = "list" /\ ui'.draft = file /\ ui'.ref = ref
        /\ ui'.applied = "none" /\ ui'.unlocked = ui.unlocked /\ ui'.source = ui.source
    BY <1>2, <1>8, InEditorFields
  <2> QED
    BY <1>1, <1>3, <1>5, <1>8, <2>1, EnteringStep
<1>9. CASE RemoveOrphans
  BY <1>7, <1>8, <1>9 DEF RemoveOrphans, EditorOrHome
<1>10. CASE Configure
  <2>1. ui.screen = "menu"
    BY <1>10 DEF Configure
  <2> QED
    BY <1>6, <1>7, <1>8, <1>10, <2>1 DEF Configure, EditorOrHome
<1>11. CASE AskLogout
  <2>1. file # Broken /\ ui' = [ui EXCEPT !.screen = "logout", !.draft = file, !.ref = Active]
    BY <1>11 DEF AskLogout
  <2>2. /\ DOMAIN ui' = UiFields /\ ui'.screen = "logout" /\ ui'.draft = file
        /\ ui'.applied = ui.applied /\ ui'.unlocked = ui.unlocked /\ ui'.source = ui.source
    BY <1>2, <2>1 DEF UiFields
  <2> QED
    BY <1>1, <1>3, <1>5, <2>1, <2>2, EnteringStep
<1> QED
  BY <1>9, <1>10, <1>11

LEMMA LoginStep ==
  ASSUME SetupInv, CommitLogin
  PROVE  SetupInv'
<1>1. /\ file' = file /\ enforced' = enforced /\ scene' = scene /\ pick' = pick
      /\ ui.screen = "login"
  BY DEF CommitLogin
<1>2. DOMAIN ui = UiFields /\ IsPick(pick) /\ WorldInv /\ UnlockInv /\ GovernInv
  BY DEF SetupInv
<1>3. /\ ui.source = NoSource /\ ui.applied # "yes"
      /\ secret = NoSource => ui.unlocked = NoSource
      /\ Hardened /\ opener = secret => ui.unlocked \in {NoSource, secret}
  BY <1>1, <1>2 DEF UnlockInv, GovernInv, EditorOpen, Committing
<1>4. PICK r \in Refs, source \in Decisions :
        \/ /\ Sealed(r, source)
           /\ ui' = IF file = Broken THEN [ui EXCEPT !.screen = "home"]
                    ELSE [InEditor(r, accounts', "login") EXCEPT !.source = source]
        \/ /\ Sealed(r, source) \/ UNCHANGED <<accounts, secret, opener>>
           /\ ui' = [ui EXCEPT !.screen = "home"]
  BY DEF CommitLogin, Show
<1>5. CASE UNCHANGED <<accounts, secret, opener>> /\ ui' = [ui EXCEPT !.screen = "home"]
  <2>1. WorldInv' /\ Hardened' = Hardened
    BY <1>1, <1>2, <1>5, SameWorld
  <2>2. /\ DOMAIN ui' = UiFields /\ ui'.source = ui.source /\ ui'.applied = ui.applied
        /\ ui'.screen = "home" /\ ui'.unlocked = ui.unlocked
    BY <1>2, <1>5 DEF UiFields
  <2> QED
    BY <1>1, <1>2, <1>3, <1>5, <2>1, <2>2, OutsideStep DEF Outside
<1>6. ASSUME Sealed(r, source)
      PROVE  /\ WorldInv' /\ secret' # NoSource /\ accounts' = accounts \cup {r}
             /\ Hardened' /\ opener' = secret' =>
                  ui.unlocked \in {NoSource, secret'} /\ source = secret'
  <2>1. /\ accounts' = accounts \cup {r}
        /\ secret' = IF secret = NoSource THEN source ELSE secret
        /\ opener' = IF opener = NoSource THEN source ELSE opener
    BY <1>6 DEF Sealed
  <2>2. secret \in Sources /\ opener \in Sources /\ (secret = NoSource <=> opener = NoSource)
    BY <1>2 DEF WorldInv
  <2>3. source \in Pins \cup {Machine} /\ source # NoSource
    BY <2>2, SetupAssumption DEF Decisions, Hardened, Sources
  <2>4. Known \subseteq Known'
    BY <1>1, <2>1 DEF Known
  <2>5. secret' \in Sources /\ opener' \in Sources /\ secret' # NoSource /\ opener' # NoSource
    BY <2>1, <2>2, <2>3 DEF Sources
  <2>6. WorldInv'
    BY <1>1, <1>2, <2>1, <2>4, <2>5 DEF WorldInv
  <2>7. Hardened' /\ opener' = secret' =>
          ui.unlocked \in {NoSource, secret'} /\ source = secret'
    <3>1. CASE secret = NoSource
      BY <1>3, <2>1, <3>1
    <3>2. CASE secret # NoSource
      BY <1>3, <2>1, <2>2, <3>2 DEF Hardened, Decisions
    <3> QED
      BY <3>1, <3>2
  <2> QED
    BY <2>1, <2>5, <2>6, <2>7
<1>7. CASE Sealed(r, source) /\ ui' = [ui EXCEPT !.screen = "home"]
  <2>1. /\ DOMAIN ui' = UiFields /\ ui'.source = ui.source /\ ui'.applied = ui.applied
        /\ ui'.screen = "home" /\ ui'.unlocked = ui.unlocked
    BY <1>2, <1>7 DEF UiFields
  <2> QED
    BY <1>1, <1>2, <1>3, <1>6, <1>7, <2>1, OutsideStep DEF Outside
<1>8. CASE /\ Sealed(r, source) /\ file # Broken
           /\ ui' = [InEditor(r, accounts', "login") EXCEPT !.source = source]
  <2>1. /\ DOMAIN ui' = UiFields /\ ui'.screen = "list" /\ ui'.draft = file /\ ui'.ref = r
        /\ ui'.applied = "none" /\ ui'.unlocked = ui.unlocked /\ ui'.source = source
    BY <1>2, <1>8, InEditorFields
  <2> QED
    BY <1>1, <1>2, <1>6, <1>8, <2>1, EnteringStep
<1> QED
  BY <1>4, <1>5, <1>7, <1>8

-----------------------------------------------------------------------------
(* Within the editor: the draft, the session and the credentials stay.     *)

EditorScreens == {"list", "hub", "key", "notice", "picking"}

LEMMA EditorStays ==
  ASSUME SetupInv, EditorOpen, ui.screen # "applying",
         DOMAIN ui' = UiFields, IsPick(pick'), WorldInv',
         UNCHANGED <<enforced, accounts, secret, opener, scene>>,
         ui'.screen \in EditorScreens,
         ui'.draft = ui.draft, ui'.saved = ui.saved, ui'.ref = ui.ref, ui'.applied = ui.applied,
         ui'.unlocked = ui.unlocked, ui'.source = ui.source,
         ui'.screen = "notice" => ui.saved = Doc(ui.draft),
         ui'.screen \in {"hub", "key", "notice"} => ui'.at \in DOMAIN ui.draft,
         ui'.screen = "picking" =>
           ui'.at \in {0} \cup DOMAIN ui.draft /\ (ui'.at = 0 => ui.ref # NoRef)
  PROVE  SetupInv'
<1>1. EditorOpen' /\ ~Committing' /\ ui'.screen \notin {"applying", "logout", "removing", "menu", "security"}
  BY DEF EditorOpen, Committing, EditorScreens
<1>2. Known' = Known /\ Hardened' = Hardened /\ accounts' = accounts
      /\ secret' = secret /\ opener' = opener /\ enforced' = enforced
  BY DEF Known, Hardened
<1>3. DraftInv'
  BY <1>1 DEF SetupInv, DraftInv
<1>4. PlaceInv'
  BY <1>1 DEF PlaceInv
<1>5. SessionInv'
  BY <1>1, <1>2 DEF SetupInv, SessionInv
<1>6. UnlockInv'
  BY <1>1, <1>2 DEF SetupInv, UnlockInv, EditorOpen, Committing
<1>7. GovernInv'
  BY <1>1, <1>2 DEF SetupInv, GovernInv
<1> QED
  BY <1>3, <1>4, <1>5, <1>6, <1>7 DEF SetupInv

LEMMA EditorSteps ==
  ASSUME SetupInv, SelectEndpoint \/ ShowKey \/ CloseNotice \/ Back
  PROVE  SetupInv'
<1>1. UNCHANGED <<file, enforced, accounts, secret, opener, scene>> /\ pick' = pick
  BY DEF SelectEndpoint, ShowKey, CloseNotice, Back, world
<1>2. /\ DOMAIN ui = UiFields /\ IsPick(pick) /\ WorldInv /\ PlaceInv /\ DraftInv
  BY DEF SetupInv
<1>3. IsPick(pick') /\ WorldInv'
  BY <1>1, <1>2, SameWorld
<1>4. ui.screen \in {"list", "hub", "key", "notice"}
  BY DEF SelectEndpoint, ShowKey, CloseNotice, Back
<1>5. /\ EditorOpen /\ ui.screen # "applying"
      /\ IsDraft(ui.draft) /\ (IsPlain(ui.draft) \/ ui.saved = Doc(ui.draft))
      /\ ui.screen # "list" => ui.at \in DOMAIN ui.draft
  BY <1>2, <1>4 DEF EditorOpen, DraftInv, PlaceInv
<1>6. CASE SelectEndpoint
  <2>1. PICK i \in DOMAIN ui.draft : ui' = [ui EXCEPT !.screen = "hub", !.at = i]
    BY <1>6 DEF SelectEndpoint
  <2>2. /\ DOMAIN ui' = UiFields /\ ui'.screen = "hub" /\ ui'.at = i
        /\ ui'.draft = ui.draft /\ ui'.saved = ui.saved /\ ui'.ref = ui.ref
        /\ ui'.applied = ui.applied /\ ui'.unlocked = ui.unlocked /\ ui'.source = ui.source
    BY <1>2, <2>1 DEF UiFields
  <2> QED
    BY <1>1, <1>3, <1>5, <2>2, EditorStays DEF EditorScreens
<1>7. ASSUME NEW screen, NEW goal, screen \in EditorScreens \ {"picking"},
             \/ ui' = [ui EXCEPT !.screen = screen]
             \/ ui' = [ui EXCEPT !.screen = screen, !.goal = goal],
             screen = "notice" => ui.saved = Doc(ui.draft),
             screen # "list" => ui.screen # "list"
      PROVE  SetupInv'
  <2>1. /\ DOMAIN ui' = UiFields /\ ui'.screen = screen /\ ui'.at = ui.at
        /\ ui'.draft = ui.draft /\ ui'.saved = ui.saved /\ ui'.ref = ui.ref
        /\ ui'.applied = ui.applied /\ ui'.unlocked = ui.unlocked /\ ui'.source = ui.source
    BY <1>2, <1>7 DEF UiFields
  <2> QED
    BY <1>1, <1>3, <1>5, <1>7, <2>1, EditorStays DEF EditorScreens
<1>8. CASE ShowKey
  <2> DEFINE screen == IF ui.draft[ui.at].token THEN "notice" ELSE "key"
  <2>1. ui.screen = "hub" /\ ui' = [ui EXCEPT !.screen = screen, !.goal = "key"]
    BY <1>8 DEF ShowKey
  <2>2. screen = "notice" => ui.saved = Doc(ui.draft)
    BY <1>5, <2>1 DEF IsPlain
  <2>3. screen \in EditorScreens \ {"picking"}
    BY DEF EditorScreens
  <2> HIDE DEF screen
  <2> QED
    BY <1>7, <2>1, <2>2, <2>3
<1>9. CASE CloseNotice
  <2> DEFINE screen == IF ui.goal = "add" THEN "list" ELSE "key"
  <2>1. ui.screen = "notice" /\ ui' = [ui EXCEPT !.screen = screen]
    BY <1>9 DEF CloseNotice, Show
  <2>2. screen \in EditorScreens \ {"picking"} /\ screen # "notice"
    BY DEF EditorScreens
  <2> HIDE DEF screen
  <2> QED
    BY <1>7, <2>1, <2>2
<1>10. CASE Back
  <2> DEFINE screen == IF ui.screen = "hub" THEN "list" ELSE "hub"
  <2>1. ui.screen \in {"hub", "key"} /\ ui' = [ui EXCEPT !.screen = screen]
    BY <1>10 DEF Back, Show
  <2>2. screen \in EditorScreens \ {"picking"} /\ screen # "notice"
    BY DEF EditorScreens
  <2> HIDE DEF screen
  <2> QED
    BY <1>7, <2>1, <2>2
<1> QED
  BY <1>6, <1>8, <1>9, <1>10

LEMMA PickingSteps ==
  ASSUME SetupInv, AddEndpoint \/ EditAccess \/ PressKey \/ EndPicking
  PROVE  SetupInv'
<1>1. UNCHANGED <<file, enforced, accounts, secret, opener, scene>>
  BY DEF AddEndpoint, EditAccess, PressKey, EndPicking, world
<1>2. /\ DOMAIN ui = UiFields /\ IsPick(pick) /\ WorldInv /\ PlaceInv /\ DraftInv /\ SessionInv
  BY DEF SetupInv
<1>3. WorldInv'
  BY <1>1, <1>2, SameWorld
<1>4. ui.screen \in {"list", "hub", "picking"}
  BY DEF AddEndpoint, EditAccess, PressKey, EndPicking
<1>5. /\ EditorOpen /\ ui.screen # "applying" /\ IsDraft(ui.draft)
  BY <1>2, <1>4 DEF EditorOpen, DraftInv
<1>6. CASE AddEndpoint
  <2>1. ui.ref # NoRef /\ pick' = Opened(NoAccess)
        /\ \E n : ui' = [ui EXCEPT !.screen = "picking", !.at = 0, !.name = n]
    BY <1>6 DEF AddEndpoint, OpenPicker
  <2>2. IsAccess(NoAccess)
    BY DEF IsAccess, NoAccess
  <2>3. IsPick(pick')
    BY <2>1, <2>2, OpenedTyped
  <2>4. /\ DOMAIN ui' = UiFields /\ ui'.screen = "picking" /\ ui'.at = 0
        /\ ui'.draft = ui.draft /\ ui'.saved = ui.saved /\ ui'.ref = ui.ref
        /\ ui'.applied = ui.applied /\ ui'.unlocked = ui.unlocked /\ ui'.source = ui.source
    BY <1>2, <2>1 DEF UiFields
  <2> QED
    BY <1>1, <1>3, <1>5, <2>1, <2>3, <2>4, EditorStays DEF EditorScreens
<1>7. CASE EditAccess
  <2>1. ui.screen = "hub" /\ pick' = Opened(ui.draft[ui.at].access)
        /\ ui' = [ui EXCEPT !.screen = "picking"]
    BY <1>7 DEF EditAccess, OpenPicker, Show
  <2>2. ui.at \in DOMAIN ui.draft /\ 0 \notin DOMAIN ui.draft
    <3>1. ui.draft \in Seq(ToSet(ui.draft))
      BY <1>5 DEF IsDraft
    <3> DEFINE T == ToSet(ui.draft)
    <3> HIDE DEF T
    <3>2. ui.draft \in Seq(T)
      BY <3>1 DEF T
    <3>3. 0 \notin DOMAIN ui.draft
      BY <3>2
    <3> QED
      BY <1>2, <2>1, <3>3 DEF PlaceInv
  <2>3. IsAccess(ui.draft[ui.at].access)
    BY <1>5, <2>2 DEF IsDraft, IsEndpoint
  <2>4. IsPick(pick')
    BY <2>1, <2>3, OpenedTyped
  <2>5. /\ DOMAIN ui' = UiFields /\ ui'.screen = "picking" /\ ui'.at = ui.at
        /\ ui'.draft = ui.draft /\ ui'.saved = ui.saved /\ ui'.ref = ui.ref
        /\ ui'.applied = ui.applied /\ ui'.unlocked = ui.unlocked /\ ui'.source = ui.source
    BY <1>2, <2>1 DEF UiFields
  <2> QED
    BY <1>1, <1>3, <1>5, <2>2, <2>4, <2>5, EditorStays DEF EditorScreens
<1>8. CASE PressKey \/ EndPicking
  <2>1. ui' = ui /\ ui.screen = "picking" /\ (Press \/ Save \/ Leave \/ Review)
    BY <1>8 DEF PressKey, EndPicking
  <2>2. IsPick(pick')
    BY <1>2, <2>1, PressTyped
  <2>3. ui.at \in {0} \cup DOMAIN ui.draft /\ (ui.at = 0 => ui.ref # NoRef)
    BY <1>2, <2>1 DEF PlaceInv, SessionInv
  <2> QED
    BY <1>1, <1>2, <1>3, <1>5, <2>1, <2>2, <2>3, EditorStays DEF EditorScreens
<1> QED
  BY <1>6, <1>7, <1>8

-----------------------------------------------------------------------------
(* Commits.                                                                *)

LEMMA CommitStep ==
  ASSUME SetupInv, ui.screen \in EditorScreens \cup {"logout"},
         DOMAIN ui' = UiFields, IsPick(pick'), ui'.screen = "saving",
         UNCHANGED <<file, enforced, accounts, secret, opener, scene>>,
         ui'.draft = ui.draft, ui'.saved = ui.saved, ui'.ref = ui.ref, ui'.applied = ui.applied,
         ui'.unlocked = ui.unlocked, ui'.source = ui.source, ui'.at = ui.at,
         IsDraft(ui'.next), Sessions(ui'.next) \subseteq Known,
         ui'.goal \in {"add", "edit", "key", "delete", "logout"},
         ui'.goal = "logout" <=> ui.screen = "logout",
         ui'.goal \in {"edit", "key"} => ui.at \in DOMAIN ui.draft \cap DOMAIN ui'.next,
         ui'.goal = "add" => Len(ui'.next) \in DOMAIN ui'.next,
         ui'.goal = "logout" => ui.ref \notin Sessions(ui'.next)
  PROVE  SetupInv'
<1>1. /\ Committing' /\ ui'.screen \notin {"applying", "notice", "logout", "removing", "menu", "security"}
      /\ EditorOpen' <=> ui.screen # "logout"
      /\ EditorOpen <=> ui.screen # "logout"
      /\ ui.screen # "applying"
  BY DEF EditorOpen, Committing, EditorScreens
<1>2. Known' = Known /\ Hardened' = Hardened /\ accounts' = accounts
      /\ secret' = secret /\ opener' = opener /\ enforced' = enforced /\ file' = file
  BY DEF Known, Hardened
<1>3. WorldInv'
  BY SameWorld DEF SetupInv
<1>4. DraftInv'
  BY <1>1 DEF SetupInv, DraftInv
<1>5. PlaceInv'
  BY <1>1 DEF PlaceInv, EditorScreens
<1>6. SessionInv'
  BY <1>1, <1>2 DEF SetupInv, SessionInv
<1>7. UnlockInv'
  BY <1>1, <1>2 DEF SetupInv, UnlockInv, EditorScreens
<1>8. GovernInv'
  BY <1>1, <1>2 DEF SetupInv, GovernInv
<1> QED
  BY <1>3, <1>4, <1>5, <1>6, <1>7, <1>8 DEF SetupInv

LEMMA CommitFields ==
  ASSUME DOMAIN ui = UiFields, NEW next, NEW goal, NEW output
  PROVE  LET c == Commit(next, goal)
             d == [c EXCEPT !.output = output]
         IN /\ DOMAIN c = UiFields /\ c.screen = "saving" /\ c.next = next /\ c.goal = goal
            /\ c.draft = ui.draft /\ c.saved = ui.saved /\ c.ref = ui.ref /\ c.at = ui.at
            /\ c.applied = ui.applied /\ c.unlocked = ui.unlocked /\ c.source = ui.source
            /\ DOMAIN d = UiFields /\ d.screen = "saving" /\ d.next = next /\ d.goal = goal
            /\ d.draft = ui.draft /\ d.saved = ui.saved /\ d.ref = ui.ref /\ d.at = ui.at
            /\ d.applied = ui.applied /\ d.unlocked = ui.unlocked /\ d.source = ui.source
  BY DEF Commit, UiFields

LEMMA ProjectedIsAccess ==
  ASSUME NEW model, IsModel(model), NEW access, IsAccess(access)
  PROVE  IsAccess(Projected(model, access))
<1> DEFINE chats == ChatRefs(model)
           overrides == Overrides(model)
           new == Projected(model, access)
<1>1. \A ref \in chats : IsReference(ref)
  <2>1. \A ref \in chats : \E row \in DOMAIN model.selection : ref = RefOf(row)
    BY ChatsAre
  <2>2. DOMAIN model.selection \subseteq Rows
    BY DEF IsModel, IsSelection
  <2> HIDE DEF chats
  <2> QED
    BY <2>1, <2>2, RowReferences
<1>2. \A i \in DOMAIN overrides : IsReference(overrides[i].ref)
  <2>1. \A i \in DOMAIN overrides : \E row \in Rows : overrides[i].ref = RefOf(row)
    BY OverridesAre
  <2> HIDE DEF overrides
  <2> QED
    BY <2>1, RowReferences
<1>3. new = [access EXCEPT !.chats = chats, !.folders = Units(model),
                           !.overrides = overrides, !.verbs = VerbsOf(DefaultBits)]
  BY DEF Projected
<1>4. DOMAIN access = DOMAIN NoAccess /\ {"chats", "overrides"} \subseteq DOMAIN access
  BY DEF IsAccess, NoAccess
<1> HIDE DEF chats, overrides, new
<1>5. DOMAIN new = DOMAIN NoAccess /\ new.chats = chats /\ new.overrides = overrides
  BY <1>3, <1>4
<1> QED
  BY <1>1, <1>2, <1>5 DEF IsAccess, new

LEMMA TakeStep ==
  ASSUME SetupInv, TakeAccess
  PROVE  SetupInv'
<1> DEFINE model == Model(pick)
           refused == pick.phase = "cancelled" \/ SelectsNothing(model)
           old == ui.draft[ui.at]
           new == [name |-> ui.name, session |-> ui.ref, access |-> Projected(model, NoAccess),
                   key |-> minted + 1, token |-> TRUE]
           edited == [old EXCEPT !.access = Projected(model, @)]
           taken == \E i \in DOMAIN ui.draft : ui.draft[i].name = ui.name
<1>1. /\ UNCHANGED <<file, enforced, accounts, secret, opener, scene>>
      /\ pick' = Closed /\ ui.screen = "picking"
  BY DEF TakeAccess, ClosePicker
<1>2. IF ui.at = 0
        THEN ui' = IF refused \/ taken THEN [ui EXCEPT !.screen = "list"]
                   ELSE Commit(Append(ui.draft, new), "add")
        ELSE ui' = IF refused THEN [ui EXCEPT !.screen = "hub"]
                   ELSE Commit(With(ui.at, edited), "edit")
  BY DEF TakeAccess
<1>3. /\ DOMAIN ui = UiFields /\ IsPick(pick) /\ WorldInv /\ PlaceInv /\ DraftInv /\ SessionInv
  BY DEF SetupInv
<1>4. WorldInv' /\ IsPick(pick')
  BY <1>1, <1>3, SameWorld, ClosedTyped
<1>5. /\ EditorOpen /\ ui.screen # "applying" /\ IsDraft(ui.draft)
      /\ ui.at \in {0} \cup DOMAIN ui.draft /\ (ui.at = 0 => ui.ref # NoRef)
      /\ Sessions(ui.draft) \subseteq Known /\ (ui.ref # NoRef => ui.ref \in accounts)
  BY <1>1, <1>3 DEF EditorOpen, DraftInv, PlaceInv, SessionInv
<1>6. IsModel(model)
  BY <1>3 DEF IsPick, IsModel, Model
<1>7. IsAccess(NoAccess)
  BY DEF IsAccess, NoAccess
<1>8. CASE \/ ui' = [ui EXCEPT !.screen = "list"]
           \/ ui.at # 0 /\ ui' = [ui EXCEPT !.screen = "hub"]
  <2>1. /\ DOMAIN ui' = UiFields /\ ui'.screen \in {"list", "hub"} /\ ui'.at = ui.at
        /\ ui'.screen = "hub" => ui.at \in DOMAIN ui.draft
        /\ ui'.draft = ui.draft /\ ui'.saved = ui.saved /\ ui'.ref = ui.ref
        /\ ui'.applied = ui.applied /\ ui'.unlocked = ui.unlocked /\ ui'.source = ui.source
    BY <1>3, <1>5, <1>8 DEF UiFields
  <2> QED
    BY <1>1, <1>4, <1>5, <2>1, EditorStays DEF EditorScreens
<1>9. CASE ui.at = 0 /\ ui' = Commit(Append(ui.draft, new), "add")
  <2>1. IsAccess(Projected(model, NoAccess))
    <3> HIDE DEF model
    <3> QED
      BY <1>6, <1>7, ProjectedIsAccess
  <2>2. IsEndpoint(new) /\ new.session = ui.ref
    <3> DEFINE access == Projected(model, NoAccess)
    <3>1. IsAccess(access)
      BY <2>1
    <3> HIDE DEF access
    <3> QED
      BY <3>1 DEF IsEndpoint, access
  <2> HIDE DEF new
  <2> DEFINE next == Append(ui.draft, new)
  <2>3. /\ IsDraft(next) /\ Len(next) \in DOMAIN next
        /\ Sessions(next) \subseteq Sessions(ui.draft) \cup {ui.ref}
    BY <1>5, <2>2, AppendIs
  <2>4. Sessions(next) \subseteq Known
    BY <1>5, <1>9, <2>3 DEF Known
  <2> HIDE DEF next
  <2>5. /\ DOMAIN ui' = UiFields /\ ui'.screen = "saving" /\ ui'.next = next /\ ui'.goal = "add"
        /\ ui'.draft = ui.draft /\ ui'.saved = ui.saved /\ ui'.ref = ui.ref /\ ui'.at = ui.at
        /\ ui'.applied = ui.applied /\ ui'.unlocked = ui.unlocked /\ ui'.source = ui.source
    <3>1. ui' = Commit(next, "add")
      BY <1>9 DEF next
    <3> QED
      BY <1>3, <3>1, CommitFields
  <2> QED
    BY <1>1, <1>4, <2>3, <2>4, <2>5, CommitStep DEF EditorScreens
<1>10. CASE ui.at # 0 /\ ui' = Commit(With(ui.at, edited), "edit")
  <2>1. ui.at \in DOMAIN ui.draft
    BY <1>5, <1>10
  <2>2. IsEndpoint(old) /\ old.session \in Sessions(ui.draft)
    BY <1>5, <2>1 DEF IsDraft, Sessions
  <2>3. IsEndpoint(edited) /\ edited.session = old.session
    <3> DEFINE access == Projected(model, old.access)
    <3>1. IsAccess(access)
      <4>1. IsAccess(old.access)
        BY <2>2 DEF IsEndpoint
      <4> HIDE DEF model, old
      <4> QED
        BY <4>1, <1>6, ProjectedIsAccess
    <3>2. edited = [old EXCEPT !.access = access]
      OBVIOUS
    <3> HIDE DEF access, old, edited
    <3> QED
      BY <2>2, <3>1, <3>2 DEF IsEndpoint
  <2> HIDE DEF edited, old
  <2> DEFINE next == [ui.draft EXCEPT ![ui.at] = edited]
  <2>4. /\ IsDraft(next) /\ DOMAIN next = DOMAIN ui.draft
        /\ Sessions(next) \subseteq Sessions(ui.draft) \cup {edited.session}
    BY <1>5, <2>1, <2>3, WithIs
  <2>5. Sessions(next) \subseteq Known
    BY <1>5, <2>2, <2>3, <2>4
  <2>6. ui' = Commit(next, "edit")
    BY <1>10 DEF With
  <2> HIDE DEF next
  <2>7. /\ DOMAIN ui' = UiFields /\ ui'.screen = "saving" /\ ui'.next = next /\ ui'.goal = "edit"
        /\ ui'.draft = ui.draft /\ ui'.saved = ui.saved /\ ui'.ref = ui.ref /\ ui'.at = ui.at
        /\ ui'.applied = ui.applied /\ ui'.unlocked = ui.unlocked /\ ui'.source = ui.source
    BY <1>3, <2>6, CommitFields
  <2> QED
    BY <1>1, <1>4, <2>1, <2>4, <2>5, <2>7, CommitStep DEF EditorScreens
<1> HIDE DEF refused, new, edited, taken
<1> QED
  BY <1>2, <1>8, <1>9, <1>10

(* An endpoint is replaced by one of the same session. *)
LEMMA ReplaceStep ==
  ASSUME SetupInv, ui.screen \in {"hub", "key"}, pick' = pick,
         UNCHANGED <<file, enforced, accounts, secret, opener, scene>>,
         NEW endpoint, IsEndpoint(endpoint), endpoint.session = ui.draft[ui.at].session,
         NEW goal \in {"edit", "key"}, ui' = Commit(With(ui.at, endpoint), goal)
  PROVE  SetupInv'
<1>1. /\ DOMAIN ui = UiFields /\ IsPick(pick) /\ WorldInv /\ PlaceInv /\ DraftInv /\ SessionInv
  BY DEF SetupInv
<1>2. IsDraft(ui.draft) /\ ui.at \in DOMAIN ui.draft /\ Sessions(ui.draft) \subseteq Known
  BY <1>1 DEF EditorOpen, DraftInv, PlaceInv, SessionInv
<1>3. endpoint.session \in Sessions(ui.draft)
  BY <1>2 DEF Sessions
<1> DEFINE next == [ui.draft EXCEPT ![ui.at] = endpoint]
<1>4. /\ IsDraft(next) /\ DOMAIN next = DOMAIN ui.draft
      /\ Sessions(next) \subseteq Sessions(ui.draft) \cup {endpoint.session}
  BY <1>2, WithIs
<1>5. ui' = Commit(next, goal)
  BY DEF With
<1> HIDE DEF next
<1>6. /\ DOMAIN ui' = UiFields /\ ui'.screen = "saving" /\ ui'.next = next /\ ui'.goal = goal
      /\ ui'.draft = ui.draft /\ ui'.saved = ui.saved /\ ui'.ref = ui.ref /\ ui'.at = ui.at
      /\ ui'.applied = ui.applied /\ ui'.unlocked = ui.unlocked /\ ui'.source = ui.source
  BY <1>1, <1>5, CommitFields
<1>7. IsPick(pick') /\ Sessions(next) \subseteq Known
  BY <1>1, <1>2, <1>3, <1>4
<1> QED
  BY <1>2, <1>4, <1>6, <1>7, CommitStep DEF EditorScreens

LEMMA ReplacingSteps ==
  ASSUME SetupInv, EditEndpoint \/ RegenerateKey
  PROVE  SetupInv'
<1> DEFINE old == ui.draft[ui.at]
<1>1. /\ UNCHANGED <<file, enforced, accounts, secret, opener, scene>> /\ pick' = pick
      /\ ui.screen \in {"hub", "key"}
  BY DEF EditEndpoint, RegenerateKey, world
<1>2. IsEndpoint(old)
  BY <1>1 DEF SetupInv, PlaceInv, DraftInv, EditorOpen, IsDraft
<1>3. CASE EditEndpoint
  <2>1. CASE \E n \in Names \ {old.name} : ui' = Commit(With(ui.at, [old EXCEPT !.name = n]), "edit")
    <3>1. PICK n : ui' = Commit(With(ui.at, [old EXCEPT !.name = n]), "edit")
      BY <2>1
    <3> DEFINE endpoint == [old EXCEPT !.name = n]
    <3>2. IsEndpoint(endpoint) /\ endpoint.session = old.session
      BY <1>2 DEF IsEndpoint
    <3>3. ui' = Commit(With(ui.at, endpoint), "edit")
      BY <3>1
    <3> HIDE DEF endpoint
    <3> QED
      BY <1>1, <3>2, <3>3, ReplaceStep
  <2>2. CASE ui' = Commit(With(ui.at, [old EXCEPT !.access.confirm = ~@]), "edit")
    <3> DEFINE endpoint == [old EXCEPT !.access.confirm = ~@]
               access == [old.access EXCEPT !.confirm = ~@]
    <3>1. IsAccess(access)
      BY <1>2 DEF IsEndpoint, IsAccess, NoAccess
    <3>2. endpoint = [old EXCEPT !.access = access]
      OBVIOUS
    <3>3. ui' = Commit(With(ui.at, endpoint), "edit")
      BY <2>2
    <3> HIDE DEF endpoint, access, old
    <3>4. IsEndpoint(endpoint) /\ endpoint.session = old.session
      BY <1>2, <3>1, <3>2 DEF IsEndpoint
    <3> QED
      BY <1>1, <3>3, <3>4, ReplaceStep DEF old
  <2> QED
    BY <1>3, <2>1, <2>2 DEF EditEndpoint
<1>4. CASE RegenerateKey
  <2> DEFINE endpoint == [old EXCEPT !.key = minted + 1, !.token = TRUE]
  <2>1. IsEndpoint(endpoint) /\ endpoint.session = old.session
    BY <1>2 DEF IsEndpoint
  <2>2. ui' = Commit(With(ui.at, endpoint), "key")
    BY <1>4 DEF RegenerateKey
  <2> HIDE DEF endpoint
  <2> QED
    BY <1>1, <2>1, <2>2, ReplaceStep
<1> QED
  BY <1>3, <1>4

LEMMA DroppingSteps ==
  ASSUME SetupInv, DeleteEndpoint \/ ConfirmLogout
  PROVE  SetupInv'
<1>1. /\ UNCHANGED <<file, enforced, accounts, secret, opener, scene>> /\ pick' = pick
      /\ ui.screen \in {"hub", "logout"}
  BY DEF DeleteEndpoint, ConfirmLogout, world
<1>2. /\ DOMAIN ui = UiFields /\ IsPick(pick') /\ PlaceInv /\ DraftInv /\ SessionInv
  BY <1>1 DEF SetupInv
<1>3. /\ IsDraft(ui.draft) /\ Sessions(ui.draft) \subseteq Known
      /\ ui.screen = "hub" => ui.at \in DOMAIN ui.draft
  BY <1>1, <1>2 DEF DraftInv, SessionInv, PlaceInv, EditorOpen
<1>4. CASE DeleteEndpoint
  <2> DEFINE next == RemoveAt(ui.draft, ui.at)
  <2>1. ui.screen = "hub" /\ ui' = Commit(next, "delete")
    BY <1>4 DEF DeleteEndpoint
  <2>2. next \in Seq(ToSet(ui.draft))
    BY <1>3, <2>1, RemoveIs
  <2> HIDE DEF next
  <2>3. IsDraft(next) /\ Sessions(next) \subseteq Sessions(ui.draft)
    BY <1>3, <2>2, PartIsDraft
  <2>4. /\ DOMAIN ui' = UiFields /\ ui'.screen = "saving" /\ ui'.next = next /\ ui'.goal = "delete"
        /\ ui'.draft = ui.draft /\ ui'.saved = ui.saved /\ ui'.ref = ui.ref /\ ui'.at = ui.at
        /\ ui'.applied = ui.applied /\ ui'.unlocked = ui.unlocked /\ ui'.source = ui.source
    BY <1>2, <2>1, CommitFields
  <2>5. Sessions(next) \subseteq Known
    BY <1>3, <2>3
  <2> QED
    BY <1>1, <1>2, <2>1, <2>3, <2>4, <2>5, CommitStep DEF EditorScreens
<1>5. CASE ConfirmLogout
  <2> DEFINE staying == {endpoint \in ToSet(ui.draft) : endpoint.session # ui.ref}
             next == Among(ui.draft, staying)
  <2>1. ui.screen = "logout" /\ ui' = [Commit(next, "logout") EXCEPT !.output = {}]
    BY <1>5 DEF ConfirmLogout
  <2>2. next \in Seq(ToSet(ui.draft)) /\ ToSet(next) \subseteq staying
    BY <1>3, AmongDraft
  <2>3. \A endpoint \in ToSet(next) : endpoint.session # ui.ref
    BY <2>2
  <2> HIDE DEF next, staying
  <2>4. IsDraft(next) /\ Sessions(next) \subseteq Sessions(ui.draft)
    BY <1>3, <2>2, PartIsDraft
  <2>5. ui.ref \notin Sessions(next)
    BY <2>3 DEF Sessions, ToSet
  <2>6. /\ DOMAIN ui' = UiFields /\ ui'.screen = "saving" /\ ui'.next = next /\ ui'.goal = "logout"
        /\ ui'.draft = ui.draft /\ ui'.saved = ui.saved /\ ui'.ref = ui.ref /\ ui'.at = ui.at
        /\ ui'.applied = ui.applied /\ ui'.unlocked = ui.unlocked /\ ui'.source = ui.source
    BY <1>2, <2>1, CommitFields
  <2>7. Sessions(next) \subseteq Known
    BY <1>3, <2>4
  <2> QED
    BY <1>1, <1>2, <2>1, <2>4, <2>5, <2>6, <2>7, CommitStep
<1> QED
  BY <1>4, <1>5

-----------------------------------------------------------------------------
(* Saving and applying.                                                    *)

(* A commit that is not saved: back to where it came from. *)
LEMMA RejectedStep ==
  ASSUME SetupInv, ui.screen = "saving", WorldInv', pick' = pick,
         UNCHANGED <<enforced, accounts, secret, opener, scene>>,
         ui' = [ui EXCEPT !.screen = AfterReject(ui.goal)]
  PROVE  SetupInv'
<1> DEFINE screen == AfterReject(ui.goal)
<1>1. /\ DOMAIN ui = UiFields /\ IsPick(pick') /\ UnlockInv /\ PlaceInv /\ GovernInv
      /\ Committing
  BY DEF SetupInv, Committing
<1>2. /\ ui.goal \in {"add", "edit", "key", "delete", "logout"}
      /\ ui.goal \in {"edit", "key"} => ui.at \in DOMAIN ui.draft
  BY <1>1 DEF PlaceInv
<1>3. /\ ui.goal \in {"add", "delete"} => screen = "list"
      /\ ui.goal = "edit" => screen = "hub"
      /\ ui.goal = "key" => screen = "key"
      /\ ui.goal = "logout" => screen = "home"
  BY DEF AfterReject
<1> HIDE DEF screen
<1>4. /\ DOMAIN ui' = UiFields /\ ui'.screen = screen /\ ui'.at = ui.at
      /\ ui'.draft = ui.draft /\ ui'.saved = ui.saved /\ ui'.ref = ui.ref
      /\ ui'.applied = ui.applied /\ ui'.unlocked = ui.unlocked /\ ui'.source = ui.source
  BY <1>1 DEF UiFields, screen
<1>5. CASE ui.goal = "logout"
  <2>1. /\ ui.source = NoSource /\ ui.applied # "yes"
        /\ secret = NoSource => ui.unlocked = NoSource
        /\ Hardened /\ opener = secret => ui.unlocked \in {NoSource, secret}
    BY <1>1, <1>5 DEF UnlockInv, GovernInv, EditorOpen, Committing
  <2>2. Hardened' = Hardened
    BY DEF Hardened
  <2> QED
    BY <1>1, <1>3, <1>4, <1>5, <2>1, <2>2, OutsideStep DEF Outside
<1>6. CASE ui.goal # "logout"
  <2>1. EditorOpen /\ screen \in {"list", "hub", "key"}
        /\ (screen \in {"hub", "key"} => ui.at \in DOMAIN ui.draft)
    BY <1>1, <1>2, <1>3, <1>6 DEF EditorOpen
  <2> QED
    BY <1>1, <1>4, <2>1, EditorStays DEF EditorScreens
<1> QED
  BY <1>5, <1>6

LEMMA PersistStep ==
  ASSUME SetupInv, Persist
  PROVE  SetupInv'
<1>1. /\ UNCHANGED <<enforced, accounts, secret, opener, scene>> /\ pick' = pick
      /\ ui.screen = "saving"
  BY DEF Persist
<1>2. /\ DOMAIN ui = UiFields /\ IsPick(pick') /\ WorldInv /\ UnlockInv /\ PlaceInv /\ DraftInv
      /\ SessionInv /\ GovernInv /\ Committing
  BY <1>1 DEF SetupInv, Committing
<1>3. Known' = Known /\ Hardened' = Hardened /\ accounts' = accounts
      /\ secret' = secret /\ opener' = opener /\ enforced' = enforced
  BY <1>1 DEF Known, Hardened
<1>4. IsDraft(ui.next) /\ Sessions(ui.next) \subseteq Known
  BY <1>2 DEF DraftInv, SessionInv
<1>5. IsDocument(Doc(ui.next)) /\ Sessions(Doc(ui.next)) = Sessions(ui.next)
  BY <1>4, DocIs
<1>6. ASSUME file' \in {file, Doc(ui.next)} PROVE WorldInv'
  BY <1>2, <1>3, <1>4, <1>5, <1>6 DEF WorldInv
<1>7. CASE file' = Doc(ui.next) /\ ui' = [ui EXCEPT !.screen = "applying", !.saved = Doc(ui.next)]
  <2>1. /\ DOMAIN ui' = UiFields /\ ui'.screen = "applying" /\ ui'.saved = Doc(ui.next)
        /\ ui'.at = ui.at /\ ui'.draft = ui.draft /\ ui'.next = ui.next /\ ui'.goal = ui.goal
        /\ ui'.ref = ui.ref /\ ui'.applied = ui.applied /\ ui'.unlocked = ui.unlocked
        /\ ui'.source = ui.source
    BY <1>2, <1>7 DEF UiFields
  <2>2. Committing' /\ (EditorOpen' <=> EditorOpen) /\ (EditorOpen <=> ui.goal # "logout")
    BY <1>1, <2>1 DEF Committing, EditorOpen
  <2>3. DraftInv'
    BY <1>2, <1>4, <2>1 DEF DraftInv
  <2>4. PlaceInv'
    BY <1>2, <2>1, <2>2 DEF PlaceInv
  <2>5. SessionInv'
    BY <1>2, <1>3, <1>5, <1>7, <2>1, <2>2 DEF SessionInv
  <2>6. UnlockInv'
    BY <1>1, <1>2, <1>3, <2>1, <2>2 DEF UnlockInv
  <2>7. GovernInv'
    BY <1>1, <1>2, <1>3, <2>1, <2>2 DEF GovernInv
  <2> QED
    BY <1>2, <1>6, <1>7, <2>1, <2>3, <2>4, <2>5, <2>6, <2>7 DEF SetupInv
<1>8. CASE file' \in {file, Doc(ui.next)} /\ ui' = [ui EXCEPT !.screen = AfterReject(ui.goal)]
  <2>1. WorldInv'
    BY <1>6, <1>8
  <2> QED
    BY <1>1, <1>8, <2>1, RejectedStep
<1> QED
  BY <1>7, <1>8 DEF Persist, Show

LEMMA ApplyStep ==
  ASSUME SetupInv, Apply
  PROVE  SetupInv'
<1>1. /\ UNCHANGED <<file, accounts, secret, opener, scene>> /\ pick' = pick
      /\ ui.screen = "applying"
  BY DEF Apply
<1>2. /\ DOMAIN ui = UiFields /\ IsPick(pick') /\ WorldInv /\ UnlockInv /\ PlaceInv /\ DraftInv
      /\ SessionInv /\ GovernInv /\ Committing
  BY <1>1 DEF SetupInv, Committing
<1>3. Known' = Known /\ Hardened' = Hardened /\ accounts' = accounts
      /\ secret' = secret /\ opener' = opener /\ file' = file
  BY <1>1 DEF Known, Hardened
<1>4. /\ IsDraft(ui.next) /\ Sessions(ui.next) \subseteq Known /\ Published = Doc(ui.next)
      /\ ui.saved = Doc(ui.next)
  BY <1>1, <1>2 DEF DraftInv, SessionInv, Published
<1>5. IsDocument(Doc(ui.next)) /\ Sessions(Doc(ui.next)) = Sessions(ui.next)
  BY <1>4, DocIs
<1>6. enforced' \in {enforced, Doc(ui.next)}
  BY <1>4 DEF Apply
<1>7. WorldInv'
  BY <1>2, <1>3, <1>4, <1>5, <1>6 DEF WorldInv
<1>8. /\ ui.goal \in {"add", "edit", "key", "delete", "logout"}
      /\ ui.goal \in {"edit", "key"} => ui.at \in DOMAIN ui.next
      /\ ui.goal = "add" => Len(ui.next) \in DOMAIN ui.next
  BY <1>2 DEF PlaceInv
<1>9. CASE ui.goal = "logout"
  <2>1. /\ ui.source = NoSource /\ ui.applied # "yes"
        /\ secret = NoSource => ui.unlocked = NoSource
        /\ Hardened /\ opener = secret => ui.unlocked \in {NoSource, secret}
    BY <1>1, <1>2, <1>9 DEF UnlockInv, GovernInv, EditorOpen, Committing
  <2>2. /\ file = Broken \/ ui.ref \notin Sessions(file)
        /\ ui.ref \notin Sessions(ui.next)
    BY <1>1, <1>2, <1>9 DEF SessionInv
  <2>3. CASE ui' = [ui EXCEPT !.screen = "home"]
    <3>1. /\ DOMAIN ui' = UiFields /\ ui'.source = ui.source /\ ui'.applied = ui.applied
          /\ ui'.screen = "home" /\ ui'.unlocked = ui.unlocked
      BY <1>2, <2>3 DEF UiFields
    <3> QED
      BY <1>2, <1>3, <1>7, <2>1, <3>1, OutsideStep DEF Outside
  <2>4. CASE enforced' = Doc(ui.next) /\ ui' = [ui EXCEPT !.screen = "removing"]
    <3>1. /\ DOMAIN ui' = UiFields /\ ui'.source = ui.source /\ ui'.applied = ui.applied
          /\ ui'.screen = "removing" /\ ui'.unlocked = ui.unlocked /\ ui'.ref = ui.ref
      BY <1>2, <2>4 DEF UiFields
    <3>2. ~EditorOpen' /\ ~Committing'
      BY <3>1 DEF EditorOpen, Committing
    <3>3. DraftInv' /\ PlaceInv' /\ GovernInv'
      BY <2>1, <3>1, <3>2 DEF DraftInv, PlaceInv, GovernInv
    <3>4. SessionInv'
      BY <1>3, <1>5, <2>2, <2>4, <3>1, <3>2 DEF SessionInv
    <3>5. UnlockInv'
      BY <1>3, <2>1, <3>1, <3>2 DEF UnlockInv
    <3> QED
      BY <1>2, <1>7, <3>1, <3>3, <3>4, <3>5 DEF SetupInv
  <2> QED
    BY <1>4, <1>9, <2>3, <2>4 DEF Apply
<1>10. CASE ui.goal # "logout"
  <2> DEFINE screen == AfterSave(ui.goal)
             at == IF ui.goal = "add" THEN Len(ui.next) ELSE ui.at
  <2>1. PICK applied \in {"yes", "no"} :
          /\ ui' = [ui EXCEPT !.screen = screen, !.draft = ui.next, !.applied = applied, !.at = at]
          /\ applied = "yes" => enforced' = Doc(ui.next)
    <3>1. CASE /\ enforced' = Published
               /\ ui' = [ui EXCEPT !.screen = AfterSave(ui.goal), !.draft = ui.next, !.applied = "yes",
                                   !.at = IF ui.goal = "add" THEN Len(ui.next) ELSE @]
      <4>1. ui' = [ui EXCEPT !.screen = screen, !.draft = ui.next, !.applied = "yes", !.at = at]
        BY <3>1
      <4> HIDE DEF screen, at
      <4> QED
        BY <1>4, <3>1, <4>1
    <3>2. CASE ui' = [ui EXCEPT !.screen = AfterSave(ui.goal), !.draft = ui.next, !.applied = "no",
                                !.at = IF ui.goal = "add" THEN Len(ui.next) ELSE @]
      <4>1. ui' = [ui EXCEPT !.screen = screen, !.draft = ui.next, !.applied = "no", !.at = at]
        BY <3>2
      <4> HIDE DEF screen, at
      <4> QED
        BY <4>1
    <3> QED
      BY <1>10, <3>1, <3>2 DEF Apply
  <2>2. /\ screen \in {"notice", "hub", "list"}
        /\ screen = "hub" => ui.goal = "edit"
        /\ screen = "notice" => ui.goal \in {"add", "key"}
    BY <1>8, <1>10 DEF AfterSave
  <2>3. screen \in {"hub", "notice"} => at \in DOMAIN ui.next
    BY <1>8, <2>2
  <2> HIDE DEF screen, at
  <2>4. /\ DOMAIN ui' = UiFields /\ ui'.screen = screen /\ ui'.at = at
        /\ ui'.draft = ui.next /\ ui'.saved = ui.saved /\ ui'.ref = ui.ref
        /\ ui'.applied = applied /\ ui'.unlocked = ui.unlocked /\ ui'.source = ui.source
    BY <1>2, <2>1 DEF UiFields
  <2>5. /\ EditorOpen' /\ EditorOpen /\ ~Committing'
        /\ ui'.screen \notin {"applying", "logout", "removing", "menu", "security", "picking", "key"}
    BY <1>2, <1>10, <2>2, <2>4 DEF EditorOpen, Committing
  <2>6. DraftInv'
    BY <1>4, <2>4, <2>5 DEF DraftInv
  <2>7. PlaceInv'
    BY <2>2, <2>3, <2>4, <2>5 DEF PlaceInv
  <2>8. SessionInv'
    BY <1>2, <1>3, <1>4, <2>4, <2>5 DEF SessionInv
  <2>9. UnlockInv'
    BY <1>1, <1>2, <1>3, <2>4, <2>5 DEF UnlockInv
  <2>10. GovernInv'
    BY <2>1, <2>4, <2>5 DEF GovernInv
  <2> QED
    BY <1>2, <1>7, <2>4, <2>6, <2>7, <2>8, <2>9, <2>10 DEF SetupInv
<1> QED
  BY <1>9, <1>10

-----------------------------------------------------------------------------
(* The theorems.                                                           *)

LEMMA SetupStep == SetupInv /\ [SetupNext]_setupVars => SetupInv'
<1> SUFFICES ASSUME SetupInv, [SetupNext]_setupVars PROVE SetupInv'
  OBVIOUS
<1>1. CASE Home \/ Unlock \/ Quit \/ SwitchAccount \/ ConfigureFails \/ StartLogin
             \/ CancelLogin \/ DeclineLogout \/ OpenSecurity \/ LeaveSecurity
  BY <1>1, MenuSteps
<1>2. CASE ChangePin \/ ApplyFile
  BY <1>2, SecuritySteps
<1>3. CASE HandEdit
  BY <1>3, HandEditStep
<1>4. CASE Rerun \/ RemoveSession \/ LeaveEditor
  BY <1>4, LeavingSteps
<1>5. CASE RemoveOrphans \/ Configure \/ AskLogout
  BY <1>5, EnteringSteps
<1>6. CASE CommitLogin
  BY <1>6, LoginStep
<1>7. CASE SelectEndpoint \/ ShowKey \/ CloseNotice \/ Back
  BY <1>7, EditorSteps
<1>8. CASE AddEndpoint \/ EditAccess \/ PressKey \/ EndPicking
  BY <1>8, PickingSteps
<1>9. CASE TakeAccess
  BY <1>9, TakeStep
<1>10. CASE EditEndpoint \/ RegenerateKey
  BY <1>10, ReplacingSteps
<1>11. CASE DeleteEndpoint \/ ConfirmLogout
  BY <1>11, DroppingSteps
<1>12. CASE Persist
  BY <1>12, PersistStep
<1>13. CASE Apply
  BY <1>13, ApplyStep
<1>14. CASE UNCHANGED setupVars
  <2>1. /\ file' = file /\ enforced' = enforced /\ accounts' = accounts /\ secret' = secret
        /\ opener' = opener /\ scene' = scene /\ ui' = ui /\ pick' = pick
    BY <1>14 DEF setupVars, world
  <2>2. Known' = Known /\ Hardened' = Hardened /\ EditorOpen' = EditorOpen /\ Committing' = Committing
    BY <2>1 DEF Known, Hardened, EditorOpen, Committing
  <2>3. WorldInv' /\ DraftInv' /\ PlaceInv'
    BY <2>1, <2>2 DEF SetupInv, WorldInv, DraftInv, PlaceInv
  <2>4. SessionInv' /\ UnlockInv' /\ GovernInv'
    BY <2>1, <2>2 DEF SetupInv, SessionInv, UnlockInv, GovernInv
  <2> QED
    BY <2>1, <2>3, <2>4 DEF SetupInv
<1> QED
  BY <1>1, <1>2, <1>3, <1>4, <1>5, <1>6, <1>7, <1>8, <1>9, <1>10, <1>11, <1>12, <1>13, <1>14
  DEF SetupNext

LEMMA SetupReports == SetupInv => SetupReportsHold
<1> SUFFICES ASSUME SetupInv PROVE SetupReportsHold
  OBVIOUS
<1>1. ShownKeysAreSaved
  <2> SUFFICES ASSUME ui.screen = "notice"
               PROVE  ui.draft[ui.at].key \in {ui.saved[i].key : i \in DOMAIN ui.saved}
    BY DEF ShownKeysAreSaved
  <2>1. IsDraft(ui.draft) /\ ui.at \in DOMAIN ui.draft /\ ui.saved = Doc(ui.draft)
    BY DEF SetupInv, DraftInv, PlaceInv, EditorOpen
  <2>2. ui.at \in DOMAIN Doc(ui.draft) /\ Doc(ui.draft)[ui.at].key = ui.draft[ui.at].key
    BY <2>1, DocIs
  <2> QED
    BY <2>1, <2>2
<1>2. AppliedEditsGovern
  BY DEF AppliedEditsGovern, SetupInv, GovernInv, EditorOpen
<1>3. EndpointsHaveAccounts
  BY DEF EndpointsHaveAccounts, SetupInv, WorldInv, Known
<1>4. CachedUnlockOpens
  BY DEF CachedUnlockOpens, SetupInv, UnlockInv
<1> QED
  BY <1>1, <1>2, <1>3, <1>4 DEF SetupReportsHold

LEMMA SetupInvariant == SetupSpec => []SetupInv
<1> QED
  BY SetupBegins, SetupStep, PTL DEF SetupSpec

(* The access that the picker saves grants what its rows show and nothing  *)
(* more when the daemon resolves it, and opened again it shows the same,   *)
(* for any tree of chats and folders (toggle and projection of the picker, *)
(* hydration, the evaluation of a declared access).                        *)
THEOREM SavedAsShown == SetupSpec => []SavedAccessIsAsShown
<1>1. SetupInv => SavedAccessIsAsShown
  BY SavedIsShown DEF SetupInv
<1> QED
  BY <1>1, SetupInvariant, PTL

(* What the setup program tells holds: a key it shows is saved, an edit    *)
(* reported as applied is in force, no endpoint in force names a session   *)
(* that was logged out, and the cached unlock opens.                       *)
THEOREM ReportsHold == SetupSpec => []SetupReportsHold
<1> QED
  BY SetupReports, SetupInvariant, PTL
=============================================================================
