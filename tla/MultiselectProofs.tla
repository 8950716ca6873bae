------------------------- MODULE MultiselectProofs -------------------------
(***************************************************************************)
(* Proofs about Multiselect, for every page: any options, groups, contents *)
(* and configurations, and any number of edits and calls.                  *)
(***************************************************************************)
EXTENDS Multiselect, FiniteSetTheorems, TLAPS

----------------------------------------------------------------------------
(* Lists of rows. *)

LEMMA ContentFacts ==
  ASSUME NEW b \in Contents \cup {<<>>}
  PROVE  /\ Range(b) \subseteq Items
         /\ \A x \in Range(b) : Pos(b, x) \in Nat /\ Pos(b, x) > 0 /\ b[Pos(b, x)] = x
<1>1. b \in Seq(Items)
  <2>1. CASE b \in Contents
    BY <2>1, ContentsAssumption
  <2>2. CASE b = <<>>
    BY <2>2
  <2> QED BY <2>1, <2>2
<1>2. DOMAIN b = 1..Len(b) /\ Len(b) \in Nat /\ \A i \in DOMAIN b : b[i] \in Items
  BY <1>1
<1>3. ASSUME NEW x \in Range(b)
      PROVE  Pos(b, x) \in DOMAIN b /\ b[Pos(b, x)] = x
  <2>1. \E i \in DOMAIN b : b[i] = x
    BY <1>3 DEF Range
  <2> QED BY <2>1 DEF Pos
<1> QED BY <1>2, <1>3 DEF Range

\* The rows of a header are option rows, and belong to no other header.
LEMMA UnderOptions ==
  ASSUME NEW b, NEW g PROVE Under(b, g) \subseteq OptionsIn(b)
BY DEF Under

LEMMA UnderDisjoint ==
  ASSUME NEW b \in Contents \cup {<<>>},
         NEW g \in GroupsIn(b), NEW h \in GroupsIn(b), g # h
  PROVE  Under(b, g) \cap Under(b, h) = {}
<1>1. \A y \in Range(b) : Pos(b, y) \in Nat /\ b[Pos(b, y)] = y
  BY ContentFacts
<1>2. Pos(b, g) # Pos(b, h)
  BY <1>1 DEF GroupsIn
<1>3. ASSUME NEW o \in Under(b, g) \cap Under(b, h) PROVE FALSE
  <2>1. Pos(b, g) < Pos(b, o) /\ Pos(b, h) < Pos(b, o)
    BY <1>3 DEF Under
  <2>2. ~(Pos(b, g) < Pos(b, h)) /\ ~(Pos(b, h) < Pos(b, g))
    BY <1>3, <2>1 DEF Under
  <2> QED BY <1>1, <1>2, <2>2 DEF GroupsIn
<1> QED BY <1>3

\* The empty text hides nothing.
LEMMA NothingHidden ==
  ASSUME NEW b \in Contents \cup {<<>>} PROVE HiddenBy(b, NoText) = {}
<1>1. Range(b) \subseteq Items /\ Matches[NoText] = Items
  BY ContentFacts, TextsAssumption
<1> QED BY <1>1 DEF HiddenBy, OptionsIn, GroupsIn

LEMMA HiddenRows ==
  ASSUME NEW b, NEW t PROVE HiddenBy(b, t) \subseteq Range(b)
BY DEF HiddenBy, OptionsIn, GroupsIn

LEMMA MarksType ==
  ASSUME NEW b, NEW c, NEW cf, NEW h, NEW f
  PROVE  MarksFor(b, c, cf, h, f) \subseteq GroupsIn(b) \cup {AllRow}
BY DEF MarksFor

LEMMA CaptionTitle ==
  ASSUME NEW s, NEW b, NEW cf, NEW z PROVE CaptionFor(s, b, cf, z).title = s
BY DEF CaptionFor

\* What the browser selects is in the select.
LEMMA SelectionsType ==
  ASSUME NEW b, NEW d, NEW cf, NEW s \in Selections(b, d, cf)
  PROVE  s \subseteq OptionsIn(b)
BY DEF Selections

LEMMA AskResetType ==
  ASSUME NEW s, s \subseteq OptionsIn(content)
  PROVE  AskReset(s) \subseteq OptionsIn(content)
BY DEF AskReset, FirstEnabled

\* Without a row that lacks its option a handler reaches every row.
LEMMA ReachedAll ==
  ASSUME NEW T, T \subseteq Range(content) PROVE Reached(T) = T
BY DEF Reached

----------------------------------------------------------------------------
(* The inductive invariant. *)

\* Query, box and search under way agree: the hidden rows are those of the
\* query, a search under way is for the text in the box, and without one the
\* query is that text.
SearchInv ==
  inst = "live" /\ "filter" \notin loose =>
    /\ hidden = HiddenBy(built, query)
    /\ timer # NoTimer => timer = box
    /\ timer = NoTimer => query = box

\* A click whose handlers are under way is on a row of a list of checkboxes.
ClickInv ==
  click # NoClick =>
    inst = "live" /\ conf.multiple /\ click.row \in OptionsIn(built)

IInv ==
  /\ TypeOK /\ Synced /\ MarksRight /\ CaptionRight
  /\ SearchInv /\ ClickInv
  /\ hidden \subseteq unseen

LEMMA InitInv == Init => IInv
<1> SUFFICES ASSUME Init PROVE IInv
  OBVIOUS
<1>1. selected \subseteq OptionsIn(content)
  BY SelectionsType DEF Init
<1>2. SelectOK /\ RowsOK
  BY <1>1 DEF Init, DisablingsOf, SelectOK, RowsOK
<1>3. WidgetOK
  BY PageAssumption, TextsAssumption DEF Init, WidgetOK, Blank
<1>4. FlagsOK
  BY DEF Init, FlagsOK
<1>5. Synced /\ MarksRight /\ CaptionRight /\ SearchInv /\ ClickInv /\ hidden \subseteq unseen
  BY DEF Init, Synced, MarksRight, CaptionRight, SearchInv, ClickInv
<1> QED BY <1>2, <1>3, <1>4, <1>5 DEF IInv, TypeOK

----------------------------------------------------------------------------
(* The common ends of the handlers. *)

Flags == {"rows", "marks", "caption", "filter"}
Still == UNCHANGED <<native, off, list, sight, search, inst, conf>>

\* What concerns rows, selection and what is derived from them.
Core ==
  /\ SelectOK /\ RowsOK /\ Synced /\ MarksRight /\ CaptionRight /\ SearchInv
  /\ hidden \subseteq unseen
  /\ caption.title \subseteq Options /\ loose \subseteq Flags

LEMMA CoreOfInv == ASSUME IInv PROVE Core
BY DEF IInv, TypeOK, WidgetOK, Core, Flags

\* The search is untouched, and its flag stays.
LEMMA SearchStill ==
  ASSUME Core, Still, loose \cap {"filter"} \subseteq loose'
  PROVE  SearchInv' /\ (hidden \subseteq unseen)'
BY DEF Core, Still, SearchInv, list, sight, search

LEMMA SettleCore ==
  ASSUME Core, NEW c, NEW s, NEW out, Settle(c, s, out), Still,
         c \subseteq OptionsIn(built), s \subseteq OptionsIn(content),
         out \subseteq {"rows"},
         inst = "live" /\ "rows" \notin loose \cup out => c = s
  PROVE  Core'
<1> USE DEF Still, native, list, sight, search
<1>1. loose' = (loose \ {"marks", "caption"}) \cup out /\ checked' = c /\ selected' = s
      /\ built' = built /\ content' = content /\ off' = off /\ conf' = conf
      /\ hidden' = hidden /\ frozen' = frozen /\ inst' = inst /\ dis' = dis
  BY DEF Settle
<1>2. marks' = MarksFor(built, c, conf, hidden, off)
      /\ caption' = CaptionFor(s, content, conf, frozen)
  BY DEF Settle, NewCaption
<1>3. SelectOK'
  BY <1>1 DEF SelectOK, Core
<1>4. RowsOK'
  BY <1>1, <1>2, MarksType DEF RowsOK, Core
<1>5. Synced'
  BY <1>1 DEF Synced, Core
<1>6. MarksRight' /\ CaptionRight'
  BY <1>1, <1>2 DEF MarksRight, CaptionRight
<1>7. SearchInv' /\ (hidden \subseteq unseen)'
  BY <1>1, SearchStill
<1>8. (caption.title \subseteq Options)'
  BY <1>2, CaptionTitle DEF OptionsIn
<1>9. loose' \subseteq Flags
  BY <1>1 DEF Core, Flags
<1> QED BY <1>3, <1>4, <1>5, <1>6, <1>7, <1>8, <1>9 DEF Core, Flags

LEMMA AbortCore ==
  ASSUME Core, NEW c, NEW s, Abort(c, s), Still,
         c \subseteq OptionsIn(built), s \subseteq OptionsIn(content),
         marks' \subseteq GroupsIn(built) \cup {AllRow}
  PROVE  Core'
<1> USE DEF Still, native, list, sight, search
<1>1. loose' = loose \cup {"rows", "marks", "caption"} /\ checked' = c /\ selected' = s
      /\ built' = built /\ content' = content /\ off' = off /\ conf' = conf
      /\ hidden' = hidden /\ inst' = inst /\ dis' = dis /\ caption' = caption
  BY DEF Abort
<1>2. SelectOK' /\ RowsOK'
  BY <1>1 DEF SelectOK, RowsOK, Core
<1>3. Synced' /\ MarksRight' /\ CaptionRight'
  BY <1>1 DEF Synced, MarksRight, CaptionRight
<1>4. SearchInv' /\ (hidden \subseteq unseen)'
  BY <1>1, SearchStill
<1> QED BY <1>1, <1>2, <1>3, <1>4 DEF Core, Flags

\* The change handler: the boxes c differ from the selection s at most in r.
LEMMA ChangedCore ==
  ASSUME Core, NEW r \in OptionsIn(built), NEW c, NEW s, NEW out,
         Changed(r, c, s, out), Still, out \subseteq {"rows"},
         c \subseteq OptionsIn(built), s \subseteq OptionsIn(content),
         inst = "live" /\ "rows" \notin loose \cup out =>
           /\ c \ {r} = s \ {r}
           /\ conf.multiple \/ r \in c
  PROVE  Core'
<1>1. CASE r \notin Range(content)
  <2>1. Abort(c, s) /\ marks' = marks
    BY <1>1 DEF Changed
  <2> QED BY <2>1, AbortCore DEF Core, RowsOK
<1>2. CASE r \in Range(content)
  <2> DEFINE d == IF r \in c /\ ~conf.multiple THEN {r} ELSE c
             t == Chosen(s, r, r \in c)
  <2>1. Settle(d, t, out)
    BY <1>2 DEF Changed
  <2>2. d \subseteq OptionsIn(built)
    OBVIOUS
  <2>3. t \subseteq OptionsIn(content)
    BY <1>2, AskResetType DEF Chosen, Put, OptionsIn
  <2>4. inst = "live" /\ "rows" \notin loose \cup out => d = t
    BY DEF Chosen, Put
  <2> HIDE DEF d, t
  <2> QED BY <2>1, <2>2, <2>3, <2>4, SettleCore
<1> QED BY <1>1, <1>2

----------------------------------------------------------------------------
(* What concerns neither rows nor selection. *)

Rest ==
  /\ query \in Texts /\ box \in Texts /\ timer \in Texts \cup {NoTimer}
  /\ inst \in {"none", "live"} /\ conf \in Conf
  /\ last \in Options \cup {NoRow, Detached} /\ handlers \in 1..3
  /\ click \in CallsOf \cup {NoClick} /\ calls \in 0..MaxCalls

LEMMA RestOfInv == ASSUME IInv PROVE Rest /\ FlagsOK /\ ClickInv
BY DEF IInv, TypeOK, WidgetOK, Rest

LEMMA Together ==
  ASSUME Core', Rest', FlagsOK', ClickInv' PROVE IInv'
BY DEF IInv, TypeOK, WidgetOK, Core, Rest, Flags

LEMMA CallCounted ==
  ASSUME Rest, NEW kind, Call(kind)
  PROVE  calls' \in 0..MaxCalls /\ Idle
BY PageAssumption DEF Rest, Call

\* Most steps change of all this at most the row clicked last and whether the
\* list is open.
LEMMA RestStill ==
  ASSUME IInv, UNCHANGED <<frozen, search, widget, click, built>>,
         calls' \in 0..MaxCalls,
         last' \in Options \cup {NoRow, Detached}, open' \in BOOLEAN
  PROVE  Rest' /\ FlagsOK' /\ ClickInv'
<1>1. Rest /\ FlagsOK /\ ClickInv
  BY RestOfInv
<1>2. Rest'
  BY <1>1 DEF Rest, search, widget
<1>3. FlagsOK'
  BY <1>1 DEF FlagsOK, widget
<1>4. ClickInv'
  BY <1>1 DEF ClickInv, widget
<1> QED BY <1>2, <1>3, <1>4

----------------------------------------------------------------------------
(* The user's steps. *)

\* Steps that leave rows and selection alone.
LEMMA CoreStill ==
  ASSUME Core, UNCHANGED <<selected, checked, marks, caption, loose>>, Still
  PROVE  Core'
<1> USE DEF Still, native, list, sight, search
<1>1. SelectOK' /\ RowsOK'
  BY DEF Core, SelectOK, RowsOK
<1>2. Synced' /\ MarksRight' /\ CaptionRight'
  BY DEF Core, Synced, MarksRight, CaptionRight
<1>3. SearchInv' /\ (hidden \subseteq unseen)'
  BY SearchStill
<1> QED BY <1>1, <1>2, <1>3 DEF Core

LEMMA OpenCloseInv == ASSUME IInv, OpenClose PROVE IInv'
<1> USE DEF OpenClose
<1>1. Core' 
  BY CoreOfInv, CoreStill DEF Still, widget, page
<1>2. open' \in BOOLEAN
  OBVIOUS
<1>3. last' = last /\ calls' = calls
  BY DEF page
<1>4. Rest' /\ FlagsOK' /\ ClickInv'
  BY <1>2, <1>3, RestOfInv, RestStill DEF Rest, page, native, list
<1> QED BY <1>1, <1>4, Together

LEMMA FlipType ==
  ASSUME NEW S, NEW c, c \subseteq S, NEW r \in S PROVE Flip(c, r) \subseteq S
BY DEF Flip

LEMMA ClickedInv == ASSUME IInv, NEW r \in Options, Click(r) PROVE IInv'
<1>1. /\ r \in OptionsIn(built)
      /\ conf.multiple \/ r \notin checked
      /\ Changed(r, Flip(checked, r), selected, {}) /\ last' = r
      /\ UNCHANGED <<page, off, list, sight, search, widget, click>>
  BY DEF Click, OptionRows
<1>2. Core
  BY CoreOfInv
<1>3. Flip(checked, r) \subseteq OptionsIn(built) /\ selected \subseteq OptionsIn(content)
  <2>1. checked \subseteq OptionsIn(built) /\ selected \subseteq OptionsIn(content)
    BY <1>2 DEF Core, RowsOK, SelectOK
  <2>2. r \in OptionsIn(built)
    BY <1>1
  <2> QED BY <2>1, <2>2, FlipType
<1>4. inst = "live" /\ "rows" \notin loose \cup {} =>
        /\ Flip(checked, r) \ {r} = selected \ {r}
        /\ conf.multiple \/ r \in Flip(checked, r)
  BY <1>1, <1>2 DEF Flip, Put, Core, Synced
<1>5. Core'
  <2>1. Still
    BY <1>1 DEF Still, widget, page
  <2> QED BY <1>1, <1>2, <1>3, <1>4, <2>1, ChangedCore
<1>6. open' \in BOOLEAN
  BY <1>1, RestOfInv DEF Changed, FlagsOK
<1>7. Rest' /\ FlagsOK' /\ ClickInv'
  BY <1>1, <1>6, RestOfInv, RestStill DEF Rest, page, native, list
<1> QED BY <1>5, <1>7, Together

LEMMA KeyInv == ASSUME IInv, NEW r \in Options, Key(r) PROVE IInv'
<1> DEFINE out == {x \in {"rows"} : ~conf.multiple /\ r \in checked}
<1>1. /\ r \in OptionsIn(built)
      /\ Changed(r, Flip(checked, r), selected, out)
      /\ UNCHANGED <<page, off, list, sight, search, widget, last, click>>
  BY DEF Key, OptionRows
<1>2. Core
  BY CoreOfInv
<1>3. Flip(checked, r) \subseteq OptionsIn(built) /\ selected \subseteq OptionsIn(content)
  <2>1. checked \subseteq OptionsIn(built) /\ selected \subseteq OptionsIn(content)
    BY <1>2 DEF Core, RowsOK, SelectOK
  <2> QED BY <1>1, <2>1, FlipType
<1>4. inst = "live" /\ "rows" \notin loose \cup out =>
        /\ Flip(checked, r) \ {r} = selected \ {r}
        /\ conf.multiple \/ r \in Flip(checked, r)
  BY <1>1, <1>2 DEF Flip, Put, Core, Synced
<1>5. Core'
  <2>1. Still /\ out \subseteq {"rows"}
    BY <1>1 DEF Still, widget, page
  <2> HIDE DEF out
  <2> QED BY <1>1, <1>2, <1>3, <1>4, <2>1, ChangedCore
<1>6. open' \in BOOLEAN
  BY <1>1, RestOfInv DEF Changed, FlagsOK
<1>7. Rest' /\ FlagsOK' /\ ClickInv'
  BY <1>1, <1>6, RestOfInv, RestStill DEF Rest, page, native, list
<1> QED BY <1>5, <1>7, Together

\* selectAll and deselectAll.  Where the select-all box is not set right, the
\* step says so in loose.
LEMMA SetAllMarks ==
  ASSUME Core, NEW v \in BOOLEAN, NEW T, NEW c, c = Put(checked, T, v),
         HasAll(built, conf) =>
           IF v THEN Boxes(built, hidden, off) # {} /\ Boxes(built, hidden, off) \subseteq T
           ELSE Boxes(built, hidden, off) = {} \/ Boxes(built, hidden, off) \cap T # {}
  PROVE  (MarksFor(built, c, conf, hidden, off) \ {AllRow})
           \cup {a \in {AllRow} : v /\ HasAll(built, conf)}
         = MarksFor(built, c, conf, hidden, off)
<1>1. AllRow \in MarksFor(built, c, conf, hidden, off) <=> v /\ HasAll(built, conf)
  <2>1. GroupsIn(built) \subseteq Groups /\ AllRow \notin Groups
    BY ItemsAssumption DEF GroupsIn, Items
  <2> QED BY <2>1 DEF MarksFor, Put
<1> QED BY <1>1

LEMMA SetAllCore ==
  ASSUME Core, NEW justVisible \in BOOLEAN, NEW v \in BOOLEAN, NEW quiet \in BOOLEAN,
         SetAll(justVisible, v, quiet), Still,
         IF quiet THEN caption' = caption ELSE caption' = NewCaption(selected')
  PROVE  Core'
<1> DEFINE T == Targets(justVisible)
           Y == Typed(justVisible)
           c == Put(checked, T, v)
           B == Boxes(built, hidden, off)
           right == IF v THEN B # {} /\ B \subseteq T ELSE B = {} \/ B \cap T # {}
<1>1. /\ checked' = c
      /\ selected' = IF v THEN selected \cup (T \cap Range(content)) \cup Y ELSE selected \ T
      /\ marks' = (MarksFor(built, c, conf, hidden, off) \ {AllRow})
                   \cup {a \in {AllRow} : v /\ HasAll(built, conf)}
      /\ loose' = (loose \ {"marks", "caption"})
                   \cup {x \in {"caption"} : quiet}
                   \cup {x \in {"marks"} : HasAll(built, conf) /\ ~right}
                   \cup {x \in {"rows"} : v /\ ~(Y \subseteq T)}
  BY DEF SetAll
<1>2. /\ built' = built /\ content' = content /\ off' = off /\ conf' = conf
      /\ hidden' = hidden /\ frozen' = frozen /\ inst' = inst /\ dis' = dis
      /\ folded' = folded /\ unseen' = unseen
  BY DEF Still, native, list, sight
<1>3. T \subseteq OptionsIn(built) /\ Y \subseteq OptionsIn(content)
  BY DEF Targets, Typed
<1>4. SelectOK'
  BY <1>1, <1>2, <1>3 DEF SelectOK, Core, OptionsIn
<1>5. RowsOK'
  BY <1>1, <1>2, <1>3, MarksType DEF RowsOK, Core, Put
<1>6. Synced'
  BY <1>1, <1>2, <1>3 DEF Synced, Core, Put, OptionsIn
<1>7. MarksRight'
  <2> SUFFICES ASSUME inst = "live", "marks" \notin loose'
               PROVE  marks' = MarksFor(built, c, conf, hidden, off)
    BY <1>1, <1>2 DEF MarksRight
  <2>1. HasAll(built, conf) => right
    BY <1>1
  <2> QED BY <1>1, <2>1, SetAllMarks
<1>8. CaptionRight'
  BY <1>1, <1>2 DEF CaptionRight, NewCaption
<1>9. SearchInv' /\ (hidden \subseteq unseen)'
  BY <1>1, SearchStill
<1>10. (caption.title \subseteq Options)'
  BY <1>4, CaptionTitle DEF NewCaption, Core, SelectOK, OptionsIn
<1>11. loose' \subseteq Flags
  BY <1>1 DEF Core, Flags
<1> QED BY <1>4, <1>5, <1>6, <1>7, <1>8, <1>9, <1>10, <1>11 DEF Core, Flags

LEMMA ClickAllInv == ASSUME IInv, ClickAll PROVE IInv'
<1>1. /\ SetAll(conf.justVisible, AllRow \notin marks, FALSE)
      /\ caption' = NewCaption(selected')
      /\ UNCHANGED <<page, off, list, sight, search, widget, open, last, click>>
  BY DEF ClickAll
<1>2. conf.justVisible \in BOOLEAN /\ (AllRow \notin marks) \in BOOLEAN
  BY RestOfInv DEF Rest, Conf
<1>3. Core'
  <2>1. Still
    BY <1>1 DEF Still, widget, page
  <2> QED BY <1>1, <1>2, <2>1, CoreOfInv, SetAllCore
<1>4. Rest' /\ FlagsOK' /\ ClickInv'
  BY <1>1, RestOfInv, RestStill DEF Rest, FlagsOK, page, native, list
<1> QED BY <1>3, <1>4, Together

\* The box of a header changes its rows only, and rows belong to one header:
\* the other headers are as right as before.
LEMMA GroupMarks ==
  ASSUME Core, NEW g \in GroupsIn(built), HasGroups(conf),
         marks = MarksFor(built, checked, conf, hidden, off),
         Under(built, g) \ (hidden \cup off) # {},
         NEW c, c = Put(checked, Under(built, g) \ (hidden \cup off), g \notin marks)
  PROVE  (MarksFor(built, c, conf, hidden, off) \cap {AllRow})
           \cup (Flip(marks, g) \ {AllRow})
         = MarksFor(built, c, conf, hidden, off)
<1> DEFINE M == MarksFor(built, c, conf, hidden, off)
           T(h) == Under(built, h) \ (hidden \cup off)
<1>1. AllRow \notin GroupsIn(built)
  BY ItemsAssumption DEF GroupsIn, Items
<1>2. \A h \in GroupsIn(built) : h \in M <=> T(h) \subseteq c
  BY <1>1 DEF MarksFor
<1>3. \A h \in GroupsIn(built) : h \in marks <=> T(h) \subseteq checked
  BY <1>1 DEF MarksFor
<1>4. g \in M <=> g \notin marks
  BY <1>2 DEF Put
<1>5. ASSUME NEW h \in GroupsIn(built), h # g PROVE h \in M <=> h \in marks
  <2>1. T(h) \cap T(g) = {}
    BY <1>5, UnderDisjoint DEF Core, RowsOK
  <2>2. T(h) \subseteq c <=> T(h) \subseteq checked
    BY <2>1 DEF Put
  <2> QED BY <2>2, <1>2, <1>3
<1>6. M \subseteq GroupsIn(built) \cup {AllRow} /\ marks \subseteq GroupsIn(built) \cup {AllRow}
  BY MarksType
<1> HIDE DEF M, T
<1>7. (M \cap {AllRow}) \cup (Flip(marks, g) \ {AllRow}) = M
  BY <1>1, <1>4, <1>5, <1>6 DEF Flip
<1> QED BY <1>7 DEF M

LEMMA ClickGroupInv == ASSUME IInv, NEW g \in Groups, ClickGroup(g) PROVE IInv'
<1> DEFINE v == g \notin marks
           T == Under(built, g) \ (hidden \cup off)
           c == Put(checked, Reached(T), v)
           s == Put(selected, Reached(T) \cap Range(content), v)
<1>1. /\ HasGroups(conf) /\ g \in GroupsIn(built)
      /\ IF T \subseteq Range(content)
         THEN /\ checked' = c /\ selected' = s
              /\ marks' = (MarksFor(built, c, conf, hidden, off) \cap {AllRow})
                             \cup (Flip(marks, g) \ {AllRow})
              /\ caption' = NewCaption(s)
              /\ loose' = (loose \ {"caption"}) \cup {x \in {"marks"} : T = {}}
         ELSE Abort(c, s) /\ marks' = Flip(marks, g)
      /\ UNCHANGED <<page, off, list, sight, search, widget, open, last, click>>
  BY DEF ClickGroup
<1>2. Core
  BY CoreOfInv
<1>3. T \subseteq OptionsIn(built) /\ Reached(T) \subseteq T
  BY UnderOptions DEF Reached
<1>4. c \subseteq OptionsIn(built) /\ s \subseteq OptionsIn(content)
  BY <1>2, <1>3 DEF Core, RowsOK, SelectOK, Put, OptionsIn
<1>5. Flip(marks, g) \subseteq GroupsIn(built) \cup {AllRow}
  BY <1>1, <1>2, FlipType DEF Core, RowsOK
<1>6. Still
  BY <1>1 DEF Still, widget, page
<1>7. Core'
  <2>1. CASE ~(T \subseteq Range(content))
    <3>1. Abort(c, s) /\ marks' = Flip(marks, g)
      BY <1>1, <2>1
    <3> HIDE DEF c, s, T
    <3> QED BY <1>2, <1>4, <1>5, <1>6, <3>1, AbortCore
  <2>2. CASE T \subseteq Range(content)
    <3>1. /\ checked' = c /\ selected' = s
          /\ marks' = (MarksFor(built, c, conf, hidden, off) \cap {AllRow})
                         \cup (Flip(marks, g) \ {AllRow})
          /\ caption' = CaptionFor(s, content, conf, frozen)
          /\ loose' = (loose \ {"caption"}) \cup {x \in {"marks"} : T = {}}
      BY <1>1, <2>2 DEF NewCaption
    <3>2. /\ built' = built /\ content' = content /\ off' = off /\ conf' = conf
          /\ hidden' = hidden /\ frozen' = frozen /\ inst' = inst /\ dis' = dis
          /\ folded' = folded /\ unseen' = unseen
      BY <1>6 DEF Still, native, list, sight
    <3>3. Reached(T) = T
      BY <2>2, ReachedAll
    <3>4. SelectOK'
      BY <1>2, <1>4, <3>1, <3>2 DEF SelectOK, Core
    <3>5. RowsOK'
      BY <1>2, <1>4, <1>5, <3>1, <3>2, MarksType DEF RowsOK, Core
    <3>6. Synced'
      BY <1>2, <2>2, <3>1, <3>2, <3>3 DEF Synced, Core, Put
    <3>7. MarksRight'
      <4> SUFFICES ASSUME inst = "live", "marks" \notin loose'
                   PROVE  marks' = MarksFor(built, c, conf, hidden, off)
        BY <3>1, <3>2 DEF MarksRight
      <4>1. T # {} /\ marks = MarksFor(built, checked, conf, hidden, off)
        BY <1>2, <3>1 DEF Core, MarksRight
      <4> QED BY <1>1, <1>2, <3>1, <3>3, <4>1, GroupMarks
    <3>8. CaptionRight'
      BY <3>1, <3>2 DEF CaptionRight
    <3>9. SearchInv' /\ (hidden \subseteq unseen)'
      BY <1>2, <1>6, <3>1, SearchStill
    <3>10. (caption.title \subseteq Options)'
      <4>1. caption'.title = s
        BY <3>1, CaptionTitle
      <4> QED BY <1>4, <4>1 DEF OptionsIn
    <3>11. loose' \subseteq Flags
      BY <1>2, <3>1 DEF Core, Flags
    <3> QED BY <3>4, <3>5, <3>6, <3>7, <3>8, <3>9, <3>10, <3>11 DEF Core, Flags
  <2> QED BY <2>1, <2>2
<1>8. Rest' /\ FlagsOK' /\ ClickInv'
  BY <1>1, RestOfInv, RestStill DEF Rest, FlagsOK, page, native, list
<1> QED BY <1>7, <1>8, Together

LEMMA CollapseInv == ASSUME IInv, NEW g \in Groups, Collapse(g) PROVE IInv'
<1> DEFINE rows == Under(built, g) \ hidden
           away == rows \cap folded = {}
<1>1. /\ folded' = Put(folded, rows, away) /\ unseen' = Put(unseen, rows, away)
      /\ UNCHANGED <<page, selected, checked, marks, off, built, hidden, search,
                     widget, open, caption, last, click, loose>>
  BY DEF Collapse
<1>2. Core
  BY CoreOfInv
<1>3. rows \subseteq OptionsIn(built) /\ rows \cap hidden = {}
  BY UnderOptions
<1> USE DEF page, native, search, widget
<1>4. SelectOK'
  BY <1>1, <1>2 DEF Core, SelectOK
<1>5. RowsOK'
  BY <1>1, <1>2, <1>3 DEF Core, RowsOK, Put, OptionsIn
<1>6. Synced' /\ MarksRight' /\ CaptionRight' /\ SearchInv'
  BY <1>1, <1>2 DEF Core, Synced, MarksRight, CaptionRight, SearchInv
<1>7. (hidden \subseteq unseen)'
  BY <1>1, <1>2, <1>3 DEF Core, Put
<1>8. Core'
  BY <1>1, <1>2, <1>4, <1>5, <1>6, <1>7 DEF Core
<1>9. Rest' /\ FlagsOK' /\ ClickInv'
  BY <1>1, RestOfInv, RestStill DEF Rest, FlagsOK
<1> QED BY <1>8, <1>9, Together

\* A swept range consists of rows; a row whose option is missing ends it.
LEMMA SweptRows ==
  ASSUME RowsOK, NEW r
  PROVE  /\ Swept(r) \subseteq Range(built) \cup {AllRow}
         /\ \A x \in Swept(r) : At(x) \in Nat
<1>1. Swept(r) \subseteq Range(built) \cup {AllRow}
  BY DEF Swept
<1>2. \A x \in Range(built) : Pos(built, x) \in Nat
  BY ContentFacts DEF RowsOK
<1> QED BY <1>1, <1>2 DEF At

LEMMA HandlerInv ==
  ASSUME IInv, NEW r \in OptionsIn(built), NEW onLabel \in BOOLEAN,
         NEW flip \in BOOLEAN, NEW left \in 1..3,
         inst = "live", conf.multiple, Handler(r, onLabel, flip, left)
  PROVE  IInv'
<1> DEFINE c == IF flip THEN Flip(checked, r) ELSE checked
           v == r \in c
           R == Swept(r)
           bad == R \ OptionsIn(content)
           got == {x \in R : \A y \in bad : At(x) < At(y)}
           c2 == Put(c, R \cap Options, v)
           s2 == Put(selected, got, v)
           ended == bad # {} \/ r \notin Range(content)
<1>1. /\ IF bad = {} THEN Changed(r, c2, s2, {})
         ELSE IF onLabel \/ r \notin Range(content)
         THEN Abort(c2, s2) /\ marks' = Put(marks, R \ Options, v) /\ UNCHANGED open
         ELSE Changed(r, c2, s2, {"rows"})
      /\ last' = IF ended THEN last ELSE r
      /\ click' = IF ~ended /\ left > 1
                  THEN [row |-> r, onLabel |-> onLabel, left |-> left - 1] ELSE NoClick
      /\ UNCHANGED <<page, off, list, sight, search, widget>>
  BY DEF Handler
<1>2. Core /\ SelectOK /\ RowsOK
  BY CoreOfInv DEF Core
<1>3. Still
  BY <1>1 DEF Still, page, widget
<1>4. R \subseteq Range(built) \cup {AllRow} /\ \A x \in R : At(x) \in Nat
  BY <1>2, SweptRows
<1>5. c \subseteq OptionsIn(built)
  BY <1>2, FlipType DEF RowsOK
<1>6. Range(built) \subseteq Options \cup Groups
  BY <1>2, ContentFacts DEF RowsOK, Items
<1>7. AllRow \notin Options
  BY ItemsAssumption DEF Items
<1>8. R \cap Options \subseteq OptionsIn(built) /\ R \ Options \subseteq GroupsIn(built) \cup {AllRow}
  BY <1>4, <1>6, <1>7 DEF OptionsIn, GroupsIn
<1>9. got \subseteq OptionsIn(content)
  <2>1. ASSUME NEW x \in got, x \in bad PROVE FALSE
    BY <1>4, <2>1
  <2> QED BY <2>1
<1>10. bad = {} => got = R /\ R \cap Options = R
  BY DEF OptionsIn
<1>11. c2 \subseteq OptionsIn(built) /\ s2 \subseteq OptionsIn(content)
  <2> HIDE DEF c, R, got
  <2> QED BY <1>2, <1>5, <1>8, <1>9 DEF Put, SelectOK
<1>12. Put(marks, R \ Options, v) \subseteq GroupsIn(built) \cup {AllRow}
  <2> HIDE DEF R, v
  <2> QED BY <1>2, <1>8 DEF Put, RowsOK
<1>13. bad = {} /\ inst = "live" /\ "rows" \notin loose \cup {} =>
         c2 \ {r} = s2 \ {r}
  <2> SUFFICES ASSUME bad = {}, inst = "live", "rows" \notin loose
               PROVE  c2 \ {r} = s2 \ {r}
    OBVIOUS
  <2>1. checked = selected
    BY <1>2 DEF Core, Synced
  <2>2. c2 = Put(c, R, v) /\ s2 = Put(selected, R, v)
    BY <1>10
  <2>3. c = (IF v THEN selected \cup {r} ELSE selected \ {r})
    BY <2>1 DEF Flip
  <2> HIDE DEF c, R, v, c2, s2
  <2>4. r \in c <=> v
    BY DEF v
  <2> QED BY <2>2, <2>3, <2>4 DEF Put
<1>14. Core'
  <2>1. CASE bad = {}
    <3>1. Changed(r, c2, s2, {})
      BY <1>1, <2>1
    <3>2. inst = "live" /\ "rows" \notin loose \cup {} =>
            /\ c2 \ {r} = s2 \ {r}
            /\ conf.multiple \/ r \in c2
      BY <1>13, <2>1
    <3> HIDE DEF bad, c2, s2
    <3> QED BY <1>2, <1>3, <1>11, <3>1, <3>2, ChangedCore
  <2>2. CASE bad # {} /\ (onLabel \/ r \notin Range(content))
    <3>1. Abort(c2, s2) /\ marks' = Put(marks, R \ Options, v)
      BY <1>1, <2>2
    <3> HIDE DEF bad, c2, s2, R, v
    <3> QED BY <1>2, <1>3, <1>11, <1>12, <3>1, AbortCore
  <2>3. CASE bad # {} /\ ~onLabel /\ r \in Range(content)
    <3>1. Changed(r, c2, s2, {"rows"})
      BY <1>1, <2>3
    <3> HIDE DEF bad, c2, s2
    <3> QED BY <1>2, <1>3, <1>11, <3>1, ChangedCore
  <2> QED BY <2>1, <2>2, <2>3
<1>15. Rest /\ FlagsOK /\ ClickInv
  BY RestOfInv
<1>16. r \in Options
  BY DEF OptionsIn
<1>17. Rest'
  <2>1. click' \in CallsOf \cup {NoClick}
    BY <1>1, <1>16 DEF CallsOf
  <2>2. last' \in Options \cup {NoRow, Detached}
    BY <1>1, <1>15, <1>16 DEF Rest
  <2> QED BY <1>1, <1>15, <2>1, <2>2 DEF Rest, page, search, widget
<1>18. FlagsOK'
  <2>1. open' \in BOOLEAN
    BY <1>1, <1>15 DEF Changed, FlagsOK
  <2> QED BY <1>1, <1>15, <2>1 DEF FlagsOK, page, native, widget
<1>19. ClickInv'
  BY <1>1 DEF ClickInv, list, widget
<1> QED BY <1>14, <1>17, <1>18, <1>19, Together

LEMMA ShiftClickInv ==
  ASSUME IInv, NEW r \in Options, NEW onLabel \in BOOLEAN, ShiftClick(r, onLabel)
  PROVE  IInv'
<1>1. r \in OptionsIn(built) /\ inst = "live" /\ conf.multiple
      /\ Handler(r, onLabel, TRUE, handlers)
  BY DEF ShiftClick, OptionRows, Using, Idle
<1>2. handlers \in 1..3
  BY RestOfInv DEF Rest
<1> QED BY <1>1, <1>2, HandlerInv

LEMMA NextHandlerInv == ASSUME IInv, NextHandler PROVE IInv'
<1>1. click \in CallsOf
  BY RestOfInv DEF Rest, NextHandler
<1>2. inst = "live" /\ conf.multiple /\ click.row \in OptionsIn(built)
  BY RestOfInv DEF ClickInv, NextHandler
<1>3. Handler(click.row, click.onLabel, click.onLabel, click.left)
  BY DEF NextHandler
<1>4. click.onLabel \in BOOLEAN /\ click.left \in 1..3
  BY <1>1 DEF CallsOf
<1> QED BY <1>2, <1>3, <1>4, HandlerInv

LEMMA ResetCore == ASSUME Core, Reset PROVE Core'
<1> DEFINE T == {o \in Targets(FALSE) : conf.multiple}
<1>1. Settle(checked \ T, selected \ T, {})
  BY DEF Reset
<1>2. Still
  BY DEF Reset, Still, widget
<1>3. checked \ T \subseteq OptionsIn(built) /\ selected \ T \subseteq OptionsIn(content)
  BY DEF Core, RowsOK, SelectOK
<1>4. inst = "live" /\ "rows" \notin loose \cup {} => checked \ T = selected \ T
  BY DEF Core, Synced
<1> HIDE DEF T
<1> QED BY <1>1, <1>2, <1>3, <1>4, SettleCore

LEMMA ClickResetInv == ASSUME IInv, ClickReset PROVE IInv'
<1>1. Core'
  BY CoreOfInv, ResetCore DEF ClickReset
<1>2. Rest' /\ FlagsOK' /\ ClickInv'
  BY RestOfInv, RestStill DEF ClickReset, Reset, Rest, FlagsOK, native, list
<1> QED BY <1>1, <1>2, Together

----------------------------------------------------------------------------
(* The search. *)

LEMMA TypeInv == ASSUME IInv, NEW t \in Texts, Type(t) PROVE IInv'
<1>1. /\ box' = t /\ timer' = t /\ click = NoClick
      /\ UNCHANGED <<page, selected, checked, marks, off, list, sight, query, widget,
                     open, caption, last, click, loose>>
  BY DEF Type, Using, Idle
<1> USE DEF page, native, list, sight, widget
<1>2. Core /\ Rest /\ FlagsOK
  BY CoreOfInv, RestOfInv
<1>3. SelectOK' /\ RowsOK'
  BY <1>1, <1>2 DEF Core, SelectOK, RowsOK
<1>4. Synced' /\ MarksRight' /\ CaptionRight'
  BY <1>1, <1>2 DEF Core, Synced, MarksRight, CaptionRight
<1>5. SearchInv'
  BY <1>1, <1>2, TextsAssumption DEF Core, SearchInv
<1>6. Core'
  BY <1>1, <1>2, <1>3, <1>4, <1>5 DEF Core
<1>7. Rest'
  BY <1>1, <1>2 DEF Rest
<1>8. FlagsOK'
  BY <1>1, <1>2 DEF FlagsOK
<1>9. ClickInv'
  BY <1>1 DEF ClickInv
<1> QED BY <1>6, <1>7, <1>8, <1>9, Together

\* Whatever text a search runs for, and whether it is skipped because the query
\* is that text already, the rows it leaves hidden are those of the query.
LEMMA SearchFiresInv == ASSUME IInv, SearchFires PROVE IInv'
<1> DEFINE same == timer = query
           h == IF same THEN hidden ELSE HiddenBy(built, timer)
<1>1. /\ timer # NoTimer /\ click = NoClick /\ inst = "live"
      /\ timer' = NoTimer /\ query' = timer
      /\ hidden' = h /\ unseen' = IF same THEN unseen ELSE h
      /\ marks' = MarksFor(built, checked, conf, h, off)
      /\ loose' = loose \ ({"marks"} \cup {x \in {"filter"} : ~same /\ timer = box})
      /\ UNCHANGED <<page, selected, checked, off, list, box, widget,
                     open, caption, last, click>>
  BY DEF SearchFires, AfterSearch, Idle
<1> USE DEF page, native, list, widget
<1>2. Core /\ Rest /\ FlagsOK
  BY CoreOfInv, RestOfInv
<1>3. h \subseteq Range(built)
  BY <1>2, HiddenRows DEF Core, RowsOK
<1>4. SelectOK'
  BY <1>1, <1>2 DEF Core, SelectOK
<1>5. RowsOK'
  <2> HIDE DEF h
  <2>1. unseen' \subseteq Range(built)
    BY <1>1, <1>2, <1>3 DEF Core, RowsOK
  <2> QED BY <1>1, <1>2, <1>3, <2>1, MarksType DEF Core, RowsOK
<1>6. Synced' /\ CaptionRight'
  BY <1>1, <1>2 DEF Core, Synced, CaptionRight
<1>7. MarksRight'
  BY <1>1 DEF MarksRight
<1>8. SearchInv'
  <2> SUFFICES ASSUME "filter" \notin loose' PROVE hidden' = HiddenBy(built, timer) /\ timer = box
    BY <1>1 DEF SearchInv
  <2>1. CASE "filter" \notin loose
    BY <1>1, <1>2, <2>1 DEF Core, SearchInv
  <2>2. CASE "filter" \in loose
    BY <1>1, <2>2
  <2> QED BY <2>1, <2>2
<1>9. (hidden \subseteq unseen)' /\ (caption.title \subseteq Options)' /\ loose' \subseteq Flags
  BY <1>1, <1>2 DEF Core, Flags
<1>10. Core'
  BY <1>4, <1>5, <1>6, <1>7, <1>8, <1>9 DEF Core, Flags
<1>11. Rest'
  BY <1>1, <1>2 DEF Rest
<1>12. FlagsOK'
  BY <1>1, <1>2 DEF FlagsOK
<1>13. ClickInv'
  BY <1>1 DEF ClickInv
<1> QED BY <1>10, <1>11, <1>12, <1>13, Together

LEMMA ClearFilterInv == ASSUME IInv, ClearFilter PROVE IInv'
<1>1. /\ click = NoClick
      /\ box' = NoText /\ timer' = NoTimer /\ query' = NoText
      /\ hidden' = {} /\ unseen' = {}
      /\ marks' = MarksFor(built, checked, conf, {}, off)
      /\ loose' = loose \ {"filter", "marks"}
      /\ UNCHANGED <<page, selected, checked, off, list, widget,
                     open, caption, last, click>>
  BY DEF ClearFilter, AfterSearch, QueryCleared, Using, Idle
<1> USE DEF page, native, list, widget
<1>2. Core /\ Rest /\ FlagsOK
  BY CoreOfInv, RestOfInv
<1>3. SelectOK'
  BY <1>1, <1>2 DEF Core, SelectOK
<1>4. RowsOK'
  BY <1>1, <1>2, MarksType DEF Core, RowsOK
<1>5. Synced' /\ MarksRight' /\ CaptionRight'
  BY <1>1, <1>2 DEF Core, Synced, MarksRight, CaptionRight
<1>6. SearchInv'
  BY <1>1, <1>2, NothingHidden DEF Core, RowsOK, SearchInv
<1>7. Core'
  BY <1>1, <1>2, <1>3, <1>4, <1>5, <1>6 DEF Core, Flags
<1>8. Rest'
  BY <1>1, <1>2, TextsAssumption DEF Rest
<1>9. FlagsOK'
  BY <1>1, <1>2 DEF FlagsOK
<1>10. ClickInv'
  BY <1>1 DEF ClickInv
<1> QED BY <1>7, <1>8, <1>9, <1>10, Together

----------------------------------------------------------------------------
(* The page's steps. *)

\* After an edit by the page rows and caption are no longer answerable.
LEMMA EditCore ==
  ASSUME Core, NEW b \in Contents, NEW d \in Disablings, NEW s, s \subseteq OptionsIn(b),
         content' = b, selected' = s, dis' = d,
         loose' = loose \cup {"rows", "caption"},
         UNCHANGED <<frozen, checked, marks, off, list, sight, search, inst, conf, caption>>
  PROVE  Core'
<1> USE DEF list, sight, search
<1>1. SelectOK' /\ RowsOK'
  BY DEF Core, SelectOK, RowsOK
<1>2. Synced' /\ MarksRight' /\ CaptionRight' /\ SearchInv'
  BY DEF Core, Synced, MarksRight, CaptionRight, SearchInv
<1>3. (hidden \subseteq unseen)' /\ (caption.title \subseteq Options)' /\ loose' \subseteq Flags
  BY DEF Core, Flags
<1> QED BY <1>1, <1>2, <1>3 DEF Core, Flags

LEMMA PageEditInv ==
  ASSUME IInv, NEW b \in Contents, NEW d \in Disablings, NEW s \in SUBSET Options,
         PageEdit(b, s, d)
  PROVE  IInv'
<1>1. /\ s \in Selections(b, d, conf) /\ Call("edit")
      /\ content' = b /\ selected' = s /\ dis' = d
      /\ loose' = loose \cup {"rows", "caption"}
      /\ UNCHANGED <<frozen, checked, marks, off, list, sight, search, widget,
                     open, caption, last, click>>
  BY DEF PageEdit
<1>2. Core'
  BY <1>1, CoreOfInv, EditCore, SelectionsType DEF widget
<1>3. calls' \in 0..MaxCalls
  BY <1>1, RestOfInv, CallCounted
<1>4. Rest' /\ FlagsOK' /\ ClickInv'
  BY <1>1, <1>3, RestOfInv, RestStill DEF Rest, FlagsOK, list
<1> QED BY <1>2, <1>4, Together

LEMMA SelectInv == ASSUME IInv, NEW S \in SUBSET Options, Select(S) PROVE IInv'
<1> DEFINE T == S \cap Range(content) \cap Range(built)
           c == checked \cup T
           s == IF conf.multiple \/ T = {} THEN selected \cup T ELSE T
           out == {x \in {"rows"} : ~conf.multiple /\ T # {} /\ ~(checked \subseteq T)}
<1>1. /\ Call("select") /\ Settle(c, s, out)
      /\ UNCHANGED <<native, off, list, sight, search, widget, open, last, click>>
  BY DEF Select
<1>2. Core
  BY CoreOfInv
<1>3. T \subseteq OptionsIn(built) /\ T \subseteq OptionsIn(content)
  BY DEF OptionsIn
<1>4. c \subseteq OptionsIn(built) /\ s \subseteq OptionsIn(content)
  BY <1>2, <1>3 DEF Core, RowsOK, SelectOK
<1>5. Still
  BY <1>1 DEF Still, widget
<1>6. inst = "live" /\ "rows" \notin loose \cup out => c = s
  BY <1>2 DEF Core, Synced
<1>7. out \subseteq {"rows"}
  OBVIOUS
<1>8. Core'
  <2> HIDE DEF c, s, out
  <2> QED BY <1>1, <1>2, <1>4, <1>5, <1>6, <1>7, SettleCore
<1>9. calls' \in 0..MaxCalls
  BY <1>1, RestOfInv, CallCounted
<1>10. Rest' /\ FlagsOK' /\ ClickInv'
  BY <1>1, <1>9, RestOfInv, RestStill DEF Rest, FlagsOK, native, list
<1> QED BY <1>8, <1>10, Together

LEMMA DeselectInv == ASSUME IInv, NEW S \in SUBSET Options, Deselect(S) PROVE IInv'
<1> DEFINE T == S \cap Range(content) \cap Range(built)
           c == checked \ T
           s == IF T = {} THEN selected ELSE AskReset(selected \ T)
           out == {x \in {"rows"} : ~conf.multiple /\ T # {}}
<1>1. /\ Call("deselect") /\ Settle(c, s, out)
      /\ UNCHANGED <<native, off, list, sight, search, widget, open, last, click>>
  BY DEF Deselect
<1>2. Core
  BY CoreOfInv
<1>3. c \subseteq OptionsIn(built) /\ selected \subseteq OptionsIn(content)
  BY <1>2 DEF Core, RowsOK, SelectOK
<1>4. s \subseteq OptionsIn(content)
  BY <1>3, AskResetType
<1>5. Still
  BY <1>1 DEF Still, widget
<1>6. inst = "live" /\ "rows" \notin loose \cup out => c = s
  BY <1>2 DEF Core, Synced, AskReset
<1>7. out \subseteq {"rows"}
  OBVIOUS
<1>8. Core'
  <2> HIDE DEF c, s, out
  <2> QED BY <1>1, <1>2, <1>3, <1>4, <1>5, <1>6, <1>7, SettleCore
<1>9. calls' \in 0..MaxCalls
  BY <1>1, RestOfInv, CallCounted
<1>10. Rest' /\ FlagsOK' /\ ClickInv'
  BY <1>1, <1>9, RestOfInv, RestStill DEF Rest, FlagsOK, native, list
<1> QED BY <1>8, <1>10, Together

LEMMA SelectAllInv ==
  ASSUME IInv, NEW kind \in {"selectAll", "deselectAll"}, NEW justVisible \in BOOLEAN,
         SelectAll(kind, justVisible)
  PROVE  IInv'
<1> DEFINE v == kind = "selectAll"
<1>1. /\ Call(kind) /\ SetAll(justVisible, v, TRUE)
      /\ UNCHANGED <<native, off, list, sight, search, widget, open, caption, last, click>>
  BY DEF SelectAll
<1>2. v \in BOOLEAN /\ TRUE \in BOOLEAN /\ caption' = caption /\ Still
  BY <1>1 DEF Still, widget
<1>3. Core'
  <2> HIDE DEF v
  <2> QED BY <1>1, <1>2, CoreOfInv, SetAllCore
<1>4. calls' \in 0..MaxCalls
  BY <1>1, RestOfInv, CallCounted
<1>5. Rest' /\ FlagsOK' /\ ClickInv'
  BY <1>1, <1>4, RestOfInv, RestStill DEF Rest, FlagsOK, native, list
<1> QED BY <1>3, <1>5, Together

LEMMA ClearSelectionInv == ASSUME IInv, ClearSelection PROVE IInv'
<1>1. Core'
  BY CoreOfInv, ResetCore DEF ClearSelection
<1>2. calls' \in 0..MaxCalls
  BY RestOfInv, CallCounted DEF ClearSelection
<1>3. Rest' /\ FlagsOK' /\ ClickInv'
  BY <1>2, RestOfInv, RestStill DEF ClearSelection, Reset, Rest, FlagsOK, native, list
<1> QED BY <1>1, <1>3, Together

\* refresh sets boxes only of options that have a row; if it reaches all of them
\* and the rows are those of the select, they show it again.
LEMMA RefreshCore == ASSUME Core, RefreshRows PROVE Core'
<1> DEFINE lacking == {o \in OptionsIn(content) \ Range(built) :
                         ~(HasFilter /\ ValueOf[box] = o)}
           done == {o \in OptionsIn(content) \cap Range(built) :
                      \A m \in lacking : Pos(content, o) < Pos(content, m)}
           c == (checked \ done) \cup (done \cap selected)
           f == (off \ done) \cup (done \cap DisabledIn(content, dis))
<1>1. /\ off' = f
      /\ IF lacking # {} THEN Abort(c, selected) /\ UNCHANGED marks
         ELSE /\ checked' = c /\ selected' = selected
              /\ marks' = MarksFor(built, c, conf, hidden, f)
              /\ caption' = CaptionFor(selected, content, conf, frozen)
              /\ loose' = (loose \ {"marks", "caption"}) \ {x \in {"rows"} : built = content}
      /\ UNCHANGED <<native, list, sight, search, widget, open, last, click>>
  BY DEF RefreshRows, NewCaption
<1> USE DEF native, list, sight, search, widget
<1>2. done \subseteq OptionsIn(built) /\ done \subseteq OptionsIn(content)
  BY DEF OptionsIn
<1>3. lacking = {} => done = OptionsIn(content) \cap Range(built)
  OBVIOUS
<1> HIDE DEF lacking, done
<1>4. c \subseteq OptionsIn(built) /\ f \subseteq OptionsIn(built)
  BY <1>2 DEF Core, RowsOK
<1>5. CASE lacking # {}
  <2>1. checked' = c /\ selected' = selected /\ caption' = caption /\ marks' = marks
        /\ loose' = loose \cup {"rows", "marks", "caption"}
    BY <1>1, <1>5 DEF Abort
  <2>2. SelectOK' /\ RowsOK'
    BY <1>1, <1>4, <2>1 DEF Core, SelectOK, RowsOK
  <2>3. Synced' /\ MarksRight' /\ CaptionRight' /\ SearchInv'
    BY <1>1, <2>1 DEF Core, Synced, MarksRight, CaptionRight, SearchInv
  <2> QED BY <1>1, <2>1, <2>2, <2>3 DEF Core, Flags
<1>6. CASE lacking = {}
  <2>1. /\ checked' = c /\ selected' = selected
        /\ marks' = MarksFor(built, c, conf, hidden, f)
        /\ caption' = CaptionFor(selected, content, conf, frozen)
        /\ loose' = (loose \ {"marks", "caption"}) \ {x \in {"rows"} : built = content}
    BY <1>1, <1>6
  <2>2. SelectOK'
    BY <1>1, <2>1 DEF Core, SelectOK
  <2>3. RowsOK'
    <3> HIDE DEF c, f
    <3> QED BY <1>1, <1>4, <2>1, MarksType DEF Core, RowsOK
  <2>4. Synced'
    <3> SUFFICES ASSUME inst = "live", "rows" \notin loose'
                 PROVE  built = content /\ c = selected /\ f = DisabledIn(content, dis)
      BY <1>1, <2>1 DEF Synced
    <3>1. built = content
      BY <2>1 DEF Core, Synced
    <3>2. done = OptionsIn(content)
      BY <1>3, <1>6, <3>1 DEF OptionsIn
    <3>3. checked \subseteq done /\ off \subseteq done /\ selected \subseteq done
      BY <3>1, <3>2 DEF Core, RowsOK, SelectOK
    <3>4. DisabledIn(content, dis) \subseteq done
      BY <3>2 DEF DisabledIn
    <3> QED BY <3>1, <3>3, <3>4
  <2>5. MarksRight' /\ CaptionRight'
    <3> HIDE DEF c, f
    <3> QED BY <1>1, <2>1 DEF MarksRight, CaptionRight
  <2>6. SearchInv' /\ (hidden \subseteq unseen)'
    BY <1>1, <2>1 DEF Core, SearchInv
  <2>7. (caption.title \subseteq Options)'
    <3>1. caption'.title = selected
      BY <2>1, CaptionTitle
    <3> QED BY <3>1 DEF Core, SelectOK, OptionsIn
  <2>8. loose' \subseteq Flags
    BY <2>1 DEF Core, Flags
  <2> QED BY <2>2, <2>3, <2>4, <2>5, <2>6, <2>7, <2>8 DEF Core, Flags
<1> QED BY <1>5, <1>6

LEMMA RefreshInv == ASSUME IInv, Refresh PROVE IInv'
<1>1. Core'
  BY CoreOfInv, RefreshCore DEF Refresh
<1>2. calls' \in 0..MaxCalls
  BY RestOfInv, CallCounted DEF Refresh
<1>3. Rest' /\ FlagsOK' /\ ClickInv'
  BY <1>2, RestOfInv, RestStill DEF Refresh, RefreshRows, Rest, FlagsOK, native, list
<1> QED BY <1>1, <1>3, Together

\* The caption depends on whether the widget is enabled only with a text for it.
LEMMA CaptionFrozen ==
  ASSUME NEW s, NEW b, NEW cf, NEW y \in BOOLEAN, NEW z \in BOOLEAN,
         cf.disabledText => y = z \/ (s = {} /\ cf.ifEmpty)
  PROVE  CaptionFor(s, b, cf, y) = CaptionFor(s, b, cf, z)
BY DEF CaptionFor

LEMMA FreezeInv ==
  ASSUME IInv, calls' \in 0..MaxCalls, NEW z \in BOOLEAN, Freeze(z) PROVE IInv'
<1>1. /\ frozen' = z
      /\ loose' = loose \cup {x \in {"caption"} : conf.disabledText /\ frozen # z}
      /\ UNCHANGED <<content, selected, dis, checked, marks, off, list, sight, search,
                     widget, open, caption, last, click>>
  BY DEF Freeze
<1> USE DEF list, sight, search, widget
<1>2. Core /\ Rest /\ FlagsOK /\ ClickInv
  BY CoreOfInv, RestOfInv
<1>3. SelectOK' /\ RowsOK'
  BY <1>1, <1>2 DEF Core, SelectOK, RowsOK
<1>4. Synced' /\ MarksRight' /\ SearchInv'
  BY <1>1, <1>2 DEF Core, Synced, MarksRight, SearchInv
<1>5. CaptionRight'
  <2> SUFFICES ASSUME inst = "live", "caption" \notin loose'
               PROVE  caption = CaptionFor(selected, content, conf, z)
    BY <1>1 DEF CaptionRight
  <2>1. caption = CaptionFor(selected, content, conf, frozen)
    BY <1>1, <1>2 DEF Core, CaptionRight
  <2>2. conf.disabledText => frozen = z
    BY <1>1
  <2>3. frozen \in BOOLEAN
    BY <1>2 DEF FlagsOK
  <2> QED BY <2>1, <2>2, <2>3, CaptionFrozen
<1>6. Core'
  BY <1>1, <1>2, <1>3, <1>4, <1>5 DEF Core, Flags
<1>7. Rest'
  BY <1>1, <1>2 DEF Rest
<1>8. FlagsOK'
  BY <1>1, <1>2 DEF FlagsOK
<1>9. ClickInv'
  BY <1>1, <1>2 DEF ClickInv
<1> QED BY <1>6, <1>7, <1>8, <1>9, Together

----------------------------------------------------------------------------
(* Building and destroying the widget. *)

\* The part of Core that building the rows brings about.
LEMMA BuildCore ==
  ASSUME NEW b \in Contents, NEW d \in Disablings, NEW s, s \subseteq OptionsIn(b),
         NEW cf \in Conf, Build(b, s, d, cf),
         frozen \in BOOLEAN, frozen' \in BOOLEAN,
         content' = b, selected' = s, dis' = d, loose' \subseteq Flags,
         "caption" \notin loose' =>
           (cf.disabledText => frozen = frozen' \/ (s = {} /\ cf.ifEmpty)),
         "filter" \notin loose' => query' = NoText /\ timer' = NoTimer
  PROVE  Core'
<1> DEFINE f == DisabledIn(b, d)
           away == {o \in OptionsIn(b) : cf.folded /\ Owner[o] # NoGroup}
<1>1. /\ built' = b /\ checked' = s /\ off' = f
      /\ folded' = away /\ unseen' = away /\ hidden' = {}
      /\ marks' = MarksFor(b, s, cf, {}, f)
      /\ caption' = CaptionFor(s, b, cf, frozen)
      /\ box' = NoText /\ conf' = cf
  BY DEF Build
<1>2. f \subseteq OptionsIn(b) /\ away \subseteq OptionsIn(b)
  BY DEF DisabledIn
<1> HIDE DEF f, away
<1>3. SelectOK'
  BY DEF SelectOK
<1>4. RowsOK'
  BY <1>1, <1>2, MarksType DEF RowsOK, OptionsIn
<1>5. Synced' /\ MarksRight'
  BY <1>1 DEF Synced, MarksRight, f
<1>6. CaptionRight'
  BY <1>1, CaptionFrozen DEF CaptionRight
<1>7. SearchInv'
  BY <1>1, NothingHidden DEF SearchInv
<1>8. (caption.title \subseteq Options)' /\ (hidden \subseteq unseen)'
  BY <1>1, CaptionTitle DEF OptionsIn
<1> QED BY <1>3, <1>4, <1>5, <1>6, <1>7, <1>8 DEF Core, Flags

\* A disabled-if-empty select without options has no selection.
LEMMA EmptyFrozen ==
  ASSUME NEW b, NEW cf \in Conf, NEW s, s \subseteq OptionsIn(b)
  PROVE  Empty(b, cf) \in BOOLEAN /\ (Empty(b, cf) => s = {} /\ cf.ifEmpty)
BY DEF Empty, Conf

LEMMA RenewInv ==
  ASSUME IInv, click = NoClick, calls' \in 0..MaxCalls,
         NEW b \in Contents, NEW d \in Disablings, NEW s, s \subseteq OptionsIn(b),
         NEW cf \in Conf, Renew(b, s, d, cf)
  PROVE  IInv'
<1>1. /\ Build(b, s, d, cf)
      /\ handlers' = MoreHandlers(handlers)
      /\ last' = (IF last = NoRow THEN NoRow ELSE Detached)
      /\ frozen' = Empty(b, cf)
      /\ reset' = FALSE
      /\ loose' = {x \in {"filter"} : query # NoText \/ timer # NoTimer}
                    \cup {x \in {"caption"} : cf.disabledText /\ frozen /\ ~Empty(b, cf)}
      /\ content' = b /\ selected' = s /\ dis' = d
      /\ UNCHANGED <<query, timer, inst, open, click, wasFrozen>>
  BY DEF Renew
<1>2. Rest /\ FlagsOK /\ ClickInv
  BY RestOfInv
<1>3. frozen \in BOOLEAN /\ frozen' \in BOOLEAN
  BY <1>1, <1>2, EmptyFrozen DEF FlagsOK
<1>4. Core'
  <2>1. loose' \subseteq Flags
    BY <1>1 DEF Flags
  <2>2. "caption" \notin loose' =>
          (cf.disabledText => frozen = frozen' \/ (s = {} /\ cf.ifEmpty))
    BY <1>1, <1>3, EmptyFrozen
  <2>3. "filter" \notin loose' => query' = NoText /\ timer' = NoTimer
    BY <1>1
  <2> QED BY <1>1, <1>3, <2>1, <2>2, <2>3, BuildCore
<1>5. Rest'
  <2>1. box' = NoText /\ conf' = cf
    BY <1>1 DEF Build
  <2>2. handlers' \in 1..3
    BY <1>1, <1>2 DEF Rest, MoreHandlers
  <2>3. last' \in Options \cup {NoRow, Detached}
    BY <1>1
  <2> QED BY <1>1, <1>2, <2>1, <2>2, <2>3, TextsAssumption DEF Rest
<1>6. FlagsOK'
  BY <1>1, <1>2, <1>3 DEF FlagsOK
<1>7. ClickInv'
  BY <1>1, <1>2 DEF ClickInv
<1> QED BY <1>4, <1>5, <1>6, <1>7, Together

LEMMA DestroyInv == ASSUME IInv, Destroy PROVE IInv'
<1>1. Core
  BY CoreOfInv
<1>2. SelectOK'
  BY <1>1 DEF Destroy, Core, SelectOK
<1>3. RowsOK'
  BY DEF Destroy, RowsOK
<1>4. Synced' /\ MarksRight' /\ CaptionRight' /\ SearchInv'
  BY DEF Destroy, Synced, MarksRight, CaptionRight, SearchInv
<1>5. (hidden \subseteq unseen)' /\ (caption.title \subseteq Options)' /\ loose' \subseteq Flags
  BY DEF Destroy, Blank
<1>6. Core'
  BY <1>2, <1>3, <1>4, <1>5 DEF Core, Flags
<1>7. Rest /\ FlagsOK /\ ClickInv
  BY RestOfInv
<1>8. Rest'
  <2>1. calls' \in 0..MaxCalls
    BY <1>7, CallCounted DEF Destroy
  <2> QED BY <1>7, <2>1, TextsAssumption DEF Destroy, Rest
<1>9. FlagsOK'
  BY <1>7 DEF Destroy, FlagsOK
<1>10. ClickInv'
  BY DEF Destroy, Call, Idle, ClickInv
<1> QED BY <1>6, <1>8, <1>9, <1>10, Together

LEMMA ConstructInv == ASSUME IInv, NEW cf \in Conf, Construct(cf) PROVE IInv'
<1>1. /\ inst = "none" /\ inst' = "live"
      /\ Build(content, selected, dis, cf)
      /\ query' = NoText /\ timer' = NoTimer
      /\ reset' = cf.reset /\ open' = FALSE /\ last' = NoRow /\ handlers' = 1
      /\ wasFrozen' = frozen /\ frozen' = (frozen \/ Empty(content, cf))
      /\ loose' = {}
      /\ UNCHANGED <<content, selected, dis, click, calls>>
  BY DEF Construct
<1>2. Core /\ Rest /\ FlagsOK /\ ClickInv
  BY CoreOfInv, RestOfInv
<1>3. SelectOK
  BY <1>2 DEF Core
<1>4. frozen \in BOOLEAN /\ Empty(content, cf) \in BOOLEAN
  BY <1>2, <1>3, EmptyFrozen DEF FlagsOK, SelectOK
<1>5. Core'
  <2>1. frozen' \in BOOLEAN
    BY <1>1, <1>4
  <2>2. cf.disabledText => frozen = frozen' \/ (selected = {} /\ cf.ifEmpty)
    BY <1>1, <1>3, <1>4, EmptyFrozen DEF SelectOK
  <2> QED BY <1>1, <1>3, <1>4, <2>1, <2>2, BuildCore DEF SelectOK
<1>6. Rest'
  <2>1. box' = NoText /\ conf' = cf
    BY <1>1 DEF Build
  <2> QED BY <1>1, <1>2, <2>1, TextsAssumption DEF Rest
<1>7. FlagsOK'
  <2>1. reset' \in BOOLEAN
    BY <1>1 DEF Conf
  <2> QED BY <1>1, <1>4, <2>1 DEF FlagsOK
<1>8. ClickInv'
  BY <1>1, <1>2 DEF ClickInv
<1> QED BY <1>5, <1>6, <1>7, <1>8, Together

----------------------------------------------------------------------------
(* Every step. *)

LEMMA UserStepInv == ASSUME IInv, UserStep PROVE IInv'
<1>1. CASE OpenClose
  BY <1>1, OpenCloseInv
<1>2. CASE ClickAll
  BY <1>2, ClickAllInv
<1>3. CASE ClickReset
  BY <1>3, ClickResetInv
<1>4. CASE ClearFilter
  BY <1>4, ClearFilterInv
<1>5. CASE \E r \in Options : Click(r) \/ Key(r)
  BY <1>5, ClickedInv, KeyInv
<1>6. CASE \E r \in Options, onLabel \in BOOLEAN : ShiftClick(r, onLabel)
  BY <1>6, ShiftClickInv
<1>7. CASE \E g \in Groups : ClickGroup(g) \/ Collapse(g)
  BY <1>7, ClickGroupInv, CollapseInv
<1>8. CASE \E t \in Texts : Type(t)
  BY <1>8, TypeInv
<1> QED BY <1>1, <1>2, <1>3, <1>4, <1>5, <1>6, <1>7, <1>8 DEF UserStep

LEMMA PageStepInv == ASSUME IInv, PageStep PROVE IInv'
<1> DEFINE Called == click = NoClick /\ calls' \in 0..MaxCalls
<1>0. ASSUME NEW kind, Call(kind) PROVE Called
  BY <1>0, RestOfInv, CallCounted DEF Idle
<1>1. SelectOK /\ conf \in Conf
  BY RestOfInv, CoreOfInv DEF Core, Rest
<1>2. ASSUME NEW b \in Contents, NEW d \in Disablings, NEW s \in SUBSET Options,
             PageEdit(b, s, d)
      PROVE  IInv'
  BY <1>2, PageEditInv
<1>3. ASSUME NEW b \in Contents, NEW d \in Disablings, NEW s \in SUBSET Options,
             DataProvider(b, s, d)
      PROVE  IInv'
  <2>1. Called /\ Renew(b, s, d, conf) /\ s \subseteq OptionsIn(b)
    BY <1>0, <1>3, SelectionsType DEF DataProvider
  <2> QED BY <1>1, <2>1, RenewInv
<1>4. CASE \E S \in SUBSET Options : Select(S) \/ Deselect(S)
  BY <1>4, SelectInv, DeselectInv
<1>5. CASE \E kind \in {"selectAll", "deselectAll"}, v \in BOOLEAN : SelectAll(kind, v)
  BY <1>5, SelectAllInv
<1>6. ASSUME NEW cf \in Configs, SetOptions(cf) PROVE IInv'
  <2>1. cf \in Conf
    BY PageAssumption
  <2>2. Called /\ Renew(content, selected, dis, cf)
    BY <1>0, <1>6 DEF SetOptions
  <2> QED BY <1>1, <2>1, <2>2, RenewInv DEF SelectOK
<1>7. CASE Rebuild
  <2>1. Called /\ Renew(content, selected, dis, conf)
    BY <1>0, <1>7 DEF Rebuild
  <2> QED BY <1>1, <2>1, RenewInv DEF SelectOK
<1>8. CASE Enable \/ Disable
  <2>1. Called
    BY <1>0, <1>8 DEF Enable, Disable
  <2> QED BY <1>8, <2>1, FreezeInv DEF Enable, Disable
<1>9. CASE ClearSelection
  BY <1>9, ClearSelectionInv
<1>10. CASE Refresh
  BY <1>10, RefreshInv
<1>11. CASE Destroy
  BY <1>11, DestroyInv
<1> QED BY <1>2, <1>3, <1>4, <1>5, <1>6, <1>7, <1>8, <1>9, <1>10, <1>11
       DEF PageStep, DisablingsOf

LEMMA NextInv == IInv /\ [Next]_vars => IInv'
<1> SUFFICES ASSUME IInv, [Next]_vars PROVE IInv'
  OBVIOUS
<1>1. CASE ConfigAnswered
  BY <1>1, ConstructInv, PageAssumption DEF ConfigAnswered
<1>2. CASE UserStep
  BY <1>2, UserStepInv
<1>3. CASE NextHandler
  BY <1>3, NextHandlerInv
<1>4. CASE SearchFires
  BY <1>4, SearchFiresInv
<1>5. CASE PageStep
  BY <1>5, PageStepInv
<1>6. CASE UNCHANGED vars
  <2> USE <1>6 DEF vars, native, list, sight, search, widget
  <2>1. Core'
    BY CoreOfInv, CoreStill DEF Still
  <2>2. Rest' /\ FlagsOK' /\ ClickInv'
    BY RestOfInv, RestStill DEF Rest, FlagsOK
  <2> QED BY <2>1, <2>2, Together
<1> QED BY <1>1, <1>2, <1>3, <1>4, <1>5, <1>6 DEF Next

\* Every state of a widget satisfies the inductive invariant.
THEOREM Invariance == Spec => []IInv
BY InitInv, NextInv, PTL DEF Spec

----------------------------------------------------------------------------
(* The properties of the runs. *)

\* Whatever is built, clicked, typed, called and rebuilt, everything keeps its
\* type: no step selects an option that is not there, checks or hides a row
\* that is not there, or leaves a click for a list without checkboxes.
THEOREM TypeCorrect == Spec => []TypeOK
<1>1. IInv => TypeOK
  BY DEF IInv
<1> QED BY <1>1, Invariance, PTL

\* The rows show the select (Synced), for every page: only the steps that the
\* property names can make them differ, and those that repair it do.
THEOREM RowsShowSelect == Spec => []Synced
<1>1. IInv => Synced
  BY DEF IInv
<1> QED BY <1>1, Invariance, PTL

\* The select-all box and the boxes of the headers are right (MarksRight), also
\* where the code sets them without looking at the rows.
THEOREM MarksAreRight == Spec => []MarksRight
<1>1. IInv => MarksRight
  BY DEF IInv
<1> QED BY <1>1, Invariance, PTL

\* The caption of the button describes the selection (CaptionRight).
THEOREM CaptionIsRight == Spec => []CaptionRight
<1>1. IInv => CaptionRight
  BY DEF IInv
<1> QED BY <1>1, Invariance, PTL

\* Once the search has run, the rows it hides are those the text in the box
\* excludes (FilterRight), although the code keeps text, query and rows apart.
THEOREM FilterIsRight == Spec => []FilterRight
<1>1. IInv => FilterRight
  BY DEF IInv, SearchInv, FilterRight
<1> QED BY <1>1, Invariance, PTL

\* In a list of checkboxes clicks without shift on rows and headers and keys on rows
\* spare disabled and hidden options, select-all spares disabled and, where it is for
\* visible options, hidden ones but for the one named in the search box, and the
\* reset row spares disabled ones (SparedUntouched), also while the rows are not
\* those of the select.
THEOREM SparedAreUntouched == Spec => SparedUntouched
<1> DEFINE spared == off \cup {o \in hidden : conf.justVisible}
           A == conf.multiple =>
                  /\ Untouched(off \cup hidden) \/ ~RowOrHeader
                  /\ Untouched(spared \ Typed(TRUE)) \/ ~ClickAll
                  /\ Untouched(off) \/ ~ClickReset
<1>1. ASSUME IInv, conf.multiple, RowOrHeader, NEW o \in off \cup hidden
      PROVE  o \in selected' <=> o \in selected
  <2>1. ASSUME NEW r \in OptionRows \ off, NEW c, NEW out, Changed(r, c, selected, out)
        PROVE  o \in selected' <=> o \in selected
    <3>1. hidden \subseteq unseen
      BY <1>1 DEF IInv
    <3>2. o # r
      BY <3>1, <2>1 DEF OptionRows
    <3>3. selected' = selected \/ selected' = Put(selected, {r}, r \in c)
      BY <1>1, <2>1 DEF Changed, Abort, Settle, Chosen
    <3> QED BY <3>2, <3>3 DEF Put
  <2>2. ASSUME NEW r \in Options, Click(r) \/ Key(r)
        PROVE  o \in selected' <=> o \in selected
    BY <2>1, <2>2 DEF Click, Key
  <2>3. ASSUME NEW g \in Groups, ClickGroup(g)
        PROVE  o \in selected' <=> o \in selected
    <3> DEFINE T == Under(built, g) \ (hidden \cup off)
               v == g \notin marks
    <3>1. selected' = Put(selected, Reached(T) \cap Range(content), v)
      BY <2>3 DEF ClickGroup, Abort
    <3>2. Reached(T) \subseteq T /\ o \notin T
      BY <1>1 DEF Reached
    <3> HIDE DEF T, v
    <3> QED BY <3>1, <3>2 DEF Put
  <2> QED BY <1>1, <2>2, <2>3 DEF RowOrHeader
<1>2. ASSUME IInv, ClickAll, NEW o \in spared \ Typed(TRUE)
      PROVE  o \in selected' <=> o \in selected
  <2> DEFINE v == AllRow \notin marks
             T == Targets(conf.justVisible)
             Y == Typed(conf.justVisible)
  <2>1. open /\ selected' = IF v THEN selected \cup (T \cap Range(content)) \cup Y
                            ELSE selected \ T
    BY <1>2 DEF ClickAll, SetAll, Using
  <2>2. o \notin T /\ o \notin Y
    BY <1>2, <2>1 DEF Targets, Typed
  <2> HIDE DEF v, T, Y
  <2> QED BY <2>1, <2>2
<1>3. ASSUME ClickReset, NEW o \in off
      PROVE  o \in selected' <=> o \in selected
  <2>1. PICK T \in SUBSET Targets(FALSE) : selected' = selected \ T
    BY <1>3 DEF ClickReset, Reset, Settle
  <2>2. o \notin T
    BY <1>3, <2>1 DEF Targets
  <2> QED BY <2>1, <2>2
<1>4. IInv => A
  BY <1>1, <1>2, <1>3 DEF Untouched
<1>5. IInv => [A]_selected
  BY <1>4
<1>6. [][A]_selected => SparedUntouched
  BY DEF SparedUntouched
<1> HIDE DEF A
<1> QED BY <1>5, <1>6, Invariance, PTL

----------------------------------------------------------------------------
(* Plain lists.  Created with its default options, as on this page, the widget *)
(* is a list of checkboxes without search, folding and boxes of headers.  As   *)
(* long as the page leaves the select to the widget, nothing the user does and *)
(* no method the page calls gets the two out of step.  The theorems are about  *)
(* every state, whatever the history.                                          *)

Plain(cf) ==
  /\ cf.multiple
  /\ ~cf.filter /\ ~cf.fold /\ ~cf.folded /\ ~cf.groups

\* Nothing is ever hidden, searched for or left out of step.
PlainInv ==
  /\ conf \in Configs
  /\ unseen = {} /\ timer = NoTimer
  /\ "rows" \notin loose

RowsInStep ==
  inst = "live" =>
    /\ built = content
    /\ checked = selected
    /\ off = DisabledIn(content, dis)
CaptionInStep ==
  inst = "live" => caption = CaptionFor(selected, content, conf, frozen)

\* An option row comes after the select-all row: its number is not 0.
LEMMA IndexPositive ==
  ASSUME RowsOK, NEW S \in SUBSET (Range(built) \cup {AllRow}), AllRow \in S,
         NEW x \in OptionsIn(built), IsFiniteSet(S)
  PROVE  Index(S, x) \in Nat \ {0}
<1> DEFINE below == {y \in S : At(y) < At(x)}
<1>1. x # AllRow
  BY ItemsAssumption DEF OptionsIn, Items
<1>2. At(AllRow) = 0 /\ At(x) \in Nat /\ At(x) > 0
  BY <1>1, ContentFacts DEF At, OptionsIn, RowsOK
<1>3. AllRow \in below
  BY <1>2
<1>4. IsFiniteSet(below) /\ Cardinality(below) \in Nat
  BY FS_Subset, FS_CardinalityType
<1>5. Cardinality(below) # 0
  BY <1>3, <1>4, FS_EmptySet
<1> QED BY <1>4, <1>5 DEF Index

\* The select-all row comes before every row: its number is 0.
LEMMA IndexOfAll ==
  ASSUME RowsOK, NEW S \in SUBSET (Range(built) \cup {AllRow})
  PROVE  Index(S, AllRow) = 0
<1>1. \A y \in S : ~(At(y) < At(AllRow))
  BY ContentFacts DEF At, RowsOK
<1>2. {y \in S : At(y) < At(AllRow)} = {}
  BY <1>1
<1> QED BY <1>2, FS_EmptySet DEF Index

LEMMA RowsFinite ==
  ASSUME RowsOK
  PROVE  IsFiniteSet(Range(built) \cup {AllRow})
<1>1. built \in Seq(Items)
  <2>1. CASE built \in Contents
    BY <2>1, ContentsAssumption
  <2>2. CASE built = <<>>
    BY <2>2
  <2> QED BY <2>1, <2>2 DEF RowsOK
<1>2. DOMAIN built = 1 .. Len(built) /\ Len(built) \in Nat
  BY <1>1
<1>3. IsFiniteSet(1 .. Len(built))
  BY <1>2, FS_Interval
<1>4. built \in Surjection(1 .. Len(built), Range(built))
  BY <1>1, <1>2 DEF Surjection, Range
<1>5. IsFiniteSet(Range(built))
  BY <1>3, <1>4, FS_Surjection
<1> QED BY <1>5, FS_AddElement

\* Where no row is hidden and no header has a box, shift+click sweeps over options
\* only: the select-all row is above every row clicked.
LEMMA PlainSweep ==
  ASSUME RowsOK, Plain(conf), unseen = {}, hidden = {}, NEW r \in OptionsIn(built)
  PROVE  Swept(r) \subseteq OptionsIn(built)
<1> DEFINE rows == Range(built) \cup {a \in {AllRow} : HasAll(built, conf)}
           to == Index(rows, r)
           from == IF last \in OptionRows THEN Index(rows, last) ELSE -1
           Covered(k) == IF from = -1 THEN k = to /\ k = Cardinality(rows) - 1
                         ELSE (from <= k /\ k <= to) \/ (to <= k /\ k <= from)
<1>1. rows \ unseen = rows /\ rows \ hidden = rows
  OBVIOUS
<1>2. \A x \in Swept(r) : x \in rows /\ Covered(Index(rows, x)) /\ x \notin Groups
  BY <1>1 DEF Swept, HasGroups, Plain
<1>3. AllRow \notin Swept(r)
  <2> SUFFICES ASSUME AllRow \in Swept(r) PROVE FALSE
    OBVIOUS
  <2>1. AllRow \in rows /\ rows \subseteq Range(built) \cup {AllRow} /\ IsFiniteSet(rows)
    BY <1>2, RowsFinite, FS_Subset
  <2>2. to \in Nat \ {0}
    <3> HIDE DEF rows
    <3> QED BY <2>1, IndexPositive
  <2>3. from \in Nat \ {0} \/ from = -1
    <3>1. last \in OptionRows => last \in OptionsIn(built)
      BY DEF OptionRows
    <3> HIDE DEF rows
    <3> QED BY <2>1, <3>1, IndexPositive
  <2>4. Index(rows, AllRow) = 0
    <3> HIDE DEF rows
    <3> QED BY <2>1, IndexOfAll
  <2>5. Covered(0)
    BY <1>2, <2>4
  <2> HIDE DEF from, to, rows
  <2> QED BY <2>2, <2>3, <2>5
<1>4. Range(built) \subseteq Options \cup Groups
  BY ContentFacts DEF RowsOK, Items
<1> QED BY <1>2, <1>3, <1>4 DEF OptionsIn

\* With rows that show the select, a change handler does not fail.
LEMMA PlainChanged ==
  ASSUME built = content, NEW r \in OptionsIn(built), NEW c, NEW s, Changed(r, c, s, {})
  PROVE  loose' \subseteq loose
BY DEF Changed, Settle, OptionsIn

\* Nor does a click handler, with or without shift.
LEMMA PlainHandler ==
  ASSUME IInv, PlainInv, Plain(conf), inst = "live",
         NEW r \in OptionsIn(built), NEW onLabel, NEW flip, NEW left,
         Handler(r, onLabel, flip, left)
  PROVE  loose' \subseteq loose
<1>1. RowsOK /\ unseen = {} /\ hidden = {} /\ built = content
  BY DEF IInv, TypeOK, Synced, PlainInv
<1>2. Swept(r) \ OptionsIn(content) = {}
  BY <1>1, PlainSweep
<1>3. \E c, s : Changed(r, c, s, {})
  BY <1>2 DEF Handler
<1> QED BY <1>1, <1>3, PlainChanged

\* What the user does to a plain list can only unsettle the select-all box.
LEMMA PlainUser ==
  ASSUME IInv, PlainInv, Plain(conf), UserStep \/ NextHandler \/ SearchFires
  PROVE  loose' \subseteq loose \cup {"marks"} /\ UNCHANGED <<conf, unseen, timer>>
<1>1. /\ unseen = {} /\ timer = NoTimer /\ ~HasFilter /\ ~HasGroups(conf)
      /\ inst = "live" => built = content
  BY DEF IInv, Synced, PlainInv, Plain, HasFilter, HasGroups
<1> USE DEF Using, Idle, page, list, sight, search, widget
<1>2. CASE OpenClose
  BY <1>2 DEF OpenClose
<1>3. ASSUME NEW r \in Options, Click(r) \/ Key(r)
      PROVE  loose' \subseteq loose /\ UNCHANGED <<conf, unseen, timer>>
  <2>1. r \in OptionsIn(built) /\ built = content
    BY <1>1, <1>3 DEF Click, Key, OptionRows
  <2>2. Changed(r, Flip(checked, r), selected, {})
    BY <1>3 DEF Click, Key, Plain
  <2> QED BY <1>3, <2>1, <2>2, PlainChanged DEF Click, Key
<1>4. ASSUME NEW r \in Options, NEW onLabel \in BOOLEAN, ShiftClick(r, onLabel)
      PROVE  loose' \subseteq loose /\ UNCHANGED <<conf, unseen, timer>>
  BY <1>4, PlainHandler DEF ShiftClick, OptionRows, Handler
<1>5. CASE NextHandler
  BY <1>5, PlainHandler DEF NextHandler, IInv, ClickInv, Handler
<1>6. CASE ClickAll
  <2>1. Typed(conf.justVisible) = {}
    BY <1>1 DEF Typed
  <2> QED BY <1>6, <2>1 DEF ClickAll, SetAll
<1>7. CASE ClickReset
  BY <1>7 DEF ClickReset, Reset, Settle
<1>8. CASE SearchFires
  BY <1>1, <1>8 DEF SearchFires
<1>9. CASE ClearFilter
  BY <1>1, <1>9 DEF ClearFilter
<1>10. CASE \E t \in Texts : Type(t)
  BY <1>1, <1>10 DEF Type
<1>11. CASE \E g \in Groups : ClickGroup(g) \/ Collapse(g)
  BY <1>1, <1>11 DEF ClickGroup, Collapse, Plain
<1> QED BY <1>2, <1>3, <1>4, <1>5, <1>6, <1>7, <1>8, <1>9, <1>10, <1>11 DEF UserStep

\* The page does not change the select behind the widget's back.
PlainPage ==
  /\ \A cf \in Configs : Plain(cf)
  /\ "edit" \notin Calls

\* Nor does it call what leaves the caption as it was.
QuietPage ==
  /\ PlainPage
  /\ \A cf \in Configs : ~cf.disabledText
  /\ Calls \cap {"selectAll", "deselectAll"} = {}

\* No method leaves the rows behind, and on a quiet page none leaves the caption.
LEMMA PlainCalls ==
  ASSUME IInv, PlainInv, PlainPage, PageStep
  PROVE  /\ PlainInv'
         /\ QuietPage => loose' \subseteq loose \cup {"marks", "filter"}
<1> USE DEF PlainInv, Call, native, list, sight, search, widget
<1>1. Plain(conf) /\ ~HasFilter /\ (inst = "live" => built = content)
  BY DEF IInv, Synced, PlainPage, Plain, HasFilter
<1>2. ASSUME NEW b, NEW s, NEW d, NEW cf \in Configs, Renew(b, s, d, cf)
      PROVE  /\ PlainInv'
             /\ QuietPage => loose' \subseteq {"filter"}
  <2>1. ~cf.folded /\ (QuietPage => ~cf.disabledText)
    BY DEF PlainPage, Plain, QuietPage
  <2>2. unseen' = {} /\ conf' = cf /\ timer' = timer
    BY <1>2, <2>1 DEF Renew, Build
  <2>3. loose' = {x \in {"filter"} : query # NoText \/ timer # NoTimer}
                   \cup {x \in {"caption"} : cf.disabledText /\ frozen /\ ~Empty(b, cf)}
    BY <1>2 DEF Renew
  <2> QED BY <2>1, <2>2, <2>3
<1>3. ASSUME NEW b, NEW s, NEW d, PageEdit(b, s, d) PROVE FALSE
  BY <1>3 DEF PageEdit, PlainPage
<1>4. ASSUME NEW b, NEW s, NEW d, DataProvider(b, s, d)
      PROVE  PlainInv' /\ (QuietPage => loose' \subseteq {"filter"})
  BY <1>2, <1>4 DEF DataProvider
<1>5. ASSUME Rebuild \/ \E cf \in Configs : SetOptions(cf)
      PROVE  PlainInv' /\ (QuietPage => loose' \subseteq {"filter"})
  BY <1>2, <1>5 DEF Rebuild, SetOptions
<1>6. ASSUME loose' \subseteq loose, UNCHANGED <<conf, unseen, timer>>
      PROVE  PlainInv' /\ (QuietPage => loose' \subseteq loose)
  BY <1>6
<1>7. ASSUME NEW S, Select(S) \/ Deselect(S)
      PROVE  loose' \subseteq loose /\ UNCHANGED <<conf, unseen, timer>>
  BY <1>1, <1>7 DEF Select, Deselect, Settle, Plain
<1>8. ASSUME NEW kind \in {"selectAll", "deselectAll"}, NEW v \in BOOLEAN, SelectAll(kind, v)
      PROVE  PlainInv' /\ ~QuietPage
  <2>1. Typed(v) = {}
    BY <1>1 DEF Typed
  <2> QED BY <1>8, <2>1 DEF SelectAll, SetAll, QuietPage
<1>9. ASSUME Enable \/ Disable
      PROVE  PlainInv' /\ (QuietPage => loose' \subseteq loose)
  <2>1. \E z : Freeze(z)
    BY <1>9 DEF Enable, Disable
  <2>2. QuietPage => ~conf.disabledText
    BY DEF QuietPage
  <2> QED BY <2>1, <2>2 DEF Freeze
<1>10. CASE ClearSelection
  BY <1>10, <1>6 DEF ClearSelection, Reset, Settle
<1>11. CASE Refresh
  <2>1. inst = "live" /\ RefreshRows
    BY <1>11 DEF Refresh, Idle
  <2> DEFINE lacking == {o \in OptionsIn(content) \ Range(built) : ~(HasFilter /\ ValueOf[box] = o)}
  <2>2. lacking = {}
    BY <1>1, <2>1 DEF OptionsIn
  <2>3. loose' = (loose \ {"marks", "caption"}) \ {x \in {"rows"} : built = content}
    BY <2>1, <2>2 DEF RefreshRows
  <2> QED BY <1>6, <2>1, <2>3 DEF RefreshRows
<1>12. CASE Destroy
  BY <1>12 DEF Destroy
<1> QED BY <1>3, <1>4, <1>5, <1>6, <1>7, <1>8, <1>9, <1>10, <1>11, <1>12 DEF PageStep

LEMMA PlainNext ==
  ASSUME IInv, PlainInv, PlainPage, [Next]_vars
  PROVE  /\ PlainInv'
         /\ QuietPage => loose' \subseteq loose \cup {"marks", "filter"}
<1>1. CASE ConfigAnswered
  <2>1. PICK cf \in Configs : Construct(cf)
    BY <1>1 DEF ConfigAnswered
  <2>2. ~cf.folded
    BY DEF PlainPage, Plain
  <2> QED BY <2>1, <2>2 DEF Construct, Build, PlainInv
<1>2. CASE UserStep \/ NextHandler \/ SearchFires
  BY <1>2, PlainUser DEF PlainInv, PlainPage
<1>3. CASE PageStep
  BY <1>3, PlainCalls
<1>4. CASE UNCHANGED vars
  BY <1>4 DEF vars, sight, search, widget, PlainInv
<1> QED BY <1>1, <1>2, <1>3, <1>4 DEF Next

\* On a page that leaves a plain list to the widget, rows and select agree after
\* every handler and every method, whatever was clicked, shift-clicked, keyed and
\* called before.
THEOREM PlainRows ==
  ASSUME PlainPage
  PROVE  Spec => []RowsInStep
<1>1. Init => PlainInv
  BY DEF Init, PlainInv
<1>2. IInv /\ PlainInv /\ [Next]_vars => PlainInv'
  BY PlainNext
<1>3. IInv /\ PlainInv => RowsInStep
  BY DEF IInv, Synced, PlainInv, RowsInStep
<1> QED BY <1>1, <1>2, <1>3, Invariance, PTL DEF Spec

\* And so do caption and selection, if the page neither calls selectAll and
\* deselectAll nor asks for a text of its own while disabled.
THEOREM PlainCaption ==
  ASSUME QuietPage
  PROVE  Spec => []CaptionInStep
<1> DEFINE Captioned == PlainInv /\ "caption" \notin loose
<1>1. Init => Captioned
  BY DEF Init, PlainInv
<1>2. IInv /\ Captioned /\ [Next]_vars => Captioned'
  BY PlainNext DEF QuietPage
<1>3. IInv /\ Captioned => CaptionInStep
  BY DEF IInv, CaptionRight, CaptionInStep
<1> QED BY <1>1, <1>2, <1>3, Invariance, PTL DEF Spec
============================================================================
