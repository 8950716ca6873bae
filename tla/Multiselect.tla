---------------------------- MODULE Multiselect ----------------------------
(***************************************************************************)
(* The widget of html/bootstrap-multiselect.js on the configuration page:  *)
(* a native select element and a drop-down list of rows that stands for    *)
(* it.  The user works on the rows, the page on the select and through the *)
(* widget's methods, and a search runs 300 ms after the last keystroke.    *)
(* Both sides keep a copy of what is selected, and the widget derives      *)
(* three more things: the select-all and group boxes, the caption of the   *)
(* button and the rows hidden by the search.                               *)
(*                                                                         *)
(* A row is named by its option or group; AllRow is the select-all row.    *)
(* loose is history: the copies that some step of the code has left        *)
(* behind and no later step has brought back.                              *)
(***************************************************************************)
EXTENDS Integers, Sequences, FiniteSets, Functions

CONSTANTS
  Options, Groups,      \* the options and optgroups the page may use
  Contents,             \* what the page may put into the select, in order
  Disablings,           \* the sets of options and groups the page may disable
  Owner, NoGroup,       \* the optgroup an option is a child of
  Texts, NoText,        \* what can be typed into the search box
  Matches,              \* the options and groups a text matches
  ValueOf,              \* the option whose value is the text, if any
  Configs,              \* the configurations the page may use
  Calls,                \* the methods the page calls
  MaxCalls,             \* bound on the page's edits and calls
  NumberDisplayed,      \* longest selection the caption spells out
  AllRow, NoRow, Detached, NoTimer, NoClick

Items == Options \cup Groups
Conf == [multiple : BOOLEAN, all : BOOLEAN, groups : BOOLEAN, fold : BOOLEAN,
         folded : BOOLEAN, filter : BOOLEAN, justVisible : BOOLEAN,
         reset : BOOLEAN, ifEmpty : BOOLEAN, disabledText : BOOLEAN]
CallKinds == {"edit", "select", "deselect", "selectAll", "deselectAll",
              "clearSelection", "refresh", "rebuild", "dataprovider",
              "enable", "disable", "setOptions", "destroy"}

ASSUME ItemsAssumption ==
  /\ IsFiniteSet(Options)
  /\ Options \cap Groups = {}
  /\ AllRow \notin Items /\ NoRow \notin Items /\ Detached \notin Items
  /\ NoRow # Detached
ASSUME ContentsAssumption ==
  /\ \A b \in Contents : b \in Seq(Items) /\ IsInjective(b)
  /\ \A d \in Disablings : d \subseteq Items
  /\ Owner \in [Options -> Groups \cup {NoGroup}] /\ NoGroup \notin Items
ASSUME TextsAssumption ==
  /\ NoText \in Texts /\ NoTimer \notin Texts
  /\ Matches \in [Texts -> SUBSET Items] /\ Matches[NoText] = Items
ASSUME PageAssumption ==
  MaxCalls \in Nat /\ Configs \subseteq Conf /\ Calls \subseteq CallKinds

VARIABLES
  content, selected, dis, frozen,          \* the native select
  built, checked, marks, off,              \* the rows and their boxes
  hidden, folded, unseen,                  \* rows out of sight, and why
  query, box, timer,                       \* the search
  inst, conf, reset, open, caption,        \* the widget
  last, handlers, click, wasFrozen,
  loose, calls                             \* history

native == <<content, dis, frozen>>
page == <<native, calls>>
list == <<built, folded>>
sight == <<hidden, unseen>>
search == <<query, box, timer>>
widget == <<inst, conf, reset, handlers, wasFrozen>>
vars == <<native, selected, checked, marks, off, list, sight, search, widget,
          open, caption, last, click, loose, calls>>

----------------------------------------------------------------------------
(* Lists of rows. *)

OptionsIn(b) == Options \cap Range(b)
GroupsIn(b) == Groups \cap Range(b)
Pos(b, x) == CHOOSE i \in DOMAIN b : b[i] = x

\* nextUntil: the option rows after g and before the next header, also those
\* that are no children of g
Under(b, g) ==
  {o \in OptionsIn(b) :
     /\ Pos(b, g) < Pos(b, o)
     /\ \A h \in GroupsIn(b) : ~(Pos(b, g) < Pos(b, h) /\ Pos(b, h) < Pos(b, o))}

\* an option is :disabled also through its optgroup
DisabledIn(b, d) == {o \in OptionsIn(b) : o \in d \/ Owner[o] \in d}
FirstEnabled(b, d) ==
  LET e == OptionsIn(b) \ DisabledIn(b, d)
  IN  {o \in e : \A p \in e : Pos(b, o) <= Pos(b, p)}

\* the rows a search for t hides: a header goes with its rows, a row stays
\* with a header that matches
HiddenBy(b, t) ==
  {o \in OptionsIn(b) : /\ o \notin Matches[t]
                        /\ \A g \in GroupsIn(b) : o \in Under(b, g) => g \notin Matches[t]}
    \cup {g \in GroupsIn(b) : g \notin Matches[t] /\ Under(b, g) \cap Matches[t] = {}}

HasAll(b, cf) == cf.multiple /\ cf.all /\ OptionsIn(b) # {}
HasGroups(cf) == cf.multiple /\ cf.groups
HasFilter == conf.filter /\ OptionsIn(built) # {}
Empty(b, cf) == cf.ifEmpty /\ OptionsIn(b) = {}

\* the boxes that decide on the select-all box
Boxes(b, h, f) == OptionsIn(b) \ (h \cup f)

\* updateSelectAll and updateOptGroups: the derived boxes that are checked
MarksFor(b, c, cf, h, f) ==
  {a \in {AllRow} : HasAll(b, cf) /\ Boxes(b, h, f) # {} /\ Boxes(b, h, f) \subseteq c}
    \cup {g \in GroupsIn(b) : HasGroups(cf) /\ Under(b, g) \ (h \cup f) \subseteq c}

\* buttonText as one of five kinds, and buttonTitle, which lists what is selected
CaptionFor(s, b, cf, z) ==
  [text |-> IF cf.disabledText /\ (z \/ (s = {} /\ cf.ifEmpty)) THEN "disabled"
            ELSE IF s = {} THEN "none"
            ELSE IF s = OptionsIn(b) /\ Cardinality(s) # 1 /\ cf.multiple THEN "all"
            ELSE IF NumberDisplayed # 0 /\ Cardinality(s) > NumberDisplayed THEN "count"
            ELSE "list",
   title |-> s]

DisablingsOf(b) == {d \in Disablings : d \subseteq Range(b)}

\* What the browser accepts as a selection, and what it makes of an empty one.
Selections(b, d, cf) ==
  IF cf.multiple THEN SUBSET OptionsIn(b)
  ELSE {{o} : o \in OptionsIn(b)}
         \cup {s \in {{}} : FirstEnabled(b, d) = {}}
AskReset(s) ==
  IF conf.multiple \/ s # {} THEN s ELSE FirstEnabled(content, dis)

----------------------------------------------------------------------------
(* Building and destroying the widget. *)

Blank == [text |-> "none", title |-> {}]

\* The rows for content b with selection s and disabled set d; the caption is
\* written while the select is still as enabled as it was.
Build(b, s, d, cf) ==
  LET f == DisabledIn(b, d)
      away == {o \in OptionsIn(b) : cf.folded /\ Owner[o] # NoGroup}
  IN /\ built' = b /\ checked' = s /\ off' = f
     /\ folded' = away /\ unseen' = away /\ hidden' = {}
     /\ marks' = MarksFor(b, s, cf, {}, f)
     /\ caption' = CaptionFor(s, b, cf, frozen)
     /\ box' = NoText /\ conf' = cf

Init ==
  /\ content \in Contents /\ dis \in DisablingsOf(content) /\ conf \in Configs
  /\ selected \in Selections(content, dis, conf) /\ frozen \in BOOLEAN
  /\ inst = "none" /\ built = <<>> /\ caption = Blank
  /\ checked = {} /\ marks = {} /\ off = {}
  /\ hidden = {} /\ folded = {} /\ unseen = {}
  /\ query = NoText /\ box = NoText /\ timer = NoTimer
  /\ reset = FALSE /\ open = FALSE /\ last = NoRow /\ handlers = 1
  /\ click = NoClick /\ wasFrozen = FALSE /\ loose = {} /\ calls = 0

\* The page calls multiselect() on a select that has no widget yet.
Construct(cf) ==
  /\ inst = "none" /\ cf.multiple = conf.multiple
  /\ inst' = "live"
  /\ Build(content, selected, dis, cf)
  /\ query' = NoText /\ timer' = NoTimer
  /\ reset' = cf.reset /\ open' = FALSE /\ last' = NoRow /\ handlers' = 1
  /\ wasFrozen' = frozen /\ frozen' = (frozen \/ Empty(content, cf))
  /\ loose' = {}
  /\ UNCHANGED <<content, selected, dis, click, calls>>

\* The page's request for the stored configuration is answered or fails:
\* either way the widget is created.
ConfigAnswered == \E cf \in Configs : Construct(cf)

\* Nothing else runs between the handlers of one click.
Idle == inst = "live" /\ click = NoClick
Call(kind) == Idle /\ kind \in Calls /\ calls < MaxCalls /\ calls' = calls + 1

\* rebuild binds the click handler once more and never unbinds it.  From the
\* second handler on, what they do together repeats with period 2.
MoreHandlers(n) == IF n = 3 THEN 2 ELSE n + 1

Renew(b, s, d, cf) ==
  /\ Build(b, s, d, cf)
  /\ handlers' = MoreHandlers(handlers)
  /\ last' = (IF last = NoRow THEN NoRow ELSE Detached)
  /\ frozen' = Empty(b, cf)
  /\ reset' = FALSE
  /\ loose' = {x \in {"filter"} : query # NoText \/ timer # NoTimer}
                \cup {x \in {"caption"} : cf.disabledText /\ frozen /\ ~Empty(b, cf)}
  /\ content' = b /\ selected' = s /\ dis' = d
  /\ UNCHANGED <<query, timer, inst, open, click, wasFrozen>>

Rebuild == Call("rebuild") /\ Renew(content, selected, dis, conf)
SetOptions(cf) ==        \* setOptions and rebuild
  /\ Call("setOptions") /\ cf.multiple = conf.multiple
  /\ Renew(content, selected, dis, cf)
DataProvider(b, s, d) ==
  /\ Call("dataprovider") /\ s \in Selections(b, d, conf)
  /\ Renew(b, s, d, conf)

Destroy ==
  /\ Call("destroy")
  /\ inst' = "none" /\ frozen' = wasFrozen
  /\ built' = <<>> /\ checked' = {} /\ marks' = {} /\ off' = {}
  /\ hidden' = {} /\ folded' = {} /\ unseen' = {} /\ caption' = Blank
  /\ query' = NoText /\ box' = NoText /\ timer' = NoTimer
  /\ reset' = FALSE /\ open' = FALSE /\ last' = NoRow /\ handlers' = 1
  /\ wasFrozen' = FALSE /\ loose' = {}
  /\ UNCHANGED <<content, selected, dis, conf, click>>

Freeze(z) ==
  /\ frozen' = z
  /\ loose' = loose \cup {x \in {"caption"} : conf.disabledText /\ frozen # z}
  /\ UNCHANGED <<content, selected, dis, checked, marks, off, list, sight, search,
                 widget, open, caption, last, click>>
Enable == Call("enable") /\ frozen /\ Freeze(FALSE)
Disable == Call("disable") /\ ~frozen /\ Freeze(TRUE)

----------------------------------------------------------------------------
(* What the handlers and methods have in common. *)

Flip(c, r) == (c \ {r}) \cup ({r} \ c)
Put(c, T, v) == IF v THEN c \cup T ELSE c \ T

NewCaptionWrong(s) == CaptionFor(selected, content, conf, frozen)
NewCaption(s) == CaptionFor(s, content, conf, frozen)

\* Rows and selection are now c and s, and all that is derived follows.
Settle(c, s, out) ==
  /\ checked' = c /\ selected' = s
  /\ marks' = MarksFor(built, c, conf, hidden, off)
  /\ caption' = NewCaption(s)
  /\ loose' = (loose \ {"marks", "caption"}) \cup out

\* A handler met a row without an option and ended there with a TypeError.
Abort(c, s) ==
  /\ checked' = c /\ selected' = s
  /\ loose' = loose \cup {"rows", "marks", "caption"}
  /\ UNCHANGED caption

ChosenWrong(s, r, v) == s \cup {r}
\* The selection after the change handler ran for option r, now v.
Chosen(s, r, v) ==
  IF conf.multiple THEN Put(s, {r}, v)
  ELSE IF v THEN {r} ELSE AskReset(s \ {r})

\* The change handler of option row r, the rows being c: with radio buttons it
\* clears the others and closes the list by a click on the button, which does
\* nothing while the button is disabled.
Changed(r, c, s, out) ==
  LET v == r \in c
  IN IF r \notin Range(content)
     THEN Abort(c, s) /\ UNCHANGED <<marks, open>>
     ELSE /\ Settle(IF v /\ ~conf.multiple THEN {r} ELSE c, Chosen(s, r, v), out)
          /\ open' = (open /\ (conf.multiple \/ ~v \/ frozen))

\* Rows of T that a handler reaches, in order, before one without an option
\* stops it; it still changes the box of that one.
Reached(T) ==
  {x \in T : \A y \in T \ Range(content) : Pos(built, x) <= Pos(built, y)}
TargetsOfSelectWrong(justVisible) == OptionsIn(content) \ DisabledIn(content, dis)
TargetsWrong(justVisible) == OptionsIn(built) \ off
Targets(justVisible) ==
  LET rows == OptionsIn(built) \ off
  IN  IF ~justVisible THEN rows
      ELSE IF open THEN rows \ (hidden \cup unseen) ELSE {}

\* selectAll asks for the value of every input it finds, and the search box is
\* one of them.
Typed(justVisible) ==
  {o \in OptionsIn(content) :
     HasFilter /\ (open \/ ~justVisible) /\ ValueOf[box] = o}

\* selectAll and deselectAll: the select-all box is set, not computed.  Called
\* by the page, neither rewrites the caption.
SetAll(justVisible, v, quiet) ==
  LET T == Targets(justVisible)
      c == Put(checked, T, v)
      B == Boxes(built, hidden, off)
      right == IF v THEN B # {} /\ B \subseteq T ELSE B = {} \/ B \cap T # {}
  IN /\ checked' = c
     /\ selected' = IF v THEN selected \cup (T \cap Range(content)) \cup Typed(justVisible)
                    ELSE selected \ T
     /\ marks' = (MarksFor(built, c, conf, hidden, off) \ {AllRow})
                   \cup {a \in {AllRow} : v /\ HasAll(built, conf)}
     /\ loose' = (loose \ {"marks", "caption"})
                   \cup {x \in {"caption"} : quiet}
                   \cup {x \in {"marks"} : HasAll(built, conf) /\ ~right}
                   \cup {x \in {"rows"} : v /\ ~(Typed(justVisible) \subseteq T)}

AfterSearchWrong(h) == marks
\* The marks after a search hid the rows h.
AfterSearch(h) == MarksFor(built, checked, conf, h, off)

----------------------------------------------------------------------------
(* What the user does with the open list. *)

Using == Idle /\ open
OptionRows == OptionsIn(built) \ unseen

OpenClose ==
  /\ Idle /\ (open \/ ~frozen)
  /\ open' = ~open
  /\ UNCHANGED <<page, selected, checked, marks, off, list, sight, search,
                 widget, caption, last, click, loose>>

Click(r) ==
  /\ Using /\ r \in OptionRows \ off
  /\ conf.multiple \/ r \notin checked
  /\ Changed(r, Flip(checked, r), selected, {})
  /\ last' = r
  /\ UNCHANGED <<page, off, list, sight, search, widget, click>>

\* Space or Enter on a focused row: no click, and a radio button can be unset,
\* upon which the browser selects the first enabled option.
Key(r) ==
  /\ Using /\ r \in OptionRows \ off
  /\ Changed(r, Flip(checked, r), selected,
             {x \in {"rows"} : ~conf.multiple /\ r \in checked})
  /\ UNCHANGED <<page, off, list, sight, search, widget, last, click>>

ClickAll ==
  /\ Using /\ HasAll(built, conf)
  /\ SetAll(conf.justVisible, AllRow \notin marks, FALSE)
  /\ caption' = NewCaption(selected')
  /\ UNCHANGED <<page, off, list, sight, search, widget, open, last, click>>

\* The box of a header: its own mark is as clicked, other headers' stay.
ClickGroup(g) ==
  LET v == g \notin marks
      T == Under(built, g) \ (hidden \cup off)
      c == Put(checked, Reached(T), v)
      s == Put(selected, Reached(T) \cap Range(content), v)
  IN /\ Using /\ HasGroups(conf) /\ g \in GroupsIn(built) \ unseen
     /\ IF T \subseteq Range(content)
        THEN /\ checked' = c /\ selected' = s
             /\ marks' = (MarksFor(built, c, conf, hidden, off) \cap {AllRow})
                           \cup (Flip(marks, g) \ {AllRow})
             /\ caption' = NewCaption(s)
             /\ loose' = (loose \ {"caption"}) \cup {x \in {"marks"} : T = {}}
        ELSE Abort(c, s) /\ marks' = Flip(marks, g)
     /\ UNCHANGED <<page, off, list, sight, search, widget, open, last, click>>

Collapse(g) ==
  LET rows == Under(built, g) \ hidden
      away == rows \cap folded = {}
  IN /\ Using /\ conf.multiple /\ conf.fold /\ g \in GroupsIn(built) \ unseen
     /\ folded' = Put(folded, rows, away) /\ unseen' = Put(unseen, rows, away)
     /\ UNCHANGED <<page, selected, checked, marks, off, built, hidden, search,
                    widget, open, caption, last, click, loose>>

\* Shift+click takes the rows between the last clicked one and this one.  Both
\* are counted among the visible rows, and the numbers used among those that
\* the search has not hidden.
At(x) == IF x = AllRow THEN 0 ELSE Pos(built, x)
Index(S, x) == Cardinality({y \in S : At(y) < At(x)})
Swept(r) ==
  LET rows == Range(built) \cup {a \in {AllRow} : HasAll(built, conf)}
      to == Index(rows \ unseen, r)
      from == IF last \in OptionRows THEN Index(rows \ unseen, last) ELSE -1
      Covered(k) ==          \* slice(-1, to + 1) is at most the last row
        IF from = -1 THEN k = to /\ k = Cardinality(rows \ hidden) - 1
        ELSE (from <= k /\ k <= to) \/ (to <= k /\ k <= from)
      span == {x \in rows \ hidden : Covered(Index(rows \ hidden, x))}
  IN  IF last = NoRow THEN {} ELSE {x \in span : x \notin Groups \/ HasGroups(conf)}

\* One click handler.  On a label it toggles the box itself, also a disabled
\* one; on a box the browser has done so before the first handler and sends a
\* change event after the last, also when a handler failed.
Handler(r, onLabel, flip, left) ==
  LET c == IF flip THEN Flip(checked, r) ELSE checked
      v == r \in c
      R == Swept(r)
      bad == R \ OptionsIn(content)
      got == {x \in R : \A y \in bad : At(x) < At(y)}
      c2 == Put(c, R \cap Options, v)
      s2 == Put(selected, got, v)
      ended == bad # {} \/ r \notin Range(content)
  IN /\ IF bad = {} THEN Changed(r, c2, s2, {})
        ELSE IF onLabel \/ r \notin Range(content)
        THEN Abort(c2, s2) /\ marks' = Put(marks, R \ Options, v) /\ UNCHANGED open
        ELSE Changed(r, c2, s2, {"rows"})
     /\ last' = IF ended THEN last ELSE r
     /\ click' = IF ~ended /\ left > 1
                 THEN [row |-> r, onLabel |-> onLabel, left |-> left - 1] ELSE NoClick
     /\ UNCHANGED <<page, off, list, sight, search, widget>>

ShiftClick(r, onLabel) ==
  /\ Using /\ conf.multiple /\ r \in OptionRows /\ (onLabel \/ r \notin off)
  /\ Handler(r, onLabel, TRUE, handlers)
NextHandler ==
  /\ click # NoClick
  /\ Handler(click.row, click.onLabel, click.onLabel, click.left)

Reset ==
  /\ LET T == {o \in Targets(FALSE) : conf.multiple}
     IN  Settle(checked \ T, selected \ T, {})
  /\ UNCHANGED <<native, off, list, sight, search, widget, open, last, click>>
ClickReset == Using /\ reset /\ Reset /\ UNCHANGED calls

----------------------------------------------------------------------------
(* The search. *)

\* Every key in the search box starts the search anew, also one that leaves the
\* text as it is.
Type(t) ==
  /\ Using /\ HasFilter
  /\ box' = t /\ timer' = t
  /\ UNCHANGED <<page, selected, checked, marks, off, list, sight, query, widget,
                 open, caption, last, click, loose>>

\* The text is that of the box in which it was typed; after a rebuild this is
\* no longer the box of the list.
SearchFires ==
  LET same == timer = query
      h == IF same THEN hidden ELSE HiddenBy(built, timer)
  IN /\ Idle /\ timer # NoTimer
     /\ timer' = NoTimer /\ query' = timer
     /\ hidden' = h /\ unseen' = IF same THEN unseen ELSE h
     /\ marks' = AfterSearch(h)
     /\ loose' = loose \ ({"marks"} \cup {x \in {"filter"} : ~same /\ timer = box})
     /\ UNCHANGED <<page, selected, checked, off, list, box, widget,
                    open, caption, last, click>>

QueryClearedWrong == query
QueryCleared == NoText
ClearFilter ==
  /\ Using /\ HasFilter
  /\ box' = NoText /\ timer' = NoTimer /\ query' = QueryCleared
  /\ hidden' = {} /\ unseen' = {}
  /\ marks' = AfterSearch({})
  /\ loose' = loose \ {"filter", "marks"}
  /\ UNCHANGED <<page, selected, checked, off, list, widget,
                 open, caption, last, click>>

----------------------------------------------------------------------------
(* What the page does with the select and the widget's methods. *)

PageEdit(b, s, d) ==
  /\ Call("edit") /\ s \in Selections(b, d, conf)
  /\ <<b, s, d>> # <<content, selected, dis>>
  /\ content' = b /\ selected' = s /\ dis' = d
  /\ loose' = loose \cup {"rows", "caption"}
  /\ UNCHANGED <<frozen, checked, marks, off, list, sight, search, widget,
                 open, caption, last, click>>

\* select and deselect skip values without an option or a row.  With radio
\* buttons select calls deselectAll, which looks for checkboxes only.
Select(S) ==
  LET T == S \cap Range(content) \cap Range(built)
  IN /\ Call("select") /\ S # {} /\ (conf.multiple \/ Cardinality(S) = 1)
     /\ Settle(checked \cup T,
               IF conf.multiple \/ T = {} THEN selected \cup T ELSE T,
               {x \in {"rows"} : ~conf.multiple /\ T # {} /\ ~(checked \subseteq T)})
     /\ UNCHANGED <<native, off, list, sight, search, widget, open, last, click>>
Deselect(S) ==
  LET T == S \cap Range(content) \cap Range(built)
  IN /\ Call("deselect") /\ S # {}
     /\ Settle(checked \ T, IF T = {} THEN selected ELSE AskReset(selected \ T),
               {x \in {"rows"} : ~conf.multiple /\ T # {}})
     /\ UNCHANGED <<native, off, list, sight, search, widget, open, last, click>>

SelectAll(kind, justVisible) ==
  /\ Call(kind) /\ kind \in {"selectAll", "deselectAll"} /\ conf.multiple
  /\ SetAll(justVisible, kind = "selectAll", TRUE)
  /\ UNCHANGED <<native, off, list, sight, search, widget, open, caption, last, click>>
ClearSelection == Call("clearSelection") /\ Reset

\* refresh stops with a TypeError at the first option without a row, unless it
\* takes the search box for its input.
RefreshRows ==
  LET lacking == {o \in OptionsIn(content) \ Range(built) : ~(HasFilter /\ ValueOf[box] = o)}
      done == {o \in OptionsIn(content) \cap Range(built) :
                 \A m \in lacking : Pos(content, o) < Pos(content, m)}
      c == (checked \ done) \cup (done \cap selected)
      f == (off \ done) \cup (done \cap DisabledIn(content, dis))
  IN /\ off' = f
     /\ IF lacking # {} THEN Abort(c, selected) /\ UNCHANGED marks
        ELSE /\ checked' = c /\ selected' = selected
             /\ marks' = MarksFor(built, c, conf, hidden, f)
             /\ caption' = NewCaption(selected)
             /\ loose' = (loose \ {"marks", "caption"}) \ {x \in {"rows"} : built = content}
     /\ UNCHANGED <<native, list, sight, search, widget, open, last, click>>
Refresh == Call("refresh") /\ RefreshRows

UserStep ==
  \/ OpenClose \/ ClickAll \/ ClickReset \/ ClearFilter
  \/ \E r \in Options : Click(r) \/ Key(r)
  \/ \E r \in Options, onLabel \in BOOLEAN : ShiftClick(r, onLabel)
  \/ \E g \in Groups : ClickGroup(g) \/ Collapse(g)
  \/ \E t \in Texts : Type(t)
PageStep ==
  \/ \E b \in Contents : \E d \in DisablingsOf(b), s \in SUBSET Options :
       PageEdit(b, s, d) \/ DataProvider(b, s, d)
  \/ \E S \in SUBSET Options : Select(S) \/ Deselect(S)
  \/ \E kind \in {"selectAll", "deselectAll"}, v \in BOOLEAN : SelectAll(kind, v)
  \/ \E cf \in Configs : SetOptions(cf)
  \/ Enable \/ Disable
  \/ ClearSelection \/ Refresh \/ Rebuild \/ Destroy
Next == ConfigAnswered \/ UserStep \/ NextHandler \/ SearchFires \/ PageStep

Spec == Init /\ [][Next]_vars

----------------------------------------------------------------------------
(* Properties. *)

CallsOf == [row : Options, onLabel : BOOLEAN, left : 1..2]
SelectOK ==
  /\ content \in Contents /\ dis \in Disablings
  /\ selected \subseteq OptionsIn(content)
RowsOK ==
  /\ built \in Contents \cup {<<>>}
  /\ checked \subseteq OptionsIn(built) /\ off \subseteq OptionsIn(built)
  /\ marks \subseteq GroupsIn(built) \cup {AllRow}
  /\ hidden \subseteq Range(built) /\ unseen \subseteq Range(built)
  /\ folded \subseteq OptionsIn(built)
WidgetOK ==
  /\ query \in Texts /\ box \in Texts /\ timer \in Texts \cup {NoTimer}
  /\ inst \in {"none", "live"} /\ conf \in Conf
  /\ caption.title \subseteq Options
  /\ last \in Options \cup {NoRow, Detached} /\ handlers \in 1..3
  /\ click \in CallsOf \cup {NoClick}
  /\ loose \subseteq {"rows", "marks", "caption", "filter"}
  /\ calls \in 0..MaxCalls
FlagsOK ==
  /\ frozen \in BOOLEAN /\ wasFrozen \in BOOLEAN
  /\ reset \in BOOLEAN /\ open \in BOOLEAN
\* Everything has its type; in particular the selection is among the select's
\* options, and boxes, hidden and folded rows are among the rows.
TypeOK == SelectOK /\ RowsOK /\ WidgetOK /\ FlagsOK

\* The rows show the select: the same options in the same order, checked
\* exactly when selected, disabled exactly when disabled.  What may break it:
\* the page changes the select and has not called refresh or rebuild; a
\* shift+click range meets a row without an option; select-all with a search
\* text that is an option's value; radio buttons unset by key or set and
\* cleared by select and deselect.
Synced ==
  inst = "live" /\ "rows" \notin loose =>
    /\ built = content
    /\ checked = selected
    /\ off = DisabledIn(content, dis)

\* The select-all box and the boxes of the headers are checked exactly when
\* all they stand for is, among the rows the search shows.  What may break it:
\* select-all with folded rows or from the page, the box of a header with no
\* rows, and a handler that failed.
MarksRight ==
  inst = "live" /\ "marks" \notin loose =>
    marks = MarksFor(built, checked, conf, hidden, off)

\* The caption describes the selection.  What may break it: a change by the
\* page, selectAll and deselectAll called by the page, enabling or disabling a
\* widget that shows a text of its own while disabled.
CaptionRight ==
  inst = "live" /\ "caption" \notin loose =>
    caption = CaptionFor(selected, content, conf, frozen)

\* Once the search has run, the rows it hides are those the text in the search
\* box excludes.  What may break it: a rebuild, which keeps the query and a
\* search under way but empties the box.
FilterRight ==
  inst = "live" /\ timer = NoTimer /\ "filter" \notin loose =>
    hidden = HiddenBy(built, box)

\* In a list of checkboxes a click without shift on a row or on a header, and a
\* key on a row, changes the selection of no option that is disabled or hidden by
\* the search.  Select-all changes none that is disabled nor, when it is for visible
\* options, a hidden one, but for the option whose value is the search text, and
\* the reset row none that is disabled.  All other ways to the selection are left
\* out: a shift+click takes disabled rows that are in its range, a radio button
\* deselects another option whatever its state, and the page may call what it
\* likes.
Untouched(S) == \A o \in S : o \in selected' <=> o \in selected
RowOrHeader ==
  \/ \E r \in Options : Click(r) \/ Key(r)
  \/ \E g \in Groups : ClickGroup(g)
SparedUntouched ==
  [][conf.multiple =>
       /\ Untouched(off \cup hidden) \/ ~RowOrHeader
       /\ Untouched((off \cup {o \in hidden : conf.justVisible}) \ Typed(TRUE)) \/ ~ClickAll
       /\ Untouched(off) \/ ~ClickReset]_selected

\* Select-all affects only visible options.
OnlyVisibleSelected ==
  [][ClickAll /\ conf.justVisible
       => \A o \in hidden : o \in selected' <=> o \in selected]_vars
=============================================================================
