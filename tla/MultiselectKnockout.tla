------------------------ MODULE MultiselectKnockout ------------------------
(***************************************************************************)
(* The widget under its Knockout binding.  The view model changes the      *)
(* select at once and the widget later: a change of the options schedules  *)
(* a rebuild after 1 ms, a change of the selection a refresh after a rate  *)
(* limit of 100 ms and 1 ms more, a change of enable a call of enable or   *)
(* disable.  The user's changes reach the view model through the           *)
(* change event of the select.  When the element is removed the widget is  *)
(* destroyed; timers that are set then still fire.                         *)
(*                                                                         *)
(* Search and groups are left out here: they do not touch the select.      *)
(*                                                                         *)
(* frozen is the state of the button; the select's own disabled flag,      *)
(* which Knockout sets at once, decides nothing without a disabledText.    *)
(***************************************************************************)
EXTENDS Multiselect

CONSTANT MaxDue         \* bound on the timers set at a time
ASSUME DueAssumption == MaxDue \in Nat /\ MaxDue >= 2
ASSUME KnockoutAssumption == \A cf \in Configs :
  ~cf.disabledText /\ ~cf.filter /\ ~cf.groups /\ ~cf.fold /\ ~cf.reset

VARIABLES
  bound,        \* the element has its binding
  vm, enabled,  \* the view model: selectedOptions (or value), enable
  due,          \* timers of 1 ms: "rebuild" and "refresh", in order
  setting,      \* timers of 0 ms: calls of enable (TRUE) and disable, in order
  limit,        \* rate-limited computeds that wait to run
  missed,       \* history: the last change of the user raised no change event
  override      \* history: a rebuild came after the last enable or disable

model == <<vm, enabled>>
timers == <<due, setting, limit>>
kvars == <<vars, bound, model, timers, missed, override>>

KoInit ==
  /\ Init
  /\ bound = FALSE /\ vm = selected /\ enabled = ~frozen
  /\ due = <<>> /\ setting = <<>> /\ limit = {}
  /\ missed = FALSE /\ override = FALSE

\* A widget made for a select that has none, and a method called on it, which
\* for rebuild binds the click handler again and drops the reset row.
Fresh(cf, rebuilt, was, z) ==
  /\ Build(content, selected, dis, cf)
  /\ inst' = "live" /\ handlers' = (IF rebuilt THEN 2 ELSE 1)
  /\ reset' = (cf.reset /\ ~rebuilt)
  /\ query' = NoText /\ timer' = NoTimer /\ open' = FALSE /\ last' = NoRow
  /\ wasFrozen' = was /\ frozen' = z /\ loose' = {}
  /\ UNCHANGED <<content, selected, dis, click>>

\* init, whose computeds run once at once, and the first update: every bound
\* widget has been rebuilt once.
Queued == <<"rebuild", "refresh">>
Bind(cf) ==
  /\ ~bound /\ click = NoClick /\ cf.multiple = conf.multiple
  /\ Len(due) + 2 <= MaxDue /\ Len(setting) < MaxDue
  /\ IF inst = "none" THEN Fresh(cf, TRUE, ~enabled, Empty(content, cf))
     ELSE Renew(content, selected, dis, cf)
  /\ bound' = TRUE /\ vm' = selected /\ missed' = FALSE /\ override' = TRUE
  /\ due' = due \o Queued /\ setting' = Append(setting, enabled)
  /\ UNCHANGED <<calls, enabled, limit>>

\* Knockout puts new options into the select and keeps what is still there.
Kept(b) ==
  IF conf.multiple \/ selected \cap Range(b) # {} THEN selected \cap Range(b)
  ELSE FirstEnabled(b, dis)
AfterOptionsWrong == due
AfterOptions == Append(due, "rebuild")
VMOptions(b) ==
  /\ bound /\ b # content /\ Len(due) < MaxDue
  /\ PageEdit(b, Kept(b), dis)
  /\ vm' = Kept(b) /\ due' = AfterOptions
  /\ limit' = limit \cup {k \in {"refresh"} : Kept(b) # selected}
  /\ missed' = FALSE
  /\ UNCHANGED <<bound, enabled, setting, override>>

VMSelect(s) ==
  /\ bound /\ s # selected
  /\ PageEdit(content, s, dis)
  /\ vm' = s /\ limit' = limit \cup {"refresh"} /\ missed' = FALSE
  /\ UNCHANGED <<bound, enabled, due, setting, override>>

VMEnable ==
  /\ bound /\ Call("edit")
  /\ enabled' = ~enabled /\ limit' = limit \cup {"enable"}
  /\ UNCHANGED <<native, selected, checked, marks, off, list, sight, search, widget,
                 open, caption, last, click, loose, bound, vm, due, setting, missed,
                 override>>

VMConfig(cf) ==
  /\ bound /\ SetOptions(cf) /\ override' = TRUE
  /\ UNCHANGED <<bound, model, timers, missed>>

Waits == {"refresh", "enable"}
AskWrong == ~enabled
\* what the computed asks the widget for: enable, or the negation of disable
Ask == enabled
\* The rate limit has run out: the computed runs and sets its timer.
Elapse(k) ==
  /\ k \in limit /\ click = NoClick
  /\ IF k = "refresh" THEN Len(due) < MaxDue /\ due' = Append(due, k) /\ UNCHANGED setting
     ELSE Len(setting) < MaxDue /\ setting' = Append(setting, Ask) /\ UNCHANGED due
  /\ limit' = limit \ {k}
  /\ UNCHANGED <<vars, bound, model, missed, override>>

\* A timer fires.  A method called on a select without a widget makes one, with
\* the default configuration.
DefaultConf ==
  [k \in DOMAIN conf |-> IF k = "multiple" THEN conf.multiple ELSE k = "justVisible"]
Fire ==
  /\ due # <<>> /\ click = NoClick
  /\ due' = Tail(due)
  /\ LET rebuild == Head(due) = "rebuild"
     IN /\ IF inst = "none"
           THEN Fresh(DefaultConf, rebuild, frozen, frozen /\ ~rebuild)
           ELSE IF rebuild THEN Renew(content, selected, dis, conf) ELSE RefreshRows
        /\ override' = (override \/ rebuild)
  /\ UNCHANGED <<calls, bound, model, setting, limit, missed>>
FireSetting ==
  /\ setting # <<>> /\ click = NoClick
  /\ setting' = Tail(setting)
  /\ IF inst = "none" THEN Fresh(DefaultConf, FALSE, frozen, ~Head(setting))
     ELSE Freeze(~Head(setting))
  /\ override' = FALSE
  /\ UNCHANGED <<calls, bound, model, due, limit, missed>>

\* The binding goes with its element, and so do the computeds.
Dispose ==
  /\ bound /\ Destroy
  /\ bound' = FALSE /\ limit' = {}
  /\ UNCHANGED <<model, due, setting, missed, override>>

ToldWrong == vm' = selected /\ limit' = limit \cup {"refresh"} /\ missed' = FALSE
\* The select raises a change event: the view model takes the selection over.
Told == vm' = selected' /\ limit' = limit \cup {"refresh"} /\ missed' = FALSE
\* The user's change ends without one, or with a row that has no option.
Silent == missed' = TRUE /\ UNCHANGED <<vm, limit>>
Lost == UNCHANGED <<vm, limit, missed>>
\* An error at a row without an option loses the event also of what a range has
\* changed before.
Outcome(r, told) ==
  IF r \notin Range(content) THEN (IF selected' = selected THEN Lost ELSE Silent)
  ELSE IF told THEN Told ELSE Silent
WholeRange(r) == Swept(r) \subseteq OptionsIn(content)

UserFrame == bound /\ UNCHANGED <<bound, enabled, due, setting, override>>
UserClick(r) == UserFrame /\ Click(r) /\ Outcome(r, TRUE)
UserKey(r) == UserFrame /\ Key(r) /\ Outcome(r, TRUE)
UserShift(r, onLabel) ==
  UserFrame /\ ShiftClick(r, onLabel) /\ Outcome(r, ~onLabel \/ WholeRange(r))
UserHandlers ==
  UserFrame /\ NextHandler /\ Outcome(click.row, ~click.onLabel \/ WholeRange(click.row))
UserAll == UserFrame /\ ClickAll /\ Told
UserOpen == UserFrame /\ OpenClose /\ Lost
KoNext ==
  \/ UserHandlers \/ UserAll \/ UserOpen
  \/ \E r \in Options : UserClick(r) \/ UserKey(r)
  \/ \E r \in Options, onLabel \in BOOLEAN : UserShift(r, onLabel)
  \/ VMEnable \/ Fire \/ FireSetting \/ Dispose
  \/ \E cf \in Configs : Bind(cf) \/ VMConfig(cf)
  \/ \E b \in Contents : VMOptions(b)
  \/ \E s \in SUBSET Options : VMSelect(s)
  \/ \E k \in Waits : Elapse(k)

KoSpec == KoInit /\ [][KoNext]_kvars
\* Timers fire, and a click is dispatched to all its handlers.
Fairness ==
  /\ WF_kvars(Fire) /\ WF_kvars(FireSetting)
  /\ \A k \in Waits : WF_kvars(Elapse(k))
  /\ WF_kvars(UserHandlers)
FairKoSpec == KoSpec /\ Fairness

----------------------------------------------------------------------------
(* Properties. *)

KoTypeOK ==
  /\ TypeOK
  /\ bound \in BOOLEAN /\ enabled \in BOOLEAN /\ missed \in BOOLEAN /\ override \in BOOLEAN
  /\ vm \subseteq Options /\ limit \subseteq Waits
  /\ due \in Seq({"rebuild", "refresh"}) /\ Len(due) <= MaxDue
  /\ setting \in Seq(BOOLEAN) /\ Len(setting) <= MaxDue

Pending == due # <<>> \/ setting # <<>> \/ limit # {}
RowsRight == built = content /\ checked = selected /\ off = DisabledIn(content, dis)

\* When no timer is set and no computed waits, the rows show the select,
\* whatever was changed by whom before: the refresh that follows every change
\* event repairs also what the handlers leave wrong.
BoundRowsRight ==
  bound /\ ~Pending /\ ~missed /\ click = NoClick => inst = "live" /\ RowsRight

\* The view model has the selection of the select, except after a range that
\* failed before its change event.
ViewModelRight == bound /\ ~missed => vm = selected

\* When nothing is pending the widget is enabled as the view model says, unless
\* a rebuild, which enables it, came last.
EnabledRight == bound /\ ~Pending /\ ~override => frozen = ~enabled

\* Nobody changes the select, the binding or a box; timers may fire.
Calm ==
  /\ content' = content /\ selected' = selected /\ bound' = bound
  /\ limit' \subseteq limit
  /\ checked' = checked \/ due' # due

\* If the user and the view model stop changing things, the widget comes to rest
\* with rows that show the select.
Settles ==
  <>[][Calm]_kvars => <>[](~Pending /\ (bound /\ ~missed => RowsRight))

\* destroy unbinds the whole plugin: a select whose binding is gone has no
\* widget.
NoWidgetUnbound == ~bound => inst = "none"
=============================================================================
