--------------------- MODULE MultiselectKnockoutProofs ---------------------
(***************************************************************************)
(* Proofs about MultiselectKnockout, for every page and every bound: the   *)
(* invariant of the widget holds also when its methods are called by the   *)
(* timers of the binding, and what a timer will repair is known.           *)
(***************************************************************************)
EXTENDS MultiselectKnockout, MultiselectProofs

----------------------------------------------------------------------------
(* The invariant of the widget under the binding. *)

LEMMA DefaultConfType ==
  ASSUME conf \in Conf PROVE DefaultConf \in Conf /\ ~DefaultConf.disabledText
<1>1. DOMAIN conf = {"multiple", "all", "groups", "fold", "folded", "filter",
                     "justVisible", "reset", "ifEmpty", "disabledText"}
  BY DEF Conf
<1>2. conf.multiple \in BOOLEAN
  BY DEF Conf
<1> QED BY <1>1, <1>2 DEF DefaultConf, Conf

\* A method called on a select without a widget makes one that shows it.
LEMMA FreshInv ==
  ASSUME IInv, click = NoClick, calls' = calls,
         NEW cf \in Conf, ~cf.disabledText,
         NEW rebuilt \in BOOLEAN, NEW was \in BOOLEAN, NEW z \in BOOLEAN,
         Fresh(cf, rebuilt, was, z)
  PROVE  IInv'
<1>1. /\ Build(content, selected, dis, cf)
      /\ inst' = "live" /\ handlers' = (IF rebuilt THEN 2 ELSE 1)
      /\ reset' = (cf.reset /\ ~rebuilt)
      /\ query' = NoText /\ timer' = NoTimer /\ open' = FALSE /\ last' = NoRow
      /\ wasFrozen' = was /\ frozen' = z /\ loose' = {}
      /\ UNCHANGED <<content, selected, dis, click>>
  BY DEF Fresh
<1>2. Core /\ Rest /\ FlagsOK
  BY CoreOfInv, RestOfInv
<1>3. SelectOK
  BY <1>2 DEF Core
<1>4. Core'
  BY <1>1, <1>2, <1>3, BuildCore DEF SelectOK, FlagsOK
<1>5. Rest'
  <2>1. box' = NoText /\ conf' = cf
    BY <1>1 DEF Build
  <2> QED BY <1>1, <1>2, <2>1, TextsAssumption DEF Rest
<1>6. FlagsOK'
  BY <1>1 DEF FlagsOK
<1>7. ClickInv'
  BY <1>1 DEF ClickInv
<1> QED BY <1>4, <1>5, <1>6, <1>7, Together

LEMMA SameInv == ASSUME IInv, UNCHANGED vars PROVE IInv'
BY NextInv

LEMMA BindInv == ASSUME IInv, NEW cf \in Configs, Bind(cf) PROVE IInv'
<1>1. cf \in Conf /\ ~cf.disabledText
  BY PageAssumption, KnockoutAssumption
<1>2. Core /\ Rest /\ click = NoClick /\ calls' = calls
  BY CoreOfInv, RestOfInv DEF Bind
<1>3. CASE inst = "none"
  <2>1. Fresh(cf, TRUE, ~enabled, Empty(content, cf))
    BY <1>3 DEF Bind
  <2>2. Empty(content, cf) \in BOOLEAN
    BY <1>1, <1>2, EmptyFrozen DEF Core, SelectOK
  <2> QED BY <1>1, <1>2, <2>1, <2>2, FreshInv
<1>4. CASE inst # "none"
  <2>1. Renew(content, selected, dis, cf)
    BY <1>4 DEF Bind
  <2> QED BY <1>1, <1>2, <2>1, RenewInv DEF Core, SelectOK, Rest
<1> QED BY <1>3, <1>4

LEMMA FireInv == ASSUME IInv, Fire PROVE IInv'
<1> DEFINE rebuild == Head(due) = "rebuild"
<1>1. Core /\ Rest /\ FlagsOK /\ click = NoClick /\ calls' = calls
  BY CoreOfInv, RestOfInv DEF Fire
<1>2. CASE inst = "none"
  <2>1. Fresh(DefaultConf, rebuild, frozen, frozen /\ ~rebuild)
    BY <1>2 DEF Fire
  <2>2. DefaultConf \in Conf /\ ~DefaultConf.disabledText
    BY <1>1, DefaultConfType DEF Rest
  <2> QED BY <1>1, <2>1, <2>2, FreshInv DEF FlagsOK
<1>3. CASE inst # "none" /\ rebuild
  <2>1. Renew(content, selected, dis, conf)
    BY <1>3 DEF Fire
  <2> QED BY <1>1, <2>1, RenewInv DEF Core, SelectOK, Rest
<1>4. CASE inst # "none" /\ ~rebuild
  <2>1. RefreshRows
    BY <1>4 DEF Fire
  <2>2. Core'
    BY <1>1, <2>1, RefreshCore
  <2>3. Rest' /\ FlagsOK' /\ ClickInv'
    BY <1>1, <2>1, RestStill DEF RefreshRows, Rest, FlagsOK, native, list
  <2> QED BY <2>2, <2>3, Together
<1> QED BY <1>2, <1>3, <1>4

LEMMA FireSettingInv == ASSUME IInv, setting \in Seq(BOOLEAN), FireSetting PROVE IInv'
<1>1. Rest /\ FlagsOK /\ click = NoClick /\ calls' = calls
  BY RestOfInv DEF FireSetting
<1>2. CASE inst = "none"
  <2>1. Fresh(DefaultConf, FALSE, frozen, ~Head(setting))
    BY <1>2 DEF FireSetting
  <2>2. DefaultConf \in Conf /\ ~DefaultConf.disabledText
    BY <1>1, DefaultConfType DEF Rest
  <2> QED BY <1>1, <2>1, <2>2, FreshInv DEF FlagsOK
<1>3. CASE inst # "none"
  <2>1. Freeze(~Head(setting))
    BY <1>3 DEF FireSetting
  <2> QED BY <1>1, <2>1, FreezeInv DEF Rest
<1> QED BY <1>2, <1>3

\* Everything else is a step of the page or of the user, seen by the binding.
LEMMA OtherInv ==
  ASSUME IInv,
         \/ \E b \in Contents : VMOptions(b)
         \/ \E s \in SUBSET Options : VMSelect(s)
         \/ VMEnable
         \/ \E cf \in Configs : VMConfig(cf)
         \/ \E k \in Waits : Elapse(k)
         \/ Dispose \/ UserStep \/ NextHandler
  PROVE  IInv'
<1>1. Core /\ SelectOK
  BY CoreOfInv DEF Core
<1>2. ASSUME NEW b \in Contents, NEW s, PageEdit(b, s, dis) PROVE IInv'
  <2>1. s \in SUBSET Options
    BY <1>2, SelectionsType DEF PageEdit, OptionsIn
  <2> QED BY <1>1, <1>2, <2>1, PageEditInv DEF SelectOK
<1>3. CASE \E b \in Contents : VMOptions(b)
  BY <1>2, <1>3 DEF VMOptions
<1>4. CASE \E s \in SUBSET Options : VMSelect(s)
  BY <1>1, <1>2, <1>4 DEF VMSelect, SelectOK
<1>5. CASE VMEnable
  <2> USE DEF native, list, sight, search, widget
  <2>1. Core'
    BY <1>1, <1>5, CoreStill DEF VMEnable, Still
  <2>2. calls' \in 0..MaxCalls
    BY <1>5, RestOfInv, CallCounted DEF VMEnable
  <2>3. Rest' /\ FlagsOK' /\ ClickInv'
    BY <1>5, <2>2, RestOfInv, RestStill DEF VMEnable, Rest, FlagsOK
  <2> QED BY <2>1, <2>3, Together
<1>6. CASE \E cf \in Configs : VMConfig(cf)
  BY <1>6, PageStepInv DEF VMConfig, PageStep
<1>7. CASE \E k \in Waits : Elapse(k)
  BY <1>7, SameInv DEF Elapse
<1>8. CASE Dispose
  BY <1>8, DestroyInv DEF Dispose
<1>9. CASE UserStep \/ NextHandler
  BY <1>9, UserStepInv, NextHandlerInv
<1> QED BY <1>3, <1>4, <1>5, <1>6, <1>7, <1>8, <1>9

----------------------------------------------------------------------------
(* What the timers owe. *)

\* Rows that are not those of the select await a rebuild, boxes that are not as
\* selected a timer, and the last call that waits is for what enable says.
RebuildDue == inst = "live" /\ built # content => "rebuild" \in Range(due)
RefreshDue ==
  bound /\ ~missed /\ checked # selected => due # <<>> \/ "refresh" \in limit
SettingDue ==
  bound /\ "enable" \notin limit =>
    IF setting = <<>> THEN override \/ frozen = ~enabled
    ELSE setting[Len(setting)] = enabled
TimersOK ==
  /\ bound \in BOOLEAN /\ enabled \in BOOLEAN /\ missed \in BOOLEAN /\ override \in BOOLEAN
  /\ vm \subseteq Options /\ limit \subseteq Waits
  /\ due \in Seq({"rebuild", "refresh"}) /\ Len(due) <= MaxDue
  /\ setting \in Seq(BOOLEAN) /\ Len(setting) <= MaxDue
Shown ==
  /\ bound => inst = "live"
  /\ off = DisabledIn(built, dis)
  /\ RebuildDue /\ RefreshDue
KoInv == IInv /\ TimersOK /\ Shown /\ ViewModelRight /\ SettingDue

LEMMA KoInitInv == KoInit => KoInv
<1> SUFFICES ASSUME KoInit PROVE KoInv
  OBVIOUS
<1>1. IInv
  BY InitInv DEF KoInit
<1>2. TimersOK
  <2>1. selected \subseteq Options /\ frozen \in BOOLEAN
    BY <1>1 DEF IInv, TypeOK, SelectOK, FlagsOK, OptionsIn
  <2>2. <<>> \in Seq({"rebuild", "refresh"}) /\ <<>> \in Seq(BOOLEAN) /\ Len(<<>>) <= MaxDue
    BY DueAssumption
  <2> QED BY <2>1, <2>2 DEF KoInit, TimersOK
<1>3. Shown
  <2>1. Range(<<>>) = {}
    BY DEF Range
  <2> QED BY <2>1 DEF KoInit, Init, Shown, DisabledIn, OptionsIn, RebuildDue, RefreshDue
<1>4. ViewModelRight /\ SettingDue
  BY DEF KoInit, ViewModelRight, SettingDue
<1> QED BY <1>1, <1>2, <1>3, <1>4 DEF KoInv

\* Whatever makes the widget anew makes it show the select.
LEMMA Made ==
  ASSUME inst' = "live", NEW cf, Build(content, selected, dis, cf),
         UNCHANGED <<content, selected, dis>>
  PROVE  /\ checked' = selected' /\ built' = content'
         /\ (off = DisabledIn(built, dis))'
         /\ Shown'
BY DEF Build, Shown, RebuildDue, RefreshDue

\* The steps of the user.
UserActs ==
  \/ UserHandlers \/ UserAll \/ UserOpen
  \/ \E r \in Options : UserClick(r) \/ UserKey(r)
  \/ \E r \in Options, onLabel \in BOOLEAN : UserShift(r, onLabel)

\* The view model hears of the change, or it is known to be missed, or there was
\* none and the row awaits a rebuild.
Heard ==
  \/ Told
  \/ Silent
  \/ Lost /\ selected' = selected /\ (checked' = checked \/ built # content)

LEMMA OutcomeFacts ==
  ASSUME NEW r \in OptionsIn(built), NEW told \in BOOLEAN, Outcome(r, told)
  PROVE  Heard
BY DEF Heard, Outcome, OptionsIn

\* Users leave alone what is built and what waits.
LEMMA UserFacts ==
  ASSUME IInv, UserActs
  PROVE  /\ inst = "live" /\ bound
         /\ UNCHANGED <<content, dis, frozen, built, off, inst>>
         /\ UNCHANGED <<bound, enabled, due, setting, override>>
         /\ Heard
<1> USE DEF UserFrame, page, native, list, widget
<1>1. CASE UserHandlers
  <2>1. inst = "live" /\ click.row \in OptionsIn(built)
    BY <1>1, RestOfInv DEF UserHandlers, NextHandler, ClickInv
  <2>2. Outcome(click.row, ~click.onLabel \/ WholeRange(click.row))
    BY <1>1 DEF UserHandlers
  <2>3. Heard
    BY <2>1, <2>2, OutcomeFacts
  <2> QED BY <1>1, <2>1, <2>3 DEF UserHandlers, NextHandler, Handler
<1>2. CASE UserAll
  BY <1>2 DEF UserAll, ClickAll, Using, Idle, Heard
<1>3. CASE UserOpen
  BY <1>3 DEF UserOpen, OpenClose, Idle, Heard
<1>4. ASSUME NEW r \in Options, UserClick(r) \/ UserKey(r)
      PROVE  /\ inst = "live" /\ bound
             /\ UNCHANGED <<content, dis, frozen, built, off, inst>>
             /\ UNCHANGED <<bound, enabled, due, setting, override>>
             /\ Heard
  <2>1. inst = "live" /\ r \in OptionsIn(built) /\ Outcome(r, TRUE)
    BY <1>4 DEF UserClick, UserKey, Click, Key, OptionRows, Using, Idle
  <2>2. Heard
    BY <2>1, OutcomeFacts
  <2> QED BY <1>4, <2>1, <2>2 DEF UserClick, UserKey, Click, Key
<1>5. ASSUME NEW r \in Options, NEW onLabel \in BOOLEAN, UserShift(r, onLabel)
      PROVE  /\ inst = "live" /\ bound
             /\ UNCHANGED <<content, dis, frozen, built, off, inst>>
             /\ UNCHANGED <<bound, enabled, due, setting, override>>
             /\ Heard
  <2>1. /\ inst = "live" /\ r \in OptionsIn(built)
        /\ Outcome(r, ~onLabel \/ WholeRange(r))
    BY <1>5 DEF UserShift, ShiftClick, OptionRows, Using, Idle
  <2>2. Heard
    BY <2>1, OutcomeFacts
  <2> QED BY <1>5, <2>1, <2>2 DEF UserShift, ShiftClick, Handler
<1> QED BY <1>1, <1>2, <1>3, <1>4, <1>5 DEF UserActs

----------------------------------------------------------------------------
(* Every step. *)

LEMMA UserInv == ASSUME KoInv, UserActs PROVE KoInv'
<1>1. /\ inst = "live" /\ bound
      /\ UNCHANGED <<content, dis, frozen, built, off, inst>>
      /\ UNCHANGED <<bound, enabled, due, setting, override>>
      /\ Heard
  BY UserFacts DEF KoInv
<1>2. IInv'
  <2>1. UserStep \/ NextHandler
    BY DEF UserActs, UserHandlers, UserAll, UserOpen, UserClick, UserKey, UserShift, UserStep
  <2> QED BY <2>1, OtherInv DEF KoInv
<1>3. selected' \subseteq Options
  BY <1>2, CoreOfInv DEF IInv, TypeOK, SelectOK, OptionsIn
<1>4. TimersOK'
  <2>1. TimersOK
    BY DEF KoInv
  <2>2. missed' \in BOOLEAN /\ vm' \subseteq Options /\ limit' \subseteq Waits
    BY <1>1, <1>3, <2>1 DEF Heard, Told, Silent, Lost, TimersOK, Waits
  <2> QED BY <1>1, <2>1, <2>2 DEF TimersOK
<1>5. Shown'
  <2>1. RebuildDue
    BY DEF KoInv, Shown
  <2>2. RefreshDue'
    <3>1. CASE Told
      BY <3>1 DEF Told, RefreshDue
    <3>2. CASE Silent
      BY <3>2 DEF Silent, RefreshDue
    <3>3. CASE Lost /\ selected' = selected /\ checked' = checked
      BY <1>1, <3>3 DEF Lost, RefreshDue, KoInv, Shown
    <3>4. CASE Lost /\ built # content
      <4>1. "rebuild" \in Range(due)
        BY <1>1, <2>1, <3>4 DEF RebuildDue
      <4>2. due # <<>>
        BY <4>1 DEF Range
      <4> QED BY <1>1, <4>2 DEF RefreshDue
    <3> QED BY <1>1, <3>1, <3>2, <3>3, <3>4 DEF Heard
  <2> QED BY <1>1, <2>1, <2>2 DEF KoInv, Shown, RebuildDue
<1>6. ViewModelRight'
  BY <1>1 DEF KoInv, Heard, Told, Silent, Lost, ViewModelRight
<1>7. SettingDue'
  <2>1. "enable" \in limit => "enable" \in limit'
    BY <1>1 DEF Heard, Told, Silent, Lost
  <2> QED BY <1>1, <2>1 DEF KoInv, SettingDue
<1> QED BY <1>2, <1>4, <1>5, <1>6, <1>7 DEF KoInv

LEMMA LastAppended ==
  ASSUME NEW S, NEW q \in Seq(S), NEW x \in S
  PROVE  /\ Append(q, x) \in Seq(S) /\ Append(q, x) # <<>>
         /\ Len(Append(q, x)) = Len(q) + 1
         /\ Append(q, x)[Len(Append(q, x))] = x
         /\ Range(Append(q, x)) = Range(q) \cup {x}
<1>1. Append(q, x) \in Seq(S) /\ Len(Append(q, x)) = Len(q) + 1
      /\ Append(q, x)[Len(q) + 1] = x /\ Len(q) \in Nat
      /\ DOMAIN q = 1..Len(q) /\ DOMAIN Append(q, x) = 1..(Len(q) + 1)
      /\ \A i \in 1..Len(q) : Append(q, x)[i] = q[i]
  OBVIOUS
<1>2. Append(q, x) # <<>>
  BY <1>1
<1>3. Range(Append(q, x)) = Range(q) \cup {x}
  BY <1>1 DEF Range
<1> QED BY <1>1, <1>2, <1>3

LEMMA LastOfTail ==
  ASSUME NEW S, NEW q \in Seq(S), q # <<>>
  PROVE  /\ Tail(q) \in Seq(S) /\ Len(Tail(q)) = Len(q) - 1
         /\ Head(q) = q[1] /\ Head(q) \in S
         /\ IF Tail(q) = <<>> THEN q[Len(q)] = Head(q)
            ELSE Tail(q)[Len(Tail(q))] = q[Len(q)]
         /\ Range(q) \subseteq Range(Tail(q)) \cup {Head(q)}
<1>1. /\ Tail(q) \in Seq(S) /\ Len(Tail(q)) = Len(q) - 1
      /\ Head(q) = q[1] /\ Head(q) \in S
      /\ Len(q) \in Nat /\ Len(q) > 0
      /\ DOMAIN q = 1..Len(q) /\ DOMAIN Tail(q) = 1..(Len(q) - 1)
      /\ \A i \in 1..(Len(q) - 1) : Tail(q)[i] = q[i + 1]
  OBVIOUS
<1>2. Tail(q) = <<>> => q[Len(q)] = Head(q)
  <2>1. ASSUME Tail(q) = <<>> PROVE Len(q) = 1
    <3>1. DOMAIN Tail(q) = {}
      BY <2>1
    <3>2. 1 \notin 1..(Len(q) - 1)
      BY <1>1, <3>1
    <3> QED BY <1>1, <3>2
  <2> QED BY <1>1, <2>1
<1>3. Tail(q) # <<>> => Tail(q)[Len(Tail(q))] = q[Len(q)]
  <2>1. Tail(q) # <<>> => Len(q) - 1 \in 1..(Len(q) - 1)
    BY <1>1
  <2> QED BY <1>1, <2>1
<1>4. Range(q) \subseteq Range(Tail(q)) \cup {Head(q)}
  <2> SUFFICES ASSUME NEW i \in 1..Len(q)
               PROVE  q[i] = Head(q) \/ \E j \in DOMAIN Tail(q) : Tail(q)[j] = q[i]
    BY <1>1 DEF Range
  <2>1. CASE i = 1
    BY <1>1, <2>1
  <2>2. CASE i # 1
    <3>1. i - 1 \in 1..(Len(q) - 1) /\ (i - 1) + 1 = i
      BY <1>1, <2>2
    <3> QED BY <1>1, <3>1
  <2> QED BY <2>1, <2>2
<1> QED BY <1>1, <1>2, <1>3, <1>4

LEMMA BindKo == ASSUME KoInv, NEW cf \in Configs, Bind(cf) PROVE KoInv'
<1> DEFINE B == {"rebuild", "refresh"}
<1>1. /\ inst' = "live" /\ Build(content, selected, dis, cf)
      /\ UNCHANGED <<content, selected, dis>>
      /\ vm' = selected /\ bound' = TRUE /\ missed' = FALSE /\ override' = TRUE
      /\ due' = due \o Queued /\ setting' = Append(setting, enabled)
      /\ Len(due) + 2 <= MaxDue /\ Len(setting) < MaxDue
      /\ UNCHANGED <<enabled, limit>>
  BY DEF Bind, Fresh, Renew, KoInv, IInv, TypeOK, WidgetOK
<1>2. IInv'
  BY BindInv DEF KoInv
<1>3. TimersOK /\ setting \in Seq(BOOLEAN) /\ enabled \in BOOLEAN /\ due \in Seq(B)
  BY DEF KoInv, TimersOK
<1>4. /\ setting' \in Seq(BOOLEAN) /\ Len(setting') = Len(setting) + 1
      /\ setting' # <<>> /\ setting'[Len(setting')] = enabled
  BY <1>1, <1>3, LastAppended
<1>5. due' \in Seq(B) /\ Len(due') = Len(due) + 2
  <2>1. Queued \in Seq(B) /\ Len(Queued) = 2
    BY DEF Queued
  <2>2. \A q, r \in Seq(B) : q \o r \in Seq(B) /\ Len(q \o r) = Len(q) + Len(r)
    OBVIOUS
  <2>3. due' \in Seq(B) /\ Len(due') = Len(due) + Len(Queued)
    BY <1>1, <1>3, <2>1, <2>2, Zenon
  <2> QED BY <2>1, <2>3
<1>6. TimersOK'
  <2>1. vm' \subseteq Options
    BY <1>1 DEF KoInv, IInv, TypeOK, SelectOK, OptionsIn
  <2>2. Len(due') <= MaxDue /\ Len(setting') <= MaxDue
    BY <1>1, <1>3, <1>4, <1>5, DueAssumption
  <2> QED BY <1>1, <1>3, <1>4, <1>5, <2>1, <2>2 DEF TimersOK
<1>7. Shown'
  BY <1>1, Made
<1>8. ViewModelRight' /\ SettingDue'
  BY <1>1, <1>4 DEF ViewModelRight, SettingDue
<1> QED BY <1>2, <1>6, <1>7, <1>8 DEF KoInv

LEMMA OptionsKo == ASSUME KoInv, NEW b \in Contents, VMOptions(b) PROVE KoInv'
<1> DEFINE B == {"rebuild", "refresh"}
<1>1. /\ PageEdit(b, Kept(b), dis) /\ Len(due) < MaxDue
      /\ vm' = selected' /\ due' = Append(due, "rebuild")
      /\ limit' \subseteq limit \cup {"refresh"} /\ limit \subseteq limit'
      /\ missed' = FALSE
      /\ UNCHANGED <<bound, enabled, setting, override>>
  BY DEF VMOptions, AfterOptions, PageEdit
<1>2. UNCHANGED <<dis, frozen, built, off, inst>>
  BY <1>1 DEF PageEdit, list, widget
<1>3. IInv'
  BY OtherInv DEF KoInv
<1>4. TimersOK /\ due \in Seq(B) /\ "rebuild" \in B
  BY DEF KoInv, TimersOK
<1>5. /\ due' \in Seq(B) /\ Len(due') = Len(due) + 1 /\ due' # <<>>
      /\ "rebuild" \in Range(due')
  BY <1>1, <1>4, LastAppended
<1>6. TimersOK'
  <2>1. vm' \subseteq Options
    BY <1>1, <1>3 DEF IInv, TypeOK, SelectOK, OptionsIn
  <2>2. Len(due') <= MaxDue
    BY <1>1, <1>4, <1>5, DueAssumption
  <2> QED BY <1>1, <1>4, <1>5, <2>1, <2>2 DEF TimersOK, Waits
<1>7. Shown'
  BY <1>1, <1>2, <1>5 DEF KoInv, Shown, RebuildDue, RefreshDue
<1>8. ViewModelRight' /\ SettingDue'
  BY <1>1, <1>2 DEF KoInv, ViewModelRight, SettingDue
<1> QED BY <1>3, <1>6, <1>7, <1>8 DEF KoInv

LEMMA SelectKo == ASSUME KoInv, NEW s \in SUBSET Options, VMSelect(s) PROVE KoInv'
<1>1. /\ PageEdit(content, s, dis)
      /\ vm' = selected' /\ limit' = limit \cup {"refresh"} /\ missed' = FALSE
      /\ UNCHANGED <<bound, enabled, due, setting, override>>
  BY DEF VMSelect, PageEdit
<1>2. UNCHANGED <<content, dis, frozen, built, off, inst>>
  BY <1>1 DEF PageEdit, list, widget
<1>3. IInv'
  BY OtherInv DEF KoInv
<1>4. TimersOK'
  <2>1. vm' \subseteq Options
    BY <1>1, <1>3 DEF IInv, TypeOK, SelectOK, OptionsIn
  <2> QED BY <1>1, <2>1 DEF KoInv, TimersOK, Waits
<1>5. Shown'
  BY <1>1, <1>2 DEF KoInv, Shown, RebuildDue, RefreshDue
<1>6. ViewModelRight' /\ SettingDue'
  BY <1>1, <1>2 DEF KoInv, ViewModelRight, SettingDue
<1> QED BY <1>3, <1>4, <1>5, <1>6 DEF KoInv

LEMMA EnableKo == ASSUME KoInv, VMEnable PROVE KoInv'
<1>1. /\ enabled' = ~enabled /\ limit' = limit \cup {"enable"}
      /\ UNCHANGED <<content, dis, selected, checked, built, off, inst, bound, vm, due,
                     setting, missed, override>>
  BY DEF VMEnable, native, list, widget
<1>2. IInv'
  BY OtherInv DEF KoInv
<1>3. TimersOK'
  BY <1>1 DEF KoInv, TimersOK, Waits
<1>4. Shown'
  BY <1>1 DEF KoInv, Shown, RebuildDue, RefreshDue
<1>5. ViewModelRight' /\ SettingDue'
  BY <1>1 DEF KoInv, ViewModelRight, SettingDue
<1> QED BY <1>2, <1>3, <1>4, <1>5 DEF KoInv

LEMMA ConfigKo == ASSUME KoInv, NEW cf \in Configs, VMConfig(cf) PROVE KoInv'
<1>1. /\ inst' = "live" /\ Build(content, selected, dis, cf)
      /\ UNCHANGED <<content, selected, dis>>
      /\ override' = TRUE
      /\ UNCHANGED <<bound, vm, enabled, due, setting, limit, missed>>
  BY DEF VMConfig, SetOptions, Renew, Call, Idle, model, timers
<1>2. IInv'
  BY OtherInv DEF KoInv
<1>3. TimersOK'
  BY <1>1 DEF KoInv, TimersOK
<1>4. Shown'
  BY <1>1, Made
<1>5. ViewModelRight' /\ SettingDue'
  BY <1>1 DEF KoInv, ViewModelRight, SettingDue
<1> QED BY <1>2, <1>3, <1>4, <1>5 DEF KoInv

LEMMA ElapseKo == ASSUME KoInv, NEW k \in Waits, Elapse(k) PROVE KoInv'
<1> DEFINE B == {"rebuild", "refresh"}
<1>1. /\ limit' = limit \ {k}
      /\ UNCHANGED <<content, dis, selected, checked, built, off, inst, frozen,
                     bound, vm, enabled, missed, override>>
  BY DEF Elapse, vars, native, list, widget, model
<1>2. IInv'
  BY OtherInv DEF KoInv
<1>3. TimersOK /\ due \in Seq(B) /\ setting \in Seq(BOOLEAN) /\ enabled \in BOOLEAN
  BY DEF KoInv, TimersOK
<1>4. CASE k = "refresh"
  <2>1. Len(due) < MaxDue /\ due' = Append(due, "refresh") /\ setting' = setting
    BY <1>4 DEF Elapse
  <2>2. /\ due' \in Seq(B) /\ Len(due') = Len(due) + 1 /\ due' # <<>>
        /\ Range(due) \subseteq Range(due')
    BY <1>3, <2>1, LastAppended
  <2>3. Len(due') <= MaxDue
    BY <1>3, <2>1, <2>2, DueAssumption
  <2>4. TimersOK'
    BY <1>1, <1>3, <2>1, <2>2, <2>3 DEF TimersOK
  <2>5. Shown'
    BY <1>1, <2>2 DEF KoInv, Shown, RebuildDue, RefreshDue
  <2>6. ViewModelRight' /\ SettingDue'
    BY <1>1, <1>4, <2>1 DEF KoInv, ViewModelRight, SettingDue
  <2> QED BY <1>2, <2>4, <2>5, <2>6 DEF KoInv
<1>5. CASE k # "refresh"
  <2>1. Len(setting) < MaxDue /\ setting' = Append(setting, enabled) /\ due' = due
    BY <1>5 DEF Elapse, Ask
  <2>2. /\ setting' \in Seq(BOOLEAN) /\ Len(setting') = Len(setting) + 1
        /\ setting' # <<>> /\ setting'[Len(setting')] = enabled
    BY <1>3, <2>1, LastAppended
  <2>3. Len(setting') <= MaxDue
    BY <1>3, <2>1, <2>2, DueAssumption
  <2>4. TimersOK'
    BY <1>1, <1>3, <2>1, <2>2, <2>3 DEF TimersOK
  <2>5. Shown'
    BY <1>1, <1>5, <2>1 DEF KoInv, Shown, RebuildDue, RefreshDue
  <2>6. ViewModelRight' /\ SettingDue'
    BY <1>1, <2>2 DEF KoInv, ViewModelRight, SettingDue
  <2> QED BY <1>2, <2>4, <2>5, <2>6 DEF KoInv
<1> QED BY <1>4, <1>5

LEMMA DisposeKo == ASSUME KoInv, Dispose PROVE KoInv'
<1>1. /\ inst' = "none" /\ built' = <<>> /\ checked' = {} /\ off' = {}
      /\ bound' = FALSE /\ limit' = {}
      /\ UNCHANGED <<vm, enabled, due, setting, missed, override>>
  BY DEF Dispose, Destroy, model
<1>2. IInv'
  BY OtherInv DEF KoInv
<1>3. TimersOK'
  BY <1>1 DEF KoInv, TimersOK
<1>4. Shown'
  <2>1. Range(<<>>) = {}
    BY DEF Range
  <2> QED BY <1>1, <2>1 DEF Shown, DisabledIn, OptionsIn, RebuildDue, RefreshDue
<1>5. ViewModelRight' /\ SettingDue'
  BY <1>1 DEF ViewModelRight, SettingDue
<1> QED BY <1>2, <1>3, <1>4, <1>5 DEF KoInv

\* A refresh reaches every row when rows and options are the same, and leaves
\* none disabled that is not.
LEMMA Refreshed ==
  ASSUME Core, RefreshRows, off = DisabledIn(built, dis)
  PROVE  /\ off' = DisabledIn(built, dis)
         /\ built = content => checked' = selected
<1> DEFINE lacking == {o \in OptionsIn(content) \ Range(built) :
                         ~(HasFilter /\ ValueOf[box] = o)}
           done == {o \in OptionsIn(content) \cap Range(built) :
                      \A m \in lacking : Pos(content, o) < Pos(content, m)}
<1>1. /\ off' = (off \ done) \cup (done \cap DisabledIn(content, dis))
      /\ lacking = {} => checked' = (checked \ done) \cup (done \cap selected)
  BY DEF RefreshRows
<1>2. off' = DisabledIn(built, dis)
  <2>1. done \subseteq OptionsIn(built) \cap OptionsIn(content)
    BY DEF OptionsIn
  <2> HIDE DEF done
  <2> QED BY <1>1, <2>1 DEF DisabledIn
<1>3. ASSUME built = content PROVE checked' = selected
  <2>1. lacking = {} /\ done = OptionsIn(content)
    BY <1>3 DEF OptionsIn
  <2>2. checked \subseteq OptionsIn(content) /\ selected \subseteq OptionsIn(content)
    BY <1>3 DEF Core, RowsOK, SelectOK
  <2> HIDE DEF done, lacking
  <2> QED BY <1>1, <2>1, <2>2
<1> QED BY <1>2, <1>3

LEMMA FireKo == ASSUME KoInv, Fire PROVE KoInv'
<1> DEFINE B == {"rebuild", "refresh"}
<1>1. /\ due # <<>> /\ due' = Tail(due)
      /\ UNCHANGED <<bound, vm, enabled, setting, limit, missed>>
  BY DEF Fire, model
<1>2. IInv'
  BY FireInv DEF KoInv
<1>3. TimersOK /\ due \in Seq(B) /\ Core /\ Shown /\ inst \in {"none", "live"}
  BY CoreOfInv DEF KoInv, TimersOK, IInv, TypeOK, WidgetOK
<1>4. /\ Tail(due) \in Seq(B) /\ Len(Tail(due)) = Len(due) - 1 /\ Head(due) \in B
      /\ Range(due) \subseteq Range(Tail(due)) \cup {Head(due)}
  BY <1>1, <1>3, LastOfTail
<1>5. TimersOK'
  <2>1. Len(due') <= MaxDue
    BY <1>1, <1>3, <1>4, DueAssumption DEF TimersOK
  <2>2. override' \in BOOLEAN
    BY DEF Fire
  <2> QED BY <1>1, <1>3, <1>4, <2>1, <2>2 DEF TimersOK
<1>6. CASE inst = "none" \/ Head(due) = "rebuild"
  <2>1. /\ inst' = "live" /\ \E cf : Build(content, selected, dis, cf)
        /\ UNCHANGED <<content, selected, dis>>
    BY <1>3, <1>6 DEF Fire, Fresh, Renew
  <2>2. Shown'
    BY <2>1, Made
  <2>3. bound => override' = TRUE
    BY <1>3, <1>6 DEF Fire, Shown
  <2>4. ViewModelRight' /\ SettingDue'
    BY <1>1, <2>1, <2>3 DEF KoInv, ViewModelRight, SettingDue
  <2> QED BY <1>2, <1>5, <2>2, <2>4 DEF KoInv
<1>7. CASE inst = "live" /\ Head(due) = "refresh"
  <2>1. RefreshRows /\ override' = override
    BY <1>3, <1>7 DEF Fire, TimersOK
  <2>2. UNCHANGED <<content, dis, built, frozen, inst, selected>>
    BY <2>1 DEF RefreshRows, Abort, native, list, widget
  <2>3. off' = DisabledIn(built, dis) /\ (built = content => checked' = selected)
    BY <1>3, <2>1, Refreshed DEF Shown
  <2>4. built # content => "rebuild" \in Range(due') /\ due' # <<>>
    <3>1. built # content => "rebuild" \in Range(due')
      BY <1>1, <1>3, <1>4, <1>7 DEF Shown, RebuildDue
    <3> QED BY <3>1 DEF Range
  <2>5. Shown'
    BY <1>1, <1>3, <2>2, <2>3, <2>4 DEF Shown, RebuildDue, RefreshDue
  <2>6. ViewModelRight' /\ SettingDue'
    BY <1>1, <2>1, <2>2 DEF KoInv, ViewModelRight, SettingDue
  <2> QED BY <1>2, <1>5, <2>5, <2>6 DEF KoInv
<1> QED BY <1>3, <1>4, <1>6, <1>7

LEMMA FireSettingKo == ASSUME KoInv, FireSetting PROVE KoInv'
<1>1. /\ setting # <<>> /\ setting' = Tail(setting) /\ override' = FALSE
      /\ UNCHANGED <<bound, vm, enabled, due, limit, missed>>
      /\ frozen' = ~Head(setting)
  BY DEF FireSetting, Fresh, Freeze, model
<1>2. TimersOK /\ setting \in Seq(BOOLEAN) /\ Shown /\ inst \in {"none", "live"}
  BY DEF KoInv, TimersOK, IInv, TypeOK, WidgetOK
<1>3. IInv'
  BY <1>2, FireSettingInv DEF KoInv
<1>4. /\ Tail(setting) \in Seq(BOOLEAN) /\ Len(Tail(setting)) = Len(setting) - 1
      /\ IF Tail(setting) = <<>> THEN setting[Len(setting)] = Head(setting)
         ELSE Tail(setting)[Len(Tail(setting))] = setting[Len(setting)]
  BY <1>1, <1>2, LastOfTail
<1>5. TimersOK'
  <2>1. Len(setting') <= MaxDue
    <3>1. Len(setting') = Len(setting) - 1
      BY <1>1, <1>4
    <3>2. Len(setting) <= MaxDue /\ Len(setting) \in Nat
      BY <1>2 DEF TimersOK
    <3> QED BY <3>1, <3>2, DueAssumption
  <2>2. setting' \in Seq(BOOLEAN) /\ override' \in BOOLEAN
    BY <1>1, <1>4
  <2>3. UNCHANGED <<bound, enabled, missed, vm, limit, due>>
    BY <1>1
  <2> QED BY <1>2, <2>1, <2>2, <2>3, Zenon DEF TimersOK
<1>6. SettingDue'
  BY <1>1, <1>4 DEF KoInv, SettingDue
<1>7. CASE inst = "none"
  <2>1. /\ inst' = "live" /\ \E cf : Build(content, selected, dis, cf)
        /\ UNCHANGED <<content, selected, dis>>
    BY <1>7 DEF FireSetting, Fresh
  <2>2. Shown'
    BY <2>1, Made
  <2>3. ViewModelRight'
    BY <1>1, <2>1 DEF KoInv, ViewModelRight
  <2> QED BY <1>3, <1>5, <1>6, <2>2, <2>3 DEF KoInv
<1>8. CASE inst = "live"
  <2>1. UNCHANGED <<content, selected, dis, checked, off, built, inst>>
    BY <1>8 DEF FireSetting, Freeze, list, widget
  <2>2. Shown'
    BY <1>1, <1>2, <2>1 DEF Shown, RebuildDue, RefreshDue
  <2>3. ViewModelRight'
    BY <1>1, <2>1 DEF KoInv, ViewModelRight
  <2> QED BY <1>3, <1>5, <1>6, <2>2, <2>3 DEF KoInv
<1> QED BY <1>2, <1>7, <1>8

LEMMA KoNextInv == KoInv /\ [KoNext]_kvars => KoInv'
<1> SUFFICES ASSUME KoInv, [KoNext]_kvars PROVE KoInv'
  OBVIOUS
<1>1. CASE UserActs
  BY <1>1, UserInv
<1>2. CASE VMEnable \/ Dispose
  BY <1>2, EnableKo, DisposeKo
<1>3. CASE Fire \/ FireSetting
  BY <1>3, FireKo, FireSettingKo
<1>4. CASE \E cf \in Configs : Bind(cf) \/ VMConfig(cf)
  BY <1>4, BindKo, ConfigKo
<1>5. CASE \E b \in Contents : VMOptions(b)
  BY <1>5, OptionsKo
<1>6. CASE \E s \in SUBSET Options : VMSelect(s)
  BY <1>6, SelectKo
<1>7. CASE \E k \in Waits : Elapse(k)
  BY <1>7, ElapseKo
<1>8. CASE UNCHANGED kvars
  <2> USE <1>8 DEF kvars, KoInv
  <2>1. IInv'
    BY SameInv
  <2>2. UNCHANGED <<content, dis, frozen, selected, checked, built, off, inst, bound,
                    vm, enabled, due, setting, limit, missed, override>>
    BY DEF vars, native, list, widget, model, timers
  <2>3. TimersOK'
    BY <2>2 DEF TimersOK
  <2>4. Shown' /\ ViewModelRight' /\ SettingDue'
    BY <2>2 DEF Shown, RebuildDue, RefreshDue, ViewModelRight, SettingDue
  <2> QED BY <2>1, <2>3, <2>4
<1> QED BY <1>1, <1>2, <1>3, <1>4, <1>5, <1>6, <1>7, <1>8 DEF KoNext, UserActs

\* Every state of a bound select, and of one that was bound, satisfies the
\* invariant of the widget and that of its timers.
THEOREM KoInvariance == KoSpec => []KoInv
BY KoInitInv, KoNextInv, PTL DEF KoSpec

----------------------------------------------------------------------------
(* The properties of the run. *)

\* Whatever the timers call and in which order, widget, queues and view model
\* keep their types (KoTypeOK); the queues stay within their bound.
THEOREM KoTypeCorrect == KoSpec => []KoTypeOK
<1>1. KoInv => KoTypeOK
  BY DEF KoInv, IInv, TimersOK, KoTypeOK
<1> QED BY <1>1, KoInvariance, PTL

\* When no timer is set and no computed waits, the rows show the select
\* (BoundRowsRight), for every page: what is wrong before, a timer repairs.
THEOREM BoundRowsAreRight == KoSpec => []BoundRowsRight
<1>1. KoInv => BoundRowsRight
  <2> SUFFICES ASSUME KoInv, bound, ~Pending, ~missed PROVE inst = "live" /\ RowsRight
    BY DEF BoundRowsRight
  <2>1. due = <<>> /\ limit = {} /\ inst = "live" /\ Shown
    BY DEF Pending, KoInv, Shown
  <2>2. built = content
    BY <2>1 DEF Shown, RebuildDue, Range
  <2>3. checked = selected
    BY <2>1 DEF Shown, RefreshDue
  <2> QED BY <2>1, <2>2, <2>3 DEF Shown, RowsRight
<1> QED BY <1>1, KoInvariance, PTL

\* The view model has the selection of the select unless the last change of the
\* user raised no change event (ViewModelRight).
THEOREM ViewModelIsRight == KoSpec => []ViewModelRight
<1>1. KoInv => ViewModelRight
  BY DEF KoInv
<1> QED BY <1>1, KoInvariance, PTL

\* When nothing is pending the widget is enabled as the view model says, unless
\* a rebuild came last (EnabledRight), however the calls of enable and disable
\* were queued.
THEOREM EnabledIsRight == KoSpec => []EnabledRight
<1>1. KoInv => EnabledRight
  BY DEF KoInv, SettingDue, Pending, EnabledRight
<1> QED BY <1>1, KoInvariance, PTL
=============================================================================
