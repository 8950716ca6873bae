----------------------- MODULE MCMultiselectKnockout -----------------------
(* A bound select with two options and no groups, for TLC.                 *)
EXTENDS MultiselectKnockout, TLC

CONSTANTS o1, o2

OwnerDef == (o1 :> NoGroup) @@ (o2 :> NoGroup)
ContentsDef == {<<o1, o2>>, <<o1>>, <<o2>>}
DisablingsDef == {{}}
MatchesDef == NoText :> Items
ValueOfDef == NoText :> NoRow

Multi == [multiple |-> TRUE, all |-> TRUE, groups |-> FALSE, fold |-> FALSE,
          folded |-> FALSE, filter |-> FALSE, justVisible |-> TRUE,
          reset |-> FALSE, ifEmpty |-> TRUE, disabledText |-> FALSE]
Radio == [Multi EXCEPT !.multiple = FALSE, !.all = FALSE]
ConfigsDef == {Multi, Radio}
CallsDef == CallKinds

\* The button starts enabled, and of the selects with one option one is enough.
MCKoInit == KoInit /\ ~frozen /\ content # <<o2>>
\* KoNext, but the view model uses enable only with radio buttons: what the binding
\* does with it is the same for both kinds of list.
MCKoNext ==
  \/ UserHandlers \/ UserAll \/ UserOpen
  \/ \E r \in Options : UserClick(r) \/ UserKey(r)
  \/ \E r \in Options, onLabel \in BOOLEAN : UserShift(r, onLabel)
  \/ Fire \/ FireSetting \/ Dispose
  \/ ~conf.multiple /\ VMEnable
  \/ \E cf \in Configs : Bind(cf) \/ VMConfig(cf)
  \/ \E b \in Contents : VMOptions(b)
  \/ \E s \in SUBSET Options : VMSelect(s)
  \/ \E k \in Waits : Elapse(k)
MCFairKoSpec == MCKoInit /\ [][MCKoNext]_kvars /\ Fairness
============================================================================
