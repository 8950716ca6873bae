--------------------------- MODULE MCMultiselect ---------------------------
(* A page with two options, one of them in a group, for TLC.               *)
EXTENDS Multiselect, TLC

CONSTANTS o1, o2, g1, t1

OwnerDef == (o1 :> g1) @@ (o2 :> NoGroup)
\* o2 stands behind the group without belonging to it
ContentsDef == {<<g1, o1, o2>>, <<o2>>}
DisablingsDef == {{}, {g1}}
\* the text t1 matches only the label of o1, and is the value of o2
MatchesDef == (NoText :> Items) @@ (t1 :> {o1})
ValueOfDef == (NoText :> NoRow) @@ (t1 :> o2)

Plain == [multiple |-> TRUE, all |-> TRUE, groups |-> FALSE, fold |-> FALSE,
          folded |-> FALSE, filter |-> FALSE, justVisible |-> TRUE,
          reset |-> FALSE, ifEmpty |-> TRUE, disabledText |-> FALSE]
Grouped == [Plain EXCEPT !.groups = TRUE, !.filter = TRUE]
Folding == [Plain EXCEPT !.fold = TRUE, !.folded = TRUE, !.groups = TRUE, !.reset = TRUE]
Single == [Plain EXCEPT !.multiple = FALSE, !.disabledText = TRUE]
ConfigsDef == {Grouped, Folding, Single}
CallsDef == CallKinds

\* The select starts disabled only where the caption tells, and with disabled
\* options only if it has radio buttons: the page disables others later.
MCInit ==
  Init /\ (frozen => conf.disabledText) /\ (dis # {} => ~conf.multiple)
MCSpec == MCInit /\ [][Next]_vars

\* Bound: of a list with a search box, what follows the page's last edit or call
\* is left to the other configurations.
CallsBound == conf.filter => calls < MaxCalls
============================================================================
