------------------------- MODULE MCConfigReconciler -------------------------
(* An instance of ConfigReconciler for TLC: two resources, one condition.    *)
EXTENDS ConfigReconciler, TLC

CONSTANTS a, b, ready

Good     == [resources |-> <<a, b>>, conditions |-> <<ready>>, broken |-> {},
             valid |-> TRUE, meets |-> TRUE]
Narrow   == [Good EXCEPT !.resources = <<b>>, !.conditions = <<>>]
Unmet    == [Good EXCEPT !.meets = FALSE]
Broken   == [Good EXCEPT !.broken = {b}]
Rejected == [Good EXCEPT !.valid = FALSE]

MCNames    == {a, b, ready}
MCContents == {Good, Narrow, Unmet, Broken, Rejected}
Symmetry   == Permutations(Handlers)
=============================================================================
