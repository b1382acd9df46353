---------------------------- MODULE Preconditions ----------------------------
(***************************************************************************)
(* Precondition rules (resource_manager.go, evaluatePreconditionRule and   *)
(* extractFieldValue).                                                     *)
(*                                                                         *)
(* The data a rule is evaluated on are nested maps.  They are a function   *)
(* here from the paths of their leaves, sequences of keys, to values.  A   *)
(* value has the Go type it has in the interface: what came through JSON   *)
(* differs from an int64 that was put into the map.                        *)
(***************************************************************************)
EXTENDS Sequences, Naturals

Json(v)  == [go |-> "json", of |-> v]
Int64(n) == [go |-> "int64", of |-> n]

\* A value of the rule: a scalar, or an array.
Scalar(v)    == [array |-> FALSE, items |-> {Json(v)}]
ArrayOf(vs)  == [array |-> TRUE, items |-> {Json(v) : v \in vs}]

IsPrefixOf(p, q) == Len(p) <= Len(q) /\ p = SubSeq(q, 1, Len(p))

\* extractFieldValue takes a segment for the last one when it has its text.
Reached(path) ==
  LET last  == path[Len(path)]
      first == CHOOSE i \in DOMAIN path :
                 path[i] = last /\ \A j \in 1 .. i - 1 : path[j] # last
  IN SubSeq(path, 1, first)

\* What extractFieldValue says of existence; inner maps exist with their leaves.
Found(data, path) == \E leaf \in DOMAIN data : IsPrefixOf(Reached(path), leaf)

\* An inner map equals no value of the rules, which are scalars here.
FieldValue(data, path) ==
  IF Reached(path) \in DOMAIN data THEN data[Reached(path)] ELSE [go |-> "map", of |-> "map"]

\* compareValues on the rule's value, and valueInArray, for which a scalar is an
\* array of one.
EqualsValue(v, value) == ~value.array /\ v \in value.items
InArray(v, value)     == v \in value.items

\* evaluatePreconditionRule; an unknown operator is never met.
RuleMet(data, rule) ==
  LET found == Found(data, rule.field)
      v     == FieldValue(data, rule.field)
  IN \/ rule.operator = "exists"    /\ found
     \/ rule.operator = "notexists" /\ ~found
     \/ rule.operator = "eq"        /\ found /\ EqualsValue(v, rule.value)
     \/ rule.operator = "ne"        /\ ~(found /\ EqualsValue(v, rule.value))
     \/ rule.operator = "in"        /\ found /\ InArray(v, rule.value)
     \/ rule.operator = "notin"     /\ ~(found /\ InArray(v, rule.value))

\* evaluatePreconditions and the loop of getFailedPreconditions.
AllMet(data, rules)    == \A rule \in rules : RuleMet(data, rule)
NotMet(data, rules)    == {rule \in rules : ~RuleMet(data, rule)}
=============================================================================
