------------------------------- MODULE Query -------------------------------
(***************************************************************************)
(* Filters and sort orders of the document store: store/query.js.          *)
(*                                                                         *)
(* A document is a record of fields.  A filter is a set of clauses, all of *)
(* which must hold: a condition [op, field, operand], or a logical clause  *)
(* [op, filters] over filters that consist of conditions.  The server      *)
(* nests no deeper.  The values of a field are integers, or names that are *)
(* only compared for equality; a text is the set of the terms it contains, *)
(* as an array is the set of its items.  Fields with a path of several     *)
(* names, $regex and comparisons of values of different types are left     *)
(* out.                                                                    *)
(***************************************************************************)
EXTENDS Integers, FiniteSets

CONSTANTS
  Null,
  Missing   \* undefined: what a document has for a field it does not have

FieldOf(doc, field) == IF field \in DOMAIN doc THEN doc[field] ELSE Missing

Absent(value) == value \in {Null, Missing}

\* What an operator says of the value of a field.
MatchOperator(op, operand, value) ==
  CASE op = "$eq"       -> value = operand
    [] op = "$ne"       -> value # operand
    [] op = "$gt"       -> ~Absent(value) /\ value > operand
    [] op = "$gte"      -> ~Absent(value) /\ value >= operand
    [] op = "$lt"       -> ~Absent(value) /\ value < operand
    [] op = "$lte"      -> ~Absent(value) /\ value <= operand
    [] op = "$in"       -> value \in operand
    [] op = "$nin"      -> value \notin operand
    [] op = "$exists"   -> operand <=> value # Missing
    [] op = "$contains" -> ~Absent(value) /\ operand \in value

MatchCondition(doc, condition) ==
  MatchOperator(condition.op, condition.operand, FieldOf(doc, condition.field))

MatchAll(doc, filter) == \A c \in filter : MatchCondition(doc, c)

MatchClause(doc, clause) ==
  CASE clause.op = "$and" -> \A f \in clause.filters : MatchAll(doc, f)
    [] clause.op = "$or"  -> \E f \in clause.filters : MatchAll(doc, f)
    [] clause.op = "$nor" -> ~\E f \in clause.filters : MatchAll(doc, f)
    [] clause.op = "$not" -> ~\A f \in clause.filters : MatchAll(doc, f)
    [] OTHER              -> MatchCondition(doc, clause)

MatchesFilter(doc, filter) == \A clause \in filter : MatchClause(doc, clause)

-----------------------------------------------------------------------------
\* Negative, 0 or positive, as a comes before b, with it or after it.  The code
\* answers -1 for undefined and null in either order: a field has one of them.
CompareForSort(a, b) ==
  IF a = b THEN 0
  ELSE IF Absent(a) THEN -1
  ELSE IF Absent(b) THEN 1
  ELSE a - b

\* An order is a sequence of <<field, direction>>.
Differ(order, x, y, i) ==
  order[i][2] * CompareForSort(FieldOf(x, order[i][1]), FieldOf(y, order[i][1]))

\* The first field in which the documents differ decides.
SortsBefore(order, x, y) ==
  \E i \in DOMAIN order : /\ Differ(order, x, y, i) < 0
                          /\ \A j \in 1..(i - 1) : Differ(order, x, y, j) = 0

Tied(order, x, y) == \A i \in DOMAIN order : Differ(order, x, y, i) = 0
=============================================================================
