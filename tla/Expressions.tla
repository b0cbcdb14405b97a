---------------------------- MODULE Expressions ----------------------------
(***************************************************************************)
(* Filter expressions, as Python's operators build them (expressions.py).  *)
(* A field reference is the model class it starts from, a path of          *)
(* relationship fields and a last field; a value on the right is a scalar, *)
(* an IRI, a set of them for in_(), or None.                               *)
(***************************************************************************)
EXTENDS Sequences

CONSTANT None

FieldRef(model, path, field) == [model |-> model, path |-> path, field |-> field]

\* The operators of a field reference.
Compare(ref, op, right) == [kind |-> "compare", left |-> ref, op |-> op, right |-> right]

\* ref.str() == iri: a comparison of an IRI as a string.
IriStr(ref, op, right) == [kind |-> "iri_str", left |-> ref, op |-> op, right |-> right]

\* property_eq(model, "a/b", value)
PropertyPath(op, path, right) == [kind |-> "property", op |-> op, path |-> path, right |-> right]

AndExpr(parts) == [kind |-> "and", parts |-> parts]
OrExpr(parts)  == [kind |-> "or", parts |-> parts]
NotExpr(inner) == [kind |-> "not", inner |-> inner]

\* Python raises: QueryError, or TypeError where a class has no such operator.
Raised == [kind |-> "raised"]

\* a & b
Conjoin(a, b) ==
  CASE a.kind \notin {"compare", "and"} \/ b.kind = "or" -> Raised
    [] OTHER -> LET parts(e) == IF e.kind = "and" THEN e.parts ELSE <<e>>
                IN  AndExpr(parts(a) \o parts(b))

\* a | b
Disjoin(a, b) ==
  CASE a.kind \notin {"compare", "and", "or"} -> Raised
    [] OTHER -> LET parts(e) == IF e.kind = "or" THEN e.parts ELSE <<e>>
                IN  OrExpr(parts(a) \o parts(b))

\* ~a
Invert(a) ==
  CASE a.kind = "not" -> a.inner
    [] a.kind \in {"compare", "and", "or"} -> NotExpr(a)
    [] OTHER -> Raised
-----------------------------------------------------------------------------
(* What these operators build: parts are tuples, and paths are tuples of    *)
(* field names, as deep as the compiler looks.                             *)

IsTuple(parts) == parts \in Seq({parts[i] : i \in DOMAIN parts})

HasPath(e) == e.kind \in {"compare", "iri_str"} => e.left.path \in Seq(STRING)

IsBranch(e) ==
  IF e.kind = "and" THEN IsTuple(e.parts) /\ \A i \in DOMAIN e.parts : HasPath(e.parts[i])
  ELSE HasPath(e)

HasBranches(e) ==
  e.kind = "or" => IsTuple(e.parts) /\ \A i \in DOMAIN e.parts : IsBranch(e.parts[i])

IsFilter(e) == HasPath(e) /\ HasBranches(e) /\ (e.kind = "not" => HasBranches(e.inner))

IsExpression(e) ==
  IF e.kind = "and" THEN IsTuple(e.parts) /\ \A i \in DOMAIN e.parts : IsFilter(e.parts[i])
  ELSE IsFilter(e)
=============================================================================
