------------------------------- MODULE Sparql -------------------------------
(***************************************************************************)
(* The part of SPARQL's algebra that compiled queries use, as the engine   *)
(* behind a store evaluates it.  A graph is a set of triples.  A solution  *)
(* is a function from the variables it binds to terms.  A group is a       *)
(* sequence of elements, joined from left to right, whose filters apply at *)
(* its end; EXISTS evaluates its group from the solution at hand.          *)
(***************************************************************************)
EXTENDS Integers, Sequences, FiniteSets, SequencesExt

CONSTANT Unbound     \* the value of a variable that a solution does not bind

Unit == [x \in {} |-> Unbound]

Bound(mu, x) == x \in DOMAIN mu

ValueIn(mu, x) == IF Bound(mu, x) THEN mu[x] ELSE Unbound

Bind(mu, x, v) == [y \in DOMAIN mu \cup {x} |-> IF y = x THEN v ELSE mu[y]]

(* Elements of a group: terms of a triple are variables, except that the   *)
(* object may be a constant; a path is a sequence of predicates.           *)

Triple(s, pred, o)  == [kind |-> "triple", subject |-> s, pred |-> pred, object |-> o]
TripleTo(s, pred, v) == [kind |-> "constant", subject |-> s, pred |-> pred, object |-> v]
PathTo(s, path, v)  == [kind |-> "path", subject |-> s, path |-> path, object |-> v]
Optional(group)     == [kind |-> "optional", group |-> group]
ValuesOf(x, terms)  == [kind |-> "values", variable |-> x, terms |-> terms]

\* The solutions that bind x to v and are compatible with mu.
BindTo(mu, x, v) == IF ~Bound(mu, x) THEN {Bind(mu, x, v)} ELSE IF mu[x] = v THEN {mu} ELSE {}

\* What a sequence of predicates reaches from a node.
PathEnds(graph, node, path) ==
  FoldLeft(LAMBDA nodes, pred : {t[3] : t \in {u \in graph : u[1] \in nodes /\ u[2] = pred}},
           {node}, path)

Matches(graph, mu, e) ==
  CASE e.kind = "triple" ->
         UNION {UNION {BindTo(nu, e.object, t[3]) : nu \in BindTo(mu, e.subject, t[1])}
                : t \in {u \in graph : u[2] = e.pred}}
    [] e.kind = "constant" ->
         UNION {BindTo(mu, e.subject, t[1])
                : t \in {u \in graph : u[2] = e.pred /\ u[3] = e.object}}
    [] e.kind = "path" ->
         UNION {BindTo(mu, e.subject, n)
                : n \in {t[1] : t \in {u \in graph : e.object \in PathEnds(graph, u[1], e.path)}}}
    [] e.kind = "values" ->
         UNION {BindTo(mu, e.variable, v) : v \in e.terms}

JoinAll(graph, solutions, triples) ==
  FoldLeft(LAMBDA S, e : UNION {Matches(graph, mu, e) : mu \in S}, solutions, triples)

\* OPTIONAL keeps a solution that its group does not extend.
LeftJoin(graph, mu, group) ==
  LET extended == JoinAll(graph, {mu}, group) IN IF extended = {} THEN {mu} ELSE extended

Joined(graph, mu, group) ==
  FoldLeft(LAMBDA S, e :
             UNION {IF e.kind = "optional" THEN LeftJoin(graph, nu, e.group)
                    ELSE Matches(graph, nu, e) : nu \in S},
           {mu}, group)

(* Filters.  A comparison with an unbound variable is an error, and a      *)
(* filter that errs rejects the solution; an error counts as false beside  *)
(* a disjunct that is true, and no filter here negates a comparison.       *)

BoundF(x)            == [kind |-> "bound", variable |-> x]
NotBoundF(x)         == [kind |-> "unbound", variable |-> x]
CompareF(x, op, v)   == [kind |-> "compare", variable |-> x, op |-> op, value |-> v]
LacksF(x, pred, v)   == [kind |-> "lacks", variable |-> x, pred |-> pred, value |-> v]
EitherF(f, g)        == [kind |-> "either", parts |-> <<f, g>>]

Compares(a, op, b) ==
  CASE op = "eq" -> a = b
    [] op = "ne" -> a # b
    [] op = "in" -> a \in b
    [] op = "lt" -> a < b
    [] op = "gt" -> a > b
    [] op = "lte" -> a <= b
    [] op = "gte" -> a >= b

SimpleHolds(graph, mu, f) ==
  CASE f.kind = "bound"   -> Bound(mu, f.variable)
    [] f.kind = "unbound" -> ~Bound(mu, f.variable)
    [] f.kind = "compare" -> Bound(mu, f.variable) /\ Compares(mu[f.variable], f.op, f.value)
       \* NOT EXISTS { x pred ?y FILTER(?y = v) }
    [] f.kind = "lacks"   -> Matches(graph, mu, TripleTo(f.variable, f.pred, f.value)) = {}

BasicHolds(graph, mu, f) ==
  IF f.kind = "either" THEN \E i \in DOMAIN f.parts : SimpleHolds(graph, mu, f.parts[i])
  ELSE SimpleHolds(graph, mu, f)

\* A disjunction of EXISTS blocks, negated or not.
ExistsF(group, filters)  == [group |-> group, filters |-> filters]
AnyF(blocks)  == [kind |-> "any", blocks |-> blocks]
NoneF(blocks) == [kind |-> "none", blocks |-> blocks]

ExistsHolds(graph, mu, block) ==
  \E nu \in Joined(graph, mu, block.group) :
    \A i \in DOMAIN block.filters : BasicHolds(graph, nu, block.filters[i])

Holds(graph, mu, f) ==
  CASE f.kind = "any"  -> \E i \in DOMAIN f.blocks : ExistsHolds(graph, mu, f.blocks[i])
    [] f.kind = "none" -> \A i \in DOMAIN f.blocks : ~ExistsHolds(graph, mu, f.blocks[i])
    [] OTHER -> BasicHolds(graph, mu, f)

Solutions(graph, group, filters) ==
  {mu \in Joined(graph, Unit, group) :
     \A i \in DOMAIN filters : Holds(graph, mu, filters[i])}
=============================================================================
