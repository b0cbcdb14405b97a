------------------------------- MODULE Query -------------------------------
(***************************************************************************)
(* A query builder and its calls: query_common.QueryState, query.Query and *)
(* async_query.AsyncQuery.  The builder is one mutable object: every call  *)
(* changes it in place, and it can be run, changed and run again.  What a  *)
(* SELECT answers is hydrated row by row by Session; here an answer is the *)
(* roots it names, in order.                                               *)
(***************************************************************************)
EXTENDS Compiler

CONSTANTS
  Class,       \* the model class that is queried
  Graphs,      \* what the store may hold
  Filters,     \* the expressions given to where()
  SortKeys,    \* the arguments of order_by(): [ref, desc]
  Builders,    \* the builder calls that the application makes
  MaxFilters, MaxSortKeys, MaxPage, MaxSettings   \* bounds of a query

\* Relationships lead to model classes.
ASSUME SchemaAssumption ==
  /\ Class \in DOMAIN Schema /\ None \notin DOMAIN Schema
  /\ \A c \in DOMAIN Schema : \A link \in DOMAIN Schema[c].links :
       /\ Schema[c].links[link].to \in DOMAIN Schema
       /\ Schema[c].links[link].nullable \in BOOLEAN /\ Schema[c].links[link].iri \in BOOLEAN

\* A store holds finitely many triples.
ASSUME GraphAssumption ==
  \A g \in Graphs :
    /\ IsFiniteSet(g)
    /\ \A t \in g : t = <<t[1], t[2], t[3]>> /\ t[3] # Unbound /\ None \notin {t[1], t[3]}

ASSUME QueryAssumption ==
  /\ \A e \in Filters : IsExpression(e)
  /\ \A key \in SortKeys :
       /\ key.ref.path \in Seq(STRING) /\ key.desc \in BOOLEAN
       /\ \A g \in Graphs : \A t \in g : t[2] = key.ref.field => t[3] \in Int
  /\ MaxFilters \in Nat /\ MaxSortKeys \in Nat /\ MaxPage \in Nat
  /\ MaxSettings \in Nat
  /\ None # Unbound /\ None \notin Nat

VARIABLES
  graph,    \* the store
  query,    \* QueryState
  answer    \* of the last all(), first() or count()

vars == <<graph, query, answer>>

NoAnswer == [call |-> "none"]

Init ==
  /\ graph \in Graphs
  /\ query = [expressions |-> <<>>, limit |-> None, offset |-> None, order_by |-> <<>>,
              use_not_exists_for_ne |-> TRUE, use_inequality_for_ne |-> FALSE,
              polymorphic |-> FALSE, values_bindings |-> <<>>]
  /\ answer = NoAnswer

-----------------------------------------------------------------------------
(* Building                                                                *)

\* How much of the builder has been used (a bound, not in the code): filters and
\* sort keys count once, what is independent of them counts twice.
Settings(q) ==
  Len(q.expressions) + Len(q.order_by)
    + (IF q.use_not_exists_for_ne THEN 0 ELSE 1)
    + 2 * (Len(q.values_bindings)
             + Cardinality({f \in {"limit", "offset"} : q[f] # None})
             + (IF q.polymorphic THEN 1 ELSE 0))

Built(call, q) ==
  /\ call \in Builders /\ Settings(q) <= MaxSettings
  /\ query' = q /\ answer' = NoAnswer /\ UNCHANGED graph

\* The choices while a list of the query may grow (a bound).
UpTo(max, list, choices) == IF Len(list) < max THEN choices ELSE {}

Where ==
  \E e \in UpTo(MaxFilters, query.expressions, Filters) :
    Built("where", [query EXCEPT !.expressions = Append(@, e)])

OrderBy ==
  \E key \in UpTo(MaxSortKeys, query.order_by, SortKeys) :
    Built("order_by", [query EXCEPT !.order_by = Append(@, key)])

\* A negative number raises and changes nothing.
Limit == \E n \in 0 .. MaxPage : Built("limit", [query EXCEPT !.limit = n])

Offset == \E n \in 0 .. MaxPage : Built("offset", [query EXCEPT !.offset = n])

Polymorphic == \E b \in BOOLEAN : Built("polymorphic", [query EXCEPT !.polymorphic = b])

\* values(root=iri), one row per call.
Values ==
  \E iri \in UpTo(MaxFilters, query.values_bindings, {t[1] : t \in graph}) :
    Built("values", [query EXCEPT !.values_bindings = Append(@, iri)])

UseNotExists ==
  \E b \in BOOLEAN :
    Built("use_not_exists_for_ne",
          [query EXCEPT !.use_not_exists_for_ne = b,
                        !.use_inequality_for_ne = @ /\ ~b])

UseInequality ==
  \E b \in BOOLEAN :
    Built("use_inequality_for_ne",
          [query EXCEPT !.use_inequality_for_ne = b, !.use_not_exists_for_ne = ~b])

\* use_optional_for_comparisons(): its own flag is read nowhere.
UseOptional ==
  \E b \in BOOLEAN :
    Built("use_optional_for_comparisons",
          [query EXCEPT !.use_not_exists_for_ne = @ \/ b \/ ~query.use_inequality_for_ne,
                        !.use_inequality_for_ne = @ /\ ~b])

-----------------------------------------------------------------------------
(* Running                                                                 *)

\* What the sort variables are bound to; an unbound one sorts first.
SortValue(mu, key) ==
  LET v == ValueIn(mu, key.variable)
  IN  IF v = Unbound THEN 0 ELSE IF key.desc THEN -v ELSE v

RowKey(mu, keys) == [i \in DOMAIN keys |-> SortValue(mu, keys[i])]

\* Keys are compared from the first on.
Precedes(a, b) ==
  \E i \in DOMAIN a : a[i] < b[i] /\ \A j \in 1 .. i - 1 : a[j] = b[j]

\* DISTINCT after ORDER BY: a root is where its first row is.
RootKey(rows, root, keys) ==
  LET own == {RowKey(mu, keys) : mu \in {nu \in rows : nu[Root] = root}}
  IN  CHOOSE k \in own : \A l \in own : ~Precedes(l, k)

\* The sequences in which the engine may answer; without ORDER BY, any.
Sorted(keyOf) ==
  {s \in SetToSeqs(DOMAIN keyOf) :
     \A i, j \in DOMAIN s : i < j => ~Precedes(keyOf[s[j]], keyOf[s[i]])}

RootKeys(rows, keys) ==
  [root \in {mu[Root] : mu \in rows} |-> RootKey(rows, root, keys)]

Rows(c) == Solutions(graph, c.group, c.filters)

Orders(c) == Sorted(RootKeys(Rows(c), c.keys))

Page(s, offset, limit) ==
  LET from == IF offset = None THEN 0 ELSE offset
      rest == SubSeq(s, from + 1, Len(s))
  IN  IF limit = None \/ limit >= Len(rest) THEN rest ELSE SubSeq(rest, 1, limit)

\* QueryError at compilation, or from the engine for what is not SPARQL.
Fails(count) ==
  \/ WhereRaises(Class, query, count)
  \/ NotSparql \in ToSet(CompileWhere(Class, query, count).filters)

Pages(offset, limit) ==
  {Page(s, offset, limit) : s \in Orders(CompileWhere(Class, query, FALSE))}

\* A query that was answered would be answered alike again (a bound): the builder
\* is used in between.
Answers(call, result) ==
  /\ answer = NoAnswer
  /\ answer' = [call |-> call, result |-> result]
  /\ UNCHANGED <<graph, query>>

All ==
  /\ ~Fails(FALSE)
  /\ \E s \in Pages(query.offset, query.limit) : Answers("all", s)

\* first() has a limit of 1 and no offset, whatever the query says.
First ==
  /\ ~Fails(FALSE)
  /\ \E s \in Pages(None, 1) : Answers("first", s)

\* Slip: rows are counted, not the roots they name.
CountRows ==
  ~Fails(TRUE) /\ Answers("count", Cardinality(Rows(CompileWhere(Class, query, TRUE))))

Count ==
  /\ ~Fails(TRUE)
  /\ Answers("count",
             Cardinality({mu[Root] : mu \in Rows(CompileWhere(Class, query, TRUE))}))

RunRaises ==
  \E count \in BOOLEAN : Fails(count) /\ Answers("raises", count)

Next ==
  \/ Where \/ OrderBy \/ Limit \/ Offset \/ Polymorphic \/ Values
  \/ UseNotExists \/ UseInequality \/ UseOptional
  \/ All \/ First \/ Count \/ RunRaises

Spec == Init /\ [][Next]_vars
=============================================================================
