---------------------------- MODULE QueryMeaning ----------------------------
(***************************************************************************)
(* What a query means, said without SPARQL: a conjunction of comparisons   *)
(* holds of a root if each path used in it can be given a resource, or     *)
(* None where a link that may be None is missing, so that every comparison *)
(* holds at the resource its path is given.  The properties of Query       *)
(* compare answers with it.                                                *)
(***************************************************************************)
EXTENDS Query

RelAt(path) == Schema[ClassAt(Class, Front(path))].links[Last(path)]

Linked(n, path, rel) ==
  {t[3] : t \in {u \in graph : /\ u[1] = n /\ u[2] = path
                               /\ rel.iri \/ <<u[3], Type, Schema[rel.to].type>> \in graph}}

\* Where the last hop of path leads from n.
Targets(n, path) ==
  LET ends == Linked(n, Last(path), RelAt(path))
  IN  IF ends = {} /\ RelAt(path).nullable THEN {None} ELSE ends

PathsOf(compares) ==
  {<<>>} \cup UNION {Prefixes(compares[i].left.path) : i \in DOMAIN compares}

Resources ==
  {t[1] : t \in graph}
    \cup {t[3] : t \in {u \in graph : \E c \in DOMAIN Schema : u[2] \in DOMAIN Schema[c].links}}

Paths(root, used) ==
  {f \in [used -> Resources \cup {None}] :
     f[<<>>] = root /\ \A p \in used \ {<<>>} : f[p] \in Targets(f[Front(p)], p)}

CompareMeans(e, n) ==
  LET values == {t[3] : t \in {u \in graph : u[1] = n /\ u[2] = e.left.field}}
      links == Linked(n, e.left.field, RelAt(Append(e.left.path, e.left.field)))
  IN  IF e.kind = "iri_str" THEN Compares(n, e.op, e.right)
      ELSE CASE e.op = "is"     -> links = {}
             [] e.op = "is_not" -> links # {}
             [] e.op = "ne" /\ query.use_not_exists_for_ne -> e.right \notin values
             [] e.op = "ne" /\ ~query.use_not_exists_for_ne ->
                  n = None \/ \E v \in values : v # e.right
             [] OTHER -> \E v \in values : Compares(v, e.op, e.right)

ConjunctionMeans(root, compares) ==
  \E f \in Paths(root, PathsOf(compares)) :
    \A i \in DOMAIN compares : CompareMeans(compares[i], f[compares[i].left.path])

DisjunctionMeans(root, e) == \E i \in DOMAIN e.parts : ConjunctionMeans(root, Branch(e.parts[i]))

FilterMeans(root, e) ==
  CASE e.kind = "or"       -> DisjunctionMeans(root, e)
    [] e.kind = "not"      -> ~DisjunctionMeans(root, e.inner)
    [] e.kind = "property" -> e.right \in PathEnds(graph, root, e.path)

\* The parts of the conjunction that the filters are; those that compare what a path
\* leads to, the string of an IRI also, speak of one way along it.
Parts == InOrder(query.expressions)

OfPath(e) == e.kind \in {"compare", "iri_str"}

Compared == FoldLeft(LAMBDA s, e : IF OfPath(e) THEN Append(s, e) ELSE s, <<>>, Parts)

IsRoot(n) ==
  \E t \in IF query.polymorphic THEN Schema[Class].subtypes ELSE {Schema[Class].type} :
    <<n, Type, t>> \in graph

Means(root) ==
  /\ IsRoot(root)
  /\ query.values_bindings = <<>> \/ root \in ToSet(query.values_bindings)
  /\ ConjunctionMeans(root, Compared)
  /\ \A i \in DOMAIN Parts : ~OfPath(Parts[i]) => FilterMeans(root, Parts[i])

-----------------------------------------------------------------------------
(* Where an unbound OPTIONAL variable may be bound by a later pattern      *)

\* The conjunctions that are compiled with joins of their own.
Groups ==
  {Compared} \cup UNION {
    LET e == IF Parts[i].kind = "not" THEN Parts[i].inner ELSE Parts[i]
    IN  {Branch(e.parts[j]) : j \in DOMAIN e.parts}
    : i \in {k \in DOMAIN Parts : Parts[k].kind \in {"or", "not"}}}

\* No link on the way of path is missing, whichever way leads there.
FullyLinked(root, path) ==
  \A p \in Prefixes(path) : \A f \in Paths(root, Prefixes(p)) : f[p] # None

\* A comparison that does not bind its path's variable: by default != does not,
\* when it is the one that follows the path.
KeepsUnbound(compares, i) ==
  LET path == compares[i].left.path
  IN  /\ compares[i].kind = "compare"
      /\ compares[i].op = "ne" /\ query.use_not_exists_for_ne
      /\ Len(path) = 1
      /\ \A j \in DOMAIN compares \ {i} : path \notin PathsOf(<<compares[j]>>)

\* Every path of the query is linked, or followed by a comparison that can do
\* without.
LinksSuffice(root) ==
  \A compares \in Groups : \A i \in DOMAIN compares :
    FullyLinked(root, compares[i].left.path) \/ KeepsUnbound(compares, i)

\* In a row of a SELECT the variables of path and of what leads to it, which the
\* join cache has, stand on one way along path.
Leads(mu, joins, path) ==
  FullyLinked(mu[Root], path) =>
    \E f \in Paths(mu[Root], Prefixes(path)) :
      \A p \in Prefixes(path) : joins[p] \in DOMAIN mu /\ mu[joins[p]] = f[p]

KeyValues(n, ref) == {t[3] : t \in {u \in graph : u[1] = n /\ u[2] = ref.field}}

\* Wherever the first links of path lead from the root, its next link leads on.
GoesOn(root, path) ==
  \A p \in Prefixes(path) \ {<<>>} :
    \A f \in Paths(root, Prefixes(Front(p))) : Targets(f[Front(p)], p) # {}

\* The path of a sort key leads on from the root, whichever way, to the value v alone.
HasKey(root, ref, v) ==
  LET ways == Paths(root, Prefixes(ref.path))
  IN  /\ ways # {} /\ FullyLinked(root, ref.path) /\ GoesOn(root, ref.path)
      /\ \A f \in ways : KeyValues(f[ref.path], ref) = {v}

SortKey(root, key) ==
  LET v == CHOOSE v \in {t[3] : t \in graph} : HasKey(root, key.ref, v)
  IN  IF key.desc THEN -v ELSE v

\* The root has one value of each sort key.
Sortable(root) ==
  \A i \in DOMAIN query.order_by :
    \E v \in {t[3] : t \in graph} : HasKey(root, query.order_by[i].ref, v)

Unpaged == query.limit = None /\ query.offset = None

-----------------------------------------------------------------------------
(* Properties                                                              *)

\* The resources that all() answers are those the filters mean, for every root
\* whose links along the query's paths exist, or are only asked about with one
\* != each: comparisons of one path speak of one resource, disjuncts of their
\* own ones, a value may be missing or one of several, and toggles, values() and
\* polymorphic() combine with all of it (compile_where, compile_compare,
\* compile_or, compile_not).
AnswersMean ==
  answer.call = "all" /\ Unpaged =>
    \A root \in {t[1] : t \in graph} :
      LinksSuffice(root) /\ Sortable(root) =>
        (root \in ToSet(answer.result) <=> Means(root))

\* The guides say of links that may be missing that they matter as little as they
\* do to the meaning: != keeps a root without the link, and ==, ordering and in_
\* need a value (_follow_path, compile_compare).
MissingLinksMean ==
  answer.call = "all" /\ Unpaged /\ query.order_by = <<>> =>
    \A root \in {t[1] : t \in graph} :
      root \in ToSet(answer.result) <=> Means(root)

\* Whichever filter or sort key follows a path first, and whatever follows it or goes
\* on from it later: if the path is linked, its one variable stands for a resource
\* that the path leads to from the root of the row, by way of what the variables of
\* the hops before stand for (_follow_path, _relationship_hop_patterns).
JoinsLead ==
  ~Fails(FALSE) =>
    LET joins == CompileOrder(Class, CompileFilters(Class, query), query.order_by).compiled.joins
    IN  \A mu \in Rows(CompileWhere(Class, query, FALSE)) :
          \A path \in DOMAIN joins : Leads(mu, joins, path)

\* An answer is sorted: of two roots that have their sort keys, the one with the
\* lesser key is first, also behind an offset and within a limit
\* (_resolve_order_target, compile_where).
AnswersSorted ==
  answer.call = "all" /\ query.order_by # <<>> =>
    \A i, j \in DOMAIN answer.result :
      LET key(n) == [k \in DOMAIN query.order_by |->
                       SortKey(answer.result[n], query.order_by[k])]
      IN  i < j /\ Sortable(answer.result[i]) /\ Sortable(answer.result[j])
            => ~Precedes(key(j), key(i))

\* The calls of one query agree: where links suffice, count() is never less than the
\* number of resources that all() would answer without paging, and is that number
\* when every root has its sort keys; first() is a first of those, None only when
\* there is none (Query.count, Query.first, QueryState.compile).
CallsAgree ==
  LET roots == {t[1] : t \in graph}
  IN  /\ answer.call = "count" /\ ~Fails(FALSE) /\ (\A root \in roots : LinksSuffice(root)) =>
           \A s \in Pages(None, None) :
             /\ Len(s) <= answer.result
             /\ (\A root \in roots : Sortable(root)) => Len(s) = answer.result
      /\ answer.call = "first" =>
           \E s \in Pages(None, None) : answer.result = (IF s = <<>> THEN <<>> ELSE <<Head(s)>>)
=============================================================================
