------------------------------ MODULE Compiler ------------------------------
(***************************************************************************)
(* compiler.py: filter expressions to the group and filters of a SELECT.   *)
(* Text is abstracted to the elements of Sparql; variables are numbered,   *)
(* the root is 0.  A predicate is named by its field.                      *)
(***************************************************************************)
EXTENDS Expressions, Sparql

CONSTANTS
  Schema,    \* class |-> [type, subtypes, scalars, iris, links]: iris are the scalars
             \* annotated IRI, subtypes include the type itself; a link is
             \* [to, nullable, iri]: target class, allows None, allows an IRI
  Type       \* the predicate rdf:type

Root == 0

\* What has been compiled so far.  joins is the join_cache: the variable of each
\* relationship path that was followed, the root's for the empty path.
Start(next) == [group |-> <<>>, filters |-> <<>>, next |-> next,
                joins |-> [p \in {<<>>} |-> Root]]

\* The class a path leads to, None when a hop is no relationship of its class.
NextClass(c, link) ==
  IF c # None /\ link \in DOMAIN Schema[c].links THEN Schema[c].links[link].to ELSE None

ClassAt(cls, path) == FoldLeft(NextClass, cls, path)

\* The edge of one hop; the target's type is asked for when it must be embedded.
HopPatterns(from, link, to, rel) ==
  <<Triple(from, link, to)>>
    \o IF rel.iri THEN <<>> ELSE <<TripleTo(to, Type, Schema[rel.to].type)>>

\* Slip: a hop starts at the root, not where the one before it ended.
HopFromRoot(c, path, rel) ==
  LET hop == HopPatterns(Root, Last(path), c.next, rel)
  IN  [c EXCEPT !.group = @ \o IF rel.nullable THEN <<Optional(hop)>> ELSE hop,
                !.joins = Bind(@, path, c.next),
                !.next = @ + 1]

HopAlong(c, path, rel) ==
  LET hop == HopPatterns(c.joins[Front(path)], Last(path), c.next, rel)
  IN  [c EXCEPT !.group = @ \o IF rel.nullable THEN <<Optional(hop)>> ELSE hop,
                !.joins = Bind(@, path, c.next),
                !.next = @ + 1]

Hop(c, cls, path) ==
  HopAlong(c, path, Schema[ClassAt(cls, Front(path))].links[Last(path)])

\* What is followed on the way of a path, hop by hop.
Stages(path) == [n \in 1 .. Len(path) |-> SubSeq(path, 1, n)]

\* Slip: every comparison follows its path anew.
FollowPathAnew(acc, cls, path) ==
  FoldLeft(LAMBDA c, partial : Hop(c, cls, partial), acc, Stages(path))

\* A path that was followed before is joined, not followed again.
FollowPath(acc, cls, path) ==
  FoldLeft(LAMBDA c, partial : IF partial \in DOMAIN c.joins THEN c ELSE Hop(c, cls, partial),
           acc, Stages(path))

\* Following the path has just added an OPTIONAL block.
AddsOptional(acc, c) ==
  \E i \in Len(acc.group) + 1 .. Len(c.group) : c.group[i].kind = "optional"

\* fields says which fields of each class will do.
FieldRaises(cls, ref, fields) ==
  \/ ref.model # cls
  \/ ClassAt(cls, ref.path) = None
  \/ ref.field \notin fields[ClassAt(cls, ref.path)]

Scalars == [c \in DOMAIN Schema |-> Schema[c].scalars]
IriFields == [c \in DOMAIN Schema |-> Schema[c].iris]
Links == [c \in DOMAIN Schema |-> DOMAIN Schema[c].links]

CompareRaises(cls, e) ==
  IF e.op \in {"is", "is_not"} THEN FieldRaises(cls, e.left, Links)
  ELSE \/ e.right = None \/ (e.op = "in" /\ e.right = {})
       \/ FieldRaises(cls, e.left, Scalars)

\* In what follows c is what following the comparison's path has made of acc.

CompilePresence(c, cls, e) ==
  LET rel == Schema[ClassAt(cls, e.left.path)].links[e.left.field]
      hop == HopPatterns(c.joins[e.left.path], e.left.field, c.next, rel)
  IN  [c EXCEPT !.group = Append(@, Optional(hop)),
                !.filters = Append(@, IF e.op = "is" THEN NotBoundF(c.next) ELSE BoundF(c.next)),
                !.next = @ + 1]

CompileFollowed(acc, c, cls, e, notExists) ==
  LET node == c.joins[e.left.path]
      guarded(f) == IF AddsOptional(acc, c) THEN EitherF(NotBoundF(node), f) ELSE f
      value == Triple(node, e.left.field, c.next)
      compared == CompareF(c.next, e.op, e.right)
  IN  CASE e.op \in {"is", "is_not"} -> CompilePresence(c, cls, e)
        [] e.op = "eq" -> [c EXCEPT !.group = Append(@, TripleTo(node, e.left.field, e.right))]
        [] e.op = "ne" /\ notExists ->
             [c EXCEPT !.filters = Append(@, guarded(LacksF(node, e.left.field, e.right)))]
        [] e.op = "in" ->
             [c EXCEPT !.group = Append(@, value), !.filters = Append(@, compared),
                       !.next = @ + 1]
        [] OTHER ->
             [c EXCEPT !.group = Append(@, value), !.filters = Append(@, guarded(compared)),
                       !.next = @ + 1]

CompileCompare(acc, cls, e, notExists) ==
  CompileFollowed(acc, FollowPath(acc, cls, e.left.path), cls, e, notExists)

\* The string of the variable's own IRI: the last field only has to exist.
CompareNode(c, e) ==
  [c EXCEPT !.filters = Append(@, CompareF(c.joins[e.left.path], e.op, e.right))]

CompileIriStr(acc, cls, e) == CompareNode(FollowPath(acc, cls, e.left.path), e)

CompileProperty(acc, e) ==
  [acc EXCEPT !.group = Append(@, PathTo(Root, e.path, e.right))]

\* EXISTS blocks share nothing but the root with the group around them.
BlockOf(c) == [block |-> ExistsF(c.group, c.filters), next |-> c.next]

ExistsBlock(acc, cls, compares, notExists) ==
  BlockOf(FoldLeft(LAMBDA c, e : CompileCompare(c, cls, e, notExists),
                   Start(acc.next), compares))

Branch(e) == IF e.kind = "and" THEN e.parts ELSE <<e>>

\* One EXISTS block per disjunct.
AddBlock(d, made) == [blocks |-> Append(d.blocks, made.block), next |-> made.next]

OrBlocks(acc, cls, branches, notExists) ==
  FoldLeft(LAMBDA d, e : AddBlock(d, ExistsBlock(d, cls, Branch(e), notExists)),
           [blocks |-> <<>>, next |-> acc.next], branches)

AddBlocks(acc, d, negated) ==
  [acc EXCEPT !.filters = Append(@, IF negated THEN NoneF(d.blocks) ELSE AnyF(d.blocks)),
              !.next = d.next]

CompileOr(acc, cls, e, notExists) ==
  AddBlocks(acc, OrBlocks(acc, cls, e.parts, notExists), FALSE)

\* What is compiled for a negated comparison or conjunction is NOT (EXISTS { }),
\* which SPARQL does not parse: the grammar has NOT EXISTS without parentheses.
NotSparql == [kind |-> "not sparql"]

CompileNot(acc, cls, e, notExists) ==
  IF e.inner.kind = "or"
    THEN AddBlocks(acc, OrBlocks(acc, cls, e.inner.parts, notExists), TRUE)
    ELSE [acc EXCEPT !.filters = Append(@, NotSparql)]

CompileFilter(acc, cls, e, notExists) ==
  CASE e.kind = "compare"  -> CompileCompare(acc, cls, e, notExists)
    [] e.kind = "iri_str"  -> CompileIriStr(acc, cls, e)
    [] e.kind = "property" -> CompileProperty(acc, e)
    [] e.kind = "not"      -> CompileNot(acc, cls, e, notExists)
    [] e.kind = "or"       -> CompileOr(acc, cls, e, notExists)

-----------------------------------------------------------------------------
(* QueryError at compilation                                               *)

BranchRaises(cls, e) ==
  \/ e.kind \notin {"compare", "and"}
  \/ \E i \in DOMAIN Branch(e) :
       Branch(e)[i].kind # "compare" \/ CompareRaises(cls, Branch(e)[i])

DisjunctsRaise(cls, e) == \E i \in DOMAIN e.parts : BranchRaises(cls, e.parts[i])

\* What else not_() is given raises here or, as NotSparql, when it is executed.
FilterRaises(cls, e) ==
  CASE e.kind = "compare"  -> CompareRaises(cls, e)
    [] e.kind = "iri_str"  -> e.op \notin {"eq", "ne", "in"} \/ FieldRaises(cls, e.left, IriFields)
    [] e.kind = "property" -> e.op # "eq" \/ e.path = <<>>
    [] e.kind = "not"      -> IF e.inner.kind = "or" THEN DisjunctsRaise(cls, e.inner)
                              ELSE BranchRaises(cls, e.inner)
    [] e.kind = "or"       -> DisjunctsRaise(cls, e)
    [] OTHER               -> TRUE

-----------------------------------------------------------------------------
(* compile_where                                                           *)

\* A conjunction is split into its parts; disjunctions are compiled last.
Conjuncts(exprs) == FoldLeft(LAMBDA s, e : s \o Branch(e), <<>>, exprs)

Deferred(exprs) == FoldLeft(LAMBDA s, e : IF e.kind = "or" THEN Append(s, e) ELSE s, <<>>, exprs)

Immediate(exprs) == FoldLeft(LAMBDA s, e : IF e.kind = "or" THEN s ELSE Append(s, e), <<>>, exprs)

InOrder(exprs) == Immediate(Conjuncts(exprs)) \o Deferred(Conjuncts(exprs))

TypePatterns(acc, cls, polymorphic) ==
  IF polymorphic
    THEN [acc EXCEPT !.group = <<Triple(Root, Type, acc.next)>>,
                     !.filters = <<CompareF(acc.next, "in", Schema[cls].subtypes)>>,
                     !.next = @ + 1]
    ELSE [acc EXCEPT !.group = <<TripleTo(Root, Type, Schema[cls].type)>>]

\* Slip: the sort key is looked for at the root.
OrderUnfollowed(acc, cls, key) ==
  [acc EXCEPT !.group = Append(@, Triple(Root, key.ref.field, acc.next)), !.next = @ + 1]

AddOrder(acc, c, key) ==
  LET line == Triple(c.joins[key.ref.path], key.ref.field, c.next)
  IN  [c EXCEPT !.group = Append(@, IF AddsOptional(acc, c) THEN Optional(<<line>>) ELSE line),
                !.next = @ + 1]

OrderPatterns(acc, cls, key) == AddOrder(acc, FollowPath(acc, cls, key.ref.path), key)

\* The filters, after the patterns of the type.
CompileFilters(cls, q) ==
  FoldLeft(LAMBDA c, e : CompileFilter(c, cls, e, q.use_not_exists_for_ne),
           TypePatterns(Start(1), cls, q.polymorphic), InOrder(q.expressions))

\* keys are the variables to sort by, each with its direction.
AddKey(sorted, c, key) ==
  [compiled |-> c,
   keys |-> Append(sorted.keys, [variable |-> c.next - 1, desc |-> key.desc])]

CompileOrder(cls, c, order_by) ==
  FoldLeft(LAMBDA sorted, key : AddKey(sorted, OrderPatterns(sorted.compiled, cls, key), key),
           [compiled |-> c, keys |-> <<>>], order_by)

Select(sorted, rows) ==
  [group |-> (IF rows = <<>> THEN <<>> ELSE <<ValuesOf(Root, ToSet(rows))>>)
               \o sorted.compiled.group,
   filters |-> sorted.compiled.filters, keys |-> sorted.keys]

\* The compiled SELECT; count() is not sorted.
CompileWhere(cls, q, count) ==
  Select(CompileOrder(cls, CompileFilters(cls, q), IF count THEN <<>> ELSE q.order_by),
         q.values_bindings)

WhereRaises(cls, q, count) ==
  \/ \E i \in DOMAIN InOrder(q.expressions) : FilterRaises(cls, InOrder(q.expressions)[i])
  \/ ~count /\ \E i \in DOMAIN q.order_by : FieldRaises(cls, q.order_by[i].ref, Scalars)
=============================================================================
