----------------------------- MODULE Documents -----------------------------
(***************************************************************************)
(* Model instances (Python objects), the RDF graph they are stored in, and *)
(* the mapping between the two: model.py, fields.py, rdf_bridge.py and     *)
(* hydration.py of sparqlmodel.                                            *)
(*                                                                         *)
(* A class has one scalar field (name) and one relationship field          *)
(* annotated `Related | IRI | None`; a resource is always used with one    *)
(* class, so a (class, IRI) key is an IRI.  A class without related        *)
(* resources has no relationship field.                                    *)
(***************************************************************************)
EXTENDS Integers, FiniteSets, Sequences

CONSTANTS
  Iris,       \* resources
  Names,      \* values of the scalar field
  Obj,        \* addresses of the Python objects alive at the same time
  None,       \* Python's None
  Unset,      \* None in a field that was never assigned (model_fields_set)
  Children,   \* Children[i]: resources the relationship of i's class may hold
  Cascading,  \* resources whose class declares Relationship(cascade=True)
  Depths      \* eager-load depths in use, among those the code accepts

ASSUME ItemAssumption ==
  /\ None \notin Iris \cup Obj \cup Names
  /\ Unset \notin Iris \cup Obj \cup {None}
  /\ Iris \cap Obj = {}

ASSUME ShapeAssumption ==
  /\ Children \in [Iris -> SUBSET Iris]
  /\ Cascading \subseteq Iris
  /\ Obj \subseteq Nat /\ IsFiniteSet(Obj)
  /\ Depths \subseteq 0 .. 2

-----------------------------------------------------------------------------
(* Python objects                                                          *)

Item == Iris \cup Obj \cup {None, Unset}

Node == [iri : Iris \cup {None}, name : Names \cup {None}, rel : Item]

\* An object nobody holds a reference to any more.
Blank == [iri |-> None, name |-> None, rel |-> Unset]

HasRelationship(i) == Children[i] # {}

\* What is met by following the relationship field from o: o itself, then the
\* embedded objects, and last what the innermost of them holds instead of one.
Chain(h, o) ==
  LET onward[c \in Seq(Item)] ==
        LET item == c[Len(c)]
        IN  IF item \in Obj /\ Len(c) <= Cardinality(Obj)
              THEN onward[Append(c, h[item].rel)] ELSE c
  IN  onward[<<o>>]

Embeds(h, o) == LET c == Chain(h, o) IN {n \in DOMAIN c : c[n] \in Obj}

ChainObjs(h, o) == LET c == Chain(h, o) IN {c[n] : n \in DOMAIN c} \cap Obj

\* The objects kept alive by a set of references.
Reachable(h, roots) ==
  UNION {IF h[o].rel \in Obj THEN {o} \cup ChainObjs(h, o) ELSE {o} : o \in roots \cap Obj}

IriAt(h, o, n) == h[Chain(h, o)[n]].iri

\* The positions reached through cascade=True fields only.
CascadePositions(h, o) ==
  LET c == Chain(h, o)
  IN  {n \in Embeds(h, o) : \A m \in 1 .. n - 1 : h[c[m]].iri \in Cascading}

\* A composition tree that embeds a resource within itself cannot be written.
EmbedsCycle(h, o) ==
  \E n \in CascadePositions(h, o) :
     \E m \in 1 .. n - 1 : IriAt(h, o, m) = IriAt(h, o, n)

\* The composition tree: a resource met a second time is not walked again.
NestedModels(h, o) ==
  LET c == Chain(h, o)
  IN  {c[n] : n \in {k \in CascadePositions(h, o) :
                       \A m, l \in 1 .. k : m < l => h[c[m]].iri # h[c[l]].iri}}

Materialized(h, o) == h[o].rel \in Obj

\* Every relationship down to `depth` holds an object or an IRI.
DepthSatisfied(h, o, depth) ==
  \A n \in Embeds(h, o) :
     n <= depth /\ HasRelationship(IriAt(h, o, n))
        => h[Chain(h, o)[n]].rel \notin {None, Unset}

-----------------------------------------------------------------------------
(* Triples.  "note" stands for any predicate the class does not declare.   *)

Triple == (Iris \X {"type"} \X {"Class"}) \cup (Iris \X {"name"} \X Names)
            \cup (Iris \X {"rel", "note"} \X Iris)

Typed(g, i) == <<i, "type", "Class">> \in g

NamesIn(g, i) == {n \in Names : <<i, "name", n>> \in g}

LinksIn(g, i) == {j \in Iris : <<i, "rel", j>> \in g}

\* The resource an item of a relationship field points at.
TargetOf(h, item) ==
  IF item \in Obj THEN {h[item].iri} ELSE {item} \cap Iris

InstanceTriples(h, o) ==
  LET i == h[o].iri
  IN  {<<i, "type", "Class">>, <<i, "name", h[o].name>>}
        \cup {<<i, "rel", j>> : j \in TargetOf(h, h[o].rel)}

\* What put and add write: every object of the composition tree.
ModelGraph(h, o) == UNION {InstanceTriples(h, m) : m \in NestedModels(h, o)}

-----------------------------------------------------------------------------
(* Hydration.  A load is the sequence of rows read from the root down; row *)
(* k holds row k+1 as an embedded object, the last row holds what it says. *)
(* Of several values of one property the mapper takes one (with a warning) *)
(* and without a value for the required name validation fails.             *)

Row(i, n, t) == [iri |-> i, name |-> n, rel |-> t]

RowNames(g, i) == IF NamesIn(g, i) = {} THEN {None} ELSE NamesIn(g, i)

RowItems(g, i, depth) ==
  IF depth = 0 \/ ~HasRelationship(i) THEN {Unset}
  ELSE IF LinksIn(g, i) = {} THEN {None} ELSE LinksIn(g, i)

\* Rows from i down, `below` giving the loads of the embedded resource.
LoadsFrom(g, i, items, below) ==
  UNION {IF t \in Iris /\ i \in Cascading /\ Typed(g, t)
           THEN {<<Row(i, n, t)>> \o rest : rest \in below[t]}
           ELSE {<<Row(i, n, t)>>}
         : n \in RowNames(g, i), t \in items}

LoadsAtDepth(g, depth, below) ==
  [i \in Iris |-> LoadsFrom(g, i, RowItems(g, i, depth), below)]

Loads(g, root, depth) ==
  LET none == [i \in Iris |-> {}]
      flat == LoadsAtDepth(g, 0, none)
      near == LoadsAtDepth(g, 1, flat)
      deep == LoadsAtDepth(g, 2, near)
  IN  IF depth = 0 THEN flat[root] ELSE IF depth = 1 THEN near[root] ELSE deep[root]

\* A load raises on a missing required value and on a cycle of resources.
LoadRaises(rows) ==
  \/ \E k \in DOMAIN rows : rows[k].name = None
  \/ \E k, l \in DOMAIN rows : k < l /\ rows[k].iri = rows[l].iri

\* New objects take the lowest free addresses, when there are n of them.
FirstFree(n, used) ==
  LET free == Obj \ used
  IN  [k \in 1 .. n |-> CHOOSE o \in free : Cardinality({x \in free : x < o}) = k - 1]

Allocations(n, used) ==
  IF Cardinality(Obj \ used) < n THEN {}
  ELSE {new \in {FirstFree(n, used)} :
          /\ new \in [1 .. n -> Obj \ used]
          /\ \A j, k \in 1 .. n : new[j] = new[k] => j = k}

Loaded(h, rows, new) ==
  [o \in Obj |->
     IF \E k \in DOMAIN new : new[k] = o
       THEN LET k == CHOOSE k \in DOMAIN new : new[k] = o
            IN  [rows[k] EXCEPT !.rel = IF k < Len(rows) THEN new[k + 1] ELSE @]
       ELSE h[o]]
=============================================================================
