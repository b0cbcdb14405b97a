------------------------------ MODULE Cascade ------------------------------
(***************************************************************************)
(* Which subjects a put or a delete removes, and which of their triples:   *)
(* the persistence policy of graph.py.                                     *)
(***************************************************************************)
EXTENDS Documents

NestedIris(h, o) == {h[m].iri : m \in NestedModels(h, o)}

\* Links from subjects outside `inside` keep a resource alive.
ReferencedFromOutside(g, j, inside) ==
  \E t \in g : t[2] \in {"rel", "note"} /\ t[3] = j /\ t[1] \notin inside

\* Slip: orphans are removed without looking for links from elsewhere.
OrphanedUnasked(h, g, o, inside) ==
  IF h[o].iri \in Cascading
    THEN LinksIn(g, h[o].iri) \ (NestedIris(h, o) \cup TargetOf(h, h[o].rel)) ELSE {}

\* What the relationship of one nested object no longer holds although the
\* graph still links it, unless something outside the put links it too.
OrphanedTargets(h, g, o, inside) ==
  LET i == h[o].iri
      protected == NestedIris(h, o) \cup TargetOf(h, h[o].rel)
  IN  IF i \in Cascading /\ HasRelationship(i)
        THEN {j \in LinksIn(g, i) \ protected : ~ReferencedFromOutside(g, j, inside)}
        ELSE {}

\* Subjects rewritten by a put: the composition tree and its orphans.
PutSubjects(h, g, o) ==
  NestedIris(h, o)
    \cup UNION {OrphanedTargets(h, g, m, NestedIris(h, o)) : m \in NestedModels(h, o)}

\* Subjects removed by a delete: the composition tree only.
DeleteSubjects(h, o) == NestedIris(h, o)

\* Slip: relationship predicates are forgotten.
ScalarPredicates(i) == {"type", "name"}

DeclaredPredicates(i) ==
  {"type", "name"} \cup (IF HasRelationship(i) THEN {"rel"} ELSE {})

OwnedTriples(g, subjects) ==
  {t \in g : t[1] \in subjects /\ t[2] \in DeclaredPredicates(t[1])}
=============================================================================
