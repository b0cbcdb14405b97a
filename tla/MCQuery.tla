------------------------------ MODULE MCQuery ------------------------------
(***************************************************************************)
(* Small instances of Query for TLC: persons who may work for              *)
(* organizations, which sit and may be somewhere, after tests/models.py.   *)
(***************************************************************************)
EXTENDS QueryMeaning, TLC

CONSTANTS a, b, x, y, z, Person, Employee, Organization, Place

Link(to, nullable, iri) == [to |-> to, nullable |-> nullable, iri |-> iri]

MCSchema ==
  [person |-> [type |-> Person, subtypes |-> {Person, Employee},
               scalars |-> {"name", "alt_id"}, iris |-> {"alt_id"},
               links |-> [works_for |-> Link("organization", TRUE, TRUE),
                          department |-> Link("organization", FALSE, FALSE)]],
   organization |-> [type |-> Organization, subtypes |-> {Organization},
                     scalars |-> {"name", "alt_id"}, iris |-> {"alt_id"},
                     links |-> [located_in |-> Link("place", TRUE, FALSE),
                                seat |-> Link("place", FALSE, TRUE)]],
   place |-> [type |-> Place, subtypes |-> {Place}, scalars |-> {"name"}, iris |-> {},
              links |-> [l \in {} |-> None]]]

\* Whom a works for and how x is called.
Works ==
  {[orgs |-> {}, names |-> {1}], [orgs |-> {y}, names |-> {1}],
   [orgs |-> {x, y}, names |-> {}], [orgs |-> {x, y}, names |-> {1, 2}]}

\* b works for x or nobody; x has perhaps no type; names coincide.
SmallGraphs ==
  {{<<a, "type", Person>>, <<y, "type", Organization>>, <<z, "type", Place>>,
    <<a, "name", 1>>, <<y, "name", 2>>, <<y, "located_in", z>>, <<y, "seat", z>>, <<z, "name", 1>>}
     \cup {<<a, link, o>> : link \in {"works_for", "department"}, o \in w.orgs}
     \cup {<<x, "name", n>> : n \in w.names}
     \cup extra
   : w \in Works,
     extra \in {{<<b, "type", Employee>>},
                {<<b, "type", Person>>, <<b, "name", 2>>, <<b, "works_for", x>>,
                 <<x, "type", Organization>>}}}

Name == FieldRef("person", <<>>, "name")
OrgName == FieldRef("person", <<"works_for">>, "name")
OrgPlace == FieldRef("person", <<"works_for">>, "located_in")
PlaceName == FieldRef("person", <<"works_for", "located_in">>, "name")
SeatName == FieldRef("person", <<"works_for", "seat">>, "name")
DeptName == FieldRef("person", <<"department">>, "name")

Atoms == {Compare(OrgName, "eq", 1), Compare(OrgName, "ne", 2), Compare(DeptName, "gt", 1),
          Compare(OrgPlace, "is", None), Compare(PlaceName, "in", {1})}

MCFilters ==
  Atoms \cup
  {Conjoin(Compare(OrgName, "eq", 1), Compare(OrgPlace, "is_not", None)),
   Disjoin(Compare(OrgName, "eq", 2), Compare(Name, "ne", 1)),
   NotExpr(Disjoin(Compare(OrgName, "eq", 1),
                   Conjoin(Compare(Name, "eq", 1), Compare(OrgName, "ne", 1)))),
   PropertyPath("eq", <<"works_for", "name">>, 1),
   IriStr(FieldRef("person", <<"works_for">>, "alt_id"), "ne", y),
   NotExpr(Compare(Name, "eq", 1))}

\* Comparisons that docs/guides/queries.md speaks of for links that may be missing.
LinkFilters == {Compare(OrgName, "in", {1, 2}), Compare(OrgName, "gt", 1), Compare(OrgName, "ne", 2)}

MCSortKeys ==
  {[ref |-> Name, desc |-> FALSE], [ref |-> OrgName, desc |-> TRUE], [ref |-> SeatName, desc |-> FALSE]}

AllBuilders == {"where", "order_by", "limit", "offset", "polymorphic", "values",
                "use_not_exists_for_ne", "use_inequality_for_ne",
                "use_optional_for_comparisons"}
=============================================================================
